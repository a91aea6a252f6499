-------------------------------- MODULE Sso --------------------------------
(***************************************************************************)
(* Signing in to another site: the single-use code (sso.service.ts, issued *)
(* and redeemed by auth.controller.ts) and the registered app it is bound  *)
(* to (apps.service.ts), whose verification an admin grants                *)
(* (admin.service.ts) and whose origins and secret its owner changes.      *)
(*                                                                         *)
(* One identity, one app.  A return target is its origin: two the app may  *)
(* register, "local" (loopback) and "wallet" (the operator's allowlist,    *)
(* which needs no app).  A code is redeemed in the code's four awaits, so  *)
(* everything else may happen between them.                                *)
(***************************************************************************)
EXTENDS Integers

CONSTANTS
    Browsers,
    Shops,          \* back ends redeeming codes
    SsoCodes,
    SsoTtl,         \* CODE_TTL_MS
    VerifiedFor,    \* expiresAt of a verification grant
    SecretFor, GraceFor,    \* APP_CLIENT_SECRET_MAX_AGE, APP_CLIENT_SECRET_GRACE
    MaxSecrets,     \* bound: secret rotations
    MaxEdits,       \* bound: edits by owner, admin and user
    SsoHorizon      \* bound: time

ASSUME SsoConstants == SsoTtl \in Nat

Origins == {"home", "moved"}
Targets == Origins \cup {"local", "wallet"}

VARIABLES
    app,        \* pid_apps
    code,       \* sso_codes
    grant,      \* sso_grants, per origin
    login,      \* each browser's request for a code
    redeem,     \* each exchange under way
    edit,       \* the owner's update under way
    lapsed,     \* a reader saw an overdue verification and has not cleared it yet
    exchanged,  \* exchanges that answered, per code
    ssoClock, edits

ssoVars == <<app, code, grant, login, redeem, edit, lapsed, exchanged, ssoClock, edits>>
appRest == <<code, grant, login, redeem, exchanged, ssoClock>>

NoRequest == [pc |-> "idle"]
NoCode == [on |-> FALSE]

SsoInit ==
    /\ app = [active |-> TRUE, verified |-> FALSE, until |-> 0, origins |-> {"home"},
              secret |-> 0, secretUntil |-> 0, prev |-> 0, prevUntil |-> 0]
    /\ code = [c \in SsoCodes |-> NoCode] /\ exchanged = [c \in SsoCodes |-> 0]
    /\ grant = [o \in Targets |-> "none"]
    /\ login = [b \in Browsers |-> NoRequest] /\ redeem = [s \in Shops |-> NoRequest]
    /\ edit = NoRequest /\ lapsed = FALSE /\ ssoClock = 0 /\ edits = 0

\* until = 0 stands for a grant without an end.
Overdue == app.verified /\ app.until # 0 /\ app.until <= ssoClock
isVerificationActive == app.verified /\ ~Overdue

---------------------------------------------------------------------------
\* Issuing

\* resolveReturnTo; a loopback or allowlisted target counts as verified.
resolveReturnTo(b, to, bound, consent) ==
    /\ login[b] = NoRequest
    /\ IF bound THEN app.active /\ to \in app.origins \cup {"local"} ELSE to \in {"local", "wallet"}
    /\ login' = [login EXCEPT ![b] =
           [pc |-> "gate", to |-> to, bound |-> bound, consent |-> consent,
            sure |-> to \in {"local", "wallet"} \/ isVerificationActive]]
    /\ lapsed' = (lapsed \/ (bound /\ Overdue))
    /\ UNCHANGED <<app, code, grant, redeem, edit, exchanged, ssoClock, edits>>

\* requireVerifiedForAutoIssue on every login; isRevoked on the consent page.
Gate(b) == IF login[b].consent THEN grant[login[b].to] # "revoked" ELSE login[b].sure

\* issue: a public client's code carries a challenge.
issue(b, c, challenge) ==
    /\ login[b].pc = "gate" /\ Gate(b)
    /\ ~code[c].on
    /\ login[b].bound => app.active /\ (app.secret # 0 \/ challenge)
    /\ code' = [code EXCEPT ![c] =
           [on |-> TRUE, used |-> FALSE, to |-> login[b].to, bound |-> login[b].bound, challenge |-> challenge,
            consent |-> login[b].consent, sure |-> login[b].sure, until |-> ssoClock + SsoTtl]]
    /\ login' = [login EXCEPT ![b] = NoRequest]
    /\ lapsed' = (lapsed \/ (login[b].bound /\ Overdue))
    /\ UNCHANGED <<app, grant, redeem, edit, exchanged, ssoClock, edits>>

\* The gate, or the issue, refuses, or the user leaves.
leave(b) ==
    /\ login[b] # NoRequest /\ login' = [login EXCEPT ![b] = NoRequest]
    /\ UNCHANGED <<app, code, grant, redeem, edit, lapsed, exchanged, ssoClock, edits>>

---------------------------------------------------------------------------
\* Redeeming

\* consume: the code, its lifetime, its target, its challenge.
consume(s, c) ==
    /\ redeem[s] = NoRequest
    /\ code[c].on /\ ~code[c].used /\ ssoClock <= code[c].until
    /\ redeem' = [redeem EXCEPT ![s] = [pc |-> IF code[c].bound THEN "app" ELSE "mark", code |-> c]]
    /\ UNCHANGED <<app, code, grant, login, edit, lapsed, exchanged, ssoClock, edits>>

\* A public client needs no secret; the previous secret has its grace.
clientSecretValid(k) ==
    \/ app.secret = 0
    \/ ssoClock < app.secretUntil /\ (k = app.secret \/ (k = app.prev /\ k # 0 /\ ssoClock < app.prevUntil))

\* The app: active, its secret k right, no challengeless code of a public client
\* or of an unverified app.
consumeApp(s, k) ==
    /\ redeem[s].pc = "app"
    /\ LET c == code[redeem[s].code]
           ok == /\ app.active /\ clientSecretValid(k)
                 /\ c.challenge \/ (app.secret # 0 /\ (isVerificationActive \/ c.to = "local"))
       IN  redeem' = [redeem EXCEPT ![s] = IF ok THEN [@ EXCEPT !.pc = "mark"] ELSE NoRequest]
    /\ lapsed' = (lapsed \/ Overdue)
    /\ UNCHANGED <<app, code, grant, login, edit, exchanged, ssoClock, edits>>

\* Mutant of Unspent: the double-consume guard is gone.
UnspentNot(c) == TRUE

Unspent(c) == ~code[c].used

\* The guard: consumed where consumedAt is null, or a replay.
markConsumed(s) ==
    /\ redeem[s].pc = "mark"
    /\ LET c == redeem[s].code
       IN  IF Unspent(c)
           THEN /\ code' = [code EXCEPT ![c].used = TRUE]
                /\ redeem' = [redeem EXCEPT ![s].pc = "answer"]
           ELSE UNCHANGED code /\ redeem' = [redeem EXCEPT ![s] = NoRequest]
    /\ UNCHANGED <<app, grant, login, edit, lapsed, exchanged, ssoClock, edits>>

\* The grant is recorded, or healed, and the identity returned.
answer(s) ==
    /\ redeem[s].pc = "answer"
    /\ LET c == redeem[s].code
       IN  /\ grant' = [grant EXCEPT ![code[c].to] = "granted"]
           /\ exchanged' = [exchanged EXCEPT ![c] = @ + 1]
    /\ redeem' = [redeem EXCEPT ![s] = NoRequest]
    /\ UNCHANGED <<app, code, login, edit, lapsed, ssoClock, edits>>

---------------------------------------------------------------------------
\* The app, its owner, its user and the admin

\* findActive's and expireOverdueVerifications' write, by client id.
clearLapsed ==
    /\ lapsed /\ lapsed' = FALSE
    /\ app' = [app EXCEPT !.verified = FALSE]
    /\ UNCHANGED <<appRest, edit, edits>>

Edit == edits < MaxEdits /\ edits' = edits + 1

\* update reads the app ...
update(origins) ==
    /\ Edit /\ edit = NoRequest
    /\ edit' = [pc |-> "write", origins |-> origins, revoke |-> origins # app.origins /\ isVerificationActive]
    /\ UNCHANGED <<app, appRest, lapsed>>

\* ... and writes; new origins end the verification it saw.
updateWrite ==
    /\ edit.pc = "write" /\ edit' = NoRequest
    /\ app' = [app EXCEPT !.origins = edit.origins, !.verified = @ /\ ~edit.revoke]
    /\ UNCHANGED <<appRest, lapsed, edits>>

\* update of isActive.
setActive ==
    /\ Edit /\ app' = [app EXCEPT !.active = ~@]
    /\ UNCHANGED <<appRest, edit, lapsed>>

rotateSecret ==
    /\ Edit /\ app.secret < MaxSecrets
    /\ app' = [app EXCEPT !.secret = @ + 1, !.secretUntil = ssoClock + SecretFor, !.prev = app.secret,
                          !.prevUntil = IF app.secret = 0 THEN 0 ELSE ssoClock + GraceFor]
    /\ UNCHANGED <<appRest, edit, lapsed>>

\* grantVerification, with and without an end.
grantVerification(yes, until) ==
    /\ Edit
    /\ app' = [app EXCEPT !.verified = yes, !.until = IF yes THEN until ELSE 0]
    /\ UNCHANGED <<appRest, edit, lapsed>>

\* setAppVerified keeps the date of an earlier grant.
setAppVerified(yes) ==
    /\ Edit /\ app' = [app EXCEPT !.verified = yes]
    /\ UNCHANGED <<appRest, edit, lapsed>>

revokeGrant(o) ==
    /\ Edit /\ grant[o] # "none" /\ grant' = [grant EXCEPT ![o] = "revoked"]
    /\ UNCHANGED <<app, code, login, redeem, edit, lapsed, exchanged, ssoClock>>

SsoTick ==
    /\ ssoClock < SsoHorizon /\ ssoClock' = ssoClock + 1
    /\ UNCHANGED <<app, code, grant, login, redeem, edit, lapsed, exchanged, edits>>

SsoNext ==
    \/ \E b \in Browsers, to \in Targets, bound, consent \in BOOLEAN : resolveReturnTo(b, to, bound, consent)
    \/ \E b \in Browsers, c \in SsoCodes, challenge \in BOOLEAN : issue(b, c, challenge)
    \/ \E b \in Browsers : leave(b)
    \/ \E s \in Shops, c \in SsoCodes : consume(s, c)
    \/ \E s \in Shops, k \in 0..MaxSecrets : consumeApp(s, k)
    \/ \E s \in Shops : markConsumed(s) \/ answer(s)
    \/ \E o \in Origins : update({o})
    \/ \E yes \in BOOLEAN : setAppVerified(yes) \/ \E until \in {0, ssoClock + VerifiedFor} : grantVerification(yes, until)
    \/ \E o \in Targets : revokeGrant(o)
    \/ clearLapsed \/ updateWrite \/ setActive \/ rotateSecret \/ SsoTick

SsoSpec == SsoInit /\ [][SsoNext]_ssoVars

---------------------------------------------------------------------------
\* Properties

\* A code signs in one back end once, however many redeem it together; and a
\* code nobody consented to belongs to the wallet, a loopback target or an app
\* that was verified when the login resolved it, whatever owner and admin did
\* since.
CodesSpentOnce ==
    \A c \in SsoCodes :
        /\ exchanged[c] <= 1
        /\ exchanged[c] = 1 => code[c].used /\ (code[c].consent \/ code[c].sure)
============================================================================
