----------------------------- MODULE CookieJar -----------------------------
(***************************************************************************)
(* The PeridotID cookies of one browser (common/cookies.ts) and what the   *)
(* requests that set and clear them do (auth.controller.ts, auth.service.ts*)
(* called through the SDK's auth-client.ts).                               *)
(*                                                                         *)
(* A request carries the cookies of the moment it was sent; its Set-Cookie *)
(* headers take effect when the answer arrives, in one step.  In between,  *)
(* other tabs send requests, answers overtake one another or get lost.     *)
(*                                                                         *)
(* A lane is what a request acts for: the wallet's own, unscoped session,  *)
(* an app's scoped one (x-pid-scope), or another site's page, which has    *)
(* none.  A device is named by the first session opened on it.             *)
(***************************************************************************)
EXTENDS Integers, Sequences, TLC

CONSTANTS
    People,         \* pids
    Newcomers,      \* those without an identity at the start
    AppScopes,
    Fetches,        \* requests under way in this browser
    Absent,         \* no cookie
    MaxRows,        \* bound: sessions opened
    MaxStarts,      \* bound: Google sign-ins started
    MaxActs         \* bound: requests sent, cookies lapsed, sessions ended elsewhere

ASSUME JarConstants == Newcomers \subseteq People /\ Absent \notin People \cup Nat

VARIABLES
    opened,         \* sessions, in the order of their creation
    jar,            \* the cookies
    fetch,          \* each request
    registered,     \* identities
    claimable,      \* people with an open claim ticket
    starts,         \* Google sign-ins started
    troubled,       \* devices whose sessions a race, a lost answer or the user ended
    gone,           \* people who signed out here with nothing under way to bring them back
    acts            \* what the user and time did so far

jarVars == <<opened, jar, fetch, registered, claimable, starts, troubled, gone, acts>>

Wallet == "wallet"
Site == "site"
Lanes == {Wallet} \cup AppScopes

Access == <<"access">>      \* pid_access: whose it is
Refresh == <<"refresh">>    \* pid_refresh: its session
Claim == <<"claim">>        \* pid_claim: its ticket
Nonce == <<"nonce">>        \* pid_oauth_state: which start's
Account(p) == <<"account", p>>  \* pid_refresh__<hash of p>
App(s) == <<"app", s>>          \* pid_refresh_<s>, and pid_access_<s> with it

TokenSlots == {Refresh} \cup {Account(p) : p \in People} \cup {App(s) : s \in AppScopes}
Slots == TokenSlots \cup {Access, Claim, Nonce}
TokenSlot(lane) == IF lane = Wallet THEN Refresh ELSE App(lane)
LaneSlots(lane) == IF lane = Wallet THEN Slots \ {App(s) : s \in AppScopes}
                   ELSE IF lane = Site THEN {} ELSE {App(lane)}

Quiet == [do |-> "none", device |-> 0, crossed |-> FALSE]

JarInit ==
    /\ opened = <<>> /\ starts = 0
    /\ jar = [x \in Slots |-> Absent] /\ fetch = [c \in Fetches |-> Quiet]
    /\ registered = People \ Newcomers /\ claimable = {}
    /\ troubled = {} /\ gone = {} /\ acts = 0

Clear(slots) == [x \in slots |-> Absent]

\* Set-Cookie of a session: setAuthCookies, setScopedAuthCookies.
SessionCookies(j, p, lane) ==
    IF lane = Wallet THEN Access :> p @@ Refresh :> j @@ Account(p) :> j ELSE App(lane) :> j

RevokedRows(js) == [j \in DOMAIN opened |-> [opened[j] EXCEPT !.is = IF j \in js THEN "revoked" ELSE @]]
Family(d) == {j \in DOMAIN opened : opened[j].device = d}

\* The token's signature and exp: verifyRefresh, verifyAsync.
Verified(j) == j # Absent /\ opened[j].is # "expired"
sessionLive(j) == opened[j].is = "live"
DeviceOf(j) == IF j = Absent THEN 0 ELSE opened[j].device

---------------------------------------------------------------------------
Act == acts < MaxActs /\ acts' = acts + 1

\* Sending.  Two requests that present one device's sessions at a time may
\* undo each other.

Request(c, do, lane, j, rest) ==
    /\ fetch[c] = Quiet /\ Act
    /\ fetch' = [fetch EXCEPT ![c] = [do |-> do, lane |-> lane, token |-> j, device |-> DeviceOf(j),
                                    crossed |-> FALSE] @@ rest]
    /\ troubled' = troubled \cup ({fetch[e].device : e \in {f \in Fetches : fetch[f].device = DeviceOf(j)}} \ {0})
    /\ UNCHANGED <<opened, jar, registered, claimable, starts, gone>>

\* A passkey or an e-mail code: loginWithPasskey, emailVerify.
sendLogin(c, p) == Request(c, "login", Wallet, Absent, [pid |-> p])

sendCallback(c, p, n) == Request(c, "callback", Wallet, Absent, [pid |-> p, state |-> n, nonce |-> jar[Nonce]])

sendClaim(c, do) == jar[Claim] # Absent /\ Request(c, do, Wallet, Absent, [pid |-> jar[Claim]])

sendRefresh(c, lane) == jar[TokenSlot(lane)] # Absent /\ Request(c, "rotate", lane, jar[TokenSlot(lane)], <<>>)

\* A site that holds a bearer token signs out locally; one that asks anyway is
\* not first-party.
sendLogout(c, lane) ==
    Request(c, "logout", lane, IF lane = Site THEN Absent ELSE jar[TokenSlot(lane)], <<>>)

sendSwitch(c, p) == jar[Account(p)] # Absent /\ Request(c, "switch", Wallet, jar[Account(p)], [pid |-> p])

sendSignOut(c, p) == Request(c, "signout", Wallet, jar[Account(p)], [pid |-> p, active |-> jar[Refresh]])

\* The wallet's page in a login popup grants the app that opened it a session.
sendGrant(c, s) == jar[Access] # Absent /\ Request(c, "grant", s, Absent, [pid |-> jar[Access]])

\* From the list of sessions; j = Absent is another browser's, of the app s.
sendRevoke(c, j, s) ==
    /\ jar[Access] # Absent
    /\ j # Absent => opened[j].pid = jar[Access] /\ opened[j].scope = s
    /\ Request(c, "revoke", s, j, <<>>)

\* GoogleGuard drops the nonce with the redirect that leaves for Google.
google ==
    /\ Act /\ starts < MaxStarts /\ starts' = starts + 1
    /\ jar' = [jar EXCEPT ![Nonce] = starts']
    /\ UNCHANGED <<opened, fetch, registered, claimable, troubled, gone>>

---------------------------------------------------------------------------
\* Serving

\* The answer: its Set-Cookie headers, and whom it signs out.
Answer(c, set, who) ==
    fetch' = [fetch EXCEPT ![c] = [do |-> "answered", lane |-> @.lane, device |-> @.device,
                                   crossed |-> @.crossed, set |-> set, ends |-> who]]

\* A session of a new device (first = 0) or of one there is.
issueSession(c, p, lane, d, more) ==
    /\ Len(opened) < MaxRows
    /\ opened' = Append(opened, [pid |-> p, scope |-> lane, is |-> "live",
                           device |-> IF d = 0 THEN Len(opened) + 1 ELSE d])
    /\ Answer(c, SessionCookies(Len(opened'), p, lane) @@ more, {})

\* A verified login: a session, or a claim ticket and the handle picker.
Enter(c, more) ==
    LET p == fetch[c].pid
    IN  /\ \/ /\ p \in registered
              /\ issueSession(c, p, Wallet, 0, more)
              /\ gone' = gone \ {p} /\ UNCHANGED claimable
           \/ /\ p \notin registered
              /\ claimable' = claimable \cup {p} /\ Answer(c, Claim :> p @@ more, {})
              /\ UNCHANGED <<opened, gone>>
        /\ UNCHANGED <<jar, registered, starts, troubled, acts>>

login(c) == fetch[c].do = "login" /\ Enter(c, <<>>)

\* The state names the start it was signed for.
verifyOAuthState(c) == fetch[c].nonce = fetch[c].state

\* The nonce is cleared whatever the state turns out to be.
googleCallback(c) ==
    /\ fetch[c].do = "callback"
    /\ \/ verifyOAuthState(c) /\ Enter(c, Clear({Nonce}))
       \/ /\ ~verifyOAuthState(c) /\ Answer(c, Clear({Nonce}), {})
          /\ UNCHANGED <<opened, jar, registered, claimable, starts, troubled, gone, acts>>

claim(c) ==
    /\ fetch[c].do = "claim" /\ fetch[c].pid \in claimable \ registered
    /\ registered' = registered \cup {fetch[c].pid} /\ claimable' = claimable \ {fetch[c].pid}
    /\ issueSession(c, fetch[c].pid, Wallet, 0, Clear({Claim}))
    /\ gone' = gone \ {fetch[c].pid}
    /\ UNCHANGED <<jar, starts, troubled, acts>>

abandonClaim(c) ==
    /\ fetch[c].do = "abandon"
    /\ claimable' = claimable \ {fetch[c].pid} /\ Answer(c, Clear({Claim}), {})
    /\ UNCHANGED <<opened, jar, registered, starts, troubled, gone, acts>>

Proceed(c, do) == fetch' = [fetch EXCEPT ![c].do = do]
serverRest == <<jar, registered, claimable, starts, troubled, gone, acts>>

\* rotateSession reads the session; a revoked one is a replay, and ends the
\* device's sessions; else it is revoked and has a successor.
rotateSession(c) ==
    /\ fetch[c].do = "rotate"
    /\ \/ opened[fetch[c].token].is = "revoked" /\ Proceed(c, "reuse")
       \/ sessionLive(fetch[c].token) /\ Proceed(c, "burn")
    /\ UNCHANGED opened /\ UNCHANGED serverRest

reuseDetected(c) ==
    /\ fetch[c].do = "reuse"
    /\ opened' = RevokedRows(Family(fetch[c].device)) /\ Answer(c, <<>>, {})
    /\ UNCHANGED serverRest

revokeRotated(c) ==
    /\ fetch[c].do = "burn"
    /\ opened' = RevokedRows({fetch[c].token}) /\ Proceed(c, "issue")
    /\ UNCHANGED serverRest

issueRotated(c) ==
    /\ fetch[c].do = "issue"
    /\ issueSession(c, opened[fetch[c].token].pid, fetch[c].lane, fetch[c].device, <<>>)
    /\ UNCHANGED serverRest

\* Mutant of LogoutSlots: the account's own cookie is forgotten.
LogoutSlotsActive(lane, who) == IF lane = Wallet THEN {Access, Refresh} ELSE LaneSlots(lane)

\* clearAuthCookies, clearScopedAuthCookies.
LogoutSlots(lane, who) ==
    IF lane = Wallet THEN {Access, Refresh} \cup {Account(p) : p \in who} ELSE LaneSlots(lane)

\* An unscoped log-out is first-party only: any other origin's does nothing.
logout(c) ==
    /\ fetch[c].do = "logout"
    /\ LET j == fetch[c].token
           who == IF Verified(j) /\ fetch[c].lane = Wallet THEN {opened[j].pid} ELSE {}
       IN  /\ opened' = IF Verified(j) THEN RevokedRows({j}) ELSE opened
           /\ Answer(c, Clear(LogoutSlots(fetch[c].lane, who)), who)
    /\ UNCHANGED serverRest

switchAccount(c) ==
    /\ fetch[c].do = "switch" /\ sessionLive(fetch[c].token)
    /\ Answer(c, Access :> fetch[c].pid @@ Refresh :> fetch[c].token, {})
    /\ UNCHANGED opened /\ UNCHANGED serverRest

signOutAccount(c) ==
    /\ fetch[c].do = "signout"
    /\ LET j == fetch[c].token
           acting == fetch[c].active
           p == fetch[c].pid
           active == Verified(acting) /\ opened[acting].pid = p
       IN  /\ opened' = IF Verified(j) THEN RevokedRows({j}) ELSE opened
           /\ Answer(c, Clear({Account(p)} \cup IF active THEN {Access, Refresh} ELSE {}),
                     IF acting = Absent \/ Verified(acting) THEN {p} ELSE {})
    /\ UNCHANGED serverRest

grantAppSession(c) ==
    /\ fetch[c].do = "grant" /\ issueSession(c, fetch[c].pid, fetch[c].lane, 0, <<>>)
    /\ UNCHANGED serverRest

\* An app's session takes the app's cookie of this browser with it.
revokeSession(c) ==
    /\ fetch[c].do = "revoke"
    /\ opened' = RevokedRows({fetch[c].token})
    /\ troubled' = troubled \cup ({fetch[c].device} \ {0})
    /\ Answer(c, Clear(IF fetch[c].lane = Wallet THEN {} ELSE {App(fetch[c].lane)}), {})
    /\ UNCHANGED <<jar, registered, claimable, starts, gone, acts>>

\* revokeAllSessions and revokeOtherSessions, here or in another browser: no
\* cookie changes.
revokeSessions(p, but) ==
    LET js == {j \in DOMAIN opened : opened[j].pid = p} \ but
    IN  /\ Act /\ \E j \in js : opened[j].is # "revoked"
        /\ opened' = RevokedRows(js) /\ troubled' = troubled \cup {opened[j].device : j \in js}
        /\ UNCHANGED <<jar, fetch, registered, claimable, starts, gone>>

---------------------------------------------------------------------------
\* Answers and time

\* A request under way that may still sign p in.
Brings(c, p) ==
    \/ fetch[c].do \in {"login", "callback", "claim", "switch"} /\ fetch[c].pid = p
    \/ fetch[c].do \in {"rotate", "burn", "issue"} /\ fetch[c].lane = Wallet /\ opened[fetch[c].token].pid = p
    \/ fetch[c].do = "answered" /\ Access \in DOMAIN fetch[c].set /\ fetch[c].set[Access] = p

\* A sign-out counts if none of those arrived since it was sent, or still may.
Arrive(c) ==
    /\ fetch[c].do = "answered"
    /\ jar' = fetch[c].set @@ jar
    /\ gone' = gone \cup {p \in fetch[c].ends : ~fetch[c].crossed /\ \A e \in Fetches \ {c} : ~Brings(e, p)}
    /\ fetch' = [e \in Fetches |-> IF e = c THEN Quiet
                  ELSE [fetch[e] EXCEPT !.crossed = fetch[e] # Quiet /\ (@ \/ \E p \in People : Brings(c, p))]]
    /\ UNCHANGED <<opened, registered, claimable, starts, troubled, acts>>

\* Turned away (origin, throttle, expired or foreign token, step-up), aborted, or
\* answered into a closed tab.
Fruitless(c) ==
    /\ fetch[c] # Quiet
    /\ fetch' = [fetch EXCEPT ![c] = Quiet]
    /\ troubled' = troubled \cup ({fetch[c].device} \ {0})
    /\ UNCHANGED <<opened, jar, registered, claimable, starts, gone, acts>>

\* Short-lived cookies lapse; a session's days are over.
Lapse(x) ==
    /\ Act /\ x \in {Access, Claim, Nonce} /\ jar[x] # Absent
    /\ jar' = [jar EXCEPT ![x] = Absent]
    /\ UNCHANGED <<opened, fetch, registered, claimable, starts, troubled, gone>>

Expire(j) ==
    /\ Act /\ sessionLive(j) /\ opened' = [opened EXCEPT ![j].is = "expired"]
    /\ UNCHANGED <<jar, fetch, registered, claimable, starts, troubled, gone>>

JarNext ==
    \/ google
    \/ \E c \in Fetches :
         \/ \E p \in People : sendLogin(c, p) \/ sendSwitch(c, p) \/ sendSignOut(c, p)
         \/ \E p \in People, n \in 1..starts : sendCallback(c, p, n)
         \/ \E do \in {"claim", "abandon"} : sendClaim(c, do)
         \/ \E lane \in Lanes : sendRefresh(c, lane)
         \/ \E lane \in Lanes \cup {Site} : sendLogout(c, lane)
         \/ \E s \in AppScopes : sendGrant(c, s) \/ sendRevoke(c, Absent, s)
         \/ \E j \in DOMAIN opened : sendRevoke(c, j, opened[j].scope)
         \/ login(c) \/ googleCallback(c) \/ claim(c) \/ abandonClaim(c)
         \/ rotateSession(c) \/ reuseDetected(c) \/ revokeRotated(c) \/ issueRotated(c)
         \/ logout(c) \/ switchAccount(c) \/ signOutAccount(c)
         \/ grantAppSession(c) \/ revokeSession(c)
         \/ Arrive(c) \/ Fruitless(c)
    \/ \E p \in People : revokeSessions(p, {}) \/ revokeSessions(p, {jar[Refresh]})
    \/ \E x \in Slots : Lapse(x)
    \/ \E j \in DOMAIN opened : Expire(j)

JarSpec == JarInit /\ [][JarNext]_jarVars

\* listAccounts: the accounts this browser can switch to.
listAccounts ==
    LET held == {jar[Account(p)] : p \in People} \ {Absent}
        tokens == IF held = {} THEN {jar[Refresh]} \ {Absent} ELSE held
    IN  {opened[j].pid : j \in {k \in tokens : sessionLive(k)}}

---------------------------------------------------------------------------
\* Properties

\* Each cookie names a session of its own lane and person, the two active ones
\* name the same person, and an answer touches its own lane's cookies only: an
\* app's log-out never reaches the wallet's session, nor the wallet's an app's.
JarAgrees ==
    /\ jar[Access] # Absent /\ jar[Refresh] # Absent => opened[jar[Refresh]].pid = jar[Access]
    /\ \A lane \in Lanes : jar[TokenSlot(lane)] # Absent => opened[jar[TokenSlot(lane)]].scope = lane
    /\ \A p \in People : jar[Account(p)] # Absent =>
         opened[jar[Account(p)]].pid = p /\ opened[jar[Account(p)]].scope = Wallet
    /\ \A c \in Fetches : fetch[c].do = "answered" => DOMAIN fetch[c].set \subseteq LaneSlots(fetch[c].lane)
    /\ \A j \in DOMAIN opened : opened[j].scope = opened[opened[j].device].scope

\* Who has signed out is out: unless a request was under way that could bring them
\* back, no cookie and no account list names them until they sign in again.
SignedOutStaysOut == \A p \in gone : jar[Access] # p /\ p \notin listAccounts

\* No false alarm: the browser presents a revoked token, which ends the whole
\* device's sessions as a theft, only after two requests presented the device's
\* sessions at a time, an answer was lost, or the user ended them elsewhere.
NoFalseAlarm ==
    \A x \in TokenSlots : jar[x] # Absent /\ opened[jar[x]].is = "revoked" =>
        opened[jar[x]].device \in troubled \cup {fetch[c].device : c \in Fetches}

\* The cookies are sound: all three.
CookiesSound == JarAgrees /\ SignedOutStaysOut /\ NoFalseAlarm
===========================================================================
