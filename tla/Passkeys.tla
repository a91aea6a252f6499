------------------------------ MODULE Passkeys ------------------------------
(***************************************************************************)
(* The passkeys of one account (credentials/credential.service.ts): a new  *)
(* one is registered on a challenge and, when the account has one already, *)
(* with the approval of a passkey; a passkey signs in or confirms a        *)
(* presence; one is revoked unless it is the last.                         *)
(*                                                                         *)
(* No call holds a lock, and each await is a step: a challenge is found    *)
(* and then consumed, the passkeys are counted and then one is revoked.    *)
(* Signatures of the right key over the right challenge verify, others do  *)
(* not; which of a key's challenges was signed is the caller's choice.     *)
(***************************************************************************)
EXTENDS Integers, Sequences

CONSTANTS
    Passkeys,           \* credential ids
    Devices,            \* calls that may be under way at once
    Challenges,         \* bound: challenges issued
    ChallengeTtl,
    MaxAuthorities,     \* bound: rows created
    PasskeyHorizon      \* bound: time

ASSUME PasskeyConstants == ChallengeTtl \in Nat /\ PasskeyHorizon \in Nat

VARIABLES
    authority,      \* authorities, in the order of their creation
    challenge,      \* credential_challenges
    calling,        \* each device's call between two awaits
    bareAt,         \* when the account was last without a passkey
    crossed,        \* two revocations were under way at once
    keyClock

passkeyVars == <<authority, challenge, calling, bareAt, crossed, keyClock>>
passkeyRest == <<bareAt, crossed, keyClock>>

Resting == [pc |-> "idle", kind |-> "none", challenge |-> "none", key |-> "none", approval |-> "none",
            approved |-> FALSE, at |-> 0, last |-> 0, row |-> 0]
NotIssued == [kind |-> "none", open |-> FALSE, additional |-> FALSE, until |-> 0]

PasskeysInit ==
    /\ authority = <<>> /\ challenge = [c \in Challenges |-> NotIssued]
    /\ calling = [d \in Devices |-> Resting]
    /\ bareAt = 0 /\ crossed = FALSE /\ keyClock = 0

activeAuthorities == {i \in DOMAIN authority : authority[i].status = "active"}
KeysOf(rows) == {authority[i].key : i \in rows}

---------------------------------------------------------------------------
\* Challenges

Issue(c, kind) ==
    /\ challenge[c] = NotIssued
    /\ challenge' = [challenge EXCEPT ![c] =
           [kind |-> kind, open |-> TRUE, additional |-> kind = "registration" /\ activeAuthorities # {},
            until |-> keyClock + ChallengeTtl]]
    /\ UNCHANGED <<authority, calling, passkeyRest>>

registerStart(c) == Issue(c, "registration")
authenticateStart(c) == activeAuthorities # {} /\ Issue(c, "authentication")
loginStart(c) == Issue(c, "login")

\* Mutant of Unexpired: a challenge lives for ever.
UnexpiredEver(c) == challenge[c].kind # "none"

Unexpired(c) == challenge[c].kind # "none" /\ challenge[c].until >= keyClock

\* The row is found open ...  (A registration may be finished on a challenge of
\* another kind: consumeChallenge does not ask, but its signature will not be
\* over such a challenge.)
Find(d, c, kind, k, approval) ==
    /\ calling[d] = Resting
    /\ challenge[c].kind = kind /\ challenge[c].open /\ Unexpired(c)
    /\ calling' = [calling EXCEPT ![d] =
           [pc |-> "found", kind |-> kind, challenge |-> c, key |-> k, approval |-> approval,
            approved |-> FALSE, at |-> keyClock, last |-> bareAt, row |-> 0]]
    /\ UNCHANGED <<authority, challenge, passkeyRest>>

\* ... and consumed, by whoever found it.  A registration then looks for its
\* key; the others only look up an active row and answer.
consumeChallenge(d) ==
    /\ calling[d].pc = "found"
    /\ LET at == calling[d]
           goesOn == at.kind = "registration" /\ at.key \notin KeysOf(DOMAIN authority)
       IN  /\ challenge' = [challenge EXCEPT ![at.challenge].open = FALSE]
           /\ calling' = [calling EXCEPT ![d] = IF goesOn THEN [at EXCEPT !.pc = "consumed"] ELSE Resting]
    /\ UNCHANGED <<authority, passkeyRest>>

---------------------------------------------------------------------------
\* Registration

registerFinish(d, c, k, approval) == Find(d, c, "registration", k, approval)

\* The approver is looked for among the active ones when the challenge says so.
approve(d) ==
    /\ calling[d].pc = "consumed"
    /\ LET at == calling[d]
           needed == challenge[at.challenge].additional
       IN  calling' = [calling EXCEPT ![d] =
               IF needed /\ at.approval \notin KeysOf(activeAuthorities) THEN Resting
               ELSE [at EXCEPT !.pc = "verified", !.approved = needed]]
    /\ UNCHANGED <<authority, challenge, passkeyRest>>

\* The row; no index keeps a credential id to one of them.
createAuthority(d) ==
    /\ calling[d].pc = "verified" /\ Len(authority) < MaxAuthorities
    /\ authority' = Append(authority,
           [key |-> calling[d].key, status |-> "active", approved |-> calling[d].approved,
            at |-> calling[d].at, last |-> calling[d].last])
    /\ calling' = [calling EXCEPT ![d] = Resting]
    /\ UNCHANGED <<challenge, passkeyRest>>

---------------------------------------------------------------------------
\* Authentication and login: whichever passkey is presented, what they change
\* is the challenge (and lastUsedAt)

authenticateFinish(d, c) == Find(d, c, "authentication", "none", "none")
loginFinish(d, c) == Find(d, c, "login", "none", "none")

---------------------------------------------------------------------------
\* Revocation

Spare == \E i, j \in activeAuthorities : i # j

\* The row is found, the active ones counted ...
revoke(d, i) ==
    /\ calling[d] = Resting /\ Spare
    /\ calling' = [calling EXCEPT ![d] = [Resting EXCEPT !.pc = "counted", !.row = i]]
    /\ crossed' = (crossed \/ \E e \in Devices : calling[e].pc = "counted")
    /\ UNCHANGED <<authority, challenge, bareAt, keyClock>>

\* ... and the row set.
revoked(d) ==
    /\ calling[d].pc = "counted"
    /\ authority' = [authority EXCEPT ![calling[d].row].status = "revoked"]
    /\ calling' = [calling EXCEPT ![d] = Resting]
    /\ bareAt' = IF activeAuthorities = {calling[d].row} THEN keyClock ELSE bareAt
    /\ UNCHANGED <<challenge, crossed, keyClock>>

\* Time passes; while there is no passkey, bareAt goes with it.
PasskeyTick ==
    /\ keyClock < PasskeyHorizon /\ keyClock' = keyClock + 1
    /\ bareAt' = IF activeAuthorities = {} THEN keyClock' ELSE bareAt
    /\ UNCHANGED <<authority, challenge, calling, crossed>>

PasskeysNext ==
    \/ \E c \in Challenges : registerStart(c) \/ authenticateStart(c) \/ loginStart(c)
    \/ \E d \in Devices, c \in Challenges :
        \/ \E k, approval \in Passkeys : registerFinish(d, c, k, approval)
        \/ authenticateFinish(d, c) \/ loginFinish(d, c)
    \/ \E d \in Devices : consumeChallenge(d) \/ approve(d) \/ createAuthority(d) \/ revoked(d)
    \/ \E d \in Devices, i \in DOMAIN authority : revoke(d, i)
    \/ PasskeyTick

PasskeysSpec == PasskeysInit /\ [][PasskeysNext]_passkeyVars

---------------------------------------------------------------------------
\* Properties

\* A passkey no other approved was presented no later than a challenge's
\* lifetime after the account was last without one, though challenges outlive
\* the state they were issued in; and revocations, one at a time, never take
\* the last one.
KeysVouched ==
    /\ \A i \in DOMAIN authority :
        authority[i].approved \/ authority[i].at <= authority[i].last + ChallengeTtl
    /\ authority # <<>> /\ ~crossed => activeAuthorities # {}
=============================================================================
