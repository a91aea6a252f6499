----------------------------- MODULE Sessions -----------------------------
(***************************************************************************)
(* Login sessions of one identity (auth.service.ts).  A login opens a      *)
(* device and its first session; a refresh token, which names its session, *)
(* is rotated into a successor on the same device.  A token presented      *)
(* after its session was revoked ends every session of the device.         *)
(*                                                                         *)
(* Any token ever issued may be presented, by any number of tabs, and every*)
(* await is a point where the others run.  A tab holds the session row it  *)
(* read.  Scoped (app) sessions differ in their cookies only.              *)
(***************************************************************************)
EXTENDS Integers, Sequences

CONSTANTS
    Tabs,
    Methods,        \* authMethod
    FamilyCap,      \* per method: PASSKEY_FAMILY_MAX_AGE, GOOGLE_FAMILY_MAX_AGE
    RefreshTtl,
    MaxDevices, MaxSessions,    \* bounds: rows created
    SessionHorizon  \* bound: time

ASSUME SessionConstants ==
    FamilyCap \in [Methods -> Nat] /\ RefreshTtl \in Nat \ {0}

VARIABLES
    device,         \* device rows, in the order of their creation
    session,        \* session rows; a refresh token names one
    tab,            \* each tab's request
    sclock,
    ended           \* devices ended while no login or rotation of them was under way

sessionVars == <<device, session, tab, sclock, ended>>

Root == 0   \* rotatedFrom of a login's session
Still == [pc |-> "idle"]

SessionsInit ==
    /\ device = <<>> /\ session = <<>>
    /\ tab = [t \in Tabs |-> Still] /\ sclock = 0 /\ ended = {}

sessionLive(j) == ~session[j].revoked /\ sclock < session[j].until

\* session.updateMany: rows of a set are revoked together.
Revoked(js) == [j \in DOMAIN session |-> [session[j] EXCEPT !.revoked = @ \/ j \in js]]
OnDevice(d) == {j \in DOMAIN session : session[j].device = d}

\* Devices with a request under way that may still create a session.
Busy == {tab[t].device : t \in {u \in Tabs : tab[u].pc \in {"revoke", "issue"}}}

\* issueSession for a login: the device first ...
createDevice(t, m) ==
    /\ tab[t] = Still /\ Len(device) < MaxDevices
    /\ device' = Append(device, [born |-> sclock, method |-> m])
    /\ tab' = [tab EXCEPT ![t] = [pc |-> "issue", device |-> Len(device'), from |-> Root]]
    /\ UNCHANGED <<session, sclock, ended>>

\* ... and for a login and a rotation the session last.
issueSession(t) ==
    /\ tab[t].pc = "issue" /\ Len(session) < MaxSessions
    /\ session' = Append(session, [device |-> tab[t].device, from |-> tab[t].from,
                                   revoked |-> FALSE, until |-> sclock + RefreshTtl])
    /\ tab' = [tab EXCEPT ![t] = Still]
    /\ UNCHANGED <<device, sclock, ended>>

WithinCap(d) == sclock - device[d].born <= FamilyCap[device[d].method]

\* rotateSession reads the presented token's session.  A revoked one is a
\* replay; an expired one, or a family past its cap, is refused.
rotateSession(t, j) ==
    /\ tab[t] = Still
    /\ LET d == session[j].device
       IN  \/ /\ session[j].revoked
              /\ tab' = [tab EXCEPT ![t] = [pc |-> "reuse", device |-> d]]
           \/ /\ sessionLive(j) /\ WithinCap(d)
              /\ tab' = [tab EXCEPT ![t] = [pc |-> "revoke", device |-> d, from |-> j]]
    /\ UNCHANGED <<device, session, sclock, ended>>

\* Mutant of reuseDetected: only the replayed token's session is ended.
reuseNothing(t) ==
    /\ tab[t].pc = "reuse"
    /\ UNCHANGED session
    /\ ended' = ended \cup ({tab[t].device} \ Busy)
    /\ tab' = [tab EXCEPT ![t] = Still]
    /\ UNCHANGED <<device, sclock>>

\* A replay ends the family.
reuseDetected(t) ==
    /\ tab[t].pc = "reuse"
    /\ session' = Revoked(OnDevice(tab[t].device))
    /\ ended' = ended \cup ({tab[t].device} \ Busy)
    /\ tab' = [tab EXCEPT ![t] = Still]
    /\ UNCHANGED <<device, sclock>>

\* The rotated session is revoked whatever it has become, then issueSession.
revokeRotated(t) ==
    /\ tab[t].pc = "revoke"
    /\ session' = Revoked({tab[t].from})
    /\ tab' = [tab EXCEPT ![t].pc = "issue"]
    /\ UNCHANGED <<device, sclock, ended>>

\* logout, signOutAccount, revokeSession: one session.
revokeSession(j) ==
    /\ ~session[j].revoked
    /\ session' = Revoked({j})
    /\ UNCHANGED <<device, tab, sclock, ended>>

\* revokeOtherSessions: all but the current one.
revokeOtherSessions(j) ==
    /\ sessionLive(j) /\ session' = Revoked(DOMAIN session \ {j})
    /\ UNCHANGED <<device, tab, sclock, ended>>

\* revokeAllSessions.
revokeAllSessions ==
    /\ \E j \in DOMAIN session : ~session[j].revoked
    /\ session' = Revoked(DOMAIN session)
    /\ ended' = ended \cup (DOMAIN device \ Busy)
    /\ UNCHANGED <<device, tab, sclock>>

\* A request dies between two statements.
DropRequest(t) ==
    /\ tab[t] # Still /\ tab' = [tab EXCEPT ![t] = Still]
    /\ UNCHANGED <<device, session, sclock, ended>>

SessionTick ==
    /\ sclock < SessionHorizon /\ sclock' = sclock + 1
    /\ UNCHANGED <<device, session, tab, ended>>

SessionsNext ==
    \/ \E t \in Tabs, m \in Methods : createDevice(t, m)
    \/ \E t \in Tabs, j \in DOMAIN session : rotateSession(t, j)
    \/ \E t \in Tabs : issueSession(t) \/ reuseDetected(t) \/ revokeRotated(t) \/ DropRequest(t)
    \/ \E j \in DOMAIN session : revokeSession(j) \/ revokeOtherSessions(j)
    \/ revokeAllSessions \/ SessionTick

SessionsSpec == SessionsInit /\ [][SessionsNext]_sessionVars

---------------------------------------------------------------------------
\* Properties

\* A family ends for good: once a replay, or a log-out everywhere, met a device
\* with no login or rotation of it under way, no session of that device lives,
\* whatever tokens are presented in whatever order; and a token that has a
\* successor is dead itself.
FamilyEnds ==
    \A j \in DOMAIN session :
        /\ session[j].device \in ended => ~sessionLive(j)
        /\ session[j].from # Root => session[session[j].from].revoked
===========================================================================
