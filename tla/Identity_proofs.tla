--------------------------- MODULE Identity_proofs ---------------------------
(***************************************************************************)
(* Proofs about who may act as whom: login sessions and passkeys, account  *)
(* claims and sign-in elsewhere, for any number of browsers, devices,      *)
(* tokens, challenges, requests, handles, logins and codes, and without a  *)
(* bound on time.                                                          *)
(***************************************************************************)
EXTENDS Access, SignUp, Sso, FiniteSetTheorems, TLAPS

---------------------------------------------------------------------------
\* Sessions

DeviceType == [born: Nat, method: Methods]
SessionType == [device: Nat, from: Nat, revoked: BOOLEAN, until: Nat]
TabType ==
    [pc: {"idle"}] \cup [pc: {"reuse"}, device: Nat] \cup [pc: {"revoke", "issue"}, device: Nat, from: Nat]

SessionsTypeOK ==
    /\ device \in Seq(DeviceType) /\ session \in Seq(SessionType)
    /\ tab \in [Tabs -> TabType] /\ sclock \in Nat
    /\ \A j \in DOMAIN session : session[j].device \in DOMAIN device
    /\ \A t \in Tabs : tab[t].pc # "idle" => tab[t].device \in DOMAIN device

\* An ended device has no live session, and nobody is about to give it one.
EndedStays ==
    /\ ended \subseteq DOMAIN device
    /\ \A j \in DOMAIN session : session[j].device \in ended => session[j].revoked
    /\ \A t \in Tabs : tab[t].pc \in {"revoke", "issue"} => tab[t].device \notin ended

\* A session is revoked before it has a successor.
RotatedFirst ==
    /\ \A j \in DOMAIN session :
         session[j].from # Root => session[j].from \in DOMAIN session /\ session[session[j].from].revoked
    /\ \A t \in Tabs :
         /\ tab[t].pc = "revoke" => tab[t].from \in DOMAIN session
         /\ tab[t].pc = "issue" /\ tab[t].from # Root =>
                tab[t].from \in DOMAIN session /\ session[tab[t].from].revoked

\* The inductive invariant of the sessions.
SessionsInv == SessionsTypeOK /\ EndedStays /\ RotatedFirst

USE SessionConstants DEF Root, Still

\* Revoking changes nothing but the revoked ones' flag.
LEMMA RevokedRows ==
    ASSUME session \in Seq(SessionType), NEW js
    PROVE  /\ Revoked(js) \in Seq(SessionType)
           /\ Len(Revoked(js)) = Len(session) /\ DOMAIN Revoked(js) = DOMAIN session
           /\ \A j \in DOMAIN session :
                /\ Revoked(js)[j].device = session[j].device /\ Revoked(js)[j].from = session[j].from
                /\ Revoked(js)[j].revoked <=> (session[j].revoked \/ j \in js)
<1>1. \A j \in 1..Len(session) : session[j] \in SessionType
  OBVIOUS
<1>2. \A j \in 1..Len(session) : [session[j] EXCEPT !.revoked = @ \/ j \in js] \in SessionType
  BY <1>1 DEF SessionType
<1>3. Revoked(js) = [j \in 1..Len(session) |-> [session[j] EXCEPT !.revoked = @ \/ j \in js]]
  BY DEF Revoked
<1>4. Revoked(js) \in Seq(SessionType) /\ Len(Revoked(js)) = Len(session)
  BY <1>2, <1>3
<1>5. ASSUME NEW j \in DOMAIN session
      PROVE  /\ Revoked(js)[j].device = session[j].device /\ Revoked(js)[j].from = session[j].from
             /\ Revoked(js)[j].revoked <=> (session[j].revoked \/ j \in js)
  <2>1. session[j] \in SessionType
    BY <1>1
  <2>2. Revoked(js)[j] = [session[j] EXCEPT !.revoked = session[j].revoked \/ j \in js]
    BY <1>3
  <2>3. Revoked(js)[j].revoked = (session[j].revoked \/ j \in js)
    BY <2>1, <2>2 DEF SessionType
  <2> QED BY <2>1, <2>2, <2>3 DEF SessionType
<1>6. DOMAIN Revoked(js) = DOMAIN session
  BY <1>3
<1> QED BY <1>4, <1>5, <1>6

LEMMA SessionsInitInv == SessionsInit => SessionsInv
BY DEF SessionsInit, SessionsInv, SessionsTypeOK, TabType, EndedStays, RotatedFirst

\* A step that revokes sessions, moves requests on and ends devices keeps the
\* invariant if it ends only devices whose sessions it revokes and for which no
\* request may still create one.
LEMMA RevokingKeeps ==
    ASSUME SessionsInv, NEW js, session' = Revoked(js), device' = device, sclock' = sclock,
           tab' \in [Tabs -> TabType],
           \A u \in Tabs : \/ tab'[u] = tab[u] \/ tab'[u].pc = "idle"
                           \/ /\ tab[u].pc = "revoke" /\ tab'[u].pc = "issue" /\ tab[u].from \in js
                              /\ tab'[u].device = tab[u].device /\ tab'[u].from = tab[u].from,
           ended \subseteq ended', ended' \subseteq DOMAIN device,
           \A j \in DOMAIN session : session[j].device \in ended' \ ended => j \in js,
           \A u \in Tabs : tab[u].pc \in {"revoke", "issue"} => tab[u].device \notin ended' \ ended
    PROVE  SessionsInv'
<1>1. session \in Seq(SessionType)
  BY DEF SessionsInv, SessionsTypeOK
<1>2. /\ session' \in Seq(SessionType) /\ DOMAIN session' = DOMAIN session
      /\ \A j \in DOMAIN session :
           /\ session'[j].device = session[j].device /\ session'[j].from = session[j].from
           /\ session'[j].revoked <=> (session[j].revoked \/ j \in js)
  BY <1>1, RevokedRows
<1>3. SessionsTypeOK'
  BY <1>2 DEF SessionsInv, SessionsTypeOK
<1>4. EndedStays'
  BY <1>2 DEF SessionsInv, EndedStays
<1>5. RotatedFirst'
  BY <1>2 DEF SessionsInv, RotatedFirst
<1> QED BY <1>3, <1>4, <1>5 DEF SessionsInv

\* The same for a step that moves one request, or none.
LEMMA MovingKeeps ==
    ASSUME SessionsInv, NEW t \in Tabs, NEW to \in TabType, tab' = [tab EXCEPT ![t] = to],
           UNCHANGED <<device, session, sclock, ended>>,
           to.pc # "idle" => to.device \in DOMAIN device,
           to.pc \in {"revoke", "issue"} => to.device \notin ended,
           to.pc = "revoke" => to.from \in DOMAIN session,
           to.pc = "issue" /\ to.from # Root => to.from \in DOMAIN session /\ session[to.from].revoked
    PROVE  SessionsInv'
<1>1. \A u \in Tabs : tab'[u] = IF u = t THEN to ELSE tab[u]
  BY DEF SessionsInv, SessionsTypeOK
<1>2. tab' \in [Tabs -> TabType]
  BY DEF SessionsInv, SessionsTypeOK
<1>3. SessionsTypeOK'
  BY <1>1, <1>2 DEF SessionsInv, SessionsTypeOK
<1>4. EndedStays'
  BY <1>1 DEF SessionsInv, EndedStays
<1>5. RotatedFirst'
  BY <1>1 DEF SessionsInv, RotatedFirst
<1> QED BY <1>3, <1>4, <1>5 DEF SessionsInv

LEMMA StillType == Still \in TabType /\ Still.pc = "idle"
BY DEF TabType

LEMMA CreateDeviceKeeps ==
    ASSUME SessionsInv, NEW t \in Tabs, NEW m \in Methods, createDevice(t, m)
    PROVE  SessionsInv'
<1> DEFINE row == [born |-> sclock, method |-> m]
           to == [pc |-> "issue", device |-> Len(device'), from |-> Root]
<1>1. row \in DeviceType
  BY DEF SessionsInv, SessionsTypeOK, DeviceType
<1>2. /\ device' = Append(device, row) /\ device \in Seq(DeviceType)
      /\ tab' = [tab EXCEPT ![t] = to] /\ UNCHANGED <<session, sclock, ended>>
  BY DEF createDevice, SessionsInv, SessionsTypeOK
<1> HIDE DEF row
<1>3. /\ device' \in Seq(DeviceType) /\ Len(device') = Len(device) + 1 /\ DOMAIN device \subseteq DOMAIN device'
      /\ Len(device') \in DOMAIN device' /\ Len(device') \notin DOMAIN device /\ Len(device') \in Nat
  BY <1>1, <1>2
<1>4. to \in TabType /\ to.pc = "issue" /\ to.device = Len(device') /\ to.from = 0
  BY <1>3 DEF TabType
<1> HIDE DEF to
<1>5. \A u \in Tabs : tab'[u] = IF u = t THEN to ELSE tab[u]
  BY <1>2 DEF SessionsInv, SessionsTypeOK
<1>6. SessionsTypeOK'
  BY <1>2, <1>3, <1>4, <1>5 DEF SessionsInv, SessionsTypeOK
<1>7. EndedStays'
  BY <1>2, <1>3, <1>4, <1>5 DEF SessionsInv, EndedStays
<1>8. RotatedFirst'
  BY <1>2, <1>4, <1>5 DEF SessionsInv, RotatedFirst
<1> QED BY <1>6, <1>7, <1>8 DEF SessionsInv

LEMMA IssueSessionKeeps ==
    ASSUME SessionsInv, NEW t \in Tabs, issueSession(t)
    PROVE  SessionsInv'
<1> DEFINE row == [device |-> tab[t].device, from |-> tab[t].from, revoked |-> FALSE, until |-> sclock + RefreshTtl]
<1>1. /\ tab[t].pc = "issue" /\ tab[t] \in TabType /\ session \in Seq(SessionType)
      /\ session' = Append(session, row) /\ tab' = [tab EXCEPT ![t] = Still]
      /\ UNCHANGED <<device, sclock, ended>> /\ sclock \in Nat
  BY DEF issueSession, SessionsInv, SessionsTypeOK
<1>2. tab[t].device \in Nat /\ tab[t].from \in Nat
  BY <1>1 DEF TabType
<1>3. row \in SessionType /\ row.device = tab[t].device /\ row.from = tab[t].from
  BY <1>1, <1>2 DEF SessionType
<1> HIDE DEF row
<1>4. /\ session' \in Seq(SessionType) /\ DOMAIN session' = DOMAIN session \cup {Len(session) + 1}
      /\ \A j \in DOMAIN session : session'[j] = session[j]
      /\ session'[Len(session) + 1] = row
      /\ Len(session) + 1 \notin DOMAIN session
  BY <1>1, <1>3
<1>5. \A u \in Tabs : tab'[u] = IF u = t THEN Still ELSE tab[u]
  BY <1>1 DEF SessionsInv, SessionsTypeOK
<1>6. tab' \in [Tabs -> TabType]
  BY <1>1, StillType DEF SessionsInv, SessionsTypeOK
<1>7. SessionsTypeOK'
  BY <1>1, <1>3, <1>4, <1>5, <1>6, StillType DEF SessionsInv, SessionsTypeOK
<1>8. EndedStays'
  BY <1>1, <1>3, <1>4, <1>5, StillType DEF SessionsInv, EndedStays
<1>9. RotatedFirst'
  BY <1>1, <1>3, <1>4, <1>5, StillType DEF SessionsInv, RotatedFirst
<1> QED BY <1>7, <1>8, <1>9 DEF SessionsInv

LEMMA RotateKeeps ==
    ASSUME SessionsInv, NEW t \in Tabs, NEW j \in DOMAIN session, rotateSession(t, j)
    PROVE  SessionsInv'
<1> DEFINE d == session[j].device
<1>1. d \in DOMAIN device /\ d \in Nat /\ j \in Nat /\ UNCHANGED <<device, session, sclock, ended>>
  BY DEF rotateSession, SessionsInv, SessionsTypeOK, SessionType
<1>2. CASE session[j].revoked /\ tab' = [tab EXCEPT ![t] = [pc |-> "reuse", device |-> d]]
  <2> DEFINE to == [pc |-> "reuse", device |-> d]
  <2>1. to \in TabType /\ to.pc = "reuse" /\ to.device = d
    BY <1>1 DEF TabType
  <2>2. tab' = [tab EXCEPT ![t] = to]
    BY <1>2
  <2> HIDE DEF to
  <2> QED BY <1>1, <2>1, <2>2, MovingKeeps
<1>3. CASE sessionLive(j) /\ tab' = [tab EXCEPT ![t] = [pc |-> "revoke", device |-> d, from |-> j]]
  <2> DEFINE to == [pc |-> "revoke", device |-> d, from |-> j]
  <2>1. to \in TabType /\ to.pc = "revoke" /\ to.device = d /\ to.from = j
    BY <1>1 DEF TabType
  <2>2. tab' = [tab EXCEPT ![t] = to]
    BY <1>3
  <2>3. d \notin ended
    BY <1>3 DEF sessionLive, SessionsInv, EndedStays
  <2> HIDE DEF to
  <2> QED BY <1>1, <2>1, <2>2, <2>3, MovingKeeps
<1> QED BY <1>2, <1>3 DEF rotateSession

LEMMA ReuseKeeps ==
    ASSUME SessionsInv, NEW t \in Tabs, reuseDetected(t)
    PROVE  SessionsInv'
<1> DEFINE d == tab[t].device
<1>1. /\ tab[t].pc = "reuse" /\ d \in DOMAIN device /\ session' = Revoked(OnDevice(d))
      /\ ended' = ended \cup ({d} \ Busy) /\ UNCHANGED <<device, sclock>> /\ ended \subseteq DOMAIN device
      /\ tab \in [Tabs -> TabType] /\ tab' = [tab EXCEPT ![t] = Still]
  BY DEF reuseDetected, SessionsInv, SessionsTypeOK, EndedStays
<1>2. tab' \in [Tabs -> TabType] /\ \A u \in Tabs : tab'[u] = tab[u] \/ tab'[u].pc = "idle"
  BY <1>1, StillType
<1>3. \A u \in Tabs : tab[u].pc \in {"revoke", "issue"} => tab[u].device \notin {d} \ Busy
  BY DEF Busy
<1>4. \A j \in DOMAIN session : session[j].device = d => j \in OnDevice(d)
  BY DEF OnDevice
<1> HIDE DEF d
<1> QED BY <1>1, <1>2, <1>3, <1>4, RevokingKeeps

LEMMA RevokeRotatedKeeps ==
    ASSUME SessionsInv, NEW t \in Tabs, revokeRotated(t)
    PROVE  SessionsInv'
<1> DEFINE to == [tab[t] EXCEPT !.pc = "issue"]
<1>1. /\ tab[t].pc = "revoke" /\ tab[t] \in TabType /\ tab \in [Tabs -> TabType]
      /\ session' = Revoked({tab[t].from}) /\ UNCHANGED <<device, sclock, ended>> /\ ended \subseteq DOMAIN device
  BY DEF revokeRotated, SessionsInv, SessionsTypeOK, EndedStays
<1>2. tab' = [tab EXCEPT ![t] = to]
  BY <1>1 DEF revokeRotated
<1>3. to \in TabType /\ to.pc = "issue" /\ to.device = tab[t].device /\ to.from = tab[t].from
  BY <1>1 DEF TabType
<1> HIDE DEF to
<1>4. tab' \in [Tabs -> TabType] /\ tab'[t] = to /\ \A u \in Tabs \ {t} : tab'[u] = tab[u]
  BY <1>1, <1>2, <1>3
<1> QED BY <1>1, <1>3, <1>4, RevokingKeeps

LEMMA RevokeKeeps ==
    ASSUME SessionsInv, NEW js, session' = Revoked(js), UNCHANGED <<device, tab, sclock>>,
           NEW E, ended' = ended \cup (E \ Busy), E \subseteq DOMAIN device,
           \A j \in DOMAIN session : session[j].device \in E => j \in js
    PROVE  SessionsInv'
<1>1. tab' \in [Tabs -> TabType] /\ ended \subseteq DOMAIN device
  BY DEF SessionsInv, SessionsTypeOK, EndedStays
<1>2. \A u \in Tabs : tab[u].pc \in {"revoke", "issue"} => tab[u].device \in Busy
  BY DEF Busy
<1> QED BY <1>1, <1>2, RevokingKeeps

\* The sessions keep their invariant.
LEMMA SessionsStep == SessionsInv /\ [SessionsNext]_sessionVars => SessionsInv'
<1> SUFFICES ASSUME SessionsInv, [SessionsNext]_sessionVars PROVE SessionsInv'
  OBVIOUS
<1>1. ASSUME NEW t \in Tabs, NEW m \in Methods, createDevice(t, m) PROVE SessionsInv'
  BY <1>1, CreateDeviceKeeps
<1>2. ASSUME NEW t \in Tabs, NEW j \in DOMAIN session, rotateSession(t, j) PROVE SessionsInv'
  BY <1>2, RotateKeeps
<1>3. ASSUME NEW t \in Tabs, DropRequest(t) PROVE SessionsInv'
  BY <1>3, StillType, MovingKeeps DEF DropRequest
<1>4. ASSUME NEW js, session' = Revoked(js), UNCHANGED <<device, tab, sclock, ended>> PROVE SessionsInv'
  <2>1. tab' \in [Tabs -> TabType] /\ ended \subseteq DOMAIN device /\ ended' \ ended = {}
    BY <1>4 DEF SessionsInv, SessionsTypeOK, EndedStays
  <2> QED BY <1>4, <2>1, RevokingKeeps
<1>5. ASSUME NEW j \in DOMAIN session, revokeSession(j) \/ revokeOtherSessions(j) PROVE SessionsInv'
  BY <1>4, <1>5 DEF revokeSession, revokeOtherSessions
<1>6. CASE revokeAllSessions
  BY <1>6, RevokeKeeps DEF revokeAllSessions
<1>7. CASE UNCHANGED <<device, session, tab, ended>> /\ sclock' \in Nat
  BY <1>7 DEF SessionsInv, SessionsTypeOK, EndedStays, RotatedFirst
<1>8. CASE SessionTick
  BY <1>7, <1>8 DEF SessionTick, SessionsInv, SessionsTypeOK
<1>9. CASE UNCHANGED sessionVars
  BY <1>7, <1>9 DEF sessionVars, SessionsInv, SessionsTypeOK
<1> QED BY <1>1, <1>2, <1>3, <1>5, <1>6, <1>8, <1>9, IssueSessionKeeps, ReuseKeeps, RevokeRotatedKeeps
        DEF SessionsNext

\* Whatever tokens are presented, in whatever order and by however many tabs, a
\* family that was ended stays ended, and only a dead token has a successor.
THEOREM FamiliesEnd == SessionsSpec => []FamilyEnds
<1>1. SessionsInv => FamilyEnds
  BY DEF SessionsInv, EndedStays, RotatedFirst, FamilyEnds, sessionLive
<1> QED BY SessionsInitInv, SessionsStep, <1>1, PTL DEF SessionsSpec

---------------------------------------------------------------------------
\* Passkeys

Kinds == {"none", "registration", "authentication", "login"}
AuthorityType == [key: Passkeys, status: {"active", "revoked"}, approved: BOOLEAN, at: Nat, last: Nat]
ChallengeType == [kind: Kinds, open: BOOLEAN, additional: BOOLEAN, until: Nat]
CallType ==
    [pc: {"idle", "found", "consumed", "verified", "counted"}, kind: Kinds,
     challenge: Challenges \cup {"none"}, key: Passkeys \cup {"none"}, approval: Passkeys \cup {"none"},
     approved: BOOLEAN, at: Nat, last: Nat, row: Nat]

PasskeysTypeOK ==
    /\ authority \in Seq(AuthorityType) /\ challenge \in [Challenges -> ChallengeType]
    /\ calling \in [Devices -> CallType]
    /\ bareAt \in Nat /\ keyClock \in Nat /\ crossed \in BOOLEAN

\* bareAt is the last instant without a passkey.
BareSince == bareAt <= keyClock /\ (activeAuthorities = {} => bareAt = keyClock)

\* A challenge that asks for no approval was issued when there was no passkey.
NotAdditional ==
    \A c \in Challenges :
        challenge[c].kind = "registration" /\ ~challenge[c].additional => challenge[c].until <= bareAt + ChallengeTtl

Vouched(r) == r.at <= r.last + ChallengeTtl

\* A registration under way is to be approved, or was presented in time.
CallsVouched ==
    \A d \in Devices :
        /\ (calling[d].pc = "found" /\ calling[d].kind = "registration") \/ calling[d].pc = "consumed" =>
             /\ calling[d].challenge \in Challenges /\ calling[d].key \in Passkeys
             /\ challenge[calling[d].challenge].kind = "registration"
             /\ challenge[calling[d].challenge].additional \/ Vouched(calling[d])
        /\ calling[d].pc = "found" => calling[d].challenge \in Challenges
        /\ calling[d].pc = "verified" =>
             calling[d].key \in Passkeys /\ (calling[d].approved \/ Vouched(calling[d]))

RowsVouched == \A i \in DOMAIN authority : authority[i].approved \/ Vouched(authority[i])

\* Until two revocations cross, the one under way leaves another passkey.
OneRevocation ==
    ~crossed =>
        /\ authority # <<>> => activeAuthorities # {}
        /\ \A d \in Devices : calling[d].pc = "counted" =>
             /\ \E i \in activeAuthorities : i # calling[d].row
             /\ \A e \in Devices : calling[e].pc = "counted" => e = d

\* The inductive invariant of the passkeys.
PasskeysInv ==
    PasskeysTypeOK /\ BareSince /\ NotAdditional /\ CallsVouched /\ RowsVouched /\ OneRevocation

USE PasskeyConstants

LEMMA RestingTypes == /\ Resting \in CallType /\ Resting.pc = "idle"
                      /\ NotIssued \in ChallengeType /\ NotIssued.kind = "none"
BY DEF Resting, CallType, NotIssued, ChallengeType, Kinds

LEMMA CallFields ==
    ASSUME NEW r \in CallType
    PROVE  r.approved \in BOOLEAN /\ r.at \in Nat /\ r.last \in Nat /\ r.row \in Nat
BY DEF CallType

LEMMA AuthorityFields ==
    ASSUME NEW key \in Passkeys, NEW approved \in BOOLEAN, NEW at \in Nat, NEW last \in Nat
    PROVE  [key |-> key, status |-> "active", approved |-> approved, at |-> at, last |-> last] \in AuthorityType
BY DEF AuthorityType

LEMMA PasskeysInitInv == PasskeysInit => PasskeysInv
<1> SUFFICES ASSUME PasskeysInit PROVE PasskeysInv
  OBVIOUS
<1>1. PasskeysTypeOK
  <2>1. <<>> \in Seq(AuthorityType)
    OBVIOUS
  <2> QED BY <2>1, RestingTypes DEF PasskeysInit, PasskeysTypeOK
<1>2. BareSince /\ NotAdditional /\ CallsVouched /\ RowsVouched /\ OneRevocation
  BY RestingTypes DEF PasskeysInit, BareSince, NotAdditional, CallsVouched, RowsVouched, OneRevocation
<1> QED BY <1>1, <1>2 DEF PasskeysInv

\* A step that only moves one call keeps the invariant if the call is vouched
\* for when it registers, and counted what it revokes.
LEMMA CallKeeps ==
    ASSUME PasskeysInv, NEW d \in Devices, NEW to \in CallType, calling' = [calling EXCEPT ![d] = to],
           UNCHANGED <<authority, challenge, bareAt, keyClock>>, crossed' \in BOOLEAN, crossed => crossed',
           (to.pc = "found" /\ to.kind = "registration") \/ to.pc = "consumed" =>
               /\ to.challenge \in Challenges /\ to.key \in Passkeys
               /\ challenge[to.challenge].kind = "registration"
               /\ challenge[to.challenge].additional \/ Vouched(to),
           to.pc = "found" => to.challenge \in Challenges,
           to.pc = "verified" => to.key \in Passkeys /\ (to.approved \/ Vouched(to)),
           to.pc = "counted" /\ ~crossed' =>
               /\ \E i \in activeAuthorities : i # to.row
               /\ \A e \in Devices : calling[e].pc = "counted" => e = d
    PROVE  PasskeysInv'
<1>1. \A e \in Devices : calling'[e] = IF e = d THEN to ELSE calling[e]
  BY DEF PasskeysInv, PasskeysTypeOK
<1>2. PasskeysTypeOK' /\ activeAuthorities' = activeAuthorities
  BY DEF PasskeysInv, PasskeysTypeOK, activeAuthorities
<1>3. BareSince' /\ NotAdditional' /\ RowsVouched'
  BY <1>2 DEF PasskeysInv, BareSince, NotAdditional, RowsVouched, Vouched
<1>4. CallsVouched'
  BY <1>1 DEF PasskeysInv, CallsVouched, Vouched
<1>5. OneRevocation'
  BY <1>1, <1>2 DEF PasskeysInv, OneRevocation
<1> QED BY <1>2, <1>3, <1>4, <1>5 DEF PasskeysInv

LEMMA IssueKeeps ==
    ASSUME PasskeysInv, NEW c \in Challenges, NEW kind \in Kinds \ {"none"}, Issue(c, kind)
    PROVE  PasskeysInv'
<1> DEFINE row == [kind |-> kind, open |-> TRUE, additional |-> kind = "registration" /\ activeAuthorities # {},
                   until |-> keyClock + ChallengeTtl]
<1>1. challenge' = [challenge EXCEPT ![c] = row] /\ UNCHANGED <<authority, calling, bareAt, crossed, keyClock>>
  BY DEF Issue, passkeyRest
<1>2. challenge[c].kind = "none"
  BY RestingTypes DEF Issue
<1>3. /\ row \in ChallengeType /\ row.kind = kind /\ row.until = keyClock + ChallengeTtl
      /\ row.additional <=> (kind = "registration" /\ activeAuthorities # {})
  <2> DEFINE asked == kind = "registration" /\ activeAuthorities # {}
             until == keyClock + ChallengeTtl
  <2>1. asked \in BOOLEAN /\ until \in Nat
    BY DEF PasskeysInv, PasskeysTypeOK
  <2>2. row = [kind |-> kind, open |-> TRUE, additional |-> asked, until |-> until]
    OBVIOUS
  <2> HIDE DEF row, asked, until
  <2>3. row \in ChallengeType /\ row.kind = kind /\ row.until = until /\ row.additional = asked
    BY <2>1, <2>2 DEF ChallengeType
  <2> QED BY <2>3 DEF asked, until
<1> HIDE DEF row
<1>4. \A b \in Challenges : challenge'[b] = IF b = c THEN row ELSE challenge[b]
  BY <1>1 DEF PasskeysInv, PasskeysTypeOK
<1>5. PasskeysTypeOK' /\ activeAuthorities' = activeAuthorities
  BY <1>1, <1>3 DEF PasskeysInv, PasskeysTypeOK, activeAuthorities
<1>6. BareSince' /\ RowsVouched' /\ OneRevocation'
  BY <1>1, <1>5 DEF PasskeysInv, BareSince, RowsVouched, Vouched, OneRevocation
<1>7. NotAdditional'
  BY <1>1, <1>3, <1>4 DEF PasskeysInv, PasskeysTypeOK, BareSince, NotAdditional
<1>8. CallsVouched'
  BY <1>1, <1>2, <1>4 DEF PasskeysInv, CallsVouched, Vouched
<1> QED BY <1>5, <1>6, <1>7, <1>8 DEF PasskeysInv

LEMMA FindKeeps ==
    ASSUME PasskeysInv, NEW d \in Devices, NEW c \in Challenges, NEW kind \in Kinds \ {"none"},
           NEW k \in Passkeys \cup {"none"}, NEW approval \in Passkeys \cup {"none"},
           kind = "registration" => k \in Passkeys, Find(d, c, kind, k, approval)
    PROVE  PasskeysInv'
<1> DEFINE to == [pc |-> "found", kind |-> kind, challenge |-> c, key |-> k, approval |-> approval,
                  approved |-> FALSE, at |-> keyClock, last |-> bareAt, row |-> 0]
<1>1. /\ calling' = [calling EXCEPT ![d] = to] /\ challenge[c].kind = kind /\ challenge[c].until >= keyClock
      /\ UNCHANGED <<authority, challenge, bareAt, crossed, keyClock>>
      /\ keyClock \in Nat /\ bareAt \in Nat /\ crossed \in BOOLEAN /\ challenge[c] \in ChallengeType
  BY DEF Find, Unexpired, passkeyRest, PasskeysInv, PasskeysTypeOK
<1>2. /\ to.pc = "found" /\ to.kind = kind /\ to.challenge = c /\ to.key = k
      /\ to.at = keyClock /\ to.last = bareAt
  OBVIOUS
<1>3. to \in CallType
  <2>1. kind \in Kinds /\ c \in Challenges \cup {"none"} /\ FALSE \in BOOLEAN /\ 0 \in Nat
    OBVIOUS
  <2> QED BY <1>1, <2>1 DEF CallType
<1> HIDE DEF to
<1>4. kind = "registration" => challenge[c].additional \/ Vouched(to)
  <2>1. challenge[c].until \in Nat
    BY <1>1 DEF ChallengeType
  <2> QED BY <1>1, <1>2, <2>1 DEF PasskeysInv, NotAdditional, Vouched
<1> QED BY <1>1, <1>2, <1>3, <1>4, CallKeeps

LEMMA ConsumeKeeps ==
    ASSUME PasskeysInv, NEW d \in Devices, consumeChallenge(d)
    PROVE  PasskeysInv'
<1> DEFINE at == calling[d]
           c == at.challenge
           row == [challenge[c] EXCEPT !.open = FALSE]
<1>1. /\ at.pc = "found" /\ at \in CallType /\ c \in Challenges /\ challenge[c] \in ChallengeType
      /\ challenge' = [challenge EXCEPT ![c] = row]
      /\ UNCHANGED <<authority, bareAt, crossed, keyClock>>
  BY DEF consumeChallenge, passkeyRest, PasskeysInv, PasskeysTypeOK, CallsVouched
<1>2. row \in ChallengeType /\ row.kind = challenge[c].kind /\ row.additional = challenge[c].additional
      /\ row.until = challenge[c].until
  BY <1>1 DEF ChallengeType
<1>3. PICK to \in CallType :
        /\ calling' = [calling EXCEPT ![d] = to]
        /\ to.pc = "idle" \/ /\ to.pc = "consumed" /\ at.kind = "registration" /\ to.challenge = c
                             /\ to.key = at.key /\ to.at = at.at /\ to.last = at.last
  <2>1. CASE calling' = [calling EXCEPT ![d] = Resting]
    BY <2>1, RestingTypes
  <2>2. CASE at.kind = "registration" /\ calling' = [calling EXCEPT ![d] = [at EXCEPT !.pc = "consumed"]]
    <3> DEFINE to == [at EXCEPT !.pc = "consumed"]
    <3>1. /\ to \in CallType /\ to.pc = "consumed" /\ to.challenge = c
          /\ to.key = at.key /\ to.at = at.at /\ to.last = at.last
      BY <1>1 DEF CallType
    <3>2. calling' = [calling EXCEPT ![d] = to]
      BY <2>2
    <3> HIDE DEF to
    <3> QED BY <2>2, <3>1, <3>2
  <2> QED BY <2>1, <2>2 DEF consumeChallenge
<1> HIDE DEF row
<1>4. /\ \A b \in Challenges : /\ challenge'[b].kind = challenge[b].kind /\ challenge'[b].until = challenge[b].until
                               /\ challenge'[b].additional = challenge[b].additional
      /\ \A e \in Devices : calling'[e] = IF e = d THEN to ELSE calling[e]
  BY <1>1, <1>2, <1>3 DEF PasskeysInv, PasskeysTypeOK
<1>5. PasskeysTypeOK' /\ activeAuthorities' = activeAuthorities
  BY <1>1, <1>2, <1>3 DEF PasskeysInv, PasskeysTypeOK, activeAuthorities
<1>6. BareSince' /\ RowsVouched' /\ NotAdditional'
  BY <1>1, <1>4, <1>5 DEF PasskeysInv, BareSince, RowsVouched, Vouched, NotAdditional
<1>7. OneRevocation'
  BY <1>1, <1>3, <1>4, <1>5 DEF PasskeysInv, OneRevocation
<1>8. CallsVouched'
  BY <1>1, <1>3, <1>4 DEF PasskeysInv, CallsVouched, Vouched
<1> QED BY <1>5, <1>6, <1>7, <1>8 DEF PasskeysInv

LEMMA ApproveKeeps ==
    ASSUME PasskeysInv, NEW d \in Devices, approve(d)
    PROVE  PasskeysInv'
<1> DEFINE at == calling[d]
           needed == challenge[at.challenge].additional
           to == [at EXCEPT !.pc = "verified", !.approved = needed]
<1>1. /\ at.pc = "consumed" /\ at \in CallType /\ needed \in BOOLEAN /\ at.key \in Passkeys
      /\ needed \/ Vouched(at)
      /\ UNCHANGED <<authority, challenge, bareAt, crossed, keyClock>> /\ crossed \in BOOLEAN
  BY DEF approve, passkeyRest, PasskeysInv, PasskeysTypeOK, CallsVouched, ChallengeType
<1>2. CASE calling' = [calling EXCEPT ![d] = Resting]
  BY <1>1, <1>2, RestingTypes, CallKeeps
<1>3. CASE calling' = [calling EXCEPT ![d] = to]
  <2>1. /\ to \in CallType /\ to.pc = "verified" /\ to.approved = needed /\ to.key = at.key
        /\ to.at = at.at /\ to.last = at.last
    BY <1>1 DEF CallType
  <2> HIDE DEF to
  <2>2. to.approved \/ Vouched(to)
    BY <1>1, <2>1 DEF Vouched
  <2> QED BY <1>1, <1>3, <2>1, <2>2, CallKeeps
<1> QED BY <1>2, <1>3 DEF approve

LEMMA CreateKeeps ==
    ASSUME PasskeysInv, NEW d \in Devices, createAuthority(d)
    PROVE  PasskeysInv'
<1> DEFINE at == calling[d]
           row == [key |-> at.key, status |-> "active", approved |-> at.approved, at |-> at.at, last |-> at.last]
           n == Len(authority) + 1
<1>1. /\ at.pc = "verified" /\ at \in CallType /\ at.key \in Passkeys /\ (at.approved \/ Vouched(at))
      /\ authority' = Append(authority, row) /\ authority \in Seq(AuthorityType)
      /\ calling' = [calling EXCEPT ![d] = Resting]
      /\ UNCHANGED <<challenge, bareAt, crossed, keyClock>>
  BY DEF createAuthority, passkeyRest, PasskeysInv, PasskeysTypeOK, CallsVouched
<1>2. /\ row \in AuthorityType /\ row.status = "active" /\ row.approved = at.approved
      /\ row.at = at.at /\ row.last = at.last
  <2>1. at \in CallType /\ at.key \in Passkeys
    BY <1>1
  <2>2. at.approved \in BOOLEAN /\ at.at \in Nat /\ at.last \in Nat
    BY <2>1, CallFields
  <2>3. row \in AuthorityType
    BY <2>1, <2>2, AuthorityFields
  <2> QED BY <2>3
<1> HIDE DEF row
<1>3. /\ authority' \in Seq(AuthorityType) /\ DOMAIN authority' = DOMAIN authority \cup {n}
      /\ authority'[n] = row /\ \A i \in DOMAIN authority : authority'[i] = authority[i]
  BY <1>1, <1>2
<1>4. activeAuthorities' = activeAuthorities \cup {n}
  BY <1>1, <1>2, <1>3 DEF activeAuthorities
<1>5. \A e \in Devices : calling'[e] = IF e = d THEN Resting ELSE calling[e]
  BY <1>1 DEF PasskeysInv, PasskeysTypeOK
<1>6. PasskeysTypeOK'
  BY <1>1, <1>3, RestingTypes DEF PasskeysInv, PasskeysTypeOK
<1>7. BareSince' /\ NotAdditional'
  BY <1>1, <1>4 DEF PasskeysInv, BareSince, NotAdditional
<1>8. CallsVouched'
  BY <1>1, <1>5, RestingTypes DEF PasskeysInv, CallsVouched, Vouched
<1>9. RowsVouched'
  BY <1>1, <1>2, <1>3 DEF PasskeysInv, RowsVouched, Vouched
<1>10. OneRevocation'
  BY <1>1, <1>4, <1>5, RestingTypes DEF PasskeysInv, OneRevocation
<1> QED BY <1>6, <1>7, <1>8, <1>9, <1>10 DEF PasskeysInv

LEMMA CountKeeps ==
    ASSUME PasskeysInv, NEW d \in Devices, NEW i \in DOMAIN authority, revoke(d, i)
    PROVE  PasskeysInv'
<1> DEFINE to == [Resting EXCEPT !.pc = "counted", !.row = i]
<1>1. /\ calling' = [calling EXCEPT ![d] = to] /\ Spare /\ i \in Nat
      /\ UNCHANGED <<authority, challenge, bareAt, keyClock>>
      /\ crossed' = (crossed \/ \E e \in Devices : calling[e].pc = "counted")
      /\ crossed \in BOOLEAN
  BY DEF revoke, PasskeysInv, PasskeysTypeOK
<1>2. to \in CallType /\ to.pc = "counted" /\ to.row = i
  BY <1>1, RestingTypes DEF CallType
<1> HIDE DEF to
<1>3. \E j \in activeAuthorities : j # i
  BY <1>1 DEF Spare
<1>4. crossed' \in BOOLEAN
  BY <1>1
<1> QED BY <1>1, <1>2, <1>3, <1>4, CallKeeps

LEMMA RevokedKeeps ==
    ASSUME PasskeysInv, NEW d \in Devices, revoked(d)
    PROVE  PasskeysInv'
<1> DEFINE i == calling[d].row
<1>1. /\ calling[d].pc = "counted" /\ authority \in Seq(AuthorityType)
      /\ authority' = [authority EXCEPT ![i].status = "revoked"]
      /\ calling' = [calling EXCEPT ![d] = Resting]
      /\ bareAt' = IF activeAuthorities = {i} THEN keyClock ELSE bareAt
      /\ UNCHANGED <<challenge, crossed, keyClock>> /\ bareAt \in Nat /\ keyClock \in Nat /\ bareAt <= keyClock
  BY DEF revoked, PasskeysInv, PasskeysTypeOK, BareSince
<1>2. /\ authority' \in Seq(AuthorityType) /\ DOMAIN authority' = DOMAIN authority
      /\ \A j \in DOMAIN authority : /\ authority'[j].approved = authority[j].approved
                                     /\ authority'[j].at = authority[j].at /\ authority'[j].last = authority[j].last
                                     /\ authority'[j].status = IF j = i THEN "revoked" ELSE authority[j].status
  <2>1. authority' = [j \in 1..Len(authority) |->
                        IF j = i THEN [authority[j] EXCEPT !.status = "revoked"] ELSE authority[j]]
    <3>1. authority = [j \in 1..Len(authority) |-> authority[j]]
      BY <1>1
    <3> HIDE DEF i
    <3> QED BY <1>1, <3>1
  <2>2. \A j \in 1..Len(authority) : authority[j] \in AuthorityType
    BY <1>1
  <2>3. \A j \in 1..Len(authority) :
          LET row == [authority[j] EXCEPT !.status = "revoked"]
          IN  /\ row \in AuthorityType /\ row.approved = authority[j].approved /\ row.status = "revoked"
              /\ row.at = authority[j].at /\ row.last = authority[j].last
    BY <2>2 DEF AuthorityType
  <2>4. \A j \in 1..Len(authority) : authority'[j] \in AuthorityType
    BY <2>1, <2>2, <2>3
  <2>5. authority' \in Seq(AuthorityType) /\ DOMAIN authority' = 1..Len(authority)
    BY <2>1, <2>4
  <2> QED BY <1>1, <2>1, <2>3, <2>5
<1>3. activeAuthorities' = activeAuthorities \ {i}
  BY <1>2 DEF activeAuthorities
<1>4. \A e \in Devices : calling'[e] = IF e = d THEN Resting ELSE calling[e]
  BY <1>1 DEF PasskeysInv, PasskeysTypeOK
<1>5. PasskeysTypeOK'
  BY <1>1, <1>2, RestingTypes DEF PasskeysInv, PasskeysTypeOK
<1>6. BareSince'
  <2>1. activeAuthorities \ {i} = {} => activeAuthorities = {i} \/ activeAuthorities = {}
    OBVIOUS
  <2>2. activeAuthorities = {} => bareAt = keyClock
    BY DEF PasskeysInv, BareSince
  <2>3. bareAt' <= keyClock'
    BY <1>1
  <2> QED BY <1>1, <1>3, <2>1, <2>2, <2>3 DEF BareSince
<1>7. NotAdditional'
  <2>1. \A c \in Challenges : challenge[c].until \in Nat
    BY DEF PasskeysInv, PasskeysTypeOK, ChallengeType
  <2>2. bareAt <= bareAt' /\ bareAt' \in Nat
    BY <1>1
  <2> QED BY <1>1, <2>1, <2>2 DEF PasskeysInv, NotAdditional
<1>8. CallsVouched' /\ RowsVouched'
  BY <1>1, <1>2, <1>4, RestingTypes DEF PasskeysInv, CallsVouched, RowsVouched, Vouched
<1>9. OneRevocation'
  BY <1>1, <1>2, <1>3, <1>4, RestingTypes DEF PasskeysInv, OneRevocation
<1> QED BY <1>5, <1>6, <1>7, <1>8, <1>9 DEF PasskeysInv

LEMMA PasskeyTickKeeps == ASSUME PasskeysInv, PasskeyTick PROVE PasskeysInv'
<1>1. /\ UNCHANGED <<authority, challenge, calling, crossed>> /\ keyClock' = keyClock + 1
      /\ bareAt' = IF activeAuthorities = {} THEN keyClock' ELSE bareAt
      /\ keyClock \in Nat /\ bareAt \in Nat /\ bareAt <= keyClock
  BY DEF PasskeyTick, PasskeysInv, PasskeysTypeOK, BareSince
<1>2. activeAuthorities' = activeAuthorities
  BY <1>1 DEF activeAuthorities
<1>3. PasskeysTypeOK' /\ BareSince'
  BY <1>1, <1>2 DEF PasskeysInv, PasskeysTypeOK, BareSince
<1>4. NotAdditional'
  BY <1>1 DEF PasskeysInv, PasskeysTypeOK, NotAdditional, ChallengeType
<1>5. CallsVouched' /\ RowsVouched' /\ OneRevocation'
  BY <1>1, <1>2 DEF PasskeysInv, CallsVouched, RowsVouched, Vouched, OneRevocation
<1> QED BY <1>3, <1>4, <1>5 DEF PasskeysInv

\* The passkeys keep their invariant.
LEMMA PasskeysStep == PasskeysInv /\ [PasskeysNext]_passkeyVars => PasskeysInv'
<1> SUFFICES ASSUME PasskeysInv, [PasskeysNext]_passkeyVars PROVE PasskeysInv'
  OBVIOUS
<1>1. {"registration", "authentication", "login"} = Kinds \ {"none"}
  BY DEF Kinds
<1>2. ASSUME NEW c \in Challenges, registerStart(c) \/ authenticateStart(c) \/ loginStart(c) PROVE PasskeysInv'
  BY <1>1, <1>2, IssueKeeps DEF registerStart, authenticateStart, loginStart
<1>3. ASSUME NEW d \in Devices, NEW c \in Challenges, NEW k \in Passkeys, NEW approval \in Passkeys,
             registerFinish(d, c, k, approval)
      PROVE  PasskeysInv'
  BY <1>1, <1>3, FindKeeps DEF registerFinish
<1>4. ASSUME NEW d \in Devices, NEW c \in Challenges, authenticateFinish(d, c) \/ loginFinish(d, c)
      PROVE  PasskeysInv'
  BY <1>1, <1>4, FindKeeps DEF authenticateFinish, loginFinish
<1>5. CASE UNCHANGED passkeyVars
  BY <1>5 DEF passkeyVars, PasskeysInv, PasskeysTypeOK, BareSince, NotAdditional, CallsVouched, RowsVouched,
              Vouched, OneRevocation, activeAuthorities
<1> QED BY <1>2, <1>3, <1>4, <1>5, ConsumeKeeps, ApproveKeeps, CreateKeeps, CountKeeps, RevokedKeeps,
           PasskeyTickKeeps DEF PasskeysNext

\* A passkey nobody approved was presented while the account had none, or within
\* a challenge's lifetime of that; and revocations that do not cross leave one.
THEOREM PasskeysVouched == PasskeysSpec => []KeysVouched
<1>1. PasskeysInv => KeysVouched
  BY DEF PasskeysInv, RowsVouched, Vouched, OneRevocation, KeysVouched
<1> QED BY PasskeysInitInv, PasskeysStep, <1>1, PTL DEF PasskeysSpec

\* Both together: access to an identity ends when it is ended, and begins as the
\* account allows.
THEOREM AccessIsAllowed == AccessSpec => []AccessAsAllowed
<1>1. FamilyEnds /\ KeysVouched => AccessAsAllowed
  BY DEF AccessAsAllowed
<1> QED BY <1>1, FamiliesEnd, PasskeysVouched, PTL DEF AccessSpec

---------------------------------------------------------------------------
\* Claims

ClaimType == [pc: {"idle"}] \cup [pc: {"commit"}, ticket: Nat, pid: Pids, boot: BOOLEAN]
TicketType == [login: DOMAIN Logins, live: BOOLEAN]

SignUpTypeOK ==
    /\ DOMAIN identity \subseteq Pids
    /\ ticket \in Seq(TicketType)
    /\ claiming \in [Claimants -> ClaimType]
    /\ bootLock \in Pids \cup {Nothing}

\* The unique indexes on credentials, and the credential inserted with a handle.
CredentialsUnique ==
    /\ \A c, d \in credential : c.login = d.login \/ lower(c.email) = lower(d.email) \/ c.pid = d.pid => c = d
    /\ DOMAIN identity = {c.pid : c \in credential}

\* Only the holder of the bootstrap lock is an admin.
AdminHoldsLock == \A p \in Admins : bootLock = p

\* The inductive invariant of sign-up.
SignUpInv == SignUpTypeOK /\ CredentialsUnique /\ AdminHoldsLock

USE SignUpConstants

LEMMA SignUpInitInv == SignUpInit => SignUpInv
<1> SUFFICES ASSUME SignUpInit PROVE SignUpInv
  OBVIOUS
<1>1. DOMAIN identity = {} /\ credential = {} /\ Admins = {}
  BY DEF SignUpInit, Admins
<1>2. SignUpTypeOK
  BY <1>1 DEF SignUpInit, SignUpTypeOK, ClaimType, Away
<1> QED BY <1>1, <1>2 DEF SignUpInv, CredentialsUnique, AdminHoldsLock

\* A step that touches neither handles nor credentials.
LEMMA ElsewhereKeepsClaims ==
    ASSUME SignUpInv, UNCHANGED <<identity, credential, bootLock>>,
           ticket' \in Seq(TicketType), claiming' \in [Claimants -> ClaimType]
    PROVE  SignUpInv'
BY DEF SignUpInv, SignUpTypeOK, CredentialsUnique, AdminHoldsLock, Admins, lower

LEMMA MintType ==
    ASSUME SignUpInv, NEW l \in DOMAIN Logins, mint(l)
    PROVE  ticket' \in Seq(TicketType)
<1>1. [login |-> l, live |-> TRUE] \in TicketType
  BY DEF TicketType
<1> QED BY <1>1 DEF mint, SignUpInv, SignUpTypeOK

LEMMA EndedTicketType ==
    ASSUME SignUpInv, NEW k \in Nat
    PROVE  [ticket EXCEPT ![k].live = FALSE] \in Seq(TicketType)
<1>1. ticket \in Seq(TicketType)
  BY DEF SignUpInv, SignUpTypeOK
<1>2. CASE k \in DOMAIN ticket
  <2>1. ticket[k] \in TicketType
    BY <1>1, <1>2
  <2>2. [ticket[k] EXCEPT !.live = FALSE] \in TicketType
    BY <2>1 DEF TicketType
  <2> DEFINE row == [ticket[k] EXCEPT !.live = FALSE]
  <2>3. [ticket EXCEPT ![k].live = FALSE] = [ticket EXCEPT ![k] = row]
    OBVIOUS
  <2> HIDE DEF row
  <2>4. row \in TicketType
    BY <2>2 DEF row
  <2>5. [ticket EXCEPT ![k] = row] \in Seq(TicketType)
    BY <1>1, <1>2, <2>4
  <2> QED BY <2>3, <2>5
<1>3. CASE k \notin DOMAIN ticket
  <2>1. [ticket EXCEPT ![k].live = FALSE] = [i \in DOMAIN ticket |-> ticket[i]]
    BY <1>3
  <2>2. ticket = [i \in DOMAIN ticket |-> ticket[i]]
    BY <1>1
  <2> QED BY <1>1, <2>1, <2>2
<1> QED BY <1>2, <1>3

LEMMA ClaimHandleKeeps ==
    ASSUME SignUpInv, NEW x \in Claimants, NEW k \in DOMAIN ticket, NEW p \in Pids, claimHandle(x, k, p)
    PROVE  SignUpInv'
<1> DEFINE to == [pc |-> "commit", ticket |-> k, pid |-> p, boot |-> p \in Bootstrap /\ Admins = {}]
<1>1. to \in ClaimType
  BY DEF ClaimType, SignUpInv, SignUpTypeOK
<1>2. claiming' = [claiming EXCEPT ![x] = to] /\ UNCHANGED <<identity, credential, ticket, bootLock>>
  BY DEF claimHandle
<1> HIDE DEF to
<1>3. ticket' \in Seq(TicketType) /\ claiming' \in [Claimants -> ClaimType]
  BY <1>1, <1>2 DEF SignUpInv, SignUpTypeOK
<1> QED BY <1>2, <1>3, ElsewhereKeepsClaims

\* However many claims passed their checks, the indexes let one of each key in.
LEMMA CommitClaimKeeps ==
    ASSUME SignUpInv, NEW x \in Claimants, commitClaim(x)
    PROVE  SignUpInv'
<1> DEFINE t == claiming[x].ticket
           l == ticket[t].login
           p == claiming[x].pid
           boot == claiming[x].boot
           row == [login |-> l, email |-> Logins[l].email, pid |-> p]
<1>1. /\ claiming[x] \in [pc: {"commit"}, ticket: Nat, pid: Pids, boot: BOOLEAN]
      /\ claiming \in [Claimants -> ClaimType] /\ claiming' = [claiming EXCEPT ![x] = Away]
  BY DEF commitClaim, SignUpInv, SignUpTypeOK, ClaimType
<1>2. claiming' \in [Claimants -> ClaimType]
  BY <1>1 DEF ClaimType, Away
<1>3. CASE Duplicate(x)
  BY <1>2, <1>3, ElsewhereKeepsClaims DEF commitClaim, SignUpInv, SignUpTypeOK
<1>4. CASE ~Duplicate(x)
  <2>1. /\ identity' = [q \in DOMAIN identity \cup {p} |->
               IF q = p THEN IF boot THEN "admin" ELSE "user" ELSE identity[q]]
        /\ credential' = credential \cup {row}
        /\ ticket' = [ticket EXCEPT ![t].live = FALSE]
        /\ bootLock' = IF boot THEN p ELSE bootLock
    BY <1>4 DEF commitClaim
  <2>2. /\ p \in Pids /\ p \notin DOMAIN identity /\ t \in Nat
        /\ \A c \in credential : c.login # l /\ lower(c.email) # lower(Logins[l].email)
        /\ boot => bootLock = Nothing
    BY <1>1, <1>4 DEF Duplicate, EmailTaken
  <2>3. \A c \in credential : c.pid # p
    BY <2>2 DEF SignUpInv, CredentialsUnique
  <2>4. row.login = l /\ row.email = Logins[l].email /\ row.pid = p
    OBVIOUS
  <2>5. ticket' \in Seq(TicketType)
    BY <2>1, <2>2, EndedTicketType
  <2> HIDE DEF row
  <2>6. CredentialsUnique'
    <3>1. \A c, d \in credential' :
             c.login = d.login \/ lower(c.email) = lower(d.email) \/ c.pid = d.pid => c = d
      BY <2>1, <2>2, <2>3, <2>4 DEF SignUpInv, CredentialsUnique, lower
    <3>2. DOMAIN identity' = {c.pid : c \in credential'}
      BY <2>1, <2>4 DEF SignUpInv, CredentialsUnique
    <3> QED BY <3>1, <3>2 DEF CredentialsUnique, lower
  <2>7. AdminHoldsLock'
    <3> SUFFICES ASSUME NEW q \in Admins' PROVE bootLock' = q
      BY DEF AdminHoldsLock
    <3>1. q \in DOMAIN identity \cup {p} /\ identity'[q] = "admin"
      BY <2>1 DEF Admins
    <3>2. CASE q = p
      BY <2>1, <3>1, <3>2
    <3>3. CASE q # p
      <4>1. q \in Admins
        BY <2>1, <3>1, <3>3 DEF Admins
      <4>2. bootLock = q /\ q \in Pids
        BY <4>1 DEF SignUpInv, SignUpTypeOK, AdminHoldsLock, Admins
      <4> QED BY <2>1, <2>2, <4>2
    <3> QED BY <3>2, <3>3
  <2>8. SignUpTypeOK'
    BY <1>2, <2>1, <2>2, <2>5 DEF SignUpInv, SignUpTypeOK
  <2> QED BY <2>6, <2>7, <2>8 DEF SignUpInv
<1> QED BY <1>3, <1>4

LEMMA SignUpStep == SignUpInv /\ [SignUpNext]_signUpVars => SignUpInv'
<1> SUFFICES ASSUME SignUpInv, [SignUpNext]_signUpVars PROVE SignUpInv'
  OBVIOUS
<1>1. ASSUME UNCHANGED <<identity, credential, ticket, claiming, bootLock>> PROVE SignUpInv'
  BY <1>1, ElsewhereKeepsClaims DEF SignUpInv, SignUpTypeOK
<1>2. CASE request
  BY <1>1, <1>2 DEF request
<1>3. ASSUME NEW i \in DOMAIN otp, CodeExpires(i) PROVE SignUpInv'
  BY <1>1, <1>3 DEF CodeExpires
<1>4. ASSUME NEW v \in Verifiers, NEW right \in BOOLEAN, verify(v, right) PROVE SignUpInv'
  BY <1>1, <1>4 DEF verify
<1>5. ASSUME NEW v \in Verifiers, verified(v) PROVE SignUpInv'
  BY <1>1, <1>5 DEF verified
<1>6. ASSUME NEW l \in DOMAIN Logins, mint(l), UNCHANGED <<identity, credential, claiming, bootLock>>
      PROVE  SignUpInv'
  BY <1>6, MintType, ElsewhereKeepsClaims DEF SignUpInv, SignUpTypeOK
<1>7. ASSUME NEW v \in Verifiers, NEW l \in DOMAIN Logins, emailVerify(v, l) PROVE SignUpInv'
  BY <1>1, <1>6, <1>7 DEF emailVerify
<1>8. ASSUME NEW l \in DOMAIN Logins, googleCallback(l) PROVE SignUpInv'
  BY <1>6, <1>8 DEF googleCallback
<1>9. ASSUME NEW k \in DOMAIN ticket, abandon(k) PROVE SignUpInv'
  <2>1. k \in Nat
    BY DEF SignUpInv, SignUpTypeOK
  <2> QED BY <1>9, <2>1, EndedTicketType, ElsewhereKeepsClaims DEF abandon, SignUpInv, SignUpTypeOK
<1>10. CASE UNCHANGED signUpVars
  BY <1>1, <1>10 DEF signUpVars
<1> QED BY <1>2, <1>3, <1>4, <1>5, <1>7, <1>8, <1>9, <1>10, ClaimHandleKeeps, CommitClaimKeeps DEF SignUpNext

\* Whatever claims race on whatever handles, logins and spellings, a person has
\* one identity, and no second bootstrap handle becomes an admin.
THEOREM OnePersonOneIdentity == SignUpSpec => []OneIdentityEach
<1>1. SignUpInv => OneIdentityEach
  <2> SUFFICES ASSUME SignUpInv PROVE OneIdentityEach
    OBVIOUS
  <2>1. Admins \subseteq {bootLock}
    BY DEF SignUpInv, AdminHoldsLock
  <2>2. Cardinality(Admins) <= 1
    <3>1. IsFiniteSet({bootLock}) /\ Cardinality({bootLock}) = 1
      BY FS_Singleton
    <3> QED BY <2>1, <3>1, FS_Subset
  <2> QED BY <2>2 DEF SignUpInv, CredentialsUnique, OneIdentityEach
<1> QED BY SignUpInitInv, SignUpStep, <1>1, PTL DEF SignUpSpec
---------------------------------------------------------------------------
\* Codes for other sites

CodeType ==
    [on: {FALSE}] \cup
    [on: {TRUE}, used: BOOLEAN, to: Targets, bound: BOOLEAN, challenge: BOOLEAN, consent: BOOLEAN,
     sure: BOOLEAN, until: Nat]
LoginType ==
    [pc: {"idle"}] \cup [pc: {"gate"}, to: Targets, bound: BOOLEAN, consent: BOOLEAN, sure: BOOLEAN]
RedeemType == [pc: {"idle"}] \cup [pc: {"app", "mark", "answer"}, code: SsoCodes]

SsoTypeOK ==
    /\ code \in [SsoCodes -> CodeType] /\ login \in [Browsers -> LoginType]
    /\ redeem \in [Shops -> RedeemType] /\ exchanged \in [SsoCodes -> {0, 1}] /\ ssoClock \in Nat

\* What is redeemed was issued, and issued past the gate.
IssuedPastGate ==
    /\ \A c \in SsoCodes : code[c].on => code[c].consent \/ code[c].sure
    /\ \A s \in Shops : redeem[s].pc # "idle" => code[redeem[s].code].on

\* The guarded write lets one exchange through, which answers once.
OneAnswer ==
    /\ \A c \in SsoCodes : exchanged[c] = 1 => code[c].on /\ code[c].used
    /\ \A s \in Shops : redeem[s].pc = "answer" => code[redeem[s].code].used /\ exchanged[redeem[s].code] = 0
    /\ \A r, s \in Shops : redeem[r].pc = "answer" /\ redeem[s].pc = "answer" /\ redeem[r].code = redeem[s].code => r = s

\* The inductive invariant of the codes.
SsoInv == SsoTypeOK /\ IssuedPastGate /\ OneAnswer

USE SsoConstants

LEMMA SsoInitInv == SsoInit => SsoInv
BY DEF SsoInit, SsoInv, SsoTypeOK, IssuedPastGate, OneAnswer, NoCode, NoRequest, CodeType, LoginType, RedeemType

LEMMA NoRequestType == NoRequest \in LoginType /\ NoRequest \in RedeemType /\ NoRequest.pc = "idle"
BY DEF NoRequest, LoginType, RedeemType

\* A step that leaves codes and exchanges alone.
LEMMA LoginKeepsCodes ==
    ASSUME SsoInv, UNCHANGED <<code, redeem, exchanged>>, login' \in [Browsers -> LoginType], ssoClock' \in Nat
    PROVE  SsoInv'
BY DEF SsoInv, SsoTypeOK, IssuedPastGate, OneAnswer

\* A step that moves one exchange on, short of its answer.
LEMMA RedeemKeepsCodes ==
    ASSUME SsoInv, NEW s \in Shops, NEW to \in RedeemType, redeem' = [redeem EXCEPT ![s] = to],
           UNCHANGED <<code, login, exchanged, ssoClock>>,
           to.pc # "answer", to.pc # "idle" => code[to.code].on
    PROVE  SsoInv'
<1>1. \A r \in Shops : redeem'[r] = IF r = s THEN to ELSE redeem[r]
  BY DEF SsoInv, SsoTypeOK
<1>2. redeem' \in [Shops -> RedeemType]
  BY DEF SsoInv, SsoTypeOK
<1>3. SsoTypeOK'
  BY <1>2 DEF SsoInv, SsoTypeOK
<1>4. IssuedPastGate'
  BY <1>1 DEF SsoInv, IssuedPastGate
<1>5. OneAnswer'
  BY <1>1 DEF SsoInv, OneAnswer
<1> QED BY <1>3, <1>4, <1>5 DEF SsoInv

LEMMA ResolveKeeps ==
    ASSUME SsoInv, NEW b \in Browsers, NEW to \in Targets, NEW bound \in BOOLEAN, NEW consent \in BOOLEAN,
           resolveReturnTo(b, to, bound, consent)
    PROVE  SsoInv'
<1> DEFINE sure == to \in {"local", "wallet"} \/ isVerificationActive
           row == [pc |-> "gate", to |-> to, bound |-> bound, consent |-> consent, sure |-> sure]
<1>1. login' = [login EXCEPT ![b] = row] /\ UNCHANGED <<code, redeem, exchanged, ssoClock>>
  BY DEF resolveReturnTo
<1>2. row \in LoginType
  <2>1. sure \in BOOLEAN
    OBVIOUS
  <2> HIDE DEF sure
  <2> QED BY <2>1 DEF LoginType
<1> HIDE DEF row
<1>3. login' \in [Browsers -> LoginType] /\ ssoClock' \in Nat
  BY <1>1, <1>2 DEF SsoInv, SsoTypeOK
<1> QED BY <1>1, <1>3, LoginKeepsCodes

LEMMA IssueCodeKeeps ==
    ASSUME SsoInv, NEW b \in Browsers, NEW c \in SsoCodes, NEW pkce \in BOOLEAN, issue(b, c, pkce)
    PROVE  SsoInv'
<1> DEFINE row == [on |-> TRUE, used |-> FALSE, to |-> login[b].to, bound |-> login[b].bound,
                   challenge |-> pkce, consent |-> login[b].consent, sure |-> login[b].sure,
                   until |-> ssoClock + SsoTtl]
<1>1. /\ code' = [code EXCEPT ![c] = row] /\ login' = [login EXCEPT ![b] = NoRequest]
      /\ UNCHANGED <<redeem, exchanged, ssoClock>> /\ login[b].pc = "gate" /\ ~code[c].on
      /\ (IF login[b].consent THEN grant[login[b].to] # "revoked" ELSE login[b].sure)
  BY DEF issue, Gate
<1>2. login[b] \in [pc: {"gate"}, to: Targets, bound: BOOLEAN, consent: BOOLEAN, sure: BOOLEAN]
  BY <1>1 DEF SsoInv, SsoTypeOK, LoginType
<1>3. row \in CodeType
  <2>1. ssoClock + SsoTtl \in Nat
    BY DEF SsoInv, SsoTypeOK
  <2> QED BY <1>2, <2>1 DEF CodeType
<1>4. row.on /\ (row.consent \/ row.sure)
  BY <1>1
<1> HIDE DEF row
<1>5. \A d \in SsoCodes : code'[d] = IF d = c THEN row ELSE code[d]
  BY <1>1 DEF SsoInv, SsoTypeOK
<1>6. SsoTypeOK'
  <2>1. code' \in [SsoCodes -> CodeType]
    BY <1>1, <1>3 DEF SsoInv, SsoTypeOK
  <2>2. login' \in [Browsers -> LoginType]
    BY <1>1, NoRequestType DEF SsoInv, SsoTypeOK
  <2> QED BY <1>1, <2>1, <2>2 DEF SsoInv, SsoTypeOK
<1>7. \A s \in Shops : redeem[s].pc # "idle" => redeem[s].code \in SsoCodes \ {c}
  BY <1>1 DEF SsoInv, SsoTypeOK, RedeemType, IssuedPastGate
<1>8. IssuedPastGate'
  BY <1>1, <1>4, <1>5, <1>7 DEF SsoInv, IssuedPastGate
<1>9. OneAnswer'
  BY <1>1, <1>5, <1>7 DEF SsoInv, OneAnswer
<1> QED BY <1>6, <1>8, <1>9 DEF SsoInv

LEMMA ConsumeCodeKeeps ==
    ASSUME SsoInv, NEW s \in Shops, NEW c \in SsoCodes, consume(s, c)
    PROVE  SsoInv'
<1> DEFINE pc == IF code[c].bound THEN "app" ELSE "mark"
           to == [pc |-> pc, code |-> c]
<1>1. to \in RedeemType /\ to.pc # "answer" /\ to.code = c
  BY DEF RedeemType
<1>2. code[c].on /\ redeem' = [redeem EXCEPT ![s] = to] /\ UNCHANGED <<code, login, exchanged, ssoClock>>
  BY DEF consume
<1> HIDE DEF to
<1> QED BY <1>1, <1>2, RedeemKeepsCodes

LEMMA ConsumeAppKeeps ==
    ASSUME SsoInv, NEW s \in Shops, NEW k, consumeApp(s, k)
    PROVE  SsoInv'
<1> DEFINE to == [redeem[s] EXCEPT !.pc = "mark"]
<1>1. /\ redeem[s].pc = "app" /\ redeem[s] \in RedeemType /\ code[redeem[s].code].on
      /\ UNCHANGED <<code, login, exchanged, ssoClock>>
  BY DEF consumeApp, SsoInv, SsoTypeOK, IssuedPastGate
<1>2. redeem' = [redeem EXCEPT ![s] = to] \/ redeem' = [redeem EXCEPT ![s] = NoRequest]
  BY DEF consumeApp
<1>3. to \in RedeemType /\ to.pc = "mark" /\ to.code = redeem[s].code
  BY <1>1 DEF RedeemType
<1> HIDE DEF to
<1> QED BY <1>1, <1>2, <1>3, NoRequestType, RedeemKeepsCodes

\* Two exchanges of one code: the second one's write finds it spent.
LEMMA MarkConsumedKeeps ==
    ASSUME SsoInv, NEW s \in Shops, markConsumed(s)
    PROVE  SsoInv'
<1> DEFINE c == redeem[s].code
           row == [code[c] EXCEPT !.used = TRUE]
           to == [redeem[s] EXCEPT !.pc = "answer"]
<1>1. /\ redeem[s].pc = "mark" /\ redeem[s] \in RedeemType /\ code[c].on
      /\ UNCHANGED <<login, exchanged, ssoClock>>
  BY DEF markConsumed, SsoInv, SsoTypeOK, IssuedPastGate
<1>2. c \in SsoCodes
  BY <1>1 DEF RedeemType
<1>3. CASE Unspent(c)
  <2>1. code' = [code EXCEPT ![c] = row] /\ redeem' = [redeem EXCEPT ![s] = to] /\ ~code[c].used
    BY <1>3 DEF markConsumed, Unspent
  <2>2. code[c] \in CodeType /\ code[c].on
    BY <1>1, <1>2 DEF SsoInv, SsoTypeOK
  <2>3. row \in CodeType /\ row.on /\ row.used /\ row.consent = code[c].consent /\ row.sure = code[c].sure
    BY <2>2 DEF CodeType
  <2>4. to \in RedeemType /\ to.pc = "answer" /\ to.code = c
    BY <1>1 DEF RedeemType
  <2> HIDE DEF row, to, c
  <2>5. \A d \in SsoCodes : code'[d] = IF d = c THEN row ELSE code[d]
    BY <1>2, <2>1 DEF SsoInv, SsoTypeOK
  <2>6. \A r \in Shops : redeem'[r] = IF r = s THEN to ELSE redeem[r]
    BY <2>1 DEF SsoInv, SsoTypeOK
  <2>7. SsoTypeOK'
    BY <1>1, <1>2, <2>1, <2>3, <2>4 DEF SsoInv, SsoTypeOK
  <2>8. IssuedPastGate'
    BY <1>1, <1>2, <2>3, <2>4, <2>5, <2>6 DEF SsoInv, IssuedPastGate, SsoTypeOK, RedeemType
  <2>9. \A r \in Shops : redeem[r].pc = "answer" => redeem[r].code \in SsoCodes /\ redeem[r].code # c
    BY <2>1 DEF SsoInv, SsoTypeOK, RedeemType, OneAnswer
  <2>10. exchanged[c] = 0
    BY <1>2, <2>1 DEF SsoInv, SsoTypeOK, OneAnswer
  <2>11. OneAnswer'
    <3>1. \A d \in SsoCodes : exchanged'[d] = 1 => code'[d].on /\ code'[d].used
      BY <1>1, <2>3, <2>5 DEF SsoInv, OneAnswer
    <3>2. ASSUME NEW r \in Shops, redeem'[r].pc = "answer"
          PROVE  code'[redeem'[r].code].used /\ exchanged'[redeem'[r].code] = 0
      <4>1. CASE r = s
        BY <1>1, <1>2, <2>3, <2>4, <2>5, <2>6, <2>10, <4>1
      <4>2. CASE r # s
        BY <1>1, <2>5, <2>6, <2>9, <3>2, <4>2 DEF SsoInv, OneAnswer
      <4> QED BY <4>1, <4>2
    <3>3. \A q, r \in Shops :
             redeem'[q].pc = "answer" /\ redeem'[r].pc = "answer" /\ redeem'[q].code = redeem'[r].code => q = r
      BY <2>4, <2>6, <2>9 DEF SsoInv, OneAnswer
    <3> QED BY <3>1, <3>2, <3>3 DEF OneAnswer
  <2> QED BY <2>7, <2>8, <2>11 DEF SsoInv
<1>4. CASE ~Unspent(c)
  BY <1>1, <1>4, NoRequestType, RedeemKeepsCodes DEF markConsumed
<1> QED BY <1>3, <1>4

LEMMA AnswerKeeps ==
    ASSUME SsoInv, NEW s \in Shops, answer(s)
    PROVE  SsoInv'
<1> DEFINE c == redeem[s].code
<1>1. /\ redeem[s].pc = "answer" /\ redeem[s] \in RedeemType /\ code[c].on /\ code[c].used /\ exchanged[c] = 0
      /\ UNCHANGED <<code, login, ssoClock>>
      /\ exchanged' = [exchanged EXCEPT ![c] = @ + 1] /\ redeem' = [redeem EXCEPT ![s] = NoRequest]
  BY DEF answer, SsoInv, SsoTypeOK, IssuedPastGate, OneAnswer
<1>2. c \in SsoCodes
  BY <1>1 DEF RedeemType
<1>3. \A r \in Shops \ {s} : redeem[r].pc = "answer" => redeem[r].code # c
  BY <1>1 DEF SsoInv, OneAnswer
<1> HIDE DEF c
<1>4. \A d \in SsoCodes : exchanged'[d] = IF d = c THEN 1 ELSE exchanged[d]
  BY <1>1, <1>2 DEF SsoInv, SsoTypeOK
<1>5. \A r \in Shops : redeem'[r] = IF r = s THEN NoRequest ELSE redeem[r]
  BY <1>1 DEF SsoInv, SsoTypeOK
<1>6. SsoTypeOK'
  BY <1>1, <1>2, NoRequestType DEF SsoInv, SsoTypeOK
<1>7. IssuedPastGate'
  BY <1>1, <1>5, NoRequestType DEF SsoInv, IssuedPastGate
<1>8. OneAnswer'
  BY <1>1, <1>3, <1>4, <1>5, NoRequestType DEF SsoInv, SsoTypeOK, RedeemType, OneAnswer
<1> QED BY <1>6, <1>7, <1>8 DEF SsoInv

LEMMA SsoStep == SsoInv /\ [SsoNext]_ssoVars => SsoInv'
<1> SUFFICES ASSUME SsoInv, [SsoNext]_ssoVars PROVE SsoInv'
  OBVIOUS
<1>1. ASSUME UNCHANGED <<code, login, redeem, exchanged>>, ssoClock' \in Nat PROVE SsoInv'
  BY <1>1, LoginKeepsCodes DEF SsoInv, SsoTypeOK
<1>2. ASSUME UNCHANGED <<code, login, redeem, exchanged, ssoClock>> PROVE SsoInv'
  BY <1>1, <1>2 DEF SsoInv, SsoTypeOK
<1>3. ASSUME NEW b \in Browsers, leave(b) PROVE SsoInv'
  <2>1. login' \in [Browsers -> LoginType] /\ ssoClock' \in Nat
    BY <1>3, NoRequestType DEF leave, SsoInv, SsoTypeOK
  <2> QED BY <1>3, <2>1, LoginKeepsCodes DEF leave
<1>4. ASSUME NEW origins, update(origins) PROVE SsoInv'
  BY <1>2, <1>4 DEF update, appRest
<1>5. CASE updateWrite
  BY <1>2, <1>5 DEF updateWrite, appRest
<1>6. CASE setActive \/ rotateSecret
  BY <1>2, <1>6 DEF setActive, rotateSecret, appRest
<1>7. CASE clearLapsed
  BY <1>2, <1>7 DEF clearLapsed, appRest
<1>8. ASSUME NEW yes, setAppVerified(yes) PROVE SsoInv'
  BY <1>2, <1>8 DEF setAppVerified, appRest
<1>9. ASSUME NEW yes, NEW until, grantVerification(yes, until) PROVE SsoInv'
  BY <1>2, <1>9 DEF grantVerification, appRest
<1>10. ASSUME NEW o \in Targets, revokeGrant(o) PROVE SsoInv'
  BY <1>2, <1>10 DEF revokeGrant
<1>11. CASE SsoTick
  BY <1>1, <1>11 DEF SsoTick, SsoInv, SsoTypeOK
<1>12. CASE UNCHANGED ssoVars
  BY <1>2, <1>12 DEF ssoVars
<1>13. ASSUME NEW s \in Shops, markConsumed(s) \/ answer(s) PROVE SsoInv'
  BY <1>13, MarkConsumedKeeps, AnswerKeeps
<1>14. ASSUME NEW s \in Shops, NEW k \in 0..MaxSecrets, consumeApp(s, k) PROVE SsoInv'
  BY <1>14, ConsumeAppKeeps
<1> QED BY <1>3, <1>4, <1>5, <1>6, <1>7, <1>8, <1>9, <1>10, <1>11, <1>12, <1>13, <1>14,
           ResolveKeeps, IssueCodeKeeps, ConsumeCodeKeeps DEF SsoNext

\* However many back ends redeem a code together, it signs in one of them once,
\* and it was issued with consent or to a target that was verified then.
THEOREM CodesAreSpentOnce == SsoSpec => []CodesSpentOnce
<1>1. SsoInv => CodesSpentOnce
  BY DEF SsoInv, SsoTypeOK, OneAnswer, IssuedPastGate, CodesSpentOnce
<1> QED BY SsoInitInv, SsoStep, <1>1, PTL DEF SsoSpec
=============================================================================
