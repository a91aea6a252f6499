------------------------------ MODULE Relayer -------------------------------
(***************************************************************************)
(* The sponsoring relayer of one identity on Solana: withdraw, execute and *)
(* rotate, the broadcast slots they claim, resolve-then-act on ambiguous   *)
(* answers, and the circuit breaker.                                       *)
(*                                                                         *)
(* A user signs intents: an entry point, the account nonce, an expiry.  A  *)
(* client may send an intent any number of times; several requests run at  *)
(* once, each step below is one of their awaits.  The chain, its RPC and   *)
(* the confirmation of transactions are external.                          *)
(***************************************************************************)
EXTENDS Integers, Sequences, FiniteSets

CONSTANTS
    Intents,        \* signed intents
    Signed,         \* what each one says: entry, nonce, key, to, expiry
    Workers,        \* requests being served
    AuthKeys,       \* passkeys of the identity
    FirstKey,       \* the account's authority at the start
    NoIntent,
    BreakerCap,     \* absorbed loss that opens the breaker
    TxCost,         \* what a rotation costs the relayer
    SlotTtl,        \* ROTATION_SLOT_TTL_MS
    BreakerWindow,  \* BREAKER_WINDOW_MS
    EndOfTime,      \* bound: time
    MaxTxs,         \* bound: broadcast transactions
    MaxFaults       \* bound: lost answers, unreadable chain, crashes, drops

ASSUME RelayerConstants ==
    /\ Signed \in [Intents -> [entry: {"withdraw", "execute", "rotate"}, nonce: Nat, key: AuthKeys,
                               to: AuthKeys, expiry: Nat]]
    /\ FirstKey \in AuthKeys /\ NoIntent \notin Intents
    /\ BreakerCap \in Nat /\ TxCost \in Nat /\ SlotTtl \in Nat /\ BreakerWindow \in Nat
    /\ EndOfTime \in Nat /\ MaxTxs \in Nat /\ MaxFaults \in Nat

VARIABLES
    acct,       \* on chain: the account's nonce and authority
    txs,        \* broadcast transactions; a signature is an index
    slots,      \* relayer_broadcast rows by (nonce, entry point)
    creds,      \* authority rows: active or revoked
    work,       \* the state of each request
    breaker,    \* open or not, and the losses of the window
    rtime,      \* time
    faults      \* faults that have happened

relayVars == <<acct, txs, slots, creds, work, breaker, rtime, faults>>

SlotKeys == {<<Signed[i].nonce, Signed[i].entry>> : i \in Intents}
SlotOf(i) == <<Signed[i].nonce, Signed[i].entry>>
NoSlot == [status |-> "none", hash |-> NoIntent, sig |-> 0, at |-> 0]
Idle == [pc |-> "idle", i |-> NoIntent, sig |-> 0]
InFlight == {"claimed", "submitted", "rebroadcast"}

RelayInit ==
    /\ acct = [nonce |-> 0, authority |-> FirstKey]
    /\ txs = <<>>
    /\ slots = [s \in SlotKeys |-> NoSlot]
    /\ creds = [k \in AuthKeys |-> "active"]
    /\ work = [w \in Workers |-> Idle]
    /\ breaker = [open |-> FALSE, losses |-> <<>>]
    /\ rtime = 0 /\ faults = 0

---------------------------------------------------------------------------
\* Helpers of the steps

At(w, pc) == work[w].pc = pc
GotoWith(w, pc, sig) == work' = [work EXCEPT ![w] = [pc |-> pc, i |-> work[w].i, sig |-> sig]]
Goto(w, pc) == GotoWith(w, pc, work[w].sig)
Finish(w) == work' = [work EXCEPT ![w] = Idle]
IntentOf(w) == Signed[work[w].i]
Slot(w) == SlotOf(work[w].i)
Fault == faults < MaxFaults /\ faults' = faults + 1

\* recordOutcome, recordSubmission: sig 0 leaves the recorded signature.
Recorded(s, status, sig) ==
    [slots EXCEPT ![s] = [status |-> status, hash |-> slots[s].hash,
                          sig |-> IF sig = 0 THEN slots[s].sig ELSE sig, at |-> rtime]]

LossSum(s) == LET sum[k \in 0..Len(s)] == IF k = 0 THEN 0 ELSE sum[k-1] + s[k].amount IN sum[Len(s)]

\* Mutant of Breached: only more than the cap opens.
BreachedStrictly(losses) == BreakerCap > 0 /\ LossSum(losses) > BreakerCap

\* The cap is reached; a cap of 0 disables the breaker.
Breached(losses) == BreakerCap > 0 /\ LossSum(losses) >= BreakerCap

\* recordAbsorbed: sweep the window, add the loss, open on breach.
Absorb(amount) ==
    LET window == SelectSeq(breaker.losses, LAMBDA e : rtime - e.at < BreakerWindow)
        losses == IF amount > 0 THEN Append(window, [at |-> rtime, amount |-> amount]) ELSE window
    IN  breaker' = [open |-> breaker.open \/ Breached(losses), losses |-> losses]

\* The newest confirmed transaction of the account, 0 if there is none.
Newest == LET landed == {t \in 1..Len(txs) : txs[t].state = "landed"}
          IN  IF landed = {} THEN 0 ELSE CHOOSE t \in landed : \A u \in landed : u <= t

\* Mutant of Rotated: a consumed nonce is taken for the rotation.
RotatedByNonce(w) == acct.nonce # IntentOf(w).nonce

\* The chain shows the new authority.
Rotated(w) == acct.authority = IntentOf(w).to

\* Mutant of Landed: the comparison is the wrong way round.
LandedInverted(w) == acct.nonce = IntentOf(w).nonce

\* resolveState: a consumed nonce proves landing, and so does the new key.
Landed(w) == \/ acct.nonce # IntentOf(w).nonce
             \/ IntentOf(w).entry = "rotate" /\ Rotated(w)

---------------------------------------------------------------------------
\* The request handlers, await by await

\* Sponsored broadcasts refuse while the breaker is open.
requireClosed == ~breaker.open

\* What withdraw and execute check first: breaker, passkey, nonce, expiry.
SpendAllowed(i) ==
    /\ requireClosed
    /\ creds[Signed[i].key] = "active"
    /\ Signed[i].nonce = acct.nonce
    /\ rtime < Signed[i].expiry

withdraw(w, i) ==
    /\ At(w, "idle") /\ Signed[i].entry = "withdraw"
    /\ SpendAllowed(i)
    /\ work' = [work EXCEPT ![w] = [pc |-> "claim", i |-> i, sig |-> 0]]
    /\ UNCHANGED <<acct, txs, slots, creds, breaker, rtime, faults>>

execute(w, i) ==
    /\ At(w, "idle") /\ Signed[i].entry = "execute"
    /\ SpendAllowed(i)
    /\ work' = [work EXCEPT ![w] = [pc |-> "claim", i |-> i, sig |-> 0]]
    /\ UNCHANGED <<acct, txs, slots, creds, breaker, rtime, faults>>

\* rotate: both credentials must be active, too.
rotate(w, i) ==
    /\ At(w, "idle") /\ Signed[i].entry = "rotate"
    /\ requireClosed
    /\ Signed[i].key # Signed[i].to
    /\ creds[Signed[i].key] = "active" /\ creds[Signed[i].to] = "active"
    /\ Signed[i].nonce = acct.nonce
    /\ rtime < Signed[i].expiry
    /\ work' = [work EXCEPT ![w] = [pc |-> "claim", i |-> i, sig |-> 0]]
    /\ UNCHANGED <<acct, txs, slots, creds, breaker, rtime, faults>>

\* Mutant of SameBytes: whatever holds the slot counts as this intent.
AnyBytes(w) == TRUE

\* The slot is held by the same signed intent.
SameBytes(w) == slots[Slot(w)].hash = work[w].i

\* An identical retry of a spend: a recorded signature is answered, as
\* confirmed; without one the chain is read first.
RetriedSpend(w) == IF slots[Slot(w)].sig # 0 THEN Finish(w) ELSE Goto(w, "duplicate")

\* A rotation's looks for its key on the chain first.
RetriedRotation(w) == GotoWith(w, "finish", slots[Slot(w)].sig)

\* claimSlot: the unique index decides between concurrent claims, and the
\* loser reads the winner's row.
claimSlot(w) ==
    /\ At(w, "claim")
    /\ \/ /\ slots[Slot(w)] = NoSlot
          /\ slots' = [slots EXCEPT ![Slot(w)] = [status |-> "claimed", hash |-> work[w].i, sig |-> 0, at |-> rtime]]
          /\ Goto(w, IF IntentOf(w).entry = "rotate" THEN "guard" ELSE "send")
       \/ /\ slots[Slot(w)] # NoSlot /\ SameBytes(w)
          /\ IF IntentOf(w).entry = "rotate"
             THEN RetriedRotation(w)
             ELSE RetriedSpend(w)
          /\ UNCHANGED slots
       \/ /\ slots[Slot(w)] # NoSlot /\ ~SameBytes(w)
          /\ Finish(w)                                         \* 409
          /\ UNCHANGED slots
    /\ UNCHANGED <<acct, txs, creds, breaker, rtime, faults>>

\* A fresh claim's double-rotation guard; the row it finds is any one in
\* flight.
assertNoInflightRotation(w) ==
    /\ At(w, "guard")
    /\ LET inflight == {s \in SlotKeys : s[2] = "rotate" /\ slots[s].status \in InFlight}
       IN  \/ inflight = {} /\ Goto(w, "send") /\ UNCHANGED slots
           \/ \E s \in inflight :
                 IF s[1] # IntentOf(w).nonce \/ rtime - slots[s].at > SlotTtl
                 THEN slots' = Recorded(s, "expired", 0) /\ Goto(w, "send")
                 ELSE Finish(w) /\ UNCHANGED slots                   \* 503
    /\ UNCHANGED <<acct, txs, creds, breaker, rtime, faults>>

\* A retry of a claimed slot that has no signature reads the chain first.
resolveDuplicateSlot(w) ==
    /\ At(w, "duplicate")
    /\ \/ Fault /\ Finish(w) /\ UNCHANGED slots         \* nonce or history unreadable: 503
       \/ /\ Landed(w)
          /\ slots' = Recorded(Slot(w), "resolved-landed", Newest)
          /\ Finish(w) /\ UNCHANGED faults
       \/ ~Landed(w) /\ Goto(w, "send") /\ UNCHANGED <<slots, faults>>
    /\ UNCHANGED <<acct, txs, creds, breaker, rtime>>

\* A duplicate rotation whose key the chain already shows is completed:
\* finishRotationIfConfirmed revokes first and records after.
finishRotation(w) ==
    /\ At(w, "finish")
    /\ IF Rotated(w)
       THEN /\ creds' = [creds EXCEPT ![IntentOf(w).key] = "revoked"]
            /\ Goto(w, "finished")
       ELSE Goto(w, "send") /\ UNCHANGED creds
    /\ UNCHANGED <<acct, txs, slots, breaker, rtime, faults>>

recordFinished(w) ==
    /\ At(w, "finished")
    /\ slots' = IF work[w].sig = 0 THEN slots ELSE Recorded(Slot(w), "confirmed", work[w].sig)
    /\ Finish(w)
    /\ UNCHANGED <<acct, txs, creds, breaker, rtime, faults>>

\* The program accepts an unexpired intent of the current nonce, signed by
\* the authority.
Acceptable(i) == /\ rtime < Signed[i].expiry
                 /\ Signed[i].nonce = acct.nonce
                 /\ Signed[i].key = acct.authority

\* The node refuses: the simulation fails, or its blockhash is unknown.
Refused(w) == \/ ~Acceptable(work[w].i) /\ UNCHANGED faults
              \/ Fault

Sent(w) == /\ Len(txs) < MaxTxs
           /\ txs' = Append(txs, [intent |-> work[w].i, state |-> "pending"])

\* broadcast: accepted, refused for good, or with an unclear outcome.
broadcast(w) ==
    /\ At(w, "send")
    /\ \/ Sent(w) /\ GotoWith(w, "record", Len(txs) + 1) /\ UNCHANGED faults
       \/ Refused(w) /\ Finish(w) /\ UNCHANGED txs
       \/ Fault /\ Goto(w, "resolve") /\ (Sent(w) \/ UNCHANGED txs)
    /\ UNCHANGED <<acct, slots, creds, breaker, rtime>>

recordSubmission(w) ==
    /\ At(w, "record")
    /\ slots' = Recorded(Slot(w), "submitted", work[w].sig)
    /\ Goto(w, "confirm")
    /\ UNCHANGED <<acct, txs, creds, breaker, rtime, faults>>

\* resolveThenAct: park what is unreadable, take what landed as done, send
\* once more what did not.  A rotation knows only its slot's signature; the
\* history a withdrawal looks in may show nothing.
resolveThenAct(w) ==
    /\ At(w, "resolve")
    /\ \/ /\ slots' = Recorded(Slot(w), "parked-unreadable", 0) /\ Finish(w)
          /\ UNCHANGED faults
       \/ /\ Landed(w)
          /\ \E sig \in IF IntentOf(w).entry = "rotate" THEN {work[w].sig} ELSE {0, Newest} :
                /\ slots' = Recorded(Slot(w), "resolved-landed", sig)
                /\ IF sig = 0 THEN Finish(w) ELSE GotoWith(w, "confirm", sig)
          /\ UNCHANGED faults
       \/ ~Landed(w) /\ Goto(w, "resend") /\ UNCHANGED <<slots, faults>>
    /\ UNCHANGED <<acct, txs, creds, breaker, rtime>>

\* The one rebroadcast; an error now ends the request.
rebroadcast(w) ==
    /\ At(w, "resend")
    /\ \/ Sent(w) /\ GotoWith(w, "resent", Len(txs) + 1)
       \/ Finish(w) /\ UNCHANGED txs
    /\ UNCHANGED <<acct, slots, creds, breaker, rtime, faults>>

recordRebroadcast(w) ==
    /\ At(w, "resent")
    /\ slots' = Recorded(Slot(w), "resolved-not-landed-rebroadcast", work[w].sig)
    /\ Goto(w, "confirm")
    /\ UNCHANGED <<acct, txs, creds, breaker, rtime, faults>>

\* waitForConfirmation of a withdrawal.
confirmWithdraw(w) ==
    /\ At(w, "confirm") /\ IntentOf(w).entry = "withdraw"
    /\ slots' = CASE txs[work[w].sig].state = "landed" -> Recorded(Slot(w), "confirmed", work[w].sig)
                  [] txs[work[w].sig].state = "failed" -> Recorded(Slot(w), "failed", work[w].sig)
                  [] OTHER -> slots
    /\ Goto(w, "reconcile")
    /\ UNCHANGED <<acct, txs, creds, breaker, rtime, faults>>

\* execute records a confirmation only after it has reconciled.
confirmExecute(w) ==
    /\ At(w, "confirm") /\ IntentOf(w).entry = "execute"
    /\ slots' = IF txs[work[w].sig].state = "failed" THEN Recorded(Slot(w), "failed", work[w].sig) ELSE slots
    /\ GotoWith(w, "reconcile", IF txs[work[w].sig].state = "landed" THEN work[w].sig ELSE 0)
    /\ UNCHANGED <<acct, txs, creds, breaker, rtime, faults>>

recordExecuted(w) ==
    /\ At(w, "executed")
    /\ slots' = Recorded(Slot(w), "confirmed", work[w].sig)
    /\ Finish(w)
    /\ UNCHANGED <<acct, txs, creds, breaker, rtime, faults>>

\* confirmRotation polls for the new authority and gives up after a while.
confirmRotation(w) ==
    /\ At(w, "confirm") /\ IntentOf(w).entry = "rotate"
    /\ IF Rotated(w)
       THEN slots' = Recorded(Slot(w), "confirmed", work[w].sig) /\ Goto(w, "revoke")
       ELSE Finish(w) /\ UNCHANGED slots
    /\ UNCHANGED <<acct, txs, creds, breaker, rtime, faults>>

\* The old credential goes once the chain shows the new one.
revokeOld(w) ==
    /\ At(w, "revoke")
    /\ creds' = [creds EXCEPT ![IntentOf(w).key] = "revoked"]
    /\ Goto(w, "reconcile")
    /\ UNCHANGED <<acct, txs, slots, breaker, rtime, faults>>

\* What the chain charged a spend beyond what was attested goes to the
\* breaker, unless its transaction cannot be read.
reconcile(w) ==
    /\ At(w, "reconcile") /\ IntentOf(w).entry # "rotate"
    /\ \E absorbed \in {0, TxCost} : Absorb(absorbed)
    /\ IF IntentOf(w).entry = "execute" /\ work[w].sig # 0 THEN Goto(w, "executed") ELSE Finish(w)
    /\ UNCHANGED <<acct, txs, slots, creds, rtime, faults>>

\* Nothing of a rotation is paid back: all of its cost is absorbed.
reconcileRotationCost(w) ==
    /\ At(w, "reconcile") /\ IntentOf(w).entry = "rotate"
    /\ \E absorbed \in {0, TxCost} : Absorb(absorbed)
    /\ Finish(w)
    /\ UNCHANGED <<acct, txs, slots, creds, rtime, faults>>

---------------------------------------------------------------------------
\* Operators, process, chain and time

open == breaker' = [breaker EXCEPT !.open = TRUE]

openBreaker ==
    /\ ~breaker.open /\ open
    /\ UNCHANGED <<acct, txs, slots, creds, work, rtime, faults>>

closeBreaker ==
    /\ breaker' = [open |-> FALSE, losses |-> <<>>]
    /\ UNCHANGED <<acct, txs, slots, creds, work, rtime, faults>>

\* The process dies: its requests end where they are, and the breaker, which
\* lives in its memory, is closed again.
Restart ==
    /\ Fault
    /\ work' = [w \in Workers |-> Idle]
    /\ breaker' = [open |-> FALSE, losses |-> <<>>]
    /\ UNCHANGED <<acct, txs, slots, creds, rtime>>

Land(t) ==
    /\ txs[t].state = "pending" /\ Acceptable(txs[t].intent)
    /\ txs' = [txs EXCEPT ![t].state = "landed"]
    /\ acct' = [nonce |-> acct.nonce + 1,
                authority |-> IF Signed[txs[t].intent].entry = "rotate"
                              THEN Signed[txs[t].intent].to ELSE acct.authority]
    /\ UNCHANGED <<slots, creds, work, breaker, rtime, faults>>

Fail(t) ==
    /\ txs[t].state = "pending" /\ ~Acceptable(txs[t].intent)
    /\ txs' = [txs EXCEPT ![t].state = "failed"]
    /\ UNCHANGED <<acct, slots, creds, work, breaker, rtime, faults>>

Drop(t) ==
    /\ txs[t].state = "pending" /\ Fault
    /\ txs' = [txs EXCEPT ![t].state = "dropped"]
    /\ UNCHANGED <<acct, slots, creds, work, breaker, rtime>>

RelayTick ==
    /\ rtime < EndOfTime /\ rtime' = rtime + 1
    /\ UNCHANGED <<acct, txs, slots, creds, work, breaker, faults>>

---------------------------------------------------------------------------
\* The specification

Step(w) ==
    \/ claimSlot(w) \/ assertNoInflightRotation(w) \/ resolveDuplicateSlot(w)
    \/ finishRotation(w) \/ recordFinished(w)
    \/ broadcast(w) \/ recordSubmission(w) \/ resolveThenAct(w)
    \/ rebroadcast(w) \/ recordRebroadcast(w)
    \/ confirmWithdraw(w) \/ confirmExecute(w) \/ confirmRotation(w) \/ revokeOld(w)
    \/ reconcile(w) \/ recordExecuted(w) \/ reconcileRotationCost(w)

Start(i) == \E w \in Workers : withdraw(w, i) \/ execute(w, i) \/ rotate(w, i)

RelayNext ==
    \/ \E i \in Intents : Start(i)
    \/ \E w \in Workers : Step(w)
    \/ openBreaker \/ closeBreaker \/ Restart \/ RelayTick
    \/ \E t \in 1..Len(txs) : Land(t) \/ Fail(t) \/ Drop(t)

RelaySpec == RelayInit /\ [][RelayNext]_relayVars

\* Clients retry what was refused, requests go on, broadcast transactions
\* land or fail, operators close the breaker, time passes.
RelayFairness ==
    /\ \A i \in Intents : SF_relayVars(Start(i))
    /\ \A w \in Workers : WF_relayVars(Step(w))
    /\ \A t \in 1..MaxTxs : WF_relayVars(t \in 1..Len(txs) /\ (Land(t) \/ Fail(t)))
    /\ WF_relayVars(closeBreaker) /\ WF_relayVars(RelayTick)

RelayFairSpec == RelaySpec /\ RelayFairness

---------------------------------------------------------------------------
\* Properties

\* Chain, rows, requests and breaker have their types.
RelayTypeOK ==
    /\ acct \in [nonce: Nat, authority: AuthKeys]
    /\ txs \in Seq([intent: Intents, state: {"pending", "landed", "failed", "dropped"}])
    /\ slots \in [SlotKeys -> [status: InFlight \cup {"none", "confirmed", "failed", "expired",
                                   "resolved-landed", "resolved-not-landed-rebroadcast",
                                   "parked-unreadable"},
                               hash: Intents \cup {NoIntent}, sig: 0..MaxTxs, at: 0..EndOfTime]]
    /\ creds \in [AuthKeys -> {"active", "revoked"}]
    /\ work \in [Workers -> [pc: {"idle", "claim", "guard", "duplicate", "finish", "finished", "send",
                                  "record", "resolve", "resend", "resent", "confirm", "revoke", "reconcile", "executed"},
                             i: Intents \cup {NoIntent}, sig: 0..MaxTxs]]
    /\ breaker \in [open: BOOLEAN, losses: Seq([at: 0..EndOfTime, amount: Nat])]
    /\ rtime \in 0..EndOfTime /\ faults \in 0..MaxFaults

\* "DIFFERENT bytes under SAME nonce are FORBIDDEN in all cases": whatever is
\* broadcast for a nonce and entry point is one signed intent, under any
\* interleaving of claims, retries, crashes and rebroadcasts.
OneIntentPerSlot ==
    \A t, u \in 1..Len(txs) :
        SlotOf(txs[t].intent) = SlotOf(txs[u].intent) => txs[t].intent = txs[u].intent

\* k was the authority at the start, or a rotation to it landed.
HasControlled(k) ==
    k = FirstKey \/ \E t \in 1..Len(txs) : /\ txs[t].state = "landed"
                                           /\ Signed[txs[t].intent].entry = "rotate"
                                           /\ Signed[txs[t].intent].to = k

\* A rotation away from k landed.
RotatedAway(k) ==
    \E t \in 1..Len(txs) :
        /\ txs[t].state = "landed"
        /\ Signed[txs[t].intent].entry = "rotate" /\ Signed[txs[t].intent].key = k

\* A slot that is recorded as landed or confirmed had its nonce consumed on
\* chain, or is a rotation to a key that has the account or had it: no request
\* takes an unclear outcome for a success.
LandedSlotsConsumed ==
    \A s \in SlotKeys : slots[s].status \in {"confirmed", "resolved-landed"} =>
        acct.nonce > s[1] \/ (s[2] = "rotate" /\ HasControlled(Signed[slots[s].hash].to))

\* k signed a rotation to another key, which has the account or had it.
HandedOver(k) ==
    \E i \in Intents : /\ Signed[i].entry = "rotate" /\ Signed[i].key = k /\ Signed[i].to # k
                       /\ HasControlled(Signed[i].to)

\* No credential is revoked because something else consumed the nonce: whose is
\* revoked signed a rotation to a key that got the account, and that of the first
\* key goes only once its rotation landed.  Nobody compares the signer with the
\* authority, so a later key need not have had the account itself.
Outlived(k) == HandedOver(k) /\ (k = FirstKey => RotatedAway(k))
RevokedAfterRotation == \A k \in AuthKeys : creds[k] = "revoked" => Outlived(k)

\* While the breaker is closed, the losses in its window have not reached the cap.
BreakerTrips ==
    BreakerCap > 0 /\ ~breaker.open => ~(LossSum(breaker.losses) >= BreakerCap)

\* Stale slots are "released as `expired` instead of bricking rotation
\* forever": a user who keeps sending valid rotations gets one through.
RotationGoesThrough == <>(acct.authority # FirstKey)
=============================================================================
