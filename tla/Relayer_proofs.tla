---------------------------- MODULE Relayer_proofs ----------------------------
(***************************************************************************)
(* Proofs about the relayer and about activation, for any number of        *)
(* intents, requests, keys and transactions, and without a bound on time   *)
(* or faults.                                                              *)
(***************************************************************************)
EXTENDS Relayer, Activation, TLAPS

TxType == [intent: Intents, state: {"pending", "landed", "failed", "dropped"}]

RelayShapes ==
    /\ acct \in [nonce: Nat, authority: AuthKeys]
    /\ txs \in Seq(TxType)
    /\ slots = [s \in SlotKeys |-> slots[s]]
    /\ creds \in [AuthKeys -> {"active", "revoked"}]
    /\ work = [w \in Workers |-> work[w]]

\* What holds a slot is what was broadcast for it.
TxsHoldSlots == \A t \in 1..Len(txs) : slots[SlotOf(txs[t].intent)].hash = txs[t].intent

LandedSpent ==
    \A t \in 1..Len(txs) : txs[t].state = "landed" => Signed[txs[t].intent].nonce < acct.nonce

\* Control passes from key to key by rotations that landed.
ControlPasses ==
    /\ HasControlled(acct.authority)
    /\ \A k \in AuthKeys : HasControlled(k) => k = acct.authority \/ RotatedAway(k)

\* The intent of w consumed its nonce, or is what w broadcast.
Consumed(w) == IntentOf(w).nonce < acct.nonce
Broadcast(w) == work[w].sig \in 1..Len(txs) /\ txs[work[w].sig].intent = work[w].i

\* What a request at each of its awaits can rely on.
RequestOK(w) ==
    /\ work[w].pc # "idle" =>
         /\ work[w].i \in Intents /\ IntentOf(w).nonce <= acct.nonce
         /\ IntentOf(w).entry = "rotate" => IntentOf(w).key # IntentOf(w).to
    /\ work[w].pc \notin {"idle", "claim"} => slots[Slot(w)].hash = work[w].i
    /\ work[w].pc \in {"finish", "finished", "revoke"} => IntentOf(w).entry = "rotate"
    /\ work[w].pc = "finished" => HasControlled(IntentOf(w).to)
    /\ work[w].pc = "revoke" => Outlived(IntentOf(w).key)
    /\ work[w].pc \in {"record", "resent", "confirm"} /\ IntentOf(w).entry # "rotate" => Consumed(w) \/ Broadcast(w)
    /\ work[w].pc = "reconcile" /\ IntentOf(w).entry = "execute" /\ work[w].sig # 0 => Consumed(w)
    /\ work[w].pc = "executed" => Consumed(w)

\* The inductive invariant of the relayer.
RelayInv ==
    /\ RelayShapes /\ TxsHoldSlots /\ LandedSpent /\ ControlPasses
    /\ LandedSlotsConsumed /\ RevokedAfterRotation
    /\ \A w \in Workers : RequestOK(w)

USE RelayerConstants

LEMMA SignedTypes ==
    ASSUME NEW i \in Intents
    PROVE  /\ Signed[i].nonce \in Nat /\ Signed[i].key \in AuthKeys /\ Signed[i].to \in AuthKeys
           /\ Signed[i].entry \in {"withdraw", "execute", "rotate"}
           /\ SlotOf(i) \in SlotKeys /\ SlotOf(i)[1] = Signed[i].nonce /\ SlotOf(i)[2] = Signed[i].entry
BY DEF SlotOf, SlotKeys

LEMMA RelayInitInv == RelayInit => RelayInv
BY DEF RelayInit, RelayInv, RelayShapes, TxsHoldSlots, LandedSpent, ControlPasses, HasControlled,
       LandedSlotsConsumed, RevokedAfterRotation, RequestOK, NoSlot, Idle, TxType

---------------------------------------------------------------------------
\* What only grows

\* The chain goes on: transactions stay and what landed stays landed, the nonce
\* grows.
ChainGoesOn ==
    /\ acct.nonce <= acct'.nonce /\ acct' \in [nonce: Nat, authority: AuthKeys]
    /\ txs' \in Seq(TxType) /\ Len(txs) <= Len(txs')
    /\ \A t \in 1..Len(txs) :
         txs'[t].intent = txs[t].intent /\ (txs[t].state = "landed" => txs'[t].state = "landed")

LEMMA ControlGrows ==
    ASSUME RelayShapes, ChainGoesOn, NEW k
    PROVE  /\ HasControlled(k) => HasControlled(k)'
           /\ RotatedAway(k) => RotatedAway(k)'
           /\ Outlived(k) => Outlived(k)'
<1>1. \A t \in 1..Len(txs) : t \in 1..Len(txs')
  BY DEF RelayShapes, ChainGoesOn
<1>2. ASSUME NEW j PROVE HasControlled(j) => HasControlled(j)'
  BY <1>1 DEF ChainGoesOn, HasControlled
<1>3. RotatedAway(k) => RotatedAway(k)'
  BY <1>1 DEF ChainGoesOn, RotatedAway
<1>4. HandedOver(k) => HandedOver(k)'
  BY <1>2 DEF HandedOver
<1> QED BY <1>2, <1>3, <1>4 DEF Outlived

\* Only the transactions say who controlled the account.
LEMMA ControlSame ==
    ASSUME UNCHANGED txs
    PROVE  \A k : /\ HasControlled(k) <=> HasControlled(k)'
                  /\ RotatedAway(k) <=> RotatedAway(k)'
                  /\ Outlived(k) <=> Outlived(k)'
<1>1. \A k : (HasControlled(k) <=> HasControlled(k)') /\ (RotatedAway(k) <=> RotatedAway(k)')
  BY DEF HasControlled, RotatedAway
<1>2. \A k : HandedOver(k) <=> HandedOver(k)'
  BY <1>1 DEF HandedOver
<1> QED BY <1>1, <1>2 DEF Outlived

\* A claimed slot keeps its intent.
SlotsKeep == \A s \in SlotKeys : slots[s].hash # NoIntent => slots'[s].hash = slots[s].hash

\* A request that does not move stays right while others do.
LEMMA OthersStay ==
    ASSUME RelayInv, ChainGoesOn, SlotsKeep, NEW w \in Workers, work'[w] = work[w]
    PROVE  RequestOK(w)'
<1>1. RequestOK(w) /\ RelayShapes
  BY DEF RelayInv
<1>2. CASE work[w].pc = "idle"
  BY <1>2 DEF RequestOK
<1>3. CASE work[w].pc # "idle"
  <2>1. work[w].i \in Intents
    BY <1>1, <1>3 DEF RequestOK
  <2>2. /\ Signed[work[w].i].nonce \in Nat /\ SlotOf(work[w].i) \in SlotKeys
        /\ IntentOf(w)' = IntentOf(w) /\ Slot(w)' = Slot(w)
    BY <2>1, SignedTypes DEF IntentOf, Slot
  <2>3. /\ HasControlled(IntentOf(w).to) => HasControlled(IntentOf(w).to)'
        /\ Outlived(IntentOf(w).key) => Outlived(IntentOf(w).key)'
    BY <1>1, <2>2, ControlGrows
  <2>4. /\ IntentOf(w).nonce <= acct.nonce => IntentOf(w)'.nonce <= acct'.nonce
        /\ Consumed(w) => Consumed(w)'
    BY <1>1, <2>2 DEF ChainGoesOn, RelayShapes, Consumed, IntentOf
  <2>5. Broadcast(w) => Broadcast(w)'
    BY <1>1 DEF ChainGoesOn, RelayShapes, Broadcast
  <2>6. slots[Slot(w)].hash = work[w].i => slots'[Slot(w)'].hash = work'[w].i
    BY <2>1, <2>2 DEF SlotsKeep, Slot
  <2> HIDE DEF ChainGoesOn, SlotsKeep
  <2> QED BY <1>1, <1>3, <2>1, <2>2, <2>3, <2>4, <2>5, <2>6 DEF RequestOK
<1> QED BY <1>2, <1>3
---------------------------------------------------------------------------
\* Steps of requests

\* A step of w that broadcasts nothing and writes at most the row of slot s.
LEMMA RecordKeeps ==
    ASSUME RelayInv, NEW w \in Workers, NEW to, work' = [work EXCEPT ![w] = to],
           UNCHANGED <<acct, txs>>, NEW s \in SlotKeys, NEW kept,
           slots' = slots \/ slots' = [slots EXCEPT ![s] = kept],
           kept.hash = slots[s].hash \/ slots[s].hash = NoIntent,
           kept.status \in {"confirmed", "resolved-landed"} =>
               acct.nonce > s[1] \/ (s[2] = "rotate" /\ HasControlled(Signed[kept.hash].to)),
           creds' \in [AuthKeys -> {"active", "revoked"}], RevokedAfterRotation',
           RequestOK(w)'
    PROVE  RelayInv'
<1>1. /\ RelayShapes /\ ChainGoesOn
      /\ \A k : (HasControlled(k) <=> HasControlled(k)') /\ (RotatedAway(k) <=> RotatedAway(k)')
  BY ControlSame DEF RelayInv, RelayShapes, ChainGoesOn
<1>2. \A u \in SlotKeys : slots'[u] = slots[u] \/ (u = s /\ slots'[u] = kept)
  BY <1>1 DEF RelayShapes
<1>3. SlotsKeep
  BY <1>2 DEF SlotsKeep
<1>4. RelayShapes'
  <2>1. slots' = [u \in SlotKeys |-> slots'[u]] /\ work' = [u \in Workers |-> work'[u]]
    BY <1>1 DEF RelayShapes
  <2> QED BY <1>1, <2>1 DEF RelayShapes
<1>5. TxsHoldSlots' /\ LandedSpent' /\ ControlPasses'
  <2>1. ASSUME NEW t \in 1..Len(txs) PROVE slots'[SlotOf(txs[t].intent)].hash = txs[t].intent
    <3>1. txs[t].intent \in Intents /\ txs[t].intent # NoIntent
      <4>1. txs[t] \in TxType
        BY <1>1 DEF RelayShapes
      <4> QED BY <4>1 DEF TxType
    <3>2. slots[SlotOf(txs[t].intent)].hash = txs[t].intent /\ SlotOf(txs[t].intent) \in SlotKeys
      BY <3>1, SignedTypes DEF RelayInv, TxsHoldSlots
    <3> QED BY <1>3, <3>1, <3>2 DEF SlotsKeep
  <2>2. TxsHoldSlots'
    BY <2>1 DEF TxsHoldSlots
  <2>3. LandedSpent' /\ ControlPasses'
    BY <1>1 DEF RelayInv, LandedSpent, ControlPasses
  <2> QED BY <2>2, <2>3
<1>6. LandedSlotsConsumed'
  BY <1>1, <1>2 DEF RelayInv, LandedSlotsConsumed
<1>7. \A u \in Workers : RequestOK(u)'
  <2>1. ASSUME NEW u \in Workers, u # w PROVE RequestOK(u)'
    <3>1. work'[u] = work[u]
      BY <1>1, <2>1 DEF RelayShapes
    <3> QED BY <1>1, <1>3, <3>1, OthersStay
  <2> QED BY <2>1
<1> QED BY <1>4, <1>5, <1>6, <1>7 DEF RelayInv

\* A step of w that touches no row and no credential.
LEMMA MoveKeeps ==
    ASSUME RelayInv, NEW w \in Workers, NEW to, work' = [work EXCEPT ![w] = to],
           UNCHANGED <<acct, txs, slots, creds>>, RequestOK(w)'
    PROVE  RelayInv'
<1>1. /\ RelayShapes /\ ChainGoesOn /\ SlotsKeep
      /\ \A k : /\ (HasControlled(k) <=> HasControlled(k)') /\ (RotatedAway(k) <=> RotatedAway(k)')
                /\ (Outlived(k) <=> Outlived(k)')
  BY ControlSame DEF RelayInv, RelayShapes, ChainGoesOn, SlotsKeep
<1>2. RelayShapes'
  BY <1>1 DEF RelayShapes
<1>3. TxsHoldSlots' /\ LandedSpent' /\ ControlPasses' /\ LandedSlotsConsumed' /\ RevokedAfterRotation'
  BY <1>1 DEF RelayInv, TxsHoldSlots, LandedSpent, ControlPasses, LandedSlotsConsumed, RevokedAfterRotation
<1>4. \A u \in Workers : RequestOK(u)'
  <2>1. ASSUME NEW u \in Workers, u # w PROVE RequestOK(u)'
    <3>1. work'[u] = work[u]
      BY <1>1, <2>1 DEF RelayShapes
    <3> QED BY <1>1, <3>1, OthersStay
  <2> QED BY <2>1
<1> QED BY <1>2, <1>3, <1>4 DEF RelayInv

\* w broadcasts its intent, which holds its slot.
LEMMA SendKeeps ==
    ASSUME RelayInv, NEW w \in Workers, NEW to, work' = [work EXCEPT ![w] = to],
           work[w].pc \notin {"idle", "claim"},
           txs' = Append(txs, [intent |-> work[w].i, state |-> "pending"]),
           UNCHANGED <<acct, slots, creds>>, RequestOK(w)'
    PROVE  RelayInv'
<1> DEFINE tx == [intent |-> work[w].i, state |-> "pending"]
<1>1. /\ work[w].i \in Intents /\ slots[SlotOf(work[w].i)].hash = work[w].i /\ RelayShapes
      /\ tx \in TxType /\ tx.intent = work[w].i /\ tx.state = "pending"
  BY DEF RelayInv, RequestOK, Slot, TxType
<1> HIDE DEF tx
<1>2. /\ txs' \in Seq(TxType) /\ Len(txs') = Len(txs) + 1 /\ txs'[Len(txs) + 1] = tx
      /\ \A t \in 1..Len(txs) : txs'[t] = txs[t] /\ t \in 1..Len(txs')
      /\ Len(txs) \in Nat /\ \A t \in 1..Len(txs') : t \in 1..Len(txs) \/ t = Len(txs) + 1
  BY <1>1 DEF RelayShapes, tx
<1>3. ChainGoesOn /\ SlotsKeep
  BY <1>1, <1>2 DEF RelayShapes, ChainGoesOn, SlotsKeep
<1>4. \A k : (HasControlled(k) <=> HasControlled(k)') /\ (RotatedAway(k) <=> RotatedAway(k)')
  <2>0. \A t \in 1..Len(txs') : txs'[t].state = "landed" => t \in 1..Len(txs) /\ txs'[t] = txs[t]
    BY <1>1, <1>2
  <2>1. ASSUME NEW k PROVE HasControlled(k)' => HasControlled(k)
    BY <2>0 DEF HasControlled
  <2>2. ASSUME NEW k PROVE RotatedAway(k)' => RotatedAway(k)
    BY <2>0 DEF RotatedAway
  <2> QED BY <1>1, <1>3, <2>1, <2>2, ControlGrows
<1>5. RelayShapes'
  BY <1>1, <1>2 DEF RelayShapes
<1>6. TxsHoldSlots' /\ LandedSpent'
  BY <1>1, <1>2 DEF RelayInv, TxsHoldSlots, LandedSpent
<1>7. ControlPasses' /\ LandedSlotsConsumed' /\ RevokedAfterRotation'
  BY <1>1, <1>3, <1>4, ControlGrows DEF RelayInv, ControlPasses, LandedSlotsConsumed, RevokedAfterRotation
<1>8. \A u \in Workers : RequestOK(u)'
  <2>1. ASSUME NEW u \in Workers, u # w PROVE RequestOK(u)'
    <3>1. work'[u] = work[u]
      BY <1>1, <2>1 DEF RelayShapes
    <3> QED BY <1>3, <3>1, OthersStay
  <2> QED BY <2>1
<1> QED BY <1>5, <1>6, <1>7, <1>8 DEF RelayInv
---------------------------------------------------------------------------
\* The handlers

LEMMA BeginKeeps ==
    ASSUME RelayInv, NEW w \in Workers, NEW i \in Intents,
           work' = [work EXCEPT ![w] = [pc |-> "claim", i |-> i, sig |-> 0]],
           UNCHANGED <<acct, txs, slots, creds>>, Signed[i].nonce = acct.nonce,
           Signed[i].entry = "rotate" => Signed[i].key # Signed[i].to
    PROVE  RelayInv'
<1> DEFINE to == [pc |-> "claim", i |-> i, sig |-> 0]
<1>1. work'[w] = to
  BY DEF RelayInv, RelayShapes
<1>2. RequestOK(w)'
  BY <1>1, SignedTypes DEF RequestOK, IntentOf, RelayInv, RelayShapes
<1> QED BY <1>2, MoveKeeps

LEMMA FinishKeeps ==
    ASSUME RelayInv, NEW w \in Workers, Finish(w), UNCHANGED <<acct, txs, slots, creds>>
    PROVE  RelayInv'
<1>1. work'[w] = Idle
  BY DEF Finish, RelayInv, RelayShapes
<1>2. RequestOK(w)'
  BY <1>1 DEF RequestOK, Idle
<1> QED BY <1>2, MoveKeeps DEF Finish

\* A move between awaits at which a request relies on nothing new.
LEMMA GotoKeeps ==
    ASSUME RelayInv, NEW w \in Workers, NEW pc, NEW sig, GotoWith(w, pc, sig),
           UNCHANGED <<acct, txs, slots, creds>>, work[w].pc \notin {"idle", "claim"},
           pc \in {"guard", "duplicate", "finish", "send", "resolve", "resend"},
           pc = "finish" => IntentOf(w).entry = "rotate"
    PROVE  RelayInv'
<1>1. work'[w] = [pc |-> pc, i |-> work[w].i, sig |-> sig]
  BY DEF GotoWith, RelayInv, RelayShapes
<1>2. RequestOK(w) /\ IntentOf(w)' = IntentOf(w) /\ Slot(w)' = Slot(w)
  BY <1>1 DEF RelayInv, IntentOf, Slot
<1>3. \A k : HasControlled(k) => HasControlled(k)'
  BY DEF HasControlled
<1>4. RequestOK(w)'
  BY <1>1, <1>2, <1>3 DEF RequestOK
<1> QED BY <1>4, MoveKeeps DEF GotoWith

\* Whoever claims a slot, it holds one intent.
LEMMA ClaimKeeps ==
    ASSUME RelayInv, NEW w \in Workers, claimSlot(w)
    PROVE  RelayInv'
<1>1. /\ work[w].pc = "claim" /\ UNCHANGED <<acct, txs, creds>> /\ work[w].i \in Intents
      /\ RequestOK(w) /\ RelayShapes /\ Slot(w) \in SlotKeys /\ RevokedAfterRotation
  BY SignedTypes DEF claimSlot, At, RelayInv, RequestOK, Slot
<1>2. /\ \A k : (HasControlled(k) => HasControlled(k)') /\ (Outlived(k) => Outlived(k)')
      /\ RevokedAfterRotation' /\ creds' \in [AuthKeys -> {"active", "revoked"}]
  BY <1>1, ControlSame DEF RevokedAfterRotation, RelayShapes
<1>3. ASSUME NEW pc, NEW sig, GotoWith(w, pc, sig), slots'[Slot(w)].hash = work[w].i,
             pc \in {"guard", "send", "duplicate", "finish"}, pc = "finish" => IntentOf(w).entry = "rotate"
      PROVE  RequestOK(w)'
  <2>1. work'[w] = [pc |-> pc, i |-> work[w].i, sig |-> sig]
    BY <1>1, <1>3 DEF GotoWith, RelayShapes
  <2>2. IntentOf(w)' = IntentOf(w) /\ Slot(w)' = Slot(w)
    BY <2>1 DEF IntentOf, Slot
  <2> QED BY <1>1, <1>2, <1>3, <2>1, <2>2 DEF RequestOK
<1>4. CASE slots[Slot(w)] = NoSlot /\ slots' # slots
  <2> DEFINE kept == [status |-> "claimed", hash |-> work[w].i, sig |-> 0, at |-> rtime]
             pc == IF IntentOf(w).entry = "rotate" THEN "guard" ELSE "send"
  <2>1. slots' = [slots EXCEPT ![Slot(w)] = kept] /\ GotoWith(w, pc, work[w].sig)
    BY <1>4 DEF claimSlot, Goto
  <2>2. slots[Slot(w)].hash = NoIntent /\ kept.status = "claimed" /\ kept.hash = work[w].i
    BY <1>4 DEF NoSlot
  <2> HIDE DEF kept
  <2>3. slots'[Slot(w)].hash = work[w].i
    BY <1>1, <2>1, <2>2 DEF RelayShapes
  <2>4. RequestOK(w)'
    BY <1>3, <2>1, <2>3
  <2> QED BY <1>1, <1>2, <2>1, <2>2, <2>4, RecordKeeps DEF GotoWith
<1>5. CASE slots' = slots
  <2>1. CASE slots[Slot(w)] = NoSlot
    <3>1. slots'[Slot(w)] = [status |-> "claimed", hash |-> work[w].i, sig |-> 0, at |-> rtime]
      BY <1>1, <2>1 DEF claimSlot, RelayShapes
    <3>2. slots'[Slot(w)].hash = work[w].i
      BY <3>1
    <3> QED BY <1>1, <1>5, <2>1, <3>2 DEF NoSlot
  <2>2. CASE slots[Slot(w)] # NoSlot /\ ~SameBytes(w)
    BY <1>1, <1>5, <2>2, FinishKeeps DEF claimSlot
  <2>3. CASE slots[Slot(w)] # NoSlot /\ SameBytes(w)
    <3>1. slots'[Slot(w)].hash = work[w].i
      BY <1>5, <2>3 DEF SameBytes
    <3>2. CASE IntentOf(w).entry = "rotate"
      <4>1. GotoWith(w, "finish", slots[Slot(w)].sig)
        BY <2>3, <3>2 DEF claimSlot, RetriedRotation
      <4>2. RequestOK(w)'
        BY <1>3, <3>1, <3>2, <4>1
      <4> QED BY <1>1, <1>5, <4>1, <4>2, MoveKeeps DEF GotoWith
    <3>3. CASE IntentOf(w).entry # "rotate"
      <4>1. Finish(w) \/ GotoWith(w, "duplicate", work[w].sig)
        BY <2>3, <3>3 DEF claimSlot, RetriedSpend, Goto
      <4>2. ASSUME GotoWith(w, "duplicate", work[w].sig) PROVE RelayInv'
        <5>1. RequestOK(w)'
          BY <1>3, <3>1, <4>2
        <5> QED BY <1>1, <1>5, <4>2, <5>1, MoveKeeps DEF GotoWith
      <4> QED BY <1>1, <1>5, <4>1, <4>2, FinishKeeps
    <3> QED BY <3>2, <3>3
  <2> QED BY <2>1, <2>2, <2>3
<1>6. slots[Slot(w)] = NoSlot \/ slots' = slots
  BY DEF claimSlot
<1> QED BY <1>4, <1>5, <1>6
\* What a claimed request must know to go on to the await pc.
LEMMA AwaitOK ==
    ASSUME RelayInv, ChainGoesOn, SlotsKeep, NEW w \in Workers,
           work[w].pc \notin {"idle", "claim"}, NEW pc, NEW sig, GotoWith(w, pc, sig),
           pc \in {"finish", "finished", "revoke"} => IntentOf(w).entry = "rotate",
           pc = "finished" => HasControlled(IntentOf(w).to),
           pc = "revoke" => Outlived(IntentOf(w).key),
           pc \in {"record", "resent", "confirm"} /\ IntentOf(w).entry # "rotate" =>
               Consumed(w) \/ (sig \in 1..Len(txs') /\ txs'[sig].intent = work[w].i),
           pc = "reconcile" /\ IntentOf(w).entry = "execute" /\ sig # 0 => Consumed(w),
           pc = "executed" => Consumed(w)
    PROVE  RequestOK(w)'
<1>1. /\ work'[w] = [pc |-> pc, i |-> work[w].i, sig |-> sig] /\ RelayShapes
      /\ RequestOK(w) /\ work[w].i \in Intents
  BY DEF GotoWith, RelayInv, RelayShapes, RequestOK
<1>2. IntentOf(w)' = IntentOf(w) /\ Slot(w)' = Slot(w) /\ Signed[work[w].i].nonce \in Nat /\ Slot(w) \in SlotKeys
  BY <1>1, SignedTypes DEF IntentOf, Slot
<1>3. /\ HasControlled(IntentOf(w).to) => HasControlled(IntentOf(w).to)'
      /\ Outlived(IntentOf(w).key) => Outlived(IntentOf(w).key)'
  BY <1>1, <1>2, ControlGrows
<1>4. /\ IntentOf(w).nonce <= acct.nonce => IntentOf(w).nonce <= acct'.nonce
      /\ Consumed(w) => Consumed(w)'
  BY <1>1, <1>2 DEF ChainGoesOn, RelayShapes, Consumed, IntentOf
<1>5. slots'[Slot(w)].hash = work[w].i
  BY <1>1, <1>2 DEF SlotsKeep, RequestOK
<1>6. /\ pc = "finished" => HasControlled(IntentOf(w).to)'
      /\ pc = "revoke" => Outlived(IntentOf(w).key)'
      /\ pc \in {"record", "resent", "confirm"} /\ IntentOf(w).entry # "rotate" => Consumed(w)' \/ Broadcast(w)'
      /\ (pc = "reconcile" /\ IntentOf(w).entry = "execute" /\ sig # 0) \/ pc = "executed" => Consumed(w)'
  BY <1>1, <1>3, <1>4 DEF Broadcast
<1> QED BY <1>1, <1>2, <1>3, <1>4, <1>5, <1>6 DEF RequestOK

\* The chain shows that the intent of w went through.
Proven(w) == Consumed(w) \/ (IntentOf(w).entry = "rotate" /\ HasControlled(IntentOf(w).to))

\* An outcome is recorded, of w's slot or of another one that is given up.
LEMMA OutcomeKeeps ==
    ASSUME RelayInv, NEW w \in Workers, work[w].pc \notin {"idle", "claim"},
           NEW s \in SlotKeys, NEW status, NEW sig, slots' = Recorded(s, status, sig),
           UNCHANGED <<acct, txs, creds>>, NEW to, work' = [work EXCEPT ![w] = to],
           status \in {"confirmed", "resolved-landed"} => s = Slot(w) /\ Proven(w),
           SlotsKeep /\ ChainGoesOn => RequestOK(w)'
    PROVE  RelayInv'
<1> DEFINE kept == [status |-> status, hash |-> slots[s].hash, sig |-> IF sig = 0 THEN slots[s].sig ELSE sig,
                   at |-> rtime]
<1>1. slots' = [slots EXCEPT ![s] = kept]
  BY DEF Recorded
<1>2. kept.status = status /\ kept.hash = slots[s].hash
  OBVIOUS
<1> HIDE DEF kept
<1>3. RelayShapes /\ ChainGoesOn /\ creds' \in [AuthKeys -> {"active", "revoked"}]
  BY DEF RelayInv, RelayShapes, ChainGoesOn
<1>4. SlotsKeep
  BY <1>1, <1>2, <1>3 DEF RelayShapes, SlotsKeep
<1>5. RevokedAfterRotation'
  BY ControlSame DEF RelayInv, RevokedAfterRotation
<1>6. /\ slots[Slot(w)].hash = work[w].i /\ work[w].i \in Intents
      /\ Slot(w)[1] = IntentOf(w).nonce /\ Slot(w)[2] = IntentOf(w).entry /\ Signed[work[w].i].nonce \in Nat
      /\ acct.nonce \in Nat
  BY <1>3, SignedTypes DEF RelayInv, RequestOK, Slot, IntentOf, RelayShapes
<1>7. kept.status \in {"confirmed", "resolved-landed"} =>
        acct.nonce > s[1] \/ (s[2] = "rotate" /\ HasControlled(Signed[kept.hash].to))
  BY <1>2, <1>6 DEF Proven, Consumed, IntentOf
<1> QED BY <1>1, <1>2, <1>3, <1>4, <1>5, <1>7, RecordKeeps

LEMMA IdleOK ==
    ASSUME RelayInv, NEW w \in Workers, Finish(w)
    PROVE  RequestOK(w)'
<1>1. work'[w] = Idle
  BY DEF Finish, RelayInv, RelayShapes
<1> QED BY <1>1 DEF RequestOK, Idle

\* A consumed nonce, or the new key, proves landing.
LEMMA LandedProven ==
    ASSUME RelayInv, NEW w \in Workers, work[w].pc # "idle", Landed(w)
    PROVE  Proven(w) /\ (IntentOf(w).entry # "rotate" => Consumed(w))
<1>1. /\ work[w].i \in Intents /\ IntentOf(w).nonce <= acct.nonce /\ IntentOf(w).nonce \in Nat /\ acct.nonce \in Nat
      /\ HasControlled(acct.authority)
  BY SignedTypes DEF RelayInv, RequestOK, RelayShapes, ControlPasses, IntentOf
<1>2. acct.nonce # IntentOf(w).nonce => Consumed(w)
  BY <1>1 DEF Consumed
<1> QED BY <1>1, <1>2 DEF Landed, Rotated, Proven

LEMMA GuardKeeps ==
    ASSUME RelayInv, NEW w \in Workers, assertNoInflightRotation(w)
    PROVE  RelayInv'
<1>1. work[w].pc = "guard" /\ UNCHANGED <<acct, txs, creds>>
  BY DEF assertNoInflightRotation, At
<1>2. CASE GotoWith(w, "send", work[w].sig) /\ slots' = slots
  BY <1>1, <1>2, GotoKeeps
<1>3. CASE Finish(w) /\ slots' = slots
  BY <1>1, <1>3, FinishKeeps
<1>4. ASSUME NEW s \in SlotKeys, slots' = Recorded(s, "expired", 0), GotoWith(w, "send", work[w].sig)
      PROVE  RelayInv'
  <2>1. SlotsKeep /\ ChainGoesOn => RequestOK(w)'
    BY <1>1, <1>4, AwaitOK
  <2> DEFINE to == [pc |-> "send", i |-> work[w].i, sig |-> work[w].sig]
  <2>2. work' = [work EXCEPT ![w] = to]
    BY <1>4 DEF GotoWith
  <2>3. work[w].pc \notin {"idle", "claim"} /\ "expired" \notin {"confirmed", "resolved-landed"}
    BY <1>1
  <2> HIDE DEF to
  <2> QED BY <1>1, <1>4, <2>1, <2>2, <2>3, OutcomeKeeps
<1>5. \/ GotoWith(w, "send", work[w].sig) /\ slots' = slots
      \/ Finish(w) /\ slots' = slots
      \/ \E s \in SlotKeys : slots' = Recorded(s, "expired", 0) /\ GotoWith(w, "send", work[w].sig)
  BY DEF assertNoInflightRotation, Goto
<1> QED BY <1>2, <1>3, <1>4, <1>5
\* w records an outcome and ends ...
LEMMA RecordFinishKeeps ==
    ASSUME RelayInv, NEW w \in Workers, work[w].pc \notin {"idle", "claim"},
           NEW status, NEW sig, slots' = Recorded(Slot(w), status, sig), Finish(w),
           UNCHANGED <<acct, txs, creds>>, status \in {"confirmed", "resolved-landed"} => Proven(w)
    PROVE  RelayInv'
<1>1. Slot(w) \in SlotKeys
  BY SignedTypes DEF RelayInv, RequestOK, Slot
<1>2. work' = [work EXCEPT ![w] = Idle]
  BY DEF Finish
<1>3. RequestOK(w)'
  BY IdleOK
<1> QED BY <1>1, <1>2, <1>3, OutcomeKeeps

\* ... or goes on.
LEMMA RecordGotoKeeps ==
    ASSUME RelayInv, NEW w \in Workers, work[w].pc \notin {"idle", "claim"},
           NEW status, NEW sig, slots' = Recorded(Slot(w), status, sig) \/ slots' = slots,
           NEW pc, NEW next, GotoWith(w, pc, next), pc \in {"confirm", "reconcile", "revoke"},
           UNCHANGED <<acct, txs, creds>>, status \in {"confirmed", "resolved-landed"} => Proven(w),
           pc = "revoke" => IntentOf(w).entry = "rotate" /\ Outlived(IntentOf(w).key),
           pc = "confirm" /\ IntentOf(w).entry # "rotate" =>
               Consumed(w) \/ (next \in 1..Len(txs) /\ txs[next].intent = work[w].i),
           pc = "reconcile" /\ IntentOf(w).entry = "execute" /\ next # 0 => Consumed(w)
    PROVE  RelayInv'
<1> DEFINE to == [pc |-> pc, i |-> work[w].i, sig |-> next]
<1>1. Slot(w) \in SlotKeys
  BY SignedTypes DEF RelayInv, RequestOK, Slot
<1>2. work' = [work EXCEPT ![w] = to]
  BY DEF GotoWith
<1> HIDE DEF to
<1>3. SlotsKeep /\ ChainGoesOn => RequestOK(w)'
  BY AwaitOK
<1>4. CASE slots' = Recorded(Slot(w), status, sig)
  BY <1>1, <1>2, <1>3, <1>4, OutcomeKeeps
<1>5. CASE slots' = slots
  <2>1. SlotsKeep /\ ChainGoesOn
    BY <1>5 DEF SlotsKeep, ChainGoesOn, RelayInv, RelayShapes
  <2> QED BY <1>2, <1>3, <1>5, <2>1, MoveKeeps
<1> QED BY <1>4, <1>5

LEMMA DuplicateKeeps ==
    ASSUME RelayInv, NEW w \in Workers, resolveDuplicateSlot(w)
    PROVE  RelayInv'
<1>1. work[w].pc = "duplicate" /\ UNCHANGED <<acct, txs, creds>>
  BY DEF resolveDuplicateSlot, At
<1>2. CASE Finish(w) /\ slots' = slots
  BY <1>1, <1>2, FinishKeeps
<1>3. CASE Landed(w) /\ slots' = Recorded(Slot(w), "resolved-landed", Newest) /\ Finish(w)
  BY <1>1, <1>3, LandedProven, RecordFinishKeeps
<1>4. CASE GotoWith(w, "send", work[w].sig) /\ slots' = slots
  BY <1>1, <1>4, GotoKeeps
<1> QED BY <1>2, <1>3, <1>4 DEF resolveDuplicateSlot, Goto

\* Whose key was replaced has handed over, the first one by a rotation that landed.
LEMMA RotatedMeansAway ==
    ASSUME RelayInv, NEW w \in Workers, work[w].pc # "idle",
           IntentOf(w).entry = "rotate", Rotated(w)
    PROVE  /\ Outlived(IntentOf(w).key)
           /\ HasControlled(IntentOf(w).to) /\ Proven(w) /\ IntentOf(w).key \in AuthKeys
<1>1. work[w].i \in Intents /\ IntentOf(w).key \in AuthKeys /\ IntentOf(w).key # IntentOf(w).to
  BY SignedTypes DEF RelayInv, RequestOK, IntentOf
<1>2. HasControlled(IntentOf(w).to) /\ Proven(w)
  BY DEF Rotated, RelayInv, ControlPasses, Proven
<1>3. HandedOver(IntentOf(w).key)
  BY <1>1, <1>2 DEF HandedOver, IntentOf
<1>4. IntentOf(w).key = FirstKey => RotatedAway(FirstKey)
  BY <1>1 DEF Rotated, HasControlled, RelayInv, ControlPasses
<1> QED BY <1>1, <1>2, <1>3, <1>4 DEF Outlived

LEMMA RevokeKeepsCreds ==
    ASSUME RelayInv, NEW k \in AuthKeys, Outlived(k),
           creds' = [creds EXCEPT ![k] = "revoked"], UNCHANGED txs
    PROVE  RevokedAfterRotation' /\ creds' \in [AuthKeys -> {"active", "revoked"}]
BY ControlSame DEF RelayInv, RelayShapes, RevokedAfterRotation

\* w moves on, and revokes the key k or none.
LEMMA RevokeKeeps ==
    ASSUME RelayInv, NEW w \in Workers, work[w].pc \notin {"idle", "claim"},
           NEW k \in AuthKeys, Outlived(k), creds' = [creds EXCEPT ![k] = "revoked"],
           UNCHANGED <<acct, txs, slots>>, NEW pc, GotoWith(w, pc, work[w].sig),
           pc \in {"finished", "reconcile"}, IntentOf(w).entry = "rotate",
           pc = "finished" => HasControlled(IntentOf(w).to)
    PROVE  RelayInv'
<1> DEFINE to == [pc |-> pc, i |-> work[w].i, sig |-> work[w].sig]
<1>1. Slot(w) \in SlotKeys
  BY SignedTypes DEF RelayInv, RequestOK, Slot
<1>2. work' = [work EXCEPT ![w] = to]
  BY DEF GotoWith
<1> HIDE DEF to
<1>3. SlotsKeep /\ ChainGoesOn
  BY DEF SlotsKeep, ChainGoesOn, RelayInv, RelayShapes
<1>4. RequestOK(w)'
  BY <1>3, AwaitOK
<1>5. RevokedAfterRotation' /\ creds' \in [AuthKeys -> {"active", "revoked"}]
  BY RevokeKeepsCreds
<1>6. slots[Slot(w)].status \in {"confirmed", "resolved-landed"} =>
        acct.nonce > Slot(w)[1] \/ (Slot(w)[2] = "rotate" /\ HasControlled(Signed[slots[Slot(w)].hash].to))
  BY <1>1 DEF RelayInv, LandedSlotsConsumed
<1> DEFINE kept == slots[Slot(w)]
<1>7. kept.hash = slots[Slot(w)].hash
  OBVIOUS
<1> QED BY <1>1, <1>2, <1>4, <1>5, <1>6, <1>7, RecordKeeps

LEMMA FinishRotationKeeps ==
    ASSUME RelayInv, NEW w \in Workers, finishRotation(w)
    PROVE  RelayInv'
<1>1. work[w].pc = "finish" /\ UNCHANGED <<acct, txs, slots>> /\ IntentOf(w).entry = "rotate"
  BY DEF finishRotation, At, RelayInv, RequestOK
<1>2. CASE Rotated(w)
  <2>1. creds' = [creds EXCEPT ![IntentOf(w).key] = "revoked"] /\ GotoWith(w, "finished", work[w].sig)
    BY <1>2 DEF finishRotation, Goto
  <2> QED BY <1>1, <1>2, <2>1, RotatedMeansAway, RevokeKeeps
<1>3. CASE ~Rotated(w)
  <2>1. creds' = creds /\ GotoWith(w, "send", work[w].sig)
    BY <1>3 DEF finishRotation, Goto
  <2> QED BY <1>1, <2>1, GotoKeeps
<1> QED BY <1>2, <1>3

LEMMA RecordFinishedKeeps ==
    ASSUME RelayInv, NEW w \in Workers, recordFinished(w)
    PROVE  RelayInv'
<1>1. work[w].pc = "finished" /\ UNCHANGED <<acct, txs, creds>> /\ Finish(w) /\ Proven(w)
  BY DEF recordFinished, At, RelayInv, RequestOK, Proven
<1>2. slots' = slots \/ slots' = Recorded(Slot(w), "confirmed", work[w].sig)
  BY DEF recordFinished
<1> QED BY <1>1, <1>2, FinishKeeps, RecordFinishKeeps

LEMMA SentKeeps ==
    ASSUME RelayInv, NEW w \in Workers, work[w].pc \notin {"idle", "claim"}, Sent(w),
           UNCHANGED <<acct, slots, creds>>, NEW pc, NEW sig, GotoWith(w, pc, sig),
           pc = "resolve" \/ (pc \in {"record", "resent"} /\ sig = Len(txs) + 1)
    PROVE  RelayInv'
<1> DEFINE tx == [intent |-> work[w].i, state |-> "pending"]
           to == [pc |-> pc, i |-> work[w].i, sig |-> sig]
<1>1. txs' = Append(txs, tx) /\ tx \in TxType /\ tx.intent = work[w].i /\ txs \in Seq(TxType)
  BY DEF Sent, TxType, RelayInv, RelayShapes, RequestOK
<1>2. work' = [work EXCEPT ![w] = to]
  BY DEF GotoWith
<1>3. /\ txs' \in Seq(TxType) /\ Len(txs') = Len(txs) + 1 /\ txs'[Len(txs) + 1] = tx
      /\ \A t \in 1..Len(txs) : txs'[t] = txs[t] /\ Len(txs) \in Nat
      /\ Len(txs) + 1 \in 1..Len(txs')
  <2> HIDE DEF tx
  <2> QED BY <1>1
<1>4. ChainGoesOn /\ SlotsKeep
  BY <1>3 DEF ChainGoesOn, SlotsKeep, RelayInv, RelayShapes
<1>5. RequestOK(w)'
  <2> HIDE DEF tx
  <2> QED BY <1>1, <1>3, <1>4, AwaitOK
<1> HIDE DEF to
<1> QED BY <1>1, <1>2, <1>5, SendKeeps

LEMMA BroadcastKeeps ==
    ASSUME RelayInv, NEW w \in Workers, broadcast(w)
    PROVE  RelayInv'
<1>1. work[w].pc = "send" /\ UNCHANGED <<acct, slots, creds>>
  BY DEF broadcast, At
<1>2. CASE Sent(w) /\ GotoWith(w, "record", Len(txs) + 1)
  BY <1>1, <1>2, SentKeeps
<1>3. CASE Sent(w) /\ GotoWith(w, "resolve", work[w].sig)
  BY <1>1, <1>3, SentKeeps
<1>4. CASE Finish(w) /\ UNCHANGED txs
  BY <1>1, <1>4, FinishKeeps
<1>5. CASE GotoWith(w, "resolve", work[w].sig) /\ UNCHANGED txs
  BY <1>1, <1>5, GotoKeeps
<1> QED BY <1>2, <1>3, <1>4, <1>5 DEF broadcast, Goto

LEMMA RebroadcastKeeps ==
    ASSUME RelayInv, NEW w \in Workers, rebroadcast(w)
    PROVE  RelayInv'
<1>1. work[w].pc = "resend" /\ UNCHANGED <<acct, slots, creds>>
  BY DEF rebroadcast, At
<1>2. CASE Sent(w) /\ GotoWith(w, "resent", Len(txs) + 1)
  BY <1>1, <1>2, SentKeeps
<1>3. CASE Finish(w) /\ UNCHANGED txs
  BY <1>1, <1>3, FinishKeeps
<1> QED BY <1>2, <1>3 DEF rebroadcast
LEMMA RecordSentKeeps ==
    ASSUME RelayInv, NEW w \in Workers, recordSubmission(w) \/ recordRebroadcast(w)
    PROVE  RelayInv'
<1>1. /\ work[w].pc \in {"record", "resent"} /\ UNCHANGED <<acct, txs, creds>>
      /\ GotoWith(w, "confirm", work[w].sig)
      /\ IntentOf(w).entry # "rotate" => Consumed(w) \/ Broadcast(w)
  BY DEF recordSubmission, recordRebroadcast, At, Goto, RelayInv, RequestOK
<1>2. PICK status \in {"submitted", "resolved-not-landed-rebroadcast"} : slots' = Recorded(Slot(w), status, work[w].sig)
  BY DEF recordSubmission, recordRebroadcast
<1> QED BY <1>1, <1>2, RecordGotoKeeps DEF Broadcast

LEMMA ResolveKeeps ==
    ASSUME RelayInv, NEW w \in Workers, resolveThenAct(w)
    PROVE  RelayInv'
<1>1. work[w].pc = "resolve" /\ UNCHANGED <<acct, txs, creds>>
  BY DEF resolveThenAct, At
<1>2. CASE slots' = Recorded(Slot(w), "parked-unreadable", 0) /\ Finish(w)
  BY <1>1, <1>2, RecordFinishKeeps
<1>3. ASSUME Landed(w), NEW sig, slots' = Recorded(Slot(w), "resolved-landed", sig),
             IF sig = 0 THEN Finish(w) ELSE GotoWith(w, "confirm", sig)
      PROVE  RelayInv'
  <2>1. Proven(w) /\ (IntentOf(w).entry # "rotate" => Consumed(w))
    BY <1>1, <1>3, LandedProven
  <2>2. CASE Finish(w)
    BY <1>1, <1>3, <2>1, <2>2, RecordFinishKeeps
  <2>3. CASE GotoWith(w, "confirm", sig)
    BY <1>1, <1>3, <2>1, <2>3, RecordGotoKeeps
  <2> QED BY <1>3, <2>2, <2>3
<1>4. CASE GotoWith(w, "resend", work[w].sig) /\ slots' = slots
  BY <1>1, <1>4, GotoKeeps
<1> QED BY <1>2, <1>3, <1>4 DEF resolveThenAct, Goto

\* What landed was the intent's, so its nonce is consumed.
LEMMA LandedMeansConsumed ==
    ASSUME RelayInv, NEW w \in Workers, work[w].pc = "confirm",
           IntentOf(w).entry # "rotate", txs[work[w].sig].state = "landed"
    PROVE  Consumed(w)
BY DEF RelayInv, RequestOK, Broadcast, Consumed, LandedSpent, IntentOf

LEMMA ConfirmWithdrawKeeps ==
    ASSUME RelayInv, NEW w \in Workers, confirmWithdraw(w)
    PROVE  RelayInv'
<1>1. /\ work[w].pc = "confirm" /\ UNCHANGED <<acct, txs, creds>> /\ IntentOf(w).entry = "withdraw"
      /\ GotoWith(w, "reconcile", work[w].sig)
  BY DEF confirmWithdraw, At, Goto
<1>2. CASE txs[work[w].sig].state = "landed"
  <2>1. slots' = Recorded(Slot(w), "confirmed", work[w].sig)
    BY <1>2 DEF confirmWithdraw
  <2> QED BY <1>1, <1>2, <2>1, LandedMeansConsumed, RecordGotoKeeps DEF Proven
<1>3. CASE txs[work[w].sig].state # "landed"
  <2>1. slots' = Recorded(Slot(w), "failed", work[w].sig) \/ slots' = slots
    BY <1>3 DEF confirmWithdraw
  <2>2. work[w].pc \notin {"idle", "claim"} /\ "failed" \notin {"confirmed", "resolved-landed"}
    BY <1>1
  <2> QED BY <1>1, <2>1, <2>2, RecordGotoKeeps
<1> QED BY <1>2, <1>3

LEMMA ConfirmExecuteKeeps ==
    ASSUME RelayInv, NEW w \in Workers, confirmExecute(w)
    PROVE  RelayInv'
<1> DEFINE next == IF txs[work[w].sig].state = "landed" THEN work[w].sig ELSE 0
<1>1. /\ work[w].pc = "confirm" /\ UNCHANGED <<acct, txs, creds>> /\ IntentOf(w).entry = "execute"
      /\ GotoWith(w, "reconcile", next)
      /\ slots' = Recorded(Slot(w), "failed", work[w].sig) \/ slots' = slots
  BY DEF confirmExecute, At
<1>2. next # 0 => Consumed(w)
  BY <1>1, LandedMeansConsumed
<1>3. work[w].pc \notin {"idle", "claim"} /\ "failed" \notin {"confirmed", "resolved-landed"}
  BY <1>1
<1> HIDE DEF next
<1> QED BY <1>1, <1>2, <1>3, RecordGotoKeeps

LEMMA RecordExecutedKeeps ==
    ASSUME RelayInv, NEW w \in Workers, recordExecuted(w)
    PROVE  RelayInv'
<1>1. /\ work[w].pc = "executed" /\ UNCHANGED <<acct, txs, creds>> /\ Finish(w) /\ Proven(w)
      /\ slots' = Recorded(Slot(w), "confirmed", work[w].sig)
  BY DEF recordExecuted, At, RelayInv, RequestOK, Proven
<1> QED BY <1>1, RecordFinishKeeps

LEMMA ConfirmRotationKeeps ==
    ASSUME RelayInv, NEW w \in Workers, confirmRotation(w)
    PROVE  RelayInv'
<1>1. work[w].pc = "confirm" /\ UNCHANGED <<acct, txs, creds>> /\ IntentOf(w).entry = "rotate"
  BY DEF confirmRotation, At
<1>2. CASE Rotated(w)
  <2>1. slots' = Recorded(Slot(w), "confirmed", work[w].sig) /\ GotoWith(w, "revoke", work[w].sig)
    BY <1>2 DEF confirmRotation, Goto
  <2> QED BY <1>1, <1>2, <2>1, RotatedMeansAway, RecordGotoKeeps
<1>3. CASE ~Rotated(w)
  BY <1>1, <1>3, FinishKeeps DEF confirmRotation
<1> QED BY <1>2, <1>3

LEMMA RevokeOldKeeps ==
    ASSUME RelayInv, NEW w \in Workers, revokeOld(w)
    PROVE  RelayInv'
<1>1. /\ work[w].pc = "revoke" /\ UNCHANGED <<acct, txs, slots>> /\ IntentOf(w).entry = "rotate"
      /\ creds' = [creds EXCEPT ![IntentOf(w).key] = "revoked"] /\ GotoWith(w, "reconcile", work[w].sig)
      /\ Outlived(IntentOf(w).key)
  BY DEF revokeOld, At, Goto, RelayInv, RequestOK
<1>2. IntentOf(w).key \in AuthKeys
  BY <1>1, SignedTypes DEF RelayInv, RequestOK, IntentOf
<1> QED BY <1>1, <1>2, RevokeKeeps

LEMMA ReconcileKeeps ==
    ASSUME RelayInv, NEW w \in Workers, reconcile(w) \/ reconcileRotationCost(w)
    PROVE  RelayInv'
<1>1. work[w].pc = "reconcile" /\ UNCHANGED <<acct, txs, slots, creds>>
  BY DEF reconcile, reconcileRotationCost, At
<1>2. CASE Finish(w)
  BY <1>1, <1>2, FinishKeeps
<1>3. CASE IntentOf(w).entry = "execute" /\ work[w].sig # 0 /\ GotoWith(w, "executed", work[w].sig)
  <2> DEFINE to == [pc |-> "executed", i |-> work[w].i, sig |-> work[w].sig]
  <2>1. Consumed(w)
    BY <1>1, <1>3 DEF RelayInv, RequestOK
  <2>2. SlotsKeep /\ ChainGoesOn
    BY <1>1 DEF SlotsKeep, ChainGoesOn, RelayInv, RelayShapes
  <2>3. RequestOK(w)'
    BY <1>1, <1>3, <2>1, <2>2, AwaitOK
  <2>4. work' = [work EXCEPT ![w] = to]
    BY <1>3 DEF GotoWith
  <2> HIDE DEF to
  <2> QED BY <1>1, <2>3, <2>4, MoveKeeps
<1> QED BY <1>2, <1>3 DEF reconcile, reconcileRotationCost, Goto

---------------------------------------------------------------------------
\* The chain

\* A transaction gets its state; if it lands, it takes the nonce and control.
LEMMA ChainKeeps ==
    ASSUME RelayInv, NEW t \in 1..Len(txs), Land(t) \/ Fail(t) \/ Drop(t)
    PROVE  RelayInv'
<1>1. /\ RelayShapes /\ txs \in Seq(TxType) /\ txs[t].state = "pending"
      /\ UNCHANGED <<slots, creds, work>>
  BY DEF RelayInv, RelayShapes, Land, Fail, Drop
<1>0. PICK i \in Intents : i = txs[t].intent
  <2>1. txs[t] \in TxType
    BY <1>1
  <2> QED BY <2>1 DEF TxType
<1>2. /\ txs[t] \in TxType /\ txs[t].intent = i /\ Signed[i].nonce \in Nat /\ Signed[i].key \in AuthKeys
      /\ Signed[i].to \in AuthKeys
  BY <1>0, <1>1, SignedTypes
<1>3. PICK state \in {"landed", "failed", "dropped"} :
        /\ txs' = [txs EXCEPT ![t].state = state]
        /\ state = "landed" <=> (Land(t) /\ Acceptable(i))
        /\ state # "landed" => UNCHANGED acct
  BY <1>0 DEF Land, Fail, Drop
<1> DEFINE tx == [txs[t] EXCEPT !.state = state]
<1>4. tx \in TxType /\ tx.intent = i /\ tx.state = state
  BY <1>2 DEF TxType
<1>5. txs' = [txs EXCEPT ![t] = tx]
  BY <1>3
<1> HIDE DEF tx
<1>6. /\ txs' \in Seq(TxType) /\ Len(txs') = Len(txs) /\ Len(txs) \in Nat
      /\ \A u \in 1..Len(txs) : txs'[u] = IF u = t THEN tx ELSE txs[u]
      /\ t \in 1..Len(txs') /\ txs'[t] = tx
  BY <1>1, <1>4, <1>5
<1>7. /\ acct' \in [nonce: Nat, authority: AuthKeys] /\ acct.nonce <= acct'.nonce
      /\ state = "landed" =>
           /\ Signed[i].nonce = acct.nonce /\ Signed[i].key = acct.authority /\ acct'.nonce = acct.nonce + 1
           /\ acct'.authority = IF Signed[i].entry = "rotate" THEN Signed[i].to ELSE acct.authority
  BY <1>0, <1>1, <1>2, <1>3 DEF Land, Acceptable, RelayShapes
<1>8. ChainGoesOn /\ SlotsKeep
  <2>1. \A u \in 1..Len(txs) :
          txs'[u].intent = txs[u].intent /\ (txs[u].state = "landed" => txs'[u].state = "landed")
    BY <1>1, <1>2, <1>4, <1>6
  <2> QED BY <1>1, <1>6, <1>7, <2>1 DEF ChainGoesOn, SlotsKeep
<1>9. RelayShapes'
  BY <1>1, <1>6, <1>7 DEF RelayShapes
<1>10. TxsHoldSlots'
  BY <1>1, <1>6, <1>8 DEF RelayInv, TxsHoldSlots, ChainGoesOn
<1>11. LandedSpent'
  <2> SUFFICES ASSUME NEW u \in 1..Len(txs), txs'[u].state = "landed"
               PROVE  Signed[txs'[u].intent].nonce < acct'.nonce
    BY <1>6 DEF LandedSpent
  <2>1. CASE u = t
    BY <1>1, <1>2, <1>4, <1>6, <1>7, <2>1 DEF RelayShapes
  <2>2. CASE u # t
    <3>1. Signed[txs[u].intent].nonce < acct.nonce /\ txs'[u] = txs[u]
      BY <1>6, <2>2 DEF RelayInv, LandedSpent
    <3>2. txs[u] \in TxType
      BY <1>1
    <3>3. Signed[txs[u].intent].nonce \in Nat
      BY <3>2, SignedTypes DEF TxType
    <3>4. acct.nonce \in Nat /\ acct'.nonce \in Nat /\ acct.nonce <= acct'.nonce
      BY <1>1, <1>7 DEF RelayShapes
    <3> QED BY <3>1, <3>3, <3>4
  <2> QED BY <2>1, <2>2
<1>12. ControlPasses'
  <2>1. HasControlled(acct.authority) /\ \A k \in AuthKeys : HasControlled(k) => k = acct.authority \/ RotatedAway(k)
    BY DEF RelayInv, ControlPasses
  <2>2. CASE state = "landed" /\ Signed[i].entry = "rotate"
    <3>1. acct'.authority = Signed[i].to /\ HasControlled(Signed[i].to)'
      BY <1>4, <1>6, <1>7, <2>2 DEF HasControlled
    <3>2. RotatedAway(Signed[i].key)' /\ Signed[i].key = acct.authority
      BY <1>4, <1>6, <1>7, <2>2 DEF RotatedAway
    <3>3. ASSUME NEW k \in AuthKeys, HasControlled(k)' PROVE k = acct'.authority \/ RotatedAway(k)'
      <4>1. k = Signed[i].to \/ HasControlled(k)
        BY <1>4, <1>6, <3>3 DEF HasControlled
      <4>2. RotatedAway(k) => RotatedAway(k)'
        BY <1>1, <1>8, ControlGrows
      <4> QED BY <2>1, <3>1, <3>2, <4>1, <4>2
    <3> QED BY <3>1, <3>3 DEF ControlPasses
  <2>3. CASE state # "landed" \/ Signed[i].entry # "rotate"
    <3>1. acct'.authority = acct.authority
      BY <1>3, <1>7, <2>3
    <3>2. ASSUME NEW k PROVE (HasControlled(k)' => HasControlled(k)) /\ (RotatedAway(k) => RotatedAway(k)')
                             /\ (HasControlled(k) => HasControlled(k)')
      <4>1. HasControlled(k)' => HasControlled(k)
        BY <1>4, <1>6, <2>3 DEF HasControlled
      <4> QED BY <1>1, <1>8, <4>1, ControlGrows
    <3> QED BY <2>1, <3>1, <3>2 DEF ControlPasses
  <2> QED BY <2>2, <2>3
<1>13. LandedSlotsConsumed'
  <2> SUFFICES ASSUME NEW s \in SlotKeys, slots[s].status \in {"confirmed", "resolved-landed"}
               PROVE  acct'.nonce > s[1] \/ (s[2] = "rotate" /\ HasControlled(Signed[slots[s].hash].to)')
    BY <1>1 DEF LandedSlotsConsumed
  <2>1. acct.nonce > s[1] \/ (s[2] = "rotate" /\ HasControlled(Signed[slots[s].hash].to))
    BY DEF RelayInv, LandedSlotsConsumed
  <2>2. s[1] \in Nat
    BY SignedTypes DEF SlotKeys
  <2>3. acct.nonce > s[1] => acct'.nonce > s[1]
    BY <1>1, <1>7, <2>2 DEF RelayShapes
  <2>4. HasControlled(Signed[slots[s].hash].to) => HasControlled(Signed[slots[s].hash].to)'
    BY <1>1, <1>8, ControlGrows
  <2> QED BY <1>1, <2>1, <2>3, <2>4
<1>14. RevokedAfterRotation'
  BY <1>1, <1>8, ControlGrows DEF RelayInv, RevokedAfterRotation
<1>15. \A w \in Workers : RequestOK(w)'
  BY <1>1, <1>8, OthersStay
<1> QED BY <1>9, <1>10, <1>11, <1>12, <1>13, <1>14, <1>15 DEF RelayInv
---------------------------------------------------------------------------
\* The relayer

\* Every step keeps the invariant.
LEMMA RelayStep ==
    ASSUME RelayInv, [RelayNext]_relayVars
    PROVE  RelayInv'
<1>1. ASSUME NEW w \in Workers, NEW i \in Intents, withdraw(w, i) \/ execute(w, i) \/ rotate(w, i)
      PROVE  RelayInv'
  BY <1>1, BeginKeeps DEF withdraw, execute, rotate, SpendAllowed
<1>2. ASSUME NEW w \in Workers, Step(w) PROVE RelayInv'
  BY <1>2, ClaimKeeps, GuardKeeps, DuplicateKeeps, FinishRotationKeeps, RecordFinishedKeeps, BroadcastKeeps,
     RecordSentKeeps, ResolveKeeps, RebroadcastKeeps, ConfirmWithdrawKeeps, ConfirmExecuteKeeps,
     ConfirmRotationKeeps, RevokeOldKeeps, ReconcileKeeps, RecordExecutedKeeps DEF Step
<1>3. CASE UNCHANGED <<acct, txs, slots, creds, work>>
  <2>1. \A k : /\ (HasControlled(k) <=> HasControlled(k)') /\ (RotatedAway(k) <=> RotatedAway(k)')
               /\ (Outlived(k) <=> Outlived(k)')
    BY <1>3, ControlSame
  <2>2. /\ ChainGoesOn /\ SlotsKeep /\ RelayShapes'
    BY <1>3 DEF RelayInv, RelayShapes, ChainGoesOn, SlotsKeep
  <2>3. \A w \in Workers : RequestOK(w)'
    BY <1>3, <2>2, OthersStay
  <2>4. TxsHoldSlots' /\ LandedSpent' /\ ControlPasses' /\ LandedSlotsConsumed' /\ RevokedAfterRotation'
    BY <1>3, <2>1 DEF RelayInv, TxsHoldSlots, LandedSpent, ControlPasses, LandedSlotsConsumed, RevokedAfterRotation
  <2> QED BY <2>2, <2>3, <2>4 DEF RelayInv
<1>4. CASE Restart
  <2>1. UNCHANGED <<acct, txs, slots, creds>> /\ work' = [w \in Workers |-> Idle]
    BY <1>4 DEF Restart
  <2>2. \A k : /\ (HasControlled(k) <=> HasControlled(k)') /\ (RotatedAway(k) <=> RotatedAway(k)')
               /\ (Outlived(k) <=> Outlived(k)')
    BY <2>1, ControlSame
  <2>3. RelayShapes' /\ \A w \in Workers : RequestOK(w)'
    BY <2>1 DEF RelayInv, RelayShapes, RequestOK, Idle
  <2>4. TxsHoldSlots' /\ LandedSpent' /\ ControlPasses' /\ LandedSlotsConsumed' /\ RevokedAfterRotation'
    BY <2>1, <2>2 DEF RelayInv, TxsHoldSlots, LandedSpent, ControlPasses, LandedSlotsConsumed, RevokedAfterRotation
  <2> QED BY <2>3, <2>4 DEF RelayInv
<1>5. CASE openBreaker \/ closeBreaker \/ RelayTick \/ UNCHANGED relayVars
  BY <1>3, <1>5 DEF openBreaker, closeBreaker, RelayTick, relayVars
<1> QED BY <1>1, <1>2, <1>4, <1>5, ChainKeeps DEF RelayNext, Start

LEMMA RelayInvariant == RelaySpec => []RelayInv
<1>1. RelayInit => RelayInv
  BY RelayInitInv
<1>2. RelayInv /\ [RelayNext]_relayVars => RelayInv'
  BY RelayStep
<1> QED BY <1>1, <1>2, PTL DEF RelaySpec

\* Under any interleaving of claims, retries, lost answers, crashes and
\* rebroadcasts, what is broadcast for a nonce and an entry point is one intent.
THEOREM NeverDifferentBytes == RelaySpec => []OneIntentPerSlot
<1>1. RelayInv => OneIntentPerSlot
  BY DEF RelayInv, TxsHoldSlots, OneIntentPerSlot
<1> QED BY <1>1, RelayInvariant, PTL

\* No request records an unclear outcome as a success.
THEOREM SuccessIsOnChain == RelaySpec => []LandedSlotsConsumed
<1>1. RelayInv => LandedSlotsConsumed
  BY DEF RelayInv
<1> QED BY <1>1, RelayInvariant, PTL

\* Whoever signs, a passkey is revoked only once a rotation it signed hands the
\* account to a key that has had it, the first one only once that rotation landed.
THEOREM RevokedOnceReplaced == RelaySpec => []RevokedAfterRotation
<1>1. RelayInv => RevokedAfterRotation
  BY DEF RelayInv
<1> QED BY <1>1, RelayInvariant, PTL

---------------------------------------------------------------------------
\* The breaker

LEMMA NoLosses == LossSum(<<>>) = 0
<1> DEFINE f == [k \in 0..Len(<<>>) |-> 0]
           sum == CHOOSE g : g = [k \in 0..Len(<<>>) |-> IF k = 0 THEN 0 ELSE g[k - 1] + <<>>[k].amount]
<1>1. f = [k \in 0..Len(<<>>) |-> IF k = 0 THEN 0 ELSE f[k - 1] + <<>>[k].amount]
  <2>1. \A k \in 0..Len(<<>>) : k = 0
    OBVIOUS
  <2> QED BY <2>1
<1>2. \E g : g = [k \in 0..Len(<<>>) |-> IF k = 0 THEN 0 ELSE g[k - 1] + <<>>[k].amount]
  <2> HIDE DEF f
  <2> QED BY <1>1
<1>3. sum = [k \in 0..Len(<<>>) |-> IF k = 0 THEN 0 ELSE sum[k - 1] + <<>>[k].amount]
  BY <1>2, Zenon
<1>4. LossSum(<<>>) = sum[Len(<<>>)]
  BY Zenon DEF LossSum
<1> HIDE DEF sum
<1>5. sum[0] = 0
  BY <1>3
<1> QED BY <1>4, <1>5

\* Absorbed losses, operators and restarts: a breaker that is closed has not
\* reached its cap.
THEOREM BreakerAlwaysTrips == RelaySpec => []BreakerTrips
<1> DEFINE Inv == BreakerTrips /\ DOMAIN breaker = {"open", "losses"}
<1>1. RelayInit => Inv
  BY NoLosses DEF RelayInit, BreakerTrips
<1>2. Inv /\ [RelayNext]_relayVars => Inv'
  <2> SUFFICES ASSUME Inv, [RelayNext]_relayVars PROVE Inv'
    OBVIOUS
  <2>1. CASE UNCHANGED breaker
    BY <2>1 DEF BreakerTrips
  <2>2. ASSUME NEW amount, Absorb(amount) PROVE Inv'
    BY <2>2 DEF Absorb, Breached, BreakerTrips
  <2>3. ASSUME breaker' = [open |-> FALSE, losses |-> <<>>] PROVE Inv'
    BY <2>3, NoLosses DEF BreakerTrips
  <2>4. ASSUME openBreaker PROVE Inv'
    BY <2>4 DEF openBreaker, open, BreakerTrips
  <2>5. ASSUME NEW w \in Workers, Step(w) PROVE Inv'
    BY <2>1, <2>2, <2>5
       DEF Step, claimSlot, assertNoInflightRotation, resolveDuplicateSlot, finishRotation, recordFinished, broadcast,
           recordSubmission, resolveThenAct, rebroadcast, recordRebroadcast, confirmWithdraw, confirmExecute,
           confirmRotation, revokeOld, reconcile, recordExecuted, reconcileRotationCost
  <2>6. ASSUME NEW i \in Intents, Start(i) PROVE Inv'
    BY <2>1, <2>6 DEF Start, withdraw, execute, rotate
  <2> QED BY <2>1, <2>3, <2>4, <2>5, <2>6 DEF RelayNext, Restart, closeBreaker, RelayTick, Land, Fail, Drop, relayVars
<1>3. Inv => BreakerTrips
  OBVIOUS
<1> QED BY <1>1, <1>2, <1>3, PTL DEF RelaySpec

----------------------------------------------------------------------------
\* Activation

ActKinds == {"activate", "composite", "spend"}
ActPcs == {"idle", "mark", "bind", "claim", "duplicate", "send", "record", "confirm", "resolve", "resend",
           "fallback", "finish", "execute", "revert"}
RowStatuses == {"none", "inactivated", "insufficient", "activating", "ready", "active"}
PermitStatuses == {"none", "claimed", "submitted", "confirmed", "failed", "resolved-landed", "parked-unreadable"}
SendType == [i: Grants, kind: ActKinds, at: Claimants, state: {"pending", "landed", "failed", "dropped"}]
PermitType == [status: PermitStatuses, hash: Grants \cup {Unsigned}, sig: Nat]
RowType == [status: RowStatuses, claim: Claimants]
ReqType == [pc: ActPcs, i: Grants \cup {Unsigned}, kind: ActKinds, at: Claimants, base: Nat, sig: Nat]

ActTypeOK ==
    /\ net \in {"svm", "evm"}
    /\ row \in RowType
    /\ vault \in [Claimants -> [live: BOOLEAN, nonce: Nat, money: 0..2]]
    /\ sends \in Seq(SendType)
    /\ permits \in [PermitKeys -> PermitType]
    /\ req \in [Servers -> ReqType]

AnyLive == \E k \in Claimants : vault[k].live
AnySpent == \E k \in Claimants : vault[k].nonce > 0

\* A vault that is not there has no nonce; what landed is on chain for good.
ActChainKeeps ==
    /\ \A k \in Claimants : ~vault[k].live => vault[k].nonce = 0
    /\ \A t \in 1..Len(sends) : sends[t].state = "landed" /\ sends[t].kind # "activate" => AnySpent

\* What the row says, and what the poll read, was so on chain.
RowHolds ==
    /\ row.status = "active" => AnyLive
    /\ seen = <<>> \/ \E r \in RowType : seen = << r >> /\ (r.status = "active" => AnyLive)

LandedNames == {"confirmed", "resolved-landed"}
PermitHolds(p) ==
    permits[p].status \in LandedNames =>
        IF p[2] = "activate" THEN permits[p].hash \in Grants /\ vault[Terms[permits[p].hash].key].live
                             ELSE AnySpent

Holding == {"send", "record", "confirm", "resolve", "resend", "fallback", "duplicate"}

\* What a request at each of its awaits can rely on: the slot is its own, an
\* activation is for the vault of its key, the nonce it began with stays a
\* lower bound.
ReqHolds(r) ==
    /\ r.pc \notin {"idle", "revert"} => r.i \in Grants
    /\ r.pc = "finish" => AnyLive
    /\ r.pc \in Holding => permits[PermitOf(r.i, r.kind)].hash = r.i
    /\ r.pc \in Holding \cup {"claim"} /\ r.kind = "activate" => r.at = Terms[r.i].key
    /\ r.pc \in {"mark", "bind"} => r.kind = "activate"
    /\ r.pc \in {"fallback", "duplicate"} => r.kind # "activate"
    /\ r.pc = "fallback" => r.kind = "composite"
    /\ r.kind = "composite" => net = "svm"
    /\ r.kind = "activate" => r.base = 0
    /\ r.base <= vault[r.at].nonce
    /\ r.pc \in {"record", "confirm"} =>
         r.sig \in 1..Len(sends) /\ (sends[r.sig].kind = "activate" <=> r.kind = "activate")

\* The inductive invariant of activation.
ActInv ==
    /\ ActTypeOK /\ ActChainKeeps /\ RowHolds
    /\ \A p \in PermitKeys : PermitHolds(p)
    /\ \A q \in Servers : ReqHolds(req[q])

USE ActivationConstants

LEMMA PermitKeysOf ==
    ASSUME NEW i \in Grants, NEW kind \in ActKinds
    PROVE  /\ PermitOf(i, kind) \in PermitKeys
           /\ PermitOf(i, kind)[2] = "activate" <=> kind = "activate"
           /\ Terms[i].key \in Claimants /\ Terms[i].expiry \in Nat
BY DEF PermitOf, PermitKeys, ActKinds

LEMMA ActInitInv == ActInit => ActInv
<1> SUFFICES ASSUME ActInit PROVE ActInv
  OBVIOUS
<1>1. Resting \in ReqType
  BY DEF Resting, ReqType, ActKinds, ActPcs
<1>2. NoPermit \in PermitType
  BY DEF NoPermit, PermitType, PermitStatuses
<1>3. ActTypeOK
  <2>1. vault \in [Claimants -> [live: BOOLEAN, nonce: Nat, money: 0..2]]
    BY DEF ActInit
  <2> QED BY <1>1, <1>2, <2>1 DEF ActInit, ActTypeOK, RowType, RowStatuses
<1>4. ActChainKeeps /\ RowHolds
  BY DEF ActInit, ActChainKeeps, RowHolds
<1>5. \A p \in PermitKeys : PermitHolds(p)
  BY DEF ActInit, PermitHolds, NoPermit, LandedNames
<1>6. \A q \in Servers : ReqHolds(req[q])
  BY DEF ActInit, ReqHolds, Resting, Holding
<1> QED BY <1>3, <1>4, <1>5, <1>6 DEF ActInv

\* A step that leaves the vaults alone, may append to sends, keeps the hash of
\* every claimed slot, and after which the row, the poll, the slots and the
\* request that took it still hold.
SendsKeep ==
    /\ sends' \in Seq(SendType) /\ Len(sends) <= Len(sends')
    /\ \A t \in 1..Len(sends) : sends'[t].kind = sends[t].kind

SendsGrow ==
    /\ SendsKeep
    /\ \A t \in 1..Len(sends') : sends'[t].state = "landed" =>
         t \in 1..Len(sends) /\ sends[t].state = "landed" /\ sends[t].kind = sends'[t].kind

PermitsGrow ==
    /\ permits' \in [PermitKeys -> PermitType]
    /\ \A p \in PermitKeys : permits[p].hash # Unsigned => permits'[p].hash = permits[p].hash

\* A vault that is there stays, and its nonce only grows.
VaultsGrow ==
    /\ vault' \in [Claimants -> [live: BOOLEAN, nonce: Nat, money: 0..2]]
    /\ \A k \in Claimants : (vault[k].live => vault'[k].live) /\ vault[k].nonce <= vault'[k].nonce

LEMMA VaultsSame ==
    ASSUME ActInv, UNCHANGED vault PROVE VaultsGrow
BY DEF ActInv, ActTypeOK, VaultsGrow

LEMMA ChainGrows ==
    ASSUME ActInv, VaultsGrow PROVE (AnyLive => AnyLive') /\ (AnySpent => AnySpent')
<1>1. AnyLive => AnyLive'
  BY DEF AnyLive, VaultsGrow
<1>2. AnySpent => AnySpent'
  <2> SUFFICES ASSUME AnySpent PROVE AnySpent'
    OBVIOUS
  <2>1. PICK k \in Claimants : vault[k].nonce > 0
    BY DEF AnySpent
  <2>2. vault[k].nonce \in Nat /\ vault'[k].nonce \in Nat /\ vault[k].nonce <= vault'[k].nonce
    BY DEF ActInv, ActTypeOK, VaultsGrow
  <2>3. vault'[k].nonce > 0
    BY <2>1, <2>2
  <2> QED BY <2>3 DEF AnySpent
<1> QED BY <1>1, <1>2

LEMMA ReqGoesOn ==
    ASSUME ActInv, net' = net, VaultsGrow, SendsKeep, PermitsGrow,
           NEW r \in ReqType, ReqHolds(r)
    PROVE  ReqHolds(r)'
<1>1. AnyLive => AnyLive'
  BY ChainGrows
<1>2. r.pc \in Holding => permits'[PermitOf(r.i, r.kind)'].hash = r.i
  <2> SUFFICES ASSUME r.pc \in Holding PROVE permits'[PermitOf(r.i, r.kind)'].hash = r.i
    OBVIOUS
  <2>1. r.i \in Grants /\ r.kind \in ActKinds /\ permits[PermitOf(r.i, r.kind)].hash = r.i
    BY DEF ReqHolds, Holding, ReqType
  <2>2. PermitOf(r.i, r.kind)' = PermitOf(r.i, r.kind)
    BY DEF PermitOf
  <2>3. PermitOf(r.i, r.kind) \in PermitKeys
    BY <2>1, PermitKeysOf
  <2>4. r.i # Unsigned
    BY <2>1
  <2> QED BY <2>1, <2>2, <2>3, <2>4 DEF PermitsGrow
<1>3. r.pc \in {"record", "confirm"} =>
        r.sig \in 1..Len(sends') /\ (sends'[r.sig].kind = "activate" <=> r.kind = "activate")
  BY DEF SendsKeep, ReqHolds, ReqType, ActInv, ActTypeOK
<1>4. r.base <= vault'[r.at].nonce
  <2>1. r.at \in Claimants /\ r.base \in Nat /\ r.base <= vault[r.at].nonce
    BY DEF ReqType, ReqHolds
  <2>2. vault[r.at].nonce \in Nat /\ vault'[r.at].nonce \in Nat /\ vault[r.at].nonce <= vault'[r.at].nonce
    BY <2>1 DEF ActInv, ActTypeOK, VaultsGrow
  <2> QED BY <2>1, <2>2
<1> QED BY <1>1, <1>2, <1>3, <1>4 DEF ReqHolds

LEMMA ActStepKeeps ==
    ASSUME ActInv, NEW q \in Servers, NEW n \in ReqType,
           net' = net, vault' = vault, SendsGrow, PermitsGrow,
           req' = [req EXCEPT ![q] = n], ReqHolds(n)',
           row' \in RowType, RowHolds',
           \A p \in PermitKeys : permits'[p] = permits[p] \/ PermitHolds(p)'
    PROVE  ActInv'
<1>1. AnyLive' = AnyLive /\ AnySpent' = AnySpent
  BY DEF AnyLive, AnySpent
<1>2. ActTypeOK'
  BY DEF ActInv, ActTypeOK, SendsGrow, SendsKeep, PermitsGrow
<1>3. ActChainKeeps'
  BY <1>1 DEF ActInv, ActChainKeeps, SendsGrow
<1>4. \A p \in PermitKeys : PermitHolds(p)'
  BY <1>1 DEF ActInv, PermitHolds
<1>5. \A s \in Servers : ReqHolds(req[s])'
  <2> SUFFICES ASSUME NEW s \in Servers PROVE ReqHolds(req[s])'
    OBVIOUS
  <2>1. CASE s = q
    <3>1. req'[s] = n
      BY <2>1 DEF ActInv, ActTypeOK
    <3>2. ReqHolds(req[s])' <=> ReqHolds(n)'
      BY <3>1 DEF ReqHolds
    <3> QED BY <3>2
  <2>2. CASE s # q
    <3>1. PICK r \in ReqType : r = req[s]
      BY DEF ActInv, ActTypeOK
    <3>2. ReqHolds(r)
      BY <3>1 DEF ActInv
    <3>3. ReqHolds(r)'
      BY <3>2, ReqGoesOn, VaultsSame DEF SendsGrow
    <3>4. req'[s] = r
      BY <3>1, <2>2 DEF ActInv, ActTypeOK
    <3>5. ReqHolds(req[s])' <=> ReqHolds(r)'
      BY <3>4 DEF ReqHolds
    <3> QED BY <3>3, <3>5
  <2> QED BY <2>1, <2>2
<1> QED BY <1>2, <1>3, <1>4, <1>5 DEF ActInv

\* A request moves on to a state in which it can rely on what it should.
MovesOn(q) == \E n \in ReqType : req' = [req EXCEPT ![q] = n] /\ ReqHolds(n)'

\* What a step writes into slots holds.
PermitsOK ==
    /\ PermitsGrow
    /\ \A p \in PermitKeys : permits'[p] = permits[p] \/ PermitHolds(p)'

LEMMA RowSame ==
    ASSUME ActInv, UNCHANGED <<row, vault, seen>> PROVE row' \in RowType /\ RowHolds'
<1>1. AnyLive' <=> AnyLive
  BY DEF AnyLive
<1> QED BY <1>1 DEF ActInv, ActTypeOK, RowHolds

LEMMA SendsSame ==
    ASSUME ActInv, UNCHANGED sends PROVE SendsGrow
BY DEF ActInv, ActTypeOK, SendsGrow, SendsKeep

LEMMA PermitsSame ==
    ASSUME ActInv, UNCHANGED permits PROVE PermitsOK
BY DEF ActInv, ActTypeOK, PermitsGrow, PermitsOK

LEMMA QuietKeeps ==
    ASSUME ActInv, NEW q \in Servers, UNCHANGED <<net, row, vault, seen>>, SendsGrow, PermitsOK, MovesOn(q)
    PROVE  ActInv'
<1>1. PICK n \in ReqType : req' = [req EXCEPT ![q] = n] /\ ReqHolds(n)'
  BY DEF MovesOn
<1> QED BY <1>1, RowSame, ActStepKeeps DEF PermitsOK

LEMMA RestTypes == Resting \in ReqType /\ [Resting EXCEPT !.pc = "revert"] \in ReqType
BY DEF Resting, ReqType, ActKinds, ActPcs

LEMMA ThrowMoves ==
    ASSUME ActInv, NEW q \in Servers, UNCHANGED <<net, vault>>, Throw(q) \/ Rest(q)
    PROVE  MovesOn(q)
<1>1. vault'[Oldest].nonce \in Nat
  BY DEF ActInv, ActTypeOK
<1>2. ReqHolds(Resting)'
  BY <1>1 DEF ReqHolds, Resting, Holding
<1>3. ReqHolds([Resting EXCEPT !.pc = "revert"])'
  BY <1>1 DEF ReqHolds, Resting, Holding
<1>4. CASE Rest(q)
  BY <1>2, <1>4, RestTypes DEF MovesOn, Rest
<1>5. CASE Throw(q)
  <2>1. CASE req[q].kind = "activate"
    <3>1. req' = [req EXCEPT ![q] = [Resting EXCEPT !.pc = "revert"]]
      BY <1>5, <2>1 DEF Throw
    <3> QED BY <1>3, <3>1, RestTypes DEF MovesOn
  <2>2. CASE req[q].kind # "activate"
    <3>1. [Resting EXCEPT !.pc = "idle"] = Resting
      BY DEF Resting
    <3>2. req' = [req EXCEPT ![q] = Resting]
      BY <1>5, <2>2, <3>1 DEF Throw
    <3> QED BY <1>2, <3>2, RestTypes DEF MovesOn
  <2> QED BY <2>1, <2>2
<1> QED BY <1>4, <1>5

LEMMA FinishMoves ==
    ASSUME ActInv, NEW q \in Servers, UNCHANGED <<net, vault>>, req[q].i \in Grants, AnyLive, Only(q, "finish")
    PROVE  MovesOn(q)
<1>1. PICK n \in ReqType : n = [Resting EXCEPT !.pc = "finish", !.i = req[q].i]
  BY DEF Resting, ReqType, ActKinds, ActPcs
<1>2. req' = [req EXCEPT ![q] = n]
  BY <1>1 DEF Only
<1>3. n.pc = "finish" /\ n.i \in Grants /\ n.kind = "activate" /\ n.at = Oldest /\ n.base = 0
  BY <1>1 DEF Resting
<1>4. AnyLive' /\ vault'[Oldest].nonce \in Nat
  BY DEF ActInv, ActTypeOK, AnyLive
<1>5. ReqHolds(n)'
  BY <1>3, <1>4 DEF ReqHolds, Holding
<1> QED BY <1>2, <1>5 DEF MovesOn

\* A request that has its slot goes on to another await, with what it had.
LEMMA HolderMoves ==
    ASSUME ActInv, NEW q \in Servers, UNCHANGED <<net, vault>>, SendsGrow, PermitsGrow,
           req[q].pc \in Holding, NEW pc \in {"send", "resend", "resolve", "confirm", "fallback"},
           pc = "confirm" => req[q].pc \in {"record", "confirm"},
           pc = "fallback" => req[q].kind = "composite",
           To(q, pc)
    PROVE  MovesOn(q)
<1>1. PICK r \in ReqType : r = req[q]
  BY DEF ActInv, ActTypeOK
<1>2. ReqHolds(r)
  BY <1>1 DEF ActInv
<1>3. ReqHolds(r)'
  BY <1>2, ReqGoesOn, VaultsSame DEF SendsGrow
<1>4. PICK n \in ReqType : n = [r EXCEPT !.pc = pc]
  BY DEF ReqType, ActPcs
<1>5. req' = [req EXCEPT ![q] = n]
  BY <1>1, <1>4 DEF To
<1>6. n.pc = pc /\ n.i = r.i /\ n.kind = r.kind /\ n.at = r.at /\ n.base = r.base /\ n.sig = r.sig
  BY <1>4 DEF ReqType
<1>7. r.pc \in Holding /\ (pc = "confirm" => r.pc \in {"record", "confirm"}) /\ (pc = "fallback" => r.kind = "composite")
  BY <1>1
<1>8. ReqHolds(n)'
  BY <1>3, <1>6, <1>7 DEF ReqHolds, Holding
<1> QED BY <1>5, <1>8 DEF MovesOn

\* A slot of a request is recorded under its own hash; as landed only what is.
LEMMA NotedOK ==
    ASSUME ActInv, NEW q \in Servers, UNCHANGED <<net, vault>>, req[q].pc \in Holding,
           NEW status \in PermitStatuses, NEW sig \in Nat,
           status \in LandedNames => IF req[q].kind = "activate" THEN vault[Key(q)].live ELSE AnySpent,
           Noted(q, status, sig)
    PROVE  PermitsOK
<1>1. req[q] \in ReqType /\ ReqHolds(req[q])
  BY DEF ActInv, ActTypeOK
<1>2. req[q].i \in Grants /\ req[q].kind \in ActKinds /\ permits[Permit(q)].hash = req[q].i
  BY <1>1 DEF ReqHolds, Holding, ReqType, Permit
<1>3. Permit(q) \in PermitKeys /\ (Permit(q)[2] = "activate" <=> req[q].kind = "activate")
  BY <1>2, PermitKeysOf DEF Permit
<1>4. PICK p \in PermitKeys : p = Permit(q)
  BY <1>3
<1>6. permits \in [PermitKeys -> PermitType]
  BY DEF ActInv, ActTypeOK
<1> DEFINE noted == [permits[p] EXCEPT !.status = status, !.sig = IF sig = 0 THEN permits[p].sig ELSE sig]
<1>5. permits' = [permits EXCEPT ![p] = noted]
  <2>1. CASE sig = 0
    BY <1>4, <1>6, <2>1 DEF Noted
  <2>2. CASE sig # 0
    BY <1>4, <1>6, <2>2 DEF Noted
  <2> QED BY <2>1, <2>2
<1>7. noted \in PermitType /\ noted.status = status /\ noted.hash = permits[p].hash
  BY <1>6 DEF PermitType
<1> HIDE DEF noted
<1>8. PermitsGrow
  BY <1>5, <1>6, <1>7 DEF PermitsGrow
<1>9. PermitHolds(p)'
  <2>1. permits'[p].status = status /\ permits'[p].hash = req[q].i
    BY <1>2, <1>4, <1>5, <1>6, <1>7
  <2>2. AnySpent' <=> AnySpent
    BY DEF AnySpent
  <2> QED BY <1>2, <1>3, <1>4, <2>1, <2>2 DEF PermitHolds, Key
<1>10. \A o \in PermitKeys : o # p => permits'[o] = permits[o]
  BY <1>5, <1>6
<1> QED BY <1>8, <1>9, <1>10 DEF PermitsOK

LEMMA SubmitGrows ==
    ASSUME ActInv, NEW t \in SendType, t.state = "pending", sends' = Append(sends, t)
    PROVE  /\ SendsGrow
           /\ Len(sends') = Len(sends) + 1 /\ sends'[Len(sends) + 1] = t
<1>1. sends \in Seq(SendType)
  BY DEF ActInv, ActTypeOK
<1>2. sends' \in Seq(SendType) /\ Len(sends') = Len(sends) + 1 /\ sends'[Len(sends) + 1] = t
  BY <1>1
<1>3. \A u \in 1..Len(sends) : sends'[u] = sends[u]
  BY <1>1
<1> QED BY <1>1, <1>2, <1>3 DEF SendsGrow, SendsKeep

LEMMA TxTypes ==
    ASSUME ActInv, NEW q \in Servers, req[q].i \in Grants
    PROVE  Tx(q) \in SendType /\ Tx(q).kind = req[q].kind /\ Tx(q).state = "pending"
<1>1. Key(q) \in Claimants
  BY DEF Key
<1>2. row.claim \in Claimants /\ req[q].at \in Claimants /\ req[q].kind \in ActKinds
  BY DEF ActInv, ActTypeOK, RowType, ReqType
<1>3. Target(q) \in Claimants
  BY <1>1, <1>2 DEF Target
<1> QED BY <1>2, <1>3 DEF Tx, SendType

LEMMA SubmitMoves ==
    ASSUME ActInv, NEW q \in Servers, UNCHANGED <<net, vault>>, PermitsGrow,
           req[q].pc \in Holding, Submit(q), SentAs(q, "record")
    PROVE  MovesOn(q)
<1>1. PICK r \in ReqType : r = req[q]
  BY DEF ActInv, ActTypeOK
<1>2. ReqHolds(r) /\ r.pc \in Holding /\ r.i \in Grants
  BY <1>1 DEF ActInv, ReqHolds, Holding
<1>3. Tx(q) \in SendType /\ Tx(q).kind = r.kind /\ Tx(q).state = "pending"
  BY <1>1, <1>2, TxTypes
<1>4. SendsGrow /\ Len(sends') = Len(sends) + 1 /\ sends'[Len(sends) + 1] = Tx(q)
  BY <1>3, SubmitGrows DEF Submit
<1>5. ReqHolds(r)'
  BY <1>2, <1>4, ReqGoesOn, VaultsSame DEF SendsGrow
<1>6. Len(sends) \in Nat
  BY DEF ActInv, ActTypeOK
<1>7. PICK l \in Nat : l = Len(sends) + 1
  BY <1>6
<1>8. PICK n \in ReqType : n = [r EXCEPT !.pc = "record", !.sig = l]
  BY DEF ReqType, ActPcs
<1>9. req' = [req EXCEPT ![q] = n]
  BY <1>1, <1>7, <1>8 DEF SentAs, ActInv, ActTypeOK
<1>10. n.pc = "record" /\ n.i = r.i /\ n.kind = r.kind /\ n.at = r.at /\ n.base = r.base /\ n.sig = l
  BY <1>8 DEF ReqType
<1>11. l \in 1..Len(sends') /\ (sends'[l].kind = "activate" <=> r.kind = "activate")
  BY <1>3, <1>4, <1>6, <1>7
<1>12. ReqHolds(n)'
  BY <1>2, <1>5, <1>10, <1>11 DEF ReqHolds, Holding
<1> QED BY <1>9, <1>12 DEF MovesOn

\* Steps of the row, its poll and the clock, which no request sees.
LEMMA EnvKeeps ==
    ASSUME ActInv, UNCHANGED <<net, vault, sends, permits, req>>, row' \in RowType, RowHolds'
    PROVE  ActInv'
<1>1. SendsGrow /\ PermitsOK /\ VaultsGrow
  BY SendsSame, PermitsSame, VaultsSame
<1>2. ActTypeOK'
  BY DEF ActInv, ActTypeOK
<1>3. ActChainKeeps'
  BY DEF ActInv, ActChainKeeps, AnySpent
<1>4. \A p \in PermitKeys : PermitHolds(p)'
  BY DEF ActInv, PermitHolds, AnySpent
<1>5. \A s \in Servers : ReqHolds(req[s])'
  <2> SUFFICES ASSUME NEW s \in Servers PROVE ReqHolds(req[s])'
    OBVIOUS
  <2>1. PICK r \in ReqType : r = req[s]
    BY DEF ActInv, ActTypeOK
  <2>2. ReqHolds(r)
    BY <2>1 DEF ActInv
  <2>3. ReqHolds(r)'
    BY <2>2, <1>1, ReqGoesOn DEF SendsGrow, PermitsOK
  <2>4. ReqHolds(req[s])' <=> ReqHolds(r)'
    BY <2>1 DEF ReqHolds
  <2> QED BY <2>3, <2>4
<1> QED BY <1>2, <1>3, <1>4, <1>5 DEF ActInv

LEMMA MakeRowKeeps ==
    ASSUME ActInv, MakeRow PROVE ActInv'
<1>1. row' \in RowType /\ row'.status = "inactivated"
  BY DEF MakeRow, ActInv, ActTypeOK, RowType, RowStatuses
<1>2. AnyLive' <=> AnyLive
  BY DEF MakeRow, AnyLive
<1>3. RowHolds'
  BY <1>1, <1>2 DEF MakeRow, ActInv, RowHolds
<1> QED BY <1>1, <1>3, EnvKeeps DEF MakeRow

LEMMA PollReadKeeps ==
    ASSUME ActInv, pollRead PROVE ActInv'
<1>1. row \in RowType
  BY DEF ActInv, ActTypeOK
<1>2. AnyLive' <=> AnyLive
  BY DEF pollRead, AnyLive
<1>3. RowHolds'
  BY <1>1, <1>2 DEF pollRead, ActInv, RowHolds
<1> QED BY <1>1, <1>3, EnvKeeps DEF pollRead

\* The poll calls a row active only if the chain shows it now, or if it was.
LEMMA PolledTypes ==
    ASSUME ActInv, NEW r \in RowType, r.status = "active" => AnyLive
    PROVE  /\ Polled(r) \in RowStatuses /\ (Polled(r) = "active" => AnyLive)
           /\ PolledEvm(r) \in RowStatuses /\ (PolledEvm(r) = "active" => AnyLive)
<1>1. r.status \in RowStatuses /\ r.claim \in Claimants
  BY DEF RowType
<1>2. deploymentMatches(r.claim) => AnyLive
  BY <1>1 DEF deploymentMatches, AnyLive
<1>3. classify(vault[r.claim].money, r.status) \in RowStatuses \ {"active", "none"}
  BY DEF classify, RowStatuses
<1>4. Polled(r) \in RowStatuses /\ (Polled(r) = "active" => AnyLive)
  BY <1>2, <1>3 DEF Polled, RowStatuses
<1>5. PolledEvm(r) \in RowStatuses /\ (PolledEvm(r) = "active" => AnyLive)
  BY <1>1, <1>2, <1>3 DEF PolledEvm, RowStatuses
<1> QED BY <1>4, <1>5

LEMMA PollWriteKeeps ==
    ASSUME ActInv, pollWrite PROVE ActInv'
<1>1. PICK r \in RowType : seen = << r >> /\ (r.status = "active" => AnyLive)
  BY DEF ActInv, RowHolds, pollWrite
<1>2. seen[1] = r
  BY <1>1
<1>3. PICK s \in RowStatuses : s = IF net = "evm" THEN PolledEvm(r) ELSE Polled(r)
  BY <1>1, PolledTypes
<1>4. s = "active" => AnyLive
  BY <1>1, <1>3, PolledTypes
<1>5. row \in RowType /\ (row.status = "active" => AnyLive)
  BY DEF ActInv, ActTypeOK, RowHolds
<1>6. row' = row \/ row' = [row EXCEPT !.status = s]
  BY <1>2, <1>3 DEF pollWrite
<1>7. row' \in RowType /\ (row'.status = "active" => AnyLive)
  BY <1>4, <1>5, <1>6 DEF RowType
<1>8. AnyLive' <=> AnyLive
  BY DEF pollWrite, AnyLive
<1>9. RowHolds'
  BY <1>7, <1>8 DEF pollWrite, RowHolds
<1> QED BY <1>7, <1>9, EnvKeeps DEF pollWrite

LEMMA ActTickKeeps ==
    ASSUME ActInv, ActTick \/ UNCHANGED actVars PROVE ActInv'
<1>1. UNCHANGED <<net, row, vault, sends, permits, req, seen>>
  BY DEF ActTick, actVars
<1> QED BY <1>1, RowSame, EnvKeeps

LEMMA ActCrashKeeps ==
    ASSUME ActInv, Crash PROVE ActInv'
<1>1. UNCHANGED <<net, row, vault, sends, permits>> /\ req' = [q \in Servers |-> Resting] /\ seen' = <<>>
  BY DEF Crash
<1>2. ActTypeOK'
  BY <1>1, RestTypes DEF ActInv, ActTypeOK
<1>3. ActChainKeeps' /\ RowHolds' /\ \A p \in PermitKeys : PermitHolds(p)'
  BY <1>1 DEF ActInv, ActChainKeeps, RowHolds, PermitHolds, AnySpent, AnyLive
<1>4. \A q \in Servers : ReqHolds(req[q])'
  <2>1. vault'[Oldest].nonce \in Nat
    BY <1>1 DEF ActInv, ActTypeOK
  <2> QED BY <1>1, <2>1 DEF ReqHolds, Resting, Holding
<1> QED BY <1>2, <1>3, <1>4 DEF ActInv

\* Steps of the chains.
LEMMA VaultStepKeeps ==
    ASSUME ActInv, UNCHANGED <<net, row, permits, req, seen>>, VaultsGrow, SendsKeep, ActChainKeeps'
    PROVE  ActInv'
<1>1. (AnyLive => AnyLive') /\ (AnySpent => AnySpent')
  BY ChainGrows
<1>2. ActTypeOK'
  BY DEF ActInv, ActTypeOK, VaultsGrow, SendsKeep
<1>3. RowHolds'
  BY <1>1 DEF ActInv, RowHolds
<1>4. \A p \in PermitKeys : PermitHolds(p)'
  <2> SUFFICES ASSUME NEW p \in PermitKeys PROVE PermitHolds(p)'
    OBVIOUS
  <2>1. PermitHolds(p)
    BY DEF ActInv
  <2>2. permits[p].hash \in Grants => Terms[permits[p].hash].key \in Claimants
    OBVIOUS
  <2> QED BY <1>1, <2>1, <2>2 DEF PermitHolds, VaultsGrow
<1>5. PermitsGrow
  BY DEF ActInv, ActTypeOK, PermitsGrow
<1>6. \A s \in Servers : ReqHolds(req[s])'
  <2> SUFFICES ASSUME NEW s \in Servers PROVE ReqHolds(req[s])'
    OBVIOUS
  <2>1. PICK r \in ReqType : r = req[s]
    BY DEF ActInv, ActTypeOK
  <2>2. ReqHolds(r)
    BY <2>1 DEF ActInv
  <2>3. ReqHolds(r)'
    BY <2>2, <1>5, ReqGoesOn
  <2>4. ReqHolds(req[s])' <=> ReqHolds(r)'
    BY <2>1 DEF ReqHolds
  <2> QED BY <2>3, <2>4
<1> QED BY <1>2, <1>3, <1>4, <1>6 DEF ActInv

LEMMA ActDepositKeeps ==
    ASSUME ActInv, NEW k \in Claimants, Deposit(k) PROVE ActInv'
<1>1. vault \in [Claimants -> [live: BOOLEAN, nonce: Nat, money: 0..2]]
  BY DEF ActInv, ActTypeOK
<1>2. vault' \in [Claimants -> [live: BOOLEAN, nonce: Nat, money: 0..2]]
  BY <1>1 DEF Deposit
<1>3. \A c \in Claimants : vault'[c].live = vault[c].live /\ vault'[c].nonce = vault[c].nonce
  BY <1>1 DEF Deposit
<1>4. VaultsGrow
  BY <1>1, <1>2, <1>3 DEF VaultsGrow
<1>5. AnySpent => AnySpent'
  BY <1>4, ChainGrows
<1>6. ActChainKeeps'
  BY <1>3, <1>5 DEF ActInv, ActChainKeeps, Deposit
<1> QED BY <1>4, <1>6, SendsSame, VaultStepKeeps DEF Deposit, SendsGrow

LEMMA LandActKeeps ==
    ASSUME ActInv, NEW t \in 1..Len(sends), LandAct(t) PROVE ActInv'
<1>1. vault \in [Claimants -> [live: BOOLEAN, nonce: Nat, money: 0..2]] /\ sends \in Seq(SendType)
  BY DEF ActInv, ActTypeOK
<1>2. PICK s \in SendType : s = sends[t]
  BY <1>1
<1>3. s.at \in Claimants /\ s.kind \in ActKinds
  BY <1>2 DEF SendType
<1>4. IF s.kind = "spend" THEN vault[s.at].live /\ vault[s.at].nonce = 0 ELSE ~vault[s.at].live
  BY <1>2 DEF LandAct, AcceptableAct
<1>5. vault[s.at].nonce = 0
  BY <1>3, <1>4 DEF ActInv, ActChainKeeps
<1>6. PICK n \in {0, 1} : n = IF s.kind = "activate" THEN 0 ELSE 1
  OBVIOUS
<1>7. vault' = [vault EXCEPT ![s.at] = [live |-> TRUE, money |-> 1, nonce |-> n]]
  BY <1>2, <1>6 DEF LandAct
<1>8. vault' \in [Claimants -> [live: BOOLEAN, nonce: Nat, money: 0..2]]
  <2>1. [live |-> TRUE, money |-> 1, nonce |-> n] \in [live: BOOLEAN, nonce: Nat, money: 0..2]
    OBVIOUS
  <2> QED BY <1>1, <1>7, <2>1
<1>9. vault'[s.at].live /\ vault'[s.at].nonce = n /\ \A c \in Claimants : c # s.at => vault'[c] = vault[c]
  BY <1>1, <1>3, <1>7
<1>10. VaultsGrow
  <2>1. vault[s.at].nonce <= vault'[s.at].nonce
    BY <1>5, <1>9
  <2>2. \A c \in Claimants : c # s.at => vault[c].nonce <= vault'[c].nonce
    BY <1>1, <1>9
  <2> QED BY <1>8, <1>9, <2>1, <2>2 DEF VaultsGrow
<1>11. sends' = [sends EXCEPT ![t] = [s EXCEPT !.state = "landed"]]
  BY <1>1, <1>2 DEF LandAct
<1>12. [s EXCEPT !.state = "landed"] \in SendType /\ [s EXCEPT !.state = "landed"].kind = s.kind
  BY DEF SendType
<1>13. sends' \in Seq(SendType) /\ Len(sends') = Len(sends) /\ sends'[t].kind = s.kind
         /\ \A u \in 1..Len(sends) : u # t => sends'[u] = sends[u]
  BY <1>1, <1>11, <1>12
<1>14. SendsKeep
  BY <1>1, <1>2, <1>13 DEF SendsKeep
<1>15. s.kind # "activate" => AnySpent'
  BY <1>3, <1>6, <1>9 DEF AnySpent
<1>16. AnySpent => AnySpent'
  BY <1>10, ChainGrows
<1>17. ActChainKeeps'
  BY <1>9, <1>13, <1>15, <1>16 DEF ActInv, ActChainKeeps
<1> QED BY <1>10, <1>14, <1>17, VaultStepKeeps DEF LandAct

LEMMA LoseActKeeps ==
    ASSUME ActInv, NEW t \in 1..Len(sends), LoseAct(t) PROVE ActInv'
<1>1. sends \in Seq(SendType)
  BY DEF ActInv, ActTypeOK
<1>2. PICK s \in SendType : s = sends[t]
  BY <1>1
<1>3. PICK e \in {"failed", "dropped"} : sends' = [sends EXCEPT ![t] = [s EXCEPT !.state = e]]
  BY <1>1, <1>2 DEF LoseAct
<1>4. [s EXCEPT !.state = e] \in SendType /\ [s EXCEPT !.state = e].kind = s.kind /\ [s EXCEPT !.state = e].state = e
  BY DEF SendType
<1>5. sends' \in Seq(SendType) /\ Len(sends') = Len(sends) /\ sends'[t].kind = s.kind /\ sends'[t].state = e
         /\ \A u \in 1..Len(sends) : u # t => sends'[u] = sends[u]
  BY <1>1, <1>3, <1>4
<1>6. SendsKeep
  BY <1>1, <1>2, <1>5 DEF SendsKeep
<1>7. UNCHANGED <<net, row, permits, req, seen, vault>>
  BY DEF LoseAct
<1>8. ActChainKeeps'
  BY <1>5, <1>7 DEF ActInv, ActChainKeeps, AnySpent
<1> QED BY <1>6, <1>7, <1>8, VaultsSame, VaultStepKeeps

\* Requests

LEMMA ActBeginKeeps ==
    ASSUME ActInv, NEW q \in Servers, NEW i \in Grants, Begin(q, i) PROVE ActInv'
<1>1. PICK n \in ReqType : n = [Resting EXCEPT !.pc = "mark", !.i = i]
  BY DEF Resting, ReqType, ActKinds, ActPcs
<1>2. n.pc = "mark" /\ n.i = i /\ n.kind = "activate" /\ n.at = Oldest /\ n.base = 0
  BY <1>1 DEF Resting
<1>3. vault'[Oldest].nonce \in Nat
  BY DEF Begin, ActInv, ActTypeOK
<1>4. ReqHolds(n)'
  BY <1>2, <1>3 DEF ReqHolds, Holding
<1>5. req' = [req EXCEPT ![q] = n]
  BY <1>1 DEF Begin
<1>6. MovesOn(q)
  BY <1>4, <1>5 DEF MovesOn
<1> QED BY <1>6, SendsSame, PermitsSame, QuietKeeps DEF Begin

LEMMA FirstActionKeeps ==
    ASSUME ActInv, NEW q \in Servers, NEW i \in Grants, firstAction(q, i) PROVE ActInv'
<1>1. row.claim \in Claimants
  BY DEF ActInv, ActTypeOK, RowType
<1>2. PICK n \in ReqType :
        n = [Resting EXCEPT !.pc = "claim", !.i = i, !.kind = "composite", !.at = row.claim]
  BY <1>1 DEF Resting, ReqType, ActKinds, ActPcs
<1>3. n.pc = "claim" /\ n.i = i /\ n.kind = "composite" /\ n.at = row.claim /\ n.base = 0
  BY <1>2 DEF Resting
<1>4. vault'[row.claim].nonce \in Nat /\ net' = "svm"
  BY <1>1 DEF firstAction, ActInv, ActTypeOK
<1>5. ReqHolds(n)'
  BY <1>3, <1>4 DEF ReqHolds, Holding
<1>6. req' = [req EXCEPT ![q] = n]
  BY <1>2 DEF firstAction
<1>7. MovesOn(q)
  BY <1>5, <1>6 DEF MovesOn
<1> QED BY <1>7, SendsSame, PermitsSame, QuietKeeps DEF firstAction

\* A step that writes the row and sends nothing.
LEMMA RowStepKeeps ==
    ASSUME ActInv, NEW q \in Servers, UNCHANGED <<net, vault, sends, permits, seen>>, MovesOn(q),
           row' \in RowType, row'.status = "active" => AnyLive
    PROVE  ActInv'
<1>1. AnyLive' <=> AnyLive
  BY DEF AnyLive
<1>2. RowHolds'
  BY <1>1 DEF ActInv, RowHolds
<1>3. PICK n \in ReqType : req' = [req EXCEPT ![q] = n] /\ ReqHolds(n)'
  BY DEF MovesOn
<1> QED BY <1>2, <1>3, SendsSame, PermitsSame, ActStepKeeps DEF PermitsOK

LEMMA MarkKeeps ==
    ASSUME ActInv, NEW q \in Servers, mark(q) PROVE ActInv'
<1>1. PICK r \in ReqType : r = req[q]
  BY DEF ActInv, ActTypeOK
<1>2. ReqHolds(r) /\ r.pc = "mark"
  BY <1>1 DEF ActInv, mark, On
<1>3. PICK n \in ReqType : n = [r EXCEPT !.pc = "bind"]
  BY DEF ReqType, ActPcs
<1>4. n.pc = "bind" /\ n.i = r.i /\ n.kind = r.kind /\ n.at = r.at /\ n.base = r.base
  BY <1>3 DEF ReqType
<1>5. ReqHolds(r)'
  BY <1>2, ReqGoesOn, VaultsSame, SendsSame, PermitsSame DEF mark, SendsGrow, PermitsOK
<1>6. ReqHolds(n)'
  BY <1>2, <1>4, <1>5 DEF ReqHolds, Holding
<1>7. MovesOn(q)
  BY <1>1, <1>3, <1>6 DEF MovesOn, mark, To
<1>8. row' \in RowType /\ row'.status # "active"
  BY DEF mark, ActInv, ActTypeOK, RowType, RowStatuses
<1> QED BY <1>7, <1>8, RowStepKeeps DEF mark

LEMMA BindKeeps ==
    ASSUME ActInv, NEW q \in Servers, bind(q) \/ bindEvm(q) PROVE ActInv'
<1>1. PICK r \in ReqType : r = req[q]
  BY DEF ActInv, ActTypeOK
<1>2. ReqHolds(r) /\ r.pc = "bind" /\ r.i \in Grants /\ r.kind = "activate" /\ r.base = 0
  BY <1>1 DEF ActInv, bind, bindEvm, On, ReqHolds
<1>3. PICK k \in Claimants : k = Key(q)
  BY <1>1, <1>2 DEF Key
<1>4. k = Terms[r.i].key
  BY <1>1, <1>3 DEF Key
<1>5. UNCHANGED <<net, vault, sends, permits, seen>> /\ row' = [row EXCEPT !.claim = k]
  BY <1>3 DEF bind, bindEvm
<1>6. MovesOn(q)
  <2>1. CASE req' = [req EXCEPT ![q].pc = "claim", ![q].at = Key(q)]
    <3>1. PICK n \in ReqType : n = [r EXCEPT !.pc = "claim", !.at = k]
      BY DEF ReqType, ActPcs
    <3>2. n.pc = "claim" /\ n.i = r.i /\ n.kind = "activate" /\ n.at = k /\ n.base = 0
      BY <1>2, <3>1 DEF ReqType
    <3>3. req' = [req EXCEPT ![q] = n]
      BY <1>1, <1>3, <2>1, <3>1 DEF ActInv, ActTypeOK
    <3>4. vault'[k].nonce \in Nat
      BY <1>5 DEF ActInv, ActTypeOK
    <3>5. ReqHolds(n)'
      BY <1>2, <1>4, <3>2, <3>4 DEF ReqHolds, Holding
    <3> QED BY <3>3, <3>5 DEF MovesOn
  <2>2. CASE Throw(q)
    BY <1>5, <2>2, ThrowMoves
  <2> QED BY <2>1, <2>2 DEF bind, bindEvm
<1>7. row' \in RowType /\ (row'.status = "active" => AnyLive)
  BY <1>5 DEF ActInv, ActTypeOK, RowHolds, RowType
<1> QED BY <1>5, <1>6, <1>7, RowStepKeeps

LEMMA RevertKeeps ==
    ASSUME ActInv, NEW q \in Servers, revert(q) PROVE ActInv'
<1>1. MovesOn(q)
  BY ThrowMoves DEF revert
<1>2. row' \in RowType /\ row'.status # "active"
  BY DEF revert, ActInv, ActTypeOK, RowType, RowStatuses
<1> QED BY <1>1, <1>2, RowStepKeeps DEF revert

LEMMA ActFinishKeeps ==
    ASSUME ActInv, NEW q \in Servers, finish(q) PROVE ActInv'
<1>1. PICK r \in ReqType : r = req[q]
  BY DEF ActInv, ActTypeOK
<1>2. ReqHolds(r) /\ r.pc = "finish" /\ r.i \in Grants /\ AnyLive
  BY <1>1 DEF ActInv, finish, On, ReqHolds
<1>3. MovesOn(q)
  <2>1. CASE To(q, "execute")
    <3>1. PICK n \in ReqType : n = [r EXCEPT !.pc = "execute"]
      BY DEF ReqType, ActPcs
    <3>2. n.pc = "execute" /\ n.i = r.i /\ n.kind = r.kind /\ n.at = r.at /\ n.base = r.base
      BY <3>1 DEF ReqType
    <3>3. ReqHolds(r)'
      BY <1>2, ReqGoesOn, VaultsSame, SendsSame, PermitsSame DEF finish, SendsGrow, PermitsOK
    <3>4. ReqHolds(n)'
      BY <1>2, <3>2, <3>3 DEF ReqHolds, Holding
    <3> QED BY <1>1, <2>1, <3>1, <3>4 DEF MovesOn, To
  <2>2. CASE Rest(q)
    BY <2>2, ThrowMoves DEF finish
  <2> QED BY <2>1, <2>2 DEF finish, activateAndExecute
<1>4. row' \in RowType
  BY DEF finish, ActInv, ActTypeOK, RowType, RowStatuses
<1> QED BY <1>2, <1>3, <1>4, RowStepKeeps DEF finish

LEMMA RelayExecuteKeeps ==
    ASSUME ActInv, NEW q \in Servers, relayExecute(q) PROVE ActInv'
<1>1. req[q] \in ReqType /\ req[q].i \in Grants /\ row.claim \in Claimants
  BY DEF ActInv, ActTypeOK, RowType, relayExecute, On, ReqHolds
<1>2. vault[row.claim].nonce \in Nat
  BY <1>1 DEF ActInv, ActTypeOK
<1>3. MovesOn(q)
  <2>1. CASE Rest(q)
    BY <2>1, ThrowMoves DEF relayExecute
  <2>2. CASE ~Rest(q)
    <3>1. PICK n \in ReqType : n = [Resting EXCEPT !.pc = "claim", !.i = req[q].i, !.kind = "spend",
                                     !.at = row.claim, !.base = vault[row.claim].nonce]
      BY <1>1, <1>2 DEF Resting, ReqType, ActKinds, ActPcs
    <3>2. /\ n.pc = "claim" /\ n.i \in Grants /\ n.kind = "spend" /\ n.at = row.claim
          /\ n.base = vault[row.claim].nonce
      BY <1>1, <3>1 DEF Resting
    <3>3. req' = [req EXCEPT ![q] = n]
      BY <2>2, <3>1 DEF relayExecute
    <3>4. n.base <= vault'[n.at].nonce
      BY <1>2, <3>2 DEF relayExecute
    <3>5. ReqHolds(n)'
      BY <3>2, <3>4 DEF ReqHolds, Holding
    <3> QED BY <3>3, <3>5 DEF MovesOn
  <2> QED BY <2>1, <2>2
<1> QED BY <1>3, SendsSame, PermitsSame, QuietKeeps DEF relayExecute

\* What the chain shows is the answer.
LEMMA ViewMoves ==
    ASSUME ActInv, NEW q \in Servers, UNCHANGED <<net, vault>>, req[q].i \in Grants, resolveDeployedView(q)
    PROVE  MovesOn(q)
<1>1. row \in RowType /\ row.claim \in Claimants
  BY DEF ActInv, ActTypeOK, RowType
<1>2. viewOf(row) = "active" => AnyLive
  <2>1. deploymentMatches(row.claim) => AnyLive
    BY <1>1 DEF deploymentMatches, AnyLive
  <2>2. ~deploymentMatches(row.claim) => viewOf(row) # "active"
    BY DEF viewOf, classify
  <2> QED BY <2>1, <2>2
<1> QED BY <1>2, FinishMoves, ThrowMoves DEF resolveDeployedView

LEMMA ClaimerMoves ==
    ASSUME ActInv, NEW q \in Servers, UNCHANGED <<net, vault, sends>>, PermitsGrow, req[q].pc = "claim",
           permits'[Permit(q)].hash = req[q].i, NEW pc \in {"send", "duplicate"},
           pc = "duplicate" => req[q].kind # "activate", To(q, pc)
    PROVE  MovesOn(q)
<1>1. PICK r \in ReqType : r = req[q]
  BY DEF ActInv, ActTypeOK
<1>2. ReqHolds(r) /\ r.pc = "claim" /\ (pc = "duplicate" => r.kind # "activate")
  BY <1>1 DEF ActInv
<1>3. ReqHolds(r)'
  BY <1>2, ReqGoesOn, VaultsSame, SendsSame DEF SendsGrow
<1>4. PICK n \in ReqType : n = [r EXCEPT !.pc = pc]
  BY DEF ReqType, ActPcs
<1>5. req' = [req EXCEPT ![q] = n]
  BY <1>1, <1>4 DEF To
<1>6. n.pc = pc /\ n.i = r.i /\ n.kind = r.kind /\ n.at = r.at /\ n.base = r.base
  BY <1>4 DEF ReqType
<1>7. permits'[PermitOf(r.i, r.kind)'].hash = r.i
  BY <1>1 DEF Permit, PermitOf
<1>8. ReqHolds(n)'
  BY <1>2, <1>3, <1>6, <1>7 DEF ReqHolds, Holding
<1> QED BY <1>5, <1>8 DEF MovesOn

LEMMA ClaimPermitKeeps ==
    ASSUME ActInv, NEW q \in Servers, claimPermit(q) PROVE ActInv'
<1>1. req[q] \in ReqType /\ req[q].i \in Grants /\ req[q].kind \in ActKinds /\ req[q].pc = "claim"
  BY DEF ActInv, ActTypeOK, ReqHolds, claimPermit, On, ReqType
<1>2. PICK p \in PermitKeys : p = Permit(q)
  BY <1>1, PermitKeysOf DEF Permit
<1>3. permits \in [PermitKeys -> PermitType]
  BY DEF ActInv, ActTypeOK
<1>4. CASE permits[p] = NoPermit
  <2>1. /\ permits' = [permits EXCEPT ![p] = [status |-> "claimed", hash |-> req[q].i, sig |-> 0]]
        /\ To(q, "send")
    BY <1>2, <1>4 DEF claimPermit
  <2>2. [status |-> "claimed", hash |-> req[q].i, sig |-> 0] \in PermitType
    BY <1>1 DEF PermitType, PermitStatuses
  <2>3. permits[p].hash = Unsigned
    BY <1>4 DEF NoPermit
  <2>4. PermitsGrow
    BY <1>3, <2>1, <2>2, <2>3 DEF PermitsGrow
  <2>5. permits'[p].status = "claimed" /\ permits'[p].hash = req[q].i
    BY <1>3, <2>1
  <2>6. PermitsOK
    BY <1>3, <2>1, <2>4, <2>5 DEF PermitsOK, PermitHolds, LandedNames
  <2>7. permits'[Permit(q)].hash = req[q].i
    BY <1>2, <2>5
  <2>8. MovesOn(q)
    BY <1>1, <2>1, <2>4, <2>7, ClaimerMoves DEF claimPermit
  <2> QED BY <2>6, <2>8, SendsSame, QuietKeeps DEF claimPermit
<1>5. CASE permits[p] # NoPermit
  <2>1. UNCHANGED <<net, row, vault, sends, seen, permits>>
    BY <1>2, <1>5 DEF claimPermit
  <2>2. PermitsOK
    BY <2>1, PermitsSame
  <2>3. MovesOn(q)
    <3>1. CASE Throw(q) \/ Rest(q)
      BY <2>1, <3>1, ThrowMoves
    <3>2. CASE resolveDeployedView(q)
      BY <1>1, <2>1, <3>2, ViewMoves
    <3>3. CASE \E pc \in {"send", "duplicate"} :
                  To(q, pc) /\ (pc = "duplicate" => req[q].kind # "activate") /\ permits[p].hash = req[q].i
      <4>1. PICK pc \in {"send", "duplicate"} :
                  To(q, pc) /\ (pc = "duplicate" => req[q].kind # "activate") /\ permits[p].hash = req[q].i
        BY <3>3
      <4>2. permits'[Permit(q)].hash = req[q].i
        BY <1>2, <2>1, <4>1
      <4> QED BY <1>1, <2>1, <2>2, <4>1, <4>2, ClaimerMoves DEF PermitsOK
    <3> QED BY <1>2, <1>5, <3>1, <3>2, <3>3 DEF claimPermit, RetryEvm, RetrySvm
  <2> QED BY <2>1, <2>2, <2>3, SendsSame, QuietKeeps
<1> QED BY <1>4, <1>5

\* A request that holds its slot.
LEMMA HolderKnows ==
    ASSUME ActInv, NEW q \in Servers, req[q].pc \in Holding
    PROVE  /\ req[q] \in ReqType /\ req[q].i \in Grants /\ req[q].kind \in ActKinds
           /\ req[q].at \in Claimants /\ vault[req[q].at].nonce \in Nat /\ req[q].base \in Nat
           /\ req[q].base <= vault[req[q].at].nonce
           /\ req[q].kind = "activate" => req[q].at = Key(q)
<1>1. req[q] \in ReqType /\ ReqHolds(req[q])
  BY DEF ActInv, ActTypeOK
<1>2. req[q].at \in Claimants
  BY <1>1 DEF ReqType
<1>3. vault[req[q].at].nonce \in Nat
  BY <1>2 DEF ActInv, ActTypeOK
<1> QED BY <1>1, <1>2, <1>3 DEF ReqType, ReqHolds, Holding, Key

LEMMA ResolveDuplicateKeeps ==
    ASSUME ActInv, NEW q \in Servers, resolveDuplicate(q) PROVE ActInv'
<1>1. req[q].pc = "duplicate" /\ req[q].pc \in Holding
  BY DEF resolveDuplicate, On, Holding
<1>2. req[q].kind # "activate"
  BY <1>1 DEF ActInv, ReqHolds
<1>3. PermitsOK /\ MovesOn(q)
  <2>1. CASE To(q, "send") /\ UNCHANGED permits
    BY <1>1, <2>1, PermitsSame, SendsSame, HolderMoves DEF resolveDuplicate, PermitsOK
  <2>2. CASE Rest(q) /\ UNCHANGED permits
    BY <2>2, PermitsSame, ThrowMoves DEF resolveDuplicate
  <2>3. CASE Rest(q) /\ vault[req[q].at].nonce # 0 /\ Noted(q, "resolved-landed", Len(sends))
    <3>1. AnySpent
      BY <1>1, <2>3, HolderKnows DEF AnySpent
    <3>2. Len(sends) \in Nat /\ "resolved-landed" \in PermitStatuses
      BY DEF ActInv, ActTypeOK, PermitStatuses
    <3>3. PermitsOK
      BY <1>1, <1>2, <2>3, <3>1, <3>2, NotedOK DEF resolveDuplicate
    <3> QED BY <2>3, <3>3, ThrowMoves DEF resolveDuplicate
  <2> QED BY <2>1, <2>2, <2>3 DEF resolveDuplicate
<1> QED BY <1>3, SendsSame, QuietKeeps DEF resolveDuplicate

LEMMA SubmitSends ==
    ASSUME ActInv, NEW q \in Servers, req[q].pc \in Holding, Submit(q) PROVE SendsGrow
BY HolderKnows, TxTypes, SubmitGrows DEF Submit

LEMMA BroadcastActKeeps ==
    ASSUME ActInv, NEW q \in Servers, broadcastAct(q) PROVE ActInv'
<1>1. req[q].pc \in Holding
  BY DEF broadcastAct, On, Holding
<1>2. UNCHANGED <<net, row, vault, permits, seen>>
  BY DEF broadcastAct
<1>3. PermitsOK /\ PermitsGrow
  BY <1>2, PermitsSame DEF PermitsOK
<1>4. SendsGrow
  BY <1>1, SubmitSends, SendsSame DEF broadcastAct
<1>5. MovesOn(q)
  <2>1. CASE Submit(q) /\ SentAs(q, "record")
    BY <1>1, <1>2, <1>3, <2>1, SubmitMoves
  <2>2. CASE Throw(q)
    BY <1>2, <2>2, ThrowMoves
  <2>3. CASE To(q, "resolve")
    BY <1>1, <1>2, <1>3, <1>4, <2>3, HolderMoves
  <2> QED BY <2>1, <2>2, <2>3 DEF broadcastAct
<1> QED BY <1>2, <1>3, <1>4, <1>5, QuietKeeps

LEMMA RecordActKeeps ==
    ASSUME ActInv, NEW q \in Servers, recordAct(q) \/ receiptEvm(q) PROVE ActInv'
<1>1. req[q].pc \in Holding /\ req[q].pc = "record"
  BY DEF recordAct, receiptEvm, On, Holding
<1>2. UNCHANGED <<net, row, vault, sends, seen>>
  BY DEF recordAct, receiptEvm
<1>3. req[q].sig \in Nat /\ "submitted" \in PermitStatuses
  BY DEF ActInv, ActTypeOK, ReqType, PermitStatuses
<1>4. CASE Noted(q, "submitted", req[q].sig) /\ To(q, "confirm")
  <2>1. PermitsOK
    BY <1>1, <1>2, <1>3, <1>4, NotedOK DEF LandedNames
  <2>2. MovesOn(q)
    BY <1>1, <1>2, <1>4, <2>1, SendsSame, HolderMoves DEF PermitsOK
  <2> QED BY <1>2, <2>1, <2>2, SendsSame, QuietKeeps
<1>5. CASE Throw(q) /\ UNCHANGED permits
  BY <1>2, <1>5, ThrowMoves, PermitsSame, SendsSame, QuietKeeps
<1> QED BY <1>4, <1>5 DEF recordAct, receiptEvm

LEMMA ResolveActKeeps ==
    ASSUME ActInv, NEW q \in Servers, resolveAct(q) PROVE ActInv'
<1>1. req[q].pc \in Holding
  BY DEF resolveAct, On, Holding
<1>2. UNCHANGED <<net, row, vault, sends, seen>>
  BY DEF resolveAct
<1>3. {"parked-unreadable", "resolved-landed"} \subseteq PermitStatuses
  BY DEF PermitStatuses
<1>4. CASE Noted(q, "parked-unreadable", 0) /\ Throw(q)
  <2>1. PermitsOK
    BY <1>1, <1>2, <1>3, <1>4, NotedOK DEF LandedNames
  <2> QED BY <1>2, <1>4, <2>1, ThrowMoves, SendsSame, QuietKeeps
<1>5. CASE LandedAct(q) /\ Noted(q, "resolved-landed", 0)
             /\ IF req[q].kind # "activate" THEN Rest(q)
                ELSE IF net = "evm" THEN resolveDeployedView(q) ELSE Only(q, "finish")
  <2>1. req[q].kind = "activate" => vault[Key(q)].live /\ AnyLive
    BY <1>1, <1>5, HolderKnows DEF LandedAct, deploymentMatches, AnyLive
  <2>2. req[q].kind # "activate" => AnySpent
    <3> SUFFICES ASSUME req[q].kind # "activate" PROVE AnySpent
      OBVIOUS
    <3>1. vault[req[q].at].nonce # req[q].base
      BY <1>5 DEF LandedAct
    <3>2. vault[req[q].at].nonce > 0
      BY <1>1, <3>1, HolderKnows
    <3> QED BY <1>1, <3>2, HolderKnows DEF AnySpent
  <2>3. PermitsOK
    BY <1>1, <1>2, <1>3, <1>5, <2>1, <2>2, NotedOK
  <2>4. MovesOn(q)
    BY <1>1, <1>2, <1>5, <2>1, HolderKnows, ThrowMoves, ViewMoves, FinishMoves
  <2> QED BY <1>2, <2>3, <2>4, SendsSame, QuietKeeps
<1>6. CASE To(q, "resend") /\ UNCHANGED permits
  <2>1. MovesOn(q)
    BY <1>1, <1>2, <1>6, SendsSame, PermitsSame, HolderMoves DEF PermitsOK
  <2> QED BY <1>2, <1>6, <2>1, SendsSame, PermitsSame, QuietKeeps
<1> QED BY <1>4, <1>5, <1>6 DEF resolveAct

LEMMA ResendActKeeps ==
    ASSUME ActInv, NEW q \in Servers, resendAct(q) PROVE ActInv'
<1>1. req[q].pc \in Holding
  BY DEF resendAct, On, Holding
<1>2. UNCHANGED <<net, row, vault, permits, seen>>
  BY DEF resendAct
<1>3. PermitsOK /\ PermitsGrow
  BY <1>2, PermitsSame DEF PermitsOK
<1>4. SendsGrow
  BY <1>1, SubmitSends, SendsSame DEF resendAct
<1>5. MovesOn(q)
  <2>1. CASE Submit(q) /\ SentAs(q, "record")
    BY <1>1, <1>2, <1>3, <2>1, SubmitMoves
  <2>2. CASE Throw(q)
    BY <1>2, <2>2, ThrowMoves
  <2>3. CASE TooLarge(q) /\ To(q, "fallback")
    BY <1>1, <1>2, <1>3, <1>4, <2>3, HolderMoves DEF TooLarge
  <2> QED BY <2>1, <2>2, <2>3 DEF resendAct
<1> QED BY <1>2, <1>3, <1>4, <1>5, QuietKeeps

LEMMA FallbackKeeps ==
    ASSUME ActInv, NEW q \in Servers, fallback(q) PROVE ActInv'
<1>1. req[q].pc \in Holding /\ req[q].pc = "fallback"
  BY DEF fallback, On, Holding
<1>2. UNCHANGED <<net, row, vault, permits, seen>>
  BY DEF fallback
<1>3. PermitsOK /\ PermitsGrow
  BY <1>2, PermitsSame DEF PermitsOK
<1>4. CASE Rest(q) /\ UNCHANGED sends
  BY <1>2, <1>3, <1>4, ThrowMoves, SendsSame, QuietKeeps
<1>5. CASE /\ sends' = Append(sends, [Tx(q) EXCEPT !.kind = "activate"])
           /\ req' = [req EXCEPT ![q].pc = "send", ![q].kind = "spend"]
  <2>1. [Tx(q) EXCEPT !.kind = "activate"] \in SendType /\ [Tx(q) EXCEPT !.kind = "activate"].state = "pending"
    BY <1>1, HolderKnows, TxTypes DEF SendType, ActKinds
  <2>2. SendsGrow
    BY <1>5, <2>1, SubmitGrows
  <2>3. PICK r \in ReqType : r = req[q]
    BY DEF ActInv, ActTypeOK
  <2>4. ReqHolds(r) /\ r.pc = "fallback" /\ r.kind = "composite" /\ net = "svm"
    BY <1>1, <2>3 DEF ActInv, ReqHolds
  <2>5. ReqHolds(r)'
    BY <1>2, <1>3, <2>2, <2>4, ReqGoesOn, VaultsSame DEF SendsGrow
  <2>6. PICK n \in ReqType : n = [r EXCEPT !.pc = "send", !.kind = "spend"]
    BY DEF ReqType, ActPcs, ActKinds
  <2>7. n.pc = "send" /\ n.i = r.i /\ n.kind = "spend" /\ n.at = r.at /\ n.base = r.base
    BY <2>6 DEF ReqType
  <2>8. PermitOf(n.i, n.kind)' = PermitOf(r.i, r.kind)'
    BY <1>2, <2>4, <2>7 DEF PermitOf
  <2>9. ReqHolds(n)'
    BY <2>4, <2>5, <2>7, <2>8 DEF ReqHolds, Holding
  <2>10. req' = [req EXCEPT ![q] = n]
    BY <1>5, <2>3, <2>6 DEF ActInv, ActTypeOK
  <2>11. MovesOn(q)
    BY <2>9, <2>10 DEF MovesOn
  <2> QED BY <1>2, <1>3, <2>2, <2>11, QuietKeeps
<1> QED BY <1>4, <1>5 DEF fallback

LEMMA ConfirmKeeps ==
    ASSUME ActInv, NEW q \in Servers, confirmActivation(q) \/ verifyDeployment(q) PROVE ActInv'
<1>1. req[q].pc \in Holding /\ req[q].kind = "activate"
  BY DEF confirmActivation, verifyDeployment, On, Holding
<1>2. UNCHANGED <<net, row, vault, sends, seen>>
  BY DEF confirmActivation, verifyDeployment
<1>3. req[q].sig \in Nat /\ {"submitted", "confirmed", "failed"} \subseteq PermitStatuses
  BY DEF ActInv, ActTypeOK, ReqType, PermitStatuses
<1>4. deploymentMatches(req[q].at) => vault[Key(q)].live /\ AnyLive
  BY <1>1, HolderKnows DEF deploymentMatches, AnyLive
<1>5. MovesOn(q)
  BY <1>1, <1>2, <1>4, HolderKnows, ThrowMoves, FinishMoves DEF confirmActivation, verifyDeployment
<1>6. PermitsOK
  <2>1. CASE UNCHANGED permits
    BY <2>1, PermitsSame
  <2>2. CASE deploymentMatches(req[q].at) /\ Noted(q, "confirmed", req[q].sig)
    BY <1>1, <1>2, <1>3, <1>4, <2>2, NotedOK
  <2>3. CASE Noted(q, "failed", req[q].sig) \/ Noted(q, "submitted", req[q].sig)
    BY <1>1, <1>2, <1>3, <2>3, NotedOK DEF LandedNames
  <2> QED BY <2>1, <2>2, <2>3 DEF confirmActivation, verifyDeployment
<1> QED BY <1>2, <1>5, <1>6, SendsSame, QuietKeeps

LEMMA ConfirmFirstKeeps ==
    ASSUME ActInv, NEW q \in Servers, confirmFirst(q) PROVE ActInv'
<1>1. req[q].pc \in Holding /\ req[q].pc = "confirm" /\ req[q].kind # "activate"
  BY DEF confirmFirst, On, Holding
<1>2. UNCHANGED <<net, row, vault, sends, seen>>
  BY DEF confirmFirst
<1>3. req[q].sig \in 1..Len(sends) /\ sends[req[q].sig].kind # "activate"
  BY <1>1 DEF ActInv, ReqHolds
<1>4. sends[req[q].sig].state = "landed" => AnySpent
  BY <1>3 DEF ActInv, ActChainKeeps
<1>5. req[q].sig \in Nat /\ {"confirmed", "failed"} \subseteq PermitStatuses
  BY DEF ActInv, ActTypeOK, ReqType, PermitStatuses
<1>6. PermitsOK
  <2>1. CASE UNCHANGED permits
    BY <2>1, PermitsSame
  <2>2. CASE sends[req[q].sig].state = "landed" /\ Noted(q, "confirmed", req[q].sig)
    BY <1>1, <1>2, <1>4, <1>5, <2>2, NotedOK
  <2>3. CASE Noted(q, "failed", req[q].sig)
    BY <1>1, <1>2, <1>5, <2>3, NotedOK DEF LandedNames
  <2> QED BY <2>1, <2>2, <2>3 DEF confirmFirst
<1> QED BY <1>2, <1>6, ThrowMoves, SendsSame, QuietKeeps DEF confirmFirst

LEMMA ActNextKeeps == ActInv /\ [ActNext]_actVars => ActInv'
<1> SUFFICES ASSUME ActInv, [ActNext]_actVars PROVE ActInv'
  OBVIOUS
<1>1. CASE ensureAccount \/ ensureEvmRows \/ pollRead \/ pollWrite \/ Crash \/ ActTick \/ UNCHANGED actVars
  BY <1>1, MakeRowKeeps, PollReadKeeps, PollWriteKeeps, ActCrashKeeps, ActTickKeeps DEF ensureAccount, ensureEvmRows
<1>2. CASE \E k \in Claimants : Deposit(k)
  BY <1>2, ActDepositKeeps
<1>3. CASE \E t \in 1..Len(sends) : LandAct(t) \/ LoseAct(t)
  BY <1>3, LandActKeeps, LoseActKeeps
<1>4. ASSUME NEW q \in Servers, NEW i \in Grants, activate(q, i) \/ activateEvm(q, i) \/ firstAction(q, i)
      PROVE  ActInv'
  BY <1>4, ActBeginKeeps, FirstActionKeeps DEF activate, activateEvm
<1>5. ASSUME NEW q \in Servers, StepAct(q) PROVE ActInv'
  BY <1>5, MarkKeeps, BindKeeps, ClaimPermitKeeps, ResolveDuplicateKeeps, BroadcastActKeeps, RecordActKeeps,
     ResolveActKeeps, ResendActKeeps, FallbackKeeps, ConfirmKeeps, ConfirmFirstKeeps, ActFinishKeeps,
     RelayExecuteKeeps, RevertKeeps DEF StepAct
<1> QED BY <1>1, <1>2, <1>3, <1>4, <1>5 DEF ActNext

\* Requests of any number of clients and servers, the poll, lost answers and
\* crashes: what the rows, the slots and the requests hold for done is on chain.
THEOREM ActInvariance == ActSpec => []ActInv
<1> QED BY ActInitInv, ActNextKeeps, PTL DEF ActSpec

\* The API never calls an account active, nor an activation or a first spend
\* done, that the chain does not have.
THEOREM ActiveStaysOnChain == ActSpec => []ActiveIsOnChain
<1>1. ActInv => ActiveIsOnChain
  BY DEF ActInv, RowHolds, PermitHolds, LandedNames, AnyLive, AnySpent, ActiveIsOnChain
<1> QED BY <1>1, ActInvariance, PTL

===============================================================================
