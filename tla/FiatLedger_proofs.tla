-------------------------- MODULE FiatLedger_proofs --------------------------
(***************************************************************************)
(* Proofs about the fiat rail, for every set of identities, requests,      *)
(* intents, deposits and payments: type correctness, no overdraft, and the *)
(* integrity of the hash chain.                                            *)
(***************************************************************************)
EXTENDS FiatLedger, TLAPS

USE DEF NoPid

\* Rounded rates of naturals are naturals.
LEMMA HalfUpType ==
    ASSUME NEW a \in Nat, NEW b \in Nat
    PROVE  HalfUpBps(a, b) \in Nat
<1>1. a * b \in Nat
  OBVIOUS
<1>2. \A n \in Nat : (n + 5000) \div 10000 \in Nat
  OBVIOUS
<1> QED BY <1>1, <1>2 DEF HalfUpBps

\* A service fee is a natural.
LEMMA ServiceFeeType ==
    ASSUME NEW a \in Nat, NEW policy \in FeePolicy
    PROVE  calcServiceFee(a, policy) \in Nat
<1>1. policy.percentBps \in Nat /\ policy.minIdr \in Nat /\ policy.maxIdr \in Nat
  BY DEF FeePolicy
<1>2. HalfUpBps(a, policy.percentBps) \in Nat
  BY <1>1, HalfUpType
<1> QED BY <1>1, <1>2 DEF calcServiceFee

\* The three amounts of a fee quote are naturals.
LEMMA QuoteType ==
    ASSUME NEW a \in Nat, NEW policy \in FeePolicy, NEW verified \in BOOLEAN,
           NEW appPolicy \in FeePolicy
    PROVE  quoteFees(a, policy, verified, appPolicy) \in [fee: Nat, tax: Nat, appFee: Nat]
<1> DEFINE fee == IF verified THEN 0 ELSE calcServiceFee(a, policy)
<1>1. fee \in Nat
  BY ServiceFeeType
<1>2. calcTaxAmount(fee, policy.taxBps) \in Nat
  <2>1. policy.taxBps \in Nat
    BY DEF FeePolicy
  <2> QED BY <1>1, <2>1, HalfUpType DEF calcTaxAmount
<1>3. appFeeFor(appPolicy, a) \in Nat
  BY ServiceFeeType DEF appFeeFor
<1> QED BY <1>1, <1>2, <1>3 DEF quoteFees

\* The legs of a posting have their types.
LEMMA LegsType ==
    ASSUME NEW po \in PostingType, po.group \in Groups
    PROVE  Legs(po) \in Seq(LegType)
<1>1. ASSUME NEW name \in LegNames, NEW kind \in Kinds, NEW pid \in Pids \cup {NoPid},
             NEW amount \in Nat, NEW dir \in {"in", "out"}
      PROVE  Leg(po, name, kind, pid, amount, dir) \in LegType
  <2>1. <<po.group, name>> \in KeyType
    BY DEF KeyType
  <2> QED BY <2>1 DEF Leg, LegType
<1>2. /\ po.from \in Pids \cup {NoPid} /\ po.to \in Pids \cup {NoPid}
      /\ po.owner \in Pids \cup {NoPid} /\ po.kind \in PostingKinds
      /\ po.gross \in Nat /\ po.net \in Nat /\ po.fee \in Nat /\ po.tax \in Nat
      /\ po.appFee \in Nat
  BY DEF PostingType
<1>3. FeePid(po) \in Pids \cup {NoPid}
  BY <1>2 DEF FeePid
<1>4. OutKind(po) \in Kinds
  BY DEF OutKind, Kinds
<1>5. InKind(po) \in Kinds
  BY <1>2 DEF InKind, Kinds, PostingKinds
<1>6. {"fiat_fee", "fiat_tax", "fiat_app_fee"} \subseteq Kinds
  BY DEF Kinds
<1>7. /\ Leg(po, "OUT", OutKind(po), po.from, po.gross, "out") \in LegType
      /\ Leg(po, "IN", InKind(po), po.to, po.net, "in") \in LegType
      /\ Leg(po, "FEE", "fiat_fee", FeePid(po), po.fee, "out") \in LegType
      /\ Leg(po, "TAX", "fiat_tax", FeePid(po), po.tax, "out") \in LegType
      /\ Leg(po, "APPFEE", "fiat_app_fee", po.owner, po.appFee, "in") \in LegType
  <2>1. LegNames = {"OUT", "IN", "FEE", "TAX", "APPFEE"}
    BY DEF LegNames
  <2> QED BY <1>1, <1>2, <1>3, <1>4, <1>5, <1>6, <2>1
<1>8. \A c, leg : leg \in LegType => When(c, leg) \in Seq(LegType)
  BY DEF When
<1>9. \A s, t \in Seq(LegType) : s \o t \in Seq(LegType)
  OBVIOUS
<1>10. <<Leg(po, "IN", InKind(po), po.to, po.net, "in")>> \in Seq(LegType)
  BY <1>7
<1> QED BY <1>7, <1>8, <1>9, <1>10 DEF Legs

\* Chained rows are rows.
LEMMA ChainedType ==
    ASSUME NEW po \in PostingType, po.group \in Groups, NEW h \in HeadType
    PROVE  Chained(Legs(po), h) \in SUBSET RowType
<1>1. Legs(po) \in Seq(LegType)
  BY LegsType
<1>2. SUFFICES ASSUME NEW legs \in Seq(LegType), NEW k \in 1..Len(legs)
               PROVE  [key |-> legs[k].key, kind |-> legs[k].kind,
                       pid |-> legs[k].pid, amount |-> legs[k].amount,
                       dir |-> legs[k].dir, seq |-> h.seq + k,
                       prev |-> IF k = 1 THEN h.key ELSE legs[k - 1].key] \in RowType
  BY <1>1 DEF Chained
<1>3. legs[k] \in LegType
  OBVIOUS
<1>4. ASSUME k # 1 PROVE legs[k - 1] \in LegType
  <2>1. k - 1 \in 1..Len(legs)
    BY <1>4
  <2> QED BY <2>1
<1>5. h.seq \in Nat /\ h.key \in KeyType
  BY DEF HeadType
<1>6. (IF k = 1 THEN h.key ELSE legs[k - 1].key) \in KeyType
  BY <1>4, <1>5 DEF LegType
<1>7. h.seq + k \in Nat
  BY <1>5
<1> QED BY <1>3, <1>6, <1>7 DEF RowType, LegType

---------------------------------------------------------------------------
\* The steps on the journal

\* An idle request satisfies what the invariant asks of requests.
LEMMA IdleTxOK ==
    /\ IdleTx \in TxType
    /\ \A r \in Reqs : tx[r] = IdleTx => RequestOK(r)
<1>0. 0 \notin Pids
  BY JournalAssumption
<1>1. NoPosting \in PostingType
  BY DEF NoPosting, PostingType, PostingKinds
<1>2. NoHead \in HeadType
  BY DEF NoHead, HeadType, KeyType
<1>3. IdleTx \in TxType
  BY <1>1, <1>2 DEF IdleTx, TxType, Ops, Pcs, Answers
<1>4. ASSUME NEW r \in Reqs, tx[r] = IdleTx PROVE RequestOK(r)
  <2>1. Subject(r)
    BY <1>4 DEF Subject, IdleTx
  <2>2. LocksToTake(r)
    BY <1>4 DEF LocksToTake, IdleTx
  <2>3. PayerLocked(r) /\ FundsHeld(r)
    BY <1>0, <1>4 DEF PayerLocked, FundsHeld, IdleTx, NoPosting
  <2>4. HeadHeld(r)
    BY <1>4 DEF HeadHeld, IdleTx, At
  <2> QED BY <2>1, <2>2, <2>3, <2>4 DEF RequestOK
<1> QED BY <1>3, <1>4

\* A step of request r that writes no row, and touches no lock another
\* request holds, preserves Core if r itself ends up right.
LEMMA RequestMoves ==
    ASSUME Core, NEW r \in Reqs,
           journal' = journal, bal' = bal,
           tx' \in [Reqs -> TxType],
           \A s \in Reqs \ {r} : tx'[s] = tx[s],
           lock' \in [Locks -> Reqs \cup {NoReq}],
           \A x \in Locks : lock'[x] = lock[x] \/ lock[x] \in {NoReq, r},
           RequestOK(r)'
    PROVE  Core'
<1>1. CoreTypes'
  BY DEF Core, CoreTypes
<1>2. NoOverdraft' /\ ChainIntact' /\ ChainEnds'
  BY DEF Core, NoOverdraft, ChainIntact, ChainEnds
<1>3. ASSUME NEW s \in Reqs \ {r} PROVE RequestOK(s)'
  <2>1. RequestOK(s) /\ tx'[s] = tx[s] /\ tx[s] \in TxType /\ s # NoReq
    BY JournalAssumption DEF Core, CoreTypes
  <2>2. \A x \in Locks : lock[x] = s => lock'[x] = s
    BY <2>1
  <2>3. Subject(s)'
    BY <2>1 DEF RequestOK, Subject
  <2>4. LocksToTake(s)'
    BY <2>1 DEF RequestOK, LocksToTake
  <2>5. PayerLocked(s)'
    BY <2>1, <2>2 DEF RequestOK, PayerLocked, Locks
  <2>6. FundsHeld(s)'
    BY <2>1 DEF RequestOK, FundsHeld
  <2>7. HeadHeld(s)'
    BY <2>1, <2>2 DEF RequestOK, HeadHeld, At, IsHead, Locks
  <2> QED BY <2>3, <2>4, <2>5, <2>6, <2>7 DEF RequestOK
<1> QED BY <1>1, <1>2, <1>3 DEF Core

\* A request that ends without writing rows preserves Core.
LEMMA RequestEnds ==
    ASSUME Core, NEW r \in Reqs, End(r), journal' = journal, bal' = bal
    PROVE  Core'
<1>1. tx \in [Reqs -> TxType] /\ lock \in [Locks -> Reqs \cup {NoReq}]
  BY DEF Core, CoreTypes
<1>2. tx' = [tx EXCEPT ![r] = IdleTx]
  BY DEF End
<1>3. lock' = [x \in Locks |-> IF lock[x] = r THEN NoReq ELSE lock[x]]
  BY DEF End, Release
<1>4. tx' \in [Reqs -> TxType] /\ tx'[r] = IdleTx /\ \A s \in Reqs \ {r} : tx'[s] = tx[s]
  BY <1>1, <1>2, IdleTxOK
<1>5. RequestOK(r)'
  <2>0. 0 \notin Pids
    BY JournalAssumption
  <2>1. Subject(r)'
    BY <1>4 DEF Subject, IdleTx
  <2>2. LocksToTake(r)'
    BY <1>4 DEF LocksToTake, IdleTx
  <2>3. PayerLocked(r)' /\ FundsHeld(r)'
    BY <2>0, <1>4 DEF PayerLocked, FundsHeld, IdleTx, NoPosting
  <2>4. HeadHeld(r)'
    BY <1>4 DEF HeadHeld, IdleTx, At
  <2> QED BY <2>1, <2>2, <2>3, <2>4 DEF RequestOK
<1>6. lock' \in [Locks -> Reqs \cup {NoReq}]
  BY <1>1, <1>3
<1>7. \A x \in Locks : lock'[x] = lock[x] \/ lock[x] \in {NoReq, r}
  BY <1>3
<1> QED BY <1>4, <1>5, <1>6, <1>7, RequestMoves

\* Appending after the head keeps the chain intact and ended.
LEMMA AppendKeepsChain ==
    ASSUME Core, NEW legs \in Seq(LegType), NEW h \in HeadType, IsHead(h),
           journal' = journal \cup Chained(legs, h)
    PROVE  ChainIntact' /\ ChainEnds'
<1> DEFINE Row(k) == [key |-> legs[k].key, kind |-> legs[k].kind, pid |-> legs[k].pid,
                      amount |-> legs[k].amount, dir |-> legs[k].dir, seq |-> h.seq + k,
                      prev |-> IF k = 1 THEN h.key ELSE legs[k - 1].key]
<1> DEFINE n == Len(legs)
<1>1. Chained(legs, h) = {Row(k) : k \in 1..n}
  BY DEF Chained
<1>2. \A k \in 1..n : Row(k).seq = h.seq + k /\ Row(k).key = legs[k].key
  OBVIOUS
<1>3. \A k \in 1..n : Row(k).prev = IF k = 1 THEN h.key ELSE legs[k - 1].key
  OBVIOUS
<1>4. n \in Nat /\ h.seq \in Nat
  BY DEF HeadType
<1>5. \A row \in journal : row.seq \in Nat /\ row.seq <= h.seq /\ row.seq >= 1
  BY DEF Core, CoreTypes, RowType, IsHead, ChainEnds
<1> HIDE DEF Row, n
<1>6. \A row \in journal' : row \in journal \/ \E k \in 1..n : row = Row(k)
  BY <1>1
<1>7. \A k \in 1..n : Row(k) \in journal'
  BY <1>1
<1>8. \A a, b \in journal' : a.seq = b.seq => a = b
  <2> SUFFICES ASSUME NEW a \in journal', NEW b \in journal', a.seq = b.seq PROVE a = b
    OBVIOUS
  <2>1. CASE a \in journal /\ b \in journal
    BY <2>1 DEF Core, ChainIntact
  <2>2. CASE a \in journal /\ b \notin journal
    BY <2>2, <1>2, <1>4, <1>5, <1>6
  <2>3. CASE a \notin journal /\ b \in journal
    BY <2>3, <1>2, <1>4, <1>5, <1>6
  <2>4. CASE a \notin journal /\ b \notin journal
    <3>1. PICK k \in 1..n : a = Row(k)
      BY <2>4, <1>6
    <3>2. PICK j \in 1..n : b = Row(j)
      BY <2>4, <1>6
    <3>3. k = j
      BY <3>1, <3>2, <1>2, <1>4
    <3> QED BY <3>1, <3>2, <3>3
  <2> QED BY <2>1, <2>2, <2>3, <2>4
<1>9. ASSUME NEW row \in journal'
      PROVE  \/ row.seq = 1 /\ row.prev = Genesis
             \/ \E before \in journal' : before.seq = row.seq - 1 /\ before.key = row.prev
  <2>1. CASE row \in journal
    BY <2>1 DEF Core, ChainIntact
  <2>2. CASE \E k \in 1..n : row = Row(k)
    <3>1. PICK k \in 1..n : row = Row(k)
      BY <2>2
    <3>2. CASE k = 1
      <4>1. row.seq = h.seq + 1 /\ row.prev = h.key
        BY <3>1, <3>2, <1>2, <1>3
      <4>2. CASE h.seq = 0 /\ h.key = Genesis
        BY <4>1, <4>2
      <4>3. CASE \E old \in journal : old.seq = h.seq /\ old.key = h.key
        BY <4>1, <4>3, <1>4
      <4> QED BY <4>2, <4>3 DEF IsHead
    <3>3. CASE k # 1
      <4>1. k - 1 \in 1..n
        BY <3>3, <1>4
      <4>2. Row(k - 1).seq = h.seq + (k - 1) /\ Row(k - 1).key = legs[k - 1].key
        BY <4>1, <1>2
      <4>3. row.seq = h.seq + k /\ row.prev = legs[k - 1].key
        BY <3>1, <3>3, <1>2, <1>3
      <4>4. Row(k - 1).seq = row.seq - 1
        BY <4>2, <4>3, <1>4
      <4> QED BY <4>1, <4>2, <4>3, <4>4, <1>7
    <3> QED BY <3>2, <3>3
  <2> QED BY <2>1, <2>2, <1>6
<1>10. \A row \in journal' : row.seq >= 1
  BY <1>2, <1>4, <1>5, <1>6
<1>11. ASSUME journal' # {}
       PROVE  \E last \in journal' : \A row \in journal' : row.seq <= last.seq
  <2>1. CASE n = 0
    <3>1. journal' = journal
      BY <2>1, <1>6
    <3> QED BY <3>1, <1>11 DEF Core, ChainEnds
  <2>2. CASE n # 0
    <3>1. n \in 1..n
      BY <2>2, <1>4
    <3>2. Row(n) \in journal' /\ Row(n).seq = h.seq + n
      BY <3>1, <1>2, <1>7
    <3>3. \A row \in journal' : row.seq <= h.seq + n
      BY <1>2, <1>4, <1>5, <1>6
    <3> QED BY <3>2, <3>3
  <2> QED BY <2>1, <2>2
<1> QED BY <1>8, <1>9, <1>10, <1>11 DEF ChainIntact, ChainEnds

\* The commit of a posting preserves Core.
LEMMA PostKeepsCore ==
    ASSUME Core, NEW r \in Reqs, NEW events, PostLegs(r, events)
    PROVE  Core'
<1> DEFINE t == tx[r]
<1> DEFINE po == tx[r].po
<1>1. /\ tx \in [Reqs -> TxType] /\ lock \in [Locks -> Reqs \cup {NoReq}]
      /\ bal \in [Pids -> Int] /\ journal \in SUBSET RowType
  BY DEF Core, CoreTypes
<1>2. RequestOK(r) /\ t \in TxType /\ t.pc = "append"
  BY <1>1 DEF Core, PostLegs, At
<1>3. po \in PostingType /\ t.head \in HeadType /\ po.group \in Groups
  BY <1>2 DEF TxType, RequestOK, Subject
<1>4. lock[ChainLock] = r /\ IsHead(t.head)
  BY <1>2 DEF RequestOK, HeadHeld, At
<1>5. po.gross \in Nat /\ po.net \in Nat /\ po.appFee \in Nat
  BY <1>3 DEF PostingType
<1>6. po.from \in Pids => lock[po.from] = r /\ bal[po.from] >= po.gross
  BY <1>2 DEF RequestOK, PayerLocked, FundsHeld
<1>7. /\ journal' = journal \cup Chained(Legs(po), t.head)
      /\ bal' = [p \in Pids |-> bal[p] + Delta(po, p)]
      /\ End(r)
  BY DEF PostLegs
<1>8. Legs(po) \in Seq(LegType)
  BY <1>3, LegsType
<1>9. ChainIntact' /\ ChainEnds'
  BY <1>3, <1>4, <1>7, <1>8, AppendKeepsChain
<1>10. journal' \in SUBSET RowType
  BY <1>1, <1>3, <1>7, ChainedType
<1>11. \A p \in Pids : Delta(po, p) \in Int /\ (p # po.from => Delta(po, p) >= 0)
  BY <1>5 DEF Delta
<1>12. \A p \in Pids : p = po.from => Delta(po, p) >= -po.gross
  BY <1>5 DEF Delta
<1>13. bal' \in [Pids -> Int] /\ \A p \in Pids : bal'[p] = bal[p] + Delta(po, p)
  BY <1>1, <1>7, <1>11
<1>14. NoOverdraft'
  <2> SUFFICES ASSUME NEW p \in Pids PROVE bal'[p] >= 0
    BY DEF NoOverdraft
  <2>1. bal[p] \in Int /\ bal[p] >= 0
    BY <1>1 DEF Core, NoOverdraft
  <2>2. CASE p = po.from
    BY <2>1, <2>2, <1>5, <1>6, <1>11, <1>12, <1>13
  <2>3. CASE p # po.from
    BY <2>1, <2>3, <1>11, <1>13
  <2> QED BY <2>2, <2>3
<1>15. tx' = [tx EXCEPT ![r] = IdleTx]
  BY <1>7 DEF End
<1>16. lock' = [x \in Locks |-> IF lock[x] = r THEN NoReq ELSE lock[x]]
  BY <1>7 DEF End, Release
<1>17. tx' \in [Reqs -> TxType] /\ tx'[r] = IdleTx /\ \A s \in Reqs \ {r} : tx'[s] = tx[s]
  BY <1>1, <1>15, IdleTxOK
<1>18. lock' \in [Locks -> Reqs \cup {NoReq}]
  BY <1>1, <1>16
<1>19. RequestOK(r)'
  <2>0. 0 \notin Pids
    BY JournalAssumption
  <2>1. Subject(r)'
    BY <1>17 DEF Subject, IdleTx
  <2>2. LocksToTake(r)'
    BY <1>17 DEF LocksToTake, IdleTx
  <2>3. PayerLocked(r)' /\ FundsHeld(r)'
    BY <2>0, <1>17 DEF PayerLocked, FundsHeld, IdleTx, NoPosting
  <2>4. HeadHeld(r)'
    BY <1>17 DEF HeadHeld, IdleTx, At
  <2> QED BY <2>1, <2>2, <2>3, <2>4 DEF RequestOK
<1>20. ASSUME NEW s \in Reqs \ {r} PROVE RequestOK(s)'
  <2>1. RequestOK(s) /\ tx'[s] = tx[s] /\ tx[s] \in TxType /\ s # NoReq
    BY <1>1, <1>17, JournalAssumption DEF Core
  <2>2. \A x \in Locks : lock[x] = s => lock'[x] = s
    BY <1>16
  <2>3. Subject(s)'
    BY <2>1 DEF RequestOK, Subject
  <2>4. LocksToTake(s)'
    BY <2>1 DEF RequestOK, LocksToTake
  <2>5. PayerLocked(s)'
    BY <2>1, <2>2 DEF RequestOK, PayerLocked, Locks
  <2>6. FundsHeld(s)'
    <3> DEFINE f == tx[s].po.from
    <3>1. SUFFICES ASSUME f \in Pids, tx[s].pc \in {"chain", "append"}
                   PROVE  bal'[f] >= tx[s].po.gross
      BY <2>1 DEF FundsHeld
    <3>2. lock[f] = s /\ bal[f] >= tx[s].po.gross
      BY <2>1, <3>1 DEF RequestOK, PayerLocked, FundsHeld
    <3>3. f # po.from
      BY <3>1, <3>2, <1>6
    <3>4. bal[f] \in Int /\ tx[s].po.gross \in Int
      BY <1>1, <2>1, <3>1 DEF TxType, PostingType
    <3>5. bal'[f] = bal[f] + Delta(po, f) /\ Delta(po, f) >= 0 /\ Delta(po, f) \in Int
      BY <3>1, <3>3, <1>11, <1>13
    <3> QED BY <3>2, <3>4, <3>5
  <2>7. HeadHeld(s)'
    BY <2>1, <1>4 DEF RequestOK, HeadHeld, At
  <2> QED BY <2>3, <2>4, <2>5, <2>6, <2>7 DEF RequestOK
<1> QED BY <1>9, <1>10, <1>13, <1>14, <1>17, <1>18, <1>19, <1>20 DEF Core, CoreTypes

Refs == Intents \cup Adjusts \cup Deposits \cup Credits \cup Payments \cup {NoRef}

\* The start of a request preserves Core if its locals are right.
LEMMA BeginKeepsCore ==
    ASSUME Core, NEW r \in Reqs, NEW op \in Ops, NEW ref \in Refs, NEW po \in PostingType,
           NEW need \in SUBSET Pids, NEW pc \in Pcs, Begin(r, op, ref, po, need, pc),
           pc \notin {"chain", "append"},
           op \in {"sync", "cancelpay"} => pc # "pay",
           op = "confirm" => po.group \in Intents,
           op = "adjust"  => po.group \in Adjusts,
           op = "issue"   => po.group \in Deposits,
           op = "mint"    => po.group \in Credits,
           op = "refund"  => ref \in Payments /\ po.group \in Payments \X RefundIds,
           op \in {"create", "sync", "cancelpay"} => ref \in Payments,
           need = {} \/ \E a, b \in Pids : need \subseteq {a, b},
           pc \in {"lock", "pay"} => need # {},
           po.from \in Pids => /\ op \in {"confirm", "adjust", "refund"}
                               /\ pc \in {"lock", "pay"} /\ po.from \in need
    PROVE  Core'
<1> DEFINE t == [IdleTx EXCEPT !.op = op, !.ref = ref, !.po = po, !.need = need, !.pc = pc]
<1>1. tx \in [Reqs -> TxType] /\ lock \in [Locks -> Reqs \cup {NoReq}]
  BY DEF Core, CoreTypes
<1>2. tx' = [tx EXCEPT ![r] = t] /\ UNCHANGED <<journal, bal, lock>>
  BY DEF Begin
<1>3. t \in TxType
  BY IdleTxOK DEF TxType, Refs
<1>4. /\ t.op = op /\ t.ref = ref /\ t.po = po /\ t.need = need /\ t.pc = pc
  BY IdleTxOK DEF TxType
<1> HIDE DEF t
<1>5. tx' \in [Reqs -> TxType] /\ tx'[r] = t /\ \A s \in Reqs \ {r} : tx'[s] = tx[s]
  BY <1>1, <1>2, <1>3
<1>6. Subject(r)'
  BY <1>4, <1>5 DEF Subject
<1>7. LocksToTake(r)'
  BY <1>4, <1>5 DEF LocksToTake
<1>8. PayerLocked(r)' /\ FundsHeld(r)' /\ HeadHeld(r)'
  BY <1>4, <1>5 DEF PayerLocked, FundsHeld, HeadHeld, At
<1>9. RequestOK(r)'
  BY <1>6, <1>7, <1>8 DEF RequestOK
<1> QED BY <1>1, <1>2, <1>5, <1>9, RequestMoves

\* A request that passed its check goes on to the chain.
LEMMA CheckedKeepsCore ==
    ASSUME Core, NEW r \in Reqs, tx[r].pc \in {"check", "corroborate"},
           tx[r].op \in {"confirm", "adjust", "issue", "refund", "mint"},
           Goto(r, "chain"), UNCHANGED <<journal, bal, lock>>,
           tx[r].po.from \in Pids => HasFunds(tx[r].po.from, tx[r].po.gross)
    PROVE  Core'
<1> DEFINE t == [tx[r] EXCEPT !.pc = "chain"]
<1>1. tx \in [Reqs -> TxType] /\ lock \in [Locks -> Reqs \cup {NoReq}]
  BY DEF Core, CoreTypes
<1>2. tx' = [tx EXCEPT ![r] = t] /\ RequestOK(r) /\ tx[r] \in TxType
  BY <1>1 DEF Goto, Core
<1>3. t \in TxType /\ t.op = tx[r].op /\ t.ref = tx[r].ref /\ t.po = tx[r].po
      /\ t.need = tx[r].need /\ t.pc = "chain"
  BY <1>2 DEF TxType, Pcs
<1> HIDE DEF t
<1>4. tx' \in [Reqs -> TxType] /\ tx'[r] = t /\ \A s \in Reqs \ {r} : tx'[s] = tx[s]
  BY <1>1, <1>2, <1>3
<1>5. Subject(r)'
  <2>1. t.po.group \in Groups
    BY <1>2, <1>3 DEF RequestOK, Subject, Groups
  <2> QED BY <2>1, <1>2, <1>3, <1>4 DEF RequestOK, Subject
<1>6. LocksToTake(r)'
  BY <1>2, <1>3, <1>4 DEF RequestOK, LocksToTake
<1>7. PayerLocked(r)' /\ FundsHeld(r)'
  BY <1>2, <1>3, <1>4 DEF RequestOK, PayerLocked, FundsHeld, HasFunds, PostedBalance
<1>8. HeadHeld(r)'
  BY <1>3, <1>4 DEF HeadHeld, At
<1>9. RequestOK(r)'
  BY <1>5, <1>6, <1>7, <1>8 DEF RequestOK
<1> QED BY <1>1, <1>4, <1>9, RequestMoves

\* lockAccounts takes the least row left: there is one.
LEMMA NextToLockIsNeeded ==
    ASSUME NEW need \in SUBSET Pids, need # {},
           NEW a \in Pids, NEW b \in Pids, need \subseteq {a, b}
    PROVE  NextToLock(need) \in need
<1>1. a \in Int /\ b \in Int
  BY JournalAssumption
<1>2. \E p \in need : \A q \in need : p <= q
  <2>1. CASE a \in need /\ (b \notin need \/ a <= b)
    BY <1>1, <2>1
  <2>2. CASE b \in need /\ (a \notin need \/ b <= a)
    BY <1>1, <2>2
  <2>3. a \in need \/ b \in need
    OBVIOUS
  <2>4. a <= b \/ b <= a
    BY <1>1
  <2> QED BY <2>1, <2>2, <2>3, <2>4
<1> QED BY <1>2 DEF NextToLock

\* One row lock of lockAccounts preserves Core.
LEMMA LockAccountKeepsCore ==
    ASSUME Core, NEW r \in Reqs, LockAccount(r)
    PROVE  Core'
<1> DEFINE p == NextToLock(tx[r].need)
<1> DEFINE t == [tx[r] EXCEPT !.need = @ \ {p},
                              !.pc = IF tx[r].need = {p} THEN "check" ELSE "lock"]
<1>1. tx \in [Reqs -> TxType] /\ lock \in [Locks -> Reqs \cup {NoReq}]
  BY DEF Core, CoreTypes
<1>2. RequestOK(r) /\ tx[r] \in TxType /\ tx[r].pc = "lock" /\ tx[r].need \in SUBSET Pids
  BY <1>1 DEF LockAccount, At, Core, TxType
<1>3. PICK a \in Pids, b \in Pids : tx[r].need \subseteq {a, b}
  BY <1>2 DEF RequestOK, LocksToTake
<1>4. tx[r].need # {}
  BY <1>2 DEF RequestOK, LocksToTake
<1>5. p \in tx[r].need
  BY <1>2, <1>3, <1>4, NextToLockIsNeeded
<1>6. p \in Locks
  BY <1>2, <1>5 DEF Locks
<1>7. tx' = [tx EXCEPT ![r] = t]
  BY <1>1 DEF LockAccount
<1>8. lock[p] = NoReq /\ lock' = [lock EXCEPT ![p] = r] /\ UNCHANGED <<journal, bal>>
  BY DEF LockAccount
<1>9. t \in TxType /\ t.op = tx[r].op /\ t.ref = tx[r].ref /\ t.po = tx[r].po
      /\ t.need = tx[r].need \ {p} /\ t.pc = (IF tx[r].need = {p} THEN "check" ELSE "lock")
  BY <1>2 DEF TxType, Pcs
<1> HIDE DEF t, p
<1>10. tx' \in [Reqs -> TxType] /\ tx'[r] = t /\ \A s \in Reqs \ {r} : tx'[s] = tx[s]
  BY <1>1, <1>7, <1>9
<1>11. Subject(r)'
  BY <1>2, <1>9, <1>10 DEF RequestOK, Subject
<1>12. LocksToTake(r)'
  <2>1. t.need \subseteq {a, b}
    BY <1>3, <1>9
  <2>2. t.pc = "lock" => t.need # {}
    BY <1>5, <1>9
  <2> QED BY <2>1, <2>2, <1>9, <1>10 DEF LocksToTake
<1>13. PayerLocked(r)'
  <2>1. SUFFICES ASSUME t.po.from \in Pids
                 PROVE  /\ t.op \in {"confirm", "adjust", "refund"}
                        /\ \/ t.pc = "lock" /\ (t.po.from \in t.need \/ lock'[t.po.from] = r)
                           \/ t.pc = "check" /\ lock'[t.po.from] = r
    BY <1>10 DEF PayerLocked
  <2>2. /\ t.op \in {"confirm", "adjust", "refund"}
        /\ t.po.from \in tx[r].need \/ lock[t.po.from] = r
    BY <1>2, <1>9, <2>1 DEF RequestOK, PayerLocked
  <2>3. t.po.from \in t.need \/ lock'[t.po.from] = r
    BY <1>1, <1>6, <1>8, <1>9, <2>1, <2>2 DEF Locks
  <2>4. t.pc = "check" => t.need = {}
    BY <1>9
  <2> QED BY <2>2, <2>3, <2>4, <1>9
<1>14. FundsHeld(r)' /\ HeadHeld(r)'
  BY <1>9, <1>10 DEF FundsHeld, HeadHeld, At
<1>15. RequestOK(r)'
  BY <1>11, <1>12, <1>13, <1>14 DEF RequestOK
<1>16. lock' \in [Locks -> Reqs \cup {NoReq}]
  BY <1>1, <1>8
<1>17. \A x \in Locks : lock'[x] = lock[x] \/ lock[x] \in {NoReq, r}
  BY <1>1, <1>8
<1> QED BY <1>8, <1>10, <1>15, <1>16, <1>17, RequestMoves

\* chainHead is the end of the chain.
LEMMA ChainHeadIsHead ==
    ASSUME Core
    PROVE  chainHead \in HeadType /\ IsHead(chainHead)
<1>1. CASE journal = {}
  BY <1>1 DEF chainHead, IsHead, HeadType, KeyType
<1>2. CASE journal # {}
  <2> DEFINE last == CHOOSE row \in journal : \A o \in journal : o.seq <= row.seq
  <2>1. \E row \in journal : \A o \in journal : o.seq <= row.seq
    BY <1>2 DEF Core, ChainEnds
  <2>2. last \in journal /\ \A o \in journal : o.seq <= last.seq
    BY <2>1
  <2>3. chainHead = [seq |-> last.seq, key |-> last.key]
    BY <1>2 DEF chainHead
  <2> HIDE DEF last
  <2>4. last.seq \in Nat /\ last.key \in KeyType
    BY <2>2 DEF Core, CoreTypes, RowType
  <2> QED BY <2>2, <2>3, <2>4 DEF IsHead, HeadType
<1> QED BY <1>1, <1>2

\* Taking CHAIN_LOCK and reading the head preserves Core.
LEMMA LockChainKeepsCore ==
    ASSUME Core, NEW r \in Reqs, LockChain(r)
    PROVE  Core'
<1> DEFINE t == [tx[r] EXCEPT !.pc = "append", !.head = chainHead]
<1>1. tx \in [Reqs -> TxType] /\ lock \in [Locks -> Reqs \cup {NoReq}]
  BY DEF Core, CoreTypes
<1>2. RequestOK(r) /\ tx[r] \in TxType /\ tx[r].pc = "chain"
  BY <1>1 DEF LockChain, At, Core
<1>3. tx' = [tx EXCEPT ![r] = t]
  BY <1>1 DEF LockChain
<1>4. lock[ChainLock] \in {NoReq, r} /\ lock' = [lock EXCEPT ![ChainLock] = r]
      /\ UNCHANGED <<journal, bal>> /\ ChainLock \in Locks
  BY DEF LockChain, ChainFree, FreeFor, Locks
<1>5. chainHead \in HeadType /\ IsHead(chainHead)
  BY ChainHeadIsHead
<1>6. t \in TxType /\ t.op = tx[r].op /\ t.ref = tx[r].ref /\ t.po = tx[r].po
      /\ t.need = tx[r].need /\ t.pc = "append" /\ t.head = chainHead
  BY <1>2, <1>5 DEF TxType, Pcs
<1> HIDE DEF t
<1>7. tx' \in [Reqs -> TxType] /\ tx'[r] = t /\ \A s \in Reqs \ {r} : tx'[s] = tx[s]
  BY <1>1, <1>3, <1>6
<1>8. Subject(r)'
  BY <1>2, <1>6, <1>7 DEF RequestOK, Subject
<1>9. LocksToTake(r)'
  BY <1>2, <1>6, <1>7 DEF RequestOK, LocksToTake
<1>10. lock' \in [Locks -> Reqs \cup {NoReq}]
       /\ \A x \in Locks : lock'[x] = lock[x] \/ lock[x] \in {NoReq, r}
  BY <1>1, <1>4
<1>11. \A x \in Locks : lock[x] = r => lock'[x] = r
  BY <1>1, <1>4
<1>12. PayerLocked(r)' /\ FundsHeld(r)'
  BY <1>2, <1>4, <1>6, <1>7, <1>11 DEF RequestOK, PayerLocked, FundsHeld, Locks
<1>13. HeadHeld(r)'
  BY <1>1, <1>4, <1>5, <1>6, <1>7 DEF HeadHeld, IsHead
<1>14. RequestOK(r)'
  BY <1>8, <1>9, <1>12, <1>13 DEF RequestOK
<1> QED BY <1>4, <1>7, <1>10, <1>14, RequestMoves

---------------------------------------------------------------------------
\* Every step preserves the invariant

\* The initial states satisfy it.
LEMMA InitOK == Init => IndInv
<1> SUFFICES ASSUME Init PROVE IndInv
  OBVIOUS
<1> USE DEF Init, JournalInit, TransferInit, PaymentInit
<1>1. CoreTypes
  BY IdleTxOK DEF CoreTypes
<1>2. NoOverdraft /\ ChainIntact /\ ChainEnds
  BY DEF NoOverdraft, ChainIntact, ChainEnds
<1>3. \A r \in Reqs : RequestOK(r)
  BY IdleTxOK
<1>4. SwitchTypes
  <2>1. upsets \in 0..MaxUpsets
    BY JournalAssumption
  <2>2. frozen \in BOOLEAN
    BY Zenon
  <2>3. outbox \in SUBSET EventKeys /\ active \in SUBSET Apps
    OBVIOUS
  <2> QED BY <2>1, <2>2, <2>3 DEF SwitchTypes
<1>5. TransferTypes /\ IntentsQuoted
  <2>1. NoPosting \in PostingType
    BY DEF NoPosting, PostingType, PostingKinds
  <2> QED BY <2>1 DEF TransferTypes, IntentType, IntentsQuoted, NoMints
<1>6. PaymentTypes
  BY DEF PaymentTypes, PayType
<1>7. \A r \in Reqs : ConfirmsIntent(r)
  BY DEF ConfirmsIntent, IdleTx
<1> QED BY <1>1, <1>2, <1>3, <1>4, <1>5, <1>6, <1>7 DEF IndInv, Core

\* Nothing of the journal moves.
LEMMA CoreUnchanged ==
    ASSUME Core, UNCHANGED <<journal, bal, lock, tx>>
    PROVE  Core'
BY DEF Core, CoreTypes, NoOverdraft, ChainIntact, ChainEnds, RequestOK, Subject,
       LocksToTake, PayerLocked, FundsHeld, HeadHeld, At, IsHead

\* What the invariant says of transfer intents, and of the confirms at work.
IntentsOK == IntentsQuoted /\ \A r \in Reqs : ConfirmsIntent(r)

\* No request becomes a confirm, and a confirm keeps its intent and quote.
ConfirmsKept ==
    \A s \in Reqs : tx'[s].op = "confirm" =>
        tx[s].op = "confirm" /\ tx'[s].ref = tx[s].ref /\ tx'[s].po = tx[s].po

\* Steps that leave intents and confirms alone preserve IntentsOK.
LEMMA IntentsKept ==
    ASSUME IntentsOK, ConfirmsKept, UNCHANGED intent
    PROVE  IntentsOK'
BY DEF IntentsOK, ConfirmsKept, IntentsQuoted, ConfirmsIntent

\* The ways a request's locals change without a confirm starting.
LEMMA StepsKeepConfirms ==
    ASSUME CoreTypes, NEW r \in Reqs
    PROVE  /\ End(r) => ConfirmsKept
           /\ \A pc \in Pcs : Goto(r, pc) => ConfirmsKept
           /\ \A op \in Ops \ {"confirm"} : \A ref, po, need, pc :
                 Begin(r, op, ref, po, need, pc) => ConfirmsKept
           /\ LockAccount(r) => ConfirmsKept
           /\ LockChain(r) => ConfirmsKept
           /\ UNCHANGED tx => ConfirmsKept
<1>1. tx \in [Reqs -> TxType] /\ tx[r] \in TxType
  BY DEF CoreTypes
<1>2. End(r) => ConfirmsKept
  BY <1>1 DEF End, ConfirmsKept, IdleTx
<1>3. \A pc \in Pcs : Goto(r, pc) => ConfirmsKept
  BY <1>1 DEF Goto, ConfirmsKept, TxType
<1>4. \A op \in Ops \ {"confirm"} : \A ref, po, need, pc :
         Begin(r, op, ref, po, need, pc) => ConfirmsKept
  BY <1>1 DEF Begin, ConfirmsKept, IdleTx
<1>5. LockAccount(r) => ConfirmsKept
  BY <1>1 DEF LockAccount, ConfirmsKept, TxType
<1>6. LockChain(r) => ConfirmsKept
  BY <1>1 DEF LockChain, ConfirmsKept, TxType
<1>7. UNCHANGED tx => ConfirmsKept
  BY DEF ConfirmsKept
<1> QED BY <1>2, <1>3, <1>4, <1>5, <1>6, <1>7

\* The steps all requests share.
LEMMA JournalStepOK ==
    ASSUME IndInv, JournalStep, UNCHANGED <<transferVars, payVars>>
    PROVE  IndInv'
<1>0. Core /\ CoreTypes /\ SwitchTypes /\ TransferTypes /\ PaymentTypes /\ IntentsOK
  BY DEF IndInv, IntentsOK, Core
<1>1. TransferTypes' /\ PaymentTypes'
  BY <1>0 DEF TransferTypes, PaymentTypes, transferVars, payVars
<1> DEFINE Good == Core' /\ SwitchTypes' /\ ConfirmsKept
<1>2. SUFFICES Good
  BY <1>0, <1>1, IntentsKept DEF IndInv, IntentsOK, transferVars
<1>3. ASSUME NEW r \in Reqs, LockAccount(r) PROVE Good
  BY <1>0, <1>3, LockAccountKeepsCore, StepsKeepConfirms DEF LockAccount, SwitchTypes
<1>4. ASSUME NEW r \in Reqs, LockChain(r) PROVE Good
  BY <1>0, <1>4, LockChainKeepsCore, StepsKeepConfirms DEF LockChain, SwitchTypes
<1>5. ASSUME NEW r \in Reqs, Abort(r) PROVE Good
  BY <1>0, <1>5, RequestEnds, StepsKeepConfirms DEF Abort, SwitchTypes
<1>6. ASSUME NEW r \in Reqs, UniqueViolation(r) PROVE Good
  BY <1>5, <1>6 DEF UniqueViolation
<1>7. ASSUME NEW r \in Reqs, DeadlockVictim(r) PROVE Good
  BY <1>5, <1>7 DEF DeadlockVictim
<1>8. Upset => upsets' \in 0..MaxUpsets
  BY <1>0, JournalAssumption DEF Upset, SwitchTypes
<1>9. ASSUME NEW r \in Reqs, Fault(r) PROVE Good
  BY <1>0, <1>8, <1>9, RequestEnds, StepsKeepConfirms DEF Fault, SwitchTypes
<1>10. UNCHANGED tx => ConfirmsKept
  BY DEF ConfirmsKept
<1>11. ASSUME NEW a \in Apps, SetAppActive(a) PROVE Good
  BY <1>0, <1>8, <1>10, <1>11, CoreUnchanged DEF SetAppActive, SwitchTypes
<1>12. ASSUME setFrozenOverride PROVE Good
  BY <1>0, <1>8, <1>10, <1>12, CoreUnchanged DEF setFrozenOverride, SwitchTypes
<1> HIDE DEF Good
<1> QED BY <1>3, <1>4, <1>6, <1>7, <1>9, <1>11, <1>12 DEF JournalStep

\* The steps of transfers, corrections, deposits and the faucet.
LEMMA TransferStepOK ==
    ASSUME IndInv, TransferStep, UNCHANGED payVars
    PROVE  IndInv'
<1>0. Core /\ CoreTypes /\ SwitchTypes /\ TransferTypes /\ PaymentTypes /\ IntentsOK
  BY DEF IndInv, IntentsOK, Core
<1>1. PaymentTypes'
  BY <1>0 DEF PaymentTypes, payVars
<1> DEFINE Good == Core' /\ SwitchTypes' /\ TransferTypes' /\ IntentsOK'
<1>2. SUFFICES Good
  BY <1>1 DEF IndInv, IntentsOK
<1>3. ASSUME UNCHANGED <<outbox, active, frozen, upsets>> PROVE SwitchTypes'
  BY <1>0, <1>3 DEF SwitchTypes
<1>4. ASSUME UNCHANGED transferVars, ConfirmsKept PROVE TransferTypes' /\ IntentsOK'
  BY <1>0, <1>4, IntentsKept DEF TransferTypes, transferVars
<1>5. ASSUME UNCHANGED intent, ConfirmsKept PROVE IntentsOK'
  BY <1>0, <1>5, IntentsKept
<1>6. ASSUME NEW r \in Reqs, Abort(r) PROVE Core' /\ SwitchTypes' /\ ConfirmsKept
  BY <1>0, <1>3, <1>6, RequestEnds, StepsKeepConfirms DEF Abort
<1>7. ASSUME UNCHANGED journalVars PROVE Core' /\ SwitchTypes' /\ ConfirmsKept
  BY <1>0, <1>3, <1>7, CoreUnchanged DEF journalVars, ConfirmsKept
<1>8. /\ intent \in [Intents -> IntentType] /\ tx \in [Reqs -> TxType]
      /\ \A r \in Reqs : RequestOK(r) /\ tx[r] \in TxType /\ tx[r].po \in PostingType
  BY <1>0 DEF TransferTypes, Core, CoreTypes, TxType
<1>9. 0 \notin Pids
  BY JournalAssumption
<1>10. NoPosting \in PostingType /\ NoPosting.from = NoPid
  BY DEF NoPosting, PostingType, PostingKinds

<1>20. ASSUME NEW i \in Intents, NEW from \in Pids, NEW to \in Pids, NEW gross \in Amounts,
              NEW policy \in FeePolicies, NEW verified \in BOOLEAN,
              NEW a \in active \cup {NoApp},
              transferInquiry(i, from, to, gross, policy, verified, a)
       PROVE  Good
  <2> DEFINE q == InquiryQuote(gross, policy, verified, a)
  <2> DEFINE owner == IF a = NoApp THEN NoPid ELSE AppOwner[a]
  <2> DEFINE po == Quoted(i, from, to, gross, q, owner)
  <2>1. Core' /\ SwitchTypes' /\ UNCHANGED <<dep, order, mint>>
    BY <1>7, <1>20 DEF transferInquiry
  <2>2. po.net > 0 /\ intent' = [intent EXCEPT ![i] = [st |-> "created", po |-> po]]
    BY <1>20 DEF transferInquiry
  <2>3. gross \in Nat /\ policy \in FeePolicy
    BY TransferAssumption
  <2>4. owner \in Pids \cup {NoPid}
    BY <1>0, JournalAssumption DEF SwitchTypes
  <2>5. q \in [fee: Nat, tax: Nat, appFee: Nat]
    <3>1. (IF a = NoApp THEN [policy EXCEPT !.percentBps = 0] ELSE AppPolicy[a]) \in FeePolicy
      <4>1. CASE a = NoApp
        BY <2>3, <4>1 DEF FeePolicy
      <4>2. CASE a # NoApp
        BY <1>0, <4>2, TransferAssumption DEF SwitchTypes
      <4> QED BY <4>1, <4>2
    <3> QED BY <2>3, <3>1, QuoteType DEF InquiryQuote
  <2> HIDE DEF q, owner
  <2>6. /\ po.group = i /\ po.kind = "transfer" /\ po.from = from /\ po.gross = gross
        /\ po.to = to /\ po.net = gross - (q.fee + q.tax + q.appFee)
    BY DEF Quoted
  <2>7. po.net \in Nat
    BY <2>2, <2>3, <2>5, <2>6
  <2>8. po \in PostingType
    BY <2>3, <2>4, <2>5, <2>7 DEF Quoted, PostingType, PostingKinds, Groups
  <2> HIDE DEF po
  <2>9. intent' \in [Intents -> IntentType]
    BY <2>2, <2>8, <1>8 DEF IntentType
  <2>10. TransferTypes'
    BY <2>1, <2>9, <1>0 DEF TransferTypes
  <2>11. IntentsQuoted'
    BY <2>2, <2>6, <1>0, <1>8 DEF IntentsOK, IntentsQuoted
  <2>12. \A s \in Reqs : ConfirmsIntent(s)'
    <3>1. UNCHANGED tx /\ intent[i].st = "none"
      BY <1>20 DEF transferInquiry, journalVars
    <3> QED BY <2>2, <3>1, <1>0, <1>8 DEF IntentsOK, ConfirmsIntent
  <2> QED BY <2>1, <2>10, <2>11, <2>12 DEF IntentsOK

<1>21. ASSUME NEW r \in Reqs, NEW i \in Intents, transferConfirm(r, i) PROVE Good
  <2> DEFINE po == intent[i].po
  <2>1. /\ Begin(r, "confirm", i, po, {po.from, po.to}, "lock")
        /\ intent[i].st = "created" /\ UNCHANGED transferVars
    BY <1>21 DEF transferConfirm
  <2>2. po \in PostingType /\ po.group = i /\ po.from \in Pids /\ po.to \in Pids
    BY <1>0, <1>8, <2>1 DEF IntentsOK, IntentsQuoted, IntentType
  <2>3. SwitchTypes'
    BY <2>1, <1>3 DEF Begin
  <2> DEFINE need == {po.from, po.to}
  <2>4. /\ tx' = [tx EXCEPT ![r] = [IdleTx EXCEPT !.op = "confirm", !.ref = i, !.po = po,
                                                  !.need = need, !.pc = "lock"]]
        /\ Begin(r, "confirm", i, po, need, "lock")
    BY <2>1 DEF Begin
  <2>5. tx'[r].op = "confirm" /\ tx'[r].ref = i /\ tx'[r].po = po
        /\ \A s \in Reqs \ {r} : tx'[s] = tx[s]
    BY <2>4, <1>8 DEF IdleTx
  <2>6. IntentsOK'
    <3>1. IntentsQuoted' /\ UNCHANGED intent
      BY <2>1, <1>0 DEF IntentsOK, IntentsQuoted, transferVars
    <3>2. ConfirmsIntent(r)'
      BY <2>1, <2>5, <3>1 DEF ConfirmsIntent
    <3>3. \A s \in Reqs \ {r} : ConfirmsIntent(s)'
      BY <2>5, <3>1, <1>0 DEF ConfirmsIntent, IntentsOK
    <3> QED BY <3>1, <3>2, <3>3 DEF IntentsOK
  <2>7. need \in SUBSET Pids /\ need # {} /\ po.from \in need
        /\ \E a, b \in Pids : need \subseteq {a, b}
    BY <2>2
  <2> HIDE DEF po, need
  <2>8. Core'
    BY <2>2, <2>4, <2>7, <1>0, BeginKeepsCore DEF Ops, Pcs, Refs
  <2>9. TransferTypes'
    BY <2>1, <1>0 DEF TransferTypes, transferVars
  <2> QED BY <2>3, <2>6, <2>8, <2>9

<1>22. ASSUME NEW r \in Reqs, NEW i \in Intents, cancelIntent(r, i) PROVE Good
  <2>1. /\ Begin(r, "cancel", i, NoPosting, CancelLocks(i), "lock")
        /\ intent[i].st # "none" /\ UNCHANGED transferVars
    BY <1>22 DEF cancelIntent
  <2>2. CancelLocks(i) = {intent[i].po.from} /\ intent[i].po.from \in Pids
    BY <1>0, <2>1 DEF IntentsOK, IntentsQuoted, CancelLocks
  <2>3. SwitchTypes' /\ ConfirmsKept
    BY <2>1, <1>0, <1>3, StepsKeepConfirms DEF Begin, Ops
  <2>4. CancelLocks(i) \in SUBSET Pids /\ CancelLocks(i) # {}
        /\ \E a, b \in Pids : CancelLocks(i) \subseteq {a, b}
    BY <2>2
  <2>5. Core'
    BY <2>1, <2>4, <1>0, <1>9, <1>10, BeginKeepsCore DEF Ops, Pcs, Refs
  <2> QED BY <2>1, <2>3, <2>5, <1>4

<1>23. ASSUME NEW r \in Reqs, NEW q \in Adjusts, NEW from \in Pids, NEW to \in Pids,
              NEW amount \in Amounts, adminAdjust(r, q, from, to, amount)
       PROVE  Good
  <2> DEFINE po == Move(q, "adjust", from, to, amount)
  <2>1. Begin(r, "adjust", q, po, {from, to}, "lock") /\ UNCHANGED transferVars
    BY <1>23 DEF adminAdjust
  <2>2. amount \in Nat
    BY TransferAssumption
  <2>3. po \in PostingType /\ po.group = q /\ po.from = from
    BY <2>2 DEF Move, NoPosting, PostingType, PostingKinds, Groups
  <2>4. SwitchTypes' /\ ConfirmsKept
    BY <2>1, <1>0, <1>3, StepsKeepConfirms DEF Begin, Ops
  <2> HIDE DEF po
  <2>5. Core'
    BY <2>1, <2>3, <1>0, BeginKeepsCore DEF Ops, Pcs, Refs
  <2> QED BY <2>1, <2>4, <2>5, <1>4

<1>24. ASSUME NEW r \in Reqs, NEW d \in Deposits, issueForDeposit(r, d) PROVE Good
  <2> DEFINE po == IssuePosting(d)
  <2>1. Begin(r, "issue", d, po, {}, "corroborate") /\ UNCHANGED transferVars
    BY <1>24 DEF issueForDeposit
  <2>2. DepositQuote[d] \in [pid: Pids, net: Nat, fee: Nat, tax: Nat, app: Apps \cup {NoApp}, owner: Pids, appFee: Nat]
    BY TransferAssumption
  <2>3. po \in PostingType /\ po.group = d /\ po.from = NoPid
    BY <2>2 DEF IssuePosting, NoPosting, PostingType, PostingKinds, Groups
  <2>4. SwitchTypes' /\ ConfirmsKept
    BY <2>1, <1>0, <1>3, StepsKeepConfirms DEF Begin, Ops
  <2> HIDE DEF po
  <2>5. Core'
    BY <2>1, <2>3, <1>0, <1>9, BeginKeepsCore DEF Ops, Pcs, Refs
  <2> QED BY <2>1, <2>4, <2>5, <1>4

<1>25. ASSUME NEW r \in Reqs, NEW c \in Credits, NEW p \in Pids, NEW amount \in MintAmounts,
              mintTestCredit(r, c, p, amount)
       PROVE  Good
  <2> DEFINE po == [NoPosting EXCEPT !.group = c, !.to = p, !.net = amount]
  <2>1. Begin(r, "mint", c, po, {p}, "lock") /\ UNCHANGED transferVars
    BY <1>25 DEF mintTestCredit
  <2>2. amount \in Nat
    BY TransferAssumption
  <2>3. po \in PostingType /\ po.group = c /\ po.from = NoPid
    BY <2>2 DEF NoPosting, PostingType, PostingKinds, Groups
  <2>4. SwitchTypes' /\ ConfirmsKept
    BY <2>1, <1>0, <1>3, StepsKeepConfirms DEF Begin, Ops
  <2> DEFINE need == {p}
  <2>6. Begin(r, "mint", c, po, need, "lock") /\ need \in SUBSET Pids /\ need # {}
        /\ \E a, b \in Pids : need \subseteq {a, b}
    BY <2>1
  <2> HIDE DEF po, need
  <2>5. Core'
    BY <2>3, <2>6, <1>0, <1>9, BeginKeepsCore DEF Ops, Pcs, Refs
  <2> QED BY <2>1, <2>4, <2>5, <1>4

<1>26. ASSUME Midnight PROVE Good
  <2>1. Core' /\ SwitchTypes' /\ ConfirmsKept
    BY <1>7, <1>26 DEF Midnight
  <2>2. TransferTypes' /\ IntentsOK'
    BY <2>1, <1>0, <1>5, <1>26 DEF Midnight, NoMints, TransferTypes
  <2> QED BY <2>1, <2>2

<1>27. ASSUME NEW d \in Deposits, NEW how \in {"paid", "mismatch"}, PayOrder(d, how) PROVE Good
  <2>1. Core' /\ SwitchTypes' /\ ConfirmsKept
    BY <1>7, <1>27 DEF PayOrder
  <2>2. TransferTypes' /\ IntentsOK'
    BY <2>1, <1>0, <1>5, <1>27 DEF PayOrder, TransferTypes
  <2> QED BY <2>1, <2>2

<1>28. ASSUME NEW d \in Deposits, DepositConfirmed(d) PROVE Good
  <2>1. Core' /\ SwitchTypes' /\ ConfirmsKept
    BY <1>7, <1>28 DEF DepositConfirmed
  <2>2. TransferTypes' /\ IntentsOK'
    BY <2>1, <1>0, <1>5, <1>28 DEF DepositConfirmed, TransferTypes
  <2> QED BY <2>1, <2>2

<1>30. ASSUME NEW r \in Reqs, ConfirmCheck(r) PROVE Good
  <2>1. UNCHANGED transferVars /\ tx[r].pc = "check" /\ tx[r].op = "confirm"
    BY <1>30 DEF ConfirmCheck, At
  <2>2. CASE Abort(r)
    BY <2>1, <2>2, <1>4, <1>6
  <2>3. CASE ConfirmOk(r) /\ Goto(r, "chain")
             /\ UNCHANGED <<journal, bal, outbox, lock, active, frozen, upsets>>
    BY <2>1, <2>3, <1>0, <1>3, <1>4, CheckedKeepsCore, StepsKeepConfirms DEF ConfirmOk, Pcs
  <2> QED BY <2>2, <2>3, <1>30 DEF ConfirmCheck

<1>31. ASSUME NEW r \in Reqs, AdjustCheck(r) PROVE Good
  <2>1. UNCHANGED transferVars /\ tx[r].pc = "check" /\ tx[r].op = "adjust"
    BY <1>31 DEF AdjustCheck, At
  <2>2. CASE Abort(r)
    BY <2>1, <2>2, <1>4, <1>6
  <2>3. CASE HasFunds(tx[r].po.from, tx[r].po.gross) /\ Goto(r, "chain")
             /\ UNCHANGED <<journal, bal, outbox, lock, active, frozen, upsets>>
    BY <2>1, <2>3, <1>0, <1>3, <1>4, CheckedKeepsCore, StepsKeepConfirms DEF Pcs
  <2> QED BY <2>2, <2>3, <1>31 DEF AdjustCheck

<1>32. ASSUME NEW r \in Reqs, MintCheck(r) PROVE Good
  <2>1. UNCHANGED transferVars /\ tx[r].pc = "check" /\ tx[r].op = "mint"
    BY <1>32 DEF MintCheck, At
  <2>2. CASE Abort(r)
    BY <2>1, <2>2, <1>4, <1>6
  <2>3. CASE Goto(r, "chain") /\ UNCHANGED <<journal, bal, outbox, lock, active, frozen, upsets>>
    <3>1. tx[r].po.from \notin Pids
      BY <2>1, <1>8 DEF RequestOK, PayerLocked
    <3> QED BY <2>1, <2>3, <3>1, <1>0, <1>3, <1>4, CheckedKeepsCore, StepsKeepConfirms DEF Pcs
  <2> QED BY <2>2, <2>3, <1>32 DEF MintCheck

<1>33. ASSUME NEW r \in Reqs, IssueCorroborate(r) PROVE Good
  <2>1. /\ tx[r].pc = "corroborate" /\ tx[r].op = "issue" /\ UNCHANGED <<intent, order, mint>>
        /\ UNCHANGED dep \/ dep' = [dep EXCEPT ![tx[r].ref] = "blocked"]
    BY <1>33 DEF IssueCorroborate, At
  <2>2. TransferTypes' /\ (ConfirmsKept => IntentsOK')
    BY <2>1, <1>0, <1>5 DEF TransferTypes
  <2>3. CASE Abort(r)
    BY <2>2, <2>3, <1>6
  <2>4. CASE Goto(r, "chain") /\ UNCHANGED <<journal, bal, outbox, lock, active, frozen, upsets>>
    <3>1. tx[r].po.from \notin Pids
      BY <2>1, <1>8 DEF RequestOK, PayerLocked
    <3> QED BY <2>1, <2>2, <2>4, <3>1, <1>0, <1>3, CheckedKeepsCore, StepsKeepConfirms DEF Pcs
  <2> QED BY <2>3, <2>4, <1>33 DEF IssueCorroborate

<1>34. ASSUME NEW r \in Reqs, NEW events, PostLegs(r, events),
              events \subseteq EventKeys
       PROVE  Core' /\ SwitchTypes' /\ ConfirmsKept
  <2>1. outbox' = outbox \cup events /\ UNCHANGED <<active, frozen, upsets>> /\ End(r)
    BY <1>34 DEF PostLegs
  <2>2. SwitchTypes'
    BY <2>1, <1>0, <1>34 DEF SwitchTypes
  <2> QED BY <2>1, <2>2, <1>0, <1>34, PostKeepsCore, StepsKeepConfirms

<1>35. ASSUME NEW r \in Reqs, ConfirmCommit(r) PROVE Good
  <2>1. /\ PostLegs(r, TransferEvents(tx[r].po)) /\ tx[r].op = "confirm"
        /\ intent' = [intent EXCEPT ![tx[r].ref].st = "posted"] /\ UNCHANGED <<dep, order, mint>>
    BY <1>35 DEF ConfirmCommit
  <2>2. tx[r].po.group \in Intents
    BY <2>1, <1>8 DEF RequestOK, Subject
  <2>3. TransferEvents(tx[r].po) \subseteq EventKeys
    BY <2>2, <1>0 DEF TransferEvents, EventKeys, SwitchTypes
  <2>4. Core' /\ SwitchTypes' /\ ConfirmsKept
    BY <2>1, <2>3, <1>34
  <2>5. tx[r].ref \in Intents /\ intent[tx[r].ref].st # "none"
    BY <2>1, <1>0 DEF IntentsOK, ConfirmsIntent
  <2>6. /\ intent' \in [Intents -> IntentType]
        /\ \A i \in Intents : /\ intent'[i].po = intent[i].po
                              /\ intent'[i].st # "none" <=> intent[i].st # "none"
    BY <2>1, <2>5, <1>8 DEF IntentType
  <2>7. TransferTypes'
    BY <2>1, <2>6, <1>0 DEF TransferTypes
  <2>8. IntentsOK'
    BY <2>4, <2>6, <1>0 DEF IntentsOK, IntentsQuoted, ConfirmsIntent, ConfirmsKept
  <2> QED BY <2>4, <2>7, <2>8

<1>36. ASSUME NEW r \in Reqs, CancelCommit(r) PROVE Good
  <2>1. /\ intent' = [intent EXCEPT ![tx[r].ref].st = IF @ = "created" THEN "cancelled" ELSE @]
        /\ Abort(r) /\ UNCHANGED <<dep, order, mint>>
    BY <1>36 DEF CancelCommit
  <2>2. intent' \in [Intents -> IntentType]
        /\ \A i \in Intents : /\ intent'[i].po = intent[i].po
                              /\ intent'[i].st # "none" <=> intent[i].st # "none"
    BY <2>1, <1>8 DEF IntentType
  <2>3. TransferTypes'
    BY <2>1, <2>2, <1>0 DEF TransferTypes
  <2>4. Core' /\ SwitchTypes' /\ ConfirmsKept
    BY <2>1, <1>6
  <2>5. IntentsOK'
    BY <2>2, <2>4, <1>0 DEF IntentsOK, IntentsQuoted, ConfirmsIntent, ConfirmsKept
  <2> QED BY <2>3, <2>4, <2>5

<1>37. ASSUME NEW r \in Reqs, AdjustCommit(r) PROVE Good
  BY <1>4, <1>34, <1>37 DEF AdjustCommit

<1>38. ASSUME NEW r \in Reqs, IssueCommit(r) PROVE Good
  <2>1. PostLegs(r, DepositEvents(tx[r].po)) /\ tx[r].op = "issue" /\ UNCHANGED transferVars
    BY <1>38 DEF IssueCommit
  <2>2. tx[r].po.group \in Deposits
    BY <2>1, <1>8 DEF RequestOK, Subject
  <2>3. DepositEvents(tx[r].po) \subseteq EventKeys
    BY <2>2, <1>0 DEF DepositEvents, EventKeys, SwitchTypes
  <2> QED BY <2>1, <2>3, <1>4, <1>34

<1>39. ASSUME NEW r \in Reqs, MintCommit(r) PROVE Good
  <2>1. /\ PostLegs(r, {}) /\ UNCHANGED <<intent, dep, order>>
        /\ mint' = [mint EXCEPT ![tx[r].po.to] = [calls |-> @.calls + 1,
                                                 spent |-> @.spent + tx[r].po.net]]
    BY <1>39 DEF MintCommit
  <2>2. Core' /\ SwitchTypes' /\ ConfirmsKept
    BY <2>1, <1>34
  <2>3. tx[r].po.net \in Nat
    BY <1>8 DEF PostingType
  <2>4. mint' \in [Pids -> [calls: Nat, spent: Nat]]
    <3> DEFINE new == [calls |-> mint[tx[r].po.to].calls + 1,
                       spent |-> mint[tx[r].po.to].spent + tx[r].po.net]
    <3>1. mint \in [Pids -> [calls: Nat, spent: Nat]]
      BY <1>0 DEF TransferTypes
    <3>2. mint' = [mint EXCEPT ![tx[r].po.to] = new]
      BY <2>1
    <3>3. tx[r].po.to \in Pids => new \in [calls: Nat, spent: Nat]
      BY <2>3, <3>1
    <3> HIDE DEF new
    <3> QED BY <3>1, <3>2, <3>3
  <2> QED BY <2>1, <2>2, <2>4, <1>0, <1>5 DEF TransferTypes

<1>40. ASSUME NEW r \in Reqs, TransferRequestStep(r) PROVE Good
  BY <1>30, <1>31, <1>32, <1>33, <1>35, <1>36, <1>37, <1>38, <1>39, <1>40 DEF TransferRequestStep
<1> HIDE DEF Good
<1> QED BY <1>20, <1>21, <1>22, <1>23, <1>24, <1>25, <1>26, <1>27, <1>28, <1>40 DEF TransferStep

---------------------------------------------------------------------------
\* The steps of direct payments

\* create's steps between its statements: no locks, no payer.
LEMMA CreateKeepsCore ==
    ASSUME Core, NEW r \in Reqs, tx[r].pc \in {"insert", "invoice"},
           NEW pc \in {"invoice", "pend"}, Goto(r, pc), UNCHANGED <<journal, bal, lock>>
    PROVE  Core' /\ ConfirmsKept
<1> DEFINE t == [tx[r] EXCEPT !.pc = pc]
<1>1. tx \in [Reqs -> TxType] /\ lock \in [Locks -> Reqs \cup {NoReq}] /\ CoreTypes
  BY DEF Core, CoreTypes
<1>2. tx' = [tx EXCEPT ![r] = t] /\ RequestOK(r) /\ tx[r] \in TxType /\ pc \in Pcs
  BY <1>1 DEF Goto, Core, Pcs
<1>3. t \in TxType /\ t.op = tx[r].op /\ t.ref = tx[r].ref /\ t.po = tx[r].po
      /\ t.need = tx[r].need /\ t.pc = pc
  BY <1>2 DEF TxType
<1> HIDE DEF t
<1>4. tx' \in [Reqs -> TxType] /\ tx'[r] = t /\ \A s \in Reqs \ {r} : tx'[s] = tx[s]
  BY <1>1, <1>2, <1>3
<1>5. Subject(r)' /\ LocksToTake(r)'
  BY <1>2, <1>3, <1>4 DEF RequestOK, Subject, LocksToTake
<1>6. PayerLocked(r)' /\ FundsHeld(r)' /\ HeadHeld(r)'
  BY <1>2, <1>3, <1>4 DEF RequestOK, PayerLocked, FundsHeld, HeadHeld, At
<1>7. RequestOK(r)'
  BY <1>5, <1>6 DEF RequestOK
<1> QED BY <1>1, <1>2, <1>4, <1>7, RequestMoves, StepsKeepConfirms

\* Leaving sync.
LEMMA SyncReturnKeepsCore ==
    ASSUME Core, NEW r \in Reqs, tx[r].op \in {"sync", "cancelpay"}, SyncReturn(r),
           UNCHANGED <<journal, bal>>
    PROVE  Core' /\ ConfirmsKept
<1> DEFINE t == IF tx[r].op = "cancelpay"
                THEN [IdleTx EXCEPT !.op = "cancelpay", !.ref = tx[r].ref, !.pc = "mark"]
                ELSE IdleTx
<1>0. 0 \notin Pids
  BY JournalAssumption
<1>1. tx \in [Reqs -> TxType] /\ lock \in [Locks -> Reqs \cup {NoReq}] /\ CoreTypes
  BY DEF Core, CoreTypes
<1>2. tx' = [tx EXCEPT ![r] = t] /\ RequestOK(r) /\ tx[r] \in TxType
      /\ lock' = [x \in Locks |-> IF lock[x] = r THEN NoReq ELSE lock[x]]
  BY <1>1 DEF SyncReturn, Release, Core
<1>3. tx[r].ref \in Payments
  BY <1>2 DEF RequestOK, Subject
<1>4. t \in TxType
  BY <1>3, IdleTxOK DEF TxType, Ops, Pcs
<1>5. /\ t.op \in {"none", "cancelpay"} /\ (t.op = "cancelpay" => t.ref \in Payments)
      /\ t.pc \in {"idle", "mark"} /\ t.need = {} /\ t.po.from = NoPid
  BY <1>3 DEF IdleTx, NoPosting
<1> HIDE DEF t
<1>6. tx' \in [Reqs -> TxType] /\ tx'[r] = t /\ \A s \in Reqs \ {r} : tx'[s] = tx[s]
  BY <1>1, <1>2, <1>4
<1>7. Subject(r)' /\ LocksToTake(r)'
  BY <1>5, <1>6 DEF Subject, LocksToTake
<1>8. PayerLocked(r)' /\ FundsHeld(r)' /\ HeadHeld(r)'
  BY <1>0, <1>5, <1>6 DEF PayerLocked, FundsHeld, HeadHeld, At
<1>9. RequestOK(r)'
  BY <1>7, <1>8 DEF RequestOK
<1>10. lock' \in [Locks -> Reqs \cup {NoReq}]
  BY <1>1, <1>2
<1>11. \A x \in Locks : lock'[x] = lock[x] \/ lock[x] \in {NoReq, r}
  BY <1>2
<1>12. ConfirmsKept
  BY <1>5, <1>6 DEF ConfirmsKept
<1> QED BY <1>6, <1>9, <1>10, <1>11, <1>12, RequestMoves

\* sync with DOKU's answer in hand goes to the payment lock.
LEMMA AnswerKeepsCore ==
    ASSUME Core, NEW r \in Reqs, tx[r].op \in {"sync", "cancelpay"},
           NEW st \in Answers, st # "none",
           tx' = [tx EXCEPT ![r].pc = "pay", ![r].seen = st], UNCHANGED <<journal, bal, lock>>
    PROVE  Core' /\ ConfirmsKept
<1> DEFINE t == [tx[r] EXCEPT !.pc = "pay", !.seen = st]
<1>1. tx \in [Reqs -> TxType] /\ lock \in [Locks -> Reqs \cup {NoReq}] /\ CoreTypes
  BY DEF Core, CoreTypes
<1>2. tx' = [tx EXCEPT ![r] = t] /\ RequestOK(r) /\ tx[r] \in TxType
  BY <1>1 DEF Core
<1>3. t \in TxType /\ t.op = tx[r].op /\ t.ref = tx[r].ref /\ t.po = tx[r].po
      /\ t.need = tx[r].need /\ t.pc = "pay" /\ t.seen = st
  BY <1>2 DEF TxType, Pcs
<1> HIDE DEF t
<1>4. tx' \in [Reqs -> TxType] /\ tx'[r] = t /\ \A s \in Reqs \ {r} : tx'[s] = tx[s]
  BY <1>1, <1>2, <1>3
<1>5. Subject(r)' /\ LocksToTake(r)'
  BY <1>2, <1>3, <1>4 DEF RequestOK, Subject, LocksToTake
<1>6. PayerLocked(r)' /\ FundsHeld(r)' /\ HeadHeld(r)'
  BY <1>2, <1>3, <1>4 DEF RequestOK, PayerLocked, FundsHeld, HeadHeld, At
<1>7. RequestOK(r)'
  BY <1>5, <1>6 DEF RequestOK
<1>8. ConfirmsKept
  BY <1>3, <1>4 DEF ConfirmsKept
<1> QED BY <1>1, <1>4, <1>7, <1>8, RequestMoves

\* A payment's own lock is none of the rows lockAccounts takes.
LEMMA PayLockApart ==
    ASSUME Core, NEW r \in Reqs, NEW p \in Payments, lock[p] = NoReq,
           lock' = [lock EXCEPT ![p] = r]
    PROVE  /\ lock' \in [Locks -> Reqs \cup {NoReq}]
           /\ \A x \in Locks : lock'[x] = lock[x] \/ lock[x] \in {NoReq, r}
           /\ \A x \in Pids : lock'[x] = lock[x]
BY JournalAssumption DEF Core, CoreTypes, Locks

\* sync takes the payment lock and has a payment to post.
LEMMA SyncPostingKeepsCore ==
    ASSUME Core, NEW r \in Reqs, tx[r].op \in {"sync", "cancelpay"},
           lock[tx[r].ref] = NoReq, lock' = [lock EXCEPT ![tx[r].ref] = r],
           tx' = [tx EXCEPT ![r].pc = "chain", ![r].po = PaymentPosting(tx[r].ref)],
           UNCHANGED <<journal, bal>>
    PROVE  Core' /\ ConfirmsKept
<1> DEFINE p == tx[r].ref
<1> DEFINE po == PaymentPosting(p)
<1> DEFINE t == [tx[r] EXCEPT !.pc = "chain", !.po = po]
<1>0. 0 \notin Pids
  BY JournalAssumption
<1>1. tx \in [Reqs -> TxType] /\ CoreTypes
  BY DEF Core, CoreTypes
<1>2. tx' = [tx EXCEPT ![r] = t] /\ RequestOK(r) /\ tx[r] \in TxType /\ p \in Payments
  BY <1>1 DEF Core, RequestOK, Subject
<1>3. PayQuote[p] \in [app: Apps, payer: Pids \cup {NoPid}, to: Pids,
                       amount: Nat \ {0}, fee: Nat, tax: Nat, appFee: Nat]
  BY <1>2, PaymentAssumption
<1>4. AppOwner[PayQuote[p].app] \in Pids
  BY <1>3, JournalAssumption
<1>5. po \in PostingType /\ po.group = p /\ po.from = NoPid
  BY <1>2, <1>3, <1>4 DEF PaymentPosting, NoPosting, PostingType, PostingKinds, Groups
<1> HIDE DEF po
<1>6. t \in TxType /\ t.op = tx[r].op /\ t.ref = tx[r].ref /\ t.po = po
      /\ t.need = tx[r].need /\ t.pc = "chain"
  BY <1>2, <1>5 DEF TxType, Pcs
<1> HIDE DEF t
<1>7. tx' \in [Reqs -> TxType] /\ tx'[r] = t /\ \A s \in Reqs \ {r} : tx'[s] = tx[s]
  BY <1>1, <1>2, <1>6
<1>8. Subject(r)'
  <2>1. po.group \in Groups
    BY <1>2, <1>5 DEF Groups
  <2> QED BY <2>1, <1>2, <1>6, <1>7 DEF Subject
<1>9. LocksToTake(r)'
  BY <1>2, <1>6, <1>7 DEF RequestOK, LocksToTake
<1>10. PayerLocked(r)' /\ FundsHeld(r)' /\ HeadHeld(r)'
  BY <1>0, <1>5, <1>6, <1>7 DEF PayerLocked, FundsHeld, HeadHeld, At
<1>11. RequestOK(r)'
  BY <1>8, <1>9, <1>10 DEF RequestOK
<1>12. ConfirmsKept
  BY <1>6, <1>7 DEF ConfirmsKept
<1>13. /\ lock' \in [Locks -> Reqs \cup {NoReq}]
       /\ \A x \in Locks : lock'[x] = lock[x] \/ lock[x] \in {NoReq, r}
  BY <1>2, PayLockApart
<1> QED BY <1>7, <1>11, <1>12, <1>13, RequestMoves

\* A refund within the remainder goes on to lock the two accounts.
LEMMA RefundAmountKeepsCore ==
    ASSUME Core, NEW r \in Reqs, tx[r].op = "refund", tx[r].pc = "pay", NEW amount \in Nat,
           lock[tx[r].ref] = NoReq, lock' = [lock EXCEPT ![tx[r].ref] = r],
           tx' = [tx EXCEPT ![r].pc = "lock",
                            ![r].po = [tx[r].po EXCEPT !.gross = amount, !.net = amount]],
           UNCHANGED <<journal, bal>>
    PROVE  Core' /\ ConfirmsKept
<1> DEFINE po == [tx[r].po EXCEPT !.gross = amount, !.net = amount]
<1> DEFINE t == [tx[r] EXCEPT !.pc = "lock", !.po = po]
<1>1. tx \in [Reqs -> TxType] /\ CoreTypes
  BY DEF Core, CoreTypes
<1>2. tx' = [tx EXCEPT ![r] = t] /\ RequestOK(r) /\ tx[r] \in TxType /\ tx[r].ref \in Payments
  BY <1>1 DEF Core, RequestOK, Subject
<1>3. tx[r].po \in PostingType
  BY <1>2 DEF TxType
<1>4. po \in PostingType /\ po.group = tx[r].po.group /\ po.from = tx[r].po.from
  BY <1>3 DEF PostingType
<1> HIDE DEF po
<1>5. t \in TxType /\ t.op = tx[r].op /\ t.ref = tx[r].ref /\ t.po = po
      /\ t.need = tx[r].need /\ t.pc = "lock"
  BY <1>2, <1>4 DEF TxType, Pcs
<1> HIDE DEF t
<1>6. tx' \in [Reqs -> TxType] /\ tx'[r] = t /\ \A s \in Reqs \ {r} : tx'[s] = tx[s]
  BY <1>1, <1>2, <1>5
<1>7. /\ lock' \in [Locks -> Reqs \cup {NoReq}]
      /\ \A x \in Locks : lock'[x] = lock[x] \/ lock[x] \in {NoReq, r}
      /\ \A x \in Pids : lock'[x] = lock[x]
  BY <1>2, PayLockApart
<1>8. Subject(r)'
  BY <1>2, <1>4, <1>5, <1>6 DEF RequestOK, Subject
<1>9. LocksToTake(r)'
  BY <1>2, <1>5, <1>6 DEF RequestOK, LocksToTake
<1>10. PayerLocked(r)'
  BY <1>2, <1>4, <1>5, <1>6, <1>7 DEF RequestOK, PayerLocked
<1>11. FundsHeld(r)' /\ HeadHeld(r)'
  BY <1>5, <1>6 DEF FundsHeld, HeadHeld, At
<1>12. RequestOK(r)'
  BY <1>8, <1>9, <1>10, <1>11 DEF RequestOK
<1>13. ConfirmsKept
  BY <1>5, <1>6 DEF ConfirmsKept
<1> QED BY <1>6, <1>7, <1>12, <1>13, RequestMoves

\* The steps of direct payments.
LEMMA PaymentStepOK ==
    ASSUME IndInv, PaymentStep, UNCHANGED transferVars
    PROVE  IndInv'
<1>0. Core /\ CoreTypes /\ SwitchTypes /\ TransferTypes /\ PaymentTypes /\ IntentsOK
  BY DEF IndInv, IntentsOK, Core
<1>1. TransferTypes' /\ (ConfirmsKept => IntentsOK')
  BY <1>0, IntentsKept DEF TransferTypes, transferVars
<1> DEFINE Good == Core' /\ SwitchTypes' /\ PaymentTypes' /\ ConfirmsKept
<1>2. SUFFICES Good
  BY <1>1 DEF IndInv, IntentsOK
<1>3. ASSUME UNCHANGED <<outbox, active, frozen, upsets>> PROVE SwitchTypes'
  BY <1>0, <1>3 DEF SwitchTypes
<1>4. ASSUME UNCHANGED payVars PROVE PaymentTypes'
  BY <1>0, <1>4 DEF PaymentTypes, payVars
<1>5. ASSUME NEW r \in Reqs, End(r), UNCHANGED <<journal, bal>> PROVE Core' /\ ConfirmsKept
  BY <1>0, <1>5, RequestEnds, StepsKeepConfirms
<1>6. ASSUME NEW r \in Reqs, Abort(r) PROVE Core' /\ SwitchTypes' /\ ConfirmsKept
  BY <1>3, <1>5, <1>6 DEF Abort
<1>7. ASSUME UNCHANGED journalVars PROVE Core' /\ SwitchTypes' /\ ConfirmsKept
  BY <1>0, <1>3, <1>7, CoreUnchanged DEF journalVars, ConfirmsKept
<1>8. /\ pay \in [Payments -> PayType] /\ tx \in [Reqs -> TxType]
      /\ \A r \in Reqs : RequestOK(r) /\ tx[r] \in TxType /\ tx[r].po \in PostingType
  BY <1>0 DEF PaymentTypes, Core, CoreTypes, TxType
<1>9. NoPosting \in PostingType /\ NoPosting.from = NoPid /\ 0 \notin Pids
  BY JournalAssumption DEF NoPosting, PostingType, PostingKinds
\* The update of a status to one of its values keeps the types.
<1>10. ASSUME NEW p, NEW st \in {"none", "created", "pending", "paid"} \cup Terminal,
              pay' = [pay EXCEPT ![p].st = st], UNCHANGED <<prov, invoices, age>>
       PROVE  PaymentTypes'
  BY <1>0, <1>10 DEF PaymentTypes, PayType
\* create, notify, reconcile and cancel begin without locks and payer.
<1>11. ASSUME NEW r \in Reqs, NEW p \in Payments, NEW op \in {"create", "sync", "cancelpay"},
              NEW pc \in {"insert", "corroborate", "mark"},
              Begin(r, op, p, NoPosting, {}, pc), UNCHANGED payVars
       PROVE  Good
  <2>1. Core'
    BY <1>0, <1>9, <1>11, BeginKeepsCore DEF Ops, Pcs, Refs
  <2>2. ConfirmsKept
    BY <1>0, <1>11, StepsKeepConfirms DEF Ops
  <2> QED BY <2>1, <2>2, <1>3, <1>4, <1>11 DEF Begin

<1>20. ASSUME NEW r \in Reqs, NEW p \in Payments, PaymentCreate(r, p) PROVE Good
  BY <1>11, <1>20 DEF PaymentCreate
<1>21. ASSUME NEW r \in Reqs, NEW p \in Payments, notify(r, p) PROVE Good
  BY <1>11, <1>21 DEF notify
<1>22. ASSUME NEW r \in Reqs, NEW p \in Payments, reconcile(r, p) PROVE Good
  BY <1>11, <1>22 DEF reconcile
<1>23. ASSUME NEW r \in Reqs, NEW p \in Payments, PaymentCancel(r, p) PROVE Good
  BY <1>11, <1>23 DEF PaymentCancel
<1>24. ASSUME NEW r \in Reqs, NEW p \in Payments, NEW x \in RefundIds, NEW amount \in RefundAmounts,
              refund(r, p, x, amount)
       PROVE  Good
  <2> DEFINE q == PayQuote[p]
  <2> DEFINE po == Move(<<p, x>>, "adjust", q.to, q.payer, amount)
  <2> DEFINE need == {q.to, q.payer}
  <2>1. Begin(r, "refund", p, po, need, "pay") /\ q.payer # NoPid /\ UNCHANGED payVars
    BY <1>24 DEF refund
  <2>2. q.to \in Pids /\ q.payer \in Pids /\ amount \in Nat
    BY <2>1, PaymentAssumption
  <2>3. po \in PostingType /\ po.group = <<p, x>> /\ po.from = q.to
    BY <2>2 DEF Move, NoPosting, PostingType, PostingKinds, Groups
  <2>4. need \in SUBSET Pids /\ need # {} /\ q.to \in need /\ \E a, b \in Pids : need \subseteq {a, b}
    BY <2>2
  <2>7. po.group \in Payments \X RefundIds /\ po.from \in need
    BY <2>3, <2>4
  <2> HIDE DEF po, need
  <2>5. Core'
    BY <2>1, <2>3, <2>4, <2>7, <1>0, BeginKeepsCore DEF Ops, Pcs, Refs
  <2>6. ConfirmsKept
    BY <2>1, <1>0, StepsKeepConfirms DEF Ops
  <2> QED BY <2>1, <2>5, <2>6, <1>3, <1>4 DEF Begin
<1>25. ASSUME NEW p \in Payments, NEW st \in {"paid", "mismatch", "failed", "expired"},
              ProviderStep(p, st)
       PROVE  Good
  <2>1. PaymentTypes'
    BY <1>0, <1>25 DEF ProviderStep, PaymentTypes
  <2> QED BY <2>1, <1>7, <1>25 DEF ProviderStep
<1>26. ASSUME NEW p \in Payments, Tick(p) PROVE Good
  <2>1. PaymentTypes'
    BY <1>0, <1>26 DEF Tick, PaymentTypes
  <2> QED BY <2>1, <1>7, <1>26 DEF Tick

<1>30. ASSUME NEW r \in Reqs, PaymentInsert(r) PROVE Good
  <2>1. tx[r].pc = "insert" /\ UNCHANGED <<prov, invoices, age>>
    BY <1>30 DEF PaymentInsert, At
  <2>2. CASE /\ pay' = [pay EXCEPT ![tx[r].ref] = [st |-> "created", refunded |-> 0]]
             /\ Goto(r, "invoice")
             /\ UNCHANGED <<journal, bal, outbox, lock, active, frozen, upsets>>
    <3>1. PaymentTypes'
      BY <2>1, <2>2, <1>0 DEF PaymentTypes, PayType
    <3> QED BY <2>1, <2>2, <3>1, <1>0, <1>3, CreateKeepsCore
  <2>3. CASE Abort(r) /\ UNCHANGED pay
    BY <2>1, <2>3, <1>4, <1>6 DEF payVars
  <2> QED BY <2>2, <2>3, <1>30 DEF PaymentInsert
<1>31. ASSUME NEW r \in Reqs, PaymentInvoice(r) PROVE Good
  <2>1. tx[r].pc = "invoice" /\ UNCHANGED <<pay, age>>
    BY <1>31 DEF PaymentInvoice, At
  <2>2. PaymentTypes'
    <3>1. \/ UNCHANGED <<invoices, prov>>
          \/ /\ invoices' = [invoices EXCEPT ![tx[r].ref] = @ + 1]
             /\ prov' = [prov EXCEPT ![tx[r].ref] = IF @ = "none" THEN "open" ELSE @]
      BY <1>31 DEF PaymentInvoice
    <3>2. prov' \in [Payments -> {"none", "open", "paid", "mismatch", "failed", "expired"}]
      BY <3>1, <1>0 DEF PaymentTypes
    <3>3. invoices' \in [Payments -> Nat]
      BY <3>1, <1>0 DEF PaymentTypes
    <3> QED BY <2>1, <3>2, <3>3, <1>0 DEF PaymentTypes
  <2>3. CASE Goto(r, "pend") /\ UNCHANGED <<journal, bal, outbox, lock, active, frozen, upsets>>
    BY <2>1, <2>2, <2>3, <1>0, <1>3, CreateKeepsCore
  <2>4. CASE Abort(r)
    BY <2>2, <2>4, <1>6
  <2> QED BY <2>3, <2>4, <1>31 DEF PaymentInvoice
<1>32. ASSUME NEW r \in Reqs, PaymentPending(r) PROVE Good
  <2>1. PaymentTypes'
    BY <1>0, <1>32 DEF PaymentPending, PaymentTypes, PayType
  <2> QED BY <2>1, <1>6, <1>32 DEF PaymentPending
<1>33. ASSUME NEW r \in Reqs, SyncCorroborate(r) PROVE Good
  <2> DEFINE st == SyncStatus(tx[r].ref)
  <2>1. /\ tx[r].op \in {"sync", "cancelpay"}
        /\ UNCHANGED <<journal, bal, outbox, active, frozen, upsets>> /\ UNCHANGED payVars
    BY <1>33 DEF SyncCorroborate
  <2>2. SwitchTypes' /\ PaymentTypes'
    BY <2>1, <1>3, <1>4
  <2>3. CASE st # "none" /\ tx' = [tx EXCEPT ![r].pc = "pay", ![r].seen = st] /\ UNCHANGED lock
    <3>1. st \in Answers
      BY DEF SyncStatus, Answers
    <3> HIDE DEF st
    <3> QED BY <2>1, <2>2, <2>3, <3>1, <1>0, AnswerKeepsCore
  <2>4. CASE SyncReturn(r)
    BY <2>1, <2>2, <2>4, <1>0, SyncReturnKeepsCore
  <2>5. CASE End(r)
    BY <2>1, <2>2, <2>5, <1>5
  <2> QED BY <2>3, <2>4, <2>5, <1>33 DEF SyncCorroborate
<1>34. \A p \in Payments : \A st \in {"paid", "failed", "expired"} :
          PaymentEvent(p, st) \subseteq EventKeys
  BY DEF PaymentEvent, EventKeys
<1>35. ASSUME NEW r \in Reqs, SyncLock(r) PROVE Good
  <2> DEFINE p == tx[r].ref
  <2> DEFINE st == IF tx[r].seen = "mismatch" THEN "failed" ELSE tx[r].seen
  <2>1. /\ tx[r].pc = "pay" /\ tx[r].op \in {"sync", "cancelpay"} /\ lock[p] = NoReq
        /\ UNCHANGED <<journal, bal, active, frozen, upsets, prov, invoices, age>>
    BY <1>35 DEF SyncLock, At
  <2>2. tx[r].seen \in Answers \ {"none"} /\ p \in Payments
    BY <2>1, <1>8 DEF RequestOK, Subject, TxType
  <2>3. CASE SyncReturn(r) /\ UNCHANGED <<pay, outbox>>
    BY <2>1, <2>3, <1>0, <1>3, <1>4, SyncReturnKeepsCore DEF payVars
  <2>4. CASE /\ lock' = [lock EXCEPT ![p] = r]
             /\ tx' = [tx EXCEPT ![r].pc = "chain", ![r].po = PaymentPosting(p)]
             /\ UNCHANGED <<pay, outbox>>
    BY <2>1, <2>4, <1>0, <1>3, <1>4, SyncPostingKeepsCore DEF payVars
  <2>5. CASE /\ tx[r].seen # "paid"
             /\ pay' = [pay EXCEPT ![p].st = st]
             /\ outbox' = outbox \cup PaymentEvent(p, st)
             /\ SyncReturn(r)
    <3>1. st \in {"failed", "expired"}
      BY <2>2, <2>5 DEF Answers
    <3> HIDE DEF st, p
    <3>2. SwitchTypes'
      BY <2>1, <2>2, <2>5, <3>1, <1>0, <1>34 DEF SwitchTypes
    <3>3. PaymentTypes'
      BY <2>1, <2>5, <3>1, <1>10 DEF Terminal
    <3> QED BY <2>1, <2>5, <3>2, <3>3, <1>0, SyncReturnKeepsCore
  <2> QED BY <2>3, <2>4, <2>5, <1>35 DEF SyncLock
<1>36. ASSUME NEW r \in Reqs, NEW events, PostLegs(r, events), events \subseteq EventKeys
       PROVE  Core' /\ SwitchTypes' /\ ConfirmsKept
  <2>1. outbox' = outbox \cup events /\ UNCHANGED <<active, frozen, upsets>> /\ End(r)
    BY <1>36 DEF PostLegs
  <2>2. SwitchTypes'
    BY <2>1, <1>0, <1>36 DEF SwitchTypes
  <2> QED BY <2>1, <2>2, <1>0, <1>36, PostKeepsCore, StepsKeepConfirms
<1>37. ASSUME NEW r \in Reqs, SyncCommit(r) PROVE Good
  <2>1. /\ tx[r].op \in {"sync", "cancelpay"} /\ PostLegs(r, PaymentEvent(tx[r].ref, "paid"))
        /\ pay' = [pay EXCEPT ![tx[r].ref].st = "paid"] /\ UNCHANGED <<prov, invoices, age>>
    BY <1>37 DEF SyncCommit
  <2>2. tx[r].ref \in Payments
    BY <2>1, <1>8 DEF RequestOK, Subject
  <2>3. PaymentTypes'
    BY <2>1, <1>10
  <2> QED BY <2>1, <2>2, <2>3, <1>34, <1>36
<1>38. ASSUME NEW r \in Reqs, CancelMark(r) PROVE Good
  <2>1. PaymentTypes'
    BY <1>0, <1>38 DEF CancelMark, PaymentTypes, PayType, Terminal
  <2> QED BY <2>1, <1>6, <1>38 DEF CancelMark
<1>39. ASSUME NEW r \in Reqs, RefundLock(r) PROVE Good
  <2> DEFINE p == tx[r].ref
  <2> DEFINE po == tx[r].po
  <2> DEFINE amount == IF po.gross = 0 THEN Remaining(p) ELSE po.gross
  <2>1. /\ tx[r].pc = "pay" /\ tx[r].op = "refund" /\ lock[p] = NoReq
        /\ UNCHANGED <<journal, bal, outbox, active, frozen, upsets>> /\ UNCHANGED payVars
    BY <1>39 DEF RefundLock, At
  <2>2. SwitchTypes' /\ PaymentTypes'
    BY <2>1, <1>3, <1>4
  <2>3. CASE End(r)
    BY <2>1, <2>2, <2>3, <1>5
  <2>4. CASE /\ amount > 0 /\ lock' = [lock EXCEPT ![p] = r]
             /\ tx' = [tx EXCEPT ![r].pc = "lock",
                                 ![r].po = [po EXCEPT !.gross = amount, !.net = amount]]
    <3>1. p \in Payments
      BY <2>1, <1>8 DEF RequestOK, Subject
    <3>2. Remaining(p) \in Int
      BY <3>1, <1>8, PaymentAssumption DEF Remaining, PayType
    <3>3. amount \in Nat
      BY <2>4, <3>2, <1>8 DEF PostingType
    <3> HIDE DEF amount
    <3> QED BY <2>1, <2>2, <2>4, <3>3, <1>0, RefundAmountKeepsCore
  <2> QED BY <2>3, <2>4, <1>39 DEF RefundLock
<1>40. ASSUME NEW r \in Reqs, RefundCheck(r) PROVE Good
  <2>1. tx[r].pc = "check" /\ tx[r].op = "refund" /\ UNCHANGED payVars
    BY <1>40 DEF RefundCheck, At
  <2>2. CASE Abort(r)
    BY <2>1, <2>2, <1>4, <1>6
  <2>3. CASE HasFunds(tx[r].po.from, tx[r].po.gross) /\ Goto(r, "chain")
             /\ UNCHANGED <<journal, bal, outbox, lock, active, frozen, upsets>>
    BY <2>1, <2>3, <1>0, <1>3, <1>4, CheckedKeepsCore, StepsKeepConfirms DEF Pcs
  <2> QED BY <2>2, <2>3, <1>40 DEF RefundCheck
<1>41. ASSUME NEW r \in Reqs, RefundCommit(r) PROVE Good
  <2>1. /\ PostLegs(r, {}) /\ UNCHANGED <<prov, invoices, age>>
        /\ pay' = [pay EXCEPT ![tx[r].ref].refunded = @ + tx[r].po.gross]
    BY <1>41 DEF RefundCommit
  <2>2. tx[r].po.gross \in Nat
    BY <1>8 DEF PostingType
  <2>3. PaymentTypes'
    <3> DEFINE new == [pay[tx[r].ref] EXCEPT !.refunded = @ + tx[r].po.gross]
    <3>1. pay' = [pay EXCEPT ![tx[r].ref] = new]
      BY <2>1
    <3>2. tx[r].ref \in Payments => new \in PayType
      BY <2>2, <1>8 DEF PayType
    <3> HIDE DEF new
    <3>3. pay' \in [Payments -> PayType]
      BY <3>1, <3>2, <1>8
    <3> QED BY <2>1, <3>3, <1>0 DEF PaymentTypes
  <2> QED BY <2>1, <2>3, <1>36

<1>42. ASSUME NEW r \in Reqs, PaymentRequestStep(r) PROVE Good
  <2> HIDE DEF Good
  <2> QED BY <1>30, <1>31, <1>32, <1>33, <1>35, <1>37, <1>38, <1>39, <1>40, <1>41, <1>42
          DEF PaymentRequestStep
<1> HIDE DEF Good
<1> QED BY <1>20, <1>21, <1>22, <1>23, <1>24, <1>25, <1>26, <1>42 DEF PaymentStep

---------------------------------------------------------------------------
\* Theorems

\* IndInv is an invariant of the rail.
THEOREM Invariance == Spec => []IndInv
<1>1. Init => IndInv
  BY InitOK
<1>2. IndInv /\ [Next]_vars => IndInv'
  <2> SUFFICES ASSUME IndInv, [Next]_vars PROVE IndInv'
    OBVIOUS
  <2>1. CASE TransferStep /\ UNCHANGED payVars
    BY <2>1, TransferStepOK
  <2>2. CASE PaymentStep /\ UNCHANGED transferVars
    BY <2>2, PaymentStepOK
  <2>3. CASE JournalStep /\ UNCHANGED <<transferVars, payVars>>
    BY <2>3, JournalStepOK
  <2>4. CASE UNCHANGED vars
    <3>1. UNCHANGED journalVars /\ UNCHANGED transferVars /\ UNCHANGED payVars
      BY <2>4 DEF vars
    <3>2. Core'
      BY <3>1, CoreUnchanged DEF IndInv, journalVars
    <3>3. SwitchTypes' /\ TransferTypes' /\ PaymentTypes'
      BY <3>1 DEF IndInv, SwitchTypes, TransferTypes, PaymentTypes, journalVars, transferVars, payVars
    <3>4. IntentsQuoted' /\ \A r \in Reqs : ConfirmsIntent(r)'
      BY <3>1 DEF IndInv, IntentsQuoted, ConfirmsIntent, journalVars, transferVars
    <3> QED BY <3>2, <3>3, <3>4 DEF IndInv
  <2> QED BY <2>1, <2>2, <2>3, <2>4 DEF Next, Quiet
<1> QED BY <1>1, <1>2, PTL DEF Spec

\* Every variable keeps its type.
THEOREM TypeCorrect == Spec => []TypeOK
<1>1. IndInv => TypeOK
  BY DEF IndInv, Core, TypeOK
<1> QED BY <1>1, Invariance, PTL

\* No account is ever overdrawn, for any number of concurrent transferConfirm,
\* adminAdjust, refund, issue and sync requests, faults and retries.
THEOREM NeverOverdrawn == Spec => []NoOverdraft
<1>1. IndInv => NoOverdraft
  BY DEF IndInv, Core
<1> QED BY <1>1, Invariance, PTL

\* appendChained never forks the hash chain.
THEOREM ChainNeverForks == Spec => []ChainIntact
<1>1. IndInv => ChainIntact
  BY DEF IndInv, Core
<1> QED BY <1>1, Invariance, PTL

---------------------------------------------------------------------------
\* What a request has found out stays true until it is through

\* A step leaves request s alone, its locks, and the rows it relies on.
LeavesAlone(s) == tx'[s] = tx[s] /\ \A x \in Locks : lock[x] = s => lock'[x] = s

SparesRows(s) ==
    /\ \A i \in Intents : intent[i].st # "none" =>
          /\ intent'[i].st # "none" /\ intent'[i].po = intent[i].po
          /\ intent[i].st = "created" /\ lock[intent[i].po.from] = s => intent'[i].st = "created"
    /\ \A d \in Deposits : order[d] = "paid" => order'[d] = "paid"
    /\ \A p \in Pids : lock[p] = s => mint'[p] = mint[p] \/ mint'[p] = [calls |-> 0, spent |-> 0]
    /\ \A p \in Payments : prov[p] = "paid" => prov'[p] = "paid"
    /\ \A p \in Payments : lock[p] = s /\ pay[p].st = "paid" => pay'[p] = pay[p]

LEMMA SparedKnows ==
    ASSUME IndInv, Settling, NEW s \in Reqs, LeavesAlone(s), SparesRows(s)
    PROVE  Knows(s)'
<1>1. Knows(s) /\ RequestOK(s) /\ ConfirmsIntent(s) /\ tx[s] \in TxType /\ tx[s].po \in PostingType
  BY DEF Settling, IndInv, Core, CoreTypes, TxType
<1>2. tx'[s] = tx[s] /\ \A x \in Locks : lock[x] = s => lock'[x] = s
  BY DEF LeavesAlone
<1>3. ConfirmKnows(s)'
  <2> SUFFICES ASSUME tx[s].op = "confirm", tx[s].pc \in {"chain", "append"}
               PROVE  intent'[tx[s].ref].st = "created"
    BY <1>2 DEF ConfirmKnows, Past
  <2>1. tx[s].ref \in Intents /\ intent[tx[s].ref].po = tx[s].po /\ intent[tx[s].ref].st = "created"
    BY <1>1 DEF ConfirmsIntent, Knows, ConfirmKnows, Past
  <2>2. tx[s].po.from \in Pids
    BY <2>1 DEF IndInv, IntentsQuoted
  <2>3. lock[tx[s].po.from] = s
    BY <1>1, <2>2 DEF RequestOK, PayerLocked
  <2> QED BY <2>1, <2>3 DEF SparesRows
<1>4. CancelKnows(s)'
  <2> SUFFICES ASSUME tx[s].op = "cancel" PROVE CancelKnows(s)'
    BY <1>2 DEF CancelKnows
  <2>1. /\ tx[s].ref \in Intents /\ intent[tx[s].ref].st # "none" /\ tx[s].pc \in {"lock", "check"}
        /\ tx[s].pc = "lock" => tx[s].need = {intent[tx[s].ref].po.from}
        /\ tx[s].pc = "check" => lock[intent[tx[s].ref].po.from] = s
    BY <1>1 DEF Knows, CancelKnows
  <2>2. intent[tx[s].ref].po.from \in Locks
    BY <2>1 DEF IndInv, IntentsQuoted, Locks
  <2>3. intent'[tx[s].ref].st # "none" /\ intent'[tx[s].ref].po = intent[tx[s].ref].po
    BY <2>1 DEF SparesRows
  <2> QED BY <1>2, <2>1, <2>2, <2>3 DEF CancelKnows
<1>5. IssueKnows(s)'
  BY <1>1, <1>2 DEF SparesRows, Knows, IssueKnows, Past, RequestOK, Subject
<1>6. MintKnows(s)'
  <2> SUFFICES ASSUME tx[s].op = "mint" PROVE MintKnows(s)'
    BY <1>2 DEF MintKnows
  <2>1. /\ tx[s].po.to \in Pids
        /\ \/ tx[s].pc = "lock" /\ tx[s].need = {tx[s].po.to}
           \/ tx[s].pc \in {"check", "chain", "append"} /\ lock[tx[s].po.to] = s
        /\ tx[s].pc \in {"chain", "append"} => FaucetAllows(tx[s].po.to, tx[s].po.net)
    BY <1>1 DEF Knows, MintKnows, Past
  <2>2. tx[s].pc \in {"check", "chain", "append"} => lock'[tx[s].po.to] = s
    BY <1>2, <2>1 DEF Locks
  <2>3. ASSUME tx[s].pc \in {"chain", "append"} PROVE FaucetAllows(tx[s].po.to, tx[s].po.net)'
    <3>1. FaucetAllows(tx[s].po.to, tx[s].po.net) /\ tx[s].po.net \in Nat /\ lock[tx[s].po.to] = s
      BY <1>1, <2>1, <2>3 DEF PostingType
    <3>2. mint[tx[s].po.to].calls \in Nat /\ mint[tx[s].po.to].spent \in Nat
      BY <2>1 DEF IndInv, TransferTypes
    <3>3. mint'[tx[s].po.to] = mint[tx[s].po.to] \/ mint'[tx[s].po.to] = [calls |-> 0, spent |-> 0]
      BY <2>1, <3>1 DEF SparesRows
    <3>4. CASE mint'[tx[s].po.to] = mint[tx[s].po.to]
      BY <1>2, <3>1, <3>4 DEF FaucetAllows
    <3>5. CASE mint'[tx[s].po.to] = [calls |-> 0, spent |-> 0]
      BY <1>2, <3>1, <3>2, <3>5, TransferAssumption DEF FaucetAllows
    <3> QED BY <3>3, <3>4, <3>5
  <2> QED BY <1>2, <2>1, <2>2, <2>3 DEF MintKnows, Past
<1>7. SyncKnows(s)'
  BY <1>1, <1>2 DEF SparesRows, Knows, SyncKnows, Past, RequestOK, Subject
<1>8. RefundKnows(s)'
  <2> SUFFICES ASSUME tx[s].op = "refund" PROVE RefundKnows(s)'
    BY <1>2 DEF RefundKnows
  <2>1. tx[s].ref \in Payments /\ \E x \in RefundIds : tx[s].po.group = <<tx[s].ref, x>>
    BY <1>1 DEF RequestOK, Subject, Knows, RefundKnows
  <2>2. CASE tx[s].pc = "pay"
    BY <1>2, <2>1, <2>2 DEF RefundKnows
  <2>3. CASE tx[s].pc # "pay"
    <3>1. /\ tx[s].pc \in {"lock", "check", "chain", "append"} /\ lock[tx[s].ref] = s
          /\ pay[tx[s].ref].st = "paid" /\ tx[s].po.net = tx[s].po.gross
          /\ tx[s].po.gross > 0 /\ tx[s].po.gross <= Remaining(tx[s].ref)
      BY <1>1, <2>3 DEF Knows, RefundKnows
    <3>2. pay'[tx[s].ref] = pay[tx[s].ref] /\ lock'[tx[s].ref] = s
      BY <1>2, <2>1, <3>1 DEF SparesRows, Locks
    <3> QED BY <1>2, <2>1, <3>1, <3>2 DEF RefundKnows, Remaining
  <2> QED BY <2>2, <2>3
<1> QED BY <1>3, <1>4, <1>5, <1>6, <1>7, <1>8 DEF Knows

\* Which steps leave the others alone.
LEMMA OthersAlone ==
    ASSUME CoreTypes, NEW r \in Reqs, NEW s \in Reqs \ {r}
    PROVE  /\ End(r) => LeavesAlone(s)
           /\ SyncReturn(r) => LeavesAlone(s)
           /\ UNCHANGED <<tx, lock>> => LeavesAlone(s)
           /\ \A t : tx' = [tx EXCEPT ![r] = t] /\ UNCHANGED lock => LeavesAlone(s)
           /\ \A t, x : lock[x] = NoReq /\ tx' = [tx EXCEPT ![r] = t] /\ lock' = [lock EXCEPT ![x] = r]
                           => LeavesAlone(s)
<1>1. tx \in [Reqs -> TxType] /\ lock \in [Locks -> Reqs \cup {NoReq}] /\ s # NoReq /\ s # r
  BY JournalAssumption DEF CoreTypes
<1>2. End(r) => LeavesAlone(s)
  BY <1>1 DEF End, Release, LeavesAlone
<1>3. SyncReturn(r) => LeavesAlone(s)
  BY <1>1 DEF SyncReturn, Release, LeavesAlone
<1>4. UNCHANGED <<tx, lock>> => LeavesAlone(s)
  BY DEF LeavesAlone
<1>5. \A t : tx' = [tx EXCEPT ![r] = t] /\ UNCHANGED lock => LeavesAlone(s)
  BY <1>1 DEF LeavesAlone
<1>6. \A t, x : lock[x] = NoReq /\ tx' = [tx EXCEPT ![r] = t] /\ lock' = [lock EXCEPT ![x] = r] => LeavesAlone(s)
  BY <1>1 DEF LeavesAlone
<1> QED BY <1>2, <1>3, <1>4, <1>5, <1>6

LEMMA SameRows ==
    ASSUME UNCHANGED <<intent, order, mint, pay, prov>>, NEW s \in Reqs
    PROVE  SparesRows(s)
BY DEF SparesRows

\* A request at rest relies on nothing.
LEMMA NothingKnown ==
    ASSUME NEW r \in Reqs, tx'[r] = IdleTx
    PROVE  Knows(r)'
BY DEF Knows, ConfirmKnows, CancelKnows, IssueKnows, MintKnows, SyncKnows, RefundKnows, IdleTx

---------------------------------------------------------------------------
\* What a posting changes

\* The legs of a posting name its group, and there is at least one.
LEMMA LegsOfGroup ==
    ASSUME NEW po \in PostingType, po.group \in Groups
    PROVE  Len(Legs(po)) >= 1 /\ \A k \in 1..Len(Legs(po)) : Legs(po)[k].key[1] = po.group
<1> DEFINE Ours == {leg \in LegType : leg.key[1] = po.group}
<1> DEFINE out == Leg(po, "OUT", OutKind(po), po.from, po.gross, "out")
<1> DEFINE in  == Leg(po, "IN", InKind(po), po.to, po.net, "in")
<1> DEFINE fee == Leg(po, "FEE", "fiat_fee", FeePid(po), po.fee, "out")
<1> DEFINE tax == Leg(po, "TAX", "fiat_tax", FeePid(po), po.tax, "out")
<1> DEFINE app == Leg(po, "APPFEE", "fiat_app_fee", po.owner, po.appFee, "in")
<1>1. out \in Ours /\ in \in Ours /\ fee \in Ours /\ tax \in Ours /\ app \in Ours
  <2>1. ASSUME NEW name \in LegNames, NEW kind \in Kinds, NEW pid \in Pids \cup {NoPid},
               NEW amount \in Nat, NEW dir \in {"in", "out"}
        PROVE  Leg(po, name, kind, pid, amount, dir) \in Ours
    <3>1. <<po.group, name>> \in KeyType
      BY DEF KeyType
    <3> QED BY <3>1 DEF Leg, LegType
  <2>2. /\ po.from \in Pids \cup {NoPid} /\ po.to \in Pids \cup {NoPid}
        /\ po.owner \in Pids \cup {NoPid} /\ po.kind \in PostingKinds
        /\ po.gross \in Nat /\ po.net \in Nat /\ po.fee \in Nat /\ po.tax \in Nat
        /\ po.appFee \in Nat
    BY DEF PostingType
  <2>3. FeePid(po) \in Pids \cup {NoPid}
    BY <2>2 DEF FeePid
  <2>4. OutKind(po) \in Kinds /\ InKind(po) \in Kinds
    BY <2>2 DEF OutKind, InKind, Kinds, PostingKinds
  <2>5. {"fiat_fee", "fiat_tax", "fiat_app_fee"} \subseteq Kinds
    BY DEF Kinds
  <2>6. {"OUT", "IN", "FEE", "TAX", "APPFEE"} \subseteq LegNames
    BY DEF LegNames
  <2> HIDE DEF Ours
  <2> QED BY <2>1, <2>2, <2>3, <2>4, <2>5, <2>6
<1>2. Legs(po) = When(po.from # NoPid, out) \o <<in>> \o When(po.fee > 0, fee)
                 \o When(po.tax > 0, tax) \o When(po.appFee > 0, app)
  BY DEF Legs
<1>3. \A leg \in Ours : leg.key[1] = po.group
  OBVIOUS
<1> HIDE DEF Ours, out, in, fee, tax, app
<1>4. \A c, leg : leg \in Ours => When(c, leg) \in Seq(Ours)
  BY DEF When
<1>5. \A s, t \in Seq(Ours) : s \o t \in Seq(Ours) /\ Len(s \o t) = Len(s) + Len(t)
  OBVIOUS
<1>6. <<in>> \in Seq(Ours) /\ Len(<<in>>) = 1
  BY <1>1
<1> DEFINE s1 == When(po.from # NoPid, out)
<1> DEFINE s2 == s1 \o <<in>>
<1> DEFINE s3 == s2 \o When(po.fee > 0, fee)
<1> DEFINE s4 == s3 \o When(po.tax > 0, tax)
<1> DEFINE s5 == s4 \o When(po.appFee > 0, app)
<1>7. s1 \in Seq(Ours) /\ Len(s1) \in Nat
  BY <1>1, <1>4
<1>8. s2 \in Seq(Ours) /\ Len(s2) >= 1
  BY <1>5, <1>6, <1>7
<1>9. s3 \in Seq(Ours) /\ Len(s3) >= 1
  <2>1. When(po.fee > 0, fee) \in Seq(Ours)
    BY <1>1, <1>4
  <2> HIDE DEF s2
  <2> QED BY <1>5, <1>8, <2>1
<1>10. s4 \in Seq(Ours) /\ Len(s4) >= 1
  <2>1. When(po.tax > 0, tax) \in Seq(Ours)
    BY <1>1, <1>4
  <2> HIDE DEF s3
  <2> QED BY <1>5, <1>9, <2>1
<1>11. s5 \in Seq(Ours) /\ Len(s5) >= 1
  <2>1. When(po.appFee > 0, app) \in Seq(Ours)
    BY <1>1, <1>4
  <2> HIDE DEF s4
  <2> QED BY <1>5, <1>10, <2>1
<1>12. Legs(po) = s5
  BY <1>2
<1> HIDE DEF s5
<1>13. \A k \in 1..Len(s5) : s5[k] \in Ours
  BY <1>11
<1> QED BY <1>3, <1>11, <1>12, <1>13

\* A commit posts its group, and nothing else.
LEMMA PostedBy ==
    ASSUME Core, NEW r \in Reqs, NEW events, PostLegs(r, events)
    PROVE  /\ \A g : Posted(g)' <=> Posted(g) \/ g = tx[r].po.group
           /\ tx'[r] = IdleTx
<1> DEFINE po == tx[r].po
<1> DEFINE h == tx[r].head
<1>1. tx \in [Reqs -> TxType] /\ tx[r] \in TxType /\ RequestOK(r) /\ tx[r].pc = "append"
  BY DEF Core, CoreTypes, PostLegs, At
<1>2. po \in PostingType /\ po.group \in Groups
  BY <1>1 DEF TxType, RequestOK, Subject
<1>3. journal' = journal \cup Chained(Legs(po), h) /\ tx' = [tx EXCEPT ![r] = IdleTx]
  BY DEF PostLegs, End
<1> DEFINE new == Chained(Legs(po), h)
<1>4. Len(Legs(po)) >= 1 /\ \A k \in 1..Len(Legs(po)) : Legs(po)[k].key[1] = po.group
  BY <1>2, LegsOfGroup
<1>5. Len(Legs(po)) \in Nat
  BY <1>2, LegsType
<1>6. \A row \in new : row.key[1] = po.group
  BY <1>4 DEF Chained
<1>7. \E row \in new : TRUE
  <2>1. 1 \in 1..Len(Legs(po))
    BY <1>4, <1>5
  <2> QED BY <2>1 DEF Chained
<1>8. journal' = journal \cup new
  BY <1>3
<1> HIDE DEF new
<1>9. \A g : Posted(g)' <=> Posted(g) \/ g = po.group
  BY <1>6, <1>7, <1>8 DEF Posted
<1> QED BY <1>1, <1>3, <1>9

---------------------------------------------------------------------------
\* Rows settle

\* A settled intent, and a closed payment, never changes again (but a late
\* payment still counts).
IntentsFinal == \A i \in Intents : intent[i].st \in {"cancelled", "posted"} => intent'[i].st = intent[i].st
ClosedFinal  == \A p \in Payments : pay[p].st \in Terminal \cup {"paid"} => pay'[p].st \in {pay[p].st, "paid"}

RowsOK   == RowsAgree /\ IssueOnlyIfPaid /\ FaucetCapped /\ PaidIffCredited
StepGood == Settling' /\ IntentsFinal /\ ClosedFinal

LEMMA RowsStay ==
    ASSUME RowsOK, UNCHANGED <<journal, intent, dep, order, mint, pay, prov>>
    PROVE  RowsOK' /\ IntentsFinal /\ ClosedFinal
<1>1. RowsAgree'
  BY DEF RowsOK, RowsAgree, Posted
<1>2. IssueOnlyIfPaid'
  BY DEF RowsOK, IssueOnlyIfPaid, Posted
<1>3. FaucetCapped' /\ PaidIffCredited'
  BY DEF RowsOK, FaucetCapped, PaidIffCredited, Posted
<1> QED BY <1>1, <1>2, <1>3 DEF RowsOK, IntentsFinal, ClosedFinal

\* A step of one request: the others know what they knew.
LEMMA StepOfOne ==
    ASSUME IndInv, Settling, NEW r \in Reqs,
           \A s \in Reqs \ {r} : LeavesAlone(s) /\ SparesRows(s),
           Knows(r)', RowsOK', IntentsFinal, ClosedFinal
    PROVE  StepGood
<1>1. \A s \in Reqs \ {r} : Knows(s)'
  BY SparedKnows
<1>2. \A s \in Reqs : Knows(s)'
  BY <1>1
<1> QED BY <1>2 DEF StepGood, Settling, RowsOK

\* Only the request itself moves.
LEMMA QuietStep ==
    ASSUME IndInv, Settling, NEW r \in Reqs, \A s \in Reqs \ {r} : LeavesAlone(s), Knows(r)',
           UNCHANGED <<journal, intent, dep, order, mint, pay, prov>>
    PROVE  StepGood
<1>1. RowsOK' /\ IntentsFinal /\ ClosedFinal
  BY RowsStay DEF Settling, RowsOK
<1>2. \A s \in Reqs : SparesRows(s)
  BY SameRows
<1> QED BY <1>1, <1>2, StepOfOne

\* A request ends without a trace.
LEMMA EndStep ==
    ASSUME IndInv, Settling, NEW r \in Reqs, End(r),
           UNCHANGED <<journal, intent, dep, order, mint, pay, prov>>
    PROVE  StepGood
<1>1. CoreTypes
  BY DEF IndInv, Core
<1>2. \A s \in Reqs \ {r} : LeavesAlone(s)
  BY <1>1, OthersAlone
<1>3. tx'[r] = IdleTx
  BY <1>1 DEF End, CoreTypes
<1>4. Knows(r)'
  BY <1>3, NothingKnown
<1> QED BY <1>2, <1>4, QuietStep

\* Nobody's locals or locks move.
LEMMA RowStep ==
    ASSUME IndInv, Settling, UNCHANGED <<tx, lock>>, \A s \in Reqs : SparesRows(s),
           RowsOK', IntentsFinal, ClosedFinal
    PROVE  StepGood
<1>1. \A s \in Reqs : Knows(s)'
  BY SparedKnows DEF LeavesAlone
<1> QED BY <1>1 DEF StepGood, Settling, RowsOK

\* A request that takes its next account.
LEMMA LockAccountSettles ==
    ASSUME IndInv, Settling, NEW r \in Reqs, LockAccount(r), UNCHANGED <<transferVars, payVars>>
    PROVE  StepGood
<1> DEFINE p == NextToLock(tx[r].need)
<1>1. /\ tx \in [Reqs -> TxType] /\ tx[r] \in TxType /\ lock \in [Locks -> Reqs \cup {NoReq}]
      /\ CoreTypes /\ RequestOK(r) /\ Knows(r) /\ r # NoReq
  BY JournalAssumption DEF IndInv, Core, CoreTypes, Settling
<1>2. /\ tx[r].pc = "lock" /\ lock[p] = NoReq /\ lock' = [lock EXCEPT ![p] = r]
      /\ tx' = [tx EXCEPT ![r].need = @ \ {p}, ![r].pc = IF tx[r].need = {p} THEN "check" ELSE "lock"]
      /\ UNCHANGED <<journal, intent, dep, order, mint, pay, prov>>
  BY DEF LockAccount, At, transferVars, payVars
<1> DEFINE t == [tx[r] EXCEPT !.need = @ \ {p}, !.pc = IF tx[r].need = {p} THEN "check" ELSE "lock"]
<1>3. tx' = [tx EXCEPT ![r] = t]
  BY <1>1, <1>2
<1>4. /\ t.op = tx[r].op /\ t.ref = tx[r].ref /\ t.po = tx[r].po /\ t.seen = tx[r].seen
      /\ t.need = tx[r].need \ {p} /\ t.pc = IF tx[r].need = {p} THEN "check" ELSE "lock"
  BY <1>1 DEF TxType
<1> HIDE DEF t
<1>5. \A s \in Reqs \ {r} : LeavesAlone(s)
  BY <1>1, <1>2, <1>3, OthersAlone
<1>6. tx'[r] = t
  BY <1>1, <1>3
<1>7. \A q \in Pids : NextToLock({q}) = q
  <2>1. \A q \in Pids : \E x \in {q} : \A y \in {q} : x <= y
    BY JournalAssumption
  <2> QED BY <2>1 DEF NextToLock
<1>8. p \in Locks => lock'[p] = r
  BY <1>1, <1>2
<1>9. \A x \in Locks : lock[x] = r => lock'[x] = r
  BY <1>1, <1>2
<1>10. ConfirmKnows(r)' /\ IssueKnows(r)' /\ SyncKnows(r)'
  <2>1. ConfirmKnows(r)'
    BY <1>4, <1>6 DEF ConfirmKnows, Past
  <2>2. IssueKnows(r)'
    BY <1>1, <1>4, <1>6 DEF Knows, IssueKnows, Past
  <2>3. SyncKnows(r)'
    BY <1>4, <1>6 DEF SyncKnows, Past
  <2> QED BY <2>1, <2>2, <2>3
<1>11. CancelKnows(r)'
  <2> SUFFICES ASSUME tx[r].op = "cancel" PROVE CancelKnows(r)'
    BY <1>4, <1>6 DEF CancelKnows
  <2>1. /\ tx[r].ref \in Intents /\ intent[tx[r].ref].st # "none"
        /\ tx[r].need = {intent[tx[r].ref].po.from} /\ intent[tx[r].ref].po.from \in Pids
    BY <1>1, <1>2 DEF Knows, CancelKnows, IndInv, IntentsQuoted
  <2>2. p = intent[tx[r].ref].po.from
    BY <2>1, <1>7
  <2>3. t.pc = "check" /\ lock'[intent[tx[r].ref].po.from] = r
    BY <2>1, <2>2, <1>4, <1>8 DEF Locks
  <2> QED BY <2>1, <2>3, <1>2, <1>4, <1>6 DEF CancelKnows
<1>12. MintKnows(r)'
  <2> SUFFICES ASSUME tx[r].op = "mint" PROVE MintKnows(r)'
    BY <1>4, <1>6 DEF MintKnows
  <2>1. tx[r].po.to \in Pids /\ tx[r].need = {tx[r].po.to}
    BY <1>1, <1>2 DEF Knows, MintKnows
  <2>2. p = tx[r].po.to
    BY <2>1, <1>7
  <2>3. t.pc = "check" /\ lock'[tx[r].po.to] = r
    BY <2>1, <2>2, <1>4, <1>8 DEF Locks
  <2> QED BY <2>1, <2>3, <1>4, <1>6 DEF MintKnows, Past
<1>13. RefundKnows(r)'
  <2> SUFFICES ASSUME tx[r].op = "refund" PROVE RefundKnows(r)'
    BY <1>4, <1>6 DEF RefundKnows
  <2>1. /\ tx[r].ref \in Payments /\ \E x \in RefundIds : tx[r].po.group = <<tx[r].ref, x>>
        /\ lock[tx[r].ref] = r /\ pay[tx[r].ref].st = "paid" /\ tx[r].po.net = tx[r].po.gross
        /\ tx[r].po.gross > 0 /\ tx[r].po.gross <= Remaining(tx[r].ref)
    BY <1>1, <1>2 DEF Knows, RefundKnows, RequestOK, Subject
  <2>2. lock'[tx[r].ref] = r /\ t.pc \in {"lock", "check"}
    BY <2>1, <1>4, <1>9 DEF Locks
  <2> QED BY <2>1, <2>2, <1>2, <1>4, <1>6 DEF RefundKnows, Remaining
<1>14. Knows(r)'
  BY <1>10, <1>11, <1>12, <1>13 DEF Knows
<1> QED BY <1>2, <1>5, <1>14, QuietStep

\* A request that takes CHAIN_LOCK and reads the head.
LEMMA LockChainSettles ==
    ASSUME IndInv, Settling, NEW r \in Reqs, LockChain(r), UNCHANGED <<transferVars, payVars>>
    PROVE  StepGood
<1>1. /\ tx \in [Reqs -> TxType] /\ tx[r] \in TxType /\ lock \in [Locks -> Reqs \cup {NoReq}]
      /\ CoreTypes /\ RequestOK(r) /\ Knows(r) /\ r # NoReq
  BY JournalAssumption DEF IndInv, Core, CoreTypes, Settling
<1>2. /\ tx[r].pc = "chain" /\ lock[ChainLock] \in {NoReq, r} /\ lock' = [lock EXCEPT ![ChainLock] = r]
      /\ tx' = [tx EXCEPT ![r].pc = "append", ![r].head = chainHead]
      /\ UNCHANGED <<journal, intent, dep, order, mint, pay, prov>>
  BY DEF LockChain, At, ChainFree, FreeFor, transferVars, payVars
<1> DEFINE t == [tx[r] EXCEPT !.pc = "append", !.head = chainHead]
<1>3. tx' = [tx EXCEPT ![r] = t]
  BY <1>1, <1>2
<1>4. /\ t.op = tx[r].op /\ t.ref = tx[r].ref /\ t.po = tx[r].po /\ t.seen = tx[r].seen
      /\ t.need = tx[r].need /\ t.pc = "append"
  BY <1>1 DEF TxType
<1> HIDE DEF t
<1>5. \A s \in Reqs \ {r} : LeavesAlone(s)
  <2> SUFFICES ASSUME NEW s \in Reqs \ {r} PROVE LeavesAlone(s)
    OBVIOUS
  <2>1. s # r /\ s # NoReq
    BY JournalAssumption
  <2>2. tx'[s] = tx[s]
    BY <2>1, <1>1, <1>3
  <2>3. \A x \in Locks : lock[x] = s => lock'[x] = s
    BY <2>1, <1>1, <1>2
  <2> QED BY <2>2, <2>3 DEF LeavesAlone
<1>6. tx'[r] = t /\ \A x \in Locks : lock[x] = r => lock'[x] = r
  BY <1>1, <1>2, <1>3
<1>7. ConfirmKnows(r)' /\ CancelKnows(r)' /\ IssueKnows(r)' /\ SyncKnows(r)'
  <2>1. ConfirmKnows(r)'
    BY <1>1, <1>2, <1>4, <1>6 DEF Knows, ConfirmKnows, Past
  <2>2. CancelKnows(r)'
    BY <1>1, <1>2, <1>4, <1>6 DEF Knows, CancelKnows
  <2>3. IssueKnows(r)'
    BY <1>1, <1>2, <1>4, <1>6 DEF Knows, IssueKnows, Past
  <2>4. SyncKnows(r)'
    BY <1>1, <1>2, <1>4, <1>6 DEF Knows, SyncKnows, Past
  <2> QED BY <2>1, <2>2, <2>3, <2>4
<1>8. MintKnows(r)'
  <2> SUFFICES ASSUME tx[r].op = "mint" PROVE MintKnows(r)'
    BY <1>4, <1>6 DEF MintKnows
  <2>1. tx[r].po.to \in Pids /\ lock[tx[r].po.to] = r /\ FaucetAllows(tx[r].po.to, tx[r].po.net)
    BY <1>1, <1>2 DEF Knows, MintKnows, Past
  <2>2. lock'[tx[r].po.to] = r /\ UNCHANGED mint
    BY <2>1, <1>2, <1>6 DEF Locks
  <2> QED BY <2>1, <2>2, <1>4, <1>6 DEF MintKnows, Past, FaucetAllows
<1>9. RefundKnows(r)'
  <2> SUFFICES ASSUME tx[r].op = "refund" PROVE RefundKnows(r)'
    BY <1>4, <1>6 DEF RefundKnows
  <2>1. /\ tx[r].ref \in Payments /\ \E x \in RefundIds : tx[r].po.group = <<tx[r].ref, x>>
        /\ lock[tx[r].ref] = r /\ pay[tx[r].ref].st = "paid" /\ tx[r].po.net = tx[r].po.gross
        /\ tx[r].po.gross > 0 /\ tx[r].po.gross <= Remaining(tx[r].ref)
    BY <1>1, <1>2 DEF Knows, RefundKnows, RequestOK, Subject
  <2>2. lock'[tx[r].ref] = r
    BY <2>1, <1>6 DEF Locks
  <2> QED BY <2>1, <2>2, <1>2, <1>4, <1>6 DEF RefundKnows, Remaining
<1>10. Knows(r)'
  BY <1>7, <1>8, <1>9 DEF Knows
<1> QED BY <1>2, <1>5, <1>10, QuietStep

LEMMA JournalStepSettles ==
    ASSUME IndInv, Settling, JournalStep, UNCHANGED <<transferVars, payVars>>
    PROVE  StepGood
<1>1. UNCHANGED <<intent, dep, order, mint, pay, prov>>
  BY DEF transferVars, payVars
<1>2. ASSUME NEW r \in Reqs, LockAccount(r) \/ LockChain(r) PROVE StepGood
  BY <1>2, LockAccountSettles, LockChainSettles
<1>3. ASSUME NEW r \in Reqs, Abort(r) PROVE StepGood
  BY <1>1, <1>3, EndStep DEF Abort
<1>4. ASSUME NEW r \in Reqs, UniqueViolation(r) \/ DeadlockVictim(r) PROVE StepGood
  BY <1>3, <1>4 DEF UniqueViolation, DeadlockVictim
<1>5. ASSUME NEW r \in Reqs, Fault(r) PROVE StepGood
  BY <1>1, <1>5, EndStep DEF Fault
<1>6. ASSUME UNCHANGED <<journal, tx, lock>> PROVE StepGood
  <2>1. RowsOK' /\ IntentsFinal /\ ClosedFinal
    BY <1>1, <1>6, RowsStay DEF Settling, RowsOK
  <2>2. \A s \in Reqs : SparesRows(s)
    BY <1>1, SameRows
  <2> QED BY <1>6, <2>1, <2>2, RowStep
<1>7. ASSUME NEW a \in Apps, SetAppActive(a) PROVE StepGood
  BY <1>6, <1>7 DEF SetAppActive
<1>8. ASSUME setFrozenOverride PROVE StepGood
  BY <1>6, <1>8 DEF setFrozenOverride
<1> QED BY <1>2, <1>4, <1>5, <1>7, <1>8 DEF JournalStep

\* A request starts: it has found out nothing yet.
LEMMA BeginSettles ==
    ASSUME IndInv, Settling, NEW r \in Reqs, NEW op, NEW ref, NEW po, NEW need, NEW pc,
           Begin(r, op, ref, po, need, pc), pc \notin {"chain", "append"},
           op \in {"sync", "cancelpay"} => pc # "pay",
           op = "issue"  => po.group = ref,
           op = "refund" => pc = "pay" /\ \E x \in RefundIds : po.group = <<ref, x>>,
           op = "mint"   => pc = "lock" /\ po.to \in Pids /\ need = {po.to},
           op = "cancel" => /\ pc = "lock" /\ ref \in Intents /\ intent[ref].st # "none"
                            /\ need = {intent[ref].po.from},
           UNCHANGED <<intent, dep, order, mint, pay, prov>>
    PROVE  StepGood
<1> DEFINE t == [IdleTx EXCEPT !.op = op, !.ref = ref, !.po = po, !.need = need, !.pc = pc]
<1>1. tx \in [Reqs -> TxType] /\ CoreTypes
  BY DEF IndInv, Core, CoreTypes
<1>2. tx' = [tx EXCEPT ![r] = t] /\ UNCHANGED <<journal, lock>>
  BY DEF Begin
<1>3. t.op = op /\ t.ref = ref /\ t.po = po /\ t.need = need /\ t.pc = pc /\ t.seen = "none"
  BY DEF IdleTx
<1> HIDE DEF t
<1>4. \A s \in Reqs \ {r} : LeavesAlone(s)
  BY <1>1, <1>2, OthersAlone
<1>5. tx'[r] = t
  BY <1>1, <1>2
<1>6. ConfirmKnows(r)' /\ IssueKnows(r)' /\ SyncKnows(r)'
  BY <1>3, <1>5 DEF ConfirmKnows, IssueKnows, SyncKnows, Past
<1>7. CancelKnows(r)'
  BY <1>3, <1>5 DEF CancelKnows
<1>8. MintKnows(r)'
  BY <1>3, <1>5 DEF MintKnows, Past
<1>9. RefundKnows(r)'
  BY <1>3, <1>5 DEF RefundKnows
<1>10. Knows(r)'
  BY <1>6, <1>7, <1>8, <1>9 DEF Knows
<1> QED BY <1>2, <1>4, <1>10, QuietStep

\* A request passes its check and goes for the chain.
LEMMA CheckedSettles ==
    ASSUME IndInv, Settling, NEW r \in Reqs, Goto(r, "chain"), UNCHANGED lock,
           tx[r].op # "cancel", tx[r].op \notin {"sync", "cancelpay"},
           tx[r].op = "confirm" => intent[tx[r].ref].st = "created",
           tx[r].op = "issue"   => order[tx[r].ref] = "paid",
           tx[r].op \in {"mint", "refund"} => tx[r].pc = "check",
           tx[r].op = "mint" => FaucetAllows(tx[r].po.to, tx[r].po.net),
           UNCHANGED <<journal, intent, dep, order, mint, pay, prov>>
    PROVE  StepGood
<1> DEFINE t == [tx[r] EXCEPT !.pc = "chain"]
<1>1. tx \in [Reqs -> TxType] /\ CoreTypes /\ tx[r] \in TxType /\ Knows(r)
  BY DEF IndInv, Core, CoreTypes, Settling
<1>2. tx' = [tx EXCEPT ![r] = t]
  BY <1>1 DEF Goto
<1>3. /\ t.op = tx[r].op /\ t.ref = tx[r].ref /\ t.po = tx[r].po /\ t.need = tx[r].need
      /\ t.pc = "chain" /\ t.seen = tx[r].seen
  BY <1>1 DEF TxType
<1> HIDE DEF t
<1>4. \A s \in Reqs \ {r} : LeavesAlone(s)
  BY <1>1, <1>2, OthersAlone
<1>5. tx'[r] = t
  BY <1>1, <1>2
<1>6. ConfirmKnows(r)'
  BY <1>3, <1>5 DEF ConfirmKnows
<1>7. IssueKnows(r)'
  BY <1>1, <1>3, <1>5 DEF Knows, IssueKnows
<1>8. SyncKnows(r)' /\ CancelKnows(r)'
  BY <1>3, <1>5 DEF SyncKnows, CancelKnows
<1>9. MintKnows(r)'
  BY <1>1, <1>3, <1>5 DEF Knows, MintKnows, FaucetAllows
<1>10. RefundKnows(r)'
  BY <1>1, <1>3, <1>5 DEF Knows, RefundKnows, Remaining
<1>11. Knows(r)'
  BY <1>6, <1>7, <1>8, <1>9, <1>10 DEF Knows
<1> QED BY <1>4, <1>11, QuietStep

\* A commit, given what it does to the rows.
LEMMA CommitSettles ==
    ASSUME IndInv, Settling, NEW r \in Reqs, NEW events, PostLegs(r, events),
           \A s \in Reqs \ {r} : SparesRows(s), RowsOK', IntentsFinal, ClosedFinal
    PROVE  StepGood
<1>1. Core /\ CoreTypes /\ End(r)
  BY DEF IndInv, Core, PostLegs
<1>2. \A s \in Reqs \ {r} : LeavesAlone(s)
  BY <1>1, OthersAlone
<1>3. Knows(r)'
  BY <1>1, PostedBy, NothingKnown
<1> QED BY <1>2, <1>3, StepOfOne

\* transferConfirm's commit.
LEMMA ConfirmCommitSettles ==
    ASSUME IndInv, Settling, NEW r \in Reqs, ConfirmCommit(r), UNCHANGED payVars
    PROVE  StepGood
<1> DEFINE i == tx[r].ref
<1>1. /\ tx[r].op = "confirm" /\ PostLegs(r, TransferEvents(tx[r].po))
      /\ intent' = [intent EXCEPT ![i].st = "posted"] /\ UNCHANGED <<dep, order, mint, pay, prov>>
  BY DEF ConfirmCommit, payVars
<1>2. /\ Core /\ RequestOK(r) /\ Knows(r) /\ ConfirmsIntent(r) /\ tx[r].pc = "append"
      /\ intent \in [Intents -> IntentType]
  BY <1>1 DEF IndInv, Core, Settling, PostLegs, At, TransferTypes
<1>3. i \in Intents /\ intent[i].st = "created" /\ intent[i].po = tx[r].po
  BY <1>1, <1>2 DEF Knows, ConfirmKnows, ConfirmsIntent, Past
<1>4. tx[r].po.group = i /\ tx[r].po.from \in Pids
  BY <1>3 DEF IndInv, IntentsQuoted
<1>5. lock[tx[r].po.from] = r
  BY <1>2, <1>4 DEF RequestOK, PayerLocked
<1>6. \A g : Posted(g)' <=> Posted(g) \/ g = i
  BY <1>1, <1>2, <1>4, PostedBy
<1>7. /\ intent'[i].st = "posted" /\ intent'[i].po = intent[i].po
      /\ \A j \in Intents \ {i} : intent'[j] = intent[j]
  BY <1>1, <1>2, <1>3 DEF IntentType
<1> HIDE DEF i
<1>8. \A s \in Reqs \ {r} : SparesRows(s)
  BY <1>1, <1>3, <1>5, <1>7 DEF SparesRows
<1>9. RowsAgree'
  BY <1>1, <1>6, <1>7 DEF Settling, RowsAgree
<1>10. IssueOnlyIfPaid' /\ FaucetCapped' /\ PaidIffCredited'
  <2>1. i \notin Deposits /\ i \notin Payments
    BY <1>3, SubjectsApart
  <2>2. IssueOnlyIfPaid'
    BY <1>1, <1>6, <2>1 DEF Settling, IssueOnlyIfPaid
  <2>3. PaidIffCredited'
    BY <1>1, <1>6, <2>1 DEF Settling, PaidIffCredited
  <2>4. FaucetCapped'
    BY <1>1 DEF Settling, FaucetCapped
  <2> QED BY <2>2, <2>3, <2>4
<1>11. IntentsFinal /\ ClosedFinal
  BY <1>1, <1>3, <1>7 DEF IntentsFinal, ClosedFinal
<1> QED BY <1>1, <1>8, <1>9, <1>10, <1>11, CommitSettles DEF RowsOK

\* cancelIntent's commit.
LEMMA CancelCommitSettles ==
    ASSUME IndInv, Settling, NEW r \in Reqs, CancelCommit(r), UNCHANGED payVars
    PROVE  StepGood
<1> DEFINE i == tx[r].ref
<1>1. /\ tx[r].op = "cancel" /\ tx[r].pc = "check" /\ End(r)
      /\ intent' = [intent EXCEPT ![i].st = IF @ = "created" THEN "cancelled" ELSE @]
      /\ UNCHANGED <<journal, dep, order, mint, pay, prov>>
  BY DEF CancelCommit, Abort, At, payVars
<1>2. Core /\ CoreTypes /\ Knows(r) /\ intent \in [Intents -> IntentType]
  BY DEF IndInv, Core, Settling, TransferTypes
<1>3. i \in Intents /\ intent[i].st # "none" /\ lock[intent[i].po.from] = r
  BY <1>1, <1>2 DEF Knows, CancelKnows
<1>4. /\ intent'[i].st = (IF intent[i].st = "created" THEN "cancelled" ELSE intent[i].st)
      /\ intent'[i].po = intent[i].po /\ \A j \in Intents \ {i} : intent'[j] = intent[j]
  BY <1>1, <1>2, <1>3 DEF IntentType
<1>5. \A s \in Reqs \ {r} : LeavesAlone(s)
  BY <1>1, <1>2, OthersAlone
<1>6. tx'[r] = IdleTx
  BY <1>1, <1>2 DEF End, CoreTypes
<1> HIDE DEF i
<1>7. \A s \in Reqs \ {r} : SparesRows(s)
  BY <1>1, <1>3, <1>4 DEF SparesRows
<1>8. RowsAgree'
  <2>1. \A j \in Intents : intent'[j].st = "posted" <=> intent[j].st = "posted"
    BY <1>4
  <2> QED BY <1>1, <2>1 DEF Settling, RowsAgree, Posted
<1>9. IssueOnlyIfPaid' /\ FaucetCapped' /\ PaidIffCredited'
  BY <1>1 DEF Settling, IssueOnlyIfPaid, FaucetCapped, PaidIffCredited, Posted
<1>10. IntentsFinal /\ ClosedFinal
  BY <1>1, <1>4 DEF IntentsFinal, ClosedFinal
<1>11. Knows(r)'
  BY <1>6, NothingKnown
<1> QED BY <1>5, <1>7, <1>8, <1>9, <1>10, <1>11, StepOfOne DEF RowsOK

\* The commit of a correction: no row but the journal.
LEMMA AdjustCommitSettles ==
    ASSUME IndInv, Settling, NEW r \in Reqs, AdjustCommit(r), UNCHANGED payVars
    PROVE  StepGood
<1>1. /\ tx[r].op = "adjust" /\ PostLegs(r, {})
      /\ UNCHANGED <<intent, dep, order, mint, pay, prov>>
  BY DEF AdjustCommit, transferVars, payVars
<1>2. Core /\ RequestOK(r)
  BY DEF IndInv, Core
<1>3. tx[r].po.group \in Adjusts
  BY <1>1, <1>2 DEF RequestOK, Subject
<1>4. /\ tx[r].po.group \notin Intents /\ tx[r].po.group \notin Deposits
      /\ tx[r].po.group \notin Payments
  BY <1>3, SubjectsApart
<1>5. \A g : Posted(g)' <=> Posted(g) \/ g = tx[r].po.group
  BY <1>1, <1>2, PostedBy
<1>6. RowsAgree'
  BY <1>1, <1>4, <1>5 DEF Settling, RowsAgree
<1>7. IssueOnlyIfPaid'
  BY <1>1, <1>4, <1>5 DEF Settling, IssueOnlyIfPaid
<1>8. FaucetCapped' /\ PaidIffCredited'
  <2>1. PaidIffCredited'
    BY <1>1, <1>4, <1>5 DEF Settling, PaidIffCredited
  <2> QED BY <1>1, <2>1 DEF Settling, FaucetCapped
<1>9. IntentsFinal /\ ClosedFinal
  BY <1>1 DEF IntentsFinal, ClosedFinal
<1> QED BY <1>1, <1>6, <1>7, <1>8, <1>9, SameRows, CommitSettles DEF RowsOK

\* The commit of issued credit.
LEMMA IssueCommitSettles ==
    ASSUME IndInv, Settling, NEW r \in Reqs, IssueCommit(r), UNCHANGED payVars
    PROVE  StepGood
<1> DEFINE d == tx[r].ref
<1>1. /\ tx[r].op = "issue" /\ PostLegs(r, DepositEvents(tx[r].po)) /\ tx[r].pc = "append"
      /\ UNCHANGED <<intent, dep, order, mint, pay, prov>>
  BY DEF IssueCommit, PostLegs, At, transferVars, payVars
<1>2. Core /\ RequestOK(r) /\ Knows(r)
  BY DEF IndInv, Core, Settling
<1>3. d \in Deposits /\ tx[r].po.group = d /\ order[d] = "paid"
  BY <1>1, <1>2 DEF RequestOK, Subject, Knows, IssueKnows, Past
<1>4. d \notin Intents /\ d \notin Payments
  BY <1>3, SubjectsApart
<1>5. \A g : Posted(g)' <=> Posted(g) \/ g = d
  BY <1>1, <1>2, <1>3, PostedBy
<1> HIDE DEF d
<1>6. RowsAgree'
  BY <1>1, <1>4, <1>5 DEF Settling, RowsAgree
<1>7. IssueOnlyIfPaid'
  BY <1>1, <1>3, <1>5 DEF Settling, IssueOnlyIfPaid, RowsAgree
<1>8. FaucetCapped' /\ PaidIffCredited'
  <2>1. PaidIffCredited'
    BY <1>1, <1>4, <1>5 DEF Settling, PaidIffCredited
  <2> QED BY <1>1, <2>1 DEF Settling, FaucetCapped
<1>9. IntentsFinal /\ ClosedFinal
  BY <1>1 DEF IntentsFinal, ClosedFinal
<1> QED BY <1>1, <1>6, <1>7, <1>8, <1>9, SameRows, CommitSettles DEF RowsOK

\* The commit of a faucet mint.
LEMMA MintCommitSettles ==
    ASSUME IndInv, Settling, NEW r \in Reqs, MintCommit(r), UNCHANGED payVars
    PROVE  StepGood
<1> DEFINE p == tx[r].po.to
<1> DEFINE new == [calls |-> mint[p].calls + 1, spent |-> mint[p].spent + tx[r].po.net]
<1>1. /\ tx[r].op = "mint" /\ PostLegs(r, {}) /\ tx[r].pc = "append"
      /\ mint' = [mint EXCEPT ![p] = new] /\ UNCHANGED <<intent, dep, order, pay, prov>>
  BY DEF MintCommit, PostLegs, At, payVars
<1>2. /\ Core /\ RequestOK(r) /\ Knows(r) /\ mint \in [Pids -> [calls: Nat, spent: Nat]]
      /\ tx[r].po \in PostingType
  BY DEF IndInv, Core, CoreTypes, Settling, TransferTypes, TxType
<1>3. p \in Pids /\ lock[p] = r /\ FaucetAllows(p, tx[r].po.net)
  BY <1>1, <1>2 DEF Knows, MintKnows, Past
<1>4. tx[r].po.group \in Credits
  BY <1>1, <1>2 DEF RequestOK, Subject
<1>5. /\ tx[r].po.group \notin Intents /\ tx[r].po.group \notin Deposits
      /\ tx[r].po.group \notin Payments
  BY <1>4, SubjectsApart
<1>6. \A g : Posted(g)' <=> Posted(g) \/ g = tx[r].po.group
  BY <1>1, <1>2, PostedBy
<1>7. mint'[p] = new /\ \A q \in Pids \ {p} : mint'[q] = mint[q]
  BY <1>1, <1>2, <1>3
<1>8. new.calls <= FaucetCalls /\ new.spent <= FaucetCap
  <2>1. /\ mint[p].calls \in Nat /\ mint[p].spent \in Nat /\ tx[r].po.net \in Nat
        /\ FaucetCalls \in Nat /\ FaucetCap \in Nat
    BY <1>2, <1>3, TransferAssumption DEF PostingType
  <2> QED BY <2>1, <1>3 DEF FaucetAllows
<1> HIDE DEF p, new
<1>9. \A s \in Reqs \ {r} : SparesRows(s)
  BY <1>1, <1>3, <1>7 DEF SparesRows
<1>10. RowsAgree'
  BY <1>1, <1>5, <1>6 DEF Settling, RowsAgree
<1>11. IssueOnlyIfPaid'
  BY <1>1, <1>5, <1>6 DEF Settling, IssueOnlyIfPaid
<1>12. PaidIffCredited'
  BY <1>1, <1>5, <1>6 DEF Settling, PaidIffCredited
<1>13. FaucetCapped'
  BY <1>7, <1>8 DEF Settling, FaucetCapped
<1>14. IntentsFinal /\ ClosedFinal
  BY <1>1 DEF IntentsFinal, ClosedFinal
<1> QED BY <1>1, <1>9, <1>10, <1>11, <1>12, <1>13, <1>14, CommitSettles DEF RowsOK

\* The steps of transfers, corrections, deposits and the faucet.
LEMMA TransferStepSettles ==
    ASSUME IndInv, Settling, TransferStep, UNCHANGED payVars
    PROVE  StepGood
<1>0. /\ Core /\ CoreTypes /\ UNCHANGED <<pay, prov>> /\ RowsOK
      /\ intent \in [Intents -> IntentType] /\ dep \in [Deposits -> {"open", "confirmed", "blocked"}]
      /\ order \in [Deposits -> {"unpaid", "paid", "mismatch"}]
  BY DEF IndInv, Core, payVars, Settling, RowsOK, TransferTypes
<1>1. ASSUME NEW r \in Reqs, Abort(r), UNCHANGED <<intent, dep, order, mint>> PROVE StepGood
  BY <1>0, <1>1, EndStep DEF Abort

<1>10. ASSUME NEW i \in Intents, NEW from \in Pids, NEW to \in Pids, NEW gross \in Amounts,
              NEW policy \in FeePolicies, NEW verified \in BOOLEAN, NEW a \in active \cup {NoApp},
              transferInquiry(i, from, to, gross, policy, verified, a)
       PROVE  StepGood
  <2>1. PICK po : intent' = [intent EXCEPT ![i] = [st |-> "created", po |-> po]]
    BY <1>10 DEF transferInquiry
  <2>2. intent[i].st = "none" /\ UNCHANGED <<journal, tx, lock, dep, order, mint>>
    BY <1>10 DEF transferInquiry, journalVars
  <2>3. intent'[i].st = "created" /\ \A j \in Intents \ {i} : intent'[j] = intent[j]
    BY <2>1, <1>0
  <2>4. \A s \in Reqs : SparesRows(s)
    BY <2>2, <2>3, <1>0 DEF SparesRows
  <2>5. RowsAgree'
    <3>1. \A j \in Intents : intent'[j].st = "posted" <=> intent[j].st = "posted"
      BY <2>2, <2>3
    <3> QED BY <2>2, <3>1, <1>0 DEF RowsOK, RowsAgree, Posted
  <2>6. IssueOnlyIfPaid' /\ FaucetCapped' /\ PaidIffCredited'
    BY <2>2, <1>0 DEF RowsOK, IssueOnlyIfPaid, FaucetCapped, PaidIffCredited, Posted
  <2>7. IntentsFinal /\ ClosedFinal
    BY <2>2, <2>3, <1>0 DEF IntentsFinal, ClosedFinal
  <2> QED BY <2>2, <2>4, <2>5, <2>6, <2>7, RowStep DEF RowsOK
<1>11. ASSUME NEW r \in Reqs, NEW i \in Intents, transferConfirm(r, i) PROVE StepGood
  <2> DEFINE po == intent[i].po
  <2> DEFINE need == {intent[i].po.from, intent[i].po.to}
  <2>1. Begin(r, "confirm", i, po, need, "lock") /\ UNCHANGED <<intent, dep, order, mint>>
    BY <1>11 DEF transferConfirm, transferVars
  <2> HIDE DEF po, need
  <2> QED BY <2>1, <1>0, BeginSettles
<1>12. ASSUME NEW r \in Reqs, NEW i \in Intents, cancelIntent(r, i) PROVE StepGood
  <2>1. /\ Begin(r, "cancel", i, NoPosting, CancelLocks(i), "lock") /\ intent[i].st # "none"
        /\ UNCHANGED <<intent, dep, order, mint>> /\ CancelLocks(i) = {intent[i].po.from}
    BY <1>12 DEF cancelIntent, transferVars, CancelLocks
  <2> QED BY <2>1, <1>0, BeginSettles
<1>13. ASSUME NEW r \in Reqs, NEW q \in Adjusts, NEW from \in Pids, NEW to \in Pids,
              NEW amount \in Amounts, adminAdjust(r, q, from, to, amount)
       PROVE  StepGood
  <2> DEFINE po == Move(q, "adjust", from, to, amount)
  <2> DEFINE need == {from, to}
  <2>1. Begin(r, "adjust", q, po, need, "lock") /\ UNCHANGED <<intent, dep, order, mint>>
    BY <1>13 DEF adminAdjust, transferVars
  <2> HIDE DEF po, need
  <2> QED BY <2>1, <1>0, BeginSettles
<1>14. ASSUME NEW r \in Reqs, NEW d \in Deposits, issueForDeposit(r, d) PROVE StepGood
  <2> DEFINE po == IssuePosting(d)
  <2>1. Begin(r, "issue", d, po, {}, "corroborate") /\ UNCHANGED <<intent, dep, order, mint>>
    BY <1>14 DEF issueForDeposit, transferVars
  <2>2. po.group = d
    BY DEF IssuePosting, NoPosting
  <2> HIDE DEF po
  <2> QED BY <2>1, <2>2, <1>0, BeginSettles
<1>15. ASSUME NEW r \in Reqs, NEW c \in Credits, NEW p \in Pids, NEW amount \in MintAmounts,
              mintTestCredit(r, c, p, amount)
       PROVE  StepGood
  <2> DEFINE po == [NoPosting EXCEPT !.group = c, !.to = p, !.net = amount]
  <2> DEFINE need == {p}
  <2>1. Begin(r, "mint", c, po, need, "lock") /\ UNCHANGED <<intent, dep, order, mint>>
    BY <1>15 DEF mintTestCredit, transferVars
  <2>2. po.to \in Pids /\ need = {po.to}
    BY DEF NoPosting
  <2> HIDE DEF po, need
  <2> QED BY <2>1, <2>2, <1>0, BeginSettles

<1>20. ASSUME Midnight PROVE StepGood
  <2>1. /\ UNCHANGED <<journal, tx, lock, intent, dep, order>>
        /\ \A p \in Pids : mint'[p] = [calls |-> 0, spent |-> 0]
    BY <1>20 DEF Midnight, NoMints, journalVars
  <2>2. \A s \in Reqs : SparesRows(s)
    BY <2>1, <1>0 DEF SparesRows
  <2>3. FaucetCapped'
    BY <2>1, TransferAssumption DEF FaucetCapped
  <2>4. RowsAgree' /\ IssueOnlyIfPaid' /\ PaidIffCredited'
    BY <2>1, <1>0 DEF RowsOK, RowsAgree, IssueOnlyIfPaid, PaidIffCredited, Posted
  <2>5. IntentsFinal /\ ClosedFinal
    BY <2>1, <1>0 DEF IntentsFinal, ClosedFinal
  <2> QED BY <2>1, <2>2, <2>3, <2>4, <2>5, RowStep DEF RowsOK
<1>21. ASSUME NEW d \in Deposits, NEW how \in {"paid", "mismatch"}, PayOrder(d, how) PROVE StepGood
  <2>1. /\ UNCHANGED <<journal, tx, lock, intent, dep, mint>> /\ order[d] = "unpaid"
        /\ order' = [order EXCEPT ![d] = how]
    BY <1>21 DEF PayOrder, journalVars
  <2>2. \A e \in Deposits : order[e] # "unpaid" => order'[e] = order[e]
    BY <2>1, <1>0
  <2>3. \A s \in Reqs : SparesRows(s)
    BY <2>1, <2>2, <1>0 DEF SparesRows
  <2>4. RowsAgree'
    BY <2>1, <2>2, <1>0 DEF RowsOK, RowsAgree, Posted
  <2>5. IssueOnlyIfPaid'
    BY <2>1, <2>2, <1>0 DEF RowsOK, IssueOnlyIfPaid, Posted
  <2>6. FaucetCapped' /\ PaidIffCredited'
    BY <2>1, <1>0 DEF RowsOK, FaucetCapped, PaidIffCredited, Posted
  <2>7. IntentsFinal /\ ClosedFinal
    BY <2>1, <1>0 DEF IntentsFinal, ClosedFinal
  <2> QED BY <2>1, <2>3, <2>4, <2>5, <2>6, <2>7, RowStep DEF RowsOK
<1>22. ASSUME NEW d \in Deposits, DepositConfirmed(d) PROVE StepGood
  <2>1. /\ UNCHANGED <<journal, tx, lock, intent, order, mint>>
        /\ dep' = [dep EXCEPT ![d] = "confirmed"]
    BY <1>22 DEF DepositConfirmed, journalVars
  <2>2. \A e \in Deposits : dep'[e] = "blocked" => dep[e] = "blocked"
    BY <2>1, <1>0
  <2>3. \A s \in Reqs : SparesRows(s)
    BY <2>1, <1>0 DEF SparesRows
  <2>4. RowsAgree'
    BY <2>1, <2>2, <1>0 DEF RowsOK, RowsAgree, Posted
  <2>5. IssueOnlyIfPaid'
    BY <2>1, <2>2, <1>0 DEF RowsOK, IssueOnlyIfPaid, Posted
  <2>6. FaucetCapped' /\ PaidIffCredited'
    BY <2>1, <1>0 DEF RowsOK, FaucetCapped, PaidIffCredited, Posted
  <2>7. IntentsFinal /\ ClosedFinal
    BY <2>1, <1>0 DEF IntentsFinal, ClosedFinal
  <2> QED BY <2>1, <2>3, <2>4, <2>5, <2>6, <2>7, RowStep DEF RowsOK

<1>30. ASSUME NEW r \in Reqs, ConfirmCheck(r) PROVE StepGood
  <2>1. tx[r].op = "confirm" /\ UNCHANGED <<intent, dep, order, mint>>
    BY <1>30 DEF ConfirmCheck, transferVars
  <2>2. CASE Abort(r)
    BY <2>1, <2>2, <1>1
  <2>3. CASE ConfirmOk(r) /\ Goto(r, "chain") /\ UNCHANGED <<journal, lock>>
    BY <2>1, <2>3, <1>0, CheckedSettles DEF ConfirmOk, StillCreated
  <2> QED BY <2>2, <2>3, <1>30 DEF ConfirmCheck
<1>31. ASSUME NEW r \in Reqs, AdjustCheck(r) PROVE StepGood
  <2>1. tx[r].op = "adjust" /\ UNCHANGED <<intent, dep, order, mint>>
    BY <1>31 DEF AdjustCheck, transferVars
  <2>2. CASE Abort(r)
    BY <2>1, <2>2, <1>1
  <2>3. CASE Goto(r, "chain") /\ UNCHANGED <<journal, lock>>
    BY <2>1, <2>3, <1>0, CheckedSettles
  <2> QED BY <2>2, <2>3, <1>31 DEF AdjustCheck
<1>32. ASSUME NEW r \in Reqs, MintCheck(r) PROVE StepGood
  <2>1. tx[r].op = "mint" /\ tx[r].pc = "check" /\ UNCHANGED <<intent, dep, order, mint>>
    BY <1>32 DEF MintCheck, transferVars, At
  <2>2. CASE Abort(r)
    BY <2>1, <2>2, <1>1
  <2>3. CASE FaucetAllows(tx[r].po.to, tx[r].po.net) /\ Goto(r, "chain") /\ UNCHANGED <<journal, lock>>
    BY <2>1, <2>3, <1>0, CheckedSettles
  <2> QED BY <2>2, <2>3, <1>32 DEF MintCheck
<1>33. ASSUME NEW r \in Reqs, IssueCorroborate(r) PROVE StepGood
  <2> DEFINE d == tx[r].ref
  <2>1. tx[r].op = "issue" /\ UNCHANGED <<intent, order, mint>>
    BY <1>33 DEF IssueCorroborate
  <2>2. CASE Abort(r) /\ UNCHANGED dep
    BY <2>1, <2>2, <1>1
  <2>3. CASE order[d] = "paid" /\ Goto(r, "chain") /\ UNCHANGED <<journal, lock, dep>>
    BY <2>1, <2>3, <1>0, CheckedSettles
  <2>4. CASE order[d] = "mismatch" /\ dep' = [dep EXCEPT ![d] = "blocked"] /\ Abort(r)
    <3>1. End(r) /\ UNCHANGED journal
      BY <2>4 DEF Abort
    <3>2. \A s \in Reqs \ {r} : LeavesAlone(s)
      BY <3>1, <1>0, OthersAlone
    <3>3. Knows(r)'
      BY <3>1, <1>0, NothingKnown DEF End, CoreTypes
    <3>4. \A s \in Reqs : SparesRows(s)
      BY <2>1, <1>0, SameRows
    <3>5. \A e \in Deposits : dep'[e] = dep[e] \/ order[e] = "mismatch"
      BY <2>4, <1>0
    <3> HIDE DEF d
    <3>6. RowsAgree'
      BY <2>1, <3>1, <3>5, <1>0 DEF RowsOK, RowsAgree, Posted
    <3>7. IssueOnlyIfPaid'
      BY <2>1, <3>1, <3>5, <1>0 DEF RowsOK, IssueOnlyIfPaid, Posted
    <3>8. FaucetCapped' /\ PaidIffCredited'
      BY <2>1, <3>1, <1>0 DEF RowsOK, FaucetCapped, PaidIffCredited, Posted
    <3>9. IntentsFinal /\ ClosedFinal
      BY <2>1, <1>0 DEF IntentsFinal, ClosedFinal
    <3> QED BY <3>2, <3>3, <3>4, <3>6, <3>7, <3>8, <3>9, StepOfOne DEF RowsOK
  <2> QED BY <2>2, <2>3, <2>4, <1>33 DEF IssueCorroborate
<1>34. ASSUME NEW r \in Reqs, TransferRequestStep(r) PROVE StepGood
  BY <1>30, <1>31, <1>32, <1>33, <1>34, ConfirmCommitSettles, CancelCommitSettles,
     AdjustCommitSettles, IssueCommitSettles, MintCommitSettles DEF TransferRequestStep
<1> QED BY <1>10, <1>11, <1>12, <1>13, <1>14, <1>15, <1>20, <1>21, <1>22, <1>34 DEF TransferStep

\* create between its statements has found out nothing.
LEMMA CreateKnows ==
    ASSUME IndInv, Settling, NEW r \in Reqs, tx[r].pc \in {"insert", "invoice"},
           NEW pc \in {"invoice", "pend"}, Goto(r, pc), UNCHANGED lock
    PROVE  Knows(r)' /\ \A s \in Reqs \ {r} : LeavesAlone(s)
<1> DEFINE t == [tx[r] EXCEPT !.pc = pc]
<1>1. tx \in [Reqs -> TxType] /\ CoreTypes /\ tx[r] \in TxType /\ Knows(r)
  BY DEF IndInv, Core, CoreTypes, Settling
<1>2. tx' = [tx EXCEPT ![r] = t]
  BY <1>1 DEF Goto
<1>3. t.op = tx[r].op /\ t.ref = tx[r].ref /\ t.po = tx[r].po /\ t.pc = pc
  BY <1>1 DEF TxType
<1> HIDE DEF t
<1>4. tx'[r] = t
  BY <1>1, <1>2
<1>5. tx[r].op \notin {"cancel", "mint", "refund"}
  BY <1>1 DEF Knows, CancelKnows, MintKnows, RefundKnows
<1>6. ConfirmKnows(r)' /\ CancelKnows(r)' /\ SyncKnows(r)'
  BY <1>3, <1>4, <1>5 DEF ConfirmKnows, CancelKnows, SyncKnows, Past
<1>7. IssueKnows(r)' /\ MintKnows(r)' /\ RefundKnows(r)'
  <2>1. IssueKnows(r)'
    BY <1>1, <1>3, <1>4 DEF Knows, IssueKnows, Past
  <2> QED BY <2>1, <1>3, <1>4, <1>5 DEF MintKnows, RefundKnows
<1>8. Knows(r)'
  BY <1>6, <1>7 DEF Knows
<1> QED BY <1>1, <1>2, <1>8, OthersAlone

\* Leaving sync, too.
LEMMA SyncReturnKnows ==
    ASSUME CoreTypes, NEW r \in Reqs, SyncReturn(r)
    PROVE  Knows(r)' /\ \A s \in Reqs \ {r} : LeavesAlone(s)
<1> DEFINE t == IF tx[r].op = "cancelpay"
                THEN [IdleTx EXCEPT !.op = "cancelpay", !.ref = tx[r].ref, !.pc = "mark"]
                ELSE IdleTx
<1>1. tx' = [tx EXCEPT ![r] = t]
  BY DEF SyncReturn
<1>2. t.op \in {"none", "cancelpay"} /\ t.pc \in {"idle", "mark"}
  BY DEF IdleTx
<1> HIDE DEF t
<1>3. tx'[r] = t
  BY <1>1 DEF CoreTypes
<1>4. Knows(r)'
  BY <1>2, <1>3 DEF Knows, ConfirmKnows, CancelKnows, IssueKnows, MintKnows, SyncKnows, RefundKnows, Past
<1> QED BY <1>4, OthersAlone

\* sync with DOKU's answer in hand.
LEMMA AnswerSettles ==
    ASSUME IndInv, Settling, NEW r \in Reqs, tx[r].op \in {"sync", "cancelpay"}, NEW st,
           st = "paid" => prov[tx[r].ref] = "paid",
           tx' = [tx EXCEPT ![r].pc = "pay", ![r].seen = st],
           UNCHANGED <<journal, lock, intent, dep, order, mint, pay, prov>>
    PROVE  StepGood
<1> DEFINE t == [tx[r] EXCEPT !.pc = "pay", !.seen = st]
<1>1. tx \in [Reqs -> TxType] /\ CoreTypes /\ tx[r] \in TxType
  BY DEF IndInv, Core, CoreTypes
<1>2. tx' = [tx EXCEPT ![r] = t]
  BY <1>1
<1>3. t.op = tx[r].op /\ t.ref = tx[r].ref /\ t.pc = "pay" /\ t.seen = st
  BY <1>1 DEF TxType
<1> HIDE DEF t
<1>4. tx'[r] = t
  BY <1>1, <1>2
<1>5. SyncKnows(r)'
  BY <1>3, <1>4 DEF SyncKnows, Past
<1>6. Knows(r)'
  BY <1>3, <1>4, <1>5 DEF Knows, ConfirmKnows, CancelKnows, IssueKnows, MintKnows, RefundKnows
<1>7. \A s \in Reqs \ {r} : LeavesAlone(s)
  BY <1>1, <1>2, OthersAlone
<1> QED BY <1>6, <1>7, QuietStep

\* sync's transaction up to the legs.
LEMMA SyncLockSettles ==
    ASSUME IndInv, Settling, NEW r \in Reqs, SyncLock(r), UNCHANGED transferVars
    PROVE  StepGood
<1> DEFINE p == tx[r].ref
<1> DEFINE st == IF tx[r].seen = "mismatch" THEN "failed" ELSE tx[r].seen
<1>1. /\ tx[r].pc = "pay" /\ tx[r].op \in {"sync", "cancelpay"} /\ lock[p] = NoReq
      /\ UNCHANGED <<journal, prov, intent, dep, order, mint>>
  BY DEF SyncLock, At, transferVars
<1>2. /\ tx \in [Reqs -> TxType] /\ CoreTypes /\ tx[r] \in TxType /\ Knows(r) /\ RequestOK(r)
      /\ pay \in [Payments -> PayType] /\ RowsOK
  BY DEF IndInv, Core, CoreTypes, Settling, RowsOK, PaymentTypes
<1>3. p \in Payments /\ tx[r].seen # "none" /\ (tx[r].seen = "paid" => prov[p] = "paid")
  BY <1>1, <1>2 DEF RequestOK, Subject, Knows, SyncKnows
<1>4. CASE SyncReturn(r) /\ UNCHANGED pay
  BY <1>1, <1>2, <1>4, SyncReturnKnows, QuietStep
<1>5. CASE /\ tx[r].seen = "paid" /\ lock' = [lock EXCEPT ![p] = r] /\ UNCHANGED pay
           /\ tx' = [tx EXCEPT ![r].pc = "chain", ![r].po = PaymentPosting(p)]
  <2> DEFINE t == [tx[r] EXCEPT !.pc = "chain", !.po = PaymentPosting(p)]
  <2>1. tx' = [tx EXCEPT ![r] = t]
    BY <1>2, <1>5
  <2>2. t.op = tx[r].op /\ t.ref = p /\ t.pc = "chain" /\ t.po = PaymentPosting(p)
    BY <1>2 DEF TxType
  <2>3. PaymentPosting(p).group = p
    BY DEF PaymentPosting, NoPosting
  <2>4. \A s \in Reqs \ {r} : LeavesAlone(s)
    BY <1>1, <1>2, <1>5, <2>1, OthersAlone
  <2> HIDE DEF t, p
  <2>5. tx'[r] = t
    BY <1>2, <2>1
  <2>6. SyncKnows(r)'
    BY <1>1, <1>3, <1>5, <2>2, <2>3, <2>5 DEF SyncKnows
  <2>7. Knows(r)'
    BY <1>1, <2>2, <2>5, <2>6 DEF Knows, ConfirmKnows, CancelKnows, IssueKnows, MintKnows, RefundKnows
  <2> QED BY <1>1, <1>5, <2>4, <2>7, QuietStep
<1>6. CASE /\ ~Settled(p, tx[r].seen) /\ tx[r].seen # "paid"
           /\ pay' = [pay EXCEPT ![p].st = st] /\ SyncReturn(r)
  <2>1. pay[p].st # "paid" /\ pay[p].st \notin Terminal
    BY <1>6 DEF Settled
  <2>2. st # "paid"
    BY <1>6
  <2> HIDE DEF st
  <2>3. /\ pay'[p].st = st /\ pay'[p].refunded = pay[p].refunded
        /\ \A q \in Payments \ {p} : pay'[q] = pay[q]
    BY <1>2, <1>3, <1>6 DEF PayType
  <2>4. Knows(r)' /\ \A s \in Reqs \ {r} : LeavesAlone(s)
    BY <1>2, <1>6, SyncReturnKnows
  <2> HIDE DEF p
  <2>5. \A s \in Reqs : SparesRows(s)
    BY <1>1, <2>1, <2>3 DEF SparesRows
  <2>6. RowsAgree'
    BY <1>1, <1>2, <2>1, <2>3 DEF RowsOK, RowsAgree, Posted
  <2>7. PaidIffCredited'
    BY <1>1, <1>2, <2>1, <2>2, <2>3 DEF RowsOK, PaidIffCredited, Posted
  <2>8. IssueOnlyIfPaid' /\ FaucetCapped'
    BY <1>1, <1>2 DEF RowsOK, IssueOnlyIfPaid, FaucetCapped, Posted
  <2>9. IntentsFinal /\ ClosedFinal
    BY <1>1, <2>1, <2>3 DEF IntentsFinal, ClosedFinal
  <2> QED BY <2>4, <2>5, <2>6, <2>7, <2>8, <2>9, StepOfOne DEF RowsOK
<1> QED BY <1>4, <1>5, <1>6 DEF SyncLock

\* sync's commit.
LEMMA SyncCommitSettles ==
    ASSUME IndInv, Settling, NEW r \in Reqs, SyncCommit(r), UNCHANGED transferVars
    PROVE  StepGood
<1> DEFINE p == tx[r].ref
<1>1. /\ tx[r].op \in {"sync", "cancelpay"} /\ tx[r].pc = "append"
      /\ PostLegs(r, PaymentEvent(p, "paid")) /\ pay' = [pay EXCEPT ![p].st = "paid"]
      /\ UNCHANGED <<prov, intent, dep, order, mint>>
  BY DEF SyncCommit, PostLegs, At, transferVars
<1>2. Core /\ RequestOK(r) /\ Knows(r) /\ pay \in [Payments -> PayType] /\ RowsOK
  BY DEF IndInv, Core, Settling, RowsOK, PaymentTypes
<1>3. p \in Payments /\ tx[r].po.group = p /\ prov[p] = "paid"
  BY <1>1, <1>2 DEF RequestOK, Subject, Knows, SyncKnows, Past
<1>4. \A g : Posted(g)' <=> Posted(g) \/ g = p
  BY <1>1, <1>2, <1>3, PostedBy
<1>5. /\ pay'[p].st = "paid" /\ pay'[p].refunded = pay[p].refunded
      /\ (pay[p].st = "paid" => pay'[p] = pay[p])
      /\ \A q \in Payments \ {p} : pay'[q] = pay[q]
  BY <1>1, <1>2, <1>3 DEF PayType
<1>6. p \notin Intents /\ p \notin Deposits
  BY <1>3, SubjectsApart
<1> HIDE DEF p
<1>7. \A s \in Reqs : SparesRows(s)
  BY <1>1, <1>5 DEF SparesRows
<1>8. RowsAgree'
  BY <1>1, <1>2, <1>4, <1>5, <1>6 DEF RowsOK, RowsAgree
<1>9. PaidIffCredited'
  BY <1>1, <1>2, <1>3, <1>4, <1>5 DEF RowsOK, PaidIffCredited
<1>10. IssueOnlyIfPaid' /\ FaucetCapped'
  <2>1. IssueOnlyIfPaid'
    BY <1>1, <1>2, <1>4, <1>6 DEF RowsOK, IssueOnlyIfPaid
  <2> QED BY <2>1, <1>1, <1>2 DEF RowsOK, FaucetCapped
<1>11. IntentsFinal /\ ClosedFinal
  BY <1>1, <1>5 DEF IntentsFinal, ClosedFinal
<1> QED BY <1>1, <1>7, <1>8, <1>9, <1>10, <1>11, CommitSettles DEF RowsOK

\* refund takes the payment lock and fixes its amount.
LEMMA RefundLockSettles ==
    ASSUME IndInv, Settling, NEW r \in Reqs, RefundLock(r), UNCHANGED transferVars
    PROVE  StepGood
<1> DEFINE p == tx[r].ref
<1> DEFINE po == tx[r].po
<1> DEFINE amount == IF po.gross = 0 THEN Remaining(p) ELSE po.gross
<1>1. /\ tx[r].pc = "pay" /\ tx[r].op = "refund" /\ lock[p] = NoReq
      /\ UNCHANGED <<journal, intent, dep, order, mint, pay, prov>>
  BY DEF RefundLock, At, transferVars, payVars
<1>2. /\ tx \in [Reqs -> TxType] /\ lock \in [Locks -> Reqs \cup {NoReq}] /\ CoreTypes
      /\ tx[r] \in TxType /\ po \in PostingType /\ Knows(r) /\ RequestOK(r)
  BY DEF IndInv, Core, CoreTypes, Settling, TxType
<1>3. p \in Payments /\ \E x \in RefundIds : po.group = <<p, x>>
  BY <1>1, <1>2 DEF RequestOK, Subject, Knows, RefundKnows
<1>4. CASE End(r)
  BY <1>1, <1>4, EndStep
<1>5. CASE /\ pay[p].st = "paid" /\ amount > 0 /\ amount <= Remaining(p)
           /\ lock' = [lock EXCEPT ![p] = r]
           /\ tx' = [tx EXCEPT ![r].pc = "lock", ![r].po = [po EXCEPT !.gross = amount, !.net = amount]]
  <2> DEFINE new == [po EXCEPT !.gross = amount, !.net = amount]
  <2> DEFINE t == [tx[r] EXCEPT !.pc = "lock", !.po = new]
  <2>1. tx' = [tx EXCEPT ![r] = t]
    BY <1>2, <1>5
  <2>2. new.group = po.group /\ new.gross = amount /\ new.net = amount
    BY <1>2 DEF PostingType
  <2> HIDE DEF new
  <2>3. t.op = "refund" /\ t.ref = p /\ t.pc = "lock" /\ t.po = new
    BY <1>1, <1>2 DEF TxType
  <2> HIDE DEF t
  <2>4. \A s \in Reqs \ {r} : LeavesAlone(s)
    BY <1>1, <1>2, <1>5, <2>1, OthersAlone
  <2>5. tx'[r] = t /\ lock'[p] = r
    BY <1>2, <1>3, <1>5, <2>1 DEF Locks
  <2> HIDE DEF amount, p, po
  <2>6. RefundKnows(r)'
    BY <1>1, <1>3, <1>5, <2>2, <2>3, <2>5 DEF RefundKnows, Remaining
  <2>7. Knows(r)'
    BY <2>3, <2>5, <2>6 DEF Knows, ConfirmKnows, CancelKnows, IssueKnows, MintKnows, SyncKnows
  <2> QED BY <1>1, <2>4, <2>7, QuietStep
<1> QED BY <1>4, <1>5 DEF RefundLock

\* refund's commit.
LEMMA RefundCommitSettles ==
    ASSUME IndInv, Settling, NEW r \in Reqs, RefundCommit(r), UNCHANGED transferVars
    PROVE  StepGood
<1> DEFINE p == tx[r].ref
<1> DEFINE gross == tx[r].po.gross
<1>1. /\ tx[r].op = "refund" /\ tx[r].pc = "append" /\ PostLegs(r, {})
      /\ pay' = [pay EXCEPT ![p].refunded = @ + gross]
      /\ UNCHANGED <<prov, intent, dep, order, mint>>
  BY DEF RefundCommit, PostLegs, At, transferVars
<1>2. /\ Core /\ RequestOK(r) /\ Knows(r) /\ pay \in [Payments -> PayType] /\ RowsOK
      /\ tx[r].po \in PostingType
  BY DEF IndInv, Core, CoreTypes, Settling, RowsOK, PaymentTypes, TxType
<1>3. /\ p \in Payments /\ lock[p] = r /\ pay[p].st = "paid" /\ gross <= Remaining(p)
      /\ tx[r].po.group \in Payments \X RefundIds
  BY <1>1, <1>2 DEF RequestOK, Subject, Knows, RefundKnows
<1>4. \A g : Posted(g)' <=> Posted(g) \/ g = tx[r].po.group
  BY <1>1, <1>2, PostedBy
<1>5. /\ pay'[p].st = "paid" /\ pay'[p].refunded = pay[p].refunded + gross
      /\ \A q \in Payments \ {p} : pay'[q] = pay[q]
  BY <1>1, <1>2, <1>3 DEF PayType
<1>6. pay'[p].refunded <= PayQuote[p].amount
  <2>1. pay[p].refunded \in Nat /\ PayQuote[p].amount \in Nat /\ gross \in Nat
    BY <1>2, <1>3, PaymentAssumption DEF PayType, PostingType
  <2> QED BY <2>1, <1>3, <1>5 DEF Remaining
<1>7. tx[r].po.group \notin Intents /\ tx[r].po.group \notin Deposits /\ tx[r].po.group \notin Payments
  BY <1>3, SubjectsApart
<1> HIDE DEF p, gross
<1>8. \A s \in Reqs \ {r} : SparesRows(s)
  BY <1>1, <1>3, <1>5 DEF SparesRows
<1>9. RowsAgree'
  BY <1>1, <1>2, <1>4, <1>5, <1>6, <1>7 DEF RowsOK, RowsAgree
<1>10. PaidIffCredited'
  BY <1>1, <1>2, <1>3, <1>4, <1>5, <1>7 DEF RowsOK, PaidIffCredited
<1>11. IssueOnlyIfPaid' /\ FaucetCapped'
  <2>1. IssueOnlyIfPaid'
    BY <1>1, <1>2, <1>4, <1>7 DEF RowsOK, IssueOnlyIfPaid
  <2> QED BY <2>1, <1>1, <1>2 DEF RowsOK, FaucetCapped
<1>12. IntentsFinal /\ ClosedFinal
  BY <1>1, <1>5, <1>3 DEF IntentsFinal, ClosedFinal
<1> QED BY <1>1, <1>8, <1>9, <1>10, <1>11, <1>12, CommitSettles DEF RowsOK

\* The steps of direct payments.
LEMMA PaymentStepSettles ==
    ASSUME IndInv, Settling, PaymentStep, UNCHANGED transferVars
    PROVE  StepGood
<1>0. /\ Core /\ CoreTypes /\ UNCHANGED <<intent, dep, order, mint>> /\ RowsOK
      /\ pay \in [Payments -> PayType]
      /\ prov \in [Payments -> {"none", "open", "paid", "mismatch", "failed", "expired"}]
  BY DEF IndInv, Core, transferVars, Settling, RowsOK, PaymentTypes
<1>1. ASSUME NEW r \in Reqs, Abort(r), UNCHANGED <<pay, prov>> PROVE StepGood
  BY <1>0, <1>1, EndStep DEF Abort
\* A new status of one payment, if it is neither paid nor was.
<1>2. ASSUME NEW r \in Reqs, Knows(r)', \A s \in Reqs \ {r} : LeavesAlone(s),
             UNCHANGED <<journal, prov>>, NEW p \in Payments,
             pay[p].st \in {"none", "created", "pending"}, pay'[p].st # "paid", pay'[p].refunded = 0,
             \A q \in Payments \ {p} : pay'[q] = pay[q]
      PROVE  StepGood
  <2>1. \A s \in Reqs : SparesRows(s)
    BY <1>0, <1>2 DEF SparesRows
  <2>2. \A q \in Payments : PayQuote[q].amount \in Nat
    BY PaymentAssumption
  <2>3. RowsAgree'
    BY <1>0, <1>2, <2>2 DEF RowsOK, RowsAgree, Posted
  <2>4. PaidIffCredited'
    BY <1>0, <1>2 DEF RowsOK, PaidIffCredited, Posted
  <2>5. IssueOnlyIfPaid' /\ FaucetCapped'
    BY <1>0, <1>2 DEF RowsOK, IssueOnlyIfPaid, FaucetCapped, Posted
  <2>6. IntentsFinal /\ ClosedFinal
    BY <1>0, <1>2 DEF IntentsFinal, ClosedFinal, Terminal
  <2> QED BY <1>2, <2>1, <2>3, <2>4, <2>5, <2>6, StepOfOne DEF RowsOK
\* DOKU's invoice moves on.
<1>3. ASSUME UNCHANGED <<journal, pay>>, \A q \in Payments : prov[q] = "paid" => prov'[q] = "paid"
      PROVE  /\ RowsOK' /\ IntentsFinal /\ ClosedFinal
             /\ \A s \in Reqs : SparesRows(s)
  <2>1. RowsAgree' /\ IssueOnlyIfPaid' /\ FaucetCapped'
    BY <1>0, <1>3 DEF RowsOK, RowsAgree, IssueOnlyIfPaid, FaucetCapped, Posted
  <2>2. PaidIffCredited'
    BY <1>0, <1>3 DEF RowsOK, PaidIffCredited, Posted
  <2> QED BY <1>0, <1>3, <2>1, <2>2 DEF RowsOK, IntentsFinal, ClosedFinal, SparesRows

<1>10. ASSUME NEW r \in Reqs, NEW p \in Payments, NEW op \in {"create", "sync", "cancelpay"},
              NEW pc \in {"insert", "corroborate", "mark"},
              Begin(r, op, p, NoPosting, {}, pc), UNCHANGED payVars
       PROVE  StepGood
  <2>1. UNCHANGED <<pay, prov>>
    BY <1>10 DEF payVars
  <2> QED BY <2>1, <1>0, <1>10, BeginSettles
<1>11. ASSUME NEW r \in Reqs, NEW p \in Payments, PaymentCreate(r, p) PROVE StepGood
  BY <1>10, <1>11 DEF PaymentCreate
<1>12. ASSUME NEW r \in Reqs, NEW p \in Payments, notify(r, p) PROVE StepGood
  BY <1>10, <1>12 DEF notify
<1>13. ASSUME NEW r \in Reqs, NEW p \in Payments, reconcile(r, p) PROVE StepGood
  BY <1>10, <1>13 DEF reconcile
<1>14. ASSUME NEW r \in Reqs, NEW p \in Payments, PaymentCancel(r, p) PROVE StepGood
  BY <1>10, <1>14 DEF PaymentCancel
<1>15. ASSUME NEW r \in Reqs, NEW p \in Payments, NEW x \in RefundIds, NEW amount \in RefundAmounts,
              refund(r, p, x, amount)
       PROVE  StepGood
  <2> DEFINE q == PayQuote[p]
  <2> DEFINE po == Move(<<p, x>>, "adjust", q.to, q.payer, amount)
  <2> DEFINE need == {q.to, q.payer}
  <2>1. Begin(r, "refund", p, po, need, "pay") /\ UNCHANGED <<pay, prov>>
    BY <1>15 DEF refund, payVars
  <2>2. po.group = <<p, x>>
    BY DEF Move, NoPosting
  <2> HIDE DEF po, need
  <2> QED BY <2>1, <2>2, <1>0, BeginSettles
<1>16. ASSUME NEW p \in Payments, NEW st \in {"paid", "mismatch", "failed", "expired"}, ProviderStep(p, st)
       PROVE  StepGood
  <2>1. /\ UNCHANGED <<journal, tx, lock, pay>> /\ prov[p] # "paid"
        /\ prov' = [prov EXCEPT ![p] = st]
    BY <1>16 DEF ProviderStep, journalVars
  <2>2. \A q \in Payments : prov[q] = "paid" => prov'[q] = "paid"
    BY <2>1, <1>0
  <2> QED BY <2>1, <2>2, <1>3, RowStep
<1>17. ASSUME NEW p \in Payments, Tick(p) PROVE StepGood
  <2>1. UNCHANGED <<journal, tx, lock, pay, prov>>
    BY <1>17 DEF Tick, journalVars
  <2> QED BY <2>1, <1>3, RowStep

<1>20. ASSUME NEW r \in Reqs, PaymentInsert(r) PROVE StepGood
  <2> DEFINE p == tx[r].ref
  <2>1. tx[r].pc = "insert" /\ UNCHANGED prov
    BY <1>20 DEF PaymentInsert, At
  <2>2. CASE /\ pay[p].st = "none" /\ pay' = [pay EXCEPT ![p] = [st |-> "created", refunded |-> 0]]
             /\ Goto(r, "invoice") /\ UNCHANGED <<journal, lock>>
    <3>1. Knows(r)' /\ \A s \in Reqs \ {r} : LeavesAlone(s)
      BY <2>1, <2>2, CreateKnows
    <3>2. CASE p \in Payments
      <4>1. /\ pay'[p].st = "created" /\ pay'[p].refunded = 0
            /\ \A q \in Payments \ {p} : pay'[q] = pay[q]
        BY <2>2, <3>2, <1>0
      <4> HIDE DEF p
      <4> QED BY <2>1, <2>2, <3>1, <3>2, <4>1, <1>2
    <3>3. CASE p \notin Payments
      <4>1. UNCHANGED pay
        BY <2>2, <3>3, <1>0
      <4> QED BY <2>1, <2>2, <3>1, <4>1, <1>0, QuietStep
    <3> QED BY <3>2, <3>3
  <2>3. CASE Abort(r) /\ UNCHANGED pay
    BY <2>1, <2>3, <1>1
  <2> QED BY <2>2, <2>3, <1>20 DEF PaymentInsert, WonInsert
<1>21. ASSUME NEW r \in Reqs, PaymentInvoice(r) PROVE StepGood
  <2>1. /\ tx[r].pc = "invoice" /\ UNCHANGED pay
        /\ UNCHANGED prov \/ prov' = [prov EXCEPT ![tx[r].ref] = IF @ = "none" THEN "open" ELSE @]
    BY <1>21 DEF PaymentInvoice, At
  <2>2. \A q \in Payments : prov[q] = "paid" => prov'[q] = "paid"
    BY <2>1, <1>0
  <2>3. CASE Goto(r, "pend") /\ UNCHANGED <<journal, lock>>
    BY <2>1, <2>2, <2>3, <1>3, CreateKnows, StepOfOne
  <2>4. CASE Abort(r)
    <3>1. End(r) /\ UNCHANGED journal
      BY <2>4 DEF Abort
    <3>2. Knows(r)' /\ \A s \in Reqs \ {r} : LeavesAlone(s)
      BY <3>1, <1>0, OthersAlone, NothingKnown DEF End, CoreTypes
    <3> QED BY <2>1, <2>2, <3>1, <3>2, <1>3, StepOfOne
  <2> QED BY <2>3, <2>4, <1>21 DEF PaymentInvoice
\* The updates guarded by the status, and nothing else.
<1>22. ASSUME NEW r \in Reqs, Abort(r), UNCHANGED prov, NEW st \in {"pending", "cancelled"},
              NEW from \in SUBSET {"created", "pending"},
              pay' = [pay EXCEPT ![tx[r].ref].st = IF @ \in from THEN st ELSE @]
       PROVE  StepGood
  <2> DEFINE p == tx[r].ref
  <2>1. End(r) /\ UNCHANGED journal
    BY <1>22 DEF Abort
  <2>2. Knows(r)' /\ \A s \in Reqs \ {r} : LeavesAlone(s)
    BY <2>1, <1>0, OthersAlone, NothingKnown DEF End, CoreTypes
  <2>3. CASE p \in Payments /\ pay[p].st \in from
    <3>1. /\ pay'[p].st = st /\ pay'[p].refunded = pay[p].refunded
          /\ \A q \in Payments \ {p} : pay'[q] = pay[q]
      BY <1>0, <1>22, <2>3 DEF PayType
    <3>2. pay[p].refunded = 0
      BY <1>0, <1>22, <2>3 DEF RowsOK, RowsAgree
    <3> HIDE DEF p
    <3> QED BY <1>22, <2>1, <2>2, <2>3, <3>1, <3>2, <1>2
  <2>4. CASE ~(p \in Payments /\ pay[p].st \in from)
    <3>1. UNCHANGED pay
      BY <1>0, <1>22, <2>4 DEF PayType
    <3> QED BY <1>0, <1>22, <2>1, <3>1, EndStep
  <2> QED BY <2>3, <2>4
<1>23. ASSUME NEW r \in Reqs, PaymentPending(r) PROVE StepGood
  <2>1. /\ Abort(r) /\ UNCHANGED prov
        /\ pay' = [pay EXCEPT ![tx[r].ref].st = IF @ \in {"created"} THEN "pending" ELSE @]
    BY <1>23 DEF PaymentPending
  <2> QED BY <2>1, <1>22
<1>24. ASSUME NEW r \in Reqs, CancelMark(r) PROVE StepGood
  <2>1. /\ Abort(r) /\ UNCHANGED prov
        /\ pay' = [pay EXCEPT ![tx[r].ref].st = IF @ \in {"created", "pending"} THEN "cancelled" ELSE @]
    BY <1>24, <1>0 DEF CancelMark, Cancellable
  <2> QED BY <2>1, <1>22
<1>25. ASSUME NEW r \in Reqs, SyncCorroborate(r) PROVE StepGood
  <2> DEFINE st == SyncStatus(tx[r].ref)
  <2>1. tx[r].op \in {"sync", "cancelpay"} /\ UNCHANGED <<journal, pay, prov>>
    BY <1>25 DEF SyncCorroborate, payVars
  <2>2. CASE tx' = [tx EXCEPT ![r].pc = "pay", ![r].seen = st] /\ UNCHANGED lock
    <3>1. st = "paid" => prov[tx[r].ref] = "paid"
      BY DEF SyncStatus
    <3> HIDE DEF st
    <3> QED BY <2>1, <2>2, <3>1, <1>0, AnswerSettles
  <2>3. CASE SyncReturn(r)
    BY <2>1, <2>3, <1>0, SyncReturnKnows, QuietStep
  <2>4. CASE End(r)
    BY <2>1, <2>4, <1>0, EndStep
  <2> QED BY <2>2, <2>3, <2>4, <1>25 DEF SyncCorroborate
<1>26. ASSUME NEW r \in Reqs, RefundCheck(r) PROVE StepGood
  <2>1. tx[r].op = "refund" /\ tx[r].pc = "check" /\ UNCHANGED <<pay, prov>>
    BY <1>26 DEF RefundCheck, At, payVars
  <2>2. CASE Abort(r)
    BY <2>1, <2>2, <1>1
  <2>3. CASE Goto(r, "chain") /\ UNCHANGED <<journal, lock>>
    BY <2>1, <2>3, <1>0, CheckedSettles
  <2> QED BY <2>2, <2>3, <1>26 DEF RefundCheck
<1>27. ASSUME NEW r \in Reqs, PaymentRequestStep(r) PROVE StepGood
  BY <1>20, <1>21, <1>23, <1>24, <1>25, <1>26, <1>27, SyncLockSettles, SyncCommitSettles,
     RefundLockSettles, RefundCommitSettles DEF PaymentRequestStep
<1> QED BY <1>11, <1>12, <1>13, <1>14, <1>15, <1>16, <1>17, <1>27 DEF PaymentStep

LEMMA InitSettles == Init => Settling
<1> SUFFICES ASSUME Init PROVE Settling
  OBVIOUS
<1> USE DEF Init, JournalInit, TransferInit, PaymentInit
<1>1. \A r \in Reqs : Knows(r)
  BY DEF Knows, ConfirmKnows, CancelKnows, IssueKnows, MintKnows, SyncKnows, RefundKnows, Past, IdleTx
<1>2. RowsAgree /\ IssueOnlyIfPaid /\ PaidIffCredited
  BY PaymentAssumption DEF RowsAgree, IssueOnlyIfPaid, PaidIffCredited, Posted
<1>3. FaucetCapped
  BY TransferAssumption DEF FaucetCapped, NoMints
<1> QED BY <1>1, <1>2, <1>3 DEF Settling

---------------------------------------------------------------------------
\* What the rows promise

\* Rows, postings and what the requests know stay in step, and what is
\* settled stays settled.
THEOREM SettlingInvariance == Spec => []Settling /\ [][IntentsFinal /\ ClosedFinal]_vars
<1>1. IndInv /\ Settling /\ [Next]_vars => Settling' /\ IntentsFinal /\ ClosedFinal
  <2> SUFFICES ASSUME IndInv, Settling, [Next]_vars PROVE StepGood
    BY DEF StepGood
  <2>1. CASE TransferStep /\ UNCHANGED payVars
    BY <2>1, TransferStepSettles
  <2>2. CASE PaymentStep /\ UNCHANGED transferVars
    BY <2>2, PaymentStepSettles
  <2>3. CASE JournalStep /\ UNCHANGED <<transferVars, payVars>>
    BY <2>3, JournalStepSettles
  <2>4. CASE UNCHANGED vars
    <3>1. UNCHANGED <<tx, lock, journal, intent, dep, order, mint, pay, prov>>
      BY <2>4 DEF vars, journalVars, transferVars, payVars
    <3>2. RowsOK' /\ IntentsFinal /\ ClosedFinal
      BY <3>1, RowsStay DEF Settling, RowsOK
    <3>3. \A s \in Reqs : SparesRows(s)
      BY <3>1, SameRows
    <3> QED BY <3>1, <3>2, <3>3, RowStep
  <2> QED BY <2>1, <2>2, <2>3, <2>4 DEF Next, Quiet
<1>2. IndInv /\ Settling /\ [Next]_vars => [IntentsFinal /\ ClosedFinal]_vars
  BY <1>1
<1> QED BY <1>1, <1>2, InitSettles, Invariance, PTL DEF Spec

\* issueForDeposit: credit only for what DOKU says is paid in full.
THEOREM IssuesArePaid == Spec => []IssueOnlyIfPaid
<1>1. Settling => IssueOnlyIfPaid
  BY DEF Settling
<1> QED BY <1>1, SettlingInvariance, PTL

\* mintTestCredit: concurrent calls of one identity stay within the day's cap.
THEOREM FaucetStaysCapped == Spec => []FaucetCapped
<1>1. Settling => FaucetCapped
  BY DEF Settling
<1> QED BY <1>1, SettlingInvariance, PTL

\* sync: a payment is credited exactly when its row says paid.
THEOREM PaymentsAreCredited == Spec => []PaidIffCredited
<1>1. Settling => PaidIffCredited
  BY DEF Settling
<1> QED BY <1>1, SettlingInvariance, PTL

\* transferConfirm and cancelIntent: one of them wins, for good.
THEOREM IntentsSettle == Spec => IntentsSettleOnce
<1>1. [IntentsFinal /\ ClosedFinal]_vars =>
      [\A i \in Intents : intent[i].st \in {"cancelled", "posted"} => intent'[i].st = intent[i].st]_vars
  BY DEF IntentsFinal
<1> QED BY <1>1, SettlingInvariance, PTL DEF IntentsSettleOnce

\* sync and cancel: only a confirmed payment reopens a closed row.
THEOREM ClosedPaymentsStayClosed == Spec => ClosedStaysClosed
<1>1. [IntentsFinal /\ ClosedFinal]_vars =>
      [\A p \in Payments : pay[p].st \in Terminal \cup {"paid"} => pay'[p].st \in {pay[p].st, "paid"}]_vars
  BY DEF ClosedFinal
<1> QED BY <1>1, SettlingInvariance, PTL DEF ClosedStaysClosed
=============================================================================
