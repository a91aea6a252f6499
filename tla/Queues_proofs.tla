---------------------------- MODULE Queues_proofs ----------------------------
(***************************************************************************)
(* Proofs about the two queues that pollers drain: the batch queue, for    *)
(* any number of batches, operations and requests, any prices and          *)
(* policies, and the webhook outbox, for any number of replicas, events,   *)
(* replays and attempts; both without a bound on time.                     *)
(***************************************************************************)
EXTENDS BatchQueue, WebhookOutbox, WellFoundedInduction, TLAPS

---------------------------------------------------------------------------
\* The batch queue

Settling == {"simulate", "submit", "settle"}
Pcs == {"idle", "create", "flush", "next", "session", "void", "start", "reap", "expire"} \cup Settling
Statuses == Finals \cup {"none", "queued", "submitted"}

QuoteType == [base: Nat, ver: DOMAIN Bps \cup {0}, exp: Nat]
RowType == [status: Statuses, due: Nat, at: Nat, quote: QuoteType, max: Nat, ok: SUBSET Nat, paid: Int]
RunnerType ==
    [pc: Pcs, now: Nat, b: Batches \cup {NoBatch}, todo: SUBSET Batches, k: Nat, ver: DOMAIN Bps \cup {0},
     quote: QuoteType, max: Nat, ok: SUBSET Nat, spent: Nat, wasted: Nat, halted: BOOLEAN]

BatchTypeOK ==
    /\ quote \in [Batches -> QuoteType] /\ batch \in [Batches -> RowType]
    /\ runner \in [Runners -> RunnerType]
    /\ policy \in DOMAIN Bps /\ price \in Nat /\ bclock \in Nat

\* A ceiling other than 0 is the total of its quote.
Locked(q, max) == max > 0 => max = WithFee(q.base, q.ver)

\* A row's ceiling was locked by its quote, and its charge stays below.
RowLocked(row) == Locked(row.quote, row.max) /\ row.paid <= row.max

\* What a request is to settle it has seen landing, under a policy it has read.
RunnerTrue(r, landed) ==
    /\ r.pc \notin {"idle", "flush", "next", "reap"} => r.b \in Batches
    /\ r.pc = "create" => Locked(r.quote, r.max)
    /\ r.pc \in Settling => r.ver \in DOMAIN Bps
    /\ r.pc \notin Settling => r.ok = {}
    /\ \A k \in r.ok : <<r.b, k>> \in landed

\* The inductive invariant of the queue.
BatchInv ==
    /\ BatchTypeOK
    /\ \A b \in Batches : RowLocked(batch[b])
    /\ \A w \in Runners : RunnerTrue(runner[w], opsLanded)
    /\ ReceiptsTruthful

USE BatchConstants

---------------------------------------------------------------------------
\* Amounts

\* The library's Min is the minimum of a set of natural numbers.
LEMMA MinIs ==
    ASSUME NEW S \in SUBSET Nat, S # {}
    PROVE  Min(S) \in S /\ \A y \in S : Min(S) <= y
<1>1. IsWellFoundedOn(OpToRel(<, Nat), Nat)
  BY NatLessThanWellFounded
<1>2. PICK x \in S : \A y \in S : ~(<<y, x>> \in OpToRel(<, Nat))
  BY <1>1, WFMin
<1>3. \A y \in S : ~(y < x)
  BY <1>2 DEF OpToRel
<1>4. \E z \in S : \A y \in S : z <= y
  BY <1>3
<1> QED BY <1>4 DEF Min

LEMMA MinOfTwo ==
    ASSUME NEW x \in Int, NEW y \in Int
    PROVE  Min({x, y}) \in Int /\ Min({x, y}) <= y
<1>1. \E z \in {x, y} : \A u \in {x, y} : z <= u
  OBVIOUS
<1> QED BY <1>1 DEF Min

LEMMA WithFeeType ==
    ASSUME NEW amount \in Nat, NEW v \in DOMAIN Bps
    PROVE  WithFee(amount, v) \in Nat
<1>1. Bps[v] \in Nat
  OBVIOUS
<1>2. amount * Bps[v] \in Nat
  BY <1>1
<1>3. (amount * Bps[v]) \div 10000 \in Nat
  BY <1>2
<1> QED BY <1>3 DEF WithFee

---------------------------------------------------------------------------
\* Rows and requests

LEMMA BatchInitInv == BatchInit => BatchInv
<1> SUFFICES ASSUME BatchInit PROVE BatchInv
  OBVIOUS
<1>1. price \in Nat
  BY MinIs DEF BatchInit
<1>2. NoQuote \in QuoteType /\ NoRow \in RowType /\ Resting \in RunnerType
  BY DEF NoQuote, NoRow, Resting, QuoteType, RowType, RunnerType, Pcs, Statuses
<1>3. BatchTypeOK
  BY <1>1, <1>2 DEF BatchInit, BatchTypeOK
<1>4. RowLocked(NoRow) /\ NoRow.ok = {}
  BY DEF NoRow, RowLocked, Locked
<1>5. \A landed : RunnerTrue(Resting, landed)
  BY DEF Resting, RunnerTrue, Settling
<1> QED BY <1>3, <1>4, <1>5 DEF BatchInit, BatchInv, ReceiptsTruthful

LEMMA RestingOK == Resting \in RunnerType /\ \A landed : RunnerTrue(Resting, landed)
BY DEF Resting, RunnerType, RunnerTrue, Settling, Pcs, NoQuote, QuoteType

LEMMA MoreLanded ==
    ASSUME NEW r, NEW old, NEW new, old \subseteq new, RunnerTrue(r, old)
    PROVE  RunnerTrue(r, new)
BY DEF RunnerTrue

\* A step that moves request w and writes at most one row.
LEMMA StepKeeps ==
    ASSUME BatchInv, NEW w \in Runners, NEW r \in RunnerType, Set(w, r),
           opsLanded \subseteq opsLanded', UNCHANGED <<quote, policy, price, bclock>>,
           NEW b, NEW row \in RowType, batch' = batch \/ batch' = [batch EXCEPT ![b] = row],
           RowLocked(row), \A k \in row.ok : <<b, k>> \in opsLanded,
           RunnerTrue(r, opsLanded')
    PROVE  BatchInv'
<1>1. \A v \in Runners : runner'[v] = IF v = w THEN r ELSE runner[v]
  BY DEF Set, BatchInv, BatchTypeOK
<1>2. \A c \in Batches : batch'[c] = batch[c] \/ (c = b /\ batch'[c] = row)
  BY DEF BatchInv, BatchTypeOK
<1>3. batch' \in [Batches -> RowType] /\ runner' \in [Runners -> RunnerType]
  BY DEF Set, BatchInv, BatchTypeOK
<1>4. BatchTypeOK'
  BY <1>3 DEF BatchInv, BatchTypeOK
<1>5. \A c \in Batches : RowLocked(batch'[c])
  BY <1>2 DEF BatchInv
<1>6. \A v \in Runners : RunnerTrue(runner'[v], opsLanded')
  BY <1>1, MoreLanded DEF BatchInv
<1>7. ReceiptsTruthful'
  BY <1>2 DEF BatchInv, ReceiptsTruthful
<1> QED BY <1>4, <1>5, <1>6, <1>7 DEF BatchInv, RowLocked, Locked, WithFee

\* The same when no row is written.
LEMMA MoveKeeps ==
    ASSUME BatchInv, NEW w \in Runners, NEW r \in RunnerType, Set(w, r),
           opsLanded \subseteq opsLanded', UNCHANGED <<batch, quote, policy, price, bclock>>,
           RunnerTrue(r, opsLanded')
    PROVE  BatchInv'
<1>1. NoRow \in RowType /\ RowLocked(NoRow) /\ NoRow.ok = {}
  BY DEF NoRow, RowType, Statuses, NoQuote, QuoteType, RowLocked, Locked
<1> QED BY <1>1, StepKeeps

\* A write of a status leaves the receipts alone.
LEMMA WriteKeeps ==
    ASSUME BatchInv, NEW b \in Batches, NEW status \in Statuses, Write(b, status),
           NEW w \in Runners, NEW r \in RunnerType, Set(w, r),
           UNCHANGED <<opsLanded, quote, policy, price, bclock>>, RunnerTrue(r, opsLanded)
    PROVE  BatchInv'
<1> DEFINE row == [batch[b] EXCEPT !.status = status, !.at = bclock]
<1>1. batch[b] \in RowType /\ RowLocked(batch[b]) /\ \A k \in batch[b].ok : <<b, k>> \in opsLanded
  BY DEF BatchInv, BatchTypeOK, ReceiptsTruthful
<1>2. batch' = [batch EXCEPT ![b] = row]
  BY DEF Write
<1>3. row \in RowType /\ row.ok = batch[b].ok /\ row.max = batch[b].max
      /\ row.paid = batch[b].paid /\ row.quote = batch[b].quote
  BY <1>1 DEF RowType, BatchInv, BatchTypeOK
<1>4. RowLocked(row)
  BY <1>1, <1>3 DEF RowLocked, Locked
<1> HIDE DEF row
<1> QED BY <1>1, <1>2, <1>3, <1>4, StepKeeps

\* A request that holds no receipts may go anywhere but into a settlement.
LEMMA Emptyhanded ==
    ASSUME NEW r, r.ok = {}, r.pc \notin Settling, r.pc # "create",
           r.pc \in {"idle", "flush", "next", "reap"} \/ r.b \in Batches
    PROVE  \A landed : RunnerTrue(r, landed)
BY DEF RunnerTrue, Settling

---------------------------------------------------------------------------
\* One lemma for each action

LEMMA CreateOK ==
    ASSUME BatchInv, NEW w \in Runners,
           \/ \E b \in Batches : submitBatch(w, b)
           \/ createBatch(w)
    PROVE  BatchInv'
<1> DEFINE old == runner[w]
<1>0. old \in RunnerType /\ RunnerTrue(old, opsLanded) /\ bclock \in Nat /\ policy \in DOMAIN Bps
  BY DEF BatchInv, BatchTypeOK
<1>p. "create" \in Pcs /\ "session" \in Pcs /\ "flush" \in Pcs /\ "create" \notin Settling
  BY DEF Pcs, Settling
<1>r. Resting \in RunnerType /\ Resting.ok = {}
  BY RestingOK DEF Resting
<1>1. ASSUME NEW b \in Batches, submitBatch(w, b) PROVE BatchInv'
  <2>1. quote[b] \in QuoteType /\ WithFee(quote[b].base, policy) \in Nat
    BY <1>0, WithFeeType DEF BatchInv, BatchTypeOK, QuoteType
  <2>2. PICK max \in Nat : max = WithFee(quote[b].base, policy)
    BY <2>1
  <2> DEFINE r == [Resting EXCEPT !.pc = "create", !.b = b, !.now = bclock, !.quote = quote[b], !.max = max]
  <2>3. r \in RunnerType /\ r.pc = "create" /\ r.b = b /\ r.ok = {} /\ r.quote = quote[b] /\ r.max = max
    BY <1>0, <1>p, <1>r, <2>1 DEF RunnerType
  <2>5. Set(w, r)
    BY <1>1, <2>2 DEF submitBatch
  <2> HIDE DEF r
  <2>4. RunnerTrue(r, opsLanded)
    BY <1>1, <1>p, <2>2, <2>3 DEF RunnerTrue, Locked, submitBatch, QuoteBinds
  <2> QED BY <1>1, <2>3, <2>4, <2>5, MoveKeeps DEF submitBatch
<1>2. ASSUME createBatch(w) PROVE BatchInv'
  <2> DEFINE b == old.b
             row == [status |-> IF b \in Bypassing THEN "submitted" ELSE "queued",
                     due |-> old.now + Window, at |-> bclock, quote |-> old.quote, max |-> old.max,
                     ok |-> {}, paid |-> 0]
  <2>1. b \in Batches /\ Locked(old.quote, old.max) /\ old.now \in Nat
    BY <1>0, <1>2 DEF createBatch, On, RunnerTrue, RunnerType
  <2>2. row \in RowType /\ RowLocked(row) /\ row.ok = {}
    BY <1>0, <2>1 DEF RowType, RunnerType, Statuses, RowLocked
  <2> DEFINE ToSession == [Resting EXCEPT !.pc = "session", !.b = b, !.now = old.now]
             ToFlush == [Resting EXCEPT !.pc = "flush", !.now = old.now]
             r == IF b \in Bypassing THEN ToSession ELSE ToFlush
  <2>7. ToSession \in RunnerType /\ ToSession.pc = "session" /\ ToSession.b = b /\ ToSession.ok = {}
    BY <1>p, <1>r, <2>1 DEF RunnerType
  <2>8. ToFlush \in RunnerType /\ ToFlush.pc = "flush" /\ ToFlush.ok = {}
    BY <1>p, <1>r, <2>1 DEF RunnerType
  <2>9. batch[b] = NoRow => Set(w, r)
    BY <1>2 DEF createBatch
  <2> HIDE DEF ToSession, ToFlush
  <2>3. r \in RunnerType /\ r.ok = {} /\ r.pc \in {"session", "flush"} /\ (r.pc = "session" => r.b = b)
    BY <2>7, <2>8
  <2> HIDE DEF r
  <2>4. RunnerTrue(r, opsLanded)
    BY <2>1, <2>3, Emptyhanded DEF Settling
  <2>5. CASE batch[b] # NoRow
    <3>1. Set(w, Resting) /\ UNCHANGED batch
      BY <1>2, <2>5 DEF createBatch, Rest
    <3> QED BY <1>2, <3>1, RestingOK, MoveKeeps DEF createBatch
  <2>6. CASE batch[b] = NoRow
    <3>1. batch' = [batch EXCEPT ![b] = row] /\ Set(w, r)
      BY <1>2, <2>6, <2>9 DEF createBatch, NoRow
    <3> HIDE DEF row
    <3> QED BY <1>2, <3>1, <2>2, <2>3, <2>4, StepKeeps DEF createBatch
  <2> QED BY <2>5, <2>6
<1> QED BY <1>1, <1>2

\* A request without receipts that moves on, to a named batch or to none.
LEMMA RestKeeps ==
    ASSUME BatchInv, NEW w \in Runners, NEW r \in RunnerType, Set(w, r), r.ok = {},
           r.pc \in {"idle", "flush", "next", "reap"} \/ (r.pc \in {"session", "void", "start", "expire"} /\ r.b \in Batches),
           UNCHANGED <<batch, opsLanded, quote, policy, price, bclock>>
    PROVE  BatchInv'
<1>1. r.pc \notin Settling /\ r.pc # "create"
  BY DEF Settling
<1>2. r.pc \in {"idle", "flush", "next", "reap"} \/ r.b \in Batches
  OBVIOUS
<1>3. RunnerTrue(r, opsLanded')
  BY <1>1, <1>2, Emptyhanded
<1> QED BY <1>3, MoveKeeps

LEMMA FlushOK ==
    ASSUME BatchInv, NEW w \in Runners,
           flushDueBatches(w) \/ nextBatch(w) \/ \E b \in Batches : cancelQueuedBatch(w, b)
    PROVE  BatchInv'
<1> DEFINE old == runner[w]
<1>0. old \in RunnerType /\ RunnerTrue(old, opsLanded) /\ bclock \in Nat
  BY DEF BatchInv, BatchTypeOK
<1>d. \A now : Due(now) \in SUBSET Batches /\ Stale(now) \in SUBSET Batches
  BY DEF Due, Stale
<1>p. {"idle", "flush", "next", "reap", "session", "expire"} \subseteq Pcs
  BY DEF Pcs
<1>r. Resting \in RunnerType /\ Resting.ok = {} /\ Resting.pc = "idle"
  BY RestingOK DEF Resting
<1>1. ASSUME flushDueBatches(w) PROVE BatchInv'
  <2>0. UNCHANGED <<batch, opsLanded, quote, policy, price, bclock>>
    BY <1>1 DEF flushDueBatches
  <2>1. CASE Set(w, Resting)
    BY <2>0, <2>1, <1>r, RestKeeps
  <2>2. CASE Set(w, [Resting EXCEPT !.pc = "next", !.now = bclock, !.todo = Due(bclock)])
    <3> DEFINE r == [Resting EXCEPT !.pc = "next", !.now = bclock, !.todo = Due(bclock)]
    <3>1. r \in RunnerType /\ r.pc = "next" /\ r.ok = {}
      BY <1>0, <1>d, <1>p, <1>r DEF RunnerType
    <3> HIDE DEF r
    <3> QED BY <2>0, <2>2, <3>1, RestKeeps DEF r
  <2>3. CASE old.pc = "flush" /\ Set(w, [old EXCEPT !.pc = "next", !.todo = Due(old.now)])
    <3> DEFINE r == [old EXCEPT !.pc = "next", !.todo = Due(old.now)]
    <3>1. old.ok = {}
      BY <1>0, <2>3 DEF RunnerTrue, Settling
    <3>2. r \in RunnerType /\ r.pc = "next" /\ r.ok = {}
      BY <1>0, <1>d, <1>p, <3>1 DEF RunnerType
    <3> HIDE DEF r
    <3> QED BY <2>0, <2>3, <3>2, RestKeeps DEF r
  <2> QED BY <1>1, <2>1, <2>2, <2>3 DEF flushDueBatches, On
<1>2. ASSUME nextBatch(w) PROVE BatchInv'
  <2>0. UNCHANGED <<batch, opsLanded, quote, policy, price, bclock>>
    BY <1>2 DEF nextBatch
  <2>e. old.ok = {}
    BY <1>0, <1>2 DEF nextBatch, On, RunnerTrue, Settling
  <2>1. CASE Set(w, Resting)
    BY <2>0, <2>1, <1>r, RestKeeps
  <2>2. CASE Set(w, [old EXCEPT !.pc = "reap", !.todo = Stale(old.now)])
    <3> DEFINE r == [old EXCEPT !.pc = "reap", !.todo = Stale(old.now)]
    <3>1. r \in RunnerType /\ r.pc = "reap" /\ r.ok = {}
      BY <1>0, <1>d, <1>p, <2>e DEF RunnerType
    <3> HIDE DEF r
    <3> QED BY <2>0, <2>2, <3>1, RestKeeps DEF r
  <2>3. ASSUME NEW b \in old.todo, Set(w, [old EXCEPT !.pc = "session", !.b = b, !.todo = old.todo \ {b}])
        PROVE  BatchInv'
    <3> DEFINE r == [old EXCEPT !.pc = "session", !.b = b, !.todo = old.todo \ {b}]
    <3>1. old.todo \in SUBSET Batches
      BY <1>0 DEF RunnerType
    <3>2. b \in Batches /\ old.todo \ {b} \in SUBSET Batches
      BY <3>1
    <3>3. r \in RunnerType /\ r.pc = "session" /\ r.b = b /\ r.ok = {}
      BY <1>0, <1>p, <2>e, <3>2 DEF RunnerType
    <3> HIDE DEF r
    <3> QED BY <2>0, <2>3, <3>2, <3>3, RestKeeps DEF r
  <2>4. \A b : [old EXCEPT !.pc = "session", !.b = b, !.todo = @ \ {b}]
             = [old EXCEPT !.pc = "session", !.b = b, !.todo = old.todo \ {b}]
    BY <1>0 DEF RunnerType
  <2> QED BY <1>2, <2>1, <2>2, <2>3, <2>4 DEF nextBatch
<1>3. ASSUME NEW b \in Batches, cancelQueuedBatch(w, b) PROVE BatchInv'
  <2> DEFINE r == [Resting EXCEPT !.pc = "expire", !.b = b]
  <2>1. r \in RunnerType /\ r.ok = {} /\ r.pc = "expire" /\ r.b = b
    BY <1>0, <1>p, <1>r DEF RunnerType
  <2>3. Set(w, r)
    BY <1>3 DEF cancelQueuedBatch
  <2> HIDE DEF r
  <2> QED BY <1>3, <2>1, <2>3, RestKeeps DEF cancelQueuedBatch
<1> QED BY <1>1, <1>2, <1>3

\* Where settleBatch returns to holds no receipts.
LEMMA ReturnOK ==
    ASSUME BatchInv, NEW w \in Runners, Return(w)
    PROVE  \E r \in RunnerType : Set(w, r) /\ RunnerTrue(r, opsLanded)
<1> DEFINE old == runner[w]
           r == [Resting EXCEPT !.pc = "next", !.now = old.now, !.todo = old.todo]
<1>1. old \in RunnerType /\ old.now \in Nat /\ old.todo \in SUBSET Batches
  BY DEF BatchInv, BatchTypeOK, RunnerType
<1>2. "next" \in Pcs /\ "next" \notin Settling /\ Resting \in RunnerType /\ Resting.ok = {}
  BY RestingOK DEF Resting, Pcs, Settling
<1>3. r \in RunnerType /\ r.ok = {} /\ r.pc = "next"
  BY <1>1, <1>2 DEF RunnerType
<1>4. Set(w, Resting) \/ Set(w, r)
  BY DEF Return, Rest
<1> HIDE DEF r
<1>5. RunnerTrue(r, opsLanded)
  BY <1>2, <1>3, Emptyhanded
<1> QED BY <1>3, <1>4, <1>5, RestingOK

LEMMA SessionOK ==
    ASSUME BatchInv, NEW w \in Runners, checkSession(w) \/ voidBatch(w) \/ startBatch(w)
    PROVE  BatchInv'
<1> DEFINE old == runner[w]
<1>0. old \in RunnerType /\ RunnerTrue(old, opsLanded) /\ policy \in DOMAIN Bps
  BY DEF BatchInv, BatchTypeOK
<1>p. {"start", "void", "simulate"} \subseteq Pcs /\ "simulate" \in Settling
      /\ {"failed", "submitted"} \subseteq Statuses
  BY DEF Pcs, Settling, Statuses, Finals
<1>1. ASSUME checkSession(w) PROVE BatchInv'
  <2>1. old.ok = {} /\ old.b \in Batches
    BY <1>0, <1>1 DEF checkSession, On, RunnerTrue, Settling
  <2>2. ASSUME NEW pc \in {"start", "void"}, Set(w, [old EXCEPT !.pc = pc]) PROVE BatchInv'
    <3> DEFINE r == [old EXCEPT !.pc = pc]
    <3>1. r \in RunnerType /\ r.ok = {} /\ r.pc \in {"start", "void"} /\ r.b \in Batches
      BY <1>0, <1>p, <2>1 DEF RunnerType
    <3>2. Set(w, r)
      BY <2>2
    <3> HIDE DEF r
    <3> QED BY <1>1, <3>1, <3>2, RestKeeps DEF checkSession
  <2> QED BY <1>1, <2>2 DEF checkSession
<1>2. ASSUME voidBatch(w) PROVE BatchInv'
  <2>1. old.b \in Batches
    BY <1>0, <1>2 DEF voidBatch, On, RunnerTrue
  <2>2. PICK r \in RunnerType : Set(w, r) /\ RunnerTrue(r, opsLanded)
    BY <1>2, ReturnOK DEF voidBatch
  <2> QED BY <1>2, <1>p, <2>1, <2>2, WriteKeeps DEF voidBatch
<1>3. ASSUME startBatch(w) PROVE BatchInv'
  <2>1. old.ok = {} /\ old.b \in Batches
    BY <1>0, <1>3 DEF startBatch, On, RunnerTrue, Settling
  <2> DEFINE r == [old EXCEPT !.pc = "simulate", !.k = 1, !.ver = policy]
  <2>2. r \in RunnerType /\ r.ok = {} /\ r.pc = "simulate" /\ r.b \in Batches /\ r.ver \in DOMAIN Bps
    BY <1>0, <1>p, <2>1 DEF RunnerType
  <2>3. Set(w, r)
    BY <1>3 DEF startBatch
  <2> HIDE DEF r
  <2>4. RunnerTrue(r, opsLanded)
    BY <1>p, <2>2 DEF RunnerTrue
  <2> QED BY <1>3, <1>p, <2>1, <2>2, <2>3, <2>4, WriteKeeps DEF startBatch
<1> QED BY <1>1, <1>2, <1>3

\* After an operation a request holds the receipts it was given.
LEMMA AfterKeeps ==
    ASSUME BatchInv, NEW w \in Runners, NEW r \in RunnerType, NEW failed \in BOOLEAN,
           r.b \in Batches, r.ver \in DOMAIN Bps, \A k \in r.ok : <<r.b, k>> \in opsLanded',
           After(w, r, failed), opsLanded \subseteq opsLanded',
           UNCHANGED <<batch, quote, policy, price, bclock>>
    PROVE  BatchInv'
<1> DEFINE halt == failed /\ r.b \in AtomicBatches
<1>1. r.k + 1 \in Nat
  BY DEF RunnerType
<1>2. PICK pc \in {"settle", "simulate"} :
        Set(w, IF halt THEN [r EXCEPT !.halted = TRUE, !.k = r.k + 1, !.pc = pc]
               ELSE [r EXCEPT !.halted = FALSE, !.k = r.k + 1, !.pc = pc])
  <2>1. CASE halt
    BY <2>1 DEF After
  <2>2. CASE ~halt
    BY <2>2 DEF After
  <2> QED BY <2>1, <2>2
<1> DEFINE stopped == [r EXCEPT !.halted = TRUE, !.k = r.k + 1, !.pc = pc]
           goesOn == [r EXCEPT !.halted = FALSE, !.k = r.k + 1, !.pc = pc]
<1>3. pc \in Pcs /\ pc \in Settling
  BY <1>2 DEF Pcs, Settling
<1>4. /\ stopped \in RunnerType /\ stopped.pc = pc /\ stopped.b = r.b /\ stopped.ok = r.ok /\ stopped.ver = r.ver
      /\ goesOn \in RunnerType /\ goesOn.pc = pc /\ goesOn.b = r.b /\ goesOn.ok = r.ok /\ goesOn.ver = r.ver
  BY <1>1, <1>3 DEF RunnerType
<1>7. Set(w, stopped) \/ Set(w, goesOn)
  BY <1>2
<1> HIDE DEF stopped, goesOn
<1>5. PICK s \in RunnerType : Set(w, s) /\ s.pc = pc /\ s.b = r.b /\ s.ok = r.ok /\ s.ver = r.ver
  BY <1>4, <1>7
<1>6. RunnerTrue(s, opsLanded')
  BY <1>3, <1>5 DEF RunnerTrue, Settling
<1> QED BY <1>5, <1>6, MoveKeeps

LEMMA OperationOK ==
    ASSUME BatchInv, NEW w \in Runners, simulate(w) \/ submit(w)
    PROVE  BatchInv'
<1> DEFINE old == runner[w]
           op == <<old.b, old.k>>
<1>0. old \in RunnerType /\ RunnerTrue(old, opsLanded) /\ price \in Nat
  BY DEF BatchInv, BatchTypeOK
<1>1. old.pc \in {"simulate", "submit"}
  BY DEF simulate, submit, On
<1>2. old.b \in Batches /\ old.ver \in DOMAIN Bps /\ \A k \in old.ok : <<old.b, k>> \in opsLanded
  BY <1>0, <1>1 DEF RunnerTrue, Settling
<1>3. ASSUME simulate(w) PROVE BatchInv'
  <2>1. CASE Set(w, [old EXCEPT !.pc = "submit"])
    <3> DEFINE r == [old EXCEPT !.pc = "submit"]
    <3>1. r \in RunnerType /\ r.pc = "submit" /\ r.b = old.b /\ r.ver = old.ver /\ r.ok = old.ok
      BY <1>0 DEF RunnerType, Pcs, Settling
    <3>2. Set(w, r)
      BY <2>1
    <3> HIDE DEF r
    <3>3. RunnerTrue(r, opsLanded)
      BY <1>2, <3>1 DEF RunnerTrue, Settling
    <3> QED BY <1>3, <3>1, <3>2, <3>3, MoveKeeps DEF simulate
  <2>2. CASE After(w, old, TRUE)
    BY <1>0, <1>2, <1>3, <2>2, AfterKeeps DEF simulate
  <2> QED BY <1>3, <2>1, <2>2 DEF simulate
<1>4. ASSUME submit(w) PROVE BatchInv'
  <2>0. UNCHANGED <<batch, quote, policy, price, bclock>>
    BY <1>4 DEF submit
  <2>1. CASE /\ opsLanded' = opsLanded \cup {op}
             /\ After(w, [old EXCEPT !.ok = old.ok \cup {old.k}, !.spent = old.spent + price], FALSE)
    <3> DEFINE r == [old EXCEPT !.ok = old.ok \cup {old.k}, !.spent = old.spent + price]
    <3>1. old.k \in Nat /\ old.ok \in SUBSET Nat /\ old.spent + price \in Nat
      BY <1>0 DEF RunnerType
    <3>2. old.ok \cup {old.k} \in SUBSET Nat
      BY <3>1
    <3>3. r \in RunnerType /\ r.b = old.b /\ r.ver = old.ver /\ r.ok = old.ok \cup {old.k}
      BY <1>0, <3>1, <3>2 DEF RunnerType
    <3>4. After(w, r, FALSE)
      BY <2>1
    <3> HIDE DEF r
    <3>5. \A k \in r.ok : <<r.b, k>> \in opsLanded'
      BY <1>2, <2>1, <3>3
    <3> QED BY <1>2, <2>0, <2>1, <3>3, <3>4, <3>5, AfterKeeps
  <2>2. CASE After(w, [old EXCEPT !.wasted = old.wasted + price], TRUE) /\ UNCHANGED opsLanded
    <3> DEFINE r == [old EXCEPT !.wasted = old.wasted + price]
    <3>1. r \in RunnerType /\ r.b = old.b /\ r.ver = old.ver /\ r.ok = old.ok
      BY <1>0 DEF RunnerType
    <3>2. After(w, r, TRUE)
      BY <2>2
    <3> HIDE DEF r
    <3> QED BY <1>2, <2>0, <2>2, <3>1, <3>2, AfterKeeps
  <2>3. CASE After(w, old, TRUE) /\ opsLanded \subseteq opsLanded'
    BY <1>0, <1>2, <2>0, <2>3, AfterKeeps
  <2>4. /\ [old EXCEPT !.ok = @ \cup {old.k}, !.spent = @ + price]
             = [old EXCEPT !.ok = old.ok \cup {old.k}, !.spent = old.spent + price]
        /\ [old EXCEPT !.wasted = @ + price] = [old EXCEPT !.wasted = old.wasted + price]
    BY <1>0 DEF RunnerType
  <2> QED BY <1>4, <2>1, <2>2, <2>3, <2>4 DEF submit
<1> QED BY <1>3, <1>4

LEMMA SettleOK ==
    ASSUME BatchInv, NEW w \in Runners, settle(w)
    PROVE  BatchInv'
<1> DEFINE old == runner[w]
           b == old.b
           paid == Charge(old)
           status == IF old.halted THEN "failed" ELSE IF old.ok # 1..OpCount[b] THEN "partial" ELSE "settled"
           row == [batch[b] EXCEPT !.status = status, !.at = bclock, !.ok = old.ok, !.paid = paid]
<1>1. /\ old \in RunnerType /\ b \in Batches /\ old.ver \in DOMAIN Bps
      /\ \A k \in old.ok : <<b, k>> \in opsLanded
  BY DEF BatchInv, BatchTypeOK, settle, On, RunnerTrue, Settling
<1>2. batch[b] \in RowType /\ RowLocked(batch[b]) /\ bclock \in Nat
  BY <1>1 DEF BatchInv, BatchTypeOK
<1>3. paid \in Int /\ paid <= batch[b].max
  <2>1. WithFee(old.spent, old.ver) \in Nat /\ old.wasted \in Nat /\ batch[b].max \in Nat
    BY <1>1, <1>2, WithFeeType DEF RunnerType, RowType
  <2>2. WithFee(old.spent, old.ver) + old.wasted \in Int
    BY <2>1
  <2>3. batch[b].max \in Int
    BY <2>1
  <2> QED BY <2>2, <2>3, MinOfTwo, Zenon DEF Charge
<1>4. status \in Statuses /\ old.ok \in SUBSET Nat
  BY <1>1 DEF Statuses, Finals, RunnerType
<1>5. batch' = [batch EXCEPT ![b] = row]
  BY DEF settle
<1> HIDE DEF paid, status
<1>6. row \in RowType /\ row.quote = batch[b].quote /\ row.max = batch[b].max /\ row.paid = paid /\ row.ok = old.ok
  BY <1>2, <1>3, <1>4 DEF RowType
<1> HIDE DEF row
<1>7. RowLocked(row)
  BY <1>2, <1>3, <1>6 DEF RowLocked
<1>8. PICK r \in RunnerType : Set(w, r) /\ RunnerTrue(r, opsLanded)
  BY ReturnOK DEF settle
<1>9. UNCHANGED <<quote, opsLanded, policy, price, bclock>>
  BY DEF settle
<1> QED BY <1>1, <1>5, <1>6, <1>7, <1>8, <1>9, StepKeeps

LEMMA EndOK ==
    ASSUME BatchInv, NEW w \in Runners, reapStaleSubmitted(w) \/ expireBatch(w) \/ CrashRunner(w)
    PROVE  BatchInv'
<1> DEFINE old == runner[w]
<1>0. old \in RunnerType /\ RunnerTrue(old, opsLanded)
  BY DEF BatchInv, BatchTypeOK
<1>1. ASSUME reapStaleSubmitted(w) PROVE BatchInv'
  <2>0. UNCHANGED <<opsLanded, quote, policy, price, bclock>>
    BY <1>1 DEF reapStaleSubmitted
  <2>1. PICK b \in old.todo :
          /\ Set(w, IF old.todo = {b} THEN Resting ELSE [old EXCEPT !.todo = @ \ {b}])
          /\ Write(b, "failed") \/ UNCHANGED batch
    BY <1>1 DEF reapStaleSubmitted
  <2> DEFINE left == [old EXCEPT !.todo = old.todo \ {b}]
  <2>2. b \in Batches /\ old.todo \ {b} \in SUBSET Batches
    BY <1>0, <2>1 DEF RunnerType
  <2>3. old.pc = "reap" /\ old.ok = {}
    BY <1>0, <1>1 DEF reapStaleSubmitted, On, RunnerTrue, Settling
  <2>4. left \in RunnerType /\ left.pc = "reap" /\ left.ok = {}
    BY <1>0, <2>2, <2>3 DEF RunnerType
  <2>5. Set(w, Resting) \/ Set(w, left)
    BY <1>0, <2>1 DEF RunnerType
  <2> HIDE DEF left
  <2>6. PICK r \in RunnerType : Set(w, r) /\ RunnerTrue(r, opsLanded)
    BY <2>4, <2>5, RestingOK, Emptyhanded DEF Settling
  <2>7. "failed" \in Statuses
    BY DEF Statuses, Finals
  <2> QED BY <2>0, <2>1, <2>2, <2>6, <2>7, WriteKeeps, MoveKeeps
<1>2. ASSUME expireBatch(w) PROVE BatchInv'
  <2>1. old.b \in Batches /\ "expired" \in Statuses
    BY <1>0, <1>2 DEF expireBatch, On, RunnerTrue, Statuses, Finals
  <2> QED BY <1>2, <2>1, RestingOK, WriteKeeps DEF expireBatch, Rest
<1>3. ASSUME CrashRunner(w) PROVE BatchInv'
  BY <1>3, RestingOK, MoveKeeps DEF CrashRunner, Rest
<1> QED BY <1>1, <1>2, <1>3

\* Clients, administrators, the chain and time: no row and no request changes.
LEMMA AroundOK ==
    ASSUME BatchInv,
           \/ \E b \in Batches : estimateBatch(b) \/ RevokeGrant(b)
           \/ \E v \in DOMAIN Bps : activatePolicy(v)
           \/ \E p \in Prices : Reprice(p)
           \/ BatchTick
           \/ UNCHANGED batchVars
    PROVE  BatchInv'
<1>1. UNCHANGED <<batch, runner, opsLanded>>
  BY DEF estimateBatch, RevokeGrant, activatePolicy, Reprice, BatchTick, batchVars
<1>0. policy \in DOMAIN Bps /\ price \in Nat /\ bclock \in Nat /\ Prices \subseteq Nat
  BY DEF BatchInv, BatchTypeOK
<1>a. policy' \in DOMAIN Bps
  BY <1>0 DEF estimateBatch, RevokeGrant, activatePolicy, Reprice, BatchTick, batchVars
<1>b. price' \in Nat
  BY <1>0 DEF estimateBatch, RevokeGrant, activatePolicy, Reprice, BatchTick, batchVars
<1>c. bclock' = bclock \/ bclock' = bclock + 1
  BY DEF estimateBatch, RevokeGrant, activatePolicy, Reprice, BatchTick, batchVars
<1>2. policy' \in DOMAIN Bps /\ price' \in Nat /\ bclock' \in Nat
  BY <1>0, <1>a, <1>b, <1>c
<1>3. quote' \in [Batches -> QuoteType]
  <2>1. CASE UNCHANGED quote
    BY <2>1 DEF BatchInv, BatchTypeOK
  <2>2. ASSUME NEW b \in Batches, estimateBatch(b) PROVE quote' \in [Batches -> QuoteType]
    <3> DEFINE q == [base |-> OpCount[b] * price, ver |-> policy, exp |-> bclock + Window]
    <3>1. OpCount[b] \in Nat /\ price \in Nat /\ policy \in DOMAIN Bps /\ bclock \in Nat /\ Window \in Nat
      BY DEF BatchInv, BatchTypeOK
    <3>2. OpCount[b] * price \in Nat /\ bclock + Window \in Nat
      BY <3>1
    <3>3. q \in QuoteType
      BY <3>1, <3>2 DEF QuoteType
    <3>4. quote' = [quote EXCEPT ![b] = q]
      BY <2>2 DEF estimateBatch
    <3> HIDE DEF q
    <3> QED BY <3>3, <3>4 DEF BatchInv, BatchTypeOK
  <2> QED BY <2>1, <2>2 DEF RevokeGrant, activatePolicy, Reprice, BatchTick, batchVars
<1>4. BatchTypeOK'
  BY <1>1, <1>2, <1>3 DEF BatchInv, BatchTypeOK
<1>5. \A b \in Batches : RowLocked(batch'[b])
  BY <1>1 DEF BatchInv
<1>6. \A w \in Runners : RunnerTrue(runner'[w], opsLanded')
  BY <1>1 DEF BatchInv
<1>7. ReceiptsTruthful'
  BY <1>1 DEF BatchInv, ReceiptsTruthful
<1> QED BY <1>4, <1>5, <1>6, <1>7 DEF BatchInv, RowLocked, Locked, WithFee

---------------------------------------------------------------------------
\* Theorems

THEOREM BatchInvariance == BatchSpec => []BatchInv
<1>1. BatchInit => BatchInv
  BY BatchInitInv
<1>2. BatchInv /\ [BatchNext]_batchVars => BatchInv'
  <2> SUFFICES ASSUME BatchInv, [BatchNext]_batchVars PROVE BatchInv'
    OBVIOUS
  <2>1. ASSUME NEW w \in Runners, BatchStep(w) PROVE BatchInv'
    BY <2>1, CreateOK, FlushOK, SessionOK, OperationOK, SettleOK, EndOK DEF BatchStep
  <2> QED BY <2>1, CreateOK, FlushOK, EndOK, AroundOK DEF BatchNext
<1> QED BY <1>1, <1>2, PTL DEF BatchSpec

\* What the user is charged never exceeds what the quote showed, though prices
\* and the fee policy change between quote, submission and settlement and two
\* flushes may settle one batch (batch-queue.service.ts, settleBatch).
THEOREM NeverAboveQuote == BatchSpec => []PaysNoMoreThanQuoted
<1>1. BatchInv => PaysNoMoreThanQuoted
  <2> SUFFICES ASSUME BatchInv, NEW b \in Batches, batch[b].paid > 0
               PROVE  batch[b].paid <= WithFee(batch[b].quote.base, batch[b].quote.ver)
    BY DEF PaysNoMoreThanQuoted
  <2>1. batch[b].paid \in Int /\ batch[b].max \in Nat
    BY DEF BatchInv, BatchTypeOK, RowType
  <2>2. batch[b].paid <= batch[b].max /\ Locked(batch[b].quote, batch[b].max)
    BY DEF BatchInv, RowLocked
  <2>3. batch[b].max > 0
    BY <2>1, <2>2
  <2> QED BY <2>2, <2>3 DEF Locked
<1> QED BY <1>1, BatchInvariance, PTL

\* An operation the receipts of a batch show as executed is on chain, also
\* when several requests settled the batch or its answers were lost
\* (batch-queue.service.ts, the receipts settleBatch writes).
THEOREM ReceiptsAreTruthful == BatchSpec => []ReceiptsTruthful
<1>1. BatchInv => ReceiptsTruthful
  BY DEF BatchInv
<1> QED BY <1>1, BatchInvariance, PTL

---------------------------------------------------------------------------
\* The webhook outbox

Instants == [at: Int, by: Dispatchers \cup {Nobody}]
EventType == [status: {"pending", "delivered", "failed"}, attempts: 0..MaxAttempts, next: Instants]
PostType ==
    [pc: {"idle", "lease", "post", "sending", "result"}, e: Events \cup {Nobody}, next: Instants,
     attempts: 0..MaxAttempts, since: Int, answer: {"none", "2xx", "error"}]

\* Every record of the outbox has its fields.
Shapes ==
    /\ event \in [Events -> EventType]
    /\ post \in [Dispatchers -> PostType]
    /\ oclock \in Nat /\ received \subseteq Events

\* An event that has used its attempts up is not pending.
AttemptsBounded == \A e \in Events : event[e].status = "pending" => event[e].attempts < MaxAttempts

\* A delivery under a lease holds an instant only it can have written, and is of
\* an event, attempted once at least ...
OwnLease ==
    \A x \in Dispatchers :
        /\ post[x].pc # "idle" => post[x].e \in Events /\ post[x].attempts > 0
        /\ post[x].pc \in {"post", "sending", "result"} => post[x].next.by = x

\* ... and an answer it may still record was given since the last replay.
AnswerStands ==
    \A x \in Dispatchers :
        post[x].pc = "result" /\ post[x].answer = "2xx" /\ StillLeased(x) => post[x].e \in received

\* The inductive invariant of the outbox.
OutboxInv == Shapes /\ AttemptsBounded /\ OwnLease /\ AnswerStands /\ DeliveredWasReceived

HIDE BatchConstants
USE OutboxConstants

LEMMA InstantType ==
    ASSUME NEW at \in Int, NEW by \in Dispatchers \cup {Nobody}
    PROVE  Instant(at, by) \in Instants /\ Instant(at, by).by = by
BY DEF Instant, Instants

LEMMA RestingType == Resting0 \in PostType /\ Resting0.pc = "idle"
BY InstantType DEF Resting0, PostType

\* The delay before the next attempt is a number of seconds.
LEMMA BackoffType == ASSUME NEW n \in Nat PROVE Backoff(n) \in Int
<1> DEFINE p == 2^n
<1>1. p \in Int
  OBVIOUS
<1> HIDE DEF p
<1>2. \E d \in {MaxBackoff, p} : \A c \in {MaxBackoff, p} : d <= c
  BY <1>1
<1>3. Min({MaxBackoff, p}) \in Int
  BY <1>1, <1>2 DEF Min
<1> QED BY <1>3 DEF Backoff, p

\* A number of attempts is recorded with a delay in seconds.
LEMMA RetryType ==
    ASSUME Shapes, NEW n \in 1..MaxAttempts, NEW st \in {"failed", "pending"}
    PROVE  LET row == [status |-> st, attempts |-> n, next |-> Instant(oclock + Backoff(n), Nobody)]
           IN  row \in EventType /\ row.next.by = Nobody /\ row.status = st /\ row.attempts = n
<1>1. oclock + Backoff(n) \in Int
  BY BackoffType DEF Shapes
<1>2. n \in 0..MaxAttempts
  OBVIOUS
<1> QED BY <1>1, <1>2, InstantType DEF EventType

\* What a step of dispatcher x, at event e, owes the invariant: the argument of
\* the proof.  The event's next instant is left alone, or is x's, or nobody's, so
\* no other delivery's lease comes to stand by it.
LEMMA StepKeepsInv ==
    ASSUME OutboxInv, NEW x \in Dispatchers, NEW new \in PostType, NEW e \in Events, NEW row \in EventType,
           event' = [event EXCEPT ![e] = row], post' = [post EXCEPT ![x] = new],
           oclock' = oclock, received \subseteq received', received' \subseteq Events,
           row.status = "pending" => row.attempts < MaxAttempts,
           row.status = "delivered" => e \in received',
           row.next = event[e].next \/ row.next.by \in {x, Nobody},
           new.pc # "idle" => new.e \in Events /\ new.attempts > 0,
           new.pc \in {"post", "sending", "result"} => new.next.by = x,
           new.pc = "result" /\ new.answer = "2xx" /\ event'[new.e].next = new.next => new.e \in received'
    PROVE  OutboxInv'
<1>1. /\ \A d \in Events : event'[d] = IF d = e THEN row ELSE event[d]
      /\ \A y \in Dispatchers : post'[y] = IF y = x THEN new ELSE post[y]
  BY DEF OutboxInv, Shapes
<1>2. Shapes'
  BY DEF OutboxInv, Shapes
<1>3. AttemptsBounded'
  BY <1>1 DEF OutboxInv, AttemptsBounded
<1>4. DeliveredWasReceived'
  BY <1>1 DEF OutboxInv, DeliveredWasReceived
<1>5. OwnLease'
  BY <1>1 DEF OutboxInv, OwnLease
<1>6. ASSUME NEW y \in Dispatchers, post'[y].pc = "result", post'[y].answer = "2xx", StillLeased(y)'
      PROVE  post'[y].e \in received'
  <2>1. CASE y = x
    BY <1>1, <1>6, <2>1 DEF StillLeased
  <2>2. CASE y # x
    <3>1. post'[y] = post[y] /\ post[y].e \in Events /\ post[y].next.by = y
      BY <1>1, <1>6, <2>2 DEF OutboxInv, OwnLease
    <3>2. event'[post[y].e].next.by \notin {x, Nobody}
      BY <1>6, <2>2, <3>1 DEF StillLeased
    <3>3. event'[post[y].e].next = event[post[y].e].next
      BY <1>1, <3>1, <3>2
    <3>4. StillLeased(y)
      BY <1>6, <3>1, <3>3 DEF StillLeased
    <3> QED BY <1>6, <3>1, <3>4 DEF OutboxInv, AnswerStands
  <2> QED BY <2>1, <2>2
<1>7. AnswerStands'
  BY <1>6 DEF AnswerStands
<1> QED BY <1>2, <1>3, <1>4, <1>5, <1>7 DEF OutboxInv

\* The same for a step that moves dispatcher x only.
LEMMA MoveKeepsInv ==
    ASSUME OutboxInv, NEW x \in Dispatchers, NEW new \in PostType, NEW e \in Events,
           event' = event, post' = [post EXCEPT ![x] = new],
           oclock' = oclock, received \subseteq received', received' \subseteq Events,
           new.pc # "idle" => new.e \in Events /\ new.attempts > 0,
           new.pc \in {"post", "sending", "result"} => new.next.by = x,
           new.pc = "result" /\ new.answer = "2xx" => new.e \in received'
    PROVE  OutboxInv'
<1>1. event[e] \in EventType /\ event' = [event EXCEPT ![e] = event[e]]
  BY DEF OutboxInv, Shapes
<1>2. /\ event[e].status = "pending" => event[e].attempts < MaxAttempts
      /\ event[e].status = "delivered" => e \in received'
  BY DEF OutboxInv, AttemptsBounded, DeliveredWasReceived
<1> QED BY <1>1, <1>2, StepKeepsInv

LEMMA OutboxInitInv == OutboxInit => OutboxInv
<1> SUFFICES ASSUME OutboxInit PROVE OutboxInv
  OBVIOUS
<1>1. [status |-> "pending", attempts |-> 0, next |-> Instant(0, Nobody)] \in EventType
  BY InstantType DEF EventType
<1>2. Shapes
  BY <1>1, RestingType DEF OutboxInit, Shapes
<1>3. AttemptsBounded /\ DeliveredWasReceived
  BY DEF OutboxInit, AttemptsBounded, DeliveredWasReceived
<1>4. OwnLease /\ AnswerStands
  BY RestingType DEF OutboxInit, OwnLease, AnswerStands
<1> QED BY <1>2, <1>3, <1>4 DEF OutboxInv

LEMMA DispatchInv ==
    ASSUME OutboxInv, NEW x \in Dispatchers, NEW e \in Events, dispatchEvents(x, e)
    PROVE  OutboxInv'
<1> DEFINE new == [Resting0 EXCEPT !.pc = "lease", !.e = e, !.next = event[e].next,
                               !.attempts = event[e].attempts + 1]
<1>1. event[e].next \in Instants /\ event[e].attempts + 1 \in 0..MaxAttempts /\ event[e].attempts + 1 > 0
  BY DEF dispatchEvents, OutboxInv, Shapes, AttemptsBounded, EventType
<1>2. new \in PostType /\ new.pc = "lease" /\ new.e = e /\ new.attempts > 0
  <2> DEFINE started == [Resting0 EXCEPT !.pc = "lease", !.e = e]
  <2>1. started \in PostType /\ started.pc = "lease" /\ started.e = e
    BY RestingType DEF PostType
  <2>2. new = [started EXCEPT !.next = event[e].next, !.attempts = event[e].attempts + 1]
    OBVIOUS
  <2> DEFINE tries == event[e].attempts + 1
             next == event[e].next
  <2>3. new = [started EXCEPT !.next = next, !.attempts = tries]
    BY <2>2
  <2> HIDE DEF started, new, tries, next
  <2>4. new \in PostType /\ new.pc = "lease" /\ new.e = e /\ new.attempts = tries
    <3>1. next \in Instants /\ tries \in 0..MaxAttempts
      BY <1>1 DEF tries, next
    <3> QED BY <2>1, <2>3, <3>1 DEF PostType
  <2> QED BY <1>1, <2>4 DEF tries
<1>3. /\ post' = [post EXCEPT ![x] = new] /\ event' = event /\ oclock' = oclock
      /\ received' = received /\ received \subseteq Events
  BY DEF dispatchEvents, OutboxInv, Shapes
<1> HIDE DEF new
<1> QED BY <1>2, <1>3, MoveKeepsInv

LEMMA LeaseInv ==
    ASSUME OutboxInv, NEW x \in Dispatchers, leaseEvent(x)
    PROVE  OutboxInv'
<1> DEFINE e == post[x].e
           lease == Instant(oclock + LeaseTime, x)
           row == [event[e] EXCEPT !.next = lease]
           new == [post[x] EXCEPT !.pc = "post", !.next = lease]
<1>1. /\ e \in Events /\ post[x].pc = "lease" /\ post[x].attempts > 0 /\ received \subseteq Events
      /\ oclock' = oclock /\ received' = received /\ event[e] \in EventType /\ post[x] \in PostType
  BY DEF leaseEvent, OutboxInv, Shapes, OwnLease
<1>2. lease \in Instants /\ lease.by = x
  BY InstantType DEF OutboxInv, Shapes
<1>3. CASE event[e].status = "pending" /\ event[e].next = post[x].next
  <2>1. event' = [event EXCEPT ![e] = row]
    BY <1>1, <1>3 DEF leaseEvent, OutboxInv, Shapes
  <2>2. post' = [post EXCEPT ![x] = new]
    BY <1>1, <1>3 DEF leaseEvent, OutboxInv, Shapes
  <2>3. row \in EventType /\ row.next = lease /\ row.status = "pending" /\ row.attempts = event[e].attempts
    BY <1>1, <1>2, <1>3 DEF EventType
  <2>4. new \in PostType /\ new.pc = "post" /\ new.e = e /\ new.next = lease /\ new.attempts > 0
    BY <1>1, <1>2 DEF PostType
  <2>5. row.attempts < MaxAttempts
    BY <1>1, <1>3, <2>3 DEF OutboxInv, AttemptsBounded
  <2> HIDE DEF row, new, lease, e
  <2> QED BY <1>1, <1>2, <2>1, <2>2, <2>3, <2>4, <2>5, StepKeepsInv
<1>4. CASE ~(event[e].status = "pending" /\ event[e].next = post[x].next)
  <2>1. event' = event /\ post' = [post EXCEPT ![x] = Resting0]
    BY <1>4 DEF leaseEvent
  <2> QED BY <1>1, <2>1, RestingType, MoveKeepsInv
<1> QED BY <1>3, <1>4

LEMMA LookupInv ==
    ASSUME OutboxInv, NEW x \in Dispatchers, lookupApp(x)
    PROVE  OutboxInv'
<1>1. /\ post[x].pc = "post" /\ post[x].e \in Events /\ post[x].attempts > 0 /\ post[x].next.by = x
      /\ event' = event /\ received' = received /\ oclock' = oclock /\ received \subseteq Events
      /\ post[x] \in PostType /\ oclock \in Int
  BY DEF lookupApp, OutboxInv, Shapes, OwnLease
<1>2. CASE post' = [post EXCEPT ![x].pc = "sending", ![x].since = oclock]
  <2> DEFINE new == [post[x] EXCEPT !.pc = "sending", !.since = oclock]
  <2>1. post' = [post EXCEPT ![x] = new]
    BY <1>2 DEF OutboxInv, Shapes
  <2>2. new \in PostType /\ new.pc = "sending" /\ new.e = post[x].e /\ new.next = post[x].next /\ new.attempts > 0
    BY <1>1 DEF PostType
  <2> HIDE DEF new
  <2> QED BY <1>1, <2>1, <2>2, MoveKeepsInv
<1>3. CASE post' = [post EXCEPT ![x].pc = "result", ![x].answer = "error"]
  <2> DEFINE new == [post[x] EXCEPT !.pc = "result", !.answer = "error"]
  <2>1. post' = [post EXCEPT ![x] = new]
    BY <1>3 DEF OutboxInv, Shapes
  <2>2. new \in PostType /\ new.answer = "error" /\ new.e = post[x].e /\ new.next = post[x].next /\ new.attempts > 0
    BY <1>1 DEF PostType
  <2> HIDE DEF new
  <2> QED BY <1>1, <2>1, <2>2, MoveKeepsInv
<1> QED BY <1>2, <1>3 DEF lookupApp

LEMMA PostInv ==
    ASSUME OutboxInv, NEW x \in Dispatchers, postWebhook(x)
    PROVE  OutboxInv'
<1>1. /\ post[x].pc = "sending" /\ post[x].e \in Events /\ post[x].attempts > 0 /\ post[x].next.by = x
      /\ event' = event /\ oclock' = oclock /\ received \subseteq received' /\ received' \subseteq Events
      /\ post[x] \in PostType
  BY DEF postWebhook, OutboxInv, Shapes, OwnLease
<1>2. PICK said \in {"2xx", "error"} : /\ post' = [post EXCEPT ![x].pc = "result", ![x].answer = said]
                                       /\ said = "2xx" => post[x].e \in received'
  BY DEF postWebhook
<1> DEFINE new == [post[x] EXCEPT !.pc = "result", !.answer = said]
<1>3. post' = [post EXCEPT ![x] = new]
  BY <1>2 DEF OutboxInv, Shapes
<1>4. new \in PostType /\ new.answer = said /\ new.e = post[x].e /\ new.next = post[x].next /\ new.attempts > 0
  BY <1>1 DEF PostType
<1> HIDE DEF new
<1> QED BY <1>1, <1>2, <1>3, <1>4, MoveKeepsInv

LEMMA ResultInv ==
    ASSUME OutboxInv, NEW x \in Dispatchers, recordResult(x)
    PROVE  OutboxInv'
<1> DEFINE e == post[x].e
           n == post[x].attempts
<1>1. /\ e \in Events /\ post[x].pc = "result" /\ post[x] \in PostType /\ n > 0 /\ event[e] \in EventType
      /\ received' = received /\ oclock' = oclock /\ received \subseteq Events
  BY DEF recordResult, OutboxInv, Shapes, OwnLease
<1>2. n \in 1..MaxAttempts
  BY <1>1 DEF PostType
<1>3. post' = [post EXCEPT ![x] = Resting0]
  BY DEF recordResult
<1>4. CASE ~StillLeased(x)
  <2>1. event' = [event EXCEPT ![e] = event[e]]
    BY <1>4 DEF recordResult
  <2>2. event' = event
    BY <1>1, <2>1 DEF OutboxInv, Shapes
  <2> QED BY <1>1, <1>3, <2>2, RestingType, MoveKeepsInv
<1>5. CASE StillLeased(x) /\ post[x].answer = "2xx"
  <2> DEFINE row == [event[e] EXCEPT !.status = "delivered", !.attempts = n]
  <2>1. event' = [event EXCEPT ![e] = row]
    BY <1>5 DEF recordResult
  <2>2. row \in EventType /\ row.status = "delivered" /\ row.next = event[e].next
    <3>1. n \in 0..MaxAttempts
      BY <1>2
    <3> HIDE DEF n
    <3> QED BY <1>1, <3>1 DEF EventType
  <2>3. e \in received
    BY <1>1, <1>5 DEF OutboxInv, AnswerStands
  <2> HIDE DEF row, e, n
  <2> QED BY <1>1, <1>3, <2>1, <2>2, <2>3, RestingType, StepKeepsInv
<1>6. CASE StillLeased(x) /\ post[x].answer # "2xx"
  <2> DEFINE st == IF n >= MaxAttempts THEN "failed" ELSE "pending"
             row == [status |-> st, attempts |-> n, next |-> Instant(oclock + Backoff(n), Nobody)]
  <2>1. event' = [event EXCEPT ![e] = row]
    BY <1>6 DEF recordResult
  <2>2. row \in EventType /\ row.next.by = Nobody /\ row.status = st /\ row.attempts = n
    BY <1>2, RetryType DEF OutboxInv
  <2>3. st # "delivered" /\ (st = "pending" => n < MaxAttempts)
    BY <1>2
  <2> HIDE DEF row, st, e, n
  <2> QED BY <1>1, <1>3, <2>1, <2>2, <2>3, RestingType, StepKeepsInv
<1> QED BY <1>4, <1>5, <1>6

LEMMA ReplayInv ==
    ASSUME OutboxInv, NEW e \in Events, replay(e)
    PROVE  OutboxInv'
<1> DEFINE row == [status |-> "pending", attempts |-> 0, next |-> Instant(oclock, Nobody)]
<1>1. row \in EventType /\ row.next.by = Nobody /\ row.status = "pending" /\ row.attempts = 0
  BY InstantType DEF OutboxInv, Shapes, EventType
<1>2. event' = [event EXCEPT ![e] = row] /\ UNCHANGED <<post, oclock>> /\ received' = received \ {e}
  BY DEF replay
<1> HIDE DEF row
<1>3. \A d \in Events : event'[d] = IF d = e THEN row ELSE event[d]
  BY <1>2 DEF OutboxInv, Shapes
<1>4. Shapes' /\ OwnLease'
  BY <1>1, <1>2 DEF OutboxInv, Shapes, OwnLease
<1>5. AttemptsBounded' /\ DeliveredWasReceived'
  BY <1>1, <1>2, <1>3 DEF OutboxInv, AttemptsBounded, DeliveredWasReceived
<1>6. ASSUME NEW y \in Dispatchers, post'[y].pc = "result", post'[y].answer = "2xx", StillLeased(y)'
      PROVE  post'[y].e \in received'
  <2>1. post[y].e \in Events /\ post[y].next.by = y
    BY <1>2, <1>6 DEF OutboxInv, OwnLease
  <2>2. post[y].e # e
    BY <1>1, <1>2, <1>3, <1>6, <2>1 DEF StillLeased
  <2>3. StillLeased(y)
    BY <1>2, <1>3, <1>6, <2>1, <2>2 DEF StillLeased
  <2> QED BY <1>2, <1>6, <2>2, <2>3 DEF OutboxInv, AnswerStands
<1>7. AnswerStands'
  BY <1>6 DEF AnswerStands
<1> QED BY <1>4, <1>5, <1>7 DEF OutboxInv

LEMMA RestInv ==
    ASSUME OutboxInv, (\E x \in Dispatchers : CrashDispatcher(x)) \/ OutboxTick \/ UNCHANGED outboxVars
    PROVE  OutboxInv'
<1>1. ASSUME NEW x \in Dispatchers, CrashDispatcher(x) PROVE OutboxInv'
  <2>1. post[x].e \in Events /\ received \subseteq Events
    BY <1>1 DEF CrashDispatcher, OutboxInv, Shapes, OwnLease
  <2> QED BY <1>1, <2>1, RestingType, MoveKeepsInv DEF CrashDispatcher
<1>2. ASSUME UNCHANGED <<event, post, received>>, oclock' \in Nat PROVE OutboxInv'
  <2>1. Shapes' /\ AttemptsBounded' /\ OwnLease' /\ DeliveredWasReceived'
    BY <1>2 DEF OutboxInv, Shapes, AttemptsBounded, OwnLease, DeliveredWasReceived
  <2>2. AnswerStands'
    BY <1>2 DEF OutboxInv, AnswerStands, StillLeased
  <2> QED BY <2>1, <2>2 DEF OutboxInv
<1>3. CASE OutboxTick
  BY <1>2, <1>3 DEF OutboxTick, OutboxInv, Shapes
<1>4. CASE UNCHANGED outboxVars
  BY <1>2, <1>4 DEF outboxVars, OutboxInv, Shapes
<1> QED BY <1>1, <1>3, <1>4

\* The outbox keeps its invariant.
LEMMA OutboxStep == OutboxInv /\ [OutboxNext]_outboxVars => OutboxInv'
BY DispatchInv, LeaseInv, LookupInv, PostInv, ResultInv, ReplayInv, RestInv DEF OutboxNext

\* An event is marked delivered only if the endpoint took it since the last
\* replay, whichever replicas crash, stall past their lease, or answer late.
THEOREM NeverDeliveredUnread == OutboxSpec => []DeliveredWasReceived
<1>1. OutboxInv => DeliveredWasReceived
  BY DEF OutboxInv
<1> QED BY OutboxInitInv, OutboxStep, <1>1, PTL DEF OutboxSpec

\* Statuses are the schema's, and an event is attempted at most MaxAttempts times
\* between replays.
THEOREM AttemptsLimited == OutboxSpec => []OutboxTypeOK
<1>1. OutboxInv => OutboxTypeOK
  BY DEF OutboxInv, Shapes, EventType, OutboxTypeOK
<1> QED BY OutboxInitInv, OutboxStep, <1>1, PTL DEF OutboxSpec
==============================================================================
