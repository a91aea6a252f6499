----------------------------- MODULE BatchQueue -----------------------------
(***************************************************************************)
(* The batch queue (batch-queue.service.ts, batch-queue.transport.ts):     *)
(* quotes, submission, cancellation, the flush that settles due batches    *)
(* operation by operation, and the reaper of abandoned ones.               *)
(*                                                                         *)
(* A batch is named by its idempotency key.  Requests interleave at their  *)
(* awaits; no update of a row has a condition on its status.  What an      *)
(* operation does on chain, what it costs and the session grants are       *)
(* external.                                                               *)
(***************************************************************************)
EXTENDS Integers, Sequences, FiniteSets, FiniteSetsExt

CONSTANTS
    Batches,        \* idempotency keys
    OpCount,        \* operations of each batch
    AtomicBatches,  \* halt on the first failure
    SessionUntil,   \* when a batch's session grant ends; 0: owner-signed
    Bypassing,      \* submitted with bypassQueue
    Runners,        \* requests being served
    NoBatch,
    Window,         \* windowSecs
    Bps,            \* Bps[v]: service fee of policy version v
    Prices,         \* what an operation costs on chain
    MaxQuoted,      \* bound: batches of one behaviour
    QuietFrom,      \* bound: no submission, change or mishap from then on
    BatchHorizon,   \* bound: time
    MaxMishaps      \* bound: crashes, reverts, lost answers, admin changes

ASSUME BatchConstants ==
    /\ OpCount \in [Batches -> Nat \ {0}] /\ SessionUntil \in [Batches -> Nat]
    /\ AtomicBatches \subseteq Batches /\ Bypassing \subseteq Batches
    /\ NoBatch \notin Batches /\ Window \in Nat \ {0} /\ Prices \subseteq Nat /\ Prices # {}
    /\ 1 \in DOMAIN Bps /\ \A v \in DOMAIN Bps : Bps[v] \in Nat

VARIABLES
    quote,      \* the quote each client holds
    batch,      \* queued_batches
    opsLanded,  \* operations executed on chain
    revoked,    \* session grants revoked on chain
    runner,     \* the state of each request
    policy,     \* the active fee policy's version
    price,      \* what an operation costs now
    bclock, mishaps

batchVars == <<quote, batch, opsLanded, revoked, runner, policy, price, bclock, mishaps>>

Ops(b) == {<<b, k>> : k \in 1..OpCount[b]}
NoQuote == [base |-> 0, ver |-> 0, exp |-> 0]
NoRow == [status |-> "none", due |-> 0, at |-> 0, quote |-> NoQuote, max |-> 0, ok |-> {}, paid |-> 0]
Resting == [pc |-> "idle", now |-> 0, b |-> NoBatch, todo |-> {}, k |-> 0, ver |-> 0,
            quote |-> NoQuote, max |-> 0, ok |-> {}, spent |-> 0, wasted |-> 0, halted |-> FALSE]
Finals == {"settled", "partial", "failed", "expired"}

BatchInit ==
    /\ quote = [b \in Batches |-> NoQuote]
    /\ batch = [b \in Batches |-> NoRow]
    /\ opsLanded = {} /\ revoked = {}
    /\ runner = [w \in Runners |-> Resting]
    /\ policy = 1 /\ price = Min(Prices)
    /\ bclock = 0 /\ mishaps = 0

---------------------------------------------------------------------------

Mishap == bclock < QuietFrom /\ mishaps < MaxMishaps /\ mishaps' = mishaps + 1
On(w, pc) == runner[w].pc = pc
Set(w, r) == runner' = [runner EXCEPT ![w] = r]
Rest(w) == Set(w, Resting)
WithFee(amount, ver) == amount + (amount * Bps[ver]) \div 10000
Write(b, status) == batch' = [batch EXCEPT ![b].status = status, ![b].at = bclock]

\* settleBatch returns: to submitBatch, or to the flush it is part of.
Return(w) == IF runner[w].b \in Bypassing THEN Rest(w)
             ELSE Set(w, [Resting EXCEPT !.pc = "next", !.now = runner[w].now, !.todo = runner[w].todo])

\* The session check: the grant is readable, unrevoked, unspent and unexpired,
\* and outlives the window the batch settles in.
SessionGood(b, now, until) ==
    SessionUntil[b] = 0 \/ (b \notin revoked /\ SessionUntil[b] > now /\ SessionUntil[b] >= until)

\* Mutant of QuoteBinds: the policy may have changed since the quote.
QuoteBindsAnyPolicy(b) ==
    quote[b].exp > bclock /\ OpCount[b] * price * 100 <= quote[b].base * 120

\* The checks of submitBatch: the quote is unexpired, its policy still active,
\* and the network cost has not risen by more than a fifth.
QuoteBinds(b) ==
    /\ quote[b].exp > bclock
    /\ quote[b].ver = policy
    /\ OpCount[b] * price * 100 <= quote[b].base * 120

\* estimateBatch: the locked quote.  A client quotes again when its quote no
\* longer binds.
estimateBatch(b) ==
    /\ batch[b] = NoRow /\ ~QuoteBinds(b)
    /\ Cardinality({c \in Batches : quote[c] # NoQuote} \cup {b}) <= MaxQuoted
    /\ SessionUntil[b] = 0 \/ SessionUntil[b] >= bclock + Window
    /\ quote' = [quote EXCEPT ![b] = [base |-> OpCount[b] * price, ver |-> policy, exp |-> bclock + Window]]
    /\ UNCHANGED <<batch, opsLanded, revoked, runner, policy, price, bclock, mishaps>>

\* submitBatch up to its last read; a known key is answered with its row.
submitBatch(w, b) ==
    /\ On(w, "idle") /\ batch[b] = NoRow /\ bclock < QuietFrom
    /\ QuoteBinds(b)
    /\ SessionGood(b, bclock, bclock + Window)
    /\ Set(w, [Resting EXCEPT !.pc = "create", !.b = b, !.now = bclock, !.quote = quote[b],
                              !.max = WithFee(quote[b].base, policy)])
    /\ UNCHANGED <<quote, batch, opsLanded, revoked, policy, price, bclock, mishaps>>

Due(now) == {b \in Batches : batch[b].status = "queued" /\ batch[b].due <= now}

\* Rows that stayed `submitted` for more than two windows.
Stale(now) == {b \in Batches : batch[b].status = "submitted" /\ batch[b].at < now - 2 * Window}

\* The row is inserted, unless the unique key was taken in between.  A bypassing
\* batch is settled at once; otherwise due batches are flushed on the way.
createBatch(w) ==
    /\ On(w, "create")
    /\ LET b == runner[w].b
       IN  IF batch[b] # NoRow
           THEN Rest(w) /\ UNCHANGED batch
           ELSE /\ batch' = [batch EXCEPT ![b] =
                       [NoRow EXCEPT !.status = IF b \in Bypassing THEN "submitted" ELSE "queued",
                                     !.due = runner[w].now + Window, !.at = bclock,
                                     !.quote = runner[w].quote, !.max = runner[w].max]]
                /\ Set(w, IF b \in Bypassing
                          THEN [Resting EXCEPT !.pc = "session", !.b = b, !.now = runner[w].now]
                          ELSE [Resting EXCEPT !.pc = "flush", !.now = runner[w].now])
    /\ UNCHANGED <<quote, opsLanded, revoked, policy, price, bclock, mishaps>>

\* flushDueBatches, for POST /flush or after a submission: the due rows,
\* oldest first.  A flush that finds no due and no stale row changes nothing
\* and is left out.
flushDueBatches(w) ==
    /\ \/ /\ On(w, "idle") /\ Due(bclock) \cup Stale(bclock) # {}
          /\ Set(w, [Resting EXCEPT !.pc = "next", !.now = bclock, !.todo = Due(bclock)])
       \/ /\ On(w, "flush")
          /\ Set(w, IF Due(runner[w].now) \cup Stale(runner[w].now) = {} THEN Resting
                    ELSE [runner[w] EXCEPT !.pc = "next", !.todo = Due(runner[w].now)])
    /\ UNCHANGED <<quote, batch, opsLanded, revoked, policy, price, bclock, mishaps>>

\* The next due row; after the last one the stale rows are looked up.
nextBatch(w) ==
    /\ On(w, "next")
    /\ IF runner[w].todo = {}
       THEN Set(w, IF Stale(runner[w].now) = {} THEN Resting
                   ELSE [runner[w] EXCEPT !.pc = "reap", !.todo = Stale(runner[w].now)])
       ELSE \E b \in runner[w].todo :
              /\ \A c \in runner[w].todo : batch[b].due <= batch[c].due
              /\ Set(w, [runner[w] EXCEPT !.pc = "session", !.b = b, !.todo = @ \ {b}])
    /\ UNCHANGED <<quote, batch, opsLanded, revoked, policy, price, bclock, mishaps>>

\* settleBatch: the session is checked again; an unreadable chain counts as a
\* revocation.
checkSession(w) ==
    /\ On(w, "session")
    /\ LET b == runner[w].b
           good == SessionGood(b, runner[w].now, batch[b].due)
       IN  \/ good /\ Set(w, [runner[w] EXCEPT !.pc = "start"]) /\ UNCHANGED mishaps
           \/ ~good /\ Set(w, [runner[w] EXCEPT !.pc = "void"]) /\ UNCHANGED mishaps
           \/ SessionUntil[b] > 0 /\ Mishap /\ Set(w, [runner[w] EXCEPT !.pc = "void"])
    /\ UNCHANGED <<quote, batch, opsLanded, revoked, policy, price, bclock>>

voidBatch(w) ==
    /\ On(w, "void")
    /\ Write(runner[w].b, "failed")
    /\ Return(w)
    /\ UNCHANGED <<quote, opsLanded, revoked, policy, price, bclock, mishaps>>

\* The row is marked and the active policy read.
startBatch(w) ==
    /\ On(w, "start")
    /\ Write(runner[w].b, "submitted")
    /\ Set(w, [runner[w] EXCEPT !.pc = "simulate", !.k = 1, !.ver = policy])
    /\ UNCHANGED <<quote, opsLanded, revoked, policy, price, bclock, mishaps>>

\* The account executes an operation of a live grant once.
Executable(op) == op \notin opsLanded /\ SessionGood(op[1], bclock, 0)

\* The operation is done with: go on, or halt an atomic batch that failed.
After(w, r, failed) ==
    LET halt == failed /\ r.b \in AtomicBatches
    IN  Set(w, [r EXCEPT !.halted = halt, !.k = r.k + 1,
                         !.pc = IF halt \/ r.k = OpCount[r.b] THEN "settle" ELSE "simulate"])

simulate(w) ==
    /\ On(w, "simulate")
    /\ LET op == <<runner[w].b, runner[w].k>>
       IN  \/ Executable(op) /\ Set(w, [runner[w] EXCEPT !.pc = "submit"]) /\ UNCHANGED mishaps
           \/ ~Executable(op) /\ After(w, runner[w], TRUE) /\ UNCHANGED mishaps
           \/ Mishap /\ After(w, runner[w], TRUE)
    /\ UNCHANGED <<quote, batch, opsLanded, revoked, policy, price, bclock>>

\* Mutant of submit: a revert is booked like a success.
submitUnchecked(w) ==
    /\ On(w, "submit")
    /\ LET r == runner[w]
           op == <<r.b, r.k>>
       IN  /\ opsLanded' = IF Executable(op) THEN opsLanded \cup {op} ELSE opsLanded
           /\ After(w, [r EXCEPT !.ok = @ \cup {r.k}, !.spent = @ + price], FALSE)
    /\ UNCHANGED <<quote, batch, revoked, policy, price, bclock, mishaps>>

\* One transaction per operation: it lands, it reverts and costs its gas, or
\* its answer is lost whether it landed or not.
submit(w) ==
    /\ On(w, "submit")
    /\ LET r == runner[w]
           op == <<r.b, r.k>>
       IN  \/ /\ Executable(op)
              /\ opsLanded' = opsLanded \cup {op}
              /\ After(w, [r EXCEPT !.ok = @ \cup {r.k}, !.spent = @ + price], FALSE)
              /\ UNCHANGED mishaps
           \/ /\ ~Executable(op)
              /\ After(w, [r EXCEPT !.wasted = @ + price], TRUE)
              /\ UNCHANGED <<opsLanded, mishaps>>
           \/ /\ Mishap
              /\ After(w, r, TRUE)
              /\ opsLanded' \in {opsLanded, IF Executable(op) THEN opsLanded \cup {op} ELSE opsLanded}
    /\ UNCHANGED <<quote, batch, revoked, policy, price, bclock>>

\* Mutant of Charge: the lock is not a ceiling.
ChargeUncapped(r) == WithFee(r.spent, r.ver) + r.wasted

\* The user pays the network and the service fee for what succeeded, the
\* network for what failed, and no more than the lock.
Charge(r) == Min({WithFee(r.spent, r.ver) + r.wasted, batch[r.b].max})

\* The last update: receipts and status at once.
settle(w) ==
    /\ On(w, "settle")
    /\ LET r == runner[w]
           all == 1..OpCount[r.b]
       IN  /\ batch' = [batch EXCEPT ![r.b] = [@ EXCEPT
                  !.status = IF r.halted THEN "failed" ELSE IF r.ok # all THEN "partial" ELSE "settled",
                  !.at = bclock, !.ok = r.ok, !.paid = Charge(r)]]
           /\ Return(w)
    /\ UNCHANGED <<quote, opsLanded, revoked, policy, price, bclock, mishaps>>

\* Mutant of reapStaleSubmitted: the stale rows are skipped.
reapNothing(w) ==
    /\ On(w, "reap")
    /\ Rest(w)
    /\ UNCHANGED <<quote, batch, opsLanded, revoked, policy, price, bclock, mishaps>>

\* reapStaleSubmitted: what is still submitted fails.
reapStaleSubmitted(w) ==
    /\ On(w, "reap")
    /\ \E b \in runner[w].todo :
          /\ Set(w, IF runner[w].todo = {b} THEN Resting ELSE [runner[w] EXCEPT !.todo = @ \ {b}])
          /\ IF batch[b].status = "submitted" THEN Write(b, "failed") ELSE UNCHANGED batch
    /\ UNCHANGED <<quote, opsLanded, revoked, policy, price, bclock, mishaps>>

\* cancelQueuedBatch: read, then write.
cancelQueuedBatch(w, b) ==
    /\ On(w, "idle") /\ batch[b].status = "queued"
    /\ Set(w, [Resting EXCEPT !.pc = "expire", !.b = b])
    /\ UNCHANGED <<quote, batch, opsLanded, revoked, policy, price, bclock, mishaps>>

expireBatch(w) ==
    /\ On(w, "expire")
    /\ Write(runner[w].b, "expired") /\ Rest(w)
    /\ UNCHANGED <<quote, opsLanded, revoked, policy, price, bclock, mishaps>>

---------------------------------------------------------------------------
\* Process, administrators, chain and time

CrashRunner(w) ==
    /\ ~On(w, "idle") /\ Mishap /\ Rest(w)
    /\ UNCHANGED <<quote, batch, opsLanded, revoked, policy, price, bclock>>

\* activatePolicy, after createPolicy published the version.
activatePolicy(v) ==
    /\ v # policy /\ Mishap /\ policy' = v
    /\ UNCHANGED <<quote, batch, opsLanded, revoked, runner, price, bclock>>

RevokeGrant(b) ==
    /\ SessionUntil[b] > 0 /\ b \notin revoked /\ Mishap
    /\ revoked' = revoked \cup {b}
    /\ UNCHANGED <<quote, batch, opsLanded, runner, policy, price, bclock>>

Reprice(p) ==
    /\ p # price /\ Mishap /\ price' = p
    /\ UNCHANGED <<quote, batch, opsLanded, revoked, runner, policy, bclock>>

BatchTick ==
    /\ bclock < BatchHorizon /\ bclock' = bclock + 1
    /\ UNCHANGED <<quote, batch, opsLanded, revoked, runner, policy, price, mishaps>>

BatchStep(w) ==
    \/ createBatch(w) \/ nextBatch(w) \/ checkSession(w) \/ voidBatch(w)
    \/ startBatch(w) \/ simulate(w) \/ submit(w) \/ settle(w) \/ reapStaleSubmitted(w)
    \/ expireBatch(w)

BatchNext ==
    \/ \E b \in Batches : estimateBatch(b) \/ RevokeGrant(b)
    \/ \E w \in Runners, b \in Batches : submitBatch(w, b) \/ cancelQueuedBatch(w, b)
    \/ \E w \in Runners : flushDueBatches(w) \/ BatchStep(w) \/ CrashRunner(w)
    \/ \E v \in DOMAIN Bps : activatePolicy(v)
    \/ \E p \in Prices : Reprice(p)
    \/ BatchTick

\* Requests go on and a cron job keeps calling /flush; time passes.
BatchFairness ==
    /\ \A w \in Runners : WF_batchVars(BatchStep(w)) /\ SF_batchVars(flushDueBatches(w))
    /\ WF_batchVars(BatchTick)

BatchSpec == BatchInit /\ [][BatchNext]_batchVars
BatchFairSpec == BatchSpec /\ BatchFairness

---------------------------------------------------------------------------
\* Properties

\* "Every accepted batch reaches a terminal state or explicit expiry": also
\* when the request that settles it dies between `submitted` and the receipts,
\* or a cancellation and a flush overwrite each other.
BatchesTerminate ==
    \A b \in Batches : batch[b].status \in {"queued", "submitted"} ~> batch[b].status \in Finals

\* What the user is charged never exceeds what the quote showed, though prices
\* and the fee policy change between quote, submission and settlement and two
\* flushes may settle one batch.
PaysNoMoreThanQuoted ==
    \A b \in Batches : batch[b].paid > 0 =>
        batch[b].paid <= WithFee(batch[b].quote.base, batch[b].quote.ver)

\* An operation the receipts of a batch show as executed is on chain, also
\* when several requests settled the batch or its answers were lost.
ReceiptsTruthful ==
    \A b \in Batches : \A k \in batch[b].ok : <<b, k>> \in opsLanded

\* "Cancel a queued batch (queued only - settles to expired, fee-free)": none
\* of the operations of an expired batch has been executed.
ExpiredNothingLanded ==
    \A b \in Batches : batch[b].status = "expired" => Ops(b) \cap opsLanded = {}
=============================================================================
