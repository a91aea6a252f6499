----------------------------- MODULE FiatLedger -----------------------------
(***************************************************************************)
(* The fiat rail as a whole: transfers, corrections, deposits and direct   *)
(* payments over one journal, one lock table and one outbox.               *)
(***************************************************************************)
EXTENDS FiatTransfers, FiatPayments

\* Idempotency keys begin with the kind of their subject: no subject has
\* another's.
ASSUME SubjectsApart ==
    /\ Payments \cap (Intents \cup Adjusts \cup Deposits \cup Credits) = {}
    /\ (Payments \X RefundIds) \cap (Payments \cup Intents \cup Adjusts \cup Deposits \cup Credits) = {}
    /\ Deposits \cap (Intents \cup Adjusts \cup Credits) = {}
    /\ Intents \cap (Adjusts \cup Credits) = {} /\ Adjusts \cap Credits = {}

vars == <<journalVars, transferVars, payVars>>

Init == JournalInit /\ TransferInit /\ PaymentInit

\* No request is in progress.  Stuttering here, and only here, lets TLC's
\* deadlock check find a request that can neither go on nor be aborted.
Quiet == (\A r \in Reqs : Idle(r)) /\ UNCHANGED vars

Next == \/ TransferStep /\ UNCHANGED payVars
        \/ PaymentStep  /\ UNCHANGED transferVars
        \/ JournalStep  /\ UNCHANGED <<transferVars, payVars>>
        \/ Quiet

Spec == Init /\ [][Next]_vars

\* Fairness.  A request goes on: Node schedules it, PostgreSQL queues lock
\* waiters in order of arrival and breaks deadlocks.  The poller (a 3 s
\* interval timer) comes round for every row it selects.  Nothing is assumed of
\* notifications: one that fails is answered with 200 all the same.
Progress(r) ==
    \/ TransferRequestStep(r) /\ UNCHANGED payVars
    \/ PaymentRequestStep(r)  /\ UNCHANGED transferVars
    \/ /\ LockAccount(r) \/ LockChain(r) \/ UniqueViolation(r) \/ DeadlockVictim(r)
       /\ UNCHANGED <<transferVars, payVars>>

Polled(p) == (\E r \in Reqs : reconcile(r, p)) /\ UNCHANGED transferVars

PollingSpec == /\ Spec
               /\ \A r \in Reqs : SF_vars(Progress(r))
               /\ \A p \in Payments : SF_vars(Polled(p))

---------------------------------------------------------------------------
\* Types

Groups   == Intents \cup Adjusts \cup Deposits \cup Credits \cup Payments \cup (Payments \X RefundIds)
LegNames == {"OUT", "IN", "FEE", "TAX", "APPFEE"}
KeyType  == (Groups \X LegNames) \cup {Genesis}
HeadType == [seq: Nat, key: KeyType]
Kinds    == {"fiat_transfer_out", "fiat_transfer_in", "fiat_adjust", "fiat_issue",
             "fiat_payment_in", "fiat_fee", "fiat_tax", "fiat_app_fee"}
LegType  == [key: KeyType, kind: Kinds, pid: Pids \cup {NoPid}, amount: Nat,
             dir: {"in", "out"}]
RowType  == [key: KeyType, kind: Kinds, pid: Pids \cup {NoPid}, amount: Nat,
             dir: {"in", "out"}, seq: Nat, prev: KeyType]
PostingType ==
    [group: Groups \cup {NoRef}, kind: PostingKinds,
     from: Pids \cup {NoPid}, gross: Nat, to: Pids \cup {NoPid}, net: Nat,
     fee: Nat, tax: Nat, owner: Pids \cup {NoPid}, appFee: Nat]
Ops == {"none", "confirm", "cancel", "adjust", "issue", "create", "sync",
        "cancelpay", "refund", "mint"}
Pcs == {"idle", "lock", "check", "chain", "append", "corroborate", "insert",
        "invoice", "pend", "pay", "mark"}
Answers == {"none", "paid", "mismatch", "expired", "failed"}
TxType == [op: Ops, ref: Intents \cup Adjusts \cup Deposits \cup Credits \cup Payments \cup {NoRef},
           pc: Pcs, need: SUBSET Pids, po: PostingType, head: HeadType,
           seen: Answers]

\* The journal and its writers.
CoreTypes ==
    /\ journal \in SUBSET RowType
    /\ bal \in [Pids -> Int]
    /\ lock \in [Locks -> Reqs \cup {NoReq}]
    /\ tx \in [Reqs -> TxType]

EventKeys == ((Intents \cup Deposits) \X Apps) \cup (Payments \X {"paid", "failed", "expired"})
SwitchTypes ==
    /\ outbox \in SUBSET EventKeys
    /\ active \in SUBSET Apps
    /\ frozen \in BOOLEAN
    /\ upsets \in 0..MaxUpsets

IntentType == [st: {"none", "created", "posted", "cancelled"}, po: PostingType]
TransferTypes ==
    /\ intent \in [Intents -> IntentType]
    /\ dep \in [Deposits -> {"open", "confirmed", "blocked"}]
    /\ order \in [Deposits -> {"unpaid", "paid", "mismatch"}]
    /\ mint \in [Pids -> [calls: Nat, spent: Nat]]

PayType == [st: {"none", "created", "pending", "paid"} \cup Terminal, refunded: Nat]
PaymentTypes ==
    /\ pay \in [Payments -> PayType]
    /\ prov \in [Payments -> {"none", "open", "paid", "mismatch", "failed", "expired"}]
    /\ invoices \in [Payments -> Nat]
    /\ age \in [Payments -> {"young", "expired", "dropped"}]

\* Every variable of the rail has its type.
TypeOK == CoreTypes /\ SwitchTypes /\ TransferTypes /\ PaymentTypes

---------------------------------------------------------------------------
\* Safety

\* No account is ever overdrawn, however many confirms, corrections and
\* refunds of the same payer run at once: the balance check and the posting
\* of transferConfirm, adminAdjust and refund are separated by lock waits,
\* and hold together only because the payer's row stays locked.
NoOverdraft == \A p \in Pids : bal[p] >= 0

\* An intent has its legs, all of them, exactly when its row says posted:
\* cancelIntent and transferConfirm race on one row, and confirm posts by row
\* id, without a status condition.
PostedIntentsHaveLegs ==
    \A i \in Intents : /\ intent[i].st = "posted" <=> Posted(i)
                       /\ Posted(i) => \A k \in 1..Len(Legs(intent[i].po)) :
                                          Legs(intent[i].po)[k].key \in Keys

\* A cancel or a posting is final: a confirm that read the intent before the
\* cancel committed must not post it, nor a cancel undo a posting.
IntentsSettleOnce ==
    [][\A i \in Intents : intent[i].st \in {"cancelled", "posted"}
                             => intent'[i].st = intent[i].st]_vars

\* Credit for a deposit is only issued when DOKU confirms the exact total,
\* whatever the push said, and never for a deposit blocked for review.
IssueOnlyIfPaid ==
    \A d \in Deposits : Posted(d) => order[d] = "paid" /\ dep[d] # "blocked"

\* A deposit is credited once, though the webhook, the return URL and the
\* poller all call issueForDeposit, and it appends without an account lock.
CreditedOnce ==
    \A g \in Deposits \cup Payments :
        Cardinality({row \in journal : row.key = <<g, "IN">>}) <= 1

\* However many faucet calls of one identity run at once, a day's mints stay
\* within the call budget and the cap.
FaucetCapped ==
    \A p \in Pids : mint[p].calls <= FaucetCalls /\ mint[p].spent <= FaucetCap

\* A payment is credited exactly when its row says paid, and then DOKU holds
\* the exact total, even after a local cancel or expiry.
PaidIffCredited ==
    \A p \in Payments : /\ pay[p].st = "paid" <=> Posted(p)
                        /\ pay[p].st = "paid" => prov[p] = "paid"

\* The events of a payment follow its status, so that the unique event key
\* can never refuse, and roll back, a later posting.
EventsFollowStatus ==
    \A p \in Payments : \A st \in {"paid", "failed", "expired"} :
        <<p, st>> \in outbox => pay[p].st \in {st, "paid"}

\* Concurrent creates of one externalId reach DOKU with one invoice at most.
OneInvoice == \A p \in Payments : invoices[p] <= 1

\* A closed payment is only reopened by a confirmed payment, and a paid one
\* never changes again.
ClosedStaysClosed ==
    [][\A p \in Payments : pay[p].st \in Terminal \cup {"paid"}
                             => pay'[p].st \in {pay[p].st, "paid"}]_vars

\* "DB-level lock: the arbiter across instances (PID-sorted, deadlock-free)":
\* no set of requests waits in a circle.
DeadlockFree == \A S \in SUBSET Reqs : ~WaitCycle(S)

\* Concurrent appends never fork the hash chain, which verifyChain would
\* report: appendChained reads the head in one statement and writes the rows
\* in others, for every kind of posting.
ChainIntact ==
    /\ \A a, b \in journal : a.seq = b.seq => a = b
    /\ \A row \in journal :
          \/ row.seq = 1 /\ row.prev = Genesis
          \/ \E before \in journal : before.seq = row.seq - 1 /\ before.key = row.prev

---------------------------------------------------------------------------
\* Why they hold: the inductive strengthening the proofs use

\* What each kind of request is about.
Subject(r) ==
    LET t == tx[r]
    IN  /\ t.op = "confirm" => t.po.group \in Intents
        /\ t.op = "adjust"  => t.po.group \in Adjusts
        /\ t.op = "issue"   => t.po.group \in Deposits
        /\ t.op = "mint"    => t.po.group \in Credits
        /\ t.op = "refund"  => t.ref \in Payments /\ t.po.group \in Payments \X RefundIds
        /\ t.op \in {"create", "sync", "cancelpay"} => t.ref \in Payments
        /\ t.op \in {"sync", "cancelpay"} /\ t.pc = "pay" => t.seen # "none"
        /\ t.pc \in {"chain", "append"} =>
              t.op \notin {"none", "cancel", "create"} /\ t.po.group \in Groups

\* lockAccounts is about one or two identities.
LocksToTake(r) ==
    LET t == tx[r]
    IN  /\ t.need = {} \/ \E a, b \in Pids : t.need \subseteq {a, b}
        /\ t.pc = "lock" \/ (t.op = "refund" /\ t.pc = "pay") => t.need # {}

\* A request with a payer keeps the payer's row locked from lockAccounts to
\* its commit; the other requests never get a payer.
PayerLocked(r) ==
    LET t == tx[r]
    IN  t.po.from \in Pids =>
          /\ t.op \in {"confirm", "adjust", "refund"}
          /\ \/ t.pc \in {"pay", "lock"} /\ (t.po.from \in t.need \/ lock[t.po.from] = r)
             \/ t.pc \in {"check", "chain", "append"} /\ lock[t.po.from] = r

\* Past the balance check the payer can still pay.
FundsHeld(r) ==
    tx[r].po.from \in Pids /\ tx[r].pc \in {"chain", "append"}
        => bal[tx[r].po.from] >= tx[r].po.gross

\* h is the end of the chain.
IsHead(h) ==
    /\ \A row \in journal : row.seq <= h.seq
    /\ \/ h.seq = 0 /\ h.key = Genesis
       \/ \E row \in journal : row.seq = h.seq /\ row.key = h.key

\* A request about to append holds CHAIN_LOCK and has read the chain's end.
HeadHeld(r) == At(r, "append") => lock[ChainLock] = r /\ IsHead(tx[r].head)

RequestOK(r) == Subject(r) /\ LocksToTake(r) /\ PayerLocked(r) /\ FundsHeld(r) /\ HeadHeld(r)

\* The chain has an end.
ChainEnds ==
    /\ \A row \in journal : row.seq >= 1
    /\ journal # {} => \E last \in journal : \A row \in journal : row.seq <= last.seq

\* A quoted intent names its own group and two identities.
IntentsQuoted ==
    \A i \in Intents : intent[i].st # "none" =>
        intent[i].po.group = i /\ intent[i].po.from \in Pids /\ intent[i].po.to \in Pids

\* What the steps on the journal preserve by themselves.
Core == CoreTypes /\ NoOverdraft /\ ChainIntact /\ ChainEnds /\ \A r \in Reqs : RequestOK(r)

\* A confirm works on the quote it read: the row's quote never changes.
ConfirmsIntent(r) ==
    tx[r].op = "confirm" => /\ tx[r].ref \in Intents
                            /\ intent[tx[r].ref].st # "none"
                            /\ intent[tx[r].ref].po = tx[r].po

IndInv == Core /\ SwitchTypes /\ TransferTypes /\ PaymentTypes /\ IntentsQuoted
          /\ \A r \in Reqs : ConfirmsIntent(r)

\* What a request has found out, and nobody can change before it is through:
\* the intent it confirms is open, the deposit or payment is paid, today's
\* mints leave room, the refund fits in what is left of the payment.
Past(r) == tx[r].pc \in {"chain", "append"}

ConfirmKnows(r) == tx[r].op = "confirm" /\ Past(r) => intent[tx[r].ref].st = "created"

CancelKnows(r) ==
    LET t == tx[r]
    IN  t.op = "cancel" =>
          /\ t.ref \in Intents /\ intent[t.ref].st # "none" /\ t.pc \in {"lock", "check"}
          /\ t.pc = "lock"  => t.need = {intent[t.ref].po.from}
          /\ t.pc = "check" => lock[intent[t.ref].po.from] = r

IssueKnows(r) ==
    tx[r].op = "issue" => tx[r].po.group = tx[r].ref /\ (Past(r) => order[tx[r].ref] = "paid")

MintKnows(r) ==
    LET t == tx[r]
    IN  t.op = "mint" =>
          /\ t.po.to \in Pids
          /\ \/ t.pc = "lock" /\ t.need = {t.po.to}
             \/ t.pc \in {"check", "chain", "append"} /\ lock[t.po.to] = r
          /\ Past(r) => FaucetAllows(t.po.to, t.po.net)

SyncKnows(r) ==
    LET t == tx[r]
    IN  t.op \in {"sync", "cancelpay"} =>
          /\ t.pc = "pay" /\ t.seen = "paid" => prov[t.ref] = "paid"
          /\ Past(r) => t.po.group = t.ref /\ prov[t.ref] = "paid"

RefundKnows(r) ==
    LET t == tx[r]
    IN  t.op = "refund" =>
          /\ \E x \in RefundIds : t.po.group = <<t.ref, x>>
          /\ \/ t.pc = "pay"
             \/ /\ t.pc \in {"lock", "check", "chain", "append"} /\ lock[t.ref] = r
                /\ pay[t.ref].st = "paid" /\ t.po.net = t.po.gross
                /\ t.po.gross > 0 /\ t.po.gross <= Remaining(t.ref)

Knows(r) == ConfirmKnows(r) /\ CancelKnows(r) /\ IssueKnows(r) /\ MintKnows(r) /\ SyncKnows(r) /\ RefundKnows(r)

\* What the rows say agrees with what is posted.
RowsAgree ==
    /\ \A i \in Intents : intent[i].st = "posted" <=> Posted(i)
    /\ \A d \in Deposits : dep[d] = "blocked" => order[d] = "mismatch"
    /\ \A p \in Payments : /\ pay[p].refunded <= PayQuote[p].amount
                           /\ pay[p].st # "paid" => pay[p].refunded = 0

Settling == RowsAgree /\ IssueOnlyIfPaid /\ FaucetCapped /\ PaidIffCredited /\ \A r \in Reqs : Knows(r)

---------------------------------------------------------------------------
\* Liveness

\* The poller alone finds every payment of the exact total, without a single
\* notification, also when the answer to createPayment was lost, the row was
\* cancelled in the meantime or the request that saw the payment died: it is
\* credited, unless the row was closed as failed or expired before the payment
\* was seen, or became 24 hours old, which is where the poller gives up.
PaidIsCredited ==
    <>[](~frozen) => \A p \in Payments :
        prov[p] = "paid" ~> \/ pay[p].st = "paid"
                            \/ pay[p].st \in {"failed", "expired"} \/ age[p] = "dropped"

\* Every request ends: none waits for ever for a row, the chain or a payment.
RequestsEnd == \A r \in Reqs : ~Idle(r) ~> Idle(r)
=============================================================================
