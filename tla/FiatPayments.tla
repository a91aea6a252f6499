---------------------------- MODULE FiatPayments ----------------------------
(***************************************************************************)
(* Direct payments (apps/api/src/fiat/fiat-payments.service.ts): an app    *)
(* creates a payment, the customer pays a DOKU invoice, the API learns of  *)
(* it by notification or by polling, credits the beneficiary, and may      *)
(* refund.  A payment p stands for its unique (appClientId, externalId).   *)
(* DOKU's side of the invoice is external: prov[p].                        *)
(***************************************************************************)
EXTENDS FiatJournal

CONSTANTS
    PayQuote,       \* PayQuote[p]: app, payer, beneficiary, amount and fees
    RefundIds,      \* requestIds of refunds
    RefundAmounts   \* requested refund amounts; 0: none given, the remainder

ASSUME PaymentAssumption ==
    /\ PayQuote \in [Payments -> [app: Apps, payer: Pids \cup {NoPid}, to: Pids,
                                  amount: Nat \ {0}, fee: Nat, tax: Nat, appFee: Nat]]
    /\ RefundAmounts \subseteq Nat

VARIABLES
    pay,      \* pay[p]: status and refundedIdr of the fiat_payments row
    prov,     \* prov[p]: the invoice at DOKU
    invoices, \* invoices[p]: createPayment calls that reached DOKU
    age       \* age[p]: "young", "expired" (expiresAt passed), "dropped" (24h)

payVars == <<pay, prov, invoices, age>>

Terminal == {"failed", "expired", "cancelled"}

---------------------------------------------------------------------------
\* create

PaymentCreate(r, p) ==
    /\ requireUsable
    /\ PayQuote[p].app \in active
    /\ pay[p].st = "none"              \* else: the prior row, or 409
    /\ Begin(r, "create", p, NoPosting, {}, "insert")
    /\ UNCHANGED payVars

\* Mutant of WonInsert: the row is upserted.
InsertAlwaysWins(p) == TRUE

\* The unique index decides which of several creators goes on.
WonInsert(p) == pay[p].st = "none"

PaymentInsert(r) ==
    LET p == tx[r].ref
    IN  /\ At(r, "insert")
        /\ \/ /\ WonInsert(p)
              /\ pay' = [pay EXCEPT ![p] = [st |-> "created", refunded |-> 0]]
              /\ Goto(r, "invoice")
              /\ UNCHANGED <<journal, bal, outbox, lock, active, frozen, upsets>>
           \/ /\ ~WonInsert(p)
              /\ Abort(r)
              /\ UNCHANGED pay
        /\ UNCHANGED <<prov, invoices, age>>

\* checkout.createPayment: DOKU makes the invoice and the answer arrives, or
\* it makes it and the answer is lost, or it never does.
PaymentInvoice(r) ==
    LET p == tx[r].ref
        Made == /\ invoices' = [invoices EXCEPT ![p] = @ + 1]
                /\ prov' = [prov EXCEPT ![p] = IF @ = "none" THEN "open" ELSE @]
    IN  /\ At(r, "invoice")
        /\ \/ /\ Made
              /\ Goto(r, "pend")
              /\ UNCHANGED <<journal, bal, outbox, lock, active, frozen, upsets>>
           \/ Made /\ Abort(r)
           \/ Abort(r) /\ UNCHANGED <<invoices, prov>>
        /\ UNCHANGED <<pay, age>>

\* updateMany created -> pending; a row that moved on is left alone.
PaymentPending(r) ==
    /\ At(r, "pend")
    /\ pay' = [pay EXCEPT ![tx[r].ref].st = IF @ = "created" THEN "pending" ELSE @]
    /\ Abort(r)
    /\ UNCHANGED <<prov, invoices, age>>

---------------------------------------------------------------------------
\* sync, with its three callers

\* A notification names the invoice; its row is synced whatever its status.
\* Whatever goes wrong is swallowed and answered with 200 (fiat.controller.ts),
\* so DOKU has no reason to repeat it.
notify(r, p) ==
    /\ pay[p].st \notin {"none", "paid"}
    /\ prov[p] # "none"
    /\ Begin(r, "sync", p, NoPosting, {}, "corroborate")
    /\ UNCHANGED payVars

\* Mutant of reconcile: a locally cancelled row is no longer polled.
reconcileOpenOnly(r, p) ==
    /\ pay[p].st \in {"created", "pending"}
    /\ age[p] # "dropped"
    /\ Begin(r, "sync", p, NoPosting, {}, "corroborate")
    /\ UNCHANGED payVars

\* The poller: open and cancelled rows younger than 24h.  nextCheckAt, which
\* spaces the polls of a row, is left out.
reconcile(r, p) ==
    /\ pay[p].st \in {"created", "pending", "cancelled"}
    /\ age[p] # "dropped"
    /\ Begin(r, "sync", p, NoPosting, {}, "corroborate")
    /\ UNCHANGED payVars

\* cancel syncs first and closes the row afterwards.
PaymentCancel(r, p) ==
    /\ pay[p].st \notin {"none"}
    /\ Begin(r, "cancelpay", p, NoPosting, {},
             IF pay[p].st = "paid" THEN "mark" ELSE "corroborate")
    /\ UNCHANGED payVars

\* What sync concludes from DOKU's answer; "none": nothing to do yet.
SyncStatus(p) ==
    CASE prov[p] \in {"paid", "mismatch"} -> prov[p]
      [] prov[p] = "expired" \/ (prov[p] \in {"open", "failed"} /\ age[p] # "young") -> "expired"
      [] prov[p] = "failed" /\ age[p] = "young" -> "failed"
      [] OTHER -> "none"

\* Leave sync: a cancel goes on to close the row, the others return.
SyncReturn(r) ==
    /\ tx' = [tx EXCEPT ![r] = IF tx[r].op = "cancelpay"
                               THEN [IdleTx EXCEPT !.op = "cancelpay", !.ref = tx[r].ref,
                                                   !.pc = "mark"]
                               ELSE IdleTx]
    /\ Release(r)

\* checkOrderStatus, and the freeze check that only a mismatch skips.  An
\* unknown order or a frozen ledger: sync throws, and a cancel around it too.
SyncCorroborate(r) ==
    LET st == SyncStatus(tx[r].ref)
    IN  /\ At(r, "corroborate") /\ tx[r].op \in {"sync", "cancelpay"}
        /\ \/ /\ st # "none" /\ (st = "mismatch" \/ requireUsable)
              /\ tx' = [tx EXCEPT ![r].pc = "pay", ![r].seen = st]
              /\ UNCHANGED lock
           \/ /\ st = "none" /\ prov[tx[r].ref] # "none"
              /\ SyncReturn(r)
           \/ /\ prov[tx[r].ref] = "none" \/ (st \notin {"none", "mismatch"} /\ ~requireUsable)
              /\ End(r)
        /\ UNCHANGED <<journal, bal, outbox, active, frozen, upsets, payVars>>

\* Mutants of Settled: a paid row takes later answers; a closed row takes any.
SettledUnlessNew(p, seen) == pay[p].st = (IF seen = "mismatch" THEN "failed" ELSE seen)
SettledOnlyIfPaid(p, seen) ==
    pay[p].st = "paid" \/ pay[p].st = (IF seen = "mismatch" THEN "failed" ELSE seen)

\* The guard re-read under the payment lock: nothing to do for this answer.
Settled(p, seen) ==
    \/ pay[p].st = "paid"
    \/ pay[p].st = (IF seen = "mismatch" THEN "failed" ELSE seen)
    \/ pay[p].st \in Terminal /\ seen # "paid"

PaymentEvent(p, st) ==
    IF PayQuote[p].app \in active THEN {<<p, st>>} ELSE {}

PaymentPosting(p) ==
    LET q == PayQuote[p]
    IN  [NoPosting EXCEPT !.group = p, !.kind = "payment", !.to = q.to, !.net = q.amount,
                          !.fee = q.fee, !.tax = q.tax, !.owner = AppOwner[q.app],
                          !.appFee = q.appFee]

\* The transaction of sync up to the legs: payment lock, guard, and for any
\* answer but "paid" the new status and its event, committed here.
SyncLock(r) ==
    LET p  == tx[r].ref
        st == IF tx[r].seen = "mismatch" THEN "failed" ELSE tx[r].seen
    IN  /\ At(r, "pay") /\ tx[r].op \in {"sync", "cancelpay"}
        /\ lock[p] = NoReq
        /\ \/ /\ Settled(p, tx[r].seen)
              /\ SyncReturn(r)
              /\ UNCHANGED <<pay, outbox>>
           \/ /\ ~Settled(p, tx[r].seen) /\ tx[r].seen = "paid"
              /\ lock' = [lock EXCEPT ![p] = r]
              /\ tx' = [tx EXCEPT ![r].pc = "chain", ![r].po = PaymentPosting(p)]
              /\ UNCHANGED <<pay, outbox>>
           \/ /\ ~Settled(p, tx[r].seen) /\ tx[r].seen # "paid"
              /\ pay' = [pay EXCEPT ![p].st = st]
              /\ outbox' = outbox \cup PaymentEvent(p, st)
              /\ SyncReturn(r)
        /\ UNCHANGED <<journal, bal, active, frozen, upsets, prov, invoices, age>>

\* The legs, the status and the event: one commit.
SyncCommit(r) ==
    /\ tx[r].op \in {"sync", "cancelpay"}
    /\ PostLegs(r, PaymentEvent(tx[r].ref, "paid"))
    /\ pay' = [pay EXCEPT ![tx[r].ref].st = "paid"]
    /\ UNCHANGED <<prov, invoices, age>>

\* Mutant of Cancellable: the update is not guarded.
AlwaysCancellable(p) == TRUE

\* cancel's guarded update; any other status is answered with 409.
Cancellable(p) == pay[p].st \in {"created", "pending"}

CancelMark(r) ==
    /\ At(r, "mark")
    /\ pay' = [pay EXCEPT ![tx[r].ref].st = IF Cancellable(tx[r].ref) THEN "cancelled" ELSE @]
    /\ Abort(r)
    /\ UNCHANGED <<prov, invoices, age>>

---------------------------------------------------------------------------
\* refund

refund(r, p, x, amount) ==
    LET q == PayQuote[p]
    IN  /\ requireUsable
        /\ pay[p].st # "none"
        /\ q.app \in active
        /\ q.payer # NoPid
        /\ Begin(r, "refund", p, Move(<<p, x>>, "adjust", q.to, q.payer, amount),
                 {q.to, q.payer}, "pay")
        /\ UNCHANGED payVars

Remaining(p) == PayQuote[p].amount - pay[p].refunded

\* Mutant of RefundLock: a full refund without the debit.
RefundLockOneSided(r) ==
    LET p == tx[r].ref
        po == tx[r].po
        amount == IF po.gross = 0 THEN Remaining(p) ELSE po.gross
        ok == /\ pay[p].st = "paid"
              /\ amount > 0 /\ amount <= Remaining(p)
    IN  /\ At(r, "pay") /\ tx[r].op = "refund"
        /\ lock[p] = NoReq
        /\ <<po.group, "OUT">> \notin Keys /\ ok
        /\ lock' = [lock EXCEPT ![p] = r]
        /\ tx' = [tx EXCEPT ![r].pc = "lock", ![r].po = [po EXCEPT !.net = amount]]
        /\ UNCHANGED <<journal, bal, outbox, active, frozen, upsets, payVars>>

\* The payment lock, the requestId check, and the bound on the amount.
RefundLock(r) ==
    LET p == tx[r].ref
        po == tx[r].po
        amount == IF po.gross = 0 THEN Remaining(p) ELSE po.gross
        ok == /\ pay[p].st = "paid"
              /\ amount > 0 /\ amount <= Remaining(p)
    IN  /\ At(r, "pay") /\ tx[r].op = "refund"
        /\ lock[p] = NoReq
        /\ \/ /\ <<po.group, "OUT">> \in Keys \/ ~ok
              /\ End(r)
           \/ /\ <<po.group, "OUT">> \notin Keys /\ ok
              /\ lock' = [lock EXCEPT ![p] = r]
              /\ tx' = [tx EXCEPT ![r].pc = "lock",
                                  ![r].po = [po EXCEPT !.gross = amount, !.net = amount]]
        /\ UNCHANGED <<journal, bal, outbox, active, frozen, upsets, payVars>>

\* Mutant of RefundCheck: the beneficiary's balance is not looked at.
RefundUnfunded(r) ==
    /\ At(r, "check") /\ tx[r].op = "refund"
    /\ Goto(r, "chain")
    /\ UNCHANGED <<journal, bal, outbox, lock, active, frozen, upsets, payVars>>

RefundCheck(r) ==
    /\ At(r, "check") /\ tx[r].op = "refund"
    /\ LET ok == HasFunds(tx[r].po.from, tx[r].po.gross)
       IN  \/ ok /\ Goto(r, "chain")
              /\ UNCHANGED <<journal, bal, outbox, lock, active, frozen, upsets>>
           \/ ~ok /\ Abort(r)
    /\ UNCHANGED payVars

RefundCommit(r) ==
    /\ tx[r].op = "refund"
    /\ PostLegs(r, {})
    /\ pay' = [pay EXCEPT ![tx[r].ref].refunded = @ + tx[r].po.gross]
    /\ UNCHANGED <<prov, invoices, age>>

---------------------------------------------------------------------------
\* DOKU and the clock

\* The invoice is paid (exactly or not), fails, or expires; a failed attempt
\* may be followed by a successful one.
ProviderStep(p, st) ==
    /\ \/ prov[p] = "open" /\ st \in {"paid", "mismatch", "failed", "expired"}
       \/ prov[p] = "failed" /\ st \in {"paid", "expired"}
    /\ prov' = [prov EXCEPT ![p] = st]
    /\ UNCHANGED <<journalVars, pay, invoices, age>>

Tick(p) ==
    /\ pay[p].st # "none" /\ age[p] # "dropped"
    /\ age' = [age EXCEPT ![p] = IF @ = "young" THEN "expired" ELSE "dropped"]
    /\ UNCHANGED <<journalVars, pay, prov, invoices>>

PaymentInit ==
    /\ pay = [p \in Payments |-> [st |-> "none", refunded |-> 0]]
    /\ prov = [p \in Payments |-> "none"]
    /\ invoices = [p \in Payments |-> 0]
    /\ age = [p \in Payments |-> "young"]

\* The steps of request r inside create, sync, cancel and refund.
PaymentRequestStep(r) ==
    \/ PaymentInsert(r) \/ PaymentInvoice(r) \/ PaymentPending(r)
    \/ SyncCorroborate(r) \/ SyncLock(r) \/ SyncCommit(r) \/ CancelMark(r)
    \/ RefundLock(r) \/ RefundCheck(r) \/ RefundCommit(r)

PaymentStep ==
    \/ \E r \in Reqs : PaymentRequestStep(r)
    \/ \E r \in Reqs, p \in Payments :
          \/ PaymentCreate(r, p) \/ notify(r, p) \/ reconcile(r, p) \/ PaymentCancel(r, p)
          \/ \E x \in RefundIds, amount \in RefundAmounts : refund(r, p, x, amount)
    \/ \E p \in Payments : \/ \E st \in {"paid", "mismatch", "failed", "expired"} :
                                ProviderStep(p, st)
                           \/ Tick(p)
=============================================================================
