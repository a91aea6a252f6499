--------------------------- MODULE PointDeposits ---------------------------
(***************************************************************************)
(* Deposits on the DOKU point rail (fiat-subaccount.service.ts): the       *)
(* Checkout invoice, the four ways a payment is noticed (notification,     *)
(* status check, reconciliation, sweep), the two top-ups that issue its    *)
(* points, and claw-backs.                                                 *)
(*                                                                         *)
(* Instances share only the database: pidLocks serialise the requests of   *)
(* one instance.  Row updates carry no condition, except the claim of a    *)
(* claw-back.  DOKU (invoices, accounts, top-ups, debits) is external: it  *)
(* performs a partner reference once and answers 409 afterwards.           *)
(***************************************************************************)
EXTENDS Integers, Sequences, FiniteSetsExt

CONSTANTS
    Deposits,       \* Checkout invoices of one depositor
    Desks,          \* requests being served
    Instance,       \* the API process each runs in
    NoDeposit,
    Net,            \* the amount a deposit credits
    MaxClawbacks,   \* bound: claw-back rows of a deposit
    MaxOutages      \* bound: crashes, refusals and lost answers

ASSUME DepositConstants ==
    /\ Net \in Nat \ {0} /\ MaxClawbacks \in Nat /\ MaxOutages \in Nat
    /\ DOMAIN Instance = Desks /\ NoDeposit \notin Deposits

VARIABLES
    invoice,    \* DOKU: the state of the Checkout order
    deposit,    \* fiat_provider_transactions: the deposit rows
    leg,        \* their points_issue and points_fee rows
    topup,      \* DOKU: the movement of each leg
    clawback,   \* their points_clawback rows
    clawed,     \* DOKU: the claw-back references debited
    desk,       \* the state of each request
    outages

depositVars == <<invoice, deposit, leg, topup, clawback, clawed, desk, outages>>
rail == <<invoice, deposit, leg, topup, clawback, clawed>>

Legs == {"PTS", "FEE"}
Waiting == [pc |-> "idle", d |-> NoDeposit, via |-> "none", saw |-> "none", ledger |-> "none",
            leg |-> "PTS", n |-> 0]
NoDepositRow == [status |-> "none", payment |-> "none", ledger |-> "none"]

DepositInit ==
    /\ invoice = [d \in Deposits |-> "none"]
    /\ deposit = [d \in Deposits |-> NoDepositRow]
    /\ leg = [d \in Deposits |-> [l \in Legs |-> "none"]]
    /\ topup = [d \in Deposits |-> [l \in Legs |-> "none"]]
    /\ clawback = [d \in Deposits |-> <<>>]
    /\ clawed = {}
    /\ desk = [w \in Desks |-> Waiting]
    /\ outages = 0

---------------------------------------------------------------------------

At(w, pc) == desk[w].pc = pc
Serve(w, r) == desk' = [desk EXCEPT ![w] = r]
GoTo(w, pc) == Serve(w, [desk[w] EXCEPT !.pc = pc])
Done(w) == Serve(w, Waiting)
Outage == outages < MaxOutages /\ outages' = outages + 1
Open(d) == deposit[d].status \in {"created", "processing"}

\* withPidLocks: the requests of an instance that hold the depositor's lock.
Locking == {"leg", "topup", "adopt", "verify", "claim", "debit", "issue", "directRow"}
LockFree(w) == \A v \in Desks \ {w} : Instance[v] = Instance[w] => desk[v].pc \notin Locking

\* markPayment writes the payment column and the legacy status together.
markPayment(d, payment) ==
    deposit' = [deposit EXCEPT ![d].payment = payment,
                   ![d].status = CASE payment = "expired" -> "cancelled"
                                   [] payment = "pending" -> "processing"
                                   [] OTHER -> payment]

\* isPaymentConfirmedRow: the payment column first, the legacy status without it.
PaymentConfirmed(d) ==
    IF deposit[d].payment # "none" THEN deposit[d].payment = "success"
    ELSE deposit[d].status \in {"success", "settled"}

---------------------------------------------------------------------------
\* createCheckoutDeposit: the row, then the invoice, then the answer.

createCheckoutDeposit(w, d) ==
    /\ At(w, "idle") /\ deposit[d] = NoDepositRow
    /\ deposit' = [deposit EXCEPT ![d] = [status |-> "created", payment |-> "none", ledger |-> "pending"]]
    /\ Serve(w, [Waiting EXCEPT !.pc = "invoice", !.d = d])
    /\ UNCHANGED <<invoice, leg, topup, clawback, clawed, outages>>

createPayment(w) ==
    /\ At(w, "invoice") /\ Done(w)
    /\ LET d == desk[w].d
       IN  \/ /\ invoice' = [invoice EXCEPT ![d] = "open"]
              /\ deposit' = [deposit EXCEPT ![d].status = "created"]
              /\ UNCHANGED outages
           \/ /\ Outage
              /\ invoice' \in {invoice, [invoice EXCEPT ![d] = "open"]}
              /\ deposit' = [deposit EXCEPT ![d].status = "failed"]
    /\ UNCHANGED <<leg, topup, clawback, clawed>>

\* The customer pays, exactly or not; DOKU expires or reverses the order.
OrderMoves(d) ==
    /\ \/ invoice[d] = "open" /\ invoice' \in {[invoice EXCEPT ![d] = s] : s \in {"paid", "misspaid", "expired"}}
       \/ invoice[d] = "paid" /\ invoice' = [invoice EXCEPT ![d] = "reversed"]
    /\ UNCHANGED <<deposit, leg, topup, clawback, clawed, desk, outages>>

\* cancelTx: read, then write; the invoice stays payable.
cancelTx(w, d) ==
    /\ At(w, "idle") /\ deposit[d].status = "created"
    /\ Serve(w, [Waiting EXCEPT !.pc = "cancel", !.d = d])
    /\ UNCHANGED <<rail, outages>>

writeCancelled(w) ==
    /\ At(w, "cancel") /\ Done(w)
    /\ deposit' = [deposit EXCEPT ![desk[w].d].status = "cancelled"]
    /\ UNCHANGED <<invoice, leg, topup, clawback, clawed, outages>>

---------------------------------------------------------------------------
\* syncTx, webhook and reconcile of an open row: the order status is asked,
\* and the answer applied to a row that may have moved on.

look(w, d, via) ==
    /\ At(w, "idle") /\ Open(d) /\ invoice[d] # "none"
    /\ \/ /\ invoice[d] # "open"    \* an unpaid order changes nothing
          /\ Serve(w, [Waiting EXCEPT !.pc = "apply", !.d = d, !.via = via, !.saw = invoice[d],
                                      !.ledger = deposit[d].ledger])
          /\ UNCHANGED outages
       \/ /\ via = "sync" /\ Outage   \* order status unavailable: syncLegacyDeposit
          /\ Serve(w, [Waiting EXCEPT !.pc = "legacy", !.d = d])
    /\ UNCHANGED rail

\* syncLegacyDeposit records movement only: a settlement is not a payment.
syncLegacyDeposit(w) ==
    /\ At(w, "legacy") /\ Done(w)
    /\ \E s \in {"processing", "failed"} : deposit' = [deposit EXCEPT ![desk[w].d].status = s]
    /\ UNCHANGED <<invoice, leg, topup, clawback, clawed, outages>>

\* Mutant of AmountMatches: any payment will do.
AmountUnchecked(saw) == TRUE

\* assertInvoiceAmountMatch: the amount paid is the invoice's, to the rupiah.
AmountMatches(saw) == saw # "misspaid"

Reversed(saw) == saw \in {"reversed", "expired"}

applyAnswer(w) ==
    /\ At(w, "apply")
    /\ LET d == desk[w].d
           saw == desk[w].saw
           paid == saw \in {"paid", "misspaid"}
           matched == desk[w].via = "webhook" \/ AmountMatches(saw)
           propose == Reversed(saw) /\ desk[w].ledger \in {"issued", "partial"} /\ desk[w].via # "sync"
       IN  CASE paid /\ matched -> markPayment(d, "success") /\ Serve(w, [Waiting EXCEPT !.pc = "issue?", !.d = d])
             [] paid /\ ~matched -> deposit' = [deposit EXCEPT ![d].ledger = "blocked"] /\ Done(w)
             [] OTHER -> /\ markPayment(d, IF saw = "expired" THEN "expired" ELSE "failed")
                         /\ IF propose THEN Serve(w, [Waiting EXCEPT !.pc = "propose", !.d = d, !.saw = saw]) ELSE Done(w)
    /\ UNCHANGED <<invoice, leg, topup, clawback, clawed, outages>>

\* A notification for a closed row: only a reversal of issued points is heard.
webhookClosed(w, d) ==
    /\ At(w, "idle") /\ ~Open(d) /\ deposit[d].ledger \in {"issued", "partial"} /\ Reversed(invoice[d])
    /\ Serve(w, [Waiting EXCEPT !.pc = "propose", !.d = d, !.saw = invoice[d]])
    /\ UNCHANGED <<rail, outages>>

\* reconcile of a closed row, adminSweep, adminBackfill: rows not issued yet.
completeIssuance(w, d) ==
    /\ At(w, "idle") /\ deposit[d] # NoDepositRow /\ ~Open(d) /\ deposit[d].ledger # "issued"
    /\ Serve(w, [Waiting EXCEPT !.pc = "issue?", !.d = d])
    /\ UNCHANGED <<rail, outages>>

---------------------------------------------------------------------------
\* issuePointsForDeposit

\* The lock, then the payment gate.  A depositor without a point account is
\* deferred.
issuePointsForDeposit(w) ==
    /\ At(w, "issue?") /\ LockFree(w)
    /\ LET d == desk[w].d
       IN  \/ /\ IF PaymentConfirmed(d) /\ deposit[d].ledger # "issued" THEN GoTo(w, "verify") ELSE Done(w)
              /\ UNCHANGED outages
           \/ Outage /\ Done(w)
    /\ UNCHANGED rail

\* Mutant of verifyOrder: the caller's corroboration is trusted.
verifyOrderNot(w) ==
    /\ At(w, "verify")
    /\ Serve(w, [desk[w] EXCEPT !.pc = "leg", !.leg = "PTS"])
    /\ UNCHANGED <<rail, outages>>

\* Whoever called, the order is asked again and its amount compared.
verifyOrder(w) ==
    /\ At(w, "verify")
    /\ LET d == desk[w].d
       IN  \/ /\ invoice[d] = "paid"
              /\ Serve(w, [desk[w] EXCEPT !.pc = "leg", !.leg = "PTS"])
              /\ UNCHANGED <<deposit, outages>>
           \/ /\ invoice[d] = "misspaid"
              /\ IF AmountMatches(invoice[d])
                 THEN Serve(w, [desk[w] EXCEPT !.pc = "leg", !.leg = "PTS"]) /\ UNCHANGED deposit
                 ELSE Done(w) /\ deposit' = [deposit EXCEPT ![d].ledger = "blocked"]
              /\ UNCHANGED outages
           \/ invoice[d] \notin {"paid", "misspaid"} /\ Done(w) /\ UNCHANGED <<deposit, outages>>
           \/ Outage /\ Done(w) /\ UNCHANGED deposit
    /\ UNCHANGED <<invoice, leg, topup, clawback, clawed>>

\* executePointTopup: a leg that settled or is under way is returned; the row
\* precedes the call, and its unique reference stops a second one.
startLeg(w) ==
    /\ At(w, "leg")
    /\ LET d == desk[w].d
           l == desk[w].leg
       IN  IF leg[d][l] \in {"settled", "processing"}
           THEN GoTo(w, "issue") /\ UNCHANGED leg
           ELSE /\ GoTo(w, "topup")
                /\ leg' = [leg EXCEPT ![d][l] = IF @ = "none" THEN "created" ELSE @]
    /\ UNCHANGED <<invoice, deposit, topup, clawback, clawed, outages>>

\* The top-up at DOKU, and the status it is adopted with.  A refused or
\* unanswered call fails the leg, whether or not it was performed.
pointTopup(w) ==
    /\ At(w, "topup")
    /\ LET d == desk[w].d
           l == desk[w].leg
           perform(s) == topup' = [topup EXCEPT ![d][l] = s]
           adopt(s) == Serve(w, [desk[w] EXCEPT !.pc = "adopt", !.saw = s])
       IN  \/ topup[d][l] = "none" /\ \E s \in {"processing", "settled"} : perform(s) /\ adopt(s)
              /\ UNCHANGED outages
           \/ topup[d][l] # "none" /\ adopt(topup[d][l]) /\ UNCHANGED <<topup, outages>>
           \/ /\ Outage /\ adopt("failed")
              /\ \/ UNCHANGED topup
                 \/ topup[d][l] = "none" /\ perform("processing")
    /\ UNCHANGED <<invoice, deposit, leg, clawback, clawed>>

adoptLeg(w) ==
    /\ At(w, "adopt")
    /\ leg' = [leg EXCEPT ![desk[w].d][desk[w].leg] = desk[w].saw]
    /\ Serve(w, [desk[w] EXCEPT !.pc = "issue", !.saw = "none"])
    /\ UNCHANGED <<invoice, deposit, topup, clawback, clawed, outages>>

\* Mutant of issuedStatus: the user's leg alone makes the deposit issued.
issuedOnUserLeg(d) == IF leg[d]["PTS"] = "settled" THEN "issued" ELSE "partial"

\* The parent's status once both legs were tried.
issuedStatus(d) == IF leg[d]["FEE"] = "settled" THEN "issued" ELSE "partial"

\* After a leg: the fee follows the user's, and the parent records the result.
afterLeg(w) ==
    /\ At(w, "issue")
    /\ LET d == desk[w].d
       IN  CASE desk[w].leg = "PTS" /\ leg[d]["PTS"] # "settled" ->
                  deposit' = [deposit EXCEPT ![d].ledger = "failed"] /\ Done(w)
             [] desk[w].leg = "PTS" /\ leg[d]["PTS"] = "settled" ->
                  Serve(w, [desk[w] EXCEPT !.pc = "leg", !.leg = "FEE"]) /\ UNCHANGED deposit
             [] OTHER -> deposit' = [deposit EXCEPT ![d].ledger = issuedStatus(d)] /\ Done(w)
    /\ UNCHANGED <<invoice, leg, topup, clawback, clawed, outages>>

\* A notification or reconciliation for a leg under way adopts DOKU's status.
syncLeg(w, d, l) ==
    /\ At(w, "idle") /\ leg[d][l] \in {"created", "processing"} /\ topup[d][l] # "none"
    /\ leg' = [leg EXCEPT ![d][l] = topup[d][l]]
    /\ UNCHANGED <<invoice, deposit, topup, clawback, clawed, desk, outages>>

\* DOKU completes or refuses a movement it accepted.
TopupEnds(d, l) ==
    /\ topup[d][l] = "processing"
    /\ \/ topup' = [topup EXCEPT ![d][l] = "settled"] /\ UNCHANGED outages
       \/ topup' = [topup EXCEPT ![d][l] = "failed"] /\ Outage
    /\ UNCHANGED <<invoice, deposit, leg, clawback, clawed, desk>>

---------------------------------------------------------------------------
\* Claw-backs

Candidate(c) == c.signal # "none"

\* proposeClawback: nothing while a candidate of the signal, or one in review,
\* is the row found; a known amount other than the net proposes nothing.
proposeClawback(w) ==
    /\ At(w, "propose")
    /\ LET d == desk[w].d
           rows == {clawback[d][i] : i \in DOMAIN clawback[d]}
           \* findFirst takes any row
           known == rows # {} /\ \E c \in rows : c.signal = desk[w].saw \/ c.ledger = "review"
           other == rows = {} \/ \E c \in rows : ~(c.signal = desk[w].saw \/ c.ledger = "review")
       IN  \/ (deposit[d].ledger \notin {"issued", "partial"} \/ known) /\ Done(w)
           \/ Done(w)
           \/ /\ deposit[d].ledger \in {"issued", "partial"} /\ other
              /\ Serve(w, [desk[w] EXCEPT !.pc = "candidate", !.n = Len(clawback[d]) + 1])
    /\ UNCHANGED <<rail, outages>>

\* `{ref}-CLAWBACK-{n}` is unique.
RefTaken(d, n) == n <= Len(clawback[d]) \/ n > MaxClawbacks

createCandidate(w) ==
    /\ At(w, "candidate") /\ Done(w)
    /\ LET d == desk[w].d
       IN  IF RefTaken(d, desk[w].n) THEN UNCHANGED clawback
           ELSE clawback' = [clawback EXCEPT ![d] =
                    Append(@, [signal |-> desk[w].saw, status |-> "created", ledger |-> "review", amount |-> Net])]
    /\ UNCHANGED <<invoice, deposit, leg, topup, clawed, outages>>

\* approveClawback: a candidate in review, then the lock.
approveClawback(w, d, i) ==
    /\ At(w, "idle") /\ clawback[d][i].ledger = "review" /\ clawback[d][i].status = "created"
    /\ Serve(w, [Waiting EXCEPT !.pc = "claim?", !.d = d, !.n = i])
    /\ UNCHANGED <<rail, outages>>

\* clawbackPoints, an operator's: the row is created under the lock.
clawbackPoints(w, d) ==
    /\ At(w, "idle") /\ deposit[d].ledger \in {"issued", "partial"} /\ LockFree(w)
    /\ Len(clawback[d]) < MaxClawbacks
    /\ Serve(w, [Waiting EXCEPT !.pc = "directRow", !.d = d, !.n = Len(clawback[d]) + 1])
    /\ UNCHANGED <<rail, outages>>

clawbackPointsDirect(w) ==
    /\ At(w, "directRow")
    /\ LET d == desk[w].d
       IN  IF RefTaken(d, desk[w].n) THEN Done(w) /\ UNCHANGED clawback
           ELSE \E a \in 1..Net :
                  /\ clawback' = [clawback EXCEPT ![d] =
                         Append(@, [signal |-> "none", status |-> "created", ledger |-> "pending", amount |-> a])]
                  /\ GoTo(w, "claim")
    /\ UNCHANGED <<invoice, deposit, leg, topup, clawed, outages>>

takeLock(w) ==
    /\ At(w, "claim?") /\ LockFree(w) /\ GoTo(w, "claim")
    /\ UNCHANGED <<rail, outages>>

\* executeClawbackRow: one approver claims the row; the loser returns it.
claimClawback(w) ==
    /\ At(w, "claim")
    /\ LET d == desk[w].d
           i == desk[w].n
       IN  IF clawback[d][i].status = "created"
           THEN clawback' = [clawback EXCEPT ![d][i].status = "processing"] /\ GoTo(w, "debit")
           ELSE UNCHANGED clawback /\ Done(w)
    /\ UNCHANGED <<invoice, deposit, leg, topup, clawed, outages>>

\* The recovered amount: this row and the others not failed.
Recovered(d, i) ==
    MapThenSumSet(LAMBDA j : clawback[d][j].amount,
                  {j \in DOMAIN clawback[d] : j = i \/ clawback[d][j].status # "failed"})

\* The debit, its status and the parent's.
debitClawback(w) ==
    /\ At(w, "debit") /\ Done(w)
    /\ LET d == desk[w].d
           i == desk[w].n
       IN  \/ /\ clawed' = clawed \cup {<<d, i>>}
              /\ \E s \in {"settled", "processing"} :
                    clawback' = [clawback EXCEPT ![d][i].status = s,
                                                 ![d][i].ledger = IF s = "settled" THEN "issued" ELSE s]
              /\ deposit' = [deposit EXCEPT ![d].ledger = IF Recovered(d, i) >= Net THEN "clawed_back" ELSE "partial"]
              /\ UNCHANGED outages
           \/ /\ Outage
              /\ clawed' \in {clawed, clawed \cup {<<d, i>>}}
              /\ clawback' = [clawback EXCEPT ![d][i].status = "failed"]
              /\ UNCHANGED deposit
    /\ UNCHANGED <<invoice, leg, topup>>

---------------------------------------------------------------------------

CrashDesk(w) ==
    /\ ~At(w, "idle") /\ Outage /\ Done(w)
    /\ UNCHANGED rail

DepositNext ==
    \/ \E d \in Deposits : OrderMoves(d) \/ \E l \in Legs : TopupEnds(d, l)
    \/ \E w \in Desks :
         \/ createPayment(w) \/ writeCancelled(w)
         \/ syncLegacyDeposit(w) \/ applyAnswer(w) \/ issuePointsForDeposit(w) \/ verifyOrder(w)
         \/ startLeg(w) \/ pointTopup(w) \/ adoptLeg(w) \/ afterLeg(w)
         \/ proposeClawback(w) \/ createCandidate(w) \/ clawbackPointsDirect(w) \/ takeLock(w)
         \/ claimClawback(w) \/ debitClawback(w) \/ CrashDesk(w)
    \/ \E w \in Desks, d \in Deposits :
         \/ createCheckoutDeposit(w, d) \/ cancelTx(w, d) \/ webhookClosed(w, d)
         \/ completeIssuance(w, d) \/ clawbackPoints(w, d)
         \/ \E via \in {"sync", "webhook", "reconcile"} : look(w, d, via)
         \/ \E l \in Legs : syncLeg(w, d, l)
         \/ \E i \in DOMAIN clawback[d] : approveClawback(w, d, i)

DepositSpec == DepositInit /\ [][DepositNext]_depositVars

---------------------------------------------------------------------------
\* Properties

DepositTypeOK ==
    /\ invoice \in [Deposits -> {"none", "open", "paid", "misspaid", "expired", "reversed"}]
    /\ deposit \in [Deposits ->
          [status: {"none", "created", "processing", "success", "cancelled", "failed"},
           payment: {"none", "success", "expired", "failed"},
           ledger: {"none", "pending", "failed", "partial", "issued", "blocked", "clawed_back"}]]
    /\ leg \in [Deposits -> [Legs -> {"none", "created", "processing", "settled", "failed"}]]
    /\ topup \in [Deposits -> [Legs -> {"none", "processing", "settled", "failed"}]]
    /\ \A d \in Deposits : Len(clawback[d]) <= MaxClawbacks

\* Points are topped up only for an order the customer paid to the rupiah, and
\* a deposit is `issued` only when DOKU settled both legs: whichever of the
\* four paths noticed the payment, on whichever instance, with answers lost.
PointsBacked ==
    \A d \in Deposits :
        /\ \A l \in Legs : topup[d][l] # "none" => invoice[d] \in {"paid", "reversed"}
        /\ deposit[d].ledger = "issued" => \A l \in Legs : topup[d][l] = "settled"

\* Reversal signals fork no second candidate ("repeat signals return the
\* existing candidate instead of forking duplicates"), as long as no operator
\* clawed back by hand in between.
OneCandidate ==
    \A d \in Deposits :
        \/ \E i \in DOMAIN clawback[d] : ~Candidate(clawback[d][i])
        \/ Len(clawback[d]) <= 1
=============================================================================
