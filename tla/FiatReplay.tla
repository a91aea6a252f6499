----------------------------- MODULE FiatReplay -----------------------------
(***************************************************************************)
(* The readers of the journal: sumPosted (fiat-ledger.service.ts) and      *)
(* replayFiatLedger (fiat-ledger-replay.ts), as the folds over its rows    *)
(* that the code computes, and what they must say of every journal the     *)
(* rail can write.                                                         *)
(***************************************************************************)
EXTENDS FiatLedger, FiniteSetsExt

SumOf(rows) == MapThenSumSet(LAMBDA row : row.amount, rows)

CreditKinds == {"fiat_payment_in", "fiat_issue", "fiat_transfer_in", "fiat_app_fee"}
CreditsRow(row) == (row.kind \in CreditKinds \/ row.kind = "fiat_adjust") /\ row.dir = "in"
DebitsRow(row)  == row.kind \in {"fiat_transfer_out", "fiat_adjust"} /\ row.dir = "out"

\* sumPosted over the pid's rows: fee and tax rows do not touch the owner.
SumPosted(p) ==
      SumOf({row \in journal : row.pid = p /\ CreditsRow(row)})
    - SumOf({row \in journal : row.pid = p /\ DebitsRow(row)})

\* replayFiatLedger: the balance of an owner, treasury and tax buckets.
ReplayIn(row)  == row.kind \in CreditKinds \/ (row.kind = "fiat_adjust" /\ row.dir = "in")
ReplayOut(row) == row.kind = "fiat_transfer_out" \/ (row.kind = "fiat_adjust" /\ row.dir = "out")
Bucket(kind)   == SumOf({row \in journal : row.kind = kind})
ReplayBalance(p) ==
    SumOf({row \in journal : row.pid = p /\ ReplayIn(row)})
    - SumOf({row \in journal : row.pid = p /\ ReplayOut(row)})

GroupsPosted == {row.key[1] : row \in journal}
GroupOut(g) == SumOf({row \in journal : row.key[1] = g /\ ReplayOut(row)})
GroupIn(g)  == SumOf({row \in journal : row.key[1] = g /\ ~ReplayOut(row)})

ExpectedDir(row) ==
    CASE row.kind \in CreditKinds -> {"in"}
      [] row.kind \in {"fiat_fee", "fiat_tax", "fiat_transfer_out"} -> {"out"}
      [] OTHER -> {"in", "out"}

\* The rows and groups replayFiatLedger reports an error for.
BadRows   == {row \in journal : row.amount <= 0 \/ row.dir \notin ExpectedDir(row)}
BadGroups == {g \in GroupsPosted : GroupOut(g) # 0 /\ GroupOut(g) # GroupIn(g)}
Negative  == {p \in Pids : ReplayBalance(p) < 0}

---------------------------------------------------------------------------

\* The guard's balance (sumPosted) is the balance the wallet shows (replay),
\* and neither drifts by the fee and tax rows.
GuardMatchesReplay == \A p \in Pids : bal[p] = SumPosted(p) /\ SumPosted(p) = ReplayBalance(p)

\* The audit is clean in every state: no row with a wrong direction, no group
\* whose debit differs from net + fee + tax + app fee, no negative owner.
ReplayClean == BadRows = {} /\ BadGroups = {} /\ Negative = {}

\* Guard, wallet and audit agree: the balance a debit is checked against is the
\* one replayFiatLedger shows, and the replay finds nothing to report.
ReplayAgrees == GuardMatchesReplay /\ ReplayClean

\* Money enters the ledger only through deposits, payments and the faucet;
\* transfers, corrections and refunds move it and create none.
Conservation ==
    MapThenSumSet(LAMBDA p : bal[p], Pids) + Bucket("fiat_fee") + Bucket("fiat_tax")
      = SumOf({row \in journal : row.key[1] \in Deposits \cup Credits \cup Payments})

\* A payment's refunds add up to its refundedIdr and never exceed its amount.
RefundsBounded ==
    \A p \in Payments :
        /\ pay[p].refunded = SumOf({row \in journal : \E x \in RefundIds : row.key = <<<<p, x>>, "OUT">>})
        /\ pay[p].refunded <= PayQuote[p].amount

\* The limits that concurrent requests share hold: a payment's refunds, and a
\* day's faucet calls and credit of an identity.
LimitsKept == RefundsBounded /\ FaucetCapped

---------------------------------------------------------------------------
\* Why they hold: the inductive strengthening the proofs use

\* Only finitely many identities exist at a time.
ASSUME PidsAssumption == IsFiniteSet(Pids)

Sources == Deposits \cup Credits \cup Payments

\* A posting that keeps the books: it credits somebody, an app fee has an
\* owner, and either money comes in and nobody is debited, or the gross that
\* leaves the payer is what the other legs receive.
FairPosting(po) ==
    /\ po.to \in Pids /\ po.net > 0
    /\ po.appFee > 0 => po.owner \in Pids
    /\ IF po.group \in Sources THEN po.from = NoPid
       ELSE po.from \in Pids /\ po.gross = po.net + po.fee + po.tax + po.appFee

\* What a request will post is fair, from the moment it is sure to post it.
FairRequest(r) ==
    LET t == tx[r]
    IN  /\ t.op \in {"confirm", "adjust", "mint"} \/ Past(r) => FairPosting(t.po)
        /\ t.op = "issue" => t.po = IssuePosting(t.ref)
        /\ t.op = "refund" => /\ t.po.from \in Pids /\ t.po.to \in Pids
                              /\ t.po.fee = 0 /\ t.po.tax = 0 /\ t.po.appFee = 0

FairRequests == /\ \A r \in Reqs : FairRequest(r)
                /\ \A i \in Intents : intent[i].st # "none" => FairPosting(intent[i].po)

\* The rows are finitely many, each has an amount and the direction of its
\* kind, and each group has a credit.
RowsFair ==
    /\ IsFiniteSet(journal)
    /\ \A row \in journal : /\ row.amount > 0 /\ row.dir \in ExpectedDir(row)
                             /\ <<row.key[1], "IN">> \in Keys

BooksBalance == /\ \A p \in Pids : bal[p] = SumPosted(p)
                /\ BadGroups = {}
                /\ Conservation

Accounted == RowsFair /\ FairRequests /\ BooksBalance /\ RefundsBounded

---------------------------------------------------------------------------
\* The rail implements the atomic ledger: whatever is locked, waited for, rolled
\* back, repeated or raced on the way, what the journal shows is bookings made
\* whole, at once and one time, by payers who could afford them.
Abstract == INSTANCE AtomicLedger
    WITH Accounts <- Pids, Sources <- Sources,
         balance <- bal, booked <- GroupsPosted

RailIsAtomic == Abstract!LedgerSpec
=============================================================================
