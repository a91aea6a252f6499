--------------------------- MODULE FiatTransfers ---------------------------
(***************************************************************************)
(* The ledger's own operations (apps/api/src/fiat/fiat-ledger.service.ts): *)
(* transfer inquiry, confirm and cancel, the admin correction, the issue   *)
(* of credit for a paid Checkout deposit, and the sandbox faucet.  Several *)
(* requests for the same intent, correction or deposit may run at once: a  *)
(* client retries, a webhook races the status poller.                      *)
(***************************************************************************)
EXTENDS FiatJournal

---------------------------------------------------------------------------
\* Fees: packages/payments/src/subaccount.ts and quoteFees.  Amounts are whole
\* rupiah (bigint in the code, so there is no overflow), rates basis points.

\* A fee policy row.  minIdr = 0 means no floor, maxIdr = 0 means no cap.
FeePolicy == [percentBps: Nat, minIdr: Nat, maxIdr: Nat, taxBps: Nat]

\* amount * bps / 10_000, rounded half up (bigint division truncates).
HalfUpBps(amount, bps) == (amount * bps + 5000) \div 10000

calcServiceFee(amount, policy) ==
    LET fee == HalfUpBps(amount, policy.percentBps)
    IN  IF policy.minIdr > 0 /\ fee < policy.minIdr THEN policy.minIdr
        ELSE IF policy.maxIdr > 0 /\ fee > policy.maxIdr THEN policy.maxIdr
        ELSE fee

calcTaxAmount(fee, taxBps) ==
    IF fee <= 0 \/ taxBps <= 0 THEN 0 ELSE HalfUpBps(fee, taxBps)

\* The per-app fee; percentBps = 0 stands for "no row" and "not enabled".
appFeeFor(policy, amount) ==
    IF policy.percentBps <= 0 THEN 0 ELSE calcServiceFee(amount, policy)

\* The global fee, its tax, and the initiating app's own fee.  A verified
\* app waives the global fee (and with it the tax) only.
quoteFees(amount, policy, verified, appPolicy) ==
    LET fee == IF verified THEN 0 ELSE calcServiceFee(amount, policy)
    IN  [fee    |-> fee,
         tax    |-> calcTaxAmount(fee, policy.taxBps),
         appFee |-> appFeeFor(appPolicy, amount)]

---------------------------------------------------------------------------
CONSTANTS
    Intents,      \* transfer intents (fiat_transfer_out rows)
    Amounts,      \* gross amounts of transfers and corrections
    FeePolicies,  \* fee policy versions that may be active
    AppPolicy,    \* AppPolicy[a]: the "transaction" fee row of app a
    NoApp,        \* a transfer without app context
    Allowlist,    \* PID_FIAT_LEDGER_APP_ALLOWLIST
    Adjusts,      \* requestIds of admin corrections
    Deposits,     \* Checkout deposits (fiat_provider_transactions rows)
    DepositQuote, \* DepositQuote[d]: pid, and the quote pinned at creation
    MinNet,       \* MIN_FIAT_DEPOSIT_NET_IDR
    Credits,      \* creditIds of faucet mints (fresh UUIDs)
    MintAmounts,  \* amounts parseFaucetAmount lets through
    FaucetCap,    \* FAUCET_DAILY_CAP_IDR
    FaucetCalls   \* FAUCET_DAILY_MAX_CALLS

ASSUME TransferAssumption ==
    /\ Amounts \subseteq Nat \ {0}
    /\ FeePolicies \subseteq FeePolicy
    /\ NoApp \notin Apps
    /\ AppPolicy \in [Apps -> FeePolicy]
    /\ DepositQuote \in [Deposits -> [pid: Pids, net: Nat, fee: Nat, tax: Nat,
                                      app: Apps \cup {NoApp}, owner: Pids, appFee: Nat]]
    /\ MinNet \in Nat \ {0}
    /\ MintAmounts \subseteq Nat \ {0}
    /\ FaucetCap \in Nat /\ FaucetCalls \in Nat

VARIABLES
    intent,   \* intent[i]: status of the row, and the posting it quotes
    dep,      \* dep[d]: the provider transaction row of deposit d
    order,    \* order[d]: what DOKU answers about the deposit's order
    mint      \* mint[p]: number and sum of p's faucet rows since midnight UTC

transferVars == <<intent, dep, order, mint>>

\* Either side owns an active app, or is on the allowlist.
requireEligibleSide(from, to) ==
    \/ {from, to} \cap Allowlist # {}
    \/ \E a \in active : AppOwner[a] \in {from, to}

---------------------------------------------------------------------------
\* Transfers

\* net = gross - fee - tax - appFee; the quote is pinned in the row.
Quoted(i, from, to, gross, q, owner) ==
    [group |-> i, kind |-> "transfer", from |-> from, gross |-> gross, to |-> to,
     net |-> gross - (q.fee + q.tax + q.appFee), fee |-> q.fee, tax |-> q.tax,
     owner |-> owner, appFee |-> q.appFee]

InquiryQuote(gross, policy, verified, a) ==
    quoteFees(gross, policy, verified,
              IF a = NoApp THEN [policy EXCEPT !.percentBps = 0] ELSE AppPolicy[a])

transferInquiry(i, from, to, gross, policy, verified, a) ==
    /\ intent[i].st = "none"
    /\ requireUsable
    /\ from # to
    /\ requireEligibleSide(from, to)
    /\ a = NoApp => ~verified
    /\ LET po == Quoted(i, from, to, gross, InquiryQuote(gross, policy, verified, a),
                        IF a = NoApp THEN NoPid ELSE AppOwner[a])
       IN  /\ po.net > 0
           /\ intent' = [intent EXCEPT ![i] = [st |-> "created", po |-> po]]
    /\ UNCHANGED <<journalVars, dep, order, mint>>

\* transferConfirm up to the transaction: flags, and the intent as read now.
transferConfirm(r, i) ==
    /\ requireUsable
    /\ intent[i].st = "created"
    /\ Begin(r, "confirm", i, intent[i].po, {intent[i].po.from, intent[i].po.to}, "lock")
    /\ UNCHANGED transferVars

\* Mutant of StillCreated: the status read before the transaction is trusted.
CreatedAsRead(i) == TRUE

\* The status re-read inside the transaction, under the identity locks.
StillCreated(i) == intent[i].st = "created"

ConfirmOk(r) ==
    LET po == tx[r].po
    IN  /\ StillCreated(tx[r].ref)
        /\ requireEligibleSide(po.from, po.to)
        /\ HasFunds(po.from, po.gross)

ConfirmCheck(r) ==
    /\ At(r, "check") /\ tx[r].op = "confirm"
    /\ \/ ConfirmOk(r) /\ Goto(r, "chain")
          /\ UNCHANGED <<journal, bal, outbox, lock, active, frozen, upsets>>
       \/ ~ConfirmOk(r) /\ Abort(r)
    /\ UNCHANGED transferVars

\* enqueueTransferEventsTx: one callback per active app of either side.
TransferEvents(po) ==
    {<<po.group, a>> : a \in {b \in active : AppOwner[b] \in {po.from, po.to}}}

\* The legs, the intent row flipped to posted, the callbacks: one commit.
ConfirmCommit(r) ==
    /\ tx[r].op = "confirm"
    /\ PostLegs(r, TransferEvents(tx[r].po))
    /\ intent' = [intent EXCEPT ![tx[r].ref].st = "posted"]
    /\ UNCHANGED <<dep, order, mint>>

CancelLocks(i) == {intent[i].po.from}

\* cancelIntent takes the sender's lock only, and no freeze check.
cancelIntent(r, i) ==
    /\ intent[i].st # "none"
    /\ Begin(r, "cancel", i, NoPosting, CancelLocks(i), "lock")
    /\ UNCHANGED transferVars

\* Mutant of CancelCommit: a status the other readers do not know.
CancelCommitExpired(r) ==
    /\ At(r, "check") /\ tx[r].op = "cancel"
    /\ intent' = [intent EXCEPT ![tx[r].ref].st = IF @ = "created" THEN "expired" ELSE @]
    /\ Abort(r)
    /\ UNCHANGED <<dep, order, mint>>

\* Mutant of CancelCommit: the status is not read again under the lock.
CancelCommitBlind(r) ==
    /\ At(r, "check") /\ tx[r].op = "cancel"
    /\ intent' = [intent EXCEPT ![tx[r].ref].st = "cancelled"]
    /\ Abort(r)
    /\ UNCHANGED <<dep, order, mint>>

CancelCommit(r) ==
    /\ At(r, "check") /\ tx[r].op = "cancel"
    /\ intent' = [intent EXCEPT ![tx[r].ref].st = IF @ = "created" THEN "cancelled" ELSE @]
    /\ Abort(r)
    /\ UNCHANGED <<dep, order, mint>>

---------------------------------------------------------------------------
\* Admin correction, idempotent on its requestId

adminAdjust(r, q, from, to, amount) ==
    /\ requireUsable
    /\ from # to
    /\ <<q, "OUT">> \notin Keys        \* else: match and return, or 409
    /\ Begin(r, "adjust", q, Move(q, "adjust", from, to, amount), {from, to}, "lock")
    /\ UNCHANGED transferVars

\* Mutant of AdjustCheck: waits for funds, holding its locks, instead of failing.
AdjustCheckWaits(r) ==
    /\ At(r, "check") /\ tx[r].op = "adjust"
    /\ HasFunds(tx[r].po.from, tx[r].po.gross)
    /\ Goto(r, "chain")
    /\ UNCHANGED <<journal, bal, outbox, lock, active, frozen, upsets, transferVars>>

AdjustCheck(r) ==
    /\ At(r, "check") /\ tx[r].op = "adjust"
    /\ LET ok == HasFunds(tx[r].po.from, tx[r].po.gross)
       IN  \/ ok /\ Goto(r, "chain")
              /\ UNCHANGED <<journal, bal, outbox, lock, active, frozen, upsets>>
           \/ ~ok /\ Abort(r)
    /\ UNCHANGED transferVars

AdjustCommit(r) ==
    /\ tx[r].op = "adjust"
    /\ PostLegs(r, {})
    /\ UNCHANGED transferVars

---------------------------------------------------------------------------
\* Issue of credit for a Checkout deposit

\* DOKU: the customer pays the order, the exact total or another amount.
PayOrder(d, how) ==
    /\ order[d] = "unpaid"
    /\ order' = [order EXCEPT ![d] = how]
    /\ UNCHANGED <<journalVars, intent, dep, mint>>

\* A push (webhook or sync) records the payment as successful, true or not.
DepositConfirmed(d) ==
    /\ dep[d] = "open"
    /\ dep' = [dep EXCEPT ![d] = "confirmed"]
    /\ UNCHANGED <<journalVars, intent, order, mint>>

IssuePosting(d) ==
    LET q == DepositQuote[d]
    IN  [NoPosting EXCEPT !.group = d, !.to = q.pid, !.net = q.net, !.fee = q.fee,
                          !.tax = q.tax, !.owner = q.owner, !.appFee = q.appFee]

\* The gates of issueForDepositInner before it asks DOKU.
issueForDeposit(r, d) ==
    /\ dep[d] = "confirmed"
    /\ requireUsable
    /\ <<d, "IN">> \notin Keys
    /\ Begin(r, "issue", d, IssuePosting(d), {}, "corroborate")
    /\ UNCHANGED transferVars

\* Mutant of IssueCorroborate: the push is believed.
IssueUncorroborated(r) ==
    /\ At(r, "corroborate") /\ tx[r].op = "issue"
    /\ Goto(r, "chain")
    /\ UNCHANGED <<journal, bal, outbox, lock, active, frozen, upsets, transferVars>>

\* checkOrderStatus: exact amount -> append; other amount -> blocked for
\* review; unpaid or net below the minimum -> return.
IssueCorroborate(r) ==
    /\ At(r, "corroborate") /\ tx[r].op = "issue"
    /\ \/ /\ order[tx[r].ref] = "paid"
          /\ DepositQuote[tx[r].ref].net >= MinNet
          /\ Goto(r, "chain")
          /\ UNCHANGED <<journal, bal, outbox, lock, active, frozen, upsets, dep>>
       \/ /\ order[tx[r].ref] = "mismatch"
          /\ dep' = [dep EXCEPT ![tx[r].ref] = "blocked"]
          /\ Abort(r)
       \/ /\ \/ order[tx[r].ref] = "unpaid"
             \/ order[tx[r].ref] = "paid" /\ DepositQuote[tx[r].ref].net < MinNet
          /\ Abort(r)
          /\ UNCHANGED dep
    /\ UNCHANGED <<intent, order, mint>>

\* fiat.deposit.paid goes to the app the deposit was made for.
DepositEvents(po) ==
    {<<po.group, a>> : a \in active \cap {DepositQuote[po.group].app}}

IssueCommit(r) ==
    /\ tx[r].op = "issue"
    /\ PostLegs(r, DepositEvents(tx[r].po))
    /\ UNCHANGED transferVars

---------------------------------------------------------------------------
\* Sandbox faucet

\* Mutant of mintTestCredit: the budget is checked without the identity lock.
mintUnlocked(r, c, p, amount) ==
    /\ requireUsable
    /\ ~Posted(c) /\ \A s \in Reqs : tx[s].ref # c
    /\ Begin(r, "mint", c, [NoPosting EXCEPT !.group = c, !.to = p, !.net = amount], {}, "check")
    /\ UNCHANGED transferVars

mintTestCredit(r, c, p, amount) ==
    /\ requireUsable
    /\ ~Posted(c) /\ \A s \in Reqs : tx[s].ref # c
    /\ Begin(r, "mint", c, [NoPosting EXCEPT !.group = c, !.to = p, !.net = amount], {p}, "lock")
    /\ UNCHANGED transferVars

\* Today's rows counted and summed under the identity lock.
FaucetAllows(p, amount) ==
    mint[p].calls < FaucetCalls /\ mint[p].spent + amount <= FaucetCap

MintCheck(r) ==
    /\ At(r, "check") /\ tx[r].op = "mint"
    /\ LET ok == FaucetAllows(tx[r].po.to, tx[r].po.net)
       IN  \/ ok /\ Goto(r, "chain")
              /\ UNCHANGED <<journal, bal, outbox, lock, active, frozen, upsets>>
           \/ ~ok /\ Abort(r)
    /\ UNCHANGED transferVars

MintCommit(r) ==
    /\ tx[r].op = "mint"
    /\ PostLegs(r, {})
    /\ mint' = [mint EXCEPT ![tx[r].po.to] = [calls |-> @.calls + 1,
                                             spent |-> @.spent + tx[r].po.net]]
    /\ UNCHANGED <<intent, dep, order>>

NoMints == [p \in Pids |-> [calls |-> 0, spent |-> 0]]

Midnight ==
    /\ mint # NoMints
    /\ mint' = NoMints
    /\ UNCHANGED <<journalVars, intent, dep, order>>

---------------------------------------------------------------------------

TransferInit ==
    /\ intent = [i \in Intents |-> [st |-> "none", po |-> NoPosting]]
    /\ dep = [d \in Deposits |-> "open"]
    /\ order = [d \in Deposits |-> "unpaid"]
    /\ mint = NoMints

\* The steps of request r inside confirm, cancel, adjust, issue and mint.
TransferRequestStep(r) ==
    \/ ConfirmCheck(r) \/ ConfirmCommit(r) \/ CancelCommit(r)
    \/ AdjustCheck(r)  \/ AdjustCommit(r)
    \/ IssueCorroborate(r) \/ IssueCommit(r)
    \/ MintCheck(r) \/ MintCommit(r)

TransferStep ==
    \/ \E i \in Intents, from, to \in Pids, gross \in Amounts, policy \in FeePolicies,
          verified \in BOOLEAN, a \in active \cup {NoApp} :
             transferInquiry(i, from, to, gross, policy, verified, a)
    \/ \E r \in Reqs, i \in Intents : transferConfirm(r, i) \/ cancelIntent(r, i)
    \/ \E r \in Reqs, q \in Adjusts, from, to \in Pids, amount \in Amounts :
             adminAdjust(r, q, from, to, amount)
    \/ \E r \in Reqs, d \in Deposits : issueForDeposit(r, d)
    \/ \E r \in Reqs, c \in Credits, p \in Pids, amount \in MintAmounts :
             mintTestCredit(r, c, p, amount)
    \/ Midnight
    \/ \E r \in Reqs : TransferRequestStep(r)
    \/ \E d \in Deposits : \/ \E how \in {"paid", "mismatch"} : PayOrder(d, how)
                           \/ DepositConfirmed(d)
=============================================================================
