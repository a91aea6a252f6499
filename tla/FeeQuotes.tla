----------------------------- MODULE FeeQuotes ------------------------------
(***************************************************************************)
(* From a fee quote to the fee that is charged: the published policies and *)
(* each API process's cache of them, the quote, the wallet client that     *)
(* shows, signs and retries it, the checks at submission, and what chain   *)
(* and reconciliation make of it.  Solana withdrawals, executes and        *)
(* activations, and the sponsored deployment of an EVM account.            *)
(*                                                                         *)
(* The network's price moves at any time; requests are served by any API  *)
(* process, and another device may spend from the same account.            *)
(***************************************************************************)
EXTENDS Integers, Sequences, FiniteSets

CONSTANTS
    Apis,           \* processes of the API
    Payers,           \* wallet clients of the account
    Prices,         \* what a transaction may cost
    Rent,           \* what creating the account costs on top
    NewRates,       \* rates an operator publishes, in basis points
    Headrooms,      \* what a client adds to the offered maximum
    Rails,          \* subset of "svm", "evm"
    CacheTtl, QuoteTtl, MaxTtl,     \* CACHE_TTL_MS, QUOTE_TTL_SECS, MAX_TTL_SECS
    LossCap,        \* absorbed loss that opens the breaker
    MaxPolicies, MaxCalls, FeeHorizon,
    MaxTurns        \* bound: price moves, policy changes, failing reads, other spends

ASSUME PricesAssumption == Prices \subseteq Nat /\ Prices # {}

ASSUME FeeQuoteConstants ==
    /\ Rent \in Nat /\ NewRates \subseteq 0..5000
    /\ Headrooms \subseteq Nat /\ Rails \subseteq {"svm", "evm"}
    /\ {CacheTtl, QuoteTtl, MaxTtl, LossCap, MaxPolicies, MaxCalls, FeeHorizon, MaxTurns} \subseteq Nat

VARIABLES
    policyRows,     \* chain_fee_policies, by version: rate, active
    policyCache,    \* what each process last loaded, and when
    networkCost,    \* the network's price
    wallets,        \* the clients
    approvals,      \* what users approved (history)
    flights,        \* broadcast transactions
    settledFees,    \* what landed, and was charged
    feeAccount,     \* on chain: deployed, nonce
    losses,         \* absorbed by the relayer, as the breaker knows
    turns, feeClock

feeVars == <<policyRows, policyCache, networkCost, wallets, approvals, flights, settledFees, feeAccount,
             losses, turns, feeClock>>

NoView == [at |-> 0, rates |-> <<>>, current |-> 0]
NoQuote == [version |-> 0, rate |-> 0, network |-> 0, total |-> 0, cap |-> 0, at |-> 0]
AtRest == [pc |-> "idle", call |-> 0, kind |-> "withdraw", quote |-> NoQuote, nonce |-> 0, tries |-> 0]

\* The rates both rows of the frozen table and both policies of program and
\* contracts have.
FEE_POLICY_TABLE == <<5000, 5000>>

FeeInit ==
    /\ policyRows = <<[rate |-> 5000, active |-> FALSE], [rate |-> 5000, active |-> TRUE]>>
    /\ policyCache = [a \in Apis |-> NoView]
    /\ networkCost = CHOOSE p \in Prices : \A o \in Prices : p <= o
    /\ wallets = [c \in Payers |-> AtRest]
    /\ approvals = {} /\ flights = {} /\ settledFees = {}
    /\ feeAccount \in [rail: Rails, deployed: {FALSE}, nonce: {0}]
    /\ losses = 0 /\ turns = 0 /\ feeClock = 0

---------------------------------------------------------------------------
\* The policy service

Turn == turns < MaxTurns /\ turns' = turns + 1

readPolicies ==
    LET on == {v \in DOMAIN policyRows : policyRows[v].active}
    IN  [at      |-> feeClock,
         rates   |-> [v \in DOMAIN policyRows |-> policyRows[v].rate],
         current |-> IF on = {} THEN Len(policyRows) ELSE CHOOSE v \in on : \A o \in on : v <= o]

codeFallback == [at |-> feeClock, rates |-> FEE_POLICY_TABLE, current |-> 2]

Cached(a) == policyCache[a] # NoView /\ feeClock - policyCache[a].at < CacheTtl

\* The cached view while it is young, else the table, or the frozen one when
\* the database does not answer.
Views(a) == {policyCache[a], readPolicies, codeFallback}
policies(a, view) ==
    /\ \/ Cached(a) /\ view = policyCache[a] /\ UNCHANGED turns
       \/ ~Cached(a) /\ view = readPolicies /\ UNCHANGED turns
       \/ ~Cached(a) /\ view = codeFallback /\ Turn
    /\ policyCache' = [policyCache EXCEPT ![a] = view]

Knows(view, version) == version \in DOMAIN view.rates

\* The current version and the one before it are taken.
checkSubmitVersion(view, version) ==
    Knows(view, version) /\ version <= view.current /\ view.current - version <= 1

\* solanaFeeLeg, serviceFeeFor: the rate of a signed version, from the frozen
\* table when the service does not know it; none if neither does.
Rated(view, version) == Knows(view, version) \/ version \in DOMAIN FEE_POLICY_TABLE
RateOf(view, version) ==
    IF Knows(view, version) THEN view.rates[version] ELSE FEE_POLICY_TABLE[version]

createPolicy(a, rate) ==
    /\ Len(policyRows) < MaxPolicies /\ Turn
    /\ policyRows' = Append(policyRows, [rate |-> rate, active |-> FALSE])
    /\ policyCache' = [policyCache EXCEPT ![a] = NoView]
    /\ UNCHANGED <<networkCost, wallets, approvals, flights, settledFees, feeAccount, losses, feeClock>>

\* Only the cache of the process that serves the operator is dropped.
activateVersion(a, version) ==
    /\ ~policyRows[version].active /\ Turn
    /\ policyRows' = [v \in DOMAIN policyRows |-> [policyRows[v] EXCEPT !.active = v = version]]
    /\ policyCache' = [policyCache EXCEPT ![a] = NoView]
    /\ UNCHANGED <<networkCost, wallets, approvals, flights, settledFees, feeAccount, losses, feeClock>>

---------------------------------------------------------------------------
\* Quotes

protocolFeeOf(network, rate) == (network * rate) \div 10000

\* estimateWithdrawFee, estimateExecuteFee; a first action pays for the
\* account as well.
networkFee == networkCost + (IF feeAccount.deployed THEN 0 ELSE Rent)

quoteEnvelope(view, network) ==
    LET rate == view.rates[view.current]
        total == network + protocolFeeOf(network, rate)
    IN  [version |-> view.current, rate |-> rate, network |-> network, total |-> total,
         cap |-> total, at |-> feeClock]

Quoted(c, a, network) ==
    /\ wallets[c].pc = "quote"
    /\ \E view \in Views(a) :
          /\ policies(a, view)
          /\ wallets' = [wallets EXCEPT ![c].pc = "approve", ![c].quote = quoteEnvelope(view, network)]
    /\ UNCHANGED <<policyRows, networkCost, approvals, flights, settledFees, feeAccount, losses, feeClock>>

quoteWithdraw(c, a) == wallets[c].kind = "withdraw" /\ Quoted(c, a, networkFee)
quoteExecute(c, a) == wallets[c].kind = "execute" /\ Quoted(c, a, networkFee)

\* quotedFees.
viewOfActivation(c, a) == wallets[c].kind = "activate" /\ Quoted(c, a, networkFee)

\* deployQuoteParts: a chain that cannot be read is shown as free.
deployQuotes == {networkFee, 0}

\* The EVM view, which offers its total as the maximum.
viewOfFees(c, a) ==
    /\ wallets[c].kind = "deploy" /\ ~feeAccount.deployed
    /\ \E network \in deployQuotes : Quoted(c, a, network)

---------------------------------------------------------------------------
\* The wallet client

\* The nonce is read before the quote is fetched.
Call(c, kind) ==
    /\ wallets[c].pc = "idle" /\ wallets[c].call < MaxCalls
    /\ wallets' = [wallets EXCEPT ![c] = [AtRest EXCEPT !.pc = "quote", !.call = wallets[c].call + 1,
                                                        !.kind = kind, !.nonce = feeAccount.nonce]]
    /\ UNCHANGED <<policyRows, policyCache, networkCost, approvals, flights, settledFees, feeAccount, losses,
                   turns, feeClock>>

withdrawCall(c) == feeAccount.rail = "svm" /\ Call(c, "withdraw")
executeCall(c) == feeAccount.rail = "svm" /\ Call(c, "execute")
activateCall(c) == feeAccount.rail = "svm" /\ ~feeAccount.deployed /\ Call(c, "activate")
deployCall(c) == feeAccount.rail = "evm" /\ ~feeAccount.deployed /\ Call(c, "deploy")

\* The amounts add up and the maximum covers them.
normalizeFeeQuote(quote) ==
    /\ quote.version >= 1
    /\ quote.total = quote.network + protocolFeeOf(quote.network, quote.rate)
    /\ quote.cap >= quote.total

\* Calls that create the account carry no nonce and are not retried.
Creating == {"activate", "deploy"}

GaveUp(c) == [AtRest EXCEPT !.call = wallets[c].call]

\* onQuote: the user sees this quote, and denies it or has it signed, with the
\* offered maximum or a higher one.  A second quote is signed for the nonce as
\* it is now.
onQuote(c) ==
    /\ wallets[c].pc = "approve" /\ wallets[c].kind # "activate" /\ normalizeFeeQuote(wallets[c].quote)
    /\ \/ wallets' = [wallets EXCEPT ![c] = GaveUp(c)] /\ UNCHANGED approvals
       \/ \E room \in Headrooms :
             LET quote == [wallets[c].quote EXCEPT !.cap = @ + room]
             IN  /\ approvals' = approvals \cup {<<c, wallets[c].call, quote>>}
                 /\ wallets' = [wallets EXCEPT ![c].pc = "posted", ![c].quote = quote,
                                   ![c].nonce = IF wallets[c].tries = 0 THEN @ ELSE feeAccount.nonce]
    /\ UNCHANGED <<policyRows, policyCache, networkCost, flights, settledFees, feeAccount, losses, turns, feeClock>>

\* An activation is signed for the view just fetched, whichever view the user
\* has looked at before: the passkey ceremony is the approval.
signView(c) ==
    /\ wallets[c].pc = "approve" /\ wallets[c].kind = "activate"
    /\ approvals' = approvals \cup {<<c, wallets[c].call, wallets[c].quote>>}
    /\ wallets' = [wallets EXCEPT ![c].pc = "posted"]
    /\ UNCHANGED <<policyRows, policyCache, networkCost, flights, settledFees, feeAccount, losses, turns, feeClock>>

\* What the client does with an error: sign the same quote again for the new
\* nonce, fetch another quote, or give up; it tries again once.
Answered(c, err) ==
    wallets' = [wallets EXCEPT ![c] =
        IF wallets[c].tries > 0 \/ wallets[c].kind \in Creating \/ err \notin {"stale", "re-quote"}
        THEN GaveUp(c)
        ELSE [wallets[c] EXCEPT !.pc = IF err = "stale" THEN "posted" ELSE "quote", !.tries = 1,
                                !.nonce = IF err = "stale" THEN feeAccount.nonce ELSE wallets[c].nonce]]

---------------------------------------------------------------------------
\* Submission

Expiry(quote) == quote.at + QuoteTtl

\* Mutant of exceedsDriftBound: any cost goes.
neverDrifts(attested, quoted) == FALSE

\* 120 per cent of what was quoted.
exceedsDriftBound(attested, quoted) == attested * 100 > quoted * 120

exceedsMaxTotalFee(total, cap) == total > cap

\* gateSubmitVersion; an EVM account is deployed under policy 2 only.
VersionTaken(c, view) ==
    /\ checkSubmitVersion(view, wallets[c].quote.version)
    /\ wallets[c].kind = "deploy" => wallets[c].quote.version = 2

\* The checks that come before the fee's: breaker, version, nonce, expiry.
GateError(c, view) ==
    LET w == wallets[c]
    IN  CASE losses >= LossCap                                    -> "re-quote"
          [] ~VersionTaken(c, view)                               -> "re-quote"
          [] w.kind \notin Creating /\ w.nonce # feeAccount.nonce -> "stale"
          [] Expiry(w.quote) <= feeClock                          -> "expired"
          [] Expiry(w.quote) - feeClock > MaxTtl                  -> "re-quote"
          [] OTHER                                                -> "none"

submitGate(c, a) ==
    /\ wallets[c].pc = "posted"
    /\ \E view \in Views(a) :
          /\ policies(a, view)
          /\ LET err == GateError(c, view)
             IN  IF err = "none" THEN wallets' = [wallets EXCEPT ![c].pc = "attest"] ELSE Answered(c, err)
    /\ UNCHANGED <<policyRows, networkCost, approvals, flights, settledFees, feeAccount, losses, feeClock>>

\* The cost is attested as it is now, checked against the quote and against
\* the signed maximum, and broadcast; the funds may be missing.
attest(c, a) ==
    /\ wallets[c].pc = "attest"
    /\ \E view \in Views(a) :
          LET quote == wallets[c].quote
              total == networkFee + protocolFeeOf(networkFee, RateOf(view, quote.version))
              err == CASE ~Rated(view, quote.version)                   -> "unknown"
                       [] exceedsDriftBound(networkFee, quote.network) -> "re-quote"
                       [] exceedsMaxTotalFee(total, quote.cap)         -> "re-quote"
                       [] OTHER                                        -> "none"
          IN  /\ policies(a, view)
              /\ \/ /\ err = "none"
                    /\ flights' = flights \cup {[c |-> c, call |-> wallets[c].call, kind |-> wallets[c].kind,
                                                 quote |-> quote, nonce |-> wallets[c].nonce,
                                                 network |-> networkFee]}
                    /\ wallets' = [wallets EXCEPT ![c] = GaveUp(c)]
                 \/ err # "none" /\ Answered(c, err) /\ UNCHANGED flights
                 \/ Answered(c, "insufficient") /\ UNCHANGED flights
    /\ UNCHANGED <<policyRows, networkCost, approvals, settledFees, feeAccount, losses, feeClock>>

---------------------------------------------------------------------------
\* Chain, reconciliation, network

\* Program and contracts know policies 1 and 2, the factory only 2, and
\* charge no more than the signed maximum.
Settles(f) ==
    /\ f.quote.version \in (IF f.kind = "deploy" THEN {2} ELSE {1, 2})
    /\ IF f.kind \in Creating THEN ~feeAccount.deployed ELSE f.nonce = feeAccount.nonce
    /\ feeClock < Expiry(f.quote)
    /\ f.network + protocolFeeOf(f.network, FEE_POLICY_TABLE[f.quote.version]) <= f.quote.cap

\* On Solana the rent is no part of the fee that the receipt shows.
LandFee(f) ==
    /\ Settles(f)
    /\ flights' = flights \ {f}
    /\ settledFees' = settledFees \cup
          {[by |-> f, protocol |-> protocolFeeOf(f.network, FEE_POLICY_TABLE[f.quote.version]),
            actual |-> IF feeAccount.rail = "svm" THEN networkCost ELSE networkFee, at |-> feeClock, reconciled |-> FALSE]}
    /\ feeAccount' = [feeAccount EXCEPT !.deployed = TRUE, !.nonce = IF f.kind \in Creating THEN @ ELSE @ + 1]
    /\ UNCHANGED <<policyRows, policyCache, networkCost, wallets, approvals, losses, turns, feeClock>>

absorbedLoss(s) == IF s.actual > s.by.network THEN s.actual - s.by.network ELSE 0

Reconciled(s, loss) ==
    /\ ~s.reconciled
    /\ settledFees' = (settledFees \ {s}) \cup {[s EXCEPT !.reconciled = TRUE]}
    /\ losses' = IF losses + loss > LossCap THEN LossCap ELSE losses + loss
    /\ UNCHANGED <<policyRows, policyCache, networkCost, wallets, approvals, flights, feeAccount, turns, feeClock>>

\* A receipt that cannot be read shows no loss.
reconcileSpend(s) == s.by.kind # "deploy" /\ \E loss \in {0, absorbedLoss(s)} : Reconciled(s, loss)

\* Both calls of recordAbsorbed.
reconcileDeploy(s) == s.by.kind = "deploy" /\ Reconciled(s, 2 * absorbedLoss(s))

Move(price) ==
    /\ price # networkCost /\ networkCost' = price /\ Turn
    /\ UNCHANGED <<policyRows, policyCache, wallets, approvals, flights, settledFees, feeAccount, losses, feeClock>>

\* Another device spends from the account.
OtherSpend ==
    /\ feeAccount.rail = "svm" /\ Turn
    /\ feeAccount' = [feeAccount EXCEPT !.deployed = TRUE, !.nonce = @ + 1]
    /\ UNCHANGED <<policyRows, policyCache, networkCost, wallets, approvals, flights, settledFees, losses,
                   feeClock>>

FeeTick ==
    /\ feeClock < FeeHorizon /\ feeClock' = feeClock + 1
    /\ UNCHANGED <<policyRows, policyCache, networkCost, wallets, approvals, flights, settledFees, feeAccount,
                   losses, turns>>

FeeNext ==
    \/ \E a \in Apis :
          \/ \E rate \in NewRates : createPolicy(a, rate)
          \/ \E v \in DOMAIN policyRows : activateVersion(a, v)
          \/ \E c \in Payers : \/ quoteWithdraw(c, a) \/ quoteExecute(c, a)
                             \/ viewOfActivation(c, a) \/ viewOfFees(c, a)
                             \/ submitGate(c, a) \/ attest(c, a)
    \/ \E c \in Payers : withdrawCall(c) \/ executeCall(c) \/ activateCall(c) \/ deployCall(c)
                        \/ onQuote(c) \/ signView(c)
    \/ \E f \in flights : LandFee(f)
    \/ \E s \in settledFees : reconcileSpend(s) \/ reconcileDeploy(s)
    \/ \E price \in Prices : Move(price)
    \/ OtherSpend \/ FeeTick

FeeSpec == FeeInit /\ [][FeeNext]_feeVars

---------------------------------------------------------------------------
\* Properties

\* Whatever is charged was approved: under a quote that the user saw for this
\* call, within its maximum and its five minutes, at the rate it showed, for
\* no more than 120 per cent of the cost it showed; and no call is charged
\* twice, with prices and policies moving, processes whose caches disagree,
\* other devices spending, and retries.
FeesAsApproved ==
    /\ \A s \in settledFees :
          \E quote \in {q[3] : q \in {p \in approvals : p[1] = s.by.c /\ p[2] = s.by.call}} :
             /\ s.by.network + s.protocol <= quote.cap
             /\ s.protocol = protocolFeeOf(s.by.network, quote.rate)
             /\ s.by.network * 100 <= quote.network * 120
             /\ s.at < quote.at + QuoteTtl
    /\ \A s, t \in settledFees : s.by.c = t.by.c /\ s.by.call = t.by.call => s = t
=============================================================================
