# PeridotID: TLA+ models, checks and proofs

This directory models the parts of PeridotID in which money, signing rights,
identities or messages can go wrong in ways that a test would hardly reach: the
fiat rail and the point rail of the API, its relayer, batch queue, activation
and fee quotes, sign-in and sessions with the cookies and popups of the browser,
experience points, runtime settings and handles, and the smart accounts on the
EVM chains, Solana and Stellar with the packages that build their calls.
TLC checks the models on small instances; TLAPS proves most of what the runs
check for instances of every size.

`PROJECT.json` lists the components, the runs, the mutants that each property
must catch, the source lines behind every definition, the findings, the hazards
and the theorems.

    tlc -workers 2 -config Transfers.cfg MCFiatLedger     # one run
    tlapm FiatLedger_proofs.tla                           # the proofs of a module

## 1. Inventory

PeridotID is a NestJS API over PostgreSQL (`apps/api`), smart accounts on three
chains (`contracts/`), client packages (`packages/`), and user interfaces. Each
HTTP request, webhook and poller tick is an asynchronous function; several run
at once, in several replicas, and meet in PostgreSQL rows and locks, at the
payment provider DOKU, and on chain.

| Component | State it keeps | Operations | Meets | What makes it correct |
|---|---|---|---|---|
| Fiat ledger | `fiat_ledger_entries` (hash-chained), transfer intents, `fiat_ledger_events` | inquiry, confirm, cancel, admin correction, issue for a deposit, faucet | row locks of `identities`, `CHAIN_LOCK`, unique keys | nobody is overdrawn; an intent settles once; the chain never forks; the audit is clean |
| Direct payments | `fiat_payments`, the invoice at DOKU | create, notify, poll, cancel, refund | the ledger, DOKU, the payment's advisory lock | credited exactly if paid, once; refunds within the amount; the poller finds a paid invoice as long as it selects the row |
| Replay and audit | none | `sumPosted`, `replayFiatLedger` | the journal | guard, wallet and audit compute one balance |
| Fee arithmetic | policy rows | service fee, tax, app fee | quotes | legs of a group add up |
| Chain verification, backfill | hash columns | verify, backfill | appends | backfill and append do not interleave |
| Outbox dispatcher | event status, lease, attempts | dispatch, replay | app webhooks | delivered means received; a late result never overwrites a newer one |
| DOKU sub-accounts | `fiat_provider_transactions` | deposit, withdraw, transfer, claw-back, redeem, pollers | DOKU, ledger | points are backed; a transaction settles once |
| Relayer slots | `relayer_broadcast` | claim, record, resolve-then-act, rotation guard | chain RPC | one signed intent per nonce and entry point; unclear outcomes are resolved, not assumed |
| Circuit breaker | losses and open flags, in memory | record, open, close | every sponsored action | it opens at the cap |
| Sponsored withdraw and execute, key rotation | `authority` rows, the chain's nonce and authority | withdraw, execute, rotate, reconcile | slots, breaker, chain | a credential is revoked only after its rotation; a valid rotation gets through |
| Batch queue | `queued_batch` | preview, submit, flush, settle, cancel, reap | relayer transport | nobody pays more than quoted; receipts are true; every batch ends |
| Activation | `chain_accounts` | prepare, activate, poll, reconcile | slots, chain | what is called active is deployed |
| Fee policy, quotes, subsidies | policy versions, each process's cache, losses | publish, quote, submit, reconcile | chain, clients | the fee charged is the fee approved |
| Sessions, passkeys | session families, credentials, challenges | refresh, log out, register, revoke | browsers | ended sessions stay ended; new passkeys are vouched for |
| Cookies | one session cookie and one slot per account, in the browser | log in, switch, sign out, refresh, from any tab | API, other tabs | a cookie never acts for somebody the browser did not sign in |
| Popups of the wallet | request, account bound, delivery | log in, consent, approve, deny, switch | apps, the wallet's account | nothing without a click; one request is approved once, by the account it was shown for |
| OTP, Google, claim | codes, tickets, identities | verify, look up, claim | browsers | one person, one identity |
| SSO, apps | codes, consents, app registration | issue, redeem, verify an app | apps | every code is used once |
| Handles | holders, claim receipts, takedown reports, bulk reviews | contract claim, sign-up's claim, report, appeal, decide | claim | a receipt is for a claim that took its handle; a contract claim does not take a handle under review |
| Intents, permissions | grants, signed intents | create, grant, revoke | EVM account | a record follows its call |
| Experience | events, XP ledger, quotas, levels | award, correct, backfill | apps | an event awards once, within quotas |
| EVM account and factory | authority, nonce, grants, modules, balance | execute, batch, sessions, rotate, modules, administration | any contract it calls | an authorisation acts once; ended sessions stay ended; fees are bounded |
| SVM account | vault, sessions, tickets, tombstones, treasury | initialise, execute, close, rotate, session calls | the game it calls | closures are orderly; games stay confined |
| Stellar account | rule snapshots, factory map | deploy, register, policy | OpenZeppelin library, host | signed scopes mean one thing; sessions move no assets |
| Packages | none | instruction and calldata builders, SDK, HTTP clients | program and contracts, API | what is built is what is executed |
| System settings | rows with versions, their history, each process's cache (30 s), the dashboard's page | list, edit, save, resolve a conflict, page the history; read by the intake of experience | admins, experience | no save is lost or overwrites what its form never showed; a switch takes effect in time |
| Other admin screens, registry; UIs | rows, caches | CRUD, pages | | mostly no protocol of their own |

Hard behaviours: lock waits between a check and its write (ledger), locks taken
in different orders (ledger against foreign keys), rows updated without a
condition by requests on several instances (point rail, batch queue), answers of
DOKU or of a chain RPC that are lost, late or out of date, crashes between a
broadcast and its record, retries of what is already done, callbacks of called
contracts (EVM), limits that are reached by concurrent calls (faucet, refunds,
breaker, quotas), counters at their ceiling (session generations), layouts
written by hand on both sides (wire formats). Each is listed under `hazards` at
the line where it bites.

## 2. Modules

A module models one component; `MC...` modules hold TLC's instances and put
components that share no state side by side; `..._proofs` modules hold theorems.

### The fiat rail

| Module | Models |
|---|---|
| `FiatJournal` | the journal, the lock table, the outbox rows, the steps all requests share, faults, the deadlock detector |
| `FiatTransfers` | `calcServiceFee`, `calcTaxAmount`, `quoteFees`, `appFeeFor`; `transferInquiry`, `transferConfirm`, `cancelIntent`, `adminAdjust`, `issueForDeposit`, `mintTestCredit` |
| `FiatPayments` | `create`, `notify`, `reconcile`, `sync`, `cancel`, `refund`; DOKU's invoice |
| `FiatLedger` | their composition, fairness, types, properties and the inductive invariants |
| `FiatReplay` | `sumPosted` and `replayFiatLedger` as folds over the rows, and what they must say; the refinement mapping |
| `AtomicLedger` | what the rail promises: bookings happen whole, at once, one time, and are funded |
| `WebhookOutbox` | leases, posts, results, retries with backoff, abandonment and replay of the events that `FiatJournal` writes |
| `FiatLedger_proofs`, `FiatReplay_proofs` | the theorems; `Sums_proofs` holds what they need of sums over finite sets |
| `MCFiatLedger`, `MCPayments` | instances |

A request is a process `r`; `tx[r]` holds its local variables and a program
counter. A step is what happens between two awaits: one row lock, one check,
one commit. `lock` says who holds each identity row, payment lock and
`CHAIN_LOCK`; a request waits by not being enabled. The steps of a posting are
`lock` (rows in PID order), `check`, `chain` (take `CHAIN_LOCK`, read the head)
and `append` (wait for the foreign keys' `KEY SHARE`, then insert all legs and
outbox rows and commit). `Fault` ends a request anywhere and rolls its open
transaction back.

Abstractions: a row's hash is represented by its idempotency key, which the
hash covers and a unique index keeps unique. The rows of a posting are computed
from one record (`Legs`). `bal` is the sum that `postedBalanceTx` would compute;
`GuardMatchesReplay` (in `ReplayAgrees`) checks it against the sum itself in every state. Reads
outside transactions happen at the request's first step. DTO validation, texts,
and DOKU's signatures are left out.

### The point rail

| Module | Models |
|---|---|
| `PointDeposits` | Checkout deposits of points: invoice, notification, status check, reconciliation, sweep, the two top-ups, claw-backs |
| `PointTransfers` | registration, inquiry, confirmation with its claim, mirror row, treasury fee leg, retry, cancellation, sweep and backfill of mirrors |
| `Redemptions` | request, burn, payout, recovery and expiry, the halt on a backing gap |
| `Services_proofs` | the theorems (fee quotes, experience, settings and handles included) |
| `MCServices` | instances, identity and administration included |

The modules share the conventions of the rail: a worker is a request or a sweep
on an API instance; what it has read is in its local record; rows are updated as
the code does, mostly without a condition. A recipient's mirror is filed under
DOKU's number for the movement or, when the answer has none, under the transfer's own
reference, so one transfer may get two. DOKU is external and performs a
partner reference once (409 afterwards); any answer may be lost.

### The relayer, batches, activation and fees

| Module | Models |
|---|---|
| `Relayer` | one identity on Solana: signed intents, slots by nonce and entry point, `withdraw`, `execute`, `rotate` await by await, resolve-then-act, rotation guard, breaker; external: chain, RPC, time |
| `BatchQueue` | preview, submit, due and fee-watched flush, settlement operation by operation, cancel, reap |
| `Activation` | `chain_accounts` rows, prepare, activate, poll, reconcile, first action, on Solana and EVM |
| `FeeQuotes` | policies and their caches, quote, client approval and retry, checks at submission, charge, loss ledger |
| `Relayer_proofs`, `Queues_proofs` | the theorems (the webhook outbox included) |
| `MCRelayer`, `MCRelaying`, `MCBatchQueue` | instances |

In `Relayer`, the checks of a request before its claim are one step; everything
after the claim is separate. Quotes and fee versions only reject earlier and are
`FeeQuotes`'; the path that activates and spends at once is `Activation`'s.

### Identity

| Module | Models |
|---|---|
| `Sessions` | login, refresh rotation, reuse detection, revocation, per-method caps on devices |
| `Passkeys` | registration on a challenge with approval, authentication, presence, revocation |
| `Access` | the two together: what opens and ends access to an identity |
| `SignUp` | e-mail codes, Google logins, lookup, ticket, bootstrap lock, claim |
| `Sso` | codes, consent, redemption, app verification, secrets and origins |
| `Experience` | intake of app events, ledger, quotas, corrections, level policies and backfill |
| `CookieJar` | the cookies of one browser and the sessions behind them, as the API sets and the SDK's client asks for them: requests of several tabs in flight, answers that arrive late or never |
| `Approvals` | the SDK's popup for an app, the wallet page that serves it, the account it lends meanwhile, the wallet's cache of what it read per account |
| `LoginWindow` | the wallet's login page, for a client's popup and for single sign-on: session check, PID claim, consent, account choice, delivery of the code |
| `Identity_proofs` | the theorems |

### Administration

| Module | Models |
|---|---|
| `Settings` | kill-switches: rows, versions and history, the cache of every API process, an intake's reads in flight, the dashboard's page with its forms, conflicts, retries and paged history |
| `Handles` | both claims, the contract claim (`POST /v1/pids/claim`) with receipt and freeze and the sign-up's (`POST /v1/auth/claim`) with neither, takedown reports, appeals, decisions that free a handle |

In `Settings` a PUT is a record of its own: it goes on after its form was closed,
its answer may be lost, and what it does on return depends on what the page shows
by then. In `Handles` a query whose failure the code swallows may slip; `since` of a
claim, a history variable, holds the reports that have been open ever since it began.

### The smart accounts

| Module | Models |
|---|---|
| `EvmAccount` | both EVM implementations and the factory: every entry point that changes state, callbacks and reverts |
| `EvmWire` | what is signed for the EVM accounts, the calldata the packages build, what factory and account decode |
| `SvmAccount` | the Solana program: vaults, sessions, two-phase close, rotation, treasury |
| `SvmSession` | `session_execute` around its cross-program call, upgrade records, token extension walk |
| `SvmWire` | what is signed for the program, the instructions the packages build, how the program reads them |
| `StellarAccount` | factory, account with rule snapshots, asset policy |
| `Accounts_proofs` | the theorems |
| `MCAccounts` | instances |

In `EvmAccount` a step is a call that the contract accepts; a rejected call
changes nothing. Guarded functions open a frame that remembers the storage it
started from: `CallOut` hands control to the callee, during which every other
entry point may run, `Return` ends the frame, `Revert` restores the storage.
`evm.log`, the sequence of effects, is there for the properties. Signature
checks are exact: they accept what the right key signed over the payload the
contract recomputes, and anybody may submit a signature at any time. Hashes are
represented by what was hashed (so a hash that is pinned or a salt that is given
without saying what was hashed for it is any sequence of bytes); lengths and separators are kept, so that two
preimages that run together would be found (`SignedMeansOne`).

## 3. Runs

Passing runs. Parts that share no state are checked side by side: `part` is
chosen in the initial state and says whose behaviour it is, so the state space
is a sum, not a product.

| Run | Shows | Bounds |
|---|---|---|
| Transfers | With two concurrent requests, a fault, freeze or app switch at any point: `NoOverdraft`, an intent settles once, a deposit is credited only if DOKU confirms it, guard, wallet and audit agree (`ReplayAgrees`), money is conserved, and the rail implements `AtomicLedger` | 2 identities, 2 intents of 60 % of the balance, 1 correction, 1 deposit, 1 upset |
| Payments | Create, notification, poll, cancel and two refunds race each other, a correction, DOKU and the clock; concurrent faucet calls around midnight stay within budget and cap; the chain never forks. Beside them: the outbox delivers only what was received; sessions and passkeys grant only what was allowed; a popup's request is approved once, by the account it was shown for | 1 payment of 90000, refunds of 50000 or the rest, 3 mints of which two fit, 1 upset; 2 requests of a page, 2 accounts; 1 event, 2 dispatchers; 2 devices, 3 sessions; 2 passkeys, 2 challenges |
| Liveness | By the poller alone, a payment is credited in the end unless its row was closed as failed or expired, or grew a day old, first; every request ends, deadlocks included | 1 payment, 1 correction, 1 upset |
| Relay | One signed intent per slot is ever broadcast; nothing unproven is recorded as landed; no passkey is revoked unless a rotation it signed hands the account to a key that got it; the breaker opens at its cap; an account called active is deployed. Beside them: cookies act for nobody the browser did not sign in, and a login window does only what was allowed in it | 2 requests over two rotations that differ in expiry only, a rotation and one for the same nonce signed by a passkey that is not the authority, a rotation and a withdrawal, or a withdrawal and an execute of one nonce; 2 transactions, 1 fault, 1 tick; activation: 3 grants under 2 passkeys, 2 sends, 1 slip |
| Batch | Nobody pays more than quoted, receipts are true, every accepted batch ends | an atomic batch of two operations, a session batch that bypasses the queue, 2 requests, 1 mishap, 4 ticks |
| Accounts | An authorisation acts once, ended sessions stay ended, funds stay reserved, capped fees are bounded, administrators remain, closures are orderly, what is signed means one thing, sessions stay confined | EVM: 2 keys, 1 permission, 2 calls per batch, 3 effects, generations up to 1. SVM: 1 vault, 1 session, generations up to 2, nonces up to 4. Wire: every operation ever signed, two of them, two chains or clusters. Stellar: scopes whose parts could run together and are within or beyond the limits, a pinned hash of something else, salts given by hand |
| Services | Points, payouts and fees are backed, claw-backs never fork, one person has one identity, SSO codes are spent once, experience adds up and stays within quotas; saved settings form a chain that nobody overwrites blindly, a switch takes effect everywhere within the cache's lifetime; receipts hold, and contract claims respect the freeze of a handle, beside sign-ups' claims, which do not | each part: 1 deposit, transfer or redemption with 2 workers on two instances and 1 or 2 losses of an answer (a deposit has either an outage or an operator's own claw-back; of a mirror's two references the first used is called DOKU's number); unlisted settings rows only beside a failing save; 3 logins of 2 persons with two tickets or two codes, 3 handles; 1 code, 2 redeeming shops; 2 users, 2 apps; 2 API processes, 3 prices; 2 admins with 2 or 3 saves, or an intake with 2 reads in flight; 2 claims, 2 rulings or 1 slip |

The bounds are chosen so that the interesting cases meet: two payers' requests
that can each be afforded but not both, three mints of which two fit, two
refunds of which one fits, two requests for one slot, a generation counter that
saturates, a fee limit that one more execution would exceed, a quote that
outlives its policy. Two requests are enough for the races of the ledger,
because the locks are pairwise; that the invariants hold for any number is what
the proofs show. Requests, intents and ids are interchangeable and declared
symmetric, except in the runs with liveness.

The rail stutters when no request is in progress and TLC's deadlock check is
on: a request that could neither go on nor be aborted would be reported. The
relayer, the queue, the services and the accounts may idle, and their runs say so.

Runs that show a disagreement of code and documentation (`findings` has the
quotations):

| Run | Property | What happens |
|---|---|---|
| Deadlock | `DeadlockFree` | `lockAccounts` is called "deadlock-free". The sorted row locks are, among themselves; but a deposit's issue holds `CHAIN_LOCK` and waits with its foreign key for an identity row that a confirm holds while it waits for `CHAIN_LOCK`. PostgreSQL aborts one of them |
| RotateBricked | `RotationGoesThrough` | Stale slots are said to be released "instead of bricking rotation forever". Once a claimed rotation has expired, one that is signed again for the same chain nonce has another hash and gets 409 before the release is reached |
| SessionFees | `LifetimeFeesBounded` | A grant's fee limit is said to cap lifetime fees; the retained v1 session entry point neither checks nor counts them |
| Redemption | `ExpiredUnburned` | The recovery sweep expires a redemption as never burned while the answer of its burn is on its way: the points are gone and no payout follows |
| FirstCall | `FirstCallLands` | A new account's first call: the activation builder gets its arguments in the wrong order and throws, and the execute builder repeats the vault among the accounts, which the program refuses |

One constant is no bound: `Swapped` of `Activation`. TRUE is the code at this
commit, whose adapter passes two arguments of the activation builder in the
wrong order, so that an activation on its own is never sent (FirstCall shows
it). Relay takes FALSE, the order the builder expects, so that everything after
the build is checked as well; with TRUE fewer steps are possible.

### Fairness

`PollingSpec` is strongly fair for the steps of each request: Node schedules
it, PostgreSQL queues lock waiters in order of arrival, so a lock that becomes
free again and again is obtained, and its deadlock detector (`DeadlockVictim`)
breaks cycles. It is fair for the poller because that is an interval timer
(3 s) over every row it selects. Nothing is assumed of
notifications: `FiatController.webhook` catches every failure of
`payments.notify` and answers 200 (fiat.controller.ts:131), so DOKU has no reason
to repeat one. The poller selects created, pending and cancelled rows younger than
a day (fiat-payments.service.ts:146), and `PaidIsCredited` excuses the others
rather than assume that something else finds them. Nothing is assumed of customers, of admins or of faults. `BatchFairSpec` assumes that
requests proceed, that the flush timer comes round and that time passes.
`RelayFairSpec` assumes that a client goes on retrying a refused intent,
requests proceed, broadcast transactions land or fail, operators close the
breaker and time passes; RotateBricked fails even so.

### What the properties leave open

- `ReplayAgrees` is about the sums over the whole journal; the code's replays stop
  after 5000 rows (fiat-ledger.service.ts:820-829, 884).
- `AccessAsAllowed` says nothing of a family while a rotation of it is in flight, nor
  of two revocations that cross; `CookiesSound` excuses requests that were under way
  at a log-out, `OnlyAsAllowed` an account that another tab has switched. Section 6
  has what the code does there.
- `ActiveIsOnChain` forbids a false `active`, not a row that stays `activating`.
- `SessionsEnd` is run with one rotation; the ceiling of the generation (a `uint8`) is
  reached by the proof `SessionsNeverOutlive`, not by the run.
- `XpAccounted` is run with a cap of the owner; the app's cap has the same steps and is
  in the proof. Levels computed by a backfill from totals that moved are not covered.
- `PayoutsBacked` asks for a burn behind every payout, not that every burn is paid out:
  that is what the Redemption run refutes.

## 4. Proofs

Each theorem holds for every value of the constants that satisfies the module's
`ASSUME`s and without the runs' bounds on time, faults or wealth. What those
assumptions say: pids and amounts are natural numbers and lock ids distinct
(`JournalAssumption`, `TransferAssumption`, `PaymentAssumption`); idempotency
keys begin with the kind of their subject, so no subject has another's
(`SubjectsApart`); there are finitely many identities (`PidsAssumption`); and
the like for times, caps and prices in the other modules. The runs evaluate
them.

| Module | Theorems | State or step property |
|---|---|---|
| `FiatLedger_proofs` | `TypeCorrect`, `NeverOverdrawn`, `ChainNeverForks`, `IssuesArePaid`, `FaucetStaysCapped`, `PaymentsAreCredited` | `TypeOK`, `NoOverdraft`, `ChainIntact`, `IssueOnlyIfPaid`, `FaucetCapped` (in `LimitsKept`), `PaidIffCredited` |
| | `IntentsSettle`, `ClosedPaymentsStayClosed` | `IntentsSettleOnce`, `ClosedStaysClosed` (steps) |
| `FiatReplay_proofs` | `BalancesMatchReplay`, `AuditStaysClean`, `ReplayAlwaysAgrees`, `MoneyIsConserved`, `RefundsStayBounded`, `LimitsAlwaysKept` | `GuardMatchesReplay`, `ReplayClean` (both in `ReplayAgrees`), `Conservation`, `RefundsBounded` and `FaucetCapped` (both in `LimitsKept`) |
| | `RailImplementsLedger` | `RailIsAtomic`: refinement of `AtomicLedger` |
| `Relayer_proofs` | `NeverDifferentBytes`, `SuccessIsOnChain`, `BreakerAlwaysTrips`, `RevokedOnceReplaced` | `OneIntentPerSlot`, `LandedSlotsConsumed`, `BreakerTrips`, `RevokedAfterRotation` |
| | `ActiveStaysOnChain` | `ActiveIsOnChain` |
| `Queues_proofs` | `NeverAboveQuote`, `ReceiptsAreTruthful` | `PaysNoMoreThanQuoted`, `ReceiptsTruthful` |
| | `NeverDeliveredUnread`, `AttemptsLimited` | `DeliveredWasReceived` |
| `Accounts_proofs` | `NeverSpentTwice`, `SessionsNeverOutlive`, `FramesCanPay`, `SessionsStayInBudget` | `SpentOnce`, `SessionsEnd`, `FundsReserved`, `CappedFeesBounded` (EVM) |
| | `ClosesOrderly`, `SessionsEndWithAuthority`, `TreasuryNeverOrphaned` | `CloseOrderly`, `SessionsDieOnRotation` (step) (Solana) |
| | `AccountsTyped`, `AlwaysManaged`, `SessionsStayConfined` | `AccountsTypeOK`, `AdminsManaged`, `SessionsConfined` (all chains) |
| `Identity_proofs` | `FamiliesEnd`, `PasskeysVouched`, `AccessIsAllowed`, `OnePersonOneIdentity`, `CodesAreSpentOnce` | `AccessAsAllowed`, `OneIdentityEach`, `CodesSpentOnce` |
| `Services_proofs` | `PointsAlwaysBacked`, `MirrorsAlwaysBacked`, `PayoutsAlwaysBacked`, `FeesAlwaysApproved`, `MoneyAlwaysBacked`, `ReversalsForkNothing` | `MoneyBacked`, `OneCandidate` |
| | `ExperienceAddsUp` | `XpAccounted` |
| | `SettingsAlwaysKept`, `HandlesAlwaysKept`, `OfficeAlwaysKept` | `SettingsKept`, `HandlesKept` (both in `OfficeKept`) |

**The rail.** `IndInv` carries `NoOverdraft` and `ChainIntact`. Neither is
inductive: that a posting leaves the payer's balance at zero or more follows
from a check made several steps earlier, so `IndInv` adds

- `FundsHeld`: past its check, a request's payer can still pay;
- `PayerLocked`: a request with a payer holds that payer's row from
  `lockAccounts` to its commit. Two requests past the check thus have
  different payers, and only a posting from `p` lowers `bal[p]`;
- `LocksToTake`, `Subject`: which locks and which posting a request in a given
  step has, so that the previous two can be carried through;
- `IntentsQuoted`, `ConfirmsIntent`: a confirm's posting is the one its row
  quotes, with two identities and its own group;
- `HeadHeld`, `IsHead`, `ChainEnds`: who is about to append holds `CHAIN_LOCK`
  and has read the end of the chain, which therefore is still the end.

`Core` is the part that the shared steps preserve by themselves: one lemma per
kind of step (`BeginKeepsCore`, `LockAccountKeepsCore`, `PostKeepsCore`, ...),
applied action by action in `JournalStepOK`, `TransferStepOK`, `PaymentStepOK`.

`Settling` is the second layer, about statuses: rows of intents, deposits and
payments agree with what is posted (`RowsAgree`), and what a request found out
stays true until it is through (`Knows`: the intent it confirms is open, the
deposit is paid, today's mints leave room, the refund fits), because it holds
the row that would have to change.

`Accounted` is the third, about sums: every row is well formed and its group
balances, each `bal[p]` is the sum over `p`'s rows, the totals are conserved and
refunds add up to the payment's counter. A sum over a finite set is a fold, and
what a fold computes calls for induction, which these provers cannot
instantiate. The proofs go through instead with two facts about
`MapThenSumSet`, each shown by taking a minimal counterexample under strict
inclusion (which `WellFoundedInduction` provides): a sum does not depend on the
order in which elements are taken, hence adding an element adds its value.

`RailImplementsLedger` maps the journal to `AtomicLedger`: `balance` is `bal`,
`booked` the set of posted groups. A commit is one booking (whole, funded,
never made before), every other step a stutter.

**Point rail, fees, batches, activation, identity.** Each has an invariant that
says what a request in flight knows from the provider, the row or the chain that
nobody can take back (`DeskKnows`, `ClerkKnows`, the runners' `todo`, the
`redeem` record), so that a write which carries no condition still writes the
truth.

**The relayer.** `RelayInv` says who sends has the slot: a transaction's intent
is its slot's hash for good. `rotate` compares the credential that signs
with the row it is about to revoke (rotate.service.ts:116), never with the
authority on chain, so `RevokedOnceReplaced` says what is left whoever signs: a
passkey is revoked only if a rotation it signed hands the account to a key that
has had it (`HandedOver`), and the first one only once its own rotation landed. The
invariant adds `ControlPasses`: control passes from key to key by rotations that
landed. That every revoked passkey had the account before is false, see section 6.

**Activation.** `ActInv` says that a slot's transaction carries the slot's own
hash, that an activation is for the vault of its own key, that a nonce once read
is a lower bound for ever, and that what a row, a poll or a request has read as
live was live on chain and never stops being so. A stale read is then harmless.

**The EVM account.** The invariant speaks of two storages, the current one and
the one a revert would restore, and says of both that the log's nonces, sequence
numbers, generations and fees are behind them. With the reentrancy lock, at most
one guarded frame is open, and its funds are still there.

**The Solana program.** A vault has a ticket exactly while it closes; its
generation is the saturated count of the rotations since it was made, and a
session remembers the count at which it was made, so that below the ceiling
equal generations mean that no rotation lies between. The treasury's slots hold
distinct administrators, which `SwapRemove` keeps. While a game runs (`CallOK`),
the vault is not among what it may write, and the snapshot that is compared
afterwards is the state from before. The walk over token extensions is a
recursive function over byte positions; that it exists and cuts the area into
whole entries is shown by a minimal counterexample under `<`. One conjunct of
`ExtensionsHarmless` was found false that way: a protected account which a game
gave away to another program is no token account any more and is not walked; the
property now says so.

**The Stellar account.** `FlattenSeq` of the signers' lists is typed by running
prefixes; the rest is that a
row of the registry is empty or holds what was pinned.

**Experience.** A submission holds its user's row, its app's quota and the
owner's, and what it found under them (the task is open, there is room below the
cap) stays true until it commits, because whoever would change it needs the same
row. A row that does not exist cannot be locked: for quotas the invariant adds
that a cap in force has a row (`CapsKept`), for users that entries and
completions imply a state row, whose creation by another submission collides.
Sums over the ledger use the lemmas of `Sums_proofs`.

**Settings and handles.** `SettingsInv` adds that every row, form, conflict and
open save of any page shows a value together with the version it had in the
history (`ScreensGenuine`, `SavesKnow`): the version guard of `commitSetting` then
means that the value the form showed is still the row's. `CacheFresh` and
`GateFresh` bound the age of what a process keeps and of what an intake has read,
from the time of the read to that of the answer. `SeenReaches` says how far a
history's pages have come: an offset counts from the newest entry, so a save
between two pages repeats entries but leaves none out. That an admin sees every
entry once was tried first and is not inductive; it is false. `HandlesInv` says
of every receipt that a claim took its handle (`ReceiptsWon`), and of every claim
that the reports in its `since` are still open (`StillOpen`) and that a contract
claim past the freeze, with a read that worked, has none (`PastFreeze`): what the
freeze saw closed may be reported again, but not have been open all along.

Only model-checked:

- `PaidIsCredited`, `RequestsEnd`, `BatchesTerminate`: liveness under fairness;
- `SignedMeansOne`: an exhaustive comparison of the byte layouts of every
  operation the packages and the contracts know;
- `CookiesSound`, `ApprovalsHonoured`, `OnlyAsAllowed`: the browser's models are
  compared with what was allowed by records of every click, which the runs
  enumerate for two accounts and two tabs, pages or windows;
- the properties of the violation runs, which are false.

## 5. Not modelled

- Pure input and output, plain HTTP clients, the dashboard and the wallet's other
  pages, deployment.
- Cryptography: P-256, WebAuthn, Base64Url, SHA-256 and HMAC are taken as exact.
- EVM V3 entry points, which only revert, and ERC-1271, which only reads.
- Virtual account deposits, the liquidity and the backing report of the point
  rail's pool, admin debits.
- The one-time backfill of ledger rows older than the hash chain.
- Intents and permission records, admin screens other than settings, the chain
  registry, requests for experience backfills, drafts and rollback of fee
  policies: rows behind CRUD handlers; what other parts read of them (policies,
  switches, frozen flags) is environment of their models.

## 6. Observations

Met while reading and modelling; none of them has a run of its own. The first
four contradict what the repository says of itself.

- *Rail.* FIAT_PAYMENTS.md:44-46 has confirmed late payments accounted for. A payment
  made after its row expired or failed is found by its notification only, since the
  poller does not select such rows (fiat-payments.service.ts:146), and a notification
  whose handling failed once is not repeated: the API answers 200 all the same
  (fiat.controller.ts:131). That payment is never credited.
- *Handles.* A handle under review is documented as frozen until a final decision
  (pids.service.ts:22, 88-89). The freeze is in `claimContract` only: `POST
  /v1/auth/claim` (auth.controller.ts:490) calls `ClaimService.claim` directly, and a
  free handle under review is taken. `FrozenStaysPut` therefore speaks of the contract
  claim; the model has both.
- *Point rail.* A transfer's mirror is meant to be one row. If DOKU's answers to the
  payment and to the status query disagree about having a reference number, they
  are filed under different keys (fiat-subaccount.service.ts:848, 964), and a
  backfill that looked before the confirmation wrote its row, or whose look failed,
  adds a second one for the same transfer.
- *Rotation.* `rotate` wants the assertion "from the current authority credential"
  (rotate.service.ts:119) but compares it with the request's own `oldCredentialId`
  (116). A rotation to the key that has the account already, signed by another
  passkey, is refused by the chain only: a repeat of it finds the slot claimed, sees
  its key in control and revokes its signer (332). Relay's part `misSigned` does it;
  `RevokedAfterRotation` says what holds nevertheless.
- *Relayer.* A rotation's guard also finds the row that the request itself has
  just claimed, so a first attempt answers 503 (rotate.service.ts:209-212). A
  rotation back can land between the confirmation and the revocation (308). A
  rotation that lands after its poll timed out is refused on retry for its nonce
  (147). The breaker's state is lost at a restart (circuit-breaker.service.ts:144).
  A recorded signature makes a retry answer `confirmed` whatever became of the
  transaction (sponsored-withdraw.service.ts:1074).
- *Activation.* An oversized first action on a prefunded address cannot read a
  nonce and is parked, its fallback out of reach (sponsored-withdraw.service.ts:788).
  The EVM poll may leave an active row whose address has no code.
- *Batches.* A cancellation overwrites a flush that is under way, so an expired
  batch may have executed (batch-queue.service.ts:660).
- *Point rail.* Statuses are overwritten without conditions: a lost answer of a
  payment leads to 409 and a row `failed` although DOKU moved the points; a sweep
  may overwrite `clawed_back` with `issued`; the halt of redemptions and
  `pidLocks` live in one process's memory.
- *Identity.* A refresh that is under way while its family is revoked creates a
  live successor (auth.service.ts:316). Two crossing revocations can take the
  last passkey. An OTP's attempts are counted by read and write
  (email-otp.service.ts:130).
- *Browser.* A popup that fails posts its result without restoring the account it
  switched (usePopupRequest.ts:263); restoring after an approval overwrites an
  account chosen meanwhile (203), and the login window's switch is never restored
  (useConsentActions.ts:107). The opener closes the popup with whatever result
  comes first, although a checkout asks to keep it open; two requests of one page
  share a popup, so one RESULT settles both (popup.ts:139). An approval may execute
  after the opener's 120 s timeout. `claimPid` ignores a failed delivery: only
  "cancel" remains, and the app is told `pid_creation_cancelled` though the PID
  exists (usePidClaim.ts:112). Reads in flight are cached after `clearCache`
  (cache.ts:190). With a `redirect_uri`, "Use a different account" never shows the
  picker: Login.tsx:135 returns the consent card before the picker at 160, whose
  comment says "same modal for client login and SSO". E-mail and Google logins of
  unverified apps get a session, but no code.
- *Experience.* A backfill page writes levels computed from totals it read before
  (policy-backfill.service.ts:120); quota sums are serialised only if the quota
  row exists (events.service.ts:320).
- *EVM.* Four 7579 builders of the single account encode a tuple where the
  account takes `bytes` (adapter.ts:706, 713, 879, 886; nothing calls them). The
  batch account checks V4 domains where the packages sign V3 for `updateAuthority`
  and ERC-1271 (evm.ts:580, adapter.ts:389) and has no session generation.
- *SVM.* `update_authority_v5` does not move the session generation on; the
  generation saturates at 255; a withdrawal of the exact balance purges the vault
  without a tombstone; `execute_v5` has no fee cap.
- *Stellar.* A registered snapshot's id can be overwritten, and by any 32 bytes:
  `register_snapshot_entry` does not see the scope. `scope_canonical` does not refuse a
  tag with a NUL in it, which ends the tag early; the model's tags have none. A salt
  given by hand may be the one derived for a PID. The factory normalises ASCII only.
- *Settings.* An app's switch `xp.suspend.<appId>` is listed and can be edited,
  but its PUT answers 404, because the catalog is closed: only a migration can set
  it. A form that was cancelled while it saved closes whichever form is open when
  the answer comes. After a lost answer the retry conflicts with one's own write;
  "Keep editing my draft" saves again with the old version and conflicts again.
  An error after the COMMIT leaves that process's cache as it was, for 30 s; the
  banner answers from one process while another may still let events in. Paging
  the history by offset repeats entries when saves arrive between two pages.
- *Handles.* The reads of a claim's receipt and of its freeze fail open. The check
  precedes the claim, so a report filed between them freezes nothing. The loser of
  a race for one key gets 409 although its claim stands. A receipt written after
  the decision that freed the handle goes on answering 201. Two appeals at once
  both pass the check for a single appeal (pids.service.ts:254); an appeal, or a
  "keep", written over a closed report reopens it, and "keep" leaves the handle
  under review for good. A second decision under way frees the handle from its new
  holder.
