---------------------------- MODULE FiatJournal ----------------------------
(***************************************************************************)
(* The fiat journal every money path of the API writes to                  *)
(* (apps/api/src/fiat/fiat-ledger.service.ts) and the PostgreSQL locks     *)
(* that serialise its writers:                                             *)
(*                                                                         *)
(*   - lockAccounts: SELECT ... FOR UPDATE on the rows of `identities`,    *)
(*     one row after the other in PID order;                               *)
(*   - the advisory lock of a direct payment (fiat-payments.service.ts);   *)
(*   - CHAIN_LOCK, the advisory lock of the hash chain (appendChained);    *)
(*   - the foreign key fiat_ledger_entries.pid -> identities.pid: an       *)
(*     insert takes FOR KEY SHARE on the identity row and so waits for a   *)
(*     FOR UPDATE of another transaction.                                  *)
(*                                                                         *)
(* A request is a process r with its local variables in tx[r]; the modules *)
(* FiatTransfers and FiatPayments say which requests there are.  Here are  *)
(* the state and the steps they share.                                     *)
(***************************************************************************)
EXTENDS Integers, Sequences, FiniteSets

CONSTANTS
    Pids,       \* identities; numbers, so that PID order is <
    Reqs,       \* concurrent requests (HTTP handlers, webhooks, pollers)
    NoReq,      \* "nobody" in the lock table
    NoRef,      \* "no subject" in an idle request
    ChainLock,  \* the advisory lock id of the hash chain
    Payments,   \* direct payments; each has an advisory lock of its own
    Apps,       \* registered apps (pid_apps rows) with a webhook URL
    AppOwner,   \* AppOwner[a] = ownerPid of app a
    MaxUpsets   \* bound on faults and admin switches in a behaviour

ASSUME JournalAssumption ==
    /\ Pids \subseteq Nat \ {0}
    /\ NoReq \notin Reqs
    /\ AppOwner \in [Apps -> Pids]
    /\ MaxUpsets \in Nat
    /\ ChainLock \notin Pids \cup Payments
    /\ Payments \cap Pids = {}

VARIABLES
    journal,  \* the posted rows of fiat_ledger_entries, a set
    bal,      \* running sum of the posted rows of each pid, see PostedBalance
    outbox,   \* idempotency keys of the rows of fiat_ledger_events
    lock,     \* lock table: who holds each identity row and advisory lock
    tx,       \* local state of each request
    active,   \* apps with isActive
    frozen,   \* ledgerFrozen()
    upsets    \* faults and admin switches so far, at most MaxUpsets

journalVars == <<journal, bal, outbox, lock, tx, active, frozen, upsets>>

NoPid   == 0
Genesis == <<NoRef, "GENESIS">>
Locks   == Pids \cup {ChainLock} \cup Payments

---------------------------------------------------------------------------
\* A posting: the legs one transaction appends.  from = NoPid: no out leg
\* (credit enters the ledger); an amount of 0: that leg is left out.

PostingKinds == {"transfer", "adjust", "issue", "payment"}

NoPosting == [group |-> NoRef, kind |-> "issue", from |-> NoPid, gross |-> 0,
              to |-> NoPid, net |-> 0, fee |-> 0, tax |-> 0,
              owner |-> NoPid, appFee |-> 0]

\* A debit of one account and an equal credit of another.
Move(group, kind, from, to, amount) ==
    [NoPosting EXCEPT !.group = group, !.kind = kind, !.from = from,
                      !.gross = amount, !.to = to, !.net = amount]

OutKind(po) == IF po.kind = "transfer" THEN "fiat_transfer_out" ELSE "fiat_adjust"
InKind(po)  == CASE po.kind = "transfer" -> "fiat_transfer_in"
                 [] po.kind = "adjust"   -> "fiat_adjust"
                 [] po.kind = "issue"    -> "fiat_issue"
                 [] po.kind = "payment"  -> "fiat_payment_in"

\* fee and tax rows carry the pid of the payer (of the beneficiary if none)
FeePid(po) == IF po.from = NoPid THEN po.to ELSE po.from

Leg(po, name, kind, pid, amount, dir) ==
    [key |-> <<po.group, name>>, kind |-> kind, pid |-> pid, amount |-> amount, dir |-> dir]
When(cond, leg) == IF cond THEN <<leg>> ELSE <<>>

Legs(po) ==
       When(po.from # NoPid, Leg(po, "OUT", OutKind(po), po.from, po.gross, "out"))
    \o <<Leg(po, "IN", InKind(po), po.to, po.net, "in")>>
    \o When(po.fee > 0, Leg(po, "FEE", "fiat_fee", FeePid(po), po.fee, "out"))
    \o When(po.tax > 0, Leg(po, "TAX", "fiat_tax", FeePid(po), po.tax, "out"))
    \o When(po.appFee > 0, Leg(po, "APPFEE", "fiat_app_fee", po.owner, po.appFee, "in"))

\* Mutants of Delta: the payer is charged fee and tax on top of the gross; the
\* app's owner is not credited.
DeltaFeesOnTop(po, p) ==
      (IF p = po.to    THEN po.net    ELSE 0)
    + (IF p = po.owner THEN po.appFee ELSE 0)
    - (IF p = po.from  THEN po.gross + po.fee + po.tax ELSE 0)
DeltaNoAppFee(po, p) ==
    (IF p = po.to THEN po.net ELSE 0) - (IF p = po.from THEN po.gross ELSE 0)

\* What the legs of po add to the posted balance of p.  Fee and tax rows
\* credit the treasury and the tax bucket and do not debit their pid again:
\* the gross of the out leg already covers them.
Delta(po, p) ==
      (IF p = po.to    THEN po.net    ELSE 0)
    + (IF p = po.owner THEN po.appFee ELSE 0)
    - (IF p = po.from  THEN po.gross  ELSE 0)

Keys   == {row.key : row \in journal}
Posted(group) == \E row \in journal : row.key[1] = group

\* The chain head: the row with the greatest hashSeq.
chainHead ==
    IF journal = {}
    THEN [seq |-> 0, key |-> Genesis]
    ELSE LET last == CHOOSE row \in journal : \A o \in journal : o.seq <= row.seq
         IN  [seq |-> last.seq, key |-> last.key]

\* The rows legs become when chained after head.  A row's hash covers its
\* idempotency key, which is unique: prev holds that key instead of the hash.
Chained(legs, head) ==
    {[key |-> legs[k].key, kind |-> legs[k].kind, pid |-> legs[k].pid,
      amount |-> legs[k].amount, dir |-> legs[k].dir, seq |-> head.seq + k,
      prev |-> IF k = 1 THEN head.key ELSE legs[k - 1].key] : k \in 1..Len(legs)}

---------------------------------------------------------------------------
\* Requests

NoHead == [seq |-> 0, key |-> Genesis]
IdleTx == [op |-> "none", ref |-> NoRef, pc |-> "idle", need |-> {},
           po |-> NoPosting, head |-> NoHead, seen |-> "none"]

Idle(r)     == tx[r].pc = "idle"
At(r, pc)   == tx[r].pc = pc
Goto(r, pc) == tx' = [tx EXCEPT ![r].pc = pc]

requireUsable == ~frozen

\* A request starts: its locals, and the first step to take.
Begin(r, op, ref, po, need, pc) ==
    /\ Idle(r)
    /\ tx' = [tx EXCEPT ![r] = [IdleTx EXCEPT !.op = op, !.ref = ref, !.po = po,
                                              !.need = need, !.pc = pc]]
    /\ UNCHANGED <<journal, bal, outbox, lock, active, frozen, upsets>>

\* The request ends (commit, rollback or plain return): its locks go.
Release(r) == lock' = [x \in Locks |-> IF lock[x] = r THEN NoReq ELSE lock[x]]
End(r)     == tx' = [tx EXCEPT ![r] = IdleTx] /\ Release(r)

\* The transaction throws, or the handler returns early: nothing is written.
Abort(r) == End(r) /\ UNCHANGED <<journal, bal, outbox, active, frozen, upsets>>

FreeFor(x, r) == lock[x] \in {NoReq, r}

\* lockAccounts sorts the pids: the next row locked is the least one left.
NextToLock(need) == CHOOSE p \in need : \A q \in need : p <= q

\* Mutant of LockAccount: a SELECT without FOR UPDATE.
LockAccountNoUpdate(r) ==
    /\ At(r, "lock")
    /\ tx' = [tx EXCEPT ![r].need = {}, ![r].pc = "check"]
    /\ UNCHANGED <<journal, bal, outbox, lock, active, frozen, upsets>>

\* One row of lockAccounts' SELECT ... ORDER BY pid FOR UPDATE.
LockAccount(r) ==
    /\ At(r, "lock")
    /\ LET p == NextToLock(tx[r].need)
       IN  /\ lock[p] = NoReq
           /\ lock' = [lock EXCEPT ![p] = r]
           /\ tx' = [tx EXCEPT ![r].need = @ \ {p},
                               ![r].pc = IF tx[r].need = {p} THEN "check" ELSE "lock"]
    /\ UNCHANGED <<journal, bal, outbox, active, frozen, upsets>>

\* postedBalanceTx: the code sums the pid's posted rows.  The model keeps
\* that sum in bal; SumPosted below is the sum itself.
PostedBalance(p) == bal[p]
HasFunds(p, amount) == PostedBalance(p) >= amount

\* Mutant of ChainFree: no advisory lock around the chain.
ChainAlwaysFree(r) == TRUE

\* appendChained, first half: take CHAIN_LOCK, read the head.
ChainFree(r) == FreeFor(ChainLock, r)
LockChain(r) ==
    /\ At(r, "chain")
    /\ ChainFree(r)
    /\ lock' = [lock EXCEPT ![ChainLock] = r]
    /\ tx' = [tx EXCEPT ![r].pc = "append", ![r].head = chainHead]
    /\ UNCHANGED <<journal, bal, outbox, active, frozen, upsets>>

\* The identity rows the inserts of po key-share lock.  The payer's is left
\* out: where there is one, the transaction itself holds it FOR UPDATE.
ForeignKeys(po) == {po.to} \cup (IF po.appFee > 0 THEN {po.owner} ELSE {})
FkFree(r) == \A p \in ForeignKeys(tx[r].po) : FreeFor(p, r)

\* Mutant of DuplicateKey: no unique index on the idempotency key.
NoUniqueIndex(r) == FALSE

\* A leg's idempotency key is taken: the unique index refuses the insert,
\* before the foreign key is looked at.
DuplicateKey(r) == \E k \in 1..Len(Legs(tx[r].po)) : Legs(tx[r].po)[k].key \in Keys

UniqueViolation(r) ==
    /\ At(r, "append")
    /\ DuplicateKey(r)
    /\ Abort(r)

\* appendChained, second half, and the commit: the legs, the outbox rows
\* written in the same transaction, and the release of every lock.
PostLegs(r, events) ==
    /\ At(r, "append") /\ FkFree(r)
    /\ ~DuplicateKey(r)
    /\ journal' = journal \cup Chained(Legs(tx[r].po), tx[r].head)
    /\ bal' = [p \in Pids |-> bal[p] + Delta(tx[r].po, p)]
    /\ outbox' = outbox \cup events
    /\ End(r)
    /\ UNCHANGED <<active, frozen, upsets>>

---------------------------------------------------------------------------
\* Waiting, deadlock, faults

Wants(r) == CASE At(r, "pay")    -> {tx[r].ref}
              [] At(r, "lock")   -> {NextToLock(tx[r].need)}
              [] At(r, "chain")  -> {ChainLock}
              [] At(r, "append") /\ ~DuplicateKey(r) -> ForeignKeys(tx[r].po)
              [] OTHER           -> {}

WaitsFor(r, s) == r # s /\ \E x \in Wants(r) : lock[x] = s

\* A set of requests each of which waits for one of the set.
WaitCycle(S) == S # {} /\ \A r \in S : \E s \in S : WaitsFor(r, s)

\* PostgreSQL's deadlock detector aborts one transaction of a cycle.
DeadlockVictim(r) ==
    /\ \E S \in SUBSET Reqs : r \in S /\ WaitCycle(S)
    /\ Abort(r)

Upset == upsets < MaxUpsets /\ upsets' = upsets + 1

\* The process dies, the connection drops, DOKU cannot be reached, or
\* Prisma's transaction timeout fires: the request ends where it is and
\* PostgreSQL rolls its open transaction back.
Fault(r) ==
    /\ ~Idle(r)
    /\ Upset
    /\ End(r)
    /\ UNCHANGED <<journal, bal, outbox, active, frozen>>

\* The app's owner or an admin switches an app off or on.
SetAppActive(a) ==
    /\ Upset
    /\ active' = IF a \in active THEN active \ {a} ELSE active \cup {a}
    /\ UNCHANGED <<journal, bal, outbox, lock, tx, frozen>>

setFrozenOverride ==
    /\ Upset
    /\ frozen' = ~frozen
    /\ UNCHANGED <<journal, bal, outbox, lock, tx, active>>

JournalInit ==
    /\ journal = {}
    /\ bal = [p \in Pids |-> 0]
    /\ outbox = {}
    /\ lock = [x \in Locks |-> NoReq]
    /\ tx = [r \in Reqs |-> IdleTx]
    /\ active = Apps
    /\ frozen = FALSE
    /\ upsets = 0

\* The steps all requests share.
JournalStep ==
    \/ \E r \in Reqs : \/ LockAccount(r)
                       \/ LockChain(r)
                       \/ UniqueViolation(r)
                       \/ DeadlockVictim(r)
                       \/ Fault(r)
    \/ \E a \in Apps : SetAppActive(a)
    \/ setFrozenOverride
=============================================================================
