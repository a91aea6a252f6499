----------------------------- MODULE EvmAccount -----------------------------
(***************************************************************************)
(* One EVM smart account and its factory: PeridotAccount (single calls,    *)
(* session epochs, the frozen v1 session paths) or PeridotAccountBatch     *)
(* (batches, V4 only), whichever implementation was deployed.              *)
(*                                                                         *)
(* Anyone may submit a signed authorisation, any number of times and in    *)
(* any order, so a step is a call that the contract accepts; a call it     *)
(* rejects reverts and changes nothing.  The signature check is exact: it  *)
(* accepts what the right key signed over the payload that the contract    *)
(* recomputes from its own nonce.  External calls hand control to others,  *)
(* who may call back before they return, and may fail, which undoes        *)
(* everything since the frame was opened.                                  *)
(***************************************************************************)
EXTENDS Integers, Sequences, FiniteSets

CONSTANTS
    Keys,           \* P-256 keys, passkeys and session keys alike
    Founder,        \* the key hashed into the account's address
    NoKey,
    Calls,          \* what dapps offer: a target with a selector
    PermIds,        \* permission ids
    PermScope,      \* what an id hashes: session key, call and expiry
    NoPerm,
    Modules,        \* contracts that can be installed
    Admins,         \* possible administrators of the factory
    FeeLimits,      \* lifetime fees an owner may allow a session
    NetworkFees,    \* fees a relayer may attest
    MaxFees,        \* fee caps a user may sign
    Values,         \* wei a call may carry
    TopUps,         \* wei that may be sent to the account
    MaxTtl,         \* MAX_TTL, 600 s
    MaxPermTtl,     \* MAX_PERMISSION_TTL, 30 days
    MaxGen,         \* 255, the largest session generation
    MaxBatchOps,    \* MAX_BATCH_OPS, 10
    Horizon,        \* bound: time
    MaxLog,         \* bound: effects
    Wealth          \* bound: wei in the account

ASSUME EvmConstants ==
    /\ Founder \in Keys /\ NoKey \notin Keys /\ NoPerm \notin PermIds
    /\ PermScope \in [PermIds -> [key: Keys, call: Calls \cup {"self", "factory", "denied"}, until: Nat]]
    /\ FeeLimits \subseteq Nat /\ NetworkFees \subseteq Nat
    /\ MaxFees \subseteq Nat /\ Values \subseteq Nat /\ TopUps \subseteq Nat
    /\ MaxTtl \in Nat /\ MaxPermTtl \in Nat /\ MaxGen \in Nat /\ MaxBatchOps \in Nat
    /\ Horizon \in Nat /\ MaxLog \in Nat /\ Wealth \in Nat /\ IsFiniteSet(Admins)

VARIABLES
    evm,        \* the storage of account and factory
    frames,     \* open frames of guarded functions, the innermost last
    clock       \* block.timestamp

evmVars == <<evm, frames, clock>>

NoGrant == [granted |-> FALSE, from |-> 0, limit |-> 0, spent |-> 0,
            seq |-> 0, revoked |-> FALSE, gen |-> 0]

\* An account that is funded but not yet deployed, and a factory with admins.
EvmInit ==
    /\ \E kind \in {"single", "batch"}, admins \in (SUBSET Admins) \ {{}} :
          evm = [kind |-> kind, initialized |-> FALSE, authority |-> NoKey,
                 nonce |-> 0, gen |-> 0, perms |-> [p \in PermIds |-> NoGrant],
                 modules |-> {}, locked |-> FALSE, balance |-> 0, revenue |-> 0,
                 paused |-> FALSE, admins |-> admins, count |-> Cardinality(admins),
                 log |-> <<>>]
    /\ frames = <<>>
    /\ clock = 0

---------------------------------------------------------------------------
\* Fees, deadlines, effects

\* Every accepted policy version is 5000 bps, and the fee is rounded down.
protocolFee(networkFee) == (networkFee * 5000) \div 10000
TotalFee(networkFee) == networkFee + protocolFee(networkFee)

Fresh(deadline) == clock <= deadline /\ deadline - clock <= MaxTtl

\* What an authorisation did: the owner's nonce or the session's sequence
\* number it consumed, the fee it cost and the version of its entry point.
Effect(op, perm, n, fee, version) ==
    [op |-> op, perm |-> perm, n |-> n, fee |-> fee, version |-> version]

\* Mutant of Spend: the nonce is left as it is.
SpendNothing(op, perm, st) ==
    [st EXCEPT !.log = Append(st.log, Effect(op, perm, evm.nonce, 0, 4))]

\* The storage after an owner's authorisation took effect: _verify recomputes
\* the payload with the current nonce, and every function then spends it.
Spend(op, perm, st) ==
    [st EXCEPT !.nonce = st.nonce + 1,
               !.log = Append(st.log, Effect(op, perm, evm.nonce, 0, 4))]

\* Bound: a few effects.
MayAct == evm.initialized /\ Len(evm.log) < MaxLog

\* Mutant of Unlocked: no lock.
NoLock == TRUE

\* nonReentrant: a guarded function locks the account until its frame ends.
Unlocked == ~evm.locked

\* A guarded function after its checks and effects, which left storage st,
\* calls out for the first time.  calls are the values of its calls, and the
\* frame owes the relayer its fee.
Open(st, calls, fee) ==
    /\ evm' = [st EXCEPT !.locked = TRUE, !.balance = st.balance - Head(calls)]
    /\ frames' = Append(frames, [calls |-> Tail(calls), fee |-> fee, owed |-> fee, saved |-> evm])
    /\ UNCHANGED clock

---------------------------------------------------------------------------
\* Creation, through the factory only

\* initializeV4 pays the submitter, who may call back, and the factory.
initializeV4(networkFee, maxTotalFee, deadline) ==
    /\ Unlocked /\ ~evm.initialized
    /\ Fresh(deadline)
    /\ TotalFee(networkFee) <= maxTotalFee
    /\ evm.balance >= TotalFee(networkFee)
    /\ LET created == [evm EXCEPT !.initialized = TRUE, !.authority = Founder]
       IN  \/ networkFee = 0 /\ evm' = created /\ UNCHANGED frames
           \/ /\ networkFee > 0
              /\ evm' = [created EXCEPT !.locked = TRUE, !.balance = evm.balance - networkFee]
              /\ frames' = Append(frames, [calls |-> <<>>, fee |-> networkFee, owed |-> 0, saved |-> evm])
    /\ UNCHANGED clock

\* Clones at a salt that hashes the key, so that only the founder's signature
\* fits, and initialises in the same transaction.
deployAndInitV4(networkFee, maxTotalFee, deadline) ==
    /\ ~evm.paused
    /\ initializeV4(networkFee, maxTotalFee, deadline)

\* receive(): anyone may send funds, also to the address before deployment.
receive(wei) ==
    /\ evm.balance + wei <= Wealth
    /\ evm' = [evm EXCEPT !.balance = evm.balance + wei]
    /\ UNCHANGED <<frames, clock>>

---------------------------------------------------------------------------
\* The owner's operations

\* The total of a sequence of amounts.
SumSeq(s) == LET sum[k \in 0..Len(s)] == IF k = 0 THEN 0 ELSE sum[k-1] + s[k] IN sum[Len(s)]

\* The common body of the owner's executions: checks, nonce, then the calls.
\* Any target but the account itself is allowed, so a call is the value it
\* carries.
OwnerExecute(values, networkFee, deadline) ==
    /\ MayAct /\ Unlocked
    /\ Fresh(deadline)
    /\ evm.balance >= SumSeq(values) + TotalFee(networkFee)
    /\ Open(Spend("execute", NoPerm, evm), values, networkFee)

\* The owner signs a bound on the total fee.
executeV4(value, networkFee, maxTotalFee, deadline) ==
    /\ TotalFee(networkFee) <= maxTotalFee
    /\ OwnerExecute(<<value>>, networkFee, deadline)

\* executeV4(mode, executionCalldata): the same under the ERC-7579 interface.
executeV4Mode(value, networkFee, maxTotalFee, deadline) ==
    executeV4(value, networkFee, maxTotalFee, deadline)

\* MODE_BATCH of PeridotAccountBatch: several calls under one signature, one
\* nonce and one fee; the funds are checked for all of them.
executeBatchV4(values, networkFee, maxTotalFee, deadline) ==
    /\ evm.kind = "batch"
    /\ Len(values) \in 1..MaxBatchOps
    /\ TotalFee(networkFee) <= maxTotalFee
    /\ OwnerExecute(values, networkFee, deadline)

\* execute(mode, executionCalldata) of PeridotAccount: no fee was signed.
execute7579(value, networkFee, deadline) ==
    /\ evm.kind = "single"
    /\ OwnerExecute(<<value>>, networkFee, deadline)

\* The session generation after a rotation: only PeridotAccount has one, and
\* it stays at 255.
NextGen == IF evm.kind = "single" /\ evm.gen < MaxGen THEN evm.gen + 1 ELSE evm.gen

\* Rotation, which moves on the session generation; not guarded by the lock.
updateAuthority(key, deadline) ==
    /\ MayAct /\ Fresh(deadline)
    /\ evm' = Spend("rotate", NoPerm,
                    [evm EXCEPT !.authority = key, !.gen = NextGen])
    /\ UNCHANGED <<frames, clock>>

\* The storage in which p's grant is g.
WithGrant(p, g) == [evm EXCEPT !.perms = [evm.perms EXCEPT ![p] = g]]

\* A grant stores the scope that its id hashes, once; not guarded by the lock.
grantPermission(p, validAfter, feeLimit, deadline) ==
    /\ MayAct /\ Fresh(deadline)
    /\ clock < PermScope[p].until /\ validAfter < PermScope[p].until
    /\ PermScope[p].until - clock <= MaxPermTtl
    /\ ~evm.perms[p].granted
    /\ PermScope[p].call \notin {"self", "factory", "denied"}
    /\ evm' = Spend("grant", p,
                    WithGrant(p, [NoGrant EXCEPT !.granted = TRUE, !.from = validAfter,
                                                 !.limit = feeLimit, !.gen = evm.gen]))
    /\ UNCHANGED <<frames, clock>>

\* Not guarded by the lock either.
revokePermission(p, deadline) ==
    /\ MayAct /\ Fresh(deadline)
    /\ evm.perms[p].granted /\ ~evm.perms[p].revoked
    /\ evm' = Spend("revoke", p, WithGrant(p, [evm.perms[p] EXCEPT !.revoked = TRUE]))
    /\ UNCHANGED <<frames, clock>>

ModuleTypes == {"validator", "executor"}

\* The record first, the module's onInstall last.
installModule(type, module, deadline) ==
    /\ MayAct /\ Unlocked /\ Fresh(deadline)
    /\ <<type, module>> \notin evm.modules
    /\ Open(Spend("install", NoPerm, [evm EXCEPT !.modules = evm.modules \cup {<<type, module>>}]), <<0>>, 0)

uninstallModule(type, module, deadline) ==
    /\ MayAct /\ Unlocked /\ Fresh(deadline)
    /\ <<type, module>> \in evm.modules
    /\ Open(Spend("uninstall", NoPerm, [evm EXCEPT !.modules = evm.modules \ {<<type, module>>}]), <<0>>, 0)

---------------------------------------------------------------------------
\* Sessions

\* What a session may ask for: some target and selector, with a value.
Ops == [call: Calls \cup {"self", "factory", "denied"}, value: Values]

\* _enforceScope: the call of the grant, without value.
InScope(p, op) ==
    /\ op.value = 0
    /\ op.call = PermScope[p].call
    /\ op.call \notin {"self", "factory", "denied"}

\* Mutant of InForce: the generation is not compared.
InForceAnyGen(p) ==
    LET g == evm.perms[p]
    IN  /\ g.granted /\ ~g.revoked
        /\ g.from <= clock /\ clock <= PermScope[p].until

\* A grant that is in force: not revoked, not of an earlier generation (which
\* PeridotAccountBatch does not check), within its time.
InForce(p) ==
    LET g == evm.perms[p]
    IN  /\ g.granted /\ ~g.revoked
        /\ evm.kind = "single" => g.gen = evm.gen
        /\ g.from <= clock /\ clock <= PermScope[p].until

\* Mutant of FeeAllowed: the limit is held against each execution alone.
FeeAllowedEach(p, networkFee, maxTotalFee, version) ==
    version = 2 => /\ TotalFee(networkFee) <= maxTotalFee
                   /\ TotalFee(networkFee) <= evm.perms[p].limit

\* Only under v2 are fees held against the cap the session signed and the
\* limit the owner granted.
FeeAllowed(p, networkFee, maxTotalFee, version) ==
    version = 2 => /\ TotalFee(networkFee) <= maxTotalFee
                   /\ evm.perms[p].spent + TotalFee(networkFee) <= evm.perms[p].limit

\* What a session execution is charged against the limit of its grant.
Charged(networkFee, version) == IF version = 2 THEN TotalFee(networkFee) ELSE 0

\* Checks, then sequence number and fees, then the calls.
executePermission(p, ops, networkFee, maxTotalFee, deadline, version) ==
    /\ MayAct /\ Unlocked /\ Fresh(deadline)
    /\ InForce(p)
    /\ \A k \in 1..Len(ops) : InScope(p, ops[k])
    /\ FeeAllowed(p, networkFee, maxTotalFee, version)
    /\ evm.balance >= TotalFee(networkFee)
    /\ LET g == evm.perms[p]
       IN  Open([WithGrant(p, [g EXCEPT !.seq = g.seq + 1, !.spent = g.spent + Charged(networkFee, version)])
                    EXCEPT !.log = Append(evm.log, Effect("session", p, g.seq, TotalFee(networkFee), version))],
                [k \in 1..Len(ops) |-> ops[k].value], networkFee)

\* The session's fee-capped entry point.
executeWithPermissionV2(p, op, networkFee, maxTotalFee, deadline) ==
    executePermission(p, <<op>>, networkFee, maxTotalFee, deadline, 2)

\* The frozen v1 entry point of PeridotAccount.
executeWithPermissionV1(p, op, networkFee, deadline) ==
    /\ evm.kind = "single"
    /\ executePermission(p, <<op>>, networkFee, 0, deadline, 1)

\* Through an installed executor module: the same paths.
executeFromExecutorV2(module, p, op, networkFee, maxTotalFee, deadline) ==
    /\ <<"executor", module>> \in evm.modules
    /\ executePermission(p, <<op>>, networkFee, maxTotalFee, deadline, 2)

\* MODE_BATCH: several calls of one permission, one sequence number, one fee.
executeBatchPermission(module, p, ops, networkFee, maxTotalFee, deadline) ==
    /\ evm.kind = "batch"
    /\ <<"executor", module>> \in evm.modules
    /\ Len(ops) \in 1..MaxBatchOps
    /\ executePermission(p, ops, networkFee, maxTotalFee, deadline, 2)

\* The frozen v1 executor path of PeridotAccount.
executeFromExecutor(module, p, op, networkFee, deadline) ==
    /\ <<"executor", module>> \in evm.modules
    /\ evm.kind = "single"
    /\ executePermission(p, <<op>>, networkFee, 0, deadline, 1)

---------------------------------------------------------------------------
\* The rest of a frame

Top == frames[Len(frames)]
Below == SubSeq(frames, 1, Len(frames) - 1)

\* The callee returns and the next call of a batch goes out.
CallOut ==
    /\ frames # <<>> /\ Top.calls # <<>>
    /\ evm.balance >= Head(Top.calls)
    /\ evm' = [evm EXCEPT !.balance = evm.balance - Head(Top.calls)]
    /\ frames' = [frames EXCEPT ![Len(frames)] = [Top EXCEPT !.calls = Tail(Top.calls)]]
    /\ UNCHANGED clock

\* relayerFee to the submitter or the fee recipient, which may call back.
PayRelayer ==
    /\ frames # <<>> /\ Top.calls = <<>> /\ Top.owed > 0
    /\ evm.balance >= Top.owed
    /\ evm' = [evm EXCEPT !.balance = evm.balance - Top.owed]
    /\ frames' = [frames EXCEPT ![Len(frames)] = [Top EXCEPT !.owed = 0]]
    /\ UNCHANGED clock

\* protocolFee to the factory, the gas check passes, the lock is released.
Return ==
    /\ frames # <<>> /\ Top.calls = <<>> /\ Top.owed = 0
    /\ evm.balance >= protocolFee(Top.fee)
    /\ evm' = [evm EXCEPT !.balance = evm.balance - protocolFee(Top.fee),
                          !.revenue = evm.revenue + protocolFee(Top.fee), !.locked = FALSE]
    /\ frames' = Below
    /\ UNCHANGED clock

\* CallFailed or GasAnomaly: a callee fails, or the attested fee exceeds twice
\* the gas.  What happened since the frame was opened is undone.
Revert ==
    /\ frames # <<>>
    /\ evm' = Top.saved
    /\ frames' = Below
    /\ UNCHANGED clock

\* Time passes between transactions.
Tick == /\ frames = <<>> /\ clock < Horizon
        /\ clock' = clock + 1
        /\ UNCHANGED <<evm, frames>>

---------------------------------------------------------------------------
\* The factory's administration

setDeploysPaused(paused) ==
    /\ evm.admins # {}
    /\ evm' = [evm EXCEPT !.paused = paused]
    /\ UNCHANGED <<frames, clock>>

addAdmin(a) ==
    /\ evm.admins # {}
    /\ a \notin evm.admins
    /\ evm' = [evm EXCEPT !.admins = evm.admins \cup {a}, !.count = evm.count + 1]
    /\ UNCHANGED <<frames, clock>>

\* Mutant of removeAdmin: no floor.
removeAnyAdmin(a) ==
    /\ a \in evm.admins
    /\ evm' = [evm EXCEPT !.admins = evm.admins \ {a}, !.count = evm.count - 1]
    /\ UNCHANGED <<frames, clock>>

removeAdmin(a) ==
    /\ a \in evm.admins
    /\ evm.count > 1
    /\ evm' = [evm EXCEPT !.admins = evm.admins \ {a}, !.count = evm.count - 1]
    /\ UNCHANGED <<frames, clock>>

withdrawRevenue(amount) ==
    /\ evm.admins # {}
    /\ amount <= evm.revenue
    /\ evm' = [evm EXCEPT !.revenue = evm.revenue - amount]
    /\ UNCHANGED <<frames, clock>>

---------------------------------------------------------------------------
\* The specification

Deadlines == clock..(clock + MaxTtl)

OwnerStep ==
    \E value \in Values, fee \in NetworkFees, max \in MaxFees, dl \in Deadlines :
        \/ executeV4(value, fee, max, dl)
        \/ execute7579(value, fee, dl)
        \/ executeV4Mode(value, fee, max, dl)
        \/ \E second \in Values : executeBatchV4(<<value, second>>, fee, max, dl)

ManageStep ==
    \E dl \in Deadlines :
        \/ \E key \in Keys : updateAuthority(key, dl)
        \/ \E p \in PermIds, from \in 0..Horizon, limit \in FeeLimits :
              grantPermission(p, from, limit, dl)
        \/ \E p \in PermIds : revokePermission(p, dl)
        \/ \E t \in ModuleTypes, m \in Modules : installModule(t, m, dl) \/ uninstallModule(t, m, dl)

SessionStep ==
    \E p \in PermIds, op \in Ops, fee \in NetworkFees, max \in MaxFees, dl \in Deadlines :
        \/ executeWithPermissionV1(p, op, fee, dl)
        \/ executeWithPermissionV2(p, op, fee, max, dl)
        \/ \E m \in Modules : \/ executeFromExecutor(m, p, op, fee, dl)
                              \/ executeFromExecutorV2(m, p, op, fee, max, dl)
                              \/ executeBatchPermission(m, p, <<op, op>>, fee, max, dl)

FactoryStep ==
    \/ \E fee \in NetworkFees, max \in MaxFees, dl \in Deadlines : deployAndInitV4(fee, max, dl)
    \/ \E wei \in TopUps : receive(wei)
    \/ \E paused \in BOOLEAN : setDeploysPaused(paused)
    \/ \E a \in Admins : addAdmin(a) \/ removeAdmin(a)
    \/ \E amount \in 1..evm.revenue : withdrawRevenue(amount)

EvmNext == OwnerStep \/ ManageStep \/ SessionStep \/ FactoryStep
           \/ CallOut \/ PayRelayer \/ Return \/ Revert \/ Tick

EvmSpec == EvmInit /\ [][EvmNext]_evmVars

---------------------------------------------------------------------------
\* Properties

GrantType == [granted: BOOLEAN, from: Nat, limit: Nat, spent: Nat, seq: Nat,
              revoked: BOOLEAN, gen: 0..MaxGen]
EffectType == [op: {"execute", "rotate", "grant", "revoke", "install",
                    "uninstall", "session"},
               perm: PermIds \cup {NoPerm}, n: Nat, fee: Nat, version: {1, 2, 4}]
StorageType ==
    [kind: {"single", "batch"}, initialized: BOOLEAN, authority: Keys \cup {NoKey},
     nonce: Nat, gen: 0..MaxGen, perms: [PermIds -> GrantType],
     modules: SUBSET (ModuleTypes \X Modules), locked: BOOLEAN, balance: Nat,
     revenue: Nat, paused: BOOLEAN, admins: SUBSET Admins, count: Nat,
     log: Seq(EffectType)]
FrameType == [calls: Seq(Nat), fee: Nat, owed: Nat, saved: StorageType]

\* Storage, frames and time have their types.
EvmTypeOK == evm \in StorageType /\ frames \in Seq(FrameType) /\ clock \in Nat

\* A nonce of the owner and a sequence number of a permission each authorise
\* one effect, however often a signature is submitted, whatever callees do
\* while a call is out, and across rotations back to an earlier key.
SpentOnce ==
    \A i, j \in 1..Len(evm.log) :
        LET a == evm.log[i]
            b == evm.log[j]
        IN  /\ a.op = "session" /\ b.op = "session" /\ a.perm = b.perm /\ a.n = b.n => i = j
            /\ a.op # "session" /\ b.op # "session" /\ a.n = b.n => i = j

\* Rotation number k of the log moved on the generation.
RaisedGen(k) == Cardinality({m \in 1..k : evm.log[m].op = "rotate"}) <= MaxGen

\* A session acts only on a grant that was not revoked since, nor, in
\* PeridotAccount, outlived by a rotation, until the generation saturates.
SessionsEnd ==
    \A j \in 1..Len(evm.log) : evm.log[j].op = "session" =>
        \E i \in 1..j :
            /\ evm.log[i].op = "grant" /\ evm.log[i].perm = evm.log[j].perm
            /\ \A k \in i..j :
                  /\ ~(evm.log[k].op = "revoke" /\ evm.log[k].perm = evm.log[j].perm)
                  /\ evm.kind = "single" /\ evm.log[k].op = "rotate" => ~RaisedGen(k)

\* The checks made when a frame was opened still hold when it pays: while
\* callees run, nothing else can take the funds its calls and fees need.
FundsReserved ==
    \A k \in 1..Len(frames) :
        evm.balance >= SumSeq(frames[k].calls) + protocolFee(frames[k].fee) + frames[k].owed

\* The fees that a permission's executions in a log have cost, on the entry
\* points of some versions.
SessionFees(log, p, versions) ==
    SumSeq([k \in 1..Len(log) |->
               IF log[k].op = "session" /\ log[k].perm = p /\ log[k].version \in versions THEN log[k].fee ELSE 0])

\* Over its life a session costs the account no more than the limit its owner
\* granted, on the entry points that take a fee cap.
CappedFeesBounded == \A p \in PermIds : SessionFees(evm.log, p, {2}) <= evm.perms[p].limit

\* "feeLimit is owner-approved in the signed payload and caps lifetime
\* session-attributable fees", on every entry point.
LifetimeFeesBounded == \A p \in PermIds : SessionFees(evm.log, p, {1, 2}) <= evm.perms[p].limit

\* The factory never runs out of administrators, and counts them right.
FactoryManaged == evm.count = Cardinality(evm.admins) /\ evm.admins # {}
=============================================================================
