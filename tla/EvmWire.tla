------------------------------ MODULE EvmWire ------------------------------
(***************************************************************************)
(* What a passkey or a session key signs for the EVM accounts, the         *)
(* calldata the client packages make of it (core/evm.ts, evm/adapter.ts)   *)
(* and what factory and account make of the calldata.  PeridotAccount      *)
(* ("single") and PeridotAccountBatch ("batch") are deployed by a factory  *)
(* each, at the same addresses on every chain.                             *)
(*                                                                         *)
(* Calldata is a sequence of 32-byte words, offsets and lengths counted in *)
(* words; packed payloads are cells <<width, word>>.  keccak256 and        *)
(* selectors are taken as injective, so a hash is what was hashed.  Clock, *)
(* funds, fees and the re-entrancy lock, which may refuse as well, are     *)
(* EvmAccount's.                                                           *)
(***************************************************************************)
EXTENDS Integers, Sequences, FiniteSets, SequencesExt, Functions

CONSTANTS
    Callable,    \* kinds of operations that are signed
    Chains       \* chains the factories are deployed to

VARIABLES
    hosted,      \* accounts that are initialised: <<chain, address>>
    order,       \* nonce of the accounts (and sequence number of the permission)
    permits,     \* permissions that have been granted: <<chain, address, id>>
    agreed,      \* operations that were signed
    took,        \* what the contracts did: <<chain, what>>
    undone       \* operations that were sent as built, and refused

evmWireVars == <<hosted, order, permits, agreed, took, undone>>

-----------------------------------------------------------------------------
(* Words, cells, hashes and addresses *)

Uint(n)    == <<"uint", n>>
Address(a) == <<"address", a>>
Bytes32(b) == <<"bytes32", b>>
Zero       == Uint(0)
keccak256(x) == <<"keccak", x>>
Pack(w, v) == <<w, v>>

X(k) == <<"x", k>>
Y(k) == <<"y", k>>
pidToPidHash(p) == <<"pid", p>>
pidKeyToSalt32(p, k) == keccak256(<<Pack(32, pidToPidHash(p)), Pack(32, X(k)), Pack(32, Y(k))>>)
getCreate2Address(f, salt, i) == <<"create2", f, salt, i>>
Factory(v)        == <<"factory", v>>
Implementation(v) == <<"implementation", v>>
\* The key an address commits to is the claiming one: the account of PID 2 was
\* claimed with key 2 and rotated to key 1, which so holds both.
ClaimedWith(p) == p
Owner == 1
deriveEvmSmartAccountAddressBound(p, k, v) ==
    getCreate2Address(Factory(v), pidKeyToSalt32(p, k), Implementation(v))
deriveEvmSmartAccountAddress(p, v) ==
    getCreate2Address(Factory(v), pidToPidHash(p), Implementation(v))
Activations == {"activateV1", "activateV2", "activateV3", "activateV4"}
AccountOf(o) ==
    deriveEvmSmartAccountAddressBound(o.pid, IF o.kind \in Activations THEN o.key ELSE ClaimedWith(o.pid), o.version)

-----------------------------------------------------------------------------
(* Payloads: what is signed *)

EvmDomain(v)  == <<24, <<"SMART_ACCOUNT", v>>>>
PermDomain(v) == <<21, <<"PERMISSION", v>>>>

buildEvmAuthorizationPayload(parts)        == keccak256(<<EvmDomain(1)>> \o parts)
buildEvmAuthorizationPayloadV2(tag, parts) == keccak256(<<EvmDomain(2), Pack(1, tag)>> \o parts)
buildEvmAuthorizationPayloadV3(tag, parts) == keccak256(<<EvmDomain(3), Pack(1, tag)>> \o parts)
buildEvmAuthorizationPayloadV4(tag, parts) == keccak256(<<EvmDomain(4), Pack(1, tag)>> \o parts)
buildEvmPermissionPayload(v, tag, parts)   == keccak256(<<PermDomain(v), Pack(1, tag)>> \o parts)

Placed(o) == <<Pack(32, o.chain), Pack(20, AccountOf(o))>>
Callee(o) == <<Pack(20, o.callee), Pack(32, o.value), Pack(32, keccak256(o.data))>>

\* Version 1 and 2 of the account are retired; their payloads are still built.
buildExecutePayload(o) ==
    buildEvmAuthorizationPayload(Placed(o) \o <<Pack(8, o.nonce)>> \o Callee(o)
        \o <<Pack(8, o.deadline), Pack(32, o.fee), Pack(20, Factory(o.version))>>)
evmExecutePayloadV2(o) ==
    buildEvmAuthorizationPayloadV2(1, Placed(o) \o <<Pack(8, o.nonce)>> \o Callee(o)
        \o <<Pack(8, o.deadline), Pack(32, o.cap), Pack(2, o.policy)>>)
evmUpdateAuthorityPayloadV2(o) ==
    buildEvmAuthorizationPayloadV2(3, Placed(o) \o <<Pack(8, o.nonce), Pack(32, X(o.newKey)), Pack(32, Y(o.newKey)),
                                                   Pack(8, o.deadline)>>)
evmActivatePayloadV2(o) ==
    buildEvmAuthorizationPayloadV2(5,
        <<Pack(32, pidKeyToSalt32(o.pid, o.key)), Pack(32, X(o.key)), Pack(32, Y(o.key)), Pack(32, Bytes32("rp")),
          Pack(32, o.cap), Pack(2, o.policy), Pack(8, o.deadline), Pack(32, o.chain), Pack(20, Factory(o.version))>>)

evmExecutePayloadV3(o) ==
    buildEvmAuthorizationPayloadV3(1, Placed(o) \o <<Pack(8, o.nonce)>> \o Callee(o)
        \o <<Pack(8, o.deadline), Pack(2, o.policy)>>)
evmUpdateAuthorityPayloadV3(o) ==
    buildEvmAuthorizationPayloadV3(3, Placed(o) \o <<Pack(8, o.nonce), Pack(32, X(o.newKey)), Pack(32, Y(o.newKey)),
                                                   Pack(8, o.deadline)>>)
evmActivatePayloadV3(o) ==
    buildEvmAuthorizationPayloadV3(5,
        <<Pack(32, pidKeyToSalt32(o.pid, o.key)), Pack(32, X(o.key)), Pack(32, Y(o.key)), Pack(2, o.policy),
          Pack(8, o.deadline), Pack(32, o.chain), Pack(20, Factory(o.version))>>)
build1271Challenge(o) ==
    buildEvmAuthorizationPayloadV3(22, Placed(o) \o <<Pack(32, o.hash)>>)

buildExecuteV4Payload(o) ==
    buildEvmAuthorizationPayloadV4(1, Placed(o) \o <<Pack(8, o.nonce)>> \o Callee(o)
        \o <<Pack(8, o.deadline), Pack(2, o.policy), Pack(32, o.cap)>>)
buildActivateV4Payload(o) ==
    buildEvmAuthorizationPayloadV4(5,
        <<Pack(32, pidKeyToSalt32(o.pid, o.key)), Pack(32, X(o.key)), Pack(32, Y(o.key)), Pack(2, o.policy),
          Pack(32, o.cap), Pack(8, o.deadline), Pack(32, o.chain), Pack(20, Factory(o.version))>>)

Scope(o) ==
    <<Pack(32, X(o.session)), Pack(32, Y(o.session)), Pack(1, o.scopeKind), Pack(20, o.target), Pack(4, o.selector),
      Pack(20, o.token), Pack(20, o.payee)>>
buildPermissionId(o) ==
    keccak256(<<PermDomain(2)>> \o Placed(o) \o Scope(o) \o <<Pack(32, o.nft), Pack(8, o.until), Pack(32, o.salt)>>)
buildGrantPayload(o) ==
    buildEvmPermissionPayload(2, 16, Placed(o) \o <<Pack(32, buildPermissionId(o))>> \o Scope(o)
        \o <<Pack(32, o.perTx), Pack(32, o.total), Pack(32, o.feeLimit), Pack(32, o.nft), Pack(8, o.after),
             Pack(8, o.until), Pack(8, o.nonce), Pack(8, o.deadline)>>)
buildRevokePayload(o) ==
    buildEvmPermissionPayload(2, 17, Placed(o) \o <<Pack(32, buildPermissionId(o)), Pack(8, o.nonce), Pack(8, o.deadline)>>)
buildPermExecPayload(o) ==
    buildEvmPermissionPayload(2, 18, Placed(o) \o <<Pack(32, buildPermissionId(o)), Pack(8, o.nonce)>> \o Callee(o)
        \o <<Pack(8, o.deadline), Pack(2, o.policy), Pack(32, o.cap)>>)
buildPermExecPayloadV1(o) ==
    buildEvmPermissionPayload(1, 18, Placed(o) \o <<Pack(32, buildPermissionId(o)), Pack(8, o.nonce)>> \o Callee(o)
        \o <<Pack(8, o.deadline), Pack(2, o.policy)>>)
buildExec7579Payload(o) ==
    buildEvmPermissionPayload(2, 21, Placed(o) \o <<Pack(8, o.nonce)>> \o Callee(o)
        \o <<Pack(8, o.deadline), Pack(2, o.policy)>>)
buildExec7579PayloadV4(o) ==
    buildEvmPermissionPayload(2, 21, Placed(o) \o <<Pack(8, o.nonce)>> \o Callee(o)
        \o <<Pack(8, o.deadline), Pack(2, o.policy), Pack(32, o.cap)>>)
buildModulePayload(o) ==
    buildEvmPermissionPayload(2, IF o.kind = "install" THEN 19 ELSE 20,
        Placed(o) \o <<Pack(32, o.type), Pack(20, o.module), Pack(32, keccak256(o.data)), Pack(8, o.nonce),
                       Pack(8, o.deadline)>>)

-----------------------------------------------------------------------------
(* The ABI coder of the adapter *)

Scalar(w)      == [t |-> "word", v |-> w]
Blob(b)        == [t |-> "bytes", v |-> b]
Words(ws)      == [t |-> "word[]", v |-> ws]
Blobs(bs)      == [t |-> "bytes[]", v |-> bs]
Tuple(fields)  == [t |-> "tuple", v |-> fields]
Scalars(ws)    == [i \in DOMAIN ws |-> Scalar(ws[i])]

Total(lengths, i) ==
    LET upTo[j \in 0..Len(lengths)] == IF j = 0 THEN 0 ELSE upTo[j - 1] + lengths[j] IN upTo[i]

encodeBytes(b) == <<Uint(Len(b))>> \o b
\* The offsets of an array of bytes count from behind its length.
encodeArray(v) ==
    IF v.t = "word[]" THEN encodeBytes(v.v)
    ELSE LET elems   == [i \in DOMAIN v.v |-> encodeBytes(v.v[i])]
             lengths == [i \in DOMAIN elems |-> Len(elems[i])]
         IN <<Uint(Len(elems))>> \o [i \in DOMAIN elems |-> Uint(Len(elems) + Total(lengths, i - 1))]
              \o FlattenSeq(elems)

isDynamic(v) ==
    \/ v.t \in {"bytes", "word[]", "bytes[]"}
    \/ v.t = "tuple" /\ \E i \in DOMAIN v.v : v.v[i].t \in {"bytes", "word[]", "bytes[]"}
encodeStatic(v) == IF v.t = "tuple" THEN [i \in DOMAIN v.v |-> v.v[i].v] ELSE <<v.v>>

\* Heads, with the offset of what is dynamic, then the tails.
Encode(TailOf(_), vs) ==
    LET tails   == [i \in DOMAIN vs |-> IF isDynamic(vs[i]) THEN TailOf(vs[i]) ELSE <<>>]
        lengths == [i \in DOMAIN vs |-> Len(tails[i])]
        heads   == [i \in DOMAIN vs |-> IF isDynamic(vs[i]) THEN 1 ELSE Len(encodeStatic(vs[i]))]
        head(i) == IF isDynamic(vs[i]) THEN <<Uint(Total(heads, Len(vs)) + Total(lengths, i - 1))>>
                   ELSE encodeStatic(vs[i])
    IN FlattenSeq([i \in DOMAIN vs |-> head(i)]) \o FlattenSeq(tails)
encodeField(v) == IF v.t = "bytes" THEN encodeBytes(v.v) ELSE encodeArray(v)
abiEncodeSequence(vs) ==
    Encode(LAMBDA v : IF v.t = "tuple" THEN Encode(encodeField, v.v) ELSE encodeField(v), vs)

\* An assertion: authenticatorData, clientDataJSON, r and s.
AuthData == <<Bytes32("authenticatorData"), Bytes32("flags")>>
ClientData == <<Bytes32("clientDataJSON 1"), Bytes32("clientDataJSON 2"), Bytes32("clientDataJSON 3")>>
Signature == <<Blob(AuthData), Blob(ClientData), Scalar(Bytes32("r")), Scalar(Bytes32("s"))>>

buildBatchOpsHash(o) ==
    keccak256(abiEncodeSequence(<<Words(o.targets), Words(o.values), Blobs(o.datas)>>))
MODE_BATCH == Bytes32("batch")
MODE_SINGLE == Zero
buildBatchExecutePayloadV4(o) ==
    buildEvmPermissionPayload(2, 21, <<Pack(32, MODE_BATCH)>> \o Placed(o)
        \o <<Pack(8, o.nonce), Pack(32, buildBatchOpsHash(o)), Pack(8, o.deadline), Pack(2, o.policy), Pack(32, o.cap)>>)
buildBatchPermissionPayload(o) ==
    buildEvmPermissionPayload(2, 18, <<Pack(32, MODE_BATCH)>> \o Placed(o)
        \o <<Pack(32, buildPermissionId(o)), Pack(8, o.nonce), Pack(32, buildBatchOpsHash(o)), Pack(8, o.deadline),
             Pack(2, o.policy), Pack(32, o.cap)>>)

-----------------------------------------------------------------------------
(* Calldata: who calls what, with which words *)

Send(o, fn, vs) ==
    [to |-> AccountOf(o), from |-> Address("relayer"), fn |-> fn, args |-> abiEncodeSequence(vs)]
Deploy(o, fn, vs) == [Send(o, fn, vs) EXCEPT !.to = Factory(o.version)]
ByModule(o, fn, vs) == [Send(o, fn, vs) EXCEPT !.from = Address("executor")]
NotBuilt == [to |-> Zero, from |-> Zero, fn |-> "none", args |-> <<>>]

buildDeployAndInitData(o) ==
    Deploy(o, "deployAndInit/6", Scalars(<<pidKeyToSalt32(o.pid, o.key), X(o.key), Y(o.key), Bytes32("rp"), o.fee,
                                           Address("treasury")>>))
buildDeployAndInitDataV2(o) ==
    Deploy(o, "deployAndInit/12", Scalars(<<pidKeyToSalt32(o.pid, o.key), X(o.key), Y(o.key), Bytes32("rp"), o.cap,
                                            o.policy, o.deadline, o.fee>>) \o Signature)
buildDeployAndInitDataV3(o) ==
    Deploy(o, "deployAndInit", Scalars(<<pidToPidHash(o.pid), X(o.key), Y(o.key), o.policy, o.deadline, o.fee>>)
                                 \o Signature)
buildDeployAndInitDataV4(o) ==
    Deploy(o, "deployAndInitV4", Scalars(<<pidToPidHash(o.pid), X(o.key), Y(o.key), o.policy, o.cap, o.deadline, o.fee>>)
                                   \o Signature)
buildExecuteDataV3(o) ==
    Send(o, "execute", Scalars(<<o.callee, o.value>>) \o <<Blob(o.data)>>
                         \o Scalars(<<o.deadline, o.policy, o.fee>>) \o Signature)
buildExecuteDataV4(o) ==
    Send(o, "executeV4", Scalars(<<o.callee, o.value>>) \o <<Blob(o.data)>>
                           \o Scalars(<<o.deadline, o.policy, o.cap, o.fee>>) \o Signature)
\* The adapter has no builder for a rotation: whoever submits it makes this.
UpdateAuthorityData(o) ==
    Send(o, "updateAuthority", Scalars(<<X(o.newKey), Y(o.newKey), o.deadline>>) \o Signature)
\* assertNonfinancialKind: a financial grant is not built.
buildGrantPermissionData(o) ==
    IF o.scopeKind # Uint(1) THEN NotBuilt
    ELSE Send(o, "grantPermission",
              <<Tuple(Scalars(<<buildPermissionId(o), X(o.session), Y(o.session), o.scopeKind, o.target, o.selector,
                                o.token, o.payee, o.perTx, o.total, o.feeLimit, o.nft, o.after, o.until, o.salt,
                                o.deadline>>))>> \o Signature)
buildRevokePermissionData(o) ==
    Send(o, "revokePermission", Scalars(<<buildPermissionId(o), o.deadline>>) \o Signature)
buildExecuteWithPermissionData(o) ==
    Send(o, "executeWithPermission/12",
         Scalars(<<buildPermissionId(o), o.callee, o.value>>) \o <<Blob(o.data)>>
           \o Scalars(<<o.deadline, o.nonce, o.policy, o.fee>>) \o Signature)
buildExecuteWithPermissionDataV2(o) ==
    Send(o, "executeWithPermission/13",
         Scalars(<<buildPermissionId(o), o.callee, o.value>>) \o <<Blob(o.data)>>
           \o Scalars(<<o.deadline, o.nonce, o.policy, o.cap, o.fee>>) \o Signature)
buildInstallModuleData(o) ==
    Send(o, IF o.kind = "install" THEN "installModule" ELSE "uninstallModule",
         Scalars(<<o.type, o.module>>) \o <<Blob(o.data), Scalar(o.deadline)>> \o Signature)

exec7579Fields(o) ==
    Scalars(<<o.callee, o.value>>) \o <<Blob(o.data)>> \o Scalars(<<o.deadline, o.policy, o.fee>>) \o Signature
exec7579FieldsV4(o) ==
    Scalars(<<o.callee, o.value>>) \o <<Blob(o.data)>> \o Scalars(<<o.deadline, o.policy, o.cap, o.fee>>) \o Signature
permExecFields(o) ==
    Scalars(<<buildPermissionId(o), o.callee, o.value>>) \o <<Blob(o.data)>>
      \o Scalars(<<o.deadline, o.nonce, o.policy, o.fee, Address("relayer")>>) \o Signature
permExecFieldsV2(o) ==
    Scalars(<<buildPermissionId(o), o.callee, o.value>>) \o <<Blob(o.data)>>
      \o Scalars(<<o.deadline, o.nonce, o.policy, o.cap, o.fee, Address("relayer")>>) \o Signature

\* The single calls pass the fields as a tuple where the account takes bytes.
build7579ExecuteData(o)   == Send(o, "execute/mode", <<Scalar(MODE_SINGLE), Tuple(exec7579Fields(o))>>)
build7579ExecuteDataV4(o) == Send(o, "executeV4/mode", <<Scalar(MODE_SINGLE), Tuple(exec7579FieldsV4(o))>>)
buildExecuteFromExecutorData(o) ==
    ByModule(o, "executeFromExecutor", <<Scalar(MODE_SINGLE), Tuple(permExecFields(o))>>)
buildExecuteFromExecutorDataV2(o) ==
    ByModule(o, "executeFromExecutorV2", <<Scalar(MODE_SINGLE), Tuple(permExecFieldsV2(o))>>)
\* The batches wrap them.
buildBatchExecuteDataV4(o) ==
    Send(o, "executeV4/mode",
         <<Scalar(MODE_BATCH),
           Blob(abiEncodeSequence(<<Words(o.targets), Words(o.values), Blobs(o.datas)>>
                                    \o Scalars(<<o.deadline, o.policy, o.cap, o.fee>>) \o Signature))>>)
buildBatchExecuteFromExecutorDataV2(o) ==
    ByModule(o, "executeFromExecutorV2",
         <<Scalar(MODE_BATCH),
           Blob(abiEncodeSequence(<<Scalar(buildPermissionId(o)), Words(o.targets), Words(o.values), Blobs(o.datas)>>
                                    \o Scalars(<<o.deadline, o.nonce, o.policy, o.cap, o.fee, Address("relayer")>>)
                                    \o Signature))>>)
build1271Calldata(o) ==
    Send(o, "isValidSignature", <<Scalar(o.hash), Blob(abiEncodeSequence(Signature))>>)

\* What other software makes of the single calls: the fields as bytes.
Wrapped(o, c, fields) ==
    [c EXCEPT !.args = abiEncodeSequence(<<Scalar(MODE_SINGLE), Blob(abiEncodeSequence(fields))>>)]

-----------------------------------------------------------------------------
(* The contracts: what they decode, demand and do *)

\* abi.decode: a word, or what an offset leads to.  An offset or a length that is
\* no number, or leaves the calldata, reverts.
Broken == <<Bytes32("reverted")>>
BytesAt(a, w) ==
    IF /\ w[1] = "uint" /\ w[2] < Len(a)
       /\ a[w[2] + 1][1] = "uint" /\ w[2] + 1 + a[w[2] + 1][2] <= Len(a)
    THEN SubSeq(a, w[2] + 2, w[2] + 1 + a[w[2] + 1][2])
    ELSE Broken
BlobsAt(a, w) ==
    IF BytesAt(a, w) = Broken THEN <<Broken>>
    ELSE LET content == SubSeq(a, w[2] + 2, Len(a)) IN
         [i \in 1..a[w[2] + 1][2] |-> BytesAt(content, content[i])]
Decode(types, a) ==
    [i \in DOMAIN types |->
        IF Len(a) < Len(types) THEN Broken
        ELSE CASE types[i] = "w" -> a[i]
               [] types[i] \in {"b", "w[]"} -> BytesAt(a, a[i])
               [] types[i] = "b[]" -> BlobsAt(a, a[i])]
Asserted(d, i) ==
    d[i] = AuthData /\ d[i + 1] = ClientData /\ d[i + 2] = Bytes32("r") /\ d[i + 3] = Bytes32("s")
Assertion == <<"b", "b", "w", "w">>

\* What the contract would do if `who` had signed `payload`.
Accepts(fits, d, i, who, payload, what) ==
    [ok |-> fits /\ Asserted(d, i), who |-> who, payload |-> payload, what |-> what]
Reverts == [ok |-> FALSE, who |-> Zero, payload |-> <<>>, what |-> <<>>]

InPolicy(w) == w \in {Uint(1), Uint(2)}
Sited(net, self) == <<Pack(32, net), Pack(20, self)>>

\* initializeV4 takes salt, x, y, pidHash, policy, cap, deadline, fee, factory and
\* payer: the salt must be bound and the caller be the factory that is signed for.
InitializeV4(net, self, from, e) ==
    Accepts(/\ from = e[9] /\ InPolicy(e[5])
            /\ e[1] = keccak256(<<Pack(32, e[4]), Pack(32, e[2]), Pack(32, e[3])>>),
            e, 11, e[2],
            keccak256(<<EvmDomain(4), Pack(1, 5), Pack(32, e[1]), Pack(32, e[2]), Pack(32, e[3]), Pack(2, e[5]),
                        Pack(32, e[6]), Pack(8, e[7]), Pack(32, net), Pack(20, e[9])>>),
            <<"activate", self, e[2], e[3], e[5], e[6], e[7]>>)
\* The factory derives the salt, clones its implementation and initialises it.
DeployAndInitV4(net, f, from, a) ==
    LET d == Decode([i \in 1..7 |-> "w"] \o Assertion, a)
        salt == keccak256(<<Pack(32, d[1]), Pack(32, d[2]), Pack(32, d[3])>>)
    IN InitializeV4(net, getCreate2Address(f, salt, Implementation(f[2])), f,
                    <<salt, d[2], d[3], d[1], d[4], d[5], d[6], d[7], f, from>> \o SubSeq(d, 8, 11))

ExecuteV4(net, self, n, a) ==
    LET d == Decode(<<"w", "w", "b", "w", "w", "w", "w">> \o Assertion, a) IN
    Accepts(d[1] # self /\ InPolicy(d[5]), d, 8, X(Owner),
            keccak256(<<EvmDomain(4), Pack(1, 1)>> \o Sited(net, self)
                \o <<Pack(8, n), Pack(20, d[1]), Pack(32, d[2]), Pack(32, keccak256(d[3])), Pack(8, d[4]), Pack(2, d[5]),
                     Pack(32, d[6])>>),
            <<"execute", self, n, d[1], d[2], d[3], d[4], d[5], d[6]>>)

RotationDomain(version) == EvmDomain(IF version = "single" THEN 3 ELSE 4)
UpdateAuthority(version, net, self, n, a) ==
    LET d == Decode(<<"w", "w", "w">> \o Assertion, a) IN
    Accepts(TRUE, d, 4, X(Owner),
            keccak256(<<RotationDomain(version), Pack(1, 3)>> \o Sited(net, self)
                \o <<Pack(8, n), Pack(32, d[1]), Pack(32, d[2]), Pack(8, d[3])>>),
            <<"rotate", self, n, d[1], d[2], d[3]>>)

PermissionIdOf(net, self, g) ==
    keccak256(<<PermDomain(2)>> \o Sited(net, self)
        \o <<Pack(32, g[2]), Pack(32, g[3]), Pack(1, g[4]), Pack(20, g[5]), Pack(4, g[6]), Pack(20, g[7]), Pack(20, g[8]),
             Pack(32, g[12]), Pack(8, g[14]), Pack(32, g[15])>>)
DeniedSelectors == {Bytes32("transfer"), Bytes32("approve")}
GrantPermission(version, net, self, n, a) ==
    LET g == Decode([i \in 1..16 |-> "w"] \o Assertion, a) IN
    Accepts(/\ g[4] = Uint(1)
            /\ g[1] = PermissionIdOf(net, self, g)
            /\ g[5] \notin {Zero, self, Factory(version)}
            /\ g[6] \notin {Zero} \cup DeniedSelectors
            /\ {g[7], g[8], g[9], g[10], g[12]} = {Zero},
            g, 17, X(Owner),
            keccak256(<<PermDomain(2), Pack(1, 16)>> \o Sited(net, self)
                \o <<Pack(32, g[1]), Pack(32, g[2]), Pack(32, g[3]), Pack(1, g[4]), Pack(20, g[5]), Pack(4, g[6]),
                     Pack(20, g[7]), Pack(20, g[8]), Pack(32, g[9]), Pack(32, g[10]), Pack(32, g[11]), Pack(32, g[12]),
                     Pack(8, g[13]), Pack(8, g[14]), Pack(8, n), Pack(8, g[16])>>),
            <<"grant", self, n, g[1], g[11], g[13], g[16]>>)
RevokePermission(net, self, n, a) ==
    LET d == Decode(<<"w", "w">> \o Assertion, a) IN
    Accepts(TRUE, d, 3, X(Owner),
            keccak256(<<PermDomain(2), Pack(1, 17)>> \o Sited(net, self)
                \o <<Pack(32, d[1]), Pack(8, n), Pack(8, d[2])>>),
            <<"revoke", self, n, d[1], d[2]>>)

\* The record of a permission is what its id was made from: session key, target
\* and selector stand at fixed places of it.
Recorded(net, self, id, Holds(_)) ==
    /\ id[1] = "keccak" /\ Len(id[2]) = 13
    /\ SubSeq(id[2], 1, 3) = <<PermDomain(2)>> \o Sited(net, self)
    /\ Holds([session |-> id[2][4][2], target |-> id[2][7][2], selector |-> id[2][8][2]])
SessionOf(id) == IF id[1] = "keccak" /\ Len(id[2]) = 13 THEN id[2][4][2] ELSE Zero
\* _enforceScope
EnforceScope(p, target, value, data) ==
    value = Zero /\ target = p.target /\ Len(data) > 0 /\ data[1] = p.selector

\* _executePermission, with the fee cap among what is signed or without
ExecutePermission(capped, net, self, n, d) ==
    Accepts(/\ IF capped THEN InPolicy(d[7]) ELSE d[7] = Uint(1)
            /\ d[6] = n
            /\ Recorded(net, self, d[1], LAMBDA p : EnforceScope(p, d[2], d[3], d[4])),
            d, Len(d) - 3, SessionOf(d[1]),
            keccak256(<<PermDomain(IF capped THEN 2 ELSE 1), Pack(1, 18)>> \o Sited(net, self)
                \o <<Pack(32, d[1]), Pack(8, d[6]), Pack(20, d[2]), Pack(32, d[3]), Pack(32, keccak256(d[4])),
                     Pack(8, d[5]), Pack(2, d[7])>> \o (IF capped THEN <<Pack(32, d[8])>> ELSE <<>>)),
            <<"session", self, d[1], d[6], d[2], d[3], d[4], d[5], d[7]>> \o (IF capped THEN <<d[8]>> ELSE <<>>))
PermTypes == <<"w", "w", "w", "b", "w", "w", "w">>

Execute7579(capped, net, self, n, d) ==
    Accepts(/\ d[1] # self
            /\ IF capped THEN InPolicy(d[5]) ELSE d[5] = Uint(1),
            d, Len(d) - 3, X(Owner),
            keccak256(<<PermDomain(2), Pack(1, 21)>> \o Sited(net, self)
                \o <<Pack(8, n), Pack(20, d[1]), Pack(32, d[2]), Pack(32, keccak256(d[3])), Pack(8, d[4]), Pack(2, d[5])>>
                \o (IF capped THEN <<Pack(32, d[6])>> ELSE <<>>)),
            <<"execute7579", self, n, d[1], d[2], d[3], d[4], d[5]>> \o (IF capped THEN <<d[6]>> ELSE <<>>))

\* keccak256(abi.encode(targets, values, datas)) as the contract computes it, for
\* datas of one word each.
OpsHash(targets, values, datas) ==
    LET n == Len(targets) IN
    keccak256(<<Uint(3), Uint(4 + n), Uint(5 + 2 * n), Uint(n)>> \o targets \o <<Uint(n)>> \o values
              \o <<Uint(n)>> \o [i \in 1..n |-> Uint(n + 2 * (i - 1))]
              \o FlattenSeq([i \in 1..n |-> <<Uint(1), datas[i][1]>>]))
SameLength(targets, values, datas) ==
    Len(targets) \in 1..10 /\ Len(values) = Len(targets) /\ Len(datas) = Len(targets)
ExecuteBatchV4(net, self, n, b) ==
    LET d == Decode(<<"w[]", "w[]", "b[]", "w", "w", "w", "w">> \o Assertion, b) IN
    IF ~SameLength(d[1], d[2], d[3]) \/ ~InPolicy(d[5]) THEN Reverts ELSE
    Accepts(\A i \in DOMAIN d[1] : d[1][i] # self, d, 8, X(Owner),
            keccak256(<<PermDomain(2), Pack(1, 21), Pack(32, MODE_BATCH)>> \o Sited(net, self)
                \o <<Pack(8, n), Pack(32, OpsHash(d[1], d[2], d[3])), Pack(8, d[4]), Pack(2, d[5]), Pack(32, d[6])>>),
            <<"batch", self, n, d[1], d[2], d[3], d[4], d[5], d[6]>>)
ExecuteBatchPermission(net, self, n, b) ==
    LET d == Decode(<<"w", "w[]", "w[]", "b[]", "w", "w", "w", "w", "w", "w">> \o Assertion, b) IN
    IF ~SameLength(d[2], d[3], d[4]) \/ ~InPolicy(d[7]) THEN Reverts ELSE
    Accepts(/\ d[6] = n
            /\ Recorded(net, self, d[1],
                        LAMBDA p : \A i \in DOMAIN d[2] : EnforceScope(p, d[2][i], d[3][i], d[4][i])),
            d, 11, SessionOf(d[1]),
            keccak256(<<PermDomain(2), Pack(1, 18), Pack(32, MODE_BATCH)>> \o Sited(net, self)
                \o <<Pack(32, d[1]), Pack(8, d[6]), Pack(32, OpsHash(d[2], d[3], d[4])), Pack(8, d[5]), Pack(2, d[7]),
                     Pack(32, d[8])>>),
            <<"session batch", self, d[1], d[6], d[2], d[3], d[4], d[5], d[7], d[8]>>)

ModuleCall(name, tag, net, self, n, a) ==
    LET d == Decode(<<"w", "w", "b", "w">> \o Assertion, a) IN
    Accepts(name = "install" => d[1] \in {Uint(1), Uint(2)} /\ d[2] \notin {Zero, self}, d, 5, X(Owner),
            keccak256(<<PermDomain(2), Pack(1, tag)>> \o Sited(net, self)
                \o <<Pack(32, d[1]), Pack(20, d[2]), Pack(32, keccak256(d[3])), Pack(8, n), Pack(8, d[4])>>),
            <<name, self, n, d[1], d[2], d[3], d[4]>>)

IsValidSignature(version, net, self, a) ==
    LET d == Decode(<<"w", "b">>, a)
        e == Decode(Assertion, d[2])
    IN Accepts(TRUE, e, 1, X(Owner),
               keccak256(<<RotationDomain(version), Pack(1, 22)>> \o Sited(net, self) \o <<Pack(32, d[1])>>),
               <<"valid", self, d[1]>>)

\* The entry points with a mode; only the batch account knows batches, and only an
\* installed executor may come in the name of a session.
Moded(version, net, self, n, c) ==
    LET m == Decode(<<"w", "b">>, c.args)
        batch == m[1] = MODE_BATCH /\ version = "batch"
        single == m[1] = MODE_SINGLE
        module == c.from = Address("executor")
        Fields(types) == Decode(types \o Assertion, m[2])
    IN
    CASE c.fn = "execute/mode" /\ single /\ version = "single" ->
             Execute7579(FALSE, net, self, n, Fields(<<"w", "w", "b", "w", "w", "w">>))
      [] c.fn = "executeV4/mode" /\ single ->
             Execute7579(TRUE, net, self, n, Fields(<<"w", "w", "b", "w", "w", "w", "w">>))
      [] c.fn = "executeV4/mode" /\ batch -> ExecuteBatchV4(net, self, n, m[2])
      [] c.fn = "executeFromExecutor" /\ single /\ module /\ version = "single" ->
             ExecutePermission(FALSE, net, self, n, Fields(PermTypes \o <<"w", "w">>))
      [] c.fn = "executeFromExecutorV2" /\ single /\ module ->
             ExecutePermission(TRUE, net, self, n, Fields(PermTypes \o <<"w", "w", "w">>))
      [] c.fn = "executeFromExecutorV2" /\ batch /\ module -> ExecuteBatchPermission(net, self, n, m[2])
      [] OTHER -> Reverts

\* What a call comes to on a chain, with the account's nonce (or the permission's
\* sequence number) at n.  Entry points of version 3, closed, and those of earlier
\* versions, gone, revert.
Outcome(net, n, c) ==
    LET version == c.to[4][2] IN
    IF c.to[1] # "create2"
    THEN IF c.fn = "deployAndInitV4" THEN DeployAndInitV4(net, c.to, c.from, c.args) ELSE Reverts
    ELSE CASE c.fn = "initializeV4" ->
                  InitializeV4(net, c.to, c.from, Decode([i \in 1..10 |-> "w"] \o Assertion, c.args))
           [] c.fn = "executeV4" -> ExecuteV4(net, c.to, n, c.args)
           [] c.fn = "updateAuthority" -> UpdateAuthority(version, net, c.to, n, c.args)
           [] c.fn = "grantPermission" -> GrantPermission(version, net, c.to, n, c.args)
           [] c.fn = "revokePermission" -> RevokePermission(net, c.to, n, c.args)
           [] c.fn = "executeWithPermission/12" /\ version = "single" ->
                  ExecutePermission(FALSE, net, c.to, n, Decode(PermTypes \o <<"w">> \o Assertion, c.args))
           [] c.fn = "executeWithPermission/13" ->
                  ExecutePermission(TRUE, net, c.to, n, Decode(PermTypes \o <<"w", "w">> \o Assertion, c.args))
           [] c.fn = "installModule" -> ModuleCall("install", 19, net, c.to, n, c.args)
           [] c.fn = "uninstallModule" -> ModuleCall("uninstall", 20, net, c.to, n, c.args)
           [] c.fn = "isValidSignature" -> IsValidSignature(version, net, c.to, c.args)
           [] OTHER -> Moded(version, net, c.to, n, c)

-----------------------------------------------------------------------------
(* Operations *)

SessionKinds == {"permV1", "permV2", "viaV1", "viaV2", "permBatch"}
PlainCall(kind, version) ==
    [kind |-> kind, version |-> version, pid |-> 1, key |-> 1, newKey |-> 3, chain |-> Uint(1), nonce |-> Uint(0),
     callee |-> Address("shop"), value |-> IF kind \in SessionKinds THEN Zero ELSE Uint(5),
     data |-> <<Bytes32("play"), Uint(7)>>, deadline |-> Uint(60), fee |-> Uint(1), policy |-> Uint(1), cap |-> Uint(3),
     session |-> 4, scopeKind |-> Uint(1), target |-> Address("shop"), selector |-> Bytes32("play"), token |-> Zero,
     payee |-> Zero, perTx |-> Zero, total |-> Zero, feeLimit |-> Uint(9), nft |-> Zero, after |-> Uint(1),
     until |-> Uint(90), salt |-> Bytes32("salt"), type |-> Uint(2), module |-> Address("executor"),
     hash |-> Bytes32("message"), targets |-> <<Address("shop"), Address("shop")>>,
     values |-> <<Zero, Zero>>, datas |-> <<<<Bytes32("play")>>, <<Bytes32("play")>>>>]

Altered(o, term) ==
    CASE term \in {"pid", "key"} -> [o EXCEPT ![term] = 2]
      [] term \in {"newKey", "session"} -> [o EXCEPT ![term] = 5]
      [] term \in {"nonce", "chain"} -> [o EXCEPT ![term] = IF term = "chain" THEN Uint(2) ELSE Uint(1)]
      [] term \in {"policy", "scopeKind"} -> [o EXCEPT ![term] = Uint(2)]
      [] term \in {"value", "deadline", "fee", "cap", "perTx", "feeLimit", "after", "until"} -> [o EXCEPT ![term] = Uint(80)]
      [] term \in {"callee", "target", "token", "module"} -> [o EXCEPT ![term] = Address("bank")]
      [] term = "data" -> [o EXCEPT !.data = <<Bytes32("pay")>>]
      [] term \in {"selector", "salt", "hash"} -> [o EXCEPT ![term] = Bytes32("transfer")]
      [] term = "type" -> [o EXCEPT !.type = Uint(1)]
      [] term = "targets" -> [o EXCEPT !.targets[2] = Address("bank")]
      [] term = "values" -> [o EXCEPT !.values[1] = Uint(80)]
      [] term = "datas" -> [o EXCEPT !.datas[2] = <<Bytes32("pay")>>]
      [] term = "fewer" -> [o EXCEPT !.targets = <<@[1]>>, !.values = <<@[1]>>, !.datas = <<@[1]>>]
      [] term = "uneven" -> [o EXCEPT !.targets = <<@[1]>>]

Anywhere == {"pid", "chain", "nonce", "deadline"}
TermsOf(kind) ==
    CASE kind \in Activations -> {"pid", "key", "chain", "deadline", "policy", "cap", "fee"}
      [] kind \in {"executeV1", "executeV2", "executeV3", "executeV4"} \cup {"exec7579", "exec7579V4"} ->
             Anywhere \cup {"callee", "value", "data", "policy", "cap", "fee"}
      [] kind \in {"rotateV2", "rotateV3"} -> Anywhere \cup {"newKey"}
      [] kind = "grant" ->
             Anywhere \cup {"session", "scopeKind", "target", "selector", "token", "perTx", "feeLimit", "after", "until", "salt"}
      [] kind = "revoke" -> Anywhere \cup {"salt"}
      [] kind \in {"permV1", "permV2", "viaV1", "viaV2"} ->
             Anywhere \cup {"callee", "value", "data", "policy", "cap", "fee", "session", "salt"}
      [] kind = "batch" -> Anywhere \cup {"targets", "values", "datas", "fewer", "uneven", "policy", "cap", "fee"}
      [] kind = "permBatch" -> Anywhere \cup {"targets", "values", "datas", "fewer", "uneven", "policy", "cap", "session", "salt"}
      [] kind \in {"install", "uninstall"} -> Anywhere \cup {"type", "module", "data"}
      [] kind = "sign1271" -> {"pid", "chain", "hash"}
EvmOperations ==
    UNION {{PlainCall(k, v)} \cup {Altered(PlainCall(k, v), t) : t \in TermsOf(k)} : k \in Callable, v \in {"single", "batch"}}

PayloadOf(o) ==
    CASE o.kind = "executeV1"  -> buildExecutePayload(o)
      [] o.kind = "executeV2"  -> evmExecutePayloadV2(o)
      [] o.kind = "executeV3"  -> evmExecutePayloadV3(o)
      [] o.kind = "executeV4"  -> buildExecuteV4Payload(o)
      [] o.kind = "rotateV2"   -> evmUpdateAuthorityPayloadV2(o)
      [] o.kind = "rotateV3"   -> evmUpdateAuthorityPayloadV3(o)
      [] o.kind = "activateV2" -> evmActivatePayloadV2(o)
      [] o.kind = "activateV3" -> evmActivatePayloadV3(o)
      [] o.kind = "activateV4" -> buildActivateV4Payload(o)
      [] o.kind = "grant"      -> buildGrantPayload(o)
      [] o.kind = "revoke"     -> buildRevokePayload(o)
      [] o.kind \in {"permV1", "viaV1"} -> buildPermExecPayloadV1(o)
      [] o.kind \in {"permV2", "viaV2"} -> buildPermExecPayload(o)
      [] o.kind = "exec7579"   -> buildExec7579Payload(o)
      [] o.kind = "exec7579V4" -> buildExec7579PayloadV4(o)
      [] o.kind = "batch"      -> buildBatchExecutePayloadV4(o)
      [] o.kind = "permBatch"  -> buildBatchPermissionPayload(o)
      [] o.kind \in {"install", "uninstall"} -> buildModulePayload(o)
      [] o.kind = "sign1271"   -> build1271Challenge(o)
SignerOf(o) ==
    X(CASE o.kind \in Activations -> o.key [] o.kind \in SessionKinds -> o.session [] OTHER -> Owner)

CallOf(o) ==
    CASE o.kind \in {"executeV1", "executeV2", "executeV4"} -> buildExecuteDataV4(o)
      [] o.kind = "executeV3"  -> buildExecuteDataV3(o)
      [] o.kind \in {"rotateV2", "rotateV3"} -> UpdateAuthorityData(o)
      [] o.kind = "activateV2" -> buildDeployAndInitDataV2(o)
      [] o.kind = "activateV3" -> buildDeployAndInitDataV3(o)
      [] o.kind = "activateV4" -> buildDeployAndInitDataV4(o)
      [] o.kind = "grant"      -> buildGrantPermissionData(o)
      [] o.kind = "revoke"     -> buildRevokePermissionData(o)
      [] o.kind = "permV1"     -> buildExecuteWithPermissionData(o)
      [] o.kind = "permV2"     -> buildExecuteWithPermissionDataV2(o)
      [] o.kind = "viaV1"      -> buildExecuteFromExecutorData(o)
      [] o.kind = "viaV2"      -> buildExecuteFromExecutorDataV2(o)
      [] o.kind = "exec7579"   -> build7579ExecuteData(o)
      [] o.kind = "exec7579V4" -> build7579ExecuteDataV4(o)
      [] o.kind = "batch"      -> buildBatchExecuteDataV4(o)
      [] o.kind = "permBatch"  -> buildBatchExecuteFromExecutorDataV2(o)
      [] o.kind \in {"install", "uninstall"} -> buildInstallModuleData(o)
      [] o.kind = "sign1271"   -> build1271Calldata(o)

\* What anybody can send next to an assertion: a call for any operation, built by
\* the packages or by other software, to any account, from an executor or not, at
\* another entry point, or the initialisation of a clone by a foreign factory.
Foreign == <<"factory", "foreign">>
Initialisation(o, from, f) ==
    [to |-> getCreate2Address(Foreign, pidKeyToSalt32(o.pid, o.key), Implementation(o.version)), from |-> from,
     fn |-> "initializeV4",
     args |-> abiEncodeSequence(Scalars(<<pidKeyToSalt32(o.pid, o.key), X(o.key), Y(o.key), pidToPidHash(o.pid), o.policy,
                                          o.cap, o.deadline, o.fee, f, Foreign>>) \o Signature)]
ModeEntries == {"execute/mode", "executeV4/mode", "executeFromExecutor", "executeFromExecutorV2"}
Fields7579(o) ==
    CASE o.kind = "exec7579" -> exec7579Fields(o)
      [] o.kind = "exec7579V4" -> exec7579FieldsV4(o)
      [] o.kind = "viaV1" -> permExecFields(o)
      [] o.kind = "viaV2" -> permExecFieldsV2(o)
Sendable(o) ==
    {CallOf(o)} \cup (IF o.kind \in {"exec7579", "exec7579V4", "viaV1", "viaV2"}
                      THEN {Wrapped(o, CallOf(o), Fields7579(o))} ELSE {})
Variants(c) ==
    {[c EXCEPT !.to = IF @[1] = "create2" THEN deriveEvmSmartAccountAddressBound(p, p, v) ELSE Factory(v)] :
         p \in 1..2, v \in {"single", "batch"}}
      \cup {[c EXCEPT !.from = a] : a \in {Address("relayer"), Address("executor")}}
      \cup (IF c.fn \in ModeEntries THEN {[c EXCEPT !.fn = e] : e \in ModeEntries} ELSE {})
Sent ==
    UNION {UNION {Variants(c) : c \in Sendable(o) \ {NotBuilt}} : o \in EvmOperations}
      \cup {Initialisation(o, from, f) : o \in {o \in EvmOperations : o.kind \in Activations},
                                         from \in {Foreign, Address("relayer")}, f \in {Foreign, Factory("single")}}
Outcomes == {x \in {<<net, n, Outcome(net, Uint(n), c)>> : net \in Chains, n \in 0..1, c \in Sent} : x[3].ok}

\* _verifyWithKey
Endorsed(o, r) == r.who = SignerOf(o) /\ r.payload = PayloadOf(o)
Possible ==
    UNION {LET who == SignerOf(o)
               payload == PayloadOf(o)
           IN {<<o, x>> : x \in {x \in Outcomes : x[3].payload = payload /\ x[3].who = who}} : o \in EvmOperations}

-----------------------------------------------------------------------------
(* Actions *)

InSession(what) == what[1] \in {"session", "session batch"}
\* Accounts must be there (or not yet), permissions granted (or not yet).
Ready(net, what) ==
    /\ <<net, what[2]>> \in hosted <=> what[1] # "activate"
    /\ InSession(what) => <<net, what[2], what[3]>> \in permits
    /\ what[1] = "revoke" => <<net, what[2], what[4]>> \in permits
    /\ what[1] = "grant" => <<net, what[2], what[4]>> \notin permits
Take(net, what) ==
    /\ took' = took \cup {<<net, what>>}
    /\ hosted' = IF what[1] = "activate" THEN hosted \cup {<<net, what[2]>>} ELSE hosted
    /\ permits' = CASE what[1] = "grant"  -> permits \cup {<<net, what[2], what[4]>>}
                  [] what[1] = "revoke" -> permits \ {<<net, what[2], what[4]>>}
                  [] OTHER -> permits
    /\ order' = IF what[1] \in {"activate", "valid"} THEN order ELSE order + 1

signEvm(o) ==
    /\ agreed = {}
    /\ agreed' = {o}
    /\ UNCHANGED <<hosted, order, permits, took, undone>>

\* What the packages built is sent while account and permission are as expected.
relayEvm(o) ==
    LET r == Outcome(o.chain, o.nonce, CallOf(o)) IN
    /\ o \in agreed
    /\ CallOf(o) # NotBuilt
    /\ o.nonce = Uint(order) \/ o.kind \in Activations \cup {"sign1271"}
    /\ <<o.chain, AccountOf(o)>> \in hosted <=> o.kind \notin Activations
    /\ o.kind \in SessionKinds \cup {"revoke"} => <<o.chain, AccountOf(o), buildPermissionId(o)>> \in permits
    /\ o.kind = "grant" => <<o.chain, AccountOf(o), buildPermissionId(o)>> \notin permits
    /\ \/ r.ok /\ Endorsed(o, r) /\ Ready(o.chain, r.what) /\ Take(o.chain, r.what) /\ UNCHANGED undone
       \/ /\ ~(r.ok /\ Endorsed(o, r) /\ Ready(o.chain, r.what))
          /\ undone' = undone \cup {o} /\ UNCHANGED <<hosted, order, permits, took>>
    /\ UNCHANGED agreed

\* Somebody sends a call that was not made for the assertion next to it.
sendEvm(x) ==
    LET net == x[2][1]
        r == x[2][3]
    IN
    /\ x[1] \in agreed
    /\ x[2][2] = order
    /\ Ready(net, r.what)
    /\ Take(net, r.what)
    /\ UNCHANGED <<agreed, undone>>

AllHosted ==
    {<<net, deriveEvmSmartAccountAddressBound(p, p, v)>> : net \in Chains, p \in 1..2, v \in {"single", "batch"}}
AllGiven ==
    {<<o.chain, AccountOf(o), buildPermissionId(o)>> : o \in {o \in EvmOperations : o.kind \in SessionKinds \cup {"revoke"}}}
EvmWireInit ==
    /\ \/ hosted = {} /\ permits = {} /\ order = 0
       \/ hosted = AllHosted /\ permits \in {{}, AllGiven} /\ order \in 0..1
    /\ agreed = {} /\ took = {} /\ undone = {}
EvmWireNext ==
    \/ \E o \in EvmOperations : signEvm(o)
    \/ \E o \in agreed : relayEvm(o)
    \/ \E x \in Possible : sendEvm(x)
EvmWireSpec == EvmWireInit /\ [][EvmWireNext]_evmWireVars

-----------------------------------------------------------------------------
(* Properties *)

\* What an operation asks for, in the contract's terms.
Asked(o) ==
    LET a == AccountOf(o)
        id == buildPermissionId(o)
    IN
    CASE o.kind = "activateV4" -> <<"activate", a, X(o.key), Y(o.key), o.policy, o.cap, o.deadline>>
      [] o.kind = "executeV4" -> <<"execute", a, o.nonce, o.callee, o.value, o.data, o.deadline, o.policy, o.cap>>
      [] o.kind = "rotateV3" -> <<"rotate", a, o.nonce, X(o.newKey), Y(o.newKey), o.deadline>>
      [] o.kind = "grant" -> <<"grant", a, o.nonce, id, o.feeLimit, o.after, o.deadline>>
      [] o.kind = "revoke" -> <<"revoke", a, o.nonce, id, o.deadline>>
      [] o.kind \in {"permV1", "viaV1"} -> <<"session", a, id, o.nonce, o.callee, o.value, o.data, o.deadline, o.policy>>
      [] o.kind \in {"permV2", "viaV2"} ->
             <<"session", a, id, o.nonce, o.callee, o.value, o.data, o.deadline, o.policy, o.cap>>
      [] o.kind = "exec7579" -> <<"execute7579", a, o.nonce, o.callee, o.value, o.data, o.deadline, o.policy>>
      [] o.kind = "exec7579V4" -> <<"execute7579", a, o.nonce, o.callee, o.value, o.data, o.deadline, o.policy, o.cap>>
      [] o.kind = "batch" -> <<"batch", a, o.nonce, o.targets, o.values, o.datas, o.deadline, o.policy, o.cap>>
      [] o.kind = "permBatch" ->
             <<"session batch", a, id, o.nonce, o.targets, o.values, o.datas, o.deadline, o.policy, o.cap>>
      [] o.kind \in {"install", "uninstall"} -> <<o.kind, a, o.nonce, o.type, o.module, o.data, o.deadline>>
      [] o.kind = "sign1271" -> <<"valid", a, o.hash>>
      [] OTHER -> <<"nothing">>

\* Nobody gets more out of an assertion than was signed: whatever call it is sent
\* with, at whatever entry point, the contracts do what the operation says, on its
\* chain and account, with its nonce.
TookWasAgreed == \A x \in took : \E o \in agreed : x = <<o.chain, Asked(o)>>

\* Packed fields are not separated: payloads of one domain, tag and length are laid
\* out alike, so that no two operations share a preimage.
Shape(o) == [i \in DOMAIN PayloadOf(o)[2] |-> PayloadOf(o)[2][i][1]]
Shapes == {<<PayloadOf(o)[2][1], PayloadOf(o)[2][2], Shape(o)>> : o \in EvmOperations}
Unambiguous ==
    \A s, u \in Shapes :
        s[1] = u[1] /\ s[2] = u[2] /\ Total(s[3], Len(s[3])) = Total(u[3], Len(u[3])) => s = u

\* What the packages build is executed.  Not so, and left out: the single calls with
\* a mode, whose fields are not wrapped, and on the batch account the rotation and
\* the message, which the packages sign for version 3 and it takes as version 4.
Permitted(o) ==
    /\ o.scopeKind = Uint(1) /\ {o.token, o.payee, o.perTx, o.total, o.nft} = {Zero}
    /\ o.selector \notin DeniedSelectors
InScopeOf(o) ==
    IF o.kind = "permBatch" THEN \A i \in DOMAIN o.targets : /\ o.targets[i] = o.target /\ o.values[i] = Zero
                                                            /\ o.datas[i][1] = o.selector
    ELSE o.callee = o.target /\ o.value = Zero /\ o.data[1] = o.selector
Buildable(o) ==
    \/ o.kind \in {"activateV4", "executeV4", "revoke", "install", "uninstall"}
    \/ o.kind = "grant" /\ Permitted(o)
    \/ o.kind = "permV2" /\ InScopeOf(o)
    \/ o.version = "batch" /\ (o.kind = "batch" \/ (o.kind = "permBatch" /\ InScopeOf(o))) /\ Len(o.targets) = Len(o.values)
    \/ o.version = "single" /\ (o.kind \in {"rotateV3", "sign1271"} \/ (o.kind = "permV1" /\ InScopeOf(o) /\ o.policy = Uint(1)))
BuiltIsTaken == \A o \in undone : ~Buildable(o)
=============================================================================
