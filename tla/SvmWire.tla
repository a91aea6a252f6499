------------------------------ MODULE SvmWire ------------------------------
(***************************************************************************)
(* What a passkey signs for the Solana program, how the client packages    *)
(* put it into a transaction (core/hash.ts, solana/instructions.ts,        *)
(* solana/adapter.ts) and how the program reads it back.  Both sides lay   *)
(* the same fields out by hand: the client in builders, the program by     *)
(* offsets.  The relayer, or anybody, may submit any instruction next to   *)
(* an assertion it has seen.                                               *)
(*                                                                         *)
(* Bytes are cells <<width, value>>; SHA-256 is taken as injective, so a   *)
(* hash is what was hashed.  clientDataJSON is known by its challenge.     *)
(* Nonces, lifecycle, funds and clock, which may refuse as well, are       *)
(* SvmAccount's.                                                           *)
(***************************************************************************)
EXTENDS Integers, Sequences, FiniteSets, SequencesExt, Functions

CONSTANTS
    Wired,       \* kinds of operations that are signed
    Clusters,    \* clusters the program is deployed to, under one address
    MaxSigned    \* assertions a user makes

VARIABLES
    live,        \* PIDs whose vault exists
    signed,      \* operations the user's passkey has signed
    executed,        \* what the program has executed: [act, cluster]
    dropped      \* operations the adapter could not get executed as asked

wireVars == <<live, signed, executed, dropped>>

-----------------------------------------------------------------------------
(* Cells, addresses and reads *)

U8(v)   == <<1, v>>
U2(v)   == <<2, v>>
U64(v)  == <<8, v>>
B32(v)  == <<32, v>>
B33(v)  == <<33, v>>

Before(cells, i) ==
    LET upTo[j \in 0..Len(cells)] == IF j = 0 THEN 0 ELSE upTo[j - 1] + cells[j][1] IN upTo[i - 1]
Width(cells) == Before(cells, Len(cells) + 1)

\* read_u64_at, read_array, read_bytes: the bytes at an offset.  A read that
\* does not meet one field exactly yields bytes nobody meant.
At(d, off, w) ==
    LET I == {i \in DOMAIN d : Before(d, i) = off /\ d[i][1] = w} IN
    IF I = {} THEN (IF w > 8 THEN <<"garbled">> ELSE -1) ELSE d[CHOOSE i \in I : TRUE][2]
Region(d, from, to) ==
    LET inside == SelectSeq([i \in DOMAIN d |-> i],
                            LAMBDA i : Before(d, i) >= from /\ Before(d, i) + d[i][1] <= to) IN
    [j \in DOMAIN inside |-> d[inside[j]]]

Key(name)          == <<"key", name>>
Id(p)              == <<"pid", p>>
Auth(k)            == <<"authority", k>>
Program            == <<"program", "peridot">>
Vault(p, k, prog)  == <<"account", p, k, prog>>
Ticket(p, k, prog) == <<"close", p, k, prog>>
Tomb(p, prog)      == <<"tombstone", p, prog>>
Session(p, k, s, prog) == <<"session", p, k, s, prog>>
ProgramData(game)  == <<"programdata", game>>
Treasury(prog)     == <<"treasury", prog>>
Ata(mint, owner)   == <<"ata", mint, owner>>
System == Key("system")
Sysvar == Key("instructions")
Relayer == Key("relayer")

\* The vault of PID 2 was claimed with passkey 2 and rotated to passkey 1,
\* which so holds both.
Claim(o) == IF o.pid = 1 THEN o.key ELSE 2
VaultOf(o) == Vault(o.pid, Claim(o), o.program)
Vaults == {Vault(1, 1, Program), Vault(2, 2, Program)}

-----------------------------------------------------------------------------
(* Payloads: what the passkey signs *)

Domain(v) == <<27, <<"SMART_ACCOUNT", v>>>>
SessionDomain == <<21, <<"SESSION", 1>>>>

buildAuthorizationPayload(parts)        == <<Domain(1)>> \o parts
buildAuthorizationPayloadV2(tag, parts) == <<Domain(2), U8(tag)>> \o parts
buildAuthorizationPayloadV3(tag, parts) == <<Domain(3), U8(tag)>> \o parts
buildAuthorizationPayloadV4(tag, parts) == <<Domain(4), U8(tag)>> \o parts
buildAuthorizationPayloadV5(tag, prog, cluster, parts) ==
    <<Domain(5), U8(tag), B32(prog), B32(cluster)>> \o parts
buildSessionPayload(tag, parts) == <<SessionDomain, U8(tag)>> \o parts

Hash(cells) == B32(<<"hash", cells>>)
SpendTerms(o)  == <<U64(o.nonce), U64(o.amount), B32(o.dest), U64(o.expiry)>>
Source(o) == Ata(o.mint, VaultOf(o))

serializeExecuteCall(o) ==
    <<B32(o.target), U8(Len(o.metas))>>
      \o FlattenSeq([i \in DOMAIN o.metas |-> <<B32(o.metas[i].addr), U8(o.metas[i].flags)>>])
      \o <<U2(3), <<3, o.input>>>>

buildWithdrawPayload(o)      == buildAuthorizationPayload(SpendTerms(o) \o <<U64(o.fee), B32(Treasury(o.program))>>)
buildWithdrawTokenPayload(o) ==
    buildAuthorizationPayload(SpendTerms(o) \o <<U64(o.fee), B32(Treasury(o.program)), B32(Source(o))>>)
buildInitializePayload(o)    == buildAuthorizationPayload(<<B32(Id(o.pid)), B33(Auth(o.key))>>)
buildActivatePayload(o) ==
    buildAuthorizationPayload(<<B32(Id(o.pid)), B33(Auth(o.key)), U64(o.fee), U64(o.expiry), B32(Treasury(o.program))>>)

buildWithdrawPayloadV2(o) ==
    buildAuthorizationPayloadV2(1, <<B32(Id(o.pid))>> \o SpendTerms(o) \o <<U64(o.cap), U2(o.policy)>>)
buildWithdrawTokenPayloadV2(o) ==
    buildAuthorizationPayloadV2(2, <<B32(Id(o.pid))>> \o SpendTerms(o) \o <<U64(o.cap), U2(o.policy), B32(Source(o))>>)
buildInitializePayloadV2(o) == buildAuthorizationPayloadV2(0, <<B32(Id(o.pid)), B33(Auth(o.key))>>)
buildActivatePayloadV2(o) ==
    buildAuthorizationPayloadV2(5, <<B32(Id(o.pid)), B33(Auth(o.key)), U64(o.cap), U2(o.policy), U64(o.expiry)>>)
buildUpdateAuthorityPayloadV2(o) ==
    buildAuthorizationPayloadV2(3, <<B32(Id(o.pid)), U64(o.nonce), B33(Auth(o.newKey)), U64(o.expiry)>>)
buildClosePayloadV2(o) ==
    buildAuthorizationPayloadV2(4, <<B32(Id(o.pid)), U64(o.nonce), B32(o.dest), U64(o.expiry)>>)

buildWithdrawPayloadV3(o) == buildAuthorizationPayloadV3(1, <<B32(Id(o.pid))>> \o SpendTerms(o) \o <<U2(o.policy)>>)
buildWithdrawTokenPayloadV3(o) ==
    buildAuthorizationPayloadV3(2, <<B32(Id(o.pid))>> \o SpendTerms(o) \o <<U2(o.policy), B32(Source(o))>>)
buildInitializePayloadV3(o) == buildAuthorizationPayloadV3(0, <<B32(Id(o.pid)), B33(Auth(o.key))>>)
buildActivatePayloadV3(o) ==
    buildAuthorizationPayloadV3(5, <<B32(Id(o.pid)), B33(Auth(o.key)), U2(o.policy), U64(o.expiry)>>)
buildUpdateAuthorityPayloadV3(o) ==
    buildAuthorizationPayloadV3(3, <<B32(Id(o.pid)), U64(o.nonce), B33(Auth(o.newKey)), U64(o.expiry)>>)
buildClosePayloadV3(o) ==
    buildAuthorizationPayloadV3(4, <<B32(Id(o.pid)), U64(o.nonce), B32(o.dest), U64(o.expiry)>>)
buildCloseRequestPayload(o) ==
    buildAuthorizationPayloadV3(33, <<B32(Id(o.pid)), U64(o.nonce), B32(o.dest), U64(o.expiry)>>)
buildCloseCancelPayload(o) ==
    buildAuthorizationPayloadV3(34, <<B32(Id(o.pid)), U64(o.nonce), U64(o.expiry)>>)
buildExecutePayloadV3(o) ==
    buildAuthorizationPayloadV3(6, <<B32(Id(o.pid)), U64(o.nonce), U64(o.expiry), U2(o.policy),
                                     Hash(serializeExecuteCall(o))>>)

buildWithdrawSolPayloadV4(o) ==
    buildAuthorizationPayloadV4(11, <<B32(Id(o.pid))>> \o SpendTerms(o) \o <<U2(o.policy), U64(o.cap)>>)
buildWithdrawTokenPayloadV4(o) ==
    buildAuthorizationPayloadV4(12, <<B32(Id(o.pid))>> \o SpendTerms(o) \o <<U2(o.policy), U64(o.cap), B32(Source(o))>>)
buildExecutePayloadV4(o) ==
    buildAuthorizationPayloadV4(13, <<B32(Id(o.pid)), U64(o.nonce), U64(o.expiry), U2(o.policy), U64(o.cap),
                                      Hash(serializeExecuteCall(o))>>)
buildActivatePayloadV4(o) ==
    buildAuthorizationPayloadV4(14, <<B32(Id(o.pid)), B33(Auth(o.key)), U2(o.policy), U64(o.cap), U64(o.expiry)>>)

buildUpdateAuthorityPayloadV5(o) ==
    buildAuthorizationPayloadV5(20, o.program, o.cluster,
        <<B32(Id(o.pid)), U64(o.nonce), B33(Auth(o.newKey)), U64(o.expiry)>>)
buildExecutePayloadV5(o) ==
    buildAuthorizationPayloadV5(21, o.program, o.cluster,
        <<B32(Id(o.pid)), U64(o.nonce), U64(o.expiry), U2(o.policy), Hash(serializeExecuteCall(o))>>)

buildRegisterSessionPayload(o) ==
    buildSessionPayload(7, <<B32(Id(o.pid)), U64(o.nonce), B32(o.session), B32(o.game), U64(o.until),
                             U8(o.has), B32(o.upgrader), U64(o.slot), U64(o.expiry)>>)
buildRevokeSessionPayload(o) ==
    buildSessionPayload(9, <<B32(Id(o.pid)), B32(o.session), U64(o.nonce), U64(o.expiry)>>)
buildCloseSessionPayload(o) ==
    buildSessionPayload(10, <<B32(Id(o.pid)), B32(o.session), B32(o.dest), U64(o.nonce), U64(o.expiry)>>)

-----------------------------------------------------------------------------
(* Instructions: keys, which of them sign, and data *)

Json == <<U2(99), <<99, <<"clientDataJSON">>>>>>
Ix(programId, disc, signers, keys, fields) ==
    [program |-> programId, keys |-> keys, signers |-> signers, data |-> <<U8(disc)>> \o fields]

SpendKeys(o) == <<VaultOf(o), o.dest, Treasury(o.program), Relayer, Sysvar>>
TokenKeys(o) == <<VaultOf(o), Source(o), o.mint, o.dest, Key("token"), Sysvar, Treasury(o.program), Relayer>>
ClaimKeys(o) == <<Relayer, VaultOf(o), Treasury(o.program), System, Sysvar>>

\* assertCanonicalTreasury: a builder given another treasury throws.
Thrown == Ix(<<"thrown">>, 0, {}, <<>>, <<>>)
Canonical(treasury, programId, ix) == IF treasury = Treasury(programId) THEN ix ELSE Thrown

\* Every meta becomes an account of the instruction, the vault's too.
CallKeys(o) ==
    <<VaultOf(o), Relayer, Treasury(o.program), o.target, Sysvar>>
      \o [i \in DOMAIN o.metas |-> o.metas[i].addr]

buildInitializeInstruction(o) ==
    Ix(o.program, 0, {Relayer}, <<Relayer, VaultOf(o), System, Sysvar>>, <<B32(Id(o.pid)), B33(Auth(o.key))>> \o Json)
buildInitializeInstructionV2(o) == buildInitializeInstruction(o)
buildActivateInstruction(o) ==
    Ix(o.program, 5, {Relayer}, ClaimKeys(o), <<B32(Id(o.pid)), B33(Auth(o.key)), U64(o.fee), U64(o.expiry)>> \o Json)
buildActivateInstructionV2(o, programId, tombstone) ==
    Canonical(Treasury(o.program), programId,
        Ix(programId, 5, {Relayer}, ClaimKeys(o) \o <<tombstone>>,
           <<B32(Id(o.pid)), B33(Auth(o.key)), U64(o.cap), U2(o.policy), U64(o.expiry), U64(o.fee)>> \o Json))
buildActivateInstructionV3(o, programId, tombstone) ==
    Canonical(Treasury(o.program), programId,
        Ix(programId, 5, {Relayer}, ClaimKeys(o) \o <<tombstone>>,
           <<B32(Id(o.pid)), B33(Auth(o.key)), U2(o.policy), U64(o.expiry), U64(o.fee)>> \o Json))
buildActivateInstructionV4(o, programId, tombstone) ==
    Canonical(Treasury(o.program), programId,
        Ix(programId, 14, {Relayer}, ClaimKeys(o) \o <<tombstone>>,
           <<B32(Id(o.pid)), B33(Auth(o.key)), U2(o.policy), U64(o.expiry), U64(o.fee), U64(o.cap)>> \o Json))
buildWithdrawSolInstruction(o) == Ix(o.program, 1, {Relayer}, SpendKeys(o), SpendTerms(o) \o <<U64(o.fee)>> \o Json)
buildWithdrawSolInstructionV2(o) ==
    Ix(o.program, 1, {Relayer}, SpendKeys(o), SpendTerms(o) \o <<U64(o.cap), U2(o.policy), U64(o.fee)>> \o Json)
buildWithdrawSolInstructionV3(o) ==
    Ix(o.program, 1, {Relayer}, SpendKeys(o), SpendTerms(o) \o <<U2(o.policy), U64(o.fee)>> \o Json)
buildWithdrawSolInstructionV4(o) ==
    Ix(o.program, 11, {Relayer}, SpendKeys(o), SpendTerms(o) \o <<U2(o.policy), U64(o.fee), U64(o.cap)>> \o Json)
buildWithdrawTokenInstruction(o) == Ix(o.program, 2, {Relayer}, TokenKeys(o), SpendTerms(o) \o <<U64(o.fee)>> \o Json)
buildWithdrawTokenInstructionV2(o) ==
    Ix(o.program, 2, {Relayer}, TokenKeys(o), SpendTerms(o) \o <<U64(o.cap), U2(o.policy), U64(o.fee)>> \o Json)
buildWithdrawTokenInstructionV3(o) ==
    Ix(o.program, 2, {Relayer}, TokenKeys(o), SpendTerms(o) \o <<U2(o.policy), U64(o.fee)>> \o Json)
buildWithdrawTokenInstructionV4(o) ==
    Ix(o.program, 12, {Relayer}, TokenKeys(o), SpendTerms(o) \o <<U2(o.policy), U64(o.fee), U64(o.cap)>> \o Json)
buildExecuteInstructionV3(o) ==
    Ix(o.program, 6, {Relayer}, CallKeys(o),
       <<U64(o.nonce)>> \o serializeExecuteCall(o) \o <<U64(o.expiry), U2(o.policy), U64(o.fee)>> \o Json)
buildExecuteInstructionV4(o) ==
    Ix(o.program, 13, {Relayer}, CallKeys(o),
       <<U64(o.nonce)>> \o serializeExecuteCall(o) \o <<U64(o.expiry), U2(o.policy), U64(o.fee), U64(o.cap)>> \o Json)
buildExecuteInstructionV5(o) ==
    Ix(o.program, 21, {Relayer}, CallKeys(o),
       <<U64(o.nonce)>> \o serializeExecuteCall(o) \o <<U64(o.expiry), U2(o.policy), U64(o.fee)>> \o Json)
buildUpdateAuthorityInstruction(o) ==
    Ix(o.program, 3, {}, <<VaultOf(o), Sysvar>>, <<U64(o.nonce), B33(Auth(o.newKey)), U64(o.expiry)>> \o Json)
buildUpdateAuthorityInstructionV5(o) ==
    Ix(o.program, 20, {}, <<VaultOf(o), Sysvar>>, <<U64(o.nonce), B33(Auth(o.newKey)), U64(o.expiry)>> \o Json)
buildCloseInstruction(o) ==
    Ix(o.program, 4, {}, <<VaultOf(o), o.dest, Sysvar>>, <<U64(o.nonce), U64(o.expiry)>> \o Json)
buildCloseRequestInstruction(o) ==
    Ix(o.program, 33, {Relayer}, <<Relayer, VaultOf(o), Ticket(o.pid, Claim(o), o.program), System, Sysvar>>,
       <<U64(o.nonce), B32(o.dest), U64(o.expiry)>> \o Json)
buildCloseCancelInstruction(o) ==
    Ix(o.program, 34, {}, <<VaultOf(o), Ticket(o.pid, Claim(o), o.program), Sysvar>>,
       <<U64(o.nonce), U64(o.expiry)>> \o Json)
buildRegisterSessionInstruction(o) ==
    Ix(o.program, 7, {Relayer},
       <<VaultOf(o), Session(o.pid, Claim(o), o.session, o.program), Sysvar, ProgramData(o.game), o.game, Relayer, System>>,
       <<U64(o.nonce), B32(o.session), B32(o.game), U64(o.until), U8(o.has), B32(o.upgrader), U64(o.slot),
         U64(o.expiry)>> \o Json)
buildRevokeSessionInstruction(o) ==
    Ix(o.program, 9, {}, <<VaultOf(o), Session(o.pid, Claim(o), o.session, o.program), Sysvar>>,
       <<U64(o.nonce), B32(o.session), U64(o.expiry)>> \o Json)
buildCloseSessionInstruction(o) ==
    Ix(o.program, 10, {}, <<VaultOf(o), Session(o.pid, Claim(o), o.session, o.program), o.dest, Sysvar>>,
       <<U64(o.nonce), B32(o.session), U64(o.expiry)>> \o Json)

-----------------------------------------------------------------------------
(* The program: what it takes an instruction for *)

\* The accounts fit, the assertion's JSON stands where it is read, the payload
\* fits the 256 bytes of hash_with_domain; `who` must have signed `payload`.
Taken(fits, d, jsonAt, vault, who, payload, act) ==
    [ok |-> fits /\ At(d, jsonAt, 2) = 99 /\ At(d, jsonAt + 2, 99) = <<"clientDataJSON">> /\ Width(payload) <= 256,
     vault |-> vault, who |-> who, payload |-> payload, act |-> act]
Refused == [ok |-> FALSE, vault |-> <<"none">>, who |-> 0, payload |-> <<>>, act |-> <<>>]

AccountId(v) == B32(Id(v[2]))
Holder == 1

\* The account that receives is the one the data, and so the payload, names.
Unaddressed(given, read) == TRUE
Addressed(given, read) == given = read

wire_withdraw_sol_v4(k, signers, d) ==
    LET terms == <<At(d, 0, 8), At(d, 8, 8), At(d, 16, 32), At(d, 48, 8), At(d, 56, 2), At(d, 66, 8)>> IN
    IF Len(k) < 5 \/ k[1] \notin Vaults THEN Refused ELSE
    Taken(k[4] \in signers /\ k[2] # k[1] /\ k[3] = Treasury(Program) /\ Addressed(k[2], terms[3]),
          d, 74, k[1], Holder,
          <<Domain(4), U8(11), AccountId(k[1]), U64(terms[1]), U64(terms[2]), B32(terms[3]), U64(terms[4]),
            U2(terms[5]), U64(terms[6])>>,
          <<11, k[1], k[2]>> \o terms)

wire_withdraw_token_v4(k, signers, d) ==
    LET terms == <<At(d, 0, 8), At(d, 8, 8), At(d, 16, 32), At(d, 48, 8), At(d, 56, 2), At(d, 66, 8)>> IN
    IF Len(k) < 8 \/ k[1] \notin Vaults THEN Refused ELSE
    Taken(k[8] \in signers /\ k[7] = Treasury(Program) /\ Addressed(k[4], terms[3])
            /\ k[2] = Ata(k[3], k[1]) /\ k[4][1] = "ata" /\ k[4][2] = k[3],
          d, 74, k[1], Holder,
          <<Domain(4), U8(12), AccountId(k[1]), U64(terms[1]), U64(terms[2]), B32(terms[3]), U64(terms[4]),
            U2(terms[5]), U64(terms[6]), B32(k[2])>>,
          <<12, k[1], k[2], k[3], k[4]>> \o terms)

wire_activate_v4(k, signers, d) ==
    LET id == At(d, 0, 32)  key == At(d, 32, 33)
        terms == <<At(d, 65, 2), At(d, 83, 8), At(d, 67, 8)>> IN
    IF Len(k) < 6 \/ Len(id) < 2 \/ Len(key) < 2 THEN Refused ELSE
    Taken(k[1] \in signers /\ k[3] = Treasury(Program) /\ k[2] = Vault(id[2], key[2], Program)
            /\ k[6] = Tomb(id[2], Program),
          d, 91, k[2], key[2],
          <<Domain(4), U8(14), B32(id), B33(key), U2(terms[1]), U64(terms[2]), U64(terms[3])>>,
          <<14, k[2]>> \o terms)

\* The metas of a call and where they end, and the accounts that must follow
\* the first five: one for each meta that is not the vault.
CallMetas(d) == [i \in 1..At(d, 40, 1) |-> [addr |-> At(d, 41 + 33 * (i - 1), 32), flags |-> At(d, 73 + 33 * (i - 1), 1)]]
CallEnd(d) == 43 + 33 * At(d, 40, 1) + At(d, 41 + 33 * At(d, 40, 1), 2)
Passed(k, metas) ==
    SubSeq(k, 6, Len(k)) = LET others == SelectSeq(metas, LAMBDA m : m.addr # k[1])
                           IN [i \in DOMAIN others |-> others[i].addr]

\* execute_v4, execute_v5: `capped` terms have max_total_fee after the fee.
wire_execute(disc, capped, head, k, signers, d) ==
    IF Len(k) < 5 \/ k[1] \notin Vaults THEN Refused ELSE
    LET metas == CallMetas(d)  e == CallEnd(d)
        terms == <<At(d, 0, 8), At(d, e, 8), At(d, e + 8, 2)>> \o (IF capped THEN <<At(d, e + 18, 8)>> ELSE <<>>) IN
    Taken(k[2] \in signers /\ k[3] = Treasury(Program) /\ k[4] = At(d, 8, 32) /\ k[4] # Program
            /\ (\E i \in DOMAIN metas : metas[i].addr = k[1] /\ metas[i].flags >= 2)
            /\ Passed(k, metas),
          d, e + (IF capped THEN 26 ELSE 18), k[1], Holder,
          head \o <<AccountId(k[1]), U64(terms[1]), U64(terms[2]), U2(terms[3])>>
            \o (IF capped THEN <<U64(terms[4])>> ELSE <<>>) \o <<Hash(Region(d, 8, e))>>,
          <<disc, k[1], At(d, 8, 32), metas, At(d, e - 3, 3)>> \o terms)
wire_execute_v4(k, signers, d) == wire_execute(13, TRUE, <<Domain(4), U8(13)>>, k, signers, d)
wire_execute_v5(cluster, k, signers, d) ==
    wire_execute(21, FALSE, <<Domain(5), U8(21), B32(Program), B32(cluster)>>, k, signers, d)

wire_update_authority(disc, head, k, d) ==
    LET terms == <<At(d, 0, 8), At(d, 8, 33), At(d, 41, 8)>> IN
    IF Len(k) < 2 \/ k[1] \notin Vaults THEN Refused ELSE
    Taken(TRUE, d, 49, k[1], Holder,
          head \o <<AccountId(k[1]), U64(terms[1]), B33(terms[2]), U64(terms[3])>>, <<disc, k[1]>> \o terms)
wire_update_authority_v3(k, d) == wire_update_authority(3, <<Domain(3), U8(3)>>, k, d)
wire_update_authority_v5(cluster, k, d) ==
    wire_update_authority(20, <<Domain(5), U8(20), B32(Program), B32(cluster)>>, k, d)

wire_close_request(k, signers, d) ==
    LET terms == <<At(d, 0, 8), At(d, 8, 32), At(d, 40, 8)>> IN
    IF Len(k) < 5 \/ k[2] \notin Vaults THEN Refused ELSE
    Taken(k[1] \in signers /\ k[3] = Ticket(k[2][2], k[2][3], Program) /\ terms[2] \notin {k[2], k[3]},
          d, 48, k[2], Holder,
          <<Domain(3), U8(33), AccountId(k[2]), U64(terms[1]), B32(terms[2]), U64(terms[3])>>,
          <<33, k[2], k[3]>> \o terms)
wire_close_cancel(k, d) ==
    LET terms == <<At(d, 0, 8), At(d, 8, 8)>> IN
    IF Len(k) < 3 \/ k[1] \notin Vaults THEN Refused ELSE
    Taken(k[2] = Ticket(k[1][2], k[1][3], Program), d, 16, k[1], Holder,
          <<Domain(3), U8(34), AccountId(k[1]), U64(terms[1]), U64(terms[2])>>, <<34, k[1], k[2]>> \o terms)

wire_register_session(k, signers, d) ==
    LET terms == <<At(d, 0, 8), At(d, 8, 32), At(d, 40, 32), At(d, 72, 8), At(d, 80, 1), At(d, 81, 32),
                   At(d, 113, 8), At(d, 121, 8)>> IN
    IF Len(k) < 7 \/ k[1] \notin Vaults THEN Refused ELSE
    Taken(k[6] \in signers /\ k[7] = System /\ terms[3] # Program /\ k[5] = terms[3]
            /\ k[2] = Session(k[1][2], k[1][3], terms[2], Program) /\ k[4] = ProgramData(terms[3]),
          d, 129, k[1], Holder,
          <<SessionDomain, U8(7), AccountId(k[1]), U64(terms[1]), B32(terms[2]), B32(terms[3]), U64(terms[4]),
            U8(terms[5]), B32(terms[6]), U64(terms[7]), U64(terms[8])>>,
          <<7, k[1], k[2]>> \o terms)
wire_revoke_session(k, d) ==
    LET terms == <<At(d, 0, 8), At(d, 8, 32), At(d, 40, 8)>> IN
    IF Len(k) < 3 \/ k[1] \notin Vaults THEN Refused ELSE
    Taken(k[2] = Session(k[1][2], k[1][3], terms[2], Program), d, 48, k[1], Holder,
          <<SessionDomain, U8(9), AccountId(k[1]), B32(terms[2]), U64(terms[1]), U64(terms[3])>>,
          <<9, k[1], k[2]>> \o terms)
wire_close_session(k, d) ==
    LET terms == <<At(d, 0, 8), At(d, 8, 32), At(d, 40, 8)>> IN
    IF Len(k) < 4 \/ k[1] \notin Vaults THEN Refused ELSE
    Taken(k[2] = Session(k[1][2], k[1][3], terms[2], Program) /\ k[3] # k[2], d, 48, k[1], Holder,
          <<SessionDomain, U8(10), AccountId(k[1]), B32(terms[2]), B32(k[3]), U64(terms[1]), U64(terms[3])>>,
          <<10, k[1], k[2], k[3]>> \o terms)

\* process_instruction: by the first byte.  Discriminators 0, 1, 2, 4, 5 and 6
\* are retired and refuse before they look at anything else.
process_instruction(cluster, ix) ==
    LET k == ix.keys  s == ix.signers  d == Tail(ix.data)  disc == Head(ix.data)[2] IN
    CASE ix.program # Program -> Refused
      [] disc = 11 -> wire_withdraw_sol_v4(k, s, d)
      [] disc = 12 -> wire_withdraw_token_v4(k, s, d)
      [] disc = 13 -> wire_execute_v4(k, s, d)
      [] disc = 14 -> wire_activate_v4(k, s, d)
      [] disc = 3  -> wire_update_authority_v3(k, d)
      [] disc = 20 -> wire_update_authority_v5(cluster, k, d)
      [] disc = 21 -> wire_execute_v5(cluster, k, s, d)
      [] disc = 33 -> wire_close_request(k, s, d)
      [] disc = 34 -> wire_close_cancel(k, d)
      [] disc = 7  -> wire_register_session(k, s, d)
      [] disc = 9  -> wire_revoke_session(k, d)
      [] disc = 10 -> wire_close_session(k, d)
      [] OTHER -> Refused

-----------------------------------------------------------------------------
(* The adapter's methods: a transaction is instructions, each the program's  *)
(* followed by the precompile's with the assertion for it                    *)

Ours(ix) == [is |-> "program", ix |-> ix, who |-> 0, challenge |-> <<>>]
buildSecp256r1Instruction(who, payload) == [is |-> "secp256r1", ix |-> Thrown, who |-> who, challenge |-> payload]
submitPasskeyTx(ix, o, payload) == <<Ours(ix), buildSecp256r1Instruction(o.key, payload)>>
buildCompositeTx(a, o, ix, payload) ==
    <<Ours(buildActivateInstructionV4(a, a.program, Tomb(a.pid, a.program))),
      buildSecp256r1Instruction(a.key, buildActivatePayloadV4(a)),
      Ours(ix), buildSecp256r1Instruction(o.key, payload)>>

initialize(o) == submitPasskeyTx(buildInitializeInstructionV2(o), o, buildInitializePayloadV3(o))

\* The three activations hand over the tombstone for the program's id and the
\* program's id for the tombstone.
activate(o) ==
    submitPasskeyTx(buildActivateInstructionV2(o, Tomb(o.pid, o.program), o.program), o, buildActivatePayloadV2(o))
activateV3(o) ==
    submitPasskeyTx(buildActivateInstructionV3(o, Tomb(o.pid, o.program), o.program), o, buildActivatePayloadV3(o))
activateV4(o) ==
    submitPasskeyTx(buildActivateInstructionV4(o, Tomb(o.pid, o.program), o.program), o, buildActivatePayloadV4(o))

sponsoredWithdrawSol(o)     == submitPasskeyTx(buildWithdrawSolInstructionV2(o), o, buildWithdrawPayloadV2(o))
sponsoredWithdrawSolV3(o)   == submitPasskeyTx(buildWithdrawSolInstructionV3(o), o, buildWithdrawPayloadV3(o))
sponsoredWithdrawSolV4(o)   == submitPasskeyTx(buildWithdrawSolInstructionV4(o), o, buildWithdrawSolPayloadV4(o))
sponsoredWithdrawToken(o)   == submitPasskeyTx(buildWithdrawTokenInstructionV2(o), o, buildWithdrawTokenPayloadV2(o))
sponsoredWithdrawTokenV3(o) == submitPasskeyTx(buildWithdrawTokenInstructionV3(o), o, buildWithdrawTokenPayloadV3(o))
sponsoredWithdrawTokenV4(o) == submitPasskeyTx(buildWithdrawTokenInstructionV4(o), o, buildWithdrawTokenPayloadV4(o))
sponsoredExecuteV3(o)       == submitPasskeyTx(buildExecuteInstructionV3(o), o, buildExecutePayloadV3(o))
sponsoredExecuteV4(o)       == submitPasskeyTx(buildExecuteInstructionV4(o), o, buildExecutePayloadV4(o))
submitRotateAuthorityTx(o)  == submitPasskeyTx(buildUpdateAuthorityInstruction(o), o, buildUpdateAuthorityPayloadV3(o))
requestClose(o)             == submitPasskeyTx(buildCloseRequestInstruction(o), o, buildCloseRequestPayload(o))
cancelClose(o)              == submitPasskeyTx(buildCloseCancelInstruction(o), o, buildCloseCancelPayload(o))

sponsoredActivatePlusWithdrawSolV4(a, o) ==
    buildCompositeTx(a, o, buildWithdrawSolInstructionV4(o), buildWithdrawSolPayloadV4(o))
sponsoredActivatePlusExecuteV4(a, o) ==
    buildCompositeTx(a, o, buildExecuteInstructionV4(o), buildExecutePayloadV4(o))
sponsoredActivatePlusWithdrawTokenV4(a, o) ==
    buildCompositeTx(a, o, buildWithdrawTokenInstructionV4(o), buildWithdrawTokenPayloadV4(o))

\* How every kind of operation is submitted; those the adapter has no method
\* for are put together from the exported builders the same way.
Submission(o) ==
    CASE o.kind = "initializeV1"     -> submitPasskeyTx(buildInitializeInstruction(o), o, buildInitializePayload(o))
      [] o.kind = "initializeV2"     -> submitPasskeyTx(buildInitializeInstructionV2(o), o, buildInitializePayloadV2(o))
      [] o.kind = "initialize"       -> initialize(o)
      [] o.kind = "activateV1"       -> submitPasskeyTx(buildActivateInstruction(o), o, buildActivatePayload(o))
      [] o.kind = "activateV2"       -> activate(o)
      [] o.kind = "activateV3"       -> activateV3(o)
      [] o.kind = "activateV4"       -> activateV4(o)
      [] o.kind = "withdrawSolV1"    -> submitPasskeyTx(buildWithdrawSolInstruction(o), o, buildWithdrawPayload(o))
      [] o.kind = "withdrawSolV2"    -> sponsoredWithdrawSol(o)
      [] o.kind = "withdrawSolV3"    -> sponsoredWithdrawSolV3(o)
      [] o.kind = "withdrawSolV4"    -> sponsoredWithdrawSolV4(o)
      [] o.kind = "withdrawTokenV1"  -> submitPasskeyTx(buildWithdrawTokenInstruction(o), o, buildWithdrawTokenPayload(o))
      [] o.kind = "withdrawTokenV2"  -> sponsoredWithdrawToken(o)
      [] o.kind = "withdrawTokenV3"  -> sponsoredWithdrawTokenV3(o)
      [] o.kind = "withdrawTokenV4"  -> sponsoredWithdrawTokenV4(o)
      [] o.kind = "executeV3"        -> sponsoredExecuteV3(o)
      [] o.kind = "executeV4"        -> sponsoredExecuteV4(o)
      [] o.kind = "executeV5"        -> submitPasskeyTx(buildExecuteInstructionV5(o), o, buildExecutePayloadV5(o))
      [] o.kind = "updateAuthorityV2" -> submitPasskeyTx(buildUpdateAuthorityInstruction(o), o, buildUpdateAuthorityPayloadV2(o))
      [] o.kind = "updateAuthority"  -> submitRotateAuthorityTx(o)
      [] o.kind = "updateAuthorityV5" -> submitPasskeyTx(buildUpdateAuthorityInstructionV5(o), o, buildUpdateAuthorityPayloadV5(o))
      [] o.kind = "closeV2"          -> submitPasskeyTx(buildCloseInstruction(o), o, buildClosePayloadV2(o))
      [] o.kind = "closeV3"          -> submitPasskeyTx(buildCloseInstruction(o), o, buildClosePayloadV3(o))
      [] o.kind = "closeRequest"     -> requestClose(o)
      [] o.kind = "closeCancel"      -> cancelClose(o)
      [] o.kind = "registerSession"  -> submitPasskeyTx(buildRegisterSessionInstruction(o), o, buildRegisterSessionPayload(o))
      [] o.kind = "revokeSession"    -> submitPasskeyTx(buildRevokeSessionInstruction(o), o, buildRevokeSessionPayload(o))
      [] o.kind = "closeSession"     -> submitPasskeyTx(buildCloseSessionInstruction(o), o, buildCloseSessionPayload(o))
FirstSubmission(a, o) ==
    CASE o.kind = "withdrawSolV4"   -> sponsoredActivatePlusWithdrawSolV4(a, o)
      [] o.kind = "executeV4"       -> sponsoredActivatePlusExecuteV4(a, o)
      [] o.kind = "withdrawTokenV4" -> sponsoredActivatePlusWithdrawTokenV4(a, o)

-----------------------------------------------------------------------------
(* The operations: for every kind one with all its terms told apart, and for *)
(* each of its terms one that differs there                                  *)

Friend(n) == Ata(Key("mint"), Key(n))
Call(input) == <<[addr |-> Vault(1, 1, Program), flags |-> 3], [addr |-> Key(input), flags |-> 1]>>

Plain(kind) ==
    [kind |-> kind, pid |-> 1, key |-> 1, program |-> Program, cluster |-> Key("mainnet"),
     nonce |-> 0, amount |-> 5, expiry |-> 9, policy |-> 2, fee |-> 3, cap |-> 4,
     dest |-> IF kind \in {"withdrawTokenV1", "withdrawTokenV2", "withdrawTokenV3", "withdrawTokenV4"}
              THEN Friend("ann") ELSE Key("ann"),
     mint |-> Key("mint"), newKey |-> 3, target |-> Key("app"), metas |-> Call("pool"), input |-> "buy",
     session |-> Key("session"), game |-> Key("game"), until |-> 7, has |-> 1, upgrader |-> Key("studio"), slot |-> 6]
Changed(o, term) ==
    CASE term \in {"nonce", "amount", "expiry", "fee", "cap", "until", "slot"} -> [o EXCEPT ![term] = 1]
      [] term = "pid"      -> [o EXCEPT !.pid = 2]
      [] term = "key"      -> [o EXCEPT !.key = 2]
      [] term = "policy"   -> [o EXCEPT !.policy = 1]
      [] term = "newKey"   -> [o EXCEPT !.newKey = 4]
      [] term = "has"      -> [o EXCEPT !.has = 0]
      [] term = "dest"     -> [o EXCEPT !.dest = IF @[1] = "ata" THEN Friend("bob") ELSE Key("bob")]
      [] term = "target"   -> [o EXCEPT !.target = Key("shop")]
      [] term = "metas"    -> [o EXCEPT !.metas = Call("chest")]
      [] term = "longer"   -> [o EXCEPT !.metas = @ \o <<[addr |-> Key("chest"), flags |-> 0]>>]
      [] term = "input"    -> [o EXCEPT !.input = "buy all"]
      [] term = "mint"     -> [o EXCEPT !.mint = Key("coin"), !.dest = Ata(Key("coin"), Key("ann"))]
      [] term \in {"session", "game", "upgrader"} -> [o EXCEPT ![term] = Key("other")]
      [] term = "cluster"  -> [o EXCEPT !.cluster = Key("devnet")]
      [] term = "program"  -> [o EXCEPT !.program = <<"program", "another">>]

Common == {"pid", "nonce", "expiry"}
Terms(kind) ==
    CASE kind \in {"withdrawSolV1", "withdrawSolV2", "withdrawSolV3", "withdrawSolV4"} ->
             Common \cup {"amount", "dest", "policy", "fee", "cap"}
      [] kind \in {"withdrawTokenV1", "withdrawTokenV2", "withdrawTokenV3", "withdrawTokenV4"} ->
             Common \cup {"amount", "dest", "policy", "fee", "cap", "mint"}
      [] kind \in {"initializeV1", "initializeV2", "initialize"} -> {"key"}
      [] kind \in {"activateV1", "activateV2", "activateV3", "activateV4"} -> {"key", "expiry", "policy", "fee", "cap"}
      [] kind \in {"executeV3", "executeV4"} -> {"nonce", "expiry", "policy", "fee", "cap", "target", "metas", "longer", "input"}
      [] kind = "executeV5" -> {"nonce", "expiry", "policy", "fee", "target", "metas", "longer", "input", "cluster", "program"}
      [] kind \in {"updateAuthorityV2", "updateAuthority"} -> Common \cup {"newKey"}
      [] kind = "updateAuthorityV5" -> Common \cup {"newKey", "cluster", "program"}
      [] kind \in {"closeV2", "closeV3", "closeRequest"} -> Common \cup {"dest"}
      [] kind = "closeCancel" -> Common
      [] kind = "registerSession" -> Common \cup {"session", "game", "until", "has", "upgrader", "slot"}
      [] kind = "revokeSession" -> Common \cup {"session"}
      [] kind = "closeSession" -> Common \cup {"session", "dest"}

Operations == UNION {{Plain(k)} \cup {Changed(Plain(k), t) : t \in Terms(k)} : k \in Wired}

\* What anybody can put in front of an assertion: an instruction for any of the
\* operations, or one of its keys replaced or left out.
Forged(ix) ==
    {ix} \cup {[ix EXCEPT !.keys[i] = x] : i \in DOMAIN ix.keys, x \in {Key("stranger"), Vault(2, 2, Program)}}
         \cup {[ix EXCEPT !.keys = RemoveAt(@, i)] : i \in DOMAIN ix.keys}
Offers ==
    UNION {Forged(IF o.kind = "activateV4" THEN buildCompositeTx(o, o, Thrown, <<>>)[1].ix
                  ELSE Submission(o)[1].ix) : o \in Operations}
Readings == {<<c, process_instruction(c, ix)>> : c \in Clusters, ix \in Offers \ {Thrown}}

\* verify_secp256r1_v2: the precompile's instruction comes next, its signer is
\* the authority and its challenge the payload.
Verified(r, assertion) == r.ok /\ assertion.who = r.who /\ assertion.challenge = r.payload

\* What goes through: an operation, a cluster, what the program takes.
Authorised ==
    UNION {{<<o, x[1], x[2]>> : x \in {x \in Readings : Verified(x[2], Submission(o)[2])}} : o \in Operations}

\* The transactions the adapter sends, and what the program takes for each of
\* their instructions; it refuses one whose next instruction does not verify.
Result(tx, i, c) ==
    LET r == IF tx[i].ix = Thrown THEN Refused ELSE process_instruction(c, tx[i].ix)
    IN [r EXCEPT !.ok = Verified(r, tx[i + 1])]
Results(tx, c) == IF Len(tx) = 4 THEN <<Result(tx, 1, c), Result(tx, 3, c)>> ELSE <<Result(tx, 1, c)>>
Spending == {"withdrawSolV4", "withdrawTokenV4", "executeV4"}
Alone == {[ops |-> {o}, cluster |-> o.cluster, vault |-> VaultOf(o),
           results |-> Results(Submission(o), o.cluster)] : o \in Operations}
Together ==
    {[ops |-> {x[1], x[2]}, cluster |-> x[2].cluster, vault |-> VaultOf(x[1]),
      results |-> Results(FirstSubmission(x[1], x[2]), x[2].cluster)] :
        x \in {x \in Operations \X Operations : x[1].kind = "activateV4" /\ x[2].kind \in Spending
                                              /\ VaultOf(x[1]) = VaultOf(x[2])}}

-----------------------------------------------------------------------------
(* Actions *)

Claims(r) == r.act[1] = 14
Lively(r, vaults) == r.vault \in vaults <=> ~Claims(r)
After(r, vaults) == IF Claims(r) THEN vaults \cup {r.vault} ELSE vaults

\* The runtime executes a transaction's instructions in turn, or none.
Lands(x) ==
    LET rs == x.results IN
    /\ rs[1].ok /\ Lively(rs[1], live)
    /\ Len(rs) = 2 => rs[2].ok /\ Lively(rs[2], After(rs[1], live))
Land(x) ==
    /\ executed' = executed \cup {[act |-> r.act, cluster |-> x.cluster] : r \in Range(x.results)}
    /\ live' = live \cup {r.vault : r \in {r \in Range(x.results) : Claims(r)}}
    /\ UNCHANGED dropped
Try(x) ==
    /\ \/ Lands(x) /\ Land(x)
       \/ ~Lands(x) /\ dropped' = dropped \cup {x.ops} /\ UNCHANGED <<live, executed>>
    /\ UNCHANGED signed

sign(o) ==
    /\ Cardinality(signed) < MaxSigned
    /\ signed = {} \/ (\E a \in signed : a.kind = "activateV4" /\ o.kind \in Spending)
    /\ signed' = signed \cup {o}
    /\ UNCHANGED <<live, executed, dropped>>

Claiming == {"activateV1", "activateV2", "activateV3", "activateV4", "initializeV1", "initializeV2", "initialize"}
relay(o, x) ==
    /\ x.ops = {o}
    /\ x.vault \in live <=> o.kind \notin Claiming
    /\ Try(x)

\* The first action of an account that is not active yet.
relayFirst(x) ==
    /\ x.ops \subseteq signed
    /\ x.vault \notin live
    /\ Try(x)

\* Somebody offers an instruction next to an assertion that was not made for it.
submit(o, c, r) ==
    /\ o \in signed
    /\ Lively(r, live)
    /\ executed' = executed \cup {[act |-> r.act, cluster |-> c]}
    /\ live' = After(r, live)
    /\ UNCHANGED <<signed, dropped>>

WireInit ==
    /\ live \in {{}, Vaults}
    /\ signed = {} /\ executed = {} /\ dropped = {}

WireNext ==
    \/ \E o \in Operations : sign(o)
    \/ \E o \in signed, x \in Alone : relay(o, x)
    \/ \E x \in Together : relayFirst(x)
    \/ \E x \in Authorised : submit(x[1], x[2], x[3])

WireSpec == WireInit /\ [][WireNext]_wireVars

-----------------------------------------------------------------------------
(* Properties *)

\* What an operation asks the program to do, in the program's terms.
SpentTerms(o) == <<o.nonce, o.amount, o.dest, o.expiry, o.policy, o.cap>>
Meant(o) ==
    LET v == VaultOf(o)
        session == Session(o.pid, Claim(o), o.session, o.program) IN
    CASE o.kind = "withdrawSolV4"   -> <<11, v, o.dest>> \o SpentTerms(o)
      [] o.kind = "withdrawTokenV4" -> <<12, v, Source(o), o.mint, o.dest>> \o SpentTerms(o)
      [] o.kind = "executeV4"       -> <<13, v, o.target, o.metas, o.input, o.nonce, o.expiry, o.policy, o.cap>>
      [] o.kind = "executeV5"       -> <<21, v, o.target, o.metas, o.input, o.nonce, o.expiry, o.policy>>
      [] o.kind = "activateV4"      -> <<14, v, o.policy, o.cap, o.expiry>>
      [] o.kind = "updateAuthority" -> <<3, v, o.nonce, Auth(o.newKey), o.expiry>>
      [] o.kind = "updateAuthorityV5" -> <<20, v, o.nonce, Auth(o.newKey), o.expiry>>
      [] o.kind = "closeRequest"    -> <<33, v, Ticket(o.pid, Claim(o), o.program), o.nonce, o.dest, o.expiry>>
      [] o.kind = "closeCancel"     -> <<34, v, Ticket(o.pid, Claim(o), o.program), o.nonce, o.expiry>>
      [] o.kind = "registerSession" -> <<7, v, session, o.nonce, o.session, o.game, o.until, o.has, o.upgrader, o.slot, o.expiry>>
      [] o.kind = "revokeSession"   -> <<9, v, session, o.nonce, o.session, o.expiry>>
      [] o.kind = "closeSession"    -> <<10, v, session, o.dest, o.nonce, o.session, o.expiry>>
      [] OTHER -> <<0>>
ClusterBound == {"executeV5", "updateAuthorityV5"}

\* Nobody gets more out of an assertion than was signed: whatever instruction is
\* put in front of it, with whatever accounts, the program does what the signer's
\* operation says, for its vault, and for the version 5 operations only on the
\* cluster and in the program they name.  No signature of a retired version is
\* worth anything.
ExecutedWasSigned ==
    \A x \in executed : \E o \in signed :
        /\ x.act = Meant(o)
        /\ o.kind \in ClusterBound => x.cluster = o.cluster /\ o.program = Program

\* What the packages build out of a signed operation is executed: the builders
\* and the program agree on the layout of every field and account.  The calls
\* (whose account list the program refuses) and the activation on its own (which
\* the adapter cannot build) are FirstCallLands'.
Executable ==
    {"activateV4", "withdrawSolV4", "withdrawTokenV4", "updateAuthority", "updateAuthorityV5", "closeRequest",
     "closeCancel", "registerSession", "revokeSession", "closeSession"}
BuiltIsExecuted ==
    \A ops \in dropped :
        \/ \E o \in ops : o.kind \notin Executable \/ o.program # Program
        \/ \E o \in ops : ops = {o} /\ o.kind = "activateV4"

\* The first call of an account goes through, with its activation in one
\* transaction or, failing that, after the activation alone.
FirstCallLands ==
    \A a, o \in signed : o.kind = "executeV4" => ~({a, o} \in dropped /\ {a} \in dropped /\ a # o)
=============================================================================
