----------------------------- MODULE MCAccounts -----------------------------
(***************************************************************************)
(* The contracts of the three chains for TLC.  They share no state, so a   *)
(* behaviour is one of one chain: `part` says of which, the others rest.   *)
(* On Stellar the factory and an account's registry share nothing either.  *)
(***************************************************************************)
EXTENDS EvmAccount, EvmWire, SvmAccount, SvmSession, SvmWire, StellarAccount, TLC

CONSTANTS k1, k2, call1, pid1, d1, s1, s2

VARIABLE part

accountVars == <<evmVars, svmVars, sessionVmVars, wireVars, evmWireVars, stellarVars, part>>

\* The EVM permission is the session key k2's and lasts one tick.
MCPermScope == [p \in PermIds |-> [key |-> k2, call |-> call1, until |-> 1]]

\* Every kind of operation a passkey has ever signed for the Solana program.
MCWired ==
    {"initializeV1", "initializeV2", "initialize", "activateV1", "activateV2", "activateV3", "activateV4",
     "withdrawSolV1", "withdrawSolV2", "withdrawSolV3", "withdrawSolV4",
     "withdrawTokenV1", "withdrawTokenV2", "withdrawTokenV3", "withdrawTokenV4",
     "executeV3", "executeV4", "executeV5", "updateAuthorityV2", "updateAuthority", "updateAuthorityV5",
     "closeV2", "closeV3", "closeRequest", "closeCancel", "registerSession", "revokeSession", "closeSession"}
MCClusters == {Key("mainnet"), Key("devnet")}

\* Every kind of operation signed for the EVM accounts, on two chains.
MCCalls ==
    {"activateV2", "activateV3", "activateV4", "executeV1", "executeV2", "executeV3", "executeV4", "rotateV2",
     "rotateV3", "grant", "revoke", "permV1", "permV2", "viaV1", "viaV2", "exec7579", "exec7579V4", "batch",
     "permBatch", "install", "uninstall", "sign1271"}
MCChains == {Uint(1), Uint(2)}

\* One Solana vault, claimed with k1.
MCAddresses == {<<pid1, k1>>}

\* Two PIDs in several spellings, and a blank one; salts of one and of none.
MCSpellings == {<<"a">>, <<" ", "A">>, <<"A", "b", " ">>, <<" ">>}
MCSalts == {<<"a">>, <<"A">>}
MCSignerLists == {<<s1>>, <<s2, s2>>}

\* Scopes whose parts could run together: counts, names and contracts are
\* made of the same byte, some names are empty and one is too long.
MCNames == {<<>>, <<1>>, <<1, 1>>}
MCScopes == [tag: {<<1>>, <<1, 1>>}, contracts: {<<>>, <<1>>},
             fns: {<<>>} \cup {<<f>> : f \in MCNames} \cup (MCNames \X MCNames)]
MCStrayHashes == {<<0>>}

\* Calls of a game: the session signs, with and without other accounts, and
\* lists that leave it out, name the vault or set a flag that does not exist.
Meta(a, f) == [addr |-> a, flags |-> f]
MCMetaLists ==
    {<<Meta("session", f)>> : f \in {0, 2, 3, 4}} \cup
    {<<Meta("session", 3), Meta(a, f)>> : a \in {"purse", "chest", "vault", "session"}, f \in 0..2} \cup
    {<<Meta("purse", 1), Meta("session", 2), Meta("chest", 1)>>}
MCPassedLists == {<<>>} \cup {<<a>> : a \in Addrs} \cup {<<"purse", "chest">>, <<"chest", "purse">>}

\* Extension areas put together from up to two pieces, well formed or not.
Pieces == {<<7, 0, 0, 0>>, <<7, 0, 1, 0, 9>>, <<7, 0, 2, 0, 9>>, <<1, 0, 0, 0>>, <<7, 1, 0, 0>>,
           <<20, 0, 0, 0>>, <<7, 0>>, <<0>>, <<0, 0, 0, 0>>, <<0, 0, 0, 0, 1>>}
Areas == {<<>>} \cup Pieces \cup {p \o q : p, q \in Pieces}
MCTails == {<<>>} \cup {<<k>> \o a : k \in 0..2, a \in Areas}

\* Administrators are interchangeable.
AdminSymmetry == Permutations(Admins)

MCAccountsInit ==
    /\ EvmInit /\ SvmInit /\ SessionVmInit /\ WireInit /\ EvmWireInit /\ StellarInit
    /\ part \in {"evm", "svm", "game", "wire", "evm wire", "factory", "registry"}
    /\ LET plain == acct["purse"].data.tail = <<>> /\ acct["mint"].data.tail = <<>> IN
       /\ record.seq = IF plain THEN 0 ELSE MaxCalls - 1
       /\ ~plain => program.loader = "native"
       /\ part # "game" => plain /\ program.loader = "native"
    /\ part # "wire" => live = {}
    /\ part # "evm wire" => hosted = {}
    /\ part # "evm" => evm.kind = "single" /\ evm.admins = Admins

MCAccountsNext ==
    \/ part = "evm" /\ EvmNext /\ UNCHANGED <<svmVars, sessionVmVars, wireVars, evmWireVars, stellarVars, part>>
    \/ part = "svm" /\ SvmNext /\ UNCHANGED <<evmVars, sessionVmVars, wireVars, evmWireVars, stellarVars, part>>
    \/ part = "game" /\ SessionVmNext /\ UNCHANGED <<evmVars, svmVars, wireVars, evmWireVars, stellarVars, part>>
    \/ part = "wire" /\ WireNext /\ UNCHANGED <<evmVars, svmVars, sessionVmVars, evmWireVars, stellarVars, part>>
    \/ part = "evm wire" /\ EvmWireNext /\ UNCHANGED <<evmVars, svmVars, sessionVmVars, wireVars, stellarVars, part>>
    \/ /\ part \in {"factory", "registry"} /\ StellarNext
       /\ part = "factory" => UNCHANGED snapshot
       /\ part = "registry" => UNCHANGED accounts
       /\ UNCHANGED <<evmVars, svmVars, sessionVmVars, wireVars, evmWireVars, part>>

MCAccountsSpec == MCAccountsInit /\ [][MCAccountsNext]_accountVars

\* The state of every contract has its type.
AccountsTypeOK == EvmTypeOK /\ SvmTypeOK /\ StellarTypeOK

\* A session never reaches what its owner kept from it: on Stellar the transfer
\* functions, on Solana the vault and the protected accounts of a game call.
SessionsConfined == SessionsMoveNothing /\ GamesConfined /\ ExtensionsHarmless

\* What is signed or registered means one thing: on Stellar two scopes or names
\* never share a digest, on Solana and on the EVM chains an assertion is worth exactly
\* the operation it was made for, and the packages build what is then executed.
SignedMeansOne ==
    /\ NamesIdentify
    /\ ExecutedWasSigned /\ BuiltIsExecuted
    /\ TookWasAgreed /\ BuiltIsTaken /\ Unambiguous

\* Fees can always be collected: factory and revenue vault keep at least one
\* administrator, and their count and list agree with who is one.
AdminsManaged == FactoryManaged /\ TreasuryManaged
=============================================================================
