---------------------------- MODULE SvmSession ----------------------------
(***************************************************************************)
(* What a game may do when a session calls it: session_execute of the      *)
(* Solana program around its one cross-program call, the upgrade record it *)
(* takes, and the token extensions that it and token withdrawals admit.    *)
(* Whether the session itself is in force is the module SvmAccount's.      *)
(*                                                                         *)
(* An account has lamports, an owner and data: the base part (amount,      *)
(* delegate, close authority) as one number, and the bytes behind it.      *)
(***************************************************************************)
EXTENDS Integers, Sequences, SequencesExt, FiniteSets

CONSTANTS
    MetaLists,     \* account lists a caller may sign up for the call
    PassedLists,   \* accounts the transaction passes behind the fixed five
    Tails,         \* the bytes behind the base part of a token account
    MintTails,     \* and behind that of a mint
    MaxMetas, MaxProtected,
    MaxCalls, MaxUpgrades, MaxEffects

\* What follows the base part are bytes.
ASSUME SessionVmConstants ==
    Tails \subseteq Seq(0..255) /\ MintTails \subseteq Seq(0..255)

VARIABLES
    acct,     \* the accounts
    program,  \* loader, slot and upgrade authority of the allowed game
    record,   \* the session's: sequence number and the upgrade record seen
    call,     \* the call under way, with what was snapshot before it
    done      \* the last operation that went through

sessionVmVars == <<acct, program, record, call, done>>

Addrs == {"vault", "session", "purse", "chest", "mint"}
Owners == {"account program", "token program", "game", "thief"}
Loaders == {"upgradeable", "native", "deprecated", "other"}
NoCall == [open |-> FALSE]
Unseen == [slot |-> 0, auth |-> 0]

Data(body, tail) == [body |-> body, tail |-> tail]

SessionVmInit ==
    /\ \E tail \in Tails, mint \in MintTails :
        /\ tail = <<>> \/ mint = <<>>
        /\ acct = [a \in Addrs |->
              [lamports |-> 1,
               owner |-> CASE a \in {"vault", "session"} -> "account program"
                           [] a \in {"purse", "mint"} -> "token program"
                           [] OTHER -> "game",
               data |-> Data(0, CASE a = "purse" -> tail [] a = "mint" -> mint [] OTHER -> <<>>)]]
    /\ program \in [loader: Loaders, slot: {1}, auth: {1}]
    /\ record \in [seq: 0..(MaxCalls - 1), seen: {Unseen}]
    /\ call = NoCall
    /\ done = NoCall

---------------------------------------------------------------------------
\* Token extensions

U16(bytes, i) == bytes[i] + 256 * bytes[i + 1]
AllZero(bytes, i) == \A j \in i..Len(bytes) : bytes[j] = 0

\* ImmutableOwner alone is supported on accounts, metadata and group pointers
\* on mints; whatever else there is, or will be, is refused.
check_account_extension(type) == type = 7
check_mint_extension(type) == type \in 18..23

\* Entry by entry: type, length, value.  Type 0 ends the list, and zeros fill
\* whatever is left.
walk_tlv(tlv, Check(_)) ==
    LET ok[i \in 1..(Len(tlv) + 1)] ==
            LET rest == Len(tlv) - i + 1
                next == i + 4 + U16(tlv, i + 2) IN
            IF rest < 4 THEN AllZero(tlv, i)
            ELSE IF U16(tlv, i) = 0 THEN AllZero(tlv, i)
            ELSE next <= Len(tlv) + 1 /\ Check(U16(tlv, i)) /\ ok[next]
    IN  ok[1]

\* Nothing behind the base, zeros, or the tag of the account's kind and then
\* only supported extensions.
Supported(tail, kind, Check(_)) ==
    \/ tail = <<>>
    \/ tail # <<>> /\ Head(tail) = 0 /\ AllZero(tail, 1)
    \/ tail # <<>> /\ Head(tail) = kind /\ walk_tlv(Tail(tail), Check)

check_token_account_supported(data) == Supported(data.tail, 2, check_account_extension)
check_token_mint_supported(data) == Supported(data.tail, 1, check_mint_extension)

---------------------------------------------------------------------------
\* The call of a game

Writable(flags) == flags % 2 = 1
SessionSigns(flags) == flags \in {2, 3}

\* The session's entries are the program's to fill in; the others must be
\* passed, in order, and nothing more.
Forwarded(metas) ==
    LET others == SelectSeq(metas, LAMBDA m : ~SessionSigns(m.flags))
    IN  [i \in 1..Len(others) |-> others[i].addr]

MetasValid(metas) ==
    /\ Len(metas) \in 1..MaxMetas
    /\ \A i \in 1..Len(metas) :
        /\ metas[i].flags <= 3
        /\ SessionSigns(metas[i].flags) => metas[i].addr = "session"
    /\ \E i \in 1..Len(metas) : SessionSigns(metas[i].flags)

\* Mutant of VaultAbsent: the vault may be forwarded.
VaultForwarded(metas, passed) == TRUE

VaultAbsent(metas, passed) ==
    /\ \A i \in 1..Len(metas) : metas[i].addr # "vault"
    /\ \A i \in 1..Len(passed) : passed[i] # "vault"

ProtectedInScope(metas, protected) ==
    /\ Cardinality(protected) <= MaxProtected
    /\ \A p \in protected : \E i \in 1..Len(metas) : metas[i].addr = p

\* The evidence account of an upgradeable game is its ProgramData, that of an
\* immutable one the program itself; other loaders are refused.
Evidence(loader) ==
    CASE loader = "upgradeable" -> {"programdata"}
      [] loader \in {"native", "deprecated"} -> {"program"}
      [] OTHER -> {}

parse_programdata ==
    IF program.loader = "upgradeable" THEN [slot |-> program.slot, auth |-> program.auth] ELSE Unseen

\* What is compared of a protected account before and after the call, the
\* session's with its record.
Observed(a, rec) == <<acct[a], IF a = "session" THEN rec ELSE NoCall>>

\* Token accounts with unsupported extensions are not taken under protection.
Protectable(p) ==
    p # "session" /\ acct[p].owner = "token program" => check_token_account_supported(acct[p].data)

\* A protected account other than the session is found among those passed.
Found(p, passed) == p = "session" \/ p \in ToSet(passed)

\* One call at a time, and MaxCalls of them.
MayCall == ~call.open /\ record.seq < MaxCalls

\* Everything before the call: the checks, then sequence number and upgrade
\* record, then the snapshot.
callGame(metas, passed, protected, evidence, seq) ==
    /\ seq = record.seq
    /\ VaultAbsent(metas, passed)
    /\ MetasValid(metas)
    /\ passed = Forwarded(metas)
    /\ ProtectedInScope(metas, protected)
    /\ evidence \in Evidence(program.loader)
    /\ \A p \in protected : Found(p, passed) /\ Protectable(p)
    /\ record' = [seq |-> seq + 1, seen |-> parse_programdata]
    /\ call' = [open |-> TRUE, before |-> acct, record |-> record, protected |-> protected,
                snapshot |-> [p \in protected |-> Observed(p, record')],
                writable |-> {metas[i].addr : i \in {j \in 1..Len(metas) : Writable(metas[j].flags)}},
                effects |-> 0]
    /\ done' = NoCall
    /\ UNCHANGED <<acct, program>>

\* The game is not trusted: it may do anything to an account that the call
\* lets it write.
GameEffect(a) ==
    /\ call.open /\ call.effects < MaxEffects
    /\ a \in call.writable
    /\ \/ \E lamports \in 0..2 : acct' = [acct EXCEPT ![a].lamports = lamports]
       \/ acct' = [acct EXCEPT ![a].owner = "thief"]
       \/ acct' = [acct EXCEPT ![a].data.body = 1 - @]
    /\ call' = [call EXCEPT !.effects = @ + 1]
    /\ UNCHANGED <<program, record, done>>

\* Mutant of check_session_spend_pinned: the session may lose its rent.
spend_unpinned(before, after) == TRUE

check_session_spend_pinned(before, after) == after >= before

Unchanged(p) == Observed(p, record) = call.snapshot[p]

PostChecksHold ==
    /\ check_session_spend_pinned(call.before["session"].lamports, acct["session"].lamports)
    /\ \A p \in call.protected : Unchanged(p)

endCall ==
    /\ call.open /\ PostChecksHold
    /\ done' = [open |-> TRUE, what |-> "call", before |-> call.before,
                protected |-> call.protected, writable |-> call.writable]
    /\ call' = NoCall
    /\ UNCHANGED <<acct, program, record>>

\* The game fails, or a check after it does: the transaction is undone.
revertCall ==
    /\ call.open
    /\ acct' = call.before /\ record' = call.record
    /\ call' = NoCall /\ done' = NoCall
    /\ UNCHANGED program

\* An owner's withdrawal of tokens, as far as the accounts' kind goes: source,
\* destination and mint pass the extension gate.
withdraw_token ==
    /\ ~call.open /\ ~done.open
    /\ acct["purse"].owner = "token program" /\ acct["purse"].data.body = 0
    /\ check_token_account_supported(acct["purse"].data)
    /\ check_token_mint_supported(acct["mint"].data)
    /\ acct' = [acct EXCEPT !["purse"].data.body = 1]
    /\ done' = [open |-> TRUE, what |-> "withdrawal", before |-> acct,
                protected |-> {}, writable |-> {"purse"}]
    /\ UNCHANGED <<program, record, call>>

\* External: the game's publisher deploys a new version, or gives up the right to.
UpgradeGame ==
    /\ program.loader = "upgradeable" /\ program.auth = 1 /\ program.slot <= MaxUpgrades
    /\ ~call.open
    /\ \E auth \in {0, 1} : program' = [program EXCEPT !.slot = @ + 1, !.auth = auth]
    /\ done' = NoCall
    /\ UNCHANGED <<acct, record, call>>

SessionVmNext ==
    \/ MayCall /\ \E metas \in MetaLists, passed \in PassedLists,
                     protected \in SUBSET (Addrs \ {"vault", "mint"}),
                     evidence \in {"programdata", "program"}, seq \in 0..MaxCalls :
                     callGame(metas, passed, protected, evidence, seq)
    \/ \E a \in Addrs : GameEffect(a)
    \/ endCall \/ revertCall \/ withdraw_token \/ UpgradeGame

SessionVmSpec == SessionVmInit /\ [][SessionVmNext]_sessionVmVars

---------------------------------------------------------------------------
\* Properties

\* An admissible extension area, said without walking it: cut into entries of
\* known harmless type that are as long as they claim, then zeros.
Admissible(tail, kind, types) ==
    \/ AllZero(tail, 1)
    \/ /\ tail # <<>> /\ Head(tail) = kind
       /\ LET tlv == Tail(tail)
              end == Len(tlv) + 1 IN
          \E cuts \in SUBSET (1..end) :
            /\ 1 \in cuts
            /\ \A i \in cuts :
                \/ AllZero(tlv, i) /\ \A j \in cuts : j <= i
                \/ /\ i + 3 < end /\ U16(tlv, i) \in types
                   /\ i + 4 + U16(tlv, i + 2) \in cuts
                   /\ \A j \in cuts : j <= i \/ j >= i + 4 + U16(tlv, i + 2)

\* A call that went through never touched the vault, took nothing from the
\* session's rent, and left every protected account as it was; the record then
\* shows the upgrade record of the program that ran.
GamesConfined ==
    done.open /\ done.what = "call" =>
        /\ acct["vault"] = done.before["vault"]
        /\ acct["session"].lamports >= done.before["session"].lamports
        /\ \A p \in done.protected : acct[p] = done.before[p]
        /\ "vault" \notin done.writable
        /\ record.seen = IF program.loader = "upgradeable"
                           THEN [slot |-> program.slot, auth |-> program.auth] ELSE Unseen

\* Value is only ever pinned or moved in token accounts, and of mints, whose
\* extensions cannot hide or redirect it.
ExtensionsHarmless ==
    /\ done.open /\ done.before["purse"].owner = "token program"
          /\ (done.what = "withdrawal" \/ "purse" \in done.protected) =>
          Admissible(done.before["purse"].data.tail, 2, {7})
    /\ done.open /\ done.what = "withdrawal" => Admissible(acct["mint"].data.tail, 1, 18..23)
===========================================================================
