--------------------------- MODULE StellarAccount ---------------------------
(***************************************************************************)
(* The Stellar contracts: the factory that deploys one account per PID,    *)
(* the account with its registry of rule snapshots, and the policy that    *)
(* keeps a session rule away from assets.  Authorisation itself is done by *)
(* the OpenZeppelin library and the host (external); hashes are modelled   *)
(* by their preimages.                                                     *)
(***************************************************************************)
EXTENDS Naturals, Sequences, SequencesExt, FiniteSets

CONSTANTS
    Spellings,      \* PIDs as given: sequences of " ", "A", "a", "b"
    Issuers,        \* deployers
    SignerLists,    \* lists of signers given to a deployment
    Salts,          \* salts given by hand: what was hashed for them
    Scopes,         \* rule scopes: [tag, contracts, fns], all of bytes, tags without NUL
    StrayHashes,    \* rule hashes of anything but a scope
    OzIds,          \* context rule ids of the library
    Untils,         \* valid_until values
    Versions,       \* snapshot versions
    FnLimit, ContractLimit, NameLimit,  \* MAX_RULE_FNS, MAX_CONTRACTS, MAX_FN_BYTES
    Financial,      \* FINANCIAL_FNS
    Harmless        \* other entry points

ASSUME StellarConstants ==
    /\ 1 \in Versions /\ Versions \subseteq Nat
    /\ Untils \subseteq Nat
    /\ Scopes \subseteq [tag: Seq(Nat), contracts: Seq(Nat), fns: Seq(Seq(Nat))]
    /\ StrayHashes \subseteq Seq(Nat) \ {<<>>}
    /\ \A signers \in SignerLists : signers \in Seq(ToSet(signers))
    /\ "execute" \notin Financial \cup Harmless /\ Financial \cap Harmless = {}

VARIABLES
    accounts,       \* deployed accounts: address |-> signers
    snapshot,       \* version, and the pinned rows
    moved           \* assets moved by a call under the session rule

stellarVars == <<accounts, snapshot, moved>>

NoRow == [rule_hash |-> <<>>, valid_until |-> 0]

---------------------------------------------------------------------------
\* The factory

Blank == " "
lower(c) == IF c = "A" THEN "a" ELSE c

\* Mutant of normalize_pid: the case is kept.
normalize_trim_only(p) ==
    LET solid == {i \in DOMAIN p : p[i] # Blank}
        first == CHOOSE i \in solid : \A j \in solid : i <= j
        last == CHOOSE i \in solid : \A j \in solid : i >= j
    IN  IF solid = {} THEN <<>> ELSE SubSeq(p, first, last)

\* normalize_pid: blanks go at both ends, upper case is folded.
normalize_pid(p) ==
    LET solid == {i \in DOMAIN p : p[i] # Blank}
        first == CHOOSE i \in solid : \A j \in solid : i <= j
        last == CHOOSE i \in solid : \A j \in solid : i >= j
    IN  IF solid = {} THEN <<>>
        ELSE [i \in 1..(last - first + 1) |-> lower(p[first + i - 1])]

predict_address(d, p) == <<d, normalize_pid(p)>>

\* A signer given twice and a taken address are refused.
deploy_inner(address, signers) ==
    /\ IsInjective(signers) /\ signers # <<>>
    /\ address \notin DOMAIN accounts
    /\ accounts' = [a \in DOMAIN accounts \cup {address} |->
                       IF a \in DOMAIN accounts THEN accounts[a] ELSE ToSet(signers)]
    /\ UNCHANGED <<snapshot, moved>>

\* For a PID the salt is derived; a blank one is refused.
deploy(d, p, signers) ==
    normalize_pid(p) # <<>> /\ deploy_inner(predict_address(d, p), signers)

\* Any 32 bytes are taken for a salt, in both forms of the entry point.
deploy_with_salt(d, salt, signers) == deploy_inner(<<d, salt>>, signers)

batch_add_signer(a, signers) ==
    /\ accounts' = [accounts EXCEPT ![a] = @ \cup ToSet(signers)]
    /\ UNCHANGED <<snapshot, moved>>

---------------------------------------------------------------------------
\* The registry of one account

Encoded(fns) == FlattenSeq([i \in DOMAIN fns |-> <<Len(fns[i])>> \o fns[i]])

\* Mutant of scope_canonical: names are put together without their lengths.
scope_concatenated(s) ==
    s.tag \o <<0>> \o <<Len(s.contracts)>> \o s.contracts
          \o <<Len(s.fns)>> \o FlattenSeq(s.fns)

\* Tag, NUL, counted contracts, counted names each with its length.  A
\* contract and every count are of fixed width, so one byte stands for each.
scope_canonical(s) ==
    s.tag \o <<0>> \o <<Len(s.contracts)>> \o s.contracts \o <<Len(s.fns)>> \o Encoded(s.fns)

ScopeFits(s) ==
    /\ Len(s.fns) <= FnLimit /\ Len(s.contracts) <= ContractLimit
    /\ \A i \in DOMAIN s.fns : Len(s.fns[i]) <= NameLimit

\* Too large a scope has no rule id.
rule_id_for == [s \in {t \in Scopes : ScopeFits(t)} |-> scope_canonical(s)]

\* Whatever a caller can hash: a scope, of any size, or something else.
RuleHashes == {scope_canonical(s) : s \in Scopes} \cup StrayHashes

\* Any 32 bytes are pinned; the row of an id is replaced, whatever the version.
register_snapshot_entry(hash, id, until) ==
    /\ snapshot' = [snapshot EXCEPT !.rows[id] = [rule_hash |-> hash, valid_until |-> until]]
    /\ UNCHANGED <<accounts, moved>>

\* Any version is taken, an older one too.
set_snapshot_version(v) ==
    /\ snapshot' = [snapshot EXCEPT !.version = v]
    /\ UNCHANGED <<accounts, moved>>

---------------------------------------------------------------------------
\* The nonfinancial-only policy

Fns == Financial \cup Harmless \cup {"execute"}

\* What a call is authorised for: where, which function, and, when it is an
\* `execute`, the function it dispatches to or arguments of another shape.
Contexts == [where: {"account", "token"}, fn: Fns, target: Fns \cup {"undecodable"}]

\* Mutant of enforce: only the called function is looked at.
enforce_direct(c) == c.fn \notin Financial

enforce(c) ==
    /\ c.fn \notin Financial
    /\ c.fn = "execute" /\ c.where = "account" =>
          c.target # "undecodable" /\ c.target \notin Financial

\* The host: the account's own `execute` calls its target with the account's
\* authority; a token's financial function moves assets.  The account cannot
\* be entered again from its own `execute`.
Moves(c) ==
    \/ c.where = "token" /\ c.fn \in Financial
    \/ c.where = "account" /\ c.fn = "execute" /\ c.target \in Financial

sessionCall(c) ==
    /\ enforce(c)
    /\ moved' = (moved \/ Moves(c))
    /\ UNCHANGED <<accounts, snapshot>>

---------------------------------------------------------------------------
StellarInit ==
    /\ accounts = <<>>
    /\ snapshot = [version |-> 1, rows |-> [i \in OzIds |-> NoRow]]
    /\ moved = FALSE

StellarNext ==
    \/ \E d \in Issuers, p \in Spellings, s \in SignerLists : deploy(d, p, s)
    \/ \E d \in Issuers, t \in Salts, s \in SignerLists : deploy_with_salt(d, t, s)
    \/ \E a \in DOMAIN accounts, s \in SignerLists : batch_add_signer(a, s)
    \/ \E h \in RuleHashes, id \in OzIds, u \in Untils : register_snapshot_entry(h, id, u)
    \/ \E v \in Versions : set_snapshot_version(v)
    \/ \E c \in Contexts : sessionCall(c)

StellarSpec == StellarInit /\ [][StellarNext]_stellarVars

---------------------------------------------------------------------------
\* Properties

\* Accounts have signers, rows are empty or pinned.
StellarTypeOK ==
    /\ \A a \in DOMAIN accounts : a[1] \in Issuers /\ accounts[a] # {}
    /\ snapshot.version \in Versions /\ DOMAIN snapshot.rows = OzIds
    /\ \A i \in OzIds : snapshot.rows[i] = NoRow \/ snapshot.rows[i].rule_hash \in RuleHashes

\* What a PID is, blanks and case aside.
Letters(p) == LET solid == SelectSeq(p, LAMBDA c : c # Blank) IN [i \in DOMAIN solid |-> lower(solid[i])]

\* Names identify: a PID leads to one deployed account per deployer however it
\* is spelled, and two PIDs never lead to the same one; a rule hash pinned in the
\* registry is the rule id of one scope at most, whatever bytes its names and
\* counts are made of.
NamesIdentify ==
    /\ \A a \in DOMAIN accounts, p, q \in Spellings :
          a = predict_address(a[1], p) => (a = predict_address(a[1], q) <=> Letters(p) = Letters(q))
    /\ \A i \in OzIds :
          snapshot.rows[i] # NoRow =>
             Cardinality({s \in DOMAIN rule_id_for : rule_id_for[s] = snapshot.rows[i].rule_hash}) <= 1

\* A call under a session rule moves no assets, directly or dispatched by the
\* account's own `execute`.
SessionsMoveNothing == ~moved
=============================================================================
