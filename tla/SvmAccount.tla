----------------------------- MODULE SvmAccount -----------------------------
(***************************************************************************)
(* The Solana smart account program: vaults, their sessions, the two-phase *)
(* close with its ticket and tombstone, and the revenue vault.             *)
(*                                                                         *)
(* Anyone may submit an instruction, so a step is an instruction that the  *)
(* program accepts; one it rejects reverts and changes nothing.  The       *)
(* signature check is exact: it accepts what the vault's authority signed  *)
(* over the payload that the program recomputes from the stored nonce.     *)
(* A program cannot be re-entered through another one, so an instruction   *)
(* with the calls it makes is one step.  Discriminants 0, 1, 2, 4, 5 and 6 *)
(* decode and then always fail, and are no steps at all.                   *)
(***************************************************************************)
EXTENDS Integers, Sequences, FiniteSets

CONSTANTS
    Pids,           \* account ids
    PassKeys,       \* P-256 keys of owners
    Addresses,      \* vault addresses: a pid and the key that claims it
    SessionKeys,    \* Ed25519 keys of sessions
    Officers,       \* keys that may come to administer the revenue vault
    SvmFees,        \* network fees a relayer may attest
    SvmCaps,        \* max_total_fee an owner may sign
    Amounts,        \* lamports or tokens to move
    Gifts,          \* lamports anybody may send to a vault's address
    VaultRent, SmallRent,   \* rent-exempt minimum of a vault, of the others
    SvmTtl,         \* MAX_TTL_SECS
    SessionTtl,     \* SESSION_MAX_TTL_SECS, 24 h
    Inactivity,     \* SESSION_INACTIVITY_SECS, 30 min
    CloseGrace,     \* CLOSE_GRACE_SECS, 7 days
    MaxEpoch,       \* 255, the largest session generation
    MaxOfficers,    \* MAX_ADMINS, 8
    SvmHorizon,     \* bound: time
    MaxNonce,       \* bound: nonces and sequence numbers
    Lamports,       \* bound: lamports in a vault
    MaxRevenue      \* bound: lamports in the revenue vault

ASSUME SvmConstants ==
    /\ Addresses \subseteq Pids \X PassKeys
    /\ SvmFees \subseteq Nat /\ SvmCaps \subseteq Nat /\ Amounts \subseteq Nat /\ Gifts \subseteq Nat
    /\ VaultRent \in Nat \ {0} /\ SmallRent \in Nat
    /\ SvmTtl \in Nat /\ SessionTtl \in Nat /\ Inactivity \in Nat /\ CloseGrace \in Nat
    /\ MaxEpoch \in Nat /\ MaxOfficers \in Nat \ {0}
    /\ SvmHorizon \in Nat /\ MaxNonce \in Nat /\ Lamports \in Nat
    /\ MaxRevenue \in Nat

VARIABLES
    vaults,     \* the state account at each address, and its lamports
    sessions,   \* the session records of each vault
    tickets,    \* the close ticket of each vault
    tombs,      \* the pids with a tombstone
    revenue,    \* the revenue vault and its config
    chain       \* the Clock sysvar

svmVars == <<vaults, sessions, tickets, tombs, revenue, chain>>

\* A vault's address is derived from the pid and the key that claimed it.
PidOf(v) == v[1]
ClaimKey(v) == v[2]

NoVault == [status |-> "none", nonce |-> 0, authority |-> CHOOSE k \in PassKeys : TRUE,
            epoch |-> 0, lamports |-> 0, turned |-> 0, held |-> 0]
NoSession == [status |-> "none", expires |-> 0, used |-> 0, seq |-> 0, epoch |-> 0, born |-> 0]
NoTicket == [live |-> FALSE, deadline |-> 0]

SvmInit ==
    /\ vaults = [v \in Addresses |-> NoVault]
    /\ sessions = [v \in Addresses |-> [s \in SessionKeys |-> NoSession]]
    /\ tickets = [v \in Addresses |-> NoTicket]
    /\ tombs = {}
    /\ revenue = [ready |-> FALSE, lamports |-> 0, admins |-> <<>>]
    /\ chain = 0

---------------------------------------------------------------------------
\* What the instructions share

\* split_attested_fee: half of the attested fee on top, rounded down.
protocol_fee(networkFee) == (networkFee * 5000) \div 10000
total_fee(networkFee) == networkFee + protocol_fee(networkFee)

\* check_expiry.
NotExpired(expiry) == chain <= expiry /\ expiry - chain <= SvmTtl

Exists(v) == vaults[v].status # "none"

\* Mutant of require_active: a vault that closes is still in use.
require_exists(v) == Exists(v)

\* Spending, rotating and playing stop when a close is requested.
require_active(v) == vaults[v].status = "active"

\* Bound: a few nonces.
MayStep(v) == Exists(v) /\ vaults[v].nonce < MaxNonce

\* The runtime: an account may not be left with less than its rent, and one
\* that is left with nothing is purged, with its data.
Left(v, st) ==
    /\ st.lamports = 0 \/ st.lamports >= VaultRent
    /\ vaults' = [vaults EXCEPT ![v] = IF st.lamports = 0 THEN NoVault ELSE st]

\* The nonce is spent before value moves.
Burned(v) == [vaults[v] EXCEPT !.nonce = @ + 1]

\* The fee legs of a spend: the relayer is reimbursed exactly, the protocol
\* fee goes to the revenue vault, which must have been initialised.
FeeFits(networkFee, maxTotalFee) ==
    /\ revenue.ready /\ revenue.lamports + protocol_fee(networkFee) <= MaxRevenue
    /\ total_fee(networkFee) <= maxTotalFee

Earn(networkFee) == revenue' = [revenue EXCEPT !.lamports = @ + protocol_fee(networkFee)]

---------------------------------------------------------------------------
\* Creation

\* Anybody may send lamports to the address, before and after the claim.
Fund(v, amount) ==
    /\ vaults[v].lamports + amount <= Lamports
    /\ vaults' = [vaults EXCEPT ![v].lamports = @ + amount]
    /\ UNCHANGED <<sessions, tickets, tombs, revenue, chain>>

\* verify_tombstone_absent.
NoTomb(v) == PidOf(v) \notin tombs

\* The claiming key signs; the submitter tops the account up to its rent, and
\* is reimbursed out of what was sent there before.
activate_v4(v, networkFee, maxTotalFee, expiry) ==
    /\ ~Exists(v)
    /\ NoTomb(v)
    /\ NotExpired(expiry)
    /\ FeeFits(networkFee, maxTotalFee)
    /\ LET funded == IF vaults[v].lamports < VaultRent THEN VaultRent ELSE vaults[v].lamports
       IN  /\ funded >= VaultRent + total_fee(networkFee)
           /\ Left(v, [NoVault EXCEPT !.status = "active", !.authority = ClaimKey(v),
                                      !.lamports = funded - total_fee(networkFee)])
    /\ Earn(networkFee)
    /\ UNCHANGED <<sessions, tickets, tombs, chain>>

---------------------------------------------------------------------------
\* The owner's operations

\* The body of every fee-bearing spend: amount lamports leave the vault with
\* the fee.
Spent(v, amount, networkFee, maxTotalFee, expiry) ==
    /\ MayStep(v) /\ require_active(v)
    /\ NotExpired(expiry)
    /\ FeeFits(networkFee, maxTotalFee)
    /\ vaults[v].lamports >= amount + total_fee(networkFee)
    /\ Left(v, [Burned(v) EXCEPT !.lamports = @ - amount - total_fee(networkFee)])
    /\ Earn(networkFee)
    /\ UNCHANGED <<sessions, tickets, tombs, chain>>

withdraw_sol_v4(v, amount, networkFee, maxTotalFee, expiry) ==
    Spent(v, amount, networkFee, maxTotalFee, expiry)

\* The token program moves the tokens, or refuses and reverts all; accounts or
\* mints with extensions that are not known to be harmless are refused.  Only
\* the fee concerns the vault.
withdraw_token_v4(v, networkFee, maxTotalFee, expiry) ==
    Spent(v, 0, networkFee, maxTotalFee, expiry)

\* The target may be any program but this one.  It cannot debit the vault,
\* which this program owns.
execute_v4(v, networkFee, maxTotalFee, expiry) ==
    Spent(v, 0, networkFee, maxTotalFee, expiry)

\* execute_v5 binds program and cluster, but no cap on the fee.
execute_v5(v, networkFee, expiry) ==
    Spent(v, 0, networkFee, total_fee(networkFee), expiry)

\* A saturating byte: wrapping would revive the sessions of generation 0.
bump_session_generation(epoch) == IF epoch < MaxEpoch THEN epoch + 1 ELSE epoch

\* Rotation replaces the authority and never the address; turned counts the
\* rotations that also revoke sessions.
update_authority(v, key, expiry) ==
    /\ MayStep(v) /\ require_active(v)
    /\ NotExpired(expiry)
    /\ vaults' = [vaults EXCEPT ![v] = [Burned(v) EXCEPT !.authority = key,
                        !.epoch = bump_session_generation(@), !.turned = @ + 1]]
    /\ UNCHANGED <<sessions, tickets, tombs, revenue, chain>>

\* Its V5 sibling leaves the session generation alone.
update_authority_v5(v, key, expiry) ==
    /\ MayStep(v) /\ require_active(v)
    /\ NotExpired(expiry)
    /\ vaults' = [vaults EXCEPT ![v] = [Burned(v) EXCEPT !.authority = key]]
    /\ UNCHANGED <<sessions, tickets, tombs, revenue, chain>>

---------------------------------------------------------------------------
\* Sessions

\* A fresh record, stamped with the vault's generation.  What the owner signed
\* includes the game's upgrade record, which must still be the one on chain.
register_session(v, s, expires, expiry) ==
    /\ MayStep(v) /\ require_active(v)
    /\ sessions[v][s].status = "none"
    /\ expires > chain /\ expires - chain <= SessionTtl
    /\ NotExpired(expiry)
    /\ vaults' = [vaults EXCEPT ![v] = Burned(v)]
    /\ sessions' = [sessions EXCEPT ![v][s] =
          [status |-> "active", expires |-> expires, used |-> chain, seq |-> 0,
           epoch |-> vaults[v].epoch, born |-> vaults[v].turned]]
    /\ UNCHANGED <<tickets, tombs, revenue, chain>>

\* Mutant of check_session_generation: the generations are not compared.
check_no_generation(v, s) == TRUE

check_session_generation(v, s) == sessions[v][s].epoch = vaults[v].epoch

check_session_time(v, s) ==
    /\ chain <= sessions[v][s].expires
    /\ chain - sessions[v][s].used <= Inactivity

\* One call of the game, signed by the session's own address: the sequence
\* number first, then the call, after which neither the session's rent nor a
\* protected account may have changed.  The vault takes no part in the call.
session_execute(v, s, seq) ==
    /\ Exists(v) /\ require_active(v)
    /\ sessions[v][s].status = "active"
    /\ check_session_generation(v, s)
    /\ seq = sessions[v][s].seq /\ seq < MaxNonce
    /\ check_session_time(v, s)
    /\ sessions' = [sessions EXCEPT ![v][s].seq = @ + 1, ![v][s].used = chain]
    /\ UNCHANGED <<vaults, tickets, tombs, revenue, chain>>

\* Also while the vault closes.
revoke_session(v, s, expiry) ==
    /\ MayStep(v)
    /\ sessions[v][s].status = "active"
    /\ NotExpired(expiry)
    /\ sessions' = [sessions EXCEPT ![v][s].status = "revoked"]
    /\ vaults' = [vaults EXCEPT ![v] = Burned(v)]
    /\ UNCHANGED <<tickets, tombs, revenue, chain>>

\* Only dead sessions are closed; the rent goes where the owner signed.
close_session(v, s, expiry) ==
    /\ MayStep(v)
    /\ \/ sessions[v][s].status = "revoked"
       \/ sessions[v][s].status = "active" /\ chain > sessions[v][s].expires
    /\ NotExpired(expiry)
    /\ sessions' = [sessions EXCEPT ![v][s] = NoSession]
    /\ vaults' = [vaults EXCEPT ![v] = Burned(v)]
    /\ UNCHANGED <<tickets, tombs, revenue, chain>>

---------------------------------------------------------------------------
\* Closing

\* Freezes the vault; the submitter pays the ticket's rent.  held is what the
\* vault had then.
close_request(v, expiry) ==
    /\ MayStep(v) /\ require_active(v)
    /\ ~tickets[v].live
    /\ NotExpired(expiry)
    /\ vaults' = [vaults EXCEPT ![v] = [Burned(v) EXCEPT !.status = "closing",
                                                         !.held = vaults[v].lamports]]
    /\ tickets' = [tickets EXCEPT ![v] = [live |-> TRUE, deadline |-> chain + CloseGrace]]
    /\ UNCHANGED <<sessions, tombs, revenue, chain>>

\* Mutant of close_cancel: the ticket stays.
cancel_keeping_ticket(v, expiry) ==
    /\ MayStep(v)
    /\ vaults[v].status = "closing" /\ tickets[v].live
    /\ NotExpired(expiry)
    /\ vaults' = [vaults EXCEPT ![v] = [Burned(v) EXCEPT !.status = "active",
                                                         !.lamports = @ + SmallRent]]
    /\ UNCHANGED <<sessions, tickets, tombs, revenue, chain>>

\* Revives the vault, which keeps the ticket's rent.
close_cancel(v, expiry) ==
    /\ MayStep(v)
    /\ vaults[v].status = "closing" /\ tickets[v].live
    /\ NotExpired(expiry)
    /\ vaults' = [vaults EXCEPT ![v] = [Burned(v) EXCEPT !.status = "active",
                                                         !.lamports = @ + SmallRent]]
    /\ tickets' = [tickets EXCEPT ![v] = NoTicket]
    /\ UNCHANGED <<sessions, tombs, revenue, chain>>

\* check_close_mature.
Mature(v) == chain >= tickets[v].deadline

\* Anyone, once the grace is over: tombstone, full payout, vault and ticket
\* deleted.  A pid has one tombstone, whatever key claimed the vault.
close_finalize(v) ==
    /\ vaults[v].status = "closing" /\ tickets[v].live
    /\ NoTomb(v)
    /\ Mature(v)
    /\ tombs' = tombs \cup {PidOf(v)}
    /\ vaults' = [vaults EXCEPT ![v] = NoVault]
    /\ tickets' = [tickets EXCEPT ![v] = NoTicket]
    /\ UNCHANGED <<sessions, revenue, chain>>

---------------------------------------------------------------------------
\* The revenue vault

\* The first caller becomes the first administrator.
init_treasury(a) ==
    /\ ~revenue.ready
    /\ revenue' = [ready |-> TRUE, lamports |-> SmallRent, admins |-> <<a>>]
    /\ UNCHANGED <<vaults, sessions, tickets, tombs, chain>>

is_admin(a) == \E i \in 1..Len(revenue.admins) : revenue.admins[i] = a

add_admin(by, a) ==
    /\ revenue.ready /\ is_admin(by)
    /\ Len(revenue.admins) < MaxOfficers
    /\ ~is_admin(a)
    /\ revenue' = [revenue EXCEPT !.admins = Append(@, a)]
    /\ UNCHANGED <<vaults, sessions, tickets, tombs, chain>>

\* The last live slot moves into the hole.
SwapRemove(admins, i) ==
    [k \in 1..(Len(admins) - 1) |-> IF k = i THEN admins[Len(admins)] ELSE admins[k]]

remove_admin(by, a) ==
    /\ revenue.ready /\ is_admin(by)
    /\ Len(revenue.admins) > 1
    /\ \E i \in 1..Len(revenue.admins) :
          /\ revenue.admins[i] = a
          /\ revenue' = [revenue EXCEPT !.admins = SwapRemove(@, i)]
    /\ UNCHANGED <<vaults, sessions, tickets, tombs, chain>>

withdraw_revenue(by, amount) ==
    /\ revenue.ready /\ is_admin(by)
    /\ amount <= revenue.lamports - SmallRent
    /\ revenue' = [revenue EXCEPT !.lamports = @ - amount]
    /\ UNCHANGED <<vaults, sessions, tickets, tombs, chain>>

---------------------------------------------------------------------------
\* The chain

SvmTick == /\ chain < SvmHorizon
           /\ chain' = chain + 1
           /\ UNCHANGED <<vaults, sessions, tickets, tombs, revenue>>

Expiries == chain..(chain + SvmTtl)

VaultStep ==
    \E v \in Addresses, e \in Expiries :
        \/ \E fee \in SvmFees, max \in SvmCaps :
              \/ activate_v4(v, fee, max, e)
              \/ \E amount \in Amounts : withdraw_sol_v4(v, amount, fee, max, e)
              \/ withdraw_token_v4(v, fee, max, e)
              \/ execute_v4(v, fee, max, e)
              \/ execute_v5(v, fee, e)
        \/ \E key \in PassKeys : update_authority(v, key, e) \/ update_authority_v5(v, key, e)
        \/ close_request(v, e) \/ close_cancel(v, e) \/ close_finalize(v)

GameStep ==
    \E v \in Addresses, s \in SessionKeys :
        \/ \E e \in Expiries :
              \/ \E x \in 0..(SvmHorizon + SessionTtl) : register_session(v, s, x, e)
              \/ revoke_session(v, s, e) \/ close_session(v, s, e)
        \/ \E seq \in 0..MaxNonce : session_execute(v, s, seq)

RevenueStep ==
    \E by \in Officers :
        \/ init_treasury(by)
        \/ \E a \in Officers : add_admin(by, a) \/ remove_admin(by, a)
        \/ \E amount \in Amounts : withdraw_revenue(by, amount)

SvmNext == \/ VaultStep \/ GameStep \/ RevenueStep \/ SvmTick
           \/ \E v \in Addresses, amount \in Gifts : Fund(v, amount)

SvmSpec == SvmInit /\ [][SvmNext]_svmVars

---------------------------------------------------------------------------
\* Properties

\* Every variable keeps its type.
SvmTypeOK ==
    /\ vaults \in [Addresses -> [status: {"none", "active", "closing"}, nonce: 0..MaxNonce,
                                 authority: PassKeys, epoch: 0..MaxEpoch, lamports: Nat,
                                 turned: Nat, held: Nat]]
    /\ sessions \in [Addresses -> [SessionKeys ->
          [status: {"none", "active", "revoked"}, expires: Nat, used: Nat, seq: 0..MaxNonce,
           epoch: 0..MaxEpoch, born: Nat]]]
    /\ tickets \in [Addresses -> [live: BOOLEAN, deadline: Nat]]
    /\ tombs \subseteq Pids
    /\ revenue.admins \in Seq(Officers) /\ revenue.lamports \in Nat
    /\ chain \in Nat

\* A vault has a ticket exactly while it closes, and nothing that it had when
\* its close was requested leaves it before its owner cancels or the grace is
\* over (close_request, close_cancel, close_finalize, require_active).
CloseOrderly ==
    \A v \in Addresses :
        /\ tickets[v].live <=> vaults[v].status = "closing"
        /\ vaults[v].status = "closing" => vaults[v].lamports >= vaults[v].held

\* A session plays only if the vault's authority was not rotated by
\* update_authority since the session was registered, as long as the vault
\* lives and the generation has not reached its ceiling.
SessionsDieOnRotation ==
    [][\A v \in Addresses, s \in SessionKeys :
          sessions'[v][s].seq > sessions[v][s].seq =>
              sessions[v][s].born = vaults[v].turned \/ vaults[v].epoch = MaxEpoch]_svmVars

\* Once there is a revenue vault it has an administrator, no one holds two of
\* the slots, and it keeps its rent (treasury.rs).
TreasuryManaged ==
    revenue.ready =>
        /\ Len(revenue.admins) \in 1..MaxOfficers
        /\ Cardinality({revenue.admins[i] : i \in 1..Len(revenue.admins)}) = Len(revenue.admins)
        /\ revenue.lamports >= SmallRent
=============================================================================
