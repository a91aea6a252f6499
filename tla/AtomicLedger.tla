---------------------------- MODULE AtomicLedger ----------------------------
(***************************************************************************)
(* What the fiat rail promises: a ledger on which bookings happen at once, *)
(* each of them one time.  A booking from outside (a deposit, a payment, a *)
(* faucet credit) only adds; any other takes from one account that can     *)
(* afford it and gives out no more than it took.                           *)
(***************************************************************************)
EXTENDS Integers, FiniteSetsExt

CONSTANTS
    Accounts,   \* owners of a balance
    Sources     \* bookings that bring money in

VARIABLES
    balance,    \* of each account
    booked      \* bookings made

ledgerVars == <<balance, booked>>

Total(b) == MapThenSumSet(LAMBDA p : b[p], Accounts)

LedgerInit == balance = [p \in Accounts |-> 0] /\ booked = {}

BringIn(g) ==
    /\ g \in Sources
    /\ \A p \in Accounts : balance'[p] >= balance[p]

MoveOn(g) ==
    /\ g \notin Sources
    /\ \E payer \in Accounts :
          /\ balance'[payer] >= 0
          /\ \A p \in Accounts \ {payer} : balance'[p] >= balance[p]
    /\ Total(balance') <= Total(balance)

LedgerNext ==
    \E g \in booked' \ booked :
        /\ booked' = booked \cup {g}
        /\ BringIn(g) \/ MoveOn(g)

LedgerSpec == LedgerInit /\ [][LedgerNext]_ledgerVars
=============================================================================
