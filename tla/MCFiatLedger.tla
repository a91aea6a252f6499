---------------------------- MODULE MCFiatLedger ----------------------------
(***************************************************************************)
(* Instances of the fiat rail for TLC.  Identity 1 is a customer, 2 owns   *)
(* the app.  Every configuration of the rail gets its constants from here; *)
(* the sets it leaves empty switch operations off.                         *)
(***************************************************************************)
EXTENDS FiatReplay, TLC

CONSTANTS app1, d1, d2

\* 0.1 % with a floor of 100, and 11 % tax on the fee: the default policy.
DefaultPolicy == [percentBps |-> 10, minIdr |-> 100, maxIdr |-> 0, taxBps |-> 1100]
MCFeePolicies == {DefaultPolicy}

MCAppOwner  == [a \in {app1} |-> 2]
MCAppPolicy == [a \in {app1} |-> [percentBps |-> 200, minIdr |-> 0, maxIdr |-> 0, taxBps |-> 0]]

\* d1 funds the customer and pays an app fee, d2 funds the app's owner.
MCDepositQuote ==
    [d \in Deposits |-> IF d = d1
        THEN [pid |-> 1, net |-> 100000, fee |-> 100, tax |-> 11, app |-> app1, owner |-> 2, appFee |-> 2000]
        ELSE [pid |-> 2, net |-> 50000, fee |-> 100, tax |-> 11, app |-> NoApp, owner |-> 2, appFee |-> 0]]

MCPayQuote ==
    [p \in Payments |-> [app |-> app1, payer |-> 1, to |-> 2, amount |-> 90000,
                         fee |-> 100, tax |-> 11, appFee |-> 1800]]

\* Requests and intents are interchangeable.
Symmetry == Permutations(Reqs) \cup Permutations(Intents)
=============================================================================
