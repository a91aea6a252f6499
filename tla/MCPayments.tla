----------------------------- MODULE MCPayments -----------------------------
(***************************************************************************)
(* For TLC, side by side (a behaviour is one part's, chosen at the start): *)
(* direct payments, and the faucet, both with corrections; the outbox that *)
(* delivers the ledger's events; the login sessions and the passkeys; and  *)
(* the popups that approve for a page.                                     *)
(***************************************************************************)
EXTENDS MCFiatLedger, WebhookOutbox, Access, Approvals

CONSTANTS ann, bob

VARIABLE part

Asked ==
    [payments |-> {"none", "create", "sync", "cancelpay", "refund", "adjust"},
     faucet   |-> {"none", "mint", "adjust"}]

\* d1 sends money as ann, calls as bob and asks for what cannot be approved; d2
\* calls as bob.
Offered(d, p, k) == [page |-> d, named |-> p, kind |-> k]
MCOffers == {Offered(d1, ann, "fiat"), Offered(d1, bob, "wallet"), Offered(d1, NoAccount, "invalid"),
             Offered(d2, bob, "wallet")}

\* Bound: with two pages asking, nobody uses the wallet's own tab too.
OnePage == \E d \in Pages : \A r \in Asks : ask[r].is = "new" \/ ask[r].offer.page = d

OneCap == [m \in Methods |-> 1]

PaymentsInit ==
    /\ Init /\ OutboxInit /\ SessionsInit /\ PasskeysInit /\ ApprovalInit
    /\ part \in DOMAIN Asked \cup {"outbox", "sessions", "passkeys", "approvals"}
    /\ part # "approvals" => account = ann

LedgerNext ==
    /\ Next
    /\ \A r \in Reqs : tx'[r].op \in Asked[part]
    /\ part = "faucet" => UNCHANGED payVars

\* All but the ledger may come to rest.
PaymentsNext ==
    /\ UNCHANGED part
    /\ \/ part \in DOMAIN Asked /\ LedgerNext /\ UNCHANGED <<outboxVars, sessionVars, passkeyVars, approvalVars>>
       \/ part = "outbox" /\ OutboxNext /\ UNCHANGED <<vars, sessionVars, passkeyVars, approvalVars>>
       \/ part = "sessions" /\ SessionsNext /\ UNCHANGED <<vars, outboxVars, passkeyVars, approvalVars>>
       \/ part = "passkeys" /\ PasskeysNext /\ UNCHANGED <<vars, outboxVars, sessionVars, approvalVars>>
       \/ /\ part = "approvals" /\ ApprovalNext /\ (choices' = 0 \/ OnePage')
          /\ UNCHANGED <<vars, outboxVars, sessionVars, passkeyVars>>
       \/ part \notin DOMAIN Asked /\ UNCHANGED <<vars, outboxVars, sessionVars, passkeyVars, approvalVars>>

paymentsVars == <<vars, outboxVars, sessionVars, passkeyVars, approvalVars, part>>
PaymentsSpec == PaymentsInit /\ [][PaymentsNext]_paymentsVars

\* Requests (which are also the tabs, dispatchers, devices and asks), credit ids
\* and refund ids (which are also the passkeys and challenges) are interchangeable.
PaySymmetry == Permutations(Reqs) \cup Permutations(RefundIds) \cup Permutations(Credits)
=============================================================================
