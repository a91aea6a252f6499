---------------------------- MODULE MCServices ----------------------------
(***************************************************************************)
(* The services that share no state, checked side by side: a behaviour is  *)
(* one part's, chosen at the start.                                        *)
(***************************************************************************)
EXTENDS PointDeposits, PointTransfers, Redemptions,
        SignUp, Sso, Experience, FeeQuotes, Settings, Handles, TLC

CONSTANTS w1, w2, u1, u2

VARIABLE part

serviceVars == <<part, depositVars, transferVars, redemptionVars, signUpVars, ssoVars, xpVars, feeVars,
                settingsVars, handleVars>>

OwnInstance == [w \in {w1, w2} |-> w]
Address(p, s) == [person |-> p, spelling |-> s]
People ==
    ("g1" :> [by |-> "google", email |-> Address("ann", "Ann")]) @@
    ("e1" :> [by |-> "email", email |-> Address("ann", "ann")]) @@
    ("g2" :> [by |-> "google", email |-> Address("bob", "bob")])
TwoCurves == (1 :> 1) @@ (2 :> 2)
OrgCapOrNone == {[a \in XpApps \cup {"org"} |-> IF a = b THEN 1 ELSE NoCap] : b \in {"org", "none"}}
Workload(g, l, s, t, f) == [gates |-> g, loads |-> l, saves |-> s, ticks |-> t, glitches |-> f]
EditorsOrGates ==
    {Workload(0, 2, 2, 0, 0), Workload(0, 1, 2, 0, 1), Workload(0, 1, 3, 0, 0),
     Workload(2, 1, 1, 1, 0), Workload(1, 1, 1, 1, 1)}
Crowd(c, r, s) == [claims |-> c, rulings |-> r, slips |-> s]
ClaimsOrRulings == {Crowd(2, 1, 0), Crowd(2, 0, 1), Crowd(1, 2, 1)}
Alike == Permutations({w1, w2}) \cup Permutations({u1, u2})

\* The two references of a mirror are interchangeable: whichever comes first is
\* called DOKU's number.
FirstByNumber == \A t \in Transfers : mirror'[t, "-IN"] # "none" => mirror'[t, "referenceNo"] # "none"

\* Bound: an outage, or an operator's own claw-back.
OutageOrByHand == outages' = 0 \/ \A d \in Deposits : \A i \in DOMAIN clawback'[d] : Candidate(clawback'[d][i])

\* Bound: two sign-up tickets, or two e-mail codes.
TicketsOrCodes == Len(ticket') < MaxTickets \/ Len(otp') < CodeRows

ServicesInit ==
    /\ part \in {"deposits", "transfers", "redemptions", "signup", "sso", "xp", "fees", "settings", "handles"}
    /\ DepositInit /\ TransferInit /\ RedemptionInit
    /\ SignUpInit /\ SsoInit /\ ExperienceInit /\ FeeInit /\ SettingsInit /\ HandlesInit
    /\ part # "fees" => feeAccount.rail = "svm"
    /\ part # "xp" => \A a \in DOMAIN highest : highest[a] = NoCap
    /\ part # "settings" => budget.loads = 2
    /\ ~(budget.saves = 2 /\ budget.glitches = 1) => \A k \in Keys \ Catalog : setting[k] = NoRow
    /\ part # "handles" => crowd.claims = 1

ServicesNext ==
    /\ UNCHANGED part
    /\ \/ /\ part = "deposits" /\ UNCHANGED <<transferVars, redemptionVars, signUpVars, ssoVars, xpVars, feeVars, settingsVars, handleVars>>
          /\ DepositNext /\ OutageOrByHand
       \/ /\ part = "transfers" /\ UNCHANGED <<depositVars, redemptionVars, signUpVars, ssoVars, xpVars, feeVars, settingsVars, handleVars>>
          /\ TransferNext /\ FirstByNumber
       \/ /\ part = "redemptions" /\ UNCHANGED <<depositVars, transferVars, signUpVars, ssoVars, xpVars, feeVars, settingsVars, handleVars>>
          /\ RedemptionNext
       \/ /\ part = "signup" /\ UNCHANGED <<depositVars, transferVars, redemptionVars, ssoVars, xpVars, feeVars, settingsVars, handleVars>>
          /\ SignUpNext /\ TicketsOrCodes
       \/ /\ part = "sso" /\ UNCHANGED <<depositVars, transferVars, redemptionVars, signUpVars, xpVars, feeVars, settingsVars, handleVars>>
          /\ SsoNext
       \/ /\ part = "xp" /\ UNCHANGED <<depositVars, transferVars, redemptionVars, signUpVars, ssoVars, feeVars, settingsVars, handleVars>>
          /\ ExperienceNext
       \/ /\ part = "fees" /\ UNCHANGED <<depositVars, transferVars, redemptionVars, signUpVars, ssoVars, xpVars, settingsVars, handleVars>>
          /\ FeeNext
       \/ /\ part = "settings" /\ UNCHANGED <<depositVars, transferVars, redemptionVars, signUpVars, ssoVars, xpVars, feeVars, handleVars>>
          /\ SettingsNext
       \/ /\ part = "handles" /\ UNCHANGED <<depositVars, transferVars, redemptionVars, signUpVars, ssoVars, xpVars, feeVars, settingsVars>>
          /\ HandlesNext

ServicesSpec == ServicesInit /\ [][ServicesNext]_serviceVars

\* Whatever the point rail moves is backed: points by a paid order, a mirrored
\* transfer by DOKU's, a payout by a burn, a claw-back by one reversal; and a
\* network fee by the user's approval.
MoneyBacked == PointsBacked /\ MirrorsBacked /\ PayoutsBacked /\ OneCandidate /\ FeesAsApproved

\* What the administrators run: settings, and the handles they rule on.
OfficeKept == SettingsKept /\ HandlesKept
===========================================================================
