---------------------------- MODULE Redemptions ----------------------------
(***************************************************************************)
(* The redemption saga (fiat-subaccount.service.ts): a claim is burned at  *)
(* DOKU, then paid out to a bank account from the treasury pool.  A sweep  *)
(* resumes what a crash left and expires what was never burned; an         *)
(* unexplained backing gap halts redemptions.                              *)
(*                                                                         *)
(* The parent, burn and payout rows are updated without conditions.  DOKU  *)
(* and the pool's liquidity are external.                                  *)
(***************************************************************************)
EXTENDS Integers, FiniteSets

CONSTANTS
    Claims,         \* redemption requests
    Tellers,        \* requests and sweeps being served
    Site,           \* the API process each runs in
    NoClaim,
    MaxTroubles     \* bound: crashes, refusals, lost answers and halts

ASSUME RedemptionConstants ==
    DOMAIN Site = Tellers /\ NoClaim \notin Claims /\ MaxTroubles \in Nat

VARIABLES
    claim,      \* the redemption rows
    burnRow,    \* the points_redeem rows
    payRow,     \* the fiat_payout rows
    burnt,      \* DOKU: the points debited
    paidOut,    \* DOKU: the bank transfer
    halted,     \* redemptionHalted, per process
    teller,     \* the state of each request
    troubles

redemptionVars == <<claim, burnRow, payRow, burnt, paidOut, halted, teller, troubles>>
saga == <<claim, burnRow, payRow, burnt, paidOut, halted>>

Off == [pc |-> "idle", r |-> NoClaim, saw |-> "none", resumed |-> FALSE]

RedemptionInit ==
    /\ claim = [r \in Claims |-> [status |-> "none", ledger |-> "none", old |-> FALSE]]
    /\ burnRow = [r \in Claims |-> "none"] /\ payRow = [r \in Claims |-> "none"]
    /\ burnt = [r \in Claims |-> "none"] /\ paidOut = [r \in Claims |-> "none"]
    /\ halted = [s \in {Site[x] : x \in Tellers} |-> FALSE]
    /\ teller = [x \in Tellers |-> Off]
    /\ troubles = 0

---------------------------------------------------------------------------

Has(x, pc) == teller[x].pc = pc
Pass(x, r) == teller' = [teller EXCEPT ![x] = r]
Onward(x, pc) == Pass(x, [teller[x] EXCEPT !.pc = pc])
End(x) == Pass(x, Off)
Trouble == troubles < MaxTroubles /\ troubles' = troubles + 1
PutRow(rows, r, s) == [rows EXCEPT ![r] = s]
Parent(r, status, ledger) == claim' = [claim EXCEPT ![r].status = status, ![r].ledger = ledger]

\* requestRedemption: refused while halted; the claimant's lock; the parent row.
\* The replayed balance covers the amount (DOKU decides at the burn).
requestRedemption(x, r) ==
    /\ Has(x, "idle") /\ claim[r].status = "none" /\ ~halted[Site[x]]
    /\ \A y \in Tellers : Site[y] = Site[x] /\ ~teller[y].resumed => Has(y, "idle")
    /\ Parent(r, "created", "requested")
    /\ Pass(x, [Off EXCEPT !.pc = "burn", !.r = r])
    /\ UNCHANGED <<burnRow, payRow, burnt, paidOut, halted, troubles>>

\* The burn row, then the debit.  A duplicate reference is asked for its
\* status; three unanswered calls fail the request, performed or not.
burn(x) ==
    /\ Has(x, "burn")
    /\ LET r == teller[x].r
       IN  /\ burnRow' = PutRow(burnRow, r, "created")
           /\ \/ \E s \in {"processing", "settled"} :
                   /\ burnt' = PutRow(burnt, r, s) /\ UNCHANGED troubles
                   /\ Pass(x, [teller[x] EXCEPT !.pc = "burned", !.saw = s])
              \/ /\ Trouble /\ Pass(x, [teller[x] EXCEPT !.pc = "burned", !.saw = "failed"])
                 /\ \E s \in {"none", "settled"} : burnt' = PutRow(burnt, r, s)
    /\ UNCHANGED <<claim, payRow, paidOut, halted>>

\* A settled burn is extinguished; a failed one releases the request; one
\* under way counts as burned and is left to the sweep.
markBurn(x) ==
    /\ Has(x, "burned")
    /\ LET r == teller[x].r
           s == teller[x].saw
       IN  CASE s = "settled" -> /\ burnRow' = PutRow(burnRow, r, "settled") /\ Onward(x, "markBurned")
                                 /\ UNCHANGED claim
             [] s = "failed" -> /\ burnRow' = PutRow(burnRow, r, "failed") /\ End(x)
                                /\ Parent(r, "failed", "failed")
             [] OTHER -> UNCHANGED burnRow /\ End(x) /\ Parent(r, "processing", "burned")
    /\ UNCHANGED <<payRow, burnt, paidOut, halted, troubles>>

markBurned(x) ==
    /\ Has(x, "markBurned") /\ Onward(x, "payout")
    /\ claim' = [claim EXCEPT ![teller[x].r].ledger = "burned"]
    /\ UNCHANGED <<burnRow, payRow, burnt, paidOut, halted, troubles>>

---------------------------------------------------------------------------
\* executeRedemptionPayout

\* A payout settled or under way completes the parent; otherwise liquidity is
\* ensured and the row created once.
payout(x) ==
    /\ Has(x, "payout")
    /\ LET r == teller[x].r
       IN  \/ /\ payRow[r] \in {"settled", "processing"} /\ End(x)
              /\ Parent(r, payRow[r], "completed") /\ UNCHANGED <<payRow, troubles>>
           \/ /\ payRow[r] \notin {"settled", "processing"}
              /\ payRow' = PutRow(payRow, r, IF payRow[r] = "none" THEN "created" ELSE payRow[r])
              /\ Onward(x, "transfer") /\ UNCHANGED <<claim, troubles>>
           \/ Trouble /\ End(x) /\ UNCHANGED <<claim, payRow>>   \* insufficient liquidity
    /\ UNCHANGED <<burnRow, burnt, paidOut, halted>>

\* The bank transfer under its one reference, and the status seen after it
\* (`processing` when the lookup fails).
payoutTransfer(x) ==
    /\ Has(x, "transfer")
    /\ LET r == teller[x].r
           see(s) == Pass(x, [teller[x] EXCEPT !.pc = "payMark", !.saw = s])
       IN  \/ /\ paidOut[r] = "none" /\ UNCHANGED troubles
              /\ \E s \in {"processing", "settled"} : \E seen \in {"processing", s} :
                    paidOut' = PutRow(paidOut, r, s) /\ see(seen)
           \/ /\ paidOut[r] # "none" /\ UNCHANGED <<paidOut, troubles>>
              /\ see(IF paidOut[r] = "processing" THEN "duplicate" ELSE paidOut[r])
           \/ /\ Trouble /\ see("failed")
              /\ \/ UNCHANGED paidOut
                 \/ paidOut[r] = "none" /\ paidOut' = PutRow(paidOut, r, "settled")
    /\ UNCHANGED <<claim, burnRow, payRow, burnt, halted>>

\* The payout row and the parent.  A duplicate still under way reads as failed.
markPayout(x) ==
    /\ Has(x, "payMark") /\ End(x)
    /\ LET r == teller[x].r
           s == IF teller[x].saw = "duplicate" THEN "processing" ELSE teller[x].saw
       IN  /\ payRow' = PutRow(payRow, r, s)
           /\ Parent(r, s, CASE s = "settled" -> "completed"
                             [] teller[x].saw = "processing" -> "burned"
                             [] OTHER -> "payout_failed")
    /\ UNCHANGED <<burnRow, burnt, paidOut, halted, troubles>>

---------------------------------------------------------------------------
\* The sweep

\* Mutant of resumes: whatever is not finished is paid out.
resumesAny(ledger) == ledger \in {"requested", "burned", "payout_failed"}

resumes(ledger) == ledger \in {"burned", "payout_failed"}

\* recoverRedemptions: open rows only; burned ones are paid out, others expire
\* after fifteen minutes.
recoverRedemptions(x, r) ==
    /\ Has(x, "idle") /\ claim[r].status \in {"created", "processing"}
    /\ \/ resumes(claim[r].ledger) /\ Pass(x, [Off EXCEPT !.pc = "payout", !.r = r, !.resumed = TRUE])
       \/ /\ ~resumes(claim[r].ledger) /\ claim[r].old
          /\ Pass(x, [Off EXCEPT !.pc = "expire", !.r = r, !.resumed = TRUE])
    /\ UNCHANGED <<saga, troubles>>

expire(x) ==
    /\ Has(x, "expire") /\ End(x)
    /\ Parent(teller[x].r, "cancelled", "expired")
    /\ UNCHANGED <<burnRow, payRow, burnt, paidOut, halted, troubles>>

\* adminSweep's verdict on the backing, or an operator, halts this process;
\* setRedemptionHalt releases it.
setRedemptionHalt(s, halt) ==
    /\ halted[s] # halt /\ halted' = [halted EXCEPT ![s] = halt]
    /\ IF halt THEN Trouble ELSE UNCHANGED troubles
    /\ UNCHANGED <<claim, burnRow, payRow, burnt, paidOut, teller>>

\* Fifteen minutes pass.
FifteenMinutes(r) ==
    /\ claim[r].status # "none" /\ ~claim[r].old
    /\ claim' = [claim EXCEPT ![r].old = TRUE]
    /\ UNCHANGED <<burnRow, payRow, burnt, paidOut, halted, teller, troubles>>

\* DOKU completes or refuses what it accepted.
SagaMovementEnds(r) ==
    /\ \/ burnt[r] = "processing" /\ UNCHANGED paidOut
          /\ \/ burnt' = PutRow(burnt, r, "settled") /\ UNCHANGED troubles
             \/ burnt' = PutRow(burnt, r, "failed") /\ Trouble
       \/ paidOut[r] = "processing" /\ UNCHANGED burnt
          /\ \/ paidOut' = PutRow(paidOut, r, "settled") /\ UNCHANGED troubles
             \/ paidOut' = PutRow(paidOut, r, "failed") /\ Trouble
    /\ UNCHANGED <<claim, burnRow, payRow, halted, teller>>

\* A crash ends the process's requests and forgets its halt.
CrashSite(s) ==
    /\ Trouble
    /\ teller' = [x \in Tellers |-> IF Site[x] = s THEN Off ELSE teller[x]]
    /\ halted' = [halted EXCEPT ![s] = FALSE]
    /\ UNCHANGED <<claim, burnRow, payRow, burnt, paidOut>>

RedemptionNext ==
    \/ \E x \in Tellers :
         \/ burn(x) \/ markBurn(x) \/ markBurned(x) \/ payout(x) \/ payoutTransfer(x) \/ markPayout(x) \/ expire(x)
    \/ \E x \in Tellers, r \in Claims : requestRedemption(x, r) \/ recoverRedemptions(x, r)
    \/ \E s \in DOMAIN halted : CrashSite(s) \/ \E halt \in BOOLEAN : setRedemptionHalt(s, halt)
    \/ \E r \in Claims : FifteenMinutes(r) \/ SagaMovementEnds(r)

RedemptionSpec == RedemptionInit /\ [][RedemptionNext]_redemptionVars

---------------------------------------------------------------------------
\* Properties

RedemptionTypeOK ==
    LET Statuses == {"none", "created", "processing", "settled", "failed", "cancelled"}
    IN  /\ claim \in [Claims -> [status: Statuses, old: BOOLEAN,
              ledger: {"none", "requested", "burned", "completed", "payout_failed", "failed", "expired"}]]
        /\ burnRow \in [Claims -> Statuses] /\ payRow \in [Claims -> Statuses]

\* No bank transfer leaves the pool for a claim DOKU was never asked to burn,
\* and a completed redemption has one: through crashes, resumed payouts and a
\* sweep that runs beside the request.
PayoutsBacked ==
    \A r \in Claims :
        /\ paidOut[r] # "none" => burnt[r] # "none"
        /\ claim[r].ledger = "completed" => paidOut[r] # "none"

\* "requested-without-burn older than 15 minutes expires (releases the request
\* - nothing moved)": the points of an expired redemption are still there.
ExpiredUnburned ==
    \A r \in Claims : claim[r].ledger = "expired" => burnt[r] = "none"
=============================================================================
