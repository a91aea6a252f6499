--------------------------- MODULE PointTransfers ---------------------------
(***************************************************************************)
(* Sub-account registration and point transfers between users              *)
(* (fiat-subaccount.service.ts): inquiry, confirmation with its claim, the *)
(* recipient's mirror row, the treasury fee leg, retry, cancellation, the  *)
(* status check and the sweep.                                             *)
(*                                                                         *)
(* Row updates carry no condition, except the confirmation's claim.  DOKU  *)
(* is external: a partner reference is performed once, then answered 409.  *)
(***************************************************************************)
EXTENDS Integers, FiniteSets

CONSTANTS
    Transfers,      \* transfers of one sender
    Clerks,         \* requests being served
    Process,        \* the API process each runs in
    NoTransfer,
    MaxBreaks       \* bound: crashes, refusals and lost answers

ASSUME TransferConstants ==
    DOMAIN Process = Clerks /\ NoTransfer \notin Transfers /\ MaxBreaks \in Nat

VARIABLES
    wallet,     \* fiat_provider_accounts.accountStatus
    owned,      \* DOKU: the sub-account exists
    transfer,   \* transfer_internal rows
    mirror,     \* the recipient's points_credit rows, by reference
    feeRow,     \* the points_fee rows
    moved,      \* DOKU: the points sent
    feeMoved,   \* DOKU: the fee sent
    clerk,      \* the state of each request
    breaks

transferVars == <<wallet, owned, transfer, mirror, feeRow, moved, feeMoved, clerk, breaks>>
books == <<wallet, owned, transfer, mirror, feeRow, moved, feeMoved>>

\* What a mirror is filed under: the number DOKU's answer has for the movement,
\* or, when the answer has none, the transfer's own reference with "-IN".
MirrorRefs == {"referenceNo", "-IN"}
Mirrored(t) == \E n \in MirrorRefs : mirror[t, n] # "none"

Free == [pc |-> "idle", t |-> NoTransfer, ref |-> FALSE, saw |-> "none", fee |-> "none", sweep |-> FALSE]

TransferInit ==
    /\ wallet = "none" /\ owned = FALSE
    /\ transfer = [t \in Transfers |-> [status |-> "none", ref |-> FALSE, claim |-> FALSE]]
    /\ mirror = [m \in Transfers \X MirrorRefs |-> "none"] /\ feeRow = [t \in Transfers |-> "none"]
    /\ moved = [t \in Transfers |-> "none"] /\ feeMoved = [t \in Transfers |-> "none"]
    /\ clerk = [c \in Clerks |-> Free]
    /\ breaks = 0

---------------------------------------------------------------------------

In(c, pc) == clerk[c].pc = pc
Hand(c, r) == clerk' = [clerk EXCEPT ![c] = r]
Then(c, pc) == Hand(c, [clerk[c] EXCEPT !.pc = pc])
Leave(c) == Hand(c, Free)
Break == breaks < MaxBreaks /\ breaks' = breaks + 1

\* markTx: status and provider response together.
markTx(t, status, ref) == transfer' = [transfer EXCEPT ![t] = [status |-> status, ref |-> ref, claim |-> FALSE]]

\* withPidLocks: confirm and retry of one process take turns.
Locked == {"claim", "pay", "fail", "submitted", "status", "adopt", "mirror", "fee", "feeMark", "end",
           "reinquire", "release"}
MayLock(c) == \A v \in Clerks \ {c} : Process[v] = Process[c] => (clerk[v].pc \notin Locked \/ clerk[v].sweep)

---------------------------------------------------------------------------
\* registerAccount: `creating` before the call, `failed` when no answer came.
\* DOKU refuses a second account for the email.

registerAccount(c) ==
    /\ In(c, "idle") /\ wallet \in {"none", "creating", "failed"}
    /\ ~\E v \in Clerks : Process[v] = Process[c] /\ In(v, "register")
    /\ wallet' = "creating" /\ Then(c, "register")
    /\ UNCHANGED <<owned, transfer, mirror, feeRow, moved, feeMoved, breaks>>

registerAnswer(c) ==
    /\ In(c, "register") /\ Leave(c)
    /\ \/ ~owned /\ owned' = TRUE /\ wallet' = "active" /\ UNCHANGED breaks
       \/ owned /\ wallet' = "failed" /\ UNCHANGED <<owned, breaks>>
       \/ Break /\ wallet' = "failed" /\ owned' \in {owned, TRUE}
    /\ UNCHANGED <<transfer, mirror, feeRow, moved, feeMoved>>

\* A register notification, or the operator the orphan's error asks for, links
\* the existing profile.
linkProfile ==
    /\ wallet = "failed" /\ owned /\ wallet' = "active"
    /\ UNCHANGED <<owned, transfer, mirror, feeRow, moved, feeMoved, clerk, breaks>>

---------------------------------------------------------------------------
\* transferInquiry: the row, then the handshake that gives its referenceNo.

transferInquiry(c, t) ==
    /\ In(c, "idle") /\ wallet = "active" /\ transfer[t].status = "none"
    /\ markTx(t, "created", FALSE)
    /\ Hand(c, [Free EXCEPT !.pc = "inquire", !.t = t])
    /\ UNCHANGED <<wallet, owned, mirror, feeRow, moved, feeMoved, breaks>>

inquiryAnswer(c) ==
    /\ In(c, "inquire") /\ Leave(c)
    /\ \/ markTx(clerk[c].t, "created", TRUE) /\ UNCHANGED breaks
       \/ markTx(clerk[c].t, "failed", FALSE) /\ Break
    /\ UNCHANGED <<wallet, owned, mirror, feeRow, moved, feeMoved>>

---------------------------------------------------------------------------
\* transferConfirm

\* The row is read under the lock; only a `created` one goes on.
transferConfirm(c, t) ==
    /\ In(c, "idle") /\ MayLock(c) /\ transfer[t].status = "created"
    /\ Hand(c, [Free EXCEPT !.pc = "claim", !.t = t, !.ref = transfer[t].ref])
    /\ UNCHANGED <<books, breaks>>

\* The claim keeps the provider response read before and adds its mark.  A
\* missing handshake, a changed holder name or an unreadable policy then
\* throws and leaves the claim.
claimTransfer(c) ==
    /\ In(c, "claim")
    /\ LET t == clerk[c].t
       IN  IF transfer[t].status = "created"
           THEN /\ transfer' = [transfer EXCEPT ![t] = [status |-> "processing", ref |-> clerk[c].ref, claim |-> TRUE]]
                /\ \/ clerk[c].ref /\ Then(c, "pay") /\ UNCHANGED breaks
                   \/ ~clerk[c].ref /\ Leave(c) /\ UNCHANGED breaks
                   \/ Break /\ Leave(c)
           ELSE Leave(c) /\ UNCHANGED <<transfer, breaks>>
    /\ UNCHANGED <<wallet, owned, mirror, feeRow, moved, feeMoved>>

\* transferPayment.  A lost answer is retried and then refused as a duplicate.
payTransfer(c) ==
    /\ In(c, "pay")
    /\ LET t == clerk[c].t
       IN  \/ /\ moved[t] = "none" /\ Then(c, "submitted") /\ UNCHANGED breaks
              /\ \E s \in {"processing", "settled"} : moved' = [moved EXCEPT ![t] = s]
           \/ moved[t] # "none" /\ Then(c, "fail") /\ UNCHANGED <<moved, breaks>>
           \/ /\ Break /\ Then(c, "fail")
              /\ \/ UNCHANGED moved
                 \/ moved[t] = "none" /\ moved' = [moved EXCEPT ![t] = "processing"]
    /\ UNCHANGED <<wallet, owned, transfer, mirror, feeRow, feeMoved>>

failTransfer(c) ==
    /\ In(c, "fail") /\ Leave(c) /\ markTx(clerk[c].t, "failed", FALSE)
    /\ UNCHANGED <<wallet, owned, mirror, feeRow, moved, feeMoved, breaks>>

submitted(c) ==
    /\ In(c, "submitted") /\ Then(c, "status") /\ markTx(clerk[c].t, "processing", TRUE)
    /\ UNCHANGED <<wallet, owned, mirror, feeRow, moved, feeMoved, breaks>>

\* txStatus: DOKU's answer, or `processing` without one.
askStatus(c) ==
    /\ In(c, "status")
    /\ \/ Hand(c, [clerk[c] EXCEPT !.pc = "adopt", !.saw = moved[clerk[c].t]]) /\ UNCHANGED breaks
       \/ Break /\ Hand(c, [clerk[c] EXCEPT !.pc = "adopt", !.saw = "processing"])
    /\ UNCHANGED books

adoptStatus(c) ==
    /\ In(c, "adopt") /\ Then(c, "mirror")
    /\ IF clerk[c].saw = "processing" THEN UNCHANGED transfer ELSE markTx(clerk[c].t, clerk[c].saw, TRUE)
    /\ UNCHANGED <<wallet, owned, mirror, feeRow, moved, feeMoved, breaks>>

\* The row of one reference gets a status.
FileMirror(t, n, status) == mirror' = [mirror EXCEPT ![<<t, n>>] = status]

\* The mirror row is created with the status seen; a settlement updates it.  A
\* write that fails is logged.
writeMirror(c) ==
    /\ In(c, "mirror") /\ Then(c, "fee")
    /\ LET t == clerk[c].t
       IN  \/ /\ UNCHANGED breaks
              /\ \E n \in MirrorRefs :
                    FileMirror(t, n, IF mirror[t, n] = "none" \/ clerk[c].saw = "settled" THEN clerk[c].saw ELSE mirror[t, n])
           \/ Break /\ UNCHANGED mirror
    /\ UNCHANGED <<wallet, owned, transfer, feeRow, moved, feeMoved>>

\* executePointFeeLeg: returned when settled or under way, otherwise executed
\* under its one reference and corroborated.
feeLeg(c) ==
    /\ In(c, "fee")
    /\ LET t == clerk[c].t
           mark(s) == Hand(c, [clerk[c] EXCEPT !.pc = "feeMark", !.fee = s])
           row == feeRow' = [feeRow EXCEPT ![t] = IF @ = "none" THEN "created" ELSE @]
       IN  \/ feeRow[t] \in {"settled", "processing"} /\ Then(c, "end") /\ UNCHANGED <<feeRow, feeMoved, breaks>>
           \/ /\ feeRow[t] \notin {"settled", "processing"} /\ row
              /\ \/ /\ feeMoved[t] = "none" /\ UNCHANGED breaks
                    /\ \E s \in {"processing", "settled"} : feeMoved' = [feeMoved EXCEPT ![t] = s] /\ mark(s)
                 \/ feeMoved[t] # "none" /\ mark(feeMoved[t]) /\ UNCHANGED <<feeMoved, breaks>>
                 \/ Break /\ mark("failed") /\ UNCHANGED feeMoved
    /\ UNCHANGED <<wallet, owned, transfer, mirror, moved>>

feeMark(c) ==
    /\ In(c, "feeMark")
    /\ feeRow' = [feeRow EXCEPT ![clerk[c].t] = clerk[c].fee]
    /\ Then(c, "end")
    /\ UNCHANGED <<wallet, owned, transfer, mirror, moved, feeMoved, breaks>>

\* The last update of a confirmation that did not see a settlement; a sweep
\* goes on with the transfer itself.
endConfirm(c) ==
    /\ In(c, "end")
    /\ IF clerk[c].sweep
       THEN Then(c, "sweepStatus") /\ UNCHANGED transfer
       ELSE /\ Leave(c)
            /\ IF clerk[c].saw = "settled" THEN UNCHANGED transfer ELSE markTx(clerk[c].t, "processing", TRUE)
    /\ UNCHANGED <<wallet, owned, mirror, feeRow, moved, feeMoved, breaks>>

---------------------------------------------------------------------------
\* retryTransfer, cancelTx, syncTx

\* A claim without a referenceNo is released first.
Abandoned(t) == transfer[t].status = "processing" /\ transfer[t].claim /\ ~transfer[t].ref
Retryable(t) == Abandoned(t) \/ transfer[t].status = "failed" \/ (transfer[t].status = "created" /\ ~transfer[t].ref)

retryTransfer(c, t) ==
    /\ In(c, "idle") /\ MayLock(c) /\ Retryable(t)
    /\ Hand(c, [Free EXCEPT !.pc = IF Abandoned(t) THEN "release" ELSE "reinquire", !.t = t])
    /\ UNCHANGED <<books, breaks>>

releaseClaim(c) ==
    /\ In(c, "release") /\ Then(c, "reinquire") /\ markTx(clerk[c].t, "created", FALSE)
    /\ UNCHANGED <<wallet, owned, mirror, feeRow, moved, feeMoved, breaks>>

\* The inquiry under the same reference; DOKU refuses a performed one.
reinquire(c) ==
    /\ In(c, "reinquire") /\ Leave(c)
    /\ \/ moved[clerk[c].t] = "none" /\ markTx(clerk[c].t, "created", TRUE) /\ UNCHANGED breaks
       \/ moved[clerk[c].t] # "none" /\ UNCHANGED <<transfer, breaks>>
       \/ Break /\ UNCHANGED transfer
    /\ UNCHANGED <<wallet, owned, mirror, feeRow, moved, feeMoved>>

cancelTransfer(c, t) ==
    /\ In(c, "idle") /\ transfer[t].status = "created"
    /\ Hand(c, [Free EXCEPT !.pc = "cancel", !.t = t])
    /\ UNCHANGED <<books, breaks>>

writeCancel(c) ==
    /\ In(c, "cancel") /\ Leave(c) /\ markTx(clerk[c].t, "cancelled", FALSE)
    /\ UNCHANGED <<wallet, owned, mirror, feeRow, moved, feeMoved, breaks>>

\* syncTx, a notification or a reconciliation of an open row: DOKU's status.
syncTransfer(c, t) ==
    /\ In(c, "idle") /\ transfer[t].status \in {"created", "processing"} /\ moved[t] # "none"
    /\ Hand(c, [Free EXCEPT !.pc = "sync", !.t = t, !.saw = moved[t]])
    /\ UNCHANGED <<books, breaks>>

writeSync(c) ==
    /\ In(c, "sync") /\ Leave(c) /\ markTx(clerk[c].t, clerk[c].saw, TRUE)
    /\ UNCHANGED <<wallet, owned, mirror, feeRow, moved, feeMoved, breaks>>

---------------------------------------------------------------------------
\* adminSweep and adminBackfillMirrors

\* The sweep first completes the fee leg.
adminSweep(c, t) ==
    /\ In(c, "idle") /\ transfer[t].status \in {"processing", "settled"}
    /\ Hand(c, [Free EXCEPT !.pc = "fee", !.t = t, !.sweep = TRUE, !.saw = transfer[t].status])
    /\ UNCHANGED <<books, breaks>>

\* Then it corroborates an open transfer, and a mirror with it.
sweepStatus(c) ==
    /\ In(c, "sweepStatus") /\ Then(c, "ensure")
    /\ LET t == clerk[c].t
       IN  IF clerk[c].saw = "processing" /\ moved[t] \in {"settled", "failed"}
           THEN /\ markTx(t, moved[t], TRUE)
                /\ \/ \E n \in MirrorRefs : mirror[t, n] # "none" /\ moved[t] = "settled" /\ FileMirror(t, n, "settled")
                   \/ ~(Mirrored(t) /\ moved[t] = "settled") /\ UNCHANGED mirror
           ELSE UNCHANGED <<transfer, mirror>>
    /\ UNCHANGED <<wallet, owned, feeRow, moved, feeMoved, breaks>>

adminBackfillMirrors(c, t) ==
    /\ In(c, "idle") /\ transfer[t].status \in {"processing", "settled"} /\ ~Mirrored(t)
    /\ Hand(c, [Free EXCEPT !.pc = "ensure", !.t = t])
    /\ UNCHANGED <<books, breaks>>

\* ensureTransferMirror looks for a mirror of the transfer first; a look that
\* fails counts as none.
findMirror(c) ==
    /\ In(c, "ensure")
    /\ \/ Mirrored(clerk[c].t) /\ Leave(c) /\ UNCHANGED breaks
       \/ ~Mirrored(clerk[c].t) /\ Then(c, "backfill") /\ UNCHANGED breaks
       \/ Mirrored(clerk[c].t) /\ Break /\ Then(c, "backfill")
    /\ UNCHANGED books

\* Mutant of backfillMirror: the movement is not corroborated.
backfillUnchecked(c) ==
    /\ In(c, "backfill") /\ Leave(c)
    /\ \E n \in MirrorRefs :
          FileMirror(clerk[c].t, n, IF mirror[clerk[c].t, n] = "none" THEN "settled" ELSE mirror[clerk[c].t, n])
    /\ UNCHANGED <<wallet, owned, transfer, feeRow, moved, feeMoved, breaks>>

\* It writes a missing one only for a transfer DOKU has settled, and leaves a
\* row of the same reference alone.
backfillMirror(c) ==
    /\ In(c, "backfill") /\ Leave(c)
    /\ LET t == clerk[c].t
       IN  \E n \in MirrorRefs :
              FileMirror(t, n, IF mirror[t, n] = "none" /\ moved[t] = "settled" THEN "settled" ELSE mirror[t, n])
    /\ UNCHANGED <<wallet, owned, transfer, feeRow, moved, feeMoved, breaks>>

---------------------------------------------------------------------------

\* DOKU completes or refuses a movement it accepted.
MovementEnds(t) ==
    /\ \/ moved[t] = "processing" /\ UNCHANGED feeMoved
          /\ \/ moved' = [moved EXCEPT ![t] = "settled"] /\ UNCHANGED breaks
             \/ moved' = [moved EXCEPT ![t] = "failed"] /\ Break
       \/ feeMoved[t] = "processing" /\ UNCHANGED <<moved, breaks>>
          /\ feeMoved' = [feeMoved EXCEPT ![t] = "settled"]
    /\ UNCHANGED <<wallet, owned, transfer, mirror, feeRow, clerk>>

CrashClerk(c) ==
    /\ ~In(c, "idle") /\ Break /\ Leave(c)
    /\ UNCHANGED books

TransferNext ==
    \/ linkProfile
    \/ \E t \in Transfers : MovementEnds(t)
    \/ \E c \in Clerks :
         \/ registerAccount(c) \/ registerAnswer(c) \/ inquiryAnswer(c) \/ claimTransfer(c)
         \/ payTransfer(c) \/ failTransfer(c) \/ submitted(c) \/ askStatus(c) \/ adoptStatus(c)
         \/ writeMirror(c) \/ feeLeg(c) \/ feeMark(c) \/ endConfirm(c) \/ releaseClaim(c)
         \/ reinquire(c) \/ writeCancel(c) \/ writeSync(c) \/ sweepStatus(c)
         \/ findMirror(c) \/ backfillMirror(c) \/ CrashClerk(c)
    \/ \E c \in Clerks, t \in Transfers :
         \/ transferInquiry(c, t) \/ transferConfirm(c, t) \/ retryTransfer(c, t)
         \/ cancelTransfer(c, t) \/ syncTransfer(c, t) \/ adminSweep(c, t) \/ adminBackfillMirrors(c, t)

TransferSpec == TransferInit /\ [][TransferNext]_transferVars

---------------------------------------------------------------------------
\* Properties

TransferTypeOK ==
    LET Statuses == {"none", "created", "processing", "settled", "failed", "cancelled"}
        Movements == {"none", "processing", "settled", "failed"}
    IN  /\ wallet \in {"none", "creating", "failed", "active"} /\ owned \in BOOLEAN
        /\ transfer \in [Transfers -> [status: Statuses, ref: BOOLEAN, claim: BOOLEAN]]
        /\ mirror \in [Transfers \X MirrorRefs -> Movements] /\ feeRow \in [Transfers -> Statuses]
        /\ moved \in [Transfers -> Movements] /\ feeMoved \in [Transfers -> Movements]

\* The journal credits a recipient, under whatever reference, only with what DOKU
\* delivered, and shows a transfer settled only if it is: across late answers, retries, sweeps and
\* confirmations on several instances.
MirrorsBacked ==
    \A t \in Transfers :
        /\ \A n \in MirrorRefs : mirror[t, n] = "settled" => moved[t] = "settled"
        /\ transfer[t].status = "settled" => moved[t] = "settled"
        /\ feeRow[t] = "settled" => feeMoved[t] = "settled"
=============================================================================
