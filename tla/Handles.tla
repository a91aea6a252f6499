------------------------------ MODULE Handles ------------------------------
(***************************************************************************)
(* PID handles (pids/pids.service.ts): the contract claim with its receipt *)
(* and its freeze while a takedown report is open, the sign-up's claim,    *)
(* which has neither, the reports, the appeal and the admin's decision,    *)
(* which may free the handle.  What both claims call is claim.service.ts,  *)
(* one transaction here (SignUp has its steps).                            *)
(*                                                                         *)
(* A query whose failure the code swallows (.catch) may slip.              *)
(***************************************************************************)
EXTENDS Integers, Sequences, FiniteSets, Functions

CONSTANTS
    Handles, Squatters, \* who claims, each with a ticket
    ClaimKeys,          \* idempotency keys
    ClaimCalls,         \* claims under way
    Rulings,            \* appeals and decisions under way
    BulkThreshold,      \* BULK_CLAIM_THRESHOLD
    MaxReports,         \* bound: reports filed
    Crowds              \* bounds, of which a behaviour has one: claims, rulings, slips

NoKey == "none" \* of a claim without one

ASSUME HandleConstants ==
    /\ NoKey \notin ClaimKeys
    /\ BulkThreshold \in Nat /\ MaxReports \in Nat
    /\ Crowds \subseteq [claims : Nat, rulings : Nat, slips : Nat]

VARIABLES
    holding,    \* identities: handle -> holder, of the handles that are taken
    receipts,   \* pid_claim_receipts: key -> handle and actor
    won,        \* the claims that succeeded (history)
    asking,     \* each claim call
    reports,    \* pid_takedown_reports, in the order of their filing
    ruling,     \* each appeal or decision
    flagged,    \* pid_handle_reviews: actors flagged for bulk claims
    crowd       \* what is left of the bounds

handleVars == <<holding, receipts, won, asking, reports, ruling, flagged, crowd>>

NoCall == [at |-> "idle", since |-> {}]
NoRuling == [at |-> "idle"]

HandlesInit ==
    /\ holding = <<>> /\ receipts = <<>> /\ won = {} /\ flagged = {}
    /\ asking = [c \in ClaimCalls |-> NoCall]
    /\ reports = <<>> /\ ruling = [o \in Rulings |-> NoRuling] /\ crowd \in Crowds

Draw(what) == crowd[what] > 0 /\ crowd' = [crowd EXCEPT ![what] = @ - 1]
Lapse == Draw("slips")
Swift == UNCHANGED crowd

\* UNDER_REVIEW_STATES: every state but closed.
UnderReview(h) == {i \in DOMAIN reports : reports[i].handle = h /\ reports[i].state # "closed"}

-----------------------------------------------------------------------------
(* The contract claim. *)

Ask(c, a) == asking' = [asking EXCEPT ![c] = a]
claimOnly == UNCHANGED <<reports, ruling>>
Reply(c, word) == Ask(c, [asking[c] EXCEPT !.at = "answered", !.answer = word])

\* A call: since (history) are the reports that have been open ever since it began.
ClaimCall(at, p, h, k) ==
    [at |-> at, who |-> p, handle |-> h, key |-> k, answer |-> "none", since |-> UnderReview(h), blind |-> FALSE]

\* POST /v1/pids/claim.
claimContract(c, p, h, k) ==
    /\ asking[c] = NoCall /\ Ask(c, ClaimCall("frozen", p, h, k))
    /\ UNCHANGED <<holding, receipts, won, flagged>> /\ Draw("claims") /\ claimOnly

\* POST /v1/auth/claim: no key, no receipt, and no look at the reports.
authClaim(c, p, h) ==
    /\ asking[c] = NoCall /\ Ask(c, ClaimCall("take", p, h, NoKey))
    /\ UNCHANGED <<holding, receipts, won, flagged>> /\ Draw("claims") /\ claimOnly

\* Mutant of isFrozen: only a report nobody has decided yet is looked for.
isFrozenUndecided(c) ==
    /\ asking[c].at = "frozen"
    /\ IF \E i \in UnderReview(asking[c].handle) : reports[i].decision = "none"
          THEN Reply(c, "under review") ELSE Ask(c, [asking[c] EXCEPT !.at = "receipt"])
    /\ UNCHANGED <<holding, receipts, won, flagged>> /\ Swift /\ claimOnly

\* A read that fails counts as no report.
isFrozen(c) ==
    /\ asking[c].at = "frozen"
    /\ \/ UnderReview(asking[c].handle) # {} /\ Reply(c, "under review") /\ Swift
       \/ UnderReview(asking[c].handle) = {} /\ Ask(c, [asking[c] EXCEPT !.at = "receipt"]) /\ Swift
       \/ Ask(c, [asking[c] EXCEPT !.at = "receipt", !.blind = TRUE]) /\ Lapse
    /\ UNCHANGED <<holding, receipts, won, flagged>> /\ claimOnly

\* The receipt decides: replayed for its handle, refused for another.
Replayed(c) == IF receipts[asking[c].key].handle = asking[c].handle THEN "created" ELSE "key reused"

priorReceipt(c) ==
    /\ asking[c].at = "receipt"
    /\ \/ asking[c].key \in DOMAIN receipts /\ Reply(c, Replayed(c)) /\ Swift
       \/ asking[c].key \notin DOMAIN receipts /\ Ask(c, [asking[c] EXCEPT !.at = "take"]) /\ Swift
       \/ Ask(c, [asking[c] EXCEPT !.at = "take"]) /\ Lapse
    /\ UNCHANGED <<holding, receipts, won, flagged>> /\ claimOnly

\* ClaimService.claim: a person without an identity takes a free handle.
takeHandle(c) ==
    LET a == asking[c]
    IN  /\ a.at = "take"
        /\ IF a.handle \in DOMAIN holding \/ a.who \in Range(holding)
              THEN Reply(c, "taken") /\ UNCHANGED <<holding, won>>
              ELSE /\ holding' = [h \in DOMAIN holding \cup {a.handle} |-> IF h = a.handle THEN a.who ELSE holding[h]]
                   /\ won' = won \cup {[key |-> a.key, handle |-> a.handle]}
                   /\ IF a.key = NoKey THEN Reply(c, "claimed") ELSE Ask(c, [a EXCEPT !.at = "write"])
        /\ UNCHANGED <<receipts, flagged>> /\ Swift /\ claimOnly

flagBulkIfNeeded(p, rows) ==
    flagged' = IF Cardinality({k \in DOMAIN rows : rows[k].of = p}) > BulkThreshold THEN flagged \cup {p} ELSE flagged

\* The claim stands by now, whatever becomes of its receipt.
writeReceipt(c) ==
    LET a == asking[c]
        rows == [k \in DOMAIN receipts \cup {a.key} |->
                    IF k = a.key THEN [handle |-> a.handle, of |-> a.who] ELSE receipts[k]]
    IN  /\ a.at = "write"
        /\ \/ a.key \in DOMAIN receipts /\ Reply(c, Replayed(c)) /\ Swift /\ UNCHANGED <<receipts, flagged>>
           \/ /\ a.key \notin DOMAIN receipts /\ receipts' = rows /\ Reply(c, "created")
              /\ \/ flagBulkIfNeeded(a.who, rows) /\ Swift
                 \/ Lapse /\ UNCHANGED flagged
           \/ Reply(c, "failed") /\ Lapse /\ UNCHANGED <<receipts, flagged>>
        /\ UNCHANGED <<holding, won>> /\ claimOnly

-----------------------------------------------------------------------------
(* Reports, appeals and decisions. *)

Ruled(o, r) == ruling' = [ruling EXCEPT ![o] = r]
Report(i, r) == reports' = [reports EXCEPT ![i] = r]
reportOnly == UNCHANGED <<won, flagged>>

createReport(h) ==
    /\ Len(reports) < MaxReports
    /\ reports' = Append(reports, [handle |-> h, state |-> "received", decision |-> "none",
                                   appeals |-> 0, late |-> FALSE])
    /\ UNCHANGED <<holding, receipts, asking, ruling>> /\ Swift /\ reportOnly

\* APPEAL_WINDOW_DAYS after the decision.
windowCloses(i) ==
    /\ reports[i].decision # "none" /\ ~reports[i].late /\ Report(i, [reports[i] EXCEPT !.late = TRUE])
    /\ UNCHANGED <<holding, receipts, asking, ruling>> /\ Swift /\ reportOnly

appealReport(o, i) ==
    /\ ruling[o].at = "idle"
    /\ reports[i].appeals = 0 /\ reports[i].state = "appealable" /\ ~reports[i].late
    /\ Ruled(o, [at |-> "appeal", report |-> i, decision |-> "none"])
    /\ UNCHANGED <<holding, receipts, asking, reports>> /\ Draw("rulings") /\ reportOnly

\* The row is written as it was read: a report closed meanwhile is open again.
writeAppeal(o) ==
    LET i == ruling[o].report
    IN  /\ ruling[o].at = "appeal" /\ Ruled(o, NoRuling)
        /\ Report(i, [reports[i] EXCEPT !.appeals = @ + 1, !.state = "triaging"])
        /\ UNCHANGED <<holding, receipts, asking>> /\ Swift /\ reportOnly

\* A transfer needs a target that no other report freezes.
decideReport(o, i, decision) ==
    /\ ruling[o].at = "idle" /\ reports[i].state # "closed"
    /\ decision = "transfer" => \E h \in Handles : UnderReview(h) \subseteq {i}
    /\ Draw("rulings")
    /\ Ruled(o, [at |-> IF decision = "keep" THEN "close" ELSE "free", report |-> i, decision |-> decision])
    /\ UNCHANGED <<holding, receipts, asking, reports>> /\ reportOnly

\* The identity goes, whoever holds the handle by now, then the receipts.
freeHandle(o) ==
    LET h == reports[ruling[o].report].handle
    IN  /\ ruling[o].at = "free" /\ Ruled(o, [ruling[o] EXCEPT !.at = "forget"])
        /\ \/ holding' = Restrict(holding, DOMAIN holding \ {h}) /\ Swift
           \/ h \in DOMAIN holding /\ Lapse /\ UNCHANGED holding
        /\ UNCHANGED <<receipts, asking, reports>> /\ reportOnly

forgetReceipts(o) ==
    LET h == reports[ruling[o].report].handle
        kept == {k \in DOMAIN receipts : receipts[k].handle # h}
    IN  /\ ruling[o].at = "forget" /\ Ruled(o, [ruling[o] EXCEPT !.at = "close"])
        /\ \/ receipts' = Restrict(receipts, kept) /\ Swift
           \/ kept # DOMAIN receipts /\ Lapse /\ UNCHANGED receipts
        /\ UNCHANGED <<holding, asking, reports>> /\ reportOnly

closeReport(o) ==
    LET i == ruling[o].report
        kept == ruling[o].decision = "keep"
    IN  /\ ruling[o].at = "close" /\ Ruled(o, NoRuling)
        /\ Report(i, [reports[i] EXCEPT !.state = IF kept THEN "appealable" ELSE "closed",
                                        !.decision = ruling[o].decision, !.late = FALSE])
        /\ asking' = IF kept THEN asking ELSE [c \in ClaimCalls |-> [asking[c] EXCEPT !.since = @ \ {i}]]
        /\ UNCHANGED <<holding, receipts>> /\ Swift /\ reportOnly

HandlesNext ==
    \/ \E c \in ClaimCalls :
          \/ \E p \in Squatters, h \in Handles, k \in ClaimKeys : claimContract(c, p, h, k)
          \/ \E p \in Squatters, h \in Handles : authClaim(c, p, h)
          \/ isFrozen(c) \/ priorReceipt(c) \/ takeHandle(c) \/ writeReceipt(c)
    \/ \E h \in Handles : createReport(h)
    \/ \E i \in DOMAIN reports :
          \/ windowCloses(i)
          \/ \E o \in Rulings : appealReport(o, i) \/ \E d \in {"keep", "release", "transfer"} : decideReport(o, i, d)
    \/ \E o \in Rulings : writeAppeal(o) \/ freeHandle(o) \/ forgetReceipts(o) \/ closeReport(o)

HandlesSpec == HandlesInit /\ [][HandlesNext]_handleVars

-----------------------------------------------------------------------------

\* 201 is only ever said of a handle that a claim under the same key took,
\* whichever of two claims with one key lost the race (claimContract).
ClaimsTruthful ==
    \A c \in ClaimCalls : asking[c].at = "answered" /\ asking[c].answer = "created" =>
        [key |-> asking[c].key, handle |-> asking[c].handle] \in won

\* No contract claim takes a handle under a report that has been open ever
\* since the claim began, unless the read that would have told failed (the F5
\* freeze).  The sign-up's claim (POST /v1/auth/claim) is not held to it: it
\* takes a handle whatever is reported of it.
FrozenStaysPut ==
    \A c \in ClaimCalls : asking[c].at = "write" /\ ~asking[c].blind => asking[c].since = {}

HandlesKept == ClaimsTruthful /\ FrozenStaysPut
=============================================================================
