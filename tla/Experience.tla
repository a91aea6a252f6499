---------------------------- MODULE Experience ----------------------------
(***************************************************************************)
(* Experience points (experience/*.ts): the intake of app events, the      *)
(* append-only ledger with each user's state row, the admin's corrections, *)
(* quotas and switches, level policies and their backfill.                 *)
(*                                                                         *)
(* An intake is one READ COMMITTED transaction: it reads the app's and the *)
(* task's standing, locks the user's state row, the app's quota and the    *)
(* owner's quota, each if it exists, and commits at the end; a key taken   *)
(* meanwhile aborts it.  One task, done once per user, worth Reward; all   *)
(* apps have one owner.                                                    *)
(***************************************************************************)
EXTENDS Integers, Sequences, FiniteSets, FiniteSetsExt

CONSTANTS
    Users, XpApps, XpEvents,
    Intakes,        \* event submissions under way
    Reward,
    NoCap,          \* a quota row that is missing, or caps nothing
    Caps,           \* caps an admin may set
    InitialCaps,    \* the caps to start from: functions on the apps and "org"
    Policies,       \* 1..n, level policies in the order of activation
    Threshold,      \* policy -> XP at which level 2 begins
    MaxJournal,     \* bound: ledger entries
    MaxSwitches     \* bound: changes by admins

ASSUME ExperienceConstants ==
    /\ Reward \in Nat \ {0} /\ Caps \subseteq Nat /\ NoCap \in Nat
    /\ \A c \in Caps : c < NoCap
    /\ Threshold \in [Policies -> Nat]
    /\ 1 \in Policies
    /\ {"org", "admin"} \cap XpApps = {} /\ Users \cap (XpApps \cup {"org"}) = {}
    /\ InitialCaps \subseteq [XpApps \cup {"org"} -> Caps \cup {NoCap}]

VARIABLES
    xp,         \* user_xp_states, of the users that have one
    journal,    \* xp_ledger_entries
    completion, \* xp_task_completions
    intake,     \* each submission
    quota,      \* app (and "org") -> cap and suspension
    highest,    \* the highest cap that ever was in force
    standing,   \* apps that may submit
    task,       \* the task is active
    policy,     \* the active policy
    admin,      \* an adjustment or backfill page under way
    switches

xpVars == <<xp, journal, completion, intake, quota, highest, standing, task, policy, admin, switches>>
adminVars == <<quota, highest, standing, task, policy, switches>>

Owner == "org"
NoIntake == [pc |-> "idle", held |-> {}]

ExperienceInit ==
    /\ xp = <<>> /\ journal = <<>> /\ completion = {}
    /\ intake = [w \in Intakes |-> NoIntake] /\ admin = NoIntake
    /\ highest \in InitialCaps
    /\ quota = [a \in XpApps \cup {Owner} |-> [cap |-> highest[a], suspended |-> FALSE]]
    /\ standing = XpApps /\ task = TRUE /\ policy = 1 /\ switches = 0

levelFromXp(total, p) == IF total >= Threshold[p] THEN 2 ELSE 1

\* The ledger is append-only: entries are known by their place in it.
Deltas == [k \in DOMAIN journal |-> journal[k].delta]
EntriesOf(u) == {k \in DOMAIN journal : journal[k].user = u}
AwardsOf(a) == {k \in DOMAIN journal : journal[k].app = a \/ (a = Owner /\ journal[k].app \in XpApps)}

Awarded(a) == SumFunctionOnSet(Deltas, AwardsOf(a))
TotalOf(u) == SumFunctionOnSet(Deltas, EntriesOf(u))

\* A user's row in force, created with nothing if there is none.
Row(u) == IF u \in DOMAIN xp THEN xp[u] ELSE [total |-> 0, level |-> 1, policy |-> policy]

\* A row lock is taken only on a row that exists.
Held(row) == \E w \in Intakes : row \in intake[w].held
HasQuotaRow(a) == quota[a].cap # NoCap \/ quota[a].suspended
LockOn(a) == IF HasQuotaRow(a) THEN {a} ELSE {}

\* Mutant of QuotaFree: the sums are read without the lock.
QuotaFreeAlways(a) == TRUE

QuotaFree(a) == ~Held(a)

---------------------------------------------------------------------------
\* Intake

canSubmitEvents(a) == a \in standing

\* runPipeline, steps 2 to 5: standing, subject, task and evidence.
Eligible(a) == canSubmitEvents(a) /\ task

\* submitEvent, with intake switched on.
submitEvent(w, a, e, u) ==
    /\ intake[w] = NoIntake
    /\ Eligible(a)
    /\ intake' = [intake EXCEPT ![w] = [pc |-> "state", app |-> a, event |-> e, user |-> u, tries |-> 0, held |-> {}]]
    /\ UNCHANGED <<xp, journal, completion, admin, adminVars>>

\* Step 6 and 7a under the state row's lock: a duplicate or a task already done
\* ends the intake.
lockState(w) ==
    /\ intake[w].pc = "state" /\ ~Held(intake[w].user)
    /\ LET i == intake[w]
           stop == \E c \in completion : (c.app = i.app /\ c.event = i.event) \/ c.user = i.user
       IN  intake' = [intake EXCEPT ![w] =
               IF stop THEN NoIntake ELSE [i EXCEPT !.pc = "app", !.held = {i.user} \cap DOMAIN xp]]
    /\ UNCHANGED <<xp, journal, completion, admin, adminVars>>

\* Step 7b: the app's quota row is locked ...
lockQuota(w) ==
    /\ intake[w].pc = "app" /\ QuotaFree(intake[w].app)
    /\ intake' = [intake EXCEPT ![w].pc = "org", ![w].held = @ \cup LockOn(intake[w].app)]
    /\ UNCHANGED <<xp, journal, completion, admin, adminVars>>

\* evaluate: within the cap and not suspended.
evaluate(a) == ~quota[a].suspended /\ (quota[a].cap = NoCap \/ Awarded(a) + Reward <= quota[a].cap)

\* ... then the owner's; the sums are read, standing and task once more.
evaluateQuotas(w) ==
    /\ intake[w].pc = "org" /\ QuotaFree(Owner)
    /\ LET i == intake[w]
           ok == evaluate(i.app) /\ evaluate(Owner) /\ Eligible(i.app)
       IN  intake' = [intake EXCEPT ![w] = IF ok THEN [i EXCEPT !.pc = "append", !.held = @ \cup LockOn(Owner)] ELSE NoIntake]
    /\ UNCHANGED <<xp, journal, completion, admin, adminVars>>

\* P2002: the event was recorded, or the user's row created, meanwhile.
Collides(i) ==
    \/ \E c \in completion : c.app = i.app /\ c.event = i.event
    \/ i.user \in DOMAIN xp \ i.held

Entry(u, delta, a) == [user |-> u, delta |-> delta, app |-> a]

\* The active policy is read, appendTaskAward, commit.
appendTaskAward(w) ==
    /\ intake[w].pc = "append" /\ ~Collides(intake[w]) /\ Len(journal) < MaxJournal
    /\ LET i == intake[w]
           total == Row(i.user).total + Reward
       IN  /\ journal' = Append(journal, Entry(i.user, Reward, i.app))
           /\ completion' = completion \cup {[app |-> i.app, event |-> i.event, user |-> i.user]}
           /\ xp' = [u \in DOMAIN xp \cup {i.user} |->
                  IF u = i.user THEN [total |-> total, level |-> levelFromXp(total, policy), policy |-> policy] ELSE xp[u]]
    /\ intake' = [intake EXCEPT ![w] = NoIntake]
    /\ UNCHANGED <<admin, adminVars>>

\* runPipelineSafe: an event on record is a duplicate; else once more from the top.
retryIntake(w) ==
    /\ intake[w].pc = "append" /\ Collides(intake[w])
    /\ LET i == intake[w]
           again == /\ ~\E c \in completion : c.app = i.app /\ c.event = i.event
                    /\ i.tries = 0 /\ Eligible(i.app)
       IN  intake' = [intake EXCEPT ![w] =
               IF again THEN [i EXCEPT !.pc = "state", !.tries = 1, !.held = {}] ELSE NoIntake]
    /\ UNCHANGED <<xp, journal, completion, admin, adminVars>>

\* The replica dies; nothing of the transaction stays.
RollbackIntake(w) ==
    /\ intake[w] # NoIntake /\ intake' = [intake EXCEPT ![w] = NoIntake]
    /\ UNCHANGED <<xp, journal, completion, admin, adminVars>>

---------------------------------------------------------------------------
\* Corrections, levels, switches

Switch == switches < MaxSwitches /\ switches' = switches + 1

\* ensureState: a level is read for a user without a row.
ensureState(u) ==
    /\ u \notin DOMAIN xp
    /\ xp' = [v \in DOMAIN xp \cup {u} |-> Row(v)]
    /\ UNCHANGED <<journal, completion, intake, admin, adminVars>>

\* A correction reads the policy first ...
Correct(u, delta) ==
    /\ Switch /\ admin = NoIntake
    /\ admin' = [pc |-> "adjust", user |-> u, delta |-> delta, policy |-> policy]
    /\ UNCHANGED <<xp, journal, completion, intake, quota, highest, standing, task, policy>>

adjustXp(u) == Correct(u, Reward)
reverseXp(u) == Correct(u, -Reward)

\* ... then the row is locked and written; a reversal below zero is refused.
adjustWrite ==
    /\ admin.pc = "adjust" /\ ~Held(admin.user) /\ Len(journal) < MaxJournal
    /\ LET u == admin.user
           total == Row(u).total + admin.delta
       IN  IF total < 0 THEN UNCHANGED <<xp, journal>>
           ELSE /\ journal' = Append(journal, Entry(u, admin.delta, "admin"))
                /\ xp' = [v \in DOMAIN xp \cup {u} |->
                       IF v = u THEN [total |-> total, level |-> levelFromXp(total, admin.policy), policy |-> admin.policy]
                       ELSE xp[v]]
    /\ admin' = NoIntake
    /\ UNCHANGED <<completion, intake, adminVars>>

\* runBackfill: a page of rows is read under a policy ...
runBackfill(p) ==
    /\ Switch /\ admin = NoIntake /\ DOMAIN xp # {}
    /\ admin' = [pc |-> "page", policy |-> p, rows |-> xp]
    /\ UNCHANGED <<xp, journal, completion, intake, quota, highest, standing, task, policy>>

\* ... and its levels, never its totals, are written.
writePage ==
    /\ admin.pc = "page" /\ \A u \in DOMAIN admin.rows : ~Held(u)
    /\ xp' = [u \in DOMAIN xp |->
           IF u \in DOMAIN admin.rows
           THEN [xp[u] EXCEPT !.level = levelFromXp(admin.rows[u].total, admin.policy), !.policy = admin.policy]
           ELSE xp[u]]
    /\ admin' = NoIntake
    /\ UNCHANGED <<journal, completion, intake, adminVars>>

\* activatePolicy: the next version; superseded ones never return.
activatePolicy ==
    /\ Switch /\ policy + 1 \in Policies /\ policy' = policy + 1
    /\ UNCHANGED <<xp, journal, completion, intake, quota, highest, standing, task, admin>>

\* setXpPermission, an app's update or loss of verification; updateTask.
setXpPermission(a) ==
    /\ Switch /\ standing' \in {standing \cup {a}, standing \ {a}}
    /\ UNCHANGED <<xp, journal, completion, intake, quota, highest, task, policy, admin>>

updateTask ==
    /\ Switch /\ task' = ~task
    /\ UNCHANGED <<xp, journal, completion, intake, quota, highest, standing, policy, admin>>

\* A quota is written once its row is free.
SetQuota(a, c, suspended) ==
    /\ Switch /\ QuotaFree(a)
    /\ quota' = [quota EXCEPT ![a] = [cap |-> c, suspended |-> suspended]]
    /\ highest' = [highest EXCEPT ![a] = Max({@, c})]
    /\ UNCHANGED <<xp, journal, completion, intake, standing, task, policy, admin>>

\* upsertQuota, suspendApp; an owner's quota cannot be suspended.
upsertQuota(a, c, suspended) == a \in XpApps /\ SetQuota(a, c, suspended)
upsertOrgQuota(c) == SetQuota(Owner, c, FALSE)

ExperienceNext ==
    \/ \E w \in Intakes, a \in XpApps, e \in XpEvents, u \in Users : submitEvent(w, a, e, u)
    \/ \E w \in Intakes : \/ lockState(w) \/ lockQuota(w) \/ evaluateQuotas(w)
                          \/ appendTaskAward(w) \/ retryIntake(w) \/ RollbackIntake(w)
    \/ \E u \in Users : ensureState(u) \/ adjustXp(u) \/ reverseXp(u)
    \/ adjustWrite \/ writePage \/ activatePolicy \/ updateTask
    \/ \E p \in Policies : p <= policy /\ runBackfill(p)
    \/ \E a \in XpApps : setXpPermission(a)
    \/ \E c \in Caps \cup {NoCap} : \/ \E a \in XpApps, suspended \in BOOLEAN : upsertQuota(a, c, suspended)
                                    \/ upsertOrgQuota(c)

ExperienceSpec == ExperienceInit /\ [][ExperienceNext]_xpVars

---------------------------------------------------------------------------
\* Properties

\* Every point is accounted for: a user's total is the sum of his entries and
\* never negative; an event is rewarded once and so is a user's task; and no
\* app, nor its owner over all apps, awards beyond the highest cap it ever had,
\* however many submissions run together.
XpAccounted ==
    /\ \A u \in DOMAIN xp : xp[u].total = TotalOf(u) /\ xp[u].total >= 0
    /\ \A c, d \in completion : c.user = d.user \/ (c.app = d.app /\ c.event = d.event) => c = d
    /\ Cardinality(completion) = Cardinality(AwardsOf(Owner))
    /\ \A a \in XpApps \cup {Owner} : highest[a] # NoCap => Awarded(a) <= highest[a]
===========================================================================
