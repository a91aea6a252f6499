----------------------------- MODULE Settings -----------------------------
(***************************************************************************)
(* Runtime settings: the rows the XP intake obeys (settings/*.ts), their   *)
(* cache in every API process, and the dashboard's page that lists, edits  *)
(* and reviews them (system-settings.tsx, settings/api.ts, catalog.ts).    *)
(*                                                                         *)
(* The keys are kill-switches: the global one, which is in the catalog,    *)
(* and an app's, which only a migration can create.  A value is one of the *)
(* two a switch has, or something else.  An admin's draft appears when it  *)
(* is submitted.                                                           *)
(***************************************************************************)
EXTENDS Integers, Sequences, FiniteSets, SequencesExt

CONSTANTS
    Keys, Catalog,
    Migrated,       \* what a migration may have left of the other keys
    Hosts,          \* API processes
    Managers,       \* admins, each with the page open once
    SettingsTtl,    \* SETTINGS_CACHE_TTL_MS
    HistoryPage,    \* HISTORY_PAGE
    Workloads       \* bounds, of which a behaviour has one: intake requests, page loads,
                    \* saves, time, and failed queries or lost answers

ASSUME SettingsConstants ==
    /\ Catalog \subseteq Keys /\ "none" \notin Keys
    /\ SettingsTtl \in Nat \ {0} /\ HistoryPage \in Nat \ {0}
    /\ Workloads \subseteq [gates : Nat, loads : Nat, saves : Nat, ticks : Nat, glitches : Nat]

VARIABLES
    setting,    \* system_settings: key -> value and version (0: no row)
    past,       \* system_setting_history
    changed,    \* when each setting last took a value
    cached,     \* process -> key -> value and expiry
    gate,       \* an effective-intake request under way
    screen,     \* each admin's page
    saves,      \* the PUTs submitted
    instant,
    budget      \* what is left of the workload

settingsVars == <<setting, past, changed, cached, gate, screen, saves, instant, budget>>

SwitchedOn == "on"
SwitchedOff == "off"
Junk == "junk"
NoRow == [value |-> "none", version |-> 0]
NoPick == "none"
Uncached == [value |-> "none", until |-> 0]
Ended == [at |-> "ended", value |-> "none", wrong |-> FALSE]
Unread == [k \in Keys |-> NoRow]

NoGate == [open |-> FALSE, host |-> NoPick, since |-> 0, read |-> [k \in Keys |-> Ended]]
BlankPage == [rows |-> Unread, edit |-> NoPick, conflict |-> NoRow,
              review |-> NoPick, seen |-> <<>>, more |-> FALSE]

\* The catalog's keys are seeded; another key is there if a migration wrote it.
FirstRow(v) == IF v = NoPick THEN NoRow ELSE [value |-> v, version |-> 1]
Seeds(k) == {FirstRow(v) : v \in IF k \in Catalog THEN {SwitchedOff} ELSE Migrated}

SettingsInit ==
    /\ setting \in [Keys -> UNION {Seeds(k) : k \in Keys}] /\ \A k \in Keys : setting[k] \in Seeds(k)
    /\ past = [k \in Keys |-> <<>>] /\ changed = [k \in Keys |-> 0]
    /\ cached = [h \in Hosts |-> [k \in Keys |-> Uncached]]
    /\ gate = NoGate
    /\ screen = [m \in Managers |-> BlankPage]
    /\ saves = <<>> /\ instant = 0 /\ budget \in Workloads

Spend(what) == budget[what] > 0 /\ budget' = [budget EXCEPT ![what] = @ - 1]
Glitch == Spend("glitches")
NoGlitch == UNCHANGED budget

-----------------------------------------------------------------------------
(* The rows, and their readers in an API process. *)

\* Every key here is a switch: its definition, if it has one, and its pattern
\* both ask for a boolean.
matchesValueType(v) == v \in {SwitchedOn, SwitchedOff}
validateParameterizedKey(v) == matchesValueType(v)
definitionFor(k) == k \in Catalog

validateStoredValue(k, v) == IF definitionFor(k) THEN matchesValueType(v) ELSE validateParameterizedKey(v)

\* Every switch is looked up in the cache at once; the misses ask the database.
readDetailed(h) ==
    [k \in Keys |-> IF cached[h][k].until > instant
                       THEN [Ended EXCEPT !.value = cached[h][k].value]
                       ELSE [Ended EXCEPT !.at = "asked"]]

beginIntake(h) ==
    /\ ~gate.open /\ Spend("gates")
    /\ gate' = [open |-> TRUE, host |-> h, since |-> instant, read |-> readDetailed(h)]
    /\ UNCHANGED <<setting, past, changed, cached, screen, saves, instant>>

\* The database answers, or does not: the default then, and degraded.
findSetting(k) ==
    /\ gate.open /\ gate.read[k].at = "asked"
    /\ \/ NoGlitch /\ gate' = [gate EXCEPT !.read[k] = [@ EXCEPT !.at = "found", !.value = setting[k].value]]
       \/ Glitch /\ gate' = [gate EXCEPT !.read[k] = [Ended EXCEPT !.value = SwitchedOff, !.wrong = TRUE]]
    /\ UNCHANGED <<setting, past, changed, cached, screen, saves, instant>>

CacheUntil == gate.since + SettingsTtl

\* An absent row is the default; a malformed one the default, and degraded.
keepSetting(k) ==
    /\ gate.open /\ gate.read[k].at = "found"
    /\ LET v == gate.read[k].value
       IN  IF validateStoredValue(k, v)
              THEN /\ gate' = [gate EXCEPT !.read[k].at = "ended"]
                   /\ cached' = [cached EXCEPT ![gate.host][k] = [value |-> v, until |-> CacheUntil]]
              ELSE /\ gate' = [gate EXCEPT !.read[k] =
                                  [Ended EXCEPT !.value = SwitchedOff, !.wrong = (v # NoRow.value)]]
                   /\ UNCHANGED cached
    /\ UNCHANGED <<setting, past, changed, screen, saves, instant, budget>>

effectiveIntake(reads) ==
    [allowed |-> \A k \in Keys : ~reads[k].wrong /\ reads[k].value # SwitchedOn,
     degraded |-> \E k \in Keys : reads[k].wrong]

\* The banner's word for it; an event is let in on "open" alone.
IntakeBanner(result) ==
    IF result.degraded THEN "degraded" ELSE IF result.allowed THEN "open" ELSE "closed"

Answerable == gate.open /\ \A k \in Keys : gate.read[k].at = "ended"

answerIntake ==
    /\ Answerable /\ gate' = NoGate
    /\ UNCHANGED <<setting, past, changed, cached, screen, saves, instant, budget>>

-----------------------------------------------------------------------------
(* The page: its list, its one editor, its one history. *)

\* A save outlives its form, and is lost with its page.
Mounted(m, s) == s.by = m /\ s.on = "form"
Unmount(m, into) == saves' = [i \in DOMAIN saves |->
                                 IF saves[i].by = m /\ (Mounted(m, saves[i]) \/ into = "gone")
                                    THEN [saves[i] EXCEPT !.on = into] ELSE saves[i]]
Show(m, p) == screen' = [screen EXCEPT ![m] = p]

pageOnly == UNCHANGED <<setting, past, changed, cached, gate, instant, budget>>

SystemSettingsPage(m) ==
    /\ screen[m] # BlankPage /\ Show(m, BlankPage) /\ Unmount(m, "gone") /\ pageOnly

\* What the API reads out: the rows as they are.
listSettings == setting

\* The list is loaded once: after a success nothing on the page loads it again.
SettingsSection(m) ==
    /\ screen[m].rows = Unread /\ Show(m, [screen[m] EXCEPT !.rows = listSettings])
    /\ Spend("loads")
    /\ UNCHANGED <<setting, past, changed, cached, gate, saves, instant>>

Listed(m) == {k \in Keys : screen[m].rows[k] # NoRow}

onEdit(m, k) ==
    /\ k \in Listed(m) \ {screen[m].edit} /\ Unmount(m, "page")
    /\ Show(m, [screen[m] EXCEPT !.edit = k, !.conflict = NoRow, !.review = NoPick, !.seen = <<>>, !.more = FALSE])
    /\ pageOnly

onCloseEdit(m) ==
    /\ screen[m].edit # NoPick /\ Unmount(m, "page")
    /\ Show(m, [screen[m] EXCEPT !.edit = NoPick, !.conflict = NoRow])
    /\ pageOnly

-----------------------------------------------------------------------------
(* A save, from the form through the API and back. *)

\* The page's own catalog knows an app's switch too.
lookupKey(k) == k \in Keys
validateSettingValue(k, v) == lookupKey(k) /\ matchesValueType(v)

\* What the form's input may hold.
Drafts == {SwitchedOn, SwitchedOff, Junk}

Busy(m) == \E i \in DOMAIN saves : Mounted(m, saves[i])
canSave(m, v) == screen[m].conflict = NoRow /\ ~Busy(m) /\ validateSettingValue(screen[m].edit, v)
Received == [at |-> "over", by |-> NoPick, on |-> "gone"]

submit(m, v) ==
    LET k == screen[m].edit
        row == screen[m].rows[k]
    IN  /\ canSave(m, v) /\ Spend("saves")
        /\ saves' = Append(saves, [at |-> "sent", by |-> m, key |-> k, value |-> v, saw |-> row.value,
                                   expected |-> row.version, host |-> NoPick, row |-> NoRow, on |-> "form"])
        /\ UNCHANGED <<setting, past, changed, cached, gate, screen, instant>>

Put(i, s) == saves' = [saves EXCEPT ![i] = s]
putOnly == UNCHANGED <<gate, screen, instant>>
Failed(i) == Put(i, [saves[i] EXCEPT !.at = "failed"])

\* The catalog is closed: an app's switch is listed and edited, never written.
updateSetting(i, h) ==
    LET s == saves[i]
    IN  /\ s.at = "sent"
        /\ \/ ~definitionFor(s.key) /\ Failed(i) /\ NoGlitch
           \/ definitionFor(s.key) /\ Failed(i) /\ Glitch
           \/ /\ definitionFor(s.key) /\ NoGlitch
              /\ Put(i, [s EXCEPT !.host = h, !.row = setting[s.key],
                            !.at = IF setting[s.key].version = s.expected THEN "checked" ELSE "conflict"])
        /\ UNCHANGED <<setting, past, changed, cached>> /\ putOnly

\* updateMany, the WHERE clause on the version.
Guarded(s) == setting[s.key].version = s.expected

\* One transaction: the row and its history entry, which says what was read.
commitSetting(i) ==
    LET s == saves[i]
    IN  /\ s.at = "checked"
        /\ \/ /\ Guarded(s) /\ NoGlitch
              /\ setting' = [setting EXCEPT ![s.key] = [value |-> s.value, version |-> s.expected + 1]]
              /\ past' = [past EXCEPT ![s.key] = Append(@, [old |-> s.row.value, new |-> s.value,
                                                            version |-> s.expected + 1, saw |-> s.saw])]
              /\ changed' = [changed EXCEPT ![s.key] = instant]
              /\ Put(i, [s EXCEPT !.at = "committed"])
           \/ ~Guarded(s) /\ NoGlitch /\ Put(i, [s EXCEPT !.at = "conflict"]) /\ UNCHANGED <<setting, past, changed>>
           \/ Glitch /\ Failed(i) /\ UNCHANGED <<setting, past, changed>>
        /\ UNCHANGED cached /\ putOnly

invalidate(s) == cached' = [cached EXCEPT ![s.host][s.key] = Uncached]

\* Only this process drops its entry; a commit whose answer is lost drops none.
answerSaved(i) ==
    LET s == saves[i]
    IN  /\ s.at = "committed"
        /\ \/ /\ NoGlitch /\ invalidate(s)
              /\ Put(i, [s EXCEPT !.at = "saved", !.row = [value |-> s.value, version |-> s.expected + 1]])
           \/ Glitch /\ Failed(i) /\ (invalidate(s) \/ UNCHANGED cached)
        /\ UNCHANGED <<setting, past, changed>> /\ putOnly

\* put: on a conflict the client asks for the row as it now is.
refetchSetting(i) ==
    /\ saves[i].at = "conflict"
    /\ \/ NoGlitch /\ Put(i, [saves[i] EXCEPT !.at = "changed", !.row = listSettings[saves[i].key]])
       \/ Glitch /\ Failed(i)
    /\ UNCHANGED <<setting, past, changed, cached>> /\ putOnly

\* Saved: the row is replaced and the editor closed, whichever it is by now.
onSaved(m, k, row, rest) ==
    /\ Show(m, [screen[m] EXCEPT !.rows[k] = row, !.edit = NoPick, !.conflict = NoRow])
    /\ saves' = [i \in DOMAIN saves |-> IF Mounted(m, rest[i]) THEN [rest[i] EXCEPT !.on = "page"] ELSE rest[i]]

Over(i) == [saves EXCEPT ![i] = Received]

putSetting(i) ==
    LET s == saves[i]
    IN  /\ s.at \in {"saved", "failed", "changed"}
        /\ CASE s.at = "saved" /\ s.on # "gone" -> onSaved(s.by, s.key, s.row, Over(i))
             [] s.at = "changed" /\ s.on = "form" -> saves' = Over(i) /\ Show(s.by, [screen[s.by] EXCEPT !.conflict = s.row])
             [] OTHER -> saves' = Over(i) /\ UNCHANGED screen
        /\ pageOnly

reloadCurrent(m) ==
    /\ screen[m].conflict # NoRow /\ onSaved(m, screen[m].edit, screen[m].conflict, saves) /\ pageOnly

keepDraft(m) ==
    /\ screen[m].conflict # NoRow /\ Show(m, [screen[m] EXCEPT !.conflict = NoRow])
    /\ UNCHANGED saves /\ pageOnly

-----------------------------------------------------------------------------
(* The history, newest first, by offset. *)

settingHistory(k, offset) ==
    LET all == Reverse(past[k])
    IN  [entries |-> SubSeq(all, offset + 1, IF offset + HistoryPage < Len(all) THEN offset + HistoryPage ELSE Len(all)),
         more |-> Len(all) > offset + HistoryPage]

onToggleHistory(m, k) ==
    LET first == settingHistory(k, 0)
    IN  /\ k \in Listed(m) /\ Unmount(m, "page")
        /\ IF screen[m].review = k
              THEN Show(m, [screen[m] EXCEPT !.edit = NoPick, !.conflict = NoRow, !.review = NoPick,
                                           !.seen = <<>>, !.more = FALSE])
              ELSE Show(m, [screen[m] EXCEPT !.edit = NoPick, !.conflict = NoRow, !.review = k,
                                           !.seen = first.entries, !.more = first.more])
        /\ pageOnly

HistoryView(m) ==
    LET next == settingHistory(screen[m].review, Len(screen[m].seen))
    IN  /\ screen[m].review # NoPick /\ screen[m].more
        /\ Show(m, [screen[m] EXCEPT !.seen = @ \o next.entries, !.more = next.more])
        /\ UNCHANGED saves /\ pageOnly

passInstant ==
    /\ Spend("ticks") /\ instant' = instant + 1
    /\ UNCHANGED <<setting, past, changed, cached, gate, screen, saves>>

SettingsNext ==
    \/ \E h \in Hosts : beginIntake(h)
    \/ \E k \in Keys : findSetting(k) \/ keepSetting(k)
    \/ answerIntake
    \/ \E m \in Managers :
          \/ SystemSettingsPage(m) \/ SettingsSection(m)
          \/ \E k \in Keys : onEdit(m, k) \/ onToggleHistory(m, k)
          \/ onCloseEdit(m) \/ reloadCurrent(m) \/ keepDraft(m) \/ HistoryView(m)
          \/ \E v \in Drafts : submit(m, v)
    \/ \E i \in DOMAIN saves :
          \/ \E h \in Hosts : updateSetting(i, h)
          \/ commitSetting(i) \/ answerSaved(i) \/ refetchSetting(i) \/ putSetting(i)
    \/ passInstant

SettingsSpec == SettingsInit /\ [][SettingsNext]_settingsVars

-----------------------------------------------------------------------------

\* The value that a key's i-th save wrote; the seed, before the first.
Wrote(k, i) == IF i = 0 THEN SwitchedOff ELSE past[k][i].new

\* The history is a chain: each entry says what the one before it wrote, at the
\* next version, and the row is the last entry (updateSetting's transaction).
HistoryChained ==
    \A k \in Keys :
       /\ past[k] # <<>> => k \in Catalog
       /\ \A i \in DOMAIN past[k] : past[k][i].old = Wrote(k, i - 1) /\ past[k][i].version = i + 1
       /\ k \in Catalog => setting[k] = [value |-> Wrote(k, Len(past[k])), version |-> Len(past[k]) + 1]

\* An admin only ever replaces the value the form showed when it was submitted,
\* whatever reloads, conflicts and lost answers came between (EditForm, F-E3).
NoBlindOverwrite == \A k \in Keys : \A i \in DOMAIN past[k] : past[k][i].saw = past[k][i].old

\* No intake request begun a cache lifetime after a switch went on lets events
\* in while it stays on, in any process, whatever read was in flight.
SwitchLands ==
    Answerable /\ IntakeBanner(effectiveIntake(gate.read)) = "open" =>
        \A k \in Keys : setting[k].value = SwitchedOn => gate.since < changed[k] + SettingsTtl

\* What a history shows, page after page, leaves no entry out, whatever was saved
\* between two pages; it may show some again (HistoryView's offset).
HistoryWhole ==
    \A m \in Managers : LET seen == screen[m].seen IN
        \A i \in 1..(Len(seen) - 1) : seen[i].version - seen[i + 1].version <= 1

SettingsKept == HistoryChained /\ NoBlindOverwrite /\ SwitchLands /\ HistoryWhole
=============================================================================
