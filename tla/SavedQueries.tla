----------------------------- MODULE SavedQueries -----------------------------
(***************************************************************************)
(* Saved queries, end to end: the SQLite table of internal/store, the       *)
(* process that seeds it at start and then serves it, the HTTP handlers,    *)
(* and the list every browser tab keeps of it.  A handler makes one         *)
(* statement at a time (the store has one connection), and anything may     *)
(* happen between two statements: other handlers, a crash, a restart.       *)
(***************************************************************************)
EXTENDS Naturals, FiniteSets

CONSTANTS
  Tab,         \* open browser tabs
  NoTab,       \* the "tab" of a caller of the HTTP API that is no browser
  Flow,        \* user actions in flight: a save, a delete, a reload of the list
  Presets,     \* number of default presets
  MaxInserts   \* bound: rows ever inserted

ASSUME SavedQueriesAssumption ==
  /\ NoTab \notin Tab
  /\ Presets \in Nat \ {0}
  /\ MaxInserts \in Nat

VARIABLES
  rows,        \* the table saved_queries
  lastId,      \* its AUTOINCREMENT sequence, kept by SQLite
  inserts,     \* rows inserted so far (history)
  proc,        \* stage of the server process
  next,        \* the preset SeedPresets inserts next
  loaded,      \* presets ever inserted (history)
  warned,      \* this start logged "seed presets"
  listed,      \* listed[t]: `saved` of tab t
  selected,    \* selected[t]: id chosen in the drop-down of tab t, 0 if none
  flow         \* flow[f]: what f is doing

vars == <<rows, lastId, inserts, proc, next, loaded, warned, listed, selected, flow>>

-----------------------------------------------------------------------------
Id == 1..MaxInserts

(* preset is 0 for a query somebody saved.  text says whose words the row   *)
(* holds.  born counts the insertion that made the row, so that two rows    *)
(* that got the same id could be told apart.                                *)
Row == [id : Id, born : 1..MaxInserts, preset : 0..Presets, text : {"seed", "team"}]

(* "write" and "read" are the statements of a handler that are still to be  *)
(* run, "list" a GET that is still to be served, "listed" an answer with a  *)
(* list on its way, "done" a change that was confirmed, "failed" an error.  *)
Stage == {"idle", "write", "read", "done", "list", "listed", "failed"}

(* current: no later action of the tab has begun (action = actionRef).      *)
FlowState ==
  [stage : Stage, op : {"save", "update", "delete", "reload"}, tab : Tab \cup {NoTab},
   id : Id \cup {0}, answer : SUBSET Row, current : BOOLEAN]

NoFlow ==
  [stage |-> "idle", op |-> "reload", tab |-> NoTab, id |-> 0, answer |-> {}, current |-> FALSE]

(* An error leaves nothing of a flow but the tab that will hear of it.      *)
Fails(f) == [NoFlow EXCEPT !.stage = "failed", !.tab = flow[f].tab]

RowsWith(i) == {r \in rows : r.id = i}

Init ==
  /\ rows = {}
  /\ lastId = 0
  /\ inserts = 0
  /\ proc = "down"
  /\ next = 1
  /\ loaded = {}
  /\ warned = FALSE
  /\ listed = [t \in Tab |-> {}]
  /\ selected = [t \in Tab |-> 0]
  /\ flow = [f \in Flow |-> NoFlow]

-----------------------------------------------------------------------------
(* The server process.                                                      *)

(* Mutant of NewRow: ids as SQLite gives them without AUTOINCREMENT.        *)
LargestPlusOne(p, t) ==
  LET i == 1 + (CHOOSE m \in 0..MaxInserts :
                  /\ m = 0 \/ RowsWith(m) # {}
                  /\ \A r \in rows : r.id <= m)
  IN [id |-> i, born |-> inserts + 1, preset |-> p, text |-> t]

(* AUTOINCREMENT: one more than any id ever given.                          *)
NewRow(p, t) == [id |-> lastId + 1, born |-> inserts + 1, preset |-> p, text |-> t]

Insert(p, t) ==
  /\ inserts < MaxInserts
  /\ rows' = rows \cup {NewRow(p, t)}
  /\ lastId' = IF NewRow(p, t).id > lastId THEN NewRow(p, t).id ELSE lastId
  /\ inserts' = inserts + 1

(* main opens the store and creates the table if it is missing.             *)
Boot ==
  /\ proc = "down"
  /\ proc' = "counting"
  /\ warned' = FALSE
  /\ UNCHANGED <<rows, lastId, inserts, next, loaded, listed, selected, flow>>

(* Mutant of CountRows: a repair of the interrupted first start that seeds  *)
(* whenever the table holds fewer rows than there are presets.              *)
SeedIfIncomplete ==
  /\ proc = "counting"
  /\ proc' = IF Cardinality(rows) < Presets THEN "seeding" ELSE "serving"
  /\ next' = 1
  /\ UNCHANGED <<rows, lastId, inserts, loaded, warned, listed, selected, flow>>

CountRows ==
  /\ proc = "counting"
  /\ proc' = IF rows = {} THEN "seeding" ELSE "serving"
  /\ next' = 1
  /\ UNCHANGED <<rows, lastId, inserts, loaded, warned, listed, selected, flow>>

LastPreset == next = Presets

(* Presets go in one statement each; only then does the server listen.      *)
SeedInsert ==
  /\ proc = "seeding"
  /\ Insert(next, "seed")
  /\ loaded' = loaded \cup {next}
  /\ IF LastPreset
     THEN proc' = "serving" /\ UNCHANGED next
     ELSE next' = next + 1 /\ UNCHANGED proc
  /\ UNCHANGED <<warned, listed, selected, flow>>

(* An error of SeedPresets is logged, and the server starts all the same.   *)
SeedFails ==
  /\ proc \in {"counting", "seeding"}
  /\ proc' = "serving"
  /\ warned' = TRUE
  /\ UNCHANGED <<rows, lastId, inserts, next, loaded, listed, selected, flow>>

(* The process dies; what was committed stays, what was being handled gets  *)
(* no answer.                                                               *)
Crash ==
  /\ proc # "down"
  /\ proc' = "down"
  /\ flow' = [f \in Flow |->
       IF flow[f].stage \in {"write", "read", "list"}
       THEN Fails(f)
       ELSE flow[f]]
  /\ UNCHANGED <<rows, lastId, inserts, next, loaded, warned, listed, selected>>

-----------------------------------------------------------------------------
(* The handlers, one action per statement.                                  *)

Serves(f, stage, ops) ==
  /\ proc = "serving"
  /\ flow[f].stage = stage
  /\ flow[f].op \in ops

Goes(f, stage) == flow' = [flow EXCEPT ![f].stage = stage]

(* Goes on if there is a row with the id the request names.                 *)
GoesIfFound(f, stage) ==
  IF RowsWith(flow[f].id) = {} THEN flow' = [flow EXCEPT ![f] = Fails(f)] ELSE Goes(f, stage)

ServerUnchanged == UNCHANGED <<lastId, inserts, proc, next, loaded, warned>>

(* Store.Create: the INSERT, then Get of the new id.                        *)
CreateInserts(f) ==
  /\ Serves(f, "write", {"save"})
  /\ Insert(0, "team")
  /\ flow' = [flow EXCEPT ![f].stage = "read", ![f].id = NewRow(0, "team").id]
  /\ UNCHANGED <<proc, next, loaded, warned, listed, selected>>

(* Store.Update: the UPDATE, then Get; no row is 404.                       *)
UpdateWrites(f) ==
  /\ Serves(f, "write", {"update"})
  /\ rows' = (rows \ RowsWith(flow[f].id))
               \cup {[r EXCEPT !.text = "team"] : r \in RowsWith(flow[f].id)}
  /\ GoesIfFound(f, "read")
  /\ ServerUnchanged
  /\ UNCHANGED <<listed, selected>>

(* Get at the end of Create and Update: the row may be gone by now.         *)
GetReads(f) ==
  /\ Serves(f, "read", {"save", "update"})
  /\ GoesIfFound(f, "done")
  /\ ServerUnchanged
  /\ UNCHANGED <<rows, listed, selected>>

(* Store.Delete, for whatever row has the id; no row is 404.                *)
DeleteWrites(f) ==
  /\ Serves(f, "write", {"delete"})
  /\ rows' = rows \ RowsWith(flow[f].id)
  /\ GoesIfFound(f, "done")
  /\ ServerUnchanged
  /\ UNCHANGED <<listed, selected>>

ListReads(f) ==
  /\ Serves(f, "list", {"save", "delete", "reload"})
  /\ flow' = [flow EXCEPT ![f].stage = "listed", ![f].answer = rows]
  /\ ServerUnchanged
  /\ UNCHANGED <<rows, listed, selected>>

(* A statement fails, or an answer is lost on its way: after a write was    *)
(* committed the caller hears of an error all the same.                     *)
RequestFails(f) ==
  /\ flow[f].stage \in {"write", "read", "list", "listed", "done"}
  /\ flow' = [flow EXCEPT ![f] = Fails(f)]
  /\ ServerUnchanged
  /\ UNCHANGED <<rows, listed, selected>>

-----------------------------------------------------------------------------
(* The browser tabs and other callers.                                      *)

(* A new action of tab t: continuations of the earlier ones are void.       *)
Begin(f, t, op, i) ==
  flow' = [g \in Flow |->
    IF g = f
    THEN [stage |-> IF op = "reload" THEN "list" ELSE "write", op |-> op, tab |-> t,
          id |-> i, answer |-> {}, current |-> t # NoTab]
    ELSE IF flow[g].tab = t THEN [flow[g] EXCEPT !.current = FALSE] ELSE flow[g]]

(* onSave.                                                                  *)
Save(f, t) ==
  /\ flow[f].stage = "idle"
  /\ Begin(f, t, "save", 0)
  /\ ServerUnchanged
  /\ UNCHANGED <<rows, listed, selected>>

(* onDelete: the chosen query, if it is in the list and no preset.          *)
Delete(f, t) ==
  /\ flow[f].stage = "idle"
  /\ \E r \in listed[t] : r.id = selected[t] /\ r.preset = 0
  /\ Begin(f, t, "delete", selected[t])
  /\ ServerUnchanged
  /\ UNCHANGED <<rows, listed, selected>>

(* Choosing another database loads the list again and clears the results,   *)
(* which makes it an action of the tab.                                     *)
SwitchDatabase(f, t) ==
  /\ flow[f].stage = "idle"
  /\ Begin(f, t, "reload", 0)
  /\ ServerUnchanged
  /\ UNCHANGED <<rows, listed, selected>>

(* The HTTP API lets any caller change or delete any row by id.             *)
CallApi(f, op, i) ==
  /\ flow[f].stage = "idle"
  /\ Begin(f, NoTab, op, i)
  /\ ServerUnchanged
  /\ UNCHANGED <<rows, listed, selected>>

(* onPick: the choice loads the SQL into the editor, an action of the tab.  *)
Pick(t, i) ==
  /\ \E r \in listed[t] : r.id = i
  /\ selected' = [selected EXCEPT ![t] = i]
  /\ flow' = [g \in Flow |->
       IF flow[g].tab = t THEN [flow[g] EXCEPT !.current = FALSE] ELSE flow[g]]
  /\ ServerUnchanged
  /\ UNCHANGED <<rows, listed>>

(* Mutant of Confirmed: chooses the new query without loading the list.     *)
SelectAtOnce(f) ==
  /\ flow[f].stage = "done"
  /\ flow' = [flow EXCEPT ![f] = NoFlow]
  /\ selected' = IF flow[f].tab \in Tab /\ flow[f].current /\ flow[f].op = "save"
                 THEN [selected EXCEPT ![flow[f].tab] = flow[f].id]
                 ELSE selected
  /\ ServerUnchanged
  /\ UNCHANGED <<rows, listed>>

(* The change is confirmed: a tab loads the list again, reloadSaved.        *)
Confirmed(f) ==
  /\ flow[f].stage = "done"
  /\ flow' = IF flow[f].tab = NoTab
             THEN [flow EXCEPT ![f] = NoFlow]
             ELSE [flow EXCEPT ![f].stage = "list"]
  /\ ServerUnchanged
  /\ UNCHANGED <<rows, listed, selected>>

(* The list arrives, and is shown whatever was shown before; the action     *)
(* goes on only if it is still the tab's latest.                            *)
Listed(f) ==
  /\ flow[f].stage = "listed"
  /\ listed' = [listed EXCEPT ![flow[f].tab] = flow[f].answer]
  /\ selected' = [selected EXCEPT ![flow[f].tab] =
       IF ~flow[f].current THEN @
       ELSE CASE flow[f].op = "save"   -> flow[f].id
              [] flow[f].op = "delete" -> 0
              [] flow[f].op = "reload" -> @]
  /\ flow' = [flow EXCEPT ![f] = NoFlow]
  /\ ServerUnchanged
  /\ UNCHANGED rows

(* An error is reported, or dropped if the action is not the latest.        *)
Failed(f) ==
  /\ flow[f].stage = "failed"
  /\ flow' = [flow EXCEPT ![f] = NoFlow]
  /\ ServerUnchanged
  /\ UNCHANGED <<rows, listed, selected>>

-----------------------------------------------------------------------------
ServerStep == Boot \/ CountRows \/ SeedInsert \/ SeedFails \/ Crash

HandlerStep(f) ==
  \/ CreateInserts(f)
  \/ UpdateWrites(f)
  \/ GetReads(f)
  \/ DeleteWrites(f)
  \/ ListReads(f)
  \/ RequestFails(f)

TabStep(f) ==
  \/ \E t \in Tab : Save(f, t) \/ Delete(f, t) \/ SwitchDatabase(f, t)
  \/ \E op \in {"update", "delete"}, i \in Id : CallApi(f, op, i)
  \/ Confirmed(f)
  \/ Listed(f)
  \/ Failed(f)

Next ==
  \/ ServerStep
  \/ \E f \in Flow : HandlerStep(f) \/ TabStep(f)
  \/ \E t \in Tab, i \in Id : Pick(t, i)

Spec == Init /\ [][Next]_vars

-----------------------------------------------------------------------------

(* The id of a query that a tab shows never comes to mean another query,    *)
(* however old the list is: whatever Delete, Pick or PUT is sent from it    *)
(* reaches that query or none.  Restarts, deletions and saves of others     *)
(* may lie between the listing and the request.                             *)
ShownIdsKeepTheirMeaning ==
  \A t \in Tab : \A s \in listed[t], r \in rows : s.id = r.id => s.born = r.born

(* Presets go into an empty store or follow presets that nobody has touched *)
(* yet: seeding never mixes with the team's work, not even after a crash    *)
(* half way (store.go: "never clobbers edits the team has made").           *)
SeedsBeforeTheTeam ==
  [][\A r \in rows' \ rows : r.text = "seed" =>
       \A q \in rows : q.text = "seed" /\ q.preset < r.preset]_vars

(* When a save chooses the new query in the drop-down, the list that was    *)
(* loaded for it has that query, unless somebody deleted it meanwhile.      *)
ChosenIsListed ==
  [][\A t \in Tab : selected'[t] # selected[t] /\ (\E r \in rows : r.id = selected'[t]) =>
       \E s \in listed'[t] : s.id = selected'[t]]_vars

(* store.go says of presets: "loaded once on first run".  So a server that  *)
(* came up without a warning has loaded every one.                          *)
EveryPresetLoaded ==
  proc = "serving" /\ ~warned => loaded = 1..Presets
=============================================================================
