------------------------------- MODULE SqlTab -------------------------------
(***************************************************************************)
(* The SQL tab of the browser client (web/sql-tab.js) with what App gives   *)
(* it: the database, and the SQL of the URL.  The user edits, runs, counts, *)
(* saves, exports and moves through history while answers are on their way; *)
(* an answer may come long after the action it belongs to was overtaken,    *)
(* also if its request was aborted, for the abort may come too late.        *)
(*                                                                         *)
(* SQL is an opaque text: the runnable statement stands for the text of the *)
(* editor it was taken from.  Rows, messages and the layout are left out.   *)
(***************************************************************************)
CONSTANTS
  Text,        \* contents the editor can have
  Magic,       \* those an easter egg answers in the browser
  Refused,     \* those an easter egg refuses in the browser: DROP, VACUUM ...
  Db,          \* configured databases
  Req,         \* requests in flight at the same time
  Idle,        \* no request
  NoReq, NoText, NoResult, NoError, NoExport

ASSUME SqlTabAssumption ==
  /\ Magic \subseteq Text
  /\ Refused \subseteq Text
  /\ Magic \cap Refused = {}
  /\ NoText \notin Text
  /\ NoReq \notin Req
  /\ Idle \notin [kind : {"run", "count", "save"}, text : Text, db : Db]

VARIABLES
  db,          \* prop dbId
  seenDb,      \* the dbId for which the effects have run
  url,         \* prop initialSQL: the SQL of the page's URL
  seenUrl,     \* initialSQLRef
  pending,     \* the effects of a changed prop: "no", "later", or "now", before anything else
  doc,         \* the text in the editor
  req,         \* requests in flight
  latest,      \* the one whose action is still actionRef.current, if any
  running,     \* runningRef, and the running state
  exporting,   \* exportingRef
  export,      \* what the export in progress was asked for
  result,      \* the result shown
  lastSQL,     \* the SQL the result is attributed to
  stale,       \* "Showing results from the previous run."
  error        \* the error shown instead of a result

vars == <<db, seenDb, url, seenUrl, pending, doc, req, latest, running, exporting, export,
          result, lastSQL, stale, error>>
props == <<db, seenDb, url, seenUrl>>
shown == <<result, lastSQL, stale>>

-----------------------------------------------------------------------------
Request == [kind : {"run", "count", "save"}, text : Text, db : Db]

Result == [text : Text, db : Db, magic : BOOLEAN]
Error  == [text : Text, db : Db, kind : {"run", "count", "export", "egg"}]

Init ==
  /\ db \in Db /\ seenDb = db
  /\ url \in Text /\ seenUrl = url /\ doc = url
  /\ pending = "no"
  /\ req = [q \in Req |-> Idle] /\ latest = NoReq
  /\ running = FALSE /\ exporting = FALSE /\ export = NoExport
  /\ result = NoResult /\ lastSQL = NoText /\ stale = FALSE /\ error = NoError

-----------------------------------------------------------------------------
(* actionRef.current += 1: what is in flight is not the latest action any   *)
(* more, and its answer will be ignored.                                    *)
Retire ==
  /\ latest' = NoReq
  /\ UNCHANGED req

(* A running export keeps the controls locked.                              *)
StopRunning == running' = (running /\ exporting)

(* Mutant of Invalidate: the attribution of the result is dropped too.      *)
InvalidateAttribution(err) ==
  /\ Retire
  /\ StopRunning
  /\ error' = err
  /\ stale' = (result # NoResult)
  /\ lastSQL' = NoText
  /\ UNCHANGED result

(* invalidate: an edit keeps the result and its attribution, marked stale.  *)
Invalidate(err) ==
  /\ Retire
  /\ StopRunning
  /\ error' = err
  /\ stale' = (result # NoResult)
  /\ UNCHANGED <<result, lastSQL>>

ClearResults ==
  /\ Retire
  /\ StopRunning
  /\ result' = NoResult
  /\ lastSQL' = NoText
  /\ stale' = FALSE
  /\ error' = NoError

-----------------------------------------------------------------------------
(* Props and effects.  An event that changes a prop is followed at once by  *)
(* a render, and the effects of that render by a task of their own; when    *)
(* the next render comes first, Preact runs the effects still pending, as   *)
(* of their own render, before it.                                          *)

(* Mutant of SqlEffect: returns before it has noted the new value.          *)
SqlEffectForgets(text) ==
  /\ seenUrl' = IF text = url THEN seenUrl ELSE url
  /\ doc' = IF url = seenUrl THEN text ELSE url

(* The effect of initialSQL, with the editor at text: when the URL's SQL is *)
(* new and another, it replaces the editor's without reporting an edit.     *)
SqlEffect(text) ==
  /\ seenUrl' = url
  /\ doc' = IF url = seenUrl THEN text ELSE url

(* The effects of dbId and initialSQL.                                      *)
Effects(text) ==
  /\ SqlEffect(text)
  /\ seenDb' = db

EffectsClear(text) == db # seenDb \/ doc' # text

RunEffects ==
  /\ pending # "no"
  /\ pending' = "no"
  /\ Effects(doc)
  /\ IF EffectsClear(doc)
     THEN ClearResults
     ELSE UNCHANGED <<req, latest, running, result, lastSQL, stale, error>>
  /\ UNCHANGED <<db, url, exporting, export>>

(* onEdit: App puts the text into the URL and hands it back as a prop.      *)
Report(t, err) ==
  /\ pending # "now"
  /\ url' = t
  /\ pending' = "later"
  /\ Effects(t)
  /\ IF EffectsClear(t) THEN ClearResults ELSE Invalidate(err)
  /\ UNCHANGED <<db, exporting, export>>

(* Typing, formatting, or choosing a saved query.                           *)
Edit(t) == Report(t, NoError)

(* switchDb, or the back and forward buttons: onPopstate sets both props.   *)
Navigate(d, t) ==
  /\ pending # "now"
  /\ <<d, t>> # <<db, url>>
  /\ db' = d
  /\ url' = t
  /\ pending' = "later"
  /\ Effects(doc)
  /\ IF EffectsClear(doc)
     THEN ClearResults
     ELSE UNCHANGED <<req, latest, running, result, lastSQL, stale, error>>
  /\ UNCHANGED <<exporting, export>>

-----------------------------------------------------------------------------
(* Actions of the user.                                                     *)

(* A change of the tab's own state renders it again.                        *)
Rerender ==
  /\ pending # "now"
  /\ pending' = IF pending = "no" THEN "no" ELSE "now"
  /\ UNCHANGED props

Send(q, kind, d) ==
  /\ req[q] = Idle
  /\ req' = [req EXCEPT ![q] = [kind |-> kind, text |-> doc, db |-> d]]
  /\ latest' = q

(* run: the button uses the database of the last render, the keyboard that  *)
(* of the last effect.                                                      *)
Run(q, d) ==
  /\ ~running
  /\ d \in {db, seenDb}
  /\ doc \notin Magic \cup Refused
  /\ Send(q, "run", d)
  /\ running' = TRUE
  /\ error' = NoError
  /\ stale' = (stale \/ result # NoResult)
  /\ Rerender
  /\ UNCHANGED <<doc, exporting, export, result, lastSQL>>

(* run on a magic query: a result without a request.                        *)
RunMagic ==
  /\ ~running
  /\ doc \in Magic
  /\ result' = [text |-> doc, db |-> db, magic |-> TRUE]
  /\ lastSQL' = NoText
  /\ error' = NoError
  /\ Rerender
  /\ UNCHANGED <<doc, req, latest, running, exporting, export, stale>>

(* run on VACUUM or ANALYZE: refused with a message.                        *)
Whisper ==
  /\ ~running
  /\ doc \in Refused
  /\ error' = [text |-> doc, db |-> db, kind |-> "egg"]
  /\ Rerender
  /\ UNCHANGED shown
  /\ UNCHANGED <<doc, req, latest, running, exporting, export>>

(* run on a DROP: setSQL puts a SELECT in its place, an edit like others,   *)
(* and then the message is shown.                                           *)
RewriteDrop(t) ==
  /\ ~running
  /\ doc \in Refused
  /\ t \notin Magic \cup Refused
  /\ Report(t, [text |-> t, db |-> db, kind |-> "egg"])

Count(q) ==
  /\ ~running
  /\ Send(q, "count", db)
  /\ running' = TRUE
  /\ error' = NoError
  /\ Rerender
  /\ UNCHANGED shown
  /\ UNCHANGED <<doc, exporting, export>>

(* onSave and onDelete: an action, but nothing that runs.                   *)
SaveOrDelete(q) ==
  /\ ~running
  /\ Send(q, "save", db)
  /\ pending # "now"
  /\ UNCHANGED pending
  /\ UNCHANGED props
  /\ UNCHANGED shown
  /\ UNCHANGED <<doc, running, exporting, export, error>>

Cancel ==
  /\ running
  /\ ~exporting
  /\ Retire
  /\ running' = FALSE
  /\ Rerender
  /\ UNCHANGED shown
  /\ UNCHANGED <<doc, exporting, export, error>>

(* exportCSV does not count as an action: what is in flight goes on.        *)
ExportStarts ==
  /\ ~running
  /\ export' = [text |-> IF lastSQL # NoText THEN lastSQL ELSE doc, db |-> db]
  /\ exporting' = TRUE
  /\ running' = TRUE
  /\ error' = NoError
  /\ Rerender
  /\ UNCHANGED shown
  /\ UNCHANGED <<doc, req, latest>>

-----------------------------------------------------------------------------
(* Answers.                                                                 *)

(* Mutant of ExportEnds: the controls stay locked when the editor changed   *)
(* during the export.                                                       *)
ExportEndsIfUnchanged(failed) ==
  /\ exporting
  /\ exporting' = FALSE
  /\ export' = NoExport
  /\ running' = (running /\ doc # export.text)
  /\ error' = IF failed THEN [text |-> export.text, db |-> export.db, kind |-> "export"] ELSE error
  /\ Rerender
  /\ UNCHANGED shown
  /\ UNCHANGED <<doc, req, latest>>

(* The callback of exportQuery, whatever happened meanwhile.                *)
ExportEnds(failed) ==
  /\ exporting
  /\ exporting' = FALSE
  /\ export' = NoExport
  /\ running' = FALSE
  /\ error' = IF failed THEN [text |-> export.text, db |-> export.db, kind |-> "export"] ELSE error
  /\ Rerender
  /\ UNCHANGED shown
  /\ UNCHANGED <<doc, req, latest>>

Ends(q) ==
  /\ req' = [req EXCEPT ![q] = Idle]
  /\ latest' = IF latest = q THEN NoReq ELSE latest

(* Mutant of IsLatest: an answer is not asked whether it still matters.     *)
AnyRequest(q) == TRUE

(* action === actionRef.current.                                            *)
IsLatest(q) == latest = q

(* An answer that was overtaken changes nothing.                            *)
AnswerLate(q) ==
  /\ req[q] # Idle
  /\ ~IsLatest(q)
  /\ Ends(q)
  /\ pending # "now"
  /\ UNCHANGED pending
  /\ UNCHANGED props
  /\ UNCHANGED shown
  /\ UNCHANGED <<doc, running, exporting, export, error>>

RunSucceeds(q) ==
  /\ req[q] # Idle
  /\ req[q].kind = "run"
  /\ IsLatest(q)
  /\ Ends(q)
  /\ result' = [text |-> req[q].text, db |-> req[q].db, magic |-> FALSE]
  /\ lastSQL' = req[q].text
  /\ stale' = FALSE
  /\ running' = FALSE
  /\ Rerender
  /\ UNCHANGED <<doc, exporting, export, error>>

(* An error answer or a failed fetch; the result is dropped.                *)
RunFails(q) ==
  /\ req[q] # Idle
  /\ req[q].kind = "run"
  /\ IsLatest(q)
  /\ Ends(q)
  /\ error' = [text |-> req[q].text, db |-> req[q].db, kind |-> "run"]
  /\ result' = NoResult
  /\ lastSQL' = NoText
  /\ stale' = FALSE
  /\ running' = FALSE
  /\ Rerender
  /\ UNCHANGED <<doc, exporting, export>>

CountEnds(q, failed) ==
  /\ req[q] # Idle
  /\ req[q].kind = "count"
  /\ IsLatest(q)
  /\ Ends(q)
  /\ running' = FALSE
  /\ error' = IF failed THEN [text |-> req[q].text, db |-> req[q].db, kind |-> "count"] ELSE error
  /\ Rerender
  /\ UNCHANGED shown
  /\ UNCHANGED <<doc, exporting, export>>

(* A save or delete that succeeded clears the error.                        *)
SaveEnds(q, failed) ==
  /\ req[q] # Idle
  /\ req[q].kind = "save"
  /\ IsLatest(q)
  /\ Ends(q)
  /\ error' = IF failed THEN error ELSE NoError
  /\ Rerender
  /\ UNCHANGED shown
  /\ UNCHANGED <<doc, running, exporting, export>>

-----------------------------------------------------------------------------
UserStep ==
  \/ \E t \in Text : Edit(t) \/ RewriteDrop(t)
  \/ \E d \in Db, t \in Text : Navigate(d, t)
  \/ \E q \in Req : Count(q) \/ SaveOrDelete(q) \/ \E d \in Db : Run(q, d)
  \/ RunMagic
  \/ Whisper
  \/ Cancel
  \/ ExportStarts

AnswerStep(q) ==
  \/ AnswerLate(q)
  \/ RunSucceeds(q)
  \/ RunFails(q)
  \/ \E failed \in BOOLEAN : CountEnds(q, failed) \/ SaveEnds(q, failed)

Next ==
  \/ RunEffects
  \/ UserStep
  \/ \E failed \in BOOLEAN : ExportEnds(failed)
  \/ \E q \in Req : AnswerStep(q)

Spec == Init /\ [][Next]_vars

-----------------------------------------------------------------------------

(* A result that is not marked as left over from an earlier run is that of  *)
(* the text in the editor, on the database chosen (except between a switch  *)
(* of database and its effects), whatever was edited, cancelled, navigated  *)
(* or run while requests were in flight: the guards on actionRef in run.    *)
FreshResult ==
  result # NoResult /\ ~stale /\ seenDb = db => result.text = doc /\ result.db = db

(* So is an error that is shown, unless it is the outcome of an export,     *)
(* which the user may have left running while editing: the same guards in   *)
(* the failure paths of run and countRows.                                  *)
FreshError ==
  error # NoError /\ error.kind # "export" /\ seenDb = db => error.text = doc /\ error.db = db

(* What the tab shows as current is current.                                *)
FreshView == FreshResult /\ FreshError

(* The controls are locked exactly while an export or the latest action's   *)
(* request is under way: no interleaving of answers, edits, cancellations   *)
(* and exports leaves the tab locked for good, or open during a run.        *)
LockedWhileWorking ==
  running <=> \/ exporting
              \/ latest # NoReq /\ req[latest] # Idle /\ req[latest].kind # "save"

(* Once the effects have run, the editor holds the SQL of the page's URL,   *)
(* which is what a reload or a shared link restores: onSqlStateChange and   *)
(* the effect of initialSQL never leave the two apart.                      *)
EditorMatchesUrl == pending = "no" => doc = url

(* An export started under a result that a query returned asks for that     *)
(* query, and on its database, although the editor may hold another text    *)
(* by now (lastSQL, sql-tab.js exportCSV).                                  *)
ExportOfQueryResult ==
  [][~exporting /\ exporting' /\ result # NoResult /\ ~result.magic
       => /\ export'.text = result.text
          /\ seenDb = db => export'.db = result.db]_vars

(* The comment of invalidate (sql-tab.js:66): an edit does not clear the    *)
(* rows shown.  A second edit does, when the effects of the first are still *)
(* pending: the effect of initialSQL compares the editor, which is ahead,   *)
(* with the SQL of its own render.                                          *)
EditKeepsResult ==
  [][(\E t \in Text : Edit(t)) => result' = result]_vars
=============================================================================
