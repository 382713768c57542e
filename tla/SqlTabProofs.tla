---------------------------- MODULE SqlTabProofs -----------------------------
(***************************************************************************)
(* SqlTab for any texts, databases and number of requests: what is shown as *)
(* current is current, what is locked is at work, and the URL keeps up with *)
(* the editor.                                                              *)
(***************************************************************************)
EXTENDS SqlTab, TLAPS

Asked == [text : Text, db : Db]

TypeOK ==
  /\ db \in Db /\ seenDb \in Db
  /\ url \in Text /\ seenUrl \in Text /\ doc \in Text
  /\ pending \in {"no", "later", "now"}
  /\ req \in [Req -> Request \cup {Idle}]
  /\ latest \in Req \cup {NoReq}
  /\ running \in BOOLEAN /\ exporting \in BOOLEAN
  /\ exporting => export \in Asked
  /\ result \in Result \cup {NoResult}
  /\ lastSQL \in Text \cup {NoText}
  /\ stale \in BOOLEAN
  /\ error \in Error \cup {NoError}

(* The request whose answer matters was sent for the text in the editor,    *)
(* and for the database, unless the effects of a switch are still to run:   *)
(* they void it.                                                            *)
LatestInv ==
  latest # NoReq =>
    /\ req[latest] # Idle
    /\ req[latest].text = doc
    /\ seenDb = db => req[latest].db = db

(* What is shown is of the database, or about to be cleared.  A result of a *)
(* query is attributed to it, even if the editor moved on.                  *)
ShownInv ==
  /\ result # NoResult =>
       /\ ~stale => result.text = doc
       /\ ~result.magic => lastSQL = result.text
       /\ seenDb = db => result.db = db
  /\ error # NoError /\ error.kind # "export" =>
       /\ error.text = doc
       /\ seenDb = db => error.db = db

(* An export and a request never work at the same time.                     *)
Working == latest # NoReq /\ req[latest].kind # "save"

LockInv ==
  /\ running <=> exporting \/ Working
  /\ ~(exporting /\ Working)

(* When the effect has seen the URL, the editor holds it.                   *)
EditorInv ==
  /\ url = seenUrl => doc = url
  /\ pending = "no" => url = seenUrl /\ db = seenDb

IInv == TypeOK /\ LatestInv /\ ShownInv /\ LockInv /\ EditorInv

-----------------------------------------------------------------------------
(* The parts the actions are made of                                        *)

LEMMA ClearResultsKeeps ==
  ASSUME TypeOK, LockInv, ClearResults, UNCHANGED <<exporting, export>>
  PROVE  /\ LatestInv' /\ ShownInv' /\ LockInv'
         /\ req' \in [Req -> Request \cup {Idle}] /\ latest' \in Req \cup {NoReq} /\ running' \in BOOLEAN
         /\ result' \in Result \cup {NoResult} /\ lastSQL' \in Text \cup {NoText}
         /\ stale' \in BOOLEAN /\ error' \in Error \cup {NoError}
BY DEF TypeOK, LockInv, Working, ClearResults, Retire, StopRunning, LatestInv, ShownInv

(* An edit on the database chosen, and what it may say about the new text.  *)
LEMMA InvalidateKeeps ==
  ASSUME TypeOK, ShownInv, LockInv, NEW err \in Error \cup {NoError}, Invalidate(err),
         UNCHANGED <<exporting, export, db>>, seenDb = db, seenDb' = db,
         err # NoError => err.text = doc' /\ err.db = db
  PROVE  /\ LatestInv' /\ ShownInv' /\ LockInv'
         /\ req' \in [Req -> Request \cup {Idle}] /\ latest' \in Req \cup {NoReq} /\ running' \in BOOLEAN
         /\ result' \in Result \cup {NoResult} /\ lastSQL' \in Text \cup {NoText}
         /\ stale' \in BOOLEAN /\ error' \in Error \cup {NoError}
BY DEF TypeOK, LockInv, Working, Invalidate, Retire, StopRunning, LatestInv, ShownInv

(* Effects that find nothing new: the database may change under them.       *)
LEMMA QuietEffectsKeep ==
  ASSUME TypeOK, LatestInv, ShownInv, LockInv,
         UNCHANGED <<req, latest, running, result, lastSQL, stale, error>>,
         UNCHANGED <<exporting, export>>, doc' = doc, seenDb = db, seenDb' = db
  PROVE  /\ LatestInv' /\ ShownInv' /\ LockInv'
         /\ req' \in [Req -> Request \cup {Idle}] /\ latest' \in Req \cup {NoReq} /\ running' \in BOOLEAN
         /\ result' \in Result \cup {NoResult} /\ lastSQL' \in Text \cup {NoText}
         /\ stale' \in BOOLEAN /\ error' \in Error \cup {NoError}
BY DEF TypeOK, LockInv, Working, LatestInv, ShownInv

LEMMA RunEffectsKeepsIInv ==
  ASSUME IInv, RunEffects
  PROVE  IInv'
<1>1. TypeOK /\ LatestInv /\ ShownInv /\ LockInv /\ EditorInv
  BY DEF IInv
<1>2. UNCHANGED <<db, url, exporting, export>> /\ pending' = "no"
  BY DEF RunEffects
<1>3. seenUrl' = url /\ seenDb' = db /\ doc' = url
  BY <1>1 DEF RunEffects, Effects, SqlEffect, EditorInv
<1>4. /\ LatestInv' /\ ShownInv' /\ LockInv'
      /\ req' \in [Req -> Request \cup {Idle}] /\ latest' \in Req \cup {NoReq} /\ running' \in BOOLEAN
      /\ result' \in Result \cup {NoResult} /\ lastSQL' \in Text \cup {NoText}
      /\ stale' \in BOOLEAN /\ error' \in Error \cup {NoError}
  <2>1. CASE EffectsClear(doc)
    <3>1. ClearResults
      BY <2>1 DEF RunEffects
    <3> QED
      BY <1>1, <1>2, <3>1, ClearResultsKeeps
  <2>2. CASE ~EffectsClear(doc)
    <3>1. UNCHANGED <<req, latest, running, result, lastSQL, stale, error>>
      BY <2>2 DEF RunEffects
    <3>2. doc' = doc /\ seenDb = db
      BY <2>2 DEF EffectsClear
    <3> QED
      BY <1>1, <1>2, <1>3, <3>1, <3>2, QuietEffectsKeep
  <2> QED
    BY <2>1, <2>2
<1>5. EditorInv'
  BY <1>2, <1>3 DEF EditorInv
<1>6. TypeOK'
  BY <1>1, <1>2, <1>3, <1>4 DEF TypeOK
<1> QED
  BY <1>4, <1>5, <1>6 DEF IInv

LEMMA NavigateKeepsIInv ==
  ASSUME IInv, NEW d \in Db, NEW t \in Text, Navigate(d, t)
  PROVE  IInv'
<1>1. TypeOK /\ LatestInv /\ ShownInv /\ LockInv /\ EditorInv
  BY DEF IInv
<1>2. UNCHANGED <<exporting, export>> /\ pending' = "later" /\ db' = d /\ url' = t
  BY DEF Navigate
<1>3. seenUrl' = url /\ seenDb' = db /\ doc' = url
  BY <1>1 DEF Navigate, Effects, SqlEffect, EditorInv
<1>4. /\ LatestInv' /\ ShownInv' /\ LockInv'
      /\ req' \in [Req -> Request \cup {Idle}] /\ latest' \in Req \cup {NoReq} /\ running' \in BOOLEAN
      /\ result' \in Result \cup {NoResult} /\ lastSQL' \in Text \cup {NoText}
      /\ stale' \in BOOLEAN /\ error' \in Error \cup {NoError}
  <2>1. CASE EffectsClear(doc)
    <3>1. ClearResults
      BY <2>1 DEF Navigate
    <3> QED
      BY <1>1, <1>2, <3>1, ClearResultsKeeps
  <2>2. CASE ~EffectsClear(doc)
    <3>1. UNCHANGED <<req, latest, running, result, lastSQL, stale, error>>
      BY <2>2 DEF Navigate
    <3>2. doc' = doc /\ seenDb = db
      BY <2>2 DEF EffectsClear
    <3> QED
      BY <1>1, <1>2, <1>3, <3>1, <3>2, QuietEffectsKeep
  <2> QED
    BY <2>1, <2>2
<1>5. EditorInv'
  BY <1>2, <1>3 DEF EditorInv
<1>6. TypeOK'
  BY <1>1, <1>2, <1>3, <1>4 DEF TypeOK
<1> QED
  BY <1>4, <1>5, <1>6 DEF IInv

(* An edit with the message it may bring along.                             *)
LEMMA ReportKeepsIInv ==
  ASSUME IInv, NEW t \in Text, NEW err \in Error \cup {NoError}, Report(t, err),
         err # NoError => err.text = t /\ err.db = db
  PROVE  IInv'
<1>1. TypeOK /\ LatestInv /\ ShownInv /\ LockInv /\ EditorInv
  BY DEF IInv
<1>2. UNCHANGED <<db, exporting, export>> /\ pending' = "later" /\ url' = t
  BY DEF Report
<1>3. seenUrl' = url /\ seenDb' = db /\ doc' = IF url = seenUrl THEN t ELSE url
  BY DEF Report, Effects, SqlEffect
<1>4. /\ LatestInv' /\ ShownInv' /\ LockInv'
      /\ req' \in [Req -> Request \cup {Idle}] /\ latest' \in Req \cup {NoReq} /\ running' \in BOOLEAN
      /\ result' \in Result \cup {NoResult} /\ lastSQL' \in Text \cup {NoText}
      /\ stale' \in BOOLEAN /\ error' \in Error \cup {NoError}
  <2>1. CASE EffectsClear(t)
    <3>1. ClearResults
      BY <2>1 DEF Report
    <3> QED
      BY <1>1, <1>2, <3>1, ClearResultsKeeps
  <2>2. CASE ~EffectsClear(t)
    <3>1. Invalidate(err)
      BY <2>2 DEF Report
    <3>2. doc' = t /\ seenDb = db
      BY <2>2 DEF EffectsClear
    <3> QED
      BY <1>1, <1>2, <1>3, <3>1, <3>2, InvalidateKeeps
  <2> QED
    BY <2>1, <2>2
<1>5. EditorInv'
  BY <1>2, <1>3 DEF EditorInv
<1>6. TypeOK'
  BY <1>1, <1>2, <1>3, <1>4 DEF TypeOK
<1> QED
  BY <1>4, <1>5, <1>6 DEF IInv

(* A change of the tab's own state leaves the props and the editor alone.   *)
LEMMA RerenderKeepsEditorInv ==
  ASSUME TypeOK, EditorInv, UNCHANGED props, UNCHANGED doc, (Rerender \/ UNCHANGED pending)
  PROVE  /\ EditorInv'
         /\ UNCHANGED <<db, seenDb, url, seenUrl, doc>>
         /\ pending' \in {"no", "later", "now"}
BY DEF TypeOK, EditorInv, Rerender, props

(* A request that is sent is for the text in the editor.                    *)
LEMMA SendIsLatest ==
  ASSUME TypeOK, NEW q \in Req, NEW kind \in {"run", "count", "save"}, NEW d \in Db, Send(q, kind, d)
  PROVE  /\ req' \in [Req -> Request \cup {Idle}]
         /\ latest' = q /\ latest' # NoReq
         /\ req'[q] # Idle /\ req'[q].kind = kind /\ req'[q].text = doc /\ req'[q].db = d
<1>1. [kind |-> kind, text |-> doc, db |-> d] \in Request
  BY DEF Request, TypeOK
<1> QED
  BY <1>1, SqlTabAssumption DEF Send, TypeOK, Request

LEMMA RunKeepsIInv ==
  ASSUME IInv, NEW q \in Req, NEW d \in Db, Run(q, d)
  PROVE  IInv'
<1>1. TypeOK /\ LatestInv /\ ShownInv /\ LockInv /\ EditorInv
  BY DEF IInv
<1>2. Send(q, "run", d) /\ d \in {db, seenDb} /\ Rerender /\ ~running
  BY DEF Run
<1>3. UNCHANGED <<doc, exporting, export, result, lastSQL>> /\ running' = TRUE /\ error' = NoError
  BY DEF Run
<1>4. stale' = (stale \/ result # NoResult)
  BY DEF Run
<1>5. EditorInv' /\ UNCHANGED <<db, seenDb, url, seenUrl, doc>> /\ pending' \in {"no", "later", "now"}
  BY <1>1, <1>2, <1>3, RerenderKeepsEditorInv DEF Rerender
<1>6. /\ req' \in [Req -> Request \cup {Idle}]
      /\ latest' = q /\ latest' # NoReq
      /\ req'[q] # Idle /\ req'[q].kind = "run" /\ req'[q].text = doc /\ req'[q].db = d
  BY <1>1, <1>2, SendIsLatest
<1>7. LatestInv'
  BY <1>2, <1>5, <1>6 DEF LatestInv
<1>8. ShownInv'
  BY <1>1, <1>3, <1>4, <1>5 DEF ShownInv
<1>9. LockInv'
  BY <1>1, <1>2, <1>3, <1>6 DEF LockInv, Working
<1>10. TypeOK'
  BY <1>1, <1>3, <1>4, <1>5, <1>6 DEF TypeOK
<1> QED
  BY <1>5, <1>7, <1>8, <1>9, <1>10 DEF IInv

LEMMA CountKeepsIInv ==
  ASSUME IInv, NEW q \in Req, Count(q)
  PROVE  IInv'
<1>1. TypeOK /\ LatestInv /\ ShownInv /\ LockInv /\ EditorInv /\ db \in Db
  BY DEF IInv, TypeOK
<1>2. Send(q, "count", db) /\ Rerender /\ ~running
  BY DEF Count
<1>3. UNCHANGED <<doc, exporting, export, result, lastSQL, stale>> /\ running' = TRUE /\ error' = NoError
  BY DEF Count, shown
<1>4. EditorInv' /\ UNCHANGED <<db, seenDb, url, seenUrl, doc>> /\ pending' \in {"no", "later", "now"}
  BY <1>1, <1>2, <1>3, RerenderKeepsEditorInv DEF Rerender
<1>5. /\ req' \in [Req -> Request \cup {Idle}]
      /\ latest' = q /\ latest' # NoReq
      /\ req'[q] # Idle /\ req'[q].kind = "count" /\ req'[q].text = doc /\ req'[q].db = db
  BY <1>1, <1>2, SendIsLatest
<1>6. LatestInv' /\ ShownInv' /\ LockInv'
  BY <1>1, <1>2, <1>3, <1>4, <1>5 DEF LatestInv, ShownInv, LockInv, Working
<1>7. TypeOK'
  BY <1>1, <1>3, <1>4, <1>5 DEF TypeOK
<1> QED
  BY <1>4, <1>6, <1>7 DEF IInv

LEMMA SaveOrDeleteKeepsIInv ==
  ASSUME IInv, NEW q \in Req, SaveOrDelete(q)
  PROVE  IInv'
<1>1. TypeOK /\ LatestInv /\ ShownInv /\ LockInv /\ EditorInv /\ db \in Db
  BY DEF IInv, TypeOK
<1>2. Send(q, "save", db) /\ UNCHANGED pending /\ UNCHANGED props /\ ~running
  BY DEF SaveOrDelete
<1>3. UNCHANGED <<doc, running, exporting, export, result, lastSQL, stale, error>>
  BY DEF SaveOrDelete, shown
<1>4. EditorInv' /\ UNCHANGED <<db, seenDb, url, seenUrl, doc>> /\ pending' \in {"no", "later", "now"}
  BY <1>1, <1>2, <1>3, RerenderKeepsEditorInv
<1>5. /\ req' \in [Req -> Request \cup {Idle}]
      /\ latest' = q /\ latest' # NoReq
      /\ req'[q] # Idle /\ req'[q].kind = "save" /\ req'[q].text = doc /\ req'[q].db = db
  BY <1>1, <1>2, SendIsLatest
<1>6. LatestInv' /\ ShownInv' /\ LockInv'
  BY <1>1, <1>2, <1>3, <1>4, <1>5 DEF LatestInv, ShownInv, LockInv, Working
<1>7. TypeOK'
  BY <1>1, <1>3, <1>4, <1>5 DEF TypeOK
<1> QED
  BY <1>4, <1>6, <1>7 DEF IInv

(* What needs no request: easter eggs, a cancellation, an export.           *)
LEMMA RunMagicKeepsIInv ==
  ASSUME IInv, RunMagic
  PROVE  IInv'
<1>1. TypeOK /\ LatestInv /\ ShownInv /\ LockInv /\ EditorInv
  BY DEF IInv
<1>2. Rerender /\ UNCHANGED doc
  BY DEF RunMagic
<1>3. EditorInv' /\ UNCHANGED <<db, seenDb, url, seenUrl, doc>> /\ pending' \in {"no", "later", "now"}
  BY <1>1, <1>2, RerenderKeepsEditorInv DEF Rerender
<1>4. LatestInv' /\ LockInv'
  BY <1>1, <1>3 DEF LatestInv, LockInv, Working, RunMagic
<1>5. ShownInv'
  BY <1>1, <1>3 DEF ShownInv, RunMagic
<1>6. TypeOK'
  BY <1>1, <1>3 DEF TypeOK, Result, RunMagic
<1> QED
  BY <1>3, <1>4, <1>5, <1>6 DEF IInv

LEMMA WhisperKeepsIInv ==
  ASSUME IInv, Whisper
  PROVE  IInv'
<1>1. TypeOK /\ LatestInv /\ ShownInv /\ LockInv /\ EditorInv
  BY DEF IInv
<1>2. Rerender /\ UNCHANGED doc
  BY DEF Whisper
<1>3. EditorInv' /\ UNCHANGED <<db, seenDb, url, seenUrl, doc>> /\ pending' \in {"no", "later", "now"}
  BY <1>1, <1>2, RerenderKeepsEditorInv DEF Rerender
<1>4. LatestInv' /\ LockInv'
  BY <1>1, <1>3 DEF LatestInv, LockInv, Working, Whisper
<1>5. ShownInv'
  BY <1>1, <1>3 DEF ShownInv, Whisper, shown
<1>6. TypeOK'
  BY <1>1, <1>3 DEF TypeOK, Error, Whisper, shown
<1> QED
  BY <1>3, <1>4, <1>5, <1>6 DEF IInv

LEMMA CancelKeepsIInv ==
  ASSUME IInv, Cancel
  PROVE  IInv'
<1>1. TypeOK /\ LatestInv /\ ShownInv /\ LockInv /\ EditorInv
  BY DEF IInv
<1>2. Rerender /\ UNCHANGED doc
  BY DEF Cancel
<1>3. EditorInv' /\ UNCHANGED <<db, seenDb, url, seenUrl, doc>> /\ pending' \in {"no", "later", "now"}
  BY <1>1, <1>2, RerenderKeepsEditorInv DEF Rerender
<1>4. LatestInv' /\ LockInv'
  BY <1>1, <1>3 DEF LatestInv, LockInv, Working, Cancel, Retire
<1>5. ShownInv'
  BY <1>1, <1>3 DEF ShownInv, Cancel, shown
<1>6. TypeOK'
  BY <1>1, <1>3 DEF TypeOK, Cancel, Retire, shown
<1> QED
  BY <1>3, <1>4, <1>5, <1>6 DEF IInv

LEMMA ExportStartsKeepsIInv ==
  ASSUME IInv, ExportStarts
  PROVE  IInv'
<1>1. TypeOK /\ LatestInv /\ ShownInv /\ LockInv /\ EditorInv
  BY DEF IInv
<1>2. Rerender /\ UNCHANGED doc
  BY DEF ExportStarts
<1>3. EditorInv' /\ UNCHANGED <<db, seenDb, url, seenUrl, doc>> /\ pending' \in {"no", "later", "now"}
  BY <1>1, <1>2, RerenderKeepsEditorInv DEF Rerender
<1>4. LatestInv' /\ LockInv'
  BY <1>1, <1>3 DEF LatestInv, LockInv, Working, ExportStarts
<1>5. ShownInv'
  BY <1>1, <1>3 DEF ShownInv, ExportStarts, shown
<1>6. TypeOK'
  BY <1>1, <1>3 DEF TypeOK, Asked, ExportStarts, shown
<1> QED
  BY <1>3, <1>4, <1>5, <1>6 DEF IInv

LEMMA ExportEndsKeepsIInv ==
  ASSUME IInv, NEW failed \in BOOLEAN, ExportEnds(failed)
  PROVE  IInv'
<1>1. TypeOK /\ LatestInv /\ ShownInv /\ LockInv /\ EditorInv
  BY DEF IInv
<1>2. Rerender /\ UNCHANGED doc
  BY DEF ExportEnds
<1>3. EditorInv' /\ UNCHANGED <<db, seenDb, url, seenUrl, doc>> /\ pending' \in {"no", "later", "now"}
  BY <1>1, <1>2, RerenderKeepsEditorInv DEF Rerender
<1>4. LatestInv' /\ LockInv'
  BY <1>1, <1>3 DEF LatestInv, LockInv, Working, ExportEnds
<1>5. ShownInv'
  BY <1>1, <1>3 DEF ShownInv, ExportEnds, shown
<1>6. TypeOK'
  BY <1>1, <1>3 DEF TypeOK, Asked, Error, ExportEnds, shown
<1> QED
  BY <1>3, <1>4, <1>5, <1>6 DEF IInv

(* An answer frees its request; the latest action stays, or is over.        *)
LEMMA EndsKeepsLatest ==
  ASSUME TypeOK, LatestInv, NEW q \in Req, req[q] # Idle, Ends(q), UNCHANGED <<doc, db, seenDb>>
  PROVE  /\ req' \in [Req -> Request \cup {Idle}] /\ latest' \in Req \cup {NoReq}
         /\ LatestInv'
         /\ IF latest = q THEN ~Working' ELSE Working' <=> Working
         /\ req[q].text \in Text /\ req[q].db \in Db
BY DEF TypeOK, LatestInv, Working, Ends, Request

LEMMA AnswerLateKeepsIInv ==
  ASSUME IInv, NEW q \in Req, AnswerLate(q)
  PROVE  IInv'
<1>1. TypeOK /\ LatestInv /\ ShownInv /\ LockInv /\ EditorInv
  BY DEF IInv
<1>2. /\ req[q] # Idle /\ latest # q /\ Ends(q)
      /\ UNCHANGED <<pending, doc, running, exporting, export, result, lastSQL, stale, error>> /\ UNCHANGED props
  BY DEF AnswerLate, IsLatest, shown
<1>3. EditorInv' /\ UNCHANGED <<db, seenDb, url, seenUrl, doc>> /\ pending' \in {"no", "later", "now"}
  BY <1>1, <1>2, RerenderKeepsEditorInv
<1>4. /\ req' \in [Req -> Request \cup {Idle}] /\ latest' \in Req \cup {NoReq} /\ LatestInv'
      /\ Working' <=> Working
  BY <1>1, <1>2, <1>3, EndsKeepsLatest
<1>5. ShownInv' /\ LockInv'
  BY <1>1, <1>2, <1>3, <1>4 DEF ShownInv, LockInv
<1>6. TypeOK'
  BY <1>1, <1>2, <1>3, <1>4 DEF TypeOK
<1> QED
  BY <1>3, <1>4, <1>5, <1>6 DEF IInv

(* An answer that is heeded is for the text in the editor.                  *)
LEMMA LatestAnswerIsCurrent ==
  ASSUME IInv, NEW q \in Req,
         \/ RunSucceeds(q) \/ RunFails(q)
         \/ \E failed \in BOOLEAN : CountEnds(q, failed) \/ SaveEnds(q, failed)
  PROVE  /\ EditorInv' /\ UNCHANGED <<db, seenDb, url, seenUrl, doc, exporting, export>>
         /\ pending' \in {"no", "later", "now"}
         /\ req' \in [Req -> Request \cup {Idle}] /\ latest' \in Req \cup {NoReq} /\ LatestInv' /\ ~Working'
         /\ latest = q /\ latest # NoReq
         /\ req[q].text = doc /\ req[q].text \in Text
         /\ seenDb = db => req[q].db = db
         /\ req[q].db \in Db
<1>1. TypeOK /\ LatestInv /\ EditorInv
  BY DEF IInv
<1>2. Rerender /\ UNCHANGED <<doc, exporting, export>> /\ latest = q /\ req[q] # Idle /\ Ends(q)
  BY DEF RunSucceeds, RunFails, CountEnds, SaveEnds, IsLatest
<1>3. EditorInv' /\ UNCHANGED <<db, seenDb, url, seenUrl, doc>> /\ pending' \in {"no", "later", "now"}
  BY <1>1, <1>2, RerenderKeepsEditorInv DEF Rerender
<1> QED
  BY <1>1, <1>2, <1>3, EndsKeepsLatest, SqlTabAssumption DEF LatestInv

LEMMA RunAnswersKeepIInv ==
  ASSUME IInv, NEW q \in Req, RunSucceeds(q) \/ RunFails(q)
  PROVE  IInv'
<1>1. TypeOK /\ LockInv
  BY DEF IInv
<1>2. ~exporting /\ running' = FALSE
  BY LatestAnswerIsCurrent DEF IInv, LockInv, Working, RunSucceeds, RunFails
<1>3. LockInv'
  BY <1>1, <1>2, LatestAnswerIsCurrent DEF LockInv
<1>4. ShownInv'
  <2>1. CASE RunSucceeds(q)
    BY <2>1, LatestAnswerIsCurrent DEF IInv, ShownInv, RunSucceeds
  <2>2. CASE RunFails(q)
    BY <2>2, LatestAnswerIsCurrent DEF ShownInv, RunFails
  <2> QED
    BY <2>1, <2>2
<1>5. TypeOK'
  <2>1. CASE RunSucceeds(q)
    BY <1>1, <2>1, LatestAnswerIsCurrent DEF TypeOK, Result, RunSucceeds
  <2>2. CASE RunFails(q)
    BY <1>1, <2>2, LatestAnswerIsCurrent DEF TypeOK, Error, RunFails
  <2> QED
    BY <2>1, <2>2
<1> QED
  BY <1>3, <1>4, <1>5, LatestAnswerIsCurrent DEF IInv

LEMMA CountEndsKeepsIInv ==
  ASSUME IInv, NEW q \in Req, NEW failed \in BOOLEAN, CountEnds(q, failed)
  PROVE  IInv'
<1>1. TypeOK /\ LockInv /\ ShownInv
  BY DEF IInv
<1>2. ~exporting /\ running' = FALSE /\ UNCHANGED shown
  BY LatestAnswerIsCurrent DEF IInv, LockInv, Working, CountEnds
<1>3. LockInv'
  BY <1>1, <1>2, LatestAnswerIsCurrent DEF LockInv
<1>4. ShownInv'
  <2>1. /\ UNCHANGED <<db, seenDb, doc>>
        /\ req[q].text = doc /\ (seenDb = db => req[q].db = db)
    BY LatestAnswerIsCurrent
  <2>2. error' = error \/ error' = [text |-> req[q].text, db |-> req[q].db, kind |-> "count"]
    BY DEF CountEnds
  <2> QED
    BY <1>1, <1>2, <2>1, <2>2 DEF ShownInv, shown
<1>5. TypeOK'
  BY <1>1, <1>2, LatestAnswerIsCurrent DEF TypeOK, Error, CountEnds, shown
<1> QED
  BY <1>3, <1>4, <1>5, LatestAnswerIsCurrent DEF IInv

LEMMA SaveEndsKeepsIInv ==
  ASSUME IInv, NEW q \in Req, NEW failed \in BOOLEAN, SaveEnds(q, failed)
  PROVE  IInv'
<1>1. TypeOK /\ LockInv /\ ShownInv
  BY DEF IInv
<1>2. ~Working /\ UNCHANGED running /\ UNCHANGED shown
  BY LatestAnswerIsCurrent DEF Working, SaveEnds
<1>3. LockInv'
  BY <1>1, <1>2, LatestAnswerIsCurrent DEF LockInv
<1>4. ShownInv'
  BY <1>1, <1>2, LatestAnswerIsCurrent DEF ShownInv, SaveEnds, shown
<1>5. TypeOK'
  BY <1>1, <1>2, LatestAnswerIsCurrent DEF TypeOK, SaveEnds, shown
<1> QED
  BY <1>3, <1>4, <1>5, LatestAnswerIsCurrent DEF IInv

-----------------------------------------------------------------------------
LEMMA InitHasIInv ==
  ASSUME Init
  PROVE  IInv
BY DEF Init, IInv, TypeOK, LatestInv, ShownInv, LockInv, Working, EditorInv

LEMMA EditsKeepIInv ==
  ASSUME IInv, NEW t \in Text, Edit(t) \/ RewriteDrop(t)
  PROVE  IInv'
<1>1. CASE Edit(t)
  BY <1>1, ReportKeepsIInv DEF Edit
<1>2. CASE RewriteDrop(t)
  <2> DEFINE err == [text |-> t, db |-> db, kind |-> "egg"]
  <2>1. err \in Error /\ err.text = t /\ err.db = db
    BY DEF IInv, TypeOK, Error
  <2>2. Report(t, err)
    BY <1>2 DEF RewriteDrop
  <2> HIDE DEF err
  <2> QED
    BY <2>1, <2>2, ReportKeepsIInv
<1> QED
  BY <1>1, <1>2

LEMMA StepKeepsIInv ==
  ASSUME IInv, [Next]_vars
  PROVE  IInv'
<1>1. CASE UserStep
  BY <1>1, EditsKeepIInv, NavigateKeepsIInv, CountKeepsIInv, SaveOrDeleteKeepsIInv, RunKeepsIInv,
     RunMagicKeepsIInv, WhisperKeepsIInv, CancelKeepsIInv, ExportStartsKeepsIInv DEF UserStep
<1>2. ASSUME NEW q \in Req, AnswerStep(q)
      PROVE  IInv'
  BY <1>2, AnswerLateKeepsIInv, RunAnswersKeepIInv, CountEndsKeepsIInv, SaveEndsKeepsIInv DEF AnswerStep
<1>3. CASE UNCHANGED vars
  BY <1>3 DEF vars, IInv, TypeOK, LatestInv, ShownInv, LockInv, Working, EditorInv
<1> QED
  BY <1>1, <1>2, <1>3, RunEffectsKeepsIInv, ExportEndsKeepsIInv DEF Next

(* The invariant holds in every reachable state.                            *)
THEOREM Invariance == Spec => []IInv
<1>1. Init => IInv
  BY InitHasIInv
<1>2. IInv /\ [Next]_vars => IInv'
  BY StepKeepsIInv
<1> QED
  BY <1>1, <1>2, PTL DEF Spec

-----------------------------------------------------------------------------
(* What it gives                                                            *)

(* What the tab shows as current is current: an answer that is heeded was   *)
(* asked for under the text and the database that still hold.               *)
THEOREM ViewIsFresh == Spec => []FreshView
<1>1. IInv => FreshView
  BY DEF IInv, ShownInv, FreshView, FreshResult, FreshError
<1> QED
  BY <1>1, Invariance, PTL

(* The controls are locked exactly while an export or the latest action's   *)
(* request is under way.                                                    *)
THEOREM LockIsExact == Spec => []LockedWhileWorking
<1>1. IInv => LockedWhileWorking
  BY DEF IInv, LatestInv, LockInv, Working, LockedWhileWorking
<1> QED
  BY <1>1, Invariance, PTL

(* Once the effects have run, the editor holds the SQL of the page's URL.   *)
THEOREM EditorIsTheUrl == Spec => []EditorMatchesUrl
<1>1. IInv => EditorMatchesUrl
  BY DEF IInv, EditorInv, EditorMatchesUrl
<1> QED
  BY <1>1, Invariance, PTL

(* An export under a query's result asks for that query and its database.   *)
THEOREM ExportIsOfTheResult == Spec => ExportOfQueryResult
<1>1. ASSUME IInv, [Next]_vars
      PROVE  [~exporting /\ exporting' /\ result # NoResult /\ ~result.magic
                => /\ export'.text = result.text
                   /\ seenDb = db => export'.db = result.db]_vars
  <2>1. CASE ExportStarts
    <3>1. ASSUME result # NoResult, ~result.magic
          PROVE  lastSQL = result.text /\ lastSQL # NoText /\ (seenDb = db => result.db = db)
      BY <1>1, <3>1, SqlTabAssumption DEF IInv, TypeOK, Result, ShownInv
    <3> QED
      BY <2>1, <3>1 DEF ExportStarts
  <2>2. ASSUME ~ExportStarts, UserStep \/ RunEffects \/ \E q \in Req : AnswerStep(q)
        PROVE  UNCHANGED exporting
    BY <2>2 DEF UserStep, Edit, RewriteDrop, Report, Navigate, Count, SaveOrDelete, Run, RunMagic, Whisper,
                Cancel, RunEffects, AnswerStep, AnswerLate, RunSucceeds, RunFails, CountEnds, SaveEnds
  <2>3. ASSUME NEW failed \in BOOLEAN, ExportEnds(failed)
        PROVE  exporting' = FALSE
    BY <2>3 DEF ExportEnds
  <2> QED
    BY <1>1, <2>1, <2>2, <2>3 DEF Next
<1> QED
  BY <1>1, Invariance, PTL DEF Spec, ExportOfQueryResult
=============================================================================
