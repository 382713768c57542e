------------------------- MODULE SavedQueriesProofs --------------------------
(***************************************************************************)
(* SavedQueries for any tabs, any actions in flight, any number of presets  *)
(* and of rows: ids that keep their meaning, presets that stay apart from   *)
(* the team's work, and a drop-down that names what the list has.           *)
(***************************************************************************)
EXTENDS SavedQueries, TLAPS

TypeOK ==
  /\ rows \in SUBSET Row
  /\ lastId \in Nat
  /\ inserts \in 0..MaxInserts
  /\ proc \in {"down", "counting", "seeding", "serving"}
  /\ next \in 1..Presets
  /\ loaded \in SUBSET (1..Presets)
  /\ warned \in BOOLEAN
  /\ listed \in [Tab -> SUBSET Row]
  /\ selected \in [Tab -> Id \cup {0}]
  /\ flow \in [Flow -> FlowState]

(* SQLite counts every insertion, and a row is named after its own: here,   *)
(* in the lists that tabs show, and in the answers on their way.            *)
Named(R) == \A r \in R : r.id = r.born /\ r.id <= lastId

IdsInv ==
  /\ lastId = inserts
  /\ Named(rows)
  /\ \A t \in Tab : Named(listed[t])
  /\ \A f \in Flow : Named(flow[f].answer)

(* While presets go in, the table holds only those that went before.        *)
SeedingInv ==
  proc = "seeding" => \A q \in rows : q.text = "seed" /\ q.preset < next

(* A save that has its row knows the row's id; when the list is on its way, *)
(* the row is in that list, or it is gone and will not come back.           *)
SaveInv ==
  \A f \in Flow : flow[f].op = "save" =>
    /\ flow[f].stage \in {"read", "done", "list", "listed"} => flow[f].id \in 1..lastId
    /\ flow[f].stage = "listed" =>
         \A r \in rows : r.id = flow[f].id => \E s \in flow[f].answer : s.id = flow[f].id

(* Only a tab has a list coming, and no tab edits a row in place.           *)
TabInv ==
  \A f \in Flow :
    /\ flow[f].stage \in {"list", "listed"} => flow[f].tab \in Tab
    /\ flow[f].op = "update" => flow[f].tab = NoTab

IInv == TypeOK /\ IdsInv /\ SeedingInv /\ SaveInv /\ TabInv

-----------------------------------------------------------------------------
(* The invariant is inductive                                               *)

LEMMA InitIsTyped ==
  ASSUME Init
  PROVE  IInv
<1>1. 1 \in 1..Presets
  BY SavedQueriesAssumption
<1>2. 0 \in 0..MaxInserts
  BY SavedQueriesAssumption
<1>3. NoFlow \in FlowState
  BY DEF NoFlow, FlowState, Stage
<1>4. TypeOK
  BY <1>1, <1>2, <1>3 DEF Init, TypeOK
<1> QED
  BY <1>4 DEF Init, IInv, IdsInv, Named, SeedingInv, SaveInv, TabInv, NoFlow

(* A row that goes in is named after its insertion, and no row before it    *)
(* has that name.                                                           *)
LEMMA InsertIsNamed ==
  ASSUME TypeOK, IdsInv, NEW p \in 0..Presets, NEW t \in {"seed", "team"}, Insert(p, t)
  PROVE  /\ lastId' = lastId + 1 /\ inserts' = inserts + 1 /\ inserts' \in 0..MaxInserts
         /\ NewRow(p, t) \in Row
         /\ NewRow(p, t).id = lastId' /\ NewRow(p, t).born = lastId'
         /\ NewRow(p, t).text = t /\ NewRow(p, t).preset = p
         /\ rows' = rows \cup {NewRow(p, t)}
         /\ lastId' \in Id
<1>1. lastId \in Nat /\ lastId = inserts /\ inserts \in 0..MaxInserts /\ inserts < MaxInserts
  BY DEF TypeOK, IdsInv, Insert
<1>2. lastId + 1 \in 1..MaxInserts /\ inserts + 1 \in 1..MaxInserts
  BY <1>1, SavedQueriesAssumption
<1>3. lastId' = lastId + 1
  BY <1>1 DEF Insert, NewRow
<1> QED
  BY <1>1, <1>2, <1>3 DEF Insert, NewRow, Row, Id

LEMMA BootKeepsIInv ==
  ASSUME IInv, Boot
  PROVE  IInv'
BY DEF IInv, TypeOK, IdsInv, Named, SeedingInv, SaveInv, TabInv, Boot

LEMMA CountRowsKeepsIInv ==
  ASSUME IInv, CountRows
  PROVE  IInv'
<1>1. 1 \in 1..Presets
  BY SavedQueriesAssumption
<1> QED
  BY <1>1 DEF IInv, TypeOK, IdsInv, Named, SeedingInv, SaveInv, TabInv, CountRows

LEMMA SeedFailsKeepsIInv ==
  ASSUME IInv, SeedFails
  PROVE  IInv'
BY DEF IInv, TypeOK, IdsInv, Named, SeedingInv, SaveInv, TabInv, SeedFails

LEMMA SeedInsertKeepsIInv ==
  ASSUME IInv, SeedInsert
  PROVE  IInv'
<1> DEFINE new == NewRow(next, "seed")
<1>1. TypeOK /\ IdsInv /\ next \in 1..Presets /\ next \in 0..Presets
  BY SavedQueriesAssumption DEF IInv, TypeOK
<1>2. /\ lastId' = lastId + 1 /\ inserts' = inserts + 1 /\ inserts' \in 0..MaxInserts
      /\ new \in Row /\ new.id = lastId' /\ new.born = lastId'
      /\ new.text = "seed" /\ new.preset = next
      /\ rows' = rows \cup {new}
  BY <1>1, InsertIsNamed DEF SeedInsert
<1>3. UNCHANGED <<warned, listed, selected, flow>>
  BY DEF SeedInsert
<1>4. \/ proc' = "serving" /\ next' = next
      \/ next # Presets /\ next' = next + 1 /\ proc' = "seeding"
  BY DEF SeedInsert, LastPreset
<1>5. next' \in 1..Presets /\ proc' \in {"seeding", "serving"} /\ loaded' \in SUBSET (1..Presets)
  BY <1>1, <1>4, SavedQueriesAssumption DEF SeedInsert, IInv, TypeOK
<1> HIDE DEF new
<1>6. TypeOK'
  BY <1>1, <1>2, <1>3, <1>5 DEF TypeOK
<1>7. IdsInv'
  BY <1>1, <1>2, <1>3 DEF IdsInv, Named, TypeOK, Row, FlowState, Id
<1>8. SeedingInv'
  BY <1>1, <1>2, <1>4 DEF IInv, SeedingInv, SeedInsert, TypeOK, Row
<1>9. SaveInv'
  BY <1>1, <1>2, <1>3 DEF IInv, SaveInv, TypeOK
<1> QED
  BY <1>3, <1>6, <1>7, <1>8, <1>9 DEF IInv, TabInv

(* What an error leaves of an action is a state of an action.               *)
LEMMA FailsIsTyped ==
  ASSUME TypeOK, NEW f \in Flow
  PROVE  /\ Fails(f) \in FlowState
         /\ Fails(f).stage = "failed" /\ Fails(f).op = "reload" /\ Fails(f).answer = {}
<1>1. flow[f].tab \in Tab \cup {NoTab}
  BY DEF TypeOK, FlowState
<1> QED
  BY <1>1 DEF Fails, NoFlow, FlowState, Stage

LEMMA CrashKeepsIInv ==
  ASSUME IInv, Crash
  PROVE  IInv'
<1>1. TypeOK
  BY DEF IInv
<1>2. UNCHANGED <<rows, lastId, inserts, next, loaded, warned, listed, selected>> /\ proc' = "down"
  BY DEF Crash
<1>3. flow' \in [Flow -> FlowState]
  BY <1>1, FailsIsTyped DEF Crash, TypeOK
<1>4. ASSUME NEW f \in Flow
      PROVE  flow'[f] = flow[f]
               \/ (flow'[f].stage = "failed" /\ flow'[f].op = "reload" /\ flow'[f].answer = {})
  BY <1>1, <1>4, FailsIsTyped DEF Crash
<1>5. TypeOK'
  BY <1>1, <1>2, <1>3 DEF TypeOK
<1>6. IdsInv' /\ SaveInv' /\ TabInv'
  BY <1>2, <1>4 DEF IInv, IdsInv, Named, SaveInv, TabInv
<1> QED
  BY <1>2, <1>5, <1>6 DEF IInv, SeedingInv

LEMMA CreateInsertsKeepsIInv ==
  ASSUME IInv, NEW f \in Flow, CreateInserts(f)
  PROVE  IInv'
<1> DEFINE new == NewRow(0, "team")
<1>1. TypeOK /\ IdsInv /\ 0 \in 0..Presets
  BY SavedQueriesAssumption DEF IInv
<1>2. /\ lastId' = lastId + 1 /\ inserts' = inserts + 1 /\ inserts' \in 0..MaxInserts
      /\ new \in Row /\ new.id = lastId' /\ new.born = lastId'
      /\ rows' = rows \cup {new} /\ lastId' \in Id
  BY <1>1, InsertIsNamed DEF CreateInserts
<1>3. UNCHANGED <<proc, next, loaded, warned, listed, selected>> /\ proc = "serving"
  BY DEF CreateInserts, Serves
<1>4. flow' = [flow EXCEPT ![f].stage = "read", ![f].id = new.id]
  BY DEF CreateInserts
<1>5. flow[f].stage = "write"
  BY DEF CreateInserts, Serves
<1> HIDE DEF new
<1>6. flow' \in [Flow -> FlowState]
  <2>1. flow' = [flow EXCEPT ![f] = [[flow[f] EXCEPT !.stage = "read"] EXCEPT !.id = lastId']]
    BY <1>1, <1>2, <1>4 DEF TypeOK
  <2>2. [[flow[f] EXCEPT !.stage = "read"] EXCEPT !.id = lastId'] \in FlowState
    BY <1>1, <1>2 DEF TypeOK, FlowState, Stage
  <2> QED
    BY <1>1, <2>1, <2>2 DEF TypeOK
<1>7. TypeOK'
  BY <1>1, <1>2, <1>3, <1>6 DEF TypeOK
<1>8. ASSUME NEW g \in Flow
      PROVE  \/ g # f /\ flow'[g] = flow[g]
             \/ /\ g = f /\ flow'[g].stage = "read" /\ flow'[g].id = lastId'
                /\ flow'[g].op = flow[g].op /\ flow'[g].tab = flow[g].tab /\ flow'[g].answer = flow[g].answer
  BY <1>1, <1>2, <1>4 DEF TypeOK, FlowState
<1>9. IdsInv'
  BY <1>1, <1>2, <1>3, <1>8 DEF IdsInv, Named, TypeOK, Row, FlowState, Id
<1>10. SaveInv'
  BY <1>1, <1>2, <1>8 DEF IInv, SaveInv, TypeOK
<1>11. TabInv'
  BY <1>8 DEF IInv, TabInv
<1> QED
  BY <1>3, <1>7, <1>9, <1>10, <1>11 DEF IInv, SeedingInv

(* A handler that goes on with an action changes its stage only.            *)
LEMMA GoesIsTyped ==
  ASSUME TypeOK, NEW f \in Flow, NEW stage \in Stage, Goes(f, stage) \/ GoesIfFound(f, stage)
  PROVE  /\ flow' \in [Flow -> FlowState]
         /\ \A g \in Flow : g # f => flow'[g] = flow[g]
         /\ \/ /\ flow'[f].stage = stage
               /\ flow'[f].op = flow[f].op /\ flow'[f].tab = flow[f].tab
               /\ flow'[f].id = flow[f].id /\ flow'[f].answer = flow[f].answer
            \/ flow'[f].stage = "failed" /\ flow'[f].op = "reload" /\ flow'[f].answer = {}
<1>1. CASE flow' = [flow EXCEPT ![f].stage = stage]
  BY <1>1 DEF TypeOK, FlowState
<1>2. CASE flow' = [flow EXCEPT ![f] = Fails(f)]
  BY <1>2, FailsIsTyped DEF TypeOK
<1> QED
  BY <1>1, <1>2 DEF Goes, GoesIfFound

LEMMA UpdateWritesKeepsIInv ==
  ASSUME IInv, NEW f \in Flow, UpdateWrites(f)
  PROVE  IInv'
<1> DEFINE edited == {[r EXCEPT !.text = "team"] : r \in RowsWith(flow[f].id)}
<1>1. TypeOK /\ IdsInv
  BY DEF IInv
<1>2. UNCHANGED <<lastId, inserts, proc, next, loaded, warned, listed, selected>> /\ proc = "serving"
  BY DEF UpdateWrites, ServerUnchanged, Serves
<1>3. rows' = (rows \ RowsWith(flow[f].id)) \cup edited
  BY DEF UpdateWrites
<1>4. ASSUME NEW r \in rows'
      PROVE  r \in Row /\ \E q \in rows : q.id = r.id /\ q.born = r.born
  <2>1. CASE r \in rows
    BY <1>1, <2>1 DEF TypeOK
  <2>2. CASE r \in edited
    <3>1. PICK q \in rows : r = [q EXCEPT !.text = "team"]
      BY <2>2 DEF RowsWith
    <3>2. q \in Row
      BY <1>1 DEF TypeOK
    <3> QED
      BY <3>1, <3>2 DEF Row
  <2> QED
    BY <1>3, <1>4, <2>1, <2>2
<1> HIDE DEF edited
<1>5. flow[f].stage = "write" /\ flow[f].op = "update"
  BY DEF UpdateWrites, Serves
<1>6. /\ flow' \in [Flow -> FlowState]
      /\ \A g \in Flow : g # f => flow'[g] = flow[g]
      /\ \/ /\ flow'[f].stage = "read" /\ flow'[f].op = "update"
            /\ flow'[f].tab = flow[f].tab /\ flow'[f].answer = flow[f].answer
         \/ flow'[f].stage = "failed" /\ flow'[f].op = "reload" /\ flow'[f].answer = {}
  <2>1. "read" \in Stage
    BY DEF Stage
  <2>2. GoesIfFound(f, "read")
    BY DEF UpdateWrites
  <2> QED
    BY <1>1, <1>5, <2>1, <2>2, GoesIsTyped
<1>7. TypeOK'
  BY <1>1, <1>2, <1>4, <1>6 DEF TypeOK
<1>8. IdsInv'
  BY <1>1, <1>2, <1>4, <1>6 DEF IdsInv, Named
<1>9. SaveInv'
  BY <1>2, <1>4, <1>6 DEF IInv, SaveInv
<1>10. TabInv'
  BY <1>5, <1>6 DEF IInv, TabInv
<1> QED
  BY <1>2, <1>7, <1>8, <1>9, <1>10 DEF IInv, SeedingInv

LEMMA GetReadsKeepsIInv ==
  ASSUME IInv, NEW f \in Flow, GetReads(f)
  PROVE  IInv'
<1>1. TypeOK /\ "done" \in Stage
  BY DEF IInv, Stage
<1>2. UNCHANGED <<rows, lastId, inserts, proc, next, loaded, warned, listed, selected>>
  BY DEF GetReads, ServerUnchanged
<1>3. flow[f].stage = "read" /\ GoesIfFound(f, "done")
  BY DEF GetReads, Serves
<1>4. TypeOK'
  BY <1>1, <1>2, <1>3, GoesIsTyped DEF TypeOK
<1>5. IdsInv' /\ SaveInv' /\ TabInv'
  BY <1>1, <1>2, <1>3, GoesIsTyped DEF IInv, IdsInv, Named, SaveInv, TabInv
<1> QED
  BY <1>2, <1>4, <1>5 DEF IInv, SeedingInv

LEMMA DeleteWritesKeepsIInv ==
  ASSUME IInv, NEW f \in Flow, DeleteWrites(f)
  PROVE  IInv'
<1>1. TypeOK /\ "done" \in Stage
  BY DEF IInv, Stage
<1>2. UNCHANGED <<lastId, inserts, proc, next, loaded, warned, listed, selected>> /\ rows' \subseteq rows
  BY DEF DeleteWrites, ServerUnchanged
<1>3. flow[f].stage = "write" /\ flow[f].op = "delete" /\ GoesIfFound(f, "done")
  BY DEF DeleteWrites, Serves
<1>4. TypeOK'
  BY <1>1, <1>2, <1>3, GoesIsTyped DEF TypeOK
<1>5. IdsInv' /\ SaveInv' /\ TabInv'
  BY <1>1, <1>2, <1>3, GoesIsTyped DEF IInv, IdsInv, Named, SaveInv, TabInv
<1> QED
  BY <1>2, <1>4, <1>5 DEF IInv, SeedingInv

LEMMA ListReadsKeepsIInv ==
  ASSUME IInv, NEW f \in Flow, ListReads(f)
  PROVE  IInv'
<1>1. TypeOK
  BY DEF IInv
<1>2. UNCHANGED <<rows, lastId, inserts, proc, next, loaded, warned, listed, selected>>
  BY DEF ListReads, ServerUnchanged
<1>3. flow[f].stage = "list" /\ flow' = [flow EXCEPT ![f].stage = "listed", ![f].answer = rows]
  BY DEF ListReads, Serves
<1>4. [[flow[f] EXCEPT !.stage = "listed"] EXCEPT !.answer = rows] \in FlowState
  BY <1>1 DEF TypeOK, FlowState, Stage
<1>5. flow' = [flow EXCEPT ![f] = [[flow[f] EXCEPT !.stage = "listed"] EXCEPT !.answer = rows]]
  BY <1>1, <1>3 DEF TypeOK
<1>6. TypeOK'
  BY <1>1, <1>2, <1>4, <1>5 DEF TypeOK
<1>7. ASSUME NEW g \in Flow
      PROVE  \/ flow'[g] = flow[g]
             \/ /\ flow[g].stage = "list" /\ flow'[g].stage = "listed" /\ flow'[g].answer = rows
                /\ flow'[g].op = flow[g].op /\ flow'[g].tab = flow[g].tab /\ flow'[g].id = flow[g].id
  BY <1>1, <1>3 DEF TypeOK, FlowState
<1>8. IdsInv' /\ SaveInv' /\ TabInv'
  BY <1>2, <1>7 DEF IInv, IdsInv, Named, SaveInv, TabInv
<1> QED
  BY <1>2, <1>6, <1>8 DEF IInv, SeedingInv

LEMMA RequestFailsKeepsIInv ==
  ASSUME IInv, NEW f \in Flow, RequestFails(f)
  PROVE  IInv'
<1>1. TypeOK
  BY DEF IInv
<1>2. UNCHANGED <<rows, lastId, inserts, proc, next, loaded, warned, listed, selected>>
  BY DEF RequestFails, ServerUnchanged
<1>3. flow' = [flow EXCEPT ![f] = Fails(f)]
  BY DEF RequestFails
<1>4. TypeOK'
  BY <1>1, <1>2, <1>3, FailsIsTyped DEF TypeOK
<1>5. IdsInv' /\ SaveInv' /\ TabInv'
  BY <1>1, <1>2, <1>3, FailsIsTyped DEF IInv, IdsInv, Named, SaveInv, TabInv, TypeOK
<1> QED
  BY <1>2, <1>4, <1>5 DEF IInv, SeedingInv

(* An action that begins has asked for nothing yet that it could have had.  *)
LEMMA BeginKeepsIInv ==
  ASSUME IInv, NEW f \in Flow, NEW t \in Tab \cup {NoTab},
         NEW op \in {"save", "update", "delete", "reload"}, NEW i \in Id \cup {0},
         op = "reload" => t \in Tab, op = "update" => t = NoTab,
         Begin(f, t, op, i),
         UNCHANGED <<rows, lastId, inserts, proc, next, loaded, warned, listed, selected>>
  PROVE  IInv'
<1>1. TypeOK
  BY DEF IInv
<1>2. flow' \in [Flow -> FlowState]
  <2>1. [stage |-> IF op = "reload" THEN "list" ELSE "write", op |-> op, tab |-> t,
         id |-> i, answer |-> {}, current |-> t # NoTab] \in FlowState
    BY DEF FlowState, Stage
  <2>2. \A g \in Flow : [flow[g] EXCEPT !.current = FALSE] \in FlowState
    BY <1>1 DEF TypeOK, FlowState
  <2> QED
    BY <1>1, <2>1, <2>2 DEF Begin, TypeOK
<1>3. ASSUME NEW g \in Flow
      PROVE  \/ /\ flow'[g].stage = flow[g].stage /\ flow'[g].op = flow[g].op /\ flow'[g].tab = flow[g].tab
                /\ flow'[g].id = flow[g].id /\ flow'[g].answer = flow[g].answer
             \/ /\ flow'[g].stage = IF op = "reload" THEN "list" ELSE "write"
                /\ flow'[g].op = op /\ flow'[g].tab = t /\ flow'[g].answer = {}
  BY <1>1 DEF Begin, TypeOK, FlowState
<1>4. TypeOK'
  BY <1>1, <1>2 DEF TypeOK
<1>5. IdsInv' /\ SaveInv' /\ TabInv'
  BY <1>3 DEF IInv, IdsInv, Named, SaveInv, TabInv
<1> QED
  BY <1>4, <1>5 DEF IInv, SeedingInv

(* Picking a query and hearing of an end of an action leave the store alone.*)
LEMMA PickKeepsIInv ==
  ASSUME IInv, NEW t \in Tab, NEW i \in Id, Pick(t, i)
  PROVE  IInv'
<1>1. TypeOK
  BY DEF IInv
<1>2. UNCHANGED <<rows, lastId, inserts, proc, next, loaded, warned, listed>>
  BY DEF Pick, ServerUnchanged
<1>3. flow' \in [Flow -> FlowState]
  <2>1. \A g \in Flow : [flow[g] EXCEPT !.current = FALSE] \in FlowState
    BY <1>1 DEF TypeOK, FlowState
  <2> QED
    BY <1>1, <2>1 DEF Pick, TypeOK
<1>4. ASSUME NEW g \in Flow
      PROVE  /\ flow'[g].stage = flow[g].stage /\ flow'[g].op = flow[g].op /\ flow'[g].tab = flow[g].tab
             /\ flow'[g].id = flow[g].id /\ flow'[g].answer = flow[g].answer
  BY <1>1 DEF Pick, TypeOK, FlowState
<1>5. selected' \in [Tab -> Id \cup {0}]
  BY <1>1 DEF Pick, TypeOK
<1>6. TypeOK'
  BY <1>1, <1>2, <1>3, <1>5 DEF TypeOK
<1>7. IdsInv' /\ SaveInv' /\ TabInv'
  BY <1>2, <1>4 DEF IInv, IdsInv, Named, SaveInv, TabInv
<1> QED
  BY <1>2, <1>6, <1>7 DEF IInv, SeedingInv

LEMMA NoFlowIsTyped == NoFlow \in FlowState
BY DEF NoFlow, FlowState, Stage

LEMMA FailedKeepsIInv ==
  ASSUME IInv, NEW f \in Flow, Failed(f)
  PROVE  IInv'
<1>1. flow' = [flow EXCEPT ![f] = NoFlow]
  BY DEF Failed
<1>2. UNCHANGED <<rows, lastId, inserts, proc, next, loaded, warned, listed, selected>>
  BY DEF Failed, ServerUnchanged
<1>3. TypeOK'
  BY <1>1, <1>2, NoFlowIsTyped DEF IInv, TypeOK
<1>4. IdsInv' /\ SaveInv' /\ TabInv'
  BY <1>1, <1>2 DEF IInv, TypeOK, IdsInv, Named, SaveInv, TabInv, NoFlow
<1> QED
  BY <1>2, <1>3, <1>4 DEF IInv, SeedingInv

LEMMA ConfirmedKeepsIInv ==
  ASSUME IInv, NEW f \in Flow, Confirmed(f)
  PROVE  IInv'
<1>1. TypeOK /\ flow[f].stage = "done"
  BY DEF IInv, Confirmed
<1>2. UNCHANGED <<rows, lastId, inserts, proc, next, loaded, warned, listed, selected>>
  BY DEF Confirmed, ServerUnchanged
<1>3. CASE flow[f].tab = NoTab
  <2>1. flow' = [flow EXCEPT ![f] = NoFlow]
    BY <1>3 DEF Confirmed
  <2>2. TypeOK'
    BY <1>1, <1>2, <2>1, NoFlowIsTyped DEF TypeOK
  <2>3. IdsInv' /\ SaveInv' /\ TabInv'
    BY <1>2, <2>1 DEF IInv, TypeOK, IdsInv, Named, SaveInv, TabInv, NoFlow
  <2> QED
    BY <1>2, <2>2, <2>3 DEF IInv, SeedingInv
<1>4. CASE flow[f].tab # NoTab
  <2>1. Goes(f, "list") /\ "list" \in Stage
    BY <1>4 DEF Confirmed, Goes, Stage
  <2>2. flow[f].tab \in Tab
    BY <1>1, <1>4 DEF TypeOK, FlowState
  <2>3. TypeOK'
    BY <1>1, <1>2, <2>1, GoesIsTyped DEF TypeOK
  <2>4. IdsInv' /\ SaveInv' /\ TabInv'
    BY <1>1, <1>2, <2>1, <2>2, GoesIsTyped DEF IInv, IdsInv, Named, SaveInv, TabInv
  <2> QED
    BY <1>2, <2>3, <2>4 DEF IInv, SeedingInv
<1> QED
  BY <1>3, <1>4

(* The list that arrives is shown; what the tab chooses is the save's id,   *)
(* nothing, or what it had chosen.                                          *)
LEMMA ListedShows ==
  ASSUME IInv, NEW f \in Flow, Listed(f)
  PROVE  LET t == flow[f].tab IN
         /\ t \in Tab
         /\ listed' = [listed EXCEPT ![t] = flow[f].answer]
         /\ \A u \in Tab : u # t => selected'[u] = selected[u]
         /\ \/ selected'[t] = selected[t]
            \/ selected'[t] = 0
            \/ flow[f].op = "save" /\ selected'[t] = flow[f].id
         /\ selected' \in [Tab -> Id \cup {0}]
<1>1. TypeOK /\ flow[f].stage = "listed" /\ flow[f].tab \in Tab
  BY DEF IInv, Listed, TabInv
<1>2. flow[f].op \in {"save", "update", "delete", "reload"} /\ flow[f].id \in Id \cup {0}
  BY <1>1 DEF TypeOK, FlowState
<1>3. flow[f].op # "update"
  BY <1>1, SavedQueriesAssumption DEF IInv, TabInv
<1> QED
  BY <1>1, <1>2, <1>3 DEF Listed, TypeOK

LEMMA ListedKeepsIInv ==
  ASSUME IInv, NEW f \in Flow, Listed(f)
  PROVE  IInv'
<1>1. TypeOK /\ flow[f].answer \in SUBSET Row
  BY DEF IInv, TypeOK, FlowState
<1>2. UNCHANGED <<rows, lastId, inserts, proc, next, loaded, warned>>
  BY DEF Listed, ServerUnchanged
<1>3. flow' = [flow EXCEPT ![f] = NoFlow]
  BY DEF Listed
<1>4. TypeOK'
  BY <1>1, <1>2, <1>3, NoFlowIsTyped, ListedShows DEF TypeOK
<1>5. IdsInv'
  BY <1>1, <1>2, <1>3, ListedShows DEF IInv, TypeOK, IdsInv, Named, NoFlow
<1>6. SaveInv' /\ TabInv'
  BY <1>1, <1>2, <1>3 DEF IInv, TypeOK, SaveInv, TabInv, NoFlow
<1> QED
  BY <1>2, <1>4, <1>5, <1>6 DEF IInv, SeedingInv

(* The actions of the tabs and the API that begin.                          *)
LEMMA BeginningsKeepIInv ==
  ASSUME IInv, NEW f \in Flow,
         \/ \E t \in Tab : Save(f, t) \/ Delete(f, t) \/ SwitchDatabase(f, t)
         \/ \E op \in {"update", "delete"}, i \in Id : CallApi(f, op, i)
  PROVE  IInv'
<1>1. ASSUME NEW t \in Tab, Save(f, t)
      PROVE  IInv'
  <2>1. Begin(f, t, "save", 0) /\ UNCHANGED <<rows, lastId, inserts, proc, next, loaded, warned, listed, selected>>
    BY <1>1 DEF Save, ServerUnchanged
  <2> QED
    BY <2>1, BeginKeepsIInv
<1>2. ASSUME NEW t \in Tab, Delete(f, t)
      PROVE  IInv'
  <2>1. /\ Begin(f, t, "delete", selected[t])
        /\ UNCHANGED <<rows, lastId, inserts, proc, next, loaded, warned, listed, selected>>
    BY <1>2 DEF Delete, ServerUnchanged
  <2>2. selected[t] \in Id \cup {0}
    BY DEF IInv, TypeOK
  <2> QED
    BY <2>1, <2>2, BeginKeepsIInv
<1>3. ASSUME NEW t \in Tab, SwitchDatabase(f, t)
      PROVE  IInv'
  <2>1. /\ Begin(f, t, "reload", 0)
        /\ UNCHANGED <<rows, lastId, inserts, proc, next, loaded, warned, listed, selected>>
    BY <1>3 DEF SwitchDatabase, ServerUnchanged
  <2> QED
    BY <2>1, BeginKeepsIInv
<1>4. ASSUME NEW op \in {"update", "delete"}, NEW i \in Id, CallApi(f, op, i)
      PROVE  IInv'
  <2>1. /\ Begin(f, NoTab, op, i)
        /\ UNCHANGED <<rows, lastId, inserts, proc, next, loaded, warned, listed, selected>>
    BY <1>4 DEF CallApi, ServerUnchanged
  <2> QED
    BY <2>1, BeginKeepsIInv
<1> QED
  BY <1>1, <1>2, <1>3, <1>4

LEMMA StepKeepsIInv ==
  ASSUME IInv, [Next]_vars
  PROVE  IInv'
<1>1. CASE ServerStep
  BY <1>1, BootKeepsIInv, CountRowsKeepsIInv, SeedInsertKeepsIInv, SeedFailsKeepsIInv, CrashKeepsIInv
  DEF ServerStep
<1>2. ASSUME NEW f \in Flow, HandlerStep(f)
      PROVE  IInv'
  BY <1>2, CreateInsertsKeepsIInv, UpdateWritesKeepsIInv, GetReadsKeepsIInv, DeleteWritesKeepsIInv,
     ListReadsKeepsIInv, RequestFailsKeepsIInv DEF HandlerStep
<1>3. ASSUME NEW f \in Flow, TabStep(f)
      PROVE  IInv'
  BY <1>3, BeginningsKeepIInv, ConfirmedKeepsIInv, ListedKeepsIInv, FailedKeepsIInv DEF TabStep
<1>4. ASSUME NEW t \in Tab, NEW i \in Id, Pick(t, i)
      PROVE  IInv'
  BY <1>4, PickKeepsIInv
<1>5. CASE UNCHANGED vars
  BY <1>5 DEF vars, IInv, TypeOK, IdsInv, Named, SeedingInv, SaveInv, TabInv
<1> QED
  BY <1>1, <1>2, <1>3, <1>4, <1>5 DEF Next

(* The invariant holds in every reachable state.                            *)
THEOREM Invariance == Spec => []IInv
<1>1. Init => IInv
  BY InitIsTyped
<1>2. IInv /\ [Next]_vars => IInv'
  BY StepKeepsIInv
<1> QED
  BY <1>1, <1>2, PTL DEF Spec

-----------------------------------------------------------------------------
(* What it gives                                                            *)

(* The id of a query that a tab shows never comes to mean another query.    *)
(* Both rows are named after their insertions: AUTOINCREMENT gives no id    *)
(* twice, however many rows were deleted and restarts went by.              *)
THEOREM ShownIdsAreSafe == Spec => []ShownIdsKeepTheirMeaning
<1>1. IInv => ShownIdsKeepTheirMeaning
  BY DEF IInv, IdsInv, Named, ShownIdsKeepTheirMeaning
<1> QED
  BY <1>1, Invariance, PTL

(* Only the actions that write change the table, and none but seeding adds  *)
(* a row with a preset's words.                                             *)
LEMMA SeedsComeFromSeeding ==
  ASSUME IInv, Next, NEW r \in rows' \ rows, r.text = "seed"
  PROVE  SeedInsert
<1>1. ASSUME NEW f \in Flow, CreateInserts(f)
      PROVE  FALSE
  <2>1. TypeOK /\ IdsInv /\ 0 \in 0..Presets /\ Insert(0, "team")
    BY <1>1, SavedQueriesAssumption DEF IInv, CreateInserts
  <2> QED
    BY <2>1, InsertIsNamed
<1>2. ASSUME NEW f \in Flow, UpdateWrites(f)
      PROVE  FALSE
  <2>1. PICK q \in RowsWith(flow[f].id) : r = [q EXCEPT !.text = "team"]
    BY <1>2 DEF UpdateWrites
  <2>2. q \in Row
    BY DEF RowsWith, IInv, TypeOK
  <2> QED
    BY <2>1, <2>2 DEF Row
<1>3. ASSUME Boot \/ CountRows \/ SeedFails \/ Crash
      PROVE  FALSE
  BY <1>3 DEF Boot, CountRows, SeedFails, Crash
<1>4. ASSUME NEW f \in Flow, GetReads(f) \/ DeleteWrites(f) \/ ListReads(f) \/ RequestFails(f)
      PROVE  FALSE
  BY <1>4 DEF GetReads, DeleteWrites, ListReads, RequestFails
<1>5. ASSUME NEW f \in Flow, TabStep(f)
      PROVE  FALSE
  BY <1>5 DEF TabStep, Save, Delete, SwitchDatabase, CallApi, Confirmed, Listed, Failed
<1>6. ASSUME NEW t \in Tab, NEW i \in Id, Pick(t, i)
      PROVE  FALSE
  BY <1>6 DEF Pick
<1> QED
  BY <1>1, <1>2, <1>3, <1>4, <1>5, <1>6 DEF Next, ServerStep, HandlerStep

(* Presets go into an empty store or follow presets nobody has touched: no  *)
(* handler writes while the process seeds, and a process that finds any row *)
(* does not seed.                                                           *)
THEOREM SeedingIsFirst == Spec => SeedsBeforeTheTeam
<1> DEFINE A == \A r \in rows' \ rows : r.text = "seed" =>
                  \A q \in rows : q.text = "seed" /\ q.preset < r.preset
<1>1. ASSUME IInv, [Next]_vars
      PROVE  [A]_vars
  <2>1. ASSUME Next, NEW r \in rows' \ rows, r.text = "seed"
        PROVE  \A q \in rows : q.text = "seed" /\ q.preset < r.preset
    <3>1. SeedInsert
      BY <1>1, <2>1, SeedsComeFromSeeding
    <3>2. TypeOK /\ IdsInv /\ next \in 0..Presets /\ Insert(next, "seed")
      BY <1>1, <3>1, SavedQueriesAssumption DEF IInv, TypeOK, SeedInsert
    <3>3. r.preset = next
      BY <2>1, <3>2, InsertIsNamed
    <3> QED
      BY <1>1, <3>1, <3>3 DEF IInv, SeedingInv, SeedInsert
  <2> QED
    BY <1>1, <2>1
<1> QED
  BY <1>1, Invariance, PTL DEF Spec, SeedsBeforeTheTeam

(* A save chooses a query that the list has, unless somebody deleted it.    *)
(* The list was read after the row went in, and an id that is gone from the *)
(* table does not come back to it.                                          *)
THEOREM ChoiceIsListed == Spec => ChosenIsListed
<1> DEFINE A == \A t \in Tab : selected'[t] # selected[t] /\ (\E r \in rows : r.id = selected'[t]) =>
                  \E s \in listed'[t] : s.id = selected'[t]
<1>1. ASSUME IInv, [Next]_vars
      PROVE  [A]_vars
  <2>1. ASSUME NEW f \in Flow, Listed(f)
        PROVE  A
    <3>1. SUFFICES ASSUME NEW t \in Tab, selected'[t] # selected[t],
                          NEW r \in rows, r.id = selected'[t]
                   PROVE  \E s \in listed'[t] : s.id = selected'[t]
      OBVIOUS
    <3>2. t = flow[f].tab /\ listed'[t] = flow[f].answer
      BY <1>1, <2>1, <3>1, ListedShows DEF IInv, TypeOK
    <3>3. r.id # 0
      BY <1>1 DEF IInv, TypeOK, Row, Id
    <3>4. flow[f].op = "save" /\ selected'[t] = flow[f].id
      BY <1>1, <2>1, <3>1, <3>2, <3>3, ListedShows
    <3> QED
      BY <1>1, <2>1, <3>1, <3>2, <3>4 DEF IInv, SaveInv, Listed
  <2>2. ASSUME NEW t \in Tab, NEW i \in Id, Pick(t, i)
        PROVE  A
    BY <1>1, <2>2 DEF Pick, IInv, TypeOK
  <2>3. ASSUME ServerStep
        PROVE  UNCHANGED selected
    BY <2>3 DEF ServerStep, Boot, CountRows, SeedInsert, SeedFails, Crash
  <2>4. ASSUME NEW f \in Flow, HandlerStep(f)
        PROVE  UNCHANGED selected
    BY <2>4 DEF HandlerStep, CreateInserts, UpdateWrites, GetReads, DeleteWrites, ListReads, RequestFails
  <2>5. ASSUME NEW f \in Flow, TabStep(f), ~Listed(f)
        PROVE  UNCHANGED selected
    BY <2>5 DEF TabStep, Save, Delete, SwitchDatabase, CallApi, Confirmed, Failed
  <2> QED
    BY <1>1, <2>1, <2>2, <2>3, <2>4, <2>5 DEF Next
<1> QED
  BY <1>1, Invariance, PTL DEF Spec, ChosenIsListed
=============================================================================
