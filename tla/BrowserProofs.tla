--------------------------- MODULE BrowserProofs -----------------------------
(***************************************************************************)
(* Proofs about the browser: AppNavigation for any databases, tables and    *)
(* pages, and any number of history entries and requests; Export for any    *)
(* tabs and any number of exports.  The two share no state.                 *)
(***************************************************************************)
EXTENDS AppNavigation, Export, SequenceTheorems, TLAPS

-----------------------------------------------------------------------------
(* Navigation: the tables listed, the rows shown and the URL are of one     *)
(* database, one table and one page.                                        *)

TypeOK ==
  /\ hist \in Seq(Url)
  /\ pos \in 1..Len(hist)
  /\ loaded \in BOOLEAN
  /\ db \in Db \cup {NoDb}
  /\ pending \in BOOLEAN
  /\ tables \in Db \cup {NoDb, Nothing}
  /\ loads \in SUBSET Load
  /\ current \in Table \cup {NoTable}
  /\ urlInit \in Queued \cup {Nothing}
  /\ page \in Page
  /\ data \in View \cup {Nothing}
  /\ asked \in View \cup {Nothing}
  /\ fetches \in SUBSET Fetch
  /\ failed \in BOOLEAN
  /\ missed \in {"no", "history", "race"}

(* The one request for tables that is heeded is for the database chosen,    *)
(* unless the effect that calls it off is still to run, and until it is     *)
(* answered no tables are listed.                                           *)
LoadsInv ==
  /\ ~loaded => tables = Nothing /\ loads = {} /\ ~pending
  /\ \A l \in loads : l.live =>
       /\ tables = Nothing
       /\ pending <=> l.db # db
       /\ \A m \in loads : m.live => m = l
  /\ TablesOfDb

(* The one request for rows that is heeded is the last, and of the database *)
(* and table that are open; without one the rows are those asked for last.  *)
GridInv ==
  /\ \A f \in fetches : f.live => f.view = asked /\ f.view.db = db /\ f.view.table = current
  /\ data # Nothing => data.db = db /\ data.table = current
  /\ ~failed /\ (\A f \in fetches : ~f.live) => data = asked

(* Tables are on their way, or will be asked for.                           *)
Waiting == loaded /\ (pending \/ \E l \in loads : l.live)

(* What is shown when the tables are in is what is shown now, if it is what *)
(* the URL names; otherwise what the URL names is queued.                   *)
QueueInv ==
  /\ ~loaded => current = NoTable
  /\ loaded => url.db = db
  /\ ~loaded /\ missed = "no" /\ urlInit # Nothing => urlInit = UrlInit(url)
  /\ Waiting /\ missed = "no" =>
       IF urlInit # Nothing
       THEN current = NoTable /\ urlInit = UrlInit(url)
       ELSE /\ current = url.table
            /\ current # NoTable => page = url.page

IInv == TypeOK /\ LoadsInv /\ GridInv /\ QueueInv /\ UrlNamesView

-----------------------------------------------------------------------------
(* The parts the actions are made of                                        *)

LEMMA UrlIsTyped ==
  ASSUME TypeOK
  PROVE  url \in Url
BY ElementOfSeq DEF TypeOK, url

LEMMA PushIsTyped ==
  ASSUME TypeOK, NEW u \in Url, Push(u)
  PROVE  hist' \in Seq(Url) /\ pos' \in 1..Len(hist') /\ url' = u
<1> DEFINE s == SubSeq(hist, 1, pos)
<1>1. hist \in Seq(Url) /\ Len(hist) \in Nat /\ pos \in 1..Len(hist) /\ pos \in Int
  BY LenProperties DEF TypeOK
<1>2. \A i \in 1..pos : hist[i] \in Url
  BY <1>1, ElementOfSeq
<1>3. s \in Seq(Url) /\ Len(s) = IF 1 <= pos THEN pos - 1 + 1 ELSE 0
  BY <1>1, <1>2, SubSeqProperties
<1>4. Len(s) = pos
  BY <1>1, <1>3
<1>5. hist' = Append(s, u) /\ pos' = pos + 1
  BY DEF Push
<1> HIDE DEF s
<1> QED
  BY <1>1, <1>3, <1>4, <1>5, AppendProperties DEF url

LEMMA ReplaceIsTyped ==
  ASSUME TypeOK, NEW u \in Url, Replace(u)
  PROVE  hist' \in Seq(Url) /\ pos' \in 1..Len(hist') /\ url' = u
BY ExceptSeq DEF TypeOK, Replace, url

(* A grid that is made anew, or taken down, shows and heeds nothing.        *)
LEMMA FreshGridKeepsGridInv ==
  ASSUME TypeOK, FreshGrid
  PROVE  /\ GridInv'
         /\ data' \in View \cup {Nothing} /\ asked' \in View \cup {Nothing}
         /\ fetches' \in SUBSET Fetch /\ failed' \in BOOLEAN
<1>1. \A f \in fetches' : f \in Fetch /\ ~f.live
  BY DEF FreshGrid, Dead, TypeOK, Fetch
<1> QED
  BY <1>1 DEF FreshGrid, GridInv

LEMMA SameGridKeepsGridInv ==
  ASSUME TypeOK, GridInv, UNCHANGED grid, UNCHANGED current, db' = db \/ current = NoTable
  PROVE  /\ GridInv'
         /\ data' \in View \cup {Nothing} /\ asked' \in View \cup {Nothing}
         /\ fetches' \in SUBSET Fetch /\ failed' \in BOOLEAN
<1>1. current = NoTable => data = Nothing /\ \A f \in fetches : ~f.live
  BY AppNavigationAssumption DEF TypeOK, GridInv, View, Fetch
<1> QED
  BY <1>1 DEF grid, GridInv, TypeOK

(* What a render does to the requests for tables: it starts over if the     *)
(* effect was pending, and leaves it pending if the database is another.    *)
LEMMA RerenderKeepsLoadsInv ==
  ASSUME TypeOK, LoadsInv, NEW ts, NEW ls \in SUBSET loads, Rerender(ts, ls),
         db' \in Db \cup {NoDb}, loaded' \in BOOLEAN, loaded => loaded',
         \/ ts = tables
         \/ /\ loaded /\ ts \in Db \cup {NoDb}
            /\ ~pending => ts = db /\ db' = db /\ \A l \in ls : ~l.live
  PROVE  /\ tables' \in Db \cup {NoDb, Nothing}
         /\ loads' \in SUBSET Load
         /\ pending' \in BOOLEAN
         /\ LoadsInv'
         /\ Waiting' /\ loaded /\ db' = db => Waiting
         /\ Settled' /\ ts = tables => Settled /\ db' = db
<1>1. tables \in Db \cup {NoDb, Nothing} /\ loads \in SUBSET Load /\ db \in Db \cup {NoDb}
  BY DEF TypeOK
<1>2. pending => loaded
  BY DEF LoadsInv
<1>3. CASE pending
  <2> DEFINE new == [db |-> db, live |-> TRUE]
  <2>1. tables' = Nothing /\ loads' = Dead(ls) \cup {new} /\ (pending' <=> db' # db) /\ pending' \in BOOLEAN
    BY <1>2, <1>3 DEF Rerender
  <2>2. \A l \in Dead(ls) : l \in Load /\ ~l.live
    BY <1>1 DEF Dead, Load
  <2>3. new \in Load /\ new.live /\ new.db = db
    BY <1>1 DEF Load
  <2> HIDE DEF new
  <2>4. LoadsInv'
    BY <1>2, <1>3, <2>1, <2>2, <2>3 DEF LoadsInv, TablesOfDb
  <2>5. Waiting
    BY <1>2, <1>3 DEF Waiting
  <2>6. ~Settled'
    BY <2>1, AppNavigationAssumption DEF Settled
  <2> QED
    BY <2>1, <2>2, <2>3, <2>4, <2>5, <2>6
<1>4. CASE ~pending
  <2>1. /\ tables' = ts /\ loads' = ls
        /\ (pending' <=> loaded' /\ (db' # db \/ ~loaded)) /\ pending' \in BOOLEAN
    BY <1>4 DEF Rerender
  <2>2. LoadsInv'
    BY <1>1, <1>4, <2>1, AppNavigationAssumption DEF LoadsInv, TablesOfDb
  <2>3. Waiting' /\ loaded /\ db' = db => Waiting
    BY <2>1 DEF Waiting
  <2>4. Settled' /\ ts = tables => Settled /\ db' = db
    BY <1>4, <2>1 DEF Settled
  <2> QED
    BY <1>1, <2>1, <2>2, <2>3, <2>4
<1> QED
  BY <1>3, <1>4

LEMMA SameLoadsKeepLoadsInv ==
  ASSUME TypeOK, LoadsInv, UNCHANGED <<loaded, db, pending, tables, loads>>
  PROVE  /\ LoadsInv'
         /\ Waiting' => Waiting
         /\ Settled' => Settled
BY DEF LoadsInv, TablesOfDb, Waiting, Settled

-----------------------------------------------------------------------------
(* The invariant is inductive                                               *)

LEMMA InitKeepsIInv ==
  ASSUME Init
  PROVE  IInv
<1>1. PICK u \in Url : hist = <<u>>
  BY DEF Init
<1>2. hist \in Seq(Url) /\ Len(hist) = 1 /\ pos \in 1..Len(hist)
  BY <1>1 DEF Init
<1>3. TypeOK
  BY <1>2, AppNavigationAssumption DEF Init, TypeOK
<1> QED
  BY <1>3, AppNavigationAssumption
  DEF Init, IInv, LoadsInv, TablesOfDb, GridInv, QueueInv, Waiting, UrlNamesView, Settled

LEMMA RunEffectKeepsIInv ==
  ASSUME IInv, RunEffect
  PROVE  IInv'
<1> DEFINE new == [db |-> db, live |-> TRUE]
<1>1. TypeOK /\ pending /\ loaded
  BY DEF IInv, LoadsInv, RunEffect
<1>2. tables' = Nothing /\ loads' = Dead(loads) \cup {new} /\ pending' = FALSE
  BY DEF RunEffect
<1>3. UNCHANGED <<hist, pos, loaded, db, current, urlInit, page, missed, grid>>
  BY DEF RunEffect
<1>4. \A l \in Dead(loads) : l \in Load /\ ~l.live
  BY <1>1 DEF Dead, Load, TypeOK
<1>5. new \in Load /\ new.live /\ new.db = db
  BY <1>1 DEF Load, TypeOK
<1> HIDE DEF new
<1>6. TypeOK'
  BY <1>1, <1>2, <1>3, <1>4, <1>5 DEF TypeOK, grid
<1>7. LoadsInv'
  BY <1>1, <1>2, <1>3, <1>4, <1>5 DEF LoadsInv, TablesOfDb
<1>8. GridInv'
  BY <1>1, <1>3, SameGridKeepsGridInv DEF IInv
<1>9. QueueInv'
  BY <1>1, <1>3 DEF IInv, QueueInv, Waiting, url
<1>10. UrlNamesView'
  BY <1>1, <1>2, <1>3, AppNavigationAssumption DEF UrlNamesView, Settled, TypeOK
<1> QED
  BY <1>6, <1>7, <1>8, <1>9, <1>10 DEF IInv

LEMMA ReloadKeepsIInv ==
  ASSUME IInv, Reload
  PROVE  IInv'
<1>1. TypeOK'
  BY AppNavigationAssumption DEF IInv, TypeOK, Reload
<1>2. LoadsInv'
  BY DEF LoadsInv, TablesOfDb, Reload
<1>3. GridInv'
  BY DEF GridInv, Reload
<1>4. QueueInv'
  BY DEF QueueInv, Waiting, Reload
<1> QED
  BY <1>1, <1>2, <1>3, <1>4 DEF IInv, UrlNamesView, Settled, Reload

(* A URL that is read names a table with its page, or none.                 *)
LEMMA UrlInitIsTyped ==
  ASSUME NEW u \in Url
  PROVE  /\ u.table \in Table \cup {NoTable} /\ u.page \in Page /\ u.db \in Db \cup {NoDb}
         /\ u.table # NoTable => UrlInit(u) \in Queued
         /\ UrlInit(u).table = u.table /\ UrlInit(u).page = u.page
         /\ UrlInit(u) # Nothing \/ u.table = NoTable
BY AppNavigationAssumption DEF Url, UrlInit, Queued

LEMMA DatabasesKeepsIInv ==
  ASSUME IInv, NEW ok \in BOOLEAN, Databases(ok)
  PROVE  IInv'
<1> DEFINE u == [url EXCEPT !.db = db']
<1>1. TypeOK /\ url \in Url /\ ~loaded /\ loaded' = TRUE
  BY UrlIsTyped DEF IInv, Databases
<1>2. db' \in Db \cup {NoDb}
  BY <1>1, AppNavigationAssumption DEF Databases
<1>3. u \in Url /\ u.db = db' /\ u.table = url.table /\ u.page = url.page
  BY <1>1, <1>2 DEF Url
<1>4. Replace(u)
  BY DEF Databases
<1> HIDE DEF u
<1>5. hist' \in Seq(Url) /\ pos' \in 1..Len(hist') /\ url' = u
  BY <1>1, <1>3, <1>4, ReplaceIsTyped
<1>6. UNCHANGED current /\ UNCHANGED page /\ UNCHANGED grid /\ current = NoTable
  BY <1>1 DEF Databases, IInv, QueueInv
<1>7. /\ GridInv'
      /\ data' \in View \cup {Nothing} /\ asked' \in View \cup {Nothing}
      /\ fetches' \in SUBSET Fetch /\ failed' \in BOOLEAN
  BY <1>1, <1>6, SameGridKeepsGridInv DEF IInv
<1>8. /\ tables' \in Db \cup {NoDb, Nothing} /\ loads' \in SUBSET Load /\ pending' \in BOOLEAN
      /\ LoadsInv'
  <2>1. Rerender(tables, loads)
    BY DEF Databases
  <2> QED
    BY <1>1, <1>2, <2>1, RerenderKeepsLoadsInv DEF IInv
<1>9. urlInit' \in Queued \cup {Nothing}
  BY <1>1, UrlInitIsTyped DEF TypeOK, Databases
<1>10. TypeOK'
  BY <1>1, <1>2, <1>5, <1>6, <1>7, <1>8, <1>9 DEF TypeOK, Databases
<1>11. missed' = "no" => IF urlInit' # Nothing THEN urlInit' = UrlInit(url') /\ url'.table # NoTable
                                              ELSE url'.table = NoTable
  <2>1. CASE url.table = NoTable
    <3>1. urlInit' = urlInit /\ missed' = missed
      BY <2>1 DEF Databases
    <3>2. missed = "no" /\ urlInit # Nothing => urlInit = UrlInit(url) /\ urlInit.table # NoTable
      BY <1>1, AppNavigationAssumption DEF IInv, QueueInv, TypeOK, Queued
    <3> QED
      BY <1>1, <1>3, <1>5, <2>1, <3>1, <3>2, UrlInitIsTyped
  <2>2. CASE url.table # NoTable
    <3>1. urlInit' = UrlInit(url) /\ UrlInit(url) # Nothing
      BY <1>1, <2>2, UrlInitIsTyped DEF Databases
    <3>2. UrlInit(url) = UrlInit(u)
      BY <1>3 DEF UrlInit
    <3> QED
      BY <1>3, <1>5, <2>2, <3>1, <3>2
  <2> QED
    BY <2>1, <2>2
<1>12. QueueInv'
  BY <1>1, <1>3, <1>5, <1>6, <1>11 DEF QueueInv
<1>13. ~Settled'
  BY <1>1, <1>6 DEF Settled, Databases, Rerender, IInv, LoadsInv
<1> QED
  BY <1>7, <1>8, <1>10, <1>12, <1>13 DEF IInv, UrlNamesView

LEMMA TablesAreNamed ==
  ASSUME NEW d \in Db \cup {NoDb}
  PROVE  TablesOf[d] \subseteq Table /\ NoTable \notin TablesOf[d]
BY AppNavigationAssumption

(* Tables arrive: with those of the database chosen, what was queued, which *)
(* is what the URL names, is opened or given up.  With those of a database  *)
(* that was left before the effect ran, it is too early for that.           *)
LEMMA TablesArriveKeepsIInv ==
  ASSUME IInv, NEW l \in loads, TablesArrive(l)
  PROVE  IInv'
<1>1. /\ TypeOK /\ LoadsInv /\ l \in Load /\ l.live /\ loaded /\ l.db \in Db \cup {NoDb}
      /\ (pending <=> l.db # db) /\ tables = Nothing /\ \A m \in loads : m.live => m = l
      /\ Waiting
  BY DEF IInv, LoadsInv, TablesArrive, Heeds, TypeOK, Load, Waiting
<1>2. UNCHANGED <<hist, pos, loaded, db>> /\ Rerender(l.db, loads \ {l})
  BY DEF TablesArrive
<1>3. missed' = "no" => missed = "no" /\ (l.db = db \/ urlInit = Nothing)
  BY DEF TablesArrive
<1>4. \/ /\ urlInit = Nothing
         /\ UNCHANGED <<current, page, urlInit>> /\ UNCHANGED grid
      \/ /\ urlInit # Nothing /\ urlInit.table \in TablesOf[l.db]
         /\ Mount(urlInit.table, urlInit.page) /\ UNCHANGED urlInit
      \/ /\ urlInit # Nothing /\ urlInit.table \notin TablesOf[l.db]
         /\ urlInit' = Nothing /\ UNCHANGED <<current, page>> /\ UNCHANGED grid
  BY DEF TablesArrive
<1>5. /\ GridInv'
      /\ data' \in View \cup {Nothing} /\ asked' \in View \cup {Nothing}
      /\ fetches' \in SUBSET Fetch /\ failed' \in BOOLEAN
  <2>1. FreshGrid \/ (UNCHANGED grid /\ UNCHANGED current /\ db' = db)
    BY <1>2, <1>4 DEF Mount
  <2> QED
    BY <1>1, <2>1, FreshGridKeepsGridInv, SameGridKeepsGridInv DEF IInv
<1>6. /\ tables' \in Db \cup {NoDb, Nothing} /\ loads' \in SUBSET Load /\ pending' \in BOOLEAN
      /\ LoadsInv'
  <2>1. ~pending => l.db = db /\ db' = db /\ \A m \in loads \ {l} : ~m.live
    BY <1>1, <1>2
  <2>2. db' \in Db \cup {NoDb} /\ loaded' \in BOOLEAN /\ (loaded => loaded') /\ loads \ {l} \in SUBSET loads
    BY <1>1, <1>2 DEF TypeOK
  <2> QED
    BY <1>1, <1>2, <2>1, <2>2, RerenderKeepsLoadsInv
<1>7. /\ current' \in Table \cup {NoTable} /\ page' \in Page /\ urlInit' \in Queued \cup {Nothing}
      /\ missed' \in {"no", "history", "race"}
  BY <1>1, <1>4 DEF TypeOK, Queued, Mount, TablesArrive
<1>8. TypeOK'
  BY <1>1, <1>2, <1>5, <1>6, <1>7 DEF TypeOK
<1>9. url' = url /\ url \in Url
  BY <1>1, <1>2, UrlIsTyped DEF url
<1>10. CASE pending
  <2>1. missed' = "no" => missed = "no" /\ UNCHANGED <<current, page, urlInit>>
    BY <1>1, <1>3, <1>4, <1>10
  <2>2. QueueInv'
    BY <1>1, <1>2, <1>9, <2>1 DEF IInv, QueueInv
  <2>3. ~Settled'
    BY <1>2, <1>10, <1>1, AppNavigationAssumption DEF Settled, Rerender, TypeOK
  <2> QED
    BY <1>5, <1>6, <1>8, <2>2, <2>3 DEF IInv, UrlNamesView
<1>11. CASE ~pending
  <2>1. l.db = db
    BY <1>1, <1>11
  <2>2. ~Waiting'
    BY <1>1, <1>2, <1>11 DEF Rerender, Waiting
  <2>3. QueueInv'
    BY <1>1, <1>2, <1>9, <2>2 DEF IInv, QueueInv
  <2>4. ASSUME missed' = "no"
        PROVE  NamesView'
    <3>1. IF urlInit # Nothing
          THEN current = NoTable /\ urlInit = UrlInit(url)
          ELSE current = url.table /\ (current # NoTable => page = url.page)
      BY <1>1, <1>3, <2>4 DEF IInv, QueueInv
    <3>2. IF current' = NoTable
          THEN url.table \notin TablesOf[db]
          ELSE current' = url.table /\ page' = url.page
      BY <1>1, <1>4, <1>9, <2>1, <3>1, UrlInitIsTyped, TablesAreNamed DEF Mount, TypeOK
    <3>3. url.db = db
      BY <1>1 DEF IInv, QueueInv
    <3> QED
      BY <1>2, <1>9, <3>2, <3>3 DEF NamesView
  <2> QED
    BY <1>5, <1>6, <1>8, <2>3, <2>4 DEF IInv, UrlNamesView
<1> QED
  BY <1>10, <1>11

LEMMA TablesFailKeepsIInv ==
  ASSUME IInv, NEW l \in loads, TablesFail(l)
  PROVE  IInv'
<1>1. TypeOK /\ LoadsInv /\ loaded
  BY DEF IInv, LoadsInv
<1>2. UNCHANGED <<hist, pos, loaded, db, current, urlInit, page, missed>> /\ UNCHANGED grid
  BY DEF TablesFail
<1>3. Rerender(tables, loads \ {l})
  BY DEF TablesFail
<1>4. /\ tables' \in Db \cup {NoDb, Nothing} /\ loads' \in SUBSET Load /\ pending' \in BOOLEAN
      /\ LoadsInv' /\ (Waiting' => Waiting) /\ (Settled' => Settled)
  <2>1. db' \in Db \cup {NoDb} /\ loaded' \in BOOLEAN /\ (loaded => loaded') /\ loads \ {l} \in SUBSET loads
    BY <1>1, <1>2 DEF TypeOK
  <2> QED
    BY <1>1, <1>2, <1>3, <2>1, RerenderKeepsLoadsInv
<1>5. /\ GridInv'
      /\ data' \in View \cup {Nothing} /\ asked' \in View \cup {Nothing}
      /\ fetches' \in SUBSET Fetch /\ failed' \in BOOLEAN
  BY <1>1, <1>2, SameGridKeepsGridInv DEF IInv
<1>6. TypeOK'
  BY <1>1, <1>2, <1>4, <1>5 DEF TypeOK
<1>7. QueueInv' /\ UrlNamesView'
  BY <1>2, <1>4 DEF IInv, QueueInv, UrlNamesView, NamesView, url
<1> QED
  BY <1>4, <1>5, <1>6, <1>7 DEF IInv

LEMMA TablesLateKeepsIInv ==
  ASSUME IInv, NEW l \in loads, TablesLate(l)
  PROVE  IInv'
<1>1. TypeOK /\ LoadsInv /\ l \in loads /\ ~l.live /\ loads' = loads \ {l}
  BY DEF IInv, TablesLate, Heeds
<1>2. UNCHANGED <<hist, pos, loaded, db, pending, tables, current, urlInit, page, missed>> /\ UNCHANGED grid
  BY DEF TablesLate
<1>3. TypeOK' /\ LoadsInv' /\ (Waiting' => Waiting) /\ (Settled' => Settled)
  BY <1>1, <1>2 DEF TypeOK, LoadsInv, TablesOfDb, Waiting, Settled, grid
<1>4. GridInv'
  BY <1>1, <1>2, SameGridKeepsGridInv DEF IInv
<1>5. QueueInv' /\ UrlNamesView'
  BY <1>2, <1>3 DEF IInv, QueueInv, UrlNamesView, NamesView, url
<1> QED
  BY <1>3, <1>4, <1>5 DEF IInv

(* A step that leaves the view and the URL alone.                           *)
LEMMA SameViewKeepsQueueInv ==
  ASSUME QueueInv, UrlNamesView,
         UNCHANGED <<loaded, db, current, urlInit, page, missed>>, url' = url,
         Waiting' => Waiting, Settled' => Settled
  PROVE  QueueInv' /\ UrlNamesView'
BY DEF QueueInv, UrlNamesView, NamesView

LEMMA SetTabKeepsIInv ==
  ASSUME IInv, SetTab
  PROVE  IInv'
<1>1. TypeOK /\ LoadsInv /\ url \in Url
  BY UrlIsTyped DEF IInv
<1>2. UNCHANGED <<loaded, db, current, urlInit, page, missed>> /\ UNCHANGED grid
  BY DEF SetTab
<1>3. Push(url) /\ Rerender(tables, loads)
  BY DEF SetTab
<1>4. hist' \in Seq(Url) /\ pos' \in 1..Len(hist') /\ url' = url
  BY <1>1, <1>3, PushIsTyped
<1>5. /\ tables' \in Db \cup {NoDb, Nothing} /\ loads' \in SUBSET Load /\ pending' \in BOOLEAN
      /\ LoadsInv' /\ (Waiting' => Waiting) /\ (Settled' => Settled)
  <2>1. db' \in Db \cup {NoDb} /\ loaded' \in BOOLEAN /\ (loaded => loaded') /\ loads \in SUBSET loads
    BY <1>1, <1>2 DEF TypeOK
  <2>2. Waiting' => loaded
    BY <1>2 DEF Waiting
  <2> QED
    BY <1>1, <1>2, <1>3, <2>1, <2>2, RerenderKeepsLoadsInv
<1>6. /\ GridInv'
      /\ data' \in View \cup {Nothing} /\ asked' \in View \cup {Nothing}
      /\ fetches' \in SUBSET Fetch /\ failed' \in BOOLEAN
  BY <1>1, <1>2, SameGridKeepsGridInv DEF IInv
<1>7. TypeOK'
  BY <1>1, <1>2, <1>4, <1>5, <1>6 DEF TypeOK
<1>8. QueueInv' /\ UrlNamesView'
  BY <1>2, <1>4, <1>5, SameViewKeepsQueueInv DEF IInv
<1> QED
  BY <1>5, <1>6, <1>7, <1>8 DEF IInv

LEMMA OpenKeepsIInv ==
  ASSUME IInv, NEW t \in Table, NEW p \in Page, Open(t, p)
  PROVE  IInv'
<1> DEFINE u == [db |-> url.db, table |-> t, page |-> p]
<1>1. TypeOK /\ LoadsInv /\ url \in Url /\ loaded
  BY UrlIsTyped DEF IInv, Open, LoadsInv
<1>2. UNCHANGED <<loaded, db>> /\ FreshGrid /\ current' = t /\ page' = p /\ urlInit' = Nothing /\ missed' = "no"
  BY DEF Open, Mount
<1>3. Push(u) /\ Rerender(tables, loads)
  BY DEF Open
<1>4. u \in Url /\ u.table = t /\ u.page = p /\ u.db = db
  BY <1>1 DEF Url, IInv, QueueInv
<1> HIDE DEF u
<1>5. hist' \in Seq(Url) /\ pos' \in 1..Len(hist') /\ url' = u
  BY <1>1, <1>3, <1>4, PushIsTyped
<1>6. /\ tables' \in Db \cup {NoDb, Nothing} /\ loads' \in SUBSET Load /\ pending' \in BOOLEAN
      /\ LoadsInv'
  <2>1. db' \in Db \cup {NoDb} /\ loaded' \in BOOLEAN /\ (loaded => loaded') /\ loads \in SUBSET loads
    BY <1>1, <1>2 DEF TypeOK
  <2> QED
    BY <1>1, <1>2, <1>3, <2>1, RerenderKeepsLoadsInv
<1>7. /\ GridInv'
      /\ data' \in View \cup {Nothing} /\ asked' \in View \cup {Nothing}
      /\ fetches' \in SUBSET Fetch /\ failed' \in BOOLEAN
  BY <1>1, <1>2, FreshGridKeepsGridInv
<1>8. TypeOK'
  BY <1>1, <1>2, <1>5, <1>6, <1>7 DEF TypeOK
<1>9. QueueInv' /\ UrlNamesView'
  BY <1>1, <1>2, <1>4, <1>5, AppNavigationAssumption DEF QueueInv, UrlNamesView, NamesView
<1> QED
  BY <1>6, <1>7, <1>8, <1>9 DEF IInv

LEMMA SwitchDbKeepsIInv ==
  ASSUME IInv, NEW d \in Db, SwitchDb(d)
  PROVE  IInv'
<1> DEFINE u == [db |-> d, table |-> NoTable, page |-> FirstPage]
<1>1. TypeOK /\ LoadsInv /\ loaded
  BY DEF IInv, SwitchDb
<1>2. /\ UNCHANGED loaded /\ db' = d /\ FreshGrid /\ current' = NoTable /\ page' = FirstPage
      /\ urlInit' = Nothing /\ missed' = "no"
  BY DEF SwitchDb, Unmount, Mount
<1>3. Push(u) /\ Rerender(tables, loads)
  BY DEF SwitchDb
<1>4. u \in Url /\ u.table = NoTable /\ u.db = db'
  BY <1>2, AppNavigationAssumption DEF Url
<1> HIDE DEF u
<1>5. hist' \in Seq(Url) /\ pos' \in 1..Len(hist') /\ url' = u
  BY <1>1, <1>3, <1>4, PushIsTyped
<1>6. /\ tables' \in Db \cup {NoDb, Nothing} /\ loads' \in SUBSET Load /\ pending' \in BOOLEAN
      /\ LoadsInv'
  <2>1. db' \in Db \cup {NoDb} /\ loaded' \in BOOLEAN /\ (loaded => loaded') /\ loads \in SUBSET loads
    BY <1>1, <1>2 DEF TypeOK
  <2> QED
    BY <1>1, <1>3, <2>1, RerenderKeepsLoadsInv
<1>7. /\ GridInv'
      /\ data' \in View \cup {Nothing} /\ asked' \in View \cup {Nothing}
      /\ fetches' \in SUBSET Fetch /\ failed' \in BOOLEAN
  BY <1>1, <1>2, FreshGridKeepsGridInv
<1>8. TypeOK'
  BY <1>1, <1>2, <1>5, <1>6, <1>7, AppNavigationAssumption DEF TypeOK
<1>9. QueueInv' /\ UrlNamesView'
  BY <1>1, <1>2, <1>4, <1>5, TablesAreNamed DEF QueueInv, UrlNamesView, NamesView
<1> QED
  BY <1>6, <1>7, <1>8, <1>9 DEF IInv

(* Turning a page needs an open table, and then nothing is queued unless a  *)
(* step through history came too early.                                     *)
LEMMA TurnKeepsIInv ==
  ASSUME IInv, NEW p \in Page, Turn(p)
  PROVE  IInv'
<1> DEFINE u == [url EXCEPT !.table = current, !.page = p]
<1>1. TypeOK /\ LoadsInv /\ url \in Url /\ current # NoTable
  BY UrlIsTyped DEF IInv, Turn
<1>2. UNCHANGED <<loaded, db, pending, tables, loads, current, urlInit, missed>> /\ UNCHANGED grid /\ page' = p
  BY DEF Turn
<1>3. u \in Url /\ u.table = current /\ u.page = p /\ u.db = url.db /\ Replace(u)
  BY <1>1 DEF Url, TypeOK, Turn
<1> HIDE DEF u
<1>4. hist' \in Seq(Url) /\ pos' \in 1..Len(hist') /\ url' = u
  BY <1>1, <1>3, ReplaceIsTyped
<1>5. LoadsInv' /\ (Waiting' => Waiting) /\ (Settled' => Settled)
  BY <1>1, <1>2, SameLoadsKeepLoadsInv
<1>6. /\ GridInv'
      /\ data' \in View \cup {Nothing} /\ asked' \in View \cup {Nothing}
      /\ fetches' \in SUBSET Fetch /\ failed' \in BOOLEAN
  BY <1>1, <1>2, SameGridKeepsGridInv DEF IInv
<1>7. TypeOK'
  BY <1>1, <1>2, <1>4, <1>6 DEF TypeOK
<1>8. QueueInv'
  BY <1>1, <1>2, <1>3, <1>4, <1>5 DEF IInv, QueueInv
<1>9. UrlNamesView'
  BY <1>1, <1>2, <1>3, <1>4, <1>5 DEF IInv, UrlNamesView, NamesView
<1> QED
  BY <1>5, <1>6, <1>7, <1>8, <1>9 DEF IInv

(* A step through history: to another database it queues the table of the   *)
(* entry; within the database it opens or closes, and if the tables are not *)
(* those listed, that is what missed records.                               *)
LEMMA PopKeepsIInv ==
  ASSUME IInv, NEW p \in 1..MaxHistory, Pop(p)
  PROVE  IInv'
<1> DEFINE u == hist[p]
<1>1. TypeOK /\ LoadsInv /\ hist \in Seq(Url) /\ p \in 1..Len(hist)
  BY DEF IInv, TypeOK, Pop
<1>2. u \in Url /\ u.db \in Db \cup {NoDb}
  <2>1. u \in Url
    BY <1>1, ElementOfSeq
  <2> QED
    BY <2>1 DEF Url
<1>3. UNCHANGED <<hist, loaded>> /\ pos' = p /\ db' = u.db /\ Rerender(tables, loads)
  BY DEF Pop
<1>4. url' = u
  BY <1>3 DEF url
<1>5. IF u.db = db THEN Restore(u) ELSE Queue(u)
  BY DEF Pop
<1>6. missed' = IF u.db = db /\ (pending \/ tables # db) THEN "history" ELSE "no"
  BY DEF Pop
<1> HIDE DEF u
<1>7. FreshGrid
  BY <1>5 DEF Restore, Queue, Unmount, Mount
<1>8. /\ current' \in Table \cup {NoTable} /\ page' \in Page
      /\ urlInit' \in Queued \cup {Nothing}
  <2>1. current' \in Table \cup {NoTable} /\ page' \in Page
    BY <1>2, <1>5, UrlInitIsTyped, AppNavigationAssumption DEF Restore, Queue, Unmount, Mount
  <2>2. urlInit' = urlInit \/ urlInit' = Nothing \/ (u.table # NoTable /\ urlInit' = UrlInit(u))
    BY <1>5 DEF Restore, Queue, Unmount, Mount
  <2> QED
    BY <1>1, <1>2, <2>1, <2>2, UrlInitIsTyped DEF TypeOK
<1>9. /\ tables' \in Db \cup {NoDb, Nothing} /\ loads' \in SUBSET Load /\ pending' \in BOOLEAN
      /\ LoadsInv'
      /\ Waiting' /\ loaded /\ db' = db => Waiting
      /\ Settled' => Settled /\ db' = db
  <2>1. db' \in Db \cup {NoDb} /\ loaded' \in BOOLEAN /\ (loaded => loaded') /\ loads \in SUBSET loads
    BY <1>1, <1>2, <1>3 DEF TypeOK
  <2> QED
    BY <1>1, <1>3, <2>1, RerenderKeepsLoadsInv
<1>10. /\ GridInv'
       /\ data' \in View \cup {Nothing} /\ asked' \in View \cup {Nothing}
       /\ fetches' \in SUBSET Fetch /\ failed' \in BOOLEAN
  BY <1>1, <1>7, FreshGridKeepsGridInv
<1>11. TypeOK'
  BY <1>1, <1>2, <1>3, <1>6, <1>8, <1>9, <1>10 DEF TypeOK
<1>12. ~loaded => tables = Nothing /\ current' = NoTable
  BY <1>1, <1>5 DEF LoadsInv, Restore, Queue, Unmount, Mount
<1>13. CASE u.db # db
  <2>1. current' = NoTable /\ urlInit' = IF u.table # NoTable THEN UrlInit(u) ELSE Nothing
    BY <1>5, <1>13 DEF Queue, Unmount, Mount
  <2>2. QueueInv'
    BY <1>2, <1>3, <1>4, <2>1, UrlInitIsTyped DEF QueueInv
  <2>3. ~Settled'
    BY <1>3, <1>9, <1>13
  <2> QED
    BY <1>9, <1>10, <1>11, <2>2, <2>3 DEF IInv, UrlNamesView
<1>14. CASE u.db = db /\ (pending \/ tables # db)
  <2>1. missed' # "no"
    BY <1>6, <1>14
  <2>2. QueueInv'
    BY <1>3, <1>4, <1>12, <2>1 DEF QueueInv
  <2> QED
    BY <1>9, <1>10, <1>11, <2>1, <2>2 DEF IInv, UrlNamesView
<1>15. CASE u.db = db /\ ~pending /\ tables = db
  <2>1. loaded /\ tables # Nothing
    BY <1>1, <1>15, AppNavigationAssumption DEF LoadsInv, TypeOK
  <2>2. ~Waiting /\ ~Waiting'
    BY <1>1, <1>3, <1>9, <1>15, <2>1 DEF Waiting, LoadsInv
  <2>3. QueueInv'
    BY <1>3, <1>4, <2>1, <2>2 DEF QueueInv
  <2>4. IF u.table \in TablesOf[db]
        THEN current' = u.table /\ page' = u.page /\ u.table # NoTable
        ELSE current' = NoTable
    BY <1>1, <1>5, <1>15, <2>1, TablesAreNamed DEF Restore, Unmount, Mount, TypeOK
  <2>5. NamesView'
    BY <1>3, <1>4, <1>15, <2>4 DEF NamesView
  <2> QED
    BY <1>9, <1>10, <1>11, <2>3, <2>5 DEF IInv, UrlNamesView
<1> QED
  BY <1>13, <1>14, <1>15

(* The view a DataTab asks for is the one that is open.                     *)
LEMMA AskDataKeepsIInv ==
  ASSUME IInv, AskData
  PROVE  IInv'
<1> DEFINE new == [view |-> view, live |-> TRUE]
<1>1. TypeOK /\ GridInv /\ LoadsInv /\ current # NoTable
  BY DEF IInv, AskData
<1>2. view \in View /\ view.db = db /\ view.table = current
  BY <1>1 DEF View, view, TypeOK
<1>3. asked' = view /\ fetches' = Dead(fetches) \cup {new}
  BY DEF AskData
<1>4. UNCHANGED <<hist, pos, loaded, db, pending, tables, loads, current, urlInit, page, data, failed, missed>>
  BY DEF AskData
<1>5. \A f \in Dead(fetches) : f \in Fetch /\ ~f.live
  BY <1>1 DEF Dead, Fetch, TypeOK
<1>6. new \in Fetch /\ new.live /\ new.view = view
  BY <1>2 DEF Fetch
<1> HIDE DEF new
<1>7. TypeOK'
  BY <1>1, <1>2, <1>3, <1>4, <1>5, <1>6 DEF TypeOK
<1>8. GridInv'
  BY <1>1, <1>2, <1>3, <1>4, <1>5, <1>6 DEF GridInv
<1>9. LoadsInv' /\ (Waiting' => Waiting) /\ (Settled' => Settled) /\ url' = url
  BY <1>1, <1>4, SameLoadsKeepLoadsInv DEF url
<1> QED
  BY <1>4, <1>7, <1>8, <1>9, SameViewKeepsQueueInv DEF IInv

(* The answer that is heeded is the one to what was asked for last.         *)
LEMMA DataAnswersKeepIInv ==
  ASSUME IInv, NEW f \in fetches, DataArrives(f) \/ DataFails(f) \/ DataLate(f)
  PROVE  IInv'
<1>1. TypeOK /\ GridInv /\ LoadsInv /\ f \in Fetch /\ fetches' = fetches \ {f}
  BY DEF IInv, TypeOK, DataArrives, DataFails, DataLate
<1>2. UNCHANGED <<hist, pos, loaded, db, pending, tables, loads, current, urlInit, page, asked, missed>>
  BY DEF DataArrives, DataFails, DataLate
<1>3. \/ f.live /\ data' = f.view /\ failed' = FALSE
      \/ f.live /\ failed' = TRUE /\ data' = data
      \/ ~f.live /\ UNCHANGED <<data, failed>>
  BY DEF DataArrives, DataFails, DataLate, Heeds
<1>4. TypeOK'
  BY <1>1, <1>2, <1>3 DEF TypeOK, Fetch
<1>5. GridInv'
  BY <1>1, <1>2, <1>3 DEF GridInv
<1>6. LoadsInv' /\ (Waiting' => Waiting) /\ (Settled' => Settled) /\ url' = url
  BY <1>1, <1>2, SameLoadsKeepLoadsInv DEF url
<1> QED
  BY <1>2, <1>4, <1>5, <1>6, SameViewKeepsQueueInv DEF IInv

LEMMA StepKeepsIInv ==
  ASSUME IInv, [Next]_vars
  PROVE  IInv'
<1>1. CASE UserStep
  BY <1>1, OpenKeepsIInv, SwitchDbKeepsIInv, PopKeepsIInv, TurnKeepsIInv, SetTabKeepsIInv, ReloadKeepsIInv
  DEF UserStep
<1>2. CASE AnswerStep
  BY <1>2, DatabasesKeepsIInv, TablesArriveKeepsIInv, TablesFailKeepsIInv, TablesLateKeepsIInv,
     DataAnswersKeepIInv DEF AnswerStep
<1>3. CASE UNCHANGED vars
  <2>1. TypeOK' /\ GridInv'
    BY <1>3, SameGridKeepsGridInv DEF vars, grid, IInv, TypeOK
  <2>2. LoadsInv' /\ QueueInv' /\ UrlNamesView'
    BY <1>3, SameLoadsKeepLoadsInv, SameViewKeepsQueueInv DEF vars, url, IInv
  <2> QED
    BY <2>1, <2>2 DEF IInv
<1> QED
  BY <1>1, <1>2, <1>3, RunEffectKeepsIInv, AskDataKeepsIInv DEF Next

(* The invariant holds in every reachable state.                            *)
THEOREM Invariance == Spec => []IInv
<1>1. Init => IInv
  BY InitKeepsIInv
<1>2. IInv /\ [Next]_vars => IInv'
  BY StepKeepsIInv
<1> QED
  BY <1>1, <1>2, PTL DEF Spec

-----------------------------------------------------------------------------
(* What it gives                                                            *)

(* The list of tables is that of the database chosen, once the effect of a  *)
(* switch has run, however many answers overtake each other.                *)
THEOREM TablesAreOfTheDatabase == Spec => []TablesOfDb
<1>1. IInv => TablesOfDb
  BY DEF IInv, LoadsInv
<1> QED
  BY <1>1, Invariance, PTL

(* The rows shown are of the database and table that are open, and once the *)
(* last answer is in, of the page.                                          *)
THEOREM RowsAreOfTheView == Spec => []RowsOfView
<1>1. IInv => RowsOfView
  BY DEF IInv, GridInv, RowsOfView
<1> QED
  BY <1>1, Invariance, PTL

(* With the tables there, the URL names what is shown, unless the last step *)
(* through history came too early.                                          *)
THEOREM UrlNamesTheView == Spec => []UrlNamesView
<1>1. IInv => UrlNamesView
  BY DEF IInv
<1> QED
  BY <1>1, Invariance, PTL
-----------------------------------------------------------------------------
(* Export: a completion cookie exists only for an export whose file has     *)
(* reached the browser, replies never change, and a page reads the cookie   *)
(* of its own token only.                                                   *)

(* A completion cookie comes with a file.                                   *)
CookieMeansFile == \A k \in done : reply[k] = "file"

(* A tab at work, or with something to report, has a token.                 *)
TokenGiven == \A t \in Tab : tab[t] # "idle" \/ outcome[t] # "none" => token[t] \in Token

ExportInv ==
  /\ ExportTypeOK
  /\ TokenGiven
  /\ CookieMeansFile
  /\ StartedMeansFile
  /\ OneExportAtATime

(* A form is sent once: no export that is still to be sent is known to the  *)
(* server, and none has the number of one that is to come.                  *)
UnsentInv ==
  /\ \A t \in Tab : tab[t] = "framed" => stage[token[t]] = "none"
  /\ \A k \in Token : k > started => stage[k] = "none"

-----------------------------------------------------------------------------
(* The invariants hold when nothing has been exported yet.                  *)
LEMMA InitExportInv == ExportInit => ExportInv /\ UnsentInv
<1> SUFFICES ASSUME ExportInit PROVE ExportInv /\ UnsentInv
  OBVIOUS
<1> USE ExportAssumption DEF ExportInit, Token
<1>1. ExportTypeOK
  BY DEF ExportTypeOK
<1>2. CookieMeansFile /\ StartedMeansFile /\ TokenGiven
  BY DEF CookieMeansFile, StartedMeansFile, TokenGiven
<1>3. OneExportAtATime
  BY DEF OneExportAtATime, Working
<1>4. UnsentInv
  BY DEF UnsentInv
<1> QED
  BY <1>1, <1>2, <1>3, <1>4 DEF ExportInv

(* What a page does to itself, without a word about an export's end.        *)
LEMMA ClickKeeps ==
  ASSUME ExportInv, NEW t \in Tab, Click(t)
  PROVE  ExportInv'
<1>1. started \in 0..MaxExports /\ \A s \in Tab : token[s] \in 0..started
  BY DEF ExportInv, ExportTypeOK
<1>2. started < MaxExports /\ started' = started + 1
  BY DEF Click
<1>3. /\ started \in Nat
      /\ started + 1 \in 1..MaxExports
      /\ \A s \in Tab : token[s] # started + 1
  BY <1>1, <1>2, ExportAssumption
<1>4. \A s \in Tab : token'[s] = IF s = t THEN started + 1 ELSE token[s]
  <2>1. token \in [Tab -> 0..started]
    BY DEF ExportInv, ExportTypeOK
  <2> QED
    BY <2>1 DEF Click, Fresh
<1>5. \A s \in Tab : /\ outcome'[s] = IF s = t THEN "none" ELSE outcome[s]
                     /\ tab'[s] = IF s = t THEN "framed" ELSE tab[s]
  <2>1. /\ outcome \in [Tab -> {"none", "download started", "error"}]
        /\ tab \in [Tab -> {"idle", "framed", "sent"}]
    BY DEF ExportInv, ExportTypeOK
  <2>2. \A s \in Tab : outcome'[s] = IF s = t THEN "none" ELSE outcome[s]
    BY <2>1 DEF Click
  <2>3. \A s \in Tab : tab'[s] = IF s = t THEN "framed" ELSE tab[s]
    BY <2>1 DEF Click
  <2> QED
    BY <2>2, <2>3
<1>6. /\ sent' = sent /\ stage' = stage /\ slots' = slots /\ reply' = reply
      /\ csrf' = started + 1 /\ done' \subseteq done
  BY DEF Click, Fresh
<1>7. ExportTypeOK'
  <2>1. started' \in 0..MaxExports /\ csrf' \in 0..started' /\ \A i \in 0..started : i \in 0..started'
    BY <1>2, <1>3, <1>6
  <2>2. /\ tab' \in [Tab -> {"idle", "framed", "sent"}]
        /\ outcome' \in [Tab -> {"none", "download started", "error"}]
        /\ asleep' \subseteq Tab
        /\ done' \subseteq Token
    BY <1>6 DEF ExportInv, ExportTypeOK, Click
  <2>3. token' \in [Tab -> 0..started']
    <3>1. \A s \in Tab : token'[s] \in 0..started'
      BY <1>1, <1>2, <1>3, <1>4
    <3>2. token' = [s \in Tab |-> token'[s]]
      BY DEF ExportInv, ExportTypeOK, Click
    <3> QED
      BY <3>1, <3>2
  <2>4. sent' \in [Token -> 0..started']
    BY <1>6, <2>1 DEF ExportInv, ExportTypeOK
  <2>5. \A r, s \in Tab : token'[r] = token'[s] /\ token'[r] # 0 => r = s
    <3>1. \A r, s \in Tab : token[r] = token[s] /\ token[r] # 0 => r = s
      BY DEF ExportInv, ExportTypeOK
    <3> QED
      BY <1>3, <1>4, <3>1
  <2> QED
    BY <1>6, <2>1, <2>2, <2>3, <2>4, <2>5 DEF ExportInv, ExportTypeOK
<1>8. CookieMeansFile'
  BY <1>6 DEF ExportInv, CookieMeansFile
<1>9. StartedMeansFile'
  <2> SUFFICES ASSUME NEW s \in Tab, outcome'[s] = "download started"
               PROVE  reply'[token'[s]] = "file"
    BY DEF StartedMeansFile
  <2>1. s # t
    BY <1>5
  <2>2. outcome[s] = "download started" /\ token'[s] = token[s]
    BY <1>4, <1>5, <2>1
  <2> QED
    BY <1>6, <2>2 DEF ExportInv, StartedMeansFile
<1>10. TokenGiven'
  <2> SUFFICES ASSUME NEW s \in Tab, tab'[s] # "idle" \/ outcome'[s] # "none"
               PROVE  token'[s] \in Token
    BY DEF TokenGiven, Token
  <2>1. CASE s = t
    BY <1>3, <1>4, <2>1 DEF Token
  <2>2. CASE s # t
    <3>1. tab[s] # "idle" \/ outcome[s] # "none"
      BY <1>5, <2>2
    <3> QED
      BY <1>4, <2>2, <3>1 DEF ExportInv, TokenGiven
  <2> QED
    BY <2>1, <2>2
<1>11. OneExportAtATime'
  BY <1>6 DEF ExportInv, OneExportAtATime
<1> QED
  BY <1>7, <1>8, <1>9, <1>10, <1>11 DEF ExportInv

LEMMA SubmitKeeps ==
  ASSUME ExportInv, UnsentInv, NEW t \in Tab, Submit(t)
  PROVE  ExportInv'
<1> USE ExportAssumption DEF ExportInv, Submit, Token
<1>1. ExportTypeOK'
  BY DEF ExportTypeOK
<1>2. CookieMeansFile' /\ StartedMeansFile'
  BY DEF CookieMeansFile, StartedMeansFile
<1>3. OneExportAtATime'
  <2>1. slots' = slots /\ stage[token[t]] = "none"
    BY DEF UnsentInv
  <2>2. \A k \in Token : stage'[k] \in Working <=> stage[k] \in Working
    BY <2>1 DEF Working, ExportTypeOK
  <2> QED
    BY <2>1, <2>2, Zenon DEF OneExportAtATime
<1>4. TokenGiven'
  BY DEF TokenGiven, ExportTypeOK
<1> QED
  BY <1>1, <1>2, <1>3, <1>4

(* The end of an export in its page: what it says must be true.             *)
LEMMA FinishKeeps ==
  ASSUME ExportInv, NEW t \in Tab,
         NEW what \in {"download started", "error"}, Finish(t, what),
         tab[t] # "idle",
         what = "download started" => reply[token[t]] = "file"
  PROVE  ExportInv'
<1> USE ExportAssumption DEF ExportInv, Finish, Token
<1>1. ExportTypeOK'
  BY DEF ExportTypeOK
<1>2. CookieMeansFile'
  BY DEF CookieMeansFile
<1>3. StartedMeansFile'
  BY DEF StartedMeansFile, ExportTypeOK
<1>4. OneExportAtATime'
  BY DEF OneExportAtATime, Working
<1>5. TokenGiven'
  BY DEF TokenGiven, ExportTypeOK
<1> QED
  BY <1>1, <1>2, <1>3, <1>4, <1>5

LEMMA PageKeeps ==
  ASSUME ExportInv, UnsentInv, NEW t \in Tab, PageStep(t)
  PROVE  ExportInv'
<1>1. CASE Click(t)
  BY <1>1, ClickKeeps
<1>2. CASE Submit(t)
  BY <1>2, SubmitKeeps
<1>3. CASE Poll(t)
  <2>1. token[t] \in done /\ reply[token[t]] = "file"
    BY <1>3 DEF Poll, Seen, ExportInv, CookieMeansFile
  <2> QED
    BY <1>3, <2>1, FinishKeeps DEF Poll
<1>4. CASE FrameLoads(t)
  BY <1>4, FinishKeeps DEF FrameLoads
<1>5. CASE ReloadPage(t)
  <2> USE <1>5, ExportAssumption DEF ExportInv, ReloadPage, Token
  <2>1. ExportTypeOK'
    BY DEF ExportTypeOK
  <2>2. \A k \in Token : reply[k] = "file" => reply'[k] = "file"
    BY DEF ExportTypeOK
  <2>3. CookieMeansFile'
    BY <2>2 DEF CookieMeansFile, ExportTypeOK
  <2>4. StartedMeansFile'
    <3> SUFFICES ASSUME NEW s \in Tab, outcome'[s] = "download started"
                 PROVE  reply'[token'[s]] = "file"
      BY DEF StartedMeansFile
    <3>1. reply[token[s]] = "file" /\ token[s] \in Token
      BY DEF StartedMeansFile, TokenGiven
    <3> QED
      BY <3>1, <2>2
  <2>5. OneExportAtATime'
    BY DEF OneExportAtATime, Working
  <2>6. TokenGiven'
    BY DEF TokenGiven, ExportTypeOK
  <2> QED
    BY <2>1, <2>3, <2>4, <2>5, <2>6
<1>6. CASE Sleep(t) \/ Wake(t)
  <2> USE <1>6 DEF ExportInv, Sleep, Wake
  <2>1. ExportTypeOK'
    BY DEF ExportTypeOK
  <2> QED
    BY <2>1 DEF TokenGiven, CookieMeansFile, StartedMeansFile, OneExportAtATime, Working, Token
<1> QED
  BY <1>1, <1>2, <1>3, <1>4, <1>5, <1>6 DEF PageStep

(* The server's steps: an export begins with the channel empty, which it    *)
(* fills, and is at work until it empties it.                               *)
LEMMA HandlesKeeps ==
  ASSUME ExportInv, NEW k \in Token, Handles(k)
  PROVE  ExportInv'
<1>1. slots \in 0..1 /\ stage \in [Token -> {"none", "posted", "exporting", "copying", "copied", "failing", "refused"}]
  BY DEF ExportInv, ExportTypeOK
<1>2. UNCHANGED exportPage /\ UNCHANGED <<done, sent, reply>>
  BY DEF Handles, Admit, Refuse, Spooled, Fails, Returns, Goes
<1>3. /\ stage' \in [Token -> {"none", "posted", "exporting", "copying", "copied", "failing", "refused"}]
      /\ \A j \in Token : j # k => stage'[j] = stage[j]
  BY <1>1 DEF Handles, Admit, Refuse, Spooled, Fails, Returns, Goes
<1>4. CookieMeansFile' /\ StartedMeansFile' /\ TokenGiven'
  BY <1>2 DEF ExportInv, CookieMeansFile, StartedMeansFile, TokenGiven, exportPage
<1>5. Admit(k) => OneExportAtATime' /\ slots' \in {0, 1}
  <2> SUFFICES ASSUME Admit(k) PROVE OneExportAtATime' /\ slots' \in {0, 1}
    OBVIOUS
  <2>1. slots < 1 /\ slots' = slots + 1 /\ stage' = [stage EXCEPT ![k] = "exporting"]
    BY DEF Admit, Takes, Goes
  <2>2. slots = 0 /\ slots' = 1 /\ 0 # 1
    BY <1>1, <2>1
  <2>3. stage'[k] \in Working
    BY <1>1, <2>1 DEF Working
  <2>4. \A j \in Token : stage[j] \notin Working
    BY <2>2 DEF ExportInv, OneExportAtATime
  <2>5. OneExportAtATime' /\ slots' \in {0, 1}
    BY <1>3, <2>2, <2>3, <2>4, Zenon DEF OneExportAtATime
  <2> QED
    BY <2>5
<1>6. Refuse(k) \/ Spooled(k) \/ Fails(k) => OneExportAtATime' /\ slots' = slots
  <2> SUFFICES ASSUME Refuse(k) \/ Spooled(k) \/ Fails(k) PROVE OneExportAtATime' /\ slots' = slots
    OBVIOUS
  <2>1. slots' = slots
    BY DEF Refuse, Spooled, Fails
  <2>2. stage'[k] \in Working <=> stage[k] \in Working
    BY <1>1 DEF Refuse, Spooled, Fails, Goes, Working
  <2> QED
    BY <1>1, <1>3, <2>1, <2>2 DEF ExportInv, OneExportAtATime
<1>7. Returns(k) => OneExportAtATime' /\ slots' \in {0, 1}
  <2> SUFFICES ASSUME Returns(k) PROVE OneExportAtATime' /\ slots' \in {0, 1}
    OBVIOUS
  <2>1. slots > 0 /\ slots' = slots - 1
    BY DEF Returns, Frees
  <2>2. slots = 1 /\ slots' = 0 /\ 0 # 1
    BY <1>1, <2>1
  <2>3. stage[k] \in Working /\ stage'[k] \notin Working
    BY <1>1 DEF Returns, Goes, Working
  <2>4. OneExportAtATime' /\ slots' \in {0, 1}
    BY <1>3, <2>2, <2>3, Zenon DEF ExportInv, OneExportAtATime
  <2> QED
    BY <2>4
<1>8. OneExportAtATime' /\ slots' \in 0..1
  <2>1. OneExportAtATime' /\ (slots' \in {0, 1} \/ slots' = slots)
    BY <1>5, <1>6, <1>7 DEF Handles
  <2> QED
    BY <1>1, <2>1
<1>9. ExportTypeOK'
  BY <1>2, <1>3, <1>8 DEF ExportInv, ExportTypeOK, exportPage
<1> QED
  BY <1>4, <1>8, <1>9 DEF ExportInv

(* Answers that arrive, connections that break, cookies that expire.        *)
LEMMA NetworkKeeps ==
  ASSUME ExportInv, NEW k \in Token, Expire(k) \/ Arrives(k) \/ Breaks(k)
  PROVE  ExportInv'
<1> USE DEF ExportInv, Expire, Arrives, Breaks, exportPage
<1>1. reply' \in [Token -> {"none", "file", "error"}] /\ done' \subseteq Token
  BY DEF ExportTypeOK
<1>2. \A j \in Token : reply[j] = "file" => reply'[j] = "file"
  BY DEF ExportTypeOK
<1>3. ExportTypeOK'
  BY <1>1 DEF ExportTypeOK
<1>4. CookieMeansFile'
  <2>1. done' = done \cup {k} => reply'[k] = "file" \/ done' = done
    BY DEF ExportTypeOK
  <2>2. done' \subseteq done \/ done' = done \cup {k}
    OBVIOUS
  <2> QED
    BY <1>2, <2>1, <2>2 DEF CookieMeansFile, ExportTypeOK
<1>5. StartedMeansFile'
  <2> SUFFICES ASSUME NEW s \in Tab, outcome'[s] = "download started"
               PROVE  reply'[token'[s]] = "file"
    BY DEF StartedMeansFile
  <2>1. reply[token[s]] = "file" /\ token[s] \in Token
    BY DEF StartedMeansFile, TokenGiven
  <2> QED
    BY <1>2, <2>1
<1>6. OneExportAtATime' /\ TokenGiven'
  BY DEF OneExportAtATime, Working, TokenGiven
<1> QED
  BY <1>3, <1>4, <1>5, <1>6

-----------------------------------------------------------------------------
(* The way of an export                                                     *)

(* Stages that export k has before it.                                      *)
StagesLeft(k) ==
  CASE stage[k] = "none"      -> 4
    [] stage[k] = "posted"    -> 3
    [] stage[k] = "exporting" -> 2
    [] stage[k] = "copying"   -> 1
    [] stage[k] = "failing"   -> 1
    [] OTHER                  -> 0

(* Export k stays where it is or goes on, and what has reached the browser  *)
(* of it is not replaced.                                                   *)
OneWay(k) ==
  /\ UNCHANGED stage[k] \/ StagesLeft(k)' < StagesLeft(k)
  /\ reply[k] # "none" => UNCHANGED reply[k]

(* What a page does leaves the stages alone, but for the form that it       *)
(* sends, which the server does not know yet.                               *)
LEMMA PageGoesOn ==
  ASSUME ExportInv, UnsentInv, NEW t \in Tab, PageStep(t)
  PROVE  UnsentInv' /\ \A k \in Token : OneWay(k)
<1> USE ExportAssumption DEF ExportInv
<1>1. /\ tab \in [Tab -> {"idle", "framed", "sent"}] /\ token \in [Tab -> 0..started]
      /\ stage \in [Token -> {"none", "posted", "exporting", "copying", "copied", "failing", "refused"}]
      /\ reply \in [Token -> {"none", "file", "error"}]
      /\ \A r, s \in Tab : token[r] = token[s] /\ token[r] # 0 => r = s
      /\ started \in 0..MaxExports
  BY DEF ExportTypeOK
<1>2. started \in Nat /\ \A s \in Tab : token[s] \in Nat /\ token[s] <= started
  BY <1>1
<1>3. CASE Click(t)
  <2>1. /\ started < MaxExports /\ started' = started + 1
        /\ token' = [token EXCEPT ![t] = started + 1] /\ tab' = [tab EXCEPT ![t] = "framed"]
        /\ stage' = stage /\ reply' = reply
    BY <1>3 DEF Click, Fresh
  <2>2. started + 1 \in Token /\ stage[started + 1] = "none"
    <3>1. started + 1 \in Token /\ started + 1 > started
      BY <1>1, <1>2, <2>1 DEF Token
    <3> QED
      BY <3>1 DEF UnsentInv
  <2>3. \A s \in Tab : tab'[s] = "framed" => stage'[token'[s]] = "none"
    BY <1>1, <2>1, <2>2 DEF UnsentInv
  <2>4. \A k \in Token : k > started' => stage'[k] = "none"
    <3> SUFFICES ASSUME NEW k \in Token, k > started' PROVE stage'[k] = "none"
      OBVIOUS
    <3>1. k > started
      BY <1>2, <2>1 DEF Token
    <3> QED
      BY <2>1, <3>1 DEF UnsentInv
  <2> QED
    BY <2>1, <2>3, <2>4 DEF UnsentInv, OneWay
<1>4. CASE Submit(t)
  <2>1. /\ tab[t] = "framed" /\ tab' = [tab EXCEPT ![t] = "sent"]
        /\ stage' = [stage EXCEPT ![token[t]] = "posted"]
        /\ started' = started /\ token' = token /\ reply' = reply
    BY <1>4 DEF Submit
  <2>2. token[t] \in Token /\ token[t] # 0 /\ stage[token[t]] = "none"
    BY <1>1, <2>1 DEF UnsentInv, TokenGiven, Token
  <2>3. \A k \in Token : OneWay(k)
    <3> SUFFICES ASSUME NEW k \in Token PROVE OneWay(k)
      OBVIOUS
    <3>1. CASE k = token[t]
      <4>1. stage[k] = "none" /\ stage'[k] = "posted"
        BY <1>1, <2>1, <2>2, <3>1
      <4>2. StagesLeft(k) = 4 /\ StagesLeft(k)' = 3
        BY <4>1 DEF StagesLeft
      <4> QED
        BY <2>1, <4>2 DEF OneWay
    <3>2. CASE k # token[t]
      BY <1>1, <2>1, <3>2 DEF OneWay
    <3> QED
      BY <3>1, <3>2
  <2>4. \A s \in Tab : tab'[s] = "framed" => stage'[token'[s]] = "none"
    <3> SUFFICES ASSUME NEW s \in Tab, tab'[s] = "framed" PROVE stage'[token'[s]] = "none"
      OBVIOUS
    <3>1. s # t /\ tab[s] = "framed"
      BY <1>1, <2>1
    <3>2. token[s] \in Token /\ token[s] # token[t] /\ stage[token[s]] = "none"
      BY <1>1, <2>2, <3>1 DEF UnsentInv, TokenGiven
    <3> QED
      BY <1>1, <2>1, <3>2
  <2>5. \A k \in Token : k > started' => stage'[k] = "none"
    <3> SUFFICES ASSUME NEW k \in Token, k > started PROVE stage'[k] = "none"
      BY <2>1
    <3>1. k # token[t]
      BY <1>2 DEF Token
    <3> QED
      BY <1>1, <2>1, <3>1 DEF UnsentInv
  <2> QED
    BY <2>3, <2>4, <2>5 DEF UnsentInv
<1>5. CASE Poll(t) \/ FrameLoads(t) \/ ReloadPage(t) \/ Sleep(t) \/ Wake(t)
  <2>1. /\ started' = started /\ token' = token /\ stage' = stage
        /\ tab' = tab \/ tab' = [tab EXCEPT ![t] = "idle"]
    BY <1>5 DEF Poll, FrameLoads, ReloadPage, Sleep, Wake, Finish
  <2>2. \A k \in Token : reply[k] # "none" => reply'[k] = reply[k]
    BY <1>1, <1>5 DEF Poll, FrameLoads, ReloadPage, Sleep, Wake, Finish
  <2>3. UnsentInv'
    BY <1>1, <2>1 DEF UnsentInv
  <2> QED
    BY <2>1, <2>2, <2>3 DEF OneWay
<1> QED
  BY <1>3, <1>4, <1>5 DEF PageStep

(* The server and the network take an export on, one stage at a time.       *)
LEMMA ServerGoesOn ==
  ASSUME ExportInv, UnsentInv, NEW j \in Token,
         Expire(j) \/ Handles(j) \/ Arrives(j) \/ Breaks(j)
  PROVE  UnsentInv' /\ \A k \in Token : OneWay(k)
<1> USE DEF ExportInv
<1>1. /\ stage \in [Token -> {"none", "posted", "exporting", "copying", "copied", "failing", "refused"}]
      /\ reply \in [Token -> {"none", "file", "error"}]
  BY DEF ExportTypeOK
<1>2. UNCHANGED exportPage
  BY DEF Expire, Handles, Admit, Refuse, Spooled, Fails, Returns, Takes, Frees, Goes, Arrives, Breaks
<1>3. CASE Handles(j)
  <2>1. /\ reply' = reply
        /\ \/ stage[j] = "posted" /\ stage' = [stage EXCEPT ![j] = "exporting"]
           \/ stage[j] = "posted" /\ stage' = [stage EXCEPT ![j] = "refused"]
           \/ stage[j] = "exporting" /\ stage' = [stage EXCEPT ![j] = "copying"]
           \/ stage[j] = "exporting" /\ stage' = [stage EXCEPT ![j] = "failing"]
           \/ stage[j] = "copying" /\ stage' = [stage EXCEPT ![j] = "copied"]
           \/ stage[j] = "failing" /\ stage' = [stage EXCEPT ![j] = "refused"]
    BY <1>3 DEF Handles, Admit, Refuse, Spooled, Fails, Returns, Takes, Frees, Goes
  <2>2. \A k \in Token : k # j => stage'[k] = stage[k]
    BY <1>1, <2>1
  <2>3. StagesLeft(j)' < StagesLeft(j)
    <3>1. \/ stage[j] = "posted" /\ stage'[j] \in {"exporting", "refused"}
          \/ stage[j] = "exporting" /\ stage'[j] \in {"copying", "failing"}
          \/ stage[j] = "copying" /\ stage'[j] = "copied"
          \/ stage[j] = "failing" /\ stage'[j] = "refused"
      BY <1>1, <2>1
    <3> QED
      BY <3>1 DEF StagesLeft
  <2>4. \A k \in Token : OneWay(k)
    BY <2>1, <2>2, <2>3 DEF OneWay
  <2>5. stage[j] # "none"
    BY <2>1
  <2>6. \A t \in Tab : tab[t] = "framed" => token[t] \in Token
    BY DEF TokenGiven
  <2>7. UnsentInv'
    BY <1>2, <2>2, <2>5, <2>6 DEF UnsentInv, exportPage
  <2> QED
    BY <2>4, <2>7
<1>4. CASE Expire(j) \/ Arrives(j) \/ Breaks(j)
  <2>1. stage' = stage /\ \A k \in Token : reply[k] # "none" => reply'[k] = reply[k]
    BY <1>1, <1>4 DEF Expire, Arrives, Breaks
  <2> QED
    BY <1>2, <2>1 DEF UnsentInv, OneWay, exportPage
<1> QED
  BY <1>3, <1>4

-----------------------------------------------------------------------------
(* The invariant above holds of every state the browser and the server can  *)
(* reach.                                                                   *)
THEOREM ExportInvariance == ExportSpec => [](ExportInv /\ UnsentInv)
<1>1. ExportInit => ExportInv /\ UnsentInv
  BY InitExportInv
<1>2. ExportInv /\ UnsentInv /\ [ExportNext]_exportVars => ExportInv' /\ UnsentInv'
  <2> SUFFICES ASSUME ExportInv, UnsentInv, [ExportNext]_exportVars PROVE ExportInv' /\ UnsentInv'
    OBVIOUS
  <2>1. CASE \E t \in Tab : PageStep(t)
    BY <2>1, PageKeeps, PageGoesOn
  <2>2. CASE \E k \in Token : Expire(k) \/ Handles(k) \/ Arrives(k) \/ Breaks(k)
    BY <2>2, HandlesKeeps, NetworkKeeps, ServerGoesOn
  <2>3. CASE UNCHANGED exportVars
    BY <2>3 DEF exportVars, ExportInv, ExportTypeOK, TokenGiven, CookieMeansFile, StartedMeansFile, OneExportAtATime,
                Working, Token, UnsentInv
  <2> QED
    BY <2>1, <2>2, <2>3 DEF ExportNext
<1> QED
  BY <1>1, <1>2, PTL DEF ExportSpec

(* Types, and the tokens of two tabs stay apart.                            *)
THEOREM ExportTypeCorrect == ExportSpec => []ExportTypeOK
  BY ExportInvariance, PTL DEF ExportInv

(* A page reports a download only if the file it asked for has come.        *)
THEOREM ReportsAreTrue == ExportSpec => []StartedMeansFile
  BY ExportInvariance, PTL DEF ExportInv

(* The server works for one export at a time, and the slot is taken just    *)
(* then: whatever fails, is cancelled or breaks, it is not lost, and it is  *)
(* not given back before the file is copied.                                *)
THEOREM SingleExport == ExportSpec => []OneExportAtATime
  BY ExportInvariance, PTL DEF ExportInv

-----------------------------------------------------------------------------
(* An export goes one way: its form is sent once, its stages follow in      *)
(* order, whatever other tabs export and pages are loaded anew, and what    *)
(* has reached the browser of it, a file or an error, is never replaced.    *)
THEOREM ExportsGoOn == ExportSpec => [][\A k \in Token : OneWay(k)]_exportVars
<1>1. ExportInv /\ UnsentInv /\ [ExportNext]_exportVars => [\A k \in Token : OneWay(k)]_exportVars
  BY PageGoesOn, ServerGoesOn DEF ExportNext
<1> QED
  BY <1>1, ExportInvariance, PTL DEF ExportSpec
=============================================================================
