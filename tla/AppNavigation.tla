---------------------------- MODULE AppNavigation ----------------------------
(***************************************************************************)
(* Which database, table and page of rows the browser client shows, and    *)
(* which its URL names: App (web/app.js) and DataTab (web/data-tab.js).     *)
(* The user opens tables, follows foreign keys, pages, switches databases,  *)
(* walks the browser's history and reloads, while lists of tables and pages *)
(* of rows are on their way.                                                *)
(*                                                                         *)
(* The tab and the SQL of the URL are left out (SqlTab has the latter), and *)
(* a page stands for offset, search, sort and filters together.             *)
(***************************************************************************)
EXTENDS Naturals, Sequences, FiniteSets

CONSTANTS
  Db,          \* configured databases
  DefaultDb,   \* the one the server names as default
  NoDb,        \* no database named: the server takes the default one
  Table,       \* names of tables
  NoTable,
  TablesOf,    \* TablesOf[d]: the tables of database d
  Page,        \* contents of offset, search, sort and filters
  FirstPage,   \* the one with none of them
  Nothing,     \* null: no database and no table with its page
  MaxHistory,  \* bound: entries of the browser's history
  MaxRequests  \* bound: requests for tables, and for rows, in flight at a time

ASSUME AppNavigationAssumption ==
  /\ DefaultDb \in Db
  /\ NoDb \notin Db
  /\ NoTable \notin Table
  /\ FirstPage \in Page
  /\ TablesOf \in [Db \cup {NoDb} -> SUBSET Table]
  /\ TablesOf[NoDb] = TablesOf[DefaultDb]
  /\ Nothing \notin Db \cup {NoDb}
  /\ Nothing \notin [table : Table, page : Page]
  /\ {MaxHistory, MaxRequests} \subseteq Nat \ {0}

VARIABLES
  hist,        \* the history entries App wrote: their URLs
  pos,         \* the current one; urlStateRef always equals it
  loaded,      \* dbsLoaded
  db,          \* currentDb, and dbRef
  pending,     \* the effect that loads tables has not run since the last render
  tables,      \* the database whose tables are listed (tablesRef), or Nothing
  loads,       \* requests for tables in flight
  current,     \* the table that is open
  urlInit,     \* a table to open when tables arrive, and the page a DataTab starts with
  page,        \* page of the open DataTab
  data,        \* the rows it shows: the view they are of, or Nothing
  asked,       \* the view it asked for last
  fetches,     \* its requests in flight
  failed,      \* the last answer it heeded was an error
  missed       \* a table of the URL was looked for where it could not be found (history):
               \* "history" by onPopstate, "race" in tables that were called off too late

vars == <<hist, pos, loaded, db, pending, tables, loads, current, urlInit, page, data, asked,
          fetches, failed, missed>>
grid == <<data, asked, fetches, failed>>

-----------------------------------------------------------------------------
Url  == [db : Db \cup {NoDb}, table : Table \cup {NoTable}, page : Page]
Queued == [table : Table, page : Page]
View == [db : Db \cup {NoDb}, table : Table, page : Page]
Load == [db : Db \cup {NoDb}, live : BOOLEAN]
Fetch == [view : View, live : BOOLEAN]

url == hist[pos]

(* The view the open DataTab is of.                                         *)
view == [db |-> db, table |-> current, page |-> page]

(* Cleanup functions of effects: live = false.                              *)
Dead(requests) == {[r EXCEPT !.live = FALSE] : r \in requests}

Push(u) ==
  /\ pos < MaxHistory
  /\ hist' = Append(SubSeq(hist, 1, pos), u)
  /\ pos' = pos + 1

Replace(u) ==
  /\ hist' = [hist EXCEPT ![pos] = u]
  /\ UNCHANGED pos

FreshGrid ==
  /\ data' = Nothing
  /\ asked' = Nothing
  /\ fetches' = Dead(fetches)
  /\ failed' = FALSE

(* A DataTab is mounted anew (navKey), or none is.                          *)
Mount(t, p) ==
  /\ current' = t
  /\ page' = p
  /\ FreshGrid

Unmount == Mount(NoTable, FirstPage)

Init ==
  /\ hist \in {<<u>> : u \in Url}
  /\ pos = 1
  /\ loaded = FALSE
  /\ db = NoDb
  /\ pending = FALSE
  /\ tables = Nothing
  /\ loads = {}
  /\ current = NoTable
  /\ urlInit = Nothing
  /\ page = FirstPage
  /\ data = Nothing /\ asked = Nothing /\ fetches = {} /\ failed = FALSE
  /\ missed = "no"

-----------------------------------------------------------------------------
(* The effect that loads the tables of the database.                        *)

RoomForLoad == Cardinality(loads) < MaxRequests

(* A render after a handler: an effect still pending runs before it, over   *)
(* what the handler left of the tables and the loads.                       *)
Rerender(ts, ls) ==
  /\ IF pending
     THEN /\ tables' = Nothing
          /\ loads' = Dead(ls) \cup {[db |-> db, live |-> TRUE]}
     ELSE /\ tables' = ts
          /\ loads' = ls
  /\ pending' = (loaded' /\ (db' # db \/ ~loaded))

RunEffect ==
  /\ pending
  /\ tables' = Nothing
  /\ loads' = Dead(loads) \cup {[db |-> db, live |-> TRUE]}
  /\ pending' = FALSE
  /\ UNCHANGED <<hist, pos, loaded, db, current, urlInit, page, missed>>
  /\ UNCHANGED grid

-----------------------------------------------------------------------------
(* Start.                                                                   *)

(* The page is loaded again, in the history entry it was on.                *)
Reload ==
  /\ loaded' = FALSE
  /\ db' = NoDb
  /\ pending' = FALSE
  /\ tables' = Nothing
  /\ loads' = {}
  /\ urlInit' = Nothing
  /\ current' = NoTable
  /\ page' = FirstPage
  /\ data' = Nothing /\ asked' = Nothing /\ fetches' = {} /\ failed' = FALSE
  /\ missed' = "no"
  /\ UNCHANGED <<hist, pos>>

UrlInit(u) == [table |-> u.table, page |-> u.page]

(* The list of databases arrives, or cannot be had: the URL is read again,  *)
(* its database resolved and written back.                                  *)
Databases(ok) ==
  /\ ~loaded
  /\ loaded' = TRUE
  /\ db' = IF ~ok THEN NoDb ELSE IF url.db \in Db THEN url.db ELSE DefaultDb
  /\ Replace([url EXCEPT !.db = db'])
  /\ urlInit' = IF url.table # NoTable THEN UrlInit(url) ELSE urlInit
  /\ missed' = IF url.table = NoTable THEN missed ELSE "no"
  /\ UNCHANGED <<current, page>>
  /\ UNCHANGED grid
  /\ Rerender(tables, loads)

-----------------------------------------------------------------------------
(* Answers with tables.                                                     *)

(* Mutant of Heeds: the answer for a database that was left is shown.       *)
HeedsAny(r) == TRUE

(* if (!live) return.                                                       *)
Heeds(r) == r.live

(* The table queued in urlInit is opened if it is among them, or given up.  *)
TablesArrive(l) ==
  /\ l \in loads
  /\ Heeds(l)
  /\ IF urlInit = Nothing
     THEN UNCHANGED <<current, page, urlInit>> /\ UNCHANGED grid
     ELSE IF urlInit.table \in TablesOf[l.db]
          THEN Mount(urlInit.table, urlInit.page) /\ UNCHANGED urlInit
          ELSE urlInit' = Nothing /\ UNCHANGED <<current, page>> /\ UNCHANGED grid
  /\ missed' = IF l.db # db /\ urlInit # Nothing THEN "race" ELSE missed
  /\ UNCHANGED <<hist, pos, loaded, db>>
  /\ Rerender(l.db, loads \ {l})

TablesFail(l) ==
  /\ l \in loads
  /\ Heeds(l)
  /\ UNCHANGED <<hist, pos, loaded, db, current, urlInit, page, missed>>
  /\ UNCHANGED grid
  /\ Rerender(tables, loads \ {l})

TablesLate(l) ==
  /\ l \in loads
  /\ ~Heeds(l)
  /\ loads' = loads \ {l}
  /\ UNCHANGED <<hist, pos, loaded, db, pending, tables, current, urlInit, page, missed>>
  /\ UNCHANGED grid

-----------------------------------------------------------------------------
(* The user.                                                                *)

(* open: a click on a listed table, or with a page of its own a foreign     *)
(* key's value (onNavigate).                                                *)
Open(t, p) ==
  /\ tables # Nothing
  /\ t \in TablesOf[tables]
  /\ current = NoTable => p = FirstPage
  /\ Push([db |-> url.db, table |-> t, page |-> p])
  /\ urlInit' = Nothing
  /\ Mount(t, p)
  /\ missed' = "no"
  /\ UNCHANGED <<loaded, db>>
  /\ Rerender(tables, loads)

(* setTab leaves the view alone, but makes a history entry.                 *)
SetTab ==
  /\ Push(url)
  /\ UNCHANGED <<loaded, db, current, urlInit, page, missed>>
  /\ UNCHANGED grid
  /\ Rerender(tables, loads)

(* Mutant of SwitchDb: the open table stays open.                           *)
SwitchKeepsTable(d) ==
  /\ loaded
  /\ d # db
  /\ RoomForLoad
  /\ db' = d
  /\ Push([db |-> d, table |-> NoTable, page |-> FirstPage])
  /\ urlInit' = Nothing
  /\ UNCHANGED <<current, page>>
  /\ UNCHANGED grid
  /\ missed' = "no"
  /\ UNCHANGED loaded
  /\ Rerender(tables, loads)

SwitchDb(d) ==
  /\ loaded
  /\ d # db
  /\ RoomForLoad
  /\ db' = d
  /\ Push([db |-> d, table |-> NoTable, page |-> FirstPage])
  /\ urlInit' = Nothing
  /\ Unmount
  /\ missed' = "no"
  /\ UNCHANGED loaded
  /\ Rerender(tables, loads)

(* Mutant of Restore: the DataTab of a table that stays open is not made    *)
(* anew for the page of the other entry.                                    *)
RestoreSameTable(u) ==
  IF u.table # NoTable /\ tables # Nothing /\ u.table \in TablesOf[tables]
  THEN /\ urlInit' = UrlInit(u)
       /\ IF u.table = current
          THEN UNCHANGED <<current, page>> /\ UNCHANGED grid
          ELSE Mount(u.table, u.page)
  ELSE Unmount /\ UNCHANGED urlInit

(* onPopstate within the database: the table is looked up in those listed.  *)
Restore(u) ==
  IF u.table # NoTable /\ tables # Nothing /\ u.table \in TablesOf[tables]
  THEN Mount(u.table, u.page) /\ urlInit' = UrlInit(u)
  ELSE Unmount /\ UNCHANGED urlInit

(* onPopstate, to another database: the table waits for the tables.         *)
Queue(u) ==
  /\ Unmount
  /\ urlInit' = IF u.table # NoTable THEN UrlInit(u) ELSE Nothing

(* The back and forward buttons.                                            *)
Pop(p) ==
  /\ p \in 1..Len(hist) \ {pos}
  /\ RoomForLoad
  /\ pos' = p
  /\ db' = hist[p].db
  /\ IF hist[p].db = db THEN Restore(hist[p]) ELSE Queue(hist[p])
  /\ missed' = IF hist[p].db = db /\ (pending \/ tables # db) THEN "history" ELSE "no"
  /\ UNCHANGED <<hist, loaded>>
  /\ Rerender(tables, loads)

(* Paging, search, sort, filters: DataTab notifies App of all of them.      *)
Turn(p) ==
  /\ current # NoTable
  /\ p # page
  /\ page' = p
  /\ Replace([url EXCEPT !.table = current, !.page = p])
  /\ UNCHANGED <<loaded, db, pending, tables, loads, current, urlInit, missed>>
  /\ UNCHANGED grid

-----------------------------------------------------------------------------
(* The rows of the open DataTab.                                            *)

(* The effect of its view: the answer to an earlier one is void.            *)
AskData ==
  /\ current # NoTable
  /\ asked # view
  /\ Cardinality(fetches) < MaxRequests
  /\ asked' = view
  /\ fetches' = Dead(fetches) \cup {[view |-> view, live |-> TRUE]}
  /\ UNCHANGED <<hist, pos, loaded, db, pending, tables, loads, current, urlInit, page, data,
                 failed, missed>>

DataArrives(f) ==
  /\ f \in fetches
  /\ Heeds(f)
  /\ data' = f.view
  /\ failed' = FALSE
  /\ fetches' = fetches \ {f}
  /\ UNCHANGED <<hist, pos, loaded, db, pending, tables, loads, current, urlInit, page, asked,
                 missed>>

(* An error keeps the rows that were shown.                                 *)
DataFails(f) ==
  /\ f \in fetches
  /\ Heeds(f)
  /\ failed' = TRUE
  /\ fetches' = fetches \ {f}
  /\ UNCHANGED <<hist, pos, loaded, db, pending, tables, loads, current, urlInit, page, data,
                 asked, missed>>

DataLate(f) ==
  /\ f \in fetches
  /\ ~Heeds(f)
  /\ fetches' = fetches \ {f}
  /\ UNCHANGED <<hist, pos, loaded, db, pending, tables, loads, current, urlInit, page, data,
                 asked, failed, missed>>

-----------------------------------------------------------------------------
UserStep ==
  \/ \E t \in Table, p \in Page : Open(t, p)
  \/ \E d \in Db : SwitchDb(d)
  \/ \E p \in 1..MaxHistory : Pop(p)
  \/ \E p \in Page : Turn(p)
  \/ SetTab
  \/ Reload

AnswerStep ==
  \/ \E ok \in BOOLEAN : Databases(ok)
  \/ \E l \in loads : TablesArrive(l) \/ TablesFail(l) \/ TablesLate(l)
  \/ \E f \in fetches : DataArrives(f) \/ DataFails(f) \/ DataLate(f)

Next == UserStep \/ AnswerStep \/ RunEffect \/ AskData

Spec == Init /\ [][Next]_vars

-----------------------------------------------------------------------------

(* The list of tables is that of the database chosen, once the effect of a  *)
(* switch has run, however the answers of two databases overtake each other *)
(* (live in the effect that loads them).                                    *)
TablesOfDb == loaded /\ ~pending /\ tables # Nothing => tables = db

(* The rows shown are never those of another database or table than the     *)
(* page says, and once the last answer is in, nor of another page: every    *)
(* way to another table or database unmounts the DataTab, whose effect      *)
(* ignores the answers of the requests before the last.                     *)
RowsOfView ==
  /\ data # Nothing => data.db = db /\ data.table = current
  /\ current # NoTable /\ asked = view /\ ~failed /\ (\A f \in fetches : ~f.live)
       => data = view

Settled == loaded /\ ~pending /\ tables = db

NamesView ==
  /\ url.db = db
  /\ IF current = NoTable
     THEN url.table \notin TablesOf[db]
     ELSE current = url.table /\ page = url.page

(* With the tables there, the URL names what is shown, as a link to share   *)
(* must: however the user came here through history, links, foreign keys,   *)
(* switches and reloads, provided the last step through history did not     *)
(* come while the tables were on their way, nor an old list of tables right *)
(* after it, before the effect that calls it off.                           *)
UrlNamesView == Settled /\ missed = "no" => NamesView
=============================================================================
