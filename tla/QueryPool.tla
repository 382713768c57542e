------------------------------ MODULE QueryPool ------------------------------
(***************************************************************************)
(* The path of a request through internal/server and internal/db to        *)
(* PostgreSQL: the handler takes the export slot if it exports, runs its    *)
(* queries one after the other, each on a connection of the pool, and       *)
(* answers.  A connection that was used is cleaned in the background        *)
(* before it is lent again.                                                 *)
(*                                                                         *)
(* One pool is modelled.  SQL text, rows and error messages are left out:   *)
(* what matters here is which query of which request holds which           *)
(* connection, what is left behind in the session, and that every path out  *)
(* of a handler gives back what it took.                                    *)
(***************************************************************************)
EXTENDS Naturals, Sequences

CONSTANTS
  Request,     \* handler goroutines in flight at the same time
  Conn,        \* the pool's connections: PGPEEK_MAX_CONNS of them
  NoRequest    \* "no request holds this"

ASSUME NoRequestAssumption == NoRequest \notin Request

VARIABLES
  kind,        \* kind[r]: which handler r runs
  phase,       \* phase[r]: where it is
  todo,        \* todo[r]: the queries it still has to run, the current first
  expired,     \* requests whose context is done: deadline, or client gone
  slot,        \* the occupant of the server's exportSlots channel
  conn,        \* conn[c]: life cycle of connection c
  holder,      \* holder[c]: the request c is busy for, or is being opened for
  session      \* session[c]: what the server and the client keep of c's session

vars == <<kind, phase, todo, expired, slot, conn, holder, session>>

-----------------------------------------------------------------------------
(* Kinds of query a handler sends: SQL typed by the user, a catalog query   *)
(* of catalog.go (a ping counts as one), or a page or cell of a table.      *)
Query == {"sql", "catalog", "page"}

(* tableSQL reads the columns first when the page is searched, filtered or  *)
(* sorted.                                                                  *)
PagePlans == {<<"page">>, <<"catalog", "page">>}

(* The queries each kind of handler runs, in order.  A CSV page fetches     *)
(* each shortened cell again with the page's own plan; one such cell is     *)
(* enough here (the bound MaxCells = 1), as every further one repeats it.   *)
Plans(k) ==
  CASE k \in {"sql", "export"} -> {<<"sql">>}
    [] k = "catalog"           -> {<<"catalog">>}
    [] k = "describe"          -> {<<"catalog", "catalog">>}
    [] k = "page"              -> PagePlans
    [] k = "csv"               -> PagePlans \cup {p \o p : p \in PagePlans}

Kind == {"sql", "export", "catalog", "describe", "page", "csv"}

Phase == {"idle", "waiting", "dialing", "reading", "copying"}

ConnPhase == {"absent", "connecting", "idle", "busy", "resetting", "discarding"}

(* "settings" are the session's run-time parameters and locks, "prepared"   *)
(* the statements the server holds, "cached" those the client believes it   *)
(* holds.                                                                   *)
Session == [settings : {"startup", "changed"}, prepared : BOOLEAN, cached : BOOLEAN]

(* buildConfig sends the run-time parameters with the startup message, so   *)
(* a session opens with them and DISCARD ALL returns to them.               *)
FreshSession == [settings |-> "startup", prepared |-> FALSE, cached |-> FALSE]

Init ==
  /\ kind = [r \in Request |-> "sql"]
  /\ phase = [r \in Request |-> "idle"]
  /\ todo = [r \in Request |-> <<>>]
  /\ expired = {}
  /\ slot = NoRequest
  /\ conn = [c \in Conn |-> "absent"]
  /\ holder = [c \in Conn |-> NoRequest]
  /\ session = [c \in Conn |-> FreshSession]

-----------------------------------------------------------------------------
(* Helpers shared by the handler's steps.                                   *)

(* Mutant of Answer: an exit from handleExport that keeps the slot.         *)
AnswerKeepsSlot(r) ==
  /\ phase' = [phase EXCEPT ![r] = "idle"]
  /\ todo' = [todo EXCEPT ![r] = <<>>]
  /\ expired' = expired \ {r}
  /\ UNCHANGED slot

(* The handler returns: it answers, and a deferred receive frees the slot   *)
(* on every path out of handleExport.                                       *)
Answer(r) ==
  /\ phase' = [phase EXCEPT ![r] = "idle"]
  /\ todo' = [todo EXCEPT ![r] = <<>>]
  /\ expired' = expired \ {r}
  /\ slot' = IF slot = r THEN NoRequest ELSE slot

(* Mutant of CloseRows: rows that stay open when the function that read     *)
(* them returns.                                                            *)
LeaveRowsOpen(c) == UNCHANGED <<conn, holder, session>>

(* rows.Close: the connection leaves the request and AfterRelease starts    *)
(* on a goroutine of its own.                                               *)
CloseRows(c) ==
  /\ conn' = [conn EXCEPT ![c] = "resetting"]
  /\ holder' = [holder EXCEPT ![c] = NoRequest]
  /\ UNCHANGED session

(* A connection that was closed under the query is dropped by the pool.     *)
Destroy(c) ==
  /\ conn' = [conn EXCEPT ![c] = "absent"]
  /\ holder' = [holder EXCEPT ![c] = NoRequest]
  /\ session' = [session EXCEPT ![c] = FreshSession]

(* What running a query leaves in its session: pgx prepares and caches the  *)
(* statement, and SQL typed by the user may also change settings or take    *)
(* session locks through functions, which the guard lets pass.              *)
SessionAfter(q, s) ==
  {[s EXCEPT !.prepared = TRUE, !.cached = TRUE]}
    \cup (IF q = "sql"
          THEN {[s EXCEPT !.settings = "changed", !.prepared = TRUE, !.cached = TRUE]}
          ELSE {})

RunOn(r, c) ==
  /\ phase' = [phase EXCEPT ![r] = "reading"]
  /\ conn' = [conn EXCEPT ![c] = "busy"]
  /\ holder' = [holder EXCEPT ![c] = r]
  /\ \E s \in SessionAfter(Head(todo[r]), session[c]) :
       session' = [session EXCEPT ![c] = s]
  /\ UNCHANGED <<kind, todo, expired, slot>>

-----------------------------------------------------------------------------
(* Handler steps.                                                           *)

(* A request that passed its checks.  An export takes the slot without      *)
(* waiting; when it is taken the answer is 429 at once (ExportBusy).        *)
(* Requests refused earlier (unknown database, bad body, guard) touch       *)
(* nothing and are left out.                                                *)
Start(r, k) ==
  /\ phase[r] = "idle"
  /\ k = "export" => slot = NoRequest
  /\ \E p \in Plans(k) : todo' = [todo EXCEPT ![r] = p]
  /\ kind' = [kind EXCEPT ![r] = k]
  /\ phase' = [phase EXCEPT ![r] = "waiting"]
  /\ slot' = IF k = "export" THEN r ELSE slot
  /\ UNCHANGED <<expired, conn, holder, session>>

ExportBusy(r) ==
  /\ phase[r] = "idle"
  /\ slot # NoRequest
  /\ kind' = [kind EXCEPT ![r] = "export"]
  /\ Answer(r)
  /\ UNCHANGED <<conn, holder, session>>

(* handleExport has the slot but cannot make its spool file: it answers     *)
(* before any query runs.                                                   *)
SpoolFails(r) ==
  /\ phase[r] = "waiting"
  /\ kind[r] = "export"
  /\ Answer(r)
  /\ UNCHANGED <<kind, conn, holder, session>>

(* The context of a request ends: queryWait elapsed or the client left.     *)
Expire(r) ==
  /\ phase[r] # "idle"
  /\ expired' = expired \cup {r}
  /\ UNCHANGED <<kind, phase, todo, slot, conn, holder, session>>

(* pool.Query finds an idle connection.                                     *)
Acquire(r, c) ==
  /\ phase[r] = "waiting"
  /\ r \notin expired
  /\ conn[c] = "idle"
  /\ RunOn(r, c)

(* pool.Query finds none idle and the pool is not full: it opens one.       *)
Dial(r, c) ==
  /\ phase[r] = "waiting"
  /\ r \notin expired
  /\ \A d \in Conn : conn[d] # "idle"
  /\ conn[c] = "absent"
  /\ phase' = [phase EXCEPT ![r] = "dialing"]
  /\ conn' = [conn EXCEPT ![c] = "connecting"]
  /\ holder' = [holder EXCEPT ![c] = r]
  /\ UNCHANGED <<kind, todo, expired, slot, session>>

(* The context ends while the request waits for a connection.  One that is  *)
(* being opened for it stays with the pool.                                 *)
GiveUp(r) ==
  /\ phase[r] \in {"waiting", "dialing"}
  /\ r \in expired
  /\ Answer(r)
  /\ holder' = [c \in Conn |-> IF holder[c] = r THEN NoRequest ELSE holder[c]]
  /\ UNCHANGED <<kind, conn, session>>

(* There is a query after the current one; the mutant miscounts.            *)
MoreThanNone(r) == Len(todo[r]) >= 1
MoreQueries(r) == Len(todo[r]) > 1

(* CSV goes to a spool file first, and from there to the client.            *)
Spools(r) == kind[r] \in {"export", "csv"}

(* The rows are read, or reading stops early at the row cap or the byte     *)
(* budget; Close drains the rest.  The handler goes on to its next query,   *)
(* to sending its spool file, or answers.                                   *)
QueryDone(r, c) ==
  /\ phase[r] = "reading"
  /\ holder[c] = r
  /\ CloseRows(c)
  /\ \/ /\ MoreQueries(r)
        /\ todo' = [todo EXCEPT ![r] = Tail(@)]
        /\ phase' = [phase EXCEPT ![r] = "waiting"]
        /\ UNCHANGED <<expired, slot>>
     \/ /\ ~MoreQueries(r) /\ Spools(r)
        /\ phase' = [phase EXCEPT ![r] = "copying"]
        /\ UNCHANGED <<todo, expired, slot>>
     \/ /\ ~MoreQueries(r) /\ ~Spools(r)
        /\ Answer(r)
  /\ UNCHANGED kind

(* The spool file is closed and copied to the client, to its end or until   *)
(* one of the two fails.  An export has the slot until then.                *)
Copied(r) ==
  /\ phase[r] = "copying"
  /\ Answer(r)
  /\ UNCHANGED <<kind, conn, holder, session>>

(* Mutant of QueryFails: an error return placed before the deferred Close.  *)
FailWithRowsOpen(r, c) ==
  /\ phase[r] = "reading"
  /\ holder[c] = r
  /\ Answer(r)
  /\ UNCHANGED <<kind, conn, holder, session>>

(* PostgreSQL refuses the query, a statement times out there, a value       *)
(* cannot be read, a column is unknown, a cell's hash has changed, or the   *)
(* spool file of a CSV page cannot be made once the page is read: the       *)
(* handler answers with an error, the rows being closed on the way out.     *)
QueryFails(r, c) ==
  /\ phase[r] = "reading"
  /\ holder[c] = r
  /\ CloseRows(c)
  /\ Answer(r)
  /\ UNCHANGED kind

(* The connection fails under the query, or pgx closes it because the       *)
(* request's context ended.                                                 *)
ConnectionLost(r, c) ==
  /\ phase[r] = "reading"
  /\ holder[c] = r
  /\ Destroy(c)
  /\ Answer(r)
  /\ UNCHANGED kind

-----------------------------------------------------------------------------
(* Pool steps.                                                              *)

(* A connection is open.  The request it was opened for takes it, unless    *)
(* that request gave up: then it joins the idle ones.                       *)
Connected(c) ==
  /\ conn[c] = "connecting"
  /\ IF holder[c] = NoRequest
     THEN /\ conn' = [conn EXCEPT ![c] = "idle"]
          /\ UNCHANGED <<kind, phase, todo, expired, slot, holder, session>>
     ELSE RunOn(holder[c], c)

(* It could not be opened: refused, or BeforeConnect could not mint the     *)
(* IAM token.  The request it was opened for answers with an error.         *)
ConnectFails(c) ==
  /\ conn[c] = "connecting"
  /\ Destroy(c)
  /\ IF holder[c] = NoRequest
     THEN UNCHANGED <<phase, todo, expired, slot>>
     ELSE Answer(holder[c])
  /\ UNCHANGED kind

(* Mutant of ResetDeallocate: DISCARD ALL is not sent.                      *)
DeallocateOnly(c) ==
  /\ conn[c] = "resetting"
  /\ conn' = [conn EXCEPT ![c] = "idle"]
  /\ session' = [session EXCEPT ![c].prepared = FALSE, ![c].cached = FALSE]
  /\ UNCHANGED <<kind, phase, todo, expired, slot, holder>>

(* resetSession, first half: DeallocateAll forgets the client's cache and   *)
(* the server's statements.                                                 *)
ResetDeallocate(c) ==
  /\ conn[c] = "resetting"
  /\ conn' = [conn EXCEPT ![c] = "discarding"]
  /\ session' = [session EXCEPT ![c].prepared = FALSE, ![c].cached = FALSE]
  /\ UNCHANGED <<kind, phase, todo, expired, slot, holder>>

(* resetSession, second half: DISCARD ALL puts the settings back, drops     *)
(* statements and locks, and the connection is lent again.                  *)
ResetDiscard(c) ==
  /\ conn[c] = "discarding"
  /\ conn' = [conn EXCEPT ![c] = "idle"]
  /\ session' = [session EXCEPT ![c].settings = "startup", ![c].prepared = FALSE]
  /\ UNCHANGED <<kind, phase, todo, expired, slot, holder>>

(* Either half fails or takes more than five seconds: resetSession is       *)
(* false and the pool drops the connection.                                 *)
ResetFails(c) ==
  /\ conn[c] \in {"resetting", "discarding"}
  /\ Destroy(c)
  /\ UNCHANGED <<kind, phase, todo, expired, slot>>

(* The pool closes a connection that has been idle or open for too long.    *)
Retire(c) ==
  /\ conn[c] = "idle"
  /\ Destroy(c)
  /\ UNCHANGED <<kind, phase, todo, expired, slot>>

-----------------------------------------------------------------------------
HandlerStep(r) ==
  \/ \E k \in Kind : Start(r, k)
  \/ ExportBusy(r)
  \/ SpoolFails(r)
  \/ Expire(r)
  \/ GiveUp(r)
  \/ Copied(r)
  \/ \E c \in Conn :
       \/ Acquire(r, c)
       \/ Dial(r, c)
       \/ QueryDone(r, c)
       \/ QueryFails(r, c)
       \/ ConnectionLost(r, c)

PoolStep(c) ==
  \/ Connected(c)
  \/ ConnectFails(c)
  \/ ResetDeallocate(c)
  \/ ResetDiscard(c)
  \/ ResetFails(c)
  \/ Retire(c)

Next ==
  \/ \E r \in Request : HandlerStep(r)
  \/ \E c \in Conn : PoolStep(c)

Spec == Init /\ [][Next]_vars

(* Fairness the code justifies: statement_timeout ends every statement, so  *)
(* an open query finishes one way or another; connecting and resetting are  *)
(* bounded by their own timeouts, and copying to a client by the server's   *)
(* write timeout; the pool serves waiting acquirers in arrival order, so    *)
(* one that could be served again and again is served.                      *)
(* Contexts need not expire and clients need not send requests.             *)
Finishes(r, c) == QueryDone(r, c) \/ QueryFails(r, c) \/ ConnectionLost(r, c)

Fairness ==
  /\ \A r \in Request :
       /\ WF_vars(\E c \in Conn : Finishes(r, c))
       /\ WF_vars(GiveUp(r))
       /\ WF_vars(Copied(r))
       /\ SF_vars(\E c \in Conn : Acquire(r, c) \/ Dial(r, c))
  /\ \A c \in Conn :
       /\ WF_vars(Connected(c) \/ ConnectFails(c))
       /\ WF_vars(ResetDeallocate(c) \/ ResetDiscard(c) \/ ResetFails(c))

FairSpec == Spec /\ Fairness

-----------------------------------------------------------------------------
(* Every variable has its type, and a handler at work always has a query    *)
(* left to run: none lingers after its last one.                            *)
TypeOK ==
  /\ kind \in [Request -> Kind]
  /\ phase \in [Request -> Phase]
  /\ todo \in [Request -> Seq(Query)]
  /\ expired \subseteq Request
  /\ slot \in Request \cup {NoRequest}
  /\ conn \in [Conn -> ConnPhase]
  /\ holder \in [Conn -> Request \cup {NoRequest}]
  /\ session \in [Conn -> Session]
  /\ \A r \in Request : phase[r] = "idle" <=> todo[r] = <<>>

(* A request never holds two connections: tableSQL closes the rows of the   *)
(* column query before the page is asked for, the CSV export those of the   *)
(* page before a cell is fetched again.  Were it not so, MaxConns requests  *)
(* could each hold one and wait for a second forever.                       *)
OneConnectionPerRequest ==
  \A c, d \in Conn : holder[c] = holder[d] /\ holder[c] # NoRequest => c = d

(* Whatever way a handler returns (answer, error, early stop, lost client)  *)
(* nothing stays with it: no connection is busy or being opened for it.     *)
(* And a busy connection always has a live request reading from it.         *)
NothingHeldAfterAnswer ==
  /\ \A c \in Conn : holder[c] # NoRequest => phase[holder[c]] \in {"dialing", "reading"}
  /\ \A c \in Conn : conn[c] = "busy" => holder[c] # NoRequest

(* A connection on offer is as good as new: settings of one request never   *)
(* reach another, and the client's statement cache never names a statement  *)
(* the server has dropped.  AfterRelease and resetSession see to that.      *)
OfferedSessionsClean ==
  \A c \in Conn : conn[c] = "idle" => session[c] = FreshSession

(* The export slot is held exactly by an export in progress, from before    *)
(* its query to the end of the copy, so a second export is refused only     *)
(* while one runs, at most one connection serves exports, and no error      *)
(* path loses the slot for good.                                            *)
SlotHeldByLiveExport ==
  \A r \in Request : slot = r <=> (kind[r] = "export" /\ phase[r] # "idle")

(* Every request is answered even if no context ever expires: waiting for   *)
(* connections cannot go round in a circle, however small the pool.         *)
EveryRequestAnswered ==
  \A r \in Request : phase[r] # "idle" ~> phase[r] = "idle"

(* The pool implements SessionLease: a session is lent to one request at a  *)
(* time and only when nothing of an earlier request is left in it.          *)
Lease == INSTANCE SessionLease
  WITH lease   <- [c \in Conn |-> IF conn[c] = "busy" THEN holder[c] ELSE NoRequest],
       tainted <- {c \in Conn : session[c] # FreshSession}

LendsCleanSessions == Lease!LeaseSpec
=============================================================================
