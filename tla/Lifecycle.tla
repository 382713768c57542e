------------------------------ MODULE Lifecycle ------------------------------
(***************************************************************************)
(* The life of the server process: main.run opens a pool for each database *)
(* and the store, serves, and on a signal or an error closes what it has   *)
(* opened, while handlers may still be at work.                            *)
(***************************************************************************)
EXTENDS Naturals, Sequences

CONSTANTS
  N,           \* number of configured databases
  Handler      \* handler goroutines

ASSUME LifecycleAssumption == N \in Nat \ {0}

VARIABLES
  stage,       \* where run is
  signalled,   \* SIGINT or SIGTERM arrived: signalCtx is done
  deferred,    \* what run or closeEntries will close, the last first; 0 is the store
  pool,        \* pool[p]: state of the pool of database p
  store,       \* state of the SQLite store
  handler,     \* handler[h]: what h is doing
  target,      \* target[h]: the database h works on, 0 for the store
  abrupt,      \* serving ended by a listener error or a grace period that was too short
  cut          \* handlers that met a closed pool or store (history)

vars == <<stage, signalled, deferred, pool, store, handler, target, abrupt, cut>>
world == <<signalled, handler, target, abrupt, cut>>

-----------------------------------------------------------------------------
Db == 1..N

Stage == {"connecting", "opening", "seeding", "serving", "draining", "closing", "exited"}

Init ==
  /\ stage = "connecting"
  /\ signalled = FALSE
  /\ deferred = <<>>
  /\ pool = [p \in Db |-> "none"]
  /\ store = "none"
  /\ handler = [h \in Handler |-> "idle"]
  /\ target = [h \in Handler |-> 0]
  /\ abrupt = FALSE
  /\ cut = {}

-----------------------------------------------------------------------------
(* Start.                                                                   *)

Signal ==
  /\ stage # "exited"
  /\ signalled' = TRUE
  /\ UNCHANGED <<stage, deferred, pool, store, handler, target, abrupt, cut>>

(* p is the database run is at: those before it are connected.              *)
Connecting(p) == stage = "connecting" /\ p = Len(deferred) + 1

(* db.New makes the pool, before it pings.                                  *)
NewPool(p) ==
  /\ Connecting(p)
  /\ pool[p] = "none"
  /\ pool' = [pool EXCEPT ![p] = "open"]
  /\ UNCHANGED <<stage, deferred, store>>
  /\ UNCHANGED world

(* The ping succeeds and the pool is entered; after the last one run defers *)
(* registry.Close, which closes them as closeEntries does.                  *)
Connect(p) ==
  /\ Connecting(p)
  /\ pool[p] = "open"
  /\ ~signalled
  /\ deferred' = Append(deferred, p)
  /\ stage' = IF p = N THEN "opening" ELSE stage
  /\ UNCHANGED <<pool, store>>
  /\ UNCHANGED world

(* Mutant of ConnectFails: the pool that was not entered stays open.        *)
ConnectFailsOnly(p) ==
  /\ Connecting(p)
  /\ stage' = "closing"
  /\ UNCHANGED <<deferred, pool, store>>
  /\ UNCHANGED world

(* The DSN or the IAM provider is refused, or the ping fails, as it does    *)
(* after a signal: db.New closes the pool it made and closeEntries the      *)
(* others.                                                                  *)
ConnectFails(p) ==
  /\ Connecting(p)
  /\ stage' = "closing"
  /\ pool' = IF pool[p] = "open" THEN [pool EXCEPT ![p] = "closed"] ELSE pool
  /\ UNCHANGED <<deferred, store>>
  /\ UNCHANGED world

OpenStore ==
  /\ stage = "opening"
  /\ store' = "open"
  /\ deferred' = Append(deferred, 0)
  /\ stage' = "seeding"
  /\ UNCHANGED pool
  /\ UNCHANGED world

(* store.Open closes the file itself when the migration fails.              *)
OpenStoreFails ==
  /\ stage = "opening"
  /\ stage' = "closing"
  /\ UNCHANGED <<deferred, pool, store>>
  /\ UNCHANGED world

(* SeedPresets; its error is logged only.                                   *)
Seeded ==
  /\ stage = "seeding"
  /\ stage' = "serving"
  /\ UNCHANGED <<deferred, pool, store>>
  /\ UNCHANGED world

-----------------------------------------------------------------------------
(* serve.                                                                   *)

(* The signal: Shutdown closes the listener and waits for the handlers.     *)
Drain ==
  /\ stage = "serving"
  /\ signalled
  /\ stage' = "draining"
  /\ UNCHANGED <<deferred, pool, store>>
  /\ UNCHANGED world

(* Mutant of Drained: handlers are not waited for.                          *)
DrainedAtOnce ==
  /\ stage = "draining"
  /\ stage' = "closing"
  /\ UNCHANGED <<deferred, pool, store>>
  /\ UNCHANGED world

Drained ==
  /\ stage = "draining"
  /\ \A h \in Handler : handler[h] = "idle"
  /\ stage' = "closing"
  /\ UNCHANGED <<deferred, pool, store>>
  /\ UNCHANGED world

(* Mutant of GraceOver: the shutdown context has no deadline.               *)
NoDeadline ==
  /\ stage = "draining"
  /\ FALSE
  /\ UNCHANGED vars

(* ShutdownTimeout elapsed with handlers still at work.                     *)
GraceOver ==
  /\ stage = "draining"
  /\ stage' = "closing"
  /\ abrupt' = TRUE
  /\ UNCHANGED <<signalled, deferred, pool, store, handler, target, cut>>

(* The listener fails: serve returns without a shutdown.                    *)
ListenFails ==
  /\ stage = "serving"
  /\ stage' = "closing"
  /\ abrupt' = TRUE
  /\ UNCHANGED <<signalled, deferred, pool, store, handler, target, cut>>

-----------------------------------------------------------------------------
(* The deferred calls of run, or closeEntries, last in first out.           *)

Closing(x) ==
  /\ stage = "closing"
  /\ deferred # <<>>
  /\ deferred[Len(deferred)] = x

(* Mutant of Closed: first in, first out.                                   *)
ClosedFirst == deferred' = Tail(deferred)

Closed == deferred' = SubSeq(deferred, 1, Len(deferred) - 1)

CloseStore ==
  /\ Closing(0)
  /\ store' = "closed"
  /\ Closed
  /\ UNCHANGED <<stage, pool>>
  /\ UNCHANGED world

Holders(p) == {h \in Handler : handler[h] = "querying" /\ target[h] = p}

(* Pool.Close: nobody is served any more; connections in use are waited     *)
(* for.                                                                     *)
ClosePool(p) ==
  /\ Closing(p)
  /\ pool[p] = "open"
  /\ pool' = [pool EXCEPT ![p] = "closing"]
  /\ UNCHANGED <<stage, deferred, store>>
  /\ UNCHANGED world

PoolClosed(p) ==
  /\ Closing(p)
  /\ pool[p] = "closing"
  /\ Holders(p) = {}
  /\ pool' = [pool EXCEPT ![p] = "closed"]
  /\ Closed
  /\ UNCHANGED <<stage, store>>
  /\ UNCHANGED world

(* run returns and the process ends, whatever the handlers are doing.       *)
Exit ==
  /\ stage = "closing"
  /\ deferred = <<>>
  /\ stage' = "exited"
  /\ UNCHANGED <<deferred, pool, store>>
  /\ UNCHANGED world

-----------------------------------------------------------------------------
(* Handlers.                                                                *)

Alive == stage # "exited"
Moves(h, state) ==
  /\ handler' = [handler EXCEPT ![h] = state]
  /\ UNCHANGED <<stage, signalled, deferred, pool, store, target, abrupt>>

(* A request starts.  One may still do so after the listener closed, on a   *)
(* connection accepted before; when Shutdown saw the connections idle it    *)
(* has closed them.                                                         *)
Begin(h, p) ==
  /\ stage \in {"serving", "draining"} \/ (stage = "closing" /\ abrupt)
  /\ handler[h] = "idle"
  /\ handler' = [handler EXCEPT ![h] = "receiving"]
  /\ target' = [target EXCEPT ![h] = p]
  /\ UNCHANGED <<stage, signalled, deferred, pool, store, abrupt, cut>>

(* Its body has been read.  Nothing bounds how long a client takes to send  *)
(* it: the server sets ReadHeaderTimeout, WriteTimeout and IdleTimeout.     *)
Received(h) ==
  /\ Alive
  /\ handler[h] = "receiving"
  /\ Moves(h, "working")
  /\ UNCHANGED cut

(* pool.Query, or the statement on the store.                               *)
Query(h) ==
  /\ Alive
  /\ handler[h] = "working"
  /\ IF target[h] = 0 THEN store = "open" ELSE pool[target[h]] = "open"
  /\ Moves(h, "querying")
  /\ UNCHANGED cut

(* What it needs is closed: the handler answers with an error.              *)
QueryRefused(h) ==
  /\ Alive
  /\ handler[h] = "working"
  /\ IF target[h] = 0 THEN store = "closed" ELSE pool[target[h]] \in {"closing", "closed"}
  /\ Moves(h, "idle")
  /\ cut' = cut \cup {h}

(* The query ends: the handler answers or has another one to run.           *)
Queried(h) ==
  /\ Alive
  /\ handler[h] = "querying"
  /\ Moves(h, "working")
  /\ UNCHANGED cut

Answer(h) ==
  /\ Alive
  /\ handler[h] \in {"receiving", "working"}
  /\ Moves(h, "idle")
  /\ UNCHANGED cut

-----------------------------------------------------------------------------
Start ==
  \/ \E p \in Db : NewPool(p) \/ Connect(p) \/ ConnectFails(p)
  \/ OpenStore
  \/ OpenStoreFails
  \/ Seeded

Stop ==
  \/ Drain
  \/ Drained
  \/ GraceOver
  \/ CloseStore
  \/ \E p \in Db : ClosePool(p) \/ PoolClosed(p)
  \/ Exit

HandlerStep(h) ==
  \/ \E p \in 0..N : Begin(h, p)
  \/ Received(h)
  \/ Query(h)
  \/ QueryRefused(h)
  \/ Queried(h)
  \/ Answer(h)

Next ==
  \/ Signal
  \/ Start
  \/ Stop
  \/ ListenFails
  \/ \E h \in Handler : HandlerStep(h)

Spec == Init /\ [][Next]_vars

(* run goes on while it can, and a query ends (statement_timeout, and the   *)
(* deadline of the handler's context).  No handler need receive its         *)
(* request, or be done with it.                                             *)
Fairness ==
  /\ WF_vars(Start)
  /\ WF_vars(Stop)
  /\ \A h \in Handler : WF_vars(Queried(h))

FairSpec == Spec /\ Fairness

-----------------------------------------------------------------------------
(* Types; and run defers each pool, in order, and then the store.           *)
TypeOK ==
  /\ stage \in Stage
  /\ {signalled, abrupt} \subseteq BOOLEAN
  /\ deferred \in Seq(0..N)
  /\ Len(deferred) <= N + 1
  /\ \A i \in 1..Len(deferred) : deferred[i] = IF i = N + 1 THEN 0 ELSE i
  /\ pool \in [Db -> {"none", "open", "closing", "closed"}]
  /\ store \in {"none", "open", "closed"}
  /\ handler \in [Handler -> {"idle", "receiving", "working", "querying"}]
  /\ target \in [Handler -> 0..N]
  /\ cut \subseteq Handler

(* Whichever way run returns (a database or the store that cannot be        *)
(* opened, a listener that fails, a signal at any moment), it has closed    *)
(* every pool db.New made and the store: what is not yet in the list that   *)
(* closeEntries and the deferred calls go through closes itself.            *)
ExitLeavesNothingOpen ==
  stage = "exited" =>
    /\ store \in {"none", "closed"}
    /\ \A p \in Db : pool[p] \in {"none", "closed"}

(* A handler that was begun is served in full: it finds the store and the   *)
(* pools open to its end, unless the grace period of the shutdown was too   *)
(* short for it or the listener failed.  The order of the deferred calls,   *)
(* after Shutdown, sees to that.                                            *)
ServedInFull == cut # {} => abrupt

(* After a signal the process ends, even if a client never finishes sending *)
(* its request: Shutdown gives up after the grace period, and the pools     *)
(* wait for queries only.                                                   *)
SignalEndsProcess == signalled ~> stage = "exited"
=============================================================================
