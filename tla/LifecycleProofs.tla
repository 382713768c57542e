--------------------------- MODULE LifecycleProofs ---------------------------
(***************************************************************************)
(* Lifecycle for any number of databases and handlers: run closes all it    *)
(* opened, and unless the shutdown was cut short no handler loses what it   *)
(* works with.                                                              *)
(***************************************************************************)
EXTENDS Lifecycle, SequenceTheorems, TLAPS

Started == {"serving", "draining"}
Ending == {"closing", "exited"}

(* How far run is tells what it has deferred.                               *)
StageInv ==
  /\ stage = "connecting" => Len(deferred) < N
  /\ stage = "opening" => Len(deferred) = N
  /\ stage \in Started \cup {"seeding"} => Len(deferred) = N + 1
  /\ stage = "exited" => deferred = <<>>

(* What is deferred is open, the pool that is being closed apart; what is   *)
(* not is not open, the pool that is being pinged apart.                    *)
ResourceInv ==
  /\ store = "open" <=> Len(deferred) = N + 1
  /\ store = "closed" => stage \in Ending
  /\ \A p \in Db :
       /\ p <= Len(deferred) =>
            pool[p] = "open" \/ (pool[p] = "closing" /\ stage = "closing" /\ p = Len(deferred))
       /\ p > Len(deferred) =>
            \/ pool[p] \in {"none", "closed"}
            \/ pool[p] = "open" /\ stage = "connecting" /\ p = Len(deferred) + 1

(* Handlers run between the start and the end; past the end only when the   *)
(* end was abrupt.                                                          *)
HandlerInv ==
  \A h \in Handler :
    handler[h] # "idle" => stage \in Started \/ (abrupt /\ stage \in Ending)

IInv ==
  /\ TypeOK
  /\ StageInv
  /\ ResourceInv
  /\ HandlerInv
  /\ ServedInFull

-----------------------------------------------------------------------------
(* All but the last element.                                                *)
LEMMA DropLast ==
  ASSUME NEW S, NEW s \in Seq(S), s # <<>>
  PROVE  /\ SubSeq(s, 1, Len(s) - 1) \in Seq(S)
         /\ Len(SubSeq(s, 1, Len(s) - 1)) = Len(s) - 1
         /\ \A i \in 1..(Len(s) - 1) : SubSeq(s, 1, Len(s) - 1)[i] = s[i]
<1>1. Len(s) \in Nat \ {0}
  BY EmptySeq, LenProperties
<1>2. \A i \in 1..(Len(s) - 1) : s[i] \in S
  BY <1>1, ElementOfSeq
<1> DEFINE m == Len(s) - 1
<1>3. m \in Int /\ 1 \in Int /\ \A i \in 1..m : s[i] \in S
  BY <1>1, <1>2
<1>4. /\ SubSeq(s, 1, m) \in Seq(S)
      /\ Len(SubSeq(s, 1, m)) = IF 1 <= m THEN m - 1 + 1 ELSE 0
      /\ \A i \in 1..(m - 1 + 1) : SubSeq(s, 1, m)[i] = s[1 + i - 1]
  <2> HIDE DEF m
  <2> QED
    BY <1>3, SubSeqProperties
<1>5. m \in Nat /\ Len(SubSeq(s, 1, m)) = m
  <2>1. m \in Nat
    BY <1>1
  <2> HIDE DEF m
  <2>2. (IF 1 <= m THEN m - 1 + 1 ELSE 0) = m
    BY <2>1
  <2>3. Len(SubSeq(s, 1, m)) = IF 1 <= m THEN m - 1 + 1 ELSE 0
    BY <1>4
  <2> QED
    BY <2>1, <2>2, <2>3
<1>6. ASSUME NEW i \in 1..m PROVE SubSeq(s, 1, m)[i] = s[i]
  <2>1. m - 1 + 1 = m /\ 1 + i - 1 = i
    BY <1>5
  <2> HIDE DEF m
  <2> QED
    BY <1>4, <2>1
<1> QED
  BY <1>4, <1>5, <1>6

(* The last of what is deferred is the store or the pool of that number.    *)
LEMMA ClosingIsLast ==
  ASSUME TypeOK, NEW x \in 0..N, Closing(x)
  PROVE  /\ Len(deferred) \in 1..(N + 1)
         /\ x = 0 => Len(deferred) = N + 1
         /\ x # 0 => x = Len(deferred)
<1>1. Len(deferred) \in Nat \ {0}
  BY EmptySeq, LenProperties DEF TypeOK, Closing
<1>2. deferred[Len(deferred)] = IF Len(deferred) = N + 1 THEN 0 ELSE Len(deferred)
  BY <1>1 DEF TypeOK
<1> QED
  BY <1>1, <1>2, LifecycleAssumption DEF TypeOK, Closing

LEMMA InitIInv == Init => IInv
<1> SUFFICES ASSUME Init PROVE IInv
  OBVIOUS
<1> USE LifecycleAssumption DEF Init, Db
<1>1. deferred \in Seq(0..N) /\ Len(deferred) = 0
  OBVIOUS
<1>2. \A i \in 1..Len(deferred) : deferred[i] = IF i = N + 1 THEN 0 ELSE i
  BY <1>1
<1>3. handler \in [Handler -> {"idle", "receiving", "working", "querying"}]
      /\ target \in [Handler -> 0..N]
  OBVIOUS
<1>4. pool \in [Db -> {"none", "open", "closing", "closed"}]
  OBVIOUS
<1>5. /\ stage \in Stage /\ {signalled, abrupt} \subseteq BOOLEAN
      /\ Len(deferred) <= N + 1 /\ store \in {"none", "open", "closed"} /\ cut \subseteq Handler
  <2>1. stage \in Stage
    BY DEF Stage
  <2>2. {signalled, abrupt} \subseteq BOOLEAN
    OBVIOUS
  <2>3. Len(deferred) <= N + 1
    BY <1>1
  <2>4. store \in {"none", "open", "closed"} /\ cut \subseteq Handler
    OBVIOUS
  <2> QED
    BY <2>1, <2>2, <2>3, <2>4
<1>6. TypeOK
  <2> HIDE DEF Init
  <2> QED
    BY <1>1, <1>2, <1>3, <1>4, <1>5 DEF TypeOK
<1> QED
  BY <1>1, <1>6 DEF IInv, StageInv, ResourceInv, HandlerInv, ServedInFull, Started, Ending

(* A step of run that opens and closes nothing, and drops no handler.       *)
LEMMA StageStep ==
  ASSUME IInv, UNCHANGED <<deferred, pool, store, handler, target, cut>>,
         signalled' \in BOOLEAN, abrupt' \in BOOLEAN, abrupt => abrupt',
         stage' \in Stage, StageInv', HandlerInv',
         stage # "connecting" \/ pool[Len(deferred) + 1] # "open" \/ stage' = stage,
         stage # "closing" \/ stage' = stage \/ deferred = <<>>,
         stage \in Ending => stage' \in Ending
  PROVE  IInv'
<1> USE LifecycleAssumption DEF IInv, Db
<1>1. TypeOK'
  BY DEF TypeOK
<1>2. Len(deferred) \in Nat
  BY LenProperties DEF TypeOK
<1>3. ResourceInv'
  BY <1>2, EmptySeq DEF ResourceInv, TypeOK
<1> QED
  BY <1>1, <1>3 DEF ServedInFull

(* A step of a handler.                                                     *)
LEMMA HandlerIInv ==
  ASSUME IInv, NEW h \in Handler, HandlerStep(h)
  PROVE  IInv'
<1> USE LifecycleAssumption DEF IInv, Db
<1>1. UNCHANGED <<stage, signalled, deferred, pool, store, abrupt>>
  BY DEF HandlerStep, Begin, Received, Query, QueryRefused, Queried, Answer, Moves
<1>2. StageInv'
  BY <1>1 DEF StageInv
<1>3. ResourceInv'
  BY <1>1 DEF ResourceInv
<1>4. ASSUME NEW p \in 0..N, Begin(h, p) PROVE IInv'
  <2>1. TypeOK'
    BY <1>1, <1>4 DEF TypeOK, Begin
  <2>2. HandlerInv'
    BY <1>4 DEF HandlerInv, Begin, TypeOK, Started, Ending
  <2> QED
    BY <1>2, <1>3, <1>4, <2>1, <2>2 DEF Begin, ServedInFull
<1>5. ASSUME handler[h] # "idle", NEW state \in {"idle", "working", "querying"},
             Moves(h, state), cut' = cut \/ (cut' = cut \cup {h} /\ abrupt)
      PROVE  IInv'
  <2>1. TypeOK'
    BY <1>1, <1>5 DEF TypeOK, Moves
  <2>2. HandlerInv'
    BY <1>1, <1>5 DEF HandlerInv, Moves, TypeOK
  <2> QED
    BY <1>1, <1>2, <1>3, <1>5, <2>1, <2>2 DEF ServedInFull
<1>6. CASE QueryRefused(h)
  <2>1. handler[h] = "working" /\ Moves(h, "idle") /\ cut' = cut \cup {h}
    BY <1>6 DEF QueryRefused
  <2>2. stage \notin Started
    <3> SUFFICES ASSUME stage \in Started PROVE FALSE
      OBVIOUS
    <3>1. Len(deferred) = N + 1
      BY DEF StageInv
    <3>2. store = "open" /\ \A p \in Db : pool[p] = "open"
      BY <3>1 DEF ResourceInv, Started
    <3>3. target[h] = 0 \/ target[h] \in Db
      BY DEF TypeOK
    <3> QED
      BY <1>6, <3>2, <3>3 DEF QueryRefused
  <2>3. abrupt
    BY <2>1, <2>2 DEF HandlerInv
  <2> QED
    BY <1>5, <2>1, <2>3
<1>7. CASE Received(h) \/ Query(h) \/ Queried(h) \/ Answer(h)
  BY <1>5, <1>7 DEF Received, Query, Queried, Answer
<1> QED
  BY <1>4, <1>6, <1>7 DEF HandlerStep

(* The steps of run up to serving.                                          *)
LEMMA StartIInv == ASSUME IInv, Start PROVE IInv'
<1> USE LifecycleAssumption DEF IInv
<1>0. Len(deferred) \in Nat /\ deferred \in Seq(0..N)
  BY LenProperties DEF TypeOK
<1>1. ASSUME NEW p \in Db, NewPool(p) PROVE IInv'
  <2>1. /\ stage = "connecting" /\ p = Len(deferred) + 1 /\ pool[p] = "none"
        /\ pool' = [pool EXCEPT ![p] = "open"]
        /\ UNCHANGED <<stage, signalled, deferred, store, handler, target, abrupt, cut>>
    BY <1>1 DEF NewPool, Connecting, world
  <2>2. TypeOK'
    BY <2>1 DEF TypeOK
  <2>3. ResourceInv'
    BY <1>0, <2>1 DEF ResourceInv, TypeOK, Db
  <2> QED
    BY <2>1, <2>2, <2>3 DEF StageInv, HandlerInv, ServedInFull
<1>2. ASSUME NEW x \in 0..N, deferred' = Append(deferred, x),
             x = IF Len(deferred) = N THEN 0 ELSE Len(deferred) + 1,
             Len(deferred) <= N
      PROVE  /\ deferred' \in Seq(0..N) /\ Len(deferred') = Len(deferred) + 1
             /\ \A i \in 1..Len(deferred') : deferred'[i] = IF i = N + 1 THEN 0 ELSE i
  <2>1. /\ deferred' \in Seq(0..N)
        /\ Len(deferred') = Len(deferred) + 1
        /\ \A i \in 1..Len(deferred) : deferred'[i] = deferred[i]
        /\ deferred'[Len(deferred) + 1] = x
    BY <1>0, <1>2, AppendProperties
  <2> QED
    BY <1>0, <1>2, <2>1 DEF TypeOK
<1>3. ASSUME NEW p \in Db, Connect(p) PROVE IInv'
  <2>1. /\ stage = "connecting" /\ p = Len(deferred) + 1 /\ pool[p] = "open"
        /\ deferred' = Append(deferred, p)
        /\ stage' = IF p = N THEN "opening" ELSE stage
        /\ UNCHANGED <<signalled, pool, store, handler, target, abrupt, cut>>
    BY <1>3 DEF Connect, Connecting, world
  <2>2. p \in 0..N /\ Len(deferred) < N
    BY <2>1 DEF StageInv, Db
  <2>3. /\ deferred' \in Seq(0..N) /\ Len(deferred') = Len(deferred) + 1
        /\ \A i \in 1..Len(deferred') : deferred'[i] = IF i = N + 1 THEN 0 ELSE i
    BY <1>0, <1>2, <2>1, <2>2
  <2>4. TypeOK'
    BY <1>0, <2>1, <2>2, <2>3 DEF TypeOK, Stage
  <2>5. StageInv'
    BY <1>0, <2>1, <2>2, <2>3 DEF StageInv, Started
  <2>6. ResourceInv'
    BY <1>0, <2>1, <2>2, <2>3 DEF ResourceInv, TypeOK, Db, Ending
  <2>7. HandlerInv'
    BY <2>1 DEF HandlerInv, Started, Ending
  <2> QED
    BY <2>1, <2>4, <2>5, <2>6, <2>7 DEF ServedInFull
<1>4. ASSUME NEW p \in Db, ConnectFails(p) PROVE IInv'
  <2>1. /\ stage = "connecting" /\ p = Len(deferred) + 1
        /\ stage' = "closing"
        /\ pool' = IF pool[p] = "open" THEN [pool EXCEPT ![p] = "closed"] ELSE pool
        /\ UNCHANGED <<signalled, deferred, store, handler, target, abrupt, cut>>
    BY <1>4 DEF ConnectFails, Connecting, world
  <2>2. TypeOK'
    BY <2>1 DEF TypeOK, Stage
  <2>3. StageInv'
    BY <2>1 DEF StageInv, Started
  <2>4. ResourceInv'
    BY <1>0, <2>1 DEF ResourceInv, TypeOK, Db, Ending
  <2>5. HandlerInv'
    BY <2>1 DEF HandlerInv, Started, Ending
  <2> QED
    BY <2>1, <2>2, <2>3, <2>4, <2>5 DEF ServedInFull
<1>5. CASE OpenStore
  <2>1. /\ stage = "opening" /\ store' = "open" /\ deferred' = Append(deferred, 0)
        /\ stage' = "seeding"
        /\ UNCHANGED <<signalled, pool, handler, target, abrupt, cut>>
    BY <1>5 DEF OpenStore, world
  <2>2. Len(deferred) = N
    BY <2>1 DEF StageInv
  <2>3. /\ deferred' \in Seq(0..N) /\ Len(deferred') = N + 1
        /\ \A i \in 1..Len(deferred') : deferred'[i] = IF i = N + 1 THEN 0 ELSE i
    BY <1>0, <1>2, <2>1, <2>2
  <2>4. TypeOK'
    BY <2>1, <2>3 DEF TypeOK, Stage
  <2>5. StageInv'
    BY <2>1, <2>3 DEF StageInv, Started
  <2>6. ResourceInv'
    BY <2>1, <2>2, <2>3 DEF ResourceInv, TypeOK, Db, Ending
  <2>7. HandlerInv'
    BY <2>1 DEF HandlerInv, Started, Ending
  <2> QED
    BY <2>1, <2>4, <2>5, <2>6, <2>7 DEF ServedInFull
<1>6. CASE OpenStoreFails \/ Seeded
  <2>1. /\ UNCHANGED <<signalled, deferred, pool, store, handler, target, abrupt, cut>>
        /\ \/ stage = "opening" /\ stage' = "closing"
           \/ stage = "seeding" /\ stage' = "serving"
    BY <1>6 DEF OpenStoreFails, Seeded, world
  <2>2. StageInv'
    BY <2>1 DEF StageInv, Started
  <2>3. HandlerInv'
    BY <2>1 DEF HandlerInv, Started, Ending
  <2>4. stage' \in Stage /\ signalled' \in BOOLEAN /\ abrupt' \in BOOLEAN
    BY <2>1 DEF Stage, TypeOK
  <2> QED
    BY <2>1, <2>2, <2>3, <2>4, StageStep DEF Ending
<1> QED
  BY <1>1, <1>3, <1>4, <1>5, <1>6 DEF Start

(* The end of serving, and the deferred calls.                              *)
LEMMA StopIInv == ASSUME IInv, Stop \/ ListenFails PROVE IInv'
<1> USE LifecycleAssumption DEF IInv
<1>0. Len(deferred) \in Nat /\ deferred \in Seq(0..N)
  BY LenProperties DEF TypeOK
<1>1. CASE Drain \/ Drained \/ GraceOver \/ ListenFails \/ Exit
  <2>1. /\ UNCHANGED <<signalled, deferred, pool, store, handler, target, cut>>
        /\ \/ stage = "serving" /\ stage' = "draining" /\ UNCHANGED abrupt
           \/ /\ stage = "draining" /\ stage' = "closing" /\ UNCHANGED abrupt
              /\ \A h \in Handler : handler[h] = "idle"
           \/ stage \in {"serving", "draining"} /\ stage' = "closing" /\ abrupt' = TRUE
           \/ stage = "closing" /\ deferred = <<>> /\ stage' = "exited" /\ UNCHANGED abrupt
    BY <1>1 DEF Drain, Drained, GraceOver, ListenFails, Exit, world
  <2>2. StageInv'
    BY <2>1 DEF StageInv, Started
  <2>3. HandlerInv'
    BY <2>1 DEF HandlerInv, Started, Ending
  <2>4. stage' \in Stage /\ signalled' \in BOOLEAN /\ abrupt' \in BOOLEAN
    BY <2>1 DEF Stage, TypeOK
  <2> QED
    BY <2>1, <2>2, <2>3, <2>4, StageStep DEF Ending
<1>2. ASSUME NEW x \in 0..N, Closing(x), Closed
      PROVE  /\ deferred' \in Seq(0..N) /\ Len(deferred') = Len(deferred) - 1
             /\ \A i \in 1..Len(deferred') : deferred'[i] = IF i = N + 1 THEN 0 ELSE i
  <2>1. deferred # <<>> /\ deferred' = SubSeq(deferred, 1, Len(deferred) - 1)
    BY <1>2 DEF Closing, Closed
  <2>2. /\ deferred' \in Seq(0..N) /\ Len(deferred') = Len(deferred) - 1
        /\ \A i \in 1..(Len(deferred) - 1) : deferred'[i] = deferred[i]
    BY <1>0, <2>1, DropLast
  <2> QED
    BY <1>0, <2>2 DEF TypeOK
<1>3. CASE CloseStore
  <2>1. /\ Closing(0) /\ stage = "closing" /\ store' = "closed" /\ Closed
        /\ UNCHANGED <<stage, signalled, pool, handler, target, abrupt, cut>>
    BY <1>3 DEF CloseStore, Closing, world
  <2>2. Len(deferred) = N + 1 /\ Len(deferred') = N
        /\ deferred' \in Seq(0..N)
        /\ \A i \in 1..Len(deferred') : deferred'[i] = IF i = N + 1 THEN 0 ELSE i
    BY <1>2, <2>1, ClosingIsLast
  <2>3. TypeOK'
    BY <2>1, <2>2 DEF TypeOK
  <2>4. StageInv'
    BY <2>1, <2>2 DEF StageInv, Started
  <2>5. \A p \in Db : pool[p] = "open" \/ (pool[p] = "closing" /\ p = N + 1)
    BY <2>2 DEF ResourceInv, Db
  <2>6. ResourceInv'
    BY <2>1, <2>2, <2>5 DEF ResourceInv, Db, Ending
  <2> QED
    BY <2>1, <2>3, <2>4, <2>6 DEF HandlerInv, ServedInFull
<1>4. ASSUME NEW p \in Db, ClosePool(p) PROVE IInv'
  <2>1. /\ Closing(p) /\ stage = "closing" /\ pool' = [pool EXCEPT ![p] = "closing"]
        /\ UNCHANGED <<stage, signalled, deferred, store, handler, target, abrupt, cut>>
    BY <1>4 DEF ClosePool, Closing, world
  <2>2. p = Len(deferred)
    BY <2>1, ClosingIsLast DEF Db
  <2>3. TypeOK'
    BY <2>1 DEF TypeOK
  <2>4. ResourceInv'
    BY <2>1, <2>2 DEF ResourceInv, TypeOK, Db
  <2> QED
    BY <2>1, <2>3, <2>4 DEF StageInv, HandlerInv, ServedInFull
<1>5. ASSUME NEW p \in Db, PoolClosed(p) PROVE IInv'
  <2>1. /\ Closing(p) /\ stage = "closing" /\ Closed
        /\ pool' = [pool EXCEPT ![p] = "closed"]
        /\ UNCHANGED <<stage, signalled, store, handler, target, abrupt, cut>>
    BY <1>5 DEF PoolClosed, Closing, world
  <2>2. p = Len(deferred) /\ p \in 0..N
    BY <2>1, ClosingIsLast DEF Db
  <2>3. /\ deferred' \in Seq(0..N) /\ Len(deferred') = Len(deferred) - 1
        /\ \A i \in 1..Len(deferred') : deferred'[i] = IF i = N + 1 THEN 0 ELSE i
    BY <1>2, <2>1, <2>2
  <2>4. TypeOK'
    BY <1>0, <2>1, <2>2, <2>3 DEF TypeOK
  <2>5. StageInv'
    BY <2>1 DEF StageInv, Started
  <2>6. ResourceInv'
    BY <1>0, <2>1, <2>2, <2>3 DEF ResourceInv, TypeOK, Db, Ending
  <2> QED
    BY <2>1, <2>4, <2>5, <2>6 DEF HandlerInv, ServedInFull
<1> QED
  BY <1>1, <1>3, <1>4, <1>5 DEF Stop

LEMMA NextIInv == IInv /\ [Next]_vars => IInv'
<1> SUFFICES ASSUME IInv, [Next]_vars PROVE IInv'
  OBVIOUS
<1>1. CASE Signal
  <2>1. UNCHANGED <<stage, deferred, pool, store, handler, target, abrupt, cut>>
        /\ signalled' = TRUE
    BY <1>1 DEF Signal
  <2> QED
    BY <2>1 DEF IInv, TypeOK, StageInv, ResourceInv, HandlerInv, ServedInFull
<1>2. CASE UNCHANGED vars
  BY <1>2 DEF vars, IInv, TypeOK, StageInv, ResourceInv, HandlerInv, ServedInFull
<1> QED
  BY <1>1, <1>2, StartIInv, StopIInv, HandlerIInv DEF Next

-----------------------------------------------------------------------------
(* The invariant holds throughout.                                          *)
THEOREM Invariance == Spec => []IInv
  BY InitIInv, NextIInv, PTL DEF Spec

(* Types, and the order of what is deferred.                                *)
THEOREM TypeCorrect == Spec => []TypeOK
  BY Invariance, PTL DEF IInv

(* The process exits with the store and every pool closed, however many     *)
(* there are and however the start or the serving ended.                    *)
THEOREM NothingLeftOpen == Spec => []ExitLeavesNothingOpen
<1>1. IInv => ExitLeavesNothingOpen
  <2> SUFFICES ASSUME IInv, stage = "exited" PROVE ExitLeavesNothingOpen
    BY DEF ExitLeavesNothingOpen
  <2>1. Len(deferred) = 0
    BY EmptySeq DEF IInv, StageInv
  <2> QED
    BY <2>1, LifecycleAssumption
    DEF IInv, ResourceInv, ExitLeavesNothingOpen, TypeOK, Db
<1> QED
  BY <1>1, Invariance, PTL

(* No handler is cut short unless the shutdown itself was.                  *)
THEOREM HandlersServedInFull == Spec => []ServedInFull
  BY Invariance, PTL DEF IInv

-----------------------------------------------------------------------------
(* The way to the end                                                       *)

(* Steps that run has before it, at most: a pool is made and connected, and *)
(* closed in two steps.                                                     *)
StepsLeft ==
  LET made   == IF pool[Len(deferred) + 1] = "none" THEN 1 ELSE 0
      open   == IF Len(deferred) \in Db /\ pool[Len(deferred)] = "open" THEN 1 ELSE 0
  IN  CASE stage = "connecting" -> 2 * N + 10 + 2 * (N - Len(deferred)) + made
        [] stage = "opening"    -> 2 * N + 9
        [] stage = "seeding"    -> 2 * N + 8
        [] stage = "serving"    -> 2 * N + 7
        [] stage = "draining"   -> 2 * N + 6
        [] stage = "closing"    -> 2 * Len(deferred) + 1 + open
        [] stage = "exited"     -> 0

(* A step of run, and not of a handler or a signal.                         *)
RunStep == Start \/ Stop \/ ListenFails

(* run has no more than 4 N + 11 steps before it.                           *)
LEMMA EndInSight == IInv => StepsLeft \in 0..(4 * N + 11)
<1> SUFFICES ASSUME IInv PROVE StepsLeft \in 0..(4 * N + 11)
  OBVIOUS
<1>1. Len(deferred) \in Nat /\ Len(deferred) <= N + 1 /\ N \in Nat /\ stage \in Stage
  BY LenProperties, LifecycleAssumption DEF IInv, TypeOK
<1>2. stage = "connecting" => Len(deferred) < N
  BY DEF IInv, StageInv
<1>3. PICK made : made = IF pool[Len(deferred) + 1] = "none" THEN 1 ELSE 0
  OBVIOUS
<1>4. PICK open : open = IF Len(deferred) \in Db /\ pool[Len(deferred)] = "open" THEN 1 ELSE 0
  OBVIOUS
<1>5. {made, open} \subseteq {0, 1}
  BY <1>3, <1>4
<1>6. CASE stage = "connecting"
  <2>1. StepsLeft = 2 * N + 10 + 2 * (N - Len(deferred)) + made
    BY <1>3, <1>6 DEF StepsLeft
  <2> QED
    BY <1>1, <1>2, <1>5, <1>6, <2>1
<1>7. CASE stage = "closing"
  <2>1. StepsLeft = 2 * Len(deferred) + 1 + open
    BY <1>4, <1>7 DEF StepsLeft
  <2> QED
    BY <1>1, <1>5, <2>1
<1>8. CASE stage \in {"opening", "seeding", "serving", "draining", "exited"}
  <2>1. StepsLeft \in {2 * N + 9, 2 * N + 8, 2 * N + 7, 2 * N + 6, 0}
    BY <1>8 DEF StepsLeft
  <2> QED
    BY <1>1, <2>1
<1> QED
  BY <1>1, <1>6, <1>7, <1>8 DEF Stage

(* A step of run brings the end nearer.                                     *)
LEMMA RunStepNearer ==
  ASSUME IInv, RunStep
  PROVE  StepsLeft' < StepsLeft
<1> USE LifecycleAssumption DEF Db
<1>0. TypeOK /\ StageInv
  BY DEF IInv
<1>1. Len(deferred) \in Nat /\ deferred \in Seq(0..N) /\ N \in Nat
  BY <1>0, LenProperties DEF TypeOK
<1>2. PICK l : l = Len(deferred)
  OBVIOUS
<1>3. PICK k : k = Len(deferred')
  OBVIOUS
<1>4. PICK made : made = IF pool[l + 1] = "none" THEN 1 ELSE 0
  OBVIOUS
<1>5. PICK open : open = IF l \in Db /\ pool[l] = "open" THEN 1 ELSE 0
  OBVIOUS
<1>6. PICK made1 : made1 = IF pool'[k + 1] = "none" THEN 1 ELSE 0
  OBVIOUS
<1>7. PICK open1 : open1 = IF k \in Db /\ pool'[k] = "open" THEN 1 ELSE 0
  OBVIOUS
<1>8. {made, open, made1, open1} \subseteq {0, 1} /\ l \in Nat
  BY <1>1, <1>2, <1>4, <1>5, <1>6, <1>7
<1> DEFINE Left(s, n, m, o) ==
      CASE s = "connecting" -> 2 * N + 10 + 2 * (N - n) + m
        [] s = "opening"    -> 2 * N + 9
        [] s = "seeding"    -> 2 * N + 8
        [] s = "serving"    -> 2 * N + 7
        [] s = "draining"   -> 2 * N + 6
        [] s = "closing"    -> 2 * n + 1 + o
        [] s = "exited"     -> 0
<1>9. StepsLeft = Left(stage, l, made, open) /\ StepsLeft' = Left(stage', k, made1, open1)
  BY <1>2, <1>3, <1>4, <1>5, <1>6, <1>7 DEF StepsLeft
<1>10. CASE \E p \in Db : NewPool(p)
  <2>1. PICK p \in Db : NewPool(p)
    BY <1>10
  <2>2. /\ stage = "connecting" /\ stage' = "connecting" /\ deferred' = deferred
        /\ p = l + 1 /\ pool[p] = "none" /\ pool' = [pool EXCEPT ![p] = "open"]
    BY <1>2, <2>1 DEF NewPool, Connecting
  <2>3. k = l /\ made = 1 /\ made1 = 0 /\ l < N
    BY <1>0, <1>2, <1>3, <1>4, <1>6, <2>2 DEF TypeOK, StageInv
  <2> QED
    BY <1>1, <1>8, <1>9, <2>2, <2>3
<1>11. CASE \E p \in Db : Connect(p)
  <2>1. PICK p \in Db : Connect(p)
    BY <1>11
  <2>2. /\ stage = "connecting" /\ p = l + 1 /\ deferred' = Append(deferred, p)
        /\ stage' = IF p = N THEN "opening" ELSE stage
    BY <1>2, <2>1 DEF Connect, Connecting
  <2>3. l < N /\ k = l + 1
    BY <1>0, <1>1, <1>2, <1>3, <2>2, AppendProperties DEF StageInv
  <2>4. StepsLeft = 2 * N + 10 + 2 * (N - l) + made
    BY <1>9, <2>2
  <2>5. CASE l + 1 = N
    <3>1. StepsLeft' = 2 * N + 9
      BY <1>9, <2>2, <2>5
    <3> QED
      BY <1>1, <1>8, <2>3, <2>4, <3>1
  <2>6. CASE l + 1 # N
    <3>1. StepsLeft' = 2 * N + 10 + 2 * (N - k) + made1
      BY <1>9, <2>2, <2>6
    <3> QED
      BY <1>1, <1>8, <2>3, <2>4, <3>1
  <2> QED
    BY <2>5, <2>6
<1>12. CASE \E p \in Db : ConnectFails(p)
  <2>1. stage = "connecting" /\ stage' = "closing" /\ deferred' = deferred
    BY <1>12 DEF ConnectFails, Connecting
  <2>2. l < N /\ k = l
    BY <1>0, <1>2, <1>3, <2>1 DEF StageInv
  <2> QED
    BY <1>1, <1>8, <1>9, <2>1, <2>2
<1>13. CASE OpenStore \/ Seeded \/ Drain
  <2>1. \/ stage = "opening" /\ stage' = "seeding"
        \/ stage = "seeding" /\ stage' = "serving"
        \/ stage = "serving" /\ stage' = "draining"
    BY <1>13 DEF OpenStore, Seeded, Drain
  <2> QED
    BY <1>1, <1>9, <2>1
<1>14. CASE OpenStoreFails \/ Drained \/ GraceOver \/ ListenFails
  <2>1. /\ stage \in {"opening", "draining", "serving"} /\ stage' = "closing"
        /\ deferred' = deferred /\ pool' = pool
    BY <1>14 DEF OpenStoreFails, Drained, GraceOver, ListenFails
  <2>2. k = l /\ l <= N + 1
    BY <1>0, <1>2, <1>3, <2>1 DEF TypeOK
  <2>3. l = N + 1 => open1 = 0
    BY <1>1, <1>7, <2>2
  <2> QED
    BY <1>1, <1>8, <1>9, <2>1, <2>2, <2>3
<1>15. CASE CloseStore \/ \E p \in Db : PoolClosed(p)
  <2>1. stage = "closing" /\ stage' = "closing" /\ deferred # <<>>
        /\ deferred' = SubSeq(deferred, 1, Len(deferred) - 1)
    BY <1>15 DEF CloseStore, PoolClosed, Closing, Closed
  <2>2. k = l - 1 
    BY <1>0, <1>1, <1>2, <1>3, <2>1, DropLast
  <2> QED
    BY <1>1, <1>8, <1>9, <2>1, <2>2
<1>16. CASE \E p \in Db : ClosePool(p)
  <2>1. PICK p \in Db : ClosePool(p)
    BY <1>16
  <2>2. /\ Closing(p) /\ stage = "closing" /\ stage' = "closing" /\ deferred' = deferred
        /\ pool[p] = "open" /\ pool' = [pool EXCEPT ![p] = "closing"]
    BY <2>1 DEF ClosePool, Closing
  <2>3. p = l /\ k = l
    BY <1>0, <1>2, <1>3, <2>2, ClosingIsLast
  <2>4. open = 1 /\ open1 = 0
    BY <1>0, <1>5, <1>7, <2>2, <2>3 DEF TypeOK
  <2> QED
    BY <1>1, <1>8, <1>9, <2>2, <2>3, <2>4
<1>17. CASE Exit
  <2>1. stage = "closing" /\ stage' = "exited"
    BY <1>17 DEF Exit
  <2> QED
    BY <1>1, <1>8, <1>9, <2>1
<1> QED
  BY <1>10, <1>11, <1>12, <1>13, <1>14, <1>15, <1>16, <1>17 DEF RunStep, Start, Stop

(* A signal or a handler changes nothing of it.                             *)
LEMMA OthersLeaveIt ==
  ASSUME Signal \/ (\E h \in Handler : HandlerStep(h)) \/ UNCHANGED vars
  PROVE  StepsLeft' = StepsLeft
<1>1. UNCHANGED <<stage, deferred, pool>>
  BY DEF Signal, HandlerStep, Begin, Received, Query, QueryRefused, Queried, Answer, Moves, vars
<1> QED
  BY <1>1 DEF StepsLeft

(* run comes to its end: whatever fails and whatever the handlers do, each  *)
(* of its steps brings the exit nearer and nothing ever moves it away, so   *)
(* run takes at most 4 N + 11 steps and never goes back.  That it takes     *)
(* them is fairness.                                                        *)
THEOREM RunComesToAnEnd ==
  Spec =>
    /\ [](StepsLeft \in 0..(4 * N + 11))
    /\ [][StepsLeft' <= StepsLeft /\ (RunStep => StepsLeft' < StepsLeft)]_vars
<1>1. IInv /\ [Next]_vars => [StepsLeft' <= StepsLeft /\ (RunStep => StepsLeft' < StepsLeft)]_vars
  <2> SUFFICES ASSUME IInv, Next
               PROVE  UNCHANGED vars \/ (StepsLeft' <= StepsLeft /\ (RunStep => StepsLeft' < StepsLeft))
    OBVIOUS
  <2>1. StepsLeft \in 0..(4 * N + 11) /\ (StepsLeft \in 0..(4 * N + 11))'
    <3>1. (IInv => StepsLeft \in 0..(4 * N + 11))'
      BY EndInSight, PTL
    <3>2. IInv'
      BY NextIInv
    <3> QED
      BY <3>1, <3>2, EndInSight
  <2>2. RunStep => StepsLeft' < StepsLeft
    BY RunStepNearer
  <2>3. ~RunStep => StepsLeft' = StepsLeft
    BY OthersLeaveIt DEF RunStep, Next
  <2>4. StepsLeft' <= StepsLeft
    <3>1. StepsLeft \in Int /\ StepsLeft' \in Int
      BY <2>1, LifecycleAssumption
    <3> QED
      BY <2>2, <2>3, <3>1
  <2> QED
    BY <2>2, <2>4
<1> QED
  BY <1>1, EndInSight, Invariance, PTL DEF Spec
=============================================================================
