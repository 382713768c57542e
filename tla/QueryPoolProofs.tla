--------------------------- MODULE QueryPoolProofs ---------------------------
(***************************************************************************)
(* Proofs about QueryPool, for any number of requests and connections.     *)
(***************************************************************************)
EXTENDS QueryPool, SequenceTheorems, TLAPS

-----------------------------------------------------------------------------
(* The inductive invariant.  What the properties leave open is how the life *)
(* cycle of a connection goes with the phase of its holder, and what each   *)
(* stage of the life cycle says of the session.                             *)

(* The holder of a connection is reading from it or waiting for it to open. *)
HolderPhase ==
  \A c \in Conn : holder[c] # NoRequest =>
    \/ conn[c] = "busy" /\ phase[holder[c]] = "reading"
    \/ conn[c] = "connecting" /\ phase[holder[c]] = "dialing"

BusyHeld ==
  \A c \in Conn : conn[c] = "busy" => holder[c] # NoRequest

(* A session can be anything but new only from the first query to the end   *)
(* of the reset; half way the statements are gone on both sides.            *)
SessionStage ==
  \A c \in Conn :
    /\ conn[c] \in {"absent", "connecting", "idle"} => session[c] = FreshSession
    /\ conn[c] = "discarding" => ~session[c].prepared /\ ~session[c].cached

IInv ==
  /\ TypeOK
  /\ OneConnectionPerRequest
  /\ HolderPhase
  /\ BusyHeld
  /\ SessionStage
  /\ SlotHeldByLiveExport

-----------------------------------------------------------------------------
(* Sequences of one and of two elements; what is left after the first.     *)
LEMMA ShortSequences ==
  ASSUME NEW S, NEW x \in S, NEW y \in S
  PROVE  /\ <<x>> \in Seq(S) /\ <<x>> # <<>>
         /\ <<x, y>> \in Seq(S) /\ <<x, y>> # <<>>
  OBVIOUS

LEMMA TailOfLonger ==
  ASSUME NEW S, NEW s \in Seq(S), Len(s) > 1
  PROVE  Tail(s) \in Seq(S) /\ Tail(s) # <<>>
<1>1. s # <<>> /\ Len(s) \in Nat /\ Len(<<>>) = 0
  BY EmptySeq, LenProperties
<1>2. Tail(s) \in Seq(S) /\ Len(Tail(s)) = Len(s) - 1
  BY <1>1, HeadTailProperties
<1>3. Len(Tail(s)) # Len(<<>>)
  BY <1>1, <1>2
<1> QED
  BY <1>2, <1>3, Zenon

(* Every plan is a non-empty sequence of queries.                           *)
LEMMA PlansTyped ==
  ASSUME NEW k \in Kind, NEW p \in Plans(k)
  PROVE  p \in Seq(Query) /\ p # <<>>
<1>1. "sql" \in Query /\ "catalog" \in Query /\ "page" \in Query
  BY DEF Query
<1>2. \A q \in PagePlans : q \in Seq(Query) /\ q # <<>>
  BY <1>1, ShortSequences DEF PagePlans
<1>3. \A q \in PagePlans : q \o q \in Seq(Query) /\ q \o q # <<>>
  BY <1>2, ConcatProperties, ConcatEqualIffEmpty
<1>4. CASE k \in {"sql", "export"}
  <2>1. p = <<"sql">>
    BY <1>4 DEF Plans
  <2> QED
    BY <2>1, <1>1, ShortSequences
<1>5. CASE k = "catalog"
  <2>1. p = <<"catalog">>
    BY <1>5 DEF Plans
  <2> QED
    BY <2>1, <1>1, ShortSequences
<1>6. CASE k = "describe"
  <2>1. p = <<"catalog", "catalog">>
    BY <1>6 DEF Plans
  <2> QED
    BY <2>1, <1>1, ShortSequences
<1>7. CASE k = "page"
  BY <1>7, <1>2 DEF Plans
<1>8. CASE k = "csv"
  BY <1>8, <1>2, <1>3 DEF Plans
<1> QED
  BY <1>4, <1>5, <1>6, <1>7, <1>8 DEF Kind

(* Every state QueryPool starts in satisfies the inductive invariant.       *)
LEMMA InitIInv == Init => IInv
<1> SUFFICES ASSUME Init PROVE IInv
  OBVIOUS
<1> USE NoRequestAssumption DEF Init
<1>1. TypeOK
  BY DEF TypeOK, Kind, Phase, ConnPhase, Session, FreshSession
<1>2. OneConnectionPerRequest /\ HolderPhase /\ BusyHeld
  BY DEF OneConnectionPerRequest, HolderPhase, BusyHeld
<1>3. SessionStage /\ SlotHeldByLiveExport
  BY DEF SessionStage, SlotHeldByLiveExport
<1> QED
  BY <1>1, <1>2, <1>3 DEF IInv

(* What a query leaves behind is a session.                                 *)
LEMMA SessionAfterTyped ==
  ASSUME NEW q, NEW s \in Session, NEW t \in SessionAfter(q, s)
  PROVE  t \in Session
BY DEF SessionAfter, Session

(* A query starts on a connection that is idle, or that was opened for its  *)
(* request.                                                                 *)
LEMMA RunOnIInv ==
  ASSUME IInv, NEW r \in Request, NEW c \in Conn, RunOn(r, c),
         \/ phase[r] = "waiting" /\ conn[c] = "idle"
         \/ phase[r] = "dialing" /\ conn[c] = "connecting" /\ holder[c] = r
  PROVE  IInv'
<1> USE NoRequestAssumption DEF IInv, RunOn
<1>1. TypeOK'
  <2>1. session[c] \in Session
    BY DEF TypeOK
  <2>2. session' \in [Conn -> Session]
    BY <2>1, SessionAfterTyped DEF TypeOK
  <2> QED
    BY <2>2 DEF TypeOK, Phase, ConnPhase
<1>2. OneConnectionPerRequest'
  BY DEF OneConnectionPerRequest, TypeOK, HolderPhase
<1>3. HolderPhase'
  BY DEF HolderPhase, OneConnectionPerRequest, TypeOK
<1>4. BusyHeld'
  BY DEF BusyHeld, TypeOK
<1>5. SessionStage'
  <2>1. \A d \in Conn \ {c} : session'[d] = session[d] /\ conn'[d] = conn[d]
    BY DEF TypeOK
  <2>2. conn'[c] = "busy"
    BY DEF TypeOK
  <2> QED
    BY <2>1, <2>2 DEF SessionStage
<1>6. SlotHeldByLiveExport'
  BY DEF SlotHeldByLiveExport, TypeOK
<1> QED
  BY <1>1, <1>2, <1>3, <1>4, <1>5, <1>6

(* Every step preserves it.                                                 *)
LEMMA NextIInv == IInv /\ [Next]_vars => IInv'
<1> SUFFICES ASSUME IInv, [Next]_vars PROVE IInv'
  OBVIOUS
<1> USE NoRequestAssumption DEF IInv
<1>1. ASSUME NEW r \in Request, NEW k \in Kind, Start(r, k) PROVE IInv'
  <2>1. TypeOK'
    <3>1. PICK p \in Plans(k) : todo' = [todo EXCEPT ![r] = p]
      BY <1>1 DEF Start
    <3>2. p \in Seq(Query) /\ p # <<>>
      BY PlansTyped
    <3> QED
      BY <1>1, <3>1, <3>2 DEF Start, TypeOK, Phase
  <2>2. OneConnectionPerRequest'
    BY <1>1 DEF Start, OneConnectionPerRequest, TypeOK, HolderPhase
  <2>3. HolderPhase'
    BY <1>1 DEF Start, HolderPhase, OneConnectionPerRequest, TypeOK
  <2>4. BusyHeld'
    BY <1>1 DEF Start, BusyHeld, HolderPhase, TypeOK
  <2>5. SessionStage'
    BY <1>1 DEF Start, SessionStage, FreshSession, Session, TypeOK, HolderPhase
  <2>6. SlotHeldByLiveExport'
    BY <1>1 DEF Start, SlotHeldByLiveExport, TypeOK, HolderPhase
  <2> QED
    BY <2>1, <2>2, <2>3, <2>4, <2>5, <2>6
<1>2. ASSUME NEW r \in Request, ExportBusy(r) PROVE IInv'
  <2>1. TypeOK'
    BY <1>2 DEF ExportBusy, Answer, TypeOK, Kind, Phase, ConnPhase, Session, FreshSession, Query
  <2>2. OneConnectionPerRequest'
    BY <1>2 DEF ExportBusy, Answer, OneConnectionPerRequest, TypeOK, HolderPhase
  <2>3. HolderPhase'
    BY <1>2 DEF ExportBusy, Answer, HolderPhase, OneConnectionPerRequest, TypeOK
  <2>4. BusyHeld'
    BY <1>2 DEF ExportBusy, Answer, BusyHeld, HolderPhase, TypeOK
  <2>5. SessionStage'
    BY <1>2 DEF ExportBusy, Answer, SessionStage, FreshSession, Session, TypeOK, HolderPhase
  <2>6. SlotHeldByLiveExport'
    BY <1>2 DEF ExportBusy, Answer, SlotHeldByLiveExport, TypeOK, HolderPhase
  <2> QED
    BY <2>1, <2>2, <2>3, <2>4, <2>5, <2>6
<1>3. ASSUME NEW r \in Request, Expire(r) PROVE IInv'
  <2>1. TypeOK'
    BY <1>3 DEF Expire, TypeOK, Kind, Phase, ConnPhase, Session, FreshSession, Query
  <2>2. OneConnectionPerRequest'
    BY <1>3 DEF Expire, OneConnectionPerRequest, TypeOK, HolderPhase
  <2>3. HolderPhase'
    BY <1>3 DEF Expire, HolderPhase, OneConnectionPerRequest, TypeOK
  <2>4. BusyHeld'
    BY <1>3 DEF Expire, BusyHeld, HolderPhase, TypeOK
  <2>5. SessionStage'
    BY <1>3 DEF Expire, SessionStage, FreshSession, Session, TypeOK, HolderPhase
  <2>6. SlotHeldByLiveExport'
    BY <1>3 DEF Expire, SlotHeldByLiveExport, TypeOK, HolderPhase
  <2> QED
    BY <2>1, <2>2, <2>3, <2>4, <2>5, <2>6
<1>4. ASSUME NEW r \in Request, GiveUp(r) PROVE IInv'
  <2>1. TypeOK'
    BY <1>4 DEF GiveUp, Answer, TypeOK, Kind, Phase, ConnPhase, Session, FreshSession, Query
  <2>2. OneConnectionPerRequest'
    BY <1>4 DEF GiveUp, Answer, OneConnectionPerRequest, TypeOK, HolderPhase
  <2>3. HolderPhase'
    BY <1>4 DEF GiveUp, Answer, HolderPhase, OneConnectionPerRequest, TypeOK
  <2>4. BusyHeld'
    BY <1>4 DEF GiveUp, Answer, BusyHeld, HolderPhase, TypeOK
  <2>5. SessionStage'
    BY <1>4 DEF GiveUp, Answer, SessionStage, FreshSession, Session, TypeOK, HolderPhase
  <2>6. SlotHeldByLiveExport'
    BY <1>4 DEF GiveUp, Answer, SlotHeldByLiveExport, TypeOK, HolderPhase
  <2> QED
    BY <2>1, <2>2, <2>3, <2>4, <2>5, <2>6
<1>5. ASSUME NEW r \in Request, NEW c \in Conn, Acquire(r, c) PROVE IInv'
  BY <1>5, RunOnIInv DEF Acquire
<1>6. ASSUME NEW r \in Request, NEW c \in Conn, Dial(r, c) PROVE IInv'
  <2>1. TypeOK'
    BY <1>6 DEF Dial, TypeOK, Kind, Phase, ConnPhase, Session, FreshSession, Query
  <2>2. OneConnectionPerRequest'
    BY <1>6 DEF Dial, OneConnectionPerRequest, TypeOK, HolderPhase
  <2>3. HolderPhase'
    BY <1>6 DEF Dial, HolderPhase, OneConnectionPerRequest, TypeOK
  <2>4. BusyHeld'
    BY <1>6 DEF Dial, BusyHeld, HolderPhase, TypeOK
  <2>5. SessionStage'
    BY <1>6 DEF Dial, SessionStage, FreshSession, Session, TypeOK, HolderPhase
  <2>6. SlotHeldByLiveExport'
    BY <1>6 DEF Dial, SlotHeldByLiveExport, TypeOK, HolderPhase
  <2> QED
    BY <2>1, <2>2, <2>3, <2>4, <2>5, <2>6
<1>7. ASSUME NEW r \in Request, NEW c \in Conn, QueryDone(r, c) PROVE IInv'
  <2>1. TypeOK'
    <3>1. todo[r] \in Seq(Query)
      BY DEF TypeOK
    <3>2. CASE MoreQueries(r)
      <4>1. Tail(todo[r]) \in Seq(Query) /\ Tail(todo[r]) # <<>>
        BY <3>1, <3>2, TailOfLonger DEF MoreQueries
      <4>2. todo' = [todo EXCEPT ![r] = Tail(todo[r])]
        BY <1>7, <3>2 DEF QueryDone
      <4>3. phase' = [phase EXCEPT ![r] = "waiting"] /\ UNCHANGED <<kind, expired, slot, session>>
        BY <1>7, <3>2 DEF QueryDone, CloseRows
      <4>4. conn' = [conn EXCEPT ![c] = "resetting"] /\ holder' = [holder EXCEPT ![c] = NoRequest]
        BY <1>7 DEF QueryDone, CloseRows
      <4> QED
        BY <1>7, <4>1, <4>2, <4>3, <4>4 DEF TypeOK, Phase, ConnPhase
    <3>3. CASE ~MoreQueries(r) /\ Spools(r)
      <4>1. phase' = [phase EXCEPT ![r] = "copying"] /\ UNCHANGED <<kind, todo, expired, slot, session>>
        BY <1>7, <3>3 DEF QueryDone, CloseRows
      <4>2. conn' = [conn EXCEPT ![c] = "resetting"] /\ holder' = [holder EXCEPT ![c] = NoRequest]
        BY <1>7 DEF QueryDone, CloseRows
      <4>3. phase[r] = "reading"
        BY <1>7 DEF QueryDone
      <4> QED
        BY <4>1, <4>2, <4>3 DEF TypeOK, Phase, ConnPhase
    <3>4. CASE ~MoreQueries(r) /\ ~Spools(r)
      <4>1. Answer(r) /\ UNCHANGED <<kind, session>>
        BY <1>7, <3>4 DEF QueryDone, CloseRows
      <4>2. conn' = [conn EXCEPT ![c] = "resetting"] /\ holder' = [holder EXCEPT ![c] = NoRequest]
        BY <1>7 DEF QueryDone, CloseRows
      <4> QED
        BY <1>7, <4>1, <4>2, EmptySeq DEF TypeOK, Answer, Phase, ConnPhase
    <3> QED
      BY <3>2, <3>3, <3>4
  <2>2. OneConnectionPerRequest'
    BY <1>7 DEF QueryDone, CloseRows, Answer, OneConnectionPerRequest, TypeOK, HolderPhase
  <2>3. HolderPhase'
    BY <1>7 DEF QueryDone, CloseRows, Answer, HolderPhase, OneConnectionPerRequest, TypeOK
  <2>4. BusyHeld'
    BY <1>7 DEF QueryDone, CloseRows, Answer, BusyHeld, HolderPhase, TypeOK
  <2>5. SessionStage'
    BY <1>7 DEF QueryDone, CloseRows, Answer, SessionStage, FreshSession, Session, TypeOK, HolderPhase
  <2>6. SlotHeldByLiveExport'
    BY <1>7 DEF QueryDone, CloseRows, Answer, SlotHeldByLiveExport, TypeOK, HolderPhase
  <2> QED
    BY <2>1, <2>2, <2>3, <2>4, <2>5, <2>6
<1>8. ASSUME NEW r \in Request, NEW c \in Conn, QueryFails(r, c) PROVE IInv'
  <2>1. TypeOK'
    BY <1>8 DEF QueryFails, CloseRows, Answer, TypeOK, Kind, Phase, ConnPhase, Session, FreshSession, Query
  <2>2. OneConnectionPerRequest'
    BY <1>8 DEF QueryFails, CloseRows, Answer, OneConnectionPerRequest, TypeOK, HolderPhase
  <2>3. HolderPhase'
    BY <1>8 DEF QueryFails, CloseRows, Answer, HolderPhase, OneConnectionPerRequest, TypeOK
  <2>4. BusyHeld'
    BY <1>8 DEF QueryFails, CloseRows, Answer, BusyHeld, HolderPhase, TypeOK
  <2>5. SessionStage'
    BY <1>8 DEF QueryFails, CloseRows, Answer, SessionStage, FreshSession, Session, TypeOK, HolderPhase
  <2>6. SlotHeldByLiveExport'
    BY <1>8 DEF QueryFails, CloseRows, Answer, SlotHeldByLiveExport, TypeOK, HolderPhase
  <2> QED
    BY <2>1, <2>2, <2>3, <2>4, <2>5, <2>6
<1>9. ASSUME NEW r \in Request, NEW c \in Conn, ConnectionLost(r, c) PROVE IInv'
  <2>1. TypeOK'
    BY <1>9 DEF ConnectionLost, Destroy, Answer, TypeOK, Kind, Phase, ConnPhase, Session, FreshSession, Query
  <2>2. OneConnectionPerRequest'
    BY <1>9 DEF ConnectionLost, Destroy, Answer, OneConnectionPerRequest, TypeOK, HolderPhase
  <2>3. HolderPhase'
    BY <1>9 DEF ConnectionLost, Destroy, Answer, HolderPhase, OneConnectionPerRequest, TypeOK
  <2>4. BusyHeld'
    BY <1>9 DEF ConnectionLost, Destroy, Answer, BusyHeld, HolderPhase, TypeOK
  <2>5. SessionStage'
    BY <1>9 DEF ConnectionLost, Destroy, Answer, SessionStage, FreshSession, Session, TypeOK, HolderPhase
  <2>6. SlotHeldByLiveExport'
    BY <1>9 DEF ConnectionLost, Destroy, Answer, SlotHeldByLiveExport, TypeOK, HolderPhase
  <2> QED
    BY <2>1, <2>2, <2>3, <2>4, <2>5, <2>6
<1>10. ASSUME NEW c \in Conn, Connected(c) PROVE IInv'
  <2>1. CASE holder[c] = NoRequest
    <3> USE <2>1, <1>10 DEF Connected
    <3>1. TypeOK'
      BY DEF TypeOK, ConnPhase
    <3>2. OneConnectionPerRequest' /\ HolderPhase' /\ BusyHeld'
      BY DEF OneConnectionPerRequest, HolderPhase, BusyHeld, TypeOK
    <3>3. SessionStage' /\ SlotHeldByLiveExport'
      BY DEF SessionStage, SlotHeldByLiveExport, TypeOK
    <3> QED
      BY <3>1, <3>2, <3>3
  <2>2. CASE holder[c] # NoRequest
    <3>1. holder[c] \in Request /\ phase[holder[c]] = "dialing"
      BY <2>2, <1>10 DEF Connected, TypeOK, HolderPhase
    <3> QED
      BY <2>2, <3>1, <1>10, RunOnIInv DEF Connected
  <2> QED
    BY <2>1, <2>2
<1>11. ASSUME NEW c \in Conn, ConnectFails(c) PROVE IInv'
  <2>1. TypeOK'
    <3>1. CASE holder[c] = NoRequest
      BY <1>11, <3>1 DEF ConnectFails, Destroy, TypeOK, ConnPhase, Session, FreshSession
    <3>2. CASE holder[c] # NoRequest
      <4>1. holder[c] \in Request
        BY <3>2 DEF TypeOK
      <4>2. Answer(holder[c]) /\ Destroy(c) /\ UNCHANGED kind
        BY <1>11, <3>2 DEF ConnectFails
      <4> QED
        BY <4>1, <4>2, EmptySeq DEF Destroy, Answer, TypeOK, Phase, ConnPhase, Session, FreshSession
    <3> QED
      BY <3>1, <3>2
  <2>2. OneConnectionPerRequest'
    BY <1>11 DEF ConnectFails, Destroy, Answer, OneConnectionPerRequest, TypeOK, HolderPhase
  <2>3. HolderPhase'
    BY <1>11 DEF ConnectFails, Destroy, Answer, HolderPhase, OneConnectionPerRequest, TypeOK
  <2>4. BusyHeld'
    BY <1>11 DEF ConnectFails, Destroy, Answer, BusyHeld, HolderPhase, TypeOK
  <2>5. SessionStage'
    BY <1>11 DEF ConnectFails, Destroy, Answer, SessionStage, FreshSession, Session, TypeOK, HolderPhase
  <2>6. SlotHeldByLiveExport'
    BY <1>11 DEF ConnectFails, Destroy, Answer, SlotHeldByLiveExport, TypeOK, HolderPhase
  <2> QED
    BY <2>1, <2>2, <2>3, <2>4, <2>5, <2>6
<1>12. ASSUME NEW c \in Conn, ResetDeallocate(c) PROVE IInv'
  <2>1. TypeOK'
    BY <1>12 DEF ResetDeallocate, TypeOK, Kind, Phase, ConnPhase, Session, FreshSession, Query
  <2>2. OneConnectionPerRequest'
    BY <1>12 DEF ResetDeallocate, OneConnectionPerRequest, TypeOK, HolderPhase
  <2>3. HolderPhase'
    BY <1>12 DEF ResetDeallocate, HolderPhase, OneConnectionPerRequest, TypeOK
  <2>4. BusyHeld'
    BY <1>12 DEF ResetDeallocate, BusyHeld, HolderPhase, TypeOK
  <2>5. SessionStage'
    <3>1. \A d \in Conn \ {c} : session'[d] = session[d] /\ conn'[d] = conn[d]
      BY <1>12 DEF ResetDeallocate, TypeOK
    <3>2. session[c] \in Session /\ conn[c] # conn'[c] /\ conn'[c] = "discarding"
      BY <1>12 DEF ResetDeallocate, TypeOK
    <3>3. ~session'[c].prepared /\ ~session'[c].cached
      BY <1>12, <3>2 DEF ResetDeallocate, TypeOK, Session
    <3> QED
      BY <3>1, <3>2, <3>3 DEF SessionStage
  <2>6. SlotHeldByLiveExport'
    BY <1>12 DEF ResetDeallocate, SlotHeldByLiveExport, TypeOK, HolderPhase
  <2> QED
    BY <2>1, <2>2, <2>3, <2>4, <2>5, <2>6
<1>13. ASSUME NEW c \in Conn, ResetDiscard(c) PROVE IInv'
  <2>1. TypeOK'
    BY <1>13 DEF ResetDiscard, TypeOK, Kind, Phase, ConnPhase, Session, FreshSession, Query
  <2>2. OneConnectionPerRequest'
    BY <1>13 DEF ResetDiscard, OneConnectionPerRequest, TypeOK, HolderPhase
  <2>3. HolderPhase'
    BY <1>13 DEF ResetDiscard, HolderPhase, OneConnectionPerRequest, TypeOK
  <2>4. BusyHeld'
    BY <1>13 DEF ResetDiscard, BusyHeld, HolderPhase, TypeOK
  <2>5. SessionStage'
    <3>1. \A d \in Conn \ {c} : session'[d] = session[d] /\ conn'[d] = conn[d]
      BY <1>13 DEF ResetDiscard, TypeOK
    <3>2. session[c] \in Session /\ conn[c] # conn'[c] /\ conn'[c] = "idle"
      BY <1>13 DEF ResetDiscard, TypeOK
    <3>3. session'[c] = FreshSession
      BY <1>13, <3>2 DEF ResetDiscard, SessionStage, TypeOK, Session, FreshSession
    <3> QED
      BY <3>1, <3>2, <3>3 DEF SessionStage
  <2>6. SlotHeldByLiveExport'
    BY <1>13 DEF ResetDiscard, SlotHeldByLiveExport, TypeOK, HolderPhase
  <2> QED
    BY <2>1, <2>2, <2>3, <2>4, <2>5, <2>6
<1>14. ASSUME NEW c \in Conn, ResetFails(c) PROVE IInv'
  <2>1. TypeOK'
    BY <1>14 DEF ResetFails, Destroy, TypeOK, Kind, Phase, ConnPhase, Session, FreshSession, Query
  <2>2. OneConnectionPerRequest'
    BY <1>14 DEF ResetFails, Destroy, OneConnectionPerRequest, TypeOK, HolderPhase
  <2>3. HolderPhase'
    BY <1>14 DEF ResetFails, Destroy, HolderPhase, OneConnectionPerRequest, TypeOK
  <2>4. BusyHeld'
    BY <1>14 DEF ResetFails, Destroy, BusyHeld, HolderPhase, TypeOK
  <2>5. SessionStage'
    BY <1>14 DEF ResetFails, Destroy, SessionStage, FreshSession, Session, TypeOK, HolderPhase
  <2>6. SlotHeldByLiveExport'
    BY <1>14 DEF ResetFails, Destroy, SlotHeldByLiveExport, TypeOK, HolderPhase
  <2> QED
    BY <2>1, <2>2, <2>3, <2>4, <2>5, <2>6
<1>15. ASSUME NEW c \in Conn, Retire(c) PROVE IInv'
  <2>1. TypeOK'
    BY <1>15 DEF Retire, Destroy, TypeOK, Kind, Phase, ConnPhase, Session, FreshSession, Query
  <2>2. OneConnectionPerRequest'
    BY <1>15 DEF Retire, Destroy, OneConnectionPerRequest, TypeOK, HolderPhase
  <2>3. HolderPhase'
    BY <1>15 DEF Retire, Destroy, HolderPhase, OneConnectionPerRequest, TypeOK
  <2>4. BusyHeld'
    BY <1>15 DEF Retire, Destroy, BusyHeld, HolderPhase, TypeOK
  <2>5. SessionStage'
    BY <1>15 DEF Retire, Destroy, SessionStage, FreshSession, Session, TypeOK, HolderPhase
  <2>6. SlotHeldByLiveExport'
    BY <1>15 DEF Retire, Destroy, SlotHeldByLiveExport, TypeOK, HolderPhase
  <2> QED
    BY <2>1, <2>2, <2>3, <2>4, <2>5, <2>6
<1>16. ASSUME NEW r \in Request, SpoolFails(r) PROVE IInv'
  <2> USE <1>16 DEF SpoolFails, Answer
  <2>1. TypeOK'
    BY DEF TypeOK, Phase
  <2>2. OneConnectionPerRequest' /\ BusyHeld' /\ SessionStage'
    BY DEF OneConnectionPerRequest, BusyHeld, SessionStage
  <2>3. HolderPhase'
    BY DEF HolderPhase, TypeOK
  <2>4. SlotHeldByLiveExport'
    BY DEF SlotHeldByLiveExport, TypeOK
  <2> QED
    BY <2>1, <2>2, <2>3, <2>4
<1>17. ASSUME NEW r \in Request, Copied(r) PROVE IInv'
  <2> USE <1>17 DEF Copied, Answer
  <2>1. TypeOK'
    BY DEF TypeOK, Phase
  <2>2. OneConnectionPerRequest' /\ BusyHeld' /\ SessionStage'
    BY DEF OneConnectionPerRequest, BusyHeld, SessionStage
  <2>3. HolderPhase'
    BY DEF HolderPhase, TypeOK
  <2>4. SlotHeldByLiveExport'
    BY DEF SlotHeldByLiveExport, TypeOK
  <2> QED
    BY <2>1, <2>2, <2>3, <2>4
<1>18. CASE UNCHANGED vars
  BY <1>18 DEF vars, TypeOK, OneConnectionPerRequest, HolderPhase, BusyHeld, SessionStage, SlotHeldByLiveExport
<1> QED
  BY <1>1, <1>2, <1>3, <1>4, <1>5, <1>6, <1>7, <1>8, <1>9, <1>10, <1>11, <1>12, <1>13, <1>14, <1>15, <1>16, <1>17, <1>18 DEF Next, HandlerStep, PoolStep

-----------------------------------------------------------------------------
(* The inductive invariant holds in every reachable state.                  *)
THEOREM Invariance == Spec => []IInv
<1>1. Init => IInv
  BY InitIInv
<1>2. IInv /\ [Next]_vars => IInv'
  BY NextIInv
<1> QED
  BY <1>1, <1>2, PTL DEF Spec

(* Types, for any number of requests and connections: in particular a       *)
(* handler that is at work always has a query left to run.                  *)
THEOREM TypeCorrect == Spec => []TypeOK
<1>1. IInv => TypeOK
  BY DEF IInv
<1> QED
  BY <1>1, Invariance, PTL

(* No handler ever holds two connections (hold-and-wait on the pool cannot  *)
(* occur), whatever the size of the pool.                                   *)
THEOREM OneConnectionAlways == Spec => []OneConnectionPerRequest
<1>1. IInv => OneConnectionPerRequest
  BY DEF IInv
<1> QED
  BY <1>1, Invariance, PTL

(* No path out of a handler leaves a connection behind.                     *)
THEOREM NothingLeaks == Spec => []NothingHeldAfterAnswer
<1>1. IInv => NothingHeldAfterAnswer
  BY DEF IInv, NothingHeldAfterAnswer, HolderPhase, BusyHeld
<1> QED
  BY <1>1, Invariance, PTL

(* A connection on offer has nothing of an earlier request in its session.  *)
THEOREM OfferedAlwaysClean == Spec => []OfferedSessionsClean
<1>1. IInv => OfferedSessionsClean
  BY DEF IInv, SessionStage, OfferedSessionsClean
<1> QED
  BY <1>1, Invariance, PTL

(* The export slot is taken exactly while an export is in progress.         *)
THEOREM SlotNeverLost == Spec => []SlotHeldByLiveExport
<1>1. IInv => SlotHeldByLiveExport
  BY DEF IInv
<1> QED
  BY <1>1, Invariance, PTL

-----------------------------------------------------------------------------
(* QueryPool implements SessionLease.  A session that begins to be read is  *)
(* lent; every way out of reading gives it back; the reset cleans it.       *)

LentTo == [c \in Conn |-> IF conn[c] = "busy" THEN holder[c] ELSE NoRequest]
Tainted == {c \in Conn : session[c] # FreshSession}

(* A connection that starts to be read was not lent, and was clean.         *)
LEMMA RunOnLends ==
  ASSUME IInv, NEW r \in Request, NEW c \in Conn, RunOn(r, c),
         conn[c] \in {"idle", "connecting"}
  PROVE  Lease!Lend(c, r)
<1> USE DEF IInv, TypeOK, RunOn
<1>1. LentTo[c] = NoRequest /\ c \notin Tainted
  BY DEF LentTo, Tainted, SessionStage
<1>2. LentTo' = [LentTo EXCEPT ![c] = r]
  BY DEF LentTo
<1>3. \A d \in Conn \ {c} : session'[d] = session[d]
  OBVIOUS
<1>4. Tainted' \in {Tainted, Tainted \cup {c}}
  BY <1>1, <1>3 DEF Tainted
<1> QED
  BY <1>1, <1>2, <1>4 DEF Lease!Lend, LentTo, Tainted

(* A connection that stops being read is given back; one that was lost      *)
(* gives way to a new session.                                              *)
LEMMA ReadingEndsGivesBack ==
  ASSUME IInv, NEW r \in Request, NEW c \in Conn, phase[r] = "reading", holder[c] = r,
         CloseRows(c) \/ Destroy(c)
  PROVE  Lease!GiveBack(c)
<1> USE NoRequestAssumption DEF IInv, TypeOK, CloseRows, Destroy
<1>1. LentTo[c] = r
  BY DEF LentTo, HolderPhase
<1>2. LentTo' = [LentTo EXCEPT ![c] = NoRequest]
  BY DEF LentTo
<1>3. Tainted' \in {Tainted, Tainted \ {c}}
  <2>1. CASE session' = session
    BY <2>1 DEF Tainted
  <2>2. CASE session' = [session EXCEPT ![c] = FreshSession]
    BY <2>2 DEF Tainted
  <2> QED
    BY <2>1, <2>2
<1> QED
  BY <1>1, <1>2, <1>3 DEF Lease!GiveBack, LentTo, Tainted

(* Nothing is lent or tainted by a step that leaves the sessions alone and  *)
(* neither starts nor ends a reading.                                       *)
LEMMA NothingLent ==
  ASSUME IInv, session' = session,
         \A c \in Conn : (conn[c] = "busy" \/ conn'[c] = "busy") =>
                           (conn'[c] = conn[c] /\ holder'[c] = holder[c])
  PROVE  UNCHANGED Lease!leaseVars
<1>1. LentTo' = LentTo
  BY DEF LentTo
<1>2. Tainted' = Tainted
  BY DEF Tainted
<1> QED
  BY <1>1, <1>2 DEF Lease!leaseVars, LentTo, Tainted

(* A step on a connection nobody reads can only take it out of the tainted  *)
(* ones.                                                                    *)
LEMMA UnlentCleaned ==
  ASSUME IInv, NEW c \in Conn, conn[c] # "busy",
         NEW x, x # "busy", conn' = [conn EXCEPT ![c] = x],
         \/ holder' = holder
         \/ holder' = [holder EXCEPT ![c] = NoRequest],
         NEW s, session' = [session EXCEPT ![c] = s],
         session[c] = FreshSession => s = FreshSession
  PROVE  Lease!Clean(c) \/ UNCHANGED Lease!leaseVars
<1> USE DEF IInv, TypeOK
<1>1. LentTo' = LentTo /\ LentTo[c] = NoRequest
  BY DEF LentTo
<1>2. CASE s = FreshSession
  <2>1. Tainted' = Tainted \ {c}
    BY <1>2 DEF Tainted
  <2> QED
    BY <1>1, <2>1 DEF Lease!Clean, LentTo, Tainted
<1>3. CASE s # FreshSession
  <2>1. Tainted' = Tainted
    BY <1>3 DEF Tainted
  <2> QED
    BY <1>1, <2>1 DEF Lease!leaseVars, LentTo, Tainted
<1> QED
  BY <1>2, <1>3

(* Every step of the pool is a step of SessionLease, or changes nothing of  *)
(* what SessionLease sees.                                                  *)
LEMMA StepRefines ==
  IInv /\ [Next]_vars => [Lease!LeaseNext]_(Lease!leaseVars)
<1> SUFFICES ASSUME IInv, [Next]_vars PROVE [Lease!LeaseNext]_(Lease!leaseVars)
  OBVIOUS
<1> USE NoRequestAssumption
<1>1. ASSUME NEW r \in Request, NEW k \in Kind, Start(r, k) PROVE UNCHANGED Lease!leaseVars
  BY <1>1, NothingLent DEF Start
<1>2. ASSUME NEW r \in Request, ExportBusy(r) PROVE UNCHANGED Lease!leaseVars
  BY <1>2, NothingLent DEF ExportBusy
<1>3. ASSUME NEW r \in Request, Expire(r) PROVE UNCHANGED Lease!leaseVars
  BY <1>3, NothingLent DEF Expire
<1>4. ASSUME NEW r \in Request, GiveUp(r) PROVE UNCHANGED Lease!leaseVars
  <2>1. \A c \in Conn : conn[c] = "busy" => holder[c] # r
    BY <1>4 DEF GiveUp, IInv, TypeOK, HolderPhase
  <2> QED
    BY <1>4, <2>1, NothingLent DEF GiveUp
<1>5. ASSUME NEW r \in Request, NEW c \in Conn, Acquire(r, c) PROVE Lease!Lend(c, r)
  BY <1>5, RunOnLends DEF Acquire
<1>6. ASSUME NEW r \in Request, NEW c \in Conn, Dial(r, c) PROVE UNCHANGED Lease!leaseVars
  BY <1>6, NothingLent DEF Dial, IInv, TypeOK
<1>7. ASSUME NEW r \in Request, NEW c \in Conn, QueryDone(r, c) PROVE Lease!GiveBack(c)
  BY <1>7, ReadingEndsGivesBack DEF QueryDone
<1>8. ASSUME NEW r \in Request, NEW c \in Conn, QueryFails(r, c) PROVE Lease!GiveBack(c)
  BY <1>8, ReadingEndsGivesBack DEF QueryFails
<1>9. ASSUME NEW r \in Request, NEW c \in Conn, ConnectionLost(r, c) PROVE Lease!GiveBack(c)
  BY <1>9, ReadingEndsGivesBack DEF ConnectionLost
<1>10. ASSUME NEW c \in Conn, Connected(c)
       PROVE  UNCHANGED Lease!leaseVars \/ \E r \in Request : Lease!Lend(c, r)
  <2>1. CASE holder[c] = NoRequest
    BY <1>10, <2>1, NothingLent DEF Connected, IInv, TypeOK
  <2>2. CASE holder[c] # NoRequest
    <3>1. holder[c] \in Request
      BY <2>2 DEF IInv, TypeOK
    <3> QED
      BY <1>10, <2>2, <3>1, RunOnLends DEF Connected
  <2> QED
    BY <2>1, <2>2
<1>11. ASSUME NEW c \in Conn, ConnectFails(c)
       PROVE  Lease!Clean(c) \/ UNCHANGED Lease!leaseVars
  BY <1>11, UnlentCleaned DEF ConnectFails, Destroy
<1>12. ASSUME NEW c \in Conn, ResetDeallocate(c)
       PROVE  Lease!Clean(c) \/ UNCHANGED Lease!leaseVars
  <2> DEFINE t == [session[c] EXCEPT !.prepared = FALSE, !.cached = FALSE]
  <2>1. session' = [session EXCEPT ![c] = t]
    BY <1>12 DEF ResetDeallocate, IInv, TypeOK, Session
  <2>2. session[c] = FreshSession => t = FreshSession
    <3>1. t \in Session /\ FreshSession \in Session
      BY DEF IInv, TypeOK, Session, FreshSession
    <3>2. ASSUME session[c] = FreshSession
          PROVE  t.settings = "startup" /\ ~t.prepared /\ ~t.cached
      BY <3>1, <3>2 DEF FreshSession, Session
    <3> QED
      BY <3>1, <3>2 DEF FreshSession, Session
  <2> QED
    BY <1>12, <2>1, <2>2, UnlentCleaned DEF ResetDeallocate
<1>13. ASSUME NEW c \in Conn, ResetDiscard(c)
       PROVE  Lease!Clean(c) \/ UNCHANGED Lease!leaseVars
  <2> DEFINE t == [session[c] EXCEPT !.settings = "startup", !.prepared = FALSE]
  <2>1. session' = [session EXCEPT ![c] = t]
    BY <1>13 DEF ResetDiscard, IInv, TypeOK, Session
  <2>2. session[c] = FreshSession => t = FreshSession
    <3>1. t \in Session /\ FreshSession \in Session
      BY DEF IInv, TypeOK, Session, FreshSession
    <3>2. ASSUME session[c] = FreshSession
          PROVE  t.settings = "startup" /\ ~t.prepared /\ ~t.cached
      BY <3>1, <3>2 DEF FreshSession, Session
    <3> QED
      BY <3>1, <3>2 DEF FreshSession, Session
  <2> QED
    BY <1>13, <2>1, <2>2, UnlentCleaned DEF ResetDiscard
<1>14. ASSUME NEW c \in Conn, ResetFails(c)
       PROVE  Lease!Clean(c) \/ UNCHANGED Lease!leaseVars
  BY <1>14, UnlentCleaned DEF ResetFails, Destroy
<1>15. ASSUME NEW c \in Conn, Retire(c)
       PROVE  Lease!Clean(c) \/ UNCHANGED Lease!leaseVars
  BY <1>15, UnlentCleaned DEF Retire, Destroy
<1>16. ASSUME NEW r \in Request, SpoolFails(r) PROVE UNCHANGED Lease!leaseVars
  BY <1>16, NothingLent DEF SpoolFails
<1>17. ASSUME NEW r \in Request, Copied(r) PROVE UNCHANGED Lease!leaseVars
  BY <1>17, NothingLent DEF Copied
<1>18. CASE UNCHANGED vars
  BY <1>18, NothingLent DEF vars
<1> QED
  BY <1>1, <1>2, <1>3, <1>4, <1>5, <1>6, <1>7, <1>8, <1>9, <1>10, <1>11, <1>12,
     <1>13, <1>14, <1>15, <1>16, <1>17, <1>18
  DEF Next, HandlerStep, PoolStep, Lease!LeaseNext

(* For any number of requests and connections, whatever a handler or a      *)
(* connection does is a step of SessionLease or none: sessions are lent to  *)
(* one request at a time, and only clean.                                   *)
THEOREM Refinement == Spec => LendsCleanSessions
<1>1. Init => Lease!LeaseInit
  BY DEF Init, Lease!LeaseInit
<1>2. IInv /\ [Next]_vars => [Lease!LeaseNext]_(Lease!leaseVars)
  BY StepRefines
<1> QED
  BY <1>1, <1>2, Invariance, PTL DEF Spec, LendsCleanSessions, Lease!LeaseSpec

-----------------------------------------------------------------------------
(* The way of a request to its answer                                       *)

(* What a phase leaves behind of the four that a query may need: waiting    *)
(* for a connection, having it opened, reading, and copying what was read.  *)
Behind(p) ==
  CASE p = "dialing" -> 1 [] p = "reading" -> 2 [] p = "copying" -> 3 [] OTHER -> 0

(* Steps that request r has before it, at most.                             *)
WorkLeft(r) == 4 * Len(todo[r]) - Behind(phase[r])

(* Request r is at work, and the step leaves it where it is or takes it on. *)
GoesOn(r) == UNCHANGED <<phase[r], todo[r]>> \/ WorkLeft(r)' < WorkLeft(r)

(* No handler has more than four queries to run.                            *)
FewQueries == \A r \in Request : Len(todo[r]) <= 4

(* A request at work has a query to run, and so a step before it.           *)
LEMMA SomeWorkLeft ==
  ASSUME TypeOK, NEW r \in Request
  PROVE  /\ Len(todo[r]) \in Nat /\ WorkLeft(r) \in Nat
         /\ phase[r] # "idle" => Len(todo[r]) > 0 /\ WorkLeft(r) > 0
<1>1. todo[r] \in Seq(Query) /\ (phase[r] = "idle" <=> todo[r] = <<>>)
  BY DEF TypeOK
<1>2. Len(todo[r]) \in Nat /\ (Len(todo[r]) = 0 <=> todo[r] = <<>>)
  BY <1>1, EmptySeq, LenProperties
<1>3. PICK n : n = Len(todo[r])
  OBVIOUS
<1>4. n \in Nat /\ (n = 0 <=> phase[r] = "idle")
  BY <1>1, <1>2, <1>3
<1>5. PICK d : d = Behind(phase[r])
  OBVIOUS
<1>6. d \in {0, 1, 2, 3} /\ (phase[r] = "idle" => d = 0)
  BY <1>5 DEF Behind
<1>7. WorkLeft(r) = 4 * n - d
  BY <1>3, <1>5 DEF WorkLeft, Behind
<1> QED
  BY <1>3, <1>4, <1>6, <1>7

(* Who answers has done all his work.                                       *)
LEMMA AnswerGoesOn ==
  ASSUME TypeOK, NEW q \in Request, Answer(q), NEW r \in Request, phase[r] # "idle"
  PROVE  GoesOn(r)
<1>1. /\ phase \in [Request -> Phase] /\ DOMAIN todo = Request
      /\ phase' = [phase EXCEPT ![q] = "idle"] /\ todo' = [todo EXCEPT ![q] = <<>>]
  BY DEF TypeOK, Answer
<1>2. CASE r # q
  BY <1>1, <1>2 DEF GoesOn
<1>3. CASE r = q
  <2>1. phase'[r] = "idle" /\ todo'[r] = <<>>
    BY <1>1, <1>3
  <2>2. WorkLeft(r)' = 0
    BY <2>1, EmptySeq DEF WorkLeft, Behind
  <2> QED
    BY <2>2, SomeWorkLeft DEF GoesOn
<1> QED
  BY <1>2, <1>3

(* The next phase of the same query.                                        *)
LaterPhase(from, to) ==
  \/ from = "waiting" /\ to \in {"dialing", "reading"}
  \/ from = "dialing" /\ to = "reading"
  \/ from = "reading" /\ to = "copying"

(* Who has a connection opened, begins to read or begins to copy, goes on.  *)
LEMMA NextPhaseGoesOn ==
  ASSUME TypeOK, NEW q \in Request, NEW to, LaterPhase(phase[q], to),
         phase' = [phase EXCEPT ![q] = to], todo' = todo,
         NEW r \in Request
  PROVE  GoesOn(r)
<1>1. phase'[r] = IF r = q THEN to ELSE phase[r]
  BY DEF TypeOK
<1>2. CASE r # q
  BY <1>1, <1>2 DEF GoesOn
<1>3. CASE r = q
  <2>1. PICK n : n = Len(todo[r])
    OBVIOUS
  <2>2. n \in Nat
    BY <2>1, SomeWorkLeft
  <2>3. PICK d, e : d = Behind(phase[r]) /\ e = Behind(to)
    OBVIOUS
  <2>4. d \in Nat /\ e \in Nat /\ d < e
    BY <1>3, <2>3 DEF LaterPhase, Behind
  <2>5. WorkLeft(r) = 4 * n - d /\ WorkLeft(r)' = 4 * n - e
    BY <1>1, <1>3, <2>1, <2>3 DEF WorkLeft
  <2> QED
    BY <2>2, <2>4, <2>5 DEF GoesOn
<1> QED
  BY <1>2, <1>3

(* Who has read the rows of one query goes on to the next.                  *)
LEMMA NextQueryGoesOn ==
  ASSUME TypeOK, NEW q \in Request, phase[q] = "reading", MoreQueries(q),
         todo' = [todo EXCEPT ![q] = Tail(@)],
         phase' = [phase EXCEPT ![q] = "waiting"],
         NEW r \in Request
  PROVE  GoesOn(r) /\ Len(todo'[r]) <= Len(todo[r])
<1>1. /\ phase'[r] = IF r = q THEN "waiting" ELSE phase[r]
      /\ todo'[r] = IF r = q THEN Tail(todo[r]) ELSE todo[r]
      /\ todo[r] \in Seq(Query)
  BY DEF TypeOK
<1>2. CASE r # q
  BY <1>1, <1>2, SomeWorkLeft DEF GoesOn
<1>3. CASE r = q
  <2>1. PICK n : n = Len(todo[r])
    OBVIOUS
  <2>2. n \in Nat /\ n > 1 /\ todo[r] # <<>>
    BY <1>3, <2>1, SomeWorkLeft, EmptySeq DEF MoreQueries
  <2>3. Len(todo'[r]) = n - 1
    BY <1>1, <1>3, <2>1, <2>2, HeadTailProperties
  <2>4. WorkLeft(r) = 4 * n - 2
    BY <1>3, <2>1 DEF WorkLeft, Behind
  <2>5. WorkLeft(r)' = 4 * (n - 1)
    <3>1. PICK m : m = Len(todo'[r])
      OBVIOUS
    <3>2. phase'[r] = "waiting"
      BY <1>1, <1>3
    <3>3. m = n - 1 /\ m \in Nat
      BY <2>2, <2>3, <3>1
    <3>4. WorkLeft(r)' = 4 * m - Behind("waiting")
      BY <3>1, <3>2 DEF WorkLeft
    <3>5. Behind("waiting") = 0
      BY DEF Behind
    <3> QED
      BY <3>3, <3>4, <3>5
  <2> QED
    BY <2>1, <2>2, <2>3, <2>4, <2>5 DEF GoesOn
<1> QED
  BY <1>2, <1>3

(* A plan has at most four queries.                                         *)
LEMMA PlansShort ==
  ASSUME NEW k \in Kind, NEW p \in Plans(k)
  PROVE  Len(p) <= 4
<1>1. \A q \in PagePlans : q \in Seq(Query) /\ Len(q) \in Nat /\ Len(q) <= 2
  <2> SUFFICES ASSUME NEW q \in PagePlans
               PROVE  q \in Seq(Query) /\ Len(q) \in Nat /\ Len(q) <= 2
    OBVIOUS
  <2>1. "catalog" \in Query /\ "page" \in Query
    BY DEF Query
  <2>2. q = <<"page">> \/ q = <<"catalog", "page">>
    BY DEF PagePlans
  <2>3. q \in Seq(Query)
    BY <2>1, <2>2, ShortSequences
  <2>4. CASE q = <<"page">>
    <3>1. Len(q) = 1
      BY <2>4
    <3> QED
      BY <2>3, <3>1
  <2>5. CASE q = <<"catalog", "page">>
    <3>1. Len(q) = 2
      BY <2>5
    <3> QED
      BY <2>3, <3>1
  <2> QED
    BY <2>2, <2>4, <2>5
<1>2. \A q \in PagePlans : Len(q \o q) <= 4
  <2> SUFFICES ASSUME NEW q \in PagePlans PROVE Len(q \o q) <= 4
    OBVIOUS
  <2>1. Len(q \o q) = Len(q) + Len(q)
    BY <1>1, ConcatProperties
  <2> QED
    BY <1>1, <2>1
<1>3. CASE k \in {"sql", "export", "catalog", "describe"}
  <2>1. p = <<"sql">> \/ p = <<"catalog">> \/ p = <<"catalog", "catalog">>
    BY <1>3 DEF Plans
  <2>2. CASE p = <<"sql">> \/ p = <<"catalog">>
    <3>1. Len(p) = 1
      BY <2>2
    <3> QED
      BY <3>1
  <2>3. CASE p = <<"catalog", "catalog">>
    <3>1. Len(p) = 2
      BY <2>3
    <3> QED
      BY <3>1
  <2> QED
    BY <2>1, <2>2, <2>3
<1>4. CASE k \in {"page", "csv"}
  <2>1. p \in PagePlans \/ \E q \in PagePlans : p = q \o q
    BY <1>4 DEF Plans
  <2>2. CASE p \in PagePlans
    BY <1>1, <2>2
  <2>3. CASE \E q \in PagePlans : p = q \o q
    BY <1>2, <2>3
  <2> QED
    BY <2>1, <2>2, <2>3
<1> QED
  BY <1>3, <1>4 DEF Kind

(* Every step takes the requests that are at work on or leaves them, and    *)
(* gives none more queries than a plan has.                                 *)
LEMMA StepGoesOn ==
  ASSUME IInv, Next
  PROVE  /\ \A r \in Request : phase[r] # "idle" => GoesOn(r)
         /\ FewQueries => FewQueries'
<1> USE NoRequestAssumption DEF IInv
<1>1. ASSUME NEW q \in Request, Answer(q)
      PROVE  /\ \A r \in Request : phase[r] # "idle" => GoesOn(r)
             /\ FewQueries => FewQueries'
  <2>1. \A r \in Request : todo'[r] = IF r = q THEN <<>> ELSE todo[r]
    BY <1>1 DEF Answer, TypeOK
  <2>2. FewQueries => FewQueries'
    BY <2>1, EmptySeq DEF FewQueries
  <2> QED
    BY <1>1, <2>2, AnswerGoesOn
<1>2. ASSUME UNCHANGED <<phase, todo>>
      PROVE  /\ \A r \in Request : phase[r] # "idle" => GoesOn(r)
             /\ FewQueries => FewQueries'
  BY <1>2 DEF GoesOn, FewQueries
<1>3. ASSUME NEW q \in Request, NEW to, LaterPhase(phase[q], to),
             phase' = [phase EXCEPT ![q] = to], todo' = todo
      PROVE  /\ \A r \in Request : phase[r] # "idle" => GoesOn(r)
             /\ FewQueries => FewQueries'
  BY <1>3, NextPhaseGoesOn DEF FewQueries
<1>4. ASSUME NEW q \in Request, NEW k \in Kind, Start(q, k)
      PROVE  /\ \A r \in Request : phase[r] # "idle" => GoesOn(r)
             /\ FewQueries => FewQueries'
  <2>1. PICK p \in Plans(k) : todo' = [todo EXCEPT ![q] = p]
    BY <1>4 DEF Start
  <2>2. phase[q] = "idle" /\ phase' = [phase EXCEPT ![q] = "waiting"]
    BY <1>4 DEF Start
  <2>3. \A r \in Request : r # q => UNCHANGED <<phase[r], todo[r]>>
    BY <2>1, <2>2 DEF TypeOK
  <2>4. todo'[q] = p
    BY <2>1 DEF TypeOK
  <2>5. Len(p) <= 4
    BY PlansShort
  <2>6. FewQueries => FewQueries'
    BY <2>3, <2>4, <2>5 DEF FewQueries
  <2> QED
    BY <2>2, <2>3, <2>6 DEF GoesOn
<1>5. ASSUME NEW q \in Request, NEW c \in Conn, QueryDone(q, c)
      PROVE  /\ \A r \in Request : phase[r] # "idle" => GoesOn(r)
             /\ FewQueries => FewQueries'
  <2>1. CASE ~MoreQueries(q) /\ ~Spools(q)
    BY <1>1, <1>5, <2>1 DEF QueryDone
  <2>3. CASE ~MoreQueries(q) /\ Spools(q)
    BY <1>3, <1>5, <2>3 DEF QueryDone, LaterPhase
  <2>2. CASE MoreQueries(q)
    <3>1. /\ phase[q] = "reading" /\ todo' = [todo EXCEPT ![q] = Tail(@)]
          /\ phase' = [phase EXCEPT ![q] = "waiting"]
      BY <1>5, <2>2 DEF QueryDone
    <3>2. \A r \in Request : GoesOn(r) /\ Len(todo'[r]) <= Len(todo[r])
      BY <2>2, <3>1, NextQueryGoesOn
    <3>3. FewQueries => FewQueries'
      <4> SUFFICES ASSUME FewQueries, NEW r \in Request PROVE Len(todo'[r]) <= 4
        BY DEF FewQueries
      <4>1. Len(todo[r]) \in Nat /\ Len(todo[r]) <= 4
        BY SomeWorkLeft DEF FewQueries
      <4>2. Len(todo'[r]) \in Nat
        <5>1. todo'[r] \in Seq(Query)
          BY NextIInv DEF TypeOK
        <5> QED
          BY <5>1, LenProperties
      <4> QED
        BY <3>2, <4>1, <4>2
    <3> QED
      BY <3>2, <3>3
  <2> QED
    BY <2>1, <2>2, <2>3
<1>6. ASSUME NEW c \in Conn, Connected(c) \/ ConnectFails(c)
      PROVE  /\ \A r \in Request : phase[r] # "idle" => GoesOn(r)
             /\ FewQueries => FewQueries'
  <2>1. CASE holder[c] = NoRequest
    BY <1>2, <1>6, <2>1 DEF Connected, ConnectFails
  <2>2. CASE holder[c] # NoRequest
    <3>1. holder[c] \in Request /\ conn[c] = "connecting" /\ phase[holder[c]] = "dialing"
      BY <1>6, <2>2 DEF TypeOK, HolderPhase, Connected, ConnectFails
    <3>2. CASE ConnectFails(c)
      BY <1>1, <2>2, <3>1, <3>2 DEF ConnectFails
    <3>3. CASE Connected(c)
      BY <1>3, <2>2, <3>1, <3>3 DEF Connected, RunOn, LaterPhase
    <3> QED
      BY <1>6, <3>2, <3>3
  <2> QED
    BY <2>1, <2>2
<1>7. ASSUME NEW q \in Request, HandlerStep(q)
      PROVE  /\ \A r \in Request : phase[r] # "idle" => GoesOn(r)
             /\ FewQueries => FewQueries'
  <2>1. CASE \E k \in Kind : Start(q, k)
    BY <1>4, <2>1
  <2>2. CASE ExportBusy(q) \/ SpoolFails(q) \/ GiveUp(q) \/ Copied(q)
    BY <1>1, <2>2 DEF ExportBusy, SpoolFails, GiveUp, Copied
  <2>3. CASE Expire(q)
    BY <1>2, <2>3 DEF Expire
  <2>4. CASE \E c \in Conn : Acquire(q, c) \/ Dial(q, c)
    <3>1. /\ phase[q] = "waiting" /\ todo' = todo
          /\ phase' = [phase EXCEPT ![q] = "dialing"] \/ phase' = [phase EXCEPT ![q] = "reading"]
      BY <2>4 DEF Acquire, Dial, RunOn
    <3> QED
      BY <1>3, <3>1 DEF LaterPhase
  <2>5. CASE \E c \in Conn : QueryDone(q, c)
    BY <1>5, <2>5
  <2>6. CASE \E c \in Conn : QueryFails(q, c) \/ ConnectionLost(q, c)
    BY <1>1, <2>6 DEF QueryFails, ConnectionLost
  <2> QED
    BY <1>7, <2>1, <2>2, <2>3, <2>4, <2>5, <2>6 DEF HandlerStep
<1>8. ASSUME NEW c \in Conn, PoolStep(c)
      PROVE  /\ \A r \in Request : phase[r] # "idle" => GoesOn(r)
             /\ FewQueries => FewQueries'
  <2>1. CASE Connected(c) \/ ConnectFails(c)
    BY <1>6, <2>1
  <2>2. CASE ResetDeallocate(c) \/ ResetDiscard(c) \/ ResetFails(c) \/ Retire(c)
    BY <1>2, <2>2 DEF ResetDeallocate, ResetDiscard, ResetFails, Retire
  <2> QED
    BY <1>8, <2>1, <2>2 DEF PoolStep
<1> QED
  BY <1>7, <1>8 DEF Next

(* No request goes back: once it is begun, whatever other requests and the  *)
(* pool do, each step that touches it brings its answer nearer, and there   *)
(* are at most sixteen of them (four for each query of the longest plan).   *)
(* No query is run again, and none waits for a connection twice.            *)
THEOREM RequestsGoOn ==
  Spec =>
    /\ [](\A r \in Request : WorkLeft(r) \in 0..16)
    /\ [][\A r \in Request : phase[r] # "idle" => GoesOn(r)]_vars
<1>1. Init => FewQueries
  <2> SUFFICES ASSUME Init, NEW r \in Request PROVE Len(todo[r]) <= 4
    BY DEF FewQueries
  <2> QED
    BY EmptySeq DEF Init
<1>2. IInv /\ FewQueries /\ [Next]_vars => FewQueries'
  <2>1. CASE UNCHANGED vars
    BY <2>1 DEF vars, FewQueries
  <2> QED
    BY <2>1, StepGoesOn
<1>3. IInv /\ FewQueries => \A r \in Request : WorkLeft(r) \in 0..16
  <2> SUFFICES ASSUME IInv, FewQueries, NEW r \in Request PROVE WorkLeft(r) \in 0..16
    OBVIOUS
  <2>1. PICK n : n = Len(todo[r])
    OBVIOUS
  <2>2. n \in Nat /\ n <= 4 /\ WorkLeft(r) \in Nat
    BY <2>1, SomeWorkLeft DEF IInv, FewQueries
  <2>3. WorkLeft(r) = 4 * n - Behind(phase[r])
    BY <2>1 DEF WorkLeft, Behind
  <2>4. Behind(phase[r]) \in {0, 1, 2, 3}
    BY DEF Behind
  <2> QED
    BY <2>2, <2>3, <2>4
<1>4. IInv /\ [Next]_vars => [\A r \in Request : phase[r] # "idle" => GoesOn(r)]_vars
  BY StepGoesOn
<1> QED
  BY <1>1, <1>2, <1>3, <1>4, Invariance, PTL DEF Spec
=============================================================================
