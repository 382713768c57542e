---------------------------- MODULE MCSavedQueries ----------------------------
(* SavedQueries for TLC.  Tabs are interchangeable and so are flows.        *)
EXTENDS SavedQueries, TLC

(* The id of a request once its change is done, which only a save that is   *)
(* still the latest action of its tab reads again.                          *)
Relevant(f) ==
  IF flow[f].stage \in {"list", "listed"} /\ ~(flow[f].op = "save" /\ flow[f].current)
  THEN [flow[f] EXCEPT !.id = 0, !.op = IF flow[f].current THEN @ ELSE "reload"]
  ELSE flow[f]

(* What later steps can depend on.                                          *)
Future ==
  <<rows, lastId, inserts, proc, IF proc = "seeding" THEN next ELSE 0, listed, selected,
    [f \in Flow |-> Relevant(f)]>>

Symmetry == Permutations(Tab) \cup Permutations(Flow)
=============================================================================
