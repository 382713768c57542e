------------------------------- MODULE MCSqlTab -------------------------------
(* SqlTab for TLC.  Requests are interchangeable, databases are, and so are  *)
(* the texts no easter egg looks at.                                         *)
EXTENDS SqlTab, TLC

Symmetry ==
  Permutations(Req) \cup Permutations(Db) \cup Permutations(Text \ (Magic \cup Refused))
=============================================================================
