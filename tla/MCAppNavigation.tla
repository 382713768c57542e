--------------------------- MODULE MCAppNavigation ---------------------------
(* AppNavigation for TLC: two databases, of which the second has one more    *)
(* table than the first.                                                     *)
EXTENDS AppNavigation

CONSTANTS d1, d2, t1, t2

MCTablesOf == [d \in {d1, d2, NoDb} |-> IF d = d2 THEN {t1, t2} ELSE {t1}]
=============================================================================
