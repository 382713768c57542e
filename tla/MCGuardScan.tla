----------------------------- MODULE MCGuardScan -----------------------------
(* GuardScan for TLC: short texts over the symbols that matter to each kind *)
(* of piece, and over the keywords.                                         *)
EXTENDS GuardScan

UpTo(n, symbols) == UNION {[1..k -> symbols] : k \in 0..n}

MCTexts ==
  UpTo(6, {"/", "*", "-", "nl", "a"})
    \cup UpTo(5, {"'", "e", "\\", "a", "semi"})
    \cup UpTo(6, {"$", "a", "1", "semi"})
    \cup UpTo(6, {"$", "SELECT", " ", "("})
    \cup UpTo(5, {"\"", "PG_SHADOW", "SELECT", " "})
    \cup UpTo(5, {"semi", "SELECT", " ", "-", "nl"})
    \cup UpTo(5, {"SELECT", "EXPLAIN", "ANALYZE", "DO", "(", ")", " "})
=============================================================================
