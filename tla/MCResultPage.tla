---------------------------- MODULE MCResultPage ----------------------------
(* ResultPage for TLC: two long values that begin alike and a short one.    *)
EXTENDS ResultPage

CONSTANTS a, b, s, beginning

MCSize == (a :> 9) @@ (b :> 7) @@ (s :> 2)
MCPreview == [v \in {a, b, s} |-> beginning]
MCRow == {<<s, s>>, <<a, s>>, <<b, a>>}
(* Numbers of rows as in binary, so that they differ in length.             *)
MCDigits == (0 :> 1) @@ (1 :> 1) @@ (2 :> 2)
(* From less than the Envelope, 12, to more than two rows with all their    *)
(* references; at 27 two short rows, which are 20 bytes when they are sent, *)
(* do not fit, by one byte: what is charged for them is 28.                 *)
MCLimits == {11, 27, 32, 35, 39, 46}
=============================================================================
