----------------------------- MODULE MCMcpOutput -----------------------------
(* McpOutput for TLC.                                                        *)
EXTENDS McpOutput

(* Up to four items; the limit lies within the lengths, next to either end.  *)
MCTotals == 0..4
MCLengths == 1..7
=============================================================================
