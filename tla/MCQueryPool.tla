----------------------------- MODULE MCQueryPool -----------------------------
(* QueryPool for TLC, which names the requests and the connections.         *)
EXTENDS QueryPool

CONSTANTS r1, r2, c1, c2
=============================================================================
