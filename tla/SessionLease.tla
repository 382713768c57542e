---------------------------- MODULE SessionLease ----------------------------
(***************************************************************************)
(* What the connection pool promises to the HTTP and MCP handlers: a       *)
(* database session is lent to one request at a time, it is lent only in   *)
(* the state it had when it was opened, and whatever a request did to it   *)
(* is gone before the next request sees it.  QueryPool implements this     *)
(* specification.                                                          *)
(***************************************************************************)
CONSTANTS
  Request,     \* handlers that may use the pool
  Conn,        \* connections of the pool
  NoRequest    \* the lessee of a session nobody is using

VARIABLES
  lease,       \* lease[c]: the request that is using the session of c
  tainted      \* connections whose session is not as it was opened

leaseVars == <<lease, tainted>>

LeaseInit ==
  /\ lease = [c \in Conn |-> NoRequest]
  /\ tainted = {}

(* A free and untainted session is lent, and the borrower may taint it.    *)
Lend(c, r) ==
  /\ lease[c] = NoRequest
  /\ c \notin tainted
  /\ lease' = [lease EXCEPT ![c] = r]
  /\ tainted' \in {tainted, tainted \cup {c}}

(* The borrower is done.  A session that is closed rather than returned is *)
(* untainted: the next one opened in its place starts afresh.              *)
GiveBack(c) ==
  /\ lease[c] # NoRequest
  /\ lease' = [lease EXCEPT ![c] = NoRequest]
  /\ tainted' \in {tainted, tainted \ {c}}

(* A session nobody uses is cleaned, in one or in several steps.           *)
Clean(c) ==
  /\ lease[c] = NoRequest
  /\ tainted' = tainted \ {c}
  /\ UNCHANGED lease

LeaseNext ==
  \E c \in Conn :
    \/ \E r \in Request : Lend(c, r)
    \/ GiveBack(c)
    \/ Clean(c)

LeaseSpec == LeaseInit /\ [][LeaseNext]_leaseVars
=============================================================================
