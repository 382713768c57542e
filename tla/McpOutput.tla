------------------------------ MODULE McpOutput ------------------------------
(***************************************************************************)
(* How the MCP tools cut an output that is too large for a response        *)
(* (internal/server/mcp_output.go): a binary search for the longest prefix  *)
(* of the items whose encoding fits, and the flag that tells the reader     *)
(* that something is missing.                                               *)
(*                                                                         *)
(* Of the JSON only its length counts.  list_databases, list_tables and     *)
(* describe_table share maxMCPItemCount, which looks at the empty output    *)
(* first; query has a loop of its own, which looks at it last.              *)
(***************************************************************************)
EXTENDS Integers

CONSTANTS
  Limit,       \* maxMCPStructuredContentBytes
  Totals,      \* how many items an output may have before it is cut
  Lengths      \* lengths of encodings

ASSUME McpOutputAssumption ==
  /\ Limit \in Nat
  /\ Totals \subseteq Nat
  /\ Lengths \subseteq Nat

VARIABLES
  tool,        \* "items", or "query"
  total,       \* items there are: databases, tables, columns and foreign keys, or rows
  columns,     \* how many of them are columns (describe_table); the others follow
  length,      \* length[n]: length of the output with n items, marked truncated
  omitted,     \* the database already left some out: Truncated on entry
  stage,       \* "whole", "search", then "answered" or "refused"
  low, high,   \* of the search
  answer       \* the output: what is kept, and its mark

outputVars == <<tool, total, columns, length, omitted, stage, low, high, answer>>
input == <<tool, total, columns, length, omitted>>

-----------------------------------------------------------------------------
(* Truncated is encoded as true or, one byte longer, as false.              *)
Length(n, mark) == length[n] + IF mark THEN 0 ELSE 1

(* Mutant of Fits: strictly.                                                *)
FitsStrictly(n) == length[n] < Limit

Fits(n) == length[n] <= Limit

(* One more item makes the encoding longer.                                 *)
Growing == \A m, n \in 0..total : m < n => length[m] < length[n]

NoAnswer == [columns |-> 0, foreignKeys |-> 0, truncated |-> FALSE]

(* describe_table takes the columns first.  For the others all are columns. *)
First(n, mark) ==
  [columns     |-> IF n < columns THEN n ELSE columns,
   foreignKeys |-> IF n < columns THEN 0 ELSE n - columns,
   truncated   |-> mark]

OutputInit ==
  /\ tool \in {"items", "query"}
  /\ total \in Totals
  /\ columns \in 0..total
  /\ length \in [0..total -> Lengths]
  /\ Growing
  /\ omitted \in BOOLEAN
  /\ stage = "whole"
  /\ low = 0
  /\ high = total
  /\ answer = NoAnswer

(* The output as it came fits.                                              *)
Whole ==
  /\ stage = "whole"
  /\ Length(total, omitted) <= Limit
  /\ answer' = First(total, omitted)
  /\ stage' = "answered"
  /\ UNCHANGED <<low, high>>
  /\ UNCHANGED input

(* It does not, and maxMCPItemCount finds that not even the empty one does. *)
Refuse ==
  /\ stage = "whole"
  /\ Length(total, omitted) > Limit
  /\ tool = "items" /\ ~Fits(0)
  /\ stage' = "refused"
  /\ UNCHANGED <<low, high, answer>>
  /\ UNCHANGED input

Search ==
  /\ stage = "whole"
  /\ Length(total, omitted) > Limit
  /\ tool = "items" => Fits(0)
  /\ stage' = "search"
  /\ UNCHANGED <<low, high, answer>>
  /\ UNCHANGED input

(* Mutant of Mid: without the + 1 the loop stands still at two.             *)
MidLow == low + ((high - low) \div 2)

Mid == low + ((high - low + 1) \div 2)

(* Mutant of Narrow: steps over the prefix that fits.                       *)
NarrowPast ==
  IF Fits(Mid)
  THEN low' = Mid + 1 /\ UNCHANGED high
  ELSE high' = Mid - 1 /\ UNCHANGED low

Narrow ==
  IF Fits(Mid)
  THEN low' = Mid /\ UNCHANGED high
  ELSE high' = Mid - 1 /\ UNCHANGED low

Step ==
  /\ stage = "search"
  /\ low < high
  /\ Narrow
  /\ UNCHANGED <<stage, answer>>
  /\ UNCHANGED input

(* Mutant of CutTo: keeps the mark of the database.                           *)
CutUnmarked(n) == First(n, omitted)

CutTo(n) == First(n, TRUE)

(* The search is over; query checks what it found.                          *)
Finish ==
  /\ stage = "search"
  /\ low >= high
  /\ IF tool = "query" /\ ~Fits(low)
     THEN stage' = "refused" /\ UNCHANGED answer
     ELSE stage' = "answered" /\ answer' = CutTo(low)
  /\ UNCHANGED <<low, high>>
  /\ UNCHANGED input

OutputNext == Whole \/ Refuse \/ Search \/ Step \/ Finish

OutputSpec == OutputInit /\ [][OutputNext]_outputVars

(* The loop is sequential code: it goes on.                                 *)
OutputFairSpec == OutputSpec /\ WF_outputVars(OutputNext)

-----------------------------------------------------------------------------
(* Types; the bounds of the search stay in order.                           *)
TypeOK ==
  /\ tool \in {"items", "query"}
  /\ total \in Nat
  /\ columns \in 0..total
  /\ length \in [0..total -> Nat]
  /\ omitted \in BOOLEAN
  /\ stage \in {"whole", "search", "answered", "refused"}
  /\ low \in 0..total
  /\ high \in low..total
  /\ answer \in [columns : 0..columns, foreignKeys : 0..(total - columns), truncated : BOOLEAN]

Kept == answer.columns + answer.foreignKeys

(* The answer is within the limit, no longer one would be, and it holds the *)
(* first of the items: no foreign key while a column is missing.            *)
LongestThatFits ==
  stage = "answered" =>
    /\ Length(Kept, answer.truncated) <= Limit
    /\ \A n \in 0..total : n > Kept => length[n] > Limit
    /\ answer.foreignKeys > 0 => answer.columns = columns

(* A tool refuses only when not even the output without items fits.         *)
RefusedOnlyIfHopeless == stage = "refused" => length[0] > Limit

(* What a tool answers is the most that it can.                             *)
AnswerIsBest == LongestThatFits /\ RefusedOnlyIfHopeless

(* Whoever left something out, the database or the cut, the answer says so. *)
(* The converse does not hold: an output that is one byte too long fits when *)
(* it is marked, and is marked although nothing was left out.               *)
OmissionIsTold ==
  stage = "answered" /\ (omitted \/ Kept < total) => answer.truncated

(* The search ends.                                                         *)
SearchEnds == <>(stage \in {"answered", "refused"})
=============================================================================
