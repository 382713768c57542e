----------------------------- MODULE ResultPage -----------------------------
(***************************************************************************)
(* How rows become an answer of bounded size, and how the cells that were   *)
(* cut for it are read again (internal/db/pool.go collect and queryCell,    *)
(* table_rows.go, cell.go, result_size.go; csv.go writeCSV; the grid of     *)
(* web/data-tab.js and web/sql-results.js).                                 *)
(*                                                                         *)
(* The rows of a statement are those of one snapshot; the cells are read by *)
(* statements of their own, when the table may have changed.  A value is    *)
(* known by its length and its preview, its hash is the value.  Rows and    *)
(* columns count from 1.                                                    *)
(***************************************************************************)
EXTENDS Integers, Sequences, FiniteSetsExt, SequencesExt

CONSTANTS
  Value,        \* what a cell may hold
  Size,         \* Size[v]: bytes of the JSON of v
  Preview,      \* Preview[v]: the beginning of v, for one that is cut
  PreviewSize,  \* cellPreviewBytes: bytes of the JSON of a preview
  Columns,      \* columns of the result
  Row,          \* rows the table may have
  RowCap,       \* PGPEEK_ROW_CAP
  Limits,       \* MaxResultBytes
  Skeleton,     \* bytes of the fields every answer has, without their values
  Names,        \* bytes of the names of these columns, with a comma each
  Optional,     \* bytes of the two fields only an answer with cut cells has
  Digits,       \* Digits[n]: digits of the number n of rows
  ElapsedRoom,  \* digits allowed for elapsedMs
  Elapsed,      \* numbers of digits it may have
  RefSize,      \* bytes of {"row":,"column":,"hash":""} with its numbers
  MaxRows,      \* bound: rows of the table
  MaxChanges    \* bound: how often somebody else writes to the table

ASSUME ResultPageAssumption ==
  /\ Size \in [Value -> Nat] /\ PreviewSize \in Nat
  /\ Columns \in Nat /\ Row \subseteq [1..Columns -> Value] /\ RowCap \in Nat \ {0} /\ Limits \subseteq Nat
  /\ Skeleton \in Nat /\ Names \in Nat /\ RefSize \in Nat /\ Optional \in Nat \ {0}
  /\ Digits \in [0..RowCap -> Nat] /\ \A n \in 0..RowCap : Digits[n] \in 1..Digits[RowCap]
  /\ ElapsedRoom \in Nat /\ Elapsed \subseteq 1..(ElapsedRoom - 1)
  /\ \A v \in Value : Size[v] > PreviewSize => Preview[v] \notin Value
  /\ MaxRows \in Nat /\ MaxChanges \in Nat

VARIABLES
  kind,      \* "table": pages of a table; "query": free SQL, no LIMIT, no OFFSET;
             \* "export": the CSV of a table, a request with no tab to wait for it
  limit,     \* of the answer
  table,     \* the rows there are, in the order the statement returns them
  changes,   \* writes so far
  offset,    \* rows of the table before the page the tab is at
  work,      \* the handler: "idle", "page", "csv", then "resolve"
  source,    \* rows of its statement, as of its snapshot
  out, refs, \* rows taken, and a reference per cell cut in them
  bytes,     \* what collect has added up
  data,      \* the answer the tab shows, or NoData
  cell,      \* cell[<<i, j>>]: "closed", "asked" for, "failed" or "full"
  file       \* the last CSV file, or NoFile

vars == <<kind, limit, table, changes, offset, work, source, out, refs, bytes, data, cell, file>>
handler == <<work, source, out, refs, bytes>>
tab == <<offset, data, cell>>
fixed == <<kind, limit>>

-----------------------------------------------------------------------------
(* What is in a result                                                      *)

Position == (1..RowCap) \X (1..Columns)
NoData == [none |-> TRUE]
NoFile == <<"none">>

Long(v) == Size[v] > PreviewSize
Cut(v) == IF Long(v) THEN Preview[v] ELSE v
CutSize(v) == IF Long(v) THEN PreviewSize ELSE Size[v]

(* The references of one row.                                               *)
RefsOf(row, i) ==
  {[row |-> i, column |-> j, hash |-> row[j]] : j \in {k \in 1..Columns : Long(row[k])}}

(* The sum of a sequence of numbers, by a recursive function, so that it    *)
(* can be proved about.                                                     *)
Running(sizes) ==
  LET upto[n \in 0..Len(sizes)] == IF n = 0 THEN 0 ELSE upto[n - 1] + sizes[n]
  IN  upto
Total(sizes) == Running(sizes)[Len(sizes)]

Commas(n) == IF n = 0 THEN 0 ELSE n - 1

(* The cells, the commas between them, the brackets.                        *)
EncodedRow(row) == Total([j \in 1..Columns |-> CutSize(row[j])]) + Commas(Columns) + 2

(* Mutant of RowBytes: the references are not counted.                      *)
RowBytesOfCells(row, i) == EncodedRow(row) + 1

RowBytes(row, i) == EncodedRow(row) + 1 + Cardinality(RefsOf(row, i)) * (RefSize + 1)

(* tableSQL: LIMIT and OFFSET; free SQL is sent as it is.                   *)
Statement(from) ==
  IF kind = "query" THEN table ELSE SubSeq(table, from + 1, Min({from + RowCap, Len(table)}))

(* QueryCell counts to the row in a result without LIMIT, TableCell asks    *)
(* for the one row at offset + row.  Neither looks beyond the cap.          *)
CellAt(from, i, j) ==
  LET at == IF kind = "query" THEN i ELSE from + i
  IN  IF at <= Len(table) THEN {table[at][j]} ELSE {}

(* What resultEnvelopeBytes charges an answer with before it has a row: all *)
(* the fields, and the most digits its numbers may have.                    *)
Envelope == Skeleton + Names + Optional + Digits[RowCap] + ElapsedRoom

Closed == [p \in Position |-> [is |-> "closed"]]

Tables == UNION {[1..n -> Row] : n \in 0..MaxRows}

Init ==
  /\ kind \in {"table", "query", "export"}
  /\ limit \in Limits
  /\ table \in Tables
  /\ changes = 0
  /\ offset = 0
  /\ work = "idle"
  /\ source = <<>>
  /\ out = <<>> /\ refs = {} /\ bytes = Envelope
  /\ data = NoData /\ cell = Closed /\ file = NoFile

-----------------------------------------------------------------------------
(* The table                                                                *)

(* Somebody writes, deletes or inserts a row.                               *)
Change ==
  /\ changes < MaxChanges
  /\ changes' = changes + 1
  /\ \/ \E i \in 1..Len(table), row \in Row : table' = [table EXCEPT ![i] = row]
     \/ \E i \in 1..Len(table) : table' = RemoveAt(table, i)
     \/ \E row \in Row : Len(table) < MaxRows /\ table' = <<row>> \o table
  /\ UNCHANGED <<file, handler, tab, fixed>>

-----------------------------------------------------------------------------
(* The handler                                                              *)

(* A statement is sent for a page or, from the first row on, for a file.    *)
(* The names of the columns alone may be too long for an answer.            *)
Collect(what, from) ==
  /\ work' = IF Envelope <= limit THEN what ELSE "idle"
  /\ source' = IF Envelope <= limit THEN Statement(from) ELSE <<>>
  /\ out' = <<>> /\ refs' = {} /\ bytes' = Envelope

Returns == work' = "idle" /\ source' = <<>> /\ out' = <<>> /\ refs' = {} /\ bytes' = Envelope

Collecting == work \in {"page", "csv"}
NextRow == source[Len(out) + 1]
HasRow == Len(out) < Len(source)

BelowCap == Len(out) < RowCap

Over(row) == bytes + RowBytes(row, Len(out) + 1) > limit

(* One turn of the loop that goes on: the row is taken.                     *)
TakeRow ==
  /\ Collecting
  /\ HasRow
  /\ BelowCap
  /\ ~Over(NextRow)
  /\ bytes' = bytes + RowBytes(NextRow, Len(out) + 1)
  /\ refs' = refs \cup RefsOf(NextRow, Len(out) + 1)
  /\ out' = Append(out, NextRow)
  /\ UNCHANGED <<work, source, table, changes, file, tab, fixed>>

KeptRefs == refs

(* Mutant of Stopped: the end of the rows counts as one at the cap.         *)
StoppedAtCap == HasRow \/ Len(out) = RowCap

Stopped == HasRow

(* The loop was left at the cap, for the limit, or with the last row.       *)
Answer ==
  [rows         |-> [i \in 1..Len(out) |-> [j \in 1..Columns |-> Cut(out[i][j])]],
   refs         |-> KeptRefs,
   truncated    |-> Stopped,
   full         |-> out,
   statement    |-> source]

LoopEnds == HasRow => ~BelowCap \/ Over(NextRow)

(* Mutant of Mounted: the keys of the cells do not name the result.         *)
MountedAsBefore == cell

Mounted == Closed

(* The page is answered; the tab mounts the cells of the new rows.          *)
AnswerPage ==
  /\ work = "page"
  /\ LoopEnds
  /\ data' = Answer
  /\ cell' = Mounted
  /\ Returns
  /\ UNCHANGED <<offset, table, changes, file, fixed>>

(* An error while rows are read, or at their end (not after an early stop): *)
(* the tab keeps the rows it has, wherever it is now; a file is not sent.   *)
Fails ==
  /\ work # "idle"
  /\ Collecting => ~(LoopEnds /\ Stopped)
  /\ Returns
  /\ UNCHANGED <<table, changes, file, tab, fixed>>

(* Mutant of Same: whatever is read now goes into the file.                 *)
SameOrNot(v, ref) == TRUE

Same(v, ref) == v = ref.hash

(* writeCSV: the rows are complete, their long cells are to be read again.  *)
Resolving ==
  /\ work = "csv"
  /\ LoopEnds
  /\ work' = "resolve"
  /\ file' = [i \in 1..Len(out) |-> [j \in 1..Columns |-> Cut(out[i][j])]]
  /\ UNCHANGED <<source, out, refs, bytes, table, changes, tab, fixed>>

(* One of them, in whatever order; the file is dropped if it is not what it *)
(* was.                                                                     *)
Resolve ==
  /\ work = "resolve"
  /\ \E ref \in refs : LET now == CellAt(0, ref.row, ref.column) IN
         \/ \E v \in now :
              /\ Same(v, ref)
              /\ file' = [file EXCEPT ![ref.row][ref.column] = v]
              /\ refs' = refs \ {ref}
              /\ UNCHANGED <<work, source, out, bytes>>
         \/ /\ \A v \in now : ~Same(v, ref)
            /\ file' = NoFile
            /\ Returns
  /\ UNCHANGED <<table, changes, tab, fixed>>

(* Every row is in the spool file: it is sent.                              *)
FileSent ==
  /\ work = "resolve"
  /\ refs = {}
  /\ Returns
  /\ UNCHANGED <<table, changes, file, tab, fixed>>

-----------------------------------------------------------------------------
(* The tab                                                                  *)

(* Run, Prev and Next: the old rows stay until the answer comes.            *)
AskPage(to) ==
  /\ kind # "export"
  /\ work \in {"idle", "page"}
  /\ kind = "query" => to = 0
  /\ offset' = to
  /\ Collect("page", to)
  /\ UNCHANGED <<table, changes, data, cell, file, fixed>>

(* Export CSV: the table from its first row, whatever the page.             *)
AskFile ==
  /\ kind = "export"
  /\ work = "idle"
  /\ Collect("csv", 0)
  /\ file' = NoFile
  /\ UNCHANGED <<table, changes, tab, fixed>>

Cuts(p) == {ref \in data.refs : <<ref.row, ref.column>> = p}

(* A cut cell is opened: by its place in the rows shown, with the offset    *)
(* of the page the tab is at.  One that failed is asked for again.          *)
Open(p) ==
  /\ data # NoData
  /\ cell[p].is \in {"closed", "failed"}
  /\ \E ref \in Cuts(p) :
       cell' = [cell EXCEPT ![p] = [is |-> "asked", from |-> offset, ref |-> ref]]
  /\ UNCHANGED <<offset, data, table, changes, file, handler, fixed>>

Asked(p) == cell[p].is = "asked"

(* The request is served; an answer for other rows than those shown was     *)
(* aborted with its cell.                                                   *)
CellAnswered(p) ==
  /\ Asked(p)
  /\ LET now == {v \in CellAt(cell[p].from, p[1], p[2]) : Same(v, cell[p].ref)}
     IN  \/ \E v \in now : cell' = [cell EXCEPT ![p] = [is |-> "full", value |-> v]]
         \/ now = {} /\ cell' = [cell EXCEPT ![p] = [is |-> "failed"]]
  /\ UNCHANGED <<offset, data, table, changes, file, handler, fixed>>

CellFails(p) ==
  /\ Asked(p)
  /\ cell' = [cell EXCEPT ![p] = [is |-> "failed"]]
  /\ UNCHANGED <<offset, data, table, changes, file, handler, fixed>>

Next ==
  \/ Change
  \/ TakeRow \/ AnswerPage \/ Fails \/ Resolving \/ Resolve \/ FileSent
  \/ \E to \in {n \in 0..MaxRows : n % RowCap = 0} : AskPage(to)
  \/ AskFile
  \/ \E p \in Position : Open(p) \/ CellAnswered(p) \/ CellFails(p)

Spec == Init /\ [][Next]_vars
-----------------------------------------------------------------------------

ShownSize(x) == IF x \in Value THEN Size[x] ELSE PreviewSize
ShownRow(row) == Total([j \in 1..Columns |-> ShownSize(row[j])]) + Commas(Columns) + 2

(* The bytes writeJSON sends if elapsedMs has the given number of digits:   *)
(* true is a letter shorter than false, nothing follows the last name, row  *)
(* or reference, cellsTruncated and truncatedCells are left out if there is *)
(* no reference, and the encoder ends the text with a newline.              *)
ExactSize(d, elapsed) ==
  LET mark == IF d.truncated THEN 1 ELSE 0
      last == IF Columns = 0 THEN 0 ELSE 1
      cuts == Cardinality(d.refs)
      optional == IF d.refs = {} THEN 0 ELSE Optional
  IN  Skeleton - mark + Names - last + Digits[Len(d.rows)] + elapsed + 1
      + Total([i \in 1..Len(d.rows) |-> ShownRow(d.rows[i])]) + Commas(Len(d.rows))
      + optional + cuts * RefSize + Commas(cuts)

(* What is sent is never larger than the limit, although collect only adds  *)
(* up estimates while it reads: every row, comma and reference that is in   *)
(* the answer has been counted before it was taken.                         *)
AnswerWithinLimit == data # NoData => \A e \in Elapsed : ExactSize(data, e) <= limit

(* The most that Envelope charges and writeJSON may not send: the optional  *)
(* fields, and the numbers but for two digits and a newline, which three    *)
(* commas and letters make up for (see ExactSize).                          *)
Reserve == Optional + Digits[RowCap] + ElapsedRoom

(* An answer shows the first rows of its statement and says exactly when    *)
(* there are more.  It stops before the cap only for a row that is too much *)
(* by what would be sent, if for no more than the Reserve: nothing that was *)
(* dropped, and no row of an earlier answer, is still charged.              *)
TruncationIsTold ==
  data # NoData =>
    /\ IsPrefix(data.full, data.statement)
    /\ data.truncated <=> Len(data.rows) < Len(data.statement)
    /\ data.truncated /\ Len(data.rows) < RowCap =>
         LET n == Len(data.rows) + 1
         IN  \A e \in Elapsed :
               ExactSize(data, e) + RowBytes(data.statement[n], n) + Reserve > limit

(* There is a reference, with its hash, for exactly the cells that are cut  *)
(* in the rows shown, not for those of the row that did not fit any more.   *)
RefsNameCutCells ==
  data # NoData =>
    data.refs = {[row |-> p[1], column |-> p[2], hash |-> data.full[p[1]][p[2]]] : p \in
                   {q \in (DOMAIN data.rows) \X (1..Columns) : Long(data.full[q[1]][q[2]])}}

(* Whatever an answer leaves out, rows or parts of cells, it says so.       *)
CutsAreTold == TruncationIsTold /\ RefsNameCutCells

(* A full value that is opened belongs to the preview it is opened from,    *)
(* although it is read later, at an offset the tab may have moved to while  *)
(* the old rows are still shown, from a table that may have changed.        *)
OpenedIsWhatWasCut ==
  \A p \in Position : cell[p].is = "full" =>
    /\ data # NoData
    /\ p[1] \in DOMAIN data.rows
    /\ data.full[p[1]][p[2]] = cell[p].value

(* A file holds the rows its statement returned, with every cut cell whole: *)
(* writes between the statement and the reading of the cells make the       *)
(* export fail rather than mix old rows with new cells.                     *)
FileIsOneSnapshot ==
  work = "resolve" /\ refs = {} => file = out /\ IsPrefix(out, source)
=============================================================================
