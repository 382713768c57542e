---------------------------- MODULE AnswerProofs ----------------------------
(***************************************************************************)
(* ResultPage and McpOutput, which keep an answer within its size, for      *)
(* every limit and every length of what is in it.                           *)
(*                                                                          *)
(* An answer of rows is never longer than its limit, says what it leaves    *)
(* out, and its cut cells are read again as they were.  The output of an    *)
(* MCP tool is the longest that fits, and marked when items are missing.    *)
(***************************************************************************)
EXTENDS ResultPage, McpOutput, FiniteSetTheorems, SequenceTheorems, WellFoundedInduction, TLAPS

(* The references of some rows.                                             *)
RefsIn(rows) ==
  {[row |-> p[1], column |-> p[2], hash |-> rows[p[1]][p[2]]] : p \in
     {q \in (1..Len(rows)) \X (1..Columns) : Long(rows[q[1]][q[2]])}}

RowSizes(rows) == [i \in 1..Len(rows) |-> EncodedRow(rows[i])]

(* What collect has added up for some rows and references.                  *)
Counted(rows, rs) == Envelope + Total(RowSizes(rows)) + Len(rows) + Cardinality(rs) * (RefSize + 1)

PageTypes ==
  /\ limit \in Nat /\ offset \in Nat
  /\ table \in Seq(Row) /\ source \in Seq(Row) /\ out \in Seq(Row)
  /\ work \in {"idle", "page", "csv", "resolve"}
  /\ cell = [p \in Position |-> cell[p]]

(* The rows taken are the first of the statement's, and each has been       *)
(* counted with its references.                                             *)
TakenInv ==
  /\ Len(out) <= Len(source) /\ Len(out) <= RowCap
  /\ \A i \in 1..Len(out) : out[i] = source[i]
  /\ refs \subseteq RefsIn(out)
  /\ Collecting => refs = RefsIn(out) /\ IsFiniteSet(refs) /\ bytes = Counted(out, refs) /\ bytes <= limit

(* In the file, a place without a reference holds what the row holds.       *)
FileInv ==
  work = "resolve" =>
    /\ file = [i \in 1..Len(out) |-> [j \in 1..Columns |-> file[i][j]]]
    /\ \A i \in 1..Len(out), j \in 1..Columns :
         file[i][j] = out[i][j] \/ [row |-> i, column |-> j, hash |-> out[i][j]] \in refs

(* A cell that is asked for has its reference from the rows shown.          *)
CellInv ==
  \A p \in Position : cell[p].is = "asked" =>
    /\ data # NoData
    /\ cell[p].ref \in data.refs
    /\ <<cell[p].ref.row, cell[p].ref.column>> = p

PageInv ==
  /\ PageTypes
  /\ TakenInv
  /\ FileInv
  /\ CellInv
  /\ AnswerWithinLimit
  /\ CutsAreTold
  /\ OpenedIsWhatWasCut

-----------------------------------------------------------------------------
(* Sums                                                                     *)

(* The first n sums of a sequence of sizes.                                 *)
Sums(t, sizes, n) ==
  /\ t \in [0..n -> Nat]
  /\ t[0] = 0
  /\ \A m \in 1..n : t[m] = t[m - 1] + sizes[m]

(* What holds at 0 and for m whenever it holds for m - 1 holds up to n.     *)
LEMMA UpTo ==
  ASSUME NEW n \in Nat, NEW S, 0 \in S, \A m \in 1..n : m - 1 \in S => m \in S
  PROVE  \A m \in 0..n : m \in S
<1> DEFINE R == OpToRel(<, Nat)
           missed == {m \in 0..n : m \notin S}
<1>1. IsWellFoundedOn(R, Nat)
  BY NatLessThanWellFounded
<1>2. SUFFICES ASSUME missed # {} PROVE FALSE
  OBVIOUS
<1>3. missed \in SUBSET Nat
  OBVIOUS
<1>4. PICK k \in missed : \A j \in missed : ~(<<j, k>> \in R)
  <2> HIDE DEF R, missed
  <2> QED
    BY <1>1, <1>2, <1>3, WFMin
<1>5. k \in 1..n /\ k \notin S
  OBVIOUS
<1>6. k - 1 \in 0..n /\ k - 1 \in Nat /\ k - 1 < k
  BY <1>5
<1>7. k - 1 \in S
  <2>1. k - 1 \notin S => k - 1 \in missed
    BY <1>6
  <2>2. k - 1 \in missed => ~(<<k - 1, k>> \in R)
    BY <1>4
  <2>3. <<k - 1, k>> \in R
    BY <1>5, <1>6 DEF OpToRel
  <2> QED
    BY <2>1, <2>2, <2>3
<1> QED
  BY <1>5, <1>7

LEMMA SumsExist ==
  ASSUME NEW sizes \in Seq(Nat)
  PROVE  \E t : Sums(t, sizes, Len(sizes))
<1> DEFINE n == Len(sizes)
           S == {m \in 0..n : \E t \in [0..m -> Nat] : Sums(t, sizes, m)}
<1>1. n \in Nat /\ \A m \in 1..n : sizes[m] \in Nat
  OBVIOUS
<1>2. 0 \in S
  <2> DEFINE t == [m \in 0..0 |-> 0]
  <2>1. t \in [0..0 -> Nat] /\ Sums(t, sizes, 0)
    BY DEF Sums
  <2> QED
    BY <1>1, <2>1
<1>3. ASSUME NEW m \in 1..n, m - 1 \in S
      PROVE  m \in S
  <2>1. PICK t \in [0..(m - 1) -> Nat] : Sums(t, sizes, m - 1)
    BY <1>3
  <2> DEFINE u == [k \in 0..m |-> IF k < m THEN t[k] ELSE t[m - 1] + sizes[m]]
  <2>2. m \in Nat /\ m - 1 \in 0..(m - 1) /\ 0 \in 0..(m - 1) /\ sizes[m] \in Nat
    BY <1>1
  <2>3. u \in [0..m -> Nat]
    BY <2>1, <2>2
  <2>4. \A k \in 0..(m - 1) : u[k] = t[k]
    BY <2>2
  <2>5. u[m] = t[m - 1] + sizes[m]
    BY <2>2
  <2> HIDE DEF u
  <2>6. ASSUME NEW k \in 1..m PROVE u[k] = u[k - 1] + sizes[k]
    <3>1. k - 1 \in 0..(m - 1) /\ u[k - 1] = t[k - 1]
      BY <2>2, <2>4
    <3>2. CASE k = m
      BY <2>5, <3>1, <3>2
    <3>3. CASE k < m
      <4>1. k \in 1..(m - 1) /\ k \in 0..(m - 1)
        BY <2>2, <3>3
      <4> QED
        BY <2>1, <2>4, <3>1, <4>1 DEF Sums
    <3> QED
      BY <2>2, <3>2, <3>3
  <2>7. Sums(u, sizes, m)
    BY <2>1, <2>2, <2>3, <2>4, <2>6 DEF Sums
  <2> QED
    BY <2>3, <2>7
<1> HIDE DEF S
<1>4. \A m \in 1..n : m - 1 \in S => m \in S
  BY <1>3
<1>5. \A m \in 0..n : m \in S
  <2> HIDE DEF n
  <2> QED
    BY <1>1, <1>2, <1>4, UpTo
<1> QED
  BY <1>1, <1>5 DEF S

LEMMA RunningSums ==
  ASSUME NEW sizes \in Seq(Nat)
  PROVE  Sums(Running(sizes), sizes, Len(sizes))
<1> DEFINE n == Len(sizes)
           Adds(t) == [m \in 0..n |-> IF m = 0 THEN 0 ELSE t[m - 1] + sizes[m]]
<1>1. n \in Nat
  OBVIOUS
<1>2. Running(sizes) = CHOOSE t : t = Adds(t)
  BY DEF Running
<1>3. PICK t : Sums(t, sizes, n)
  BY SumsExist
<1>4. t = Adds(t)
  <2>1. t = [m \in 0..n |-> t[m]]
    BY <1>3 DEF Sums
  <2>2. ASSUME NEW m \in 0..n PROVE t[m] = IF m = 0 THEN 0 ELSE t[m - 1] + sizes[m]
    BY <1>1, <1>3 DEF Sums
  <2> QED
    BY <2>1, <2>2
<1>5. Running(sizes) = Adds(Running(sizes))
  BY <1>2, <1>4
<1> DEFINE r == Running(sizes)
<1> HIDE DEF r
<1>6. r = Adds(r)
  BY <1>5 DEF r
<1>7. \A m \in 0..n : r[m] = IF m = 0 THEN 0 ELSE r[m - 1] + sizes[m]
  BY <1>6
<1>8. DOMAIN r = 0..n /\ r = [m \in 0..n |-> r[m]]
  BY <1>6
<1> DEFINE S == {m \in 0..n : r[m] = t[m]}
<1>9. 0 \in S
  BY <1>1, <1>3, <1>7 DEF Sums
<1>10. ASSUME NEW m \in 1..n, m - 1 \in S PROVE m \in S
  <2>1. m \in 0..n /\ m # 0
    BY <1>1
  <2>2. r[m] = r[m - 1] + sizes[m] /\ t[m] = t[m - 1] + sizes[m]
    BY <1>3, <1>7, <2>1 DEF Sums
  <2> QED
    BY <1>10, <2>1, <2>2
<1> HIDE DEF S
<1>11. \A m \in 0..n : m \in S
  BY <1>1, <1>9, <1>10, UpTo
<1>12. \A m \in 0..n : r[m] = t[m]
  BY <1>11 DEF S
<1>13. r = t
  <2>1. t = [m \in 0..n |-> t[m]]
    BY <1>3 DEF Sums
  <2> QED
    BY <1>8, <1>12, <2>1
<1> QED
  BY <1>3, <1>13 DEF r

LEMMA TotalOfNone == Total(<<>>) = 0
<1>1. <<>> \in Seq(Nat) /\ Len(<<>>) = 0
  OBVIOUS
<1>2. Sums(Running(<<>>), <<>>, Len(<<>>))
  BY <1>1, RunningSums
<1> QED
  BY <1>1, <1>2 DEF Total, Sums

LEMMA TotalOfAppend ==
  ASSUME NEW sizes \in Seq(Nat), NEW size \in Nat
  PROVE  /\ Total(sizes) \in Nat
         /\ Total(Append(sizes, size)) = Total(sizes) + size
<1> DEFINE n == Len(sizes)
           more == Append(sizes, size)
           r == Running(sizes)
           u == Running(more)
           S == {m \in 0..n : u[m] = r[m]}
<1>1. n \in Nat /\ more \in Seq(Nat) /\ Len(more) = n + 1 /\ more[n + 1] = size
  OBVIOUS
<1>2. \A m \in 1..n : more[m] = sizes[m]
  OBVIOUS
<1>3. /\ r \in [0..n -> Nat] /\ r[0] = 0
      /\ \A m \in 1..n : r[m] = r[m - 1] + sizes[m]
  BY RunningSums DEF Sums
<1>4. u[0] = 0 /\ \A m \in 1..(n + 1) : u[m] = u[m - 1] + more[m]
  <2>1. Sums(u, more, n + 1)
    BY <1>1, RunningSums
  <2> QED
    BY <2>1 DEF Sums
<1>5. Total(sizes) = r[n] /\ Total(more) = u[n + 1]
  BY <1>1 DEF Total
<1> HIDE DEF n, more, r, u
<1>6. 0 \in S
  BY <1>1, <1>3, <1>4
<1>7. \A m \in 1..n : m - 1 \in S => m \in S
  <2> TAKE m \in 1..n
  <2> HAVE m - 1 \in S
  <2>1. m \in 0..n /\ m \in 1..(n + 1) /\ u[m - 1] = r[m - 1]
    BY <1>1
  <2> QED
    BY <1>2, <1>3, <1>4, <2>1
<1> HIDE DEF S
<1>8. \A m \in 0..n : m \in S
  BY <1>1, <1>6, <1>7, UpTo
<1>9. u[n] = r[n]
  BY <1>1, <1>8 DEF S
<1>10. n + 1 \in 1..(n + 1) /\ (n + 1) - 1 = n /\ n \in 0..n
  BY <1>1
<1>11. u[n + 1] = r[n] + size
  BY <1>1, <1>4, <1>9, <1>10
<1> QED
  BY <1>3, <1>5, <1>10, <1>11 DEF more

LEMMA TotalIsNat ==
  ASSUME NEW sizes \in Seq(Nat)
  PROVE  Total(sizes) \in Nat
  BY TotalOfAppend

-----------------------------------------------------------------------------
(* Sizes                                                                    *)

(* A row of the table has values, with sizes.                               *)
LEMMA RowsHaveSizes ==
  ASSUME NEW row \in Row
  PROVE  /\ row \in [1..Columns -> Value]
         /\ \A j \in 1..Columns : CutSize(row[j]) \in Nat
         /\ EncodedRow(row) \in Nat
         /\ EncodedRow(row) >= Commas(Columns) + 2
<1>1. row \in [1..Columns -> Value] /\ Columns \in Nat
  BY ResultPageAssumption
<1>2. \A j \in 1..Columns : CutSize(row[j]) \in Nat
  <2> TAKE j \in 1..Columns
  <2>1. row[j] \in Value
    BY <1>1
  <2> QED
    BY <2>1, ResultPageAssumption DEF CutSize
<1> DEFINE sizes == [j \in 1..Columns |-> CutSize(row[j])]
<1>3. sizes \in [1..Columns -> Nat]
  BY <1>2
<1> HIDE DEF sizes
<1>4. sizes \in Seq(Nat)
  BY <1>1, <1>3, SeqDef
<1>5. Total(sizes) \in Nat
  BY <1>4, TotalIsNat
<1>6. EncodedRow(row) = Total(sizes) + Commas(Columns) + 2
  BY DEF EncodedRow, sizes
<1> QED
  BY <1>1, <1>2, <1>5, <1>6 DEF Commas

(* What the tab is sent of a row is as long as what was counted for it.     *)
LEMMA ShownAsCounted ==
  ASSUME NEW row \in Row
  PROVE  ShownRow([j \in 1..Columns |-> Cut(row[j])]) = EncodedRow(row)
<1> DEFINE shown == [j \in 1..Columns |-> Cut(row[j])]
<1>1. \A j \in 1..Columns : ShownSize(shown[j]) = CutSize(row[j])
  <2> TAKE j \in 1..Columns
  <2>1. row[j] \in Value /\ shown[j] = Cut(row[j])
    BY RowsHaveSizes
  <2> QED
    BY <2>1, ResultPageAssumption DEF ShownSize, Cut, CutSize, Long
<1> HIDE DEF shown
<1>2. [j \in 1..Columns |-> ShownSize(shown[j])] = [j \in 1..Columns |-> CutSize(row[j])]
  BY <1>1
<1> QED
  BY <1>2 DEF ShownRow, EncodedRow, shown

(* The sizes of rows are those of the rows before, and of the last.         *)
LEMMA SizesOfAppend ==
  ASSUME NEW rows \in Seq(Row), NEW row \in Row
  PROVE  /\ RowSizes(rows) \in Seq(Nat)
         /\ Total(RowSizes(rows)) \in Nat
         /\ Total(RowSizes(Append(rows, row))) = Total(RowSizes(rows)) + EncodedRow(row)
<1> DEFINE n == Len(rows)
           more == Append(rows, row)
<1>1. n \in Nat /\ Len(more) = n + 1 /\ more[n + 1] = row /\ \A i \in 1..n : more[i] = rows[i] /\ rows[i] \in Row
  OBVIOUS
<1>2. RowSizes(rows) = [i \in 1..n |-> EncodedRow(rows[i])]
  BY DEF RowSizes
<1>3. RowSizes(more) = [i \in 1..(n + 1) |-> EncodedRow(more[i])]
  BY <1>1 DEF RowSizes
<1>4. \A i \in 1..n : EncodedRow(rows[i]) \in Nat
  BY <1>1, RowsHaveSizes
<1> DEFINE a == RowSizes(rows)
           b == RowSizes(more)
           e == EncodedRow(row)
<1>5. a \in [1..n -> Nat]
  BY <1>2, <1>4
<1>6. b = [i \in 1..(n + 1) |-> b[i]] /\ b[n + 1] = e /\ \A i \in 1..n : b[i] = a[i]
  BY <1>1, <1>2, <1>3
<1>7. e \in Nat
  BY RowsHaveSizes
<1> HIDE DEF n, more, a, b, e
<1>8. a \in Seq(Nat) /\ Len(a) = n
  BY <1>1, <1>5, SeqDef
<1>9. b = Append(a, e)
  <2> DEFINE c == Append(a, e)
  <2>1. c \in Seq(Nat) /\ Len(c) = n + 1 /\ c[n + 1] = e /\ \A i \in 1..n : c[i] = a[i]
    BY <1>7, <1>8
  <2> HIDE DEF c
  <2>2. c = [i \in 1..(n + 1) |-> c[i]]
    BY <2>1, SeqDef
  <2>3. \A i \in 1..(n + 1) : b[i] = c[i]
    <3>1. \A i \in 1..(n + 1) : i = n + 1 \/ i \in 1..n
      BY <1>1
    <3>2. b[n + 1] = c[n + 1] /\ \A i \in 1..n : b[i] = c[i]
      BY <1>6, <2>1
    <3> QED
      BY <3>1, <3>2
  <2>4. b = c
    BY <1>6, <2>2, <2>3
  <2> QED
    BY <2>4 DEF c
<1>10. Total(a) \in Nat /\ Total(Append(a, e)) = Total(a) + e
  BY <1>7, <1>8, TotalOfAppend
<1> QED
  BY <1>8, <1>9, <1>10 DEF a, b, e, more

-----------------------------------------------------------------------------
(* References                                                               *)

(* The references of some rows, one by one.                                 *)
LEMMA RefsInOf ==
  ASSUME NEW rows
  PROVE  \A ref : ref \in RefsIn(rows) <=>
           \E i \in 1..Len(rows), j \in 1..Columns :
             Long(rows[i][j]) /\ ref = [row |-> i, column |-> j, hash |-> rows[i][j]]
<1> TAKE ref
<1>1. ASSUME ref \in RefsIn(rows)
      PROVE  \E i \in 1..Len(rows), j \in 1..Columns :
               Long(rows[i][j]) /\ ref = [row |-> i, column |-> j, hash |-> rows[i][j]]
  <2>1. PICK p \in (1..Len(rows)) \X (1..Columns) :
          /\ Long(rows[p[1]][p[2]])
          /\ ref = [row |-> p[1], column |-> p[2], hash |-> rows[p[1]][p[2]]]
    BY <1>1 DEF RefsIn
  <2> QED
    BY <2>1
<1>2. ASSUME NEW i \in 1..Len(rows), NEW j \in 1..Columns, Long(rows[i][j]),
             ref = [row |-> i, column |-> j, hash |-> rows[i][j]]
      PROVE  ref \in RefsIn(rows)
  <2>1. <<i, j>> \in {q \in (1..Len(rows)) \X (1..Columns) : Long(rows[q[1]][q[2]])}
    BY <1>2
  <2> QED
    BY <1>2, <2>1 DEF RefsIn
<1> QED
  BY <1>1, <1>2

LEMMA NoRowsNoRefs == RefsIn(<<>>) = {}
<1>1. \A ref : ref \notin RefsIn(<<>>)
  BY RefsInOf
<1> QED
  BY <1>1

LEMMA RefsOfRow ==
  ASSUME NEW row, NEW i
  PROVE  /\ \A ref : ref \in RefsOf(row, i) <=>
              \E j \in 1..Columns : Long(row[j]) /\ ref = [row |-> i, column |-> j, hash |-> row[j]]
         /\ IsFiniteSet(RefsOf(row, i)) /\ Cardinality(RefsOf(row, i)) \in Nat
<1> DEFINE S == {k \in 1..Columns : Long(row[k])}
           T == RefsOf(row, i)
           f == [j \in S |-> [row |-> i, column |-> j, hash |-> row[j]]]
<1>1. \A ref : ref \in T <=>
        \E j \in 1..Columns : Long(row[j]) /\ ref = [row |-> i, column |-> j, hash |-> row[j]]
  BY DEF RefsOf
<1>2. IsFiniteSet(1..Columns)
  BY FS_Interval, ResultPageAssumption
<1>3. IsFiniteSet(S)
  <2>1. S \in SUBSET (1..Columns)
    OBVIOUS
  <2> HIDE DEF S
  <2> QED
    BY <1>2, <2>1, FS_Subset
<1>4. f \in [S -> T] /\ \A ref \in T : \E j \in S : f[j] = ref
  BY <1>1
<1> HIDE DEF S, T, f
<1>5. f \in Surjection(S, T)
  BY <1>4 DEF Surjection
<1>6. IsFiniteSet(T) /\ Cardinality(T) \in Nat
  BY <1>3, <1>5, FS_Surjection, FS_CardinalityType
<1> QED
  BY <1>1, <1>6 DEF T

(* The references of one row more.                                          *)
LEMMA RefsOfAppend ==
  ASSUME NEW rows \in Seq(Row), NEW row \in Row, IsFiniteSet(RefsIn(rows))
  PROVE  /\ RefsIn(Append(rows, row)) = RefsIn(rows) \cup RefsOf(row, Len(rows) + 1)
         /\ IsFiniteSet(RefsIn(Append(rows, row)))
         /\ Cardinality(RefsIn(Append(rows, row))) =
              Cardinality(RefsIn(rows)) + Cardinality(RefsOf(row, Len(rows) + 1))
<1> DEFINE n == Len(rows)
           more == Append(rows, row)
           A == RefsIn(rows)
           B == RefsOf(row, n + 1)
           C == RefsIn(more)
<1>1. n \in Nat /\ Len(more) = n + 1 /\ more[n + 1] = row /\ \A i \in 1..n : more[i] = rows[i]
  OBVIOUS
<1>2. \A ref : ref \in A <=>
        \E i \in 1..n, j \in 1..Columns :
          Long(rows[i][j]) /\ ref = [row |-> i, column |-> j, hash |-> rows[i][j]]
  BY RefsInOf
<1>3. \A ref : ref \in B <=>
        \E j \in 1..Columns : Long(row[j]) /\ ref = [row |-> n + 1, column |-> j, hash |-> row[j]]
  BY RefsOfRow
<1>4. \A ref : ref \in C <=>
        \E i \in 1..(n + 1), j \in 1..Columns :
          Long(more[i][j]) /\ ref = [row |-> i, column |-> j, hash |-> more[i][j]]
  <2> HIDE DEF more, n
  <2> QED
    BY <1>1, RefsInOf
<1>5. IsFiniteSet(B) /\ Cardinality(B) \in Nat
  BY RefsOfRow
<1>6. IsFiniteSet(A) /\ Cardinality(A) \in Nat
  BY FS_CardinalityType
<1> HIDE DEF n, more, A, B, C
<1>7. \A i \in 1..(n + 1) : i \in 1..n \/ i = n + 1
  BY <1>1
<1>8. n + 1 \in 1..(n + 1) /\ \A i \in 1..n : i \in 1..(n + 1) /\ i # n + 1
  BY <1>1
<1>9. \A ref \in C : ref \in A \cup B
  <2> TAKE ref \in C
  <2>1. PICK i \in 1..(n + 1), j \in 1..Columns :
          Long(more[i][j]) /\ ref = [row |-> i, column |-> j, hash |-> more[i][j]]
    BY <1>4
  <2>2. CASE i \in 1..n
    BY <1>1, <1>2, <2>1, <2>2
  <2>3. CASE i = n + 1
    BY <1>1, <1>3, <2>1, <2>3
  <2> QED
    BY <1>7, <2>2, <2>3
<1>10. \A ref \in A : ref \in C
  BY <1>1, <1>2, <1>4, <1>8
<1>11. \A ref \in B : ref \in C
  BY <1>1, <1>3, <1>4, <1>8
<1>12. A \cap B = {}
  <2>1. \A ref \in A : ref.row \in 1..n
    BY <1>2
  <2>2. \A ref \in B : ref.row = n + 1
    BY <1>3
  <2> QED
    BY <1>8, <2>1, <2>2
<1>13. C = A \cup B
  BY <1>9, <1>10, <1>11
<1>14. IsFiniteSet(A \cup B) /\ Cardinality(A \cup B) = Cardinality(A) + Cardinality(B) - Cardinality(A \cap B)
  BY <1>5, <1>6, FS_Union
<1>15. Cardinality(A \cup B) = Cardinality(A) + Cardinality(B)
  <2>1. Cardinality(A \cap B) = 0
    BY <1>12, FS_EmptySet
  <2> QED
    BY <1>5, <1>6, <1>14, <2>1
<1> QED
  BY <1>13, <1>14, <1>15 DEF A, B, C, n, more

-----------------------------------------------------------------------------
(* An answer                                                                *)

LEMMA Distribute ==
  ASSUME NEW a \in Nat, NEW b \in Nat, NEW c \in Nat
  PROVE  /\ a * c \in Nat
         /\ (a + b) * c = a * c + b * c
         /\ a * (c + 1) = a * c + a
  OBVIOUS

(* What is charged before there is a row, and what must be kept free of it. *)
LEMMA EnvelopeSize ==
  /\ Envelope \in Nat /\ Reserve \in Nat
  /\ Envelope = Skeleton + Names + Reserve
<1>1. Digits[RowCap] \in Nat
  <2>1. RowCap \in 0..RowCap
    BY ResultPageAssumption
  <2> QED
    BY <2>1, ResultPageAssumption
<1>2. /\ Skeleton \in Nat /\ Names \in Nat /\ Optional \in Nat /\ ElapsedRoom \in Nat
  BY ResultPageAssumption
<1> DEFINE most == Digits[RowCap]
<1> HIDE DEF most
<1>3. Envelope = Skeleton + Names + Optional + most + ElapsedRoom /\ Reserve = Optional + most + ElapsedRoom
  BY DEF Envelope, Reserve, most
<1> QED
  BY <1>1, <1>2, <1>3 DEF most

(* What is counted before the rows are sent is enough, and not more than    *)
(* the Reserve too much.                                                    *)
LEMMA AnswerSize ==
  ASSUME PageTypes, TakenInv, work = "page", NEW elapsed \in Elapsed
  PROVE  bytes \in Nat /\ ExactSize(Answer, elapsed) \in (bytes - Reserve)..bytes
<1> DEFINE n == Len(out)
           t == Total(RowSizes(out))
           k == Cardinality(refs)
           e == k * RefSize
           optional == IF refs = {} THEN 0 ELSE Optional
           last == IF Columns = 0 THEN 0 ELSE 1
           mark == IF HasRow THEN 1 ELSE 0
           digits == Digits[Len(out)]
           most == Digits[RowCap]
           rows == Answer.rows
           shown == [i \in 1..Len(rows) |-> ShownRow(rows[i])]
<1>1. n \in Nat /\ \A i \in 1..n : out[i] \in Row
  BY DEF PageTypes
<1>2. rows = [i \in 1..n |-> [j \in 1..Columns |-> Cut(out[i][j])]]
  BY DEF Answer
<1>3. Len(rows) = n
  <2>1. DOMAIN rows = 1..n
    BY <1>2
  <2> HIDE DEF rows
  <2>2. rows \in Seq({rows[i] : i \in 1..n})
    <3>1. rows \in [1..n -> {rows[i] : i \in 1..n}]
      BY <1>2, <2>1
    <3> QED
      BY <1>1, <3>1, SeqDef
  <2> QED
    BY <1>1, <2>1, <2>2, LenProperties
<1>4. shown = RowSizes(out)
  <2>1. \A i \in 1..n : ShownRow(rows[i]) = EncodedRow(out[i])
    <3> TAKE i \in 1..n
    <3>1. rows[i] = [j \in 1..Columns |-> Cut(out[i][j])]
      BY <1>2
    <3> HIDE DEF rows
    <3> QED
      BY <1>1, <3>1, ShownAsCounted
  <2> HIDE DEF rows
  <2> QED
    BY <1>3, <2>1 DEF RowSizes
<1>5. Answer.refs = refs /\ Answer.truncated = HasRow
  BY DEF Answer, KeptRefs, Stopped
<1>6. ExactSize(Answer, elapsed) =
        Skeleton - mark + Names - last + Digits[Len(rows)] + elapsed + 1
        + Total(shown) + Commas(Len(rows)) + optional + e + Commas(k)
  BY <1>5, Zenon DEF ExactSize
<1>7. bytes = Envelope + t + n + k * (RefSize + 1) /\ IsFiniteSet(refs)
  BY DEF TakenInv, Counted, Collecting
<1>8. t \in Nat
  <2>1. RowSizes(out) = [i \in 1..n |-> EncodedRow(out[i])]
    BY DEF RowSizes
  <2>2. \A i \in 1..n : EncodedRow(out[i]) \in Nat
    BY <1>1, RowsHaveSizes
  <2>3. RowSizes(out) \in [1..n -> Nat]
    BY <2>1, <2>2
  <2>4. RowSizes(out) \in Seq(Nat)
    BY <1>1, <2>3, SeqDef
  <2> QED
    BY <2>4, TotalIsNat
<1>9. k \in Nat /\ (k = 0 <=> refs = {})
  BY <1>7, FS_CardinalityType, FS_EmptySet
<1>10. /\ Skeleton \in Nat /\ Names \in Nat /\ RefSize \in Nat /\ ElapsedRoom \in Nat
       /\ Optional \in Nat /\ Optional >= 1
  BY ResultPageAssumption
<1>11. e \in Nat /\ k * (RefSize + 1) = e + k
  BY <1>9, <1>10, Distribute
<1>12. n - Commas(n) \in 0..1 /\ Commas(n) \in Nat /\ k - Commas(k) \in 0..1 /\ Commas(k) \in Nat
  BY <1>1, <1>9 DEF Commas
<1>13. last \in 0..1 /\ mark \in 0..1 /\ optional \in Nat
  BY <1>10
<1>14. digits \in Nat /\ most \in Nat /\ digits >= 1 /\ digits <= most
  <2>1. RowCap \in Nat /\ n \in 0..RowCap /\ RowCap \in 0..RowCap
    BY <1>1, ResultPageAssumption DEF TakenInv
  <2>2. digits \in 1..most /\ most \in Nat
    BY <2>1, ResultPageAssumption
  <2> QED
    BY <2>2
<1>15. elapsed \in Nat /\ elapsed >= 1 /\ elapsed <= ElapsedRoom - 1
  <2>1. elapsed \in 1..(ElapsedRoom - 1)
    BY ResultPageAssumption
  <2> QED
    BY <1>10, <2>1
<1>16. (Optional - optional) + (k - Commas(k)) \in 1..Optional
  <2>1. CASE refs = {}
    <3>1. k = 0 /\ Commas(k) = 0 /\ optional = 0
      BY <1>9, <2>1 DEF Commas
    <3> HIDE DEF k, optional
    <3> QED
      BY <1>10, <3>1
  <2>2. CASE refs # {}
    <3>1. k # 0 /\ Commas(k) = k - 1 /\ optional = Optional
      BY <1>9, <2>2 DEF Commas
    <3> HIDE DEF k, optional
    <3> QED
      BY <1>9, <1>10, <3>1
  <2> QED
    BY <2>1, <2>2
<1>17. Envelope = Skeleton + Names + Reserve /\ Reserve = Optional + most + ElapsedRoom
  BY EnvelopeSize DEF Reserve
<1>18. ExactSize(Answer, elapsed) = Skeleton - mark + Names - last + digits + elapsed + 1
                                    + t + Commas(n) + optional + e + Commas(k)
  BY <1>3, <1>4, <1>6
<1> HIDE DEF n, t, k, e, optional, last, mark, digits, most
<1>19. bytes = Skeleton + Names + Optional + most + ElapsedRoom + t + n + e + k
  BY <1>1, <1>7, <1>8, <1>9, <1>10, <1>11, <1>14, <1>17
<1> DEFINE x == ExactSize(Answer, elapsed)
           cn == Commas(n)
           ck == Commas(k)
           spare == (Optional - optional) + (k - ck)
<1>20. x = Skeleton - mark + Names - last + digits + elapsed + 1 + t + cn + optional + e + ck
  BY <1>18
<1>21. n - cn \in 0..1 /\ cn \in Nat /\ ck \in Nat /\ spare \in 1..Optional
  BY <1>12, <1>16
<1>22. spare = (Optional - optional) + (k - ck)
  OBVIOUS
<1> HIDE DEF x, cn, ck, rows, shown, spare
<1>23. bytes \in Nat
  BY <1>1, <1>8, <1>9, <1>10, <1>11, <1>14, <1>19
<1>24. x \in Int /\ bytes - x = spare + (most - digits) + (ElapsedRoom - elapsed) - 1 + mark + last + (n - cn)
  BY <1>1, <1>8, <1>9, <1>10, <1>11, <1>13, <1>14, <1>15, <1>19, <1>20, <1>21, <1>22
<1>25. bytes - x \in 0..(Optional + most + ElapsedRoom)
  BY <1>10, <1>13, <1>14, <1>15, <1>21, <1>24
<1>26. x \in (bytes - Reserve)..bytes
  <2>1. Reserve \in Nat /\ bytes - x \in 0..Reserve
    BY <1>17, <1>25, EnvelopeSize
  <2> QED
    BY <1>23, <1>24, <2>1
<1> QED
  BY <1>23, <1>26 DEF x

LEMMA FirstRows ==
  ASSUME NEW s \in Seq(Row), NEW t \in Seq(Row),
         Len(s) <= Len(t), \A i \in 1..Len(s) : s[i] = t[i]
  PROVE  IsPrefix(s, t)
<1> DEFINE n == Len(s)
<1>1. n \in Nat /\ Len(t) \in Nat /\ \A i \in 1..n : s[i] \in Row /\ t[i] = s[i]
  OBVIOUS
<1>2. /\ SubSeq(s, 1, n) \in Seq(Row) /\ Len(SubSeq(s, 1, n)) = n
      /\ \A i \in 1..n : SubSeq(s, 1, n)[i] = s[i]
  BY <1>1
<1>3. /\ SubSeq(t, 1, n) \in Seq(Row) /\ Len(SubSeq(t, 1, n)) = n
      /\ \A i \in 1..n : SubSeq(t, 1, n)[i] = t[i]
  BY <1>1
<1>4. SubSeq(s, 1, n) = SubSeq(t, 1, n)
  <2> DEFINE a == SubSeq(s, 1, n)
             b == SubSeq(t, 1, n)
  <2>1. a \in Seq(Row) /\ b \in Seq(Row) /\ Len(a) = Len(b) /\ \A i \in 1..Len(a) : a[i] = b[i]
    BY <1>1, <1>2, <1>3
  <2> HIDE DEF a, b
  <2>2. a = b
    BY <2>1, SeqEqual
  <2> QED
    BY <2>2 DEF a, b
<1> QED
  BY <1>4 DEF IsPrefix

(* An answer keeps the limit and tells what it leaves out.                  *)
LEMMA AnswerIsSound ==
  ASSUME PageTypes, TakenInv, work = "page", LoopEnds
  PROVE  /\ \A e \in Elapsed : ExactSize(Answer, e) <= limit
         /\ Len(Answer.rows) = Len(out) /\ DOMAIN Answer.rows = 1..Len(out)
         /\ IsPrefix(out, source)
         /\ HasRow <=> Len(out) < Len(source)
         /\ HasRow /\ Len(out) < RowCap =>
              \A e \in Elapsed :
                ExactSize(Answer, e) + RowBytes(NextRow, Len(out) + 1) + Reserve > limit
<1> DEFINE x(e) == ExactSize(Answer, e)
<1>1. \A e \in Elapsed : bytes \in Nat /\ x(e) \in (bytes - Reserve)..bytes
  BY AnswerSize
<1>2. bytes <= limit /\ limit \in Nat /\ Reserve \in Nat
  BY EnvelopeSize DEF TakenInv, PageTypes, Collecting
<1> HIDE DEF x
<1>4. \A e \in Elapsed : x(e) <= limit
  BY <1>1, <1>2
<1>5. Len(Answer.rows) = Len(out) /\ DOMAIN Answer.rows = 1..Len(out)
  <2> DEFINE n == Len(out)
             rows == [i \in 1..n |-> [j \in 1..Columns |-> Cut(out[i][j])]]
             S == {rows[i] : i \in 1..n}
  <2>1. n \in Nat
    BY DEF PageTypes
  <2>2. rows \in [1..n -> S]
    OBVIOUS
  <2>3. Answer.rows = rows
    BY DEF Answer
  <2> HIDE DEF n, rows, S
  <2>4. rows \in Seq(S) /\ Len(rows) = n /\ DOMAIN rows = 1..n
    BY <2>1, <2>2, SeqDef
  <2> QED
    BY <2>3, <2>4 DEF n
<1>6. IsPrefix(out, source)
  BY FirstRows DEF PageTypes, TakenInv
<1>7. ASSUME HasRow, Len(out) < RowCap
      PROVE  \A e \in Elapsed : x(e) + RowBytes(NextRow, Len(out) + 1) + Reserve > limit
  <2> DEFINE more == RowBytes(NextRow, Len(out) + 1)
  <2>1. bytes + more > limit
    BY <1>7 DEF LoopEnds, BelowCap, Over
  <2>2. more \in Nat
    <3>1. NextRow \in Row
      <4>1. Len(out) + 1 \in 1..Len(source)
        BY <1>7 DEF PageTypes, HasRow
      <4> QED
        BY <4>1 DEF PageTypes, NextRow
    <3>2. EncodedRow(NextRow) \in Nat /\ RefSize \in Nat
      BY <3>1, RowsHaveSizes, ResultPageAssumption
    <3>3. Cardinality(RefsOf(NextRow, Len(out) + 1)) \in Nat
      BY RefsOfRow
    <3> QED
      BY <3>2, <3>3, Distribute DEF RowBytes
  <2> HIDE DEF more
  <2>3. \A e \in Elapsed : x(e) + more + Reserve > limit
    BY <1>1, <1>2, <2>1, <2>2
  <2> QED
    BY <2>3 DEF more
<1> QED
  BY <1>4, <1>5, <1>6, <1>7 DEF x, HasRow

LEMMA AnswerKeeps ==
  ASSUME PageInv, AnswerPage
  PROVE  PageInv'
<1>1. /\ work = "page" /\ LoopEnds /\ data' = Answer /\ cell' = Closed
      /\ work' = "idle" /\ source' = <<>> /\ out' = <<>> /\ refs' = {} /\ bytes' = Envelope
      /\ UNCHANGED <<offset, table, changes, file, fixed>>
  BY DEF AnswerPage, Mounted, Returns
<1>2. limit' = limit /\ PageTypes /\ TakenInv
  BY <1>1 DEF PageInv, fixed
<1>3. PageTypes'
  BY <1>1, <1>2 DEF PageTypes, Closed
<1>4. TakenInv' /\ FileInv'
  BY <1>1, ResultPageAssumption DEF TakenInv, FileInv, Collecting
<1>5. CellInv' /\ OpenedIsWhatWasCut'
  BY <1>1 DEF CellInv, OpenedIsWhatWasCut, Closed
<1>6. /\ \A e \in Elapsed : ExactSize(Answer, e) <= limit
      /\ Len(Answer.rows) = Len(out) /\ DOMAIN Answer.rows = 1..Len(out)
      /\ IsPrefix(out, source)
      /\ HasRow <=> Len(out) < Len(source)
      /\ HasRow /\ Len(out) < RowCap =>
           \A e \in Elapsed :
             ExactSize(Answer, e) + RowBytes(NextRow, Len(out) + 1) + Reserve > limit
  BY <1>1, <1>2, AnswerIsSound
<1>7. Answer.full = out /\ Answer.statement = source /\ Answer.truncated = HasRow /\ Answer.refs = refs
  BY DEF Answer, KeptRefs, Stopped
<1>8. AnswerWithinLimit'
  BY <1>1, <1>2, <1>6 DEF AnswerWithinLimit
<1>9. TruncationIsTold'
  BY <1>1, <1>2, <1>6, <1>7 DEF TruncationIsTold, NextRow
<1>10. RefsNameCutCells'
  <2>1. refs = RefsIn(out)
    BY <1>1, <1>2 DEF TakenInv, Collecting
  <2> QED
    BY <1>1, <1>6, <1>7, <2>1 DEF RefsNameCutCells, RefsIn
<1> QED
  BY <1>3, <1>4, <1>5, <1>8, <1>9, <1>10 DEF PageInv, CutsAreTold

-----------------------------------------------------------------------------
(* The steps of ResultPage                                                  *)

(* What is about the page shown stays while nothing of it changes.          *)
LEMMA ShownStays ==
  ASSUME CellInv, AnswerWithinLimit, CutsAreTold, OpenedIsWhatWasCut, UNCHANGED <<limit, data, cell>>
  PROVE  CellInv' /\ AnswerWithinLimit' /\ CutsAreTold' /\ OpenedIsWhatWasCut'
<1>1. CellInv' /\ OpenedIsWhatWasCut'
  BY DEF CellInv, OpenedIsWhatWasCut
<1>2. AnswerWithinLimit'
  BY DEF AnswerWithinLimit
<1>3. CutsAreTold'
  BY DEF CutsAreTold, TruncationIsTold, RefsNameCutCells
<1> QED
  BY <1>1, <1>2, <1>3

(* A row that is taken is counted.                                          *)
LEMMA TakeRowKeeps ==
  ASSUME PageInv, TakeRow
  PROVE  PageInv'
<1> DEFINE n == Len(out)
           row == NextRow
<1>1. /\ Collecting /\ n < Len(source) /\ n < RowCap /\ ~Over(row)
      /\ bytes' = bytes + RowBytes(row, n + 1)
      /\ refs' = refs \cup RefsOf(row, n + 1)
      /\ out' = Append(out, row)
      /\ UNCHANGED <<work, source, table, changes, file, tab, fixed>>
  BY DEF TakeRow, HasRow, BelowCap
<1>2. PageTypes /\ TakenInv
  BY DEF PageInv
<1>3. n \in Nat /\ Len(source) \in Nat /\ n + 1 \in 1..Len(source) /\ row = source[n + 1] /\ row \in Row
  BY <1>1, <1>2 DEF PageTypes, NextRow
<1> HIDE DEF n, row
<1>4. PageTypes'
  BY <1>1, <1>2, <1>3 DEF PageTypes, tab, fixed
<1>5. CellInv' /\ AnswerWithinLimit' /\ CutsAreTold' /\ OpenedIsWhatWasCut'
  BY <1>1, ShownStays DEF PageInv, tab, fixed
<1>6. FileInv'
  BY <1>1 DEF FileInv, Collecting
<1>7. /\ out \in Seq(Row) /\ Len(out) = n
      /\ refs = RefsIn(out) /\ IsFiniteSet(refs) /\ bytes = Counted(out, refs)
  BY <1>1, <1>2 DEF TakenInv, PageTypes, n
<1>8. refs' = RefsIn(out') /\ IsFiniteSet(refs')
      /\ Cardinality(refs') = Cardinality(refs) + Cardinality(RefsOf(row, n + 1))
  BY <1>1, <1>3, <1>7, RefsOfAppend
<1>9. /\ Len(out') = n + 1
      /\ \A i \in 1..n : out'[i] = out[i]
      /\ out'[n + 1] = row
  BY <1>1, <1>3, <1>7
<1>10. bytes' = Counted(out', refs')
  <2> DEFINE t == Total(RowSizes(out))
             u == Total(RowSizes(out'))
             e == EncodedRow(row)
             k == Cardinality(refs)
             m == Cardinality(RefsOf(row, n + 1))
             r == RefSize + 1
  <2>1. t \in Nat /\ u = t + e
    BY <1>1, <1>3, <1>7, SizesOfAppend
  <2>2. e \in Nat /\ r \in Nat /\ Envelope \in Nat
    BY <1>3, RowsHaveSizes, EnvelopeSize, ResultPageAssumption
  <2>3. k \in Nat /\ m \in Nat
    BY <1>7, FS_CardinalityType, RefsOfRow
  <2>4. bytes = Envelope + t + n + k * r
    BY <1>7 DEF Counted
  <2>5. bytes' = bytes + (e + 1 + m * r)
    BY <1>1 DEF RowBytes
  <2>6. Counted(out', refs') = Envelope + u + (n + 1) + (k + m) * r
    BY <1>8, <1>9 DEF Counted
  <2> HIDE DEF t, u, e, k, m, r
  <2>7. k * r \in Nat /\ m * r \in Nat /\ (k + m) * r = k * r + m * r
    BY <2>2, <2>3, Distribute
  <2> DEFINE kr == k * r
             mr == m * r
  <2> HIDE DEF kr, mr
  <2>8. bytes' = (Envelope + t + n + kr) + (e + 1 + mr)
    BY <2>4, <2>5 DEF kr, mr
  <2>9. Counted(out', refs') = Envelope + (t + e) + (n + 1) + (kr + mr)
    BY <2>1, <2>6, <2>7 DEF kr, mr
  <2>10. kr \in Nat /\ mr \in Nat
    BY <2>7 DEF kr, mr
  <2> QED
    BY <1>3, <2>1, <2>2, <2>8, <2>9, <2>10
<1>11. bytes' <= limit'
  <2>1. ~(bytes + RowBytes(row, n + 1) > limit)
    BY <1>1 DEF Over, n
  <2>2. bytes' \in Int /\ limit \in Int /\ limit' = limit
    <3>1. bytes' \in Int
      <4> DEFINE t == Total(RowSizes(out'))
                 k == Cardinality(refs')
      <4>1. t \in Nat
        BY <1>1, <1>3, <1>7, SizesOfAppend, RowsHaveSizes
      <4>2. k \in Nat /\ RefSize + 1 \in Nat /\ Envelope \in Nat
        BY <1>8, FS_CardinalityType, EnvelopeSize, ResultPageAssumption
      <4>3. k * (RefSize + 1) \in Nat
        BY <4>2, Distribute
      <4> QED
        BY <1>3, <1>9, <1>10, <4>1, <4>2, <4>3 DEF Counted
    <3> QED
      BY <1>1, <1>2, <3>1 DEF PageTypes, fixed
  <2> QED
    BY <1>1, <2>1, <2>2
<1>12. TakenInv'
  <2>1. \A i \in 1..(n + 1) : out'[i] = source'[i]
    <3>1. \A i \in 1..n : out[i] = source[i]
      BY <1>2 DEF TakenInv, n
    <3>2. \A i \in 1..(n + 1) : i \in 1..n \/ i = n + 1
      BY <1>3
    <3> QED
      BY <1>1, <1>3, <1>9, <3>1, <3>2
  <2>2. n + 1 <= Len(source') /\ n + 1 <= RowCap
    BY <1>1, <1>3, ResultPageAssumption
  <2> QED
    BY <1>8, <1>9, <1>10, <1>11, <2>1, <2>2 DEF TakenInv
<1> QED
  BY <1>4, <1>5, <1>6, <1>12 DEF PageInv

(* The rows of a statement are rows of the table.                           *)
LEMMA StatementIsRows ==
  ASSUME table \in Seq(Row), NEW from \in Nat
  PROVE  Statement(from) \in Seq(Row)
<1> DEFINE len == Len(table)
           last == Min({from + RowCap, len})
<1>1. len \in Nat /\ RowCap \in Nat /\ \A i \in 1..len : table[i] \in Row
  BY ResultPageAssumption
<1>2. last \in Nat /\ last <= len
  <2>1. last = CHOOSE x \in {from + RowCap, len} : \A y \in {from + RowCap, len} : x =< y
    BY DEF Min
  <2>2. \E x \in {from + RowCap, len} : \A y \in {from + RowCap, len} : x =< y
    BY <1>1
  <2> HIDE DEF len, last
  <2>3. last \in {from + RowCap, len} /\ \A y \in {from + RowCap, len} : last =< y
    BY <2>1, <2>2
  <2> QED
    BY <1>1, <2>3
<1> HIDE DEF last
<1>3. \A i \in (from + 1)..last : table[i] \in Row
  BY <1>1, <1>2
<1>4. SubSeq(table, from + 1, last) \in Seq(Row)
  BY <1>2, <1>3, SubSeqProperties
<1> QED
  BY <1>4 DEF Statement, last

(* A statement is sent: nothing has been taken of it.                       *)
LEMMA CollectKeeps ==
  ASSUME PageInv, NEW what \in {"page", "csv"}, NEW from \in Nat, Collect(what, from),
         offset' \in Nat, UNCHANGED <<table, data, cell, limit, kind>>
  PROVE  PageInv'
<1>1. PageTypes
  BY DEF PageInv
<1>2. Statement(from) \in Seq(Row) /\ <<>> \in Seq(Row)
  BY <1>1, StatementIsRows DEF PageTypes
<1>3. /\ out' = <<>> /\ refs' = {} /\ bytes' = Envelope
      /\ work' \in {"idle", what} /\ (work' = what => Envelope <= limit)
      /\ source' \in Seq(Row)
  BY <1>2 DEF Collect
<1>4. PageTypes'
  BY <1>1, <1>2, <1>3 DEF PageTypes
<1>5. FileInv'
  BY <1>3 DEF FileInv
<1>6. TakenInv'
  <2>1. Len(<<>>) = 0 /\ Len(source') \in Nat /\ RowCap \in Nat /\ Envelope \in Nat /\ RefSize \in Nat
    BY <1>3, EnvelopeSize, ResultPageAssumption
  <2>2. RefsIn(<<>>) = {} /\ IsFiniteSet({}) /\ Cardinality({}) = 0
    BY NoRowsNoRefs, FS_EmptySet
  <2>3. RowSizes(<<>>) = <<>>
    BY DEF RowSizes
  <2>4. Counted(<<>>, {}) = Envelope
    BY <2>1, <2>2, <2>3, TotalOfNone DEF Counted
  <2> QED
    BY <1>3, <2>1, <2>2, <2>4 DEF TakenInv, Collecting
<1> QED
  BY <1>4, <1>5, <1>6, ShownStays DEF PageInv

LEMMA AsksKeep ==
  ASSUME PageInv, (\E to \in {n \in 0..MaxRows : n % RowCap = 0} : AskPage(to)) \/ AskFile
  PROVE  PageInv'
<1>1. offset \in Nat
  BY DEF PageInv, PageTypes
<1>2. ASSUME NEW to \in 0..MaxRows, AskPage(to)
      PROVE  PageInv'
  <2>1. to \in Nat /\ offset' = to /\ Collect("page", to) /\ UNCHANGED <<table, data, cell, limit, kind>>
    BY <1>2, ResultPageAssumption DEF AskPage, fixed
  <2> QED
    BY <2>1, CollectKeeps
<1>3. ASSUME AskFile
      PROVE  PageInv'
  <2>1. offset' = offset /\ Collect("csv", 0) /\ UNCHANGED <<table, data, cell, limit, kind>>
    BY <1>3 DEF AskFile, tab, fixed
  <2> QED
    BY <1>1, <2>1, CollectKeeps
<1> QED
  BY <1>2, <1>3

(* The handler is done with its rows.                                       *)
LEMMA ReturnsKeeps ==
  ASSUME PageInv, Returns, UNCHANGED <<table, tab, fixed>>
  PROVE  PageInv'
<1>1. /\ work' = "idle" /\ source' = <<>> /\ out' = <<>> /\ refs' = {}
      /\ UNCHANGED <<limit, offset, table, data, cell>>
  BY DEF Returns, tab, fixed
<1>2. PageTypes'
  BY <1>1 DEF PageInv, PageTypes
<1>3. TakenInv' /\ FileInv'
  BY <1>1, ResultPageAssumption DEF TakenInv, FileInv, Collecting
<1> QED
  BY <1>1, <1>2, <1>3, ShownStays DEF PageInv

(* Somebody else's writes reach neither the rows taken nor those shown.     *)
LEMMA ChangeKeeps ==
  ASSUME PageInv, Change
  PROVE  PageInv'
<1>1. table \in Seq(Row) /\ UNCHANGED <<file, handler, tab, fixed>>
  BY DEF PageInv, PageTypes, Change
<1>2. table' \in Seq(Row)
  <2>1. ASSUME NEW i \in 1..Len(table), NEW row \in Row, table' = [table EXCEPT ![i] = row]
        PROVE  table' \in Seq(Row)
    BY <1>1, <2>1, ExceptSeq
  <2>2. ASSUME NEW i \in 1..Len(table), table' = RemoveAt(table, i)
        PROVE  table' \in Seq(Row)
    <3>1. Len(table) \in Nat /\ \A k \in 1..Len(table) : table[k] \in Row
      BY <1>1
    <3>2. \A k \in 1..(i - 1) : k \in 1..Len(table)
      BY <3>1
    <3>3. \A k \in (i + 1)..Len(table) : k \in 1..Len(table)
      BY <3>1
    <3>4. SubSeq(table, 1, i - 1) \in Seq(Row)
      BY <3>1, <3>2, SubSeqProperties
    <3>5. SubSeq(table, i + 1, Len(table)) \in Seq(Row)
      BY <3>1, <3>3, SubSeqProperties
    <3> QED
      BY <2>2, <3>4, <3>5, ConcatProperties DEF RemoveAt
  <2>3. ASSUME NEW row \in Row, table' = <<row>> \o table
        PROVE  table' \in Seq(Row)
    <3>1. <<row>> \in Seq(Row)
      OBVIOUS
    <3> QED
      BY <1>1, <2>3, <3>1, ConcatProperties
  <2> QED
    BY <2>1, <2>2, <2>3 DEF Change
<1>3. UNCHANGED <<limit, offset, work, source, out, refs, bytes, data, cell, file>>
  BY <1>1 DEF handler, tab, fixed
<1>4. PageTypes'
  BY <1>2, <1>3 DEF PageInv, PageTypes
<1>5. TakenInv' /\ FileInv'
  BY <1>3 DEF PageInv, TakenInv, FileInv, Collecting
<1> QED
  BY <1>3, <1>4, <1>5, ShownStays DEF PageInv

(* A file begins with the rows as they are shown, their long cells cut.     *)
LEMMA ResolvingKeeps ==
  ASSUME PageInv, Resolving
  PROVE  PageInv'
<1>1. /\ work = "csv" /\ work' = "resolve"
      /\ file' = [i \in 1..Len(out) |-> [j \in 1..Columns |-> Cut(out[i][j])]]
      /\ UNCHANGED <<limit, offset, source, out, refs, bytes, table, data, cell>>
  BY DEF Resolving, tab, fixed
<1>2. refs = RefsIn(out)
  BY <1>1 DEF PageInv, TakenInv, Collecting
<1>3. FileInv'
  <2>1. ASSUME NEW i \in 1..Len(out), NEW j \in 1..Columns
        PROVE  file'[i][j] = out[i][j] \/ [row |-> i, column |-> j, hash |-> out[i][j]] \in refs
    <3>1. CASE Long(out[i][j])
      BY <1>2, <3>1, RefsInOf
    <3>2. CASE ~Long(out[i][j])
      BY <1>1, <3>2 DEF Cut
    <3> QED
      BY <3>1, <3>2
  <2>2. file' = [i \in 1..Len(out') |-> [j \in 1..Columns |-> file'[i][j]]]
    BY <1>1
  <2> QED
    BY <1>1, <2>1, <2>2 DEF FileInv
<1>4. PageTypes' /\ TakenInv'
  BY <1>1 DEF PageInv, PageTypes, TakenInv, Collecting
<1> QED
  BY <1>1, <1>3, <1>4, ShownStays DEF PageInv

(* A place that is filled holds the value its reference was taken from.     *)
LEMMA ResolveKeeps ==
  ASSUME PageInv, Resolve
  PROVE  PageInv'
<1>1. PICK ref \in refs :
        \/ /\ \E v \in CellAt(0, ref.row, ref.column) :
                Same(v, ref) /\ file' = [file EXCEPT ![ref.row][ref.column] = v]
           /\ refs' = refs \ {ref}
           /\ UNCHANGED <<work, source, out, bytes>>
        \/ Returns
  BY DEF Resolve
<1>2. work = "resolve" /\ UNCHANGED <<table, changes, tab, fixed>>
  BY DEF Resolve
<1>3. CASE Returns
  BY <1>2, <1>3, ReturnsKeeps
<1>4. ASSUME NEW v, Same(v, ref), file' = [file EXCEPT ![ref.row][ref.column] = v],
             refs' = refs \ {ref}, UNCHANGED <<work, source, out, bytes>>
      PROVE  PageInv'
  <2>1. UNCHANGED <<limit, offset, table, data, cell>>
    BY <1>2 DEF tab, fixed
  <2>2. PageTypes'
    BY <1>4, <2>1 DEF PageInv, PageTypes
  <2>3. TakenInv'
    BY <1>2, <1>4, <2>1 DEF PageInv, TakenInv, Collecting
  <2>4. PICK i \in 1..Len(out), j \in 1..Columns :
          Long(out[i][j]) /\ ref = [row |-> i, column |-> j, hash |-> out[i][j]]
    <3>1. ref \in RefsIn(out)
      BY DEF PageInv, TakenInv
    <3> QED
      BY <3>1, RefsInOf
  <2>5. v = out[i][j] /\ file' = [file EXCEPT ![i][j] = v]
    BY <1>4, <2>4 DEF Same
  <2>6. /\ file = [a \in 1..Len(out) |-> [b \in 1..Columns |-> file[a][b]]]
        /\ \A a \in 1..Len(out), b \in 1..Columns :
             file[a][b] = out[a][b] \/ [row |-> a, column |-> b, hash |-> out[a][b]] \in refs
    BY <1>2 DEF PageInv, FileInv
  <2>7. ASSUME NEW a \in 1..Len(out), NEW b \in 1..Columns
        PROVE  file'[a][b] = IF a = i /\ b = j THEN v ELSE file[a][b]
    <3>1. DOMAIN file = 1..Len(out) /\ DOMAIN file[a] = 1..Columns
      BY <2>6
    <3> QED
      BY <2>5, <3>1
  <2>8. ASSUME NEW a \in 1..Len(out), NEW b \in 1..Columns
        PROVE  file'[a][b] = out[a][b] \/ [row |-> a, column |-> b, hash |-> out[a][b]] \in refs'
    <3>1. CASE a = i /\ b = j
      BY <2>5, <2>7, <3>1
    <3>2. CASE ~(a = i /\ b = j)
      <4>1. [row |-> a, column |-> b, hash |-> out[a][b]] # ref
        BY <2>4, <3>2
      <4>2. file'[a][b] = file[a][b]
        BY <2>7, <3>2
      <4>3. file[a][b] = out[a][b] \/ [row |-> a, column |-> b, hash |-> out[a][b]] \in refs
        BY <2>6
      <4> QED
        BY <1>4, <4>1, <4>2, <4>3
    <3> QED
      BY <3>1, <3>2
  <2>9. file' = [a \in 1..Len(out) |-> [b \in 1..Columns |-> file'[a][b]]]
    <3>1. file' = [a \in 1..Len(out) |-> file'[a]]
      BY <2>5, <2>6
    <3>2. ASSUME NEW a \in 1..Len(out)
          PROVE  file'[a] = [b \in 1..Columns |-> file'[a][b]]
      <4>1. file[a] = [b \in 1..Columns |-> file[a][b]] /\ a \in DOMAIN file
        BY <2>6
      <4>2. file'[a] = IF a = i THEN [file[a] EXCEPT ![j] = v] ELSE file[a]
        BY <2>5, <4>1
      <4> QED
        BY <4>1, <4>2
    <3> QED
      BY <3>1, <3>2
  <2>10. FileInv'
    BY <1>4, <2>8, <2>9 DEF FileInv
  <2> QED
    BY <2>1, <2>2, <2>3, <2>10, ShownStays DEF PageInv
<1> QED
  BY <1>1, <1>3, <1>4

(* The handler and the file do not see what the tab opens.                  *)
LEMMA HandlerStays ==
  ASSUME PageInv, UNCHANGED <<offset, data, table, changes, file, handler, fixed>>,
         cell' = [p \in Position |-> cell'[p]]
  PROVE  PageTypes' /\ TakenInv' /\ FileInv' /\ AnswerWithinLimit' /\ CutsAreTold'
<1>1. UNCHANGED <<limit, offset, work, source, out, refs, bytes, table, data, file>>
  BY DEF handler, fixed
<1>2. PageTypes' /\ TakenInv' /\ FileInv'
  BY <1>1 DEF PageInv, PageTypes, TakenInv, FileInv, Collecting
<1>3. AnswerWithinLimit' /\ CutsAreTold'
  BY <1>1 DEF PageInv, AnswerWithinLimit, CutsAreTold, TruncationIsTold, RefsNameCutCells
<1> QED
  BY <1>2, <1>3

(* A cell goes from closed to asked to what its reference says, or fails.   *)
LEMMA CellsKeep ==
  ASSUME PageInv, NEW p \in Position, Open(p) \/ CellAnswered(p) \/ CellFails(p)
  PROVE  PageInv'
<1>1. UNCHANGED <<offset, data, table, changes, file, handler, fixed>>
  BY DEF Open, CellAnswered, CellFails
<1>2. PICK c : cell' = [cell EXCEPT ![p] = c]
  BY DEF Open, CellAnswered, CellFails
<1>3. cell = [q \in Position |-> cell[q]] /\ CellInv /\ OpenedIsWhatWasCut /\ CutsAreTold
  BY DEF PageInv, PageTypes
<1>4. /\ cell' = [q \in Position |-> cell'[q]]
      /\ \A q \in Position : cell'[q] = IF q = p THEN cell'[p] ELSE cell[q]
  BY <1>2, <1>3
<1>5. PageTypes' /\ TakenInv' /\ FileInv' /\ AnswerWithinLimit' /\ CutsAreTold'
  BY <1>1, <1>4, HandlerStays
<1>6. SUFFICES
        /\ cell'[p].is = "asked" =>
             /\ data # NoData /\ cell'[p].ref \in data.refs
             /\ <<cell'[p].ref.row, cell'[p].ref.column>> = p
        /\ cell'[p].is = "full" =>
             /\ data # NoData /\ p[1] \in DOMAIN data.rows
             /\ data.full[p[1]][p[2]] = cell'[p].value
  <2>1. data' = data
    BY <1>1
  <2>2. CellInv'
    BY <1>3, <1>4, <1>6, <2>1 DEF CellInv
  <2>3. OpenedIsWhatWasCut'
    BY <1>3, <1>4, <1>6, <2>1 DEF OpenedIsWhatWasCut
  <2> QED
    BY <1>5, <2>2, <2>3 DEF PageInv
<1>7. CASE Open(p)
  <2>1. PICK ref \in Cuts(p) : cell' = [cell EXCEPT ![p] = [is |-> "asked", from |-> offset, ref |-> ref]]
    BY <1>7 DEF Open
  <2>2. cell'[p] = [is |-> "asked", from |-> offset, ref |-> ref]
    BY <1>3, <2>1
  <2>3. data # NoData /\ ref \in data.refs /\ <<ref.row, ref.column>> = p
    BY <1>7 DEF Open, Cuts
  <2> QED
    BY <2>2, <2>3
<1>8. CASE CellFails(p)
  BY <1>3, <1>8 DEF CellFails
<1>9. CASE CellAnswered(p)
  <2>1. cell[p].is = "asked"
    BY <1>9 DEF CellAnswered, Asked
  <2>2. CASE cell' = [cell EXCEPT ![p] = [is |-> "failed"]]
    BY <1>3, <2>2
  <2>3. ASSUME NEW v, Same(v, cell[p].ref), cell' = [cell EXCEPT ![p] = [is |-> "full", value |-> v]]
        PROVE  /\ cell'[p].is = "full" /\ cell'[p].value = v
               /\ data # NoData /\ p[1] \in DOMAIN data.rows
               /\ data.full[p[1]][p[2]] = v
    <3> DEFINE ref == cell[p].ref
    <3>1. cell'[p] = [is |-> "full", value |-> v]
      BY <1>3, <2>3
    <3>2. data # NoData /\ ref \in data.refs /\ <<ref.row, ref.column>> = p /\ v = ref.hash
      BY <1>3, <2>1, <2>3 DEF CellInv, Same
    <3>3. PICK q \in (DOMAIN data.rows) \X (1..Columns) :
            ref = [row |-> q[1], column |-> q[2], hash |-> data.full[q[1]][q[2]]]
      <4> DEFINE S == {q \in (DOMAIN data.rows) \X (1..Columns) : Long(data.full[q[1]][q[2]])}
      <4>1. data.refs = {[row |-> q[1], column |-> q[2], hash |-> data.full[q[1]][q[2]]] : q \in S}
        BY <1>3, <3>2 DEF CutsAreTold, RefsNameCutCells
      <4>2. \A q \in S : q \in (DOMAIN data.rows) \X (1..Columns)
        OBVIOUS
      <4> HIDE DEF S, ref
      <4>3. PICK q \in S : ref = [row |-> q[1], column |-> q[2], hash |-> data.full[q[1]][q[2]]]
        BY <3>2, <4>1
      <4> QED
        BY <4>2, <4>3
    <3>4. p[1] = q[1] /\ p[2] = q[2]
      BY <3>2, <3>3
    <3> QED
      BY <3>1, <3>2, <3>3, <3>4
  <2> QED
    BY <1>9, <2>2, <2>3 DEF CellAnswered
<1> QED
  BY <1>7, <1>8, <1>9

LEMMA InitPageInv == Init => PageInv
<1> SUFFICES ASSUME Init PROVE PageInv
  OBVIOUS
<1> USE ResultPageAssumption DEF Init
<1>1. table \in Seq(Row)
  BY SeqDef DEF Tables
<1>2. PageTypes
  BY <1>1 DEF PageTypes, Closed
<1>3. TakenInv /\ FileInv
  BY DEF TakenInv, FileInv, Collecting
<1>4. CellInv /\ OpenedIsWhatWasCut
  BY DEF CellInv, OpenedIsWhatWasCut, Closed
<1>5. AnswerWithinLimit /\ CutsAreTold
  BY DEF AnswerWithinLimit, CutsAreTold, TruncationIsTold, RefsNameCutCells
<1> QED
  BY <1>2, <1>3, <1>4, <1>5 DEF PageInv

LEMMA StepKeepsPageInv == PageInv /\ [Next]_vars => PageInv'
<1> SUFFICES ASSUME PageInv, [Next]_vars PROVE PageInv'
  OBVIOUS
<1>1. CASE Change
  BY <1>1, ChangeKeeps
<1>2. CASE TakeRow
  BY <1>2, TakeRowKeeps
<1>3. CASE AnswerPage
  BY <1>3, AnswerKeeps
<1>4. CASE Fails \/ FileSent
  <2>1. Returns /\ UNCHANGED <<table, tab, fixed>>
    BY <1>4 DEF Fails, FileSent
  <2> QED
    BY <2>1, ReturnsKeeps
<1>5. CASE Resolving
  BY <1>5, ResolvingKeeps
<1>6. CASE Resolve
  BY <1>6, ResolveKeeps
<1>7. CASE (\E to \in {n \in 0..MaxRows : n % RowCap = 0} : AskPage(to)) \/ AskFile
  BY <1>7, AsksKeep
<1>8. CASE \E p \in Position : Open(p) \/ CellAnswered(p) \/ CellFails(p)
  BY <1>8, CellsKeep
<1>9. CASE UNCHANGED vars
  <2>1. UNCHANGED <<offset, data, table, changes, file, handler, fixed, cell>>
    BY <1>9 DEF vars, handler, fixed
  <2>2. cell' = [p \in Position |-> cell'[p]]
    BY <2>1 DEF PageInv, PageTypes
  <2>3. PageTypes' /\ TakenInv' /\ FileInv' /\ AnswerWithinLimit' /\ CutsAreTold'
    BY <2>1, <2>2, HandlerStays
  <2>4. CellInv' /\ OpenedIsWhatWasCut'
    BY <2>1 DEF PageInv, CellInv, OpenedIsWhatWasCut
  <2> QED
    BY <2>3, <2>4 DEF PageInv
<1> QED
  BY <1>1, <1>2, <1>3, <1>4, <1>5, <1>6, <1>7, <1>8, <1>9 DEF Next

-----------------------------------------------------------------------------
(* Answers, files and opened cells, as far as they have come.               *)
THEOREM PageInvariance == Spec => []PageInv
<1>1. Init => PageInv
  BY InitPageInv
<1>2. PageInv /\ [Next]_vars => PageInv'
  BY StepKeepsPageInv
<1> QED
  BY <1>1, <1>2, PTL DEF Spec

(* collect: whatever the sizes of names, values, previews and references,   *)
(* no answer is longer than the limit.                                      *)
THEOREM AnswersWithinLimit == Spec => []AnswerWithinLimit
<1>1. PageInv => AnswerWithinLimit
  BY DEF PageInv
<1> QED
  BY <1>1, PageInvariance, PTL

(* collect: an answer that leaves out rows or parts of cells says so, and   *)
(* says which; it does not stop early but for the cap or the limit.         *)
THEOREM CutsAreAlwaysTold == Spec => []CutsAreTold
<1>1. PageInv => CutsAreTold
  BY DEF PageInv
<1> QED
  BY <1>1, PageInvariance, PTL

(* queryCell, TableCell: however the table changes and wherever the tab has *)
(* moved to, a cell that opens shows the value its preview was cut from.    *)
THEOREM OpenedCellsAreTheirs == Spec => []OpenedIsWhatWasCut
<1>1. PageInv => OpenedIsWhatWasCut
  BY DEF PageInv
<1> QED
  BY <1>1, PageInvariance, PTL

(* writeCSV: a file that is sent has the rows of its statement, whole.      *)
THEOREM FilesAreOneSnapshot == Spec => []FileIsOneSnapshot
<1>1. PageInv => FileIsOneSnapshot
  <2> SUFFICES ASSUME PageInv, work = "resolve", refs = {}
               PROVE  file = out /\ IsPrefix(out, source)
    BY DEF FileIsOneSnapshot
  <2>1. PageTypes /\ TakenInv /\ FileInv
    BY DEF PageInv
  <2>2. IsPrefix(out, source)
    BY <2>1, FirstRows DEF PageTypes, TakenInv
  <2>3. /\ file = [i \in 1..Len(out) |-> [j \in 1..Columns |-> file[i][j]]]
        /\ \A i \in 1..Len(out), j \in 1..Columns : file[i][j] = out[i][j]
    BY <2>1 DEF FileInv
  <2>4. out = [i \in 1..Len(out) |-> [j \in 1..Columns |-> out[i][j]]]
    <3>1. out \in [1..Len(out) -> Row]
      BY <2>1, LenProperties DEF PageTypes
    <3>2. \A i \in 1..Len(out) : out[i] = [j \in 1..Columns |-> out[i][j]]
      BY <3>1, ResultPageAssumption
    <3> QED
      BY <3>1, <3>2
  <2>5. file = out
    BY <2>3, <2>4
  <2> QED
    BY <2>2, <2>5
<1> QED
  BY <1>1, PageInvariance, PTL

-----------------------------------------------------------------------------
(* The output of an MCP tool                                                *)

(* The search is for an output that does not fit as it came.  What lies     *)
(* above the search does not fit; where it begins does, unless it began     *)
(* with an empty output that nobody has looked at.                          *)
SearchInv ==
  stage = "search" =>
    /\ Length(total, omitted) > Limit
    /\ \A n \in 0..total : n > high => ~Fits(n)
    /\ Fits(low) \/ (low = 0 /\ tool = "query")

OutputInv ==
  /\ TypeOK
  /\ Growing
  /\ stage = "whole" => low = 0 /\ high = total
  /\ SearchInv
  /\ LongestThatFits
  /\ RefusedOnlyIfHopeless
  /\ OmissionIsTold

(* What First keeps of n items are n items.                                 *)
LEMMA FirstKeeps ==
  ASSUME TypeOK, NEW n \in 0..total, NEW mark \in BOOLEAN
  PROVE  /\ First(n, mark) \in
              [columns : 0..columns, foreignKeys : 0..(total - columns), truncated : BOOLEAN]
         /\ First(n, mark).columns + First(n, mark).foreignKeys = n
         /\ First(n, mark).truncated = mark
         /\ First(n, mark).foreignKeys > 0 => First(n, mark).columns = columns
  BY DEF First, TypeOK

(* The middle lies above low and not above high.                            *)
LEMMA MidBetween ==
  ASSUME TypeOK, low < high
  PROVE  Mid \in (low + 1)..high
  BY DEF Mid, TypeOK

(* What is longer than an output that does not fit does not fit.            *)
LEMMA LongerFitsNot ==
  ASSUME TypeOK, Growing, Limit \in Nat,
         NEW m \in 0..total, ~Fits(m),
         NEW n \in 0..total, n > m - 1
  PROVE  ~Fits(n)
<1>1. n = m \/ m < n
  OBVIOUS
<1>2. length[m] \in Nat /\ length[n] \in Nat
  BY DEF TypeOK
<1>3. CASE m < n
  BY <1>2, <1>3 DEF Growing, Fits
<1> QED
  BY <1>1, <1>3

LEMMA InitOutputInv == OutputInit => OutputInv
<1> SUFFICES ASSUME OutputInit PROVE OutputInv
  OBVIOUS
<1> USE McpOutputAssumption DEF OutputInit
<1>1. total \in Nat /\ columns \in 0..total
  OBVIOUS
<1>2. length \in [0..total -> Nat]
  OBVIOUS
<1>3. answer \in [columns : 0..columns, foreignKeys : 0..(total - columns), truncated : BOOLEAN]
  BY <1>1 DEF NoAnswer
<1>4. TypeOK
  BY <1>1, <1>2, <1>3 DEF TypeOK
<1> QED
  BY <1>4 DEF OutputInv, SearchInv, LongestThatFits, RefusedOnlyIfHopeless, OmissionIsTold

LEMMA StepOutputInv == OutputInv /\ [OutputNext]_outputVars => OutputInv'
<1> SUFFICES ASSUME OutputInv, [OutputNext]_outputVars PROVE OutputInv'
  OBVIOUS
<1> USE McpOutputAssumption DEF OutputInv
<1>1. CASE Whole
  <2>1. total \in 0..total /\ omitted \in BOOLEAN
    BY DEF TypeOK
  <2>2. TypeOK'
    BY <1>1, <2>1, FirstKeeps DEF Whole, TypeOK, input
  <2>3. Kept' = total /\ answer'.truncated = omitted
    BY <1>1, <2>1, FirstKeeps DEF Whole, Kept
  <2>4. LongestThatFits'
    BY <1>1, <2>1, <2>3, FirstKeeps DEF Whole, LongestThatFits, Length, input, TypeOK
  <2>5. OmissionIsTold'
    BY <1>1, <2>3 DEF Whole, OmissionIsTold, input, TypeOK
  <2> QED
    BY <1>1, <2>2, <2>4, <2>5 DEF Whole, Growing, SearchInv, RefusedOnlyIfHopeless, input
<1>2. CASE Refuse
  <2>1. TypeOK'
    BY <1>2 DEF Refuse, TypeOK, input
  <2> QED
    BY <1>2, <2>1 DEF Refuse, Fits, Growing, SearchInv, LongestThatFits, RefusedOnlyIfHopeless,
                      OmissionIsTold, input, TypeOK
<1>3. CASE Search
  <2>1. TypeOK'
    BY <1>3 DEF Search, TypeOK, input
  <2>2. SearchInv'
    BY <1>3 DEF Search, SearchInv, Fits, Length, input, TypeOK
  <2> QED
    BY <1>3, <2>1, <2>2 DEF Search, Growing, LongestThatFits, RefusedOnlyIfHopeless,
                            OmissionIsTold, input
<1>4. CASE Step
  <2>1. Mid \in (low + 1)..high
    BY <1>4, MidBetween DEF Step
  <2>2. TypeOK'
    <3>1. total \in Nat /\ low \in 0..total /\ high \in low..total
      BY DEF TypeOK
    <3>2. (low' = Mid /\ high' = high) \/ (low' = low /\ high' = Mid - 1)
      BY <1>4 DEF Step, Narrow
    <3>3. low' \in 0..total /\ high' \in low'..total
      BY <2>1, <3>1, <3>2
    <3>4. UNCHANGED <<stage, answer>> /\ UNCHANGED input
      BY <1>4 DEF Step
    <3> QED
      BY <3>3, <3>4 DEF TypeOK, input
  <2>3. SearchInv'
    <3>1. CASE Fits(Mid)
      BY <1>4, <2>1, <3>1 DEF Step, Narrow, SearchInv, Fits, Length, input, TypeOK
    <3>2. CASE ~Fits(Mid)
      <4>1. \A n \in 0..total : n > Mid - 1 => ~Fits(n)
        <5>1. Mid \in 0..total
          BY <2>1 DEF TypeOK
        <5> QED
          BY <3>2, <5>1, LongerFitsNot
      <4> QED
        BY <1>4, <2>1, <3>2, <4>1 DEF Step, Narrow, SearchInv, Fits, Length, input, TypeOK
    <3> QED
      BY <3>1, <3>2
  <2> QED
    BY <1>4, <2>2, <2>3 DEF Step, Growing, LongestThatFits, RefusedOnlyIfHopeless,
                            OmissionIsTold, input
<1>5. CASE Finish
  <2>1. low = high /\ low \in 0..total
    BY <1>5 DEF Finish, TypeOK
  <2>2. CASE tool = "query" /\ ~Fits(low)
    <3>1. stage' = "refused" /\ UNCHANGED <<answer, low, high>> /\ UNCHANGED input
      BY <1>5, <2>2 DEF Finish
    <3>2. TypeOK'
      BY <3>1 DEF TypeOK, input
    <3>3. length[0] > Limit
      BY <1>5, <2>1, <2>2 DEF Finish, SearchInv, Fits, TypeOK
    <3> QED
      BY <3>1, <3>2, <3>3 DEF Growing, SearchInv, LongestThatFits, RefusedOnlyIfHopeless,
                              OmissionIsTold, input
  <2>3. CASE ~(tool = "query" /\ ~Fits(low))
    <3>1. /\ stage' = "answered" /\ answer' = First(low, TRUE)
          /\ UNCHANGED <<low, high>> /\ UNCHANGED input
      BY <1>5, <2>3 DEF Finish, CutTo
    <3>2. TypeOK'
      BY <2>1, <3>1, FirstKeeps DEF TypeOK, input
    <3>3. Kept' = low /\ answer'.truncated = TRUE
      BY <2>1, <3>1, FirstKeeps DEF Kept
    <3>4. Fits(low) /\ \A n \in 0..total : n > low => ~Fits(n)
      BY <1>5, <2>1, <2>3 DEF Finish, SearchInv, TypeOK
    <3>5. LongestThatFits'
      <4>1. length' = length /\ total' = total /\ columns' = columns
        BY <3>1 DEF input
      <4>2. Length(Kept, answer.truncated)' <= Limit
        BY <2>1, <3>3, <3>4, <4>1 DEF Length, Fits, TypeOK
      <4>3. \A n \in 0..total : n > low => length[n] > Limit
        BY <2>1, <3>4 DEF Fits, TypeOK
      <4>4. answer'.foreignKeys > 0 => answer'.columns = columns
        BY <2>1, <3>1, FirstKeeps
      <4> QED
        BY <3>3, <4>1, <4>2, <4>3, <4>4 DEF LongestThatFits
    <3> QED
      BY <3>1, <3>2, <3>3, <3>5 DEF Growing, SearchInv, RefusedOnlyIfHopeless, OmissionIsTold,
                                    input
  <2> QED
    BY <2>2, <2>3
<1>6. CASE UNCHANGED outputVars
  BY <1>6 DEF outputVars, TypeOK, Growing, SearchInv, Fits, Length, LongestThatFits, Kept,
              RefusedOnlyIfHopeless, OmissionIsTold
<1> QED
  BY <1>1, <1>2, <1>3, <1>4, <1>5, <1>6 DEF OutputNext

-----------------------------------------------------------------------------
(* The invariant holds throughout.                                          *)
THEOREM OutputInvariance == OutputSpec => []OutputInv
  BY InitOutputInv, StepOutputInv, PTL DEF OutputSpec

(* Types, and the bounds of the search in order.                            *)
THEOREM TypeCorrect == OutputSpec => []TypeOK
  BY OutputInvariance, PTL DEF OutputInv

(* Whatever the items, the answer fits, is the longest that does, and has   *)
(* the columns before the foreign keys; and no tool refuses an output of    *)
(* which a part could have been answered.                                   *)
THEOREM AnswersAreBest == OutputSpec => []AnswerIsBest
<1>1. OutputInv => AnswerIsBest
  BY DEF OutputInv, AnswerIsBest
<1> QED
  BY OutputInvariance, <1>1, PTL

(* No omission goes unmarked.                                               *)
THEOREM OmissionsAreTold == OutputSpec => []OmissionIsTold
  BY OutputInvariance, PTL DEF OutputInv

-----------------------------------------------------------------------------
(* The end of the search                                                    *)

(* Steps that are left at most.                                             *)
LooksLeft ==
  CASE stage = "whole"  -> total + 2
    [] stage = "search" -> high - low + 1
    [] OTHER            -> 0

(* A look at the middle leaves at most half of what was to be searched, and *)
(* always less of it.                                                       *)
LEMMA LookHalves ==
  ASSUME TypeOK, Step
  PROVE  high' - low' < high - low /\ 2 * (high' - low') <= high - low
<1>1. low < high /\ low \in Nat /\ high \in Nat
  BY DEF Step, TypeOK
<1>2. (low' = Mid /\ high' = high) \/ (low' = low /\ high' = Mid - 1)
  BY DEF Step, Narrow
<1>3. PICK h : h = (high - low + 1) \div 2
  OBVIOUS
<1>4. h \in Nat /\ 2 * h <= high - low + 1 /\ high - low + 1 < 2 * h + 2 /\ Mid = low + h
  BY <1>1, <1>3 DEF Mid
<1> QED
  BY <1>1, <1>2, <1>4

(* The cut of an output ends: a step leaves fewer, and a look at the middle *)
(* half of the items, so that n items take no more looks than n has bits,   *)
(* whatever the lengths are.                                                *)
THEOREM SearchHalves ==
  OutputSpec =>
    [](LooksLeft \in Nat) /\ [][LooksLeft' < LooksLeft /\ (Step => 2 * (high' - low') <= high - low)]_outputVars
<1>1. OutputInv => LooksLeft \in Nat
  BY DEF OutputInv, TypeOK, LooksLeft
<1>2. OutputInv /\ [OutputNext]_outputVars =>
        [LooksLeft' < LooksLeft /\ (Step => 2 * (high' - low') <= high - low)]_outputVars
  <2> SUFFICES ASSUME OutputInv, OutputNext
               PROVE  LooksLeft' < LooksLeft /\ (Step => 2 * (high' - low') <= high - low)
    OBVIOUS
  <2>1. TypeOK /\ total \in Nat /\ low \in Nat /\ high \in Nat /\ low <= high
    BY DEF OutputInv, TypeOK
  <2>2. stage = "whole" => high = total /\ low = 0
    BY DEF OutputInv
  <2>3. CASE Step
    <3>1. stage = "search" /\ stage' = "search"
      BY <2>3 DEF Step
    <3>2. high' - low' < high - low /\ 2 * (high' - low') <= high - low
      BY <2>1, <2>3, LookHalves
    <3>3. PICK h, l : h = high' /\ l = low'
      OBVIOUS
    <3>4. h \in Int /\ l \in Int
      BY <2>1, <2>3, <3>3 DEF Step, Narrow, Mid
    <3>5. LooksLeft' < LooksLeft
      <4>1. LooksLeft = high - low + 1
        BY <3>1 DEF LooksLeft
      <4>2. LooksLeft' = h - l + 1
        BY <3>1, <3>3 DEF LooksLeft
      <4>3. h - l < high - low
        BY <3>2, <3>3
      <4> QED
        BY <2>1, <3>4, <4>1, <4>2, <4>3
    <3> QED
      BY <3>2, <3>5
  <2>4. CASE Whole \/ Refuse \/ Finish
    <3>1. stage \in {"whole", "search"} /\ stage' \in {"answered", "refused"}
      BY <2>4 DEF Whole, Refuse, Finish
    <3>2. LooksLeft > 0 /\ LooksLeft' = 0
      BY <2>1, <3>1 DEF LooksLeft
    <3>3. ~Step
      BY <3>1 DEF Step
    <3> QED
      BY <3>2, <3>3
  <2>5. CASE Search
    <3>1. stage = "whole" /\ stage' = "search" /\ UNCHANGED <<low, high>>
      BY <2>5 DEF Search
    <3>2. LooksLeft = total + 2 /\ LooksLeft' = total + 1
      BY <2>1, <2>2, <3>1 DEF LooksLeft
    <3>3. ~Step
      BY <3>1 DEF Step
    <3> QED
      BY <2>1, <3>2, <3>3
  <2> QED
    BY <2>3, <2>4, <2>5 DEF OutputNext
<1> QED
  BY <1>1, <1>2, OutputInvariance, PTL DEF OutputSpec
=============================================================================
