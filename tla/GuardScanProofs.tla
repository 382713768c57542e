--------------------------- MODULE GuardScanProofs ---------------------------
(***************************************************************************)
(* Proofs about GuardScan, for texts of any length.  The argument: whenever *)
(* the loop looks at a symbol, the text read from its start is in code      *)
(* there, because each turn of the loop jumps over exactly one piece; so    *)
(* what it counts and remembers is what the text means up to that symbol.   *)
(* The mask it writes has the words of the text up to there and begins as   *)
(* the text does, so the verdict, which is read from the mask, is that of   *)
(* the words.                                                               *)
(***************************************************************************)
EXTENDS GuardScan, FiniteSetTheorems, SequenceTheorems, WellFoundedInduction, TLAPS

(* A set of natural numbers that is not empty has a smallest one.           *)
LEMMA Smallest ==
  ASSUME NEW S \in SUBSET Nat, S # {}
  PROVE  \E k \in S : \A j \in S : k <= j
<1> DEFINE R == OpToRel(<, Nat)
<1>1. IsWellFoundedOn(R, Nat)
  BY NatLessThanWellFounded
<1>2. PICK k \in S : \A j \in S : ~(<<j, k>> \in R)
  <2> HIDE DEF R
  <2> QED
    BY <1>1, WFMin
<1>3. ASSUME NEW j \in S PROVE k <= j
  <2>1. ~(j < k)
    BY <1>2 DEF OpToRel
  <2> QED
    BY <2>1
<1> QED
  BY <1>3

(* Min of a set of natural numbers is one of them and the least.            *)
LEMMA MinIsLeast ==
  ASSUME NEW S \in SUBSET Nat, S # {}
  PROVE  Min(S) \in S /\ \A j \in S : Min(S) <= j
<1>1. \E k \in S : \A j \in S : k <= j
  BY Smallest
<1> QED
  BY <1>1 DEF Min

(* What holds at a and for m whenever it holds for m - 1 holds from a to b. *)
LEMMA Ascending ==
  ASSUME NEW a \in Nat, NEW b \in Nat, NEW S, a \in S,
         \A m \in (a + 1)..b : m - 1 \in S => m \in S
  PROVE  \A m \in a..b : m \in S
<1> DEFINE missed == {m \in a..b : m \notin S}
<1>1. SUFFICES ASSUME missed # {} PROVE FALSE
  OBVIOUS
<1>2. missed \in SUBSET Nat
  OBVIOUS
<1>3. PICK k \in missed : \A j \in missed : k <= j
  <2> HIDE DEF missed
  <2> QED
    BY <1>1, <1>2, Smallest
<1>4. k \in (a + 1)..b /\ k - 1 \in a..b /\ k \notin S
  OBVIOUS
<1>5. k - 1 \in missed
  BY <1>4
<1> QED
  BY <1>3, <1>4, <1>5

(* From 0 upwards, one step at a time.                                      *)
LEMMA UpTo ==
  ASSUME NEW n \in Nat, NEW S, 0 \in S, \A m \in 1..n : m - 1 \in S => m \in S
  PROVE  \A m \in 0..n : m \in S
BY Ascending

(* What holds for m whenever it holds for all that follow it up to n holds  *)
(* from 1 to n.                                                             *)
LEMMA DownFrom ==
  ASSUME NEW n \in Nat, NEW S,
         \A m \in 1..n : (\A j \in (m + 1)..n : j \in S) => m \in S
  PROVE  \A m \in 1..n : m \in S
<1> DEFINE missed == {d \in 0..n : \E m \in 1..n : d = n - m /\ m \notin S}
<1>1. SUFFICES ASSUME missed # {} PROVE FALSE
  <2>1. ASSUME NEW m \in 1..n, m \notin S PROVE n - m \in missed
    BY <2>1
  <2> QED
    BY <1>1, <2>1
<1>2. missed \in SUBSET Nat
  OBVIOUS
<1>3. PICK d \in missed : \A j \in missed : d <= j
  <2> HIDE DEF missed
  <2> QED
    BY <1>1, <1>2, Smallest
<1>4. PICK m \in 1..n : d = n - m /\ m \notin S
  OBVIOUS
<1>5. ASSUME NEW j \in (m + 1)..n PROVE j \in S
  <2>1. j \in 1..n /\ n - j \in 0..n /\ n - j < d
    BY <1>4
  <2>2. n - j \notin missed
    BY <1>3, <1>4, <2>1
  <2> QED
    BY <2>1, <2>2
<1> QED
  BY <1>4, <1>5

(* A function whose value is given, or its value at a place of lower rank,  *)
(* exists.                                                                  *)
Follows(f, D, stop, val, next) == f = [x \in D |-> IF x \in stop THEN val[x] ELSE f[next[x]]]

(* A function that is defined by itself at a later argument exists, as long *)
(* as the arguments come to a stop.                                         *)
LEMMA ChainExists ==
  ASSUME NEW n \in Nat, NEW D, NEW stop, NEW val, NEW next, NEW rank,
         \A x \in D : rank[x] \in 0..n,
         \A x \in D \ stop : next[x] \in D /\ rank[next[x]] < rank[x]
  PROVE  \E f : Follows(f, D, stop, val, next)
<1> DEFINE Low(m) == {x \in D : rank[x] <= m}
           S == {m \in 0..n : \E f : Follows(f, Low(m), stop, val, next)}
<1>1. 0 \in S
  <2> DEFINE f == [x \in Low(0) |-> val[x]]
  <2>1. \A x \in Low(0) : x \in stop
    <3>1. ASSUME NEW x \in D, rank[x] <= 0, x \notin stop PROVE FALSE
      <4>1. rank[next[x]] \in 0..n /\ rank[next[x]] < rank[x] /\ rank[x] \in 0..n
        BY <3>1
      <4> QED
        BY <3>1, <4>1
    <3> QED
      BY <3>1
  <2>2. f = [x \in Low(0) |-> IF x \in stop THEN val[x] ELSE f[next[x]]]
    <3> HIDE DEF Low
    <3> QED
      BY <2>1
  <2>3. Follows(f, Low(0), stop, val, next)
    BY <2>2 DEF Follows
  <2>4. \E h : Follows(h, Low(0), stop, val, next)
    <3> HIDE DEF f, Low
    <3> QED
      BY <2>3
  <2> QED
    BY <2>4
<1>2. ASSUME NEW m \in 1..n, m - 1 \in S PROVE m \in S
  <2>1. PICK f : Follows(f, Low(m - 1), stop, val, next)
    BY <1>2
  <2> DEFINE At(h, x) == IF x \in stop THEN val[x] ELSE h[next[x]]
             g == [x \in Low(m) |-> IF x \in Low(m - 1) THEN f[x] ELSE At(f, x)]
  <2>2. \A x \in Low(m) : x \in stop \/ next[x] \in Low(m - 1)
    <3>1. ASSUME NEW x \in D, rank[x] <= m, x \notin stop PROVE next[x] \in Low(m - 1)
      <4>1. /\ next[x] \in D /\ rank[next[x]] \in 0..n /\ rank[x] \in 0..n
            /\ rank[next[x]] < rank[x]
        BY <3>1
      <4> QED
        BY <3>1, <4>1
    <3> QED
      BY <3>1
  <2>3. \A x \in Low(m - 1) : x \in Low(m)
    <3>1. ASSUME NEW x \in D, rank[x] <= m - 1 PROVE rank[x] <= m
      <4>1. rank[x] \in 0..n
        OBVIOUS
      <4> QED
        BY <3>1, <4>1
    <3> QED
      BY <3>1
  <2> HIDE DEF Low
  <2>4. \A x \in Low(m - 1) : f[x] = At(f, x)
    BY <2>1 DEF Follows
  <2>5. \A x \in Low(m) : g[x] = At(f, x)
    BY <2>4
  <2>6. \A x \in Low(m - 1) : g[x] = f[x]
    BY <2>3
  <2>7. g = [x \in Low(m) |-> g[x]]
    OBVIOUS
  <2> HIDE DEF g
  <2>8. \A x \in Low(m) : g[x] = At(g, x)
    BY <2>2, <2>5, <2>6
  <2>9. g = [x \in Low(m) |-> At(g, x)]
    BY <2>7, <2>8
  <2> QED
    BY <2>9 DEF Follows
<1> HIDE DEF S
<1>3. \A m \in 0..n : m \in S
  <2>1. \A m \in 1..n : m - 1 \in S => m \in S
    BY <1>2
  <2> QED
    BY <1>1, <2>1, UpTo
<1>4. Low(n) = D
  OBVIOUS
<1>5. \E f : Follows(f, Low(n), stop, val, next)
  <2> HIDE DEF Low
  <2> QED
    BY <1>3 DEF S
<1> QED
  BY <1>4, <1>5

-----------------------------------------------------------------------------
(* The reading                                                              *)

(* The function that Reading is, for a text of n symbols.                   *)
Reads(r, t, n) == r = [k \in 0..n |-> IF k = 0 THEN Code ELSE Turn(t, k, r[k - 1])]

(* There is a reading of every text.                                        *)
LEMMA ReadingExists ==
  ASSUME NEW t, NEW n \in Nat
  PROVE  \E r : Reads(r, t, n)
<1> DEFINE S == {m \in 0..n : \E r : Reads(r, t, m)}
<1>1. 0 \in S
  <2> DEFINE r == [k \in 0..0 |-> Code]
  <2>1. Reads(r, t, 0)
    BY DEF Reads
  <2> QED
    BY <2>1
<1>2. ASSUME NEW m \in 1..n, m - 1 \in S PROVE m \in S
  <2>1. PICK r : Reads(r, t, m - 1)
    BY <1>2
  <2> DEFINE Step(f, k) == IF k = 0 THEN Code ELSE Turn(t, k, f[k - 1])
             u == [k \in 0..m |-> IF k < m THEN r[k] ELSE Turn(t, m, r[m - 1])]
  <2>2. \A k \in 0..(m - 1) : r[k] = Step(r, k)
    BY <2>1 DEF Reads
  <2> HIDE DEF Step
  <2>3. \A k \in 0..(m - 1) : u[k] = r[k]
    OBVIOUS
  <2>4. u[m] = Turn(t, m, r[m - 1])
    OBVIOUS
  <2> HIDE DEF u
  <2>5. ASSUME NEW k \in 0..m PROVE u[k] = Step(u, k)
    <3>1. CASE k = 0
      <4>1. 0 \in 0..(m - 1)
        OBVIOUS
      <4> QED
        BY <2>2, <2>3, <3>1, <4>1 DEF Step
    <3>2. CASE k # 0 /\ k < m
      <4>1. k \in 0..(m - 1) /\ k - 1 \in 0..(m - 1)
        BY <3>2
      <4>2. r[k] = Turn(t, k, r[k - 1])
        BY <2>2, <3>2, <4>1 DEF Step
      <4> QED
        BY <2>3, <3>2, <4>1, <4>2 DEF Step
    <3>3. CASE k = m
      <4>1. k # 0 /\ m - 1 \in 0..(m - 1)
        BY <3>3
      <4> QED
        BY <2>3, <2>4, <3>3, <4>1 DEF Step
    <3> QED
      BY <3>1, <3>2, <3>3
  <2>6. u = [k \in 0..m |-> u[k]]
    BY DEF u
  <2>7. u = [k \in 0..m |-> Step(u, k)]
    BY <2>5, <2>6
  <2>8. Reads(u, t, m)
    BY <2>7 DEF Reads, Step
  <2> QED
    BY <2>8
<1> HIDE DEF S
<1>3. \A m \in 0..n : m \in S
  <2>1. \A m \in 1..n : m - 1 \in S => m \in S
    BY <1>2
  <2> QED
    BY <1>1, <2>1, UpTo
<1> QED
  BY <1>3 DEF S

(* The reading begins in code and goes on turn by turn.                     *)
LEMMA ReadingSteps ==
  ASSUME NEW t, Len(t) \in Nat
  PROVE  /\ Reading(t)[0] = Code
         /\ \A k \in 1..Len(t) : Reading(t)[k] = Turn(t, k, Reading(t)[k - 1])
<1>1. Reading(t) = CHOOSE r : Reads(r, t, Len(t))
  BY DEF Reading, Reads
<1>2. Reads(Reading(t), t, Len(t))
  BY <1>1, ReadingExists
<1> DEFINE r == Reading(t)
           Step(f, k) == IF k = 0 THEN Code ELSE Turn(t, k, f[k - 1])
<1>3. r = [k \in 0..Len(t) |-> Step(r, k)]
  BY <1>2 DEF Reads
<1> HIDE DEF r, Step
<1>4. \A k \in 0..Len(t) : r[k] = Step(r, k)
  BY <1>3
<1> QED
  BY <1>4 DEF r, Step

-----------------------------------------------------------------------------
(* What a tag is made of, and what a state is.                              *)
TagChars == WordChars \cup {"$"}

State(was) == was.depth \in Int /\ was.tag \in Seq(TagChars) /\ was.ahead \in Int

(* The parts of a state.                                                    *)
LEMMA InState ==
  ASSUME NEW piece, NEW depth, NEW tag, NEW ahead
  PROVE  /\ In(piece, depth, tag, ahead).piece = piece
         /\ In(piece, depth, tag, ahead).depth = depth
         /\ In(piece, depth, tag, ahead).tag = tag
         /\ In(piece, depth, tag, ahead).ahead = ahead
BY DEF In

(* Code is a state, at depth 0 with nothing ahead.                          *)
LEMMA CodeState ==
  /\ State(Code)
  /\ Code.piece = "code" /\ Code.depth = 0 /\ Code.tag = <<>> /\ Code.ahead = 0
<1>1. <<>> \in Seq(TagChars)
  OBVIOUS
<1> QED
  BY <1>1 DEF Code, In, State

(* What TagAt finds is a stretch of the text between two dollars.           *)
LEMMA TagsAreTyped ==
  ASSUME NEW t \in Seq(Symbols), NEW k \in 1..Len(t), NEW g \in TagAt(t, k)
  PROVE  /\ g \in Seq(TagChars) /\ Len(g) \in Nat /\ Len(g) >= 2
         /\ t[k] = "$"
         /\ \E e \in (k + 1)..Len(t) :
              /\ g = SubSeq(t, k, e) /\ Len(g) = e - k + 1
              /\ t[e] = "$" /\ \A j \in k..e : t[j] \in TagChars
<1>1. PICK e \in (k + 1)..Len(t) :
        /\ g = SubSeq(t, k, e)
        /\ t[k] = "$" /\ t[e] = "$"
        /\ \A j \in (k + 1)..(e - 1) : t[j] \in WordChars
  BY DEF TagAt
<1>2. \A j \in k..e : t[j] \in TagChars
  <2>1. "$" \in TagChars /\ WordChars \subseteq TagChars
    BY DEF TagChars
  <2>2. ASSUME NEW j \in k..e PROVE j = k \/ j = e \/ j \in (k + 1)..(e - 1)
    OBVIOUS
  <2> QED
    BY <1>1, <2>1, <2>2
<1>3. Len(t) \in Nat /\ k \in Nat /\ e \in Nat /\ k <= e /\ e <= Len(t) /\ 1 <= k
  OBVIOUS
<1>4. /\ SubSeq(t, k, e) \in Seq(Symbols)
      /\ Len(SubSeq(t, k, e)) = e - k + 1
      /\ \A j \in 1..(e - k + 1) : SubSeq(t, k, e)[j] = t[k + j - 1]
  BY <1>3, SubSeqProperties
<1>5. g \in Seq(TagChars)
  <2>1. \A j \in 1..(e - k + 1) : g[j] \in TagChars
    <3>1. ASSUME NEW j \in 1..(e - k + 1) PROVE g[j] \in TagChars
      <4>1. k + j - 1 \in k..e
        BY <1>3
      <4> QED
        BY <1>1, <1>2, <1>4, <4>1
    <3> QED
      BY <3>1
  <2>2. g \in Seq(Symbols) /\ Len(g) = e - k + 1
    BY <1>1, <1>4
  <2> QED
    BY <2>1, <2>2
<1> QED
  BY <1>1, <1>2, <1>3, <1>4, <1>5

(* What begins at k is decided by one or two symbols, or by a tag.          *)
PairAt(t, k, c, d) == t[k] = c /\ k < Len(t) /\ t[k + 1] = d
EscapedAt(t, k) == k > 1 /\ t[k - 1] = "e" /\ (k > 2 => t[k - 2] \notin WordChars)

(* What opens at a symbol, case by case.                                    *)
LEMMA Opening ==
  ASSUME NEW t \in Seq(Symbols), NEW k \in 1..Len(t)
  PROVE  /\ PairAt(t, k, "-", "-") => Opens(t, k) = In("line", 1, <<>>, 0)
         /\ PairAt(t, k, "/", "*") => Opens(t, k) = In("block", 1, <<>>, 1)
         /\ t[k] = "'" /\ EscapedAt(t, k) => Opens(t, k) = In("escaped", 1, <<>>, 0)
         /\ t[k] = "'" /\ ~EscapedAt(t, k) => Opens(t, k) = In("string", 1, <<>>, 0)
         /\ t[k] = "\"" => Opens(t, k) = In("name", 1, <<>>, 0)
         /\ TagAt(t, k) # {} => Opens(t, k) = In("dollar", 1, Tag(t, k), Len(Tag(t, k)) - 1)
         /\ /\ ~PairAt(t, k, "-", "-") /\ ~PairAt(t, k, "/", "*")
            /\ t[k] # "'" /\ t[k] # "\"" /\ TagAt(t, k) = {}
            => Opens(t, k) = Code
<1>1. TagAt(t, k) # {} => t[k] = "$"
  BY TagsAreTyped
<1>2. CASE PairAt(t, k, "-", "-")
  BY <1>1, <1>2 DEF Opens, PairAt
<1>3. CASE PairAt(t, k, "/", "*")
  BY <1>1, <1>3 DEF Opens, PairAt
<1>4. CASE t[k] = "'"
  BY <1>1, <1>4 DEF Opens, PairAt, EscapedAt
<1>5. CASE t[k] = "\""
  BY <1>1, <1>5 DEF Opens, PairAt
<1>6. CASE TagAt(t, k) # {}
  BY <1>1, <1>6 DEF Opens, PairAt
<1>7. CASE /\ ~PairAt(t, k, "-", "-") /\ ~PairAt(t, k, "/", "*")
           /\ t[k] # "'" /\ t[k] # "\"" /\ TagAt(t, k) = {}
  BY <1>7 DEF Opens, PairAt
<1> QED
  BY <1>2, <1>3, <1>4, <1>5, <1>6, <1>7

(* What opens is a state.                                                   *)
LEMMA OpensTyped ==
  ASSUME NEW t \in Seq(Symbols), NEW k \in 1..Len(t)
  PROVE  State(Opens(t, k))
<1>1. <<>> \in Seq(TagChars)
  OBVIOUS
<1>2. \/ Opens(t, k) = Code
      \/ Opens(t, k) = In("line", 1, <<>>, 0) \/ Opens(t, k) = In("block", 1, <<>>, 1)
      \/ Opens(t, k) = In("string", 1, <<>>, 0) \/ Opens(t, k) = In("escaped", 1, <<>>, 0)
      \/ Opens(t, k) = In("name", 1, <<>>, 0)
      \/ TagAt(t, k) # {} /\ Opens(t, k) = In("dollar", 1, Tag(t, k), Len(Tag(t, k)) - 1)
  BY Opening
<1>3. /\ State(In("line", 1, <<>>, 0)) /\ State(In("block", 1, <<>>, 1))
      /\ State(In("string", 1, <<>>, 0)) /\ State(In("escaped", 1, <<>>, 0))
      /\ State(In("name", 1, <<>>, 0))
  BY <1>1 DEF In, State
<1>4. ASSUME TagAt(t, k) # {}
      PROVE  State(In("dollar", 1, Tag(t, k), Len(Tag(t, k)) - 1))
  <2>1. Tag(t, k) \in TagAt(t, k)
    BY <1>4 DEF Tag
  <2>2. Tag(t, k) \in Seq(TagChars) /\ Len(Tag(t, k)) - 1 \in Int
    BY <2>1, TagsAreTyped
  <2> QED
    BY <2>2 DEF In, State
<1> QED
  BY <1>2, <1>3, <1>4, CodeState

(* A turn leads from a state to a state.                                    *)
LEMMA TurnTyped ==
  ASSUME NEW t \in Seq(Symbols), NEW k \in 1..Len(t), NEW was, State(was)
  PROVE  State(Turn(t, k, was))
<1>1. /\ was.depth \in Int /\ was.ahead \in Int /\ was.tag \in Seq(TagChars)
      /\ was.depth + 1 \in Int /\ was.depth - 1 \in Int /\ was.ahead - 1 \in Int
      /\ Len(was.tag) - 1 \in Int
  BY DEF State
<1>2. ASSUME NEW depth \in Int, NEW ahead \in Int
      PROVE  State(In(was.piece, depth, was.tag, ahead))
  BY <1>1, InState DEF State
<1>3. State(Within(t, k, was))
  <2>1. \/ Within(t, k, was) = Code
        \/ Within(t, k, was) = was
        \/ Within(t, k, was) = In(was.piece, was.depth + 1, was.tag, 1)
        \/ Within(t, k, was) = In(was.piece, was.depth - 1, was.tag, 1)
        \/ Within(t, k, was) = In(was.piece, 0, was.tag, Len(was.tag) - 1)
        \/ Within(t, k, was) = In(was.piece, was.depth, was.tag, 1)
    BY DEF Within
  <2> QED
    BY <1>1, <1>2, <2>1, CodeState
<1> QED
  BY <1>1, <1>2, <1>3, CodeState, OpensTyped DEF Turn

(* The reading consists of states.                                          *)
LEMMA ReadingTyped ==
  ASSUME NEW t \in Seq(Symbols)
  PROVE  \A k \in 0..Len(t) : State(Reading(t)[k])
<1> DEFINE S == {k \in 0..Len(t) : State(Reading(t)[k])}
<1>1. Len(t) \in Nat
  OBVIOUS
<1>2. 0 \in S
  BY <1>1, ReadingSteps, CodeState
<1>3. ASSUME NEW k \in 1..Len(t), k - 1 \in S PROVE k \in S
  <2>1. Reading(t)[k] = Turn(t, k, Reading(t)[k - 1])
    BY <1>1, ReadingSteps
  <2> QED
    BY <1>3, <2>1, TurnTyped
<1> HIDE DEF S
<1>4. \A k \in 0..Len(t) : k \in S
  BY <1>1, <1>2, <1>3, UpTo
<1> QED
  BY <1>4 DEF S
-----------------------------------------------------------------------------
(* What the loop jumps to                                                   *)

(* What Closing looks up, as a function.                                    *)
Shuts(f, quote, escapes) ==
  f = [k \in 1..(N + 1) |->
         IF k > N THEN N + 1
         ELSE IF escapes /\ text[k] = "\\" /\ k < N THEN f[k + 2]
         ELSE IF text[k] # quote THEN f[k + 1]
         ELSE IF Is(k + 1, quote) THEN f[k + 2] ELSE k]

(* There is a function that finds closing quotes.                           *)
LEMMA ShutsExists ==
  ASSUME text \in Seq(Symbols), NEW quote, NEW escapes \in BOOLEAN
  PROVE  \E f : Shuts(f, quote, escapes)
<1> DEFINE D == 1..(N + 1)
           twice(k) == (escapes /\ text[k] = "\\" /\ k < N) \/ (text[k] = quote /\ Is(k + 1, quote))
           stop == {k \in D : k > N \/ (text[k] = quote /\ ~twice(k))}
           val == [k \in D |-> k]
           next == [k \in D |-> IF twice(k) THEN k + 2 ELSE k + 1]
           rank == [k \in D |-> N + 1 - k]
<1>1. N \in Nat /\ N + 1 \in Nat
  BY DEF N
<1>2. \A k \in D : rank[k] \in 0..(N + 1)
  BY <1>1
<1>3. \A k \in D \ stop : next[k] \in D /\ rank[next[k]] < rank[k]
  <2>1. ASSUME NEW k \in D, k \notin stop PROVE k <= N /\ (twice(k) => k + 1 <= N)
    BY <1>1, <2>1 DEF Is
  <2>2. ASSUME NEW k \in D, k \notin stop PROVE next[k] \in D /\ next[k] > k
    <3> HIDE DEF stop, twice
    <3> QED
      BY <1>1, <2>1, <2>2
  <2> HIDE DEF stop, next
  <2> QED
    BY <1>1, <2>2
<1>4. PICK f : Follows(f, D, stop, val, next)
  <2> HIDE DEF D, stop, val, next, rank
  <2> QED
    BY <1>1, <1>2, <1>3, ChainExists
<1>5. f = [k \in D |-> IF k \in stop THEN val[k] ELSE f[next[k]]]
  BY <1>4 DEF Follows
<1>6. ASSUME NEW k \in D
      PROVE  (IF k \in stop THEN val[k] ELSE f[next[k]])
             = IF k > N THEN N + 1
               ELSE IF escapes /\ text[k] = "\\" /\ k < N THEN f[k + 2]
               ELSE IF text[k] # quote THEN f[k + 1]
               ELSE IF Is(k + 1, quote) THEN f[k + 2] ELSE k
  <2>1. k > N => k = N + 1
    BY <1>1
  <2> QED
    BY <2>1
<1>7. Shuts(f, quote, escapes)
  <2> HIDE DEF stop, val, next, rank
  <2> QED
    BY <1>5, <1>6 DEF Shuts
<1> QED
  BY <1>7

(* Closing is what it finds.                                                *)
LEMMA ClosingIsShut ==
  ASSUME text \in Seq(Symbols), NEW quote, NEW escapes \in BOOLEAN
  PROVE  \E f : Shuts(f, quote, escapes) /\ Closing(quote, escapes) = f[i + 1]
<1> DEFINE f == CHOOSE g : Shuts(g, quote, escapes)
<1>1. Shuts(f, quote, escapes)
  BY ShutsExists
<1>2. Closing(quote, escapes) = f[i + 1]
  BY DEF Closing, Shuts
<1> QED
  BY <1>1, <1>2

(* Symbols that are looked at in advance do not change where one is.        *)
LEMMA Passing ==
  ASSUME NEW t, NEW k, NEW p, NEW d \in Int, NEW g, NEW a \in Int, a > 0
  PROVE  /\ a > 1 \/ d > 0 => Turn(t, k, In(p, d, g, a)) = In(p, d, g, a - 1)
         /\ a = 1 /\ d <= 0 => Turn(t, k, In(p, d, g, a)) = Code
BY InState DEF Turn

(* With nothing ahead a turn opens a piece, or goes on within one.          *)
LEMMA Turning ==
  ASSUME NEW t, NEW k, NEW was, was.ahead = 0
  PROVE  Turn(t, k, was) = IF was.piece = "code" THEN Opens(t, k) ELSE Within(t, k, was)
BY DEF Turn

(* A turn within a comment to the end of the line.                          *)
LEMMA InLine ==
  ASSUME NEW t, NEW k
  PROVE  Turn(t, k, In("line", 1, <<>>, 0)) = IF t[k] = "nl" THEN Code ELSE In("line", 1, <<>>, 0)
BY DEF Turn, Within, In

(* A turn within a comment that nests.                                      *)
LEMMA InBlock ==
  ASSUME NEW t, NEW k, NEW d \in Int
  PROVE  Turn(t, k, In("block", d, <<>>, 0)) =
           IF PairAt(t, k, "/", "*") THEN In("block", d + 1, <<>>, 1)
           ELSE IF PairAt(t, k, "*", "/") THEN In("block", d - 1, <<>>, 1)
           ELSE In("block", d, <<>>, 0)
BY DEF Turn, Within, In, PairAt

(* A turn between dollars.                                                  *)
LEMMA InDollar ==
  ASSUME NEW t, NEW k, NEW g
  PROVE  Turn(t, k, In("dollar", 1, g, 0)) =
           IF SubSeq(t, k, Min({k + Len(g) - 1, Len(t)})) = g
           THEN In("dollar", 0, g, Len(g) - 1)
           ELSE In("dollar", 1, g, 0)
BY DEF Turn, Within, In

(* A turn within quotes.                                                    *)
LEMMA InQuotes ==
  ASSUME NEW t, NEW k
  PROVE  /\ Turn(t, k, In("string", 1, <<>>, 0)) =
              IF PairAt(t, k, "'", "'") THEN In("string", 1, <<>>, 1)
              ELSE IF t[k] = "'" THEN Code ELSE In("string", 1, <<>>, 0)
         /\ Turn(t, k, In("name", 1, <<>>, 0)) =
              IF PairAt(t, k, "\"", "\"") THEN In("name", 1, <<>>, 1)
              ELSE IF t[k] = "\"" THEN Code ELSE In("name", 1, <<>>, 0)
         /\ Turn(t, k, In("escaped", 1, <<>>, 0)) =
              IF t[k] = "\\" /\ k < Len(t) THEN In("escaped", 1, <<>>, 1)
              ELSE IF PairAt(t, k, "'", "'") THEN In("escaped", 1, <<>>, 1)
              ELSE IF t[k] = "'" THEN Code ELSE In("escaped", 1, <<>>, 0)
<1>1. ASSUME NEW was, was.piece = "string", was.ahead = 0
      PROVE  Turn(t, k, was) =
              IF PairAt(t, k, "'", "'") THEN In("string", was.depth, was.tag, 1)
              ELSE IF t[k] = "'" THEN Code ELSE was
  <2>1. Turn(t, k, was) = Within(t, k, was)
    BY <1>1 DEF Turn
  <2> QED
    BY <1>1, <2>1 DEF Within, PairAt
<1>2. ASSUME NEW was, was.piece = "name", was.ahead = 0
      PROVE  Turn(t, k, was) =
              IF PairAt(t, k, "\"", "\"") THEN In("name", was.depth, was.tag, 1)
              ELSE IF t[k] = "\"" THEN Code ELSE was
  <2>1. Turn(t, k, was) = Within(t, k, was)
    BY <1>2 DEF Turn
  <2> QED
    BY <1>2, <2>1 DEF Within, PairAt
<1>3. ASSUME NEW was, was.piece = "escaped", was.ahead = 0
      PROVE  Turn(t, k, was) =
              IF t[k] = "\\" /\ k < Len(t) THEN In("escaped", was.depth, was.tag, 1)
              ELSE IF PairAt(t, k, "'", "'") THEN In("escaped", was.depth, was.tag, 1)
              ELSE IF t[k] = "'" THEN Code ELSE was
  <2>1. Turn(t, k, was) = Within(t, k, was)
    BY <1>3 DEF Turn
  <2> QED
    BY <1>3, <2>1 DEF Within, PairAt
<1> DEFINE str == In("string", 1, <<>>, 0)
           name == In("name", 1, <<>>, 0)
           esc == In("escaped", 1, <<>>, 0)
<1>4. /\ str.piece = "string" /\ str.depth = 1 /\ str.tag = <<>> /\ str.ahead = 0
      /\ name.piece = "name" /\ name.depth = 1 /\ name.tag = <<>> /\ name.ahead = 0
      /\ esc.piece = "escaped" /\ esc.depth = 1 /\ esc.tag = <<>> /\ esc.ahead = 0
  BY DEF In
<1> HIDE DEF str, name, esc
<1>5. Turn(t, k, str) = IF PairAt(t, k, "'", "'") THEN In("string", 1, <<>>, 1)
                        ELSE IF t[k] = "'" THEN Code ELSE str
  BY <1>1, <1>4
<1>6. Turn(t, k, name) = IF PairAt(t, k, "\"", "\"") THEN In("name", 1, <<>>, 1)
                         ELSE IF t[k] = "\"" THEN Code ELSE name
  BY <1>2, <1>4
<1>7. Turn(t, k, esc) = IF t[k] = "\\" /\ k < Len(t) THEN In("escaped", 1, <<>>, 1)
                        ELSE IF PairAt(t, k, "'", "'") THEN In("escaped", 1, <<>>, 1)
                        ELSE IF t[k] = "'" THEN Code ELSE esc
  BY <1>3, <1>4
<1> QED
  BY <1>5, <1>6, <1>7 DEF str, name, esc

(* The loop is at a symbol before which the reading is in code.             *)
Scans == text \in Seq(Symbols) /\ i \in 1..N /\ Reading(text)[i - 1] = Code

(* The loop jumps to e, over a piece of kind p and nothing else.            *)
Jump(p, e) ==
  /\ e \in (i + 2)..(N + 2)
  /\ e <= N => Reading(text)[e - 1] = Code
  /\ \A k \in i..N : k < e - 1 => Reading(text)[k].piece = p

(* What the reading does where the loop is.                                 *)
LEMMA Steps ==
  ASSUME Scans
  PROVE  /\ N \in Nat /\ N + 1 \in Nat /\ i \in Nat /\ i >= 1 /\ i <= N /\ N = Len(text)
         /\ \A k \in 1..N : Reading(text)[k] = Turn(text, k, Reading(text)[k - 1])
         /\ Reading(text)[i] = Opens(text, i)
         /\ \A k \in 1..N : \A c, d : Pair(k, c, d) <=> PairAt(text, k, c, d)
<1>1. N \in Nat /\ N = Len(text) /\ i \in 1..N
  BY DEF Scans, N
<1>2. \A k \in 1..N : Reading(text)[k] = Turn(text, k, Reading(text)[k - 1])
  BY <1>1, ReadingSteps
<1>3. Reading(text)[i] = Opens(text, i)
  BY <1>1, <1>2, Turning, CodeState DEF Scans
<1>4. \A k \in 1..N : \A c, d : Pair(k, c, d) <=> PairAt(text, k, c, d)
  BY <1>1 DEF Pair, PairAt, Is
<1> QED
  BY <1>1, <1>2, <1>3, <1>4

(* LineComment jumps over one comment.                                      *)
LEMMA LineJump ==
  ASSUME Scans, AtLine
  PROVE  Jump("line", PastLine)
<1> DEFINE newlines == {k \in i..N : text[k] = "nl"} \cup {N + 1}
           m == Min(newlines)
           S == {k \in i..N : k < m => Reading(text)[k] = In("line", 1, <<>>, 0)}
<1>1. m \in newlines /\ \A k \in newlines : m <= k
  <2>1. newlines \in SUBSET Nat /\ newlines # {}
    BY Steps
  <2> HIDE DEF newlines
  <2> QED
    BY <2>1, MinIsLeast
<1>2. text[i] = "-" /\ i + 1 <= N /\ text[i + 1] = "-"
  BY Steps DEF AtLine, Pair, Is
<1>3. m \in (i + 2)..(N + 1) /\ (m <= N => text[m] = "nl") /\ \A k \in i..N : k < m => text[k] # "nl"
  <2>1. m \in i..(N + 1) /\ (m <= N => text[m] = "nl") /\ \A k \in i..N : k < m => text[k] # "nl"
    <3> HIDE DEF m
    <3> QED
      BY <1>1, Steps
  <2>2. m # i /\ m # i + 1
    BY <1>2, <2>1, Steps
  <2> HIDE DEF m
  <2> QED
    BY <2>1, <2>2, Steps
<1> HIDE DEF m, newlines
<1>4. i \in S
  <2>1. Reading(text)[i] = In("line", 1, <<>>, 0)
    <3>1. PairAt(text, i, "-", "-")
      BY Steps DEF AtLine
    <3>2. text \in Seq(Symbols) /\ i \in 1..Len(text)
      BY Steps DEF Scans
    <3> QED
      BY <3>1, <3>2, Steps, Opening
  <2> QED
    BY <2>1, Steps
<1>5. \A k \in (i + 1)..N : k - 1 \in S => k \in S
  <2>1. ASSUME NEW k \in (i + 1)..N, k - 1 \in S, k < m PROVE Reading(text)[k] = In("line", 1, <<>>, 0)
    <3>1. k \in 1..N /\ k \in i..N /\ k - 1 < m
      BY <1>3, <2>1, Steps
    <3>2. Reading(text)[k - 1] = In("line", 1, <<>>, 0) /\ text[k] # "nl"
      BY <1>3, <2>1, <3>1
    <3> QED
      BY <3>1, <3>2, Steps, InLine
  <2>2. \A k \in (i + 1)..N : k \in i..N
    BY Steps
  <2> QED
    BY <2>1, <2>2
<1>6. \A k \in i..N : k \in S
  <2> HIDE DEF S
  <2> QED
    BY <1>4, <1>5, Steps, Ascending
<1>7. \A k \in i..N : k < m => Reading(text)[k] = In("line", 1, <<>>, 0)
  BY <1>6 DEF S
<1>8. m <= N => Reading(text)[m] = Code
  <2>1. SUFFICES ASSUME m <= N PROVE Reading(text)[m] = Code
    OBVIOUS
  <2>2. m \in 1..N /\ m - 1 \in i..N /\ m - 1 < m
    BY <1>3, <2>1, Steps
  <2> QED
    BY <1>3, <1>7, <2>1, <2>2, Steps, InLine
<1>9. In("line", 1, <<>>, 0).piece = "line"
  BY DEF In
<1>10. PastLine = m + 1
  BY DEF PastLine, m, newlines
<1> QED
  BY <1>3, <1>7, <1>8, <1>9, <1>10, Steps DEF Jump

(* The loop jumps over what is in quotes, given how the reading goes there. *)
LEMMA QuoteJump ==
  ASSUME Scans, NEW p, NEW quote, NEW escapes \in BOOLEAN,
         Reading(text)[i] = In(p, 1, <<>>, 0),
         \A k \in 1..N : Turn(text, k, In(p, 1, <<>>, 0)) =
           IF escapes /\ text[k] = "\\" /\ k < N THEN In(p, 1, <<>>, 1)
           ELSE IF PairAt(text, k, quote, quote) THEN In(p, 1, <<>>, 1)
           ELSE IF text[k] = quote THEN Code ELSE In(p, 1, <<>>, 0)
  PROVE  Jump(p, Closing(quote, escapes) + 1)
<1> DEFINE R == Reading(text)
           inside == In(p, 1, <<>>, 0)
           ahead == In(p, 1, <<>>, 1)
<1>1. PICK f : Shuts(f, quote, escapes) /\ Closing(quote, escapes) = f[i + 1]
  BY ClosingIsShut DEF Scans
<1> DEFINE Ends(k) == /\ f[k] \in k..(N + 1)
                      /\ f[k] <= N => R[f[k]] = Code
                      /\ \A j \in (k - 1)..N : j < f[k] => R[j].piece = p
           S == {k \in 1..(N + 1) : R[k - 1] = inside => Ends(k)}
<1>2. inside.piece = p /\ ahead.piece = p
  BY DEF In
<1>3. \A k \in 1..N : Turn(text, k, ahead) = inside
  BY Passing
<1>4. /\ N \in Nat
      /\ \A k \in 1..N : R[k] = Turn(text, k, R[k - 1])
  BY Steps
<1>5. \A k \in 1..N : R[k - 1] = inside =>
        R[k] = IF escapes /\ text[k] = "\\" /\ k < N THEN ahead
               ELSE IF PairAt(text, k, quote, quote) THEN ahead
               ELSE IF text[k] = quote THEN Code ELSE inside
  BY <1>4
<1>6. \A k \in 1..N : R[k - 1] = ahead => R[k] = inside
  BY <1>3, <1>4
<1>7. \A k \in 1..(N + 1) :
        f[k] = IF k > N THEN N + 1
               ELSE IF escapes /\ text[k] = "\\" /\ k < N THEN f[k + 2]
               ELSE IF text[k] # quote THEN f[k + 1]
               ELSE IF Is(k + 1, quote) THEN f[k + 2] ELSE k
  BY <1>1 DEF Shuts
<1>8. \A k \in 1..N : PairAt(text, k, quote, quote) <=> text[k] = quote /\ Is(k + 1, quote)
  BY <1>4, Steps DEF PairAt, Is
<1> HIDE DEF R, inside, ahead
<1>9. ASSUME NEW k \in 1..(N + 1), \A j \in (k + 1)..(N + 1) : j \in S, R[k - 1] = inside
      PROVE  Ends(k)
  <2>1. CASE k > N
    <3>1. k = N + 1 /\ f[k] = N + 1
      BY <1>4, <1>7, <2>1
    <3>2. \A j \in (k - 1)..N : j = k - 1
      BY <1>4, <3>1
    <3> QED
      BY <1>2, <1>4, <1>9, <3>1, <3>2
  <2>2. CASE k <= N /\ ((escapes /\ text[k] = "\\" /\ k < N) \/ PairAt(text, k, quote, quote))
    <3>1. k \in 1..N /\ k + 1 \in 1..N /\ k + 2 \in 1..(N + 1)
      BY <1>4, <1>8, <2>2 DEF Is
    <3>2. R[k] = ahead
      BY <1>5, <1>9, <2>2, <3>1
    <3>3. R[k + 1] = inside
      <4>1. (k + 1) - 1 = k
        BY <1>4
      <4> QED
        BY <1>6, <3>1, <3>2, <4>1
    <3>4. f[k] = f[k + 2]
      BY <1>4, <1>7, <1>8, <2>2, <3>1
    <3>5. Ends(k + 2)
      <4>1. k + 2 \in S /\ (k + 2) - 1 = k + 1
        BY <1>4, <1>9, <3>1
      <4> QED
        BY <3>3, <4>1
    <3>6. \A j \in (k - 1)..N : j = k - 1 \/ j = k \/ j \in ((k + 2) - 1)..N
      BY <1>4
    <3> QED
      BY <1>2, <1>4, <1>9, <3>1, <3>2, <3>4, <3>5, <3>6
  <2>3. CASE k <= N /\ ~((escapes /\ text[k] = "\\" /\ k < N) \/ PairAt(text, k, quote, quote)) /\ text[k] # quote
    <3>1. k \in 1..N /\ k + 1 \in 1..(N + 1)
      BY <1>4, <2>3
    <3>2. R[k] = inside
      BY <1>5, <1>9, <2>3, <3>1
    <3>3. f[k] = f[k + 1]
      BY <1>4, <1>7, <1>8, <2>3, <3>1
    <3>4. Ends(k + 1)
      <4>1. k + 1 \in S /\ (k + 1) - 1 = k
        BY <1>4, <1>9, <3>1
      <4> QED
        BY <3>2, <4>1
    <3>5. \A j \in (k - 1)..N : j = k - 1 \/ j \in ((k + 1) - 1)..N
      BY <1>4
    <3> QED
      BY <1>2, <1>4, <1>9, <3>1, <3>3, <3>4, <3>5
  <2>4. CASE k <= N /\ ~((escapes /\ text[k] = "\\" /\ k < N) \/ PairAt(text, k, quote, quote)) /\ text[k] = quote
    <3>1. k \in 1..N
      BY <1>4, <2>4
    <3>2. R[k] = Code
      BY <1>5, <1>9, <2>4, <3>1
    <3>3. f[k] = k
      BY <1>4, <1>7, <1>8, <2>4, <3>1
    <3>4. \A j \in (k - 1)..N : j < k => j = k - 1
      BY <1>4
    <3> QED
      BY <1>2, <1>4, <1>9, <3>1, <3>2, <3>3, <3>4
  <2> QED
    BY <1>4, <2>1, <2>2, <2>3, <2>4
<1>10. \A k \in 1..(N + 1) : k \in S
  <2>1. \A k \in 1..(N + 1) : (\A j \in (k + 1)..(N + 1) : j \in S) => k \in S
    BY <1>9
  <2>2. PICK n : n = N + 1
    OBVIOUS
  <2>3. n \in Nat
    BY <1>4, <2>2
  <2>4. \A k \in 1..n : (\A j \in (k + 1)..n : j \in S) => k \in S
    BY <2>1, <2>2
  <2> HIDE DEF S
  <2>5. \A k \in 1..n : k \in S
    BY <2>3, <2>4, DownFrom
  <2> QED
    BY <2>2, <2>5
<1>11. Ends(i + 1)
  <2>1. i + 1 \in 1..(N + 1) /\ (i + 1) - 1 = i
    BY Steps
  <2>2. R[i] = inside
    BY DEF R, inside
  <2> QED
    BY <1>10, <2>1, <2>2
<1> QED
  <2>1. \A j \in i..N : j \in ((i + 1) - 1)..N
    BY Steps
  <2>2. f[i + 1] \in (i + 1)..(N + 1)
    BY <1>11
  <2>3. PICK e : e = f[i + 1]
    OBVIOUS
  <2>4. /\ e + 1 \in (i + 2)..(N + 2) /\ (e + 1) - 1 = e /\ (e + 1 <= N => e <= N)
    BY <2>2, <2>3, Steps
  <2>5. e <= N => R[e] = Code
    BY <1>11, <2>3
  <2>6. \A j \in i..N : j < e => R[j].piece = p
    BY <1>11, <2>1, <2>3
  <2> QED
    BY <1>1, <2>3, <2>4, <2>5, <2>6 DEF Jump, R

(* What PastBlock looks up, as a function.                                  *)
Nests(f) ==
  f = [at \in (1..(N + 1)) \X Nat |->
         LET k == at[1]
             depth == at[2]
         IN  IF k > N \/ depth = 0 THEN k
             ELSE IF Pair(k, "/", "*") THEN f[<<k + 2, depth + 1>>]
             ELSE IF Pair(k, "*", "/") THEN f[<<k + 2, depth - 1>>]
             ELSE f[<<k + 1, depth>>]]

(* There is a function that finds the ends of comments that nest.           *)
LEMMA NestsExists ==
  ASSUME text \in Seq(Symbols)
  PROVE  \E f : Nests(f)
<1> DEFINE D == (1..(N + 1)) \X Nat
           Opened(k) == Pair(k, "/", "*")
           Closed(k) == Pair(k, "*", "/")
           stop == {at \in D : at[1] > N \/ at[2] = 0}
           val == [at \in D |-> at[1]]
           next == [at \in D |-> IF Opened(at[1]) THEN <<at[1] + 2, at[2] + 1>>
                                 ELSE IF Closed(at[1]) THEN <<at[1] + 2, at[2] - 1>>
                                 ELSE <<at[1] + 1, at[2]>>]
           rank == [at \in D |-> N + 1 - at[1]]
<1>1. N \in Nat /\ N + 1 \in Nat
  BY DEF N
<1>2. \A at \in D : at[1] \in 1..(N + 1) /\ at[2] \in Nat
  OBVIOUS
<1>3. \A k \in 1..(N + 1), d \in Nat : <<k, d>> \in D /\ <<k, d>>[1] = k
  OBVIOUS
<1>4. \A k \in 1..(N + 1) : Opened(k) \/ Closed(k) => k + 1 <= N
  BY <1>1 DEF Pair, Is
<1> HIDE DEF Opened, Closed
<1>5. \A at \in D : rank[at] \in 0..(N + 1)
  BY <1>1, <1>2
<1>6. ASSUME NEW at \in D, at \notin stop
      PROVE  next[at] \in D /\ rank[next[at]] < rank[at]
  <2>1. at[1] \in 1..N /\ at[2] \in Nat /\ at[2] # 0
    BY <1>1, <1>2, <1>6
  <2>2. CASE Opened(at[1])
    <3>1. at[1] + 2 \in 1..(N + 1) /\ at[2] + 1 \in Nat
      BY <1>1, <1>4, <2>1, <2>2
    <3>2. next[at] = <<at[1] + 2, at[2] + 1>>
      BY <2>2
    <3>3. next[at] \in D /\ next[at][1] = at[1] + 2
      BY <1>3, <3>1, <3>2
    <3> HIDE DEF next, D
    <3> QED
      BY <1>1, <2>1, <3>1, <3>3
  <2>3. CASE ~Opened(at[1]) /\ Closed(at[1])
    <3>1. at[1] + 2 \in 1..(N + 1) /\ at[2] - 1 \in Nat
      BY <1>1, <1>4, <2>1, <2>3
    <3>2. next[at] = <<at[1] + 2, at[2] - 1>>
      BY <2>3
    <3>3. next[at] \in D /\ next[at][1] = at[1] + 2
      BY <1>3, <3>1, <3>2
    <3> HIDE DEF next, D
    <3> QED
      BY <1>1, <2>1, <3>1, <3>3
  <2>4. CASE ~Opened(at[1]) /\ ~Closed(at[1])
    <3>1. at[1] + 1 \in 1..(N + 1)
      BY <1>1, <2>1
    <3>2. next[at] = <<at[1] + 1, at[2]>>
      BY <2>4
    <3>3. next[at] \in D /\ next[at][1] = at[1] + 1
      BY <1>3, <2>1, <3>1, <3>2
    <3> HIDE DEF next, D
    <3> QED
      BY <1>1, <2>1, <3>1, <3>3
  <2> QED
    BY <2>2, <2>3, <2>4
<1>7. PICK f : Follows(f, D, stop, val, next)
  <2>1. \A at \in D \ stop : next[at] \in D /\ rank[next[at]] < rank[at]
    BY <1>6
  <2> HIDE DEF D, stop, val, next, rank
  <2> QED
    BY <1>1, <1>5, <2>1, ChainExists
<1>8. f = [at \in D |-> IF at \in stop THEN val[at] ELSE f[next[at]]]
  BY <1>7 DEF Follows
<1> DEFINE F(at) == LET k == at[1]
                        depth == at[2]
                    IN  IF k > N \/ depth = 0 THEN k
                        ELSE IF Opened(k) THEN f[<<k + 2, depth + 1>>]
                        ELSE IF Closed(k) THEN f[<<k + 2, depth - 1>>]
                        ELSE f[<<k + 1, depth>>]
<1>9. ASSUME NEW at \in D PROVE (IF at \in stop THEN val[at] ELSE f[next[at]]) = F(at)
  <2>1. val[at] = at[1]
    OBVIOUS
  <2>2. at \in stop <=> at[1] > N \/ at[2] = 0
    OBVIOUS
  <2>3. next[at] = IF Opened(at[1]) THEN <<at[1] + 2, at[2] + 1>>
                   ELSE IF Closed(at[1]) THEN <<at[1] + 2, at[2] - 1>>
                   ELSE <<at[1] + 1, at[2]>>
    OBVIOUS
  <2> HIDE DEF val, stop, next, D
  <2> QED
    BY <2>1, <2>2, <2>3
<1> HIDE DEF F, stop, val, next
<1>10. f = [at \in D |-> F(at)]
  BY <1>8, <1>9
<1>11. Nests(f)
  BY <1>10 DEF Nests, F, Opened, Closed
<1> QED
  BY <1>11

(* How it goes from symbol to symbol.                                       *)
LEMMA NestsAre ==
  ASSUME NEW f, Nests(f), NEW k \in 1..(N + 1), NEW depth \in Nat
  PROVE  f[<<k, depth>>] = IF k > N \/ depth = 0 THEN k
                           ELSE IF Pair(k, "/", "*") THEN f[<<k + 2, depth + 1>>]
                           ELSE IF Pair(k, "*", "/") THEN f[<<k + 2, depth - 1>>]
                           ELSE f[<<k + 1, depth>>]
<1> DEFINE F(x, d) == IF x > N \/ d = 0 THEN x
                       ELSE IF Pair(x, "/", "*") THEN f[<<x + 2, d + 1>>]
                       ELSE IF Pair(x, "*", "/") THEN f[<<x + 2, d - 1>>]
                       ELSE f[<<x + 1, d>>]
<1>1. f = [at \in (1..(N + 1)) \X Nat |-> F(at[1], at[2])]
  BY DEF Nests
<1> HIDE DEF F
<1>2. f[<<k, depth>>] = F(k, depth)
  BY <1>1
<1> QED
  BY <1>2 DEF F

(* PastBlock is what it finds.                                              *)
LEMMA PastBlockNests ==
  ASSUME text \in Seq(Symbols)
  PROVE  \E f : Nests(f) /\ PastBlock = f[<<i + 2, 1>>]
<1> DEFINE f == CHOOSE g : Nests(g)
<1>1. Nests(f)
  BY NestsExists
<1>2. PastBlock = f[<<i + 2, 1>>]
  BY DEF PastBlock, Nests
<1> QED
  BY <1>1, <1>2

(* BlockComment jumps over one comment, with those in it.                   *)
LEMMA BlockJump ==
  ASSUME Scans, AtBlock
  PROVE  Jump("block", PastBlock)
<1> DEFINE R == Reading(text)
           B(d, a) == In("block", d, <<>>, a)
<1>1. PICK f : Nests(f) /\ PastBlock = f[<<i + 2, 1>>]
  BY PastBlockNests DEF Scans
<1> DEFINE Ends(k, e) == /\ e \in k..(N + 1)
                         /\ e <= N => R[e - 1] = Code
                         /\ \A j \in (k - 1)..N : j < e - 1 => R[j].piece = "block"
           Inside(k, d) == IF d = 0 THEN R[k - 1] = Code ELSE R[k - 1] = B(d, 0)
           S == {k \in 1..(N + 1) : \A d \in Nat : Inside(k, d) => Ends(k, f[<<k, d>>])}
<1>2. \A d, a : B(d, a).piece = "block"
  BY DEF In
<1>3. /\ N \in Nat
      /\ \A k \in 1..N : R[k] = Turn(text, k, R[k - 1])
      /\ \A k \in 1..N : \A c, d : Pair(k, c, d) <=> PairAt(text, k, c, d)
      /\ \A k, c, d : Pair(k, c, d) => k \in 1..N /\ k + 1 <= N
  BY Steps DEF Pair, Is
<1>4. \A k \in 1..N : \A d \in Nat : d # 0 /\ R[k - 1] = B(d, 0) =>
        R[k] = IF Pair(k, "/", "*") THEN B(d + 1, 1)
               ELSE IF Pair(k, "*", "/") THEN B(d - 1, 1)
               ELSE B(d, 0)
  BY <1>3, InBlock
<1>5. \A k \in 1..N : \A d \in Nat : R[k - 1] = B(d, 1) => R[k] = IF d = 0 THEN Code ELSE B(d, 0)
  BY <1>3, Passing
<1> HIDE DEF R, B
<1>6. ASSUME NEW k \in 1..(N + 1), \A j \in (k + 1)..(N + 1) : j \in S,
             NEW d \in Nat, Inside(k, d)
      PROVE  Ends(k, f[<<k, d>>])
  <2>1. f[<<k, d>>] = IF k > N \/ d = 0 THEN k
                      ELSE IF Pair(k, "/", "*") THEN f[<<k + 2, d + 1>>]
                      ELSE IF Pair(k, "*", "/") THEN f[<<k + 2, d - 1>>]
                      ELSE f[<<k + 1, d>>]
    BY <1>1, NestsAre
  <2>2. ASSUME k <= N, NEW e \in Nat, R[k + 1] = (IF e = 0 THEN Code ELSE B(e, 0)),
               R[k - 1].piece = "block", R[k].piece = "block", k + 2 <= N + 1,
               f[<<k, d>>] = f[<<k + 2, e>>]
        PROVE  Ends(k, f[<<k, d>>])
    <3>1. k + 2 \in (k + 1)..(N + 1) /\ (k + 2) - 1 = k + 1
      BY <1>3, <2>2
    <3>2. Ends(k + 2, f[<<k + 2, e>>])
      <4>1. Inside(k + 2, e)
        BY <2>2, <3>1
      <4> QED
        BY <1>6, <3>1, <4>1
    <3>3. \A j \in (k - 1)..N : j = k - 1 \/ j = k \/ j \in ((k + 2) - 1)..N
      BY <1>3
    <3>4. PICK g : g = f[<<k + 2, e>>]
      OBVIOUS
    <3> QED
      BY <1>3, <2>2, <3>1, <3>2, <3>3, <3>4
  <2>3. CASE k > N \/ d = 0
    <3>1. f[<<k, d>>] = k
      BY <2>1, <2>3
    <3>2. k <= N => R[k - 1] = Code
      BY <1>3, <1>6, <2>3
    <3>3. k \in k..(N + 1) /\ \A j \in (k - 1)..N : ~(j < k - 1)
      BY <1>3
    <3> QED
      BY <3>1, <3>2, <3>3
  <2>4. CASE k <= N /\ d # 0 /\ Pair(k, "/", "*")
    <3>1. k \in 1..N /\ k + 1 \in 1..N /\ (k + 1) - 1 = k /\ k + 2 <= N + 1 /\ d + 1 \in Nat /\ d + 1 # 0
      BY <1>3, <2>4
    <3>2. R[k - 1] = B(d, 0) /\ R[k] = B(d + 1, 1)
      BY <1>4, <1>6, <2>4, <3>1
    <3>3. R[k + 1] = B(d + 1, 0)
      BY <1>5, <3>1, <3>2
    <3>4. f[<<k, d>>] = f[<<k + 2, d + 1>>]
      BY <1>3, <2>1, <2>4
    <3> QED
      BY <1>2, <2>2, <2>4, <3>1, <3>2, <3>3, <3>4
  <2>5. CASE k <= N /\ d # 0 /\ ~Pair(k, "/", "*") /\ Pair(k, "*", "/")
    <3>1. k \in 1..N /\ k + 1 \in 1..N /\ (k + 1) - 1 = k /\ k + 2 <= N + 1 /\ d - 1 \in Nat
      BY <1>3, <2>5
    <3>2. R[k - 1] = B(d, 0) /\ R[k] = B(d - 1, 1)
      BY <1>4, <1>6, <2>5, <3>1
    <3>3. R[k + 1] = IF d - 1 = 0 THEN Code ELSE B(d - 1, 0)
      BY <1>5, <3>1, <3>2
    <3>4. f[<<k, d>>] = f[<<k + 2, d - 1>>]
      BY <1>3, <2>1, <2>5
    <3> QED
      BY <1>2, <2>2, <2>5, <3>1, <3>2, <3>3, <3>4
  <2>6. CASE k <= N /\ d # 0 /\ ~Pair(k, "/", "*") /\ ~Pair(k, "*", "/")
    <3>1. k \in 1..N /\ k + 1 \in (k + 1)..(N + 1) /\ (k + 1) - 1 = k
      BY <1>3, <2>6
    <3>2. R[k - 1] = B(d, 0) /\ R[k] = B(d, 0)
      BY <1>4, <1>6, <2>6, <3>1
    <3>3. f[<<k, d>>] = f[<<k + 1, d>>]
      BY <1>3, <2>1, <2>6
    <3>4. Ends(k + 1, f[<<k + 1, d>>])
      <4>1. Inside(k + 1, d)
        BY <2>6, <3>1, <3>2
      <4> QED
        BY <1>6, <3>1, <4>1
    <3>5. \A j \in (k - 1)..N : j = k - 1 \/ j \in ((k + 1) - 1)..N
      BY <1>3
    <3>6. PICK g : g = f[<<k + 1, d>>]
      OBVIOUS
    <3> QED
      BY <1>2, <1>3, <3>1, <3>2, <3>3, <3>4, <3>5, <3>6
  <2> QED
    BY <1>3, <2>3, <2>4, <2>5, <2>6
<1>7. PICK n : n = N + 1
  OBVIOUS
<1>8. \A k \in 1..n : k \in S
  <2>1. n \in Nat
    BY <1>3, <1>7
  <2>2. \A k \in 1..n : (\A j \in (k + 1)..n : j \in S) => k \in S
    BY <1>6, <1>7
  <2> HIDE DEF S
  <2> QED
    BY <2>1, <2>2, DownFrom
<1>9. i + 2 \in 1..n /\ i + 1 \in 1..N /\ i \in 1..N /\ (i + 1) - 1 = i /\ (i + 2) - 1 = i + 1
  BY <1>3, <1>7, Steps DEF AtBlock
<1>10. R[i] = B(1, 1) /\ R[i + 1] = B(1, 0)
  <2>1. PairAt(text, i, "/", "*") /\ text \in Seq(Symbols) /\ i \in 1..Len(text)
    BY Steps DEF AtBlock, Scans
  <2>2. R[i] = B(1, 1)
    BY <2>1, Steps, Opening DEF R, B
  <2> QED
    BY <1>5, <1>9, <2>2
<1>11. Ends(i + 2, f[<<i + 2, 1>>])
  <2>1. Inside(i + 2, 1)
    BY <1>9, <1>10
  <2> QED
    BY <1>8, <1>9, <2>1
<1> QED
  <2>1. PICK e : e = f[<<i + 2, 1>>]
    OBVIOUS
  <2>2. \A j \in i..N : j = i \/ j \in ((i + 2) - 1)..N
    BY <1>3, <1>9
  <2>3. /\ e \in (i + 2)..(N + 2)
        /\ e <= N => R[e - 1] = Code
    BY <1>3, <1>9, <1>11, <2>1
  <2>4. \A j \in i..N : j < e - 1 => R[j].piece = "block"
    BY <1>2, <1>10, <1>11, <2>1, <2>2
  <2> QED
    BY <1>1, <2>1, <2>3, <2>4 DEF Jump, R

(* A dollar is no part of a word.                                           *)
LEMMA DollarIsNoLetter == "$" \notin WordChars /\ "1" \notin IdentifierStart
BY DEF WordChars, IdentifierStart, Keywords

(* The tag that the loop finds is the tag that is read.                     *)
LEMMA SameTag ==
  ASSUME Scans
  PROVE  /\ AtDollar <=> TagAt(text, i) # {}
         /\ AtDollar => /\ Min(TagEnds) \in (i + 1)..N
                        /\ Tag(text, i) = SubSeq(text, i, Min(TagEnds))
<1>1. N \in Nat /\ N = Len(text) /\ i \in 1..N
  BY Steps DEF Scans
<1> DEFINE Ending(e) == /\ text[i] = "$" /\ text[e] = "$"
                        /\ \A j \in (i + 1)..(e - 1) : text[j] \in WordChars
                        /\ e > i + 1 => text[i + 1] \in IdentifierStart
                        /\ i > 1 => text[i - 1] \notin WordChars \cup {"$"}
           ends == {e \in (i + 1)..N : Ending(e)}
<1>2. ASSUME NEW e \in (i + 1)..N
      PROVE  Ending(e) <=>
               /\ text[i] = "$" /\ text[e] = "$"
               /\ \A j \in (i + 1)..(e - 1) : text[j] \in WordChars
               /\ e > i + 1 => text[i + 1] # "1"
               /\ i > 1 => text[i - 1] \notin WordChars \cup {"$"}
  <2>1. e > i + 1 => i + 1 \in (i + 1)..(e - 1)
    BY <1>1
  <2>2. \A c \in WordChars : c \in IdentifierStart <=> c # "1"
    BY DollarIsNoLetter DEF WordChars
  <2> QED
    BY <2>1, <2>2
<1>3. TagAt(text, i) = {SubSeq(text, i, e) : e \in ends}
  <2>1. TagAt(text, i) = {SubSeq(text, i, e) : e \in {e \in (i + 1)..N :
                            /\ text[i] = "$" /\ text[e] = "$"
                            /\ \A j \in (i + 1)..(e - 1) : text[j] \in WordChars
                            /\ e > i + 1 => text[i + 1] # "1"
                            /\ i > 1 => text[i - 1] \notin WordChars \cup {"$"}}}
    BY <1>1 DEF TagAt
  <2> HIDE DEF Ending
  <2> QED
    BY <1>2, <2>1
<1>4. \A e \in (i + 1)..N : e \in TagEnds /\ text[i] = "$" <=> Ending(e)
  BY <1>1 DEF TagEnds
<1>5. TagEnds \subseteq (i + 1)..N
  BY <1>1 DEF TagEnds
<1>6. AtDollar <=> ends # {}
  <2>1. AtDollar <=> text[i] = "$" /\ TagEnds # {}
    BY <1>1 DEF AtDollar, Is
  <2> HIDE DEF Ending
  <2> QED
    BY <1>4, <1>5, <2>1
<1>7. text[i] = "$" => TagEnds = ends
  <2> HIDE DEF Ending
  <2> QED
    BY <1>4, <1>5
<1>8. \A e, g \in ends : e = g
  <2>1. ASSUME NEW e \in (i + 1)..N, NEW g \in (i + 1)..N, Ending(e), Ending(g), e < g PROVE FALSE
    <3>1. e \in (i + 1)..(g - 1)
      BY <1>1, <2>1
    <3> QED
      BY <2>1, <3>1, DollarIsNoLetter
  <2>2. \A e, g \in (i + 1)..N : e < g \/ e = g \/ g < e
    BY <1>1
  <2> HIDE DEF Ending
  <2> QED
    BY <2>1, <2>2
<1>9. TagAt(text, i) # {} <=> ends # {}
  <2> HIDE DEF ends
  <2> QED
    BY <1>3
<1>10. ASSUME AtDollar
       PROVE  Min(TagEnds) \in (i + 1)..N /\ Tag(text, i) = SubSeq(text, i, Min(TagEnds))
  <2>1. TagEnds = ends /\ ends # {}
    BY <1>1, <1>6, <1>7, <1>10 DEF AtDollar, Is
  <2>2. PICK m : m = Min(TagEnds)
    OBVIOUS
  <2>3. m \in ends
    <3>1. ends \in SUBSET Nat
      BY <1>1
    <3> HIDE DEF ends
    <3> QED
      BY <2>1, <2>2, <3>1, MinIsLeast
  <2>4. Tag(text, i) \in TagAt(text, i)
    BY <1>9, <2>1 DEF Tag
  <2>5. PICK e \in ends : Tag(text, i) = SubSeq(text, i, e)
    <3> HIDE DEF ends
    <3> QED
      BY <1>3, <2>4
  <2>6. e = m
    <3> HIDE DEF ends
    <3> QED
      BY <1>8, <2>3, <2>5
  <2>7. m \in (i + 1)..N
    BY <2>3
  <2> QED
    BY <2>2, <2>5, <2>6, <2>7
<1> QED
  BY <1>6, <1>9, <1>10

(* DollarString jumps from the first of two tags past the second.           *)
LEMMA DollarJump ==
  ASSUME Scans, AtDollar
  PROVE  Jump("dollar", PastDollar)
<1> DEFINE R == Reading(text)
           z == Min(TagEnds)
           tag == SubSeq(text, i, z)
           from == i + Len(tag)
           matches == {k \in from..(N + 1 - Len(tag)) : SubSeq(text, k, k + Len(tag) - 1) = tag}
           past == {k + Len(tag) : k \in matches} \cup {N + 2}
           D(d, a) == In("dollar", d, tag, a)
<1>1. /\ N \in Nat /\ N = Len(text) /\ i \in Nat /\ i >= 1 /\ i <= N /\ text \in Seq(Symbols)
      /\ \A k \in 1..N : R[k] = Turn(text, k, R[k - 1])
  BY Steps DEF Scans
<1>2. PICK L : L = Len(tag)
  OBVIOUS
<1>3. z \in (i + 1)..N /\ TagAt(text, i) # {} /\ Tag(text, i) = tag
  BY SameTag
<1>4. L = z - i + 1 /\ L \in Nat /\ L >= 2 /\ from = z + 1 /\ from \in Nat /\ from <= N + 1
  <2> HIDE DEF z
  <2>1. Len(tag) = z - i + 1
    BY <1>1, <1>3, SubSeqProperties
  <2> HIDE DEF tag
  <2> QED
    BY <1>1, <1>2, <1>3, <2>1
<1> HIDE DEF R, z, tag
<1>5. R[i] = D(1, L - 1)
  <2>1. Opens(text, i) = In("dollar", 1, tag, L - 1)
    <3>1. i \in 1..Len(text)
      BY <1>1
    <3>2. Opens(text, i) = In("dollar", 1, Tag(text, i), Len(Tag(text, i)) - 1)
      BY <1>1, <1>3, <3>1, Opening
    <3> QED
      BY <1>2, <1>3, <3>2
  <2> QED
    BY <2>1, Steps DEF R
<1>6. \A k \in 1..N, d \in Int, a \in Int : a > 0 /\ R[k - 1] = D(d, a) =>
        R[k] = IF a > 1 \/ d > 0 THEN D(d, a - 1) ELSE Code
  BY <1>1, Passing
<1>7. \A k \in 1..N : R[k - 1] = D(1, 0) =>
        R[k] = IF SubSeq(text, k, Min({k + L - 1, N})) = tag THEN D(0, L - 1) ELSE D(1, 0)
  <2>1. \A k \in 1..N : Turn(text, k, D(1, 0)) =
          IF SubSeq(text, k, Min({k + L - 1, N})) = tag THEN D(0, L - 1) ELSE D(1, 0)
    BY <1>1, <1>2, InDollar
  <2> QED
    BY <1>1, <2>1
<1>8. \A d, a : D(d, a).piece = "dollar"
  BY DEF In
<1> HIDE DEF D
<1>9. PICK e : e = Min(past)
  OBVIOUS
<1>10. \A k : k \in matches <=> k \in from..(N + 1 - L) /\ SubSeq(text, k, k + L - 1) = tag
  BY <1>2
<1>11. past = {k + L : k \in matches} \cup {N + 2}
  BY <1>2
<1>12. /\ e = PastDollar
       /\ e \in past /\ \A k \in past : e <= k
  <2>1. e = PastDollar
    BY <1>9 DEF PastDollar, tag, z
  <2> HIDE DEF matches, past, from
  <2>2. past \in SUBSET Nat /\ past # {}
    BY <1>1, <1>4, <1>10, <1>11
  <2>3. Min(past) \in past /\ \A k \in past : Min(past) <= k
    BY <2>2, MinIsLeast
  <2> QED
    BY <1>9, <2>1, <2>3
<1> HIDE DEF matches, past, from
<1> DEFINE m == e - L
<1>13. /\ e \in Nat
       /\ e = N + 2 \/ (m \in from..(N + 1 - L) /\ SubSeq(text, m, m + L - 1) = tag)
       /\ \A k \in from..(N + 1 - L) : k + L < e => SubSeq(text, k, k + L - 1) # tag
  <2>1. \A k \in from..(N + 1 - L) : k + L < e => k \notin matches
    <3>1. ASSUME NEW k \in matches PROVE e <= k + L
      BY <1>11, <1>12, <3>1
    <3>2. e \in Nat
      BY <1>1, <1>4, <1>10, <1>11, <1>12
    <3>3. ASSUME NEW k \in from..(N + 1 - L), k + L < e, k \in matches PROVE FALSE
      <4>1. e <= k + L
        BY <3>1, <3>3
      <4>2. k + L \in Int
        BY <1>1, <1>4
      <4> QED
        BY <3>2, <3>3, <4>1, <4>2
    <3> QED
      BY <3>3
  <2>2. e = N + 2 \/ \E k \in matches : e = k + L
    BY <1>11, <1>12
  <2>3. e = N + 2 \/ m \in matches
    BY <1>1, <1>4, <1>10, <2>2
  <2>4. e \in Nat
    BY <1>1, <1>4, <1>10, <2>2
  <2> QED
    BY <1>10, <2>1, <2>3, <2>4
<1>14. \A k \in from..N : k < m \/ e = N + 2 => SubSeq(text, k, Min({k + L - 1, N})) # tag
  <2>1. ASSUME NEW k \in from..N, k < m \/ e = N + 2
        PROVE  SubSeq(text, k, Min({k + L - 1, N})) # tag
    <3>1. \A x \in Nat, y \in Nat : x <= y => Min({x, y}) = x /\ Min({y, x}) = x
      BY DEF Min
    <3>2. k \in Nat /\ k >= 1 /\ k <= N /\ k + L - 1 \in Nat
      BY <1>1, <1>3, <1>4, <2>1
    <3>3. CASE k + L - 1 <= N
      <4>1. k \in from..(N + 1 - L) /\ k + L < e
        <5>1. e \in Nat /\ L \in Nat /\ N \in Nat /\ from \in Nat /\ from <= k
          BY <1>1, <1>4, <1>13, <2>1
        <5>2. k < m => k + L < e
          BY <3>2, <5>1 DEF m
        <5>3. e = N + 2 => k + L < e
          BY <3>2, <3>3, <5>1
        <5>4. k <= N + 1 - L
          BY <3>2, <3>3, <5>1
        <5> QED
          BY <2>1, <3>2, <5>1, <5>2, <5>3, <5>4
      <4>2. Min({k + L - 1, N}) = k + L - 1
        BY <1>1, <3>1, <3>2, <3>3
      <4> QED
        BY <1>13, <4>1, <4>2
    <3>4. CASE k + L - 1 > N
      <4>1. Min({k + L - 1, N}) = N
        BY <1>1, <3>1, <3>2, <3>4
      <4>2. Len(SubSeq(text, k, N)) = N - k + 1
        BY <1>1, <3>2, SubSeqProperties
      <4>3. N - k + 1 # L
        BY <1>1, <1>4, <3>2, <3>4
      <4>4. Len(SubSeq(text, k, N)) # Len(tag)
        BY <1>2, <4>2, <4>3
      <4> QED
        BY <4>1, <4>4
    <3>5. k + L - 1 <= N \/ k + L - 1 > N
      BY <1>1, <3>2
    <3> QED
      BY <3>3, <3>4, <3>5
  <2> QED
    BY <2>1
<1>15. \A k \in i..z : R[k] = D(1, z - k)
  <2> DEFINE S == {k \in i..z : R[k] = D(1, z - k)}
  <2>1. i \in S
    BY <1>1, <1>3, <1>4, <1>5
  <2>2. ASSUME NEW k \in (i + 1)..z, k - 1 \in S PROVE k \in S
    <3>1. k \in 1..N /\ z - (k - 1) > 0 /\ z - (k - 1) \in Int /\ (z - (k - 1)) - 1 = z - k
      BY <1>1, <1>3
    <3>2. R[k] = D(1, (z - (k - 1)) - 1)
      BY <1>6, <2>2, <3>1
    <3> QED
      BY <1>1, <1>3, <3>1, <3>2
  <2>3. i \in Nat /\ z \in Nat
    BY <1>1, <1>3
  <2> HIDE DEF S
  <2>4. \A k \in i..z : k \in S
    BY <2>1, <2>2, <2>3, Ascending
  <2> QED
    BY <2>4 DEF S
<1>16. R[z] = D(1, 0)
  <2>1. z \in i..z /\ z - z = 0
    BY <1>1, <1>3
  <2> QED
    BY <1>15, <2>1
<1>17. \A k \in z..N : k < m \/ e = N + 2 => R[k] = D(1, 0)
  <2> DEFINE S == {k \in z..N : k < m \/ e = N + 2 => R[k] = D(1, 0)}
  <2>1. z \in S
    BY <1>1, <1>3, <1>16
  <2>2. ASSUME NEW k \in (z + 1)..N, k - 1 \in S PROVE k \in S
    <3>1. k \in z..N /\ k \in 1..N /\ k \in from..N
      BY <1>1, <1>3, <1>4
    <3>2. SUFFICES ASSUME k < m \/ e = N + 2 PROVE R[k] = D(1, 0)
      BY <3>1
    <3>3. R[k - 1] = D(1, 0)
      BY <1>4, <1>13, <2>2, <3>1, <3>2
    <3> QED
      BY <1>7, <1>14, <3>1, <3>2, <3>3
  <2>3. z \in Nat
    BY <1>1, <1>3
  <2> HIDE DEF S
  <2>4. \A k \in z..N : k \in S
    BY <1>1, <2>1, <2>2, <2>3, Ascending
  <2> QED
    BY <2>4 DEF S
<1>18. CASE e = N + 2
  <2>1. \A k \in i..N : k \in i..z \/ k \in z..N
    BY <1>1, <1>3
  <2>2. \A k \in i..N : R[k].piece = "dollar"
    BY <1>8, <1>15, <1>17, <1>18, <2>1
  <2>3. e \in (i + 2)..(N + 2) /\ ~(e <= N)
    BY <1>1, <1>3, <1>18
  <2> QED
    BY <1>12, <2>2, <2>3 DEF Jump, R
<1>19. CASE e # N + 2
  <2>1. /\ m \in from..(N + 1 - L) /\ m \in Nat /\ e = m + L /\ m - 1 \in z..N /\ m - 1 < m
        /\ m \in 1..N /\ m + L - 1 \in 1..N
    BY <1>1, <1>3, <1>4, <1>13, <1>19
  <2>2. R[m] = D(0, L - 1)
    <3>1. Min({m + L - 1, N}) = m + L - 1
      <4>1. m + L - 1 \in Nat /\ m + L - 1 <= N
        BY <1>1, <1>4, <2>1
      <4> HIDE DEF m
      <4> QED
        BY <1>1, <4>1 DEF Min
    <3>2. R[m - 1] = D(1, 0)
      BY <1>17, <2>1
    <3> QED
      BY <1>7, <1>13, <1>19, <2>1, <3>1, <3>2
  <2> HIDE DEF m
  <2>3. \A k \in m..(m + L - 2) : R[k] = D(0, m + L - 1 - k)
    <3> DEFINE S == {k \in m..(m + L - 2) : R[k] = D(0, m + L - 1 - k)}
    <3>1. m \in S
      <4>1. m \in m..(m + L - 2) /\ m + L - 1 - m = L - 1
        BY <1>4, <2>1
      <4> QED
        BY <2>2, <4>1
    <3>2. ASSUME NEW k \in (m + 1)..(m + L - 2), k - 1 \in S PROVE k \in S
      <4>1. /\ k \in 1..N /\ k \in m..(m + L - 2)
            /\ m + L - 1 - (k - 1) > 1 /\ m + L - 1 - (k - 1) \in Int
            /\ (m + L - 1 - (k - 1)) - 1 = m + L - 1 - k
        <5>1. N \in Nat /\ L \in Nat /\ m \in Nat /\ m >= 1 /\ m + L - 1 <= N /\ k \in Nat /\ m + 1 <= k /\ k <= m + L - 2
          BY <1>1, <1>4, <2>1
        <5>2. k \in 1..N /\ k \in m..(m + L - 2)
          BY <5>1
        <5>3. m + L - 1 - (k - 1) > 1 /\ m + L - 1 - (k - 1) \in Int
          BY <5>1
        <5>4. (m + L - 1 - (k - 1)) - 1 = m + L - 1 - k
          BY <5>1
        <5> QED
          BY <5>2, <5>3, <5>4
      <4>2. R[k] = D(0, (m + L - 1 - (k - 1)) - 1)
        BY <1>6, <3>2, <4>1
      <4> QED
        BY <4>1, <4>2
    <3>3. m \in Nat /\ m + L - 2 \in Nat
      BY <1>4, <2>1
    <3> HIDE DEF S
    <3>4. \A k \in m..(m + L - 2) : k \in S
      BY <3>1, <3>2, <3>3, Ascending
    <3> QED
      BY <3>4 DEF S
  <2>4. R[m + L - 1] = Code
    <3>1. /\ m + L - 2 \in m..(m + L - 2) /\ m + L - 1 - (m + L - 2) = 1
          /\ (m + L - 1) - 1 = m + L - 2
      BY <1>4, <2>1
    <3>2. R[(m + L - 1) - 1] = D(0, 1)
      BY <2>3, <3>1
    <3> QED
      BY <1>6, <2>1, <3>2
  <2>5. \A k \in i..N : k < e - 1 => k \in i..z \/ (k \in z..N /\ k < m) \/ k \in m..(m + L - 2)
    BY <1>1, <1>3, <1>4, <2>1
  <2>6. \A k \in i..N : k < e - 1 => R[k].piece = "dollar"
    BY <1>8, <1>15, <1>17, <2>3, <2>5
  <2>7. e \in (i + 2)..(N + 2) /\ e - 1 = m + L - 1
    BY <1>1, <1>3, <1>4, <2>1
  <2> QED
    BY <1>12, <2>4, <2>6, <2>7 DEF Jump, R
<1> QED
  BY <1>18, <1>19
-----------------------------------------------------------------------------
(* What the loop goes over                                                  *)

(* The piece of a symbol, from the reading before and after it.             *)
LEMMA PiecesAre ==
  ASSUME NEW t \in Seq(Symbols)
  PROVE  \A k \in 1..Len(t) :
           Pieces(t)[k] = IF Reading(t)[k - 1].piece = "code" THEN Reading(t)[k].piece
                          ELSE Reading(t)[k - 1].piece
<1>1. DOMAIN t = 1..Len(t)
  OBVIOUS
<1> QED
  BY <1>1 DEF Pieces

(* Material and semicolons are positions in the text.                       *)
LEMMA MaterialIs ==
  ASSUME NEW t \in Seq(Symbols)
  PROVE  /\ Material(t) \subseteq 1..Len(t) /\ Semicolons(t) \subseteq 1..Len(t)
         /\ \A k \in 1..Len(t) :
              /\ k \in Material(t) <=> /\ Pieces(t)[k] # "line" /\ Pieces(t)[k] # "block"
                                       /\ Pieces(t)[k] = "code" => t[k] \notin Spaces /\ t[k] # "semi"
              /\ k \in Semicolons(t) <=> Pieces(t)[k] = "code" /\ t[k] = "semi"
<1>1. DOMAIN t = 1..Len(t)
  OBVIOUS
<1> QED
  BY <1>1 DEF Material, Semicolons, Comments

(* A semicolon of the code is not material.                                 *)
LEMMA NoSemicolonIsMaterial ==
  ASSUME NEW t \in Seq(Symbols), NEW s \in Semicolons(t)
  PROVE  s \notin Material(t)
BY MaterialIs

(* All symbols the loop jumps over belong to the one piece.                 *)
LEMMA JumpCovers ==
  ASSUME Scans, NEW p, p # "code", NEW e, Jump(p, e)
  PROVE  \A k \in i..N : k < e => Pieces(text)[k] = p
<1>1. /\ text \in Seq(Symbols) /\ N \in Nat /\ N = Len(text) /\ i \in Nat /\ i >= 1 /\ i <= N
      /\ Reading(text)[i - 1].piece = "code"
      /\ e \in Nat /\ i < e - 1
      /\ \A k \in i..N : k < e - 1 => Reading(text)[k].piece = p
  <2>1. Reading(text)[i - 1].piece = "code"
    BY CodeState DEF Scans
  <2>2. e \in (i + 2)..(N + 2)
    BY DEF Jump
  <2> QED
    BY <2>1, <2>2, Steps DEF Scans, Jump
<1>2. ASSUME NEW k \in i..N, k < e PROVE Pieces(text)[k] = p
  <2>1. k \in 1..Len(text)
    BY <1>1
  <2>2. CASE k = i
    BY <1>1, <2>1, <2>2, PiecesAre
  <2>3. CASE k # i
    <3>1. k - 1 \in i..N /\ k - 1 < e - 1
      BY <1>1, <1>2, <2>3
    <3>2. Reading(text)[k - 1].piece = p
      BY <1>1, <3>1
    <3> QED
      BY <1>1, <2>1, <3>2, PiecesAre
  <2> QED
    BY <2>2, <2>3
<1> QED
  BY <1>2

(* In code the loop takes one symbol at a time.                             *)
LEMMA CodeCovers ==
  ASSUME Scans, ~AtLine, ~AtBlock, ~AtDollar, text[i] # "'", text[i] # "\""
  PROVE  Reading(text)[i] = Code /\ Pieces(text)[i] = "code"
<1>1. text \in Seq(Symbols) /\ i \in 1..Len(text) /\ N = Len(text)
  BY Steps DEF Scans
<1>2. ~PairAt(text, i, "-", "-") /\ ~PairAt(text, i, "/", "*")
  BY <1>1, Steps DEF AtLine, AtBlock
<1>3. TagAt(text, i) = {}
  BY SameTag
<1>4. Opens(text, i) = Code
  BY <1>1, <1>2, <1>3, Opening
<1>5. Reading(text)[i] = Code
  BY <1>4, Steps
<1>6. Reading(text)[i - 1] = Code
  BY DEF Scans
<1> QED
  BY <1>1, <1>5, <1>6, PiecesAre, CodeState

(* String jumps over one string, escaped or not.                            *)
LEMMA StringJumps ==
  ASSUME Scans, Is(i, "'")
  PROVE  \E p : p \notin {"code", "line", "block", "name", "dollar"} /\ Jump(p, Closing("'", EscapeString) + 1)
<1>1. text \in Seq(Symbols) /\ i \in 1..Len(text) /\ N = Len(text) /\ text[i] = "'" /\ i \in Nat /\ i >= 1
  BY Steps DEF Scans, Is
<1>2. EscapeString <=> EscapedAt(text, i)
  BY <1>1 DEF EscapeString, EscapedAt, Is
<1>3. EscapeString \in BOOLEAN
  BY DEF EscapeString
<1>4. CASE EscapeString
  <2>1. Reading(text)[i] = In("escaped", 1, <<>>, 0)
    BY <1>1, <1>2, <1>4, Opening, Steps
  <2>2. \A k \in 1..N : Turn(text, k, In("escaped", 1, <<>>, 0)) =
           IF EscapeString /\ text[k] = "\\" /\ k < N THEN In("escaped", 1, <<>>, 1)
           ELSE IF PairAt(text, k, "'", "'") THEN In("escaped", 1, <<>>, 1)
           ELSE IF text[k] = "'" THEN Code ELSE In("escaped", 1, <<>>, 0)
    BY <1>1, <1>4, InQuotes
  <2>3. Jump("escaped", Closing("'", EscapeString) + 1)
    BY <1>3, <2>1, <2>2, QuoteJump
  <2> QED
    BY <2>3
<1>5. CASE ~EscapeString
  <2>1. Reading(text)[i] = In("string", 1, <<>>, 0)
    BY <1>1, <1>2, <1>5, Opening, Steps
  <2>2. \A k \in 1..N : Turn(text, k, In("string", 1, <<>>, 0)) =
           IF EscapeString /\ text[k] = "\\" /\ k < N THEN In("string", 1, <<>>, 1)
           ELSE IF PairAt(text, k, "'", "'") THEN In("string", 1, <<>>, 1)
           ELSE IF text[k] = "'" THEN Code ELSE In("string", 1, <<>>, 0)
    BY <1>1, <1>5, InQuotes
  <2>3. Jump("string", Closing("'", EscapeString) + 1)
    BY <1>3, <2>1, <2>2, QuoteJump
  <2> QED
    BY <2>3
<1> QED
  BY <1>4, <1>5

(* Quoted jumps over one name.                                              *)
LEMMA NameJumps ==
  ASSUME Scans, Is(i, "\"")
  PROVE  Jump("name", Closing("\"", FALSE) + 1)
<1>1. text \in Seq(Symbols) /\ i \in 1..Len(text) /\ N = Len(text) /\ text[i] = "\""
  BY Steps DEF Scans, Is
<1>2. Reading(text)[i] = In("name", 1, <<>>, 0)
  BY <1>1, Opening, Steps
<1>3. \A k \in 1..N : Turn(text, k, In("name", 1, <<>>, 0)) =
         IF FALSE /\ text[k] = "\\" /\ k < N THEN In("name", 1, <<>>, 1)
         ELSE IF PairAt(text, k, "\"", "\"") THEN In("name", 1, <<>>, 1)
         ELSE IF text[k] = "\"" THEN Code ELSE In("name", 1, <<>>, 0)
  BY InQuotes
<1> QED
  BY <1>2, <1>3, QuoteJump
-----------------------------------------------------------------------------
(* The count of the statements                                              *)

(* The symbols before n that begin another statement: they come after       *)
(* semicolons with nothing in between.                                      *)
Begun(n) ==
  {m \in Material(text) : m < n /\ \E s \in Semicolons(text) :
     s < m /\ \A k \in s..m : k \in Material(text) => k = m}

(* The loop is in code whenever it looks at a symbol.                       *)
PlaceInv ==
  /\ i \in Nat \ {0}
  /\ i <= N => Reading(text)[i - 1] = Code

(* After a semicolon there is no code yet.                                  *)
MarkInv == pending \in BOOLEAN /\ (sawCode <=> ~pending)

(* While semicolons are pending, the place to cut at is the first of them:  *)
(* all material is before it, and none of the earlier ones is in that row.  *)
(* While none are, there is material behind every semicolon.                *)
TrailInv ==
  /\ pending => /\ trailing \in Semicolons(text)
                /\ trailing < i
                /\ \A m \in Material(text) : m < i => m < trailing
                /\ \A s \in Semicolons(text) : s < trailing =>
                     \E m \in Material(text) : s < m /\ m < trailing
  /\ ~pending => /\ trailing = 0
                 /\ \A s \in Semicolons(text) : s < i => \E m \in Material(text) : s < m /\ m < i

(* What has been counted is one more than what has begun since.             *)
CountInv == statements = 1 + Cardinality(Begun(i))

ScanInv == PlaceInv /\ MarkInv /\ TrailInv /\ CountInv

(* All that is to be executed comes before all semicolons.                  *)
OneStatement == \A s \in Semicolons(text), m \in Material(text) : m < s

(* The second pass is begun, and a text accepted, only with one statement.  *)
GuardInv ==
  /\ text \in Seq(Symbols)
  /\ stage # "done" => ScanInv /\ verdict = "" /\ count = <<>>
  /\ stage = "relations" \/ verdict = "accepted" => OneStatement
  /\ CountIsTheStatement

(* There is only so much material in a text.                                *)
LEMMA BegunIsFinite ==
  ASSUME NEW t \in Seq(Symbols)
  PROVE  IsFiniteSet(Material(t))
<1>1. IsFiniteSet(1..Len(t))
  BY FS_Interval
<1> QED
  BY <1>1, MaterialIs, FS_Subset

(* A turn of the loop over blanks or a comment.                             *)
LEMMA SkipKeeps ==
  ASSUME text \in Seq(Symbols), i \in 1..N, ScanInv, NoMark, text' = text,
         i' \in Nat, i' > i, i' <= N => Reading(text)[i' - 1] = Code,
         \A k \in i..N : k < i' => k \notin Material(text) /\ k \notin Semicolons(text)
  PROVE  ScanInv'
<1> DEFINE M == Material(text)
           S == Semicolons(text)
<1>1. /\ N \in Nat /\ M \subseteq 1..N /\ S \subseteq 1..N /\ i \in Nat /\ N' = N
      /\ Material(text)' = M /\ Semicolons(text)' = S
  <2>1. N \in Nat /\ N = Len(text) /\ N' = N
    BY DEF N
  <2>2. M \subseteq 1..N /\ S \subseteq 1..N
    BY <2>1, MaterialIs
  <2>3. Material(text)' = M /\ Semicolons(text)' = S
    OBVIOUS
  <2> QED
    BY <2>1, <2>2, <2>3
<1>2. \A k \in M \cup S : k < i' <=> k < i
  BY <1>1
<1>3. Begun(i)' = Begun(i)
  <2>1. Begun(i)' = {m \in M : m < i' /\ \E s \in S : s < m /\ \A k \in s..m : k \in M => k = m}
    BY <1>1 DEF Begun
  <2>2. Begun(i) = {m \in M : m < i /\ \E s \in S : s < m /\ \A k \in s..m : k \in M => k = m}
    BY DEF Begun
  <2> HIDE DEF M, S
  <2> QED
    BY <1>2, <2>1, <2>2
<1> HIDE DEF M, S
<1>4. pending' = pending /\ sawCode' = sawCode /\ trailing' = trailing /\ statements' = statements
  BY DEF NoMark
<1>5. pending => /\ trailing \in S /\ trailing < i'
                 /\ \A m \in M : m < i' => m < trailing
                 /\ \A s \in S : s < trailing => \E m \in M : s < m /\ m < trailing
  BY <1>1, <1>2 DEF ScanInv, TrailInv, M, S
<1>6. ~pending => /\ trailing = 0
                  /\ \A s \in S : s < i' => \E m \in M : s < m /\ m < i'
  BY <1>1, <1>2 DEF ScanInv, TrailInv, M, S
<1>7. TrailInv'
  BY <1>1, <1>4, <1>5, <1>6 DEF TrailInv
<1>8. CountInv'
  BY <1>3, <1>4 DEF ScanInv, CountInv
<1>9. MarkInv'
  BY <1>4 DEF ScanInv, MarkInv
<1>10. PlaceInv'
  BY <1>1 DEF PlaceInv
<1> QED
  BY <1>7, <1>8, <1>9, <1>10 DEF ScanInv

(* A turn over something to execute.                                        *)
LEMMA MarkKeeps ==
  ASSUME text \in Seq(Symbols), i \in 1..N, ScanInv, MarkCode, text' = text,
         i' \in Nat, i' > i, i' <= N => Reading(text)[i' - 1] = Code,
         \A k \in i..N : k < i' => k \in Material(text)
  PROVE  ScanInv'
<1> DEFINE M == Material(text)
           S == Semicolons(text)
           Begins(m) == \E s \in S : s < m /\ \A k \in s..m : k \in M => k = m
<1>1. /\ N \in Nat /\ M \subseteq 1..N /\ S \subseteq 1..N /\ i \in Nat /\ N' = N
      /\ Material(text)' = M /\ Semicolons(text)' = S
  <2>1. N \in Nat /\ N = Len(text) /\ N' = N
    BY DEF N
  <2>2. M \subseteq 1..N /\ S \subseteq 1..N
    BY <2>1, MaterialIs
  <2>3. Material(text)' = M /\ Semicolons(text)' = S
    OBVIOUS
  <2> QED
    BY <2>1, <2>2, <2>3
<1>2. /\ Begun(i)' = {m \in M : m < i' /\ Begins(m)}
      /\ Begun(i) = {m \in M : m < i /\ Begins(m)}
  BY <1>1 DEF Begun
<1>3. /\ i \in M
      /\ \A s \in S : s < i' => s < i
      /\ pending => /\ trailing \in S /\ trailing < i
                    /\ \A m \in M : m < i => m < trailing
      /\ ~pending => /\ trailing = 0
                     /\ \A s \in S : s < i => \E m \in M : s < m /\ m < i
  <2>1. i \in M
    BY <1>1
  <2>2. \A s \in S : s < i' => s < i
    <3>1. \A s \in S : s \notin M
      BY NoSemicolonIsMaterial
    <3> QED
      BY <1>1, <3>1
  <2> QED
    BY <2>1, <2>2 DEF ScanInv, TrailInv, M, S
<1>4. statements = 1 + Cardinality(Begun(i)) /\ pending \in BOOLEAN
  BY DEF ScanInv, CountInv, MarkInv
<1>5. IsFiniteSet(Begun(i)) /\ Cardinality(Begun(i)) \in Nat
  <2>1. Begun(i) \subseteq Material(text)
    BY DEF Begun
  <2>2. IsFiniteSet(Begun(i))
    BY <2>1, BegunIsFinite, FS_Subset
  <2> QED
    BY <2>2, FS_CardinalityType
<1>6. \A m \in M : m >= i /\ m < i' /\ Begins(m) => m = i
  <2>1. ASSUME NEW m \in M, m < i', NEW s \in S, s < m, \A k \in s..m : k \in M => k = m, m > i
        PROVE  FALSE
    <3>1. s < i
      BY <1>1, <1>3, <2>1
    <3>2. i \in s..m
      BY <1>1, <2>1, <3>1
    <3> QED
      BY <1>1, <1>3, <2>1, <3>2
  <2> QED
    BY <1>1, <2>1
<1>7. Begins(i) <=> pending
  <2>1. CASE pending
    <3>1. \A k \in trailing..i : k \in M => k = i
      BY <1>1, <1>3, <2>1
    <3> QED
      BY <1>3, <2>1, <3>1
  <2>2. CASE ~pending
    <3>1. ASSUME NEW s \in S, s < i, \A k \in s..i : k \in M => k = i PROVE FALSE
      <4>1. PICK m \in M : s < m /\ m < i
        BY <1>3, <2>2, <3>1
      <4>2. m \in s..i
        BY <1>1, <4>1
      <4> QED
        BY <1>1, <3>1, <4>1, <4>2
    <3> QED
      BY <2>2, <3>1
  <2> QED
    BY <2>1, <2>2
<1> HIDE DEF M, S, Begins
<1>8. ASSUME pending
      PROVE  CountInv' /\ trailing' = 0 /\ pending' = FALSE /\ sawCode' = TRUE
  <2>1. Begun(i)' = Begun(i) \cup {i}
    <3>1. \A m \in M : m < i' => m < i \/ m >= i
      BY <1>1
    <3>2. \A m \in M : m < i => m < i'
      BY <1>1
    <3> QED
      BY <1>2, <1>3, <1>6, <1>7, <1>8, <3>1, <3>2
  <2>2. i \notin Begun(i)
    BY <1>1, <1>2
  <2>3. Cardinality(Begun(i)') = Cardinality(Begun(i)) + 1
    BY <1>5, <2>1, <2>2, FS_AddElement
  <2>4. statements' = statements + 1 /\ trailing' = 0 /\ pending' = FALSE /\ sawCode' = TRUE
    BY <1>8 DEF MarkCode
  <2>5. CountInv'
    BY <1>4, <1>5, <2>3, <2>4 DEF CountInv
  <2> QED
    BY <2>4, <2>5
<1>9. ASSUME ~pending
      PROVE  CountInv' /\ trailing' = 0 /\ pending' = FALSE /\ sawCode' = TRUE
  <2>1. Begun(i)' = Begun(i)
    <3>1. \A m \in M : m < i' => m < i \/ m >= i
      BY <1>1
    <3>2. \A m \in M : m < i => m < i'
      BY <1>1
    <3> QED
      BY <1>2, <1>6, <1>7, <1>9, <3>1, <3>2
  <2>2. statements' = statements /\ trailing' = 0 /\ pending' = FALSE /\ sawCode' = TRUE
    BY <1>3, <1>9 DEF MarkCode
  <2>3. CountInv'
    BY <1>4, <2>1, <2>2 DEF CountInv
  <2> QED
    BY <2>2, <2>3
<1>10. CountInv' /\ trailing' = 0 /\ pending' = FALSE /\ sawCode' = TRUE
  BY <1>4, <1>8, <1>9
<1>11. MarkInv'
  BY <1>10 DEF MarkInv
<1>12. TrailInv'
  BY <1>1, <1>3, <1>10 DEF TrailInv
<1>13. PlaceInv'
  BY <1>1 DEF PlaceInv
<1> QED
  BY <1>10, <1>11, <1>12, <1>13 DEF ScanInv

(* A semicolon.                                                             *)
LEMMA SemicolonKeeps ==
  ASSUME text \in Seq(Symbols), ScanInv, Semicolon
  PROVE  ScanInv'
<1> DEFINE M == Material(text)
           S == Semicolons(text)
           Begins(m) == \E s \in S : s < m /\ \A k \in s..m : k \in M => k = m
<1>1. i \in 1..N /\ text[i] = "semi" /\ i' = i + 1 /\ text' = text
  BY DEF Semicolon, Is, Write, rest
<1>2. Reading(text)[i] = Code /\ Pieces(text)[i] = "code"
  <2>1. i <= N
    BY <1>1 DEF Semicolon, Scanning
  <2>2. Scans
    BY <1>1, <2>1 DEF Scans, ScanInv, PlaceInv
  <2>3. ~AtLine /\ ~AtBlock /\ ~AtDollar /\ text[i] # "'" /\ text[i] # "\""
    BY <1>1 DEF AtLine, AtBlock, AtDollar, Pair, Is
  <2> QED
    BY <2>2, <2>3, CodeCovers
<1>3. /\ N \in Nat /\ M \subseteq 1..N /\ S \subseteq 1..N /\ i \in Nat /\ N' = N
      /\ Material(text)' = M /\ Semicolons(text)' = S
      /\ i \in S /\ i \notin M
  <2>1. N \in Nat /\ N = Len(text)
    BY DEF N
  <2>2. i \in S /\ i \notin M
    BY <1>1, <1>2, <2>1, MaterialIs
  <2>3. M \subseteq 1..N /\ S \subseteq 1..N
    BY <2>1, MaterialIs
  <2>4. Material(text)' = M /\ Semicolons(text)' = S /\ N' = N
    BY <1>1 DEF N
  <2>5. i \in Nat
    BY <1>1, <2>1
  <2> QED
    BY <2>1, <2>2, <2>3, <2>4, <2>5
<1>4. \A m \in M : m < i + 1 <=> m < i
  BY <1>3
<1>5. Begun(i)' = Begun(i)
  <2>1. /\ Begun(i)' = {m \in M : m < i' /\ Begins(m)}
        /\ Begun(i) = {m \in M : m < i /\ Begins(m)}
    BY <1>3 DEF Begun
  <2> HIDE DEF M, Begins
  <2> QED
    BY <1>1, <1>4, <2>1
<1> HIDE DEF M, S
<1>6. /\ pending => /\ trailing \in S /\ trailing < i
                    /\ \A m \in M : m < i => m < trailing
                    /\ \A s \in S : s < trailing => \E m \in M : s < m /\ m < trailing
      /\ ~pending => /\ trailing = 0
                     /\ \A s \in S : s < i => \E m \in M : s < m /\ m < i
  BY DEF ScanInv, TrailInv, M, S
<1>7. /\ pending' /\ statements' = statements
      /\ trailing' = IF pending THEN trailing ELSE i
      /\ MarkInv'
  <2>1. (sawCode <=> ~pending) /\ pending \in BOOLEAN
    BY DEF ScanInv, MarkInv
  <2>2. pending' = (pending \/ sawCode) /\ sawCode' = FALSE /\ statements' = statements
        /\ trailing' = IF sawCode THEN i ELSE trailing
    BY DEF Semicolon, Trailing
  <2>3. pending' = TRUE
    BY <2>1, <2>2, Zenon
  <2>4. trailing' = IF pending THEN trailing ELSE i
    BY <2>1, <2>2, Zenon
  <2>5. MarkInv'
    BY <2>2, <2>3 DEF MarkInv
  <2> QED
    BY <2>2, <2>3, <2>4, <2>5
<1>8. /\ trailing' \in S /\ trailing' < i'
      /\ \A m \in M : m < i' => m < trailing'
      /\ \A s \in S : s < trailing' => \E m \in M : s < m /\ m < trailing'
  <2>1. CASE pending
    <3>1. trailing' = trailing /\ trailing \in S /\ trailing < i
      BY <1>6, <1>7, <2>1
    <3>2. trailing < i'
      BY <1>1, <1>3, <3>1
    <3>3. \A m \in M : m < i' => m < i
      BY <1>1, <1>4
    <3>4. \A m \in M : m < i' => m < trailing
      BY <1>6, <2>1, <3>3
    <3>5. \A s \in S : s < trailing => \E m \in M : s < m /\ m < trailing
      BY <1>6, <2>1
    <3> QED
      BY <3>1, <3>2, <3>4, <3>5
  <2>2. CASE ~pending
    <3>1. trailing' = i /\ i \in S /\ i < i'
      BY <1>1, <1>3, <1>7, <2>2
    <3>2. \A m \in M : m < i' => m < i
      BY <1>1, <1>4
    <3>3. \A s \in S : s < i => \E m \in M : s < m /\ m < i
      BY <1>6, <2>2
    <3> QED
      BY <3>1, <3>2, <3>3
  <2> QED
    BY <2>1, <2>2
<1>9. TrailInv'
  BY <1>3, <1>7, <1>8 DEF TrailInv
<1>10. CountInv'
  BY <1>5, <1>7 DEF ScanInv, CountInv
<1>11. PlaceInv'
  BY <1>1, <1>2, <1>3 DEF PlaceInv
<1> QED
  BY <1>7, <1>9, <1>10, <1>11 DEF ScanInv

(* The loop is in code whenever it looks at the next symbol.                *)
LEMMA ScansThere ==
  ASSUME text \in Seq(Symbols), ScanInv, i <= N
  PROVE  Scans /\ i \in 1..N /\ N \in Nat
<1>1. i \in Nat \ {0} /\ Reading(text)[i - 1] = Code
  BY DEF ScanInv, PlaceInv
<1>2. N \in Nat
  BY DEF N
<1> QED
  BY <1>1, <1>2 DEF Scans

(* A comment.                                                               *)
LEMMA CommentKeeps ==
  ASSUME text \in Seq(Symbols), ScanInv, LineComment \/ BlockComment
  PROVE  ScanInv'
<1>1. Scanning /\ NoMark /\ text' = text
  BY DEF LineComment, BlockComment, Write, rest
<1>2. Scans /\ i \in 1..N /\ N \in Nat
  BY <1>1, ScansThere DEF Scanning
<1>3. \E p \in Comments : Jump(p, i')
  <2>1. CASE LineComment
    <3>1. AtLine /\ i' = PastLine
      BY <2>1 DEF LineComment, Write
    <3>2. Jump("line", i')
      BY <1>2, <3>1, LineJump
    <3> QED
      BY <3>2 DEF Comments
  <2>2. CASE BlockComment
    <3>1. AtBlock /\ i' = PastBlock
      BY <2>2 DEF BlockComment, Write
    <3>2. Jump("block", i')
      BY <1>2, <3>1, BlockJump
    <3> QED
      BY <3>2 DEF Comments
  <2> QED
    BY <2>1, <2>2
<1>4. PICK p \in Comments : Jump(p, i')
  BY <1>3
<1>5. PICK e : e = i'
  OBVIOUS
<1>6. /\ e \in (i + 2)..(N + 2)
      /\ e <= N => Reading(text)[e - 1] = Code
      /\ \A k \in i..N : k < e => Pieces(text)[k] = p
  <2>1. Jump(p, e) /\ p # "code"
    BY <1>4, <1>5 DEF Comments
  <2>2. \A k \in i..N : k < e => Pieces(text)[k] = p
    BY <1>2, <2>1, JumpCovers
  <2> QED
    BY <2>1, <2>2 DEF Jump
<1>7. i' \in Nat /\ i' > i /\ (i' <= N => Reading(text)[i' - 1] = Code)
  BY <1>2, <1>5, <1>6
<1>8. \A k \in i..N : k < i' => k \notin Material(text) /\ k \notin Semicolons(text)
  <2>1. ASSUME NEW k \in i..N, k < i' PROVE k \notin Material(text) /\ k \notin Semicolons(text)
    <3>1. Pieces(text)[k] = "line" \/ Pieces(text)[k] = "block"
      BY <1>4, <1>5, <1>6, <2>1 DEF Comments
    <3>2. k \in 1..Len(text)
      BY <1>2 DEF N
    <3> QED
      BY <3>1, <3>2, MaterialIs
  <2> QED
    BY <2>1
<1> QED
  BY <1>1, <1>2, <1>7, <1>8, SkipKeeps

(* A string, a name in quotes, or what stands between dollars.              *)
LEMMA LiteralKeeps ==
  ASSUME text \in Seq(Symbols), ScanInv, String \/ Quoted \/ DollarString
  PROVE  ScanInv'
<1>1. Scanning /\ MarkCode /\ text' = text
  BY DEF String, Quoted, DollarString, Write, rest
<1>2. Scans /\ i \in 1..N /\ N \in Nat
  BY <1>1, ScansThere DEF Scanning
<1>3. \E p : p \notin {"code", "line", "block"} /\ Jump(p, i')
  <2>1. CASE String
    <3>1. Is(i, "'") /\ i' = Closing("'", EscapeString) + 1
      BY <2>1 DEF String, Write
    <3> QED
      BY <1>2, <3>1, StringJumps
  <2>2. CASE Quoted
    <3>1. Is(i, "\"") /\ i' = Closing("\"", FALSE) + 1
      BY <2>2 DEF Quoted, Write
    <3>2. Jump("name", i')
      BY <1>2, <3>1, NameJumps
    <3> QED
      BY <3>2
  <2>3. CASE DollarString
    <3>1. AtDollar /\ i' = PastDollar
      BY <2>3 DEF DollarString, Write
    <3>2. Jump("dollar", i')
      BY <1>2, <3>1, DollarJump
    <3> QED
      BY <3>2
  <2> QED
    BY <2>1, <2>2, <2>3
<1>4. PICK p : p \notin {"code", "line", "block"} /\ Jump(p, i')
  BY <1>3
<1>5. PICK e : e = i'
  OBVIOUS
<1>6. /\ e \in (i + 2)..(N + 2)
      /\ e <= N => Reading(text)[e - 1] = Code
      /\ \A k \in i..N : k < e => Pieces(text)[k] = p
  <2>1. Jump(p, e) /\ p # "code"
    BY <1>4, <1>5
  <2>2. \A k \in i..N : k < e => Pieces(text)[k] = p
    BY <1>2, <2>1, JumpCovers
  <2> QED
    BY <2>1, <2>2 DEF Jump
<1>7. i' \in Nat /\ i' > i /\ (i' <= N => Reading(text)[i' - 1] = Code)
  BY <1>2, <1>5, <1>6
<1>8. \A k \in i..N : k < i' => k \in Material(text)
  <2>1. ASSUME NEW k \in i..N, k < i' PROVE k \in Material(text)
    <3>1. Pieces(text)[k] # "line" /\ Pieces(text)[k] # "block" /\ Pieces(text)[k] # "code"
      BY <1>4, <1>5, <1>6, <2>1
    <3>2. k \in 1..Len(text)
      BY <1>2 DEF N
    <3> QED
      BY <3>1, <3>2, MaterialIs
  <2> QED
    BY <2>1
<1> QED
  BY <1>1, <1>2, <1>7, <1>8, MarkKeeps

(* A symbol of the code: a blank leaves the count alone.                    *)
LEMMA OtherKeeps ==
  ASSUME text \in Seq(Symbols), ScanInv, Other
  PROVE  ScanInv'
<1>0. i' = i + 1
  BY DEF Other, Write
<1>1. /\ Scanning /\ text' = text
      /\ ~AtLine /\ ~AtBlock /\ ~AtDollar
      /\ text[i] # "'" /\ text[i] # "\"" /\ text[i] # "semi"
  BY DEF Other, Write, rest
<1>2. Scans /\ i \in 1..N /\ N \in Nat /\ N = Len(text)
  BY <1>1, ScansThere DEF Scanning, N
<1>3. Reading(text)[i] = Code /\ Pieces(text)[i] = "code"
  BY <1>1, <1>2, CodeCovers
<1>4. i' \in Nat /\ i' > i /\ (i' <= N => Reading(text)[i' - 1] = Code)
  <2>1. PICK e : e = i'
    OBVIOUS
  <2>2. e = i + 1 /\ e - 1 = i
    BY <1>0, <1>2, <2>1
  <2> QED
    BY <1>2, <1>3, <2>1, <2>2
<1>5. \A k \in i..N : k < i' => k = i
  <2>1. PICK e : e = i'
    OBVIOUS
  <2>2. \A k \in i..N : k < e => k = i
    BY <1>0, <1>2, <2>1
  <2> QED
    BY <2>1, <2>2
<1>6. CASE text[i] \in Spaces
  <2>1. i \notin Material(text) /\ i \notin Semicolons(text)
    BY <1>1, <1>2, <1>3, <1>6, MaterialIs
  <2>2. NoMark
    BY <1>6 DEF Other
  <2> QED
    BY <1>1, <1>2, <1>4, <1>5, <2>1, <2>2, SkipKeeps
<1>7. CASE text[i] \notin Spaces
  <2>1. i \in Material(text)
    BY <1>1, <1>2, <1>3, <1>7, MaterialIs
  <2>2. MarkCode
    BY <1>7 DEF Other
  <2> QED
    BY <1>1, <1>2, <1>4, <1>5, <2>1, <2>2, MarkKeeps
<1> QED
  BY <1>6, <1>7

(* When the mask is complete, and the count is one, nothing that is to be   *)
(* executed comes after a semicolon.                                        *)
LEMMA CountTellsOne ==
  ASSUME text \in Seq(Symbols), ScanInv, i > N, ~(statements > 1)
  PROVE  OneStatement
<1> DEFINE M == Material(text)
           S == Semicolons(text)
<1>1. N \in Nat /\ M \subseteq 1..N /\ S \subseteq 1..N /\ i \in Nat
  <2>1. N \in Nat /\ N = Len(text)
    BY DEF N
  <2>2. M \subseteq 1..N /\ S \subseteq 1..N
    BY <2>1, MaterialIs
  <2>3. i \in Nat
    BY DEF ScanInv, PlaceInv
  <2> QED
    BY <2>1, <2>2, <2>3
<1>2. Begun(i) = {}
  <2>1. Begun(i) \subseteq M
    BY DEF Begun
  <2>2. IsFiniteSet(Begun(i))
    BY <2>1, BegunIsFinite, FS_Subset
  <2>3. Cardinality(Begun(i)) \in Nat
    BY <2>2, FS_CardinalityType
  <2>4. statements = 1 + Cardinality(Begun(i))
    BY DEF ScanInv, CountInv
  <2>5. Cardinality(Begun(i)) = 0
    BY <2>3, <2>4
  <2> QED
    BY <2>2, <2>5, FS_EmptySet
<1>3. ASSUME NEW s \in S, NEW m \in M, ~(m < s) PROVE FALSE
  <2>1. s \notin M
    BY NoSemicolonIsMaterial
  <2> DEFINE later == {x \in M : s < x}
  <2>2. later \in SUBSET Nat /\ m \in later
    <3>1. s < m
      BY <1>1, <1>3, <2>1
    <3> QED
      BY <1>1, <3>1
  <2>3. PICK x \in later : \A y \in later : x <= y
    <3> HIDE DEF later
    <3> QED
      BY <2>2, Smallest
  <2>4. x \in M /\ s < x /\ x < i
    BY <1>1, <2>3
  <2>5. \A k \in s..x : k \in M => k = x
    <3>1. ASSUME NEW k \in s..x, k \in M PROVE k = x
      <4>1. k # s /\ s \in Nat /\ k \in Nat
        BY <1>1, <2>1, <3>1
      <4>2. s < k
        BY <3>1, <4>1
      <4>3. x <= k
        BY <2>3, <3>1, <4>2
      <4> QED
        BY <1>1, <2>4, <3>1, <4>1, <4>3
    <3> QED
      BY <3>1
  <2>6. x \in Begun(i)
    BY <2>4, <2>5 DEF Begun
  <2> QED
    BY <1>2, <2>6
<1> QED
  BY <1>3 DEF OneStatement

(* More than one statement is always refused, and a refusal is a reason.    *)
LEMMA Refusals ==
  ASSUME NEW m, NEW n
  PROVE  /\ n > 1 => Refusal(m, n) # ""
         /\ Refusal(m, n) # "accepted"
<1>1. n > 1 => Refusal(m, n) # ""
  BY DEF Refusal
<1>2. Refusal(m, n) # "accepted"
  BY DEF Refusal
<1> QED
  BY <1>1, <1>2

(* A pass begins with nothing behind it.                                    *)
LEMMA BeginsWell ==
  text \in Seq(Symbols) /\ Begin => ScanInv
<1> SUFFICES ASSUME text \in Seq(Symbols), Begin PROVE ScanInv
  OBVIOUS
<1>1. i = 1 /\ statements = 1 /\ trailing = 0
  BY DEF Begin
<1>2. sawCode = TRUE /\ pending = FALSE
  BY DEF Begin
<1>3. N \in Nat /\ N = Len(text)
  BY DEF N
<1>4. Material(text) \subseteq 1..N /\ Semicolons(text) \subseteq 1..N
  BY <1>3, MaterialIs
<1>5. PlaceInv
  <2>1. Reading(text)[0] = Code
    BY <1>3, ReadingSteps
  <2>2. i - 1 = 0 /\ i \in Nat \ {0}
    BY <1>1
  <2> QED
    BY <2>1, <2>2 DEF PlaceInv
<1>6. MarkInv
  BY <1>2 DEF MarkInv
<1>7. TrailInv
  <2>1. \A s \in Semicolons(text) : ~(s < i)
    BY <1>1, <1>3, <1>4
  <2> QED
    BY <1>1, <1>2, <2>1 DEF TrailInv
<1>8. CountInv
  <2>1. Begun(i) = {}
    BY <1>1, <1>3, <1>4 DEF Begun
  <2>2. Cardinality(Begun(i)) = 0
    BY <2>1, FS_EmptySet
  <2> QED
    BY <1>1, <2>2 DEF CountInv
<1> QED
  BY <1>5, <1>6, <1>7, <1>8 DEF ScanInv

(* After the mask of keywords the text is gone through again from its start. *)
LEMMA MaskedKeeps ==
  ASSUME text \in Seq(Symbols), ScanInv, verdict = "", count = <<>>, Masked
  PROVE  /\ text' = text /\ count' = <<>>
         /\ \/ stage' = "relations" /\ verdict' = "" /\ ScanInv' /\ OneStatement
            \/ stage' = "done" /\ verdict' # "accepted"
<1>1. /\ i > N /\ text' = text /\ count' = <<>> /\ verdict' = Refusal(mask, statements)
      /\ stage' = IF verdict' = "" THEN "relations" ELSE "done"
  BY DEF Masked
<1>2. CASE verdict' = ""
  <2>1. ~(statements > 1)
    BY <1>1, <1>2, Refusals
  <2>2. OneStatement
    BY <1>1, <2>1, CountTellsOne
  <2>3. Begin'
    BY <1>2 DEF Masked, Begin
  <2>4. (text \in Seq(Symbols) /\ Begin => ScanInv)'
    BY BeginsWell, PTL
  <2>5. ScanInv'
    BY <1>1, <2>3, <2>4
  <2> QED
    BY <1>1, <1>2, <2>2, <2>5
<1>3. CASE verdict' # ""
  BY <1>1, <1>3, Refusals
<1> QED
  BY <1>2, <1>3-----------------------------------------------------------------------------

(* What is before a semicolon                                               *)

(* The text is cut before a semicolon of the code.                          *)
Cut(t, e) == t \in Seq(Symbols) /\ e \in 1..Len(t) /\ t[e] = "semi"

(* What is before the cut.                                                  *)
LEMMA CutIs ==
  ASSUME NEW t, NEW e, Cut(t, e)
  PROVE  /\ e \in Nat /\ e >= 1 /\ Len(t) \in Nat /\ e <= Len(t)
         /\ SubSeq(t, 1, e - 1) \in Seq(Symbols) /\ Len(SubSeq(t, 1, e - 1)) = e - 1
         /\ \A k \in 1..(e - 1) : SubSeq(t, 1, e - 1)[k] = t[k]
<1>1. t \in Seq(Symbols) /\ Len(t) \in Nat /\ e \in Nat /\ e >= 1 /\ e <= Len(t)
  BY DEF Cut
<1> QED
  BY <1>1, SubSeqProperties

(* A semicolon is no part of a tag or a word.                               *)
LEMMA SemicolonIsNoLetter == "semi" \notin TagChars /\ "semi" \notin WordChars /\ "semi" # "$"
BY DEF TagChars, WordChars, IdentifierStart, Keywords

(* Two symbols are a pair on both sides of the cut.                         *)
LEMMA CutPairs ==
  ASSUME NEW t, NEW e, Cut(t, e), NEW k \in 1..(e - 1), NEW c, NEW d, d # "semi"
  PROVE  PairAt(SubSeq(t, 1, e - 1), k, c, d) <=> PairAt(t, k, c, d)
<1>1. /\ e \in Nat /\ e >= 1 /\ Len(t) \in Nat /\ e <= Len(t)
      /\ Len(SubSeq(t, 1, e - 1)) = e - 1
      /\ \A j \in 1..(e - 1) : SubSeq(t, 1, e - 1)[j] = t[j]
  BY CutIs
<1>2. t[e] = "semi"
  BY DEF Cut
<1>3. CASE k < e - 1
  BY <1>1, <1>3 DEF PairAt
<1>4. CASE k = e - 1
  <2>1. k + 1 = e
    BY <1>1, <1>4
  <2>2. ~PairAt(t, k, c, d)
    BY <1>2, <2>1 DEF PairAt
  <2>3. ~PairAt(SubSeq(t, 1, e - 1), k, c, d)
    BY <1>1, <1>4 DEF PairAt
  <2> QED
    BY <2>2, <2>3
<1> QED
  BY <1>1, <1>3, <1>4

(* No tag reaches over the cut.                                             *)
LEMMA CutTags ==
  ASSUME NEW t, NEW e, Cut(t, e), NEW k \in 1..(e - 1)
  PROVE  TagAt(SubSeq(t, 1, e - 1), k) = TagAt(t, k)
<1>1. /\ e \in Nat /\ e >= 1 /\ Len(t) \in Nat /\ e <= Len(t)
      /\ Len(SubSeq(t, 1, e - 1)) = e - 1
      /\ \A j \in 1..(e - 1) : SubSeq(t, 1, e - 1)[j] = t[j]
  BY CutIs
<1>2. t[e] = "semi" /\ t \in Seq(Symbols)
  BY DEF Cut
<1> DEFINE Ends(s, z) == /\ s[k] = "$" /\ s[z] = "$"
                         /\ \A j \in (k + 1)..(z - 1) : s[j] \in WordChars
                         /\ z > k + 1 => s[k + 1] # "1"
                         /\ k > 1 => s[k - 1] \notin WordChars \cup {"$"}
           p == SubSeq(t, 1, e - 1)
<1>3. \A z \in (k + 1)..Len(t) : Ends(t, z) => z <= e - 1
  <2>1. ASSUME NEW z \in (k + 1)..Len(t), Ends(t, z), ~(z <= e - 1) PROVE FALSE
    <3>1. CASE z = e
      BY <1>2, <2>1, <3>1, SemicolonIsNoLetter
    <3>2. CASE z # e
      <4>1. e \in (k + 1)..(z - 1)
        BY <1>1, <2>1, <3>2
      <4> QED
        BY <1>2, <2>1, <4>1, SemicolonIsNoLetter
    <3> QED
      BY <3>1, <3>2
  <2> QED
    BY <2>1
<1>4. \A z \in (k + 1)..(e - 1) : (Ends(p, z) <=> Ends(t, z))
  <2>1. ASSUME NEW z \in (k + 1)..(e - 1)
        PROVE  /\ p[k] = t[k] /\ p[z] = t[z] /\ p[k + 1] = t[k + 1]
               /\ k > 1 => p[k - 1] = t[k - 1]
               /\ \A j \in (k + 1)..(z - 1) : p[j] = t[j]
    <3> HIDE DEF p
    <3>1. \A j \in 1..(e - 1) : p[j] = t[j]
      BY <1>1 DEF p
    <3>2. \A j \in (k + 1)..(z - 1) : j \in 1..(e - 1)
      BY <1>1, <2>1
    <3>3. k \in 1..(e - 1) /\ z \in 1..(e - 1) /\ k + 1 \in 1..(e - 1)
      BY <1>1, <2>1
    <3>4. k > 1 => k - 1 \in 1..(e - 1)
      BY <1>1, <2>1
    <3> QED
      BY <3>1, <3>2, <3>3, <3>4
  <2> HIDE DEF p
  <2> QED
    BY <2>1
<1>5. \A z \in (k + 1)..(e - 1) : SubSeq(p, k, z) = SubSeq(t, k, z)
  <2>1. ASSUME NEW z \in (k + 1)..(e - 1) PROVE SubSeq(p, k, z) = SubSeq(t, k, z)
    <3>1. k \in Nat /\ k >= 1 /\ z \in Nat /\ k <= z /\ z <= Len(t) /\ z <= Len(p) /\ p \in Seq(Symbols)
      BY <1>1, <2>1, CutIs
    <3>2. /\ SubSeq(t, k, z) \in Seq(Symbols) /\ Len(SubSeq(t, k, z)) = z - k + 1
          /\ \A j \in 1..(z - k + 1) : SubSeq(t, k, z)[j] = t[k + j - 1]
      BY <1>2, <3>1, SubSeqProperties
    <3> HIDE DEF p
    <3>3. /\ SubSeq(p, k, z) \in Seq(Symbols) /\ Len(SubSeq(p, k, z)) = z - k + 1
          /\ \A j \in 1..(z - k + 1) : SubSeq(p, k, z)[j] = p[k + j - 1]
      BY <3>1, SubSeqProperties
    <3>4. \A j \in 1..(z - k + 1) : p[k + j - 1] = t[k + j - 1]
      <4>1. \A j \in 1..(z - k + 1) : k + j - 1 \in 1..(e - 1)
        BY <1>1, <2>1, <3>1
      <4> QED
        BY <1>1, <4>1 DEF p
    <3> QED
      BY <3>2, <3>3, <3>4, SeqEqual
  <2> QED
    BY <2>1
<1>6. /\ TagAt(t, k) = {SubSeq(t, k, z) : z \in {z \in (k + 1)..Len(t) : Ends(t, z)}}
      /\ TagAt(p, k) = {SubSeq(p, k, z) : z \in {z \in (k + 1)..(e - 1) : Ends(p, z)}}
  BY <1>1 DEF TagAt
<1>7. \A z \in (k + 1)..(e - 1) : z \in (k + 1)..Len(t)
  BY <1>1
<1>8. \A z \in (k + 1)..Len(t) : z <= e - 1 => z \in (k + 1)..(e - 1)
  BY <1>1
<1> HIDE DEF Ends, p
<1>9. TagAt(p, k) \subseteq TagAt(t, k)
  BY <1>4, <1>5, <1>6, <1>7
<1>10. TagAt(t, k) \subseteq TagAt(p, k)
  BY <1>3, <1>4, <1>5, <1>6, <1>8
<1> QED
  BY <1>9, <1>10 DEF p

(* The same pieces open before the cut.                                     *)
LEMMA CutOpens ==
  ASSUME NEW t, NEW e, Cut(t, e), NEW k \in 1..(e - 1)
  PROVE  Opens(SubSeq(t, 1, e - 1), k) = Opens(t, k)
<1> DEFINE p == SubSeq(t, 1, e - 1)
<1> SUFFICES Opens(p, k) = Opens(t, k)
  OBVIOUS
<1>1. /\ e \in Nat /\ Len(t) \in Nat /\ e <= Len(t)
      /\ p \in Seq(Symbols) /\ Len(p) = e - 1
      /\ \A j \in 1..(e - 1) : p[j] = t[j]
  BY CutIs
<1>2. t \in Seq(Symbols) /\ k \in 1..Len(t) /\ k \in 1..Len(p)
  BY <1>1 DEF Cut
<1>3. p[k] = t[k]
  BY <1>1
<1>4. /\ PairAt(p, k, "-", "-") <=> PairAt(t, k, "-", "-")
      /\ PairAt(p, k, "/", "*") <=> PairAt(t, k, "/", "*")
  BY CutPairs
<1>5. EscapedAt(p, k) <=> EscapedAt(t, k)
  <2>1. k > 1 => p[k - 1] = t[k - 1]
    BY <1>1
  <2>2. k > 2 => p[k - 2] = t[k - 2]
    BY <1>1
  <2> HIDE DEF p
  <2> QED
    BY <1>1, <2>1, <2>2 DEF EscapedAt
<1>6. TagAt(p, k) = TagAt(t, k) /\ Tag(p, k) = Tag(t, k)
  BY CutTags DEF Tag
<1> HIDE DEF p
<1>7. CASE PairAt(t, k, "-", "-")
  BY <1>1, <1>2, <1>4, <1>7, Opening
<1>8. CASE PairAt(t, k, "/", "*")
  BY <1>1, <1>2, <1>4, <1>8, Opening
<1>9. CASE t[k] = "'"
  BY <1>1, <1>2, <1>3, <1>5, <1>9, Opening
<1>10. CASE t[k] = "\""
  BY <1>1, <1>2, <1>3, <1>10, Opening
<1>11. CASE TagAt(t, k) # {}
  BY <1>1, <1>2, <1>6, <1>11, Opening
<1>12. CASE /\ ~PairAt(t, k, "-", "-") /\ ~PairAt(t, k, "/", "*")
            /\ t[k] # "'" /\ t[k] # "\"" /\ TagAt(t, k) = {}
  BY <1>1, <1>2, <1>3, <1>4, <1>6, <1>12, Opening
<1> QED
  BY <1>7, <1>8, <1>9, <1>10, <1>11, <1>12

(* The smaller one of two numbers.                                          *)
LEMMA MinOfTwo ==
  ASSUME NEW a \in Nat, NEW b \in Nat
  PROVE  Min({a, b}) = IF a <= b THEN a ELSE b
<1>1. Min({a, b}) \in {a, b} /\ \A j \in {a, b} : Min({a, b}) <= j
  <2>1. {a, b} \in SUBSET Nat /\ {a, b} # {}
    OBVIOUS
  <2> QED
    BY <2>1, MinIsLeast
<1> QED
  BY <1>1

(* The sequence g stands at k, as the reading looks for it.                 *)
Found(t, k, g) == SubSeq(t, k, Min({k + Len(g) - 1, Len(t)})) = g

(* A sequence without semicolons is found before the cut or not at all.     *)
LEMMA CutMatches ==
  ASSUME NEW t, NEW e, Cut(t, e), NEW k \in 1..(e - 1), NEW g \in Seq(TagChars)
  PROVE  Found(SubSeq(t, 1, e - 1), k, g) <=> Found(t, k, g)
<1> DEFINE p == SubSeq(t, 1, e - 1)
           z == k + Len(g) - 1
<1> SUFFICES SubSeq(p, k, Min({z, e - 1})) = g <=> SubSeq(t, k, Min({z, Len(t)})) = g
  <2>1. Len(p) = e - 1
    BY CutIs
  <2>2. Found(t, k, g) <=> SubSeq(t, k, Min({z, Len(t)})) = g
    BY DEF Found
  <2> HIDE DEF p
  <2>3. Found(p, k, g) <=> SubSeq(p, k, Min({z, e - 1})) = g
    BY <2>1 DEF Found
  <2> QED
    BY <2>2, <2>3 DEF p
<1>1. /\ e \in Nat /\ e >= 1 /\ Len(t) \in Nat /\ e <= Len(t)
      /\ p \in Seq(Symbols) /\ Len(p) = e - 1
      /\ \A j \in 1..(e - 1) : p[j] = t[j]
  BY CutIs
<1>2. t[e] = "semi" /\ t \in Seq(Symbols) /\ k \in Nat /\ k >= 1 /\ k <= e - 1
      /\ Len(g) \in Nat /\ z \in Int /\ z >= k - 1 /\ z \in Nat
      /\ z = k + Len(g) - 1
  BY <1>1 DEF Cut
<1> HIDE DEF z, p
<1>3. ASSUME NEW y \in Nat, k - 1 <= y, y <= e - 1
      PROVE  SubSeq(p, k, y) = SubSeq(t, k, y)
  <2>1. CASE y = k - 1
    <3>1. y < k
      BY <1>2, <2>1
    <3>2. SubSeq(t, k, y) = <<>>
      BY <1>2, <1>3, <3>1, SubSeqEmpty
    <3>3. SubSeq(p, k, y) = <<>>
      BY <1>1, <1>2, <1>3, <3>1, SubSeqEmpty
    <3> QED
      BY <3>2, <3>3
  <2>2. CASE y >= k
    <3>1. /\ SubSeq(t, k, y) \in Seq(Symbols) /\ Len(SubSeq(t, k, y)) = y - k + 1
          /\ \A j \in 1..(y - k + 1) : SubSeq(t, k, y)[j] = t[k + j - 1]
      BY <1>1, <1>2, <1>3, <2>2, SubSeqProperties
    <3>2. /\ SubSeq(p, k, y) \in Seq(Symbols) /\ Len(SubSeq(p, k, y)) = y - k + 1
          /\ \A j \in 1..(y - k + 1) : SubSeq(p, k, y)[j] = p[k + j - 1]
      BY <1>1, <1>2, <1>3, <2>2, SubSeqProperties
    <3>3. \A j \in 1..(y - k + 1) : p[k + j - 1] = t[k + j - 1]
      <4>1. \A j \in 1..(y - k + 1) : k + j - 1 \in 1..(e - 1)
        BY <1>1, <1>2, <1>3
      <4> QED
        BY <1>1, <4>1
    <3> QED
      BY <3>1, <3>2, <3>3, SeqEqual
  <2>3. y = k - 1 \/ y >= k
    BY <1>2, <1>3
  <2> QED
    BY <2>1, <2>2, <2>3
<1>4. CASE z <= e - 1
  <2>1. Min({z, e - 1}) = z
    <3>1. e - 1 \in Nat
      BY <1>1
    <3> QED
      BY <1>2, <1>4, <3>1, MinOfTwo
  <2>2. Min({z, Len(t)}) = z
    <3>1. z <= Len(t) /\ z \in Nat /\ Len(t) \in Nat
      BY <1>1, <1>2, <1>4
    <3> QED
      BY <3>1, MinOfTwo
  <2>3. SubSeq(p, k, z) = SubSeq(t, k, z)
    BY <1>2, <1>3, <1>4
  <2> QED
    BY <2>1, <2>2, <2>3
<1>5. CASE z > e - 1
  <2>1. Min({z, e - 1}) = e - 1
    <3>1. e - 1 \in Nat /\ ~(z <= e - 1)
      BY <1>1, <1>2, <1>5
    <3> QED
      BY <1>2, <3>1, MinOfTwo
  <2>2. SubSeq(p, k, e - 1) # g
    <3>1. Len(SubSeq(p, k, e - 1)) = e - 1 - k + 1
      BY <1>1, <1>2, SubSeqProperties
    <3>2. Len(g) > e - 1 - k + 1
      BY <1>1, <1>2, <1>5
    <3> QED
      BY <1>1, <1>2, <3>1, <3>2
  <2>3. ASSUME SubSeq(t, k, Min({z, Len(t)})) = g PROVE FALSE
    <3> DEFINE y == Min({z, Len(t)})
    <3>1. y \in Nat /\ y >= e /\ y <= Len(t)
      <4>1. y = IF z <= Len(t) THEN z ELSE Len(t)
        BY <1>1, <1>2, MinOfTwo
      <4> HIDE DEF y
      <4> QED
        BY <1>1, <1>2, <1>5, <4>1
    <3>2. SubSeq(t, k, y) = g
      BY <2>3
    <3> HIDE DEF y
    <3>3. /\ Len(SubSeq(t, k, y)) = y - k + 1
          /\ \A j \in 1..(y - k + 1) : SubSeq(t, k, y)[j] = t[k + j - 1]
      BY <1>1, <1>2, <3>1, SubSeqProperties
    <3>4. PICK j : j = e - k + 1
      OBVIOUS
    <3>5. j \in 1..(y - k + 1) /\ k + j - 1 = e
      BY <1>1, <1>2, <3>1, <3>4
    <3>6. g[j] = "semi" /\ j \in 1..Len(g)
      BY <1>2, <3>2, <3>3, <3>5
    <3>7. g[j] \in TagChars
      BY <3>6, ElementOfSeq
    <3> QED
      BY <3>6, <3>7, SemicolonIsNoLetter
  <2> QED
    BY <2>1, <2>2, <2>3
<1>6. z <= e - 1 \/ z > e - 1
  BY <1>1, <1>2
<1> QED
  BY <1>4, <1>5, <1>6

(* Within a piece the reading goes the same way up to the cut, if it is in  *)
(* code there.                                                              *)
LEMMA CutWithin ==
  ASSUME NEW t, NEW e, Cut(t, e), NEW k \in 1..(e - 1), NEW was, State(was),
         was.piece # "code",
         k = e - 1 => Within(t, k, was).piece = "code"
  PROVE  Within(SubSeq(t, 1, e - 1), k, was) = Within(t, k, was)
<1> DEFINE p == SubSeq(t, 1, e - 1)
<1> SUFFICES Within(p, k, was) = Within(t, k, was)
  OBVIOUS
<1>1. /\ e \in Nat /\ Len(t) \in Nat /\ e <= Len(t)
      /\ Len(p) = e - 1 /\ p[k] = t[k]
  BY CutIs
<1>2. \A c, d : d # "semi" => (PairAt(p, k, c, d) <=> PairAt(t, k, c, d))
  BY CutPairs
<1>3. Found(p, k, was.tag) <=> Found(t, k, was.tag)
  BY CutMatches DEF State
<1> HIDE DEF p
<1>4. CASE was.piece = "line"
  BY <1>1, <1>4 DEF Within
<1>5. CASE was.piece = "block"
  <2>1. /\ PairAt(p, k, "/", "*") <=> PairAt(t, k, "/", "*")
        /\ PairAt(p, k, "*", "/") <=> PairAt(t, k, "*", "/")
    BY <1>2
  <2>2. ASSUME NEW s
        PROVE  Within(s, k, was) =
                 IF PairAt(s, k, "/", "*") THEN In(was.piece, was.depth + 1, was.tag, 1)
                 ELSE IF PairAt(s, k, "*", "/") THEN In(was.piece, was.depth - 1, was.tag, 1)
                 ELSE was
    BY <1>5 DEF Within, PairAt
  <2> QED
    BY <2>1, <2>2
<1>6. CASE was.piece = "dollar"
  <2>1. ASSUME NEW s
        PROVE  Within(s, k, was) =
                 IF Found(s, k, was.tag)
                 THEN In(was.piece, 0, was.tag, Len(was.tag) - 1) ELSE was
    BY <1>6 DEF Within, Found
  <2> QED
    BY <1>3, <2>1
<1>7. CASE was.piece # "line" /\ was.piece # "block" /\ was.piece # "dollar"
  <2> DEFINE quote == IF was.piece = "name" THEN "\"" ELSE "'"
             Ahead(s) == was.piece = "escaped" /\ s[k] = "\\" /\ k < Len(s)
  <2>1. ASSUME NEW s
        PROVE  Within(s, k, was) =
                 IF Ahead(s) \/ PairAt(s, k, quote, quote)
                 THEN In(was.piece, was.depth, was.tag, 1)
                 ELSE IF s[k] = quote THEN Code ELSE was
    BY <1>7 DEF Within, PairAt
  <2>2. PairAt(p, k, quote, quote) <=> PairAt(t, k, quote, quote)
    <3>1. quote # "semi"
      OBVIOUS
    <3> QED
      BY <1>2, <3>1
  <2>3. Ahead(p) <=> Ahead(t)
    <3>1. CASE k < e - 1
      BY <1>1, <3>1
    <3>2. CASE k = e - 1
      <4>1. ASSUME Ahead(t) PROVE FALSE
        <5>1. Within(t, k, was) = In(was.piece, was.depth, was.tag, 1)
          BY <2>1, <4>1
        <5>2. Within(t, k, was).piece = was.piece
          BY <5>1 DEF In
        <5> QED
          BY <3>2, <5>2
      <4>2. ~Ahead(p)
        BY <1>1, <3>2
      <4> QED
        BY <4>1, <4>2
    <3> QED
      BY <1>1, <3>1, <3>2
  <2> HIDE DEF quote, Ahead
  <2> QED
    BY <1>1, <2>1, <2>2, <2>3
<1> QED
  BY <1>4, <1>5, <1>6, <1>7

(* Up to a semicolon of the code a text reads as what is before it reads.   *)
LEMMA CutReads ==
  ASSUME NEW t, NEW e, Cut(t, e), Reading(t)[e - 1].piece = "code"
  PROVE  \A k \in 0..(e - 1) : Reading(SubSeq(t, 1, e - 1))[k] = Reading(t)[k]
<1> DEFINE p == SubSeq(t, 1, e - 1)
           r == Reading(t)
           S == {k \in 0..(e - 1) : Reading(p)[k] = r[k]}
<1> SUFFICES \A k \in 0..(e - 1) : k \in S
  OBVIOUS
<1>1. /\ e \in Nat /\ e >= 1 /\ Len(t) \in Nat /\ e <= Len(t) /\ t \in Seq(Symbols)
      /\ Len(p) = e - 1
  BY CutIs DEF Cut
<1>2. /\ \A k \in 1..(e - 1) : r[k] = Turn(t, k, r[k - 1])
      /\ r[0] = Code
  BY <1>1, ReadingSteps
<1>3. /\ \A k \in 1..(e - 1) : Reading(p)[k] = Turn(p, k, Reading(p)[k - 1])
      /\ Reading(p)[0] = Code
  <2> HIDE DEF p
  <2>1. Len(p) \in Nat
    BY <1>1
  <2> QED
    BY <1>1, <2>1, ReadingSteps
<1>4. 0 \in S
  BY <1>1, <1>2, <1>3
<1>5. ASSUME NEW k \in 1..(e - 1), k - 1 \in S PROVE k \in S
  <2>1. Reading(p)[k] = Turn(p, k, r[k - 1]) /\ r[k] = Turn(t, k, r[k - 1])
    BY <1>2, <1>3, <1>5
  <2>2. State(r[k - 1])
    <3>1. k - 1 \in 0..Len(t)
      BY <1>1
    <3> QED
      BY <1>1, <3>1, ReadingTyped
  <2>3. PICK was : was = r[k - 1]
    OBVIOUS
  <2> DEFINE passes == was.ahead > 1 \/ (was.ahead = 1 /\ was.depth > 0) \/ was.ahead = 1
  <2>4. CASE passes
    BY <2>1, <2>3, <2>4 DEF Turn
  <2>5. CASE ~passes /\ was.piece = "code"
    <3>1. Opens(p, k) = Opens(t, k)
      BY CutOpens
    <3>2. Turn(p, k, was) = Opens(p, k) /\ Turn(t, k, was) = Opens(t, k)
      BY <2>5 DEF Turn
    <3> QED
      BY <2>1, <2>3, <3>1, <3>2
  <2>6. CASE ~passes /\ was.piece # "code"
    <3>1. Turn(p, k, was) = Within(p, k, was) /\ Turn(t, k, was) = Within(t, k, was)
      BY <2>6 DEF Turn
    <3>2. k = e - 1 => Within(t, k, was).piece = "code"
      BY <2>1, <2>3, <3>1
    <3>3. Within(p, k, was) = Within(t, k, was)
      BY <2>2, <2>3, <2>6, <3>2, CutWithin
    <3> QED
      BY <2>1, <2>3, <3>1, <3>3
  <2> QED
    BY <2>4, <2>5, <2>6
<1> HIDE DEF S
<1>6. e - 1 \in Nat
  BY <1>1
<1> QED
  BY <1>4, <1>5, <1>6, UpTo

(* So it has the semicolons that stand before the cut, and no others.       *)
LEMMA CutSemicolons ==
  ASSUME NEW t \in Seq(Symbols), NEW e \in Semicolons(t)
  PROVE  Semicolons(SubSeq(t, 1, e - 1)) \subseteq {s \in Semicolons(t) : s < e}
<1> DEFINE p == SubSeq(t, 1, e - 1)
<1>1. e \in 1..Len(t) /\ t[e] = "semi" /\ Pieces(t)[e] = "code"
  BY MaterialIs
<1>2. Cut(t, e)
  BY <1>1 DEF Cut
<1>3. Reading(t)[e - 1].piece = "code"
  BY <1>1, PiecesAre
<1>4. /\ e \in Nat /\ e >= 1 /\ Len(t) \in Nat /\ e <= Len(t)
      /\ p \in Seq(Symbols) /\ Len(p) = e - 1
      /\ \A k \in 1..(e - 1) : p[k] = t[k]
  BY <1>2, CutIs
<1>5. \A k \in 0..(e - 1) : Reading(p)[k] = Reading(t)[k]
  BY <1>2, <1>3, CutReads
<1> SUFFICES Semicolons(p) \subseteq {s \in Semicolons(t) : s < e}
  OBVIOUS
<1> HIDE DEF p
<1>6. ASSUME NEW k \in Semicolons(p) PROVE k \in Semicolons(t) /\ k < e
  <2>1. k \in 1..(e - 1) /\ p[k] = "semi" /\ Pieces(p)[k] = "code"
    BY <1>4, MaterialIs
  <2>2. k \in 1..Len(t) /\ k \in 1..Len(p) /\ k < e
    BY <1>4, <2>1
  <2>3. Reading(p)[k] = Reading(t)[k] /\ Reading(p)[k - 1] = Reading(t)[k - 1]
    <3>1. k \in 0..(e - 1) /\ k - 1 \in 0..(e - 1)
      BY <1>4, <2>1
    <3> QED
      BY <1>5, <3>1
  <2>4. Pieces(p)[k] = Pieces(t)[k]
    BY <1>4, <2>2, <2>3, PiecesAre
  <2> QED
    BY <1>4, <2>1, <2>2, <2>4, MaterialIs
<1> QED
  BY <1>6-----------------------------------------------------------------------------

(* What PrepareCount takes                                                  *)

(* The text c is the whole statement, as CountIsTheStatement has it.        *)
Whole(c) ==
  /\ IsPrefix(c, text)
  /\ \A k \in (Len(c) + 1)..N : k \notin Material(text)
  /\ Semicolons(c) = {}

(* One statement, cut before the semicolons at its end, is whole: without a *)
(* semicolon at the end there is none.                                      *)
LEMMA CutIsWhole ==
  ASSUME text \in Seq(Symbols), ScanInv, i > N, OneStatement
  PROVE  Whole(IF trailing > 0 THEN SubSeq(text, 1, trailing - 1) ELSE text)
<1> DEFINE M == Material(text)
           S == Semicolons(text)
<1>1. N \in Nat /\ N = Len(text) /\ M \subseteq 1..N /\ S \subseteq 1..N /\ i \in Nat
  <2>1. N \in Nat /\ N = Len(text)
    BY DEF N
  <2>2. M \subseteq 1..N /\ S \subseteq 1..N
    BY <2>1, MaterialIs
  <2>3. i \in Nat
    BY DEF ScanInv, PlaceInv
  <2> QED
    BY <2>1, <2>2, <2>3
<1>2. \A s \in S, m \in M : m < s
  BY DEF OneStatement
<1>3. /\ pending => /\ trailing \in S /\ trailing < i
                    /\ \A m \in M : m < i => m < trailing
                    /\ \A s \in S : s < trailing => \E m \in M : s < m /\ m < trailing
      /\ ~pending => /\ trailing = 0
                     /\ \A s \in S : s < i => \E m \in M : s < m /\ m < i
  BY DEF ScanInv, TrailInv
<1>4. CASE pending
  <2>1. trailing \in S /\ trailing \in 1..N /\ trailing > 0 /\ trailing \in Nat
    BY <1>1, <1>3, <1>4
  <2>2. \A m \in M : m < trailing
    BY <1>1, <1>3, <1>4
  <2>3. \A s \in S : ~(s < trailing)
    <3>1. ASSUME NEW s \in S, s < trailing PROVE FALSE
      <4>1. PICK m \in M : s < m
        BY <1>3, <1>4, <3>1
      <4>2. m < s
        BY <1>2
      <4> QED
        BY <1>1, <4>1, <4>2
    <3> QED
      BY <3>1
  <2> DEFINE c == SubSeq(text, 1, trailing - 1)
  <2>4. Semicolons(c) = {}
    BY <2>1, <2>3, CutSemicolons
  <2>5. c \in Seq(Symbols) /\ Len(c) = trailing - 1 /\ \A k \in 1..(trailing - 1) : c[k] = text[k]
    BY <1>1, <2>1, SubSeqProperties
  <2>6. IsPrefix(c, text)
    <3> HIDE DEF c
    <3>1. Len(c) <= Len(text)
      BY <1>1, <2>1, <2>5
    <3>2. SubSeq(c, 1, Len(c)) = c
      BY <2>5
    <3>3. c = SubSeq(text, 1, Len(c))
      BY <2>1, <2>5 DEF c
    <3> QED
      BY <3>1, <3>2, <3>3 DEF IsPrefix
  <2>7. \A k \in (Len(c) + 1)..N : k \notin M
    <3> HIDE DEF c
    <3>1. \A k \in (Len(c) + 1)..N : ~(k < trailing)
      BY <1>1, <2>1, <2>5
    <3> QED
      BY <2>2, <3>1
  <2>8. Whole(c)
    BY <2>4, <2>6, <2>7 DEF Whole
  <2> QED
    BY <2>1, <2>8
<1>5. CASE ~pending
  <2>1. trailing = 0
    BY <1>3, <1>5
  <2>2. S = {}
    <3>1. ASSUME NEW s \in S PROVE FALSE
      <4>1. s < i
        BY <1>1
      <4>2. PICK m \in M : s < m
        BY <1>3, <1>5, <4>1
      <4>3. m < s
        BY <1>2
      <4> QED
        BY <1>1, <4>2, <4>3
    <3> QED
      BY <3>1
  <2>3. IsPrefix(text, text)
    BY <1>1 DEF IsPrefix
  <2>4. \A k \in (Len(text) + 1)..N : k \notin M
    BY <1>1
  <2>5. Whole(text)
    BY <2>2, <2>3, <2>4 DEF Whole
  <2> QED
    BY <2>1, <2>5
<1> QED
  BY <1>4, <1>5

(* The verdict comes with the statement to count, or with nothing.          *)
LEMMA ValidatedKeeps ==
  ASSUME text \in Seq(Symbols), ScanInv, OneStatement, Validated
  PROVE  text' = text /\ stage' = "done" /\ CountIsTheStatement'
<1>1. text' = text /\ stage' = "done" /\ i > N /\ N' = N
  BY DEF Validated, N
<1>2. PICK c : c = IF trailing > 0 THEN SubSeq(text, 1, trailing - 1) ELSE text
  OBVIOUS
<1>3. Whole(c)
  BY <1>1, <1>2, CutIsWhole
<1>4. count' = c \/ count' = <<>>
  BY <1>2 DEF Validated
<1>5. CASE count' = c
  BY <1>1, <1>3, <1>5 DEF CountIsTheStatement, Whole
<1>6. CASE count' = <<>>
  BY <1>1, <1>6 DEF CountIsTheStatement
<1> QED
  BY <1>4, <1>5, <1>6
-----------------------------------------------------------------------------
(* The invariant                                                            *)

(* It holds at the start.                                                   *)
LEMMA InitGuardInv == Init => GuardInv
<1> SUFFICES ASSUME Init PROVE GuardInv
  OBVIOUS
<1>1. text \in Seq(Symbols)
  BY GuardScanAssumption DEF Init
<1>2. ScanInv
  BY <1>1, BeginsWell DEF Init
<1>3. stage = "keywords" /\ verdict = "" /\ count = <<>>
  BY DEF Init
<1> QED
  BY <1>1, <1>2, <1>3 DEF GuardInv, CountIsTheStatement

(* A turn of the loop.                                                      *)
LEMMA TurnKeeps ==
  ASSUME text \in Seq(Symbols), ScanInv,
         LineComment \/ BlockComment \/ String \/ Quoted \/ DollarString \/ Semicolon \/ Other
  PROVE  ScanInv' /\ text' = text /\ stage' = stage /\ verdict' = verdict /\ count' = count /\ stage # "done"
<1>1. Scanning /\ UNCHANGED rest
  BY DEF LineComment, BlockComment, String, Quoted, DollarString, Semicolon, Other, Write
<1>2. ScanInv'
  BY CommentKeeps, LiteralKeeps, SemicolonKeeps, OtherKeeps
<1> QED
  BY <1>1, <1>2 DEF rest, Scanning

(* Every step keeps it.                                                     *)
LEMMA NextGuardInv == GuardInv /\ [Next]_vars => GuardInv'
<1> SUFFICES ASSUME GuardInv, [Next]_vars PROVE GuardInv'
  OBVIOUS
<1>1. text \in Seq(Symbols) /\ (stage # "done" => ScanInv /\ verdict = "" /\ count = <<>>)
  BY DEF GuardInv
<1>2. CASE LineComment \/ BlockComment \/ String \/ Quoted \/ DollarString \/ Semicolon \/ Other
  <2>1. stage # "done"
    BY <1>2 DEF LineComment, BlockComment, String, Quoted, DollarString, Semicolon, Other, Scanning
  <2>2. ScanInv' /\ text' = text /\ stage' = stage /\ verdict' = verdict /\ count' = count
    BY <1>1, <1>2, <2>1, TurnKeeps
  <2>3. OneStatement => OneStatement'
    BY <2>2 DEF OneStatement
  <2>4. CountIsTheStatement'
    BY <2>1, <2>2 DEF CountIsTheStatement
  <2>5. verdict = "" /\ count = <<>> /\ (stage = "relations" \/ verdict = "accepted" => OneStatement)
    BY <1>1, <2>1 DEF GuardInv
  <2> QED
    BY <1>1, <2>1, <2>2, <2>3, <2>4, <2>5 DEF GuardInv
<1>3. CASE Masked
  <2>1. ScanInv /\ verdict = "" /\ count = <<>>
    BY <1>1, <1>3 DEF Masked
  <2>2. /\ text' = text /\ count' = <<>>
        /\ \/ stage' = "relations" /\ verdict' = "" /\ ScanInv' /\ OneStatement
           \/ stage' = "done" /\ verdict' # "accepted"
    BY <1>1, <1>3, <2>1, MaskedKeeps
  <2>3. OneStatement => OneStatement'
    BY <2>2 DEF OneStatement
  <2>4. CountIsTheStatement'
    BY <2>2 DEF CountIsTheStatement
  <2> QED
    BY <1>1, <2>2, <2>3, <2>4 DEF GuardInv
<1>4. CASE Validated
  <2>1. ScanInv /\ OneStatement
    BY <1>1, <1>4 DEF Validated, GuardInv
  <2>2. text' = text /\ stage' = "done" /\ CountIsTheStatement'
    BY <1>1, <1>4, <2>1, ValidatedKeeps
  <2>3. OneStatement'
    BY <2>1, <2>2 DEF OneStatement
  <2> QED
    BY <1>1, <2>2, <2>3 DEF GuardInv
<1>5. CASE UNCHANGED vars
  <2>1. text' = text /\ stage' = stage /\ verdict' = verdict /\ count' = count
    BY <1>5 DEF vars
  <2>2. ScanInv => ScanInv'
    BY <1>5 DEF vars, ScanInv, PlaceInv, MarkInv, TrailInv, CountInv, Begun, N
  <2>3. (OneStatement => OneStatement') /\ (CountIsTheStatement => CountIsTheStatement')
    BY <2>1 DEF OneStatement, CountIsTheStatement, N
  <2> QED
    BY <2>1, <2>2, <2>3 DEF GuardInv
<1> QED
  BY <1>2, <1>3, <1>4, <1>5 DEF Next

(* The invariant holds of the guard, for texts of any length.               *)
THEOREM Invariance == Spec => []GuardInv
  BY InitGuardInv, NextGuardInv, PTL DEF Spec

(* PrepareCount keeps the statement whole and cuts only blanks, comments    *)
(* and semicolons at its end.                                               *)
THEOREM CountedIsWhole == Spec => []CountIsTheStatement
<1>1. GuardInv => CountIsTheStatement
  BY DEF GuardInv
<1> QED
  BY <1>1, Invariance, PTL

(* The count of maskSQL is one more than the number of places at which      *)
(* something to execute follows a semicolon.                                *)
THEOREM CountIsTrue == Spec => []CountsStatements
<1>1. GuardInv => CountsStatements
  <2> SUFFICES ASSUME GuardInv, Scanned("keywords")
               PROVE  statements = 1 + Cardinality(
                        {m \in Material(text) : \E s \in Semicolons(text) :
                           s < m /\ \A k \in s..m : k \in Material(text) => k = m})
    BY DEF CountsStatements
  <2>1. text \in Seq(Symbols) /\ ScanInv /\ i > N
    BY DEF GuardInv, Scanned
  <2>2. N \in Nat /\ Material(text) \subseteq 1..N /\ i \in Nat
    <3>1. N \in Nat /\ N = Len(text)
      BY <2>1 DEF N
    <3> QED
      BY <2>1, <3>1, MaterialIs DEF ScanInv, PlaceInv
  <2>3. \A m \in Material(text) : m < i
    BY <2>1, <2>2
  <2>4. Begun(i) = {m \in Material(text) : \E s \in Semicolons(text) :
                      s < m /\ \A k \in s..m : k \in Material(text) => k = m}
    BY <2>3 DEF Begun
  <2> QED
    BY <2>1, <2>4 DEF ScanInv, CountInv
<1> QED
  BY <1>1, Invariance, PTL

(* What is accepted is one statement: nothing that is executed comes after  *)
(* a semicolon, wherever comments and literals begin and end.               *)
THEOREM AcceptedIsOne == Spec => [](verdict = "accepted" => OneStatement)
<1>1. GuardInv => (verdict = "accepted" => OneStatement)
  BY DEF GuardInv
<1> QED
  BY <1>1, Invariance, PTL
-----------------------------------------------------------------------------
(* The words of a mask that grows                                           *)

(* The words when one symbol more is looked at.                             *)
Lengthened(s, keep, k, words) ==
  IF OfWord(s, keep, k) THEN Longer(words, s[k], OfWord(s, keep, k - 1)) ELSE words

(* The function that WordsUpTo is, for a text of n symbols.                 *)
Gathers(f, s, keep, n) ==
  f = [k \in 0..n |-> IF k = 0 THEN <<>> ELSE Lengthened(s, keep, k, f[k - 1])]

(* There is such a function.                                                *)
LEMMA WordsExist ==
  ASSUME NEW s, NEW keep, NEW n \in Nat
  PROVE  \E r : Gathers(r, s, keep, n)
<1> DEFINE S == {m \in 0..n : \E r : Gathers(r, s, keep, m)}
<1>1. 0 \in S
  <2> DEFINE r == [k \in 0..0 |-> <<>>]
  <2>1. Gathers(r, s, keep, 0)
    BY DEF Gathers
  <2> QED
    BY <2>1
<1>2. ASSUME NEW m \in 1..n, m - 1 \in S PROVE m \in S
  <2>1. PICK r : Gathers(r, s, keep, m - 1)
    BY <1>2
  <2> DEFINE Step(f, k) == IF k = 0 THEN <<>> ELSE Lengthened(s, keep, k, f[k - 1])
             u == [k \in 0..m |-> IF k < m THEN r[k] ELSE Lengthened(s, keep, m, r[m - 1])]
  <2>2. \A k \in 0..(m - 1) : r[k] = Step(r, k)
    BY <2>1 DEF Gathers
  <2> HIDE DEF Step
  <2>3. \A k \in 0..(m - 1) : u[k] = r[k]
    OBVIOUS
  <2>4. u[m] = Lengthened(s, keep, m, r[m - 1])
    OBVIOUS
  <2> HIDE DEF u
  <2>5. ASSUME NEW k \in 0..m PROVE u[k] = Step(u, k)
    <3>1. CASE k = 0
      <4>1. 0 \in 0..(m - 1)
        OBVIOUS
      <4> QED
        BY <2>2, <2>3, <3>1, <4>1 DEF Step
    <3>2. CASE k # 0 /\ k < m
      <4>1. k \in 0..(m - 1) /\ k - 1 \in 0..(m - 1)
        BY <3>2
      <4>2. r[k] = Lengthened(s, keep, k, r[k - 1])
        BY <2>2, <3>2, <4>1 DEF Step
      <4> QED
        BY <2>3, <3>2, <4>1, <4>2 DEF Step
    <3>3. CASE k = m
      <4>1. k # 0 /\ m - 1 \in 0..(m - 1)
        BY <3>3
      <4> QED
        BY <2>3, <2>4, <3>3, <4>1 DEF Step
    <3> QED
      BY <3>1, <3>2, <3>3
  <2>6. u = [k \in 0..m |-> u[k]]
    BY DEF u
  <2>7. u = [k \in 0..m |-> Step(u, k)]
    BY <2>5, <2>6
  <2>8. Gathers(u, s, keep, m)
    BY <2>7 DEF Gathers, Step
  <2> QED
    BY <2>8
<1> HIDE DEF S
<1>3. \A m \in 0..n : m \in S
  <2>1. \A m \in 1..n : m - 1 \in S => m \in S
    BY <1>2
  <2> QED
    BY <1>1, <2>1, UpTo
<1> QED
  BY <1>3 DEF S

(* The words are gathered symbol by symbol.                                 *)
LEMMA WordSteps ==
  ASSUME NEW s, NEW keep, Len(s) \in Nat
  PROVE  /\ WordsUpTo(s, keep)[0] = <<>>
         /\ \A k \in 1..Len(s) : WordsUpTo(s, keep)[k] = Lengthened(s, keep, k, WordsUpTo(s, keep)[k - 1])
<1>1. WordsUpTo(s, keep) = CHOOSE f : Gathers(f, s, keep, Len(s))
  BY DEF WordsUpTo, Gathers, Lengthened
<1>2. Gathers(WordsUpTo(s, keep), s, keep, Len(s))
  BY <1>1, WordsExist
<1> DEFINE w == WordsUpTo(s, keep)
           Step(f, k) == IF k = 0 THEN <<>> ELSE Lengthened(s, keep, k, f[k - 1])
<1>3. w = [k \in 0..Len(s) |-> Step(w, k)]
  BY <1>2 DEF Gathers
<1> HIDE DEF w, Step
<1>4. \A k \in 0..Len(s) : w[k] = Step(w, k)
  BY <1>3
<1> QED
  BY <1>4 DEF w, Step

(* Behind a and b, two texts have the same symbols of words side by side    *)
(* for n symbols.                                                           *)
SideBySide(s, K, a, t, L, b, n) ==
  /\ a \in Nat /\ Len(s) \in Nat /\ a + n <= Len(s)
  /\ b \in Nat /\ Len(t) \in Nat /\ b + n <= Len(t)
  /\ n \in Nat
  /\ WordsUpTo(s, K)[a] = WordsUpTo(t, L)[b]
  /\ OfWord(s, K, a) <=> OfWord(t, L, b)
  /\ \A j \in 1..n : /\ OfWord(s, K, a + j) <=> OfWord(t, L, b + j)
                     /\ OfWord(s, K, a + j) => s[a + j] = t[b + j]

(* Then their words go on in the same way.                                  *)
LEMMA WordsGoAlong ==
  ASSUME NEW s, NEW K, NEW a, NEW t, NEW L, NEW b, NEW n, SideBySide(s, K, a, t, L, b, n)
  PROVE  /\ WordsUpTo(s, K)[a + n] = WordsUpTo(t, L)[b + n]
         /\ OfWord(s, K, a + n) <=> OfWord(t, L, b + n)
<1> USE DEF SideBySide
<1> DEFINE Same(j) == /\ WordsUpTo(s, K)[a + j] = WordsUpTo(t, L)[b + j]
                      /\ OfWord(s, K, a + j) <=> OfWord(t, L, b + j)
           S == {j \in 0..n : Same(j)}
<1>1. 0 \in S
  <2>1. a + 0 = a /\ b + 0 = b
    OBVIOUS
  <2> QED
    BY <2>1
<1>2. ASSUME NEW j \in 1..n, j - 1 \in S PROVE j \in S
  <2>1. PICK x : x = a + j
    OBVIOUS
  <2>2. PICK y : y = b + j
    OBVIOUS
  <2>3. x \in 1..Len(s) /\ y \in 1..Len(t) /\ a + (j - 1) = x - 1 /\ b + (j - 1) = y - 1
    BY <2>1, <2>2
  <2>4. /\ WordsUpTo(s, K)[x - 1] = WordsUpTo(t, L)[y - 1]
        /\ OfWord(s, K, x - 1) <=> OfWord(t, L, y - 1)
    BY <1>2, <2>3
  <2>5. /\ OfWord(s, K, x) <=> OfWord(t, L, y)
        /\ OfWord(s, K, x) => s[x] = t[y]
    BY <2>1, <2>2
  <2>6. /\ WordsUpTo(s, K)[x] = Lengthened(s, K, x, WordsUpTo(s, K)[x - 1])
        /\ WordsUpTo(t, L)[y] = Lengthened(t, L, y, WordsUpTo(t, L)[y - 1])
    BY <2>3, WordSteps
  <2>7. WordsUpTo(s, K)[x] = WordsUpTo(t, L)[y]
    <3>1. CASE OfWord(s, K, x)
      <4>1. /\ WordsUpTo(s, K)[x] = Longer(WordsUpTo(s, K)[x - 1], s[x], OfWord(s, K, x - 1))
            /\ WordsUpTo(t, L)[y] = Longer(WordsUpTo(t, L)[y - 1], t[y], OfWord(t, L, y - 1))
        BY <2>5, <2>6, <3>1 DEF Lengthened
      <4>2. OfWord(s, K, x - 1) = OfWord(t, L, y - 1)
        BY <2>4 DEF OfWord
      <4> QED
        BY <2>4, <2>5, <3>1, <4>1, <4>2
    <3>2. CASE ~OfWord(s, K, x)
      BY <2>4, <2>5, <2>6, <3>2 DEF Lengthened
    <3> QED
      BY <3>1, <3>2
  <2> QED
    BY <2>1, <2>2, <2>5, <2>7
<1> HIDE DEF S
<1>3. n \in S
  <2>1. \A j \in 1..n : j - 1 \in S => j \in S
    BY <1>2
  <2>2. \A j \in 0..n : j \in S
    BY <1>1, <2>1, UpTo
  <2> QED
    BY <2>2
<1> QED
  BY <1>3 DEF S

(* Behind a there is no symbol of a word for n symbols.                     *)
Wordless(s, K, a, n) ==
  /\ a \in Nat /\ Len(s) \in Nat /\ n \in Nat /\ a + n <= Len(s)
  /\ \A j \in 1..n : ~OfWord(s, K, a + j)

(* Then the words stay what they are.                                       *)
LEMMA WordsStay ==
  ASSUME NEW s, NEW K, NEW a, NEW n, Wordless(s, K, a, n)
  PROVE  WordsUpTo(s, K)[a + n] = WordsUpTo(s, K)[a]
<1> USE DEF Wordless
<1> DEFINE S == {j \in 0..n : WordsUpTo(s, K)[a + j] = WordsUpTo(s, K)[a]}
<1>1. 0 \in S
  <2>1. a + 0 = a
    OBVIOUS
  <2> QED
    BY <2>1
<1>2. ASSUME NEW j \in 1..n, j - 1 \in S PROVE j \in S
  <2>1. PICK x : x = a + j
    OBVIOUS
  <2>2. x \in 1..Len(s) /\ a + (j - 1) = x - 1
    BY <2>1
  <2>3. WordsUpTo(s, K)[x] = Lengthened(s, K, x, WordsUpTo(s, K)[x - 1])
    BY <2>2, WordSteps
  <2>4. ~OfWord(s, K, x)
    BY <2>1
  <2>5. WordsUpTo(s, K)[x] = WordsUpTo(s, K)[x - 1]
    BY <2>3, <2>4 DEF Lengthened
  <2> QED
    BY <1>2, <2>1, <2>2, <2>5
<1> HIDE DEF S
<1>3. n \in S
  BY <1>1, <1>2, UpTo
<1> QED
  BY <1>3 DEF S

(* What a mask is written with.                                             *)
MaskSymbols == Symbols \cup {Literal}

(* The mask m has the words of the first n symbols of t, and the last word  *)
(* can be made longer in both or in neither.                                *)
Level(m, t, keep, n) == WordsUpTo(m, DOMAIN m)[Len(m)] = WordsUpTo(t, keep)[n]
Joint(m, t, keep, n) == OfWord(m, DOMAIN m, Len(m)) <=> OfWord(t, keep, n)

(* The mask w is m with c behind it, and m has the same words in it.        *)
Behind(m, c, w) ==
  /\ w \in Seq(MaskSymbols) /\ Len(w) = Len(m) + Len(c) /\ Len(m) \in Nat /\ Len(c) \in Nat
  /\ \A j \in 1..Len(c) : w[Len(m) + j] = c[j]
  /\ WordsUpTo(w, DOMAIN w)[Len(m)] = WordsUpTo(m, DOMAIN m)[Len(m)]
  /\ OfWord(w, DOMAIN w, Len(m)) <=> OfWord(m, DOMAIN m, Len(m))

(* A mask keeps its words when something is written behind it.              *)
LEMMA WordsBefore ==
  ASSUME NEW m \in Seq(MaskSymbols), NEW c \in Seq(MaskSymbols)
  PROVE  Behind(m, c, m \o c)
<1> SUFFICES ASSUME NEW w, w = m \o c PROVE Behind(m, c, w)
  OBVIOUS
<1>1. /\ w \in Seq(MaskSymbols) /\ Len(w) = Len(m) + Len(c) /\ Len(m) \in Nat /\ Len(c) \in Nat
      /\ DOMAIN w = 1..Len(w) /\ DOMAIN m = 1..Len(m)
  OBVIOUS
<1>2. /\ \A j \in 1..Len(m) : w[j] = m[j]
      /\ \A j \in 1..Len(c) : w[Len(m) + j] = c[j]
  OBVIOUS
<1> DEFINE W == DOMAIN w
           M == DOMAIN m
           n == Len(m)
<1>3. W = 1..Len(w) /\ M = 1..n /\ n \in Nat /\ n <= Len(w) /\ Len(w) \in Nat /\ n = Len(m)
  BY <1>1
<1>4. \A j \in 1..n : w[j] = m[j]
  BY <1>2
<1> HIDE DEF W, M, n
<1>5. /\ WordsUpTo(w, W)[0] = WordsUpTo(m, M)[0]
      /\ OfWord(w, W, 0) <=> OfWord(m, M, 0)
  <2>1. WordsUpTo(w, W)[0] = <<>> /\ WordsUpTo(m, M)[0] = <<>>
    BY <1>3, WordSteps
  <2>2. 0 \notin W /\ 0 \notin M
    BY <1>3
  <2> QED
    BY <2>1, <2>2 DEF OfWord
<1>6. \A j \in 1..n : /\ OfWord(w, W, 0 + j) <=> OfWord(m, M, 0 + j)
                      /\ OfWord(w, W, 0 + j) => w[0 + j] = m[0 + j]
  <2>1. ASSUME NEW j \in 1..n PROVE (OfWord(w, W, j) <=> OfWord(m, M, j)) /\ w[j] = m[j]
    <3>1. j \in W /\ j \in M
      BY <1>3
    <3> QED
      BY <1>4, <3>1 DEF OfWord
  <2>2. \A j \in 1..n : 0 + j = j
    BY <1>3
  <2> QED
    BY <2>1, <2>2
<1>7. 0 + n = n
  BY <1>3
<1>8. /\ WordsUpTo(w, W)[n] = WordsUpTo(m, M)[n]
      /\ OfWord(w, W, n) <=> OfWord(m, M, n)
  <2>1. 0 \in Nat /\ 0 + n <= Len(w) /\ 0 + n <= Len(m) /\ Len(m) \in Nat
    BY <1>3
  <2>2. SideBySide(w, W, 0, m, M, 0, n)
    BY <1>3, <1>5, <1>6, <2>1 DEF SideBySide
  <2>3. /\ WordsUpTo(w, W)[0 + n] = WordsUpTo(m, M)[0 + n]
        /\ OfWord(w, W, 0 + n) <=> OfWord(m, M, 0 + n)
    BY <2>2, WordsGoAlong
  <2> QED
    BY <1>7, <2>3
<1> QED
  BY <1>1, <1>2, <1>8 DEF W, M, n, Behind

(* Where neither what is written nor what it stands for has words, the      *)
(* words stay the same, and the next one is another.                        *)
LEMMA BlankLevel ==
  ASSUME NEW m \in Seq(MaskSymbols), NEW c \in Seq(MaskSymbols), c # <<>>,
         \A j \in 1..Len(c) : c[j] \notin WordChars,
         NEW t \in Seq(Symbols), NEW keep, NEW a \in Nat, NEW e \in Nat, a <= e, e <= Len(t),
         \A k \in (a + 1)..e : ~OfWord(t, keep, k),
         Level(m, t, keep, a)
  PROVE  /\ m \o c \in Seq(MaskSymbols)
         /\ Level(m \o c, t, keep, e)
         /\ a < e => Joint(m \o c, t, keep, e)
<1>1. PICK w : w = m \o c
  OBVIOUS
<1>2. /\ w \in Seq(MaskSymbols) /\ Len(w) = Len(m) + Len(c) /\ Len(m) \in Nat /\ Len(c) \in Nat
      /\ \A j \in 1..Len(c) : w[Len(m) + j] = c[j]
      /\ WordsUpTo(w, DOMAIN w)[Len(m)] = WordsUpTo(m, DOMAIN m)[Len(m)]
  BY <1>1, WordsBefore DEF Behind
<1>3. Len(c) >= 1
  OBVIOUS
<1> DEFINE W == DOMAIN w
           p == Len(m)
           q == Len(c)
<1>4. p \in Nat /\ q \in Nat /\ q >= 1 /\ Len(w) = p + q /\ Len(w) \in Nat
  BY <1>2, <1>3
<1>5. \A j \in 1..q : ~OfWord(w, W, p + j)
  BY <1>2 DEF OfWord
<1>6. Len(t) \in Nat
  OBVIOUS
<1>7. WordsUpTo(w, W)[p] = WordsUpTo(t, keep)[a]
  BY <1>2 DEF Level
<1> HIDE DEF W, p, q
<1>8. WordsUpTo(w, W)[p + q] = WordsUpTo(w, W)[p]
  <2>1. p + q <= Len(w)
    BY <1>4
  <2>2. Wordless(w, W, p, q)
    BY <1>4, <1>5, <2>1 DEF Wordless
  <2> QED
    BY <2>2, WordsStay
<1>9. WordsUpTo(t, keep)[e] = WordsUpTo(t, keep)[a]
  <2>1. PICK n : n = e - a
    OBVIOUS
  <2>2. n \in Nat /\ a + n = e /\ a + n <= Len(t)
    BY <1>6, <2>1
  <2>3. \A j \in 1..n : ~OfWord(t, keep, a + j)
    BY <2>2
  <2>4. Wordless(t, keep, a, n)
    BY <1>6, <2>2, <2>3 DEF Wordless
  <2>5. WordsUpTo(t, keep)[a + n] = WordsUpTo(t, keep)[a]
    BY <2>4, WordsStay
  <2> QED
    BY <2>2, <2>5
<1>10. Level(w, t, keep, e)
  BY <1>4, <1>7, <1>8, <1>9 DEF Level, W
<1>11. a < e => Joint(w, t, keep, e)
  <2>1. ~OfWord(w, W, Len(w))
    BY <1>4, <1>5
  <2>2. a < e => ~OfWord(t, keep, e)
    OBVIOUS
  <2> QED
    BY <2>1, <2>2 DEF Joint, W
<1> QED
  BY <1>1, <1>2, <1>10, <1>11

(* What is written as it stands in the text has the words it has there.     *)
LEMMA CopyLevel ==
  ASSUME NEW m \in Seq(MaskSymbols), NEW c \in Seq(MaskSymbols),
         NEW t \in Seq(Symbols), NEW keep, NEW a \in Nat, a + Len(c) <= Len(t),
         \A j \in 1..Len(c) : a + j \in keep /\ t[a + j] = c[j],
         Level(m, t, keep, a), Joint(m, t, keep, a)
  PROVE  /\ m \o c \in Seq(MaskSymbols)
         /\ Level(m \o c, t, keep, a + Len(c))
         /\ Joint(m \o c, t, keep, a + Len(c))
<1>1. PICK w : w = m \o c
  OBVIOUS
<1>2. /\ w \in Seq(MaskSymbols) /\ Len(w) = Len(m) + Len(c) /\ Len(m) \in Nat /\ Len(c) \in Nat
      /\ \A j \in 1..Len(c) : w[Len(m) + j] = c[j]
      /\ WordsUpTo(w, DOMAIN w)[Len(m)] = WordsUpTo(m, DOMAIN m)[Len(m)]
      /\ OfWord(w, DOMAIN w, Len(m)) <=> OfWord(m, DOMAIN m, Len(m))
  BY <1>1, WordsBefore DEF Behind
<1> DEFINE W == DOMAIN w
           p == Len(m)
           q == Len(c)
<1>3. W = 1..Len(w)
  BY <1>2
<1>4. p \in Nat /\ q \in Nat /\ Len(w) = p + q /\ Len(w) \in Nat /\ Len(t) \in Nat /\ a + q <= Len(t)
  BY <1>2
<1>5. /\ WordsUpTo(w, W)[p] = WordsUpTo(t, keep)[a]
      /\ OfWord(w, W, p) <=> OfWord(t, keep, a)
  BY <1>2 DEF Level, Joint
<1>6. \A j \in 1..q : w[p + j] = t[a + j] /\ a + j \in keep
  BY <1>2
<1> HIDE DEF W, p, q
<1>7. \A j \in 1..q : /\ OfWord(w, W, p + j) <=> OfWord(t, keep, a + j)
                      /\ OfWord(w, W, p + j) => w[p + j] = t[a + j]
  <2>1. \A j \in 1..q : p + j \in W
    BY <1>3, <1>4
  <2> QED
    BY <1>6, <2>1 DEF OfWord
<1>8. /\ WordsUpTo(w, W)[p + q] = WordsUpTo(t, keep)[a + q]
      /\ OfWord(w, W, p + q) <=> OfWord(t, keep, a + q)
  <2>1. p + q <= Len(w)
    BY <1>4
  <2>2. SideBySide(w, W, p, t, keep, a, q)
    BY <1>4, <1>5, <1>7, <2>1 DEF SideBySide
  <2> QED
    BY <2>2, WordsGoAlong
<1> QED
  BY <1>1, <1>2, <1>4, <1>8 DEF Level, Joint, W, q

(* The symbols of t whose words the mask of that mode is to have.           *)
KeptIn(t, mode) == {k \in 1..Len(t) : Pieces(t)[k] = "code" \/ (mode = "relations" /\ Pieces(t)[k] = "name")}

(* The mask m has the words of what is before symbol n.                     *)
Fits(m, n, t, keep) ==
  /\ m \in Seq(MaskSymbols)
  /\ n <= Len(t) => Level(m, t, keep, n - 1) /\ Joint(m, t, keep, n - 1)
  /\ n > Len(t) => Level(m, t, keep, Len(t))

(* What the mask has in the place of comments and literals.                 *)
Blanks == {" ", "nl", Literal}

(* A word is not made longer by a blank or a literal.                       *)
LEMMA BlanksAreNoLetters ==
  ASSUME NEW c \in Blanks
  PROVE  c \in MaskSymbols /\ c \notin WordChars
BY DEF Blanks, MaskSymbols, Symbols, Spaces, Literal, WordChars, IdentifierStart, Keywords

(* The loop writes a blank, or a literal, for a piece without words.        *)
LEMMA BlankFits ==
  ASSUME Scans, NEW m, NEW keep, Fits(m, i, text, keep),
         NEW c \in Blanks, NEW e, e \in Nat, e > i, e <= N + 2,
         \A k \in i..N : k < e => ~OfWord(text, keep, k)
  PROVE  Fits(m \o <<c>>, e, text, keep)
<1>1. text \in Seq(Symbols) /\ N \in Nat /\ N = Len(text) /\ i \in Nat /\ i >= 1 /\ i <= N
  BY Steps DEF Scans
<1>2. m \in Seq(MaskSymbols) /\ Level(m, text, keep, i - 1)
  BY <1>1 DEF Fits
<1>3. <<c>> \in Seq(MaskSymbols) /\ <<c>> # <<>> /\ \A j \in 1..Len(<<c>>) : <<c>>[j] \notin WordChars
  <2>1. c \in MaskSymbols /\ c \notin WordChars
    BY BlanksAreNoLetters
  <2> QED
    BY <2>1
<1>4. PICK a : a = i - 1
  OBVIOUS
<1>5. PICK n : n = IF e <= N THEN e - 1 ELSE N
  OBVIOUS
<1>6. a \in Nat /\ n \in Nat /\ a < n /\ a <= n /\ n <= Len(text) /\ (e <= N => n = e - 1) /\ (e > N => n = N)
  BY <1>1, <1>4, <1>5
<1>7. \A k \in (a + 1)..n : ~OfWord(text, keep, k)
  <2>1. \A k \in (a + 1)..n : k \in i..N /\ k < e
    BY <1>1, <1>4, <1>5
  <2> QED
    BY <2>1
<1>8. PICK w : w = <<c>>
  OBVIOUS
<1>9. w \in Seq(MaskSymbols) /\ w # <<>> /\ \A j \in 1..Len(w) : w[j] \notin WordChars
  BY <1>3, <1>8
<1>10. /\ m \o w \in Seq(MaskSymbols) /\ Level(m \o w, text, keep, n) /\ Joint(m \o w, text, keep, n)
  BY <1>1, <1>2, <1>4, <1>6, <1>7, <1>9, BlankLevel
<1> QED
  BY <1>1, <1>6, <1>8, <1>10 DEF Fits

(* The loop writes a symbol of the code as it is.                           *)
LEMMA CopyFits ==
  ASSUME Scans, NEW m, NEW keep, Fits(m, i, text, keep), i \in keep
  PROVE  Fits(m \o <<text[i]>>, i + 1, text, keep)
<1>1. text \in Seq(Symbols) /\ N \in Nat /\ N = Len(text) /\ i \in Nat /\ i >= 1 /\ i <= N
  BY Steps DEF Scans
<1>2. m \in Seq(MaskSymbols) /\ Level(m, text, keep, i - 1) /\ Joint(m, text, keep, i - 1)
  BY <1>1 DEF Fits
<1>3. PICK a : a = i - 1
  OBVIOUS
<1>4. PICK w : w = <<text[i]>>
  OBVIOUS
<1>5. a \in Nat /\ a + 1 = i /\ a + 1 <= Len(text) /\ Len(text) \in Nat
  BY <1>1, <1>3
<1>6. w \in Seq(MaskSymbols) /\ Len(w) = 1 /\ w[1] = text[i]
  <2>1. text[i] \in MaskSymbols
    BY <1>1 DEF MaskSymbols
  <2> QED
    BY <1>4, <2>1
<1>7. \A j \in 1..Len(w) : a + j \in keep /\ text[a + j] = w[j]
  <2>1. \A j \in 1..Len(w) : j = 1
    BY <1>6
  <2> QED
    BY <1>5, <1>6, <2>1
<1>8. a + Len(w) = i /\ a + Len(w) <= Len(text)
  BY <1>5, <1>6
<1>9. m \o w \in Seq(MaskSymbols) /\ Level(m \o w, text, keep, i) /\ Joint(m \o w, text, keep, i)
  <2>1. /\ m \o w \in Seq(MaskSymbols)
        /\ Level(m \o w, text, keep, a + Len(w)) /\ Joint(m \o w, text, keep, a + Len(w))
    BY <1>1, <1>2, <1>3, <1>5, <1>6, <1>7, <1>8, CopyLevel
  <2> QED
    BY <1>8, <2>1
<1>10. (i + 1) - 1 = i /\ (i + 1 > Len(text) => Len(text) = i)
  BY <1>1
<1> QED
  BY <1>4, <1>9, <1>10 DEF Fits

(* A quote is no part of a word.                                            *)
LEMMA QuoteIsNoLetter == "\"" \notin WordChars
BY DEF WordChars, IdentifierStart, Keywords

(* What Closing finds is a quote, or nothing.                               *)
LEMMA ClosingIsQuote ==
  ASSUME Scans, NEW quote, NEW escapes \in BOOLEAN
  PROVE  /\ Closing(quote, escapes) \in 1..(N + 1)
         /\ Closing(quote, escapes) <= N => text[Closing(quote, escapes)] = quote
<1>1. PICK f : Shuts(f, quote, escapes) /\ Closing(quote, escapes) = f[i + 1]
  BY ClosingIsShut DEF Scans
<1>2. N \in Nat /\ i + 1 \in 1..(N + 1)
  BY Steps
<1> DEFINE S == {k \in 1..(N + 1) : f[k] \in 1..(N + 1) /\ (f[k] <= N => text[f[k]] = quote)}
<1>3. ASSUME NEW k \in 1..(N + 1), \A j \in (k + 1)..(N + 1) : j \in S
      PROVE  k \in S
  <2>1. f[k] = IF k > N THEN N + 1
               ELSE IF escapes /\ text[k] = "\\" /\ k < N THEN f[k + 2]
               ELSE IF text[k] # quote THEN f[k + 1]
               ELSE IF Is(k + 1, quote) THEN f[k + 2] ELSE k
    BY <1>1 DEF Shuts
  <2>2. k <= N => k + 1 \in S
    BY <1>2, <1>3
  <2>3. (k < N => k + 2 \in S) /\ (Is(k + 1, quote) => k + 1 <= N)
    BY <1>2, <1>3 DEF Is
  <2>4. N + 1 \in 1..(N + 1) /\ ~(N + 1 <= N) /\ (k > N <=> ~(k <= N)) /\ (k + 1 <= N <=> k < N)
    BY <1>2
  <2> QED
    BY <2>1, <2>2, <2>3, <2>4
<1>4. \A k \in 1..(N + 1) : k \in S
  <2>1. PICK n : n = N + 1
    OBVIOUS
  <2>2. n \in Nat /\ \A k \in 1..n : (\A j \in (k + 1)..n : j \in S) => k \in S
    BY <1>2, <1>3, <2>1
  <2> HIDE DEF S
  <2> QED
    BY <2>1, <2>2, DownFrom
<1> QED
  BY <1>1, <1>2, <1>4

(* The loop writes what is between two symbols, with blanks in their place. *)
LEMMA NameFits ==
  ASSUME Scans, NEW m, NEW keep, Fits(m, i, text, keep),
         NEW e, e \in Nat, e >= i + 1, e <= N + 1,
         text[i] \notin WordChars, e <= N => text[e] \notin WordChars,
         \A k \in i..N : k < e => k \in keep,
         NEW c \in Blanks
  PROVE  Fits(m \o (<<c>> \o SubSeq(text, i + 1, e - 1) \o <<c>>), e + 1, text, keep)
<1>2. PICK b : b = <<c>>
  OBVIOUS
<1>3. PICK name : name = SubSeq(text, i + 1, e - 1)
  OBVIOUS
<1>4. text \in Seq(Symbols) /\ N \in Nat /\ N = Len(text) /\ i \in Nat /\ i >= 1 /\ i <= N
  BY Steps DEF Scans
<1>5. e \in Nat /\ e >= i + 1 /\ e <= N + 1
  OBVIOUS
<1>6. text[i] \notin WordChars /\ (e <= N => text[e] \notin WordChars)
  OBVIOUS
<1>7. b \in Seq(MaskSymbols) /\ b # <<>> /\ \A j \in 1..Len(b) : b[j] \notin WordChars
  <2>1. c \in MaskSymbols /\ c \notin WordChars /\ b = <<c>>
    BY <1>2, BlanksAreNoLetters
  <2> QED
    BY <2>1
<1>8. /\ name \in Seq(MaskSymbols) /\ Len(name) = e - 1 - i
      /\ \A j \in 1..Len(name) : i + j \in keep /\ text[i + j] = name[j]
  <2>1. i + 1 <= (e - 1) + 1 /\ i + 1 >= 1 /\ e - 1 <= Len(text) /\ i + 1 \in Nat /\ e - 1 \in Nat
    BY <1>4, <1>5
  <2>2. PICK x : x = i + 1
    OBVIOUS
  <2>3. PICK y : y = e - 1
    OBVIOUS
  <2>4. /\ name \in Seq(Symbols) /\ Len(name) = y - x + 1
        /\ \A j \in 1..(y - x + 1) : name[j] = text[x + j - 1]
    <3>1. x \in Nat /\ y \in Nat /\ 1 <= x /\ x <= y + 1 /\ y <= Len(text) /\ name = SubSeq(text, x, y)
      BY <1>3, <2>1, <2>2, <2>3
    <3> QED
      BY <1>4, <3>1
  <2>5. Len(name) = e - 1 - i
    BY <1>4, <1>5, <2>2, <2>3, <2>4
  <2>6. ASSUME NEW j \in 1..Len(name) PROVE i + j \in keep /\ text[i + j] = name[j]
    <3>1. i + j \in i..N /\ i + j < e /\ x + j - 1 = i + j /\ j \in 1..(y - x + 1)
      BY <1>4, <1>5, <2>2, <2>4, <2>5
    <3>2. i + j \in keep
      BY <3>1
    <3>3. name[j] = text[x + j - 1]
      BY <2>4, <3>1
    <3> QED
      BY <3>1, <3>2, <3>3
  <2>7. name \in Seq(MaskSymbols)
    BY <2>4 DEF MaskSymbols
  <2> QED
    BY <2>5, <2>6, <2>7
<1>9. PICK a : a = i - 1
  OBVIOUS
<1>10. PICK m1 : m1 = m \o b
  OBVIOUS
<1>11. m1 \in Seq(MaskSymbols) /\ Level(m1, text, keep, i) /\ Joint(m1, text, keep, i)
  <2>1. m \in Seq(MaskSymbols) /\ Level(m, text, keep, a)
    BY <1>4, <1>9 DEF Fits
  <2>2. a \in Nat /\ a < i /\ a <= i /\ i <= Len(text)
    BY <1>4, <1>9
  <2>3. \A k \in (a + 1)..i : ~OfWord(text, keep, k)
    <3>1. \A k \in (a + 1)..i : k = i
      BY <1>4, <1>9
    <3> QED
      BY <1>6, <3>1 DEF OfWord
  <2> QED
    BY <1>4, <1>7, <1>10, <2>1, <2>2, <2>3, BlankLevel
<1>12. PICK m2 : m2 = m1 \o name
  OBVIOUS
<1>13. PICK y : y = e - 1
  OBVIOUS
<1>14. m2 \in Seq(MaskSymbols) /\ Level(m2, text, keep, y)
  <2>1. i + Len(name) = y /\ i + Len(name) <= Len(text)
    BY <1>4, <1>5, <1>8, <1>13
  <2>2. m2 \in Seq(MaskSymbols) /\ Level(m2, text, keep, i + Len(name))
    BY <1>4, <1>8, <1>11, <1>12, <2>1, CopyLevel
  <2> QED
    BY <2>1, <2>2
<1>15. PICK n : n = IF e <= N THEN e ELSE N
  OBVIOUS
<1>16. y \in Nat /\ n \in Nat /\ y <= n /\ n <= Len(text) /\ (e <= N => y < n /\ n = e) /\ (e > N => n = N)
  BY <1>4, <1>5, <1>13, <1>15
<1>17. /\ m2 \o b \in Seq(MaskSymbols) /\ Level(m2 \o b, text, keep, n)
       /\ y < n => Joint(m2 \o b, text, keep, n)
  <2>1. \A k \in (y + 1)..n : ~OfWord(text, keep, k)
    <3>1. \A k \in (y + 1)..n : k = e /\ e <= N
      BY <1>4, <1>5, <1>13, <1>15
    <3> QED
      BY <1>6, <3>1 DEF OfWord
  <2> QED
    BY <1>4, <1>7, <1>14, <1>16, <2>1, BlankLevel
<1>18. m2 \o b = m \o (b \o name \o b)
  <2>1. m \in Seq(MaskSymbols) /\ b \in Seq(MaskSymbols) /\ name \in Seq(MaskSymbols)
    BY <1>7, <1>8 DEF Fits
  <2>2. PICK d : d = b \o name
    OBVIOUS
  <2>3. (m \o b) \o name = m \o d /\ d \in Seq(MaskSymbols)
    BY <2>1, <2>2, ConcatAssociative
  <2>4. (m \o d) \o b = m \o (d \o b)
    BY <2>1, <2>3, ConcatAssociative
  <2> QED
    BY <1>10, <1>12, <2>2, <2>3, <2>4
<1>19. Fits(m2 \o b, e + 1, text, keep)
  <2>1. (e + 1) - 1 = e /\ (e + 1 <= Len(text) => e <= N) /\ (e + 1 > Len(text) => n = Len(text))
    BY <1>4, <1>5, <1>15
  <2> QED
    BY <1>16, <1>17, <2>1 DEF Fits
<1>20. Fits(m \o (b \o name \o b), e + 1, text, keep)
  BY <1>18, <1>19
<1> QED
  BY <1>2, <1>3, <1>20

(* A piece that is not kept has no words.                                   *)
LEMMA NotKept ==
  ASSUME Scans, NEW p, p # "code", NEW mode, p = "name" => mode # "relations", NEW e, Jump(p, e)
  PROVE  /\ e \in Nat /\ e > i /\ e <= N + 2
         /\ \A k \in i..N : k < e => ~OfWord(text, KeptIn(text, mode), k)
<1>1. e \in Nat /\ e > i /\ e <= N + 2
  <2>1. e \in (i + 2)..(N + 2)
    BY DEF Jump
  <2> QED
    BY <2>1, Steps
<1>2. \A k \in i..N : k < e => Pieces(text)[k] = p
  BY JumpCovers
<1>3. \A k \in i..N : k < e => k \notin KeptIn(text, mode)
  BY <1>2 DEF KeptIn
<1> QED
  BY <1>1, <1>3 DEF OfWord

(* The loop writes one symbol for a piece that is not kept.                 *)
LEMMA NotKeptFits ==
  ASSUME Scans, NEW m, NEW mode, Fits(m, i, text, KeptIn(text, mode)),
         NEW p, p # "code", p = "name" => mode # "relations", NEW e, Jump(p, e), NEW c \in Blanks
  PROVE  Fits(m \o <<c>>, e, text, KeptIn(text, mode))
<1> DEFINE keep == KeptIn(text, mode)
<1>1. /\ e \in Nat /\ e > i /\ e <= N + 2
      /\ \A k \in i..N : k < e => ~OfWord(text, keep, k)
  BY NotKept
<1>2. Fits(m, i, text, keep)
  OBVIOUS
<1> HIDE DEF keep
<1>3. Fits(m \o <<c>>, e, text, keep)
  BY <1>1, <1>2, BlankFits
<1> QED
  BY <1>3 DEF keep

(* A turn over a comment or a string.                                       *)
LEMMA LiteralFits ==
  ASSUME Scans, Fits(mask, i, text, KeptIn(text, stage)),
         \/ LineComment \/ BlockComment \/ String \/ DollarString
         \/ Quoted /\ stage # "relations"
  PROVE  Fits(mask', i', text, KeptIn(text, stage))
<1>1. \E c \in Blanks : /\ mask' = mask \o <<c>>
                        /\ \E p : p # "code" /\ (p = "name" => stage # "relations") /\ Jump(p, i')
  <2>1. " " \in Blanks /\ "nl" \in Blanks /\ Literal \in Blanks
    BY DEF Blanks
  <2>2. CASE LineComment
    <3>1. AtLine /\ mask' = mask \o <<"nl">> /\ i' = PastLine
      BY <2>2 DEF LineComment, Write
    <3>2. Jump("line", i')
      BY <3>1, LineJump
    <3> QED
      BY <2>1, <3>1, <3>2
  <2>3. CASE BlockComment
    <3>1. AtBlock /\ mask' = mask \o <<" ">> /\ i' = PastBlock
      BY <2>3 DEF BlockComment, Write
    <3>2. Jump("block", i')
      BY <3>1, BlockJump
    <3> QED
      BY <2>1, <3>1, <3>2
  <2>4. CASE String
    <3>1. Is(i, "'") /\ mask' = mask \o <<Literal>> /\ i' = Closing("'", EscapeString) + 1
      BY <2>4 DEF String, Write
    <3>2. \E p : p \notin {"code", "line", "block", "name"} /\ Jump(p, i')
      BY <3>1, StringJumps
    <3> QED
      BY <2>1, <3>1, <3>2
  <2>5. CASE DollarString
    <3>1. AtDollar /\ mask' = mask \o <<" ">> /\ i' = PastDollar
      BY <2>5 DEF DollarString, Write
    <3>2. Jump("dollar", i')
      BY <3>1, DollarJump
    <3> QED
      BY <2>1, <3>1, <3>2
  <2>6. CASE Quoted /\ stage # "relations"
    <3>1. Is(i, "\"") /\ mask' = mask \o <<Literal>> /\ i' = Closing("\"", FALSE) + 1
      BY <2>6 DEF Quoted, Write
    <3>2. Jump("name", i')
      BY <3>1, NameJumps
    <3> QED
      BY <2>1, <2>6, <3>1, <3>2
  <2> QED
    BY <2>2, <2>3, <2>4, <2>5, <2>6
<1>2. PICK c \in Blanks : /\ mask' = mask \o <<c>>
                          /\ \E p : p # "code" /\ (p = "name" => stage # "relations") /\ Jump(p, i')
  BY <1>1
<1>3. PICK p : p # "code" /\ (p = "name" => stage # "relations") /\ Jump(p, i')
  BY <1>2
<1>4. Fits(mask \o <<c>>, i', text, KeptIn(text, stage))
  BY <1>3, NotKeptFits
<1> QED
  BY <1>2, <1>4

(* A turn over a name that is kept.                                         *)
LEMMA NameKeptFits ==
  ASSUME Scans, Fits(mask, i, text, KeptIn(text, stage)), Quoted, stage = "relations"
  PROVE  Fits(mask', i', text, KeptIn(text, stage))
<1>1. PICK e : e = Closing("\"", FALSE)
  OBVIOUS
<1>2. PICK c : c = " "
  OBVIOUS
<1>3. Is(i, "\"")
  BY DEF Quoted
<1>4. mask' = mask \o (<<c>> \o SubSeq(text, i + 1, e - 1) \o <<c>>) /\ i' = e + 1
  BY <1>1, <1>2 DEF Quoted, Write
<1>5. Jump("name", e + 1)
  BY <1>1, <1>3, NameJumps
<1>6. text[i] \notin WordChars /\ (e <= N => text[e] \notin WordChars) /\ e \in 1..(N + 1)
  <2>1. text[i] = "\""
    BY <1>3 DEF Is
  <2>2. e \in 1..(N + 1) /\ (e <= N => text[e] = "\"")
    BY <1>1, ClosingIsQuote
  <2> QED
    BY <2>1, <2>2, QuoteIsNoLetter
<1>7. c \in Blanks
  BY <1>2 DEF Blanks
<1>8. \A k \in i..N : k < e + 1 => Pieces(text)[k] = "name"
  BY <1>5, JumpCovers
<1> HIDE <1>1, <1>2, <1>3
<1>9. N \in Nat /\ i \in Nat /\ i >= 1 /\ N = Len(text)
  BY Steps
<1>10. e \in Nat /\ e >= i + 1 /\ e <= N + 1
  <2>1. e + 1 \in (i + 2)..(N + 2)
    BY <1>5 DEF Jump
  <2> QED
    BY <1>6, <1>9, <2>1
<1>11. \A k \in i..N : k < e => k \in KeptIn(text, stage)
  <2>1. ASSUME NEW k \in i..N, k < e PROVE k \in KeptIn(text, stage)
    <3>1. k < e + 1 /\ k \in 1..Len(text)
      BY <1>9, <1>10, <2>1
    <3> QED
      BY <1>8, <3>1 DEF KeptIn
  <2> QED
    BY <2>1
<1> QED
  BY <1>4, <1>6, <1>7, <1>10, <1>11, NameFits

(* A turn over one symbol of the code.                                      *)
LEMMA SymbolFits ==
  ASSUME Scans, Fits(mask, i, text, KeptIn(text, stage)), Semicolon \/ Other
  PROVE  Fits(mask', i', text, KeptIn(text, stage))
<1>1. N \in Nat /\ i \in Nat /\ i >= 1 /\ i <= N /\ N = Len(text) /\ i + 1 \in Nat
  BY Steps
<1> DEFINE keep == KeptIn(text, stage)
<1>2. CASE Semicolon
  <2>1. Is(i, "semi") /\ mask' = mask \o <<" ">> /\ i' = i + 1
    BY <1>2 DEF Semicolon, Write
  <2>2. PICK c : c = " "
    OBVIOUS
  <2>3. c \in Blanks /\ mask' = mask \o <<c>>
    BY <2>1, <2>2 DEF Blanks
  <2>4. text[i] \notin WordChars
    BY <2>1, SemicolonIsNoLetter DEF Is
  <2>5. \A k \in i..N : k < i + 1 => ~OfWord(text, keep, k)
    <3>1. \A k \in i..N : k < i + 1 => k = i
      BY <1>1
    <3> QED
      BY <2>4, <3>1 DEF OfWord
  <2>6. i + 1 > i /\ i + 1 <= N + 2
    BY <1>1
  <2>7. Fits(mask, i, text, keep)
    OBVIOUS
  <2> HIDE DEF keep
  <2>8. Fits(mask \o <<c>>, i + 1, text, keep)
    BY <1>1, <2>3, <2>5, <2>6, <2>7, BlankFits
  <2> QED
    BY <2>1, <2>3, <2>8 DEF keep
<1>3. CASE Other
  <2>1. /\ mask' = mask \o <<text[i]>> /\ i' = i + 1
        /\ ~AtLine /\ ~AtBlock /\ ~AtDollar
        /\ text[i] # "'" /\ text[i] # "\""
    BY <1>3 DEF Other, Write
  <2>2. Pieces(text)[i] = "code"
    BY <2>1, CodeCovers
  <2>3. i \in keep
    BY <1>1, <2>2 DEF KeptIn
  <2>4. Fits(mask, i, text, keep)
    OBVIOUS
  <2> HIDE DEF keep
  <2>5. Fits(mask \o <<text[i]>>, i + 1, text, keep)
    BY <2>3, <2>4, CopyFits
  <2> QED
    BY <2>1, <2>5 DEF keep
<1> QED
  BY <1>2, <1>3

(* A mask that is empty fits the beginning.                                 *)
LEMMA EmptyFits ==
  ASSUME NEW t \in Seq(Symbols), NEW keep, 0 \notin keep
  PROVE  Fits(<<>>, 1, t, keep)
<1>1. Len(t) \in Nat /\ Len(<<>>) = 0 /\ 1 - 1 = 0 /\ (1 > Len(t) => Len(t) = 0)
  OBVIOUS
<1>2. WordsUpTo(<<>>, DOMAIN <<>>)[0] = <<>> /\ WordsUpTo(t, keep)[0] = <<>>
  BY <1>1, WordSteps
<1>3. ~OfWord(<<>>, DOMAIN <<>>, 0) /\ ~OfWord(t, keep, 0)
  <2>1. 0 \notin DOMAIN <<>>
    OBVIOUS
  <2> QED
    BY <2>1 DEF OfWord
<1>4. Level(<<>>, t, keep, 0) /\ Joint(<<>>, t, keep, 0) /\ <<>> \in Seq(MaskSymbols)
  BY <1>1, <1>2, <1>3 DEF Level, Joint
<1> QED
  BY <1>1, <1>4 DEF Fits
-----------------------------------------------------------------------------
(* The mask                                                                 *)

(* While the text is gone through the mask has its words.                   *)
MaskInv == stage # "done" => Fits(mask, i, text, KeptIn(text, stage))

(* It holds at the start.                                                   *)
LEMMA InitMaskInv == Init => MaskInv
<1> SUFFICES ASSUME Init PROVE Fits(mask, i, text, KeptIn(text, stage))
  BY DEF MaskInv
<1>1. text \in Seq(Symbols)
  BY GuardScanAssumption DEF Init
<1>2. mask = <<>> /\ i = 1
  BY DEF Init, Begin
<1>3. 0 \notin KeptIn(text, stage)
  BY <1>1 DEF KeptIn
<1> QED
  BY <1>1, <1>2, <1>3, EmptyFits

(* Every step keeps it.                                                     *)
LEMMA NextMaskInv == GuardInv /\ MaskInv /\ [Next]_vars => MaskInv'
<1> SUFFICES ASSUME GuardInv, MaskInv, [Next]_vars, stage' # "done"
             PROVE  Fits(mask', i', text', KeptIn(text', stage'))
  BY DEF MaskInv
<1>1. text \in Seq(Symbols)
  BY DEF GuardInv
<1>2. CASE LineComment \/ BlockComment \/ String \/ Quoted \/ DollarString \/ Semicolon \/ Other
  <2>1. Scanning /\ text' = text /\ stage' = stage
    BY <1>2 DEF LineComment, BlockComment, String, Quoted, DollarString, Semicolon, Other, Write, rest
  <2>2. Scans /\ Fits(mask, i, text, KeptIn(text, stage))
    BY <1>1, <2>1, ScansThere DEF GuardInv, MaskInv, Scanning
  <2>3. Fits(mask', i', text, KeptIn(text, stage))
    BY <1>2, <2>2, LiteralFits, NameKeptFits, SymbolFits
  <2> QED
    BY <2>1, <2>3
<1>3. CASE Masked
  <2>1. text' = text /\ mask' = <<>> /\ i' = 1
    BY <1>3 DEF Masked
  <2>2. 0 \notin KeptIn(text, stage')
    BY <1>1 DEF KeptIn
  <2> QED
    BY <1>1, <2>1, <2>2, EmptyFits
<1>4. CASE Validated
  BY <1>4 DEF Validated
<1>5. CASE UNCHANGED vars
  BY <1>5 DEF vars, MaskInv
<1> QED
  BY <1>2, <1>3, <1>4, <1>5 DEF Next

(* The symbols that are kept are those the words are made of.               *)
LEMMA WordsKept ==
  ASSUME NEW t \in Seq(Symbols)
  PROVE  /\ WordsOfCode(t) = Words(t, KeptIn(t, "keywords"))
         /\ WordsAndNames(t) = Words(t, KeptIn(t, "relations"))
<1>1. DOMAIN t = 1..Len(t)
  OBVIOUS
<1>2. {k \in DOMAIN t : Pieces(t)[k] = "code"} = KeptIn(t, "keywords")
  BY <1>1 DEF KeptIn
<1>3. {k \in DOMAIN t : Pieces(t)[k] \in {"code", "name"}} = KeptIn(t, "relations")
  BY <1>1 DEF KeptIn
<1> QED
  BY <1>2, <1>3 DEF WordsOfCode, WordsAndNames

(* The mask has the words of the code, in order and set apart as they are,  *)
(* the one for relations those of the names in quotes too, and the count is *)
(* the number of its statements.                                            *)
THEOREM MaskIsCode == Spec => []MaskIsTheCode
<1>1. GuardInv /\ MaskInv => MaskHasWordsOfCode
  <2> SUFFICES ASSUME GuardInv, MaskInv PROVE MaskHasWordsOfCode
    OBVIOUS
  <2>1. text \in Seq(Symbols) /\ N = Len(text) /\ DOMAIN text = 1..Len(text)
    <3>1. text \in Seq(Symbols)
      BY DEF GuardInv
    <3> QED
      BY <3>1 DEF N
  <2>2. ASSUME NEW mode, mode # "done", Scanned(mode)
        PROVE  Words(mask, DOMAIN mask) = Words(text, KeptIn(text, mode))
    <3>1. stage = mode /\ i > N
      BY <2>2 DEF Scanned
    <3>2. Fits(mask, i, text, KeptIn(text, mode))
      BY <2>2, <3>1 DEF MaskInv
    <3> QED
      BY <2>1, <3>1, <3>2 DEF Fits, Level, Words
  <2> QED
    BY <2>1, <2>2, WordsKept DEF MaskHasWordsOfCode
<1>2. Spec => []MaskInv
  BY Invariance, InitMaskInv, NextMaskInv, PTL DEF Spec
<1>3. MaskHasWordsOfCode /\ CountsStatements => MaskIsTheCode
  BY DEF MaskIsTheCode
<1> QED
  BY <1>1, <1>2, <1>3, Invariance, CountIsTrue, PTL
-----------------------------------------------------------------------------
(* The words of a mask                                                      *)

(* A symbol of a word of the mask m.                                        *)
Letter(m, k) == k \in 1..Len(m) /\ m[k] \in WordChars

(* The words up to symbol k, how many they are, and one of them.            *)
Up(m, k) == WordsUpTo(m, DOMAIN m)[k]
Count(m, k) == Len(Up(m, k))
Nth(m, k, j) == Up(m, k)[j]

(* With c, a word more begins, or the last one is longer; the others stay.  *)
Begins(words, c, more) ==
  /\ Len(more) = Len(words) + 1
  /\ more[Len(words) + 1] = <<c>>
  /\ \A j \in 1..Len(words) : more[j] = words[j]

Joins(words, c, more) ==
  /\ Len(more) = Len(words)
  /\ more[Len(words)] = Append(words[Len(words)], c)
  /\ \A j \in 1..Len(words) : j # Len(words) => more[j] = words[j]

(* What a symbol adds to the words.                                         *)
LEMMA LongerIs ==
  ASSUME NEW words \in Seq(Seq(WordChars)), NEW c \in WordChars, NEW joins \in BOOLEAN,
         joins => Len(words) >= 1, NEW more, more = Longer(words, c, joins)
  PROVE  /\ more \in Seq(Seq(WordChars))
         /\ IF joins THEN Joins(words, c, more) ELSE Begins(words, c, more)
<1>1. CASE ~joins
  <2>1. more = Append(words, <<c>>)
    BY <1>1 DEF Longer
  <2>2. <<c>> \in Seq(WordChars)
    OBVIOUS
  <2>3. PICK word : word = <<c>>
    OBVIOUS
  <2> QED
    BY <1>1, <2>1, <2>2, <2>3 DEF Begins
<1>2. CASE joins
  <2>1. PICK n : n = Len(words)
    OBVIOUS
  <2>2. n \in 1..Len(words) /\ n \in Nat
    BY <1>2, <2>1
  <2>3. words[n] \in Seq(WordChars)
    BY <2>2
  <2>4. PICK word : word = Append(words[n], c)
    OBVIOUS
  <2>5. word \in Seq(WordChars)
    BY <2>3, <2>4
  <2>6. more = [words EXCEPT ![n] = word]
    BY <1>2, <2>1, <2>4 DEF Longer
  <2>7. /\ more \in Seq(Seq(WordChars)) /\ Len(more) = Len(words)
        /\ more[n] = word /\ \A j \in 1..Len(words) : j # n => more[j] = words[j]
    BY <2>2, <2>5, <2>6
  <2>8. Joins(words, c, more)
    BY <2>1, <2>4, <2>7 DEF Joins
  <2> QED
    BY <1>2, <2>7, <2>8
<1> QED
  BY <1>1, <1>2

(* The words of a mask, symbol by symbol.                                   *)
LEMMA UpSteps ==
  ASSUME NEW m \in Seq(MaskSymbols)
  PROVE  /\ Up(m, 0) = <<>>
         /\ \A k \in 1..Len(m) :
              /\ Letter(m, k) => Up(m, k) = Longer(Up(m, k - 1), m[k], Letter(m, k - 1))
              /\ ~Letter(m, k) => Up(m, k) = Up(m, k - 1)
<1>1. Len(m) \in Nat /\ DOMAIN m = 1..Len(m)
  OBVIOUS
<1>2. \A k : OfWord(m, DOMAIN m, k) = Letter(m, k)
  BY <1>1 DEF OfWord, Letter
<1>3. /\ Up(m, 0) = <<>>
      /\ \A k \in 1..Len(m) : Up(m, k) = Lengthened(m, DOMAIN m, k, Up(m, k - 1))
  BY <1>1, WordSteps DEF Up
<1>4. ASSUME NEW k \in 1..Len(m)
      PROVE  /\ Letter(m, k) => Up(m, k) = Longer(Up(m, k - 1), m[k], Letter(m, k - 1))
             /\ ~Letter(m, k) => Up(m, k) = Up(m, k - 1)
  <2>1. Up(m, k) = Lengthened(m, DOMAIN m, k, Up(m, k - 1))
    BY <1>3
  <2>2. /\ OfWord(m, DOMAIN m, k) = Letter(m, k)
        /\ OfWord(m, DOMAIN m, k - 1) = Letter(m, k - 1)
    BY <1>2
  <2> QED
    BY <2>1, <2>2 DEF Lengthened
<1> QED
  BY <1>3, <1>4

(* The words are words, and where there is a letter there is a word.        *)
LEMMA UpTyped ==
  ASSUME NEW m \in Seq(MaskSymbols)
  PROVE  \A k \in 0..Len(m) : /\ Up(m, k) \in Seq(Seq(WordChars)) /\ Count(m, k) \in Nat
                              /\ Letter(m, k) => Count(m, k) >= 1
<1> DEFINE S == {k \in 0..Len(m) : /\ Up(m, k) \in Seq(Seq(WordChars))
                                   /\ Letter(m, k) => Len(Up(m, k)) >= 1}
<1>1. Len(m) \in Nat
  OBVIOUS
<1>2. 0 \in S
  <2>1. <<>> \in Seq(Seq(WordChars))
    OBVIOUS
  <2>2. Up(m, 0) \in Seq(Seq(WordChars))
    BY <2>1, UpSteps
  <2>3. ~Letter(m, 0)
    BY DEF Letter
  <2> QED
    BY <1>1, <2>2, <2>3
<1>3. ASSUME NEW k \in 1..Len(m), k - 1 \in S PROVE k \in S
  <2>1. PICK was : was = Up(m, k - 1)
    OBVIOUS
  <2>2. was \in Seq(Seq(WordChars)) /\ (Letter(m, k - 1) => Len(was) >= 1)
    BY <1>3, <2>1
  <2>3. CASE Letter(m, k)
    <3>1. PICK more : more = Longer(was, m[k], Letter(m, k - 1))
      OBVIOUS
    <3>2. m[k] \in WordChars /\ Letter(m, k - 1) \in BOOLEAN
      BY <2>3 DEF Letter
    <3>3. more \in Seq(Seq(WordChars))
      BY <2>2, <3>1, <3>2, LongerIs
    <3>4. Len(more) >= 1
      <4>1. Letter(m, k - 1) => Len(more) = Len(was)
        BY <2>2, <3>1, <3>2, LongerIs DEF Joins
      <4>2. ~Letter(m, k - 1) => Len(more) = Len(was) + 1
        BY <2>2, <3>1, <3>2, LongerIs DEF Begins
      <4> QED
        BY <2>2, <4>1, <4>2
    <3>5. Up(m, k) = more
      BY <2>1, <2>3, <3>1, UpSteps
    <3> QED
      BY <3>3, <3>4, <3>5
  <2>4. CASE ~Letter(m, k)
    BY <2>1, <2>2, <2>4, UpSteps
  <2> QED
    BY <2>3, <2>4
<1>4. \A k \in 0..Len(m) : k \in S
  <2>1. \A k \in 1..Len(m) : k - 1 \in S => k \in S
    BY <1>3
  <2> HIDE DEF S
  <2> QED
    BY <1>1, <1>2, <2>1, UpTo
<1> QED
  BY <1>4 DEF Count

(* A symbol begins a word, or makes the last one longer.                    *)
Starts(m, k) == Letter(m, k) /\ ~Letter(m, k - 1)
Goes(m, k) == Letter(m, k) /\ Letter(m, k - 1)

(* A symbol adds a word, or makes the last one longer, or does neither; the *)
(* words before stay.                                                       *)
LEMMA UpGrows ==
  ASSUME NEW m \in Seq(MaskSymbols), NEW k \in 1..Len(m)
  PROVE  /\ Starts(m, k) => /\ Count(m, k) = Count(m, k - 1) + 1
                            /\ Nth(m, k, Count(m, k - 1) + 1) = <<m[k]>>
         /\ ~Starts(m, k) => Count(m, k) = Count(m, k - 1)
         /\ Goes(m, k) => /\ Count(m, k - 1) >= 1
                          /\ Nth(m, k, Count(m, k)) = Append(Nth(m, k - 1, Count(m, k)), m[k])
         /\ \A j \in 1..Count(m, k - 1) :
              (Goes(m, k) /\ j = Count(m, k)) \/ Nth(m, k, j) = Nth(m, k - 1, j)
<1>1. k - 1 \in 0..Len(m)
  OBVIOUS
<1>2. PICK was : was = Up(m, k - 1)
  OBVIOUS
<1>3. was \in Seq(Seq(WordChars)) /\ (Letter(m, k - 1) => Len(was) >= 1) /\ Len(was) \in Nat
  BY <1>1, <1>2, UpTyped DEF Count
<1>4. PICK now : now = Up(m, k)
  OBVIOUS
<1>5. CASE ~Letter(m, k)
  <2>1. now = was
    BY <1>2, <1>4, <1>5, UpSteps
  <2> QED
    BY <1>2, <1>4, <1>5, <2>1 DEF Starts, Goes, Count, Nth
<1>6. CASE Letter(m, k)
  <2>1. now = Longer(was, m[k], Letter(m, k - 1))
    BY <1>2, <1>4, <1>6, UpSteps
  <2>2. m[k] \in WordChars /\ Letter(m, k - 1) \in BOOLEAN
    BY <1>6 DEF Letter
  <2>3. CASE Letter(m, k - 1)
    <3>1. Joins(was, m[k], now)
      BY <1>3, <2>1, <2>2, <2>3, LongerIs
    <3> QED
      BY <1>2, <1>3, <1>4, <1>6, <2>3, <3>1 DEF Joins, Starts, Goes, Count, Nth
  <2>4. CASE ~Letter(m, k - 1)
    <3>1. Begins(was, m[k], now)
      BY <1>3, <2>1, <2>2, <2>4, LongerIs
    <3> QED
      BY <1>2, <1>3, <1>4, <1>6, <2>4, <3>1 DEF Begins, Starts, Goes, Count, Nth
  <2> QED
    BY <2>3, <2>4
<1> QED
  BY <1>5, <1>6

(* The words get no fewer.                                                  *)
LEMMA CountGrows ==
  ASSUME NEW m \in Seq(MaskSymbols), NEW a \in 0..Len(m), NEW b \in a..Len(m)
  PROVE  Count(m, a) <= Count(m, b)
<1> DEFINE S == {k \in a..Len(m) : Count(m, a) <= Count(m, k)}
<1>1. Len(m) \in Nat /\ a \in Nat
  OBVIOUS
<1>2. a \in S
  BY <1>1, UpTyped
<1>3. \A k \in (a + 1)..Len(m) : k - 1 \in S => k \in S
  <2>1. ASSUME NEW k \in (a + 1)..Len(m), k - 1 \in S PROVE Count(m, a) <= Count(m, k)
    <3>1. k \in 1..Len(m) /\ k - 1 \in 0..Len(m) /\ k \in 0..Len(m)
      BY <1>1
    <3>2. Count(m, k) = Count(m, k - 1) \/ Count(m, k) = Count(m, k - 1) + 1
      BY <3>1, UpGrows
    <3>3. Count(m, k - 1) \in Nat /\ Count(m, a) \in Nat /\ Count(m, a) <= Count(m, k - 1)
      BY <2>1, <3>1, UpTyped
    <3> QED
      BY <3>2, <3>3
  <2> QED
    BY <1>1, <2>1
<1>4. b \in S
  <2>1. \A k \in a..Len(m) : k \in S
    <3> HIDE DEF S
    <3> QED
      BY <1>1, <1>2, <1>3, Ascending
  <2> QED
    BY <2>1
<1> QED
  BY <1>4

(* The symbol at f is a word by itself, w.                                  *)
Alone(m, f, w) ==
  f \in 1..Len(m) /\ m[f] = w /\ Letter(m, f) /\ ~Letter(m, f - 1) /\ ~Letter(m, f + 1)

(* A word of one symbol stays one.                                          *)
LEMMA AloneStays ==
  ASSUME NEW m \in Seq(MaskSymbols), NEW f, NEW w, Alone(m, f, w), NEW j, j = Count(m, f - 1) + 1
  PROVE  \A k \in f..Len(m) : /\ Count(m, k) >= j
                              /\ Nth(m, k, j) = <<w>>
                              /\ k = f \/ Count(m, k) > j \/ ~Letter(m, k)
<1> DEFINE S == {k \in f..Len(m) : /\ Count(m, k) >= j
                                   /\ Nth(m, k, j) = <<w>>
                                   /\ k = f \/ Count(m, k) > j \/ ~Letter(m, k)}
<1>1. Len(m) \in Nat /\ f \in Nat /\ f \in 1..Len(m) /\ f - 1 \in 0..Len(m) /\ Starts(m, f) /\ m[f] = w
  BY DEF Alone, Starts
<1>2. \A k \in 0..Len(m) : Count(m, k) \in Nat
  BY UpTyped
<1>3. j \in Nat /\ j >= 1
  BY <1>1, <1>2
<1>4. f \in S
  <2>1. Count(m, f) = j /\ Nth(m, f, j) = <<w>>
    BY <1>1, UpGrows
  <2> QED
    BY <1>1, <1>3, <2>1
<1>5. ASSUME NEW k \in (f + 1)..Len(m), k - 1 \in S PROVE k \in S
  <2>1. k \in 1..Len(m) /\ k - 1 \in 0..Len(m) /\ k \in 0..Len(m) /\ k \in f..Len(m) /\ k # f
    BY <1>1
  <2>2. Count(m, k - 1) \in Nat /\ Count(m, k) \in Nat
    BY <1>2, <2>1
  <2>3. /\ Count(m, k - 1) >= j /\ Nth(m, k - 1, j) = <<w>>
        /\ k - 1 = f \/ Count(m, k - 1) > j \/ ~Letter(m, k - 1)
    BY <1>5
  <2>4. j \in 1..Count(m, k - 1)
    BY <1>3, <2>2, <2>3
  <2>5. /\ Starts(m, k) => Count(m, k) = Count(m, k - 1) + 1
        /\ ~Starts(m, k) => Count(m, k) = Count(m, k - 1)
        /\ (Goes(m, k) /\ j = Count(m, k)) \/ Nth(m, k, j) = Nth(m, k - 1, j)
    BY <2>1, <2>4, UpGrows
  <2>6. CASE k - 1 = f
    <3>1. k = f + 1
      BY <1>1, <2>1, <2>6
    <3>2. ~Letter(m, k)
      BY <3>1 DEF Alone
    <3> QED
      BY <2>1, <2>3, <2>5, <3>2 DEF Starts, Goes
  <2>7. CASE Count(m, k - 1) > j
    <3>1. Count(m, k) > j
      BY <1>3, <2>2, <2>5, <2>7
    <3> QED
      BY <1>3, <2>1, <2>2, <2>3, <2>5, <3>1
  <2>8. CASE ~Letter(m, k - 1)
    <3>1. ~Goes(m, k) /\ (Letter(m, k) => Starts(m, k))
      BY <2>8 DEF Goes, Starts
    <3> QED
      BY <1>3, <2>1, <2>2, <2>3, <2>5, <3>1
  <2> QED
    BY <2>3, <2>6, <2>7, <2>8
<1>6. \A k \in f..Len(m) : k \in S
  <2>1. \A k \in (f + 1)..Len(m) : k - 1 \in S => k \in S
    BY <1>5
  <2> HIDE DEF S
  <2> QED
    BY <1>1, <1>4, <2>1, Ascending
<1> QED
  BY <1>6

(* A word of two symbols and more gets no shorter.                          *)
LEMMA LongStays ==
  ASSUME NEW m \in Seq(MaskSymbols), NEW f \in 1..Len(m), Starts(m, f), Letter(m, f + 1),
         NEW j, j = Count(m, f - 1) + 1
  PROVE  \A k \in (f + 1)..Len(m) : Count(m, k) >= j /\ Len(Nth(m, k, j)) >= 2
<1> DEFINE S == {k \in (f + 1)..Len(m) : Count(m, k) >= j /\ Len(Nth(m, k, j)) >= 2}
<1>1. Len(m) \in Nat /\ f \in Nat /\ f - 1 \in 0..Len(m) /\ f + 1 \in 1..Len(m) /\ (f + 1) - 1 = f
  BY DEF Letter
<1>2. \A k \in 0..Len(m) : Count(m, k) \in Nat
  BY UpTyped
<1>3. j \in Nat /\ j >= 1
  BY <1>1, <1>2
<1>4. f + 1 \in S
  <2>1. Count(m, f) = j /\ Nth(m, f, j) = <<m[f]>>
    BY <1>1, UpGrows
  <2>2. Goes(m, f + 1) /\ ~Starts(m, f + 1)
    BY <1>1 DEF Goes, Starts
  <2>3. PICK g : g = f + 1
    OBVIOUS
  <2>4. Count(m, g) = j /\ Nth(m, g, j) = Append(<<m[f]>>, m[g])
    <3>1. Count(m, g) = Count(m, g - 1) /\ Nth(m, g, Count(m, g)) = Append(Nth(m, g - 1, Count(m, g)), m[g])
      BY <1>1, <2>2, <2>3, UpGrows
    <3> QED
      BY <1>1, <2>1, <2>3, <3>1
  <2>5. Len(Append(<<m[f]>>, m[g])) = 2
    OBVIOUS
  <2> QED
    BY <1>1, <1>3, <2>3, <2>4, <2>5
<1>5. ASSUME NEW k \in ((f + 1) + 1)..Len(m), k - 1 \in S PROVE k \in S
  <2>1. k \in 1..Len(m) /\ k - 1 \in 0..Len(m) /\ k \in 0..Len(m) /\ k \in (f + 1)..Len(m)
    BY <1>1
  <2>2. Count(m, k - 1) \in Nat /\ Count(m, k) \in Nat
    BY <1>2, <2>1
  <2>3. Count(m, k - 1) >= j /\ Len(Nth(m, k - 1, j)) >= 2
    BY <1>5
  <2>4. j \in 1..Count(m, k - 1)
    BY <1>3, <2>2, <2>3
  <2>5. Count(m, k) >= j
    <3>1. Count(m, k) = Count(m, k - 1) + 1 \/ Count(m, k) = Count(m, k - 1)
      BY <2>1, UpGrows
    <3> QED
      BY <1>3, <2>2, <2>3, <3>1
  <2>6. CASE Nth(m, k, j) = Nth(m, k - 1, j)
    BY <2>1, <2>3, <2>5, <2>6
  <2>7. CASE Goes(m, k) /\ j = Count(m, k)
    <3>1. Nth(m, k, j) = Append(Nth(m, k - 1, j), m[k])
      BY <2>1, <2>7, UpGrows
    <3>2. PICK word : word = Nth(m, k - 1, j)
      OBVIOUS
    <3>3. word \in Seq(WordChars)
      <4>1. PICK u : u = Up(m, k - 1)
        OBVIOUS
      <4>2. u \in Seq(Seq(WordChars))
        BY <2>1, <4>1, UpTyped
      <4>3. j \in 1..Len(u)
        BY <2>4, <4>1 DEF Count
      <4> QED
        BY <3>2, <4>1, <4>2, <4>3 DEF Nth
    <3>4. m[k] \in WordChars
      BY <2>7 DEF Goes, Letter
    <3>5. Len(Append(word, m[k])) = Len(word) + 1 /\ Len(word) \in Nat
      BY <3>3, <3>4
    <3> QED
      BY <2>1, <2>3, <2>5, <3>1, <3>2, <3>5
  <2> QED
    BY <2>1, <2>4, <2>6, <2>7, UpGrows
<1>6. \A k \in (f + 1)..Len(m) : k \in S
  <2>1. \A k \in ((f + 1) + 1)..Len(m) : k - 1 \in S => k \in S
    BY <1>5
  <2>2. f + 1 \in Nat
    BY <1>1
  <2> HIDE DEF S
  <2> QED
    BY <1>1, <1>4, <2>1, <2>2, Ascending
<1> QED
  BY <1>6

(* Every word begins at some symbol.                                        *)
LEMMA WordStarts ==
  ASSUME NEW m \in Seq(MaskSymbols), NEW j \in 1..Count(m, Len(m))
  PROVE  \E f \in 1..Len(m) : Starts(m, f) /\ j = Count(m, f - 1) + 1
<1> DEFINE S == {k \in 0..Len(m) : Count(m, k) >= j}
<1>1. Len(m) \in Nat /\ \A k \in 0..Len(m) : Count(m, k) \in Nat
  BY UpTyped
<1>2. Len(m) \in S /\ S \in SUBSET Nat
  BY <1>1
<1>3. PICK f \in S : \A k \in S : f <= k
  <2> HIDE DEF S
  <2> QED
    BY <1>2, Smallest
<1>4. f # 0
  <2>1. Count(m, 0) = 0
    BY UpSteps DEF Count
  <2> QED
    BY <1>3, <2>1
<1>5. f \in 1..Len(m) /\ f - 1 \in 0..Len(m) /\ f - 1 < f
  BY <1>1, <1>3, <1>4
<1>6. ~(Count(m, f - 1) >= j)
  BY <1>3, <1>5
<1>7. Count(m, f) >= j
  BY <1>3
<1>8. Starts(m, f) /\ Count(m, f) = Count(m, f - 1) + 1
  <2>1. ~Starts(m, f) => Count(m, f) = Count(m, f - 1)
    BY <1>5, UpGrows
  <2>2. Starts(m, f) => Count(m, f) = Count(m, f - 1) + 1
    BY <1>5, UpGrows
  <2> QED
    BY <1>6, <1>7, <2>1, <2>2
<1>9. Count(m, f - 1) \in Nat
  BY <1>1, <1>5
<1>10. j = Count(m, f - 1) + 1
  BY <1>6, <1>7, <1>8, <1>9
<1> QED
  BY <1>5, <1>8, <1>10

(* The words of one symbol are the symbols that are words by themselves.    *)
LEMMA WordsAlone ==
  ASSUME NEW m \in Seq(MaskSymbols), NEW w
  PROVE  /\ \A f : Alone(m, f, w) =>
              /\ Count(m, f - 1) + 1 \in 1..Count(m, Len(m))
              /\ Nth(m, Len(m), Count(m, f - 1) + 1) = <<w>>
         /\ \A j \in 1..Count(m, Len(m)) : Nth(m, Len(m), j) = <<w>> =>
              \E f \in 1..Len(m) : Alone(m, f, w) /\ j = Count(m, f - 1) + 1
<1>1. Len(m) \in Nat /\ \A k \in 0..Len(m) : Count(m, k) \in Nat
  BY UpTyped
<1>2. ASSUME NEW f, NEW v, Alone(m, f, v)
      PROVE  /\ Count(m, f - 1) + 1 \in 1..Count(m, Len(m))
             /\ Nth(m, Len(m), Count(m, f - 1) + 1) = <<v>>
  <2>1. f \in 1..Len(m) /\ Len(m) \in f..Len(m) /\ f - 1 \in 0..Len(m) /\ Len(m) \in 0..Len(m)
    BY <1>1, <1>2 DEF Alone
  <2>2. PICK j : j = Count(m, f - 1) + 1
    OBVIOUS
  <2>3. Count(m, Len(m)) >= j /\ Nth(m, Len(m), j) = <<v>>
    BY <1>2, <2>1, <2>2, AloneStays
  <2>4. j \in Nat /\ j >= 1 /\ Count(m, Len(m)) \in Nat
    BY <1>1, <2>1, <2>2
  <2> QED
    BY <2>2, <2>3, <2>4
<1>3. ASSUME NEW j \in 1..Count(m, Len(m)), Nth(m, Len(m), j) = <<w>>
      PROVE  \E f \in 1..Len(m) : Alone(m, f, w) /\ j = Count(m, f - 1) + 1
  <2>1. PICK f \in 1..Len(m) : Starts(m, f) /\ j = Count(m, f - 1) + 1
    BY WordStarts
  <2>2. CASE Letter(m, f + 1)
    <3>1. Len(m) \in (f + 1)..Len(m)
      BY <1>1, <2>1, <2>2 DEF Letter
    <3>2. Len(Nth(m, Len(m), j)) >= 2
      BY <2>1, <2>2, <3>1, LongStays
    <3>3. Len(<<w>>) = 1
      OBVIOUS
    <3> QED
      BY <1>3, <3>2, <3>3
  <2>3. CASE ~Letter(m, f + 1)
    <3>1. Alone(m, f, m[f])
      BY <2>1, <2>3 DEF Alone, Starts
    <3>2. <<w>> = <<m[f]>>
      BY <1>2, <1>3, <2>1, <3>1
    <3> QED
      BY <2>1, <3>1, <3>2
  <2> QED
    BY <2>2, <2>3
<1> QED
  BY <1>2, <1>3

-----------------------------------------------------------------------------
(* The first keyword                                                        *)

(* From p on, the first symbol that is not in C.                            *)
Ahead(m, p, C) == Min({k \in p..Len(m) : m[k] \notin C} \cup {Len(m) + 1})

(* All symbols before it are in C.                                          *)
LEMMA AheadIs ==
  ASSUME NEW m \in Seq(MaskSymbols), NEW p \in 1..(Len(m) + 1), NEW C, NEW a, a = Ahead(m, p, C)
  PROVE  /\ a \in p..(Len(m) + 1) /\ a \in Nat
         /\ \A k \in p..Len(m) : k < a => m[k] \in C
         /\ a <= Len(m) => m[a] \notin C
<1> DEFINE found == {k \in p..Len(m) : m[k] \notin C} \cup {Len(m) + 1}
<1>1. Len(m) \in Nat
  OBVIOUS
<1>2. a \in found /\ \A k \in found : a <= k
  <2>1. found \in SUBSET Nat /\ found # {}
    BY <1>1
  <2>2. a = Min(found)
    BY DEF Ahead
  <2> HIDE DEF found
  <2> QED
    BY <2>1, <2>2, MinIsLeast
<1>3. a \in p..(Len(m) + 1) /\ (a <= Len(m) => m[a] \notin C)
  BY <1>1, <1>2
<1>4. ASSUME NEW k \in p..Len(m), k < a PROVE m[k] \in C
  BY <1>1, <1>2, <1>3, <1>4
<1> QED
  BY <1>1, <1>3, <1>4

(* What is skipped in front of a keyword.                                   *)
Lead == {"("} \cup Spaces

(* Brackets and blanks are no letters.                                      *)
LEMMA LeadIsNoLetter ==
  /\ \A c \in Lead : c \notin WordChars
  /\ \A c \in Spaces : c \notin WordChars
  /\ ")" \notin WordChars
BY DEF Lead, Spaces, WordChars, IdentifierStart, Keywords

(* Where the first keyword after p begins.                                  *)
LEMMA FirstIs ==
  ASSUME NEW m \in Seq(MaskSymbols), NEW p \in 1..(Len(m) + 1), NEW a, a = First(m, p)
  PROVE  /\ a \in p..(Len(m) + 1) /\ a \in Nat
         /\ \A k \in p..Len(m) : k < a => m[k] \in Lead /\ ~Letter(m, k)
         /\ a <= Len(m) => m[a] \notin Lead
<1>1. a = Ahead(m, p, Lead)
  BY DEF First, Ahead, Lead
<1> QED
  BY <1>1, AheadIs, LeadIsNoLetter DEF Letter

(* Where a word ends.                                                       *)
LEMMA EndIs ==
  ASSUME NEW m \in Seq(MaskSymbols), NEW p \in 1..(Len(m) + 1), NEW a, a = WordEnd(m, p)
  PROVE  /\ a \in p..(Len(m) + 1) /\ a \in Nat
         /\ \A k \in p..Len(m) : k < a => m[k] \in WordChars
         /\ a <= Len(m) => m[a] \notin WordChars
<1>1. a = Ahead(m, p, WordChars)
  BY DEF WordEnd, Ahead
<1> QED
  BY <1>1, AheadIs

(* The keyword is the symbol w if w is there and the next is no letter.     *)
LEMMA KeywordIs ==
  ASSUME NEW m \in Seq(MaskSymbols), NEW p \in 1..(Len(m) + 1), NEW S \in SUBSET WordChars,
         NEW a, a = First(m, p)
  PROVE  IsWord(FirstKeyword(m, p), S) <=> a <= Len(m) /\ m[a] \in S /\ ~Letter(m, a + 1)
<1>1. Len(m) \in Nat /\ a \in p..(Len(m) + 1) /\ a \in Nat /\ a >= 1 /\ a \in 1..(Len(m) + 1)
  BY FirstIs
<1>2. PICK e : e = WordEnd(m, a)
  OBVIOUS
<1>3. /\ e \in a..(Len(m) + 1) /\ e \in Nat
      /\ \A k \in a..Len(m) : k < e => m[k] \in WordChars
      /\ e <= Len(m) => m[e] \notin WordChars
  BY <1>1, <1>2, EndIs
<1>4. PICK word : word = SubSeq(m, a, e - 1)
  OBVIOUS
<1>5. FirstKeyword(m, p) = word
  BY <1>2, <1>4 DEF FirstKeyword, AfterKeyword
<1>6. Len(word) = e - a /\ (e > a => word[1] = m[a])
  <2>1. PICK y : y = e - 1
    OBVIOUS
  <2>2. y \in Int /\ y <= Len(m) /\ a <= y + 1 /\ y - a + 1 = e - a /\ y \in Nat /\ word = SubSeq(m, a, y)
    BY <1>1, <1>3, <1>4, <2>1
  <2>3. Len(word) = y - a + 1 /\ \A j \in 1..(y - a + 1) : word[j] = m[a + j - 1]
    BY <1>1, <2>2
  <2>4. e > a => 1 \in 1..(y - a + 1) /\ a + 1 - 1 = a
    BY <1>1, <1>3, <2>1
  <2> QED
    BY <2>2, <2>3, <2>4
<1>7. ASSUME NEW w \in S, word = <<w>> PROVE a <= Len(m) /\ m[a] = w /\ ~Letter(m, a + 1)
  <2>1. Len(word) = 1 /\ word[1] = w
    BY <1>7
  <2>2. e = a + 1 /\ e > a
    <3>1. e - a = 1
      BY <1>6, <2>1
    <3> QED
      BY <1>1, <1>3, <3>1
  <2>3. ~Letter(m, a + 1)
    BY <1>1, <1>3, <2>2 DEF Letter
  <2> QED
    BY <1>1, <1>3, <1>6, <2>1, <2>2, <2>3
<1>8. ASSUME a <= Len(m), m[a] \in S, ~Letter(m, a + 1) PROVE word = <<m[a]>>
  <2>1. e # a
    BY <1>3, <1>8
  <2>2. ~(e > a + 1)
    <3>1. e > a + 1 => a + 1 \in a..Len(m) /\ a + 1 < e /\ a + 1 \in 1..Len(m)
      BY <1>1, <1>3
    <3> QED
      BY <1>3, <1>8, <3>1 DEF Letter
  <2>3. e = a + 1
    BY <1>1, <1>3, <2>1, <2>2
  <2>4. Len(word) = 1 /\ word[1] = m[a]
    BY <1>1, <1>6, <2>3
  <2>5. word \in Seq(MaskSymbols)
    <3>1. PICK y : y = e - 1
      OBVIOUS
    <3>2. word = SubSeq(m, a, y) /\ y = a /\ a \in 1..Len(m)
      BY <1>1, <1>4, <1>8, <2>3, <3>1
    <3> QED
      BY <1>1, <3>2
  <2> QED
    BY <2>4, <2>5
<1> QED
  BY <1>5, <1>7, <1>8 DEF IsWord

(* The first word is the first keyword, if what comes first is a letter.    *)
LEMMA FirstWord ==
  ASSUME NEW m \in Seq(MaskSymbols), NEW a, a = First(m, 1), Letter(m, a), NEW S \in SUBSET WordChars
  PROVE  /\ a \in 1..Len(m) /\ Count(m, a) = 1 /\ Count(m, Len(m)) >= 1
         /\ IsWord(Nth(m, Len(m), 1), S) <=> IsWord(FirstKeyword(m, 1), S)
<1>1. Len(m) \in Nat /\ a \in 1..Len(m) /\ a - 1 \in 0..Len(m) /\ a - 1 \in Nat /\ 1 \in 1..(Len(m) + 1)
  BY DEF Letter
<1>2. \A k \in 1..Len(m) : k < a => ~Letter(m, k)
  BY <1>1, FirstIs
<1>3. Count(m, 0) = 0
  BY UpSteps DEF Count
<1>4. Count(m, a - 1) = 0
  <2> DEFINE Z == {k \in 0..(a - 1) : Count(m, k) = 0}
  <2>1. 0 \in Z
    BY <1>1, <1>3
  <2>2. \A k \in 1..(a - 1) : k - 1 \in Z => k \in Z
    <3>1. ASSUME NEW k \in 1..(a - 1), k - 1 \in Z PROVE Count(m, k) = 0
      <4>1. k \in 1..Len(m) /\ k < a
        BY <1>1
      <4>2. ~Starts(m, k)
        BY <1>2, <4>1 DEF Starts
      <4>3. Count(m, k) = Count(m, k - 1)
        BY <4>1, <4>2, UpGrows
      <4> QED
        BY <3>1, <4>3
    <3> QED
      BY <1>1, <3>1
  <2>3. PICK n : n = a - 1
    OBVIOUS
  <2>4. \A k \in 0..n : k \in Z
    <3> HIDE DEF Z
    <3> QED
      BY <1>1, <2>1, <2>2, <2>3, UpTo
  <2>5. a - 1 \in Z
    BY <1>1, <2>3, <2>4
  <2> QED
    BY <2>5
<1>5. ~Letter(m, a - 1)
  <2>1. a - 1 \in 1..Len(m) => a - 1 < a
    BY <1>1
  <2> QED
    BY <1>2, <2>1 DEF Letter
<1>6. Starts(m, a) /\ Count(m, a) = 1
  <2>1. Starts(m, a)
    BY <1>5 DEF Starts
  <2> QED
    BY <1>1, <1>4, <2>1, UpGrows
<1>7. \A k \in 0..Len(m) : Count(m, k) \in Nat
  BY UpTyped
<1>8. Count(m, Len(m)) >= 1
  <2>1. a \in 0..Len(m) /\ Len(m) \in a..Len(m)
    BY <1>1
  <2>2. Count(m, a) <= Count(m, Len(m))
    BY <2>1, CountGrows
  <2> QED
    BY <1>1, <1>6, <1>7, <2>2
<1>9. IsWord(FirstKeyword(m, 1), S) <=> m[a] \in S /\ ~Letter(m, a + 1)
  BY <1>1, KeywordIs
<1>10. ASSUME m[a] \in S, ~Letter(m, a + 1) PROVE Nth(m, Len(m), 1) = <<m[a]>>
  <2>1. Alone(m, a, m[a])
    BY <1>1, <1>5, <1>10 DEF Alone
  <2>2. Count(m, a - 1) + 1 = 1
    BY <1>4
  <2> QED
    BY <2>1, <2>2, WordsAlone
<1>11. ASSUME NEW w \in S, Nth(m, Len(m), 1) = <<w>> PROVE m[a] = w /\ ~Letter(m, a + 1)
  <2>1. 1 \in 1..Count(m, Len(m))
    BY <1>1, <1>7, <1>8
  <2>2. PICK f \in 1..Len(m) : Alone(m, f, w) /\ 1 = Count(m, f - 1) + 1
    BY <1>11, <2>1, WordsAlone
  <2>3. ~(f < a)
    BY <1>2, <2>2 DEF Alone
  <2>4. ~(f > a)
    <3>1. ASSUME f > a PROVE FALSE
      <4>1. a \in 0..Len(m) /\ f - 1 \in a..Len(m) /\ f - 1 \in 0..Len(m)
        BY <1>1, <3>1
      <4>2. Count(m, a) <= Count(m, f - 1)
        BY <4>1, CountGrows
      <4> QED
        BY <1>6, <1>7, <2>2, <4>1, <4>2
    <3> QED
      BY <3>1
  <2>5. f = a
    BY <1>1, <2>3, <2>4
  <2> QED
    BY <2>2, <2>5 DEF Alone
<1> QED
  BY <1>1, <1>6, <1>8, <1>9, <1>10, <1>11 DEF IsWord

(* The symbols in S that are words.                                         *)
LEMMA WordsContained ==
  ASSUME NEW m \in Seq(MaskSymbols), NEW S \in SUBSET WordChars
  PROVE  ContainsWord(m, 1, S) <=> \E j \in 1..Count(m, Len(m)) : IsWord(Nth(m, Len(m), j), S)
<1>1. Len(m) \in Nat
  OBVIOUS
<1>2. ContainsWord(m, 1, S) <=> \E f \in 1..Len(m) : m[f] \in S /\ Alone(m, f, m[f])
  <2>1. ASSUME NEW f \in 1..Len(m), m[f] \in S
        PROVE  Alone(m, f, m[f]) <=> /\ f > 1 => m[f - 1] \notin WordChars
                                     /\ f < Len(m) => m[f + 1] \notin WordChars
    <3>1. f - 1 \in 1..Len(m) <=> f > 1
      BY <1>1
    <3>2. f + 1 \in 1..Len(m) <=> f < Len(m)
      BY <1>1
    <3>3. m[f] \in WordChars
      BY <2>1
    <3> QED
      BY <3>1, <3>2, <3>3 DEF Alone, Letter
  <2> QED
    BY <2>1 DEF ContainsWord
<1>3. ASSUME NEW f \in 1..Len(m), m[f] \in S, Alone(m, f, m[f])
      PROVE  \E j \in 1..Count(m, Len(m)) : IsWord(Nth(m, Len(m), j), S)
  <2>1. /\ Count(m, f - 1) + 1 \in 1..Count(m, Len(m))
        /\ Nth(m, Len(m), Count(m, f - 1) + 1) = <<m[f]>>
    BY <1>3, WordsAlone
  <2> QED
    BY <1>3, <2>1 DEF IsWord
<1>4. ASSUME NEW j \in 1..Count(m, Len(m)), IsWord(Nth(m, Len(m), j), S)
      PROVE  \E f \in 1..Len(m) : m[f] \in S /\ Alone(m, f, m[f])
  <2>1. PICK w \in S : Nth(m, Len(m), j) = <<w>>
    BY <1>4 DEF IsWord
  <2>2. PICK f \in 1..Len(m) : Alone(m, f, w)
    BY <2>1, WordsAlone
  <2>3. m[f] = w
    BY <2>2 DEF Alone
  <2> QED
    BY <2>2, <2>3
<1> QED
  BY <1>2, <1>3, <1>4

-----------------------------------------------------------------------------
(* What EXPLAIN is asked about                                              *)

(* No word goes on across p.                                                *)
Apart(m, p) == ~Letter(m, p) \/ ~Letter(m, p - 1)

(* Behind a keyword and the blanks that follow it no word goes on.          *)
LEMMA BehindKeyword ==
  ASSUME NEW m \in Seq(MaskSymbols), NEW p \in 1..(Len(m) + 1), NEW a, a = First(m, p), Letter(m, a),
         NEW e, e = TrimLeft(m, AfterKeyword(m, p))
  PROVE  e \in (a + 1)..(Len(m) + 1) /\ e > p /\ e \in 1..(Len(m) + 1) /\ Apart(m, e)
<1>1. Len(m) \in Nat /\ a \in p..(Len(m) + 1) /\ a \in 1..(Len(m) + 1) /\ a \in 1..Len(m) /\ m[a] \in WordChars
  BY FirstIs DEF Letter
<1>2. PICK b : b = AfterKeyword(m, p)
  OBVIOUS
<1>3. b \in a..(Len(m) + 1) /\ b \in Nat /\ (b <= Len(m) => m[b] \notin WordChars)
  <2>1. b = WordEnd(m, a)
    BY <1>2 DEF AfterKeyword
  <2> QED
    BY <1>1, <2>1, EndIs
<1>4. b > a
  <2>1. b # a
    BY <1>1, <1>3
  <2> QED
    BY <1>1, <1>3, <2>1
<1>5. e = Ahead(m, b, Spaces) /\ b \in 1..(Len(m) + 1)
  BY <1>1, <1>2, <1>3 DEF TrimLeft, Ahead
<1>6. /\ e \in b..(Len(m) + 1) /\ e \in Nat
      /\ \A k \in b..Len(m) : k < e => m[k] \in Spaces
  BY <1>5, AheadIs
<1>7. Apart(m, e)
  <2>1. CASE e = b
    BY <1>3, <2>1 DEF Apart, Letter
  <2>2. CASE e # b
    <3>1. e - 1 \in b..Len(m) /\ e - 1 < e
      BY <1>1, <1>3, <1>6, <2>2
    <3>2. m[e - 1] \in Spaces
      BY <1>6, <3>1
    <3> QED
      BY <3>2, LeadIsNoLetter DEF Apart, Letter
  <2> QED
    BY <2>1, <2>2
<1> QED
  BY <1>1, <1>3, <1>4, <1>6, <1>7

(* Nor behind the list of options.                                          *)
LEMMA BehindOptions ==
  ASSUME NEW m \in Seq(MaskSymbols), NEW p \in 1..Len(m), NEW e, e = OptionListEnd(m, p)
  PROVE  e \in (p + 1)..(Len(m) + 1) /\ Apart(m, e)
<1>1. \E S \in SUBSET {k \in p..Len(m) : m[k] = ")"} : e = Min({k + 1 : k \in S} \cup {Len(m) + 1})
  BY DEF OptionListEnd
<1>2. PICK S \in SUBSET {k \in p..Len(m) : m[k] = ")"} : e = Min({k + 1 : k \in S} \cup {Len(m) + 1})
  BY <1>1
<1>3. Len(m) \in Nat
  OBVIOUS
<1> DEFINE ends == {k + 1 : k \in S} \cup {Len(m) + 1}
<1>4. e \in ends
  <2>1. ends \in SUBSET Nat /\ ends # {}
    BY <1>3
  <2>2. e = Min(ends)
    BY <1>2
  <2> HIDE DEF ends
  <2> QED
    BY <2>1, <2>2, MinIsLeast
<1>5. CASE e = Len(m) + 1
  BY <1>3, <1>5 DEF Apart, Letter
<1>6. CASE e # Len(m) + 1
  <2>1. PICK k \in S : e = k + 1
    BY <1>4, <1>6
  <2>2. k \in p..Len(m) /\ m[k] = ")" /\ e - 1 = k
    BY <1>3, <2>1
  <2>3. ~Letter(m, e - 1)
    BY <2>2, LeadIsNoLetter DEF Letter
  <2> QED
    BY <1>3, <2>1, <2>2, <2>3 DEF Apart
<1> QED
  BY <1>5, <1>6

(* What ExplainTarget looks up, as a function.                              *)
Options == {"ANALYZE", "VERBOSE"}
Targets(f, m) ==
  f = [k \in 1..(Len(m) + 1) |->
         IF IsWord(FirstKeyword(m, k), Options) THEN f[TrimLeft(m, AfterKeyword(m, k))] ELSE k]

(* An option is a keyword, and the next one comes behind it.                *)
LEMMA NextOption ==
  ASSUME NEW m \in Seq(MaskSymbols), NEW k \in 1..(Len(m) + 1), NEW S \in SUBSET WordChars,
         IsWord(FirstKeyword(m, k), S), NEW e, e = TrimLeft(m, AfterKeyword(m, k))
  PROVE  e \in 1..(Len(m) + 1) /\ e > k /\ e \in (First(m, k) + 1)..(Len(m) + 1) /\ Apart(m, e)
<1>1. PICK a : a = First(m, k)
  OBVIOUS
<1>2. a <= Len(m) /\ m[a] \in S
  BY <1>1, KeywordIs
<1>3. Letter(m, a)
  BY <1>1, <1>2, FirstIs DEF Letter
<1> QED
  BY <1>1, <1>3, BehindKeyword

(* The keywords Validate looks for are letters.                             *)
LEMMA OptionsAreLetters ==
  /\ Options \in SUBSET WordChars /\ AllowedStart \in SUBSET WordChars
  /\ Forbidden \in SUBSET WordChars /\ ForbiddenRelations \in SUBSET WordChars
  /\ {"EXPLAIN"} \in SUBSET WordChars
BY DEF Options, AllowedStart, Forbidden, ForbiddenRelations, WordChars, IdentifierStart, Keywords

(* There is a function that finds what EXPLAIN is asked about.              *)
LEMMA TargetsExists ==
  ASSUME NEW m \in Seq(MaskSymbols)
  PROVE  \E f : Targets(f, m)
<1> DEFINE D == 1..(Len(m) + 1)
           stop == {k \in D : ~IsWord(FirstKeyword(m, k), Options)}
           val == [k \in D |-> k]
           next == [k \in D |-> TrimLeft(m, AfterKeyword(m, k))]
           rank == [k \in D |-> Len(m) + 1 - k]
<1>1. Len(m) \in Nat /\ Len(m) + 1 \in Nat
  OBVIOUS
<1>2. \A k \in D : rank[k] \in 0..(Len(m) + 1)
  BY <1>1
<1>3. \A k \in D \ stop : next[k] \in D /\ rank[next[k]] < rank[k]
  <2>1. ASSUME NEW k \in D, k \notin stop PROVE next[k] \in D /\ next[k] > k
    BY <2>1, NextOption, OptionsAreLetters
  <2> HIDE DEF stop, next
  <2> QED
    BY <1>1, <2>1
<1>4. PICK f : Follows(f, D, stop, val, next)
  <2> HIDE DEF D, stop, val, next, rank
  <2> QED
    BY <1>1, <1>2, <1>3, ChainExists
<1>5. f = [k \in D |-> IF k \in stop THEN val[k] ELSE f[next[k]]]
  BY <1>4 DEF Follows
<1>6. \A k \in D : (IF k \in stop THEN val[k] ELSE f[next[k]])
                   = IF IsWord(FirstKeyword(m, k), Options) THEN f[TrimLeft(m, AfterKeyword(m, k))] ELSE k
  OBVIOUS
<1>7. Targets(f, m)
  <2> HIDE DEF stop, val, next, rank
  <2> QED
    BY <1>5, <1>6 DEF Targets
<1> QED
  BY <1>7

(* What it finds comes no earlier, and no word goes on there.               *)
LEMMA TargetIs ==
  ASSUME NEW m \in Seq(MaskSymbols), NEW f, Targets(f, m), NEW p \in 1..(Len(m) + 1), Apart(m, p)
  PROVE  f[p] \in p..(Len(m) + 1) /\ Apart(m, f[p])
<1> DEFINE S == {k \in 1..(Len(m) + 1) : Apart(m, k) => f[k] \in k..(Len(m) + 1) /\ Apart(m, f[k])}
<1>1. Len(m) \in Nat
  OBVIOUS
<1>2. ASSUME NEW k \in 1..(Len(m) + 1), \A j \in (k + 1)..(Len(m) + 1) : j \in S
      PROVE  k \in S
  <2>1. f[k] = IF IsWord(FirstKeyword(m, k), Options) THEN f[TrimLeft(m, AfterKeyword(m, k))] ELSE k
    BY DEF Targets
  <2>2. CASE IsWord(FirstKeyword(m, k), Options)
    <3>1. PICK e : e = TrimLeft(m, AfterKeyword(m, k))
      OBVIOUS
    <3>2. e \in 1..(Len(m) + 1) /\ e > k /\ Apart(m, e)
      BY <2>2, <3>1, NextOption, OptionsAreLetters
    <3>3. e \in S
      BY <1>1, <1>2, <3>2
    <3> QED
      BY <1>1, <2>1, <2>2, <3>1, <3>2, <3>3
  <2>3. CASE ~IsWord(FirstKeyword(m, k), Options)
    BY <1>1, <2>1, <2>3
  <2> QED
    BY <2>2, <2>3
<1>3. \A k \in 1..(Len(m) + 1) : k \in S
  <2>1. PICK n : n = Len(m) + 1
    OBVIOUS
  <2>2. n \in Nat /\ \A k \in 1..n : (\A j \in (k + 1)..n : j \in S) => k \in S
    BY <1>1, <1>2, <2>1
  <2> HIDE DEF S
  <2> QED
    BY <2>1, <2>2, DownFrom
<1> QED
  BY <1>3

(* The statement EXPLAIN is asked about comes behind EXPLAIN.               *)
LEMMA BodyIs ==
  ASSUME NEW m \in Seq(MaskSymbols), IsWord(FirstKeyword(m, 1), {"EXPLAIN"})
  PROVE  Body(m) \in (First(m, 1) + 1)..(Len(m) + 1) /\ Apart(m, Body(m))
<1>1. PICK p : p = TrimLeft(m, AfterKeyword(m, 1))
  OBVIOUS
<1>2. Len(m) \in Nat /\ 1 \in 1..(Len(m) + 1)
  OBVIOUS
<1>3. p \in 1..(Len(m) + 1) /\ p \in (First(m, 1) + 1)..(Len(m) + 1) /\ Apart(m, p)
  BY <1>1, <1>2, NextOption, OptionsAreLetters
<1>4. PICK a : a = First(m, 1)
  OBVIOUS
<1>5. a \in Nat
  BY <1>2, <1>4, FirstIs
<1>6. Body(m) = ExplainTarget(m, p)
  BY <1>1 DEF Body
<1>7. CASE p <= Len(m) /\ m[p] = "("
  <2>1. ExplainTarget(m, p) = OptionListEnd(m, p)
    BY <1>7 DEF ExplainTarget
  <2>2. p \in 1..Len(m)
    BY <1>2, <1>3, <1>7
  <2>3. OptionListEnd(m, p) \in (p + 1)..(Len(m) + 1) /\ Apart(m, OptionListEnd(m, p))
    BY <2>2, BehindOptions
  <2> QED
    BY <1>2, <1>3, <1>4, <1>5, <1>6, <2>1, <2>3
<1>8. CASE ~(p <= Len(m) /\ m[p] = "(")
  <2> DEFINE f == CHOOSE g : Targets(g, m)
  <2>1. Targets(f, m)
    BY TargetsExists
  <2>2. ExplainTarget(m, p) = f[p]
    BY <1>8 DEF ExplainTarget, Targets, Options
  <2> HIDE DEF f
  <2>3. f[p] \in p..(Len(m) + 1) /\ Apart(m, f[p])
    BY <1>3, <2>1, TargetIs
  <2> QED
    BY <1>2, <1>3, <1>4, <1>5, <1>6, <2>2, <2>3
<1> QED
  BY <1>7, <1>8

(* If that statement begins with a keyword in S, and has no word in T, then *)
(* a word in S comes after the first, with none in T from there on.         *)
LEMMA TargetWords ==
  ASSUME NEW m \in Seq(MaskSymbols), NEW S \in SUBSET WordChars, NEW T \in SUBSET WordChars,
         IsWord(FirstKeyword(m, 1), {"EXPLAIN"}),
         IsWord(FirstKeyword(m, Body(m)), S), ~ContainsWord(m, Body(m), T)
  PROVE  \E k \in 2..Count(m, Len(m)) :
           /\ IsWord(Nth(m, Len(m), k), S)
           /\ \A j \in k..Count(m, Len(m)) : ~IsWord(Nth(m, Len(m), j), T)
<1>1. PICK p : p = Body(m)
  OBVIOUS
<1>2. PICK a : a = First(m, 1)
  OBVIOUS
<1>3. Len(m) \in Nat /\ 1 \in 1..(Len(m) + 1) /\ \A k \in 0..Len(m) : Count(m, k) \in Nat
  BY UpTyped
<1>4. Letter(m, a)
  <2>1. a <= Len(m) /\ m[a] \in {"EXPLAIN"} /\ a \in 1..(Len(m) + 1)
    BY <1>2, <1>3, KeywordIs, OptionsAreLetters, FirstIs
  <2> QED
    BY <1>3, <2>1, OptionsAreLetters DEF Letter
<1>5. a \in 1..Len(m) /\ Count(m, a) = 1
  BY <1>2, <1>4, FirstWord
<1>6. p \in (a + 1)..(Len(m) + 1) /\ Apart(m, p) /\ p \in 1..(Len(m) + 1)
  <2>1. p \in (a + 1)..(Len(m) + 1) /\ Apart(m, p)
    BY <1>1, <1>2, BodyIs
  <2> QED
    BY <1>3, <1>5, <2>1
<1>7. PICK b : b = First(m, p)
  OBVIOUS
<1>8. /\ b \in p..(Len(m) + 1) /\ b \in Nat /\ b <= Len(m) /\ m[b] \in S /\ ~Letter(m, b + 1)
      /\ \A k \in p..Len(m) : k < b => ~Letter(m, k)
  BY <1>1, <1>6, <1>7, FirstIs, KeywordIs
<1>9. b \in 1..Len(m) /\ b - 1 \in a..Len(m) /\ b - 1 \in 0..Len(m)
  BY <1>3, <1>5, <1>6, <1>8
<1>10. Alone(m, b, m[b])
  <2>1. Letter(m, b)
    BY <1>8, <1>9 DEF Letter
  <2>2. ~Letter(m, b - 1)
    <3>1. CASE b = p
      BY <1>6, <2>1, <3>1 DEF Apart
    <3>2. CASE b # p
      <4>1. b - 1 \in p..Len(m) /\ b - 1 < b
        BY <1>3, <1>6, <1>8, <3>2
      <4> QED
        BY <1>8, <4>1
    <3> QED
      BY <3>1, <3>2
  <2> QED
    BY <1>8, <1>9, <2>1, <2>2 DEF Alone
<1>11. PICK k : k = Count(m, b - 1) + 1
  OBVIOUS
<1>12. k \in 1..Count(m, Len(m)) /\ Nth(m, Len(m), k) = <<m[b]>>
  BY <1>10, <1>11, WordsAlone
<1>13. k \in 2..Count(m, Len(m))
  <2>1. a \in 0..Len(m)
    BY <1>3, <1>5
  <2>2. Count(m, a) <= Count(m, b - 1)
    BY <1>9, <2>1, CountGrows
  <2>3. k >= 2
    BY <1>3, <1>5, <1>9, <1>11, <2>2
  <2>4. Count(m, Len(m)) \in Nat
    BY <1>3
  <2> QED
    BY <1>12, <2>3, <2>4
<1>14. ASSUME NEW j \in k..Count(m, Len(m)) PROVE ~IsWord(Nth(m, Len(m), j), T)
  <2>1. SUFFICES ASSUME IsWord(Nth(m, Len(m), j), T) PROVE FALSE
    OBVIOUS
  <2>2. PICK w \in T : Nth(m, Len(m), j) = <<w>>
    BY <2>1 DEF IsWord
  <2>3. j \in 1..Count(m, Len(m))
    <3>1. Count(m, Len(m)) \in Nat
      BY <1>3
    <3> QED
      BY <1>13, <3>1
  <2>4. PICK f \in 1..Len(m) : Alone(m, f, w) /\ j = Count(m, f - 1) + 1
    BY <2>2, <2>3, WordsAlone
  <2>5. f - 1 \in 0..Len(m) /\ f \in 0..Len(m)
    BY <1>3
  <2>6. f >= b
    <3>1. ASSUME f < b PROVE FALSE
      <4>1. b - 1 \in f..Len(m)
        BY <1>3, <1>9, <3>1
      <4>2. Count(m, f) <= Count(m, b - 1)
        BY <2>5, <4>1, CountGrows
      <4>3. Count(m, f) = Count(m, f - 1) + 1
        <5>1. Starts(m, f)
          BY <2>4 DEF Alone, Starts
        <5> QED
          BY <5>1, UpGrows
      <4>4. j < k
        BY <1>3, <1>9, <1>11, <2>4, <2>5, <4>2, <4>3
      <4>5. Count(m, Len(m)) \in Nat
        BY <1>3
      <4> QED
        BY <1>13, <4>4, <4>5
    <3> QED
      BY <1>8, <3>1
  <2>7. f \in p..Len(m)
    BY <1>3, <1>6, <1>8, <2>6
  <2>8. m[f] \in T /\ m[f] = w
    BY <2>4 DEF Alone
  <2>9. f > p => m[f - 1] \notin WordChars
    <3>1. f > p => f - 1 \in 1..Len(m)
      BY <1>3, <1>6, <2>7
    <3> QED
      BY <2>4, <3>1 DEF Alone, Letter
  <2>10. f < Len(m) => m[f + 1] \notin WordChars
    <3>1. f < Len(m) => f + 1 \in 1..Len(m)
      BY <1>3
    <3> QED
      BY <2>4, <3>1 DEF Alone, Letter
  <2>11. ContainsWord(m, p, T)
    BY <2>7, <2>8, <2>9, <2>10 DEF ContainsWord
  <2> QED
    BY <1>1, <2>11
<1> QED
  BY <1>8, <1>12, <1>13, <1>14 DEF IsWord

-----------------------------------------------------------------------------
(* How the text begins                                                      *)

(* What a statement begins with: the first of these symbols.                *)
Stands(t) == {k \in Material(t) : t[k] # "(" /\ Pieces(t)[k] # "dollar"}

(* Of what is before symbol n nothing but brackets and blanks is in the     *)
(* mask m, or its first symbol else is a letter if the text's is.           *)
Leads(m, n, t) == (\A j \in 1..Len(m) : m[j] \in Lead) /\ \A k \in Stands(t) : k >= n

Heads(m, n, t) ==
  \E f \in 1..Len(m), g \in Stands(t) :
    /\ m[f] \notin Lead /\ \A j \in 1..Len(m) : j < f => m[j] \in Lead
    /\ g < n /\ \A k \in Stands(t) : g <= k
    /\ m[f] \in WordChars <=> t[g] \in WordChars

(* While keywords are looked for, the mask begins as what was gone through. *)
HeadInv == stage = "keywords" => Leads(mask, i, text) \/ Heads(mask, i, text)

(* The mask grows by one symbol: one of those in front of the statement, or *)
(* the one that stands for its first.                                       *)
LEMMA HeadGrows ==
  ASSUME NEW m \in Seq(MaskSymbols), NEW t \in Seq(Symbols), NEW n \in Nat, NEW e \in Nat, n < e,
         Leads(m, n, t) \/ Heads(m, n, t), NEW c \in MaskSymbols, NEW w, w = m \o <<c>>,
         \/ c \in Lead /\ \A k \in Stands(t) : k >= n => k >= e
         \/ c \notin Lead /\ n \in Stands(t) /\ (c \in WordChars <=> t[n] \in WordChars)
  PROVE  Leads(w, e, t) \/ Heads(w, e, t)
<1>1. /\ Len(m) \in Nat /\ Len(w) = Len(m) + 1 /\ w[Len(w)] = c
      /\ \A j \in 1..Len(w) : j # Len(w) => j \in 1..Len(m) /\ w[j] = m[j]
      /\ \A j \in 1..Len(m) : j \in 1..Len(w) /\ w[j] = m[j]
  OBVIOUS
<1>2. \A k \in Stands(t) : k \in Nat
  <2>1. Material(t) \subseteq 1..Len(t)
    BY MaterialIs
  <2> QED
    BY <2>1 DEF Stands
<1>3. CASE Heads(m, n, t)
  <2>1. PICK f \in 1..Len(m), g \in Stands(t) :
          /\ m[f] \notin Lead /\ \A j \in 1..Len(m) : j < f => m[j] \in Lead
          /\ g < n /\ \A k \in Stands(t) : g <= k
          /\ m[f] \in WordChars <=> t[g] \in WordChars
    BY <1>3 DEF Heads
  <2>2. f \in 1..Len(w) /\ w[f] = m[f]
    BY <1>1
  <2>3. \A j \in 1..Len(w) : j < f => w[j] \in Lead
    <3>1. ASSUME NEW j \in 1..Len(w), j < f PROVE w[j] \in Lead
      <4>1. j # Len(w)
        BY <1>1, <3>1
      <4> QED
        BY <1>1, <2>1, <3>1, <4>1
    <3> QED
      BY <3>1
  <2>4. g < e
    BY <1>2, <2>1
  <2> QED
    BY <2>1, <2>2, <2>3, <2>4 DEF Heads
<1>4. CASE Leads(m, n, t)
  <2>1. (\A j \in 1..Len(m) : m[j] \in Lead) /\ \A k \in Stands(t) : k >= n
    BY <1>4 DEF Leads
  <2>2. CASE c \in Lead /\ \A k \in Stands(t) : k >= n => k >= e
    <3>1. \A j \in 1..Len(w) : w[j] \in Lead
      BY <1>1, <2>1, <2>2
    <3> QED
      BY <2>1, <2>2, <3>1 DEF Leads
  <2>3. CASE c \notin Lead /\ n \in Stands(t) /\ (c \in WordChars <=> t[n] \in WordChars)
    <3>1. PICK f : f = Len(w)
      OBVIOUS
    <3>2. f \in 1..Len(w) /\ w[f] = c
      BY <1>1, <3>1
    <3>3. \A j \in 1..Len(w) : j < f => w[j] \in Lead
      BY <1>1, <2>1, <3>1
    <3>4. \A k \in Stands(t) : n <= k
      BY <1>2, <2>1
    <3> QED
      BY <2>3, <3>2, <3>3, <3>4 DEF Heads
  <2> QED
    BY <2>2, <2>3
<1> QED
  BY <1>3, <1>4

(* A statement that begins with a letter.                                   *)
Headed(t) ==
  LET first == Min(Stands(t) \cup {Len(t) + 1}) IN first <= Len(t) /\ t[first] \in WordChars

(* When the mask is complete its first keyword begins with a letter if the  *)
(* statement does.                                                          *)
LEMMA HeadIs ==
  ASSUME NEW m \in Seq(MaskSymbols), NEW t \in Seq(Symbols), NEW n \in Nat, n > Len(t),
         Leads(m, n, t) \/ Heads(m, n, t), NEW a, a = First(m, 1)
  PROVE  Letter(m, a) <=> Headed(t)
<1>1. Len(m) \in Nat /\ Len(t) \in Nat /\ 1 \in 1..(Len(m) + 1)
  OBVIOUS
<1>2. /\ a \in 1..(Len(m) + 1) /\ a \in Nat
      /\ \A k \in 1..Len(m) : k < a => m[k] \in Lead
      /\ a <= Len(m) => m[a] \notin Lead
  BY <1>1, FirstIs
<1>3. Stands(t) \subseteq 1..Len(t)
  <2>1. Material(t) \subseteq 1..Len(t)
    BY MaterialIs
  <2> QED
    BY <2>1 DEF Stands
<1>4. PICK first : first = Min(Stands(t) \cup {Len(t) + 1})
  OBVIOUS
<1>5. /\ first \in Stands(t) \cup {Len(t) + 1}
      /\ \A k \in Stands(t) \cup {Len(t) + 1} : first <= k
  <2>1. Stands(t) \cup {Len(t) + 1} \in SUBSET Nat /\ Stands(t) \cup {Len(t) + 1} # {}
    BY <1>1, <1>3
  <2> QED
    BY <1>4, <2>1, MinIsLeast
<1>6. Headed(t) <=> first <= Len(t) /\ t[first] \in WordChars
  BY <1>4 DEF Headed
<1>7. CASE Leads(m, n, t)
  <2>1. Stands(t) = {}
    <3>1. ASSUME NEW k \in Stands(t) PROVE FALSE
      <4>1. k >= n /\ k \in 1..Len(t)
        BY <1>3, <1>7, <3>1 DEF Leads
      <4> QED
        BY <1>1, <4>1
    <3> QED
      BY <3>1
  <2>2. first = Len(t) + 1
    BY <1>5, <2>1
  <2>3. ~(a <= Len(m))
    <3>1. a <= Len(m) => a \in 1..Len(m)
      BY <1>1, <1>2
    <3> QED
      BY <1>2, <1>7, <3>1 DEF Leads
  <2> QED
    BY <1>1, <1>2, <1>6, <2>2, <2>3 DEF Letter
<1>8. CASE Heads(m, n, t)
  <2>1. PICK f \in 1..Len(m), g \in Stands(t) :
          /\ m[f] \notin Lead /\ \A j \in 1..Len(m) : j < f => m[j] \in Lead
          /\ g < n /\ \A k \in Stands(t) : g <= k
          /\ m[f] \in WordChars <=> t[g] \in WordChars
    BY <1>8 DEF Heads
  <2>2. a = f
    <3>1. ~(f < a)
      BY <1>2, <2>1
    <3>2. ~(a < f)
      <4>1. a < f => a \in 1..Len(m) /\ a <= Len(m)
        BY <1>1, <1>2
      <4> QED
        BY <1>2, <2>1, <4>1
    <3> QED
      BY <1>1, <1>2, <3>1, <3>2
  <2>3. first = g /\ g <= Len(t)
    <3>1. g \in 1..Len(t) /\ first <= g
      BY <1>3, <1>5
    <3>2. first # Len(t) + 1
      BY <1>1, <3>1
    <3>3. first \in Stands(t) /\ first \in 1..Len(t)
      BY <1>3, <1>5, <3>2
    <3>4. g <= first
      BY <2>1, <3>3
    <3> QED
      BY <1>1, <3>1, <3>3, <3>4
  <2> QED
    BY <1>6, <2>1, <2>2, <2>3 DEF Letter
<1> QED
  BY <1>7, <1>8

(* What stands before the statement, and what does not begin one.           *)
LEMMA StandsAre ==
  ASSUME NEW t \in Seq(Symbols), NEW k \in 1..Len(t)
  PROVE  /\ Pieces(t)[k] \in {"line", "block", "dollar"} => k \notin Stands(t)
         /\ Pieces(t)[k] \notin {"line", "block", "dollar", "code"} /\ t[k] # "(" => k \in Stands(t)
         /\ Pieces(t)[k] = "code" => (k \in Stands(t) <=> t[k] \notin Lead /\ t[k] # "semi")
<1>1. k \in Material(t) <=> /\ Pieces(t)[k] # "line" /\ Pieces(t)[k] # "block"
                            /\ Pieces(t)[k] = "code" => t[k] \notin Spaces /\ t[k] # "semi"
  BY MaterialIs
<1>2. k \in Stands(t) <=> k \in Material(t) /\ t[k] # "(" /\ Pieces(t)[k] # "dollar"
  BY DEF Stands
<1>3. t[k] \in Lead <=> t[k] = "(" \/ t[k] \in Spaces
  BY DEF Lead
<1> QED
  BY <1>1, <1>2, <1>3

(* The symbols that are written for a piece.                                *)
LEMMA WrittenIs ==
  /\ \A c \in Spaces : c \in Lead /\ c \in MaskSymbols
  /\ Literal \notin Lead /\ Literal \in MaskSymbols /\ Literal \notin WordChars
<1>1. \A c \in Spaces : c \in Lead /\ c \in MaskSymbols
  BY DEF Lead, Spaces, MaskSymbols, Symbols
<1>2. Literal \notin Lead
  BY DEF Lead, Spaces, Literal
<1>3. Literal \in MaskSymbols /\ Literal \notin WordChars
  BY BlanksAreNoLetters DEF Blanks
<1> QED
  BY <1>1, <1>2, <1>3

(* A turn over a comment or what stands between dollars.                    *)
LEMMA SkipHeads ==
  ASSUME Scans, mask \in Seq(MaskSymbols), Leads(mask, i, text) \/ Heads(mask, i, text),
         LineComment \/ BlockComment \/ DollarString
  PROVE  Leads(mask', i', text) \/ Heads(mask', i', text)
<1>1. \E c \in Spaces : /\ mask' = mask \o <<c>>
                             /\ \E p \in {"line", "block", "dollar"} : Jump(p, i')
  <2>1. " " \in Spaces /\ "nl" \in Spaces
    BY DEF Spaces
  <2>2. CASE LineComment
    <3>1. AtLine /\ mask' = mask \o <<"nl">> /\ i' = PastLine
      BY <2>2 DEF LineComment, Write
    <3>2. Jump("line", i')
      BY <3>1, LineJump
    <3> QED
      BY <2>1, <3>1, <3>2
  <2>3. CASE BlockComment
    <3>1. AtBlock /\ mask' = mask \o <<" ">> /\ i' = PastBlock
      BY <2>3 DEF BlockComment, Write
    <3>2. Jump("block", i')
      BY <3>1, BlockJump
    <3> QED
      BY <2>1, <3>1, <3>2
  <2>4. CASE DollarString
    <3>1. AtDollar /\ mask' = mask \o <<" ">> /\ i' = PastDollar
      BY <2>4 DEF DollarString, Write
    <3>2. Jump("dollar", i')
      BY <3>1, DollarJump
    <3> QED
      BY <2>1, <3>1, <3>2
  <2> QED
    BY <2>2, <2>3, <2>4
<1>2. PICK c \in Spaces : /\ mask' = mask \o <<c>>
                               /\ \E p \in {"line", "block", "dollar"} : Jump(p, i')
  BY <1>1
<1>3. PICK p \in {"line", "block", "dollar"} : Jump(p, i')
  BY <1>2
<1>4. PICK e : e = i'
  OBVIOUS
<1>5. i \in Nat /\ i >= 1 /\ N \in Nat /\ N = Len(text) /\ text \in Seq(Symbols) /\ e \in Nat /\ i < e
  <2>1. e \in (i + 2)..(N + 2)
    BY <1>3, <1>4 DEF Jump
  <2>2. i \in Nat /\ i >= 1 /\ N \in Nat /\ N = Len(text) /\ text \in Seq(Symbols)
    BY Steps DEF Scans
  <2>3. e \in Nat /\ i < e
    BY <2>1, <2>2
  <2> QED
    BY <2>2, <2>3
<1>6. \A k \in i..N : k < e => k \notin Stands(text)
  <2>1. \A k \in i..N : k < e => Pieces(text)[k] = p
    BY <1>3, <1>4, JumpCovers
  <2>2. \A k \in i..N : k \in 1..Len(text)
    BY <1>5
  <2> QED
    BY <1>5, <2>1, <2>2, StandsAre
<1>7. \A k \in Stands(text) : k >= i => k >= e
  <2>1. Stands(text) \subseteq 1..N
    BY <1>5, MaterialIs DEF Stands
  <2> QED
    BY <1>5, <1>6, <2>1
<1>8. c \in Lead /\ c \in MaskSymbols
  BY WrittenIs
<1>9. PICK w : w = mask \o <<c>>
  OBVIOUS
<1>10. Leads(w, e, text) \/ Heads(w, e, text)
  BY <1>5, <1>7, <1>8, <1>9, HeadGrows
<1> QED
  BY <1>2, <1>4, <1>9, <1>10

(* A turn over a string or a name.                                          *)
LEMMA LiteralHeads ==
  ASSUME Scans, mask \in Seq(MaskSymbols), Leads(mask, i, text) \/ Heads(mask, i, text),
         \/ String
         \/ Quoted /\ stage # "relations"
  PROVE  Leads(mask', i', text) \/ Heads(mask', i', text)
<1>1. /\ mask' = mask \o <<Literal>> /\ text[i] # "(" /\ text[i] \notin WordChars
      /\ \E p : p \notin {"line", "block", "dollar", "code"} /\ Jump(p, i')
  <2>1. CASE String
    <3>1. Is(i, "'") /\ mask' = mask \o <<Literal>> /\ i' = Closing("'", EscapeString) + 1
      BY <2>1 DEF String, Write
    <3>2. \E p : p \notin {"line", "block", "dollar", "code"} /\ Jump(p, i')
      BY <3>1, StringJumps
    <3>3. text[i] = "'"
      BY <3>1 DEF Is
    <3>4. "'" \notin WordChars /\ "'" # "("
      BY DEF WordChars, IdentifierStart, Keywords
    <3> QED
      BY <3>1, <3>2, <3>3, <3>4, Zenon
  <2>2. CASE Quoted /\ stage # "relations"
    <3>1. Is(i, "\"") /\ mask' = mask \o <<Literal>> /\ i' = Closing("\"", FALSE) + 1
      BY <2>2 DEF Quoted, Write
    <3>2. Jump("name", i')
      BY <3>1, NameJumps
    <3>3. text[i] = "\""
      BY <3>1 DEF Is
    <3>4. "\"" # "("
      OBVIOUS
    <3> QED
      BY <3>1, <3>2, <3>3, <3>4, QuoteIsNoLetter, Zenon
  <2> QED
    BY <2>1, <2>2
<1>2. PICK p : p \notin {"line", "block", "dollar", "code"} /\ Jump(p, i')
  BY <1>1
<1>3. PICK e : e = i'
  OBVIOUS
<1>4. /\ i \in Nat /\ N \in Nat /\ N = Len(text) /\ text \in Seq(Symbols) /\ e \in Nat /\ i < e
      /\ i \in i..N /\ i \in 1..Len(text)
  <2>1. e \in (i + 2)..(N + 2)
    BY <1>2, <1>3 DEF Jump
  <2>2. i \in Nat /\ i >= 1 /\ i <= N /\ N \in Nat /\ N = Len(text) /\ text \in Seq(Symbols)
    BY Steps DEF Scans
  <2>3. e \in Nat /\ i < e /\ i \in i..N /\ i \in 1..Len(text)
    BY <2>1, <2>2
  <2> QED
    BY <2>2, <2>3
<1>5. i \in Stands(text)
  <2>1. Pieces(text)[i] = p
    BY <1>2, <1>3, <1>4, JumpCovers
  <2> QED
    BY <1>1, <1>2, <1>4, <2>1, StandsAre
<1>6. PICK c : c = Literal
  OBVIOUS
<1>7. c \notin Lead /\ c \in MaskSymbols /\ (c \in WordChars <=> text[i] \in WordChars)
  BY <1>1, <1>6, WrittenIs
<1>8. PICK w : w = mask \o <<c>>
  OBVIOUS
<1>9. Leads(w, e, text) \/ Heads(w, e, text)
  BY <1>4, <1>5, <1>7, <1>8, HeadGrows
<1> QED
  BY <1>1, <1>3, <1>6, <1>8, <1>9

(* A turn over one symbol of the code.                                      *)
LEMMA SymbolHeads ==
  ASSUME Scans, mask \in Seq(MaskSymbols), Leads(mask, i, text) \/ Heads(mask, i, text),
         Semicolon \/ Other
  PROVE  Leads(mask', i', text) \/ Heads(mask', i', text)
<1>1. \E c \in MaskSymbols :
        /\ mask' = mask \o <<c>> /\ Pieces(text)[i] = "code"
        /\ \/ c \in Lead /\ text[i] = "semi"
           \/ c = text[i] /\ text[i] # "semi"
  <2>1. CASE Semicolon
    <3>1. Is(i, "semi") /\ mask' = mask \o <<" ">>
      BY <2>1 DEF Semicolon, Write
    <3>2. ~AtLine /\ ~AtBlock /\ ~AtDollar /\ text[i] # "'" /\ text[i] # "\"" /\ text[i] = "semi"
      BY <3>1 DEF AtLine, AtBlock, AtDollar, Pair, Is
    <3>3. Pieces(text)[i] = "code"
      BY <3>2, CodeCovers
    <3>4. " " \in Lead /\ " " \in MaskSymbols
      BY WrittenIs DEF Spaces
    <3> QED
      BY <3>1, <3>2, <3>3, <3>4
  <2>2. CASE Other
    <3>1. /\ mask' = mask \o <<text[i]>> /\ text[i] # "semi"
          /\ ~AtLine /\ ~AtBlock /\ ~AtDollar
          /\ text[i] # "'" /\ text[i] # "\""
      BY <2>2 DEF Other, Write
    <3>2. Pieces(text)[i] = "code"
      BY <3>1, CodeCovers
    <3>3. text[i] \in MaskSymbols
      <4>1. i \in 1..Len(text) /\ text \in Seq(Symbols)
        BY DEF Scans, N
      <4> QED
        BY <4>1 DEF MaskSymbols
    <3> QED
      BY <3>1, <3>2, <3>3
  <2> QED
    BY <2>1, <2>2
<1>2. PICK c \in MaskSymbols :
        /\ mask' = mask \o <<c>> /\ Pieces(text)[i] = "code"
        /\ \/ c \in Lead /\ text[i] = "semi"
           \/ c = text[i] /\ text[i] # "semi"
  BY <1>1
<1>3. PICK e : e = i + 1
  OBVIOUS
<1>4. i' = e
  BY <1>3 DEF Semicolon, Other, Write
<1>5. /\ i \in Nat /\ N \in Nat /\ N = Len(text) /\ text \in Seq(Symbols) /\ e \in Nat /\ i < e
      /\ i \in 1..Len(text)
  BY <1>3, Steps DEF Scans
<1>6. i \in Stands(text) <=> text[i] \notin Lead /\ text[i] # "semi"
  BY <1>2, <1>5, StandsAre
<1>7. ~(i \in Stands(text)) => \A k \in Stands(text) : k >= i => k >= e
  <2>1. Stands(text) \subseteq 1..N
    BY <1>5, MaterialIs DEF Stands
  <2> QED
    BY <1>3, <1>5, <2>1
<1>8. PICK w : w = mask \o <<c>>
  OBVIOUS
<1>9. Leads(w, e, text) \/ Heads(w, e, text)
  <2>1. CASE i \in Stands(text)
    <3>1. c \notin Lead /\ (c \in WordChars <=> text[i] \in WordChars)
      BY <1>2, <1>6, <2>1
    <3> QED
      BY <1>5, <1>8, <2>1, <3>1, HeadGrows
  <2>2. CASE i \notin Stands(text)
    <3>1. c \in Lead
      BY <1>2, <1>6, <2>2
    <3> QED
      BY <1>5, <1>7, <1>8, <2>2, <3>1, HeadGrows
  <2> QED
    BY <2>1, <2>2
<1> QED
  BY <1>2, <1>4, <1>8, <1>9

(* It holds at the start.                                                   *)
LEMMA InitHeadInv == Init => HeadInv
<1> SUFFICES ASSUME Init PROVE Leads(mask, i, text)
  BY DEF HeadInv
<1>1. text \in Seq(Symbols)
  BY GuardScanAssumption DEF Init
<1>2. mask = <<>> /\ i = 1 /\ Len(<<>>) = 0
  BY DEF Init, Begin
<1>3. Stands(text) \subseteq 1..Len(text)
  BY <1>1, MaterialIs DEF Stands
<1>4. Len(text) \in Nat
  BY <1>1
<1> QED
  BY <1>2, <1>3, <1>4 DEF Leads

(* Every step keeps it.                                                     *)
LEMMA NextHeadInv == GuardInv /\ MaskInv /\ HeadInv /\ [Next]_vars => HeadInv'
<1> SUFFICES ASSUME GuardInv, MaskInv, HeadInv, [Next]_vars, stage' = "keywords"
             PROVE  Leads(mask', i', text') \/ Heads(mask', i', text')
  BY DEF HeadInv
<1>1. text \in Seq(Symbols)
  BY DEF GuardInv
<1>2. CASE LineComment \/ BlockComment \/ String \/ Quoted \/ DollarString \/ Semicolon \/ Other
  <2>1. Scanning /\ text' = text /\ stage' = stage
    BY <1>2 DEF LineComment, BlockComment, String, Quoted, DollarString, Semicolon, Other, Write, rest
  <2>2. Scans
    BY <1>1, <2>1, ScansThere DEF GuardInv, Scanning
  <2>3. mask \in Seq(MaskSymbols)
    BY <2>1 DEF MaskInv, Fits, Scanning
  <2>4. Leads(mask, i, text) \/ Heads(mask, i, text)
    BY <2>1 DEF HeadInv
  <2>5. stage # "relations"
    BY <2>1
  <2>6. Leads(mask', i', text) \/ Heads(mask', i', text)
    BY <1>2, <2>2, <2>3, <2>4, <2>5, SkipHeads, LiteralHeads, SymbolHeads
  <2> QED
    BY <2>1, <2>6
<1>3. CASE Masked \/ Validated
  BY <1>3 DEF Masked, Validated
<1>4. CASE UNCHANGED vars
  <2>1. Leads(mask, i, text) \/ Heads(mask, i, text)
    BY <1>4 DEF vars, HeadInv
  <2> QED
    BY <1>4, <2>1 DEF vars
<1> QED
  BY <1>2, <1>3, <1>4 DEF Next
-----------------------------------------------------------------------------
(* The verdict                                                              *)

(* A mask that is complete has the words of what is kept.                   *)
LEMMA MaskWords ==
  ASSUME NEW t, NEW keep, NEW m, NEW n, Fits(m, n, t, keep), n > Len(t)
  PROVE  m \in Seq(MaskSymbols) /\ Up(m, Len(m)) = Words(t, keep)
BY DEF Fits, Level, Up, Words

Explains(t) == WordsOfCode(t) # <<>> /\ WordsOfCode(t)[1] = <<"EXPLAIN">>
Has(words, bad) == \E k \in DOMAIN words : IsWord(words[k], bad)

(* What the first mask decides of the verdict.                              *)
Passes(t) ==
  /\ Headed(t) /\ IsWord(WordsOfCode(t)[1], AllowedStart)
  /\ \A s \in Semicolons(t), m \in Material(t) : m < s
  /\ IF Explains(t)
     THEN \E k \in 2..Len(WordsOfCode(t)) :
            /\ IsWord(WordsOfCode(t)[k], AllowedStart)
            /\ ~Has(SubSeq(WordsOfCode(t), k, Len(WordsOfCode(t))), Forbidden)
     ELSE ~Has(WordsOfCode(t), Forbidden)

(* What the second decides: a relation is named that is restricted.         *)
Restricted(t) == Has(WordsAndNames(t), ForbiddenRelations)

(* The text is gone through again only if it passes.                        *)
VerdictInv ==
  /\ stage = "relations" => Passes(text)
  /\ VerdictFromWords

(* With one statement the count is one.                                     *)
LEMMA OneIsCounted ==
  ASSUME text \in Seq(Symbols), ScanInv, OneStatement
  PROVE  ~(statements > 1)
<1>1. Material(text) \subseteq 1..Len(text) /\ Semicolons(text) \subseteq 1..Len(text) /\ Len(text) \in Nat
  BY MaterialIs
<1>2. Begun(i) = {}
  <2>1. ASSUME NEW m \in Begun(i) PROVE FALSE
    <3>1. PICK s \in Semicolons(text) : s < m
      BY <2>1 DEF Begun
    <3>2. m \in Material(text)
      BY <2>1 DEF Begun
    <3>3. m < s
      BY <3>1, <3>2 DEF OneStatement
    <3>4. m \in Nat /\ s \in Nat
      BY <1>1, <3>1, <3>2
    <3> QED
      BY <3>1, <3>3, <3>4
  <2> QED
    BY <2>1
<1>3. Cardinality(Begun(i)) = 0
  BY <1>2, FS_EmptySet
<1>4. statements = 1 + Cardinality(Begun(i))
  BY DEF ScanInv, CountInv
<1> QED
  BY <1>3, <1>4

(* A word in a sequence of words, and in the rest of it.                    *)
LEMMA HasIs ==
  ASSUME NEW words \in Seq(Seq(WordChars)), NEW S
  PROVE  /\ Has(words, S) <=> \E j \in 1..Len(words) : IsWord(words[j], S)
         /\ \A k \in 1..Len(words) :
              (\A j \in k..Len(words) : ~IsWord(words[j], S)) => ~Has(SubSeq(words, k, Len(words)), S)
<1>1. DOMAIN words = 1..Len(words) /\ Len(words) \in Nat
  OBVIOUS
<1>2. Has(words, S) <=> \E j \in 1..Len(words) : IsWord(words[j], S)
  BY <1>1 DEF Has
<1>3. ASSUME NEW k \in 1..Len(words), \A j \in k..Len(words) : ~IsWord(words[j], S)
      PROVE  ~Has(SubSeq(words, k, Len(words)), S)
  <2>1. PICK n : n = Len(words)
    OBVIOUS
  <2>2. PICK later : later = SubSeq(words, k, n)
    OBVIOUS
  <2>3. k \in Nat /\ n \in Nat /\ 1 <= k /\ k <= n + 1 /\ n <= Len(words)
    BY <1>1, <2>1
  <2>4. /\ later \in Seq(Seq(WordChars)) /\ Len(later) = n - k + 1
        /\ \A j \in 1..(n - k + 1) : later[j] = words[k + j - 1]
    BY <2>2, <2>3
  <2>5. DOMAIN later = 1..(n - k + 1)
    BY <2>4
  <2>6. \A j \in 1..(n - k + 1) : k + j - 1 \in k..Len(words)
    BY <2>1, <2>3
  <2>7. \A j \in DOMAIN later : ~IsWord(later[j], S)
    BY <1>3, <2>4, <2>5, <2>6
  <2> QED
    BY <2>1, <2>2, <2>7 DEF Has
<1> QED
  BY <1>2, <1>3

(* The mask m has the words of t, and begins as t does.                     *)
Shows(m, t) ==
  /\ m \in Seq(MaskSymbols)
  /\ Up(m, Len(m)) = WordsOfCode(t)
  /\ Letter(m, First(m, 1)) <=> Headed(t)

(* The words of the text are those of the mask.                             *)
LEMMA WordsShown ==
  ASSUME NEW m, NEW t, Shows(m, t)
  PROVE  /\ WordsOfCode(t) \in Seq(Seq(WordChars)) /\ Len(WordsOfCode(t)) = Count(m, Len(m))
         /\ Len(WordsOfCode(t)) \in Nat
         /\ \A k : WordsOfCode(t)[k] = Nth(m, Len(m), k)
         /\ Headed(t) => /\ Len(WordsOfCode(t)) >= 1 /\ WordsOfCode(t) # <<>>
                         /\ \A S \in SUBSET WordChars :
                              IsWord(WordsOfCode(t)[1], S) <=> IsWord(FirstKeyword(m, 1), S)
         /\ \A S \in SUBSET WordChars : IsWord(FirstKeyword(m, 1), S) => Headed(t)
<1>1. m \in Seq(MaskSymbols) /\ Len(m) \in Nat /\ 1 \in 1..(Len(m) + 1) /\ Len(m) \in 0..Len(m)
  BY DEF Shows
<1>2. PICK words : words = WordsOfCode(t)
  OBVIOUS
<1>3. words = Up(m, Len(m)) /\ (Letter(m, First(m, 1)) <=> Headed(t))
  BY <1>2 DEF Shows
<1>4. words \in Seq(Seq(WordChars)) /\ Len(words) = Count(m, Len(m)) /\ Len(words) \in Nat
  BY <1>1, <1>3, UpTyped DEF Count
<1>5. \A k : words[k] = Nth(m, Len(m), k)
  BY <1>3 DEF Nth
<1>6. ASSUME Headed(t), NEW S \in SUBSET WordChars
      PROVE  Len(words) >= 1 /\ (IsWord(words[1], S) <=> IsWord(FirstKeyword(m, 1), S))
  <2>1. Letter(m, First(m, 1))
    BY <1>3, <1>6
  <2> QED
    BY <1>1, <1>4, <1>5, <2>1, FirstWord
<1>7. Headed(t) => Len(words) >= 1 /\ words # <<>>
  <2>1. {} \in SUBSET WordChars /\ Len(<<>>) = 0
    OBVIOUS
  <2> QED
    BY <1>6, <2>1
<1>8. ASSUME NEW S \in SUBSET WordChars, IsWord(FirstKeyword(m, 1), S) PROVE Headed(t)
  <2>1. PICK a : a = First(m, 1)
    OBVIOUS
  <2>2. a <= Len(m) /\ m[a] \in S /\ a \in 1..(Len(m) + 1)
    BY <1>1, <1>8, <2>1, KeywordIs, FirstIs
  <2>3. Letter(m, a)
    BY <1>1, <2>2 DEF Letter
  <2> QED
    BY <1>3, <2>1, <2>3
<1> QED
  BY <1>2, <1>4, <1>5, <1>6, <1>7, <1>8

(* A word is EXPLAIN.                                                       *)
LEMMA ExplainIs ==
  ASSUME NEW word
  PROVE  IsWord(word, {"EXPLAIN"}) <=> word = <<"EXPLAIN">>
BY DEF IsWord

(* What is not refused passes; and of what does not begin with EXPLAIN what *)
(* passes is not refused.                                                   *)
LEMMA RefusalIs ==
  ASSUME text \in Seq(Symbols), ScanInv, i > N, NEW m, Shows(m, text)
  PROVE  /\ Refusal(m, statements) = "" => Passes(text)
         /\ ~Explains(text) /\ Passes(text) => Refusal(m, statements) = ""
<1> DEFINE words == WordsOfCode(text)
           Explain == {"EXPLAIN"}
<1>0. /\ words \in Seq(Seq(WordChars)) /\ Len(words) \in Nat
      /\ Len(words) = Count(m, Len(m)) /\ \A k : words[k] = Nth(m, Len(m), k)
  BY WordsShown
<1>1. m \in Seq(MaskSymbols) /\ Len(m) \in Nat
  BY DEF Shows
<1>2. /\ AllowedStart \in SUBSET WordChars /\ Forbidden \in SUBSET WordChars
      /\ Explain \in SUBSET WordChars
  BY OptionsAreLetters
<1>3. Explains(text) <=> words # <<>> /\ IsWord(words[1], Explain)
  BY ExplainIs DEF Explains
<1>4. ~(statements > 1) <=> OneStatement
  BY CountTellsOne, OneIsCounted
<1>5. OneStatement <=> \A s \in Semicolons(text), x \in Material(text) : x < s
  BY DEF OneStatement
<1>6. IsWord(FirstKeyword(m, 1), Explain) => Explains(text)
  BY <1>2, <1>3, WordsShown
<1>7. Headed(text) /\ Explains(text) => IsWord(FirstKeyword(m, 1), Explain)
  BY <1>2, <1>3, WordsShown
<1>8. ~IsWord(FirstKeyword(m, 1), Explain) => Body(m) = 1
  BY DEF Body
<1>9. ContainsWord(m, 1, Forbidden) <=> Has(words, Forbidden)
  <2>1. Has(words, Forbidden) <=> \E j \in 1..Len(words) : IsWord(words[j], Forbidden)
    BY <1>0, HasIs
  <2>2. ContainsWord(m, 1, Forbidden)
          <=> \E j \in 1..Count(m, Len(m)) : IsWord(Nth(m, Len(m), j), Forbidden)
    BY <1>1, <1>2, WordsContained
  <2> HIDE DEF words
  <2>3. (\E j \in 1..Len(words) : IsWord(words[j], Forbidden))
          <=> \E j \in 1..Count(m, Len(m)) : IsWord(Nth(m, Len(m), j), Forbidden)
    BY <1>0
  <2> QED
    BY <2>1, <2>2, <2>3
<1>10. ASSUME Refusal(m, statements) = "" PROVE Passes(text)
  <2>1. /\ OneStatement /\ IsWord(FirstKeyword(m, 1), AllowedStart)
        /\ IsWord(FirstKeyword(m, Body(m)), AllowedStart) /\ ~ContainsWord(m, Body(m), Forbidden)
    BY <1>4, <1>10 DEF Refusal
  <2>2. Headed(text) /\ IsWord(words[1], AllowedStart)
    BY <1>2, <2>1, WordsShown
  <2>3. CASE Explains(text)
    <3>1. IsWord(FirstKeyword(m, 1), Explain)
      BY <1>7, <2>2, <2>3
    <3>2. PICK k \in 2..Count(m, Len(m)) :
            /\ IsWord(Nth(m, Len(m), k), AllowedStart)
            /\ \A j \in k..Count(m, Len(m)) : ~IsWord(Nth(m, Len(m), j), Forbidden)
      BY <1>1, <1>2, <2>1, <3>1, TargetWords
    <3>3. k \in 2..Len(words) /\ k \in 1..Len(words) /\ IsWord(words[k], AllowedStart)
      BY <1>0, <3>2
    <3>4. \A j \in k..Len(words) : ~IsWord(words[j], Forbidden)
      BY <1>0, <3>2
    <3>5. ~Has(SubSeq(words, k, Len(words)), Forbidden)
      BY <1>0, <3>3, <3>4, HasIs
    <3> QED
      BY <1>5, <2>1, <2>2, <2>3, <3>3, <3>5 DEF Passes
  <2>4. CASE ~Explains(text)
    <3>1. ~Has(words, Forbidden)
      BY <1>6, <1>8, <1>9, <2>1, <2>4
    <3> QED
      BY <1>5, <2>1, <2>2, <2>4, <3>1 DEF Passes
  <2> QED
    BY <2>3, <2>4
<1>11. ASSUME ~Explains(text), Passes(text) PROVE Refusal(m, statements) = ""
  <2>1. Headed(text) /\ IsWord(words[1], AllowedStart) /\ OneStatement /\ ~Has(words, Forbidden)
    BY <1>5, <1>11 DEF Passes
  <2>2. IsWord(FirstKeyword(m, 1), AllowedStart)
    BY <1>2, <2>1, WordsShown
  <2>3. Body(m) = 1 /\ ~ContainsWord(m, 1, Forbidden)
    BY <1>6, <1>8, <1>9, <1>11, <2>1
  <2>4. ~(TrimLeft(m, 1) > Len(m))
    <3>1. PICK a : a = First(m, 1)
      OBVIOUS
    <3>2. a \in 1..Len(m) /\ m[a] \in WordChars
      BY <2>1, <3>1 DEF Shows, Letter
    <3>3. m[a] \notin Spaces
      BY <3>2, LeadIsNoLetter
    <3>4. PICK b : b = TrimLeft(m, 1)
      OBVIOUS
    <3>5. b = Ahead(m, 1, Spaces) /\ 1 \in 1..(Len(m) + 1)
      BY <1>1, <3>4 DEF TrimLeft, Ahead
    <3>6. b \in Nat /\ \A k \in 1..Len(m) : k < b => m[k] \in Spaces
      BY <1>1, <3>5, AheadIs
    <3>7. ~(a < b)
      BY <3>2, <3>3, <3>6
    <3> QED
      BY <1>1, <3>2, <3>4, <3>6, <3>7
  <2> QED
    BY <1>4, <2>1, <2>2, <2>3, <2>4 DEF Refusal
<1> QED
  BY <1>10, <1>11

(* The verdict, from what passes and what the second mask has.              *)
LEMMA VerdictIs ==
  VerdictFromWords <=>
    (stage = "done" => IF Explains(text) THEN verdict = "accepted" => Passes(text) /\ ~Restricted(text)
                       ELSE verdict = "accepted" <=> Passes(text) /\ ~Restricted(text))
<1> DEFINE words == WordsOfCode(text)
           sound == /\ Headed(text) /\ IsWord(words[1], AllowedStart)
                    /\ \A s \in Semicolons(text), m \in Material(text) : m < s
                    /\ ~Restricted(text)
<1>1. VerdictFromWords <=>
        (stage = "done" =>
           IF Explains(text)
           THEN verdict = "accepted" =>
                  /\ sound
                  /\ \E k \in 2..Len(words) : /\ IsWord(words[k], AllowedStart)
                                              /\ ~Has(SubSeq(words, k, Len(words)), Forbidden)
           ELSE verdict = "accepted" <=> sound /\ ~Has(words, Forbidden))
  BY DEF VerdictFromWords, Explains, Headed, Stands, Has, Restricted, N
<1>2. Explains(text) => (Passes(text) /\ ~Restricted(text) <=>
                  /\ sound
                  /\ \E k \in 2..Len(words) : /\ IsWord(words[k], AllowedStart)
                                              /\ ~Has(SubSeq(words, k, Len(words)), Forbidden))
  BY DEF Passes
<1>3. ~Explains(text) => (Passes(text) /\ ~Restricted(text) <=> sound /\ ~Has(words, Forbidden))
  BY DEF Passes
<1> HIDE DEF sound, words
<1> QED
  BY <1>1, <1>2, <1>3

(* It holds at the start.                                                   *)
LEMMA InitVerdictInv == Init => VerdictInv
BY VerdictIs DEF Init, VerdictInv

(* Every step keeps it.                                                     *)
LEMMA NextVerdictInv == GuardInv /\ MaskInv /\ HeadInv /\ VerdictInv /\ [Next]_vars => VerdictInv'
<1> SUFFICES ASSUME GuardInv, MaskInv, HeadInv, VerdictInv, [Next]_vars PROVE VerdictInv'
  OBVIOUS
<1>1. text \in Seq(Symbols) /\ N = Len(text)
  BY DEF GuardInv, N
<1>2. (VerdictFromWords <=>
         (stage = "done" => IF Explains(text) THEN verdict = "accepted" => Passes(text) /\ ~Restricted(text)
                            ELSE verdict = "accepted" <=> Passes(text) /\ ~Restricted(text)))'
  BY VerdictIs, PTL
<1>3. CASE LineComment \/ BlockComment \/ String \/ Quoted \/ DollarString \/ Semicolon \/ Other
  <2>1. Scanning /\ text' = text /\ stage' = stage
    BY <1>3 DEF LineComment, BlockComment, String, Quoted, DollarString, Semicolon, Other, Write, rest
  <2>2. stage' # "done"
    BY <2>1 DEF Scanning
  <2> QED
    BY <1>2, <2>1, <2>2 DEF VerdictInv
<1>4. CASE Masked
  <2>1. /\ stage = "keywords" /\ i > N /\ text' = text /\ verdict' = Refusal(mask, statements)
        /\ stage' = IF verdict' = "" THEN "relations" ELSE "done"
    BY <1>4 DEF Masked
  <2>2. ScanInv /\ Fits(mask, i, text, KeptIn(text, "keywords")) /\ (Leads(mask, i, text) \/ Heads(mask, i, text))
    BY <2>1 DEF GuardInv, MaskInv, HeadInv
  <2>3. Shows(mask, text)
    <3>1. mask \in Seq(MaskSymbols) /\ Up(mask, Len(mask)) = WordsOfCode(text)
      BY <1>1, <2>1, <2>2, MaskWords, WordsKept
    <3>2. i \in Nat
      BY <2>2 DEF ScanInv, PlaceInv
    <3>3. Letter(mask, First(mask, 1)) <=> Headed(text)
      BY <1>1, <2>1, <2>2, <3>1, <3>2, HeadIs
    <3> QED
      BY <3>1, <3>3 DEF Shows
  <2>4. /\ verdict' = "" => Passes(text)
        /\ ~Explains(text) /\ Passes(text) => verdict' = ""
        /\ verdict' # "accepted"
    BY <1>1, <2>1, <2>2, <2>3, RefusalIs, Refusals
  <2> QED
    BY <1>2, <2>1, <2>4 DEF VerdictInv
<1>5. CASE Validated
  <2>1. /\ stage = "relations" /\ i > N /\ text' = text /\ stage' = "done"
        /\ verdict' = IF ContainsWord(mask, 1, ForbiddenRelations) THEN "relation" ELSE "accepted"
    BY <1>5 DEF Validated
  <2>2. Passes(text) /\ Fits(mask, i, text, KeptIn(text, "relations"))
    BY <2>1 DEF VerdictInv, MaskInv
  <2>3. ContainsWord(mask, 1, ForbiddenRelations) <=> Restricted(text)
    <3>1. mask \in Seq(MaskSymbols) /\ Up(mask, Len(mask)) = WordsAndNames(text)
      BY <1>1, <2>1, <2>2, MaskWords, WordsKept
    <3>2. PICK words : words = WordsAndNames(text)
      OBVIOUS
    <3>3. words \in Seq(Seq(WordChars)) /\ Len(words) = Count(mask, Len(mask))
      <4>1. Len(mask) \in 0..Len(mask)
        BY <3>1
      <4> QED
        BY <3>1, <3>2, <4>1, UpTyped DEF Count
    <3>4. \A j : words[j] = Nth(mask, Len(mask), j)
      BY <3>1, <3>2 DEF Nth
    <3>5. Restricted(text) <=> \E j \in 1..Len(words) : IsWord(words[j], ForbiddenRelations)
      BY <3>2, <3>3, HasIs DEF Restricted
    <3> QED
      BY <3>1, <3>3, <3>4, <3>5, WordsContained, OptionsAreLetters
  <2> QED
    BY <1>2, <2>1, <2>2, <2>3 DEF VerdictInv
<1>6. CASE UNCHANGED vars
  <2>1. text' = text /\ stage' = stage /\ verdict' = verdict
    BY <1>6 DEF vars
  <2>2. VerdictFromWords
    BY DEF VerdictInv
  <2>3. (stage = "done" => IF Explains(text) THEN verdict = "accepted" => Passes(text) /\ ~Restricted(text)
                           ELSE verdict = "accepted" <=> Passes(text) /\ ~Restricted(text))
    BY <2>2, VerdictIs
  <2> QED
    BY <1>2, <2>1, <2>3 DEF VerdictInv
<1> QED
  BY <1>3, <1>4, <1>5, <1>6 DEF Next

(* The verdict is that of the words of the code, for texts of any length:   *)
(* what is in comments and literals never decides whether a text is run.    *)
THEOREM VerdictIsOfWords == Spec => []VerdictFromWords
<1>1. Spec => []MaskInv
  BY Invariance, InitMaskInv, NextMaskInv, PTL DEF Spec
<1>2. Spec => []HeadInv
  BY <1>1, Invariance, InitHeadInv, NextHeadInv, PTL DEF Spec
<1>3. Spec => []VerdictInv
  BY <1>1, <1>2, Invariance, InitVerdictInv, NextVerdictInv, PTL DEF Spec
<1>4. VerdictInv => VerdictFromWords
  BY DEF VerdictInv
<1> QED
  BY <1>3, <1>4, PTL

-----------------------------------------------------------------------------
(* The end of the loop                                                      *)

(* What is left of the two passes over the text, in symbols at most.        *)
Left == IF stage = "done" THEN 0 ELSE (IF stage = "keywords" THEN N + 3 ELSE 0) + (N + 3 - i)

(* No turn goes far beyond the end of the text.                             *)
EndInv == stage # "done" => i \in Nat /\ i >= 1 /\ i <= N + 2

(* Every turn goes on by a symbol at least.                                 *)
LEMMA TurnMoves ==
  ASSUME Scans, LineComment \/ BlockComment \/ String \/ Quoted \/ DollarString \/ Semicolon \/ Other
  PROVE  i' \in Nat /\ i' > i /\ i' <= N + 2
<1>1. N \in Nat /\ i \in Nat /\ i >= 1 /\ i <= N
  BY Steps
<1>2. CASE Semicolon \/ Other
  <2>1. PICK e : e = i + 1
    OBVIOUS
  <2>2. i' = e
    BY <1>2, <2>1 DEF Semicolon, Other, Write
  <2>3. e \in Nat /\ e > i /\ e <= N + 2
    BY <1>1, <2>1
  <2> QED
    BY <2>2, <2>3
<1>3. CASE LineComment \/ BlockComment \/ String \/ Quoted \/ DollarString
  <2>1. \E p : Jump(p, i')
    <3>1. CASE LineComment
      BY <3>1, LineJump DEF LineComment, Write
    <3>2. CASE BlockComment
      BY <3>2, BlockJump DEF BlockComment, Write
    <3>3. CASE String
      <4>1. Is(i, "'") /\ i' = Closing("'", EscapeString) + 1
        BY <3>3 DEF String, Write
      <4> QED
        BY <4>1, StringJumps
    <3>4. CASE Quoted
      <4>1. Is(i, "\"") /\ i' = Closing("\"", FALSE) + 1
        BY <3>4 DEF Quoted, Write
      <4> QED
        BY <4>1, NameJumps
    <3>5. CASE DollarString
      BY <3>5, DollarJump DEF DollarString, Write
    <3> QED
      BY <1>3, <3>1, <3>2, <3>3, <3>4, <3>5
  <2>2. PICK e : e = i'
    OBVIOUS
  <2>3. e \in (i + 2)..(N + 2)
    BY <2>1, <2>2 DEF Jump
  <2>4. e \in Nat /\ e > i /\ e <= N + 2
    BY <1>1, <2>3
  <2> QED
    BY <2>2, <2>4
<1> QED
  BY <1>2, <1>3

(* Every step leaves less.                                                  *)
LEMMA StepLeavesLess ==
  GuardInv /\ EndInv /\ [Next]_vars => EndInv' /\ (Left' < Left \/ UNCHANGED vars)
<1> SUFFICES ASSUME GuardInv, EndInv, [Next]_vars
             PROVE  EndInv' /\ (Left' < Left \/ UNCHANGED vars)
  OBVIOUS
<1>1. text \in Seq(Symbols) /\ N \in Nat
  <2>1. text \in Seq(Symbols)
    BY DEF GuardInv
  <2> QED
    BY <2>1 DEF N
<1>2. PICK j : j = i'
  OBVIOUS
<1>3. PICK n : n = N
  OBVIOUS
<1>4. CASE LineComment \/ BlockComment \/ String \/ Quoted \/ DollarString \/ Semicolon \/ Other
  <2>1. Scanning /\ text' = text /\ stage' = stage
    BY <1>4 DEF LineComment, BlockComment, String, Quoted, DollarString, Semicolon, Other, Write, rest
  <2>2. Scans
    BY <1>1, <2>1, ScansThere DEF GuardInv, Scanning
  <2>3. j \in Nat /\ j > i /\ j <= n + 2 /\ i \in Nat /\ i >= 1 /\ n \in Nat
    BY <1>2, <1>3, <1>4, <2>2, Steps, TurnMoves
  <2>4. N' = n /\ stage # "done" /\ stage' # "done"
    BY <1>3, <2>1 DEF N, Scanning
  <2>5. EndInv'
    BY <1>2, <2>3, <2>4 DEF EndInv
  <2>6. Left = (IF stage = "keywords" THEN n + 3 ELSE 0) + (n + 3 - i)
    BY <1>3, <2>4 DEF Left
  <2>7. Left' = (IF stage = "keywords" THEN n + 3 ELSE 0) + (n + 3 - j)
    BY <1>2, <2>1, <2>4 DEF Left
  <2>8. Left' < Left
    BY <2>3, <2>6, <2>7
  <2> QED
    BY <2>5, <2>8
<1>5. CASE Masked \/ Validated
  <2>1. /\ stage # "done" /\ text' = text
        /\ stage' = "done" \/ (stage = "keywords" /\ stage' = "relations" /\ j = 1)
    BY <1>2, <1>5 DEF Masked, Validated
  <2>2. i \in Nat /\ i >= 1 /\ i <= n + 2 /\ n \in Nat /\ N' = n
    BY <1>1, <1>3, <2>1 DEF EndInv, N
  <2>3. Left = (IF stage = "keywords" THEN n + 3 ELSE 0) + (n + 3 - i)
    BY <1>3, <2>1 DEF Left
  <2>4. CASE stage' = "done"
    <3>1. Left' = 0 /\ EndInv'
      BY <2>4 DEF Left, EndInv
    <3> QED
      BY <2>2, <2>3, <3>1
  <2>5. CASE stage = "keywords" /\ stage' = "relations" /\ j = 1
    <3>1. Left' = n + 3 - 1 /\ EndInv'
      BY <1>2, <2>2, <2>5 DEF Left, EndInv
    <3> QED
      BY <2>2, <2>3, <2>5, <3>1
  <2> QED
    BY <2>1, <2>4, <2>5
<1>6. CASE UNCHANGED vars
  BY <1>6 DEF vars, EndInv, N
<1> QED
  BY <1>4, <1>5, <1>6 DEF Next

(* The guard comes to a verdict on every text: each turn of the loop leaves *)
(* less of the two passes, so there are at most 2 N + 5 steps, whatever     *)
(* comments and literals are left open.                                     *)
THEOREM ScanComesToAnEnd == Spec => [](Left \in Nat) /\ [][Left' < Left]_vars
<1>1. Init => EndInv
  <2> SUFFICES ASSUME Init PROVE EndInv
    OBVIOUS
  <2>1. i = 1 /\ text \in Seq(Symbols)
    BY GuardScanAssumption DEF Init, Begin
  <2>2. N \in Nat
    BY <2>1 DEF N
  <2> QED
    BY <2>1, <2>2 DEF EndInv
<1>2. Spec => []EndInv
  BY <1>1, Invariance, StepLeavesLess, PTL DEF Spec
<1>3. GuardInv /\ EndInv => Left \in Nat
  <2> SUFFICES ASSUME GuardInv, EndInv PROVE Left \in Nat
    OBVIOUS
  <2>1. N \in Nat
    <3>1. text \in Seq(Symbols)
      BY DEF GuardInv
    <3> QED
      BY <3>1 DEF N
  <2> QED
    BY <2>1 DEF EndInv, Left
<1>4. GuardInv /\ EndInv /\ [Next]_vars => [Left' < Left]_vars
  BY StepLeavesLess
<1> QED
  BY <1>2, <1>3, <1>4, Invariance, PTL DEF Spec
=============================================================================
