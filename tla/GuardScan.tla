------------------------------ MODULE GuardScan ------------------------------
(***************************************************************************)
(* The read-only guard in front of every query (internal/guard): maskSQL    *)
(* goes through the text and blanks comments and literals, Validate looks   *)
(* at the words that are left, and PrepareCount cuts what follows the       *)
(* statement.                                                               *)
(*                                                                         *)
(* A text is a sequence of symbols: single characters and, where only the   *)
(* word matters, whole keywords, which behave as letters that stand next to *)
(* one another; "nl" is a newline and "semi" a semicolon.  A carriage       *)
(* return is not among the symbols: maskSQL takes it for a part of the      *)
(* comment it is in, the lexer of PostgreSQL for the end of that comment.   *)
(* Each turn of the loop of maskSQL is one step.                            *)
(***************************************************************************)
EXTENDS Integers, Sequences, FiniteSetsExt, SequencesExt

CONSTANT Texts    \* the texts that are checked

Spaces == {" ", "nl"}
Keywords == {"SELECT", "EXPLAIN", "ANALYZE", "VERBOSE", "DO", "PG_SHADOW"}
IdentifierStart == {"a", "e"} \cup Keywords
WordChars == IdentifierStart \cup {"1"}
Symbols == WordChars \cup Spaces \cup {"-", "/", "*", "'", "\"", "$", "semi", "\\", "(", ")"}

AllowedStart == {"SELECT", "EXPLAIN"}
Forbidden == {"ANALYZE", "DO"}
ForbiddenRelations == {"PG_SHADOW"}

ASSUME GuardScanAssumption == Texts \subseteq Seq(Symbols)

VARIABLES
  text,
  stage,       \* "keywords", "relations": the mode of the mask; then "done"
  i,           \* the next symbol
  mask,        \* what is written so far; a literal of any length is "x"
  statements, sawCode, pending,
  trailing,    \* where the semicolons at the end begin, or 0
  keywordMask, \* the first of the two masks
  verdict,     \* "" until it is known
  count        \* what PrepareCount makes of the text

vars == <<text, stage, i, mask, statements, sawCode, pending, trailing, keywordMask, verdict, count>>

Literal == "\"x\""
N == Len(text)
Is(k, c) == k \in 1..N /\ text[k] = c
Pair(k, c, d) == Is(k, c) /\ Is(k + 1, d)

Begin ==
  /\ i = 1
  /\ mask = <<>>
  /\ statements = 1 /\ sawCode = TRUE /\ pending = FALSE /\ trailing = 0

Init ==
  /\ text \in Texts
  /\ stage = "keywords"
  /\ Begin
  /\ keywordMask = <<>> /\ verdict = "" /\ count = <<>>

-----------------------------------------------------------------------------
(* Where the pieces end                                                     *)

(* Just past the newline, or past the end.                                  *)
PastLine == Min({k \in i..N : text[k] = "nl"} \cup {N + 1}) + 1

(* Mutant of PastBlock: a comment ends at the first end of one.             *)
PastFirstEnd == Min({k + 2 : k \in {k \in (i + 2)..N : Pair(k, "*", "/")}} \cup {N + 1})

(* Comments nest: from a symbol and the depth it is at.                     *)
PastBlock ==
  LET past[at \in (1..(N + 1)) \X Nat] ==
        LET k == at[1]
            depth == at[2]
        IN  IF k > N \/ depth = 0 THEN k
            ELSE IF Pair(k, "/", "*") THEN past[<<k + 2, depth + 1>>]
            ELSE IF Pair(k, "*", "/") THEN past[<<k + 2, depth - 1>>]
            ELSE past[<<k + 1, depth>>]
  IN  past[<<i + 2, 1>>]

(* The closing quote: not one that is doubled or, in E'...', escaped.       *)
Closing(quote, escapes) ==
  LET closing[k \in 1..(N + 1)] ==
        IF k > N THEN N + 1
        ELSE IF escapes /\ text[k] = "\\" /\ k < N THEN closing[k + 2]
        ELSE IF text[k] # quote THEN closing[k + 1]
        ELSE IF Is(k + 1, quote) THEN closing[k + 2] ELSE k
  IN  closing[i + 1]

EscapeString == Is(i - 1, "e") /\ ~(i > 2 /\ text[i - 2] \in WordChars)

(* The end of the tag that begins here: $$ or $word$, not within a word.    *)
TagEnds ==
  IF i > 1 /\ text[i - 1] \in WordChars \cup {"$"} THEN {}
  ELSE {k \in (i + 1)..N : /\ text[k] = "$"
                           /\ \A j \in (i + 1)..(k - 1) : text[j] \in WordChars
                           /\ k > i + 1 => text[i + 1] \in IdentifierStart}

(* Past the same tag once more.                                             *)
PastDollar ==
  LET tag == SubSeq(text, i, Min(TagEnds))
      from == i + Len(tag)
  IN  Min({k + Len(tag) : k \in {k \in from..(N + 1 - Len(tag)) : SubSeq(text, k, k + Len(tag) - 1) = tag}}
          \cup {N + 2})

-----------------------------------------------------------------------------
(* One turn of the loop                                                     *)

Scanning == stage # "done" /\ i <= N
rest == <<text, stage, keywordMask, verdict, count>>

Write(symbols, past) ==
  /\ mask' = mask \o symbols
  /\ i' = past
  /\ UNCHANGED rest

(* There is something after the semicolons: they ended a statement.         *)
MarkCode ==
  /\ statements' = IF pending THEN statements + 1 ELSE statements
  /\ trailing' = IF pending THEN 0 ELSE trailing
  /\ pending' = FALSE
  /\ sawCode' = TRUE

NoMark == UNCHANGED <<statements, sawCode, pending, trailing>>

AtLine == Pair(i, "-", "-")
AtBlock == Pair(i, "/", "*")
AtDollar == Is(i, "$") /\ TagEnds # {}

LineComment == Scanning /\ AtLine /\ Write(<<"nl">>, PastLine) /\ NoMark
BlockComment == Scanning /\ AtBlock /\ Write(<<" ">>, PastBlock) /\ NoMark
String == Scanning /\ Is(i, "'") /\ Write(<<Literal>>, Closing("'", EscapeString) + 1) /\ MarkCode
DollarString == Scanning /\ AtDollar /\ Write(<<" ">>, PastDollar) /\ MarkCode

(* The name in quotes is kept for the search for relations.                 *)
Quoted ==
  /\ Scanning
  /\ Is(i, "\"")
  /\ LET end == Closing("\"", FALSE)
         name == IF stage = "relations" THEN <<" ">> \o SubSeq(text, i + 1, end - 1) \o <<" ">> ELSE <<Literal>>
     IN  Write(name, end + 1)
  /\ MarkCode

(* Mutant of Trailing: the cut is at the last semicolon.                    *)
TrailingLast == i

(* The cut is at the first of the semicolons after a statement.             *)
Trailing == IF sawCode THEN i ELSE trailing

Semicolon ==
  /\ Scanning
  /\ Is(i, "semi")
  /\ Write(<<" ">>, i + 1)
  /\ pending' = (pending \/ sawCode)
  /\ trailing' = Trailing
  /\ sawCode' = FALSE
  /\ UNCHANGED statements

Other ==
  /\ Scanning
  /\ ~AtLine /\ ~AtBlock /\ ~AtDollar /\ text[i] \notin {"'", "\"", "semi"}
  /\ Write(<<text[i]>>, i + 1)
  /\ IF text[i] \in Spaces THEN NoMark ELSE MarkCode

-----------------------------------------------------------------------------
(* What Validate makes of a mask                                            *)

(* From position p of a mask: a word ends before the next symbol that is    *)
(* none of a word; the first keyword comes after brackets and blanks.       *)
WordEnd(m, p) == Min({k \in p..Len(m) : m[k] \notin WordChars} \cup {Len(m) + 1})
First(m, p) == Min({k \in p..Len(m) : m[k] \notin {"("} \cup Spaces} \cup {Len(m) + 1})
AfterKeyword(m, p) == WordEnd(m, First(m, p))
FirstKeyword(m, p) == SubSeq(m, First(m, p), AfterKeyword(m, p) - 1)
TrimLeft(m, p) == Min({k \in p..Len(m) : m[k] \notin Spaces} \cup {Len(m) + 1})

(* Mutant of ContainsWord: also within longer words.                        *)
ContainsAnywhere(m, p, words) == \E k \in p..Len(m) : m[k] \in words

ContainsWord(m, p, words) ==
  \E k \in p..Len(m) : /\ m[k] \in words
                       /\ k > p => m[k - 1] \notin WordChars
                       /\ k < Len(m) => m[k + 1] \notin WordChars

IsWord(word, words) == \E w \in words : word = <<w>>

(* Just past the option list that begins at p, or past the end: it is never *)
(* closed.                                                                  *)
OptionListEnd(m, p) ==
  LET depth[k \in (p - 1)..Len(m)] ==
        IF k < p THEN 0
        ELSE depth[k - 1] + CASE m[k] = "(" -> 1 [] m[k] = ")" -> -1 [] OTHER -> 0
  IN  Min({k + 1 : k \in {k \in p..Len(m) : m[k] = ")" /\ depth[k] = 0}} \cup {Len(m) + 1})

(* Where the statement begins that EXPLAIN is asked about, after options    *)
(* that begin at p.                                                         *)
ExplainTarget(m, p) ==
  LET target[k \in 1..(Len(m) + 1)] ==
        IF IsWord(FirstKeyword(m, k), {"ANALYZE", "VERBOSE"})
        THEN target[TrimLeft(m, AfterKeyword(m, k))] ELSE k
  IN  IF p <= Len(m) /\ m[p] = "(" THEN OptionListEnd(m, p) ELSE target[p]

(* Where the part of the mask begins that is searched for keywords.         *)
Body(m) ==
  IF IsWord(FirstKeyword(m, 1), {"EXPLAIN"}) THEN ExplainTarget(m, TrimLeft(m, AfterKeyword(m, 1))) ELSE 1

Refusal(m, n) ==
  CASE TrimLeft(m, 1) > Len(m)                             -> "empty"
    [] n > 1                                               -> "many"
    [] ~IsWord(FirstKeyword(m, 1), AllowedStart)           -> "start"
    [] ~IsWord(FirstKeyword(m, Body(m)), AllowedStart)     -> "explain"
    [] ContainsWord(m, Body(m), Forbidden)                 -> "keyword"
    [] OTHER                                               -> ""

(* The keyword mask is complete: refused, or the text is gone through again *)
(* for the relations.                                                       *)
Masked ==
  /\ stage = "keywords"
  /\ i > N
  /\ keywordMask' = mask
  /\ verdict' = Refusal(mask, statements)
  /\ stage' = IF verdict' = "" THEN "relations" ELSE "done"
  /\ IF verdict' = ""
     THEN i' = 1 /\ mask' = <<>> /\ statements' = 1 /\ sawCode' = TRUE /\ pending' = FALSE /\ trailing' = 0
     ELSE UNCHANGED <<i, mask, statements, sawCode, pending, trailing>>
  /\ UNCHANGED <<text, count>>

(* The mask of relations is complete.  PrepareCount takes what is before    *)
(* the semicolons at the end; the third pass finds them where this one did. *)
Validated ==
  /\ stage = "relations"
  /\ i > N
  /\ stage' = "done"
  /\ verdict' = IF ContainsWord(mask, 1, ForbiddenRelations) THEN "relation" ELSE "accepted"
  /\ count' = IF verdict' = "accepted" /\ ~IsWord(FirstKeyword(keywordMask, 1), {"EXPLAIN"})
              THEN IF trailing > 0 THEN SubSeq(text, 1, trailing - 1) ELSE text
              ELSE <<>>
  /\ UNCHANGED <<text, i, mask, statements, sawCode, pending, trailing, keywordMask>>

Next ==
  \/ LineComment \/ BlockComment \/ String \/ Quoted \/ DollarString \/ Semicolon \/ Other
  \/ Masked \/ Validated

Spec == Init /\ [][Next]_vars
-----------------------------------------------------------------------------
(* What the text means: read symbol by symbol, the way PostgreSQL reads it. *)
(* The state before a symbol is the piece it lies in, how deep, and how     *)
(* many symbols that were looked at in advance are still to come.           *)

In(piece, depth, tag, ahead) == [piece |-> piece, depth |-> depth, tag |-> tag, ahead |-> ahead]
Code == In("code", 0, <<>>, 0)

TagAt(t, k) ==
  {SubSeq(t, k, e) : e \in {e \in (k + 1)..Len(t) :
     /\ t[k] = "$" /\ t[e] = "$"
     /\ \A j \in (k + 1)..(e - 1) : t[j] \in WordChars
     /\ e > k + 1 => t[k + 1] # "1"
     /\ k > 1 => t[k - 1] \notin WordChars \cup {"$"}}}

Tag(t, k) == CHOOSE tag \in TagAt(t, k) : TRUE

Opens(t, k) ==
  LET c == t[k]
      next == IF k < Len(t) THEN t[k + 1] ELSE "none"
      escaped == k > 1 /\ t[k - 1] = "e" /\ (k > 2 => t[k - 2] \notin WordChars)
  IN  CASE c = "-" /\ next = "-"       -> In("line", 1, <<>>, 0)
        [] c = "/" /\ next = "*"       -> In("block", 1, <<>>, 1)
        [] c = "'"                     -> In(IF escaped THEN "escaped" ELSE "string", 1, <<>>, 0)
        [] c = "\""                    -> In("name", 1, <<>>, 0)
        [] TagAt(t, k) # {}            -> In("dollar", 1, Tag(t, k), Len(Tag(t, k)) - 1)
        [] OTHER                       -> Code

Within(t, k, was) ==
  LET c == t[k]
      next == IF k < Len(t) THEN t[k + 1] ELSE "none"
      quote == IF was.piece = "name" THEN "\"" ELSE "'"
      to(depth, ahead) == In(was.piece, depth, was.tag, ahead)
  IN  CASE was.piece = "line"  -> IF c = "nl" THEN Code ELSE was
        [] was.piece = "block" ->
             IF c = "/" /\ next = "*" THEN to(was.depth + 1, 1)
             ELSE IF c = "*" /\ next = "/" THEN to(was.depth - 1, 1) ELSE was
        [] was.piece = "dollar" ->
             IF SubSeq(t, k, Min({k + Len(was.tag) - 1, Len(t)})) = was.tag
             THEN to(0, Len(was.tag) - 1) ELSE was
        [] OTHER ->
             IF was.piece = "escaped" /\ c = "\\" /\ k < Len(t) THEN to(was.depth, 1)
             ELSE IF c = quote /\ next = quote THEN to(was.depth, 1)
             ELSE IF c = quote THEN Code ELSE was

(* The state after one symbol more.                                         *)
Turn(t, k, was) ==
  IF was.ahead > 1 \/ (was.ahead = 1 /\ was.depth > 0)
  THEN In(was.piece, was.depth, was.tag, was.ahead - 1)
  ELSE IF was.ahead = 1 THEN Code
  ELSE IF was.piece = "code" THEN Opens(t, k) ELSE Within(t, k, was)

Reading(t) ==
  LET after[k \in 0..Len(t)] == IF k = 0 THEN Code ELSE Turn(t, k, after[k - 1])
  IN  after

(* The piece every symbol of t belongs to.                                  *)
Pieces(t) ==
  LET after == Reading(t)
  IN  [k \in DOMAIN t |-> IF after[k - 1].piece = "code" THEN after[k].piece ELSE after[k - 1].piece]

Comments == {"line", "block"}

(* The words of s, in order, of which only the symbols in keep count: a     *)
(* symbol of a word makes the last word longer or begins another.           *)
OfWord(s, keep, k) == k \in keep /\ s[k] \in WordChars

Longer(words, c, joins) ==
  IF joins THEN [words EXCEPT ![Len(words)] = Append(@, c)] ELSE Append(words, <<c>>)

WordsUpTo(s, keep) ==
  LET words[k \in 0..Len(s)] ==
        IF k = 0 THEN <<>>
        ELSE IF OfWord(s, keep, k) THEN Longer(words[k - 1], s[k], OfWord(s, keep, k - 1))
        ELSE words[k - 1]
  IN  words

Words(s, keep) == WordsUpTo(s, keep)[Len(s)]

(* Symbols that are, or are part of, something to execute.                  *)
Material(t) ==
  LET pieces == Pieces(t)
  IN  {k \in DOMAIN t : pieces[k] \notin Comments /\ (pieces[k] = "code" => t[k] \notin Spaces \cup {"semi"})}

Semicolons(t) == LET pieces == Pieces(t) IN {k \in DOMAIN t : pieces[k] = "code" /\ t[k] = "semi"}
WordsOfCode(t) == LET pieces == Pieces(t) IN Words(t, {k \in DOMAIN t : pieces[k] = "code"})
WordsAndNames(t) == LET pieces == Pieces(t) IN Words(t, {k \in DOMAIN t : pieces[k] \in {"code", "name"}})

-----------------------------------------------------------------------------

Scanned(mode) == stage = mode /\ i > N

(* The mask has the words of the code and nothing of comments and literals, *)
(* and words stay apart where a comment was between them.  In the mask for  *)
(* relations the names in quotes are words too.                             *)
MaskHasWordsOfCode ==
  /\ Scanned("keywords") => Words(mask, DOMAIN mask) = WordsOfCode(text)
  /\ Scanned("relations") => Words(mask, DOMAIN mask) = WordsAndNames(text)

(* Statements are counted by the semicolons something follows: not those in *)
(* literals or comments, those at the end, or all but one of a row of them. *)
CountsStatements ==
  Scanned("keywords") =>
    statements = 1 + Cardinality(
      {m \in Material(text) : \E s \in Semicolons(text) :
         s < m /\ \A k \in s..m : k \in Material(text) => k = m})

(* The mask is the code of the text: its words and its statements.          *)
MaskIsTheCode == MaskHasWordsOfCode /\ CountsStatements

(* What is counted is the whole statement and nothing else: of the text     *)
(* only blanks, comments and semicolons at its end are cut, so that it can  *)
(* be put into brackets.                                                    *)
CountIsTheStatement ==
  stage = "done" /\ count # <<>> =>
    /\ IsPrefix(count, text)
    /\ \A k \in (Len(count) + 1)..N : k \notin Material(text)
    /\ Semicolons(count) = {}

(* The verdict depends on the words of the code alone.  What is accepted is *)
(* one statement that begins with an allowed keyword, after brackets and    *)
(* strings in dollars (which no statement begins with), names no restricted *)
(* relation, in quotes or not, and has no forbidden word, for EXPLAIN after *)
(* its options.  And a statement other than EXPLAIN of which all that is    *)
(* true is accepted, whatever its comments and literals hold.               *)
VerdictFromWords ==
  stage = "done" =>
    LET words == WordsOfCode(text)
        has(ws, bad) == \E k \in DOMAIN ws : IsWord(ws[k], bad)
        pieces == Pieces(text)
        first == Min({k \in Material(text) : text[k] # "(" /\ pieces[k] # "dollar"} \cup {N + 1})
        sound == /\ first <= N /\ text[first] \in WordChars /\ IsWord(words[1], AllowedStart)
                 /\ \A s \in Semicolons(text), m \in Material(text) : m < s
                 /\ ~has(WordsAndNames(text), ForbiddenRelations)
    IN  IF words # <<>> /\ words[1] = <<"EXPLAIN">>
        THEN verdict = "accepted" =>
               /\ sound
               /\ \E k \in 2..Len(words) : /\ IsWord(words[k], AllowedStart)
                                           /\ ~has(SubSeq(words, k, Len(words)), Forbidden)
        ELSE verdict = "accepted" <=> sound /\ ~has(words, Forbidden)
=============================================================================
