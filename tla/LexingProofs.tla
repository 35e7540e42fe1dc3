---------------------------- MODULE LexingProofs ----------------------------
(***************************************************************************)
(* Every character of a text is in a token or between two, whatever the    *)
(* text, and every token knows its line and its column.                    *)
(***************************************************************************)
EXTENDS Lexing, FiniteSetTheorems, WellFoundedInduction, TLAPS

Past == Len(text) + 1

\* The places, and what they are in the text.
PlaceInv ==
  /\ text \in Texts
  /\ cur \in 1 .. Past /\ line \in Nat /\ line_start \in 1 .. cur
  /\ from \in 0 .. cur - 1 /\ errors \in Nat
  /\ \E S : tokens \in Seq(S)

\* Where the last token ended.
EndOfLast == IF tokens = <<>> THEN 1 ELSE tokens[Len(tokens)].to

\* A comment that began behind p is still going on at i.
Commented(p, i) == \E h \in p .. i - 1 : Is(h, "#") /\ NewLinesIn(h, i) = {}

\* From the last token on, up to the next, there is nothing but trivia; a
\* comment goes to the end of its line.
GapInv ==
  LET p == EndOfLast
  IN  /\ p \in 1 .. Start
      /\ \A k \in p .. Start - 1 : In(k, Blank \cup {"\n"}) \/ InComment(k, p)
      /\ Start = Past \/ Is(Start, "\n") \/ ~Commented(p, Start)

\* The line and its beginning are those of the cursor, and of the string it is in.
LineInv ==
  /\ line = 1 + Cardinality(NewLinesIn(1, cur))
  /\ BeginsLine(line_start, cur)
  /\ from # 0 => Is(from, "\"") /\ NewLinesIn(from, cur) = {}

LexInv == PlaceInv /\ GapInv /\ LineInv /\ TokensTile

-----------------------------------------------------------------------------
(* Characters *)

LEMMA TextLength ==
  ASSUME text \in Texts
  PROVE  Len(text) \in Nat /\ \A i \in 1 .. Len(text) : In(i, DOMAIN ByteOf)
BY TextAssumption DEF In

LEMMA CharKinds ==
  /\ Digit \subseteq IdentCont /\ IdentStart \subseteq IdentCont
  /\ "\n" \notin IdentCont /\ "#" \notin IdentCont /\ "." # "\n" /\ "x" \in IdentCont
  /\ "\n" \notin HexDigit /\ "\n" \notin Blank /\ "\n" \notin DOMAIN Escape
BY DEF Digit, IdentCont, IdentStart, Lower, Upper, HexDigit, Blank, Escape

LEMMA LeastOf ==
  ASSUME NEW T \in SUBSET Nat, T # {}
  PROVE  \E k \in T : \A j \in T : k <= j
<1>1. PICK x \in T : \A y \in T : ~ (<<y, x>> \in OpToRel(<, Nat))
  BY NatLessThanWellFounded, WFMin, Zenon
<1>2. ASSUME NEW y \in T, y < x PROVE <<y, x>> \in OpToRel(<, Nat)
  BY <1>2 DEF OpToRel
<1>3. \A y \in T : ~(y < x)
  BY <1>1, <1>2
<1>4. \A y \in T : y \in Nat
  OBVIOUS
<1> QED BY <1>3, <1>4

\* A run ends at the first character that is not of its kind.
LEMMA RunIs ==
  ASSUME text \in Texts, NEW i \in 1 .. Past, NEW C
  PROVE  /\ Run(i, C) \in i .. Past /\ ~In(Run(i, C), C)
         /\ \A k \in i .. Run(i, C) - 1 : In(k, C)
<1> DEFINE T == {j \in i .. Past : ~In(j, C)}
<1>1. Len(text) \in Nat
  BY TextLength
<1>2. T \in SUBSET Nat /\ Past \in T
  BY <1>1 DEF In, Past
<1>3. PICK r \in T : \A j \in T : r <= j
  <2> HIDE DEF T
  <2>1. T # {}
    BY <1>2
  <2> QED BY <1>2, <2>1, LeastOf
<1>4. /\ r \in i .. Len(text) + 1 /\ ~In(r, C)
      /\ \A k \in i .. r - 1 : In(k, C)
  BY <1>1, <1>3 DEF Past
<1> QED BY <1>4 DEF Run, Past

\* A run of characters of which none ends a line.
LEMMA RunInLine ==
  ASSUME text \in Texts, NEW i \in 1 .. Past, NEW C, "\n" \notin C
  PROVE  NewLinesIn(i, Run(i, C)) = {}
<1>1. /\ Run(i, C) \in i .. Past /\ \A k \in i .. Run(i, C) - 1 : In(k, C)
  BY RunIs
<1>2. Past \in Nat
  BY TextLength DEF Past
<1>3. \A k : ~(In(k, C) /\ Is(k, "\n"))
  BY DEF In, Is
<1> QED BY <1>1, <1>2, <1>3 DEF NewLinesIn

\* A unit of a literal, or what is none, moves on within the line.
LEMMA UnitIs ==
  ASSUME text \in Texts, NEW i \in 1 .. Past
  PROVE  /\ scan_char_unit(i).to \in i .. Past
         /\ NewLinesIn(i, scan_char_unit(i).to) = {}
         /\ scan_char_unit(i).ok => scan_char_unit(i).to > i
<1> DEFINE u == scan_char_unit(i)
<1>1. Len(text) \in Nat /\ \A j \in 1 .. Len(text) : In(j, DOMAIN ByteOf)
  BY TextLength
<1>2. Past \in Nat /\ i \in Nat /\ \A C, k : In(k, C) => k <= Len(text)
  BY <1>1 DEF Past, In
<1> DEFINE A1 == AtEnd(i) \/ Is(i, "\n")
           A2 == In(i, DOMAIN ByteOf \ {"\n", "\\"})
           A3 == Is(i, "\\") /\ (AtEnd(i + 1) \/ Is(i + 1, "\n"))
           A4 == Is(i, "\\") /\ In(i + 1, DOMAIN Escape)
           A5 == Is(i, "\\") /\ Is(i + 1, "x") /\ (\A k \in {i + 2, i + 3} : In(k, HexDigit))
           U2 == [ok |-> TRUE, to |-> i + 1, byte |-> ByteOf[Char(i)]]
           U4 == [ok |-> TRUE, to |-> i + 2, byte |-> Escape[Char(i + 1)]]
           U5 == [ok |-> TRUE, to |-> i + 4,
                  byte |-> 16 * hex_val(Char(i + 2)) + hex_val(Char(i + 3))]
           N(to) == [ok |-> FALSE, to |-> to, byte |-> 0]
<1>3. u = CASE A1 -> N(i) [] A2 -> U2 [] A3 -> N(i + 1) [] A4 -> U4 [] A5 -> U5 [] OTHER -> N(i + 2)
  BY DEF scan_char_unit
<1>4. /\ \A to : N(to).to = to /\ ~N(to).ok
      /\ U2.to = i + 1 /\ U4.to = i + 2 /\ U5.to = i + 4
  OBVIOUS
<1>5. /\ A1 => ~A2 /\ ~A3 /\ ~A4 /\ ~A5
      /\ A2 => ~A3 /\ ~A4 /\ ~A5
      /\ A3 => ~A4 /\ ~A5
      /\ A4 => ~A5
  <2>1. \A k, c, C : Is(k, c) /\ In(k, C) => c \in C
    BY DEF Is, In
  <2>2. \A k, c, d : Is(k, c) /\ Is(k, d) => c = d
    BY DEF Is, In
  <2>3. \A k, c : Is(k, c) => k <= Len(text)
    BY DEF Is, In
  <2>4. \A k : AtEnd(k) => k = Len(text) + 1
    BY DEF AtEnd
  <2>5. "x" \notin DOMAIN Escape /\ "\n" \notin DOMAIN Escape
    BY DEF Escape
  <2>6. "\n" # "\\" /\ "\n" # "x"
    OBVIOUS
  <2>7. ~ (AtEnd(i) /\ Is(i, "\\")) /\ \A C : ~ (AtEnd(i) /\ In(i, C))
    BY <1>1, <1>2, <2>3, <2>4
  <2>8. ~ (AtEnd(i + 1) /\ Is(i + 1, "x")) /\ \A C : ~ (AtEnd(i + 1) /\ In(i + 1, C))
    BY <1>1, <1>2, <2>3, <2>4
  <2>9. A1 => ~A2 /\ ~A3 /\ ~A4 /\ ~A5
    BY <2>1, <2>2, <2>6, <2>7
  <2>10. A2 => ~A3 /\ ~A4 /\ ~A5
    BY <2>1
  <2>11. A3 => ~A4 /\ ~A5
    BY <2>1, <2>2, <2>5, <2>6, <2>8
  <2>12. A4 => ~A5
    BY <2>1, <2>5
  <2> QED BY <2>9, <2>10, <2>11, <2>12
<1> HIDE DEF A1, A2, A3, A4, A5, U2, U4, U5, N
<1>6. CASE A1
  <2>1. u = N(i)
    BY <1>3, <1>5, <1>6
  <2> QED BY <1>4, <2>1 DEF NewLinesIn
<1>7. CASE A2
  <2>1. u = U2 /\ i <= Len(text) /\ ~Is(i, "\n")
    BY <1>2, <1>3, <1>5, <1>7 DEF A2, In, Is
  <2> QED BY <1>1, <1>4, <2>1 DEF NewLinesIn, Past
<1>8. ASSUME Is(i, "\\") PROVE i <= Len(text) /\ ~Is(i, "\n")
  BY <1>8 DEF Is, In
<1>9. CASE A3
  <2>1. u = N(i + 1) /\ i <= Len(text) /\ ~Is(i, "\n")
    BY <1>3, <1>5, <1>8, <1>9 DEF A3
  <2> QED BY <1>1, <1>4, <2>1 DEF NewLinesIn, Past
<1>10. CASE A4
  <2>1. u = U4 /\ i <= Len(text) /\ ~Is(i, "\n")
    BY <1>3, <1>5, <1>8, <1>10 DEF A4
  <2>2. i + 1 <= Len(text) /\ ~Is(i + 1, "\n")
    BY <1>2, <1>10, CharKinds DEF A4, In, Is
  <2> QED BY <1>1, <1>4, <2>1, <2>2 DEF NewLinesIn, Past
<1>11. CASE A5
  <2>1. u = U5 /\ i <= Len(text) /\ ~Is(i, "\n")
    BY <1>3, <1>5, <1>8, <1>11 DEF A5
  <2>2. i + 1 <= Len(text) /\ ~Is(i + 1, "\n")
    BY <1>11 DEF A5, In, Is
  <2>3. \A k \in {i + 2, i + 3} : k <= Len(text) /\ ~Is(k, "\n")
    BY <1>11, CharKinds DEF A5, In, Is
  <2> QED BY <1>1, <1>4, <2>1, <2>2, <2>3 DEF NewLinesIn, Past
<1>12. CASE ~A1 /\ ~A2 /\ ~A3 /\ ~A4 /\ ~A5
  <2>1. u = N(i + 2)
    BY <1>3, <1>12
  <2>2. i <= Len(text) /\ ~Is(i, "\n") /\ Is(i, "\\")
    <3>1. i <= Len(text) /\ ~Is(i, "\n")
      BY <1>1, <1>12 DEF A1, AtEnd, Past
    <3>2. In(i, DOMAIN ByteOf)
      BY <1>1, <3>1
    <3> QED BY <1>12, <3>1, <3>2 DEF A2, In, Is
  <2>3. i + 1 <= Len(text) /\ ~Is(i + 1, "\n")
    BY <1>1, <1>12, <2>2 DEF A3, AtEnd, Past
  <2> QED BY <1>1, <1>4, <2>1, <2>2, <2>3 DEF NewLinesIn, Past
<1> QED BY <1>6, <1>7, <1>9, <1>10, <1>11, <1>12

-----------------------------------------------------------------------------
(* Lines *)

LEMMA Ranges ==
  ASSUME PlaceInv
  PROVE  /\ Len(text) \in Nat /\ Past \in Nat /\ cur \in Nat /\ from \in Nat
         /\ Start \in 1 .. cur /\ Start = (IF from = 0 THEN cur ELSE from)
BY TextLength DEF PlaceInv, Past, Start

LEMMA SameText ==
  ASSUME text' = text
  PROVE  /\ Past' = Past
         /\ \A i, C : In(i, C)' = In(i, C)
         /\ \A i, c : Is(i, c)' = Is(i, c)
         /\ \A i, j : NewLinesIn(i, j)' = NewLinesIn(i, j)
         /\ \A k, i : InComment(k, i)' = InComment(k, i)
         /\ \A k, i : BeginsLine(k, i)' = BeginsLine(k, i)
         /\ \A p, i : Commented(p, i)' = Commented(p, i)
BY DEF Past, In, Is, NewLinesIn, InComment, BeginsLine, Commented

\* Newlines up to m, and from m on.
LEMMA NewLinesSplit ==
  ASSUME NEW i \in Nat, NEW m \in Nat, NEW j \in Nat, i <= m, m <= j
  PROVE  /\ NewLinesIn(m, j) = {} => NewLinesIn(i, j) = NewLinesIn(i, m)
         /\ NewLinesIn(i, m) = {} => NewLinesIn(i, j) = NewLinesIn(m, j)
<1>1. i .. j - 1 = (i .. m - 1) \cup (m .. j - 1)
  OBVIOUS
<1> QED BY <1>1 DEF NewLinesIn

\* The beginning of a line, seen from a place further on in the same line.
LEMMA SameLine ==
  ASSUME NEW i \in Nat \ {0}, NEW j \in Nat, i <= j, NewLinesIn(i, j) = {}
  PROVE  /\ Cardinality(NewLinesIn(1, i)) = Cardinality(NewLinesIn(1, j))
         /\ \A k \in 1 .. i : BeginsLine(k, i) <=> BeginsLine(k, j)
         /\ \A k \in 1 .. j : BeginsLine(k, j) => k <= i
<1>1. ASSUME NEW k \in 1 .. i PROVE NewLinesIn(k, j) = NewLinesIn(k, i)
  <2>1. k \in Nat /\ k <= i /\ i \in Nat
    OBVIOUS
  <2> QED BY <2>1, NewLinesSplit
<1>2. NewLinesIn(1, j) = NewLinesIn(1, i)
  BY <1>1
<1>3. ASSUME NEW k \in 1 .. j, BeginsLine(k, j), ~(k <= i) PROVE FALSE
  <2>1. Is(k - 1, "\n") /\ k - 1 \in i .. j - 1
    BY <1>3 DEF BeginsLine
  <2> QED BY <2>1 DEF NewLinesIn
<1> QED BY <1>1, <1>2, <1>3 DEF BeginsLine

\* A line has one beginning.
LEMMA OneBeginning ==
  ASSUME NEW i \in Nat, NEW k \in 1 .. i, BeginsLine(k, i)
  PROVE  (CHOOSE h \in 1 .. i : BeginsLine(h, i)) = k
<1>1. ASSUME NEW g \in 1 .. i, NEW h \in 1 .. i, BeginsLine(g, i), BeginsLine(h, i), g < h
      PROVE  FALSE
  <2>1. Is(h - 1, "\n") /\ h - 1 \in g .. i - 1
    BY <1>1 DEF BeginsLine
  <2> QED BY <1>1, <2>1 DEF NewLinesIn, BeginsLine
<1>2. \A h \in 1 .. i : BeginsLine(h, i) => h = k
  BY <1>1
<1> QED BY <1>2

-----------------------------------------------------------------------------
(* Tokens *)

\* What TokensTile says of a token t behind p.
Tile(p, t) ==
  /\ \A k \in p .. t.from - 1 : In(k, Blank \cup {"\n"}) \/ InComment(k, p)
  /\ t.from < Len(text) + 1 => ~InComment(t.from, p) /\ t.to > t.from
  /\ t.kind = "EOF" <=> t.from = Len(text) + 1
  /\ t.line = 1 + Cardinality(NewLinesIn(1, t.from))
  /\ t.col = t.from - (CHOOSE k \in 1 .. t.from : BeginsLine(k, t.from)) + 1

LEMMA TokensTilePrimed ==
  ASSUME text' = text, errors' = Cardinality(Errors'),
         tokens' # <<>> =>
           Tile(IF Len(tokens') = 1 THEN 1 ELSE tokens'[Len(tokens') - 1].to,
                tokens'[Len(tokens')])
  PROVE  TokensTile'
BY DEF TokensTile, Tile, PrevEnd, In, Is, NewLinesIn, InComment, BeginsLine

\* A token may begin where no trivia does.
Solid(i) == i # Past => ~Is(i, "#") /\ ~Is(i, "\n")

LEMMA EmitKeeps ==
  ASSUME LexInv, NEW kind, NEW to \in cur .. Past, NEW val, Emit(kind, to, val),
         NewLinesIn(cur, to) = {}, kind = "EOF" <=> Start = Past, Solid(Start),
         Start # Past => to > Start,
         errors' = IF kind = "ERROR" THEN errors + 1 ELSE errors
  PROVE  LexInv'
<1> DEFINE t == [kind |-> kind, from |-> Start, to |-> to, line |-> line,
                 col |-> Start - line_start + 1, val |-> val]
           n == Len(tokens)
<1>1. /\ tokens' = Append(tokens, t) /\ cur' = to /\ from' = 0 /\ text' = text
      /\ line' = line /\ line_start' = line_start
  BY DEF Emit, position
<1>2. /\ PlaceInv /\ GapInv /\ LineInv /\ TokensTile
  BY DEF LexInv
<1>3. PICK S : tokens \in Seq(S)
  BY <1>2 DEF PlaceInv
<1>4. /\ Len(text) \in Nat /\ Past \in Nat /\ cur \in Nat /\ from \in Nat
      /\ Start \in 1 .. cur /\ Start = (IF from = 0 THEN cur ELSE from)
  BY <1>2, Ranges
<1>5. /\ n \in Nat /\ tokens' \in Seq(S \cup {t}) /\ Len(tokens') = n + 1
      /\ tokens'[n + 1] = t /\ tokens' # <<>>
      /\ DOMAIN tokens = 1 .. n /\ DOMAIN tokens' = 1 .. n + 1
      /\ \A m \in 1 .. n : tokens'[m] = tokens[m]
  <2> HIDE DEF t
  <2> QED BY <1>1, <1>3
<1>6. t.kind = kind /\ t.from = Start /\ t.to = to /\ t.line = line
      /\ t.col = Start - line_start + 1
  OBVIOUS
<1> HIDE DEF t
<1>7. /\ Past' = Past
      /\ \A i, C : In(i, C)' = In(i, C)
      /\ \A i, c : Is(i, c)' = Is(i, c)
      /\ \A i, j : NewLinesIn(i, j)' = NewLinesIn(i, j)
      /\ \A k, i : InComment(k, i)' = InComment(k, i)
      /\ \A k, i : BeginsLine(k, i)' = BeginsLine(k, i)
      /\ \A p, i : Commented(p, i)' = Commented(p, i)
  BY <1>1, SameText
<1>8. NewLinesIn(Start, to) = {}
  <2>1. Start # cur => NewLinesIn(Start, cur) = {}
    BY <1>2, <1>4 DEF LineInv
  <2>2. cur .. cur - 1 = {}
    BY <1>4
  <2>3. NewLinesIn(Start, cur) = {}
    BY <2>1, <2>2 DEF NewLinesIn
  <2>4. Start \in Nat /\ to \in Nat /\ Start <= cur /\ cur <= to
    BY <1>4
  <2> QED BY <1>4, <2>3, <2>4, NewLinesSplit
<1>9. PlaceInv'
  <2>1. errors' \in Nat
    BY <1>2 DEF PlaceInv
  <2>2. line_start' \in 1 .. cur'
    BY <1>1, <1>2, <1>4 DEF PlaceInv
  <2> QED BY <1>1, <1>2, <1>4, <1>5, <1>7, <2>1, <2>2 DEF PlaceInv
<1>10. EndOfLast' = to /\ Start' = to
  BY <1>1, <1>5, <1>6 DEF EndOfLast, Start
<1>11. GapInv'
  <2>1. ~Commented(to, to)
    BY <1>4 DEF Commented
  <2> QED BY <1>4, <1>7, <1>10, <2>1 DEF GapInv
<1>12. LineInv'
  <2>1. line = 1 + Cardinality(NewLinesIn(1, to)) /\ BeginsLine(line_start, to)
    <3>1. /\ Cardinality(NewLinesIn(1, cur)) = Cardinality(NewLinesIn(1, to))
          /\ \A k \in 1 .. cur : BeginsLine(k, cur) <=> BeginsLine(k, to)
      BY <1>2, <1>4, SameLine DEF PlaceInv
    <3> QED BY <1>2, <3>1 DEF LineInv, PlaceInv
  <2> QED BY <1>1, <1>7, <2>1 DEF LineInv
<1>13. (IF Len(tokens') = 1 THEN 1 ELSE tokens'[Len(tokens') - 1].to) = EndOfLast
  <2>1. n = 0 <=> tokens = <<>>
    BY <1>3
  <2>2. CASE n = 0
    BY <1>5, <2>1, <2>2 DEF EndOfLast
  <2>3. CASE n # 0
    <3>1. n \in 1 .. n /\ n + 1 # 1 /\ n + 1 - 1 = n
      BY <1>5, <2>3
    <3> QED BY <1>5, <2>1, <2>3, <3>1 DEF EndOfLast
  <2> QED BY <2>2, <2>3
<1>14. errors' = Cardinality(Errors')
  <2>1. errors = Cardinality(Errors) /\ IsFiniteSet(Errors) /\ n + 1 \notin Errors
    <3>1. Errors \subseteq 1 .. n /\ n + 1 \notin 1 .. n
      BY <1>5 DEF Errors
    <3>2. IsFiniteSet(1 .. n)
      BY <1>5, FS_Interval
    <3>3. errors = Cardinality(Errors)
      BY <1>2 DEF TokensTile
    <3> QED BY <3>1, <3>2, <3>3, FS_Subset
  <2>2. Errors' = IF kind = "ERROR" THEN Errors \cup {n + 1} ELSE Errors
    <3>1. Errors' = {m \in 1 .. n + 1 : tokens'[m].kind = "ERROR"}
      BY <1>5 DEF Errors
    <3>2. Errors = {m \in 1 .. n : tokens[m].kind = "ERROR"}
      BY <1>5 DEF Errors
    <3>3. 1 .. n + 1 = (1 .. n) \cup {n + 1}
      BY <1>5
    <3> QED BY <1>5, <1>6, <3>1, <3>2, <3>3
  <2>3. Cardinality(Errors \cup {n + 1}) = Cardinality(Errors) + 1
    BY <2>1, FS_AddElement
  <2> QED BY <2>1, <2>2, <2>3
<1>15. ASSUME NEW k \in EndOfLast .. Start - 1
       PROVE  In(k, Blank \cup {"\n"}) \/ InComment(k, EndOfLast)
  BY <1>2, <1>15 DEF GapInv
<1>16. Start < Len(text) + 1 => ~InComment(Start, EndOfLast) /\ to > Start
  <2>1. SUFFICES ASSUME Start # Past PROVE ~InComment(Start, EndOfLast) /\ to > Start
    BY <1>4 DEF Past
  <2>2. ~Is(Start, "#") /\ ~Is(Start, "\n")
    BY <2>1 DEF Solid
  <2>3. ~Commented(EndOfLast, Start)
    BY <1>2, <2>1, <2>2 DEF GapInv
  <2>4. EndOfLast \in 1 .. Start
    BY <1>2 DEF GapInv
  <2>5. \A h \in EndOfLast .. Start : h \in EndOfLast .. Start - 1 \/ h = Start
    BY <1>4, <2>4
  <2> QED BY <2>1, <2>2, <2>3, <2>5 DEF Commented, InComment
<1>17. line = 1 + Cardinality(NewLinesIn(1, Start))
       /\ (CHOOSE k \in 1 .. Start : BeginsLine(k, Start)) = line_start
  <2>1. NewLinesIn(Start, cur) = {} /\ Start \in Nat \ {0} /\ Start <= cur
    <3>1. Start # cur => NewLinesIn(Start, cur) = {}
      BY <1>2, <1>4 DEF LineInv
    <3>2. cur .. cur - 1 = {}
      BY <1>4
    <3> QED BY <1>4, <3>1, <3>2 DEF NewLinesIn
  <2>2. line_start \in 1 .. cur /\ BeginsLine(line_start, cur)
    BY <1>2 DEF PlaceInv, LineInv
  <2>3. line_start \in 1 .. Start /\ BeginsLine(line_start, Start)
    BY <1>4, <2>1, <2>2, SameLine
  <2>4. Cardinality(NewLinesIn(1, Start)) = Cardinality(NewLinesIn(1, cur))
    BY <1>4, <2>1, SameLine
  <2> QED BY <1>2, <1>4, <2>3, <2>4, OneBeginning DEF LineInv
<1>18. TokensTile'
  <2>1. t.line = 1 + Cardinality(NewLinesIn(1, t.from))
    BY <1>6, <1>17
  <2>2. t.col = t.from - (CHOOSE k \in 1 .. t.from : BeginsLine(k, t.from)) + 1
    BY <1>6, <1>17
  <2>3. t.kind = "EOF" <=> t.from = Len(text) + 1
    BY <1>6 DEF Past
  <2>4. \A k \in EndOfLast .. t.from - 1 : In(k, Blank \cup {"\n"}) \/ InComment(k, EndOfLast)
    BY <1>6, <1>15
  <2>5. t.from < Len(text) + 1 => ~InComment(t.from, EndOfLast) /\ t.to > t.from
    BY <1>6, <1>16
  <2>6. Tile(EndOfLast, t)
    BY <2>1, <2>2, <2>3, <2>4, <2>5 DEF Tile
  <2> QED BY <1>1, <1>5, <1>13, <1>14, <2>6, TokensTilePrimed
<1> QED BY <1>9, <1>11, <1>12, <1>18 DEF LexInv
-----------------------------------------------------------------------------
(* What the steps share *)

\* A place to begin, between two tokens.
LEMMA Here ==
  ASSUME PlaceInv, Between
  PROVE  /\ Len(text) \in Nat /\ Past = Len(text) + 1 /\ cur \in 1 .. Past /\ cur \in Nat \ {0}
         /\ from = 0 /\ Start = cur
         /\ \A C : In(cur, C) => cur <= Len(text) /\ cur # Past
BY Ranges DEF PlaceInv, Between, Start, Past, In

\* The tokens stay, and what was true of the last one.
LEMMA TokensStay ==
  ASSUME TokensTile, text' = text, tokens' = tokens, errors' = errors
  PROVE  TokensTile' /\ EndOfLast' = EndOfLast
BY DEF TokensTile, EndOfLast, Errors, PrevEnd, In, Is, NewLinesIn, InComment, BeginsLine

LEMMA PlacesStay ==
  ASSUME PlaceInv, text' = text, tokens' = tokens, errors' = errors,
         NEW to \in cur .. Past, cur' = to, line' \in Nat, line_start' \in 1 .. to,
         from' \in 0 .. to - 1
  PROVE  PlaceInv'
BY SameText DEF PlaceInv, Past

\* One character that ends no line.
LEMMA OneOn ==
  ASSUME NEW i \in Nat, ~Is(i, "\n")
  PROVE  NewLinesIn(i, i + 1) = {}
<1>1. i .. i + 1 - 1 = {i}
  OBVIOUS
<1> QED BY <1>1 DEF NewLinesIn

\* A token of characters of which the first is no comment's and no newline.
LEMMA OtherKind ==
  ASSUME NEW C, In(cur, C), "#" \notin C, "\n" \notin C
  PROVE  ~Is(cur, "\n") /\ Solid(cur)
BY DEF In, Is, Solid

\* The line goes on.
LEMMA LineStays ==
  ASSUME PlaceInv, LineInv, NEW to \in cur .. Past, NewLinesIn(cur, to) = {}
  PROVE  /\ line = 1 + Cardinality(NewLinesIn(1, to)) /\ BeginsLine(line_start, to)
         /\ line_start \in 1 .. to
<1>1. cur \in Nat \ {0} /\ to \in Nat /\ cur <= to /\ line_start \in 1 .. cur
  BY Ranges DEF PlaceInv
<1>2. /\ Cardinality(NewLinesIn(1, cur)) = Cardinality(NewLinesIn(1, to))
      /\ \A k \in 1 .. cur : BeginsLine(k, cur) <=> BeginsLine(k, to)
  BY <1>1, SameLine
<1>3. line_start \in 1 .. to
  BY <1>1
<1> QED BY <1>1, <1>2, <1>3 DEF LineInv

-----------------------------------------------------------------------------
(* The steps *)

LEMMA NewLineKeeps ==
  ASSUME LexInv, NewLine
  PROVE  LexInv'
<1>1. PlaceInv /\ GapInv /\ LineInv /\ TokensTile
  BY DEF LexInv
<1>2. /\ Is(cur, "\n") /\ Between /\ text' = text /\ from' = from /\ tokens' = tokens
      /\ errors' = errors /\ cur' = cur + 1 /\ line' = line + 1 /\ line_start' = cur + 1
  BY DEF NewLine
<1>3. /\ Len(text) \in Nat /\ Past = Len(text) + 1 /\ cur \in 1 .. Past /\ cur \in Nat \ {0}
      /\ from = 0 /\ Start = cur /\ cur <= Len(text)
  BY <1>1, <1>2, Here DEF Is
<1>4. TokensTile' /\ EndOfLast' = EndOfLast
  BY <1>1, <1>2, TokensStay
<1>5. PlaceInv'
  BY <1>1, <1>2, <1>3, PlacesStay DEF PlaceInv
<1>6. Start' = cur + 1
  BY <1>2, <1>3 DEF Start
<1>7. GapInv'
  <2>1. PICK p : p = EndOfLast
    OBVIOUS
  <2>2. p \in 1 .. cur
    BY <1>1, <1>3, <2>1 DEF GapInv
  <2>3. \A k \in p .. cur - 1 : In(k, Blank \cup {"\n"}) \/ InComment(k, p)
    BY <1>1, <1>3, <2>1 DEF GapInv
  <2>4. In(cur, Blank \cup {"\n"})
    BY <1>2 DEF Is, In
  <2>5. \A k \in p .. cur : In(k, Blank \cup {"\n"}) \/ InComment(k, p)
    <3>1. \A k \in p .. cur : k = cur \/ k \in p .. cur - 1
      BY <1>3, <2>2
    <3> QED BY <2>3, <2>4, <3>1
  <2>6. ~Commented(p, cur + 1)
    <3>1. \A h \in p .. cur + 1 - 1 : cur \in NewLinesIn(h, cur + 1)
      BY <1>2, <1>3, <2>2 DEF NewLinesIn
    <3> QED BY <1>3, <2>2, <3>1 DEF Commented
  <2>7. p \in 1 .. cur + 1 /\ cur + 1 - 1 = cur
    BY <1>3, <2>2
  <2>8. PICK to : to = cur + 1
    OBVIOUS
  <2>9. EndOfLast' = p /\ Start' = to /\ to - 1 = cur /\ p \in 1 .. to
    BY <1>3, <1>4, <1>6, <2>1, <2>2, <2>8
  <2>10. \A k \in p .. to - 1 : In(k, Blank \cup {"\n"}) \/ InComment(k, p)
    BY <2>5, <2>9
  <2>11. ~Commented(p, to)
    BY <2>6, <2>8
  <2> QED BY <1>2, <2>9, <2>10, <2>11, SameText DEF GapInv
<1>8. LineInv'
  <2>1. NewLinesIn(1, cur + 1) = NewLinesIn(1, cur) \cup {cur} /\ cur \notin NewLinesIn(1, cur)
    <3>1. 1 .. cur + 1 - 1 = (1 .. cur - 1) \cup {cur} /\ cur \notin 1 .. cur - 1
      BY <1>3
    <3> QED BY <1>2, <3>1 DEF NewLinesIn
  <2>2. IsFiniteSet(NewLinesIn(1, cur))
    <3>1. NewLinesIn(1, cur) \subseteq 1 .. cur - 1
      BY DEF NewLinesIn
    <3>2. cur - 1 \in Int
      BY <1>3
    <3>3. IsFiniteSet(1 .. cur - 1)
      BY <3>2, FS_Interval
    <3> QED BY <3>1, <3>3, FS_Subset
  <2>3. Cardinality(NewLinesIn(1, cur + 1)) = Cardinality(NewLinesIn(1, cur)) + 1
    BY <2>1, <2>2, FS_AddElement
  <2>4. Cardinality(NewLinesIn(1, cur)) \in Nat
    BY <2>2, FS_CardinalityType
  <2>5. line' = 1 + Cardinality(NewLinesIn(1, cur + 1))
    <3>1. PICK c \in Nat : c = Cardinality(NewLinesIn(1, cur))
      BY <2>4
    <3>2. line = 1 + c
      BY <1>1, <3>1 DEF LineInv
    <3> QED BY <1>2, <2>3, <3>1, <3>2
  <2>6. BeginsLine(cur + 1, cur + 1)
    <3>1. cur + 1 .. cur + 1 - 1 = {} /\ cur + 1 - 1 = cur
      BY <1>3
    <3>2. NewLinesIn(cur + 1, cur + 1) = {}
      BY <1>3, <3>1 DEF NewLinesIn
    <3>3. Is(cur + 1 - 1, "\n")
      BY <1>2, <3>1
    <3> QED BY <1>3, <3>2, <3>3 DEF BeginsLine
  <2> QED BY <1>2, <1>3, <2>5, <2>6, SameText DEF LineInv
<1> QED BY <1>4, <1>5, <1>7, <1>8 DEF LexInv

LEMMA SkipKeeps ==
  ASSUME LexInv, Skip
  PROVE  LexInv'
<1>1. PlaceInv /\ GapInv /\ LineInv /\ TokensTile
  BY DEF LexInv
<1>2. /\ Between /\ text' = text /\ from' = from /\ tokens' = tokens
      /\ errors' = errors /\ line' = line /\ line_start' = line_start
  BY DEF Skip, position
<1>3. /\ Len(text) \in Nat /\ Past = Len(text) + 1 /\ cur \in 1 .. Past /\ cur \in Nat \ {0}
      /\ from = 0 /\ Start = cur /\ \A C : In(cur, C) => cur <= Len(text) /\ cur # Past
  BY <1>1, <1>2, Here
<1>4. TokensTile' /\ EndOfLast' = EndOfLast
  BY <1>1, <1>2, TokensStay
<1>5. PICK p : p = EndOfLast
  OBVIOUS
<1>6. /\ p \in 1 .. cur
      /\ \A k \in p .. cur - 1 : In(k, Blank \cup {"\n"}) \/ InComment(k, p)
      /\ cur = Past \/ Is(cur, "\n") \/ ~Commented(p, cur)
  BY <1>1, <1>3, <1>5 DEF GapInv
<1>7. ASSUME NEW to \in cur .. Past, cur' = to, NewLinesIn(cur, to) = {},
             \A k \in cur .. to - 1 : In(k, Blank \cup {"\n"}) \/ InComment(k, p),
             to = Past \/ Is(to, "\n") \/ ~Commented(p, to)
      PROVE  LexInv'
  <2>1. /\ line = 1 + Cardinality(NewLinesIn(1, to)) /\ BeginsLine(line_start, to)
        /\ line_start \in 1 .. to
    BY <1>1, <1>7, LineStays
  <2>2. LineInv'
    BY <1>2, <1>3, <1>7, <2>1, SameText DEF LineInv
  <2>3. PlaceInv'
    BY <1>1, <1>2, <1>3, <1>7, <2>1, PlacesStay DEF PlaceInv
  <2>4. Start' = to
    BY <1>2, <1>3, <1>7 DEF Start
  <2>5. \A k \in p .. to - 1 : In(k, Blank \cup {"\n"}) \/ InComment(k, p)
    <3>1. \A k \in p .. to - 1 : k \in p .. cur - 1 \/ k \in cur .. to - 1
      BY <1>3, <1>6
    <3> QED BY <1>6, <1>7, <3>1
  <2>6. p \in 1 .. to
    BY <1>3, <1>6, <1>7
  <2>7. GapInv'
    BY <1>2, <1>4, <1>5, <1>7, <2>4, <2>5, <2>6, SameText DEF GapInv
  <2> QED BY <1>4, <2>2, <2>3, <2>7 DEF LexInv
<1>8. CASE In(cur, Blank) /\ cur' = cur + 1
  <2>1. ~Is(cur, "\n") /\ ~Is(cur, "#")
    BY <1>8 DEF In, Is, Blank
  <2>10. cur # Past /\ cur + 1 \in cur .. Past
    BY <1>3, <1>8
  <2>2. NewLinesIn(cur, cur + 1) = {}
    BY <1>3, <2>1, OneOn
  <2>3. ~Commented(p, cur + 1)
    <3>1. SUFFICES ASSUME NEW h \in p .. cur + 1 - 1, Is(h, "#"), NewLinesIn(h, cur + 1) = {}
                   PROVE  FALSE
      BY <1>3, <1>6 DEF Commented
    <3>2. h \in p .. cur /\ h # cur
      BY <1>3, <1>6, <2>1, <3>1
    <3>3. h \in p .. cur - 1 /\ h .. cur - 1 \subseteq h .. cur + 1 - 1
      BY <1>3, <1>6, <3>2
    <3>4. NewLinesIn(h, cur) \subseteq NewLinesIn(h, cur + 1)
      BY <1>3, <1>6, <3>3 DEF NewLinesIn
    <3>5. NewLinesIn(h, cur) = {}
      BY <3>1, <3>4
    <3>6. Commented(p, cur)
      BY <3>1, <3>3, <3>5 DEF Commented
    <3> QED BY <1>6, <2>1, <2>10, <3>6
  <2>5. PICK to : to = cur + 1
    OBVIOUS
  <2>6. \A k \in cur .. to - 1 : In(k, Blank \cup {"\n"}) \/ InComment(k, p)
    <3>1. SUFFICES ASSUME NEW k \in cur .. to - 1 PROVE In(k, Blank \cup {"\n"})
      OBVIOUS
    <3>2. k = cur
      BY <1>3, <2>5, <3>1
    <3> QED BY <1>8, <3>2 DEF In
  <2>7. to \in cur .. Past /\ cur' = to /\ NewLinesIn(cur, to) = {} /\ ~Commented(p, to)
    BY <1>8, <2>10, <2>2, <2>3, <2>5
  <2> QED BY <1>7, <2>6, <2>7
<1>9. CASE Is(cur, "#") /\ cur' = Run(cur, DOMAIN ByteOf \ {"\n"})
  <2> DEFINE C == DOMAIN ByteOf \ {"\n"}
             r == Run(cur, C)
  <2>1. "\n" \notin C /\ text \in Texts
    BY <1>1 DEF PlaceInv
  <2> HIDE DEF C
  <2>2. r \in cur .. Past /\ ~In(r, C) /\ \A k \in cur .. r - 1 : In(k, C)
    BY <1>3, <2>1, RunIs
  <2>3. NewLinesIn(cur, r) = {}
    BY <1>3, <2>1, RunInLine
  <2> HIDE DEF r
  <2>4. r = Past \/ Is(r, "\n")
    <3>1. SUFFICES ASSUME r # Past PROVE Is(r, "\n")
      OBVIOUS
    <3>2. r \in 1 .. Len(text)
      BY <1>3, <2>2, <3>1
    <3>3. In(r, DOMAIN ByteOf)
      BY <2>1, <3>2, TextLength
    <3> QED BY <2>2, <3>3 DEF In, Is, C
  <2>5. ASSUME NEW k \in cur .. r - 1 PROVE InComment(k, p)
    <3>1. cur .. k - 1 \subseteq cur .. r - 1
      BY <1>3, <2>2, <2>5
    <3>2. NewLinesIn(cur, k) = {}
      BY <2>3, <3>1 DEF NewLinesIn
    <3>3. cur \in p .. k
      BY <1>3, <1>6, <2>5
    <3> QED BY <1>9, <3>2, <3>3 DEF InComment
  <2>6. cur' = r
    BY <1>9 DEF r, C
  <2> QED BY <1>7, <2>2, <2>3, <2>4, <2>5, <2>6
<1> QED BY <1>8, <1>9 DEF Skip

LEMMA IdentKeeps ==
  ASSUME LexInv, lex_ident
  PROVE  LexInv'
<1> DEFINE to == Run(cur, IdentCont)
           kind == IF SubSeq(text, cur, to - 1) \in Keywords THEN SubSeq(text, cur, to - 1)
                   ELSE "IDENT"
<1>1. Between /\ In(cur, IdentStart) /\ finish(kind, to, <<>>)
  BY DEF lex_ident
<1>2. PlaceInv /\ text \in Texts
  BY DEF LexInv, PlaceInv
<1>3. /\ Len(text) \in Nat /\ Past = Len(text) + 1 /\ cur \in 1 .. Past /\ cur \in Nat \ {0}
      /\ from = 0 /\ Start = cur /\ cur # Past
  BY <1>1, <1>2, Here
<1>4. kind # "EOF" /\ kind # "ERROR"
  BY DEF Keywords
<1>5. In(cur, IdentCont)
  BY <1>1, CharKinds DEF In
<1>6. /\ to \in cur .. Past /\ ~In(to, IdentCont) /\ NewLinesIn(cur, to) = {}
  BY <1>2, <1>3, CharKinds, RunIs, RunInLine
<1>7. Solid(cur)
  BY <1>5, CharKinds, OtherKind
<1> HIDE DEF to, kind
<1>8. to > cur
  BY <1>3, <1>5, <1>6
<1>9. Emit(kind, to, <<>>) /\ errors' = errors
  BY <1>1 DEF finish
<1> QED BY <1>3, <1>4, <1>6, <1>7, <1>8, <1>9, EmitKeeps

LEMMA CharKeeps ==
  ASSUME LexInv, lex_char
  PROVE  LexInv'
<1> DEFINE u == scan_char_unit(cur + 1)
<1>1. Between /\ Is(cur, "'")
  BY DEF lex_char
<1>2. PlaceInv /\ text \in Texts
  BY DEF LexInv, PlaceInv
<1>3. /\ Len(text) \in Nat /\ Past = Len(text) + 1 /\ cur \in 1 .. Past /\ cur \in Nat \ {0}
      /\ from = 0 /\ Start = cur /\ cur # Past
  BY <1>1, <1>2, Here DEF Is
<1>4. ~Is(cur, "\n") /\ Solid(cur)
  BY <1>1, OtherKind DEF Is
<1>5. cur + 1 \in 1 .. Past /\ cur + 1 \in Nat
  BY <1>3
<1>6. u.to \in cur + 1 .. Past /\ NewLinesIn(cur + 1, u.to) = {}
  BY <1>2, <1>5, UnitIs
<1>7. NewLinesIn(cur, cur + 1) = {}
  BY <1>3, <1>4, OneOn
<1> HIDE DEF u
<1>8. u.to \in cur .. Past /\ u.to > cur /\ u.to \in Nat
  BY <1>3, <1>6
<1>9. NewLinesIn(cur, u.to) = {}
  BY <1>3, <1>5, <1>6, <1>7, <1>8, NewLinesSplit
<1>10. ASSUME NEW to \in Nat, to \in cur + 1 .. Past, NewLinesIn(cur, to) = {}, Is(to, "'")
       PROVE  to + 1 \in cur .. Past /\ to + 1 > cur /\ NewLinesIn(cur, to + 1) = {}
  <2>1. ~Is(to, "\n") /\ to <= Len(text)
    BY <1>10 DEF Is, In
  <2>2. NewLinesIn(to, to + 1) = {}
    BY <2>1, OneOn
  <2>3. to + 1 \in cur .. Past /\ to + 1 > cur /\ to + 1 \in Nat
    BY <1>3, <1>10, <2>1
  <2> QED BY <1>3, <1>10, <2>2, <2>3, NewLinesSplit
<1>11. CASE Is(cur + 1, "'") /\ error_at(cur + 2)
  <2>1. cur + 2 \in cur .. Past /\ cur + 2 > cur /\ NewLinesIn(cur, cur + 2) = {}
    <3>1. cur + 1 + 1 = cur + 2 /\ cur + 1 \in cur + 1 .. Past
      BY <1>3
    <3> QED BY <1>5, <1>7, <1>10, <1>11, <3>1
  <2> QED BY <1>3, <1>4, <1>11, <2>1, EmitKeeps DEF error_at
<1>12. CASE error_at(u.to)
  BY <1>3, <1>4, <1>8, <1>9, <1>12, EmitKeeps DEF error_at
<1>13. CASE Is(u.to, "'") /\ finish("CHAR", u.to + 1, <<u.byte>>)
  <2>1. u.to + 1 \in cur .. Past /\ u.to + 1 > cur /\ NewLinesIn(cur, u.to + 1) = {}
    BY <1>6, <1>8, <1>9, <1>10, <1>13
  <2> QED BY <1>3, <1>4, <1>13, <2>1, EmitKeeps DEF finish
<1> QED BY <1>11, <1>12, <1>13 DEF lex_char, u

LEMMA NumberKeeps ==
  ASSUME LexInv, lex_number
  PROVE  LexInv'
<1> DEFINE hex  == Is(cur, "0") /\ Is(cur + 1, "x")
           body == IF hex THEN cur + 2 ELSE cur
           D    == IF hex THEN HexDigit ELSE Digit
           stop == Run(body, D)
           fraction == ~hex /\ Is(stop, ".") /\ In(stop + 1, Digit)
           to   == IF fraction THEN Run(stop + 1, Digit) ELSE stop
           n    == Number(body, stop, IF hex THEN 16 ELSE 10)
<1>1. /\ Between /\ In(cur, Digit)
      /\ CASE stop = body -> error_at(body)
           [] stop # body /\ In(to, IdentCont) -> error_at(to + 1)
           [] stop # body /\ ~In(to, IdentCont) ->
                IF fraction THEN finish("FLOAT", to, <<>>)
                ELSE IF n.overflow THEN error_at(to)
                ELSE finish("INT", to, <<n.v>>)
  BY DEF lex_number
<1> HIDE DEF n
<1>2. PlaceInv /\ text \in Texts
  BY DEF LexInv, PlaceInv
<1>3. /\ Len(text) \in Nat /\ Past = Len(text) + 1 /\ cur \in 1 .. Past /\ cur \in Nat \ {0}
      /\ from = 0 /\ Start = cur /\ cur # Past
  BY <1>1, <1>2, Here
<1>4. ~Is(cur, "\n") /\ Solid(cur) /\ "\n" \notin Digit /\ "\n" \notin D
  BY <1>1, CharKinds, OtherKind
<1>5. /\ body \in cur .. Past /\ body \in 1 .. Past /\ NewLinesIn(cur, body) = {}
      /\ hex => body > cur
  <2>1. CASE hex
    <3>1. cur + 1 <= Len(text) /\ ~Is(cur + 1, "\n")
      BY <2>1 DEF Is, In
    <3>2. NewLinesIn(cur, cur + 1) = {} /\ NewLinesIn(cur + 1, cur + 1 + 1) = {}
      BY <1>3, <1>4, <3>1, OneOn
    <3>3. /\ cur + 1 \in Nat /\ cur + 2 \in Nat /\ cur + 1 + 1 = cur + 2
          /\ cur <= cur + 1 /\ cur + 1 <= cur + 2 /\ cur \in Nat
      BY <1>3
    <3>4. NewLinesIn(cur, cur + 2) = {}
      BY <3>2, <3>3, NewLinesSplit
    <3> QED BY <1>3, <2>1, <3>1, <3>4
  <2>2. CASE ~hex
    <3>1. cur .. cur - 1 = {} /\ body = cur
      BY <1>3, <2>2
    <3> QED BY <1>3, <2>2, <3>1 DEF NewLinesIn
  <2> QED BY <2>1, <2>2
<1> HIDE DEF D, body
<1>6. /\ stop \in body .. Past /\ NewLinesIn(body, stop) = {} /\ ~In(stop, D)
  BY <1>2, <1>4, <1>5, RunIs, RunInLine
<1>7. ~hex => stop # cur
  BY <1>1, <1>6 DEF D
<1> HIDE DEF stop
<1>8. stop \in cur + 1 .. Past /\ stop \in Nat /\ NewLinesIn(cur, stop) = {}
  <2>1. stop \in Nat /\ body \in Nat /\ cur <= body /\ body <= stop /\ stop <= Past
    BY <1>3, <1>5, <1>6
  <2>2. stop # cur
    BY <1>3, <1>5, <1>7, <2>1
  <2> QED BY <1>3, <1>5, <1>6, <2>1, <2>2, NewLinesSplit
<1>9. /\ to \in cur + 1 .. Past /\ to \in Nat /\ NewLinesIn(cur, to) = {}
  <2>1. CASE fraction
    <3>1. stop <= Len(text) /\ ~Is(stop, "\n") /\ to = Run(stop + 1, Digit)
      BY <2>1 DEF Is, In
    <3>2. stop + 1 \in 1 .. Past /\ stop + 1 \in Nat
      BY <1>3, <1>8, <3>1
    <3>3. to \in stop + 1 .. Past /\ NewLinesIn(stop + 1, to) = {}
      BY <1>2, <1>4, <3>1, <3>2, RunIs, RunInLine
    <3> HIDE DEF to
    <3>4. NewLinesIn(stop, stop + 1) = {}
      BY <1>8, <3>1, OneOn
    <3>5. to \in Nat /\ cur \in Nat /\ cur <= stop /\ stop <= stop + 1 /\ stop + 1 <= to /\ to <= Past
      BY <1>3, <1>8, <3>3
    <3>6. NewLinesIn(cur, stop + 1) = {}
      BY <1>8, <3>2, <3>4, <3>5, NewLinesSplit
    <3>7. cur <= stop + 1
      BY <3>5, <1>8
    <3>8. NewLinesIn(cur, to) = {}
      BY <3>2, <3>3, <3>5, <3>6, <3>7, NewLinesSplit
    <3> QED BY <1>3, <1>8, <3>5, <3>8
  <2>2. CASE ~fraction
    BY <1>8, <2>2
  <2> QED BY <2>1, <2>2
<1> HIDE DEF to, fraction, hex
<1>10. CASE stop = body /\ error_at(body)
  <2>1. body \in cur .. Past /\ body > cur
    BY <1>3, <1>8, <1>5, <1>10
  <2> QED BY <1>3, <1>4, <1>5, <1>10, <2>1, EmitKeeps DEF error_at
<1>11. CASE In(to, IdentCont) /\ error_at(to + 1)
  <2>1. to <= Len(text) /\ ~Is(to, "\n")
    BY <1>11, CharKinds DEF Is, In
  <2>2. NewLinesIn(to, to + 1) = {}
    BY <1>9, <2>1, OneOn
  <2>3. to + 1 \in cur .. Past /\ to + 1 > cur /\ to + 1 \in Nat /\ cur <= to /\ to <= to + 1
    BY <1>3, <1>9, <2>1
  <2>4. NewLinesIn(cur, to + 1) = {}
    BY <1>3, <1>9, <2>2, <2>3, NewLinesSplit
  <2> QED BY <1>3, <1>4, <1>11, <2>3, <2>4, EmitKeeps DEF error_at
<1>12. to \in cur .. Past /\ to > cur
  BY <1>3, <1>9
<1>13. CASE finish("FLOAT", to, <<>>)
  BY <1>3, <1>4, <1>9, <1>12, <1>13, EmitKeeps DEF finish
<1>14. CASE error_at(to)
  BY <1>3, <1>4, <1>9, <1>12, <1>14, EmitKeeps DEF error_at
<1>15. CASE finish("INT", to, <<n.v>>)
  BY <1>3, <1>4, <1>9, <1>12, <1>15, EmitKeeps DEF finish
<1> QED BY <1>1, <1>10, <1>11, <1>13, <1>14, <1>15

LEMMA OpenKeeps ==
  ASSUME LexInv, OpenString
  PROVE  LexInv'
<1>1. PlaceInv /\ GapInv /\ LineInv /\ TokensTile
  BY DEF LexInv
<1>2. /\ Is(cur, "\"") /\ Between /\ text' = text /\ from' = cur /\ tokens' = tokens
      /\ errors' = errors /\ cur' = cur + 1 /\ line' = line /\ line_start' = line_start
  BY DEF OpenString, position
<1>3. /\ Len(text) \in Nat /\ Past = Len(text) + 1 /\ cur \in 1 .. Past /\ cur \in Nat \ {0}
      /\ from = 0 /\ Start = cur /\ cur <= Len(text) /\ ~Is(cur, "\n")
  BY <1>1, <1>2, Here DEF Is, In
<1>4. PICK c, to : c = cur /\ to = cur + 1
  OBVIOUS
<1>5. /\ to \in cur .. Past /\ NewLinesIn(cur, to) = {} /\ c \in 0 .. to - 1
      /\ NewLinesIn(c, to) = {} /\ c # 0
  BY <1>3, <1>4, OneOn
<1>6. /\ line = 1 + Cardinality(NewLinesIn(1, to)) /\ BeginsLine(line_start, to)
      /\ line_start \in 1 .. to
  BY <1>1, <1>5, LineStays
<1>7. TokensTile' /\ EndOfLast' = EndOfLast
  BY <1>1, <1>2, TokensStay
<1>8. PlaceInv'
  BY <1>1, <1>2, <1>4, <1>5, <1>6, PlacesStay DEF PlaceInv
<1>9. LineInv'
  BY <1>2, <1>4, <1>5, <1>6, SameText DEF LineInv
<1>10. GapInv'
  <2>1. Start' = Start /\ Start = c
    BY <1>2, <1>3, <1>4 DEF Start
  <2>2. PICK p : p = EndOfLast
    OBVIOUS
  <2>3. /\ p \in 1 .. c
        /\ \A k \in p .. c - 1 : In(k, Blank \cup {"\n"}) \/ InComment(k, p)
        /\ c = Past \/ Is(c, "\n") \/ ~Commented(p, c)
    BY <1>1, <2>1, <2>2 DEF GapInv
  <2> QED BY <1>2, <1>7, <2>1, <2>2, <2>3, SameText DEF GapInv
<1> QED BY <1>7, <1>8, <1>9, <1>10 DEF LexInv

LEMMA StringKeeps ==
  ASSUME LexInv, lex_string
  PROVE  LexInv'
<1> DEFINE u == scan_char_unit(cur)
<1>1. PlaceInv /\ GapInv /\ LineInv /\ TokensTile
  BY DEF LexInv
<1>2. /\ Len(text) \in Nat /\ Past = Len(text) + 1 /\ cur \in 1 .. Past /\ cur \in Nat \ {0}
      /\ from \in 1 .. cur - 1 /\ Start = from /\ NewLinesIn(from, cur) = {}
      /\ text \in Texts
  <2>1. text \in Texts /\ cur \in 1 .. Past /\ from \in 0 .. cur - 1 /\ from # 0
    BY <1>1 DEF PlaceInv, lex_string
  <2>2. Len(text) \in Nat /\ Past = Len(text) + 1 /\ Past \in Nat
    BY <2>1, TextLength DEF Past
  <2>3. Start = from
    BY <2>1 DEF Start
  <2>4. NewLinesIn(from, cur) = {}
    BY <1>1, <2>1 DEF LineInv
  <2>5. cur \in Nat \ {0} /\ from \in 1 .. cur - 1
    BY <2>1, <2>2
  <2> QED BY <2>1, <2>2, <2>3, <2>4, <2>5
<1>3. Is(from, "\"") /\ Solid(Start) /\ Start # Past
  <2>1. Is(from, "\"")
    BY <1>1 DEF LineInv, lex_string
  <2>2. ~Is(from, "#") /\ ~Is(from, "\n")
    BY <2>1 DEF Is, In
  <2>3. Start # Past
    BY <1>2
  <2> QED BY <1>2, <2>1, <2>2, <2>3 DEF Solid
<1>4. u.to \in cur .. Past /\ NewLinesIn(cur, u.to) = {} /\ (u.ok => u.to > cur)
  BY <1>2, UnitIs
<1> HIDE DEF u
<1>5. CASE Is(cur, "\"") /\ finish("STRING", cur + 1, buf)
  <2>1. cur <= Len(text) /\ ~Is(cur, "\n")
    BY <1>5 DEF Is, In
  <2>2. cur + 1 \in cur .. Past /\ cur + 1 > Start /\ NewLinesIn(cur, cur + 1) = {}
    BY <1>2, <2>1, OneOn
  <2> QED BY <1>3, <1>5, <2>2, EmitKeeps DEF finish
<1>6. CASE error_at(u.to)
  <2>1. u.to > Start
    BY <1>2, <1>4
  <2> QED BY <1>3, <1>4, <1>6, <2>1, EmitKeeps DEF error_at
<1>7. CASE /\ cur' = u.to
           /\ UNCHANGED <<text, position, from, tokens, errors>>
  <2>1. /\ text' = text /\ from' = from /\ tokens' = tokens /\ errors' = errors
        /\ line' = line /\ line_start' = line_start
    BY <1>7 DEF position
  <2>2. PICK f, to : f = from /\ to = u.to
    OBVIOUS
  <2>3. /\ to \in cur .. Past /\ f \in 1 .. cur - 1 /\ f \in 0 .. to - 1 /\ NewLinesIn(f, cur) = {}
        /\ NewLinesIn(cur, to) = {} /\ f # 0
    BY <1>2, <1>4, <2>2
  <2>4. /\ line = 1 + Cardinality(NewLinesIn(1, to)) /\ BeginsLine(line_start, to)
        /\ line_start \in 1 .. to
    BY <1>1, <2>3, LineStays
  <2>5. NewLinesIn(f, to) = {}
    <3>1. f \in Nat /\ to \in Nat /\ f <= cur /\ cur <= to
      BY <1>2, <2>3
    <3> QED BY <1>2, <2>3, <3>1, NewLinesSplit
  <2>6. TokensTile' /\ EndOfLast' = EndOfLast
    BY <1>1, <2>1, TokensStay
  <2>7. PlaceInv'
    BY <1>1, <1>7, <2>1, <2>2, <2>3, <2>4, PlacesStay DEF PlaceInv
  <2>8. LineInv'
    <3>1. Is(f, "\"")
      BY <1>3, <2>2
    <3> QED BY <1>7, <2>1, <2>2, <2>4, <2>5, <3>1, SameText DEF LineInv
  <2>9. GapInv'
    <3>1. Start' = Start /\ Start = f
      BY <1>2, <2>1, <2>2, <2>3 DEF Start
    <3>2. PICK p : p = EndOfLast
      OBVIOUS
    <3>3. /\ p \in 1 .. f
          /\ \A k \in p .. f - 1 : In(k, Blank \cup {"\n"}) \/ InComment(k, p)
          /\ f = Past \/ Is(f, "\n") \/ ~Commented(p, f)
      BY <1>1, <3>1, <3>2 DEF GapInv
    <3> QED BY <2>1, <2>6, <3>1, <3>2, <3>3, SameText DEF GapInv
  <2> QED BY <2>6, <2>7, <2>8, <2>9 DEF LexInv
<1> QED BY <1>5, <1>6, <1>7 DEF lex_string, u

LEMMA PunctKeeps ==
  ASSUME LexInv, punct
  PROVE  LexInv'
<1>1. PICK n \in DOMAIN Puncts : Spelled(Puncts[n]) /\ finish(Puncts[n], cur + Len(Puncts[n]), <<>>)
  BY DEF punct
<1> DEFINE p == Puncts[n]
<1>2. NoneAbove /\ Between
  BY DEF punct, NoneAbove
<1>3. PlaceInv /\ text \in Texts
  BY DEF LexInv, PlaceInv
<1>4. /\ Len(text) \in Nat /\ Past = Len(text) + 1 /\ cur \in 1 .. Past /\ cur \in Nat \ {0}
      /\ from = 0 /\ Start = cur /\ cur # Past
  BY <1>2, <1>3, Here DEF NoneAbove, AtEnd
<1>5. Solid(cur)
  BY <1>2, <1>4 DEF NoneAbove, Solid, Is, In
<1>6. p # "EOF" /\ p # "ERROR"
  BY TextAssumption
<1>7. Len(p) \in 1 .. 3 /\ "\n" \notin Chars(p)
  BY TextAssumption
<1> HIDE DEF p
<1>8. cur + Len(p) \in cur .. Past /\ cur + Len(p) > cur
  BY <1>1, <1>4, <1>7 DEF Spelled, p
<1>9. NewLinesIn(cur, cur + Len(p)) = {}
  <2>1. SUFFICES ASSUME NEW k \in cur .. cur + Len(p) - 1, Is(k, "\n") PROVE FALSE
    BY <1>4, <1>7 DEF NewLinesIn
  <2>2. k - cur + 1 \in 1 .. Len(p) /\ cur + (k - cur + 1) - 1 = k
    BY <1>4, <1>7
  <2>3. Char(k) = SubSeq(p, k - cur + 1, k - cur + 1)
    BY <1>1, <2>2 DEF Spelled, p
  <2>4. Char(k) \in Chars(p)
    BY <2>2, <2>3 DEF Chars
  <2> QED BY <1>7, <2>1, <2>4 DEF Is, In, Char
<1>10. Emit(p, cur + Len(p), <<>>) /\ errors' = errors
  BY <1>1 DEF finish, p
<1> QED BY <1>4, <1>5, <1>6, <1>8, <1>9, <1>10, EmitKeeps

LEMMA UnexpectedKeeps ==
  ASSUME LexInv, Unexpected
  PROVE  LexInv'
<1>1. NoneAbove /\ Between /\ error_at(cur + 1)
  BY DEF Unexpected, NoneAbove
<1>2. PlaceInv /\ text \in Texts
  BY DEF LexInv, PlaceInv
<1>3. /\ Len(text) \in Nat /\ Past = Len(text) + 1 /\ cur \in 1 .. Past /\ cur \in Nat \ {0}
      /\ from = 0 /\ Start = cur /\ cur # Past
  BY <1>1, <1>2, Here DEF NoneAbove, AtEnd
<1>4. Solid(cur) /\ ~Is(cur, "\n")
  BY <1>1, <1>3 DEF NoneAbove, Solid, Is, In
<1>5. cur + 1 \in cur .. Past /\ cur + 1 > cur /\ NewLinesIn(cur, cur + 1) = {}
  BY <1>3, <1>4, OneOn
<1> QED BY <1>1, <1>3, <1>4, <1>5, EmitKeeps DEF error_at

LEMMA EndKeeps ==
  ASSUME LexInv, EndOfFile
  PROVE  LexInv'
<1>1. AtEnd(cur) /\ Between /\ finish("EOF", cur, <<>>)
  BY DEF EndOfFile
<1>2. PlaceInv
  BY DEF LexInv
<1>3. /\ cur \in 1 .. Past /\ cur \in Nat \ {0} /\ Past \in Nat /\ Start = cur /\ cur = Past
  BY <1>1, <1>2, Here DEF AtEnd
<1>4. cur \in cur .. Past /\ NewLinesIn(cur, cur) = {} /\ Solid(cur)
  BY <1>3 DEF NewLinesIn, Solid
<1> QED BY <1>1, <1>3, <1>4, EmitKeeps DEF finish

LEMMA InitLex == Init => LexInv
<1> SUFFICES ASSUME Init PROVE LexInv
  OBVIOUS
<1>1. /\ text \in Texts /\ cur = 1 /\ line = 1 /\ line_start = 1 /\ from = 0
      /\ tokens = <<>> /\ errors = 0
  BY DEF Init
<1>2. Len(text) \in Nat /\ Start = 1 /\ EndOfLast = 1 /\ Past \in Nat \ {0}
  BY <1>1, TextLength DEF Start, EndOfLast, Past
<1>3. NewLinesIn(1, 1) = {} /\ Errors = {} /\ Cardinality({}) = 0
  BY <1>1, FS_EmptySet DEF NewLinesIn, Errors
<1>4. PlaceInv
  <2>1. tokens \in Seq({})
    BY <1>1
  <2> QED BY <1>1, <1>2, <2>1 DEF PlaceInv
<1>5. GapInv
  BY <1>1, <1>2 DEF GapInv, Commented
<1>6. LineInv
  <2>1. Cardinality(NewLinesIn(1, cur)) = 0
    BY <1>1, <1>3
  <2>2. BeginsLine(line_start, cur)
    BY <1>1, <1>3 DEF BeginsLine
  <2> QED BY <1>1, <2>1, <2>2 DEF LineInv
<1>7. TokensTile
  BY <1>1, <1>3 DEF TokensTile
<1> QED BY <1>4, <1>5, <1>6, <1>7 DEF LexInv

LEMMA StutterKeeps ==
  ASSUME LexInv, UNCHANGED vars
  PROVE  LexInv'
<1>1. PlaceInv /\ GapInv /\ LineInv /\ TokensTile
  BY DEF LexInv
<1>2. /\ text' = text /\ cur' = cur /\ line' = line /\ line_start' = line_start
      /\ from' = from /\ tokens' = tokens /\ errors' = errors
  BY DEF vars, position
<1>3. PICK c, f, p : c = cur /\ f = from /\ p = EndOfLast
  OBVIOUS
<1>4. TokensTile' /\ EndOfLast' = EndOfLast
  BY <1>1, <1>2, TokensStay
<1>5. PlaceInv'
  BY <1>1, <1>2 DEF PlaceInv, Past
<1>6. LineInv'
  BY <1>1, <1>2, <1>3, SameText DEF LineInv
<1>7. GapInv'
  <2>1. PICK s : s = Start
    OBVIOUS
  <2>2. Start' = s
    BY <1>2, <2>1 DEF Start
  <2> QED BY <1>1, <1>2, <1>3, <1>4, <2>1, <2>2, SameText DEF GapInv
<1> QED BY <1>4, <1>5, <1>6, <1>7 DEF LexInv

LEMMA StepKeeps == LexInv /\ [Next]_vars => LexInv'
BY NewLineKeeps, SkipKeeps, IdentKeeps, NumberKeeps, CharKeeps, OpenKeeps, StringKeeps,
   PunctKeeps, UnexpectedKeeps, EndKeeps, StutterKeeps DEF Next

\* No character is lost, whatever the text: the gaps are trivia, the tokens are
\* not empty and know their place, and the errors are counted (lexer_lex_all).
THEOREM TokensAreTiled == Spec => []TokensTile
<1>1. LexInv => TokensTile
  BY DEF LexInv
<1> QED BY <1>1, InitLex, StepKeeps, PTL DEF Spec
=============================================================================
