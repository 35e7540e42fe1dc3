------------------------------- MODULE Lexing -------------------------------
(***************************************************************************)
(* lexer.c: lexer_lex_all on one text.  A text is a string and a character *)
(* a string of length 1.  Positions count from 1; the end is one past the  *)
(* last character.                                                         *)
(***************************************************************************)
EXTENDS Integers, Sequences, FiniteSets, SequencesExt

CONSTANTS
  Texts,   \* the texts lexed
  ByteOf,  \* the byte of each character in them
  MaxU64   \* UINT64_MAX, one less than a power of two

VARIABLES
  text,
  cur, line, line_start,  \* of the Lexer
  from,    \* where the string being read began, 0 outside one
  buf,     \* its bytes so far
  tokens,
  errors   \* lx->errors

position == <<line, line_start>>
vars     == <<text, cur, position, from, buf, tokens, errors>>

Chars(s)   == {SubSeq(s, i, i) : i \in 1 .. Len(s)}
Digit      == {"0", "1", "2", "3", "4", "5", "6", "7", "8", "9"}
HexDigit   == Digit \cup {"a", "b", "c", "d", "e", "f", "A", "B", "C", "D", "E", "F"}
Lower      == {"a", "b", "c", "d", "e", "f", "g", "h", "i", "j", "k", "l", "m",
               "n", "o", "p", "q", "r", "s", "t", "u", "v", "w", "x", "y", "z"}
Upper      == {"A", "B", "C", "D", "E", "F", "G", "H", "I", "J", "K", "L", "M",
               "N", "O", "P", "Q", "R", "S", "T", "U", "V", "W", "X", "Y", "Z"}
IdentStart == Lower \cup Upper \cup {"_"}
IdentCont  == IdentStart \cup Digit
Blank      == {" ", "\t", "\r"}

hex_val(c) ==
  CHOOSE v \in 0 .. 15 : c \in {SubSeq("0123456789abcdef", v + 1, v + 1),
                                SubSeq("0123456789ABCDEF", v + 1, v + 1)}

Keywords ==
  {"let", "fn", "if", "else", "while", "break", "continue", "return", "struct", "enum",
   "extern", "mut", "as", "sizeof", "match", "true", "false", "null",
   "i8", "u8", "i32", "u32", "i64", "u64", "f32", "f64", "b8", "b32", "b64", "void"}

\* In the order the scanner probes them.
Puncts ==
  << "<<=", ">>=", "...", "&&", "||", "<<", ">>", "<=", ">=", "==", "!=", "+=", "-=", "*=",
     "/=", "%=", "&=", "|=", "^=", "->", "=>", "+", "-", "*", "/", "%", "!", "&", "|", "^",
     "~", "<", ">", "=", "(", ")", "{", "}", "[", "]", ".", ",", ";", ":" >>

\* What the provers cannot see of a string or of so long a sequence: a text has a
\* length and characters that have a byte; no punctuation is empty, has a newline
\* in it, or is called as the end or an error is.
ASSUME TextAssumption ==
  /\ \A t \in Texts : Len(t) \in Nat /\ \A i \in 1 .. Len(t) : SubSeq(t, i, i) \in DOMAIN ByteOf
  /\ \A n \in DOMAIN Puncts :
       /\ Len(Puncts[n]) \in 1 .. 3 /\ "\n" \notin Chars(Puncts[n])
       /\ Puncts[n] \notin {"EOF", "ERROR"}

-----------------------------------------------------------------------------
(* Looking at the text *)

AtEnd(i)   == i = Len(text) + 1
In(i, C)   == i <= Len(text) /\ SubSeq(text, i, i) \in C
Is(i, c)   == In(i, {c})
Char(i)    == SubSeq(text, i, i)

\* Where a run of characters of C that begins at i ends.
Run(i, C) ==
  CHOOSE j \in i .. Len(text) + 1 : ~In(j, C) /\ \A k \in i .. j - 1 : In(k, C)

\* Faulty: a wrapped value is expected to come out smaller.
WrapSeen(n, d, base) ==
  LET v == (n.v * base + d) % (MaxU64 + 1)
  IN  [v |-> v, overflow |-> n.overflow \/ v < n.v]

\* One more digit.
Push(n, d, base) ==
  [v        |-> (n.v * base + d) % (MaxU64 + 1),
   overflow |-> n.overflow \/ n.v > (MaxU64 - d) \div base]

Number(i, j, base) ==
  FoldLeft(LAMBDA n, d : Push(n, d, base), [v |-> 0, overflow |-> FALSE],
           [k \in 1 .. j - i |-> hex_val(Char(i + k - 1))])

Escape ==
  [c \in {"n", "r", "t", "0", "\\", "'", "\""} |->
     CASE c = "n" -> 10 [] c = "r" -> 13 [] c = "t" -> 9 [] c = "0" -> 0
       [] c = "\\" -> 92 [] c = "'" -> 39 [] c = "\"" -> 34]

\* What scan_char_unit reads at i: its byte and where it stops, also when it
\* finds no unit there.
scan_char_unit(i) ==
  LET Unit(to, byte) == [ok |-> TRUE, to |-> to, byte |-> byte]
      NoUnit(to)     == [ok |-> FALSE, to |-> to, byte |-> 0]
      hex == \A k \in {i + 2, i + 3} : In(k, HexDigit)
  IN  CASE AtEnd(i) \/ Is(i, "\n")             -> NoUnit(i)
        [] In(i, DOMAIN ByteOf \ {"\n", "\\"}) -> Unit(i + 1, ByteOf[Char(i)])
        [] Is(i, "\\") /\ (AtEnd(i + 1) \/ Is(i + 1, "\n")) -> NoUnit(i + 1)
        [] Is(i, "\\") /\ In(i + 1, DOMAIN Escape) -> Unit(i + 2, Escape[Char(i + 1)])
        [] Is(i, "\\") /\ Is(i + 1, "x") /\ hex ->
             Unit(i + 4, 16 * hex_val(Char(i + 2)) + hex_val(Char(i + 3)))
        [] OTHER -> NoUnit(i + 2)

-----------------------------------------------------------------------------
(* Tokens *)

Start == IF from = 0 THEN cur ELSE from

\* finish: a token that ends before `to`.
Emit(kind, to, val) ==
  /\ tokens' = Append(tokens, [kind |-> kind, from |-> Start, to |-> to, line |-> line,
                               col |-> Start - line_start + 1, val |-> val])
  /\ cur' = to /\ from' = 0 /\ buf' = <<>>
  /\ UNCHANGED <<text, position>>

finish(kind, to, val) == Emit(kind, to, val) /\ UNCHANGED errors
error_at(to) == Emit("ERROR", to, <<>>) /\ errors' = errors + 1

Done    == tokens # <<>> /\ tokens[Len(tokens)].kind = "EOF"
Between == from = 0 /\ ~Done

\* lexer_init.
Init ==
  /\ text \in Texts
  /\ cur = 1 /\ line = 1 /\ line_start = 1
  /\ from = 0 /\ buf = <<>> /\ tokens = <<>> /\ errors = 0

\* Faulty: line_start stays.
LineOnly ==
  /\ Between /\ Is(cur, "\n")
  /\ cur' = cur + 1 /\ line' = line + 1
  /\ UNCHANGED <<text, line_start, from, buf, tokens, errors>>

(* skip_trivia *)
NewLine ==
  /\ Between /\ Is(cur, "\n")
  /\ cur' = cur + 1 /\ line' = line + 1 /\ line_start' = cur + 1
  /\ UNCHANGED <<text, from, buf, tokens, errors>>

Skip ==
  /\ Between
  /\ \/ In(cur, Blank) /\ cur' = cur + 1
     \/ Is(cur, "#") /\ cur' = Run(cur, DOMAIN ByteOf \ {"\n"})
  /\ UNCHANGED <<text, position, from, buf, tokens, errors>>

lex_ident ==
  /\ Between /\ In(cur, IdentStart)
  /\ LET to   == Run(cur, IdentCont)
         word == SubSeq(text, cur, to - 1)
     IN  finish(IF word \in Keywords THEN word ELSE "IDENT", to, <<>>)

lex_number ==
  /\ Between /\ In(cur, Digit)
  /\ LET hex  == Is(cur, "0") /\ Is(cur + 1, "x")
         body == IF hex THEN cur + 2 ELSE cur
         stop == Run(body, IF hex THEN HexDigit ELSE Digit)
         fraction == ~hex /\ Is(stop, ".") /\ In(stop + 1, Digit)
         to   == IF fraction THEN Run(stop + 1, Digit) ELSE stop
         n    == Number(body, stop, IF hex THEN 16 ELSE 10)
     IN  CASE stop = body       -> error_at(body)
           [] stop # body /\ In(to, IdentCont) -> error_at(to + 1)
           [] stop # body /\ ~In(to, IdentCont) ->
                IF fraction THEN finish("FLOAT", to, <<>>)
                ELSE IF n.overflow THEN error_at(to)
                ELSE finish("INT", to, <<n.v>>)

lex_char ==
  /\ Between /\ Is(cur, "'")
  /\ LET u == scan_char_unit(cur + 1) IN
     \/ Is(cur + 1, "'") /\ error_at(cur + 2)
     \/ ~Is(cur + 1, "'") /\ ~(u.ok /\ Is(u.to, "'")) /\ error_at(u.to)
     \/ ~Is(cur + 1, "'") /\ u.ok /\ Is(u.to, "'") /\ finish("CHAR", u.to + 1, <<u.byte>>)

(* lex_string: the opening quote, and the turns of its loop. *)
OpenString ==
  /\ Between /\ Is(cur, "\"")
  /\ from' = cur /\ cur' = cur + 1
  /\ UNCHANGED <<text, position, buf, tokens, errors>>

\* Faulty: what is no unit is passed over.
ReadsOn ==
  /\ from # 0
  /\ LET u == scan_char_unit(cur) IN
     \/ Is(cur, "\"") /\ finish("STRING", cur + 1, buf)
     \/ /\ ~Is(cur, "\"")
        /\ buf' = (IF u.ok THEN Append(buf, u.byte) ELSE buf) /\ cur' = u.to
        /\ UNCHANGED <<text, position, from, tokens, errors>>

lex_string ==
  /\ from # 0
  /\ LET u == scan_char_unit(cur) IN
     \/ Is(cur, "\"") /\ finish("STRING", cur + 1, buf)
     \/ ~Is(cur, "\"") /\ ~u.ok /\ error_at(u.to)
     \/ /\ ~Is(cur, "\"") /\ u.ok
        /\ buf' = Append(buf, u.byte) /\ cur' = u.to
        /\ UNCHANGED <<text, position, from, tokens, errors>>

\* memcmp finds p here.
Spelled(p) ==
  /\ cur + Len(p) - 1 <= Len(text)
  /\ \A k \in 1 .. Len(p) : Char(cur + k - 1) = SubSeq(p, k, k)

\* None of the tokens above begins here.
NoneAbove ==
  /\ Between /\ ~AtEnd(cur)
  /\ ~In(cur, IdentCont \cup Blank \cup {"\n", "#", "'", "\""})

punct ==
  /\ NoneAbove
  /\ \E i \in DOMAIN Puncts :
       /\ Spelled(Puncts[i]) /\ \A j \in 1 .. i - 1 : ~Spelled(Puncts[j])
       /\ finish(Puncts[i], cur + Len(Puncts[i]), <<>>)

Unexpected ==
  /\ NoneAbove
  /\ \A i \in DOMAIN Puncts : ~Spelled(Puncts[i])
  /\ error_at(cur + 1)

EndOfFile == Between /\ AtEnd(cur) /\ finish("EOF", cur, <<>>)

Next ==
  \/ NewLine \/ Skip \/ lex_ident \/ lex_number \/ lex_char \/ OpenString \/ lex_string
  \/ punct \/ Unexpected \/ EndOfFile

Spec == Init /\ [][Next]_vars /\ WF_vars(Next)

-----------------------------------------------------------------------------
(* Every character is in a token or between two. *)

NewLinesIn(i, j) == {k \in i .. j - 1 : Is(k, "\n")}
InComment(k, i)  == \E h \in i .. k : Is(h, "#") /\ NewLinesIn(h, k) = {}
BeginsLine(k, i) == NewLinesIn(k, i) = {} /\ (k = 1 \/ Is(k - 1, "\n"))
PrevEnd(n)       == IF n = 1 THEN 1 ELSE tokens[n - 1].to
Errors           == {n \in DOMAIN tokens : tokens[n].kind = "ERROR"}

\* No character is lost: between two tokens there are only blanks, newlines and
\* comments, no token but the last is empty, an error's no more than another's,
\* each has the line and the column of its first byte, and the errors are
\* counted (lexer.h:149-157, lexer.c:129-146, 350-358).
TokensTile ==
  /\ errors = Cardinality(Errors)
  /\ tokens # <<>> =>
       LET n == Len(tokens)
           t == tokens[n]
       IN  /\ \A k \in PrevEnd(n) .. t.from - 1 :
                In(k, Blank \cup {"\n"}) \/ InComment(k, PrevEnd(n))
           /\ t.from < Len(text) + 1 => ~InComment(t.from, PrevEnd(n)) /\ t.to > t.from
           /\ t.kind = "EOF" <=> t.from = Len(text) + 1
           /\ t.line = 1 + Cardinality(NewLinesIn(1, t.from))
           /\ t.col = t.from - (CHOOSE k \in 1 .. t.from : BeginsLine(k, t.from)) + 1
=============================================================================
