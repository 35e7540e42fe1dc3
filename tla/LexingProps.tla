---------------------------- MODULE LexingProps ----------------------------
(***************************************************************************)
(* The tokens of GRAMMAR.md 1 as a language, and what the lexer makes of   *)
(* a text in it.  Nothing here scans: a word is a token or it is not.      *)
(***************************************************************************)
EXTENDS Lexing

Of(w, C)   == w # "" /\ Chars(w) \subseteq C
From(w, i) == SubSeq(w, i, Len(w))

\* The byte a word stands for in a literal between quotes q, if any.
Bytes(w, q) ==
  IF Len(w) = 1 /\ w \in DOMAIN ByteOf \ {q, "\\", "\n"} THEN {ByteOf[w]}
  ELSE IF Len(w) = 2 /\ SubSeq(w, 1, 1) = "\\" /\ From(w, 2) \in DOMAIN Escape
  THEN {Escape[From(w, 2)]}
  ELSE IF Len(w) = 4 /\ SubSeq(w, 1, 2) = "\\x" /\ Of(From(w, 3), HexDigit)
  THEN {16 * hex_val(SubSeq(w, 3, 3)) + hex_val(From(w, 4))}
  ELSE {}

\* The ways to read a word as the inside of a string.
RECURSIVE Strings(_)
Strings(w) ==
  IF w = "" THEN {<<>>}
  ELSE UNION {{<<b>> \o rest : b \in Bytes(SubSeq(w, 1, n), "\""), rest \in Strings(From(w, n + 1))} :
              n \in {1, 2, 4} \cap (1 .. Len(w))}

RECURSIVE ValueOf(_, _)
ValueOf(w, base) ==
  IF w = "" THEN 0
  ELSE base * ValueOf(SubSeq(w, 1, Len(w) - 1), base) + hex_val(From(w, Len(w)))

Quoted(w, q) ==
  Len(w) >= 2 /\ SubSeq(w, 1, 1) = q /\ From(w, Len(w)) = q

Inside(w) == SubSeq(w, 2, Len(w) - 1)

\* What a word can be: kinds with their values.
Readings(w) ==
  (IF w \in Keywords \cup {Puncts[i] : i \in DOMAIN Puncts} THEN {[kind |-> w, val |-> <<>>]}
   ELSE {})
  \cup (IF Of(w, IdentCont) /\ SubSeq(w, 1, 1) \in IdentStart /\ w \notin Keywords
        THEN {[kind |-> "IDENT", val |-> <<>>]} ELSE {})
  \cup (IF Of(w, Digit) THEN {[kind |-> "INT", val |-> <<ValueOf(w, 10)>>]} ELSE {})
  \cup (IF Len(w) > 2 /\ SubSeq(w, 1, 2) = "0x" /\ Of(From(w, 3), HexDigit)
        THEN {[kind |-> "INT", val |-> <<ValueOf(From(w, 3), 16)>>]} ELSE {})
  \cup (IF \E i \in 2 .. Len(w) - 1 : /\ SubSeq(w, i, i) = "."
                                      /\ Of(SubSeq(w, 1, i - 1), Digit)
                                      /\ Of(From(w, i + 1), Digit)
        THEN {[kind |-> "FLOAT", val |-> <<>>]} ELSE {})
  \cup (IF Quoted(w, "'") THEN {[kind |-> "CHAR", val |-> <<b>>] : b \in Bytes(Inside(w), "'")}
        ELSE {})
  \cup (IF Quoted(w, "\"") THEN {[kind |-> "STRING", val |-> s] : s \in Strings(Inside(w))}
        ELSE {})

\* The ends of the words that begin at i and are tokens.
Ends(i) == {j \in i + 1 .. Len(text) + 1 : Readings(SubSeq(text, i, j - 1)) # {}}

\* Every token is the longest word at its place that is one, with the kind and
\* the value it alone can have; and where the lexer finds an error there is no
\* token, or a number that runs into a letter or does not fit in 64 bits
\* (lexer.h:53-55, lexer.c:175-392; GRAMMAR.md 1).
LexesTheGrammar ==
  tokens # <<>> /\ ~Done =>
    LET t        == tokens[Len(tokens)]
        longest  == CHOOSE j \in Ends(t.from) : \A k \in Ends(t.from) : k <= j
        readings == Readings(SubSeq(text, t.from, longest - 1))
        number   == \E r \in readings : r.kind \in {"INT", "FLOAT"}
        glued    == number /\ In(longest, IdentCont)
        too_big  == \E r \in readings : r.kind = "INT" /\ r.val[1] > MaxU64
        token    == Ends(t.from) # {} /\ ~glued /\ ~too_big
    IN  /\ t.kind = "ERROR" <=> ~token
        /\ token => t.to = longest /\ readings = {[kind |-> t.kind, val |-> t.val]}

\* Whatever the text, the lexer comes to its end (lexer.h:149-156).
Lexed == <>Done
=============================================================================
