--------------------------- MODULE FrontEndProps ---------------------------
(***************************************************************************)
(* What the front end promises.                                            *)
(***************************************************************************)
EXTENDS Declared, Grammar

\* A parsed file was accepted without an error exactly when the grammar
\* derives it within the nesting limit, and then the tree is the one tree the
\* grammar gives it: precedence, grouping, suffix order and all
\* (parser.c:9, 224-526; GRAMMAR.md 2-5).
ParsesTheGrammar ==
  phase = "parse" /\ Parsed =>
    TreesOf(SubSeq(seen, 1, Len(seen) - 1), MaxNesting) =
      IF diag.count = 0 THEN {Top.kids[1]} ELSE {}

\* Whatever the text, every loop of the parser and its recovery moves on, and
\* main exits (parser.c:165-222, 561-572).
Exits == <>(phase = "exit")

=============================================================================
