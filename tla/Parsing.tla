------------------------------ MODULE Parsing ------------------------------
(***************************************************************************)
(* The parser at work on one file: the tables of ParserCode, run with a    *)
(* stack of activations.  One action is one thing a parse function does.   *)
(*                                                                         *)
(* The tokens are chosen as the parser comes to them: what it has not yet  *)
(* looked at cannot matter to it, so a prefix is explored once for all the *)
(* files that begin with it.                                               *)
(***************************************************************************)
EXTENDS ParserCode, Diagnostics

CONSTANT MaxNesting  \* MAX_NESTING

VARIABLES
  seen,    \* toks[0 .. pos]: the tokens passed and, last, the current one
  source,  \* what is still to come: forced tokens, then chunks of an alphabet
  stack,   \* the C stack: [fn, todo, kids, mark] of each activation
  depth,   \* p->depth
  diag     \* p->diag

parserVars == <<seen, source, stack, depth, diag>>

Now  == seen[Len(seen)]
Cur  == Kind(Now)
Here == Len(seen)

(***************************************************************************)
(* A source is [next, chunks, left, tail]: the tokens next, then at most   *)
(* `left` chunks out of the set chunks, then the tail and TOK_EOF.         *)
(***************************************************************************)
Ending(s) == [s EXCEPT !.next = s.tail \o <<"EOF">>, !.chunks = {}, !.left = 0]

Upcoming(s) ==
  IF s.next # <<>> THEN {s}
  ELSE {Ending(s)} \cup
       (IF s.left = 0 THEN {} ELSE {[s EXCEPT !.next = c, !.left = @ - 1] : c \in s.chunks})

\* The next token of s comes into view after the tokens before.
View(s, before) ==
  \E u \in Upcoming(s) : /\ seen' = Append(before, Head(u.next))
                         /\ source' = [u EXCEPT !.next = Tail(@)]

\* Never past TOK_EOF.
advance == IF Cur = "EOF" THEN UNCHANGED <<seen, source>> ELSE View(source, seen)

-----------------------------------------------------------------------------
(* Activations *)

Hole    == <<>>  \* NULL
Tree(label, kids) == <<label>> \o kids
DepthCounted == {"parse_expr", "parse_stmt"}

Top      == stack[Len(stack)]
Pop      == SubSeq(stack, 1, Len(stack) - 1)
Task     == Head(Top.todo)
Doing(whats) == /\ stack # <<>> /\ Cur # "ERROR"
                /\ Top.todo # <<>> /\ Task[1] \in whats

Activation(f) == [fn |-> f, todo |-> Row(f, "start", Cur), kids |-> <<>>, mark |-> 0]

\* The current activation with its task done.
Carry(s, todo, kids) ==
  [s EXCEPT ![Len(s)].todo = todo \o Tail(@), ![Len(s)].kids = kids]
Onward(kids) == stack' = Carry(stack, <<>>, kids)
\* return NULL
Quit(s) == [s EXCEPT ![Len(s)].todo = <<>>, ![Len(s)].kids = <<>>]

\* What a caller does with what it was returned.
Deliver(s, tree) ==
  LET f == s[Len(s)]
      t == Head(f.todo)
  IN  CASE t[1] = "parse" \/ tree # Hole -> Carry(s, <<>>, Append(f.kids, tree))
        [] t[1] = "need tree" /\ tree = Hole -> Quit(s)
        [] t[1] = "element" /\ tree = Hole -> Carry(s, <<Sync(t[3])>>, f.kids)

\* What a ladder of operand, operator, operand, ... holds once the rungs tighter
\* than a level, and its own, have taken their operands.
Folded(kids, level) ==
  LET n       == Len(kids)
      Operand == {i \in 1 .. n : i % 2 = 1}
      tree[i \in Operand] ==
        IF i = n THEN kids[n] ELSE Tree("Binary", <<kids[i], kids[i + 1], tree[i + 2]>>)
      Loose   == {i \in 1 .. n : i % 2 = 0 /\ Level(kids[i][1]) < level}
      first   == CHOOSE i \in Operand :
                   (\A j \in Loose : j < i) /\ (i = 1 \/ i - 1 \in Loose)
  IN  SubSeq(kids, 1, first - 1) \o <<tree[first]>>

-----------------------------------------------------------------------------
(* Steps *)

\* parse_program at the start of a file.
Start(s) ==
  /\ View(s, <<>>)
  /\ stack' = << [fn |-> "parse_program", todo |-> <<Then("start")>>, kids |-> <<>>,
                  mark |-> 0] >>
  /\ depth' = 0
  /\ diag' = diag_init

(* skip_error_tokens *)
SkipError ==
  /\ stack # <<>> /\ Cur = "ERROR"
  /\ diag' = diag_error(diag, Here)
  /\ advance
  /\ UNCHANGED <<stack, depth>>

Matches ==
  CASE Task[1] \in {"take", "keep"} -> TRUE
    [] Task[1] \in {"expect", "need"} -> Cur = Task[2]
    [] Task[1] \in {"name", "need name"} -> Cur = "IDENT"

Tokens == {"take", "keep", "expect", "need", "name", "need name"}

Shift ==
  /\ Doing(Tokens) /\ Matches
  /\ advance
  /\ Onward(IF Task[1] \in {"keep", "name", "need name"} THEN Append(Top.kids, <<Now>>)
            ELSE Top.kids)
  /\ UNCHANGED <<depth, diag>>

(* Faulty: the error is put where the element before began. *)
ReportAtMark ==
  /\ \/ Doing({"expect", "name"}) /\ ~Matches
     \/ Doing({"complain", "blame"})
  /\ diag' = diag_error(diag, IF Top.mark = 0 THEN Here ELSE Top.mark)
  /\ Onward(Top.kids)
  /\ UNCHANGED <<seen, source, depth>>

(* An error that the function carries on after. *)
Report ==
  /\ \/ Doing({"expect", "name"}) /\ ~Matches
     \/ Doing({"complain", "blame"})
  /\ diag' = diag_error(diag, IF Task[1] = "blame" THEN Top.mark ELSE Here)
  /\ Onward(Top.kids)
  /\ UNCHANGED <<seen, source, depth>>

(* An error, and return NULL. *)
Refuse ==
  /\ \/ Doing({"need", "need name"}) /\ ~Matches
     \/ Doing({"give up"})
  /\ diag' = diag_error(diag, Here)
  /\ stack' = Quit(stack)
  /\ UNCHANGED <<seen, source, depth>>

(* A decision on the current token. *)
Decide ==
  /\ Doing({"then"})
  /\ stack' = Carry(stack, Row(Top.fn, Task[2], Cur), Top.kids)
  /\ UNCHANGED <<seen, source, depth, diag>>

Reduce ==
  /\ Doing({"fold", "node"})
  /\ Onward(IF Task[1] = "node" THEN << Tree(Task[2], Top.kids) >>
            ELSE Folded(Top.kids, IF Cur \in BinaryOp THEN Level(Cur) ELSE 0))
  /\ UNCHANGED <<seen, source, depth, diag>>

(* before = p->pos *)
Remember ==
  /\ Doing({"mark"})
  /\ stack' = [Carry(stack, <<>>, Top.kids) EXCEPT ![Len(stack)].mark = Here]
  /\ UNCHANGED <<seen, source, depth, diag>>

(* Faulty: the check is missing. *)
NoProgress ==
  /\ Doing({"progress"})
  /\ Onward(Top.kids)
  /\ UNCHANGED <<seen, source, depth, diag>>

(* if (p->pos == before) advance(p) *)
MakeProgress ==
  /\ Doing({"progress"})
  /\ IF Here = Top.mark THEN advance ELSE UNCHANGED <<seen, source>>
  /\ Onward(Top.kids)
  /\ UNCHANGED <<depth, diag>>

Calls == {"parse", "need tree", "element"}

TooDeep(f) == f \in DepthCounted /\ depth >= MaxNesting

Marked == IF Task[1] = "element" THEN [stack EXCEPT ![Len(stack)].mark = Here] ELSE stack

Call ==
  /\ Doing(Calls) /\ ~TooDeep(Task[2])
  /\ stack' = Append(Marked, Activation(Task[2]))
  /\ depth' = IF Task[2] \in DepthCounted THEN depth + 1 ELSE depth
  /\ UNCHANGED <<seen, source, diag>>

CallTooDeep ==
  /\ Doing(Calls) /\ TooDeep(Task[2])
  /\ diag' = diag_error(diag, Here)
  /\ stack' = Deliver(Marked, Hole)
  /\ UNCHANGED <<seen, source, depth>>

Return ==
  /\ Len(stack) > 1 /\ Cur # "ERROR" /\ Top.todo = <<>>
  /\ stack' = Deliver(Pop, IF Top.kids = <<>> THEN Hole ELSE Top.kids[1])
  /\ depth' = IF Top.fn \in DepthCounted THEN depth - 1 ELSE depth
  /\ UNCHANGED <<seen, source, diag>>

-----------------------------------------------------------------------------
(* Recovery *)

ItemKeyword == {"fn", "struct", "enum", "let", "extern"}

\* The tokens a resync stops behind and those it stops at.
Boundary ==
  [sync_stmt   |-> [past |-> {";"},
                    at   |-> {"}", "{", "let", "if", "while", "match", "return", "break",
                              "continue"} \cup ItemKeyword],
   sync_member |-> [past |-> {";", ","}, at |-> {"}"}],
   sync_item   |-> [past |-> {}, at |-> ItemKeyword]]

\* One turn of a resync's loop.
Resync ==
  /\ Doing({"sync"})
  /\ LET b == Boundary[Task[2]] IN
     \/ /\ Cur \in b.at \cup {"EOF"}
        /\ Onward(Top.kids) /\ UNCHANGED <<seen, source>>
     \/ /\ Cur \in b.past
        /\ Onward(Top.kids) /\ advance
     \/ /\ Cur \notin b.at \cup b.past \cup {"EOF"}
        /\ advance /\ UNCHANGED stack
  /\ UNCHANGED <<depth, diag>>

ParserStep ==
  \/ SkipError \/ Shift \/ Report \/ Refuse \/ Decide \/ Reduce \/ Remember
  \/ MakeProgress \/ Call \/ CallTooDeep \/ Return \/ Resync

Parsed == Len(stack) = 1 /\ Cur # "ERROR" /\ Top.todo = <<>>
=============================================================================
