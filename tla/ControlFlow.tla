----------------------------- MODULE ControlFlow -----------------------------
(***************************************************************************)
(* The statements of one function body, as sema.c judges them and          *)
(* lowering.c translates them to basic blocks.  Both walk the same tree in *)
(* the same order, so the model walks it once, statement by statement: the *)
(* program is what the actions make it.  Sema contributes Sema.loop_depth  *)
(* and the divergence of every statement (stmt_diverges), lowering the     *)
(* blocks, its cursor and its stack of loops.  A body sema rejects is      *)
(* lowered here all the same, so that the two can be compared.             *)
(*                                                                         *)
(* An instruction of the model stands for the straight-line code of a      *)
(* statement.  Blocks are numbered in the order they are created.          *)
(***************************************************************************)
EXTENDS StructuredFlow, FiniteSets

CONSTANTS
  Shapes,     \* the expressions there are: "plain", or short-circuiting "and", "or"
  MaxLabels,  \* bound: labels of a match arm
  MaxSize     \* bound: statements, else branches and match arms in the body

ASSUME ControlFlowAssumption ==
  /\ Shapes \subseteq {"plain", "and", "or"}
  /\ MaxLabels \in Nat \ {0} /\ MaxSize \in Nat

VARIABLES
  phase,   \* "body", then "accepted", "missing_return" or "stray_jump"
  size,    \* syntax elements so far
  ir,      \* IrFunction's blocks and the IrBuilder's cursor
  loops,   \* Lower.loops
  depth,   \* Sema.loop_depth
  open     \* the statements both walks are inside of, innermost last

irVars == <<ir, loops>>
vars   == <<phase, size, ir, loops, depth, open, flowVars>>

-----------------------------------------------------------------------------
(* The IR builder *)

Instr(s)      == [op |-> "code", of |-> s, to |-> <<>>]
Jump(op, to)  == [op |-> op, of |-> 0, to |-> to]
Terminators   == {"ret", "br", "condbr", "unreachable"}

NBlocks(f)    == Len(f.blocks)
\* ir_block_new, n times
Fresh(f, n)   == [f EXCEPT !.blocks = @ \o [k \in 1 .. n |-> <<>>]]
\* ir_builder_position
At(f, b)      == [f EXCEPT !.cur = b]
\* emit: appended, terminated or not
Put(f, in)    == [f EXCEPT !.blocks[f.cur] = Append(@, in)]

Br(f, b)        == Put(f, Jump("br", <<b>>))
CondBr(f, t, e) == Put(f, Jump("condbr", <<t, e>>))

Terminated(f) ==
  LET b == f.blocks[f.cur] IN b # <<>> /\ b[Len(b)].op \in Terminators

\* Faulty: dead code goes after the terminator.
NotReopened(f) == f

\* What follows a terminator goes to a fresh block, which nothing jumps to.
EnsureOpen(f) == IF Terminated(f) THEN At(Fresh(f, 1), NBlocks(f) + 1) ELSE f

\* The end of a branch: on to block b, unless the branch left by itself.
GoOn(f, b) == IF Terminated(f) THEN f ELSE Br(f, b)

\* lower_short_circuit: the right operand in a block of its own.
ShortCircuit(f, shape) ==
  LET rhs == NBlocks(f) + 1
      end == NBlocks(f) + 2
      lhs == IF shape = "and" THEN CondBr(Fresh(f, 2), rhs, end)
                              ELSE CondBr(Fresh(f, 2), end, rhs)
  IN At(Br(At(lhs, rhs), end), end)

\* The expression of statement s.
Eval(f, s, shape) ==
  LET g == Put(f, Instr(s)) IN IF shape = "plain" THEN g ELSE ShortCircuit(g, shape)

-----------------------------------------------------------------------------
(* Statements.  div: a list of statements that diverges already, a match    *)
(* all of whose arms do; wasDiv: the then branch of an else; wild: the      *)
(* wildcard arm's block, 0 for none; resume: where an arm's test chain      *)
(* stopped.                                                                 *)

Frame(k, d) ==
  [kind |-> k, div |-> d, wasDiv |-> FALSE, end |-> 0, alt |-> 0, wild |-> 0, resume |-> 0]

Top       == open[Len(open)]
Below     == SubSeq(open, 1, Len(open) - 1)
SetTop(f) == [open EXCEPT ![Len(open)] = f]

\* Places for a statement; an arm takes one.
Lists  == {"fn", "block", "then", "else", "while"}
AtStmt == phase = "body" /\ size < MaxSize /\ Top.kind \in Lists \cup {"arm"}
Grow   == size' = size + 1

\* The walk is back in frames, from a statement that diverges or does not:
\* block_diverges takes any statement of a list, an arm has just one.
After(frames, diverges) ==
  LET f == frames[Len(frames)]
  IN [frames EXCEPT ![Len(frames)] =
        IF f.kind = "arm" THEN [f EXCEPT !.div = diverges, !.kind = "arm_done"]
                          ELSE [f EXCEPT !.div = @ \/ diverges]]

Lowered == EnsureOpen(ir)

(* A declaration, an assignment or an expression statement. *)
Simple(shape) ==
  /\ AtStmt
  /\ ir' = Eval(Lowered, This, shape)
  /\ open' = After(open, FALSE)
  /\ Grow /\ Through
  /\ UNCHANGED <<phase, loops, depth>>

Empty ==
  /\ AtStmt
  /\ ir' = Lowered
  /\ open' = After(open, FALSE)
  /\ Grow
  /\ UNCHANGED <<phase, loops, depth, flowVars>>

Return(shape) ==
  /\ AtStmt
  /\ ir' = Put(Eval(Lowered, This, shape), Jump("ret", <<>>))
  /\ open' = After(open, TRUE)
  /\ Grow /\ Away
  /\ UNCHANGED <<phase, loops, depth>>

(* break and continue, outside a loop and inside. *)
StrayJump ==
  /\ AtStmt /\ depth = 0
  /\ phase' = "stray_jump"
  /\ UNCHANGED <<size, ir, loops, depth, open, flowVars>>

\* Faulty: out of the outermost loop.
BreakFar ==
  /\ AtStmt /\ depth > 0
  /\ ir' = Br(Put(Lowered, Instr(This)), loops[1].breakTo)
  /\ open' = After(open, TRUE)
  /\ Grow /\ Breaks
  /\ UNCHANGED <<phase, loops, depth>>

Break ==
  /\ AtStmt /\ depth > 0
  /\ ir' = Br(Put(Lowered, Instr(This)), loops[Len(loops)].breakTo)
  /\ open' = After(open, TRUE)
  /\ Grow /\ Breaks
  /\ UNCHANGED <<phase, loops, depth>>

Continue ==
  /\ AtStmt /\ depth > 0
  /\ ir' = Br(Put(Lowered, Instr(This)), loops[Len(loops)].continueTo)
  /\ open' = After(open, TRUE)
  /\ Grow /\ Continues
  /\ UNCHANGED <<phase, loops, depth>>

BlockOpen ==
  /\ AtStmt
  /\ ir' = Lowered
  /\ open' = Append(open, Frame("block", FALSE))
  /\ Grow
  /\ UNCHANGED <<phase, loops, depth, flowVars>>

BlockClose ==
  /\ phase = "body" /\ Top.kind = "block"
  /\ open' = After(Below, Top.div)
  /\ UNCHANGED <<phase, size, ir, loops, depth, flowVars>>

(* lower_if: the blocks first, then the condition.  `else if` is an else *)
(* branch that holds an if.                                              *)
IfOpen(shape, hasElse) ==
  /\ AtStmt
  /\ LET f   == Lowered
         n   == NBlocks(f)
         end == IF hasElse THEN n + 3 ELSE n + 2
         g   == Eval(Fresh(f, end - n), This, shape)
     IN /\ ir' = At(CondBr(g, n + 1, n + 2), n + 1)
        /\ open' = Append(open, [Frame("then", FALSE) EXCEPT
                                   !.end = end, !.alt = IF hasElse THEN n + 2 ELSE 0])
  /\ Grow /\ Into("if")
  /\ UNCHANGED <<phase, loops, depth>>

IfClose ==
  /\ phase = "body" /\ Top.kind = "then" /\ Top.alt = 0
  /\ ir' = At(GoOn(ir, Top.end), Top.end)
  /\ open' = After(Below, FALSE)
  /\ OutOfIf
  /\ UNCHANGED <<phase, size, loops, depth>>

ElseOpen ==
  /\ phase = "body" /\ Top.kind = "then" /\ Top.alt # 0
  /\ ir' = At(GoOn(ir, Top.end), Top.alt)
  /\ open' = SetTop([Top EXCEPT !.kind = "else", !.div = FALSE, !.wasDiv = Top.div])
  /\ Else
  /\ UNCHANGED <<phase, size, loops, depth>>

\* Faulty: an if never diverges.
ElseCloseOn ==
  /\ phase = "body" /\ Top.kind = "else"
  /\ ir' = At(GoOn(ir, Top.end), Top.end)
  /\ open' = After(Below, FALSE)
  /\ OutOfElse
  /\ UNCHANGED <<phase, size, loops, depth>>

ElseClose ==
  /\ phase = "body" /\ Top.kind = "else"
  /\ ir' = At(GoOn(ir, Top.end), Top.end)
  /\ open' = After(Below, Top.wasDiv /\ Top.div)
  /\ OutOfElse
  /\ UNCHANGED <<phase, size, loops, depth>>

(* lower_while: the condition in a block of its own, which the body and *)
(* every continue come back to.                                         *)
WhileOpen(shape) ==
  /\ AtStmt
  /\ LET f    == Lowered
         cond == NBlocks(f) + 1
         body == cond + 1
         end  == cond + 2
         test == Eval(At(Br(Fresh(f, 3), cond), cond), This, shape)
     IN /\ ir' = At(CondBr(test, body, end), body)
        /\ loops' = Append(loops, [continueTo |-> cond, breakTo |-> end])
        /\ open' = Append(open, [Frame("while", FALSE) EXCEPT !.end = end, !.alt = cond])
  /\ depth' = depth + 1
  /\ Grow /\ Into("while")
  /\ UNCHANGED phase

\* Faulty: sema forgets to leave the loop.
WhileCloseDeep ==
  /\ phase = "body" /\ Top.kind = "while"
  /\ ir' = At(GoOn(ir, Top.alt), Top.end)
  /\ loops' = SubSeq(loops, 1, Len(loops) - 1)
  /\ open' = After(Below, FALSE)
  /\ OutOfLoop
  /\ UNCHANGED <<phase, size, depth>>

WhileClose ==
  /\ phase = "body" /\ Top.kind = "while"
  /\ ir' = At(GoOn(ir, Top.alt), Top.end)
  /\ loops' = SubSeq(loops, 1, Len(loops) - 1)
  /\ depth' = depth - 1
  /\ open' = After(Below, FALSE)
  /\ OutOfLoop
  /\ UNCHANGED <<phase, size>>

(* lower_match: a chain of tests, with the bodies beside it. *)
MatchOpen(shape) ==
  /\ AtStmt
  /\ LET f == Eval(Lowered, This, shape)
     IN /\ ir' = Fresh(f, 1)
        /\ open' = Append(open, [Frame("match", TRUE) EXCEPT !.end = NBlocks(f) + 1])
  /\ Grow /\ Into("match")
  /\ UNCHANGED <<phase, loops, depth>>

LabelTest(f, body) ==
  LET next == NBlocks(f) + 1 IN At(CondBr(Fresh(f, 1), body, next), next)

LabelTests(f, body, n) ==
  LET chain[k \in 0 .. n] == IF k = 0 THEN f ELSE LabelTest(chain[k - 1], body)
  IN chain[n]

\* An arm of n labels; with `_` among them none is tested.
ArmOpen(n, isWildcard) ==
  /\ phase = "body" /\ size < MaxSize /\ Top.kind = "match"
  /\ LET body  == NBlocks(ir) + 1
         tests == LabelTests(Fresh(ir, 1), body, IF isWildcard THEN 0 ELSE n)
     IN /\ ir' = At(tests, body)
        /\ open' = Append(SetTop([Top EXCEPT !.wild = IF isWildcard THEN body ELSE @]),
                          [Frame("arm", FALSE) EXCEPT !.end = Top.end, !.resume = tests.cur])
  /\ Grow /\ IntoArm(isWildcard)
  /\ UNCHANGED <<phase, loops, depth>>

ArmClose ==
  /\ phase = "body" /\ Top.kind = "arm_done"
  /\ ir' = At(GoOn(ir, Top.end), Top.resume)
  /\ open' = [Below EXCEPT ![Len(Below)].div = @ /\ Top.div]
  /\ OutOfArm
  /\ UNCHANGED <<phase, size, loops, depth>>

\* Faulty: a match diverges with its arms, wildcard or not.
MatchCloseNoWild ==
  /\ phase = "body" /\ Top.kind = "match"
  /\ ir' = At(Br(ir, IF Top.wild # 0 THEN Top.wild ELSE Top.end), Top.end)
  /\ open' = After(Below, Top.div)
  /\ OutOfMatch
  /\ UNCHANGED <<phase, size, loops, depth>>

MatchClose ==
  /\ phase = "body" /\ Top.kind = "match"
  /\ ir' = At(Br(ir, IF Top.wild # 0 THEN Top.wild ELSE Top.end), Top.end)
  /\ open' = After(Below, Top.wild # 0 /\ Top.div)
  /\ OutOfMatch
  /\ UNCHANGED <<phase, size, loops, depth>>

(* The end of check_fn, which may miss a return, and of lower_function: only *)
(* here does it matter whether the function returns a value.                 *)
FnEnd(isVoid) ==
  /\ phase = "body" /\ Top.kind = "fn"
  /\ phase' = IF ~isVoid /\ ~Top.div THEN "missing_return" ELSE "accepted"
  /\ ir' = IF Terminated(ir) THEN ir
           ELSE Put(ir, Jump(IF isVoid THEN "ret" ELSE "unreachable", <<>>))
  /\ UNCHANGED <<size, loops, depth, open, flowVars>>

-----------------------------------------------------------------------------
\* The entry block has the parameters' slots.
Init ==
  /\ phase = "body" /\ size = 0
  /\ ir = [blocks |-> <<<<Instr(0)>>>>, cur |-> 1]
  /\ loops = <<>> /\ depth = 0
  /\ open = <<Frame("fn", FALSE)>>
  /\ FlowInit

Next ==
  \/ \E shape \in Shapes : Simple(shape)
  \/ Empty
  \/ \E shape \in Shapes : Return(shape)
  \/ StrayJump
  \/ Break
  \/ Continue
  \/ BlockOpen
  \/ BlockClose
  \/ \E shape \in Shapes, hasElse \in BOOLEAN : IfOpen(shape, hasElse)
  \/ IfClose
  \/ ElseOpen
  \/ ElseClose
  \/ \E shape \in Shapes : WhileOpen(shape)
  \/ WhileClose
  \/ \E shape \in Shapes : MatchOpen(shape)
  \/ \E n \in 1 .. MaxLabels, isWildcard \in BOOLEAN : ArmOpen(n, isWildcard)
  \/ ArmClose
  \/ MatchClose
  \/ \E isVoid \in BOOLEAN : FnEnd(isVoid)

Spec == Init /\ [][Next]_vars

-----------------------------------------------------------------------------
(* Properties *)

Complete  == phase \in {"accepted", "missing_return"}
BlockIds  == 1 .. NBlocks(ir)
Leaving(b) == LET is == ir.blocks[b] IN {is[Len(is)].to[k] : k \in DOMAIN is[Len(is)].to}

\* The cursor is in a block, and every frame names blocks there are.
TypeOK ==
  /\ phase \in {"body", "accepted", "missing_return", "stray_jump"}
  /\ ir.cur \in BlockIds
  /\ \A d \in DOMAIN open : \A b \in {open[d].end, open[d].alt, open[d].wild, open[d].resume} :
       b \in BlockIds \cup {0}
  /\ depth = Len(loops)

\* ir_verify has nothing to say of an accepted body's control flow: every
\* block ends in its one terminator, and jumps stay in the function, whatever
\* was written after a return or a break (ir.c:618-695, lowering.c:784-790).
BlocksVerify ==
  Complete =>
    \A b \in BlockIds :
      LET is == ir.blocks[b]
      IN /\ is # <<>>
         /\ \A j \in DOMAIN is : is[j].op \in Terminators <=> j = Len(is)
         /\ Leaving(b) \subseteq BlockIds

\* The blocks reached from those of B through the blocks of P.
Reach(B, P) ==
  LET r[n \in 0 .. Cardinality(P)] ==
        IF n = 0 THEN B
        ELSE LET before == r[n - 1] IN before \cup UNION {Leaving(b) : b \in before \cap P}
  IN r[Cardinality(P)]

\* The places of a block's statements, its first statement, its last, and those
\* that come one right after the other in it.
Codes(is)     == {j \in DOMAIN is : is[j].op = "code"}
FirstCode(is) == is[CHOOSE j \in Codes(is) : \A k \in Codes(is) : j <= k].of
LastCode(is)  == is[CHOOSE j \in Codes(is) : \A k \in Codes(is) : k <= j].of
InTurn(is)    == {<<is[p[1]].of, is[p[2]].of>> :
                    p \in {q \in Codes(is) \X Codes(is) :
                       q[1] < q[2] /\ \A i \in Codes(is) : i <= q[1] \/ q[2] <= i}}

\* The statements that can come one right after the other in the graph: two in
\* a block, or the last of one block and the first met on the way from there.
GraphEdges ==
  LET silent  == {b \in BlockIds : Codes(ir.blocks[b]) = {}}
      Onto(b) == {FirstCode(ir.blocks[c]) : c \in Reach(Leaving(b), silent) \ silent}
  IN (UNION {InTurn(ir.blocks[b]) : b \in BlockIds})
     \cup (UNION {{LastCode(ir.blocks[b])} \X Onto(b) : b \in BlockIds \ silent})

\* The blocks implement the structured program: one statement can come right
\* after another in the graph exactly if it can in the text, dead code
\* included; so break and continue find their loop from inside any match, an
\* arm never falls through, and what follows a return has no way in
\* (lowering.c:875-1021).
FlowExact == Complete => GraphEdges = edges

\* "Sema proved every path returns": no path of an accepted function that
\* returns a value reaches the end of its body (lowering.c:1093-1096).
EndUnreached ==
  LET reached == Reach({1}, BlockIds)
  IN \A b \in reached : \A j \in DOMAIN ir.blocks[b] : ir.blocks[b][j].op # "unreachable"

NoFallOff == phase = "accepted" => EndUnreached

\* "missing_return" is said of no function that has none: its end is reachable
\* if conditions are not looked at (sema.c:1361-1409).
BlamesRealPaths == phase = "missing_return" => ~EndUnreached
=============================================================================
