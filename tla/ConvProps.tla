----------------------------- MODULE ConvProps -----------------------------
(***************************************************************************)
(* What typing and lowering an expression promise.                         *)
(***************************************************************************)
EXTENDS Conversions

Done == phase = "lowered"

\* The number computed by the instructions of lowering.c is the number the
\* checked tree means: extensions, divisions, shifts and comparisons take the
\* signedness of the right operand, and offsets are scaled once.
MeaningKept ==
  Done => \A m \in Meaning(root.tree) :
            m = IF root.use \in {"condition", "match"} THEN out.val ELSE Number(out.val, root.ty)

\* sema.h: a tree sema returns 0 for is safe to lower: no fail() and nothing
\* ir_verify objects to.
NoInternalError == Done => \A i \in out.code : i.op # "fail" /\ VerifyInstr(i)

\* Nor does LLVM object: the verifier checks less than the backends rely on.
CodeIsTyped == Done => \A i \in out.code : Typed(i)

\* A conversion nobody wrote never changes a value.
WideningKeepsValue ==
  \A e \in Within(root.tree) : e.kind = "conv" => Meaning(e) = Meaning(e.kids[1])

\* The operands an operator takes its own type from.
TypeGivers(e) ==
  CASE e.kind = "unary" /\ e.op \in {"-", "~"} -> {e.kids[1]}
    [] e.kind = "binary" /\ e.op \in Shifts -> {e.kids[1]}
    [] e.kind = "binary" /\ e.op \in {"+", "-", "*", "/", "%", "&"} ->
         {k \in {e.kids[1], e.kids[2]} : ~\E i \in {1, 2} : IsPtr(e.kids[i].ty)}
    [] OTHER -> {}

\* A context type reaches every operand that gives its type to the result, or
\* `(size + 7) & ~7` is computed narrower than it is used (sema.c:496).
ContextReaches == \A e \in Within(root.tree) : \A k \in TypeGivers(e) : k.ty = e.ty

\* sema.c: a variadic argument is promoted as C promotes it, because the callee
\* reads an int or a double.
VariadicPromoted ==
  Done /\ root.use = "variadic" =>
    CASE IsIrInt(out.ty)   -> out.ty.bits >= W32
      [] IsIrFloat(out.ty) -> out.ty.bits = W64
      [] OTHER             -> TRUE

\* GRAMMAR.md:269: an untyped literal "with no context" is an i32, so two
\* that fit an i32 compare as signed numbers (lower_binary, lowering.c:534).
UntypedIsI32 ==
  LET c == root.tree  k == c.kids IN
  Done /\ root.use = "condition" /\ c.kind = "binary" /\ c.op \in Comparisons
       /\ (\A i \in DOMAIN k : Kind(k[i].ty) = "untyped_int") =>
    \A x \in Meaning(k[1]), y \in Meaning(k[2]) :
      InRange(x, I32) /\ InRange(y, I32) => out.val = Flag(Holds(c.op, x, y))
=============================================================================
