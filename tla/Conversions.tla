---------------------------- MODULE Conversions ----------------------------
(***************************************************************************)
(* One expression from its parts to IR: sema types it, converts it and     *)
(* retypes its literals bottom up, something uses it, and lowering builds  *)
(* its instructions from the annotated tree alone.  stack holds the trees  *)
(* check_expr has returned for the operands so far.                        *)
(***************************************************************************)
EXTENDS ConvMeaning, FiniteSets

CONSTANTS
  Families,   \* bound: name -> [leaves, types, unary, binary, size] to build from
  OddForms    \* the forms in OddNames that are lowered in this instance

VARIABLES family, stack, nodes, phase, root, out

vars == <<family, stack, nodes, phase, root, out>>

Comparisons == {"==", "!=", "<", ">="}
Shifts      == {"<<", ">>"}
I32         == Core("i32")
UntypedBool == Core("untyped_bool")

-----------------------------------------------------------------------------
(* Sema: literals take the type of their context *)

\* Faulty: the operands keep their types.
ReachedNone(e) == {}

\* op_propagates, and what else retype_untyped descends into
Reached(e) ==
  CASE e.kind = "unary" /\ e.op \in {"-", "~"} -> {1}
    [] e.kind = "binary" /\ e.op \in {"+", "-", "*", "/", "%", "&"} -> {1, 2}
    [] e.kind = "binary" /\ e.op \in Shifts -> {1}
    [] OTHER -> {}

RECURSIVE Retype(_, _)
Retype(e, t) ==
  [e EXCEPT !.ty = t,
            !.kids = [i \in DOMAIN @ |-> IF i \in Reached(e) THEN Retype(@[i], t) ELSE @[i]]]

\* No "does not fit" is reported by retype_untyped.
RECURSIVE Fits(_, _)
Fits(e, t) ==
  /\ e.kind \in {"int", "char"} /\ IsInteger(t) => IntFits(t, e.val)
  /\ \A i \in Reached(e) : Fits(e.kids[i], t)

Coercible(e, t) ==
  e.ty = t \/ (Assignable(e.ty, t) /\ (IsUntyped(e.ty) => Fits(e, t)))

Coerce(e, t) ==
  CASE e.ty = t -> e
    [] e.ty # t /\ IsUntyped(e.ty)  -> Retype(e, t)
    [] e.ty # t /\ ~IsUntyped(e.ty) -> Node("conv", "", <<e>>, t)

\* check_value: at most one tree, none when a literal does not fit
Valued(e) ==
  LET t == DefaultType(e.kind, e.ty) IN {Coerce(e, d) : d \in {d \in {t} : Coercible(e, d)}}

\* A member is an EXPR_NAME too, though nothing stores it.
IsPlace(e) == e.kind \in {"name", "member", "index"} \/ (e.kind = "unary" /\ e.op = "*")

-----------------------------------------------------------------------------
(* Sema: operators.  Each gives the trees it accepts: one, or none when it *)
(* reports an error.                                                       *)

When(cond, x) == IF cond THEN {x} ELSE {}

CheckedUnary(op, e) ==
  CASE op = "-" -> When(IsNumeric(e.ty) /\ (IsInteger(e.ty) => IsSigned(e.ty)),
                        Node("unary", op, <<e>>, e.ty))
    [] op = "~" -> When(Integerish(e.ty), Node("unary", op, <<e>>, e.ty))
    [] op = "!" -> When(Boolish(e.ty), Node("unary", op, <<e>>, UntypedBool))
    [] op = "*" -> {Node("unary", op, <<v>>, Elem(v.ty)) :
                      v \in {v \in Valued(e) : IsPtr(v.ty) /\ Kind(Elem(v.ty)) # "void"}}
    [] op = "&" -> {Node("unary", op, <<v>>, PtrTo(v.ty)) : v \in {v \in Valued(e) : IsPlace(v)}}

\* check_binary_op: the types the operands are coerced to, and the result's
Rule(l, r, t) == [l |-> l, r |-> r, t |-> t]
OffsetType(t)   == IF IsInteger(t) THEN t ELSE Core("i64")
NullBeside(op, lt, rt) == op \in {"==", "!="} /\ IsPtr(lt) /\ Kind(rt) = "null"

PointerRules(op, lt, rt) ==
  CASE op \in {"+", "-"} /\ IsPtr(lt) /\ Integerish(rt) -> {Rule(lt, OffsetType(rt), lt)}
    [] op = "+" /\ IsPtr(rt) /\ Integerish(lt) -> {Rule(OffsetType(lt), rt, rt)}
    [] op = "-" /\ IsPtr(lt) /\ lt = rt -> {Rule(lt, rt, Core("i64"))}
    [] NullBeside(op, lt, rt) -> {Rule(lt, lt, UntypedBool)}
    [] NullBeside(op, rt, lt) -> {Rule(rt, rt, UntypedBool)}
    [] OTHER -> {}

OtherRules(op, lt, rt) ==
  CASE op \in {"&&", "||"} -> When(Boolish(lt) /\ Boolish(rt), Rule(lt, rt, UntypedBool))
    [] op \in Shifts ->
         When(Integerish(lt) /\ Integerish(rt),
              Rule(lt, IF Kind(rt) = "untyped_int" THEN I32 ELSE rt, lt))
    [] op \in Comparisons ->
         {Rule(c, c, UntypedBool) :
            c \in {c \in CommonType(lt, rt) : IsNumeric(c) \/ IsPtr(c) \/ IsEnum(c)}}
    [] op \in {"%", "&"} ->
         {Rule(c, c, c) : c \in {c \in CommonType(lt, rt) : Integerish(lt) /\ Integerish(rt)}}
    [] op \in {"+", "-", "*", "/"} ->
         {Rule(c, c, c) : c \in {c \in CommonType(lt, rt) : IsNumeric(lt) /\ IsNumeric(rt)}}

BinaryRules(op, lt, rt) ==
  IF PointerRules(op, lt, rt) # {} THEN PointerRules(op, lt, rt) ELSE OtherRules(op, lt, rt)

CheckedBinary(op, l, r) ==
  {Node("binary", op, <<Coerce(l, u.l), Coerce(r, u.r)>>, u.t) :
     u \in {u \in BinaryRules(op, l.ty, r.ty) : Coercible(l, u.l) /\ Coercible(r, u.r)}}

CheckedIndex(b, i) ==
  {Node("index", "", <<v, Coerce(i, OffsetType(i.ty))>>, Elem(v.ty)) :
     v \in {v \in Valued(b) : /\ Kind(v.ty) \in {"array", "ptr"} /\ Kind(Elem(v.ty)) # "void"
                              /\ IsInteger(i.ty) \/ Kind(i.ty) = "untyped_int"
                              /\ Coercible(i, OffsetType(i.ty))}}

CheckedCast(e, t) ==
  IF IsUntyped(e.ty) /\ Assignable(e.ty, t)
  THEN When(Fits(e, t), Node("cast", "", <<Retype(e, t)>>, t))
  ELSE {Node("cast", "", <<v>>, t) :
          v \in {v \in Valued(e) : IsSized(t) /\ CastAllowed(v.ty, t)}}

-----------------------------------------------------------------------------
(* Sema: uses of an expression.  tree is what lowering is given.           *)

Use(use, trees, t) == {[use |-> use, tree |-> e, ty |-> t] : e \in trees}

\* let, =, return and a fixed argument all end in coerce
CheckedTo(use, e, t) == Use(use, {Coerce(e, d) : d \in {d \in {t} : Coercible(e, d)}}, t)

\* Faulty: u8 is left alone.
PromotedSigned(t) ==
  CASE Kind(t) = "f32" -> Core("f64") [] Kind(t) = "i8" -> I32 [] OTHER -> t

Promoted(t) ==
  CASE Kind(t) = "f32" -> Core("f64")
    [] Kind(t) = "i8"  -> I32
    [] Kind(t) = "u8"  -> Core("u32")
    [] OTHER           -> t

CheckedVariadic(e) ==
  UNION {Use("variadic", {Coerce(v, Promoted(v.ty))}, Promoted(v.ty)) : v \in Valued(e)}

CheckedCondition(e) ==
  CASE Kind(e.ty) = "untyped_bool" -> Use("condition", {Coerce(e, Core("b8"))}, Core("b8"))
    [] IsBool(e.ty)                -> Use("condition", {e}, e.ty)
    [] OTHER                       -> {}

\* A label is a literal, retyped, or an enum member, which is not coerced.
LabelFor(label, t) ==
  IF label.kind = "member" THEN When(Assignable(label.ty, t), label)
                           ELSE When(Fits(label, t), Retype(label, t))

CheckedMatch(e, label) ==
  UNION {Use("match", {Node("binary", "==", <<v, l>>, UntypedBool) : l \in LabelFor(label, v.ty)}, v.ty) :
           v \in {v \in Valued(e) : IsInteger(v.ty) \/ IsEnum(v.ty)}}

\* a op= e; the target is a place, wrapped in a conversion if the operands' type is wider
CheckedCompound(op, a, e) ==
  {[use |-> "compound", tree |-> b, ty |-> a.ty] :
     b \in {b \in CheckedBinary(op, a, e) : Assignable(b.ty, a.ty)}}

-----------------------------------------------------------------------------
(* Lowering *)

\* Faulty: the width is all that counts.
ExtensionZero(from) == "zext"

Extension(from) == IF IsSigned(from) THEN "sext" ELSE "zext"

Resize(v, want, from) ==
  CASE v.ty.bits = want.bits -> v
    [] v.ty.bits > want.bits -> Cast("trunc", v, want)
    [] v.ty.bits < want.bits -> Cast(Extension(from), v, want)

ResizeFloat(v, want) ==
  CASE v.ty.bits = want.bits -> v
    [] v.ty.bits > want.bits -> Cast("fptrunc", v, want)
    [] v.ty.bits < want.bits -> Cast("fpext", v, want)

CoerceTo(v, want, from) ==
  CASE IsIrInt(v.ty) /\ IsIrInt(want)     -> Resize(v, want, from)
    [] IsIrFloat(v.ty) /\ IsIrFloat(want) -> ResizeFloat(v, want)
    [] OTHER                              -> v

Fail(v) == Also(v, {Instr("fail", v.ty, v.ty)})

LowerConversion(v, from, to) ==
  LET dst == IrOf(to) IN
  CASE Kind(to) \in {"ptr", "null"} /\ v.ty = IrPtr -> v
    [] Kind(to) \in {"ptr", "null"} /\ v.ty # IrPtr -> Cast("inttoptr", v, dst)
    [] v.ty = IrPtr /\ IsIrInt(dst)             -> Cast("ptrtoint", v, dst)
    [] IsIrInt(v.ty) /\ IsIrInt(dst)            -> Resize(v, dst, from)
    [] IsIrInt(v.ty) /\ IsIrFloat(dst)          -> Cast(IF IsSigned(from) THEN "sitofp" ELSE "uitofp", v, dst)
    [] IsIrFloat(v.ty) /\ IsIrInt(dst)          -> Cast(IF IsSigned(to) THEN "fptosi" ELSE "fptoui", v, dst)
    [] IsIrFloat(v.ty) /\ IsIrFloat(dst)        -> ResizeFloat(v, dst)
    [] Kind(to) \notin {"ptr", "null"} /\ ~IsIrInt(dst) /\ ~IsIrFloat(dst) ->
         IF v.ty = dst THEN v ELSE Fail(v)
    [] OTHER -> Fail(v)

IntBinop(op, signed) ==
  CASE op = "+" -> "add" [] op = "-" -> "sub" [] op = "*" -> "mul"
    [] op = "/" -> IF signed THEN "sdiv" ELSE "udiv"
    [] op = "%" -> IF signed THEN "srem" ELSE "urem"
    [] op = "&" -> "and" [] op = "<<" -> "shl"
    [] op = ">>" -> IF signed THEN "ashr" ELSE "lshr"

FloatBinop(op) ==
  CASE op = "+" -> "fadd" [] op = "-" -> "fsub" [] op = "*" -> "fmul" [] op = "/" -> "fdiv"
    [] OTHER -> "frem"

ToI1(v)         == IF v.ty = IrInt(1) THEN v ELSE ICmp("!=", FALSE, v, Const(v.ty, 0))
FromI1(v, want) == IF ~IsIrInt(want) \/ want.bits = 1 THEN v ELSE Cast("zext", v, want)

Load(addr, ty) == Value(ty, 0, addr.code \cup {Instr("load", addr.ty, ty)})

Negated(idx) == Binary("sub", Const(I64, 0), idx)

\* ir_build_gep_index
Gep(t, base, idx) ==
  Value(IrPtr, base.val + SignedOf(idx.val, W64) * Bytes(t),
        base.code \cup idx.code \cup {Instr("gep", base.ty, idx.ty), Instr("element", IrOf(t), idx.ty)})

\* Faulty: the index is as wide as it is.
PtrArithRaw(op, t, base, i) == Gep(t, base, IF op = "-" THEN Negated(i) ELSE i)

\* p + i, p - i and p += i
PtrArith(op, t, base, i) ==
  LET idx == IF i.ty = I64 THEN i ELSE Cast("sext", i, I64)
  IN Gep(t, base, IF op = "-" THEN Negated(idx) ELSE idx)

PtrDiff(t, a, b) ==
  Binary("sdiv", Binary("sub", Cast("ptrtoint", a, I64), Cast("ptrtoint", b, I64)),
         Const(I64, IF Bytes(t) = 0 THEN 1 ELSE Bytes(t)))

Arith(op, t, a, b) ==
  IF IsFloat(t) THEN Binary(FloatBinop(op), a, b) ELSE Binary(IntBinop(op, IsSigned(t)), a, b)

Compare(op, t, a, b) ==
  IF IsFloat(t) THEN FCmp(op, a, b) ELSE ICmp(op, IsSigned(t), a, b)

\* Faulty: each operand is stored as wide as it is.
ShortCircuitRaw(op, l, r, lt, rt, slot) ==
  Value(slot, IF (l.val # 0) = (op = "&&") THEN r.val ELSE l.val,
        l.code \cup r.code \cup {Instr("store", l.ty, slot), Instr("store", r.ty, slot)})

\* The slot has the expression's type, whatever the operands'.
ShortCircuit(op, l, r, lt, rt, slot) ==
  LET a == CoerceTo(l, slot, lt)
      b == CoerceTo(r, slot, rt)
  IN Value(slot, IF (l.val # 0) = (op = "&&") THEN b.val ELSE a.val,
           a.code \cup b.code \cup ToI1(l).code
             \cup {Instr("store", a.ty, slot), Instr("store", b.ty, slot),
                   Instr("condbr", ToI1(l).ty, slot)})

LowerBinary(e, l, r) ==
  LET lt == e.kids[1].ty  rt == e.kids[2].ty  op == e.op
      b == IF ~IsUntyped(lt) THEN CoerceTo(r, l.ty, rt) ELSE r
      a == IF IsUntyped(lt) THEN CoerceTo(l, r.ty, lt) ELSE l
  IN CASE op \in {"&&", "||"}  -> ShortCircuit(op, l, r, lt, rt, IrOf(e.ty))
       [] op \in Comparisons   -> FromI1(Compare(op, lt, a, b), IrOf(e.ty))
       [] op \in {"+", "-"} /\ IsPtr(lt) /\ IsPtr(rt)  -> PtrDiff(Elem(lt), a, b)
       [] op \in {"+", "-"} /\ IsPtr(lt) /\ ~IsPtr(rt) -> PtrArith(op, Elem(lt), a, b)
       [] OTHER                -> Arith(op, lt, a, b)

RECURSIVE Lower(_), LowerAddr(_)

LowerUnary(e) ==
  LET k == e.kids[1]  v == Lower(k) IN
  CASE e.op = "&" -> LowerAddr(k)
    [] e.op = "*" -> Load(v, IrOf(e.ty))
    [] e.op = "-" -> Binary(IF IsFloat(k.ty) THEN "fsub" ELSE "sub", Const(v.ty, 0), v)
    [] e.op = "~" -> Binary("xor", v, Const(v.ty, 2^W64 - 1))
    [] e.op = "!" -> FromI1(ICmp("==", FALSE, v, Const(v.ty, 0)), IrOf(e.ty))

LowerAddr(e) ==
  LET k == e.kids IN
  CASE e.kind = "name"  -> Const(IrPtr, IF IsAggregate(e.ty) THEN e.val ELSE 0)
    [] e.kind = "unary" -> Lower(k[1])
    [] e.kind = "conv"  -> LowerAddr(k[1])
    [] e.kind = "index" ->
         LET ptr == IF IsPtr(k[1].ty) THEN Lower(k[1]) ELSE LowerAddr(k[1])
             i   == Lower(k[2])
         IN Gep(e.ty, ptr, IF i.ty = I64 THEN i ELSE Cast(Extension(k[2].ty), i, I64))
    [] OTHER -> Fail(Const(IrPtr, 0))

Lower(e) ==
  LET k == e.kids IN
  CASE e.kind \in {"int", "char", "float", "bool", "member"} -> Const(IrOf(e.ty), e.val)
    [] e.kind = "null"  -> Const(IrPtr, 0)
    [] e.kind = "name"  ->
         IF IsAggregate(e.ty) THEN LowerAddr(e)
         ELSE Value(IrOf(e.ty), e.val, {Instr("load", IrPtr, IrOf(e.ty))})
    [] e.kind = "index" -> IF IsAggregate(e.ty) THEN LowerAddr(e) ELSE Load(LowerAddr(e), IrOf(e.ty))
    [] e.kind = "unary"  -> LowerUnary(e)
    [] e.kind = "binary" -> LowerBinary(e, Lower(k[1]), Lower(k[2]))
    [] e.kind \in {"conv", "cast"} -> LowerConversion(Lower(k[1]), k[1].ty, e.ty)

\* lower_assign with an operator: the target is loaded at its own type
LowerCompound(e) ==
  LET tt == e.kids[1].ty
      cur == Load(LowerAddr(e.kids[1]), IrOf(tt))
      rhs == Lower(e.kids[2])
      now == [cur EXCEPT !.val = e.kids[1].val]
  IN IF IsPtr(tt) THEN PtrArith(e.op, Elem(tt), now, rhs)
     ELSE Arith(e.op, tt, now, CoerceTo(rhs, now.ty, e.kids[2].ty))

Ending(op, v, want) == Also(v, {Instr(op, v.ty, want)})

LowerUse(r) ==
  LET want == IrOf(r.ty) IN
  CASE r.use = "store" ->
         IF IsAggregate(r.tree.ty) THEN Ending("memcpy", Lower(r.tree), want)
         ELSE Ending("store", CoerceTo(Lower(r.tree), want, r.tree.ty), want)
    [] r.use \in {"return", "argument"} ->
         Ending(IF r.use = "return" THEN "ret" ELSE "argument",
                CoerceTo(Lower(r.tree), want, r.tree.ty), want)
    [] r.use \in {"variadic", "statement"} -> Lower(r.tree)
    [] r.use = "condition" -> Ending("condbr", ToI1(Lower(r.tree)), IrVoid)
    [] r.use = "match" -> Ending("condbr", ICmp("==", FALSE, Lower(r.tree.kids[1]), Lower(r.tree.kids[2])), IrVoid)
    [] r.use = "compound" -> Ending("store", LowerCompound(r.tree), want)

-----------------------------------------------------------------------------
(* Forms this instance may leave aside: each is a known fault, see README. *)

IsOdd(form, e) ==
  LET k == e.kids
      bin == e.kind = "binary" IN
  CASE form = "untyped comparison" ->
         bin /\ e.op \in Comparisons /\ Kind(k[1].ty) \in {"untyped_int", "untyped_float"}
    [] form = "integer plus pointer" -> bin /\ IsPtr(e.ty) /\ ~IsPtr(k[1].ty)
    [] form = "unsigned offset" ->
         bin /\ IsPtr(e.ty) /\ Kind(k[2].ty) \in UnsignedInts /\ Width(k[2].ty) < W64
    [] form = "void offset" -> bin /\ IsPtr(e.ty) /\ Kind(Elem(e.ty)) = "void"
    [] form = "bits of a float" -> IsFloat(e.ty) /\ e.op \in {"&", "~"} \cup Shifts
    [] form = "negative enum" -> IsEnum(e.ty) /\ \E x \in Meaning(e) : x < 0
    [] form = "aggregate through a pointer" -> IsAggregate(e.ty) /\ e.kind = "unary"
    [] form = "aggregate cast" -> IsAggregate(e.ty) /\ e.kind = "cast"
    [] form = "address of a member" -> e.kind = "unary" /\ e.op = "&" /\ k[1].kind = "member"
    [] OTHER -> FALSE

OddNames == {"untyped comparison", "integer plus pointer", "unsigned offset", "void offset",
             "bits of a float", "negative enum", "aggregate through a pointer", "aggregate cast",
             "address of a member", "match width", "small variadic"}

RECURSIVE Within(_)
Within(e) == {e} \cup UNION {Within(e.kids[i]) : i \in DOMAIN e.kids}

OddIn(r) ==
  {f \in OddNames : \E e \in Within(r.tree) : IsOdd(f, e)}
    \cup {f \in {"match width"} :
            r.use = "match" /\ IrOf(r.tree.kids[1].ty) # IrOf(r.tree.kids[2].ty)}
    \cup {f \in {"small variadic"} :
            r.use = "variadic" /\ (IsBool(r.ty) \/ IsEnum(r.ty)) /\ Width(r.ty) < W32}

-----------------------------------------------------------------------------
(* The walk *)

NoUse == [use |-> "none", tree |-> Leaf("null", Core("null"), 0), ty |-> Core("null")]
NoOut == Value(IrVoid, 0, {})

Init ==
  /\ family \in DOMAIN Families
  /\ stack = <<>> /\ nodes = 0 /\ phase = "check"
  /\ root = NoUse /\ out = NoOut

F == Families[family]

\* Operands still to be combined need an operator each.
Room(n) == phase = "check" /\ nodes + n <= F.size

Top(i)  == stack[Len(stack) - i]
Drop(n) == SubSeq(stack, 1, Len(stack) - n)

\* check_expr returns one of trees in place of the last n operands, or reports an error.
Checked(trees, n) ==
  /\ nodes' = nodes + 1
  /\ \/ \E e \in trees : stack' = Append(Drop(n), e) /\ UNCHANGED phase
     \/ trees = {} /\ stack' = <<>> /\ phase' = "refused"
  /\ UNCHANGED <<family, root, out>>

Operand ==
  /\ Room(1 + Len(stack))
  /\ \E e \in F.leaves : stack' = Append(stack, e)
  /\ nodes' = nodes + 1
  /\ UNCHANGED <<family, phase, root, out>>

Unary ==
  /\ stack # <<>> /\ Room(Len(stack))
  /\ \E op \in F.unary : Checked(CheckedUnary(op, Top(0)), 1)

CastTo ==
  /\ stack # <<>> /\ Room(Len(stack))
  /\ \E t \in F.types : Checked(CheckedCast(Top(0), t), 1)

BinaryOp ==
  /\ Len(stack) >= 2 /\ Room(1)
  /\ \E op \in F.binary : Checked(CheckedBinary(op, Top(1), Top(0)), 2)

Index ==
  /\ Len(stack) >= 2 /\ Room(1)
  /\ Checked(CheckedIndex(Top(1), Top(0)), 2)

Used(uses) ==
  /\ phase = "check" /\ Len(stack) = 1
  /\ \/ \E u \in uses : root' = u /\ phase' = "accepted"
     \/ uses = {} /\ phase' = "refused" /\ UNCHANGED root
  /\ stack' = <<>>
  /\ UNCHANGED <<family, nodes, out>>

Assigned   == phase = "check" /\ Len(stack) = 1 /\
              \E t \in F.types : Used(CheckedTo("store", Top(0), t))
Passed     == phase = "check" /\ Len(stack) = 1 /\
              \E t \in {t \in F.types : ~IsAggregate(t)}, use \in {"return", "argument"} :
                Used(CheckedTo(use, Top(0), t))
Variadic   == phase = "check" /\ Len(stack) = 1 /\ Used(CheckedVariadic(Top(0)))
Condition  == phase = "check" /\ Len(stack) = 1 /\ Used(CheckedCondition(Top(0)))
Statement  == phase = "check" /\ Len(stack) = 1 /\
              Used(UNION {Use("statement", {v}, v.ty) : v \in Valued(Top(0))})
Matched    == phase = "check" /\ Len(stack) = 1 /\
              \E l \in {l \in F.leaves : l.kind \in {"int", "char", "member"}} :
                Used(CheckedMatch(Top(0), l))
Compounded == phase = "check" /\ Len(stack) = 1 /\
              \E op \in F.binary \ (Comparisons \cup {"&&", "||"}),
                 a \in {a \in F.leaves : a.kind = "name" /\ Kind(a.ty) # "array"} :
                Used(CheckedCompound(op, a, Top(0)))

LowerIt ==
  /\ phase = "accepted" /\ OddIn(root) \subseteq OddForms
  /\ out' = LowerUse(root) /\ phase' = "lowered"
  /\ UNCHANGED <<family, stack, nodes, root>>

Next ==
  \/ Operand \/ Unary \/ CastTo \/ BinaryOp \/ Index
  \/ Assigned \/ Passed \/ Variadic \/ Condition \/ Statement \/ Matched \/ Compounded
  \/ LowerIt

Spec == Init /\ [][Next]_vars
=============================================================================
