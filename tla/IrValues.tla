------------------------------ MODULE IrValues ------------------------------
(***************************************************************************)
(* Values of the IR: the instructions lowering builds, what they compute   *)
(* on bit patterns, what ir_verify asks of them, and what LLVM does.  The  *)
(* code of an expression is kept as the set of its instructions, each with *)
(* the types of its operands; its value is kept with it.                   *)
(***************************************************************************)
EXTENDS ConvTypes
LOCAL INSTANCE Bitwise

IrInt(n)   == [k |-> "int", bits |-> n]
IrFloat(n) == [k |-> "float", bits |-> n]
IrPtr      == [k |-> "ptr", bits |-> W64]
IrVoid     == [k |-> "void", bits |-> 0]
IrAgg      == [k |-> "aggregate", bits |-> W64]
I64        == IrInt(W64)

\* ir_of_ty
IrOf(t) ==
  LET u == Underlying(t) IN
  CASE IsInteger(u) \/ IsBool(u) -> IrInt(Width(u))
    [] Kind(u) = "untyped_bool"  -> IrInt(W32)
    [] Kind(u) = "untyped_int"   -> IrInt(W64)
    [] IsFloat(u)                -> IrFloat(Width(u))
    [] Kind(u) = "untyped_float" -> IrFloat(W64)
    [] Kind(u) \in {"ptr", "null"} -> IrPtr
    [] IsAggregate(u)            -> IrAgg
    [] OTHER                     -> IrVoid

IsIrInt(ty)   == ty.k = "int"
IsIrFloat(ty) == ty.k = "float"
SignedOf(v, n) == IF v >= 2^(n - 1) THEN v - 2^n ELSE v

Instr(op, a, b)    == [op |-> op, a |-> a, b |-> b]
Value(ty, v, code) == [ty |-> ty, val |-> v, code |-> code]
Const(ty, v)       == Value(ty, IF IsIrInt(ty) THEN v % 2^ty.bits ELSE v, {})
Also(v, code)      == [v EXCEPT !.code = @ \cup code]

\* ir_build_cast; a float or a pointer keeps the number it stands for
Cast(op, v, want) ==
  LET x == CASE op \in {"sext", "sitofp"} -> SignedOf(v.val, v.ty.bits)
             [] OTHER                     -> v.val
  IN [ty   |-> want,
      val  |-> IF IsIrInt(want) THEN x % 2^want.bits ELSE x,
      code |-> v.code \cup {Instr(op, v.ty, want)}]

Truncated(x, y) == IF x >= 0 THEN (IF y > 0 THEN x \div y ELSE -(x \div (-y)))
                             ELSE (IF y > 0 THEN -((-x) \div y) ELSE (-x) \div (-y))
Remainder(x, y) == x - y * Truncated(x, y)

\* What an integer instruction computes; by zero, and past the width, anything.
IntOp(op, a, b, n) ==
  LET s == SignedOf(a, n)  t == SignedOf(b, n)  M == 2^n IN
  CASE op = "add" -> (a + b) % M
    [] op = "sub" -> (a - b) % M
    [] op = "mul" -> (a * b) % M
    [] op \in {"udiv", "urem", "sdiv", "srem"} /\ b = 0 -> 0
    [] op = "udiv" /\ b # 0 -> a \div b
    [] op = "urem" /\ b # 0 -> a % b
    [] op = "sdiv" /\ b # 0 -> Truncated(s, t) % M
    [] op = "srem" /\ b # 0 -> Remainder(s, t) % M
    [] op = "and" -> a & b
    [] op = "xor" -> a ^^ b
    [] op \in {"shl", "lshr", "ashr"} /\ b >= n -> 0
    [] op = "shl"  /\ b < n -> (a * 2^b) % M
    [] op = "lshr" /\ b < n -> a \div 2^b
    [] op = "ashr" /\ b < n -> (s \div 2^b) % M

FloatOp(op, a, b) ==
  CASE op = "fadd" -> a + b
    [] op = "fsub" -> a - b
    [] op = "fmul" -> a * b
    [] op = "fdiv" -> IF b = 0 THEN 0 ELSE Truncated(a, b)
    [] op = "frem" -> IF b = 0 THEN 0 ELSE Remainder(a, b)

\* The predicates of icmp: "s" and "u" before the relation, and those of fcmp.
Holds(rel, x, y) ==
  CASE rel = "==" -> x = y
    [] rel = "!=" -> x # y
    [] rel = "<"  -> x < y
    [] rel = ">=" -> x >= y

IntOps   == {"add", "sub", "mul", "udiv", "urem", "sdiv", "srem", "and", "xor",
             "shl", "lshr", "ashr"}
FloatOps == {"fadd", "fsub", "fmul", "fdiv", "frem"}

Binary(op, a, b) ==
  Value(a.ty,
        CASE op \in FloatOps                  -> FloatOp(op, a.val, b.val)
          [] op \in IntOps /\ IsIrInt(a.ty)   -> IntOp(op, a.val, b.val, a.ty.bits)
          [] OTHER                            -> 0,
        a.code \cup b.code \cup {Instr(op, a.ty, b.ty)})

Flag(cond) == IF cond THEN 1 ELSE 0

ICmp(rel, signed, a, b) ==
  LET x == IF signed /\ IsIrInt(a.ty) THEN SignedOf(a.val, a.ty.bits) ELSE a.val
      y == IF signed /\ IsIrInt(b.ty) THEN SignedOf(b.val, b.ty.bits) ELSE b.val
  IN Value(IrInt(1), Flag(Holds(rel, x, y)), a.code \cup b.code \cup {Instr("icmp", a.ty, b.ty)})

FCmp(rel, a, b) ==
  Value(IrInt(1), Flag(Holds(rel, a.val, b.val)),
        a.code \cup b.code \cup {Instr("fcmp", a.ty, b.ty)})

-----------------------------------------------------------------------------
(* ir_verify *)

VerifyInstr(i) ==
  CASE i.op \in IntOps             -> i.a = i.b /\ IsIrInt(i.a)
    [] i.op \in FloatOps           -> IsIrFloat(i.a)
    [] i.op \in {"icmp", "fcmp"}   -> i.a = i.b
    [] i.op \in {"load", "gep"}    -> i.a = IrPtr
    [] i.op = "store"              -> i.b.k = "aggregate" \/ i.a.bits <= i.b.bits
    [] i.op = "condbr"             -> i.a = IrInt(1)
    [] i.op = "ret"                -> i.a = i.b
    [] OTHER                       -> TRUE

(* LLVM: what the verifier leaves to the one who reads the text *)
Typed(i) ==
  CASE i.op \in IntOps     -> i.a = i.b /\ IsIrInt(i.a)
    [] i.op \in FloatOps   -> i.a = i.b /\ IsIrFloat(i.a)
    [] i.op = "icmp"       -> i.a = i.b /\ i.a.k \in {"int", "ptr"}
    [] i.op = "fcmp"       -> i.a = i.b /\ IsIrFloat(i.a)
    [] i.op = "load"       -> i.a = IrPtr /\ i.b # IrVoid
    [] i.op = "gep"        -> i.a = IrPtr /\ i.b = I64
    [] i.op = "element"    -> i.a # IrVoid
    [] i.op \in {"zext", "sext"} -> IsIrInt(i.a) /\ IsIrInt(i.b) /\ i.a.bits < i.b.bits
    [] i.op = "trunc"      -> IsIrInt(i.a) /\ IsIrInt(i.b) /\ i.a.bits > i.b.bits
    [] i.op = "fpext"      -> IsIrFloat(i.a) /\ IsIrFloat(i.b) /\ i.a.bits < i.b.bits
    [] i.op = "fptrunc"    -> IsIrFloat(i.a) /\ IsIrFloat(i.b) /\ i.a.bits > i.b.bits
    [] i.op \in {"sitofp", "uitofp"} -> IsIrInt(i.a) /\ IsIrFloat(i.b)
    [] i.op \in {"fptosi", "fptoui"} -> IsIrFloat(i.a) /\ IsIrInt(i.b)
    [] i.op = "inttoptr"   -> IsIrInt(i.a) /\ i.b = IrPtr
    [] i.op = "ptrtoint"   -> i.a = IrPtr /\ IsIrInt(i.b)
    [] i.op = "memcpy"     -> i.a = IrPtr
    [] i.op \in {"store", "ret", "argument"} -> i.a = i.b
    [] i.op = "condbr"     -> i.a = IrInt(1)
    [] OTHER               -> FALSE
=============================================================================
