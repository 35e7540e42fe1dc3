---------------------------- MODULE ConvMeaning ----------------------------
(***************************************************************************)
(* What a checked expression means, in numbers: integers of its type, with *)
(* two's complement wrap-around, and no bit patterns or instructions.      *)
(* This is the reference lowering is compared with.  A meaning is a set:   *)
(* empty when the language leaves the result open (division by zero, too   *)
(* far a shift, an out-of-range float, what memory holds), otherwise one   *)
(* number.  An untyped integer is itself.                                  *)
(***************************************************************************)
EXTENDS IrValues
LOCAL INSTANCE Bitwise

\* An expression; val is a literal's value or what a variable holds.
Node(k, op, kids, ty) == [kind |-> k, op |-> op, kids |-> kids, ty |-> ty, val |-> 0]
Leaf(k, ty, v)        == [kind |-> k, op |-> "", kids |-> <<>>, ty |-> ty, val |-> v]

Bytes(t) ==
  CASE Kind(t) = "void" -> 0
    [] Kind(t) # "void" -> CASE Width(t) = W8 -> 1 [] Width(t) = W32 -> 2 [] OTHER -> 4

IsWhole(t)    == IsInteger(t) \/ IsEnum(t)
Number(v, t)  == IF IsSigned(Underlying(t)) THEN SignedOf(v, Width(t)) ELSE v
Wrap(x, t)    == IF IsWhole(t) THEN Number(x % 2^Width(t), t) ELSE x
InRange(x, t) == Wrap(x, t) = x
Pattern(x)    == x % 2^W64

\* from one type to another, in value
Converted(x, from, to) ==
  IF IsFloat(from) /\ ~InRange(x, to) THEN {} ELSE {Wrap(x, to)}

Shift(op, x, y, t) ==
  IF y \notin 0 .. Width(t) - 1 THEN {}
  ELSE {Wrap(IF op = "<<" THEN x * 2^y ELSE x \div 2^y, t)}

Divided(op, x, y, t) ==
  CASE y = 0 -> {}
    [] y # 0 /\ op = "%" -> {Remainder(x, y)}
    [] y # 0 /\ op = "/" -> {q \in {Truncated(x, y)} : InRange(q, t) /\ (IsFloat(t) => q * y = x)}

\* i elements after p; no object is as large as half the address space
Offset(p, i, t) == IF i \in -(2^(W64 - 1) - 1) .. 2^(W64 - 1) - 1 THEN {p + i * Bytes(t)} ELSE {}

\* x op y, for operands of types lt and rt and a result of type t
Operated(op, x, y, lt, rt, t) ==
  CASE IsPtr(lt) /\ op = "+" -> Offset(x, y, Elem(lt))
    [] IsPtr(rt) /\ op = "+" -> Offset(y, x, Elem(rt))
    [] IsPtr(lt) /\ op = "-" /\ ~IsPtr(rt) -> Offset(x, -y, Elem(lt))
    [] IsPtr(lt) /\ op = "-" /\ IsPtr(rt) -> {Truncated(x - y, IF Bytes(Elem(lt)) = 0 THEN 1 ELSE Bytes(Elem(lt)))}
    [] ~IsPtr(lt) /\ ~IsPtr(rt) /\ op = "+" -> {Wrap(x + y, t)}
    [] ~IsPtr(lt) /\ op = "-"     -> {Wrap(x - y, t)}
    [] op = "*"                   -> {Wrap(x * y, t)}
    [] op \in {"/", "%"}          -> Divided(op, x, y, t)
    [] op = "&"                   -> {Wrap(Pattern(x) & Pattern(y), t)}
    [] op \in {"<<", ">>"}        -> Shift(op, x, y, t)
    [] op \in {"==", "!=", "<", ">="} -> {Flag(Holds(op, x, y))}
    [] op = "&&"                  -> {IF x = 0 THEN 0 ELSE y}
    [] op = "||"                  -> {IF x = 0 THEN y ELSE x}

RECURSIVE Meaning(_)

\* The address of a place.
Place(e) ==
  LET k == e.kids IN
  CASE e.kind = "name" /\ IsAggregate(e.ty)  -> {e.val}
    [] e.kind = "unary" -> Meaning(k[1])
    [] e.kind = "index" -> UNION {Offset(b, i, e.ty) : b \in Meaning(k[1]), i \in Meaning(k[2])}
    [] OTHER -> {}

Meaning(e) ==
  LET k == e.kids IN
  CASE e.kind \in {"int", "char", "float", "bool", "null", "member"} -> {Wrap(e.val, e.ty)}
    [] e.kind = "name" -> {IF IsAggregate(e.ty) THEN e.val ELSE Number(e.val, e.ty)}
    [] e.kind = "unary" /\ e.op = "-" -> {Wrap(-x, e.ty) : x \in Meaning(k[1])}
    [] e.kind = "unary" /\ e.op = "~" -> {Wrap(-x - 1, e.ty) : x \in Meaning(k[1])}
    [] e.kind = "unary" /\ e.op = "!" -> {1 - x : x \in Meaning(k[1])}
    [] e.kind = "unary" /\ e.op = "&" -> Place(k[1])
    [] e.kind = "unary" /\ e.op = "*" -> {}
    [] e.kind = "index" -> IF IsAggregate(e.ty) THEN Place(e) ELSE {}
    [] e.kind \in {"conv", "cast"} -> UNION {Converted(x, k[1].ty, e.ty) : x \in Meaning(k[1])}
    [] e.kind = "binary" ->
         UNION {Operated(e.op, x, y, k[1].ty, k[2].ty, e.ty) : x \in Meaning(k[1]), y \in Meaning(k[2])}
=============================================================================
