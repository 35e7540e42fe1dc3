----------------------------- MODULE ConvTypes -----------------------------
(***************************************************************************)
(* types.c and the conversion rules of sema.c, as predicates on types.  A  *)
(* type is a tuple, its kind first: a pointer is <<"ptr">> before the type *)
(* it points to, an enum is <<"enum", name>>, so that two equal tuples are *)
(* the one interned Ty.                                                    *)
(***************************************************************************)
EXTENDS Integers, Sequences

CONSTANTS
  W8, W32, W64,   \* bits of the three integer widths (8, 32 and 64 in the code)
  EnumBase        \* enum name -> its underlying core type

Core(k)      == <<k>>
SignedInts   == {"i8", "i32", "i64"}
UnsignedInts == {"u8", "u32", "u64"}

ASSUME ConvAssumption ==
  /\ W8 \in Nat /\ W32 \in Nat /\ W64 \in Nat
  /\ 1 < W8 /\ W8 < W32 /\ W32 < W64
  /\ \A e \in DOMAIN EnumBase : \E k \in SignedInts \cup UnsignedInts : EnumBase[e] = Core(k)

Kind(t)    == Head(t)
Elem(t)    == Tail(t)
PtrTo(t)   == <<"ptr">> \o t
IsPtr(t)   == Kind(t) = "ptr"
IsEnum(t)  == Kind(t) = "enum"
Base(t)    == EnumBase[t[2]]
Underlying(t) == IF IsEnum(t) THEN Base(t) ELSE t

IsInteger(t)   == Kind(t) \in SignedInts \cup UnsignedInts
IsSigned(t)    == Kind(t) \in SignedInts
IsFloat(t)     == Kind(t) \in {"f32", "f64"}
IsBool(t)      == Kind(t) \in {"b8", "b32", "b64"}
IsNumeric(t)   == IsInteger(t) \/ IsFloat(t) \/ Kind(t) \in {"untyped_int", "untyped_float"}
IsUntyped(t)   == Kind(t) \in {"untyped_int", "untyped_float", "untyped_bool", "null"}
IsSized(t)     == Kind(t) \notin {"void", "untyped_int", "untyped_float", "untyped_bool"}
IsAggregate(t) == Kind(t) \in {"struct", "array"}
Integerish(t)  == IsInteger(t) \/ Kind(t) \in {"untyped_int", "enum"}
Boolish(t)     == IsBool(t) \/ Kind(t) = "untyped_bool"

\* Ty.size, in bits
Width(t) ==
  CASE Kind(Underlying(t)) \in {"i8", "u8", "b8"}           -> W8
    [] Kind(Underlying(t)) \in {"i32", "u32", "f32", "b32"} -> W32
    [] OTHER                                                -> W64

\* A literal's value v is what its digits say: never negative.
IntFits(t, v) ==
  IF IsSigned(Underlying(t)) THEN v < 2^(Width(t) - 1) ELSE v < 2^Width(t)

-----------------------------------------------------------------------------
(* assignable, for a type f that is no enum *)

Literal(f, t) ==
  \/ Kind(f) = "untyped_int"   /\ (IsInteger(t) \/ IsFloat(t) \/ Kind(t) = "untyped_float")
  \/ Kind(f) = "untyped_float" /\ IsFloat(t)
  \/ Kind(f) = "untyped_bool"  /\ IsBool(t)
  \/ Kind(f) = "null"          /\ IsPtr(t)

\* Faulty: any signedness.
WidensAnySign(f, t) == IsInteger(f) /\ IsInteger(t) /\ Width(t) > Width(f)

Widens(f, t) ==
  \/ IsInteger(f) /\ IsInteger(t) /\ IsSigned(f) = IsSigned(t) /\ Width(t) > Width(f)
  \/ Kind(f) = "f32" /\ Kind(t) = "f64"
  \/ IsBool(f) /\ IsBool(t) /\ Width(t) > Width(f)

Assignable(from, to) ==
  \/ from = to
  \/ LET f == Underlying(from) IN f = to \/ Literal(f, to) \/ Widens(f, to)

\* common_type: nothing, or the one type
CommonType(a, b) ==
  CASE Assignable(a, b) -> {b}
    [] ~Assignable(a, b) /\ Assignable(b, a) -> {a}
    [] OTHER -> {}

CastAllowed(from, to) ==
  LET f == Underlying(from)  t == Underlying(to) IN
  \/ from = to
  \/ IsNumeric(f) /\ IsNumeric(t)
  \/ (IsPtr(f) \/ Kind(f) = "null") /\ IsPtr(t)
  \/ Boolish(f) /\ (IsNumeric(t) \/ IsBool(t))

\* default_type, of an expression of kind k
DefaultType(k, t) ==
  CASE Kind(t) = "untyped_int"   -> Core(IF k = "char" THEN "u8" ELSE "i32")
    [] Kind(t) = "untyped_float" -> Core("f64")
    [] Kind(t) = "untyped_bool"  -> Core("b8")
    [] Kind(t) = "null"          -> PtrTo(Core("void"))
    [] OTHER                     -> t
=============================================================================
