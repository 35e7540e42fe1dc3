-------------------------- MODULE ConvTypesProofs --------------------------
(***************************************************************************)
(* What the conversion rules promise for every type, however pointers and  *)
(* enums are nested: implicit conversion is a partial order, so neither    *)
(* the order of operands nor a detour over a third type matters.  (The     *)
(* poison type of an expression already reported is no type here.)         *)
(***************************************************************************)
EXTENDS ConvTypes, TLAPS

\* A type sema can meet: an enum is one that was declared.
Declared(t) == IsEnum(t) => t[2] \in DOMAIN EnumBase

IntKinds     == {"i8", "i32", "i64", "u8", "u32", "u64"}
FloatKinds   == {"f32", "f64"}
BoolKinds    == {"b8", "b32", "b64"}
LiteralKinds == {"untyped_int", "untyped_float", "untyped_bool", "null"}

\* The rules for a type f that is no enum.
Reaches(f, t) == f = t \/ Literal(f, t) \/ Widens(f, t)

LEMMA AssignableIs ==
  ASSUME NEW a, NEW b
  PROVE  Assignable(a, b) <=> a = b \/ Reaches(Underlying(a), b)
BY DEF Assignable, Reaches

LEMMA UnderEnum ==
  ASSUME NEW t, Declared(t)
  PROVE  /\ Kind(Underlying(t)) # "enum"
         /\ IsEnum(t) => Kind(Underlying(t)) \in IntKinds
         /\ Kind(t) # "enum" => Underlying(t) = t
<1>1. ASSUME NEW k PROVE Kind(Core(k)) = k
  BY DEF Kind, Core
<1>2. CASE IsEnum(t)
  <2>1. PICK k \in SignedInts \cup UnsignedInts : Base(t) = Core(k)
    BY <1>2, ConvAssumption DEF Declared, Base
  <2>2. Underlying(t) = Core(k) /\ Kind(t) = "enum"
    BY <1>2, <2>1 DEF Underlying, IsEnum
  <2> QED BY <1>1, <1>2, <2>1, <2>2 DEF SignedInts, UnsignedInts, IntKinds
<1>3. CASE ~IsEnum(t)
  BY <1>3 DEF IsEnum, Underlying
<1> QED BY <1>2, <1>3

\* The widths are numbers.
LEMMA WidthIsNat == ASSUME NEW t PROVE Width(t) \in Nat
BY ConvAssumption DEF Width

\* The kinds on both sides of a rule.
LEMMA LiteralKindsAre ==
  ASSUME NEW f, NEW t, Literal(f, t)
  PROVE  /\ Kind(f) \in LiteralKinds
         /\ Kind(f) = "untyped_int" => Kind(t) \in IntKinds \cup FloatKinds \cup {"untyped_float"}
         /\ Kind(f) = "untyped_float" => Kind(t) \in FloatKinds
         /\ Kind(f) = "untyped_bool" => Kind(t) \in BoolKinds
         /\ Kind(f) = "null" => Kind(t) = "ptr"
BY DEF Literal, LiteralKinds, IntKinds, FloatKinds, BoolKinds, IsInteger, IsFloat, IsBool, IsPtr,
       SignedInts, UnsignedInts

LEMMA WidensKindsAre ==
  ASSUME NEW f, NEW t, Widens(f, t)
  PROVE  \/ Kind(f) \in IntKinds /\ Kind(t) \in IntKinds
         \/ Kind(f) = "f32" /\ Kind(t) = "f64"
         \/ Kind(f) \in BoolKinds /\ Kind(t) \in BoolKinds
BY DEF Widens, IntKinds, BoolKinds, IsInteger, IsBool, SignedInts, UnsignedInts

LEMMA WidensTwice ==
  ASSUME NEW f, NEW g, NEW t, Widens(f, g), Widens(g, t)
  PROVE  Widens(f, t)
<1>1. Width(f) \in Nat /\ Width(g) \in Nat /\ Width(t) \in Nat
  BY WidthIsNat
<1> QED BY <1>1 DEF Widens, IsInteger, IsBool, SignedInts, UnsignedInts

LEMMA LiteralThenWidens ==
  ASSUME NEW f, NEW g, NEW t, Literal(f, g), Literal(g, t) \/ Widens(g, t)
  PROVE  Literal(f, t)
BY DEF Literal, Widens, IsInteger, IsFloat, IsBool, IsPtr, SignedInts, UnsignedInts

LEMMA ReachesTwice ==
  ASSUME NEW f, NEW g, NEW t, Reaches(f, g), Reaches(g, t)
  PROVE  Reaches(f, t)
<1>1. CASE f = g \/ g = t
  BY <1>1 DEF Reaches
<1>2. CASE Literal(f, g) /\ (Literal(g, t) \/ Widens(g, t))
  BY <1>2, LiteralThenWidens DEF Reaches
<1>3. CASE Widens(f, g) /\ Widens(g, t)
  BY <1>3, WidensTwice DEF Reaches
<1>4. CASE Widens(f, g) /\ Literal(g, t)
  BY <1>4, LiteralKindsAre, WidensKindsAre DEF LiteralKinds, IntKinds, BoolKinds
<1> QED BY <1>1, <1>2, <1>3, <1>4 DEF Reaches

LEMMA ReachesOneWay ==
  ASSUME NEW f, NEW g, Reaches(f, g), Reaches(g, f)
  PROVE  f = g
<1>1. ASSUME Widens(f, g), Widens(g, f) PROVE FALSE
  <2>1. Widens(f, f)
    BY <1>1, WidensTwice
  <2>2. Width(f) \in Nat
    BY WidthIsNat
  <2> QED BY <2>1, <2>2 DEF Widens
<1>2. ASSUME NEW a, NEW b, Literal(a, b), Literal(b, a) \/ Widens(b, a) PROVE FALSE
  <2>1. Literal(a, a)
    BY <1>2, LiteralThenWidens
  <2> QED BY <2>1, LiteralKindsAre DEF LiteralKinds, IntKinds, FloatKinds, BoolKinds
<1> QED BY <1>1, <1>2 DEF Reaches

\* A type that anything but itself converts to is no enum.
LEMMA NoEnumReached ==
  ASSUME NEW a, NEW b, Declared(a), Assignable(a, b), a # b
  PROVE  Reaches(Underlying(a), b) /\ Kind(b) # "enum" /\ Underlying(b) = b
<1>1. Reaches(Underlying(a), b)
  BY AssignableIs
<1>2. Kind(b) # "enum"
  BY <1>1, UnderEnum, LiteralKindsAre, WidensKindsAre
     DEF Reaches, LiteralKinds, IntKinds, FloatKinds, BoolKinds
<1> QED BY <1>1, <1>2 DEF Underlying, IsEnum

\* Implicit conversion is a partial order on types: a value that may go into a
\* variable and from there into another may go into the other at once, and no two
\* types convert into each other (assignable, sema.c:428).
THEOREM AssignableIsOrder ==
  ASSUME NEW a, NEW b, NEW c, Declared(a), Declared(b), Declared(c)
  PROVE  /\ Assignable(a, a)
         /\ Assignable(a, b) /\ Assignable(b, c) => Assignable(a, c)
         /\ Assignable(a, b) /\ Assignable(b, a) => a = b
<1>1. Assignable(a, a)
  BY DEF Assignable
<1>2. ASSUME Assignable(a, b), Assignable(b, c) PROVE Assignable(a, c)
  <2>1. CASE a = b \/ b = c
    BY <1>2, <2>1
  <2>2. CASE a # b /\ b # c
    <3>1. Reaches(Underlying(a), b) /\ Underlying(b) = b /\ Reaches(Underlying(b), c)
      BY <1>2, <2>2, NoEnumReached
    <3>2. Reaches(Underlying(a), c)
      BY <3>1, ReachesTwice
    <3> QED BY <3>2, AssignableIs
  <2> QED BY <2>1, <2>2
<1>3. ASSUME Assignable(a, b), Assignable(b, a), a # b PROVE FALSE
  <2>1. /\ Reaches(Underlying(a), b) /\ Underlying(b) = b
        /\ Reaches(Underlying(b), a) /\ Underlying(a) = a
    BY <1>3, NoEnumReached
  <2>2. Reaches(a, b) /\ Reaches(b, a)
    BY <2>1
  <2> QED BY <1>3, <2>2, ReachesOneWay
<1> QED BY <1>1, <1>2, <1>3

\* The type of a binary operator does not depend on the order of its operands,
\* though common_type tries one direction first, and both operands convert to it
\* (common_type, sema.c:464).
THEOREM CommonTypeIgnoresOrder ==
  ASSUME NEW a, NEW b, Declared(a), Declared(b)
  PROVE  /\ CommonType(a, b) = CommonType(b, a)
         /\ \A c \in CommonType(a, b) : Assignable(a, c) /\ Assignable(b, c)
<1>1. Assignable(a, b) /\ Assignable(b, a) => a = b
  BY AssignableIsOrder
<1>2. Assignable(a, a) /\ Assignable(b, b)
  BY AssignableIsOrder
<1> QED BY <1>1, <1>2 DEF CommonType

\* What converts implicitly may also be cast: writing a conversion out never makes
\* a program wrong (cast_allowed, sema.c:964, a list of its own beside assignable's).
THEOREM CastCoversAssignable ==
  ASSUME NEW a, NEW b, Declared(a), Declared(b), Assignable(a, b)
  PROVE  CastAllowed(a, b)
<1>1. CASE a = b
  BY <1>1 DEF CastAllowed
<1>2. CASE a # b
  <2> DEFINE f == Underlying(a)
  <2>1. (f = b \/ Literal(f, b) \/ Widens(f, b)) /\ Underlying(b) = b
    BY <1>2, NoEnumReached DEF Reaches
  <2>2. CASE f = b
    <3>1. IsEnum(a)
      BY <1>2, <2>2 DEF Underlying
    <3>2. Kind(f) \in IntKinds
      BY <3>1, UnderEnum
    <3> QED BY <2>1, <2>2, <3>2
           DEF CastAllowed, IsNumeric, IsInteger, IntKinds, SignedInts, UnsignedInts
  <2>3. CASE Literal(f, b)
    <3> HIDE DEF f
    <3>1. \/ IsNumeric(f) /\ IsNumeric(b)
          \/ Kind(f) = "null" /\ IsPtr(b)
          \/ Boolish(f) /\ IsBool(b)
      BY <2>3 DEF Literal, IsNumeric, IsFloat, Boolish
    <3> QED BY <2>1, <3>1 DEF CastAllowed, f
  <2>4. CASE Widens(f, b)
    <3> HIDE DEF f
    <3>1. \/ IsNumeric(f) /\ IsNumeric(b)
          \/ Boolish(f) /\ IsBool(b)
      BY <2>4 DEF Widens, IsNumeric, IsFloat, Boolish
    <3> QED BY <2>1, <3>1 DEF CastAllowed, f
  <2> QED BY <2>1, <2>2, <2>3, <2>4
<1> QED BY <1>1, <1>2

\* A `let` without a type gets one its initializer converts to, whatever that is
\* (default_type, sema.c:564).
THEOREM DefaultFits ==
  ASSUME NEW k, NEW t
  PROVE  Assignable(t, DefaultType(k, t)) /\ (IsUntyped(t) => ~IsUntyped(DefaultType(k, t)))
<1>1. ASSUME NEW x PROVE Kind(Core(x)) = x
  BY DEF Kind, Core
<1>2. Kind(PtrTo(Core("void"))) = "ptr"
  BY DEF Kind, PtrTo, Core
<1>3. CASE IsUntyped(t)
  <2>1. Underlying(t) = t
    BY <1>3 DEF Underlying, IsUntyped, IsEnum
  <2>2. CASE Kind(t) = "untyped_int"
    <3>1. Kind(DefaultType(k, t)) \in {"u8", "i32"}
      BY <1>1, <2>2 DEF DefaultType
    <3> QED BY <2>1, <2>2, <3>1
           DEF Assignable, Literal, IsInteger, SignedInts, UnsignedInts, IsUntyped
  <2>3. CASE Kind(t) = "untyped_float"
    <3>1. Kind(DefaultType(k, t)) = "f64"
      BY <1>1, <2>3 DEF DefaultType
    <3> QED BY <2>1, <2>3, <3>1 DEF Assignable, Literal, IsFloat, IsUntyped
  <2>4. CASE Kind(t) = "untyped_bool"
    <3>1. Kind(DefaultType(k, t)) = "b8"
      BY <1>1, <2>4 DEF DefaultType
    <3> QED BY <2>1, <2>4, <3>1 DEF Assignable, Literal, IsBool, IsUntyped
  <2>5. CASE Kind(t) = "null"
    <3>1. Kind(DefaultType(k, t)) = "ptr"
      BY <1>2, <2>5 DEF DefaultType
    <3> QED BY <2>1, <2>5, <3>1 DEF Assignable, Literal, IsPtr, IsUntyped
  <2> QED BY <1>3, <2>2, <2>3, <2>4, <2>5 DEF IsUntyped
<1>4. CASE ~IsUntyped(t)
  BY <1>4 DEF DefaultType, IsUntyped, Assignable
<1> QED BY <1>3, <1>4
=============================================================================
