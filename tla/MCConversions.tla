--------------------------- MODULE MCConversions ---------------------------
(***************************************************************************)
(* Expressions for TLC.  Integers are 2, 3 and 4 bits wide; a variable     *)
(* holds the patterns whose top bit is set, so that every wrong extension  *)
(* shows, and some that are small.  Three families: one operator over      *)
(* everything; chains of casts; and trees of three operands over few types. *)
(***************************************************************************)
EXTENDS ConvProps

T(k)    == Core(k)
Var(t, v) == Leaf("name", t, v)
Signed32  == <<"enum", "E">>
Unsigned8 == <<"enum", "F">>
S         == <<"struct", "S">>
PtrI32    == PtrTo(T("i32"))

MCEnumBase == [E |-> T("i32"), F |-> T("u8")]

Literals ==
  {Leaf("int", T("untyped_int"), 1), Leaf("int", T("untyped_int"), 6),
   Leaf("char", T("untyped_int"), 2), Leaf("float", T("untyped_float"), 1),
   Leaf("bool", T("untyped_bool"), 1), Leaf("null", T("null"), 0)}
Integers == {Var(T("i8"), 2), Var(T("i8"), 1), Var(T("u8"), 3), Var(T("i32"), 7), Var(T("u32"), 6),
             Var(T("i64"), 12), Var(T("u64"), 13)}
Others ==
  {Var(T("f32"), 2), Var(T("f64"), -2), Var(T("b8"), 1), Var(T("b64"), 0),
   Var(Signed32, 6), Var(Signed32, 1), Var(Unsigned8, 3),
   Leaf("member", Signed32, 2), Leaf("member", Unsigned8, 3),
   Var(PtrI32, 4), Var(PtrI32, 8), Var(PtrTo(T("void")), 4), Var(PtrTo(S), 4),
   Var(S, 8), Var(<<"array", "i32">>, 8)}

AllTypes ==
  {T(k) : k \in {"i8", "u8", "i32", "u32", "i64", "u64", "f32", "f64", "b8", "b64", "void"}}
    \cup {Signed32, Unsigned8, PtrI32, PtrTo(T("u8")), S}

AllOps == {"+", "-", "*", "/", "%", "&", "<<", ">>", "<", ">=", "==", "!=", "&&", "||"}

One ==
  [leaves |-> Literals \cup Integers \cup Others, types |-> AllTypes,
   unary |-> {"-", "~", "!", "*", "&"}, binary |-> AllOps, size |-> 3]

Deep ==
  [leaves |-> {Leaf("int", T("untyped_int"), 1), Leaf("int", T("untyped_int"), 3),
               Var(T("u8"), 3), Var(T("i8"), 2), Var(T("i64"), 12), Var(T("b8"), 1), Var(PtrI32, 8)},
   types |-> {T("i64"), T("u8"), T("b64"), T("f64")},
   unary |-> {"-", "~"}, binary |-> {"+", "&", "<<", "<", "&&"}, size |-> 5]

MCFamilies == [one |-> One, deep |-> Deep]
=============================================================================
