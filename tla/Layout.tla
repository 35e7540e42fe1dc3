------------------------------- MODULE Layout -------------------------------
(***************************************************************************)
(* Pass 3 of sema.c: resolving the types the top level names and laying    *)
(* out its structs.  The pass is a mutual recursion (layout_struct and     *)
(* resolve_type call one another) whose intermediate states are visible:   *)
(* a struct being laid out is in progress, an array type is interned with  *)
(* the size its element has at that moment, and either can be read again,  *)
(* from deeper in the recursion, before the outer call has finished.  So   *)
(* the recursion is kept: the variable stack holds one frame per call that *)
(* has not returned, and every action is one step of the top frame.        *)
(*                                                                         *)
(* A type is its base followed by the postfix modifiers of the grammar,    *)
(* innermost first: [base |-> "A", mods |-> <<3, Star>>] is `A[3]*`.       *)
(***************************************************************************)
EXTENDS Integers, Sequences, FiniteSets

CONSTANTS
  Struct,    \* the declared structs
  Global,    \* the declared globals
  Fn,        \* the declared functions, externs included
  Core,      \* the sized core types; an enum counts as its underlying type
  CoreSize,  \* size of each core type, which is also its alignment
  Void,      \* the core type without a value
  Unknown,   \* a name no declaration has
  Poison,    \* the type of whatever an error was reported about
  Name,      \* field and parameter names
  TypeTerm,  \* the types the program text may contain
  MaxParts,  \* bound: fields of a struct, parameters of a function plus one
  MaxU32     \* the largest uint32_t; sizes and offsets wrap past it

Item == Struct \cup Global \cup Fn
Star == -1                        \* the modifier `*`; `[n]` is n itself
Mod  == {Star} \cup Nat
Base == Struct \cup Core \cup {Void, Unknown, Poison}
Ty   == [base : Base, mods : Seq(Mod)]
Part == [name : Name, type : TypeTerm]

ASSUME LayoutAssumption ==
  /\ MaxU32 \in Nat \ {0} /\ MaxParts \in Nat
  /\ CoreSize \in [Core -> 1 .. MaxU32]
  /\ MaxU32 >= 8
  \* An alignment divides 2^32: core sizes and the size of a pointer are powers of two.
  /\ \A a \in {8} \cup {CoreSize[c] : c \in Core} : (MaxU32 + 1) % a = 0
  /\ TypeTerm \subseteq [base : Base \ {Poison}, mods : Seq(Mod)]
  /\ Struct \cap (Global \cup Fn) = {} /\ Global \cap Fn = {}
  /\ Struct \cap (Core \cup {Void, Unknown, Poison}) = {}
  /\ Core \cap {Void, Unknown, Poison} = {}
  /\ Void # Unknown /\ Unknown # Poison /\ Void # Poison

VARIABLES
  decl,     \* the program: the parts of each item, in order
  pending,  \* the items resolve_program has not reached yet, in the text's order
  state,    \* Ty.state of each struct
  size,     \* Ty.size of each struct: 0 until it is laid out
  align,    \* Ty.align of each struct: 1 until it is laid out
  placed,   \* per item, its parts resolved so far: FieldSym, or Sym.type and Sym.params
  interned, \* the array types in TypeTable.derived, with their frozen size and alignment
  stack,    \* the calls in flight, innermost last
  errors    \* what has been diagnosed, and about what

vars == <<decl, pending, state, size, align, placed, interned, stack, errors>>

-----------------------------------------------------------------------------
(* Types *)

Plain(b)     == [base |-> b, mods |-> <<>>]
Wrap(t, m)   == [t EXCEPT !.mods = Append(@, m)]
OuterMod(t)  == t.mods[Len(t.mods)]
IsStruct(t)  == t.mods = <<>> /\ t.base \in Struct
IsCore(t)    == t.mods = <<>> /\ t.base \in Core
IsPoison(t)  == t = Plain(Poison)
IsVoid(t)    == t = Plain(Void)
IsPointer(t) == t.mods # <<>> /\ OuterMod(t) = Star
IsArray(t)   == t.mods # <<>> /\ OuterMod(t) # Star
\* The element of an array type or the pointee of a pointer type.
Elem(t)      == [t EXCEPT !.mods = SubSeq(@, 1, Len(@) - 1)]

\* ty_is_sized: a struct only once its layout is done.
Sized(t) ==
  \/ t.mods # <<>>
  \/ t.base \in Core
  \/ t.base \in Struct /\ state[t.base] = "done"

PtrSize == 8

SizeOf(t) ==
  CASE IsPointer(t)     -> PtrSize
    [] IsArray(t)       -> interned[t].size
    [] IsStruct(t)      -> size[t.base]
    [] IsCore(t)        -> CoreSize[t.base]
    [] OTHER            -> 0

AlignOf(t) ==
  CASE IsPointer(t)     -> PtrSize
    [] IsArray(t)       -> interned[t].align
    [] IsStruct(t)      -> align[t.base]
    [] IsCore(t)        -> CoreSize[t.base]
    [] OTHER            -> 1

\* (Variants with a fault, like this one, are what the properties must refuse.)
Unwrapped(n)  == n

U32(n)        == n % (MaxU32 + 1)
RoundUpTight(n, a) == U32((n \div a) * a)

RoundUp(n, a) == U32((U32(n + a - 1) \div a) * a)

-----------------------------------------------------------------------------
(* Frames: one per layout_struct, resolve_global or resolve_signature call, *)
(* at part number i, of whose type the base and k modifiers are resolved to *)
(* ty (none of it when k = Unresolved).                                     *)

Unresolved == -1
NewFrame(it) ==
  [item |-> it, i |-> 1, k |-> Unresolved, ty |-> Plain(Poison), offset |-> 0, align |-> 1]

Top         == stack[Len(stack)]
SetTop(f)   == [stack EXCEPT ![Len(stack)] = f]
Pop         == SubSeq(stack, 1, Len(stack) - 1)
Declared(f) == decl[f.item][f.i].type     \* the type the frame is resolving
AtPart(f)   == f.i <= Len(decl[f.item])
Resolved(f) == f.k = Len(Declared(f).mods)
Err(k, it, n) == [kind |-> k, item |-> it, part |-> n]

\* A struct that has to be laid out before the frame can use its type.
Blocked(t) == IsStruct(t) /\ state[t.base] # "done"

\* layout_struct with a fault: the struct is not marked as in progress; or is
\* done from the start; or a cycle goes unreported; or the cycle stays open.
CallLayoutUnmarked(t) ==
  /\ stack' = Append(stack, NewFrame(t.base)) /\ UNCHANGED <<state, errors>>
CallLayoutEarly(t) ==
  /\ state[t.base] # "done"
  /\ state' = [state EXCEPT ![t.base] = "done"]
  /\ stack' = Append(stack, NewFrame(t.base))
  /\ UNCHANGED errors
CallLayoutSilent(t) ==
  LET s == t.base IN
  \/ /\ state[s] = "unstarted"
     /\ state' = [state EXCEPT ![s] = "in_progress"]
     /\ stack' = Append(stack, NewFrame(s))
     /\ UNCHANGED errors
  \/ /\ state[s] = "in_progress"
     /\ state' = [state EXCEPT ![s] = "done"]
     /\ UNCHANGED <<stack, errors>>
CallLayoutOpen(t) ==
  LET s == t.base IN
  \/ /\ state[s] = "unstarted"
     /\ state' = [state EXCEPT ![s] = "in_progress"]
     /\ stack' = Append(stack, NewFrame(s))
     /\ UNCHANGED errors
  \/ /\ state[s] = "in_progress"
     /\ errors' = errors \cup {Err("contains itself", s, 0)}
     /\ UNCHANGED <<state, stack>>

\* layout_struct(t), called from the top frame for a struct that is not done.
CallLayout(t) ==
  LET s == t.base IN
  \/ /\ state[s] = "unstarted"
     /\ state' = [state EXCEPT ![s] = "in_progress"]
     /\ stack' = Append(stack, NewFrame(s))
     /\ UNCHANGED errors
  \/ /\ state[s] = "in_progress"
     /\ state' = [state EXCEPT ![s] = "done"]
     /\ errors' = errors \cup {Err("contains itself", s, 0)}
     /\ UNCHANGED stack

-----------------------------------------------------------------------------
(* The program *)

Program ==
  {p \in [Item -> UNION {[1 .. n -> Part] : n \in 0 .. MaxParts}] :
     /\ \A g \in Global : Len(p[g]) = 1
     /\ \A f \in Fn : Len(p[f]) >= 1}

\* The items of the text in their order: every struct, and some of the rest.
Order ==
  {o \in UNION {[1 .. n -> Item] : n \in 0 .. Cardinality(Item)} :
     /\ \A i, j \in DOMAIN o : o[i] = o[j] => i = j
     /\ Struct \subseteq {o[i] : i \in DOMAIN o}}

InitFor(p, o) ==
  /\ decl = p
  /\ pending = o
  /\ state = [s \in Struct |-> "unstarted"]
  /\ size = [s \in Struct |-> 0]
  /\ align = [s \in Struct |-> 1]
  /\ placed = [it \in Item |-> <<>>]
  /\ interned = [t \in {} |-> [size |-> 0, align |-> 1]]
  /\ stack = <<>>
  /\ errors = {}

Init == \E p \in Program, o \in Order : InitFor(p, o)

(* resolve_program takes the next item.  A struct some earlier item needed *)
(* is done already.                                                        *)
NextItem ==
  /\ stack = <<>>
  /\ pending # <<>>
  /\ pending' = Tail(pending)
  /\ LET it == Head(pending) IN
     \/ /\ it \in Struct /\ state[it] = "done"
        /\ UNCHANGED <<state, stack, errors>>
     \/ /\ it \in Struct /\ CallLayout(Plain(it))
     \/ /\ it \notin Struct
        /\ stack' = <<NewFrame(it)>>
        /\ UNCHANGED <<state, errors>>
  /\ UNCHANGED <<decl, size, align, placed, interned>>

(* resolve_type reaches the base of the type. *)
ResolveBase ==
  /\ stack # <<>>
  /\ AtPart(Top) /\ Top.k = Unresolved
  /\ LET b == Declared(Top).base IN
     /\ stack' = SetTop([Top EXCEPT !.k = 0,
                           !.ty = Plain(IF b = Unknown THEN Poison ELSE b)])
     /\ errors' = errors \cup
          (IF b = Unknown THEN {Err("unknown type", Top.item, Top.i)} ELSE {})
  /\ UNCHANGED <<decl, pending, state, size, align, placed, interned>>

Wrapping ==
  stack # <<>> /\ AtPart(Top) /\ Top.k # Unresolved /\ ~Resolved(Top)
NextMod == Declared(Top).mods[Top.k + 1]

(* A pointer never lays out its pointee. *)
ResolvePointer ==
  /\ Wrapping /\ NextMod = Star
  /\ stack' = SetTop([Top EXCEPT !.k = @ + 1, !.ty = Wrap(@, Star)])
  /\ UNCHANGED <<decl, pending, state, size, align, placed, interned, errors>>

(* What makes resolve_type refuse an array of n elements of type t. *)
ArrayError(t, n) ==
  CASE n = 0                              -> "zero length"
    [] n # 0 /\ ~Sized(t)                 -> "element has no size"
    [] n # 0 /\ Sized(t) /\ SizeOf(t) # 0 /\ n > MaxU32 \div SizeOf(t) -> "too large"
    [] OTHER                              -> "none"

(* ty_array: an array type already in the table is found there, whatever its *)
(* element's size is by now.                                                *)
Intern(a, t, n) ==
  IF a \in DOMAIN interned
    THEN interned
    ELSE [x \in DOMAIN interned \cup {a} |->
           IF x = a THEN [size |-> U32(n * SizeOf(t)), align |-> AlignOf(t)]
                    ELSE interned[x]]

ResolveArray ==
  /\ Wrapping /\ NextMod # Star
  /\ ~Blocked(Top.ty)
  /\ LET t   == Top.ty
         n   == NextMod
         err == ArrayError(t, n)
         ok  == err = "none"
     IN /\ errors' = IF ok THEN errors ELSE errors \cup {Err(err, Top.item, Top.i)}
        /\ interned' = IF ok THEN Intern(Wrap(t, n), t, n) ELSE interned
        /\ stack' = SetTop([Top EXCEPT !.k = @ + 1,
                              !.ty = IF ok THEN Wrap(t, n) ELSE Plain(Poison)])
  /\ UNCHANGED <<decl, pending, state, size, align, placed>>

(* An array's element and a resolved struct are laid out before use. *)
LayoutNeeded ==
  /\ stack # <<>>
  /\ AtPart(Top) /\ Top.k # Unresolved
  /\ ~Resolved(Top) => NextMod # Star
  /\ Blocked(Top.ty)
  /\ CallLayout(Top.ty)
  /\ UNCHANGED <<decl, pending, size, align, placed, interned>>

PartReady ==
  /\ stack # <<>>
  /\ AtPart(Top) /\ Top.k # Unresolved /\ Resolved(Top)
  /\ ~Blocked(Top.ty)

(* layout_struct gives a field its type and its offset. *)
PlaceField ==
  /\ PartReady /\ Top.item \in Struct
  /\ LET f   == Top
         ft  == IF Sized(f.ty) THEN f.ty ELSE Plain(Poison)
         off == RoundUp(f.offset, AlignOf(ft))
         dup == \E j \in 1 .. (f.i - 1) : decl[f.item][j].name = decl[f.item][f.i].name
     IN /\ errors' = errors
             \cup (IF Sized(f.ty) THEN {} ELSE {Err("field has no size", f.item, f.i)})
             \cup (IF dup THEN {Err("duplicate field", f.item, f.i)} ELSE {})
        /\ placed' = [placed EXCEPT ![f.item] = Append(@, [type |-> ft, offset |-> off])]
        /\ stack' = SetTop([f EXCEPT !.i = @ + 1, !.k = Unresolved, !.ty = Plain(Poison),
                              !.offset = U32(off + SizeOf(ft)),
                              !.align = IF AlignOf(ft) > @ THEN AlignOf(ft) ELSE @])
  /\ UNCHANGED <<decl, pending, state, size, align, interned>>

(* What resolve_global and resolve_signature say of a resolved type: a      *)
(* global needs a size, neither structs nor arrays are passed or returned,  *)
(* and only a result may be void.                                           *)
UseError(it, n, t) ==
  CASE it \in Global /\ ~Sized(t)                    -> "not a value type"
    [] it \in Fn /\ n > 1 /\ IsVoid(t)               -> "void parameter"
    [] it \in Fn /\ (IsStruct(t) \/ IsArray(t))      -> "not passable"
    [] OTHER                                         -> "none"

PlaceUse ==
  /\ PartReady /\ Top.item \notin Struct
  /\ LET f    == Top
         err  == UseError(f.item, f.i, f.ty)
         keep == err = "none" \/ (f.item \in Fn /\ f.i = 1)  \* a result keeps its type
         t    == IF keep THEN f.ty ELSE Plain(Poison)
     IN /\ errors' = IF err = "none" THEN errors
                                     ELSE errors \cup {Err(err, f.item, f.i)}
        /\ placed' = [placed EXCEPT ![f.item] = Append(@, [type |-> t, offset |-> 0])]
        /\ stack' = SetTop([f EXCEPT !.i = @ + 1, !.k = Unresolved, !.ty = Plain(Poison)])
  /\ UNCHANGED <<decl, pending, state, size, align, interned>>

(* The end of layout_struct: the struct becomes a sized type. *)
FinishStruct ==
  /\ stack # <<>>
  /\ ~AtPart(Top) /\ Top.item \in Struct
  /\ LET s == Top.item IN
     /\ size'  = [size EXCEPT ![s] = RoundUp(Top.offset, Top.align)]
     /\ align' = [align EXCEPT ![s] = Top.align]
     /\ state' = [state EXCEPT ![s] = "done"]
  /\ stack' = Pop
  /\ UNCHANGED <<decl, pending, placed, interned, errors>>

FinishUse ==
  /\ stack # <<>>
  /\ ~AtPart(Top) /\ Top.item \notin Struct
  /\ stack' = Pop
  /\ UNCHANGED <<decl, pending, state, size, align, placed, interned, errors>>

Finished == pending = <<>> /\ stack = <<>>

Next ==
  \/ NextItem
  \/ ResolveBase
  \/ ResolvePointer
  \/ ResolveArray
  \/ LayoutNeeded
  \/ PlaceField
  \/ PlaceUse
  \/ FinishStruct
  \/ FinishUse

Spec     == Init /\ [][Next]_vars
FairSpec == Spec /\ WF_vars(Next)
=============================================================================
