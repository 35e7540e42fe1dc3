---------------------------- MODULE LayoutProofs ----------------------------
(***************************************************************************)
(* What pass 3 guarantees for any program, however many structs it has and *)
(* however they refer to one another: its recursion is sound, a finished   *)
(* layout is final, no array type keeps a size its element has outgrown,   *)
(* cycles of structs are what it rejects, an accepted struct has the       *)
(* layout of C, and the IR, computing sizes anew, finds the same ones.     *)
(*                                                                         *)
(* Only the first is inductive.  The invariants that the others need say   *)
(* which calls the stack holds for each state; that, until a cycle is      *)
(* diagnosed, every layout_struct on the stack is of a struct in progress; *)
(* that a frame's array type was interned over a finished element; that    *)
(* each call on the stack was made by the one below it, for a field it has *)
(* reached; that the structs done need only one another; and that what a   *)
(* frame has placed so far is the layout of the fields it has passed.      *)
(***************************************************************************)
EXTENDS IrLayout, SequenceTheorems, WellFoundedInduction, TLAPS

-----------------------------------------------------------------------------
(* Types and sizes *)

LEMMA U32Range == \A n \in Int : U32(n) \in U32s
  BY LayoutAssumption DEF U32, U32s

LEMMA RoundUpRange == ASSUME NEW n \in Nat, NEW a \in Aligns PROVE RoundUp(n, a) \in U32s
<1>1. U32(n + a - 1) \in Nat
  BY U32Range DEF U32s, Aligns
<1>2. (U32(n + a - 1) \div a) * a \in Int
  BY <1>1 DEF Aligns
<1> QED BY <1>2, U32Range DEF RoundUp

LEMMA PlainType ==
  ASSUME NEW b \in Base
  PROVE  /\ Plain(b) \in Ty
         /\ ~IsArray(Plain(b)) /\ ~IsPointer(Plain(b))
         /\ IsStruct(Plain(b)) <=> b \in Struct
  BY DEF Plain, Ty, IsArray, IsPointer, IsStruct

LEMMA NewMods ==
  ASSUME NEW t, NEW b, NEW s, NEW ms, t = [base |-> b, mods |-> s]
  PROVE  [t EXCEPT !.mods = ms] = [base |-> b, mods |-> ms]
  OBVIOUS

\* A modifier makes a pointer or an array of the type it is applied to.
LEMMA WrapType ==
  ASSUME NEW t \in Ty, NEW m \in Mod
  PROVE  /\ Wrap(t, m) \in Ty
         /\ Elem(Wrap(t, m)) = t /\ OuterMod(Wrap(t, m)) = m
         /\ IsPointer(Wrap(t, m)) <=> m = Star
         /\ IsArray(Wrap(t, m)) <=> m # Star
<1> DEFINE ms == Append(t.mods, m)
           w  == [base |-> t.base, mods |-> ms]
<1>1. t.base \in Base /\ t.mods \in Seq(Mod) /\ t = [base |-> t.base, mods |-> t.mods]
  BY DEF Ty
<1>2. ms \in Seq(Mod) /\ ms # <<>> /\ Len(ms) = Len(t.mods) + 1 /\ ms[Len(ms)] = m
  BY <1>1, AppendProperties
<1>3. SubSeq(ms, 1, Len(ms) - 1) = t.mods
  <2>1. \A i \in 1 .. Len(t.mods) : ms[i] = t.mods[i]
    BY <1>1, AppendProperties
  <2>2. Len(t.mods) \in Nat /\ Len(ms) - 1 = Len(t.mods)
    BY <1>1, <1>2, LenProperties
  <2>3. \A i \in 1 .. Len(t.mods) : ms[i] \in Mod
    BY <2>1, <1>1, ElementOfSeq
  <2> HIDE DEF ms
  <2>4. /\ SubSeq(ms, 1, Len(t.mods)) \in Seq(Mod)
        /\ Len(SubSeq(ms, 1, Len(t.mods))) = Len(t.mods)
        /\ \A i \in 1 .. Len(t.mods) : SubSeq(ms, 1, Len(t.mods))[i] = ms[i]
    BY <2>2, <2>3, SubSeqProperties
  <2> QED
    BY <2>1, <2>2, <2>4, <1>1, SeqEqual
<1>4. w \in Ty /\ Wrap(t, m) = w
  <2>1. Wrap(t, m) = [t EXCEPT !.mods = ms]
    BY DEF Wrap
  <2> HIDE DEF ms
  <2>2. w \in Ty
    BY <1>1, <1>2, SMTT(60) DEF Ty
  <2>3. [t EXCEPT !.mods = ms] = w
    BY <1>1, NewMods
  <2> QED BY <2>1, <2>2, <2>3
<1> HIDE DEF ms
<1>5. Elem(w) = [base |-> t.base, mods |-> SubSeq(ms, 1, Len(ms) - 1)]
  BY DEF Elem
<1>6. OuterMod(w) = m /\ w.mods # <<>>
  BY <1>2 DEF OuterMod
<1> QED
  BY <1>1, <1>3, <1>4, <1>5, <1>6 DEF IsPointer, IsArray

\* The size and the alignment of a type, an array type being in the table.
LEMMA SizeOfType ==
  ASSUME TypeOK, NEW t \in Ty, IsArray(t) => t \in DOMAIN interned
  PROVE  SizeOf(t) \in U32s /\ AlignOf(t) \in Aligns
<1>1. /\ IsPointer(t) => ~IsArray(t) /\ ~IsStruct(t) /\ t.mods # <<>>
      /\ IsArray(t) => ~IsPointer(t) /\ ~IsStruct(t) /\ t.mods # <<>>
      /\ t.mods = <<>> => ~IsPointer(t) /\ ~IsArray(t)
      /\ IsPointer(t) \/ IsArray(t) \/ t.mods = <<>>
      /\ IsStruct(t) <=> t.mods = <<>> /\ t.base \in Struct
      /\ IsCore(t) <=> t.mods = <<>> /\ t.base \in Core
  BY DEF IsPointer, IsArray, IsStruct, IsCore
<1>2. MaxU32 \in Nat /\ MaxU32 >= 8 /\ Struct \cap Core = {}
      /\ \A c \in Core : CoreSize[c] \in 1 .. MaxU32
  BY LayoutAssumption
<1>3. CASE IsPointer(t)
  BY <1>1, <1>2, <1>3 DEF SizeOf, AlignOf, PtrSize, U32s, Aligns
<1>4. CASE IsArray(t)
  <2>1. interned[t] \in [size : U32s, align : Aligns]
    BY <1>4 DEF TypeOK
  <2> QED BY <1>1, <1>4, <2>1 DEF SizeOf, AlignOf
<1>5. CASE IsStruct(t)
  <2>1. size[t.base] \in U32s /\ align[t.base] \in Aligns
    BY <1>1, <1>5 DEF TypeOK
  <2> QED BY <1>1, <1>2, <1>5, <2>1 DEF SizeOf, AlignOf
<1>6. CASE t.mods = <<>> /\ t.base \in Core
  BY <1>1, <1>2, <1>6 DEF SizeOf, AlignOf, U32s, Aligns
<1>7. CASE t.mods = <<>> /\ t.base \notin Core /\ t.base \notin Struct
  BY <1>1, <1>2, <1>7 DEF SizeOf, AlignOf, U32s, Aligns
<1> QED
  BY <1>1, <1>3, <1>4, <1>5, <1>6, <1>7

-----------------------------------------------------------------------------
(* Frames *)

\* A well-typed frame: its array type is in the table t, its modifier in range.
FrameOK(f, t) ==
  /\ f \in Frame
  /\ IsArray(f.ty) => f.ty \in DOMAIN t
  /\ AtPart(f) => f.k <= Len(Declared(f).mods)

LEMMA TypeOKFrames ==
  TypeOK => stack \in Seq(Frame) /\ \A d \in 1 .. Len(stack) : FrameOK(stack[d], interned)
  BY ElementOfSeq DEF TypeOK, FrameOK

LEMMA TopOK ==
  ASSUME TypeOK, stack # <<>>
  PROVE  FrameOK(Top, interned) /\ Len(stack) \in Nat \ {0}
<1>1. stack \in Seq(Frame) /\ Len(stack) \in 1 .. Len(stack)
  BY EmptySeq DEF TypeOK
<1> QED BY <1>1, TypeOKFrames DEF Top

\* The type the top frame is at.
LEMMA DeclaredOK ==
  ASSUME TypeOK, NEW f \in Frame, AtPart(f)
  PROVE  /\ Declared(f) \in Ty /\ Declared(f).base \in Base \ {Poison}
         /\ Declared(f).mods \in Seq(Mod) /\ Declared(f) \in TypeTerm
<1>1. decl[f.item] \in Seq(Part) /\ f.i \in 1 .. Len(decl[f.item])
  BY DEF TypeOK, Frame, AtPart
<1>2. decl[f.item][f.i] \in Part
  BY <1>1, ElementOfSeq
<1> QED BY <1>2, LayoutAssumption DEF Declared, Part, Ty

LEMMA SetTopOK ==
  ASSUME TypeOK, stack # <<>>, NEW t, DOMAIN interned \subseteq DOMAIN t,
         NEW f, FrameOK(f, t)
  PROVE  /\ SetTop(f) \in Seq(Frame) /\ Len(SetTop(f)) = Len(stack)
         /\ \A d \in 1 .. Len(stack) : SetTop(f)[d] = IF d = Len(stack) THEN f ELSE stack[d]
         /\ \A d \in 1 .. Len(stack) : FrameOK(SetTop(f)[d], t)
<1>1. stack \in Seq(Frame) /\ Len(stack) \in 1 .. Len(stack) /\ f \in Frame
  BY EmptySeq DEF TypeOK, FrameOK
<1>2. /\ SetTop(f) \in Seq(Frame) /\ Len(SetTop(f)) = Len(stack)
      /\ \A d \in 1 .. Len(stack) : SetTop(f)[d] = IF d = Len(stack) THEN f ELSE stack[d]
  BY <1>1, ExceptSeq DEF SetTop
<1>3. \A d \in 1 .. Len(stack) : FrameOK(stack[d], t)
  BY TypeOKFrames DEF FrameOK
<1> QED BY <1>2, <1>3

LEMMA PushOK ==
  ASSUME TypeOK, NEW it \in Item
  PROVE  LET s == Append(stack, NewFrame(it)) IN
         /\ s \in Seq(Frame) /\ Len(s) = Len(stack) + 1
         /\ \A d \in 1 .. Len(stack) : s[d] = stack[d]
         /\ s[Len(stack) + 1] = NewFrame(it)
         /\ \A d \in 1 .. Len(s) : FrameOK(s[d], interned)
<1> DEFINE f == NewFrame(it)
<1>1. Plain(Poison) \in Ty /\ ~IsArray(Plain(Poison))
  BY PlainType DEF Base
<1>2. f \in Frame /\ f.k = -1 /\ f.ty = Plain(Poison)
  BY <1>1, LayoutAssumption DEF NewFrame, Frame, Unresolved, U32s, Aligns
<1>3. AtPart(f) => Len(Declared(f).mods) \in Nat
  BY <1>2, DeclaredOK, LenProperties
<1>4. FrameOK(f, interned)
  BY <1>1, <1>2, <1>3 DEF FrameOK
<1>5. stack \in Seq(Frame) /\ Len(stack) \in Nat
  BY LenProperties DEF TypeOK
<1> HIDE DEF f
<1>6. /\ Append(stack, f) \in Seq(Frame) /\ Len(Append(stack, f)) = Len(stack) + 1
      /\ \A d \in 1 .. Len(stack) : Append(stack, f)[d] = stack[d]
      /\ Append(stack, f)[Len(stack) + 1] = f
  BY <1>2, <1>5, AppendProperties
<1>7. \A d \in 1 .. Len(stack) + 1 : FrameOK(Append(stack, f)[d], interned)
  BY <1>4, <1>5, <1>6, TypeOKFrames
<1> QED BY <1>6, <1>7 DEF f

\* Dropping the last element of a sequence.
LEMMA CutLast ==
  ASSUME NEW S, NEW s \in Seq(S), s # <<>>
  PROVE  /\ SubSeq(s, 1, Len(s) - 1) \in Seq(S)
         /\ Len(SubSeq(s, 1, Len(s) - 1)) = Len(s) - 1
         /\ \A d \in 1 .. Len(s) - 1 : SubSeq(s, 1, Len(s) - 1)[d] = s[d]
<1>1. Len(s) \in Nat \ {0}
  BY EmptySeq
<1> DEFINE n == Len(s) - 1
<1>2. n \in Nat
  BY <1>1
<1>3. \A d \in 1 .. n : s[d] \in S
  BY <1>1, ElementOfSeq
<1> HIDE DEF n
<1>4. /\ SubSeq(s, 1, n) \in Seq(S)
      /\ Len(SubSeq(s, 1, n)) = IF 1 <= n THEN n - 1 + 1 ELSE 0
      /\ \A i \in 1 .. n - 1 + 1 : SubSeq(s, 1, n)[i] = s[1 + i - 1]
  BY <1>2, <1>3, SubSeqProperties
<1>5. n - 1 + 1 = n /\ \A i \in 1 .. n : 1 + i - 1 = i
  BY <1>2
<1>6. Len(SubSeq(s, 1, n)) = n
  BY <1>2, <1>4
<1>7. \A i \in 1 .. n : SubSeq(s, 1, n)[i] = s[i]
  BY <1>4, <1>5
<1> QED BY <1>4, <1>6, <1>7 DEF n

LEMMA PopOK ==
  ASSUME TypeOK, stack # <<>>
  PROVE  /\ Pop \in Seq(Frame) /\ Len(Pop) = Len(stack) - 1 /\ Len(Pop) \in Nat
         /\ \A d \in 1 .. Len(Pop) : Pop[d] = stack[d] /\ FrameOK(Pop[d], interned)
<1>1. stack \in Seq(Frame) /\ Len(stack) \in Nat \ {0}
  BY EmptySeq DEF TypeOK
<1>2. /\ Pop \in Seq(Frame) /\ Len(Pop) = Len(stack) - 1
      /\ \A d \in 1 .. Len(stack) - 1 : Pop[d] = stack[d]
  BY <1>1, CutLast DEF Pop
<1> QED BY <1>1, <1>2, TypeOKFrames

-----------------------------------------------------------------------------
(* Type correctness *)

LEMMA TypeOKStep ==
  ASSUME TypeOK, decl' = decl, pending' \in Seq(Item),
         state' \in [Struct -> {"unstarted", "in_progress", "done"}],
         size' \in [Struct -> U32s], align' \in [Struct -> Aligns],
         placed' \in [Item -> Seq([type : Ty, offset : U32s])],
         \A t \in DOMAIN interned' :
           t \in Ty /\ IsArray(t) /\ interned'[t] \in [size : U32s, align : Aligns],
         stack' \in Seq(Frame),
         \A d \in 1 .. Len(stack') : FrameOK(stack'[d], interned')
  PROVE  TypeOK'
<1>1. \A d \in 1 .. Len(stack') :
        /\ IsArray(stack'[d].ty) => stack'[d].ty \in DOMAIN interned'
        /\ (AtPart(stack[d]) => stack[d].k <= Len(Declared(stack[d]).mods))'
  BY DEF FrameOK, AtPart, Declared
<1> QED BY <1>1 DEF TypeOK, IsArray, OuterMod

\* layout_struct called for a struct: what it does to the state and the stack.
LEMMA CallLayoutOK ==
  ASSUME TypeOK, NEW t, t.base \in Struct, CallLayout(t)
  PROVE  /\ state' \in [Struct -> {"unstarted", "in_progress", "done"}]
         /\ stack' \in Seq(Frame)
         /\ \A d \in 1 .. Len(stack') : FrameOK(stack'[d], interned)
<1>1. t.base \in Item /\ state \in [Struct -> {"unstarted", "in_progress", "done"}]
  BY DEF Item, TypeOK
<1>2. CASE state[t.base] = "unstarted"
  BY <1>1, <1>2, PushOK DEF CallLayout
<1>3. CASE state[t.base] = "in_progress"
  BY <1>1, <1>3, TypeOKFrames DEF CallLayout
<1> QED BY <1>2, <1>3 DEF CallLayout

LEMMA TypeInit == Init => TypeOK
<1> SUFFICES ASSUME NEW p \in Program, NEW o \in Order, InitFor(p, o) PROVE TypeOK
  BY DEF Init
<1>1. decl \in [Item -> Seq(Part)]
  <2>1. p \in [Item -> UNION {[1 .. n -> Part] : n \in 0 .. MaxParts}]
    BY DEF Program
  <2>2. \A n \in 0 .. MaxParts : [1 .. n -> Part] \subseteq Seq(Part)
    BY SeqDef, LayoutAssumption
  <2>3. UNION {[1 .. n -> Part] : n \in 0 .. MaxParts} \subseteq Seq(Part)
    BY <2>2
  <2> QED BY <2>1, <2>3 DEF InitFor
<1>2. pending \in Seq(Item)
  <2>1. PICK n \in 0 .. Cardinality(Item) : o \in [1 .. n -> Item]
    BY DEF Order
  <2>2. CASE n \in Nat
    BY <2>1, <2>2, SeqDef DEF InitFor
  <2>3. n \in Nat
    BY <2>1
  <2> QED BY <2>2, <2>3
<1>3. stack = <<>> /\ stack \in Seq(Frame) /\ Len(stack) = 0
  BY EmptySeq DEF InitFor
<1>4. placed \in [Item -> Seq([type : Ty, offset : U32s])]
  BY EmptySeq DEF InitFor
<1>5. DOMAIN interned = {}
  BY DEF InitFor
<1>6. size \in [Struct -> U32s] /\ align \in [Struct -> Aligns]
  BY LayoutAssumption DEF InitFor, U32s, Aligns
<1> QED
  BY <1>1, <1>2, <1>3, <1>4, <1>5, <1>6 DEF TypeOK, InitFor

LEMMA TypeNextItem == TypeOK /\ NextItem => TypeOK'
<1> SUFFICES ASSUME TypeOK, NextItem PROVE TypeOK'
  OBVIOUS
<1> DEFINE it == Head(pending)
<1>1. it \in Item /\ pending' \in Seq(Item)
  BY HeadTailProperties DEF TypeOK, NextItem
<1>2. /\ state' \in [Struct -> {"unstarted", "in_progress", "done"}]
      /\ stack' \in Seq(Frame)
      /\ \A d \in 1 .. Len(stack') : FrameOK(stack'[d], interned)
  <2>1. CASE it \in Struct /\ state[it] = "done" /\ UNCHANGED <<state, stack, errors>>
    BY <2>1, TypeOKFrames DEF TypeOK
  <2>2. CASE it \in Struct /\ CallLayout(Plain(it))
    <3>1. Plain(it).base = it
      BY DEF Plain
    <3> QED BY <2>2, <3>1, CallLayoutOK
  <2>3. CASE it \notin Struct /\ stack' = <<NewFrame(it)>> /\ state' = state
    <3>1. stack' = Append(stack, NewFrame(it))
      BY <2>3 DEF NextItem
    <3> HIDE DEF it
    <3> QED BY <1>1, <2>3, <3>1, PushOK DEF TypeOK
  <2> QED BY <2>1, <2>2, <2>3 DEF NextItem
<1> QED BY <1>1, <1>2, TypeOKStep DEF TypeOK, NextItem

\* Whatever replaces the top frame, in a step that touches nothing else that
\* a frame depends on.
LEMMA TopStep ==
  ASSUME TypeOK, stack # <<>>, NEW f, stack' = SetTop(f), DOMAIN interned \subseteq DOMAIN interned',
         FrameOK(f, interned'), UNCHANGED <<decl, pending, state, size, align>>,
         placed' \in [Item -> Seq([type : Ty, offset : U32s])],
         \A t \in DOMAIN interned' :
           t \in Ty /\ IsArray(t) /\ interned'[t] \in [size : U32s, align : Aligns]
  PROVE  TypeOK'
<1>1. /\ SetTop(f) \in Seq(Frame) /\ Len(SetTop(f)) = Len(stack)
      /\ \A d \in 1 .. Len(stack) : FrameOK(SetTop(f)[d], interned')
  BY SetTopOK
<1> QED BY <1>1, TypeOKStep DEF TypeOK

\* The top frame at a part whose type it is resolving.
LEMMA TopParts ==
  ASSUME TypeOK, stack # <<>>
  PROVE  /\ Top \in Frame /\ Top.item \in Item /\ Top.i \in Nat \ {0}
         /\ Top.k \in Nat \cup {Unresolved} /\ Top.ty \in Ty
         /\ Top.offset \in U32s /\ Top.align \in Aligns
         /\ IsArray(Top.ty) => Top.ty \in DOMAIN interned
         /\ AtPart(Top) => Top.k <= Len(Declared(Top).mods)
  BY TopOK DEF FrameOK, Frame

LEMMA TypeResolveBase == TypeOK /\ ResolveBase => TypeOK'
<1> SUFFICES ASSUME TypeOK, ResolveBase PROVE TypeOK'
  OBVIOUS
<1> DEFINE b == Declared(Top).base
           c == IF b = Unknown THEN Poison ELSE b
           f == [Top EXCEPT !.k = 0, !.ty = Plain(c)]
<1>1. stack # <<>> /\ AtPart(Top)
  BY DEF ResolveBase
<1>2. Declared(Top).mods \in Seq(Mod) /\ c \in Base
  BY <1>1, TopParts, DeclaredOK DEF Base
<1>3. Plain(c) \in Ty /\ ~IsArray(Plain(c)) /\ Len(Declared(Top).mods) \in Nat
  BY <1>2, PlainType, LenProperties
<1>4. stack' = SetTop(f)
  BY DEF ResolveBase
<1>5. /\ f \in Frame /\ f.ty = Plain(c) /\ f.k = 0
      /\ f.item = Top.item /\ f.i = Top.i
  BY <1>1, <1>3, TopParts DEF Frame
<1> HIDE DEF f, c
<1>6. FrameOK(f, interned)
  BY <1>3, <1>5 DEF FrameOK, AtPart, Declared
<1> QED BY <1>1, <1>4, <1>6, TopStep DEF TypeOK, ResolveBase

\* The modifier the top frame applies next.
LEMMA NextModOK ==
  ASSUME TypeOK, Wrapping
  PROVE  /\ NextMod \in Mod /\ Top.k \in Nat
         /\ Top.k + 1 <= Len(Declared(Top).mods) /\ Len(Declared(Top).mods) \in Nat
<1>1. /\ Declared(Top).mods \in Seq(Mod) /\ Top.k \in Nat /\ Top.k # Len(Declared(Top).mods)
      /\ Top.k <= Len(Declared(Top).mods)
  BY TopParts, DeclaredOK DEF Wrapping, Resolved
<1>2. Len(Declared(Top).mods) \in Nat /\ Top.k + 1 \in 1 .. Len(Declared(Top).mods)
  BY <1>1, LenProperties
<1> QED BY <1>1, <1>2, ElementOfSeq DEF NextMod

\* Moving the top frame on to its next modifier.
LEMMA WrapTop ==
  ASSUME TypeOK, Wrapping, NEW t \in Ty, NEW tab, IsArray(t) => t \in DOMAIN tab
  PROVE  LET f == [Top EXCEPT !.k = @ + 1, !.ty = t] IN
         FrameOK(f, tab) /\ f.item = Top.item
<1> DEFINE f == [Top EXCEPT !.k = @ + 1, !.ty = t]
<1>1. Top \in Frame /\ Top.k \in Nat /\ Top.k + 1 <= Len(Declared(Top).mods)
  BY TopParts, NextModOK DEF Wrapping
<1>2. /\ f \in Frame /\ f.ty = t /\ f.k = Top.k + 1
      /\ f.item = Top.item /\ f.i = Top.i
  <2> DEFINE k == Top.k + 1
  <2>1. k \in Nat \cup {Unresolved} /\ f = [Top EXCEPT !.k = k, !.ty = t]
    BY <1>1
  <2> HIDE DEF f, k
  <2>2. f \in Frame /\ f.ty = t /\ f.k = k /\ f.item = Top.item /\ f.i = Top.i
    BY <1>1, <2>1 DEF Frame
  <2> QED BY <2>2 DEF k
<1> HIDE DEF f
<1>3. FrameOK(f, tab)
  BY <1>1, <1>2 DEF FrameOK, AtPart, Declared
<1> QED BY <1>2, <1>3 DEF f

LEMMA TypeResolvePointer == TypeOK /\ ResolvePointer => TypeOK'
<1> SUFFICES ASSUME TypeOK, ResolvePointer PROVE TypeOK'
  OBVIOUS
<1> DEFINE t == Wrap(Top.ty, Star)
           f == [Top EXCEPT !.k = @ + 1, !.ty = t]
<1>1. Wrapping /\ stack # <<>>
  BY DEF ResolvePointer, Wrapping
<1>2. t \in Ty /\ ~IsArray(t)
  BY <1>1, TopParts, WrapType DEF Mod
<1>3. stack' = SetTop(f)
  BY <1>1, TopParts DEF ResolvePointer, Frame
<1>4. FrameOK(f, interned)
  <2> HIDE DEF t
  <2> QED BY <1>1, <1>2, WrapTop
<1> HIDE DEF f, t
<1> QED BY <1>1, <1>3, <1>4, TopStep DEF TypeOK, ResolvePointer

\* What ty_array leaves in the table.
LEMMA InternOK ==
  ASSUME TypeOK, NEW t \in Ty, IsArray(t) => t \in DOMAIN interned, NEW n \in Nat
  PROVE  LET a == Wrap(t, n)  tab == Intern(a, t, n) IN
         /\ DOMAIN tab = DOMAIN interned \cup {a}
         /\ \A x \in DOMAIN interned : tab[x] = interned[x]
         /\ a \notin DOMAIN interned =>
              tab[a] = [size |-> U32(n * SizeOf(t)), align |-> AlignOf(t)]
         /\ \A x \in DOMAIN tab :
              x \in Ty /\ IsArray(x) /\ tab[x] \in [size : U32s, align : Aligns]
<1> DEFINE a == Wrap(t, n)
           e == [size |-> U32(n * SizeOf(t)), align |-> AlignOf(t)]
           tab == Intern(a, t, n)
<1>1. a \in Ty /\ IsArray(a)
  BY WrapType DEF Mod, Star
<1>2. e \in [size : U32s, align : Aligns]
  <2>1. SizeOf(t) \in U32s /\ AlignOf(t) \in Aligns
    BY SizeOfType
  <2>2. n * SizeOf(t) \in Int
    BY <2>1, LayoutAssumption DEF U32s
  <2> QED BY <2>1, <2>2, U32Range
<1>3. \A x \in DOMAIN interned :
        x \in Ty /\ IsArray(x) /\ interned[x] \in [size : U32s, align : Aligns]
  BY DEF TypeOK
<1>4. /\ DOMAIN tab = DOMAIN interned \cup {a}
      /\ \A x \in DOMAIN interned : tab[x] = interned[x]
      /\ a \notin DOMAIN interned => tab[a] = e
  <2> HIDE DEF a
  <2>1. CASE a \in DOMAIN interned
    BY <2>1 DEF Intern
  <2>2. CASE a \notin DOMAIN interned
    BY <2>2 DEF Intern
  <2> QED BY <2>1, <2>2
<1> HIDE DEF a, e, tab
<1>5. \A x \in DOMAIN tab :
        x \in Ty /\ IsArray(x) /\ tab[x] \in [size : U32s, align : Aligns]
  BY <1>1, <1>2, <1>3, <1>4
<1> QED BY <1>4, <1>5 DEF a, e, tab

LEMMA TypeResolveArray == TypeOK /\ ResolveArray => TypeOK'
<1> SUFFICES ASSUME TypeOK, ResolveArray PROVE TypeOK'
  OBVIOUS
<1> DEFINE t  == Top.ty
           n  == NextMod
           ok == ArrayError(t, n) = "none"
           ty == IF ok THEN Wrap(t, n) ELSE Plain(Poison)
           f  == [Top EXCEPT !.k = @ + 1, !.ty = ty]
<1>1. Wrapping /\ stack # <<>>
  BY DEF ResolveArray, Wrapping
<1>2. /\ t \in Ty /\ (IsArray(t) => t \in DOMAIN interned) /\ n \in Nat
      /\ Top \in Frame
  BY <1>1, TopParts, NextModOK DEF ResolveArray, Mod
<1>3. stack' = SetTop(f)
  BY <1>2 DEF ResolveArray, Frame
<1>4. /\ interned' = IF ok THEN Intern(Wrap(t, n), t, n) ELSE interned
      /\ placed' = placed /\ UNCHANGED <<decl, pending, state, size, align>>
  BY DEF ResolveArray
<1>5. /\ DOMAIN interned \subseteq DOMAIN interned'
      /\ ok => Wrap(t, n) \in DOMAIN interned'
      /\ \A x \in DOMAIN interned' :
           x \in Ty /\ IsArray(x) /\ interned'[x] \in [size : U32s, align : Aligns]
  <2>1. CASE ok
    <3> HIDE DEF t, n, ok
    <3> QED BY <1>2, <1>4, <2>1, InternOK
  <2>2. CASE ~ok
    BY <1>4, <2>2 DEF TypeOK
  <2> QED BY <2>1, <2>2
<1>6. ty \in Ty /\ (IsArray(ty) => ty \in DOMAIN interned')
  <2>1. Wrap(t, n) \in Ty
    BY <1>2, WrapType DEF Mod
  <2> HIDE DEF t, n, ok
  <2> QED BY <1>5, <2>1, PlainType DEF Base
<1>7. FrameOK(f, interned')
  <2> HIDE DEF ty
  <2> QED BY <1>1, <1>6, WrapTop
<1> HIDE DEF f, ty, ok, t, n
<1> QED BY <1>1, <1>3, <1>4, <1>5, <1>7, TopStep DEF TypeOK

LEMMA TypeLayoutNeeded == TypeOK /\ LayoutNeeded => TypeOK'
<1> SUFFICES ASSUME TypeOK, LayoutNeeded PROVE TypeOK'
  OBVIOUS
<1>1. CallLayout(Top.ty) /\ Top.ty.base \in Struct
  BY DEF LayoutNeeded, Blocked, IsStruct
<1> QED BY <1>1, CallLayoutOK, TypeOKStep DEF TypeOK, LayoutNeeded

\* Moving the top frame on to its next part.
LEMMA NextPart ==
  ASSUME TypeOK, stack # <<>>, NEW off \in U32s, NEW al \in Aligns
  PROVE  LET f == [Top EXCEPT !.i = @ + 1, !.k = Unresolved, !.ty = Plain(Poison),
                     !.offset = off, !.align = al]
         IN FrameOK(f, interned) /\ f.item = Top.item
<1> DEFINE i == Top.i + 1
           f == [Top EXCEPT !.i = i, !.k = Unresolved, !.ty = Plain(Poison),
                   !.offset = off, !.align = al]
<1>1. Top \in Frame /\ i \in Nat \ {0} /\ Plain(Poison) \in Ty /\ ~IsArray(Plain(Poison))
  BY TopParts, PlainType DEF Base
<1> HIDE DEF i
<1>2. f \in Frame /\ f.item = Top.item /\ f.ty = Plain(Poison) /\ f.k = Unresolved
  BY <1>1 DEF Frame
<1> HIDE DEF f
<1>3. AtPart(f) => f.k <= Len(Declared(f).mods)
  <2>1. AtPart(f) => Len(Declared(f).mods) \in Nat
    BY <1>2, DeclaredOK, LenProperties
  <2> QED BY <1>2, <2>1 DEF Unresolved
<1>4. FrameOK(f, interned)
  BY <1>1, <1>2, <1>3 DEF FrameOK
<1> QED BY <1>2, <1>4 DEF f, i

\* Recording one more resolved part of the top frame's item.
LEMMA PlaceOK ==
  ASSUME TypeOK, stack # <<>>, NEW t \in Ty, NEW off \in U32s
  PROVE  [placed EXCEPT ![Top.item] = Append(@, [type |-> t, offset |-> off])]
           \in [Item -> Seq([type : Ty, offset : U32s])]
<1>1. Top.item \in Item /\ placed[Top.item] \in Seq([type : Ty, offset : U32s])
  BY TopParts DEF TypeOK
<1>2. Append(placed[Top.item], [type |-> t, offset |-> off]) \in Seq([type : Ty, offset : U32s])
  BY <1>1, AppendProperties
<1> QED BY <1>1, <1>2 DEF TypeOK

LEMMA TypePlaceField == TypeOK /\ PlaceField => TypeOK'
<1> SUFFICES ASSUME TypeOK, PlaceField PROVE TypeOK'
  OBVIOUS
<1> DEFINE ft  == IF Sized(Top.ty) THEN Top.ty ELSE Plain(Poison)
           off == RoundUp(Top.offset, AlignOf(ft))
           end == U32(off + SizeOf(ft))
           al  == IF AlignOf(ft) > Top.align THEN AlignOf(ft) ELSE Top.align
           f   == [Top EXCEPT !.i = @ + 1, !.k = Unresolved, !.ty = Plain(Poison),
                     !.offset = end, !.align = al]
<1>1. stack # <<>>
  BY DEF PlaceField, PartReady
<1>2. ft \in Ty /\ (IsArray(ft) => ft \in DOMAIN interned)
  BY <1>1, TopParts, PlainType DEF Base
<1>3. SizeOf(ft) \in U32s /\ AlignOf(ft) \in Aligns
  <2> HIDE DEF ft
  <2> QED BY <1>2, SizeOfType
<1>4. off \in U32s /\ end \in U32s /\ al \in Aligns
  <2>1. Top.offset \in Nat /\ Top.align \in Aligns
    BY <1>1, TopParts, LayoutAssumption DEF U32s
  <2> HIDE DEF ft
  <2>2. off \in U32s
    BY <1>3, <2>1, RoundUpRange
  <2>3. off + SizeOf(ft) \in Int
    BY <1>3, <2>2, LayoutAssumption DEF U32s
  <2>4. end \in U32s
    BY <2>3, U32Range
  <2> QED BY <1>3, <2>1, <2>2, <2>4
<1>5. /\ stack' = SetTop(f) /\ UNCHANGED <<decl, pending, state, size, align, interned>>
      /\ placed' = [placed EXCEPT ![Top.item] = Append(@, [type |-> ft, offset |-> off])]
  BY <1>1, TopParts DEF PlaceField, Frame
<1> HIDE DEF ft, off, end, al
<1>6. FrameOK(f, interned)
  BY <1>1, <1>4, NextPart
<1>7. placed' \in [Item -> Seq([type : Ty, offset : U32s])]
  BY <1>1, <1>2, <1>4, <1>5, PlaceOK
<1> HIDE DEF f
<1> QED BY <1>1, <1>5, <1>6, <1>7, TopStep DEF TypeOK

LEMMA TypePlaceUse == TypeOK /\ PlaceUse => TypeOK'
<1> SUFFICES ASSUME TypeOK, PlaceUse PROVE TypeOK'
  OBVIOUS
<1> DEFINE err == UseError(Top.item, Top.i, Top.ty)
           keep == err = "none" \/ (Top.item \in Fn /\ Top.i = 1)
           t == IF keep THEN Top.ty ELSE Plain(Poison)
           f == [Top EXCEPT !.i = @ + 1, !.k = Unresolved, !.ty = Plain(Poison)]
           g == [Top EXCEPT !.i = @ + 1, !.k = Unresolved, !.ty = Plain(Poison),
                   !.offset = Top.offset, !.align = Top.align]
<1>1. stack # <<>>
  BY DEF PlaceUse, PartReady
<1>2. t \in Ty /\ 0 \in U32s
  <2> HIDE DEF keep
  <2> QED BY <1>1, TopParts, PlainType, LayoutAssumption DEF Base, U32s
<1>3. /\ stack' = SetTop(f) /\ UNCHANGED <<decl, pending, state, size, align, interned>>
      /\ placed' = [placed EXCEPT ![Top.item] = Append(@, [type |-> t, offset |-> 0])]
  BY DEF PlaceUse
<1> HIDE DEF t
<1>4. g = f
  BY <1>1, TopParts DEF Frame
<1>5. FrameOK(f, interned)
  <2>1. FrameOK(g, interned)
    BY <1>1, TopParts, NextPart
  <2> HIDE DEF f, g
  <2> QED BY <1>4, <2>1
<1>6. placed' \in [Item -> Seq([type : Ty, offset : U32s])]
  BY <1>1, <1>2, <1>3, PlaceOK
<1> HIDE DEF f
<1> QED BY <1>1, <1>3, <1>5, <1>6, TopStep DEF TypeOK

LEMMA TypeFinishStruct == TypeOK /\ FinishStruct => TypeOK'
<1> SUFFICES ASSUME TypeOK, FinishStruct PROVE TypeOK'
  OBVIOUS
<1>1. stack # <<>> /\ Top.item \in Struct
  BY DEF FinishStruct
<1>2. RoundUp(Top.offset, Top.align) \in U32s /\ Top.align \in Aligns
  <2>1. Top.offset \in Nat /\ Top.align \in Aligns
    BY <1>1, TopParts, LayoutAssumption DEF U32s
  <2> QED BY <2>1, RoundUpRange
<1>3. /\ size' \in [Struct -> U32s] /\ align' \in [Struct -> Aligns]
      /\ state' \in [Struct -> {"unstarted", "in_progress", "done"}]
  BY <1>1, <1>2 DEF FinishStruct, TypeOK
<1>4. stack' \in Seq(Frame) /\ \A d \in 1 .. Len(stack') : FrameOK(stack'[d], interned)
  BY <1>1, PopOK DEF FinishStruct
<1> QED BY <1>3, <1>4, TypeOKStep DEF TypeOK, FinishStruct

LEMMA TypeFinishUse == TypeOK /\ FinishUse => TypeOK'
<1> SUFFICES ASSUME TypeOK, FinishUse PROVE TypeOK'
  OBVIOUS
<1>1. stack' \in Seq(Frame) /\ \A d \in 1 .. Len(stack') : FrameOK(stack'[d], interned)
  BY PopOK DEF FinishUse
<1> QED BY <1>1, TypeOKStep DEF TypeOK, FinishUse

\* Pass 3 keeps every type, size, offset and table entry in the domain the C
\* declarations give it, and never measures an array type it has not interned:
\* whatever the program, no read of a size is undefined (sema.c:202-332).
THEOREM TypeCorrect == Spec => []TypeOK
<1>1. TypeOK /\ [Next]_vars => TypeOK'
  <2> SUFFICES ASSUME TypeOK, [Next]_vars PROVE TypeOK'
    OBVIOUS
  <2>1. CASE UNCHANGED vars
    <3>1. /\ UNCHANGED <<decl, pending, state, size, align, placed>>
          /\ interned' = interned /\ stack' = stack
      BY <2>1 DEF vars
    <3>2. \A d \in 1 .. Len(stack') : FrameOK(stack'[d], interned')
      BY <3>1, TypeOKFrames
    <3> QED BY <3>1, <3>2, TypeOKStep DEF TypeOK
  <2>2. CASE NextItem
    BY <2>2, TypeNextItem
  <2>3. CASE ResolveBase
    BY <2>3, TypeResolveBase
  <2>4. CASE ResolvePointer
    BY <2>4, TypeResolvePointer
  <2>5. CASE ResolveArray
    BY <2>5, TypeResolveArray
  <2>6. CASE LayoutNeeded
    BY <2>6, TypeLayoutNeeded
  <2>7. CASE PlaceField
    BY <2>7, TypePlaceField
  <2>8. CASE PlaceUse
    BY <2>8, TypePlaceUse
  <2>9. CASE FinishStruct
    BY <2>9, TypeFinishStruct
  <2>10. CASE FinishUse
    BY <2>10, TypeFinishUse
  <2> QED
    BY <2>1, <2>2, <2>3, <2>4, <2>5, <2>6, <2>7, <2>8, <2>9, <2>10 DEF Next
<1> QED BY <1>1, TypeInit, PTL DEF Spec

-----------------------------------------------------------------------------
(* StackSound *)

LEMMA StackInit == Init => StackSound
<1> SUFFICES ASSUME NEW p \in Program, NEW o \in Order, InitFor(p, o) PROVE StackSound
  BY DEF Init
<1>1. Len(stack) = 0
  BY EmptySeq DEF InitFor
<1>2. \A s \in Struct : state[s] = "unstarted"
  BY DEF InitFor
<1> QED BY <1>1, <1>2 DEF StackSound

\* A step that keeps the states and the items of the frames.
LEMMA SameFrames ==
  ASSUME StackSound, state' = state, Len(stack') = Len(stack),
         \A d \in 1 .. Len(stack) : stack'[d].item = stack[d].item
  PROVE  StackSound'
  BY DEF StackSound

\* Replacing the top frame by one for the same item keeps the items.
LEMMA SameItems ==
  ASSUME TypeOK, stack # <<>>, NEW f, f.item = Top.item, stack' = SetTop(f)
  PROVE  /\ Len(stack') = Len(stack)
         /\ \A d \in 1 .. Len(stack) : stack'[d].item = stack[d].item
<1>1. stack \in Seq(Frame) /\ Len(stack) \in 1 .. Len(stack)
  BY EmptySeq DEF TypeOK
<1>2. DOMAIN stack = 1 .. Len(stack)
  BY <1>1, LenProperties
<1>3. DOMAIN stack' = 1 .. Len(stack) /\ stack' = [stack EXCEPT ![Len(stack)] = f]
  BY <1>2 DEF SetTop
<1>4. Len(stack') = Len(stack)
  <2>1. stack' \in Seq(Frame \cup {f})
    <3>1. stack \in Seq(Frame \cup {f})
      BY <1>1
    <3> QED BY <1>1, <1>3, <3>1, ExceptSeq
  <2> QED BY <1>1, <1>3, <2>1, LenProperties
<1>5. \A d \in 1 .. Len(stack) : stack'[d] = IF d = Len(stack) THEN f ELSE stack[d]
  BY <1>2, <1>3
<1> QED BY <1>4, <1>5 DEF Top

\* In every step but the calls and the returns, the stack keeps its items.
TopOnly == ResolveBase \/ ResolvePointer \/ ResolveArray \/ PlaceField \/ PlaceUse

LEMMA TopOnlyStep ==
  ASSUME TypeOK, TopOnly
  PROVE  /\ stack # <<>> /\ UNCHANGED <<decl, pending, state, size, align>>
         /\ Len(stack') = Len(stack)
         /\ \A d \in 1 .. Len(stack) : stack'[d].item = stack[d].item
<1>1. stack # <<>> /\ UNCHANGED <<decl, pending, state, size, align>>
  BY DEF TopOnly, ResolveBase, ResolvePointer, ResolveArray, PlaceField, PlaceUse,
         Wrapping, PartReady
<1>2. \E f : f.item = Top.item /\ stack' = SetTop(f)
  <2>0. Top \in Frame
    BY <1>1, TopParts
  <2>1. CASE ResolveBase
    <3> DEFINE f == [Top EXCEPT !.k = 0, !.ty = Plain(IF Declared(Top).base = Unknown
                                           THEN Poison ELSE Declared(Top).base)]
    <3>1. f.item = Top.item
      BY <2>0 DEF Frame
    <3>2. stack' = SetTop(f)
      BY <2>1 DEF ResolveBase
    <3> HIDE DEF f
    <3> QED BY <3>1, <3>2
  <2>2. CASE ResolvePointer
    <3> DEFINE f == [Top EXCEPT !.k = @ + 1, !.ty = Wrap(@, Star)]
    <3>1. f.item = Top.item
      BY <2>0 DEF Frame
    <3>2. stack' = SetTop(f)
      BY <2>2 DEF ResolvePointer
    <3> HIDE DEF f
    <3> QED BY <3>1, <3>2
  <2>3. CASE ResolveArray
    <3> DEFINE f == [Top EXCEPT !.k = @ + 1,
                       !.ty = IF ArrayError(Top.ty, NextMod) = "none"
                                THEN Wrap(Top.ty, NextMod) ELSE Plain(Poison)]
    <3>1. f.item = Top.item
      BY <2>0 DEF Frame
    <3>2. stack' = SetTop(f)
      BY <2>3 DEF ResolveArray
    <3> HIDE DEF f
    <3> QED BY <3>1, <3>2
  <2>4. CASE PlaceField
    <3> DEFINE ft == IF Sized(Top.ty) THEN Top.ty ELSE Plain(Poison)
               off == RoundUp(Top.offset, AlignOf(ft))
               f == [Top EXCEPT !.i = @ + 1, !.k = Unresolved, !.ty = Plain(Poison),
                       !.offset = U32(off + SizeOf(ft)),
                       !.align = IF AlignOf(ft) > @ THEN AlignOf(ft) ELSE @]
    <3>1. f.item = Top.item
      BY <2>0 DEF Frame
    <3>2. stack' = SetTop(f)
      BY <2>4 DEF PlaceField
    <3> HIDE DEF f
    <3> QED BY <3>1, <3>2
  <2>5. CASE PlaceUse
    <3> DEFINE f == [Top EXCEPT !.i = @ + 1, !.k = Unresolved, !.ty = Plain(Poison)]
    <3>1. f.item = Top.item
      BY <2>0 DEF Frame
    <3>2. stack' = SetTop(f)
      BY <2>5 DEF PlaceUse
    <3> HIDE DEF f
    <3> QED BY <3>1, <3>2
  <2> QED BY <2>1, <2>2, <2>3, <2>4, <2>5 DEF TopOnly
<1>3. PICK f : f.item = Top.item /\ stack' = SetTop(f)
  BY <1>2
<1> QED BY <1>1, <1>3, SameItems

\* A call, for a struct met unstarted or in progress.
LEMMA StackCall ==
  ASSUME TypeOK, StackSound, NEW t, t.base \in Struct, CallLayout(t)
  PROVE  StackSound'
<1> DEFINE s == t.base
<1>1. /\ s \in Item /\ state \in [Struct -> {"unstarted", "in_progress", "done"}]
      /\ stack \in Seq(Frame) /\ Len(stack) \in Nat
  BY LenProperties DEF Item, TypeOK
<1>2. CASE state[s] = "unstarted"
  <2>1. /\ state' = [state EXCEPT ![s] = "in_progress"]
        /\ stack' = Append(stack, NewFrame(s))
    BY <1>2 DEF CallLayout
  <2> HIDE DEF s
  <2>2. /\ Len(stack') = Len(stack) + 1 /\ stack'[Len(stack) + 1].item = s
        /\ \A d \in 1 .. Len(stack) : stack'[d] = stack[d]
    BY <1>1, <2>1, PushOK DEF NewFrame
  <2>3. \A d \in 1 .. Len(stack) : stack[d].item # s
    BY <1>1, <1>2 DEF StackSound, s
  <2>4. \A d, e \in 1 .. Len(stack') : stack'[d].item = stack'[e].item => d = e
    BY <1>1, <2>2, <2>3 DEF StackSound
  <2>5. ASSUME NEW x \in Struct
        PROVE  /\ state'[x] = "in_progress" => \E d \in 1 .. Len(stack') : stack'[d].item = x
               /\ state'[x] = "unstarted" => \A d \in 1 .. Len(stack') : stack'[d].item # x
    <3>1. CASE x = s
      <4>1. state'[x] = "in_progress" /\ Len(stack) + 1 \in 1 .. Len(stack')
        BY <1>1, <2>1, <2>2, <3>1
      <4> QED BY <2>2, <3>1, <4>1
    <3>2. CASE x # s
      <4>1. state'[x] = state[x]
        BY <1>1, <2>1, <3>2
      <4> QED BY <1>1, <2>2, <3>2, <4>1 DEF StackSound
    <3> QED BY <3>1, <3>2
  <2> QED BY <2>4, <2>5 DEF StackSound
<1>3. CASE state[s] = "in_progress"
  <2>1. state' = [state EXCEPT ![s] = "done"] /\ stack' = stack
    BY <1>3 DEF CallLayout
  <2> HIDE DEF s
  <2>2. \A x \in Struct : state'[x] # "done" => state'[x] = state[x]
    BY <1>1, <2>1
  <2>3. \A x \in Struct : state'[x] \in {"in_progress", "unstarted"} => state'[x] = state[x]
    BY <2>2
  <2> QED BY <2>1, <2>3 DEF StackSound
<1> QED BY <1>2, <1>3 DEF CallLayout

LEMMA StackNextItem == TypeOK /\ StackSound /\ NextItem => StackSound'
<1> SUFFICES ASSUME TypeOK, StackSound, NextItem PROVE StackSound'
  OBVIOUS
<1> DEFINE it == Head(pending)
<1>1. it \in Item
  BY HeadTailProperties DEF TypeOK, NextItem
<1>2. CASE UNCHANGED <<state, stack, errors>>
  BY <1>2 DEF StackSound
<1>3. CASE it \in Struct /\ CallLayout(Plain(it))
  <2>1. Plain(it).base = it
    BY DEF Plain
  <2> QED BY <1>3, <2>1, StackCall
<1>4. CASE it \notin Struct /\ stack' = <<NewFrame(it)>> /\ state' = state
  <2>1. Len(stack') = 1 /\ stack'[1].item = it
    BY <1>4 DEF NewFrame
  <2>2. \A s \in Struct : state[s] # "in_progress"
    <3>1. Len(stack) = 0
      BY EmptySeq DEF NextItem
    <3> QED BY <3>1 DEF StackSound
  <2>3. \A d \in 1 .. Len(stack') : d = 1
    BY <2>1
  <2> HIDE DEF it
  <2> QED BY <1>4, <2>1, <2>2, <2>3 DEF StackSound
<1> QED BY <1>2, <1>3, <1>4 DEF NextItem

LEMMA StackFinish ==
  TypeOK /\ StackSound /\ (FinishStruct \/ FinishUse) => StackSound'
<1> SUFFICES ASSUME TypeOK, StackSound, FinishStruct \/ FinishUse PROVE StackSound'
  OBVIOUS
<1>1. stack # <<>> /\ stack' = Pop
  BY DEF FinishStruct, FinishUse
<1>2. /\ Len(stack') = Len(stack) - 1 /\ Len(stack) \in Nat \ {0}
      /\ \A d \in 1 .. Len(stack') : stack'[d] = stack[d]
  BY <1>1, PopOK, TopOK
<1>3. ASSUME NEW s \in Struct
      PROVE  \/ s = Top.item /\ state'[s] = "done"
             \/ s # Top.item /\ state'[s] = state[s]
  <2>1. CASE FinishStruct
    BY <2>1 DEF FinishStruct, TypeOK
  <2>2. CASE FinishUse
    BY <2>2 DEF FinishUse
  <2> QED BY <2>1, <2>2
<1>4. \A d, e \in 1 .. Len(stack') : stack'[d].item = stack'[e].item => d = e
  BY <1>2 DEF StackSound
<1>5. ASSUME NEW s \in Struct
      PROVE  /\ state'[s] = "in_progress" => \E d \in 1 .. Len(stack') : stack'[d].item = s
             /\ state'[s] = "unstarted" => \A d \in 1 .. Len(stack') : stack'[d].item # s
  <2>1. CASE s = Top.item /\ state'[s] = "done"
    BY <2>1
  <2>2. CASE s # Top.item /\ state'[s] = state[s]
    <3>1. ASSUME state'[s] = "in_progress"
          PROVE  \E d \in 1 .. Len(stack') : stack'[d].item = s
      <4>1. PICK d \in 1 .. Len(stack) : stack[d].item = s
        BY <2>2, <3>1 DEF StackSound
      <4>2. d # Len(stack)
        BY <2>2, <4>1 DEF Top
      <4>3. d \in 1 .. Len(stack') /\ stack'[d] = stack[d]
        BY <1>2, <4>1, <4>2
      <4> QED BY <4>1, <4>3
    <3>2. ASSUME state'[s] = "unstarted"
          PROVE  \A d \in 1 .. Len(stack') : stack'[d].item # s
      <4>1. \A d \in 1 .. Len(stack) : stack[d].item # s
        BY <2>2, <3>2 DEF StackSound
      <4>2. \A d \in 1 .. Len(stack') : d \in 1 .. Len(stack)
        BY <1>2
      <4> QED BY <1>2, <4>1, <4>2
    <3> QED BY <3>1, <3>2
  <2> QED BY <1>3, <2>1, <2>2
<1> QED BY <1>4, <1>5 DEF StackSound

LEMMA StackStep == TypeOK /\ StackSound /\ [Next]_vars => StackSound'
<1> SUFFICES ASSUME TypeOK, StackSound, [Next]_vars PROVE StackSound'
  OBVIOUS
<1>1. CASE UNCHANGED vars
  BY <1>1 DEF vars, StackSound
<1>2. CASE NextItem
  BY <1>2, StackNextItem
<1>3. CASE TopOnly
  BY <1>3, TopOnlyStep, SameFrames
<1>4. CASE LayoutNeeded
  <2>1. CallLayout(Top.ty) /\ Top.ty.base \in Struct
    BY <1>4 DEF LayoutNeeded, Blocked, IsStruct
  <2> QED BY <2>1, StackCall
<1>5. CASE FinishStruct \/ FinishUse
  BY <1>5, StackFinish
<1> QED BY <1>1, <1>2, <1>3, <1>4, <1>5 DEF Next, TopOnly

\* layout_struct never runs twice at once for a struct, however the structs of
\* the program refer to one another, and a struct marked in progress has its
\* call on the stack: the mark is what stops the recursion (sema.c:241-264).
THEOREM StackIsSound == Spec => []StackSound
<1>1. TypeOK /\ StackSound /\ [Next]_vars => StackSound'
  BY StackStep
<1> QED BY <1>1, StackInit, TypeCorrect, PTL DEF Spec

-----------------------------------------------------------------------------
(* While no cycle is diagnosed *)

\* Every layout_struct that has not returned is of a struct in progress.
OpenInProgress ==
  SelfErrors = {} =>
    \A d \in 1 .. Len(stack) :
      stack[d].item \in Struct => state[stack[d].item] = "in_progress"

LEMMA ErrorsGrow == [Next]_vars => errors \subseteq errors'
<1> SUFFICES ASSUME [Next]_vars PROVE errors \subseteq errors'
  OBVIOUS
<1>1. CASE UNCHANGED vars
  BY <1>1 DEF vars
<1>2. CASE NextItem
  BY <1>2 DEF NextItem, CallLayout
<1>3. CASE ResolveBase
  BY <1>3 DEF ResolveBase
<1>4. CASE ResolveArray
  BY <1>4 DEF ResolveArray
<1>5. CASE LayoutNeeded
  BY <1>5 DEF LayoutNeeded, CallLayout
<1>6. CASE PlaceField
  BY <1>6 DEF PlaceField
<1>7. CASE PlaceUse
  BY <1>7 DEF PlaceUse
<1>8. CASE ResolvePointer \/ FinishStruct \/ FinishUse
  BY <1>8 DEF ResolvePointer, FinishStruct, FinishUse
<1> QED
  BY <1>1, <1>2, <1>3, <1>4, <1>5, <1>6, <1>7, <1>8 DEF Next

LEMMA SelfErrorsGrow == ASSUME [Next]_vars, SelfErrors' = {} PROVE SelfErrors = {}
  BY ErrorsGrow DEF SelfErrors

LEMMA NoErrors == errors = {} => SelfErrors = {}
  BY DEF SelfErrors

\* A struct met in progress is reported.
LEMMA ReportStep ==
  ASSUME NEW s, errors' = errors \cup {Err("contains itself", s, 0)}
  PROVE  SelfErrors' # {}
<1> DEFINE e == Err("contains itself", s, 0)
<1>1. e \in errors'
  OBVIOUS
<1>2. e.kind = "contains itself"
  BY DEF Err
<1> HIDE DEF e
<1>3. e \in SelfErrors'
  BY <1>1, <1>2, Zenon DEF SelfErrors
<1> QED BY <1>3

\* What a call changes when it reports nothing.
LEMMA QuietCall ==
  ASSUME TypeOK, NEW t, t.base \in Struct, CallLayout(t), SelfErrors' = {}
  PROVE  /\ state[t.base] = "unstarted"
         /\ state' = [state EXCEPT ![t.base] = "in_progress"]
         /\ stack' = Append(stack, NewFrame(t.base))
         /\ Len(stack') = Len(stack) + 1 /\ Len(stack) \in Nat
         /\ stack'[Len(stack) + 1].item = t.base
         /\ \A d \in 1 .. Len(stack) : stack'[d] = stack[d]
<1>1. t.base \in Item /\ Len(stack) \in Nat
  BY LenProperties DEF Item, TypeOK
<1>2. /\ state[t.base] = "unstarted"
      /\ state' = [state EXCEPT ![t.base] = "in_progress"]
      /\ stack' = Append(stack, NewFrame(t.base))
  BY ReportStep DEF CallLayout
<1> QED BY <1>1, <1>2, PushOK DEF NewFrame

LEMMA OpenCall ==
  ASSUME TypeOK, StackSound, OpenInProgress, NEW t, t.base \in Struct, CallLayout(t),
         SelfErrors = {}, SelfErrors' = {}
  PROVE  OpenInProgress'
<1>1. /\ state[t.base] = "unstarted"
      /\ state' = [state EXCEPT ![t.base] = "in_progress"]
      /\ Len(stack') = Len(stack) + 1 /\ Len(stack) \in Nat
      /\ stack'[Len(stack) + 1].item = t.base
      /\ \A d \in 1 .. Len(stack) : stack'[d] = stack[d]
  BY QuietCall
<1>2. ASSUME NEW d \in 1 .. Len(stack'), stack'[d].item \in Struct
      PROVE  state'[stack'[d].item] = "in_progress"
  <2>1. CASE d = Len(stack) + 1
    BY <1>1, <2>1 DEF TypeOK
  <2>2. CASE d \in 1 .. Len(stack)
    <3>1. state[stack[d].item] = "in_progress" /\ stack'[d] = stack[d]
      BY <1>1, <1>2, <2>2 DEF OpenInProgress
    <3> QED BY <1>1, <1>2, <3>1 DEF TypeOK
  <2> QED BY <1>1, <2>1, <2>2
<1> QED BY <1>2 DEF OpenInProgress

LEMMA OpenStep ==
  TypeOK /\ StackSound /\ OpenInProgress /\ [Next]_vars => OpenInProgress'
<1> SUFFICES ASSUME TypeOK, StackSound, OpenInProgress, [Next]_vars, SelfErrors' = {}
             PROVE  OpenInProgress'
  BY DEF OpenInProgress
<1>0. SelfErrors = {}
  BY SelfErrorsGrow
<1>1. CASE UNCHANGED vars
  BY <1>0, <1>1 DEF vars, OpenInProgress
<1>2. CASE NextItem
  <2> DEFINE it == Head(pending)
  <2>1. CASE UNCHANGED <<state, stack, errors>>
    BY <1>0, <2>1 DEF OpenInProgress
  <2>2. CASE it \in Struct /\ CallLayout(Plain(it))
    <3>1. Plain(it).base = it
      BY DEF Plain
    <3> QED BY <1>0, <2>2, <3>1, OpenCall
  <2>3. CASE it \notin Struct /\ stack' = <<NewFrame(it)>>
    <3>1. Len(stack') = 1 /\ stack'[1].item = it
      BY <2>3 DEF NewFrame
    <3>2. \A d \in 1 .. Len(stack') : d = 1
      BY <3>1
    <3> HIDE DEF it
    <3> QED BY <2>3, <3>1, <3>2 DEF OpenInProgress
  <2> QED BY <1>2, <2>1, <2>2, <2>3 DEF NextItem
<1>3. CASE TopOnly
  <2>1. /\ state' = state /\ Len(stack') = Len(stack)
        /\ \A d \in 1 .. Len(stack) : stack'[d].item = stack[d].item
    BY <1>3, TopOnlyStep
  <2> QED BY <1>0, <2>1 DEF OpenInProgress
<1>4. CASE LayoutNeeded
  <2>1. CallLayout(Top.ty) /\ Top.ty.base \in Struct
    BY <1>4 DEF LayoutNeeded, Blocked, IsStruct
  <2> QED BY <1>0, <2>1, OpenCall
<1>5. CASE FinishStruct \/ FinishUse
  <2>1. stack # <<>> /\ stack' = Pop
    BY <1>5 DEF FinishStruct, FinishUse
  <2>2. /\ Len(stack') = Len(stack) - 1 /\ Len(stack) \in Nat \ {0}
        /\ \A d \in 1 .. Len(stack') : stack'[d] = stack[d]
    BY <2>1, PopOK, TopOK
  <2>3. ASSUME NEW d \in 1 .. Len(stack'), stack'[d].item \in Struct
        PROVE  state'[stack'[d].item] = "in_progress"
    <3>1. d \in 1 .. Len(stack) /\ d # Len(stack) /\ Len(stack) \in 1 .. Len(stack)
      BY <2>2
    <3>2. stack[d].item # Top.item /\ stack'[d] = stack[d]
      BY <2>2, <3>1 DEF StackSound, Top
    <3>3. state[stack[d].item] = "in_progress"
      BY <1>0, <2>3, <3>1, <3>2 DEF OpenInProgress
    <3>4. state' = state \/ state' = [state EXCEPT ![Top.item] = "done"]
      BY <1>5 DEF FinishStruct, FinishUse
    <3> QED BY <2>3, <3>2, <3>3, <3>4 DEF TypeOK
  <2> QED BY <2>3 DEF OpenInProgress
<1> QED BY <1>1, <1>2, <1>3, <1>4, <1>5 DEF Next, TopOnly

LEMMA OpenInit == Init => OpenInProgress
<1> SUFFICES ASSUME NEW p \in Program, NEW o \in Order, InitFor(p, o) PROVE OpenInProgress
  BY DEF Init
<1>1. Len(stack) = 0
  BY EmptySeq DEF InitFor
<1> QED BY <1>1 DEF OpenInProgress

LEMMA OpenAlways == Spec => []OpenInProgress
<1>1. TypeOK /\ StackSound /\ OpenInProgress /\ [Next]_vars => OpenInProgress'
  BY OpenStep
<1> QED BY <1>1, OpenInit, TypeCorrect, StackIsSound, PTL DEF Spec

\* The struct of the top frame is not done while no cycle is diagnosed.
LEMMA TopNotDone ==
  ASSUME TypeOK, OpenInProgress, SelfErrors = {}, stack # <<>>, Top.item \in Struct
  PROVE  state[Top.item] = "in_progress"
<1>1. Len(stack) \in 1 .. Len(stack)
  BY TopOK
<1> QED BY <1>1 DEF OpenInProgress, Top

\* A done struct stays as it is: in any step of any program nothing has been
\* diagnosed about.
LEMMA FinalStep ==
  ASSUME TypeOK, OpenInProgress, [Next]_vars, errors = {},
         NEW s \in Struct, state[s] = "done"
  PROVE  /\ state'[s] = "done" /\ size'[s] = size[s] /\ align'[s] = align[s]
         /\ placed'[s] = placed[s]
<1>0. /\ state \in [Struct -> {"unstarted", "in_progress", "done"}]
      /\ size \in [Struct -> U32s] /\ align \in [Struct -> Aligns]
      /\ placed \in [Item -> Seq([type : Ty, offset : U32s])] /\ s \in Item
  BY DEF TypeOK, Item
<1>1. CASE UNCHANGED vars
  BY <1>1 DEF vars
<1>2. ASSUME NEW t, t.base \in Struct, CallLayout(t) PROVE state'[s] = "done"
  BY <1>0, <1>2 DEF CallLayout
<1>3. CASE NextItem
  <2>1. Plain(Head(pending)).base = Head(pending)
    BY DEF Plain
  <2>2. state'[s] = "done"
    BY <1>2, <1>3, <2>1 DEF NextItem
  <2> QED BY <1>3, <2>2 DEF NextItem
<1>4. CASE LayoutNeeded
  <2>1. CallLayout(Top.ty) /\ Top.ty.base \in Struct
    BY <1>4 DEF LayoutNeeded, Blocked, IsStruct
  <2> QED BY <1>2, <1>4, <2>1 DEF LayoutNeeded
<1>5. CASE PlaceField
  <2>1. stack # <<>> /\ Top.item \in Struct
    BY <1>5 DEF PlaceField, PartReady
  <2>2. s # Top.item
    BY <2>1, NoErrors, TopNotDone
  <2> QED BY <1>0, <1>5, <2>2 DEF PlaceField
<1>6. CASE PlaceUse
  <2>1. s # Top.item
    BY <1>6 DEF PlaceUse
  <2> QED BY <1>0, <1>6, <2>1 DEF PlaceUse
<1>7. CASE FinishStruct
  <2>1. stack # <<>> /\ Top.item \in Struct
    BY <1>7 DEF FinishStruct
  <2>2. s # Top.item
    BY <2>1, NoErrors, TopNotDone
  <2> QED BY <1>0, <1>7, <2>2 DEF FinishStruct
<1>8. CASE ResolveBase \/ ResolvePointer \/ ResolveArray \/ FinishUse
  BY <1>8 DEF ResolveBase, ResolvePointer, ResolveArray, FinishUse
<1> QED BY <1>1, <1>3, <1>4, <1>5, <1>6, <1>7, <1>8 DEF Next

\* A struct that pass 3 has finished is finished for good: whatever reads its
\* size, its alignment or its fields reads what they will always be
\* (sema.c:249-251).
THEOREM LayoutIsFinal == Spec => DoneIsFinal
<1>1. TypeOK /\ OpenInProgress /\ [Next]_vars =>
        [errors = {} =>
           \A s \in Struct : state[s] = "done" =>
             /\ state'[s] = "done" /\ size'[s] = size[s] /\ align'[s] = align[s]
             /\ placed'[s] = placed[s]]_vars
  BY FinalStep
<1> QED BY <1>1, TypeCorrect, OpenAlways, PTL DEF Spec, DoneIsFinal

-----------------------------------------------------------------------------
(* The array table *)

\* An array type is interned over an element that cannot change any more.
InternedOverFinal ==
  errors = {} =>
    \A t \in DOMAIN interned :
      /\ IsStruct(Elem(t)) => state[Elem(t).base] = "done"
      /\ IsArray(Elem(t)) => Elem(t) \in DOMAIN interned

\* The size of a type over a final element survives a step.
LEMMA SizeKept ==
  ASSUME TypeOK, OpenInProgress, [Next]_vars, errors = {}, NEW t \in Ty,
         IsStruct(t) => state[t.base] = "done",
         IsArray(t) => t \in DOMAIN interned /\ interned'[t] = interned[t]
  PROVE  SizeOf(t)' = SizeOf(t) /\ AlignOf(t)' = AlignOf(t)
<1>1. IsStruct(t) => size'[t.base] = size[t.base] /\ align'[t.base] = align[t.base]
  BY FinalStep DEF IsStruct
<1>2. /\ IsPointer(t) => ~IsArray(t) /\ ~IsStruct(t) /\ ~IsCore(t)
      /\ IsArray(t) => ~IsPointer(t) /\ ~IsStruct(t) /\ ~IsCore(t)
      /\ IsStruct(t) => ~IsCore(t) /\ ~IsPointer(t) /\ ~IsArray(t)
      /\ IsCore(t) => ~IsPointer(t) /\ ~IsArray(t)
  BY LayoutAssumption DEF IsPointer, IsArray, IsStruct, IsCore
<1>3. CASE IsPointer(t)
  BY <1>2, <1>3 DEF SizeOf, AlignOf
<1>4. CASE IsArray(t)
  BY <1>2, <1>4 DEF SizeOf, AlignOf
<1>5. CASE IsStruct(t)
  BY <1>1, <1>2, <1>5 DEF SizeOf, AlignOf
<1>6. CASE IsCore(t)
  BY <1>2, <1>6 DEF SizeOf, AlignOf
<1>7. CASE ~IsPointer(t) /\ ~IsArray(t) /\ ~IsStruct(t) /\ ~IsCore(t)
  BY <1>7 DEF SizeOf, AlignOf
<1> QED BY <1>3, <1>4, <1>5, <1>6, <1>7

LEMMA ElemType ==
  ASSUME NEW t \in Ty, IsArray(t)
  PROVE  Elem(t) \in Ty
<1>1. t.mods \in Seq(Mod) /\ t.mods # <<>>
  BY DEF Ty, IsArray
<1>2. SubSeq(t.mods, 1, Len(t.mods) - 1) \in Seq(Mod)
  BY <1>1, CutLast
<1> QED BY <1>2 DEF Elem, Ty

\* Every step leaves the table as it is, or adds one array of a final element.
LEMMA TableStep ==
  ASSUME TypeOK, [Next]_vars
  PROVE  \/ interned' = interned
         \/ \E t \in Ty, n \in Nat :
              /\ Wrap(t, n) \notin DOMAIN interned
              /\ DOMAIN interned' = DOMAIN interned \cup {Wrap(t, n)}
              /\ \A x \in DOMAIN interned : interned'[x] = interned[x]
              /\ interned'[Wrap(t, n)] = [size |-> U32(n * SizeOf(t)), align |-> AlignOf(t)]
              /\ IsStruct(t) => state[t.base] = "done"
              /\ IsArray(t) => t \in DOMAIN interned
<1>1. CASE ResolveArray
  <2> DEFINE t == Top.ty
             n == NextMod
  <2>1. Wrapping /\ stack # <<>> /\ ~Blocked(t) /\ n # Star
    BY <1>1 DEF ResolveArray, Wrapping
  <2>2. t \in Ty /\ (IsArray(t) => t \in DOMAIN interned) /\ n \in Nat
    BY <2>1, TopParts, NextModOK DEF Mod
  <2>3. interned' = Intern(Wrap(t, n), t, n) \/ interned' = interned
    BY <1>1 DEF ResolveArray
  <2>4. IsStruct(t) => state[t.base] = "done"
    BY <2>1 DEF Blocked
  <2> HIDE DEF t, n
  <2>5. CASE Wrap(t, n) \in DOMAIN interned
    BY <2>3, <2>5 DEF Intern
  <2>6. CASE Wrap(t, n) \notin DOMAIN interned /\ interned' = Intern(Wrap(t, n), t, n)
    BY <2>2, <2>4, <2>6, InternOK
  <2> QED BY <2>3, <2>5, <2>6
<1>2. CASE ~ResolveArray
  BY <1>2 DEF Next, vars, NextItem, ResolveBase, ResolvePointer, LayoutNeeded, PlaceField,
              PlaceUse, FinishStruct, FinishUse
<1> QED BY <1>1, <1>2

TableSound == InternedOverFinal /\ InternedSizesCurrent

LEMMA TableSoundStep ==
  TypeOK /\ OpenInProgress /\ TableSound /\ [Next]_vars => TableSound'
<1> SUFFICES ASSUME TypeOK, OpenInProgress, TableSound, [Next]_vars, errors' = {}
             PROVE  TableSound'
  BY DEF TableSound, InternedOverFinal, InternedSizesCurrent
<1>0. errors = {}
  BY ErrorsGrow
<1> DEFINE Sound(x) ==
             /\ IsStruct(Elem(x)) => state'[Elem(x).base] = "done"
             /\ IsArray(Elem(x)) => Elem(x) \in DOMAIN interned'
             /\ interned'[x].size = U32(OuterMod(x) * SizeOf(Elem(x))')
             /\ interned'[x].align = AlignOf(Elem(x))'
<1>1. ASSUME NEW x \in DOMAIN interned, \A y \in DOMAIN interned :
                                          y \in DOMAIN interned' /\ interned'[y] = interned[y]
      PROVE  Sound(x)
  <2>1. x \in Ty /\ IsArray(x) /\ Elem(x) \in Ty
    BY ElemType DEF TypeOK
  <2>2. /\ IsStruct(Elem(x)) => state[Elem(x).base] = "done"
        /\ IsArray(Elem(x)) => Elem(x) \in DOMAIN interned
        /\ interned[x].size = U32(OuterMod(x) * SizeOf(Elem(x)))
        /\ interned[x].align = AlignOf(Elem(x))
    BY <1>0 DEF TableSound, InternedOverFinal, InternedSizesCurrent
  <2> DEFINE e == Elem(x)
  <2>3. e \in Ty /\ (IsStruct(e) => state[e.base] = "done")
        /\ (IsArray(e) => e \in DOMAIN interned /\ interned'[e] = interned[e])
    BY <1>1, <2>1, <2>2
  <2>4. IsStruct(e) => state'[e.base] = "done"
    BY <1>0, <2>3, FinalStep DEF IsStruct
  <2> HIDE DEF e
  <2>5. SizeOf(e)' = SizeOf(e) /\ AlignOf(e)' = AlignOf(e)
    BY <1>0, <2>3, SizeKept
  <2> QED BY <1>1, <2>2, <2>3, <2>4, <2>5 DEF e
<1>2. CASE interned' = interned
  BY <1>1, <1>2 DEF TableSound, InternedOverFinal, InternedSizesCurrent
<1>3. CASE interned' # interned
  <2>1. PICK t \in Ty, n \in Nat :
          /\ Wrap(t, n) \notin DOMAIN interned
          /\ DOMAIN interned' = DOMAIN interned \cup {Wrap(t, n)}
          /\ \A x \in DOMAIN interned : interned'[x] = interned[x]
          /\ interned'[Wrap(t, n)] = [size |-> U32(n * SizeOf(t)), align |-> AlignOf(t)]
          /\ IsStruct(t) => state[t.base] = "done"
          /\ IsArray(t) => t \in DOMAIN interned
    BY <1>3, TableStep
  <2>2. Elem(Wrap(t, n)) = t /\ OuterMod(Wrap(t, n)) = n
    BY WrapType DEF Mod
  <2>3. SizeOf(t)' = SizeOf(t) /\ AlignOf(t)' = AlignOf(t)
    BY <1>0, <2>1, SizeKept
  <2>4. IsStruct(t) => state'[t.base] = "done"
    BY <1>0, <2>1, FinalStep DEF IsStruct
  <2>5. Sound(Wrap(t, n))
    BY <2>1, <2>2, <2>3, <2>4
  <2>6. \A x \in DOMAIN interned : Sound(x)
    BY <1>1, <2>1
  <2> HIDE DEF Sound
  <2>7. \A x \in DOMAIN interned' : Sound(x)
    BY <2>1, <2>5, <2>6
  <2> QED BY <2>7 DEF Sound, TableSound, InternedOverFinal, InternedSizesCurrent
<1> QED BY <1>2, <1>3

LEMMA TableSoundInit == Init => TableSound
<1> SUFFICES ASSUME NEW p \in Program, NEW o \in Order, InitFor(p, o) PROVE TableSound
  BY DEF Init
<1>1. DOMAIN interned = {}
  BY DEF InitFor
<1> QED BY <1>1 DEF TableSound, InternedOverFinal, InternedSizesCurrent

LEMMA TableAlwaysSound == Spec => []TableSound
<1>1. TypeOK /\ OpenInProgress /\ TableSound /\ [Next]_vars => TableSound'
  BY TableSoundStep
<1> QED BY <1>1, TableSoundInit, TypeCorrect, OpenAlways, PTL DEF Spec

\* The size frozen into an interned array type is never stale: however deep in
\* the recursion the type was built, its element was final by then
\* (sema.c:217-221, types.c:117-134).
THEOREM SizesAreCurrent == Spec => []InternedSizesCurrent
<1>1. TableSound => InternedSizesCurrent
  BY DEF TableSound
<1> QED BY <1>1, TableAlwaysSound, PTL
-----------------------------------------------------------------------------
(* What a frame has laid out so far *)

\* Laying out a struct with a part of type ft lays out t.
EagerPart(ft, t) == ft.base = t /\ (ft.mods = <<>> \/ ft.mods[1] # Star)

\* How far a frame has got with the type it is at, the structs being in the
\* states st: before its first modifier the type is its base, a struct type is
\* that base still, and past a first `[n]` the base has been laid out.
Halfway(f, st) ==
  AtPart(f) =>
    LET ft == Declared(f) IN
    /\ f.k = 0 /\ ft.base \in Struct => f.ty = Plain(ft.base)
    /\ f.k # Unresolved /\ IsStruct(f.ty) => f.k = 0 /\ f.ty.base = ft.base
    /\ f.k > 0 /\ ft.base \in Struct /\ ft.mods[1] # Star => st[ft.base] = "done"

\* The structs that the parts before the frame's need are laid out.
PassedDone(f, st) ==
  f.item \in Struct =>
    \A j \in 1 .. Len(decl[f.item]) : j < f.i =>
      \A t \in Struct : EagerPart(decl[f.item][j].type, t) => st[t] = "done"

FrameSound(f, st) == Halfway(f, st) /\ PassedDone(f, st)
FramesAdvance == \A d \in 1 .. Len(stack) : FrameSound(stack[d], state)

LEMMA DoneStays ==
  ASSUME TypeOK, [Next]_vars, NEW s \in Struct, state[s] = "done"
  PROVE  state'[s] = "done"
<1>0. state \in [Struct -> {"unstarted", "in_progress", "done"}]
  BY DEF TypeOK
<1>1. CASE UNCHANGED vars
  BY <1>1 DEF vars
<1>2. ASSUME NEW t, t.base \in Struct, CallLayout(t) PROVE state'[s] = "done"
  BY <1>0, <1>2 DEF CallLayout
<1>3. CASE NextItem
  <2>1. Plain(Head(pending)).base = Head(pending)
    BY DEF Plain
  <2> QED BY <1>2, <1>3, <2>1 DEF NextItem
<1>4. CASE LayoutNeeded
  <2>1. CallLayout(Top.ty) /\ Top.ty.base \in Struct
    BY <1>4 DEF LayoutNeeded, Blocked, IsStruct
  <2> QED BY <1>2, <2>1
<1>5. CASE TopOnly
  BY <1>5, TopOnlyStep
<1>6. CASE FinishStruct \/ FinishUse
  BY <1>0, <1>6 DEF FinishStruct, FinishUse
<1> QED BY <1>1, <1>3, <1>4, <1>5, <1>6 DEF Next, TopOnly

LEMMA DeclStays == [Next]_vars => decl' = decl
<1> SUFFICES ASSUME [Next]_vars PROVE decl' = decl
  OBVIOUS
<1>1. CASE UNCHANGED vars
  BY <1>1 DEF vars
<1>2. CASE NextItem \/ ResolveBase \/ ResolvePointer \/ ResolveArray
  BY <1>2 DEF NextItem, ResolveBase, ResolvePointer, ResolveArray
<1>3. CASE LayoutNeeded \/ PlaceField \/ PlaceUse \/ FinishStruct \/ FinishUse
  BY <1>3 DEF LayoutNeeded, PlaceField, PlaceUse, FinishStruct, FinishUse
<1> QED BY <1>1, <1>2, <1>3 DEF Next

\* What a frame has laid out stays laid out.
LEMMA FrameStaysSound ==
  ASSUME NEW f, NEW s1, NEW s2, FrameSound(f, s1),
         \A s \in Struct : s1[s] = "done" => s2[s] = "done"
  PROVE  FrameSound(f, s2)
<1>1. Halfway(f, s2)
  BY DEF FrameSound, Halfway
<1>2. PassedDone(f, s2)
  BY DEF FrameSound, PassedDone
<1> QED BY <1>1, <1>2 DEF FrameSound

LEMMA NewFrameSound ==
  ASSUME TypeOK, NEW it \in Item, NEW st
  PROVE  FrameSound(NewFrame(it), st)
<1>1. Len(decl[it]) \in Nat
  BY LenProperties DEF TypeOK
<1>2. NewFrame(it).item = it /\ NewFrame(it).i = 1 /\ NewFrame(it).k = -1
  BY DEF NewFrame, Unresolved
<1>3. Halfway(NewFrame(it), st)
  BY <1>2 DEF Halfway, Unresolved
<1>4. PassedDone(NewFrame(it), st)
  BY <1>1, <1>2 DEF PassedDone
<1> QED BY <1>3, <1>4 DEF FrameSound

\* A frame that moves on within its part has passed the same parts.
LEMMA SamePart ==
  ASSUME NEW f, NEW g, NEW st, FrameSound(f, st), g.item = f.item, g.i = f.i, Halfway(g, st)
  PROVE  FrameSound(g, st)
  BY DEF FrameSound, PassedDone

LEMMA TopFrameSound ==
  ASSUME TypeOK, FramesAdvance, stack # <<>>
  PROVE  FrameSound(Top, state)
<1>1. Len(stack) \in 1 .. Len(stack)
  BY TopOK
<1> QED BY <1>1 DEF FramesAdvance, Top

\* The base of the type a frame is at, as the frame has left it.
LEMMA BaseSound ==
  ASSUME TypeOK, FramesAdvance, ResolveBase
  PROVE  \E f : stack' = SetTop(f) /\ FrameSound(f, state)
<1> DEFINE b == Declared(Top).base
           c == IF b = Unknown THEN Poison ELSE b
           f == [Top EXCEPT !.k = 0, !.ty = Plain(c)]
<1>1. stack # <<>> /\ AtPart(Top) /\ stack' = SetTop(f)
  BY DEF ResolveBase
<1>2. Top \in Frame /\ FrameSound(Top, state)
  BY <1>1, TopParts, TopFrameSound
<1>3. /\ f.ty = Plain(c) /\ f.k = 0 /\ f.item = Top.item /\ f.i = Top.i
  BY <1>2 DEF Frame
<1>4. /\ b \in Struct => c = b
      /\ c \in Struct => c = b
      /\ Plain(c).base = c
  BY LayoutAssumption DEF Plain
<1> HIDE DEF f
<1>5. Declared(f) = Declared(Top)
  BY <1>3 DEF Declared
<1> HIDE DEF c
<1>6. Halfway(f, state)
  BY <1>3, <1>4, <1>5 DEF Halfway, IsStruct
<1>7. FrameSound(f, state)
  BY <1>2, <1>3, <1>6, SamePart
<1> QED BY <1>1, <1>7

\* A frame past the modifier it was at, its type no struct any more.
LEMMA WrapSound ==
  ASSUME TypeOK, FramesAdvance, Wrapping, NEW t, ~IsStruct(t),
         NextMod = Star \/ ~Blocked(Top.ty), NEW f, f = [Top EXCEPT !.k = @ + 1, !.ty = t]
  PROVE  FrameSound(f, state)
<1>1. stack # <<>> /\ AtPart(Top) /\ Top.k # Unresolved
  BY DEF Wrapping
<1>2. Top \in Frame /\ FrameSound(Top, state) /\ Top.k \in Nat
  BY <1>1, TopParts, TopFrameSound, NextModOK
<1>3. f.ty = t /\ f.k = Top.k + 1 /\ f.item = Top.item /\ f.i = Top.i
  BY <1>2 DEF Frame
<1>4. Declared(f) = Declared(Top)
  BY <1>3 DEF Declared
<1>5. ASSUME Declared(Top).base \in Struct, Declared(Top).mods[1] # Star
      PROVE  state[Declared(Top).base] = "done"
  <2>1. CASE Top.k > 0
    BY <1>1, <1>2, <1>5, <2>1 DEF FrameSound, Halfway
  <2>2. CASE Top.k = 0
    <3>1. NextMod # Star
      BY <1>5, <2>2 DEF NextMod
    <3>2. Top.ty = Plain(Declared(Top).base)
      BY <1>1, <1>2, <1>5, <2>2 DEF FrameSound, Halfway
    <3> QED BY <1>5, <3>1, <3>2 DEF Blocked, IsStruct, Plain
  <2> QED BY <1>2, <2>1, <2>2
<1>6. Halfway(f, state)
  BY <1>2, <1>3, <1>4, <1>5 DEF Halfway
<1> QED BY <1>2, <1>3, <1>6, SamePart

\* What the part a frame has resolved needs is laid out.
LEMMA ReadyDone ==
  ASSUME TypeOK, FramesAdvance, PartReady, NEW t \in Struct, EagerPart(Declared(Top), t)
  PROVE  state[t] = "done"
<1>1. stack # <<>> /\ AtPart(Top) /\ Top.k # Unresolved /\ Resolved(Top) /\ ~Blocked(Top.ty)
  BY DEF PartReady
<1>2. FrameSound(Top, state) /\ Declared(Top).mods \in Seq(Mod) /\ Top \in Frame
  BY <1>1, TopParts, TopFrameSound, DeclaredOK
<1>3. Declared(Top).base = t /\ Top.k = Len(Declared(Top).mods) /\ Top.k \in Nat
  BY <1>1, <1>2, LenProperties DEF EagerPart, Resolved
<1>4. CASE Declared(Top).mods = <<>>
  <2>1. Top.k = 0
    BY <1>3, <1>4
  <2>2. Top.ty = Plain(t)
    BY <1>1, <1>2, <1>3, <2>1 DEF FrameSound, Halfway
  <2> QED BY <1>1, <2>2 DEF Blocked, IsStruct, Plain
<1>5. CASE Declared(Top).mods # <<>>
  <2>1. Top.k > 0 /\ Declared(Top).mods[1] # Star
    BY <1>2, <1>3, <1>5, EmptySeq DEF EagerPart
  <2> QED BY <1>1, <1>2, <1>3, <2>1 DEF FrameSound, Halfway
<1> QED BY <1>4, <1>5

\* A frame that moves on to its next part.
LEMMA NextSound ==
  ASSUME TypeOK, FramesAdvance, PartReady, NEW f,
         f.item = Top.item, f.i = Top.i + 1, f.k = Unresolved
  PROVE  FrameSound(f, state)
<1>1. stack # <<>>
  BY DEF PartReady
<1>2. FrameSound(Top, state) /\ Top.i \in Nat \ {0} /\ Top.item \in Item
  BY <1>1, TopParts, TopFrameSound
<1>3. Halfway(f, state)
  BY DEF Halfway, Unresolved
<1>4. ASSUME f.item \in Struct, NEW j \in 1 .. Len(decl[f.item]), j < f.i,
             NEW t \in Struct, EagerPart(decl[f.item][j].type, t)
      PROVE  state[t] = "done"
  <2>0. Len(decl[f.item]) \in Nat
    BY <1>2, LenProperties DEF TypeOK
  <2>1. CASE j < Top.i
    BY <1>2, <1>4, <2>1 DEF FrameSound, PassedDone
  <2>2. CASE j = Top.i
    <3>1. EagerPart(Declared(Top), t)
      BY <1>4, <2>2 DEF Declared
    <3> QED BY <3>1, ReadyDone
  <2> QED BY <1>2, <1>4, <2>0, <2>1, <2>2
<1>5. PassedDone(f, state)
  BY <1>4 DEF PassedDone
<1> QED BY <1>3, <1>5 DEF FrameSound

LEMMA TopSound ==
  ASSUME TypeOK, FramesAdvance, TopOnly
  PROVE  \E f : stack' = SetTop(f) /\ FrameSound(f, state)
<1>0. stack # <<>>
  BY TopOnlyStep
<1>1. Top \in Frame /\ Top.ty \in Ty
  BY <1>0, TopParts
<1>2. CASE ResolveBase
  BY <1>2, BaseSound
<1>3. CASE ResolvePointer
  <2> DEFINE f == [Top EXCEPT !.k = @ + 1, !.ty = Wrap(Top.ty, Star)]
  <2>1. Wrapping /\ NextMod = Star /\ stack' = SetTop(f)
    BY <1>1, <1>3 DEF ResolvePointer, Frame
  <2>2. ~IsStruct(Wrap(Top.ty, Star))
    <3>1. IsPointer(Wrap(Top.ty, Star))
      BY <1>1, WrapType DEF Mod
    <3> QED BY <3>1 DEF IsPointer, IsStruct
  <2>3. FrameSound(f, state)
    BY <2>1, <2>2, WrapSound
  <2> HIDE DEF f
  <2> QED BY <2>1, <2>3
<1>4. CASE ResolveArray
  <2> DEFINE t == IF ArrayError(Top.ty, NextMod) = "none"
                    THEN Wrap(Top.ty, NextMod) ELSE Plain(Poison)
             f == [Top EXCEPT !.k = @ + 1, !.ty = t]
  <2>1. Wrapping /\ ~Blocked(Top.ty) /\ stack' = SetTop(f)
    BY <1>1, <1>4 DEF ResolveArray, Frame
  <2>2. ~IsStruct(t)
    <3>1. IsArray(Wrap(Top.ty, NextMod))
      BY <1>1, <1>4, <2>1, NextModOK, WrapType DEF ResolveArray
    <3>2. ~IsStruct(Wrap(Top.ty, NextMod))
      BY <3>1 DEF IsArray, IsStruct
    <3>3. ~IsStruct(Plain(Poison))
      BY LayoutAssumption, PlainType DEF Base
    <3> QED BY <3>2, <3>3
  <2> HIDE DEF t
  <2>3. FrameSound(f, state)
    BY <2>1, <2>2, WrapSound
  <2> HIDE DEF f
  <2> QED BY <2>1, <2>3
<1>5. CASE PlaceField
  <2> DEFINE ft  == IF Sized(Top.ty) THEN Top.ty ELSE Plain(Poison)
             off == RoundUp(Top.offset, AlignOf(ft))
             end == U32(off + SizeOf(ft))
             al  == IF AlignOf(ft) > Top.align THEN AlignOf(ft) ELSE Top.align
             f   == [Top EXCEPT !.i = @ + 1, !.k = Unresolved, !.ty = Plain(Poison),
                       !.offset = end, !.align = al]
  <2>1. PartReady /\ stack' = SetTop(f)
    BY <1>1, <1>5 DEF PlaceField, Frame
  <2> HIDE DEF ft, off, end, al
  <2>2. f.item = Top.item /\ f.i = Top.i + 1 /\ f.k = Unresolved
    BY <1>1 DEF Frame
  <2>3. FrameSound(f, state)
    BY <2>1, <2>2, NextSound
  <2> HIDE DEF f
  <2> QED BY <2>1, <2>3
<1>6. CASE PlaceUse
  <2> DEFINE f == [Top EXCEPT !.i = @ + 1, !.k = Unresolved, !.ty = Plain(Poison)]
  <2>1. PartReady /\ stack' = SetTop(f)
    BY <1>6 DEF PlaceUse
  <2>2. f.item = Top.item /\ f.i = Top.i + 1 /\ f.k = Unresolved
    BY <1>1 DEF Frame
  <2>3. FrameSound(f, state)
    BY <2>1, <2>2, NextSound
  <2> HIDE DEF f
  <2> QED BY <2>1, <2>3
<1> QED BY <1>2, <1>3, <1>4, <1>5, <1>6 DEF TopOnly

\* Replacing the top frame replaces no other.
LEMMA SetTopAt ==
  ASSUME TypeOK, stack # <<>>, NEW f, stack' = SetTop(f)
  PROVE  /\ Len(stack') = Len(stack) /\ Len(stack) \in Nat \ {0}
         /\ \A d \in 1 .. Len(stack) : stack'[d] = IF d = Len(stack) THEN f ELSE stack[d]
<1>1. stack \in Seq(Frame) /\ Len(stack) \in 1 .. Len(stack) /\ Len(stack) \in Nat \ {0}
  BY EmptySeq DEF TypeOK
<1>2. stack \in Seq(Frame \cup {f})
  BY <1>1
<1> QED BY <1>1, <1>2, ExceptSeq DEF SetTop

LEMMA AdvanceFor ==
  ASSUME decl' = decl, \A d \in 1 .. Len(stack') : FrameSound(stack'[d], state')
  PROVE  FramesAdvance'
<1>1. \A d \in 1 .. Len(stack') : FrameSound(stack[d], state)'
  BY DEF FrameSound, Halfway, PassedDone, AtPart, Declared, EagerPart
<1> QED BY <1>1 DEF FramesAdvance

LEMMA AdvanceStep == TypeOK /\ FramesAdvance /\ [Next]_vars => FramesAdvance'
<1> SUFFICES ASSUME TypeOK, FramesAdvance, [Next]_vars PROVE FramesAdvance'
  OBVIOUS
<1>0. decl' = decl /\ \A s \in Struct : state[s] = "done" => state'[s] = "done"
  BY DeclStays, DoneStays
<1>1. ASSUME NEW d \in 1 .. Len(stack) PROVE FrameSound(stack[d], state')
  BY <1>0, FrameStaysSound DEF FramesAdvance
<1>2. CASE stack' = stack
  BY <1>0, <1>1, <1>2, AdvanceFor
<1>3. ASSUME NEW it \in Item, stack' = Append(stack, NewFrame(it)) PROVE FramesAdvance'
  <2>1. /\ Len(stack') = Len(stack) + 1 /\ Len(stack) \in Nat
        /\ \A d \in 1 .. Len(stack) : stack'[d] = stack[d]
        /\ stack'[Len(stack) + 1] = NewFrame(it)
    BY <1>3, PushOK, LenProperties DEF TypeOK
  <2>2. FrameSound(NewFrame(it), state')
    BY NewFrameSound
  <2>3. \A d \in 1 .. Len(stack') : FrameSound(stack'[d], state')
    BY <1>1, <2>1, <2>2
  <2> QED BY <1>0, <2>3, AdvanceFor
<1>4. ASSUME NEW t, t.base \in Struct, CallLayout(t) PROVE FramesAdvance'
  <2>1. t.base \in Item
    BY <1>4 DEF Item
  <2> QED BY <1>2, <1>3, <1>4, <2>1 DEF CallLayout
<1>5. CASE NextItem
  <2> DEFINE it == Head(pending)
  <2>1. it \in Item /\ Plain(it).base = it
    BY <1>5, HeadTailProperties DEF TypeOK, NextItem, Plain
  <2>2. CASE it \notin Struct /\ stack' = <<NewFrame(it)>>
    <3>1. Len(stack') = 1 /\ stack'[1] = NewFrame(it)
      BY <2>2
    <3>2. FrameSound(NewFrame(it), state')
      BY <2>1, NewFrameSound
    <3> HIDE DEF it
    <3>3. \A d \in 1 .. Len(stack') : FrameSound(stack'[d], state')
      BY <3>1, <3>2
    <3> QED BY <1>0, <3>3, AdvanceFor
  <2> QED BY <1>2, <1>4, <1>5, <2>1, <2>2 DEF NextItem
<1>6. CASE LayoutNeeded
  <2>1. CallLayout(Top.ty) /\ Top.ty.base \in Struct
    BY <1>6 DEF LayoutNeeded, Blocked, IsStruct
  <2> QED BY <1>4, <2>1
<1>7. CASE TopOnly
  <2>1. PICK f : stack' = SetTop(f) /\ FrameSound(f, state)
    BY <1>7, TopSound
  <2>2. FrameSound(f, state')
    BY <1>0, <2>1, FrameStaysSound
  <2>3. stack # <<>>
    BY <1>7, TopOnlyStep
  <2>4. \A d \in 1 .. Len(stack') : FrameSound(stack'[d], state')
    BY <1>1, <2>1, <2>2, <2>3, SetTopAt
  <2> QED BY <1>0, <2>4, AdvanceFor
<1>8. CASE FinishStruct \/ FinishUse
  <2>1. stack # <<>> /\ stack' = Pop
    BY <1>8 DEF FinishStruct, FinishUse
  <2>2. /\ Len(stack') = Len(stack) - 1 /\ Len(stack) \in Nat \ {0}
        /\ \A d \in 1 .. Len(stack') : stack'[d] = stack[d]
    BY <2>1, PopOK, TopOK
  <2>3. \A d \in 1 .. Len(stack') : FrameSound(stack'[d], state')
    BY <1>1, <2>2
  <2> QED BY <1>0, <2>3, AdvanceFor
<1>9. CASE UNCHANGED vars
  BY <1>2, <1>9 DEF vars
<1> QED BY <1>5, <1>6, <1>7, <1>8, <1>9 DEF Next, TopOnly

-----------------------------------------------------------------------------
(* A struct that is blamed is on a cycle *)

LEMMA EagerIff ==
  ASSUME NEW s \in Struct, NEW t \in Struct
  PROVE  <<s, t>> \in Eager <=> \E j \in 1 .. Len(decl[s]) : EagerPart(decl[s][j].type, t)
  BY DEF Eager, FieldTypes, EagerPart

LEMMA EagerStays == ASSUME decl' = decl PROVE Eager' = Eager
  BY DEF Eager, FieldTypes

\* A call is made for what the struct on top of the stack needs.
LEMMA CallIsEager ==
  ASSUME TypeOK, FramesAdvance, LayoutNeeded, Top.item \in Struct
  PROVE  <<Top.item, Top.ty.base>> \in Eager
<1>1. /\ stack # <<>> /\ AtPart(Top) /\ Top.k # Unresolved /\ IsStruct(Top.ty)
      /\ ~Resolved(Top) => NextMod # Star
  BY DEF LayoutNeeded, Blocked
<1>2. /\ Top \in Frame /\ FrameSound(Top, state) /\ Declared(Top).mods \in Seq(Mod)
      /\ Top.item \in Item /\ Top.i \in Nat \ {0}
  BY <1>1, TopParts, TopFrameSound, DeclaredOK
<1>3. Top.k = 0 /\ Declared(Top).base = Top.ty.base /\ Top.ty.base \in Struct
  BY <1>1, <1>2 DEF FrameSound, Halfway, IsStruct
<1>4. EagerPart(Declared(Top), Top.ty.base)
  <2>1. CASE Resolved(Top)
    BY <1>2, <1>3, <2>1, EmptySeq DEF EagerPart, Resolved
  <2>2. CASE ~Resolved(Top)
    BY <1>1, <1>3, <2>2 DEF EagerPart, NextMod
  <2> QED BY <2>1, <2>2
<1>5. Len(decl[Top.item]) \in Nat
  BY <1>2, LenProperties DEF TypeOK
<1>6. Top.i \in 1 .. Len(decl[Top.item])
  BY <1>1, <1>2, <1>5 DEF AtPart
<1> QED BY <1>3, <1>4, <1>6, EagerIff DEF Declared

\* Each call in flight is for something the struct of the call below it needs.
Chained ==
  /\ \A d \in 2 .. Len(stack) : stack[d].item \in Struct
  /\ \A d \in 1 .. Len(stack) - 1 :
       stack[d].item \in Struct => <<stack[d].item, stack[d + 1].item>> \in Eager

\* A step that keeps the calls in flight, or drops the innermost ones.
LEMMA ChainKept ==
  ASSUME Chained, decl' = decl, Len(stack) \in Nat, Len(stack') \in Nat, Len(stack') <= Len(stack),
         \A d \in 1 .. Len(stack') : stack'[d].item = stack[d].item
  PROVE  Chained'
<1>1. Eager' = Eager
  BY EagerStays
<1>2. \A d \in 2 .. Len(stack') : stack'[d].item \in Struct
  BY DEF Chained
<1>3. ASSUME NEW d \in 1 .. Len(stack') - 1, stack'[d].item \in Struct
      PROVE  <<stack'[d].item, stack'[d + 1].item>> \in Eager
  <2>1. /\ d \in 1 .. Len(stack) - 1 /\ d \in 1 .. Len(stack') /\ d + 1 \in 1 .. Len(stack')
    OBVIOUS
  <2>2. stack'[d].item = stack[d].item /\ stack'[d + 1].item = stack[d + 1].item
    BY <2>1
  <2> QED BY <1>3, <2>1, <2>2 DEF Chained
<1> QED BY <1>1, <1>2, <1>3 DEF Chained

LEMMA ChainedInit == Init => Chained
<1> SUFFICES ASSUME NEW p \in Program, NEW o \in Order, InitFor(p, o) PROVE Chained
  BY DEF Init
<1>1. Len(stack) = 0
  BY EmptySeq DEF InitFor
<1> QED BY <1>1 DEF Chained

LEMMA ChainedStep == TypeOK /\ FramesAdvance /\ Chained /\ [Next]_vars => Chained'
<1> SUFFICES ASSUME TypeOK, FramesAdvance, Chained, [Next]_vars PROVE Chained'
  OBVIOUS
<1>0. decl' = decl /\ Len(stack) \in Nat
  BY DeclStays, LenProperties DEF TypeOK
<1>1. CASE stack' = stack
  BY <1>0, <1>1, ChainKept
<1>2. CASE NextItem
  <2> DEFINE it == Head(pending)
  <2>1. stack = <<>> /\ Plain(it).base = it /\ it \in Item
    BY <1>2, HeadTailProperties DEF TypeOK, NextItem, Plain
  <2>2. CASE stack' = Append(stack, NewFrame(it)) \/ stack' = <<NewFrame(it)>>
    <3>1. Len(stack') = 1
      BY <2>1, <2>2
    <3> QED BY <3>1 DEF Chained
  <2>3. CASE it \in Struct /\ CallLayout(Plain(it))
    BY <1>1, <2>1, <2>2, <2>3 DEF CallLayout
  <2> QED BY <1>1, <1>2, <2>2, <2>3 DEF NextItem
<1>3. CASE LayoutNeeded
  <2> DEFINE s == Top.ty.base
  <2>1. CallLayout(Top.ty) /\ s \in Struct /\ stack # <<>>
    BY <1>3 DEF LayoutNeeded, Blocked, IsStruct
  <2>2. s \in Item
    BY <2>1 DEF Item
  <2>3. CASE stack' = Append(stack, NewFrame(s))
    <3>0. Len(stack) \in Nat \ {0} /\ NewFrame(s).item = s
      BY <2>1, TopOK DEF NewFrame
    <3> HIDE DEF s
    <3>1. /\ Len(stack') = Len(stack) + 1
          /\ \A d \in 1 .. Len(stack) : stack'[d] = stack[d]
          /\ stack'[Len(stack) + 1].item = s
      BY <2>2, <2>3, <3>0, PushOK
    <3>2. \A d \in 2 .. Len(stack') : stack'[d].item \in Struct
      BY <2>1, <3>0, <3>1 DEF Chained
    <3>3. ASSUME NEW d \in 1 .. Len(stack') - 1, stack'[d].item \in Struct
          PROVE  <<stack'[d].item, stack'[d + 1].item>> \in Eager
      <4>1. CASE d = Len(stack)
        <5>1. stack'[d].item = Top.item /\ stack'[d + 1].item = s
          BY <3>0, <3>1, <4>1 DEF Top
        <5> QED BY <1>3, <3>3, <5>1, CallIsEager DEF s
      <4>2. CASE d # Len(stack)
        <5>1. d \in 1 .. Len(stack) - 1 /\ d + 1 \in 1 .. Len(stack) /\ d \in 1 .. Len(stack)
          BY <3>0, <3>1, <4>2
        <5> QED BY <3>1, <3>3, <5>1 DEF Chained
      <4> QED BY <4>1, <4>2
    <3>4. Eager' = Eager
      BY <1>0, EagerStays
    <3> QED BY <3>2, <3>3, <3>4 DEF Chained
  <2> QED BY <1>1, <2>1, <2>3 DEF CallLayout
<1>4. CASE TopOnly
  BY <1>0, <1>4, TopOnlyStep, ChainKept
<1>5. CASE FinishStruct \/ FinishUse
  <2>1. stack # <<>> /\ stack' = Pop
    BY <1>5 DEF FinishStruct, FinishUse
  <2>2. /\ Len(stack') = Len(stack) - 1 /\ Len(stack) \in Nat \ {0}
        /\ \A d \in 1 .. Len(stack') : stack'[d] = stack[d]
    BY <2>1, PopOK, TopOK
  <2> QED BY <1>0, <2>2, ChainKept
<1>6. CASE UNCHANGED vars
  BY <1>1, <1>6 DEF vars
<1> QED BY <1>2, <1>3, <1>4, <1>5, <1>6 DEF Next, TopOnly

\* The calls from that of a struct up to one that needs it again are a cycle.
LEMMA StackCycle ==
  ASSUME TypeOK, Chained, stack # <<>>, NEW d \in 1 .. Len(stack), stack[d].item \in Struct,
         <<Top.item, stack[d].item>> \in Eager
  PROVE  Cyclic(Eager)
<1> DEFINE S == {stack[j].item : j \in d .. Len(stack)}
<1>0. Len(stack) \in Nat \ {0}
  BY TopOK
<1>1. \A j \in d .. Len(stack) : stack[j].item \in Struct
  BY <1>0 DEF Chained
<1>2. S \in SUBSET Struct /\ stack[d].item \in S
  BY <1>0, <1>1
<1>3. ASSUME NEW s \in S PROVE \E t \in S : <<s, t>> \in Eager
  <2>1. PICK j \in d .. Len(stack) : s = stack[j].item
    OBVIOUS
  <2>2. CASE j = Len(stack)
    <3>1. stack[d].item \in S
      BY <1>0
    <3> QED BY <2>1, <2>2, <3>1 DEF Top
  <2>3. CASE j # Len(stack)
    <3>1. j \in 1 .. Len(stack) - 1 /\ j + 1 \in d .. Len(stack)
      BY <1>0, <2>3
    <3>2. stack[j + 1].item \in S
      BY <3>1
    <3> QED BY <1>1, <2>1, <3>1, <3>2 DEF Chained
  <2> QED BY <2>2, <2>3
<1> HIDE DEF S
<1>4. S \in (SUBSET Struct) \ {{}}
  BY <1>2
<1> QED BY <1>3, <1>4 DEF Cyclic

\* What is said of the cycles so far is true.
BlameIsTrue == SelfErrors # {} => Cyclic(Eager)

Selfish(E) == {e \in E : e.kind = "contains itself"}

LEMMA OtherKind ==
  ASSUME NEW E, NEW k, k # "contains itself", NEW it, NEW n
  PROVE  Selfish(E \cup {Err(k, it, n)}) = Selfish(E)
<1>1. Err(k, it, n).kind = k
  BY DEF Err
<1> HIDE DEF Err
<1> QED BY <1>1, Zenon DEF Selfish

\* What else is diagnosed, of whatever kind k.
Other(k) == \A E, it, n : Selfish(E \cup {Err(k, it, n)}) = Selfish(E)

LEMMA OtherKinds ==
  /\ Other("unknown type") /\ Other("field has no size") /\ Other("duplicate field")
  /\ \A t, n : Other(ArrayError(t, n))
  /\ \A it, n, t : Other(UseError(it, n, t))
<1>0. ASSUME NEW k, k # "contains itself" PROVE Other(k)
  BY <1>0, OtherKind, Zenon DEF Other
<1>1. Other("unknown type") /\ Other("field has no size")
  <2>1. "unknown type" # "contains itself" /\ "field has no size" # "contains itself"
    BY Zenon
  <2> QED BY <1>0, <2>1, Zenon
<1>2. Other("duplicate field")
  <2>1. "duplicate field" # "contains itself"
    BY Zenon
  <2> QED BY <1>0, <2>1, Zenon
<1>3. ASSUME NEW t, NEW n PROVE Other(ArrayError(t, n))
  <2>1. "zero length" # "contains itself" /\ "element has no size" # "contains itself"
    BY Zenon
  <2>2. "too large" # "contains itself" /\ "none" # "contains itself"
    BY Zenon
  <2>3. ArrayError(t, n) # "contains itself"
    BY <2>1, <2>2, Zenon DEF ArrayError
  <2> QED BY <1>0, <2>3, Zenon
<1>4. ASSUME NEW it, NEW n, NEW t PROVE Other(UseError(it, n, t))
  <2>1. "not a value type" # "contains itself" /\ "void parameter" # "contains itself"
    BY Zenon
  <2>2. "not passable" # "contains itself" /\ "none" # "contains itself"
    BY Zenon
  <2>3. UseError(it, n, t) # "contains itself"
    BY <2>1, <2>2, Zenon DEF UseError
  <2> QED BY <1>0, <2>3, Zenon
<1> QED BY <1>1, <1>2, <1>3, <1>4, Zenon

\* Only layout_struct says that a struct contains itself.
LEMMA OnlyCallsBlame ==
  ASSUME TopOnly
  PROVE  SelfErrors' = SelfErrors
<1> SUFFICES Selfish(errors') = Selfish(errors)
  BY DEF Selfish, SelfErrors
<1>0. ASSUME NEW k, NEW E, Other(k), NEW it, NEW n, errors' = E \cup {Err(k, it, n)}
      PROVE  Selfish(errors') = Selfish(E)
  BY <1>0 DEF Other
<1>1. CASE ResolveBase
  <2>1. errors' = errors \/ errors' = errors \cup {Err("unknown type", Top.item, Top.i)}
    BY <1>1, Zenon DEF ResolveBase
  <2>2. CASE errors' = errors
    BY <2>2
  <2>3. CASE errors' = errors \cup {Err("unknown type", Top.item, Top.i)}
    BY <1>0, <2>3, OtherKinds, Zenon
  <2> QED BY <2>1, <2>2, <2>3
<1>2. CASE ResolvePointer
  BY <1>2 DEF ResolvePointer
<1>3. CASE ResolveArray
  <2>1. \/ errors' = errors
        \/ errors' = errors \cup {Err(ArrayError(Top.ty, NextMod), Top.item, Top.i)}
    BY <1>3, Zenon DEF ResolveArray
  <2>2. CASE errors' = errors
    BY <2>2
  <2>3. CASE errors' = errors \cup {Err(ArrayError(Top.ty, NextMod), Top.item, Top.i)}
    BY <1>0, <2>3, OtherKinds, Zenon
  <2> QED BY <2>1, <2>2, <2>3
<1>4. CASE PlaceField
  <2> DEFINE E == IF Sized(Top.ty) THEN errors
                    ELSE errors \cup {Err("field has no size", Top.item, Top.i)}
  <2>1. Selfish(E) = Selfish(errors)
    <3>1. CASE Sized(Top.ty)
      BY <3>1
    <3>2. CASE ~Sized(Top.ty)
      <4>1. E = errors \cup {Err("field has no size", Top.item, Top.i)}
        BY <3>2, Zenon
      <4>2. Other("field has no size")
        BY OtherKinds, Zenon
      <4>3. Selfish(errors \cup {Err("field has no size", Top.item, Top.i)}) = Selfish(errors)
        BY <4>2, Zenon DEF Other
      <4> QED BY <4>1, <4>3, Zenon
    <3> QED BY <3>1, <3>2
  <2>2. errors' = E \/ errors' = E \cup {Err("duplicate field", Top.item, Top.i)}
    BY <1>4 DEF PlaceField
  <2> HIDE DEF E
  <2>3. CASE errors' = E
    BY <2>1, <2>3
  <2>4. CASE errors' = E \cup {Err("duplicate field", Top.item, Top.i)}
    <3>1. Selfish(errors') = Selfish(E)
      BY <1>0, <2>4, OtherKinds, Zenon
    <3> QED BY <2>1, <3>1
  <2> QED BY <2>2, <2>3, <2>4
<1>5. CASE PlaceUse
  <2>1. \/ errors' = errors
        \/ errors' = errors \cup {Err(UseError(Top.item, Top.i, Top.ty), Top.item, Top.i)}
    BY <1>5, Zenon DEF PlaceUse
  <2>2. CASE errors' = errors
    BY <2>2
  <2>3. CASE errors' = errors \cup {Err(UseError(Top.item, Top.i, Top.ty), Top.item, Top.i)}
    BY <1>0, <2>3, OtherKinds, Zenon
  <2> QED BY <2>1, <2>2, <2>3
<1> QED BY <1>1, <1>2, <1>3, <1>4, <1>5 DEF TopOnly

LEMMA BlameStep ==
  TypeOK /\ StackSound /\ FramesAdvance /\ Chained /\ BlameIsTrue /\ [Next]_vars => BlameIsTrue'
<1> SUFFICES ASSUME TypeOK, StackSound, FramesAdvance, Chained, BlameIsTrue, [Next]_vars
             PROVE  BlameIsTrue'
  OBVIOUS
<1>0. Eager' = Eager
  BY DeclStays, EagerStays
<1>1. CASE SelfErrors' = SelfErrors
  BY <1>0, <1>1 DEF BlameIsTrue, Cyclic
<1>2. CASE Cyclic(Eager)
  BY <1>0, <1>2 DEF BlameIsTrue, Cyclic
<1>3. CASE errors' = errors
  BY <1>1, <1>3 DEF SelfErrors
<1>4. CASE NextItem
  <2> DEFINE it == Head(pending)
  <2>1. CASE it \in Struct /\ CallLayout(Plain(it))
    <3>1. Len(stack) = 0 /\ Plain(it).base = it
      BY <1>4, EmptySeq DEF NextItem, Plain
    <3>2. state[it] # "in_progress"
      BY <2>1, <3>1 DEF StackSound
    <3> QED BY <1>3, <2>1, <3>1, <3>2 DEF CallLayout
  <2> QED BY <1>3, <1>4, <2>1 DEF NextItem
<1>5. CASE LayoutNeeded
  <2> DEFINE s == Top.ty.base
  <2>1. CallLayout(Top.ty) /\ s \in Struct /\ stack # <<>>
    BY <1>5 DEF LayoutNeeded, Blocked, IsStruct
  <2>2. CASE state[s] = "in_progress"
    <3>1. PICK d \in 1 .. Len(stack) : stack[d].item = s
      BY <2>1, <2>2 DEF StackSound
    <3>2. CASE Top.item \in Struct
      <4>1. <<Top.item, stack[d].item>> \in Eager
        BY <1>5, <3>1, <3>2, CallIsEager
      <4>2. Cyclic(Eager)
        BY <2>1, <3>1, <4>1, StackCycle
      <4> QED BY <1>2, <4>2
    <3>3. CASE Top.item \notin Struct
      <4>1. Len(stack) \in Nat \ {0}
        BY <2>1, TopOK
      <4>2. Len(stack) \notin 2 .. Len(stack)
        BY <3>3 DEF Chained, Top
      <4>3. \A n \in Nat \ {0} : n \notin 2 .. n => n = 1
        OBVIOUS
      <4>4. Len(stack) = 1
        BY <4>1, <4>2, <4>3
      <4> QED BY <2>1, <3>1, <3>3, <4>4 DEF Top
    <3> QED BY <3>2, <3>3
  <2> QED BY <1>3, <2>1, <2>2 DEF CallLayout
<1>6. CASE TopOnly
  BY <1>1, <1>6, OnlyCallsBlame
<1>7. CASE FinishStruct \/ FinishUse
  BY <1>3, <1>7 DEF FinishStruct, FinishUse
<1>8. CASE UNCHANGED vars
  BY <1>3, <1>8 DEF vars
<1> QED BY <1>4, <1>5, <1>6, <1>7, <1>8 DEF Next, TopOnly

-----------------------------------------------------------------------------
(* A program that has a cycle has a struct that is blamed *)

\* A struct nothing has needed so far is still to come in the text.
AllReached ==
  \A s \in Struct : state[s] = "unstarted" => \E j \in 1 .. Len(pending) : pending[j] = s

LEMMA ReachedInit == Init => AllReached
<1> SUFFICES ASSUME NEW p \in Program, NEW o \in Order, InitFor(p, o) PROVE AllReached
  BY DEF Init
<1>1. PICK n \in Nat : o \in [1 .. n -> Item]
  BY DEF Order
<1>2. DOMAIN o = 1 .. Len(o) /\ pending = o
  BY <1>1, LenProperties DEF InitFor
<1> QED BY <1>2 DEF AllReached, Order

LEMMA ReachedStep == TypeOK /\ AllReached /\ [Next]_vars => AllReached'
<1> SUFFICES ASSUME TypeOK, AllReached, [Next]_vars, NEW s \in Struct, state'[s] = "unstarted"
             PROVE  \E j \in 1 .. Len(pending') : pending'[j] = s
  BY DEF AllReached
<1>0. state \in [Struct -> {"unstarted", "in_progress", "done"}] /\ pending \in Seq(Item)
  BY DEF TypeOK
<1>1. ASSUME NEW t, t.base \in Struct, CallLayout(t)
      PROVE  state[s] = "unstarted" /\ s # t.base
  BY <1>0, <1>1 DEF CallLayout
<1>2. CASE pending' = pending
  <2>1. state[s] = "unstarted"
    <3>1. CASE UNCHANGED vars
      BY <3>1 DEF vars
    <3>2. CASE LayoutNeeded
      BY <1>1, <3>2 DEF LayoutNeeded, Blocked, IsStruct
    <3>3. CASE TopOnly
      BY <3>3, TopOnlyStep
    <3>4. CASE FinishStruct \/ FinishUse
      BY <1>0, <3>4 DEF FinishStruct, FinishUse
    <3>5. CASE NextItem
      BY <1>0, <1>2, <3>5, HeadTailProperties DEF NextItem
    <3> QED BY <3>1, <3>2, <3>3, <3>4, <3>5 DEF Next, TopOnly
  <2> QED BY <1>2, <2>1 DEF AllReached
<1>3. CASE NextItem
  <2> DEFINE it == Head(pending)
  <2>1. pending # <<>> /\ pending' = Tail(pending) /\ Plain(it).base = it
    BY <1>3 DEF NextItem, Plain
  <2>2. /\ Len(pending) \in Nat \ {0} /\ it = pending[1] /\ Len(pending') = Len(pending) - 1
        /\ \A j \in 1 .. Len(pending') : pending'[j] = pending[j + 1]
    BY <1>0, <2>1, EmptySeq, HeadTailProperties, LenProperties
  <2>3. state[s] = "unstarted" /\ s # it
    <3>1. CASE it \in Struct /\ state[it] = "done" /\ state' = state
      BY <3>1
    <3>2. CASE it \in Struct /\ CallLayout(Plain(it))
      BY <1>1, <2>1, <3>2
    <3>3. CASE it \notin Struct /\ state' = state
      BY <3>3
    <3> QED BY <1>3, <3>1, <3>2, <3>3 DEF NextItem
  <2> HIDE DEF it
  <2>4. PICK j \in 1 .. Len(pending) : pending[j] = s
    BY <2>3 DEF AllReached
  <2>5. j - 1 \in 1 .. Len(pending') /\ pending'[j - 1] = s
    BY <2>2, <2>3, <2>4
  <2> QED BY <2>5
<1>4. CASE LayoutNeeded \/ FinishStruct \/ FinishUse
  BY <1>2, <1>4 DEF LayoutNeeded, FinishStruct, FinishUse
<1>5. CASE TopOnly
  BY <1>2, <1>5, TopOnlyStep
<1> QED BY <1>2, <1>3, <1>4, <1>5 DEF Next, TopOnly, vars

CyclicSet(S) == S # {} /\ \A s \in S : \E t \in S : <<s, t>> \in Eager

\* While no cycle is reported, the structs laid out need none but each other,
\* and have no cycle.
DoneSound ==
  SelfErrors = {} =>
    /\ \A s, t \in Struct : <<s, t>> \in Eager /\ state[s] = "done" => state[t] = "done"
    /\ \A S \in SUBSET Struct : (\A s \in S : state[s] = "done") => ~CyclicSet(S)

LEMMA DoneInit == Init => DoneSound
<1> SUFFICES ASSUME NEW p \in Program, NEW o \in Order, InitFor(p, o) PROVE DoneSound
  BY DEF Init
<1>1. \A s \in Struct : state[s] # "done"
  BY DEF InitFor
<1> QED BY <1>1 DEF DoneSound, CyclicSet

\* A step that finishes no struct.
LEMMA DoneKept ==
  ASSUME DoneSound, decl' = decl, SelfErrors = {},
         \A s \in Struct : state[s] = "done" <=> state'[s] = "done"
  PROVE  DoneSound'
<1>1. Eager' = Eager
  BY EagerStays
<1>2. \A s, t \in Struct : <<s, t>> \in Eager /\ state'[s] = "done" => state'[t] = "done"
  BY DEF DoneSound
<1>3. \A S \in SUBSET Struct : (\A s \in S : state'[s] = "done") => ~CyclicSet(S)
  BY DEF DoneSound
<1>4. \A S \in SUBSET Struct : (\A s \in S : state'[s] = "done") => ~CyclicSet(S)'
  BY <1>1, <1>3 DEF CyclicSet
<1> QED BY <1>1, <1>2, <1>4 DEF DoneSound

\* The end of layout_struct: the struct needs only structs done before it, so
\* a cycle through it would be one without it.
LEMMA DoneFinish ==
  ASSUME TypeOK, OpenInProgress, FramesAdvance, DoneSound, FinishStruct, SelfErrors = {}
  PROVE  DoneSound'
<1> DEFINE x == Top.item
<1>1. /\ stack # <<>> /\ ~AtPart(Top) /\ x \in Struct /\ state' = [state EXCEPT ![x] = "done"]
      /\ decl' = decl
  BY DEF FinishStruct
<1>2. state[x] = "in_progress" /\ FrameSound(Top, state) /\ Top.i \in Nat \ {0}
  BY <1>1, TopNotDone, TopFrameSound, TopParts
<1>3. Len(decl[x]) \in Nat /\ x \in Item
  BY <1>1, LenProperties DEF TypeOK, Item
<1>4. \A t \in Struct : <<x, t>> \in Eager => state[t] = "done"
  <2>1. \A j \in 1 .. Len(decl[x]) : j < Top.i
    BY <1>1, <1>2, <1>3 DEF AtPart
  <2> QED BY <1>1, <1>2, <2>1, EagerIff DEF FrameSound, PassedDone
<1> HIDE DEF x
<1>5. \A s \in Struct : state'[s] = "done" <=> (s = x \/ state[s] = "done")
  BY <1>1 DEF TypeOK
<1>6. \A s, t \in Struct : <<s, t>> \in Eager /\ state'[s] = "done" => state[t] = "done"
  BY <1>4, <1>5 DEF DoneSound
<1>7. ASSUME NEW S \in SUBSET Struct, \A s \in S : state'[s] = "done", CyclicSet(S)
      PROVE  FALSE
  <2> DEFINE R == {s \in S : state[s] = "done"}
  <2>1. \A s \in S : \E t \in R : <<s, t>> \in Eager
    BY <1>6, <1>7 DEF CyclicSet
  <2>2. R # {}
    BY <1>7, <2>1 DEF CyclicSet
  <2>3. CyclicSet(R)
    BY <2>1, <2>2 DEF CyclicSet
  <2> QED BY <2>3 DEF DoneSound
<1>8. Eager' = Eager
  BY <1>1, EagerStays
<1>9. \A S \in SUBSET Struct : (\A s \in S : state'[s] = "done") => ~CyclicSet(S)'
  BY <1>7, <1>8 DEF CyclicSet
<1> QED BY <1>5, <1>6, <1>8, <1>9 DEF DoneSound

LEMMA DoneStep ==
  TypeOK /\ OpenInProgress /\ FramesAdvance /\ DoneSound /\ [Next]_vars => DoneSound'
<1> SUFFICES ASSUME TypeOK, OpenInProgress, FramesAdvance, DoneSound, [Next]_vars,
                    SelfErrors' = {}
             PROVE  DoneSound'
  BY DEF DoneSound
<1>0. SelfErrors = {} /\ decl' = decl /\ state \in [Struct -> {"unstarted", "in_progress", "done"}]
  BY SelfErrorsGrow, DeclStays DEF TypeOK
<1>1. CASE state' = state
  BY <1>0, <1>1, DoneKept
<1>2. ASSUME NEW t, t.base \in Struct, CallLayout(t) PROVE DoneSound'
  <2>1. state[t.base] = "unstarted" /\ state' = [state EXCEPT ![t.base] = "in_progress"]
    BY <1>0, <1>2, QuietCall
  <2>2. \A s \in Struct : state[s] = "done" <=> state'[s] = "done"
    BY <1>0, <2>1
  <2> QED BY <1>0, <2>2, DoneKept
<1>3. CASE NextItem
  <2>1. Plain(Head(pending)).base = Head(pending)
    BY DEF Plain
  <2> QED BY <1>1, <1>2, <1>3, <2>1 DEF NextItem
<1>4. CASE LayoutNeeded
  BY <1>2, <1>4 DEF LayoutNeeded, Blocked, IsStruct
<1>5. CASE TopOnly
  BY <1>1, <1>5, TopOnlyStep
<1>6. CASE FinishStruct
  BY <1>0, <1>6, DoneFinish
<1>7. CASE FinishUse
  BY <1>1, <1>7 DEF FinishUse
<1>8. CASE UNCHANGED vars
  BY <1>1, <1>8 DEF vars
<1> QED BY <1>3, <1>4, <1>5, <1>6, <1>7, <1>8 DEF Next, TopOnly

-----------------------------------------------------------------------------
(* Both ways *)

CycleInv == FramesAdvance /\ Chained /\ BlameIsTrue /\ AllReached /\ DoneSound

LEMMA CycleInit == Init => CycleInv
<1> SUFFICES ASSUME Init PROVE CycleInv
  OBVIOUS
<1>1. stack = <<>> /\ errors = {}
  BY DEF Init, InitFor
<1>2. FramesAdvance
  BY <1>1, EmptySeq DEF FramesAdvance
<1>3. BlameIsTrue
  BY <1>1, NoErrors DEF BlameIsTrue
<1> QED BY <1>2, <1>3, ChainedInit, ReachedInit, DoneInit DEF CycleInv

LEMMA CycleAlways == Spec => []CycleInv
<1>1. TypeOK /\ StackSound /\ OpenInProgress /\ CycleInv /\ [Next]_vars => CycleInv'
  BY AdvanceStep, ChainedStep, BlameStep, ReachedStep, DoneStep DEF CycleInv
<1> QED BY <1>1, CycleInit, TypeCorrect, StackIsSound, OpenAlways, PTL DEF Spec

\* The compiler rejects exactly the programs in which the layout of some struct
\* needs its own: every cycle is reported, of whatever length and wherever the
\* walk enters it, and no struct is blamed in a program without one
\* (sema.c:241-304).
THEOREM CyclesAreRejected == Spec => []CyclesRejected
<1>1. StackSound /\ TypeOK /\ CycleInv => CyclesRejected
  <2> SUFFICES ASSUME StackSound, TypeOK, CycleInv, Finished, SelfErrors = {}, Cyclic(Eager)
               PROVE  FALSE
    BY DEF CyclesRejected, CycleInv, BlameIsTrue
  <2>1. Len(pending) = 0 /\ Len(stack) = 0
    BY EmptySeq DEF Finished
  <2>2. \A s \in Struct : state[s] = "done"
    BY <2>1 DEF StackSound, CycleInv, AllReached, TypeOK
  <2>3. PICK S \in (SUBSET Struct) \ {{}} : \A s \in S : \E t \in S : <<s, t>> \in Eager
    BY DEF Cyclic
  <2>4. S \in SUBSET Struct /\ S # {}
    BY <2>3
  <2>5. CyclicSet(S)
    BY <2>3, <2>4 DEF CyclicSet
  <2> QED BY <2>2, <2>4, <2>5 DEF CycleInv, DoneSound
<1> QED BY <1>1, CycleAlways, TypeCorrect, StackIsSound, PTL

-----------------------------------------------------------------------------
(* Rounding up *)

\* The alignments that divide the range of a uint32_t.
Divisors == {a \in Aligns : (MaxU32 + 1) % a = 0}

LEMMA Division ==
  ASSUME NEW x \in Nat, NEW a \in Nat \ {0}
  PROVE  /\ x \div a \in Nat
         /\ (x \div a) * a \in Nat /\ (x \div a) * a <= x /\ x < (x \div a) * a + a
         /\ x % a = 0 => (x \div a) * a = x
<1> DEFINE q == x \div a
<1>1. q \in Nat
  OBVIOUS
<1>2. q * a \in Nat /\ x = a * q + (x % a) /\ x % a \in 0 .. a - 1
  OBVIOUS
<1> QED BY <1>1, <1>2

LEMMA Multiples ==
  ASSUME NEW a \in Nat \ {0}, NEW j \in Nat, NEW k \in Nat, k * a < j * a + a
  PROVE  k * a <= j * a
<1>1. CASE k <= j
  BY <1>1
<1>2. CASE k >= j + 1
  <2>1. (j + 1) * a <= k * a
    BY <1>2
  <2> QED BY <2>1
<1> QED BY <1>1, <1>2

\* Rounding up reaches its argument, and goes past no other multiple.
LEMMA ExactUpBounds ==
  ASSUME NEW n \in Nat, NEW a \in Nat \ {0}
  PROVE  ExactUp(n, a) \in Nat /\ n <= ExactUp(n, a) /\ ExactUp(n, a) <= n + a - 1
<1> DEFINE x == n + a - 1
<1>1. x \in Nat
  OBVIOUS
<1> HIDE DEF x
<1>2. (x \div a) * a \in Nat /\ (x \div a) * a <= x /\ x < (x \div a) * a + a
  BY <1>1, Division
<1>3. ExactUp(n, a) \in Nat /\ ExactUp(n, a) <= x /\ x < ExactUp(n, a) + a
  BY <1>2 DEF ExactUp, x
<1> QED BY <1>3 DEF x

\* round_up does not wrap unless its result does: the alignment divides 2^32.
LEMMA RoundUpExact ==
  ASSUME NEW n \in Nat, NEW a \in Divisors, ExactUp(n, a) <= MaxU32
  PROVE  RoundUp(n, a) = ExactUp(n, a)
<1> DEFINE x == n + a - 1
           m == MaxU32 + 1
<1>1. x \in Nat /\ m \in Nat \ {0} /\ a \in Nat \ {0} /\ m % a = 0
  BY LayoutAssumption DEF Divisors, Aligns
<1> HIDE DEF x, m
<1>2. /\ x \div a \in Nat /\ (x \div a) * a \in Nat
      /\ (x \div a) * a <= x /\ x < (x \div a) * a + a
  BY <1>1, Division
<1>3. m \div a \in Nat /\ (m \div a) * a = m
  BY <1>1, Division
<1>4. (x \div a) * a <= MaxU32
  BY DEF ExactUp, x
<1>5. MaxU32 \in Nat /\ m = MaxU32 + 1
  BY LayoutAssumption DEF m
<1>6. x < m
  <2> SUFFICES ASSUME m <= x PROVE FALSE
    BY <1>1
  <2>1. (m \div a) * a < (x \div a) * a + a
    BY <1>1, <1>2, <1>3
  <2>2. (m \div a) * a <= (x \div a) * a
    BY <1>1, <1>2, <1>3, <2>1, Multiples
  <2> QED BY <1>2, <1>3, <1>4, <1>5, <2>2
<1>7. x % m = x
  BY <1>1, <1>6
<1>8. ((x \div a) * a) % m = (x \div a) * a
  BY <1>1, <1>2, <1>4, <1>5
<1>9. RoundUp(n, a) = ((x % m) \div a) * a % m /\ ExactUp(n, a) = (x \div a) * a
  BY DEF RoundUp, U32, ExactUp, x, m
<1> QED BY <1>7, <1>8, <1>9

-----------------------------------------------------------------------------
(* The layout of some parts *)

\* Where each of n parts ends, their sizes and alignments being sz and al.
Ends(e, n, sz, al) ==
  /\ e \in [0 .. n -> Nat] /\ e[0] = 0
  /\ \A j \in 1 .. n : e[j] = ExactUp(e[j - 1], al[j]) + sz[j]

\* The parts p are at the offsets that follow, up to o, if the last one fits.
Places(p, e, al, o) ==
  e[Len(p)] <= MaxU32 =>
    o = e[Len(p)] /\ \A j \in 1 .. Len(p) : p[j].offset = ExactUp(e[j - 1], al[j])

\* In 32 bits: where part j ends, and the offsets that follow from it, up to o.
EndAt(p, sz, j) == IF j = 0 THEN 0 ELSE U32(p[j].offset + sz[j])

Follow(p, sz, al, o) ==
  /\ o = EndAt(p, sz, Len(p))
  /\ \A j \in 1 .. Len(p) : p[j].offset = RoundUp(EndAt(p, sz, j - 1), al[j])

Strictest(n, al, a) ==
  /\ \A j \in 1 .. n : al[j] <= a
  /\ a = 1 \/ \E j \in 1 .. n : al[j] = a

Shape(p, ds, sz, al, a, o) ==
  /\ \A j \in 1 .. Len(p) : p[j].type = ds[j].type
  /\ Strictest(Len(p), al, a) /\ Follow(p, sz, al, o)
  /\ \E e : Ends(e, Len(p), sz, al) /\ Places(p, e, al, o)

OneMoreEnd(e, n, sz, al) ==
  \E f : /\ Ends(f, n + 1, sz, al) /\ \A j \in 0 .. n : f[j] = e[j]
         /\ f[n + 1] = ExactUp(e[n], al[n + 1]) + sz[n + 1]

LEMMA EndsMore ==
  ASSUME NEW n \in Nat, NEW sz, NEW al, NEW e, Ends(e, n, sz, al),
         NEW sz2, NEW al2, \A j \in 1 .. n : sz2[j] = sz[j] /\ al2[j] = al[j],
         sz2[n + 1] \in Nat, al2[n + 1] \in Nat \ {0}
  PROVE  OneMoreEnd(e, n, sz2, al2)
<1> DEFINE last == ExactUp(e[n], al2[n + 1]) + sz2[n + 1]
           f == [j \in 0 .. n + 1 |-> IF j = n + 1 THEN last ELSE e[j]]
<1>1. \A j \in 0 .. n : e[j] \in Nat
  BY DEF Ends
<1>2. last \in Nat
  <2>1. e[n] \in Nat
    BY <1>1
  <2>2. ExactUp(e[n], al2[n + 1]) \in Nat
    BY <2>1, ExactUpBounds
  <2> QED BY <2>2
<1> HIDE DEF last
<1>3. \A j \in 0 .. n : f[j] = e[j]
  OBVIOUS
<1>4. f[n + 1] = last
  OBVIOUS
<1>5. f \in [0 .. n + 1 -> Nat]
  BY <1>1, <1>2
<1> HIDE DEF f
<1>6. ASSUME NEW j \in 1 .. n + 1 PROVE f[j] = ExactUp(f[j - 1], al2[j]) + sz2[j]
  <2>1. CASE j = n + 1
    <3>1. j - 1 = n /\ f[n] = e[n]
      BY <1>3, <2>1
    <3> QED BY <1>4, <2>1, <3>1 DEF last
  <2>2. CASE j # n + 1
    <3>1. j \in 1 .. n /\ j - 1 \in 0 .. n /\ j \in 0 .. n
      BY <2>2
    <3> QED BY <1>3, <3>1 DEF Ends
  <2> QED BY <2>1, <2>2
<1>7. f[0] = 0
  BY <1>3 DEF Ends
<1>8. Ends(f, n + 1, sz2, al2)
  BY <1>5, <1>6, <1>7 DEF Ends
<1> QED BY <1>3, <1>4, <1>8 DEF OneMoreEnd, last

Greater(a, b) == IF a > b THEN a ELSE b

LEMMA StrictestMore ==
  ASSUME NEW n \in Nat, NEW al, NEW a \in Aligns, Strictest(n, al, a),
         NEW al2, \A j \in 1 .. n : al2[j] = al[j] /\ al[j] \in Aligns, al2[n + 1] \in Aligns
  PROVE  Strictest(n + 1, al2, Greater(al2[n + 1], a))
<1> DEFINE b == al2[n + 1]
<1>1. CASE b > a
  <2>1. \A j \in 1 .. n : al2[j] <= b
    BY <1>1 DEF Strictest, Aligns
  <2> QED BY <1>1, <2>1 DEF Strictest, Greater, Aligns
<1>2. CASE ~(b > a)
  <2>1. b <= a
    BY <1>2 DEF Aligns
  <2> QED BY <1>2, <2>1 DEF Strictest, Greater, Aligns
<1> QED BY <1>1, <1>2

\* One more part, at the next multiple of its alignment.
Placed1(p, q, t, off) == q = Append(p, [type |-> t, offset |-> off])

PlacedPart == [type : Ty, offset : U32s]

\* The sizes sz2 and alignments al2 continue sz and al by one part.
Longer(n, sz, al, sz2, al2) ==
  /\ \A j \in 1 .. n : sz2[j] = sz[j] /\ al2[j] = al[j] /\ al[j] \in Aligns
  /\ sz2[n + 1] \in Nat /\ al2[n + 1] \in Divisors

LEMMA ShapeMore ==
  ASSUME NEW p \in Seq(PlacedPart), NEW ds, NEW sz, NEW al, NEW a \in Aligns, NEW o \in Nat,
         Shape(p, ds, sz, al, a, o),
         NEW sz2, NEW al2, Longer(Len(p), sz, al, sz2, al2),
         NEW q, Placed1(p, q, ds[Len(p) + 1].type, RoundUp(o, al2[Len(p) + 1]))
  PROVE  Shape(q, ds, sz2, al2, Greater(al2[Len(p) + 1], a),
               U32(RoundUp(o, al2[Len(p) + 1]) + sz2[Len(p) + 1]))
<1> DEFINE n == Len(p)
<1>0. /\ \A j \in 1 .. n : sz2[j] = sz[j] /\ al2[j] = al[j] /\ al[j] \in Aligns
      /\ sz2[n + 1] \in Nat /\ al2[n + 1] \in Divisors /\ al2[n + 1] \in Nat \ {0}
      /\ Placed1(p, q, ds[n + 1].type, RoundUp(o, al2[n + 1]))
      /\ n \in Nat
  BY LenProperties DEF Longer, Divisors, Aligns
<1> HIDE DEF n
<1> DEFINE A == al2[n + 1]
           Z == sz2[n + 1]
           new == [type |-> ds[n + 1].type, offset |-> RoundUp(o, A)]
<1>1. n \in Nat /\ A \in Aligns /\ A \in Nat \ {0} /\ A \in Divisors /\ Z \in Nat
  BY <1>0 DEF Divisors, Aligns
<1>2. /\ Len(q) = n + 1 /\ q[n + 1] = new
      /\ \A j \in 1 .. n : q[j] = p[j]
  <2>1. p \in Seq(PlacedPart \cup {new}) /\ new \in PlacedPart \cup {new}
    OBVIOUS
  <2>2. q = Append(p, new)
    BY <1>0 DEF Placed1
  <2> HIDE DEF new
  <2> QED BY <2>1, <2>2, AppendProperties DEF n
<1>3. PICK e : Ends(e, n, sz, al) /\ Places(p, e, al, o)
  BY DEF Shape, n
<1>4. PICK f : /\ Ends(f, n + 1, sz2, al2) /\ \A j \in 0 .. n : f[j] = e[j]
               /\ f[n + 1] = ExactUp(e[n], A) + Z
  <2>1. \A j \in 1 .. n : sz2[j] = sz[j] /\ al2[j] = al[j]
    BY <1>0
  <2>2. Ends(e, n, sz, al) /\ n \in Nat
    BY <1>0, <1>3
  <2>3. sz2[n + 1] \in Nat /\ al2[n + 1] \in Nat \ {0}
    BY <1>0
  <2>4. OneMoreEnd(e, n, sz2, al2)
    BY <2>1, <2>2, <2>3, EndsMore
  <2> QED BY <2>4 DEF OneMoreEnd
<1> HIDE DEF A, Z
<1>5. ASSUME f[n + 1] <= MaxU32
      PROVE  /\ U32(RoundUp(o, A) + Z) = f[n + 1]
             /\ \A j \in 1 .. n + 1 : q[j].offset = ExactUp(f[j - 1], al2[j])
  <2>1. e[n] \in Nat
    BY <1>1, <1>3 DEF Ends
  <2>2. ExactUp(e[n], A) \in Nat /\ e[n] <= ExactUp(e[n], A)
    BY <1>1, <2>1, ExactUpBounds
  <2>3. MaxU32 \in Nat
    BY LayoutAssumption
  <2>4. ExactUp(e[n], A) <= MaxU32 /\ e[n] <= MaxU32
    BY <1>1, <1>4, <1>5, <2>1, <2>2, <2>3
  <2>5. o = e[n] /\ \A j \in 1 .. n : p[j].offset = ExactUp(e[j - 1], al[j])
    BY <1>3, <2>4 DEF Places, n
  <2>6. RoundUp(o, A) = ExactUp(e[n], A)
    BY <1>1, <2>1, <2>4, <2>5, RoundUpExact
  <2>7. U32(f[n + 1]) = f[n + 1]
    <3> DEFINE x == f[n + 1]
    <3>1. x \in Nat /\ x <= MaxU32
      BY <1>1, <1>4, <1>5, <2>2
    <3> HIDE DEF x
    <3>2. U32(x) = x
      BY <2>3, <3>1 DEF U32
    <3> QED BY <3>2 DEF x
  <2>8. ASSUME NEW j \in 1 .. n + 1 PROVE q[j].offset = ExactUp(f[j - 1], al2[j])
    <3>1. CASE j = n + 1
      <4>0. n \in 0 .. n /\ q[n + 1].offset = RoundUp(o, A)
        BY <1>1, <1>2
      <4>1. j - 1 = n /\ f[n] = e[n] /\ q[j].offset = RoundUp(o, A)
        BY <1>1, <1>4, <3>1, <4>0
      <4> QED BY <2>6, <3>1, <4>1 DEF A
    <3>2. CASE j # n + 1
      <4>1. j \in 1 .. n /\ j - 1 \in 0 .. n
        BY <1>1, <3>2
      <4>2. al2[j] = al[j] /\ q[j] = p[j]
        BY <1>0, <1>2, <4>1
      <4>3. f[j - 1] = e[j - 1] /\ p[j].offset = ExactUp(e[j - 1], al[j])
        BY <1>4, <2>5, <4>1
      <4> QED BY <4>2, <4>3
    <3> QED BY <3>1, <3>2
  <2>9. RoundUp(o, A) + Z = f[n + 1]
    BY <1>4, <2>6
  <2> QED BY <2>7, <2>8, <2>9
<1>6. Places(q, f, al2, U32(RoundUp(o, A) + Z))
  BY <1>2, <1>5 DEF Places
<1>7. \A j \in 1 .. Len(q) : q[j].type = ds[j].type
  <2>1. \A j \in 1 .. n : p[j].type = ds[j].type
    BY DEF Shape, n
  <2> QED BY <1>1, <1>2, <2>1
<1>8. Strictest(Len(q), al2, Greater(A, a))
  <2>1. Strictest(n, al, a) /\ al2[n + 1] \in Aligns
    BY <1>1 DEF Shape, A, n
  <2>2. Strictest(n + 1, al2, Greater(al2[n + 1], a))
    BY <1>0, <1>1, <2>1, StrictestMore
  <2> QED BY <1>2, <2>2 DEF A
<1>9. Follow(q, sz2, al2, U32(RoundUp(o, A) + Z))
  <2>1. o = EndAt(p, sz, n) /\ \A j \in 1 .. n : p[j].offset = RoundUp(EndAt(p, sz, j - 1), al[j])
    BY DEF Shape, Follow, n
  <2>2. ASSUME NEW j \in 0 .. n PROVE EndAt(q, sz2, j) = EndAt(p, sz, j)
    <3>1. CASE j = 0
      BY <3>1 DEF EndAt
    <3>2. CASE j # 0
      <4>1. j \in 1 .. n
        BY <1>1, <3>2
      <4>2. q[j] = p[j] /\ sz2[j] = sz[j]
        BY <1>0, <1>2, <4>1
      <4> QED BY <4>2 DEF EndAt
    <3> QED BY <3>1, <3>2
  <2>3. EndAt(q, sz2, n + 1) = U32(RoundUp(o, A) + Z)
    <3>1. n + 1 # 0 /\ q[n + 1].offset = RoundUp(o, A)
      BY <1>1, <1>2
    <3> QED BY <3>1 DEF EndAt, Z
  <2>4. ASSUME NEW j \in 1 .. n + 1 PROVE q[j].offset = RoundUp(EndAt(q, sz2, j - 1), al2[j])
    <3>1. CASE j = n + 1
      <4>1. j - 1 = n /\ n \in 0 .. n /\ q[j].offset = RoundUp(o, A)
        BY <1>1, <1>2, <3>1
      <4>2. EndAt(q, sz2, j - 1) = o
        BY <2>1, <2>2, <4>1
      <4> QED BY <3>1, <4>1, <4>2 DEF A
    <3>2. CASE j # n + 1
      <4>1. j \in 1 .. n /\ j - 1 \in 0 .. n
        BY <1>1, <3>2
      <4>2. al2[j] = al[j] /\ q[j] = p[j] /\ EndAt(q, sz2, j - 1) = EndAt(p, sz, j - 1)
        BY <1>0, <1>2, <2>2, <4>1
      <4>3. p[j].offset = RoundUp(EndAt(p, sz, j - 1), al[j])
        BY <2>1, <4>1
      <4> QED BY <4>2, <4>3
    <3> QED BY <3>1, <3>2
  <2> QED BY <1>2, <2>3, <2>4 DEF Follow
<1> QED BY <1>2, <1>4, <1>6, <1>7, <1>8, <1>9 DEF Shape, A, Z, n

-----------------------------------------------------------------------------
(* Sizes, said of a table, and of the sizes and alignments of the structs *)

SizeIn(t, tab, sz) ==
  CASE IsPointer(t)     -> PtrSize
    [] IsArray(t)       -> tab[t].size
    [] IsStruct(t)      -> sz[t.base]
    [] IsCore(t)        -> CoreSize[t.base]
    [] OTHER            -> 0

AlignIn(t, tab, al) ==
  CASE IsPointer(t)     -> PtrSize
    [] IsArray(t)       -> tab[t].align
    [] IsStruct(t)      -> al[t.base]
    [] IsCore(t)        -> CoreSize[t.base]
    [] OTHER            -> 1

LEMMA SizeIsIn ==
  ASSUME NEW t
  PROVE  /\ SizeOf(t) = SizeIn(t, interned, size) /\ AlignOf(t) = AlignIn(t, interned, align)
         /\ SizeOf(t)' = SizeIn(t, interned', size') /\ AlignOf(t)' = AlignIn(t, interned', align')
  BY DEF SizeOf, AlignOf, SizeIn, AlignIn

\* The size of t is final.
Final(t, st, tab) ==
  /\ IsStruct(t) => st[t.base] = "done"
  /\ IsArray(t) => t \in DOMAIN tab

LEMMA FinalStays ==
  ASSUME TypeOK, OpenInProgress, [Next]_vars, errors = {}, NEW t \in Ty, Final(t, state, interned)
  PROVE  /\ Final(t, state', interned')
         /\ SizeIn(t, interned', size') = SizeIn(t, interned, size)
         /\ AlignIn(t, interned', align') = AlignIn(t, interned, align)
<1>1. IsStruct(t) => state[t.base] = "done" /\ state'[t.base] = "done"
  BY DoneStays DEF Final, IsStruct
<1>2. IsArray(t) => t \in DOMAIN interned /\ t \in DOMAIN interned' /\ interned'[t] = interned[t]
  BY TableStep DEF Final
<1>3. SizeOf(t)' = SizeOf(t) /\ AlignOf(t)' = AlignOf(t)
  BY <1>1, <1>2, SizeKept
<1> QED BY <1>1, <1>2, <1>3, SizeIsIn DEF Final

Sizes(p, tab, sz)     == [j \in 1 .. Len(p) |-> SizeIn(p[j].type, tab, sz)]
Alignings(p, tab, al) == [j \in 1 .. Len(p) |-> AlignIn(p[j].type, tab, al)]
AllFinal(p, st, tab)  == \A j \in 1 .. Len(p) : Final(p[j].type, st, tab)

\* What has been placed keeps its sizes.
LEMMA SizesStay ==
  ASSUME TypeOK, OpenInProgress, [Next]_vars, errors = {},
         NEW p \in Seq([type : Ty, offset : U32s]), AllFinal(p, state, interned)
  PROVE  /\ AllFinal(p, state', interned')
         /\ Sizes(p, interned', size') = Sizes(p, interned, size)
         /\ Alignings(p, interned', align') = Alignings(p, interned, align)
<1>1. ASSUME NEW j \in 1 .. Len(p)
      PROVE  /\ Final(p[j].type, state', interned')
             /\ SizeIn(p[j].type, interned', size') = SizeIn(p[j].type, interned, size)
             /\ AlignIn(p[j].type, interned', align') = AlignIn(p[j].type, interned, align)
  <2> DEFINE t == p[j].type
  <2>1. t \in Ty /\ Final(t, state, interned)
    <3>1. p[j] \in [type : Ty, offset : U32s]
      BY ElementOfSeq
    <3>2. p[j].type \in Ty
      BY <3>1
    <3> QED BY <3>2 DEF AllFinal
  <2> HIDE DEF t
  <2>2. /\ Final(t, state', interned')
        /\ SizeIn(t, interned', size') = SizeIn(t, interned, size)
        /\ AlignIn(t, interned', align') = AlignIn(t, interned, align)
    BY <2>1, FinalStays
  <2> QED BY <2>2 DEF t
<1> QED BY <1>1 DEF AllFinal, Sizes, Alignings

-----------------------------------------------------------------------------
(* Structs and frames, half-way through their layout *)

\* The type a frame has made of its part's first k modifiers.
TypeSoFar(f) ==
  AtPart(f) /\ f.k # Unresolved =>
    f.ty = [base |-> Declared(f).base, mods |-> SubSeq(Declared(f).mods, 1, f.k)]

\* The fields of s placed in pl, in a struct of alignment a, up to offset o.
ShapeOf(s, a, o, pl, tab, sz, al) ==
  Shape(pl[s], decl[s], Sizes(pl[s], tab, sz), Alignings(pl[s], tab, al), a, o)

FrameGood(f, pl, tab, sz, al) ==
  /\ f.align \in Divisors /\ TypeSoFar(f)
  /\ f.item \in Struct =>
       /\ Len(pl[f.item]) = f.i - 1 /\ f.i - 1 <= Len(decl[f.item])
       /\ ShapeOf(f.item, f.align, f.offset, pl, tab, sz, al)

StructGood(s, st, pl, tab, sz, al) ==
  /\ al[s] \in Divisors /\ AllFinal(pl[s], st, tab)
  /\ st[s] = "unstarted" => pl[s] = <<>>
  /\ st[s] = "done" =>
       /\ Len(pl[s]) = Len(decl[s])
       /\ \E o \in U32s : ShapeOf(s, al[s], o, pl, tab, sz, al) /\ sz[s] = RoundUp(o, al[s])

LayoutInv ==
  errors = {} =>
    /\ \A d \in 1 .. Len(stack) : FrameGood(stack[d], placed, interned, size, align)
    /\ \A s \in Struct : StructGood(s, state, placed, interned, size, align)
    /\ \A t \in DOMAIN interned : interned[t].align \in Divisors

LEMMA LayoutInvFor ==
  ASSUME decl' = decl,
         \A d \in 1 .. Len(stack') : FrameGood(stack'[d], placed', interned', size', align'),
         \A s \in Struct : StructGood(s, state', placed', interned', size', align'),
         \A t \in DOMAIN interned' : interned'[t].align \in Divisors
  PROVE  LayoutInv'
<1>1. \A d \in 1 .. Len(stack') : FrameGood(stack[d], placed, interned, size, align)'
  BY DEF FrameGood, TypeSoFar, AtPart, Declared, ShapeOf
<1>2. \A s \in Struct : StructGood(s, state, placed, interned, size, align)'
  BY DEF StructGood, ShapeOf
<1> QED BY <1>1, <1>2 DEF LayoutInv

\* A struct or a frame whose fields stay as they are.
LEMMA ShapeStays ==
  ASSUME TypeOK, OpenInProgress, [Next]_vars, errors = {}, NEW s \in Struct,
         AllFinal(placed[s], state, interned), placed'[s] = placed[s]
  PROVE  /\ AllFinal(placed'[s], state', interned')
         /\ \A a, o : ShapeOf(s, a, o, placed, interned, size, align)
                        => ShapeOf(s, a, o, placed', interned', size', align')
<1> DEFINE p == placed[s]
<1>1. p \in Seq([type : Ty, offset : U32s])
  BY DEF TypeOK, Item
<1> HIDE DEF p
<1>2. /\ AllFinal(p, state', interned')
      /\ Sizes(p, interned', size') = Sizes(p, interned, size)
      /\ Alignings(p, interned', align') = Alignings(p, interned, align)
  BY <1>1, SizesStay DEF p
<1> QED BY <1>2 DEF ShapeOf, p

LEMMA StructStays ==
  ASSUME TypeOK, OpenInProgress, [Next]_vars, errors = {}, NEW s \in Struct,
         StructGood(s, state, placed, interned, size, align),
         placed'[s] = placed[s], size'[s] = size[s], align'[s] = align[s],
         state'[s] = state[s] \/ state'[s] = "in_progress"
  PROVE  StructGood(s, state', placed', interned', size', align')
<1>1. /\ AllFinal(placed'[s], state', interned')
      /\ \A a, o : ShapeOf(s, a, o, placed, interned, size, align)
                     => ShapeOf(s, a, o, placed', interned', size', align')
  BY ShapeStays DEF StructGood
<1> QED BY <1>1 DEF StructGood

LEMMA FrameStays ==
  ASSUME TypeOK, OpenInProgress, [Next]_vars, errors = {}, NEW f,
         FrameGood(f, placed, interned, size, align),
         f.item \in Struct => /\ StructGood(f.item, state, placed, interned, size, align)
                              /\ placed'[f.item] = placed[f.item]
  PROVE  FrameGood(f, placed', interned', size', align')
<1>1. CASE f.item \in Struct
  <2>1. \A a, o : ShapeOf(f.item, a, o, placed, interned, size, align)
                     => ShapeOf(f.item, a, o, placed', interned', size', align')
    BY <1>1, ShapeStays DEF StructGood
  <2> QED BY <1>1, <2>1 DEF FrameGood
<1>2. CASE f.item \notin Struct
  BY <1>2 DEF FrameGood
<1> QED BY <1>1, <1>2

\* A frame that moves on within its part has placed the same fields.
LEMMA FrameMoves ==
  ASSUME NEW f, NEW g, NEW pl, NEW tab, NEW sz, NEW al, FrameGood(f, pl, tab, sz, al),
         g.item = f.item, g.i = f.i, g.offset = f.offset, g.align = f.align, TypeSoFar(g)
  PROVE  FrameGood(g, pl, tab, sz, al)
  BY DEF FrameGood

\* A call that has placed nothing so far.
LEMMA ShapeEmpty ==
  ASSUME NEW ds, NEW sz, NEW al
  PROVE  Shape(<<>>, ds, sz, al, 1, 0)
<1> DEFINE e == [j \in 0 .. 0 |-> 0]
<1>1. Len(<<>>) = 0 /\ MaxU32 \in Nat
  BY LayoutAssumption
<1>2. e \in [0 .. 0 -> Nat] /\ e[0] = 0
  OBVIOUS
<1> HIDE DEF e
<1>3. Ends(e, 0, sz, al)
  BY <1>2 DEF Ends
<1>4. Places(<<>>, e, al, 0)
  BY <1>1, <1>2 DEF Places
<1>5. Strictest(0, al, 1)
  BY DEF Strictest
<1>6. Follow(<<>>, sz, al, 0)
  BY <1>1 DEF Follow, EndAt
<1> QED BY <1>1, <1>3, <1>4, <1>5, <1>6 DEF Shape

LEMMA OneDivides == 1 \in Divisors
<1>1. (MaxU32 + 1) % 1 = 0 /\ 1 \in Aligns
  BY LayoutAssumption DEF Aligns
<1> QED BY <1>1 DEF Divisors

LEMMA NewFrameGood ==
  ASSUME TypeOK, NEW it \in Item, NEW pl, NEW tab, NEW sz, NEW al,
         it \in Struct => pl[it] = <<>>
  PROVE  FrameGood(NewFrame(it), pl, tab, sz, al)
<1> DEFINE f == NewFrame(it)
<1>1. f.item = it /\ f.i = 1 /\ f.k = Unresolved /\ f.offset = 0 /\ f.align = 1
  BY DEF NewFrame
<1> HIDE DEF f
<1>2. Len(decl[it]) \in Nat /\ Len(<<>>) = 0
  BY LenProperties DEF TypeOK
<1>3. it \in Struct => ShapeOf(it, 1, 0, pl, tab, sz, al)
  BY ShapeEmpty DEF ShapeOf
<1> QED BY <1>1, <1>2, <1>3, OneDivides DEF FrameGood, TypeSoFar, f

\* The alignment of every type divides 2^32.
LEMMA AlignDivides ==
  ASSUME TypeOK, LayoutInv, errors = {}, NEW t \in Ty, IsArray(t) => t \in DOMAIN interned
  PROVE  AlignOf(t) \in Divisors
<1>1. \A a \in {8} \cup {CoreSize[c] : c \in Core} : (MaxU32 + 1) % a = 0 /\ a \in Aligns
  BY LayoutAssumption DEF Aligns
<1>2. PtrSize \in Divisors /\ \A c \in Core : CoreSize[c] \in Divisors
  BY <1>1 DEF Divisors, PtrSize
<1>3. IsStruct(t) => align[t.base] \in Divisors
  BY DEF LayoutInv, StructGood, IsStruct
<1>4. IsArray(t) => interned[t].align \in Divisors
  BY DEF LayoutInv
<1> QED BY <1>2, <1>3, <1>4, OneDivides DEF AlignOf, IsCore

-----------------------------------------------------------------------------
(* The steps *)

LayoutHyp ==
  /\ TypeOK /\ StackSound /\ OpenInProgress /\ LayoutInv /\ [Next]_vars
  /\ errors = {} /\ errors' = {} /\ SelfErrors = {} /\ SelfErrors' = {}

LEMMA LayoutFacts ==
  ASSUME LayoutHyp
  PROVE  /\ TypeOK /\ StackSound /\ OpenInProgress /\ [Next]_vars /\ errors = {} /\ decl' = decl
         /\ \A d \in 1 .. Len(stack) :
              /\ FrameGood(stack[d], placed, interned, size, align)
              /\ stack[d] \in Frame
         /\ \A s \in Struct : StructGood(s, state, placed, interned, size, align)
         /\ \A t \in DOMAIN interned : interned[t].align \in Divisors
  BY DeclStays, TypeOKFrames DEF LayoutHyp, LayoutInv, FrameOK

\* The array table's alignments divide 2^32 after any step.
LEMMA TableDivides ==
  ASSUME LayoutHyp
  PROVE  \A t \in DOMAIN interned' : interned'[t].align \in Divisors
<1>1. TypeOK /\ [Next]_vars /\ errors = {} /\ LayoutInv
  BY DEF LayoutHyp
<1>2. \A t \in DOMAIN interned : interned[t].align \in Divisors
  BY LayoutFacts
<1>3. CASE interned' = interned
  BY <1>2, <1>3
<1>4. ASSUME NEW t \in Ty, NEW n \in Nat,
             DOMAIN interned' = DOMAIN interned \cup {Wrap(t, n)},
             \A x \in DOMAIN interned : interned'[x] = interned[x],
             interned'[Wrap(t, n)] = [size |-> U32(n * SizeOf(t)), align |-> AlignOf(t)],
             IsArray(t) => t \in DOMAIN interned
      PROVE  \A x \in DOMAIN interned' : interned'[x].align \in Divisors
  <2>1. AlignOf(t) \in Divisors
    BY <1>1, <1>4, AlignDivides
  <2>2. interned'[Wrap(t, n)].align = AlignOf(t)
    BY <1>4
  <2> QED BY <1>2, <1>4, <2>1, <2>2
<1> QED BY <1>1, <1>3, <1>4, TableStep

\* A step that places nothing, and finishes no struct.
LEMMA LayoutQuiet ==
  ASSUME LayoutHyp, placed' = placed, size' = size, align' = align,
         \A s \in Struct : state'[s] = state[s] \/ state'[s] = "in_progress",
         \A d \in 1 .. Len(stack') :
           \/ d \in 1 .. Len(stack) /\ stack'[d] = stack[d]
           \/ FrameGood(stack'[d], placed', interned', size', align')
  PROVE  LayoutInv'
<1>1. \A s \in Struct : StructGood(s, state', placed', interned', size', align')
  BY LayoutFacts, StructStays
<1>2. \A d \in 1 .. Len(stack) : FrameGood(stack[d], placed', interned', size', align')
  BY LayoutFacts, FrameStays
<1>3. \A d \in 1 .. Len(stack') : FrameGood(stack'[d], placed', interned', size', align')
  BY <1>2
<1> QED BY <1>1, <1>3, LayoutFacts, TableDivides, LayoutInvFor

LEMMA LayoutCall ==
  ASSUME LayoutHyp, NEW t, t.base \in Struct, CallLayout(t),
         UNCHANGED <<placed, size, align>>
  PROVE  LayoutInv'
<1> DEFINE s == t.base
<1>1. TypeOK /\ SelfErrors' = {} /\ s \in Item
  BY DEF LayoutHyp, Item
<1>2. /\ state[s] = "unstarted" /\ state' = [state EXCEPT ![s] = "in_progress"]
      /\ stack' = Append(stack, NewFrame(s))
      /\ Len(stack') = Len(stack) + 1 /\ Len(stack) \in Nat
      /\ \A d \in 1 .. Len(stack) : stack'[d] = stack[d]
  BY <1>1, QuietCall
<1>3. stack'[Len(stack) + 1] = NewFrame(s)
  <2> HIDE DEF s
  <2> QED BY <1>1, <1>2, PushOK
<1>4. placed'[s] = <<>>
  BY <1>2, LayoutFacts DEF StructGood
<1> HIDE DEF s
<1>5. FrameGood(NewFrame(s), placed', interned', size', align')
  BY <1>1, <1>4, NewFrameGood
<1>6. \A x \in Struct : state'[x] = state[x] \/ state'[x] = "in_progress"
  BY <1>1, <1>2 DEF TypeOK
<1>7. \A d \in 1 .. Len(stack') :
           \/ d \in 1 .. Len(stack) /\ stack'[d] = stack[d]
           \/ FrameGood(stack'[d], placed', interned', size', align')
  BY <1>2, <1>3, <1>5
<1> QED BY <1>6, <1>7, LayoutQuiet

LEMMA LayoutNextItem == LayoutHyp /\ NextItem => LayoutInv'
<1> SUFFICES ASSUME LayoutHyp, NextItem PROVE LayoutInv'
  OBVIOUS
<1> DEFINE it == Head(pending)
<1>1. it \in Item /\ Plain(it).base = it /\ UNCHANGED <<placed, size, align>> /\ TypeOK
  BY HeadTailProperties DEF LayoutHyp, TypeOK, NextItem, Plain
<1>2. CASE UNCHANGED <<state, stack>>
  BY <1>1, <1>2, LayoutQuiet
<1>3. CASE it \in Struct /\ CallLayout(Plain(it))
  BY <1>1, <1>3, LayoutCall
<1>4. CASE it \notin Struct /\ stack' = <<NewFrame(it)>> /\ state' = state
  <2>1. Len(stack') = 1 /\ stack'[1] = NewFrame(it)
    BY <1>4
  <2>2. FrameGood(NewFrame(it), placed', interned', size', align')
    BY <1>1, <1>4, NewFrameGood
  <2> HIDE DEF it
  <2>3. \A d \in 1 .. Len(stack') : FrameGood(stack'[d], placed', interned', size', align')
    BY <2>1, <2>2
  <2> QED BY <1>1, <1>4, <2>3, LayoutQuiet
<1> QED BY <1>2, <1>3, <1>4 DEF NextItem

\* A step of the top frame within its part.
LEMMA LayoutWithin ==
  ASSUME LayoutHyp, stack # <<>>, NEW f, stack' = SetTop(f), UNCHANGED <<placed, size, align, state>>,
         f.item = Top.item, f.i = Top.i, f.offset = Top.offset, f.align = Top.align,
         TypeSoFar(f)
  PROVE  LayoutInv'
<1>1. /\ TypeOK /\ Len(stack') = Len(stack) /\ Len(stack) \in Nat \ {0}
      /\ \A d \in 1 .. Len(stack) : stack'[d] = IF d = Len(stack) THEN f ELSE stack[d]
  BY SetTopAt DEF LayoutHyp
<1>2. FrameGood(Top, placed, interned, size, align)
  BY <1>1, LayoutFacts DEF Top
<1>3. FrameGood(f, placed, interned, size, align)
  BY <1>2, FrameMoves
<1>4. Top.item \in Struct => StructGood(Top.item, state, placed, interned, size, align)
  BY LayoutFacts
<1>5. FrameGood(f, placed', interned', size', align')
  BY <1>3, <1>4, LayoutFacts, FrameStays
<1>6. \A d \in 1 .. Len(stack') :
           \/ d \in 1 .. Len(stack) /\ stack'[d] = stack[d]
           \/ FrameGood(stack'[d], placed', interned', size', align')
  BY <1>1, <1>5
<1> QED BY <1>6, LayoutQuiet

LEMMA SubSeqFacts ==
  ASSUME NEW S, NEW m \in Seq(S)
  PROVE  /\ SubSeq(m, 1, 0) = <<>> /\ SubSeq(m, 1, Len(m)) = m
         /\ \A k \in Nat : k + 1 <= Len(m) => Append(SubSeq(m, 1, k), m[k + 1]) = SubSeq(m, 1, k + 1)
<1>1. SubSeq(m, 1, 0) = <<>>
  BY SubSeqProperties, EmptySeq
<1>2. SubSeq(m, 1, Len(m)) = m
  BY SubSeqProperties, SeqEqual, LenProperties
<1>3. ASSUME NEW k \in Nat, k + 1 <= Len(m)
      PROVE  Append(SubSeq(m, 1, k), m[k + 1]) = SubSeq(m, 1, k + 1)
  <2> DEFINE a == SubSeq(m, 1, k)
             b == SubSeq(m, 1, k + 1)
             x == m[k + 1]
  <2>1. Len(m) \in Nat /\ k + 1 \in 1 .. Len(m)
    BY <1>3, LenProperties
  <2>2. x \in S
    BY <2>1, ElementOfSeq
  <2>3. a \in Seq(S) /\ Len(a) = k /\ \A j \in 1 .. k : a[j] = m[j]
    BY <1>3, <2>1, SubSeqProperties
  <2>4. b \in Seq(S) /\ Len(b) = k + 1 /\ \A j \in 1 .. k + 1 : b[j] = m[j]
    BY <1>3, <2>1, SubSeqProperties
  <2> HIDE DEF a, b
  <2>5. x = m[k + 1]
    OBVIOUS
  <2> HIDE DEF x
  <2>6. /\ Append(a, x) \in Seq(S) /\ Len(Append(a, x)) = k + 1
        /\ Append(a, x)[k + 1] = x /\ \A j \in 1 .. k : Append(a, x)[j] = a[j]
    BY <2>2, <2>3, AppendProperties
  <2>7. \A j \in 1 .. k + 1 : Append(a, x)[j] = b[j]
    BY <2>3, <2>4, <2>5, <2>6
  <2>8. Append(a, x) = b
    BY <2>4, <2>6, <2>7, SeqEqual
  <2> QED BY <2>8 DEF a, b, x
<1> QED BY <1>1, <1>2, <1>3

LEMMA WrapIs ==
  ASSUME NEW t, NEW b, NEW u, NEW x, t = [base |-> b, mods |-> u]
  PROVE  Wrap(t, x) = [base |-> b, mods |-> Append(u, x)]
<1>1. t.mods = u
  OBVIOUS
<1>2. Wrap(t, x) = [t EXCEPT !.mods = Append(u, x)]
  BY <1>1 DEF Wrap
<1> QED BY <1>2, NewMods

\* The type so far, with one modifier more.
LEMMA TypeOneMore ==
  ASSUME LayoutHyp, Wrapping, NEW f, f.item = Top.item, f.i = Top.i, f.k = Top.k + 1,
         f.ty = Wrap(Top.ty, NextMod)
  PROVE  TypeSoFar(f)
<1>1. TypeOK /\ stack # <<>> /\ AtPart(Top) /\ Top.k # Unresolved /\ Top \in Frame
  BY TopParts DEF LayoutHyp, Wrapping
<1>2. TypeSoFar(Top)
  <2>1. Len(stack) \in 1 .. Len(stack)
    BY <1>1, TopOK
  <2> QED BY <2>1, LayoutFacts DEF Top, FrameGood
<1>3. /\ Declared(Top).mods \in Seq(Mod) /\ Top.k \in Nat
      /\ Top.k + 1 <= Len(Declared(Top).mods)
  BY <1>1, DeclaredOK, NextModOK
<1> DEFINE m == Declared(Top).mods
           b == Declared(Top).base
<1>4. Top.ty = [base |-> b, mods |-> SubSeq(m, 1, Top.k)] /\ NextMod = m[Top.k + 1]
  BY <1>1, <1>2 DEF TypeSoFar, NextMod
<1>5. Append(SubSeq(m, 1, Top.k), m[Top.k + 1]) = SubSeq(m, 1, Top.k + 1)
  BY <1>3, SubSeqFacts
<1>6. Declared(f).mods = m /\ Declared(f).base = b
  BY DEF Declared
<1> HIDE DEF m, b
<1>7. Wrap(Top.ty, NextMod) = [base |-> b, mods |-> SubSeq(m, 1, Top.k + 1)]
  <2> DEFINE ty == Top.ty
             u  == SubSeq(m, 1, Top.k)
             v  == SubSeq(m, 1, Top.k + 1)
             x  == m[Top.k + 1]
  <2>1. ty = [base |-> b, mods |-> u] /\ NextMod = x /\ Append(u, x) = v
    BY <1>4, <1>5
  <2> HIDE DEF ty, u, v, x
  <2>2. Wrap(ty, x) = [base |-> b, mods |-> Append(u, x)]
    BY <2>1, WrapIs
  <2>3. Wrap(ty, NextMod) = [base |-> b, mods |-> v]
    BY <2>1, <2>2
  <2> QED BY <2>3 DEF ty, v
<1> QED BY <1>6, <1>7 DEF TypeSoFar

LEMMA LayoutResolve ==
  LayoutHyp /\ (ResolveBase \/ ResolvePointer \/ ResolveArray) => LayoutInv'
<1> SUFFICES ASSUME LayoutHyp, ResolveBase \/ ResolvePointer \/ ResolveArray PROVE LayoutInv'
  OBVIOUS
<1>1. /\ TypeOK /\ stack # <<>> /\ errors = {} /\ errors' = {}
      /\ UNCHANGED <<placed, size, align, state>>
  BY DEF LayoutHyp, ResolveBase, ResolvePointer, ResolveArray, Wrapping
<1>2. Top \in Frame
  BY <1>1, TopParts
<1>3. CASE ResolveBase
  <2> DEFINE b == Declared(Top).base
             f == [Top EXCEPT !.k = 0, !.ty = Plain(b)]
  <2>1. b # Unknown /\ AtPart(Top)
    BY <1>1, <1>3 DEF ResolveBase
  <2>2. stack' = SetTop(f)
    BY <1>3, <2>1 DEF ResolveBase
  <2>3. /\ f.item = Top.item /\ f.i = Top.i /\ f.offset = Top.offset /\ f.align = Top.align
        /\ f.k = 0 /\ f.ty = Plain(b)
    BY <1>2 DEF Frame
  <2> HIDE DEF f
  <2>4. SubSeq(Declared(Top).mods, 1, 0) = <<>>
    BY <1>1, <1>2, <2>1, DeclaredOK, SubSeqFacts
  <2>5. TypeSoFar(f)
    BY <2>3, <2>4 DEF TypeSoFar, Declared, Plain
  <2> QED BY <1>1, <2>2, <2>3, <2>5, LayoutWithin
<1>4. CASE ResolvePointer \/ ResolveArray
  <2> DEFINE t == Wrap(Top.ty, NextMod)
             f == [Top EXCEPT !.k = @ + 1, !.ty = t]
             k == Top.k + 1
  <2>1. Wrapping
    BY <1>4 DEF ResolvePointer, ResolveArray
  <2>2. stack' = SetTop(f)
    <3>1. CASE ResolvePointer
      BY <1>2, <3>1 DEF ResolvePointer, Frame
    <3>2. CASE ResolveArray
      <4> DEFINE ok == ArrayError(Top.ty, NextMod) = "none"
      <4>1. ok
        <5>1. errors' = IF ok THEN errors
                ELSE errors \cup {Err(ArrayError(Top.ty, NextMod), Top.item, Top.i)}
          BY <3>2 DEF ResolveArray
        <5> HIDE DEF ok
        <5> QED BY <1>1, <5>1
      <4>2. stack' = SetTop([Top EXCEPT !.k = @ + 1, !.ty = IF ok THEN t ELSE Plain(Poison)])
        BY <3>2 DEF ResolveArray
      <4> HIDE DEF ok, t
      <4> QED BY <4>1, <4>2
    <3> QED BY <1>4, <3>1, <3>2
  <2> HIDE DEF t
  <2>3. /\ f.item = Top.item /\ f.i = Top.i /\ f.offset = Top.offset /\ f.align = Top.align
        /\ f.k = k /\ f.ty = t
    <3>1. f = [Top EXCEPT !.k = k, !.ty = t]
      BY <1>2 DEF Frame
    <3> HIDE DEF f, k
    <3> QED BY <1>2, <3>1 DEF Frame
  <2> HIDE DEF f
  <2>4. TypeSoFar(f)
    BY <2>1, <2>3, TypeOneMore DEF t, k
  <2> QED BY <1>1, <2>2, <2>3, <2>4, LayoutWithin
<1> QED BY <1>3, <1>4

\* A part whose type is resolved has the type it declares, and a final one.
LEMMA ReadyType ==
  ASSUME LayoutHyp, PartReady
  PROVE  Top.ty = Declared(Top) /\ Final(Top.ty, state, interned)
<1>1. /\ TypeOK /\ stack # <<>> /\ AtPart(Top) /\ Top.k # Unresolved /\ Resolved(Top)
      /\ ~Blocked(Top.ty)
  BY DEF LayoutHyp, PartReady
<1>2. Top \in Frame /\ (IsArray(Top.ty) => Top.ty \in DOMAIN interned)
  BY <1>1, TopParts
<1>3. TypeSoFar(Top)
  <2>1. Len(stack) \in 1 .. Len(stack)
    BY <1>1, TopOK
  <2> QED BY <2>1, LayoutFacts DEF Top, FrameGood
<1>4. Declared(Top) \in Ty
  BY <1>1, <1>2, DeclaredOK
<1> DEFINE t == Declared(Top)
<1>5. t.mods \in Seq(Mod) /\ t = [base |-> t.base, mods |-> t.mods] /\ Top.k = Len(t.mods)
  BY <1>1, <1>4 DEF Ty, Resolved
<1>6. Top.ty = [base |-> t.base, mods |-> SubSeq(t.mods, 1, Len(t.mods))]
  BY <1>1, <1>3, <1>5 DEF TypeSoFar
<1>7. SubSeq(t.mods, 1, Len(t.mods)) = t.mods
  BY <1>5, SubSeqFacts
<1> QED BY <1>1, <1>2, <1>5, <1>6, <1>7 DEF Final, Blocked

\* A field is placed: what the frame has placed gets one field longer.
LEMMA LayoutPlaceField == LayoutHyp /\ PlaceField => LayoutInv'
<1> SUFFICES ASSUME LayoutHyp, PlaceField PROVE LayoutInv'
  OBVIOUS
<1>1. /\ TypeOK /\ OpenInProgress /\ [Next]_vars /\ StackSound /\ LayoutInv
      /\ errors = {} /\ errors' = {} /\ SelfErrors = {} /\ decl' = decl
      /\ stack # <<>> /\ PartReady /\ Top.item \in Struct
      /\ UNCHANGED <<size, align, state, interned>>
  BY LayoutFacts DEF LayoutHyp, PlaceField, PartReady
<1> DEFINE s   == Top.item
           t   == Top.ty
           A   == AlignOf(t)
           Z   == SizeOf(t)
           off == RoundUp(Top.offset, A)
           o2  == U32(off + Z)
           a2  == Greater(A, Top.align)
           f   == [Top EXCEPT !.i = @ + 1, !.k = Unresolved, !.ty = Plain(Poison),
                     !.offset = o2, !.align = a2]
           p   == placed[s]
           q   == Append(p, [type |-> t, offset |-> off])
           n   == Len(p)
<1>2. /\ Top \in Frame /\ t \in Ty /\ (IsArray(t) => t \in DOMAIN interned) /\ s \in Item
      /\ Top.i \in Nat \ {0} /\ Top.offset \in U32s /\ Top.align \in Aligns
  BY <1>1, TopParts
<1>3. t = Declared(Top) /\ Final(t, state, interned)
  BY <1>1, ReadyType
<1>4. Sized(t)
  BY <1>1, Zenon DEF PlaceField
<1>5. placed' = [placed EXCEPT ![s] = q] /\ stack' = SetTop(f)
  BY <1>2, <1>4 DEF PlaceField, Frame, Greater
<1>6. A \in Divisors /\ A \in Aligns /\ Z \in Nat
  BY <1>1, <1>2, AlignDivides, SizeOfType, LayoutAssumption DEF U32s
<1>7. /\ Top.align \in Divisors /\ n = Top.i - 1 /\ n <= Len(decl[s])
      /\ ShapeOf(s, Top.align, Top.offset, placed, interned, size, align)
  <2>1. Len(stack) \in 1 .. Len(stack)
    BY <1>1, TopOK
  <2>2. FrameGood(Top, placed, interned, size, align)
    BY <2>1, LayoutFacts DEF Top
  <2> QED BY <1>1, <2>2 DEF FrameGood
<1>8. /\ p \in Seq(PlacedPart) /\ n \in Nat /\ Len(decl[s]) \in Nat
      /\ AllFinal(p, state, interned) /\ placed'[s] = q
  BY <1>1, <1>2, <1>5, LayoutFacts, LenProperties DEF TypeOK, StructGood, PlacedPart
<1>9. /\ Len(q) = n + 1 /\ \A j \in 1 .. n : q[j] = p[j]
      /\ q[n + 1].type = t
  <2> DEFINE new == [type |-> t, offset |-> off]
  <2>2. new.type = t /\ q = Append(p, new)
    OBVIOUS
  <2> HIDE DEF new, q, p
  <2>1. p \in Seq(PlacedPart \cup {new}) /\ new \in PlacedPart \cup {new}
    BY <1>8
  <2> QED BY <2>1, <2>2, AppendProperties DEF n
<1>10. f.item = s /\ f.i = Top.i + 1 /\ f.k = Unresolved /\ f.offset = o2 /\ f.align = a2
  <2> HIDE DEF o2, a2
  <2> QED BY <1>2 DEF Frame
<1> HIDE DEF f, q, o2, a2, off, A, Z, p, n
<1> DEFINE sz == Sizes(p, interned, size)
           al == Alignings(p, interned, align)
           sz2 == Sizes(q, interned, size)
           al2 == Alignings(q, interned, align)
<1>11. /\ \A j \in 1 .. n : sz2[j] = sz[j] /\ al2[j] = al[j] /\ al[j] \in Aligns
       /\ sz2[n + 1] = Z /\ al2[n + 1] = A
  <2>1. n + 1 \in 1 .. n + 1 /\ \A j \in 1 .. n : j \in 1 .. n + 1
    BY <1>8
  <2>2. SizeIn(t, interned, size) = Z /\ AlignIn(t, interned, align) = A
    BY SizeIsIn DEF A, Z
  <2>3. sz2[n + 1] = Z /\ al2[n + 1] = A
    BY <1>9, <2>1, <2>2 DEF Sizes, Alignings
  <2>4. ASSUME NEW j \in 1 .. n
        PROVE  sz2[j] = sz[j] /\ al2[j] = al[j] /\ al[j] \in Aligns
    <3> DEFINE u == p[j].type
    <3>1. q[j] = p[j] /\ j \in 1 .. Len(q) /\ j \in 1 .. Len(p)
      BY <1>9, <2>1 DEF n
    <3>2. u \in Ty /\ Final(u, state, interned)
      <4>1. p[j] \in PlacedPart
        BY <1>8, <3>1, ElementOfSeq
      <4>2. p[j].type \in Ty
        BY <4>1 DEF PlacedPart
      <4> QED BY <1>8, <3>1, <4>2 DEF AllFinal
    <3>3. sz2[j] = SizeIn(u, interned, size) /\ sz[j] = SizeIn(u, interned, size)
      BY <3>1 DEF Sizes
    <3>4. al2[j] = AlignIn(u, interned, align) /\ al[j] = AlignIn(u, interned, align)
      BY <3>1 DEF Alignings
    <3> HIDE DEF u, sz, al, sz2, al2
    <3>5. AlignIn(u, interned, align) \in Aligns
      BY <1>1, <3>2, SizeOfType, SizeIsIn DEF Final
    <3> QED BY <3>3, <3>4, <3>5
  <2> QED BY <2>3, <2>4
<1> HIDE DEF sz, al, sz2, al2
<1>12. Shape(q, decl[s], sz2, al2, a2, o2)
  <2>1. Shape(p, decl[s], sz, al, Top.align, Top.offset)
    BY <1>7 DEF ShapeOf, p, sz, al
  <2>2. Top.offset \in Nat
    <3> DEFINE o == Top.offset
    <3>1. o \in U32s
      BY <1>2
    <3> HIDE DEF o
    <3>2. o \in Nat
      BY <3>1 DEF U32s
    <3> QED BY <3>2 DEF o
  <2>3. decl[s][n + 1].type = t
    BY <1>2, <1>3, <1>7 DEF Declared
  <2>4. Placed1(p, q, decl[s][n + 1].type, RoundUp(Top.offset, al2[n + 1]))
    BY <1>11, <2>3 DEF Placed1, q, off
  <2>5. sz2[n + 1] \in Nat /\ al2[n + 1] \in Divisors
    BY <1>6, <1>11
  <2>6. Shape(q, decl[s], sz2, al2, Greater(al2[n + 1], Top.align),
               U32(RoundUp(Top.offset, al2[n + 1]) + sz2[n + 1]))
    <3>1. p \in Seq(PlacedPart) /\ n = Len(p) /\ Top.align \in Aligns
      BY <1>2, <1>8 DEF n
    <3>2. \A j \in 1 .. n : sz2[j] = sz[j] /\ al2[j] = al[j] /\ al[j] \in Aligns
      BY <1>11
    <3> DEFINE a == Top.align
               o == Top.offset
               ds == decl[s]
    <3> HIDE DEF a, o, ds
    <3>3. a \in Aligns /\ o \in Nat /\ Shape(p, ds, sz, al, a, o)
      BY <2>1, <2>2, <3>1 DEF a, o, ds
    <3>4. Placed1(p, q, ds[n + 1].type, RoundUp(o, al2[n + 1]))
      BY <2>4 DEF o, ds
    <3>5. Longer(Len(p), sz, al, sz2, al2)
      BY <2>5, <3>1, <3>2 DEF Longer
    <3>6. Placed1(p, q, ds[Len(p) + 1].type, RoundUp(o, al2[Len(p) + 1]))
      BY <3>1, <3>4
    <3>7. Shape(q, ds, sz2, al2, Greater(al2[Len(p) + 1], a),
                U32(RoundUp(o, al2[Len(p) + 1]) + sz2[Len(p) + 1]))
      BY <3>1, <3>3, <3>5, <3>6, ShapeMore
    <3>8. Shape(q, ds, sz2, al2, Greater(al2[n + 1], a), U32(RoundUp(o, al2[n + 1]) + sz2[n + 1]))
      BY <3>1, <3>7
    <3> QED BY <3>8 DEF a, o, ds
  <2> QED BY <1>11, <2>6 DEF a2, o2, off
<1>13. FrameGood(f, placed', interned', size', align')
  <2>1. a2 \in Divisors
    BY <1>6, <1>7 DEF a2, Greater
  <2>2. n + 1 = f.i - 1 /\ f.i - 1 <= Len(decl[s])
    <3>1. Top.i <= Len(decl[s])
      BY <1>1 DEF PartReady, AtPart
    <3> QED BY <1>2, <1>7, <1>10, <3>1
  <2>3. ShapeOf(s, a2, o2, placed', interned', size', align')
    BY <1>1, <1>8, <1>12 DEF ShapeOf, sz2, al2
  <2>4. TypeSoFar(f)
    BY <1>10 DEF TypeSoFar
  <2> QED BY <1>8, <1>9, <1>10, <2>1, <2>2, <2>3, <2>4 DEF FrameGood
<1>14. StructGood(s, state', placed', interned', size', align')
  <2>1. state[s] = "in_progress"
    BY <1>1, TopNotDone
  <2>2. align[s] \in Divisors
    BY <1>1, LayoutFacts DEF StructGood
  <2>3. AllFinal(q, state, interned)
    <3>1. \A j \in 1 .. n : Final(q[j].type, state, interned)
      BY <1>8, <1>9 DEF AllFinal, n
    <3> QED BY <1>3, <1>8, <1>9, <3>1 DEF AllFinal
  <2> QED BY <1>1, <1>8, <2>1, <2>2, <2>3 DEF StructGood
<1>15. ASSUME NEW x \in Struct PROVE StructGood(x, state', placed', interned', size', align')
  <2>1. CASE x # s
    <3>1. placed'[x] = placed[x]
      BY <1>1, <1>5, <2>1 DEF TypeOK, Item
    <3> QED BY <1>1, <3>1, LayoutFacts, StructStays
  <2> QED BY <1>14, <2>1
<1>16. ASSUME NEW d \in 1 .. Len(stack')
       PROVE  FrameGood(stack'[d], placed', interned', size', align')
  <2>1. /\ Len(stack') = Len(stack) /\ Len(stack) \in Nat \ {0}
        /\ stack'[d] = IF d = Len(stack) THEN f ELSE stack[d]
    BY <1>1, <1>5, SetTopAt
  <2>2. CASE d # Len(stack)
    <3>1. d \in 1 .. Len(stack) /\ Len(stack) \in 1 .. Len(stack)
      BY <2>1
    <3>2. stack[d].item # s
      BY <1>1, <2>2, <3>1 DEF StackSound, Top, s
    <3>3. stack[d].item \in Struct => placed'[stack[d].item] = placed[stack[d].item]
      BY <1>1, <1>5, <3>2 DEF TypeOK, Item
    <3>4. FrameGood(stack[d], placed', interned', size', align')
      BY <3>1, <3>3, LayoutFacts, FrameStays
    <3> QED BY <2>1, <2>2, <3>4
  <2> QED BY <1>13, <2>1, <2>2
<1> QED BY <1>1, <1>15, <1>16, TableDivides, LayoutInvFor

LEMMA LayoutPlaceUse == LayoutHyp /\ PlaceUse => LayoutInv'
<1> SUFFICES ASSUME LayoutHyp, PlaceUse PROVE LayoutInv'
  OBVIOUS
<1> DEFINE f == [Top EXCEPT !.i = @ + 1, !.k = Unresolved, !.ty = Plain(Poison)]
<1>1. /\ TypeOK /\ decl' = decl /\ stack # <<>> /\ Top.item \notin Struct /\ stack' = SetTop(f)
      /\ UNCHANGED <<size, align, state, interned>>
  BY LayoutFacts DEF LayoutHyp, PlaceUse, PartReady
<1>2. Top \in Frame
  BY <1>1, TopParts
<1>3. f.item = Top.item /\ f.align = Top.align /\ f.k = Unresolved
  BY <1>2 DEF Frame
<1> HIDE DEF f
<1>4. \A x \in Struct : placed'[x] = placed[x]
  BY <1>1 DEF PlaceUse, TypeOK, Item
<1>5. \A x \in Struct : StructGood(x, state', placed', interned', size', align')
  BY <1>1, <1>4, LayoutFacts, StructStays
<1>6. ASSUME NEW d \in 1 .. Len(stack')
      PROVE  FrameGood(stack'[d], placed', interned', size', align')
  <2>1. /\ Len(stack') = Len(stack) /\ Len(stack) \in Nat \ {0}
        /\ stack'[d] = IF d = Len(stack) THEN f ELSE stack[d]
    BY <1>1, SetTopAt
  <2>2. CASE d # Len(stack)
    BY <1>4, <2>1, <2>2, LayoutFacts, FrameStays
  <2>3. CASE d = Len(stack)
    <3>1. FrameGood(Top, placed, interned, size, align)
      BY <2>1, LayoutFacts DEF Top
    <3>2. Top.align \in Divisors
      BY <3>1 DEF FrameGood
    <3> QED BY <1>1, <1>3, <2>1, <2>3, <3>2 DEF FrameGood, TypeSoFar
  <2> QED BY <2>2, <2>3
<1> QED BY <1>1, <1>5, <1>6, TableDivides, LayoutInvFor

LEMMA LayoutFinish == LayoutHyp /\ (FinishStruct \/ FinishUse) => LayoutInv'
<1> SUFFICES ASSUME LayoutHyp, FinishStruct \/ FinishUse PROVE LayoutInv'
  OBVIOUS
<1>1. /\ TypeOK /\ decl' = decl /\ stack # <<>> /\ stack' = Pop /\ ~AtPart(Top)
      /\ UNCHANGED <<placed, interned>>
  BY LayoutFacts DEF LayoutHyp, FinishStruct, FinishUse
<1>2. /\ Len(stack') = Len(stack) - 1 /\ Len(stack) \in Nat \ {0}
      /\ \A d \in 1 .. Len(stack') : stack'[d] = stack[d]
  BY <1>1, PopOK, TopOK
<1>3. \A d \in 1 .. Len(stack) : FrameGood(stack[d], placed', interned', size', align')
  BY <1>1, LayoutFacts, FrameStays
<1>4. \A d \in 1 .. Len(stack') : FrameGood(stack'[d], placed', interned', size', align')
  BY <1>2, <1>3
<1>5. ASSUME NEW x \in Struct PROVE StructGood(x, state', placed', interned', size', align')
  <2>1. CASE FinishStruct /\ x = Top.item
    <3> DEFINE o == Top.offset
    <3>1. /\ size' = [size EXCEPT ![x] = RoundUp(o, Top.align)]
          /\ align' = [align EXCEPT ![x] = Top.align]
          /\ state' = [state EXCEPT ![x] = "done"]
      BY <2>1 DEF FinishStruct
    <3>2. size'[x] = RoundUp(o, Top.align) /\ align'[x] = Top.align /\ state'[x] = "done"
      BY <1>1, <3>1 DEF TypeOK
    <3>3. FrameGood(Top, placed', interned', size', align')
      BY <1>2, <1>3 DEF Top
    <3>4. Len(placed'[x]) = Len(decl[x])
      <4>1. /\ Len(placed'[x]) = Top.i - 1 /\ Top.i - 1 <= Len(decl[x])
        BY <2>1, <3>3 DEF FrameGood
      <4>2. Top.i \in Nat /\ Len(decl[x]) \in Nat
        BY <1>1, TopParts, LenProperties DEF TypeOK, Item
      <4> QED BY <1>1, <2>1, <4>1, <4>2 DEF AtPart
    <3>5. AllFinal(placed'[x], state', interned')
      BY <1>1, LayoutFacts, ShapeStays DEF StructGood
    <3>6. o \in U32s
      BY <1>1, TopParts
    <3> QED BY <2>1, <3>2, <3>3, <3>4, <3>5, <3>6 DEF FrameGood, StructGood
  <2>2. CASE FinishUse \/ x # Top.item
    <3>1. state'[x] = state[x] /\ size'[x] = size[x] /\ align'[x] = align[x]
      BY <1>1, <2>2 DEF FinishStruct, FinishUse, TypeOK
    <3> QED BY <1>1, <3>1, LayoutFacts, StructStays
  <2> QED BY <2>1, <2>2
<1> QED BY <1>1, <1>4, <1>5, TableDivides, LayoutInvFor

LEMMA LayoutStep ==
  TypeOK /\ StackSound /\ OpenInProgress /\ LayoutInv /\ [Next]_vars => LayoutInv'
<1> SUFFICES ASSUME TypeOK, StackSound, OpenInProgress, LayoutInv, [Next]_vars, errors' = {}
             PROVE  LayoutInv'
  BY DEF LayoutInv
<1>1. LayoutHyp
  <2>1. errors = {}
    BY ErrorsGrow
  <2>2. SelfErrors = {} /\ SelfErrors' = {}
    BY <2>1, NoErrors DEF SelfErrors
  <2> QED BY <2>1, <2>2 DEF LayoutHyp
<1>2. CASE UNCHANGED vars
  BY <1>1, <1>2, LayoutQuiet DEF vars
<1>3. CASE LayoutNeeded
  BY <1>1, <1>3, LayoutCall DEF LayoutNeeded, Blocked, IsStruct
<1> QED
  BY <1>1, <1>2, <1>3, LayoutNextItem, LayoutResolve, LayoutPlaceField, LayoutPlaceUse,
     LayoutFinish DEF Next

LEMMA LeastOf ==
  ASSUME NEW T \in SUBSET Nat, T # {}
  PROVE  \E k \in T : \A j \in T : k <= j
<1>1. PICK x \in T : \A y \in T : ~ (<<y, x>> \in OpToRel(<, Nat))
  BY NatLessThanWellFounded, WFMin, Zenon
<1>2. ASSUME NEW y \in T, y < x PROVE <<y, x>> \in OpToRel(<, Nat)
  BY <1>2 DEF OpToRel
<1>3. \A y \in T : ~(y < x)
  BY <1>1, <1>2
<1>4. \A y \in T : y \in Nat
  OBVIOUS
<1> QED BY <1>3, <1>4

\* Induction, said of a set.
LEMMA AllOfNat ==
  ASSUME NEW T \in SUBSET Nat, 0 \in T, \A n \in T : n + 1 \in T
  PROVE  T = Nat
<1> SUFFICES ASSUME Nat \ T # {} PROVE FALSE
  OBVIOUS
<1>1. PICK k \in Nat \ T : \A j \in Nat \ T : k <= j
  <2> DEFINE U == Nat \ T
  <2>1. U \in SUBSET Nat /\ U # {}
    OBVIOUS
  <2> HIDE DEF U
  <2>2. \E k \in U : \A j \in U : k <= j
    BY <2>1, LeastOf
  <2> QED BY <2>2 DEF U
<1>2. k # 0 /\ k - 1 \in Nat /\ ~(k <= k - 1) /\ (k - 1) + 1 = k
  BY <1>1
<1>3. k - 1 \in T
  BY <1>1, <1>2
<1> QED BY <1>1, <1>2, <1>3


LEMMA LayoutInit == Init => TypeOK /\ LayoutInv
<1> SUFFICES ASSUME Init PROVE TypeOK /\ LayoutInv
  OBVIOUS
<1>1. TypeOK
  BY TypeInit
<1>2. /\ stack = <<>> /\ interned = [t \in {} |-> [size |-> 0, align |-> 1]]
      /\ \A s \in Struct : state[s] = "unstarted" /\ placed[s] = <<>> /\ align[s] = 1
  BY DEF Init, InitFor, Item
<1>3. Len(stack) = 0 /\ DOMAIN interned = {}
  BY <1>2, EmptySeq
<1>4. ASSUME NEW s \in Struct PROVE StructGood(s, state, placed, interned, size, align)
  <2>1. Len(placed[s]) = 0
    BY <1>2, EmptySeq
  <2>2. AllFinal(placed[s], state, interned)
    BY <2>1 DEF AllFinal
  <2> QED BY <1>2, <2>2, OneDivides DEF StructGood
<1> QED BY <1>1, <1>3, <1>4 DEF LayoutInv

LEMMA LayoutAlways == Spec => []LayoutInv
<1>1. TypeOK /\ StackSound /\ OpenInProgress /\ LayoutInv /\ [Next]_vars => LayoutInv'
  BY LayoutStep
<1>2. Init => LayoutInv
  BY LayoutInit
<1> QED BY <1>1, <1>2, TypeCorrect, StackIsSound, OpenAlways, PTL DEF Spec

-----------------------------------------------------------------------------
(* The layout in the end *)

\* The recursion of ExactEnd has one solution.
EndsFun(r, n, sz, al) ==
  r = [j \in 0 .. n |-> IF j = 0 THEN 0 ELSE ExactUp(r[j - 1], al[j]) + sz[j]]

LEMMA EndsAreOne ==
  ASSUME NEW n \in Nat, NEW sz, NEW al, NEW e, Ends(e, n, sz, al),
         NEW c, c = CHOOSE r : EndsFun(r, n, sz, al)
  PROVE  \A j \in 0 .. n : c[j] = e[j]
<1>1. EndsFun(e, n, sz, al)
  <2> DEFINE g == [j \in 0 .. n |-> IF j = 0 THEN 0 ELSE ExactUp(e[j - 1], al[j]) + sz[j]]
  <2>1. e = [j \in 0 .. n |-> e[j]]
    BY DEF Ends
  <2>2. ASSUME NEW j \in 0 .. n PROVE e[j] = g[j]
    <3>1. CASE j = 0
      BY <3>1 DEF Ends
    <3>2. CASE j # 0
      <4>1. j \in 1 .. n
        BY <3>2
      <4> QED BY <3>2, <4>1 DEF Ends
    <3> QED BY <3>1, <3>2
  <2>3. g = [j \in 0 .. n |-> g[j]]
    OBVIOUS
  <2>4. e = g
    <3> HIDE DEF g
    <3> QED BY <2>1, <2>2, <2>3
  <2> QED BY <2>4 DEF EndsFun
<1>2. EndsFun(c, n, sz, al)
  BY <1>1
<1> DEFINE T == {j \in Nat : j <= n => c[j] = e[j]}
<1>3. 0 \in T
  <2>1. c[0] = 0
    BY <1>2 DEF EndsFun
  <2> QED BY <2>1 DEF Ends
<1>4. ASSUME NEW j \in T PROVE j + 1 \in T
  <2>1. SUFFICES ASSUME j + 1 <= n PROVE c[j + 1] = e[j + 1]
    OBVIOUS
  <2>2. j \in Nat /\ j + 1 \in 1 .. n /\ j + 1 \in 0 .. n /\ j + 1 # 0 /\ (j + 1) - 1 = j
    BY <2>1
  <2>3. c[j] = e[j]
    BY <2>1, <2>2
  <2>4. c[j + 1] = ExactUp(c[j], al[j + 1]) + sz[j + 1]
    BY <1>2, <2>2 DEF EndsFun
  <2>5. e[j + 1] = ExactUp(e[j], al[j + 1]) + sz[j + 1]
    BY <2>2 DEF Ends
  <2> QED BY <2>3, <2>4, <2>5
<1>5. T \in SUBSET Nat
  OBVIOUS
<1>6. \A j \in Nat : j \in T
  <2> HIDE DEF T
  <2> QED BY <1>3, <1>4, <1>5, AllOfNat
<1> QED BY <1>6

ExactRec(s, r) ==
  r = [j \in 0 .. Len(placed[s]) |->
        IF j = 0 THEN 0
        ELSE ExactUp(r[j - 1], AlignOf(placed[s][j].type)) + SizeOf(placed[s][j].type)]

LEMMA ExactEndIs ==
  ASSUME TypeOK, NEW s \in Struct, NEW e,
         Ends(e, Len(placed[s]), Sizes(placed[s], interned, size),
                 Alignings(placed[s], interned, align))
  PROVE  \A j \in 0 .. Len(placed[s]) : ExactEnd(s)[j] = e[j]
<1> DEFINE p  == placed[s]
           n  == Len(p)
           sz == Sizes(p, interned, size)
           al == Alignings(p, interned, align)
<1>1. n \in Nat
  BY LenProperties DEF TypeOK, Item
<1>2. \A j \in 1 .. n : al[j] = AlignOf(p[j].type) /\ sz[j] = SizeOf(p[j].type)
  BY SizeIsIn DEF Sizes, Alignings
<1>3. ExactEnd(s) = CHOOSE r : ExactRec(s, r)
  BY DEF ExactEnd, ExactRec
<1>4. ASSUME NEW r PROVE ExactRec(s, r) <=> EndsFun(r, n, sz, al)
  <2> DEFINE f == [j \in 0 .. n |-> IF j = 0 THEN 0
                     ELSE ExactUp(r[j - 1], AlignOf(p[j].type)) + SizeOf(p[j].type)]
             g == [j \in 0 .. n |-> IF j = 0 THEN 0 ELSE ExactUp(r[j - 1], al[j]) + sz[j]]
  <2>1. ASSUME NEW j \in 0 .. n PROVE f[j] = g[j]
    <3>1. CASE j = 0
      BY <3>1
    <3>2. CASE j # 0
      <4>1. j \in 1 .. n
        BY <1>1, <3>2
      <4> HIDE DEF sz, al
      <4> QED BY <1>2, <3>2, <4>1
    <3> QED BY <3>1, <3>2
  <2>2. f = [j \in 0 .. n |-> f[j]] /\ g = [j \in 0 .. n |-> g[j]]
    OBVIOUS
  <2>3. f = g
    <3> HIDE DEF f, g
    <3> QED BY <2>1, <2>2
  <2>4. ExactRec(s, r) <=> r = f
    BY DEF ExactRec
  <2>5. EndsFun(r, n, sz, al) <=> r = g
    BY DEF EndsFun
  <2> QED BY <2>3, <2>4, <2>5
<1> HIDE DEF sz, al
<1>5. ExactEnd(s) = CHOOSE r : EndsFun(r, n, sz, al)
  BY <1>3, <1>4
<1>6. Ends(e, n, sz, al)
  BY DEF sz, al
<1> HIDE DEF n
<1>7. \A j \in 0 .. n : ExactEnd(s)[j] = e[j]
  BY <1>1, <1>5, <1>6, EndsAreOne
<1> QED BY <1>7 DEF n

\* A struct that is done, and fits, is laid out as in C.
LEMMA DoneIsC ==
  ASSUME TypeOK, LayoutInv, errors = {}, NEW s \in Struct, state[s] = "done", Fits(s)
  PROVE  IsCLayout(s)
<1> DEFINE p  == placed[s]
           n  == Len(p)
           sz == Sizes(p, interned, size)
           al == Alignings(p, interned, align)
           a  == align[s]
<1>1. StructGood(s, state, placed, interned, size, align)
  BY DEF LayoutInv
<1>2. /\ n \in Nat /\ n = Len(decl[s]) /\ a \in Divisors /\ a \in Nat \ {0}
      /\ MaxU32 \in Nat
  BY <1>1, LenProperties, LayoutAssumption DEF TypeOK, Item, StructGood, Divisors, Aligns
<1>3. PICK o \in U32s : ShapeOf(s, a, o, placed, interned, size, align) /\ size[s] = RoundUp(o, a)
  BY <1>1 DEF StructGood
<1>4. Shape(p, decl[s], sz, al, a, o)
  BY <1>3 DEF ShapeOf
<1>5. \A j \in 1 .. n : al[j] = AlignOf(p[j].type)
  BY SizeIsIn DEF Alignings
<1> HIDE DEF sz, al
<1>6. PICK e : Ends(e, n, sz, al) /\ Places(p, e, al, o)
  BY <1>4 DEF Shape
<1>7. \A j \in 0 .. n : ExactEnd(s)[j] = e[j] /\ e[j] \in Nat
  BY <1>6, ExactEndIs DEF Ends, sz, al
<1>8. ExactUp(e[n], a) <= MaxU32
  BY <1>2, <1>7 DEF Fits
<1>9. e[n] <= MaxU32 /\ RoundUp(e[n], a) = ExactUp(e[n], a)
  <2>1. e[n] \in Nat
    BY <1>2, <1>7
  <2>2. ExactUp(e[n], a) \in Nat /\ e[n] <= ExactUp(e[n], a)
    BY <1>2, <2>1, ExactUpBounds
  <2>3. e[n] <= MaxU32
    BY <1>2, <1>8, <2>1, <2>2
  <2> QED BY <1>2, <1>8, <2>1, <2>3, RoundUpExact
<1>10. o = e[n] /\ \A j \in 1 .. n : p[j].offset = ExactUp(e[j - 1], al[j])
  BY <1>6, <1>9 DEF Places
<1>11. size[s] = ExactUp(ExactEnd(s)[n], a)
  BY <1>2, <1>3, <1>7, <1>9, <1>10
<1>12. ASSUME NEW j \in 1 .. n
       PROVE  /\ p[j].type = decl[s][j].type
              /\ p[j].offset = ExactUp(ExactEnd(s)[j - 1], AlignOf(p[j].type))
              /\ AlignOf(p[j].type) <= a
  <2>1. j - 1 \in 0 .. n
    BY <1>2
  <2>2. al[j] = AlignOf(p[j].type) /\ ExactEnd(s)[j - 1] = e[j - 1]
    BY <1>5, <1>7, <2>1
  <2>3. p[j].type = decl[s][j].type /\ al[j] <= a
    BY <1>4 DEF Shape, Strictest
  <2>4. p[j].offset = ExactUp(e[j - 1], al[j])
    BY <1>10
  <2> QED BY <2>2, <2>3, <2>4
<1>13. a = 1 \/ \E j \in 1 .. n : AlignOf(p[j].type) = a
  BY <1>4, <1>5 DEF Shape, Strictest
<1> HIDE DEF n
<1> QED BY <1>2, <1>11, <1>12, <1>13 DEF IsCLayout, n

(***************************************************************************)
(* Every struct of an accepted program that fits in 32 bits has the layout *)
(* of C: each field at the first multiple of its alignment, whatever the   *)
(* order of the declarations (sema.c:241-304).                             *)
(***************************************************************************)
THEOREM LayoutIsRight == Spec => []LayoutIsC
<1>1. TypeOK /\ StackSound /\ CycleInv /\ LayoutInv => LayoutIsC
  <2> SUFFICES ASSUME TypeOK, StackSound, CycleInv, LayoutInv, Accepted,
                      NEW s \in Struct, Fits(s)
               PROVE  IsCLayout(s)
    BY DEF LayoutIsC
  <2>1. Len(pending) = 0 /\ Len(stack) = 0 /\ errors = {}
    BY EmptySeq DEF Accepted, Finished
  <2>2. SelfErrors = {}
    BY <2>1, NoErrors
  <2>3. state[s] = "done"
    BY <2>1, <2>2 DEF StackSound, CycleInv, AllReached, TypeOK
  <2> QED BY <2>1, <2>3, DoneIsC
<1> QED BY <1>1, TypeCorrect, StackIsSound, CycleAlways, LayoutAlways, PTL

-----------------------------------------------------------------------------
(* Functions of types defined from the element outwards *)

LEMMA ElemShorter ==
  ASSUME NEW t \in Ty, t.mods # <<>>
  PROVE  /\ Elem(t) \in Ty /\ Elem(t).base = t.base
         /\ Elem(t).mods = SubSeq(t.mods, 1, Len(t.mods) - 1)
         /\ Len(t.mods) \in Nat \ {0} /\ Len(Elem(t).mods) = Len(t.mods) - 1
         /\ \A j \in 1 .. Len(t.mods) - 1 : Elem(t).mods[j] = t.mods[j]
         /\ OuterMod(t) = t.mods[Len(t.mods)] /\ OuterMod(t) \in Mod
<1> DEFINE m == t.mods
<1>1. m \in Seq(Mod) /\ m # <<>> /\ t = [base |-> t.base, mods |-> m] /\ t.base \in Base
  BY DEF Ty
<1>2. Elem(t) = [base |-> t.base, mods |-> SubSeq(m, 1, Len(m) - 1)]
  <2> DEFINE ms == SubSeq(m, 1, Len(m) - 1)
             b  == t.base
  <2>1. Elem(t) = [t EXCEPT !.mods = ms] /\ t = [base |-> b, mods |-> m]
    BY <1>1 DEF Elem
  <2> HIDE DEF ms, b, m
  <2>2. [t EXCEPT !.mods = ms] = [base |-> b, mods |-> ms]
    BY <2>1, NewMods
  <2> QED BY <2>1, <2>2 DEF ms, b
<1> HIDE DEF m
<1>3. Len(m) \in Nat \ {0} /\ m[Len(m)] \in Mod
  BY <1>1, LenProperties, EmptySeq, ElementOfSeq
<1>4. /\ SubSeq(m, 1, Len(m) - 1) \in Seq(Mod) /\ Len(SubSeq(m, 1, Len(m) - 1)) = Len(m) - 1
      /\ \A j \in 1 .. Len(m) - 1 : SubSeq(m, 1, Len(m) - 1)[j] = m[j]
  <2> DEFINE k == Len(m) - 1
  <2>1. k \in Nat /\ k <= Len(m) /\ Len(m) \in Nat
    BY <1>3
  <2> HIDE DEF k
  <2>2. SubSeq(m, 1, k) \in Seq(Mod) /\ Len(SubSeq(m, 1, k)) = k
        /\ \A j \in 1 .. k : SubSeq(m, 1, k)[j] = m[j]
    BY <1>1, <2>1, SubSeqProperties
  <2> QED BY <2>2 DEF k
<1> DEFINE u == SubSeq(m, 1, Len(m) - 1)
<1>5. /\ u \in Seq(Mod) /\ Len(u) = Len(m) - 1
      /\ \A j \in 1 .. Len(m) - 1 : u[j] = m[j]
  BY <1>4
<1>6. Elem(t) = [base |-> t.base, mods |-> u]
  BY <1>2
<1>7. OuterMod(t) = m[Len(m)]
  BY DEF OuterMod, m
<1>8. u = SubSeq(m, 1, Len(m) - 1)
  OBVIOUS
<1> HIDE DEF u
<1>9. Elem(t) \in Ty /\ Elem(t).base = t.base /\ Elem(t).mods = u
  BY <1>1, <1>5, <1>6 DEF Ty
<1> QED BY <1>3, <1>5, <1>7, <1>8, <1>9 DEF m

\* What holds of a type without modifiers, and of each type whose element it holds
\* of, holds of all.
LEMMA AllTypes ==
  ASSUME NEW T \in SUBSET Ty,
         \A t \in Ty : t.mods = <<>> \/ Elem(t) \in T => t \in T
  PROVE  T = Ty
<1> DEFINE N == {n \in Nat : \A t \in Ty : Len(t.mods) = n => t \in T}
<1>1. 0 \in N
  <2>1. ASSUME NEW t \in Ty, Len(t.mods) = 0 PROVE t \in T
    <3>1. t.mods = <<>>
      BY <2>1, EmptySeq DEF Ty
    <3> QED BY <3>1
  <2> QED BY <2>1
<1>2. ASSUME NEW n \in N PROVE n + 1 \in N
  <2>1. ASSUME NEW t \in Ty, Len(t.mods) = n + 1 PROVE t \in T
    <3>1. t.mods # <<>>
      BY <2>1, EmptySeq
    <3>2. Elem(t) \in Ty /\ Len(Elem(t).mods) = n
      BY <2>1, <3>1, ElemShorter
    <3> QED BY <3>2
  <2> QED BY <2>1
<1>3. N = Nat
  <2>1. N \in SUBSET Nat
    OBVIOUS
  <2> HIDE DEF N
  <2> QED BY <1>1, <1>2, <2>1, AllOfNat
<1>4. \A t \in Ty : Len(t.mods) \in Nat
  BY LenProperties DEF Ty
<1> QED BY <1>3, <1>4

\* A value of t, from that of its element.
ValueOf(t, v, b, w) ==
  IF t.mods = <<>> THEN b[t.base]
  ELSE IF IsPointer(t) THEN 8
  ELSE U32(w[OuterMod(t)] * v)

Values(F, b, w) ==
  F \in [Ty -> U32s] /\ \A t \in Ty : F[t] = ValueOf(t, F[Elem(t)], b, w)

LEMMA ValueRange ==
  ASSUME NEW b \in [Base -> U32s], NEW w \in [Nat -> Nat], NEW t \in Ty, NEW v,
         t.mods # <<>> => v \in U32s
  PROVE  ValueOf(t, v, b, w) \in U32s
<1>1. CASE t.mods = <<>>
  BY <1>1 DEF ValueOf, Ty
<1>2. CASE IsPointer(t)
  BY <1>2, LayoutAssumption DEF ValueOf, U32s, IsPointer
<1>3. CASE t.mods # <<>> /\ ~IsPointer(t)
  <2>1. OuterMod(t) \in Nat
    BY <1>3, ElemShorter DEF IsPointer, Mod
  <2>2. w[OuterMod(t)] * v \in Int
    BY <1>3, <2>1 DEF U32s
  <2> QED BY <1>3, <2>2, U32Range DEF ValueOf
<1> QED BY <1>1, <1>2, <1>3

\* Up to modifiers of some number, such a function exists, and only one.
UpTo(G, n, b, w) ==
  /\ G \in [Ty -> U32s]
  /\ \A t \in Ty : Len(t.mods) <= n => G[t] = ValueOf(t, G[Elem(t)], b, w)

HasAtMost(t, n) == Len(t.mods) <= n

LEMMA UpToAgree ==
  ASSUME NEW b, NEW w, NEW n \in Nat, NEW m \in Nat, NEW G, NEW H,
         UpTo(G, n, b, w), UpTo(H, m, b, w),
         NEW x \in Ty, HasAtMost(x, n), HasAtMost(x, m)
  PROVE  G[x] = H[x]
<1> DEFINE T == {t \in Ty : Len(t.mods) <= n /\ Len(t.mods) <= m => G[t] = H[t]}
<1>1. ASSUME NEW t \in Ty, t.mods = <<>> \/ Elem(t) \in T PROVE t \in T
  <2>1. SUFFICES ASSUME Len(t.mods) <= n, Len(t.mods) <= m PROVE G[t] = H[t]
    OBVIOUS
  <2>2. G[t] = ValueOf(t, G[Elem(t)], b, w) /\ H[t] = ValueOf(t, H[Elem(t)], b, w)
    BY <2>1 DEF UpTo
  <2>3. CASE t.mods = <<>>
    BY <2>2, <2>3 DEF ValueOf
  <2>4. CASE t.mods # <<>>
    <3>1. Len(Elem(t).mods) = Len(t.mods) - 1 /\ Len(t.mods) \in Nat \ {0}
      BY <2>4, ElemShorter
    <3>2. G[Elem(t)] = H[Elem(t)]
      BY <1>1, <2>1, <2>4, <3>1
    <3> QED BY <2>2, <3>2
  <2> QED BY <2>3, <2>4
<1>2. T \in SUBSET Ty
  OBVIOUS
<1>3. T = Ty
  <2> HIDE DEF T
  <2> QED BY <1>1, <1>2, AllTypes
<1> QED BY <1>3 DEF HasAtMost

LEMMA UpToExists ==
  ASSUME NEW b \in [Base -> U32s], NEW w \in [Nat -> Nat], NEW n \in Nat
  PROVE  \E G : UpTo(G, n, b, w)
<1> DEFINE N == {k \in Nat : \E G : UpTo(G, k, b, w)}
<1>1. 0 \in N
  <2> DEFINE G == [t \in Ty |-> b[t.base]]
  <2>1. G \in [Ty -> U32s]
    BY DEF Ty
  <2>2. ASSUME NEW t \in Ty, Len(t.mods) <= 0 PROVE G[t] = ValueOf(t, G[Elem(t)], b, w)
    <3>1. t.mods = <<>>
      BY <2>2, EmptySeq, LenProperties DEF Ty
    <3> QED BY <3>1 DEF ValueOf
  <2> HIDE DEF G
  <2> QED BY <2>1, <2>2 DEF UpTo
<1>2. ASSUME NEW k \in N PROVE k + 1 \in N
  <2>1. PICK G : UpTo(G, k, b, w)
    OBVIOUS
  <2> DEFINE H == [t \in Ty |-> IF Len(t.mods) = k + 1 THEN ValueOf(t, G[Elem(t)], b, w) ELSE G[t]]
  <2>2. G \in [Ty -> U32s] /\ k \in Nat
    BY <2>1 DEF UpTo
  <2>3. ASSUME NEW t \in Ty, Len(t.mods) = k + 1 PROVE ValueOf(t, G[Elem(t)], b, w) \in U32s
    <3>1. t.mods # <<>> => Elem(t) \in Ty
      BY ElemShorter
    <3>2. t.mods # <<>> => G[Elem(t)] \in U32s
      BY <2>2, <3>1
    <3> QED BY <3>2, ValueRange
  <2>4. H \in [Ty -> U32s]
    BY <2>2, <2>3
  <2>5. \A t \in Ty :
          /\ Len(t.mods) = k + 1 => H[t] = ValueOf(t, G[Elem(t)], b, w)
          /\ Len(t.mods) # k + 1 => H[t] = G[t]
    OBVIOUS
  <2> HIDE DEF H
  <2>6. ASSUME NEW t \in Ty, Len(t.mods) <= k + 1 PROVE H[t] = ValueOf(t, H[Elem(t)], b, w)
    <3>1. Len(t.mods) \in Nat
      BY LenProperties DEF Ty
    <3>2. H[t] = ValueOf(t, G[Elem(t)], b, w)
      <4> DEFINE v == ValueOf(t, G[Elem(t)], b, w)
                 g == G[t]
      <4>0. /\ Len(t.mods) = k + 1 => H[t] = v
            /\ Len(t.mods) # k + 1 => H[t] = g
        BY <2>5
      <4>1. CASE Len(t.mods) = k + 1
        <5> HIDE DEF v
        <5>1. H[t] = v
          BY <4>0, <4>1
        <5> QED BY <5>1 DEF v
      <4>2. CASE Len(t.mods) # k + 1
        <5>1. Len(t.mods) <= k
          <6> DEFINE q == Len(t.mods)
          <6>1. q \in Nat /\ k \in Nat /\ q <= k + 1 /\ q # k + 1
            BY <2>2, <2>6, <3>1, <4>2
          <6> HIDE DEF q
          <6>2. q <= k
            BY <6>1
          <6> QED BY <6>2 DEF q
        <5>2. g = v
          BY <2>1, <5>1 DEF UpTo
        <5> HIDE DEF g, v
        <5>3. H[t] = v
          BY <4>0, <4>2, <5>2
        <5> QED BY <5>3 DEF v
      <4> QED BY <4>1, <4>2
    <3>3. CASE t.mods = <<>>
      BY <3>2, <3>3 DEF ValueOf
    <3>4. CASE t.mods # <<>>
      <4> DEFINE l == Len(Elem(t).mods)
      <4>0. Elem(t) \in Ty /\ l = Len(t.mods) - 1
        BY <3>4, ElemShorter
      <4> DEFINE q == Len(t.mods)
      <4>1. k \in Nat /\ q \in Nat /\ l = q - 1 /\ q <= k + 1
        BY <2>2, <2>6, <3>1, <4>0
      <4> HIDE DEF l, q
      <4>2. l # k + 1
        BY <4>1
      <4>3. H[Elem(t)] = G[Elem(t)]
        BY <2>5, <4>0, <4>2 DEF l
      <4> QED BY <3>2, <4>3
    <3> QED BY <3>3, <3>4
  <2>7. UpTo(H, k + 1, b, w)
    BY <2>4, <2>6 DEF UpTo
  <2> QED BY <2>2, <2>7
<1>3. N = Nat
  <2>1. N \in SUBSET Nat
    OBVIOUS
  <2> HIDE DEF N
  <2> QED BY <1>1, <1>2, <2>1, AllOfNat
<1> QED BY <1>3

LEMMA ValuesExist ==
  ASSUME NEW b \in [Base -> U32s], NEW w \in [Nat -> Nat]
  PROVE  \E F : Values(F, b, w)
<1> DEFINE G(n) == CHOOSE g : UpTo(g, n, b, w)
           F == [t \in Ty |-> G(Len(t.mods))[t]]
<1>1. \A n \in Nat : UpTo(G(n), n, b, w)
  BY UpToExists
<1> HIDE DEF G
<1>2. \A t \in Ty : Len(t.mods) \in Nat
  BY LenProperties DEF Ty
<1>3. F \in [Ty -> U32s]
  <2>1. ASSUME NEW t \in Ty PROVE G(Len(t.mods))[t] \in U32s
    <3>1. G(Len(t.mods)) \in [Ty -> U32s]
      BY <1>1, <1>2 DEF UpTo
    <3> QED BY <3>1
  <2> QED BY <2>1
<1>4. \A t \in Ty : F[t] = G(Len(t.mods))[t]
  OBVIOUS
<1> HIDE DEF F
<1>5. ASSUME NEW t \in Ty PROVE F[t] = ValueOf(t, F[Elem(t)], b, w)
  <2> DEFINE n == Len(t.mods)
  <2>1. n \in Nat /\ UpTo(G(n), n, b, w)
    BY <1>1, <1>2
  <2>2. F[t] = ValueOf(t, G(n)[Elem(t)], b, w)
    BY <1>4, <2>1 DEF UpTo
  <2>3. CASE t.mods = <<>>
    BY <2>2, <2>3 DEF ValueOf
  <2>4. CASE t.mods # <<>>
    <3> DEFINE m == Len(Elem(t).mods)
    <3>0. Elem(t) \in Ty /\ m = n - 1 /\ n \in Nat \ {0}
      BY <2>4, ElemShorter
    <3>1. Elem(t) \in Ty /\ m \in Nat /\ m <= n
      <4> HIDE DEF m, n
      <4> QED BY <3>0
    <3>2. UpTo(G(m), m, b, w) /\ F[Elem(t)] = G(m)[Elem(t)]
      BY <1>1, <1>4, <3>1
    <3>3. G(m)[Elem(t)] = G(n)[Elem(t)]
      <4>1. Len(Elem(t).mods) <= m /\ Len(Elem(t).mods) <= n
        BY <3>1
      <4> DEFINE g == G(m)
                 h == G(n)
      <4>2. UpTo(g, m, b, w) /\ UpTo(h, n, b, w) /\ m \in Nat /\ n \in Nat
        BY <2>1, <3>1, <3>2
      <4> HIDE DEF m, n, g, h
      <4> DEFINE x == Elem(t)
      <4>3. x \in Ty /\ HasAtMost(x, m) /\ HasAtMost(x, n)
        BY <3>1, <4>1 DEF HasAtMost
      <4> HIDE DEF x
      <4>4. g[x] = h[x]
        BY <4>2, <4>3, UpToAgree
      <4> QED BY <4>4 DEF g, h, x
    <3> QED BY <2>2, <3>2, <3>3
  <2> QED BY <2>3, <2>4
<1> QED BY <1>3, <1>5 DEF Values

-----------------------------------------------------------------------------
(* Sema's sizes are what the IR's recursion defines *)

\* All structs are done, and nothing is diagnosed.
Settled ==
  /\ TypeOK /\ LayoutInv /\ TableSound /\ DoneSound /\ errors = {}
  /\ \A s \in Struct : state[s] = "done"

Known(t) == IsArray(t) => t \in DOMAIN interned

SizeBase  == [b \in Base |-> SizeOf(Plain(b))]
AlignBase == [b \in Base |-> AlignOf(Plain(b))]
Times     == [n \in Nat |-> n]
Once      == [n \in Nat |-> 1]

SemaSizes(F)  == Values(F, SizeBase, Times)
SemaAligns(H) == Values(H, AlignBase, Once)

LEMMA Kinds ==
  ASSUME NEW t
  PROVE  /\ IsPointer(t) => ~IsArray(t) /\ ~IsStruct(t) /\ ~IsCore(t) /\ t.mods # <<>>
         /\ IsArray(t) => ~IsPointer(t) /\ ~IsStruct(t) /\ ~IsCore(t) /\ t.mods # <<>>
         /\ IsStruct(t) => ~IsCore(t) /\ ~IsPointer(t) /\ ~IsArray(t) /\ t.mods = <<>>
         /\ IsCore(t) => ~IsPointer(t) /\ ~IsArray(t) /\ ~IsStruct(t) /\ t.mods = <<>>
         /\ t.mods # <<>> => IsPointer(t) \/ IsArray(t)
  BY LayoutAssumption DEF IsPointer, IsArray, IsStruct, IsCore

LEMMA PlainOf ==
  ASSUME NEW t \in Ty, t.mods = <<>>
  PROVE  t = Plain(t.base) /\ t.base \in Base
  BY DEF Ty, Plain

LEMMA SemaHas ==
  ASSUME TypeOK
  PROVE  (\E F : SemaSizes(F)) /\ (\E H : SemaAligns(H))
<1>1. ASSUME NEW b \in Base PROVE SizeOf(Plain(b)) \in U32s /\ AlignOf(Plain(b)) \in U32s
  <2>1. Plain(b) \in Ty /\ ~IsArray(Plain(b))
    BY PlainType
  <2>2. SizeOf(Plain(b)) \in U32s /\ AlignOf(Plain(b)) \in Aligns
    BY <2>1, SizeOfType
  <2> QED BY <2>2 DEF Aligns, U32s
<1>2. SizeBase \in [Base -> U32s] /\ AlignBase \in [Base -> U32s]
  BY <1>1 DEF SizeBase, AlignBase
<1>3. Times \in [Nat -> Nat] /\ Once \in [Nat -> Nat]
  BY DEF Times, Once
<1>4. \E F : Values(F, SizeBase, Times)
  BY <1>2, <1>3, ValuesExist
<1>5. \E H : Values(H, AlignBase, Once)
  BY <1>2, <1>3, ValuesExist
<1> QED BY <1>4, <1>5 DEF SemaSizes, SemaAligns

LEMMA ValuesAre ==
  ASSUME NEW F, NEW H, SemaSizes(F), SemaAligns(H), NEW t \in Ty
  PROVE  /\ F[t] \in U32s /\ H[t] \in U32s
         /\ t.mods = <<>> => F[t] = SizeOf(t) /\ H[t] = AlignOf(t)
         /\ IsPointer(t) => F[t] = 8 /\ H[t] = 8
         /\ IsArray(t) => F[t] = U32(OuterMod(t) * F[Elem(t)]) /\ H[t] = H[Elem(t)]
<1>1. /\ F \in [Ty -> U32s] /\ F[t] = ValueOf(t, F[Elem(t)], SizeBase, Times)
      /\ H \in [Ty -> U32s] /\ H[t] = ValueOf(t, H[Elem(t)], AlignBase, Once)
  BY DEF SemaSizes, SemaAligns, Values
<1>2. CASE t.mods = <<>>
  <2>1. F[t] = SizeBase[t.base] /\ H[t] = AlignBase[t.base]
    BY <1>1, <1>2 DEF ValueOf
  <2>2. t = Plain(t.base) /\ t.base \in Base
    BY <1>2, PlainOf
  <2>3. F[t] = SizeOf(Plain(t.base)) /\ H[t] = AlignOf(Plain(t.base))
    BY <2>1, <2>2 DEF SizeBase, AlignBase
  <2> QED BY <1>1, <1>2, <2>2, <2>3, Kinds
<1>3. CASE IsPointer(t)
  BY <1>1, <1>3, Kinds DEF ValueOf
<1>4. CASE IsArray(t)
  <2>1. t.mods # <<>> /\ ~IsPointer(t)
    BY <1>4, Kinds
  <2>2. Elem(t) \in Ty /\ OuterMod(t) \in Nat
    BY <1>4, <2>1, ElemShorter DEF IsArray, Mod
  <2>3. F[t] = U32(Times[OuterMod(t)] * F[Elem(t)]) /\ H[t] = U32(Once[OuterMod(t)] * H[Elem(t)])
    BY <1>1, <2>1 DEF ValueOf
  <2>4. Times[OuterMod(t)] = OuterMod(t) /\ Once[OuterMod(t)] = 1
    BY <2>2 DEF Times, Once
  <2> DEFINE h == H[Elem(t)]
  <2>5. h \in U32s
    BY <1>1, <2>2
  <2> HIDE DEF h
  <2>6. U32(1 * h) = h
    BY <2>5, LayoutAssumption DEF U32, U32s
  <2> QED BY <1>1, <2>1, <2>3, <2>4, <2>6 DEF h
<1> QED BY <1>1, <1>2, <1>3, <1>4, Kinds

LEMMA ValuesKnown ==
  ASSUME Settled, NEW F, NEW H, SemaSizes(F), SemaAligns(H), NEW x \in Ty, Known(x)
  PROVE  F[x] = SizeOf(x) /\ H[x] = AlignOf(x)
<1> DEFINE T == {t \in Ty : Known(t) => F[t] = SizeOf(t) /\ H[t] = AlignOf(t)}
<1>1. ASSUME NEW t \in Ty, t.mods = <<>> \/ Elem(t) \in T PROVE t \in T
  <2>1. SUFFICES ASSUME Known(t) PROVE F[t] = SizeOf(t) /\ H[t] = AlignOf(t)
    OBVIOUS
  <2>2. CASE t.mods = <<>>
    BY <2>2, ValuesAre
  <2>3. CASE IsPointer(t)
    <3>1. SizeOf(t) = 8 /\ AlignOf(t) = 8
      BY <2>3, Kinds DEF SizeOf, AlignOf, PtrSize
    <3> QED BY <2>3, <3>1, ValuesAre
  <2>4. CASE IsArray(t)
    <3>1. t \in DOMAIN interned /\ t.mods # <<>>
      BY <2>1, <2>4, Kinds DEF Known
    <3>2. SizeOf(t) = interned[t].size /\ AlignOf(t) = interned[t].align
      BY <2>4, Kinds DEF SizeOf, AlignOf
    <3>3. /\ interned[t].size = U32(OuterMod(t) * SizeOf(Elem(t)))
          /\ interned[t].align = AlignOf(Elem(t))
      BY <3>1 DEF Settled, TableSound, InternedSizesCurrent
    <3>4. Known(Elem(t))
      BY <3>1 DEF Settled, TableSound, InternedOverFinal, Known
    <3>5. F[Elem(t)] = SizeOf(Elem(t)) /\ H[Elem(t)] = AlignOf(Elem(t))
      BY <1>1, <3>1, <3>4
    <3>6. F[t] = U32(OuterMod(t) * F[Elem(t)]) /\ H[t] = H[Elem(t)]
      BY <2>4, ValuesAre
    <3> QED BY <3>2, <3>3, <3>5, <3>6
  <2> QED BY <2>2, <2>3, <2>4, Kinds
<1>2. T \in SUBSET Ty
  OBVIOUS
<1>3. T = Ty
  <2> HIDE DEF T
  <2> QED BY <1>1, <1>2, AllTypes
<1> QED BY <1>3

\* The fields of a struct, with the values of their declared types.
LEMMA FieldsKnown ==
  ASSUME Settled, NEW F, NEW H, SemaSizes(F), SemaAligns(H), NEW s \in Struct
  PROVE  LET p == placed[s]
             sz == Sizes(p, interned, size)
             al == Alignings(p, interned, align)
         IN /\ Len(p) = Len(decl[s]) /\ Len(p) \in Nat
            /\ \A j \in 1 .. Len(p) :
                 /\ decl[s][j].type \in Ty
                 /\ sz[j] = F[decl[s][j].type] /\ al[j] = H[decl[s][j].type]
            /\ Strictest(Len(p), al, align[s])
            /\ \E o : Follow(p, sz, al, o) /\ size[s] = RoundUp(o, align[s])
<1> DEFINE p == placed[s]
           sz == Sizes(p, interned, size)
           al == Alignings(p, interned, align)
<1>1. StructGood(s, state, placed, interned, size, align) /\ state[s] = "done" /\ TypeOK
  BY DEF LayoutInv, Settled
<1>2. /\ Len(p) = Len(decl[s]) /\ Len(p) \in Nat /\ p \in Seq(PlacedPart)
      /\ AllFinal(p, state, interned)
  BY <1>1, LenProperties DEF TypeOK, Item, StructGood, PlacedPart
<1>3. PICK o \in U32s : Shape(p, decl[s], sz, al, align[s], o) /\ size[s] = RoundUp(o, align[s])
  BY <1>1 DEF StructGood, ShapeOf
<1>4. ASSUME NEW j \in 1 .. Len(p)
      PROVE  /\ decl[s][j].type \in Ty
             /\ sz[j] = F[decl[s][j].type] /\ al[j] = H[decl[s][j].type]
  <2> DEFINE t == p[j].type
  <2>1. t = decl[s][j].type
    BY <1>3 DEF Shape
  <2>2. t \in Ty
    <3>1. p[j] \in PlacedPart
      BY <1>2, ElementOfSeq
    <3> QED BY <3>1 DEF PlacedPart
  <2>3. Known(t)
    BY <1>2 DEF AllFinal, Final, Known
  <2>4. sz[j] = SizeOf(t) /\ al[j] = AlignOf(t)
    BY SizeIsIn DEF Sizes, Alignings
  <2> HIDE DEF t, sz, al
  <2>5. F[t] = SizeOf(t) /\ H[t] = AlignOf(t)
    BY <2>2, <2>3, ValuesKnown
  <2> QED BY <2>1, <2>2, <2>4, <2>5
<1> HIDE DEF sz, al, p
<1>5. Strictest(Len(p), al, align[s]) /\ Follow(p, sz, al, o)
  BY <1>3 DEF Shape
<1> QED BY <1>2, <1>3, <1>4, <1>5 DEF sz, al, p

-----------------------------------------------------------------------------
(* The recursion has one solution: the structs have no cycle *)

SameStep(f, g) ==
  \A t \in Ty :
    /\ ~IsStruct(t) /\ ~IsArray(t) => f[t] = g[t]
    /\ IsArray(t) => (f[Elem(t)] = g[Elem(t)] => f[t] = g[t])

SameFields(f, g, s) == \A ft \in FieldTypes(s) : f[ft] = g[ft]

\* A difference between f and g at t comes from the struct t is made of.
FromStruct(f, g, t) ==
  /\ t.base \in Struct /\ f[Plain(t.base)] # g[Plain(t.base)]
  /\ \A j \in 1 .. Len(t.mods) : t.mods[j] # Star

LEMMA DifferAtStruct ==
  ASSUME NEW f, NEW g, SameStep(f, g), NEW x \in Ty, f[x] # g[x]
  PROVE  FromStruct(f, g, x)
<1> DEFINE T == {t \in Ty : f[t] # g[t] => FromStruct(f, g, t)}
<1>1. ASSUME NEW t \in Ty, t.mods = <<>> \/ Elem(t) \in T PROVE t \in T
  <2>1. SUFFICES ASSUME f[t] # g[t] PROVE FromStruct(f, g, t)
    OBVIOUS
  <2>2. CASE IsStruct(t)
    <3>1. t = Plain(t.base) /\ t.base \in Struct /\ Len(t.mods) = 0
      BY <2>2, PlainOf, EmptySeq DEF IsStruct
    <3> QED BY <2>1, <3>1 DEF FromStruct
  <2>3. CASE IsArray(t)
    <3>1. f[Elem(t)] # g[Elem(t)]
      BY <2>1, <2>3 DEF SameStep
    <3>2. t.mods # <<>>
      BY <2>3, Kinds
    <3>3. FromStruct(f, g, Elem(t))
      BY <1>1, <3>1, <3>2
    <3>4. /\ Elem(t).base = t.base /\ Len(t.mods) \in Nat \ {0}
          /\ Len(Elem(t).mods) = Len(t.mods) - 1
          /\ \A j \in 1 .. Len(t.mods) - 1 : Elem(t).mods[j] = t.mods[j]
          /\ OuterMod(t) = t.mods[Len(t.mods)]
      BY <3>2, ElemShorter
    <3>5. ASSUME NEW j \in 1 .. Len(t.mods) PROVE t.mods[j] # Star
      <4>1. CASE j = Len(t.mods)
        BY <2>3, <3>4, <4>1 DEF IsArray
      <4>2. CASE j # Len(t.mods)
        <5>1. j \in 1 .. Len(t.mods) - 1
          BY <3>4, <4>2
        <5> QED BY <3>3, <3>4, <5>1 DEF FromStruct
      <4> QED BY <4>1, <4>2
    <3> QED BY <3>3, <3>4, <3>5 DEF FromStruct
  <2>4. IsStruct(t) \/ IsArray(t)
    BY <2>1 DEF SameStep
  <2> QED BY <2>2, <2>3, <2>4
<1>2. T \in SUBSET Ty
  OBVIOUS
<1>3. T = Ty
  <2> HIDE DEF T
  <2> QED BY <1>1, <1>2, AllTypes
<1> QED BY <1>3

LEMMA FieldTypesAre ==
  ASSUME TypeOK, NEW s \in Struct
  PROVE  /\ FieldTypes(s) \in SUBSET Ty
         /\ \A j \in 1 .. Len(decl[s]) : decl[s][j].type \in FieldTypes(s)
         /\ \A ft \in FieldTypes(s) : \E j \in 1 .. Len(decl[s]) : ft = decl[s][j].type
<1>1. decl[s] \in Seq(Part)
  BY DEF TypeOK, Item
<1>2. \A j \in 1 .. Len(decl[s]) : decl[s][j] \in Part
  BY <1>1, ElementOfSeq
<1>3. \A j \in 1 .. Len(decl[s]) : decl[s][j].type \in TypeTerm
  BY <1>2 DEF Part
<1>4. TypeTerm \in SUBSET Ty
  BY LayoutAssumption DEF Ty
<1> QED BY <1>3, <1>4 DEF FieldTypes

LEMMA NoDifference ==
  ASSUME Settled, NEW f, NEW g, SameStep(f, g),
         \A s \in Struct : SameFields(f, g, s) => f[Plain(s)] = g[Plain(s)]
  PROVE  \A t \in Ty : f[t] = g[t]
<1> DEFINE S == {s \in Struct : f[Plain(s)] # g[Plain(s)]}
<1>1. S = {}
  <2> SUFFICES ASSUME S # {} PROVE FALSE
    OBVIOUS
  <2>1. ASSUME NEW s \in S PROVE \E u \in S : <<s, u>> \in Eager
    <3>1. PICK ft \in FieldTypes(s) : f[ft] # g[ft]
      BY <2>1 DEF SameFields
    <3>2. ft \in Ty
      BY FieldTypesAre DEF Settled
    <3>3. FromStruct(f, g, ft)
      BY <3>1, <3>2, DifferAtStruct
    <3>4. ft.base \in S
      BY <3>3 DEF FromStruct
    <3>5. ft.mods = <<>> \/ ft.mods[1] # Star
      <4>1. ft.mods = <<>> \/ 1 \in 1 .. Len(ft.mods)
        BY <3>2, EmptySeq, LenProperties DEF Ty
      <4> QED BY <3>3, <4>1 DEF FromStruct
    <3>6. <<s, ft.base>> \in Eager
      BY <3>1, <3>4, <3>5 DEF Eager
    <3> QED BY <3>4, <3>6
  <2>2. S \in SUBSET Struct /\ \A s \in S : state[s] = "done"
    BY DEF Settled
  <2> HIDE DEF S
  <2>3. CyclicSet(S)
    BY <2>1 DEF CyclicSet
  <2>4. SelfErrors = {}
    BY NoErrors DEF Settled
  <2> QED BY <2>2, <2>3, <2>4 DEF Settled, DoneSound
<1> QED BY <1>1, DifferAtStruct DEF FromStruct

-----------------------------------------------------------------------------
(* Alignments *)

LargestOf(as) == CHOOSE a \in as : \A b \in as : b <= a

AlignFun(f) == f = [t \in Ty |-> AlignBy(t, f)]

LEMMA AlignOne ==
  ASSUME Settled, NEW f, NEW g, AlignFun(f), AlignFun(g)
  PROVE  \A t \in Ty : f[t] = g[t]
<1>1. \A t \in Ty : f[t] = AlignBy(t, f) /\ g[t] = AlignBy(t, g)
  BY DEF AlignFun
<1>2. SameStep(f, g)
  <2>1. ASSUME NEW t \in Ty, ~IsStruct(t), IsArray(t) => f[Elem(t)] = g[Elem(t)]
        PROVE  AlignBy(t, f) = AlignBy(t, g)
    BY <2>1, Kinds DEF AlignBy, LargestOf
  <2> QED BY <1>1, <2>1, Kinds DEF SameStep
<1>3. ASSUME NEW s \in Struct, SameFields(f, g, s) PROVE f[Plain(s)] = g[Plain(s)]
  <2>1. Plain(s) \in Ty /\ Plain(s).base = s /\ IsStruct(Plain(s))
    BY PlainType DEF Plain, Base
  <2>2. {f[ft] : ft \in FieldTypes(s)} = {g[ft] : ft \in FieldTypes(s)}
    BY <1>3 DEF SameFields
  <2>3. /\ AlignBy(Plain(s), f) = LargestOf({f[ft] : ft \in FieldTypes(s)} \cup {1})
        /\ AlignBy(Plain(s), g) = LargestOf({g[ft] : ft \in FieldTypes(s)} \cup {1})
    BY <2>1, Kinds DEF AlignBy, LargestOf
  <2> QED BY <1>1, <2>1, <2>2, <2>3
<1> QED BY <1>2, <1>3, NoDifference

LEMMA LargestIs ==
  ASSUME NEW as \in SUBSET Nat, NEW a \in as, \A b \in as : b <= a
  PROVE  LargestOf(as) = a
<1>1. /\ LargestOf(as) \in as /\ \A b \in as : b <= LargestOf(as)
  BY DEF LargestOf
<1> DEFINE l == LargestOf(as)
<1>2. l \in Nat /\ a \in Nat /\ a <= l /\ l <= a
  BY <1>1
<1> HIDE DEF l
<1>3. l = a
  BY <1>2
<1> QED BY <1>3 DEF l

LEMMA SemaAlignsSolve ==
  ASSUME Settled, NEW F, NEW H, SemaSizes(F), SemaAligns(H)
  PROVE  AlignFun(H)
<1>1. ASSUME NEW t \in Ty PROVE H[t] = AlignBy(t, H)
  <2>1. CASE IsPointer(t)
    BY <2>1, ValuesAre, Kinds DEF AlignBy, LargestOf
  <2>2. CASE IsArray(t)
    BY <2>2, ValuesAre, Kinds DEF AlignBy, LargestOf
  <2>3. CASE IsStruct(t)
    <3> DEFINE s == t.base
               as == {H[ft] : ft \in FieldTypes(s)} \cup {1}
    <3>1. s \in Struct /\ t.mods = <<>> /\ TypeOK
      BY <2>3 DEF IsStruct, Settled
    <3>2. H[t] = align[s] /\ align[s] \in Nat
      <4>1. H[t] = AlignOf(t)
        BY <3>1, ValuesAre
      <4>2. AlignOf(t) = align[s]
        BY <2>3, Kinds DEF AlignOf
      <4> QED BY <3>1, <4>1, <4>2 DEF TypeOK, Aligns
    <3>3. AlignBy(t, H) = LargestOf(as)
      BY <2>3, Kinds DEF AlignBy, LargestOf
    <3> HIDE DEF s
    <3> DEFINE p == placed[s]
               al == Alignings(p, interned, align)
               n == Len(p)
    <3>4. /\ n = Len(decl[s])
          /\ \A j \in 1 .. n : decl[s][j].type \in Ty /\ al[j] = H[decl[s][j].type]
          /\ Strictest(n, al, align[s])
      BY <3>1, FieldsKnown
    <3> HIDE DEF n, al
    <3>5. as \in SUBSET Nat
      <4>1. \A ft \in Ty : H[ft] \in Nat
        BY ValuesAre, LayoutAssumption DEF U32s
      <4>2. \A ft \in FieldTypes(s) : ft \in Ty
        BY <3>1, FieldTypesAre
      <4> QED BY <4>1, <4>2
    <3>6. align[s] \in as
      <4>1. CASE align[s] = 1
        BY <4>1
      <4>2. CASE \E j \in 1 .. n : al[j] = align[s]
        <5>1. PICK j \in 1 .. n : al[j] = align[s]
          BY <4>2
        <5>2. decl[s][j].type \in FieldTypes(s) /\ H[decl[s][j].type] = align[s]
          BY <3>1, <3>4, <5>1, FieldTypesAre
        <5> QED BY <5>2
      <4> QED BY <3>4, <4>1, <4>2 DEF Strictest
    <3>7. \A b \in as : b <= align[s]
      <4>1. ASSUME NEW ft \in FieldTypes(s) PROVE H[ft] <= align[s]
        <5>1. PICK j \in 1 .. n : ft = decl[s][j].type
          BY <3>1, <3>4, FieldTypesAre
        <5> QED BY <3>4, <5>1 DEF Strictest
      <4>2. 1 <= align[s]
        BY <3>1 DEF TypeOK, Aligns
      <4> QED BY <4>1, <4>2
    <3> HIDE DEF as
    <3> QED BY <3>2, <3>3, <3>5, <3>6, <3>7, LargestIs
  <2>4. CASE t.mods = <<>> /\ ~IsStruct(t)
    <3>1. H[t] = AlignOf(t)
      BY <2>4, ValuesAre
    <3> QED BY <2>4, <3>1, Kinds DEF AlignBy, LargestOf, AlignOf
  <2> QED BY <2>1, <2>2, <2>3, <2>4, Kinds
<1>2. H = [t \in Ty |-> H[t]]
  BY DEF SemaAligns, Values
<1> QED BY <1>1, <1>2 DEF AlignFun

LEMMA IrAlignIs ==
  ASSUME Settled, NEW F, NEW H, SemaSizes(F), SemaAligns(H)
  PROVE  \A t \in Ty : IrAlign[t] = H[t]
<1>1. IrAlign = CHOOSE f : AlignFun(f)
  BY DEF IrAlign, AlignFun
<1>2. AlignFun(H)
  BY SemaAlignsSolve
<1>3. AlignFun(IrAlign)
  BY <1>1, <1>2
<1> HIDE DEF IrAlign
<1> QED BY <1>2, <1>3, AlignOne

-----------------------------------------------------------------------------
(* Sizes *)

NextEnd(s, f, n, v) == U32(AlignUp32(v, IrAlign[decl[s][n].type]) + f[decl[s][n].type])
EndRec(e, s, f) == e = [n \in 0 .. Len(decl[s]) |-> IF n = 0 THEN 0 ELSE NextEnd(s, f, n, e[n - 1])]

LEMMA IrEndsIs ==
  ASSUME NEW s, NEW f
  PROVE  IrEnds(s, f) = CHOOSE e : EndRec(e, s, f)
  BY DEF IrEnds, EndRec, NextEnd

LEMMA EndsSame ==
  ASSUME TypeOK, NEW s \in Struct, NEW f, NEW g, SameFields(f, g, s)
  PROVE  IrEnds(s, f) = IrEnds(s, g)
<1>1. ASSUME NEW e PROVE EndRec(e, s, f) <=> EndRec(e, s, g)
  <2> DEFINE u == [n \in 0 .. Len(decl[s]) |-> IF n = 0 THEN 0 ELSE NextEnd(s, f, n, e[n - 1])]
             v == [n \in 0 .. Len(decl[s]) |-> IF n = 0 THEN 0 ELSE NextEnd(s, g, n, e[n - 1])]
  <2>1. ASSUME NEW n \in 0 .. Len(decl[s]) PROVE u[n] = v[n]
    <3>1. CASE n = 0
      BY <3>1
    <3>2. CASE n # 0
      <4>1. n \in 1 .. Len(decl[s])
        BY <3>2
      <4>2. f[decl[s][n].type] = g[decl[s][n].type]
        BY <4>1, FieldTypesAre DEF SameFields
      <4>3. NextEnd(s, f, n, e[n - 1]) = NextEnd(s, g, n, e[n - 1])
        BY <4>2 DEF NextEnd
      <4> QED BY <3>2, <4>3
    <3> QED BY <3>1, <3>2
  <2>2. /\ u = [n \in 0 .. Len(decl[s]) |-> u[n]] /\ v = [n \in 0 .. Len(decl[s]) |-> v[n]]
        /\ (EndRec(e, s, f) <=> e = u) /\ (EndRec(e, s, g) <=> e = v)
    BY DEF EndRec
  <2>3. u = v
    <3> HIDE DEF u, v
    <3> QED BY <2>1, <2>2
  <2> QED BY <2>2, <2>3
<1> QED BY <1>1, IrEndsIs

SizeFun(f) == f = [t \in Ty |-> SizeBy(t, f)]

LEMMA SizeOne ==
  ASSUME Settled, NEW f, NEW g, SizeFun(f), SizeFun(g)
  PROVE  \A t \in Ty : f[t] = g[t]
<1>1. \A t \in Ty : f[t] = SizeBy(t, f) /\ g[t] = SizeBy(t, g)
  BY DEF SizeFun
<1>2. SameStep(f, g)
  <2>1. ASSUME NEW t \in Ty, ~IsStruct(t), IsArray(t) => f[Elem(t)] = g[Elem(t)]
        PROVE  SizeBy(t, f) = SizeBy(t, g)
    BY <2>1, Kinds DEF SizeBy
  <2> QED BY <1>1, <2>1, Kinds DEF SameStep
<1>3. ASSUME NEW s \in Struct, SameFields(f, g, s) PROVE f[Plain(s)] = g[Plain(s)]
  <2>1. Plain(s) \in Ty /\ Plain(s).base = s /\ IsStruct(Plain(s))
    BY PlainType DEF Plain, Base
  <2>2. IrEnds(s, f) = IrEnds(s, g)
    BY <1>3, EndsSame DEF Settled
  <2>3. /\ SizeBy(Plain(s), f) = AlignUp32(IrEnds(s, f)[Len(decl[s])], IrAlign[Plain(s)])
        /\ SizeBy(Plain(s), g) = AlignUp32(IrEnds(s, g)[Len(decl[s])], IrAlign[Plain(s)])
    BY <2>1, Kinds DEF SizeBy
  <2> QED BY <1>1, <2>1, <2>2, <2>3
<1> QED BY <1>2, <1>3, NoDifference

\* With sema's sizes, the IR's fields end where sema's do.
LEMMA IrEndsAt ==
  ASSUME Settled, NEW F, NEW H, SemaSizes(F), SemaAligns(H), NEW s \in Struct
  PROVE  LET p == placed[s]
             sz == Sizes(p, interned, size)
             n == Len(p)
         IN n = Len(decl[s]) /\ \A j \in 0 .. n : IrEnds(s, F)[j] = EndAt(p, sz, j)
<1> DEFINE p == placed[s]
           sz == Sizes(p, interned, size)
           al == Alignings(p, interned, align)
           n == Len(p)
<1>1. /\ n = Len(decl[s]) /\ n \in Nat
      /\ \A j \in 1 .. n :
           /\ decl[s][j].type \in Ty
           /\ sz[j] = F[decl[s][j].type] /\ al[j] = H[decl[s][j].type]
      /\ \E o : Follow(p, sz, al, o)
  BY FieldsKnown
<1> HIDE DEF sz, al, p, n
<1>2. ASSUME NEW j \in 1 .. n PROVE EndAt(p, sz, j) = NextEnd(s, F, j, EndAt(p, sz, j - 1))
  <2> DEFINE ft == decl[s][j].type
  <2>1. IrAlign[ft] = al[j] /\ F[ft] = sz[j]
    BY <1>1, IrAlignIs
  <2>2. p[j].offset = RoundUp(EndAt(p, sz, j - 1), al[j])
    BY <1>1 DEF Follow, n
  <2>3. NextEnd(s, F, j, EndAt(p, sz, j - 1)) = U32(AlignUp32(EndAt(p, sz, j - 1), al[j]) + sz[j])
    BY <2>1 DEF NextEnd
  <2>4. AlignUp32(EndAt(p, sz, j - 1), al[j]) = RoundUp(EndAt(p, sz, j - 1), al[j])
    BY DEF AlignUp32, RoundUp
  <2>5. EndAt(p, sz, j) = U32(p[j].offset + sz[j])
    BY DEF EndAt
  <2> QED BY <2>2, <2>3, <2>4, <2>5
<1>3. EndAt(p, sz, 0) = 0
  BY DEF EndAt
<1> DEFINE e == [j \in 0 .. n |-> EndAt(p, sz, j)]
           r == [j \in 0 .. n |-> IF j = 0 THEN 0 ELSE NextEnd(s, F, j, e[j - 1])]
<1>4. ASSUME NEW j \in 0 .. n PROVE e[j] = r[j]
  <2>1. CASE j = 0
    BY <1>3, <2>1
  <2>2. CASE j # 0
    <3>1. j \in 1 .. n /\ j - 1 \in 0 .. n
      BY <1>1, <2>2
    <3>2. e[j - 1] = EndAt(p, sz, j - 1) /\ e[j] = EndAt(p, sz, j)
      BY <3>1
    <3> HIDE DEF e
    <3>3. r[j] = NextEnd(s, F, j, e[j - 1])
      BY <2>2
    <3> QED BY <1>2, <3>1, <3>2, <3>3
  <2> QED BY <2>1, <2>2
<1>5. EndRec(e, s, F)
  <2>1. e = [j \in 0 .. n |-> e[j]] /\ r = [j \in 0 .. n |-> r[j]]
    OBVIOUS
  <2>2. EndRec(e, s, F) <=> e = r
    BY <1>1 DEF EndRec
  <2> HIDE DEF e, r
  <2> QED BY <1>4, <2>1, <2>2
<1>6. \A j \in 0 .. n : e[j] = EndAt(p, sz, j)
  OBVIOUS
<1> HIDE DEF e
<1> DEFINE c == IrEnds(s, F)
<1>7. EndRec(c, s, F)
  BY <1>5, IrEndsIs
<1> HIDE DEF c
<1> DEFINE T == {j \in Nat : j <= n => c[j] = EndAt(p, sz, j)}
<1>8. 0 \in T
  <2>1. 0 \in 0 .. Len(decl[s])
    BY <1>1
  <2> QED BY <1>3, <1>7, <2>1 DEF EndRec
<1>9. ASSUME NEW j \in T PROVE j + 1 \in T
  <2>1. SUFFICES ASSUME j + 1 <= n PROVE c[j + 1] = EndAt(p, sz, j + 1)
    OBVIOUS
  <2>2. j \in Nat /\ j + 1 \in 1 .. n /\ j + 1 \in 0 .. Len(decl[s]) /\ j + 1 # 0 /\ (j + 1) - 1 = j
    BY <1>1, <2>1
  <2>3. c[j] = EndAt(p, sz, j)
    BY <1>1, <2>1, <2>2
  <2>4. c[j + 1] = NextEnd(s, F, j + 1, c[j])
    BY <1>7, <2>2 DEF EndRec
  <2>5. EndAt(p, sz, j + 1) = NextEnd(s, F, j + 1, EndAt(p, sz, j))
    BY <1>2, <2>2
  <2> QED BY <2>3, <2>4, <2>5
<1>10. T = Nat
  <2>1. T \in SUBSET Nat
    OBVIOUS
  <2> HIDE DEF T
  <2> QED BY <1>8, <1>9, <2>1, AllOfNat
<1>11. \A j \in 0 .. n : c[j] = EndAt(p, sz, j)
  BY <1>10
<1> QED BY <1>1, <1>11 DEF c, n, p, sz

LEMMA SemaSizesSolve ==
  ASSUME Settled, NEW F, NEW H, SemaSizes(F), SemaAligns(H)
  PROVE  SizeFun(F)
<1>1. ASSUME NEW t \in Ty PROVE F[t] = SizeBy(t, F)
  <2>1. CASE IsPointer(t)
    BY <2>1, ValuesAre, Kinds DEF SizeBy
  <2>2. CASE IsArray(t)
    BY <2>2, ValuesAre, Kinds DEF SizeBy
  <2>3. CASE IsStruct(t)
    <3> DEFINE s == t.base
               p == placed[s]
               sz == Sizes(p, interned, size)
               al == Alignings(p, interned, align)
               n == Len(p)
    <3>1. s \in Struct /\ t.mods = <<>>
      BY <2>3 DEF IsStruct
    <3>2. F[t] = size[s] /\ H[t] = align[s]
      <4>1. F[t] = SizeOf(t) /\ H[t] = AlignOf(t)
        BY <3>1, ValuesAre
      <4>2. SizeOf(t) = size[s] /\ AlignOf(t) = align[s]
        BY <2>3, Kinds DEF SizeOf, AlignOf
      <4> QED BY <4>1, <4>2
    <3>3. SizeBy(t, F) = AlignUp32(IrEnds(s, F)[Len(decl[s])], IrAlign[t])
      BY <2>3, Kinds DEF SizeBy
    <3> HIDE DEF s
    <3>4. PICK o : Follow(p, sz, al, o) /\ size[s] = RoundUp(o, align[s])
      BY <3>1, FieldsKnown
    <3>5. n = Len(decl[s]) /\ n \in Nat
      BY <3>1, FieldsKnown
    <3>6. \A j \in 0 .. n : IrEnds(s, F)[j] = EndAt(p, sz, j)
      BY <3>1, IrEndsAt
    <3>7. IrEnds(s, F)[n] = o
      BY <3>4, <3>5, <3>6 DEF Follow
    <3>8. IrAlign[t] = align[s]
      BY <3>2, IrAlignIs
    <3> QED BY <3>2, <3>3, <3>4, <3>5, <3>7, <3>8 DEF AlignUp32, RoundUp
  <2>4. CASE t.mods = <<>> /\ ~IsStruct(t)
    <3>1. F[t] = SizeOf(t)
      BY <2>4, ValuesAre
    <3> QED BY <2>4, <3>1, Kinds DEF SizeBy, SizeOf
  <2> QED BY <2>1, <2>2, <2>3, <2>4, Kinds
<1>2. F = [t \in Ty |-> F[t]]
  BY DEF SemaSizes, Values
<1> QED BY <1>1, <1>2 DEF SizeFun

LEMMA IrSizeIs ==
  ASSUME Settled, NEW F, NEW H, SemaSizes(F), SemaAligns(H)
  PROVE  \A t \in Ty : IrSize[t] = F[t]
<1>1. IrSize = CHOOSE f : SizeFun(f)
  BY DEF IrSize, SizeFun
<1>2. SizeFun(F)
  BY SemaSizesSolve
<1>3. SizeFun(IrSize)
  BY <1>1, <1>2
<1> HIDE DEF IrSize
<1> QED BY <1>2, <1>3, SizeOne

LEMMA SettledAgrees == Settled => IrAgrees
<1> SUFFICES ASSUME Settled PROVE IrAgrees
  OBVIOUS
<1>1. TypeOK
  BY DEF Settled
<1>2. PICK F : SemaSizes(F)
  BY <1>1, SemaHas
<1>3. PICK H : SemaAligns(H)
  BY <1>1, SemaHas
<1>4. ASSUME NEW t \in Ty, Known(t) PROVE IrSize[t] = SizeOf(t) /\ IrAlign[t] = AlignOf(t)
  BY <1>2, <1>3, <1>4, IrSizeIs, IrAlignIs, ValuesKnown
<1>5. ASSUME NEW t \in DOMAIN interned
      PROVE  interned[t].size = IrSize[t] /\ interned[t].align = IrAlign[t]
  <2>1. t \in Ty /\ IsArray(t) /\ Known(t)
    BY <1>1 DEF TypeOK, Known
  <2>2. SizeOf(t) = interned[t].size /\ AlignOf(t) = interned[t].align
    BY <2>1, Kinds DEF SizeOf, AlignOf
  <2> QED BY <1>4, <2>1, <2>2
<1>6. ASSUME NEW s \in Struct
      PROVE  size[s] = IrSize[Plain(s)] /\ align[s] = IrAlign[Plain(s)]
  <2>1. Plain(s) \in Ty /\ Plain(s).base = s /\ IsStruct(Plain(s))
    BY PlainType DEF Plain, Base
  <2>2. SizeOf(Plain(s)) = size[s] /\ AlignOf(Plain(s)) = align[s]
    BY <2>1, Kinds DEF SizeOf, AlignOf
  <2>3. Known(Plain(s))
    BY <2>1, Kinds DEF Known
  <2> QED BY <1>4, <2>1, <2>2, <2>3
<1>7. ASSUME NEW s \in Struct, NEW j \in 1 .. Len(placed[s])
      PROVE  placed[s][j].offset
               = AlignUp32(IrEnds(s, IrSize)[j - 1], IrAlign[decl[s][j].type])
  <2> DEFINE p == placed[s]
             sz == Sizes(p, interned, size)
             al == Alignings(p, interned, align)
             n == Len(p)
  <2>1. /\ n = Len(decl[s]) /\ n \in Nat
        /\ decl[s][j].type \in Ty /\ al[j] = H[decl[s][j].type]
        /\ \E o : Follow(p, sz, al, o)
    BY <1>2, <1>3, FieldsKnown
  <2>2. \A i \in 0 .. n : IrEnds(s, F)[i] = EndAt(p, sz, i)
    BY <1>2, <1>3, IrEndsAt
  <2>3. SameFields(IrSize, F, s)
    BY <1>1, <1>2, <1>3, IrSizeIs, FieldTypesAre DEF SameFields
  <2>4. IrEnds(s, IrSize) = IrEnds(s, F)
    BY <1>1, <2>3, EndsSame
  <2>5. IrAlign[decl[s][j].type] = al[j]
    BY <1>2, <1>3, <2>1, IrAlignIs
  <2>6. p[j].offset = RoundUp(EndAt(p, sz, j - 1), al[j])
    BY <2>1 DEF Follow
  <2>7. j - 1 \in 0 .. n
    BY <2>1
  <2> HIDE DEF sz, al
  <2> QED BY <2>2, <2>4, <2>5, <2>6, <2>7 DEF AlignUp32, RoundUp
<1> QED BY <1>5, <1>6, <1>7 DEF IrAgrees

(***************************************************************************)
(* Sema and the IR lay out every accepted program alike: what              *)
(* ir_type_size and ir_type_align compute from the declared types is what  *)
(* sema has recorded, wrap-around included (sema.c:241-304,                *)
(* ir.c:105-145).                                                          *)
(***************************************************************************)
THEOREM IrAgreesWithSema == Spec => []IrAgrees
<1>1. TypeOK /\ StackSound /\ CycleInv /\ LayoutInv /\ TableSound => IrAgrees
  <2> SUFFICES ASSUME TypeOK, StackSound, CycleInv, LayoutInv, TableSound, Accepted
               PROVE  IrAgrees
    BY DEF IrAgrees
  <2>1. Len(pending) = 0 /\ Len(stack) = 0 /\ errors = {}
    BY EmptySeq DEF Accepted, Finished
  <2>2. SelfErrors = {}
    BY <2>1, NoErrors
  <2>3. \A s \in Struct : state[s] = "done"
    BY <2>1, <2>2 DEF StackSound, CycleInv, AllReached, TypeOK
  <2>4. Settled
    BY <2>1, <2>3 DEF Settled, CycleInv
  <2> QED BY <2>4, SettledAgrees
<1> QED BY <1>1, TypeCorrect, StackIsSound, CycleAlways, LayoutAlways, TableAlwaysSound, PTL
=============================================================================
