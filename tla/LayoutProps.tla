---------------------------- MODULE LayoutProps -----------------------------
(***************************************************************************)
(* What pass 3 promises about the program it has laid out.                 *)
(***************************************************************************)
EXTENDS Layout

U32s   == 0 .. MaxU32
Aligns == 1 .. MaxU32

Frame ==
  [item : Item, i : Nat \ {0}, k : Nat \cup {Unresolved}, ty : Ty, offset : U32s, align : Aligns]

\* The variables hold what sema.c's Ty, FieldSym and Diag hold, and a frame only
\* names array types that are in the table.
TypeOK ==
  /\ decl \in [Item -> Seq(Part)]
  /\ pending \in Seq(Item)
  /\ state \in [Struct -> {"unstarted", "in_progress", "done"}]
  /\ size \in [Struct -> U32s] /\ align \in [Struct -> Aligns]
  /\ placed \in [Item -> Seq([type : Ty, offset : U32s])]
  /\ \A t \in DOMAIN interned :
       t \in Ty /\ IsArray(t) /\ interned[t] \in [size : U32s, align : Aligns]
  /\ stack \in Seq(Frame)
  /\ \A d \in 1 .. Len(stack) :
       /\ IsArray(stack[d].ty) => stack[d].ty \in DOMAIN interned
       /\ AtPart(stack[d]) => stack[d].k <= Len(Declared(stack[d]).mods)

-----------------------------------------------------------------------------
(* The recursion *)

\* No struct is being laid out twice at once, and a struct in progress is on
\* the stack: layout_struct recurses at most once per struct (sema.c:241-264).
StackSound ==
  /\ \A d, e \in 1 .. Len(stack) : stack[d].item = stack[e].item => d = e
  /\ \A s \in Struct :
       /\ state[s] = "in_progress" => \E d \in 1 .. Len(stack) : stack[d].item = s
       /\ state[s] = "unstarted" => \A d \in 1 .. Len(stack) : stack[d].item # s

\* Pass 3 ends: a cycle of structs is met with a diagnostic, not with endless
\* recursion (sema.c:255-259).
Terminates == <>Finished

-----------------------------------------------------------------------------
(* Cycles *)

Cyclic(E) ==
  \E S \in (SUBSET Struct) \ {{}} : \A s \in S : \E t \in S : <<s, t>> \in E

FieldTypes(s) == {decl[s][j].type : j \in 1 .. Len(decl[s])}

\* s holds a t by value: directly, or in an array, through no pointer.
ByValue ==
  {e \in Struct \X Struct :
     \E ft \in FieldTypes(e[1]) :
       ft.base = e[2] /\ \A j \in 1 .. Len(ft.mods) : ft.mods[j] # Star}

\* Laying out s lays out t: as above, or behind a pointer to an array of t.
Eager ==
  {e \in Struct \X Struct :
     \E ft \in FieldTypes(e[1]) :
       ft.base = e[2] /\ (ft.mods = <<>> \/ ft.mods[1] # Star)}

SelfErrors == {e \in errors : e.kind = "contains itself"}

\* The compiler rejects every program in which a struct contains itself by
\* value, at whatever length of cycle and wherever the walk enters it, and
\* blames no program whose structs can be laid out one after the other
\* (sema.c:241-304).
CyclesRejected == Finished => ((SelfErrors # {}) <=> Cyclic(Eager))

\* Recursion through a pointer keeps working: "contains itself" is said only
\* of a struct that does contain itself by value (sema.c:213-214).
PointersBreakCycles == Finished => (SelfErrors # {} => Cyclic(ByValue))

-----------------------------------------------------------------------------
(* Sizes *)

ExactUp(n, a) == ((n + a - 1) \div a) * a

\* Where field j of s ends, in unbounded arithmetic.
ExactEnd(s) ==
  LET end[j \in 0 .. Len(placed[s])] ==
        IF j = 0 THEN 0
        ELSE ExactUp(end[j - 1], AlignOf(placed[s][j].type)) + SizeOf(placed[s][j].type)
  IN end

Fits(s) == ExactUp(ExactEnd(s)[Len(placed[s])], align[s]) <= MaxU32

Accepted == Finished /\ errors = {}

\* The layout GRAMMAR.md guarantees, from the sizes the types have in the end:
\* declaration order, each field at the first multiple of its alignment after
\* the one before it, the struct padded to its strictest field.
IsCLayout(s) ==
  LET p == placed[s]
      end == ExactEnd(s)
  IN /\ Len(p) = Len(decl[s])
     /\ \A j \in 1 .. Len(p) :
          /\ p[j].type = decl[s][j].type
          /\ p[j].offset = ExactUp(end[j - 1], AlignOf(p[j].type))
          /\ AlignOf(p[j].type) <= align[s]
     /\ align[s] = 1 \/ \E j \in 1 .. Len(p) : AlignOf(p[j].type) = align[s]
     /\ size[s] = ExactUp(end[Len(p)], align[s])

\* Every accepted struct that fits in 32 bits has that layout, whatever order
\* the declarations came in and however they refer to one another.  One that
\* does not fit wraps without a diagnostic: only arrays are checked
\* (sema.c:232-235, 293).
LayoutIsC == Accepted => \A s \in Struct : Fits(s) => IsCLayout(s)

\* The size an array type was interned with is still its element's size times
\* its length, at every moment: nothing interned an array of a struct whose
\* layout was not final (sema.c:217-221, types.c:117-134).
InternedSizesCurrent ==
  errors = {} =>
    \A t \in DOMAIN interned :
      /\ interned[t].size = U32(OuterMod(t) * SizeOf(Elem(t)))
      /\ interned[t].align = AlignOf(Elem(t))

\* Layout is final: once a struct is done its size, its alignment and its
\* fields never change (sema.c:249-251).  Only a struct that contains itself
\* is done before its own call ends.
DoneIsFinal ==
  [][errors = {} =>
       \A s \in Struct : state[s] = "done" =>
         /\ state'[s] = "done" /\ size'[s] = size[s] /\ align'[s] = align[s]
         /\ placed'[s] = placed[s]]_vars
=============================================================================
