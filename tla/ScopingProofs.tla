--------------------------- MODULE ScopingProofs ---------------------------
(***************************************************************************)
(* The two walks agree, for every program: without the odd forms, each     *)
(* name lowering looks up means the declaration sema found for it; no two  *)
(* slots of a function have one name that a program does not spell like a  *)
(* made-up one; and each walk's vector and marks     *)
(* implement lexical scoping.                                              *)
(*                                                                         *)
(* What sema saw while it walked is gone when lowering comes.  The proof   *)
(* remembers it: a history H of the walk has one moment for every element  *)
(* of text and one more, and lowering passes through the same moments.     *)
(***************************************************************************)
EXTENDS Scoping, FiniteSetTheorems, SequenceTheorems, WellFoundedInduction, TLAPS

Ops == {"fn", "open", "close", "let", "use", "address", "call", "logic", "match", "end_match",
        "arm", "end_arm"}
Opens     == {"fn", "block", "match", "arm", "arm_done"}
LocalDecl == {d \in Decl : d.kind \in {"param", "local"}}
Elements  == [op : Ops, names : Seq(Name), sems : Seq(Decl)]

\* A moment of the walk: in a function or not, what is visible, and the marks
\* lowering has there, which differ from sema's.
Moments == [inside : BOOLEAN, syms : Seq(LocalDecl), lm : Seq(Nat)]

\* scope_find in a vector, then the globals.
Find(ds, n) ==
  IF Hits(ds, n, 1) # {} THEN ds[Innermost(Hits(ds, n, 1))] ELSE Global(n)

\* What the i-th element of the text, e, does to the vector and to lowering's marks.
Moves(a, e, i, b) ==
  /\ e.op # "fn" => a.inside
  /\ e.op = "fn" =>
       b.syms = [j \in DOMAIN e.names |-> Local("param", e.names[j], i)] /\ b.lm = <<Len(e.names)>>
  /\ e.op = "let" =>
       b.syms = Append(a.syms, Local("local", Head(e.names), i)) /\ b.lm = a.lm
  /\ e.op = "close" /\ b.inside => b.syms = SubSeq(a.syms, 1, TopOf(a.lm)) /\ b.lm = Cut(a.lm)
  /\ e.op \in {"open", "arm"} => b.syms = a.syms /\ b.lm = Append(a.lm, Len(a.syms))
  /\ e.op = "end_arm" => b.syms = a.syms /\ TopOf(a.lm) = Len(a.syms) /\ b.lm = Cut(a.lm)
  /\ e.op \in {"use", "address", "call", "logic", "match", "end_match"} =>
       b.syms = a.syms /\ b.lm = a.lm

\* What sema found for the names of e.
Means(a, e) ==
  /\ e.op \in {"fn", "open", "close", "logic", "match", "end_match", "end_arm"} => e.sems = <<>>
  /\ e.op = "fn" => ~HasDuplicate(e.names)
  /\ e.op \in {"use", "address"} =>
       /\ e.names[1] \in Name /\ e.sems = <<Find(a.syms, e.names[1])>>
       /\ IsValue(e.sems[1]) /\ (e.op = "address" => e.sems[1].kind # "enum")
  /\ e.op = "call" => GlobalKind[e.names[1]] = "fn" /\ e.sems = <<Global(e.names[1])>>
  /\ e.op = "arm" => \A j \in DOMAIN e.sems :
       /\ e.sems[j] = Global(e.names[j]) /\ GlobalKind[e.names[j]] = "enum"
       /\ Hits(a.syms, e.names[j], 1) = {}
  /\ e.op = "let" => Hits(a.syms, Head(e.names), TopOf(a.lm) + 1) = {}
  /\ e.op = "let" => \A j \in DOMAIN e.sems :
       /\ e.names[j + 1] \in Name /\ e.sems[j] = Find(a.syms, e.names[j + 1])
       /\ IsValue(e.sems[j])

History(t, H) ==
  /\ H \in Seq(Moments) /\ Len(H) = Len(t) + 1 /\ ~H[1].inside
  /\ \A i \in 1 .. Len(t) : Moves(H[i], t[i], i, H[i + 1]) /\ Means(H[i], t[i])

(***************************************************************************)
(* The constructs sema is inside of, each between two frames: how long the *)
(* vector and which the marks were when it opened, and when the one within *)
(* it opened, or are now.                                                  *)
(***************************************************************************)
Frame == [g : Nat, marks : Seq(Nat), lm : Seq(Nat)]

FrameOf(g, m, l) == [g |-> g, marks |-> m, lm |-> l]
Outside == FrameOf(0, <<>>, <<>>)

Within(o, f, c) ==
  /\ f.g <= c.g
  /\ o = "fn" => Len(c.marks) = 2 /\ c.marks[1] = 0 /\ c.lm = <<c.marks[2]>>
  /\ o = "block" => c.marks = Append(f.marks, f.g) /\ c.lm = Append(f.lm, f.g)
  /\ o \in {"arm", "arm_done"} =>
       c.g = f.g /\ c.marks = f.marks /\ c.lm = Append(f.lm, f.g)
  /\ o = "match" => c = f

Chain(os, F) ==
  /\ os \in Seq(Opens) /\ F \in Seq(Frame)
  /\ Len(F) = Len(os) + 1 /\ F[1] = Outside
  /\ \A k \in 1 .. Len(os) : Within(os[k], F[k], F[k + 1]) /\ (os[k] = "fn" <=> k = 1)

Tracks(t, os, s, m) ==
  \E H, F : /\ History(t, H) /\ Chain(os, F)
            /\ H[Len(t) + 1].inside = (os # <<>>) /\ H[Len(t) + 1].syms = s
            /\ F[Len(os) + 1] = FrameOf(Len(s), m, H[Len(t) + 1].lm)

-----------------------------------------------------------------------------
(* Slot names *)

\* A set of numbers that is not empty has a least one.
LEMMA LeastOf ==
  ASSUME NEW T \in SUBSET Nat, T # {}
  PROVE  \E k \in T : \A j \in T : k <= j
<1>1. PICK x \in T : \A y \in T : ~ (<<y, x>> \in OpToRel(<, Nat))
  BY NatLessThanWellFounded, WFMin, Zenon
<1>2. ASSUME NEW y \in T, y < x PROVE <<y, x>> \in OpToRel(<, Nat)
  BY <1>2 DEF OpToRel
<1>3. \A y \in T : ~(y < x)
  BY <1>1, <1>2
<1>4. \A y \in T : y \in Nat
  OBVIOUS
<1> QED BY <1>3, <1>4

LEMMA CountUpTo ==
  ASSUME NEW n \in Nat
  PROVE  /\ IsFiniteSet(0 .. n) /\ Cardinality(0 .. n) = n + 1
         /\ IsFiniteSet(1 .. n) /\ Cardinality(1 .. n) = n
<1>1. IsFiniteSet(0 .. n) /\ Cardinality(0 .. n) = n + 1
  BY FS_Interval
<1>2. /\ IsFiniteSet(1 .. n)
      /\ Cardinality(1 .. n) = IF 1 > n THEN 0 ELSE n - 1 + 1
  BY FS_Interval
<1> QED BY <1>1, <1>2

\* One of the first Len(taken) + 1 suffixes is free.
LEMMA SuffixFree ==
  ASSUME NEW n, NEW addr, NEW taken, Len(taken) \in Nat, DOMAIN taken = 1 .. Len(taken)
  PROVE  \E k \in 0 .. Len(taken) : \A i \in DOMAIN taken : taken[i] # Slot(n, addr, k)
<1> DEFINE K == 0 .. Len(taken)
<1> SUFFICES ASSUME \A k \in K : \E i \in DOMAIN taken : taken[i] = Slot(n, addr, k)
             PROVE  FALSE
  OBVIOUS
<1> DEFINE f == [k \in K |-> CHOOSE i \in DOMAIN taken : taken[i] = Slot(n, addr, k)]
<1>1. \A k \in K : f[k] \in DOMAIN taken /\ taken[f[k]] = Slot(n, addr, k)
  OBVIOUS
<1>2. f \in [K -> DOMAIN taken]
  BY <1>1
<1>3. /\ IsFiniteSet(K) /\ Cardinality(K) = Len(taken) + 1
      /\ IsFiniteSet(DOMAIN taken) /\ Cardinality(DOMAIN taken) = Len(taken)
  BY CountUpTo
<1>4. PICK j, k \in K : j # k /\ f[j] = f[k]
  <2> HIDE DEF K, f
  <2> QED BY <1>2, <1>3, FS_PigeonHole
<1> QED BY <1>1, <1>4 DEF Slot

LEMMA NameIsNew ==
  ASSUME NEW n, NEW addr, NEW taken, Len(taken) \in Nat, DOMAIN taken = 1 .. Len(taken)
  PROVE  \A i \in DOMAIN taken : taken[i] # UniqueName(n, addr, taken)
<1> DEFINE Free == {k \in 0 .. Len(taken) : \A i \in DOMAIN taken : taken[i] # Slot(n, addr, k)}
<1>1. PICK k \in Free : \A j \in Free : k <= j
  <2>1. Free \in SUBSET Nat /\ Free # {}
    <3>1. PICK k \in 0 .. Len(taken) : \A i \in DOMAIN taken : taken[i] # Slot(n, addr, k)
      BY SuffixFree
    <3>2. k \in Free
      BY <3>1
    <3>3. \A j \in Free : j \in Nat
      OBVIOUS
    <3> QED BY <3>2, <3>3
  <2> HIDE DEF Free
  <2> QED BY <2>1, LeastOf
<1>2. /\ k \in 0 .. Len(taken) /\ \A i \in DOMAIN taken : taken[i] # Slot(n, addr, k)
      /\ \A j \in 0 .. (k - 1) : \E i \in DOMAIN taken : taken[i] = Slot(n, addr, j)
  BY <1>1
<1> QED BY <1>2, Zenon DEF UniqueName, Slot

-----------------------------------------------------------------------------
(* Look-ups *)

LEMMA HitsBounded ==
  ASSUME NEW ds, Len(ds) \in Nat, NEW n, NEW i \in Hits(ds, n, 1)
  PROVE  i \in 1 .. Len(ds)
BY DEF Hits

\* A search that finds something ends at a place of the vector.
LEMMA InnermostIsHit ==
  ASSUME NEW ds, Len(ds) \in Nat, NEW n, Hits(ds, n, 1) # {}
  PROVE  Innermost(Hits(ds, n, 1)) \in 1 .. Len(ds)
<1> DEFINE S == Hits(ds, n, 1)
           T == {Len(ds) - i : i \in S}
<1>1. \A i \in S : i \in Nat /\ i <= Len(ds)
  BY HitsBounded
<1>2. T \in SUBSET Nat /\ T # {}
  BY <1>1
<1>3. PICK k \in T : \A j \in T : k <= j
  <2> HIDE DEF T
  <2> QED BY <1>2, LeastOf
<1>4. PICK i \in S : k = Len(ds) - i
  BY <1>3
<1>5. \A j \in S : j <= i
  <2>1. ASSUME NEW j \in S PROVE Len(ds) - i <= Len(ds) - j
    BY <1>3, <1>4
  <2> QED BY <1>1, <2>1
<1>6. Innermost(S) \in S
  <2> HIDE DEF S
  <2> QED BY <1>4, <1>5 DEF Innermost
<1> QED BY <1>6, HitsBounded

LEMMA GlobalIsDecl ==
  ASSUME NEW n \in Name
  PROVE  Global(n) \in Decl /\ Global(n).kind = GlobalKind[n]
BY ScopingAssumption DEF Global, Decl

LEMMA FindIsDecl ==
  ASSUME NEW ds \in Seq(LocalDecl), NEW n \in Name
  PROVE  /\ Find(ds, n) \in Decl
         /\ Hits(ds, n, 1) # {} => Find(ds, n).kind \in {"param", "local"}
<1>1. CASE Hits(ds, n, 1) = {}
  BY <1>1, GlobalIsDecl DEF Find
<1>2. CASE Hits(ds, n, 1) # {}
  <2>1. Innermost(Hits(ds, n, 1)) \in 1 .. Len(ds)
    BY <1>2, InnermostIsHit
  <2>2. ds[Innermost(Hits(ds, n, 1))] \in LocalDecl
    BY <2>1
  <2> QED BY <1>2, <2>2 DEF Find, LocalDecl
<1> QED BY <1>1, <1>2

-----------------------------------------------------------------------------
(* Prefixes *)

LEMMA Prefix ==
  ASSUME NEW S, NEW s \in Seq(S), NEW n \in 0 .. Len(s)
  PROVE  /\ SubSeq(s, 1, n) \in Seq(S) /\ Len(SubSeq(s, 1, n)) = n
         /\ \A k \in 1 .. n : SubSeq(s, 1, n)[k] = s[k]
<1>1. \A i \in 1 .. n : s[i] \in S
  OBVIOUS
<1>2. /\ SubSeq(s, 1, n) \in Seq(S)
      /\ Len(SubSeq(s, 1, n)) = IF 1 <= n THEN n - 1 + 1 ELSE 0
      /\ \A i \in 1 .. n - 1 + 1 : SubSeq(s, 1, n)[i] = s[1 + i - 1]
  <2>1. 1 \in Int /\ n \in Int
    OBVIOUS
  <2> QED BY <1>1, <2>1, SubSeqProperties
<1> QED BY <1>2

LEMMA CutShortens ==
  ASSUME NEW S, NEW s \in Seq(S), s # <<>>
  PROVE  /\ Len(s) \in Nat \ {0} /\ Cut(s) \in Seq(S) /\ Len(Cut(s)) = Len(s) - 1
         /\ \A k \in 1 .. Len(s) - 1 : Cut(s)[k] = s[k]
         /\ TopOf(s) = s[Len(s)] /\ s[Len(s)] \in S
         /\ Cut(s) = <<>> <=> Len(s) = 1
<1>1. Len(s) \in Nat \ {0} /\ Len(s) - 1 \in 0 .. Len(s)
  OBVIOUS
<1>2. /\ Cut(s) \in Seq(S) /\ Len(Cut(s)) = Len(s) - 1
      /\ \A k \in 1 .. Len(s) - 1 : Cut(s)[k] = s[k]
  BY <1>1, Prefix DEF Cut
<1>3. Cut(s) = <<>> <=> Len(Cut(s)) = 0
  BY <1>2
<1> QED BY <1>1, <1>2, <1>3 DEF TopOf

LEMMA Whole ==
  ASSUME NEW S, NEW s \in Seq(S)
  PROVE  SubSeq(s, 1, Len(s)) = s
<1>1. /\ SubSeq(s, 1, Len(s)) \in Seq(S) /\ Len(SubSeq(s, 1, Len(s))) = Len(s)
      /\ \A k \in 1 .. Len(s) : SubSeq(s, 1, Len(s))[k] = s[k]
  <2>1. Len(s) \in 0 .. Len(s)
    OBVIOUS
  <2> QED BY <2>1, Prefix
<1> QED BY <1>1, SeqEqual

LEMMA AppendPop ==
  ASSUME NEW S, NEW s \in Seq(S), NEW x \in S
  PROVE  TopOf(Append(s, x)) = x /\ Cut(Append(s, x)) = s
<1>1. /\ Append(s, x) \in Seq(S) /\ Len(Append(s, x)) = Len(s) + 1 /\ Append(s, x) # <<>>
      /\ Append(s, x)[Len(s) + 1] = x
      /\ \A k \in 1 .. Len(s) : Append(s, x)[k] = s[k]
  OBVIOUS
<1> DEFINE p == Append(s, x)
<1> HIDE DEF p
<1>2. /\ Cut(p) \in Seq(S) /\ Len(Cut(p)) = Len(s) /\ TopOf(p) = x
      /\ \A k \in 1 .. Len(s) : Cut(p)[k] = s[k]
  <2>1. /\ p \in Seq(S) /\ Len(p) = Len(s) + 1 /\ p # <<>> /\ p[Len(s) + 1] = x
        /\ \A k \in 1 .. Len(s) : p[k] = s[k]
    BY <1>1 DEF p
  <2>2. /\ Cut(p) \in Seq(S) /\ Len(Cut(p)) = Len(p) - 1 /\ TopOf(p) = p[Len(p)]
        /\ \A k \in 1 .. Len(p) - 1 : Cut(p)[k] = p[k]
    BY <2>1, CutShortens
  <2> QED BY <2>1, <2>2
<1>3. Cut(p) = s
  BY <1>2, SeqEqual
<1> QED BY <1>2, <1>3 DEF p

-----------------------------------------------------------------------------
(* The history grows by a moment, the chain by a frame or loses one *)

OneMore(t, e, H, b) ==
  /\ History(Append(t, e), Append(H, b))
  /\ Append(t, e) \in Seq(Elements)
  /\ Append(H, b)[Len(Append(t, e)) + 1] = b

LEMMA HistoryGrows ==
  ASSUME NEW t \in Seq(Elements), NEW H, History(t, H), NEW e \in Elements, NEW b \in Moments,
         Moves(H[Len(t) + 1], e, Len(t) + 1, b), Means(H[Len(t) + 1], e)
  PROVE  OneMore(t, e, H, b)
<1>1. H \in Seq(Moments) /\ Len(H) = Len(t) + 1 /\ Len(t) \in Nat
  BY DEF History
<1> DEFINE u == Append(t, e)
           G == Append(H, b)
<1>2. /\ u \in Seq(Elements) /\ Len(u) = Len(t) + 1 /\ u[Len(t) + 1] = e
      /\ \A i \in 1 .. Len(t) : u[i] = t[i]
  OBVIOUS
<1>3. /\ G \in Seq(Moments) /\ Len(G) = Len(t) + 2 /\ G[Len(t) + 2] = b
      /\ \A i \in 1 .. Len(t) + 1 : G[i] = H[i]
  BY <1>1
<1>4. ASSUME NEW i \in 1 .. Len(u)
      PROVE  Moves(G[i], u[i], i, G[i + 1]) /\ Means(G[i], u[i])
  <2>1. CASE i = Len(t) + 1
    <3>1. u[i] = e /\ G[i] = H[i] /\ G[i + 1] = b
      BY <1>1, <1>2, <1>3, <2>1
    <3> QED BY <2>1, <3>1
  <2>2. CASE i \in 1 .. Len(t)
    <3>1. u[i] = t[i] /\ G[i] = H[i] /\ G[i + 1] = H[i + 1]
      BY <1>1, <1>2, <1>3, <2>2
    <3>2. Moves(H[i], t[i], i, H[i + 1]) /\ Means(H[i], t[i])
      BY <2>2 DEF History
    <3> QED BY <3>1, <3>2
  <2> QED BY <1>1, <1>2, <2>1, <2>2
<1>5. G[Len(u) + 1] = b /\ ~G[1].inside
  <2>1. G[1] = H[1] /\ ~H[1].inside
    BY <1>1, <1>3 DEF History
  <2> QED BY <1>1, <1>2, <1>3, <2>1
<1> QED
  <2> HIDE DEF u, G
  <2>1. History(u, G) /\ u \in Seq(Elements) /\ G[Len(u) + 1] = b
    BY <1>1, <1>2, <1>3, <1>4, <1>5 DEF History
  <2> QED BY <2>1 DEF OneMore, u, G

\* A construct opens.
Inside(os, o, F, c) ==
  /\ Chain(Append(os, o), Append(F, c))
  /\ Append(F, c)[Len(Append(os, o)) + 1] = c
  /\ Append(os, o) # <<>>

LEMMA ChainPush ==
  ASSUME NEW os, NEW F, Chain(os, F), NEW o \in Opens, NEW c \in Frame,
         Within(o, F[Len(os) + 1], c), o = "fn" <=> os = <<>>
  PROVE  Inside(os, o, F, c)
<1>1. /\ os \in Seq(Opens) /\ F \in Seq(Frame) /\ Len(os) \in Nat
      /\ Len(F) = Len(os) + 1 /\ F[1] = Outside
  BY DEF Chain
<1> DEFINE p == Append(os, o)
           G == Append(F, c)
<1>2. /\ p \in Seq(Opens) /\ Len(p) = Len(os) + 1 /\ p[Len(os) + 1] = o
      /\ \A k \in 1 .. Len(os) : p[k] = os[k]
  BY <1>1
<1>3. /\ G \in Seq(Frame) /\ Len(G) = Len(os) + 2 /\ G[Len(os) + 2] = c
      /\ \A k \in 1 .. Len(os) + 1 : G[k] = F[k]
  BY <1>1
<1>4. os = <<>> <=> Len(os) = 0
  BY <1>1
<1>5. ASSUME NEW k \in 1 .. Len(p)
      PROVE  Within(p[k], G[k], G[k + 1]) /\ (p[k] = "fn" <=> k = 1)
  <2>1. CASE k = Len(os) + 1
    <3>1. p[k] = o /\ G[k] = F[k] /\ G[k + 1] = c
      BY <1>1, <1>2, <1>3, <2>1
    <3> QED BY <1>1, <1>4, <2>1, <3>1
  <2>2. CASE k \in 1 .. Len(os)
    <3>1. p[k] = os[k] /\ G[k] = F[k] /\ G[k + 1] = F[k + 1]
      BY <1>1, <1>2, <1>3, <2>2
    <3>2. Within(os[k], F[k], F[k + 1]) /\ (os[k] = "fn" <=> k = 1)
      BY <2>2 DEF Chain
    <3> QED BY <3>1, <3>2
  <2> QED BY <1>1, <1>2, <2>1, <2>2
<1>6. G[1] = Outside
  BY <1>1, <1>3
<1>7. G[Len(p) + 1] = c /\ p # <<>>
  BY <1>1, <1>2, <1>3
<1> QED
  <2> HIDE DEF p, G
  <2>1. Chain(p, G)
    BY <1>1, <1>2, <1>3, <1>5, <1>6 DEF Chain
  <2> QED BY <1>7, <2>1 DEF Inside, p, G

\* The innermost construct closes: what was, when it opened, is again.
LEMMA ChainPop ==
  ASSUME NEW os, NEW F, Chain(os, F), os # <<>>
  PROVE  /\ Len(os) \in Nat \ {0} /\ TopOf(os) \in Opens
         /\ F[Len(os)] \in Frame /\ F[Len(os) + 1] \in Frame
         /\ Within(TopOf(os), F[Len(os)], F[Len(os) + 1])
         /\ Chain(Cut(os), SubSeq(F, 1, Len(os)))
         /\ Len(Cut(os)) = Len(os) - 1
         /\ SubSeq(F, 1, Len(os))[Len(os)] = F[Len(os)]
         /\ Cut(os) = <<>> <=> TopOf(os) = "fn"
         /\ TopOf(os) = "fn" => F[Len(os)] = Outside
<1>1. /\ os \in Seq(Opens) /\ F \in Seq(Frame) /\ Len(os) \in Nat \ {0}
      /\ Len(F) = Len(os) + 1 /\ F[1] = Outside
      /\ \A k \in 1 .. Len(os) : Within(os[k], F[k], F[k + 1]) /\ (os[k] = "fn" <=> k = 1)
  BY DEF Chain
<1> DEFINE p == Cut(os)
           G == SubSeq(F, 1, Len(os))
<1>2. /\ p \in Seq(Opens) /\ Len(p) = Len(os) - 1 /\ TopOf(os) = os[Len(os)]
      /\ \A k \in 1 .. Len(os) - 1 : p[k] = os[k]
      /\ p = <<>> <=> Len(os) = 1
  BY <1>1, CutShortens
<1>3. /\ G \in Seq(Frame) /\ Len(G) = Len(os) /\ \A k \in 1 .. Len(os) : G[k] = F[k]
  <2>1. Len(os) \in 0 .. Len(F)
    BY <1>1
  <2> QED BY <1>1, <2>1, Prefix
<1>4. Chain(p, G)
  <2>1. ASSUME NEW k \in 1 .. Len(p)
        PROVE  Within(p[k], G[k], G[k + 1]) /\ (p[k] = "fn" <=> k = 1)
    <3>1. k \in 1 .. Len(os) /\ p[k] = os[k] /\ G[k] = F[k] /\ G[k + 1] = F[k + 1]
      BY <1>1, <1>2, <1>3
    <3> QED BY <1>1, <3>1
  <2>2. Len(G) = Len(p) + 1 /\ G[1] = Outside
    BY <1>1, <1>2, <1>3
  <2> HIDE DEF p, G
  <2> QED BY <1>2, <1>3, <2>1, <2>2 DEF Chain
<1>5. Len(os) \in 1 .. Len(os)
  BY <1>1
<1>6. /\ os[Len(os)] \in Opens /\ F[Len(os)] \in Frame /\ F[Len(os) + 1] \in Frame
  BY <1>1
<1>7. /\ Within(os[Len(os)], F[Len(os)], F[Len(os) + 1])
      /\ os[Len(os)] = "fn" <=> Len(os) = 1
  BY <1>1, <1>5
<1>8. G[Len(os)] = F[Len(os)]
  BY <1>3, <1>5
<1>9. TopOf(os) = "fn" => F[Len(os)] = Outside
  BY <1>1, <1>2, <1>7
<1>10. Cut(os) = <<>> <=> TopOf(os) = "fn"
  BY <1>2, <1>7
<1>11. Chain(Cut(os), SubSeq(F, 1, Len(os))) /\ SubSeq(F, 1, Len(os))[Len(os)] = F[Len(os)]
  BY <1>4, <1>8
<1>12. Len(os) \in Nat \ {0} /\ TopOf(os) \in Opens /\ Len(Cut(os)) = Len(os) - 1
  BY <1>1, <1>2, <1>6
<1> QED
  <2> HIDE DEF G
  <2> QED BY <1>2, <1>6, <1>7, <1>9, <1>10, <1>11, <1>12

\* A match arm has its one statement; nothing else changes.
LEMMA ChainDone ==
  ASSUME NEW os, NEW F, Chain(os, F), os # <<>>
  PROVE  /\ Chain(StmtDone(os), F) /\ Len(StmtDone(os)) = Len(os) /\ StmtDone(os) # <<>>
<1>1. /\ os \in Seq(Opens) /\ Len(os) \in Nat \ {0}
      /\ \A k \in 1 .. Len(os) : Within(os[k], F[k], F[k + 1]) /\ (os[k] = "fn" <=> k = 1)
  BY DEF Chain
<1>2. CASE TopOf(os) # "arm"
  BY <1>1, <1>2 DEF StmtDone
<1>3. CASE TopOf(os) = "arm"
  <2> DEFINE p == Append(Cut(os), "arm_done")
  <2>1. StmtDone(os) = p
    BY <1>3 DEF StmtDone
  <2>2. /\ p \in Seq(Opens) /\ Len(p) = Len(os) /\ p[Len(os)] = "arm_done"
        /\ \A k \in 1 .. Len(os) - 1 : p[k] = os[k]
    <3>1. /\ Cut(os) \in Seq(Opens) /\ Len(Cut(os)) = Len(os) - 1
          /\ \A k \in 1 .. Len(os) - 1 : Cut(os)[k] = os[k]
      BY <1>1, CutShortens
    <3>2. "arm_done" \in Opens
      BY DEF Opens
    <3> QED BY <1>1, <3>1, <3>2
  <2>3. ASSUME NEW k \in 1 .. Len(p)
        PROVE  Within(p[k], F[k], F[k + 1]) /\ (p[k] = "fn" <=> k = 1)
    <3>1. CASE k = Len(os)
      <4>1. os[k] = "arm" /\ p[k] = "arm_done"
        BY <1>3, <2>2, <3>1 DEF TopOf
      <4>2. Within("arm", F[k], F[k + 1]) /\ k # 1
        BY <1>1, <2>2, <4>1
      <4> HIDE DEF p
      <4> QED BY <4>1, <4>2 DEF Within
    <3>2. CASE k \in 1 .. Len(os) - 1
      <4>1. k \in 1 .. Len(os) /\ p[k] = os[k]
        BY <1>1, <2>2, <3>2
      <4> QED BY <1>1, <4>1
    <3> QED BY <1>1, <2>2, <3>1, <3>2
  <2> QED
    <3> HIDE DEF p
    <3>1. p # <<>>
      BY <1>1, <2>2
    <3> QED BY <1>1, <2>1, <2>2, <2>3, <3>1 DEF Chain
<1> QED BY <1>2, <1>3

-----------------------------------------------------------------------------
(* Sema *)

SemaInv ==
  /\ text \in Seq(Elements) /\ syms \in Seq(LocalDecl) /\ marks \in Seq(Nat)
  /\ Tracks(text, open, syms, marks)

LEMMA LocalIsDecl ==
  ASSUME NEW k \in {"param", "local"}, NEW n \in Name, NEW i \in Nat
  PROVE  Local(k, n, i) \in LocalDecl
BY DEF Local, LocalDecl, Decl

\* One element more, with a chain for what is open behind it.
LEMMA TrackStep ==
  ASSUME NEW t \in Seq(Elements), NEW H, History(t, H), NEW e \in Elements, NEW b \in Moments,
         Moves(H[Len(t) + 1], e, Len(t) + 1, b), Means(H[Len(t) + 1], e),
         NEW os, NEW G, Chain(os, G), b.inside = (os # <<>>), NEW m,
         G[Len(os) + 1] = FrameOf(Len(b.syms), m, b.lm)
  PROVE  Append(t, e) \in Seq(Elements) /\ Tracks(Append(t, e), os, b.syms, m)
<1>1. OneMore(t, e, H, b)
  BY HistoryGrows
<1> QED BY <1>1, Zenon DEF OneMore, Tracks

\* A statement that declares nothing: a use, an address, a call, a short circuit.
LEMMA PlainStep ==
  ASSUME SemaInv, open # <<>>, NEW e \in Elements, e.op \in {"use", "address", "call", "logic"},
         \A a : a.syms = syms => Means(a, e)
  PROVE  Append(text, e) \in Seq(Elements) /\ Tracks(Append(text, e), StmtDone(open), syms, marks)
<1>1. PICK H, F : /\ History(text, H) /\ Chain(open, F)
                  /\ H[Len(text) + 1].inside = (open # <<>>) /\ H[Len(text) + 1].syms = syms
                  /\ F[Len(open) + 1] = FrameOf(Len(syms), marks, H[Len(text) + 1].lm)
  BY DEF SemaInv, Tracks
<1> DEFINE b == H[Len(text) + 1]
<1>2. text \in Seq(Elements) /\ b \in Moments /\ b.inside
  <2>1. text \in Seq(Elements) /\ Len(text) + 1 \in 1 .. Len(text) + 1
    BY DEF SemaInv
  <2>2. b \in Moments
    BY <1>1, <2>1 DEF History
  <2> QED BY <1>1, <2>1, <2>2
<1>3. Chain(StmtDone(open), F) /\ Len(StmtDone(open)) = Len(open) /\ StmtDone(open) # <<>>
  BY <1>1, ChainDone
<1>4. Moves(b, e, Len(text) + 1, b)
  BY <1>2 DEF Moves
<1>5. Means(b, e)
  BY <1>1
<1>6. b.syms = syms /\ b.inside = (StmtDone(open) # <<>>)
      /\ F[Len(StmtDone(open)) + 1] = FrameOf(Len(b.syms), marks, b.lm)
  BY <1>1, <1>2, <1>3
<1> HIDE DEF b
<1>7. /\ Append(text, e) \in Seq(Elements)
      /\ Tracks(Append(text, e), StmtDone(open), b.syms, marks)
  <2>1. History(text, H) /\ H[Len(text) + 1] = b
    BY <1>1 DEF b
  <2> QED BY <1>2, <1>3, <1>4, <1>5, <1>6, <2>1, TrackStep
<1> QED BY <1>6, <1>7

LEMMA SemaUseKeeps ==
  ASSUME SemaInv, NEW n \in Name, SemaUse(n), phase' = "sema"
  PROVE  SemaInv'
<1> DEFINE d == SemaFind(n)
           e == Elem("use", <<n>>, <<d>>)
<1>1. open # <<>> /\ phase = "sema"
  BY DEF SemaUse, AtStmt
<1>2. /\ IsValue(d) /\ text' = Append(text, e) /\ open' = StmtDone(open)
      /\ syms' = syms /\ marks' = marks
  BY DEF SemaUse, Reject, Emit
<1>3. d = Find(syms, n) /\ d \in Decl
  BY FindIsDecl DEF SemaFind, Find, SemaInv
<1>4. e \in Elements /\ e.op = "use"
  BY <1>3 DEF Elem, Elements, Ops
<1>5. \A a : a.syms = syms => Means(a, e)
  BY <1>2, <1>3 DEF Means, Elem
<1> HIDE DEF e, d
<1>6. /\ Append(text, e) \in Seq(Elements)
      /\ Tracks(Append(text, e), StmtDone(open), syms, marks)
  BY <1>1, <1>4, <1>5, PlainStep
<1> QED BY <1>2, <1>6 DEF SemaInv

LEMMA SemaAddressKeeps ==
  ASSUME SemaInv, OddForms = {}, NEW n \in Name, SemaAddress(n), phase' = "sema"
  PROVE  SemaInv'
<1> DEFINE d == SemaFind(n)
           e == Elem("address", <<n>>, <<d>>)
<1>1. open # <<>> /\ phase = "sema"
  BY DEF SemaAddress, AtStmt
<1>2. /\ IsValue(d) /\ text' = Append(text, e) /\ open' = StmtDone(open)
      /\ syms' = syms /\ marks' = marks /\ d.kind # "enum"
  BY DEF SemaAddress, Reject, Emit
<1>3. d = Find(syms, n) /\ d \in Decl
  BY FindIsDecl DEF SemaFind, Find, SemaInv
<1>4. e \in Elements /\ e.op = "address"
  BY <1>3 DEF Elem, Elements, Ops
<1>5. \A a : a.syms = syms => Means(a, e)
  BY <1>2, <1>3 DEF Means, Elem
<1> HIDE DEF e, d
<1>6. /\ Append(text, e) \in Seq(Elements)
      /\ Tracks(Append(text, e), StmtDone(open), syms, marks)
  BY <1>1, <1>4, <1>5, PlainStep
<1> QED BY <1>2, <1>6 DEF SemaInv

\* What is called is no local, so it is the global function of that name.
LEMMA SemaCallKeeps ==
  ASSUME SemaInv, NEW n \in Name, SemaCall(n), phase' = "sema"
  PROVE  SemaInv'
<1> DEFINE d == SemaFind(n)
           e == Elem("call", <<n>>, <<d>>)
<1>1. open # <<>> /\ phase = "sema"
  BY DEF SemaCall, AtStmt
<1>2. /\ d.kind = "fn" /\ text' = Append(text, e) /\ open' = StmtDone(open)
      /\ syms' = syms /\ marks' = marks
  BY DEF SemaCall, Reject, Emit
<1>3. d = Global(n) /\ d \in Decl /\ GlobalKind[n] = "fn"
  <2>1. d = Find(syms, n)
    BY DEF SemaFind, Find
  <2>2. Hits(syms, n, 1) = {}
    BY <1>2, <2>1, FindIsDecl DEF SemaInv
  <2>3. d = Global(n)
    BY <2>1, <2>2 DEF Find
  <2> HIDE DEF d
  <2> QED BY <1>2, <2>3, GlobalIsDecl
<1>4. e \in Elements /\ e.op = "call"
  BY <1>3 DEF Elem, Elements, Ops
<1>5. \A a : a.syms = syms => Means(a, e)
  BY <1>3 DEF Means, Elem
<1> HIDE DEF e, d
<1>6. /\ Append(text, e) \in Seq(Elements)
      /\ Tracks(Append(text, e), StmtDone(open), syms, marks)
  BY <1>1, <1>4, <1>5, PlainStep
<1> QED BY <1>2, <1>6 DEF SemaInv

LEMMA SemaLogicKeeps ==
  ASSUME SemaInv, SemaLogic, phase' = "sema"
  PROVE  SemaInv'
<1> DEFINE e == Elem("logic", <<>>, <<>>)
<1>1. open # <<>> /\ phase = "sema"
  BY DEF SemaLogic, AtStmt
<1>2. /\ text' = Append(text, e) /\ open' = StmtDone(open)
      /\ syms' = syms /\ marks' = marks
  BY DEF SemaLogic, Emit
<1>3. e \in Elements /\ e.op = "logic"
  <2>1. <<>> \in Seq(Name) /\ <<>> \in Seq(Decl)
    OBVIOUS
  <2> QED BY <2>1 DEF Elem, Elements, Ops
<1>4. \A a : a.syms = syms => Means(a, e)
  BY DEF Means, Elem
<1> HIDE DEF e
<1>5. /\ Append(text, e) \in Seq(Elements)
      /\ Tracks(Append(text, e), StmtDone(open), syms, marks)
  BY <1>1, <1>3, <1>4, PlainStep
<1> QED BY <1>2, <1>5 DEF SemaInv

\* Where the walk is.
LEMMA Present ==
  ASSUME SemaInv
  PROVE  \E H, F, b : /\ History(text, H) /\ Chain(open, F)
                      /\ b = H[Len(text) + 1] /\ b \in Moments
                      /\ b.inside = (open # <<>>) /\ b.syms = syms
                      /\ F[Len(open) + 1] = FrameOf(Len(syms), marks, b.lm)
                      /\ FrameOf(Len(syms), marks, b.lm) \in Frame
<1>1. PICK H, F : /\ History(text, H) /\ Chain(open, F)
                  /\ H[Len(text) + 1].inside = (open # <<>>) /\ H[Len(text) + 1].syms = syms
                  /\ F[Len(open) + 1] = FrameOf(Len(syms), marks, H[Len(text) + 1].lm)
  BY DEF SemaInv, Tracks
<1>2. Len(text) + 1 \in 1 .. Len(text) + 1 /\ Len(syms) \in Nat /\ marks \in Seq(Nat)
  BY DEF SemaInv
<1>3. H[Len(text) + 1] \in Moments
  BY <1>1, <1>2 DEF History
<1>4. FrameOf(Len(syms), marks, H[Len(text) + 1].lm) \in Frame
  BY <1>2, <1>3 DEF Moments, FrameOf, Frame
<1> QED BY <1>1, <1>3, <1>4, Zenon

\* A block, a match or an arm opens.
LEMMA PushStep ==
  ASSUME SemaInv, open # <<>>, NEW e \in Elements, NEW o, NEW m,
         \/ o = "block" /\ e.op = "open" /\ m = Append(marks, Len(syms))
         \/ o = "match" /\ e.op = "match" /\ m = marks
         \/ o = "arm" /\ e.op = "arm" /\ m = marks,
         \A a : a.syms = syms => Means(a, e)
  PROVE  /\ Append(text, e) \in Seq(Elements)
         /\ Tracks(Append(text, e), Append(StmtDone(open), o), syms, m)
<1>1. PICK H, F, b : /\ History(text, H) /\ Chain(open, F)
                     /\ b = H[Len(text) + 1] /\ b \in Moments
                     /\ b.inside = (open # <<>>) /\ b.syms = syms
                     /\ F[Len(open) + 1] = FrameOf(Len(syms), marks, b.lm)
                     /\ FrameOf(Len(syms), marks, b.lm) \in Frame
  BY Present
<1>2. /\ text \in Seq(Elements) /\ syms \in Seq(LocalDecl) /\ marks \in Seq(Nat)
      /\ Len(syms) \in Nat /\ b.lm \in Seq(Nat)
  BY <1>1 DEF SemaInv, Moments
<1>3. Chain(StmtDone(open), F) /\ Len(StmtDone(open)) = Len(open) /\ StmtDone(open) # <<>>
  BY <1>1, ChainDone
<1> DEFINE l == IF o = "match" THEN b.lm ELSE Append(b.lm, Len(syms))
           n == [inside |-> TRUE, syms |-> syms, lm |-> l]
           c == FrameOf(Len(syms), m, l)
           os == Append(StmtDone(open), o)
<1>4. l \in Seq(Nat) /\ m \in Seq(Nat)
  <2>1. Append(b.lm, Len(syms)) \in Seq(Nat) /\ Append(marks, Len(syms)) \in Seq(Nat)
    BY <1>2
  <2> QED BY <1>2, <2>1
<1>5. n \in Moments /\ c \in Frame
  BY <1>2, <1>4 DEF Moments, Frame, FrameOf
<1>6. Within(o, F[Len(open) + 1], c)
  <2> DEFINE f == FrameOf(Len(syms), marks, b.lm)
  <2>1. /\ f.g = Len(syms) /\ f.marks = marks /\ f.lm = b.lm
        /\ c.g = Len(syms) /\ c.marks = m /\ c.lm = l
    BY DEF FrameOf
  <2>2. o = "match" => c = f
    OBVIOUS
  <2> HIDE DEF f, c
  <2>3. Within(o, f, c)
    BY <1>2, <2>1, <2>2 DEF Within
  <2> QED BY <1>1, <2>3 DEF f
<1>7. Moves(b, e, Len(text) + 1, n)
  BY <1>1 DEF Moves
<1>8. Means(b, e)
  BY <1>1
<1>9. /\ Chain(os, Append(F, c)) /\ Append(F, c)[Len(os) + 1] = c /\ os # <<>>
  <2>1. o \in Opens /\ o # "fn"
    BY DEF Opens
  <2> HIDE DEF c
  <2> DEFINE d == StmtDone(open)
  <2>2. Chain(d, F) /\ Within(o, F[Len(d) + 1], c) /\ d # <<>> /\ c \in Frame
    BY <1>3, <1>5, <1>6
  <2> HIDE DEF d
  <2>3. Inside(d, o, F, c)
    BY <2>1, <2>2, ChainPush
  <2> QED BY <2>3, Zenon DEF Inside, d
<1>10. n.inside = (os # <<>>) /\ n.syms = syms /\ c = FrameOf(Len(n.syms), m, n.lm)
  BY <1>9
<1> HIDE DEF n, c, os, l
<1>11. /\ Append(text, e) \in Seq(Elements) /\ Tracks(Append(text, e), os, n.syms, m)
  BY <1>1, <1>2, <1>5, <1>7, <1>8, <1>9, <1>10, TrackStep
<1> QED BY <1>10, <1>11 DEF os

\* Whatever is innermost closes: sema is back where it was when that opened.
LEMMA PopStep ==
  ASSUME SemaInv, open # <<>>, NEW e \in Elements, e.sems = <<>>,
         \/ TopOf(open) \in {"fn", "block"} /\ e.op = "close"
         \/ TopOf(open) = "match" /\ e.op = "end_match"
         \/ TopOf(open) = "arm_done" /\ e.op = "end_arm"
  PROVE  \E f, l :
           /\ f \in Frame
           /\ Within(TopOf(open), f, FrameOf(Len(syms), marks, l))
           /\ f.g \in 0 .. Len(syms) /\ (TopOf(open) = "fn" => f = Outside)
           /\ Append(text, e) \in Seq(Elements)
           /\ Tracks(Append(text, e), Cut(open), SubSeq(syms, 1, f.g), f.marks)
<1>1. PICK H, F, b : /\ History(text, H) /\ Chain(open, F)
                     /\ b = H[Len(text) + 1] /\ b \in Moments
                     /\ b.inside = (open # <<>>) /\ b.syms = syms
                     /\ F[Len(open) + 1] = FrameOf(Len(syms), marks, b.lm)
                     /\ FrameOf(Len(syms), marks, b.lm) \in Frame
  BY Present
<1>2. /\ text \in Seq(Elements) /\ syms \in Seq(LocalDecl) /\ marks \in Seq(Nat)
      /\ Len(syms) \in Nat /\ b.lm \in Seq(Nat)
  BY <1>1 DEF SemaInv, Moments
<1> DEFINE f == F[Len(open)]
           G == SubSeq(F, 1, Len(open))
<1>3. /\ Len(open) \in Nat \ {0} /\ f \in Frame
      /\ Within(TopOf(open), f, FrameOf(Len(syms), marks, b.lm))
      /\ Chain(Cut(open), G) /\ Len(Cut(open)) = Len(open) - 1
      /\ G[Len(open)] = f /\ (Cut(open) = <<>> <=> TopOf(open) = "fn")
      /\ TopOf(open) = "fn" => f = Outside
  BY <1>1, ChainPop
<1> HIDE DEF f, G
<1> DEFINE n == [inside |-> Cut(open) # <<>>, syms |-> SubSeq(syms, 1, f.g), lm |-> f.lm]
<1>4. /\ f.g \in 0 .. Len(syms) /\ f.lm \in Seq(Nat) /\ f.marks \in Seq(Nat)
      /\ f = FrameOf(f.g, f.marks, f.lm)
  BY <1>2, <1>3 DEF Within, Frame, FrameOf
<1>5. SubSeq(syms, 1, f.g) \in Seq(LocalDecl) /\ Len(SubSeq(syms, 1, f.g)) = f.g
  BY <1>2, <1>4, Prefix
<1>6. n \in Moments /\ n.syms = SubSeq(syms, 1, f.g) /\ n.lm = f.lm
      /\ n.inside = (Cut(open) # <<>>)
  BY <1>4, <1>5 DEF Moments
<1>7. Moves(b, e, Len(text) + 1, n)
  <2>1. b.inside
    BY <1>1
  <2>2. CASE TopOf(open) = "fn"
    <3>1. ~n.inside /\ e.op = "close"
      BY <1>3, <1>6, <2>2
    <3> HIDE DEF n
    <3> QED BY <2>1, <3>1 DEF Moves
  <2>3. CASE TopOf(open) = "block"
    <3>1. e.op = "close" /\ b.lm = Append(f.lm, f.g)
      BY <1>3, <2>3 DEF Within, FrameOf
    <3>2. TopOf(b.lm) = f.g /\ Cut(b.lm) = f.lm
      BY <1>4, <3>1, AppendPop
    <3> HIDE DEF n
    <3> QED BY <1>1, <1>6, <2>1, <3>1, <3>2 DEF Moves
  <2>4. CASE TopOf(open) = "match"
    <3>1. e.op = "end_match" /\ f = FrameOf(Len(syms), marks, b.lm)
      BY <1>3, <2>4 DEF Within
    <3>2. n.syms = syms /\ n.lm = b.lm
      BY <1>2, <1>6, <3>1, Whole DEF FrameOf
    <3> HIDE DEF n
    <3> QED BY <1>1, <2>1, <3>1, <3>2 DEF Moves
  <2>5. CASE TopOf(open) = "arm_done"
    <3>1. e.op = "end_arm" /\ f.g = Len(syms) /\ b.lm = Append(f.lm, f.g)
      BY <1>3, <2>5 DEF Within, FrameOf
    <3>2. n.syms = syms
      BY <1>2, <1>6, <3>1, Whole
    <3>3. TopOf(b.lm) = f.g /\ Cut(b.lm) = f.lm
      BY <1>4, <3>1, AppendPop
    <3> HIDE DEF n
    <3> QED BY <1>1, <1>6, <2>1, <3>1, <3>2, <3>3 DEF Moves
  <2> QED BY <2>2, <2>3, <2>4, <2>5
<1>8. Means(b, e)
  BY DEF Means
<1>9. G[Len(Cut(open)) + 1] = FrameOf(Len(n.syms), f.marks, n.lm)
  BY <1>3, <1>4, <1>5, <1>6
<1> HIDE DEF n
<1>10. /\ Append(text, e) \in Seq(Elements)
       /\ Tracks(Append(text, e), Cut(open), n.syms, f.marks)
  BY <1>1, <1>2, <1>3, <1>6, <1>7, <1>8, <1>9, TrackStep
<1> QED BY <1>3, <1>4, <1>6, <1>10

LEMMA SemaOpenKeeps ==
  ASSUME SemaInv, SemaOpen
  PROVE  SemaInv'
<1> DEFINE e == Elem("open", <<>>, <<>>)
<1>1. /\ open # <<>> /\ text' = Append(text, e) /\ open' = Append(StmtDone(open), "block")
      /\ syms' = syms /\ marks' = Append(marks, Len(syms))
  BY DEF SemaOpen, AtStmt, Emit
<1>2. e \in Elements /\ e.op = "open" /\ \A a : Means(a, e)
  BY DEF Elem, Elements, Ops, Means
<1>3. marks' \in Seq(Nat)
  <2>1. marks \in Seq(Nat) /\ Len(syms) \in Nat
    BY DEF SemaInv
  <2> QED BY <1>1, <2>1
<1> HIDE DEF e
<1>4. /\ Append(text, e) \in Seq(Elements)
      /\ Tracks(Append(text, e), Append(StmtDone(open), "block"), syms, Append(marks, Len(syms)))
  BY <1>1, <1>2, PushStep
<1> QED BY <1>1, <1>3, <1>4 DEF SemaInv

LEMMA SemaMatchKeeps ==
  ASSUME SemaInv, SemaMatch
  PROVE  SemaInv'
<1> DEFINE e == Elem("match", <<>>, <<>>)
<1>1. /\ open # <<>> /\ text' = Append(text, e) /\ open' = Append(StmtDone(open), "match")
      /\ syms' = syms /\ marks' = marks
  BY DEF SemaMatch, AtStmt, Emit
<1>2. e \in Elements /\ e.op = "match" /\ \A a : Means(a, e)
  BY DEF Elem, Elements, Ops, Means
<1> HIDE DEF e
<1>3. /\ Append(text, e) \in Seq(Elements)
      /\ Tracks(Append(text, e), Append(StmtDone(open), "match"), syms, marks)
  BY <1>1, <1>2, PushStep
<1> QED BY <1>1, <1>3 DEF SemaInv

\* A label's name is a member's, and no local hides it.
LEMMA SemaArmKeeps ==
  ASSUME SemaInv, OddForms = {}, NEW label \in Seq(Name), SemaArm(label), phase' = "sema"
  PROVE  SemaInv'
<1> DEFINE found == [i \in DOMAIN label |-> Global(label[i])]
           e == Elem("arm", label, found)
<1>1. open # <<>> /\ TopOf(open) = "match" /\ phase = "sema"
      /\ \A i \in DOMAIN label : Hits(syms, label[i], 1) = {}
  BY DEF SemaArm
<1>2. /\ text' = Append(text, e) /\ open' = Append(open, "arm")
      /\ syms' = syms /\ marks' = marks
      /\ \A i \in DOMAIN label : GlobalKind[label[i]] = "enum"
  BY DEF SemaArm, Reject, Emit
<1>3. found \in Seq(Decl)
  <2>1. DOMAIN label = 1 .. Len(label) /\ Len(label) \in Nat /\ \A i \in DOMAIN label : label[i] \in Name
    OBVIOUS
  <2>2. \A i \in 1 .. Len(label) : Global(label[i]) \in Decl
    BY <2>1, GlobalIsDecl
  <2>3. found \in [1 .. Len(label) -> Decl]
    BY <2>1, <2>2
  <2> HIDE DEF found
  <2> QED BY <2>1, <2>3, SeqDef
<1>4. e \in Elements /\ e.op = "arm"
  <2> HIDE DEF found
  <2> QED BY <1>3 DEF Elem, Elements, Ops
<1>5. \A a : a.syms = syms => Means(a, e)
  <2>1. e.op = "arm" /\ e.names = label /\ e.sems = found
    BY DEF Elem
  <2>2. ASSUME NEW a, a.syms = syms, NEW j \in DOMAIN found
        PROVE  /\ found[j] = Global(label[j]) /\ GlobalKind[label[j]] = "enum"
               /\ Hits(a.syms, label[j], 1) = {}
    BY <1>1, <1>2, <2>2
  <2> HIDE DEF e, found
  <2> QED BY <2>1, <2>2 DEF Means
<1>6. StmtDone(open) = open
  BY <1>1 DEF StmtDone
<1> HIDE DEF e, found
<1>7. /\ Append(text, e) \in Seq(Elements)
      /\ Tracks(Append(text, e), Append(StmtDone(open), "arm"), syms, marks)
  BY <1>1, <1>4, <1>5, PushStep
<1> QED BY <1>2, <1>6, <1>7 DEF SemaInv

LEMMA SemaCloseKeeps ==
  ASSUME SemaInv, SemaClose
  PROVE  SemaInv'
<1> DEFINE e == Elem("close", <<>>, <<>>)
<1>1. /\ open # <<>> /\ TopOf(open) = "block" /\ text' = Append(text, e) /\ open' = Cut(open)
      /\ syms' = SubSeq(syms, 1, CurrentMark) /\ marks' = Cut(marks)
  BY DEF SemaClose, Emit
<1>2. e \in Elements /\ e.op = "close" /\ e.sems = <<>>
  BY DEF Elem, Elements, Ops
<1> HIDE DEF e
<1>3. PICK f, l :
        /\ f \in Frame
        /\ Within("block", f, FrameOf(Len(syms), marks, l)) /\ f.g \in 0 .. Len(syms)
        /\ Append(text, e) \in Seq(Elements)
        /\ Tracks(Append(text, e), Cut(open), SubSeq(syms, 1, f.g), f.marks)
  BY <1>1, <1>2, PopStep
<1>4. marks = Append(f.marks, f.g) /\ f.marks \in Seq(Nat) /\ f.g \in Nat
  BY <1>3 DEF Within, FrameOf, Frame
<1>5. TopOf(marks) = f.g /\ Cut(marks) = f.marks /\ marks # <<>>
  BY <1>4, AppendPop
<1>6. CurrentMark = f.g
  BY <1>5 DEF CurrentMark, TopOf
<1>7. SubSeq(syms, 1, f.g) \in Seq(LocalDecl)
  BY <1>3, Prefix DEF SemaInv
<1> QED BY <1>1, <1>3, <1>4, <1>5, <1>6, <1>7 DEF SemaInv

LEMMA SemaEndFnKeeps ==
  ASSUME SemaInv, SemaEndFn
  PROVE  SemaInv'
<1> DEFINE e == Elem("close", <<>>, <<>>)
<1>1. /\ open # <<>> /\ TopOf(open) = "fn" /\ text' = Append(text, e) /\ open' = Cut(open)
      /\ syms' = SubSeq(syms, 1, TopOf(Cut(marks))) /\ marks' = Cut(Cut(marks))
  BY DEF SemaEndFn, Emit
<1>2. e \in Elements /\ e.op = "close" /\ e.sems = <<>>
  BY DEF Elem, Elements, Ops
<1> HIDE DEF e
<1>3. PICK f, l :
        /\ f \in Frame
        /\ Within("fn", f, FrameOf(Len(syms), marks, l)) /\ f.g \in 0 .. Len(syms)
        /\ f = Outside /\ Append(text, e) \in Seq(Elements)
        /\ Tracks(Append(text, e), Cut(open), SubSeq(syms, 1, f.g), f.marks)
  BY <1>1, <1>2, PopStep
<1>4. Len(marks) = 2 /\ marks[1] = 0 /\ f.g = 0 /\ f.marks = <<>>
  BY <1>3 DEF Within, FrameOf, Outside
<1>5. marks \in Seq(Nat) /\ marks # <<>>
  <2>1. marks \in Seq(Nat)
    BY DEF SemaInv
  <2>2. Len(marks) # 0
    BY <1>4
  <2> QED BY <2>1, <2>2
<1>6. Cut(marks) \in Seq(Nat) /\ Len(Cut(marks)) = 1 /\ Cut(marks)[1] = 0
  <2>1. /\ Cut(marks) \in Seq(Nat) /\ Len(Cut(marks)) = Len(marks) - 1
        /\ \A k \in 1 .. Len(marks) - 1 : Cut(marks)[k] = marks[k]
    BY <1>5, CutShortens
  <2>2. 1 \in 1 .. Len(marks) - 1 /\ Len(marks) - 1 = 1
    BY <1>4
  <2> QED BY <1>4, <2>1, <2>2
<1>7. TopOf(Cut(marks)) = 0
  BY <1>6 DEF TopOf
<1>8. Cut(Cut(marks)) = <<>>
  <2>1. Cut(marks) # <<>>
    BY <1>6
  <2> QED BY <1>6, <2>1, CutShortens
<1>9. SubSeq(syms, 1, f.g) \in Seq(LocalDecl)
  BY <1>3, Prefix DEF SemaInv
<1> QED BY <1>1, <1>3, <1>4, <1>7, <1>8, <1>9 DEF SemaInv

LEMMA SemaEndMatchKeeps ==
  ASSUME SemaInv, SemaEndMatch
  PROVE  SemaInv'
<1> DEFINE e == Elem("end_match", <<>>, <<>>)
<1>1. /\ open # <<>> /\ TopOf(open) = "match" /\ text' = Append(text, e) /\ open' = Cut(open)
      /\ syms' = syms /\ marks' = marks
  BY DEF SemaEndMatch, Emit
<1>2. e \in Elements /\ e.op = "end_match" /\ e.sems = <<>>
  BY DEF Elem, Elements, Ops
<1> HIDE DEF e
<1>3. PICK f, l :
        /\ f \in Frame
        /\ Within("match", f, FrameOf(Len(syms), marks, l)) /\ f.g \in 0 .. Len(syms)
        /\ Append(text, e) \in Seq(Elements)
        /\ Tracks(Append(text, e), Cut(open), SubSeq(syms, 1, f.g), f.marks)
  BY <1>1, <1>2, PopStep
<1>4. f.g = Len(syms) /\ f.marks = marks
  BY <1>3 DEF Within, FrameOf
<1>5. SubSeq(syms, 1, f.g) = syms
  BY <1>4, Whole DEF SemaInv
<1> QED BY <1>1, <1>3, <1>4, <1>5 DEF SemaInv

LEMMA SemaEndArmKeeps ==
  ASSUME SemaInv, SemaEndArm
  PROVE  SemaInv'
<1> DEFINE e == Elem("end_arm", <<>>, <<>>)
<1>1. /\ open # <<>> /\ TopOf(open) = "arm_done" /\ text' = Append(text, e) /\ open' = Cut(open)
      /\ syms' = syms /\ marks' = marks
  BY DEF SemaEndArm, Emit
<1>2. e \in Elements /\ e.op = "end_arm" /\ e.sems = <<>>
  BY DEF Elem, Elements, Ops
<1> HIDE DEF e
<1>3. PICK f, l :
        /\ f \in Frame
        /\ Within("arm_done", f, FrameOf(Len(syms), marks, l)) /\ f.g \in 0 .. Len(syms)
        /\ Append(text, e) \in Seq(Elements)
        /\ Tracks(Append(text, e), Cut(open), SubSeq(syms, 1, f.g), f.marks)
  BY <1>1, <1>2, PopStep
<1>4. f.g = Len(syms) /\ f.marks = marks
  BY <1>3 DEF Within, FrameOf
<1>5. SubSeq(syms, 1, f.g) = syms
  BY <1>4, Whole DEF SemaInv
<1> QED BY <1>1, <1>3, <1>4, <1>5 DEF SemaInv

LEMMA CutThenAppend ==
  ASSUME NEW S, NEW s \in Seq(S), s # <<>>
  PROVE  Append(Cut(s), TopOf(s)) = s
<1>1. /\ Len(s) \in Nat \ {0} /\ Cut(s) \in Seq(S) /\ Len(Cut(s)) = Len(s) - 1
      /\ \A k \in 1 .. Len(s) - 1 : Cut(s)[k] = s[k]
      /\ TopOf(s) = s[Len(s)] /\ s[Len(s)] \in S
  BY CutShortens
<1> DEFINE p == Append(Cut(s), TopOf(s))
<1>2. /\ p \in Seq(S) /\ Len(p) = Len(s) /\ p[Len(s)] = s[Len(s)]
      /\ \A k \in 1 .. Len(s) - 1 : p[k] = s[k]
  BY <1>1
<1>3. \A k \in 1 .. Len(s) : p[k] = s[k]
  BY <1>1, <1>2
<1> HIDE DEF p
<1>4. p = s
  BY <1>2, <1>3, SeqEqual
<1> QED BY <1>4 DEF p

\* Without the odd forms a `let` stands in a body or a block: the scope it
\* declares into is the innermost of both walks.
LEMMA SemaLetKeeps ==
  ASSUME SemaInv, OddForms = {}, NEW n \in Name, NEW init \in Seq(Name), SemaLet(n, init),
         phase' = "sema"
  PROVE  SemaInv'
<1> DEFINE used == [i \in DOMAIN init |-> SemaFind(init[i])]
           e == Elem("let", <<n>> \o init, used)
           d == Local("local", n, Len(text) + 1)
<1>1. /\ phase = "sema" /\ open # <<>> /\ TopOf(open) \in {"fn", "block", "arm"}
      /\ TopOf(open) # "arm"
  BY DEF SemaLet, AtStmt
<1>2. /\ \A i \in DOMAIN used : IsValue(used[i])
      /\ text' = Append(text, e) /\ syms' = Append(syms, d) /\ open' = StmtDone(open)
      /\ marks' = marks /\ Hits(syms, n, CurrentMark + 1) = {}
  BY DEF SemaLet, Reject, Emit, Here, DeclaredHere
<1>3. open' = open
  BY <1>1, <1>2 DEF StmtDone
<1>4. PICK H, F, b : /\ History(text, H) /\ Chain(open, F)
                     /\ b = H[Len(text) + 1] /\ b \in Moments
                     /\ b.inside = (open # <<>>) /\ b.syms = syms
                     /\ F[Len(open) + 1] = FrameOf(Len(syms), marks, b.lm)
                     /\ FrameOf(Len(syms), marks, b.lm) \in Frame
  BY Present
<1>5. /\ text \in Seq(Elements) /\ syms \in Seq(LocalDecl) /\ marks \in Seq(Nat)
      /\ Len(syms) \in Nat /\ b.lm \in Seq(Nat) /\ Len(text) + 1 \in Nat
  BY <1>4 DEF SemaInv, Moments
<1>6. d \in LocalDecl
  BY <1>5, LocalIsDecl
<1> HIDE DEF d
<1>7. Append(syms, d) \in Seq(LocalDecl) /\ Len(Append(syms, d)) = Len(syms) + 1
  BY <1>5, <1>6
<1>8. /\ <<n>> \o init \in Seq(Name) /\ Head(<<n>> \o init) = n
      /\ \A j \in DOMAIN init : (<<n>> \o init)[j + 1] = init[j] /\ init[j] \in Name
  <2>1. <<n>> \in Seq(Name) /\ Len(<<n>>) = 1 /\ <<n>>[1] = n
    OBVIOUS
  <2>2. /\ <<n>> \o init \in Seq(Name)
        /\ Len(<<n>> \o init) = Len(<<n>>) + Len(init)
        /\ \A i \in 1 .. Len(<<n>>) + Len(init) : (<<n>> \o init)[i] =
             IF i <= Len(<<n>>) THEN <<n>>[i] ELSE init[i - Len(<<n>>)]
    BY <2>1, ConcatProperties
  <2>3. DOMAIN init = 1 .. Len(init) /\ Len(init) \in Nat
    OBVIOUS
  <2>4. (<<n>> \o init)[1] = n
    BY <2>1, <2>2, <2>3
  <2>5. ASSUME NEW j \in DOMAIN init
        PROVE  (<<n>> \o init)[j + 1] = init[j] /\ init[j] \in Name
    <3>1. j \in 1 .. Len(init) /\ j + 1 \in 1 .. 1 + Len(init) /\ ~(j + 1 <= 1) /\ j + 1 - 1 = j
      BY <2>3
    <3> QED BY <2>1, <2>2, <3>1
  <2>6. Head(<<n>> \o init) = n
    BY <2>2, <2>4, HeadTailProperties
  <2> QED BY <2>2, <2>5, <2>6
<1>9. ASSUME NEW j \in DOMAIN init
      PROVE  used[j] = Find(syms, init[j]) /\ used[j] \in Decl
  <2>1. init[j] \in Name
    BY <1>8
  <2>2. used[j] = Find(syms, init[j])
    BY DEF SemaFind, Find
  <2> QED BY <1>5, <2>1, <2>2, FindIsDecl
<1>10. used \in Seq(Decl) /\ DOMAIN used = DOMAIN init
  <2>1. DOMAIN init = 1 .. Len(init) /\ Len(init) \in Nat
    OBVIOUS
  <2>2. used \in [1 .. Len(init) -> Decl]
    BY <1>9, <2>1
  <2> HIDE DEF used
  <2> QED BY <2>1, <2>2, SeqDef
<1> HIDE DEF used
<1>11. e \in Elements /\ e.op = "let" /\ e.names = <<n>> \o init /\ e.sems = used
  BY <1>8, <1>10 DEF Elem, Elements, Ops
<1> HIDE DEF e
<1> DEFINE m == [inside |-> TRUE, syms |-> Append(syms, d), lm |-> b.lm]
           c == FrameOf(Len(syms) + 1, marks, b.lm)
           G == SubSeq(F, 1, Len(open))
<1>12. m \in Moments /\ c \in Frame
  BY <1>5, <1>7 DEF Moments, Frame, FrameOf
<1>13. Moves(b, e, Len(text) + 1, m)
  <2>1. /\ b.inside /\ e.op = "let" /\ m.lm = b.lm
        /\ m.syms = Append(b.syms, Local("local", Head(e.names), Len(text) + 1))
    BY <1>1, <1>4, <1>8, <1>11 DEF d
  <2> HIDE DEF m
  <2> QED BY <2>1 DEF Moves
<1>14. Means(b, e)
  <2>1. ASSUME NEW j \in DOMAIN e.sems
        PROVE  /\ e.names[j + 1] \in Name /\ e.sems[j] = Find(b.syms, e.names[j + 1])
               /\ IsValue(e.sems[j])
    BY <1>2, <1>4, <1>8, <1>9, <1>10, <1>11
  <2>2. TopOf(b.lm) = CurrentMark
    <3> DEFINE f == F[Len(open)]
               a == F[Len(open) + 1]
    <3>1. f \in Frame /\ Within(TopOf(open), f, a)
      BY <1>1, <1>4, ChainPop
    <3>2. a.marks = marks /\ a.lm = b.lm
      BY <1>4 DEF FrameOf
    <3> HIDE DEF f, a
    <3>3. f.g \in Nat /\ f.marks \in Seq(Nat) /\ f.lm \in Seq(Nat)
      BY <3>1 DEF Frame
    <3>4. CASE TopOf(open) = "fn"
      <4>1. Len(marks) = 2 /\ b.lm = <<marks[2]>>
        BY <3>1, <3>2, <3>4 DEF Within
      <4>2. Len(b.lm) = 1 /\ b.lm[1] = marks[2]
        BY <4>1
      <4>3. TopOf(b.lm) = marks[2]
        BY <4>2 DEF TopOf
      <4>4. marks # <<>>
        BY <4>1
      <4> QED BY <4>1, <4>3, <4>4 DEF CurrentMark
    <3>5. CASE TopOf(open) = "block"
      <4>1. marks = Append(f.marks, f.g) /\ b.lm = Append(f.lm, f.g)
        BY <3>1, <3>2, <3>5 DEF Within
      <4>2. TopOf(marks) = f.g /\ TopOf(b.lm) = f.g
        BY <3>3, <4>1, AppendPop
      <4>3. marks # <<>>
        BY <3>3, <4>1
      <4> QED BY <4>2, <4>3 DEF CurrentMark, TopOf
    <3> QED BY <1>1, <3>4, <3>5
  <2>3. Hits(b.syms, Head(e.names), TopOf(b.lm) + 1) = {}
    BY <1>2, <1>4, <1>8, <1>11, <2>2
  <2> QED BY <1>11, <2>1, <2>3 DEF Means
<1>15. Chain(open, Append(G, c)) /\ Append(G, c)[Len(open) + 1] = c
  <2>1. /\ Len(open) \in Nat \ {0} /\ TopOf(open) \in Opens
        /\ F[Len(open)] \in Frame
        /\ Within(TopOf(open), F[Len(open)], F[Len(open) + 1])
        /\ Chain(Cut(open), G) /\ Len(Cut(open)) = Len(open) - 1
        /\ G[Len(open)] = F[Len(open)] /\ (Cut(open) = <<>> <=> TopOf(open) = "fn")
    BY <1>1, <1>4, ChainPop
  <2> HIDE DEF G
  <2>2. Within(TopOf(open), G[Len(Cut(open)) + 1], c)
    <3>1. F[Len(open)].g \in Nat
      BY <2>1 DEF Frame
    <3>2. G[Len(Cut(open)) + 1] = F[Len(open)]
      BY <2>1
    <3>3. Within(TopOf(open), F[Len(open)], c)
      <4> DEFINE a == F[Len(open) + 1]
      <4>1. /\ a.g = Len(syms) /\ a.marks = marks /\ a.lm = b.lm
            /\ c.g = Len(syms) + 1 /\ c.marks = marks /\ c.lm = b.lm
        BY <1>4 DEF FrameOf
      <4>2. Within(TopOf(open), F[Len(open)], a)
        BY <2>1
      <4> HIDE DEF a, c
      <4>3. TopOf(open) \in {"fn", "block"}
        BY <1>1
      <4> DEFINE f == F[Len(open)]
      <4>4. f.g \in Nat /\ Within(TopOf(open), f, a)
        BY <3>1, <4>2
      <4> HIDE DEF f
      <4>5. Within(TopOf(open), f, c)
        BY <1>5, <4>1, <4>3, <4>4 DEF Within
      <4> QED BY <4>5 DEF f
    <3> QED BY <3>2, <3>3
  <2>3. Append(Cut(open), TopOf(open)) = open
    <3>1. open \in Seq(Opens)
      BY <1>4 DEF Chain
    <3> QED BY <1>1, <3>1, CutThenAppend
  <2> HIDE DEF c
  <2>4. Inside(Cut(open), TopOf(open), G, c)
    <3>1. TopOf(open) = "fn" <=> Cut(open) = <<>>
      BY <2>1
    <3> QED BY <1>12, <2>1, <2>2, <3>1, ChainPush
  <2> QED BY <2>3, <2>4 DEF Inside
<1>16. m.inside = (open # <<>>) /\ m.syms = Append(syms, d) /\ c = FrameOf(Len(m.syms), marks, m.lm)
  BY <1>1, <1>7
<1> HIDE DEF m, c, G
<1>17. Append(text, e) \in Seq(Elements) /\ Tracks(Append(text, e), open, m.syms, marks)
  BY <1>4, <1>5, <1>11, <1>12, <1>13, <1>14, <1>15, <1>16, TrackStep
<1> QED BY <1>2, <1>3, <1>5, <1>7, <1>16, <1>17 DEF SemaInv

\* Between functions there is nothing in the vector and no mark.
LEMMA SemaFnKeeps ==
  ASSUME SemaInv, NEW ps \in Seq(Name), SemaFn(ps), phase' = "sema"
  PROVE  SemaInv'
<1> DEFINE e == Elem("fn", ps, <<>>)
           own == [i \in DOMAIN ps |-> Local("param", ps[i], Len(text) + 1)]
<1>1. /\ phase = "sema" /\ open = <<>> /\ ~HasDuplicate(ps)
      /\ text' = Append(text, e) /\ open' = <<"fn">> /\ syms' = syms \o own
      /\ marks' = marks \o <<Len(syms), Len(syms) + Len(ps)>>
  BY DEF SemaFn, Reject, Emit, Here
<1>2. PICK H, F, b : /\ History(text, H) /\ Chain(open, F)
                     /\ b = H[Len(text) + 1] /\ b \in Moments
                     /\ b.inside = (open # <<>>) /\ b.syms = syms
                     /\ F[Len(open) + 1] = FrameOf(Len(syms), marks, b.lm)
                     /\ FrameOf(Len(syms), marks, b.lm) \in Frame
  BY Present
<1>3. /\ text \in Seq(Elements) /\ syms \in Seq(LocalDecl) /\ marks \in Seq(Nat)
      /\ Len(text) + 1 \in Nat /\ Len(syms) \in Nat
  BY DEF SemaInv
<1>4. Len(ps) \in Nat /\ DOMAIN ps = 1 .. Len(ps) /\ \A i \in DOMAIN ps : ps[i] \in Name
  OBVIOUS
<1>5. syms = <<>> /\ marks = <<>>
  <2>1. Len(open) + 1 = 1
    BY <1>1
  <2>2. FrameOf(Len(syms), marks, b.lm) = Outside
    BY <1>2, <2>1 DEF Chain
  <2>3. Len(syms) = 0 /\ marks = <<>>
    BY <2>2 DEF Outside, FrameOf
  <2> QED BY <1>3, <2>3
<1>6. own \in Seq(LocalDecl) /\ Len(own) = Len(ps)
  <2>1. \A i \in 1 .. Len(ps) : Local("param", ps[i], Len(text) + 1) \in LocalDecl
    BY <1>3, <1>4, LocalIsDecl
  <2>2. own \in [1 .. Len(ps) -> LocalDecl]
    BY <1>4, <2>1
  <2> HIDE DEF own
  <2> QED BY <1>4, <2>2, SeqDef
<1>7. syms' = own /\ marks' = <<0, Len(ps)>>
  <2>1. Len(syms) = 0 /\ 0 + Len(ps) = Len(ps)
    BY <1>4, <1>5
  <2>2. <<0, Len(ps)>> \in Seq(Nat)
    BY <1>4
  <2> HIDE DEF own
  <2>3. <<>> \o own = own
    BY <1>6, ConcatEmptySeq
  <2>4. <<>> \o <<0, Len(ps)>> = <<0, Len(ps)>>
    BY <2>2, ConcatEmptySeq
  <2> QED BY <1>1, <1>5, <2>1, <2>3, <2>4
<1>8. e \in Elements /\ e.op = "fn" /\ e.names = ps /\ e.sems = <<>>
  BY DEF Elem, Elements, Ops
<1> DEFINE n == [inside |-> TRUE, syms |-> own, lm |-> <<Len(ps)>>]
           c == FrameOf(Len(ps), <<0, Len(ps)>>, <<Len(ps)>>)
<1>9. Moves(b, e, Len(text) + 1, n)
  <2>1. /\ e.op = "fn" /\ n.lm = <<Len(e.names)>>
        /\ n.syms = [j \in DOMAIN e.names |-> Local("param", e.names[j], Len(text) + 1)]
    BY <1>8
  <2> HIDE DEF e, n, own
  <2> QED BY <2>1 DEF Moves
<1>10. Means(b, e)
  <2> HIDE DEF e
  <2> QED BY <1>1, <1>8 DEF Means
<1> HIDE DEF own, e
<1>11. n \in Moments /\ c \in Frame
  <2>1. <<Len(ps)>> \in Seq(Nat) /\ <<0, Len(ps)>> \in Seq(Nat)
    BY <1>4
  <2> QED BY <1>4, <1>6, <2>1 DEF Moments, Frame, FrameOf
<1>12. /\ Chain(<<"fn">>, Append(F, c)) /\ Append(F, c)[Len(<<"fn">>) + 1] = c
  <2>1. Within("fn", F[Len(open) + 1], c)
    <3>1. /\ F[Len(open) + 1].g = 0 /\ c.g = Len(ps) /\ c.marks = <<0, Len(ps)>>
          /\ c.lm = <<Len(ps)>>
      BY <1>2, <1>5 DEF FrameOf
    <3> HIDE DEF c
    <3> QED BY <1>4, <3>1 DEF Within
  <2>2. "fn" \in Opens
    BY DEF Opens
  <2>3. Append(open, "fn") = <<"fn">>
    BY <1>1
  <2> HIDE DEF c
  <2>4. Inside(open, "fn", F, c)
    BY <1>1, <1>2, <1>11, <2>1, <2>2, ChainPush
  <2> QED BY <2>3, <2>4 DEF Inside
<1>13. n.inside = (<<"fn">> # <<>>) /\ n.syms = own /\ c = FrameOf(Len(n.syms), <<0, Len(ps)>>, n.lm)
  BY <1>6
<1> HIDE DEF n, c
<1>14. Append(text, e) \in Seq(Elements) /\ Tracks(Append(text, e), <<"fn">>, n.syms, <<0, Len(ps)>>)
  BY <1>2, <1>3, <1>8, <1>9, <1>10, <1>11, <1>12, <1>13, TrackStep
<1>15. marks' \in Seq(Nat)
  BY <1>4, <1>7
<1> QED BY <1>1, <1>6, <1>7, <1>13, <1>14, <1>15 DEF SemaInv

-----------------------------------------------------------------------------
(* Lowering *)

\* Inside a function lowering's locals are what sema saw there.
InStep(H) ==
  H[pos + 1].inside => locals = H[pos + 1].syms /\ lmarks = H[pos + 1].lm

LowerInv ==
  /\ text \in Seq(Elements) /\ pos \in 0 .. Len(text)
  /\ answers \in Seq(Seq(Decl)) /\ Len(answers) = pos
  /\ SameBinding
  /\ \E H : History(text, H) /\ InStep(H)

\* A local, a global variable or a member is found where sema found it.
LEMMA FoundAgain ==
  ASSUME NEW ds, locals = ds, NEW n \in Name, IsValue(Find(ds, n))
  PROVE  /\ LowerFind(n, Find(ds, n)) = Find(ds, n)
         /\ Find(ds, n).kind # "enum" => LowerFindStorage(n) = Find(ds, n)
<1>1. CASE Hits(ds, n, 1) # {}
  BY <1>1 DEF Find, LowerFind, LowerFindStorage
<1>2. CASE Hits(ds, n, 1) = {}
  <2>1. Find(ds, n) = Global(n) /\ Global(n).kind = GlobalKind[n]
    BY <1>2, GlobalIsDecl DEF Find
  <2>2. GlobalKind[n] \in {"global", "enum"}
    BY <2>1, ScopingAssumption DEF IsValue
  <2> QED BY <1>2, <2>1, <2>2 DEF LowerFind, LowerFindStorage
<1> QED BY <1>1, <1>2

\* One element replayed: the same answers, and in step with sema again.
LEMMA ReplayStep ==
  ASSUME LowerInv, pos < Len(text), text' = text, pos' = pos + 1,
         answers' = Append(answers, This.sems),
         NEW H, History(text, H), InStep(H)'
  PROVE  LowerInv'
<1>1. /\ text \in Seq(Elements) /\ pos \in 0 .. Len(text) /\ Len(text) \in Nat
      /\ answers \in Seq(Seq(Decl)) /\ Len(answers) = pos
      /\ \A i \in 1 .. pos : answers[i] = text[i].sems
  BY DEF LowerInv, SameBinding
<1>2. text[pos + 1] \in Elements /\ pos + 1 \in 0 .. Len(text)
  BY <1>1
<1>3. This.sems \in Seq(Decl) /\ This.sems = text[pos + 1].sems
  BY <1>2 DEF This, Elements
<1>4. /\ answers' \in Seq(Seq(Decl)) /\ Len(answers') = pos + 1
      /\ answers'[pos + 1] = text[pos + 1].sems
      /\ \A i \in 1 .. pos : answers'[i] = answers[i]
  BY <1>1, <1>3
<1>5. \A i \in 1 .. pos + 1 : answers'[i] = text[i].sems
  BY <1>1, <1>4
<1>6. SameBinding'
  BY <1>5 DEF SameBinding
<1> QED BY <1>1, <1>2, <1>4, <1>6 DEF LowerInv

\* The element that is replayed next, between its two moments.
LEMMA TwoMoments ==
  ASSUME LowerInv, pos < Len(text)
  PROVE  \E H, a, b : /\ History(text, H) /\ a = H[pos + 1] /\ b = H[pos + 2]
                      /\ a \in Moments /\ b \in Moments /\ This \in Elements
                      /\ Moves(a, This, pos + 1, b) /\ Means(a, This)
                      /\ This.op # "fn" => locals = a.syms /\ lmarks = a.lm
<1>1. PICK H : History(text, H) /\ InStep(H)
  BY DEF LowerInv
<1>2. text \in Seq(Elements) /\ pos \in 0 .. Len(text) /\ Len(text) \in Nat
  BY DEF LowerInv
<1>3. pos + 1 \in 1 .. Len(text) /\ (pos + 1) + 1 = pos + 2
  BY <1>2
<1>4. This = text[pos + 1] /\ This \in Elements
  BY <1>2, <1>3 DEF This
<1>5. H[pos + 1] \in Moments /\ H[pos + 2] \in Moments
  BY <1>1, <1>2, <1>3 DEF History
<1>6. Moves(H[pos + 1], This, pos + 1, H[pos + 2]) /\ Means(H[pos + 1], This)
  BY <1>1, <1>3, <1>4 DEF History
<1>7. This.op # "fn" => locals = H[pos + 1].syms /\ lmarks = H[pos + 1].lm
  BY <1>1, <1>6 DEF Moves, InStep
<1> QED BY <1>1, <1>4, <1>5, <1>6, <1>7, Zenon

\* What each kind of element needs of the lowering step that replays it.
LEMMA Replays ==
  ASSUME LowerInv, pos < Len(text), text' = text, pos' = pos + 1,
         answers' = Append(answers, This.sems),
         NEW H, NEW b, History(text, H), b = H[pos + 2],
         b.inside => locals' = b.syms /\ lmarks' = b.lm
  PROVE  LowerInv'
<1>1. pos \in Nat /\ pos' + 1 = pos + 2
  BY DEF LowerInv
<1>2. InStep(H)'
  BY <1>1 DEF InStep
<1> QED BY <1>2, ReplayStep

LEMMA LowerFnReplays ==
  ASSUME LowerInv, LowerFn
  PROVE  LowerInv'
<1>1. /\ pos < Len(text) /\ This.op = "fn" /\ text' = text /\ pos' = pos + 1
      /\ answers' = Append(answers, <<>>)
      /\ locals' = [i \in DOMAIN This.names |-> Local("param", This.names[i], pos + 1)]
      /\ lmarks' = <<Len(This.names)>>
  BY DEF LowerFn, AtElem, Answer, This, semaVars
<1>2. PICK H, a, b : /\ History(text, H) /\ b = H[pos + 2]
                     /\ Moves(a, This, pos + 1, b) /\ Means(a, This)
  BY <1>1, TwoMoments
<1>3. This.sems = <<>> /\ locals' = b.syms /\ lmarks' = b.lm
  BY <1>1, <1>2 DEF Moves, Means
<1> QED BY <1>1, <1>2, <1>3, Replays

LEMMA LowerOpenReplays ==
  ASSUME LowerInv, LowerOpen
  PROVE  LowerInv'
<1>1. /\ pos < Len(text) /\ This.op = "open" /\ text' = text /\ pos' = pos + 1
      /\ answers' = Append(answers, <<>>)
      /\ locals' = locals /\ lmarks' = Append(lmarks, Len(locals))
  BY DEF LowerOpen, AtElem, Answer, This, semaVars
<1>2. PICK H, a, b : /\ History(text, H) /\ b = H[pos + 2]
                     /\ Moves(a, This, pos + 1, b) /\ Means(a, This)
                     /\ locals = a.syms /\ lmarks = a.lm
  BY <1>1, TwoMoments
<1>3. This.sems = <<>> /\ locals' = b.syms /\ lmarks' = b.lm
  BY <1>1, <1>2 DEF Moves, Means
<1> QED BY <1>1, <1>2, <1>3, Replays

LEMMA LowerCloseReplays ==
  ASSUME LowerInv, LowerClose
  PROVE  LowerInv'
<1>1. /\ pos < Len(text) /\ This.op = "close" /\ text' = text /\ pos' = pos + 1
      /\ answers' = Append(answers, <<>>)
      /\ locals' = SubSeq(locals, 1, TopOf(lmarks)) /\ lmarks' = Cut(lmarks)
  BY DEF LowerClose, AtElem, Answer, This, semaVars
<1>2. PICK H, a, b : /\ History(text, H) /\ b = H[pos + 2]
                     /\ Moves(a, This, pos + 1, b) /\ Means(a, This)
                     /\ locals = a.syms /\ lmarks = a.lm
  BY <1>1, TwoMoments
<1>3. This.sems = <<>> /\ (b.inside => locals' = b.syms /\ lmarks' = b.lm)
  BY <1>1, <1>2 DEF Moves, Means
<1> QED BY <1>1, <1>2, <1>3, Replays

LEMMA LowerMatchReplays ==
  ASSUME LowerInv, LowerMatch
  PROVE  LowerInv'
<1>1. /\ pos < Len(text) /\ This.op \in {"match", "end_match"} /\ text' = text /\ pos' = pos + 1
      /\ answers' = Append(answers, <<>>) /\ locals' = locals /\ lmarks' = lmarks
  BY DEF LowerMatch, AtElem, Answer, This, semaVars
<1>2. PICK H, a, b : /\ History(text, H) /\ b = H[pos + 2]
                     /\ Moves(a, This, pos + 1, b) /\ Means(a, This)
                     /\ locals = a.syms /\ lmarks = a.lm
  BY <1>1, TwoMoments
<1>3. This.sems = <<>> /\ locals' = b.syms /\ lmarks' = b.lm
  BY <1>1, <1>2 DEF Moves, Means
<1> QED BY <1>1, <1>2, <1>3, Replays

\* The cut behind an arm takes nothing away: its body declared nothing.
LEMMA LowerEndArmReplays ==
  ASSUME LowerInv, LowerEndArm
  PROVE  LowerInv'
<1>1. /\ pos < Len(text) /\ This.op = "end_arm" /\ text' = text /\ pos' = pos + 1
      /\ answers' = Append(answers, <<>>)
      /\ locals' = SubSeq(locals, 1, TopOf(lmarks)) /\ lmarks' = Cut(lmarks)
  BY DEF LowerEndArm, AtElem, Answer, This, semaVars
<1>2. PICK H, a, b : /\ History(text, H) /\ b = H[pos + 2] /\ a \in Moments
                     /\ Moves(a, This, pos + 1, b) /\ Means(a, This)
                     /\ locals = a.syms /\ lmarks = a.lm
  BY <1>1, TwoMoments
<1>3. This.sems = <<>> /\ b.syms = a.syms /\ TopOf(a.lm) = Len(a.syms) /\ b.lm = Cut(a.lm)
  BY <1>1, <1>2 DEF Moves, Means
<1>4. SubSeq(a.syms, 1, Len(a.syms)) = a.syms
  BY <1>2, Whole DEF Moments
<1>5. locals' = b.syms /\ lmarks' = b.lm
  BY <1>1, <1>2, <1>3, <1>4
<1> QED BY <1>1, <1>2, <1>3, <1>5, Replays

LEMMA LowerUseReplays ==
  ASSUME LowerInv, LowerUse
  PROVE  LowerInv'
<1>1. /\ pos < Len(text) /\ This.op = "use" /\ text' = text /\ pos' = pos + 1
      /\ answers' = Append(answers, <<LowerFind(This.names[1], This.sems[1])>>)
      /\ locals' = locals /\ lmarks' = lmarks
  BY DEF LowerUse, AtElem, Answer, This, semaVars
<1>2. PICK H, a, b : /\ History(text, H) /\ b = H[pos + 2]
                     /\ Moves(a, This, pos + 1, b) /\ Means(a, This)
                     /\ locals = a.syms /\ lmarks = a.lm
  BY <1>1, TwoMoments
<1>3. /\ This.names[1] \in Name /\ This.sems = <<Find(a.syms, This.names[1])>>
      /\ IsValue(This.sems[1]) /\ locals' = b.syms /\ lmarks' = b.lm
  BY <1>1, <1>2 DEF Moves, Means
<1>4. This.sems[1] = Find(a.syms, This.names[1])
  BY <1>3
<1>5. LowerFind(This.names[1], This.sems[1]) = This.sems[1]
  BY <1>2, <1>3, <1>4, FoundAgain
<1>6. answers' = Append(answers, This.sems)
  BY <1>1, <1>3, <1>4, <1>5
<1> QED BY <1>1, <1>2, <1>3, <1>6, Replays

LEMMA LowerAddressReplays ==
  ASSUME LowerInv, LowerAddress
  PROVE  LowerInv'
<1>1. /\ pos < Len(text) /\ This.op = "address" /\ text' = text /\ pos' = pos + 1
      /\ answers' = Append(answers, <<LowerFindStorage(This.names[1])>>)
      /\ locals' = locals /\ lmarks' = lmarks
  BY DEF LowerAddress, AtElem, Answer, This, semaVars
<1>2. PICK H, a, b : /\ History(text, H) /\ b = H[pos + 2]
                     /\ Moves(a, This, pos + 1, b) /\ Means(a, This)
                     /\ locals = a.syms /\ lmarks = a.lm
  BY <1>1, TwoMoments
<1>3. /\ This.names[1] \in Name /\ This.sems = <<Find(a.syms, This.names[1])>>
      /\ IsValue(This.sems[1]) /\ This.sems[1].kind # "enum"
      /\ locals' = b.syms /\ lmarks' = b.lm
  BY <1>1, <1>2 DEF Moves, Means
<1>4. This.sems[1] = Find(a.syms, This.names[1])
  BY <1>3
<1>5. LowerFindStorage(This.names[1]) = This.sems[1]
  BY <1>2, <1>3, <1>4, FoundAgain
<1>6. answers' = Append(answers, This.sems)
  BY <1>1, <1>3, <1>4, <1>5
<1> QED BY <1>1, <1>2, <1>3, <1>6, Replays

LEMMA LowerCallReplays ==
  ASSUME LowerInv, LowerCall
  PROVE  LowerInv'
<1>1. /\ pos < Len(text) /\ This.op = "call" /\ text' = text /\ pos' = pos + 1
      /\ answers' = Append(answers, <<LowerFindFunc(This.names[1])>>)
      /\ locals' = locals /\ lmarks' = lmarks
  BY DEF LowerCall, AtElem, Answer, This, semaVars
<1>2. PICK H, a, b : /\ History(text, H) /\ b = H[pos + 2]
                     /\ Moves(a, This, pos + 1, b) /\ Means(a, This)
                     /\ locals = a.syms /\ lmarks = a.lm
  BY <1>1, TwoMoments
<1>3. /\ GlobalKind[This.names[1]] = "fn" /\ This.sems = <<Global(This.names[1])>>
      /\ locals' = b.syms /\ lmarks' = b.lm
  BY <1>1, <1>2 DEF Moves, Means
<1>4. answers' = Append(answers, This.sems)
  BY <1>1, <1>3 DEF LowerFindFunc
<1> QED BY <1>1, <1>2, <1>3, <1>4, Replays

LEMMA LowerLogicReplays ==
  ASSUME LowerInv, LowerLogic
  PROVE  LowerInv'
<1>1. /\ pos < Len(text) /\ This.op = "logic" /\ text' = text /\ pos' = pos + 1
      /\ answers' = Append(answers, <<>>) /\ locals' = locals /\ lmarks' = lmarks
  BY DEF LowerLogic, AtElem, Answer, This, semaVars
<1>2. PICK H, a, b : /\ History(text, H) /\ b = H[pos + 2]
                     /\ Moves(a, This, pos + 1, b) /\ Means(a, This)
                     /\ locals = a.syms /\ lmarks = a.lm
  BY <1>1, TwoMoments
<1>3. This.sems = <<>> /\ locals' = b.syms /\ lmarks' = b.lm
  BY <1>1, <1>2 DEF Moves, Means
<1> QED BY <1>1, <1>2, <1>3, Replays

LEMMA LowerArmReplays ==
  ASSUME LowerInv, LowerArm
  PROVE  LowerInv'
<1> DEFINE ds == [i \in DOMAIN This.sems |-> LowerFind(This.names[i], This.sems[i])]
<1>1. /\ pos < Len(text) /\ This.op = "arm" /\ text' = text /\ pos' = pos + 1
      /\ answers' = Append(answers, ds)
      /\ locals' = locals /\ lmarks' = Append(lmarks, Len(locals))
  BY DEF LowerArm, AtElem, Answer, This, semaVars
<1>2. PICK H, a, b : /\ History(text, H) /\ b = H[pos + 2] /\ This \in Elements
                     /\ Moves(a, This, pos + 1, b) /\ Means(a, This)
                     /\ locals = a.syms /\ lmarks = a.lm
  BY <1>1, TwoMoments
<1>3. /\ locals' = b.syms /\ lmarks' = b.lm
      /\ \A j \in DOMAIN This.sems :
           /\ This.sems[j] = Global(This.names[j]) /\ GlobalKind[This.names[j]] = "enum"
           /\ Hits(locals, This.names[j], 1) = {}
  BY <1>1, <1>2 DEF Moves, Means
<1>4. ASSUME NEW j \in DOMAIN This.sems
      PROVE  LowerFind(This.names[j], This.sems[j]) = This.sems[j]
  BY <1>3 DEF LowerFind
<1>5. This.sems \in Seq(Decl)
  BY <1>2 DEF Elements
<1>6. ds = This.sems
  BY <1>4, <1>5
<1> HIDE DEF ds
<1> QED BY <1>1, <1>2, <1>3, <1>6, Replays

\* The initializer is looked up before the local is there, as sema did.
LEMMA LowerLetReplays ==
  ASSUME LowerInv, LowerLet
  PROVE  LowerInv'
<1> DEFINE ds == [i \in DOMAIN This.sems |-> LowerFind(This.names[i + 1], This.sems[i])]
<1>1. /\ pos < Len(text) /\ This.op = "let" /\ text' = text /\ pos' = pos + 1
      /\ answers' = Append(answers, ds)
      /\ locals' = Append(locals, Local("local", Head(This.names), pos + 1)) /\ lmarks' = lmarks
  BY DEF LowerLet, AtElem, Answer, This, semaVars
<1>2. PICK H, a, b : /\ History(text, H) /\ b = H[pos + 2] /\ This \in Elements
                     /\ Moves(a, This, pos + 1, b) /\ Means(a, This)
                     /\ locals = a.syms /\ lmarks = a.lm
  BY <1>1, TwoMoments
<1>3. /\ locals' = b.syms /\ lmarks' = b.lm
      /\ \A j \in DOMAIN This.sems :
           /\ This.names[j + 1] \in Name /\ This.sems[j] = Find(a.syms, This.names[j + 1])
           /\ IsValue(This.sems[j])
  BY <1>1, <1>2 DEF Moves, Means
<1>4. ASSUME NEW j \in DOMAIN This.sems
      PROVE  LowerFind(This.names[j + 1], This.sems[j]) = This.sems[j]
  <2>1. /\ This.names[j + 1] \in Name /\ This.sems[j] = Find(a.syms, This.names[j + 1])
        /\ IsValue(Find(a.syms, This.names[j + 1]))
    BY <1>3
  <2> QED BY <1>2, <2>1, FoundAgain
<1>5. This.sems \in Seq(Decl)
  BY <1>2 DEF Elements
<1>6. ds = This.sems
  BY <1>4, <1>5
<1> HIDE DEF ds
<1> QED BY <1>1, <1>2, <1>3, <1>6, Replays

-----------------------------------------------------------------------------
(* The theorems *)

WalkInv ==
  /\ phase \in {"sema", "lower", "done", "rejected"}
  /\ phase = "sema" => SemaInv
  /\ phase \in {"sema", "rejected"} => pos = 0 /\ answers = <<>>
  /\ phase \in {"lower", "done"} => LowerInv

LEMMA WalkStarts == Init => WalkInv
<1> SUFFICES ASSUME Init PROVE WalkInv
  OBVIOUS
<1>1. /\ phase = "sema" /\ text = <<>> /\ open = <<>> /\ syms = <<>> /\ marks = <<>>
      /\ pos = 0 /\ answers = <<>>
  BY DEF Init
<1> DEFINE b == [inside |-> FALSE, syms |-> <<>>, lm |-> <<>>]
<1>2. b \in Moments /\ ~b.inside /\ Outside \in Frame
  BY DEF Moments, Frame, Outside, FrameOf
<1> HIDE DEF b
<1>3. History(<<>>, <<b>>)
  BY <1>2 DEF History
<1>4. Chain(<<>>, <<Outside>>)
  BY <1>2 DEF Chain
<1>5. Tracks(<<>>, <<>>, <<>>, <<>>)
  <2>1. <<b>>[Len(<<>>) + 1] = b /\ <<Outside>>[Len(<<>>) + 1] = Outside
    OBVIOUS
  <2>2. b.inside = FALSE /\ b.syms = <<>> /\ b.lm = <<>>
    BY DEF b
  <2>3. Outside = FrameOf(Len(<<>>), <<>>, b.lm)
    BY <2>2 DEF Outside
  <2> HIDE DEF Outside
  <2>4. /\ History(<<>>, <<b>>) /\ Chain(<<>>, <<Outside>>)
        /\ <<b>>[Len(<<>>) + 1].inside = (<<>> # <<>>) /\ <<b>>[Len(<<>>) + 1].syms = <<>>
        /\ <<Outside>>[Len(<<>>) + 1] = FrameOf(Len(<<>>), <<>>, <<b>>[Len(<<>>) + 1].lm)
    BY <1>3, <1>4, <2>1, <2>2, <2>3
  <2> QED BY <2>4, Zenon DEF Tracks
<1> QED BY <1>1, <1>5 DEF WalkInv, SemaInv

LEMMA SemaKeeps ==
  ASSUME OddForms = {}, WalkInv, SemaStep, phase' = "sema"
  PROVE  SemaInv'
<1>1. phase = "sema"
  BY DEF SemaStep, SemaFn, SemaOpen, SemaClose, SemaEndFn, SemaLet, SemaUse, SemaAddress, SemaCall,
         SemaLogic, SemaMatch, SemaArm, SemaEndArm, SemaEndMatch, SemaAccepts, AtStmt
<1>2. SemaInv
  BY <1>1 DEF WalkInv
<1>3. UpToOne \subseteq Seq(Name)
  <2>1. <<>> \in Seq(Name) /\ \A n \in Name : <<n>> \in Seq(Name)
    OBVIOUS
  <2> QED BY <2>1, Zenon DEF UpToOne
<1>4. ASSUME NEW ps \in ParamLists, SemaFn(ps) PROVE SemaInv'
  BY <1>2, <1>4, ScopingAssumption, SemaFnKeeps
<1>5. CASE SemaOpen
  BY <1>2, <1>5, SemaOpenKeeps
<1>6. CASE SemaClose
  BY <1>2, <1>6, SemaCloseKeeps
<1>7. CASE SemaEndFn
  BY <1>2, <1>7, SemaEndFnKeeps
<1>8. ASSUME NEW n \in Name, NEW init \in UpToOne, SemaLet(n, init) PROVE SemaInv'
  BY <1>2, <1>3, <1>8, SemaLetKeeps
<1>9. ASSUME NEW n \in Name, SemaUse(n) PROVE SemaInv'
  BY <1>2, <1>9, SemaUseKeeps
<1>10. ASSUME NEW n \in Name, SemaAddress(n) PROVE SemaInv'
  BY <1>2, <1>10, SemaAddressKeeps
<1>11. ASSUME NEW n \in Name, SemaCall(n) PROVE SemaInv'
  BY <1>2, <1>11, SemaCallKeeps
<1>12. CASE SemaMatch
  BY <1>2, <1>12, SemaMatchKeeps
<1>13. ASSUME NEW label \in UpToOne, SemaArm(label) PROVE SemaInv'
  BY <1>2, <1>3, <1>13, SemaArmKeeps
<1>14. CASE SemaEndArm
  BY <1>2, <1>14, SemaEndArmKeeps
<1>15. CASE SemaEndMatch
  BY <1>2, <1>15, SemaEndMatchKeeps
<1>16. CASE SemaAccepts
  BY <1>16 DEF SemaAccepts
<1>17. CASE SemaLogic
  BY <1>2, <1>17, SemaLogicKeeps
<1> QED BY <1>4, <1>5, <1>6, <1>7, <1>8, <1>9, <1>10, <1>11, <1>12, <1>13, <1>14, <1>15, <1>16,
           <1>17
        DEF SemaStep

LEMMA LowerKeeps ==
  ASSUME LowerInv, LowerStep
  PROVE  LowerInv'
<1>1. CASE LowerDone
  <2>1. /\ text' = text /\ pos' = pos /\ answers' = answers /\ locals' = locals /\ lmarks' = lmarks
    BY <1>1 DEF LowerDone, semaVars, lowerVars
  <2> QED BY <2>1 DEF LowerInv, SameBinding, InStep
<1> QED BY <1>1, LowerFnReplays, LowerOpenReplays, LowerCloseReplays, LowerLetReplays,
           LowerUseReplays, LowerAddressReplays, LowerCallReplays, LowerLogicReplays, LowerMatchReplays,
           LowerArmReplays, LowerEndArmReplays
        DEF LowerStep

\* Sema is done without an error: lowering starts where no function is open.
LEMMA AcceptsKeeps ==
  ASSUME SemaInv, pos = 0, answers = <<>>, SemaAccepts
  PROVE  LowerInv'
<1>1. /\ text' = text /\ pos' = 0 /\ answers' = <<>> /\ text \in Seq(Elements)
  BY DEF SemaAccepts, semaVars, lowerVars, SemaInv
<1>2. PICK H : History(text, H)
  BY Present
<1>3. ~H[1].inside
  BY <1>2 DEF History
<1>4. InStep(H)'
  BY <1>1, <1>3 DEF InStep
<1>5. /\ <<>> \in Seq(Seq(Decl)) /\ Len(<<>>) = 0 /\ 0 \in 0 .. Len(text)
  BY <1>1
<1>6. SameBinding'
  BY <1>1 DEF SameBinding
<1> QED BY <1>1, <1>2, <1>4, <1>5, <1>6 DEF LowerInv

LEMMA WalkKeeps ==
  ASSUME OddForms = {}, WalkInv, [Next]_vars
  PROVE  WalkInv'
<1>1. CASE SemaStep
  <2>1. /\ phase = "sema" /\ phase' \in {"sema", "lower", "rejected"}
        /\ pos' = pos /\ answers' = answers
        /\ phase' = "lower" => SemaAccepts
    BY <1>1 DEF SemaStep, SemaFn, SemaOpen, SemaClose, SemaEndFn, SemaLet, SemaUse, SemaAddress,
         SemaCall, SemaLogic, SemaMatch, SemaArm, SemaEndArm, SemaEndMatch, SemaAccepts, AtStmt, Reject,
         lowerVars
  <2>2. SemaInv /\ pos = 0 /\ answers = <<>>
    BY <2>1 DEF WalkInv
  <2>3. phase' = "sema" => SemaInv'
    BY <1>1, SemaKeeps
  <2>4. phase' = "lower" => LowerInv'
    BY <2>1, <2>2, AcceptsKeeps
  <2> QED BY <2>1, <2>2, <2>3, <2>4 DEF WalkInv
<1>2. CASE LowerStep
  <2>1. phase = "lower" /\ phase' \in {"lower", "done"}
    BY <1>2 DEF LowerStep, LowerFn, LowerOpen, LowerClose, LowerLet, LowerUse, LowerAddress,
         LowerCall, LowerLogic, LowerMatch, LowerArm, LowerEndArm, LowerDone, AtElem
  <2>2. LowerInv'
    BY <1>2, <2>1, LowerKeeps DEF WalkInv
  <2> QED BY <2>1, <2>2 DEF WalkInv
<1>3. CASE UNCHANGED vars
  <2>1. /\ text' = text /\ open' = open /\ syms' = syms /\ marks' = marks /\ phase' = phase
        /\ pos' = pos /\ answers' = answers /\ locals' = locals /\ lmarks' = lmarks
    BY <1>3 DEF vars, semaVars, lowerVars
  <2>2. SemaInv => SemaInv'
    BY <2>1 DEF SemaInv
  <2>3. LowerInv => LowerInv'
    BY <2>1 DEF LowerInv, SameBinding, InStep
  <2> QED BY <2>1, <2>2, <2>3 DEF WalkInv
<1> QED BY <1>1, <1>2, <1>3 DEF Next

\* For every program without the odd forms: each name of it that lowering looks
\* up accesses the declaration sema checked it against, though nothing in the
\* tree says which that was (lowering.c:210-240, sema.c's scope_find).
THEOREM BindingsAgree ==
  ASSUME OddForms = {}
  PROVE  Spec => []SameBinding
<1>1. WalkInv /\ [Next]_vars => WalkInv'
  BY WalkKeeps
<1>2. WalkInv => SameBinding
  BY DEF WalkInv, LowerInv, SameBinding
<1> QED BY <1>1, <1>2, WalkStarts, PTL DEF Spec

-----------------------------------------------------------------------------
(* Slots, odd forms or not *)

IsFnHead(e) == e.op = "fn" => e.names \in Seq(Name) /\ ~HasDuplicate(e.names)

SlotsInv ==
  /\ pos \in Nat
  /\ \E S : text \in Seq(S)
  /\ \A i \in 1 .. Len(text) : IsFnHead(text[i])
  /\ \E S : slots \in Seq(S)
  /\ DeclaredDistinct

LEMMA TextGrows ==
  ASSUME NEW e, IsFnHead(e), SlotsInv, text' = Append(text, e), slots' = slots,
         pos' = pos
  PROVE  SlotsInv'
<1>1. PICK S : text \in Seq(S)
  BY DEF SlotsInv
<1>2. text \in Seq(S \cup {e}) /\ e \in S \cup {e}
  BY <1>1
<1>3. /\ text' \in Seq(S \cup {e}) /\ Len(text') = Len(text) + 1 /\ text'[Len(text) + 1] = e
      /\ \A i \in 1 .. Len(text) : text'[i] = text[i]
  BY <1>2
<1>4. \A i \in 1 .. Len(text') : IsFnHead(text'[i])
  <2>1. ASSUME NEW i \in 1 .. Len(text') PROVE IsFnHead(text'[i])
    <3>1. i \in 1 .. Len(text) \/ i = Len(text) + 1
      BY <1>2, <1>3
    <3>2. CASE i \in 1 .. Len(text)
      BY <1>3, <3>2 DEF SlotsInv
    <3>3. CASE i = Len(text) + 1
      BY <1>3, <3>3
    <3> QED BY <3>1, <3>2, <3>3
  <2> QED BY <2>1
<1>5. DeclaredDistinct' /\ \E T : slots' \in Seq(T)
  BY DEF SlotsInv, DeclaredDistinct
<1>6. pos' \in Nat
  BY DEF SlotsInv
<1> QED BY <1>3, <1>4, <1>5, <1>6 DEF SlotsInv

\* Only a function's head has parameters, and sema saw that they differ.
LEMMA SemaSlots ==
  ASSUME SlotsInv, SemaStep
  PROVE  SlotsInv'
<1>1. slots' = slots /\ pos' = pos
  BY DEF SemaStep, SemaFn, SemaOpen, SemaClose, SemaEndFn, SemaLet, SemaUse, SemaAddress,
         SemaCall, SemaLogic, SemaMatch, SemaArm, SemaEndArm, SemaEndMatch, SemaAccepts, Reject, lowerVars
<1>2. text' = text \/ \E e : text' = Append(text, e) /\ IsFnHead(e)
  <2>1. ASSUME NEW ps \in ParamLists, SemaFn(ps)
        PROVE  text' = text \/ \E e : text' = Append(text, e) /\ IsFnHead(e)
    <3>1. ps \in Seq(Name)
      BY ScopingAssumption
    <3>2. CASE HasDuplicate(ps)
      BY <2>1, <3>2 DEF SemaFn, Reject, semaVars
    <3>3. CASE ~HasDuplicate(ps)
      <4>1. text' = Append(text, Elem("fn", ps, <<>>))
        BY <2>1, <3>3 DEF SemaFn, Emit
      <4>2. IsFnHead(Elem("fn", ps, <<>>))
        BY <3>1, <3>3 DEF Elem, IsFnHead
      <4> QED BY <4>1, <4>2
    <3> QED BY <3>2, <3>3
  <2>2. ASSUME NEW o, NEW ns, NEW ds, o # "fn"
        PROVE  IsFnHead(Elem(o, ns, ds))
    BY <2>2 DEF Elem, IsFnHead
  <2>3. ASSUME NEW n \in Name, NEW init \in UpToOne, SemaLet(n, init)
        PROVE  text' = text \/ \E e : text' = Append(text, e) /\ IsFnHead(e)
    BY <2>2, <2>3 DEF SemaLet, Reject, semaVars, Emit
  <2>4. ASSUME NEW n \in Name, SemaUse(n) \/ SemaAddress(n) \/ SemaCall(n)
        PROVE  text' = text \/ \E e : text' = Append(text, e) /\ IsFnHead(e)
    BY <2>2, <2>4 DEF SemaUse, SemaAddress, SemaCall, Reject, semaVars, Emit
  <2>5. ASSUME NEW label \in UpToOne, SemaArm(label)
        PROVE  text' = text \/ \E e : text' = Append(text, e) /\ IsFnHead(e)
    BY <2>2, <2>5 DEF SemaArm, Reject, semaVars, Emit
  <2>6. CASE \/ SemaOpen \/ SemaClose \/ SemaEndFn \/ SemaLogic \/ SemaMatch \/ SemaEndArm
             \/ SemaEndMatch
    BY <2>2, <2>6 DEF SemaOpen, SemaClose, SemaEndFn, SemaLogic, SemaMatch, SemaEndArm,
         SemaEndMatch, Emit
  <2>7. CASE SemaAccepts
    BY <2>7 DEF SemaAccepts, semaVars
  <2> QED BY <2>1, <2>3, <2>4, <2>5, <2>6, <2>7 DEF SemaStep
<1>3. CASE text' = text
  BY <1>1, <1>3 DEF SlotsInv, DeclaredDistinct
<1>4. CASE \E e : text' = Append(text, e) /\ IsFnHead(e)
  BY <1>1, <1>4, TextGrows
<1> QED BY <1>2, <1>3, <1>4

LEMMA LowerSlots ==
  ASSUME SlotsInv, LowerStep
  PROVE  SlotsInv'
<1>1. text' = text
  BY DEF LowerStep, LowerFn, LowerOpen, LowerClose, LowerLet, LowerUse, LowerAddress,
         LowerCall, LowerLogic, LowerMatch, LowerArm, LowerEndArm, LowerDone, semaVars
<1>0. pos \in Nat /\ pos' \in {pos, pos + 1}
  BY DEF LowerStep, LowerFn, LowerOpen, LowerClose, LowerLet, LowerUse, LowerAddress,
         LowerCall, LowerLogic, LowerMatch, LowerArm, LowerEndArm, LowerDone, Answer, lowerVars, SlotsInv
<1>2. SUFFICES DeclaredDistinct' /\ \E S : slots' \in Seq(S)
  BY <1>0, <1>1 DEF SlotsInv
<1>3. CASE LowerFn
  <2> DEFINE ns == This.names
             fresh == [i \in DOMAIN ns |-> UniqueName(ns[i], TRUE, <<>>)]
  <2>1. PICK S : text \in Seq(S)
    BY DEF SlotsInv
  <2>2. pos < Len(text) /\ text[pos + 1].op = "fn"
    BY <1>3 DEF LowerFn, AtElem
  <2>3. pos + 1 \in 1 .. Len(text)
    BY <1>0, <2>1, <2>2
  <2>4. IsFnHead(text[pos + 1])
    BY <2>3 DEF SlotsInv
  <2>5. ns \in Seq(Name) /\ ~HasDuplicate(ns)
    BY <2>2, <2>4 DEF IsFnHead, This
  <2>6. slots' = fresh
    BY <1>3 DEF LowerFn
  <2> HIDE DEF ns
  <2>7. DOMAIN ns = 1 .. Len(ns) /\ Len(ns) \in Nat
    BY <2>5
  <2>8. \A n : UniqueName(n, TRUE, <<>>).name = n
    BY DEF UniqueName, Slot
  <2>9. \A i \in DOMAIN ns : fresh[i].name = ns[i]
    BY <2>8
  <2>10. \A i, j \in DOMAIN ns : i # j => ns[i] # ns[j]
    BY <2>5 DEF HasDuplicate
  <2>11. DOMAIN fresh = DOMAIN ns
    OBVIOUS
  <2>12. \A i, j \in DOMAIN fresh : i # j => fresh[i] # fresh[j]
    <3> HIDE DEF fresh
    <3> QED BY <2>9, <2>10, <2>11
  <2>13. DeclaredDistinct'
    <3> HIDE DEF fresh
    <3>1. slots' = fresh
      BY <2>6 DEF fresh
    <3> QED BY <2>12, <3>1 DEF DeclaredDistinct
  <2>14. fresh \in Seq({fresh[i] : i \in DOMAIN ns})
    <3> DEFINE T == {fresh[i] : i \in DOMAIN ns}
    <3>1. \A i \in DOMAIN ns : fresh[i] \in T
      OBVIOUS
    <3>2. fresh \in [1 .. Len(ns) -> T]
      <4> HIDE DEF T
      <4> QED BY <2>7, <3>1
    <3> HIDE DEF T, fresh
    <3>3. fresh \in Seq(T)
      BY <2>7, <3>2, SeqDef
    <3> QED BY <3>3 DEF T
  <2> QED BY <2>6, <2>13, <2>14
<1>4. CASE LowerLet
  <2> DEFINE s == UniqueName(Head(This.names), FALSE, slots)
  <2>1. slots' = Append(slots, s)
    BY <1>4 DEF LowerLet
  <2>2. PICK S : slots \in Seq(S)
    BY DEF SlotsInv
  <2>3. Len(slots) \in Nat /\ DOMAIN slots = 1 .. Len(slots)
    BY <2>2
  <2>4. \A i \in DOMAIN slots : slots[i] # s
    BY <2>3, NameIsNew
  <2> HIDE DEF s
  <2>5. slots \in Seq(S \cup {s}) /\ s \in S \cup {s}
    BY <2>2
  <2>6. /\ slots' \in Seq(S \cup {s}) /\ Len(slots') = Len(slots) + 1
        /\ slots'[Len(slots) + 1] = s /\ DOMAIN slots' = 1 .. Len(slots) + 1
        /\ \A i \in 1 .. Len(slots) : slots'[i] = slots[i]
    BY <2>1, <2>5
  <2>7. ASSUME NEW i \in DOMAIN slots', NEW j \in DOMAIN slots', i # j
        PROVE  slots'[i] # slots'[j]
    <3>1. \A k \in DOMAIN slots' : k \in 1 .. Len(slots) \/ k = Len(slots) + 1
      BY <2>3, <2>6
    <3>2. \A k, m \in DOMAIN slots : k # m => slots[k] # slots[m]
      BY DEF SlotsInv, DeclaredDistinct
    <3> QED BY <2>3, <2>4, <2>6, <2>7, <3>1, <3>2
  <2>8. DeclaredDistinct'
    BY <2>7 DEF DeclaredDistinct
  <2> QED BY <2>6, <2>8
<1>5. CASE \/ LowerOpen \/ LowerClose \/ LowerUse \/ LowerAddress \/ LowerCall \/ LowerLogic
           \/ LowerMatch \/ LowerArm \/ LowerEndArm \/ LowerDone
  <2>1. slots' = slots
    BY <1>5 DEF LowerOpen, LowerClose, LowerUse, LowerAddress,
         LowerCall, LowerLogic, LowerMatch, LowerArm, LowerEndArm, LowerDone, lowerVars
  <2> QED BY <2>1 DEF SlotsInv, DeclaredDistinct
<1> QED BY <1>3, <1>4, <1>5 DEF LowerStep

-----------------------------------------------------------------------------
(* Names made up *)

\* Each is below the count it was taken from.
MadeBelow(x, l, t) ==
  \E n \in Nat : (x = ShortSlot(n) /\ n < l) \/ (x = Temp(n) /\ n < t)

Below(ms, l, t) == \A i \in DOMAIN ms : MadeBelow(ms[i], l, t)
Apart(ms)       == \A i, j \in DOMAIN ms : i # j => ms[i] # ms[j]

MadeInv ==
  /\ pos \in Nat
  /\ \E S : text \in Seq(S)
  /\ \A i \in 1 .. Len(text) : IsFnHead(text[i])
  /\ labels \in Nat /\ temps \in Nat
  /\ \E S : made \in Seq(S)
  /\ Below(made, labels, temps) /\ MadeDistinct

LEMMA NumbersTell ==
  ASSUME NEW n \in Nat, NEW m \in Nat
  PROVE  /\ Temp(n) # ShortSlot(m)
         /\ n # m => Temp(n) # Temp(m) /\ ShortSlot(n) # ShortSlot(m)
<1>1. \A a, b, x, y : Slot(<<a, x>>, FALSE, 0) = Slot(<<b, y>>, FALSE, 0) => a = b /\ x = y
  <2>1. ASSUME NEW a, NEW b, NEW x, NEW y, Slot(<<a, x>>, FALSE, 0) = Slot(<<b, y>>, FALSE, 0)
        PROVE  a = b /\ x = y
    <3>1. <<a, x>> = <<b, y>>
      <4> DEFINE u == <<a, x>>
                 v == <<b, y>>
      <4>1. Slot(u, FALSE, 0) = Slot(v, FALSE, 0)
        BY <2>1
      <4> HIDE DEF u, v
      <4>2. Slot(u, FALSE, 0).name = u /\ Slot(v, FALSE, 0).name = v
        BY DEF Slot
      <4>3. Slot(u, FALSE, 0).name = Slot(v, FALSE, 0).name
        BY <4>1, Zenon
      <4> DEFINE p == Slot(u, FALSE, 0).name
                 q == Slot(v, FALSE, 0).name
      <4>4. p = u /\ q = v /\ p = q
        BY <4>2, <4>3, Zenon
      <4> HIDE DEF p, q
      <4>5. u = v
        BY <4>4
      <4> QED BY <4>5 DEF u, v
    <3>2. \A p, q : <<p, q>>[1] = p /\ <<p, q>>[2] = q
      OBVIOUS
    <3>3. <<a, x>>[1] = <<b, y>>[1] /\ <<a, x>>[2] = <<b, y>>[2]
      BY <3>1
    <3> QED BY <3>2, <3>3
  <2> QED BY <2>1
<1>2. "t" # "sc"
  OBVIOUS
<1> QED BY <1>1, <1>2 DEF Temp, ShortSlot

\* One name more, with a number at or above its count.
LEMMA MadeGrows ==
  ASSUME NEW S, NEW ms \in Seq(S), NEW l \in Nat, NEW t \in Nat, Below(ms, l, t), Apart(ms),
         NEW l2 \in Nat, NEW t2 \in Nat, l <= l2, t <= t2, NEW n \in Nat, NEW x,
         (x = ShortSlot(n) /\ l <= n /\ n < l2) \/ (x = Temp(n) /\ t <= n /\ n < t2)
  PROVE  /\ Append(ms, x) \in Seq(S \cup {x})
         /\ Below(Append(ms, x), l2, t2) /\ Apart(Append(ms, x))
<1>1. ms \in Seq(S \cup {x}) /\ x \in S \cup {x}
  OBVIOUS
<1> DEFINE xs == Append(ms, x)
<1>2. /\ xs \in Seq(S \cup {x}) /\ Len(xs) = Len(ms) + 1 /\ xs[Len(ms) + 1] = x
      /\ DOMAIN xs = 1 .. Len(ms) + 1 /\ DOMAIN ms = 1 .. Len(ms) /\ Len(ms) \in Nat
      /\ \A i \in 1 .. Len(ms) : xs[i] = ms[i]
  BY <1>1
<1> HIDE DEF xs
<1>3. \A i \in DOMAIN xs : i \in DOMAIN ms \/ i = Len(ms) + 1
  BY <1>2
<1>4. \A i \in DOMAIN ms : MadeBelow(ms[i], l2, t2) /\ ms[i] # x
  <2>1. ASSUME NEW i \in DOMAIN ms PROVE MadeBelow(ms[i], l2, t2) /\ ms[i] # x
    <3>1. PICK k \in Nat : (ms[i] = ShortSlot(k) /\ k < l) \/ (ms[i] = Temp(k) /\ k < t)
      BY DEF Below, MadeBelow
    <3>2. k < l => k < l2
      OBVIOUS
    <3>3. k < t => k < t2
      OBVIOUS
    <3>4. MadeBelow(ms[i], l2, t2)
      BY <3>1, <3>2, <3>3 DEF MadeBelow
    <3>5. CASE x = ShortSlot(n) /\ l <= n
      <4>1. k < l => k # n
        BY <3>5
      <4> QED BY <3>1, <3>4, <3>5, <4>1, NumbersTell
    <3>6. CASE x = Temp(n) /\ t <= n
      <4>1. k < t => k # n
        BY <3>6
      <4> QED BY <3>1, <3>4, <3>6, <4>1, NumbersTell
    <3> QED BY <3>5, <3>6
  <2> QED BY <2>1
<1>5. MadeBelow(x, l2, t2)
  BY DEF MadeBelow
<1>6. Below(xs, l2, t2)
  BY <1>2, <1>3, <1>4, <1>5 DEF Below
<1>7. Apart(xs)
  <2>1. \A i, j \in DOMAIN ms : i # j => ms[i] # ms[j]
    BY DEF Apart
  <2> QED BY <1>2, <1>3, <1>4, <2>1 DEF Apart
<1> QED BY <1>2, <1>6, <1>7 DEF xs

\* A result or none.
LEMMA ResultsKeep ==
  ASSUME MadeInv, NEW from \in Nat, temps <= from, NEW k \in {0, 1}, Results(from, k)
  PROVE  /\ labels' \in Nat /\ temps' \in Nat /\ \E S : made' \in Seq(S)
         /\ Below(made', labels', temps') /\ MadeDistinct'
<1>1. /\ labels \in Nat /\ temps \in Nat /\ Below(made, labels, temps) /\ Apart(made)
      /\ labels' = labels /\ temps' = from + k
      /\ made' = made \o [i \in 1 .. k |-> Temp(from + i - 1)]
  BY DEF MadeInv, MadeDistinct, Apart, Results
<1>2. PICK S : made \in Seq(S)
  BY DEF MadeInv
<1>3. CASE k = 0
  <2>1. [i \in 1 .. k |-> Temp(from + i - 1)] = <<>>
    BY <1>3
  <2>2. made' = made
    BY <1>1, <1>2, <2>1
  <2>3. Below(made, labels, temps')
    <3>1. ASSUME NEW i \in DOMAIN made PROVE MadeBelow(made[i], labels, temps')
      <4>1. PICK n \in Nat : \/ (made[i] = ShortSlot(n) /\ n < labels)
                             \/ (made[i] = Temp(n) /\ n < temps)
        BY <1>1 DEF Below, MadeBelow
      <4>2. n < temps => n < temps'
        BY <1>1, <1>3
      <4> QED BY <4>1, <4>2 DEF MadeBelow
    <3> QED BY <3>1 DEF Below
  <2>4. MadeDistinct'
    BY <1>1, <2>2 DEF MadeDistinct, Apart
  <2>5. temps' \in Nat /\ labels' \in Nat
    BY <1>1, <1>3
  <2> QED BY <1>1, <1>2, <2>2, <2>3, <2>4, <2>5
<1>4. CASE k = 1
  <2>1. [i \in 1 .. k |-> Temp(from + i - 1)] = <<Temp(from)>>
    <3>1. \A i \in 1 .. 1 : from + i - 1 = from
      OBVIOUS
    <3>2. [i \in 1 .. 1 |-> Temp(from + i - 1)] = [i \in 1 .. 1 |-> Temp(from)]
      BY <3>1
    <3>3. [i \in 1 .. 1 |-> Temp(from)] = <<Temp(from)>>
      OBVIOUS
    <3> QED BY <1>4, <3>2, <3>3
  <2>2. made' = Append(made, Temp(from))
    <3>1. \A x : made \o <<x>> = Append(made, x)
      BY <1>2
    <3> QED BY <1>1, <2>1, <3>1
  <2>3. temps' \in Nat /\ temps <= temps' /\ from < temps' /\ labels' = labels
    BY <1>1, <1>4
  <2> DEFINE x == Temp(from)
  <2>4. /\ Append(made, x) \in Seq(S \cup {x})
        /\ Below(Append(made, x), labels', temps') /\ Apart(Append(made, x))
    <3>1. /\ labels' \in Nat /\ labels <= labels'
          /\ x = Temp(from) /\ temps <= from /\ from < temps'
      BY <1>1, <2>3
    <3> HIDE DEF x
    <3> QED BY <1>1, <1>2, <2>3, <3>1, MadeGrows
  <2>5. MadeDistinct'
    BY <2>2, <2>4 DEF MadeDistinct, Apart
  <2>6. made' \in Seq(S \cup {x}) /\ Below(made', labels', temps')
    BY <2>2, <2>4
  <2> QED BY <1>1, <2>3, <2>5, <2>6
<1> QED BY <1>3, <1>4

LEMMA MadeLower ==
  ASSUME MadeInv, LowerStep
  PROVE  MadeInv'
<1>1. text' = text
  BY DEF LowerStep, LowerFn, LowerOpen, LowerClose, LowerLet, LowerUse, LowerAddress,
         LowerCall, LowerLogic, LowerMatch, LowerArm, LowerEndArm, LowerDone, semaVars
<1>2. pos \in Nat /\ pos' \in {pos, pos + 1}
  BY DEF LowerStep, LowerFn, LowerOpen, LowerClose, LowerLet, LowerUse, LowerAddress,
         LowerCall, LowerLogic, LowerMatch, LowerArm, LowerEndArm, LowerDone, Answer, lowerVars,
         MadeInv
<1>3. SUFFICES /\ labels' \in Nat /\ temps' \in Nat /\ \E S : made' \in Seq(S)
               /\ Below(made', labels', temps') /\ MadeDistinct'
  BY <1>1, <1>2 DEF MadeInv
<1>4. labels \in Nat /\ temps \in Nat /\ temps + 1 \in Nat
  BY DEF MadeInv
<1>5. \A ds : Loads(ds) \in {0, 1}
  BY DEF Loads
<1>6. CASE LowerFn
  <2>1. made' = <<>> /\ labels' = labels /\ temps' = Len(This.names)
    BY <1>6 DEF LowerFn
  <2>2. pos < Len(text) /\ text[pos + 1].op = "fn"
    BY <1>6 DEF LowerFn, AtElem
  <2>3. PICK S : text \in Seq(S)
    BY DEF MadeInv
  <2>4. pos + 1 \in 1 .. Len(text)
    BY <1>2, <2>2, <2>3
  <2>5. This.names \in Seq(Name)
    BY <2>2, <2>4 DEF MadeInv, IsFnHead, This
  <2>6. temps' \in Nat
    BY <2>1, <2>5
  <2>7. <<>> \in Seq({}) /\ DOMAIN <<>> = {}
    OBVIOUS
  <2>8. Below(made', labels', temps') /\ MadeDistinct'
    BY <2>1, <2>7 DEF Below, MadeDistinct
  <2> QED BY <1>4, <2>1, <2>6, <2>7, <2>8
<1>7. CASE LowerLet
  <2>1. PICK k \in {0, 1} : Results(temps + 1, k)
    BY <1>5, <1>7 DEF LowerLet
  <2>2. temps <= temps + 1
    BY <1>4
  <2> QED BY <1>4, <2>1, <2>2, ResultsKeep
<1>8. CASE LowerUse \/ LowerCall \/ LowerArm
  <2>1. PICK k \in {0, 1} : Results(temps, k)
    BY <1>5, <1>8 DEF LowerUse, LowerCall, LowerArm
  <2>2. temps <= temps
    BY <1>4
  <2> QED BY <1>4, <2>1, <2>2, ResultsKeep
<1>9. CASE LowerLogic
  <2>1. PICK n \in labels .. labels + MaxGap, m \in temps + 1 .. temps + 1 + MaxGap :
          /\ made' = made \o <<ShortSlot(n), Temp(m)>>
          /\ labels' = n + 3 /\ temps' = m + 1
    BY <1>9 DEF LowerLogic
  <2>2. /\ n \in Nat /\ m \in Nat /\ labels <= n /\ n < labels' /\ temps <= m /\ m < temps'
        /\ labels' \in Nat /\ temps' \in Nat /\ labels <= labels' /\ temps <= temps'
    BY <1>4, <2>1, ScopingAssumption
  <2>3. PICK S : made \in Seq(S)
    BY DEF MadeInv
  <2> DEFINE a == ShortSlot(n)
             b == Temp(m)
             ms == Append(made, a)
  <2>4. made' = Append(ms, b)
    <3>1. \A x, y : made \o <<x, y>> = Append(Append(made, x), y)
      <4>1. ASSUME NEW x, NEW y PROVE made \o <<x, y>> = Append(Append(made, x), y)
        <5>1. made \in Seq(S \cup {x, y}) /\ x \in S \cup {x, y} /\ y \in S \cup {x, y}
          BY <2>3
        <5> DEFINE T == S \cup {x, y}
                   p == made \o <<x, y>>
                   q == Append(Append(made, x), y)
        <5>2. x \in T /\ y \in T /\ made \in Seq(T)
          BY <5>1
        <5> HIDE DEF T
        <5>3. /\ p \in Seq(T) /\ q \in Seq(T) /\ Len(p) = Len(made) + 2 /\ Len(q) = Len(made) + 2
              /\ \A i \in 1 .. Len(p) : p[i] = q[i]
          BY <5>2
        <5> HIDE DEF p, q
        <5>4. p = q
          BY <5>3, SeqEqual
        <5> QED BY <5>4 DEF p, q
      <4> QED BY <4>1
    <3> QED BY <2>1, <3>1
  <2>5. /\ ms \in Seq(S \cup {a}) /\ Below(ms, labels', temps) /\ Apart(ms)
    <3>1. Below(made, labels, temps) /\ Apart(made) /\ temps <= temps
      BY <1>4 DEF MadeInv, MadeDistinct, Apart
    <3> QED BY <1>4, <2>2, <2>3, <3>1, MadeGrows
  <2> HIDE DEF ms
  <2>6. /\ Append(ms, b) \in Seq((S \cup {a}) \cup {b})
        /\ Below(Append(ms, b), labels', temps') /\ Apart(Append(ms, b))
    <3>1. labels' <= labels' /\ (b = Temp(m) /\ temps <= m /\ m < temps')
      BY <2>2
    <3> HIDE DEF b, a
    <3> QED BY <1>4, <2>2, <2>5, <3>1, MadeGrows
  <2>7. MadeDistinct'
    BY <2>4, <2>6 DEF MadeDistinct, Apart
  <2> QED BY <2>2, <2>4, <2>6, <2>7
<1>10. CASE \/ LowerOpen \/ LowerClose \/ LowerAddress \/ LowerMatch \/ LowerEndArm \/ LowerDone
  <2>1. UNCHANGED madeVars
    BY <1>10 DEF LowerOpen, LowerClose, LowerAddress, LowerMatch, LowerEndArm, LowerDone, lowerVars
  <2> QED BY <2>1 DEF MadeInv, MadeDistinct, madeVars
<1> QED BY <1>6, <1>7, <1>8, <1>9, <1>10 DEF LowerStep

\* However names are shadowed or repeated in sibling blocks, no two variables of
\* a function have slots of one name; the names made up are distinct; and only a
\* local spelled like a made-up name has one of them (lowering.c:92-121, ir.c:371).
THEOREM SlotsHaveOwnNames == Spec => []SlotsDistinct
<1>1. Init => SlotsInv /\ MadeInv
  <2>1. <<>> \in Seq({}) /\ DOMAIN <<>> = {} /\ Len(<<>>) = 0
    OBVIOUS
  <2> QED BY <2>1 DEF Init, SlotsInv, DeclaredDistinct, MadeInv, MadeDistinct, Below
<1>2. SlotsInv /\ MadeInv /\ [Next]_vars => SlotsInv' /\ MadeInv'
  <2> SUFFICES ASSUME SlotsInv, MadeInv, [Next]_vars PROVE SlotsInv' /\ MadeInv'
    OBVIOUS
  <2>1. CASE UNCHANGED vars
    <3>1. /\ pos' = pos /\ text' = text /\ slots' = slots /\ made' = made
          /\ labels' = labels /\ temps' = temps
      BY <2>1 DEF vars, semaVars, lowerVars, madeVars
    <3> QED BY <3>1 DEF SlotsInv, DeclaredDistinct, MadeInv, MadeDistinct
  <2>2. CASE SemaStep
    <3>1. SlotsInv'
      BY <2>2, SemaSlots
    <3>2. made' = made /\ labels' = labels /\ temps' = temps
      BY <2>2 DEF SemaStep, SemaFn, SemaOpen, SemaClose, SemaEndFn, SemaLet, SemaUse, SemaAddress,
         SemaCall, SemaLogic, SemaMatch, SemaArm, SemaEndArm, SemaEndMatch, SemaAccepts, Reject,
         lowerVars, madeVars
    <3> QED BY <3>1, <3>2 DEF SlotsInv, MadeInv, MadeDistinct
  <2>3. CASE LowerStep
    BY <2>3, LowerSlots, MadeLower
  <2> QED BY <2>1, <2>2, <2>3 DEF Next
<1>3. SlotsInv /\ MadeInv => SlotsDistinct
  <2> SUFFICES ASSUME SlotsInv, MadeInv PROVE SlotsDistinct
    OBVIOUS
  <2>1. ASSUME NEW i \in DOMAIN slots, NEW j \in DOMAIN made, slots[i] = made[j]
        PROVE  slots[i].name \in MadeUp
    <3>1. PICK n \in Nat : made[j] = ShortSlot(n) \/ made[j] = Temp(n)
      BY DEF MadeInv, Below, MadeBelow
    <3>2. \A u : Slot(u, FALSE, 0).name = u
      BY DEF Slot
    <3>3. <<"sc", n>> \in MadeUp /\ <<"t", n>> \in MadeUp
      BY DEF MadeUp
    <3> QED BY <2>1, <3>1, <3>2, <3>3 DEF ShortSlot, Temp
  <2> QED BY <2>1 DEF SlotsInv, MadeInv, SlotsDistinct
<1> QED BY <1>1, <1>2, <1>3, PTL DEF Spec


-----------------------------------------------------------------------------
(* The vector and its marks, seen as a stack of scopes *)

EmptyMap == [n \in {} |-> n]
Bindings == UNION {[M -> Decl] : M \in SUBSET Name}

\* The marks lie in the vector and never step back.
MarksIn(ds, ms) ==
  /\ ms \in Seq(Nat)
  /\ \A i \in 1 .. Len(ms) : ms[i] <= Len(ds)
  /\ \A i, j \in 1 .. Len(ms) : i <= j => ms[i] <= ms[j]

\* Where the k-th scope ends.
ScopeEnd(ds, ms, k) == IF k = Len(ms) THEN Len(ds) ELSE ms[k + 1]

\* A set of places of the vector has a last one.
LEMMA LastOf ==
  ASSUME NEW m \in Nat, NEW T \in SUBSET (1 .. m), T # {}
  PROVE  Innermost(T) \in T /\ \A j \in T : j <= Innermost(T)
<1> DEFINE R == {m - i : i \in T}
<1>1. R \in SUBSET Nat /\ R # {}
  <2>1. \A i \in T : i \in 1 .. m
    OBVIOUS
  <2>2. \A i \in T : m - i \in Nat
    BY <2>1
  <2> QED BY <2>2
<1>2. PICK k \in R : \A j \in R : k <= j
  <2> HIDE DEF R
  <2> QED BY <1>1, LeastOf
<1>3. PICK i \in T : k = m - i
  BY <1>2
<1>4. ASSUME NEW j \in T PROVE j <= i
  <2>1. m - i <= m - j
    BY <1>2, <1>3
  <2>2. i \in 1 .. m /\ j \in 1 .. m
    OBVIOUS
  <2> HIDE DEF R
  <2> QED BY <2>1, <2>2
<1> QED BY <1>4 DEF Innermost

\* The last place of a set is the only one no place of it is behind.
LEMMA LastIs ==
  ASSUME NEW m \in Nat, NEW T \in SUBSET (1 .. m), NEW i \in T, \A j \in T : j <= i
  PROVE  Innermost(T) = i
<1>1. Innermost(T) \in T /\ \A j \in T : j <= Innermost(T)
  BY LastOf
<1>2. Innermost(T) <= i /\ i <= Innermost(T)
  BY <1>1
<1>3. Innermost(T) \in 1 .. m /\ i \in 1 .. m
  BY <1>1
<1> QED BY <1>2, <1>3

Declares(ds, from, to, n) == {i \in from .. to : ds[i].name = n}

LEMMA MapDomain ==
  ASSUME NEW ds, NEW from, NEW to
  PROVE  /\ DOMAIN ScopeMap(ds, from, to) = {ds[i].name : i \in from .. to}
         /\ \A n : n \in DOMAIN ScopeMap(ds, from, to) <=> Declares(ds, from, to, n) # {}
BY DEF ScopeMap, Declares

LEMMA MapAt ==
  ASSUME NEW ds, NEW from, NEW to, NEW n \in DOMAIN ScopeMap(ds, from, to)
  PROVE  /\ Declares(ds, from, to, n) # {}
         /\ ScopeMap(ds, from, to)[n] = ds[Innermost(Declares(ds, from, to, n))]
BY DEF ScopeMap, Declares

\* A scope with nothing in it.
LEMMA MapOfNothing ==
  ASSUME NEW ds, NEW m \in Nat
  PROVE  ScopeMap(ds, m + 1, m) = EmptyMap
<1>1. m + 1 .. m = {}
  OBVIOUS
<1>2. {ds[i].name : i \in m + 1 .. m} = {}
  BY <1>1
<1> QED BY <1>2 DEF ScopeMap, EmptyMap

\* Only the declarations between its ends count.
LEMMA MapIsLocal ==
  ASSUME NEW ds, NEW es, NEW from \in Nat \ {0}, NEW to \in Nat,
         \A i \in from .. to : ds[i] = es[i]
  PROVE  ScopeMap(ds, from, to) = ScopeMap(es, from, to)
<1> DEFINE f == ScopeMap(ds, from, to)
           g == ScopeMap(es, from, to)
<1>1. \A n : Declares(ds, from, to, n) = Declares(es, from, to, n)
  BY DEF Declares
<1>2. DOMAIN f = DOMAIN g
  BY DEF ScopeMap
<1>3. ASSUME NEW n \in DOMAIN f PROVE f[n] = g[n]
  <2> DEFINE T == Declares(ds, from, to, n)
  <2>1. T # {} /\ f[n] = ds[Innermost(T)]
    BY MapAt
  <2>2. g[n] = es[Innermost(T)]
    <3>1. n \in DOMAIN g
      BY <1>2
    <3>2. g[n] = es[Innermost(Declares(es, from, to, n))]
      BY <3>1, MapAt
    <3> QED BY <1>1, <3>2
  <2>3. T \in SUBSET (1 .. to) /\ T \in SUBSET (from .. to)
    BY DEF Declares
  <2> HIDE DEF T
  <2>4. Innermost(T) \in from .. to
    BY <2>1, <2>3, LastOf
  <2> QED BY <2>1, <2>2, <2>4
<1>4. f = [n \in DOMAIN f |-> f[n]] /\ g = [n \in DOMAIN g |-> g[n]]
  BY DEF ScopeMap
<1> HIDE DEF f, g
<1>5. f = g
  BY <1>2, <1>3, <1>4
<1> QED BY <1>5 DEF f, g

LEMMA MapIsBinding ==
  ASSUME NEW ds \in Seq(LocalDecl), NEW from \in Nat \ {0}, NEW to \in 0 .. Len(ds)
  PROVE  ScopeMap(ds, from, to) \in Bindings
<1> DEFINE f == ScopeMap(ds, from, to)
<1>1. \A i \in from .. to : ds[i] \in Decl /\ ds[i].name \in Name
  <2>1. \A i \in from .. to : i \in 1 .. Len(ds)
    OBVIOUS
  <2> QED BY <2>1 DEF LocalDecl, Decl
<1>2. DOMAIN f \in SUBSET Name
  BY <1>1 DEF ScopeMap
<1>3. ASSUME NEW n \in DOMAIN f PROVE f[n] \in Decl
  <2> DEFINE T == Declares(ds, from, to, n)
  <2>1. T # {} /\ f[n] = ds[Innermost(T)]
    BY MapAt
  <2>2. to \in Nat /\ T \in SUBSET (1 .. to) /\ T \in SUBSET (from .. to)
    BY DEF Declares
  <2> HIDE DEF T
  <2>3. Innermost(T) \in from .. to
    BY <2>1, <2>2, LastOf
  <2> QED BY <1>1, <2>1, <2>3
<1>4. f = [n \in DOMAIN f |-> f[n]]
  BY DEF ScopeMap
<1> HIDE DEF f
<1>5. f \in [DOMAIN f -> Decl]
  BY <1>3, <1>4
<1>6. f \in Bindings
  BY <1>2, <1>5 DEF Bindings
<1> QED BY <1>6 DEF f

\* One declaration more, of a name the scope does not have.
LEMMA MapBinds ==
  ASSUME NEW ds \in Seq(LocalDecl), NEW d \in LocalDecl, NEW from \in Nat \ {0},
         from <= Len(ds) + 1, Declares(ds, from, Len(ds), d.name) = {}
  PROVE  ScopeMap(Append(ds, d), from, Len(ds) + 1) =
           [m \in DOMAIN ScopeMap(ds, from, Len(ds)) \cup {d.name} |->
              IF m = d.name THEN d ELSE ScopeMap(ds, from, Len(ds))[m]]
<1> DEFINE N  == Len(ds)
           es == Append(ds, d)
           f  == ScopeMap(ds, from, N)
           g  == ScopeMap(es, from, N + 1)
           h  == [m \in DOMAIN f \cup {d.name} |-> IF m = d.name THEN d ELSE f[m]]
<1>1. N \in Nat /\ es[N + 1] = d /\ \A i \in 1 .. N : es[i] = ds[i]
  OBVIOUS
<1> HIDE DEF es
<1>2. Declares(es, from, N + 1, d.name) = {N + 1}
  <2>1. ASSUME NEW i \in from .. N + 1, es[i].name = d.name PROVE i = N + 1
    <3>1. i # N + 1 => i \in from .. N /\ es[i] = ds[i]
      BY <1>1
    <3> QED BY <2>1, <3>1 DEF Declares
  <2>2. N + 1 \in from .. N + 1 /\ es[N + 1].name = d.name
    BY <1>1
  <2> QED BY <2>1, <2>2 DEF Declares
<1>3. ASSUME NEW n, n # d.name
      PROVE  Declares(es, from, N + 1, n) = Declares(ds, from, N, n)
  <2>1. ASSUME NEW i \in from .. N + 1, es[i].name = n PROVE i \in from .. N /\ ds[i].name = n
    <3>1. i # N + 1
      BY <1>1, <1>3, <2>1
    <3> QED BY <1>1, <2>1, <3>1
  <2>2. ASSUME NEW i \in from .. N, ds[i].name = n PROVE i \in from .. N + 1 /\ es[i].name = n
    BY <1>1, <2>2
  <2> QED BY <2>1, <2>2 DEF Declares
<1>4. \A n : n \in DOMAIN g <=> n \in DOMAIN f \cup {d.name}
  <2>1. \A n : n \in DOMAIN g <=> Declares(es, from, N + 1, n) # {}
    BY <1>1, MapDomain
  <2>2. \A n : n \in DOMAIN f <=> Declares(ds, from, N, n) # {}
    BY <1>1, MapDomain
  <2> HIDE DEF f, g, N
  <2> QED BY <1>2, <1>3, <2>1, <2>2
<1>5. ASSUME NEW n \in DOMAIN g PROVE g[n] = h[n]
  <2>1. g[n] = es[Innermost(Declares(es, from, N + 1, n))]
    BY MapAt
  <2>2. n \in DOMAIN f \cup {d.name}
    BY <1>4
  <2>3. CASE n = d.name
    <3>1. N + 1 \in Nat /\ {N + 1} \in SUBSET (1 .. N + 1) /\ {N + 1} # {}
      BY <1>1
    <3>2. Innermost({N + 1}) = N + 1
      BY <3>1, LastOf
    <3>3. h[n] = d
      BY <2>3
    <3> QED BY <1>1, <1>2, <2>1, <2>3, <3>2, <3>3
  <2>4. CASE n # d.name
    <3> DEFINE T == Declares(ds, from, N, n)
    <3>1. n \in DOMAIN f /\ h[n] = f[n]
      BY <2>2, <2>4
    <3>2. T # {} /\ f[n] = ds[Innermost(T)]
      BY <3>1, MapAt
    <3>3. T \in SUBSET (1 .. N)
      BY DEF Declares
    <3>4. Declares(es, from, N + 1, n) = T
      BY <1>3, <2>4
    <3> HIDE DEF T
    <3>5. Innermost(T) \in 1 .. N
      BY <1>1, <3>2, <3>3, LastOf
    <3> QED BY <1>1, <2>1, <3>1, <3>2, <3>4, <3>5
  <2> QED BY <2>3, <2>4
<1>6. g = [n \in DOMAIN g |-> g[n]]
  BY DEF ScopeMap
<1>7. h = [n \in DOMAIN h |-> h[n]] /\ DOMAIN h = DOMAIN f \cup {d.name}
  OBVIOUS
<1> HIDE DEF f, g, h, N
<1>8. DOMAIN g = DOMAIN h
  BY <1>4, <1>7
<1>9. g = h
  BY <1>5, <1>6, <1>7, <1>8
<1> QED BY <1>9 DEF f, g, h, N, es

LEMMA NextPlace ==
  ASSUME NEW n \in Nat, NEW k \in 1 .. n, k # n
  PROVE  k + 1 \in 1 .. n /\ k <= k + 1 /\ k \in 1 .. n - 1
OBVIOUS

LEMMA ScopeAt ==
  ASSUME NEW ds \in Seq(LocalDecl), NEW ms, MarksIn(ds, ms)
  PROVE  /\ View(ds, ms) \in Seq(Bindings) /\ Len(View(ds, ms)) = Len(ms)
         /\ \A k \in 1 .. Len(ms) :
              /\ ms[k] \in Nat /\ ScopeEnd(ds, ms, k) \in Nat
              /\ ms[k] <= ScopeEnd(ds, ms, k) /\ ScopeEnd(ds, ms, k) <= Len(ds)
              /\ View(ds, ms)[k] = ScopeMap(ds, ms[k] + 1, ScopeEnd(ds, ms, k))
<1>1. ms \in Seq(Nat) /\ Len(ms) \in Nat /\ Len(ds) \in Nat /\ DOMAIN ms = 1 .. Len(ms)
  BY DEF MarksIn
<1>2. ASSUME NEW k \in 1 .. Len(ms)
      PROVE  /\ ms[k] \in Nat /\ ScopeEnd(ds, ms, k) \in Nat
             /\ ms[k] <= ScopeEnd(ds, ms, k) /\ ScopeEnd(ds, ms, k) <= Len(ds)
  <2>1. ms[k] \in Nat /\ ms[k] <= Len(ds)
    BY <1>1 DEF MarksIn
  <2>2. CASE k = Len(ms)
    BY <1>1, <2>1, <2>2 DEF ScopeEnd
  <2>3. CASE k # Len(ms)
    <3>1. k + 1 \in 1 .. Len(ms) /\ k <= k + 1
      BY <1>1, <2>3, NextPlace
    <3>2. ms[k + 1] \in Nat /\ ms[k + 1] <= Len(ds) /\ ms[k] <= ms[k + 1]
      BY <1>1, <3>1 DEF MarksIn
    <3> QED BY <2>1, <2>3, <3>2 DEF ScopeEnd
  <2> QED BY <2>2, <2>3
<1>3. ASSUME NEW k \in 1 .. Len(ms)
      PROVE  /\ View(ds, ms)[k] = ScopeMap(ds, ms[k] + 1, ScopeEnd(ds, ms, k))
             /\ View(ds, ms)[k] \in Bindings
  <2>1. View(ds, ms)[k] = ScopeMap(ds, ms[k] + 1, ScopeEnd(ds, ms, k))
    BY DEF View, ScopeEnd
  <2>2. ms[k] + 1 \in Nat \ {0} /\ ScopeEnd(ds, ms, k) \in 0 .. Len(ds)
    BY <1>2
  <2> QED BY <2>1, <2>2, MapIsBinding
<1>4. View(ds, ms) \in [1 .. Len(ms) -> Bindings]
  <2>1. View(ds, ms) = [k \in 1 .. Len(ms) |-> View(ds, ms)[k]]
    BY DEF View
  <2> QED BY <1>3, <2>1
<1>5. View(ds, ms) \in Seq(Bindings) /\ Len(View(ds, ms)) = Len(ms)
  BY <1>1, <1>4, SeqDef
<1> QED BY <1>2, <1>3, <1>5

LEMMA ViewOfNothing ==
  ASSUME NEW ds
  PROVE  View(ds, <<>>) = <<>>
BY DEF View

LEMMA EmptyIsBinding == EmptyMap \in Bindings
<1>1. EmptyMap \in [{} -> Decl]
  BY DEF EmptyMap
<1> QED BY <1>1 DEF Bindings

\* A mark for where the vector ends opens a scope with nothing in it.
LEMMA ViewPush ==
  ASSUME NEW ds \in Seq(LocalDecl), NEW ms, MarksIn(ds, ms)
  PROVE  /\ MarksIn(ds, Append(ms, Len(ds)))
         /\ View(ds, Append(ms, Len(ds))) = Append(View(ds, ms), EmptyMap)
<1> DEFINE N  == Len(ms)
           M  == Len(ds)
           qs == Append(ms, M)
<1>1. ms \in Seq(Nat) /\ N \in Nat /\ M \in Nat
  BY DEF MarksIn
<1>2. /\ qs \in Seq(Nat) /\ Len(qs) = N + 1 /\ qs[N + 1] = M
      /\ \A k \in 1 .. N : qs[k] = ms[k]
  BY <1>1
<1> HIDE DEF qs
<1>3. MarksIn(ds, qs)
  <2>1. \A i \in 1 .. N : ms[i] \in Nat /\ ms[i] <= M
    BY <1>1 DEF MarksIn
  <2>2. \A i \in 1 .. N + 1 : i \in 1 .. N \/ i = N + 1
    BY <1>1
  <2>3. \A i \in 1 .. N + 1 : qs[i] <= M
    <3> HIDE DEF N, M
    <3> QED BY <1>1, <1>2, <2>1, <2>2
  <2>4. ASSUME NEW i \in 1 .. N + 1, NEW j \in 1 .. N + 1, i <= j PROVE qs[i] <= qs[j]
    <3>1. CASE j = N + 1
      BY <1>2, <2>3, <3>1
    <3>2. CASE j # N + 1
      <4>1. i \in 1 .. N /\ j \in 1 .. N
        BY <1>1, <2>4, <3>2
      <4> QED BY <1>2, <2>4, <4>1 DEF MarksIn
    <3> QED BY <3>1, <3>2
  <2> QED BY <1>2, <2>3, <2>4 DEF MarksIn
<1>4. View(ds, ms) \in Seq(Bindings) /\ Len(View(ds, ms)) = N
  BY ScopeAt
<1>5. View(ds, qs) \in Seq(Bindings) /\ Len(View(ds, qs)) = N + 1
  BY <1>2, <1>3, ScopeAt
<1> DEFINE v == View(ds, ms)
           w == View(ds, qs)
           x == Append(v, EmptyMap)
<1>6. /\ x \in Seq(Bindings) /\ Len(x) = N + 1 /\ x[N + 1] = EmptyMap
      /\ \A k \in 1 .. N : x[k] = v[k]
  <2> HIDE DEF v
  <2>1. v \in Seq(Bindings) /\ Len(v) = N
    BY <1>4 DEF v
  <2> QED BY <2>1, EmptyIsBinding
<1>7. ASSUME NEW k \in 1 .. N + 1 PROVE w[k] = x[k]
  <2>1. w[k] = ScopeMap(ds, qs[k] + 1, ScopeEnd(ds, qs, k))
    BY <1>2, <1>3, ScopeAt
  <2>2. CASE k = N + 1
    <3>1. qs[k] = M /\ ScopeEnd(ds, qs, k) = M
      BY <1>2, <2>2 DEF ScopeEnd
    <3> QED BY <1>1, <1>6, <2>1, <2>2, <3>1, MapOfNothing
  <2>3. CASE k # N + 1
    <3>1. k \in 1 .. N /\ k # Len(qs)
      BY <1>1, <1>2, <2>3
    <3>2. ScopeEnd(ds, qs, k) = qs[k + 1]
      BY <3>1 DEF ScopeEnd
    <3>3. qs[k + 1] = ScopeEnd(ds, ms, k)
      <4>1. CASE k = N
        BY <1>2, <4>1 DEF ScopeEnd
      <4>2. CASE k # N
        <5>1. k + 1 \in 1 .. N
          BY <1>1, <3>1, <4>2
        <5> QED BY <1>2, <4>2, <5>1 DEF ScopeEnd
      <4> QED BY <4>1, <4>2
    <3>4. v[k] = ScopeMap(ds, ms[k] + 1, ScopeEnd(ds, ms, k))
      BY <3>1, ScopeAt
    <3> QED BY <1>2, <1>6, <2>1, <3>1, <3>2, <3>3, <3>4
  <2> QED BY <2>2, <2>3
<1> HIDE DEF x, v, w, N
<1>8. w = x
  <2>1. w \in Seq(Bindings) /\ Len(w) = N + 1
    BY <1>5 DEF w
  <2> QED BY <1>6, <1>7, <2>1, SeqEqual
<1> QED BY <1>3, <1>8 DEF w, x, v, qs

\* Cutting the vector back at the last mark leaves the scopes around the last.
LEMMA ViewPop ==
  ASSUME NEW ds \in Seq(LocalDecl), NEW ms, MarksIn(ds, ms), ms # <<>>
  PROVE  /\ SubSeq(ds, 1, TopOf(ms)) \in Seq(LocalDecl)
         /\ Len(SubSeq(ds, 1, TopOf(ms))) <= Len(ds)
         /\ MarksIn(SubSeq(ds, 1, TopOf(ms)), Cut(ms))
         /\ View(SubSeq(ds, 1, TopOf(ms)), Cut(ms)) = SubSeq(View(ds, ms), 1, Len(ms) - 1)
<1> DEFINE N  == Len(ms)
           M  == TopOf(ms)
           qs == Cut(ms)
           cs == SubSeq(ds, 1, M)
<1>1. /\ ms \in Seq(Nat) /\ N \in Nat \ {0} /\ Len(ds) \in Nat
      /\ qs \in Seq(Nat) /\ Len(qs) = N - 1 /\ (\A k \in 1 .. N - 1 : qs[k] = ms[k])
      /\ M = ms[N] /\ M \in Nat
  BY CutShortens DEF MarksIn
<1>2. M \in 0 .. Len(ds) /\ \A k \in 1 .. N : ms[k] \in Nat /\ ms[k] <= M
  <2>1. N \in 1 .. N /\ \A k \in 1 .. N : k <= N
    BY <1>1
  <2>2. M <= Len(ds) /\ \A k \in 1 .. N : ms[k] <= M
    BY <1>1, <2>1 DEF MarksIn
  <2> QED BY <1>1, <2>2
<1>3. /\ cs \in Seq(LocalDecl) /\ Len(cs) = M
      /\ \A i \in 1 .. M : cs[i] = ds[i]
  BY <1>2, Prefix
<1> HIDE DEF qs, cs, M
<1>4. MarksIn(cs, qs)
  <2>1. \A k \in 1 .. N - 1 : k \in 1 .. N
    BY <1>1
  <2>2. \A k \in 1 .. N - 1 : qs[k] <= M
    BY <1>1, <1>2, <2>1
  <2>3. \A i, j \in 1 .. N - 1 : i <= j => qs[i] <= qs[j]
    BY <1>1, <2>1 DEF MarksIn
  <2> QED BY <1>1, <1>3, <2>2, <2>3 DEF MarksIn
<1> DEFINE v == View(ds, ms)
           w == View(cs, qs)
           x == SubSeq(v, 1, N - 1)
<1>5. v \in Seq(Bindings) /\ Len(v) = N
  BY ScopeAt
<1>6. w \in Seq(Bindings) /\ Len(w) = N - 1
  BY <1>1, <1>3, <1>4, ScopeAt
<1>7. x \in Seq(Bindings) /\ Len(x) = N - 1 /\ \A k \in 1 .. N - 1 : x[k] = v[k]
  <2> HIDE DEF v
  <2>1. N - 1 \in 0 .. Len(v)
    BY <1>1, <1>5
  <2> QED BY <1>5, <2>1, Prefix
<1>8. ASSUME NEW k \in 1 .. N - 1 PROVE w[k] = x[k]
  <2>1. k \in 1 .. N /\ k + 1 \in 1 .. N /\ k # N /\ k \in 1 .. Len(qs)
    BY <1>1
  <2>2. v[k] = ScopeMap(ds, ms[k] + 1, ms[k + 1])
    <3>1. v[k] = ScopeMap(ds, ms[k] + 1, ScopeEnd(ds, ms, k))
      BY <2>1, ScopeAt
    <3> QED BY <2>1, <3>1 DEF ScopeEnd
  <2>3. w[k] = ScopeMap(cs, ms[k] + 1, ms[k + 1])
    <3>1. w[k] = ScopeMap(cs, qs[k] + 1, ScopeEnd(cs, qs, k))
      BY <1>3, <1>4, <2>1, ScopeAt
    <3>2. ScopeEnd(cs, qs, k) = ms[k + 1]
      <4>1. CASE k = N - 1
        BY <1>1, <1>3, <4>1 DEF ScopeEnd
      <4>2. CASE k # N - 1
        <5>1. k + 1 \in 1 .. N - 1
          BY <1>1, <4>2
        <5> QED BY <1>1, <4>2, <5>1 DEF ScopeEnd
      <4> QED BY <4>1, <4>2
    <3> QED BY <1>1, <3>1, <3>2
  <2>4. ms[k] + 1 \in Nat \ {0} /\ ms[k + 1] \in Nat /\ ms[k + 1] <= M
    BY <1>2, <2>1
  <2>5. \A i \in ms[k] + 1 .. ms[k + 1] : ds[i] = cs[i]
    <3> DEFINE a == ms[k]
               b == ms[k + 1]
    <3>1. a \in Nat /\ b \in Nat /\ M \in Nat /\ b <= M
      BY <1>1, <1>2, <2>1, <2>4
    <3> HIDE DEF a, b
    <3>2. \A i \in a + 1 .. b : i \in 1 .. M
      BY <3>1
    <3>3. \A i \in a + 1 .. b : ds[i] = cs[i]
      BY <1>3, <3>2
    <3> QED BY <3>3 DEF a, b
  <2>6. ScopeMap(ds, ms[k] + 1, ms[k + 1]) = ScopeMap(cs, ms[k] + 1, ms[k + 1])
    BY <2>4, <2>5, MapIsLocal
  <2> QED BY <1>7, <2>2, <2>3, <2>6
<1> HIDE DEF x, v, w, N
<1>9. w = x
  BY <1>6, <1>7, <1>8, SeqEqual
<1>10. M <= Len(ds)
  BY <1>2
<1> QED BY <1>3, <1>4, <1>9, <1>10 DEF w, x, v, qs, cs, M, N

\* The last of the N scopes v gains the declaration d, of a name it did not have.
BindsLast(v, w, N, d) ==
  /\ Len(v) = N /\ Len(w) = N /\ N \in Nat \ {0}
  /\ d.name \notin DOMAIN v[N]
  /\ d.name \in DOMAIN w[N] /\ w[N][d.name] = d
  /\ w = Append(SubSeq(v, 1, N - 1),
                [m \in DOMAIN v[N] \cup {d.name} |-> IF m = d.name THEN d ELSE v[N][m]])

\* A declaration at the end of the vector is one of the last scope.
LEMMA ViewBind ==
  ASSUME NEW ds \in Seq(LocalDecl), NEW ms, MarksIn(ds, ms), ms # <<>>,
         NEW d \in LocalDecl, Hits(ds, d.name, TopOf(ms) + 1) = {},
         NEW v, v = View(ds, ms), NEW w, w = View(Append(ds, d), ms)
  PROVE  MarksIn(Append(ds, d), ms) /\ BindsLast(v, w, Len(ms), d)
<1> DEFINE N  == Len(ms)
           M  == Len(ds)
           es == Append(ds, d)
           b  == [m \in DOMAIN v[N] \cup {d.name} |-> IF m = d.name THEN d ELSE v[N][m]]
           x  == Append(SubSeq(v, 1, N - 1), b)
<1>1. /\ ms \in Seq(Nat) /\ N \in Nat \ {0} /\ M \in Nat /\ TopOf(ms) = ms[N]
      /\ ms[N] \in Nat /\ N \in 1 .. N /\ ms[N] <= M
  <2>1. /\ ms \in Seq(Nat) /\ N \in Nat \ {0} /\ TopOf(ms) = ms[N] /\ ms[N] \in Nat
    BY CutShortens DEF MarksIn
  <2>2. N \in 1 .. N
    BY <2>1
  <2> QED BY <2>1, <2>2 DEF MarksIn
<1>2. /\ es \in Seq(LocalDecl) /\ Len(es) = M + 1
      /\ \A i \in 1 .. M : es[i] = ds[i]
  OBVIOUS
<1> HIDE DEF es, N, M
<1>3. MarksIn(es, ms)
  <2>1. \A i \in 1 .. N : ms[i] \in Nat /\ ms[i] <= M
    BY <1>1 DEF MarksIn, N, M
  <2>2. \A i \in 1 .. N : ms[i] <= Len(es)
    BY <1>1, <1>2, <2>1
  <2> QED BY <2>2 DEF MarksIn, N
<1>4. v \in Seq(Bindings) /\ Len(v) = N
  BY ScopeAt DEF N
<1>5. w \in Seq(Bindings) /\ Len(w) = N
  BY <1>2, <1>3, ScopeAt DEF N, es
<1>6. v[N] = ScopeMap(ds, ms[N] + 1, M)
  <2>1. v[N] = ScopeMap(ds, ms[N] + 1, ScopeEnd(ds, ms, N))
    BY <1>1, ScopeAt DEF N
  <2> QED BY <2>1 DEF ScopeEnd, N, M
<1>7. w[N] = ScopeMap(es, ms[N] + 1, M + 1)
  <2>1. w[N] = ScopeMap(es, ms[N] + 1, ScopeEnd(es, ms, N))
    BY <1>1, <1>2, <1>3, ScopeAt DEF N, es
  <2> QED BY <1>2, <2>1 DEF ScopeEnd, N, M
<1>8. Declares(ds, ms[N] + 1, M, d.name) = {}
  BY <1>1 DEF Hits, Declares, M
<1>9. w[N] = b
  <2>1. ms[N] + 1 \in Nat \ {0} /\ ms[N] + 1 <= M + 1
    BY <1>1
  <2> DEFINE f == ScopeMap(ds, ms[N] + 1, M)
  <2>2. ScopeMap(es, ms[N] + 1, M + 1) =
          [m \in DOMAIN f \cup {d.name} |-> IF m = d.name THEN d ELSE f[m]]
    BY <1>8, <2>1, MapBinds DEF M, es
  <2>3. v[N] = f
    BY <1>6
  <2> HIDE DEF f
  <2>4. ScopeMap(es, ms[N] + 1, M + 1) = b
    BY <2>2, <2>3
  <2> QED BY <1>7, <2>4
<1>10. d.name \notin DOMAIN v[N]
  BY <1>6, <1>8, MapDomain
<1>11. d.name \in DOMAIN b /\ b[d.name] = d
  OBVIOUS
<1>12. b \in Bindings
  <2> HIDE DEF b
  <2>1. N \in 1 .. Len(w)
    BY <1>1, <1>5
  <2>2. w[N] \in Bindings
    BY <1>5, <2>1, ElementOfSeq
  <2> QED BY <1>9, <2>2
<1> HIDE DEF b
<1>13. x \in Seq(Bindings) /\ Len(x) = N /\ x[N] = b /\ \A k \in 1 .. N - 1 : x[k] = v[k]
  <2> DEFINE y == SubSeq(v, 1, N - 1)
  <2>1. N - 1 \in 0 .. Len(v)
    BY <1>1, <1>4
  <2>2. y \in Seq(Bindings) /\ Len(y) = N - 1 /\ \A k \in 1 .. N - 1 : y[k] = v[k]
    BY <1>4, <2>1, Prefix
  <2> HIDE DEF y
  <2>3. /\ Append(y, b) \in Seq(Bindings) /\ Len(Append(y, b)) = Len(y) + 1
        /\ Append(y, b)[Len(y) + 1] = b /\ \A k \in 1 .. Len(y) : Append(y, b)[k] = y[k]
    BY <1>12, <2>2
  <2>4. Len(y) + 1 = N
    BY <1>1, <2>2
  <2> QED BY <2>2, <2>3, <2>4 DEF y
<1> HIDE DEF x
<1>14. ASSUME NEW k \in 1 .. N PROVE w[k] = x[k]
  <2>1. CASE k = N
    BY <1>9, <1>13, <2>1
  <2>2. CASE k # N
    <3>1. k + 1 \in 1 .. N /\ k \in 1 .. N - 1
      BY <1>1, <2>2, NextPlace
    <3>2. v[k] = ScopeMap(ds, ms[k] + 1, ms[k + 1])
      <4>1. v[k] = ScopeMap(ds, ms[k] + 1, ScopeEnd(ds, ms, k))
        BY ScopeAt DEF N
      <4> QED BY <2>2, <4>1 DEF ScopeEnd, N
    <3>3. w[k] = ScopeMap(es, ms[k] + 1, ms[k + 1])
      <4>1. w[k] = ScopeMap(es, ms[k] + 1, ScopeEnd(es, ms, k))
        BY <1>2, <1>3, ScopeAt DEF N, es
      <4> QED BY <2>2, <4>1 DEF ScopeEnd, N
    <3>4. ms[k] \in Nat /\ ms[k + 1] \in Nat /\ ms[k + 1] <= M
      BY <3>1 DEF MarksIn, N, M
    <3>5. \A i \in ms[k] + 1 .. ms[k + 1] : ds[i] = es[i]
      <4> DEFINE p == ms[k]
                 q == ms[k + 1]
      <4>1. p \in Nat /\ q \in Nat /\ M \in Nat /\ q <= M
        BY <1>1, <3>4
      <4> HIDE DEF p, q
      <4>2. \A i \in p + 1 .. q : i \in 1 .. M
        BY <4>1
      <4>3. \A i \in p + 1 .. q : ds[i] = es[i]
        BY <1>2, <4>2
      <4> QED BY <4>3 DEF p, q
    <3>6. ms[k] + 1 \in Nat \ {0}
      BY <3>4
    <3>7. ScopeMap(ds, ms[k] + 1, ms[k + 1]) = ScopeMap(es, ms[k] + 1, ms[k + 1])
      <4> DEFINE p == ms[k] + 1
                 q == ms[k + 1]
      <4>1. p \in Nat \ {0} /\ q \in Nat /\ \A i \in p .. q : ds[i] = es[i]
        BY <3>4, <3>5, <3>6
      <4> HIDE DEF p, q
      <4>2. ScopeMap(ds, p, q) = ScopeMap(es, p, q)
        BY <4>1, MapIsLocal
      <4> QED BY <4>2 DEF p, q
    <3>8. w[k] = v[k]
      BY <3>2, <3>3, <3>7
    <3>9. x[k] = v[k]
      BY <1>13, <3>1
    <3> QED BY <3>8, <3>9
  <2> QED BY <2>1, <2>2
<1>15. w = x
  BY <1>5, <1>13, <1>14, SeqEqual
<1>16. d.name \in DOMAIN w[N] /\ w[N][d.name] = d
  BY <1>9, <1>11
<1>17. BindsLast(v, w, N, d)
  BY <1>1, <1>4, <1>5, <1>10, <1>15, <1>16 DEF BindsLast, x, b
<1> QED BY <1>3, <1>17 DEF es, N

\* A function's parameters are one scope, its body's another.
LEMMA ViewFn ==
  ASSUME NEW ds \in Seq(LocalDecl), NEW w, w = View(ds, <<0, Len(ds)>>)
  PROVE  /\ MarksIn(ds, <<0, Len(ds)>>)
         /\ Len(w) = 2 /\ w[1] \in Bindings /\ w[2] = EmptyMap
<1> DEFINE ms == <<0>>
           v  == View(ds, ms)
<1>1. Len(ds) \in Nat
  OBVIOUS
<1>2. ms \in Seq(Nat) /\ Len(ms) = 1 /\ ms[1] = 0 /\ Append(ms, Len(ds)) = <<0, Len(ds)>>
  <2>1. ms \in Seq(Nat) /\ Len(ms) = 1 /\ ms[1] = 0
    OBVIOUS
  <2>2. ASSUME NEW n \in Nat PROVE Append(<<0>>, n) = <<0, n>>
    <3> DEFINE p == Append(<<0>>, n)
               q == <<0, n>>
    <3>1. <<0>> \in Seq(Nat) /\ Len(<<0>>) = 1 /\ <<0>>[1] = 0
      OBVIOUS
    <3>2. p \in Seq(Nat) /\ Len(p) = 2 /\ p[1] = 0 /\ p[2] = n
      BY <3>1, AppendProperties
    <3>3. q \in Seq(Nat) /\ Len(q) = 2 /\ q[1] = 0 /\ q[2] = n
      OBVIOUS
    <3> HIDE DEF p, q
    <3>4. \A i \in 1 .. 2 : i = 1 \/ i = 2
      OBVIOUS
    <3>5. p = q
      BY <3>2, <3>3, <3>4, SeqEqual
    <3> QED BY <3>5 DEF p, q
  <2> QED BY <1>1, <2>1, <2>2
<1> HIDE DEF ms
<1>3. MarksIn(ds, ms)
  BY <1>1, <1>2 DEF MarksIn
<1>4. v \in Seq(Bindings) /\ Len(v) = 1
  BY <1>2, <1>3, ScopeAt
<1>5. MarksIn(ds, <<0, Len(ds)>>) /\ w = Append(v, EmptyMap)
  <2>1. /\ MarksIn(ds, Append(ms, Len(ds)))
        /\ View(ds, Append(ms, Len(ds))) = Append(v, EmptyMap)
    BY <1>3, ViewPush
  <2> HIDE DEF v
  <2> QED BY <1>2, <2>1
<1> HIDE DEF v
<1>6. ASSUME NEW e \in Bindings
      PROVE  /\ Len(Append(v, e)) = 2 /\ v[1] \in Bindings
             /\ Append(v, e)[1] = v[1] /\ Append(v, e)[2] = e
  <2>1. /\ Len(Append(v, e)) = Len(v) + 1 /\ Append(v, e)[Len(v) + 1] = e
        /\ \A k \in 1 .. Len(v) : Append(v, e)[k] = v[k]
    <3>1. v \in Seq(Bindings)
      BY <1>4
    <3> QED BY <3>1
  <2>2. Len(v) + 1 = 2 /\ 1 \in 1 .. Len(v)
    BY <1>4
  <2>3. v[1] \in Bindings
    BY <1>4, <2>2, ElementOfSeq
  <2> QED BY <2>1, <2>2, <2>3
<1> QED BY <1>5, <1>6, EmptyIsBinding

-----------------------------------------------------------------------------
(* Looking a name up *)

Having(v, n) == {k \in 1 .. Len(v) : n \in DOMAIN v[k]}

\* The last place of the vector with the name is in the innermost scope that
\* has it, and is the last one there.
LEMMA LookUp ==
  ASSUME NEW ds \in Seq(LocalDecl), NEW ms, MarksIn(ds, ms), ms # <<>>, ms[1] = 0,
         NEW n, NEW v, v = View(ds, ms)
  PROVE  /\ Hits(ds, n, 1) = {} <=> Having(v, n) = {}
         /\ Hits(ds, n, 1) # {} => v[Innermost(Having(v, n))][n] = ds[Innermost(Hits(ds, n, 1))]
<1> DEFINE N == Len(ms)
           M == Len(ds)
           T == Hits(ds, n, 1)
           S == Having(v, n)
<1>1. ms \in Seq(Nat) /\ N \in Nat \ {0} /\ M \in Nat /\ 1 \in 1 .. N
  BY CutShortens DEF MarksIn
<1>2. Len(v) = N /\ \A k \in 1 .. N :
        /\ ms[k] \in Nat /\ ScopeEnd(ds, ms, k) \in Nat
        /\ ScopeEnd(ds, ms, k) <= M
        /\ v[k] = ScopeMap(ds, ms[k] + 1, ScopeEnd(ds, ms, k))
  BY ScopeAt
<1>3. \A k : k \in S <=> k \in 1 .. N /\ Declares(ds, ms[k] + 1, ScopeEnd(ds, ms, k), n) # {}
  BY <1>2, MapDomain DEF Having
<1>4. ASSUME NEW k \in 1 .. N, NEW i \in Declares(ds, ms[k] + 1, ScopeEnd(ds, ms, k), n)
      PROVE  i \in T /\ ms[k] < i
  <2> DEFINE a == ms[k]
             b == ScopeEnd(ds, ms, k)
  <2>1. a \in Nat /\ b \in Nat /\ b <= M
    BY <1>2
  <2> HIDE DEF a, b
  <2>2. i \in a + 1 .. b /\ ds[i].name = n
    BY DEF Declares, a, b
  <2>3. i \in 1 .. M /\ a < i
    BY <1>1, <2>1, <2>2
  <2> QED BY <2>2, <2>3 DEF Hits, a
<1>5. CASE T = {}
  BY <1>3, <1>4, <1>5
<1>6. CASE T # {}
  <2> DEFINE h == Innermost(T)
             K == {k \in 1 .. N : ms[k] < h}
             k == Innermost(K)
             U == Declares(ds, ms[k] + 1, ScopeEnd(ds, ms, k), n)
  <2>1. T \in SUBSET (1 .. M)
    BY DEF Hits
  <2> HIDE DEF T
  <2>2. h \in T /\ h \in 1 .. M /\ ds[h].name = n /\ \A j \in T : j <= h
    <3>1. h \in T /\ \A j \in T : j <= h
      BY <1>1, <1>6, <2>1, LastOf
    <3> QED BY <2>1, <3>1 DEF T, Hits
  <2> HIDE DEF h
  <2>3. 1 \in K
    BY <1>1, <2>2
  <2>4. K \in SUBSET (1 .. N) /\ K # {}
    BY <2>3
  <2>5. k \in K /\ \A j \in K : j <= k
    <3> HIDE DEF K
    <3> QED BY <1>1, <2>4, LastOf
  <2> HIDE DEF k
  <2>6. k \in 1 .. N /\ ms[k] \in Nat /\ ms[k] < h /\ ScopeEnd(ds, ms, k) \in Nat
    BY <1>2, <2>5
  <2>7. h <= ScopeEnd(ds, ms, k)
    <3>1. CASE k = N
      BY <2>2, <3>1 DEF ScopeEnd
    <3>2. CASE k # N
      <4>1. k + 1 \in 1 .. N /\ ~(k + 1 <= k)
        BY <1>1, <2>6, <3>2, NextPlace
      <4>2. k + 1 \notin K
        BY <2>5, <4>1
      <4>3. ms[k + 1] \in Nat /\ ~(ms[k + 1] < h)
        BY <1>2, <4>1, <4>2
      <4> QED BY <2>2, <3>2, <4>3 DEF ScopeEnd
    <3> QED BY <3>1, <3>2
  <2>8. h \in U
    <3> DEFINE a == ms[k]
               b == ScopeEnd(ds, ms, k)
    <3>1. a \in Nat /\ b \in Nat /\ a < h /\ h <= b /\ h \in Nat
      BY <1>1, <2>2, <2>6, <2>7
    <3> HIDE DEF a, b
    <3>2. h \in a + 1 .. b
      BY <3>1
    <3> QED BY <2>2, <3>2 DEF Declares, a, b
  <2>9. k \in S
    BY <1>3, <2>6, <2>8
  <2>10. ASSUME NEW j \in S PROVE j <= k
    <3>1. j \in 1 .. N /\ Declares(ds, ms[j] + 1, ScopeEnd(ds, ms, j), n) # {}
      BY <1>3
    <3>2. PICK i \in Declares(ds, ms[j] + 1, ScopeEnd(ds, ms, j), n) : TRUE
      BY <3>1
    <3>3. i \in T /\ ms[j] < i
      BY <1>4, <3>1, <3>2
    <3>4. i \in 1 .. M /\ i <= h /\ ms[j] \in Nat
      BY <1>2, <2>1, <2>2, <3>1, <3>3
    <3>5. ms[j] < h
      BY <1>1, <2>2, <3>3, <3>4
    <3>6. j \in K
      BY <3>1, <3>5
    <3> QED BY <2>5, <3>6
  <2>11. Innermost(S) = k
    <3>1. S \in SUBSET (1 .. N)
      BY <1>3
    <3> HIDE DEF S
    <3> QED BY <1>1, <2>9, <2>10, <3>1, LastIs
  <2>12. n \in DOMAIN v[k] /\ v[k][n] = ds[Innermost(U)]
    <3>1. n \in DOMAIN v[k]
      BY <2>9 DEF Having
    <3> QED BY <1>2, <2>6, <3>1, MapAt
  <2>13. Innermost(U) = h
    <3>1. U \in SUBSET T
      BY <1>4, <2>6
    <3>2. U \in SUBSET (1 .. M) /\ \A j \in U : j <= h
      BY <2>1, <2>2, <3>1
    <3> HIDE DEF U
    <3> QED BY <1>1, <2>8, <3>2, LastIs
  <2> QED BY <1>6, <2>9, <2>11, <2>12, <2>13 DEF h, T
<1> QED BY <1>5, <1>6

-----------------------------------------------------------------------------
(* How many marks there are, in each walk *)

\* The marks inside a construct: s of sema's, l of lowering's.
Depth  == [s : Nat, l : Nat]
Ground == [s |-> 0, l |-> 0]

\* What a construct adds to the marks around it.
Deeper(o, c, d) ==
  /\ o = "fn" => d.s = 2 /\ d.l = 1
  /\ o = "block" => d.s = c.s + 1 /\ d.l = c.l + 1
  /\ o = "match" => d.s = c.s /\ d.l = c.l
  /\ o \in {"arm", "arm_done"} => d.s = c.s /\ d.l = c.l + 1
  /\ d.s >= 2 /\ d.l >= 1

Nested(os, D) ==
  /\ os \in Seq(Opens) /\ D \in Seq(Depth)
  /\ Len(D) = Len(os) + 1 /\ D[1] = Ground
  /\ \A k \in 1 .. Len(os) : Deeper(os[k], D[k], D[k + 1]) /\ (os[k] = "fn" <=> k = 1)

\* What an element of the text does to the number of lowering's marks.
DepthStep(e, a, b) ==
  /\ e.op = "fn" => a = 0 /\ b = 1
  /\ e.op # "fn" => a >= 1
  /\ e.op \in {"open", "arm"} => b = a + 1
  /\ e.op \in {"close", "end_arm"} => b = a - 1
  /\ e.op \in {"let", "use", "address", "call", "logic", "match", "end_match"} => b = a

Depths(t, H) ==
  /\ H \in Seq(Nat) /\ Len(H) = Len(t) + 1 /\ H[1] = 0
  /\ \A i \in 1 .. Len(t) : DepthStep(t[i], H[i], H[i + 1])

\* The text t, in the constructs os, has s marks of sema's open; lowering has l
\* when it has replayed p elements.
Balance(t, os, s, p, l) ==
  \E H, D : /\ Depths(t, H) /\ Nested(os, D)
            /\ H[Len(t) + 1] = D[Len(os) + 1].l
            /\ s = D[Len(os) + 1].s /\ l = H[p + 1]

DepthsTo(u, G, t, H, b) ==
  /\ Depths(u, G) /\ G[Len(u) + 1] = b
  /\ \A p \in 0 .. Len(t) : G[p + 1] = H[p + 1]

LEMMA DepthsGrow ==
  ASSUME NEW t \in Seq(Elements), NEW H, Depths(t, H), NEW e \in Elements, NEW b \in Nat,
         DepthStep(e, H[Len(t) + 1], b)
  PROVE  DepthsTo(Append(t, e), Append(H, b), t, H, b)
<1>1. H \in Seq(Nat) /\ Len(H) = Len(t) + 1 /\ Len(t) \in Nat /\ H[1] = 0
  BY DEF Depths
<1> DEFINE u == Append(t, e)
           G == Append(H, b)
<1>2. /\ u \in Seq(Elements) /\ Len(u) = Len(t) + 1 /\ u[Len(t) + 1] = e
      /\ \A i \in 1 .. Len(t) : u[i] = t[i]
  OBVIOUS
<1>3. /\ G \in Seq(Nat) /\ Len(G) = Len(t) + 2 /\ G[Len(t) + 2] = b
      /\ \A i \in 1 .. Len(t) + 1 : G[i] = H[i]
  BY <1>1
<1>4. ASSUME NEW i \in 1 .. Len(u)
      PROVE  DepthStep(u[i], G[i], G[i + 1])
  <2>1. CASE i = Len(t) + 1
    <3>1. u[i] = e /\ G[i] = H[i] /\ G[i + 1] = b
      BY <1>1, <1>2, <1>3, <2>1
    <3> QED BY <2>1, <3>1
  <2>2. CASE i \in 1 .. Len(t)
    <3>1. u[i] = t[i] /\ G[i] = H[i] /\ G[i + 1] = H[i + 1]
      BY <1>1, <1>2, <1>3, <2>2
    <3>2. DepthStep(t[i], H[i], H[i + 1])
      BY <2>2 DEF Depths
    <3> QED BY <3>1, <3>2
  <2> QED BY <1>1, <1>2, <2>1, <2>2
<1>5. G[Len(u) + 1] = b /\ G[1] = 0
  BY <1>1, <1>2, <1>3
<1>6. \A p \in 0 .. Len(t) : G[p + 1] = H[p + 1]
  BY <1>1, <1>3
<1> QED
  <2> HIDE DEF u, G
  <2>1. Depths(u, G)
    BY <1>1, <1>2, <1>3, <1>4, <1>5 DEF Depths
  <2>2. DepthsTo(u, G, t, H, b)
    BY <1>5, <1>6, <2>1 DEF DepthsTo
  <2> QED BY <2>2 DEF u, G

NestedIn(p, G, d) == Nested(p, G) /\ G[Len(p) + 1] = d

LEMMA NestPush ==
  ASSUME NEW os, NEW D, Nested(os, D), NEW o \in Opens, NEW d \in Depth,
         Deeper(o, D[Len(os) + 1], d), o = "fn" <=> os = <<>>
  PROVE  NestedIn(Append(os, o), Append(D, d), d)
<1>1. /\ os \in Seq(Opens) /\ D \in Seq(Depth) /\ Len(os) \in Nat
      /\ Len(D) = Len(os) + 1 /\ D[1] = Ground
  BY DEF Nested
<1> DEFINE p == Append(os, o)
           G == Append(D, d)
<1>2. /\ p \in Seq(Opens) /\ Len(p) = Len(os) + 1 /\ p[Len(os) + 1] = o
      /\ \A k \in 1 .. Len(os) : p[k] = os[k]
  BY <1>1
<1>3. /\ G \in Seq(Depth) /\ Len(G) = Len(os) + 2 /\ G[Len(os) + 2] = d
      /\ \A k \in 1 .. Len(os) + 1 : G[k] = D[k]
  BY <1>1
<1>4. os = <<>> <=> Len(os) = 0
  BY <1>1
<1>5. ASSUME NEW k \in 1 .. Len(p)
      PROVE  Deeper(p[k], G[k], G[k + 1]) /\ (p[k] = "fn" <=> k = 1)
  <2>1. CASE k = Len(os) + 1
    <3>1. p[k] = o /\ G[k] = D[k] /\ G[k + 1] = d
      BY <1>1, <1>2, <1>3, <2>1
    <3> QED BY <1>1, <1>4, <2>1, <3>1
  <2>2. CASE k \in 1 .. Len(os)
    <3>1. p[k] = os[k] /\ G[k] = D[k] /\ G[k + 1] = D[k + 1]
      BY <1>1, <1>2, <1>3, <2>2
    <3>2. Deeper(os[k], D[k], D[k + 1]) /\ (os[k] = "fn" <=> k = 1)
      BY <2>2 DEF Nested
    <3> QED BY <3>1, <3>2
  <2> QED BY <1>1, <1>2, <2>1, <2>2
<1>6. G[1] = Ground
  BY <1>1, <1>3
<1>7. G[Len(p) + 1] = d
  BY <1>1, <1>2, <1>3
<1> QED
  <2> HIDE DEF p, G
  <2>1. Nested(p, G)
    BY <1>1, <1>2, <1>3, <1>5, <1>6 DEF Nested
  <2>2. NestedIn(p, G, d)
    BY <1>7, <2>1 DEF NestedIn
  <2> QED BY <2>2 DEF p, G

\* The innermost construct, and what it adds to the marks around it.
LEMMA NestPop ==
  ASSUME NEW os, NEW D, Nested(os, D), os # <<>>
  PROVE  /\ Len(os) \in Nat \ {0} /\ TopOf(os) \in Opens
         /\ D[Len(os)] \in Depth /\ D[Len(os) + 1] \in Depth
         /\ Deeper(TopOf(os), D[Len(os)], D[Len(os) + 1])
         /\ Nested(Cut(os), SubSeq(D, 1, Len(os)))
         /\ SubSeq(D, 1, Len(os))[Len(Cut(os)) + 1] = D[Len(os)]
         /\ TopOf(os) = "fn" => D[Len(os)] = Ground /\ Cut(os) = <<>>
         /\ TopOf(os) # "fn" => D[Len(os)].s >= 2 /\ D[Len(os)].l >= 1 /\ Cut(os) # <<>>
<1>1. /\ os \in Seq(Opens) /\ D \in Seq(Depth) /\ Len(os) \in Nat \ {0}
      /\ Len(D) = Len(os) + 1 /\ D[1] = Ground
      /\ \A k \in 1 .. Len(os) : Deeper(os[k], D[k], D[k + 1]) /\ (os[k] = "fn" <=> k = 1)
  BY DEF Nested
<1> DEFINE p == Cut(os)
           G == SubSeq(D, 1, Len(os))
<1>2. /\ p \in Seq(Opens) /\ Len(p) = Len(os) - 1 /\ TopOf(os) = os[Len(os)]
      /\ \A k \in 1 .. Len(os) - 1 : p[k] = os[k]
      /\ p = <<>> <=> Len(os) = 1
  BY <1>1, CutShortens
<1>3. /\ G \in Seq(Depth) /\ Len(G) = Len(os) /\ \A k \in 1 .. Len(os) : G[k] = D[k]
  <2>1. Len(os) \in 0 .. Len(D)
    BY <1>1
  <2> QED BY <1>1, <2>1, Prefix
<1>4. Nested(p, G)
  <2>1. ASSUME NEW k \in 1 .. Len(p)
        PROVE  Deeper(p[k], G[k], G[k + 1]) /\ (p[k] = "fn" <=> k = 1)
    <3>1. k \in 1 .. Len(os) /\ p[k] = os[k] /\ G[k] = D[k] /\ G[k + 1] = D[k + 1]
      BY <1>1, <1>2, <1>3
    <3> QED BY <1>1, <3>1
  <2>2. Len(G) = Len(p) + 1 /\ G[1] = Ground
    BY <1>1, <1>2, <1>3
  <2> HIDE DEF p, G
  <2> QED BY <1>2, <1>3, <2>1, <2>2 DEF Nested
<1>5. Len(os) \in 1 .. Len(os)
  BY <1>1
<1>6. /\ os[Len(os)] \in Opens /\ D[Len(os)] \in Depth /\ D[Len(os) + 1] \in Depth
  BY <1>1
<1>7. /\ Deeper(os[Len(os)], D[Len(os)], D[Len(os) + 1])
      /\ os[Len(os)] = "fn" <=> Len(os) = 1
  BY <1>1, <1>5
<1>8. G[Len(p) + 1] = D[Len(os)]
  BY <1>1, <1>2, <1>3, <1>5
<1>9. TopOf(os) = "fn" => D[Len(os)] = Ground /\ p = <<>>
  BY <1>1, <1>2, <1>7
<1>10. ASSUME TopOf(os) # "fn" PROVE D[Len(os)].s >= 2 /\ D[Len(os)].l >= 1 /\ p # <<>>
  <2>1. Len(os) # 1 /\ p # <<>>
    BY <1>2, <1>7, <1>10
  <2> DEFINE k == Len(os) - 1
  <2>2. k \in 1 .. Len(os) /\ k + 1 = Len(os)
    <3>1. \A n \in Nat \ {0} : n # 1 => n - 1 \in 1 .. n /\ n - 1 + 1 = n
      OBVIOUS
    <3> QED BY <1>1, <2>1, <3>1
  <2>3. Deeper(os[k], D[k], D[k + 1])
    BY <1>1, <2>2
  <2> QED BY <2>1, <2>2, <2>3 DEF Deeper
<1> QED
  <2> HIDE DEF p, G
  <2>1. Nested(p, G) /\ G[Len(p) + 1] = D[Len(os)]
    BY <1>4, <1>8
  <2> QED BY <1>1, <1>2, <1>6, <1>7, <1>9, <1>10, <2>1 DEF p, G

LEMMA NestDone ==
  ASSUME NEW os, NEW D, Nested(os, D), os # <<>>
  PROVE  /\ Nested(StmtDone(os), D) /\ Len(StmtDone(os)) = Len(os) /\ StmtDone(os) # <<>>
<1>1. /\ os \in Seq(Opens) /\ Len(os) \in Nat \ {0}
      /\ \A k \in 1 .. Len(os) : Deeper(os[k], D[k], D[k + 1]) /\ (os[k] = "fn" <=> k = 1)
  BY DEF Nested
<1>2. CASE TopOf(os) # "arm"
  BY <1>1, <1>2 DEF StmtDone
<1>3. CASE TopOf(os) = "arm"
  <2> DEFINE p == Append(Cut(os), "arm_done")
  <2>1. StmtDone(os) = p
    BY <1>3 DEF StmtDone
  <2>2. /\ p \in Seq(Opens) /\ Len(p) = Len(os) /\ p[Len(os)] = "arm_done"
        /\ \A k \in 1 .. Len(os) - 1 : p[k] = os[k]
    <3>1. /\ Cut(os) \in Seq(Opens) /\ Len(Cut(os)) = Len(os) - 1
          /\ \A k \in 1 .. Len(os) - 1 : Cut(os)[k] = os[k]
      BY <1>1, CutShortens
    <3>2. "arm_done" \in Opens
      BY DEF Opens
    <3> QED BY <1>1, <3>1, <3>2
  <2>3. ASSUME NEW k \in 1 .. Len(p)
        PROVE  Deeper(p[k], D[k], D[k + 1]) /\ (p[k] = "fn" <=> k = 1)
    <3>1. CASE k = Len(os)
      <4>1. os[k] = "arm" /\ p[k] = "arm_done"
        BY <1>3, <2>2, <3>1 DEF TopOf
      <4>2. Deeper("arm", D[k], D[k + 1]) /\ k # 1
        BY <1>1, <2>2, <4>1
      <4> HIDE DEF p
      <4> QED BY <4>1, <4>2 DEF Deeper
    <3>2. CASE k \in 1 .. Len(os) - 1
      <4>1. k \in 1 .. Len(os) /\ p[k] = os[k]
        BY <1>1, <2>2, <3>2
      <4> QED BY <1>1, <4>1
    <3> QED BY <1>1, <2>2, <3>1, <3>2
  <2> QED
    <3> HIDE DEF p
    <3>1. p # <<>>
      BY <1>1, <2>2
    <3> QED BY <1>1, <2>1, <2>2, <2>3, <3>1 DEF Nested
<1> QED BY <1>2, <1>3

\* One element more, with a nest for what is open behind it.
LEMMA BalanceStep ==
  ASSUME NEW t \in Seq(Elements), NEW H, Depths(t, H), NEW e \in Elements,
         NEW os, NEW D, Nested(os, D), D[Len(os) + 1] \in Depth,
         DepthStep(e, H[Len(t) + 1], D[Len(os) + 1].l), NEW p \in 0 .. Len(t)
  PROVE  Balance(Append(t, e), os, D[Len(os) + 1].s, p, H[p + 1])
<1> DEFINE b == D[Len(os) + 1].l
           u == Append(t, e)
           G == Append(H, b)
<1>1. b \in Nat /\ DepthStep(e, H[Len(t) + 1], b)
  BY DEF Depth
<1> HIDE DEF b
<1>9. DepthsTo(u, G, t, H, b)
  BY <1>1, DepthsGrow
<1> HIDE DEF u, G
<1>2. Depths(u, G) /\ G[Len(u) + 1] = b /\ G[p + 1] = H[p + 1]
  BY <1>9 DEF DepthsTo
<1>3. Balance(u, os, D[Len(os) + 1].s, p, G[p + 1])
  BY <1>2 DEF Balance, b
<1> QED BY <1>2, <1>3 DEF u

\* How many marks sema has in the constructs os.
MarksFit(os, s) ==
  /\ s \in Nat
  /\ os = <<>> => s = 0
  /\ os # <<>> => s >= 2
  /\ os # <<>> /\ TopOf(os) = "fn" => s = 2
  /\ os # <<>> /\ TopOf(os) = "block" => s >= 3

LEMMA BalanceIs ==
  ASSUME NEW t \in Seq(Elements), NEW os, NEW s, NEW l, NEW p \in 0 .. Len(t),
         Balance(t, os, s, p, l)
  PROVE  MarksFit(os, s)
<1>1. PICK H, D : /\ Depths(t, H) /\ Nested(os, D)
                  /\ s = D[Len(os) + 1].s /\ l = H[p + 1]
  BY DEF Balance
<1>2. /\ os \in Seq(Opens) /\ D \in Seq(Depth) /\ Len(os) \in Nat
      /\ Len(D) = Len(os) + 1 /\ D[1] = Ground
  BY <1>1 DEF Nested
<1>5. D[Len(os) + 1] \in Depth
  BY <1>2
<1>6. s \in Nat
  BY <1>1, <1>5 DEF Depth
<1>7. CASE os = <<>>
  <2>1. D[Len(os) + 1] = Ground
    BY <1>2, <1>7
  <2> QED BY <1>1, <1>6, <1>7, <2>1 DEF Ground, MarksFit
<1>8. CASE os # <<>>
  <2> DEFINE c == D[Len(os)]
             d == D[Len(os) + 1]
  <2>1. /\ c \in Depth /\ d \in Depth /\ Deeper(TopOf(os), c, d)
        /\ TopOf(os) # "fn" => c.s >= 2
    BY <1>1, <1>8, NestPop
  <2> HIDE DEF c, d
  <2>2. c.s \in Nat /\ d.s \in Nat /\ s = d.s
    BY <1>1, <2>1 DEF Depth, d
  <2> QED BY <1>6, <1>8, <2>1, <2>2 DEF Deeper, MarksFit
<1> QED BY <1>7, <1>8

\* A function opens.
LEMMA BalanceFn ==
  ASSUME NEW t \in Seq(Elements), NEW s, NEW l, NEW p \in 0 .. Len(t),
         Balance(t, <<>>, s, p, l), NEW e \in Elements, e.op = "fn"
  PROVE  Balance(Append(t, e), <<"fn">>, 2, p, l)
<1>1. PICK H, D : /\ Depths(t, H) /\ Nested(<<>>, D)
                  /\ H[Len(t) + 1] = D[Len(<<>>) + 1].l /\ l = H[p + 1]
  BY DEF Balance
<1>2. D[Len(<<>>) + 1] = Ground /\ H[Len(t) + 1] = 0
  <2>1. Len(<<>>) = 0
    OBVIOUS
  <2>2. D[1] = Ground
    BY <1>1 DEF Nested
  <2>3. Len(<<>>) + 1 = 1
    BY <2>1
  <2> QED BY <1>1, <2>2, <2>3 DEF Ground
<1> DEFINE d  == [s |-> 2, l |-> 1]
           os == Append(<<>>, "fn")
           E  == Append(D, d)
<1>3. d \in Depth /\ d.s = 2 /\ d.l = 1
  BY DEF Depth
<1> HIDE DEF d
<1>4. Deeper("fn", D[Len(<<>>) + 1], d)
  BY <1>3 DEF Deeper
<1>5. "fn" \in Opens
  BY DEF Opens
<1>10. NestedIn(os, E, d)
  BY <1>1, <1>3, <1>4, <1>5, NestPush
<1>7. os = <<"fn">>
  OBVIOUS
<1> HIDE DEF os, E
<1>6. Nested(os, E) /\ E[Len(os) + 1] = d
  BY <1>10 DEF NestedIn
<1>8. DepthStep(e, H[Len(t) + 1], E[Len(os) + 1].l)
  BY <1>2, <1>3, <1>6 DEF DepthStep
<1>9. Balance(Append(t, e), os, E[Len(os) + 1].s, p, H[p + 1])
  BY <1>1, <1>3, <1>6, <1>8, BalanceStep
<1> QED BY <1>1, <1>3, <1>6, <1>7, <1>9

\* A block, a match or an arm opens.
LEMMA BalanceOpen ==
  ASSUME NEW t \in Seq(Elements), NEW os, os # <<>>, NEW s, NEW l, NEW p \in 0 .. Len(t),
         Balance(t, os, s, p, l), NEW e \in Elements, NEW o, NEW r,
         \/ o = "block" /\ e.op = "open" /\ r = s + 1
         \/ o = "match" /\ e.op = "match" /\ r = s
         \/ o = "arm" /\ e.op = "arm" /\ r = s
  PROVE  Balance(Append(t, e), Append(StmtDone(os), o), r, p, l)
<1>1. PICK H, D : /\ Depths(t, H) /\ Nested(os, D)
                  /\ H[Len(t) + 1] = D[Len(os) + 1].l
                  /\ s = D[Len(os) + 1].s /\ l = H[p + 1]
  BY DEF Balance
<1> DEFINE c  == D[Len(os) + 1]
           q  == StmtDone(os)
           d  == [s |-> r, l |-> IF o = "match" THEN c.l ELSE c.l + 1]
           E  == Append(D, d)
           us == Append(q, o)
<1>2. c \in Depth /\ Deeper(TopOf(os), D[Len(os)], c)
  BY <1>1, NestPop
<1>3. Nested(q, D) /\ Len(q) = Len(os) /\ q # <<>>
  BY <1>1, NestDone
<1>4. H[Len(t) + 1] = c.l /\ s = c.s /\ l = H[p + 1]
  BY <1>1
<1> HIDE DEF c, q
<1>5. c.s \in Nat /\ c.l \in Nat /\ c.s >= 2 /\ c.l >= 1
  BY <1>2 DEF Depth, Deeper
<1>6. /\ d \in Depth /\ d.s = r /\ d.l = IF o = "match" THEN c.l ELSE c.l + 1
  <2>1. r \in Nat
    BY <1>4, <1>5
  <2> DEFINE m == IF o = "match" THEN c.l ELSE c.l + 1
  <2>2. m \in Nat
    BY <1>5
  <2> HIDE DEF m
  <2>3. d = [s |-> r, l |-> m]
    BY DEF m
  <2> QED BY <2>1, <2>2, <2>3 DEF Depth, m
<1> HIDE DEF d
<1>7. Deeper(o, c, d)
  BY <1>4, <1>5, <1>6 DEF Deeper
<1>8. o \in Opens /\ o # "fn"
  BY DEF Opens
<1>12. NestedIn(us, E, d)
  <2>1. D[Len(q) + 1] = c
    BY <1>3 DEF c
  <2>2. o = "fn" <=> q = <<>>
    BY <1>3, <1>8
  <2>3. Deeper(o, D[Len(q) + 1], d) /\ d \in Depth
    BY <1>6, <1>7, <2>1
  <2> QED BY <1>3, <1>8, <2>2, <2>3, NestPush
<1> HIDE DEF us, E
<1>9. Nested(us, E) /\ E[Len(us) + 1] = d
  BY <1>12 DEF NestedIn
<1>10. DepthStep(e, H[Len(t) + 1], d.l)
  BY <1>4, <1>5, <1>6 DEF DepthStep
<1>11. Balance(Append(t, e), us, E[Len(us) + 1].s, p, H[p + 1])
  BY <1>1, <1>6, <1>9, <1>10, BalanceStep
<1> QED BY <1>4, <1>6, <1>9, <1>11 DEF us, q

\* A statement that opens nothing.
LEMMA BalancePlain ==
  ASSUME NEW t \in Seq(Elements), NEW os, os # <<>>, NEW s, NEW l, NEW p \in 0 .. Len(t),
         Balance(t, os, s, p, l), NEW e \in Elements,
         e.op \in {"let", "use", "address", "call", "logic"}
  PROVE  Balance(Append(t, e), StmtDone(os), s, p, l)
<1>1. PICK H, D : /\ Depths(t, H) /\ Nested(os, D)
                  /\ H[Len(t) + 1] = D[Len(os) + 1].l
                  /\ s = D[Len(os) + 1].s /\ l = H[p + 1]
  BY DEF Balance
<1> DEFINE c == D[Len(os) + 1]
           q == StmtDone(os)
<1>2. c \in Depth /\ Deeper(TopOf(os), D[Len(os)], c)
  BY <1>1, NestPop
<1>3. Nested(q, D) /\ Len(q) = Len(os)
  BY <1>1, NestDone
<1> HIDE DEF c, q
<1>4. D[Len(q) + 1] = c /\ H[Len(t) + 1] = c.l /\ s = c.s
  BY <1>1, <1>3 DEF c
<1>5. DepthStep(e, H[Len(t) + 1], c.l)
  <2>1. c.l >= 1
    BY <1>2 DEF Deeper
  <2> QED BY <1>4, <2>1 DEF DepthStep
<1>6. Balance(Append(t, e), q, D[Len(q) + 1].s, p, H[p + 1])
  BY <1>1, <1>2, <1>3, <1>4, <1>5, BalanceStep
<1> QED BY <1>1, <1>4, <1>6 DEF q

\* The innermost construct closes.
LEMMA BalanceClose ==
  ASSUME NEW t \in Seq(Elements), NEW os, os # <<>>, NEW s, NEW l, NEW p \in 0 .. Len(t),
         Balance(t, os, s, p, l), NEW e \in Elements, NEW r,
         \/ TopOf(os) = "fn" /\ e.op = "close" /\ r = 0
         \/ TopOf(os) = "block" /\ e.op = "close" /\ r = s - 1
         \/ TopOf(os) = "match" /\ e.op = "end_match" /\ r = s
         \/ TopOf(os) = "arm_done" /\ e.op = "end_arm" /\ r = s
  PROVE  Balance(Append(t, e), Cut(os), r, p, l)
<1>1. PICK H, D : /\ Depths(t, H) /\ Nested(os, D)
                  /\ H[Len(t) + 1] = D[Len(os) + 1].l
                  /\ s = D[Len(os) + 1].s /\ l = H[p + 1]
  BY DEF Balance
<1> DEFINE c == D[Len(os)]
           d == D[Len(os) + 1]
           q == Cut(os)
           E == SubSeq(D, 1, Len(os))
<1>2. /\ c \in Depth /\ d \in Depth /\ Deeper(TopOf(os), c, d)
      /\ Nested(q, E) /\ E[Len(q) + 1] = c
      /\ TopOf(os) = "fn" => c = Ground
  BY <1>1, NestPop
<1>3. H[Len(t) + 1] = d.l /\ s = d.s
  BY <1>1
<1> HIDE DEF c, d, q, E
<1>4. c.s \in Nat /\ c.l \in Nat /\ d.s \in Nat /\ d.l \in Nat /\ d.l >= 1
  BY <1>2 DEF Depth, Deeper
<1>5. c.s = r /\ DepthStep(e, d.l, c.l)
  <2>1. CASE TopOf(os) = "fn"
    <3>1. c.s = 0 /\ c.l = 0 /\ d.l = 1
      BY <1>2, <2>1 DEF Ground, Deeper
    <3> QED BY <1>4, <2>1, <3>1 DEF DepthStep
  <2>2. CASE TopOf(os) # "fn"
    <3>1. /\ TopOf(os) = "block" => d.s = c.s + 1 /\ d.l = c.l + 1
          /\ TopOf(os) = "match" => d.s = c.s /\ d.l = c.l
          /\ TopOf(os) = "arm_done" => d.s = c.s /\ d.l = c.l + 1
      BY <1>2 DEF Deeper
    <3>2. c.s = r
      BY <1>3, <1>4, <2>2, <3>1
    <3>3. \/ e.op \in {"close", "end_arm"} /\ c.l = d.l - 1
          \/ e.op = "end_match" /\ c.l = d.l
      BY <1>4, <2>2, <3>1
    <3> QED BY <1>4, <3>2, <3>3 DEF DepthStep
  <2> QED BY <2>1, <2>2
<1>6. Balance(Append(t, e), q, E[Len(q) + 1].s, p, H[p + 1])
  BY <1>1, <1>2, <1>3, <1>5, BalanceStep
<1> QED BY <1>1, <1>2, <1>5, <1>6 DEF q

\* Lowering replays an element.
LEMMA BalanceReplay ==
  ASSUME NEW t \in Seq(Elements), NEW os, NEW s, NEW l, NEW p \in 0 .. Len(t), p < Len(t),
         Balance(t, os, s, p, l)
  PROVE  \E m \in Nat : Balance(t, os, s, p + 1, m) /\ DepthStep(t[p + 1], l, m)
<1>1. PICK H, D : /\ Depths(t, H) /\ Nested(os, D)
                  /\ H[Len(t) + 1] = D[Len(os) + 1].l
                  /\ s = D[Len(os) + 1].s /\ l = H[p + 1]
  BY DEF Balance
<1>2. p + 1 \in 1 .. Len(t) /\ Len(t) \in Nat
  OBVIOUS
<1> DEFINE m == H[(p + 1) + 1]
<1>3. DepthStep(t[p + 1], l, m) /\ m \in Nat
  BY <1>1, <1>2 DEF Depths
<1> HIDE DEF m
<1>4. Balance(t, os, s, p + 1, m)
  BY <1>1 DEF Balance, m
<1> QED BY <1>3, <1>4

-----------------------------------------------------------------------------
(* Each walk keeps its marks, and moves like a stack of scopes *)

AtMost(ds, n) == \A i \in 1 .. Len(ds) : ds[i].at \in 1 .. n

\* A vector of declarations made by one of the first n elements, and its marks.
Scopes(ds, ms, n) == ds \in Seq(LocalDecl) /\ AtMost(ds, n) /\ MarksIn(ds, ms)

\* All that is visible is in some scope.
Rooted(ds, ms) == (ms = <<>> => ds = <<>>) /\ (ms # <<>> => ms[1] = 0)

NamesOne(e) == e.op = "let" => e.names # <<>>

ScopesInv ==
  /\ phase \in {"sema", "lower", "done", "rejected"}
  /\ text \in Seq(Elements) /\ \A i \in 1 .. Len(text) : NamesOne(text[i])
  /\ pos \in 0 .. Len(text) /\ Len(answers) = pos /\ \E S : answers \in Seq(S)
  /\ Scopes(syms, marks, Len(text)) /\ Rooted(syms, marks)
  /\ Scopes(locals, lmarks, pos)
  /\ Balance(text, open, Len(marks), pos, Len(lmarks))

SemaMove  == [SemaEnv!Next]_SemaView
LowerMove == [LowerEnv!Next]_LowerView

LEMMA BindingIs ==
  ASSUME NEW b \in Bindings
  PROVE  DOMAIN b \subseteq Name /\ \A n \in DOMAIN b : b[n] \in Decl
BY DEF Bindings

LEMMA SemaEnvEnters ==
  ASSUME NEW v, SemaView = v, Len(v) >= 2, SemaView' = Append(v, EmptyMap)
  PROVE  SemaMove
<1>1. SemaEnv!Enter
  BY DEF SemaEnv!Enter, SemaEnv!Last, SemaEnv!Empty, EmptyMap
<1> QED BY <1>1 DEF SemaMove, SemaEnv!Next

LEMMA SemaEnvLeaves ==
  ASSUME NEW v, SemaView = v, Len(v) > 2, SemaView' = SubSeq(v, 1, Len(v) - 1)
  PROVE  SemaMove
<1>1. SemaEnv!Leave
  BY DEF SemaEnv!Leave, SemaEnv!Last, SemaEnv!Outer
<1> QED BY <1>1 DEF SemaMove, SemaEnv!Next

LEMMA SemaEnvEntersFn ==
  ASSUME SemaView = <<>>, NEW w, SemaView' = w, Len(w) = 2, w[1] \in Bindings, w[2] = EmptyMap
  PROVE  SemaMove
<1>1. SemaEnv!IsBinding(w[1])
  BY BindingIs DEF SemaEnv!IsBinding
<1>2. SemaEnv!EnterFn
  BY <1>1 DEF SemaEnv!EnterFn, SemaEnv!Empty, EmptyMap
<1> QED BY <1>2 DEF SemaMove, SemaEnv!Next

LEMMA SemaEnvLeavesFn ==
  ASSUME Len(SemaView) = 2, SemaView' = <<>>
  PROVE  SemaMove
<1>1. SemaEnv!LeaveFn
  BY DEF SemaEnv!LeaveFn, SemaEnv!Last
<1> QED BY <1>1 DEF SemaMove, SemaEnv!Next

LEMMA SemaEnvDeclares ==
  ASSUME NEW v, SemaView = v, Len(v) >= 2, NEW w, SemaView' = w, Len(w) = Len(v),
         NEW d \in LocalDecl, BindsLast(v, w, Len(v), d)
  PROVE  SemaMove
<1> DEFINE n == d.name
<1>3. n \in Name /\ d \in Decl
  BY DEF LocalDecl, Decl
<1>4. n \notin DOMAIN v[Len(v)] /\ n \in DOMAIN w[Len(v)] /\ w[Len(v)][n] = d
  BY DEF BindsLast
<1>5. w = Append(SubSeq(v, 1, Len(v) - 1),
                 [m \in DOMAIN v[Len(v)] \cup {n} |-> IF m = n THEN d ELSE v[Len(v)][m]])
  BY DEF BindsLast
<1> HIDE DEF n
<1>1. SemaEnv!Bind(n, d)
  BY <1>3, <1>4, <1>5 DEF SemaEnv!Bind, SemaEnv!Last, SemaEnv!Outer
<1>2. SemaEnv!Declare
  <2>1. n \in Name \cap DOMAIN SemaView'[Len(SemaView)] /\ SemaView'[Len(SemaView)][n] = d
    BY <1>3, <1>4
  <2> QED BY <1>1, <2>1 DEF SemaEnv!Declare, SemaEnv!Last
<1> QED BY <1>2 DEF SemaMove, SemaEnv!Next

LEMMA LowerEnvEnters ==
  ASSUME NEW v, LowerView = v, Len(v) >= 2, LowerView' = Append(v, EmptyMap)
  PROVE  LowerMove
<1>1. LowerEnv!Enter
  BY DEF LowerEnv!Enter, LowerEnv!Last, LowerEnv!Empty, EmptyMap
<1> QED BY <1>1 DEF LowerMove, LowerEnv!Next

LEMMA LowerEnvLeaves ==
  ASSUME NEW v, LowerView = v, Len(v) > 2, LowerView' = SubSeq(v, 1, Len(v) - 1)
  PROVE  LowerMove
<1>1. LowerEnv!Leave
  BY DEF LowerEnv!Leave, LowerEnv!Last, LowerEnv!Outer
<1> QED BY <1>1 DEF LowerMove, LowerEnv!Next

LEMMA LowerEnvEntersFn ==
  ASSUME LowerView = <<>>, NEW w, LowerView' = w, Len(w) = 2, w[1] \in Bindings, w[2] = EmptyMap
  PROVE  LowerMove
<1>1. LowerEnv!IsBinding(w[1])
  BY BindingIs DEF LowerEnv!IsBinding
<1>2. LowerEnv!EnterFn
  BY <1>1 DEF LowerEnv!EnterFn, LowerEnv!Empty, EmptyMap
<1> QED BY <1>2 DEF LowerMove, LowerEnv!Next

LEMMA LowerEnvLeavesFn ==
  ASSUME Len(LowerView) = 2, LowerView' = <<>>
  PROVE  LowerMove
<1>1. LowerEnv!LeaveFn
  BY DEF LowerEnv!LeaveFn, LowerEnv!Last
<1> QED BY <1>1 DEF LowerMove, LowerEnv!Next

LEMMA LowerEnvDeclares ==
  ASSUME NEW v, LowerView = v, Len(v) >= 2, NEW w, LowerView' = w, Len(w) = Len(v),
         NEW d \in LocalDecl, BindsLast(v, w, Len(v), d)
  PROVE  LowerMove
<1> DEFINE n == d.name
<1>3. n \in Name /\ d \in Decl
  BY DEF LocalDecl, Decl
<1>4. n \notin DOMAIN v[Len(v)] /\ n \in DOMAIN w[Len(v)] /\ w[Len(v)][n] = d
  BY DEF BindsLast
<1>5. w = Append(SubSeq(v, 1, Len(v) - 1),
                 [m \in DOMAIN v[Len(v)] \cup {n} |-> IF m = n THEN d ELSE v[Len(v)][m]])
  BY DEF BindsLast
<1> HIDE DEF n
<1>1. LowerEnv!Bind(n, d)
  BY <1>3, <1>4, <1>5 DEF LowerEnv!Bind, LowerEnv!Last, LowerEnv!Outer
<1>2. LowerEnv!Declare
  <2>1. n \in Name \cap DOMAIN LowerView'[Len(LowerView)] /\ LowerView'[Len(LowerView)][n] = d
    BY <1>3, <1>4
  <2> QED BY <1>1, <2>1 DEF LowerEnv!Declare, LowerEnv!Last
<1> QED BY <1>2 DEF LowerMove, LowerEnv!Next

\* Nothing of the sema walk moves.
LEMMA SemaStays ==
  ASSUME syms' = syms, marks' = marks
  PROVE  SemaMove
BY DEF SemaMove, SemaView

LEMMA LowerStays ==
  ASSUME locals' = locals, lmarks' = lmarks
  PROVE  LowerMove
BY DEF LowerMove, LowerView

\* One element more.
LEMMA TextStep ==
  ASSUME ScopesInv, NEW e \in Elements, NamesOne(e), text' = Append(text, e),
         UNCHANGED lowerVars, phase' \in {"sema", "lower", "done", "rejected"},
         Scopes(syms', marks', Len(text) + 1), Rooted(syms', marks'),
         Balance(Append(text, e), open', Len(marks'), pos, Len(lmarks))
  PROVE  ScopesInv'
<1>1. /\ text \in Seq(Elements) /\ Len(text) \in Nat
      /\ \A i \in 1 .. Len(text) : NamesOne(text[i])
  BY DEF ScopesInv
<1>2. /\ text' \in Seq(Elements) /\ Len(text') = Len(text) + 1 /\ text'[Len(text) + 1] = e
      /\ \A i \in 1 .. Len(text) : text'[i] = text[i]
  BY <1>1
<1>3. \A i \in 1 .. Len(text') : NamesOne(text'[i])
  <2>1. \A i \in 1 .. Len(text) + 1 : i \in 1 .. Len(text) \/ i = Len(text) + 1
    BY <1>1
  <2> QED BY <1>1, <1>2, <2>1
<1>4. /\ pos' = pos /\ answers' = answers /\ locals' = locals /\ lmarks' = lmarks
  BY DEF lowerVars
<1>5. pos' \in 0 .. Len(text') /\ Len(answers') = pos' /\ \E S : answers' \in Seq(S)
  <2>1. pos \in 0 .. Len(text) /\ Len(answers) = pos /\ \E S : answers \in Seq(S)
    BY DEF ScopesInv
  <2> QED BY <1>1, <1>2, <1>4, <2>1
<1>6. Scopes(locals', lmarks', pos') /\ Scopes(syms', marks', Len(text'))
  BY <1>2, <1>4 DEF ScopesInv
<1>7. Balance(text', open', Len(marks'), pos', Len(lmarks'))
  BY <1>4
<1> QED BY <1>2, <1>3, <1>5, <1>6, <1>7 DEF ScopesInv

\* An older declaration stays one.
LEMMA ScopesLater ==
  ASSUME NEW ds, NEW ms, NEW n \in Nat, Scopes(ds, ms, n)
  PROVE  Scopes(ds, ms, n + 1)
<1>1. ds \in Seq(LocalDecl) /\ MarksIn(ds, ms) /\ Len(ds) \in Nat
  BY DEF Scopes
<1>2. \A k \in 1 .. n : k \in 1 .. n + 1
  OBVIOUS
<1>3. AtMost(ds, n + 1)
  BY <1>2 DEF Scopes, AtMost
<1> QED BY <1>1, <1>3 DEF Scopes

\* What sema sees, before a step of its own.
LEMMA SemaNow ==
  ASSUME ScopesInv
  PROVE  /\ text \in Seq(Elements) /\ Len(text) \in Nat /\ pos \in 0 .. Len(text)
         /\ syms \in Seq(LocalDecl) /\ AtMost(syms, Len(text)) /\ Len(syms) \in Nat
         /\ MarksIn(syms, marks) /\ marks \in Seq(Nat) /\ Len(marks) \in Nat
         /\ Rooted(syms, marks) /\ Balance(text, open, Len(marks), pos, Len(lmarks))
         /\ open = <<>> => marks = <<>> /\ syms = <<>>
         /\ open # <<>> => marks # <<>> /\ marks[1] = 0 /\ Len(marks) >= 2
         /\ open # <<>> /\ TopOf(open) = "fn" => Len(marks) = 2
         /\ open # <<>> /\ TopOf(open) = "block" => Len(marks) >= 3
         /\ SemaView = View(syms, marks) /\ Len(SemaView) = Len(marks)
<1>1. /\ text \in Seq(Elements) /\ Len(text) \in Nat /\ pos \in 0 .. Len(text)
      /\ syms \in Seq(LocalDecl) /\ AtMost(syms, Len(text)) /\ Len(syms) \in Nat
      /\ MarksIn(syms, marks) /\ marks \in Seq(Nat) /\ Len(marks) \in Nat
      /\ Rooted(syms, marks) /\ Balance(text, open, Len(marks), pos, Len(lmarks))
  BY DEF ScopesInv, Scopes, MarksIn
<1>2. /\ open = <<>> => Len(marks) = 0
      /\ open # <<>> => /\ Len(marks) >= 2 /\ (TopOf(open) = "fn" => Len(marks) = 2)
                        /\ (TopOf(open) = "block" => Len(marks) >= 3)
  <2>1. MarksFit(open, Len(marks))
    BY <1>1, BalanceIs
  <2> QED BY <2>1 DEF MarksFit
<1>3. marks = <<>> <=> Len(marks) = 0
  BY <1>1
<1>4. SemaView = View(syms, marks) /\ Len(SemaView) = Len(marks)
  BY <1>1, ScopeAt DEF SemaView
<1>5. /\ open = <<>> => marks = <<>> /\ syms = <<>>
      /\ open # <<>> => marks # <<>> /\ marks[1] = 0
  BY <1>1, <1>2, <1>3 DEF Rooted
<1> QED BY <1>1, <1>2, <1>4, <1>5

\* A statement that leaves the vector alone: a use, an address, a call, a short circuit.
LEMMA PlainScopes ==
  ASSUME ScopesInv, open # <<>>, NEW e \in Elements, e.op \in {"use", "address", "call", "logic"},
         text' = Append(text, e), open' = StmtDone(open),
         syms' = syms, marks' = marks, UNCHANGED lowerVars, phase' = phase
  PROVE  ScopesInv' /\ SemaMove /\ LowerMove
<1>1. /\ text \in Seq(Elements) /\ Len(text) \in Nat /\ pos \in 0 .. Len(text)
      /\ Rooted(syms, marks) /\ Balance(text, open, Len(marks), pos, Len(lmarks))
  BY SemaNow
<1>2. Balance(Append(text, e), open', Len(marks'), pos, Len(lmarks))
  BY <1>1, BalancePlain
<1>3. Scopes(syms', marks', Len(text) + 1)
  BY <1>1, ScopesLater DEF ScopesInv
<1>4. NamesOne(e)
  BY DEF NamesOne
<1>5. phase' \in {"sema", "lower", "done", "rejected"}
  BY DEF ScopesInv
<1>6. ScopesInv'
  BY <1>1, <1>2, <1>3, <1>4, <1>5, TextStep
<1>7. locals' = locals /\ lmarks' = lmarks
  BY DEF lowerVars
<1> QED BY <1>6, <1>7, SemaStays, LowerStays

\* A block opens a scope; a match and an arm do not.
LEMMA OpenScopes ==
  ASSUME ScopesInv, open # <<>>, NEW e \in Elements, NEW o,
         text' = Append(text, e), open' = Append(StmtDone(open), o), syms' = syms,
         \/ o = "block" /\ e.op = "open" /\ marks' = Append(marks, Len(syms))
         \/ o = "match" /\ e.op = "match" /\ marks' = marks
         \/ o = "arm" /\ e.op = "arm" /\ marks' = marks,
         UNCHANGED lowerVars, phase' = phase
  PROVE  ScopesInv' /\ SemaMove /\ LowerMove
<1>1. /\ text \in Seq(Elements) /\ Len(text) \in Nat /\ pos \in 0 .. Len(text)
      /\ syms \in Seq(LocalDecl) /\ AtMost(syms, Len(text)) /\ Len(syms) \in Nat
      /\ MarksIn(syms, marks) /\ marks \in Seq(Nat) /\ Len(marks) \in Nat
      /\ Rooted(syms, marks) /\ Balance(text, open, Len(marks), pos, Len(lmarks))
      /\ marks # <<>> /\ marks[1] = 0 /\ Len(marks) >= 2
      /\ SemaView = View(syms, marks) /\ Len(SemaView) = Len(marks)
  BY SemaNow
<1>2. NamesOne(e) /\ phase' \in {"sema", "lower", "done", "rejected"}
  BY DEF NamesOne, ScopesInv
<1>3. Scopes(syms, marks, Len(text) + 1)
  BY <1>1, ScopesLater DEF ScopesInv
<1>4. LowerMove
  BY LowerStays DEF lowerVars
<1>5. CASE o = "block"
  <2>1. marks' = Append(marks, Len(syms)) /\ e.op = "open"
    BY <1>5
  <2>2. Len(Append(marks, Len(syms))) = Len(marks) + 1 /\ Append(marks, Len(syms))[1] = marks[1]
        /\ Append(marks, Len(syms)) # <<>>
    <3>1. 1 \in 1 .. Len(marks)
      BY <1>1
    <3> QED BY <1>1, <3>1, AppendProperties
  <2>3. Balance(Append(text, e), open', Len(marks'), pos, Len(lmarks))
    BY <1>1, <1>5, <2>1, <2>2, BalanceOpen
  <2>4. /\ MarksIn(syms, marks')
        /\ View(syms, marks') = Append(View(syms, marks), EmptyMap)
    BY <1>1, <2>1, ViewPush
  <2>5. Scopes(syms', marks', Len(text) + 1) /\ Rooted(syms', marks')
    BY <1>1, <1>3, <2>1, <2>2, <2>4 DEF Scopes, Rooted
  <2>6. SemaMove
    BY <1>1, <2>4, SemaEnvEnters DEF SemaView
  <2> QED BY <1>2, <1>4, <2>3, <2>5, <2>6, TextStep
<1>6. CASE o # "block"
  <2>1. marks' = marks
    BY <1>6
  <2>2. Balance(Append(text, e), open', Len(marks'), pos, Len(lmarks))
    BY <1>1, <1>6, BalanceOpen
  <2>3. Scopes(syms', marks', Len(text) + 1) /\ Rooted(syms', marks')
    BY <1>1, <1>3, <2>1
  <2>4. SemaMove
    BY <2>1, SemaStays
  <2> QED BY <1>2, <1>4, <2>2, <2>3, <2>4, TextStep
<1> QED BY <1>5, <1>6

\* A block or a function closes.
LEMMA CloseScopes ==
  ASSUME ScopesInv, open # <<>>, SemaClose \/ SemaEndFn
  PROVE  ScopesInv' /\ SemaMove /\ LowerMove
<1> DEFINE e == Elem("close", <<>>, <<>>)
<1>1. /\ text \in Seq(Elements) /\ Len(text) \in Nat /\ pos \in 0 .. Len(text)
      /\ syms \in Seq(LocalDecl) /\ AtMost(syms, Len(text)) /\ Len(syms) \in Nat
      /\ MarksIn(syms, marks) /\ marks \in Seq(Nat) /\ Len(marks) \in Nat
      /\ Rooted(syms, marks) /\ Balance(text, open, Len(marks), pos, Len(lmarks))
      /\ marks # <<>> /\ marks[1] = 0 /\ Len(marks) >= 2
      /\ TopOf(open) = "fn" => Len(marks) = 2
      /\ TopOf(open) = "block" => Len(marks) >= 3
      /\ SemaView = View(syms, marks) /\ Len(SemaView) = Len(marks)
  BY SemaNow
<1>2. e \in Elements /\ e.op = "close" /\ NamesOne(e)
  <2>1. <<>> \in Seq(Name) /\ <<>> \in Seq(Decl)
    OBVIOUS
  <2> QED BY <2>1 DEF Elem, Elements, Ops, NamesOne
<1>3. text' = Append(text, e) /\ open' = Cut(open) /\ phase' = phase /\ UNCHANGED lowerVars
  BY DEF SemaClose, SemaEndFn, Emit
<1> HIDE DEF e
<1>4. LowerMove /\ phase' \in {"sema", "lower", "done", "rejected"}
  BY <1>3, LowerStays DEF lowerVars, ScopesInv
<1>5. CASE SemaClose
  <2>1. /\ TopOf(open) = "block" /\ syms' = SubSeq(syms, 1, TopOf(marks)) /\ marks' = Cut(marks)
    BY <1>1, <1>5 DEF SemaClose, CurrentMark, TopOf
  <2>2. /\ syms' \in Seq(LocalDecl) /\ Len(syms') <= Len(syms) /\ MarksIn(syms', marks')
        /\ View(syms', marks') = SubSeq(View(syms, marks), 1, Len(marks) - 1)
    BY <1>1, <2>1, ViewPop
  <2>3. /\ Len(marks') = Len(marks) - 1 /\ marks' # <<>> /\ marks'[1] = 0
    <3>1. /\ Len(Cut(marks)) = Len(marks) - 1 /\ (Cut(marks) = <<>> <=> Len(marks) = 1)
          /\ \A k \in 1 .. Len(marks) - 1 : Cut(marks)[k] = marks[k]
      BY <1>1, CutShortens
    <3>2. 1 \in 1 .. Len(marks) - 1 /\ Len(marks) # 1
      BY <1>1
    <3> QED BY <1>1, <2>1, <3>1, <3>2
  <2>4. AtMost(syms', Len(text) + 1)
    <3> DEFINE m == TopOf(marks)
    <3>1. m \in 0 .. Len(syms)
      <4>1. m = marks[Len(marks)] /\ m \in Nat
        BY <1>1, CutShortens
      <4>2. Len(marks) \in 1 .. Len(marks)
        BY <1>1
      <4>3. marks[Len(marks)] <= Len(syms)
        BY <1>1, <4>2 DEF MarksIn
      <4> HIDE DEF m
      <4> QED BY <1>1, <4>1, <4>3
    <3> HIDE DEF m
    <3>2. Len(syms') = m /\ \A i \in 1 .. m : syms'[i] = syms[i] /\ i \in 1 .. Len(syms)
      <4> DEFINE cs == SubSeq(syms, 1, m)
      <4>1. syms' = cs
        BY <2>1 DEF m
      <4>2. Len(cs) = m /\ \A i \in 1 .. m : cs[i] = syms[i]
        BY <1>1, <3>1, Prefix
      <4>3. \A i \in 1 .. m : i \in 1 .. Len(syms)
        BY <1>1, <3>1
      <4> HIDE DEF cs
      <4> QED BY <4>1, <4>2, <4>3
    <3>3. \A k \in 1 .. Len(text) : k \in 1 .. Len(text) + 1
      BY <1>1
    <3> QED BY <1>1, <3>2, <3>3 DEF AtMost
  <2>5. Balance(Append(text, e), open', Len(marks'), pos, Len(lmarks))
    BY <1>1, <1>2, <1>3, <2>1, <2>3, BalanceClose
  <2>6. Scopes(syms', marks', Len(text) + 1) /\ Rooted(syms', marks')
    BY <2>2, <2>3, <2>4 DEF Scopes, Rooted
  <2>7. SemaMove
    <3>1. SemaView' = SubSeq(SemaView, 1, Len(SemaView) - 1) /\ Len(SemaView) > 2
      <4>1. SemaView' = View(syms', marks')
        BY <2>3 DEF SemaView
      <4> QED BY <1>1, <2>1, <2>2, <4>1
    <3> QED BY <3>1, SemaEnvLeaves
  <2> QED BY <1>2, <1>3, <1>4, <2>5, <2>6, <2>7, TextStep
<1>6. CASE SemaEndFn
  <2>1. /\ TopOf(open) = "fn" /\ syms' = SubSeq(syms, 1, TopOf(Cut(marks)))
        /\ marks' = Cut(Cut(marks)) /\ Len(marks) = 2
    BY <1>1, <1>6 DEF SemaEndFn
  <2> DEFINE q == Cut(marks)
  <2>2. q \in Seq(Nat) /\ Len(q) = 1 /\ q[1] = 0 /\ q # <<>>
    <3>1. /\ q \in Seq(Nat) /\ Len(q) = Len(marks) - 1
          /\ \A k \in 1 .. Len(marks) - 1 : q[k] = marks[k]
      BY <1>1, CutShortens
    <3>2. 1 \in 1 .. Len(marks) - 1 /\ Len(marks) - 1 = 1
      BY <2>1
    <3> HIDE DEF q
    <3>3. Len(q) = 1 /\ q[1] = 0 /\ q \in Seq(Nat)
      BY <1>1, <3>1, <3>2
    <3>4. q # <<>>
      <4>1. Cut(marks) = <<>> <=> Len(marks) = 1
        BY <1>1, CutShortens
      <4> QED BY <2>1, <4>1 DEF q
    <3> QED BY <3>3, <3>4
  <2> HIDE DEF q
  <2>3. TopOf(q) = 0 /\ Cut(q) = <<>>
    BY <2>2, CutShortens
  <2>4. syms' = <<>> /\ marks' = <<>>
    <3>1. 0 \in 0 .. Len(syms)
      BY <1>1
    <3>2. SubSeq(syms, 1, 0) \in Seq(LocalDecl) /\ Len(SubSeq(syms, 1, 0)) = 0
      BY <1>1, <3>1, Prefix
    <3>3. SubSeq(syms, 1, 0) = <<>>
      BY <3>2
    <3> QED BY <2>1, <2>3, <3>3 DEF q
  <2>5. Scopes(syms', marks', Len(text) + 1) /\ Rooted(syms', marks') /\ Len(marks') = 0
    BY <2>4 DEF Scopes, Rooted, AtMost, MarksIn
  <2>6. Balance(Append(text, e), open', Len(marks'), pos, Len(lmarks))
    BY <1>1, <1>2, <1>3, <2>1, <2>5, BalanceClose
  <2>7. SemaMove
    <3>1. SemaView' = <<>> /\ Len(SemaView) = 2
      BY <1>1, <2>1, <2>4, ViewOfNothing DEF SemaView
    <3> QED BY <3>1, SemaEnvLeavesFn
  <2> QED BY <1>2, <1>3, <1>4, <2>5, <2>6, <2>7, TextStep
<1> QED BY <1>5, <1>6

\* A match or an arm closes: no scope does.
LEMMA EndScopes ==
  ASSUME ScopesInv, open # <<>>, SemaEndMatch \/ SemaEndArm
  PROVE  ScopesInv' /\ SemaMove /\ LowerMove
<1>1. /\ text \in Seq(Elements) /\ Len(text) \in Nat /\ pos \in 0 .. Len(text)
      /\ Rooted(syms, marks) /\ Balance(text, open, Len(marks), pos, Len(lmarks))
  BY SemaNow
<1>2. /\ open' = Cut(open) /\ syms' = syms /\ marks' = marks /\ phase' = phase
      /\ UNCHANGED lowerVars
  BY DEF SemaEndMatch, SemaEndArm
<1>3. PICK o : /\ \/ TopOf(open) = "match" /\ o = "end_match"
                  \/ TopOf(open) = "arm_done" /\ o = "end_arm"
               /\ text' = Append(text, Elem(o, <<>>, <<>>))
  BY DEF SemaEndMatch, SemaEndArm, Emit
<1> DEFINE e == Elem(o, <<>>, <<>>)
<1>4. e \in Elements /\ e.op = o /\ NamesOne(e)
  <2>1. <<>> \in Seq(Name) /\ <<>> \in Seq(Decl) /\ o \in Ops /\ o # "let"
    BY <1>3 DEF Ops
  <2> QED BY <2>1 DEF Elem, Elements, NamesOne
<1>5. text' = Append(text, e)
  BY <1>3
<1> HIDE DEF e
<1>6. Balance(Append(text, e), open', Len(marks'), pos, Len(lmarks))
  BY <1>1, <1>2, <1>3, <1>4, BalanceClose
<1>7. Scopes(syms', marks', Len(text) + 1)
  BY <1>1, <1>2, ScopesLater DEF ScopesInv
<1>8. phase' \in {"sema", "lower", "done", "rejected"} /\ LowerMove
  BY <1>2, LowerStays DEF ScopesInv, lowerVars
<1> QED BY <1>1, <1>2, <1>4, <1>5, <1>6, <1>7, <1>8, TextStep, SemaStays

\* A function: its parameters' scope and its body's.
LEMMA FnScopes ==
  ASSUME ScopesInv, NEW ps \in Seq(Name), SemaFn(ps), ~Reject
  PROVE  ScopesInv' /\ SemaMove /\ LowerMove
<1> DEFINE e == Elem("fn", ps, <<>>)
           own == [i \in DOMAIN ps |-> Local("param", ps[i], Len(text) + 1)]
<1>1. /\ phase = "sema" /\ open = <<>> /\ text' = Append(text, e) /\ open' = <<"fn">>
      /\ syms' = syms \o own /\ marks' = marks \o <<Len(syms), Len(syms) + Len(ps)>>
      /\ phase' = phase /\ UNCHANGED lowerVars
  BY DEF SemaFn, Emit, Here
<1>2. /\ text \in Seq(Elements) /\ Len(text) \in Nat /\ pos \in 0 .. Len(text)
      /\ Balance(text, open, Len(marks), pos, Len(lmarks))
      /\ marks = <<>> /\ syms = <<>> /\ SemaView = View(syms, marks)
  BY <1>1, SemaNow
<1>3. Len(ps) \in Nat /\ DOMAIN ps = 1 .. Len(ps) /\ \A i \in DOMAIN ps : ps[i] \in Name
  OBVIOUS
<1>4. own \in Seq(LocalDecl) /\ Len(own) = Len(ps) /\ AtMost(own, Len(text) + 1)
  <2>1. \A i \in 1 .. Len(ps) : Local("param", ps[i], Len(text) + 1) \in LocalDecl
    BY <1>2, <1>3, LocalIsDecl
  <2>2. own \in [1 .. Len(ps) -> LocalDecl]
    BY <1>3, <2>1
  <2>3. \A i \in 1 .. Len(ps) : own[i].at = Len(text) + 1
    BY <1>3 DEF Local
  <2> HIDE DEF own
  <2>4. own \in Seq(LocalDecl) /\ Len(own) = Len(ps)
    BY <1>3, <2>2, SeqDef
  <2>5. Len(text) + 1 \in 1 .. Len(text) + 1
    BY <1>2
  <2> QED BY <2>3, <2>4, <2>5 DEF AtMost
<1>5. syms' = own /\ marks' = <<0, Len(own)>>
  <2>1. Len(syms) = 0 /\ 0 + Len(ps) = Len(ps)
    BY <1>2, <1>3
  <2>2. <<0, Len(ps)>> \in Seq(Nat)
    BY <1>3
  <2> HIDE DEF own
  <2>3. <<>> \o own = own
    BY <1>4, ConcatEmptySeq
  <2>4. <<>> \o <<0, Len(ps)>> = <<0, Len(ps)>>
    BY <2>2, ConcatEmptySeq
  <2> QED BY <1>1, <1>2, <1>4, <2>1, <2>3, <2>4
<1>6. e \in Elements /\ e.op = "fn" /\ NamesOne(e)
  BY DEF Elem, Elements, Ops, NamesOne
<1> HIDE DEF e, own
<1> DEFINE w == View(own, <<0, Len(own)>>)
<1>7. MarksIn(own, <<0, Len(own)>>) /\ Len(w) = 2 /\ w[1] \in Bindings /\ w[2] = EmptyMap
  BY <1>4, ViewFn
<1>8. SemaView' = w
  BY <1>5 DEF SemaView
<1> HIDE DEF w
<1>9. SemaMove
  <2>1. SemaView = <<>>
    BY <1>2, ViewOfNothing
  <2> QED BY <1>7, <1>8, <2>1, SemaEnvEntersFn
<1>10. Scopes(syms', marks', Len(text) + 1) /\ Rooted(syms', marks') /\ Len(marks') = 2
  <2>1. <<0, Len(own)>>[1] = 0 /\ Len(<<0, Len(own)>>) = 2 /\ <<0, Len(own)>> # <<>>
    OBVIOUS
  <2> QED BY <1>4, <1>5, <1>7, <2>1 DEF Scopes, Rooted
<1>11. Balance(Append(text, e), open', Len(marks'), pos, Len(lmarks))
  BY <1>1, <1>2, <1>6, <1>10, BalanceFn
<1>12. phase' \in {"sema", "lower", "done", "rejected"} /\ LowerMove
  BY <1>1, LowerStays DEF lowerVars
<1> QED BY <1>1, <1>6, <1>9, <1>10, <1>11, <1>12, TextStep

\* A `let`: the innermost scope gains a name it did not have.
LEMMA LetScopes ==
  ASSUME ScopesInv, NEW n \in Name, NEW init \in Seq(Name), SemaLet(n, init), ~Reject
  PROVE  ScopesInv' /\ SemaMove /\ LowerMove
<1> DEFINE used == [i \in DOMAIN init |-> SemaFind(init[i])]
           e == Elem("let", <<n>> \o init, used)
           d == Local("local", n, Len(text) + 1)
<1>1. /\ phase = "sema" /\ open # <<>> /\ ~DeclaredHere(n)
      /\ text' = Append(text, e) /\ syms' = Append(syms, d) /\ open' = StmtDone(open)
      /\ marks' = marks /\ phase' = phase /\ UNCHANGED lowerVars
  BY DEF SemaLet, AtStmt, Emit, Here
<1>2. /\ text \in Seq(Elements) /\ Len(text) \in Nat /\ pos \in 0 .. Len(text)
      /\ syms \in Seq(LocalDecl) /\ AtMost(syms, Len(text)) /\ Len(syms) \in Nat
      /\ MarksIn(syms, marks) /\ marks \in Seq(Nat) /\ Len(marks) \in Nat
      /\ Rooted(syms, marks) /\ Balance(text, open, Len(marks), pos, Len(lmarks))
      /\ marks # <<>> /\ marks[1] = 0 /\ Len(marks) >= 2
      /\ SemaView = View(syms, marks) /\ Len(SemaView) = Len(marks)
  BY <1>1, SemaNow
<1>3. d \in LocalDecl /\ d.name = n /\ d.at = Len(text) + 1 /\ d \in Decl
  <2>1. d \in LocalDecl
    BY <1>2, LocalIsDecl
  <2> QED BY <2>1 DEF LocalDecl, Local
<1>4. e \in Elements /\ e.op = "let" /\ NamesOne(e)
  <2>1. <<n>> \in Seq(Name) /\ Len(<<n>>) = 1 /\ Len(init) \in Nat
    OBVIOUS
  <2>2. <<n>> \o init \in Seq(Name) /\ Len(<<n>> \o init) = 1 + Len(init)
    BY <2>1, ConcatProperties
  <2>3. <<n>> \o init # <<>>
    <3>1. Len(<<n>> \o init) # 0
      BY <2>1, <2>2
    <3> QED BY <2>2, <3>1, EmptySeq
  <2>4. ASSUME NEW j \in DOMAIN init PROVE used[j] \in Decl
    <3>1. init[j] \in Name
      OBVIOUS
    <3>2. used[j] = Find(syms, init[j])
      BY DEF SemaFind, Find
    <3> QED BY <1>2, <3>1, <3>2, FindIsDecl
  <2>5. used \in Seq(Decl)
    <3>1. DOMAIN init = 1 .. Len(init)
      OBVIOUS
    <3>2. used \in [1 .. Len(init) -> Decl]
      BY <2>4, <3>1
    <3> HIDE DEF used
    <3> QED BY <2>1, <3>2, SeqDef
  <2> HIDE DEF used
  <2> QED BY <2>2, <2>3, <2>5 DEF Elem, Elements, Ops, NamesOne
<1> HIDE DEF e, d, used
<1> DEFINE v == SemaView
           w == View(Append(syms, d), marks)
<1>5. Hits(syms, d.name, TopOf(marks) + 1) = {}
  BY <1>1, <1>2, <1>3 DEF DeclaredHere, CurrentMark, TopOf
<1>6. MarksIn(Append(syms, d), marks) /\ BindsLast(v, w, Len(marks), d)
  BY <1>2, <1>3, <1>5, ViewBind
<1>7. SemaView' = w
  BY <1>1 DEF SemaView
<1> HIDE DEF v, w
<1>8. SemaMove
  <2>1. SemaView = v /\ Len(v) = Len(marks) /\ Len(w) = Len(v) /\ Len(v) >= 2
    BY <1>2, <1>6 DEF v, BindsLast
  <2> QED BY <1>3, <1>6, <1>7, <2>1, SemaEnvDeclares
<1>9. Scopes(syms', marks', Len(text) + 1) /\ Rooted(syms', marks')
  <2> DEFINE s == Append(syms, d)
  <2>1. /\ s \in Seq(LocalDecl) /\ Len(s) = Len(syms) + 1 /\ s[Len(syms) + 1] = d
        /\ \A i \in 1 .. Len(syms) : s[i] = syms[i]
    BY <1>2, <1>3, AppendProperties
  <2> HIDE DEF s
  <2>2. ASSUME NEW i \in 1 .. Len(s) PROVE s[i].at \in 1 .. Len(text) + 1
    <3>1. CASE i = Len(syms) + 1
      BY <1>2, <1>3, <2>1, <3>1
    <3>2. CASE i # Len(syms) + 1
      <4>1. i \in 1 .. Len(syms)
        BY <1>2, <2>1, <3>2
      <4>2. s[i].at \in 1 .. Len(text)
        BY <1>2, <2>1, <4>1 DEF AtMost
      <4> QED BY <1>2, <4>2
    <3> QED BY <3>1, <3>2
  <2>3. Scopes(s, marks, Len(text) + 1)
    BY <1>6, <2>1, <2>2 DEF Scopes, AtMost, s
  <2>4. Rooted(s, marks)
    BY <1>2 DEF Rooted
  <2> QED BY <1>1, <2>3, <2>4 DEF s
<1>10. Balance(Append(text, e), open', Len(marks'), pos, Len(lmarks))
  BY <1>1, <1>2, <1>4, BalancePlain
<1>11. phase' \in {"sema", "lower", "done", "rejected"} /\ LowerMove
  BY <1>1, LowerStays DEF lowerVars
<1> QED BY <1>1, <1>4, <1>8, <1>9, <1>10, <1>11, TextStep

\* A step that only says how far the program got.
LEMMA NoScopes ==
  ASSUME ScopesInv, UNCHANGED <<semaVars, lowerVars>>,
         phase' \in {"sema", "lower", "done", "rejected"}
  PROVE  ScopesInv' /\ SemaMove /\ LowerMove
<1>1. /\ text' = text /\ open' = open /\ syms' = syms /\ marks' = marks
      /\ pos' = pos /\ answers' = answers /\ locals' = locals /\ lmarks' = lmarks
  BY DEF semaVars, lowerVars
<1>2. ScopesInv'
  BY <1>1 DEF ScopesInv
<1> QED BY <1>1, <1>2, SemaStays, LowerStays

LEMMA FoundIsDecl ==
  ASSUME ScopesInv, NEW n \in Name
  PROVE  SemaFind(n) \in Decl
<1>1. syms \in Seq(LocalDecl) /\ SemaFind(n) = Find(syms, n)
  BY SemaNow DEF SemaFind, Find
<1> QED BY <1>1, FindIsDecl

LEMMA NamesUpToOne == UpToOne \subseteq Seq(Name)
<1>1. <<>> \in Seq(Name) /\ \A n \in Name : <<n>> \in Seq(Name)
  OBVIOUS
<1> QED BY <1>1, Zenon DEF UpToOne

LEMMA OneElem ==
  ASSUME NEW o \in Ops, NEW n \in Name, NEW d \in Decl
  PROVE  Elem(o, <<n>>, <<d>>) \in Elements
<1>1. <<n>> \in Seq(Name) /\ <<d>> \in Seq(Decl)
  OBVIOUS
<1> QED BY <1>1 DEF Elem, Elements

\* Every step of sema moves its scopes as block scoping says.
LEMMA SemaScopesStep ==
  ASSUME ScopesInv, SemaStep
  PROVE  ScopesInv' /\ SemaMove /\ LowerMove
<1>1. CASE Reject
  BY <1>1, NoScopes DEF Reject
<1>2. CASE SemaAccepts
  BY <1>2, NoScopes DEF SemaAccepts
<1>3. ASSUME ~Reject, NEW ps \in ParamLists, SemaFn(ps)
      PROVE  ScopesInv' /\ SemaMove /\ LowerMove
  <2>1. ps \in Seq(Name)
    BY ScopingAssumption
  <2> QED BY <1>3, <2>1, FnScopes
<1>4. CASE SemaOpen
  <2>1. Elem("open", <<>>, <<>>) \in Elements /\ Elem("open", <<>>, <<>>).op = "open"
    <3>1. <<>> \in Seq(Name) /\ <<>> \in Seq(Decl)
      OBVIOUS
    <3> QED BY <3>1 DEF Elem, Elements, Ops
  <2>2. /\ open # <<>> /\ text' = Append(text, Elem("open", <<>>, <<>>))
        /\ open' = Append(StmtDone(open), "block") /\ syms' = syms
        /\ marks' = Append(marks, Len(syms)) /\ phase' = phase /\ UNCHANGED lowerVars
    BY <1>4 DEF SemaOpen, AtStmt, Emit
  <2> QED BY <2>1, <2>2, OpenScopes
<1>5. CASE SemaClose \/ SemaEndFn
  BY <1>5, CloseScopes DEF SemaClose, SemaEndFn
<1>6. ASSUME ~Reject, NEW n \in Name, NEW init \in UpToOne, SemaLet(n, init)
      PROVE  ScopesInv' /\ SemaMove /\ LowerMove
  <2>1. init \in Seq(Name)
    BY NamesUpToOne
  <2> QED BY <1>6, <2>1, LetScopes
<1>7. ASSUME ~Reject, NEW n \in Name, SemaUse(n) \/ SemaAddress(n) \/ SemaCall(n)
      PROVE  ScopesInv' /\ SemaMove /\ LowerMove
  <2>1. PICK o \in {"use", "address", "call"} :
          text' = Append(text, Elem(o, <<n>>, <<SemaFind(n)>>))
    BY <1>7 DEF SemaUse, SemaAddress, SemaCall, Emit
  <2>2. /\ open # <<>> /\ open' = StmtDone(open) /\ syms' = syms /\ marks' = marks
        /\ phase' = phase /\ UNCHANGED lowerVars
    BY <1>7 DEF SemaUse, SemaAddress, SemaCall, AtStmt
  <2> DEFINE e == Elem(o, <<n>>, <<SemaFind(n)>>)
  <2>3. e \in Elements
    <3>1. o \in Ops /\ SemaFind(n) \in Decl
      BY FoundIsDecl DEF Ops
    <3> QED BY <3>1, OneElem
  <2>4. e.op = o /\ text' = Append(text, e)
    BY <2>1 DEF Elem
  <2> HIDE DEF e
  <2> QED BY <2>2, <2>3, <2>4, PlainScopes
<1>8. CASE SemaMatch
  <2>1. Elem("match", <<>>, <<>>) \in Elements /\ Elem("match", <<>>, <<>>).op = "match"
    <3>1. <<>> \in Seq(Name) /\ <<>> \in Seq(Decl)
      OBVIOUS
    <3> QED BY <3>1 DEF Elem, Elements, Ops
  <2>2. /\ open # <<>> /\ text' = Append(text, Elem("match", <<>>, <<>>))
        /\ open' = Append(StmtDone(open), "match") /\ syms' = syms
        /\ marks' = marks /\ phase' = phase /\ UNCHANGED lowerVars
    BY <1>8 DEF SemaMatch, AtStmt, Emit
  <2> QED BY <2>1, <2>2, OpenScopes
<1>9. ASSUME ~Reject, NEW label \in UpToOne, SemaArm(label)
      PROVE  ScopesInv' /\ SemaMove /\ LowerMove
  <2> DEFINE sems == [i \in DOMAIN label |-> Global(label[i])]
             e == Elem("arm", label, sems)
  <2>1. /\ open # <<>> /\ TopOf(open) = "match" /\ text' = Append(text, e)
        /\ open' = Append(open, "arm") /\ syms' = syms
        /\ marks' = marks /\ phase' = phase /\ UNCHANGED lowerVars
    BY <1>9 DEF SemaArm, Emit
  <2>2. e \in Elements /\ e.op = "arm"
    <3>1. label \in Seq(Name) /\ Len(label) \in Nat /\ DOMAIN label = 1 .. Len(label)
      BY NamesUpToOne
    <3>2. \A i \in 1 .. Len(label) : label[i] \in Name
      BY <3>1
    <3>3. sems \in [1 .. Len(label) -> Decl]
      BY <3>1, <3>2, GlobalIsDecl
    <3> HIDE DEF sems
    <3>4. sems \in Seq(Decl)
      BY <3>1, <3>3, SeqDef
    <3> QED BY <3>1, <3>4 DEF Elem, Elements, Ops
  <2> HIDE DEF e
  <2>3. StmtDone(open) = open
    BY <2>1 DEF StmtDone
  <2> QED BY <2>1, <2>2, <2>3, OpenScopes
<1>10. CASE SemaEndArm \/ SemaEndMatch
  BY <1>10, EndScopes DEF SemaEndArm, SemaEndMatch
<1>11. CASE SemaLogic
  <2>1. Elem("logic", <<>>, <<>>) \in Elements /\ Elem("logic", <<>>, <<>>).op = "logic"
    <3>1. <<>> \in Seq(Name) /\ <<>> \in Seq(Decl)
      OBVIOUS
    <3> QED BY <3>1 DEF Elem, Elements, Ops
  <2>2. /\ open # <<>> /\ text' = Append(text, Elem("logic", <<>>, <<>>))
        /\ open' = StmtDone(open) /\ syms' = syms
        /\ marks' = marks /\ phase' = phase /\ UNCHANGED lowerVars
    BY <1>11 DEF SemaLogic, AtStmt, Emit
  <2> QED BY <2>1, <2>2, PlainScopes
<1> QED BY <1>1, <1>2, <1>3, <1>4, <1>5, <1>6, <1>7, <1>8, <1>9, <1>10, <1>11 DEF SemaStep

-----------------------------------------------------------------------------
(* Lowering's marks; the scope around all of them starts at 0 *)

Shifted(lm) == <<0>> \o lm

LEMMA ShiftedIs ==
  ASSUME NEW lm \in Seq(Nat)
  PROVE  /\ Shifted(lm) \in Seq(Nat) /\ Len(Shifted(lm)) = Len(lm) + 1
         /\ Shifted(lm)[1] = 0 /\ \A k \in 1 .. Len(lm) : Shifted(lm)[k + 1] = lm[k]
<1>1. <<0>> \in Seq(Nat) /\ Len(<<0>>) = 1 /\ <<0>>[1] = 0 /\ Len(lm) \in Nat
  OBVIOUS
<1> DEFINE q == <<0>> \o lm
<1>2. /\ q \in Seq(Nat) /\ Len(q) = 1 + Len(lm)
      /\ \A i \in 1 .. 1 + Len(lm) : q[i] = IF i <= 1 THEN <<0>>[i] ELSE lm[i - 1]
  BY <1>1, ConcatProperties
<1> HIDE DEF q
<1>3. q[1] = 0
  <2>1. 1 \in 1 .. 1 + Len(lm)
    BY <1>1
  <2> QED BY <1>1, <1>2, <2>1
<1>4. ASSUME NEW k \in 1 .. Len(lm) PROVE q[k + 1] = lm[k]
  <2>1. k + 1 \in 1 .. 1 + Len(lm) /\ ~(k + 1 <= 1) /\ k + 1 - 1 = k
    BY <1>1
  <2> QED BY <1>2, <2>1
<1>5. Len(q) = Len(lm) + 1
  BY <1>1, <1>2
<1> QED BY <1>2, <1>3, <1>4, <1>5 DEF q, Shifted

LEMMA ShiftedMarks ==
  ASSUME NEW ds \in Seq(LocalDecl), NEW lm, MarksIn(ds, lm)
  PROVE  MarksIn(ds, Shifted(lm))
<1> DEFINE q == Shifted(lm)
<1>1. lm \in Seq(Nat) /\ Len(lm) \in Nat /\ Len(ds) \in Nat
  BY DEF MarksIn
<1>2. /\ q \in Seq(Nat) /\ Len(q) = Len(lm) + 1
      /\ q[1] = 0 /\ \A k \in 1 .. Len(lm) : q[k + 1] = lm[k]
  BY <1>1, ShiftedIs
<1> HIDE DEF q
<1>3. ASSUME NEW i \in 1 .. Len(q)
      PROVE  i # 1 => i - 1 \in 1 .. Len(lm) /\ q[i] = lm[i - 1]
  <2>1. i # 1 => i - 1 \in 1 .. Len(lm) /\ (i - 1) + 1 = i
    BY <1>1, <1>2
  <2> QED BY <1>2, <2>1
<1>4. \A i \in 1 .. Len(q) : q[i] <= Len(ds)
  <2>1. \A k \in 1 .. Len(lm) : lm[k] <= Len(ds)
    BY DEF MarksIn
  <2>2. ASSUME NEW i \in 1 .. Len(q) PROVE q[i] <= Len(ds)
    <3>1. CASE i = 1
      BY <1>1, <1>2, <3>1
    <3>2. CASE i # 1
      <4>1. i - 1 \in 1 .. Len(lm) /\ q[i] = lm[i - 1]
        BY <1>3, <3>2
      <4> QED BY <2>1, <4>1
    <3> QED BY <3>1, <3>2
  <2> QED BY <2>2
<1>5. ASSUME NEW i \in 1 .. Len(q), NEW j \in 1 .. Len(q), i <= j PROVE q[i] <= q[j]
  <2>1. q[i] \in Nat /\ q[j] \in Nat
    BY <1>2
  <2>2. CASE i = 1
    BY <1>2, <2>1, <2>2
  <2>3. CASE i # 1
    <3>1. /\ i - 1 \in 1 .. Len(lm) /\ q[i] = lm[i - 1]
      BY <1>3, <2>3
    <3>2. j # 1
      BY <1>1, <1>2, <1>5, <2>3
    <3>3. /\ j - 1 \in 1 .. Len(lm) /\ q[j] = lm[j - 1]
      BY <1>3, <3>2
    <3>4. i - 1 <= j - 1
      BY <1>1, <1>2, <1>5
    <3>5. lm[i - 1] <= lm[j - 1]
      BY <3>1, <3>3, <3>4 DEF MarksIn
    <3> QED BY <3>1, <3>3, <3>5
  <2> QED BY <2>2, <2>3
<1>6. MarksIn(ds, q)
  BY <1>2, <1>4, <1>5 DEF MarksIn
<1> QED BY <1>6 DEF q

LEMMA ShiftedPush ==
  ASSUME NEW lm \in Seq(Nat), NEW n \in Nat
  PROVE  Shifted(Append(lm, n)) = Append(Shifted(lm), n)
<1> DEFINE p == Append(lm, n)
           x == Shifted(p)
           q == Shifted(lm)
           y == Append(q, n)
           N == Len(lm)
<1>1. /\ p \in Seq(Nat) /\ Len(p) = N + 1 /\ p[N + 1] = n /\ N \in Nat
      /\ \A k \in 1 .. N : p[k] = lm[k]
  OBVIOUS
<1> HIDE DEF p
<1>2. /\ x \in Seq(Nat) /\ Len(x) = N + 2
      /\ x[1] = 0 /\ \A k \in 1 .. N + 1 : x[k + 1] = p[k]
  <2>1. /\ x \in Seq(Nat) /\ Len(x) = Len(p) + 1
        /\ x[1] = 0 /\ \A k \in 1 .. Len(p) : x[k + 1] = p[k]
    BY <1>1, ShiftedIs
  <2>2. Len(p) + 1 = N + 2
    BY <1>1
  <2> QED BY <1>1, <2>1, <2>2
<1>3. /\ q \in Seq(Nat) /\ Len(q) = N + 1
      /\ q[1] = 0 /\ \A k \in 1 .. N : q[k + 1] = lm[k]
  BY ShiftedIs
<1> HIDE DEF x, q, N
<1>4. /\ y \in Seq(Nat) /\ Len(y) = N + 2 /\ y[N + 2] = n
      /\ \A k \in 1 .. N + 1 : y[k] = q[k]
  <2>1. Len(q) + 1 = N + 2
    BY <1>1, <1>3
  <2> QED BY <1>3, <2>1, AppendProperties
<1> HIDE DEF y
<1>5. ASSUME NEW i \in 1 .. N + 2 PROVE x[i] = y[i]
  <2>1. CASE i = 1
    <3>1. 1 \in 1 .. N + 1
      BY <1>1
    <3> QED BY <1>2, <1>3, <1>4, <2>1, <3>1
  <2>2. CASE i = N + 2
    <3>1. N + 1 \in 1 .. N + 1 /\ (N + 1) + 1 = N + 2
      BY <1>1
    <3>2. x[(N + 1) + 1] = p[N + 1]
      BY <1>2, <3>1
    <3> QED BY <1>1, <1>4, <2>2, <3>1, <3>2
  <2>3. CASE i # 1 /\ i # N + 2
    <3> DEFINE k == i - 1
    <3>1. k \in 1 .. N /\ k \in 1 .. N + 1 /\ k + 1 = i /\ i \in 1 .. N + 1
      BY <1>1, <2>3
    <3> HIDE DEF k
    <3>2. x[i] = p[k] /\ p[k] = lm[k] /\ q[i] = lm[k] /\ y[i] = q[i]
      BY <1>1, <1>2, <1>3, <1>4, <3>1
    <3> QED BY <3>2
  <2> QED BY <2>1, <2>2, <2>3
<1>6. x = y
  BY <1>2, <1>4, <1>5, SeqEqual
<1> QED BY <1>6 DEF x, y, p, q

LEMMA ShiftedPop ==
  ASSUME NEW lm \in Seq(Nat), lm # <<>>
  PROVE  Shifted(Cut(lm)) = Cut(Shifted(lm)) /\ TopOf(Shifted(lm)) = TopOf(lm)
<1> DEFINE c == Cut(lm)
           n == TopOf(lm)
<1>1. c \in Seq(Nat) /\ n \in Nat /\ Append(c, n) = lm
  BY CutShortens, CutThenAppend
<1> HIDE DEF c, n
<1>2. Shifted(lm) = Append(Shifted(c), n)
  BY <1>1, ShiftedPush
<1>3. Shifted(c) \in Seq(Nat)
  BY <1>1, ShiftedIs
<1>4. TopOf(Append(Shifted(c), n)) = n /\ Cut(Append(Shifted(c), n)) = Shifted(c)
  BY <1>1, <1>3, AppendPop
<1> QED BY <1>2, <1>4 DEF c, n

\* What lowering sees, as scopes.
LEMMA LowerNow ==
  ASSUME NEW ds \in Seq(LocalDecl), NEW lm, MarksIn(ds, lm)
  PROVE  /\ lm \in Seq(Nat) /\ Len(lm) \in Nat /\ Len(ds) \in Nat
         /\ MarksIn(ds, Shifted(lm)) /\ Shifted(lm) # <<>> /\ Len(Shifted(lm)) = Len(lm) + 1
         /\ Shifted(lm)[1] = 0 /\ Len(View(ds, Shifted(lm))) = Len(lm) + 1
<1>1. lm \in Seq(Nat) /\ Len(lm) \in Nat /\ Len(ds) \in Nat
  BY DEF MarksIn
<1>2. /\ Shifted(lm) \in Seq(Nat) /\ Len(Shifted(lm)) = Len(lm) + 1 /\ Shifted(lm)[1] = 0
  BY <1>1, ShiftedIs
<1>3. MarksIn(ds, Shifted(lm))
  BY ShiftedMarks
<1>4. Len(View(ds, Shifted(lm))) = Len(lm) + 1
  BY <1>2, <1>3, ScopeAt
<1>5. Shifted(lm) # <<>>
  <2> DEFINE q == Shifted(lm)
  <2> HIDE DEF q
  <2>1. Len(q) = Len(lm) + 1 /\ q \in Seq(Nat)
    BY <1>2 DEF q
  <2>2. q # <<>>
    BY <1>1, <2>1
  <2> QED BY <2>2 DEF q
<1> QED BY <1>1, <1>2, <1>3, <1>4, <1>5

\* Lowering replays an element.
LEMMA ReplayScopes ==
  ASSUME ScopesInv, pos < Len(text), NEW ds, Answer(ds), UNCHANGED <<phase, semaVars>>,
         Scopes(locals', lmarks', pos + 1),
         Balance(text, open, Len(marks), pos + 1, Len(lmarks'))
  PROVE  ScopesInv' /\ SemaMove
<1>1. /\ text' = text /\ open' = open /\ syms' = syms /\ marks' = marks /\ phase' = phase
      /\ pos' = pos + 1 /\ answers' = Append(answers, ds)
  BY DEF semaVars, Answer
<1>2. pos \in 0 .. Len(text) /\ Len(text) \in Nat
  BY SemaNow
<1>3. pos' \in 0 .. Len(text') /\ Len(answers') = pos' /\ \E S : answers' \in Seq(S)
  <2>1. PICK S : answers \in Seq(S)
    BY DEF ScopesInv
  <2>2. answers \in Seq(S \cup {ds}) /\ ds \in S \cup {ds} /\ Len(answers) = pos
    BY <2>1 DEF ScopesInv
  <2>3. answers' \in Seq(S \cup {ds}) /\ Len(answers') = pos + 1
    BY <1>1, <2>2, AppendProperties
  <2> QED BY <1>1, <1>2, <2>3
<1>4. Scopes(locals', lmarks', pos') /\ Balance(text', open', Len(marks'), pos', Len(lmarks'))
  BY <1>1
<1>5. ScopesInv'
  BY <1>1, <1>3, <1>4 DEF ScopesInv
<1> QED BY <1>1, <1>5, SemaStays

\* The element to replay, and the marks there will be.
LEMMA ReplayNow ==
  ASSUME ScopesInv, NEW ops, AtElem(ops)
  PROVE  /\ pos \in Nat /\ pos < Len(text) /\ This \in Elements /\ NamesOne(This)
         /\ This.op \in ops /\ This.op \in Ops
         /\ \E m \in Nat : /\ Balance(text, open, Len(marks), pos + 1, m)
                           /\ DepthStep(This, Len(lmarks), m)
         /\ locals \in Seq(LocalDecl) /\ AtMost(locals, pos) /\ MarksIn(locals, lmarks)
         /\ lmarks \in Seq(Nat) /\ Len(lmarks) \in Nat
<1>1. /\ text \in Seq(Elements) /\ Len(text) \in Nat /\ pos \in 0 .. Len(text)
      /\ Balance(text, open, Len(marks), pos, Len(lmarks))
  BY SemaNow
<1>2. pos < Len(text) /\ text[pos + 1].op \in ops
  BY DEF AtElem
<1>3. pos + 1 \in 1 .. Len(text)
  BY <1>1, <1>2
<1>4. This \in Elements /\ NamesOne(This) /\ This = text[pos + 1]
  BY <1>1, <1>3 DEF ScopesInv, This
<1>5. This.op \in Ops
  BY <1>4 DEF Elements
<1>6. \E m \in Nat : /\ Balance(text, open, Len(marks), pos + 1, m)
                     /\ DepthStep(This, Len(lmarks), m)
  BY <1>1, <1>2, <1>4, BalanceReplay
<1>7. locals \in Seq(LocalDecl) /\ AtMost(locals, pos) /\ MarksIn(locals, lmarks)
  BY DEF ScopesInv, Scopes
<1> QED BY <1>1, <1>2, <1>4, <1>5, <1>6, <1>7, LowerNow

\* An element that moves nothing.
LEMMA LowerPlainScopes ==
  ASSUME ScopesInv, AtElem({"use", "address", "call", "logic", "match", "end_match"}),
         NEW ds, Answer(ds), UNCHANGED <<phase, semaVars>>, locals' = locals, lmarks' = lmarks
  PROVE  ScopesInv' /\ SemaMove /\ LowerMove
<1>1. /\ pos \in Nat /\ pos < Len(text)
      /\ This.op \in {"use", "address", "call", "logic", "match", "end_match"}
  BY ReplayNow
<1>2. PICK m \in Nat : /\ Balance(text, open, Len(marks), pos + 1, m)
                       /\ DepthStep(This, Len(lmarks), m)
  BY ReplayNow
<1>3. m = Len(lmarks)
  BY <1>1, <1>2 DEF DepthStep
<1>4. Scopes(locals', lmarks', pos + 1)
  BY <1>1, ScopesLater DEF ScopesInv
<1> QED BY <1>1, <1>2, <1>3, <1>4, ReplayScopes, LowerStays

LEMMA LowerFnScopes ==
  ASSUME ScopesInv, LowerFn
  PROVE  ScopesInv' /\ SemaMove /\ LowerMove
<1>1. AtElem({"fn"}) /\ UNCHANGED <<phase, semaVars>> /\ Answer(<<>>)
  BY DEF LowerFn
<1>2. /\ pos \in Nat /\ pos < Len(text) /\ This \in Elements /\ This.op = "fn"
      /\ lmarks \in Seq(Nat) /\ Len(lmarks) \in Nat
  BY <1>1, ReplayNow
<1>3. PICK m \in Nat : /\ Balance(text, open, Len(marks), pos + 1, m)
                       /\ DepthStep(This, Len(lmarks), m)
  BY <1>1, ReplayNow
<1>4. m = 1 /\ Len(lmarks) = 0
  BY <1>2, <1>3 DEF DepthStep
<1> DEFINE ps  == This.names
           own == [i \in DOMAIN ps |-> Local("param", ps[i], pos + 1)]
<1>5. ps \in Seq(Name)
  BY <1>2 DEF Elements
<1>6. locals' = own /\ lmarks' = <<Len(ps)>>
  BY DEF LowerFn
<1> HIDE DEF ps
<1>7. Len(ps) \in Nat /\ DOMAIN ps = 1 .. Len(ps) /\ \A i \in DOMAIN ps : ps[i] \in Name
  BY <1>5
<1>8. own \in Seq(LocalDecl) /\ Len(own) = Len(ps) /\ AtMost(own, pos + 1)
  <2>1. \A i \in 1 .. Len(ps) : Local("param", ps[i], pos + 1) \in LocalDecl
    BY <1>2, <1>7, LocalIsDecl
  <2>2. own \in [1 .. Len(ps) -> LocalDecl]
    BY <1>7, <2>1
  <2>3. \A i \in 1 .. Len(ps) : own[i].at = pos + 1
    BY <1>7 DEF Local
  <2> HIDE DEF own
  <2>4. own \in Seq(LocalDecl) /\ Len(own) = Len(ps)
    BY <1>7, <2>2, SeqDef
  <2>5. pos + 1 \in 1 .. pos + 1
    BY <1>2
  <2> QED BY <2>3, <2>4, <2>5 DEF AtMost
<1> HIDE DEF own
<1>9. lmarks' = <<Len(own)>> /\ Len(lmarks') = 1 /\ Len(own) \in Nat
  BY <1>6, <1>7, <1>8
<1>10. MarksIn(own, <<Len(own)>>)
  BY <1>9 DEF MarksIn
<1>11. Scopes(locals', lmarks', pos + 1)
  BY <1>6, <1>8, <1>9, <1>10 DEF Scopes
<1>12. ScopesInv' /\ SemaMove
  BY <1>1, <1>2, <1>3, <1>4, <1>9, <1>11, ReplayScopes
<1> DEFINE w == View(own, <<0, Len(own)>>)
<1>13. Len(w) = 2 /\ w[1] \in Bindings /\ w[2] = EmptyMap
  BY <1>8, ViewFn
<1>14. LowerView' = w
  <2>1. <<0>> \o <<Len(own)>> = <<0, Len(own)>>
    <3>1. ASSUME NEW n \in Nat PROVE <<0>> \o <<n>> = <<0, n>>
      <4> DEFINE p == <<0>> \o <<n>>
                 q == <<0, n>>
      <4>1. <<0>> \in Seq(Nat) /\ Len(<<0>>) = 1 /\ <<n>> \in Seq(Nat) /\ Len(<<n>>) = 1 /\ <<n>>[1] = n
        OBVIOUS
      <4>2. /\ p \in Seq(Nat) /\ Len(p) = 2
            /\ \A i \in 1 .. 2 : p[i] = IF i <= 1 THEN <<0>>[i] ELSE <<n>>[i - 1]
        BY <4>1, ConcatProperties
      <4>3. q \in Seq(Nat) /\ Len(q) = 2 /\ q[1] = 0 /\ q[2] = n
        OBVIOUS
      <4> HIDE DEF p, q
      <4>4. p[1] = 0 /\ p[2] = n
        BY <4>1, <4>2
      <4>5. \A i \in 1 .. 2 : i = 1 \/ i = 2
        OBVIOUS
      <4>6. p = q
        BY <4>2, <4>3, <4>4, <4>5, SeqEqual
      <4> QED BY <4>6 DEF p, q
    <3> QED BY <1>9, <3>1
  <2>2. lmarks' # <<>>
    BY <1>9
  <2> QED BY <1>6, <1>9, <2>1, <2>2 DEF LowerView
<1>15. LowerView = <<>>
  <2>1. lmarks = <<>>
    BY <1>2, <1>4
  <2> QED BY <2>1 DEF LowerView
<1> HIDE DEF w
<1>16. LowerMove
  BY <1>13, <1>14, <1>15, LowerEnvEntersFn
<1> QED BY <1>12, <1>16

\* A block or an arm.
LEMMA LowerOpenScopes ==
  ASSUME ScopesInv, LowerOpen \/ LowerArm
  PROVE  ScopesInv' /\ SemaMove /\ LowerMove
<1>1. /\ AtElem({"open", "arm"}) /\ UNCHANGED <<phase, semaVars>> /\ \E ds : Answer(ds)
      /\ locals' = locals /\ lmarks' = Append(lmarks, Len(locals))
  BY DEF LowerOpen, LowerArm, AtElem
<1>2. /\ pos \in Nat /\ pos < Len(text) /\ This.op \in {"open", "arm"}
      /\ locals \in Seq(LocalDecl) /\ AtMost(locals, pos) /\ MarksIn(locals, lmarks)
      /\ lmarks \in Seq(Nat) /\ Len(lmarks) \in Nat
  BY <1>1, ReplayNow
<1>3. PICK m \in Nat : /\ Balance(text, open, Len(marks), pos + 1, m)
                       /\ DepthStep(This, Len(lmarks), m)
  BY <1>1, ReplayNow
<1>4. m = Len(lmarks) + 1 /\ Len(lmarks) >= 1
  BY <1>2, <1>3 DEF DepthStep
<1>5. Len(locals) \in Nat /\ Len(lmarks') = Len(lmarks) + 1 /\ lmarks' # <<>>
  BY <1>1, <1>2, AppendProperties
<1>6. MarksIn(locals, lmarks')
  BY <1>1, <1>2, ViewPush
<1>7. Scopes(locals', lmarks', pos + 1)
  <2>1. Scopes(locals, lmarks, pos + 1)
    BY <1>2, ScopesLater DEF ScopesInv
  <2> QED BY <1>1, <1>6, <2>1 DEF Scopes
<1>8. ScopesInv' /\ SemaMove
  BY <1>1, <1>2, <1>3, <1>4, <1>5, <1>7, ReplayScopes
<1> DEFINE v == View(locals, Shifted(lmarks))
<1>9. Len(v) = Len(lmarks) + 1 /\ MarksIn(locals, Shifted(lmarks))
  BY <1>2, LowerNow
<1>10. LowerView = v
  <2>1. lmarks # <<>>
    BY <1>4
  <2> QED BY <2>1 DEF LowerView, Shifted
<1>11. LowerView' = Append(v, EmptyMap)
  <2>1. View(locals, Append(Shifted(lmarks), Len(locals))) = Append(v, EmptyMap)
    BY <1>2, <1>9, ViewPush
  <2>2. Shifted(lmarks') = Append(Shifted(lmarks), Len(locals))
    BY <1>1, <1>2, <1>5, ShiftedPush
  <2>3. LowerView' = View(locals', Shifted(lmarks'))
    BY <1>5 DEF LowerView, Shifted
  <2> QED BY <1>1, <2>1, <2>2, <2>3
<1> HIDE DEF v
<1>12. Len(v) >= 2
  BY <1>2, <1>4, <1>9
<1>13. LowerMove
  BY <1>10, <1>11, <1>12, LowerEnvEnters
<1> QED BY <1>8, <1>13

\* A block, an arm or a function closes.
LEMMA LowerCloseScopes ==
  ASSUME ScopesInv, LowerClose \/ LowerEndArm
  PROVE  ScopesInv' /\ SemaMove /\ LowerMove
<1>1. /\ AtElem({"close", "end_arm"}) /\ UNCHANGED <<phase, semaVars>> /\ Answer(<<>>)
      /\ locals' = SubSeq(locals, 1, TopOf(lmarks)) /\ lmarks' = Cut(lmarks)
  BY DEF LowerClose, LowerEndArm, AtElem
<1>2. /\ pos \in Nat /\ pos < Len(text) /\ This.op \in {"close", "end_arm"}
      /\ locals \in Seq(LocalDecl) /\ AtMost(locals, pos) /\ MarksIn(locals, lmarks)
      /\ lmarks \in Seq(Nat) /\ Len(lmarks) \in Nat
  BY <1>1, ReplayNow
<1>3. PICK m \in Nat : /\ Balance(text, open, Len(marks), pos + 1, m)
                       /\ DepthStep(This, Len(lmarks), m)
  BY <1>1, ReplayNow
<1>4. m = Len(lmarks) - 1 /\ Len(lmarks) >= 1
  BY <1>2, <1>3 DEF DepthStep
<1>5. lmarks # <<>>
  BY <1>4
<1>6. /\ Len(lmarks') = Len(lmarks) - 1 /\ (lmarks' = <<>> <=> Len(lmarks) = 1)
      /\ TopOf(lmarks) \in 0 .. Len(locals)
  <2>1. /\ Len(Cut(lmarks)) = Len(lmarks) - 1 /\ (Cut(lmarks) = <<>> <=> Len(lmarks) = 1)
        /\ TopOf(lmarks) = lmarks[Len(lmarks)] /\ lmarks[Len(lmarks)] \in Nat
    BY <1>2, <1>5, CutShortens
  <2>2. Len(lmarks) \in 1 .. Len(lmarks) /\ Len(locals) \in Nat
    BY <1>2, <1>4
  <2>3. lmarks[Len(lmarks)] <= Len(locals)
    BY <1>2, <2>2 DEF MarksIn
  <2> QED BY <1>1, <2>1, <2>2, <2>3
<1>7. locals' \in Seq(LocalDecl) /\ MarksIn(locals', lmarks')
  BY <1>1, <1>2, <1>5, ViewPop
<1>8. Scopes(locals', lmarks', pos + 1)
  <2> DEFINE n == TopOf(lmarks)
  <2>1. n \in 0 .. Len(locals) /\ Len(locals) \in Nat
    BY <1>2, <1>6
  <2> HIDE DEF n
  <2>2. Len(locals') = n /\ \A i \in 1 .. n : locals'[i] = locals[i] /\ i \in 1 .. Len(locals)
    BY <1>1, <1>2, <2>1, Prefix DEF n
  <2>3. \A k \in 1 .. pos : k \in 1 .. pos + 1
    BY <1>2
  <2>4. AtMost(locals', pos + 1)
    BY <1>2, <2>2, <2>3 DEF AtMost
  <2> QED BY <1>7, <2>4 DEF Scopes
<1>9. ScopesInv' /\ SemaMove
  BY <1>1, <1>2, <1>3, <1>4, <1>6, <1>8, ReplayScopes
<1> DEFINE v == View(locals, Shifted(lmarks))
<1>10. /\ Len(v) = Len(lmarks) + 1 /\ MarksIn(locals, Shifted(lmarks))
       /\ Shifted(lmarks) # <<>> /\ Len(Shifted(lmarks)) = Len(lmarks) + 1
  BY <1>2, LowerNow
<1>11. LowerView = v
  BY <1>5 DEF LowerView, Shifted
<1>12. CASE Len(lmarks) = 1
  <2>1. LowerView' = <<>>
    BY <1>6, <1>12 DEF LowerView
  <2>2. Len(LowerView) = 2
    BY <1>10, <1>11, <1>12
  <2> QED BY <1>9, <2>1, <2>2, LowerEnvLeavesFn
<1>13. CASE Len(lmarks) # 1
  <2>1. Len(v) > 2
    BY <1>2, <1>4, <1>10, <1>13
  <2>2. LowerView' = View(locals', Shifted(lmarks'))
    BY <1>6, <1>13 DEF LowerView, Shifted
  <2>3. /\ Shifted(lmarks') = Cut(Shifted(lmarks))
        /\ locals' = SubSeq(locals, 1, TopOf(Shifted(lmarks)))
    BY <1>1, <1>2, <1>5, ShiftedPop
  <2>4. View(locals', Shifted(lmarks')) = SubSeq(v, 1, Len(Shifted(lmarks)) - 1)
    BY <1>2, <1>10, <2>3, ViewPop
  <2>5. LowerView' = SubSeq(v, 1, Len(v) - 1)
    BY <1>10, <2>2, <2>4
  <2> HIDE DEF v
  <2>6. LowerMove
    BY <1>11, <2>1, <2>5, LowerEnvLeaves
  <2> QED BY <1>9, <2>6
<1> QED BY <1>12, <1>13

\* A local is the last declaration of the innermost scope; that it is a new name
\* there is sema's doing.
LEMMA LowerLetScopes ==
  ASSUME ScopesInv, LowerLet
  PROVE  /\ ScopesInv' /\ SemaMove
         /\ Hits(locals, Head(This.names), TopOf(lmarks) + 1) = {} => LowerMove
<1>1. AtElem({"let"}) /\ UNCHANGED <<phase, semaVars>> /\ lmarks' = lmarks /\ \E ds : Answer(ds)
  BY DEF LowerLet
<1>2. /\ pos \in Nat /\ pos < Len(text) /\ This \in Elements /\ This.op = "let" /\ NamesOne(This)
      /\ locals \in Seq(LocalDecl) /\ AtMost(locals, pos) /\ MarksIn(locals, lmarks)
      /\ lmarks \in Seq(Nat) /\ Len(lmarks) \in Nat
  BY <1>1, ReplayNow
<1>3. PICK m \in Nat : /\ Balance(text, open, Len(marks), pos + 1, m)
                       /\ DepthStep(This, Len(lmarks), m)
  BY <1>1, ReplayNow
<1>4. m = Len(lmarks) /\ Len(lmarks) >= 1
  BY <1>2, <1>3 DEF DepthStep
<1> DEFINE n == Head(This.names)
           d == Local("local", n, pos + 1)
<1>5. n \in Name
  <2>1. This.names \in Seq(Name) /\ This.names # <<>>
    BY <1>2 DEF Elements, NamesOne
  <2> QED BY <2>1, HeadTailProperties
<1>6. locals' = Append(locals, d)
  BY DEF LowerLet
<1> HIDE DEF n
<1>7. d \in LocalDecl /\ d.name = n /\ d.at = pos + 1
  <2>1. d \in LocalDecl
    BY <1>2, <1>5, LocalIsDecl
  <2> QED BY <2>1 DEF Local
<1> HIDE DEF d
<1>8. lmarks # <<>> /\ Len(locals) \in Nat
  BY <1>2, <1>4
<1> DEFINE s == Append(locals, d)
           v == View(locals, Shifted(lmarks))
           w == View(s, Shifted(lmarks))
<1>9. /\ s \in Seq(LocalDecl) /\ Len(s) = Len(locals) + 1 /\ s[Len(locals) + 1] = d
      /\ \A i \in 1 .. Len(locals) : s[i] = locals[i]
  BY <1>2, <1>7, AppendProperties
<1> HIDE DEF s
<1>10. Scopes(s, lmarks, pos + 1)
  <2>1. ASSUME NEW i \in 1 .. Len(s) PROVE s[i].at \in 1 .. pos + 1
    <3>1. CASE i = Len(locals) + 1
      BY <1>2, <1>7, <1>9, <3>1
    <3>2. CASE i # Len(locals) + 1
      <4>1. i \in 1 .. Len(locals)
        BY <1>8, <1>9, <3>2
      <4>2. s[i].at \in 1 .. pos
        BY <1>2, <1>9, <4>1 DEF AtMost
      <4> QED BY <1>2, <4>2
    <3> QED BY <3>1, <3>2
  <2>2. MarksIn(s, lmarks)
    <3>1. \A i \in 1 .. Len(lmarks) : lmarks[i] \in Nat /\ lmarks[i] <= Len(locals)
      BY <1>2 DEF MarksIn
    <3>2. \A i \in 1 .. Len(lmarks) : lmarks[i] <= Len(s)
      BY <1>8, <1>9, <3>1
    <3> QED BY <1>2, <3>2 DEF MarksIn
  <2> QED BY <1>9, <2>1, <2>2 DEF Scopes, AtMost
<1>11. ScopesInv' /\ SemaMove
  <2>1. Scopes(locals', lmarks', pos + 1)
    BY <1>1, <1>6, <1>10 DEF s
  <2> QED BY <1>1, <1>2, <1>3, <1>4, <2>1, ReplayScopes
<1>12. ASSUME Hits(locals, n, TopOf(lmarks) + 1) = {} PROVE LowerMove
  <2>1. /\ Len(v) = Len(lmarks) + 1 /\ MarksIn(locals, Shifted(lmarks))
        /\ Shifted(lmarks) # <<>> /\ Len(Shifted(lmarks)) = Len(lmarks) + 1
    BY <1>2, LowerNow
  <2>2. LowerView = v /\ LowerView' = w
    BY <1>1, <1>6, <1>8 DEF LowerView, Shifted, s
  <2>3. Hits(locals, d.name, TopOf(Shifted(lmarks)) + 1) = {}
    BY <1>2, <1>7, <1>8, <1>12, ShiftedPop
  <2>4. BindsLast(v, w, Len(Shifted(lmarks)), d)
    BY <1>2, <1>7, <2>1, <2>3, ViewBind DEF s
  <2> HIDE DEF v, w
  <2>5. Len(w) = Len(v) /\ Len(v) >= 2 /\ BindsLast(v, w, Len(v), d)
    <3>1. Len(Shifted(lmarks)) = Len(v)
      BY <2>1
    <3>2. Len(w) = Len(v)
      BY <2>4, <3>1 DEF BindsLast
    <3> QED BY <1>2, <1>4, <2>1, <2>4, <3>1, <3>2
  <2> QED BY <1>7, <2>2, <2>5, LowerEnvDeclares
<1> QED BY <1>11, <1>12 DEF n

\* Every step of lowering keeps its marks.
LEMMA LowerScopesStep ==
  ASSUME ScopesInv, LowerStep
  PROVE  /\ ScopesInv' /\ SemaMove
         /\ LowerMove \/ (LowerLet /\ Hits(locals, Head(This.names), TopOf(lmarks) + 1) # {})
<1>1. CASE LowerFn
  BY <1>1, LowerFnScopes
<1>2. CASE LowerOpen \/ LowerArm
  BY <1>2, LowerOpenScopes
<1>3. CASE LowerClose \/ LowerEndArm
  BY <1>3, LowerCloseScopes
<1>4. CASE LowerLet
  BY <1>4, LowerLetScopes
<1>5. CASE LowerUse \/ LowerAddress \/ LowerCall \/ LowerLogic \/ LowerMatch
  <2>1. /\ AtElem({"use", "address", "call", "logic", "match", "end_match"}) /\ \E ds : Answer(ds)
        /\ UNCHANGED <<phase, semaVars>> /\ locals' = locals /\ lmarks' = lmarks
    BY <1>5 DEF LowerUse, LowerAddress, LowerCall, LowerLogic, LowerMatch, AtElem
  <2> QED BY <2>1, LowerPlainScopes
<1>6. CASE LowerDone
  BY <1>6, NoScopes DEF LowerDone
<1> QED BY <1>1, <1>2, <1>3, <1>4, <1>5, <1>6 DEF LowerStep

\* Before the first function there is nothing.
LEMMA ScopesStart == ASSUME Init PROVE ScopesInv
<1>1. /\ phase = "sema" /\ text = <<>> /\ open = <<>> /\ syms = <<>> /\ marks = <<>>
      /\ pos = 0 /\ locals = <<>> /\ lmarks = <<>> /\ answers = <<>>
  BY DEF Init
<1>2. ASSUME NEW S PROVE <<>> \in Seq(S) /\ Len(<<>>) = 0
  OBVIOUS
<1>3. ASSUME NEW n \in Nat PROVE Scopes(<<>>, <<>>, n)
  BY <1>2 DEF Scopes, AtMost, MarksIn
<1>4. Balance(<<>>, <<>>, 0, 0, 0)
  <2> DEFINE H == <<0>>
             D == <<Ground>>
  <2>1. H \in Seq(Nat) /\ Len(H) = 1 /\ H[1] = 0
    OBVIOUS
  <2>2. Ground \in Depth /\ Ground.s = 0 /\ Ground.l = 0
    BY DEF Ground, Depth
  <2>3. D \in Seq(Depth) /\ Len(D) = 1 /\ D[1] = Ground
    BY <2>2
  <2> HIDE DEF H, D
  <2>4. Depths(<<>>, H) /\ Nested(<<>>, D)
    BY <1>2, <2>1, <2>3 DEF Depths, Nested
  <2>5. Len(<<>>) + 1 = 1 /\ 0 + 1 = 1
    BY <1>2
  <2>6. H[Len(<<>>) + 1] = 0 /\ D[Len(<<>>) + 1] = Ground /\ H[0 + 1] = 0
    BY <2>1, <2>3, <2>5
  <2> QED BY <2>2, <2>4, <2>6 DEF Balance
<1>5. Rooted(<<>>, <<>>)
  BY DEF Rooted
<1>6. /\ text \in Seq(Elements) /\ (\A i \in 1 .. Len(text) : NamesOne(text[i]))
      /\ pos \in 0 .. Len(text) /\ Len(answers) = pos /\ \E S : answers \in Seq(S)
  BY <1>1, <1>2
<1>7. Scopes(syms, marks, Len(text)) /\ Scopes(locals, lmarks, pos)
  BY <1>1, <1>2, <1>3
<1>8. Balance(text, open, Len(marks), pos, Len(lmarks))
  BY <1>1, <1>2, <1>4
<1> QED BY <1>1, <1>5, <1>6, <1>7, <1>8 DEF ScopesInv

\* Every step keeps the marks of both walks, and sema's is a step of block scoping.
LEMMA ScopesStep ==
  ASSUME ScopesInv, [Next]_vars
  PROVE  /\ ScopesInv' /\ SemaMove
         /\ LowerMove \/ (LowerLet /\ Hits(locals, Head(This.names), TopOf(lmarks) + 1) # {})
<1>1. CASE SemaStep
  BY <1>1, SemaScopesStep
<1>2. CASE LowerStep
  BY <1>2, LowerScopesStep
<1>3. CASE UNCHANGED vars
  <2>1. UNCHANGED <<semaVars, lowerVars>> /\ phase' \in {"sema", "lower", "done", "rejected"}
    BY <1>3 DEF vars, ScopesInv
  <2> QED BY <2>1, NoScopes
<1> QED BY <1>1, <1>2, <1>3 DEF Next

LEMMA ScopesType == ScopesInv => TypeOK
<1> SUFFICES ASSUME ScopesInv PROVE TypeOK
  OBVIOUS
<1>1. ASSUME NEW ds, NEW ms, NEW n \in Nat, Scopes(ds, ms, n)
      PROVE  /\ \A i \in DOMAIN ds : ds[i] \in Decl /\ ds[i].at \in 1 .. n
             /\ \A i \in DOMAIN ms : ms[i] <= Len(ds) /\ (i > 1 => ms[i - 1] <= ms[i])
  <2>1. /\ ds \in Seq(LocalDecl) /\ DOMAIN ds = 1 .. Len(ds)
        /\ ms \in Seq(Nat) /\ DOMAIN ms = 1 .. Len(ms) /\ Len(ms) \in Nat
    BY <1>1 DEF Scopes, MarksIn
  <2>2. \A i \in DOMAIN ds : ds[i] \in Decl /\ ds[i].at \in 1 .. n
    BY <1>1, <2>1 DEF Scopes, AtMost, LocalDecl
  <2>3. ASSUME NEW i \in 1 .. Len(ms), i > 1 PROVE ms[i - 1] <= ms[i]
    <3>1. i - 1 \in 1 .. Len(ms) /\ i - 1 <= i
      BY <2>1, <2>3
    <3> QED BY <1>1, <3>1 DEF Scopes, MarksIn
  <2>4. \A i \in DOMAIN ms : ms[i] <= Len(ds)
    BY <1>1, <2>1 DEF Scopes, MarksIn
  <2> QED BY <2>1, <2>2, <2>3, <2>4
<1>2. /\ Len(text) \in Nat /\ pos \in 0 .. Len(text) /\ Len(answers) = pos
      /\ Scopes(syms, marks, Len(text)) /\ Scopes(locals, lmarks, pos)
      /\ phase \in {"sema", "lower", "done", "rejected"}
  BY DEF ScopesInv
<1>3. pos \in Nat /\ pos <= Len(text)
  BY <1>2
<1> QED BY <1>1, <1>2, <1>3 DEF TypeOK

LEMMA ScopesFind == ScopesInv => FindsInnermost
<1> SUFFICES ASSUME ScopesInv PROVE FindsInnermost
  OBVIOUS
<1>1. ASSUME NEW n \in Name PROVE SemaFind(n) = SemaEnv!Lookup(n, Global(n))
  <2> DEFINE v == SemaView
  <2>1. /\ syms \in Seq(LocalDecl) /\ MarksIn(syms, marks) /\ Rooted(syms, marks)
        /\ v = View(syms, marks)
    BY SemaNow
  <2> HIDE DEF v
  <2>2. SemaEnv!Lookup(n, Global(n)) =
          IF Having(v, n) = {} THEN Global(n) ELSE v[Innermost(Having(v, n))][n]
    BY DEF SemaEnv!Lookup, SemaEnv!Last, Having, Innermost, v
  <2>3. CASE marks = <<>>
    <3>1. syms = <<>> /\ v = <<>>
      BY <2>1, <2>3, ViewOfNothing DEF Rooted
    <3>2. Hits(syms, n, 1) = {} /\ Having(v, n) = {}
      BY <3>1 DEF Hits, Having
    <3> QED BY <2>2, <3>2 DEF SemaFind
  <2>4. CASE marks # <<>>
    <3>1. marks[1] = 0
      BY <2>1, <2>4 DEF Rooted
    <3> QED BY <2>1, <2>2, <2>4, <3>1, LookUp DEF SemaFind
  <2> QED BY <2>3, <2>4
<1>2. ASSUME NEW n \in Name, lmarks # <<>>, GlobalKind[n] = "global"
      PROVE  LowerFind(n, Global(n)) = LowerEnv!Lookup(n, Global(n))
  <2> DEFINE v == LowerView
  <2>1. locals \in Seq(LocalDecl) /\ MarksIn(locals, lmarks)
    BY DEF ScopesInv, Scopes
  <2>2. v = View(locals, Shifted(lmarks))
    BY <1>2 DEF LowerView, Shifted
  <2> HIDE DEF v
  <2>3. LowerEnv!Lookup(n, Global(n)) =
          IF Having(v, n) = {} THEN Global(n) ELSE v[Innermost(Having(v, n))][n]
    BY DEF LowerEnv!Lookup, LowerEnv!Last, Having, Innermost, v
  <2>4. MarksIn(locals, Shifted(lmarks)) /\ Shifted(lmarks) # <<>> /\ Shifted(lmarks)[1] = 0
    BY <2>1, LowerNow
  <2>5. LowerFind(n, Global(n)) =
          IF Hits(locals, n, 1) = {} THEN Global(n) ELSE locals[Innermost(Hits(locals, n, 1))]
    BY <1>2 DEF LowerFind
  <2> QED BY <2>1, <2>2, <2>3, <2>4, <2>5, LookUp
<1> QED BY <1>1, <1>2 DEF FindsInnermost

-----------------------------------------------------------------------------
(* The theorems of block scoping, odd forms or not unless they say so *)

\* Both vectors hold the declarations of the elements walked so far and their
\* marks never step back (scope.c:22-59, lowering.c:1023-1070).
THEOREM ScopesHold == Spec => []ScopesInv
<1>1. Init => ScopesInv
  BY ScopesStart
<1>2. ScopesInv /\ [Next]_vars => ScopesInv'
  BY ScopesStep
<1> QED BY <1>1, <1>2, PTL DEF Spec

\* The vectors of both walks, their marks and the answers, in any state of any
\* program (Scopes in scope.h, Lower in lowering.c).
THEOREM VectorsAreTyped == Spec => []TypeOK
BY ScopesHold, ScopesType, PTL

\* A search from the end of the vector, which knows nothing of marks, finds what
\* the innermost scope with the name has (scope.c:61-70, lowering.c:210-219).
THEOREM SearchFindsInnermost == Spec => []FindsInnermost
BY ScopesHold, ScopesFind, PTL

\* scope.c's vector and marks implement lexical scoping: every step of sema opens
\* a scope, closes the innermost, adds one new name to it, or leaves them alone
\* (scope.c:22-59, check_block and check_fn in sema.c).
THEOREM SemaIsBlockScoped == Spec => SemaScopes
<1>1. Init => SemaEnv!Init
  BY ViewOfNothing DEF Init, SemaEnv!Init, SemaView
<1>2. ScopesInv /\ [Next]_vars => [SemaEnv!Next]_SemaView
  BY ScopesStep DEF SemaMove
<1> QED BY <1>1, <1>2, ScopesHold, PTL DEF Spec, SemaScopes, SemaEnv!Spec

\* Sema let no scope have a name twice, so lowering need not look.
LEMMA LetIsNew ==
  ASSUME LowerInv, LowerLet
  PROVE  Hits(locals, Head(This.names), TopOf(lmarks) + 1) = {}
<1>1. pos < Len(text) /\ This.op = "let"
  BY DEF LowerLet, AtElem, This
<1>2. PICK a : Means(a, This) /\ locals = a.syms /\ lmarks = a.lm
  BY <1>1, TwoMoments
<1> QED BY <1>1, <1>2 DEF Means

\* Lowering's locals, cut back at marks on the C stack, implement it too.  It never
\* checks that a name is new in its scope: sema did (lowering.c:1023-1070).
THEOREM LowerIsBlockScoped ==
  ASSUME OddForms = {}
  PROVE  Spec => LowerScopes
<1>1. Init => LowerEnv!Init
  BY DEF Init, LowerEnv!Init, LowerView
<1>2. WalkInv /\ [Next]_vars => WalkInv'
  BY WalkKeeps
<1>3. ScopesInv /\ WalkInv /\ [Next]_vars => [LowerEnv!Next]_LowerView
  <2> SUFFICES ASSUME ScopesInv, WalkInv, [Next]_vars PROVE LowerMove
    BY DEF LowerMove
  <2>1. CASE LowerLet
    <3>1. LowerInv
      BY <2>1 DEF WalkInv, LowerLet, AtElem
    <3> QED BY <2>1, <3>1, LetIsNew, ScopesStep
  <2> QED BY <2>1, ScopesStep
<1> QED BY <1>1, <1>2, <1>3, WalkStarts, ScopesHold, PTL DEF Spec, LowerScopes, LowerEnv!Spec
=============================================================================
