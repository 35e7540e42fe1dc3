----------------------------- MODULE BlockProofs -----------------------------
(***************************************************************************)
(* What the IR builder does to a body that is not finished, for any body:  *)
(* which blocks have ended, which of them control reaches from the entry,  *)
(* and from which statements.                                              *)
(*                                                                         *)
(* A set P names the blocks the statements around the cursor go on in; the *)
(* others have ended.  A set V of pairs adds ways that no jump takes yet:  *)
(* the wildcard's arm of a match is entered from the end of its chain of   *)
(* tests, but the branch to it is the last thing lower_match emits.  Every *)
(* composition of the builder's operations that lowering.c uses is then    *)
(* shown to reach what it should reach and nothing else.                   *)
(***************************************************************************)
EXTENDS ControlFlow, FiniteSetTheorems, SequenceTheorems, WellFoundedInduction, TLAPS

-----------------------------------------------------------------------------
(* Graphs *)

\* What can be reached from block 1 along the edges E: what is in every set that
\* has 1 and is closed.
ClosedIn(E, C) == 1 \in C /\ \A b \in C : E[b] \subseteq C
Reached(E)     == {b \in DOMAIN E : \A C \in SUBSET DOMAIN E : ClosedIn(E, C) => b \in C}

LEMMA ReachedClosed ==
  ASSUME NEW n \in Nat \ {0}, NEW E \in [1 .. n -> SUBSET (1 .. n)]
  PROVE  Reached(E) \in SUBSET (1 .. n) /\ ClosedIn(E, Reached(E))
<1>1. DOMAIN E = 1 .. n /\ 1 \in 1 .. n
  OBVIOUS
<1>2. 1 \in Reached(E)
  BY <1>1 DEF Reached, ClosedIn
<1>3. ASSUME NEW b \in Reached(E), NEW c \in E[b] PROVE c \in Reached(E)
  <2>1. b \in 1 .. n /\ c \in 1 .. n
    BY <1>1, <1>3 DEF Reached
  <2>2. ASSUME NEW C \in SUBSET (1 .. n), ClosedIn(E, C) PROVE c \in C
    BY <1>1, <1>3, <2>2 DEF Reached, ClosedIn
  <2> QED BY <1>1, <2>1, <2>2 DEF Reached
<1> QED BY <1>1, <1>2, <1>3 DEF Reached, ClosedIn

LEMMA ReachedLeast ==
  ASSUME NEW n \in Nat \ {0}, NEW E \in [1 .. n -> SUBSET (1 .. n)],
         NEW C \in SUBSET (1 .. n), ClosedIn(E, C)
  PROVE  Reached(E) \subseteq C
BY DEF Reached

\* The edges F are those of E, with new blocks and with c, which may gain some:
\* to blocks reached already, or from which nothing new is.
LEMMA MoreEdges ==
  ASSUME NEW n \in Nat \ {0}, NEW E \in [1 .. n -> SUBSET (1 .. n)],
         NEW m \in Nat \ {0}, NEW F \in [1 .. m -> SUBSET (1 .. m)], n <= m,
         NEW c \in 1 .. n, E[c] \subseteq F[c],
         \A b \in 1 .. n : b # c => F[b] = E[b],
         c \in Reached(E) => \A t \in F[c] : t \in Reached(E) \/ F[t] \subseteq Reached(E)
  PROVE  Reached(F) = IF c \in Reached(E) THEN Reached(E) \cup F[c] ELSE Reached(E)
<1> DEFINE A == IF c \in Reached(E) THEN Reached(E) \cup F[c] ELSE Reached(E)
<1>1. Reached(E) \in SUBSET (1 .. n) /\ ClosedIn(E, Reached(E))
  BY ReachedClosed
<1>2. F[c] \subseteq 1 .. m /\ 1 .. n \subseteq 1 .. m
  OBVIOUS
<1>3. A \in SUBSET (1 .. m)
  BY <1>1, <1>2
<1>4. ClosedIn(F, A)
  <2>1. 1 \in A
    BY <1>1 DEF ClosedIn
  <2>2. ASSUME NEW b \in Reached(E) PROVE F[b] \subseteq A
    <3>1. CASE b = c
      BY <2>2, <3>1
    <3>2. CASE b # c
      BY <1>1, <2>2, <3>2 DEF ClosedIn
    <3> QED BY <3>1, <3>2
  <2>3. ASSUME c \in Reached(E), NEW b \in F[c], b \notin Reached(E) PROVE F[b] \subseteq A
    BY <2>3
  <2> QED BY <2>1, <2>2, <2>3 DEF ClosedIn
<1>5. Reached(F) \subseteq A
  BY <1>3, <1>4, ReachedLeast
<1>6. ASSUME NEW C \in SUBSET (1 .. m), ClosedIn(F, C) PROVE A \subseteq C
  <2> DEFINE D == C \cap (1 .. n)
  <2>1. D \in SUBSET (1 .. n) /\ ClosedIn(E, D)
    <3>1. 1 \in D
      BY <1>6 DEF ClosedIn
    <3>2. ASSUME NEW b \in D PROVE E[b] \subseteq D
      <4>1. E[b] \subseteq F[b] /\ E[b] \subseteq 1 .. n /\ F[b] \subseteq C
        BY <1>6 DEF ClosedIn
      <4> QED BY <4>1
    <3> QED BY <3>1, <3>2 DEF ClosedIn
  <2>2. Reached(E) \subseteq C
    BY <2>1, ReachedLeast
  <2> QED BY <1>6, <2>2 DEF ClosedIn
<1>7. Reached(F) \in SUBSET (1 .. m) /\ ClosedIn(F, Reached(F))
  BY ReachedClosed
<1> QED BY <1>5, <1>6, <1>7

LEMMA SameEdges ==
  ASSUME NEW n \in Nat \ {0}, NEW E \in [1 .. n -> SUBSET (1 .. n)],
         NEW m \in Nat \ {0}, NEW F \in [1 .. m -> SUBSET (1 .. m)], n <= m,
         \A b \in 1 .. n : F[b] = E[b]
  PROVE  Reached(F) = Reached(E)
<1>1. Reached(E) \in SUBSET (1 .. n) /\ ClosedIn(E, Reached(E))
  BY ReachedClosed
<1>2. PICK c \in 1 .. n : c \in Reached(E)
  BY <1>1 DEF ClosedIn
<1>3. E[c] = F[c] /\ E[c] \subseteq Reached(E)
  BY <1>1, <1>2 DEF ClosedIn
<1>4. Reached(F) = IF c \in Reached(E) THEN Reached(E) \cup F[c] ELSE Reached(E)
  BY <1>3, MoreEdges
<1> QED BY <1>2, <1>3, <1>4

-----------------------------------------------------------------------------
(* The builder *)

Ins == [op : {"code"} \cup Terminators, of : Nat, to : Seq(Nat)]
IR  == [blocks : Seq(Seq(Ins)), cur : Nat]

Ended(is)   == is # <<>> /\ is[Len(is)].op \in Terminators
Targets(is) == IF is = <<>> THEN {} ELSE {is[Len(is)].to[k] : k \in DOMAIN is[Len(is)].to}

\* A block of a body that is not finished, of n blocks.
GoodBlock(is, n) ==
  /\ \A j \in 1 .. Len(is) : /\ is[j].op \in Terminators => j = Len(is)
                             /\ is[j].op = "code" => is[j].to = <<>>
                             /\ is[j].op # "unreachable"
  /\ Targets(is) \subseteq 1 .. n

\* All blocks have ended but the one at the cursor, which may have, and those of
\* P, which something still waits to go on in.
Sound(f, P) ==
  /\ f \in IR /\ f.cur \in 1 .. NBlocks(f) /\ f.cur \notin P /\ P \in SUBSET (1 .. NBlocks(f))
  /\ \A b \in 1 .. NBlocks(f) : /\ GoodBlock(f.blocks[b], NBlocks(f))
                                /\ b \in P => ~Ended(f.blocks[b])
                                /\ b \notin P \cup {f.cur} => Ended(f.blocks[b])

LEMMA SoundSize ==
  ASSUME NEW f, NEW P, Sound(f, P)
  PROVE  NBlocks(f) \in Nat \ {0} /\ f.blocks \in Seq(Seq(Ins)) /\ f.cur \in Nat
BY DEF Sound, IR, NBlocks

LEMMA TerminatedIs ==
  ASSUME NEW f
  PROVE  Terminated(f) <=> Ended(f.blocks[f.cur])
BY DEF Terminated, Ended

LEMMA PutIs ==
  ASSUME NEW f \in IR, f.cur \in 1 .. NBlocks(f), NEW in \in Ins
  PROVE  /\ Put(f, in) \in IR /\ Put(f, in).cur = f.cur /\ NBlocks(Put(f, in)) = NBlocks(f)
         /\ Put(f, in).blocks[f.cur] = Append(f.blocks[f.cur], in)
         /\ \A b \in 1 .. NBlocks(f) : b # f.cur => Put(f, in).blocks[b] = f.blocks[b]
<1>1. f.blocks \in Seq(Seq(Ins)) /\ f.cur \in Nat
  BY DEF IR
<1>2. f.blocks[f.cur] \in Seq(Ins)
  BY <1>1 DEF NBlocks
<1>3. Append(f.blocks[f.cur], in) \in Seq(Ins)
  BY <1>2
<1> DEFINE bs == [f.blocks EXCEPT ![f.cur] = Append(@, in)]
<1>4. /\ bs \in Seq(Seq(Ins)) /\ Len(bs) = Len(f.blocks)
      /\ bs[f.cur] = Append(f.blocks[f.cur], in)
      /\ \A b \in 1 .. Len(f.blocks) : b # f.cur => bs[b] = f.blocks[b]
  BY <1>1, <1>3 DEF NBlocks
<1>5. Put(f, in).blocks = bs /\ Put(f, in).cur = f.cur /\ Put(f, in) \in IR
  <2>1. Put(f, in) = [f EXCEPT !.blocks = bs]
    BY DEF Put
  <2> HIDE DEF bs
  <2> QED BY <1>4, <2>1 DEF IR
<1> HIDE DEF bs
<1> QED BY <1>1, <1>4, <1>5 DEF NBlocks

\* Code goes to a block that has not ended.
LEMMA CodeAppended ==
  ASSUME NEW is \in Seq(Ins), NEW n, GoodBlock(is, n), ~Ended(is),
         NEW in \in Ins, in.op = "code", in.to = <<>>
  PROVE  /\ GoodBlock(Append(is, in), n) /\ ~Ended(Append(is, in))
         /\ Targets(Append(is, in)) = {} /\ Targets(is) = {}
<1> DEFINE js == Append(is, in)
<1>1. /\ js \in Seq(Ins) /\ Len(js) = Len(is) + 1 /\ js[Len(is) + 1] = in /\ js # <<>>
      /\ \A j \in 1 .. Len(is) : js[j] = is[j]
      /\ Len(is) \in Nat
  OBVIOUS
<1>2. \A j \in 1 .. Len(is) : is[j].op \notin Terminators
  <2>1. is = <<>> => Len(is) = 0
    OBVIOUS
  <2> QED BY <1>1, <2>1 DEF GoodBlock, Ended
<1>3. "code" \notin Terminators /\ "unreachable" \in Terminators
  BY DEF Terminators
<1> HIDE DEF js
<1>4. \A j \in 1 .. Len(js) : j \in 1 .. Len(is) \/ j = Len(js)
  BY <1>1
<1>5. Targets(js) = {}
  BY <1>1 DEF Targets
<1>6. ~Ended(js)
  BY <1>1, <1>3 DEF Ended
<1>7. Targets(is) = {}
  <2>1. CASE is # <<>>
    <3>1. Len(is) \in 1 .. Len(is)
      BY <1>1, <2>1
    <3>2. is[Len(is)].op = "code"
      <4>1. is[Len(is)] \in Ins
        BY <3>1
      <4> QED BY <1>2, <3>1, <4>1 DEF Ins
    <3> QED BY <3>1, <3>2 DEF GoodBlock, Targets
  <2> QED BY <2>1 DEF Targets
<1>8. GoodBlock(js, n)
  BY <1>1, <1>2, <1>3, <1>4, <1>5 DEF GoodBlock
<1> QED BY <1>5, <1>6, <1>7, <1>8 DEF js

\* So does its terminator.
LEMMA BlockEnded ==
  ASSUME NEW is \in Seq(Ins), NEW n, GoodBlock(is, n), ~Ended(is),
         NEW in \in Ins, in.op \in Terminators \ {"unreachable"},
         \A k \in DOMAIN in.to : in.to[k] \in 1 .. n
  PROVE  /\ GoodBlock(Append(is, in), n) /\ Ended(Append(is, in))
         /\ Targets(Append(is, in)) = {in.to[k] : k \in DOMAIN in.to}
<1> DEFINE js == Append(is, in)
<1>1. /\ js \in Seq(Ins) /\ Len(js) = Len(is) + 1 /\ js[Len(is) + 1] = in /\ js # <<>>
      /\ \A j \in 1 .. Len(is) : js[j] = is[j]
      /\ Len(is) \in Nat
  OBVIOUS
<1>2. \A j \in 1 .. Len(is) : is[j].op \notin Terminators
  <2>1. is = <<>> => Len(is) = 0
    OBVIOUS
  <2> QED BY <1>1, <2>1 DEF GoodBlock, Ended
<1>3. in.op # "code"
  BY DEF Terminators
<1> HIDE DEF js
<1>4. \A j \in 1 .. Len(js) : j \in 1 .. Len(is) \/ j = Len(js)
  BY <1>1
<1>5. Targets(js) = {in.to[k] : k \in DOMAIN in.to}
  BY <1>1 DEF Targets
<1>6. Ended(js)
  BY <1>1 DEF Ended
<1>7. GoodBlock(js, n)
  BY <1>1, <1>2, <1>3, <1>4, <1>5 DEF GoodBlock
<1> QED BY <1>5, <1>6, <1>7 DEF js

\* Where control goes from each block; V adds ways that are not built yet.
OutOf(V, b) == {v[2] : v \in {u \in V : u[1] = b}}
Succ(f, V)  == [b \in 1 .. NBlocks(f) |-> Targets(f.blocks[b]) \cup OutOf(V, b)]
Rch(f, V)   == Reached(Succ(f, V))
Ways(n)     == SUBSET ((1 .. n) \X (1 .. n))

LEMMA WaysLead ==
  ASSUME NEW n, NEW V \in Ways(n), NEW b
  PROVE  OutOf(V, b) \subseteq 1 .. n /\ (b \notin 1 .. n => OutOf(V, b) = {})
<1>1. \A v \in V : v[1] \in 1 .. n /\ v[2] \in 1 .. n
  BY DEF Ways
<1> QED BY <1>1 DEF OutOf

LEMMA SuccIs ==
  ASSUME NEW f, NEW P, Sound(f, P), NEW V \in Ways(NBlocks(f))
  PROVE  Succ(f, V) \in [1 .. NBlocks(f) -> SUBSET (1 .. NBlocks(f))]
<1>1. ASSUME NEW b \in 1 .. NBlocks(f)
      PROVE  Targets(f.blocks[b]) \cup OutOf(V, b) \subseteq 1 .. NBlocks(f)
  BY WaysLead DEF Sound, GoodBlock
<1> QED BY <1>1 DEF Succ

LEMMA RchIs ==
  ASSUME NEW f, NEW P, Sound(f, P), NEW V \in Ways(NBlocks(f))
  PROVE  /\ Rch(f, V) \in SUBSET (1 .. NBlocks(f)) /\ 1 \in Rch(f, V)
         /\ \A b \in Rch(f, V) : Targets(f.blocks[b]) \subseteq Rch(f, V)
         /\ \A b \in Rch(f, V) : OutOf(V, b) \subseteq Rch(f, V)
<1> DEFINE E == Succ(f, V)
<1>1. E \in [1 .. NBlocks(f) -> SUBSET (1 .. NBlocks(f))]
  BY SuccIs
<1>2. NBlocks(f) \in Nat \ {0}
  BY SoundSize
<1>3. Reached(E) \in SUBSET (1 .. NBlocks(f)) /\ ClosedIn(E, Reached(E))
  <2> HIDE DEF E
  <2> QED BY <1>1, <1>2, ReachedClosed
<1>4. \A b \in 1 .. NBlocks(f) : E[b] = Targets(f.blocks[b]) \cup OutOf(V, b)
  BY DEF Succ
<1> HIDE DEF E
<1>5. Rch(f, V) = Reached(E)
  BY DEF Rch, E
<1> QED BY <1>3, <1>4, <1>5 DEF ClosedIn

\* The code of a statement.
LEMMA CodeStep ==
  ASSUME NEW f, NEW P, Sound(f, P), ~Terminated(f), NEW s \in Nat
  PROVE  /\ Sound(Put(f, Instr(s)), P) /\ ~Terminated(Put(f, Instr(s)))
         /\ Put(f, Instr(s)).cur = f.cur /\ NBlocks(Put(f, Instr(s))) = NBlocks(f)
         /\ \A V : Rch(Put(f, Instr(s)), V) = Rch(f, V)
<1> DEFINE in == Instr(s)
           g == Put(f, in)
<1>1. in \in Ins /\ in.op = "code" /\ in.to = <<>>
  BY DEF Instr, Ins
<1> HIDE DEF in
<1>2. f \in IR /\ f.cur \in 1 .. NBlocks(f) /\ f.blocks[f.cur] \in Seq(Ins)
  BY DEF Sound, IR, NBlocks
<1>3. /\ g \in IR /\ g.cur = f.cur /\ NBlocks(g) = NBlocks(f)
      /\ g.blocks[f.cur] = Append(f.blocks[f.cur], in)
      /\ \A b \in 1 .. NBlocks(f) : b # f.cur => g.blocks[b] = f.blocks[b]
  BY <1>1, <1>2, PutIs
<1> HIDE DEF g
<1>4. GoodBlock(f.blocks[f.cur], NBlocks(f)) /\ ~Ended(f.blocks[f.cur])
  BY TerminatedIs DEF Sound
<1>5. /\ GoodBlock(g.blocks[f.cur], NBlocks(f)) /\ ~Ended(g.blocks[f.cur])
      /\ Targets(g.blocks[f.cur]) = {} /\ Targets(f.blocks[f.cur]) = {}
  BY <1>1, <1>2, <1>3, <1>4, CodeAppended
<1>6. Sound(g, P)
  BY <1>3, <1>5 DEF Sound
<1>7. ~Terminated(g)
  BY <1>3, <1>5, TerminatedIs
<1>8. ASSUME NEW V PROVE Rch(g, V) = Rch(f, V)
  <2>1. \A b \in 1 .. NBlocks(f) : Targets(g.blocks[b]) = Targets(f.blocks[b])
    BY <1>3, <1>5
  <2>2. Succ(g, V) = Succ(f, V)
    BY <1>3, <2>1 DEF Succ
  <2> QED BY <2>2 DEF Rch
<1> QED BY <1>3, <1>6, <1>7, <1>8 DEF g, in

\* A terminator; what it leads to is reached if the cursor is, provided nothing
\* leads on from there.
LEMMA EndStep ==
  ASSUME NEW f, NEW P, Sound(f, P), ~Terminated(f),
         NEW in \in Ins, in.op \in Terminators \ {"unreachable"},
         \A k \in DOMAIN in.to : in.to[k] \in 1 .. NBlocks(f)
  PROVE  /\ Sound(Put(f, in), P) /\ Terminated(Put(f, in))
         /\ Put(f, in).cur = f.cur /\ NBlocks(Put(f, in)) = NBlocks(f)
         /\ \A V \in Ways(NBlocks(f)) :
              (f.cur \in Rch(f, V) =>
                 \A k \in DOMAIN in.to :
                   in.to[k] \in Rch(f, V) \/ (in.to[k] \in P /\ OutOf(V, in.to[k]) = {}))
              => Rch(Put(f, in), V) =
                   IF f.cur \in Rch(f, V) THEN Rch(f, V) \cup {in.to[k] : k \in DOMAIN in.to}
                   ELSE Rch(f, V)
<1> DEFINE g == Put(f, in)
           T == {in.to[k] : k \in DOMAIN in.to}
<1>1. NBlocks(f) \in Nat \ {0}
  BY SoundSize
<1>2. f \in IR /\ f.cur \in 1 .. NBlocks(f) /\ f.blocks[f.cur] \in Seq(Ins)
  BY DEF Sound, IR, NBlocks
<1>3. /\ g \in IR /\ g.cur = f.cur /\ NBlocks(g) = NBlocks(f)
      /\ g.blocks[f.cur] = Append(f.blocks[f.cur], in)
      /\ \A b \in 1 .. NBlocks(f) : b # f.cur => g.blocks[b] = f.blocks[b]
  BY <1>2, PutIs
<1>4. T \subseteq 1 .. NBlocks(f)
  OBVIOUS
<1> HIDE DEF g
<1>5. GoodBlock(f.blocks[f.cur], NBlocks(f)) /\ ~Ended(f.blocks[f.cur])
  BY TerminatedIs DEF Sound
<1>6. /\ GoodBlock(g.blocks[f.cur], NBlocks(f)) /\ Ended(g.blocks[f.cur])
      /\ Targets(g.blocks[f.cur]) = T
  BY <1>2, <1>3, <1>5, BlockEnded
<1>7. Sound(g, P)
  BY <1>3, <1>6 DEF Sound
<1>8. Terminated(g)
  BY <1>3, <1>6, TerminatedIs
<1>9. ASSUME NEW b \in 1 .. NBlocks(f), ~Ended(f.blocks[b]) PROVE Targets(f.blocks[b]) = {}
  <2>1. GoodBlock(f.blocks[b], NBlocks(f)) /\ f.blocks[b] \in Seq(Ins)
    BY DEF Sound, IR, NBlocks
  <2>2. Instr(0) \in Ins /\ Instr(0).op = "code" /\ Instr(0).to = <<>>
    BY DEF Instr, Ins
  <2> QED BY <1>9, <2>1, <2>2, CodeAppended
<1>10. ASSUME NEW V \in Ways(NBlocks(f)),
              f.cur \in Rch(f, V) =>
                \A t \in T : t \in Rch(f, V) \/ (t \in P /\ OutOf(V, t) = {})
       PROVE  Rch(g, V) = IF f.cur \in Rch(f, V) THEN Rch(f, V) \cup T ELSE Rch(f, V)
  <2> DEFINE E == Succ(f, V)
             F == Succ(g, V)
             n == NBlocks(f)
             c == f.cur
  <2>1. E \in [1 .. n -> SUBSET (1 .. n)] /\ F \in [1 .. n -> SUBSET (1 .. n)]
    BY <1>3, <1>7, SuccIs
  <2>2. \A b \in 1 .. n : b # c => F[b] = E[b]
    BY <1>3 DEF Succ
  <2>3. E[c] = OutOf(V, c) /\ F[c] = T \cup OutOf(V, c)
    BY <1>2, <1>3, <1>5, <1>6, <1>9 DEF Succ
  <2>4. \A t \in P : t # c /\ t \in 1 .. n /\ ~Ended(f.blocks[t])
    BY DEF Sound
  <2>5. \A t \in P : OutOf(V, t) = {} => E[t] = {}
    BY <1>9, <2>4 DEF Succ
  <2>6. c \in Reached(E) => OutOf(V, c) \subseteq Reached(E)
    BY RchIs DEF Rch
  <2>7. c \in Reached(E) => \A t \in F[c] : t \in Reached(E) \/ F[t] \subseteq Reached(E)
    <3>1. SUFFICES ASSUME c \in Reached(E), NEW t \in F[c], t \notin Reached(E)
                   PROVE  F[t] = {}
      OBVIOUS
    <3>2. t \in T
      BY <2>3, <2>6, <3>1
    <3>3. t \in P /\ OutOf(V, t) = {}
      BY <1>10, <3>1, <3>2 DEF Rch
    <3> QED BY <2>2, <2>4, <2>5, <3>3
  <2>8. Rch(f, V) = Reached(E) /\ Rch(g, V) = Reached(F)
    BY DEF Rch
  <2> HIDE DEF E, F, T
  <2>9. Reached(F) = IF c \in Reached(E) THEN Reached(E) \cup F[c] ELSE Reached(E)
    <3>1. E[c] \subseteq F[c] /\ c \in 1 .. n
      BY <1>2, <2>3
    <3> HIDE DEF c, n
    <3>2. n \in Nat \ {0} /\ n <= n
      BY <1>1 DEF n
    <3> QED BY <2>1, <2>2, <2>7, <3>1, <3>2, MoreEdges
  <2> QED BY <2>3, <2>6, <2>8, <2>9
<1> QED
  <2>1. ASSUME NEW V \in Ways(NBlocks(f)),
              f.cur \in Rch(f, V) =>
                \A k \in DOMAIN in.to :
                  in.to[k] \in Rch(f, V) \/ (in.to[k] \in P /\ OutOf(V, in.to[k]) = {})
       PROVE  Rch(g, V) = IF f.cur \in Rch(f, V) THEN Rch(f, V) \cup T ELSE Rch(f, V)
    BY <1>10, <2>1
  <2> QED BY <1>3, <1>7, <1>8, <2>1 DEF g

LEMMA WaysGrow ==
  ASSUME NEW n \in Nat, NEW m \in Nat, n <= m, NEW V \in Ways(n)
  PROVE  V \in Ways(m)
<1>1. \A v \in V : v \in (1 .. n) \X (1 .. n)
  BY DEF Ways
<1>2. (1 .. n) \X (1 .. n) \subseteq (1 .. m) \X (1 .. m)
  OBVIOUS
<1> QED BY <1>1, <1>2 DEF Ways

\* New blocks wait for whoever made them.
LEMMA FreshStep ==
  ASSUME NEW f, NEW P, Sound(f, P), NEW n \in Nat
  PROVE  /\ Sound(Fresh(f, n), P \cup (NBlocks(f) + 1 .. NBlocks(f) + n))
         /\ NBlocks(Fresh(f, n)) = NBlocks(f) + n /\ Fresh(f, n).cur = f.cur
         /\ Terminated(Fresh(f, n)) <=> Terminated(f)
         /\ \A V \in Ways(NBlocks(f)) : Rch(Fresh(f, n), V) = Rch(f, V)
<1> DEFINE g == Fresh(f, n)
           N == NBlocks(f)
           bs == f.blocks \o [k \in 1 .. n |-> <<>>]
<1>1. N \in Nat \ {0} /\ f.blocks \in Seq(Seq(Ins)) /\ N = Len(f.blocks)
  BY SoundSize DEF NBlocks
<1>2. NBlocks(f) = N
  OBVIOUS
<1> HIDE DEF N
<1>4. /\ bs \in Seq(Seq(Ins)) /\ Len(bs) = N + n
      /\ \A b \in 1 .. Len(f.blocks) : bs[b] = f.blocks[b]
      /\ \A b \in Len(f.blocks) + 1 .. Len(f.blocks) + n : bs[b] = <<>>
  <2>1. <<>> \in Seq(Ins)
    OBVIOUS
  <2> DEFINE z == <<>>
             new == [k \in 1 .. n |-> z]
             T == Seq(Ins)
             s == f.blocks
  <2>2. z \in T
    BY <2>1
  <2> HIDE DEF z, T
  <2>3. new \in [1 .. n -> T]
    BY <2>2
  <2>4. \A k \in 1 .. n : new[k] = z
    OBVIOUS
  <2>5. bs = s \o new
    BY DEF z
  <2> HIDE DEF new, bs
  <2>6. new \in Seq(T)
    BY <2>3, SeqDef
  <2>7. Len(new) = n
    BY <2>3, <2>6, LenProperties
  <2>8. s \in Seq(T)
    BY <1>1 DEF T
  <2> HIDE DEF s
  <2>9. /\ bs \in Seq(T) /\ Len(bs) = Len(s) + Len(new)
        /\ \A b \in 1 .. Len(s) + Len(new) : bs[b] = IF b <= Len(s) THEN s[b] ELSE new[b - Len(s)]
    BY <2>5, <2>6, <2>8, ConcatProperties, Zenon
  <2>10. Len(s) \in Nat
    BY <2>8
  <2>11. /\ Len(bs) = Len(s) + n
         /\ \A b \in 1 .. Len(s) : bs[b] = s[b]
         /\ \A b \in Len(s) + 1 .. Len(s) + n : bs[b] = z
    <3> DEFINE k == Len(s)
    <3> HIDE DEF k
    <3>1. \A b \in 1 .. k : b \in 1 .. k + n /\ b <= k
      BY <2>10 DEF k
    <3>2. \A b \in k + 1 .. k + n : b \in 1 .. k + n /\ ~(b <= k) /\ b - k \in 1 .. n
      BY <2>10 DEF k
    <3> QED BY <2>4, <2>7, <2>9, <3>1, <3>2, Zenon DEF k
  <2> QED BY <1>1, <2>9, <2>11, Zenon DEF T, s, z
<1>5. /\ \A b \in 1 .. N : bs[b] = f.blocks[b]
      /\ \A b \in N + 1 .. N + n : bs[b] = <<>>
  BY <1>1, <1>4
<1>6. f \in IR
  BY DEF Sound
<1>7. g \in IR /\ g.blocks = bs /\ g.cur = f.cur
  <2>1. g = [f EXCEPT !.blocks = bs]
    BY DEF Fresh
  <2> HIDE DEF bs
  <2> QED BY <1>4, <1>6, <2>1 DEF IR
<1> HIDE DEF g, bs
<1>8. NBlocks(g) = N + n
  BY <1>4, <1>7 DEF NBlocks
<1>9. \A m : GoodBlock(<<>>, m)
  BY DEF GoodBlock, Targets
<1>10. \A b \in 1 .. N : GoodBlock(f.blocks[b], N) => GoodBlock(f.blocks[b], N + n)
  <2>1. 1 .. N \subseteq 1 .. N + n
    BY <1>1
  <2> QED BY <2>1 DEF GoodBlock
<1>11. Sound(g, P \cup (N + 1 .. N + n))
  <2>1. f.cur \in 1 .. N /\ f.cur \notin P /\ P \in SUBSET (1 .. N)
    BY <1>2 DEF Sound
  <2>2. \A b \in 1 .. N + n : b \in 1 .. N \/ b \in N + 1 .. N + n
    BY <1>1
  <2>3. /\ g.cur \in 1 .. NBlocks(g) /\ g.cur \notin P \cup (N + 1 .. N + n)
        /\ P \cup (N + 1 .. N + n) \in SUBSET (1 .. NBlocks(g))
    <3>1. f.cur \in 1 .. N + n /\ f.cur \notin N + 1 .. N + n
      BY <1>1, <2>1
    <3>2. \A p \in P \cup (N + 1 .. N + n) : p \in 1 .. N + n
      BY <1>1, <2>1
    <3> QED BY <1>7, <1>8, <2>1, <3>1, <3>2
  <2>4. ASSUME NEW b \in 1 .. NBlocks(g)
        PROVE  /\ GoodBlock(g.blocks[b], NBlocks(g))
               /\ b \in P \cup (N + 1 .. N + n) => ~Ended(g.blocks[b])
               /\ b \notin P \cup (N + 1 .. N + n) \cup {g.cur} => Ended(g.blocks[b])
    <3>1. CASE b \in 1 .. N
      <4>1. b \notin N + 1 .. N + n /\ g.blocks[b] = f.blocks[b]
        BY <1>1, <1>5, <1>7, <3>1
      <4> QED BY <1>2, <1>7, <1>8, <1>10, <3>1, <4>1 DEF Sound
    <3>2. CASE b \in N + 1 .. N + n
      <4>1. g.blocks[b] = <<>>
        BY <1>5, <1>7, <3>2
      <4> QED BY <1>8, <1>9, <3>2, <4>1 DEF Ended
    <3> QED BY <1>8, <2>2, <3>1, <3>2
  <2> QED BY <1>7, <2>3, <2>4 DEF Sound
<1>12. Terminated(g) <=> Terminated(f)
  <2>1. f.cur \in 1 .. N
    BY <1>2 DEF Sound
  <2> QED BY <1>5, <1>7, <2>1, TerminatedIs
<1>13. ASSUME NEW V \in Ways(N) PROVE Rch(g, V) = Rch(f, V)
  <2> DEFINE E == Succ(f, V)
             F == Succ(g, V)
  <2>1. V \in Ways(N + n)
    BY <1>1, WaysGrow
  <2>2. E \in [1 .. N -> SUBSET (1 .. N)] /\ F \in [1 .. N + n -> SUBSET (1 .. N + n)]
    BY <1>2, <1>8, <1>11, <2>1, SuccIs
  <2>3. \A b \in 1 .. N : F[b] = E[b]
    <3>1. \A b \in 1 .. N : b \in 1 .. N + n
      BY <1>1
    <3> QED BY <1>2, <1>5, <1>7, <1>8, <3>1 DEF Succ
  <2>4. Rch(f, V) = Reached(E) /\ Rch(g, V) = Reached(F)
    BY DEF Rch
  <2> HIDE DEF E, F
  <2> DEFINE m == N + n
  <2>6. m \in Nat \ {0} /\ N <= m /\ N \in Nat \ {0} /\ F \in [1 .. m -> SUBSET (1 .. m)]
    BY <1>1, <2>2
  <2>7. Reached(F) = Reached(E)
    <3> HIDE DEF m
    <3> QED BY <2>2, <2>3, <2>6, SameEdges
  <2> QED BY <2>4, <2>7
<1> QED BY <1>2, <1>7, <1>8, <1>11, <1>12, <1>13 DEF g

\* The cursor goes to a block that waited for it.
LEMMA AtStep ==
  ASSUME NEW f, NEW P, Sound(f, P), Terminated(f), NEW b \in P
  PROVE  /\ Sound(At(f, b), P \ {b}) /\ ~Terminated(At(f, b))
         /\ At(f, b).cur = b /\ NBlocks(At(f, b)) = NBlocks(f)
         /\ \A V : Rch(At(f, b), V) = Rch(f, V)
<1> DEFINE g == At(f, b)
<1>1. f \in IR /\ b \in 1 .. NBlocks(f) /\ b \in Nat
  BY SoundSize DEF Sound
<1>2. g \in IR /\ g.blocks = f.blocks /\ g.cur = b
  BY <1>1 DEF At, IR
<1> HIDE DEF g
<1>3. NBlocks(g) = NBlocks(f)
  BY <1>2 DEF NBlocks
<1>4. Ended(f.blocks[f.cur])
  BY TerminatedIs
<1>5. Sound(g, P \ {b})
  BY <1>1, <1>2, <1>3, <1>4 DEF Sound
<1>6. ~Terminated(g)
  BY <1>1, <1>2, TerminatedIs DEF Sound
<1>7. ASSUME NEW V PROVE Rch(g, V) = Rch(f, V)
  BY <1>2, <1>3 DEF Rch, Succ
<1> QED BY <1>2, <1>3, <1>5, <1>6, <1>7 DEF g

-----------------------------------------------------------------------------
(* The builder's compositions *)

\* The cursor leaves a block that has not ended, to come back to it.
LEMMA LeaveStep ==
  ASSUME NEW f, NEW P, Sound(f, P), ~Terminated(f), NEW b \in P
  PROVE  /\ Sound(At(f, b), (P \ {b}) \cup {f.cur}) /\ ~Terminated(At(f, b))
         /\ At(f, b).cur = b /\ NBlocks(At(f, b)) = NBlocks(f)
         /\ \A V : Rch(At(f, b), V) = Rch(f, V)
<1> DEFINE g == At(f, b)
<1>1. f \in IR /\ b \in 1 .. NBlocks(f) /\ b \in Nat /\ f.cur \in 1 .. NBlocks(f) /\ b # f.cur
  BY SoundSize DEF Sound
<1>2. g \in IR /\ g.blocks = f.blocks /\ g.cur = b
  BY <1>1 DEF At, IR
<1> HIDE DEF g
<1>3. NBlocks(g) = NBlocks(f)
  BY <1>2 DEF NBlocks
<1>4. ~Ended(f.blocks[f.cur])
  BY TerminatedIs
<1>5. Sound(g, (P \ {b}) \cup {f.cur})
  BY <1>1, <1>2, <1>3, <1>4 DEF Sound
<1>6. ~Terminated(g)
  BY <1>1, <1>2, TerminatedIs DEF Sound
<1>7. ASSUME NEW V PROVE Rch(g, V) = Rch(f, V)
  BY <1>2, <1>3 DEF Rch, Succ
<1> QED BY <1>2, <1>3, <1>5, <1>6, <1>7 DEF g

\* A jump to blocks none of which leads on, or all reached already.
Quiet(f, P, V, t) == t \in Rch(f, V) \/ (t \in P /\ OutOf(V, t) = {})

LEMMA BrStep ==
  ASSUME NEW f, NEW P, Sound(f, P), ~Terminated(f), NEW b \in 1 .. NBlocks(f)
  PROVE  /\ Sound(Br(f, b), P) /\ Terminated(Br(f, b))
         /\ Br(f, b).cur = f.cur /\ NBlocks(Br(f, b)) = NBlocks(f)
         /\ \A V \in Ways(NBlocks(f)) :
              (f.cur \in Rch(f, V) => Quiet(f, P, V, b))
              => Rch(Br(f, b), V) = IF f.cur \in Rch(f, V) THEN Rch(f, V) \cup {b} ELSE Rch(f, V)
<1> DEFINE in == Jump("br", <<b>>)
<1>1. in.to = <<b>> /\ in.op \in Terminators \ {"unreachable"}
  BY DEF Jump, Terminators
<1>2. NBlocks(f) \in Nat
  BY SoundSize
<1>3. in \in Ins
  BY <1>2 DEF Jump, Terminators, Ins
<1>4. DOMAIN in.to = {1} /\ in.to[1] = b
  BY <1>1
<1> HIDE DEF in
<1>5. {in.to[k] : k \in DOMAIN in.to} = {b}
  BY <1>4
<1>6. \A k \in DOMAIN in.to : in.to[k] \in 1 .. NBlocks(f)
  BY <1>4
<1>7. /\ Sound(Put(f, in), P) /\ Terminated(Put(f, in))
      /\ Put(f, in).cur = f.cur /\ NBlocks(Put(f, in)) = NBlocks(f)
      /\ \A V \in Ways(NBlocks(f)) :
           (f.cur \in Rch(f, V) =>
              \A k \in DOMAIN in.to :
                in.to[k] \in Rch(f, V) \/ (in.to[k] \in P /\ OutOf(V, in.to[k]) = {}))
           => Rch(Put(f, in), V) =
                IF f.cur \in Rch(f, V) THEN Rch(f, V) \cup {in.to[k] : k \in DOMAIN in.to}
                ELSE Rch(f, V)
  BY <1>1, <1>3, <1>6, EndStep, Zenon
<1>8. ASSUME NEW V \in Ways(NBlocks(f)), f.cur \in Rch(f, V) => Quiet(f, P, V, b)
      PROVE  Rch(Put(f, in), V) = IF f.cur \in Rch(f, V) THEN Rch(f, V) \cup {b} ELSE Rch(f, V)
  BY <1>4, <1>5, <1>7, <1>8 DEF Quiet
<1> QED BY <1>7, <1>8 DEF Br, in

LEMMA CondBrStep ==
  ASSUME NEW f, NEW P, Sound(f, P), ~Terminated(f),
         NEW b \in 1 .. NBlocks(f), NEW e \in 1 .. NBlocks(f)
  PROVE  /\ Sound(CondBr(f, b, e), P) /\ Terminated(CondBr(f, b, e))
         /\ CondBr(f, b, e).cur = f.cur /\ NBlocks(CondBr(f, b, e)) = NBlocks(f)
         /\ \A V \in Ways(NBlocks(f)) :
              (f.cur \in Rch(f, V) => Quiet(f, P, V, b) /\ Quiet(f, P, V, e))
              => Rch(CondBr(f, b, e), V) =
                   IF f.cur \in Rch(f, V) THEN Rch(f, V) \cup {b, e} ELSE Rch(f, V)
<1> DEFINE in == Jump("condbr", <<b, e>>)
<1>1. in.to = <<b, e>> /\ in.op \in Terminators \ {"unreachable"}
  BY DEF Jump, Terminators
<1>2. NBlocks(f) \in Nat
  BY SoundSize
<1>3. in \in Ins
  <2>1. <<b, e>> \in Seq(Nat)
    BY <1>2
  <2> QED BY <2>1 DEF Jump, Terminators, Ins
<1>4. DOMAIN in.to = {1, 2} /\ in.to[1] = b /\ in.to[2] = e
  BY <1>1
<1> HIDE DEF in
<1>5. {in.to[k] : k \in DOMAIN in.to} = {b, e}
  BY <1>4
<1>6. \A k \in DOMAIN in.to : in.to[k] \in 1 .. NBlocks(f)
  BY <1>4
<1>7. /\ Sound(Put(f, in), P) /\ Terminated(Put(f, in))
      /\ Put(f, in).cur = f.cur /\ NBlocks(Put(f, in)) = NBlocks(f)
      /\ \A V \in Ways(NBlocks(f)) :
           (f.cur \in Rch(f, V) =>
              \A k \in DOMAIN in.to :
                in.to[k] \in Rch(f, V) \/ (in.to[k] \in P /\ OutOf(V, in.to[k]) = {}))
           => Rch(Put(f, in), V) =
                IF f.cur \in Rch(f, V) THEN Rch(f, V) \cup {in.to[k] : k \in DOMAIN in.to}
                ELSE Rch(f, V)
  BY <1>1, <1>3, <1>6, EndStep, Zenon
<1>8. ASSUME NEW V \in Ways(NBlocks(f)),
             f.cur \in Rch(f, V) => Quiet(f, P, V, b) /\ Quiet(f, P, V, e)
      PROVE  Rch(Put(f, in), V) = IF f.cur \in Rch(f, V) THEN Rch(f, V) \cup {b, e} ELSE Rch(f, V)
  BY <1>4, <1>5, <1>7, <1>8 DEF Quiet
<1> QED BY <1>7, <1>8 DEF CondBr, in

LEMMA RetStep ==
  ASSUME NEW f, NEW P, Sound(f, P), ~Terminated(f)
  PROVE  LET g == Put(f, Jump("ret", <<>>))
         IN /\ Sound(g, P) /\ Terminated(g) /\ g.cur = f.cur /\ NBlocks(g) = NBlocks(f)
            /\ \A V \in Ways(NBlocks(f)) : Rch(g, V) = Rch(f, V)
<1> DEFINE in == Jump("ret", <<>>)
<1>1. in.to = <<>> /\ in.op \in Terminators \ {"unreachable"} /\ in \in Ins
  BY DEF Jump, Terminators, Ins
<1>2. DOMAIN in.to = {}
  BY <1>1
<1> HIDE DEF in
<1>3. {in.to[k] : k \in DOMAIN in.to} = {}
  BY <1>2
<1>4. \A k \in DOMAIN in.to : in.to[k] \in 1 .. NBlocks(f)
  BY <1>2
<1>5. /\ Sound(Put(f, in), P) /\ Terminated(Put(f, in))
      /\ Put(f, in).cur = f.cur /\ NBlocks(Put(f, in)) = NBlocks(f)
      /\ \A V \in Ways(NBlocks(f)) :
           (f.cur \in Rch(f, V) =>
              \A k \in DOMAIN in.to :
                in.to[k] \in Rch(f, V) \/ (in.to[k] \in P /\ OutOf(V, in.to[k]) = {}))
           => Rch(Put(f, in), V) =
                IF f.cur \in Rch(f, V) THEN Rch(f, V) \cup {in.to[k] : k \in DOMAIN in.to}
                ELSE Rch(f, V)
  BY <1>1, <1>4, EndStep, Zenon
<1>6. ASSUME NEW V \in Ways(NBlocks(f)) PROVE Rch(Put(f, in), V) = Rch(f, V)
  BY <1>2, <1>3, <1>5
<1> QED BY <1>5, <1>6 DEF in

\* g goes on where f was: open, with the blocks of f reached as before, and its
\* cursor reached if f's was and had not left.
Onward(f, P, g) ==
  /\ Sound(g, P) /\ ~Terminated(g) /\ NBlocks(f) <= NBlocks(g)
  /\ \A V \in Ways(NBlocks(f)) :
       /\ \A b \in 1 .. NBlocks(f) : b \in Rch(g, V) <=> b \in Rch(f, V)
       /\ g.cur \in Rch(g, V) <=> f.cur \in Rch(f, V) /\ ~Terminated(f)

LEMMA OnwardStays ==
  ASSUME NEW f, NEW P, Sound(f, P), ~Terminated(f)
  PROVE  Onward(f, P, f)
BY SoundSize DEF Onward

LEMMA OnwardOnward ==
  ASSUME NEW f, NEW P, Sound(f, P), NEW g, Onward(f, P, g), NEW h, Onward(g, P, h)
  PROVE  Onward(f, P, h)
<1> DEFINE N == NBlocks(f)
           M == NBlocks(g)
<1>1. Sound(g, P) /\ ~Terminated(g) /\ N <= M
  BY DEF Onward
<1>2. N \in Nat /\ M \in Nat /\ NBlocks(h) \in Nat
  BY <1>1, SoundSize DEF Onward
<1>3. Sound(h, P) /\ ~Terminated(h) /\ M <= NBlocks(h)
  BY DEF Onward
<1>4. ASSUME NEW V \in Ways(N)
      PROVE  /\ \A b \in 1 .. N : b \in Rch(h, V) <=> b \in Rch(f, V)
             /\ h.cur \in Rch(h, V) <=> f.cur \in Rch(f, V) /\ ~Terminated(f)
  <2>1. V \in Ways(M)
    <3> HIDE DEF N, M
    <3> QED BY <1>1, <1>2, WaysGrow
  <2>2. \A b \in 1 .. N : b \in 1 .. M
    BY <1>1, <1>2
  <2>3. /\ \A b \in 1 .. M : b \in Rch(h, V) <=> b \in Rch(g, V)
        /\ h.cur \in Rch(h, V) <=> g.cur \in Rch(g, V) /\ ~Terminated(g)
    BY <2>1 DEF Onward
  <2>4. /\ \A b \in 1 .. N : b \in Rch(g, V) <=> b \in Rch(f, V)
        /\ g.cur \in Rch(g, V) <=> f.cur \in Rch(f, V) /\ ~Terminated(f)
    BY DEF Onward
  <2> QED BY <1>1, <2>2, <2>3, <2>4
<1>5. NBlocks(f) <= NBlocks(h)
  BY <1>1, <1>2, <1>3
<1> QED BY <1>3, <1>4, <1>5 DEF Onward

LEMMA EnsureOpenIs ==
  ASSUME NEW f, NEW P, Sound(f, P)
  PROVE  Onward(f, P, EnsureOpen(f))
<1>1. CASE ~Terminated(f)
  BY <1>1, OnwardStays DEF EnsureOpen
<1>2. CASE Terminated(f)
  <2> DEFINE N == NBlocks(f)
             g == Fresh(f, 1)
             h == At(g, N + 1)
  <2>1. N \in Nat \ {0} /\ P \in SUBSET (1 .. N)
    BY SoundSize DEF Sound
  <2>2. /\ Sound(g, P \cup (N + 1 .. N + 1)) /\ NBlocks(g) = N + 1 /\ Terminated(g)
        /\ \A V \in Ways(N) : Rch(g, V) = Rch(f, V)
    BY <1>2, FreshStep
  <2>3. N + 1 \in P \cup (N + 1 .. N + 1) /\ (P \cup (N + 1 .. N + 1)) \ {N + 1} = P
    BY <2>1
  <2> HIDE DEF g
  <2>4. /\ Sound(h, P) /\ ~Terminated(h) /\ h.cur = N + 1 /\ NBlocks(h) = N + 1
        /\ \A V : Rch(h, V) = Rch(g, V)
    <3> DEFINE Q == P \cup (N + 1 .. N + 1)
               b == N + 1
    <3>1. Sound(g, Q) /\ b \in Q /\ Q \ {b} = P
      BY <2>2, <2>3
    <3> HIDE DEF Q, b
    <3>2. /\ Sound(At(g, b), Q \ {b}) /\ ~Terminated(At(g, b)) /\ At(g, b).cur = b
          /\ NBlocks(At(g, b)) = NBlocks(g) /\ \A V : Rch(At(g, b), V) = Rch(g, V)
      BY <2>2, <3>1, AtStep
    <3> QED BY <2>2, <3>1, <3>2 DEF b
  <2>5. ASSUME NEW V \in Ways(N)
        PROVE  Rch(h, V) = Rch(f, V) /\ h.cur \notin Rch(h, V)
    <3>1. Rch(f, V) \in SUBSET (1 .. N) /\ N + 1 \notin 1 .. N
      BY <2>1, RchIs
    <3> QED BY <2>2, <2>4, <3>1
  <2>6. Onward(f, P, h)
    <3>1. N <= N + 1
      BY <2>1
    <3> QED BY <1>2, <2>4, <2>5, <3>1 DEF Onward
  <2> QED BY <1>2, <2>6 DEF EnsureOpen, g
<1> QED BY <1>1, <1>2

LEMMA ShortCircuitIs ==
  ASSUME NEW f, NEW P, Sound(f, P), ~Terminated(f), NEW shape
  PROVE  Onward(f, P, ShortCircuit(f, shape))
<1> DEFINE N == NBlocks(f)
           rhs == N + 1
           end == N + 2
           P2 == P \cup (N + 1 .. N + 2)
           a == Fresh(f, 2)
           b == IF shape = "and" THEN CondBr(a, rhs, end) ELSE CondBr(a, end, rhs)
           c == At(b, rhs)
           d == Br(c, end)
           e == At(d, end)
<1>1. N \in Nat \ {0} /\ P \in SUBSET (1 .. N)
  BY SoundSize DEF Sound
<1>2. /\ Sound(a, P2) /\ NBlocks(a) = end /\ a.cur = f.cur /\ ~Terminated(a)
      /\ \A V \in Ways(N) : Rch(a, V) = Rch(f, V)
  BY FreshStep
<1>3. /\ rhs \in 1 .. end /\ end \in 1 .. end /\ rhs \in P2 /\ end \in P2 /\ rhs # end
      /\ (P2 \ {rhs}) \ {end} = P /\ end \in P2 \ {rhs} /\ end \in Nat /\ N <= end
      /\ rhs \notin 1 .. N /\ end \notin 1 .. N
  BY <1>1
<1> HIDE DEF N, rhs, end, P2, a
<1>4. ASSUME NEW V \in Ways(N)
      PROVE  /\ V \in Ways(end) /\ Rch(f, V) \in SUBSET (1 .. N)
             /\ OutOf(V, rhs) = {} /\ OutOf(V, end) = {}
  <2>1. V \in Ways(end)
    BY <1>1, <1>3, WaysGrow
  <2>2. Rch(f, V) \in SUBSET (1 .. N)
    BY RchIs DEF N
  <2>3. \A x : x \notin 1 .. N => OutOf(V, x) = {}
    BY WaysLead
  <2> QED BY <1>3, <2>1, <2>2, <2>3
<1>5. /\ Sound(b, P2) /\ Terminated(b) /\ b.cur = f.cur /\ NBlocks(b) = end
      /\ \A V \in Ways(N) :
           Rch(b, V) = IF f.cur \in Rch(f, V) THEN Rch(f, V) \cup {rhs, end} ELSE Rch(f, V)
  <2>1. ASSUME NEW V \in Ways(N)
        PROVE  V \in Ways(NBlocks(a)) /\ Quiet(a, P2, V, rhs) /\ Quiet(a, P2, V, end)
    BY <1>2, <1>3, <1>4 DEF Quiet
  <2>2. rhs \in 1 .. NBlocks(a) /\ end \in 1 .. NBlocks(a)
    BY <1>2, <1>3
  <2>3. CASE shape = "and"
    <3>1. b = CondBr(a, rhs, end)
      BY <2>3
    <3> HIDE DEF b
    <3> QED BY <1>2, <2>1, <2>2, <3>1, CondBrStep
  <2>4. CASE shape # "and"
    <3>1. b = CondBr(a, end, rhs)
      BY <2>4
    <3> HIDE DEF b
    <3>2. {end, rhs} = {rhs, end}
      OBVIOUS
    <3> QED BY <1>2, <2>1, <2>2, <3>1, <3>2, CondBrStep
  <2> QED BY <2>3, <2>4
<1> HIDE DEF b
<1>6. /\ Sound(c, P2 \ {rhs}) /\ ~Terminated(c) /\ c.cur = rhs /\ NBlocks(c) = end
      /\ \A V : Rch(c, V) = Rch(b, V)
  BY <1>3, <1>5, AtStep
<1> HIDE DEF c
<1>7. /\ Sound(d, P2 \ {rhs}) /\ Terminated(d) /\ d.cur = rhs /\ NBlocks(d) = end
      /\ \A V \in Ways(N) : Rch(d, V) = IF rhs \in Rch(b, V) THEN Rch(b, V) \cup {end} ELSE Rch(b, V)
  <2>1. ASSUME NEW V \in Ways(N)
        PROVE  V \in Ways(NBlocks(c)) /\ Quiet(c, P2 \ {rhs}, V, end)
    BY <1>3, <1>4, <1>6 DEF Quiet
  <2>2. end \in 1 .. NBlocks(c)
    BY <1>3, <1>6
  <2> QED BY <1>6, <2>1, <2>2, BrStep
<1> HIDE DEF d
<1>8. /\ Sound(e, P) /\ ~Terminated(e) /\ e.cur = end /\ NBlocks(e) = end
      /\ \A V : Rch(e, V) = Rch(d, V)
  <2>1. /\ Sound(At(d, end), (P2 \ {rhs}) \ {end}) /\ ~Terminated(At(d, end))
        /\ At(d, end).cur = end /\ NBlocks(At(d, end)) = NBlocks(d)
        /\ \A V : Rch(At(d, end), V) = Rch(d, V)
    BY <1>3, <1>7, AtStep
  <2> QED BY <1>3, <1>7, <2>1
<1> HIDE DEF e
<1>9. ASSUME NEW V \in Ways(N)
      PROVE  /\ \A x \in 1 .. N : x \in Rch(e, V) <=> x \in Rch(f, V)
             /\ e.cur \in Rch(e, V) <=> f.cur \in Rch(f, V)
  BY <1>3, <1>4, <1>5, <1>7, <1>8
<1>10. Onward(f, P, e)
  BY <1>3, <1>8, <1>9 DEF Onward, N
<1> QED BY <1>10 DEF ShortCircuit, e, d, c, b, a, rhs, end, N

LEMMA EvalIs ==
  ASSUME NEW f, NEW P, Sound(f, P), ~Terminated(f), NEW s \in Nat, NEW shape
  PROVE  Onward(f, P, Eval(f, s, shape))
<1> DEFINE g == Put(f, Instr(s))
<1>1. /\ Sound(g, P) /\ ~Terminated(g) /\ g.cur = f.cur /\ NBlocks(g) = NBlocks(f)
      /\ \A V : Rch(g, V) = Rch(f, V)
  BY CodeStep
<1> HIDE DEF g
<1>2. Onward(f, P, g)
  BY <1>1, SoundSize DEF Onward
<1>3. Onward(g, P, ShortCircuit(g, shape))
  BY <1>1, ShortCircuitIs
<1>4. Onward(f, P, ShortCircuit(g, shape))
  BY <1>2, <1>3, OnwardOnward
<1> QED BY <1>2, <1>4 DEF Eval, g

-----------------------------------------------------------------------------
(* The tests of a match arm *)

LEMMA LeastOf ==
  ASSUME NEW T \in SUBSET Nat, T # {}
  PROVE  \E k \in T : \A j \in T : k <= j
<1>1. PICK x \in T : \A y \in T : ~ (<<y, x>> \in OpToRel(<, Nat))
  BY NatLessThanWellFounded, WFMin, Zenon
<1>2. ASSUME NEW y \in T, y < x PROVE <<y, x>> \in OpToRel(<, Nat)
  BY <1>2 DEF OpToRel
<1>3. \A y \in T : ~(y < x)
  BY <1>1, <1>2
<1>4. \A y \in T : y \in Nat
  OBVIOUS
<1> QED BY <1>3, <1>4

\* Induction, said of a set.
LEMMA AllOfNat ==
  ASSUME NEW T \in SUBSET Nat, 0 \in T, \A n \in T : n + 1 \in T
  PROVE  T = Nat
<1> SUFFICES ASSUME Nat \ T # {} PROVE FALSE
  OBVIOUS
<1>1. PICK k \in Nat \ T : \A j \in Nat \ T : k <= j
  <2> DEFINE U == Nat \ T
  <2>1. U \in SUBSET Nat /\ U # {}
    OBVIOUS
  <2> HIDE DEF U
  <2>2. \E k \in U : \A j \in U : k <= j
    BY <2>1, LeastOf
  <2> QED BY <2>2 DEF U
<1>2. k # 0 /\ k - 1 \in Nat /\ ~(k <= k - 1) /\ (k - 1) + 1 = k
  BY <1>1
<1>3. k - 1 \in T
  BY <1>1, <1>2
<1> QED BY <1>1, <1>2, <1>3

\* Where a way leads makes no difference between two points that reach each other.
With(V, c, w) == V \cup (IF w = 0 THEN {} ELSE {<<c, w>>})

LEMMA RchLeast ==
  ASSUME NEW f, NEW P, Sound(f, P), NEW V \in Ways(NBlocks(f)),
         NEW C \in SUBSET (1 .. NBlocks(f)), 1 \in C,
         \A b \in C : Targets(f.blocks[b]) \subseteq C /\ OutOf(V, b) \subseteq C
  PROVE  Rch(f, V) \subseteq C
<1> DEFINE E == Succ(f, V)
           n == NBlocks(f)
<1>1. E \in [1 .. n -> SUBSET (1 .. n)] /\ n \in Nat \ {0}
  BY SuccIs, SoundSize
<1>2. ClosedIn(E, C)
  BY DEF ClosedIn, Succ
<1> HIDE DEF E, n
<1>3. C \in SUBSET (1 .. n)
  BY DEF n
<1>4. Reached(E) \subseteq C
  BY <1>1, <1>2, <1>3, ReachedLeast
<1> QED BY <1>4 DEF Rch, E

LEMMA WithLeads ==
  ASSUME NEW V, NEW c, NEW w, w # 0, NEW b
  PROVE  OutOf(With(V, c, w), b) = OutOf(V, b) \cup (IF b = c THEN {w} ELSE {})
<1> DEFINE D == With(V, c, w)
<1>1. \A x : x \in D <=> x \in V \/ x = <<c, w>>
  BY DEF With
<1> HIDE DEF D
<1>2. ASSUME NEW x \in OutOf(D, b) PROVE x \in OutOf(V, b) \cup (IF b = c THEN {w} ELSE {})
  <2>1. PICK v \in D : v[1] = b /\ x = v[2]
    BY DEF OutOf
  <2>2. CASE v \in V
    BY <2>1, <2>2 DEF OutOf
  <2>3. CASE v = <<c, w>>
    BY <2>1, <2>3
  <2> QED BY <1>1, <2>1, <2>2, <2>3
<1>3. OutOf(V, b) \subseteq OutOf(D, b)
  BY <1>1 DEF OutOf
<1>4. b = c => w \in OutOf(D, b)
  <2>1. <<c, w>> \in D /\ <<c, w>>[1] = c /\ <<c, w>>[2] = w
    BY <1>1
  <2> QED BY <2>1 DEF OutOf
<1> QED BY <1>2, <1>3, <1>4 DEF D

LEMMA WithWays ==
  ASSUME NEW n \in Nat, NEW V \in Ways(n), NEW c \in 1 .. n, NEW w \in 0 .. n
  PROVE  With(V, c, w) \in Ways(n)
<1>1. w # 0 => <<c, w>> \in (1 .. n) \X (1 .. n)
  OBVIOUS
<1> QED BY <1>1 DEF With, Ways

LEMMA MovedWay ==
  ASSUME NEW f, NEW P, Sound(f, P), NEW V \in Ways(NBlocks(f)), NEW w \in 0 .. NBlocks(f),
         NEW a \in 1 .. NBlocks(f), NEW b \in 1 .. NBlocks(f), b \in Targets(f.blocks[a]),
         b \in Rch(f, With(V, a, w)) => a \in Rch(f, With(V, a, w))
  PROVE  Rch(f, With(V, b, w)) = Rch(f, With(V, a, w))
<1> DEFINE n == NBlocks(f)
           VA == With(V, a, w)
           VB == With(V, b, w)
           A == Rch(f, VA)
           B == Rch(f, VB)
<1>1. CASE w = 0
  BY <1>1 DEF With
<1>2. CASE w # 0
  <2>0. n \in Nat
    BY SoundSize
  <2>1. VA \in Ways(n) /\ VB \in Ways(n)
    BY <2>0, WithWays
  <2>2. /\ A \in SUBSET (1 .. n) /\ 1 \in A
        /\ \A x \in A : Targets(f.blocks[x]) \subseteq A /\ OutOf(VA, x) \subseteq A
    <3> HIDE DEF VA
    <3> QED BY <2>1, RchIs
  <2>3. /\ B \in SUBSET (1 .. n) /\ 1 \in B
        /\ \A x \in B : Targets(f.blocks[x]) \subseteq B /\ OutOf(VB, x) \subseteq B
    <3> HIDE DEF VB
    <3> QED BY <2>1, RchIs
  <2>4. \A x : /\ OutOf(VA, x) = OutOf(V, x) \cup (IF x = a THEN {w} ELSE {})
               /\ OutOf(VB, x) = OutOf(V, x) \cup (IF x = b THEN {w} ELSE {})
    BY <1>2, WithLeads
  <2>5. b \in A => a \in A
    OBVIOUS
  <2> HIDE DEF A, B, VA, VB
  <2>6. a \in A => w \in A
    BY <2>2, <2>4
  <2>7. a \in B => w \in B
    BY <2>3, <2>4
  <2>8. \A x \in A : OutOf(VB, x) \subseteq A
    BY <2>2, <2>4, <2>5, <2>6
  <2>9. \A x \in B : OutOf(VA, x) \subseteq B
    BY <2>3, <2>4, <2>7
  <2>10. B \subseteq A
    BY <2>1, <2>2, <2>8, RchLeast DEF B
  <2>11. A \subseteq B
    BY <2>1, <2>3, <2>9, RchLeast DEF A
  <2> QED BY <2>10, <2>11 DEF A, B, VA, VB
<1> QED BY <1>1, <1>2

\* g is f some label tests later; the arm's body is the block n + 1, and w, if
\* not 0, the way off the end of the chain.
Tested(f, P, n, g, some) ==
  /\ Sound(g, P) /\ ~Terminated(g) /\ n + 1 <= NBlocks(g)
  /\ \A V \in Ways(n), w \in 0 .. n :
       LET before == Rch(f, With(V, f.cur, w))
           after  == Rch(g, With(V, g.cur, w))
       IN /\ \A b \in 1 .. n : b \in after <=> b \in before
          /\ g.cur \in after <=> f.cur \in before
          /\ n + 1 \in after <=> n + 1 \in before \/ (some /\ f.cur \in before)

LEMMA OneTest ==
  ASSUME NEW f, NEW P, Sound(f, P), ~Terminated(f), NEW n \in Nat \ {0}, n + 1 \in P
  PROVE  Tested(f, P, n, LabelTest(f, n + 1), TRUE)
<1> DEFINE N == NBlocks(f)
           body == n + 1
           next == N + 1
           a == Fresh(f, 1)
           P1 == P \cup (N + 1 .. N + 1)
           b == CondBr(a, body, next)
           g == At(b, next)
<1>1. /\ N \in Nat \ {0} /\ P \in SUBSET (1 .. N) /\ f.cur \in 1 .. N /\ f.cur \notin P
  BY SoundSize DEF Sound
<1>2. /\ Sound(a, P1) /\ NBlocks(a) = next /\ a.cur = f.cur /\ ~Terminated(a)
      /\ \A V \in Ways(N) : Rch(a, V) = Rch(f, V)
  BY FreshStep
<1>3. /\ body \in 1 .. N /\ body \in P /\ body # f.cur /\ n <= N /\ n + 1 <= next
      /\ next \in 1 .. next /\ body \in 1 .. next /\ f.cur \in 1 .. next /\ N <= next /\ next \in Nat
      /\ next \notin 1 .. N /\ P1 \ {next} = P /\ next \in P1 /\ body \in P1 /\ body \notin 1 .. n
      /\ \A x \in 1 .. n : x \in 1 .. N /\ x # body /\ x # next
      /\ \A x \in 0 .. n : x \in 0 .. N
      /\ body # next /\ next \notin 1 .. n /\ f.cur # next
  BY <1>1
<1> HIDE DEF N, body, next, a, P1
<1>4. /\ Sound(b, P1) /\ Terminated(b) /\ b.cur = f.cur /\ NBlocks(b) = next
      /\ \A V \in Ways(next) :
           Quiet(a, P1, V, body) /\ Quiet(a, P1, V, next)
             => Rch(b, V) = IF f.cur \in Rch(a, V) THEN Rch(a, V) \cup {body, next} ELSE Rch(a, V)
  <2>1. body \in 1 .. NBlocks(a) /\ next \in 1 .. NBlocks(a)
    BY <1>2, <1>3
  <2> HIDE DEF b
  <2>2. b = CondBr(a, body, next)
    BY DEF b
  <2> QED BY <1>2, <2>1, <2>2, CondBrStep
<1>5. next \in Targets(b.blocks[f.cur])
  <2> DEFINE in == Jump("condbr", <<body, next>>)
  <2>1. a \in IR /\ a.cur \in 1 .. NBlocks(a) /\ body \in Nat
    BY <1>2, <1>3 DEF Sound
  <2>2. in \in Ins /\ in.to = <<body, next>>
    <3>1. <<body, next>> \in Seq(Nat)
      BY <1>3, <2>1
    <3> QED BY <3>1 DEF Jump, Terminators, Ins
  <2>3. DOMAIN in.to = {1, 2} /\ in.to[2] = next
    BY <2>2
  <2> HIDE DEF in
  <2>4. b.blocks[f.cur] = Append(a.blocks[f.cur], in) /\ a.blocks[f.cur] \in Seq(Ins)
    <3>1. b = Put(a, in)
      BY DEF CondBr, in
    <3> HIDE DEF b
    <3>2. Put(a, in).blocks[a.cur] = Append(a.blocks[a.cur], in)
      BY <2>1, <2>2, PutIs
    <3>3. a.blocks[f.cur] \in Seq(Ins)
      BY <1>2, <2>1 DEF IR, NBlocks
    <3> QED BY <1>2, <3>1, <3>2, <3>3
  <2> HIDE DEF b
  <2> DEFINE s == a.blocks[f.cur]
             t == b.blocks[f.cur]
  <2>5. t # <<>> /\ t[Len(t)] = in
    <3>1. t = Append(s, in) /\ s \in Seq(Ins)
      BY <2>4
    <3> HIDE DEF s, t
    <3> QED BY <2>2, <3>1
  <2> QED BY <2>3, <2>5 DEF Targets
<1> HIDE DEF b
<1>6. /\ Sound(g, P) /\ ~Terminated(g) /\ g.cur = next /\ NBlocks(g) = next
      /\ \A V : Rch(g, V) = Rch(b, V)
  <2>1. /\ Sound(At(b, next), P1 \ {next}) /\ ~Terminated(At(b, next))
        /\ At(b, next).cur = next /\ NBlocks(At(b, next)) = NBlocks(b)
        /\ \A V : Rch(At(b, next), V) = Rch(b, V)
    BY <1>3, <1>4, AtStep
  <2> QED BY <1>3, <1>4, <2>1
<1> HIDE DEF g
<1>7. ASSUME NEW V \in Ways(n), NEW w \in 0 .. n
      PROVE  LET before == Rch(f, With(V, f.cur, w))
                 after  == Rch(g, With(V, g.cur, w))
             IN /\ \A x \in 1 .. n : x \in after <=> x \in before
                /\ g.cur \in after <=> f.cur \in before
                /\ body \in after <=> body \in before \/ f.cur \in before
  <2> DEFINE W == With(V, f.cur, w)
             R == Rch(f, W)
  <2>1. V \in Ways(N) /\ V \in Ways(next)
    BY <1>1, <1>3, WaysGrow
  <2>2. W \in Ways(N)
    BY <1>1, <1>3, <2>1, WithWays
  <2>3. W \in Ways(next)
    <3> HIDE DEF W
    <3> QED BY <1>1, <1>3, <2>2, WaysGrow
  <2>4. OutOf(W, body) = {} /\ OutOf(W, next) = {}
    <3>1. \A x : x \notin 1 .. n => OutOf(V, x) = {}
      BY WaysLead
    <3>2. w = 0 => W = V
      BY DEF With
    <3>3. w # 0 => \A x : OutOf(W, x) = OutOf(V, x) \cup (IF x = f.cur THEN {w} ELSE {})
      BY WithLeads
    <3> HIDE DEF W
    <3> QED BY <1>3, <3>1, <3>2, <3>3
  <2>5. Quiet(a, P1, W, body) /\ Quiet(a, P1, W, next)
    BY <1>3, <2>4 DEF Quiet
  <2>6. R \in SUBSET (1 .. N)
    <3> HIDE DEF W
    <3> QED BY <2>2, RchIs DEF N
  <2> HIDE DEF W
  <2>7. Rch(b, W) = IF f.cur \in R THEN R \cup {body, next} ELSE R
    BY <1>2, <1>4, <2>2, <2>3, <2>5
  <2>8. Rch(b, With(V, next, w)) = Rch(b, W)
    <3>1. next \in Rch(b, W) => f.cur \in Rch(b, W)
      BY <1>3, <2>6, <2>7
    <3>2. V \in Ways(NBlocks(b)) /\ w \in 0 .. NBlocks(b) /\ f.cur \in 1 .. NBlocks(b) /\ next \in 1 .. NBlocks(b)
      <4>1. w \in 0 .. next
        BY <1>1, <1>3
      <4> QED BY <1>3, <1>4, <2>1, <4>1
    <3> QED BY <1>4, <1>5, <3>1, <3>2, MovedWay DEF W
  <2>9. Rch(g, With(V, g.cur, w)) = Rch(b, W)
    BY <1>6, <2>8
  <2> QED BY <1>3, <1>6, <2>6, <2>7, <2>9 DEF W
<1>8. Tested(f, P, n, g, TRUE)
  BY <1>3, <1>6, <1>7 DEF Tested, body
<1> QED BY <1>8 DEF LabelTest, g, b, a, next, body, N

LEMMA NoTest ==
  ASSUME NEW f, NEW P, Sound(f, P), ~Terminated(f), NEW n, n + 1 <= NBlocks(f)
  PROVE  Tested(f, P, n, f, FALSE)
BY DEF Tested

LEMMA TestedOn ==
  ASSUME NEW f, NEW P, NEW n, NEW g, NEW s, Tested(f, P, n, g, s),
         NEW h, Tested(g, P, n, h, TRUE)
  PROVE  Tested(f, P, n, h, TRUE)
<1>1. Sound(h, P) /\ ~Terminated(h) /\ n + 1 <= NBlocks(h)
  BY DEF Tested
<1>2. ASSUME NEW V \in Ways(n), NEW w \in 0 .. n
      PROVE  LET before == Rch(f, With(V, f.cur, w))
                 after  == Rch(h, With(V, h.cur, w))
             IN /\ \A b \in 1 .. n : b \in after <=> b \in before
                /\ h.cur \in after <=> f.cur \in before
                /\ n + 1 \in after <=> n + 1 \in before \/ (TRUE /\ f.cur \in before)
  <2> DEFINE A == Rch(f, With(V, f.cur, w))
             B == Rch(g, With(V, g.cur, w))
             C == Rch(h, With(V, h.cur, w))
  <2>1. /\ \A b \in 1 .. n : b \in B <=> b \in A
        /\ g.cur \in B <=> f.cur \in A
        /\ n + 1 \in B <=> n + 1 \in A \/ (s /\ f.cur \in A)
    BY DEF Tested
  <2>2. /\ \A b \in 1 .. n : b \in C <=> b \in B
        /\ h.cur \in C <=> g.cur \in B
        /\ n + 1 \in C <=> n + 1 \in B \/ g.cur \in B
    BY DEF Tested
  <2> HIDE DEF A, B, C
  <2>3. /\ \A b \in 1 .. n : b \in C <=> b \in A
        /\ h.cur \in C <=> f.cur \in A
        /\ n + 1 \in C <=> n + 1 \in A \/ f.cur \in A
    BY <2>1, <2>2
  <2> QED BY <2>3 DEF A, C
<1> QED BY <1>1, <1>2 DEF Tested

IsChain(c, f, body, n) ==
  c = [k \in 0 .. n |-> IF k = 0 THEN f ELSE LabelTest(c[k - 1], body)]

LEMMA ChainIs ==
  ASSUME NEW f, NEW body, NEW n \in Nat
  PROVE  \E c : IsChain(c, f, body, n)
<1> DEFINE T == {m \in Nat : \E c : IsChain(c, f, body, m)}
<1>1. 0 \in T
  <2> DEFINE c == [k \in 0 .. 0 |-> f]
  <2>1. c = [k \in 0 .. 0 |-> IF k = 0 THEN f ELSE LabelTest(c[k - 1], body)]
    <3>1. \A k \in 0 .. 0 : k = 0
      OBVIOUS
    <3> QED BY <3>1
  <2> HIDE DEF c
  <2> QED BY <2>1 DEF IsChain
<1>2. ASSUME NEW m \in T PROVE m + 1 \in T
  <2>1. PICK c : IsChain(c, f, body, m)
    OBVIOUS
  <2> DEFINE d == [k \in 0 .. m + 1 |-> IF k = m + 1 THEN LabelTest(c[m], body) ELSE c[k]]
             e == [k \in 0 .. m + 1 |-> IF k = 0 THEN f ELSE LabelTest(d[k - 1], body)]
  <2>2. m \in Nat /\ m + 1 # 0 /\ m + 1 \in 0 .. m + 1
    OBVIOUS
  <2>3. ASSUME NEW k \in 0 .. m + 1 PROVE d[k] = e[k]
    <3>1. CASE k = m + 1
      <4>1. d[m] = c[m] /\ k - 1 = m /\ k # 0
        BY <2>2, <3>1
      <4> HIDE DEF d
      <4>2. e[k] = LabelTest(c[m], body)
        BY <4>1
      <4> QED BY <2>2, <3>1, <4>2 DEF d
    <3>2. CASE k # m + 1 /\ k # 0
      <4>1. k \in 0 .. m /\ k - 1 \in 0 .. m /\ k - 1 \in 0 .. m + 1 /\ k - 1 # m + 1
        BY <2>2, <3>2
      <4>2. d[k] = c[k] /\ d[k - 1] = c[k - 1]
        BY <3>2, <4>1
      <4>3. c[k] = LabelTest(c[k - 1], body)
        BY <2>1, <3>2, <4>1 DEF IsChain
      <4> HIDE DEF d
      <4>4. e[k] = LabelTest(d[k - 1], body)
        BY <3>2
      <4> QED BY <4>2, <4>3, <4>4
    <3>3. CASE k = 0
      <4>1. 0 \in 0 .. m /\ k # m + 1
        BY <2>2, <3>3
      <4>2. c[0] = f
        BY <2>1, <4>1 DEF IsChain
      <4> QED BY <3>3, <4>1, <4>2
    <3> QED BY <3>1, <3>2, <3>3
  <2>4. d = e
    <3>1. DOMAIN d = 0 .. m + 1 /\ DOMAIN e = 0 .. m + 1
      OBVIOUS
    <3>2. d = [k \in 0 .. m + 1 |-> d[k]] /\ e = [k \in 0 .. m + 1 |-> e[k]]
      OBVIOUS
    <3> HIDE DEF d, e
    <3> QED BY <2>3, <3>2
  <2> HIDE DEF d
  <2>5. IsChain(d, f, body, m + 1)
    BY <2>4 DEF IsChain
  <2> QED BY <2>2, <2>5
<1>3. T \in SUBSET Nat
  OBVIOUS
<1>4. n \in T
  <2> HIDE DEF T
  <2> QED BY <1>1, <1>2, <1>3, AllOfNat
<1> QED BY <1>4

LEMMA ChainTested ==
  ASSUME NEW f, NEW P, Sound(f, P), ~Terminated(f), NEW n \in Nat \ {0}, n + 1 \in P,
         NEW m \in Nat, NEW c, IsChain(c, f, n + 1, m), NEW k \in 0 .. m
  PROVE  Tested(f, P, n, c[k], k > 0)
<1> DEFINE T == {j \in Nat : j <= m => Tested(f, P, n, c[j], j > 0)}
<1>0. n + 1 <= NBlocks(f)
  BY DEF Sound
<1>1. 0 \in T
  <2>1. c[0] = f
    BY DEF IsChain
  <2>2. (0 > 0) = FALSE
    OBVIOUS
  <2>3. Tested(f, P, n, c[0], 0 > 0)
    BY <1>0, <2>1, <2>2, NoTest
  <2> QED BY <2>3
<1>2. ASSUME NEW j \in T PROVE j + 1 \in T
  <2>1. SUFFICES ASSUME j + 1 <= m PROVE Tested(f, P, n, c[j + 1], j + 1 > 0)
    OBVIOUS
  <2>2. j \in Nat /\ j <= m /\ j + 1 \in 0 .. m /\ j + 1 # 0 /\ (j + 1) - 1 = j /\ (j + 1 > 0) = TRUE
    BY <2>1
  <2>3. c[j + 1] = LabelTest(c[j], n + 1)
    BY <2>2 DEF IsChain
  <2>4. Tested(f, P, n, c[j], j > 0)
    BY <2>2
  <2>5. Sound(c[j], P) /\ ~Terminated(c[j])
    BY <2>4 DEF Tested
  <2>6. Tested(c[j], P, n, c[j + 1], TRUE)
    BY <2>3, <2>5, OneTest
  <2>7. Tested(f, P, n, c[j + 1], TRUE)
    <3> DEFINE s == j > 0
    <3> HIDE DEF s
    <3>1. Tested(f, P, n, c[j], s)
      BY <2>4 DEF s
    <3> QED BY <2>6, <3>1, TestedOn
  <2> QED BY <2>2, <2>7
<1>3. T \in SUBSET Nat
  OBVIOUS
<1>4. k \in T
  <2> HIDE DEF T
  <2> QED BY <1>1, <1>2, <1>3, AllOfNat
<1> QED BY <1>4

LEMMA LabelTestsIs ==
  ASSUME NEW f, NEW P, Sound(f, P), ~Terminated(f), NEW n \in Nat \ {0}, n + 1 \in P,
         NEW m \in Nat
  PROVE  Tested(f, P, n, LabelTests(f, n + 1, m), m > 0)
<1> DEFINE c == CHOOSE d : IsChain(d, f, n + 1, m)
<1>1. IsChain(c, f, n + 1, m)
  BY ChainIs
<1>2. LabelTests(f, n + 1, m) = c[m]
  BY DEF LabelTests, IsChain
<1> HIDE DEF c
<1>3. m \in 0 .. m
  OBVIOUS
<1> QED BY <1>1, <1>2, <1>3, ChainTested

-----------------------------------------------------------------------------
(* Statements that open or close *)

LEMMA GoOnStep ==
  ASSUME NEW f, NEW P, Sound(f, P), NEW b \in 1 .. NBlocks(f)
  PROVE  /\ Sound(GoOn(f, b), P) /\ Terminated(GoOn(f, b))
         /\ GoOn(f, b).cur = f.cur /\ NBlocks(GoOn(f, b)) = NBlocks(f)
         /\ \A V \in Ways(NBlocks(f)) :
              LET goes == f.cur \in Rch(f, V) /\ ~Terminated(f)
              IN (goes => Quiet(f, P, V, b))
                 => Rch(GoOn(f, b), V) = IF goes THEN Rch(f, V) \cup {b} ELSE Rch(f, V)
<1>1. CASE Terminated(f)
  BY <1>1 DEF GoOn
<1>2. CASE ~Terminated(f)
  <2>1. GoOn(f, b) = Br(f, b)
    BY <1>2 DEF GoOn
  <2> QED BY <1>2, <2>1, BrStep
<1> QED BY <1>1, <1>2

\* Blocks that are new have no ways yet.
LEMMA NewQuiet ==
  ASSUME NEW n \in Nat, NEW V \in Ways(n), NEW m \in Nat, n <= m
  PROVE  V \in Ways(m) /\ \A x : x \notin 1 .. n => OutOf(V, x) = {}
BY WaysGrow, WaysLead

\* lower_if up to its then branch: k blocks after the first n.
IfIs(f, s, shape, k, n, h) ==
  n = NBlocks(f) /\ h = At(CondBr(Eval(Fresh(f, k), s, shape), n + 1, n + 2), n + 1)
IfReady(f, P, k, n, h) ==
  /\ Sound(h, P \cup (n + 2 .. n + k)) /\ ~Terminated(h) /\ n + k <= NBlocks(h)
  /\ h.cur = n + 1
  /\ \A V \in Ways(n) :
       /\ \A b \in 1 .. n : b \in Rch(h, V) <=> b \in Rch(f, V)
       /\ n + 1 \in Rch(h, V) <=> f.cur \in Rch(f, V)
       /\ n + 2 \in Rch(h, V) <=> f.cur \in Rch(f, V)
       /\ k = 3 => n + 3 \notin Rch(h, V)

LEMMA IfBuilt ==
  ASSUME NEW f, NEW P, Sound(f, P), ~Terminated(f), NEW s \in Nat, NEW shape,
         NEW n, NEW k \in {2, 3}, NEW h, IfIs(f, s, shape, k, n, h)
  PROVE  IfReady(f, P, k, n, h)
<1> SUFFICES ASSUME n = NBlocks(f), h = At(CondBr(Eval(Fresh(f, k), s, shape), n + 1, n + 2), n + 1)
             PROVE  IfReady(f, P, k, n, h)
  BY DEF IfIs
<1> DEFINE a == Fresh(f, k)
           P1 == P \cup (n + 1 .. n + k)
           b == Eval(a, s, shape)
           c == CondBr(b, n + 1, n + 2)
           P2 == P \cup (n + 2 .. n + k)
<1>1. n \in Nat \ {0} /\ P \in SUBSET (1 .. n) /\ k \in Nat
  <2>1. NBlocks(f) \in Nat \ {0} /\ P \in SUBSET (1 .. NBlocks(f))
    BY SoundSize DEF Sound
  <2> QED BY <2>1
<1>2. /\ Sound(a, P1) /\ NBlocks(a) = n + k /\ a.cur = f.cur /\ ~Terminated(a)
      /\ \A V \in Ways(n) : Rch(a, V) = Rch(f, V)
  BY <1>1, FreshStep
<1> HIDE DEF a
<1>3. Onward(a, P1, b)
  BY <1>2, EvalIs
<1> DEFINE M == NBlocks(b)
<1>4. Sound(b, P1) /\ ~Terminated(b) /\ n + k <= M /\ M \in Nat /\ b.cur \in 1 .. M
  BY <1>2, <1>3, SoundSize DEF Onward, Sound
<1> HIDE DEF b
<1>5. /\ n + 1 \in 1 .. M /\ n + 2 \in 1 .. M /\ n <= M /\ n <= n + k /\ n + k \in Nat
      /\ n + 1 \in P1 /\ n + 2 \in P1 /\ P1 \ {n + 1} = P2
      /\ \A x \in 1 .. n : x \in 1 .. n + k /\ x # n + 1 /\ x # n + 2
      /\ n + 1 \in 1 .. n + k /\ n + 2 \in 1 .. n + k
      /\ k = 3 => n + 3 \in 1 .. n + k
      /\ n + 1 \notin 1 .. n /\ n + 2 \notin 1 .. n /\ n + 3 \notin 1 .. n
      /\ n + 3 # n + 1 /\ n + 3 # n + 2
  BY <1>1, <1>4
<1> HIDE DEF M, P1, P2
<1>6. ASSUME NEW V \in Ways(n)
      PROVE  /\ V \in Ways(n + k) /\ V \in Ways(M) /\ OutOf(V, n + 1) = {} /\ OutOf(V, n + 2) = {}
             /\ Rch(f, V) \in SUBSET (1 .. n)
  BY <1>1, <1>4, <1>5, NewQuiet, RchIs
<1>7. ASSUME NEW V \in Ways(n)
      PROVE  /\ \A x \in 1 .. n + k : x \in Rch(b, V) <=> x \in Rch(f, V)
             /\ b.cur \in Rch(b, V) <=> f.cur \in Rch(f, V)
  BY <1>2, <1>3, <1>6 DEF Onward
<1>8. /\ Sound(c, P1) /\ Terminated(c) /\ NBlocks(c) = M
      /\ \A V \in Ways(n) :
           Rch(c, V) = IF b.cur \in Rch(b, V) THEN Rch(b, V) \cup {n + 1, n + 2} ELSE Rch(b, V)
  <2>1. ASSUME NEW V \in Ways(n)
        PROVE  V \in Ways(NBlocks(b)) /\ Quiet(b, P1, V, n + 1) /\ Quiet(b, P1, V, n + 2)
    BY <1>5, <1>6 DEF Quiet, M
  <2>2. n + 1 \in 1 .. NBlocks(b) /\ n + 2 \in 1 .. NBlocks(b)
    BY <1>5 DEF M
  <2> DEFINE x == n + 1
             y == n + 2
  <2> HIDE DEF x, y
  <2>3. \A V \in Ways(n) : V \in Ways(NBlocks(b)) /\ Quiet(b, P1, V, x) /\ Quiet(b, P1, V, y)
    BY <2>1 DEF x, y
  <2>4. x \in 1 .. NBlocks(b) /\ y \in 1 .. NBlocks(b)
    BY <2>2 DEF x, y
  <2>5. /\ Sound(CondBr(b, x, y), P1) /\ Terminated(CondBr(b, x, y))
        /\ NBlocks(CondBr(b, x, y)) = NBlocks(b)
        /\ \A V \in Ways(n) :
             Rch(CondBr(b, x, y), V) =
               IF b.cur \in Rch(b, V) THEN Rch(b, V) \cup {x, y} ELSE Rch(b, V)
    BY <1>4, <2>3, <2>4, CondBrStep
  <2> QED BY <2>5 DEF x, y, M
<1> HIDE DEF c
<1>9. h = At(c, n + 1)
  BY DEF c, b, a
<1>10. /\ Sound(h, P2) /\ ~Terminated(h) /\ h.cur = n + 1 /\ NBlocks(h) = M
       /\ \A V : Rch(h, V) = Rch(c, V)
  <2> DEFINE x == n + 1
  <2>1. x \in P1 /\ P1 \ {x} = P2 /\ h = At(c, x)
    BY <1>5, <1>9
  <2> HIDE DEF x
  <2>2. /\ Sound(At(c, x), P1 \ {x}) /\ ~Terminated(At(c, x)) /\ At(c, x).cur = x
        /\ NBlocks(At(c, x)) = NBlocks(c) /\ \A V : Rch(At(c, x), V) = Rch(c, V)
    BY <1>8, <2>1, AtStep
  <2> QED BY <1>8, <2>1, <2>2 DEF x
<1>11. ASSUME NEW V \in Ways(n)
       PROVE  /\ \A x \in 1 .. n : x \in Rch(h, V) <=> x \in Rch(f, V)
              /\ n + 1 \in Rch(h, V) <=> f.cur \in Rch(f, V)
              /\ n + 2 \in Rch(h, V) <=> f.cur \in Rch(f, V)
              /\ k = 3 => n + 3 \notin Rch(h, V)
  <2>1. Rch(h, V) = IF f.cur \in Rch(f, V) THEN Rch(b, V) \cup {n + 1, n + 2} ELSE Rch(b, V)
    BY <1>7, <1>8, <1>10
  <2>2. /\ \A x \in 1 .. n : x \in Rch(b, V) <=> x \in Rch(f, V)
        /\ n + 1 \notin Rch(b, V) /\ n + 2 \notin Rch(b, V)
        /\ k = 3 => n + 3 \notin Rch(b, V)
    BY <1>5, <1>6, <1>7
  <2> DEFINE x1 == n + 1
             x2 == n + 2
             x3 == n + 3
  <2>3. /\ \A x \in 1 .. n : x # x1 /\ x # x2
        /\ x3 # x1 /\ x3 # x2
    BY <1>5
  <2>4. /\ Rch(h, V) = IF f.cur \in Rch(f, V) THEN Rch(b, V) \cup {x1, x2} ELSE Rch(b, V)
        /\ \A x \in 1 .. n : x \in Rch(b, V) <=> x \in Rch(f, V)
        /\ x1 \notin Rch(b, V) /\ x2 \notin Rch(b, V)
        /\ k = 3 => x3 \notin Rch(b, V)
    BY <2>1, <2>2
  <2> HIDE DEF x1, x2, x3
  <2>5. /\ \A x \in 1 .. n : x \in Rch(h, V) <=> x \in Rch(f, V)
        /\ x1 \in Rch(h, V) <=> f.cur \in Rch(f, V)
        /\ x2 \in Rch(h, V) <=> f.cur \in Rch(f, V)
        /\ k = 3 => x3 \notin Rch(h, V)
    BY <2>3, <2>4
  <2> QED BY <2>5 DEF x1, x2, x3
<1> QED BY <1>4, <1>10, <1>11 DEF P2, IfReady

\* lower_while up to its body: three blocks after the first n.
WhileIs(f, s, shape, n, h) ==
  /\ n = NBlocks(f)
  /\ h = At(CondBr(Eval(At(Br(Fresh(f, 3), n + 1), n + 1), s, shape), n + 2, n + 3), n + 2)
WhileReady(f, P, n, h) ==
  /\ Sound(h, P \cup {n + 3}) /\ ~Terminated(h) /\ n + 3 <= NBlocks(h)
  /\ h.cur = n + 2
  /\ \A V \in Ways(n) :
       /\ \A b \in 1 .. n : b \in Rch(h, V) <=> b \in Rch(f, V)
       /\ n + 1 \in Rch(h, V) <=> f.cur \in Rch(f, V)
       /\ n + 2 \in Rch(h, V) <=> f.cur \in Rch(f, V)
       /\ n + 3 \in Rch(h, V) <=> f.cur \in Rch(f, V)

LEMMA WhileBuilt ==
  ASSUME NEW f, NEW P, Sound(f, P), ~Terminated(f), NEW s \in Nat, NEW shape,
         NEW n, NEW h, WhileIs(f, s, shape, n, h)
  PROVE  WhileReady(f, P, n, h)
<1> SUFFICES ASSUME n = NBlocks(f),
                    h = At(CondBr(Eval(At(Br(Fresh(f, 3), n + 1), n + 1), s, shape), n + 2, n + 3), n + 2)
             PROVE  WhileReady(f, P, n, h)
  BY DEF WhileIs
<1> DEFINE cond == n + 1
           body == n + 2
           end == n + 3
           P1 == P \cup (n + 1 .. n + 3)
           P2 == P \cup {body, end}
           P3 == P \cup {end}
           a == Fresh(f, 3)
           b == Br(a, cond)
           c == At(b, cond)
           d == Eval(c, s, shape)
           e == CondBr(d, body, end)
           g == At(e, body)
<1>0. h = g
  OBVIOUS
<1>1. n \in Nat \ {0} /\ P \in SUBSET (1 .. n) /\ f.cur \in 1 .. n
  BY SoundSize DEF Sound
<1>2. /\ Sound(a, P1) /\ NBlocks(a) = end /\ a.cur = f.cur /\ ~Terminated(a)
      /\ \A V \in Ways(n) : Rch(a, V) = Rch(f, V)
  BY <1>1, FreshStep
<1>3. /\ cond \in 1 .. end /\ body \in 1 .. end /\ end \in 1 .. end /\ end \in Nat /\ n <= end
      /\ cond \in P1 /\ P1 \ {cond} = P2 /\ body \in P2 /\ end \in P2 /\ P2 \ {body} = P3
      /\ cond \notin 1 .. n /\ body \notin 1 .. n /\ end \notin 1 .. n
      /\ cond # body /\ cond # end /\ body # end
      /\ \A x \in 1 .. n : x \in 1 .. end
  BY <1>1
<1> HIDE DEF cond, body, end, P1, P2, P3, a
<1>4. ASSUME NEW V \in Ways(n)
      PROVE  /\ V \in Ways(end) /\ OutOf(V, cond) = {} /\ OutOf(V, body) = {} /\ OutOf(V, end) = {}
             /\ Rch(f, V) \in SUBSET (1 .. n)
  BY <1>1, <1>3, NewQuiet, RchIs
<1>5. /\ Sound(b, P1) /\ Terminated(b) /\ NBlocks(b) = end
      /\ \A V \in Ways(n) : Rch(b, V) = IF f.cur \in Rch(f, V) THEN Rch(f, V) \cup {cond} ELSE Rch(f, V)
  <2>1. ASSUME NEW V \in Ways(n)
        PROVE  V \in Ways(NBlocks(a)) /\ Quiet(a, P1, V, cond)
    BY <1>2, <1>3, <1>4 DEF Quiet
  <2>2. cond \in 1 .. NBlocks(a)
    BY <1>2, <1>3
  <2> QED BY <1>2, <2>1, <2>2, BrStep
<1> HIDE DEF b
<1>6. /\ Sound(c, P2) /\ ~Terminated(c) /\ c.cur = cond /\ NBlocks(c) = end
      /\ \A V : Rch(c, V) = Rch(b, V)
  <2>1. /\ Sound(At(b, cond), P1 \ {cond}) /\ ~Terminated(At(b, cond))
        /\ At(b, cond).cur = cond /\ NBlocks(At(b, cond)) = NBlocks(b)
        /\ \A V : Rch(At(b, cond), V) = Rch(b, V)
    BY <1>3, <1>5, AtStep
  <2> QED BY <1>3, <1>5, <2>1
<1> HIDE DEF c
<1>7. Onward(c, P2, d)
  BY <1>6, EvalIs
<1> DEFINE M == NBlocks(d)
<1>8. Sound(d, P2) /\ ~Terminated(d) /\ end <= M /\ M \in Nat
  BY <1>6, <1>7, SoundSize DEF Onward
<1> HIDE DEF d
<1>9. body \in 1 .. M /\ end \in 1 .. M /\ n <= M
  BY <1>1, <1>3, <1>8
<1> HIDE DEF M
<1>10. ASSUME NEW V \in Ways(n)
       PROVE  /\ \A x \in 1 .. end : x \in Rch(d, V) <=> x \in Rch(c, V)
              /\ d.cur \in Rch(d, V) <=> cond \in Rch(c, V)
  BY <1>4, <1>6, <1>7 DEF Onward
<1>11. /\ Sound(e, P2) /\ Terminated(e) /\ NBlocks(e) = M
       /\ \A V \in Ways(n) :
            Rch(e, V) = IF d.cur \in Rch(d, V) THEN Rch(d, V) \cup {body, end} ELSE Rch(d, V)
  <2>1. ASSUME NEW V \in Ways(n)
        PROVE  V \in Ways(NBlocks(d)) /\ Quiet(d, P2, V, body) /\ Quiet(d, P2, V, end)
    BY <1>1, <1>3, <1>4, <1>8, <1>9, NewQuiet DEF Quiet, M
  <2>2. body \in 1 .. NBlocks(d) /\ end \in 1 .. NBlocks(d)
    BY <1>9 DEF M
  <2> QED BY <1>8, <2>1, <2>2, CondBrStep DEF M
<1> HIDE DEF e
<1>12. /\ Sound(g, P3) /\ ~Terminated(g) /\ g.cur = body /\ NBlocks(g) = M
       /\ \A V : Rch(g, V) = Rch(e, V)
  <2>1. /\ Sound(At(e, body), P2 \ {body}) /\ ~Terminated(At(e, body))
        /\ At(e, body).cur = body /\ NBlocks(At(e, body)) = NBlocks(e)
        /\ \A V : Rch(At(e, body), V) = Rch(e, V)
    BY <1>3, <1>11, AtStep
  <2> QED BY <1>3, <1>11, <2>1
<1> HIDE DEF g
<1>13. ASSUME NEW V \in Ways(n)
       PROVE  /\ \A x \in 1 .. n : x \in Rch(g, V) <=> x \in Rch(f, V)
              /\ cond \in Rch(g, V) <=> f.cur \in Rch(f, V)
              /\ body \in Rch(g, V) <=> f.cur \in Rch(f, V)
              /\ end \in Rch(g, V) <=> f.cur \in Rch(f, V)
  <2>1. Rch(c, V) = IF f.cur \in Rch(f, V) THEN Rch(f, V) \cup {cond} ELSE Rch(f, V)
    BY <1>5, <1>6
  <2>2. cond \in Rch(c, V) <=> f.cur \in Rch(f, V)
    BY <1>3, <1>4, <2>1
  <2>3. Rch(g, V) = IF f.cur \in Rch(f, V) THEN Rch(d, V) \cup {body, end} ELSE Rch(d, V)
    BY <1>10, <1>11, <1>12, <2>2
  <2>4. /\ \A x \in 1 .. n : x \in Rch(d, V) <=> x \in Rch(f, V)
        /\ cond \in Rch(d, V) <=> f.cur \in Rch(f, V)
        /\ body \notin Rch(d, V) /\ end \notin Rch(d, V)
    BY <1>3, <1>4, <1>10, <2>1
  <2> QED BY <1>3, <2>3, <2>4
<1> QED BY <1>0, <1>8, <1>12, <1>13 DEF P3, cond, body, end, WhileReady

-----------------------------------------------------------------------------
(* Arms *)

\* One more way out of a block, to a block without any.
LEMMA WayAdded ==
  ASSUME NEW f, NEW P, Sound(f, P), NEW V \in Ways(NBlocks(f)), NEW c \in 1 .. NBlocks(f),
         NEW w \in 1 .. NBlocks(f), f.blocks[w] = <<>>, w # c, OutOf(V, w) = {}
  PROVE  Rch(f, With(V, c, w)) = IF c \in Rch(f, V) THEN Rch(f, V) \cup {w} ELSE Rch(f, V)
<1> DEFINE n == NBlocks(f)
           W == With(V, c, w)
           E == Succ(f, V)
           F == Succ(f, W)
<1>1. n \in Nat \ {0} /\ w # 0 /\ w \in 0 .. n
  BY SoundSize
<1>2. W \in Ways(n)
  BY <1>1, WithWays
<1>3. E \in [1 .. n -> SUBSET (1 .. n)] /\ F \in [1 .. n -> SUBSET (1 .. n)]
  BY <1>2, SuccIs
<1>4. \A b : OutOf(W, b) = OutOf(V, b) \cup (IF b = c THEN {w} ELSE {})
  BY <1>1, WithLeads
<1> HIDE DEF W
<1>5. \A b \in 1 .. n : E[b] = Targets(f.blocks[b]) \cup OutOf(V, b)
  BY DEF Succ
<1>6. \A b \in 1 .. n : F[b] = E[b] \cup (IF b = c THEN {w} ELSE {})
  <2>1. \A b \in 1 .. n : F[b] = Targets(f.blocks[b]) \cup OutOf(W, b)
    BY DEF Succ
  <2> QED BY <1>4, <1>5, <2>1
<1>7. E[w] = {} /\ F[w] = {}
  BY <1>5, <1>6 DEF Targets
<1> HIDE DEF E, F, n
<1>8. c \in 1 .. n
  BY DEF n
<1>9. 1 .. n = 1 .. n /\ Reached(E) \in SUBSET (1 .. n) /\ ClosedIn(E, Reached(E))
  BY <1>1, <1>3, ReachedClosed
<1>10. c \in Reached(E) => E[c] \subseteq Reached(E)
  BY <1>9 DEF ClosedIn
<1>11. Reached(F) = IF c \in Reached(E) THEN Reached(E) \cup F[c] ELSE Reached(E)
  <2>1. n <= n /\ E[c] \subseteq F[c] /\ \A b \in 1 .. n : b # c => F[b] = E[b]
    <3>1. n <= n
      BY <1>1
    <3>2. F[c] = E[c] \cup {w}
      BY <1>6, <1>8
    <3>3. ASSUME NEW b \in 1 .. n, b # c PROVE F[b] = E[b]
      BY <1>6, <3>3
    <3> QED BY <3>1, <3>2, <3>3
  <2>2. \A t \in F[c] : t \in E[c] \/ t = w
    BY <1>6, <1>8
  <2>3. c \in Reached(E) => \A t \in F[c] : t \in Reached(E) \/ F[t] \subseteq Reached(E)
    BY <1>7, <1>10, <2>2
  <2> QED BY <1>1, <1>3, <1>8, <2>1, <2>3, MoreEdges
<1>12. Reached(F) = IF c \in Reached(E) THEN Reached(E) \cup {w} ELSE Reached(E)
  BY <1>6, <1>8, <1>10, <1>11
<1> QED BY <1>12 DEF Rch, E, F, W

\* A way that a jump takes already.
LEMMA WayTaken ==
  ASSUME NEW f, NEW V, NEW c, NEW w, w # 0, w \in Targets(f.blocks[c])
  PROVE  Rch(f, With(V, c, w)) = Rch(f, V)
<1> DEFINE W == With(V, c, w)
<1>1. \A b : OutOf(W, b) = OutOf(V, b) \cup (IF b = c THEN {w} ELSE {})
  BY WithLeads
<1> HIDE DEF W
<1>2. \A b \in 1 .. NBlocks(f) :
        Targets(f.blocks[b]) \cup OutOf(W, b) = Targets(f.blocks[b]) \cup OutOf(V, b)
  BY <1>1
<1>3. Succ(f, W) = Succ(f, V)
  BY <1>2 DEF Succ
<1> QED BY <1>3 DEF Rch, W

\* The end of a match with a wildcard: the detour to its arm becomes a jump.
LEMMA WildTaken ==
  ASSUME NEW f, NEW P, Sound(f, P), ~Terminated(f), NEW V \in Ways(NBlocks(f)),
         NEW w \in 1 .. NBlocks(f)
  PROVE  Rch(Br(f, w), V) = Rch(f, With(V, f.cur, w))
<1> DEFINE n == NBlocks(f)
           g == Br(f, w)
           W == With(V, f.cur, w)
           in == Jump("br", <<w>>)
<1>1. n \in Nat \ {0} /\ w # 0 /\ w \in 0 .. n /\ f.cur \in 1 .. n /\ f \in IR
  BY SoundSize DEF Sound
<1>2. W \in Ways(n)
  BY <1>1, WithWays
<1>3. in \in Ins /\ in.op = "br" /\ in.to = <<w>> /\ in.to[1] = w /\ DOMAIN in.to = {1}
  BY <1>1 DEF Jump, Ins, Terminators
<1>4. Targets(g.blocks[f.cur]) = {w}
  <2>1. g.blocks[f.cur] = Append(f.blocks[f.cur], in)
    BY <1>1, <1>3, PutIs DEF Br
  <2>2. f.blocks[f.cur] \in Seq(Ins) /\ GoodBlock(f.blocks[f.cur], n) /\ ~Ended(f.blocks[f.cur])
    <3>1. f.blocks \in Seq(Seq(Ins)) /\ n = Len(f.blocks)
      BY SoundSize DEF NBlocks
    <3>2. f.blocks[f.cur] \in Seq(Ins)
      BY <1>1, <3>1
    <3>3. GoodBlock(f.blocks[f.cur], n)
      BY <1>1 DEF Sound
    <3> QED BY <3>2, <3>3, TerminatedIs
  <2>3. in.op \in Terminators \ {"unreachable"} /\ \A k \in DOMAIN in.to : in.to[k] \in 1 .. n
    BY <1>1, <1>3 DEF Terminators
  <2>4. Targets(Append(f.blocks[f.cur], in)) = {in.to[k] : k \in DOMAIN in.to}
    <3> HIDE DEF in, n
    <3> QED BY <1>3, <2>2, <2>3, BlockEnded
  <2> QED BY <1>3, <2>1, <2>4
<1>5. Rch(g, W) = Rch(g, V)
  <2> HIDE DEF g
  <2> QED BY <1>1, <1>4, WayTaken
<1>6. OutOf(W, f.cur) = OutOf(V, f.cur) \cup {w}
  BY <1>1, WithLeads
<1>7. f.cur \in Rch(f, W) => w \in Rch(f, W)
  BY <1>2, <1>6, RchIs
<1>8. Rch(g, W) = Rch(f, W)
  <2> HIDE DEF W, n
  <2>1. \A U \in Ways(NBlocks(f)) :
          (f.cur \in Rch(f, U) => Quiet(f, P, U, w))
          => Rch(g, U) = IF f.cur \in Rch(f, U) THEN Rch(f, U) \cup {w} ELSE Rch(f, U)
    BY BrStep
  <2>2. f.cur \in Rch(f, W) => Quiet(f, P, W, w)
    BY <1>7 DEF Quiet
  <2>3. Rch(g, W) = IF f.cur \in Rch(f, W) THEN Rch(f, W) \cup {w} ELSE Rch(f, W)
    BY <1>2, <2>1, <2>2 DEF n
  <2> QED BY <1>7, <2>3
<1> QED BY <1>5, <1>8

LEMMA NoLabels ==
  ASSUME NEW f, NEW body
  PROVE  LabelTests(f, body, 0) = f
<1> DEFINE c == CHOOSE d : IsChain(d, f, body, 0)
<1>1. IsChain(c, f, body, 0)
  BY ChainIs
<1>2. LabelTests(f, body, 0) = c[0]
  BY DEF LabelTests, IsChain
<1> HIDE DEF c
<1>3. c[0] = f
  BY <1>1 DEF IsChain
<1> QED BY <1>2, <1>3

\* lower_match, one arm: of k labels, or the wildcard's, for which the match has
\* no other.
ArmIs(f, k, isWild, n, t, g) ==
  /\ n = NBlocks(f)
  /\ t = LabelTests(Fresh(f, 1), n + 1, IF isWild THEN 0 ELSE k)
  /\ g = At(t, n + 1)
ArmReady(f, P, isWild, n, t, g) ==
  /\ Sound(g, P \cup {t.cur}) /\ ~Terminated(g) /\ n + 1 <= NBlocks(g)
  /\ g.cur = n + 1 /\ t.cur \notin P /\ t.cur \in 1 .. NBlocks(g)
  /\ \A V \in Ways(n), w \in 0 .. n : (isWild => w = 0) =>
       LET w2     == IF isWild THEN n + 1 ELSE w
           before == Rch(f, With(V, f.cur, w))
           after  == Rch(g, With(V, t.cur, w2))
       IN /\ \A b \in 1 .. n : b \in after <=> b \in before
          /\ t.cur \in after <=> f.cur \in before
          /\ n + 1 \in after <=> f.cur \in before

LEMMA ArmBuilt ==
  ASSUME NEW f, NEW P, Sound(f, P), ~Terminated(f), NEW n, NEW k \in Nat \ {0},
         NEW isWild \in BOOLEAN, NEW t, NEW g, ArmIs(f, k, isWild, n, t, g)
  PROVE  ArmReady(f, P, isWild, n, t, g)
<1> SUFFICES ASSUME n = NBlocks(f) PROVE ArmReady(f, P, isWild, n, t, g)
  BY DEF ArmIs
<1> DEFINE a == Fresh(f, 1)
           P1 == P \cup {n + 1}
           m == IF isWild THEN 0 ELSE k
<1>1. n \in Nat \ {0} /\ f.cur \in 1 .. n /\ m \in Nat
  BY SoundSize DEF Sound
<1>2. /\ Sound(a, P1) /\ NBlocks(a) = n + 1 /\ a.cur = f.cur /\ ~Terminated(a)
      /\ \A V \in Ways(n) : Rch(a, V) = Rch(f, V)
  <2>1. /\ Sound(Fresh(f, 1), P \cup (NBlocks(f) + 1 .. NBlocks(f) + 1))
        /\ NBlocks(Fresh(f, 1)) = NBlocks(f) + 1 /\ Fresh(f, 1).cur = f.cur
        /\ Terminated(Fresh(f, 1)) <=> Terminated(f)
        /\ \A V \in Ways(NBlocks(f)) : Rch(Fresh(f, 1), V) = Rch(f, V)
    BY FreshStep
  <2>2. n + 1 .. n + 1 = {n + 1}
    BY <1>1
  <2> QED BY <2>1, <2>2
<1> HIDE DEF a, P1, m
<1>3. n + 1 \in P1 /\ P \subseteq P1
  BY DEF P1
<1>4. Tested(a, P1, n, t, m > 0)
  <2>1. Tested(a, P1, n, LabelTests(a, n + 1, m), m > 0)
    BY <1>1, <1>2, <1>3, LabelTestsIs
  <2> QED BY <2>1 DEF a, m, ArmIs
<1>5. Sound(t, P1) /\ ~Terminated(t) /\ n + 1 <= NBlocks(t)
  BY <1>4 DEF Tested
<1>6. /\ Sound(g, (P1 \ {n + 1}) \cup {t.cur}) /\ ~Terminated(g)
      /\ g.cur = n + 1 /\ NBlocks(g) = NBlocks(t)
      /\ \A V : Rch(g, V) = Rch(t, V)
  <2> DEFINE b == n + 1
  <2>1. b \in P1
    BY <1>3
  <2> HIDE DEF b
  <2>2. /\ Sound(At(t, b), (P1 \ {b}) \cup {t.cur}) /\ ~Terminated(At(t, b))
        /\ At(t, b).cur = b /\ NBlocks(At(t, b)) = NBlocks(t)
        /\ \A V : Rch(At(t, b), V) = Rch(t, V)
    BY <1>5, <2>1, LeaveStep
  <2>3. g = At(t, b)
    BY DEF ArmIs, b
  <2> QED BY <2>2, <2>3 DEF b
<1>7. t.cur \notin P1 /\ t.cur \in 1 .. NBlocks(t) /\ t.cur # n + 1 /\ t.cur \notin P
  <2>1. t.cur \notin P1 /\ t.cur \in 1 .. NBlocks(t)
    BY <1>5 DEF Sound
  <2> QED BY <1>3, <2>1
<1>8. n + 1 \notin P /\ (P1 \ {n + 1}) \cup {t.cur} = P \cup {t.cur}
  <2>1. P \in SUBSET (1 .. n)
    BY DEF Sound
  <2>2. n + 1 \notin 1 .. n
    BY <1>1
  <2> QED BY <2>1, <2>2 DEF P1
<1>9. ASSUME NEW V \in Ways(n), NEW w \in 0 .. n, isWild => w = 0
      PROVE  LET w2     == IF isWild THEN n + 1 ELSE w
                 before == Rch(f, With(V, f.cur, w))
                 after  == Rch(g, With(V, t.cur, w2))
             IN /\ \A b \in 1 .. n : b \in after <=> b \in before
                /\ t.cur \in after <=> f.cur \in before
                /\ n + 1 \in after <=> f.cur \in before
  <2> DEFINE A == Rch(f, With(V, f.cur, w))
  <2>1. With(V, f.cur, w) \in Ways(n) /\ A \in SUBSET (1 .. n) /\ A = Rch(a, With(V, f.cur, w))
    <3>1. With(V, f.cur, w) \in Ways(n)
      BY <1>1, WithWays
    <3>2. A \in SUBSET (1 .. n)
      BY <3>1, RchIs
    <3> QED BY <1>2, <3>1, <3>2
  <2>2. n + 1 \notin A
    BY <1>1, <2>1
  <2>3. CASE ~isWild
    <3> DEFINE B == Rch(t, With(V, t.cur, w))
    <3>1. /\ \A b \in 1 .. n : b \in B <=> b \in Rch(a, With(V, a.cur, w))
          /\ t.cur \in B <=> a.cur \in Rch(a, With(V, a.cur, w))
          /\ n + 1 \in B <=> n + 1 \in Rch(a, With(V, a.cur, w))
                               \/ (m > 0 /\ a.cur \in Rch(a, With(V, a.cur, w)))
      BY <1>4 DEF Tested
    <3>2. m > 0
      BY <2>3 DEF m
    <3>3. B = Rch(g, With(V, t.cur, w))
      BY <1>6
    <3> HIDE DEF A, B
    <3>4. /\ \A b \in 1 .. n : b \in B <=> b \in A
          /\ t.cur \in B <=> f.cur \in A
          /\ n + 1 \in B <=> f.cur \in A
      BY <1>2, <2>1, <2>2, <3>1, <3>2
    <3> QED BY <2>3, <3>3, <3>4 DEF A, B
  <2>4. CASE isWild
    <3>1. w = 0 /\ With(V, f.cur, w) = V /\ m = 0
      BY <1>9, <2>4 DEF With, m
    <3>2. t = a
      <4>1. t = LabelTests(Fresh(f, 1), n + 1, 0)
        BY <2>4 DEF ArmIs
      <4> QED BY <4>1, NoLabels DEF a
    <3>3. Rch(a, With(V, f.cur, n + 1)) = IF f.cur \in A THEN A \cup {n + 1} ELSE A
      <4> DEFINE x == n + 1
                 c == f.cur
      <4>1. /\ x \in 1 .. NBlocks(a) /\ c \in 1 .. NBlocks(a) /\ x # c
            /\ V \in Ways(NBlocks(a)) /\ OutOf(V, x) = {}
        <5>1. n <= n + 1 /\ n + 1 \notin 1 .. n
          BY <1>1
        <5> QED BY <1>1, <1>2, <5>1, NewQuiet
      <4>2. a.blocks[x] = <<>>
        <5>1. a.blocks = f.blocks \o [j \in 1 .. 1 |-> <<>>]
          BY SoundSize DEF a, Fresh, Sound, IR
        <5>2. f.blocks \in Seq(Seq(Ins)) /\ Len(f.blocks) = n
          BY SoundSize DEF NBlocks
        <5> QED BY <1>1, <5>1, <5>2
      <4>3. A = Rch(a, V)
        BY <2>1, <3>1
      <4> HIDE DEF x, c, A
      <4>4. Rch(a, With(V, c, x)) = IF c \in Rch(a, V) THEN Rch(a, V) \cup {x} ELSE Rch(a, V)
        BY <1>2, <4>1, <4>2, WayAdded
      <4> QED BY <4>3, <4>4 DEF x, c
    <3>4. Rch(g, With(V, t.cur, n + 1)) = IF f.cur \in A THEN A \cup {n + 1} ELSE A
      BY <1>2, <1>6, <3>2, <3>3
    <3>5. t.cur = f.cur /\ \A b \in 1 .. n : b # n + 1
      BY <1>1, <1>2, <3>2
    <3> DEFINE B == Rch(g, With(V, t.cur, n + 1))
    <3> HIDE DEF A, B
    <3>6. /\ \A b \in 1 .. n : b \in B <=> b \in A
          /\ t.cur \in B <=> f.cur \in A
          /\ n + 1 \in B <=> f.cur \in A
      BY <1>1, <2>2, <3>4, <3>5 DEF B
    <3> QED BY <2>4, <3>6 DEF A, B
  <2> QED BY <2>3, <2>4
<1> QED BY <1>5, <1>6, <1>7, <1>8, <1>9 DEF ArmReady


-----------------------------------------------------------------------------
(* Which statement control comes from                                      *)
(*                                                                         *)
(* E are a graph's edges, and K[b] holds the last statement of block b, or *)
(* nothing if there is none in it: then control comes through.             *)

Active(K, s, C, b)  == IF K[b] = {} THEN b \in C ELSE s \in K[b]
Follows(E, K, s, C) == \A b \in DOMAIN E : Active(K, s, C, b) => E[b] \subseteq C
\* The statements that control can come from at the start of a block, and at
\* the end of it.
Arrive(E, K, b) == {s \in Nat : \A C \in SUBSET DOMAIN E : Follows(E, K, s, C) => b \in C}
Leave(E, K, b)  == IF K[b] = {} THEN Arrive(E, K, b) ELSE K[b]

\* The blocks at which control comes from s.
From(E, K, s) == {b \in DOMAIN E : s \in Arrive(E, K, b)}

LEMMA FromFollows ==
  ASSUME NEW n, NEW E \in [1 .. n -> SUBSET (1 .. n)], NEW K, NEW s \in Nat
  PROVE  /\ Follows(E, K, s, From(E, K, s)) /\ From(E, K, s) \in SUBSET (1 .. n)
         /\ \A C \in SUBSET (1 .. n) : Follows(E, K, s, C) => From(E, K, s) \subseteq C
<1>1. DOMAIN E = 1 .. n
  OBVIOUS
<1>2. \A b \in 1 .. n : b \in From(E, K, s) <=>
        \A C \in SUBSET (1 .. n) : Follows(E, K, s, C) => b \in C
  BY <1>1 DEF From, Arrive
<1>3. From(E, K, s) \in SUBSET (1 .. n)
  BY <1>1 DEF From
<1>4. ASSUME NEW b \in 1 .. n, Active(K, s, From(E, K, s), b), NEW t \in E[b]
      PROVE  t \in From(E, K, s)
  <2>1. t \in 1 .. n
    OBVIOUS
  <2>2. ASSUME NEW C \in SUBSET (1 .. n), Follows(E, K, s, C) PROVE t \in C
    <3>1. Active(K, s, C, b)
      BY <1>2, <1>4, <2>2 DEF Active
    <3> QED BY <1>1, <2>2, <3>1 DEF Follows
  <2> QED BY <1>2, <2>1, <2>2
<1>5. Follows(E, K, s, From(E, K, s))
  BY <1>1, <1>4 DEF Follows
<1> QED BY <1>2, <1>3, <1>5

LEMMA LeaveActive ==
  ASSUME NEW n, NEW E \in [1 .. n -> SUBSET (1 .. n)], NEW K \in [1 .. n -> SUBSET Nat],
         NEW c \in 1 .. n, NEW s \in Nat
  PROVE  /\ s \in Leave(E, K, c) <=> Active(K, s, From(E, K, s), c)
         /\ s \in Leave(E, K, c) =>
              \A C \in SUBSET (1 .. n) : Follows(E, K, s, C) => Active(K, s, C, c) /\ E[c] \subseteq C
<1>1. DOMAIN E = 1 .. n
  OBVIOUS
<1>2. s \in Leave(E, K, c) <=> Active(K, s, From(E, K, s), c)
  BY <1>1 DEF Leave, Active, From
<1>3. ASSUME s \in Leave(E, K, c), NEW C \in SUBSET (1 .. n), Follows(E, K, s, C)
      PROVE  Active(K, s, C, c)
  BY <1>1, <1>3 DEF Leave, Active, Arrive
<1> QED BY <1>1, <1>2, <1>3 DEF Follows

LEMMA ArriveIs ==
  ASSUME NEW n, NEW E \in [1 .. n -> SUBSET (1 .. n)], NEW K, NEW b
  PROVE  /\ Arrive(E, K, b) \subseteq Nat
         /\ \A s \in Nat : s \in Arrive(E, K, b) <=>
              \A C \in SUBSET (1 .. n) : Follows(E, K, s, C) => b \in C
         /\ b \in 1 .. n => \A s \in Nat : s \in Arrive(E, K, b) <=> b \in From(E, K, s)
<1>1. DOMAIN E = 1 .. n
  OBVIOUS
<1> QED BY <1>1 DEF Arrive, From

\* A block that led nowhere gets edges, to blocks that have a statement or lead
\* nowhere.
EdgesAdded(n, E, F, K, c) ==
  /\ E \in [1 .. n -> SUBSET (1 .. n)] /\ F \in [1 .. n -> SUBSET (1 .. n)]
  /\ K \in [1 .. n -> SUBSET Nat] /\ c \in 1 .. n /\ E[c] = {}
  /\ \A b \in 1 .. n : b # c => F[b] = E[b]
  /\ \A t \in F[c] : t # c /\ (K[t] # {} \/ E[t] = {})

LEMMA EdgesArrive ==
  ASSUME NEW n, NEW E, NEW F, NEW K, NEW c, EdgesAdded(n, E, F, K, c)
  PROVE  \A b \in 1 .. n :
           Arrive(F, K, b) = Arrive(E, K, b) \cup (IF b \in F[c] THEN Leave(E, K, c) ELSE {})
<1> USE DEF EdgesAdded
<1> SUFFICES ASSUME NEW b \in 1 .. n, NEW s \in Nat
             PROVE  s \in Arrive(F, K, b) <=>
                      s \in Arrive(E, K, b) \/ (b \in F[c] /\ s \in Leave(E, K, c))
  <2>1. Leave(E, K, c) \subseteq Nat /\ \A b : Arrive(F, K, b) \subseteq Nat /\ Arrive(E, K, b) \subseteq Nat
    BY ArriveIs DEF Leave
  <2> QED BY <2>1
<1> DEFINE M == From(E, K, s)
           T == F[c]
<1>1. DOMAIN E = 1 .. n /\ DOMAIN F = 1 .. n /\ T \in SUBSET (1 .. n)
  OBVIOUS
<1>2. ASSUME NEW C \in SUBSET (1 .. n), Follows(F, K, s, C) PROVE Follows(E, K, s, C)
  BY <1>1, <1>2 DEF Follows
<1>3. ASSUME s \in Arrive(E, K, b) PROVE s \in Arrive(F, K, b)
  BY <1>2, <1>3, ArriveIs
<1>4. ASSUME b \in T, s \in Leave(E, K, c) PROVE s \in Arrive(F, K, b)
  <2>1. ASSUME NEW C \in SUBSET (1 .. n), Follows(F, K, s, C) PROVE b \in C
    <3>1. Active(K, s, C, c)
      BY <1>2, <1>4, <2>1, LeaveActive
    <3> QED BY <1>1, <1>4, <2>1, <3>1 DEF Follows
  <2> QED BY <2>1, ArriveIs
<1>5. ASSUME s \in Arrive(F, K, b), ~(b \in T /\ s \in Leave(E, K, c)),
             NEW C \in SUBSET (1 .. n), Follows(E, K, s, C)
      PROVE  b \in C
  <2>1. CASE s \in Leave(E, K, c)
    <3> DEFINE D == C \cup T
    <3>1. ASSUME NEW x \in 1 .. n, Active(K, s, D, x) PROVE F[x] \subseteq D
      <4>1. CASE x = c
        BY <4>1
      <4>2. CASE x # c /\ Active(K, s, C, x)
        BY <1>1, <1>5, <4>2 DEF Follows
      <4>3. CASE x # c /\ ~Active(K, s, C, x)
        <5>1. x \in T /\ K[x] = {}
          BY <3>1, <4>3 DEF Active
        <5> QED BY <4>3, <5>1
      <4> QED BY <4>1, <4>2, <4>3
    <3>2. Follows(F, K, s, D) /\ D \in SUBSET (1 .. n)
      BY <1>1, <3>1 DEF Follows
    <3>3. b \in D
      BY <1>5, <3>2, ArriveIs
    <3> QED BY <1>5, <2>1, <3>3
  <2>2. CASE s \notin Leave(E, K, c)
    <3>1. Follows(E, K, s, M) /\ M \in SUBSET (1 .. n) /\ M \subseteq C
      BY <1>5, FromFollows
    <3>2. ~Active(K, s, M, c)
      BY <2>2, LeaveActive
    <3> HIDE DEF M, T
    <3>3. Follows(F, K, s, M)
      BY <1>1, <3>1, <3>2 DEF Follows
    <3> QED BY <1>5, <3>1, <3>3, ArriveIs
  <2> QED BY <2>1, <2>2
<1>6. ASSUME s \in Arrive(F, K, b), ~(b \in T /\ s \in Leave(E, K, c))
      PROVE  s \in Arrive(E, K, b)
  BY <1>5, <1>6, ArriveIs
<1> QED BY <1>3, <1>4, <1>6

\* A block that leads nowhere gets a statement.
CodeAdded(n, E, K, L, c) ==
  /\ E \in [1 .. n -> SUBSET (1 .. n)] /\ c \in 1 .. n /\ E[c] = {}
  /\ \A b \in 1 .. n : b # c => L[b] = K[b]

LEMMA CodeArrives ==
  ASSUME NEW n, NEW E, NEW K, NEW L, NEW c, CodeAdded(n, E, K, L, c)
  PROVE  \A b : Arrive(E, L, b) = Arrive(E, K, b)
<1> USE DEF CodeAdded
<1>1. DOMAIN E = 1 .. n
  OBVIOUS
<1>2. ASSUME NEW s, NEW C PROVE Follows(E, L, s, C) <=> Follows(E, K, s, C)
  BY <1>1 DEF Follows, Active
<1> QED BY <1>2 DEF Arrive

\* There are more blocks, which lead nowhere.
BlocksAdded(n, E, K, m, F, L) ==
  /\ E \in [1 .. n -> SUBSET (1 .. n)] /\ F \in [1 .. m -> SUBSET (1 .. m)]
  /\ 1 .. n \subseteq 1 .. m
  /\ \A b \in 1 .. n : F[b] = E[b] /\ L[b] = K[b]
  /\ \A b \in 1 .. m : b \notin 1 .. n => F[b] = {}

LEMMA FreshArrives ==
  ASSUME NEW n, NEW E, NEW K, NEW m, NEW F, NEW L, BlocksAdded(n, E, K, m, F, L)
  PROVE  \A b \in 1 .. m : Arrive(F, L, b) = IF b \in 1 .. n THEN Arrive(E, K, b) ELSE {}
<1> USE DEF BlocksAdded
<1>1. DOMAIN E = 1 .. n /\ DOMAIN F = 1 .. m
  OBVIOUS
<1>2. ASSUME NEW s \in Nat, NEW C \in SUBSET (1 .. n), Follows(E, K, s, C) PROVE Follows(F, L, s, C)
  BY <1>1, <1>2 DEF Follows, Active
<1>3. ASSUME NEW s \in Nat, NEW C \in SUBSET (1 .. m), Follows(F, L, s, C)
      PROVE  Follows(E, K, s, C \cap (1 .. n))
  BY <1>1, <1>3 DEF Follows, Active
<1>4. ASSUME NEW b \in 1 .. m, NEW s \in Nat
      PROVE  s \in Arrive(F, L, b) <=> b \in 1 .. n /\ s \in Arrive(E, K, b)
  <2>1. ASSUME s \in Arrive(F, L, b), NEW C \in SUBSET (1 .. n), Follows(E, K, s, C) PROVE b \in C
    <3>1. Follows(F, L, s, C) /\ C \in SUBSET (1 .. m)
      BY <1>2, <2>1
    <3> QED BY <2>1, <3>1, ArriveIs
  <2>2. ASSUME b \in 1 .. n, s \in Arrive(E, K, b), NEW C \in SUBSET (1 .. m), Follows(F, L, s, C)
        PROVE  b \in C
    <3>1. Follows(E, K, s, C \cap (1 .. n)) /\ C \cap (1 .. n) \in SUBSET (1 .. n)
      BY <1>3, <2>2
    <3> QED BY <2>2, <3>1, ArriveIs
  <2>3. ASSUME s \in Arrive(F, L, b) PROVE b \in 1 .. n
    <3>1. Follows(E, K, s, From(E, K, s)) /\ From(E, K, s) \in SUBSET (1 .. n)
      BY FromFollows
    <3> QED BY <2>1, <2>3, <3>1
  <2> QED BY <2>1, <2>2, <2>3, ArriveIs
<1>5. ASSUME NEW b PROVE Arrive(F, L, b) \subseteq Nat /\ Arrive(E, K, b) \subseteq Nat
  BY ArriveIs
<1> QED BY <1>4, <1>5

\* A test is put where the wildcard may be waiting to be entered: control goes
\* to an arm and to a new block, and what waited now waits there.
TestAdded(n, E, F, K, c, body, next) ==
  /\ E \in [1 .. n -> SUBSET (1 .. n)] /\ F \in [1 .. n -> SUBSET (1 .. n)]
  /\ K \in [1 .. n -> SUBSET Nat] /\ {c, body, next} \subseteq 1 .. n
  /\ c # body /\ c # next /\ body # next
  /\ E[body] = {} /\ E[next] = {} /\ K[body] = {} /\ K[next] = {}
  /\ \A b \in 1 .. n : next \notin E[b]
  /\ F[c] = {body, next} /\ F[next] = E[c] /\ \A b \in 1 .. n : b \notin {c, next} => F[b] = E[b]

LEMMA TestArrives ==
  ASSUME NEW n, NEW E, NEW F, NEW K, NEW c, NEW body, NEW next, TestAdded(n, E, F, K, c, body, next)
  PROVE  /\ \A b \in 1 .. n : b \notin {body, next} => Arrive(F, K, b) = Arrive(E, K, b)
         /\ Arrive(F, K, body) = Arrive(E, K, body) \cup Leave(E, K, c)
         /\ Arrive(F, K, next) = Leave(E, K, c)
<1> USE DEF TestAdded
<1>1. DOMAIN E = 1 .. n /\ DOMAIN F = 1 .. n
  OBVIOUS
<1>2. Leave(E, K, c) \subseteq Nat /\ \A b : Arrive(E, K, b) \subseteq Nat /\ Arrive(F, K, b) \subseteq Nat
  BY ArriveIs DEF Leave
<1>3. ASSUME NEW s \in Nat
      PROVE  /\ \A b \in 1 .. n : b \notin {body, next} => (s \in Arrive(F, K, b) <=> s \in Arrive(E, K, b))
             /\ s \in Arrive(F, K, body) <=> s \in Arrive(E, K, body) \/ s \in Leave(E, K, c)
             /\ s \in Arrive(F, K, next) <=> s \in Leave(E, K, c)
  <2> DEFINE M == From(E, K, s)
  <2>1. ASSUME NEW C \in SUBSET (1 .. n), Follows(F, K, s, C)
        PROVE  Follows(E, K, s, C) /\ (Active(K, s, C, c) => body \in C /\ next \in C)
    <3>1. ASSUME Active(K, s, C, c) PROVE E[c] \subseteq C /\ body \in C /\ next \in C
      <4>1. body \in C /\ next \in C
        BY <1>1, <2>1, <3>1 DEF Follows
      <4>2. Active(K, s, C, next)
        BY <4>1 DEF Active
      <4> QED BY <1>1, <2>1, <4>1, <4>2 DEF Follows
    <3>2. ASSUME NEW x \in 1 .. n, Active(K, s, C, x) PROVE E[x] \subseteq C
      <4>1. CASE x \notin {c, next}
        BY <1>1, <2>1, <3>2, <4>1 DEF Follows
      <4> QED BY <3>1, <3>2, <4>1
    <3> QED BY <1>1, <3>1, <3>2 DEF Follows
  <2>2. ASSUME s \in Leave(E, K, c)
        PROVE  s \in Arrive(F, K, body) /\ s \in Arrive(F, K, next)
    <3>1. ASSUME NEW C \in SUBSET (1 .. n), Follows(F, K, s, C) PROVE body \in C /\ next \in C
      BY <2>1, <2>2, <3>1, LeaveActive
    <3> QED BY <3>1, ArriveIs
  <2>3. ASSUME NEW b \in 1 .. n, s \in Arrive(E, K, b) PROVE s \in Arrive(F, K, b)
    BY <2>1, <2>3, ArriveIs
  <2>4. ASSUME s \in Leave(E, K, c), NEW C \in SUBSET (1 .. n), Follows(E, K, s, C)
        PROVE  Follows(F, K, s, C \cup {body, next})
    <3> DEFINE D == C \cup {body, next}
    <3>1. E[c] \subseteq C
      BY <2>4, LeaveActive
    <3>2. ASSUME NEW x \in 1 .. n, Active(K, s, D, x) PROVE F[x] \subseteq D
      <4>1. CASE x \in {c, next}
        BY <3>1, <4>1
      <4>2. CASE x = body
        BY <4>2
      <4>3. CASE x \notin {c, next, body}
        <5>1. Active(K, s, C, x)
          BY <3>2, <4>3 DEF Active
        <5> QED BY <1>1, <2>4, <4>3, <5>1 DEF Follows
      <4> QED BY <4>1, <4>2, <4>3
    <3> QED BY <1>1, <3>2 DEF Follows
  <2>5. ASSUME s \notin Leave(E, K, c)
        PROVE  Follows(F, K, s, M \ {next})
    <3>1. Follows(E, K, s, M) /\ M \in SUBSET (1 .. n)
      BY FromFollows
    <3>2. ~Active(K, s, M, c)
      BY <2>5, LeaveActive
    <3> HIDE DEF M
    <3>3. ASSUME NEW x \in 1 .. n, Active(K, s, M \ {next}, x) PROVE F[x] \subseteq M \ {next}
      <4>1. x \notin {c, next} /\ Active(K, s, M, x)
        BY <3>2, <3>3 DEF Active
      <4> QED BY <1>1, <3>1, <4>1 DEF Follows
    <3> QED BY <1>1, <3>3 DEF Follows
  <2>6. ASSUME NEW b \in 1 .. n, s \in Arrive(F, K, b), s \notin Leave(E, K, c)
        PROVE  b # next /\ s \in Arrive(E, K, b)
    <3>1. M \ {next} \in SUBSET (1 .. n)
      BY FromFollows
    <3>2. b \in M \ {next}
      BY <2>5, <2>6, <3>1, ArriveIs
    <3> QED BY <3>2, ArriveIs
  <2>7. ASSUME NEW b \in 1 .. n, s \in Arrive(F, K, b), s \in Leave(E, K, c), b \notin {body, next}
        PROVE  s \in Arrive(E, K, b)
    <3>1. ASSUME NEW C \in SUBSET (1 .. n), Follows(E, K, s, C) PROVE b \in C
      <4>1. Follows(F, K, s, C \cup {body, next}) /\ C \cup {body, next} \in SUBSET (1 .. n)
        BY <2>4, <2>7, <3>1
      <4>2. b \in C \cup {body, next}
        BY <2>7, <4>1, ArriveIs
      <4> QED BY <2>7, <4>2
    <3> QED BY <3>1, ArriveIs
  <2> QED BY <2>2, <2>3, <2>6, <2>7
<1> QED BY <1>2, <1>3

-----------------------------------------------------------------------------
(* What the blocks say                                                     *)
(*                                                                         *)
(* A block's last statement and its first, or none.                        *)

LastOf(is)  == IF Codes(is) = {} THEN {} ELSE {LastCode(is)}
FirstOf(is) == IF Codes(is) = {} THEN {} ELSE {FirstCode(is)}

LEMMA CodesEnds ==
  ASSUME NEW is \in Seq(Ins), Codes(is) # {}
  PROVE  /\ \E j \in Codes(is) : \A k \in Codes(is) : j <= k
         /\ \E j \in Codes(is) : \A k \in Codes(is) : k <= j
<1> DEFINE T == Codes(is)
           n == Len(is)
           U == {n - k : k \in T}
<1>1. T \in SUBSET (1 .. n) /\ n \in Nat
  BY DEF Codes
<1> HIDE DEF T, n
<1>2. U \in SUBSET Nat /\ U # {} /\ T \in SUBSET Nat /\ T # {}
  BY <1>1 DEF T
<1>3. \E j \in T : \A k \in T : j <= k
  BY <1>2, LeastOf
<1>4. \E u \in U : \A v \in U : u <= v
  <2> HIDE DEF U
  <2> QED BY <1>2, LeastOf
<1>5. PICK j \in T : \A k \in T : n - j <= n - k
  BY <1>4
<1>6. \A k \in T : k <= j
  BY <1>1, <1>5
<1> QED BY <1>3, <1>6 DEF T

LEMMA EndsIn ==
  ASSUME NEW is \in Seq(Ins)
  PROVE  LastOf(is) \in SUBSET Nat /\ FirstOf(is) \in SUBSET Nat
<1>1. \A j \in Codes(is) : is[j].of \in Nat
  <2>1. \A j \in Codes(is) : is[j] \in Ins
    BY DEF Codes
  <2> QED BY <2>1 DEF Ins
<1>2. Codes(is) # {} => LastCode(is) \in Nat /\ FirstCode(is) \in Nat
  BY <1>1, CodesEnds DEF LastCode, FirstCode
<1> QED BY <1>2 DEF LastOf, FirstOf

LEMMA InTurnIs ==
  ASSUME NEW is, NEW x
  PROVE  x \in InTurn(is) <=>
           \E p \in Codes(is), q \in Codes(is) :
             x = <<is[p].of, is[q].of>> /\ p < q /\ \A i \in Codes(is) : i <= p \/ q <= i
<1> DEFINE T == Codes(is)
           S == {r \in T \X T : r[1] < r[2] /\ \A i \in T : i <= r[1] \/ r[2] <= i}
<1>1. x \in InTurn(is) <=> \E r \in S : x = <<is[r[1]].of, is[r[2]].of>>
  BY DEF InTurn
<1>2. ASSUME NEW p \in T, NEW q \in T, p < q, \A i \in T : i <= p \/ q <= i PROVE <<p, q>> \in S
  BY <1>2
<1>3. ASSUME NEW r \in S
      PROVE  r[1] \in T /\ r[2] \in T /\ r[1] < r[2] /\ \A i \in T : i <= r[1] \/ r[2] <= i
  OBVIOUS
<1> HIDE DEF S
<1>4. ASSUME NEW p \in T, NEW q \in T, p < q, \A i \in T : i <= p \/ q <= i,
             x = <<is[p].of, is[q].of>>
      PROVE  x \in InTurn(is)
  <2>1. <<p, q>> \in S /\ <<p, q>>[1] = p /\ <<p, q>>[2] = q
    BY <1>2, <1>4
  <2> QED BY <1>1, <1>4, <2>1
<1> QED BY <1>1, <1>3, <1>4

\* A terminator says nothing.
LEMMA EndSaid ==
  ASSUME NEW is \in Seq(Ins), NEW in \in Ins, in.op # "code", NEW js, js = Append(is, in)
  PROVE  /\ Codes(js) = Codes(is) /\ LastOf(js) = LastOf(is) /\ FirstOf(js) = FirstOf(is)
         /\ InTurn(js) = InTurn(is)
<1>1. /\ DOMAIN js = 1 .. Len(is) + 1 /\ js[Len(is) + 1] = in /\ DOMAIN is = 1 .. Len(is)
      /\ \A j \in 1 .. Len(is) : js[j] = is[j]
      /\ Len(is) \in Nat
  OBVIOUS
<1>2. Codes(js) = Codes(is) /\ \A j \in Codes(is) : js[j] = is[j]
  BY <1>1 DEF Codes
<1>3. Codes(is) # {} => LastCode(js) = LastCode(is) /\ FirstCode(js) = FirstCode(is)
  <2>1. ASSUME Codes(is) # {}
        PROVE  LastCode(js) = LastCode(is) /\ FirstCode(js) = FirstCode(is)
    <3> DEFINE T == Codes(is)
               a == CHOOSE j \in T : \A k \in T : j <= k
               z == CHOOSE j \in T : \A k \in T : k <= j
    <3>1. a \in T /\ z \in T
      BY <2>1, CodesEnds
    <3>2. LastCode(js) = js[z].of /\ LastCode(is) = is[z].of
          /\ FirstCode(js) = js[a].of /\ FirstCode(is) = is[a].of
      BY <1>2 DEF LastCode, FirstCode
    <3> QED BY <1>2, <3>1, <3>2
  <2> QED BY <2>1
<1>4. InTurn(js) = InTurn(is)
  BY <1>2 DEF InTurn
<1> QED BY <1>2, <1>3, <1>4 DEF LastOf, FirstOf

\* A statement comes after the last one.
LEMMA CodeSaid ==
  ASSUME NEW is \in Seq(Ins), NEW in \in Ins, in.op = "code", NEW js, js = Append(is, in)
  PROVE  /\ Codes(js) # {} /\ LastOf(js) = {in.of}
         /\ FirstOf(js) = IF Codes(is) = {} THEN {in.of} ELSE FirstOf(is)
         /\ InTurn(js) = InTurn(is) \cup (LastOf(is) \X {in.of})
<1> DEFINE n == Len(is)
           m == n + 1
           T == Codes(is)
           U == Codes(js)
<1>1. /\ DOMAIN js = 1 .. m /\ js[m] = in /\ DOMAIN is = 1 .. n
      /\ \A j \in 1 .. n : js[j] = is[j]
      /\ n \in Nat
  OBVIOUS
<1>2. T \in SUBSET (1 .. n) /\ U = T \cup {m} /\ (\A j \in T : js[j] = is[j])
  BY <1>1 DEF Codes
<1>3. m \notin T /\ (\A j \in T : j <= m /\ ~(m <= j)) /\ m <= m /\ T \in SUBSET Nat /\ m \in Nat
  BY <1>1, <1>2
<1> HIDE DEF n, m, T, U
<1>4. LastOf(js) = {in.of} /\ U # {}
  <2>1. \A j \in U : (\A k \in U : k <= j) => j = m
    BY <1>2, <1>3
  <2>2. m \in U /\ \A k \in U : k <= m
    BY <1>2, <1>3
  <2>3. (CHOOSE j \in U : \A k \in U : k <= j) = m
    BY <2>1, <2>2
  <2> QED BY <1>1, <2>2, <2>3 DEF LastOf, LastCode, U
<1>5. FirstOf(js) = IF T = {} THEN {in.of} ELSE FirstOf(is)
  <2>1. CASE T = {}
    <3>1. U = {m}
      BY <1>2, <2>1
    <3>2. (CHOOSE j \in U : \A k \in U : j <= k) = m
      BY <1>3, <3>1
    <3> QED BY <1>1, <1>4, <2>1, <3>2 DEF FirstOf, FirstCode, U
  <2>2. CASE T # {}
    <3> DEFINE a == CHOOSE j \in T : \A k \in T : j <= k
               z == CHOOSE j \in U : \A k \in U : j <= k
    <3>1. a \in T /\ \A k \in T : a <= k
      BY <2>2, CodesEnds DEF T
    <3> HIDE DEF a
    <3>2. a \in U /\ \A k \in U : a <= k
      BY <1>2, <1>3, <3>1
    <3>3. z \in U /\ \A k \in U : z <= k
      BY <3>2
    <3> HIDE DEF z
    <3>4. a = z
      BY <1>2, <1>3, <3>1, <3>2, <3>3
    <3>5. FirstCode(js) = js[z].of /\ FirstCode(is) = is[a].of
      BY DEF FirstCode, a, z, T, U
    <3> QED BY <1>2, <1>4, <2>2, <3>1, <3>4, <3>5 DEF FirstOf, T, U
  <2> QED BY <2>1, <2>2
<1>6. InTurn(js) = InTurn(is) \cup (LastOf(is) \X {in.of})
  <2>1. \A p \in U, q \in U :
          (p < q /\ \A i \in U : i <= p \/ q <= i) <=>
            \/ p \in T /\ q \in T /\ p < q /\ \A i \in T : i <= p \/ q <= i
            \/ p \in T /\ q = m /\ \A i \in T : i <= p
    BY <1>2, <1>3
  <2>2. \A x : x \in InTurn(js) <=>
          \E p \in U, q \in U : x = <<js[p].of, js[q].of>> /\ p < q /\ \A i \in U : i <= p \/ q <= i
    BY InTurnIs DEF U
  <2>3. \A x : x \in InTurn(is) <=>
          \E p \in T, q \in T : x = <<is[p].of, is[q].of>> /\ p < q /\ \A i \in T : i <= p \/ q <= i
    BY InTurnIs DEF T
  <2>4. \A x : x \in LastOf(is) \X {in.of} <=>
          \E p \in T : x = <<is[p].of, in.of>> /\ \A i \in T : i <= p
    <3>1. CASE T = {}
      BY <3>1 DEF LastOf, T
    <3>2. CASE T # {}
      <4> DEFINE z == CHOOSE j \in T : \A k \in T : k <= j
      <4>1. z \in T /\ \A k \in T : k <= z
        BY <3>2, CodesEnds DEF T
      <4>2. LastOf(is) = {is[z].of}
        BY <3>2 DEF LastOf, LastCode, T
      <4> HIDE DEF z
      <4>3. \A p \in T : (\A i \in T : i <= p) => p = z
        BY <1>3, <4>1
      <4> QED BY <4>1, <4>2, <4>3
    <3> QED BY <3>1, <3>2
  <2>5. ASSUME NEW x PROVE x \in InTurn(js) <=> x \in InTurn(is) \/ x \in LastOf(is) \X {in.of}
    <3>1. ASSUME x \in InTurn(js) PROVE x \in InTurn(is) \/ x \in LastOf(is) \X {in.of}
      <4>1. PICK p \in U, q \in U :
              x = <<js[p].of, js[q].of>> /\ p < q /\ \A i \in U : i <= p \/ q <= i
        BY <2>2, <3>1
      <4>2. CASE p \in T /\ q \in T /\ p < q /\ \A i \in T : i <= p \/ q <= i
        BY <1>2, <2>3, <4>1, <4>2
      <4>3. CASE p \in T /\ q = m /\ \A i \in T : i <= p
        BY <1>1, <1>2, <2>4, <4>1, <4>3
      <4> QED BY <2>1, <4>1, <4>2, <4>3
    <3>2. ASSUME x \in InTurn(is) PROVE x \in InTurn(js)
      <4>1. PICK p \in T, q \in T :
              x = <<is[p].of, is[q].of>> /\ p < q /\ \A i \in T : i <= p \/ q <= i
        BY <2>3, <3>2
      <4>2. p \in U /\ q \in U /\ p < q /\ \A i \in U : i <= p \/ q <= i
        BY <1>2, <2>1, <4>1
      <4> QED BY <1>2, <2>2, <4>1, <4>2
    <3>3. ASSUME x \in LastOf(is) \X {in.of} PROVE x \in InTurn(js)
      <4>1. PICK p \in T : x = <<is[p].of, in.of>> /\ \A i \in T : i <= p
        BY <2>4, <3>3
      <4>2. p \in U /\ m \in U /\ p < m /\ \A i \in U : i <= p \/ m <= i
        BY <1>2, <2>1, <4>1
      <4> QED BY <1>1, <1>2, <2>2, <4>1, <4>2
    <3> QED BY <3>1, <3>2, <3>3
  <2> QED BY <2>5
<1> QED BY <1>4, <1>5, <1>6 DEF T, U

-----------------------------------------------------------------------------
(* What comes before a block, and past it                                  *)

Said(f)         == [b \in 1 .. NBlocks(f) |-> LastOf(f.blocks[b])]
Before(f, V, b) == Arrive(Succ(f, V), Said(f), b)
Past(f, V, b)   == Leave(Succ(f, V), Said(f), b)
\* The graph of the statements.
EdgesOf(f, V) ==
  UNION {InTurn(f.blocks[b]) \cup (Before(f, V, b) \X FirstOf(f.blocks[b])) : b \in 1 .. NBlocks(f)}

\* The blocks of f are in g as they were, but for c, if it had not ended.
Kept(f, g, c) ==
  /\ NBlocks(f) <= NBlocks(g)
  /\ \A b \in 1 .. NBlocks(f) : b # c \/ Ended(f.blocks[b]) => g.blocks[b] = f.blocks[b]

LEMMA KeptKept ==
  ASSUME NEW f, NEW g, NEW h, NEW c, NEW d, NBlocks(f) \in Nat, NBlocks(g) \in Nat, NBlocks(h) \in Nat,
         Kept(f, g, c), Kept(g, h, d), d = c \/ d \notin 1 .. NBlocks(f)
  PROVE  Kept(f, h, c)
<1>1. \A b \in 1 .. NBlocks(f) : b \in 1 .. NBlocks(g)
  BY DEF Kept
<1> QED BY <1>1 DEF Kept

LEMMA SaidIs ==
  ASSUME NEW f, NEW P, Sound(f, P)
  PROVE  /\ Said(f) \in [1 .. NBlocks(f) -> SUBSET Nat]
         /\ \A b \in 1 .. NBlocks(f) : f.blocks[b] \in Seq(Ins)
<1>1. \A b \in 1 .. NBlocks(f) : f.blocks[b] \in Seq(Ins)
  BY DEF Sound, IR, NBlocks
<1> QED BY <1>1, EndsIn DEF Said

LEMMA PastIs ==
  ASSUME NEW f, NEW V, NEW b \in 1 .. NBlocks(f)
  PROVE  Past(f, V, b) = IF Codes(f.blocks[b]) = {} THEN Before(f, V, b) ELSE LastOf(f.blocks[b])
BY DEF Past, Leave, Before, Said, LastOf

LEMMA BeforeIn ==
  ASSUME NEW f, NEW P, Sound(f, P), NEW V, NEW b
  PROVE  /\ Before(f, V, b) \in SUBSET Nat
         /\ b \in 1 .. NBlocks(f) => Past(f, V, b) \in SUBSET Nat
<1>1. Before(f, V, b) \in SUBSET Nat
  BY DEF Before, Arrive
<1> QED BY <1>1, PastIs, SaidIs, EndsIn

LEMMA EdgesAre ==
  ASSUME NEW f, NEW V, NEW x
  PROVE  x \in EdgesOf(f, V) <=>
           \E b \in 1 .. NBlocks(f) : x \in InTurn(f.blocks[b]) \/ x \in Before(f, V, b) \X FirstOf(f.blocks[b])
BY DEF EdgesOf

\* The same blocks, with the same ways out.
LEMMA SameFlow ==
  ASSUME NEW f, NEW V, NEW g, NEW W, g.blocks = f.blocks, \A b \in 1 .. NBlocks(f) : OutOf(W, b) = OutOf(V, b)
  PROVE  /\ NBlocks(g) = NBlocks(f) /\ EdgesOf(g, W) = EdgesOf(f, V)
         /\ \A b : Before(g, W, b) = Before(f, V, b) /\ Past(g, W, b) = Past(f, V, b)
<1>1. NBlocks(g) = NBlocks(f)
  BY DEF NBlocks
<1>2. Succ(g, W) = Succ(f, V) /\ Said(g) = Said(f)
  BY <1>1 DEF Succ, Said
<1>3. \A b : Before(g, W, b) = Before(f, V, b) /\ Past(g, W, b) = Past(f, V, b)
  BY <1>2 DEF Before, Past
<1> QED BY <1>1, <1>3 DEF EdgesOf

LEMMA OpenQuiet ==
  ASSUME NEW f, NEW P, Sound(f, P), NEW V, NEW b \in 1 .. NBlocks(f), ~Ended(f.blocks[b]), OutOf(V, b) = {}
  PROVE  Succ(f, V)[b] = {} /\ Targets(f.blocks[b]) = {}
<1>1. GoodBlock(f.blocks[b], NBlocks(f)) /\ f.blocks[b] \in Seq(Ins)
  BY SaidIs DEF Sound
<1>2. Instr(0) \in Ins /\ Instr(0).op = "code" /\ Instr(0).to = <<>>
  BY DEF Instr, Ins
<1>3. Targets(f.blocks[b]) = {}
  BY <1>1, <1>2, CodeAppended
<1> QED BY <1>3 DEF Succ

\* The code of statement s, in a block that leads nowhere yet.
Spoken(f, V, s, g) ==
  /\ \A b \in 1 .. NBlocks(f) : Before(g, V, b) = Before(f, V, b)
  /\ Past(g, V, g.cur) = {s}
  /\ EdgesOf(g, V) = EdgesOf(f, V) \cup (Past(f, V, f.cur) \X {s})
  /\ Codes(g.blocks[f.cur]) # {}
  /\ FirstOf(g.blocks[f.cur]) = IF Codes(f.blocks[f.cur]) = {} THEN {s} ELSE FirstOf(f.blocks[f.cur])
  /\ Kept(f, g, f.cur)

LEMMA CodeFlow ==
  ASSUME NEW f, NEW P, Sound(f, P), ~Terminated(f), NEW V \in Ways(NBlocks(f)), OutOf(V, f.cur) = {},
         NEW s \in Nat
  PROVE  Spoken(f, V, s, Put(f, Instr(s)))
<1> DEFINE n == NBlocks(f)
           c == f.cur
           in == Instr(s)
           g == Put(f, in)
           is == f.blocks[c]
           js == g.blocks[c]
<1>1. in \in Ins /\ in.op = "code" /\ in.to = <<>> /\ in.of = s
  BY DEF Instr, Ins
<1> HIDE DEF in
<1>2. f \in IR /\ c \in 1 .. n /\ is \in Seq(Ins) /\ n \in Nat
  BY SoundSize DEF Sound, IR, NBlocks
<1>3. /\ g \in IR /\ g.cur = c /\ NBlocks(g) = n /\ js = Append(is, in)
      /\ \A b \in 1 .. n : b # c => g.blocks[b] = f.blocks[b]
  BY <1>1, <1>2, PutIs
<1>4. ~Ended(is) /\ GoodBlock(is, n)
  BY TerminatedIs DEF Sound
<1> HIDE DEF g
<1>5. /\ Codes(js) # {} /\ LastOf(js) = {s}
      /\ FirstOf(js) = IF Codes(is) = {} THEN {s} ELSE FirstOf(is)
      /\ InTurn(js) = InTurn(is) \cup (LastOf(is) \X {s})
  <2> HIDE DEF is, js
  <2>1. js = Append(is, in)
    BY <1>3
  <2> QED BY <1>1, <1>2, <2>1, CodeSaid
<1>6. Targets(js) = {} /\ Targets(is) = {}
  <2> HIDE DEF is, js
  <2> QED BY <1>1, <1>2, <1>3, <1>4, CodeAppended
<1>7. Succ(g, V) = Succ(f, V)
  <2>1. \A b \in 1 .. n : Targets(g.blocks[b]) = Targets(f.blocks[b])
    BY <1>3, <1>6
  <2> QED BY <1>3, <2>1 DEF Succ
<1>8. \A b : Before(g, V, b) = Before(f, V, b)
  <2> DEFINE E == Succ(f, V)
             K == Said(f)
             L == Said(g)
  <2>1. E \in [1 .. n -> SUBSET (1 .. n)] /\ E[c] = {}
    BY <1>2, <1>4, SuccIs, OpenQuiet
  <2>2. \A b \in 1 .. n : b # c => L[b] = K[b]
    BY <1>3 DEF Said
  <2>3. \A b : Arrive(E, L, b) = Arrive(E, K, b)
    <3> HIDE DEF E, K, L, n, c
    <3>1. CodeAdded(n, E, K, L, c)
      BY <1>2, <2>1, <2>2 DEF CodeAdded
    <3> QED BY <3>1, CodeArrives
  <2> QED BY <1>7, <2>3 DEF Before
<1>9. Past(g, V, c) = {s}
  BY <1>2, <1>3, <1>5, PastIs
<1>10. Past(f, V, c) = IF Codes(is) = {} THEN Before(f, V, c) ELSE LastOf(is)
  BY <1>2, PastIs
<1>11. InTurn(js) \cup (Before(f, V, c) \X FirstOf(js))
         = (InTurn(is) \cup (Before(f, V, c) \X FirstOf(is))) \cup (Past(f, V, c) \X {s})
  <2> HIDE DEF is, js
  <2>1. CASE Codes(is) = {}
    <3>1. LastOf(is) = {} /\ FirstOf(is) = {} /\ FirstOf(js) = {s} /\ Past(f, V, c) = Before(f, V, c)
      BY <1>5, <1>10, <2>1 DEF LastOf, FirstOf
    <3> QED BY <1>5, <3>1
  <2>2. CASE Codes(is) # {}
    <3>1. FirstOf(js) = FirstOf(is) /\ Past(f, V, c) = LastOf(is)
      BY <1>5, <1>10, <2>2
    <3> QED BY <1>5, <3>1
  <2> QED BY <2>1, <2>2
<1>12. EdgesOf(g, V) = EdgesOf(f, V) \cup (Past(f, V, c) \X {s})
  <2> DEFINE A(b) == InTurn(f.blocks[b]) \cup (Before(f, V, b) \X FirstOf(f.blocks[b]))
             B(b) == InTurn(g.blocks[b]) \cup (Before(g, V, b) \X FirstOf(g.blocks[b]))
             X == Past(f, V, c) \X {s}
  <2>1. EdgesOf(f, V) = UNION {A(b) : b \in 1 .. n} /\ EdgesOf(g, V) = UNION {B(b) : b \in 1 .. n}
    BY <1>3 DEF EdgesOf
  <2>2. \A b \in 1 .. n : b # c => B(b) = A(b)
    BY <1>3, <1>8
  <2>3. B(c) = A(c) \cup X
    BY <1>8, <1>11
  <2> HIDE DEF A, B, X
  <2>4. UNION {B(b) : b \in 1 .. n} = (UNION {A(b) : b \in 1 .. n}) \cup X
    BY <1>2, <2>2, <2>3
  <2> QED BY <2>1, <2>4 DEF X
<1>13. Kept(f, g, c)
  BY <1>2, <1>3, <1>4 DEF Kept
<1> QED BY <1>3, <1>5, <1>8, <1>9, <1>12, <1>13 DEF Spoken, g, in

\* A terminator; control comes to its targets, unless they lead on already.
Landing(f, P, V, t) ==
  /\ t \in 1 .. NBlocks(f) /\ t # f.cur
  /\ Codes(f.blocks[t]) # {} \/ (t \in P /\ OutOf(V, t) = {})
Led(f, V, T, g) ==
  /\ \A b \in 1 .. NBlocks(f) :
       Before(g, V, b) = Before(f, V, b) \cup (IF b \in T THEN Past(f, V, f.cur) ELSE {})
  /\ EdgesOf(g, V) = EdgesOf(f, V) \cup UNION {Past(f, V, f.cur) \X FirstOf(f.blocks[t]) : t \in T}
  /\ Kept(f, g, f.cur) /\ NBlocks(g) = NBlocks(f)
  /\ \A b \in 1 .. NBlocks(f) : Codes(g.blocks[b]) = Codes(f.blocks[b])
                                /\ FirstOf(g.blocks[b]) = FirstOf(f.blocks[b])
                                /\ LastOf(g.blocks[b]) = LastOf(f.blocks[b])

LEMMA EndFlow ==
  ASSUME NEW f, NEW P, Sound(f, P), ~Terminated(f), NEW V \in Ways(NBlocks(f)), OutOf(V, f.cur) = {},
         NEW in \in Ins, in.op # "code", NEW T, T = {in.to[k] : k \in DOMAIN in.to},
         \A t \in T : Landing(f, P, V, t)
  PROVE  Led(f, V, T, Put(f, in))
<1> DEFINE n == NBlocks(f)
           c == f.cur
           g == Put(f, in)
           is == f.blocks[c]
           js == g.blocks[c]
           E == Succ(f, V)
           F == Succ(g, V)
           K == Said(f)
<1>1. f \in IR /\ c \in 1 .. n /\ is \in Seq(Ins) /\ n \in Nat
  BY SoundSize DEF Sound, IR, NBlocks
<1>2. /\ g \in IR /\ g.cur = c /\ NBlocks(g) = n /\ js = Append(is, in)
      /\ \A b \in 1 .. n : b # c => g.blocks[b] = f.blocks[b]
  BY <1>1, PutIs
<1>3. ~Ended(is)
  BY TerminatedIs
<1>4. T \in SUBSET (1 .. n)
  BY DEF Landing
<1> HIDE DEF g
<1>5. Codes(js) = Codes(is) /\ LastOf(js) = LastOf(is) /\ FirstOf(js) = FirstOf(is) /\ InTurn(js) = InTurn(is)
  BY <1>1, <1>2, EndSaid
<1>6. Targets(js) = T
  <2> HIDE DEF is, js
  <2>1. js # <<>> /\ js[Len(js)] = in
    BY <1>1, <1>2
  <2> QED BY <2>1 DEF Targets
<1>7. E \in [1 .. n -> SUBSET (1 .. n)] /\ E[c] = {}
  BY <1>1, <1>3, SuccIs, OpenQuiet
<1>8. F = [b \in 1 .. n |-> IF b = c THEN T ELSE E[b]]
  <2>1. \A b \in 1 .. n : Targets(g.blocks[b]) \cup OutOf(V, b) = IF b = c THEN T ELSE E[b]
    BY <1>2, <1>6 DEF Succ
  <2> QED BY <1>2, <2>1 DEF Succ
<1>9. Said(g) = K
  <2>1. \A b \in 1 .. n : LastOf(g.blocks[b]) = LastOf(f.blocks[b])
    BY <1>2, <1>5
  <2> QED BY <1>2, <2>1 DEF Said
<1>10. \A t \in T : t # c /\ (K[t] # {} \/ E[t] = {})
  <2> SUFFICES ASSUME NEW t \in T PROVE t # c /\ (K[t] # {} \/ E[t] = {})
    OBVIOUS
  <2>1. Landing(f, P, V, t)
    OBVIOUS
  <2>2. CASE Codes(f.blocks[t]) # {}
    BY <1>4, <2>1, <2>2 DEF Landing, Said, LastOf
  <2>3. CASE t \in P /\ OutOf(V, t) = {}
    <3>1. ~Ended(f.blocks[t]) /\ t \in 1 .. NBlocks(f)
      BY <1>4, <2>3 DEF Sound
    <3> QED BY <2>1, <2>3, <3>1, OpenQuiet DEF Landing
  <2> QED BY <2>1, <2>2, <2>3 DEF Landing
<1>11. K \in [1 .. n -> SUBSET Nat]
  BY SaidIs
<1>12. \A b \in 1 .. n : Arrive(F, K, b) = Arrive(E, K, b) \cup (IF b \in T THEN Leave(E, K, c) ELSE {})
  <2> HIDE DEF E, F, K, n, c
  <2>1. F \in [1 .. n -> SUBSET (1 .. n)] /\ F[c] = T /\ c \in 1 .. n /\ \A b \in 1 .. n : b # c => F[b] = E[b]
    BY <1>1, <1>4, <1>7, <1>8
  <2>2. EdgesAdded(n, E, F, K, c)
    BY <1>7, <1>10, <1>11, <2>1 DEF EdgesAdded
  <2>3. \A b \in 1 .. n : Arrive(F, K, b) = Arrive(E, K, b) \cup (IF b \in F[c] THEN Leave(E, K, c) ELSE {})
    BY <2>2, EdgesArrive
  <2> QED BY <2>1, <2>3
<1>13. \A b \in 1 .. n : Before(g, V, b) = Before(f, V, b) \cup (IF b \in T THEN Past(f, V, c) ELSE {})
  BY <1>9, <1>12 DEF Before, Past
<1>14. \A b \in 1 .. n : /\ Codes(g.blocks[b]) = Codes(f.blocks[b])
                         /\ LastOf(g.blocks[b]) = LastOf(f.blocks[b])
                         /\ FirstOf(g.blocks[b]) = FirstOf(f.blocks[b])
                         /\ InTurn(g.blocks[b]) = InTurn(f.blocks[b])
  BY <1>2, <1>5
<1>15. EdgesOf(g, V) = EdgesOf(f, V) \cup UNION {Past(f, V, c) \X FirstOf(f.blocks[t]) : t \in T}
  <2> DEFINE X == Past(f, V, c)
             A == [b \in 1 .. n |-> Before(f, V, b)]
             B == [b \in 1 .. n |-> Before(g, V, b)]
             H == [b \in 1 .. n |-> FirstOf(f.blocks[b])]
             I == [b \in 1 .. n |-> InTurn(f.blocks[b])]
  <2>1. /\ EdgesOf(f, V) = UNION {I[b] \cup (A[b] \X H[b]) : b \in 1 .. n}
        /\ EdgesOf(g, V) = UNION {I[b] \cup (B[b] \X H[b]) : b \in 1 .. n}
        /\ UNION {X \X FirstOf(f.blocks[t]) : t \in T} = UNION {X \X H[t] : t \in T}
    BY <1>2, <1>4, <1>14 DEF EdgesOf
  <2>2. \A b \in 1 .. n : B[b] = A[b] \cup (IF b \in T THEN X ELSE {})
    BY <1>13
  <2> HIDE DEF A, B, H, I, X, n
  <2>3. \A x : x \in UNION {I[b] \cup (B[b] \X H[b]) : b \in 1 .. n} <=>
               x \in UNION {I[b] \cup (A[b] \X H[b]) : b \in 1 .. n} \/ x \in UNION {X \X H[t] : t \in T}
    <3>1. \A b \in 1 .. n : B[b] \X H[b] = (A[b] \X H[b]) \cup (IF b \in T THEN X \X H[b] ELSE {})
      BY <2>2
    <3> QED BY <1>4, <3>1
  <2>4. UNION {I[b] \cup (B[b] \X H[b]) : b \in 1 .. n}
          = (UNION {I[b] \cup (A[b] \X H[b]) : b \in 1 .. n}) \cup (UNION {X \X H[t] : t \in T})
    BY <2>3
  <2> QED BY <2>1, <2>4 DEF X
<1>16. Kept(f, g, c)
  BY <1>1, <1>2, <1>3 DEF Kept
<1> QED BY <1>2, <1>13, <1>14, <1>15, <1>16 DEF Led, g

-----------------------------------------------------------------------------
(* What the builder's operations change                                    *)

\* h has f's blocks, and new ones that are empty.
Widened(f, n, g) ==
  /\ g.cur = f.cur /\ NBlocks(g) = NBlocks(f) + n
  /\ \A b \in 1 .. NBlocks(f) : g.blocks[b] = f.blocks[b]
  /\ \A b \in NBlocks(f) + 1 .. NBlocks(f) + n : g.blocks[b] = <<>>

LEMMA FreshBlocks ==
  ASSUME NEW f, NEW P, Sound(f, P), NEW n \in Nat
  PROVE  Widened(f, n, Fresh(f, n))
<1> DEFINE N == NBlocks(f)
           s == f.blocks
           new == [k \in 1 .. n |-> <<>>]
           bs == s \o new
<1>1. N \in Nat \ {0} /\ s \in Seq(Seq(Ins)) /\ N = Len(s)
  BY SoundSize DEF NBlocks
<1>2. new \in Seq(Seq(Ins)) /\ Len(new) = n /\ \A k \in 1 .. n : new[k] = <<>>
  <2> DEFINE T == Seq(Ins)
             z == <<>>
  <2>1. z \in T
    OBVIOUS
  <2>2. new = [k \in 1 .. n |-> z]
    OBVIOUS
  <2> HIDE DEF T, z, new
  <2>3. new \in [1 .. n -> T]
    BY <2>1, <2>2
  <2>4. new \in Seq(T)
    BY <2>3, SeqDef
  <2>5. Len(new) = n
    BY <2>3, <2>4, LenProperties
  <2> QED BY <2>2, <2>4, <2>5 DEF T, z
<1> HIDE DEF new
<1>3. /\ Len(bs) = Len(s) + n
      /\ \A b \in 1 .. Len(s) + n : bs[b] = IF b <= Len(s) THEN s[b] ELSE new[b - Len(s)]
  <2> DEFINE T == Seq(Ins)
  <2> HIDE DEF s, T
  <2>1. s \in Seq(T) /\ new \in Seq(T)
    BY <1>1, <1>2 DEF T
  <2>2. /\ Len(s \o new) = Len(s) + Len(new)
        /\ \A b \in 1 .. Len(s) + Len(new) : (s \o new)[b] = IF b <= Len(s) THEN s[b] ELSE new[b - Len(s)]
    BY <2>1, ConcatProperties, Zenon
  <2> QED BY <1>2, <2>2
<1>4. Fresh(f, n) = [f EXCEPT !.blocks = bs]
  BY DEF Fresh, new
<1> HIDE DEF bs, s
<1>5. Fresh(f, n).blocks = bs /\ Fresh(f, n).cur = f.cur
  <2>1. f \in IR
    BY DEF Sound
  <2> QED BY <1>4, <2>1 DEF IR
<1>6. \A b \in 1 .. N : b \in 1 .. N + n /\ b <= N
  BY <1>1
<1>7. \A b \in N + 1 .. N + n : b \in 1 .. N + n /\ ~(b <= N) /\ b - N \in 1 .. n
  BY <1>1
<1>8. NBlocks(Fresh(f, n)) = N + n
  BY <1>1, <1>3, <1>5 DEF NBlocks
<1>9. \A b \in 1 .. N : bs[b] = s[b]
  BY <1>1, <1>3, <1>6
<1>10. \A b \in N + 1 .. N + n : bs[b] = <<>>
  BY <1>1, <1>2, <1>3, <1>7
<1> QED BY <1>5, <1>8, <1>9, <1>10 DEF Widened, s

\* Empty blocks say nothing.
LEMMA NothingSaid ==
  Codes(<<>>) = {} /\ LastOf(<<>>) = {} /\ FirstOf(<<>>) = {} /\ InTurn(<<>>) = {} /\ Targets(<<>>) = {}
<1>1. Codes(<<>>) = {}
  BY DEF Codes
<1> QED BY <1>1, InTurnIs DEF LastOf, FirstOf, InTurn, Targets

\* Nothing comes to them.
Spread(f, V, g) ==
  /\ \A b \in 1 .. NBlocks(f) : Before(g, V, b) = Before(f, V, b)
  /\ \A b \in 1 .. NBlocks(f) : Past(g, V, b) = Past(f, V, b)
  /\ \A b \in 1 .. NBlocks(g) : b \notin 1 .. NBlocks(f) => Before(g, V, b) = {} /\ Codes(g.blocks[b]) = {}
  /\ EdgesOf(g, V) = EdgesOf(f, V)
  /\ Kept(f, g, f.cur)

LEMMA FreshFlow ==
  ASSUME NEW f, NEW P, Sound(f, P), NEW n \in Nat, NEW V \in Ways(NBlocks(f)),
         NEW g, g = Fresh(f, n)
  PROVE  Spread(f, V, g) /\ Widened(f, n, g)
<1> DEFINE N == NBlocks(f)
           M == N + n
           E == Succ(f, V)
           F == Succ(g, V)
           K == Said(f)
           L == Said(g)
<1>1. N \in Nat \ {0} /\ M \in Nat /\ N <= M /\ 1 .. N \subseteq 1 .. M
      /\ \A b \in 1 .. M : b \notin 1 .. N => b \in N + 1 .. N + n
  BY SoundSize
<1>2. Widened(f, n, g)
  BY FreshBlocks
<1>3. Sound(g, P \cup (N + 1 .. N + n))
  BY FreshStep
<1>4. NBlocks(g) = M /\ g.cur = f.cur /\ (\A b \in 1 .. N : g.blocks[b] = f.blocks[b])
      /\ \A b \in 1 .. M : b \notin 1 .. N => g.blocks[b] = <<>>
  BY <1>1, <1>2 DEF Widened
<1> HIDE DEF M
<1>5. V \in Ways(M) /\ \A b : b \notin 1 .. N => OutOf(V, b) = {}
  BY <1>1, NewQuiet
<1>6. BlocksAdded(N, E, K, M, F, L)
  <2>1. E \in [1 .. N -> SUBSET (1 .. N)] /\ F \in [1 .. M -> SUBSET (1 .. M)]
    BY <1>3, <1>4, <1>5, SuccIs
  <2>2. \A b \in 1 .. N : F[b] = E[b] /\ L[b] = K[b]
    BY <1>1, <1>4 DEF Succ, Said
  <2>3. \A b \in 1 .. M : b \notin 1 .. N => F[b] = {}
    BY <1>4, <1>5, NothingSaid DEF Succ
  <2> HIDE DEF E, F, K, L, N
  <2> QED BY <1>1, <2>1, <2>2, <2>3 DEF BlocksAdded
<1>7. \A b \in 1 .. M : Before(g, V, b) = IF b \in 1 .. N THEN Before(f, V, b) ELSE {}
  <2>1. \A b \in 1 .. M : Arrive(F, L, b) = IF b \in 1 .. N THEN Arrive(E, K, b) ELSE {}
    <3> HIDE DEF E, F, K, L, N
    <3> QED BY <1>6, FreshArrives
  <2> QED BY <2>1 DEF Before
<1>8. ASSUME NEW b \in 1 .. N PROVE Past(g, V, b) = Past(f, V, b)
  <2>1. b \in 1 .. M /\ g.blocks[b] = f.blocks[b] /\ Before(g, V, b) = Before(f, V, b)
    BY <1>1, <1>4, <1>7
  <2>2. Past(g, V, b) = IF Codes(g.blocks[b]) = {} THEN Before(g, V, b) ELSE LastOf(g.blocks[b])
    BY <1>4, <2>1, PastIs
  <2> QED BY <2>1, <2>2, PastIs
<1>9. \A b \in 1 .. M : b \notin 1 .. N => Codes(g.blocks[b]) = {} /\ InTurn(g.blocks[b]) = {}
  BY <1>4, NothingSaid
<1>10. EdgesOf(g, V) = EdgesOf(f, V)
  <2>1. ASSUME NEW x, x \in EdgesOf(g, V) PROVE x \in EdgesOf(f, V)
    <3>1. PICK b \in 1 .. M : x \in InTurn(g.blocks[b]) \/ x \in Before(g, V, b) \X FirstOf(g.blocks[b])
      BY <1>4, <2>1, EdgesAre
    <3>2. b \in 1 .. N
      BY <1>7, <1>9, <3>1
    <3>3. x \in InTurn(f.blocks[b]) \/ x \in Before(f, V, b) \X FirstOf(f.blocks[b])
      BY <1>4, <1>7, <3>1, <3>2
    <3> QED BY <3>2, <3>3, EdgesAre
  <2>2. ASSUME NEW x, x \in EdgesOf(f, V) PROVE x \in EdgesOf(g, V)
    <3>1. PICK b \in 1 .. N : x \in InTurn(f.blocks[b]) \/ x \in Before(f, V, b) \X FirstOf(f.blocks[b])
      BY <2>2, EdgesAre
    <3>2. x \in InTurn(g.blocks[b]) \/ x \in Before(g, V, b) \X FirstOf(g.blocks[b])
      BY <1>1, <1>4, <1>7, <3>1
    <3> QED BY <1>1, <1>4, <3>2, EdgesAre
  <2> QED BY <2>1, <2>2
<1>11. Kept(f, g, f.cur)
  BY <1>1, <1>4 DEF Kept
<1> QED BY <1>1, <1>2, <1>4, <1>7, <1>8, <1>9, <1>10, <1>11 DEF Spread

\* The cursor moves.
LEMMA AtFlow ==
  ASSUME NEW f, NEW P, Sound(f, P), NEW V, NEW b, NEW g, g = At(f, b)
  PROVE  /\ g.blocks = f.blocks /\ NBlocks(g) = NBlocks(f) /\ EdgesOf(g, V) = EdgesOf(f, V)
         /\ \A x : Before(g, V, x) = Before(f, V, x) /\ Past(g, V, x) = Past(f, V, x)
<1>1. g.blocks = f.blocks
  BY DEF At, Sound, IR
<1>2. NBlocks(g) = NBlocks(f)
  BY <1>1 DEF NBlocks
<1>3. Succ(g, V) = Succ(f, V) /\ Said(g) = Said(f)
  BY <1>1, <1>2 DEF Succ, Said
<1>4. \A x : Before(g, V, x) = Before(f, V, x) /\ Past(g, V, x) = Past(f, V, x)
  BY <1>3 DEF Before, Past
<1> QED BY <1>1, <1>2, <1>4 DEF EdgesOf

LEMMA BrFlow ==
  ASSUME NEW f, NEW P, Sound(f, P), ~Terminated(f), NEW V \in Ways(NBlocks(f)), OutOf(V, f.cur) = {},
         NEW t, Landing(f, P, V, t)
  PROVE  Led(f, V, {t}, Br(f, t))
<1> DEFINE in == Jump("br", <<t>>)
<1>1. t \in 1 .. NBlocks(f) /\ NBlocks(f) \in Nat
  BY SoundSize DEF Landing
<1>2. in \in Ins /\ in.op # "code" /\ in.to = <<t>>
  BY <1>1 DEF Jump, Terminators, Ins
<1> HIDE DEF in
<1>3. {in.to[k] : k \in DOMAIN in.to} = {t}
  BY <1>2
<1>4. Led(f, V, {t}, Put(f, in))
  BY <1>2, <1>3, EndFlow
<1> QED BY <1>4 DEF Br, in

LEMMA CondBrFlow ==
  ASSUME NEW f, NEW P, Sound(f, P), ~Terminated(f), NEW V \in Ways(NBlocks(f)), OutOf(V, f.cur) = {},
         NEW t, Landing(f, P, V, t), NEW e, Landing(f, P, V, e)
  PROVE  Led(f, V, {t, e}, CondBr(f, t, e))
<1> DEFINE in == Jump("condbr", <<t, e>>)
<1>1. t \in 1 .. NBlocks(f) /\ e \in 1 .. NBlocks(f) /\ NBlocks(f) \in Nat
  BY SoundSize DEF Landing
<1>2. in \in Ins /\ in.op # "code" /\ in.to = <<t, e>>
  <2>1. <<t, e>> \in Seq(Nat)
    BY <1>1
  <2> QED BY <2>1 DEF Jump, Terminators, Ins
<1> HIDE DEF in
<1>3. DOMAIN in.to = {1, 2} /\ in.to[1] = t /\ in.to[2] = e
  BY <1>2
<1>4. {in.to[k] : k \in DOMAIN in.to} = {t, e}
  BY <1>3
<1>5. Led(f, V, {t, e}, Put(f, in))
  BY <1>2, <1>4, EndFlow
<1> QED BY <1>5 DEF CondBr, in

\* Out of the function.
LEMMA ExitFlow ==
  ASSUME NEW f, NEW P, Sound(f, P), ~Terminated(f), NEW V \in Ways(NBlocks(f)), OutOf(V, f.cur) = {},
         NEW op \in {"ret", "unreachable"}
  PROVE  Led(f, V, {}, Put(f, Jump(op, <<>>)))
<1> DEFINE in == Jump(op, <<>>)
<1>1. in \in Ins /\ in.op # "code" /\ in.to = <<>>
  BY DEF Jump, Terminators, Ins
<1> HIDE DEF in
<1>2. {in.to[k] : k \in DOMAIN in.to} = {}
  BY <1>1
<1>3. Led(f, V, {}, Put(f, in))
  BY <1>1, <1>2, EndFlow
<1> QED BY <1>3 DEF in

-----------------------------------------------------------------------------
(* What the compositions change                                            *)

\* Whence control comes at the cursor.
Came(f, V) == IF Terminated(f) THEN {} ELSE Past(f, V, f.cur)

\* g goes on where f was, with the edges X more, and control comes from S.
Carried(f, V, g, X, S) ==
  /\ \A b \in 1 .. NBlocks(f) : Before(g, V, b) = Before(f, V, b)
  /\ EdgesOf(g, V) = EdgesOf(f, V) \cup X
  /\ Past(g, V, g.cur) = S
  /\ Kept(f, g, f.cur)

LEMMA EnsureOpenFlow ==
  ASSUME NEW f, NEW P, Sound(f, P), NEW V \in Ways(NBlocks(f)), NEW g, g = EnsureOpen(f)
  PROVE  Carried(f, V, g, {}, Came(f, V))
<1> DEFINE N == NBlocks(f)
           a == Fresh(f, 1)
<1>1. N \in Nat \ {0} /\ f.cur \in 1 .. N
  BY SoundSize DEF Sound
<1>2. CASE ~Terminated(f)
  <2>1. g = f
    BY <1>2 DEF EnsureOpen
  <2>2. Kept(f, f, f.cur)
    BY <1>1 DEF Kept
  <2> QED BY <1>2, <2>1, <2>2 DEF Carried, Came
<1>3. CASE Terminated(f)
  <2>1. g = At(a, N + 1)
    BY <1>3 DEF EnsureOpen
  <2>2. Spread(f, V, a) /\ Widened(f, 1, a) /\ Sound(a, P \cup (N + 1 .. N + 1))
    BY FreshFlow, FreshStep
  <2> HIDE DEF a
  <2>3. /\ g.blocks = a.blocks /\ NBlocks(g) = NBlocks(a) /\ EdgesOf(g, V) = EdgesOf(a, V)
        /\ \A x : Before(g, V, x) = Before(a, V, x) /\ Past(g, V, x) = Past(a, V, x)
    BY <2>1, <2>2, AtFlow
  <2>4. g.cur = N + 1
    BY <2>1, <2>2 DEF At, Sound, IR
  <2>5. NBlocks(a) = N + 1 /\ N + 1 \in 1 .. N + 1 /\ N + 1 \notin 1 .. N
    BY <1>1, <2>2 DEF Widened
  <2>6. Past(a, V, N + 1) = {}
    <3>1. Before(a, V, N + 1) = {} /\ Codes(a.blocks[N + 1]) = {}
      BY <2>2, <2>5 DEF Spread
    <3> QED BY <2>5, <3>1, PastIs
  <2>7. Kept(f, g, f.cur)
    BY <2>2, <2>3 DEF Spread, Kept
  <2> QED BY <1>3, <2>2, <2>3, <2>4, <2>6, <2>7 DEF Carried, Came, Spread
<1> QED BY <1>2, <1>3

\* The cursor's block says what it said.
Unsaid(f, g) ==
  /\ Codes(g.blocks[f.cur]) = Codes(f.blocks[f.cur])
  /\ FirstOf(g.blocks[f.cur]) = FirstOf(f.blocks[f.cur])

LEMMA ShortCircuitFlow ==
  ASSUME NEW f, NEW P, Sound(f, P), ~Terminated(f), NEW V \in Ways(NBlocks(f)), OutOf(V, f.cur) = {},
         NEW shape, NEW g, g = ShortCircuit(f, shape)
  PROVE  Carried(f, V, g, {}, Past(f, V, f.cur)) /\ Unsaid(f, g)
<1> DEFINE N == NBlocks(f)
           L == Past(f, V, f.cur)
           rhs == N + 1
           end == N + 2
           P2 == P \cup (N + 1 .. N + 2)
           a == Fresh(f, 2)
           b == IF shape = "and" THEN CondBr(a, rhs, end) ELSE CondBr(a, end, rhs)
           c == At(b, rhs)
           d == Br(c, end)
           e == At(d, end)
<1>1. N \in Nat \ {0} /\ P \in SUBSET (1 .. N) /\ f.cur \in 1 .. N
  BY SoundSize DEF Sound
<1>2. /\ Sound(a, P2) /\ NBlocks(a) = end /\ a.cur = f.cur /\ ~Terminated(a)
      /\ Spread(f, V, a) /\ Widened(f, 2, a)
  BY FreshStep, FreshFlow
<1>3. /\ rhs \in 1 .. end /\ end \in 1 .. end /\ rhs \in P2 /\ end \in P2 /\ rhs # end
      /\ end \in P2 \ {rhs} /\ end \in Nat /\ N <= end
      /\ rhs \notin 1 .. N /\ end \notin 1 .. N /\ rhs # f.cur /\ end # f.cur
      /\ f.cur \in 1 .. end
  BY <1>1
<1> HIDE DEF N, rhs, end, P2, a
<1>4. V \in Ways(end) /\ OutOf(V, rhs) = {} /\ OutOf(V, end) = {}
  BY <1>1, <1>3, NewQuiet DEF N
<1>5. g = e
  BY DEF ShortCircuit, N, rhs, end, a
<1>6. /\ Sound(b, P2) /\ Terminated(b) /\ b.cur = f.cur /\ NBlocks(b) = end
      /\ Led(a, V, {rhs, end}, b)
  <2>1. rhs \in 1 .. NBlocks(a) /\ end \in 1 .. NBlocks(a)
    BY <1>2, <1>3
  <2>2. Landing(a, P2, V, rhs) /\ Landing(a, P2, V, end) /\ V \in Ways(NBlocks(a)) /\ OutOf(V, a.cur) = {}
    BY <1>2, <1>3, <1>4, <2>1 DEF Landing
  <2>3. CASE shape = "and"
    <3>1. b = CondBr(a, rhs, end)
      BY <2>3
    <3> HIDE DEF b
    <3> QED BY <1>2, <2>1, <2>2, <3>1, CondBrStep, CondBrFlow
  <2>4. CASE shape # "and"
    <3>1. b = CondBr(a, end, rhs)
      BY <2>4
    <3> HIDE DEF b
    <3>2. {end, rhs} = {rhs, end}
      OBVIOUS
    <3>3. Led(a, V, {end, rhs}, b)
      BY <1>2, <2>2, <3>1, CondBrFlow
    <3> QED BY <1>2, <2>1, <3>1, <3>2, <3>3, CondBrStep
  <2> QED BY <2>3, <2>4
<1> HIDE DEF b
<1>7. Past(a, V, f.cur) = L
  BY <1>1, <1>2 DEF Spread, N
<1>8. /\ \A x \in 1 .. N : Before(b, V, x) = Before(f, V, x)
      /\ Before(b, V, rhs) = L /\ Before(b, V, end) = L
      /\ EdgesOf(b, V) = EdgesOf(f, V)
      /\ Codes(b.blocks[rhs]) = {} /\ Codes(b.blocks[end]) = {}
  <2>1. /\ \A x \in 1 .. N : Before(a, V, x) = Before(f, V, x)
        /\ Before(a, V, rhs) = {} /\ Before(a, V, end) = {}
        /\ Codes(a.blocks[rhs]) = {} /\ Codes(a.blocks[end]) = {}
        /\ EdgesOf(a, V) = EdgesOf(f, V)
    BY <1>2, <1>3 DEF Spread, N
  <2>2. FirstOf(a.blocks[rhs]) = {} /\ FirstOf(a.blocks[end]) = {}
    BY <2>1 DEF FirstOf
  <2>3. /\ \A x \in 1 .. end : Before(b, V, x) = Before(a, V, x) \cup (IF x \in {rhs, end} THEN L ELSE {})
        /\ EdgesOf(b, V) = EdgesOf(a, V) \cup UNION {L \X FirstOf(a.blocks[t]) : t \in {rhs, end}}
        /\ \A x \in 1 .. end : Codes(b.blocks[x]) = Codes(a.blocks[x])
    BY <1>2, <1>6, <1>7 DEF Led
  <2>4. UNION {L \X FirstOf(a.blocks[t]) : t \in {rhs, end}} = {}
    BY <2>2
  <2>5. \A x \in 1 .. N : x \in 1 .. end /\ x \notin {rhs, end}
    BY <1>1, <1>3
  <2> HIDE DEF L
  <2> QED BY <1>3, <2>1, <2>3, <2>4, <2>5
<1>9. /\ Sound(c, P2 \ {rhs}) /\ ~Terminated(c) /\ c.cur = rhs /\ NBlocks(c) = end
  BY <1>3, <1>6, AtStep
<1>10. /\ c.blocks = b.blocks /\ EdgesOf(c, V) = EdgesOf(b, V)
       /\ \A x : Before(c, V, x) = Before(b, V, x) /\ Past(c, V, x) = Past(b, V, x)
  <2> HIDE DEF c
  <2>1. c = At(b, rhs)
    BY DEF c
  <2> QED BY <1>6, <2>1, AtFlow
<1> HIDE DEF c
<1>11. Past(c, V, rhs) = L
  <2>1. Past(b, V, rhs) = L
    BY <1>3, <1>6, <1>8, PastIs
  <2> QED BY <1>10, <2>1
<1>12. /\ Sound(d, P2 \ {rhs}) /\ Terminated(d) /\ NBlocks(d) = end /\ Led(c, V, {end}, d)
  <2>1. end \in 1 .. NBlocks(c)
    BY <1>3, <1>9
  <2>2. Landing(c, P2 \ {rhs}, V, end) /\ V \in Ways(NBlocks(c)) /\ OutOf(V, c.cur) = {}
    BY <1>3, <1>4, <1>9, <2>1 DEF Landing
  <2> QED BY <1>9, <2>1, <2>2, BrStep, BrFlow
<1> HIDE DEF d
<1>13. /\ \A x \in 1 .. N : Before(d, V, x) = Before(f, V, x)
       /\ Before(d, V, end) = L /\ EdgesOf(d, V) = EdgesOf(f, V) /\ Codes(d.blocks[end]) = {}
  <2>1. /\ \A x \in 1 .. end : Before(d, V, x) = Before(c, V, x) \cup (IF x \in {end} THEN L ELSE {})
        /\ EdgesOf(d, V) = EdgesOf(c, V) \cup UNION {L \X FirstOf(c.blocks[t]) : t \in {end}}
        /\ \A x \in 1 .. end : Codes(d.blocks[x]) = Codes(c.blocks[x])
    BY <1>9, <1>11, <1>12 DEF Led
  <2>2. FirstOf(c.blocks[end]) = {}
    BY <1>8, <1>10 DEF FirstOf
  <2>3. UNION {L \X FirstOf(c.blocks[t]) : t \in {end}} = {}
    BY <2>2
  <2>4. \A x \in 1 .. N : x \in 1 .. end /\ x \notin {end}
    BY <1>1, <1>3
  <2> HIDE DEF L
  <2> QED BY <1>3, <1>8, <1>10, <2>1, <2>3, <2>4
<1>14. /\ e.blocks = d.blocks /\ EdgesOf(e, V) = EdgesOf(d, V) /\ NBlocks(e) = end /\ e.cur = end
       /\ \A x : Before(e, V, x) = Before(d, V, x) /\ Past(e, V, x) = Past(d, V, x)
  <2>1. e.cur = end
    BY <1>12 DEF At, Sound, IR
  <2> HIDE DEF e
  <2>2. e = At(d, end)
    BY DEF e
  <2> QED BY <1>12, <2>1, <2>2, AtFlow
<1> HIDE DEF e
<1>15. Past(e, V, end) = L
  <2>1. Past(d, V, end) = L
    BY <1>3, <1>12, <1>13, PastIs
  <2> QED BY <1>14, <2>1
<1>16. Kept(f, e, f.cur) /\ e.blocks[f.cur] = b.blocks[f.cur]
  <2>1. \A x \in 1 .. N : a.blocks[x] = f.blocks[x]
    BY <1>2 DEF Widened, N
  <2>2. \A x \in 1 .. end : x # f.cur \/ Ended(a.blocks[x]) => b.blocks[x] = a.blocks[x]
    BY <1>2, <1>6 DEF Led, Kept
  <2>3. \A x \in 1 .. end : x # rhs => d.blocks[x] = c.blocks[x]
    BY <1>9, <1>12 DEF Led, Kept
  <2>4. \A x \in 1 .. N : x \in 1 .. end /\ x # rhs
    BY <1>1, <1>3
  <2> QED BY <1>1, <1>3, <1>10, <1>14, <2>1, <2>2, <2>3, <2>4 DEF Kept, N
<1>17. Unsaid(f, e)
  <2>1. Codes(b.blocks[f.cur]) = Codes(a.blocks[f.cur]) /\ FirstOf(b.blocks[f.cur]) = FirstOf(a.blocks[f.cur])
    BY <1>2, <1>3, <1>6 DEF Led
  <2>2. a.blocks[f.cur] = f.blocks[f.cur]
    BY <1>1, <1>2 DEF Widened, N
  <2> QED BY <1>16, <2>1, <2>2 DEF Unsaid
<1> QED BY <1>5, <1>13, <1>14, <1>15, <1>16, <1>17 DEF Carried, N

\* The expression of statement s.
LEMMA EvalFlow ==
  ASSUME NEW f, NEW P, Sound(f, P), ~Terminated(f), NEW V \in Ways(NBlocks(f)), OutOf(V, f.cur) = {},
         NEW s \in Nat, NEW shape, NEW g, g = Eval(f, s, shape)
  PROVE  Spoken(f, V, s, g)
<1> DEFINE a == Put(f, Instr(s))
           b == ShortCircuit(a, shape)
<1>1. /\ Sound(a, P) /\ ~Terminated(a) /\ a.cur = f.cur /\ NBlocks(a) = NBlocks(f)
      /\ Spoken(f, V, s, a)
  BY CodeStep, CodeFlow
<1>2. g = IF shape = "plain" THEN a ELSE b
  BY DEF Eval
<1> HIDE DEF a
<1>3. Carried(a, V, b, {}, Past(a, V, a.cur)) /\ Unsaid(a, b)
  BY <1>1, ShortCircuitFlow
<1>4. NBlocks(f) \in Nat /\ NBlocks(b) \in Nat
  <2>1. Onward(a, P, b)
    BY <1>1, ShortCircuitIs
  <2> QED BY <2>1, SoundSize DEF Onward
<1> HIDE DEF b
<1>5. Spoken(f, V, s, b)
  <2>1. Kept(f, b, f.cur)
    <3>1. Kept(f, a, f.cur) /\ Kept(a, b, f.cur)
      BY <1>1, <1>3 DEF Spoken, Carried
    <3> QED BY <1>1, <1>4, <3>1, KeptKept
  <2> QED BY <1>1, <1>3, <2>1 DEF Spoken, Carried, Unsaid
<1> QED BY <1>1, <1>2, <1>5

-----------------------------------------------------------------------------
(* What statements that open or close change                               *)

\* A block that nothing is said in yet, which control comes to from S.
Waits(f, V, b, S) == Codes(f.blocks[b]) = {} /\ Before(f, V, b) = S

\* The code of statement s, from which control comes to the cursor.
Judges(f, V, s, h) == Carried(f, V, h, Past(f, V, f.cur) \X {s}, {s})

\* Ways lead only from blocks that something waits to go on in.
Detoured(V, n, P) == V \in Ways(n) /\ \A b : b \notin P => OutOf(V, b) = {}

LEMMA CursorStraight ==
  ASSUME NEW f, NEW P, Sound(f, P), NEW n \in Nat, n <= NBlocks(f), NEW Q, Q \subseteq P,
         NEW V, Detoured(V, n, Q)
  PROVE  V \in Ways(NBlocks(f)) /\ OutOf(V, f.cur) = {}
<1>1. NBlocks(f) \in Nat /\ f.cur \notin P
  BY SoundSize DEF Sound
<1> QED BY <1>1, WaysGrow DEF Detoured

IfLeads(f, V, s, k, n, h) ==
  /\ Judges(f, V, s, h)
  /\ Waits(h, V, n + 2, {s})
  /\ k = 3 => Waits(h, V, n + 3, {})

LEMMA IfFlow ==
  ASSUME NEW f, NEW P, Sound(f, P), ~Terminated(f), NEW V, Detoured(V, NBlocks(f), P),
         NEW s \in Nat, NEW shape, NEW n, NEW k \in {2, 3}, NEW h, IfIs(f, s, shape, k, n, h)
  PROVE  IfLeads(f, V, s, k, n, h)
<1> DEFINE a == Fresh(f, k)
           P1 == P \cup (n + 1 .. n + k)
           b == Eval(a, s, shape)
           yes == n + 1
           no == n + 2
           c == CondBr(b, yes, no)
           L == Past(f, V, f.cur)
           m == n + k
<1>1. n \in Nat \ {0} /\ n = NBlocks(f) /\ f.cur \in 1 .. n /\ k \in Nat /\ h = At(c, yes)
      /\ P \in SUBSET (1 .. n) /\ V \in Ways(n)
  BY SoundSize DEF Sound, IfIs, Detoured
<1>2. /\ Sound(a, P1) /\ NBlocks(a) = m /\ a.cur = f.cur /\ ~Terminated(a)
      /\ Spread(f, V, a) /\ Widened(f, k, a)
  BY <1>1, FreshStep, FreshFlow
<1> HIDE DEF a
<1>3. /\ yes \in 1 .. m /\ no \in 1 .. m /\ yes \in P1 /\ no \in P1 /\ m \in Nat /\ n <= m
      /\ yes # no /\ yes \notin 1 .. n /\ no \notin 1 .. n /\ P \subseteq P1
      /\ \A x \in 1 .. n : x \in 1 .. m /\ x # yes /\ x # no
      /\ k = 3 => n + 3 \in 1 .. m /\ n + 3 \notin 1 .. n /\ n + 3 # yes /\ n + 3 # no
      /\ yes \notin P /\ no \notin P
  BY <1>1
<1> HIDE DEF m, yes, no, P1
<1>4. OutOf(V, yes) = {} /\ OutOf(V, no) = {} /\ V \in Ways(m) /\ OutOf(V, f.cur) = {}
  BY <1>1, <1>3, WaysGrow DEF Detoured, Sound
<1>5. Onward(a, P1, b) /\ Spoken(a, V, s, b)
  <2> HIDE DEF b
  <2>1. b = Eval(a, s, shape)
    BY DEF b
  <2>2. V \in Ways(NBlocks(a)) /\ OutOf(V, a.cur) = {}
    BY <1>2, <1>4
  <2> QED BY <1>2, <2>1, <2>2, EvalIs, EvalFlow
<1> DEFINE M == NBlocks(b)
<1>6. Sound(b, P1) /\ ~Terminated(b) /\ m <= M /\ M \in Nat /\ b.cur \in 1 .. M /\ b.cur \notin P1
  BY <1>2, <1>5, SoundSize DEF Onward, Sound
<1> HIDE DEF b
<1>7. /\ yes \in 1 .. M /\ no \in 1 .. M /\ yes # b.cur /\ no # b.cur
      /\ V \in Ways(M) /\ OutOf(V, b.cur) = {}
      /\ \A x \in 1 .. m : x \in 1 .. M
  <2>1. \A x \in 1 .. m : x \in 1 .. M
    BY <1>3, <1>6
  <2>2. n <= M
    BY <1>1, <1>3, <1>6
  <2>3. V \in Ways(M) /\ OutOf(V, b.cur) = {}
    BY <1>1, <1>3, <1>6, <2>2, CursorStraight
  <2> QED BY <1>3, <1>6, <2>1, <2>3
<1>8. Sound(c, P1) /\ NBlocks(c) = M /\ Led(b, V, {yes, no}, c)
  <2>1. Landing(b, P1, V, yes) /\ Landing(b, P1, V, no)
    BY <1>3, <1>4, <1>7 DEF Landing
  <2> QED BY <1>6, <1>7, <2>1, CondBrStep, CondBrFlow
<1> HIDE DEF c
<1>9. /\ h.blocks = c.blocks /\ NBlocks(h) = M /\ EdgesOf(h, V) = EdgesOf(c, V) /\ h.cur = yes
      /\ \A x : Before(h, V, x) = Before(c, V, x) /\ Past(h, V, x) = Past(c, V, x)
  <2>1. h.cur = yes
    BY <1>1, <1>8 DEF At, Sound, IR
  <2> QED BY <1>1, <1>8, <2>1, AtFlow
<1> HIDE DEF M
<1>10. /\ \A x \in 1 .. m : Before(b, V, x) = Before(a, V, x)
       /\ EdgesOf(b, V) = EdgesOf(f, V) \cup (L \X {s})
       /\ Past(b, V, b.cur) = {s}
  <2>1. Past(a, V, f.cur) = L /\ EdgesOf(a, V) = EdgesOf(f, V)
    BY <1>1, <1>2 DEF Spread
  <2> QED BY <1>2, <1>5, <2>1 DEF Spoken
<1>11. \A x \in 1 .. m : x # f.cur => b.blocks[x] = a.blocks[x]
  BY <1>2, <1>5 DEF Spoken, Kept
<1>12. /\ \A x \in 1 .. n : Before(a, V, x) = Before(f, V, x)
       /\ \A x \in 1 .. m : x \notin 1 .. n => Before(a, V, x) = {} /\ Codes(a.blocks[x]) = {}
  BY <1>1, <1>2 DEF Spread
<1>13. /\ \A x \in 1 .. m : Before(c, V, x) = Before(b, V, x) \cup (IF x \in {yes, no} THEN {s} ELSE {})
       /\ EdgesOf(c, V) = EdgesOf(b, V) \cup UNION {{s} \X FirstOf(b.blocks[t]) : t \in {yes, no}}
       /\ \A x \in 1 .. m : Codes(c.blocks[x]) = Codes(b.blocks[x])
       /\ \A x \in 1 .. m : x # b.cur => c.blocks[x] = b.blocks[x]
       /\ \A x \in 1 .. m : Ended(b.blocks[x]) => c.blocks[x] = b.blocks[x]
  BY <1>7, <1>8, <1>10 DEF Led, Kept, M
<1>14. Codes(b.blocks[yes]) = {} /\ Codes(b.blocks[no]) = {}
       /\ (k = 3 => Codes(b.blocks[n + 3]) = {})
  <2>1. \A x \in 1 .. m : x \notin 1 .. n => Codes(b.blocks[x]) = {}
    BY <1>1, <1>11, <1>12
  <2> QED BY <1>3, <2>1
<1>15. EdgesOf(c, V) = EdgesOf(f, V) \cup (L \X {s})
  <2>1. FirstOf(b.blocks[yes]) = {} /\ FirstOf(b.blocks[no]) = {}
    BY <1>14 DEF FirstOf
  <2>2. UNION {{s} \X FirstOf(b.blocks[t]) : t \in {yes, no}} = {}
    BY <2>1
  <2> QED BY <1>10, <1>13, <2>2
<1>16. /\ Waits(c, V, yes, {s}) /\ Waits(c, V, no, {s})
       /\ k = 3 => Waits(c, V, n + 3, {})
  <2>1. \A x \in 1 .. m : x \notin 1 .. n => Before(c, V, x) = IF x \in {yes, no} THEN {s} ELSE {}
    BY <1>10, <1>12, <1>13
  <2> QED BY <1>3, <1>13, <1>14, <2>1 DEF Waits
<1>17. \A x \in 1 .. n : Before(c, V, x) = Before(f, V, x)
  BY <1>3, <1>10, <1>12, <1>13
<1>18. Kept(f, c, f.cur)
  <2>1. Kept(f, b, f.cur)
    <3>1. Kept(f, a, f.cur) /\ Kept(a, b, f.cur) /\ NBlocks(b) \in Nat
      BY <1>2, <1>5, <1>6 DEF Spread, Spoken, M
    <3> QED BY <1>1, <1>2, <1>3, <3>1, KeptKept
  <2>2. ASSUME NEW x \in 1 .. n, x # f.cur \/ Ended(f.blocks[x]) PROVE c.blocks[x] = f.blocks[x]
    <3>1. x # f.cur /\ x \in 1 .. m
      BY <1>3, <2>2, TerminatedIs
    <3>2. b.blocks[x] = f.blocks[x]
      BY <1>1, <2>1, <3>1 DEF Kept
    <3>3. CASE x # b.cur
      BY <1>13, <3>1, <3>2, <3>3
    <3>4. CASE x = b.cur
      <4>1. x \notin P \cup {f.cur}
        BY <1>3, <1>6, <3>1, <3>4
      <4>2. Ended(f.blocks[x])
        BY <1>1, <4>1 DEF Sound
      <4> QED BY <1>13, <3>1, <3>2, <4>2
    <3> QED BY <3>3, <3>4
  <2>3. n <= NBlocks(c)
    BY <1>1, <1>3, <1>6, <1>8 DEF M
  <2> QED BY <1>1, <2>2, <2>3 DEF Kept
<1>19. Past(c, V, yes) = {s}
  BY <1>7, <1>8, <1>16, PastIs DEF Waits, M
<1>20. Kept(f, h, f.cur) /\ Past(h, V, h.cur) = {s}
  BY <1>8, <1>9, <1>18, <1>19 DEF Kept
<1> QED BY <1>1, <1>9, <1>15, <1>16, <1>17, <1>20 DEF IfLeads, Judges, Carried, Waits, no

WhileLeads(f, V, s, n, h) ==
  /\ Judges(f, V, s, h)
  /\ Waits(h, V, n + 3, {s})
  /\ FirstOf(h.blocks[n + 1]) = {s}

LEMMA WhileFlow ==
  ASSUME NEW f, NEW P, Sound(f, P), ~Terminated(f), NEW V, Detoured(V, NBlocks(f), P),
         NEW s \in Nat, NEW shape, NEW n, NEW h, WhileIs(f, s, shape, n, h)
  PROVE  WhileLeads(f, V, s, n, h)
<1> DEFINE cond == n + 1
           body == n + 2
           end == n + 3
           P1 == P \cup (n + 1 .. n + 3)
           P2 == P \cup {body, end}
           a == Fresh(f, 3)
           b == Br(a, cond)
           c == At(b, cond)
           d == Eval(c, s, shape)
           e == CondBr(d, body, end)
           L == Past(f, V, f.cur)
<1>1. n \in Nat \ {0} /\ n = NBlocks(f) /\ P \in SUBSET (1 .. n) /\ f.cur \in 1 .. n /\ V \in Ways(n)
      /\ h = At(e, body)
  BY SoundSize DEF Sound, WhileIs, Detoured
<1>2. /\ Sound(a, P1) /\ NBlocks(a) = end /\ a.cur = f.cur /\ ~Terminated(a)
      /\ Spread(f, V, a) /\ Widened(f, 3, a)
  BY <1>1, FreshStep, FreshFlow
<1>3. /\ cond \in 1 .. end /\ body \in 1 .. end /\ end \in 1 .. end /\ end \in Nat /\ n <= end
      /\ cond \in P1 /\ P1 \ {cond} = P2 /\ body \in P2 /\ end \in P2
      /\ cond \notin 1 .. n /\ body \notin 1 .. n /\ end \notin 1 .. n
      /\ cond # body /\ cond # end /\ body # end /\ P \subseteq P2
      /\ \A x \in 1 .. n : x \in 1 .. end /\ x # cond /\ x # body /\ x # end
      /\ cond \notin P /\ body \notin P /\ end \notin P
  BY <1>1
<1> HIDE DEF cond, body, end, P1, P2, a
<1>4. /\ OutOf(V, cond) = {} /\ OutOf(V, body) = {} /\ OutOf(V, end) = {} /\ V \in Ways(end)
      /\ OutOf(V, f.cur) = {}
  BY <1>1, <1>3, WaysGrow DEF Detoured, Sound
<1>5. /\ Sound(b, P1) /\ Terminated(b) /\ NBlocks(b) = end /\ Led(a, V, {cond}, b)
  <2>1. Landing(a, P1, V, cond) /\ V \in Ways(NBlocks(a)) /\ OutOf(V, a.cur) = {}
    BY <1>1, <1>2, <1>3, <1>4 DEF Landing
  <2>2. cond \in 1 .. NBlocks(a)
    BY <1>2, <1>3
  <2> QED BY <1>2, <2>1, <2>2, BrStep, BrFlow
<1> HIDE DEF b
<1>6. /\ \A x \in 1 .. n : Before(b, V, x) = Before(f, V, x)
      /\ Before(b, V, cond) = L /\ Before(b, V, body) = {} /\ Before(b, V, end) = {}
      /\ Codes(b.blocks[cond]) = {} /\ Codes(b.blocks[body]) = {} /\ Codes(b.blocks[end]) = {}
      /\ EdgesOf(b, V) = EdgesOf(f, V)
      /\ \A x \in 1 .. n : x # f.cur => b.blocks[x] = f.blocks[x]
  <2>1. Past(a, V, f.cur) = L /\ EdgesOf(a, V) = EdgesOf(f, V)
        /\ \A x \in 1 .. end : x \notin 1 .. n => Before(a, V, x) = {} /\ Codes(a.blocks[x]) = {}
    BY <1>1, <1>2 DEF Spread
  <2>2. \A x \in 1 .. n : Before(a, V, x) = Before(f, V, x) /\ a.blocks[x] = f.blocks[x]
    BY <1>1, <1>2 DEF Spread, Widened
  <2>3. /\ \A x \in 1 .. end : Before(b, V, x) = Before(a, V, x) \cup (IF x \in {cond} THEN L ELSE {})
        /\ EdgesOf(b, V) = EdgesOf(a, V) \cup UNION {L \X FirstOf(a.blocks[t]) : t \in {cond}}
        /\ \A x \in 1 .. end : Codes(b.blocks[x]) = Codes(a.blocks[x])
        /\ \A x \in 1 .. end : x # f.cur => b.blocks[x] = a.blocks[x]
    BY <1>2, <1>5, <2>1 DEF Led, Kept
  <2>4. FirstOf(a.blocks[cond]) = {}
    BY <1>3, <2>1 DEF FirstOf
  <2>5. UNION {L \X FirstOf(a.blocks[t]) : t \in {cond}} = {}
    BY <2>4
  <2> HIDE DEF L
  <2>6. \A x \in 1 .. n : Before(b, V, x) = Before(f, V, x)
    BY <1>3, <2>2, <2>3
  <2>7. Before(b, V, cond) = L /\ Before(b, V, body) = {} /\ Before(b, V, end) = {}
    BY <1>3, <2>1, <2>3
  <2>8. Codes(b.blocks[cond]) = {} /\ Codes(b.blocks[body]) = {} /\ Codes(b.blocks[end]) = {}
    BY <1>3, <2>1, <2>3
  <2>9. \A x \in 1 .. n : x # f.cur => b.blocks[x] = f.blocks[x]
    BY <1>3, <2>2, <2>3
  <2>10. EdgesOf(b, V) = EdgesOf(f, V)
    BY <2>1, <2>3, <2>5
  <2> QED BY <2>6, <2>7, <2>8, <2>9, <2>10
<1>7. Sound(c, P2) /\ ~Terminated(c) /\ c.cur = cond /\ NBlocks(c) = end
  <2>1. /\ Sound(At(b, cond), P1 \ {cond}) /\ ~Terminated(At(b, cond))
        /\ At(b, cond).cur = cond /\ NBlocks(At(b, cond)) = NBlocks(b)
    BY <1>3, <1>5, AtStep
  <2> QED BY <1>3, <1>5, <2>1
<1>8. /\ c.blocks = b.blocks /\ EdgesOf(c, V) = EdgesOf(b, V)
      /\ \A x : Before(c, V, x) = Before(b, V, x) /\ Past(c, V, x) = Past(b, V, x)
  <2> HIDE DEF c
  <2>1. c = At(b, cond)
    BY DEF c
  <2> QED BY <1>5, <2>1, AtFlow
<1> HIDE DEF c
<1>9. Onward(c, P2, d) /\ Spoken(c, V, s, d)
  <2> HIDE DEF d
  <2>1. d = Eval(c, s, shape)
    BY DEF d
  <2>2. V \in Ways(NBlocks(c)) /\ OutOf(V, c.cur) = {}
    BY <1>4, <1>7
  <2> QED BY <1>7, <2>1, <2>2, EvalIs, EvalFlow
<1> DEFINE M == NBlocks(d)
<1>10. Sound(d, P2) /\ ~Terminated(d) /\ end <= M /\ M \in Nat /\ d.cur \in 1 .. M /\ d.cur \notin P2
  BY <1>7, <1>9, SoundSize DEF Onward, Sound
<1> HIDE DEF d
<1>11. /\ cond \in 1 .. M /\ body \in 1 .. M /\ end \in 1 .. M /\ body # d.cur /\ end # d.cur
       /\ V \in Ways(M) /\ OutOf(V, d.cur) = {}
       /\ \A x \in 1 .. end : x \in 1 .. M
  <2>1. \A x \in 1 .. end : x \in 1 .. M
    BY <1>3, <1>10
  <2>2. n <= M
    BY <1>1, <1>3, <1>10
  <2>3. V \in Ways(M) /\ OutOf(V, d.cur) = {}
    BY <1>1, <1>3, <1>10, <2>2, CursorStraight
  <2> QED BY <1>3, <1>10, <2>1, <2>3
<1>12. Past(c, V, cond) = L
  <2>1. Past(c, V, cond) = Before(c, V, cond)
    BY <1>3, <1>6, <1>7, <1>8, PastIs
  <2> QED BY <1>6, <1>8, <2>1
<1>13. /\ \A x \in 1 .. end : Before(d, V, x) = Before(b, V, x)
       /\ EdgesOf(d, V) = EdgesOf(f, V) \cup (L \X {s})
       /\ Past(d, V, d.cur) = {s} /\ FirstOf(d.blocks[cond]) = {s}
       /\ \A x \in 1 .. end : x # cond => d.blocks[x] = b.blocks[x]
  BY <1>6, <1>7, <1>8, <1>9, <1>12 DEF Spoken, Kept
<1>14. Sound(e, P2) /\ NBlocks(e) = M /\ Led(d, V, {body, end}, e)
  <2>1. Landing(d, P2, V, body) /\ Landing(d, P2, V, end)
    BY <1>3, <1>4, <1>11 DEF Landing
  <2> QED BY <1>10, <1>11, <2>1, CondBrStep, CondBrFlow
<1> HIDE DEF e
<1>15. /\ \A x \in 1 .. end : Before(e, V, x) = Before(d, V, x) \cup (IF x \in {body, end} THEN {s} ELSE {})
       /\ EdgesOf(e, V) = EdgesOf(d, V) \cup UNION {{s} \X FirstOf(d.blocks[t]) : t \in {body, end}}
       /\ \A x \in 1 .. end : Codes(e.blocks[x]) = Codes(d.blocks[x]) /\ FirstOf(e.blocks[x]) = FirstOf(d.blocks[x])
       /\ \A x \in 1 .. end : x # d.cur \/ Ended(d.blocks[x]) => e.blocks[x] = d.blocks[x]
  BY <1>11, <1>13, <1>14 DEF Led, Kept, M
<1>16. Codes(d.blocks[body]) = {} /\ Codes(d.blocks[end]) = {}
  BY <1>3, <1>6, <1>13
<1>17. EdgesOf(e, V) = EdgesOf(f, V) \cup (L \X {s})
  <2>1. FirstOf(d.blocks[body]) = {} /\ FirstOf(d.blocks[end]) = {}
    BY <1>16 DEF FirstOf
  <2>2. UNION {{s} \X FirstOf(d.blocks[t]) : t \in {body, end}} = {}
    BY <2>1
  <2> QED BY <1>13, <1>15, <2>2
<1>18. Waits(e, V, body, {s}) /\ Waits(e, V, end, {s}) /\ FirstOf(e.blocks[cond]) = {s}
  BY <1>3, <1>6, <1>13, <1>15, <1>16 DEF Waits
<1>19. \A x \in 1 .. n : Before(e, V, x) = Before(f, V, x)
  BY <1>3, <1>6, <1>13, <1>15
<1>20. /\ h.blocks = e.blocks /\ NBlocks(h) = M /\ EdgesOf(h, V) = EdgesOf(e, V) /\ h.cur = body
       /\ \A x : Before(h, V, x) = Before(e, V, x) /\ Past(h, V, x) = Past(e, V, x)
  <2>1. h.cur = body
    BY <1>1, <1>14 DEF At, Sound, IR
  <2> QED BY <1>1, <1>14, <2>1, AtFlow
<1>21. Past(h, V, h.cur) = {s}
  <2>1. Past(e, V, body) = {s}
    BY <1>11, <1>14, <1>18, PastIs DEF Waits, M
  <2> QED BY <1>20, <2>1
<1>22. Kept(f, h, f.cur)
  <2>1. ASSUME NEW x \in 1 .. n, x # f.cur \/ Ended(f.blocks[x]) PROVE h.blocks[x] = f.blocks[x]
    <3>1. x # f.cur /\ x \in 1 .. end /\ x # cond
      BY <1>3, <2>1, TerminatedIs
    <3>2. d.blocks[x] = f.blocks[x]
      BY <1>6, <1>13, <3>1
    <3>3. CASE x # d.cur
      BY <1>15, <1>20, <3>1, <3>2, <3>3
    <3>4. CASE x = d.cur
      <4>1. x \notin P \cup {f.cur}
        BY <1>3, <1>10, <3>1, <3>4
      <4>2. Ended(f.blocks[x])
        BY <1>1, <4>1 DEF Sound
      <4> QED BY <1>15, <1>20, <3>1, <3>2, <4>2
    <3> QED BY <3>3, <3>4
  <2>2. n <= NBlocks(h)
    BY <1>1, <1>3, <1>10, <1>20
  <2> QED BY <1>1, <2>1, <2>2 DEF Kept
<1> QED BY <1>1, <1>17, <1>18, <1>19, <1>20, <1>21, <1>22 DEF WhileLeads, Judges, Carried, Waits, cond, end

\* A branch ends in t, or has left by itself, and the walk goes on in b.
WentTo(f, V, t, h) ==
  /\ NBlocks(h) = NBlocks(f)
  /\ \A x \in 1 .. NBlocks(f) : Before(h, V, x) = Before(f, V, x) \cup (IF x = t THEN Came(f, V) ELSE {})
  /\ EdgesOf(h, V) = EdgesOf(f, V) \cup (Came(f, V) \X FirstOf(f.blocks[t]))
  /\ Kept(f, h, f.cur)
  /\ \A x \in 1 .. NBlocks(f) : Codes(h.blocks[x]) = Codes(f.blocks[x])
                                /\ FirstOf(h.blocks[x]) = FirstOf(f.blocks[x])
                                /\ LastOf(h.blocks[x]) = LastOf(f.blocks[x])

LEMMA BrWent ==
  ASSUME NEW f, NEW P, Sound(f, P), ~Terminated(f), NEW V \in Ways(NBlocks(f)), OutOf(V, f.cur) = {},
         NEW t, Landing(f, P, V, t)
  PROVE  WentTo(f, V, t, Br(f, t))
<1>1. Led(f, V, {t}, Br(f, t))
  BY BrFlow
<1>2. Came(f, V) = Past(f, V, f.cur)
  BY DEF Came
<1>3. UNION {Past(f, V, f.cur) \X FirstOf(f.blocks[u]) : u \in {t}} = Past(f, V, f.cur) \X FirstOf(f.blocks[t])
  OBVIOUS
<1> QED BY <1>1, <1>2, <1>3 DEF Led, WentTo

LEMMA GoOnFlow ==
  ASSUME NEW f, NEW P, Sound(f, P), NEW V \in Ways(NBlocks(f)), OutOf(V, f.cur) = {},
         NEW t, ~Terminated(f) => Landing(f, P, V, t)
  PROVE  WentTo(f, V, t, GoOn(f, t))
<1>1. CASE ~Terminated(f)
  <2>1. GoOn(f, t) = Br(f, t)
    BY <1>1 DEF GoOn
  <2> QED BY <1>1, <2>1, BrWent
<1>2. CASE Terminated(f)
  <2>1. GoOn(f, t) = f /\ Came(f, V) = {}
    BY <1>2 DEF GoOn, Came
  <2>2. Kept(f, f, f.cur)
    BY SoundSize DEF Kept
  <2> QED BY <2>1, <2>2 DEF WentTo
<1> QED BY <1>1, <1>2

\* The same, at another block.
LEMMA WentAt ==
  ASSUME NEW f, NEW V, NEW t, NEW g, WentTo(f, V, t, g), NEW Q, Sound(g, Q), NEW b,
         NEW h, h = At(g, b)
  PROVE  WentTo(f, V, t, h) /\ h.cur = b
<1>1. /\ h.blocks = g.blocks /\ NBlocks(h) = NBlocks(g) /\ EdgesOf(h, V) = EdgesOf(g, V)
      /\ \A x : Before(h, V, x) = Before(g, V, x) /\ Past(h, V, x) = Past(g, V, x)
  BY AtFlow
<1>2. h.cur = b
  BY DEF At, Sound, IR
<1> QED BY <1>1, <1>2 DEF WentTo, Kept

-----------------------------------------------------------------------------
(* What a chain of tests changes                                           *)

\* g is f some label tests later; the arm's body is the block n + 1, in which
\* nothing is said yet, and w, if not 0, the way off the end of the chain.
TestedFlow(f, n, V, w, g, some) ==
  LET B == With(V, f.cur, w)
      A == With(V, g.cur, w)
  IN /\ NBlocks(f) <= NBlocks(g)
     /\ \A b \in 1 .. NBlocks(f) : b # n + 1 => Before(g, A, b) = Before(f, B, b)
     /\ Before(g, A, n + 1) = Before(f, B, n + 1) \cup (IF some THEN Past(f, B, f.cur) ELSE {})
     /\ Past(g, A, g.cur) = Past(f, B, f.cur)
     /\ EdgesOf(g, A) = EdgesOf(f, B)
     /\ Codes(g.blocks[n + 1]) = {} /\ OutOf(V, g.cur) = {}
     /\ Kept(f, g, f.cur) /\ (g.cur = f.cur \/ g.cur \notin 1 .. NBlocks(f))

LEMMA OneTestFlow ==
  ASSUME NEW f, NEW P, Sound(f, P), ~Terminated(f), NEW n \in Nat \ {0}, n + 1 \in P,
         NEW V \in Ways(n), OutOf(V, f.cur) = {}, NEW w \in 0 .. n, Codes(f.blocks[n + 1]) = {},
         NEW g, g = LabelTest(f, n + 1)
  PROVE  TestedFlow(f, n, V, w, g, TRUE)
<1> DEFINE N == NBlocks(f)
           c == f.cur
           body == n + 1
           next == N + 1
           a == Fresh(f, 1)
           P1 == P \cup (N + 1 .. N + 1)
           in == Jump("condbr", <<body, next>>)
           b == Put(a, in)
           B == With(V, c, w)
           A == With(V, next, w)
           E == Succ(a, B)
           F == Succ(g, A)
           K == Said(a)
<1>1. /\ N \in Nat \ {0} /\ P \in SUBSET (1 .. N) /\ c \in 1 .. N /\ c \notin P
  BY SoundSize DEF Sound
<1>2. /\ body \in 1 .. N /\ body \in P /\ body # c /\ n <= N /\ N <= next
      /\ next \in 1 .. next /\ body \in 1 .. next /\ c \in 1 .. next /\ next \in Nat
      /\ next \notin 1 .. N /\ body \notin 1 .. n /\ next \notin 1 .. n
      /\ body # next /\ c # next /\ w \in 0 .. N /\ w \in 0 .. next /\ body \in Nat
      /\ \A x \in 1 .. N : x \in 1 .. next /\ x # next
      /\ \A x \in 1 .. next : x # next => x \in 1 .. N
  BY <1>1
<1>3. V \in Ways(N) /\ V \in Ways(next) /\ \A x : x \notin 1 .. n => OutOf(V, x) = {}
  BY <1>1, <1>2, NewQuiet
<1>4. B \in Ways(N) /\ A \in Ways(next) /\ B \in Ways(next)
  BY <1>1, <1>2, <1>3, WithWays
<1>5. \A x : /\ OutOf(B, x) = OutOf(V, x) \cup (IF x = c /\ w # 0 THEN {w} ELSE {})
             /\ OutOf(A, x) = OutOf(V, x) \cup (IF x = next /\ w # 0 THEN {w} ELSE {})
  <2>1. CASE w # 0
    BY <2>1, WithLeads
  <2>2. CASE w = 0
    BY <2>2 DEF With
  <2> QED BY <2>1, <2>2
<1> HIDE DEF A, B
<1>6. Sound(a, P1) /\ a.cur = c /\ NBlocks(a) = next /\ ~Terminated(a)
      /\ Spread(f, B, a) /\ Widened(f, 1, a)
  BY <1>4, FreshStep, FreshFlow
<1>7. g = At(b, next)
  BY DEF LabelTest, CondBr
<1> HIDE DEF a, P1
<1>8. in \in Ins /\ in.op = "condbr" /\ {in.to[k] : k \in DOMAIN in.to} = {body, next}
  <2>1. <<body, next>> \in Seq(Nat) /\ in.to = <<body, next>>
    BY <1>2 DEF Jump
  <2>2. DOMAIN in.to = {1, 2} /\ in.to[1] = body /\ in.to[2] = next
    BY <2>1
  <2>3. {in.to[k] : k \in DOMAIN in.to} = {body, next}
    <3> HIDE DEF in
    <3> QED BY <2>2
  <2> QED BY <2>1, <2>3 DEF Jump, Terminators, Ins
<1> HIDE DEF in, body, next, N
<1>9. a \in IR /\ a.cur \in 1 .. NBlocks(a) /\ a.blocks[c] \in Seq(Ins) /\ GoodBlock(a.blocks[c], next)
      /\ ~Ended(a.blocks[c])
  <2>1. \A x \in 1 .. NBlocks(a) : a.blocks[x] \in Seq(Ins)
    BY <1>6, SaidIs
  <2> QED BY <1>2, <1>6, <2>1, TerminatedIs DEF Sound
<1>10. /\ b \in IR /\ NBlocks(b) = next /\ b.blocks[c] = Append(a.blocks[c], in)
       /\ \A x \in 1 .. next : x # c => b.blocks[x] = a.blocks[x]
  <2>1. /\ Put(a, in) \in IR /\ NBlocks(Put(a, in)) = NBlocks(a)
        /\ Put(a, in).blocks[a.cur] = Append(a.blocks[a.cur], in)
        /\ \A x \in 1 .. NBlocks(a) : x # a.cur => Put(a, in).blocks[x] = a.blocks[x]
    <3> HIDE DEF E, F, K
    <3> QED BY <1>8, <1>9, PutIs
  <2>2. a.cur = c /\ NBlocks(a) = next
    BY <1>6
  <2> HIDE DEF c
  <2> QED BY <2>1, <2>2
<1> HIDE DEF b
<1>11. g.blocks = b.blocks /\ g.cur = next /\ NBlocks(g) = next
  BY <1>7, <1>10 DEF At, IR, NBlocks
<1>12. Targets(g.blocks[c]) = {body, next}
  <2>1. g.blocks[c] # <<>> /\ g.blocks[c][Len(g.blocks[c])] = in
    <3> DEFINE is == a.blocks[c]
               js == g.blocks[c]
    <3>1. js = Append(is, in) /\ is \in Seq(Ins)
      BY <1>9, <1>10, <1>11
    <3> HIDE DEF is, js
    <3>2. js # <<>> /\ js[Len(js)] = in
      BY <1>8, <3>1
    <3> QED BY <3>2 DEF js
  <2> QED BY <1>8, <2>1 DEF Targets
<1>13. \A x \in 1 .. next :
         /\ Codes(g.blocks[x]) = Codes(a.blocks[x]) /\ LastOf(g.blocks[x]) = LastOf(a.blocks[x])
         /\ FirstOf(g.blocks[x]) = FirstOf(a.blocks[x]) /\ InTurn(g.blocks[x]) = InTurn(a.blocks[x])
  <2>1. /\ Codes(g.blocks[c]) = Codes(a.blocks[c]) /\ LastOf(g.blocks[c]) = LastOf(a.blocks[c])
        /\ FirstOf(g.blocks[c]) = FirstOf(a.blocks[c]) /\ InTurn(g.blocks[c]) = InTurn(a.blocks[c])
    <3> DEFINE is == a.blocks[c]
               js == g.blocks[c]
    <3>1. js = Append(is, in) /\ is \in Seq(Ins) /\ in.op # "code"
      BY <1>8, <1>9, <1>10, <1>11
    <3> HIDE DEF is, js
    <3>2. Codes(js) = Codes(is) /\ LastOf(js) = LastOf(is) /\ FirstOf(js) = FirstOf(is) /\ InTurn(js) = InTurn(is)
      BY <1>8, <3>1, EndSaid
    <3> QED BY <3>2 DEF is, js
  <2> QED BY <1>10, <1>11, <2>1
<1>14. Said(g) = K
  BY <1>6, <1>11, <1>13 DEF Said
<1>15. Codes(a.blocks[next]) = {} /\ Codes(a.blocks[body]) = {} /\ a.blocks[next] = <<>>
  <2>1. a.blocks[body] = f.blocks[body]
    BY <1>2, <1>6 DEF Widened, N
  <2>2. a.blocks[next] = <<>>
    <3>1. next \in N + 1 .. N + 1
      BY <1>1 DEF next
    <3> QED BY <1>6, <3>1 DEF Widened, N
  <2> QED BY <2>1, <2>2, NothingSaid DEF body
<1>16. K \in [1 .. next -> SUBSET Nat] /\ K[body] = {} /\ K[next] = {}
  <2>1. K \in [1 .. next -> SUBSET Nat]
    BY <1>6, SaidIs
  <2> QED BY <1>2, <1>6, <1>15, <2>1 DEF Said, LastOf
<1>17. E \in [1 .. next -> SUBSET (1 .. next)]
  BY <1>4, <1>6, SuccIs
<1>18. \A x \in 1 .. next : E[x] = Targets(a.blocks[x]) \cup OutOf(B, x)
                            /\ F[x] = Targets(g.blocks[x]) \cup OutOf(A, x)
  BY <1>6, <1>11 DEF Succ
<1>19. E[body] = {} /\ E[next] = {} /\ Targets(a.blocks[c]) = {}
  <2>1. OutOf(B, body) = {} /\ OutOf(B, next) = {}
    BY <1>2, <1>3, <1>5
  <2>2. Succ(a, B)[body] = {}
    <3>1. ~Ended(a.blocks[body])
      <4>1. body \in P1
        BY <1>2 DEF P1
      <4> QED BY <1>2, <1>6, <4>1 DEF Sound
    <3> QED BY <1>2, <1>6, <2>1, <3>1, OpenQuiet
  <2>3. E[next] = {}
    BY <1>2, <1>15, <1>18, <2>1, NothingSaid
  <2>4. Targets(a.blocks[c]) = {}
    <3>1. OutOf({}, c) = {}
      BY DEF OutOf
    <3> QED BY <1>2, <1>6, <1>9, <3>1, OpenQuiet
  <2> QED BY <2>2, <2>3, <2>4
<1>20. \A x \in 1 .. next : next \notin E[x]
  <2> SUFFICES ASSUME NEW x \in 1 .. next PROVE next \notin E[x]
    OBVIOUS
  <2>1. CASE x = next
    BY <1>19, <2>1
  <2>2. CASE x # next
    <3>1. x \in 1 .. N /\ a.blocks[x] = f.blocks[x]
      BY <1>2, <1>6, <2>2 DEF Widened, N
    <3>2. Succ(f, B)[x] \in SUBSET (1 .. N)
      <4>1. Succ(f, B) \in [1 .. N -> SUBSET (1 .. N)]
        BY <1>4, SuccIs DEF N
      <4> QED BY <3>1, <4>1
    <3>3. E[x] = Succ(f, B)[x]
      BY <1>18, <3>1 DEF Succ, N
    <3> QED BY <1>2, <3>2, <3>3
  <2> QED BY <2>1, <2>2
<1>21. /\ F[c] = {body, next} /\ F[next] = E[c]
       /\ \A x \in 1 .. next : x \notin {c, next} => F[x] = E[x]
  <2>1. F[c] = {body, next}
    BY <1>2, <1>5, <1>12, <1>18 DEF c
  <2>2. F[next] = E[c]
    <3>1. Targets(g.blocks[next]) = {}
      BY <1>2, <1>10, <1>11, <1>15, NothingSaid
    <3>2. OutOf(A, next) = OutOf(B, c)
      BY <1>2, <1>3, <1>5 DEF c
    <3> QED BY <1>2, <1>18, <1>19, <3>1, <3>2
  <2>3. ASSUME NEW x \in 1 .. next, x \notin {c, next} PROVE F[x] = E[x]
    BY <1>5, <1>10, <1>11, <1>18, <2>3
  <2> QED BY <2>1, <2>2, <2>3
<1>22. F \in [1 .. next -> SUBSET (1 .. next)]
  <2>1. DOMAIN F = 1 .. next /\ F = [x \in 1 .. next |-> F[x]]
    BY <1>11 DEF Succ
  <2>2. \A x \in 1 .. next : F[x] \in SUBSET (1 .. next)
    BY <1>2, <1>17, <1>21
  <2> HIDE DEF F
  <2> QED BY <2>1, <2>2
<1> HIDE DEF E, F, K, c
<1>23. TestAdded(next, E, F, K, c, body, next)
  BY <1>2, <1>16, <1>17, <1>19, <1>20, <1>21, <1>22 DEF TestAdded
<1>24. /\ \A x \in 1 .. next : x \notin {body, next} => Arrive(F, K, x) = Arrive(E, K, x)
       /\ Arrive(F, K, body) = Arrive(E, K, body) \cup Leave(E, K, c)
       /\ Arrive(F, K, next) = Leave(E, K, c)
  BY <1>23, TestArrives
<1> DEFINE L == Past(f, B, c)
<1>25. /\ \A x : Arrive(E, K, x) = Before(a, B, x) /\ Arrive(F, K, x) = Before(g, A, x)
       /\ Leave(E, K, c) = L
  <2>1. \A x : Arrive(E, K, x) = Before(a, B, x) /\ Arrive(F, K, x) = Before(g, A, x)
    BY <1>14 DEF Before, E, F, K
  <2>2. Leave(E, K, c) = Past(a, B, c)
    BY DEF Past, E, K
  <2>3. Past(a, B, c) = L
    BY <1>1, <1>6 DEF Spread, N
  <2> QED BY <2>1, <2>2, <2>3
<1> HIDE DEF L
<1>26. /\ \A x \in 1 .. N : Before(a, B, x) = Before(f, B, x)
       /\ EdgesOf(a, B) = EdgesOf(f, B)
  BY <1>6 DEF Spread, N
<1>27. \A x \in 1 .. N : x # body => Before(g, A, x) = Before(f, B, x)
  BY <1>2, <1>24, <1>25, <1>26
<1>28. Before(g, A, body) = Before(f, B, body) \cup L
  BY <1>2, <1>24, <1>25, <1>26
<1>29. Codes(g.blocks[next]) = {} /\ Codes(g.blocks[body]) = {}
  BY <1>2, <1>13, <1>15
<1>30. Past(g, A, next) = L
  BY <1>2, <1>11, <1>24, <1>25, <1>29, PastIs
<1>31. EdgesOf(g, A) = EdgesOf(f, B)
  <2>1. ASSUME NEW x \in 1 .. next
        PROVE  Before(g, A, x) \X FirstOf(g.blocks[x]) = Before(a, B, x) \X FirstOf(a.blocks[x])
    <3>1. CASE x \in {body, next}
      <4>1. FirstOf(g.blocks[x]) = {} /\ FirstOf(a.blocks[x]) = {}
        BY <1>15, <1>29, <3>1 DEF FirstOf
      <4> QED BY <4>1
    <3>2. CASE x \notin {body, next}
      BY <1>13, <1>24, <1>25, <3>2
    <3> QED BY <3>1, <3>2
  <2>2. ASSUME NEW x \in 1 .. next
        PROVE  InTurn(g.blocks[x]) \cup (Before(g, A, x) \X FirstOf(g.blocks[x]))
                 = InTurn(a.blocks[x]) \cup (Before(a, B, x) \X FirstOf(a.blocks[x]))
    BY <1>13, <2>1
  <2>3. EdgesOf(g, A) = EdgesOf(a, B)
    BY <1>6, <1>11, <2>2 DEF EdgesOf
  <2> QED BY <1>26, <2>3
<1>32. Kept(f, g, f.cur)
  <2>1. \A x \in 1 .. N : a.blocks[x] = f.blocks[x]
    BY <1>6 DEF Widened, N
  <2>2. \A x \in 1 .. N : x # c \/ Ended(f.blocks[x]) => g.blocks[x] = f.blocks[x]
    BY <1>2, <1>9, <1>10, <1>11, <2>1
  <2> QED BY <1>2, <1>11, <2>2 DEF Kept, N, c
<1>33. OutOf(V, next) = {}
  BY <1>2, <1>3
<1> QED BY <1>2, <1>11, <1>27, <1>28, <1>29, <1>30, <1>31, <1>32, <1>33
       DEF TestedFlow, A, B, L, N, c, body

LEMMA TestedFlowOn ==
  ASSUME NEW f, NEW n, NEW V, NEW w, NEW g, NEW s, TestedFlow(f, n, V, w, g, s),
         NEW h, TestedFlow(g, n, V, w, h, TRUE), n + 1 \in 1 .. NBlocks(f),
         NBlocks(f) \in Nat, NBlocks(g) \in Nat, NBlocks(h) \in Nat
  PROVE  TestedFlow(f, n, V, w, h, TRUE)
<1> DEFINE B == With(V, f.cur, w)
           A == With(V, g.cur, w)
           C == With(V, h.cur, w)
           L == Past(f, B, f.cur)
<1>1. /\ NBlocks(f) <= NBlocks(g)
      /\ \A b \in 1 .. NBlocks(f) : b # n + 1 => Before(g, A, b) = Before(f, B, b)
      /\ Before(g, A, n + 1) = Before(f, B, n + 1) \cup (IF s THEN L ELSE {})
      /\ Past(g, A, g.cur) = L /\ EdgesOf(g, A) = EdgesOf(f, B)
      /\ Kept(f, g, f.cur) /\ (g.cur = f.cur \/ g.cur \notin 1 .. NBlocks(f))
  BY DEF TestedFlow
<1>2. /\ NBlocks(g) <= NBlocks(h)
      /\ \A b \in 1 .. NBlocks(g) : b # n + 1 => Before(h, C, b) = Before(g, A, b)
      /\ Before(h, C, n + 1) = Before(g, A, n + 1) \cup Past(g, A, g.cur)
      /\ Past(h, C, h.cur) = Past(g, A, g.cur) /\ EdgesOf(h, C) = EdgesOf(g, A)
      /\ Codes(h.blocks[n + 1]) = {} /\ OutOf(V, h.cur) = {}
      /\ Kept(g, h, g.cur) /\ (h.cur = g.cur \/ h.cur \notin 1 .. NBlocks(g))
  BY DEF TestedFlow
<1> HIDE DEF A, B, C, L
<1>3. \A b \in 1 .. NBlocks(f) : b \in 1 .. NBlocks(g)
  BY <1>1
<1>4. \A b \in 1 .. NBlocks(f) : b # n + 1 => Before(h, C, b) = Before(f, B, b)
  BY <1>1, <1>2, <1>3
<1>5. Before(h, C, n + 1) = Before(f, B, n + 1) \cup L
  BY <1>1, <1>2
<1>6. Kept(f, h, f.cur)
  BY <1>1, <1>2, KeptKept
<1>7. NBlocks(f) <= NBlocks(h) /\ (h.cur = f.cur \/ h.cur \notin 1 .. NBlocks(f))
  BY <1>1, <1>2, <1>3
<1> QED BY <1>1, <1>2, <1>4, <1>5, <1>6, <1>7 DEF TestedFlow, A, B, C, L

LEMMA ChainFlow ==
  ASSUME NEW f, NEW P, Sound(f, P), ~Terminated(f), NEW n \in Nat \ {0}, n + 1 \in P,
         NEW V \in Ways(n), OutOf(V, f.cur) = {}, NEW w \in 0 .. n, Codes(f.blocks[n + 1]) = {},
         NEW m \in Nat, NEW c, IsChain(c, f, n + 1, m), NEW k \in 0 .. m
  PROVE  TestedFlow(f, n, V, w, c[k], k > 0)
<1> DEFINE T == {j \in Nat : j <= m => TestedFlow(f, n, V, w, c[j], j > 0)}
<1>0. n + 1 \in 1 .. NBlocks(f) /\ NBlocks(f) \in Nat
  BY SoundSize DEF Sound
<1>1. 0 \in T
  <2>1. c[0] = f
    BY DEF IsChain
  <2>2. (0 > 0) = FALSE
    OBVIOUS
  <2>3. Kept(f, f, f.cur) /\ NBlocks(f) <= NBlocks(f)
    BY <1>0 DEF Kept
  <2>4. TestedFlow(f, n, V, w, f, FALSE)
    BY <2>3 DEF TestedFlow
  <2>5. TestedFlow(f, n, V, w, c[0], 0 > 0)
    BY <2>1, <2>2, <2>4
  <2> QED BY <2>5
<1>2. ASSUME NEW j \in T PROVE j + 1 \in T
  <2>1. SUFFICES ASSUME j + 1 <= m PROVE TestedFlow(f, n, V, w, c[j + 1], j + 1 > 0)
    OBVIOUS
  <2>2. j \in Nat /\ j <= m /\ j \in 0 .. m /\ j + 1 \in 0 .. m /\ j + 1 # 0 /\ (j + 1) - 1 = j
        /\ (j + 1 > 0) = TRUE
    BY <2>1
  <2>3. c[j + 1] = LabelTest(c[j], n + 1)
    BY <2>2 DEF IsChain
  <2>4. Sound(c[j], P) /\ ~Terminated(c[j]) /\ NBlocks(c[j]) \in Nat
    <3>1. Tested(f, P, n, c[j], j > 0)
      BY <2>2, ChainTested
    <3> QED BY <3>1, SoundSize DEF Tested
  <2>5. Sound(c[j + 1], P) /\ NBlocks(c[j + 1]) \in Nat
    <3>1. Tested(f, P, n, c[j + 1], j + 1 > 0)
      BY <2>2, ChainTested
    <3> QED BY <3>1, SoundSize DEF Tested
  <2>6. TestedFlow(f, n, V, w, c[j], j > 0)
    BY <2>2
  <2>7. OutOf(V, c[j].cur) = {} /\ Codes(c[j].blocks[n + 1]) = {}
    BY <2>6 DEF TestedFlow
  <2>8. TestedFlow(c[j], n, V, w, c[j + 1], TRUE)
    BY <2>3, <2>4, <2>7, OneTestFlow
  <2>9. TestedFlow(f, n, V, w, c[j + 1], TRUE)
    <3> DEFINE s == j > 0
    <3> HIDE DEF s
    <3>1. TestedFlow(f, n, V, w, c[j], s)
      BY <2>6 DEF s
    <3> QED BY <1>0, <2>4, <2>5, <2>8, <3>1, TestedFlowOn
  <2> QED BY <2>2, <2>9
<1>3. T \in SUBSET Nat
  OBVIOUS
<1>4. k \in T
  <2> HIDE DEF T
  <2> QED BY <1>1, <1>2, <1>3, AllOfNat
<1> QED BY <1>4

\* A way from the cursor to a block that waits for it.
LEMMA WayFlow ==
  ASSUME NEW f, NEW P, Sound(f, P), ~Terminated(f), NEW V \in Ways(NBlocks(f)), OutOf(V, f.cur) = {},
         NEW t, t \in P, OutOf(V, t) = {}, Codes(f.blocks[t]) = {}, NEW W, W = With(V, f.cur, t)
  PROVE  /\ EdgesOf(f, W) = EdgesOf(f, V)
         /\ \A b \in 1 .. NBlocks(f) :
              Before(f, W, b) = Before(f, V, b) \cup (IF b = t THEN Past(f, V, f.cur) ELSE {})
<1> DEFINE n == NBlocks(f)
           c == f.cur
           E == Succ(f, V)
           F == Succ(f, W)
           K == Said(f)
           L == Past(f, V, c)
<1>1. n \in Nat \ {0} /\ t \in 1 .. n /\ c \in 1 .. n /\ t # c /\ t # 0 /\ t \in 0 .. n
  <2>1. NBlocks(f) \in Nat \ {0} /\ f.cur \in 1 .. NBlocks(f) /\ t \in 1 .. NBlocks(f) /\ t # f.cur
    BY SoundSize DEF Sound
  <2> HIDE DEF E, F, K, L
  <2> QED BY <2>1
<1>2. W \in Ways(n)
  BY <1>1, WithWays
<1>3. E \in [1 .. n -> SUBSET (1 .. n)] /\ F \in [1 .. n -> SUBSET (1 .. n)]
  BY <1>2, SuccIs
<1>4. \A b : OutOf(W, b) = OutOf(V, b) \cup (IF b = c THEN {t} ELSE {})
  BY <1>1, WithLeads
<1>5. \A b \in 1 .. n : F[b] = E[b] \cup (IF b = c THEN {t} ELSE {})
  BY <1>4 DEF Succ
<1>6. E[c] = {} /\ E[t] = {}
  <2>1. ~Ended(f.blocks[c]) /\ ~Ended(f.blocks[t])
    BY <1>1, TerminatedIs DEF Sound
  <2> QED BY <1>1, <2>1, OpenQuiet
<1>7. K \in [1 .. n -> SUBSET Nat]
  BY SaidIs
<1> HIDE DEF E, F, K, n, c
<1>8. EdgesAdded(n, E, F, K, c)
  BY <1>1, <1>3, <1>5, <1>6, <1>7 DEF EdgesAdded
<1>9. \A b \in 1 .. n : Arrive(F, K, b) = Arrive(E, K, b) \cup (IF b \in F[c] THEN Leave(E, K, c) ELSE {})
  BY <1>8, EdgesArrive
<1>10. F[c] = {t}
  BY <1>1, <1>5, <1>6
<1>11. \A b : Arrive(F, K, b) = Before(f, W, b) /\ Arrive(E, K, b) = Before(f, V, b)
  BY DEF Before, E, F, K
<1>12. Leave(E, K, c) = L
  BY DEF Past, E, K
<1> HIDE DEF L
<1>13. \A b \in 1 .. n : Before(f, W, b) = Before(f, V, b) \cup (IF b = t THEN L ELSE {})
  BY <1>9, <1>10, <1>11, <1>12
<1>14. FirstOf(f.blocks[t]) = {}
  BY DEF FirstOf
<1>15. \A b \in 1 .. n : Before(f, W, b) \X FirstOf(f.blocks[b]) = Before(f, V, b) \X FirstOf(f.blocks[b])
  <2> SUFFICES ASSUME NEW b \in 1 .. n
               PROVE  Before(f, W, b) \X FirstOf(f.blocks[b]) = Before(f, V, b) \X FirstOf(f.blocks[b])
    OBVIOUS
  <2>1. CASE b = t
    BY <1>14, <2>1
  <2>2. CASE b # t
    BY <1>13, <2>2
  <2> QED BY <2>1, <2>2
<1>16. EdgesOf(f, W) = EdgesOf(f, V)
  <2>1. \A b \in 1 .. NBlocks(f) :
          InTurn(f.blocks[b]) \cup (Before(f, W, b) \X FirstOf(f.blocks[b]))
            = InTurn(f.blocks[b]) \cup (Before(f, V, b) \X FirstOf(f.blocks[b]))
    BY <1>15 DEF n
  <2> QED BY <2>1 DEF EdgesOf
<1> QED BY <1>13, <1>16 DEF n, c, L

\* An arm of a match: control comes to it and to where the next test goes.
ArmLeads(f, n, V, w, w2, t, h) ==
  LET B == With(V, f.cur, w)
      A == With(V, t.cur, w2)
  IN /\ \A b \in 1 .. n : Before(h, A, b) = Before(f, B, b)
     /\ Past(h, A, t.cur) = Past(f, B, f.cur) /\ Past(h, A, h.cur) = Past(f, B, f.cur)
     /\ EdgesOf(h, A) = EdgesOf(f, B)
     /\ Kept(f, h, f.cur)

LEMMA ArmSays ==
  ASSUME NEW f, NEW P, Sound(f, P), ~Terminated(f), NEW n, NEW k \in Nat \ {0},
         NEW isWild \in BOOLEAN, NEW t, NEW h, ArmIs(f, k, isWild, n, t, h),
         NEW V \in Ways(n), OutOf(V, f.cur) = {}, NEW w \in 0 .. n, isWild => w = 0,
         NEW w2, w2 = IF isWild THEN n + 1 ELSE w
  PROVE  ArmLeads(f, n, V, w, w2, t, h)
<1> DEFINE a == Fresh(f, 1)
           P1 == P \cup (n + 1 .. n + 1)
           m == IF isWild THEN 0 ELSE k
           B == With(V, f.cur, w)
           A == With(V, t.cur, w2)
           L == Past(f, B, f.cur)
<1>1. n \in Nat \ {0} /\ n = NBlocks(f) /\ f.cur \in 1 .. n /\ m \in Nat /\ (~isWild => m > 0)
  <2>1. NBlocks(f) \in Nat \ {0} /\ f.cur \in 1 .. NBlocks(f)
    BY SoundSize DEF Sound
  <2>2. n = NBlocks(f)
    BY DEF ArmIs
  <2>3. k > 0
    OBVIOUS
  <2> QED BY <2>1, <2>2, <2>3
<1>2. /\ n + 1 \in P1 /\ n + 1 \in 1 .. n + 1 /\ n + 1 \notin 1 .. n /\ n <= n + 1 /\ n + 1 # f.cur
      /\ \A b \in 1 .. n : b \in 1 .. n + 1 /\ b # n + 1
      /\ \A b \in 1 .. n + 1 : b # n + 1 => b \in 1 .. n
  BY <1>1
<1>3. B \in Ways(n)
  BY <1>1, WithWays
<1> HIDE DEF A, B, L, m
<1>4. /\ Sound(a, P1) /\ NBlocks(a) = n + 1 /\ a.cur = f.cur /\ ~Terminated(a)
      /\ Spread(f, B, a) /\ Widened(f, 1, a)
  BY <1>1, <1>3, FreshStep, FreshFlow
<1>5. t = LabelTests(a, n + 1, m) /\ h = At(t, n + 1)
  BY DEF ArmIs, m
<1> HIDE DEF a, P1
<1>6. /\ \A b \in 1 .. n : Before(a, B, b) = Before(f, B, b) /\ a.blocks[b] = f.blocks[b]
      /\ Before(a, B, n + 1) = {} /\ Codes(a.blocks[n + 1]) = {}
      /\ EdgesOf(a, B) = EdgesOf(f, B) /\ Past(a, B, f.cur) = L
  BY <1>1, <1>2, <1>4 DEF Spread, Widened, L
<1>7. Sound(t, P1) /\ n + 1 <= NBlocks(t) /\ NBlocks(t) \in Nat /\ n + 1 \in 1 .. NBlocks(t)
      /\ t.cur \in 1 .. NBlocks(t) /\ t.cur # n + 1
  <2>1. Tested(a, P1, n, t, m > 0)
    BY <1>1, <1>2, <1>4, <1>5, LabelTestsIs
  <2>2. Sound(t, P1) /\ n + 1 <= NBlocks(t)
    BY <2>1 DEF Tested
  <2>3. NBlocks(t) \in Nat /\ t.cur \in 1 .. NBlocks(t) /\ t.cur \notin P1
    BY <2>2, SoundSize DEF Sound
  <2> QED BY <1>1, <1>2, <2>2, <2>3
<1>8. /\ \A b \in 1 .. n : Before(t, A, b) = Before(f, B, b)
      /\ Before(t, A, n + 1) = L /\ Past(t, A, t.cur) = L /\ EdgesOf(t, A) = EdgesOf(f, B)
      /\ Codes(t.blocks[n + 1]) = {} /\ Kept(f, t, f.cur)
  <2>1. CASE ~isWild
    <3>1. TestedFlow(a, n, V, w, t, TRUE)
      <4> DEFINE c == CHOOSE d : IsChain(d, a, n + 1, m)
      <4>1. IsChain(c, a, n + 1, m)
        BY <1>1, ChainIs
      <4>2. t = c[m]
        BY <1>5 DEF LabelTests, IsChain
      <4> HIDE DEF c
      <4>3. m \in 0 .. m /\ (m > 0) = TRUE
        BY <1>1, <2>1
      <4>4. TestedFlow(a, n, V, w, c[m], m > 0)
        BY <1>1, <1>2, <1>4, <1>6, <4>1, <4>3, ChainFlow
      <4> QED BY <4>2, <4>3, <4>4
    <3>2. With(V, a.cur, w) = B /\ With(V, t.cur, w) = A
      BY <1>4, <2>1 DEF A, B
    <3>3. /\ \A b \in 1 .. n + 1 : b # n + 1 => Before(t, A, b) = Before(a, B, b)
          /\ Before(t, A, n + 1) = Before(a, B, n + 1) \cup Past(a, B, f.cur)
          /\ Past(t, A, t.cur) = Past(a, B, f.cur) /\ EdgesOf(t, A) = EdgesOf(a, B)
          /\ Codes(t.blocks[n + 1]) = {} /\ Kept(a, t, f.cur)
      BY <1>4, <3>1, <3>2 DEF TestedFlow
    <3>4. Kept(f, t, f.cur)
      <4>1. Kept(f, a, f.cur)
        BY <1>4 DEF Spread
      <4> QED BY <1>1, <1>4, <1>7, <3>3, <4>1, KeptKept
    <3> QED BY <1>2, <1>6, <3>3, <3>4
  <2>2. CASE isWild
    <3>1. t = a
      BY <1>5, <2>2, NoLabels DEF m
    <3>2. B = V /\ A = With(V, a.cur, n + 1)
      BY <1>4, <2>2, <3>1 DEF A, B, With
    <3>3. V \in Ways(NBlocks(a)) /\ OutOf(V, n + 1) = {} /\ OutOf(V, a.cur) = {}
      BY <1>1, <1>2, <1>4, NewQuiet
    <3>4. /\ EdgesOf(a, A) = EdgesOf(a, B)
          /\ \A b \in 1 .. n + 1 :
               Before(a, A, b) = Before(a, B, b) \cup (IF b = n + 1 THEN L ELSE {})
      <4> DEFINE x == n + 1
      <4>1. x \in P1 /\ OutOf(V, x) = {} /\ Codes(a.blocks[x]) = {} /\ NBlocks(a) = x
            /\ A = With(V, a.cur, x)
        BY <1>2, <1>4, <1>6, <3>2, <3>3
      <4> HIDE DEF x
      <4>2. /\ EdgesOf(a, A) = EdgesOf(a, V)
            /\ \A b \in 1 .. NBlocks(a) :
                 Before(a, A, b) = Before(a, V, b) \cup (IF b = x THEN Past(a, V, a.cur) ELSE {})
        BY <1>4, <3>3, <4>1, WayFlow
      <4>3. Past(a, V, a.cur) = L
        BY <1>4, <1>6, <3>2
      <4> QED BY <3>2, <4>1, <4>2, <4>3 DEF x
    <3>5. Past(a, A, f.cur) = Past(a, B, f.cur)
      <4>1. f.cur \in 1 .. NBlocks(a) /\ Before(a, A, f.cur) = Before(a, B, f.cur)
        BY <1>1, <1>2, <1>4, <3>4
      <4> QED BY <4>1, PastIs
    <3>6. Kept(f, a, f.cur)
      BY <1>4 DEF Spread
    <3> QED BY <1>2, <1>4, <1>6, <3>1, <3>4, <3>5, <3>6
  <2> QED BY <2>1, <2>2
<1>9. /\ h.blocks = t.blocks /\ NBlocks(h) = NBlocks(t) /\ EdgesOf(h, A) = EdgesOf(t, A) /\ h.cur = n + 1
      /\ \A x : Before(h, A, x) = Before(t, A, x) /\ Past(h, A, x) = Past(t, A, x)
  <2>1. h.cur = n + 1
    BY <1>5, <1>7 DEF At, Sound, IR
  <2> QED BY <1>5, <1>7, <2>1, AtFlow
<1>10. Past(t, A, n + 1) = L
  BY <1>7, <1>8, PastIs
<1>11. Kept(f, h, f.cur)
  BY <1>8, <1>9 DEF Kept
<1> QED BY <1>8, <1>9, <1>10, <1>11 DEF ArmLeads, A, B, L

\* The end of a match with a wildcard: the way to its arm becomes a jump.
LEMMA WildSays ==
  ASSUME NEW f, NEW P, Sound(f, P), ~Terminated(f), NEW V \in Ways(NBlocks(f)),
         NEW w \in 1 .. NBlocks(f), NEW B, B = With(V, f.cur, w), NEW g, g = Br(f, w)
  PROVE  /\ NBlocks(g) = NBlocks(f) /\ EdgesOf(g, V) = EdgesOf(f, B) /\ Kept(f, g, f.cur)
         /\ \A b : Before(g, V, b) = Before(f, B, b)
         /\ \A b \in 1 .. NBlocks(f) : Codes(g.blocks[b]) = Codes(f.blocks[b])
                                       /\ FirstOf(g.blocks[b]) = FirstOf(f.blocks[b])
<1> DEFINE n == NBlocks(f)
           c == f.cur
           in == Jump("br", <<w>>)
           is == f.blocks[c]
           js == g.blocks[c]
<1>1. n \in Nat \ {0} /\ w # 0 /\ w \in Nat /\ f \in IR /\ c \in 1 .. n /\ is \in Seq(Ins) /\ ~Ended(is)
  <2>1. \A b \in 1 .. NBlocks(f) : f.blocks[b] \in Seq(Ins)
    BY SaidIs
  <2>2. NBlocks(f) \in Nat \ {0}
    BY SoundSize
  <2>3. f \in IR /\ f.cur \in 1 .. NBlocks(f)
    BY DEF Sound
  <2>4. ~Ended(f.blocks[f.cur])
    BY TerminatedIs
  <2>5. w # 0 /\ w \in Nat
    BY <2>2
  <2> QED BY <2>1, <2>2, <2>3, <2>4, <2>5
<1>2. in \in Ins /\ in.op = "br" /\ in.to = <<w>>
  BY <1>1 DEF Jump, Ins, Terminators
<1> HIDE DEF in
<1>3. {in.to[k] : k \in DOMAIN in.to} = {w}
  BY <1>2
<1>4. /\ NBlocks(g) = n /\ js = Append(is, in)
      /\ \A b \in 1 .. n : b # c => g.blocks[b] = f.blocks[b]
  <2>1. g = Put(f, in)
    BY DEF Br, in
  <2> QED BY <1>1, <1>2, <2>1, PutIs
<1>5. Codes(js) = Codes(is) /\ LastOf(js) = LastOf(is) /\ FirstOf(js) = FirstOf(is) /\ InTurn(js) = InTurn(is)
      /\ Targets(js) = {w}
  <2> HIDE DEF is, js
  <2>1. Codes(js) = Codes(is) /\ LastOf(js) = LastOf(is) /\ FirstOf(js) = FirstOf(is) /\ InTurn(js) = InTurn(is)
    BY <1>1, <1>2, <1>4, EndSaid
  <2>2. js # <<>> /\ js[Len(js)] = in
    BY <1>1, <1>2, <1>4
  <2>3. Targets(js) = {w}
    BY <1>3, <2>2 DEF Targets
  <2> QED BY <2>1, <2>3
<1>6. Targets(is) = {}
  <2>1. OutOf({}, c) = {}
    BY DEF OutOf
  <2> QED BY <1>1, <2>1, OpenQuiet
<1>7. \A b : OutOf(B, b) = OutOf(V, b) \cup (IF b = c THEN {w} ELSE {})
  BY <1>1, WithLeads
<1>8. \A b \in 1 .. n : Targets(g.blocks[b]) \cup OutOf(V, b) = Targets(f.blocks[b]) \cup OutOf(B, b)
  BY <1>4, <1>5, <1>6, <1>7
<1>9. \A b \in 1 .. n : /\ Codes(g.blocks[b]) = Codes(f.blocks[b]) /\ LastOf(g.blocks[b]) = LastOf(f.blocks[b])
                        /\ FirstOf(g.blocks[b]) = FirstOf(f.blocks[b])
                        /\ InTurn(g.blocks[b]) = InTurn(f.blocks[b])
  BY <1>4, <1>5
<1>10. Succ(g, V) = Succ(f, B) /\ Said(g) = Said(f)
  BY <1>4, <1>8, <1>9 DEF Succ, Said
<1>11. \A b : Before(g, V, b) = Before(f, B, b)
  BY <1>10 DEF Before
<1>12. EdgesOf(g, V) = EdgesOf(f, B)
  <2>1. \A b \in 1 .. NBlocks(f) :
          InTurn(g.blocks[b]) \cup (Before(g, V, b) \X FirstOf(g.blocks[b]))
            = InTurn(f.blocks[b]) \cup (Before(f, B, b) \X FirstOf(f.blocks[b]))
    BY <1>9, <1>11
  <2> QED BY <1>4, <2>1 DEF EdgesOf
<1>13. Kept(f, g, c)
  BY <1>1, <1>4 DEF Kept
<1> QED BY <1>4, <1>9, <1>11, <1>12, <1>13
=============================================================================
