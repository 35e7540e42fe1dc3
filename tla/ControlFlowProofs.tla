------------------------- MODULE ControlFlowProofs -------------------------
(***************************************************************************)
(* Sema and lowering agree on every function body, however long and        *)
(* however deep: blocks verify, and sema's judgement of a missing return   *)
(* is what the blocks do.  And lowering draws, between the statements, the *)
(* ways of the text and no other.                                          *)
(*                                                                         *)
(* Nothing of that is inductive, since nothing of it is said of a body     *)
(* that is not finished.  The invariant that is (Body) ties sema's frames  *)
(* to lowering's blocks, all the way down the open statements: whatever a  *)
(* frame says of divergence is what can be reached, block by block, of the *)
(* blocks it names, and the cursor is reached and its block open exactly   *)
(* if no list around it has diverged.  Reached is meant with the ways out  *)
(* of a chain of tests that are not branches yet (Detours).                *)
(*                                                                         *)
(* Which statement comes after which takes one part more (Flown): at each  *)
(* block an open statement waits for, control comes from the statements    *)
(* that StructuredFlow remembers for it, and the edges drawn so far are    *)
(* those of the text so far.                                               *)
(***************************************************************************)
EXTENDS BlockProofs

-----------------------------------------------------------------------------
(* The open statements *)

Arms      == {"arm", "arm_done"}
Compounds == {"then", "else", "while", "match"}
Kinds     == {"fn", "block"} \cup Arms \cup Compounds
FrameSet  == [kind : Kinds, div : BOOLEAN, wasDiv : BOOLEAN,
              end : Nat, alt : Nat, wild : Nat, resume : Nat]

\* The blocks in which something will go on once the statement is over.
Awaits(fr) ==
  IF fr.kind = "then" THEN {fr.end} \cup (IF fr.alt = 0 THEN {} ELSE {fr.alt})
  ELSE IF fr.kind \in Compounds THEN {fr.end}
  ELSE IF fr.kind \in Arms THEN {fr.resume}
  ELSE {}
Awaited(os) == UNION {Awaits(os[d]) : d \in 1 .. Len(os)}

GoodFrame(fr, n) ==
  /\ fr.end <= n /\ fr.alt <= n /\ fr.wild <= n /\ fr.resume <= n
  /\ fr.kind = "then" => fr.alt # fr.end
  /\ fr.kind \in Compounds => fr.end # 0
  /\ fr.kind = "while" => fr.alt # 0
  /\ fr.kind \in Arms => fr.resume # 0
  /\ fr.kind = "arm" => ~fr.div

\* Arms are in matches and nothing else is.
Shape(os, n) ==
  /\ os \in Seq(FrameSet) /\ Len(os) >= 1
  /\ \A d \in 1 .. Len(os) : GoodFrame(os[d], n) /\ (os[d].kind = "fn" <=> d = 1)
  /\ \A d \in 1 .. Len(os) - 1 :
       /\ os[d].kind # "arm_done"
       /\ os[d].kind = "match" <=> os[d + 1].kind \in Arms
       /\ os[d].kind = "match" => os[d + 1].end = os[d].end

\* No two statements wait for the same block.
Apart(os) == \A d, e \in 1 .. Len(os) : d # e => Awaits(os[d]) \cap Awaits(os[e]) = {}

\* w lists the frames of the kinds K among the first L, outermost first.
Marked(os, L, K, n, w) ==
  /\ w \in [1 .. n -> 1 .. L]
  /\ \A i, j \in 1 .. n : i < j => w[i] < w[j]
  /\ \A d \in 1 .. L : os[d].kind \in K <=> \E i \in 1 .. n : w[i] = d

LoopSet == [continueTo : Nat, breakTo : Nat]
NestSet == [kind : {"if", "while", "match"}, head : Nat, outs : SUBSET Nat, wild : BOOLEAN]

LoopFrames(os, ls) ==
  /\ ls \in Seq(LoopSet)
  /\ \E w : /\ Marked(os, Len(os), {"while"}, Len(ls), w)
            /\ \A i \in 1 .. Len(ls) :
                 ls[i] = [continueTo |-> os[w[i]].alt, breakTo |-> os[w[i]].end]

Nests(os, ns) ==
  /\ ns \in Seq(NestSet)
  /\ \E w : /\ Marked(os, Len(os), Compounds, Len(ns), w)
            /\ \A i \in 1 .. Len(ns) :
                 ns[i].wild = (os[w[i]].kind = "match" /\ os[w[i]].wild # 0)

Frames(os, n, ls, ns) == Shape(os, n) /\ Apart(os) /\ LoopFrames(os, ls) /\ Nests(os, ns)

LEMMA AwaitsIn ==
  ASSUME NEW fr \in FrameSet, NEW n \in Nat, GoodFrame(fr, n)
  PROVE  Awaits(fr) \in SUBSET (1 .. n)
BY DEF FrameSet, GoodFrame, Awaits, Kinds, Arms, Compounds

LEMMA ShapeIs ==
  ASSUME NEW os, NEW n, Shape(os, n)
  PROVE  /\ Len(os) \in Nat \ {0} /\ os \in Seq(FrameSet)
         /\ \A d \in 1 .. Len(os) : os[d] \in FrameSet
         /\ Len(os) \in 1 .. Len(os) /\ 1 \in 1 .. Len(os)
BY DEF Shape

LEMMA GoodMore ==
  ASSUME NEW fr \in FrameSet, NEW n \in Nat, NEW m \in Nat, n <= m, GoodFrame(fr, n)
  PROVE  GoodFrame(fr, m)
<1>1. fr.end \in Nat /\ fr.alt \in Nat /\ fr.wild \in Nat /\ fr.resume \in Nat
  BY DEF FrameSet
<1> QED BY <1>1 DEF GoodFrame

LEMMA AwaitedIn ==
  ASSUME NEW os, NEW n \in Nat, Shape(os, n)
  PROVE  /\ Awaited(os) \in SUBSET (1 .. n)
         /\ \A d \in 1 .. Len(os) : Awaits(os[d]) \subseteq Awaited(os)
<1>1. \A d \in 1 .. Len(os) : Awaits(os[d]) \in SUBSET (1 .. n)
  BY ShapeIs, AwaitsIn DEF Shape
<1> QED BY <1>1 DEF Awaited

\* The sequences.
LEMMA Pushed ==
  ASSUME NEW S, NEW s \in Seq(S), NEW x \in S
  PROVE  /\ Append(s, x) \in Seq(S) /\ Len(Append(s, x)) = Len(s) + 1
         /\ Append(s, x)[Len(s) + 1] = x
         /\ \A d \in 1 .. Len(s) : Append(s, x)[d] = s[d]
OBVIOUS

LEMMA Popped ==
  ASSUME NEW S, NEW s \in Seq(S), Len(s) > 0
  PROVE  LET t == SubSeq(s, 1, Len(s) - 1)
         IN /\ t \in Seq(S) /\ Len(t) = Len(s) - 1
            /\ \A d \in 1 .. Len(s) - 1 : t[d] = s[d]
<1> DEFINE n == Len(s) - 1
<1>1. n \in Nat /\ 1 \in 1 .. Len(s) + 1 /\ n \in 1 - 1 .. Len(s) /\ n < Len(s)
  OBVIOUS
<1> HIDE DEF n
<1>2. \A d \in 1 .. n : d \in 1 .. Len(s)
  BY <1>1
<1>3. SubSeq(s, 1, n) \in Seq(S) /\ Len(SubSeq(s, 1, n)) = n
  BY <1>1, <1>2
<1>4. \A d \in 1 .. n : SubSeq(s, 1, n)[d] = s[d]
  BY <1>1, <1>2
<1> QED BY <1>3, <1>4 DEF n

LEMMA Replaced ==
  ASSUME NEW S, NEW s \in Seq(S), NEW k \in 1 .. Len(s), NEW x \in S
  PROVE  /\ [s EXCEPT ![k] = x] \in Seq(S) /\ Len([s EXCEPT ![k] = x]) = Len(s)
         /\ [s EXCEPT ![k] = x][k] = x
         /\ \A d \in 1 .. Len(s) : d # k => [s EXCEPT ![k] = x][d] = s[d]
OBVIOUS

\* The marks of frames that stay, come and go.
LEMMA MarkedSame ==
  ASSUME NEW os, NEW ps, NEW L, NEW K, NEW n, NEW w, Marked(os, L, K, n, w),
         \A d \in 1 .. L : ps[d].kind \in K <=> os[d].kind \in K
  PROVE  Marked(ps, L, K, n, w)
BY DEF Marked

LEMMA MarkedPushOther ==
  ASSUME NEW os, NEW ps, NEW L \in Nat, NEW K, NEW n \in Nat, NEW w, Marked(os, L, K, n, w),
         \A d \in 1 .. L : ps[d].kind \in K <=> os[d].kind \in K,
         ps[L + 1].kind \notin K
  PROVE  Marked(ps, L + 1, K, n, w)
<1>1. L \in Nat
  OBVIOUS
<1>2. /\ w \in [1 .. n -> 1 .. L] /\ \A i, j \in 1 .. n : i < j => w[i] < w[j]
      /\ \A d \in 1 .. L : os[d].kind \in K <=> \E i \in 1 .. n : w[i] = d
  BY DEF Marked
<1>3. \A d \in 1 .. L + 1 : d \in 1 .. L \/ d = L + 1
  BY <1>1
<1>4. /\ \A i \in 1 .. n : w[i] # L + 1 /\ w[i] \in 1 .. L + 1
      /\ w \in [1 .. n -> 1 .. L + 1]
  <2>1. \A x \in 1 .. L : x # L + 1 /\ x \in 1 .. L + 1
    BY <1>1
  <2> QED BY <1>2, <2>1
<1>5. \A d \in 1 .. L + 1 : ps[d].kind \in K <=> \E i \in 1 .. n : w[i] = d
  BY <1>1, <1>2, <1>3, <1>4
<1> QED BY <1>1, <1>2, <1>4, <1>5 DEF Marked

\* v goes on from w, with x.
Agrees(v, w, n) == \A i \in 1 .. n : v[i] = w[i]
Longer(v, w, n, x) == Agrees(v, w, n) /\ v[n + 1] = x

LEMMA MarkedPush ==
  ASSUME NEW os, NEW ps, NEW L \in Nat, NEW K, NEW n \in Nat, NEW w, Marked(os, L, K, n, w),
         \A d \in 1 .. L : ps[d].kind \in K <=> os[d].kind \in K,
         ps[L + 1].kind \in K
  PROVE  \E v : Marked(ps, L + 1, K, n + 1, v) /\ Longer(v, w, n, L + 1)
<1> DEFINE v == [i \in 1 .. n + 1 |-> IF i = n + 1 THEN L + 1 ELSE w[i]]
<1>1. L \in Nat
  OBVIOUS
<1>2. /\ w \in [1 .. n -> 1 .. L] /\ \A i, j \in 1 .. n : i < j => w[i] < w[j]
      /\ \A d \in 1 .. L : os[d].kind \in K <=> \E i \in 1 .. n : w[i] = d
      /\ \A d \in 1 .. L : ps[d].kind \in K <=> os[d].kind \in K
      /\ ps[L + 1].kind \in K
  BY DEF Marked
<1>3. /\ \A d \in 1 .. L + 1 : d \in 1 .. L \/ d = L + 1
      /\ \A x \in 1 .. L : x # L + 1 /\ x \in 1 .. L + 1 /\ x < L + 1
      /\ L + 1 \in 1 .. L + 1
  BY <1>1
<1>4. /\ \A i \in 1 .. n : i \in 1 .. n + 1 /\ i # n + 1
      /\ \A i \in 1 .. n + 1 : i \in 1 .. n \/ i = n + 1
      /\ \A i, j \in 1 .. n + 1 : i < j => i # n + 1
      /\ n + 1 \in 1 .. n + 1
  OBVIOUS
<1>5. /\ \A i \in 1 .. n : v[i] = w[i] /\ w[i] \in 1 .. L
      /\ v[n + 1] = L + 1 /\ DOMAIN v = 1 .. n + 1
  BY <1>2, <1>4
<1>6. v \in [1 .. n + 1 -> 1 .. L + 1]
  BY <1>2, <1>3, <1>4
<1> HIDE DEF v
<1>7. ASSUME NEW i \in 1 .. n + 1, NEW j \in 1 .. n + 1, i < j PROVE v[i] < v[j]
  <2>1. i \in 1 .. n
    BY <1>4, <1>7
  <2>2. CASE j \in 1 .. n
    BY <1>2, <1>5, <1>7, <2>1, <2>2
  <2>3. CASE j = n + 1
    BY <1>3, <1>5, <2>1, <2>3
  <2> QED BY <1>4, <2>2, <2>3
<1>8. ASSUME NEW d \in 1 .. L + 1 PROVE ps[d].kind \in K <=> \E i \in 1 .. n + 1 : v[i] = d
  <2>1. CASE d = L + 1
    BY <1>2, <1>4, <1>5, <2>1
  <2>2. CASE d \in 1 .. L
    <3>1. d # L + 1
      BY <1>3, <2>2
    <3>2. ps[d].kind \in K <=> \E i \in 1 .. n : w[i] = d
      BY <1>2, <2>2
    <3>3. (\E i \in 1 .. n : w[i] = d) <=> \E i \in 1 .. n + 1 : v[i] = d
      BY <1>4, <1>5, <3>1
    <3> QED BY <3>2, <3>3
  <2> QED BY <1>3, <2>1, <2>2
<1>9. Marked(ps, L + 1, K, n + 1, v)
  BY <1>1, <1>6, <1>7, <1>8 DEF Marked
<1>10. Longer(v, w, n, L + 1)
  BY <1>5 DEF Longer, Agrees
<1> QED BY <1>9, <1>10

LEMMA MarkedPopOther ==
  ASSUME NEW os, NEW ps, NEW L \in Nat \ {0}, NEW K, NEW n \in Nat, NEW w, Marked(os, L, K, n, w),
         \A d \in 1 .. L - 1 : ps[d].kind \in K <=> os[d].kind \in K,
         os[L].kind \notin K
  PROVE  Marked(ps, L - 1, K, n, w)
<1>1. L \in Nat \ {0}
  OBVIOUS
<1>2. /\ w \in [1 .. n -> 1 .. L] /\ \A i, j \in 1 .. n : i < j => w[i] < w[j]
      /\ \A d \in 1 .. L : os[d].kind \in K <=> \E i \in 1 .. n : w[i] = d
      /\ \A d \in 1 .. L - 1 : ps[d].kind \in K <=> os[d].kind \in K
      /\ os[L].kind \notin K
  BY DEF Marked
<1>3. /\ \A d \in 1 .. L - 1 : d \in 1 .. L
      /\ \A d \in 1 .. L : d \in 1 .. L - 1 \/ d = L
      /\ L \in 1 .. L
  BY <1>1
<1>4. \A i \in 1 .. n : w[i] # L
  BY <1>2, <1>3
<1>5. w \in [1 .. n -> 1 .. L - 1]
  BY <1>2, <1>3, <1>4
<1>6. \A d \in 1 .. L - 1 : ps[d].kind \in K <=> \E i \in 1 .. n : w[i] = d
  BY <1>2, <1>3
<1> QED BY <1>1, <1>2, <1>5, <1>6 DEF Marked

LEMMA MarkedPop ==
  ASSUME NEW os, NEW ps, NEW L \in Nat \ {0}, NEW K, NEW n \in Nat, NEW w, Marked(os, L, K, n, w),
         \A d \in 1 .. L - 1 : ps[d].kind \in K <=> os[d].kind \in K,
         os[L].kind \in K
  PROVE  /\ n # 0
         /\ \E v : Marked(ps, L - 1, K, n - 1, v) /\ Agrees(v, w, n - 1)
<1> DEFINE v == [i \in 1 .. n - 1 |-> w[i]]
<1>1. L \in Nat \ {0}
  OBVIOUS
<1>2. /\ w \in [1 .. n -> 1 .. L] /\ \A i, j \in 1 .. n : i < j => w[i] < w[j]
      /\ \A d \in 1 .. L : os[d].kind \in K <=> \E i \in 1 .. n : w[i] = d
      /\ \A d \in 1 .. L - 1 : ps[d].kind \in K <=> os[d].kind \in K
      /\ os[L].kind \in K
  BY DEF Marked
<1>3. /\ \A d \in 1 .. L - 1 : d \in 1 .. L /\ d # L
      /\ \A d \in 1 .. L : d \in 1 .. L - 1 \/ d = L
      /\ L \in 1 .. L
  BY <1>1
<1>4. PICK i \in 1 .. n : w[i] = L
  BY <1>2, <1>3
<1>5. n # 0 /\ n \in 1 .. n /\ (i # n => i < n)
  OBVIOUS
<1>6. w[n] = L
  <2>1. w[n] \in 1 .. L
    BY <1>2, <1>5
  <2>2. i # n => w[i] < w[n]
    BY <1>2, <1>5
  <2> QED BY <1>1, <1>4, <2>1, <2>2
<1>7. /\ \A j \in 1 .. n - 1 : j \in 1 .. n /\ j < n
      /\ \A j \in 1 .. n : j \in 1 .. n - 1 \/ j = n
  OBVIOUS
<1>8. \A j \in 1 .. n - 1 : v[j] = w[j] /\ w[j] \in 1 .. L - 1
  <2>1. ASSUME NEW j \in 1 .. n - 1 PROVE w[j] \in 1 .. L - 1
    <3>1. w[j] < w[n] /\ w[j] \in 1 .. L
      BY <1>2, <1>5, <1>7
    <3> QED BY <1>1, <1>6, <3>1
  <2> QED BY <2>1
<1>9. v \in [1 .. n - 1 -> 1 .. L - 1]
  BY <1>8
<1> HIDE DEF v
<1>10. \A j, k \in 1 .. n - 1 : j < k => v[j] < v[k]
  BY <1>2, <1>7, <1>8
<1>11. ASSUME NEW d \in 1 .. L - 1 PROVE ps[d].kind \in K <=> \E j \in 1 .. n - 1 : v[j] = d
  <2>1. ps[d].kind \in K <=> \E j \in 1 .. n : w[j] = d
    BY <1>2, <1>3
  <2>2. (\E j \in 1 .. n : w[j] = d) <=> \E j \in 1 .. n - 1 : v[j] = d
    BY <1>3, <1>6, <1>7, <1>8
  <2> QED BY <2>1, <2>2
<1>12. Marked(ps, L - 1, K, n - 1, v)
  BY <1>1, <1>9, <1>10, <1>11 DEF Marked
<1>13. Agrees(v, w, n - 1)
  BY <1>8 DEF Agrees
<1> QED BY <1>5, <1>6, <1>12, <1>13

LEMMA LoopsStay ==
  ASSUME NEW os, NEW ps, NEW ls, LoopFrames(os, ls),
         \A w : Marked(os, Len(os), {"while"}, Len(ls), w) => Marked(ps, Len(ps), {"while"}, Len(ls), w),
         \A d \in 1 .. Len(os) : d \in 1 .. Len(ps) => ps[d].alt = os[d].alt /\ ps[d].end = os[d].end
  PROVE  LoopFrames(ps, ls)
<1>1. PICK w : /\ Marked(os, Len(os), {"while"}, Len(ls), w)
               /\ \A i \in 1 .. Len(ls) :
                    ls[i] = [continueTo |-> os[w[i]].alt, breakTo |-> os[w[i]].end]
  BY DEF LoopFrames
<1>2. Marked(ps, Len(ps), {"while"}, Len(ls), w)
  BY <1>1
<1>3. \A i \in 1 .. Len(ls) : w[i] \in 1 .. Len(os) /\ w[i] \in 1 .. Len(ps)
  BY <1>1, <1>2 DEF Marked
<1> QED BY <1>1, <1>2, <1>3 DEF LoopFrames

LEMMA NestsStay ==
  ASSUME NEW os, NEW ps, NEW ns, Nests(os, ns),
         \A w : Marked(os, Len(os), Compounds, Len(ns), w) => Marked(ps, Len(ps), Compounds, Len(ns), w),
         \A d \in 1 .. Len(os) : d \in 1 .. Len(ps) =>
            (ps[d].kind = "match" <=> os[d].kind = "match") /\ ps[d].wild = os[d].wild
  PROVE  Nests(ps, ns)
<1>1. PICK w : /\ Marked(os, Len(os), Compounds, Len(ns), w)
               /\ \A i \in 1 .. Len(ns) :
                    ns[i].wild = (os[w[i]].kind = "match" /\ os[w[i]].wild # 0)
  BY DEF Nests
<1>2. Marked(ps, Len(ps), Compounds, Len(ns), w)
  BY <1>1
<1>3. \A i \in 1 .. Len(ns) : w[i] \in 1 .. Len(os) /\ w[i] \in 1 .. Len(ps)
  BY <1>1, <1>2 DEF Marked
<1>4. \A i \in 1 .. Len(ns) : ns[i].wild = (ps[w[i]].kind = "match" /\ ps[w[i]].wild # 0)
  BY <1>1, <1>3
<1> QED BY <1>1, <1>2, <1>4 DEF Nests

LEMMA LoopsPush ==
  ASSUME NEW os, NEW ps, Len(os) \in Nat, Len(ps) = Len(os) + 1, NEW ls, LoopFrames(os, ls),
         \A d \in 1 .. Len(os) : ps[d] = os[d],
         ps[Len(ps)].kind = "while", NEW x \in LoopSet,
         x = [continueTo |-> ps[Len(ps)].alt, breakTo |-> ps[Len(ps)].end]
  PROVE  LoopFrames(ps, Append(ls, x))
<1>1. PICK w : /\ Marked(os, Len(os), {"while"}, Len(ls), w)
               /\ \A i \in 1 .. Len(ls) :
                    ls[i] = [continueTo |-> os[w[i]].alt, breakTo |-> os[w[i]].end]
  BY DEF LoopFrames
<1> DEFINE n == Len(ls)
           ms == Append(ls, x)
<1>2. ls \in Seq(LoopSet) /\ n \in Nat
  BY DEF LoopFrames
<1>3. /\ ms \in Seq(LoopSet) /\ Len(ms) = n + 1 /\ ms[n + 1] = x
      /\ \A i \in 1 .. n : ms[i] = ls[i]
  BY <1>2
<1> HIDE DEF n, ms
<1>4. PICK v : /\ Marked(ps, Len(ps), {"while"}, n + 1, v) /\ v[n + 1] = Len(ps)
               /\ \A i \in 1 .. n : v[i] = w[i]
  <2> DEFINE L == Len(os)
  <2> DEFINE K == {"while"}
  <2>1. Marked(os, L, K, n, w) /\ ps[L + 1].kind \in K /\ L \in Nat /\ Len(ps) = L + 1
    BY <1>1 DEF n
  <2>2. \A d \in 1 .. L : ps[d].kind \in K <=> os[d].kind \in K
    OBVIOUS
  <2> HIDE DEF K, L
  <2>3. \E v : Marked(ps, L + 1, K, n + 1, v) /\ Longer(v, w, n, L + 1)
    BY <1>2, <2>1, <2>2, MarkedPush
  <2> QED BY <2>1, <2>3 DEF K, Longer, Agrees
<1>5. /\ \A i \in 1 .. n + 1 : i \in 1 .. n \/ i = n + 1
      /\ \A i \in 1 .. n : i \in 1 .. n + 1 /\ i # n + 1
      /\ n + 1 \in 1 .. n + 1
  BY <1>2
<1>6. \A i \in 1 .. n : w[i] \in 1 .. Len(os)
  BY <1>1 DEF Marked, n
<1>7. ASSUME NEW i \in 1 .. n + 1
      PROVE  ms[i] = [continueTo |-> ps[v[i]].alt, breakTo |-> ps[v[i]].end]
  <2>1. CASE i = n + 1
    BY <1>3, <1>4, <2>1
  <2>2. CASE i \in 1 .. n
    <3>1. v[i] = w[i] /\ ps[w[i]] = os[w[i]]
      BY <1>4, <1>6, <2>2
    <3> QED BY <1>1, <1>3, <2>2, <3>1 DEF n
  <2> QED BY <1>5, <2>1, <2>2
<1>8. LoopFrames(ps, ms)
  BY <1>3, <1>4, <1>7 DEF LoopFrames
<1> QED BY <1>8 DEF ms

LEMMA NestsPush ==
  ASSUME NEW os, NEW ps, Len(os) \in Nat, Len(ps) = Len(os) + 1, NEW ns, Nests(os, ns),
         \A d \in 1 .. Len(os) : ps[d] = os[d],
         ps[Len(ps)].kind \in Compounds, ps[Len(ps)].wild = 0, NEW x \in NestSet, x.wild = FALSE
  PROVE  Nests(ps, Append(ns, x))
<1>1. PICK w : /\ Marked(os, Len(os), Compounds, Len(ns), w)
               /\ \A i \in 1 .. Len(ns) :
                    ns[i].wild = (os[w[i]].kind = "match" /\ os[w[i]].wild # 0)
  BY DEF Nests
<1> DEFINE n == Len(ns)
           ms == Append(ns, x)
<1>2. ns \in Seq(NestSet) /\ n \in Nat
  BY DEF Nests
<1>3. /\ ms \in Seq(NestSet) /\ Len(ms) = n + 1 /\ ms[n + 1] = x
      /\ \A i \in 1 .. n : ms[i] = ns[i]
  BY <1>2
<1> HIDE DEF n, ms
<1>4. PICK v : /\ Marked(ps, Len(ps), Compounds, n + 1, v) /\ v[n + 1] = Len(ps)
               /\ \A i \in 1 .. n : v[i] = w[i]
  <2> DEFINE L == Len(os)
  <2> DEFINE K == Compounds
  <2>1. Marked(os, L, K, n, w) /\ ps[L + 1].kind \in K /\ L \in Nat /\ Len(ps) = L + 1
    BY <1>1 DEF n
  <2>2. \A d \in 1 .. L : ps[d].kind \in K <=> os[d].kind \in K
    OBVIOUS
  <2> HIDE DEF K, L
  <2>3. \E v : Marked(ps, L + 1, K, n + 1, v) /\ Longer(v, w, n, L + 1)
    BY <1>2, <2>1, <2>2, MarkedPush
  <2> QED BY <2>1, <2>3 DEF K, Longer, Agrees
<1>5. /\ \A i \in 1 .. n + 1 : i \in 1 .. n \/ i = n + 1
      /\ \A i \in 1 .. n : i \in 1 .. n + 1 /\ i # n + 1
      /\ n + 1 \in 1 .. n + 1
  BY <1>2
<1>6. \A i \in 1 .. n : w[i] \in 1 .. Len(os)
  BY <1>1 DEF Marked, n
<1>7. ASSUME NEW i \in 1 .. n + 1
      PROVE  ms[i].wild = (ps[v[i]].kind = "match" /\ ps[v[i]].wild # 0)
  <2>1. CASE i = n + 1
    BY <1>3, <1>4, <2>1
  <2>2. CASE i \in 1 .. n
    <3>1. v[i] = w[i] /\ ps[w[i]] = os[w[i]]
      BY <1>4, <1>6, <2>2
    <3> QED BY <1>1, <1>3, <2>2, <3>1 DEF n
  <2> QED BY <1>5, <2>1, <2>2
<1>8. Nests(ps, ms)
  BY <1>3, <1>4, <1>7 DEF Nests
<1> QED BY <1>8 DEF ms

LEMMA LoopsPop ==
  ASSUME NEW os, NEW ps, Len(os) \in Nat \ {0}, Len(ps) = Len(os) - 1, NEW ls, LoopFrames(os, ls),
         \A d \in 1 .. Len(os) - 1 : ps[d] = os[d], os[Len(os)].kind = "while"
  PROVE  LoopFrames(ps, SubSeq(ls, 1, Len(ls) - 1)) /\ Len(ls) # 0
<1>1. PICK w : /\ Marked(os, Len(os), {"while"}, Len(ls), w)
               /\ \A i \in 1 .. Len(ls) :
                    ls[i] = [continueTo |-> os[w[i]].alt, breakTo |-> os[w[i]].end]
  BY DEF LoopFrames
<1> DEFINE n == Len(ls)
           ms == SubSeq(ls, 1, Len(ls) - 1)
<1>2. ls \in Seq(LoopSet) /\ n \in Nat
  BY DEF LoopFrames
<1>3. n # 0 /\ \E v : Marked(ps, Len(ps), {"while"}, n - 1, v) /\ \A i \in 1 .. n - 1 : v[i] = w[i]
  <2> DEFINE K == {"while"}
  <2> DEFINE L == Len(os)
  <2>1. Marked(os, L, K, n, w) /\ os[L].kind \in K /\ L \in Nat \ {0} /\ Len(ps) = L - 1
    BY <1>1
  <2>2. \A d \in 1 .. L - 1 : ps[d].kind \in K <=> os[d].kind \in K
    OBVIOUS
  <2> HIDE DEF K, n, L
  <2>3. n # 0 /\ \E v : Marked(ps, L - 1, K, n - 1, v) /\ Agrees(v, w, n - 1)
    BY <1>2, <2>1, <2>2, MarkedPop
  <2> QED BY <2>1, <2>3 DEF K, Agrees
<1>4. /\ ms \in Seq(LoopSet) /\ Len(ms) = n - 1
      /\ \A i \in 1 .. n - 1 : ms[i] = ls[i]
  <2>1. Len(ls) > 0
    BY <1>2, <1>3
  <2> HIDE DEF n
  <2> QED BY <1>2, <2>1, Popped DEF n
<1> HIDE DEF n, ms
<1>5. PICK v : Marked(ps, Len(ps), {"while"}, n - 1, v) /\ \A i \in 1 .. n - 1 : v[i] = w[i]
  BY <1>3
<1>9. \A i \in 1 .. n - 1 : i \in 1 .. n /\ v[i] \in 1 .. Len(ps)
  <2>1. \A i \in 1 .. n - 1 : i \in 1 .. n
    BY <1>2
  <2>2. v \in [1 .. n - 1 -> 1 .. Len(ps)]
    BY <1>5 DEF Marked
  <2> QED BY <2>1, <2>2
<1>6. \A i \in 1 .. n - 1 : ps[v[i]] = os[w[i]]
  BY <1>5, <1>9
<1>7. \A i \in 1 .. n - 1 : ms[i] = [continueTo |-> ps[v[i]].alt, breakTo |-> ps[v[i]].end]
  BY <1>1, <1>4, <1>5, <1>6, <1>9 DEF n
<1>8. LoopFrames(ps, ms)
  BY <1>4, <1>5, <1>7 DEF LoopFrames
<1> QED BY <1>3, <1>8 DEF ms, n

LEMMA NestsPop ==
  ASSUME NEW os, NEW ps, Len(os) \in Nat \ {0}, Len(ps) = Len(os) - 1, NEW ns, Nests(os, ns),
         \A d \in 1 .. Len(os) - 1 : ps[d] = os[d], os[Len(os)].kind \in Compounds
  PROVE  Nests(ps, SubSeq(ns, 1, Len(ns) - 1))
<1>1. PICK w : /\ Marked(os, Len(os), Compounds, Len(ns), w)
               /\ \A i \in 1 .. Len(ns) :
                    ns[i].wild = (os[w[i]].kind = "match" /\ os[w[i]].wild # 0)
  BY DEF Nests
<1> DEFINE n == Len(ns)
           ms == SubSeq(ns, 1, Len(ns) - 1)
<1>2. ns \in Seq(NestSet) /\ n \in Nat
  BY DEF Nests
<1>3. n # 0 /\ \E v : Marked(ps, Len(ps), Compounds, n - 1, v) /\ \A i \in 1 .. n - 1 : v[i] = w[i]
  <2> DEFINE K == Compounds
  <2> DEFINE L == Len(os)
  <2>1. Marked(os, L, K, n, w) /\ os[L].kind \in K /\ L \in Nat \ {0} /\ Len(ps) = L - 1
    BY <1>1
  <2>2. \A d \in 1 .. L - 1 : ps[d].kind \in K <=> os[d].kind \in K
    OBVIOUS
  <2> HIDE DEF K, n, L
  <2>3. n # 0 /\ \E v : Marked(ps, L - 1, K, n - 1, v) /\ Agrees(v, w, n - 1)
    BY <1>2, <2>1, <2>2, MarkedPop
  <2> QED BY <2>1, <2>3 DEF K, Agrees
<1>4. /\ ms \in Seq(NestSet) /\ Len(ms) = n - 1
      /\ \A i \in 1 .. n - 1 : ms[i] = ns[i]
  <2>1. Len(ns) > 0
    BY <1>2, <1>3
  <2> HIDE DEF n
  <2> QED BY <1>2, <2>1, Popped DEF n
<1> HIDE DEF n, ms
<1>5. PICK v : Marked(ps, Len(ps), Compounds, n - 1, v) /\ \A i \in 1 .. n - 1 : v[i] = w[i]
  BY <1>3
<1>9. \A i \in 1 .. n - 1 : i \in 1 .. n /\ v[i] \in 1 .. Len(ps)
  <2>1. \A i \in 1 .. n - 1 : i \in 1 .. n
    BY <1>2
  <2>2. v \in [1 .. n - 1 -> 1 .. Len(ps)]
    BY <1>5 DEF Marked
  <2> QED BY <2>1, <2>2
<1>6. \A i \in 1 .. n - 1 : ps[v[i]] = os[w[i]]
  BY <1>5, <1>9
<1>7. \A i \in 1 .. n - 1 : ms[i].wild = (ps[v[i]].kind = "match" /\ ps[v[i]].wild # 0)
  BY <1>1, <1>4, <1>5, <1>6, <1>9 DEF n
<1>8. Nests(ps, ms)
  BY <1>4, <1>5, <1>7 DEF Nests
<1> QED BY <1>8 DEF ms

\* The innermost loop and the innermost compound statement are frames.
LEMMA LoopTop ==
  ASSUME NEW os, NEW ls, LoopFrames(os, ls), Len(ls) # 0
  PROVE  \E d \in 1 .. Len(os) :
           os[d].kind = "while"
             /\ ls[Len(ls)] = [continueTo |-> os[d].alt, breakTo |-> os[d].end]
<1>1. PICK w : /\ Marked(os, Len(os), {"while"}, Len(ls), w)
               /\ \A i \in 1 .. Len(ls) :
                    ls[i] = [continueTo |-> os[w[i]].alt, breakTo |-> os[w[i]].end]
  BY DEF LoopFrames
<1>2. Len(ls) \in 1 .. Len(ls)
  BY DEF LoopFrames
<1>3. w[Len(ls)] \in 1 .. Len(os) /\ os[w[Len(ls)]].kind = "while"
  BY <1>1, <1>2 DEF Marked
<1> QED BY <1>1, <1>2, <1>3

\* The wild flag of the innermost compound statement, a match, follows the frame.
LEMMA NestsLast ==
  ASSUME NEW os, Len(os) \in Nat \ {0}, NEW ns, Nests(os, ns), os[Len(os)].kind \in Compounds
  PROVE  /\ Len(ns) \in 1 .. Len(ns) /\ ns[Len(ns)] \in NestSet
         /\ ns[Len(ns)].wild = (os[Len(os)].kind = "match" /\ os[Len(os)].wild # 0)
         /\ \A w : Marked(os, Len(os), Compounds, Len(ns), w) => w[Len(ns)] = Len(os)
<1> DEFINE L == Len(os)
           m == Len(ns)
<1>1. PICK v : /\ Marked(os, L, Compounds, m, v)
               /\ \A i \in 1 .. m : ns[i].wild = (os[v[i]].kind = "match" /\ os[v[i]].wild # 0)
  BY DEF Nests
<1>2. ns \in Seq(NestSet) /\ m \in Nat /\ L \in Nat \ {0} /\ L \in 1 .. L
  BY DEF Nests
<1>3. m \in 1 .. m
  <2>1. \E i \in 1 .. m : v[i] = L
    BY <1>1, <1>2 DEF Marked
  <2> QED BY <1>2, <2>1
<1>4. ASSUME NEW w, Marked(os, L, Compounds, m, w) PROVE w[m] = L
  <2>1. /\ w \in [1 .. m -> 1 .. L] /\ \A i, j \in 1 .. m : i < j => w[i] < w[j]
        /\ \E i \in 1 .. m : w[i] = L
    BY <1>2, <1>4 DEF Marked
  <2>2. PICK k \in 1 .. m : w[k] = L
    BY <2>1
  <2>3. k # m => k < m
    BY <1>2
  <2>4. w[m] \in 1 .. L /\ (k # m => w[k] < w[m])
    BY <1>3, <2>1, <2>3
  <2> QED BY <1>2, <2>2, <2>4
<1>5. v[m] = L /\ ns[m] \in NestSet
  BY <1>1, <1>2, <1>3, <1>4
<1> QED BY <1>1, <1>3, <1>4, <1>5

LEMMA NestsSet ==
  ASSUME NEW os, Len(os) \in Nat \ {0}, NEW ps, Len(ps) = Len(os), NEW ns, Nests(os, ns),
         NEW m, m = Len(ns), os[Len(os)].kind \in Compounds, ps[Len(os)].kind \in Compounds,
         \A d \in 1 .. Len(os) - 1 : ps[d] = os[d],
         NEW x \in NestSet, x.wild = (ps[Len(os)].kind = "match" /\ ps[Len(os)].wild # 0)
  PROVE  Nests(ps, [ns EXCEPT ![m] = x])
<1>1. PICK w : /\ Marked(os, Len(os), Compounds, m, w)
               /\ \A i \in 1 .. m : ns[i].wild = (os[w[i]].kind = "match" /\ os[w[i]].wild # 0)
  BY DEF Nests
<1> DEFINE L == Len(os)
           ms == [ns EXCEPT ![m] = x]
<1>2. ns \in Seq(NestSet) /\ m \in Nat /\ L \in Nat \ {0} /\ L \in 1 .. L
  BY DEF Nests
<1>3. w \in [1 .. m -> 1 .. L] /\ \A i, j \in 1 .. m : i < j => w[i] < w[j]
  BY <1>1 DEF Marked
<1>6. m \in 1 .. m /\ w[m] = L
  BY <1>1, NestsLast
<1>9. /\ ms \in Seq(NestSet) /\ Len(ms) = m /\ ms[m] = x
      /\ \A i \in 1 .. m : i # m => ms[i] = ns[i]
  BY <1>2, <1>6
<1> HIDE DEF ms
<1>10. Marked(ps, Len(ps), Compounds, m, w)
  <2>1. \A d \in 1 .. L : d = L \/ d \in 1 .. L - 1
    BY <1>2
  <2>2. \A d \in 1 .. L : ps[d].kind \in Compounds <=> os[d].kind \in Compounds
    BY <2>1
  <2> QED BY <1>1, <2>2, MarkedSame
<1>11. ASSUME NEW i \in 1 .. m PROVE ms[i].wild = (ps[w[i]].kind = "match" /\ ps[w[i]].wild # 0)
  <2>1. CASE i = m
    BY <1>6, <1>9, <2>1
  <2>2. CASE i # m
    <3>1. w[i] \in 1 .. L - 1
      <4>1. w[i] \in 1 .. L /\ w[i] < w[m]
        BY <1>2, <1>3, <1>6, <2>2
      <4> QED BY <1>2, <1>6, <4>1
    <3> QED BY <1>1, <1>9, <2>2, <3>1
  <2> QED BY <2>1, <2>2
<1>12. Nests(ps, ms)
  BY <1>9, <1>10, <1>11 DEF Nests
<1> QED BY <1>12 DEF ms

\* What a jump or an arm leaves in a construct says nothing of its wildcard.
LEMMA NestsSame ==
  ASSUME NEW os, NEW ns, Nests(os, ns), NEW ms \in Seq(NestSet), Len(ms) = Len(ns),
         \A i \in 1 .. Len(ns) : ms[i].wild = ns[i].wild
  PROVE  Nests(os, ms)
<1>1. PICK w : /\ Marked(os, Len(os), Compounds, Len(ns), w)
               /\ \A i \in 1 .. Len(ns) : ns[i].wild = (os[w[i]].kind = "match" /\ os[w[i]].wild # 0)
  BY DEF Nests
<1> QED BY <1>1 DEF Nests

-----------------------------------------------------------------------------
(* Which way control goes while statements are open *)

\* A match's wildcard arm is entered from the end of its chain of tests, which
\* the frame within it names, or where the cursor is.
InnerTo(os, L) ==
  {<<os[d + 1].resume, os[d].wild>> : d \in {e \in 1 .. L - 1 : os[e].kind = "match" /\ os[e].wild # 0}}
WildOf(fr)     == IF fr.kind = "match" THEN fr.wild ELSE 0
Detours(os, c) == With(InnerTo(os, Len(os)), c, WildOf(os[Len(os)]))

\* Nothing diverged in the lists on the way to frame d, nor at this point.
Stopped(fr)  == fr.kind \in Lists \cup {"arm"} /\ fr.div
Alive(os, d) == \A k \in 1 .. d - 1 : ~Stopped(os[k])
Live(os)     == Alive(os, Len(os)) /\ (os[Len(os)].kind # "match" => ~os[Len(os)].div)

\* Which of the blocks a frame names are reached, if the statement is.
FrameFlow(fr, alive, R) ==
  /\ fr.kind = "then" /\ fr.alt = 0 => (fr.end \in R <=> alive)
  /\ fr.kind = "then" /\ fr.alt # 0 => fr.end \notin R /\ (fr.alt \in R <=> alive)
  /\ fr.kind = "else"  => (fr.end \in R <=> (alive /\ ~fr.wasDiv))
  /\ fr.kind = "while" => (fr.end \in R <=> alive) /\ (fr.alt \in R <=> alive)
  /\ fr.kind = "match" => (fr.end \in R <=> (alive /\ ~fr.div))
  /\ fr.kind = "match" /\ fr.wild # 0 => (fr.wild \in R <=> alive)
  /\ fr.kind \in Arms  => (fr.resume \in R <=> alive)

FlowAll(os, L, R) == \A d \in 1 .. L : FrameFlow(os[d], Alive(os, d), R)

LEMMA InnerSame ==
  ASSUME NEW os, NEW ps, NEW L,
         \A d \in 1 .. L - 1 : /\ ps[d].kind = "match" <=> os[d].kind = "match"
                               /\ ps[d].wild = os[d].wild /\ ps[d + 1].resume = os[d + 1].resume
  PROVE  InnerTo(ps, L) = InnerTo(os, L)
<1> DEFINE D(s) == {e \in 1 .. L - 1 : s[e].kind = "match" /\ s[e].wild # 0}
<1>1. D(ps) = D(os)
  OBVIOUS
<1>2. \A d \in D(os) : <<ps[d + 1].resume, ps[d].wild>> = <<os[d + 1].resume, os[d].wild>>
  OBVIOUS
<1>3. {<<ps[d + 1].resume, ps[d].wild>> : d \in D(ps)} = {<<os[d + 1].resume, os[d].wild>> : d \in D(os)}
  <2> HIDE DEF D
  <2> QED BY <1>1, <1>2
<1> QED BY <1>3 DEF InnerTo

LEMMA InnerNext ==
  ASSUME NEW os, NEW L \in Nat \ {0}
  PROVE  InnerTo(os, L + 1) = With(InnerTo(os, L), os[L + 1].resume, WildOf(os[L]))
<1> DEFINE D(l) == {e \in 1 .. l - 1 : os[e].kind = "match" /\ os[e].wild # 0}
           g(d) == <<os[d + 1].resume, os[d].wild>>
<1>1. \A e : e \in 1 .. (L + 1) - 1 <=> e \in 1 .. L - 1 \/ e = L
  OBVIOUS
<1>2. D(L + 1) = D(L) \cup (IF WildOf(os[L]) = 0 THEN {} ELSE {L})
  BY <1>1 DEF WildOf
<1>3. WildOf(os[L]) # 0 => os[L].wild = WildOf(os[L])
  BY DEF WildOf
<1>4. InnerTo(os, L + 1) = {g(d) : d \in D(L + 1)} /\ InnerTo(os, L) = {g(d) : d \in D(L)}
  BY DEF InnerTo
<1> HIDE DEF D
<1>5. CASE WildOf(os[L]) = 0
  BY <1>2, <1>4, <1>5 DEF With
<1>6. CASE WildOf(os[L]) # 0
  <2>1. D(L + 1) = D(L) \cup {L}
    BY <1>2, <1>6
  <2>2. {g(d) : d \in D(L + 1)} = {g(d) : d \in D(L)} \cup {g(L)}
    BY <2>1
  <2>3. g(L) = <<os[L + 1].resume, WildOf(os[L])>>
    BY <1>3, <1>6
  <2> QED BY <1>4, <1>6, <2>2, <2>3 DEF With
<1> QED BY <1>5, <1>6

LEMMA AliveSame ==
  ASSUME NEW os, NEW ps, NEW d, \A k \in 1 .. d - 1 : Stopped(ps[k]) <=> Stopped(os[k])
  PROVE  Alive(ps, d) <=> Alive(os, d)
BY DEF Alive

LEMMA AliveNext ==
  ASSUME NEW os, NEW d \in Nat \ {0}
  PROVE  Alive(os, d + 1) <=> (Alive(os, d) /\ ~Stopped(os[d]))
<1>1. \A k : k \in 1 .. (d + 1) - 1 <=> (k \in 1 .. d - 1 \/ k = d)
  OBVIOUS
<1> QED BY <1>1 DEF Alive

LEMMA AliveFrom ==
  ASSUME NEW os, NEW d \in Nat, NEW e \in Nat, d <= e, Alive(os, e)
  PROVE  Alive(os, d)
BY DEF Alive

\* The detours lead from blocks that wait to blocks there are.
LEMMA DetoursIn ==
  ASSUME NEW os, NEW n \in Nat, Shape(os, n), NEW c \in 1 .. n
  PROVE  /\ InnerTo(os, Len(os)) \in Ways(n) /\ Detours(os, c) \in Ways(n)
         /\ WildOf(os[Len(os)]) \in 0 .. n
<1>1. /\ Len(os) \in Nat \ {0} /\ \A d \in 1 .. Len(os) : os[d] \in FrameSet
      /\ Len(os) \in 1 .. Len(os)
  BY ShapeIs
<1>2. ASSUME NEW d \in 1 .. Len(os) - 1, os[d].kind = "match", os[d].wild # 0
      PROVE  os[d + 1].resume \in 1 .. n /\ os[d].wild \in 1 .. n
  <2>1. d \in 1 .. Len(os) /\ d + 1 \in 1 .. Len(os)
    BY <1>1
  <2>2. os[d + 1].kind \in Arms
    BY <1>2 DEF Shape
  <2>3. GoodFrame(os[d], n) /\ GoodFrame(os[d + 1], n) /\ os[d] \in FrameSet /\ os[d + 1] \in FrameSet
    BY <1>1, <2>1 DEF Shape
  <2> QED BY <1>2, <2>2, <2>3 DEF GoodFrame, FrameSet
<1>3. InnerTo(os, Len(os)) \in Ways(n)
  <2>1. ASSUME NEW v \in InnerTo(os, Len(os)) PROVE v \in (1 .. n) \X (1 .. n)
    <3>1. PICK d \in 1 .. Len(os) - 1 : /\ os[d].kind = "match" /\ os[d].wild # 0
                                        /\ v = <<os[d + 1].resume, os[d].wild>>
      BY DEF InnerTo
    <3> QED BY <1>2, <3>1
  <2> QED BY <2>1 DEF Ways
<1>4. WildOf(os[Len(os)]) \in 0 .. n
  <2>1. GoodFrame(os[Len(os)], n) /\ os[Len(os)] \in FrameSet
    BY <1>1 DEF Shape
  <2> QED BY <2>1 DEF GoodFrame, FrameSet, WildOf
<1>5. Detours(os, c) \in Ways(n)
  BY <1>3, <1>4, WithWays DEF Detours
<1> QED BY <1>3, <1>4, <1>5

\* Nothing leads on from a block that a statement, not an arm, waits for.
LEMMA DetoursFixed ==
  ASSUME NEW os, os[Len(os)].kind # "match", NEW c, NEW e
  PROVE  Detours(os, c) = Detours(os, e)
BY DEF Detours, With, WildOf

LEMMA NoDetour ==
  ASSUME NEW os, NEW n \in Nat, Shape(os, n), Apart(os),
         NEW c, c \notin Awaited(os), NEW d \in 1 .. Len(os), os[d].kind \notin Arms,
         NEW t \in Awaits(os[d])
  PROVE  OutOf(Detours(os, c), t) = {}
<1>1. t \in Awaited(os) /\ t # c
  BY AwaitedIn
<1>2. ASSUME NEW v \in Detours(os, c) PROVE v[1] # t
  <2>1. CASE v \in InnerTo(os, Len(os))
    <3>1. PICK e \in 1 .. Len(os) - 1 : os[e].kind = "match" /\ v = <<os[e + 1].resume, os[e].wild>>
      BY <2>1 DEF InnerTo
    <3>2. e + 1 \in 1 .. Len(os) /\ os[e + 1].kind \in Arms
      BY <3>1, ShapeIs DEF Shape
    <3>3. os[e + 1].resume \in Awaits(os[e + 1])
      BY <3>2 DEF Awaits, Arms, Compounds
    <3>4. e + 1 # d
      BY <3>2
    <3> DEFINE f == e + 1
    <3> HIDE DEF f
    <3>5. Awaits(os[f]) \cap Awaits(os[d]) = {}
      BY <3>2, <3>4 DEF Apart, f
    <3> QED BY <3>1, <3>3, <3>5 DEF f
  <2>2. CASE v \notin InnerTo(os, Len(os))
    <3>1. v = <<c, WildOf(os[Len(os)])>>
      BY <2>2 DEF Detours, With
    <3> QED BY <1>1, <3>1
  <2> QED BY <2>1, <2>2
<1> QED BY <1>2 DEF OutOf

-----------------------------------------------------------------------------
(* The frames, as statements begin and end *)

Lasts == Lists \cup {"arm"}

Judged(f, dv) ==
  [f EXCEPT !.div = IF f.kind = "arm" THEN dv ELSE f.div \/ dv,
            !.kind = IF f.kind = "arm" THEN "arm_done" ELSE f.kind]

IsAfter(os, dv, ps) == ps = After(os, dv)

LEMMA AfterIs ==
  ASSUME NEW os \in Seq(FrameSet), NEW L, L = Len(os), L # 0, NEW dv \in BOOLEAN,
         NEW ps, ps = After(os, dv)
  PROVE  /\ ps \in Seq(FrameSet) /\ Len(ps) = L
         /\ \A d \in 1 .. L : d # L => ps[d] = os[d]
         /\ ps[L] = Judged(os[L], dv)
<1> DEFINE f == os[L]
           x == IF f.kind = "arm" THEN [f EXCEPT !.div = dv, !.kind = "arm_done"]
                ELSE [f EXCEPT !.div = @ \/ dv]
           y == [f EXCEPT !.div = IF f.kind = "arm" THEN dv ELSE f.div \/ dv,
                          !.kind = IF f.kind = "arm" THEN "arm_done" ELSE f.kind]
<1>1. L \in 1 .. L /\ L \in Nat /\ f \in FrameSet
  OBVIOUS
<1>2. x \in FrameSet /\ x = y
  <2> HIDE DEF f
  <2>1. CASE f.kind = "arm"
    BY <1>1, <2>1 DEF FrameSet, Kinds, Arms
  <2>2. CASE f.kind # "arm"
    BY <1>1, <2>2 DEF FrameSet
  <2> QED BY <2>1, <2>2
<1>3. After(os, dv) = [os EXCEPT ![L] = x]
  BY DEF After
<1> HIDE DEF x, y
<1>4. /\ [os EXCEPT ![L] = x] \in Seq(FrameSet) /\ Len([os EXCEPT ![L] = x]) = L
      /\ [os EXCEPT ![L] = x][L] = x
      /\ \A d \in 1 .. L : d # L => [os EXCEPT ![L] = x][d] = os[d]
  BY <1>1, <1>2, Replaced
<1> QED BY <1>2, <1>3, <1>4 DEF y, Judged

\* os and ps differ in the last frame.
Recasts(os, L, f, ps, g) ==
  /\ L = Len(os) /\ os[L] = f /\ ps \in Seq(FrameSet) /\ Len(ps) = L /\ ps[L] = g
  /\ \A d \in 1 .. L : d # L => ps[d] = os[d]

Alike(f, g) ==
  /\ g.kind \in Compounds <=> f.kind \in Compounds
  /\ g.kind = "while" <=> f.kind = "while"
  /\ g.kind = "match" <=> f.kind = "match"
  /\ g.kind \in Arms <=> f.kind \in Arms
  /\ g.kind = "fn" <=> f.kind = "fn"
  /\ g.end = f.end /\ g.alt = f.alt /\ g.resume = f.resume
  /\ Awaits(g) \subseteq Awaits(f)

Recasted(os, L, f, ps, g, m, ls, ns) ==
  /\ Shape(ps, m) /\ Apart(ps) /\ LoopFrames(ps, ls)
  /\ Awaited(ps) = (Awaited(os) \ Awaits(f)) \cup Awaits(g)
  /\ \A w : Marked(os, L, Compounds, Len(ns), w) => Marked(ps, L, Compounds, Len(ns), w)
  /\ InnerTo(ps, L) = InnerTo(os, L)
  /\ \A d \in 1 .. L : Alive(ps, d) <=> Alive(os, d)

LEMMA Recast ==
  ASSUME NEW os, NEW n \in Nat, NEW ls, NEW ns, Frames(os, n, ls, ns), NEW m \in Nat, n <= m,
         NEW L, NEW f, NEW ps, NEW g, Recasts(os, L, f, ps, g), GoodFrame(g, m), Alike(f, g)
  PROVE  Recasted(os, L, f, ps, g, m, ls, ns)
<1>1. Shape(os, n) /\ Apart(os) /\ LoopFrames(os, ls) /\ Nests(os, ns)
  BY DEF Frames
<1>2. /\ L = Len(os) /\ os[L] = f /\ ps \in Seq(FrameSet) /\ Len(ps) = L /\ ps[L] = g
      /\ \A d \in 1 .. L : d # L => ps[d] = os[d]
  BY DEF Recasts
<1>3. L \in Nat \ {0} /\ os \in Seq(FrameSet) /\ (\A d \in 1 .. L : os[d] \in FrameSet) /\ L \in 1 .. L
  BY <1>1, <1>2, ShapeIs
<1>4. /\ \A d \in 1 .. L : GoodFrame(os[d], n) /\ (os[d].kind = "fn" <=> d = 1)
      /\ \A d \in 1 .. L - 1 :
          /\ os[d].kind # "arm_done"
          /\ os[d].kind = "match" <=> os[d + 1].kind \in Arms
          /\ os[d].kind = "match" => os[d + 1].end = os[d].end
      /\ \A d, e \in 1 .. L : d # e => Awaits(os[d]) \cap Awaits(os[e]) = {}
  BY <1>1, <1>2 DEF Shape, Apart
<1>5. /\ \A d \in 1 .. L - 1 : d \in 1 .. L /\ d # L /\ d + 1 \in 1 .. L
      /\ L >= 1
  BY <1>3
<1>6. \A d \in 1 .. L : /\ ps[d].kind \in Arms <=> os[d].kind \in Arms
                        /\ ps[d].kind = "match" <=> os[d].kind = "match"
                        /\ ps[d].kind = "while" <=> os[d].kind = "while"
                        /\ ps[d].kind \in Compounds <=> os[d].kind \in Compounds
                        /\ ps[d].kind = "fn" <=> os[d].kind = "fn"
                        /\ ps[d].end = os[d].end /\ ps[d].alt = os[d].alt
                        /\ ps[d].resume = os[d].resume /\ Awaits(ps[d]) \subseteq Awaits(os[d])
  BY <1>2 DEF Alike
<1>7. Shape(ps, m)
  <2>1. ASSUME NEW d \in 1 .. L PROVE GoodFrame(ps[d], m) /\ (ps[d].kind = "fn" <=> d = 1)
    <3>1. ps[d].kind = "fn" <=> d = 1
      BY <1>4, <1>6
    <3>2. CASE d = L
      BY <1>2, <3>1, <3>2
    <3>3. CASE d # L
      <4>1. GoodFrame(os[d], m)
        BY <1>3, <1>4, GoodMore
      <4> QED BY <1>2, <3>1, <3>3, <4>1
    <3> QED BY <3>2, <3>3
  <2>2. ASSUME NEW d \in 1 .. L - 1
        PROVE  /\ ps[d].kind # "arm_done" /\ (ps[d].kind = "match" <=> ps[d + 1].kind \in Arms)
               /\ ps[d].kind = "match" => ps[d + 1].end = ps[d].end
    <3>1. ps[d] = os[d] /\ d \in 1 .. L /\ d + 1 \in 1 .. L
      BY <1>2, <1>5
    <3>2. (ps[d + 1].kind \in Arms <=> os[d + 1].kind \in Arms) /\ ps[d + 1].end = os[d + 1].end
      BY <1>6, <3>1
    <3> QED BY <1>4, <3>1, <3>2
  <2> QED BY <1>2, <1>5, <2>1, <2>2 DEF Shape
<1>8. Apart(ps)
  <2>1. \A d, e \in 1 .. L : d # e => Awaits(ps[d]) \cap Awaits(ps[e]) = {}
    BY <1>4, <1>6
  <2> QED BY <1>2, <2>1 DEF Apart
<1>9. Awaited(ps) = (Awaited(os) \ Awaits(f)) \cup Awaits(g)
  <2>1. ASSUME NEW b PROVE b \in Awaited(ps) <=> b \in (Awaited(os) \ Awaits(f)) \cup Awaits(g)
    <3>1. b \in Awaited(ps) <=> \E d \in 1 .. L : b \in Awaits(ps[d])
      BY <1>2 DEF Awaited
    <3>2. b \in Awaited(os) <=> \E d \in 1 .. L : b \in Awaits(os[d])
      BY <1>2 DEF Awaited
    <3>3. \A d \in 1 .. L : d # L => ~(b \in Awaits(os[d]) /\ b \in Awaits(f))
      BY <1>2, <1>3, <1>4
    <3> QED BY <1>2, <1>3, <3>1, <3>2, <3>3
  <2> QED BY <2>1
<1>10. LoopFrames(ps, ls)
  <2> DEFINE K == {"while"}
             N == Len(ls)
  <2>1. \A d \in 1 .. L : ps[d].kind \in K <=> os[d].kind \in K
    BY <1>6
  <2> HIDE DEF K, N
  <2>2. \A w : Marked(os, L, K, N, w) => Marked(ps, L, K, N, w)
    BY <2>1, MarkedSame
  <2>3. /\ \A w : Marked(os, Len(os), K, N, w) => Marked(ps, Len(ps), K, N, w)
        /\ \A d \in 1 .. Len(os) : d \in 1 .. Len(ps) => ps[d].alt = os[d].alt /\ ps[d].end = os[d].end
    BY <1>2, <1>6, <2>2
  <2> QED BY <1>1, <2>3, LoopsStay DEF K, N
<1>11. \A w : Marked(os, L, Compounds, Len(ns), w) => Marked(ps, L, Compounds, Len(ns), w)
  BY <1>6, MarkedSame
<1>12. InnerTo(ps, L) = InnerTo(os, L)
  <2>1. \A d \in 1 .. L - 1 : /\ ps[d].kind = "match" <=> os[d].kind = "match"
                              /\ ps[d].wild = os[d].wild /\ ps[d + 1].resume = os[d + 1].resume
    BY <1>2, <1>5, <1>6
  <2> QED BY <2>1, InnerSame
<1>13. \A d \in 1 .. L : Alive(ps, d) <=> Alive(os, d)
  <2>1. \A d \in 1 .. L : \A k \in 1 .. d - 1 : k \in 1 .. L /\ k # L
    BY <1>3
  <2>2. \A d \in 1 .. L : \A k \in 1 .. d - 1 : Stopped(ps[k]) <=> Stopped(os[k])
    BY <1>2, <2>1
  <2> QED BY <2>2, AliveSame
<1> QED BY <1>7, <1>8, <1>9, <1>10, <1>11, <1>12, <1>13 DEF Recasted

\* After a statement.
Passed(os, dv, ps, n, ls, ns) ==
  /\ Frames(ps, n, ls, ns) /\ Len(ps) = Len(os) /\ ps[Len(ps)].kind # "match"
  /\ Awaited(ps) = Awaited(os)
  /\ \A c, e : Detours(ps, c) = Detours(os, e)
  /\ Live(ps) <=> (Live(os) /\ ~dv)
  /\ \A R : FlowAll(os, Len(os), R) => FlowAll(ps, Len(ps), R)

LEMMA AfterFrames ==
  ASSUME NEW os, NEW n \in Nat, NEW ls, NEW ns, Frames(os, n, ls, ns),
         os[Len(os)].kind \in Lasts, NEW dv \in BOOLEAN, NEW ps, IsAfter(os, dv, ps)
  PROVE  Passed(os, dv, ps, n, ls, ns)
<1> DEFINE L == Len(os)
           f == os[L]
           g == ps[L]
<1>1. Shape(os, n) /\ Apart(os) /\ LoopFrames(os, ls) /\ Nests(os, ns)
  BY DEF Frames
<1>2. L \in Nat \ {0} /\ os \in Seq(FrameSet) /\ (\A d \in 1 .. L : os[d] \in FrameSet) /\ L \in 1 .. L
  BY <1>1, ShapeIs
<1>3. /\ ps \in Seq(FrameSet) /\ Len(ps) = L
      /\ \A d \in 1 .. L : d # L => ps[d] = os[d]
      /\ g = [f EXCEPT !.div = IF f.kind = "arm" THEN dv ELSE f.div \/ dv,
                       !.kind = IF f.kind = "arm" THEN "arm_done" ELSE f.kind]
  <2>1. L = Len(os) /\ L # 0 /\ ps = After(os, dv) /\ os \in Seq(FrameSet)
    BY <1>2 DEF IsAfter
  <2> HIDE DEF L
  <2>2. /\ ps \in Seq(FrameSet) /\ Len(ps) = L
        /\ \A d \in 1 .. L : d # L => ps[d] = os[d]
        /\ ps[L] = Judged(os[L], dv)
    BY <2>1, AfterIs
  <2> QED BY <2>2 DEF Judged
<1>4. /\ g.end = f.end /\ g.alt = f.alt /\ g.wild = f.wild /\ g.resume = f.resume
      /\ g.wasDiv = f.wasDiv
      /\ f.kind = "arm" => g.kind = "arm_done" /\ (g.div <=> dv)
      /\ f.kind # "arm" => g.kind = f.kind /\ (g.div <=> f.div \/ dv)
      /\ f.kind \in Lasts
  BY <1>2, <1>3 DEF FrameSet
<1>5. GoodFrame(f, n) /\ (f.kind = "fn" <=> L = 1)
  BY <1>1, <1>2 DEF Shape
<1> HIDE DEF L, f, g
<1>6. /\ Awaits(g) = Awaits(f) /\ GoodFrame(g, n) /\ (g.kind = "fn" <=> f.kind = "fn")
      /\ (g.kind \in Arms <=> f.kind \in Arms) /\ g.kind # "match" /\ f.kind # "match"
      /\ (g.kind \in Compounds <=> f.kind \in Compounds)
      /\ (g.kind \in {"while"} <=> f.kind \in {"while"})
  BY <1>4, <1>5 DEF Awaits, GoodFrame, Lasts, Lists, Arms, Compounds
<1>7. /\ \A d \in 1 .. L : d # L => ps[d] = os[d]
      /\ ps[L] = g /\ os[L] = f
  BY <1>3 DEF f, g
<1>8. /\ Shape(ps, n) /\ Apart(ps) /\ LoopFrames(ps, ls) /\ InnerTo(ps, L) = InnerTo(os, L)
      /\ Awaited(ps) = (Awaited(os) \ Awaits(f)) \cup Awaits(g)
      /\ \A w : Marked(os, L, Compounds, Len(ns), w) => Marked(ps, L, Compounds, Len(ns), w)
      /\ \A d \in 1 .. L : Alive(ps, d) <=> Alive(os, d)
  <2>1. Recasts(os, L, f, ps, g)
    BY <1>3, <1>7 DEF Recasts, L
  <2>2. Alike(f, g) /\ n <= n
    BY <1>4, <1>6 DEF Alike
  <2>3. Recasted(os, L, f, ps, g, n, ls, ns)
    BY <1>6, <2>1, <2>2, Recast
  <2> QED BY <2>3 DEF Recasted
<1>9. Awaited(ps) = Awaited(os)
  <2>1. Awaits(f) \subseteq Awaited(os)
    BY <1>1, <1>2, AwaitedIn DEF f, L
  <2> QED BY <1>6, <1>8, <2>1
<1>12. Nests(ps, ns)
  <2>1. \A d \in 1 .. L : (ps[d].kind = "match" <=> os[d].kind = "match") /\ ps[d].wild = os[d].wild
    BY <1>4, <1>6, <1>7
  <2> QED BY <1>1, <1>3, <1>8, <2>1, NestsStay DEF L
<1>13. ASSUME NEW c, NEW e PROVE Detours(ps, c) = Detours(os, e)
  <2>1. WildOf(g) = 0 /\ WildOf(f) = 0
    BY <1>6 DEF WildOf
  <2> QED BY <1>3, <1>7, <1>8, <2>1 DEF Detours, With, L
<1>15. Live(ps) <=> (Live(os) /\ ~dv)
  <2>1. g.div <=> f.div \/ dv
    BY <1>4, <1>5 DEF GoodFrame
  <2>2. Live(ps) <=> Alive(ps, L) /\ ~g.div
    BY <1>3, <1>6, <1>7 DEF Live
  <2>3. Live(os) <=> Alive(os, L) /\ ~f.div
    BY <1>3, <1>6, <1>7 DEF Live, L
  <2> QED BY <1>2, <1>8, <2>1, <2>2, <2>3
<1>16. ASSUME NEW R, FlowAll(os, L, R) PROVE FlowAll(ps, L, R)
  <2>1. ASSUME NEW d \in 1 .. L PROVE FrameFlow(ps[d], Alive(ps, d), R)
    <3>1. FrameFlow(os[d], Alive(ps, d), R)
      BY <1>8, <1>16 DEF FlowAll, FrameFlow
    <3>2. CASE d = L
      <4>1. FrameFlow(f, Alive(ps, L), R)
        BY <1>7, <3>1, <3>2
      <4> DEFINE a == Alive(ps, L)
      <4> HIDE DEF a
      <4>2. FrameFlow(g, a, R)
        BY <1>4, <1>6, <4>1 DEF FrameFlow, Arms, a
      <4> QED BY <1>7, <3>2, <4>2 DEF a
    <3>3. CASE d # L
      BY <1>7, <3>1, <3>3
    <3> QED BY <3>2, <3>3
  <2> QED BY <2>1 DEF FlowAll
<1> QED BY <1>3, <1>6, <1>7, <1>8, <1>9, <1>12, <1>13, <1>15, <1>16 DEF Passed, Frames, L

\* The blocks a frame names are among the first n.
LEMMA FlowAgree ==
  ASSUME NEW fr \in FrameSet, NEW n \in Nat, GoodFrame(fr, n), NEW a, NEW R, NEW S,
         \A b \in 1 .. n : b \in S <=> b \in R, FrameFlow(fr, a, R)
  PROVE  FrameFlow(fr, a, S)
<1>1. /\ \A x \in {fr.end, fr.alt, fr.wild, fr.resume} : x # 0 => x \in 1 .. n
      /\ \A x \in {fr.end, fr.alt, fr.wild, fr.resume} : x # 0 => (x \in S <=> x \in R)
  BY DEF GoodFrame, FrameSet
<1>2. /\ fr.kind \in Compounds => fr.end # 0
      /\ fr.kind = "while" => fr.alt # 0
      /\ fr.kind \in Arms => fr.resume # 0
  BY DEF GoodFrame
<1> QED BY <1>1, <1>2 DEF FrameFlow, Compounds, Arms

Pushes == {"block", "then", "while", "match", "arm"}

Entered(os, fr, ps) ==
  /\ ps \in Seq(FrameSet) /\ Len(ps) = Len(os) + 1 /\ ps[Len(os) + 1] = fr
  /\ \A d \in 1 .. Len(os) : ps[d] = os[d]

LEMMA EnteredIs ==
  ASSUME NEW os \in Seq(FrameSet), NEW fr \in FrameSet
  PROVE  Entered(os, fr, Append(os, fr))
BY Pushed DEF Entered

\* A frame that can come next.
Fits(os, fr, m) ==
  /\ fr \in FrameSet /\ fr.kind \in Pushes /\ fr.wild = 0 /\ GoodFrame(fr, m)
  /\ os[Len(os)].kind # "arm_done"
  /\ os[Len(os)].kind = "match" <=> fr.kind = "arm"
  /\ fr.kind = "arm" => fr.end = os[Len(os)].end
  /\ fr.kind # "match" => ~fr.div
  /\ Awaits(fr) \cap Awaited(os) = {}

LoopsInto(fr, ls, ls2) ==
  ls2 = IF fr.kind = "while" THEN Append(ls, [continueTo |-> fr.alt, breakTo |-> fr.end]) ELSE ls
NestsInto(fr, ns, ns2) ==
  IF fr.kind \in {"block", "arm"} THEN ns2 = ns
  ELSE \E x \in NestSet : ~x.wild /\ ns2 = Append(ns, x)

Inside(os, fr, n, ps, m, ls2, ns2) ==
  /\ Frames(ps, m, ls2, ns2) /\ ps[Len(ps)] = fr
  /\ Awaited(ps) = Awaited(os) \cup Awaits(fr)
  /\ \A c : Detours(ps, c) = Detours(os, fr.resume)
  /\ Live(ps) <=> Live(os)
  /\ \A R, S : /\ FlowAll(os, Len(os), R) /\ FrameFlow(fr, Live(os), S)
               /\ \A b \in 1 .. n : b \in S <=> b \in R
               => FlowAll(ps, Len(ps), S)

\* The walk enters a statement, or an arm.
LEMMA PushFrames ==
  ASSUME NEW os, NEW n \in Nat, NEW ls, NEW ns, Frames(os, n, ls, ns), NEW m \in Nat, n <= m,
         NEW fr, Fits(os, fr, m), NEW ps, Entered(os, fr, ps),
         NEW ls2, LoopsInto(fr, ls, ls2), NEW ns2, NestsInto(fr, ns, ns2)
  PROVE  Inside(os, fr, n, ps, m, ls2, ns2)
<1>0. /\ fr \in FrameSet /\ fr.kind \in Pushes /\ fr.wild = 0 /\ GoodFrame(fr, m)
      /\ os[Len(os)].kind # "arm_done" /\ (os[Len(os)].kind = "match" <=> fr.kind = "arm")
      /\ fr.kind = "arm" => fr.end = os[Len(os)].end
      /\ fr.kind # "match" => ~fr.div
      /\ Awaits(fr) \cap Awaited(os) = {}
  BY DEF Fits
<1> DEFINE L == Len(os)
<1>1. Shape(os, n) /\ Apart(os) /\ LoopFrames(os, ls) /\ Nests(os, ns)
  BY DEF Frames
<1>2. L \in Nat \ {0} /\ os \in Seq(FrameSet) /\ (\A d \in 1 .. L : os[d] \in FrameSet) /\ L \in 1 .. L
  BY <1>1, ShapeIs
<1>3. /\ ps \in Seq(FrameSet) /\ Len(ps) = L + 1 /\ ps[L + 1] = fr
      /\ \A d \in 1 .. L : ps[d] = os[d]
  BY DEF Entered
<1>4. /\ \A d \in 1 .. L : GoodFrame(os[d], n) /\ (os[d].kind = "fn" <=> d = 1)
      /\ \A d \in 1 .. L - 1 :
          /\ os[d].kind # "arm_done"
          /\ os[d].kind = "match" <=> os[d + 1].kind \in Arms
          /\ os[d].kind = "match" => os[d + 1].end = os[d].end
      /\ os[L].kind # "arm_done" /\ (os[L].kind = "match" <=> fr.kind = "arm")
      /\ fr.kind = "arm" => fr.end = os[L].end
      /\ L = Len(os)
  BY <1>0, <1>1 DEF Shape
<1>5. \A d \in 1 .. L : os[d] \in FrameSet /\ GoodFrame(os[d], m)
  BY <1>2, <1>4, GoodMore
<1> HIDE DEF L
<1>6. /\ \A d \in 1 .. L + 1 : d \in 1 .. L \/ d = L + 1
      /\ \A d \in 1 .. L : d \in 1 .. L + 1 /\ d # L + 1
      /\ \A d \in 1 .. (L + 1) - 1 : d \in 1 .. L /\ (d \in 1 .. L - 1 \/ d = L)
      /\ \A d \in 1 .. L - 1 : d + 1 \in 1 .. L /\ d \in 1 .. L
      /\ L + 1 \in 1 .. L + 1 /\ L + 1 # 1
  BY <1>2
<1>7. fr.kind # "fn" /\ (fr.kind \in Arms <=> fr.kind = "arm")
  BY <1>0, <1>4 DEF Pushes, Arms
<1>8. Shape(ps, m)
  <2>1. ASSUME NEW d \in 1 .. L + 1 PROVE GoodFrame(ps[d], m) /\ (ps[d].kind = "fn" <=> d = 1)
    <3>1. CASE d = L + 1
      BY <1>0, <1>3, <1>6, <1>7, <3>1
    <3>2. CASE d \in 1 .. L
      <4>1. ps[d] = os[d]
        BY <1>3, <3>2
      <4> QED BY <1>4, <1>5, <3>2, <4>1
    <3> QED BY <1>6, <3>1, <3>2
  <2>2. ASSUME NEW d \in 1 .. (L + 1) - 1
        PROVE  /\ ps[d].kind # "arm_done" /\ (ps[d].kind = "match" <=> ps[d + 1].kind \in Arms)
               /\ ps[d].kind = "match" => ps[d + 1].end = ps[d].end
    <3>1. CASE d = L
      BY <1>3, <1>4, <1>6, <1>7, <3>1
    <3>2. CASE d \in 1 .. L - 1
      <4>1. d \in 1 .. L /\ d + 1 \in 1 .. L
        BY <1>6, <3>2
      <4>2. ps[d] = os[d] /\ ps[d + 1] = os[d + 1]
        BY <1>3, <4>1
      <4> QED BY <1>4, <3>2, <4>2
    <3> QED BY <1>6, <3>1, <3>2
  <2>3. L + 1 >= 1
    BY <1>2
  <2> QED BY <1>3, <2>1, <2>2, <2>3 DEF Shape
<1>9. \A d \in 1 .. L : Awaits(os[d]) \cap Awaits(fr) = {}
  <2>1. \A d \in 1 .. L : Awaits(os[d]) \subseteq Awaited(os)
    BY <1>1, AwaitedIn DEF L
  <2> QED BY <1>0, <2>1
<1>10. Apart(ps)
  <2>1. ASSUME NEW d \in 1 .. L + 1, NEW e \in 1 .. L + 1, d # e
        PROVE  Awaits(ps[d]) \cap Awaits(ps[e]) = {}
    <3>1. CASE d = L + 1
      BY <1>3, <1>6, <1>9, <2>1, <3>1
    <3>2. CASE e = L + 1
      BY <1>3, <1>6, <1>9, <2>1, <3>2
    <3>3. CASE d # L + 1 /\ e # L + 1
      <4>1. \A i, j \in 1 .. L : i # j => Awaits(os[i]) \cap Awaits(os[j]) = {}
        BY <1>1 DEF Apart, L
      <4>2. d \in 1 .. L /\ e \in 1 .. L
        BY <1>6, <3>3
      <4> QED BY <1>3, <2>1, <4>1, <4>2
    <3> QED BY <3>1, <3>2, <3>3
  <2> QED BY <1>3, <2>1 DEF Apart
<1>11. Awaited(ps) = Awaited(os) \cup Awaits(fr)
  <2>1. ASSUME NEW b PROVE b \in Awaited(ps) <=> b \in Awaited(os) \cup Awaits(fr)
    <3>1. b \in Awaited(ps) <=> \E d \in 1 .. L + 1 : b \in Awaits(ps[d])
      BY <1>3 DEF Awaited
    <3>2. b \in Awaited(os) <=> \E d \in 1 .. L : b \in Awaits(os[d])
      BY DEF Awaited, L
    <3> QED BY <1>3, <1>6, <3>1, <3>2
  <2> QED BY <2>1
<1>12. LoopFrames(ps, ls2)
  <2>1. CASE fr.kind = "while"
    <3> DEFINE lp == [continueTo |-> fr.alt, breakTo |-> fr.end]
    <3>1. ls2 = Append(ls, lp) /\ lp \in LoopSet
      BY <1>0, <2>1 DEF LoopsInto, LoopSet, FrameSet
    <3>2. lp = [continueTo |-> ps[Len(ps)].alt, breakTo |-> ps[Len(ps)].end]
      BY <1>3
    <3> HIDE DEF lp
    <3>3. LoopFrames(ps, Append(ls, lp))
      BY <1>1, <1>2, <1>3, <2>1, <3>1, <3>2, LoopsPush DEF L
    <3> QED BY <3>1, <3>3
  <2>2. CASE fr.kind # "while"
    <3> DEFINE K == {"while"}
               N == Len(ls)
    <3>1. N \in Nat /\ ps[L + 1].kind \notin K
      BY <1>1, <1>3, <2>2 DEF LoopFrames
    <3>2. \A d \in 1 .. L : ps[d].kind \in K <=> os[d].kind \in K
      BY <1>3
    <3> HIDE DEF K, N
    <3>3. \A w : Marked(os, L, K, N, w) => Marked(ps, L + 1, K, N, w)
      BY <1>2, <3>1, <3>2, MarkedPushOther
    <3>4. \A w : Marked(os, Len(os), K, N, w) => Marked(ps, Len(ps), K, N, w)
      BY <1>3, <3>3 DEF L
    <3>5. \A d \in 1 .. Len(os) : d \in 1 .. Len(ps) => ps[d].alt = os[d].alt /\ ps[d].end = os[d].end
      BY <1>3 DEF L
    <3>6. LoopFrames(ps, ls)
      BY <1>1, <3>4, <3>5, LoopsStay DEF K, N
    <3>7. ls2 = ls
      BY <2>2 DEF LoopsInto
    <3> QED BY <3>6, <3>7
  <2> QED BY <2>1, <2>2
<1>13. Nests(ps, ns2)
  <2>1. CASE fr.kind \notin {"block", "arm"}
    <3>1. PICK x \in NestSet : ~x.wild /\ ns2 = Append(ns, x)
      BY <2>1 DEF NestsInto
    <3>2. /\ fr.kind \in Compounds /\ fr.wild = 0 /\ x.wild = FALSE
          /\ ps[Len(ps)].kind \in Compounds /\ ps[Len(ps)].wild = 0
      BY <1>0, <1>3, <2>1, <3>1 DEF Pushes, Compounds, NestSet
    <3>3. Nests(ps, Append(ns, x))
      BY <1>1, <1>2, <1>3, <3>2, NestsPush DEF L
    <3> QED BY <3>1, <3>3
  <2>2. CASE fr.kind \in {"block", "arm"}
    <3> DEFINE N == Len(ns)
    <3>1. N \in Nat /\ ps[L + 1].kind \notin Compounds
      BY <1>1, <1>3, <2>2 DEF Nests, Compounds
    <3>2. \A d \in 1 .. L : ps[d].kind \in Compounds <=> os[d].kind \in Compounds
      BY <1>3
    <3> HIDE DEF N
    <3>3. \A w : Marked(os, L, Compounds, N, w) => Marked(ps, L + 1, Compounds, N, w)
      BY <1>2, <3>1, <3>2, MarkedPushOther
    <3>4. \A w : Marked(os, Len(os), Compounds, N, w) => Marked(ps, Len(ps), Compounds, N, w)
      BY <1>3, <3>3 DEF L
    <3>5. \A d \in 1 .. Len(os) : d \in 1 .. Len(ps) =>
            (ps[d].kind = "match" <=> os[d].kind = "match") /\ ps[d].wild = os[d].wild
      BY <1>3 DEF L
    <3>6. Nests(ps, ns)
      BY <1>1, <3>4, <3>5, NestsStay DEF N
    <3>7. ns2 = ns
      BY <2>2 DEF NestsInto
    <3> QED BY <3>6, <3>7
  <2> QED BY <2>1, <2>2
<1>14. ASSUME NEW c PROVE Detours(ps, c) = Detours(os, fr.resume)
  <2>1. InnerTo(ps, L + 1) = With(InnerTo(ps, L), ps[L + 1].resume, WildOf(ps[L]))
    BY <1>2, InnerNext
  <2>2. \A d \in 1 .. L - 1 : /\ ps[d].kind = "match" <=> os[d].kind = "match"
                              /\ ps[d].wild = os[d].wild /\ ps[d + 1].resume = os[d + 1].resume
    BY <1>3, <1>6
  <2>3. InnerTo(ps, L) = InnerTo(os, L)
    BY <2>2, InnerSame
  <2>4. ps[L] = os[L] /\ WildOf(fr) = 0
    BY <1>0, <1>2, <1>3 DEF WildOf
  <2> QED BY <1>3, <2>1, <2>3, <2>4 DEF Detours, With, L
<1>15. \A d \in 1 .. L : Alive(ps, d) <=> Alive(os, d)
  <2>1. \A d \in 1 .. L : \A k \in 1 .. d - 1 : k \in 1 .. L
    BY <1>2
  <2>2. \A d \in 1 .. L : \A k \in 1 .. d - 1 : Stopped(ps[k]) <=> Stopped(os[k])
    BY <1>3, <2>1
  <2> QED BY <2>2, AliveSame
<1>16. Alive(ps, L + 1) <=> Live(os)
  <2>1. Alive(ps, L + 1) <=> Alive(os, L) /\ ~Stopped(os[L])
    BY <1>2, <1>3, <1>15, AliveNext
  <2>2. Stopped(os[L]) <=> (os[L].kind # "match" /\ os[L].div)
    BY <1>2, <1>4 DEF Stopped, Lists, FrameSet, Kinds, Arms, Compounds
  <2> QED BY <2>1, <2>2 DEF Live, L
<1>17. Live(ps) <=> Live(os)
  BY <1>0, <1>3, <1>16 DEF Live
<1>18. ASSUME NEW R, NEW S, FlowAll(os, L, R), FrameFlow(fr, Live(os), S),
              \A b \in 1 .. n : b \in S <=> b \in R
       PROVE  FlowAll(ps, L + 1, S)
  <2>1. ASSUME NEW d \in 1 .. L PROVE FrameFlow(ps[d], Alive(ps, d), S)
    <3>1. FrameFlow(os[d], Alive(os, d), R)
      BY <1>18 DEF FlowAll
    <3>2. FrameFlow(os[d], Alive(os, d), S)
      <4> DEFINE a == Alive(os, d)
      <4> HIDE DEF a
      <4>1. FrameFlow(os[d], a, R)
        BY <3>1 DEF a
      <4>2. FrameFlow(os[d], a, S)
        BY <1>2, <1>4, <1>18, <4>1, FlowAgree
      <4> QED BY <4>2 DEF a
    <3> QED BY <1>3, <1>15, <3>2 DEF FrameFlow
  <2>2. FrameFlow(ps[L + 1], Alive(ps, L + 1), S)
    BY <1>3, <1>16, <1>18 DEF FrameFlow
  <2> QED BY <1>6, <2>1, <2>2 DEF FlowAll
<1> QED BY <1>3, <1>8, <1>10, <1>11, <1>12, <1>13, <1>14, <1>17, <1>18 DEF Inside, Frames, L

Closes == {"block", "then", "else", "while", "match", "arm_done"}

LoopsOut(fr, ls, ls2) == ls2 = IF fr.kind = "while" THEN SubSeq(ls, 1, Len(ls) - 1) ELSE ls
NestsOut(fr, ns, ns2) ==
  ns2 = IF fr.kind \in {"block", "arm_done"} THEN ns ELSE SubSeq(ns, 1, Len(ns) - 1)
Left(os, fr, ps) == fr = os[Len(os)] /\ ps = SubSeq(os, 1, Len(os) - 1)

Outside(os, fr, n, ps, ls2, ns2) ==
  /\ Frames(ps, n, ls2, ns2)
  /\ fr.kind # "arm_done" => ps[Len(ps)].kind \in Lasts
  /\ fr.kind = "arm_done" => ps[Len(ps)].kind = "match" /\ fr.end = ps[Len(ps)].end
  /\ Awaited(ps) = Awaited(os) \ Awaits(fr)
  /\ \A c : Detours(os, c) = With(Detours(ps, fr.resume), c, WildOf(fr))
  /\ Live(ps) <=> Alive(os, Len(os))
  /\ \A R : FlowAll(os, Len(os), R) =>
       FlowAll(ps, Len(ps), R) /\ FrameFlow(fr, Alive(os, Len(os)), R)

\* The walk leaves a statement, or an arm.
LEMMA PopFrames ==
  ASSUME NEW os, NEW n \in Nat, NEW ls, NEW ns, Frames(os, n, ls, ns),
         NEW fr, NEW ps, Left(os, fr, ps), fr.kind \in Closes,
         NEW ls2, LoopsOut(fr, ls, ls2), NEW ns2, NestsOut(fr, ns, ns2)
  PROVE  Outside(os, fr, n, ps, ls2, ns2) /\ (fr.kind = "while" => Len(ls) # 0)
<1> DEFINE L == Len(os)
           M == L - 1
<1>0. fr = os[L] /\ ps = SubSeq(os, 1, L - 1)
  BY DEF Left
<1>1. Shape(os, n) /\ Apart(os) /\ LoopFrames(os, ls) /\ Nests(os, ns)
  BY DEF Frames
<1>2. L \in Nat \ {0} /\ os \in Seq(FrameSet) /\ (\A d \in 1 .. L : os[d] \in FrameSet) /\ L \in 1 .. L
  BY <1>1, ShapeIs
<1>3. L # 1
  <2>1. os[L].kind = "fn" <=> L = 1
    BY <1>1, <1>2 DEF Shape
  <2> QED BY <1>0, <2>1 DEF Closes
<1>4. /\ ps \in Seq(FrameSet) /\ Len(ps) = M /\ M \in Nat \ {0} /\ L = M + 1
      /\ \A d \in 1 .. M : ps[d] = os[d]
  BY <1>0, <1>2, <1>3, Popped
<1>5. /\ \A d \in 1 .. L : GoodFrame(os[d], n) /\ (os[d].kind = "fn" <=> d = 1)
      /\ \A d \in 1 .. M :
          /\ os[d].kind # "arm_done"
          /\ os[d].kind = "match" <=> os[d + 1].kind \in Arms
          /\ os[d].kind = "match" => os[d + 1].end = os[d].end
      /\ os[L] = fr /\ L = Len(os)
  BY <1>0, <1>1 DEF Shape
<1> HIDE DEF L, M
<1>6. /\ \A d \in 1 .. M : d \in 1 .. L /\ d # L
      /\ \A d \in 1 .. L : d \in 1 .. M \/ d = L
      /\ \A d \in 1 .. M - 1 : d \in 1 .. M /\ d + 1 \in 1 .. M
      /\ M \in 1 .. M /\ L = M + 1
  BY <1>4
<1>7. /\ ps[M] = os[M] /\ os[M].kind \in Lasts \cup {"match"} /\ (os[M].kind = "match" => os[M].kind \notin Lasts)
      /\ os[M].kind = "match" <=> fr.kind = "arm_done"
      /\ fr.kind = "arm_done" => fr.end = os[M].end
  <2>1. /\ os[M].kind # "arm_done" /\ (os[M].kind = "match" <=> fr.kind = "arm_done")
        /\ fr.kind = "arm_done" => fr.end = os[M].end
    BY <1>5, <1>6 DEF Closes, Arms
  <2>2. os[M].kind \in Kinds
    BY <1>2, <1>6 DEF FrameSet
  <2> QED BY <1>4, <1>6, <2>1, <2>2 DEF Kinds, Arms, Compounds, Lasts, Lists
<1>8. Shape(ps, n)
  <2>1. \A d \in 1 .. M : GoodFrame(ps[d], n) /\ (ps[d].kind = "fn" <=> d = 1)
    BY <1>4, <1>5, <1>6
  <2>2. \A d \in 1 .. M - 1 :
          /\ ps[d].kind # "arm_done" /\ (ps[d].kind = "match" <=> ps[d + 1].kind \in Arms)
          /\ ps[d].kind = "match" => ps[d + 1].end = ps[d].end
    BY <1>4, <1>5, <1>6
  <2>3. M >= 1
    BY <1>4
  <2> QED BY <1>4, <2>1, <2>2, <2>3 DEF Shape
<1>9. \A i, j \in 1 .. L : i # j => Awaits(os[i]) \cap Awaits(os[j]) = {}
  BY <1>1 DEF Apart, L
<1>10. Apart(ps)
  <2>1. \A i, j \in 1 .. M : i # j => Awaits(ps[i]) \cap Awaits(ps[j]) = {}
    BY <1>4, <1>6, <1>9
  <2> QED BY <1>4, <2>1 DEF Apart
<1>11. Awaited(ps) = Awaited(os) \ Awaits(fr)
  <2>1. ASSUME NEW b PROVE b \in Awaited(ps) <=> b \in Awaited(os) \ Awaits(fr)
    <3>1. b \in Awaited(ps) <=> \E d \in 1 .. M : b \in Awaits(os[d])
      BY <1>4 DEF Awaited
    <3>2. b \in Awaited(os) <=> \E d \in 1 .. L : b \in Awaits(os[d])
      BY DEF Awaited, L
    <3>3. \A d \in 1 .. M : ~(b \in Awaits(os[d]) /\ b \in Awaits(fr))
      BY <1>2, <1>5, <1>6, <1>9
    <3> QED BY <1>5, <1>6, <3>1, <3>2, <3>3
  <2> QED BY <2>1
<1>12. LoopFrames(ps, ls2) /\ (fr.kind = "while" => Len(ls) # 0)
  <2>1. CASE fr.kind = "while"
    <3>1. ls2 = SubSeq(ls, 1, Len(ls) - 1)
      BY <2>1 DEF LoopsOut
    <3>2. LoopFrames(ps, SubSeq(ls, 1, Len(ls) - 1)) /\ Len(ls) # 0
      <4>1. /\ Len(os) \in Nat \ {0} /\ Len(ps) = Len(os) - 1 /\ os[Len(os)].kind = "while"
            /\ \A d \in 1 .. Len(os) - 1 : ps[d] = os[d]
        BY <1>2, <1>4, <1>5, <2>1 DEF L, M
      <4> QED BY <1>1, <4>1, LoopsPop
    <3> QED BY <3>1, <3>2
  <2>2. CASE fr.kind # "while"
    <3> DEFINE K == {"while"}
               N == Len(ls)
    <3>1. N \in Nat /\ os[L].kind \notin K
      BY <1>1, <1>5, <2>2 DEF LoopFrames
    <3>2. \A d \in 1 .. L - 1 : ps[d].kind \in K <=> os[d].kind \in K
      BY <1>4 DEF M
    <3> HIDE DEF K, N
    <3>3. \A w : Marked(os, L, K, N, w) => Marked(ps, L - 1, K, N, w)
      BY <1>2, <3>1, <3>2, MarkedPopOther
    <3>4. \A w : Marked(os, Len(os), K, N, w) => Marked(ps, Len(ps), K, N, w)
      BY <1>4, <3>3 DEF L, M
    <3>5. \A d \in 1 .. Len(os) : d \in 1 .. Len(ps) => ps[d].alt = os[d].alt /\ ps[d].end = os[d].end
      BY <1>4
    <3>6. LoopFrames(ps, ls)
      BY <1>1, <3>4, <3>5, LoopsStay DEF K, N
    <3>7. ls2 = ls
      BY <2>2 DEF LoopsOut
    <3> QED BY <2>2, <3>6, <3>7
  <2> QED BY <2>1, <2>2
<1>13. Nests(ps, ns2)
  <2>1. CASE fr.kind \notin {"block", "arm_done"}
    <3>1. ns2 = SubSeq(ns, 1, Len(ns) - 1) /\ fr.kind \in Compounds
      BY <2>1 DEF Closes, Compounds, NestsOut
    <3>2. Nests(ps, SubSeq(ns, 1, Len(ns) - 1))
      <4>1. /\ Len(os) \in Nat \ {0} /\ Len(ps) = Len(os) - 1 /\ os[Len(os)].kind \in Compounds
            /\ \A d \in 1 .. Len(os) - 1 : ps[d] = os[d]
        BY <1>2, <1>4, <1>5, <3>1 DEF L, M
      <4> QED BY <1>1, <4>1, NestsPop
    <3> QED BY <3>1, <3>2
  <2>2. CASE fr.kind \in {"block", "arm_done"}
    <3> DEFINE N == Len(ns)
    <3>1. N \in Nat /\ os[L].kind \notin Compounds
      BY <1>1, <1>5, <2>2 DEF Nests, Compounds
    <3>2. \A d \in 1 .. L - 1 : ps[d].kind \in Compounds <=> os[d].kind \in Compounds
      BY <1>4 DEF M
    <3> HIDE DEF N
    <3>3. \A w : Marked(os, L, Compounds, N, w) => Marked(ps, L - 1, Compounds, N, w)
      BY <1>2, <3>1, <3>2, MarkedPopOther
    <3>4. \A w : Marked(os, Len(os), Compounds, N, w) => Marked(ps, Len(ps), Compounds, N, w)
      BY <1>4, <3>3 DEF L, M
    <3>5. \A d \in 1 .. Len(os) : d \in 1 .. Len(ps) =>
            (ps[d].kind = "match" <=> os[d].kind = "match") /\ ps[d].wild = os[d].wild
      BY <1>4
    <3>6. Nests(ps, ns)
      BY <1>1, <3>4, <3>5, NestsStay DEF N
    <3>7. ns2 = ns
      BY <2>2 DEF NestsOut
    <3> QED BY <3>6, <3>7
  <2> QED BY <2>1, <2>2
<1>14. ASSUME NEW c PROVE Detours(os, c) = With(Detours(ps, fr.resume), c, WildOf(fr))
  <2>1. InnerTo(os, M + 1) = With(InnerTo(os, M), os[M + 1].resume, WildOf(os[M]))
    BY <1>4, InnerNext
  <2>2. \A d \in 1 .. M - 1 : /\ ps[d].kind = "match" <=> os[d].kind = "match"
                              /\ ps[d].wild = os[d].wild /\ ps[d + 1].resume = os[d + 1].resume
    BY <1>4, <1>6
  <2>3. InnerTo(ps, M) = InnerTo(os, M)
    BY <2>2, InnerSame
  <2>4. ps[M] = os[M] /\ os[L] = fr /\ os[M + 1] = fr
    BY <1>4, <1>5, <1>7
  <2> QED BY <1>4, <1>5, <2>1, <2>3, <2>4 DEF Detours
<1>15. \A d \in 1 .. L : Alive(ps, d) <=> Alive(os, d)
  <2>1. \A d \in 1 .. L : \A k \in 1 .. d - 1 : k \in 1 .. M
    BY <1>2 DEF M
  <2>2. \A d \in 1 .. L : \A k \in 1 .. d - 1 : Stopped(ps[k]) <=> Stopped(os[k])
    BY <1>4, <2>1
  <2> QED BY <2>2, AliveSame
<1>16. Live(ps) <=> Alive(os, L)
  <2>1. Alive(os, M + 1) <=> Alive(os, M) /\ ~Stopped(os[M])
    BY <1>4, AliveNext
  <2>2. Stopped(os[M]) <=> (os[M].kind # "match" /\ os[M].div)
    BY <1>7 DEF Stopped, Lasts, Lists
  <2> QED BY <1>4, <1>6, <1>7, <1>15, <2>1, <2>2 DEF Live
<1>17. ASSUME NEW R, FlowAll(os, L, R)
       PROVE  FlowAll(ps, M, R) /\ FrameFlow(fr, Alive(os, L), R)
  <2>1. ASSUME NEW d \in 1 .. M PROVE FrameFlow(ps[d], Alive(ps, d), R)
    <3>1. FrameFlow(os[d], Alive(os, d), R)
      BY <1>6, <1>17 DEF FlowAll
    <3> QED BY <1>4, <1>6, <1>15, <3>1 DEF FrameFlow
  <2>2. FrameFlow(os[L], Alive(os, L), R)
    BY <1>2, <1>17 DEF FlowAll
  <2> QED BY <1>5, <2>1, <2>2 DEF FlowAll
<1>18. Frames(ps, n, ls2, ns2)
  BY <1>8, <1>10, <1>12, <1>13 DEF Frames
<1>19. Outside(os, fr, n, ps, ls2, ns2)
  BY <1>4, <1>7, <1>11, <1>14, <1>16, <1>17, <1>18 DEF Outside, L
<1> QED BY <1>12, <1>19

\* A block that the statement does not wait for is found to be reached.
LEMMA OneMore ==
  ASSUME NEW fr, NEW a, NEW R, FrameFlow(fr, a, R), a, NEW b, b \notin Awaits(fr)
  PROVE  FrameFlow(fr, a, R \cup {b})
<1>1. /\ fr.kind \in Compounds => b # fr.end
      /\ fr.kind = "then" /\ fr.alt # 0 => b # fr.alt
      /\ fr.kind \in Arms => b # fr.resume
  BY DEF Awaits, Compounds, Arms
<1> QED BY <1>1 DEF FrameFlow, Compounds

LEMMA FlowMore ==
  ASSUME NEW os, NEW n \in Nat, Shape(os, n), Alive(os, Len(os)), NEW R, FlowAll(os, Len(os), R),
         NEW b, b \notin Awaited(os)
  PROVE  FlowAll(os, Len(os), R \cup {b})
<1>1. ASSUME NEW d \in 1 .. Len(os) PROVE FrameFlow(os[d], Alive(os, d), R \cup {b})
  <2>1. Len(os) \in Nat /\ d \in Nat /\ d <= Len(os)
    BY ShapeIs
  <2>2. Alive(os, d)
    BY <2>1, AliveFrom
  <2>3. FrameFlow(os[d], Alive(os, d), R)
    BY DEF FlowAll
  <2>4. b \notin Awaits(os[d])
    BY AwaitedIn
  <2> QED BY <2>2, <2>3, <2>4, OneMore
<1> QED BY <1>1 DEF FlowAll

LEMMA FramesMore ==
  ASSUME NEW os, NEW n \in Nat, NEW ls, NEW ns, Frames(os, n, ls, ns), NEW m \in Nat, n <= m
  PROVE  Frames(os, m, ls, ns)
<1>1. Shape(os, n) /\ \A d \in 1 .. Len(os) : os[d] \in FrameSet
  BY ShapeIs DEF Frames
<1>2. \A d \in 1 .. Len(os) : GoodFrame(os[d], m)
  BY <1>1, GoodMore DEF Shape
<1>3. Shape(os, m)
  BY <1>1, <1>2 DEF Shape
<1> QED BY <1>3 DEF Frames

LEMMA RecastsIs ==
  ASSUME NEW os \in Seq(FrameSet), NEW L, L = Len(os), L # 0, NEW g \in FrameSet
  PROVE  Recasts(os, L, os[L], [os EXCEPT ![L] = g], g)
<1>1. L \in 1 .. Len(os)
  OBVIOUS
<1> QED BY <1>1, Replaced DEF Recasts

\* A branch ends where its statement waits: the frames around do not see it.
LEMMA FlowAround ==
  ASSUME NEW os, NEW n \in Nat, Shape(os, n), Apart(os), NEW L, L = Len(os),
         NEW R, FlowAll(os, L, R), NEW k \in 1 .. L, NEW b \in Awaits(os[k]),
         NEW go \in BOOLEAN, go => Alive(os, L),
         NEW S, S = IF go THEN R \cup {b} ELSE R
  PROVE  \A d \in 1 .. L : d # k => FrameFlow(os[d], Alive(os, d), S)
<1> SUFFICES ASSUME NEW d \in 1 .. L, d # k PROVE FrameFlow(os[d], Alive(os, d), S)
  OBVIOUS
<1>1. FrameFlow(os[d], Alive(os, d), R) /\ L \in Nat
  BY ShapeIs DEF FlowAll
<1>2. CASE ~go
  BY <1>1, <1>2
<1>3. CASE go
  <2>1. Alive(os, d)
    BY <1>1, <1>3, AliveFrom
  <2>2. b \notin Awaits(os[d])
    BY DEF Apart
  <2>3. FrameFlow(os[d], Alive(os, d), R \cup {b})
    BY <1>1, <2>1, <2>2, OneMore
  <2> QED BY <1>3, <2>3
<1> QED BY <1>2, <1>3

SameNames(f, g) == g.end = f.end /\ g.alt = f.alt /\ g.resume = f.resume

\* From the then branch to the else branch.
Turned(f, g) ==
  /\ f.kind = "then" /\ f.alt # 0 /\ g.kind = "else" /\ ~g.div /\ (g.wasDiv <=> f.div)
  /\ SameNames(f, g) /\ g.wild = f.wild

\* The innermost construct becomes x.
Reset(ns, x, ms) == x \in NestSet /\ ms = [ns EXCEPT ![Len(ns)] = x]

Elsed(os, L, f, ps, n, ls, ms) ==
  /\ Frames(ps, n, ls, ms)
  /\ Awaited(ps) = Awaited(os) \ {f.alt}
  /\ \A c, e : Detours(ps, c) = Detours(os, e)
  /\ Live(ps) <=> Alive(os, L)
  /\ \A R, S : FlowAll(os, L, R) /\ S = (IF Live(os) THEN R \cup {f.end} ELSE R)
               => FlowAll(ps, L, S)

LEMMA ElseFrames ==
  ASSUME NEW os, NEW n \in Nat, NEW ls, NEW ns, Frames(os, n, ls, ns),
         NEW L, NEW f, NEW ps, NEW g, Recasts(os, L, f, ps, g), Turned(f, g),
         NEW x, ~x.wild, NEW ms, Reset(ns, x, ms)
  PROVE  Elsed(os, L, f, ps, n, ls, ms)
<1>1. Shape(os, n) /\ Apart(os) /\ LoopFrames(os, ls) /\ Nests(os, ns)
  BY DEF Frames
<1>2. /\ L = Len(os) /\ os[L] = f /\ ps \in Seq(FrameSet) /\ Len(ps) = L /\ ps[L] = g
      /\ \A d \in 1 .. L : d # L => ps[d] = os[d]
  BY DEF Recasts
<1>3. L \in Nat \ {0} /\ L \in 1 .. L /\ f \in FrameSet /\ GoodFrame(f, n) /\ n <= n
  BY <1>1, <1>2, ShapeIs DEF Shape
<1>4. GoodFrame(g, n) /\ Alike(f, g) /\ Awaits(g) = {f.end} /\ Awaits(f) = {f.end, f.alt}
  BY <1>3 DEF GoodFrame, Alike, Turned, SameNames, Awaits, Compounds, Arms
<1>5. Recasted(os, L, f, ps, g, n, ls, ns)
  BY <1>3, <1>4, Recast
<1>6. Awaited(ps) = Awaited(os) \ {f.alt}
  <2>1. Awaited(ps) = (Awaited(os) \ {f.end, f.alt}) \cup {f.end}
    BY <1>4, <1>5 DEF Recasted
  <2>2. f.end \in Awaited(os) /\ f.end # f.alt
    <3>1. Awaits(os[L]) \subseteq Awaited(os)
      BY <1>1, <1>2, <1>3, AwaitedIn
    <3> QED BY <1>2, <1>3, <1>4, <3>1 DEF GoodFrame, Turned
  <2> QED BY <2>1, <2>2
<1>7. Nests(ps, ms)
  <2>1. /\ Len(os) \in Nat \ {0} /\ Len(ps) = Len(os)
        /\ os[Len(os)].kind \in Compounds /\ ps[Len(os)].kind \in Compounds
        /\ x.wild = (ps[Len(os)].kind = "match" /\ ps[Len(os)].wild # 0)
    BY <1>2, <1>3 DEF Turned, Compounds, NestSet, Reset
  <2>2. \A d \in 1 .. Len(os) - 1 : ps[d] = os[d]
    BY <1>2, <1>3
  <2>3. x \in NestSet /\ ms = [ns EXCEPT ![Len(ns)] = x]
    BY DEF Reset
  <2>4. Nests(ps, [ns EXCEPT ![Len(ns)] = x])
    BY <1>1, <2>1, <2>2, <2>3, NestsSet
  <2> QED BY <2>3, <2>4
<1>8. Frames(ps, n, ls, ms)
  BY <1>5, <1>7 DEF Recasted, Frames
<1>9. ASSUME NEW c, NEW e PROVE Detours(ps, c) = Detours(os, e)
  <2>1. WildOf(f) = 0 /\ WildOf(g) = 0
    BY DEF WildOf, Turned
  <2>2. InnerTo(ps, L) = InnerTo(os, L)
    BY <1>5 DEF Recasted
  <2> QED BY <1>2, <2>1, <2>2 DEF Detours, With
<1>10. Live(ps) <=> Alive(os, L)
  <2>1. Alive(ps, L) <=> Alive(os, L)
    BY <1>3, <1>5 DEF Recasted
  <2> QED BY <1>2, <2>1 DEF Live, Turned
<1>11. ASSUME NEW R, NEW S, FlowAll(os, L, R), S = IF Live(os) THEN R \cup {f.end} ELSE R
       PROVE  FlowAll(ps, L, S)
  <2> DEFINE go == Live(os)
  <2>1. /\ go \in BOOLEAN /\ (go => Alive(os, L)) /\ (go <=> Alive(os, L) /\ ~f.div)
        /\ S = IF go THEN R \cup {f.end} ELSE R
    BY <1>2, <1>11 DEF Live, Turned
  <2>2. f.end \in Awaits(os[L])
    BY <1>2, <1>4
  <2> HIDE DEF go
  <2>3. \A d \in 1 .. L : d # L => FrameFlow(os[d], Alive(os, d), S)
    BY <1>1, <1>2, <1>3, <1>11, <2>1, <2>2, FlowAround
  <2>4. FrameFlow(g, Alive(os, L), S)
    <3> DEFINE a == Alive(os, L)
    <3>1. FrameFlow(f, a, R) /\ (go <=> a /\ ~f.div)
      BY <1>2, <1>3, <1>11, <2>1 DEF FlowAll
    <3> HIDE DEF a
    <3>2. f.end \notin R /\ f.end = g.end /\ (g.wasDiv <=> f.div) /\ g.kind = "else"
      BY <3>1 DEF FrameFlow, Turned, SameNames
    <3>3. f.end \in S <=> a /\ ~g.wasDiv
      BY <2>1, <3>1, <3>2
    <3>4. FrameFlow(g, a, S)
      BY <3>2, <3>3 DEF FrameFlow, Arms
    <3> QED BY <3>4 DEF a
  <2>5. ASSUME NEW d \in 1 .. L PROVE FrameFlow(ps[d], Alive(ps, d), S)
    <3>1. Alive(ps, d) <=> Alive(os, d)
      BY <1>5 DEF Recasted
    <3>2. CASE d = L
      BY <1>2, <2>4, <3>1, <3>2 DEF FrameFlow
    <3>3. CASE d # L
      BY <1>2, <2>3, <3>1, <3>3 DEF FrameFlow
    <3> QED BY <3>2, <3>3
  <2> QED BY <2>5 DEF FlowAll
<1> QED BY <1>6, <1>8, <1>9, <1>10, <1>11 DEF Elsed

\* What changes in a match's frame at an arm: its wildcard, or its divergence.
MatchAlike(f, g) ==
  /\ f.kind = "match" /\ g.kind = "match" /\ SameNames(f, g)

Rearmed(os, L, f, ps, g, n, m, ls, ms) ==
  /\ Frames(ps, m, ls, ms)
  /\ Awaited(ps) = Awaited(os)
  /\ \A c : Detours(ps, c) = With(InnerTo(os, L), c, g.wild)
  /\ \A c : Detours(os, c) = With(InnerTo(os, L), c, f.wild)
  /\ (Live(ps) <=> Alive(os, L)) /\ (Live(os) <=> Alive(os, L))
  /\ \A d \in 1 .. L : Alive(ps, d) <=> Alive(os, d)
  /\ f \in FrameSet /\ GoodFrame(f, n) /\ L \in 1 .. L

LEMMA MatchFrames ==
  ASSUME NEW os, NEW n \in Nat, NEW ls, NEW ns, Frames(os, n, ls, ns), NEW m \in Nat, n <= m,
         NEW L, NEW f, NEW ps, NEW g, Recasts(os, L, f, ps, g), MatchAlike(f, g), g.wild <= m,
         NEW x, x.wild = (g.wild # 0), NEW ms, Reset(ns, x, ms)
  PROVE  Rearmed(os, L, f, ps, g, n, m, ls, ms)
<1>1. Shape(os, n) /\ Apart(os) /\ LoopFrames(os, ls) /\ Nests(os, ns)
  BY DEF Frames
<1>2. /\ L = Len(os) /\ os[L] = f /\ ps \in Seq(FrameSet) /\ Len(ps) = L /\ ps[L] = g
      /\ \A d \in 1 .. L : d # L => ps[d] = os[d]
  BY DEF Recasts
<1>3. L \in Nat \ {0} /\ L \in 1 .. L /\ f \in FrameSet /\ GoodFrame(f, n) /\ GoodFrame(f, m)
  BY <1>1, <1>2, ShapeIs, GoodMore DEF Shape
<1>4. GoodFrame(g, m) /\ Alike(f, g) /\ Awaits(g) = Awaits(f)
  BY <1>3 DEF GoodFrame, Alike, MatchAlike, SameNames, Awaits, Compounds, Arms
<1>5. Recasted(os, L, f, ps, g, m, ls, ns)
  BY <1>3, <1>4, Recast
<1>6. Awaited(ps) = Awaited(os)
  <2>1. Awaited(ps) = (Awaited(os) \ Awaits(f)) \cup Awaits(g)
    BY <1>5 DEF Recasted
  <2>2. Awaits(os[L]) \subseteq Awaited(os)
    BY <1>1, <1>2, <1>3, AwaitedIn
  <2> QED BY <1>2, <1>4, <2>1, <2>2
<1>7. Nests(ps, ms)
  <2>1. /\ Len(os) \in Nat \ {0} /\ Len(ps) = Len(os)
        /\ os[Len(os)].kind \in Compounds /\ ps[Len(os)].kind \in Compounds
        /\ x.wild = (ps[Len(os)].kind = "match" /\ ps[Len(os)].wild # 0)
    BY <1>2, <1>3 DEF MatchAlike, Compounds
  <2>2. \A d \in 1 .. Len(os) - 1 : ps[d] = os[d]
    BY <1>2, <1>3
  <2>3. x \in NestSet /\ ms = [ns EXCEPT ![Len(ns)] = x]
    BY DEF Reset
  <2>4. Nests(ps, [ns EXCEPT ![Len(ns)] = x])
    BY <1>1, <2>1, <2>2, <2>3, NestsSet
  <2> QED BY <2>3, <2>4
<1>8. Frames(ps, m, ls, ms)
  BY <1>5, <1>7 DEF Recasted, Frames
<1>9. /\ \A c : Detours(ps, c) = With(InnerTo(os, L), c, g.wild)
      /\ \A c : Detours(os, c) = With(InnerTo(os, L), c, f.wild)
  <2>1. WildOf(f) = f.wild /\ WildOf(g) = g.wild
    BY DEF WildOf, MatchAlike
  <2>2. InnerTo(ps, L) = InnerTo(os, L)
    BY <1>5 DEF Recasted
  <2> QED BY <1>2, <2>1, <2>2 DEF Detours
<1>10. \A d \in 1 .. L : Alive(ps, d) <=> Alive(os, d)
  BY <1>5 DEF Recasted
<1>11. (Live(ps) <=> Alive(os, L)) /\ (Live(os) <=> Alive(os, L))
  BY <1>2, <1>3, <1>10 DEF Live, MatchAlike
<1> QED BY <1>3, <1>6, <1>8, <1>9, <1>10, <1>11 DEF Rearmed

\* An arm is entered: its match may have its wildcard now.
LEMMA WildFlow ==
  ASSUME NEW os, NEW n \in Nat, NEW ls, NEW ns, Frames(os, n, ls, ns),
         NEW L, NEW f, NEW ps, NEW g, Recasts(os, L, f, ps, g), MatchAlike(f, g), g.div <=> f.div,
         \A d \in 1 .. L : Alive(ps, d) <=> Alive(os, d),
         NEW R, NEW S, FlowAll(os, L, R), \A b \in 1 .. n : b \in S <=> b \in R,
         g.wild = f.wild \/ (g.wild \in S <=> Alive(os, L))
  PROVE  FlowAll(ps, L, S)
<1>1. /\ L = Len(os) /\ os[L] = f /\ ps[L] = g
      /\ \A d \in 1 .. L : d # L => ps[d] = os[d]
  BY DEF Recasts
<1>2. ASSUME NEW d \in 1 .. L PROVE FrameFlow(ps[d], Alive(ps, d), S)
  <2> DEFINE a == Alive(os, d)
             fr == os[d]
  <2>1. FrameFlow(fr, a, R) /\ fr \in FrameSet /\ GoodFrame(fr, n)
    BY <1>1, ShapeIs DEF FlowAll, Frames, Shape
  <2>2. d = L => (g.wild = f.wild \/ (g.wild \in S <=> a)) /\ f = fr
    BY <1>1
  <2>3. Alive(ps, d) <=> a
    OBVIOUS
  <2> HIDE DEF a, fr
  <2>4. FrameFlow(fr, a, S)
    BY <2>1, FlowAgree
  <2>5. CASE d # L
    BY <1>1, <2>3, <2>4, <2>5 DEF fr, FrameFlow
  <2>6. CASE d = L
    <3>1. FrameFlow(f, a, S) /\ f.kind = "match" /\ g.kind = "match" /\ g.end = f.end
      BY <2>2, <2>4, <2>6 DEF MatchAlike, SameNames
    <3>2. FrameFlow(g, a, S)
      BY <2>2, <2>6, <3>1 DEF FrameFlow, Arms
    <3> QED BY <1>1, <2>3, <2>6, <3>2 DEF FrameFlow
  <2> QED BY <2>5, <2>6
<1> QED BY <1>2 DEF FlowAll

\* An arm is left, on to the match's end or nowhere.
LEMMA ArmFlow ==
  ASSUME NEW os, NEW n \in Nat, NEW ls, NEW ns, Frames(os, n, ls, ns),
         NEW L, NEW f, NEW ps, NEW g, Recasts(os, L, f, ps, g), MatchAlike(f, g),
         g.wild = f.wild, NEW dv \in BOOLEAN, g.div <=> (f.div /\ dv),
         \A d \in 1 .. L : Alive(ps, d) <=> Alive(os, d),
         NEW R, FlowAll(os, L, R), NEW go \in BOOLEAN, go <=> Alive(os, L) /\ ~dv,
         NEW S, S = IF go THEN R \cup {f.end} ELSE R
  PROVE  FlowAll(ps, L, S)
<1>1. /\ L = Len(os) /\ os[L] = f /\ ps[L] = g
      /\ \A d \in 1 .. L : d # L => ps[d] = os[d]
  BY DEF Recasts
<1>2. Shape(os, n) /\ Apart(os) /\ L \in 1 .. L /\ f.end \in Awaits(os[L])
  BY <1>1, ShapeIs DEF Frames, Awaits, MatchAlike, Compounds
<1>3. \A d \in 1 .. L : d # L => FrameFlow(os[d], Alive(os, d), S)
  BY <1>1, <1>2, FlowAround
<1>4. FrameFlow(g, Alive(os, L), S)
  <2> DEFINE a == Alive(os, L)
  <2>1. FrameFlow(f, a, R) /\ (go <=> a /\ ~dv)
    BY <1>1, <1>2 DEF FlowAll
  <2> HIDE DEF a
  <2>2. f.kind = "match" /\ g.kind = "match" /\ g.end = f.end
    BY DEF MatchAlike, SameNames
  <2>3. (f.end \in R <=> a /\ ~f.div) /\ (f.wild # 0 => (f.wild \in R <=> a))
    BY <2>1, <2>2 DEF FrameFlow
  <2>4. (g.end \in S <=> a /\ ~g.div) /\ (g.wild # 0 => (g.wild \in S <=> a))
    BY <2>1, <2>2, <2>3
  <2>5. FrameFlow(g, a, S)
    BY <2>2, <2>4 DEF FrameFlow, Arms
  <2> QED BY <2>5 DEF a
<1>5. ASSUME NEW d \in 1 .. L PROVE FrameFlow(ps[d], Alive(ps, d), S)
  <2>1. CASE d = L
    BY <1>1, <1>4, <2>1 DEF FrameFlow
  <2>2. CASE d # L
    BY <1>1, <1>3, <2>2 DEF FrameFlow
  <2> QED BY <2>1, <2>2
<1> QED BY <1>5 DEF FlowAll

-----------------------------------------------------------------------------
(* The walk inside the body *)

\* The cursor is reached, and open, exactly where nothing diverged.
FlowAt(f, os) ==
  LET R == Rch(f, Detours(os, f.cur))
  IN /\ FlowAll(os, Len(os), R)
     /\ (f.cur \in R /\ ~Terminated(f)) <=> Live(os)

Body(f, os, ls, ns) ==
  /\ Frames(os, NBlocks(f), ls, ns)
  /\ Sound(f, Awaited(os))
  /\ os[Len(os)].kind = "match" => ~Terminated(f)
  /\ FlowAt(f, os)

LEMMA BodyIs ==
  ASSUME NEW f, NEW os, NEW ls, NEW ns, Body(f, os, ls, ns)
  PROVE  /\ NBlocks(f) \in Nat \ {0} /\ f.cur \in 1 .. NBlocks(f) /\ f.cur \notin Awaited(os)
         /\ Shape(os, NBlocks(f)) /\ Apart(os) /\ Len(os) \in Nat \ {0}
         /\ Detours(os, f.cur) \in Ways(NBlocks(f))
         /\ InnerTo(os, Len(os)) \in Ways(NBlocks(f))
         /\ os[Len(os)] \in FrameSet /\ GoodFrame(os[Len(os)], NBlocks(f))
<1>1. Sound(f, Awaited(os)) /\ Shape(os, NBlocks(f)) /\ Apart(os)
  BY DEF Body, Frames
<1>2. /\ NBlocks(f) \in Nat \ {0} /\ f.cur \in 1 .. NBlocks(f) /\ f.cur \notin Awaited(os)
      /\ NBlocks(f) \in Nat
  BY <1>1, SoundSize DEF Sound
<1>3. /\ Len(os) \in Nat \ {0} /\ Len(os) \in 1 .. Len(os) /\ \A d \in 1 .. Len(os) : os[d] \in FrameSet
      /\ \A d \in 1 .. Len(os) : GoodFrame(os[d], NBlocks(f))
  BY <1>1, ShapeIs DEF Shape
<1>4. /\ InnerTo(os, Len(os)) \in Ways(NBlocks(f)) /\ Detours(os, f.cur) \in Ways(NBlocks(f))
  BY <1>1, <1>2, DetoursIn
<1> QED BY <1>1, <1>2, <1>3, <1>4

LEMMA FlowAllAgree ==
  ASSUME NEW os, NEW n \in Nat, Shape(os, n), NEW R, FlowAll(os, Len(os), R),
         NEW S, \A b \in 1 .. n : b \in S <=> b \in R
  PROVE  FlowAll(os, Len(os), S)
<1>1. ASSUME NEW d \in 1 .. Len(os) PROVE FrameFlow(os[d], Alive(os, d), S)
  <2> DEFINE fr == os[d]
             a == Alive(os, d)
  <2>1. fr \in FrameSet /\ GoodFrame(fr, n) /\ FrameFlow(fr, a, R)
    BY ShapeIs DEF Shape, FlowAll
  <2> HIDE DEF fr, a
  <2>2. FrameFlow(fr, a, S)
    BY <2>1, FlowAgree
  <2> QED BY <2>2 DEF fr, a
<1> QED BY <1>1 DEF FlowAll

LEMMA BodyOnward ==
  ASSUME NEW f, NEW os, NEW ls, NEW ns, Body(f, os, ls, ns), os[Len(os)].kind # "match",
         NEW g, Onward(f, Awaited(os), g)
  PROVE  Body(g, os, ls, ns) /\ ~Terminated(g)
<1> DEFINE n == NBlocks(f)
           m == NBlocks(g)
           V == Detours(os, f.cur)
           W == Detours(os, g.cur)
<1>1. /\ Frames(os, n, ls, ns) /\ FlowAt(f, os) /\ n \in Nat /\ Shape(os, n) /\ V \in Ways(n)
  BY BodyIs DEF Body
<1>2. /\ Sound(g, Awaited(os)) /\ ~Terminated(g) /\ n <= m
      /\ \A b \in 1 .. n : b \in Rch(g, V) <=> b \in Rch(f, V)
      /\ g.cur \in Rch(g, V) <=> f.cur \in Rch(f, V) /\ ~Terminated(f)
  BY <1>1 DEF Onward
<1>3. m \in Nat /\ W = V
  BY <1>2, SoundSize, DetoursFixed
<1>4. Frames(os, m, ls, ns)
  BY <1>1, <1>2, <1>3, FramesMore
<1> HIDE DEF V, W
<1>5. FlowAll(os, Len(os), Rch(f, V)) /\ ((f.cur \in Rch(f, V) /\ ~Terminated(f)) <=> Live(os))
  BY <1>1 DEF FlowAt, V
<1>6. FlowAll(os, Len(os), Rch(g, V))
  BY <1>1, <1>2, <1>5, FlowAllAgree
<1>7. FlowAt(g, os)
  BY <1>2, <1>3, <1>5, <1>6 DEF FlowAt, W
<1> QED BY <1>2, <1>4, <1>7 DEF Body

\* A statement that control gets past.
LEMMA BodyOn ==
  ASSUME NEW f, NEW os, NEW ls, NEW ns, Body(f, os, ls, ns), os[Len(os)].kind \in Lasts,
         NEW dv \in BOOLEAN, ~dv, NEW ps, IsAfter(os, dv, ps)
  PROVE  Body(f, ps, ls, ns)
<1> DEFINE n == NBlocks(f)
           V == Detours(os, f.cur)
<1>1. Frames(os, n, ls, ns) /\ Sound(f, Awaited(os)) /\ FlowAt(f, os) /\ n \in Nat
  BY BodyIs DEF Body
<1>2. /\ Frames(ps, n, ls, ns) /\ ps[Len(ps)].kind # "match"
      /\ Awaited(ps) = Awaited(os)
      /\ Detours(ps, f.cur) = V
      /\ Live(ps) <=> Live(os)
      /\ \A R : FlowAll(os, Len(os), R) => FlowAll(ps, Len(ps), R)
  <2>1. Passed(os, dv, ps, n, ls, ns)
    BY <1>1, AfterFrames
  <2> QED BY <2>1 DEF Passed
<1>3. FlowAt(f, ps)
  BY <1>1, <1>2 DEF FlowAt
<1> QED BY <1>1, <1>2, <1>3 DEF Body

\* One that leaves for good, or for a block reached already.
LEMMA BodyAway ==
  ASSUME NEW f, NEW os, NEW ls, NEW ns, Body(f, os, ls, ns), os[Len(os)].kind \in Lasts,
         NEW g, Sound(g, Awaited(os)), Terminated(g), NBlocks(g) = NBlocks(f),
         Rch(g, Detours(os, f.cur)) = Rch(f, Detours(os, f.cur)),
         NEW dv \in BOOLEAN, dv, NEW ps, IsAfter(os, dv, ps)
  PROVE  Body(g, ps, ls, ns)
<1> DEFINE n == NBlocks(f)
           V == Detours(os, f.cur)
<1>1. Frames(os, n, ls, ns) /\ FlowAt(f, os) /\ n \in Nat
  BY BodyIs DEF Body
<1>2. /\ Frames(ps, n, ls, ns) /\ ps[Len(ps)].kind # "match"
      /\ Awaited(ps) = Awaited(os)
      /\ Detours(ps, g.cur) = V
      /\ ~Live(ps)
      /\ \A R : FlowAll(os, Len(os), R) => FlowAll(ps, Len(ps), R)
  <2>1. Passed(os, dv, ps, n, ls, ns)
    BY <1>1, AfterFrames
  <2> QED BY <2>1 DEF Passed
<1>3. FlowAll(os, Len(os), Rch(g, V))
  BY <1>1 DEF FlowAt
<1>4. FlowAt(g, ps)
  BY <1>2, <1>3 DEF FlowAt
<1> QED BY <1>2, <1>4 DEF Body

-----------------------------------------------------------------------------
(* Into statements and out of them *)

\* The blocks of a statement that opens are there; fr is its frame.
Built(f, os, fr, h) ==
  LET R == Rch(f, Detours(os, f.cur))
      S == Rch(h, Detours(os, f.cur))
  IN /\ Sound(h, Awaited(os) \cup Awaits(fr)) /\ ~Terminated(h) /\ NBlocks(f) <= NBlocks(h)
     /\ \A b \in 1 .. NBlocks(f) : b \in S <=> b \in R
     /\ FrameFlow(fr, f.cur \in R, S)
     /\ h.cur \in S <=> f.cur \in R

LEMMA BodyInto ==
  ASSUME NEW f, NEW os, NEW ls, NEW ns, Body(f, os, ls, ns), os[Len(os)].kind \in Lasts,
         ~Terminated(f), NEW h, NEW fr, Fits(os, fr, NBlocks(h)), Built(f, os, fr, h),
         NEW ps, Entered(os, fr, ps),
         NEW ls2, LoopsInto(fr, ls, ls2), NEW ns2, NestsInto(fr, ns, ns2)
  PROVE  Body(h, ps, ls2, ns2)
<1> DEFINE n == NBlocks(f)
           m == NBlocks(h)
           V == Detours(os, f.cur)
           R == Rch(f, V)
           S == Rch(h, V)
           P == Awaited(os) \cup Awaits(fr)
<1>1. /\ Frames(os, n, ls, ns) /\ FlowAt(f, os) /\ n \in Nat
  BY BodyIs DEF Body
<1>2. /\ Sound(h, P) /\ ~Terminated(h) /\ n <= m
      /\ \A b \in 1 .. n : b \in S <=> b \in R
      /\ FrameFlow(fr, f.cur \in R, S)
      /\ h.cur \in S <=> f.cur \in R
  BY DEF Built
<1>3. m \in Nat
  BY <1>2, SoundSize
<1>4. FlowAll(os, Len(os), R) /\ (f.cur \in R <=> Live(os))
  BY <1>1 DEF FlowAt
<1>5. Inside(os, fr, n, ps, m, ls2, ns2)
  <2> HIDE DEF n, m
  <2> QED BY <1>1, <1>2, <1>3, PushFrames DEF m
<1>6. /\ Frames(ps, m, ls2, ns2) /\ Awaited(ps) = P
      /\ Detours(ps, h.cur) = Detours(os, fr.resume)
      /\ Live(ps) <=> Live(os)
  BY <1>5 DEF Inside
<1>7. FlowAll(ps, Len(ps), S)
  <2>1. FrameFlow(fr, Live(os), S)
    BY <1>2, <1>4 DEF FrameFlow
  <2> HIDE DEF R, S
  <2> QED BY <1>2, <1>4, <1>5, <2>1 DEF Inside
<1>8. Detours(ps, h.cur) = V
  <2>1. os[Len(os)].kind # "match"
    BY DEF Lasts, Lists
  <2>2. Detours(os, fr.resume) = Detours(os, f.cur)
    BY <2>1, DetoursFixed
  <2> QED BY <1>6, <2>2
<1> HIDE DEF V, R, S, P, m, n
<1>9. FlowAt(h, ps)
  BY <1>2, <1>4, <1>6, <1>7, <1>8 DEF FlowAt, S
<1> QED BY <1>2, <1>6, <1>9 DEF Body, m

\* h has left a statement, which bs are the frames around: it diverged or not.
LeftFor(bs, dv, h) ==
  LET S == Rch(h, Detours(bs, h.cur))
  IN FlowAll(bs, Len(bs), S) /\ ((h.cur \in S /\ ~Terminated(h)) <=> (Live(bs) /\ ~dv))

LEMMA BodyOut ==
  ASSUME NEW f, NEW os, NEW ls, NEW ns, Body(f, os, ls, ns),
         NEW fr, NEW bs, Left(os, fr, bs), fr.kind \in Closes, fr.kind # "arm_done",
         NEW ls2, LoopsOut(fr, ls, ls2), NEW ns2, NestsOut(fr, ns, ns2),
         NEW dv \in BOOLEAN, NEW ps, IsAfter(bs, dv, ps),
         NEW h, Sound(h, Awaited(os) \ Awaits(fr)), NBlocks(h) = NBlocks(f), LeftFor(bs, dv, h)
  PROVE  Body(h, ps, ls2, ns2)
<1> DEFINE n == NBlocks(f)
<1>1. Frames(os, n, ls, ns) /\ n \in Nat
  BY BodyIs DEF Body
<1>2. Outside(os, fr, n, bs, ls2, ns2)
  <2> HIDE DEF n
  <2> QED BY <1>1, PopFrames
<1>3. Frames(bs, n, ls2, ns2) /\ bs[Len(bs)].kind \in Lasts /\ Awaited(bs) = Awaited(os) \ Awaits(fr)
  BY <1>2 DEF Outside
<1>4. Passed(bs, dv, ps, n, ls2, ns2)
  <2> HIDE DEF n
  <2> QED BY <1>1, <1>3, AfterFrames
<1>5. /\ Frames(ps, n, ls2, ns2) /\ ps[Len(ps)].kind # "match" /\ Awaited(ps) = Awaited(bs)
      /\ Detours(ps, h.cur) = Detours(bs, h.cur)
      /\ Live(ps) <=> (Live(bs) /\ ~dv)
      /\ \A R : FlowAll(bs, Len(bs), R) => FlowAll(ps, Len(ps), R)
  BY <1>4 DEF Passed
<1>6. FlowAt(h, ps)
  BY <1>5 DEF FlowAt, LeftFor
<1> QED BY <1>3, <1>5, <1>6 DEF Body

\* What a statement finds around it when it closes.
IsAround(f, os, fr, bs, ls2, ns2) ==
  LET R == Rch(f, Detours(os, f.cur))
  IN /\ Outside(os, fr, NBlocks(f), bs, ls2, ns2)
     /\ FlowAll(bs, Len(bs), R) /\ FrameFlow(fr, Live(bs), R)
     /\ (f.cur \in R /\ ~Terminated(f)) <=> (Live(bs) /\ (fr.kind # "match" => ~fr.div))
     /\ Awaits(fr) \subseteq Awaited(os) /\ Awaited(bs) = Awaited(os) \ Awaits(fr)
     /\ fr \in FrameSet /\ GoodFrame(fr, NBlocks(f))
     /\ \A c : Detours(os, c) = With(Detours(bs, fr.resume), c, WildOf(fr))
     /\ Shape(bs, NBlocks(f)) /\ (Live(bs) => Alive(bs, Len(bs)))

LEMMA Around ==
  ASSUME NEW f, NEW os, NEW ls, NEW ns, Body(f, os, ls, ns),
         NEW fr, NEW bs, Left(os, fr, bs), fr.kind \in Closes,
         NEW ls2, LoopsOut(fr, ls, ls2), NEW ns2, NestsOut(fr, ns, ns2)
  PROVE  IsAround(f, os, fr, bs, ls2, ns2)
<1> DEFINE n == NBlocks(f)
           R == Rch(f, Detours(os, f.cur))
<1>1. Frames(os, n, ls, ns) /\ n \in Nat /\ FlowAt(f, os) /\ Shape(os, n) /\ Len(os) \in 1 .. Len(os)
  BY BodyIs DEF Body
<1>2. Outside(os, fr, n, bs, ls2, ns2)
  <2> HIDE DEF n
  <2> QED BY <1>1, PopFrames
<1>3. fr = os[Len(os)] /\ fr \in FrameSet /\ GoodFrame(fr, n)
  BY BodyIs DEF Left
<1>4. FlowAll(os, Len(os), R) /\ ((f.cur \in R /\ ~Terminated(f)) <=> Live(os))
  BY <1>1 DEF FlowAt
<1> HIDE DEF R
<1>5. /\ FlowAll(bs, Len(bs), R) /\ FrameFlow(fr, Alive(os, Len(os)), R)
      /\ Live(bs) <=> Alive(os, Len(os))
      /\ Awaited(bs) = Awaited(os) \ Awaits(fr) /\ Shape(bs, n)
      /\ \A c : Detours(os, c) = With(Detours(bs, fr.resume), c, WildOf(fr))
  BY <1>2, <1>4 DEF Outside, Frames
<1>6. FrameFlow(fr, Live(bs), R)
  BY <1>5 DEF FrameFlow
<1>7. Live(os) <=> (Live(bs) /\ (fr.kind # "match" => ~fr.div))
  BY <1>3, <1>5 DEF Live
<1>8. Awaits(fr) \subseteq Awaited(os)
  <2> HIDE DEF n
  <2> QED BY <1>1, <1>3, AwaitedIn
<1>9. Live(bs) => Alive(bs, Len(bs))
  BY DEF Live
<1> QED BY <1>2, <1>3, <1>4, <1>5, <1>6, <1>7, <1>8, <1>9 DEF R, IsAround

LEMMA BodyBlockClose ==
  ASSUME NEW f, NEW os, NEW ls, NEW ns, Body(f, os, ls, ns),
         NEW fr, NEW bs, Left(os, fr, bs), fr.kind = "block", NEW ps, IsAfter(bs, fr.div, ps)
  PROVE  Body(f, ps, ls, ns)
<1> DEFINE R == Rch(f, Detours(os, f.cur))
           n == NBlocks(f)
<1>1. LoopsOut(fr, ls, ls) /\ NestsOut(fr, ns, ns) /\ fr.kind \in Closes /\ fr.kind # "arm_done"
  BY DEF LoopsOut, NestsOut, Closes
<1>2. /\ FlowAll(bs, Len(bs), R)
      /\ (f.cur \in R /\ ~Terminated(f)) <=> (Live(bs) /\ ~fr.div)
      /\ Detours(os, f.cur) = With(Detours(bs, fr.resume), f.cur, WildOf(fr))
      /\ Outside(os, fr, n, bs, ls, ns)
      /\ fr \in FrameSet
  <2>1. IsAround(f, os, fr, bs, ls, ns)
    BY <1>1, Around
  <2> QED BY <1>1, <2>1 DEF IsAround
<1>3. Detours(bs, f.cur) = Detours(os, f.cur)
  <2>1. WildOf(fr) = 0 /\ bs[Len(bs)].kind # "match"
    BY <1>1, <1>2 DEF WildOf, Outside, Lasts, Lists
  <2>2. Detours(bs, fr.resume) = Detours(bs, f.cur)
    BY <2>1, DetoursFixed
  <2> QED BY <1>2, <2>1, <2>2 DEF With
<1>4. LeftFor(bs, fr.div, f)
  BY <1>2, <1>3 DEF LeftFor
<1>5. Sound(f, Awaited(os) \ Awaits(fr)) /\ fr.div \in BOOLEAN
  <2>1. Awaits(fr) = {}
    BY DEF Awaits, Compounds, Arms
  <2>2. Awaited(os) \ Awaits(fr) = Awaited(os)
    BY <2>1
  <2> QED BY <1>2, <2>2 DEF Body, FrameSet
<1> QED BY <1>1, <1>4, <1>5, BodyOut

Went(f, t, b, h) == h = At(GoOn(f, t), b)

\* A branch ends in t, and the walk goes on in b; either waits for that.
LEMMA GoesOn ==
  ASSUME NEW f, NEW P, Sound(f, P), NEW V \in Ways(NBlocks(f)), NEW t \in P, NEW b \in P,
         OutOf(V, t) = {},
         NEW h, Went(f, t, b, h)
  PROVE  LET goes == f.cur \in Rch(f, V) /\ ~Terminated(f)
         IN /\ Sound(h, P \ {b}) /\ ~Terminated(h) /\ h.cur = b /\ NBlocks(h) = NBlocks(f)
            /\ Rch(h, V) = IF goes THEN Rch(f, V) \cup {t} ELSE Rch(f, V)
<1> DEFINE g == GoOn(f, t)
           goes == f.cur \in Rch(f, V) /\ ~Terminated(f)
<1>1. t \in 1 .. NBlocks(f)
  BY DEF Sound
<1>2. Quiet(f, P, V, t)
  BY DEF Quiet
<1>3. /\ Sound(g, P) /\ Terminated(g) /\ NBlocks(g) = NBlocks(f)
      /\ Rch(g, V) = IF goes THEN Rch(f, V) \cup {t} ELSE Rch(f, V)
  BY <1>1, <1>2, GoOnStep
<1> HIDE DEF g
<1>4. /\ Sound(At(g, b), P \ {b}) /\ ~Terminated(At(g, b)) /\ At(g, b).cur = b
      /\ NBlocks(At(g, b)) = NBlocks(g) /\ Rch(At(g, b), V) = Rch(g, V)
  BY <1>3, AtStep
<1>5. h = At(g, b)
  BY DEF g, Went
<1> QED BY <1>3, <1>4, <1>5

\* Back to the loop's condition, which is reached if the loop is.
BackTo(f, V, t) == t \in 1 .. NBlocks(f) /\ (f.cur \in Rch(f, V) /\ ~Terminated(f) => t \in Rch(f, V))

LEMMA GoesBack ==
  ASSUME NEW f, NEW P, Sound(f, P), NEW V \in Ways(NBlocks(f)), NEW t, NEW b \in P,
         BackTo(f, V, t),
         NEW h, Went(f, t, b, h)
  PROVE  /\ Sound(h, P \ {b}) /\ ~Terminated(h) /\ h.cur = b /\ NBlocks(h) = NBlocks(f)
         /\ Rch(h, V) = Rch(f, V)
<1> DEFINE g == GoOn(f, t)
           goes == f.cur \in Rch(f, V) /\ ~Terminated(f)
<1>2. t \in 1 .. NBlocks(f) /\ (goes => Quiet(f, P, V, t))
  BY DEF Quiet, BackTo
<1>3. /\ Sound(g, P) /\ Terminated(g) /\ NBlocks(g) = NBlocks(f)
      /\ Rch(g, V) = IF goes THEN Rch(f, V) \cup {t} ELSE Rch(f, V)
  BY <1>2, GoOnStep
<1> HIDE DEF g
<1>4. /\ Sound(At(g, b), P \ {b}) /\ ~Terminated(At(g, b)) /\ At(g, b).cur = b
      /\ NBlocks(At(g, b)) = NBlocks(g) /\ Rch(At(g, b), V) = Rch(g, V)
  BY <1>3, AtStep
<1>5. h = At(g, b)
  BY DEF g, Went
<1>6. goes => Rch(f, V) \cup {t} = Rch(f, V)
  BY DEF BackTo
<1> QED BY <1>3, <1>4, <1>5, <1>6

\* Where the cursor goes when a statement is over.
Ends(os, fr, bs, h) ==
  /\ h.cur = fr.end /\ ~Terminated(h)
  /\ Sound(h, Awaited(os) \ Awaits(fr))

LEMMA EndsFor ==
  ASSUME NEW os, NEW fr, NEW bs, bs[Len(bs)].kind # "match", NEW h, Ends(os, fr, bs, h), NEW V,
         \A c : Detours(bs, c) = V, NEW dv \in BOOLEAN,
         FlowAll(bs, Len(bs), Rch(h, V)), fr.end \in Rch(h, V) <=> (Live(bs) /\ ~dv)
  PROVE  LeftFor(bs, dv, h)
BY DEF LeftFor, Ends

\* What closing statements other than matches find around them.
BranchAround(f, os, fr, bs) ==
  LET V == Detours(os, f.cur)
      P == Awaited(os)
      R == Rch(f, V)
  IN /\ \A c : Detours(bs, c) = V
     /\ bs[Len(bs)].kind # "match"
     /\ V \in Ways(NBlocks(f)) /\ Sound(f, P)
     /\ FlowAll(bs, Len(bs), R) /\ FrameFlow(fr, Live(bs), R)
     /\ (f.cur \in R /\ ~Terminated(f)) <=> (Live(bs) /\ ~fr.div)
     /\ fr.end \in P /\ OutOf(V, fr.end) = {}
     /\ fr.alt \in 1 .. NBlocks(f) \/ fr.alt = 0
     /\ fr.kind = "while" => fr.alt # 0
     /\ fr.div \in BOOLEAN /\ fr.wasDiv \in BOOLEAN
     /\ Shape(bs, NBlocks(f)) /\ (Live(bs) => Alive(bs, Len(bs)))
     /\ Awaits(fr) \subseteq P /\ fr.end \notin Awaited(bs)

LEMMA AroundBranch ==
  ASSUME NEW f, NEW os, NEW ls, NEW ns, Body(f, os, ls, ns),
         NEW fr, NEW bs, Left(os, fr, bs), fr.kind \in {"then", "else", "while"},
         NEW ls2, LoopsOut(fr, ls, ls2), NEW ns2, NestsOut(fr, ns, ns2)
  PROVE  BranchAround(f, os, fr, bs)
<1> DEFINE V == Detours(os, f.cur)
           P == Awaited(os)
           R == Rch(f, V)
           n == NBlocks(f)
<1>1. fr.kind \in Closes /\ fr.kind # "match" /\ fr.kind # "arm_done"
  BY DEF Closes
<1>2. /\ Outside(os, fr, n, bs, ls2, ns2)
      /\ FlowAll(bs, Len(bs), R) /\ FrameFlow(fr, Live(bs), R)
      /\ (f.cur \in R /\ ~Terminated(f)) <=> (Live(bs) /\ ~fr.div)
      /\ Awaits(fr) \subseteq Awaited(os) /\ Awaited(bs) = Awaited(os) \ Awaits(fr)
      /\ fr \in FrameSet /\ GoodFrame(fr, n)
      /\ \A c : Detours(os, c) = With(Detours(bs, fr.resume), c, WildOf(fr))
      /\ Shape(bs, NBlocks(f)) /\ (Live(bs) => Alive(bs, Len(bs)))
  <2>1. IsAround(f, os, fr, bs, ls2, ns2)
    BY <1>1, Around
  <2> QED BY <1>1, <2>1 DEF IsAround
<1>3. bs[Len(bs)].kind # "match"
  BY <1>1, <1>2 DEF Outside, Lasts, Lists
<1>4. \A c : Detours(bs, c) = V
  <2>1. \A c : Detours(bs, c) = Detours(bs, fr.resume)
    BY <1>3, DetoursFixed
  <2>2. V = Detours(bs, fr.resume)
    BY <1>1, <1>2 DEF WildOf, With
  <2> QED BY <2>1, <2>2
<1>5. /\ Shape(os, n) /\ Apart(os) /\ Len(os) \in 1 .. Len(os) /\ f.cur \notin P /\ V \in Ways(n)
      /\ Sound(f, P) /\ n \in Nat /\ os[Len(os)] = fr
  BY BodyIs DEF Body, Left
<1>6. fr.end \in Awaits(fr)
  BY DEF Awaits, Compounds
<1>7. OutOf(V, fr.end) = {}
  <2>1. os[Len(os)].kind \notin Arms
    BY <1>5 DEF Arms
  <2> HIDE DEF n
  <2> QED BY <1>5, <1>6, <2>1, NoDetour
<1>8. fr.alt \in 1 .. n \/ fr.alt = 0
  BY <1>2, <1>5 DEF FrameSet, GoodFrame
<1>9. fr.div \in BOOLEAN /\ fr.wasDiv \in BOOLEAN /\ (fr.kind = "while" => fr.alt # 0)
  BY <1>2 DEF FrameSet, GoodFrame
<1> HIDE DEF R
<1>10. \A c : Detours(bs, c) = V /\ V \in Ways(n)
  BY <1>4, <1>5
<1> QED BY <1>2, <1>3, <1>5, <1>6, <1>7, <1>8, <1>9, <1>10 DEF R, BranchAround

OnlyThen(fr) == fr.kind = "then" /\ fr.alt = 0

LEMMA BodyIfClose ==
  ASSUME NEW f, NEW os, NEW ls, NEW ns, Body(f, os, ls, ns),
         NEW fr, NEW bs, Left(os, fr, bs), OnlyThen(fr),
         NEW ns2, NestsOut(fr, ns, ns2), NEW dv \in BOOLEAN, ~dv, NEW ps, IsAfter(bs, dv, ps),
         NEW h, Went(f, fr.end, fr.end, h)
  PROVE  Body(h, ps, ls, ns2)
<1> DEFINE V == Detours(os, f.cur)
           P == Awaited(os)
           R == Rch(f, V)
<1>1. /\ LoopsOut(fr, ls, ls) /\ fr.kind \in Closes /\ fr.kind # "arm_done"
      /\ fr.kind \in {"then", "else", "while"}
  BY DEF LoopsOut, Closes, OnlyThen
<1>2. /\ \A c : Detours(bs, c) = V
      /\ bs[Len(bs)].kind # "match"
      /\ V \in Ways(NBlocks(f)) /\ Sound(f, P)
      /\ FlowAll(bs, Len(bs), R) /\ FrameFlow(fr, Live(bs), R)
      /\ (f.cur \in R /\ ~Terminated(f)) <=> (Live(bs) /\ ~fr.div)
      /\ fr.end \in P /\ OutOf(V, fr.end) = {}
  <2>1. BranchAround(f, os, fr, bs)
    BY <1>1, AroundBranch
  <2> QED BY <2>1 DEF BranchAround
<1> HIDE DEF V
<1>3. /\ Sound(h, P \ {fr.end}) /\ ~Terminated(h) /\ h.cur = fr.end /\ NBlocks(h) = NBlocks(f)
      /\ Rch(h, V) = IF f.cur \in R /\ ~Terminated(f) THEN R \cup {fr.end} ELSE R
  BY <1>2, GoesOn
<1>4. fr.end \in R <=> Live(bs)
  BY <1>2 DEF FrameFlow, OnlyThen
<1>5. Rch(h, V) = R
  BY <1>2, <1>3, <1>4
<1>6. Ends(os, fr, bs, h)
  BY <1>3 DEF Ends, Awaits, OnlyThen
<1> HIDE DEF R, P
<1>7. LeftFor(bs, dv, h)
  <2>1. FlowAll(bs, Len(bs), Rch(h, V)) /\ (fr.end \in Rch(h, V) <=> (Live(bs) /\ ~dv))
    BY <1>2, <1>4, <1>5
  <2> QED BY <1>2, <1>6, <2>1, EndsFor
<1> QED BY <1>1, <1>3, <1>6, <1>7, BodyOut DEF Ends

LEMMA BodyElseClose ==
  ASSUME NEW f, NEW os, NEW ls, NEW ns, Body(f, os, ls, ns),
         NEW fr, NEW bs, Left(os, fr, bs), fr.kind = "else",
         NEW ns2, NestsOut(fr, ns, ns2), NEW ps, IsAfter(bs, fr.wasDiv /\ fr.div, ps),
         NEW h, Went(f, fr.end, fr.end, h)
  PROVE  Body(h, ps, ls, ns2)
<1> DEFINE V == Detours(os, f.cur)
           P == Awaited(os)
           R == Rch(f, V)
           dv == fr.wasDiv /\ fr.div
<1>1. /\ LoopsOut(fr, ls, ls) /\ fr.kind \in Closes /\ fr.kind # "arm_done"
      /\ fr.kind \in {"then", "else", "while"}
  BY DEF LoopsOut, Closes
<1>2. /\ \A c : Detours(bs, c) = V
      /\ bs[Len(bs)].kind # "match"
      /\ V \in Ways(NBlocks(f)) /\ Sound(f, P)
      /\ FlowAll(bs, Len(bs), R) /\ FrameFlow(fr, Live(bs), R)
      /\ (f.cur \in R /\ ~Terminated(f)) <=> (Live(bs) /\ ~fr.div)
      /\ fr.end \in P /\ OutOf(V, fr.end) = {} /\ fr.end \notin Awaited(bs)
      /\ Shape(bs, NBlocks(f)) /\ (Live(bs) => Alive(bs, Len(bs))) /\ NBlocks(f) \in Nat
      /\ fr.div \in BOOLEAN /\ fr.wasDiv \in BOOLEAN
  <2>1. BranchAround(f, os, fr, bs)
    BY <1>1, AroundBranch
  <2>2. NBlocks(f) \in Nat
    BY BodyIs
  <2> QED BY <2>1, <2>2 DEF BranchAround
<1> HIDE DEF V
<1>3. /\ Sound(h, P \ {fr.end}) /\ ~Terminated(h) /\ h.cur = fr.end /\ NBlocks(h) = NBlocks(f)
      /\ Rch(h, V) = IF f.cur \in R /\ ~Terminated(f) THEN R \cup {fr.end} ELSE R
  BY <1>2, GoesOn
<1>4. fr.end \in R <=> (Live(bs) /\ ~fr.wasDiv)
  BY <1>2 DEF FrameFlow
<1>5. fr.end \in Rch(h, V) <=> (Live(bs) /\ ~dv)
  BY <1>2, <1>3, <1>4
<1> HIDE DEF R
<1>6. FlowAll(bs, Len(bs), Rch(h, V))
  <2>1. CASE Live(bs) /\ ~fr.div
    <3>1. FlowAll(bs, Len(bs), R \cup {fr.end})
      BY <1>2, <2>1, FlowMore
    <3> QED BY <1>2, <1>3, <2>1, <3>1
  <2>2. CASE ~(Live(bs) /\ ~fr.div)
    BY <1>2, <1>3, <2>2
  <2> QED BY <2>1, <2>2
<1>7. Ends(os, fr, bs, h) /\ dv \in BOOLEAN
  BY <1>2, <1>3 DEF Ends, Awaits, Compounds
<1>10. IsAfter(bs, dv, ps)
  OBVIOUS
<1> HIDE DEF P, dv
<1>8. LeftFor(bs, dv, h)
  BY <1>2, <1>5, <1>6, <1>7, EndsFor
<1> QED BY <1>1, <1>3, <1>7, <1>8, <1>10, BodyOut DEF Ends

LEMMA BodyWhileClose ==
  ASSUME NEW f, NEW os, NEW ls, NEW ns, Body(f, os, ls, ns),
         NEW fr, NEW bs, Left(os, fr, bs), fr.kind = "while",
         NEW ls2, LoopsOut(fr, ls, ls2),
         NEW ns2, NestsOut(fr, ns, ns2), NEW dv \in BOOLEAN, ~dv, NEW ps, IsAfter(bs, dv, ps),
         NEW h, Went(f, fr.alt, fr.end, h)
  PROVE  Body(h, ps, ls2, ns2)
<1> DEFINE V == Detours(os, f.cur)
           P == Awaited(os)
           R == Rch(f, V)
<1>1. fr.kind \in Closes /\ fr.kind # "arm_done"
  BY DEF Closes
<1>2. /\ \A c : Detours(bs, c) = V
      /\ bs[Len(bs)].kind # "match"
      /\ V \in Ways(NBlocks(f)) /\ Sound(f, P)
      /\ FlowAll(bs, Len(bs), R) /\ FrameFlow(fr, Live(bs), R)
      /\ (f.cur \in R /\ ~Terminated(f)) <=> (Live(bs) /\ ~fr.div)
      /\ fr.end \in P /\ fr.alt \in 1 .. NBlocks(f)
  <2>1. BranchAround(f, os, fr, bs)
    BY <1>1, AroundBranch
  <2> QED BY <2>1 DEF BranchAround
<1> HIDE DEF V
<1>4. (fr.end \in R <=> Live(bs)) /\ (fr.alt \in R <=> Live(bs))
  BY <1>2 DEF FrameFlow
<1>5. BackTo(f, V, fr.alt)
  BY <1>2, <1>4 DEF BackTo
<1>3. /\ Sound(h, P \ {fr.end}) /\ ~Terminated(h) /\ h.cur = fr.end /\ NBlocks(h) = NBlocks(f)
      /\ Rch(h, V) = R
  <2>1. Sound(f, P) /\ V \in Ways(NBlocks(f)) /\ fr.end \in P
    BY <1>2
  <2> HIDE DEF P
  <2> QED BY <1>5, <2>1, GoesBack
<1>6. Ends(os, fr, bs, h)
  BY <1>3 DEF Ends, Awaits, Compounds
<1> HIDE DEF R, P
<1>7. LeftFor(bs, dv, h)
  <2>1. FlowAll(bs, Len(bs), Rch(h, V)) /\ (fr.end \in Rch(h, V) <=> (Live(bs) /\ ~dv))
    BY <1>2, <1>3, <1>4
  <2> QED BY <1>2, <1>6, <2>1, EndsFor
<1> QED BY <1>1, <1>3, <1>6, <1>7, BodyOut DEF Ends

\* The end of a match: on to the wildcard's arm, or past them all.
MatchEnd(f, fr, h) == h = At(Br(f, IF fr.wild # 0 THEN fr.wild ELSE fr.end), fr.end)

LEMMA BodyMatchClose ==
  ASSUME NEW f, NEW os, NEW ls, NEW ns, Body(f, os, ls, ns),
         NEW fr, NEW bs, Left(os, fr, bs), fr.kind = "match",
         NEW ns2, NestsOut(fr, ns, ns2), NEW ps, IsAfter(bs, fr.wild # 0 /\ fr.div, ps),
         NEW h, MatchEnd(f, fr, h)
  PROVE  Body(h, ps, ls, ns2)
<1> DEFINE V == Detours(os, f.cur)
           W == Detours(bs, fr.resume)
           P == Awaited(os)
           R == Rch(f, V)
           n == NBlocks(f)
           dv == fr.wild # 0 /\ fr.div
<1>1. LoopsOut(fr, ls, ls) /\ fr.kind \in Closes /\ fr.kind # "arm_done"
  BY DEF LoopsOut, Closes
<1>2. /\ Outside(os, fr, n, bs, ls, ns2)
      /\ FlowAll(bs, Len(bs), R) /\ FrameFlow(fr, Live(bs), R)
      /\ (f.cur \in R /\ ~Terminated(f)) <=> Live(bs)
      /\ Awaits(fr) \subseteq P /\ Awaited(bs) = P \ Awaits(fr)
      /\ fr \in FrameSet /\ GoodFrame(fr, n)
      /\ V = With(W, f.cur, fr.wild)
      /\ Shape(bs, n) /\ (Live(bs) => Alive(bs, Len(bs)))
  <2>1. WildOf(fr) = fr.wild
    BY DEF WildOf
  <2>2. IsAround(f, os, fr, bs, ls, ns2)
    BY <1>1, Around
  <2> QED BY <2>1, <2>2 DEF IsAround
<1>3. bs[Len(bs)].kind # "match"
  BY <1>1, <1>2 DEF Outside, Lasts, Lists
<1>4. \A c : Detours(bs, c) = W
  BY <1>3, DetoursFixed
<1>5. /\ Shape(os, n) /\ Apart(os) /\ Len(os) \in 1 .. Len(os) /\ f.cur \notin P /\ V \in Ways(n)
      /\ Sound(f, P) /\ n \in Nat \ {0} /\ os[Len(os)] = fr /\ ~Terminated(f) /\ f.cur \in 1 .. n
  BY BodyIs DEF Body, Left
<1>6. fr.end \in Awaits(fr) /\ Awaits(fr) = {fr.end} /\ fr.end \in P
  BY <1>2 DEF Awaits, Compounds
<1>7. OutOf(V, fr.end) = {}
  <2>1. os[Len(os)].kind \notin Arms
    BY <1>5 DEF Arms
  <2> HIDE DEF n
  <2> QED BY <1>5, <1>6, <2>1, NoDetour
<1>8. fr.wild \in 0 .. n /\ fr.end \in 1 .. n /\ fr.wild \in Nat /\ fr.div \in BOOLEAN
  BY <1>2, <1>5, <1>6 DEF FrameSet, GoodFrame, Sound
<1>9. W \in Ways(n)
  BY <1>2, <1>5 DEF Ways, With
<1>10. /\ fr.end \in R <=> (Live(bs) /\ ~fr.div)
       /\ fr.wild # 0 => (fr.wild \in R <=> Live(bs))
  BY <1>2 DEF FrameFlow
<1>11. dv \in BOOLEAN /\ IsAfter(bs, dv, ps)
  BY <1>8
<1> HIDE DEF V, W, P, n
<1>12. CASE fr.wild # 0
  <2> DEFINE g == Br(f, fr.wild)
  <2>1. fr.wild \in 1 .. NBlocks(f) /\ W \in Ways(NBlocks(f))
    BY <1>5, <1>8, <1>9, <1>12 DEF n
  <2>2. Sound(g, P) /\ Terminated(g) /\ NBlocks(g) = NBlocks(f)
    BY <1>5, <2>1, BrStep
  <2>3. Rch(g, W) = R
    BY <1>2, <1>5, <2>1, WildTaken
  <2>4. h = At(g, fr.end)
    BY <1>12 DEF MatchEnd
  <2> HIDE DEF g
  <2>5. /\ Sound(At(g, fr.end), P \ {fr.end}) /\ ~Terminated(At(g, fr.end)) /\ At(g, fr.end).cur = fr.end
        /\ NBlocks(At(g, fr.end)) = NBlocks(g) /\ Rch(At(g, fr.end), W) = Rch(g, W)
    BY <1>6, <2>2, AtStep
  <2>6. /\ Sound(h, P \ {fr.end}) /\ ~Terminated(h) /\ h.cur = fr.end
        /\ NBlocks(h) = NBlocks(f) /\ Rch(h, W) = R
    BY <2>2, <2>3, <2>4, <2>5
  <2>7. Ends(os, fr, bs, h)
    BY <1>6, <2>6 DEF Ends, P
  <2>8. LeftFor(bs, dv, h)
    <3>1. FlowAll(bs, Len(bs), Rch(h, W)) /\ (fr.end \in Rch(h, W) <=> (Live(bs) /\ ~dv))
      BY <1>2, <1>10, <1>12, <2>6
    <3> HIDE DEF dv
    <3> QED BY <1>3, <1>4, <1>11, <2>7, <3>1, EndsFor
  <2> HIDE DEF dv
  <2> QED BY <1>1, <1>11, <2>6, <2>7, <2>8, BodyOut DEF Ends
<1>13. CASE fr.wild = 0
  <2>1. V = W
    BY <1>2, <1>13 DEF With
  <2>2. Went(f, fr.end, fr.end, h)
    BY <1>5, <1>13 DEF Went, MatchEnd, GoOn
  <2>3. V \in Ways(NBlocks(f))
    BY <1>5 DEF n
  <2>4. /\ Sound(h, P \ {fr.end}) /\ ~Terminated(h) /\ h.cur = fr.end /\ NBlocks(h) = NBlocks(f)
        /\ Rch(h, V) = IF f.cur \in R /\ ~Terminated(f) THEN R \cup {fr.end} ELSE R
    BY <1>5, <1>6, <1>7, <2>2, <2>3, GoesOn
  <2>5. Ends(os, fr, bs, h)
    BY <1>6, <2>4 DEF Ends, P
  <2> HIDE DEF R
  <2>6. FlowAll(bs, Len(bs), Rch(h, V))
    <3>1. CASE Live(bs)
      <4>1. n \in Nat /\ fr.end \notin Awaited(bs)
        BY <1>2, <1>5, <1>6
      <4>2. FlowAll(bs, Len(bs), R \cup {fr.end})
        BY <1>2, <3>1, <4>1, FlowMore
      <4> QED BY <1>2, <2>4, <3>1, <4>2
    <3>2. CASE ~Live(bs)
      BY <1>2, <2>4, <3>2
    <3> QED BY <3>1, <3>2
  <2>7. fr.end \in Rch(h, V) <=> (Live(bs) /\ ~dv)
    BY <1>2, <1>10, <1>13, <2>4
  <2>8. LeftFor(bs, dv, h)
    <3> HIDE DEF dv
    <3>1. \A c : Detours(bs, c) = V
      BY <1>4, <2>1
    <3> QED BY <1>3, <1>11, <2>5, <2>6, <2>7, <3>1, EndsFor
  <2> HIDE DEF dv
  <2> QED BY <1>1, <1>11, <2>4, <2>5, <2>8, BodyOut DEF Ends
<1> QED BY <1>8, <1>12, <1>13

\* From the then branch to the else branch.
LEMMA BodyElse ==
  ASSUME NEW f, NEW os, NEW ls, NEW ns, Body(f, os, ls, ns),
         NEW L, NEW fr, NEW ps, NEW g, Recasts(os, L, fr, ps, g), Turned(fr, g),
         NEW x, ~x.wild, NEW ms, Reset(ns, x, ms), NEW h, Went(f, fr.end, fr.alt, h)
  PROVE  Body(h, ps, ls, ms)
<1> DEFINE V == Detours(os, f.cur)
           P == Awaited(os)
           R == Rch(f, V)
           n == NBlocks(f)
<1>1. /\ Frames(os, n, ls, ns) /\ Shape(os, n) /\ Apart(os) /\ f.cur \notin P /\ V \in Ways(n)
      /\ Sound(f, P) /\ n \in Nat /\ Len(os) \in 1 .. Len(os)
      /\ FlowAt(f, os) /\ os[Len(os)] \in FrameSet /\ GoodFrame(os[Len(os)], n)
  BY BodyIs DEF Body
<1>2. L = Len(os) /\ os[L] = fr /\ Len(ps) = L /\ ps[L] = g
  BY DEF Recasts
<1>3. fr.kind = "then" /\ fr.alt # 0 /\ fr.end # fr.alt /\ g.kind = "else"
  BY <1>1, <1>2 DEF Turned, GoodFrame
<1>4. fr.end \in Awaits(fr) /\ fr.alt \in Awaits(fr)
  BY <1>3 DEF Awaits
<1>5. fr.end \in P /\ fr.alt \in P
  BY <1>1, <1>2, <1>4, AwaitedIn
<1>6. OutOf(V, fr.end) = {}
  <2>1. os[Len(os)].kind \notin Arms
    BY <1>2, <1>3 DEF Arms
  <2> HIDE DEF n
  <2> QED BY <1>1, <1>2, <1>4, <2>1, NoDetour
<1>7. FlowAll(os, L, R) /\ ((f.cur \in R /\ ~Terminated(f)) <=> Live(os))
  BY <1>1, <1>2 DEF FlowAt
<1> HIDE DEF V, P
<1>8. /\ Sound(h, P \ {fr.alt}) /\ ~Terminated(h) /\ h.cur = fr.alt /\ NBlocks(h) = NBlocks(f)
      /\ Rch(h, V) = IF f.cur \in R /\ ~Terminated(f) THEN R \cup {fr.end} ELSE R
  BY <1>1, <1>5, <1>6, GoesOn
<1>9. /\ Frames(ps, n, ls, ms) /\ Awaited(ps) = P \ {fr.alt}
      /\ Detours(ps, h.cur) = V
      /\ Live(ps) <=> Alive(os, L)
      /\ \A S : FlowAll(os, L, R) /\ S = (IF Live(os) THEN R \cup {fr.end} ELSE R) => FlowAll(ps, L, S)
  <2>1. Elsed(os, L, fr, ps, n, ls, ms)
    <3> HIDE DEF n
    <3> QED BY <1>1, ElseFrames
  <2> QED BY <2>1 DEF P, V, Elsed
<1>10. FlowAll(ps, L, Rch(h, V))
  <2> HIDE DEF R
  <2>1. Rch(h, V) = IF Live(os) THEN R \cup {fr.end} ELSE R
    BY <1>7, <1>8
  <2> QED BY <1>7, <1>9, <2>1
<1>11. fr.alt \in Rch(h, V) <=> Alive(os, L)
  <2>1. FrameFlow(fr, Alive(os, L), R)
    BY <1>1, <1>2, <1>7 DEF FlowAll
  <2>2. fr.alt \in R <=> Alive(os, L)
    BY <1>3, <2>1 DEF FrameFlow
  <2> QED BY <1>3, <1>8, <2>2
<1>12. FlowAt(h, ps)
  BY <1>2, <1>8, <1>9, <1>10, <1>11 DEF FlowAt
<1> QED BY <1>2, <1>3, <1>8, <1>9, <1>12 DEF Body

\* Into an arm: its frame, and the match's with the wildcard it may be.
ArmFrame(arm, end, resume) ==
  /\ arm \in FrameSet /\ arm.kind = "arm" /\ arm.end = end /\ arm.resume = resume
  /\ ~arm.div /\ arm.wild = 0 /\ arm.alt = 0
Wilder(fr, g, isWild, n) ==
  /\ MatchAlike(fr, g) /\ (g.div <=> fr.div)
  /\ g.wild = IF isWild THEN n + 1 ELSE fr.wild
  /\ isWild => fr.wild = 0

LEMMA BodyArm ==
  ASSUME NEW f, NEW os, NEW ls, NEW ns, Body(f, os, ls, ns),
         NEW k \in Nat \ {0}, NEW isWild \in BOOLEAN, NEW n, NEW t, NEW h, ArmIs(f, k, isWild, n, t, h),
         NEW L, NEW fr, NEW os1, NEW g, Recasts(os, L, fr, os1, g), Wilder(fr, g, isWild, n),
         NEW x, x.wild = (g.wild # 0), NEW ms, Reset(ns, x, ms),
         NEW arm, ArmFrame(arm, fr.end, t.cur), NEW ps, Entered(os1, arm, ps)
  PROVE  Body(h, ps, ls, ms)
<1> DEFINE V == InnerTo(os, L)
           P == Awaited(os)
           R == Rch(f, With(V, f.cur, fr.wild))
           S == Rch(h, With(V, t.cur, g.wild))
           m == NBlocks(h)
<1>1. L = Len(os) /\ os[L] = fr /\ Len(os1) = L /\ os1[L] = g /\ n = NBlocks(f)
  BY DEF Recasts, ArmIs
<1>2. /\ fr.kind = "match" /\ g.kind = "match" /\ g.end = fr.end /\ MatchAlike(fr, g) /\ (g.div <=> fr.div)
      /\ isWild => fr.wild = 0 /\ g.wild = n + 1
      /\ ~isWild => g.wild = fr.wild
  BY DEF Wilder, MatchAlike, SameNames
<1>3. /\ Frames(os, n, ls, ns) /\ Sound(f, P) /\ ~Terminated(f) /\ FlowAt(f, os)
      /\ n \in Nat \ {0} /\ n \in Nat /\ V \in Ways(n) /\ fr \in FrameSet /\ GoodFrame(fr, n)
  BY <1>1, <1>2, BodyIs DEF Body
<1>4. ArmReady(f, P, isWild, n, t, h)
  <2> HIDE DEF P
  <2> QED BY <1>3, ArmBuilt
<1>5. /\ Sound(h, P \cup {t.cur}) /\ ~Terminated(h) /\ n + 1 <= m
      /\ h.cur = n + 1 /\ t.cur \notin P /\ t.cur \in 1 .. m
  BY <1>4 DEF ArmReady
<1>6. m \in Nat /\ n <= m /\ fr.wild \in 0 .. n /\ g.wild <= m
  <2>1. m \in Nat
    BY <1>5, SoundSize
  <2>2. fr.wild \in 0 .. n
    BY <1>3 DEF FrameSet, GoodFrame
  <2> HIDE DEF m
  <2> QED BY <1>2, <1>3, <1>5, <2>1, <2>2
<1>7. /\ \A b \in 1 .. n : b \in S <=> b \in R
      /\ t.cur \in S <=> f.cur \in R
      /\ n + 1 \in S <=> f.cur \in R
  <2> DEFINE w2 == IF isWild THEN n + 1 ELSE fr.wild
  <2>1. g.wild = w2 /\ (isWild => fr.wild = 0)
    BY <1>2
  <2>2. LET after == Rch(h, With(V, t.cur, w2))
        IN /\ \A b \in 1 .. n : b \in after <=> b \in R
           /\ t.cur \in after <=> f.cur \in R
           /\ n + 1 \in after <=> f.cur \in R
    BY <1>3, <1>4, <1>6, <2>1 DEF ArmReady
  <2> QED BY <2>1, <2>2
<1> HIDE DEF m
<1>8. Rearmed(os, L, fr, os1, g, n, m, ls, ms)
  BY <1>2, <1>3, <1>6, MatchFrames
<1>9. /\ Frames(os1, m, ls, ms) /\ Awaited(os1) = P
      /\ \A c : Detours(os1, c) = With(V, c, g.wild)
      /\ \A c : Detours(os, c) = With(V, c, fr.wild)
      /\ (Live(os1) <=> Alive(os, L)) /\ (Live(os) <=> Alive(os, L))
      /\ \A d \in 1 .. L : Alive(os1, d) <=> Alive(os, d)
  BY <1>8 DEF Rearmed
<1>10. FlowAll(os, L, R) /\ (f.cur \in R <=> Alive(os, L))
  BY <1>1, <1>3, <1>9 DEF FlowAt
<1> HIDE DEF R, S
<1>11. FlowAll(os1, L, S)
  <2>1. g.wild = fr.wild \/ (g.wild \in S <=> Alive(os, L))
    BY <1>2, <1>7, <1>10
  <2> QED BY <1>2, <1>3, <1>7, <1>9, <1>10, <2>1, WildFlow
<1>12. Fits(os1, arm, m)
  <2>1. /\ arm.kind \in Pushes /\ GoodFrame(arm, m) /\ Awaits(arm) = {t.cur}
    <3>1. fr.end <= m /\ t.cur <= m /\ t.cur # 0 /\ 0 <= m
      <4>1. fr.end \in Nat /\ fr.end <= n
        BY <1>3 DEF FrameSet, GoodFrame
      <4> QED BY <1>3, <1>5, <1>6, <4>1
    <3> QED BY <3>1 DEF ArmFrame, Pushes, GoodFrame, Awaits, Arms, Compounds
  <2> QED BY <1>1, <1>2, <1>5, <1>9, <2>1 DEF Fits, ArmFrame
<1>13. LoopsInto(arm, ls, ls) /\ NestsInto(arm, ms, ms)
  BY DEF LoopsInto, NestsInto, ArmFrame
<1>14. Inside(os1, arm, m, ps, m, ls, ms)
  BY <1>6, <1>9, <1>12, <1>13, PushFrames
<1>15. /\ Frames(ps, m, ls, ms) /\ ps[Len(ps)] = arm
       /\ Awaited(ps) = P \cup {t.cur}
       /\ \A c : Detours(ps, c) = With(V, t.cur, g.wild)
       /\ Live(ps) <=> Alive(os, L)
       /\ FlowAll(ps, Len(ps), S)
  <2>1. Awaits(arm) = {t.cur} /\ arm.resume = t.cur
    BY DEF ArmFrame, Awaits, Arms, Compounds
  <2>2. FrameFlow(arm, Live(os1), S)
    BY <1>7, <1>9, <1>10, <2>1 DEF FrameFlow, ArmFrame, Arms
  <2>3. FlowAll(ps, Len(ps), S)
    BY <1>1, <1>11, <1>14, <2>2 DEF Inside
  <2> QED BY <1>9, <1>14, <2>1, <2>3 DEF Inside
<1>16. FlowAt(h, ps)
  BY <1>5, <1>7, <1>10, <1>15 DEF FlowAt, S
<1>17. arm.kind # "match"
  BY DEF ArmFrame
<1> QED BY <1>5, <1>15, <1>16, <1>17 DEF Body, m

\* Out of an arm, to the match's end or nowhere.
ArmedBy(fr, g, dv) == MatchAlike(fr, g) /\ g.wild = fr.wild /\ (g.div <=> (fr.div /\ dv))

LEMMA BodyArmEnd ==
  ASSUME NEW f, NEW os, NEW ls, NEW ns, Body(f, os, ls, ns),
         NEW fr, NEW bs, Left(os, fr, bs), fr.kind = "arm_done",
         NEW L, NEW mt, NEW ps, NEW g, Recasts(bs, L, mt, ps, g), ArmedBy(mt, g, fr.div),
         NEW x, x.wild = (g.wild # 0), NEW ms, Reset(ns, x, ms),
         NEW h, Went(f, fr.end, fr.resume, h)
  PROVE  Body(h, ps, ls, ms)
<1> DEFINE V == Detours(os, f.cur)
           P == Awaited(os)
           R == Rch(f, V)
           n == NBlocks(f)
<1>1. LoopsOut(fr, ls, ls) /\ NestsOut(fr, ns, ns) /\ fr.kind \in Closes
  BY DEF LoopsOut, NestsOut, Closes
<1>2. /\ Outside(os, fr, n, bs, ls, ns)
      /\ FlowAll(bs, Len(bs), R) /\ FrameFlow(fr, Live(bs), R)
      /\ (f.cur \in R /\ ~Terminated(f)) <=> (Live(bs) /\ ~fr.div)
      /\ Awaits(fr) \subseteq P /\ Awaited(bs) = P \ Awaits(fr)
      /\ fr \in FrameSet /\ GoodFrame(fr, n)
      /\ V = Detours(bs, fr.resume)
  <2>1. fr.kind # "match" /\ \A W, c : With(W, c, WildOf(fr)) = W
    BY DEF WildOf, With
  <2>2. IsAround(f, os, fr, bs, ls, ns)
    BY <1>1, Around
  <2> QED BY <2>1, <2>2 DEF IsAround
<1>3. Frames(bs, n, ls, ns) /\ bs[Len(bs)].kind = "match" /\ fr.end = bs[Len(bs)].end
  BY <1>2 DEF Outside
<1>4. L = Len(bs) /\ bs[L] = mt /\ Len(ps) = L /\ ps[L] = g
  BY DEF Recasts
<1>5. /\ MatchAlike(mt, g) /\ g.wild = mt.wild /\ (g.div <=> (mt.div /\ fr.div))
      /\ mt.kind = "match" /\ g.kind = "match" /\ fr.div \in BOOLEAN /\ mt.end = fr.end
  <2>1. MatchAlike(mt, g) /\ g.wild = mt.wild /\ (g.div <=> (mt.div /\ fr.div))
    BY DEF ArmedBy
  <2>2. mt.kind = "match" /\ g.kind = "match"
    BY <2>1 DEF MatchAlike
  <2>3. fr.div \in BOOLEAN
    BY <1>2 DEF FrameSet
  <2>4. mt.end = fr.end
    BY <1>3, <1>4
  <2> QED BY <2>1, <2>2, <2>3, <2>4
<1>6. /\ Shape(os, n) /\ Apart(os) /\ f.cur \notin P /\ V \in Ways(n) /\ Sound(f, P) /\ n \in Nat
      /\ n <= n /\ os[Len(os)] = fr /\ Shape(bs, n) /\ Len(os) \in Nat \ {0} /\ os \in Seq(FrameSet)
  BY <1>3, BodyIs DEF Body, Left, Frames, Shape
<1>7. /\ L \in 1 .. Len(os) /\ Len(os) \in 1 .. Len(os) /\ L # Len(os) /\ os[L] = mt
  <2>1. Len(bs) = Len(os) - 1 /\ Len(bs) \in Nat \ {0}
        /\ \A d \in 1 .. Len(os) - 1 : bs[d] = os[d]
    <3>1. bs = SubSeq(os, 1, Len(os) - 1)
      BY DEF Left
    <3>2. Len(bs) \in Nat \ {0}
      BY <1>6, ShapeIs
    <3> QED BY <1>6, <3>1, <3>2, Popped
  <2> QED BY <1>4, <1>6, <2>1
<1>8. Awaits(fr) = {fr.resume} /\ Awaits(mt) = {fr.end}
  BY <1>5 DEF Awaits, Arms, Compounds
<1>9. fr.end \in P /\ fr.resume \in P /\ fr.end # fr.resume
  <2>1. Awaits(os[L]) \cap Awaits(os[Len(os)]) = {}
    BY <1>6, <1>7 DEF Apart
  <2>2. Awaits(os[L]) \subseteq P
    BY <1>6, <1>7, AwaitedIn
  <2> QED BY <1>2, <1>6, <1>7, <1>8, <2>1, <2>2
<1>10. OutOf(V, fr.end) = {}
  <2>1. os[L].kind \notin Arms /\ fr.end \in Awaits(os[L])
    BY <1>5, <1>7, <1>8 DEF Arms
  <2> HIDE DEF n
  <2> QED BY <1>6, <1>7, <2>1, NoDetour
<1>11. g.wild <= n /\ x.wild = (g.wild # 0)
  <2>1. GoodFrame(mt, n)
    BY <1>4, <1>6, ShapeIs DEF Shape
  <2> QED BY <1>5, <2>1 DEF GoodFrame
<1>12. Rearmed(bs, L, mt, ps, g, n, n, ls, ms)
  <2> HIDE DEF n
  <2> QED BY <1>3, <1>5, <1>6, <1>11, MatchFrames
<1>13. /\ Frames(ps, n, ls, ms) /\ Awaited(ps) = Awaited(bs)
       /\ Detours(ps, fr.resume) = Detours(bs, fr.resume)
       /\ (Live(ps) <=> Alive(bs, L)) /\ (Live(bs) <=> Alive(bs, L))
       /\ \A d \in 1 .. L : Alive(ps, d) <=> Alive(bs, d)
  BY <1>5, <1>12 DEF Rearmed
<1> HIDE DEF V, P
<1>14. /\ Sound(h, P \ {fr.resume}) /\ ~Terminated(h) /\ h.cur = fr.resume /\ NBlocks(h) = NBlocks(f)
       /\ Rch(h, V) = IF f.cur \in R /\ ~Terminated(f) THEN R \cup {fr.end} ELSE R
  BY <1>6, <1>9, <1>10, GoesOn
<1>15. FlowAll(ps, L, Rch(h, V))
  <2> DEFINE go == f.cur \in R /\ ~Terminated(f)
             S == Rch(h, V)
  <2>1. /\ go \in BOOLEAN /\ (go <=> Alive(bs, L) /\ ~fr.div)
        /\ S = IF go THEN R \cup {mt.end} ELSE R
        /\ FlowAll(bs, L, R)
    BY <1>2, <1>4, <1>5, <1>13, <1>14
  <2> HIDE DEF go, S, n, R
  <2>2. FlowAll(ps, L, S)
    BY <1>3, <1>5, <1>6, <1>13, <2>1, ArmFlow
  <2> QED BY <2>2 DEF S
<1>16. fr.resume \in Rch(h, V) <=> Alive(bs, L)
  <2>1. fr.resume \in R <=> Live(bs)
    BY <1>2 DEF FrameFlow, Arms
  <2> HIDE DEF R
  <2> QED BY <1>9, <1>13, <1>14, <2>1
<1>17. FlowAt(h, ps)
  BY <1>2, <1>4, <1>13, <1>14, <1>15, <1>16 DEF FlowAt
<1> QED BY <1>2, <1>4, <1>8, <1>13, <1>14, <1>17 DEF Body

\* The statements that open.
NewFrame(fr, kind, dv, end, alt) ==
  /\ fr \in FrameSet /\ fr.kind = kind /\ fr.div = dv /\ fr.end = end /\ fr.alt = alt
  /\ fr.wild = 0 /\ fr.resume = 0

\* Where a statement may open, its blocks are new.
LEMMA FitsIs ==
  ASSUME NEW f, NEW os, NEW ls, NEW ns, Body(f, os, ls, ns), os[Len(os)].kind \in Lasts,
         NEW fr \in FrameSet, fr.kind \in {"block", "then", "while", "match"}, fr.wild = 0,
         fr.kind # "match" => ~fr.div, NEW m, GoodFrame(fr, m),
         \A b \in Awaits(fr) : b \notin 1 .. NBlocks(f)
  PROVE  Fits(os, fr, m)
<1>1. Awaited(os) \in SUBSET (1 .. NBlocks(f))
  BY BodyIs, AwaitedIn
<1>2. Awaits(fr) \cap Awaited(os) = {}
  BY <1>1
<1>3. fr.kind \in Pushes /\ fr.kind # "arm"
  BY DEF Pushes
<1>4. os[Len(os)].kind # "arm_done" /\ os[Len(os)].kind # "match"
  BY DEF Lasts, Lists
<1> QED BY <1>2, <1>3, <1>4 DEF Fits

LEMMA BodyBlockOpen ==
  ASSUME NEW f, NEW os, NEW ls, NEW ns, Body(f, os, ls, ns), os[Len(os)].kind \in Lasts,
         ~Terminated(f), NEW fr, NewFrame(fr, "block", FALSE, 0, 0), NEW ps, Entered(os, fr, ps)
  PROVE  Body(f, ps, ls, ns)
<1>1. /\ fr \in FrameSet /\ fr.kind \in {"block", "then", "while", "match"} /\ fr.wild = 0
      /\ fr.kind # "match" => ~fr.div
      /\ Awaits(fr) = {} /\ GoodFrame(fr, NBlocks(f))
  <2>1. NBlocks(f) \in Nat
    BY BodyIs
  <2> QED BY <2>1 DEF NewFrame, Awaits, Compounds, Arms, GoodFrame
<1>2. Fits(os, fr, NBlocks(f))
  BY <1>1, FitsIs
<1>3. Built(f, os, fr, f)
  <2>1. Awaited(os) \cup Awaits(fr) = Awaited(os) /\ Sound(f, Awaited(os))
    BY <1>1 DEF Body
  <2>2. NBlocks(f) \in Nat
    BY BodyIs
  <2>3. \A a, S : FrameFlow(fr, a, S)
    BY DEF NewFrame, FrameFlow, Arms
  <2>4. NBlocks(f) <= NBlocks(f)
    BY <2>2
  <2> QED BY <2>1, <2>3, <2>4 DEF Built
<1>4. LoopsInto(fr, ls, ls) /\ NestsInto(fr, ns, ns)
  BY DEF LoopsInto, NestsInto, NewFrame
<1> QED BY <1>2, <1>3, <1>4, BodyInto

LEMMA BodyIfOpen ==
  ASSUME NEW f, NEW os, NEW ls, NEW ns, Body(f, os, ls, ns), os[Len(os)].kind \in Lasts,
         ~Terminated(f), NEW s \in Nat, NEW shape, NEW k \in {2, 3}, NEW n, NEW h,
         IfIs(f, s, shape, k, n, h), NEW fr,
         NewFrame(fr, "then", FALSE, n + k, IF k = 3 THEN n + 2 ELSE 0),
         NEW ps, Entered(os, fr, ps), NEW ns2, NestsInto(fr, ns, ns2)
  PROVE  Body(h, ps, ls, ns2)
<1> DEFINE V == Detours(os, f.cur)
           P == Awaited(os)
           R == Rch(f, V)
           S == Rch(h, V)
           m == NBlocks(h)
<1>1. Sound(f, P) /\ n = NBlocks(f) /\ n \in Nat \ {0} /\ V \in Ways(n)
  BY BodyIs DEF Body, IfIs
<1>2. IfReady(f, P, k, n, h)
  BY <1>1, IfBuilt
<1> HIDE DEF V
<1>3. /\ Sound(h, P \cup (n + 2 .. n + k)) /\ ~Terminated(h) /\ n + k <= m
      /\ h.cur = n + 1
      /\ \A b \in 1 .. n : b \in S <=> b \in R
      /\ n + 1 \in S <=> f.cur \in R
      /\ n + 2 \in S <=> f.cur \in R
      /\ k = 3 => n + 3 \notin S
  BY <1>1, <1>2 DEF IfReady
<1> HIDE DEF R, S, P
<1>4. m \in Nat
  BY <1>3, SoundSize
<1> HIDE DEF m
<1>5. /\ fr \in FrameSet /\ fr.kind = "then" /\ ~fr.div /\ fr.wild = 0 /\ fr.resume = 0
      /\ k = 2 => fr.end = n + 2 /\ fr.alt = 0
      /\ k = 3 => fr.end = n + 3 /\ fr.alt = n + 2
      /\ k = 2 \/ k = 3
  BY DEF NewFrame
<1>6. Awaits(fr) = n + 2 .. n + k
  <2>1. CASE k = 2
    <3>1. Awaits(fr) = {n + 2} /\ n + 2 .. n + k = {n + 2}
      BY <1>1, <1>5, <2>1 DEF Awaits
    <3> QED BY <3>1
  <2>2. CASE k = 3
    <3>1. fr.alt # 0
      BY <1>1, <1>5, <2>2
    <3>2. Awaits(fr) = {fr.end, fr.alt}
      BY <1>5, <3>1 DEF Awaits
    <3>3. n + 2 .. n + k = {n + 3, n + 2}
      BY <1>1, <2>2
    <3> QED BY <1>5, <2>2, <3>2, <3>3
  <2> QED BY <1>5, <2>1, <2>2
<1>7. GoodFrame(fr, m)
  <2>1. fr.end <= m /\ fr.alt <= m /\ fr.alt # fr.end /\ fr.end # 0 /\ 0 <= m
    BY <1>1, <1>3, <1>4, <1>5
  <2> QED BY <1>5, <2>1 DEF GoodFrame, Arms
<1>8. \A b \in Awaits(fr) : b \notin 1 .. NBlocks(f)
  BY <1>1, <1>5, <1>6
<1>9. Fits(os, fr, m)
  <2>1. fr.kind \in {"block", "then", "while", "match"}
    BY <1>5
  <2> QED BY <1>5, <1>7, <1>8, <2>1, FitsIs
<1>10. FrameFlow(fr, f.cur \in R, S)
  <2>1. CASE k = 2
    BY <1>3, <1>5, <2>1 DEF FrameFlow, Arms
  <2>2. CASE k = 3
    <3>1. fr.alt # 0
      BY <1>1, <1>5, <2>2
    <3> QED BY <1>3, <1>5, <2>2, <3>1 DEF FrameFlow, Arms
  <2> QED BY <1>5, <2>1, <2>2
<1>11. Built(f, os, fr, h)
  <2>1. n <= m
    BY <1>1, <1>3, <1>4, <1>5
  <2> QED BY <1>1, <1>3, <1>6, <1>10, <2>1 DEF Built, R, S, V, P, m
<1>12. LoopsInto(fr, ls, ls)
  BY <1>5 DEF LoopsInto
<1> QED BY <1>9, <1>11, <1>12, BodyInto DEF m

LEMMA BodyWhileOpen ==
  ASSUME NEW f, NEW os, NEW ls, NEW ns, Body(f, os, ls, ns), os[Len(os)].kind \in Lasts,
         ~Terminated(f), NEW s \in Nat, NEW shape, NEW n, NEW h,
         WhileIs(f, s, shape, n, h), NEW fr, NewFrame(fr, "while", FALSE, n + 3, n + 1),
         NEW ps, Entered(os, fr, ps), NEW ls2, LoopsInto(fr, ls, ls2), NEW ns2, NestsInto(fr, ns, ns2)
  PROVE  Body(h, ps, ls2, ns2)
<1> DEFINE V == Detours(os, f.cur)
           P == Awaited(os)
           R == Rch(f, V)
           S == Rch(h, V)
           m == NBlocks(h)
<1>1. Sound(f, P) /\ n = NBlocks(f) /\ n \in Nat \ {0} /\ V \in Ways(n)
  BY BodyIs DEF Body, WhileIs
<1>2. WhileReady(f, P, n, h)
  BY <1>1, WhileBuilt
<1> HIDE DEF V
<1>3. /\ Sound(h, P \cup {n + 3}) /\ ~Terminated(h) /\ n + 3 <= m
      /\ h.cur = n + 2
      /\ \A b \in 1 .. n : b \in S <=> b \in R
      /\ n + 1 \in S <=> f.cur \in R
      /\ n + 2 \in S <=> f.cur \in R
      /\ n + 3 \in S <=> f.cur \in R
  BY <1>1, <1>2 DEF WhileReady
<1> HIDE DEF R, S, P
<1>4. m \in Nat
  BY <1>3, SoundSize
<1> HIDE DEF m
<1>5. /\ fr \in FrameSet /\ fr.kind = "while" /\ ~fr.div /\ fr.wild = 0 /\ fr.resume = 0
      /\ fr.end = n + 3 /\ fr.alt = n + 1
  BY DEF NewFrame
<1>6. Awaits(fr) = {n + 3}
  BY <1>5 DEF Awaits, Compounds
<1>7. GoodFrame(fr, m)
  <2>1. fr.end <= m /\ fr.alt <= m /\ fr.alt # 0 /\ fr.end # 0 /\ 0 <= m
    BY <1>1, <1>3, <1>4, <1>5
  <2> QED BY <1>5, <2>1 DEF GoodFrame, Arms
<1>8. \A b \in Awaits(fr) : b \notin 1 .. NBlocks(f)
  BY <1>1, <1>6
<1>9. Fits(os, fr, m)
  <2>1. fr.kind \in {"block", "then", "while", "match"}
    BY <1>5
  <2> QED BY <1>5, <1>7, <1>8, <2>1, FitsIs
<1>10. FrameFlow(fr, f.cur \in R, S)
  BY <1>3, <1>5 DEF FrameFlow, Arms
<1>11. Built(f, os, fr, h)
  <2>1. n <= m
    BY <1>1, <1>3, <1>4
  <2> QED BY <1>1, <1>3, <1>6, <1>10, <2>1 DEF Built, R, S, V, P, m
<1> QED BY <1>9, <1>11, BodyInto DEF m

LEMMA BodyMatchOpen ==
  ASSUME NEW f, NEW os, NEW ls, NEW ns, Body(f, os, ls, ns), os[Len(os)].kind \in Lasts,
         ~Terminated(f), NEW fr, NewFrame(fr, "match", TRUE, NBlocks(f) + 1, 0),
         NEW ps, Entered(os, fr, ps), NEW ns2, NestsInto(fr, ns, ns2)
  PROVE  Body(Fresh(f, 1), ps, ls, ns2)
<1> DEFINE V == Detours(os, f.cur)
           P == Awaited(os)
           R == Rch(f, V)
           h == Fresh(f, 1)
           n == NBlocks(f)
<1>1. Sound(f, P) /\ n \in Nat \ {0} /\ n \in Nat /\ V \in Ways(n) /\ f.cur \in 1 .. n
  BY BodyIs DEF Body
<1>2. /\ Sound(h, P \cup {n + 1}) /\ ~Terminated(h) /\ NBlocks(h) = n + 1 /\ h.cur = f.cur
      /\ Rch(h, V) = R
  <2>1. n + 1 .. n + 1 = {n + 1}
    BY <1>1
  <2> HIDE DEF V, P
  <2>2. /\ Sound(Fresh(f, 1), P \cup (NBlocks(f) + 1 .. NBlocks(f) + 1))
        /\ NBlocks(Fresh(f, 1)) = NBlocks(f) + 1 /\ Fresh(f, 1).cur = f.cur
        /\ Terminated(Fresh(f, 1)) <=> Terminated(f)
        /\ \A W \in Ways(NBlocks(f)) : Rch(Fresh(f, 1), W) = Rch(f, W)
    BY <1>1, FreshStep
  <2> QED BY <1>1, <2>1, <2>2
<1>3. n + 1 \notin R
  <2>1. R \in SUBSET (1 .. n) /\ n + 1 \notin 1 .. n
    BY <1>1, RchIs
  <2> QED BY <2>1
<1>4. /\ fr \in FrameSet /\ fr.kind = "match" /\ fr.div /\ fr.wild = 0 /\ fr.resume = 0
      /\ fr.end = n + 1 /\ fr.alt = 0
  BY DEF NewFrame
<1>5. Awaits(fr) = {n + 1}
  BY <1>4 DEF Awaits, Compounds
<1> HIDE DEF h, n, R
<1>6. GoodFrame(fr, n + 1) /\ \A b \in Awaits(fr) : b \notin 1 .. n
  <2>1. /\ fr.end <= n + 1 /\ fr.alt <= n + 1 /\ fr.end # 0 /\ 0 <= n + 1
        /\ n + 1 \notin 1 .. n
    BY <1>1, <1>4
  <2> QED BY <1>4, <1>5, <2>1 DEF GoodFrame, Arms
<1>7. Fits(os, fr, NBlocks(h))
  <2>1. fr.kind \in {"block", "then", "while", "match"} /\ (fr.kind # "match" => ~fr.div)
    BY <1>4
  <2> QED BY <1>2, <1>4, <1>6, <2>1, FitsIs DEF n
<1>8. FrameFlow(fr, f.cur \in R, R)
  BY <1>3, <1>4 DEF FrameFlow, Arms
<1>9. Built(f, os, fr, h)
  <2>1. n <= n + 1
    BY <1>1
  <2> QED BY <1>2, <1>5, <1>8, <2>1 DEF Built, R, n
<1>10. LoopsInto(fr, ls, ls)
  BY <1>4 DEF LoopsInto
<1>11. Body(h, ps, ls, ns2)
  BY <1>7, <1>9, <1>10, BodyInto
<1> QED BY <1>11 DEF h

-----------------------------------------------------------------------------
(* The body is finished *)

\* Reach, stage by stage.
Further(S, P) == S \cup UNION {Leaving(b) : b \in S \cap P}
Stages(r, B, P, m) == r = [n \in 0 .. m |-> IF n = 0 THEN B ELSE Further(r[n - 1], P)]

LEMMA StagesAre ==
  ASSUME NEW B, NEW P, NEW n \in Nat
  PROVE  \E r : Stages(r, B, P, n)
<1> DEFINE T == {m \in Nat : \E r : Stages(r, B, P, m)}
<1>1. 0 \in T
  <2> DEFINE c == [k \in 0 .. 0 |-> B]
  <2>1. c = [k \in 0 .. 0 |-> IF k = 0 THEN B ELSE Further(c[k - 1], P)]
    <3>1. \A k \in 0 .. 0 : k = 0
      OBVIOUS
    <3> QED BY <3>1
  <2> HIDE DEF c
  <2> QED BY <2>1 DEF Stages
<1>2. ASSUME NEW m \in T PROVE m + 1 \in T
  <2>1. PICK c : Stages(c, B, P, m)
    OBVIOUS
  <2> DEFINE d == [k \in 0 .. m + 1 |-> IF k = m + 1 THEN Further(c[m], P) ELSE c[k]]
             e == [k \in 0 .. m + 1 |-> IF k = 0 THEN B ELSE Further(d[k - 1], P)]
  <2>2. m \in Nat /\ m + 1 # 0 /\ m + 1 \in 0 .. m + 1
    OBVIOUS
  <2>3. ASSUME NEW k \in 0 .. m + 1 PROVE d[k] = e[k]
    <3>1. CASE k = m + 1
      <4>1. d[m] = c[m] /\ k - 1 = m /\ k # 0
        BY <2>2, <3>1
      <4> HIDE DEF d
      <4>2. e[k] = Further(c[m], P)
        BY <4>1
      <4> QED BY <2>2, <3>1, <4>2 DEF d
    <3>2. CASE k # m + 1 /\ k # 0
      <4>1. k \in 0 .. m /\ k - 1 \in 0 .. m /\ k - 1 \in 0 .. m + 1 /\ k - 1 # m + 1
        BY <2>2, <3>2
      <4>2. d[k] = c[k] /\ d[k - 1] = c[k - 1]
        BY <3>2, <4>1
      <4>3. c[k] = Further(c[k - 1], P)
        BY <2>1, <3>2, <4>1 DEF Stages
      <4> HIDE DEF d
      <4>4. e[k] = Further(d[k - 1], P)
        BY <3>2
      <4> QED BY <4>2, <4>3, <4>4
    <3>3. CASE k = 0
      <4>1. 0 \in 0 .. m /\ k # m + 1
        BY <2>2, <3>3
      <4>2. c[0] = B
        BY <2>1, <4>1 DEF Stages
      <4> QED BY <3>3, <4>1, <4>2
    <3> QED BY <3>1, <3>2, <3>3
  <2>4. d = e
    <3>1. d = [k \in 0 .. m + 1 |-> d[k]] /\ e = [k \in 0 .. m + 1 |-> e[k]]
      OBVIOUS
    <3> HIDE DEF d, e
    <3> QED BY <2>3, <3>1
  <2> HIDE DEF d
  <2>5. Stages(d, B, P, m + 1)
    BY <2>4 DEF Stages
  <2> QED BY <2>2, <2>5
<1>3. T \in SUBSET Nat
  OBVIOUS
<1>4. n \in T
  <2> HIDE DEF T
  <2> QED BY <1>1, <1>2, <1>3, AllOfNat
<1> QED BY <1>4

\* The blocks reached from those of B through the blocks of P.
Shut(E, P, C)      == \A b \in C : b \in P => E[b] \subseteq C
Least(E, B, P, R)  ==
  /\ R \in SUBSET DOMAIN E /\ B \subseteq R /\ Shut(E, P, R)
  /\ \A C \in SUBSET DOMAIN E : B \subseteq C /\ Shut(E, P, C) => R \subseteq C
UpTo(E, B, P, R) ==
  /\ R \in SUBSET DOMAIN E /\ B \subseteq R
  /\ \A C \in SUBSET DOMAIN E : B \subseteq C /\ Shut(E, P, C) => R \subseteq C

\* The stages are in what is reached, and each that is not closed has more of
\* the blocks one may pass through than there were stages before.
LEMMA StagesInside ==
  ASSUME NEW n \in Nat \ {0}, NEW E \in [1 .. n -> SUBSET (1 .. n)],
         \A b \in 1 .. n : Leaving(b) = E[b],
         NEW P \in SUBSET (1 .. n), NEW B \in SUBSET (1 .. n), NEW m \in Nat,
         NEW c, Stages(c, B, P, m), NEW k \in 0 .. m
  PROVE  UpTo(E, B, P, c[k]) /\ (Shut(E, P, c[k]) \/ Cardinality(c[k] \cap P) > k)
<1> DEFINE T == {j \in Nat : j <= m => /\ UpTo(E, B, P, c[j])
                                       /\ Shut(E, P, c[j]) \/ Cardinality(c[j] \cap P) > j}
<1>1. DOMAIN E = 1 .. n
  OBVIOUS
<1>2. ASSUME NEW S \in SUBSET (1 .. n)
      PROVE  IsFiniteSet(S \cap P) /\ Cardinality(S \cap P) \in Nat
  <2>1. IsFiniteSet(1 .. n)
    BY FS_Interval
  <2>2. IsFiniteSet(S \cap P)
    BY <2>1, FS_Subset
  <2> QED BY <2>2, FS_CardinalityType
<1>3. 0 \in T
  <2>1. c[0] = B
    BY DEF Stages
  <2>2. UpTo(E, B, P, B)
    BY <1>1 DEF UpTo
  <2>3. Shut(E, P, B) \/ Cardinality(B \cap P) > 0
    <3>1. CASE B \cap P = {}
      <4>1. Shut(E, P, B)
        BY <3>1 DEF Shut
      <4> QED BY <4>1
    <3>2. CASE B \cap P # {}
      <4>1. Cardinality(B \cap P) # 0
        BY <1>2, <3>2, FS_EmptySet
      <4>2. Cardinality(B \cap P) \in Nat
        BY <1>2
      <4> QED BY <4>1, <4>2
    <3> QED BY <3>1, <3>2
  <2> QED BY <2>1, <2>2, <2>3
<1>4. ASSUME NEW j \in T PROVE j + 1 \in T
  <2>1. SUFFICES ASSUME j + 1 <= m
                 PROVE  /\ UpTo(E, B, P, c[j + 1])
                        /\ Shut(E, P, c[j + 1]) \/ Cardinality(c[j + 1] \cap P) > j + 1
    OBVIOUS
  <2>2. j \in Nat /\ j <= m /\ j + 1 \in 0 .. m /\ j + 1 # 0 /\ (j + 1) - 1 = j
    BY <2>1
  <2> DEFINE S == c[j]
             U == c[j + 1]
  <2>3. UpTo(E, B, P, S) /\ (Shut(E, P, S) \/ Cardinality(S \cap P) > j)
    BY <2>2
  <2>4. U = Further(S, P)
    BY <2>2 DEF Stages
  <2> HIDE DEF S, U
  <2>5. \A x : x \in U <=> x \in S \/ \E b \in S : b \in P /\ x \in E[b]
    BY <2>4 DEF Further
  <2>6. S \in SUBSET (1 .. n) /\ U \in SUBSET (1 .. n) /\ S \in SUBSET U
    <3>1. S \in SUBSET (1 .. n)
      BY <1>1, <2>3 DEF UpTo
    <3>2. \A b \in P : E[b] \in SUBSET (1 .. n)
      OBVIOUS
    <3> QED BY <2>5, <3>1, <3>2
  <2>7. UpTo(E, B, P, U)
    <3>1. ASSUME NEW C \in SUBSET (1 .. n), B \subseteq C, Shut(E, P, C) PROVE U \subseteq C
      <4>1. S \subseteq C
        BY <1>1, <2>3, <3>1 DEF UpTo
      <4> QED BY <2>5, <3>1, <4>1 DEF Shut
    <3>2. B \subseteq U
      BY <2>3, <2>6 DEF UpTo
    <3> QED BY <1>1, <2>6, <3>1, <3>2 DEF UpTo
  <2>8. CASE S \cap P = U \cap P
    <3>1. \A b \in U : b \in P => b \in S
      BY <2>8
    <3>2. Shut(E, P, U)
      BY <2>5, <3>1 DEF Shut
    <3> QED BY <2>7, <3>2 DEF U
  <2>9. CASE S \cap P # U \cap P
    <3> DEFINE X == S \cap P
               Y == U \cap P
    <3>1. IsFiniteSet(Y) /\ X \in SUBSET Y /\ X # Y
      BY <1>2, <2>6, <2>9
    <3>2. Cardinality(X) \in Nat /\ Cardinality(Y) \in Nat
      BY <1>2, <2>6
    <3>3. ~Shut(E, P, S)
      <4>1. PICK x \in Y : x \notin X
        BY <3>1
      <4>2. x \in U /\ x \notin S
        BY <4>1
      <4> QED BY <2>5, <4>2 DEF Shut
    <3>4. Cardinality(X) > j
      BY <2>3, <3>3
    <3> HIDE DEF T, X, Y
    <3> DEFINE s == Cardinality(X)
               u == Cardinality(Y)
    <3>5. u > j + 1
      <4>1. s <= u /\ s # u
        BY <3>1, FS_Subset
      <4>2. s \in Nat /\ u \in Nat /\ j \in Nat /\ s > j
        BY <2>2, <3>2, <3>4
      <4> HIDE DEF s, u
      <4> QED BY <4>1, <4>2
    <3> QED BY <2>7, <3>5 DEF U, u, Y
  <2> QED BY <2>8, <2>9
<1>5. k \in T
  <2>1. T \in SUBSET Nat
    OBVIOUS
  <2> HIDE DEF T
  <2>2. T = Nat
    BY <1>3, <1>4, <2>1, AllOfNat
  <2>3. k \in Nat
    OBVIOUS
  <2> QED BY <2>2, <2>3
<1>6. k <= m
  OBVIOUS
<1> QED BY <1>5, <1>6

\* There are as many stages as blocks one may pass through, which is enough.
LEMMA ReachLeast ==
  ASSUME NEW n \in Nat \ {0}, NEW E \in [1 .. n -> SUBSET (1 .. n)],
         \A b \in 1 .. n : Leaving(b) = E[b],
         NEW P \in SUBSET (1 .. n), NEW B \in SUBSET (1 .. n)
  PROVE  Least(E, B, P, Reach(B, P))
<1> DEFINE m == Cardinality(P)
           c == CHOOSE r : Stages(r, B, P, m)
<1>1. IsFiniteSet(P) /\ m \in Nat
  <2>1. IsFiniteSet(1 .. n)
    BY FS_Interval
  <2>2. IsFiniteSet(P)
    BY <2>1, FS_Subset
  <2> QED BY <2>2, FS_CardinalityType
<1>2. Reach(B, P) = c[m]
  BY DEF Reach, Stages, Further
<1>3. Stages(c, B, P, m)
  BY <1>1, StagesAre
<1> HIDE DEF c
<1>4. UpTo(E, B, P, c[m]) /\ (Shut(E, P, c[m]) \/ Cardinality(c[m] \cap P) > m)
  <2>1. m \in 0 .. m
    BY <1>1
  <2> HIDE DEF m
  <2> QED BY <1>1, <1>3, <2>1, StagesInside
<1>5. ~(Cardinality(c[m] \cap P) > m)
  <2> DEFINE X == c[m] \cap P
  <2>1. X \in SUBSET P
    OBVIOUS
  <2> HIDE DEF X
  <2>2. IsFiniteSet(X) /\ Cardinality(X) <= m
    BY <1>1, <2>1, FS_Subset
  <2>3. Cardinality(X) \in Nat
    BY <2>2, FS_CardinalityType
  <2> HIDE DEF m
  <2>4. ~(Cardinality(X) > m)
    BY <1>1, <2>2, <2>3
  <2> QED BY <2>4 DEF X
<1>6. Least(E, B, P, c[m])
  BY <1>4, <1>5 DEF Least, UpTo
<1> QED BY <1>2, <1>6

\* From the entry, through any block: what is reached.
LEMMA ReachIs ==
  ASSUME NEW n, n = NBlocks(ir), n \in Nat \ {0}, Succ(ir, {}) \in [1 .. n -> SUBSET (1 .. n)],
         \A b \in 1 .. n : ir.blocks[b] # <<>>
  PROVE  Reach({1}, BlockIds) = Rch(ir, {})
<1> DEFINE E == Succ(ir, {})
           R == Reach({1}, 1 .. n)
<1>1. \A b \in 1 .. n : Leaving(b) = E[b]
  BY DEF Leaving, Succ, Targets, OutOf
<1> HIDE DEF E
<1>2. E \in [1 .. n -> SUBSET (1 .. n)] /\ {1} \in SUBSET (1 .. n) /\ DOMAIN E = 1 .. n
  BY DEF E
<1>3. Least(E, {1}, 1 .. n, R)
  BY <1>1, <1>2, ReachLeast
<1> HIDE DEF R
<1>4. \A C \in SUBSET (1 .. n) : ClosedIn(E, C) <=> {1} \subseteq C /\ Shut(E, 1 .. n, C)
  BY <1>2 DEF ClosedIn, Shut
<1>5. R \in SUBSET (1 .. n) /\ ClosedIn(E, R) /\ \A C \in SUBSET (1 .. n) : ClosedIn(E, C) => R \subseteq C
  BY <1>2, <1>3, <1>4 DEF Least
<1>6. R = Reached(E)
  <2>1. R \subseteq Reached(E)
    BY <1>2, <1>5 DEF Reached
  <2>2. Reached(E) \subseteq R
    BY <1>2, <1>5 DEF Reached
  <2> QED BY <2>1, <2>2
<1> QED BY <1>6 DEF R, E, Rch, BlockIds

\* What ir_verify asks of a body, and where a body of a block falls off its end.
Verified(f) ==
  \A b \in 1 .. NBlocks(f) :
    /\ f.blocks[b] # <<>>
    /\ \A j \in 1 .. Len(f.blocks[b]) :
         f.blocks[b][j].op \in Terminators <=> j = Len(f.blocks[b])
    /\ Targets(f.blocks[b]) \subseteq 1 .. NBlocks(f)
Falls(f, b) == \E j \in 1 .. Len(f.blocks[b]) : f.blocks[b][j].op = "unreachable"

\* The last terminator.
LastIs(f, isVoid, g) ==
  g = IF Terminated(f) THEN f ELSE Put(f, Jump(IF isVoid THEN "ret" ELSE "unreachable", <<>>))
Finished(f, isVoid, g) ==
  /\ g \in IR /\ g.cur = f.cur /\ NBlocks(g) = NBlocks(f) /\ Verified(g)
  /\ Succ(g, {}) = Succ(f, {})
  /\ \A b \in 1 .. NBlocks(f) : Falls(g, b) <=> (b = f.cur /\ ~Terminated(f) /\ ~isVoid)

LEMMA BlockVerified ==
  ASSUME NEW is \in Seq(Ins), NEW n, GoodBlock(is, n), Ended(is)
  PROVE  /\ is # <<>> /\ Targets(is) \subseteq 1 .. n
         /\ \A j \in 1 .. Len(is) : is[j].op \in Terminators <=> j = Len(is)
         /\ \A j \in 1 .. Len(is) : is[j].op # "unreachable"
BY DEF GoodBlock, Ended

Appended(is, in, js) == js = Append(is, in)

LEMMA BlockLast ==
  ASSUME NEW is \in Seq(Ins), NEW n, GoodBlock(is, n), ~Ended(is),
         NEW in \in Ins, in.op \in {"ret", "unreachable"}, in.to = <<>>,
         NEW js, Appended(is, in, js)
  PROVE  /\ js # <<>> /\ Targets(js) = {} /\ Targets(is) = {}
         /\ \A j \in 1 .. Len(js) : js[j].op \in Terminators <=> j = Len(js)
         /\ (\E j \in 1 .. Len(js) : js[j].op = "unreachable") <=> in.op = "unreachable"
<1> DEFINE m == Len(is)
<1>1. m \in Nat /\ Len(js) = m + 1 /\ js[m + 1] = in /\ \A j \in 1 .. m : js[j] = is[j]
  BY DEF Appended
<1>2. /\ \A j \in 1 .. m + 1 : j \in 1 .. m \/ j = m + 1
      /\ \A j \in 1 .. m : j # m + 1 /\ j \in 1 .. m + 1
      /\ m + 1 \in 1 .. m + 1
  BY <1>1
<1>3. \A j \in 1 .. m : is[j].op \notin Terminators /\ is[j].op # "unreachable"
  <2>1. ASSUME NEW j \in 1 .. m, is[j].op \in Terminators PROVE FALSE
    <3>1. j = m /\ is # <<>>
      BY <2>1 DEF GoodBlock
    <3> QED BY <2>1, <3>1 DEF Ended
  <2> QED BY <2>1 DEF GoodBlock
<1>4. in.op \in Terminators
  BY DEF Terminators
<1>5. Targets(is) = {}
  <2>1. CASE is = <<>>
    BY <2>1 DEF Targets
  <2>2. CASE is # <<>>
    <3>1. m \in 1 .. m
      BY <2>2
    <3>2. is[m].op = "code"
      <4>1. is[m] \in Ins
        BY <3>1
      <4>2. is[m].op \in {"code"} \cup Terminators
        BY <4>1 DEF Ins
      <4> QED BY <1>3, <3>1, <4>2
    <3>3. is[m].to = <<>>
      BY <3>1, <3>2 DEF GoodBlock
    <3> QED BY <2>2, <3>3 DEF Targets
  <2> QED BY <2>1, <2>2
<1>6. js # <<>> /\ Targets(js) = {}
  <2>1. js # <<>>
    BY <1>1
  <2>2. js[Len(js)].to = <<>>
    BY <1>1
  <2> QED BY <2>1, <2>2 DEF Targets
<1> HIDE DEF m
<1>7. \A j \in 1 .. m + 1 : js[j].op \in Terminators <=> j = m + 1
  BY <1>1, <1>2, <1>3, <1>4
<1>8. (\E j \in 1 .. m + 1 : js[j].op = "unreachable") <=> in.op = "unreachable"
  BY <1>1, <1>2, <1>3
<1> QED BY <1>1, <1>5, <1>6, <1>7, <1>8

\* A finished body verifies, and only its last block can fall off the end.
LEMMA FinishedIs ==
  ASSUME NEW f, Sound(f, {}), NEW isVoid \in BOOLEAN, NEW g, LastIs(f, isVoid, g)
  PROVE  Finished(f, isVoid, g)
<1> DEFINE n == NBlocks(f)
<1>1. /\ f \in IR /\ f.cur \in 1 .. n /\ \A b \in 1 .. n : f.blocks[b] \in Seq(Ins)
      /\ \A b \in 1 .. n : GoodBlock(f.blocks[b], n) /\ (b # f.cur => Ended(f.blocks[b]))
  BY DEF Sound, IR, NBlocks
<1>2. CASE Terminated(f)
  <2>1. \A b \in 1 .. n : Ended(f.blocks[b])
    BY <1>1, <1>2, TerminatedIs
  <2>2. g = f
    BY <1>2 DEF LastIs
  <2>3. Verified(f) /\ \A b \in 1 .. n : ~Falls(f, b)
    BY <1>1, <2>1, BlockVerified DEF Verified, Falls
  <2> QED BY <1>1, <1>2, <2>2, <2>3 DEF Finished
<1>3. CASE ~Terminated(f)
  <2> DEFINE in == Jump(IF isVoid THEN "ret" ELSE "unreachable", <<>>)
  <2>1. in \in Ins /\ in.op \in {"ret", "unreachable"} /\ in.to = <<>> /\ (in.op = "unreachable" <=> ~isVoid)
    BY DEF Jump, Ins, Terminators
  <2>2. g = Put(f, in)
    BY <1>3 DEF LastIs
  <2> HIDE DEF in
  <2>3. /\ g \in IR /\ g.cur = f.cur /\ NBlocks(g) = n
        /\ g.blocks[f.cur] = Append(f.blocks[f.cur], in)
        /\ \A b \in 1 .. n : b # f.cur => g.blocks[b] = f.blocks[b]
    <3>1. /\ Put(f, in) \in IR /\ Put(f, in).cur = f.cur /\ NBlocks(Put(f, in)) = NBlocks(f)
          /\ Put(f, in).blocks[f.cur] = Append(f.blocks[f.cur], in)
          /\ \A b \in 1 .. NBlocks(f) : b # f.cur => Put(f, in).blocks[b] = f.blocks[b]
      BY <1>1, <2>1, PutIs
    <3> QED BY <2>2, <3>1
  <2> DEFINE is == f.blocks[f.cur]
             js == g.blocks[f.cur]
  <2>4. /\ is \in Seq(Ins) /\ GoodBlock(is, n) /\ ~Ended(is) /\ Appended(is, in, js)
    BY <1>1, <1>3, <2>3, TerminatedIs DEF Appended
  <2> HIDE DEF is, js
  <2>5. /\ js # <<>> /\ Targets(js) = {} /\ Targets(is) = {}
        /\ \A j \in 1 .. Len(js) : js[j].op \in Terminators <=> j = Len(js)
        /\ (\E j \in 1 .. Len(js) : js[j].op = "unreachable") <=> in.op = "unreachable"
    BY <2>1, <2>4, BlockLast
  <2>6. ASSUME NEW b \in 1 .. n
        PROVE  /\ g.blocks[b] # <<>> /\ Targets(g.blocks[b]) \subseteq 1 .. n
               /\ \A j \in 1 .. Len(g.blocks[b]) :
                    g.blocks[b][j].op \in Terminators <=> j = Len(g.blocks[b])
               /\ Targets(g.blocks[b]) = Targets(f.blocks[b])
               /\ Falls(g, b) <=> (b = f.cur /\ ~Terminated(f) /\ ~isVoid)
    <3>1. CASE b = f.cur
      BY <1>3, <2>1, <2>5, <3>1 DEF is, js, Falls
    <3>2. CASE b # f.cur
      <4> DEFINE ks == f.blocks[b]
      <4>1. ks \in Seq(Ins) /\ GoodBlock(ks, n) /\ Ended(ks) /\ g.blocks[b] = ks
        BY <1>1, <2>3, <3>2
      <4> HIDE DEF ks
      <4>2. /\ ks # <<>> /\ Targets(ks) \subseteq 1 .. n
            /\ \A j \in 1 .. Len(ks) : ks[j].op \in Terminators <=> j = Len(ks)
            /\ \A j \in 1 .. Len(ks) : ks[j].op # "unreachable"
        BY <4>1, BlockVerified
      <4> QED BY <3>2, <4>1, <4>2 DEF Falls, ks
    <3> QED BY <3>1, <3>2
  <2>7. Verified(g)
    BY <2>3, <2>6 DEF Verified
  <2>8. Succ(g, {}) = Succ(f, {})
    BY <2>3, <2>6 DEF Succ
  <2> QED BY <2>3, <2>6, <2>7, <2>8 DEF Finished
<1> QED BY <1>2, <1>3

\* The body as it is left, with what sema said of it.
Done(f, os, ph) ==
  /\ f \in IR /\ f.cur \in 1 .. NBlocks(f) /\ NBlocks(f) \in Nat \ {0}
  /\ Shape(os, NBlocks(f)) /\ Verified(f)
  /\ Succ(f, {}) \in [1 .. NBlocks(f) -> SUBSET (1 .. NBlocks(f))]
  /\ ph = "accepted" => \A b \in Rch(f, {}) : ~Falls(f, b)
  /\ ph = "missing_return" => \E b \in Rch(f, {}) : Falls(f, b)
Verdict(top, isVoid) == IF ~isVoid /\ ~top.div THEN "missing_return" ELSE "accepted"

\* The frame of the function itself.
LEMMA LastFrame ==
  ASSUME NEW f, NEW os, NEW ls, NEW ns, Body(f, os, ls, ns), os[Len(os)].kind = "fn"
  PROVE  Awaited(os) = {} /\ Detours(os, f.cur) = {}
<1>1. Shape(os, NBlocks(f)) /\ Len(os) \in Nat \ {0} /\ Len(os) \in 1 .. Len(os)
  BY BodyIs
<1>2. Len(os) = 1
  BY <1>1 DEF Shape
<1>3. Awaited(os) = {}
  <2>1. Awaits(os[1]) = {}
    BY <1>2 DEF Awaits, Compounds, Arms
  <2>2. \A d \in 1 .. Len(os) : d = 1
    BY <1>2
  <2> QED BY <2>1, <2>2 DEF Awaited
<1>4. Detours(os, f.cur) = {}
  <2>1. InnerTo(os, Len(os)) = {}
    <3>1. 1 .. Len(os) - 1 = {}
      BY <1>2
    <3> QED BY <3>1 DEF InnerTo
  <2>2. WildOf(os[Len(os)]) = 0
    BY DEF WildOf
  <2> QED BY <2>1, <2>2 DEF Detours, With
<1> QED BY <1>3, <1>4

\* The end of the body: its verdict is what the blocks do.
LEMMA BodyEnds ==
  ASSUME NEW f, NEW os, NEW ls, NEW ns, Body(f, os, ls, ns), os[Len(os)].kind = "fn",
         NEW isVoid \in BOOLEAN, NEW g, LastIs(f, isVoid, g),
         NEW ph, ph = Verdict(os[Len(os)], isVoid)
  PROVE  Done(g, os, ph)
<1> DEFINE n == NBlocks(f)
           top == os[Len(os)]
           R == Rch(f, {})
<1>1. /\ n \in Nat \ {0} /\ f.cur \in 1 .. n /\ Shape(os, n) /\ Len(os) \in Nat \ {0}
      /\ Sound(f, Awaited(os)) /\ FlowAt(f, os) /\ Len(os) \in 1 .. Len(os)
  BY BodyIs DEF Body
<1>2. Len(os) = 1
  BY <1>1 DEF Shape
<1>3. Awaited(os) = {} /\ Detours(os, f.cur) = {}
  BY LastFrame
<1>5. Live(os) <=> ~top.div
  <2>1. 1 .. Len(os) - 1 = {}
    BY <1>2
  <2> QED BY <2>1 DEF Live, Alive
<1>6. (f.cur \in R /\ ~Terminated(f)) <=> ~top.div
  BY <1>1, <1>3, <1>5 DEF FlowAt
<1>7. Sound(f, {})
  BY <1>1, <1>3
<1>8. Finished(f, isVoid, g)
  BY <1>7, FinishedIs
<1>9. {} \in Ways(NBlocks(f))
  BY DEF Ways
<1>10. /\ Succ(f, {}) \in [1 .. NBlocks(f) -> SUBSET (1 .. NBlocks(f))]
       /\ R \in SUBSET (1 .. NBlocks(f))
  BY <1>7, <1>9, SuccIs, RchIs
<1>11. /\ g \in IR /\ g.cur = f.cur /\ NBlocks(g) = n /\ Verified(g) /\ Succ(g, {}) = Succ(f, {})
       /\ \A b \in 1 .. n : Falls(g, b) <=> (b = f.cur /\ ~Terminated(f) /\ ~isVoid)
  BY <1>8 DEF Finished
<1>12. Rch(g, {}) = R
  BY <1>11 DEF Rch
<1> HIDE DEF R, top
<1>13. ph = "accepted" => \A b \in R : ~Falls(g, b)
  <2>1. ASSUME ph = "accepted", NEW b \in R, Falls(g, b) PROVE FALSE
    <3>1. b = f.cur /\ ~Terminated(f) /\ ~isVoid
      BY <1>10, <1>11, <2>1
    <3>2. ~top.div
      BY <1>6, <2>1, <3>1
    <3> QED BY <2>1, <3>1, <3>2 DEF Verdict, top
  <2> QED BY <2>1
<1>14. ph = "missing_return" => \E b \in R : Falls(g, b)
  <2>1. ASSUME ph = "missing_return" PROVE f.cur \in R /\ Falls(g, f.cur)
    <3>1. ~isVoid /\ ~top.div
      BY <2>1 DEF Verdict, top
    <3> QED BY <1>1, <1>6, <1>11, <3>1
  <2> QED BY <2>1
<1> QED BY <1>1, <1>10, <1>11, <1>12, <1>13, <1>14 DEF Done

-----------------------------------------------------------------------------
(* The inductive invariant *)

\* The walk's state fits while it goes on; what is left of it when it is over.
IInv ==
  /\ phase \in {"body", "accepted", "missing_return", "stray_jump"}
  /\ last \in Nat /\ came \in SUBSET Nat /\ depth = Len(loops)
  /\ phase \in {"body", "stray_jump"} => Body(ir, open, loops, nest)
  /\ Complete => Done(ir, open, phase)

Passes(os, ps) == \E dv \in BOOLEAN : ~dv /\ IsAfter(os, dv, ps)
Leaves(os, ps) == \E dv \in BOOLEAN : dv /\ IsAfter(os, dv, ps)

LEMMA PassesIs ==
  ASSUME NEW os, NEW ps, ps = After(os, FALSE)
  PROVE  Passes(os, ps)
<1> DEFINE dv == FALSE
<1>1. dv \in BOOLEAN /\ ~dv /\ IsAfter(os, dv, ps)
  BY DEF IsAfter
<1> HIDE DEF dv
<1> QED BY <1>1 DEF Passes

LEMMA LeavesIs ==
  ASSUME NEW os, NEW ps, ps = After(os, TRUE)
  PROVE  Leaves(os, ps)
<1> DEFINE dv == TRUE
<1>1. dv \in BOOLEAN /\ dv /\ IsAfter(os, dv, ps)
  BY DEF IsAfter
<1> HIDE DEF dv
<1> QED BY <1>1 DEF Leaves

LEMMA BodyNests ==
  ASSUME NEW f, NEW os, NEW ls, NEW ns, Body(f, os, ls, ns),
         NEW ms \in Seq(NestSet), Len(ms) = Len(ns),
         \A i \in 1 .. Len(ns) : ms[i].wild = ns[i].wild
  PROVE  Body(f, os, ls, ms)
<1>1. Nests(os, ns)
  BY DEF Body, Frames
<1>2. Nests(os, ms)
  BY <1>1, NestsSame
<1> QED BY <1>2 DEF Body, Frames

\* Where a statement's code goes, and what is left of its expression.
LEMMA BodyOpened ==
  ASSUME NEW f, NEW os, NEW ls, NEW ns, Body(f, os, ls, ns), os[Len(os)].kind \in Lasts
  PROVE  Body(EnsureOpen(f), os, ls, ns) /\ ~Terminated(EnsureOpen(f))
<1>1. os[Len(os)].kind # "match"
  BY DEF Lasts, Lists
<1>2. Onward(f, Awaited(os), EnsureOpen(f))
  BY EnsureOpenIs DEF Body
<1> QED BY <1>1, <1>2, BodyOnward

LEMMA BodyEval ==
  ASSUME NEW f, NEW os, NEW ls, NEW ns, Body(f, os, ls, ns), os[Len(os)].kind \in Lasts,
         NEW s \in Nat, NEW shape
  PROVE  LET g == Eval(EnsureOpen(f), s, shape) IN Body(g, os, ls, ns) /\ ~Terminated(g)
<1> DEFINE e == EnsureOpen(f)
<1>1. Body(e, os, ls, ns) /\ ~Terminated(e) /\ os[Len(os)].kind # "match"
  BY BodyOpened DEF Lasts, Lists
<1> HIDE DEF e
<1>2. Onward(e, Awaited(os), Eval(e, s, shape))
  BY <1>1, EvalIs DEF Body
<1>3. Body(Eval(e, s, shape), os, ls, ns) /\ ~Terminated(Eval(e, s, shape))
  BY <1>1, <1>2, BodyOnward
<1> QED BY <1>3 DEF e

LEMMA BodyPasses ==
  ASSUME NEW f, NEW os, NEW ls, NEW ns, Body(f, os, ls, ns), os[Len(os)].kind \in Lasts,
         NEW ps, Passes(os, ps)
  PROVE  Body(f, ps, ls, ns)
<1>1. PICK dv \in BOOLEAN : ~dv /\ IsAfter(os, dv, ps)
  BY DEF Passes
<1> QED BY <1>1, BodyOn

LEMMA BodyReturns ==
  ASSUME NEW f, NEW os, NEW ls, NEW ns, Body(f, os, ls, ns), os[Len(os)].kind \in Lasts,
         ~Terminated(f), NEW ps, Leaves(os, ps)
  PROVE  Body(Put(f, Jump("ret", <<>>)), ps, ls, ns)
<1>1. PICK dv \in BOOLEAN : dv /\ IsAfter(os, dv, ps)
  BY DEF Leaves
<1> DEFINE g == Put(f, Jump("ret", <<>>))
<1>2. Sound(f, Awaited(os)) /\ Detours(os, f.cur) \in Ways(NBlocks(f))
  BY BodyIs DEF Body
<1>3. /\ Sound(g, Awaited(os)) /\ Terminated(g) /\ NBlocks(g) = NBlocks(f)
      /\ \A V \in Ways(NBlocks(f)) : Rch(g, V) = Rch(f, V)
  BY <1>2, RetStep
<1> HIDE DEF g
<1>4. Rch(g, Detours(os, f.cur)) = Rch(f, Detours(os, f.cur))
  BY <1>2, <1>3
<1>5. Body(g, ps, ls, ns)
  BY <1>1, <1>3, <1>4, BodyAway
<1> QED BY <1>5 DEF g

LEMMA BodyJumps ==
  ASSUME NEW f, NEW os, NEW ls, NEW ns, Body(f, os, ls, ns), os[Len(os)].kind \in Lasts,
         ~Terminated(f), Len(ls) # 0, NEW t, t \in {ls[Len(ls)].continueTo, ls[Len(ls)].breakTo},
         NEW ps, Leaves(os, ps)
  PROVE  Body(Br(f, t), ps, ls, ns)
<1> DEFINE n == NBlocks(f)
           V == Detours(os, f.cur)
           R == Rch(f, V)
           P == Awaited(os)
<1>1. PICK dv \in BOOLEAN : dv /\ IsAfter(os, dv, ps)
  BY DEF Leaves
<1>2. /\ Sound(f, P) /\ V \in Ways(n) /\ n \in Nat \ {0} /\ Shape(os, n) /\ Len(os) \in Nat \ {0}
      /\ LoopFrames(os, ls)
  BY BodyIs DEF Body, Frames
<1>3. FlowAll(os, Len(os), R) /\ (f.cur \in R <=> Live(os))
  BY DEF Body, FlowAt
<1>4. PICK d \in 1 .. Len(os) :
        os[d].kind = "while" /\ ls[Len(ls)] = [continueTo |-> os[d].alt, breakTo |-> os[d].end]
  BY <1>2, LoopTop
<1>5. t \in {os[d].alt, os[d].end}
  BY <1>4
<1>6. os[d] \in FrameSet /\ GoodFrame(os[d], n)
  BY <1>2, ShapeIs DEF Shape
<1>7. t \in 1 .. n
  <2>1. os[d].alt \in Nat /\ os[d].end \in Nat
    BY <1>6 DEF FrameSet
  <2>2. os[d].alt # 0 /\ os[d].end # 0 /\ os[d].alt <= n /\ os[d].end <= n
    BY <1>4, <1>6 DEF GoodFrame, Compounds
  <2> QED BY <1>2, <1>5, <2>1, <2>2
<1>8. f.cur \in R => t \in R
  <2>1. ASSUME f.cur \in R PROVE t \in R
    <3>1. Alive(os, Len(os))
      BY <1>3, <2>1 DEF Live
    <3>2. d \in Nat /\ d <= Len(os)
      BY <1>2
    <3>3. Alive(os, d)
      BY <1>2, <3>1, <3>2, AliveFrom
    <3>4. FrameFlow(os[d], Alive(os, d), R)
      BY <1>3 DEF FlowAll
    <3>5. os[d].alt \in R /\ os[d].end \in R
      BY <1>4, <3>3, <3>4 DEF FrameFlow
    <3> QED BY <1>5, <3>5
  <2> QED BY <2>1
<1> HIDE DEF V, R, P
<1>9. f.cur \in Rch(f, V) => Quiet(f, P, V, t)
  BY <1>8 DEF Quiet, R
<1> DEFINE g == Br(f, t)
<1>10. /\ Sound(g, P) /\ Terminated(g) /\ NBlocks(g) = n
       /\ Rch(g, V) = IF f.cur \in Rch(f, V) THEN Rch(f, V) \cup {t} ELSE Rch(f, V)
  BY <1>2, <1>7, <1>9, BrStep
<1> HIDE DEF g
<1>11. Rch(g, V) = Rch(f, V)
  BY <1>8, <1>10 DEF R
<1>12. Body(g, ps, ls, ns)
  BY <1>1, <1>10, <1>11, BodyAway DEF V, P
<1> QED BY <1>12 DEF g

-----------------------------------------------------------------------------
(* Every step keeps it *)

\* The walk at a place for a statement.
LEMMA AtPlace ==
  ASSUME IInv, AtStmt
  PROVE  /\ Body(ir, open, loops, nest) /\ open[Len(open)].kind \in Lasts /\ phase = "body"
         /\ This \in Nat /\ last \in Nat /\ depth = Len(loops) /\ came \in SUBSET Nat
         /\ Body(Lowered, open, loops, nest) /\ ~Terminated(Lowered)
<1>1. Body(ir, open, loops, nest) /\ open[Len(open)].kind \in Lasts
  BY DEF IInv, AtStmt, Top, Lasts
<1>2. Body(EnsureOpen(ir), open, loops, nest) /\ ~Terminated(EnsureOpen(ir))
  BY <1>1, BodyOpened
<1> QED BY <1>1, <1>2 DEF IInv, AtStmt, This, Lowered

\* And inside a statement that is open.
LEMMA Walked ==
  ASSUME phase' = "body", last' \in Nat, came' \in SUBSET Nat, depth' = Len(loops'),
         Body(ir', open', loops', nest')
  PROVE  IInv'
BY DEF IInv, Complete

LEMMA SimpleKeeps ==
  ASSUME IInv, NEW shape, Simple(shape)
  PROVE  IInv'
<1>1. AtStmt /\ ir' = Eval(Lowered, This, shape) /\ open' = After(open, FALSE)
      /\ loops' = loops /\ depth' = depth /\ phase' = phase
  BY DEF Simple
<1>2. nest' = nest /\ last' = This /\ came' = {This}
  BY DEF Simple, Through
<1>3. /\ Body(ir, open, loops, nest) /\ open[Len(open)].kind \in Lasts /\ phase = "body"
      /\ This \in Nat /\ depth = Len(loops)
  BY <1>1, AtPlace
<1>4. Body(ir', open, loops, nest)
  BY <1>1, <1>3, BodyEval DEF Lowered
<1>5. Passes(open, open')
  BY <1>1, PassesIs
<1>6. Body(ir', open', loops, nest)
  BY <1>3, <1>4, <1>5, BodyPasses
<1> QED BY <1>1, <1>2, <1>3, <1>6, Walked

LEMMA EmptyKeeps ==
  ASSUME IInv, Empty
  PROVE  IInv'
<1>1. AtStmt /\ ir' = Lowered /\ open' = After(open, FALSE)
      /\ loops' = loops /\ depth' = depth /\ phase' = phase
  BY DEF Empty
<1>2. nest' = nest /\ last' = last /\ came' = came
  BY DEF Empty, flowVars
<1>3. /\ Body(ir', open, loops, nest) /\ open[Len(open)].kind \in Lasts /\ phase = "body"
      /\ last \in Nat /\ came \in SUBSET Nat /\ depth = Len(loops)
  BY <1>1, AtPlace
<1>4. Passes(open, open')
  BY <1>1, PassesIs
<1>5. Body(ir', open', loops, nest)
  BY <1>3, <1>4, BodyPasses
<1> QED BY <1>1, <1>2, <1>3, <1>5, Walked

LEMMA ReturnKeeps ==
  ASSUME IInv, NEW shape, Return(shape)
  PROVE  IInv'
<1> DEFINE e == Eval(Lowered, This, shape)
<1>1. AtStmt /\ ir' = Put(e, Jump("ret", <<>>)) /\ open' = After(open, TRUE)
      /\ loops' = loops /\ depth' = depth /\ phase' = phase
  BY DEF Return
<1>2. nest' = nest /\ last' = This /\ came' = {}
  BY DEF Return, Away
<1>3. /\ Body(ir, open, loops, nest) /\ open[Len(open)].kind \in Lasts /\ phase = "body"
      /\ This \in Nat /\ depth = Len(loops)
  BY <1>1, AtPlace
<1>4. Body(e, open, loops, nest) /\ ~Terminated(e)
  BY <1>3, BodyEval DEF Lowered
<1> HIDE DEF e
<1>5. Leaves(open, open')
  BY <1>1, LeavesIs
<1>6. Body(ir', open', loops, nest)
  BY <1>1, <1>3, <1>4, <1>5, BodyReturns
<1> QED BY <1>1, <1>2, <1>3, <1>6, Walked

LEMMA StrayJumpKeeps ==
  ASSUME IInv, StrayJump
  PROVE  IInv'
<1>1. /\ phase = "body" /\ phase' = "stray_jump" /\ ir' = ir /\ loops' = loops /\ depth' = depth
      /\ open' = open /\ nest' = nest /\ last' = last /\ came' = came
  BY DEF StrayJump, AtStmt, flowVars
<1> QED BY <1>1 DEF IInv, Complete

\* break and continue, of the innermost loop.
LEMMA JumpKeeps ==
  ASSUME IInv, AtStmt, depth > 0, NEW t, t \in {loops[Len(loops)].continueTo, loops[Len(loops)].breakTo},
         ir' = Br(Put(Lowered, Instr(This)), t), open' = After(open, TRUE),
         loops' = loops, depth' = depth, phase' = phase, last' = This, came' = {},
         nest' \in Seq(NestSet), Len(nest') = Len(nest),
         \A i \in 1 .. Len(nest) : nest'[i].wild = nest[i].wild
  PROVE  IInv'
<1> DEFINE e == Eval(Lowered, This, "plain")
<1>1. /\ Body(ir, open, loops, nest) /\ open[Len(open)].kind \in Lasts /\ phase = "body"
      /\ This \in Nat /\ depth = Len(loops)
  BY AtPlace
<1>2. Body(e, open, loops, nest) /\ ~Terminated(e)
  BY <1>1, BodyEval DEF Lowered
<1>3. ir' = Br(e, t)
  BY DEF Eval
<1> HIDE DEF e
<1>4. Leaves(open, open') /\ Len(loops) # 0
  <2>1. Leaves(open, open')
    BY LeavesIs
  <2>2. Len(loops) # 0
    BY <1>1
  <2> QED BY <2>1, <2>2
<1>5. Body(ir', open', loops, nest)
  BY <1>1, <1>2, <1>3, <1>4, BodyJumps
<1>6. Body(ir', open', loops, nest')
  BY <1>5, BodyNests
<1> QED BY <1>1, <1>6, Walked

LEMMA NestIs ==
  ASSUME NEW f, NEW os, NEW ls, NEW ns, Body(f, os, ls, ns)
  PROVE  ns \in Seq(NestSet)
BY DEF Body, Frames, Nests

LEMMA BreakKeeps ==
  ASSUME IInv, Break
  PROVE  IInv'
<1>1. /\ AtStmt /\ depth > 0 /\ ir' = Br(Put(Lowered, Instr(This)), loops[Len(loops)].breakTo)
      /\ open' = After(open, TRUE) /\ loops' = loops /\ depth' = depth /\ phase' = phase
  BY DEF Break
<1> DEFINE j == InnerLoop
<1>2. last' = This /\ came' = {} /\ nest' = [nest EXCEPT ![j].outs = @ \cup {This}]
  BY DEF Break, Breaks
<1>3. nest \in Seq(NestSet) /\ This \in Nat
  BY <1>1, AtPlace, NestIs
<1> HIDE DEF j
<1>4. /\ nest' \in Seq(NestSet) /\ Len(nest') = Len(nest)
      /\ \A i \in 1 .. Len(nest) : nest'[i].wild = nest[i].wild
  <2>1. ASSUME NEW i \in 1 .. Len(nest)
        PROVE  /\ nest[i] \in NestSet
               /\ [nest[i] EXCEPT !.outs = @ \cup {This}] \in NestSet
               /\ [nest[i] EXCEPT !.outs = @ \cup {This}].wild = nest[i].wild
    <3>1. nest[i] \in NestSet
      BY <1>3
    <3> DEFINE c == nest[i]
               s == This
    <3>2. c \in NestSet /\ s \in Nat
      BY <1>3, <3>1
    <3> HIDE DEF c, s
    <3>3. [c EXCEPT !.outs = @ \cup {s}] \in NestSet /\ [c EXCEPT !.outs = @ \cup {s}].wild = c.wild
      BY <3>2 DEF NestSet
    <3> QED BY <3>1, <3>3 DEF c, s
  <2> DEFINE x == [nest[j] EXCEPT !.outs = @ \cup {This}]
  <2>2. nest' = [nest EXCEPT ![j] = x]
    BY <1>2
  <2>3. j \in 1 .. Len(nest) => x \in NestSet /\ x.wild = nest[j].wild
    BY <2>1
  <2> HIDE DEF x
  <2>4. CASE j \in 1 .. Len(nest)
    <3>1. /\ nest' \in Seq(NestSet) /\ Len(nest') = Len(nest) /\ nest'[j] = x
          /\ \A i \in 1 .. Len(nest) : i # j => nest'[i] = nest[i]
      BY <1>3, <2>2, <2>3, <2>4, Replaced
    <3> QED BY <2>3, <2>4, <3>1
  <2>5. CASE j \notin 1 .. Len(nest)
    <3>1. nest' = nest
      <4>1. DOMAIN nest = 1 .. Len(nest) /\ nest = [i \in DOMAIN nest |-> nest[i]]
        BY <1>3
      <4>2. [nest EXCEPT ![j] = x] = [i \in DOMAIN nest |-> IF i = j THEN x ELSE nest[i]]
        OBVIOUS
      <4> QED BY <2>2, <2>5, <4>1, <4>2
    <3> QED BY <1>3, <3>1
  <2> QED BY <2>4, <2>5
<1>5. loops[Len(loops)].breakTo \in {loops[Len(loops)].continueTo, loops[Len(loops)].breakTo}
  OBVIOUS
<1> QED BY <1>1, <1>2, <1>4, <1>5, JumpKeeps

LEMMA ContinueKeeps ==
  ASSUME IInv, Continue
  PROVE  IInv'
<1>1. /\ AtStmt /\ depth > 0 /\ ir' = Br(Put(Lowered, Instr(This)), loops[Len(loops)].continueTo)
      /\ open' = After(open, TRUE) /\ loops' = loops /\ depth' = depth /\ phase' = phase
  BY DEF Continue
<1>2. last' = This /\ came' = {} /\ nest' = nest
  BY DEF Continue, Continues
<1>3. nest \in Seq(NestSet)
  BY <1>1, AtPlace, NestIs
<1>4. loops[Len(loops)].continueTo \in {loops[Len(loops)].continueTo, loops[Len(loops)].breakTo}
  OBVIOUS
<1> QED BY <1>1, <1>2, <1>3, <1>4, JumpKeeps

\* The frame and the construct of a statement that opens.
FrameOf(k, dv, end, alt) == [Frame(k, dv) EXCEPT !.end = end, !.alt = alt]

LEMMA FrameOfIs ==
  ASSUME NEW k \in Kinds, NEW dv \in BOOLEAN, NEW end \in Nat, NEW alt \in Nat,
         NEW fr, fr = FrameOf(k, dv, end, alt)
  PROVE  NewFrame(fr, k, dv, end, alt) /\ fr \in FrameSet
<1>1. fr \in FrameSet
  BY DEF FrameOf, Frame, FrameSet
<1> QED BY <1>1 DEF FrameOf, Frame, NewFrame

MatchFrameOf(k, dv, end) == [Frame(k, dv) EXCEPT !.end = end]

LEMMA MatchFrameIs ==
  ASSUME NEW k \in Kinds, NEW dv \in BOOLEAN, NEW end \in Nat,
         NEW fr, fr = MatchFrameOf(k, dv, end)
  PROVE  NewFrame(fr, k, dv, end, 0) /\ fr \in FrameSet
<1>1. fr \in FrameSet
  BY DEF MatchFrameOf, Frame, FrameSet
<1> QED BY <1>1 DEF MatchFrameOf, Frame, NewFrame

Constructed(ns, k, s, ns2) == ns2 = Append(ns, Construct(k, s))

LEMMA ConstructedIs ==
  ASSUME NEW ns, NEW k \in {"if", "while", "match"}, NEW s \in Nat, NEW ns2, Constructed(ns, k, s, ns2),
         NEW fr, fr.kind \notin {"block", "arm"}
  PROVE  NestsInto(fr, ns, ns2)
<1>1. Construct(k, s) \in NestSet /\ ~Construct(k, s).wild
  BY DEF Construct, NestSet
<1> QED BY <1>1 DEF NestsInto, Constructed

LEMMA OpenIs ==
  ASSUME NEW f, NEW os, NEW ls, NEW ns, Body(f, os, ls, ns)
  PROVE  /\ os \in Seq(FrameSet) /\ Len(os) \in Nat \ {0} /\ NBlocks(f) \in Nat
         /\ \A fr \in FrameSet : Entered(os, fr, Append(os, fr))
<1>1. os \in Seq(FrameSet) /\ Len(os) \in Nat \ {0} /\ NBlocks(f) \in Nat
  BY BodyIs DEF Shape
<1> QED BY <1>1, EnteredIs

LEMMA BlockOpenKeeps ==
  ASSUME IInv, BlockOpen
  PROVE  IInv'
<1> DEFINE fr == Frame("block", FALSE)
<1>1. AtStmt /\ ir' = Lowered /\ open' = Append(open, fr)
      /\ loops' = loops /\ depth' = depth /\ phase' = phase
  BY DEF BlockOpen
<1>2. nest' = nest /\ last' = last /\ came' = came
  BY DEF BlockOpen, flowVars
<1>3. /\ Body(ir', open, loops, nest) /\ ~Terminated(ir') /\ open[Len(open)].kind \in Lasts
      /\ phase = "body" /\ last \in Nat /\ came \in SUBSET Nat /\ depth = Len(loops)
  BY <1>1, AtPlace
<1>4. NewFrame(fr, "block", FALSE, 0, 0) /\ fr \in FrameSet
  <2>1. fr \in FrameSet
    BY DEF Frame, FrameSet, Kinds
  <2> QED BY <2>1 DEF Frame, NewFrame
<1> HIDE DEF fr
<1>5. Entered(open, fr, open')
  BY <1>1, <1>3, <1>4, OpenIs
<1>6. Body(ir', open', loops, nest)
  BY <1>3, <1>4, <1>5, BodyBlockOpen
<1> QED BY <1>1, <1>2, <1>3, <1>6, Walked

LEMMA IfOpenKeeps ==
  ASSUME IInv, NEW shape, NEW hasElse \in BOOLEAN, IfOpen(shape, hasElse)
  PROVE  IInv'
<1> DEFINE f == Lowered
           n == NBlocks(f)
           k == IF hasElse THEN 3 ELSE 2
           alt == IF hasElse THEN n + 2 ELSE 0
           fr == FrameOf("then", FALSE, n + k, alt)
<1>1. /\ Body(ir, open, loops, nest) /\ open[Len(open)].kind \in Lasts /\ phase = "body"
      /\ This \in Nat /\ depth = Len(loops)
      /\ Body(f, open, loops, nest) /\ ~Terminated(f)
  BY AtPlace DEF IfOpen
<1>2. n \in Nat
  BY <1>1, OpenIs
<1>3. /\ ir' = At(CondBr(Eval(Fresh(f, k), This, shape), n + 1, n + 2), n + 1)
      /\ open' = Append(open, fr)
      /\ loops' = loops /\ depth' = depth /\ phase' = phase
  <2>1. (IF hasElse THEN n + 3 ELSE n + 2) = n + k /\ (n + k) - n = k
    BY <1>2
  <2> QED BY <2>1 DEF IfOpen, FrameOf
<1>4. last' = This /\ came' = {This} /\ Constructed(nest, "if", This, nest')
  BY DEF IfOpen, Into, Constructed
<1> HIDE DEF f, n
<1>5. IfIs(f, This, shape, k, n, ir')
  BY <1>3 DEF IfIs, n
<1>6. k \in {2, 3} /\ alt = IF k = 3 THEN n + 2 ELSE 0
  OBVIOUS
<1>7. NewFrame(fr, "then", FALSE, n + k, alt) /\ fr \in FrameSet
  <2>1. "then" \in Kinds /\ n + k \in Nat /\ alt \in Nat
    BY <1>2, <1>6 DEF Kinds, Compounds
  <2> HIDE DEF fr, k, alt
  <2>2. fr = FrameOf("then", FALSE, n + k, alt)
    BY DEF fr
  <2> QED BY <2>1, <2>2, FrameOfIs
<1> HIDE DEF k, alt, fr
<1>8. NewFrame(fr, "then", FALSE, n + k, IF k = 3 THEN n + 2 ELSE 0)
  BY <1>6, <1>7
<1>9. fr.kind \notin {"block", "arm"}
  BY <1>7 DEF NewFrame
<1>10. Entered(open, fr, open') /\ NestsInto(fr, nest, nest')
  <2>1. NestsInto(fr, nest, nest')
    BY <1>1, <1>4, <1>9, ConstructedIs
  <2> QED BY <2>1, <1>1, <1>3, <1>7, OpenIs
<1>11. Body(ir', open', loops, nest')
  <2>1. k \in {2, 3}
    BY <1>6
  <2> QED BY <1>1, <1>5, <1>8, <1>10, <2>1, BodyIfOpen
<1> QED BY <1>1, <1>3, <1>4, <1>11, Walked

LEMMA WhileOpenKeeps ==
  ASSUME IInv, NEW shape, WhileOpen(shape)
  PROVE  IInv'
<1> DEFINE f == Lowered
           n == NBlocks(f)
           fr == FrameOf("while", FALSE, n + 3, n + 1)
           x == [continueTo |-> n + 1, breakTo |-> n + 3]
<1>1. /\ Body(ir, open, loops, nest) /\ open[Len(open)].kind \in Lasts /\ phase = "body"
      /\ This \in Nat /\ depth = Len(loops)
      /\ Body(f, open, loops, nest) /\ ~Terminated(f)
  BY AtPlace DEF WhileOpen
<1>2. n \in Nat
  BY <1>1, OpenIs
<1>3. /\ ir' = At(CondBr(Eval(At(Br(Fresh(f, 3), n + 1), n + 1), This, shape), n + 2, n + 3), n + 2)
      /\ loops' = Append(loops, x)
      /\ open' = Append(open, fr)
      /\ depth' = depth + 1 /\ phase' = phase
  <2>1. (n + 1) + 1 = n + 2 /\ (n + 1) + 2 = n + 3
    BY <1>2
  <2> QED BY <2>1 DEF WhileOpen, FrameOf
<1>4. last' = This /\ came' = {This} /\ Constructed(nest, "while", This, nest')
  BY DEF WhileOpen, Into, Constructed
<1> HIDE DEF f, n
<1>5. WhileIs(f, This, shape, n, ir')
  BY <1>3 DEF WhileIs, n
<1>6. NewFrame(fr, "while", FALSE, n + 3, n + 1) /\ fr \in FrameSet
  <2>1. "while" \in Kinds /\ n + 3 \in Nat /\ n + 1 \in Nat
    BY <1>2 DEF Kinds, Compounds
  <2> HIDE DEF fr
  <2>2. fr = FrameOf("while", FALSE, n + 3, n + 1)
    BY DEF fr
  <2> QED BY <2>1, <2>2, FrameOfIs
<1> HIDE DEF fr
<1>7. fr.kind = "while" /\ fr.kind \notin {"block", "arm"} /\ fr.alt = n + 1 /\ fr.end = n + 3
  BY <1>6 DEF NewFrame
<1>8. Entered(open, fr, open') /\ NestsInto(fr, nest, nest') /\ LoopsInto(fr, loops, loops')
  <2>1. NestsInto(fr, nest, nest')
    BY <1>1, <1>4, <1>7, ConstructedIs
  <2>2. LoopsInto(fr, loops, loops')
    BY <1>3, <1>7 DEF LoopsInto
  <2> QED BY <2>1, <2>2, <1>1, <1>3, <1>6, OpenIs
<1>9. Body(ir', open', loops', nest')
  BY <1>1, <1>5, <1>6, <1>8, BodyWhileOpen
<1>10. depth' = Len(loops')
  <2>1. loops \in Seq(LoopSet)
    BY <1>1 DEF Body, Frames, LoopFrames
  <2>2. x \in LoopSet
    BY <1>2 DEF LoopSet
  <2> HIDE DEF x
  <2> QED BY <2>1, <2>2, <1>1, <1>3
<1> QED BY <1>1, <1>3, <1>4, <1>9, <1>10, Walked

LEMMA MatchOpenKeeps ==
  ASSUME IInv, NEW shape, MatchOpen(shape)
  PROVE  IInv'
<1> DEFINE f == Eval(Lowered, This, shape)
           n == NBlocks(f)
           fr == [Frame("match", TRUE) EXCEPT !.end = n + 1]
<1>1. /\ Body(ir, open, loops, nest) /\ open[Len(open)].kind \in Lasts /\ phase = "body"
      /\ This \in Nat /\ depth = Len(loops)
  BY AtPlace DEF MatchOpen
<1>2. Body(f, open, loops, nest) /\ ~Terminated(f)
  BY <1>1, BodyEval DEF Lowered
<1>3. /\ ir' = Fresh(f, 1) /\ open' = Append(open, fr)
      /\ loops' = loops /\ depth' = depth /\ phase' = phase
  BY DEF MatchOpen
<1>4. last' = This /\ came' = {This} /\ Constructed(nest, "match", This, nest')
  BY DEF MatchOpen, Into, Constructed
<1> HIDE DEF f
<1>5. NewFrame(fr, "match", TRUE, n + 1, 0) /\ fr \in FrameSet
  <2>1. n \in Nat
    BY <1>2, OpenIs
  <2> HIDE DEF n
  <2> DEFINE e == n + 1
  <2>2. "match" \in Kinds /\ e \in Nat
    BY <2>1 DEF Kinds, Compounds
  <2> HIDE DEF e, fr
  <2>3. fr = MatchFrameOf("match", TRUE, e)
    BY DEF MatchFrameOf, fr, e
  <2>4. NewFrame(fr, "match", TRUE, e, 0) /\ fr \in FrameSet
    BY <2>2, <2>3, MatchFrameIs
  <2> QED BY <2>4 DEF e
<1> HIDE DEF fr
<1>6. fr.kind \notin {"block", "arm"}
  BY <1>5 DEF NewFrame
<1>7. Entered(open, fr, open') /\ NestsInto(fr, nest, nest')
  <2>1. NestsInto(fr, nest, nest')
    BY <1>1, <1>4, <1>6, ConstructedIs
  <2> QED BY <2>1, <1>1, <1>3, <1>5, OpenIs
<1>8. Body(Fresh(f, 1), open', loops, nest')
  BY <1>1, <1>2, <1>5, <1>7, BodyMatchOpen
<1> QED BY <1>1, <1>3, <1>4, <1>8, Walked

\* The construct around a point inside a compound statement.
LEMMA InIs ==
  ASSUME NEW f, NEW os, NEW ls, NEW ns, Body(f, os, ls, ns), os[Len(os)].kind \in Compounds
  PROVE  /\ ns[Len(ns)] \in NestSet /\ ns[Len(ns)].head \in Nat /\ ns[Len(ns)].outs \in SUBSET Nat
         /\ ns[Len(ns)].wild = (os[Len(os)].kind = "match" /\ os[Len(os)].wild # 0)
<1>1. Nests(os, ns) /\ Len(os) \in Nat \ {0}
  BY BodyIs DEF Body, Frames
<1>2. /\ ns[Len(ns)] \in NestSet
      /\ ns[Len(ns)].wild = (os[Len(os)].kind = "match" /\ os[Len(os)].wild # 0)
  BY <1>1, NestsLast
<1> DEFINE c == ns[Len(ns)]
<1>3. c \in NestSet
  BY <1>2
<1> HIDE DEF c
<1>4. c.head \in Nat /\ c.outs \in SUBSET Nat
  BY <1>3 DEF NestSet
<1> QED BY <1>2, <1>4 DEF c

LEMMA BlockCloseKeeps ==
  ASSUME IInv, BlockClose
  PROVE  IInv'
<1>1. /\ phase = "body" /\ Top.kind = "block" /\ open' = After(Below, Top.div)
      /\ ir' = ir /\ loops' = loops /\ depth' = depth /\ phase' = phase
  BY DEF BlockClose
<1>2. nest' = nest /\ last' = last /\ came' = came
  BY DEF BlockClose, flowVars
<1>3. Body(ir, open, loops, nest) /\ last \in Nat /\ came \in SUBSET Nat /\ depth = Len(loops)
  BY <1>1 DEF IInv
<1>4. Left(open, Top, Below) /\ IsAfter(Below, Top.div, open')
  BY <1>1 DEF Left, IsAfter, Top, Below
<1>5. Body(ir, open', loops, nest)
  BY <1>1, <1>3, <1>4, BodyBlockClose
<1> QED BY <1>1, <1>2, <1>3, <1>5, Walked

LEMMA IfCloseKeeps ==
  ASSUME IInv, IfClose
  PROVE  IInv'
<1>1. /\ phase = "body" /\ OnlyThen(Top) /\ open' = After(Below, FALSE)
      /\ Went(ir, Top.end, Top.end, ir') /\ loops' = loops /\ depth' = depth /\ phase' = phase
  BY DEF IfClose, OnlyThen, Went
<1>2. NestsOut(Top, nest, nest') /\ last' = last /\ came' = came \cup {In.head}
  BY <1>1 DEF IfClose, OutOfIf, NestsOut, Outer, OnlyThen
<1>3. Body(ir, open, loops, nest) /\ last \in Nat /\ came \in SUBSET Nat /\ depth = Len(loops)
  BY <1>1 DEF IInv
<1>4. came' \in SUBSET Nat
  <2>1. open[Len(open)].kind \in Compounds
    BY <1>1 DEF OnlyThen, Compounds, Top
  <2>2. In.head \in Nat
    BY <1>3, <2>1, InIs DEF In
  <2> QED BY <1>2, <1>3, <2>2
<1>5. Left(open, Top, Below) /\ Passes(Below, open')
  BY <1>1, PassesIs DEF Left, Top, Below
<1>6. PICK dv \in BOOLEAN : ~dv /\ IsAfter(Below, dv, open')
  BY <1>5 DEF Passes
<1>7. Body(ir', open', loops, nest')
  BY <1>1, <1>2, <1>3, <1>5, <1>6, BodyIfClose
<1> QED BY <1>1, <1>2, <1>3, <1>4, <1>7, Walked

LEMMA ElseCloseKeeps ==
  ASSUME IInv, ElseClose
  PROVE  IInv'
<1>1. /\ phase = "body" /\ Top.kind = "else" /\ IsAfter(Below, Top.wasDiv /\ Top.div, open')
      /\ Went(ir, Top.end, Top.end, ir') /\ loops' = loops /\ depth' = depth /\ phase' = phase
  BY DEF ElseClose, Went, IsAfter
<1>2. NestsOut(Top, nest, nest') /\ last' = last /\ came' = came \cup In.outs
  BY <1>1 DEF ElseClose, OutOfElse, NestsOut, Outer
<1>3. Body(ir, open, loops, nest) /\ last \in Nat /\ came \in SUBSET Nat /\ depth = Len(loops)
  BY <1>1 DEF IInv
<1>4. came' \in SUBSET Nat
  <2>1. open[Len(open)].kind \in Compounds
    BY <1>1 DEF Compounds, Top
  <2>2. In.outs \in SUBSET Nat
    BY <1>3, <2>1, InIs DEF In
  <2> QED BY <1>2, <1>3, <2>2
<1>5. Left(open, Top, Below)
  BY DEF Left, Top, Below
<1>6. Body(ir', open', loops, nest')
  BY <1>1, <1>2, <1>3, <1>5, BodyElseClose
<1> QED BY <1>1, <1>2, <1>3, <1>4, <1>6, Walked

LEMMA WhileCloseKeeps ==
  ASSUME IInv, WhileClose
  PROVE  IInv'
<1>1. /\ phase = "body" /\ Top.kind = "while" /\ open' = After(Below, FALSE)
      /\ Went(ir, Top.alt, Top.end, ir') /\ loops' = SubSeq(loops, 1, Len(loops) - 1)
      /\ depth' = depth - 1 /\ phase' = phase
  BY DEF WhileClose, Went
<1>2. /\ NestsOut(Top, nest, nest') /\ LoopsOut(Top, loops, loops')
      /\ last' = last /\ came' = In.outs \cup {In.head}
  BY <1>1 DEF WhileClose, OutOfLoop, NestsOut, LoopsOut, Outer
<1>3. Body(ir, open, loops, nest) /\ last \in Nat /\ depth = Len(loops)
  BY <1>1 DEF IInv
<1>4. came' \in SUBSET Nat
  <2>1. open[Len(open)].kind \in Compounds
    BY <1>1 DEF Compounds, Top
  <2>2. In.outs \in SUBSET Nat /\ In.head \in Nat
    BY <1>3, <2>1, InIs DEF In
  <2> QED BY <1>2, <2>2
<1>5. Left(open, Top, Below) /\ Passes(Below, open')
  BY <1>1, PassesIs DEF Left, Top, Below
<1>6. PICK dv \in BOOLEAN : ~dv /\ IsAfter(Below, dv, open')
  BY <1>5 DEF Passes
<1>7. Body(ir', open', loops', nest')
  BY <1>1, <1>2, <1>3, <1>5, <1>6, BodyWhileClose
<1>8. depth' = Len(loops')
  <2>1. Frames(open, NBlocks(ir), loops, nest) /\ NBlocks(ir) \in Nat
    BY <1>3, BodyIs DEF Body
  <2>2. Top.kind \in Closes
    BY <1>1 DEF Closes
  <2>3. Len(loops) # 0
    BY <1>1, <1>2, <1>5, <2>1, <2>2, PopFrames
  <2>4. loops \in Seq(LoopSet)
    BY <2>1 DEF Frames, LoopFrames
  <2>5. Len(loops) > 0
    BY <2>3, <2>4
  <2>6. Len(loops') = Len(loops) - 1
    BY <1>1, <2>4, <2>5, Popped
  <2> QED BY <1>1, <1>3, <2>6
<1> QED BY <1>1, <1>2, <1>3, <1>4, <1>7, <1>8, Walked

LEMMA MatchCloseKeeps ==
  ASSUME IInv, MatchClose
  PROVE  IInv'
<1>1. /\ phase = "body" /\ Top.kind = "match" /\ IsAfter(Below, Top.wild # 0 /\ Top.div, open')
      /\ MatchEnd(ir, Top, ir') /\ loops' = loops /\ depth' = depth /\ phase' = phase
  BY DEF MatchClose, MatchEnd, IsAfter
<1>2. NestsOut(Top, nest, nest') /\ last' = last
  BY <1>1 DEF MatchClose, OutOfMatch, NestsOut, Outer
<1>3. Body(ir, open, loops, nest) /\ last \in Nat /\ depth = Len(loops)
  BY <1>1 DEF IInv
<1>4. came' \in SUBSET Nat
  <2>1. open[Len(open)].kind \in Compounds
    BY <1>1 DEF Compounds, Top
  <2>2. In.outs \in SUBSET Nat /\ In.head \in Nat
    BY <1>3, <2>1, InIs DEF In
  <2>3. came' = In.outs \cup (IF In.wild THEN {} ELSE {In.head})
    BY DEF MatchClose, OutOfMatch
  <2> QED BY <2>2, <2>3
<1>5. Left(open, Top, Below)
  BY DEF Left, Top, Below
<1>6. Body(ir', open', loops, nest')
  BY <1>1, <1>2, <1>3, <1>5, BodyMatchClose
<1> QED BY <1>1, <1>2, <1>3, <1>4, <1>6, Walked

LEMMA SetTopIs ==
  ASSUME NEW f, NEW os, NEW ls, NEW ns, Body(f, os, ls, ns), NEW g \in FrameSet
  PROVE  Recasts(os, Len(os), os[Len(os)], [os EXCEPT ![Len(os)] = g], g)
<1>1. os \in Seq(FrameSet) /\ Len(os) # 0
  BY OpenIs
<1> QED BY <1>1, RecastsIs

LEMMA ElseOpenKeeps ==
  ASSUME IInv, ElseOpen
  PROVE  IInv'
<1> DEFINE fr == open[Len(open)]
           g  == [fr EXCEPT !.kind = "else", !.div = FALSE, !.wasDiv = fr.div]
           x  == [In EXCEPT !.outs = came]
<1>1. /\ phase = "body" /\ fr.kind = "then" /\ fr.alt # 0 /\ open' = [open EXCEPT ![Len(open)] = g]
      /\ Went(ir, fr.end, fr.alt, ir') /\ loops' = loops /\ depth' = depth /\ phase' = phase
  BY DEF ElseOpen, SetTop, Went, Top
<1>2. Reset(nest, x, nest') \/ x \notin NestSet
  BY DEF ElseOpen, Else, SetIn, Reset
<1>3. last' = last /\ came' = {In.head}
  BY DEF ElseOpen, Else
<1>4. /\ Body(ir, open, loops, nest) /\ last \in Nat /\ came \in SUBSET Nat /\ depth = Len(loops)
  BY <1>1 DEF IInv
<1>5. fr \in FrameSet
  BY <1>4, BodyIs
<1>6. In \in NestSet /\ In.head \in Nat /\ ~In.wild
  <2>1. fr.kind \in Compounds /\ fr.kind # "match"
    BY <1>1 DEF Compounds
  <2> QED BY <1>4, <2>1, InIs DEF In
<1>7. x \in NestSet /\ ~x.wild
  <2> DEFINE c == In
  <2>1. c \in NestSet /\ ~c.wild
    BY <1>6
  <2> HIDE DEF c
  <2>2. [c EXCEPT !.outs = came] \in NestSet /\ ~[c EXCEPT !.outs = came].wild
    BY <1>4, <2>1 DEF NestSet
  <2> QED BY <2>2 DEF c
<1>8. g \in FrameSet /\ Turned(fr, g)
  <2> HIDE DEF fr
  <2>1. g \in FrameSet
    BY <1>5 DEF FrameSet, Kinds, Compounds
  <2> QED BY <1>1, <1>5, <2>1 DEF FrameSet, Turned, SameNames
<1> HIDE DEF g, x
<1>9. Recasts(open, Len(open), fr, open', g)
  BY <1>1, <1>4, <1>8, SetTopIs
<1> HIDE DEF fr
<1>10. Body(ir', open', loops, nest')
  BY <1>1, <1>2, <1>4, <1>7, <1>8, <1>9, BodyElse
<1>11. came' \in SUBSET Nat
  BY <1>3, <1>6
<1> QED BY <1>1, <1>3, <1>4, <1>10, <1>11, Walked

\* Construct x, a match, in an arm or past it.
SameConstruct(x, y) == y \in NestSet /\ y.kind = x.kind /\ y.head = x.head /\ y.outs = x.outs
ArmLeft(x, y, S)    == y \in NestSet /\ y.kind = x.kind /\ y.head = x.head /\ y.outs = x.outs \cup S

\* The walk is in a new arm, os1 the frames around it and t the tests that lead there.
ArmSteps(f, os, ns, k, isWild, n, t, h, L, fr, g, os1, arm, ps, y, ms) ==
  /\ ArmIs(f, k, isWild, n, t, h) /\ Recasts(os, L, fr, os1, g) /\ Wilder(fr, g, isWild, n)
  /\ ArmFrame(arm, fr.end, t.cur) /\ Entered(os1, arm, ps)
  /\ Reset(ns, y, ms) /\ y.wild = (g.wild # 0) /\ SameConstruct(ns[Len(ns)], y)

LEMMA ArmOpens ==
  ASSUME IInv, NEW k \in 1 .. MaxLabels, NEW isWildcard \in BOOLEAN, ArmOpen(k, isWildcard)
  PROVE  /\ phase = "body" /\ phase' = phase /\ loops' = loops /\ depth' = depth
         /\ last' = last /\ edges' = edges /\ came' = {In.head} /\ In.head \in Nat
         /\ Body(ir, open, loops, nest) /\ k \in Nat \ {0}
         /\ \E n, t, L, fr, g, os1, arm, y :
              ArmSteps(ir, open, nest, k, isWildcard, n, t, ir', L, fr, g, os1, arm, open', y, nest')
<1> DEFINE L   == Len(open)
           fr  == open[L]
           n   == NBlocks(ir)
           t   == LabelTests(Fresh(ir, 1), n + 1, IF isWildcard THEN 0 ELSE k)
           g   == [fr EXCEPT !.wild = IF isWildcard THEN n + 1 ELSE @]
           os1 == [open EXCEPT ![L] = g]
           arm == [Frame("arm", FALSE) EXCEPT !.end = fr.end, !.resume = t.cur]
           x   == [In EXCEPT !.wild = @ \/ isWildcard]
<1>1. /\ phase = "body" /\ fr.kind = "match" /\ ir' = At(t, n + 1) /\ open' = Append(os1, arm)
      /\ loops' = loops /\ depth' = depth /\ phase' = phase
  BY DEF ArmOpen, SetTop, Top
<1>2. Reset(nest, x, nest') \/ x \notin NestSet
  BY DEF ArmOpen, IntoArm, SetIn, Reset
<1>3. last' = last /\ edges' = edges /\ came' = {In.head} /\ (isWildcard => ~In.wild)
  BY DEF ArmOpen, IntoArm
<1>4. Body(ir, open, loops, nest) /\ last \in Nat /\ depth = Len(loops)
  BY <1>1 DEF IInv
<1>5. fr \in FrameSet /\ n \in Nat /\ open \in Seq(FrameSet) /\ k \in Nat \ {0}
  BY <1>4, BodyIs, OpenIs, ControlFlowAssumption
<1>6. In \in NestSet /\ In.head \in Nat /\ In.wild = (fr.wild # 0)
  <2>1. fr.kind \in Compounds
    BY <1>1 DEF Compounds
  <2> QED BY <1>1, <1>4, <2>1, InIs DEF In
<1>7. ArmIs(ir, k, isWildcard, n, t, ir')
  BY <1>1 DEF ArmIs
<1>8. t.cur \in Nat
  <2>1. Sound(ir, Awaited(open)) /\ ~Terminated(ir)
    BY <1>1, <1>4 DEF Body
  <2>2. ArmReady(ir, Awaited(open), isWildcard, n, t, ir')
    <3> HIDE DEF t, n
    <3> QED BY <1>5, <1>7, <2>1, ArmBuilt
  <2>3. t.cur \in 1 .. NBlocks(ir') /\ Sound(ir', Awaited(open) \cup {t.cur})
    <3> HIDE DEF t, n
    <3> QED BY <2>2 DEF ArmReady
  <2> HIDE DEF t
  <2> QED BY <2>3
<1> HIDE DEF t, n
<1>9. g \in FrameSet /\ Wilder(fr, g, isWildcard, n)
  <2> HIDE DEF fr
  <2>1. g \in FrameSet
    <3> DEFINE w == IF isWildcard THEN n + 1 ELSE fr.wild
    <3>1. w \in Nat
      BY <1>5 DEF FrameSet
    <3> HIDE DEF w
    <3>2. [fr EXCEPT !.wild = w] \in FrameSet
      BY <1>5, <3>1 DEF FrameSet
    <3> QED BY <3>2 DEF w
  <2>2. isWildcard => fr.wild = 0
    BY <1>3, <1>6
  <2> QED BY <1>1, <1>5, <2>1, <2>2 DEF FrameSet, Wilder, MatchAlike, SameNames
<1>10. x \in NestSet /\ x.wild = (g.wild # 0) /\ SameConstruct(In, x)
  <2> DEFINE c == In
  <2>1. c \in NestSet /\ c.wild = (fr.wild # 0)
    BY <1>6
  <2> HIDE DEF c, g
  <2>2. /\ [c EXCEPT !.wild = @ \/ isWildcard] \in NestSet
        /\ [c EXCEPT !.wild = @ \/ isWildcard].wild = (c.wild \/ isWildcard)
        /\ SameConstruct(c, [c EXCEPT !.wild = @ \/ isWildcard])
    BY <2>1 DEF NestSet, SameConstruct
  <2>3. g.wild # 0 <=> c.wild \/ isWildcard
    <3>1. CASE isWildcard
      BY <1>5, <1>9, <3>1 DEF Wilder
    <3>2. CASE ~isWildcard
      BY <1>9, <2>1, <3>2 DEF Wilder
    <3> QED BY <3>1, <3>2
  <2>4. (c.wild \/ isWildcard) \in BOOLEAN
    OBVIOUS
  <2>5. (g.wild # 0) = (c.wild \/ isWildcard)
    BY <2>3, <2>4
  <2> QED BY <2>2, <2>5 DEF c
<1> HIDE DEF x, g, os1
<1>11. Recasts(open, L, fr, os1, g)
  BY <1>4, <1>9, SetTopIs DEF os1
<1>12. arm \in FrameSet /\ ArmFrame(arm, fr.end, t.cur)
  <2> DEFINE e == fr.end
             r == t.cur
  <2>1. e \in Nat /\ r \in Nat
    BY <1>5, <1>8 DEF FrameSet
  <2> HIDE DEF e, r
  <2>2. [Frame("arm", FALSE) EXCEPT !.end = e, !.resume = r] \in FrameSet
    BY <2>1 DEF Frame, FrameSet, Kinds, Arms
  <2>3. ArmFrame([Frame("arm", FALSE) EXCEPT !.end = e, !.resume = r], e, r)
    BY <2>2 DEF ArmFrame, Frame
  <2> QED BY <2>2, <2>3 DEF e, r
<1> HIDE DEF arm
<1>13. Entered(os1, arm, open')
  <2>1. os1 \in Seq(FrameSet)
    BY <1>11 DEF Recasts
  <2> QED BY <1>1, <1>12, <2>1, EnteredIs
<1>14. ArmSteps(ir, open, nest, k, isWildcard, n, t, ir', L, fr, g, os1, arm, open', x, nest')
  <2> HIDE DEF fr, L
  <2> QED BY <1>2, <1>7, <1>9, <1>10, <1>11, <1>12, <1>13 DEF ArmSteps, In
<1> HIDE DEF fr, L
<1> QED BY <1>1, <1>3, <1>4, <1>5, <1>6, <1>14

\* The walk is out of an arm, mt and g the frame of its match before and after.
ArmEnds(f, os, ns, cm, fr, bs, L, mt, g, h, ps, y, ms) ==
  /\ Left(os, fr, bs) /\ fr.kind = "arm_done" /\ Recasts(bs, L, mt, ps, g) /\ ArmedBy(mt, g, fr.div)
  /\ Reset(ns, y, ms) /\ y.wild = (g.wild # 0) /\ ArmLeft(ns[Len(ns)], y, cm)
  /\ Went(f, fr.end, fr.resume, h)

LEMMA ArmCloses ==
  ASSUME IInv, ArmClose
  PROVE  /\ phase = "body" /\ phase' = phase /\ loops' = loops /\ depth' = depth
         /\ last' = last /\ edges' = edges /\ came' = {} /\ Body(ir, open, loops, nest)
         /\ \E fr, bs, L, mt, g, y : ArmEnds(ir, open, nest, came, fr, bs, L, mt, g, ir', open', y, nest')
<1> DEFINE fr == open[Len(open)]
           bs == SubSeq(open, 1, Len(open) - 1)
           L  == Len(bs)
           mt == bs[L]
           g  == [mt EXCEPT !.div = @ /\ fr.div]
           x  == [In EXCEPT !.outs = @ \cup came]
<1>1. /\ phase = "body" /\ fr.kind = "arm_done" /\ open' = [bs EXCEPT ![L].div = @ /\ fr.div]
      /\ Went(ir, fr.end, fr.resume, ir') /\ loops' = loops /\ depth' = depth /\ phase' = phase
  BY DEF ArmClose, Top, Below, Went
<1>2. Reset(nest, x, nest') \/ x \notin NestSet
  BY DEF ArmClose, OutOfArm, SetIn, Reset
<1>3. last' = last /\ edges' = edges /\ came' = {}
  BY DEF ArmClose, OutOfArm
<1>4. Body(ir, open, loops, nest) /\ last \in Nat /\ came \in SUBSET Nat /\ depth = Len(loops)
  BY <1>1 DEF IInv
<1>5. Left(open, fr, bs) /\ fr.kind \in Closes
  BY <1>1 DEF Left, Closes
<1>6. Frames(open, NBlocks(ir), loops, nest) /\ NBlocks(ir) \in Nat
  BY <1>4, BodyIs DEF Body
<1>7. /\ Frames(bs, NBlocks(ir), loops, nest) /\ mt.kind = "match"
  <2> HIDE DEF fr, bs
  <2>1. LoopsOut(fr, loops, loops) /\ NestsOut(fr, nest, nest)
    BY <1>1 DEF LoopsOut, NestsOut
  <2>2. Outside(open, fr, NBlocks(ir), bs, loops, nest)
    BY <1>5, <1>6, <2>1, PopFrames
  <2> QED BY <1>1, <2>2 DEF Outside
<1> HIDE DEF fr, bs
<1>8. bs \in Seq(FrameSet) /\ L \in Nat \ {0} /\ mt \in FrameSet
  BY <1>7, ShapeIs DEF Frames
<1>9. fr \in FrameSet
  BY <1>4, BodyIs DEF fr
<1>10. In \in NestSet /\ In.wild = (mt.wild # 0)
  <2>1. mt.kind \in Compounds /\ Nests(bs, nest)
    BY <1>7 DEF Compounds, Frames
  <2> QED BY <1>7, <1>8, <2>1, NestsLast DEF In
<1> HIDE DEF mt
<1>11. g \in FrameSet /\ ArmedBy(mt, g, fr.div) /\ g.wild = mt.wild
  <2>1. g \in FrameSet
    BY <1>8, <1>9 DEF FrameSet
  <2> QED BY <1>7, <1>8, <1>9, <2>1 DEF FrameSet, ArmedBy, MatchAlike, SameNames
<1>12. x \in NestSet /\ x.wild = (g.wild # 0) /\ ArmLeft(In, x, came)
  <2> DEFINE c == In
  <2>1. c \in NestSet /\ c.wild = (mt.wild # 0)
    BY <1>10
  <2> HIDE DEF c, g
  <2>2. /\ [c EXCEPT !.outs = @ \cup came] \in NestSet
        /\ [c EXCEPT !.outs = @ \cup came].wild = c.wild
        /\ ArmLeft(c, [c EXCEPT !.outs = @ \cup came], came)
    BY <1>4, <2>1 DEF NestSet, ArmLeft
  <2> QED BY <1>11, <2>1, <2>2 DEF c
<1> HIDE DEF x
<1>13. Recasts(bs, L, mt, open', g)
  <2>1. open' = [bs EXCEPT ![L] = g]
    BY <1>1, <1>8 DEF mt
  <2> HIDE DEF g
  <2>2. Recasts(bs, L, bs[L], [bs EXCEPT ![L] = g], g)
    BY <1>8, <1>11, RecastsIs
  <2> QED BY <2>1, <2>2 DEF mt
<1> HIDE DEF g, L
<1>14. ArmEnds(ir, open, nest, came, fr, bs, L, mt, g, ir', open', x, nest')
  BY <1>1, <1>2, <1>5, <1>11, <1>12, <1>13 DEF ArmEnds, In
<1> QED BY <1>1, <1>3, <1>4, <1>14

LEMMA ArmOpenKeeps ==
  ASSUME IInv, NEW k \in 1 .. MaxLabels, NEW isWildcard \in BOOLEAN, ArmOpen(k, isWildcard)
  PROVE  IInv'
<1>1. /\ phase = "body" /\ phase' = phase /\ loops' = loops /\ depth' = depth
      /\ last' = last /\ came' = {In.head} /\ In.head \in Nat
      /\ Body(ir, open, loops, nest) /\ k \in Nat \ {0}
  BY ArmOpens
<1>2. PICK n, t, L, fr, g, os1, arm, y :
        ArmSteps(ir, open, nest, k, isWildcard, n, t, ir', L, fr, g, os1, arm, open', y, nest')
  BY ArmOpens
<1>3. Body(ir', open', loops, nest')
  BY <1>1, <1>2, BodyArm DEF ArmSteps
<1>4. last \in Nat /\ depth = Len(loops) /\ came' \in SUBSET Nat
  BY <1>1 DEF IInv
<1> QED BY <1>1, <1>3, <1>4, Walked

LEMMA ArmCloseKeeps ==
  ASSUME IInv, ArmClose
  PROVE  IInv'
<1>1. /\ phase = "body" /\ phase' = phase /\ loops' = loops /\ depth' = depth
      /\ last' = last /\ came' = {} /\ Body(ir, open, loops, nest)
  BY ArmCloses
<1>2. PICK fr, bs, L, mt, g, y : ArmEnds(ir, open, nest, came, fr, bs, L, mt, g, ir', open', y, nest')
  BY ArmCloses
<1>3. Body(ir', open', loops, nest')
  BY <1>1, <1>2, BodyArmEnd DEF ArmEnds
<1>4. last \in Nat /\ depth = Len(loops) /\ came' \in SUBSET Nat
  BY <1>1 DEF IInv
<1> QED BY <1>1, <1>3, <1>4, Walked

LEMMA FnEndKeeps ==
  ASSUME IInv, NEW isVoid \in BOOLEAN, FnEnd(isVoid)
  PROVE  IInv'
<1>1. /\ phase = "body" /\ open[Len(open)].kind = "fn"
      /\ phase' = Verdict(open[Len(open)], isVoid) /\ LastIs(ir, isVoid, ir')
      /\ loops' = loops /\ depth' = depth /\ open' = open
      /\ last' = last /\ came' = came
  BY DEF FnEnd, Top, Verdict, LastIs, flowVars
<1>2. Body(ir, open, loops, nest) /\ last \in Nat /\ came \in SUBSET Nat /\ depth = Len(loops)
  BY <1>1 DEF IInv
<1>3. Done(ir', open, phase')
  BY <1>1, <1>2, BodyEnds
<1>4. phase' \in {"accepted", "missing_return"}
  BY <1>1 DEF Verdict
<1> QED BY <1>1, <1>2, <1>3, <1>4 DEF IInv, Complete

\* Where it starts: in the entry block, with the parameters' slots.
LEMMA InitHolds ==
  ASSUME Init
  PROVE  IInv
<1> DEFINE in == Instr(0)
           is == <<in>>
           bl == <<is>>
           f  == [blocks |-> bl, cur |-> 1]
           fr == Frame("fn", FALSE)
           os == <<fr>>
<1>1. /\ phase = "body" /\ ir = f /\ loops = <<>> /\ depth = 0 /\ open = os
      /\ last = 0 /\ came = {0} /\ nest = <<>>
  BY DEF Init, FlowInit
<1>2. /\ fr \in FrameSet /\ fr.kind = "fn" /\ ~fr.div /\ fr.end = 0 /\ fr.alt = 0 /\ fr.wild = 0
      /\ fr.resume = 0
  <2>1. fr \in FrameSet
    BY DEF Frame, FrameSet, Kinds
  <2> QED BY <2>1 DEF Frame
<1>3. in \in Ins /\ in.op = "code" /\ in.to = <<>>
  BY DEF Instr, Ins
<1> HIDE DEF in, fr
<1>4. is \in Seq(Ins) /\ Len(is) = 1 /\ is[1] = in
  BY <1>3
<1> HIDE DEF is
<1>5. bl \in Seq(Seq(Ins)) /\ Len(bl) = 1 /\ bl[1] = is
  BY <1>4
<1> HIDE DEF bl
<1>6. f \in IR /\ f.cur = 1 /\ NBlocks(f) = 1 /\ f.blocks = bl
  BY <1>5 DEF IR, NBlocks
<1>7. os \in Seq(FrameSet) /\ Len(os) = 1 /\ os[1] = fr
  BY <1>2
<1> HIDE DEF f, os
<1>8. Awaited(os) = {}
  <2>1. Awaits(fr) = {}
    BY <1>2 DEF Awaits, Compounds, Arms
  <2>2. \A d \in 1 .. Len(os) : os[d] = fr
    BY <1>7
  <2> QED BY <2>1, <2>2 DEF Awaited
<1>9. Targets(is) = {} /\ ~Ended(is) /\ GoodBlock(is, 1)
  <2>1. Targets(is) = {}
    <3>1. is # <<>>
      BY <1>4
    <3>2. is[Len(is)] = in
      BY <1>4
    <3>3. is[Len(is)].to = <<>>
      BY <1>3, <3>2
    <3> QED BY <3>1, <3>3 DEF Targets
  <2>2. ~Ended(is)
    BY <1>3, <1>4 DEF Ended, Terminators
  <2>3. \A j \in 1 .. Len(is) : is[j] = in
    BY <1>4
  <2> QED BY <1>3, <2>1, <2>2, <2>3 DEF GoodBlock, Terminators
<1>10. Sound(f, {})
  BY <1>5, <1>6, <1>9 DEF Sound
<1>11. Frames(os, 1, <<>>, <<>>)
  <2>1. Shape(os, 1)
    <3>1. GoodFrame(fr, 1)
      BY <1>2 DEF GoodFrame, Compounds, Arms
    <3>2. \A d \in 1 .. Len(os) : os[d] = fr /\ d = 1
      BY <1>7
    <3>3. 1 .. Len(os) - 1 = {}
      BY <1>7
    <3> QED BY <1>2, <1>7, <3>1, <3>2, <3>3 DEF Shape
  <2>2. Apart(os)
    BY <1>7 DEF Apart
  <2> DEFINE w == [i \in 1 .. 0 |-> 1]
  <2>3. \A K : fr.kind \notin K => Marked(os, Len(os), K, 0, w)
    <3>1. 1 .. 0 = {} /\ w \in [1 .. 0 -> 1 .. Len(os)]
      OBVIOUS
    <3>2. \A d \in 1 .. Len(os) : os[d] = fr
      BY <1>7
    <3> HIDE DEF w
    <3> QED BY <3>1, <3>2 DEF Marked
  <2> HIDE DEF w
  <2>4. fr.kind \notin {"while"} /\ fr.kind \notin Compounds
    BY <1>2 DEF Compounds
  <2>5. Marked(os, Len(os), {"while"}, 0, w) /\ Marked(os, Len(os), Compounds, 0, w)
    BY <2>3, <2>4
  <2>6. LoopFrames(os, <<>>)
    <3>1. <<>> \in Seq(LoopSet) /\ Len(<<>>) = 0 /\ 1 .. 0 = {}
      OBVIOUS
    <3> QED BY <2>5, <3>1 DEF LoopFrames
  <2>7. Nests(os, <<>>)
    <3>1. <<>> \in Seq(NestSet) /\ Len(<<>>) = 0 /\ 1 .. 0 = {}
      OBVIOUS
    <3> QED BY <2>5, <3>1 DEF Nests
  <2> QED BY <2>1, <2>2, <2>6, <2>7 DEF Frames
<1>12. FlowAt(f, os)
  <2>1. Detours(os, f.cur) = {}
    <3>1. InnerTo(os, Len(os)) = {}
      <4>1. 1 .. Len(os) - 1 = {}
        BY <1>7
      <4> QED BY <4>1 DEF InnerTo
    <3>2. WildOf(os[Len(os)]) = 0
      BY <1>2, <1>7 DEF WildOf
    <3> QED BY <3>1, <3>2 DEF Detours, With
  <2>2. 1 \in Rch(f, {})
    <3>1. {} \in Ways(NBlocks(f))
      BY DEF Ways
    <3> QED BY <1>10, <3>1, RchIs
  <2>3. ~Terminated(f)
    BY <1>5, <1>6, <1>9, TerminatedIs
  <2>4. Live(os)
    <3>1. 1 .. Len(os) - 1 = {} /\ os[Len(os)] = fr
      BY <1>7
    <3> QED BY <1>2, <3>1 DEF Live, Alive
  <2>5. \A R : FlowAll(os, Len(os), R)
    <3>1. \A d \in 1 .. Len(os) : os[d] = fr
      BY <1>7
    <3>2. \A a, R : FrameFlow(fr, a, R)
      BY <1>2 DEF FrameFlow, Arms
    <3> QED BY <3>1, <3>2 DEF FlowAll
  <2> QED BY <1>6, <2>1, <2>2, <2>3, <2>4, <2>5 DEF FlowAt
<1>13. Body(f, os, <<>>, <<>>)
  <2>1. os[Len(os)].kind # "match"
    BY <1>2, <1>7
  <2> QED BY <1>6, <1>8, <1>10, <1>11, <1>12, <2>1 DEF Body
<1>14. Len(loops) = 0
  BY <1>1
<1> QED BY <1>1, <1>13, <1>14 DEF IInv, Complete

\* A step keeps the invariant; the system is over where a verdict is.
LEMMA StepKeeps ==
  ASSUME IInv, [Next]_vars
  PROVE  IInv'
<1>1. CASE UNCHANGED vars
  BY <1>1 DEF vars, flowVars, IInv, Complete
<1>2. ASSUME NEW shape \in Shapes, Simple(shape) PROVE IInv'
  BY <1>2, SimpleKeeps
<1>3. CASE Empty
  BY <1>3, EmptyKeeps
<1>4. ASSUME NEW shape \in Shapes, Return(shape) PROVE IInv'
  BY <1>4, ReturnKeeps
<1>5. CASE StrayJump
  BY <1>5, StrayJumpKeeps
<1>6. CASE Break
  BY <1>6, BreakKeeps
<1>7. CASE Continue
  BY <1>7, ContinueKeeps
<1>8. CASE BlockOpen
  BY <1>8, BlockOpenKeeps
<1>9. CASE BlockClose
  BY <1>9, BlockCloseKeeps
<1>10. ASSUME NEW shape \in Shapes, NEW hasElse \in BOOLEAN, IfOpen(shape, hasElse) PROVE IInv'
  BY <1>10, IfOpenKeeps
<1>11. CASE IfClose
  BY <1>11, IfCloseKeeps
<1>12. CASE ElseOpen
  BY <1>12, ElseOpenKeeps
<1>13. CASE ElseClose
  BY <1>13, ElseCloseKeeps
<1>14. ASSUME NEW shape \in Shapes, WhileOpen(shape) PROVE IInv'
  BY <1>14, WhileOpenKeeps
<1>15. CASE WhileClose
  BY <1>15, WhileCloseKeeps
<1>16. ASSUME NEW shape \in Shapes, MatchOpen(shape) PROVE IInv'
  BY <1>16, MatchOpenKeeps
<1>17. ASSUME NEW n \in 1 .. MaxLabels, NEW isWildcard \in BOOLEAN, ArmOpen(n, isWildcard)
       PROVE  IInv'
  BY <1>17, ArmOpenKeeps
<1>18. CASE ArmClose
  BY <1>18, ArmCloseKeeps
<1>19. CASE MatchClose
  BY <1>19, MatchCloseKeeps
<1>20. ASSUME NEW isVoid \in BOOLEAN, FnEnd(isVoid) PROVE IInv'
  BY <1>20, FnEndKeeps
<1> QED BY <1>1, <1>2, <1>3, <1>4, <1>5, <1>6, <1>7, <1>8, <1>9, <1>10, <1>11, <1>12, <1>13,
           <1>14, <1>15, <1>16, <1>17, <1>18, <1>19, <1>20 DEF Next

-----------------------------------------------------------------------------
(* What it says of the body *)

LEMMA Framed ==
  ASSUME IInv
  PROVE  ir.cur \in 1 .. NBlocks(ir) /\ NBlocks(ir) \in Nat \ {0} /\ Shape(open, NBlocks(ir))
<1>1. CASE phase \in {"body", "stray_jump"}
  BY <1>1, BodyIs DEF IInv
<1>2. CASE phase \in {"accepted", "missing_return"}
  BY <1>2 DEF IInv, Complete, Done
<1> QED BY <1>1, <1>2 DEF IInv

LEMMA Typed ==
  ASSUME IInv
  PROVE  TypeOK
<1> DEFINE n == NBlocks(ir)
<1>1. ir.cur \in 1 .. n /\ n \in Nat \ {0} /\ Shape(open, n)
  BY Framed
<1>2. open \in Seq(FrameSet) /\ DOMAIN open = 1 .. Len(open)
  BY <1>1 DEF Shape
<1>3. ASSUME NEW d \in DOMAIN open, NEW b \in {open[d].end, open[d].alt, open[d].wild, open[d].resume}
      PROVE  b \in 1 .. n \cup {0}
  <2>1. GoodFrame(open[d], n) /\ open[d] \in FrameSet
    BY <1>1, <1>2, <1>3 DEF Shape
  <2>2. b \in Nat /\ b <= n
    BY <1>3, <2>1 DEF GoodFrame, FrameSet
  <2> QED BY <1>1, <2>2
<1> QED BY <1>1, <1>3 DEF IInv, TypeOK, BlockIds

LEMMA BlocksAre ==
  ASSUME IInv, Complete
  PROVE  /\ Done(ir, open, phase) /\ NBlocks(ir) \in Nat \ {0}
         /\ \A b \in 1 .. NBlocks(ir) :
              /\ ir.blocks[b] \in Seq(Ins) /\ DOMAIN ir.blocks[b] = 1 .. Len(ir.blocks[b])
              /\ ir.blocks[b] # <<>>
<1>1. Done(ir, open, phase) /\ ir \in IR /\ Verified(ir)
  BY DEF IInv, Done
<1>2. \A b \in 1 .. NBlocks(ir) : ir.blocks[b] \in Seq(Ins)
  BY <1>1 DEF IR, NBlocks
<1>3. \A b \in 1 .. NBlocks(ir) : DOMAIN ir.blocks[b] = 1 .. Len(ir.blocks[b])
  BY <1>2
<1> QED BY <1>1, <1>2, <1>3 DEF Done, Verified

LEMMA BlocksVerified ==
  ASSUME IInv
  PROVE  BlocksVerify
<1> SUFFICES ASSUME Complete, NEW b \in BlockIds
             PROVE  LET is == ir.blocks[b]
                    IN /\ is # <<>>
                       /\ \A j \in DOMAIN is : is[j].op \in Terminators <=> j = Len(is)
                       /\ Leaving(b) \subseteq BlockIds
  BY DEF BlocksVerify
<1>1. b \in 1 .. NBlocks(ir)
  BY DEF BlockIds
<1>2. Verified(ir) /\ DOMAIN ir.blocks[b] = 1 .. Len(ir.blocks[b])
  BY <1>1, BlocksAre DEF Done
<1>3. /\ ir.blocks[b] # <<>>
      /\ \A j \in 1 .. Len(ir.blocks[b]) :
           ir.blocks[b][j].op \in Terminators <=> j = Len(ir.blocks[b])
      /\ Targets(ir.blocks[b]) \subseteq 1 .. NBlocks(ir)
  BY <1>1, <1>2 DEF Verified
<1>4. Leaving(b) = Targets(ir.blocks[b])
  BY <1>3 DEF Leaving, Targets
<1> QED BY <1>2, <1>3, <1>4 DEF BlockIds

LEMMA EndIs ==
  ASSUME IInv, Complete
  PROVE  EndUnreached <=> \A b \in Rch(ir, {}) : ~Falls(ir, b)
<1>1. /\ Done(ir, open, phase) /\ NBlocks(ir) \in Nat \ {0}
      /\ \A b \in 1 .. NBlocks(ir) :
           DOMAIN ir.blocks[b] = 1 .. Len(ir.blocks[b]) /\ ir.blocks[b] # <<>>
  BY BlocksAre
<1>2. Succ(ir, {}) \in [1 .. NBlocks(ir) -> SUBSET (1 .. NBlocks(ir))]
  BY <1>1 DEF Done
<1>3. Reach({1}, BlockIds) = Rch(ir, {})
  BY <1>1, <1>2, ReachIs
<1>4. Rch(ir, {}) \in SUBSET (1 .. NBlocks(ir))
  BY <1>1, <1>2, ReachedClosed DEF Rch
<1>5. \A b \in Rch(ir, {}) : Falls(ir, b) <=> \E j \in DOMAIN ir.blocks[b] : ir.blocks[b][j].op = "unreachable"
  BY <1>1, <1>4 DEF Falls
<1>6. EndUnreached <=> \A b \in Rch(ir, {}) : \A j \in DOMAIN ir.blocks[b] : ir.blocks[b][j].op # "unreachable"
  BY <1>3 DEF EndUnreached
<1> QED BY <1>5, <1>6

\* The frames and the cursor name blocks there are, and sema counts the loops
\* lowering is in: the walk of any body, however long and however it is nested.
THEOREM TypeSafe == Spec => []TypeOK
<1>1. Init => IInv
  BY InitHolds
<1>2. IInv /\ [Next]_vars => IInv'
  BY StepKeeps
<1>3. IInv => TypeOK
  BY Typed
<1> QED BY <1>1, <1>2, <1>3, PTL DEF Spec

\* Every body that is finished is one ir_verify accepts: each block ends in its
\* one terminator, whatever was written after a return, a break or an arm that
\* left, and every jump stays in the function.
THEOREM BlocksAlwaysVerify == Spec => []BlocksVerify
<1>1. Init => IInv
  BY InitHolds
<1>2. IInv /\ [Next]_vars => IInv'
  BY StepKeeps
<1>3. IInv => BlocksVerify
  BY BlocksVerified
<1> QED BY <1>1, <1>2, <1>3, PTL DEF Spec

\* What sema accepts as returning on every path does: no block that falls off
\* the end of the body is reached from the entry.
THEOREM NeverFallsOff == Spec => []NoFallOff
<1>1. Init => IInv
  BY InitHolds
<1>2. IInv /\ [Next]_vars => IInv'
  BY StepKeeps
<1>3. IInv => NoFallOff
  BY EndIs DEF NoFallOff, IInv, Complete, Done
<1> QED BY <1>1, <1>2, <1>3, PTL DEF Spec

\* And where it reports a missing return there is a path that falls off.
THEOREM BlameIsFair == Spec => []BlamesRealPaths
<1>1. Init => IInv
  BY InitHolds
<1>2. IInv /\ [Next]_vars => IInv'
  BY StepKeeps
<1>3. IInv => BlamesRealPaths
  BY EndIs DEF BlamesRealPaths, IInv, Complete, Done
<1> QED BY <1>1, <1>2, <1>3, PTL DEF Spec

-----------------------------------------------------------------------------
(* What is said of the open statements                                     *)
(*                                                                         *)
(* G[d] are the constructs that frame d may stand for.                     *)

TellsOf(os, ns, G, w) ==
  /\ Marked(os, Len(os), Compounds, Len(ns), w)
  /\ \A i \in 1 .. Len(ns) : ns[i] \in G[w[i]]
Told(os, ns, G) == ns \in Seq(NestSet) /\ \E w : TellsOf(os, ns, G, w)

\* The frames but k may stand for what they did.
Retold(os, G, H, k) == \A d \in 1 .. Len(os) : os[d].kind \in Compounds /\ d # k => G[d] \subseteq H[d]

LEMMA MarkIs ==
  ASSUME NEW os, NEW ns, NEW G, NEW w, TellsOf(os, ns, G, w), NEW i \in 1 .. Len(ns)
  PROVE  w[i] \in 1 .. Len(os) /\ os[w[i]].kind \in Compounds /\ ns[i] \in G[w[i]]
<1>1. w[i] \in 1 .. Len(os)
  BY DEF TellsOf, Marked
<1> QED BY <1>1 DEF TellsOf, Marked

LEMMA ToldStay ==
  ASSUME NEW os, NEW ps, NEW ns, NEW G, NEW H, Told(os, ns, G), Retold(os, G, H, 0),
         Len(os) \in Nat,
         \A w : Marked(os, Len(os), Compounds, Len(ns), w) => Marked(ps, Len(ps), Compounds, Len(ns), w)
  PROVE  Told(ps, ns, H)
<1>1. PICK w : TellsOf(os, ns, G, w)
  BY DEF Told
<1>2. ASSUME NEW i \in 1 .. Len(ns) PROVE ns[i] \in H[w[i]]
  <2>1. w[i] \in 1 .. Len(os) /\ os[w[i]].kind \in Compounds /\ ns[i] \in G[w[i]]
    BY <1>1, MarkIs
  <2>2. w[i] # 0
    BY <2>1
  <2> QED BY <2>1, <2>2 DEF Retold
<1>3. Marked(ps, Len(ps), Compounds, Len(ns), w)
  BY <1>1 DEF TellsOf
<1> QED BY <1>2, <1>3 DEF Told, TellsOf

LEMMA ToldPush ==
  ASSUME NEW os, NEW ps, Len(os) \in Nat, Len(ps) = Len(os) + 1, NEW ns, NEW G, NEW H,
         Told(os, ns, G), Retold(os, G, H, 0),
         \A d \in 1 .. Len(os) : ps[d] = os[d],
         NEW x \in NestSet, ps[Len(ps)].kind \in Compounds, x \in H[Len(ps)]
  PROVE  Told(ps, Append(ns, x), H)
<1>1. PICK w : TellsOf(os, ns, G, w)
  BY DEF Told
<1> DEFINE n == Len(ns)
           ms == Append(ns, x)
<1>2. ns \in Seq(NestSet) /\ n \in Nat
  BY DEF Told
<1>3. /\ ms \in Seq(NestSet) /\ Len(ms) = n + 1 /\ ms[n + 1] = x
      /\ \A i \in 1 .. n : ms[i] = ns[i]
  BY <1>2
<1> HIDE DEF n, ms
<1>4. PICK v : /\ Marked(ps, Len(ps), Compounds, n + 1, v) /\ v[n + 1] = Len(ps)
               /\ \A i \in 1 .. n : v[i] = w[i]
  <2> DEFINE L == Len(os)
  <2> DEFINE K == Compounds
  <2>1. Marked(os, L, K, n, w) /\ ps[L + 1].kind \in K /\ L \in Nat /\ Len(ps) = L + 1
    BY <1>1 DEF n, TellsOf
  <2>2. \A d \in 1 .. L : ps[d].kind \in K <=> os[d].kind \in K
    OBVIOUS
  <2> HIDE DEF K, L
  <2>3. \E v : Marked(ps, L + 1, K, n + 1, v) /\ Longer(v, w, n, L + 1)
    BY <1>2, <2>1, <2>2, MarkedPush
  <2> QED BY <2>1, <2>3 DEF K, Longer, Agrees
<1>5. \A i \in 1 .. n + 1 : i \in 1 .. n \/ i = n + 1
  BY <1>2
<1>6. ASSUME NEW i \in 1 .. n PROVE ns[i] \in H[w[i]]
  <2>1. w[i] \in 1 .. Len(os) /\ os[w[i]].kind \in Compounds /\ ns[i] \in G[w[i]]
    BY <1>1, MarkIs DEF n
  <2>2. w[i] # 0
    BY <2>1
  <2> QED BY <2>1, <2>2 DEF Retold
<1>7. \A i \in 1 .. n + 1 : ms[i] \in H[v[i]]
  BY <1>3, <1>4, <1>5, <1>6
<1>8. Told(ps, ms, H)
  BY <1>3, <1>4, <1>7 DEF Told, TellsOf
<1> QED BY <1>8 DEF ms

LEMMA ToldPop ==
  ASSUME NEW os, NEW ps, Len(os) \in Nat \ {0}, Len(ps) = Len(os) - 1, NEW ns, NEW G, NEW H,
         Told(os, ns, G), Retold(os, G, H, Len(os)),
         \A d \in 1 .. Len(os) - 1 : ps[d] = os[d], os[Len(os)].kind \in Compounds
  PROVE  Told(ps, SubSeq(ns, 1, Len(ns) - 1), H)
<1>1. PICK w : TellsOf(os, ns, G, w)
  BY DEF Told
<1> DEFINE n == Len(ns)
           ms == SubSeq(ns, 1, Len(ns) - 1)
<1>2. ns \in Seq(NestSet) /\ n \in Nat
  BY DEF Told
<1>3. n # 0 /\ \E v : Marked(ps, Len(ps), Compounds, n - 1, v) /\ \A i \in 1 .. n - 1 : v[i] = w[i]
  <2> DEFINE K == Compounds
  <2> DEFINE L == Len(os)
  <2>1. Marked(os, L, K, n, w) /\ os[L].kind \in K /\ L \in Nat \ {0} /\ Len(ps) = L - 1
    BY <1>1 DEF TellsOf
  <2>2. \A d \in 1 .. L - 1 : ps[d].kind \in K <=> os[d].kind \in K
    OBVIOUS
  <2> HIDE DEF K, n, L
  <2>3. n # 0 /\ \E v : Marked(ps, L - 1, K, n - 1, v) /\ Agrees(v, w, n - 1)
    BY <1>2, <2>1, <2>2, MarkedPop
  <2> QED BY <2>1, <2>3 DEF K, Agrees
<1>4. /\ ms \in Seq(NestSet) /\ Len(ms) = n - 1
      /\ \A i \in 1 .. n - 1 : ms[i] = ns[i]
  <2>1. Len(ns) > 0
    BY <1>2, <1>3
  <2> HIDE DEF n
  <2> QED BY <1>2, <2>1, Popped DEF n
<1> HIDE DEF n, ms
<1>5. PICK v : Marked(ps, Len(ps), Compounds, n - 1, v) /\ \A i \in 1 .. n - 1 : v[i] = w[i]
  BY <1>3
<1>6. ASSUME NEW i \in 1 .. n - 1 PROVE ms[i] \in H[v[i]]
  <2>1. i \in 1 .. n
    BY <1>2
  <2>2. v[i] \in 1 .. Len(os) - 1 /\ v[i] = w[i]
    BY <1>5 DEF Marked
  <2>3. os[w[i]].kind \in Compounds /\ ns[i] \in G[w[i]] /\ w[i] \in 1 .. Len(os)
    BY <1>1, <2>1, MarkIs DEF n
  <2>4. w[i] # Len(os)
    BY <2>2
  <2>5. G[w[i]] \subseteq H[w[i]]
    BY <2>3, <2>4 DEF Retold
  <2> QED BY <1>4, <2>2, <2>3, <2>5
<1>7. Told(ps, ms, H)
  BY <1>4, <1>5, <1>6 DEF Told, TellsOf
<1> QED BY <1>7 DEF ms

\* One construct changes, and its frame with it.
LEMMA ToldOne ==
  ASSUME NEW os, NEW ps, NEW ns \in Seq(NestSet), NEW G, NEW H, NEW w, TellsOf(os, ns, G, w),
         Marked(ps, Len(ps), Compounds, Len(ns), w),
         NEW i0 \in 1 .. Len(ns), NEW x \in NestSet, x \in H[w[i0]], Retold(os, G, H, w[i0])
  PROVE  Told(ps, [ns EXCEPT ![i0] = x], H)
<1> DEFINE ms == [ns EXCEPT ![i0] = x]
<1>1. /\ ms \in Seq(NestSet) /\ Len(ms) = Len(ns) /\ ms[i0] = x
      /\ \A i \in 1 .. Len(ns) : i # i0 => ms[i] = ns[i]
  BY Replaced
<1> HIDE DEF ms
<1>2. ASSUME NEW i \in 1 .. Len(ns), i # i0 PROVE ns[i] \in H[w[i]]
  <2>1. w[i] \in 1 .. Len(os) /\ os[w[i]].kind \in Compounds /\ ns[i] \in G[w[i]]
    BY <1>1, MarkIs
  <2>2. w[i] # w[i0]
    <3>1. i < i0 \/ i0 < i
      BY <1>2
    <3>2. (i < i0 => w[i] < w[i0]) /\ (i0 < i => w[i0] < w[i])
      BY DEF TellsOf, Marked
    <3>3. w[i] \in Int /\ w[i0] \in Int
      <4>1. w[i] \in 1 .. Len(os) /\ w[i0] \in 1 .. Len(os)
        BY MarkIs
      <4> QED BY <4>1
    <3> QED BY <3>1, <3>2, <3>3
  <2> QED BY <2>1, <2>2 DEF Retold
<1>3. \A i \in 1 .. Len(ms) : ms[i] \in H[w[i]]
  BY <1>1, <1>2
<1>4. Told(ps, ms, H)
  BY <1>1, <1>3 DEF Told, TellsOf
<1> QED BY <1>4 DEF ms

\* The last construct is that of the last frame.
LEMMA ToldTop ==
  ASSUME NEW os, Len(os) \in Nat \ {0}, NEW ns, NEW G, Told(os, ns, G), os[Len(os)].kind \in Compounds
  PROVE  /\ Len(ns) \in 1 .. Len(ns) /\ ns[Len(ns)] \in NestSet /\ ns[Len(ns)] \in G[Len(os)]
         /\ \A w : TellsOf(os, ns, G, w) => w[Len(ns)] = Len(os)
<1> DEFINE L == Len(os)
           m == Len(ns)
<1>1. PICK v : TellsOf(os, ns, G, v)
  BY DEF Told
<1>2. ns \in Seq(NestSet) /\ m \in Nat /\ L \in Nat \ {0} /\ L \in 1 .. L
  BY DEF Told
<1>3. m \in 1 .. m
  <2>1. \E i \in 1 .. m : v[i] = L
    BY <1>1, <1>2 DEF Marked, TellsOf
  <2> QED BY <1>2, <2>1
<1>4. ASSUME NEW w, TellsOf(os, ns, G, w) PROVE w[m] = L
  <2>1. /\ w \in [1 .. m -> 1 .. L] /\ \A i, j \in 1 .. m : i < j => w[i] < w[j]
        /\ \E i \in 1 .. m : w[i] = L
    BY <1>2, <1>4 DEF Marked, TellsOf
  <2>2. PICK k \in 1 .. m : w[k] = L
    BY <2>1
  <2>3. k # m => k < m
    BY <1>2
  <2>4. w[m] \in 1 .. L /\ (k # m => w[k] < w[m])
    BY <1>3, <2>1, <2>3
  <2> QED BY <1>2, <2>2, <2>4
<1>5. v[m] = L /\ ns[m] \in NestSet /\ ns[m] \in G[L]
  BY <1>1, <1>2, <1>3, <1>4 DEF TellsOf
<1> QED BY <1>1, <1>3, <1>4, <1>5

LEMMA ToldSet ==
  ASSUME NEW os, Len(os) \in Nat \ {0}, NEW ps, NEW ns, NEW G, NEW H, Told(os, ns, G),
         os[Len(os)].kind \in Compounds, Retold(os, G, H, Len(os)),
         \A w : Marked(os, Len(os), Compounds, Len(ns), w) => Marked(ps, Len(ps), Compounds, Len(ns), w),
         NEW m, m = Len(ns), NEW x \in NestSet, x \in H[Len(os)]
  PROVE  Told(ps, [ns EXCEPT ![m] = x], H)
<1>1. PICK w : TellsOf(os, ns, G, w)
  BY DEF Told
<1>2. m \in 1 .. Len(ns) /\ w[m] = Len(os) /\ ns \in Seq(NestSet)
  BY <1>1, ToldTop DEF Told
<1>3. Marked(ps, Len(ps), Compounds, Len(ns), w)
  BY <1>1 DEF TellsOf
<1>4. x \in H[w[m]] /\ Retold(os, G, H, w[m])
  BY <1>2
<1> QED BY <1>1, <1>2, <1>3, <1>4, ToldOne

\* The innermost loop, of the constructs and of the frames.
LoopIn(os, dd) ==
  /\ dd \in 1 .. Len(os) /\ os[dd].kind = "while"
  /\ \A e \in 1 .. Len(os) : os[e].kind = "while" => e <= dd
IsInner(ns, j) ==
  LET S == {d \in DOMAIN ns : ns[d].kind = "while"} IN j = CHOOSE d \in S : \A e \in S : e <= d

LEMMA ToldInner ==
  ASSUME NEW os, Len(os) \in Nat, NEW ns, NEW G, Told(os, ns, G), NEW dd, LoopIn(os, dd),
         \A d \in 1 .. Len(os) : os[d].kind \in Compounds =>
           \A y \in G[d] : y.kind = "while" <=> os[d].kind = "while",
         NEW j, IsInner(ns, j)
  PROVE  /\ j \in 1 .. Len(ns) /\ ns[j] \in NestSet /\ ns[j] \in G[dd]
         /\ \A w : TellsOf(os, ns, G, w) => w[j] = dd
<1>1. PICK w : TellsOf(os, ns, G, w)
  BY DEF Told
<1> DEFINE S == {d \in DOMAIN ns : ns[d].kind = "while"}
<1>2. ns \in Seq(NestSet) /\ DOMAIN ns = 1 .. Len(ns) /\ Len(ns) \in Nat
  BY DEF Told
<1>3. ASSUME NEW v, TellsOf(os, ns, G, v)
      PROVE  v[j] = dd /\ j \in 1 .. Len(ns)
  <2>1. ASSUME NEW i \in 1 .. Len(ns) PROVE i \in S <=> os[v[i]].kind = "while"
    <3>1. v[i] \in 1 .. Len(os) /\ os[v[i]].kind \in Compounds /\ ns[i] \in G[v[i]]
      BY <1>3, MarkIs
    <3> QED BY <1>2, <3>1
  <2>2. PICK i0 \in 1 .. Len(ns) : v[i0] = dd
    <3>1. os[dd].kind \in Compounds /\ dd \in 1 .. Len(os)
      BY DEF LoopIn, Compounds
    <3> QED BY <1>3, <3>1 DEF TellsOf, Marked
  <2>3. i0 \in S
    BY <2>1, <2>2 DEF LoopIn
  <2>4. ASSUME NEW i \in S PROVE i <= i0
    <3>1. i \in 1 .. Len(ns)
      BY <1>2
    <3>2. v[i] \in 1 .. Len(os) /\ os[v[i]].kind = "while"
      BY <1>3, <2>1, <3>1, MarkIs
    <3>3. v[i] <= v[i0]
      BY <2>2, <3>2 DEF LoopIn
    <3>4. i0 < i => v[i0] < v[i]
      BY <1>3, <3>1 DEF TellsOf, Marked
    <3>5. v[i] \in Int /\ v[i0] \in Int
      BY <2>2, <3>2 DEF LoopIn
    <3> QED BY <3>1, <3>3, <3>4, <3>5
  <2>5. j \in S /\ \A e \in S : e <= j
    <3>1. j = CHOOSE d \in S : \A e \in S : e <= d
      BY DEF IsInner
    <3> HIDE DEF S
    <3> QED BY <2>3, <2>4, <3>1
  <2>6. j = i0
    <3>1. j <= i0 /\ i0 <= j /\ j \in Int /\ i0 \in Int
      BY <1>2, <2>3, <2>4, <2>5
    <3> QED BY <3>1
  <2> QED BY <2>2, <2>6
<1>4. j \in 1 .. Len(ns) /\ ns[j] \in G[w[j]] /\ w[j] = dd
  BY <1>1, <1>3 DEF TellsOf
<1> QED BY <1>2, <1>3, <1>4

\* The innermost loop of lowering's stack is that frame's.
LEMMA LoopInner ==
  ASSUME NEW os, Len(os) \in Nat, NEW ls, LoopFrames(os, ls), Len(ls) # 0
  PROVE  \E dd : LoopIn(os, dd) /\ ls[Len(ls)] = [continueTo |-> os[dd].alt, breakTo |-> os[dd].end]
<1> DEFINE m == Len(ls)
<1>1. PICK w : /\ Marked(os, Len(os), {"while"}, m, w)
               /\ \A i \in 1 .. m :
                    ls[i] = [continueTo |-> os[w[i]].alt, breakTo |-> os[w[i]].end]
  BY DEF LoopFrames
<1>2. m \in 1 .. m /\ m \in Nat
  BY DEF LoopFrames
<1> HIDE DEF m
<1>3. w[m] \in 1 .. Len(os) /\ os[w[m]].kind = "while"
  BY <1>1, <1>2 DEF Marked
<1>4. ASSUME NEW e \in 1 .. Len(os), os[e].kind = "while" PROVE e <= w[m]
  <2>1. PICK i \in 1 .. m : w[i] = e
    BY <1>1, <1>4 DEF Marked
  <2>2. i = m \/ i < m
    BY <1>2
  <2>3. i < m => w[i] < w[m]
    BY <1>1, <1>2 DEF Marked
  <2> QED BY <1>3, <2>1, <2>2, <2>3
<1>5. LoopIn(os, w[m])
  BY <1>3, <1>4 DEF LoopIn
<1> QED BY <1>1, <1>2, <1>5 DEF m

-----------------------------------------------------------------------------
(* What the blocks say of a statement that is open                         *)

\* Where the chain of tests of the match at frame d goes on, or the cursor.
ChainOf(os, c, d) == IF d = Len(os) THEN c ELSE os[d + 1].resume

\* Construct x is the statement of frame fr: control comes to the blocks it waits
\* for from where the construct says; c is where its tests go on.
Gives(f, V, fr, c, x) ==
  /\ x.kind = "while" <=> fr.kind = "while"
  /\ Codes(f.blocks[fr.end]) = {}
  /\ OnlyThen(fr) => Before(f, V, fr.end) = {x.head}
  /\ fr.kind = "then" /\ fr.alt # 0 => Before(f, V, fr.end) = {} /\ Waits(f, V, fr.alt, {x.head})
  /\ fr.kind = "else" => Before(f, V, fr.end) = x.outs
  /\ fr.kind = "while" => /\ Before(f, V, fr.end) = x.outs \cup {x.head}
                          /\ Ended(f.blocks[fr.alt]) /\ FirstOf(f.blocks[fr.alt]) = {x.head}
  /\ fr.kind = "match" => Before(f, V, fr.end) = x.outs /\ Past(f, V, c) = {x.head}

Giving(f, V, os) ==
  [d \in 1 .. Len(os) |-> {x \in NestSet : Gives(f, V, os[d], ChainOf(os, f.cur, d), x)}]

\* While the body is walked: the statements around, the edges so far, and whence
\* control comes.
Flown(f, os, ns, es, cm) ==
  LET V == Detours(os, f.cur)
  IN /\ Told(os, ns, Giving(f, V, os))
     /\ es = EdgesOf(f, V)
     /\ os[Len(os)].kind # "match" => cm = Came(f, V)

LEMMA GivesOn ==
  ASSUME NEW f, NEW V, NEW fr, NEW c, NEW x, fr.kind \in Compounds, Gives(f, V, fr, c, x),
         NEW g, NEW W, NEW fs, NEW e, SameNames(fr, fs), fs.kind = fr.kind,
         \A b \in Awaits(fr) : Before(g, W, b) = Before(f, V, b) /\ g.blocks[b] = f.blocks[b],
         fr.kind = "while" /\ Ended(f.blocks[fr.alt]) => g.blocks[fr.alt] = f.blocks[fr.alt],
         fr.kind = "match" => Past(g, W, e) = Past(f, V, c)
  PROVE  Gives(g, W, fs, e, x)
<1>1. fr.end \in Awaits(fr) /\ (fr.kind = "then" /\ fr.alt # 0 => fr.alt \in Awaits(fr))
  BY DEF Awaits, Compounds
<1>2. fs.end = fr.end /\ fs.alt = fr.alt
  BY DEF SameNames
<1>3. /\ Before(g, W, fr.end) = Before(f, V, fr.end) /\ g.blocks[fr.end] = f.blocks[fr.end]
      /\ fr.kind = "then" /\ fr.alt # 0 =>
           Before(g, W, fr.alt) = Before(f, V, fr.alt) /\ g.blocks[fr.alt] = f.blocks[fr.alt]
  BY <1>1
<1>4. /\ x.kind = "while" <=> fs.kind = "while"
      /\ Codes(g.blocks[fs.end]) = {}
      /\ OnlyThen(fs) => Before(g, W, fs.end) = {x.head}
  BY <1>2, <1>3 DEF Gives, OnlyThen
<1>5. fs.kind = "then" /\ fs.alt # 0 => Before(g, W, fs.end) = {} /\ Waits(g, W, fs.alt, {x.head})
  BY <1>2, <1>3 DEF Gives, Waits
<1>6. /\ fs.kind = "else" => Before(g, W, fs.end) = x.outs
      /\ fs.kind = "while" => /\ Before(g, W, fs.end) = x.outs \cup {x.head}
                              /\ Ended(g.blocks[fs.alt]) /\ FirstOf(g.blocks[fs.alt]) = {x.head}
      /\ fs.kind = "match" => Before(g, W, fs.end) = x.outs /\ Past(g, W, e) = {x.head}
  BY <1>2, <1>3 DEF Gives
<1> QED BY <1>4, <1>5, <1>6 DEF Gives

LEMMA GivingIs ==
  ASSUME NEW f, NEW V, NEW os, NEW d \in 1 .. Len(os)
  PROVE  Giving(f, V, os)[d] = {x \in NestSet : Gives(f, V, os[d], ChainOf(os, f.cur, d), x)}
BY DEF Giving

\* A step of lowering that leaves what the frames but k wait for: f's cursor is
\* in none of it.
Unmoved(f, V, os, g, W, k) ==
  /\ Kept(f, g, f.cur) /\ NBlocks(g) \in Nat
  /\ \A d \in 1 .. Len(os) : d # k => \A b \in Awaits(os[d]) : Before(g, W, b) = Before(f, V, b)

\* The same frames, or fewer, in ps, but for what they say of divergence.
Follow(os, ps, f, g, k) ==
  \A d \in 1 .. Len(os) : os[d].kind \in Compounds /\ d # k =>
    /\ d \in 1 .. Len(ps) /\ SameNames(os[d], ps[d]) /\ ps[d].kind = os[d].kind
    /\ os[d].kind = "match" => ChainOf(ps, g.cur, d) = ChainOf(os, f.cur, d)

LEMMA FramesOn ==
  ASSUME NEW f, NEW os, NEW ls, NEW ns, Body(f, os, ls, ns), NEW V, NEW g, NEW W, NEW k,
         Unmoved(f, V, os, g, W, k), os[k].kind \notin Arms \/ k \notin 1 .. Len(os),
         NEW ps, Follow(os, ps, f, g, k),
         os[Len(os)].kind = "match" /\ k # Len(os) => Past(g, W, f.cur) = Past(f, V, f.cur)
  PROVE  Retold(os, Giving(f, V, os), Giving(g, W, ps), k)
<1>1. /\ NBlocks(f) \in Nat \ {0} /\ f.cur \in 1 .. NBlocks(f) /\ f.cur \notin Awaited(os)
      /\ Shape(os, NBlocks(f)) /\ Apart(os) /\ Len(os) \in Nat \ {0} /\ NBlocks(f) \in Nat
  BY BodyIs
<1>2. /\ Awaited(os) \in SUBSET (1 .. NBlocks(f))
      /\ \A d \in 1 .. Len(os) : Awaits(os[d]) \subseteq Awaited(os)
  BY <1>1, AwaitedIn
<1>3. ASSUME NEW d \in 1 .. Len(os), d # k, NEW b \in Awaits(os[d])
      PROVE  /\ Before(g, W, b) = Before(f, V, b) /\ g.blocks[b] = f.blocks[b]
             /\ b \in 1 .. NBlocks(f) /\ b # f.cur
  <2>1. b \in 1 .. NBlocks(f) /\ b # f.cur
    BY <1>1, <1>2, <1>3
  <2> QED BY <1>3, <2>1 DEF Unmoved, Kept
<1>4. ASSUME NEW d \in 1 .. Len(os), os[d].kind \in Compounds, d # k,
             NEW x \in Giving(f, V, os)[d]
      PROVE  x \in Giving(g, W, ps)[d]
  <2> DEFINE fr == os[d]
             fs == ps[d]
             c == ChainOf(os, f.cur, d)
             e == ChainOf(ps, g.cur, d)
  <2>1. x \in NestSet /\ Gives(f, V, fr, c, x)
    BY <1>4, GivingIs
  <2>2. d \in 1 .. Len(ps) /\ SameNames(fr, fs) /\ fs.kind = fr.kind /\ (fr.kind = "match" => e = c)
    BY <1>4 DEF Follow
  <2>3. fr.kind = "while" /\ Ended(f.blocks[fr.alt]) => g.blocks[fr.alt] = f.blocks[fr.alt]
    <3>1. fr \in FrameSet /\ GoodFrame(fr, NBlocks(f))
      BY <1>1 DEF Shape
    <3>2. fr.kind = "while" => fr.alt \in 1 .. NBlocks(f)
      BY <1>1, <3>1 DEF GoodFrame, FrameSet
    <3> QED BY <3>2 DEF Unmoved, Kept
  <2>4. fr.kind = "match" => Past(g, W, e) = Past(f, V, c)
    <3>1. CASE d = Len(os)
      BY <1>4, <2>2, <3>1 DEF ChainOf
    <3>2. CASE d # Len(os) /\ fr.kind = "match"
      <4> DEFINE d1 == d + 1
      <4>1. d1 \in 1 .. Len(os) /\ d \in 1 .. Len(os) - 1
        BY <1>1, <3>2
      <4>2. os[d1].kind \in Arms /\ c = os[d1].resume
        BY <1>1, <3>2, <4>1 DEF Shape, ChainOf
      <4> HIDE DEF d1
      <4>3. c \in Awaits(os[d1]) /\ d1 # k
        BY <4>1, <4>2 DEF Awaits, Arms, Compounds
      <4>4. Before(g, W, c) = Before(f, V, c) /\ g.blocks[c] = f.blocks[c] /\ c \in 1 .. NBlocks(f)
        BY <1>3, <4>1, <4>3
      <4>5. c \in 1 .. NBlocks(g)
        <5>1. NBlocks(f) <= NBlocks(g) /\ NBlocks(g) \in Nat
          BY DEF Unmoved, Kept
        <5> HIDE DEF c
        <5> QED BY <1>1, <4>4, <5>1
      <4>6. Past(f, V, c) = IF Codes(f.blocks[c]) = {} THEN Before(f, V, c) ELSE LastOf(f.blocks[c])
        BY <4>4, PastIs
      <4>7. Past(g, W, c) = IF Codes(g.blocks[c]) = {} THEN Before(g, W, c) ELSE LastOf(g.blocks[c])
        BY <4>5, PastIs
      <4> QED BY <2>2, <3>2, <4>4, <4>6, <4>7
    <3> QED BY <3>1, <3>2
  <2> HIDE DEF c, e
  <2>5. \A b \in Awaits(fr) : Before(g, W, b) = Before(f, V, b) /\ g.blocks[b] = f.blocks[b]
    BY <1>3, <1>4
  <2> HIDE DEF fr, fs
  <2>6. fr.kind \in Compounds
    BY <1>4 DEF fr
  <2>7. Gives(g, W, fs, e, x)
    BY <2>1, <2>2, <2>3, <2>4, <2>5, <2>6, GivesOn
  <2> QED BY <2>1, <2>2, <2>7, GivingIs DEF fs, e
<1> QED BY <1>4 DEF Retold

-----------------------------------------------------------------------------
(* From statement to statement                                             *)

LEMMA FlownIs ==
  ASSUME NEW f, NEW os, NEW ns, NEW es, NEW cm, Flown(f, os, ns, es, cm), NEW V, V = Detours(os, f.cur)
  PROVE  /\ Told(os, ns, Giving(f, V, os)) /\ es = EdgesOf(f, V)
         /\ os[Len(os)].kind # "match" => cm = Came(f, V)
BY DEF Flown

LEMMA FlownBy ==
  ASSUME NEW f, NEW os, NEW ns, NEW V, V = Detours(os, f.cur), Told(os, ns, Giving(f, V, os)),
         NEW es, es = EdgesOf(f, V), NEW cm, os[Len(os)].kind # "match" => cm = Came(f, V)
  PROVE  Flown(f, os, ns, es, cm)
BY DEF Flown

LEMMA AwaitsAmong ==
  ASSUME NEW f, NEW os, NEW ls, NEW ns, Body(f, os, ls, ns), NEW d \in 1 .. Len(os), NEW b \in Awaits(os[d])
  PROVE  b \in 1 .. NBlocks(f) /\ b # f.cur /\ b \in Awaited(os)
<1>1. /\ NBlocks(f) \in Nat \ {0} /\ f.cur \notin Awaited(os) /\ Shape(os, NBlocks(f)) /\ NBlocks(f) \in Nat
  BY BodyIs
<1>2. /\ Awaited(os) \in SUBSET (1 .. NBlocks(f))
      /\ \A e \in 1 .. Len(os) : Awaits(os[e]) \subseteq Awaited(os)
  BY <1>1, AwaitedIn
<1> QED BY <1>1, <1>2

\* The same frames, or but for the last one's divergence.
LEMMA FollowSame ==
  ASSUME NEW os, NEW ps, NEW f, NEW g, NEW k, Len(os) \in Nat \ {0}, Len(ps) = Len(os),
         \A d \in 1 .. Len(os) : d # k => SameNames(os[d], ps[d]),
         \A d \in 1 .. Len(os) : d # k /\ os[d].kind \in Compounds => ps[d].kind = os[d].kind,
         \A d \in 1 .. Len(os) : ps[d].resume = os[d].resume,
         os[Len(os)].kind # "match" \/ k = Len(os) \/ g.cur = f.cur
  PROVE  Follow(os, ps, f, g, k)
<1>1. ASSUME NEW d \in 1 .. Len(os), os[d].kind \in Compounds, d # k
      PROVE  /\ d \in 1 .. Len(ps) /\ SameNames(os[d], ps[d]) /\ ps[d].kind = os[d].kind
             /\ os[d].kind = "match" => ChainOf(ps, g.cur, d) = ChainOf(os, f.cur, d)
  <2>1. CASE d = Len(os)
    BY <1>1, <2>1 DEF ChainOf
  <2>2. CASE d # Len(os)
    <3>1. d + 1 \in 1 .. Len(os)
      BY <2>2
    <3> QED BY <1>1, <2>2, <3>1 DEF ChainOf
  <2> QED BY <2>1, <2>2
<1> QED BY <1>1 DEF Follow

LEMMA SameNamesSelf ==
  ASSUME NEW f
  PROVE  SameNames(f, f)
BY DEF SameNames

\* The walk goes on from a block to another, with X more edges.
LEMMA FlownCarried ==
  ASSUME NEW f, NEW os, NEW ls, NEW ns, Body(f, os, ls, ns), os[Len(os)].kind # "match",
         NEW es, NEW cm, Flown(f, os, ns, es, cm), NEW V, V = Detours(os, f.cur),
         NEW g, NBlocks(g) \in Nat, ~Terminated(g), NEW X, NEW S, Carried(f, V, g, X, S)
  PROVE  Flown(g, os, ns, es \cup X, S)
<1>1. Told(os, ns, Giving(f, V, os)) /\ es = EdgesOf(f, V) /\ Len(os) \in Nat \ {0}
  BY FlownIs, BodyIs
<1>2. Unmoved(f, V, os, g, V, 0)
  BY AwaitsAmong DEF Carried, Unmoved
<1>3. Follow(os, os, f, g, 0)
  <2>1. \A d \in 1 .. Len(os) : SameNames(os[d], os[d])
    BY SameNamesSelf
  <2> QED BY <1>1, <2>1, FollowSame
<1>4. Retold(os, Giving(f, V, os), Giving(g, V, os), 0)
  <2>1. 0 \notin 1 .. Len(os)
    OBVIOUS
  <2> QED BY <1>2, <1>3, <2>1, FramesOn
<1>5. Told(os, ns, Giving(g, V, os))
  BY <1>1, <1>4, ToldStay
<1>6. V = Detours(os, g.cur)
  BY DetoursFixed
<1>7. es \cup X = EdgesOf(g, V) /\ S = Came(g, V)
  BY <1>1 DEF Carried, Came
<1> QED BY <1>5, <1>6, <1>7, FlownBy

\* It goes nowhere.
LEMMA FlownGone ==
  ASSUME NEW f, NEW os, NEW ls, NEW ns, Body(f, os, ls, ns), os[Len(os)].kind # "match",
         NEW es, NEW cm, Flown(f, os, ns, es, cm), NEW V, V = Detours(os, f.cur),
         NEW g, Terminated(g), Led(f, V, {}, g)
  PROVE  Flown(g, os, ns, es, {})
<1>1. /\ Told(os, ns, Giving(f, V, os)) /\ es = EdgesOf(f, V) /\ Len(os) \in Nat \ {0}
      /\ NBlocks(f) \in Nat
  BY FlownIs, BodyIs
<1>2. Unmoved(f, V, os, g, V, 0)
  BY <1>1, AwaitsAmong DEF Led, Unmoved
<1>3. Follow(os, os, f, g, 0)
  <2>1. \A d \in 1 .. Len(os) : SameNames(os[d], os[d])
    BY SameNamesSelf
  <2> QED BY <1>1, <2>1, FollowSame
<1>4. Retold(os, Giving(f, V, os), Giving(g, V, os), 0)
  <2>1. 0 \notin 1 .. Len(os)
    OBVIOUS
  <2> QED BY <1>2, <1>3, <2>1, FramesOn
<1>5. Told(os, ns, Giving(g, V, os))
  BY <1>1, <1>4, ToldStay
<1>6. V = Detours(os, g.cur)
  BY DetoursFixed
<1>7. es = EdgesOf(g, V) /\ {} = Came(g, V)
  BY <1>1 DEF Led, Came
<1> QED BY <1>5, <1>6, <1>7, FlownBy

\* What After makes of the frames.
LEMMA AfterSame ==
  ASSUME NEW os, NEW n \in Nat, Shape(os, n), os[Len(os)].kind \in Lasts, NEW dv \in BOOLEAN,
         NEW ps, IsAfter(os, dv, ps)
  PROVE  /\ Len(ps) = Len(os) /\ Len(os) \in Nat \ {0}
         /\ \A d \in 1 .. Len(os) : /\ SameNames(os[d], ps[d])
                                    /\ os[d].kind \in Compounds <=> ps[d].kind \in Compounds
                                    /\ os[d].kind \in Compounds => ps[d].kind = os[d].kind
<1> DEFINE L == Len(os)
           g == Judged(os[L], dv)
<1>1. os \in Seq(FrameSet) /\ L \in Nat \ {0} /\ os[L] \in FrameSet
  BY ShapeIs
<1>2. /\ Len(ps) = L /\ ps[L] = g /\ \A d \in 1 .. L : d # L => ps[d] = os[d]
  BY <1>1, AfterIs DEF IsAfter
<1>3. SameNames(os[L], g) /\ (os[L].kind \in Compounds <=> g.kind \in Compounds)
      /\ (os[L].kind \in Compounds => g.kind = os[L].kind)
  <2> DEFINE fr == os[L]
  <2>1. fr \in FrameSet
    BY <1>1
  <2> HIDE DEF fr
  <2>2. SameNames(fr, Judged(fr, dv)) /\ (fr.kind \in Compounds <=> Judged(fr, dv).kind \in Compounds)
        /\ (fr.kind \in Compounds => Judged(fr, dv).kind = fr.kind)
    BY <2>1 DEF Judged, FrameSet, SameNames, Compounds
  <2> QED BY <2>2 DEF fr
<1> HIDE DEF g
<1>4. \A d \in 1 .. L : SameNames(os[d], os[d])
  BY SameNamesSelf
<1> QED BY <1>1, <1>2, <1>3, <1>4

\* What frames are called says nothing of the blocks.
LEMMA FramesFollow ==
  ASSUME NEW f, NEW V, NEW os, NEW ps, NEW k, Follow(os, ps, f, f, k)
  PROVE  Retold(os, Giving(f, V, os), Giving(f, V, ps), k)
<1>1. ASSUME NEW d \in 1 .. Len(os), os[d].kind \in Compounds, d # k,
             NEW x \in Giving(f, V, os)[d]
      PROVE  x \in Giving(f, V, ps)[d]
  <2> DEFINE fr == os[d]
             fs == ps[d]
             c == ChainOf(os, f.cur, d)
             e == ChainOf(ps, f.cur, d)
  <2>1. x \in NestSet /\ Gives(f, V, fr, c, x)
    BY <1>1, GivingIs
  <2>2. d \in 1 .. Len(ps) /\ SameNames(fr, fs) /\ fs.kind = fr.kind /\ (fr.kind = "match" => e = c)
    BY <1>1 DEF Follow
  <2> HIDE DEF c, e, fr, fs
  <2>3. fr.kind \in Compounds
    BY <1>1 DEF fr
  <2>4. Gives(f, V, fs, e, x)
    BY <2>1, <2>2, <2>3, GivesOn
  <2> QED BY <2>1, <2>2, <2>4, GivingIs DEF fs, e
<1> QED BY <1>1 DEF Retold

\* A statement is over.
LEMMA FlownAfter ==
  ASSUME NEW f, NEW os, NEW n \in Nat, NEW ls, NEW us, Frames(os, n, ls, us), os[Len(os)].kind \in Lasts,
         NEW ns, NEW es, NEW cm, Flown(f, os, ns, es, cm), NEW dv \in BOOLEAN, NEW ps, IsAfter(os, dv, ps)
  PROVE  Flown(f, ps, ns, es, cm)
<1> DEFINE V == Detours(os, f.cur)
<1>1. /\ Told(os, ns, Giving(f, V, os)) /\ es = EdgesOf(f, V) /\ (os[Len(os)].kind # "match" => cm = Came(f, V))
      /\ Shape(os, n)
  BY FlownIs DEF Frames
<1>2. /\ Len(ps) = Len(os) /\ Len(os) \in Nat \ {0}
      /\ \A d \in 1 .. Len(os) : /\ SameNames(os[d], ps[d])
                                 /\ os[d].kind \in Compounds <=> ps[d].kind \in Compounds
                                 /\ os[d].kind \in Compounds => ps[d].kind = os[d].kind
  BY <1>1, AfterSame
<1>3. V = Detours(ps, f.cur) /\ ps[Len(ps)].kind # "match" /\ os[Len(os)].kind # "match"
  <2>1. Passed(os, dv, ps, n, ls, us)
    BY <1>1, AfterFrames
  <2>2. os[Len(os)].kind # "match"
    BY DEF Lasts, Lists
  <2> QED BY <2>1, <2>2 DEF Passed
<1> HIDE DEF V
<1>5. Follow(os, ps, f, f, 0)
  <2>1. \A d \in 1 .. Len(os) : ps[d].resume = os[d].resume
    BY <1>2 DEF SameNames
  <2> QED BY <1>2, <1>3, <2>1, FollowSame
<1>6. Retold(os, Giving(f, V, os), Giving(f, V, ps), 0)
  BY <1>5, FramesFollow
<1>7. \A w : Marked(os, Len(os), Compounds, Len(ns), w) => Marked(ps, Len(ps), Compounds, Len(ns), w)
  BY <1>2, MarkedSame
<1>8. Told(ps, ns, Giving(f, V, ps))
  BY <1>1, <1>2, <1>6, <1>7, ToldStay
<1> QED BY <1>1, <1>3, <1>8, FlownBy

-----------------------------------------------------------------------------
(* Into statements                                                         *)

LEMMA WaysOut ==
  ASSUME NEW f, NEW os, NEW ls, NEW ns, Body(f, os, ls, ns)
  PROVE  /\ Detoured(InnerTo(os, Len(os)), NBlocks(f), Awaited(os))
         /\ InnerTo(os, Len(os)) \in Ways(NBlocks(f)) /\ OutOf(InnerTo(os, Len(os)), f.cur) = {}
         /\ os[Len(os)].kind # "match" => \A c : Detours(os, c) = InnerTo(os, Len(os))
<1>1. /\ Shape(os, NBlocks(f)) /\ InnerTo(os, Len(os)) \in Ways(NBlocks(f)) /\ f.cur \notin Awaited(os)
      /\ NBlocks(f) \in Nat /\ Len(os) \in Nat \ {0}
  BY BodyIs
<1>2. ASSUME NEW v \in InnerTo(os, Len(os)) PROVE v[1] \in Awaited(os)
  <2>1. PICK e \in 1 .. Len(os) - 1 : os[e].kind = "match" /\ v = <<os[e + 1].resume, os[e].wild>>
    BY DEF InnerTo
  <2> DEFINE d == e + 1
  <2>2. d \in 1 .. Len(os) /\ os[d].kind \in Arms
    BY <1>1, <2>1 DEF Shape
  <2> HIDE DEF d
  <2>3. os[d].resume \in Awaits(os[d])
    BY <2>2 DEF Awaits, Arms, Compounds
  <2>4. v[1] = os[d].resume
    BY <2>1 DEF d
  <2> QED BY <1>1, <2>2, <2>3, <2>4, AwaitedIn
<1>3. \A b : b \notin Awaited(os) => OutOf(InnerTo(os, Len(os)), b) = {}
  BY <1>2 DEF OutOf
<1>4. os[Len(os)].kind # "match" => \A c : Detours(os, c) = InnerTo(os, Len(os))
  BY DEF Detours, With, WildOf
<1> QED BY <1>1, <1>3, <1>4 DEF Detoured

\* Where a statement's code goes.
LEMMA FlownOpened ==
  ASSUME NEW f, NEW os, NEW ls, NEW ns, Body(f, os, ls, ns), os[Len(os)].kind \in Lasts,
         NEW es, NEW cm, Flown(f, os, ns, es, cm)
  PROVE  Flown(EnsureOpen(f), os, ns, es, cm)
<1> DEFINE g == EnsureOpen(f)
           V == Detours(os, f.cur)
<1>1. os[Len(os)].kind # "match"
  BY DEF Lasts, Lists
<1>2. V \in Ways(NBlocks(f)) /\ Sound(f, Awaited(os))
  BY BodyIs DEF Body
<1>3. Body(g, os, ls, ns) /\ ~Terminated(g)
  BY BodyOpened
<1>4. g = EnsureOpen(f)
  OBVIOUS
<1> HIDE DEF g
<1>5. Carried(f, V, g, {}, Came(f, V))
  BY <1>2, <1>4, EnsureOpenFlow
<1>6. cm = Came(f, V) /\ NBlocks(g) \in Nat
  BY <1>1, <1>3, FlownIs, BodyIs
<1>7. Flown(g, os, ns, es \cup {}, cm)
  BY <1>1, <1>3, <1>5, <1>6, FlownCarried
<1>8. es \cup {} = es
  OBVIOUS
<1> QED BY <1>7, <1>8 DEF g

\* The code of statement s.
LEMMA FlownEval ==
  ASSUME NEW f, NEW os, NEW ls, NEW ns, Body(f, os, ls, ns), os[Len(os)].kind \in Lasts, ~Terminated(f),
         NEW es, NEW cm, Flown(f, os, ns, es, cm), NEW s \in Nat, NEW shape
  PROVE  Flown(Eval(f, s, shape), os, ns, es \cup (cm \X {s}), {s})
<1> DEFINE g == Eval(f, s, shape)
           V == Detours(os, f.cur)
<1>1. os[Len(os)].kind # "match"
  BY DEF Lasts, Lists
<1>2. V \in Ways(NBlocks(f)) /\ Sound(f, Awaited(os)) /\ OutOf(V, f.cur) = {}
  BY <1>1, WaysOut DEF Body
<1>3. Body(g, os, ls, ns) /\ ~Terminated(g)
  <2>1. EnsureOpen(f) = f
    BY DEF EnsureOpen
  <2> QED BY <2>1, BodyEval
<1>4. g = Eval(f, s, shape)
  OBVIOUS
<1> HIDE DEF g
<1>5. Spoken(f, V, s, g)
  BY <1>2, <1>4, EvalFlow
<1>6. cm = Past(f, V, f.cur) /\ NBlocks(g) \in Nat
  BY <1>1, <1>3, FlownIs, BodyIs DEF Came
<1>7. Carried(f, V, g, cm \X {s}, {s})
  BY <1>5, <1>6 DEF Spoken, Carried
<1> HIDE DEF V
<1>8. Flown(g, os, ns, es \cup (cm \X {s}), {s})
  BY <1>1, <1>3, <1>6, <1>7, FlownCarried DEF V
<1> QED BY <1>8 DEF g

\* The frames under a new one.
LEMMA EnteredOver ==
  ASSUME NEW f, NEW os, NEW ls, NEW ns, Body(f, os, ls, ns), os[Len(os)].kind \in Lasts,
         NEW fr, fr.wild = 0, NEW ps, Entered(os, fr, ps), NEW g
  PROVE  /\ Follow(os, ps, f, g, 0)
         /\ \A c, e : Detours(ps, c) = Detours(os, e)
         /\ Len(ps) = Len(os) + 1 /\ Len(os) \in Nat \ {0} /\ ps[Len(ps)] = fr
<1> DEFINE L == Len(os)
<1>1. L \in Nat \ {0} /\ Len(ps) = L + 1 /\ ps[L + 1] = fr /\ \A d \in 1 .. L : ps[d] = os[d]
  BY BodyIs DEF Entered
<1>2. os[L].kind # "match" /\ WildOf(os[L]) = 0 /\ ps[L] = os[L]
  BY <1>1 DEF Lasts, Lists, WildOf
<1>3. Follow(os, ps, f, g, 0)
  <2>1. ASSUME NEW d \in 1 .. L, os[d].kind = "match"
        PROVE  ChainOf(ps, g.cur, d) = ChainOf(os, f.cur, d)
    <3>1. d # L /\ d + 1 \in 1 .. L /\ d # L + 1
      BY <1>1, <1>2, <2>1
    <3> QED BY <1>1, <3>1 DEF ChainOf
  <2>2. \A d \in 1 .. L : SameNames(os[d], os[d]) /\ d \in 1 .. Len(ps)
    BY <1>1, SameNamesSelf
  <2> QED BY <1>1, <2>1, <2>2 DEF Follow
<1>4. InnerTo(ps, L + 1) = InnerTo(os, L)
  <2>1. \A d \in 1 .. L - 1 : d \in 1 .. L /\ d + 1 \in 1 .. L
    BY <1>1
  <2>2. \A d \in 1 .. L - 1 : /\ ps[d].kind = "match" <=> os[d].kind = "match"
                              /\ ps[d].wild = os[d].wild /\ ps[d + 1].resume = os[d + 1].resume
    BY <1>1, <2>1
  <2>3. InnerTo(ps, L) = InnerTo(os, L)
    BY <2>2, InnerSame
  <2>4. InnerTo(ps, L + 1) = With(InnerTo(ps, L), ps[L + 1].resume, WildOf(ps[L]))
    BY <1>1, InnerNext
  <2> QED BY <1>2, <2>3, <2>4 DEF With
<1>5. ASSUME NEW c, NEW e PROVE Detours(ps, c) = Detours(os, e)
  <2>1. WildOf(fr) = 0
    BY DEF WildOf
  <2> QED BY <1>1, <1>2, <1>4, <2>1 DEF Detours, With
<1> QED BY <1>1, <1>3, <1>5

\* A compound statement opens, X being the edges to its condition or scrutinee.
LEMMA FlownInto ==
  ASSUME NEW f, NEW os, NEW ls, NEW ns, Body(f, os, ls, ns), os[Len(os)].kind \in Lasts, ~Terminated(f),
         NEW es, NEW cm, Flown(f, os, ns, es, cm), NEW V, V = Detours(os, f.cur), NEW X, NEW S,
         NEW fr, fr.wild = 0, fr.kind \in Compounds, NEW ps, Entered(os, fr, ps),
         NEW h, NBlocks(h) \in Nat, ~Terminated(h), Carried(f, V, h, X, S),
         NEW x \in NestSet, Gives(h, V, fr, h.cur, x), NEW ms, ms = Append(ns, x)
  PROVE  Flown(h, ps, ms, es \cup X, S)
<1>1. os[Len(os)].kind # "match"
  BY DEF Lasts, Lists
<1>2. /\ Told(os, ns, Giving(f, V, os)) /\ es = EdgesOf(f, V) /\ Len(os) \in Nat \ {0}
      /\ cm = Past(f, V, f.cur)
  BY <1>1, FlownIs, BodyIs DEF Came
<1>3. /\ Follow(os, ps, f, h, 0)
      /\ \A c, e : Detours(ps, c) = Detours(os, e)
      /\ Len(ps) = Len(os) + 1 /\ ps[Len(ps)] = fr
  BY EnteredOver
<1>4. Unmoved(f, V, os, h, V, 0)
  BY AwaitsAmong DEF Carried, Unmoved
<1>5. Retold(os, Giving(f, V, os), Giving(h, V, ps), 0)
  <2>1. 0 \notin 1 .. Len(os)
    OBVIOUS
  <2> QED BY <1>1, <1>3, <1>4, <2>1, FramesOn
<1>6. x \in Giving(h, V, ps)[Len(ps)]
  <2>1. Len(ps) \in 1 .. Len(ps)
    BY <1>2, <1>3
  <2> QED BY <1>3, <2>1, GivingIs DEF ChainOf
<1>7. Told(ps, ms, Giving(h, V, ps))
  <2>1. \A d \in 1 .. Len(os) : ps[d] = os[d]
    BY DEF Entered
  <2> QED BY <1>2, <1>3, <1>5, <1>6, <2>1, ToldPush
<1>8. V = Detours(ps, h.cur)
  BY <1>3
<1>9. es \cup X = EdgesOf(h, V) /\ S = Came(h, V)
  BY <1>2 DEF Carried, Came
<1> QED BY <1>7, <1>8, <1>9, FlownBy

\* A block opens.
LEMMA FlownBlock ==
  ASSUME NEW f, NEW os, NEW ls, NEW ns, Body(f, os, ls, ns), os[Len(os)].kind \in Lasts,
         NEW es, NEW cm, Flown(f, os, ns, es, cm),
         NEW fr, fr.wild = 0, fr.kind = "block", NEW ps, Entered(os, fr, ps)
  PROVE  Flown(f, ps, ns, es, cm)
<1> DEFINE V == Detours(os, f.cur)
<1>1. os[Len(os)].kind # "match"
  BY DEF Lasts, Lists
<1>2. /\ Told(os, ns, Giving(f, V, os)) /\ es = EdgesOf(f, V) /\ Len(os) \in Nat \ {0}
      /\ cm = Came(f, V) /\ NBlocks(f) \in Nat /\ ns \in Seq(NestSet)
  BY <1>1, FlownIs, BodyIs DEF Told
<1>3. /\ Follow(os, ps, f, f, 0)
      /\ \A c, e : Detours(ps, c) = Detours(os, e)
      /\ Len(ps) = Len(os) + 1 /\ ps[Len(ps)] = fr
  BY EnteredOver
<1>4. Unmoved(f, V, os, f, V, 0)
  BY <1>2 DEF Unmoved, Kept
<1>5. V = Detours(ps, f.cur)
  BY <1>3
<1> HIDE DEF V
<1>6. Retold(os, Giving(f, V, os), Giving(f, V, ps), 0)
  <2>1. 0 \notin 1 .. Len(os)
    OBVIOUS
  <2> QED BY <1>1, <1>3, <1>4, <2>1, FramesOn
<1>7. ASSUME NEW w, Marked(os, Len(os), Compounds, Len(ns), w)
      PROVE  Marked(ps, Len(ps), Compounds, Len(ns), w)
  <2> DEFINE K == Compounds
             L == Len(os)
             n == Len(ns)
  <2>1. Marked(os, L, K, n, w) /\ L \in Nat /\ n \in Nat /\ Len(ps) = L + 1 /\ ps[L + 1] = fr
    BY <1>2, <1>3, <1>7
  <2>2. \A d \in 1 .. L : ps[d].kind \in K <=> os[d].kind \in K
    BY DEF Entered
  <2>3. fr.kind \notin K
    BY DEF Compounds
  <2> HIDE DEF K, L, n
  <2>4. Marked(ps, L + 1, K, n, w)
    BY <2>1, <2>2, <2>3, MarkedPushOther
  <2> QED BY <2>1, <2>4 DEF K, L, n
<1>8. Told(ps, ns, Giving(f, V, ps))
  BY <1>2, <1>6, <1>7, ToldStay
<1> QED BY <1>2, <1>5, <1>8, FlownBy

-----------------------------------------------------------------------------
(* Out of statements                                                       *)

LEMMA GoneOn ==
  ASSUME NEW f, NEW os, NEW ls, NEW ns, Body(f, os, ls, ns), os[Len(os)].kind # "match",
         NEW V, V = Detours(os, f.cur), NEW t \in 1 .. NBlocks(f),
         ~Terminated(f) => Landing(f, Awaited(os), V, t),
         NEW b, NEW h, Went(f, t, b, h)
  PROVE  WentTo(f, V, t, h) /\ h.cur = b
<1> DEFINE g == GoOn(f, t)
<1>1. Sound(f, Awaited(os)) /\ V \in Ways(NBlocks(f)) /\ OutOf(V, f.cur) = {}
  BY WaysOut DEF Body
<1>2. WentTo(f, V, t, g)
  BY <1>1, GoOnFlow
<1>3. Sound(g, Awaited(os))
  BY <1>1, GoOnStep
<1>4. h = At(g, b)
  BY DEF Went
<1> HIDE DEF g
<1> QED BY <1>2, <1>3, <1>4, WentAt

\* The frames around the last.
LEMMA LeftUnder ==
  ASSUME NEW os, NEW n \in Nat, Shape(os, n), NEW fr, NEW bs, Left(os, fr, bs), fr.kind \in Compounds,
         fr.kind # "fn", NEW f, NEW g
  PROVE  /\ Follow(os, bs, f, g, Len(os)) /\ Len(bs) = Len(os) - 1 /\ fr = os[Len(os)]
         /\ \A d \in 1 .. Len(os) - 1 : bs[d] = os[d]
<1> DEFINE L == Len(os)
<1>1. os \in Seq(FrameSet) /\ L \in Nat \ {0} /\ L \in 1 .. L /\ fr = os[L]
  BY ShapeIs DEF Left
<1>2. Len(bs) = L - 1 /\ \A d \in 1 .. L - 1 : bs[d] = os[d]
  <2>1. Len(os) > 0
    BY <1>1
  <2> HIDE DEF L
  <2> QED BY <1>1, <2>1, Popped DEF Left, L
<1>3. ASSUME NEW d \in 1 .. L, d # L
      PROVE  /\ d \in 1 .. Len(bs) /\ bs[d] = os[d]
             /\ os[d].kind = "match" => d + 1 \in 1 .. Len(bs) /\ d # Len(bs) /\ d # L
  <2>1. d \in 1 .. L - 1
    BY <1>1, <1>3
  <2>2. os[d].kind = "match" => os[d + 1].kind \in Arms
    BY <2>1 DEF Shape
  <2>3. os[d].kind = "match" => d + 1 # L
    BY <1>1, <2>2 DEF Arms, Compounds
  <2> QED BY <1>1, <1>2, <2>1, <2>3
<1>4. Follow(os, bs, f, g, L)
  <2>1. ASSUME NEW d \in 1 .. L, d # L, os[d].kind = "match"
        PROVE  ChainOf(bs, g.cur, d) = ChainOf(os, f.cur, d)
    <3>1. d + 1 \in 1 .. L - 1 /\ d # Len(bs) /\ d # L
      BY <1>2, <1>3, <2>1
    <3> QED BY <1>2, <3>1 DEF ChainOf
  <2> QED BY <1>3, <2>1, SameNamesSelf DEF Follow
<1> QED BY <1>1, <1>2, <1>4

\* A branch is left: for block t, which one waits for as the end or nobody does.
OutFrom(f, os, ls, ns, es, cm, fr, bs, ls2, ns2) ==
  /\ Body(f, os, ls, ns) /\ Flown(f, os, ns, es, cm) /\ Left(os, fr, bs)
  /\ fr.kind \in {"then", "else", "while"} /\ LoopsOut(fr, ls, ls2) /\ NestsOut(fr, ns, ns2)
OutBy(f, os, V, fr, t, h) ==
  /\ V = Detours(os, f.cur) /\ WentTo(f, V, t, h) /\ h.cur = fr.end /\ ~Terminated(h)
  /\ t = fr.end \/ t \notin Awaited(os)
OutTo(f, V, ns, es, cm, fr, t, h, ps, ns2) ==
  /\ Gives(f, V, fr, f.cur, ns[Len(ns)])
  /\ Flown(h, ps, ns2, es \cup (cm \X FirstOf(f.blocks[t])),
           Before(f, V, fr.end) \cup (IF t = fr.end THEN cm ELSE {}))

LEMMA FlownOut ==
  ASSUME NEW f, NEW os, NEW ls, NEW ns, NEW es, NEW cm, NEW fr, NEW bs, NEW ls2, NEW ns2,
         OutFrom(f, os, ls, ns, es, cm, fr, bs, ls2, ns2),
         NEW V, NEW t, NEW h, OutBy(f, os, V, fr, t, h), NEW dv \in BOOLEAN, NEW ps, IsAfter(bs, dv, ps)
  PROVE  OutTo(f, V, ns, es, cm, fr, t, h, ps, ns2)
<1>0. /\ Body(f, os, ls, ns) /\ Flown(f, os, ns, es, cm) /\ Left(os, fr, bs)
      /\ fr.kind \in {"then", "else", "while"} /\ LoopsOut(fr, ls, ls2) /\ NestsOut(fr, ns, ns2)
      /\ V = Detours(os, f.cur) /\ WentTo(f, V, t, h) /\ h.cur = fr.end /\ ~Terminated(h)
      /\ t = fr.end \/ t \notin Awaited(os)
  BY DEF OutFrom, OutBy
<1> USE <1>0
<1> DEFINE L == Len(os)
           n == NBlocks(f)
<1>1. /\ n \in Nat /\ Shape(os, n) /\ Apart(os) /\ L \in Nat \ {0} /\ L \in 1 .. L /\ fr = os[L]
      /\ Frames(os, n, ls, ns)
  BY BodyIs DEF Left, Body
<1>2. /\ os[L].kind \in Compounds /\ os[L].kind # "match" /\ fr.kind # "fn" /\ fr.kind \in Closes
      /\ fr.kind # "arm_done" /\ fr.kind # "block"
  BY <1>1 DEF Compounds, Closes
<1>3. Told(os, ns, Giving(f, V, os)) /\ es = EdgesOf(f, V) /\ cm = Came(f, V)
  BY <1>2, FlownIs
<1>4. Gives(f, V, fr, f.cur, ns[Len(ns)])
  <2>1. ns[Len(ns)] \in Giving(f, V, os)[L]
    BY <1>1, <1>2, <1>3, ToldTop
  <2> QED BY <1>1, <2>1, GivingIs DEF ChainOf
<1>5. fr.end \in Awaits(fr) /\ fr.end \in 1 .. n
  <2>1. fr.end \in Awaits(fr)
    BY DEF Awaits, Compounds
  <2> QED BY <1>1, <2>1, AwaitsAmong
<1>6. Unmoved(f, V, os, h, V, L)
  <2>1. ASSUME NEW d \in 1 .. L, d # L, NEW b \in Awaits(os[d]) PROVE Before(h, V, b) = Before(f, V, b)
    <3>1. b \in 1 .. n /\ b \in Awaited(os)
      BY <2>1, AwaitsAmong
    <3>2. b # fr.end
      BY <1>1, <1>5, <2>1 DEF Apart
    <3> QED BY <3>1, <3>2 DEF WentTo
  <2> QED BY <1>1, <2>1 DEF Unmoved, WentTo
<1>7. /\ Follow(os, bs, f, h, L) /\ Len(bs) = L - 1 /\ \A d \in 1 .. L - 1 : bs[d] = os[d]
  BY <1>1, <1>2, LeftUnder
<1>8. Told(bs, ns2, Giving(h, V, bs))
  <2>1. os[L].kind \notin Arms \/ L \notin 1 .. Len(os)
    BY <1>2 DEF Arms, Compounds
  <2>2. Retold(os, Giving(f, V, os), Giving(h, V, bs), L)
    BY <1>6, <1>7, <2>1, FramesOn
  <2>3. ns2 = SubSeq(ns, 1, Len(ns) - 1)
    BY <1>2 DEF NestsOut
  <2> QED BY <1>1, <1>2, <1>3, <1>7, <2>2, <2>3, ToldPop
<1>9. V = Detours(bs, h.cur) /\ Frames(bs, n, ls2, ns2) /\ bs[Len(bs)].kind \in Lasts
  <2>1. BranchAround(f, os, fr, bs)
    BY AroundBranch
  <2>2. Outside(os, fr, n, bs, ls2, ns2)
    BY <1>1, <1>2, PopFrames
  <2> QED BY <1>2, <2>1, <2>2 DEF BranchAround, Outside
<1>10. Came(h, V) = Before(f, V, fr.end) \cup (IF t = fr.end THEN cm ELSE {})
  <2>1. Codes(h.blocks[fr.end]) = {} /\ fr.end \in 1 .. NBlocks(h)
    BY <1>4, <1>5 DEF Gives, WentTo
  <2>2. Past(h, V, fr.end) = Before(h, V, fr.end)
    BY <2>1, PastIs
  <2>3. Before(h, V, fr.end) = Before(f, V, fr.end) \cup (IF fr.end = t THEN Came(f, V) ELSE {})
    BY <1>5 DEF WentTo
  <2> QED BY <1>3, <2>2, <2>3 DEF Came
<1>11. EdgesOf(h, V) = es \cup (cm \X FirstOf(f.blocks[t]))
  BY <1>3 DEF WentTo
<1>12. Flown(h, bs, ns2, EdgesOf(h, V), Came(h, V))
  BY <1>8, <1>9, FlownBy
<1>13. Flown(h, ps, ns2, EdgesOf(h, V), Came(h, V))
  BY <1>1, <1>9, <1>12, FlownAfter
<1> QED BY <1>4, <1>10, <1>11, <1>13 DEF OutTo

\* Where a branch ends, and where a loop goes back to.
LEMMA EndLanding ==
  ASSUME NEW f, NEW os, NEW ls, NEW ns, Body(f, os, ls, ns),
         NEW V, V = Detours(os, f.cur), NEW d \in 1 .. Len(os), os[d].kind \in Compounds
  PROVE  /\ Landing(f, Awaited(os), V, os[d].end) /\ os[d].end \in 1 .. NBlocks(f)
         /\ os[d].end \in Awaits(os[d])
<1>1. os[d].end \in Awaits(os[d]) /\ os[d].kind \notin Arms
  BY DEF Awaits, Compounds, Arms
<1>2. os[d].end \in 1 .. NBlocks(f) /\ os[d].end # f.cur /\ os[d].end \in Awaited(os)
  BY <1>1, AwaitsAmong
<1>3. OutOf(V, os[d].end) = {}
  <2>1. NBlocks(f) \in Nat /\ Shape(os, NBlocks(f)) /\ Apart(os) /\ f.cur \notin Awaited(os)
    BY BodyIs
  <2> QED BY <1>1, <2>1, NoDetour
<1> QED BY <1>1, <1>2, <1>3 DEF Landing

\* Block t is a loop's condition, whose code is of statement s.
IsBack(f, os, V, t, s) ==
  /\ ~Terminated(f) => Landing(f, Awaited(os), V, t)
  /\ t \in 1 .. NBlocks(f) /\ t \notin Awaited(os)
  /\ FirstOf(f.blocks[t]) = {s} /\ Codes(f.blocks[t]) # {}

LEMMA BackLanding ==
  ASSUME NEW f, NEW os, NEW ls, NEW ns, Body(f, os, ls, ns),
         NEW V, NEW c, NEW d \in 1 .. Len(os), NEW fr, fr = os[d], fr.kind = "while",
         NEW x, Gives(f, V, fr, c, x)
  PROVE  IsBack(f, os, V, fr.alt, x.head)
<1> DEFINE a == fr.alt
<1>1. Sound(f, Awaited(os)) /\ Shape(os, NBlocks(f)) /\ NBlocks(f) \in Nat
  BY BodyIs DEF Body
<1>2. a \in 1 .. NBlocks(f)
  <2>1. os[d] \in FrameSet /\ GoodFrame(os[d], NBlocks(f))
    BY <1>1, ShapeIs DEF Shape
  <2>2. os[d].alt \in Nat /\ os[d].alt # 0 /\ os[d].alt <= NBlocks(f)
    BY <2>1 DEF FrameSet, GoodFrame
  <2> QED BY <1>1, <2>2
<1>3. Ended(f.blocks[a]) /\ FirstOf(f.blocks[a]) = {x.head}
  BY DEF Gives
<1>4. Codes(f.blocks[a]) # {}
  BY <1>3 DEF FirstOf
<1>5. a \notin Awaited(os)
  BY <1>1, <1>2, <1>3 DEF Sound
<1>6. ~Terminated(f) => a # f.cur
  BY <1>1, <1>3, TerminatedIs
<1> QED BY <1>2, <1>3, <1>4, <1>5, <1>6 DEF Landing, IsBack

LEMMA FlownIfClose ==
  ASSUME NEW f, NEW os, NEW ls, NEW ns, Body(f, os, ls, ns),
         NEW es, NEW cm, Flown(f, os, ns, es, cm),
         NEW fr, NEW bs, Left(os, fr, bs), OnlyThen(fr), NEW ns2, NestsOut(fr, ns, ns2),
         NEW h, Went(f, fr.end, fr.end, h), ~Terminated(h),
         NEW dv \in BOOLEAN, NEW ps, IsAfter(bs, dv, ps)
  PROVE  Flown(h, ps, ns2, es, cm \cup {ns[Len(ns)].head})
<1> DEFINE V == Detours(os, f.cur)
           L == Len(os)
<1>1. fr = os[L] /\ L \in 1 .. L /\ fr.kind = "then" /\ LoopsOut(fr, ls, ls)
      /\ fr.kind \in {"then", "else", "while"} /\ fr.kind \in Compounds /\ fr.kind # "match"
  BY BodyIs DEF Left, OnlyThen, LoopsOut, Compounds
<1>2. Landing(f, Awaited(os), V, fr.end) /\ fr.end \in 1 .. NBlocks(f)
  BY <1>1, EndLanding
<1>3. WentTo(f, V, fr.end, h) /\ h.cur = fr.end
  BY <1>1, <1>2, GoneOn
<1> HIDE DEF V, L
<1>4. /\ Gives(f, V, fr, f.cur, ns[Len(ns)])
      /\ Flown(h, ps, ns2, es \cup (cm \X FirstOf(f.blocks[fr.end])), Before(f, V, fr.end) \cup cm)
  <2>1. V = Detours(os, f.cur)
    BY DEF V
  <2> DEFINE t == fr.end
  <2>2. (t = fr.end \/ t \notin Awaited(os)) /\ WentTo(f, V, t, h)
    BY <1>3
  <2>3. (IF t = fr.end THEN cm ELSE {}) = cm
    OBVIOUS
  <2> HIDE DEF t
  <2>4. OutFrom(f, os, ls, ns, es, cm, fr, bs, ls, ns2)
    BY <1>1 DEF OutFrom
  <2>5. OutBy(f, os, V, fr, t, h)
    BY <1>3, <2>1, <2>2 DEF OutBy
  <2>6. OutTo(f, V, ns, es, cm, fr, t, h, ps, ns2)
    BY <2>4, <2>5, FlownOut
  <2> QED BY <2>3, <2>6 DEF t, OutTo
<1>5. Before(f, V, fr.end) = {ns[Len(ns)].head} /\ FirstOf(f.blocks[fr.end]) = {}
  BY <1>4 DEF Gives, FirstOf
<1>6. es \cup (cm \X {}) = es /\ {ns[Len(ns)].head} \cup cm = cm \cup {ns[Len(ns)].head}
  OBVIOUS
<1> QED BY <1>4, <1>5, <1>6

LEMMA FlownElseClose ==
  ASSUME NEW f, NEW os, NEW ls, NEW ns, Body(f, os, ls, ns),
         NEW es, NEW cm, Flown(f, os, ns, es, cm),
         NEW fr, NEW bs, Left(os, fr, bs), fr.kind = "else", NEW ns2, NestsOut(fr, ns, ns2),
         NEW h, Went(f, fr.end, fr.end, h), ~Terminated(h),
         NEW dv \in BOOLEAN, NEW ps, IsAfter(bs, dv, ps)
  PROVE  Flown(h, ps, ns2, es, cm \cup ns[Len(ns)].outs)
<1> DEFINE V == Detours(os, f.cur)
           L == Len(os)
<1>1. fr = os[L] /\ L \in 1 .. L /\ LoopsOut(fr, ls, ls)
      /\ fr.kind \in {"then", "else", "while"} /\ fr.kind \in Compounds /\ fr.kind # "match"
  BY BodyIs DEF Left, LoopsOut, Compounds
<1>2. Landing(f, Awaited(os), V, fr.end) /\ fr.end \in 1 .. NBlocks(f)
  BY <1>1, EndLanding
<1>3. WentTo(f, V, fr.end, h) /\ h.cur = fr.end
  BY <1>1, <1>2, GoneOn
<1> HIDE DEF V, L
<1>4. /\ Gives(f, V, fr, f.cur, ns[Len(ns)])
      /\ Flown(h, ps, ns2, es \cup (cm \X FirstOf(f.blocks[fr.end])), Before(f, V, fr.end) \cup cm)
  <2>1. V = Detours(os, f.cur)
    BY DEF V
  <2> DEFINE t == fr.end
  <2>2. (t = fr.end \/ t \notin Awaited(os)) /\ WentTo(f, V, t, h)
    BY <1>3
  <2>3. (IF t = fr.end THEN cm ELSE {}) = cm
    OBVIOUS
  <2> HIDE DEF t
  <2>4. OutFrom(f, os, ls, ns, es, cm, fr, bs, ls, ns2)
    BY <1>1 DEF OutFrom
  <2>5. OutBy(f, os, V, fr, t, h)
    BY <1>3, <2>1, <2>2 DEF OutBy
  <2>6. OutTo(f, V, ns, es, cm, fr, t, h, ps, ns2)
    BY <2>4, <2>5, FlownOut
  <2> QED BY <2>3, <2>6 DEF t, OutTo
<1>5. Before(f, V, fr.end) = ns[Len(ns)].outs /\ FirstOf(f.blocks[fr.end]) = {}
  BY <1>4 DEF Gives, FirstOf
<1>6. es \cup (cm \X {}) = es /\ ns[Len(ns)].outs \cup cm = cm \cup ns[Len(ns)].outs
  OBVIOUS
<1> QED BY <1>4, <1>5, <1>6

LEMMA FlownWhileClose ==
  ASSUME NEW f, NEW os, NEW ls, NEW ns, Body(f, os, ls, ns),
         NEW es, NEW cm, Flown(f, os, ns, es, cm),
         NEW fr, NEW bs, Left(os, fr, bs), fr.kind = "while", NEW ls2, LoopsOut(fr, ls, ls2),
         NEW ns2, NestsOut(fr, ns, ns2), NEW h, Went(f, fr.alt, fr.end, h), ~Terminated(h),
         NEW dv \in BOOLEAN, NEW ps, IsAfter(bs, dv, ps), NEW x, x = ns[Len(ns)]
  PROVE  Flown(h, ps, ns2, es \cup (cm \X {x.head}), x.outs \cup {x.head})
<1> DEFINE V == Detours(os, f.cur)
           L == Len(os)
<1>1. fr = os[L] /\ L \in 1 .. L /\ L \in Nat \ {0}
      /\ fr.kind \in {"then", "else", "while"} /\ fr.kind \in Compounds /\ fr.kind # "match"
  BY BodyIs DEF Left, Compounds
<1>2. Gives(f, V, fr, f.cur, x)
  <2>1. x \in Giving(f, V, os)[L]
    BY <1>1, FlownIs, ToldTop
  <2> QED BY <1>1, <2>1, GivingIs DEF ChainOf
<1>3. /\ ~Terminated(f) => Landing(f, Awaited(os), V, fr.alt)
      /\ fr.alt \in 1 .. NBlocks(f) /\ fr.alt \notin Awaited(os)
      /\ FirstOf(f.blocks[fr.alt]) = {x.head} /\ Codes(f.blocks[fr.alt]) # {}
  <2>1. IsBack(f, os, V, fr.alt, x.head)
    BY <1>1, <1>2, BackLanding
  <2> QED BY <2>1 DEF IsBack
<1>4. WentTo(f, V, fr.alt, h) /\ h.cur = fr.end
  BY <1>1, <1>3, GoneOn
<1>5. fr.alt # fr.end
  BY <1>2, <1>3 DEF Gives
<1> HIDE DEF V, L
<1>6. Flown(h, ps, ns2, es \cup (cm \X FirstOf(f.blocks[fr.alt])),
            Before(f, V, fr.end) \cup (IF fr.alt = fr.end THEN cm ELSE {}))
  <2>1. OutFrom(f, os, ls, ns, es, cm, fr, bs, ls2, ns2)
    BY <1>1 DEF OutFrom
  <2> DEFINE t == fr.alt
  <2>2. OutBy(f, os, V, fr, t, h)
    BY <1>3, <1>4 DEF OutBy, V
  <2> HIDE DEF t
  <2>3. OutTo(f, V, ns, es, cm, fr, t, h, ps, ns2)
    BY <2>1, <2>2, FlownOut
  <2> QED BY <2>3 DEF t, OutTo
<1>7. Before(f, V, fr.end) \cup (IF fr.alt = fr.end THEN cm ELSE {}) = x.outs \cup {x.head}
  BY <1>2, <1>5 DEF Gives
<1> QED BY <1>3, <1>6, <1>7

\* From the then branch to the else branch.
LEMMA FlownElse ==
  ASSUME NEW f, NEW os, NEW ls, NEW ns, Body(f, os, ls, ns),
         NEW es, NEW cm, Flown(f, os, ns, es, cm),
         NEW L, NEW fr, NEW ps, NEW g, Recasts(os, L, fr, ps, g), Turned(fr, g),
         NEW y, y = ns[Len(ns)], NEW x \in NestSet, x.kind = y.kind, x.head = y.head, x.outs = cm, ~x.wild,
         NEW ms, Reset(ns, x, ms), NEW h, Went(f, fr.end, fr.alt, h), ~Terminated(h)
  PROVE  Flown(h, ps, ms, es, {y.head})
<1> DEFINE V == Detours(os, f.cur)
           n == NBlocks(f)
<1>1. /\ n \in Nat /\ Shape(os, n) /\ Apart(os) /\ L \in Nat \ {0} /\ L \in 1 .. L /\ fr = os[L] /\ L = Len(os)
      /\ Frames(os, n, ls, ns) /\ Len(ps) = L /\ ps[L] = g /\ \A d \in 1 .. L : d # L => ps[d] = os[d]
  BY BodyIs DEF Recasts, Body
<1>2. /\ fr.kind \in Compounds /\ fr.kind # "match" /\ fr.kind = "then" /\ fr.alt # 0 /\ ~OnlyThen(fr)
      /\ g.kind = "else" /\ SameNames(fr, g) /\ g.kind \in Compounds
  BY DEF Compounds, Turned, OnlyThen
<1>3. Told(os, ns, Giving(f, V, os)) /\ es = EdgesOf(f, V) /\ cm = Came(f, V)
  BY <1>1, <1>2, FlownIs
<1>4. Gives(f, V, fr, f.cur, y)
  <2>1. y \in Giving(f, V, os)[L]
    BY <1>1, <1>2, <1>3, ToldTop
  <2> QED BY <1>1, <2>1, GivingIs DEF ChainOf
<1>5. Landing(f, Awaited(os), V, fr.end) /\ fr.end \in 1 .. n /\ fr.end \in Awaits(fr)
  BY <1>1, <1>2, EndLanding
<1>6. WentTo(f, V, fr.end, h) /\ h.cur = fr.alt
  BY <1>1, <1>2, <1>5, GoneOn
<1>7. fr.alt \in Awaits(fr) /\ fr.alt \in 1 .. n /\ fr.alt # fr.end
  <2>1. fr.alt \in Awaits(fr)
    BY <1>2 DEF Awaits
  <2>2. fr.alt # fr.end
    BY <1>1, <1>2 DEF Shape, GoodFrame
  <2> QED BY <1>1, <2>1, <2>2, AwaitsAmong
<1>8. Unmoved(f, V, os, h, V, L)
  <2>1. ASSUME NEW d \in 1 .. L, d # L, NEW b \in Awaits(os[d]) PROVE Before(h, V, b) = Before(f, V, b)
    <3>1. b \in 1 .. n
      BY <1>1, <2>1, AwaitsAmong
    <3>2. b # fr.end
      BY <1>1, <1>5, <2>1 DEF Apart
    <3> QED BY <3>1, <3>2, <1>6 DEF WentTo
  <2> QED BY <1>1, <1>6, <2>1 DEF Unmoved, WentTo
<1>9. Follow(os, ps, f, h, L)
  <2>1. \A d \in 1 .. Len(os) : d # L => SameNames(os[d], ps[d])
    BY <1>1, SameNamesSelf
  <2>2. \A d \in 1 .. Len(os) : ps[d].resume = os[d].resume
    BY <1>1, <1>2 DEF SameNames
  <2> QED BY <1>1, <2>1, <2>2, FollowSame
<1>10. Retold(os, Giving(f, V, os), Giving(h, V, ps), L)
  <2>1. os[L].kind \notin Arms \/ L \notin 1 .. Len(os)
    BY <1>1, <1>2 DEF Arms, Compounds
  <2> QED BY <1>1, <1>8, <1>9, <2>1, FramesOn
<1>11. x \in Giving(h, V, ps)[L]
  <2>1. Before(h, V, fr.end) = Before(f, V, fr.end) \cup cm /\ Codes(h.blocks[fr.end]) = Codes(f.blocks[fr.end])
    BY <1>3, <1>5, <1>6 DEF WentTo
  <2>2. Before(f, V, fr.end) = {} /\ Codes(f.blocks[fr.end]) = {} /\ y.kind # "while"
    BY <1>2, <1>4 DEF Gives
  <2>3. Before(h, V, g.end) = x.outs /\ Codes(h.blocks[g.end]) = {} /\ x.kind # "while"
    <3>1. g.end = fr.end
      BY <1>2 DEF SameNames
    <3> QED BY <2>1, <2>2, <3>1
  <2>4. Gives(h, V, g, h.cur, x)
    BY <1>2, <2>3 DEF Gives, OnlyThen
  <2>5. L \in 1 .. Len(ps) /\ ChainOf(ps, h.cur, L) = h.cur
    BY <1>1 DEF ChainOf
  <2> QED BY <1>1, <2>4, <2>5, GivingIs
<1>12. Told(ps, ms, Giving(h, V, ps))
  <2>1. \A d \in 1 .. L : ps[d].kind \in Compounds <=> os[d].kind \in Compounds
    BY <1>1, <1>2
  <2>2. \A w : Marked(os, Len(os), Compounds, Len(ns), w) => Marked(ps, Len(ps), Compounds, Len(ns), w)
    BY <1>1, <2>1, MarkedSame
  <2>3. ms = [ns EXCEPT ![Len(ns)] = x]
    BY DEF Reset
  <2> HIDE DEF V
  <2> DEFINE m == Len(ns)
  <2>4. m = Len(ns) /\ ms = [ns EXCEPT ![m] = x]
    BY <2>3
  <2> HIDE DEF m
  <2> QED BY <1>1, <1>2, <1>3, <1>10, <1>11, <2>2, <2>4, ToldSet
<1>13. V = Detours(ps, h.cur)
  <2>1. Elsed(os, L, fr, ps, n, ls, ms)
    BY <1>1, ElseFrames
  <2> QED BY <2>1 DEF Elsed
<1>14. Came(h, V) = {y.head}
  <2>1. Waits(f, V, fr.alt, {y.head})
    BY <1>2, <1>4 DEF Gives
  <2>2. Codes(h.blocks[fr.alt]) = {} /\ Before(h, V, fr.alt) = {y.head} /\ fr.alt \in 1 .. NBlocks(h)
    BY <1>6, <1>7, <2>1 DEF WentTo, Waits
  <2>3. Past(h, V, fr.alt) = Before(h, V, fr.alt)
    BY <2>2, PastIs
  <2> QED BY <1>6, <2>2, <2>3 DEF Came
<1>15. es = EdgesOf(h, V)
  <2>1. FirstOf(f.blocks[fr.end]) = {}
    BY <1>4 DEF Gives, FirstOf
  <2>2. EdgesOf(h, V) = es \cup (cm \X FirstOf(f.blocks[fr.end]))
    BY <1>3, <1>6 DEF WentTo
  <2>3. es \cup (cm \X {}) = es
    OBVIOUS
  <2> QED BY <2>1, <2>2, <2>3
<1> QED BY <1>12, <1>13, <1>14, <1>15, FlownBy

-----------------------------------------------------------------------------
(* Jumps                                                                   *)

LEMMA BrEnds ==
  ASSUME NEW f, NEW P, Sound(f, P), NEW t
  PROVE  Terminated(Br(f, t))
<1> DEFINE g == Br(f, t)
           in == Jump("br", <<t>>)
           is == f.blocks[f.cur]
<1>1. f \in IR /\ f.cur \in 1 .. NBlocks(f) /\ is \in Seq(Ins)
  BY DEF Sound, IR, NBlocks
<1>2. g.cur = f.cur /\ g.blocks[f.cur] = Append(is, in)
  BY <1>1 DEF Br, Put, IR, NBlocks
<1>3. in.op \in Terminators
  BY DEF Jump, Terminators
<1> HIDE DEF g, in, is
<1>4. Append(is, in) # <<>> /\ Append(is, in)[Len(Append(is, in))] = in
  BY <1>1
<1>5. Terminated(g)
  BY <1>2, <1>3, <1>4 DEF Terminated
<1> QED BY <1>5 DEF g

\* The innermost loop is the frame dd and the construct j, x.
LoopAt(f, V, os, ns, dd, j, x) ==
  /\ j \in 1 .. Len(ns) /\ x = ns[j] /\ x \in NestSet
  /\ Gives(f, V, os[dd], ChainOf(os, f.cur, dd), x)
  /\ \A w : TellsOf(os, ns, Giving(f, V, os), w) => w[j] = dd

LEMMA LoopIs ==
  ASSUME NEW f, NEW os, NEW ls, NEW ns, Body(f, os, ls, ns), NEW V, Told(os, ns, Giving(f, V, os)),
         NEW dd, LoopIn(os, dd), NEW j, IsInner(ns, j)
  PROVE  LoopAt(f, V, os, ns, dd, j, ns[j])
<1> DEFINE G == Giving(f, V, os)
<1>1. Len(os) \in Nat /\ dd \in 1 .. Len(os)
  BY BodyIs DEF LoopIn
<1>2. \A d \in 1 .. Len(os) : os[d].kind \in Compounds =>
        \A y \in G[d] : y.kind = "while" <=> os[d].kind = "while"
  <2>1. ASSUME NEW d \in 1 .. Len(os), NEW y \in G[d] PROVE y.kind = "while" <=> os[d].kind = "while"
    <3> DEFINE c == ChainOf(os, f.cur, d)
    <3>1. Gives(f, V, os[d], c, y)
      BY <2>1, GivingIs
    <3> HIDE DEF c, G
    <3> QED BY <3>1 DEF Gives
  <2> HIDE DEF G
  <2> QED BY <2>1
<1>3. G[dd] = {y \in NestSet : Gives(f, V, os[dd], ChainOf(os, f.cur, dd), y)}
  BY <1>1, GivingIs
<1>4. G = Giving(f, V, os)
  OBVIOUS
<1> HIDE DEF G
<1>5. /\ j \in 1 .. Len(ns) /\ ns[j] \in NestSet /\ ns[j] \in G[dd]
      /\ \A w : TellsOf(os, ns, G, w) => w[j] = dd
  BY <1>1, <1>2, <1>4, ToldInner
<1> QED BY <1>3, <1>4, <1>5 DEF LoopAt

\* break: what the loop's end waits for is more.
BrokenBy(x, s, y) == y = [x EXCEPT !.outs = @ \cup {s}]

LEMMA BrokenIs ==
  ASSUME NEW x \in NestSet, NEW s \in Nat, NEW y, BrokenBy(x, s, y)
  PROVE  y \in NestSet /\ y.outs = x.outs \cup {s} /\ y.kind = x.kind /\ y.head = x.head
BY DEF BrokenBy, NestSet

LEMMA FlownBreak ==
  ASSUME NEW f, NEW os, NEW ls, NEW ns, Body(f, os, ls, ns), os[Len(os)].kind # "match", ~Terminated(f),
         NEW s \in Nat, NEW es, Flown(f, os, ns, es, {s}), NEW dd, LoopIn(os, dd),
         NEW j, IsInner(ns, j), NEW g, g = Br(f, os[dd].end),
         NEW y, BrokenBy(ns[j], s, y)
  PROVE  Flown(g, os, [ns EXCEPT ![j] = y], es, {})
<1> DEFINE V == Detours(os, f.cur)
           fr == os[dd]
           x == ns[j]
<1>1. /\ Len(os) \in Nat \ {0} /\ dd \in 1 .. Len(os) /\ fr.kind = "while" /\ fr.kind \in Compounds
      /\ NBlocks(f) \in Nat /\ Apart(os) /\ Sound(f, Awaited(os))
  BY BodyIs DEF LoopIn, Compounds, Body
<1>2. Told(os, ns, Giving(f, V, os)) /\ es = EdgesOf(f, V) /\ {s} = Came(f, V)
  BY FlownIs
<1>3. LoopAt(f, V, os, ns, dd, j, x)
  BY <1>2, LoopIs
<1>4. /\ x \in NestSet /\ Codes(f.blocks[fr.end]) = {} /\ Before(f, V, fr.end) = x.outs \cup {x.head}
      /\ Ended(f.blocks[fr.alt]) /\ FirstOf(f.blocks[fr.alt]) = {x.head} /\ x.kind = "while"
  BY <1>1, <1>3 DEF LoopAt, Gives
<1>5. Landing(f, Awaited(os), V, fr.end) /\ fr.end \in 1 .. NBlocks(f) /\ fr.end \in Awaits(fr)
  BY <1>1, EndLanding
<1>6. V \in Ways(NBlocks(f)) /\ OutOf(V, f.cur) = {}
  BY WaysOut
<1>7. WentTo(f, V, fr.end, g)
  BY <1>1, <1>5, <1>6, BrWent
<1>8. Unmoved(f, V, os, g, V, dd)
  <2>1. ASSUME NEW d \in 1 .. Len(os), d # dd, NEW b \in Awaits(os[d]) PROVE Before(g, V, b) = Before(f, V, b)
    <3>1. b \in 1 .. NBlocks(f)
      BY <2>1, AwaitsAmong
    <3>2. b # fr.end
      BY <1>1, <1>5, <2>1 DEF Apart
    <3> QED BY <3>1, <3>2, <1>7 DEF WentTo
  <2> QED BY <1>1, <1>7, <2>1 DEF Unmoved, WentTo
<1>9. Follow(os, os, f, g, dd)
  <2>1. \A d \in 1 .. Len(os) : SameNames(os[d], os[d])
    BY SameNamesSelf
  <2> QED BY <1>1, <2>1, FollowSame
<1>10. Retold(os, Giving(f, V, os), Giving(g, V, os), dd)
  <2>1. os[dd].kind \notin Arms
    BY <1>1 DEF Arms, Compounds
  <2> QED BY <1>8, <1>9, <2>1, FramesOn
<1>11. y \in NestSet /\ y.outs = x.outs \cup {s} /\ y.kind = x.kind /\ y.head = x.head
  BY <1>4, BrokenIs
<1>12. y \in Giving(g, V, os)[dd]
  <2>1. Before(g, V, fr.end) = y.outs \cup {y.head}
    <3>1. Before(g, V, fr.end) = Before(f, V, fr.end) \cup {s}
      BY <1>2, <1>5, <1>7 DEF WentTo
    <3> QED BY <3>1, <1>4, <1>11
  <2>2. Codes(g.blocks[fr.end]) = {}
    BY <1>4, <1>5, <1>7 DEF WentTo
  <2>3. g.blocks[fr.alt] = f.blocks[fr.alt]
    <3>1. fr.alt \in 1 .. NBlocks(f)
      <4>1. IsBack(f, os, V, fr.alt, x.head)
        BY <1>1, <1>3, BackLanding DEF LoopAt
      <4> QED BY <4>1 DEF IsBack
    <3> QED BY <3>1, <1>4, <1>7 DEF WentTo, Kept
  <2> DEFINE e == ChainOf(os, g.cur, dd)
  <2>4. Gives(g, V, fr, e, y)
    BY <1>1, <1>4, <1>11, <2>1, <2>2, <2>3 DEF Gives, OnlyThen
  <2> QED BY <1>1, <1>11, <2>4, GivingIs
<1>13. Told(os, [ns EXCEPT ![j] = y], Giving(g, V, os))
  <2>1. ns \in Seq(NestSet) /\ \E w : TellsOf(os, ns, Giving(f, V, os), w)
    BY <1>2 DEF Told
  <2>2. PICK w : TellsOf(os, ns, Giving(f, V, os), w)
    BY <2>1
  <2>3. w[j] = dd /\ j \in 1 .. Len(ns)
    BY <1>3, <2>2 DEF LoopAt
  <2>4. Marked(os, Len(os), Compounds, Len(ns), w)
    BY <2>2 DEF TellsOf
  <2> DEFINE G == Giving(f, V, os)
             H == Giving(g, V, os)
  <2>5. TellsOf(os, ns, G, w) /\ y \in H[w[j]] /\ Retold(os, G, H, w[j])
    BY <1>10, <1>12, <2>2, <2>3
  <2> HIDE DEF G, H, V, x, fr
  <2>6. Told(os, [ns EXCEPT ![j] = y], H)
    BY <1>11, <2>1, <2>3, <2>4, <2>5, ToldOne
  <2> QED BY <2>6 DEF H
<1>14. V = Detours(os, g.cur)
  BY DetoursFixed
<1>15. es = EdgesOf(g, V)
  <2>1. FirstOf(f.blocks[fr.end]) = {}
    BY <1>4 DEF FirstOf
  <2>2. EdgesOf(g, V) = es \cup ({s} \X FirstOf(f.blocks[fr.end]))
    BY <1>2, <1>7 DEF WentTo
  <2>3. es \cup ({s} \X {}) = es
    OBVIOUS
  <2> QED BY <2>1, <2>2, <2>3
<1>16. {} = Came(g, V)
  BY <1>1, BrEnds DEF Came
<1> DEFINE ms == [ns EXCEPT ![j] = y]
<1> HIDE DEF V, ms
<1>17. Flown(g, os, ms, es, {})
  BY <1>13, <1>14, <1>15, <1>16, FlownBy DEF ms
<1> QED BY <1>17 DEF ms

\* continue: back to the condition.
LEMMA FlownContinue ==
  ASSUME NEW f, NEW os, NEW ls, NEW ns, Body(f, os, ls, ns), os[Len(os)].kind # "match", ~Terminated(f),
         NEW s \in Nat, NEW es, Flown(f, os, ns, es, {s}), NEW dd, LoopIn(os, dd),
         NEW j, IsInner(ns, j), NEW g, g = Br(f, os[dd].alt),
         NEW fs, fs = es \cup {<<s, ns[j].head>>}
  PROVE  Flown(g, os, ns, fs, {})
<1> DEFINE V == Detours(os, f.cur)
           fr == os[dd]
           x == ns[j]
<1>1. /\ Len(os) \in Nat \ {0} /\ dd \in 1 .. Len(os) /\ fr.kind = "while"
      /\ NBlocks(f) \in Nat /\ Sound(f, Awaited(os))
  BY BodyIs DEF LoopIn, Body
<1>2. Told(os, ns, Giving(f, V, os)) /\ es = EdgesOf(f, V) /\ {s} = Came(f, V)
  BY FlownIs
<1>3. LoopAt(f, V, os, ns, dd, j, x)
  BY <1>2, LoopIs
<1>4. IsBack(f, os, V, fr.alt, x.head)
  BY <1>1, <1>3, BackLanding DEF LoopAt
<1>5. V \in Ways(NBlocks(f)) /\ OutOf(V, f.cur) = {}
  BY WaysOut
<1>6. WentTo(f, V, fr.alt, g)
  BY <1>1, <1>4, <1>5, BrWent DEF IsBack
<1>7. Unmoved(f, V, os, g, V, 0)
  <2>1. ASSUME NEW d \in 1 .. Len(os), NEW b \in Awaits(os[d]) PROVE Before(g, V, b) = Before(f, V, b)
    <3>1. b \in 1 .. NBlocks(f) /\ b # fr.alt
      BY <2>1, <1>4, AwaitsAmong DEF IsBack
    <3> QED BY <3>1, <1>6 DEF WentTo
  <2> QED BY <1>1, <1>6, <2>1 DEF Unmoved, WentTo
<1>8. Follow(os, os, f, g, 0)
  <2>1. \A d \in 1 .. Len(os) : SameNames(os[d], os[d])
    BY SameNamesSelf
  <2> QED BY <1>1, <2>1, FollowSame
<1>9. Retold(os, Giving(f, V, os), Giving(g, V, os), 0)
  <2>1. 0 \notin 1 .. Len(os)
    OBVIOUS
  <2> QED BY <1>7, <1>8, <2>1, FramesOn
<1>10. Told(os, ns, Giving(g, V, os))
  BY <1>1, <1>2, <1>9, ToldStay
<1>11. V = Detours(os, g.cur)
  BY DetoursFixed
<1>12. fs = EdgesOf(g, V)
  <2>1. EdgesOf(g, V) = es \cup ({s} \X {x.head})
    BY <1>2, <1>4, <1>6 DEF WentTo, IsBack
  <2>2. {s} \X {x.head} = {<<s, x.head>>}
    OBVIOUS
  <2> QED BY <2>1, <2>2
<1>13. {} = Came(g, V)
  BY <1>1, BrEnds DEF Came
<1> HIDE DEF V
<1> QED BY <1>10, <1>11, <1>12, <1>13, FlownBy

\* return.
LEMMA FlownReturn ==
  ASSUME NEW f, NEW os, NEW ls, NEW ns, Body(f, os, ls, ns), os[Len(os)].kind # "match", ~Terminated(f),
         NEW es, NEW cm, Flown(f, os, ns, es, cm), NEW g, g = Put(f, Jump("ret", <<>>))
  PROVE  Flown(g, os, ns, es, {})
<1> DEFINE V == Detours(os, f.cur)
<1>1. Sound(f, Awaited(os)) /\ V \in Ways(NBlocks(f)) /\ OutOf(V, f.cur) = {}
  BY WaysOut DEF Body
<1>2. Terminated(g)
  BY <1>1, RetStep
<1>3. Led(f, V, {}, g)
  BY <1>1, ExitFlow
<1> HIDE DEF V
<1> QED BY <1>2, <1>3, FlownGone DEF V

-----------------------------------------------------------------------------
(* Statements open                                                         *)

\* The construct of the statement s that opens.
Begun(x, k, s) == x = Construct(k, s)

LEMMA BegunIs ==
  ASSUME NEW k \in {"if", "while", "match"}, NEW s \in Nat, NEW x, Begun(x, k, s)
  PROVE  x \in NestSet /\ x.kind = k /\ x.head = s /\ x.outs = {} /\ ~x.wild
BY DEF Begun, Construct, NestSet

\* What a statement's condition carries from where the statement stands.
LEMMA JudgedFrom ==
  ASSUME NEW f, NEW os, NEW ns, NEW es, NEW cm, Flown(f, os, ns, es, cm), os[Len(os)].kind # "match",
         ~Terminated(f), NEW V, V = Detours(os, f.cur), NEW s, NEW h, Judges(f, V, s, h)
  PROVE  Carried(f, V, h, cm \X {s}, {s})
<1>1. cm = Past(f, V, f.cur)
  BY FlownIs DEF Came
<1> QED BY <1>1 DEF Judges

\* What a step into an if does.
IfOpened(f, os, s, shape, k, n, h, fr, ps) ==
  /\ IfIs(f, s, shape, k, n, h) /\ k \in {2, 3} /\ Entered(os, fr, ps)
  /\ NewFrame(fr, "then", FALSE, n + k, IF k = 3 THEN n + 2 ELSE 0)

LEMMA FlownIfOpen ==
  ASSUME NEW f, NEW os, NEW ls, NEW ns, Body(f, os, ls, ns), os[Len(os)].kind \in Lasts, ~Terminated(f),
         NEW es, NEW cm, Flown(f, os, ns, es, cm), NEW s \in Nat, NEW shape, NEW k, NEW n, NEW h, NEW fr, NEW ps,
         IfOpened(f, os, s, shape, k, n, h, fr, ps), NEW x, Begun(x, "if", s), NEW ms, ms = Append(ns, x)
  PROVE  Flown(h, ps, ms, es \cup (cm \X {s}), {s})
<1>0. /\ IfIs(f, s, shape, k, n, h) /\ k \in {2, 3} /\ Entered(os, fr, ps)
      /\ NewFrame(fr, "then", FALSE, n + k, IF k = 3 THEN n + 2 ELSE 0)
  BY DEF IfOpened
<1> DEFINE V == Detours(os, f.cur)
           P == Awaited(os)
<1>1. os[Len(os)].kind # "match" /\ Sound(f, P) /\ n = NBlocks(f) /\ n \in Nat
  BY <1>0, BodyIs DEF Lasts, Lists, Body, IfIs
<1>2. Detoured(V, NBlocks(f), P)
  BY <1>1, WaysOut
<1>3. IfLeads(f, V, s, k, n, h)
  BY <1>0, <1>1, <1>2, IfFlow
<1>4. ~Terminated(h) /\ NBlocks(h) \in Nat
  <2>1. IfReady(f, P, k, n, h)
    BY <1>0, <1>1, IfBuilt
  <2>2. ~Terminated(h) /\ Sound(h, P \cup (n + 2 .. n + k))
    BY <2>1 DEF IfReady
  <2> QED BY <2>2, SoundSize
<1> HIDE DEF P
<1>5. Carried(f, V, h, cm \X {s}, {s})
  BY <1>1, <1>3, JudgedFrom DEF IfLeads
<1>6. /\ fr.kind = "then" /\ fr.kind \in Compounds /\ fr.wild = 0
      /\ k = 2 => fr.end = n + 2 /\ fr.alt = 0
      /\ k = 3 => fr.end = n + 3 /\ fr.alt = n + 2
      /\ k = 2 \/ k = 3
  BY <1>0 DEF NewFrame, Compounds
<1>7. x \in NestSet /\ x.kind = "if" /\ x.head = s /\ x.outs = {}
  BY BegunIs
<1>8. Gives(h, V, fr, h.cur, x)
  <2>1. Waits(h, V, n + 2, {s}) /\ (k = 3 => Waits(h, V, n + 3, {}))
    BY <1>3 DEF IfLeads
  <2> HIDE DEF V
  <2>2. CASE k = 2
    <3> DEFINE e == n + 2
    <3>1. fr.end = e /\ fr.alt = 0 /\ Waits(h, V, e, {s})
      BY <1>6, <2>1, <2>2
    <3> HIDE DEF e
    <3> QED BY <1>6, <1>7, <3>1 DEF Gives, OnlyThen, Waits
  <2>3. CASE k = 3
    <3> DEFINE e == n + 3
               a == n + 2
    <3>1. fr.end = e /\ fr.alt = a /\ Waits(h, V, e, {}) /\ Waits(h, V, a, {s}) /\ a # 0
      BY <1>1, <1>6, <2>1, <2>3
    <3> HIDE DEF e, a
    <3> QED BY <1>6, <1>7, <3>1 DEF Gives, OnlyThen, Waits
  <2> QED BY <1>6, <2>2, <2>3
<1> DEFINE X == cm \X {s}
           S == {s}
<1>9. V = Detours(os, f.cur) /\ Carried(f, V, h, X, S)
  BY <1>5
<1> HIDE DEF V, X, S
<1>10. Flown(h, ps, ms, es \cup X, S)
  BY <1>0, <1>4, <1>6, <1>7, <1>8, <1>9, FlownInto
<1> QED BY <1>10 DEF X, S

LEMMA FlownWhileOpen ==
  ASSUME NEW f, NEW os, NEW ls, NEW ns, Body(f, os, ls, ns), os[Len(os)].kind \in Lasts, ~Terminated(f),
         NEW es, NEW cm, Flown(f, os, ns, es, cm), NEW s \in Nat, NEW shape, NEW n, NEW h,
         WhileIs(f, s, shape, n, h), NEW fr, NewFrame(fr, "while", FALSE, n + 3, n + 1),
         NEW ps, Entered(os, fr, ps), NEW x, Begun(x, "while", s), NEW ms, ms = Append(ns, x)
  PROVE  Flown(h, ps, ms, es \cup (cm \X {s}), {s})
<1> DEFINE V == Detours(os, f.cur)
           P == Awaited(os)
<1>1. os[Len(os)].kind # "match" /\ Sound(f, P) /\ n = NBlocks(f) /\ n \in Nat /\ Shape(os, n)
  BY BodyIs DEF Lasts, Lists, Body, WhileIs
<1>2. Detoured(V, NBlocks(f), P)
  BY <1>1, WaysOut
<1>3. WhileLeads(f, V, s, n, h)
  BY <1>1, <1>2, WhileFlow
<1>4. WhileReady(f, P, n, h)
  BY <1>1, WhileBuilt
<1>5. ~Terminated(h) /\ Sound(h, P \cup {n + 3}) /\ h.cur = n + 2 /\ n + 3 <= NBlocks(h)
  BY <1>4 DEF WhileReady
<1>6. NBlocks(h) \in Nat
  BY <1>5, SoundSize
<1>7. Ended(h.blocks[n + 1])
  <2>1. P \in SUBSET (1 .. n)
    BY <1>1, AwaitedIn
  <2> HIDE DEF P
  <2>2. n + 1 \notin P \cup {n + 3} /\ n + 1 # n + 2 /\ n + 1 \in 1 .. NBlocks(h)
    BY <1>1, <1>5, <1>6, <2>1
  <2> QED BY <1>5, <2>2 DEF Sound
<1> HIDE DEF P
<1>8. Carried(f, V, h, cm \X {s}, {s})
  BY <1>1, <1>3, JudgedFrom DEF WhileLeads
<1>9. fr.kind = "while" /\ fr.kind \in Compounds /\ fr.wild = 0 /\ fr.end = n + 3 /\ fr.alt = n + 1
  BY DEF NewFrame, Compounds
<1>10. x \in NestSet /\ x.kind = "while" /\ x.head = s /\ x.outs = {}
  BY BegunIs
<1>11. Gives(h, V, fr, h.cur, x)
  <2> DEFINE e == n + 3
             a == n + 1
  <2>1. fr.end = e /\ fr.alt = a /\ Waits(h, V, e, {s}) /\ FirstOf(h.blocks[a]) = {s} /\ Ended(h.blocks[a])
    BY <1>3, <1>7, <1>9 DEF WhileLeads
  <2> HIDE DEF e, a, V
  <2> QED BY <1>9, <1>10, <2>1 DEF Gives, OnlyThen, Waits
<1> DEFINE X == cm \X {s}
           S == {s}
<1>12. V = Detours(os, f.cur) /\ Carried(f, V, h, X, S)
  BY <1>8
<1> HIDE DEF V, X, S
<1>13. Flown(h, ps, ms, es \cup X, S)
  BY <1>5, <1>6, <1>9, <1>10, <1>11, <1>12, FlownInto
<1> QED BY <1>13 DEF X, S

LEMMA FlownMatchOpen ==
  ASSUME NEW f, NEW os, NEW ls, NEW ns, Body(f, os, ls, ns), os[Len(os)].kind \in Lasts, ~Terminated(f),
         NEW s \in Nat, NEW es, Flown(f, os, ns, es, {s}), NEW h, h = Fresh(f, 1), NEW n, n = NBlocks(f),
         NEW fr, NewFrame(fr, "match", TRUE, n + 1, 0),
         NEW ps, Entered(os, fr, ps), NEW x, Begun(x, "match", s), NEW ms, ms = Append(ns, x)
  PROVE  Flown(h, ps, ms, es, {s})
<1> DEFINE V == Detours(os, f.cur)
           P == Awaited(os)
<1>1. /\ os[Len(os)].kind # "match" /\ Sound(f, P) /\ n \in Nat /\ V \in Ways(NBlocks(f))
      /\ f.cur \in 1 .. n
  BY BodyIs DEF Lasts, Lists, Body
<1>2. Spread(f, V, h) /\ Widened(f, 1, h)
  BY <1>1, FreshFlow
<1>3. /\ ~Terminated(h) /\ NBlocks(h) = n + 1 /\ NBlocks(h) \in Nat /\ h.cur = f.cur
  <2>1. NBlocks(h) = NBlocks(f) + 1 /\ h.cur = f.cur /\ (Terminated(h) <=> Terminated(f))
    BY <1>1, FreshStep
  <2> QED BY <1>1, <2>1
<1> HIDE DEF P
<1>4. {s} = Past(f, V, f.cur)
  BY <1>1, FlownIs DEF Came
<1>5. Carried(f, V, h, {}, {s})
  BY <1>1, <1>2, <1>3, <1>4 DEF Carried, Spread
<1>6. fr.kind = "match" /\ fr.kind \in Compounds /\ fr.wild = 0 /\ fr.end = n + 1 /\ fr.alt = 0
  BY DEF NewFrame, Compounds
<1>7. x \in NestSet /\ x.kind = "match" /\ x.head = s /\ x.outs = {}
  BY BegunIs
<1>8. Gives(h, V, fr, h.cur, x)
  <2>1. n + 1 \in 1 .. NBlocks(h) /\ n + 1 \notin 1 .. NBlocks(f)
    BY <1>1, <1>3
  <2>2. Before(h, V, n + 1) = {} /\ Codes(h.blocks[n + 1]) = {} /\ Past(h, V, h.cur) = {s}
    BY <1>5, <1>2, <2>1 DEF Spread, Carried
  <2> DEFINE e == n + 1
  <2>3. fr.end = e /\ Before(h, V, e) = {} /\ Codes(h.blocks[e]) = {} /\ Past(h, V, h.cur) = {s}
    BY <1>6, <2>2
  <2> HIDE DEF e, V
  <2> QED BY <1>6, <1>7, <2>3 DEF Gives, OnlyThen
<1> DEFINE X == {}
           S == {s}
<1>9. V = Detours(os, f.cur) /\ Carried(f, V, h, X, S) /\ Flown(f, os, ns, es, S)
  BY <1>5
<1> HIDE DEF V, X, S
<1>10. Flown(h, ps, ms, es \cup X, S)
  BY <1>3, <1>6, <1>7, <1>8, <1>9, FlownInto
<1>11. es \cup X = es
  BY DEF X
<1> QED BY <1>10, <1>11 DEF S

-----------------------------------------------------------------------------
(* Matches                                                                 *)

\* The frames within a match's, and around it.
LEMMA OverMatch ==
  ASSUME NEW f, NEW os, NEW ls, NEW ns, Body(f, os, ls, ns),
         NEW L, NEW fr, NEW os1, NEW g, Recasts(os, L, fr, os1, g), MatchAlike(fr, g),
         NEW arm, arm.kind = "arm", arm.wild = 0, NEW ps, Entered(os1, arm, ps), NEW h
  PROVE  /\ Len(ps) = L + 1 /\ L \in Nat \ {0} /\ ps[L] = g /\ ps[L + 1] = arm /\ fr = os[L] /\ L = Len(os)
         /\ \A c : Detours(ps, c) = With(InnerTo(os, L), arm.resume, g.wild)
         /\ \A d \in 1 .. L : d # L => ps[d] = os[d]
         /\ Follow(os, ps, f, h, L)
<1>1. /\ L \in Nat \ {0} /\ L = Len(os) /\ os[L] = fr /\ Shape(os, NBlocks(f))
  BY BodyIs DEF Recasts
<1>2. /\ Len(os1) = L /\ os1[L] = g /\ \A d \in 1 .. L : d # L => os1[d] = os[d]
  BY DEF Recasts
<1>3. /\ Len(ps) = L + 1 /\ ps[L + 1] = arm /\ \A d \in 1 .. L : ps[d] = os1[d]
  BY <1>2 DEF Entered
<1>4. ps[L] = g /\ \A d \in 1 .. L : d # L => ps[d] = os[d]
  BY <1>1, <1>2, <1>3
<1>5. ASSUME NEW d \in 1 .. L, d # L, os[d].kind = "match" PROVE d + 1 \in 1 .. L /\ d + 1 # L
  <2>1. d \in 1 .. Len(os) - 1
    BY <1>1, <1>5
  <2>2. os[d + 1].kind \in Arms
    BY <1>1, <1>5, <2>1 DEF Shape
  <2>3. d + 1 # L
    BY <1>1, <2>2 DEF Arms, MatchAlike
  <2> QED BY <1>1, <2>1, <2>3
<1>6. Follow(os, ps, f, h, L)
  <2>1. ASSUME NEW d \in 1 .. L, d # L, os[d].kind = "match"
        PROVE  ChainOf(ps, h.cur, d) = ChainOf(os, f.cur, d)
    <3>1. d + 1 \in 1 .. L /\ d + 1 # L /\ d # L + 1
      BY <1>1, <1>5, <2>1
    <3>2. ps[d + 1] = os[d + 1]
      BY <1>4, <3>1
    <3> QED BY <1>1, <1>3, <2>1, <3>1, <3>2 DEF ChainOf
  <2>2. \A d \in 1 .. L : d # L => d \in 1 .. Len(ps) /\ SameNames(os[d], ps[d]) /\ ps[d].kind = os[d].kind
    BY <1>1, <1>3, <1>4, SameNamesSelf
  <2> QED BY <1>1, <2>1, <2>2 DEF Follow
<1>7. InnerTo(ps, L + 1) = With(InnerTo(os, L), arm.resume, g.wild)
  <2>1. ASSUME NEW d \in 1 .. L - 1
        PROVE  /\ ps[d].kind = "match" <=> os[d].kind = "match"
               /\ ps[d].wild = os[d].wild /\ ps[d + 1].resume = os[d + 1].resume
    <3>1. d \in 1 .. L /\ d # L /\ d + 1 \in 1 .. L
      BY <1>1, <2>1
    <3>2. g.resume = fr.resume
      BY DEF MatchAlike, SameNames
    <3>3. ps[d] = os[d] /\ (d + 1 # L => ps[d + 1] = os[d + 1])
      BY <1>4, <3>1
    <3> QED BY <1>1, <1>4, <3>2, <3>3
  <2>2. InnerTo(ps, L) = InnerTo(os, L)
    BY <2>1, InnerSame
  <2>3. InnerTo(ps, L + 1) = With(InnerTo(ps, L), ps[L + 1].resume, WildOf(ps[L]))
    BY <1>1, InnerNext
  <2>4. WildOf(g) = g.wild
    BY DEF WildOf, MatchAlike
  <2> QED BY <1>3, <1>4, <2>2, <2>3, <2>4
<1>8. ASSUME NEW c PROVE Detours(ps, c) = With(InnerTo(os, L), arm.resume, g.wild)
  <2>1. WildOf(arm) = 0
    BY DEF WildOf
  <2>2. Detours(ps, c) = With(InnerTo(ps, L + 1), c, 0)
    BY <1>3, <2>1 DEF Detours
  <2>3. \A W : With(W, c, 0) = W
    BY DEF With
  <2> QED BY <1>7, <2>2, <2>3
<1> QED BY <1>1, <1>3, <1>4, <1>6, <1>8

\* The marks of frames with a match's changed and an arm within it.
LEMMA MarkedArm ==
  ASSUME NEW os, NEW L \in Nat \ {0}, L = Len(os), NEW ps, Len(ps) = L + 1,
         \A d \in 1 .. L : d # L => ps[d] = os[d], ps[L].kind = os[L].kind, ps[L + 1].kind \notin Compounds,
         NEW n \in Nat, NEW w, Marked(os, Len(os), Compounds, n, w)
  PROVE  Marked(ps, Len(ps), Compounds, n, w)
<1> DEFINE K == Compounds
<1>1. \A d \in 1 .. L : ps[d].kind \in K <=> os[d].kind \in K
  BY DEF K
<1>2. Marked(os, L, K, n, w) /\ ps[L + 1].kind \notin K
  OBVIOUS
<1> HIDE DEF K
<1>3. Marked(ps, L + 1, K, n, w)
  BY <1>1, <1>2, MarkedPushOther
<1> QED BY <1>3 DEF K

LEMMA FlownArm ==
  ASSUME NEW f, NEW os, NEW ls, NEW ns, Body(f, os, ls, ns), NEW es, NEW cm, Flown(f, os, ns, es, cm),
         NEW k \in Nat \ {0}, NEW isWild \in BOOLEAN, NEW n, NEW t, NEW h, ArmIs(f, k, isWild, n, t, h),
         NEW L, NEW fr, NEW os1, NEW g, Recasts(os, L, fr, os1, g), Wilder(fr, g, isWild, n),
         NEW arm, ArmFrame(arm, fr.end, t.cur), NEW ps, Entered(os1, arm, ps),
         NEW y, SameConstruct(ns[Len(ns)], y), NEW ms, Reset(ns, y, ms)
  PROVE  Flown(h, ps, ms, es, {y.head})
<1> DEFINE B == Detours(os, f.cur)
           P == Awaited(os)
           V == InnerTo(os, L)
           A == With(V, t.cur, g.wild)
           x == ns[Len(ns)]
<1>1. MatchAlike(fr, g) /\ arm.kind = "arm" /\ arm.wild = 0 /\ arm.resume = t.cur
  BY DEF Wilder, ArmFrame
<1>2. /\ Len(ps) = L + 1 /\ L \in Nat \ {0} /\ ps[L] = g /\ ps[L + 1] = arm /\ fr = os[L] /\ L = Len(os)
      /\ \A c : Detours(ps, c) = A
      /\ \A d \in 1 .. L : d # L => ps[d] = os[d]
      /\ Follow(os, ps, f, h, L)
  BY <1>1, OverMatch
<1>3. fr.kind = "match" /\ fr.kind \in Compounds /\ g.kind = "match" /\ SameNames(fr, g)
  BY <1>1 DEF MatchAlike, Compounds
<1>4. /\ Sound(f, P) /\ ~Terminated(f) /\ n = NBlocks(f) /\ n \in Nat
      /\ fr \in FrameSet /\ GoodFrame(fr, n)
  BY <1>2, <1>3, BodyIs DEF Body, ArmIs
<1>5. V \in Ways(n) /\ OutOf(V, f.cur) = {}
  BY <1>2, <1>4, WaysOut
<1>6. fr.wild \in 0 .. n /\ (isWild => fr.wild = 0) /\ g.wild = IF isWild THEN n + 1 ELSE fr.wild
  BY <1>4 DEF FrameSet, GoodFrame, Wilder
<1>7. ArmLeads(f, n, V, fr.wild, g.wild, t, h)
  <2> HIDE DEF P, V
  <2> QED BY <1>4, <1>5, <1>6, ArmSays
<1>8. B = With(V, f.cur, fr.wild)
  BY <1>2, <1>3 DEF Detours, WildOf
<1>9. /\ \A b \in 1 .. n : Before(h, A, b) = Before(f, B, b)
      /\ Past(h, A, t.cur) = Past(f, B, f.cur) /\ Past(h, A, h.cur) = Past(f, B, f.cur)
      /\ EdgesOf(h, A) = EdgesOf(f, B) /\ Kept(f, h, f.cur)
  BY <1>7, <1>8 DEF ArmLeads
<1>10. ~Terminated(h) /\ NBlocks(h) \in Nat
  <2>1. ArmReady(f, P, isWild, n, t, h)
    BY <1>4, ArmBuilt
  <2>2. ~Terminated(h) /\ Sound(h, P \cup {t.cur})
    BY <2>1 DEF ArmReady
  <2> QED BY <2>2, SoundSize
<1>11. Told(os, ns, Giving(f, B, os)) /\ es = EdgesOf(f, B)
  BY FlownIs
<1> HIDE DEF P, V, A
<1>12. Unmoved(f, B, os, h, A, L)
  <2>1. ASSUME NEW d \in 1 .. Len(os), NEW b \in Awaits(os[d]) PROVE Before(h, A, b) = Before(f, B, b)
    BY <1>4, <1>9, <2>1, AwaitsAmong
  <2> QED BY <1>9, <1>10, <2>1 DEF Unmoved
<1> HIDE DEF B
<1>13. Retold(os, Giving(f, B, os), Giving(h, A, ps), L)
  <2>1. os[L].kind \notin Arms
    BY <1>2, <1>3 DEF Arms
  <2> QED BY <1>2, <1>12, <2>1, FramesOn
<1>14. Gives(f, B, fr, f.cur, x)
  <2>1. x \in Giving(f, B, os)[L] /\ L \in 1 .. L
    BY <1>2, <1>3, <1>11, ToldTop
  <2> QED BY <1>2, <2>1, GivingIs DEF ChainOf
<1>15. y \in Giving(h, A, ps)[L]
  <2>1. fr.end \in Awaits(fr) /\ L \in 1 .. Len(os) /\ L \in 1 .. Len(ps) /\ L # Len(ps)
    BY <1>2, <1>3 DEF Awaits
  <2>2. fr.end \in 1 .. n /\ fr.end # f.cur
    BY <1>2, <1>4, <2>1, AwaitsAmong
  <2>3. h.blocks[fr.end] = f.blocks[fr.end] /\ Before(h, A, fr.end) = Before(f, B, fr.end)
    BY <1>4, <1>9, <2>2 DEF Kept
  <2>4. Codes(f.blocks[fr.end]) = {} /\ Before(f, B, fr.end) = x.outs /\ Past(f, B, f.cur) = {x.head} /\ x.kind # "while"
    BY <1>3, <1>14 DEF Gives
  <2>5. y \in NestSet /\ y.kind = x.kind /\ y.head = x.head /\ y.outs = x.outs
    BY DEF SameConstruct
  <2>6. g.end = fr.end
    BY <1>3 DEF SameNames
  <2>7. Gives(h, A, g, t.cur, y)
    <3> HIDE DEF x
    <3> QED BY <1>3, <1>9, <2>3, <2>4, <2>5, <2>6 DEF Gives, OnlyThen
  <2>8. ChainOf(ps, h.cur, L) = t.cur
    BY <1>1, <1>2, <2>1 DEF ChainOf
  <2> QED BY <1>2, <2>1, <2>5, <2>7, <2>8, GivingIs
<1>16. Told(ps, ms, Giving(h, A, ps))
  <2> DEFINE m == Len(ns)
             G == Giving(f, B, os)
             H == Giving(h, A, ps)
  <2>1. ns \in Seq(NestSet)
    BY <1>11 DEF Told
  <2>2. \A w : Marked(os, Len(os), Compounds, m, w) => Marked(ps, Len(ps), Compounds, m, w)
    <3>1. m \in Nat /\ ps[L].kind = os[L].kind /\ ps[L + 1].kind \notin Compounds
      BY <1>1, <1>2, <1>3, <2>1 DEF Compounds
    <3> HIDE DEF m
    <3> QED BY <1>2, <3>1, MarkedArm
  <2>3. m = Len(ns) /\ ms = [ns EXCEPT ![m] = y] /\ y \in NestSet
    BY DEF Reset
  <2>4. Told(os, ns, G) /\ Retold(os, G, H, Len(os)) /\ y \in H[Len(os)] /\ os[Len(os)].kind \in Compounds
    BY <1>2, <1>3, <1>11, <1>13, <1>15
  <2> HIDE DEF m, G, H
  <2>5. Told(ps, ms, H)
    BY <1>2, <2>2, <2>3, <2>4, ToldSet
  <2> QED BY <2>5 DEF H
<1>17. A = Detours(ps, h.cur)
  BY <1>2
<1>18. es = EdgesOf(h, A) /\ {y.head} = Came(h, A)
  <2>1. Past(f, B, f.cur) = {x.head}
    BY <1>3, <1>14 DEF Gives
  <2> QED BY <1>9, <1>10, <1>11, <2>1 DEF Came, SameConstruct
<1> QED BY <1>16, <1>17, <1>18, FlownBy

\* Out of an arm: the frames within the match's.
LEMMA UnderArm ==
  ASSUME NEW f, NEW os, NEW ls, NEW ns, Body(f, os, ls, ns),
         NEW fr, NEW bs, Left(os, fr, bs), fr.kind = "arm_done",
         NEW K, NEW mt, NEW ps, NEW g, Recasts(bs, K, mt, ps, g), MatchAlike(mt, g), g.wild = mt.wild, NEW h
  PROVE  /\ Len(os) = K + 1 /\ K \in Nat \ {0} /\ os[K] = mt /\ os[K + 1] = fr /\ fr.end = mt.end /\ K = Len(bs)
         /\ Len(ps) = K /\ ps[K] = g /\ \A d \in 1 .. K : bs[d] = os[d] /\ (d # K => ps[d] = os[d])
         /\ Follow(os, ps, f, h, K)
         /\ Detours(ps, fr.resume) = Detours(os, f.cur)
<1> DEFINE L == Len(os)
<1>1. Shape(os, NBlocks(f)) /\ L \in Nat \ {0} /\ os \in Seq(FrameSet) /\ fr = os[L] /\ Frames(os, NBlocks(f), ls, ns)
      /\ NBlocks(f) \in Nat
  BY BodyIs DEF Shape, Left, Body
<1>2. K = Len(bs) /\ bs[K] = mt /\ Len(ps) = K /\ ps[K] = g /\ \A d \in 1 .. K : d # K => ps[d] = bs[d]
  BY DEF Recasts
<1>3. LoopsOut(fr, ls, ls) /\ NestsOut(fr, ns, ns) /\ fr.kind \in Closes
  BY DEF LoopsOut, NestsOut, Closes
<1>4. Outside(os, fr, NBlocks(f), bs, ls, ns)
  BY <1>1, <1>3, PopFrames
<1>5. /\ bs[Len(bs)].kind = "match" /\ fr.end = bs[Len(bs)].end /\ Shape(bs, NBlocks(f))
      /\ Detours(os, f.cur) = With(Detours(bs, fr.resume), f.cur, WildOf(fr))
  BY <1>4 DEF Outside, Frames
<1>6. Len(bs) = L - 1 /\ \A d \in 1 .. L - 1 : bs[d] = os[d]
  <2>1. bs = SubSeq(os, 1, Len(os) - 1) /\ Len(os) > 0
    BY <1>1 DEF Left
  <2> HIDE DEF L
  <2> QED BY <1>1, <2>1, Popped DEF L
<1>7. K \in Nat \ {0}
  BY <1>2, <1>5, ShapeIs
<1>8. /\ L = K + 1 /\ os[K] = mt /\ mt.kind = "match" /\ fr.end = mt.end
      /\ \A d \in 1 .. K : bs[d] = os[d] /\ (d # K => ps[d] = os[d])
  <2>1. L = K + 1 /\ K = L - 1
    BY <1>1, <1>2, <1>6, <1>7
  <2>2. \A d \in 1 .. K : bs[d] = os[d]
    BY <1>6, <2>1
  <2>3. K \in 1 .. K
    BY <1>7
  <2> QED BY <1>2, <1>5, <2>1, <2>2, <2>3
<1>9. Follow(os, ps, f, h, K)
  <2>1. ASSUME NEW d \in 1 .. L, d # K, os[d].kind \in Compounds PROVE d \in 1 .. K /\ ps[d] = os[d] /\ d # L
    <3>1. d # L
      BY <1>1, <2>1 DEF Compounds
    <3> QED BY <1>7, <1>8, <2>1, <3>1
  <2>2. ASSUME NEW d \in 1 .. L, d # K, os[d].kind = "match" PROVE ChainOf(ps, h.cur, d) = ChainOf(os, f.cur, d)
    <3>1. d \in 1 .. K /\ d # L
      BY <2>1, <2>2 DEF Compounds
    <3>2. d \in 1 .. Len(os) - 1 /\ d + 1 \in 1 .. K
      BY <1>7, <1>8, <2>2, <3>1
    <3>3. os[d + 1].kind \in Arms
      BY <1>1, <2>2, <3>2 DEF Shape
    <3>4. d + 1 # K
      BY <1>8, <3>3 DEF Arms
    <3>5. ps[d + 1] = os[d + 1]
      BY <1>8, <3>2, <3>4
    <3> QED BY <1>2, <2>2, <3>1, <3>5 DEF ChainOf
  <2>3. \A d \in 1 .. L : SameNames(os[d], os[d])
    BY SameNamesSelf
  <2> QED BY <1>2, <2>1, <2>2, <2>3 DEF Follow
<1>10. Detours(ps, fr.resume) = Detours(os, f.cur)
  <2>1. WildOf(fr) = 0 /\ \A W, c : With(W, c, 0) = W
    BY DEF WildOf, With
  <2>2. Detours(os, f.cur) = Detours(bs, fr.resume)
    BY <1>5, <2>1
  <2>3. ASSUME NEW d \in 1 .. K - 1
        PROVE  /\ ps[d].kind = "match" <=> bs[d].kind = "match"
               /\ ps[d].wild = bs[d].wild /\ ps[d + 1].resume = bs[d + 1].resume
    <3>1. d \in 1 .. K /\ d # K /\ d + 1 \in 1 .. K
      BY <1>7, <2>3
    <3>2. g.resume = mt.resume
      BY DEF MatchAlike, SameNames
    <3> QED BY <1>2, <3>1, <3>2
  <2>4. InnerTo(ps, K) = InnerTo(bs, K)
    BY <2>3, InnerSame
  <2>5. WildOf(g) = WildOf(mt)
    BY DEF WildOf, MatchAlike
  <2> QED BY <1>2, <2>2, <2>4, <2>5 DEF Detours
<1> QED BY <1>1, <1>2, <1>7, <1>8, <1>9, <1>10

LEMMA FlownArmEnd ==
  ASSUME NEW f, NEW os, NEW ls, NEW ns, Body(f, os, ls, ns), NEW es, NEW cm, Flown(f, os, ns, es, cm),
         NEW fr, NEW bs, Left(os, fr, bs), fr.kind = "arm_done",
         NEW K, NEW mt, NEW ps, NEW g, Recasts(bs, K, mt, ps, g), MatchAlike(mt, g), g.wild = mt.wild,
         NEW y, ArmLeft(ns[Len(ns)], y, cm), NEW ms, Reset(ns, y, ms),
         NEW h, Went(f, fr.end, fr.resume, h), NEW some
  PROVE  Flown(h, ps, ms, es, some)
<1> DEFINE V == Detours(os, f.cur)
           n == NBlocks(f)
           x == ns[Len(ns)]
<1>1. /\ Len(os) = K + 1 /\ K \in Nat \ {0} /\ os[K] = mt /\ os[K + 1] = fr /\ fr.end = mt.end /\ K = Len(bs)
      /\ Len(ps) = K /\ ps[K] = g /\ \A d \in 1 .. K : bs[d] = os[d] /\ (d # K => ps[d] = os[d])
      /\ Follow(os, ps, f, h, K)
      /\ Detours(ps, fr.resume) = V
  BY UnderArm
<1>2. /\ mt.kind = "match" /\ g.kind = "match" /\ SameNames(mt, g) /\ K \in 1 .. Len(os) /\ K + 1 \in 1 .. Len(os)
      /\ K \in 1 .. K /\ os[Len(os)].kind # "match" /\ K # K + 1
  BY <1>1 DEF MatchAlike
<1>3. Told(os, ns, Giving(f, V, os)) /\ es = EdgesOf(f, V) /\ cm = Came(f, V)
  BY <1>2, FlownIs
<1>4. Apart(os) /\ n \in Nat
  BY BodyIs
<1>5. Landing(f, Awaited(os), V, fr.end) /\ fr.end \in 1 .. n /\ fr.end \in Awaits(mt)
  <2>1. os[K].kind \in Compounds
    BY <1>1, <1>2 DEF Compounds
  <2> QED BY <1>1, <1>2, <2>1, EndLanding
<1>6. fr.resume \in 1 .. n /\ fr.resume # fr.end
  <2>1. fr.resume \in Awaits(fr)
    BY DEF Awaits, Arms, Compounds
  <2>2. fr.resume \in 1 .. n
    BY <1>1, <1>2, <2>1, AwaitsAmong
  <2>3. Awaits(os[K]) \cap Awaits(os[K + 1]) = {}
    BY <1>2, <1>4 DEF Apart
  <2> QED BY <1>1, <1>5, <2>1, <2>2, <2>3
<1>7. WentTo(f, V, fr.end, h) /\ h.cur = fr.resume
  BY <1>2, <1>5, GoneOn
<1>8. Told(bs, ns, Giving(f, V, os))
  <2> DEFINE G == Giving(f, V, os)
             W == Compounds
             m == Len(ns)
  <2>1. ASSUME NEW w, Marked(os, Len(os), W, m, w) PROVE Marked(bs, Len(bs), W, m, w)
    <3>1. m \in Nat /\ os[K + 1].kind \notin W /\ \A d \in 1 .. K : bs[d].kind \in W <=> os[d].kind \in W
      BY <1>1, <1>3 DEF Told, Compounds
    <3> DEFINE L == K + 1
    <3>2. L \in Nat \ {0} /\ L - 1 = K /\ Len(os) = L /\ os[L].kind \notin W
      BY <1>1, <3>1
    <3> HIDE DEF m, W, L
    <3>3. Marked(os, L, W, m, w) /\ \A d \in 1 .. L - 1 : bs[d].kind \in W <=> os[d].kind \in W
      BY <2>1, <3>1, <3>2
    <3>4. Marked(bs, L - 1, W, m, w)
      BY <3>1, <3>2, <3>3, MarkedPopOther
    <3> QED BY <1>1, <3>2, <3>4
  <2>2. Retold(os, G, G, 0) /\ Len(os) \in Nat
    BY <1>1 DEF Retold
  <2> HIDE DEF G
  <2>3. Told(bs, ns, G)
    BY <1>3, <2>1, <2>2, ToldStay DEF G
  <2> QED BY <2>3 DEF G
<1>9. Gives(f, V, mt, fr.resume, x)
  <2>1. bs[Len(bs)].kind \in Compounds
    BY <1>1, <1>2 DEF Compounds
  <2>2. x \in Giving(f, V, os)[K]
    BY <1>1, <1>8, <2>1, ToldTop
  <2>3. ChainOf(os, f.cur, K) = fr.resume
    BY <1>1, <1>2 DEF ChainOf
  <2> HIDE DEF V, x
  <2>4. x \in {z \in NestSet : Gives(f, V, os[K], ChainOf(os, f.cur, K), z)}
    BY <1>2, <2>2, GivingIs
  <2> QED BY <1>1, <2>3, <2>4
<1>10. Unmoved(f, V, os, h, V, K)
  <2>1. ASSUME NEW d \in 1 .. Len(os), d # K, NEW b \in Awaits(os[d]) PROVE Before(h, V, b) = Before(f, V, b)
    <3>1. b \in 1 .. n
      BY <2>1, AwaitsAmong
    <3>2. b # fr.end
      BY <1>1, <1>2, <1>4, <1>5, <2>1 DEF Apart
    <3> QED BY <3>1, <3>2, <1>7 DEF WentTo
  <2> QED BY <1>4, <1>7, <2>1 DEF Unmoved, WentTo
<1>11. Retold(os, Giving(f, V, os), Giving(h, V, ps), K)
  <2>1. os[K].kind \notin Arms \/ K \notin 1 .. Len(os)
    BY <1>1, <1>2 DEF Arms
  <2> HIDE DEF V
  <2> QED BY <1>1, <1>2, <1>10, <2>1, FramesOn
<1>12. y \in Giving(h, V, ps)[K]
  <2>1. Before(h, V, fr.end) = Before(f, V, fr.end) \cup cm /\ Codes(h.blocks[fr.end]) = Codes(f.blocks[fr.end])
    BY <1>3, <1>5, <1>7 DEF WentTo
  <2>2. Before(f, V, fr.end) = x.outs /\ Codes(f.blocks[fr.end]) = {} /\ x.kind # "while"
        /\ Past(f, V, fr.resume) = {x.head}
    BY <1>1, <1>2, <1>9 DEF Gives
  <2>3. Past(h, V, fr.resume) = Past(f, V, fr.resume)
    <3>1. /\ Before(h, V, fr.resume) = Before(f, V, fr.resume) /\ fr.resume \in 1 .. NBlocks(h)
          /\ Codes(h.blocks[fr.resume]) = Codes(f.blocks[fr.resume])
          /\ LastOf(h.blocks[fr.resume]) = LastOf(f.blocks[fr.resume])
      BY <1>6, <1>7 DEF WentTo
    <3> HIDE DEF V
    <3> QED BY <1>6, <3>1, PastIs
  <2>4. y \in NestSet /\ y.kind = x.kind /\ y.head = x.head /\ y.outs = x.outs \cup cm
    BY DEF ArmLeft
  <2>5. g.end = fr.end
    BY <1>1, <1>2 DEF SameNames
  <2> HIDE DEF V, x
  <2>6. Gives(h, V, g, fr.resume, y)
    BY <1>2, <2>1, <2>2, <2>3, <2>4, <2>5 DEF Gives, OnlyThen
  <2>7. K \in 1 .. Len(ps) /\ ChainOf(ps, h.cur, K) = fr.resume
    BY <1>1, <1>7 DEF ChainOf
  <2> QED BY <1>1, <2>4, <2>6, <2>7, GivingIs
<1>13. Told(ps, ms, Giving(h, V, ps))
  <2> DEFINE m == Len(ns)
             G == Giving(f, V, os)
             H == Giving(h, V, ps)
  <2>1. \A w : Marked(bs, Len(bs), Compounds, m, w) => Marked(ps, Len(ps), Compounds, m, w)
    <3>1. \A d \in 1 .. Len(bs) : ps[d].kind \in Compounds <=> bs[d].kind \in Compounds
      BY <1>1, <1>2 DEF Compounds
    <3> HIDE DEF m
    <3> QED BY <1>1, <3>1, MarkedSame
  <2>2. m = Len(ns) /\ ms = [ns EXCEPT ![m] = y] /\ y \in NestSet
    BY DEF Reset
  <2>3. Retold(bs, G, H, Len(bs))
    <3> HIDE DEF G, H
    <3>1. \A d \in 1 .. Len(bs) : d \in 1 .. Len(os) /\ bs[d] = os[d]
      BY <1>1
    <3> QED BY <1>1, <1>11, <3>1 DEF Retold, G, H
  <2>4. /\ Told(bs, ns, G) /\ y \in H[Len(bs)] /\ bs[Len(bs)].kind \in Compounds
        /\ Len(bs) \in Nat \ {0}
    BY <1>1, <1>2, <1>8, <1>12 DEF Compounds
  <2> HIDE DEF m, G, H
  <2>5. Told(ps, ms, H)
    BY <2>1, <2>2, <2>3, <2>4, ToldSet
  <2> QED BY <2>5 DEF H
<1>14. es = EdgesOf(h, V)
  <2>1. FirstOf(f.blocks[fr.end]) = {}
    BY <1>1, <1>9 DEF Gives, FirstOf
  <2>2. EdgesOf(h, V) = es \cup (cm \X FirstOf(f.blocks[fr.end]))
    BY <1>3, <1>7 DEF WentTo
  <2>3. es \cup (cm \X {}) = es
    OBVIOUS
  <2> QED BY <2>1, <2>2, <2>3
<1>15. V = Detours(ps, h.cur)
  BY <1>1, <1>7
<1>16. ps[Len(ps)].kind = "match"
  BY <1>1, <1>2
<1> QED BY <1>13, <1>14, <1>15, <1>16, FlownBy

\* Out of a match: the frames around it, and the ways with the match's gone.
LEMMA AroundMatch ==
  ASSUME NEW f, NEW os, NEW ls, NEW ns, Body(f, os, ls, ns),
         NEW fr, NEW bs, Left(os, fr, bs), fr.kind = "match", NEW ns2, NestsOut(fr, ns, ns2)
  PROVE  \E W \in Ways(NBlocks(f)) :
           /\ \A c : Detours(bs, c) = W
           /\ Detours(os, f.cur) = With(W, f.cur, fr.wild)
           /\ Frames(bs, NBlocks(f), ls, ns2) /\ bs[Len(bs)].kind \in Lasts
<1> DEFINE n == NBlocks(f)
           W == Detours(bs, fr.resume)
<1>1. Shape(os, n) /\ Frames(os, n, ls, ns) /\ n \in Nat \ {0} /\ f.cur \in 1 .. n
  BY BodyIs DEF Body
<1>2. LoopsOut(fr, ls, ls) /\ fr.kind \in Closes /\ fr.kind # "arm_done" /\ WildOf(fr) = fr.wild
  BY DEF LoopsOut, Closes, WildOf
<1>3. Outside(os, fr, n, bs, ls, ns2)
  BY <1>1, <1>2, PopFrames
<1>4. /\ Frames(bs, n, ls, ns2) /\ bs[Len(bs)].kind \in Lasts
      /\ \A c : Detours(os, c) = With(W, c, fr.wild)
  BY <1>2, <1>3 DEF Outside
<1>5. bs[Len(bs)].kind # "match"
  BY <1>4 DEF Lasts, Lists
<1>6. \A c : Detours(bs, c) = W
  BY <1>5, DetoursFixed
<1>7. Detours(os, f.cur) \in Ways(n)
  BY BodyIs
<1>8. W \in Ways(n)
  BY <1>4, <1>7 DEF Ways, With
<1> QED BY <1>4, <1>6, <1>8

\* A match is passed, by way of its end.
Surpasses(f, B, fr, W, h, S) ==
  /\ Kept(f, h, f.cur) /\ NBlocks(h) = NBlocks(f) /\ h.cur = fr.end /\ ~Terminated(h)
  /\ \A b \in 1 .. NBlocks(f) : b # fr.end => Before(h, W, b) = Before(f, B, b)
  /\ Before(h, W, fr.end) = S /\ Codes(h.blocks[fr.end]) = {}
  /\ EdgesOf(h, W) = EdgesOf(f, B)

LEMMA FlownMatchOut ==
  ASSUME NEW f, NEW os, NEW ls, NEW ns, Body(f, os, ls, ns), NEW es, NEW cm, Flown(f, os, ns, es, cm),
         NEW fr, NEW bs, Left(os, fr, bs), fr.kind = "match", NEW ns2, NestsOut(fr, ns, ns2),
         NEW B, B = Detours(os, f.cur), NEW W, \A c : Detours(bs, c) = W,
         Frames(bs, NBlocks(f), ls, ns2), bs[Len(bs)].kind \in Lasts,
         NEW h, NEW S, Surpasses(f, B, fr, W, h, S), NEW dv \in BOOLEAN, NEW ps, IsAfter(bs, dv, ps)
  PROVE  Flown(h, ps, ns2, es, S)
<1> DEFINE L == Len(os)
           n == NBlocks(f)
<1>1. /\ n \in Nat /\ Shape(os, n) /\ Apart(os) /\ L \in Nat \ {0} /\ L \in 1 .. L /\ fr = os[L]
  BY BodyIs DEF Left
<1>2. os[L].kind \in Compounds /\ fr.kind # "fn"
  BY <1>1 DEF Compounds
<1>3. Told(os, ns, Giving(f, B, os)) /\ es = EdgesOf(f, B)
  BY FlownIs
<1>4. fr.end \in Awaits(fr) /\ fr.end \in 1 .. n
  <2>1. fr.end \in Awaits(fr)
    BY DEF Awaits, Compounds
  <2> QED BY <1>1, <2>1, AwaitsAmong
<1>5. Unmoved(f, B, os, h, W, L)
  <2>1. ASSUME NEW d \in 1 .. L, d # L, NEW b \in Awaits(os[d]) PROVE Before(h, W, b) = Before(f, B, b)
    <3>1. b \in 1 .. n
      BY <2>1, AwaitsAmong
    <3>2. b # fr.end
      BY <1>1, <1>4, <2>1 DEF Apart
    <3> QED BY <3>1, <3>2 DEF Surpasses
  <2> QED BY <1>1, <2>1 DEF Unmoved, Surpasses
<1>6. /\ Follow(os, bs, f, h, L) /\ Len(bs) = L - 1 /\ \A d \in 1 .. L - 1 : bs[d] = os[d]
  BY <1>1, <1>2, LeftUnder
<1>7. Told(bs, ns2, Giving(h, W, bs))
  <2>1. os[L].kind \notin Arms \/ L \notin 1 .. Len(os)
    BY <1>1, <1>2 DEF Arms, Compounds
  <2>2. Retold(os, Giving(f, B, os), Giving(h, W, bs), L)
    BY <1>5, <1>6, <2>1, FramesOn
  <2>3. ns2 = SubSeq(ns, 1, Len(ns) - 1)
    BY <1>2 DEF NestsOut
  <2> QED BY <1>1, <1>2, <1>3, <1>6, <2>2, <2>3, ToldPop
<1>8. Came(h, W) = S
  <2>1. fr.end \in 1 .. NBlocks(h) /\ Codes(h.blocks[fr.end]) = {} /\ Before(h, W, fr.end) = S
        /\ h.cur = fr.end /\ ~Terminated(h)
    BY <1>4 DEF Surpasses
  <2>2. Past(h, W, fr.end) = S
    BY <2>1, PastIs
  <2> QED BY <2>1, <2>2 DEF Came
<1>9. es = EdgesOf(h, W) /\ W = Detours(bs, h.cur)
  BY <1>3 DEF Surpasses
<1>10. Flown(h, bs, ns2, es, S)
  BY <1>7, <1>8, <1>9, FlownBy
<1> QED BY <1>1, <1>10, FlownAfter

\* The match's end is reached from the arms and, without a wildcard, from the chain.
LEMMA FlownMatchClose ==
  ASSUME NEW f, NEW os, NEW ls, NEW ns, Body(f, os, ls, ns), NEW es, NEW cm, Flown(f, os, ns, es, cm),
         NEW fr, NEW bs, Left(os, fr, bs), fr.kind = "match", NEW ns2, NestsOut(fr, ns, ns2),
         NEW h, MatchEnd(f, fr, h), NEW dv \in BOOLEAN, NEW ps, IsAfter(bs, dv, ps),
         NEW x, x = ns[Len(ns)]
  PROVE  Flown(h, ps, ns2, es, x.outs \cup (IF fr.wild # 0 THEN {} ELSE {x.head}))
<1> DEFINE B == Detours(os, f.cur)
           P == Awaited(os)
           n == NBlocks(f)
           L == Len(os)
<1>1. PICK W \in Ways(n) :
           /\ \A c : Detours(bs, c) = W
           /\ B = With(W, f.cur, fr.wild)
           /\ Frames(bs, n, ls, ns2) /\ bs[Len(bs)].kind \in Lasts
  BY AroundMatch
<1>2. /\ n \in Nat /\ L \in Nat \ {0} /\ L \in 1 .. L /\ fr = os[L] /\ fr.kind \in Compounds
      /\ Sound(f, P) /\ ~Terminated(f) /\ fr \in FrameSet /\ GoodFrame(fr, n)
  BY BodyIs DEF Left, Compounds, Body
<1>3. Gives(f, B, fr, f.cur, x)
  <2>1. x \in Giving(f, B, os)[L]
    BY <1>2, FlownIs, ToldTop
  <2>2. ChainOf(os, f.cur, L) = f.cur
    BY DEF ChainOf
  <2> HIDE DEF B
  <2>3. x \in {z \in NestSet : Gives(f, B, os[L], ChainOf(os, f.cur, L), z)}
    BY <1>2, <2>1, GivingIs
  <2> QED BY <1>2, <2>2, <2>3
<1>4. Landing(f, P, B, fr.end) /\ fr.end \in 1 .. n /\ fr.end # f.cur /\ fr.end \in P /\ ~Ended(f.blocks[fr.end])
  <2>1. Landing(f, P, B, fr.end) /\ fr.end \in 1 .. n /\ fr.end \in Awaits(fr)
    BY <1>2, EndLanding
  <2>2. fr.end \in P /\ fr.end # f.cur
    BY <1>2, <2>1, AwaitsAmong
  <2> QED BY <1>2, <2>1, <2>2 DEF Sound
<1>5. Codes(f.blocks[fr.end]) = {} /\ Before(f, B, fr.end) = x.outs /\ Past(f, B, f.cur) = {x.head}
  BY <1>3 DEF Gives
<1> DEFINE S == x.outs \cup (IF fr.wild # 0 THEN {} ELSE {x.head})
<1>6. Surpasses(f, B, fr, W, h, S)
  <2>1. CASE fr.wild # 0
    <3> DEFINE g == Br(f, fr.wild)
    <3>1. fr.wild \in 1 .. n
      <4>1. fr.wild \in Nat /\ fr.wild <= n
        BY <1>2 DEF FrameSet, GoodFrame
      <4> QED BY <1>2, <2>1, <4>1
    <3> HIDE DEF B, P
    <3>2. /\ NBlocks(g) = n /\ EdgesOf(g, W) = EdgesOf(f, B) /\ Kept(f, g, f.cur)
          /\ \A b : Before(g, W, b) = Before(f, B, b)
          /\ \A b \in 1 .. n : Codes(g.blocks[b]) = Codes(f.blocks[b])
      BY <1>1, <1>2, <3>1, WildSays
    <3>3. Sound(g, P) /\ Terminated(g)
      BY <1>2, <3>1, BrStep
    <3>4. h = At(g, fr.end)
      BY <2>1 DEF MatchEnd
    <3> HIDE DEF g, n
    <3>5. /\ h.blocks = g.blocks /\ NBlocks(h) = NBlocks(g) /\ EdgesOf(h, W) = EdgesOf(g, W)
          /\ \A b : Before(h, W, b) = Before(g, W, b)
      BY <3>3, <3>4, AtFlow
    <3>6. ~Terminated(h) /\ h.cur = fr.end
      BY <1>4, <3>3, <3>4, AtStep
    <3>7. Kept(f, h, f.cur) /\ Codes(h.blocks[fr.end]) = {}
      BY <1>4, <1>5, <3>2, <3>5 DEF Kept, n
    <3> QED BY <1>5, <2>1, <3>2, <3>5, <3>6, <3>7 DEF Surpasses, n
  <2>2. CASE fr.wild = 0
    <3> DEFINE g == Br(f, fr.end)
    <3>1. B = W
      BY <1>1, <2>2 DEF With
    <3>2. B \in Ways(n) /\ OutOf(B, f.cur) = {}
      <4>1. B = InnerTo(os, L)
        BY <1>2, <2>2 DEF Detours, With, WildOf
      <4> QED BY <4>1, WaysOut
    <3> HIDE DEF B, P
    <3>3. WentTo(f, B, fr.end, g)
      BY <1>2, <1>4, <3>2, BrWent
    <3>4. Sound(g, P) /\ Terminated(g)
      BY <1>2, <1>4, BrStep
    <3>5. h = At(g, fr.end)
      BY <2>2 DEF MatchEnd
    <3> HIDE DEF g, n
    <3>6. WentTo(f, B, fr.end, h) /\ h.cur = fr.end
      BY <3>3, <3>4, <3>5, WentAt
    <3>7. ~Terminated(h)
      BY <1>4, <3>4, <3>5, AtStep
    <3>8. Came(f, B) = {x.head} /\ FirstOf(f.blocks[fr.end]) = {}
      BY <1>2, <1>5 DEF Came, FirstOf
    <3>9. Before(h, W, fr.end) = x.outs \cup {x.head} /\ Codes(h.blocks[fr.end]) = {}
      BY <1>4, <1>5, <3>1, <3>6, <3>8 DEF WentTo, n
    <3>10. EdgesOf(h, W) = EdgesOf(f, B)
      <4>1. \A X, s : X \cup ({s} \X {}) = X
        OBVIOUS
      <4> QED BY <3>1, <3>6, <3>8, <4>1 DEF WentTo
    <3>11. Kept(f, h, f.cur) /\ NBlocks(h) = NBlocks(f)
      BY <3>6 DEF WentTo
    <3>12. ASSUME NEW b \in 1 .. NBlocks(f), b # fr.end PROVE Before(h, W, b) = Before(f, B, b)
      <4>1. Before(h, B, b) = Before(f, B, b) \cup {}
        BY <3>6, <3>12 DEF WentTo
      <4>2. Before(f, B, b) \cup {} = Before(f, B, b)
        OBVIOUS
      <4>3. Before(h, B, b) = Before(f, B, b)
        BY <4>1, <4>2
      <4> QED BY <3>1, <4>3
    <3> QED BY <2>2, <3>6, <3>7, <3>9, <3>10, <3>11, <3>12 DEF Surpasses
  <2> QED BY <2>1, <2>2
<1>7. B = Detours(os, f.cur)
  OBVIOUS
<1> HIDE DEF B, S
<1>8. Flown(h, ps, ns2, es, S)
  BY <1>1, <1>6, <1>7, FlownMatchOut
<1> QED BY <1>8 DEF S

\* A block is over.
LEMMA FlownBlockClose ==
  ASSUME NEW f, NEW os, NEW ls, NEW ns, Body(f, os, ls, ns), NEW es, NEW cm, Flown(f, os, ns, es, cm),
         NEW fr, NEW bs, Left(os, fr, bs), fr.kind = "block",
         NEW dv \in BOOLEAN, NEW ps, IsAfter(bs, dv, ps)
  PROVE  Flown(f, ps, ns, es, cm)
<1> DEFINE V == Detours(os, f.cur)
           L == Len(os)
           n == NBlocks(f)
<1>1. /\ Shape(os, n) /\ L \in Nat \ {0} /\ os \in Seq(FrameSet) /\ fr = os[L] /\ Frames(os, n, ls, ns)
      /\ n \in Nat /\ os[L].kind # "match"
  BY BodyIs DEF Shape, Left, Body
<1>2. LoopsOut(fr, ls, ls) /\ NestsOut(fr, ns, ns) /\ fr.kind \in Closes /\ fr.kind # "arm_done" /\ WildOf(fr) = 0
  BY DEF LoopsOut, NestsOut, Closes, WildOf
<1>3. Outside(os, fr, n, bs, ls, ns)
  BY <1>1, <1>2, PopFrames
<1>4. Frames(bs, n, ls, ns) /\ bs[Len(bs)].kind \in Lasts
  BY <1>2, <1>3 DEF Outside
<1>5. V = Detours(bs, f.cur)
  <2>1. bs[Len(bs)].kind # "match"
    BY <1>4 DEF Lasts, Lists
  <2>2. Detours(bs, fr.resume) = Detours(bs, f.cur)
    BY <2>1, DetoursFixed
  <2> QED BY <1>2, <1>3, <2>2 DEF Outside, With
<1>6. Told(os, ns, Giving(f, V, os)) /\ es = EdgesOf(f, V) /\ cm = Came(f, V)
  BY <1>1, FlownIs
<1> HIDE DEF V
<1>7. Len(bs) = L - 1 /\ \A d \in 1 .. L - 1 : bs[d] = os[d]
  <2>1. bs = SubSeq(os, 1, Len(os) - 1) /\ Len(os) > 0
    BY <1>1 DEF Left
  <2> HIDE DEF L
  <2> QED BY <1>1, <2>1, Popped DEF L
<1>8. Follow(os, bs, f, f, 0)
  <2>1. ASSUME NEW d \in 1 .. L, os[d].kind \in Compounds
        PROVE  d \in 1 .. L - 1 /\ d \in 1 .. Len(bs) /\ bs[d] = os[d]
    <3>1. d # L
      BY <1>1, <2>1 DEF Compounds
    <3> QED BY <1>1, <1>7, <2>1, <3>1
  <2>2. ASSUME NEW d \in 1 .. L, os[d].kind = "match" PROVE ChainOf(bs, f.cur, d) = ChainOf(os, f.cur, d)
    <3>1. d \in 1 .. L - 1
      BY <2>1, <2>2 DEF Compounds
    <3>2. os[d + 1].kind \in Arms
      BY <1>1, <2>2, <3>1 DEF Shape
    <3>3. d + 1 # L
      BY <1>1, <3>2 DEF Arms
    <3>4. d + 1 \in 1 .. L - 1 /\ d # L /\ d # Len(bs)
      BY <1>1, <1>7, <3>1, <3>3
    <3> QED BY <1>7, <3>4 DEF ChainOf
  <2> QED BY <2>1, <2>2, SameNamesSelf DEF Follow
<1>9. Retold(os, Giving(f, V, os), Giving(f, V, bs), 0)
  BY <1>8, FramesFollow
<1>10. ASSUME NEW w, Marked(os, Len(os), Compounds, Len(ns), w)
       PROVE  Marked(bs, Len(bs), Compounds, Len(ns), w)
  <2> DEFINE m == Len(ns)
             W == Compounds
  <2>1. m \in Nat /\ os[L].kind \notin W /\ \A d \in 1 .. L - 1 : bs[d].kind \in W <=> os[d].kind \in W
    BY <1>1, <1>6, <1>7 DEF Told, Compounds
  <2> HIDE DEF m, W, L
  <2>2. Marked(os, L, W, m, w)
    BY <1>10 DEF m, W, L
  <2>3. Marked(bs, L - 1, W, m, w)
    BY <1>1, <2>1, <2>2, MarkedPopOther
  <2> QED BY <1>7, <2>3 DEF m, W
<1>11. Told(bs, ns, Giving(f, V, bs))
  BY <1>1, <1>6, <1>9, <1>10, ToldStay
<1>12. Flown(f, bs, ns, es, cm)
  BY <1>5, <1>6, <1>11, FlownBy
<1> QED BY <1>1, <1>4, <1>12, FlownAfter

-----------------------------------------------------------------------------
(* Every step draws the edges of the text                                  *)

\* While the body is walked, the blocks hold the flow of the text so far; when
\* it is done, all of it.
FlowInv ==
  /\ phase = "body" => Flown(ir, open, nest, edges, came)
  /\ Complete => edges = EdgesOf(ir, {})

LEMMA WalkedOn ==
  ASSUME phase' = "body", Flown(ir', open', nest', edges', came')
  PROVE  FlowInv'
BY DEF FlowInv, Complete

\* The walk at a place for a statement.
LEMMA AtFlown ==
  ASSUME IInv, FlowInv, AtStmt
  PROVE  /\ Flown(ir, open, nest, edges, came) /\ Flown(Lowered, open, nest, edges, came)
         /\ open[Len(open)].kind # "match"
         /\ \E n \in Nat : Frames(open, n, loops, nest)
<1>1. Body(ir, open, loops, nest) /\ open[Len(open)].kind \in Lasts /\ phase = "body"
  BY AtPlace
<1>2. Flown(ir, open, nest, edges, came)
  BY <1>1 DEF FlowInv
<1>3. Flown(EnsureOpen(ir), open, nest, edges, came)
  BY <1>1, <1>2, FlownOpened
<1>4. open[Len(open)].kind # "match"
  BY <1>1 DEF Lasts, Lists
<1>5. NBlocks(ir) \in Nat /\ Frames(open, NBlocks(ir), loops, nest)
  BY <1>1, BodyIs DEF Body
<1> QED BY <1>2, <1>3, <1>4, <1>5 DEF Lowered

\* A statement that is over, passed or not.
LEMMA FlownPast ==
  ASSUME NEW os, NEW ls, NEW us, \E n \in Nat : Frames(os, n, ls, us), os[Len(os)].kind \in Lasts,
         NEW f, NEW ns, NEW es, NEW cm, Flown(f, os, ns, es, cm), NEW ps, Passes(os, ps) \/ Leaves(os, ps)
  PROVE  Flown(f, ps, ns, es, cm)
<1>1. PICK dv \in BOOLEAN : IsAfter(os, dv, ps)
  BY DEF Passes, Leaves
<1> QED BY <1>1, FlownAfter

LEMMA SimpleFlows ==
  ASSUME IInv, FlowInv, NEW shape, Simple(shape)
  PROVE  FlowInv'
<1>1. AtStmt /\ ir' = Eval(Lowered, This, shape) /\ open' = After(open, FALSE) /\ phase' = phase
  BY DEF Simple
<1>2. nest' = nest /\ edges' = edges \cup (came \X {This}) /\ came' = {This}
  BY DEF Simple, Through, ComeTo
<1>3. /\ Body(Lowered, open, loops, nest) /\ ~Terminated(Lowered) /\ open[Len(open)].kind \in Lasts
      /\ phase = "body" /\ This \in Nat
  BY <1>1, AtPlace
<1>4. Flown(Lowered, open, nest, edges, came) /\ \E n \in Nat : Frames(open, n, loops, nest)
  BY <1>1, AtFlown
<1>5. Flown(ir', open, nest, edges', came')
  BY <1>1, <1>2, <1>3, <1>4, FlownEval
<1>6. Passes(open, open')
  BY <1>1, PassesIs
<1>7. Flown(ir', open', nest, edges', came')
  BY <1>3, <1>4, <1>5, <1>6, FlownPast
<1> QED BY <1>1, <1>2, <1>3, <1>7, WalkedOn

LEMMA EmptyFlows ==
  ASSUME IInv, FlowInv, Empty
  PROVE  FlowInv'
<1>1. AtStmt /\ ir' = Lowered /\ open' = After(open, FALSE) /\ phase' = phase
  BY DEF Empty
<1>2. nest' = nest /\ edges' = edges /\ came' = came
  BY DEF Empty, flowVars
<1>3. open[Len(open)].kind \in Lasts /\ phase = "body"
  BY <1>1, AtPlace
<1>4. Flown(ir', open, nest, edges, came) /\ \E n \in Nat : Frames(open, n, loops, nest)
  BY <1>1, AtFlown
<1>5. Passes(open, open')
  BY <1>1, PassesIs
<1>6. Flown(ir', open', nest, edges, came)
  BY <1>3, <1>4, <1>5, FlownPast
<1> QED BY <1>1, <1>2, <1>3, <1>6, WalkedOn

LEMMA ReturnFlows ==
  ASSUME IInv, FlowInv, NEW shape, Return(shape)
  PROVE  FlowInv'
<1> DEFINE e == Eval(Lowered, This, shape)
<1>1. AtStmt /\ ir' = Put(e, Jump("ret", <<>>)) /\ open' = After(open, TRUE) /\ phase' = phase
  BY DEF Return
<1>2. nest' = nest /\ edges' = edges \cup (came \X {This}) /\ came' = {}
  BY DEF Return, Away, ComeTo
<1>3. /\ Body(ir, open, loops, nest) /\ Body(Lowered, open, loops, nest) /\ ~Terminated(Lowered)
      /\ open[Len(open)].kind \in Lasts /\ phase = "body" /\ This \in Nat
  BY <1>1, AtPlace
<1>4. /\ Flown(Lowered, open, nest, edges, came) /\ \E n \in Nat : Frames(open, n, loops, nest)
      /\ open[Len(open)].kind # "match"
  BY <1>1, AtFlown
<1>5. Flown(e, open, nest, edges', {This})
  BY <1>2, <1>3, <1>4, FlownEval
<1>6. Body(e, open, loops, nest) /\ ~Terminated(e)
  BY <1>3, BodyEval DEF Lowered
<1> HIDE DEF e
<1>7. Flown(ir', open, nest, edges', {})
  BY <1>1, <1>4, <1>5, <1>6, FlownReturn
<1>8. Leaves(open, open')
  BY <1>1, LeavesIs
<1>9. Flown(ir', open', nest, edges', {})
  BY <1>3, <1>4, <1>7, <1>8, FlownPast
<1> QED BY <1>1, <1>2, <1>3, <1>9, WalkedOn

LEMMA StrayJumpFlows ==
  ASSUME StrayJump
  PROVE  FlowInv'
<1>1. phase' = "stray_jump"
  BY DEF StrayJump
<1> QED BY <1>1 DEF FlowInv, Complete

\* A jump stands in the innermost loop.
LEMMA InLoop ==
  ASSUME IInv, FlowInv, AtStmt, depth > 0, NEW e, e = Eval(Lowered, This, "plain")
  PROVE  /\ e = Put(Lowered, Instr(This))
         /\ Body(e, open, loops, nest) /\ ~Terminated(e)
         /\ Flown(e, open, nest, edges \cup (came \X {This}), {This})
         /\ \E dd : LoopIn(open, dd) /\ loops[Len(loops)] = [continueTo |-> open[dd].alt, breakTo |-> open[dd].end]
<1>1. /\ Body(ir, open, loops, nest) /\ Body(Lowered, open, loops, nest) /\ ~Terminated(Lowered)
      /\ open[Len(open)].kind \in Lasts /\ This \in Nat /\ depth = Len(loops)
  BY AtPlace
<1>2. Flown(Lowered, open, nest, edges, came)
  BY AtFlown
<1>3. Flown(e, open, nest, edges \cup (came \X {This}), {This})
  BY <1>1, <1>2, FlownEval
<1>4. Body(e, open, loops, nest) /\ ~Terminated(e)
  BY <1>1, BodyEval DEF Lowered
<1>5. \E dd : LoopIn(open, dd) /\ loops[Len(loops)] = [continueTo |-> open[dd].alt, breakTo |-> open[dd].end]
  <2>1. LoopFrames(open, loops) /\ Len(open) \in Nat /\ Len(loops) # 0
    BY <1>1, BodyIs DEF Body, Frames
  <2> QED BY <2>1, LoopInner
<1>6. e = Put(Lowered, Instr(This))
  BY DEF Eval
<1> QED BY <1>3, <1>4, <1>5, <1>6

LEMMA BreakFlows ==
  ASSUME IInv, FlowInv, Break
  PROVE  FlowInv'
<1> DEFINE e == Eval(Lowered, This, "plain")
           j == InnerLoop
           y == [nest[j] EXCEPT !.outs = @ \cup {This}]
           fs == edges \cup (came \X {This})
<1>1. /\ AtStmt /\ depth > 0 /\ ir' = Br(Put(Lowered, Instr(This)), loops[Len(loops)].breakTo)
      /\ open' = After(open, TRUE) /\ phase' = phase
  BY DEF Break
<1>2. edges' = fs /\ came' = {} /\ nest' = [nest EXCEPT ![j] = y]
  BY DEF Break, Breaks, ComeTo
<1>3. IsInner(nest, j) /\ BrokenBy(nest[j], This, y)
  BY DEF IsInner, InnerLoop, Loops, BrokenBy
<1>4. e = Eval(Lowered, This, "plain")
  OBVIOUS
<1> HIDE DEF e, j, y, fs
<1>5. /\ e = Put(Lowered, Instr(This)) /\ Body(e, open, loops, nest) /\ ~Terminated(e)
      /\ Flown(e, open, nest, fs, {This})
  BY <1>1, <1>4, InLoop DEF fs
<1>6. PICK dd : LoopIn(open, dd) /\ loops[Len(loops)] = [continueTo |-> open[dd].alt, breakTo |-> open[dd].end]
  BY <1>1, <1>4, InLoop
<1>7. ir' = Br(e, open[dd].end)
  BY <1>1, <1>5, <1>6
<1>8. /\ open[Len(open)].kind # "match" /\ open[Len(open)].kind \in Lasts /\ phase = "body" /\ This \in Nat
      /\ \E n \in Nat : Frames(open, n, loops, nest)
  BY <1>1, AtPlace, AtFlown
<1>9. Flown(ir', open, [nest EXCEPT ![j] = y], fs, {})
  BY <1>3, <1>5, <1>6, <1>7, <1>8, FlownBreak
<1>10. Leaves(open, open')
  BY <1>1, LeavesIs
<1>11. Flown(ir', open', nest', fs, {})
  BY <1>2, <1>8, <1>9, <1>10, FlownPast
<1> QED BY <1>1, <1>2, <1>8, <1>11, WalkedOn

LEMMA ContinueFlows ==
  ASSUME IInv, FlowInv, Continue
  PROVE  FlowInv'
<1> DEFINE e == Eval(Lowered, This, "plain")
           j == InnerLoop
           fs == edges \cup (came \X {This})
<1>1. /\ AtStmt /\ depth > 0 /\ ir' = Br(Put(Lowered, Instr(This)), loops[Len(loops)].continueTo)
      /\ open' = After(open, TRUE) /\ phase' = phase
  BY DEF Continue
<1>2. edges' = fs \cup {<<This, nest[j].head>>} /\ came' = {} /\ nest' = nest
  BY DEF Continue, Continues, ComeTo
<1>3. IsInner(nest, j)
  BY DEF IsInner, InnerLoop, Loops
<1>4. e = Eval(Lowered, This, "plain")
  OBVIOUS
<1> HIDE DEF e, j, fs
<1>5. /\ e = Put(Lowered, Instr(This)) /\ Body(e, open, loops, nest) /\ ~Terminated(e)
      /\ Flown(e, open, nest, fs, {This})
  BY <1>1, <1>4, InLoop DEF fs
<1>6. PICK dd : LoopIn(open, dd) /\ loops[Len(loops)] = [continueTo |-> open[dd].alt, breakTo |-> open[dd].end]
  BY <1>1, <1>4, InLoop
<1>7. ir' = Br(e, open[dd].alt)
  BY <1>1, <1>5, <1>6
<1>8. /\ open[Len(open)].kind # "match" /\ open[Len(open)].kind \in Lasts /\ phase = "body" /\ This \in Nat
      /\ \E n \in Nat : Frames(open, n, loops, nest)
  BY <1>1, AtPlace, AtFlown
<1>9. Flown(ir', open, nest, edges', {})
  BY <1>2, <1>3, <1>5, <1>6, <1>7, <1>8, FlownContinue
<1>10. Leaves(open, open')
  BY <1>1, LeavesIs
<1>11. Flown(ir', open', nest, edges', {})
  BY <1>8, <1>9, <1>10, FlownPast
<1> QED BY <1>1, <1>2, <1>8, <1>11, WalkedOn

LEMMA BlockOpenFlows ==
  ASSUME IInv, FlowInv, BlockOpen
  PROVE  FlowInv'
<1> DEFINE fr == Frame("block", FALSE)
<1>1. AtStmt /\ ir' = Lowered /\ open' = Append(open, fr) /\ phase' = phase
  BY DEF BlockOpen
<1>2. nest' = nest /\ edges' = edges /\ came' = came
  BY DEF BlockOpen, flowVars
<1>3. Body(ir', open, loops, nest) /\ open[Len(open)].kind \in Lasts /\ phase = "body"
  BY <1>1, AtPlace
<1>4. Flown(ir', open, nest, edges, came)
  BY <1>1, AtFlown
<1>5. fr \in FrameSet /\ fr.kind = "block" /\ fr.wild = 0
  <2>1. fr \in FrameSet
    BY DEF Frame, FrameSet, Kinds
  <2> QED BY <2>1 DEF Frame
<1> HIDE DEF fr
<1>6. Entered(open, fr, open')
  BY <1>1, <1>3, <1>5, OpenIs
<1>7. Flown(ir', open', nest, edges, came)
  BY <1>3, <1>4, <1>5, <1>6, FlownBlock
<1> QED BY <1>1, <1>2, <1>3, <1>7, WalkedOn

LEMMA BlockCloseFlows ==
  ASSUME IInv, FlowInv, BlockClose
  PROVE  FlowInv'
<1>1. phase = "body" /\ Top.kind = "block" /\ open' = After(Below, Top.div) /\ ir' = ir /\ phase' = phase
  BY DEF BlockClose
<1>2. nest' = nest /\ edges' = edges /\ came' = came
  BY DEF BlockClose, flowVars
<1>3. Body(ir, open, loops, nest) /\ Flown(ir, open, nest, edges, came)
  BY <1>1 DEF IInv, FlowInv
<1>4. Left(open, Top, Below) /\ IsAfter(Below, Top.div, open')
  BY <1>1 DEF Left, IsAfter, Top, Below
<1>5. Top.div \in BOOLEAN
  <2>1. Top \in FrameSet
    BY <1>3, BodyIs DEF Top
  <2> QED BY <2>1 DEF FrameSet
<1>6. Flown(ir, open', nest, edges, came)
  BY <1>1, <1>3, <1>4, <1>5, FlownBlockClose
<1> QED BY <1>1, <1>2, <1>6, WalkedOn

LEMMA IfOpenFlows ==
  ASSUME IInv, FlowInv, NEW shape, NEW hasElse \in BOOLEAN, IfOpen(shape, hasElse)
  PROVE  FlowInv'
<1> DEFINE f == Lowered
           n == NBlocks(f)
           k == IF hasElse THEN 3 ELSE 2
           alt == IF hasElse THEN n + 2 ELSE 0
           fr == FrameOf("then", FALSE, n + k, alt)
           x == Construct("if", This)
<1>1. /\ Body(ir, open, loops, nest) /\ open[Len(open)].kind \in Lasts /\ phase = "body"
      /\ This \in Nat /\ Body(f, open, loops, nest) /\ ~Terminated(f)
      /\ Flown(f, open, nest, edges, came)
  BY AtPlace, AtFlown DEF IfOpen
<1>2. n \in Nat
  BY <1>1, OpenIs
<1>3. /\ ir' = At(CondBr(Eval(Fresh(f, k), This, shape), n + 1, n + 2), n + 1)
      /\ open' = Append(open, fr) /\ phase' = phase
  <2>1. (IF hasElse THEN n + 3 ELSE n + 2) = n + k /\ (n + k) - n = k
    BY <1>2
  <2> QED BY <2>1 DEF IfOpen, FrameOf
<1>4. edges' = edges \cup (came \X {This}) /\ came' = {This} /\ nest' = Append(nest, x)
  BY DEF IfOpen, Into, ComeTo
<1>5. Begun(x, "if", This)
  BY DEF Begun
<1> HIDE DEF f, n, x
<1>6. IfIs(f, This, shape, k, n, ir')
  BY <1>3 DEF IfIs, n
<1>7. k \in {2, 3} /\ alt = IF k = 3 THEN n + 2 ELSE 0
  OBVIOUS
<1>8. NewFrame(fr, "then", FALSE, n + k, alt) /\ fr \in FrameSet
  <2>1. "then" \in Kinds /\ n + k \in Nat /\ alt \in Nat
    BY <1>2, <1>7 DEF Kinds, Compounds
  <2> HIDE DEF fr, k, alt
  <2>2. fr = FrameOf("then", FALSE, n + k, alt)
    BY DEF fr
  <2> QED BY <2>1, <2>2, FrameOfIs
<1> HIDE DEF k, alt, fr
<1>9. NewFrame(fr, "then", FALSE, n + k, IF k = 3 THEN n + 2 ELSE 0)
  BY <1>7, <1>8
<1>10. Entered(open, fr, open')
  BY <1>1, <1>3, <1>8, OpenIs
<1>11. IfOpened(f, open, This, shape, k, n, ir', fr, open')
  BY <1>6, <1>7, <1>9, <1>10 DEF IfOpened
<1>12. Flown(ir', open', nest', edges', {This})
  <2>1. nest' = Append(nest, x)
    BY <1>4
  <2>2. Flown(ir', open', nest', edges \cup (came \X {This}), {This})
    BY <1>1, <1>5, <1>11, <2>1, FlownIfOpen
  <2> QED BY <1>4, <2>2
<1> QED BY <1>1, <1>3, <1>4, <1>12, WalkedOn

LEMMA WhileOpenFlows ==
  ASSUME IInv, FlowInv, NEW shape, WhileOpen(shape)
  PROVE  FlowInv'
<1> DEFINE f == Lowered
           n == NBlocks(f)
           fr == FrameOf("while", FALSE, n + 3, n + 1)
           x == Construct("while", This)
<1>1. /\ Body(ir, open, loops, nest) /\ open[Len(open)].kind \in Lasts /\ phase = "body"
      /\ This \in Nat /\ Body(f, open, loops, nest) /\ ~Terminated(f)
      /\ Flown(f, open, nest, edges, came)
  BY AtPlace, AtFlown DEF WhileOpen
<1>2. n \in Nat
  BY <1>1, OpenIs
<1>3. /\ ir' = At(CondBr(Eval(At(Br(Fresh(f, 3), n + 1), n + 1), This, shape), n + 2, n + 3), n + 2)
      /\ open' = Append(open, fr) /\ phase' = phase
  <2>1. (n + 1) + 1 = n + 2 /\ (n + 1) + 2 = n + 3
    BY <1>2
  <2> QED BY <2>1 DEF WhileOpen, FrameOf
<1>4. edges' = edges \cup (came \X {This}) /\ came' = {This} /\ nest' = Append(nest, x)
  BY DEF WhileOpen, Into, ComeTo
<1>5. Begun(x, "while", This)
  BY DEF Begun
<1> HIDE DEF f, n, x
<1>6. WhileIs(f, This, shape, n, ir')
  BY <1>3 DEF WhileIs, n
<1>7. NewFrame(fr, "while", FALSE, n + 3, n + 1) /\ fr \in FrameSet
  <2>1. "while" \in Kinds /\ n + 3 \in Nat /\ n + 1 \in Nat
    BY <1>2 DEF Kinds, Compounds
  <2> HIDE DEF fr
  <2>2. fr = FrameOf("while", FALSE, n + 3, n + 1)
    BY DEF fr
  <2> QED BY <2>1, <2>2, FrameOfIs
<1> HIDE DEF fr
<1>8. Entered(open, fr, open')
  BY <1>1, <1>3, <1>7, OpenIs
<1>9. Flown(ir', open', nest', edges', {This})
  <2>1. nest' = Append(nest, x)
    BY <1>4
  <2>2. Flown(ir', open', nest', edges \cup (came \X {This}), {This})
    BY <1>1, <1>5, <1>6, <1>7, <1>8, <2>1, FlownWhileOpen
  <2> QED BY <1>4, <2>2
<1> QED BY <1>1, <1>3, <1>4, <1>9, WalkedOn

LEMMA MatchOpenFlows ==
  ASSUME IInv, FlowInv, NEW shape, MatchOpen(shape)
  PROVE  FlowInv'
<1> DEFINE f == Eval(Lowered, This, shape)
           n == NBlocks(f)
           fr == [Frame("match", TRUE) EXCEPT !.end = n + 1]
           x == Construct("match", This)
<1>1. /\ Body(ir, open, loops, nest) /\ open[Len(open)].kind \in Lasts /\ phase = "body"
      /\ This \in Nat /\ Body(Lowered, open, loops, nest) /\ ~Terminated(Lowered)
      /\ Flown(Lowered, open, nest, edges, came)
  BY AtPlace, AtFlown DEF MatchOpen
<1>2. Body(f, open, loops, nest) /\ ~Terminated(f)
  BY <1>1, BodyEval DEF Lowered
<1>3. ir' = Fresh(f, 1) /\ open' = Append(open, fr) /\ phase' = phase
  BY DEF MatchOpen
<1>4. edges' = edges \cup (came \X {This}) /\ came' = {This} /\ nest' = Append(nest, x)
  BY DEF MatchOpen, Into, ComeTo
<1>5. Begun(x, "match", This)
  BY DEF Begun
<1>6. Flown(f, open, nest, edges', {This})
  BY <1>1, <1>4, FlownEval
<1> HIDE DEF f, x
<1>7. NewFrame(fr, "match", TRUE, n + 1, 0) /\ fr \in FrameSet
  <2>1. n \in Nat
    BY <1>2, OpenIs
  <2> HIDE DEF n
  <2> DEFINE e == n + 1
  <2>2. "match" \in Kinds /\ e \in Nat
    BY <2>1 DEF Kinds, Compounds
  <2> HIDE DEF e, fr
  <2>3. fr = MatchFrameOf("match", TRUE, e)
    BY DEF MatchFrameOf, fr, e
  <2>4. NewFrame(fr, "match", TRUE, e, 0) /\ fr \in FrameSet
    BY <2>2, <2>3, MatchFrameIs
  <2> QED BY <2>4 DEF e
<1> HIDE DEF fr
<1>8. Entered(open, fr, open')
  BY <1>1, <1>3, <1>7, OpenIs
<1>9. Flown(ir', open', nest', edges', {This})
  <2>1. nest' = Append(nest, x) /\ ir' = Fresh(f, 1) /\ n = NBlocks(f)
    BY <1>3, <1>4
  <2> HIDE DEF n
  <2> QED BY <1>1, <1>2, <1>5, <1>6, <1>7, <1>8, <2>1, FlownMatchOpen
<1> QED BY <1>1, <1>3, <1>4, <1>9, WalkedOn

\* What a branch leads to is not over yet.
LEMMA WentOpen ==
  ASSUME NEW f, NEW os, NEW ls, NEW ns, Body(f, os, ls, ns), NEW t \in 1 .. NBlocks(f),
         NEW b \in Awaited(os), NEW h, Went(f, t, b, h)
  PROVE  ~Terminated(h)
<1> DEFINE P == Awaited(os)
           g == GoOn(f, t)
<1>1. Sound(f, P)
  BY DEF Body
<1>2. Sound(g, P) /\ Terminated(g)
  BY <1>1, GoOnStep
<1> HIDE DEF g
<1>3. ~Terminated(At(g, b))
  BY <1>2, AtStep
<1>4. h = At(g, b)
  BY DEF Went, g
<1> QED BY <1>3, <1>4

\* What the innermost statement waits for, and a loop's condition.
LEMMA TopNames ==
  ASSUME NEW f, NEW os, NEW ls, NEW ns, Body(f, os, ls, ns), NEW fr, fr = os[Len(os)], fr.kind \in Compounds
  PROVE  /\ fr.end \in 1 .. NBlocks(f) /\ fr.end \in Awaited(os)
         /\ fr.kind = "while" => fr.alt \in 1 .. NBlocks(f)
         /\ fr.kind = "then" /\ fr.alt # 0 => fr.alt \in Awaited(os)
<1>1. Len(os) \in 1 .. Len(os) /\ fr \in FrameSet /\ GoodFrame(fr, NBlocks(f)) /\ NBlocks(f) \in Nat
  BY BodyIs
<1>2. fr.end \in Awaits(fr) /\ (fr.kind = "then" /\ fr.alt # 0 => fr.alt \in Awaits(fr))
  BY DEF Awaits, Compounds
<1>3. fr.kind = "while" => fr.alt \in 1 .. NBlocks(f)
  <2>1. fr.alt \in Nat
    BY <1>1 DEF FrameSet
  <2>2. fr.kind = "while" => fr.alt # 0 /\ fr.alt <= NBlocks(f)
    BY <1>1 DEF GoodFrame, Compounds
  <2> QED BY <1>1, <2>1, <2>2
<1> QED BY <1>1, <1>2, <1>3, AwaitsAmong

LEMMA IfCloseFlows ==
  ASSUME IInv, FlowInv, IfClose
  PROVE  FlowInv'
<1> DEFINE dv == FALSE
<1>1. /\ phase = "body" /\ OnlyThen(Top) /\ IsAfter(Below, dv, open')
      /\ Went(ir, Top.end, Top.end, ir') /\ phase' = phase
  BY DEF IfClose, OnlyThen, Went, IsAfter
<1>2. NestsOut(Top, nest, nest') /\ edges' = edges /\ came' = came \cup {nest[Len(nest)].head}
  BY <1>1 DEF IfClose, OutOfIf, NestsOut, Outer, OnlyThen, In
<1>3. Body(ir, open, loops, nest) /\ Flown(ir, open, nest, edges, came)
  BY <1>1 DEF IInv, FlowInv
<1>4. ~Terminated(ir')
  <2>1. Top = open[Len(open)] /\ Top.kind \in Compounds
    BY <1>1 DEF OnlyThen, Compounds, Top
  <2>2. Top.end \in 1 .. NBlocks(ir) /\ Top.end \in Awaited(open)
    BY <1>3, <2>1, TopNames
  <2> QED BY <1>1, <1>3, <2>2, WentOpen
<1>5. Left(open, Top, Below)
  BY DEF Left, Top, Below
<1>6. IsAfter(Below, dv, open') /\ dv \in BOOLEAN
  BY <1>1 DEF dv
<1> HIDE DEF dv
<1>7. Flown(ir', open', nest', edges, came \cup {nest[Len(nest)].head})
  BY <1>1, <1>2, <1>3, <1>4, <1>5, <1>6, FlownIfClose
<1> QED BY <1>1, <1>2, <1>7, WalkedOn

LEMMA ElseCloseFlows ==
  ASSUME IInv, FlowInv, ElseClose
  PROVE  FlowInv'
<1> DEFINE dv == Top.wasDiv /\ Top.div
<1>1. /\ phase = "body" /\ Top.kind = "else" /\ IsAfter(Below, dv, open')
      /\ Went(ir, Top.end, Top.end, ir') /\ phase' = phase
  BY DEF ElseClose, Went, IsAfter
<1>2. NestsOut(Top, nest, nest') /\ edges' = edges /\ came' = came \cup nest[Len(nest)].outs
  BY <1>1 DEF ElseClose, OutOfElse, NestsOut, Outer, In
<1>3. Body(ir, open, loops, nest) /\ Flown(ir, open, nest, edges, came) /\ dv \in BOOLEAN
  BY <1>1 DEF IInv, FlowInv
<1> HIDE DEF dv
<1>4. ~Terminated(ir')
  <2>1. Top = open[Len(open)] /\ Top.kind \in Compounds
    BY <1>1 DEF Compounds, Top
  <2>2. Top.end \in 1 .. NBlocks(ir) /\ Top.end \in Awaited(open)
    BY <1>3, <2>1, TopNames
  <2> QED BY <1>1, <1>3, <2>2, WentOpen
<1>5. Left(open, Top, Below)
  BY DEF Left, Top, Below
<1>6. Flown(ir', open', nest', edges, came \cup nest[Len(nest)].outs)
  BY <1>1, <1>2, <1>3, <1>4, <1>5, FlownElseClose
<1> QED BY <1>1, <1>2, <1>6, WalkedOn

LEMMA WhileCloseFlows ==
  ASSUME IInv, FlowInv, WhileClose
  PROVE  FlowInv'
<1> DEFINE x == nest[Len(nest)]
           dv == FALSE
<1>1. /\ phase = "body" /\ Top.kind = "while" /\ IsAfter(Below, dv, open')
      /\ Went(ir, Top.alt, Top.end, ir') /\ phase' = phase
  BY DEF WhileClose, Went, IsAfter
<1>2. /\ NestsOut(Top, nest, nest') /\ LoopsOut(Top, loops, loops')
      /\ edges' = edges \cup (came \X {x.head}) /\ came' = x.outs \cup {x.head}
  BY <1>1 DEF WhileClose, OutOfLoop, NestsOut, LoopsOut, Outer, In, ComeTo
<1>3. Body(ir, open, loops, nest) /\ Flown(ir, open, nest, edges, came) /\ x = nest[Len(nest)]
  BY <1>1 DEF IInv, FlowInv
<1> HIDE DEF x
<1>4. ~Terminated(ir')
  <2>1. Top = open[Len(open)] /\ Top.kind \in Compounds
    BY <1>1 DEF Compounds, Top
  <2>2. Top.alt \in 1 .. NBlocks(ir) /\ Top.end \in Awaited(open)
    BY <1>1, <1>3, <2>1, TopNames
  <2> QED BY <1>1, <1>3, <2>2, WentOpen
<1>5. Left(open, Top, Below)
  BY DEF Left, Top, Below
<1>6. IsAfter(Below, dv, open') /\ dv \in BOOLEAN
  BY <1>1 DEF dv
<1> HIDE DEF dv
<1>7. Flown(ir', open', nest', edges \cup (came \X {x.head}), x.outs \cup {x.head})
  BY <1>1, <1>2, <1>3, <1>4, <1>5, <1>6, FlownWhileClose
<1> QED BY <1>1, <1>2, <1>7, WalkedOn

LEMMA MatchCloseFlows ==
  ASSUME IInv, FlowInv, MatchClose
  PROVE  FlowInv'
<1> DEFINE x == nest[Len(nest)]
           dv == Top.wild # 0 /\ Top.div
<1>1. /\ phase = "body" /\ Top.kind = "match" /\ IsAfter(Below, dv, open')
      /\ MatchEnd(ir, Top, ir') /\ phase' = phase
  BY DEF MatchClose, MatchEnd, IsAfter
<1>2. /\ NestsOut(Top, nest, nest') /\ edges' = edges
      /\ came' = x.outs \cup (IF x.wild THEN {} ELSE {x.head})
  BY <1>1 DEF MatchClose, OutOfMatch, NestsOut, Outer, In
<1>3. Body(ir, open, loops, nest) /\ Flown(ir, open, nest, edges, came) /\ x = nest[Len(nest)] /\ dv \in BOOLEAN
  BY <1>1 DEF IInv, FlowInv
<1>4. x.wild = (Top.wild # 0)
  <2>1. open[Len(open)].kind \in Compounds
    BY <1>1 DEF Compounds, Top
  <2>2. x.wild = (open[Len(open)].kind = "match" /\ open[Len(open)].wild # 0)
    BY <1>3, <2>1, InIs
  <2> QED BY <1>1, <2>2 DEF Top
<1> HIDE DEF x, dv
<1>5. Left(open, Top, Below)
  BY DEF Left, Top, Below
<1>6. Flown(ir', open', nest', edges, x.outs \cup (IF Top.wild # 0 THEN {} ELSE {x.head}))
  BY <1>1, <1>2, <1>3, <1>5, FlownMatchClose
<1>7. came' = x.outs \cup (IF Top.wild # 0 THEN {} ELSE {x.head})
  BY <1>2, <1>4
<1> QED BY <1>1, <1>2, <1>6, <1>7, WalkedOn

LEMMA ElseOpenFlows ==
  ASSUME IInv, FlowInv, ElseOpen
  PROVE  FlowInv'
<1> DEFINE fr == open[Len(open)]
           g  == [fr EXCEPT !.kind = "else", !.div = FALSE, !.wasDiv = fr.div]
           y  == nest[Len(nest)]
           x  == [y EXCEPT !.outs = came]
<1>1. /\ phase = "body" /\ fr.kind = "then" /\ fr.alt # 0 /\ open' = [open EXCEPT ![Len(open)] = g]
      /\ Went(ir, fr.end, fr.alt, ir') /\ phase' = phase
  BY DEF ElseOpen, SetTop, Went, Top
<1>2. Reset(nest, x, nest') \/ x \notin NestSet
  BY DEF ElseOpen, Else, SetIn, Reset, In
<1>3. edges' = edges /\ came' = {y.head}
  BY DEF ElseOpen, Else, In
<1>4. /\ Body(ir, open, loops, nest) /\ Flown(ir, open, nest, edges, came) /\ came \in SUBSET Nat
  BY <1>1 DEF IInv, FlowInv
<1>5. fr \in FrameSet /\ fr.kind \in Compounds /\ fr.kind # "match"
  BY <1>1, <1>4, BodyIs DEF Compounds
<1>6. y \in NestSet /\ ~y.wild
  BY <1>4, <1>5, InIs
<1>7. x \in NestSet /\ x.kind = y.kind /\ x.head = y.head /\ x.outs = came /\ ~x.wild
  <2> HIDE DEF y
  <2> QED BY <1>4, <1>6 DEF NestSet
<1>8. g \in FrameSet /\ Turned(fr, g)
  <2> HIDE DEF fr
  <2>1. g \in FrameSet
    BY <1>5 DEF FrameSet, Kinds, Compounds
  <2> QED BY <1>1, <1>5, <2>1 DEF FrameSet, Turned, SameNames
<1>9. y = nest[Len(nest)] /\ fr = open[Len(open)]
  OBVIOUS
<1> HIDE DEF g, x, y
<1>10. Recasts(open, Len(open), fr, open', g)
  BY <1>1, <1>4, <1>8, SetTopIs
<1> HIDE DEF fr
<1>11. ~Terminated(ir')
  <2>1. fr.end \in 1 .. NBlocks(ir) /\ fr.alt \in Awaited(open)
    BY <1>1, <1>4, <1>5, <1>9, TopNames
  <2> QED BY <1>1, <1>4, <2>1, WentOpen
<1>12. Flown(ir', open', nest', edges, {y.head})
  BY <1>1, <1>2, <1>4, <1>7, <1>8, <1>9, <1>10, <1>11, FlownElse
<1> QED BY <1>1, <1>3, <1>12, WalkedOn

LEMMA ArmOpenFlows ==
  ASSUME IInv, FlowInv, NEW k \in 1 .. MaxLabels, NEW isWildcard \in BOOLEAN, ArmOpen(k, isWildcard)
  PROVE  FlowInv'
<1>1. /\ phase = "body" /\ phase' = phase /\ edges' = edges /\ came' = {In.head}
      /\ Body(ir, open, loops, nest) /\ k \in Nat \ {0}
  BY ArmOpens
<1>2. PICK n, t, L, fr, g, os1, arm, y :
        ArmSteps(ir, open, nest, k, isWildcard, n, t, ir', L, fr, g, os1, arm, open', y, nest')
  BY ArmOpens
<1>3. Flown(ir, open, nest, edges, came)
  BY <1>1 DEF FlowInv
<1>4. Flown(ir', open', nest', edges, {y.head})
  BY <1>1, <1>2, <1>3, FlownArm DEF ArmSteps
<1>5. y.head = In.head
  BY <1>2 DEF ArmSteps, SameConstruct, In
<1> QED BY <1>1, <1>4, <1>5, WalkedOn

LEMMA ArmCloseFlows ==
  ASSUME IInv, FlowInv, ArmClose
  PROVE  FlowInv'
<1>1. /\ phase = "body" /\ phase' = phase /\ edges' = edges /\ came' = {} /\ Body(ir, open, loops, nest)
  BY ArmCloses
<1>2. PICK fr, bs, L, mt, g, y : ArmEnds(ir, open, nest, came, fr, bs, L, mt, g, ir', open', y, nest')
  BY ArmCloses
<1>3. Flown(ir, open, nest, edges, came)
  BY <1>1 DEF FlowInv
<1>4. Flown(ir', open', nest', edges, {})
  BY <1>1, <1>2, <1>3, FlownArmEnd DEF ArmEnds, ArmedBy
<1> QED BY <1>1, <1>4, WalkedOn

LEMMA FnEndFlows ==
  ASSUME IInv, FlowInv, NEW isVoid \in BOOLEAN, FnEnd(isVoid)
  PROVE  FlowInv'
<1> DEFINE op == IF isVoid THEN "ret" ELSE "unreachable"
<1>1. /\ phase = "body" /\ open[Len(open)].kind = "fn" /\ phase' \in {"accepted", "missing_return"}
      /\ ir' = (IF Terminated(ir) THEN ir ELSE Put(ir, Jump(op, <<>>))) /\ edges' = edges
  BY DEF FnEnd, Top, flowVars
<1>2. Body(ir, open, loops, nest) /\ Flown(ir, open, nest, edges, came)
  BY <1>1 DEF IInv, FlowInv
<1>3. Awaited(open) = {} /\ Detours(open, ir.cur) = {}
  BY <1>1, <1>2, LastFrame
<1>4. edges = EdgesOf(ir, {})
  BY <1>2, <1>3, FlownIs
<1>5. EdgesOf(ir', {}) = EdgesOf(ir, {})
  <2>1. CASE Terminated(ir)
    BY <1>1, <2>1
  <2>2. CASE ~Terminated(ir)
    <3>1. {} \in Ways(NBlocks(ir)) /\ OutOf({}, ir.cur) = {} /\ op \in {"ret", "unreachable"}
      BY DEF Ways, OutOf
    <3>2. Sound(ir, {})
      BY <1>2, <1>3 DEF Body
    <3>3. Led(ir, {}, {}, ir')
      BY <1>1, <2>2, <3>1, <3>2, ExitFlow
    <3>4. UNION {Past(ir, {}, ir.cur) \X FirstOf(ir.blocks[t]) : t \in {}} = {}
      OBVIOUS
    <3>5. \A X : X \cup {} = X
      OBVIOUS
    <3> QED BY <3>3, <3>4, <3>5 DEF Led
  <2> QED BY <2>1, <2>2
<1> QED BY <1>1, <1>4, <1>5 DEF FlowInv

\* The entry's code, before there is a statement.
LEMMA InitFlows ==
  ASSUME Init
  PROVE  FlowInv
<1> DEFINE in == Instr(0)
           is == <<in>>
           bl == <<is>>
           f  == [blocks |-> bl, cur |-> 1]
           fr == Frame("fn", FALSE)
           os == <<fr>>
<1>1. phase = "body" /\ ir = f /\ open = os /\ edges = {} /\ came = {0} /\ nest = <<>>
  BY DEF Init, FlowInit
<1>2. fr.kind = "fn" /\ os[1] = fr /\ Len(os) = 1
  BY DEF Frame
<1>3. in \in Ins /\ in.op = "code" /\ in.of = 0 /\ in.to = <<>>
  BY DEF Instr, Ins
<1>4. f.cur = 1 /\ f.blocks = bl /\ NBlocks(f) = 1 /\ bl[1] = is
  BY DEF NBlocks
<1> HIDE DEF in, fr
<1>5. is = Append(<<>>, in) /\ <<>> \in Seq(Ins) /\ is # <<>> /\ is[Len(is)] = in
  BY <1>3
<1> HIDE DEF is, f, os, bl
<1>6. Codes(is) # {} /\ LastOf(is) = {0} /\ InTurn(is) = {}
  <2>1. /\ Codes(is) # {} /\ LastOf(is) = {0}
        /\ InTurn(is) = InTurn(<<>>) \cup (LastOf(<<>>) \X {0})
    BY <1>3, <1>5, CodeSaid
  <2>2. {} \cup ({} \X {0}) = {}
    OBVIOUS
  <2> QED BY <2>1, <2>2, NothingSaid
<1>7. ~Terminated(f) /\ Targets(is) = {}
  <2>1. ~Terminated(f)
    BY <1>3, <1>4, <1>5 DEF Terminated, Terminators
  <2> QED BY <1>3, <1>5, <2>1 DEF Targets
<1>8. Detours(os, f.cur) = {}
  <2>1. InnerTo(os, Len(os)) = {}
    <3>1. 1 .. Len(os) - 1 = {}
      BY <1>2
    <3> QED BY <3>1 DEF InnerTo
  <2>2. WildOf(os[Len(os)]) = 0
    BY <1>2 DEF WildOf
  <2> QED BY <2>1, <2>2 DEF Detours, With
<1>9. Came(f, {}) = {0}
  <2>1. 1 \in 1 .. NBlocks(f) /\ Codes(f.blocks[1]) # {} /\ LastOf(f.blocks[1]) = {0}
    BY <1>4, <1>6
  <2>2. Past(f, {}, 1) = {0}
    BY <2>1, PastIs
  <2> QED BY <1>4, <1>7, <2>2 DEF Came
<1>10. EdgesOf(f, {}) = {}
  <2>1. Before(f, {}, 1) = {}
    <3> DEFINE E == Succ(f, {})
    <3>1. DOMAIN E = 1 .. 1 /\ E[1] = {}
      <4>1. OutOf({}, 1) = {}
        BY DEF OutOf
      <4> QED BY <1>4, <1>7, <4>1 DEF Succ
    <3> HIDE DEF E
    <3>2. ASSUME NEW s \in Nat PROVE Follows(E, Said(f), s, {})
      BY <3>1 DEF Follows
    <3>3. {} \in SUBSET DOMAIN E /\ 1 \notin {}
      OBVIOUS
    <3>4. Arrive(E, Said(f), 1) = {}
      BY <3>2, <3>3 DEF Arrive
    <3> QED BY <3>4 DEF Before, E
  <2>2. \A b \in 1 .. NBlocks(f) : b = 1 /\ f.blocks[b] = is
    BY <1>4
  <2>3. \A x : x \notin EdgesOf(f, {})
    <3>1. ASSUME NEW x, x \in EdgesOf(f, {}) PROVE FALSE
      <4>1. PICK b \in 1 .. NBlocks(f) : x \in InTurn(f.blocks[b]) \/ x \in Before(f, {}, b) \X FirstOf(f.blocks[b])
        BY <3>1, EdgesAre
      <4>2. x \in Before(f, {}, 1) \X FirstOf(is)
        BY <1>6, <2>2, <4>1
      <4> QED BY <2>1, <4>2
    <3> QED BY <3>1
  <2> QED BY <2>3
<1>11. Told(os, <<>>, Giving(f, {}, os))
  <2> DEFINE w == [i \in 1 .. 0 |-> 1]
             G == Giving(f, {}, os)
             ns == <<>>
  <2>1. 1 .. 0 = {} /\ w \in [1 .. 0 -> 1 .. Len(os)] /\ ns \in Seq(NestSet) /\ Len(ns) = 0
    OBVIOUS
  <2>2. \A d \in 1 .. Len(os) : os[d].kind \notin Compounds
    <3>1. \A d \in 1 .. Len(os) : os[d] = fr
      BY <1>2
    <3> QED BY <1>2, <3>1 DEF Compounds
  <2> HIDE DEF w, G, ns
  <2>3. Marked(os, Len(os), Compounds, 0, w)
    BY <2>1, <2>2 DEF Marked
  <2>4. TellsOf(os, ns, G, w)
    BY <2>1, <2>3 DEF TellsOf
  <2>5. Told(os, ns, G)
    BY <2>1, <2>4 DEF Told
  <2> QED BY <2>5 DEF G, ns
<1>12. Flown(f, os, <<>>, {}, {0})
  <2>1. {} = Detours(os, f.cur) /\ {} = EdgesOf(f, {}) /\ {0} = Came(f, {})
    BY <1>8, <1>9, <1>10
  <2> QED BY <1>11, <2>1, FlownBy
<1> QED BY <1>1, <1>12 DEF FlowInv, Complete

\* Every step draws what the text says, and nothing else.
LEMMA StepFlows ==
  ASSUME IInv, FlowInv, [Next]_vars
  PROVE  FlowInv'
<1>1. ASSUME NEW shape \in Shapes, Simple(shape) PROVE FlowInv'
  BY <1>1, SimpleFlows
<1>2. CASE Empty
  BY <1>2, EmptyFlows
<1>3. ASSUME NEW shape \in Shapes, Return(shape) PROVE FlowInv'
  BY <1>3, ReturnFlows
<1>4. CASE StrayJump
  BY <1>4, StrayJumpFlows
<1>5. CASE Break
  BY <1>5, BreakFlows
<1>6. CASE Continue
  BY <1>6, ContinueFlows
<1>7. CASE BlockOpen
  BY <1>7, BlockOpenFlows
<1>8. CASE BlockClose
  BY <1>8, BlockCloseFlows
<1>9. ASSUME NEW shape \in Shapes, NEW hasElse \in BOOLEAN, IfOpen(shape, hasElse) PROVE FlowInv'
  BY <1>9, IfOpenFlows
<1>10. CASE IfClose
  BY <1>10, IfCloseFlows
<1>11. CASE ElseOpen
  BY <1>11, ElseOpenFlows
<1>12. CASE ElseClose
  BY <1>12, ElseCloseFlows
<1>13. ASSUME NEW shape \in Shapes, WhileOpen(shape) PROVE FlowInv'
  BY <1>13, WhileOpenFlows
<1>14. CASE WhileClose
  BY <1>14, WhileCloseFlows
<1>15. ASSUME NEW shape \in Shapes, MatchOpen(shape) PROVE FlowInv'
  BY <1>15, MatchOpenFlows
<1>16. ASSUME NEW k \in 1 .. MaxLabels, NEW isWildcard \in BOOLEAN, ArmOpen(k, isWildcard) PROVE FlowInv'
  BY <1>16, ArmOpenFlows
<1>17. CASE ArmClose
  BY <1>17, ArmCloseFlows
<1>18. CASE MatchClose
  BY <1>18, MatchCloseFlows
<1>19. ASSUME NEW isVoid \in BOOLEAN, FnEnd(isVoid) PROVE FlowInv'
  BY <1>19, FnEndFlows
<1>20. CASE UNCHANGED vars
  BY <1>20 DEF vars, flowVars, FlowInv, Complete
<1> QED BY <1>1, <1>2, <1>3, <1>4, <1>5, <1>6, <1>7, <1>8, <1>9, <1>10, <1>11, <1>12, <1>13,
           <1>14, <1>15, <1>16, <1>17, <1>18, <1>19, <1>20 DEF Next

-----------------------------------------------------------------------------
(* The ways between statements                                             *)

\* Control comes from s at the blocks reached through silent ones from a block
\* whose last statement s is.
LEMMA FromIs ==
  ASSUME NEW n \in Nat \ {0}, NEW E \in [1 .. n -> SUBSET (1 .. n)],
         \A b \in 1 .. n : Leaving(b) = E[b],
         NEW K \in [1 .. n -> SUBSET Nat], \A b \in 1 .. n : \A x \in K[b] : K[b] = {x},
         NEW P \in SUBSET (1 .. n), \A b \in 1 .. n : b \in P <=> K[b] = {},
         NEW s \in Nat, NEW c \in 1 .. n
  PROVE  c \in From(E, K, s) <=> \E b \in 1 .. n : s \in K[b] /\ c \in Reach(E[b], P)
<1> DEFINE F == From(E, K, s)
           D == {d \in 1 .. n : \E b \in 1 .. n : s \in K[b] /\ d \in Reach(E[b], P)}
<1>1. DOMAIN E = 1 .. n /\ P \in SUBSET (1 .. n) /\ \A b \in 1 .. n : b \in P <=> K[b] = {}
  OBVIOUS
<1>2. Follows(E, K, s, F) /\ F \in SUBSET (1 .. n)
      /\ \A C \in SUBSET (1 .. n) : Follows(E, K, s, C) => F \subseteq C
  BY FromFollows
<1> HIDE DEF F
<1>3. ASSUME NEW b \in 1 .. n
      PROVE  Least(E, E[b], P, Reach(E[b], P))
  <2>1. E[b] \in SUBSET (1 .. n)
    OBVIOUS
  <2> QED BY <1>1, <2>1, ReachLeast
<1>4. ASSUME NEW b \in 1 .. n, s \in K[b], c \in Reach(E[b], P) PROVE c \in F
  <2>1. E[b] \subseteq F
    BY <1>1, <1>2, <1>4 DEF Follows, Active
  <2>2. Shut(E, P, F)
    BY <1>1, <1>2 DEF Follows, Active, Shut
  <2>3. Reach(E[b], P) \subseteq F
    BY <1>1, <1>2, <1>3, <2>1, <2>2 DEF Least
  <2> QED BY <1>4, <2>3
<1>5. Follows(E, K, s, D) /\ D \in SUBSET (1 .. n)
  <2>1. ASSUME NEW b \in 1 .. n, Active(K, s, D, b), NEW t \in E[b] PROVE t \in D
    <3>1. t \in 1 .. n
      OBVIOUS
    <3>2. CASE K[b] = {}
      <4>1. b \in D /\ b \in P
        BY <1>1, <2>1, <3>2 DEF Active
      <4>2. PICK d \in 1 .. n : s \in K[d] /\ b \in Reach(E[d], P)
        BY <4>1
      <4>3. t \in Reach(E[d], P)
        BY <1>3, <4>1, <4>2 DEF Least, Shut
      <4> QED BY <3>1, <4>2, <4>3
    <3>3. CASE K[b] # {}
      <4>1. s \in K[b]
        BY <2>1, <3>3 DEF Active
      <4>2. t \in Reach(E[b], P)
        BY <1>3 DEF Least
      <4> QED BY <3>1, <4>1, <4>2
    <3> QED BY <3>2, <3>3
  <2> HIDE DEF D
  <2>2. Follows(E, K, s, D)
    BY <1>1, <2>1 DEF Follows
  <2> QED BY <2>2 DEF D
<1>6. c \in F => c \in D
  BY <1>2, <1>5
<1> QED BY <1>4, <1>6 DEF F

\* In a body that is finished the graph of the property is the graph of the blocks.
LEMMA GraphIs ==
  ASSUME IInv, Complete
  PROVE  GraphEdges = EdgesOf(ir, {})
<1> DEFINE n == NBlocks(ir)
           E == Succ(ir, {})
           K == Said(ir)
           bs == ir.blocks
           P == {e \in 1 .. n : K[e] = {}}
<1>1. /\ Done(ir, open, phase) /\ n \in Nat \ {0} /\ E \in [1 .. n -> SUBSET (1 .. n)]
      /\ \A b \in 1 .. n : bs[b] # <<>>
  BY BlocksAre DEF Done
<1>2. \A b \in 1 .. n : bs[b] \in Seq(Ins)
  BY BlocksAre
<1>3. \A b \in 1 .. n : Leaving(b) = E[b]
  BY <1>1 DEF Leaving, Succ, Targets, OutOf
<1>4. K = [b \in 1 .. n |-> LastOf(bs[b])]
  BY DEF Said
<1>5. /\ K \in [1 .. n -> SUBSET Nat] /\ \A b \in 1 .. n : K[b] = LastOf(bs[b])
      /\ \A b \in 1 .. n : FirstOf(bs[b]) \in SUBSET Nat
  BY <1>2, <1>4, EndsIn
<1>6. \A b \in 1 .. n : \A x \in K[b] : K[b] = {x}
  BY <1>5 DEF LastOf
<1>7. P = {b \in BlockIds : Codes(bs[b]) = {}} /\ BlockIds = 1 .. n
  BY <1>5 DEF LastOf, BlockIds
<1>8. \A x : x \in EdgesOf(ir, {}) <=>
        \E b \in 1 .. n : x \in InTurn(bs[b]) \/ x \in Before(ir, {}, b) \X FirstOf(bs[b])
  BY EdgesAre
<1> DEFINE Q == {b \in BlockIds : Codes(bs[b]) = {}}
           From1(b) == {LastCode(bs[b])} \X {FirstCode(bs[c]) : c \in Reach(Leaving(b), Q) \ Q}
<1>9. GraphEdges = (UNION {InTurn(bs[b]) : b \in BlockIds}) \cup (UNION {From1(b) : b \in BlockIds \ Q})
  BY DEF GraphEdges
<1> HIDE DEF Q
<1> HIDE DEF From1
<1>10. \A x : x \in GraphEdges <=>
         \/ \E b \in 1 .. n : x \in InTurn(bs[b])
         \/ \E b \in 1 .. n : b \notin P /\ x \in From1(b)
  <2>1. P = Q
    BY <1>7 DEF Q
  <2> QED BY <1>7, <1>9, <2>1
<1>11. ASSUME NEW b \in 1 .. n
       PROVE  b \notin P => LastOf(bs[b]) = {LastCode(bs[b])} /\ FirstOf(bs[b]) = {FirstCode(bs[b])}
  BY <1>7 DEF LastOf, FirstOf
<1>12. \A b \in 1 .. n : b \in P => LastOf(bs[b]) = {} /\ FirstOf(bs[b]) = {}
  BY <1>7 DEF LastOf, FirstOf
<1>13. \A b \in 1 .. n : \A s \in Nat : s \in Before(ir, {}, b) <=>
         \E d \in 1 .. n : s \in K[d] /\ b \in Reach(E[d], P)
  <2>1. ASSUME NEW b \in 1 .. n, NEW s \in Nat
        PROVE  s \in Before(ir, {}, b) <=> b \in From(E, K, s)
    <3> HIDE DEF E, K
    <3>1. s \in Arrive(E, K, b) <=> b \in From(E, K, s)
      BY <1>1, <2>1, ArriveIs
    <3> QED BY <3>1 DEF Before, E, K
  <2> HIDE DEF E, K
  <2>2. ASSUME NEW b \in 1 .. n, NEW s \in Nat
        PROVE  b \in From(E, K, s) <=> \E d \in 1 .. n : s \in K[d] /\ b \in Reach(E[d], P)
    <3>1. P \in SUBSET (1 .. n) /\ \A e \in 1 .. n : e \in P <=> K[e] = {}
      OBVIOUS
    <3>2. n \in Nat \ {0} /\ E \in [1 .. n -> SUBSET (1 .. n)] /\ K \in [1 .. n -> SUBSET Nat]
      BY <1>1, <1>5
    <3> HIDE DEF n, P, bs
    <3> QED BY <1>3, <1>6, <3>1, <3>2, FromIs
  <2> QED BY <2>1, <2>2
<1>14. \A b \in 1 .. n : Before(ir, {}, b) \subseteq Nat
  BY DEF Before, Arrive
<1> HIDE DEF E, K, P, n, bs
<1>15. ASSUME NEW x, NEW b \in 1 .. n, b \notin P, x \in From1(b) PROVE x \in EdgesOf(ir, {})
  <2>1. PICK c : c \in Reach(Leaving(b), P) /\ c \notin P /\ x = <<LastCode(bs[b]), FirstCode(bs[c])>>
    <3>1. P = Q
      BY <1>7 DEF Q
    <3> QED BY <1>15, <3>1 DEF From1
  <2>2. E[b] \in SUBSET (1 .. n) /\ P \in SUBSET (1 .. n)
    BY <1>1 DEF P
  <2>3. c \in 1 .. n /\ c \in Reach(E[b], P)
    <3>1. Least(E, E[b], P, Reach(E[b], P))
      BY <1>1, <1>3, <2>2, ReachLeast
    <3> QED BY <1>1, <1>3, <2>1, <3>1 DEF Least
  <2>4. LastCode(bs[b]) \in K[b] /\ LastCode(bs[b]) \in Nat
    BY <1>5, <1>11, <1>15
  <2>5. LastCode(bs[b]) \in Before(ir, {}, c)
    BY <1>13, <2>3, <2>4
  <2>6. FirstCode(bs[c]) \in FirstOf(bs[c])
    BY <1>11, <2>1, <2>3
  <2> QED BY <1>8, <2>1, <2>3, <2>5, <2>6
<1>16. ASSUME NEW x, NEW c \in 1 .. n, x \in Before(ir, {}, c) \X FirstOf(bs[c]) PROVE x \in GraphEdges
  <2>1. PICK s \in Before(ir, {}, c), t \in FirstOf(bs[c]) : x = <<s, t>>
    BY <1>16
  <2>2. s \in Nat
    BY <1>14, <2>1
  <2>3. PICK b \in 1 .. n : s \in K[b] /\ c \in Reach(E[b], P)
    BY <1>13, <2>1, <2>2
  <2>4. b \notin P /\ c \notin P
    BY <1>5, <1>12, <2>1, <2>3
  <2>5. s = LastCode(bs[b]) /\ t = FirstCode(bs[c])
    <3>1. s \in LastOf(bs[b]) /\ LastOf(bs[b]) = {LastCode(bs[b])}
      BY <1>5, <1>11, <2>3, <2>4
    <3>2. FirstOf(bs[c]) = {FirstCode(bs[c])}
      BY <1>11, <1>16, <2>4
    <3> QED BY <2>1, <3>1, <3>2
  <2>6. x \in From1(b)
    <3>1. P = Q
      BY <1>7 DEF Q
    <3> QED BY <1>3, <2>1, <2>3, <2>4, <2>5, <3>1 DEF From1
  <2> QED BY <1>10, <2>4, <2>6
<1>17. \A x : x \in GraphEdges <=> x \in EdgesOf(ir, {})
  BY <1>8, <1>10, <1>15, <1>16
<1> QED BY <1>17

\* The blocks implement the structured program (lower_stmt and its callees,
\* lowering.c:784-1021): in every finished body, one statement can come right
\* after another in the graph of blocks exactly if it can in the text, after a
\* return or a break too.
THEOREM FlowIsExact == Spec => []FlowExact
<1>1. Init => IInv /\ FlowInv
  BY InitHolds, InitFlows
<1>2. (IInv /\ FlowInv) /\ [Next]_vars => (IInv /\ FlowInv)'
  BY StepKeeps, StepFlows
<1>3. IInv /\ FlowInv => FlowExact
  BY GraphIs DEF FlowInv, FlowExact
<1> QED BY <1>1, <1>2, <1>3, PTL DEF Spec
=============================================================================
