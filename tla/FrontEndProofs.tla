--------------------------- MODULE FrontEndProofs ---------------------------
(***************************************************************************)
(* The diagnostics are honest and come in order, the exit status is        *)
(* truthful, sema sees whole trees only and the names of the program are   *)
(* collected as declared, for every command line, every text of the files  *)
(* and every limit.                                                        *)
(***************************************************************************)
EXTENDS Declared, FiniteSetTheorems, WellFoundedInduction, TLAPS

-----------------------------------------------------------------------------
(* A Diag *)

\* A sequence, of whatever it may be.
IsSeq(q) == \E S : q \in Seq(S)

IsDiag(x) ==
  /\ x = [count |-> x.count, reported |-> x.reported, last_printed |-> x.last_printed,
          lines |-> x.lines]
  /\ x.count \in Nat /\ x.reported \in Nat
  /\ IsSeq(x.lines)

\* reported stops one past the limit, where the notice has been written.
Limited(x) ==
  x.reported = IF x.count <= MaxReported THEN x.count ELSE MaxReported + 1

DiagInv(x) == IsDiag(x) /\ Limited(x) /\ Honest(x)

LEMMA LinesAre ==
  ASSUME NEW x, IsDiag(x)
  PROVE  Len(x.lines) \in Nat /\ DOMAIN x.lines = 1 .. Len(x.lines)
BY DEF IsDiag, IsSeq

LEMMA PrintedFinite ==
  ASSUME NEW x, IsDiag(x), NEW w
  PROVE  /\ IsFiniteSet(Printed(x, w)) /\ Cardinality(Printed(x, w)) \in Nat
         /\ Len(x.lines) + 1 \notin Printed(x, w)
<1>1. Len(x.lines) \in Nat /\ DOMAIN x.lines = 1 .. Len(x.lines)
  BY LinesAre
<1>2. Printed(x, w) \subseteq 1 .. Len(x.lines)
  BY <1>1 DEF Printed
<1>3. IsFiniteSet(1 .. Len(x.lines))
  BY <1>1, FS_Interval
<1>4. Len(x.lines) + 1 \notin 1 .. Len(x.lines)
  BY <1>1
<1> QED BY <1>2, <1>3, <1>4, FS_Subset, FS_CardinalityType

LEMMA StaysASeq ==
  ASSUME NEW x, IsDiag(x), NEW l, NEW y, y.lines = Append(x.lines, l)
  PROVE  IsSeq(y.lines)
<1>1. PICK S : x.lines \in Seq(S)
  BY DEF IsDiag, IsSeq
<1>2. x.lines \in Seq(S \cup {l}) /\ l \in S \cup {l}
  BY <1>1
<1>3. y.lines \in Seq(S \cup {l})
  BY <1>2
<1> QED BY <1>3 DEF IsSeq

\* What one line more changes.
LEMMA OneLine ==
  ASSUME NEW x, IsDiag(x), NEW l, NEW y, y.lines = Append(x.lines, l)
  PROVE  /\ Len(y.lines) = Len(x.lines) + 1
         /\ y.lines[Len(x.lines) + 1] = l
         /\ \A i \in DOMAIN x.lines : y.lines[i] = x.lines[i]
<1>1. PICK S : x.lines \in Seq(S)
  BY DEF IsDiag, IsSeq
<1>2. x.lines \in Seq(S \cup {l}) /\ l \in S \cup {l}
  BY <1>1
<1> QED BY <1>2

\* It is printed, and nothing else is.
LEMMA OnePrinted ==
  ASSUME NEW x, IsDiag(x), NEW l, NEW y, y.lines = Append(x.lines, l), NEW w
  PROVE  Printed(y, w) = IF l.what = w THEN Printed(x, w) \cup {Len(x.lines) + 1}
                         ELSE Printed(x, w)
<1>1. /\ Len(x.lines) \in Nat /\ DOMAIN x.lines = 1 .. Len(x.lines)
      /\ Len(y.lines) = Len(x.lines) + 1 /\ y.lines[Len(x.lines) + 1] = l
      /\ \A i \in DOMAIN x.lines : y.lines[i] = x.lines[i]
  BY OneLine, LinesAre
<1>2. DOMAIN y.lines = 1 .. Len(x.lines) + 1
  <2>1. IsSeq(y.lines)
    BY StaysASeq
  <2> QED BY <1>1, <2>1 DEF IsSeq
<1>3. Printed(y, w) = {i \in 1 .. Len(x.lines) + 1 : y.lines[i].what = w}
  BY <1>2 DEF Printed
<1>4. Printed(x, w) = {i \in 1 .. Len(x.lines) : x.lines[i].what = w}
  BY <1>1 DEF Printed
<1>5. 1 .. Len(x.lines) + 1 = (1 .. Len(x.lines)) \cup {Len(x.lines) + 1}
  BY <1>1
<1> QED BY <1>1, <1>3, <1>4, <1>5

LEMMA DiagStarts == DiagInv(diag_init)
<1>1. IsDiag(diag_init)
  <2>1. diag_init.lines \in Seq({})
    BY DEF diag_init
  <2> QED BY <2>1 DEF diag_init, IsDiag, IsSeq
<1>2. \A w : Printed(diag_init, w) = {}
  BY DEF diag_init, Printed
<1>3. diag_init.count = 0 /\ diag_init.reported = 0
  BY DEF diag_init
<1>4. Limited(diag_init)
  BY <1>3, DiagAssumption DEF Limited
<1>5. Honest(diag_init)
  <2>1. Cardinality(Printed(diag_init, "error")) = 0
    BY <1>2, FS_EmptySet
  <2>2. 0 = (IF diag_init.count < MaxReported THEN diag_init.count ELSE MaxReported)
        /\ ~(diag_init.count > MaxReported)
    BY <1>3, DiagAssumption
  <2> QED BY <1>2, <2>1, <2>2 DEF Honest
<1> QED BY <1>1, <1>4, <1>5 DEF DiagInv

\* An error leaves the Diag honest; if it was printed, it stands last, and the
\* notice has not been written.
LEMMA ErrorKeeps ==
  ASSUME NEW x, DiagInv(x), NEW at
  PROVE  LET y == diag_error(x, at)
         IN  /\ DiagInv(y)
             /\ y.last_printed => /\ Len(y.lines) > 0 /\ y.lines[Len(y.lines)] = ErrorLine(at)
                                  /\ y.count <= MaxReported
<1>y. PICK y : y = diag_error(x, at)
  OBVIOUS
<1>0. IsDiag(x) /\ Limited(x) /\ Honest(x) /\ MaxReported \in Nat /\ CountCap \in Nat
      /\ MaxReported < CountCap
  BY DiagAssumption DEF DiagInv
<1>1. /\ x.count \in Nat /\ x.reported \in Nat
      /\ Len(x.lines) \in Nat /\ DOMAIN x.lines = 1 .. Len(x.lines)
  BY <1>0, LinesAre DEF IsDiag
<1>2. Counted(x.count) \in Nat /\ (x.count <= MaxReported => Counted(x.count) = x.count + 1)
      /\ (x.count > MaxReported => Counted(x.count) > MaxReported)
  BY <1>0, <1>1 DEF Counted
<1>3. ErrorLine(at).what = "error" /\ CutOffLine(at).what = "cutoff"
  BY DEF ErrorLine, CutOffLine, Line
<1>4. CASE x.reported < MaxReported
  <2>1. y = [count |-> Counted(x.count), reported |-> x.reported + 1, last_printed |-> TRUE,
             lines |-> Append(x.lines, ErrorLine(at))]
    BY <1>y, <1>0, <1>1, <1>4 DEF diag_error
  <2>2. x.count < MaxReported /\ x.reported = x.count /\ y.count = x.count + 1
    BY <1>0, <1>1, <1>2, <1>4, <2>1 DEF Limited
  <2>3. y.lines = Append(x.lines, ErrorLine(at))
    BY <2>1
  <2>4. /\ Len(y.lines) = Len(x.lines) + 1 /\ IsSeq(y.lines)
        /\ y.lines[Len(x.lines) + 1] = ErrorLine(at)
        /\ \A i \in DOMAIN x.lines : y.lines[i] = x.lines[i]
        /\ Printed(y, "error") = Printed(x, "error") \cup {Len(x.lines) + 1}
        /\ Printed(y, "note") = Printed(x, "note")
        /\ Printed(y, "cutoff") = Printed(x, "cutoff")
    <3>2. /\ IsSeq(y.lines)
          /\ Len(y.lines) = Len(x.lines) + 1
          /\ y.lines[Len(x.lines) + 1] = ErrorLine(at)
          /\ \A i \in DOMAIN x.lines : y.lines[i] = x.lines[i]
      <4>0. IsDiag(x)
        BY <1>0
      <4>1. IsSeq(y.lines)
        BY <4>0, <2>3, StaysASeq
      <4>2. Len(y.lines) = Len(x.lines) + 1
        BY <4>0, <2>3, OneLine
      <4>3. y.lines[Len(x.lines) + 1] = ErrorLine(at)
        BY <4>0, <2>3, OneLine
      <4>4. \A i \in DOMAIN x.lines : y.lines[i] = x.lines[i]
        BY <4>0, <2>3, OneLine
      <4> QED BY <4>1, <4>2, <4>3, <4>4
    <3>3. ASSUME NEW w
          PROVE  Printed(y, w) = IF ErrorLine(at).what = w
                                 THEN Printed(x, w) \cup {Len(x.lines) + 1} ELSE Printed(x, w)
      BY <1>0, <2>3, OnePrinted
    <3>4. "error" = ErrorLine(at).what
      BY <1>3
    <3>5. Printed(y, "error") = Printed(x, "error") \cup {Len(x.lines) + 1}
      BY <3>3, <3>4
    <3>6. Printed(y, "note") = Printed(x, "note")
      BY <3>3, <3>4
    <3>7. Printed(y, "cutoff") = Printed(x, "cutoff")
      BY <3>3, <3>4
    <3> QED BY <3>2, <3>5, <3>6, <3>7
  <2>5. IsDiag(y)
    <3>1. y.count \in Nat /\ y.reported \in Nat
      BY <1>1, <1>2, <2>1
    <3> QED BY <2>1, <2>4, <3>1 DEF IsDiag
  <2>6. Limited(y)
    BY <1>0, <1>1, <2>1, <2>2 DEF Limited
  <2>7. Cardinality(Printed(y, "error")) = Cardinality(Printed(x, "error")) + 1
    <3>1. IsFiniteSet(Printed(x, "error")) /\ Len(x.lines) + 1 \notin Printed(x, "error")
      BY <1>0, PrintedFinite
    <3>2. Cardinality(Printed(x, "error") \cup {Len(x.lines) + 1}) =
            Cardinality(Printed(x, "error")) + 1
      BY <3>1, FS_AddElement
    <3> QED BY <2>4, <3>2
  <2>8. Cardinality(Printed(x, "error")) = x.count /\ Printed(x, "cutoff") = {}
    BY <1>0, <1>1, <2>2 DEF Honest
  <2>9. \A i \in Printed(y, "note") : i > 1 /\ y.lines[i - 1] = ErrorLine(y.lines[i].for)
    <3>1. SUFFICES ASSUME NEW i \in Printed(x, "note")
                   PROVE  i > 1 /\ y.lines[i - 1] = ErrorLine(y.lines[i].for)
      BY <2>4
    <3>2. i \in 1 .. Len(x.lines) /\ i > 1 /\ x.lines[i - 1] = ErrorLine(x.lines[i].for)
      BY <1>0, <1>1 DEF Honest, Printed
    <3>3. i - 1 \in 1 .. Len(x.lines)
      BY <1>1, <3>2
    <3> QED BY <1>1, <2>4, <3>2, <3>3
  <2>10. Honest(y)
    BY <1>0, <1>1, <2>2, <2>4, <2>7, <2>8, <2>9 DEF Honest
  <2>11. DiagInv(y)
    BY <2>5, <2>6, <2>10 DEF DiagInv
  <2>12. /\ Len(y.lines) > 0 /\ y.lines[Len(y.lines)] = ErrorLine(at)
         /\ y.count <= MaxReported
    BY <1>0, <1>1, <2>2, <2>4
  <2> QED BY <1>y, <2>11, <2>12
<1>5. CASE x.reported = MaxReported
  <2>1. y = [count |-> Counted(x.count), reported |-> x.reported + 1, last_printed |-> FALSE,
             lines |-> Append(x.lines, CutOffLine(at))]
    <3>1. (x.reported < MaxReported) = FALSE /\ (x.reported = MaxReported) = TRUE
      BY <1>0, <1>5
    <3> QED BY <1>y, <3>1, Zenon DEF diag_error
  <2>2. x.count = MaxReported /\ y.count = MaxReported + 1
    BY <1>0, <1>1, <1>2, <1>5, <2>1 DEF Limited
  <2>3. y.lines = Append(x.lines, CutOffLine(at))
    BY <2>1
  <2>4. /\ Len(y.lines) = Len(x.lines) + 1 /\ IsSeq(y.lines)
        /\ \A i \in DOMAIN x.lines : y.lines[i] = x.lines[i]
        /\ Printed(y, "error") = Printed(x, "error")
        /\ Printed(y, "note") = Printed(x, "note")
        /\ Printed(y, "cutoff") = Printed(x, "cutoff") \cup {Len(x.lines) + 1}
    <3>1. ASSUME NEW w
          PROVE  Printed(y, w) = IF "cutoff" = w
                                 THEN Printed(x, w) \cup {Len(x.lines) + 1} ELSE Printed(x, w)
      BY <1>0, <1>3, <2>3, OnePrinted
    <3>2. /\ Len(y.lines) = Len(x.lines) + 1 /\ IsSeq(y.lines)
          /\ \A i \in DOMAIN x.lines : y.lines[i] = x.lines[i]
      <4>0. IsDiag(x)
        BY <1>0
      <4>1. IsSeq(y.lines)
        BY <4>0, <2>3, StaysASeq
      <4>2. Len(y.lines) = Len(x.lines) + 1
        BY <4>0, <2>3, OneLine
      <4>3. \A i \in DOMAIN x.lines : y.lines[i] = x.lines[i]
        BY <4>0, <2>3, OneLine
      <4> QED BY <4>1, <4>2, <4>3
    <3> QED BY <3>1, <3>2
  <2>5. IsDiag(y)
    <3>1. y.count \in Nat /\ y.reported \in Nat
      BY <1>1, <1>2, <2>1
    <3> QED BY <2>1, <2>4, <3>1 DEF IsDiag
  <2>6. Limited(y)
    BY <1>0, <1>1, <1>5, <2>1, <2>2 DEF Limited
  <2>7. Cardinality(Printed(x, "error")) = MaxReported /\ Printed(x, "cutoff") = {}
    BY <1>0, <1>1, <2>2 DEF Honest
  <2>8. \A i \in Printed(y, "note") : i > 1 /\ y.lines[i - 1] = ErrorLine(y.lines[i].for)
    <3>1. SUFFICES ASSUME NEW i \in Printed(x, "note")
                   PROVE  i > 1 /\ y.lines[i - 1] = ErrorLine(y.lines[i].for)
      BY <2>4
    <3>2. i \in 1 .. Len(x.lines) /\ i > 1 /\ x.lines[i - 1] = ErrorLine(x.lines[i].for)
      BY <1>0, <1>1 DEF Honest, Printed
    <3>3. i - 1 \in 1 .. Len(x.lines)
      BY <1>1, <3>2
    <3> QED BY <1>1, <2>4, <3>2, <3>3
  <2>9. Honest(y)
    BY <1>0, <2>2, <2>4, <2>7, <2>8 DEF Honest
  <2>10. DiagInv(y) /\ ~y.last_printed
    BY <2>1, <2>5, <2>6, <2>9 DEF DiagInv
  <2> QED BY <1>y, <2>10
<1>6. CASE x.reported > MaxReported
  <2>1. y = [count |-> Counted(x.count), reported |-> x.reported, last_printed |-> FALSE,
             lines |-> x.lines]
    <3>1. (x.reported < MaxReported) = FALSE /\ (x.reported = MaxReported) = FALSE
      BY <1>0, <1>1, <1>6
    <3> QED BY <1>y, <3>1, Zenon DEF diag_error
  <2>2. x.count > MaxReported /\ y.count > MaxReported /\ y.count \in Nat
        /\ x.reported = MaxReported + 1
    BY <1>0, <1>1, <1>2, <1>6, <2>1 DEF Limited
  <2>3. IsDiag(y)
    <3>1. y.count \in Nat /\ y.reported \in Nat /\ IsSeq(y.lines)
      BY <1>0, <1>1, <1>2, <2>1 DEF IsDiag
    <3> QED BY <2>1, <3>1 DEF IsDiag
  <2>4. Limited(y)
    BY <1>0, <2>1, <2>2 DEF Limited
  <2>5. y.lines = x.lines /\ \A w : Printed(y, w) = Printed(x, w)
    BY <2>1 DEF Printed
  <2>6. Honest(y)
    BY <1>0, <1>1, <2>2, <2>5 DEF Honest
  <2>7. DiagInv(y) /\ ~y.last_printed
    BY <2>1, <2>3, <2>4, <2>6 DEF DiagInv
  <2> QED BY <1>y, <2>7
<1> QED BY <1>0, <1>1, <1>4, <1>5, <1>6

LEMMA NoteKeeps ==
  ASSUME NEW x, DiagInv(x), NEW at, NEW first,
         x.last_printed => /\ Len(x.lines) > 0 /\ x.lines[Len(x.lines)] = ErrorLine(at)
                           /\ x.count <= MaxReported
  PROVE  DiagInv(diag_note(x, first, at))
<1>y. PICK y : y = [x EXCEPT !.lines = Append(@, NoteLine(first, at))]
  OBVIOUS
<1>1. CASE ~x.last_printed
  BY <1>1 DEF diag_note
<1>2. CASE x.last_printed
  <2>1. diag_note(x, first, at) = y
    BY <1>y, <1>2 DEF diag_note
  <2>2. /\ IsDiag(x) /\ Limited(x) /\ Honest(x) /\ MaxReported \in Nat
        /\ x.count \in Nat /\ x.reported \in Nat /\ Len(x.lines) \in Nat
        /\ DOMAIN x.lines = 1 .. Len(x.lines)
    <3>1. IsDiag(x) /\ Limited(x) /\ Honest(x) /\ MaxReported \in Nat
      BY DiagAssumption DEF DiagInv
    <3> QED BY <3>1, LinesAre DEF IsDiag
  <2>3. NoteLine(first, at).what = "note" /\ NoteLine(first, at).for = at
    BY DEF NoteLine, Line
  <2>4. y = [count |-> x.count, reported |-> x.reported, last_printed |-> x.last_printed,
             lines |-> Append(x.lines, NoteLine(first, at))]
    <3>1. x = [count |-> x.count, reported |-> x.reported, last_printed |-> x.last_printed,
               lines |-> x.lines]
      BY <2>2 DEF IsDiag
    <3> QED BY <1>y, <3>1
  <2>10. y.lines = Append(x.lines, NoteLine(first, at))
    BY <2>4
  <2>5. IsDiag(y)
    <3>1. y.count \in Nat /\ y.reported \in Nat
      BY <2>2, <2>4
    <3>2. IsSeq(y.lines)
      BY <2>2, <2>10, StaysASeq
    <3> QED BY <2>4, <3>1, <3>2 DEF IsDiag
  <2>6. /\ Len(y.lines) = Len(x.lines) + 1
        /\ y.lines[Len(x.lines) + 1] = NoteLine(first, at)
        /\ \A i \in DOMAIN x.lines : y.lines[i] = x.lines[i]
        /\ Printed(y, "error") = Printed(x, "error")
        /\ Printed(y, "note") = Printed(x, "note") \cup {Len(x.lines) + 1}
        /\ Printed(y, "cutoff") = Printed(x, "cutoff")
    <3>1. ASSUME NEW w
          PROVE  Printed(y, w) = IF "note" = w THEN Printed(x, w) \cup {Len(x.lines) + 1}
                                 ELSE Printed(x, w)
      BY <2>2, <2>3, <2>10, OnePrinted
    <3>2. /\ Len(y.lines) = Len(x.lines) + 1
          /\ y.lines[Len(x.lines) + 1] = NoteLine(first, at)
          /\ \A i \in DOMAIN x.lines : y.lines[i] = x.lines[i]
      BY <2>2, <2>10, OneLine
    <3> QED BY <3>1, <3>2
  <2>7. ASSUME NEW i \in Printed(y, "note")
        PROVE  i > 1 /\ y.lines[i - 1] = ErrorLine(y.lines[i].for)
    <3>1. CASE i = Len(x.lines) + 1
      <4>1. i > 1 /\ i - 1 = Len(x.lines) /\ Len(x.lines) \in DOMAIN x.lines
        BY <1>2, <2>2, <3>1
      <4> QED BY <1>2, <2>3, <2>6, <3>1, <4>1
    <3>2. CASE i \in Printed(x, "note")
      <4>1. i \in 1 .. Len(x.lines) /\ i > 1 /\ x.lines[i - 1] = ErrorLine(x.lines[i].for)
        BY <2>2, <3>2 DEF Honest, Printed
      <4>2. i - 1 \in 1 .. Len(x.lines)
        BY <2>2, <4>1
      <4> QED BY <2>2, <2>6, <4>1, <4>2
    <3> QED BY <2>6, <3>1, <3>2
  <2>8. Honest(y)
    <3>1. /\ Cardinality(Printed(x, "error")) =
               IF x.count < MaxReported THEN x.count ELSE MaxReported
          /\ Printed(x, "cutoff") = {} /\ ~(y.count > MaxReported)
      BY <1>2, <2>2, <2>4 DEF Honest
    <3>2. Cardinality(Printed(y, "error")) =
            IF y.count < MaxReported THEN y.count ELSE MaxReported
      BY <2>4, <2>6, <3>1
    <3>3. Printed(y, "cutoff") = IF y.count > MaxReported THEN {Len(y.lines)} ELSE {}
      BY <2>6, <3>1
    <3> QED BY <2>7, <3>2, <3>3 DEF Honest
  <2>9. Limited(y)
    BY <2>2, <2>4 DEF Limited
  <2> QED BY <2>1, <2>5, <2>8, <2>9 DEF DiagInv
<1> QED BY <1>1, <1>2

-----------------------------------------------------------------------------
(* What sema holds *)

IsSema(s) == s = [types |-> s.types, values |-> s.values, next |-> s.next, diag |-> s.diag]

SemaOK(s) == IsSema(s) /\ DiagInv(s.diag)

LEMMA ErrorOK ==
  ASSUME NEW s, SemaOK(s), NEW pos
  PROVE  SemaOK(Error(s, pos))
<1>1. PICK d : d = diag_error(s.diag, pos)
  OBVIOUS
<1>2. DiagInv(d)
  BY <1>1, ErrorKeeps DEF SemaOK
<1>3. Error(s, pos) = [types |-> s.types, values |-> s.values, next |-> s.next, diag |-> d]
  BY <1>1 DEF SemaOK, IsSema, Error
<1> QED BY <1>2, <1>3 DEF SemaOK, IsSema

LEMMA DuplicateOK ==
  ASSUME NEW s, SemaOK(s), NEW pos, NEW first
  PROVE  SemaOK(Duplicate(s, pos, first))
<1>1. PICK d : d = diag_error(s.diag, pos)
  OBVIOUS
<1>2. /\ DiagInv(d)
      /\ d.last_printed => /\ Len(d.lines) > 0 /\ d.lines[Len(d.lines)] = ErrorLine(pos)
                           /\ d.count <= MaxReported
  BY <1>1, ErrorKeeps DEF SemaOK
<1>3. PICK e : e = diag_note(d, first, pos)
  OBVIOUS
<1>4. DiagInv(e)
  BY <1>2, <1>3, NoteKeeps
<1>5. Duplicate(s, pos, first) =
        [types |-> s.types, values |-> s.values, next |-> s.next, diag |-> e]
  BY <1>1, <1>3 DEF SemaOK, IsSema, Duplicate
<1> QED BY <1>4, <1>5 DEF SemaOK, IsSema

\* The tables and next are no part of the Diag.
LEMMA TypesOK ==
  ASSUME NEW s, SemaOK(s), NEW t
  PROVE  SemaOK([s EXCEPT !.types = t])
<1>1. [s EXCEPT !.types = t] =
        [types |-> t, values |-> s.values, next |-> s.next, diag |-> s.diag]
  BY DEF SemaOK, IsSema
<1> QED BY <1>1 DEF SemaOK, IsSema

LEMMA ValuesOK ==
  ASSUME NEW s, SemaOK(s), NEW t
  PROVE  SemaOK([s EXCEPT !.values = t])
<1>1. [s EXCEPT !.values = t] =
        [types |-> s.types, values |-> t, next |-> s.next, diag |-> s.diag]
  BY DEF SemaOK, IsSema
<1> QED BY <1>1 DEF SemaOK, IsSema

LEMMA NextOK ==
  ASSUME NEW s, SemaOK(s), NEW t
  PROVE  SemaOK([s EXCEPT !.next = t])
<1>1. [s EXCEPT !.next = t] =
        [types |-> s.types, values |-> s.values, next |-> t, diag |-> s.diag]
  BY DEF SemaOK, IsSema
<1> QED BY <1>1 DEF SemaOK, IsSema

LEMMA AddTypeOK ==
  ASSUME NEW s, SemaOK(s), NEW name, NEW ty
  PROVE  SemaOK(AddType(s, name, ty))
<1>1. PICK t : t = Declare(s.types, name, ty)
  OBVIOUS
<1>2. AddType(s, name, ty) = [s EXCEPT !.types = t]
  BY <1>1 DEF AddType
<1> QED BY <1>2, TypesOK

LEMMA AddValueOK ==
  ASSUME NEW s, SemaOK(s), NEW name, NEW sym
  PROVE  SemaOK(AddValue(s, name, sym))
<1>1. CASE name \in DOMAIN s.values
  <2>1. PICK pos, first : pos = sym.pos /\ first = s.values[name].pos
    OBVIOUS
  <2>2. AddValue(s, name, sym) = Duplicate(s, pos, first)
    BY <1>1, <2>1 DEF AddValue
  <2> QED BY <2>2, DuplicateOK
<1>2. CASE name \notin DOMAIN s.values
  <2>1. PICK t : t = Declare(s.values, name, sym)
    OBVIOUS
  <2>2. AddValue(s, name, sym) = [s EXCEPT !.values = t]
    BY <1>2, <2>1 DEF AddValue
  <2> QED BY <2>2, ValuesOK
<1> QED BY <1>1, <1>2

LEMMA FnOK ==
  ASSUME NEW s, SemaOK(s), NEW sig, NEW pos
  PROVE  SemaOK(collect_fn(s, sig, pos))
<1>1. PICK name, sym : name = sig[2][1] /\ sym = [kind |-> "fn", pos |-> pos, value |-> 0]
  OBVIOUS
<1>2. collect_fn(s, sig, pos) = AddValue(s, name, sym)
  BY <1>1 DEF collect_fn
<1> QED BY <1>2, AddValueOK

LEMMA GlobalOK ==
  ASSUME NEW s, SemaOK(s), NEW it, NEW pos
  PROVE  SemaOK(collect_global(s, it, pos))
<1>1. PICK name, sym : /\ name = (IF it[2] = <<"mut">> THEN it[4] ELSE it[3])[1]
                       /\ sym = [kind |-> "global", pos |-> pos, value |-> 0]
  OBVIOUS
<1>2. collect_global(s, it, pos) = AddValue(s, name, sym)
  BY <1>1 DEF collect_global
<1> QED BY <1>2, AddValueOK

LEMMA StructOK ==
  ASSUME NEW s, SemaOK(s), NEW it, NEW pos
  PROVE  SemaOK(collect_struct(s, it, pos))
<1>1. PICK name, ty, first : /\ name = it[2][1] /\ ty = [kind |-> "struct", pos |-> pos]
                             /\ first = s.types[name].pos
  OBVIOUS
<1>2. collect_struct(s, it, pos) = IF name \in DOMAIN s.types THEN Duplicate(s, pos, first)
                                   ELSE AddType(s, name, ty)
  BY <1>1 DEF collect_struct
<1> QED BY <1>2, DuplicateOK, AddTypeOK

LEMMA EnumOK ==
  ASSUME NEW s, SemaOK(s), NEW it, NEW pos
  PROVE  SemaOK(collect_enum(s, it, pos))
<1>1. PICK s1 : s1 = IF Integer(it) THEN s ELSE Error(s, pos)
  OBVIOUS
<1>2. SemaOK(s1)
  BY <1>1, ErrorOK
<1>3. PICK name, ty, first : /\ name = it[2][1] /\ ty = [kind |-> "enum", pos |-> pos]
                             /\ first = s.types[name].pos
  OBVIOUS
<1>4. PICK s2 : s2 = AddType(s1, name, ty)
  OBVIOUS
<1>5. SemaOK(s2)
  BY <1>2, <1>4, AddTypeOK
<1>6. collect_enum(s, it, pos) = IF name \in DOMAIN s.types THEN Duplicate(s1, pos, first)
                                 ELSE [s2 EXCEPT !.next = 0]
  BY <1>1, <1>3, <1>4 DEF collect_enum
<1> QED BY <1>2, <1>5, <1>6, DuplicateOK, NextOK

LEMMA MemberOK ==
  ASSUME NEW s, SemaOK(s), NEW it, NEW pos
  PROVE  SemaOK(collect_member(s, it, pos))
<1>1. PICK m, base : /\ m = Members(it)[pos[3]]
                     /\ base = IF Integer(it) THEN BaseOf(it) ELSE "i32"
  OBVIOUS
<1>2. PICK value : value = IF Len(m) = 3 THEN IntOf[m[3][1]] ELSE s.next
  OBVIOUS
<1>3. PICK fits : fits = IF value > MaxOf[base] THEN Error(s, pos) ELSE s
  OBVIOUS
<1>4. SemaOK(fits)
  BY <1>3, ErrorOK
<1>5. PICK name, sym, n :
             /\ name = m[2][1] /\ sym = [kind |-> "member", pos |-> pos, value |-> value]
                          /\ n = (value + 1) % (MaxU64 + 1)
  OBVIOUS
<1>6. PICK s2 : s2 = AddValue(fits, name, sym)
  OBVIOUS
<1>7. SemaOK(s2)
  BY <1>4, <1>6, AddValueOK
<1>8. collect_member(s, it, pos) = [s2 EXCEPT !.next = n]
  BY <1>1, <1>2, <1>3, <1>5, <1>6, Zenon DEF collect_member
<1> QED BY <1>7, <1>8, NextOK

LEMMA ExternOK ==
  ASSUME NEW s, SemaOK(s), NEW it, NEW pos
  PROVE  SemaOK(collect_extern(s, it, pos))
BY ErrorOK DEF collect_extern

\* Whatever a declaration is, nothing but Error and Duplicate touches the Diag.
LEMMA DeclarationOK ==
  ASSUME NEW s, SemaOK(s), NEW it, NEW pos
  PROVE  SemaOK(collect_item(s, it, pos)) /\ SemaOK(collect_part(s, it, pos))
<1>1. SemaOK(collect_item(s, it, pos))
  <2>1. PICK sig : sig = it[2]
    OBVIOUS
  <2>2. SemaOK(collect_fn(s, sig, pos))
    BY FnOK
  <2>3. SemaOK(collect_fn(s, it[2], pos))
    BY <2>1, <2>2
  <2>4. collect_item(s, it, pos) \in
          {collect_struct(s, it, pos), collect_enum(s, it, pos), collect_fn(s, it[2], pos),
           collect_global(s, it, pos), collect_extern(s, it, pos), s}
    BY DEF collect_item
  <2> QED BY <2>3, <2>4, StructOK, EnumOK, GlobalOK, ExternOK
<1>2. SemaOK(collect_part(s, it, pos))
  <2>1. PICK sig : sig = it[pos[3] + 2]
    OBVIOUS
  <2>2. SemaOK(collect_fn(s, sig, pos))
    BY FnOK
  <2> QED BY <2>1, <2>2, MemberOK DEF collect_part
<1> QED BY <1>1, <1>2

-----------------------------------------------------------------------------
(* The parser *)

\* Whatever the parser does, it reports one error or none.
LEMMA StepReports ==
  ASSUME ParserStep
  PROVE  diag' = diag \/ \E at : diag' = diag_error(diag, at)
BY DEF ParserStep, SkipError, Shift, Report, Refuse, Decide, Reduce, Remember,
       MakeProgress, Call, CallTooDeep, Return, Resync

-----------------------------------------------------------------------------
(* The exit status *)

\* Until an error has been counted, there is a tree for every file so far.
TreesSoFar ==
  /\ unit \in 1 .. Len(paths) + 1
  /\ IsSeq(progs)
  /\ errors = 0 => Len(progs) = unit - 1

\* What is known in each phase; lex_file's loop has nothing to add.
PhaseInv ==
  /\ phase \in {"main", "lex", "open", "parse", "collect", "lower", "exit"}
  /\ phase = "main" => unit = 1 /\ progs = <<>> /\ errors = 0
  /\ phase = "lex" => dump_tokens
  /\ phase \in {"open", "parse"} => TreesSoFar
  /\ phase = "parse" => unit <= Len(paths)
  /\ phase \in {"collect", "lower"} => Len(progs) = Len(paths) /\ ~parse_only
  /\ phase = "lower" => backend
  /\ phase \in {"main", "open", "parse", "collect", "lower"} => stdout = Nothing

StatusInv ==
  /\ command \in Commands
  /\ diag.count \in Nat
  /\ phase # "exit" => errors \in Nat
  /\ PhaseInv
  /\ StatusTellsTheOutput

-----------------------------------------------------------------------------

LEMMA CountIsNat ==
  ASSUME NEW d, d.count \in Nat, NEW at
  PROVE  diag_error(d, at).count \in Nat
BY DiagAssumption DEF diag_error, Counted

LEMMA StepCounts ==
  ASSUME diag.count \in Nat, ParserStep
  PROVE  diag'.count \in Nat
BY StepReports, CountIsNat

LEMMA PathsCounted ==
  ASSUME command \in Commands
  PROVE  Len(paths) \in Nat
BY CommandAssumption DEF paths

-----------------------------------------------------------------------------

\* No step touches the command line.
LEMMA SameCommand ==
  ASSUME command' = command
  PROVE  /\ Stops' = Stops /\ files' = files /\ dump_tokens' = dump_tokens /\ paths' = paths
         /\ parse_only' = parse_only /\ backend' = backend /\ backend_c' = backend_c
BY DEF Stops, files, dump_tokens, paths, parse_only, backend, backend_c, Given, Args

LEMMA StatusStarts == Init => StatusInv
<1> SUFFICES ASSUME Init PROVE StatusInv
  OBVIOUS
<1>1. command \in Commands /\ phase = "main" /\ unit = 1 /\ progs = <<>> /\ errors = 0
      /\ stdout = Nothing
  BY DEF Init
<1>2. diag.count = 0
  BY DEF Init, Idle, diag_init
<1> QED BY <1>1, <1>2 DEF StatusInv, PhaseInv, StatusTellsTheOutput

LEMMA MainKeeps == StatusInv /\ main => StatusInv'
<1> SUFFICES ASSUME StatusInv, main PROVE StatusInv'
  OBVIOUS
<1>1. /\ phase = "main" /\ unit = 1 /\ progs = <<>> /\ errors = 0 /\ stdout = Nothing
      /\ command \in Commands /\ diag.count \in Nat
  BY DEF StatusInv, PhaseInv, main
<1>2. /\ command' = command /\ diag' = diag /\ unit' = unit /\ progs' = progs
      /\ errors' = errors /\ stdout' = stdout
  BY DEF main, parserVars
<1>3. /\ Stops' = Stops /\ files' = files /\ dump_tokens' = dump_tokens /\ paths' = paths
      /\ parse_only' = parse_only /\ backend' = backend
  BY <1>2, SameCommand
<1>4. Len(paths) \in Nat
  BY <1>1, PathsCounted
<1>5. CASE phase' = "exit" /\ ~(Stops = {} /\ files # 0)
  BY <1>1, <1>2, <1>3, <1>5 DEF StatusInv, PhaseInv, StatusTellsTheOutput
<1>6. CASE phase' = (IF dump_tokens THEN "lex" ELSE "open")
  <2>1. IsSeq(progs')
    <3>1. <<>> \in Seq({})
      OBVIOUS
    <3> QED BY <1>1, <1>2, <3>1 DEF IsSeq
  <2>2. TreesSoFar'
    BY <1>1, <1>2, <1>3, <1>4, <2>1 DEF TreesSoFar
  <2> QED BY <1>1, <1>2, <1>3, <1>6, <2>2 DEF StatusInv, PhaseInv, StatusTellsTheOutput
<1> QED BY <1>5, <1>6 DEF main, Exit

\* A file that cannot be read is an error, so nothing is owed for it.
LEMMA CannotReadKeeps == StatusInv /\ CannotRead => StatusInv'
<1> SUFFICES ASSUME StatusInv, CannotRead PROVE StatusInv'
  OBVIOUS
<1>1. /\ phase \in {"lex", "open"} /\ unit <= Len(paths)
      /\ errors' = errors + 1 /\ unit' = unit + 1
  BY DEF CannotRead, AtFile
<1>2. /\ command' = command /\ diag' = diag /\ phase' = phase /\ progs' = progs
      /\ stdout' = stdout
  BY DEF CannotRead, parserVars
<1>3. /\ paths' = paths /\ dump_tokens' = dump_tokens
  BY <1>2, SameCommand
<1>4. errors' \in Nat /\ errors' # 0 /\ Len(paths) \in Nat
  BY <1>1, PathsCounted DEF StatusInv
<1>5. phase = "open" => TreesSoFar'
  BY <1>1, <1>2, <1>3, <1>4 DEF StatusInv, PhaseInv, TreesSoFar
<1> QED BY <1>1, <1>2, <1>3, <1>4, <1>5 DEF StatusInv, PhaseInv, StatusTellsTheOutput

LEMMA ReadFileKeeps == StatusInv /\ ReadFile => StatusInv'
<1> SUFFICES ASSUME StatusInv, ReadFile PROVE StatusInv'
  OBVIOUS
<1>1. /\ phase = "open" /\ phase' = "parse" /\ unit <= Len(paths)
  BY DEF ReadFile, AtFile
<1>2. /\ command' = command /\ unit' = unit /\ progs' = progs /\ errors' = errors
      /\ stdout' = stdout
  BY DEF ReadFile
<1>3. diag'.count = 0
  BY DEF ReadFile, Start, diag_init
<1>4. paths' = paths
  BY <1>2, SameCommand
<1>5. TreesSoFar'
  BY <1>1, <1>2, <1>4 DEF StatusInv, PhaseInv, TreesSoFar
<1> QED BY <1>1, <1>2, <1>3, <1>4, <1>5 DEF StatusInv, PhaseInv, StatusTellsTheOutput

LEMMA ParseKeeps == StatusInv /\ Parse_program => StatusInv'
<1> SUFFICES ASSUME StatusInv, Parse_program PROVE StatusInv'
  OBVIOUS
<1>1. phase = "parse" /\ UNCHANGED driverVars
  BY DEF Parse_program
<1>2. diag'.count \in Nat
  BY StepCounts DEF StatusInv, Parse_program
<1>3. /\ command' = command /\ phase' = phase /\ unit' = unit /\ progs' = progs
      /\ errors' = errors /\ stdout' = stdout
  BY <1>1 DEF driverVars
<1>4. paths' = paths
  BY <1>3, SameCommand
<1>5. TreesSoFar'
  BY <1>1, <1>3, <1>4 DEF StatusInv, PhaseInv, TreesSoFar
<1> QED BY <1>1, <1>2, <1>3, <1>4, <1>5 DEF StatusInv, PhaseInv, StatusTellsTheOutput

\* One more tree and one more path; the file's errors are counted with the rest.
LEMMA FileParsedKeeps == StatusInv /\ FileParsed => StatusInv'
<1> SUFFICES ASSUME StatusInv, FileParsed PROVE StatusInv'
  OBVIOUS
<1>1. /\ phase = "parse" /\ phase' = "open" /\ unit' = unit + 1
      /\ errors' = errors + diag.count /\ progs' = Append(progs, Top.kids[1])
      /\ diag' = diag_init /\ stdout' = stdout /\ command' = command
  BY DEF FileParsed
<1>2. /\ unit \in 1 .. Len(paths) + 1 /\ unit <= Len(paths) /\ errors \in Nat
      /\ diag.count \in Nat /\ Len(paths) \in Nat /\ stdout = Nothing
      /\ errors = 0 => Len(progs) = unit - 1
  BY <1>1, PathsCounted DEF StatusInv, PhaseInv, TreesSoFar
<1>3. paths' = paths
  BY <1>1, SameCommand
<1>4. PICK S : progs \in Seq(S)
  BY <1>1 DEF StatusInv, PhaseInv, TreesSoFar, IsSeq
<1>5. /\ Append(progs, Top.kids[1]) \in Seq(S \cup {Top.kids[1]})
      /\ Len(Append(progs, Top.kids[1])) = Len(progs) + 1
  <2> HIDE DEF Top
  <2>1. ASSUME NEW t PROVE Append(progs, t) \in Seq(S \cup {t})
                         /\ Len(Append(progs, t)) = Len(progs) + 1
    <3>1. progs \in Seq(S \cup {t})
      BY <1>4
    <3> QED BY <3>1
  <2> QED BY <2>1
<1>6. IsSeq(progs')
  BY <1>1, <1>5 DEF IsSeq
<1>7. errors' = 0 => Len(progs') = unit' - 1
  BY <1>1, <1>2, <1>5
<1>8. TreesSoFar'
  BY <1>1, <1>2, <1>3, <1>6, <1>7 DEF TreesSoFar
<1>9. errors' \in Nat /\ diag'.count \in Nat
  BY <1>1, <1>2 DEF diag_init
<1> QED BY <1>1, <1>2, <1>3, <1>8, <1>9 DEF StatusInv, PhaseInv, StatusTellsTheOutput

LEMMA LexKeeps == StatusInv /\ (LexFile \/ LexDone) => StatusInv'
<1> SUFFICES ASSUME StatusInv, LexFile \/ LexDone PROVE StatusInv'
  OBVIOUS
<1>1. /\ phase = "lex" /\ phase' \in {"lex", "exit"}
      /\ command' = command /\ diag' = diag /\ errors' \in {errors, errors + 1}
  BY DEF LexFile, LexDone, Exit, parserVars
<1>2. dump_tokens' = dump_tokens
  BY <1>1, SameCommand
<1> QED BY <1>1, <1>2 DEF StatusInv, PhaseInv, StatusTellsTheOutput

LEMMA GateKeeps == StatusInv /\ AllParsed => StatusInv'
<1> SUFFICES ASSUME StatusInv, AllParsed PROVE StatusInv'
  OBVIOUS
<1>1. /\ phase = "open" /\ unit > Len(paths)
      /\ command' = command /\ diag' = diag /\ progs' = progs /\ errors' = errors
  BY DEF AllParsed, parserVars
<1>2. /\ unit \in 1 .. Len(paths) + 1 /\ errors \in Nat /\ Len(paths) \in Nat
      /\ stdout = Nothing /\ (errors = 0 => Len(progs) = unit - 1)
  BY <1>1, PathsCounted DEF StatusInv, PhaseInv, TreesSoFar
<1>3. errors = 0 => Len(progs) = Len(paths)
  BY <1>1, <1>2
<1>4. /\ paths' = paths /\ parse_only' = parse_only /\ backend' = backend
      /\ dump_tokens' = dump_tokens
  BY <1>1, SameCommand
<1>5. CASE errors # 0 /\ Exit(1) /\ UNCHANGED stdout
  BY <1>1, <1>2, <1>4, <1>5 DEF Exit, StatusInv, PhaseInv, StatusTellsTheOutput
<1>6. CASE errors = 0 /\ parse_only /\ Dump("ast") /\ Exit(0)
  BY <1>1, <1>2, <1>3, <1>4, <1>6 DEF Exit, Dump, StatusInv, PhaseInv, StatusTellsTheOutput
<1>7. CASE errors = 0 /\ ~parse_only /\ phase' = "collect" /\ UNCHANGED <<stdout, status>>
  BY <1>1, <1>2, <1>3, <1>4, <1>7 DEF StatusInv, PhaseInv, StatusTellsTheOutput
<1> QED BY <1>5, <1>6, <1>7 DEF AllParsed

LEMMA CollectKeeps == StatusInv /\ collect_program => StatusInv'
<1> SUFFICES ASSUME StatusInv, collect_program PROVE StatusInv'
  OBVIOUS
<1>1. /\ phase = "collect" /\ phase' = phase /\ command' = command /\ diag' = diag
      /\ progs' = progs /\ errors' = errors /\ stdout' = stdout
  BY DEF collect_program, parserVars
<1>2. /\ paths' = paths /\ parse_only' = parse_only
  BY <1>1, SameCommand
<1> QED BY <1>1, <1>2 DEF StatusInv, PhaseInv, StatusTellsTheOutput

\* The second gate.  Past it no error has been counted at all.
LEMMA CheckKeeps == StatusInv /\ sema_check => StatusInv'
<1> SUFFICES ASSUME StatusInv, sema_check PROVE StatusInv'
  OBVIOUS
<1>1. /\ phase = "collect" /\ command' = command /\ diag' = diag /\ progs' = progs
      /\ stdout = Nothing /\ Len(progs) = Len(paths) /\ ~parse_only
  BY DEF sema_check, parserVars, StatusInv, PhaseInv
<1>2. /\ paths' = paths /\ parse_only' = parse_only /\ backend' = backend
  BY <1>1, SameCommand
<1>3. CASE errors' # 0 /\ Exit(1) /\ UNCHANGED stdout
  BY <1>1, <1>2, <1>3 DEF Exit, StatusInv, PhaseInv, StatusTellsTheOutput
<1>4. CASE errors' = 0 /\ ~backend /\ Dump("typed ast") /\ Exit(0)
  BY <1>1, <1>2, <1>4 DEF Exit, Dump, StatusInv, PhaseInv, StatusTellsTheOutput
<1>5. CASE errors' = 0 /\ backend /\ phase' = "lower" /\ UNCHANGED <<stdout, status>>
  BY <1>1, <1>2, <1>5 DEF StatusInv, PhaseInv, StatusTellsTheOutput
<1> QED BY <1>3, <1>4, <1>5 DEF sema_check

LEMMA BackHalfKeeps == StatusInv /\ BackHalf => StatusInv'
<1> SUFFICES ASSUME StatusInv, BackHalf PROVE StatusInv'
  OBVIOUS
<1>1. /\ phase = "lower" /\ command' = command /\ diag' = diag /\ progs' = progs
      /\ stdout = Nothing /\ Len(progs) = Len(paths) /\ ~parse_only /\ backend
  BY DEF BackHalf, parserVars, StatusInv, PhaseInv
<1>2. /\ paths' = paths /\ parse_only' = parse_only /\ backend' = backend
  BY <1>1, SameCommand
<1>3. CASE Exit(1) /\ UNCHANGED stdout
  BY <1>1, <1>2, <1>3 DEF Exit, StatusInv, PhaseInv, StatusTellsTheOutput
<1>4. CASE Dump("module") /\ Exit(0)
  BY <1>1, <1>2, <1>4 DEF Exit, Dump, StatusInv, PhaseInv, StatusTellsTheOutput
<1>5. CASE backend_c /\ Dump("faulty module") /\ Exit(1)
  <2>1. backend_c' /\ ~parse_only'
    <3>1. backend_c /\ ~parse_only /\ command' = command
      BY <1>1, <1>5
    <3> QED BY <3>1 DEF backend_c, parse_only, Given, Args
  <2>2. /\ phase' = "exit" /\ status' = 1 /\ status' # 0
        /\ stdout' = [what |-> "faulty module", files |-> Len(paths')]
    <3>1. Len(progs) = Len(paths) /\ paths' = paths
      BY <1>1, <1>2, Zenon
    <3>2. phase' = "exit" /\ status' = 1
      BY <1>5, Zenon DEF Exit
    <3>3. stdout' = [what |-> "faulty module", files |-> Len(progs)]
      BY <1>5, Zenon DEF Dump
    <3>4. status' # 0
      BY <3>2
    <3>5. stdout' = [what |-> "faulty module", files |-> Len(paths')]
      BY <3>1, <3>3, Zenon
    <3> QED BY <3>2, <3>4, <3>5, Zenon
  <2>3. StatusTellsTheOutput'
    BY <2>1, <2>2, Zenon DEF StatusTellsTheOutput
  <2>4. PhaseInv'
    BY <2>2 DEF PhaseInv
  <2> QED BY <1>1, <2>2, <2>3, <2>4 DEF StatusInv
<1> QED BY <1>3, <1>4, <1>5 DEF BackHalf

LEMMA StutterKeeps == StatusInv /\ UNCHANGED vars => StatusInv'
<1> SUFFICES ASSUME StatusInv, UNCHANGED vars PROVE StatusInv'
  OBVIOUS
<1>1. /\ command' = command /\ diag' = diag /\ progs' = progs /\ stdout' = stdout
      /\ phase' = phase /\ unit' = unit /\ errors' = errors /\ status' = status
  BY DEF vars, parserVars, driverVars
<1>2. /\ Stops' = Stops /\ files' = files /\ dump_tokens' = dump_tokens /\ paths' = paths
      /\ parse_only' = parse_only /\ backend' = backend /\ backend_c' = backend_c
  BY <1>1, SameCommand
<1>3. TreesSoFar => TreesSoFar'
  BY <1>1, <1>2 DEF TreesSoFar
<1> QED BY <1>1, <1>2, <1>3 DEF StatusInv, PhaseInv, StatusTellsTheOutput

LEMMA StatusKeeps == StatusInv /\ [Next]_vars => StatusInv'
<1> SUFFICES ASSUME StatusInv, [Next]_vars PROVE StatusInv'
  OBVIOUS
<1>1. CASE main
  BY <1>1, MainKeeps
<1>2. CASE CannotRead
  BY <1>2, CannotReadKeeps
<1>3. CASE ReadFile
  BY <1>3, ReadFileKeeps
<1>4. CASE Parse_program
  BY <1>4, ParseKeeps
<1>5. CASE FileParsed
  BY <1>5, FileParsedKeeps
<1>6. CASE LexFile \/ LexDone
  BY <1>6, LexKeeps
<1>7. CASE AllParsed
  BY <1>7, GateKeeps
<1>8. CASE collect_program
  BY <1>8, CollectKeeps
<1>9. CASE sema_check
  BY <1>9, CheckKeeps
<1>10. CASE BackHalf
  BY <1>10, BackHalfKeeps
<1>11. CASE UNCHANGED vars
  BY <1>11, StutterKeeps
<1> QED BY <1>1, <1>2, <1>3, <1>4, <1>5, <1>6, <1>7, <1>8, <1>9, <1>10, <1>11 DEF Next

\* Whatever slop is run with and whatever the files hold, exit status 0 means
\* that what was asked for came out, of every file; with any other nothing did,
\* unless the C backend printed the module and then failed (main.c:93-139).
THEOREM StatusIsTruthful == Spec => []StatusTellsTheOutput
<1>1. StatusInv => StatusTellsTheOutput
  BY DEF StatusInv
<1> QED BY <1>1, StatusStarts, StatusKeeps, PTL DEF Spec

-----------------------------------------------------------------------------
(* The diagnostics *)

HonestInv == DiagInv(diag) /\ SemaOK(sema)

LEMMA HonestStarts == Init => HonestInv
<1> SUFFICES ASSUME Init PROVE HonestInv
  OBVIOUS
<1>1. diag = diag_init /\ sema = sema_init
  BY DEF Init, Idle
<1>2. SemaOK(sema_init)
  BY DiagStarts DEF sema_init, SemaOK, IsSema
<1> QED BY <1>1, <1>2, DiagStarts DEF HonestInv

LEMMA CollectHonest == HonestInv /\ collect_program => HonestInv'
<1> SUFFICES ASSUME HonestInv, collect_program PROVE HonestInv'
  OBVIOUS
<1>1. diag' = diag
  BY DEF collect_program, parserVars
<1>2. \/ sema' = sema
      \/ \E it : sema' \in {collect_item(sema, it, cursor), collect_part(sema, it, cursor)}
  BY DEF collect_program
<1>3. SemaOK(sema')
  BY <1>2, DeclarationOK DEF HonestInv
<1> QED BY <1>1, <1>3 DEF HonestInv

\* A file's parser starts with a Diag of its own, reports through it and gives
\* it up; sema reports through its own and nothing else does.
LEMMA HonestKeeps == HonestInv /\ [Next]_vars => HonestInv'
<1> SUFFICES ASSUME HonestInv, [Next]_vars PROVE HonestInv'
  OBVIOUS
<1>1. CASE main \/ CannotRead \/ LexFile \/ LexDone \/ AllParsed \/ BackHalf \/ UNCHANGED vars
  <2>1. diag' = diag /\ sema' = sema
    BY <1>1 DEF main, CannotRead, LexFile, LexDone, AllParsed, BackHalf, vars, parserVars,
                driverVars
  <2> QED BY <2>1 DEF HonestInv
<1>2. CASE ReadFile \/ FileParsed
  <2>1. diag' = diag_init /\ sema' = sema
    BY <1>2 DEF ReadFile, FileParsed, Start
  <2> QED BY <2>1, DiagStarts DEF HonestInv
<1>3. CASE Parse_program
  <2>1. sema' = sema
    BY <1>3 DEF Parse_program, driverVars
  <2>2. diag' = diag \/ \E at : diag' = diag_error(diag, at)
    BY <1>3, StepReports DEF Parse_program
  <2>3. DiagInv(diag')
    BY <2>2, ErrorKeeps DEF HonestInv
  <2> QED BY <2>1, <2>3 DEF HonestInv
<1>4. CASE collect_program
  BY <1>4, CollectHonest
<1>5. CASE sema_check
  <2>1. diag' = diag /\ sema' \in {sema, Error(sema, <<0, 0, 0>>)}
    BY <1>5 DEF sema_check, parserVars
  <2>2. SemaOK(sema')
    BY <2>1, ErrorOK DEF HonestInv
  <2> QED BY <2>1, <2>2 DEF HonestInv
<1> QED BY <1>1, <1>2, <1>3, <1>4, <1>5 DEF Next

\* Whatever the files hold, and whatever the limit, the parser and sema print
\* the errors they counted, as many as are allowed and then the notice that
\* there are more, and no note but under its own error (diag.c:35-67).
THEOREM DiagsAreHonest == Spec => []DiagsHonest
<1>1. HonestInv => DiagsHonest
  BY DEF HonestInv, DiagsHonest, DiagInv, SemaOK
<1> QED BY <1>1, HonestStarts, HonestKeeps, PTL DEF Spec

-----------------------------------------------------------------------------
(* The tables of the parser are closed: whatever a row calls is a function *)
(* and wherever it goes on is one of its points, every point has a row for *)
(* each token, one row alone blames a token it has passed, and only the    *)
(* ladder folds.                                                           *)

Functions == DOMAIN Code
CallWords == {"parse", "need tree", "element"}

\* A task of a function whose points are P.
TaskOK(P, t) ==
  /\ t[1] # "blame"
  /\ t[1] = "then" => t[2] \in P
  /\ t[1] = "fold" => "operator" \in P
  /\ t[1] \in CallWords => t[2] \in Functions

TasksOK(P, q) == IsSeq(q) /\ \A i \in DOMAIN q : TaskOK(P, q[i])

\* The one row that blames a token it has passed.
BlameRow(P, row) ==
  /\ row.on = {"..."} /\ row.do = <<Mark, Take, Blame, Then("close")>>
  /\ TaskOK(P, Then("close"))

RowsOK(P, q) ==
  /\ IsSeq(q)
  /\ \A i \in DOMAIN q : TasksOK(P, q[i].do) \/ BlameRow(P, q[i])
  /\ \E i \in DOMAIN q : q[i].on = AnyTok

LEMMA Plain ==
  ASSUME NEW P
  PROVE /\ TaskOK(P, Take) /\ TaskOK(P, Keep) /\ TaskOK(P, Name) /\ TaskOK(P, NeedName)
        /\ TaskOK(P, Mark) /\ TaskOK(P, Progress) /\ TaskOK(P, Complain)
        /\ TaskOK(P, GiveUp)
        /\ \A k : TaskOK(P, Expect(k)) /\ TaskOK(P, Need(k)) /\ TaskOK(P, Sync(k))
                             /\ TaskOK(P, Node(k))
BY DEF Take, Keep, Name, NeedName, Mark, Progress, Complain, GiveUp, Expect, Need, Sync,
       Node, TaskOK, CallWords

LEMMA FoldOK ==
  ASSUME NEW P, "operator" \in P
  PROVE TaskOK(P, Fold)
BY DEF Fold, TaskOK, CallWords

LEMMA Goes ==
  ASSUME NEW P, NEW p \in P
  PROVE TaskOK(P, Then(p))
BY DEF Then, TaskOK, CallWords

LEMMA CallsOK ==
  ASSUME NEW P, NEW f \in Functions, NEW s
  PROVE TaskOK(P, Parse(f)) /\ TaskOK(P, NeedTree(f)) /\ TaskOK(P, Element(f, s))
BY DEF Parse, NeedTree, Element, TaskOK, CallWords

\* The tasks of a row, by their number.
LEMMA No == ASSUME NEW P PROVE TasksOK(P, <<>>)
<1>1. <<>> \in Seq({})
  OBVIOUS
<1> QED BY <1>1 DEF TasksOK, IsSeq

LEMMA One ==
  ASSUME NEW P, NEW a, TaskOK(P, a)
  PROVE  TasksOK(P, <<a>>)
<1>1. PICK q : q = <<a>>
  OBVIOUS
<1>2. q \in Seq({a}) /\ DOMAIN q = 1 .. 1 /\ q[1] = a
  BY <1>1
<1>3. \A i \in DOMAIN q : TaskOK(P, q[i])
  BY <1>2
<1> QED BY <1>1, <1>2, <1>3 DEF TasksOK, IsSeq

LEMMA Two ==
  ASSUME NEW P, NEW a, NEW b, TaskOK(P, a), TaskOK(P, b)
  PROVE  TasksOK(P, <<a, b>>)
<1>1. PICK q : q = <<a, b>>
  OBVIOUS
<1>2. q \in Seq({a, b}) /\ DOMAIN q = 1 .. 2 /\ q[1] = a /\ q[2] = b
  BY <1>1
<1>3. \A i \in DOMAIN q : TaskOK(P, q[i])
  BY <1>2
<1> QED BY <1>1, <1>2, <1>3 DEF TasksOK, IsSeq

LEMMA Three ==
  ASSUME NEW P, NEW a, NEW b, NEW c, TaskOK(P, a), TaskOK(P, b), TaskOK(P, c)
  PROVE  TasksOK(P, <<a, b, c>>)
<1>1. PICK q : q = <<a, b, c>>
  OBVIOUS
<1>2. q \in Seq({a, b, c}) /\ DOMAIN q = 1 .. 3 /\ q[1] = a /\ q[2] = b /\ q[3] = c
  BY <1>1
<1>3. \A i \in DOMAIN q : TaskOK(P, q[i])
  BY <1>2
<1> QED BY <1>1, <1>2, <1>3 DEF TasksOK, IsSeq

LEMMA Four ==
  ASSUME NEW P, NEW a, NEW b, NEW c, NEW d, TaskOK(P, a), TaskOK(P, b), TaskOK(P, c),
         TaskOK(P, d)
  PROVE  TasksOK(P, <<a, b, c, d>>)
<1>1. PICK q : q = <<a, b, c, d>>
  OBVIOUS
<1>2. q \in Seq({a, b, c, d}) /\ DOMAIN q = 1 .. 4 /\ q[1] = a /\ q[2] = b /\ q[3] = c /\ q[4] = d
  BY <1>1
<1>3. \A i \in DOMAIN q : TaskOK(P, q[i])
  BY <1>2
<1> QED BY <1>1, <1>2, <1>3 DEF TasksOK, IsSeq

LEMMA Five ==
  ASSUME NEW P, NEW a, NEW b, NEW c, NEW d, NEW e, TaskOK(P, a), TaskOK(P, b), TaskOK(P, c),
         TaskOK(P, d), TaskOK(P, e)
  PROVE  TasksOK(P, <<a, b, c, d, e>>)
<1>1. PICK q : q = <<a, b, c, d, e>>
  OBVIOUS
<1>2. q \in Seq({a, b, c, d, e}) /\ DOMAIN q = 1 .. 5
      /\ q[1] = a /\ q[2] = b /\ q[3] = c /\ q[4] = d /\ q[5] = e
  BY <1>1
<1>3. \A i \in DOMAIN q : TaskOK(P, q[i])
  BY <1>2
<1> QED BY <1>1, <1>2, <1>3 DEF TasksOK, IsSeq

\* The rows of a point.
LEMMA Rows1 ==
  ASSUME NEW P, NEW a1, TasksOK(P, a1)
  PROVE  RowsOK(P, <<Else(a1)>>)
<1>1. PICK q : q = <<Else(a1)>>
  OBVIOUS
<1>2. IsSeq(q)
  <2>1. ASSUME NEW b1
        PROVE  <<b1>> \in Seq({b1})
    OBVIOUS
  <2> QED BY <1>1, <2>1 DEF IsSeq
<1>3. DOMAIN q = 1 .. 1 /\ q[1].on = AnyTok
      /\ q[1].do = a1
  BY <1>1 DEF On, Else
<1>4. \A i \in DOMAIN q : TasksOK(P, q[i].do)
  BY <1>3
<1>5. 1 \in DOMAIN q
  BY <1>3
<1> QED BY <1>1, <1>2, <1>3, <1>4, <1>5 DEF RowsOK

LEMMA Rows2 ==
  ASSUME NEW P, NEW k1, NEW a1, NEW a2, TasksOK(P, a1), TasksOK(P, a2)
  PROVE  RowsOK(P, <<On(k1, a1), Else(a2)>>)
<1>1. PICK q : q = <<On(k1, a1), Else(a2)>>
  OBVIOUS
<1>2. IsSeq(q)
  <2>1. ASSUME NEW b1, NEW b2
        PROVE  <<b1, b2>> \in Seq({b1, b2})
    OBVIOUS
  <2> QED BY <1>1, <2>1 DEF IsSeq
<1>3. DOMAIN q = 1 .. 2 /\ q[2].on = AnyTok
      /\ q[1].do = a1 /\ q[2].do = a2
  BY <1>1 DEF On, Else
<1>4. \A i \in DOMAIN q : TasksOK(P, q[i].do)
  BY <1>3
<1>5. 2 \in DOMAIN q
  BY <1>3
<1> QED BY <1>1, <1>2, <1>3, <1>4, <1>5 DEF RowsOK

LEMMA Rows3 ==
  ASSUME NEW P, NEW k1, NEW k2, NEW a1, NEW a2, NEW a3, TasksOK(P, a1), TasksOK(P, a2),
         TasksOK(P, a3)
  PROVE  RowsOK(P, <<On(k1, a1), On(k2, a2), Else(a3)>>)
<1>1. PICK q : q = <<On(k1, a1), On(k2, a2), Else(a3)>>
  OBVIOUS
<1>2. IsSeq(q)
  <2>1. ASSUME NEW b1, NEW b2, NEW b3
        PROVE  <<b1, b2, b3>> \in Seq({b1, b2, b3})
    OBVIOUS
  <2> QED BY <1>1, <2>1 DEF IsSeq
<1>3. DOMAIN q = 1 .. 3 /\ q[3].on = AnyTok
      /\ q[1].do = a1 /\ q[2].do = a2 /\ q[3].do = a3
  BY <1>1 DEF On, Else
<1>4. \A i \in DOMAIN q : TasksOK(P, q[i].do)
  BY <1>3
<1>5. 3 \in DOMAIN q
  BY <1>3
<1> QED BY <1>1, <1>2, <1>3, <1>4, <1>5 DEF RowsOK

LEMMA Rows4 ==
  ASSUME NEW P, NEW k1, NEW k2, NEW k3, NEW a1, NEW a2, NEW a3, NEW a4, TasksOK(P, a1),
         TasksOK(P, a2), TasksOK(P, a3), TasksOK(P, a4)
  PROVE  RowsOK(P, <<On(k1, a1), On(k2, a2), On(k3, a3), Else(a4)>>)
<1>1. PICK q : q = <<On(k1, a1), On(k2, a2), On(k3, a3), Else(a4)>>
  OBVIOUS
<1>2. IsSeq(q)
  <2>1. ASSUME NEW b1, NEW b2, NEW b3, NEW b4
        PROVE  <<b1, b2, b3, b4>> \in Seq({b1, b2, b3, b4})
    OBVIOUS
  <2> QED BY <1>1, <2>1 DEF IsSeq
<1>3. DOMAIN q = 1 .. 4 /\ q[4].on = AnyTok
      /\ q[1].do = a1 /\ q[2].do = a2 /\ q[3].do = a3 /\ q[4].do = a4
  BY <1>1 DEF On, Else
<1>4. \A i \in DOMAIN q : TasksOK(P, q[i].do)
  BY <1>3
<1>5. 4 \in DOMAIN q
  BY <1>3
<1> QED BY <1>1, <1>2, <1>3, <1>4, <1>5 DEF RowsOK

LEMMA Rows6 ==
  ASSUME NEW P, NEW k1, NEW k2, NEW k3, NEW k4, NEW k5, NEW a1, NEW a2, NEW a3, NEW a4,
         NEW a5, NEW a6, TasksOK(P, a1), TasksOK(P, a2), TasksOK(P, a3), TasksOK(P, a4),
         TasksOK(P, a5), TasksOK(P, a6)
  PROVE  RowsOK(P, <<On(k1, a1), On(k2, a2), On(k3, a3), On(k4, a4), On(k5, a5), Else(a6)>>)
<1>1. PICK q : q = <<On(k1, a1), On(k2, a2), On(k3, a3), On(k4, a4), On(k5, a5), Else(a6)>>
  OBVIOUS
<1>2. IsSeq(q)
  <2>1. ASSUME NEW b1, NEW b2, NEW b3, NEW b4, NEW b5, NEW b6
        PROVE  <<b1, b2, b3, b4, b5, b6>> \in Seq({b1, b2, b3, b4, b5, b6})
    OBVIOUS
  <2> QED BY <1>1, <2>1 DEF IsSeq
<1>3. DOMAIN q = 1 .. 6 /\ q[6].on = AnyTok
      /\ q[1].do = a1 /\ q[2].do = a2 /\ q[3].do = a3
      /\ q[4].do = a4 /\ q[5].do = a5 /\ q[6].do = a6
  BY <1>1 DEF On, Else
<1>4. \A i \in DOMAIN q : TasksOK(P, q[i].do)
  BY <1>3
<1>5. 6 \in DOMAIN q
  BY <1>3
<1> QED BY <1>1, <1>2, <1>3, <1>4, <1>5 DEF RowsOK

LEMMA Rows9 ==
  ASSUME NEW P, NEW r1, NEW r2, NEW r3, NEW r4, NEW r5, NEW r6, NEW r7, NEW r8, NEW r9,
         TasksOK(P, r1.do), TasksOK(P, r2.do), TasksOK(P, r3.do), TasksOK(P, r4.do),
         TasksOK(P, r5.do), TasksOK(P, r6.do), TasksOK(P, r7.do), TasksOK(P, r8.do),
         TasksOK(P, r9.do), r9.on = AnyTok
  PROVE  RowsOK(P, <<r1, r2, r3, r4, r5, r6, r7, r8, r9>>)
<1>1. PICK q : q = <<r1, r2, r3, r4, r5, r6, r7, r8, r9>>
  OBVIOUS
<1>2. q \in Seq({r1, r2, r3, r4, r5, r6, r7, r8, r9})
  BY <1>1
<1>3. DOMAIN q = 1 .. 9 /\ q[1] = r1 /\ q[2] = r2 /\ q[3] = r3 /\ q[4] = r4 /\ q[5] = r5
      /\ q[6] = r6 /\ q[7] = r7 /\ q[8] = r8 /\ q[9] = r9
  BY <1>1
<1>4. \A i \in DOMAIN q : TasksOK(P, q[i].do)
  BY <1>3
<1>5. 9 \in DOMAIN q
  BY <1>3
<1> QED BY <1>1, <1>2, <1>3, <1>4, <1>5 DEF RowsOK, IsSeq

\* Every function has a point to start at.
TableOK(t) == "start" \in DOMAIN t /\ \A p \in DOMAIN t : RowsOK(DOMAIN t, t[p])

LEMMA FunctionsAre ==
  Functions = {"parse_type", "parse_primary", "parse_postfix", "parse_unary", "parse_ladder",
               "parse_expr", "parse_literal", "parse_block", "parse_var_decl", "parse_if",
               "parse_while", "parse_match_arm", "parse_match", "parse_return",
               "parse_expr_stmt", "parse_stmt", "fn", "extern_fn", "param", "field",
               "parse_struct", "member", "parse_enum", "parse_global", "parse_extern",
               "parse_item", "parse_program"}
BY DEF Functions, Code

\* One function after another, in the order of ParserCode.
LEMMA TypeTable == TableOK(parse_type)
<1>1. PICK P : P = DOMAIN parse_type
  OBVIOUS
<1>2. P = {"start", "suffix", "length"}
  BY <1>1 DEF parse_type
<1>3. TaskOK(P, Then("length")) /\ TaskOK(P, Then("suffix"))
  BY <1>2, Goes
<1>4. TasksOK(P, <<Keep, Then("suffix")>>) /\ TasksOK(P, <<GiveUp>>)
      /\ TasksOK(P, <<Take, Node("Pointer"), Then("suffix")>>)
      /\ TasksOK(P, <<Take, Then("length")>>) /\ TasksOK(P, <<>>)
      /\ TasksOK(P, <<Keep, Expect("]"), Node("Array"), Then("suffix")>>)
      /\ TasksOK(P, <<Complain, Expect("]"), Node("Array"), Then("suffix")>>)
  BY <1>3, Plain, No, One, Two, Three, Four
<1>5. RowsOK(P, parse_type.start) /\ RowsOK(P, parse_type.suffix) /\ RowsOK(P, parse_type.length)
  BY <1>4, Rows2, Rows3 DEF parse_type, Always
<1> QED BY <1>1, <1>2, <1>5 DEF TableOK, parse_type

LEMMA PrimaryTable == TableOK(parse_primary)
<1>1. PICK P : P = DOMAIN parse_primary
  OBVIOUS
<1>2. P = {"start"}
  BY <1>1 DEF parse_primary
<1>3. TaskOK(P, Parse("parse_expr"))
  BY FunctionsAre, CallsOK
<1>4. TasksOK(P, <<Keep>>) /\ TasksOK(P, <<Take, Parse("parse_expr"), Expect(")")>>)
      /\ TasksOK(P, <<GiveUp>>)
  BY <1>3, Plain, One, Three
<1>5. RowsOK(P, parse_primary.start)
  BY <1>4, Rows3 DEF parse_primary, Always
<1> QED BY <1>1, <1>2, <1>5 DEF TableOK, parse_primary

LEMMA PostfixTable == TableOK(parse_postfix)
<1>1. PICK P : P = DOMAIN parse_postfix
  OBVIOUS
<1>2. P = {"start", "suffix", "args", "more", "close", "member", "cast"}
  BY <1>1 DEF parse_postfix
<1>3. TaskOK(P, Then("args")) /\ TaskOK(P, Then("cast")) /\ TaskOK(P, Then("close"))
      /\ TaskOK(P, Then("member")) /\ TaskOK(P, Then("more")) /\ TaskOK(P, Then("suffix"))
  BY <1>2, Goes
<1>4. TaskOK(P, NeedTree("parse_primary")) /\ TaskOK(P, Parse("parse_expr"))
      /\ TaskOK(P, Parse("parse_type"))
  BY FunctionsAre, CallsOK
<1>5. TasksOK(P, <<NeedTree("parse_primary"), Then("suffix")>>)
      /\ TasksOK(P, <<Take, Then("args")>>)
      /\ TasksOK(P, <<Take, Parse("parse_expr"), Expect("]"), Node("Index"), Then("suffix")>>)
      /\ TasksOK(P, <<Take, Then("member")>>) /\ TasksOK(P, <<>>) /\ TasksOK(P, <<Then("close")>>)
      /\ TasksOK(P, <<Parse("parse_expr"), Then("more")>>)
      /\ TasksOK(P, <<Take, Parse("parse_expr"), Then("more")>>)
      /\ TasksOK(P, <<Expect(")"), Node("Call"), Then("suffix")>>)
      /\ TasksOK(P, <<Take, Then("cast")>>) /\ TasksOK(P, <<Name, Node("Field"), Then("suffix")>>)
      /\ TasksOK(P, <<Take, Parse("parse_type"), Expect(")"), Node("Cast"), Then("suffix")>>)
      /\ TasksOK(P, <<Complain, Node("Cast"), Then("suffix")>>)
  BY <1>3, <1>4, Plain, No, One, Two, Three, Five
<1>6. RowsOK(P, parse_postfix.start) /\ RowsOK(P, parse_postfix.suffix)
      /\ RowsOK(P, parse_postfix.args) /\ RowsOK(P, parse_postfix.more)
      /\ RowsOK(P, parse_postfix.close) /\ RowsOK(P, parse_postfix.member)
      /\ RowsOK(P, parse_postfix.cast)
  BY <1>5, Rows1, Rows2, Rows4 DEF parse_postfix, Always
<1> QED BY <1>1, <1>2, <1>6 DEF TableOK, parse_postfix

LEMMA UnaryTable == TableOK(parse_unary)
<1>1. PICK P : P = DOMAIN parse_unary
  OBVIOUS
<1>2. P = {"start", "size"}
  BY <1>1 DEF parse_unary
<1>3. TaskOK(P, Then("size"))
  BY <1>2, Goes
<1>4. TaskOK(P, Parse("parse_postfix")) /\ TaskOK(P, Parse("parse_type"))
      /\ TaskOK(P, Parse("parse_unary"))
  BY FunctionsAre, CallsOK
<1>5. TasksOK(P, <<Keep, Parse("parse_unary"), Node("Unary")>>)
      /\ TasksOK(P, <<Take, Then("size")>>) /\ TasksOK(P, <<Parse("parse_postfix")>>)
      /\ TasksOK(P, <<Take, Parse("parse_type"), Expect(")"), Node("Sizeof")>>)
      /\ TasksOK(P, <<Complain, Node("Sizeof")>>)
  BY <1>3, <1>4, Plain, One, Two, Three, Four
<1>6. RowsOK(P, parse_unary.start) /\ RowsOK(P, parse_unary.size)
  BY <1>5, Rows2, Rows3 DEF parse_unary, Always
<1> QED BY <1>1, <1>2, <1>6 DEF TableOK, parse_unary

LEMMA LadderTable == TableOK(parse_ladder)
<1>1. PICK P : P = DOMAIN parse_ladder
  OBVIOUS
<1>2. P = {"start", "operator"}
  BY <1>1 DEF parse_ladder
<1>3. TaskOK(P, Then("operator"))
  BY <1>2, Goes
<1>4. TaskOK(P, Parse("parse_unary"))
  BY FunctionsAre, CallsOK
<1>5. TasksOK(P, <<Parse("parse_unary"), Then("operator")>>)
      /\ TasksOK(P, <<Fold, Keep, Parse("parse_unary"), Then("operator")>>)
      /\ TasksOK(P, <<Fold>>)
  BY <1>2, <1>3, <1>4, Plain, FoldOK, One, Two, Four
<1>6. RowsOK(P, parse_ladder.start) /\ RowsOK(P, parse_ladder.operator)
  BY <1>5, Rows1, Rows2 DEF parse_ladder, Always
<1> QED BY <1>1, <1>2, <1>6 DEF TableOK, parse_ladder

LEMMA ExprTable == TableOK(parse_expr)
<1>1. PICK P : P = DOMAIN parse_expr
  OBVIOUS
<1>2. P = {"start"}
  BY <1>1 DEF parse_expr
<1>3. TaskOK(P, Parse("parse_ladder"))
  BY FunctionsAre, CallsOK
<1>4. TasksOK(P, <<Parse("parse_ladder")>>)
  BY <1>3, Plain, One
<1>5. RowsOK(P, parse_expr.start)
  BY <1>4, Rows1 DEF parse_expr, Always
<1> QED BY <1>1, <1>2, <1>5 DEF TableOK, parse_expr

LEMMA LiteralTable == TableOK(parse_literal)
<1>1. PICK P : P = DOMAIN parse_literal
  OBVIOUS
<1>2. P = {"start"}
  BY <1>1 DEF parse_literal
<1>3. TaskOK(P, Parse("parse_primary"))
  BY FunctionsAre, CallsOK
<1>4. TasksOK(P, <<Parse("parse_primary")>>) /\ TasksOK(P, <<GiveUp>>)
  BY <1>3, Plain, One
<1>5. RowsOK(P, parse_literal.start)
  BY <1>4, Rows2 DEF parse_literal, Always
<1> QED BY <1>1, <1>2, <1>5 DEF TableOK, parse_literal

LEMMA BlockTable == TableOK(parse_block)
<1>1. PICK P : P = DOMAIN parse_block
  OBVIOUS
<1>2. P = {"start", "stmts"}
  BY <1>1 DEF parse_block
<1>3. TaskOK(P, Then("stmts"))
  BY <1>2, Goes
<1>4. TaskOK(P, Element("parse_stmt", "sync_stmt"))
  BY FunctionsAre, CallsOK
<1>5. TasksOK(P, <<Take, Then("stmts")>>) /\ TasksOK(P, <<Complain, Node("Block")>>)
      /\ TasksOK(P, <<Expect("}"), Node("Block")>>)
      /\ TasksOK(P, <<Element("parse_stmt", "sync_stmt"), Progress, Then("stmts")>>)
  BY <1>3, <1>4, Plain, Two, Three
<1>6. RowsOK(P, parse_block.start) /\ RowsOK(P, parse_block.stmts)
  BY <1>5, Rows2 DEF parse_block, Always
<1> QED BY <1>1, <1>2, <1>6 DEF TableOK, parse_block

LEMMA VarDeclTable == TableOK(parse_var_decl)
<1>1. PICK P : P = DOMAIN parse_var_decl
  OBVIOUS
<1>2. P = {"start", "mut", "type", "init"}
  BY <1>1 DEF parse_var_decl
<1>3. TaskOK(P, Then("init")) /\ TaskOK(P, Then("mut")) /\ TaskOK(P, Then("type"))
  BY <1>2, Goes
<1>4. TaskOK(P, NeedTree("parse_type")) /\ TaskOK(P, Parse("parse_expr"))
  BY FunctionsAre, CallsOK
<1>5. TasksOK(P, <<Take, Then("mut")>>) /\ TasksOK(P, <<Keep, Then("type")>>)
      /\ TasksOK(P, <<Then("type")>>)
      /\ TasksOK(P, <<NeedTree("parse_type"), NeedName, Then("init")>>)
      /\ TasksOK(P, <<Take, Parse("parse_expr"), Expect(";"), Node("VarDecl")>>)
      /\ TasksOK(P, <<Expect(";"), Node("VarDecl")>>)
  BY <1>3, <1>4, Plain, One, Two, Three, Four
<1>6. RowsOK(P, parse_var_decl.start) /\ RowsOK(P, parse_var_decl.mut)
      /\ RowsOK(P, parse_var_decl.type) /\ RowsOK(P, parse_var_decl.init)
  BY <1>5, Rows1, Rows2 DEF parse_var_decl, Always
<1> QED BY <1>1, <1>2, <1>6 DEF TableOK, parse_var_decl

LEMMA IfTable == TableOK(parse_if)
<1>1. PICK P : P = DOMAIN parse_if
  OBVIOUS
<1>2. P = {"start", "else", "branch"}
  BY <1>1 DEF parse_if
<1>3. TaskOK(P, Then("branch")) /\ TaskOK(P, Then("else"))
  BY <1>2, Goes
<1>4. TaskOK(P, Parse("parse_block")) /\ TaskOK(P, Parse("parse_expr"))
      /\ TaskOK(P, Parse("parse_if"))
  BY FunctionsAre, CallsOK
<1>5. TasksOK(P, <<Take, Parse("parse_expr"), Parse("parse_block"), Then("else")>>)
      /\ TasksOK(P, <<Take, Then("branch"), Node("IfStmt")>>) /\ TasksOK(P, <<Node("IfStmt")>>)
      /\ TasksOK(P, <<Parse("parse_if")>>) /\ TasksOK(P, <<Parse("parse_block")>>)
      /\ TasksOK(P, <<Complain>>)
  BY <1>3, <1>4, Plain, One, Three, Four
<1>6. RowsOK(P, parse_if.start) /\ RowsOK(P, parse_if.else) /\ RowsOK(P, parse_if.branch)
  BY <1>5, Rows1, Rows2, Rows3 DEF parse_if, Always
<1> QED BY <1>1, <1>2, <1>6 DEF TableOK, parse_if

LEMMA WhileTable == TableOK(parse_while)
<1>1. PICK P : P = DOMAIN parse_while
  OBVIOUS
<1>2. P = {"start"}
  BY <1>1 DEF parse_while
<1>3. TaskOK(P, Parse("parse_block")) /\ TaskOK(P, Parse("parse_expr"))
  BY FunctionsAre, CallsOK
<1>4. TasksOK(P, <<Take, Parse("parse_expr"), Parse("parse_block"), Node("WhileStmt")>>)
  BY <1>3, Plain, Four
<1>5. RowsOK(P, parse_while.start)
  BY <1>4, Rows1 DEF parse_while, Always
<1> QED BY <1>1, <1>2, <1>5 DEF TableOK, parse_while

LEMMA MatchArmTable == TableOK(parse_match_arm)
<1>1. PICK P : P = DOMAIN parse_match_arm
  OBVIOUS
<1>2. P = {"start", "more"}
  BY <1>1 DEF parse_match_arm
<1>3. TaskOK(P, Then("more")) /\ TaskOK(P, Then("start"))
  BY <1>2, Goes
<1>4. TaskOK(P, NeedTree("parse_stmt"))
  BY FunctionsAre, CallsOK
<1>5. TasksOK(P, <<Keep, Then("more")>>) /\ TasksOK(P, <<GiveUp>>)
      /\ TasksOK(P, <<Take, Then("start")>>)
      /\ TasksOK(P, <<Need("=>"), NeedTree("parse_stmt"), Node("MatchArm")>>)
  BY <1>3, <1>4, Plain, One, Two, Three
<1>6. RowsOK(P, parse_match_arm.start) /\ RowsOK(P, parse_match_arm.more)
  BY <1>5, Rows2 DEF parse_match_arm, Always
<1> QED BY <1>1, <1>2, <1>6 DEF TableOK, parse_match_arm

LEMMA MatchTable == TableOK(parse_match)
<1>1. PICK P : P = DOMAIN parse_match
  OBVIOUS
<1>2. P = {"start", "open", "arms"}
  BY <1>1 DEF parse_match
<1>3. TaskOK(P, Then("arms")) /\ TaskOK(P, Then("open"))
  BY <1>2, Goes
<1>4. TaskOK(P, Element("parse_match_arm", "sync_stmt")) /\ TaskOK(P, Parse("parse_expr"))
  BY FunctionsAre, CallsOK
<1>5. TasksOK(P, <<Take, Parse("parse_expr"), Then("open")>>)
      /\ TasksOK(P, <<Take, Then("arms")>>) /\ TasksOK(P, <<Complain, Node("MatchStmt")>>)
      /\ TasksOK(P, <<Expect("}"), Node("MatchStmt")>>)
      /\ TasksOK(P, <<Element("parse_match_arm", "sync_stmt"), Progress, Then("arms")>>)
  BY <1>3, <1>4, Plain, Two, Three
<1>6. RowsOK(P, parse_match.start) /\ RowsOK(P, parse_match.open) /\ RowsOK(P, parse_match.arms)
  BY <1>5, Rows1, Rows2 DEF parse_match, Always
<1> QED BY <1>1, <1>2, <1>6 DEF TableOK, parse_match

LEMMA ReturnTable == TableOK(parse_return)
<1>1. PICK P : P = DOMAIN parse_return
  OBVIOUS
<1>2. P = {"start", "value"}
  BY <1>1 DEF parse_return
<1>3. TaskOK(P, Then("value"))
  BY <1>2, Goes
<1>4. TaskOK(P, Parse("parse_expr"))
  BY FunctionsAre, CallsOK
<1>5. TasksOK(P, <<Take, Then("value")>>) /\ TasksOK(P, <<Expect(";"), Node("ReturnStmt")>>)
      /\ TasksOK(P, <<Parse("parse_expr"), Expect(";"), Node("ReturnStmt")>>)
  BY <1>3, <1>4, Plain, Two, Three
<1>6. RowsOK(P, parse_return.start) /\ RowsOK(P, parse_return.value)
  BY <1>5, Rows1, Rows2 DEF parse_return, Always
<1> QED BY <1>1, <1>2, <1>6 DEF TableOK, parse_return

LEMMA ExprStmtTable == TableOK(parse_expr_stmt)
<1>1. PICK P : P = DOMAIN parse_expr_stmt
  OBVIOUS
<1>2. P = {"start", "assign"}
  BY <1>1 DEF parse_expr_stmt
<1>3. TaskOK(P, Then("assign"))
  BY <1>2, Goes
<1>4. TaskOK(P, NeedTree("parse_expr")) /\ TaskOK(P, Parse("parse_expr"))
  BY FunctionsAre, CallsOK
<1>5. TasksOK(P, <<NeedTree("parse_expr"), Then("assign")>>)
      /\ TasksOK(P, <<Keep, Parse("parse_expr"), Expect(";"), Node("ExprStmt")>>)
      /\ TasksOK(P, <<Expect(";"), Node("ExprStmt")>>)
  BY <1>3, <1>4, Plain, Two, Four
<1>6. RowsOK(P, parse_expr_stmt.start) /\ RowsOK(P, parse_expr_stmt.assign)
  BY <1>5, Rows1, Rows2 DEF parse_expr_stmt, Always
<1> QED BY <1>1, <1>2, <1>6 DEF TableOK, parse_expr_stmt

LEMMA StmtTable == TableOK(parse_stmt)
<1>1. PICK P : P = DOMAIN parse_stmt
  OBVIOUS
<1>2. P = {"start"}
  BY <1>1 DEF parse_stmt
<1>3. TaskOK(P, Parse("parse_block")) /\ TaskOK(P, Parse("parse_expr_stmt"))
      /\ TaskOK(P, Parse("parse_if")) /\ TaskOK(P, Parse("parse_match"))
      /\ TaskOK(P, Parse("parse_return")) /\ TaskOK(P, Parse("parse_var_decl"))
      /\ TaskOK(P, Parse("parse_while"))
  BY FunctionsAre, CallsOK
<1>4. TasksOK(P, <<Parse("parse_block")>>) /\ TasksOK(P, <<Parse("parse_var_decl")>>)
      /\ TasksOK(P, <<Parse("parse_if")>>) /\ TasksOK(P, <<Parse("parse_while")>>)
      /\ TasksOK(P, <<Parse("parse_match")>>) /\ TasksOK(P, <<Parse("parse_return")>>)
      /\ TasksOK(P, <<Keep, Expect(";")>>) /\ TasksOK(P, <<Keep>>)
      /\ TasksOK(P, <<Parse("parse_expr_stmt")>>)
  BY <1>3, Plain, One, Two
<1>5. RowsOK(P, parse_stmt.start)
  <2>1. PICK r1, r2, r3, r4, r5, r6, r7, r8, r9 :
          /\ r1 = On({"{"}, <<Parse("parse_block")>>)
          /\ r2 = On({"let"}, <<Parse("parse_var_decl")>>)
          /\ r3 = On({"if"}, <<Parse("parse_if")>>)
          /\ r4 = On({"while"}, <<Parse("parse_while")>>)
          /\ r5 = On({"match"}, <<Parse("parse_match")>>)
          /\ r6 = On({"return"}, <<Parse("parse_return")>>)
          /\ r7 = On({"break", "continue"}, <<Keep, Expect(";")>>)
          /\ r8 = On({";"}, <<Keep>>)
          /\ r9 = Else(<<Parse("parse_expr_stmt")>>)
    OBVIOUS
  <2>2. /\ TasksOK(P, r1.do) /\ TasksOK(P, r2.do) /\ TasksOK(P, r3.do) /\ TasksOK(P, r4.do)
        /\ TasksOK(P, r5.do) /\ TasksOK(P, r6.do) /\ TasksOK(P, r7.do) /\ TasksOK(P, r8.do)
        /\ TasksOK(P, r9.do) /\ r9.on = AnyTok
    BY <1>4, <2>1 DEF On, Else
  <2>3. parse_stmt.start = <<r1, r2, r3, r4, r5, r6, r7, r8, r9>>
    BY <2>1 DEF parse_stmt
  <2> QED BY <2>2, <2>3, Rows9
<1> QED BY <1>1, <1>2, <1>5 DEF TableOK, parse_stmt

LEMMA ParamTable == TableOK(param)
<1>1. PICK P : P = DOMAIN param
  OBVIOUS
<1>2. P = {"start", "type"}
  BY <1>1 DEF param
<1>3. TaskOK(P, Then("type"))
  BY <1>2, Goes
<1>4. TaskOK(P, NeedTree("parse_type"))
  BY FunctionsAre, CallsOK
<1>5. TasksOK(P, <<Keep, Then("type")>>) /\ TasksOK(P, <<Then("type")>>)
      /\ TasksOK(P, <<NeedTree("parse_type"), NeedName, Node("Param")>>)
  BY <1>3, <1>4, Plain, One, Two, Three
<1>6. RowsOK(P, param.start) /\ RowsOK(P, param.type)
  BY <1>5, Rows1, Rows2 DEF param, Always
<1> QED BY <1>1, <1>2, <1>6 DEF TableOK, param

LEMMA FieldTable == TableOK(field)
<1>1. PICK P : P = DOMAIN field
  OBVIOUS
<1>2. P = {"start"}
  BY <1>1 DEF field
<1>3. TaskOK(P, NeedTree("parse_type"))
  BY FunctionsAre, CallsOK
<1>4. TasksOK(P, <<NeedTree("parse_type"), NeedName, Need(";"), Node("StructField")>>)
  BY <1>3, Plain, Four
<1>5. RowsOK(P, field.start)
  BY <1>4, Rows1 DEF field, Always
<1> QED BY <1>1, <1>2, <1>5 DEF TableOK, field

LEMMA StructTable == TableOK(parse_struct)
<1>1. PICK P : P = DOMAIN parse_struct
  OBVIOUS
<1>2. P = {"start", "fields"}
  BY <1>1 DEF parse_struct
<1>3. TaskOK(P, Then("fields"))
  BY <1>2, Goes
<1>4. TaskOK(P, Element("field", "sync_member"))
  BY FunctionsAre, CallsOK
<1>5. TasksOK(P, <<Take, NeedName, Need("{"), Then("fields")>>)
      /\ TasksOK(P, <<Expect("}"), Node("StructDecl")>>)
      /\ TasksOK(P, <<Element("field", "sync_member"), Progress, Then("fields")>>)
  BY <1>3, <1>4, Plain, Two, Three, Four
<1>6. RowsOK(P, parse_struct.start) /\ RowsOK(P, parse_struct.fields)
  BY <1>5, Rows1, Rows2 DEF parse_struct, Always
<1> QED BY <1>1, <1>2, <1>6 DEF TableOK, parse_struct

LEMMA MemberTable == TableOK(member)
<1>1. PICK P : P = DOMAIN member
  OBVIOUS
<1>2. P = {"start", "value", "int"}
  BY <1>1 DEF member
<1>3. TaskOK(P, Then("int")) /\ TaskOK(P, Then("value"))
  BY <1>2, Goes
<1>4. TasksOK(P, <<Keep, Then("value")>>) /\ TasksOK(P, <<Take, Then("int"), Node("EnumItem")>>)
      /\ TasksOK(P, <<Node("EnumItem")>>) /\ TasksOK(P, <<Keep>>) /\ TasksOK(P, <<Complain>>)
  BY <1>3, Plain, One, Two, Three
<1>5. RowsOK(P, member.start) /\ RowsOK(P, member.value) /\ RowsOK(P, member.int)
  BY <1>4, Rows1, Rows2 DEF member, Always
<1> QED BY <1>1, <1>2, <1>5 DEF TableOK, member

LEMMA EnumTable == TableOK(parse_enum)
<1>1. PICK P : P = DOMAIN parse_enum
  OBVIOUS
<1>2. P = {"start", "colon", "base", "open", "members", "comma", "close"}
  BY <1>1 DEF parse_enum
<1>3. TaskOK(P, Then("base")) /\ TaskOK(P, Then("close")) /\ TaskOK(P, Then("colon"))
      /\ TaskOK(P, Then("comma")) /\ TaskOK(P, Then("members")) /\ TaskOK(P, Then("open"))
  BY <1>2, Goes
<1>4. TaskOK(P, Parse("member"))
  BY FunctionsAre, CallsOK
<1>5. TasksOK(P, <<Take, NeedName, Then("colon")>>) /\ TasksOK(P, <<Take, Then("base")>>)
      /\ TasksOK(P, <<Then("open")>>) /\ TasksOK(P, <<Keep, Then("open")>>)
      /\ TasksOK(P, <<Complain, Then("open")>>) /\ TasksOK(P, <<Need("{"), Then("members")>>)
      /\ TasksOK(P, <<Then("close")>>) /\ TasksOK(P, <<Mark, Parse("member"), Then("comma")>>)
      /\ TasksOK(P, <<Mark, Complain, Sync("sync_member"), Progress, Then("members")>>)
      /\ TasksOK(P, <<Take, Progress, Then("members")>>)
      /\ TasksOK(P, <<Expect("}"), Node("EnumDecl")>>)
  BY <1>3, <1>4, Plain, One, Two, Three, Five
<1>6. RowsOK(P, parse_enum.start) /\ RowsOK(P, parse_enum.colon) /\ RowsOK(P, parse_enum.base)
      /\ RowsOK(P, parse_enum.open) /\ RowsOK(P, parse_enum.members)
      /\ RowsOK(P, parse_enum.comma) /\ RowsOK(P, parse_enum.close)
  BY <1>5, Rows1, Rows2, Rows3 DEF parse_enum, Always
<1> QED BY <1>1, <1>2, <1>6 DEF TableOK, parse_enum

LEMMA GlobalTable == TableOK(parse_global)
<1>1. PICK P : P = DOMAIN parse_global
  OBVIOUS
<1>2. P = {"start", "mut", "type", "init"}
  BY <1>1 DEF parse_global
<1>3. TaskOK(P, Then("init")) /\ TaskOK(P, Then("mut")) /\ TaskOK(P, Then("type"))
  BY <1>2, Goes
<1>4. TaskOK(P, NeedTree("parse_literal")) /\ TaskOK(P, NeedTree("parse_type"))
  BY FunctionsAre, CallsOK
<1>5. TasksOK(P, <<Take, Then("mut")>>) /\ TasksOK(P, <<Keep, Then("type")>>)
      /\ TasksOK(P, <<Then("type")>>)
      /\ TasksOK(P, <<NeedTree("parse_type"), NeedName, Then("init")>>)
      /\ TasksOK(P, <<Take, NeedTree("parse_literal"), Expect(";"), Node("GlobalDecl")>>)
      /\ TasksOK(P, <<Expect(";"), Node("GlobalDecl")>>)
  BY <1>3, <1>4, Plain, One, Two, Three, Four
<1>6. RowsOK(P, parse_global.start) /\ RowsOK(P, parse_global.mut) /\ RowsOK(P, parse_global.type)
      /\ RowsOK(P, parse_global.init)
  BY <1>5, Rows1, Rows2 DEF parse_global, Always
<1> QED BY <1>1, <1>2, <1>6 DEF TableOK, parse_global

LEMMA ExternTable == TableOK(parse_extern)
<1>1. PICK P : P = DOMAIN parse_extern
  OBVIOUS
<1>2. P = {"start", "abi", "fns"}
  BY <1>1 DEF parse_extern
<1>3. TaskOK(P, Then("abi")) /\ TaskOK(P, Then("fns"))
  BY <1>2, Goes
<1>4. TaskOK(P, Element("extern_fn", "sync_member"))
  BY FunctionsAre, CallsOK
<1>5. TasksOK(P, <<Take, Then("abi")>>) /\ TasksOK(P, <<Keep, Need("{"), Then("fns")>>)
      /\ TasksOK(P, <<GiveUp>>) /\ TasksOK(P, <<Expect("}"), Node("ExternBlock")>>)
      /\ TasksOK(P, <<Element("extern_fn", "sync_member"), Progress, Then("fns")>>)
  BY <1>3, <1>4, Plain, One, Two, Three
<1>6. RowsOK(P, parse_extern.start) /\ RowsOK(P, parse_extern.abi) /\ RowsOK(P, parse_extern.fns)
  BY <1>5, Rows1, Rows2 DEF parse_extern, Always
<1> QED BY <1>1, <1>2, <1>6 DEF TableOK, parse_extern

LEMMA ItemTable == TableOK(parse_item)
<1>1. PICK P : P = DOMAIN parse_item
  OBVIOUS
<1>2. P = {"start"}
  BY <1>1 DEF parse_item
<1>3. TaskOK(P, NeedTree("fn")) /\ TaskOK(P, Parse("parse_enum"))
      /\ TaskOK(P, Parse("parse_extern")) /\ TaskOK(P, Parse("parse_global"))
      /\ TaskOK(P, Parse("parse_struct"))
  BY FunctionsAre, CallsOK
<1>4. TasksOK(P, <<NeedTree("fn")>>) /\ TasksOK(P, <<Parse("parse_struct")>>)
      /\ TasksOK(P, <<Parse("parse_enum")>>) /\ TasksOK(P, <<Parse("parse_global")>>)
      /\ TasksOK(P, <<Parse("parse_extern")>>) /\ TasksOK(P, <<GiveUp>>)
  BY <1>3, Plain, One
<1>5. RowsOK(P, parse_item.start)
  BY <1>4, Rows6 DEF parse_item, Always
<1> QED BY <1>1, <1>2, <1>5 DEF TableOK, parse_item

LEMMA ProgramTable == TableOK(parse_program)
<1>1. PICK P : P = DOMAIN parse_program
  OBVIOUS
<1>2. P = {"start"}
  BY <1>1 DEF parse_program
<1>3. TaskOK(P, Then("start"))
  BY <1>2, Goes
<1>4. TaskOK(P, Element("parse_item", "sync_item"))
  BY FunctionsAre, CallsOK
<1>5. TasksOK(P, <<Node("Program")>>)
      /\ TasksOK(P, <<Element("parse_item", "sync_item"), Progress, Then("start")>>)
  BY <1>3, <1>4, Plain, One, Three
<1>6. RowsOK(P, parse_program.start)
  BY <1>5, Rows2 DEF parse_program, Always
<1> QED BY <1>1, <1>2, <1>6 DEF TableOK, parse_program

LEMMA FnTable ==
  ASSUME NEW is_extern \in BOOLEAN
  PROVE  TableOK(FnDecl(is_extern))
<1>1. PICK t, P : t = FnDecl(is_extern) /\ P = DOMAIN t
  OBVIOUS
<1>2. P = {"start", "params", "param", "more", "close", "ret", "body"}
  BY <1>1 DEF FnDecl
<1>3. TaskOK(P, Then("params")) /\ TaskOK(P, Then("param")) /\ TaskOK(P, Then("more"))
      /\ TaskOK(P, Then("close")) /\ TaskOK(P, Then("ret")) /\ TaskOK(P, Then("body"))
  BY <1>2, Goes
<1>4. TaskOK(P, NeedTree("param")) /\ TaskOK(P, NeedTree("parse_type"))
      /\ TaskOK(P, Parse("parse_block"))
  BY FunctionsAre, CallsOK
<1>5. TasksOK(P, <<Need("fn"), NeedName, Need("("), Then("params")>>)
      /\ TasksOK(P, <<Then("close")>>) /\ TasksOK(P, <<Then("param")>>)
      /\ TasksOK(P, <<Keep, Then("close")>>) /\ TasksOK(P, <<NeedTree("param"), Then("more")>>)
      /\ TasksOK(P, <<Take, Then("param")>>) /\ TasksOK(P, <<Need(")"), Then("ret")>>)
      /\ TasksOK(P, <<Take, NeedTree("parse_type"), Node("Signature"), Then("body")>>)
      /\ TasksOK(P, <<Node("Signature"), Then("body")>>)
      /\ TasksOK(P, <<Need(";")>>) /\ TasksOK(P, <<Parse("parse_block"), Node("FnDecl")>>)
  BY <1>3, <1>4, Plain, One, Two, Four
<1>6. RowsOK(P, t.start) /\ RowsOK(P, t.params) /\ RowsOK(P, t.more) /\ RowsOK(P, t.close)
      /\ RowsOK(P, t.ret)
  BY <1>1, <1>5, Rows1, Rows2 DEF FnDecl, Always
<1>7. RowsOK(P, t.body)
  BY <1>1, <1>5, Rows1 DEF FnDecl, Always
<1>8. RowsOK(P, t.param)
  <2>1. CASE is_extern
    BY <1>1, <1>5, <2>1, Rows2 DEF FnDecl
  <2>2. CASE ~is_extern
    <3>1. t.param = <<On({"..."}, <<Mark, Take, Blame, Then("close")>>),
                      Else(<<NeedTree("param"), Then("more")>>)>>
      BY <1>1, <2>2 DEF FnDecl
    <3>2. PICK a, b : /\ a = On({"..."}, <<Mark, Take, Blame, Then("close")>>)
                      /\ b = Else(<<NeedTree("param"), Then("more")>>)
      OBVIOUS
    <3>3. BlameRow(P, a) /\ TasksOK(P, b.do) /\ b.on = AnyTok
      BY <1>3, <1>5, <3>2 DEF BlameRow, On, Else
    <3>4. t.param = <<a, b>>
      BY <3>1, <3>2
    <3>5. t.param \in Seq({a, b}) /\ DOMAIN t.param = 1 .. 2 /\ t.param[1] = a /\ t.param[2] = b
      BY <3>4
    <3> QED BY <3>3, <3>5 DEF RowsOK, IsSeq
  <2> QED BY <2>1, <2>2
<1> QED BY <1>1, <1>2, <1>6, <1>7, <1>8 DEF TableOK, FnDecl

\* So are they all.
LEMMA CodeOK == \A f \in Functions : TableOK(Code[f])
<1>1. TableOK(FnDecl(TRUE)) /\ TableOK(FnDecl(FALSE))
  BY FnTable
<1>2. Code.fn = FnDecl(FALSE) /\ Code.extern_fn = FnDecl(TRUE)
  BY DEF Code
<1>3. TableOK(Code.fn) /\ TableOK(Code.extern_fn)
  BY <1>1, <1>2
<1>4. Code.parse_type = parse_type /\ Code.parse_primary = parse_primary
      /\ Code.parse_postfix = parse_postfix /\ Code.parse_unary = parse_unary
      /\ Code.parse_ladder = parse_ladder /\ Code.parse_expr = parse_expr
      /\ Code.parse_literal = parse_literal /\ Code.parse_block = parse_block
      /\ Code.parse_var_decl = parse_var_decl /\ Code.parse_if = parse_if
      /\ Code.parse_while = parse_while /\ Code.parse_match_arm = parse_match_arm
      /\ Code.parse_match = parse_match /\ Code.parse_return = parse_return
      /\ Code.parse_expr_stmt = parse_expr_stmt /\ Code.parse_stmt = parse_stmt
      /\ Code.param = param /\ Code.field = field /\ Code.parse_struct = parse_struct
      /\ Code.member = member /\ Code.parse_enum = parse_enum /\ Code.parse_global = parse_global
      /\ Code.parse_extern = parse_extern /\ Code.parse_item = parse_item
      /\ Code.parse_program = parse_program
  BY DEF Code
<1>5. TableOK(Code.parse_type) /\ TableOK(Code.parse_primary) /\ TableOK(Code.parse_postfix)
      /\ TableOK(Code.parse_unary) /\ TableOK(Code.parse_ladder) /\ TableOK(Code.parse_expr)
      /\ TableOK(Code.parse_literal) /\ TableOK(Code.parse_block) /\ TableOK(Code.parse_var_decl)
      /\ TableOK(Code.parse_if) /\ TableOK(Code.parse_while) /\ TableOK(Code.parse_match_arm)
      /\ TableOK(Code.parse_match) /\ TableOK(Code.parse_return) /\ TableOK(Code.parse_expr_stmt)
      /\ TableOK(Code.parse_stmt) /\ TableOK(Code.param) /\ TableOK(Code.field)
      /\ TableOK(Code.parse_struct) /\ TableOK(Code.member) /\ TableOK(Code.parse_enum)
      /\ TableOK(Code.parse_global) /\ TableOK(Code.parse_extern) /\ TableOK(Code.parse_item)
      /\ TableOK(Code.parse_program)
  BY <1>4, TypeTable, PrimaryTable, PostfixTable, UnaryTable, LadderTable, ExprTable, LiteralTable,
     BlockTable, VarDeclTable, IfTable, WhileTable, MatchArmTable, MatchTable, ReturnTable,
     ExprStmtTable, StmtTable, ParamTable, FieldTable, StructTable, MemberTable, EnumTable,
     GlobalTable, ExternTable, ItemTable, ProgramTable
<1> QED BY <1>3, <1>5, FunctionsAre

\* The least of a set of numbers.
LEMMA LeastIs ==
  ASSUME NEW K, K \subseteq Nat, K # {}
  PROVE  \E k \in K : \A j \in K : k <= j
<1>1. \E k \in K : \A j \in K : ~(<<j, k>> \in OpToRel(<, Nat))
  BY NatLessThanWellFounded, WFMin, Zenon
<1>2. PICK k \in K : \A j \in K : ~(<<j, k>> \in OpToRel(<, Nat))
  BY <1>1
<1>3. ASSUME NEW j \in K, j < k
      PROVE  <<j, k>> \in OpToRel(<, Nat)
  BY <1>3 DEF OpToRel
<1>4. \A j \in K : ~(j < k)
  BY <1>2, <1>3
<1>5. \A j \in K : k <= j
  BY <1>4
<1> QED BY <1>5

\* What a function does at one of its points is a row of the point that is for
\* the kind of token.
LEMMA RowAmong ==
  ASSUME NEW f \in Functions, NEW pt \in DOMAIN Code[f], NEW kind
  PROVE  \E i \in DOMAIN Code[f][pt] :
           /\ Row(f, pt, kind) = Code[f][pt][i].do
           /\ Code[f][pt][i].on = AnyTok \/ kind \in Code[f][pt][i].on
<1>1. PICK P, rows : P = DOMAIN Code[f] /\ rows = Code[f][pt]
  OBVIOUS
<1>2. RowsOK(P, rows)
  BY <1>1, CodeOK DEF TableOK
<1>3. PICK Fits : Fits = {i \in DOMAIN rows : rows[i].on = AnyTok \/ kind \in rows[i].on}
  OBVIOUS
<1>4. PICK S : rows \in Seq(S)
  BY <1>2 DEF RowsOK, IsSeq
<1>5. DOMAIN rows = 1 .. Len(rows) /\ Len(rows) \in Nat
  BY <1>4
<1>6. Fits \subseteq Nat /\ Fits # {}
  BY <1>2, <1>3, <1>5 DEF RowsOK
<1>7. PICK k \in Fits : \A j \in Fits : k <= j
  BY <1>6, LeastIs
<1>8. PICK first : first = CHOOSE i \in DOMAIN rows :
                             /\ rows[i].on = AnyTok \/ kind \in rows[i].on
                             /\ \A j \in 1 .. i - 1 : kind \notin rows[j].on
  OBVIOUS
<1>9. \A j \in 1 .. k - 1 : kind \notin rows[j].on
  BY <1>3, <1>5, <1>7
<1>10. first \in DOMAIN rows /\ (rows[first].on = AnyTok \/ kind \in rows[first].on)
  BY <1>3, <1>7, <1>8, <1>9
<1>11. Row(f, pt, kind) = rows[first].do
  BY <1>1, <1>8 DEF Row
<1> QED BY <1>1, <1>10, <1>11

\* Tasks of its own, or the row that will blame the `...` in view.
LEMMA RowIs ==
  ASSUME NEW f \in Functions, NEW pt \in DOMAIN Code[f], NEW kind
  PROVE  \/ TasksOK(DOMAIN Code[f], Row(f, pt, kind))
         \/ /\ kind = "..." /\ Row(f, pt, kind) = <<Mark, Take, Blame, Then("close")>>
            /\ TaskOK(DOMAIN Code[f], Then("close"))
<1>1. PICK P, rows : P = DOMAIN Code[f] /\ rows = Code[f][pt]
  OBVIOUS
<1>2. RowsOK(P, rows)
  BY <1>1, CodeOK DEF TableOK
<1>3. PICK i \in DOMAIN rows :
        Row(f, pt, kind) = rows[i].do /\ (rows[i].on = AnyTok \/ kind \in rows[i].on)
  BY <1>1, RowAmong
<1>4. CASE TasksOK(P, rows[i].do)
  BY <1>1, <1>3, <1>4
<1>5. CASE BlameRow(P, rows[i])
  <2>1. rows[i].on = {"..."} /\ rows[i].do = <<Mark, Take, Blame, Then("close")>>
        /\ TaskOK(P, Then("close"))
    BY <1>5 DEF BlameRow
  <2>2. kind = "..."
    BY <1>3, <2>1 DEF AnyTok
  <2> QED BY <1>1, <1>3, <2>1, <2>2
<1> QED BY <1>2, <1>4, <1>5 DEF RowsOK

-----------------------------------------------------------------------------
(* Activations and the stack *)

Points(x) == DOMAIN Code[x.fn]

IsFrame(x) ==
  /\ x = [fn |-> x.fn, todo |-> x.todo, kids |-> x.kids, mark |-> x.mark]
  /\ x.fn \in Functions /\ IsSeq(x.todo)

Calm(x)  == TasksOK(Points(x), x.todo)
Waits(x) == Calm(x) /\ x.todo # <<>> /\ x.todo[1][1] \in CallWords

From(x, n) == \A i \in DOMAIN x.todo : i >= n => TaskOK(Points(x), x.todo[i])

\* The complaint about a `...` that is in view, or has been passed.
Marks(sn, x) ==
  /\ Kind(sn[Len(sn)]) = "..." /\ Len(x.todo) > 2
  /\ x.todo[1] = Mark /\ x.todo[2] = Take /\ x.todo[3] = Blame /\ From(x, 4)
Takes(sn, x) ==
  /\ Kind(sn[Len(sn)]) = "..." /\ x.mark = Len(sn) /\ Len(x.todo) > 1
  /\ x.todo[1] = Take /\ x.todo[2] = Blame /\ From(x, 3)
Blames(sn, x) ==
  /\ x.mark \in DOMAIN sn /\ sn[x.mark] = "..." /\ Len(x.todo) > 0
  /\ x.todo[1] = Blame /\ From(x, 2)

Runs(sn, x) == IsFrame(x) /\ (Calm(x) \/ Marks(sn, x) \/ Takes(sn, x) \/ Blames(sn, x))

\* Every caller waits for what it called.
Stacked(sn, s) ==
  /\ IsSeq(s) /\ Len(s) >= 1
  /\ \A d \in 1 .. Len(s) - 1 : IsFrame(s[d]) /\ Waits(s[d])
  /\ Runs(sn, s[Len(s)])

LEMMA TodoIs ==
  ASSUME NEW q, IsSeq(q)
  PROVE  Len(q) \in Nat /\ DOMAIN q = 1 .. Len(q)
BY DEF IsSeq

\* The tasks after the first, behind the tasks of a row.
LEMMA AfterTask ==
  ASSUME NEW P, NEW q, IsSeq(q), q # <<>>, NEW new, TasksOK(P, new),
         \A i \in DOMAIN q : i >= 2 => TaskOK(P, q[i])
  PROVE  TasksOK(P, new \o Tail(q))
<1>1. PICK S, R : q \in Seq(S) /\ new \in Seq(R)
  BY DEF IsSeq, TasksOK
<1>2. PICK U : U = S \cup R
  OBVIOUS
<1>3. q \in Seq(U) /\ new \in Seq(U)
  BY <1>1, <1>2
<1>4. PICK t, r : t = Tail(q) /\ r = new \o t
  OBVIOUS
<1>5. t \in Seq(U) /\ Len(t) = Len(q) - 1 /\ \A i \in 1 .. Len(t) : t[i] = q[i + 1]
  BY <1>3, <1>4
<1>6. r \in Seq(U) /\ Len(r) = Len(new) + Len(t)
      /\ \A i \in 1 .. Len(r) : r[i] = IF i <= Len(new) THEN new[i] ELSE t[i - Len(new)]
  BY <1>3, <1>4, <1>5
<1>7. \A i \in DOMAIN new : TaskOK(P, new[i])
  BY DEF TasksOK
<1>8. ASSUME NEW i \in 1 .. Len(t) PROVE TaskOK(P, t[i])
  <2>1. i + 1 \in DOMAIN q /\ i + 1 >= 2 /\ t[i] = q[i + 1]
    BY <1>3, <1>5
  <2> QED BY <2>1
<1>9. ASSUME NEW i \in DOMAIN r PROVE TaskOK(P, r[i])
  <2>1. i \in 1 .. Len(r) /\ Len(new) \in Nat /\ Len(t) \in Nat
    BY <1>3, <1>5, <1>6
  <2>2. CASE i <= Len(new)
    <3>1. i \in DOMAIN new /\ r[i] = new[i]
      BY <1>3, <1>6, <2>1, <2>2
    <3> QED BY <1>7, <3>1
  <2>3. CASE i > Len(new)
    <3>1. PICK j : j = i - Len(new)
      OBVIOUS
    <3>2. j \in 1 .. Len(t) /\ r[i] = t[j]
      BY <1>6, <2>1, <2>3, <3>1
    <3> QED BY <1>8, <3>2
  <2> QED BY <2>1, <2>2, <2>3
<1> QED BY <1>4, <1>6, <1>9 DEF TasksOK, IsSeq

LEMMA TailIs ==
  ASSUME NEW q, IsSeq(q), q # <<>>
  PROVE  /\ IsSeq(<<>> \o Tail(q)) /\ Len(<<>> \o Tail(q)) = Len(q) - 1
         /\ \A i \in 1 .. Len(q) - 1 : (<<>> \o Tail(q))[i] = q[i + 1]
<1>1. PICK S : q \in Seq(S)
  BY DEF IsSeq
<1>2. PICK t : t = Tail(q)
  OBVIOUS
<1>3. t \in Seq(S) /\ Len(t) = Len(q) - 1 /\ \A i \in 1 .. Len(q) - 1 : t[i] = q[i + 1]
  BY <1>1, <1>2
<1>4. <<>> \o t = t
  BY <1>3
<1> QED BY <1>2, <1>3, <1>4 DEF IsSeq

WithTop(s, x) == [s EXCEPT ![Len(s)] = x]

LEMMA SetTop ==
  ASSUME NEW s, IsSeq(s), Len(s) >= 1, NEW x, NEW r, r = WithTop(s, x)
  PROVE  /\ IsSeq(r) /\ Len(r) = Len(s) /\ r[Len(s)] = x
         /\ \A d \in 1 .. Len(s) - 1 : r[d] = s[d]
<1>1. PICK S : s \in Seq(S)
  BY DEF IsSeq
<1>2. PICK n, U : n = Len(s) /\ U = S \cup {x}
  OBVIOUS
<1>3. s \in Seq(U) /\ x \in U
  BY <1>1, <1>2
<1>4. n \in 1 .. Len(s) /\ DOMAIN s = 1 .. Len(s)
  BY <1>1, <1>2
<1>5. r \in Seq(U) /\ Len(r) = Len(s)
  BY <1>2, <1>3, <1>4 DEF WithTop
<1>6. r[n] = x /\ \A d \in 1 .. Len(s) - 1 : r[d] = s[d]
  BY <1>2, <1>3, <1>4 DEF WithTop
<1> QED BY <1>2, <1>5, <1>6 DEF IsSeq

LEMMA StaysStacked ==
  ASSUME NEW sn, NEW s, Stacked(sn, s), NEW sn2, NEW x, Runs(sn2, x)
  PROVE  Stacked(sn2, WithTop(s, x))
<1>1. PICK r : r = WithTop(s, x)
  OBVIOUS
<1>2. IsSeq(s) /\ Len(s) >= 1
  BY DEF Stacked
<1>3. IsSeq(r) /\ Len(r) = Len(s) /\ r[Len(s)] = x
  BY <1>1, <1>2, SetTop
<1>4. \A d \in 1 .. Len(s) - 1 : r[d] = s[d]
  BY <1>1, <1>2, SetTop
<1> QED BY <1>1, <1>3, <1>4 DEF Stacked

LEMMA Pushed ==
  ASSUME NEW sn, NEW s, Stacked(sn, s), Waits(s[Len(s)]), NEW x, Runs(sn, x)
  PROVE  Stacked(sn, Append(s, x))
<1>1. PICK S : s \in Seq(S)
  BY DEF Stacked, IsSeq
<1>2. PICK r, n : r = Append(s, x) /\ n = Len(s)
  OBVIOUS
<1>3. s \in Seq(S \cup {x})
  BY <1>1
<1>4. r \in Seq(S \cup {x}) /\ Len(r) = n + 1 /\ r[n + 1] = x /\ \A d \in 1 .. n : r[d] = s[d]
  BY <1>2, <1>3
<1>5. n \in Nat /\ n >= 1
  BY <1>1, <1>2 DEF Stacked
<1>6. \A d \in 1 .. n : IsFrame(s[d]) /\ Waits(s[d])
  BY <1>2, <1>5 DEF Stacked, Runs
<1>7. \A d \in 1 .. Len(r) - 1 : IsFrame(r[d]) /\ Waits(r[d])
  BY <1>4, <1>5, <1>6
<1>8. r[Len(r)] = x
  BY <1>4
<1> QED BY <1>2, <1>4, <1>5, <1>7, <1>8 DEF Stacked, IsSeq

LEMMA Popped ==
  ASSUME NEW sn, NEW s, Stacked(sn, s), Len(s) > 1, NEW p, p = SubSeq(s, 1, Len(s) - 1)
  PROVE  Stacked(sn, p) /\ Waits(p[Len(p)])
<1>1. PICK S, n : s \in Seq(S) /\ n = Len(s) - 1
  BY DEF Stacked, IsSeq
<1>2. n \in Nat /\ n >= 1 /\ n \in 1 .. n
  BY <1>1
<1>3. p \in Seq(S) /\ Len(p) = n /\ \A d \in 1 .. n : p[d] = s[d]
  BY <1>1, <1>2
<1>4. \A d \in 1 .. n : IsFrame(p[d]) /\ Waits(p[d])
  BY <1>1, <1>3 DEF Stacked
<1>5. IsFrame(p[n]) /\ Waits(p[n])
  BY <1>2, <1>4
<1>6. Runs(sn, p[n])
  BY <1>5 DEF Runs, Waits
<1>7. \A d \in 1 .. n - 1 : IsFrame(p[d]) /\ Waits(p[d])
  <2>1. \A d \in 1 .. n - 1 : d \in 1 .. n
    BY <1>2
  <2> QED BY <1>4, <2>1
<1>8. IsSeq(p) /\ Len(p) >= 1
  BY <1>2, <1>3 DEF IsSeq
<1> QED BY <1>3, <1>5, <1>6, <1>7, <1>8 DEF Stacked

\* What a function has done to its own activation.
After(f, new, kids, m) ==
  [fn |-> f.fn, todo |-> new \o Tail(f.todo), kids |-> kids, mark |-> m]

LEMMA CarryIs ==
  ASSUME NEW sn, NEW s, Stacked(sn, s), NEW new, NEW kids, NEW f, f = s[Len(s)],
         NEW x, x = After(f, new, kids, f.mark)
  PROVE  Carry(s, new, kids) = WithTop(s, x)
<1>1. PICK n : n = Len(s)
  OBVIOUS
<1>2. IsSeq(s) /\ n >= 1 /\ IsFrame(s[n])
  BY <1>1 DEF Stacked, Runs
<1>3. n \in DOMAIN s
  BY <1>1, <1>2, TodoIs
<1>4. f = [fn |-> f.fn, todo |-> f.todo, kids |-> f.kids, mark |-> f.mark]
  BY <1>1, <1>2 DEF IsFrame
<1>5. PICK t : t = new \o Tail(f.todo)
  OBVIOUS
<1>6. Carry(s, new, kids) = [s EXCEPT ![n].todo = new \o Tail(@), ![n].kids = kids]
  BY <1>1 DEF Carry
<1>7. PICK g : g = [f EXCEPT !.todo = t]
  OBVIOUS
<1>8. [s EXCEPT ![n].todo = new \o Tail(@), ![n].kids = kids]
      = [s EXCEPT ![n] = [g EXCEPT !.kids = kids]]
  BY <1>1, <1>3, <1>4, <1>5, <1>7
<1>9. g = [fn |-> f.fn, todo |-> t, kids |-> f.kids, mark |-> f.mark]
  BY <1>4, <1>7
<1>10. [g EXCEPT !.kids = kids] = [fn |-> f.fn, todo |-> t, kids |-> kids, mark |-> f.mark]
  BY <1>9
<1> QED BY <1>1, <1>5, <1>6, <1>8, <1>10 DEF WithTop, After

LEMMA QuitIs ==
  ASSUME NEW sn, NEW s, Stacked(sn, s), NEW f, f = s[Len(s)],
         NEW x, x = [fn |-> f.fn, todo |-> <<>>, kids |-> <<>>, mark |-> f.mark]
  PROVE  Quit(s) = WithTop(s, x)
<1>1. PICK n : n = Len(s)
  OBVIOUS
<1>2. IsSeq(s) /\ n >= 1 /\ IsFrame(s[n])
  BY <1>1 DEF Stacked, Runs
<1>3. n \in DOMAIN s
  BY <1>1, <1>2, TodoIs
<1>4. f = [fn |-> f.fn, todo |-> f.todo, kids |-> f.kids, mark |-> f.mark]
  BY <1>1, <1>2 DEF IsFrame
<1>5. Quit(s) = [s EXCEPT ![n].todo = <<>>, ![n].kids = <<>>]
  BY <1>1 DEF Quit
<1>6. PICK g : g = [f EXCEPT !.todo = <<>>]
  OBVIOUS
<1>7. [s EXCEPT ![n].todo = <<>>, ![n].kids = <<>>] = [s EXCEPT ![n] = [g EXCEPT !.kids = <<>>]]
  BY <1>1, <1>3, <1>4, <1>6
<1>8. g = [fn |-> f.fn, todo |-> <<>>, kids |-> f.kids, mark |-> f.mark]
  BY <1>4, <1>6
<1>9. [g EXCEPT !.kids = <<>>] = [fn |-> f.fn, todo |-> <<>>, kids |-> <<>>, mark |-> f.mark]
  BY <1>8
<1> QED BY <1>1, <1>5, <1>7, <1>9 DEF WithTop

WithMark(s, m) == [s EXCEPT ![Len(s)].mark = m]

LEMMA MarkIs ==
  ASSUME NEW s, IsSeq(s), Len(s) >= 1, NEW f, f = s[Len(s)], IsFrame(f), NEW m,
         NEW x, x = [fn |-> f.fn, todo |-> f.todo, kids |-> f.kids, mark |-> m]
  PROVE  WithMark(s, m) = WithTop(s, x)
<1>1. PICK n : n = Len(s)
  OBVIOUS
<1>2. n \in DOMAIN s
  BY <1>1, TodoIs
<1>3. f = [fn |-> f.fn, todo |-> f.todo, kids |-> f.kids, mark |-> f.mark]
  BY DEF IsFrame
<1>4. [s EXCEPT ![n].mark = m] = [s EXCEPT ![n] = [f EXCEPT !.mark = m]]
  BY <1>1, <1>2, <1>3
<1>5. [f EXCEPT !.mark = m] = [fn |-> f.fn, todo |-> f.todo, kids |-> f.kids, mark |-> m]
  BY <1>3
<1> QED BY <1>1, <1>4, <1>5 DEF WithTop, WithMark

\* A function that is not about to blame does the next of its tasks.
LEMMA MovesOn ==
  ASSUME NEW sn, NEW s, Stacked(sn, s), NEW f, f = s[Len(s)], Calm(f), f.todo # <<>>,
         NEW new, TasksOK(Points(f), new), NEW kids, NEW sn2
  PROVE  Stacked(sn2, Carry(s, new, kids))
<1>1. PICK x : x = After(f, new, kids, f.mark)
  OBVIOUS
<1>2. f.fn \in Functions /\ IsSeq(f.todo)
  BY DEF Stacked, Runs, IsFrame
<1>3. TasksOK(Points(f), new \o Tail(f.todo))
  BY <1>2, AfterTask DEF Calm, TasksOK
<1>4. x.fn = f.fn /\ x.todo = new \o Tail(f.todo) /\ x.kids = kids /\ x.mark = f.mark
  BY <1>1 DEF After
<1>5. Calm(x)
  BY <1>3, <1>4 DEF Calm, Points
<1>6. IsFrame(x)
  BY <1>1, <1>2, <1>3, <1>4 DEF IsFrame, TasksOK, After
<1>7. Runs(sn2, x)
  BY <1>5, <1>6 DEF Runs
<1>8. Carry(s, new, kids) = WithTop(s, x)
  BY <1>1, CarryIs
<1> QED BY <1>7, <1>8, StaysStacked

LEMMA Quits ==
  ASSUME NEW sn, NEW s, Stacked(sn, s), NEW sn2
  PROVE  Stacked(sn2, Quit(s))
<1>1. PICK f : f = s[Len(s)]
  OBVIOUS
<1>2. PICK x : x = [fn |-> f.fn, todo |-> <<>>, kids |-> <<>>, mark |-> f.mark]
  OBVIOUS
<1>3. f.fn \in Functions
  BY <1>1 DEF Stacked, Runs, IsFrame
<1>4. x.fn = f.fn /\ x.todo = <<>> /\ x.kids = <<>> /\ x.mark = f.mark
  BY <1>2
<1>5. Calm(x)
  BY <1>4, No DEF Calm
<1>6. IsFrame(x)
  BY <1>2, <1>3, <1>4, <1>5 DEF IsFrame, Calm, TasksOK
<1>7. Runs(sn2, x)
  BY <1>5, <1>6 DEF Runs
<1>8. Quit(s) = WithTop(s, x)
  BY <1>1, <1>2, QuitIs
<1> QED BY <1>7, <1>8, StaysStacked

LEMMA StaysMarked ==
  ASSUME NEW sn, NEW s, Stacked(sn, s), NEW f, f = s[Len(s)], Waits(f), NEW m,
         NEW r, r = WithMark(s, m)
  PROVE  Stacked(sn, r) /\ Waits(r[Len(r)]) /\ r[Len(r)].todo = f.todo
<1>1. PICK x : x = [fn |-> f.fn, todo |-> f.todo, kids |-> f.kids, mark |-> m]
  OBVIOUS
<1>2. IsFrame(f) /\ IsSeq(s) /\ Len(s) >= 1
  BY DEF Stacked, Runs
<1>3. r = WithTop(s, x)
  BY <1>1, <1>2, MarkIs
<1>4. x.fn = f.fn /\ x.todo = f.todo /\ x.kids = f.kids /\ x.mark = m
  BY <1>1
<1>5. IsFrame(x)
  BY <1>1, <1>2, <1>4 DEF IsFrame
<1>6. Waits(x) /\ Calm(x)
  BY <1>4 DEF Waits, Calm, Points
<1>7. Runs(sn, x)
  BY <1>5, <1>6 DEF Runs
<1>8. Stacked(sn, r)
  BY <1>3, <1>7, StaysStacked
<1>9. Len(r) = Len(s) /\ r[Len(s)] = x
  BY <1>2, <1>3, SetTop
<1> QED BY <1>4, <1>6, <1>8, <1>9

\* The caller gets its tree, or the NULL that it can do with.
LEMMA Delivered ==
  ASSUME NEW sn, NEW s, Stacked(sn, s), NEW f, f = s[Len(s)], Waits(f), NEW tree
  PROVE  Stacked(sn, Deliver(s, tree))
<1>1. PICK t : t = f.todo[1]
  OBVIOUS
<1>2. Calm(f) /\ f.todo # <<>> /\ t[1] \in CallWords
  BY <1>1 DEF Waits
<1>3. Head(f.todo) = t
  BY <1>1, <1>2 DEF Calm, TasksOK, IsSeq
<1>4. CASE t[1] = "parse" \/ tree # Hole
  <2>1. Deliver(s, tree) = Carry(s, <<>>, Append(f.kids, tree))
    BY <1>3, <1>4 DEF Deliver
  <2> QED BY <1>2, <2>1, No, MovesOn
<1>5. CASE t[1] = "need tree" /\ tree = Hole
  <2>1. Deliver(s, tree) = Quit(s)
    BY <1>3, <1>5 DEF Deliver
  <2> QED BY <2>1, Quits
<1>6. CASE t[1] = "element" /\ tree = Hole
  <2>1. Deliver(s, tree) = Carry(s, <<Sync(t[3])>>, f.kids)
    BY <1>3, <1>6 DEF Deliver
  <2>2. TaskOK(Points(f), Sync(t[3]))
    BY Plain
  <2>3. TasksOK(Points(f), <<Sync(t[3])>>)
    BY <2>2, One
  <2> QED BY <1>2, <2>1, <2>3, MovesOn
<1> QED BY <1>2, <1>4, <1>5, <1>6 DEF CallWords

-----------------------------------------------------------------------------
(* The lines *)

\* A line is about a token that has been looked at, and but for a `...` none
\* comes before a line about an earlier one.
InOrder(sn, ls) ==
  /\ \A i \in DOMAIN ls : ls[i].at \in DOMAIN sn
  /\ \A i, j \in DOMAIN ls : i < j /\ sn[ls[j].at] # "..." => ls[i].at <= ls[j].at

Ordered ==
  /\ IsSeq(seen) /\ Len(seen) >= 1
  /\ Stacked(seen, stack)
  /\ InOrder(seen, diag.lines)

LEMMA TokenMore ==
  ASSUME NEW sn, IsSeq(sn), NEW t, NEW r, r = Append(sn, t)
  PROVE  /\ IsSeq(r) /\ Len(r) = Len(sn) + 1
         /\ \A i \in DOMAIN sn : i \in DOMAIN r /\ r[i] = sn[i]
<1>1. PICK S : sn \in Seq(S)
  BY DEF IsSeq
<1>2. PICK U : U = S \cup {t}
  OBVIOUS
<1>3. sn \in Seq(U) /\ t \in U
  BY <1>1, <1>2
<1>4. r \in Seq(U) /\ Len(r) = Len(sn) + 1 /\ \A i \in 1 .. Len(sn) : r[i] = sn[i]
  BY <1>3
<1>5. \A i \in DOMAIN sn : i \in DOMAIN r /\ r[i] = sn[i]
  BY <1>3, <1>4
<1> QED BY <1>4, <1>5 DEF IsSeq

LEMMA StillInOrder ==
  ASSUME NEW sn, IsSeq(sn), NEW t, NEW ls, InOrder(sn, ls), NEW r, r = Append(sn, t)
  PROVE  InOrder(r, ls)
<1>1. \A i \in DOMAIN sn : i \in DOMAIN r /\ r[i] = sn[i]
  BY TokenMore
<1>2. \A i \in DOMAIN ls : ls[i].at \in DOMAIN r /\ r[ls[i].at] = sn[ls[i].at]
  BY <1>1 DEF InOrder
<1> QED BY <1>2 DEF InOrder

LEMMA LineMore ==
  ASSUME NEW sn, IsSeq(sn), NEW d, IsDiag(d), InOrder(sn, d.lines),
         NEW at \in DOMAIN sn, at = Len(sn) \/ sn[at] = "..."
  PROVE  InOrder(sn, diag_error(d, at).lines)
<1>1. PICK n, ls : n = Len(ls) /\ ls = d.lines
  OBVIOUS
<1>2. n \in Nat /\ DOMAIN ls = 1 .. n
  BY <1>1, LinesAre
<1>3. CASE diag_error(d, at).lines = ls
  BY <1>1, <1>3
<1>4. ASSUME NEW l, l.at = at, NEW ms, ms = Append(ls, l)
      PROVE  InOrder(sn, ms)
  <2>1. PICK S : ls \in Seq(S)
    BY <1>1 DEF IsDiag, IsSeq
  <2>2. ls \in Seq(S \cup {l})
    BY <2>1
  <2>3. /\ DOMAIN ms = 1 .. n + 1 /\ ms[n + 1] = l /\ \A i \in 1 .. n : ms[i] = ls[i]
    BY <1>1, <1>2, <1>4, <2>2
  <2>4. DOMAIN sn = 1 .. Len(sn) /\ Len(sn) \in Nat
    BY TodoIs
  <2>5. \A i \in 1 .. n + 1 : ms[i].at \in DOMAIN sn
    BY <1>1, <1>2, <1>4, <2>3 DEF InOrder
  <2>6. ASSUME NEW i \in 1 .. n + 1, NEW j \in 1 .. n + 1, i < j, sn[ms[j].at] # "..."
        PROVE  ms[i].at <= ms[j].at
    <3>1. CASE j \in 1 .. n
      <4>1. i \in 1 .. n
        BY <1>2, <2>6, <3>1
      <4> QED BY <1>1, <1>2, <2>3, <2>6, <3>1, <4>1 DEF InOrder
    <3>2. CASE j = n + 1
      <4>1. ms[j].at = Len(sn)
        BY <1>4, <2>3, <2>6, <3>2
      <4> QED BY <2>4, <2>5, <4>1
    <3> QED BY <1>2, <3>1, <3>2
  <2> QED BY <2>3, <2>5, <2>6 DEF InOrder
<1>5. diag_error(d, at).lines \in {ls, Append(ls, ErrorLine(at)), Append(ls, CutOffLine(at))}
  BY <1>1 DEF diag_error
<1>6. ErrorLine(at).at = at /\ CutOffLine(at).at = at
  BY DEF ErrorLine, CutOffLine, Line
<1> QED BY <1>3, <1>4, <1>5, <1>6

-----------------------------------------------------------------------------
(* The parser's steps *)

LEMMA Advances == advance => seen' = seen \/ \E t : seen' = Append(seen, t)
BY DEF advance, View

\* What has been passed stays what it was.
LEMMA Passed ==
  ASSUME IsSeq(seen), Len(seen) >= 1, seen' = seen \/ \E t : seen' = Append(seen, t)
  PROVE  /\ IsSeq(seen') /\ Len(seen') >= 1
         /\ \A i \in DOMAIN seen : i \in DOMAIN seen' /\ seen'[i] = seen[i]
<1>1. CASE seen' = seen
  BY <1>1
<1>2. ASSUME NEW t, seen' = Append(seen, t)
      PROVE  /\ IsSeq(seen') /\ Len(seen') >= 1
             /\ \A i \in DOMAIN seen : i \in DOMAIN seen' /\ seen'[i] = seen[i]
  <2>1. IsSeq(seen') /\ Len(seen') = Len(seen) + 1
    BY <1>2, TokenMore
  <2>2. \A i \in DOMAIN seen : i \in DOMAIN seen' /\ seen'[i] = seen[i]
    BY <1>2, TokenMore
  <2>3. Len(seen) \in Nat
    BY TodoIs
  <2> QED BY <2>1, <2>2, <2>3
<1> QED BY <1>1, <1>2

LEMMA LinesPassed ==
  ASSUME NEW ls, IsSeq(seen), InOrder(seen, ls), seen' = seen \/ \E t : seen' = Append(seen, t)
  PROVE  InOrder(seen', ls)
BY StillInOrder

LEMMA TopIs ==
  ASSUME Stacked(seen, stack)
  PROVE  /\ Top = stack[Len(stack)] /\ Runs(seen, Top) /\ IsFrame(Top)
         /\ Top.todo # <<>> => Task = Top.todo[1]
<1>1. Top = stack[Len(stack)] /\ Runs(seen, Top) /\ IsFrame(Top)
  BY DEF Stacked, Top, Runs
<1>2. ASSUME Top.todo # <<>> PROVE Task = Top.todo[1]
  <2>1. PICK S : Top.todo \in Seq(S)
    BY <1>1 DEF IsFrame, IsSeq
  <2> QED BY <1>2, <2>1 DEF Task
<1> QED BY <1>1, <1>2

\* Only a mark, a take and the complaint itself can be on the way to blame.
LEMMA CalmTop ==
  ASSUME Stacked(seen, stack), NEW W, Doing(W), {"take", "mark", "blame"} \cap W = {}
  PROVE  Calm(Top)
<1>1. Top.todo # <<>> /\ Task[1] \in W
  BY DEF Doing
<1>2. Runs(seen, Top) /\ Task = Top.todo[1]
  BY <1>1, TopIs
<1>3. Top.todo[1] # Mark /\ Top.todo[1] # Take /\ Top.todo[1] # Blame
  BY <1>1, <1>2 DEF Mark, Take, Blame
<1> QED BY <1>2, <1>3 DEF Runs, Marks, Takes, Blames

\* The first task of one that is not about to blame.
LEMMA CalmTask ==
  ASSUME Stacked(seen, stack), Calm(Top), Top.todo # <<>>
  PROVE  TaskOK(Points(Top), Task)
<1>1. Task = Top.todo[1]
  BY TopIs
<1>2. PICK S : Top.todo \in Seq(S)
  BY DEF Calm, TasksOK, IsSeq
<1>3. 1 \in DOMAIN Top.todo
  BY <1>2
<1> QED BY <1>1, <1>3 DEF Calm, TasksOK

LEMMA CalmOnward ==
  ASSUME Stacked(seen, stack), NEW W, Doing(W), {"take", "mark", "blame"} \cap W = {},
         NEW kids, Onward(kids), NEW sn
  PROVE  Stacked(sn, stack')
<1>1. Calm(Top) /\ Top = stack[Len(stack)] /\ Top.todo # <<>>
  BY CalmTop, TopIs DEF Doing
<1>2. stack' = Carry(stack, <<>>, kids)
  BY DEF Onward
<1> QED BY <1>1, <1>2, No, MovesOn

\* The same with a task of the complaint about `...` done.
LEMMA OnwardTo ==
  ASSUME Stacked(seen, stack), NEW kids, Onward(kids), NEW sn,
         NEW x, x = After(Top, <<>>, kids, Top.mark),
         Runs(sn, x)
  PROVE  Stacked(sn, stack')
<1>1. Top = stack[Len(stack)]
  BY TopIs
<1>2. Carry(stack, <<>>, kids) = WithTop(stack, x)
  BY <1>1, CarryIs
<1>3. stack' = WithTop(stack, x)
  BY <1>2 DEF Onward
<1> QED BY <1>3, StaysStacked

\* What the activation is like after that task.
LEMMA TailOf ==
  ASSUME NEW f, IsFrame(f), f.todo # <<>>, NEW kids, NEW m,
         NEW x, x = After(f, <<>>, kids, m)
  PROVE  /\ IsFrame(x) /\ x.fn = f.fn /\ x.mark = m
         /\ Len(x.todo) = Len(f.todo) - 1
         /\ \A i \in 1 .. Len(f.todo) - 1 : x.todo[i] = f.todo[i + 1]
         /\ \A n \in Nat : From(f, n + 1) => From(x, n)
<1>1. IsSeq(f.todo) /\ f.fn \in Functions
  BY DEF IsFrame
<1>2. PICK t : t = <<>> \o Tail(f.todo)
  OBVIOUS
<1>3. IsSeq(t) /\ Len(t) = Len(f.todo) - 1
  BY <1>1, <1>2, TailIs
<1>4. \A i \in 1 .. Len(f.todo) - 1 : t[i] = f.todo[i + 1]
  BY <1>1, <1>2, TailIs
<1>5. x.fn = f.fn /\ x.todo = t /\ x.kids = kids /\ x.mark = m
  BY <1>2 DEF After
<1>6. IsFrame(x)
  BY <1>1, <1>2, <1>3, <1>5 DEF IsFrame, After
<1>7. DOMAIN t = 1 .. Len(f.todo) - 1 /\ DOMAIN f.todo = 1 .. Len(f.todo) /\ Len(f.todo) \in Nat
  BY <1>1, <1>3, TodoIs
<1>8. Points(x) = Points(f)
  BY <1>5 DEF Points
<1>9. ASSUME NEW n \in Nat, From(f, n + 1) PROVE From(x, n)
  <2>1. ASSUME NEW i \in DOMAIN t, i >= n PROVE TaskOK(Points(f), t[i])
    <3>1. t[i] = f.todo[i + 1] /\ i + 1 \in DOMAIN f.todo /\ i + 1 >= n + 1
      BY <1>4, <1>7, <2>1
    <3> QED BY <1>9, <3>1 DEF From
  <2> QED BY <1>5, <1>8, <2>1 DEF From
<1> QED BY <1>3, <1>4, <1>5, <1>6, <1>9

LEMMA TodoTail ==
  ASSUME NEW f, IsFrame(f), f.todo # <<>>, NEW kids, NEW m,
         NEW x, x = After(f, <<>>, kids, m), NEW i \in 1 .. Len(f.todo) - 1
  PROVE  x.todo[i] = f.todo[i + 1]
BY TailOf

LEMMA FromTail ==
  ASSUME NEW f, IsFrame(f), f.todo # <<>>, NEW kids, NEW m,
         NEW x, x = After(f, <<>>, kids, m),
         NEW n \in Nat, NEW k, k = n + 1, From(f, k)
  PROVE  From(x, n)
BY TailOf

LEMMA FromFirst ==
  ASSUME NEW x, IsFrame(x), From(x, 1)
  PROVE  Calm(x)
<1>1. DOMAIN x.todo = 1 .. Len(x.todo) /\ Len(x.todo) \in Nat /\ IsSeq(x.todo)
  BY TodoIs DEF IsFrame
<1> QED BY <1>1 DEF From, Calm, TasksOK

LEMMA CurIs == Cur = "..." => seen[Len(seen)] = "..."
BY DEF Cur, Now, Kind

LEMMA HereIs == Ordered => Here \in DOMAIN seen
<1> SUFFICES ASSUME Ordered PROVE Here \in DOMAIN seen
  OBVIOUS
<1>1. DOMAIN seen = 1 .. Len(seen) /\ Len(seen) \in Nat /\ Len(seen) >= 1
  BY TodoIs DEF Ordered
<1> QED BY <1>1 DEF Here

\* One step's three effects, put together.
LEMMA OrderedThen ==
  ASSUME Ordered, seen' = seen \/ \E t : seen' = Append(seen, t),
         InOrder(seen, diag'.lines), Stacked(seen', stack')
  PROVE  Ordered'
<1>1. IsSeq(seen') /\ Len(seen') >= 1
  BY Passed DEF Ordered
<1>2. InOrder(seen', diag'.lines)
  BY LinesPassed DEF Ordered
<1> QED BY <1>1, <1>2 DEF Ordered

LEMMA SkipErrorOrdered ==
  ASSUME Ordered, IsDiag(diag), SkipError
  PROVE  Ordered'
<1>1. Cur = "ERROR" /\ diag' = diag_error(diag, Here) /\ stack' = stack
  BY DEF SkipError
<1>2. seen' = seen \/ \E t : seen' = Append(seen, t)
  BY Advances DEF SkipError
<1>3. InOrder(seen, diag'.lines)
  BY <1>1, HereIs, LineMore DEF Ordered, Here
<1>4. \A i \in DOMAIN seen : i \in DOMAIN seen' /\ seen'[i] = seen[i]
  BY <1>2, Passed DEF Ordered
<1>5. Runs(seen', Top)
  <2>1. Runs(seen, Top)
    BY TopIs DEF Ordered
  <2>2. ~Marks(seen, Top) /\ ~Takes(seen, Top)
    BY <1>1 DEF Marks, Takes, Cur, Now
  <2>3. Blames(seen, Top) => Blames(seen', Top)
    BY <1>4 DEF Blames
  <2> QED BY <2>1, <2>2, <2>3 DEF Runs
<1>6. Stacked(seen', stack')
  BY <1>1, <1>5 DEF Ordered, Stacked, Top
<1> QED BY <1>2, <1>3, <1>6, OrderedThen

LEMMA ShiftOrdered ==
  ASSUME Ordered, Shift
  PROVE  Ordered'
<1>1. PICK kids : Onward(kids)
  BY DEF Shift
<1>2. Doing(Tokens) /\ diag' = diag
  BY DEF Shift
<1>3. seen' = seen \/ \E t : seen' = Append(seen, t)
  BY Advances DEF Shift
<1>4. InOrder(seen, diag'.lines)
  BY <1>2 DEF Ordered
<1>5. Stacked(seen, stack)
  BY DEF Ordered
<1>6. Runs(seen, Top) /\ IsFrame(Top) /\ Top.todo # <<>>
  BY <1>2, <1>5, TopIs DEF Doing
<1>7. Task = Top.todo[1] /\ Task[1] \in Tokens
  BY <1>2, <1>5, TopIs DEF Doing
<1>8. CASE Calm(Top)
  <2>1. stack' = Carry(stack, <<>>, kids)
    BY <1>1 DEF Onward
  <2>2. Top = stack[Len(stack)]
    BY <1>5, TopIs
  <2>3. Stacked(seen', stack')
    BY <1>5, <1>6, <1>8, <2>1, <2>2, No, MovesOn
  <2> QED BY <1>3, <1>4, <2>3, OrderedThen
<1>9. CASE Takes(seen, Top)
  <2>1. PICK x : x = After(Top, <<>>, kids, Top.mark)
    OBVIOUS
  <2>2. IsFrame(x) /\ x.mark = Top.mark /\ Len(x.todo) = Len(Top.todo) - 1
    BY <1>6, <2>1, TailOf
  <2>3. \A i \in 1 .. Len(Top.todo) - 1 : x.todo[i] = Top.todo[i + 1]
    BY <1>6, <2>1, TailOf
  <2>4. From(x, 2)
    <3>1. From(Top, 3)
      BY <1>9 DEF Takes
    <3> QED BY <1>6, <2>1, <3>1, FromTail
  <2>5. /\ Cur = "..." /\ Top.mark = Len(seen) /\ Len(Top.todo) > 1 /\ Top.todo[2] = Blame
    BY <1>9 DEF Takes, Cur, Now
  <2>6. Len(Top.todo) \in Nat
    BY <1>6, TodoIs DEF IsFrame
  <2>7. x.todo[1] = Blame /\ Len(x.todo) > 0
    BY <2>2, <2>3, <2>5, <2>6
  <2>8. x.mark \in DOMAIN seen /\ seen[x.mark] = "..."
    BY <2>2, <2>5, CurIs, HereIs DEF Here
  <2>9. x.mark \in DOMAIN seen' /\ seen'[x.mark] = "..."
    BY <1>3, <2>8, Passed DEF Ordered
  <2>10. Runs(seen', x)
    BY <2>2, <2>4, <2>7, <2>9 DEF Runs, Blames
  <2>11. Stacked(seen', stack')
    BY <1>1, <1>5, <2>1, <2>10, OnwardTo
  <2> QED BY <1>3, <1>4, <2>11, OrderedThen
<1>10. Task # Mark /\ Task # Blame
  <2>1. Mark[1] = "mark" /\ Blame[1] = "blame"
    BY DEF Mark, Blame
  <2> QED BY <1>7, <2>1 DEF Tokens
<1>11. ~Marks(seen, Top) /\ ~Blames(seen, Top)
  BY <1>7, <1>10 DEF Marks, Blames
<1> QED BY <1>6, <1>8, <1>9, <1>11 DEF Runs

LEMMA ReportOrdered ==
  ASSUME Ordered, IsDiag(diag), Report
  PROVE  Ordered'
<1>1. PICK at : at = IF Task[1] = "blame" THEN Top.mark ELSE Here
  OBVIOUS
<1>2. diag' = diag_error(diag, at) /\ Onward(Top.kids) /\ seen' = seen
  BY <1>1 DEF Report
<1>3. PICK W : Doing(W) /\ W \in {{"expect", "name"}, {"complain", "blame"}}
  BY DEF Report
<1>4. Stacked(seen, stack)
  BY DEF Ordered
<1>5. Runs(seen, Top) /\ IsFrame(Top) /\ Top.todo # <<>>
  BY <1>3, <1>4, TopIs DEF Doing
<1>6. Task = Top.todo[1] /\ Task[1] \in {"expect", "name", "complain", "blame"}
  BY <1>3, <1>4, TopIs DEF Doing
<1>7. CASE Calm(Top)
  <2>1. TaskOK(Points(Top), Task)
    BY <1>4, <1>5, <1>7, CalmTask
  <2>2. at = Len(seen) /\ at \in DOMAIN seen
    BY <1>1, <2>1, HereIs DEF TaskOK, Here
  <2>3. InOrder(seen, diag'.lines)
    BY <1>2, <2>2, LineMore DEF Ordered
  <2>4. stack' = Carry(stack, <<>>, Top.kids)
    BY <1>2 DEF Onward
  <2>5. Top = stack[Len(stack)]
    BY <1>4, TopIs
  <2>6. Stacked(seen', stack')
    BY <1>4, <1>5, <1>7, <2>4, <2>5, No, MovesOn
  <2> QED BY <1>2, <2>3, <2>6, OrderedThen
<1>8. CASE Blames(seen, Top)
  <2>1. PICK x : x = After(Top, <<>>, Top.kids, Top.mark)
    OBVIOUS
  <2>2. IsFrame(x)
    BY <1>5, <2>1, TailOf
  <2>3. From(x, 1)
    <3>1. From(Top, 2)
      BY <1>8 DEF Blames
    <3> QED BY <1>5, <2>1, <3>1, FromTail
  <2>4. Runs(seen', x)
    BY <2>2, <2>3, FromFirst DEF Runs
  <2>5. Stacked(seen', stack')
    BY <1>2, <1>4, <2>1, <2>4, OnwardTo
  <2>6. Task = Blame
    BY <1>6, <1>8 DEF Blames
  <2>7. at = Top.mark
    BY <1>1, <2>6 DEF Blame
  <2>8. at \in DOMAIN seen /\ seen[at] = "..."
    BY <1>8, <2>7 DEF Blames
  <2>9. InOrder(seen, diag'.lines)
    BY <1>2, <2>8, LineMore DEF Ordered
  <2> QED BY <1>2, <2>5, <2>9, OrderedThen
<1>9. Task # Mark /\ Task # Take
  <2>1. Mark[1] = "mark" /\ Take[1] = "take"
    BY DEF Mark, Take
  <2> QED BY <1>6, <2>1
<1>10. ~Marks(seen, Top) /\ ~Takes(seen, Top)
  BY <1>6, <1>9 DEF Marks, Takes
<1> QED BY <1>5, <1>7, <1>8, <1>10 DEF Runs

LEMMA RefuseOrdered ==
  ASSUME Ordered, IsDiag(diag), Refuse
  PROVE  Ordered'
<1>1. diag' = diag_error(diag, Here) /\ stack' = Quit(stack) /\ seen' = seen
  BY DEF Refuse
<1>2. InOrder(seen, diag'.lines)
  BY <1>1, HereIs, LineMore DEF Ordered, Here
<1>3. Stacked(seen', stack')
  BY <1>1, Quits DEF Ordered
<1> QED BY <1>1, <1>2, <1>3, OrderedThen

\* A function that has come to its row about `...`.
LEMMA ComesToBlame ==
  ASSUME NEW sn, Kind(sn[Len(sn)]) = "...", NEW f, IsFrame(f), Calm(f), f.todo # <<>>,
         TaskOK(Points(f), Then("close")), NEW kids, NEW row,
         row = <<Mark, Take, Blame, Then("close")>>,
         NEW x, x = After(f, row, kids, f.mark)
  PROVE  Runs(sn, x)
<1>1. PICK S : f.todo \in Seq(S)
  BY DEF IsFrame, IsSeq
<1>2. PICK U, t, r : /\ U = S \cup {Mark, Take, Blame, Then("close")}
                     /\ t = Tail(f.todo) /\ r = row \o t
  OBVIOUS
<1>3. t \in Seq(U) /\ Len(t) = Len(f.todo) - 1 /\ \A i \in 1 .. Len(t) : t[i] = f.todo[i + 1]
  BY <1>1, <1>2
<1>4. row \in Seq(U) /\ Len(row) = 4
  BY <1>2
<1>5. r \in Seq(U) /\ Len(r) = 4 + Len(t)
  BY <1>2, <1>3, <1>4
<1>6. \A i \in 1 .. 4 : r[i] = row[i]
  BY <1>2, <1>3, <1>4
<1>7. \A i \in 5 .. 4 + Len(t) : r[i] = t[i - 4]
  BY <1>2, <1>3, <1>4
<1>8. row[1] = Mark /\ row[2] = Take /\ row[3] = Blame /\ row[4] = Then("close")
  OBVIOUS
<1>9. Len(t) \in Nat /\ DOMAIN f.todo = 1 .. Len(t) + 1 /\ DOMAIN r = 1 .. 4 + Len(t)
  BY <1>1, <1>3, <1>5
<1>10. Len(r) > 2 /\ r[1] = Mark /\ r[2] = Take /\ r[3] = Blame
  BY <1>5, <1>6, <1>8, <1>9
<1>11. ASSUME NEW i \in DOMAIN r, i >= 4 PROVE TaskOK(Points(f), r[i])
  <2>1. CASE i = 4
    BY <1>6, <1>8, <2>1
  <2>2. CASE i > 4
    <3>1. i \in 5 .. 4 + Len(t)
      BY <1>9, <1>11, <2>2
    <3>2. PICK j : j = i - 4
      OBVIOUS
    <3>3. j \in 1 .. Len(t) /\ j + 1 \in DOMAIN f.todo
      BY <1>9, <3>1, <3>2
    <3>4. r[i] = t[j]
      BY <1>7, <3>1, <3>2
    <3>5. t[j] = f.todo[j + 1]
      BY <1>3, <3>3
    <3> QED BY <3>3, <3>4, <3>5 DEF Calm, TasksOK
  <2> QED BY <1>9, <1>11, <2>1, <2>2
<1>12. x.fn = f.fn /\ x.todo = r /\ x.kids = kids /\ x.mark = f.mark
  BY <1>2 DEF After
<1>13. IsFrame(x)
  BY <1>2, <1>5, <1>12 DEF IsFrame, IsSeq, After
<1>14. Marks(sn, x)
  BY <1>10, <1>11, <1>12 DEF Marks, From, Points
<1> QED BY <1>13, <1>14 DEF Runs

LEMMA DecideOrdered ==
  ASSUME Ordered, Decide
  PROVE  Ordered'
<1>1. PICK f, row, kids : f = Top /\ row = Row(Top.fn, Task[2], Cur) /\ kids = Top.kids
  OBVIOUS
<1>2. Doing({"then"}) /\ stack' = Carry(stack, row, kids) /\ seen' = seen /\ diag' = diag
  BY <1>1 DEF Decide
<1>3. Stacked(seen, stack)
  BY DEF Ordered
<1>4. f = stack[Len(stack)] /\ IsFrame(f)
  BY <1>1, <1>3, TopIs
<1>5. Calm(f) /\ f.todo # <<>>
  BY <1>1, <1>2, <1>3, CalmTop DEF Doing
<1>6. TaskOK(Points(f), Task) /\ Task[1] = "then"
  BY <1>1, <1>2, <1>3, <1>5, CalmTask DEF Doing
<1>7. Task[2] \in DOMAIN Code[f.fn] /\ f.fn \in Functions
  BY <1>4, <1>6 DEF TaskOK, Points, IsFrame
<1>8. ASSUME TasksOK(Points(f), row)
      PROVE  Stacked(seen, stack')
  BY <1>2, <1>3, <1>4, <1>5, <1>8, MovesOn
<1>9. ASSUME Cur = "...", row = <<Mark, Take, Blame, Then("close")>>,
             TaskOK(Points(f), Then("close"))
      PROVE  Stacked(seen, stack')
  <2>1. PICK x : x = After(f, row, kids, f.mark)
    OBVIOUS
  <2>2. Carry(stack, row, kids) = WithTop(stack, x)
    BY <1>3, <1>4, <2>1, CarryIs
  <2>3. Kind(seen[Len(seen)]) = "..."
    BY <1>9 DEF Cur, Now
  <2>4. Runs(seen, x)
    BY <1>4, <1>5, <1>9, <2>1, <2>3, ComesToBlame
  <2> QED BY <1>2, <1>3, <2>2, <2>4, StaysStacked
<1>10. \/ TasksOK(Points(f), row)
       \/ /\ Cur = "..." /\ row = <<Mark, Take, Blame, Then("close")>>
          /\ TaskOK(Points(f), Then("close"))
  BY <1>1, <1>7, RowIs DEF Points
<1>11. Stacked(seen', stack')
  BY <1>2, <1>8, <1>9, <1>10
<1>12. InOrder(seen, diag'.lines)
  BY <1>2 DEF Ordered
<1> QED BY <1>2, <1>11, <1>12, OrderedThen

LEMMA ReduceOrdered ==
  ASSUME Ordered, Reduce
  PROVE  Ordered'
<1>1. Doing({"fold", "node"}) /\ seen' = seen /\ diag' = diag /\ \E kids : Onward(kids)
  BY DEF Reduce
<1>2. Stacked(seen', stack')
  BY <1>1, CalmOnward DEF Ordered
<1>3. InOrder(seen, diag'.lines)
  BY <1>1 DEF Ordered
<1> QED BY <1>1, <1>2, <1>3, OrderedThen

LEMMA MakeProgressOrdered ==
  ASSUME Ordered, MakeProgress
  PROVE  Ordered'
<1>1. Doing({"progress"}) /\ diag' = diag /\ Onward(Top.kids)
  BY DEF MakeProgress
<1>2. seen' = seen \/ \E t : seen' = Append(seen, t)
  BY Advances DEF MakeProgress
<1>3. Stacked(seen', stack')
  BY <1>1, CalmOnward DEF Ordered
<1>4. InOrder(seen, diag'.lines)
  BY <1>1 DEF Ordered
<1> QED BY <1>2, <1>3, <1>4, OrderedThen

LEMMA ResyncOrdered ==
  ASSUME Ordered, Resync
  PROVE  Ordered'
<1>1. Doing({"sync"}) /\ diag' = diag /\ (Onward(Top.kids) \/ stack' = stack)
  BY DEF Resync
<1>2. seen' = seen \/ \E t : seen' = Append(seen, t)
  BY Advances DEF Resync
<1>3. ASSUME Onward(Top.kids) PROVE Stacked(seen', stack')
  BY <1>1, <1>3, CalmOnward DEF Ordered
<1>4. ASSUME stack' = stack PROVE Stacked(seen', stack')
  <2>1. Calm(Top)
    BY <1>1, CalmTop DEF Ordered
  <2>2. Runs(seen', Top)
    BY <2>1, TopIs DEF Ordered, Runs
  <2> QED BY <1>4, <2>2 DEF Ordered, Stacked, Top
<1>5. InOrder(seen, diag'.lines)
  BY <1>1 DEF Ordered
<1> QED BY <1>1, <1>2, <1>3, <1>4, <1>5, OrderedThen

LEMMA RememberIs ==
  ASSUME Stacked(seen, stack), Remember, NEW f, f = Top,
         NEW x, x = After(f, <<>>, f.kids, Len(seen))
  PROVE  stack' = WithTop(stack, x)
<1>1. PICK kids, s1, n, m : /\ kids = f.kids /\ s1 = Carry(stack, <<>>, kids)
                            /\ n = Len(stack) /\ m = Len(seen)
  OBVIOUS
<1>2. stack' = [s1 EXCEPT ![n].mark = m]
  BY <1>1 DEF Remember, Here
<1>3. IsSeq(stack) /\ Len(stack) >= 1
  BY DEF Stacked
<1>4. f = stack[Len(stack)]
  BY TopIs
<1>5. PICK x1 : x1 = After(f, <<>>, kids, f.mark)
  OBVIOUS
<1>6. s1 = WithTop(stack, x1)
  <2>1. Carry(stack, <<>>, kids) = WithTop(stack, x1)
    BY <1>4, <1>5, CarryIs
  <2> QED BY <1>1, <2>1
<1>7. n \in DOMAIN stack
  BY <1>1, <1>3, TodoIs
<1>8. [x1 EXCEPT !.mark = m] = x
  <2>1. PICK t : t = <<>> \o Tail(f.todo)
    OBVIOUS
  <2>2. /\ x1 = [fn |-> f.fn, todo |-> t, kids |-> kids, mark |-> f.mark]
        /\ x = [fn |-> f.fn, todo |-> t, kids |-> kids, mark |-> m]
    BY <1>1, <1>5, <2>1 DEF After
  <2> QED BY <2>2
<1>9. s1 = [stack EXCEPT ![n] = x1]
  BY <1>1, <1>6 DEF WithTop
<1>10. s1[n] = x1
  BY <1>7, <1>9
<1>11. [s1 EXCEPT ![n].mark = m] = [s1 EXCEPT ![n] = x]
  BY <1>8, <1>10
<1>12. [s1 EXCEPT ![n] = x] = [stack EXCEPT ![n] = x]
  BY <1>7, <1>9
<1> QED BY <1>1, <1>2, <1>11, <1>12 DEF WithTop

LEMMA RememberOrdered ==
  ASSUME Ordered, Remember
  PROVE  Ordered'
<1>1. PICK f, kids, m : f = Top /\ kids = f.kids /\ m = Len(seen)
  OBVIOUS
<1>2. Doing({"mark"}) /\ seen' = seen /\ diag' = diag
  BY DEF Remember
<1>3. Stacked(seen, stack)
  BY DEF Ordered
<1>4. f = stack[Len(stack)] /\ Runs(seen, f) /\ IsFrame(f)
  BY <1>1, <1>3, TopIs
<1>5. f.todo # <<>> /\ Task = f.todo[1] /\ Task[1] = "mark"
  BY <1>1, <1>2, <1>3, TopIs DEF Doing
<1>7. PICK x : x = After(f, <<>>, kids, m)
  OBVIOUS
<1>9. stack' = WithTop(stack, x)
  BY <1>1, <1>3, <1>7, RememberIs
<1>10. IsFrame(x) /\ x.mark = m /\ Len(x.todo) = Len(f.todo) - 1
  BY <1>4, <1>5, <1>7, TailOf
<1>11. ASSUME Calm(f) PROVE Runs(seen, x)
  <2>1. From(f, 2)
    BY <1>11 DEF Calm, TasksOK, From
  <2>2. From(x, 1)
    BY <1>4, <1>5, <1>7, <2>1, FromTail
  <2>3. Calm(x)
    BY <1>10, <2>2, FromFirst
  <2> QED BY <1>10, <2>3 DEF Runs
<1>12. ASSUME Marks(seen, f) PROVE Runs(seen, x)
  <2>1. /\ Kind(seen[Len(seen)]) = "..." /\ Len(f.todo) > 2 /\ f.todo[2] = Take
        /\ f.todo[3] = Blame
    BY <1>12 DEF Marks
  <2>2. Len(f.todo) \in Nat
    BY <1>4, TodoIs DEF IsFrame
  <2>3. x.todo[1] = f.todo[1 + 1] /\ x.todo[2] = f.todo[2 + 1]
    <3>1. 1 \in 1 .. Len(f.todo) - 1 /\ 2 \in 1 .. Len(f.todo) - 1
      BY <2>1, <2>2
    <3> QED BY <1>4, <1>5, <1>7, <3>1, TodoTail
  <2>4. Len(x.todo) > 1 /\ x.todo[1] = Take /\ x.todo[2] = Blame
    BY <1>10, <2>1, <2>2, <2>3
  <2>5. From(x, 3)
    <3>1. From(f, 4)
      BY <1>12 DEF Marks
    <3> QED BY <1>4, <1>5, <1>7, <3>1, FromTail
  <2> QED BY <1>1, <1>10, <2>1, <2>4, <2>5 DEF Runs, Takes
<1>13. Task # Take /\ Task # Blame
  <2>1. Take[1] = "take" /\ Blame[1] = "blame"
    BY DEF Take, Blame
  <2> QED BY <1>5, <2>1
<1>14. ~Takes(seen, f) /\ ~Blames(seen, f)
  BY <1>5, <1>13 DEF Takes, Blames
<1>15. Runs(seen, x)
  BY <1>4, <1>11, <1>12, <1>14 DEF Runs
<1>16. Stacked(seen, stack')
  BY <1>3, <1>9, <1>15, StaysStacked
<1>17. InOrder(seen, diag'.lines)
  BY <1>2 DEF Ordered
<1> QED BY <1>2, <1>16, <1>17, OrderedThen

\* A call finds its caller with the call as its task, marked or not.
LEMMA CallerWaits ==
  ASSUME Stacked(seen, stack), Doing(Calls)
  PROVE  /\ Stacked(seen, Marked) /\ Waits(Marked[Len(Marked)])
         /\ Task[2] \in Functions
<1>1. Top = stack[Len(stack)] /\ Top.todo # <<>> /\ Task = Top.todo[1] /\ Task[1] \in CallWords
  BY TopIs DEF Doing, Calls, CallWords
<1>2. Calm(Top)
  BY CalmTop DEF Calls
<1>3. Waits(Top)
  BY <1>1, <1>2 DEF Waits
<1>4. Task[2] \in Functions
  BY <1>1, <1>2, CalmTask DEF TaskOK
<1>5. PICK r : r = WithMark(stack, Here)
  OBVIOUS
<1>6. Stacked(seen, r) /\ Waits(r[Len(r)])
  BY <1>1, <1>3, <1>5, StaysMarked
<1>7. Marked \in {r, stack}
  BY <1>5 DEF Marked, WithMark
<1> QED BY <1>1, <1>3, <1>4, <1>6, <1>7

LEMMA ActivationRuns ==
  ASSUME NEW f \in Functions
  PROVE  Runs(seen, Activation(f))
<1>1. PICK row, x : row = Row(f, "start", Cur) /\ x = Activation(f)
  OBVIOUS
<1>2. x = [fn |-> f, todo |-> row, kids |-> <<>>, mark |-> 0]
  BY <1>1 DEF Activation
<1>3. "start" \in DOMAIN Code[f]
  BY CodeOK DEF TableOK
<1>4. Points(x) = DOMAIN Code[f] /\ x.todo = row /\ x.fn = f
  BY <1>2 DEF Points
<1>5. ASSUME TasksOK(DOMAIN Code[f], row) PROVE Runs(seen, x)
  BY <1>2, <1>4, <1>5 DEF Runs, IsFrame, Calm, TasksOK
<1>6. ASSUME Cur = "...", row = <<Mark, Take, Blame, Then("close")>>,
             TaskOK(DOMAIN Code[f], Then("close"))
      PROVE  Runs(seen, x)
  <2>1. row \in Seq({Mark, Take, Blame, Then("close")}) /\ DOMAIN row = 1 .. 4 /\ Len(row) = 4
        /\ row[1] = Mark /\ row[2] = Take /\ row[3] = Blame /\ row[4] = Then("close")
    BY <1>6
  <2>2. From(x, 4)
    BY <1>4, <1>6, <2>1 DEF From
  <2>3. Marks(seen, x)
    BY <1>4, <1>6, <2>1, <2>2 DEF Marks, Cur, Now
  <2>4. IsFrame(x)
    BY <1>2, <1>4, <2>1 DEF IsFrame, IsSeq
  <2> QED BY <2>3, <2>4 DEF Runs
<1>7. \/ TasksOK(DOMAIN Code[f], row)
      \/ /\ Cur = "..." /\ row = <<Mark, Take, Blame, Then("close")>>
         /\ TaskOK(DOMAIN Code[f], Then("close"))
  BY <1>1, <1>3, RowIs
<1> QED BY <1>1, <1>5, <1>6, <1>7

LEMMA CallOrdered ==
  ASSUME Ordered, Call
  PROVE  Ordered'
<1>1. /\ Doing(Calls) /\ seen' = seen /\ diag' = diag
      /\ stack' = Append(Marked, Activation(Task[2]))
  BY DEF Call
<1>2. Stacked(seen, Marked) /\ Waits(Marked[Len(Marked)])
  BY <1>1, CallerWaits DEF Ordered
<1>3. Task[2] \in Functions
  BY <1>1, CallerWaits DEF Ordered
<1>4. Runs(seen, Activation(Task[2]))
  BY <1>3, ActivationRuns
<1>5. Stacked(seen', stack')
  BY <1>1, <1>2, <1>4, Pushed
<1>6. InOrder(seen, diag'.lines)
  BY <1>1 DEF Ordered
<1> QED BY <1>1, <1>5, <1>6, OrderedThen

LEMMA CallTooDeepOrdered ==
  ASSUME Ordered, IsDiag(diag), CallTooDeep
  PROVE  Ordered'
<1>1. /\ Doing(Calls) /\ seen' = seen /\ diag' = diag_error(diag, Here)
      /\ stack' = Deliver(Marked, Hole)
  BY DEF CallTooDeep
<1>2. Stacked(seen, Marked) /\ Waits(Marked[Len(Marked)])
  BY <1>1, CallerWaits DEF Ordered
<1>3. Stacked(seen', stack')
  BY <1>1, <1>2, Delivered
<1>4. InOrder(seen, diag'.lines)
  BY <1>1, HereIs, LineMore DEF Ordered, Here
<1> QED BY <1>1, <1>3, <1>4, OrderedThen

LEMMA ReturnOrdered ==
  ASSUME Ordered, Return
  PROVE  Ordered'
<1>1. PICK tree : stack' = Deliver(Pop, tree)
  BY DEF Return
<1>2. Len(stack) > 1 /\ seen' = seen /\ diag' = diag
  BY DEF Return
<1>3. Stacked(seen, Pop) /\ Waits(Pop[Len(Pop)])
  BY <1>2, Popped DEF Pop, Ordered
<1>4. Stacked(seen', stack')
  BY <1>1, <1>2, <1>3, Delivered
<1>5. InOrder(seen, diag'.lines)
  BY <1>2 DEF Ordered
<1> QED BY <1>2, <1>4, <1>5, OrderedThen

LEMMA ParserOrdered ==
  ASSUME Ordered, IsDiag(diag), ParserStep
  PROVE  Ordered'
BY SkipErrorOrdered, ShiftOrdered, ReportOrdered, RefuseOrdered, DecideOrdered, ReduceOrdered,
   RememberOrdered, MakeProgressOrdered, CallOrdered, CallTooDeepOrdered, ReturnOrdered,
   ResyncOrdered DEF ParserStep

-----------------------------------------------------------------------------
(* The whole front end *)

\* Between files there is no parser.
OrderInv ==
  \/ phase # "parse" /\ stack = <<>> /\ diag = diag_init
  \/ phase = "parse" /\ Ordered

LEMMA NoLines == \A i : i \notin DOMAIN diag_init.lines
BY DEF diag_init

LEMMA StartsOrdered ==
  ASSUME NEW s, Start(s)
  PROVE  Ordered'
<1>1. PICK t : seen' = Append(<<>>, t)
  BY DEF Start, View
<1>2. PICK x : x = [fn |-> "parse_program", todo |-> <<Then("start")>>, kids |-> <<>>,
                    mark |-> 0]
  OBVIOUS
<1>3. stack' = <<x>> /\ diag' = diag_init
  BY <1>2 DEF Start
<1>4. seen' \in Seq({t}) /\ Len(seen') = 1
  BY <1>1
<1>5. stack' \in Seq({x}) /\ Len(stack') = 1 /\ stack'[1] = x
  BY <1>3
<1>6. x.fn = "parse_program" /\ x.todo = <<Then("start")>>
  BY <1>2
<1>7. "parse_program" \in Functions
  BY FunctionsAre
<1>8. "start" \in Points(x)
  BY <1>6, <1>7, CodeOK DEF TableOK, Points
<1>9. Calm(x)
  BY <1>6, <1>8, Goes, One DEF Calm
<1>10. Runs(seen', x)
  BY <1>2, <1>6, <1>7, <1>9 DEF Runs, IsFrame, Calm, TasksOK
<1>11. Stacked(seen', stack')
  BY <1>5, <1>10 DEF Stacked, IsSeq
<1>12. InOrder(seen', diag'.lines)
  BY <1>3, NoLines DEF InOrder
<1> QED BY <1>4, <1>11, <1>12 DEF Ordered, IsSeq

LEMMA OrderStarts == Init => OrderInv
BY DEF Init, Idle, OrderInv

LEMMA OrderKeeps == OrderInv /\ DiagInv(diag) /\ [Next]_vars => OrderInv'
<1> SUFFICES ASSUME OrderInv, DiagInv(diag), [Next]_vars PROVE OrderInv'
  OBVIOUS
<1>1. CASE ReadFile
  BY <1>1, StartsOrdered DEF ReadFile, OrderInv
<1>2. CASE Parse_program
  <2>1. phase = "parse" /\ phase' = phase /\ ParserStep
    BY <1>2 DEF Parse_program, driverVars
  <2>2. Ordered /\ IsDiag(diag)
    BY <2>1 DEF OrderInv, DiagInv
  <2>3. Ordered'
    BY <2>1, <2>2, ParserOrdered
  <2> QED BY <2>1, <2>3 DEF OrderInv
<1>3. CASE FileParsed
  <2>1. phase' = "open" /\ stack' = <<>> /\ diag' = diag_init
    BY <1>3 DEF FileParsed
  <2> QED BY <2>1 DEF OrderInv
<1>4. CASE LexFile
  <2>1. phase = "lex" /\ phase' = phase /\ stack' = stack /\ diag' = diag
    BY <1>4 DEF LexFile
  <2> QED BY <2>1 DEF OrderInv
<1>5. CASE main \/ LexDone \/ AllParsed \/ collect_program \/ sema_check \/ BackHalf
  <2>1. phase # "parse" /\ phase' # "parse" /\ stack' = stack /\ diag' = diag
    BY <1>5 DEF main, LexDone, AllParsed, collect_program, sema_check, BackHalf, parserVars, Exit
  <2> QED BY <2>1 DEF OrderInv
<1>6. CASE CannotRead
  <2>1. phase # "parse" /\ phase' = phase /\ stack' = stack /\ diag' = diag
    BY <1>6 DEF CannotRead, AtFile, parserVars
  <2> QED BY <2>1 DEF OrderInv
<1>7. CASE UNCHANGED vars
  <2>1. phase' = phase /\ seen' = seen /\ stack' = stack /\ diag' = diag
    BY <1>7 DEF vars, parserVars, driverVars
  <2> QED BY <2>1 DEF OrderInv, Ordered
<1> QED BY <1>1, <1>2, <1>3, <1>4, <1>5, <1>6, <1>7 DEF Next

LEMMA LinesInOrder == OrderInv => ErrorsInOrder
<1>1. ASSUME diag = diag_init PROVE ErrorsInOrder
  BY <1>1, NoLines DEF ErrorsInOrder
<1>2. ASSUME Ordered PROVE ErrorsInOrder
  BY <1>2 DEF Ordered, InOrder, ErrorsInOrder
<1> QED BY <1>1, <1>2 DEF OrderInv

\* Whatever a file holds and however its errors are recovered from, the parser
\* reports them in the order in which they stand in it, a `...` outside an
\* extern block apart (parser.c:81-83).
THEOREM ErrorsComeInOrder == Spec => []ErrorsInOrder
<1>1. HonestInv /\ OrderInv /\ [Next]_vars => (HonestInv /\ OrderInv)'
  BY HonestKeeps, OrderKeeps DEF HonestInv
<1> QED BY <1>1, LinesInOrder, HonestStarts, OrderStarts, PTL DEF Spec

-----------------------------------------------------------------------------
(* The trees that sema gets: programs of items, and in an enum nothing of  *)
(* three parts but a member with its number.                               *)

IsNode(t)  == IsSeq(t) /\ Len(t) >= 1
IsSmall(t) == IsNode(t) /\ (Len(t) = 3 => t[3][1] \in IntLit)
IsItem(t)  == IsNode(t) /\ (t[1] = "EnumDecl" => \A i \in 2 .. Len(t) : IsSmall(t[i]))
IsProg(t)  == IsNode(t) /\ \A i \in 2 .. Len(t) : IsItem(t[i])

\* Functions that leave one node, made last, or nothing.
Enders == {"fn", "parse_struct", "parse_global", "parse_extern"}

Mild(t) == t[1] # "fold" /\ (t[1] = "node" => t[2] # "EnumDecl")
Last(t) == Mild(t) /\ t[1] \in {"then", "node", "give up"}

\* The last of the tasks goes on at a point or makes the node.
EndTodo(q) == q # <<>> => Last(q[Len(q)]) /\ \A j \in DOMAIN q : Mild(q[j])

Inner(t) == t[1] \notin {"fold", "then", "node"} /\ (t[1] \in CallWords => t = Parse("member"))
Outer(t) == t[1] \in {"then", "node"}

\* An enum's members are all that is parsed for it, and the node is made last.
EnumTodo(q) ==
  q # <<>> => Outer(q[Len(q)]) /\ \A j \in DOMAIN q : j < Len(q) => Inner(q[j])

EndShape(x) ==
  /\ IsSeq(x.kids) /\ EndTodo(x.todo)
  /\ x.todo = <<>> => x.kids = <<>> \/ IsItem(x.kids[1])

EnumShape(x) ==
  /\ IsSeq(x.kids) /\ EnumTodo(x.todo)
  /\ x.todo = <<>> => x.kids = <<>> \/ IsItem(x.kids[1])
  /\ x.todo # <<>> => \A i \in DOMAIN x.kids : IsSmall(x.kids[i])

\* The members' function, task by task.
MemberEnd == Node("EnumItem")
AtName    == <<Keep, Then("value")>>
AtValue   == <<Then("value")>>
AtEquals  == <<Take, Then("int"), MemberEnd>>
AtInt     == <<Then("int"), MemberEnd>>
AtNumber  == <<Keep, MemberEnd>>
AtOther   == <<Complain, MemberEnd>>
AtEnd     == <<MemberEnd>>
MemberTodo(last, q, kids) ==
  \/ Len(kids) = 0 /\ q = AtName
  \/ Len(kids) = 1 /\ q \in {AtValue, AtEquals, AtInt, AtOther, AtEnd}
  \/ Len(kids) = 1 /\ q = AtNumber /\ Kind(last) = "INT"
  \/ Len(kids) = 2 /\ q = AtEnd /\ kids[2][1] \in IntLit
  \/ Len(kids) = 1 /\ q = <<>> /\ IsSmall(kids[1])
MemberShape(sn, x) == IsSeq(x.kids) /\ MemberTodo(sn[Len(sn)], x.todo, x.kids)

ItemCall == {NeedTree("fn"), Parse("parse_struct"), Parse("parse_enum"), Parse("parse_global"),
             Parse("parse_extern")}
ItemShape(x) ==
  /\ IsSeq(x.kids)
  /\ \/ x.kids = <<>> /\ (x.todo \in {<<>>, <<GiveUp>>} \/ \E c \in ItemCall : x.todo = <<c>>)
     \/ x.todo = <<>> /\ (x.kids[1] = Hole \/ IsItem(x.kids[1]))

AtStart    == <<Then("start")>>
AtEof      == <<Node("Program")>>
AtItem     == <<Element("parse_item", "sync_item"), Progress, Then("start")>>
AtSync     == <<Sync("sync_item"), Progress, Then("start")>>
AtProgress == <<Progress, Then("start")>>
ProgramTodo == {AtStart, AtEof, AtItem, AtSync, AtProgress}
ProgramShape(x) ==
  /\ IsSeq(x.kids)
  /\ \/ x.todo \in ProgramTodo /\ \A i \in DOMAIN x.kids : IsItem(x.kids[i])
     \/ x.todo = <<>> /\ IsProg(x.kids[1])

Shape(sn, x) ==
  /\ x.fn \in Enders => EndShape(x)
  /\ x.fn = "parse_enum" => EnumShape(x)
  /\ x.fn = "member" => MemberShape(sn, x)
  /\ x.fn = "parse_item" => ItemShape(x)
  /\ x.fn = "parse_program" => ProgramShape(x)

\* Every activation is in shape, and above its caller.
Shaped(sn, s) ==
  /\ s[1].fn = "parse_program"
  /\ \A d \in 1 .. Len(s) : Shape(sn, s[d])
  /\ \A d \in 1 .. Len(s) - 1 : s[d].todo[1][2] = s[d + 1].fn

ShapeInv ==
  /\ phase = "parse" => Shaped(seen, stack)
  /\ IsSeq(progs) /\ \A u \in DOMAIN progs : IsProg(progs[u])

-----------------------------------------------------------------------------
(* Rows *)

\* The tasks of a point's rows.
RowSet(rows) == {rows[i].do : i \in DOMAIN rows}

LEMMA RowSet1 == ASSUME NEW a PROVE RowSet(Always(a)) = {a}
<1>1. PICK q : q = Always(a)
  OBVIOUS
<1>2. DOMAIN q = {1} /\ q[1].do = a
  BY <1>1 DEF Always, Else, On
<1> QED BY <1>1, <1>2 DEF RowSet

LEMMA RowSet2 ==
  ASSUME NEW k, NEW a, NEW b
  PROVE  RowSet(<<On(k, a), Else(b)>>) = {a, b}
<1>1. PICK q : q = <<On(k, a), Else(b)>>
  OBVIOUS
<1>2. DOMAIN q = {1, 2} /\ q[1].do = a /\ q[2].do = b
  BY <1>1 DEF Else, On
<1> QED BY <1>1, <1>2 DEF RowSet

LEMMA RowSet3 ==
  ASSUME NEW k, NEW l, NEW a, NEW b, NEW c
  PROVE  RowSet(<<On(k, a), On(l, b), Else(c)>>) = {a, b, c}
<1>1. PICK q : q = <<On(k, a), On(l, b), Else(c)>>
  OBVIOUS
<1>2. DOMAIN q = {1, 2, 3} /\ q[1].do = a /\ q[2].do = b /\ q[3].do = c
  BY <1>1 DEF Else, On
<1> QED BY <1>1, <1>2 DEF RowSet

LEMMA RowOf ==
  ASSUME NEW f \in Functions, NEW pt \in DOMAIN Code[f], NEW kind
  PROVE  Row(f, pt, kind) \in RowSet(Code[f][pt])
BY RowAmong DEF RowSet

Ends(q) == IsSeq(q) /\ q # <<>> /\ EndTodo(q)

LEMMA Ends1 == ASSUME NEW a, Last(a) PROVE Ends(<<a>>)
<1>1. PICK q : q = <<a>>
  OBVIOUS
<1>2. q \in Seq({a}) /\ DOMAIN q = {1} /\ Len(q) = 1 /\ q[1] = a /\ q # <<>>
  BY <1>1
<1> QED BY <1>1, <1>2 DEF Ends, EndTodo, IsSeq, Last

LEMMA Ends2 == ASSUME NEW a, NEW b, Mild(a), Last(b) PROVE Ends(<<a, b>>)
<1>1. PICK q : q = <<a, b>>
  OBVIOUS
<1>2. q \in Seq({a, b}) /\ DOMAIN q = {1, 2} /\ Len(q) = 2 /\ q[1] = a /\ q[2] = b /\ q # <<>>
  BY <1>1
<1> QED BY <1>1, <1>2 DEF Ends, EndTodo, IsSeq, Last

LEMMA Ends3 == ASSUME NEW a, NEW b, NEW c, Mild(a), Mild(b), Last(c) PROVE Ends(<<a, b, c>>)
<1>1. PICK q : q = <<a, b, c>>
  OBVIOUS
<1>2. q \in Seq({a, b, c}) /\ DOMAIN q = {1, 2, 3} /\ Len(q) = 3 /\ q[1] = a /\ q[2] = b
      /\ q[3] = c /\ q # <<>>
  BY <1>1
<1> QED BY <1>1, <1>2 DEF Ends, EndTodo, IsSeq, Last

LEMMA Ends4 ==
  ASSUME NEW a, NEW b, NEW c, NEW d, Mild(a), Mild(b), Mild(c), Last(d)
  PROVE  Ends(<<a, b, c, d>>)
<1>1. PICK q : q = <<a, b, c, d>>
  OBVIOUS
<1>2. q \in Seq({a, b, c, d}) /\ DOMAIN q = {1, 2, 3, 4} /\ Len(q) = 4 /\ q[1] = a /\ q[2] = b
      /\ q[3] = c /\ q[4] = d /\ q # <<>>
  BY <1>1
<1> QED BY <1>1, <1>2 DEF Ends, EndTodo, IsSeq, Last

LEMMA AreMild ==
  /\ Mild(Take) /\ Mild(Keep) /\ Mild(NeedName) /\ Mild(Mark) /\ Mild(Progress) /\ Mild(Blame)
  /\ \A k : Mild(Expect(k)) /\ Mild(Need(k)) /\ Mild(NeedTree(k)) /\ Mild(Parse(k))
  /\ \A f, s : Mild(Element(f, s))
  /\ \A l : l # "EnumDecl" => Mild(Node(l)) /\ Last(Node(l))
  /\ \A p : Last(Then(p))
  /\ Last(GiveUp)
BY DEF Take, Keep, NeedName, Mark, Progress, Blame, Expect, Need, NeedTree, Parse, Element, Node,
       Then, GiveUp, Mild, Last

EndRows(rows) == \A q \in RowSet(rows) : Ends(q)
EndTable(t)   == \A pt \in DOMAIN t : EndRows(t[pt])

LEMMA EndRows1 == ASSUME NEW a, Ends(a) PROVE EndRows(Always(a))
BY RowSet1 DEF EndRows

LEMMA EndRows2 ==
  ASSUME NEW k, NEW a, NEW b, Ends(a), Ends(b)
  PROVE  EndRows(<<On(k, a), Else(b)>>)
BY RowSet2 DEF EndRows

LEMMA StructEnds == EndTable(parse_struct)
<1>1. DOMAIN parse_struct = {"start", "fields"}
  BY DEF parse_struct
<1>2. Ends(<<Take, NeedName, Need("{"), Then("fields")>>)
  BY AreMild, Ends4
<1>3. Ends(<<Expect("}"), Node("StructDecl")>>)
  BY AreMild, Ends2
<1>4. Ends(<<Element("field", "sync_member"), Progress, Then("fields")>>)
  BY AreMild, Ends3
<1>5. EndRows(parse_struct.start) /\ EndRows(parse_struct.fields)
  BY <1>2, <1>3, <1>4, EndRows1, EndRows2 DEF parse_struct
<1> QED BY <1>1, <1>5 DEF EndTable

LEMMA GlobalEnds == EndTable(parse_global)
<1>1. DOMAIN parse_global = {"start", "mut", "type", "init"}
  BY DEF parse_global
<1>2. Ends(<<Take, Then("mut")>>) /\ Ends(<<Keep, Then("type")>>) /\ Ends(<<Then("type")>>)
  BY AreMild, Ends1, Ends2
<1>3. Ends(<<NeedTree("parse_type"), NeedName, Then("init")>>)
  BY AreMild, Ends3
<1>4. Ends(<<Take, NeedTree("parse_literal"), Expect(";"), Node("GlobalDecl")>>)
      /\ Ends(<<Expect(";"), Node("GlobalDecl")>>)
  BY AreMild, Ends2, Ends4
<1>5. EndRows(parse_global.start) /\ EndRows(parse_global.mut) /\ EndRows(parse_global.type)
      /\ EndRows(parse_global.init)
  BY <1>2, <1>3, <1>4, EndRows1, EndRows2 DEF parse_global
<1> QED BY <1>1, <1>5 DEF EndTable

LEMMA ExternEnds == EndTable(parse_extern)
<1>1. DOMAIN parse_extern = {"start", "abi", "fns"}
  BY DEF parse_extern
<1>2. Ends(<<Take, Then("abi")>>) /\ Ends(<<Keep, Need("{"), Then("fns")>>) /\ Ends(<<GiveUp>>)
  BY AreMild, Ends1, Ends2, Ends3
<1>3. Ends(<<Expect("}"), Node("ExternBlock")>>)
      /\ Ends(<<Element("extern_fn", "sync_member"), Progress, Then("fns")>>)
  BY AreMild, Ends2, Ends3
<1>4. EndRows(parse_extern.start) /\ EndRows(parse_extern.abi) /\ EndRows(parse_extern.fns)
  BY <1>2, <1>3, EndRows1, EndRows2 DEF parse_extern
<1> QED BY <1>1, <1>4 DEF EndTable

LEMMA FnEnds == EndTable(FnDecl(FALSE))
<1>1. PICK t : t = FnDecl(FALSE)
  OBVIOUS
<1>2. DOMAIN t = {"start", "params", "param", "more", "close", "ret", "body"}
  BY <1>1 DEF FnDecl
<1>3. Ends(<<Need("fn"), NeedName, Need("("), Then("params")>>)
      /\ Ends(<<Then("close")>>) /\ Ends(<<Then("param")>>)
      /\ Ends(<<Mark, Take, Blame, Then("close")>>)
      /\ Ends(<<NeedTree("param"), Then("more")>>) /\ Ends(<<Take, Then("param")>>)
  BY AreMild, Ends1, Ends2, Ends4
<1>4. Ends(<<Need(")"), Then("ret")>>)
      /\ Ends(<<Take, NeedTree("parse_type"), Node("Signature"), Then("body")>>)
      /\ Ends(<<Node("Signature"), Then("body")>>) /\ Ends(<<Parse("parse_block"), Node("FnDecl")>>)
  BY AreMild, Ends2, Ends4
<1>5. t.param = <<On({"..."}, <<Mark, Take, Blame, Then("close")>>),
                  Else(<<NeedTree("param"), Then("more")>>)>>
  BY <1>1 DEF FnDecl
<1>6. t.body = Always(<<Parse("parse_block"), Node("FnDecl")>>)
  BY <1>1 DEF FnDecl
<1>7. EndRows(t.param) /\ EndRows(t.body)
  BY <1>3, <1>4, <1>5, <1>6, EndRows1, EndRows2
<1>8. EndRows(t.start) /\ EndRows(t.params) /\ EndRows(t.more) /\ EndRows(t.close)
      /\ EndRows(t.ret)
  BY <1>1, <1>3, <1>4, EndRows1, EndRows2 DEF FnDecl
<1> QED BY <1>1, <1>2, <1>7, <1>8 DEF EndTable

\* Every row of these functions ends so.
LEMMA RowsEnd ==
  ASSUME NEW f \in Enders, NEW pt \in DOMAIN Code[f], NEW kind
  PROVE  Ends(Row(f, pt, kind))
<1>1. f \in {"fn", "parse_struct", "parse_global", "parse_extern"}
  BY DEF Enders
<1>2. EndTable(Code[f])
  <2>1. /\ Code.fn = FnDecl(FALSE) /\ Code.parse_struct = parse_struct
        /\ Code.parse_global = parse_global /\ Code.parse_extern = parse_extern
    BY DEF Code
  <2> QED BY <1>1, <2>1, FnEnds, StructEnds, GlobalEnds, ExternEnds
<1>3. f \in Functions
  BY <1>1, FunctionsAre
<1> QED BY <1>2, <1>3, RowOf DEF EndTable, EndRows

EnumEnds(q) == IsSeq(q) /\ q # <<>> /\ EnumTodo(q)

LEMMA EnumEnds1 ==
  ASSUME NEW a, Outer(a)
  PROVE  EnumEnds(<<a>>)
<1>1. PICK q : q = <<a>>
  OBVIOUS
<1>2. q \in Seq({a}) /\ DOMAIN q = 1 .. 1 /\ Len(q) = 1 /\ q # <<>>
  BY <1>1
<1>3. q[1] = a
  BY <1>1
<1>4. Outer(q[Len(q)])
  BY <1>2, <1>3
<1>5. \A j \in DOMAIN q : j < Len(q) => Inner(q[j])
  BY <1>2, <1>3
<1>6. EnumTodo(q)
  BY <1>4, <1>5 DEF EnumTodo
<1> QED BY <1>1, <1>2, <1>6 DEF EnumEnds, IsSeq

LEMMA EnumEnds2 ==
  ASSUME NEW a, NEW b, Inner(a), Outer(b)
  PROVE  EnumEnds(<<a, b>>)
<1>1. PICK q : q = <<a, b>>
  OBVIOUS
<1>2. q \in Seq({a, b}) /\ DOMAIN q = 1 .. 2 /\ Len(q) = 2 /\ q # <<>>
  BY <1>1
<1>3. q[1] = a /\ q[2] = b
  BY <1>1
<1>4. Outer(q[Len(q)])
  BY <1>2, <1>3
<1>5. \A j \in DOMAIN q : j < Len(q) => Inner(q[j])
  BY <1>2, <1>3
<1>6. EnumTodo(q)
  BY <1>4, <1>5 DEF EnumTodo
<1> QED BY <1>1, <1>2, <1>6 DEF EnumEnds, IsSeq

LEMMA EnumEnds3 ==
  ASSUME NEW a, NEW b, NEW c, Inner(a), Inner(b), Outer(c)
  PROVE  EnumEnds(<<a, b, c>>)
<1>1. PICK q : q = <<a, b, c>>
  OBVIOUS
<1>2. q \in Seq({a, b, c}) /\ DOMAIN q = 1 .. 3 /\ Len(q) = 3 /\ q # <<>>
  BY <1>1
<1>3. q[1] = a /\ q[2] = b /\ q[3] = c
  BY <1>1
<1>4. Outer(q[Len(q)])
  BY <1>2, <1>3
<1>5. \A j \in DOMAIN q : j < Len(q) => Inner(q[j])
  BY <1>2, <1>3
<1>6. EnumTodo(q)
  BY <1>4, <1>5 DEF EnumTodo
<1> QED BY <1>1, <1>2, <1>6 DEF EnumEnds, IsSeq

LEMMA EnumEnds5 ==
  ASSUME NEW a, NEW b, NEW c, NEW d, NEW e, Inner(a), Inner(b), Inner(c), Inner(d), Outer(e)
  PROVE  EnumEnds(<<a, b, c, d, e>>)
<1>1. PICK q : q = <<a, b, c, d, e>>
  OBVIOUS
<1>2. q \in Seq({a, b, c, d, e}) /\ DOMAIN q = 1 .. 5 /\ Len(q) = 5 /\ q # <<>>
  BY <1>1
<1>3. q[1] = a /\ q[2] = b /\ q[3] = c /\ q[4] = d /\ q[5] = e
  BY <1>1
<1>4. Outer(q[Len(q)])
  BY <1>2, <1>3
<1>5. \A j \in DOMAIN q : j < Len(q) => Inner(q[j])
  BY <1>2, <1>3
<1>6. EnumTodo(q)
  BY <1>4, <1>5 DEF EnumTodo
<1> QED BY <1>1, <1>2, <1>6 DEF EnumEnds, IsSeq

LEMMA AreInner ==
  /\ Inner(Take) /\ Inner(Keep) /\ Inner(NeedName) /\ Inner(Mark) /\ Inner(Progress)
  /\ Inner(Complain) /\ Inner(Parse("member"))
  /\ \A k : Inner(Expect(k)) /\ Inner(Need(k)) /\ Inner(Sync(k)) /\ Outer(Node(k)) /\ Outer(Then(k))
BY DEF Take, Keep, NeedName, Mark, Progress, Complain, Parse, Expect, Need, Sync, Node, Then,
       Inner, Outer, CallWords

EnumRows(rows) == \A q \in RowSet(rows) : EnumEnds(q)

LEMMA EnumRows1 == ASSUME NEW a, EnumEnds(a) PROVE EnumRows(Always(a))
BY RowSet1 DEF EnumRows

LEMMA EnumRows2 ==
  ASSUME NEW k, NEW a, NEW b, EnumEnds(a), EnumEnds(b)
  PROVE  EnumRows(<<On(k, a), Else(b)>>)
BY RowSet2 DEF EnumRows

LEMMA EnumRows3 ==
  ASSUME NEW k, NEW l, NEW a, NEW b, NEW c, EnumEnds(a), EnumEnds(b), EnumEnds(c)
  PROVE  EnumRows(<<On(k, a), On(l, b), Else(c)>>)
BY RowSet3 DEF EnumRows

LEMMA EnumRowsEnd ==
  ASSUME NEW pt \in DOMAIN Code["parse_enum"], NEW kind
  PROVE  EnumEnds(Row("parse_enum", pt, kind))
<1>1. Code["parse_enum"] = parse_enum /\ "parse_enum" \in Functions
  BY FunctionsAre DEF Code
<1>2. DOMAIN parse_enum = {"start", "colon", "base", "open", "members", "comma", "close"}
  BY DEF parse_enum
<1>3. EnumEnds(<<Take, NeedName, Then("colon")>>) /\ EnumEnds(<<Take, Then("base")>>)
      /\ EnumEnds(<<Then("open")>>) /\ EnumEnds(<<Keep, Then("open")>>)
      /\ EnumEnds(<<Complain, Then("open")>>) /\ EnumEnds(<<Need("{"), Then("members")>>)
  BY AreInner, EnumEnds1, EnumEnds2, EnumEnds3
<1>4. EnumEnds(<<Then("close")>>) /\ EnumEnds(<<Mark, Parse("member"), Then("comma")>>)
      /\ EnumEnds(<<Mark, Complain, Sync("sync_member"), Progress, Then("members")>>)
      /\ EnumEnds(<<Take, Progress, Then("members")>>)
      /\ EnumEnds(<<Expect("}"), Node("EnumDecl")>>)
  BY AreInner, EnumEnds1, EnumEnds2, EnumEnds3, EnumEnds5
<1>5. EnumRows(parse_enum.start) /\ EnumRows(parse_enum.colon) /\ EnumRows(parse_enum.base)
      /\ EnumRows(parse_enum.open)
  BY <1>3, EnumRows1, EnumRows2 DEF parse_enum
<1>6. EnumRows(parse_enum.members)
  BY <1>4, EnumRows3 DEF parse_enum
<1>7. EnumRows(parse_enum.comma) /\ EnumRows(parse_enum.close)
  BY <1>4, EnumRows1, EnumRows2 DEF parse_enum
<1>8. EnumRows(parse_enum[pt])
  BY <1>1, <1>2, <1>5, <1>6, <1>7
<1> QED BY <1>1, <1>8, RowOf DEF EnumRows

LEMMA MemberRows ==
  ASSUME NEW kind
  PROVE  /\ Row("member", "start", kind) = AtName
         /\ Row("member", "value", kind) \in {AtEquals, AtEnd}
         /\ \/ Row("member", "int", kind) = <<Keep>> /\ kind = "INT"
            \/ Row("member", "int", kind) = <<Complain>>
<1>1. Code["member"] = member /\ "member" \in Functions
  BY FunctionsAre DEF Code
<1>2. DOMAIN member = {"start", "value", "int"}
  BY DEF member
<1>3. Row("member", "start", kind) = AtName
  <2>1. RowSet(member.start) = {AtName}
    BY RowSet1 DEF member, AtName
  <2> QED BY <1>1, <1>2, <2>1, RowOf
<1>4. Row("member", "value", kind) \in {AtEquals, AtEnd}
  <2>1. member.value = <<On({"="}, AtEquals), Else(AtEnd)>>
    BY DEF member, MemberEnd, AtEquals, AtEnd
  <2>2. RowSet(member.value) = {AtEquals, AtEnd}
    BY <2>1, RowSet2
  <2> QED BY <1>1, <1>2, <2>2, RowOf
<1>5. \/ Row("member", "int", kind) = <<Keep>> /\ kind = "INT"
      \/ Row("member", "int", kind) = <<Complain>>
  <2>1. PICK a, b : a = <<Keep>> /\ b = <<Complain>>
    OBVIOUS
  <2>2. PICK rows : rows = <<On({"INT"}, a), Else(b)>>
    OBVIOUS
  <2>3. member["int"] = rows
    BY <2>1, <2>2 DEF member
  <2>4. DOMAIN rows = {1, 2} /\ rows[1].do = a /\ rows[2].do = b /\ rows[1].on = {"INT"}
    BY <2>2 DEF On, Else
  <2>5. PICK i \in DOMAIN rows :
          Row("member", "int", kind) = rows[i].do /\ (rows[i].on = AnyTok \/ kind \in rows[i].on)
    BY <1>1, <1>2, <2>3, RowAmong
  <2> QED BY <2>1, <2>4, <2>5 DEF AnyTok
<1> QED BY <1>3, <1>4, <1>5

LEMMA ItemRows ==
  ASSUME NEW kind
  PROVE  \/ Row("parse_item", "start", kind) = <<GiveUp>>
         \/ \E c \in ItemCall : Row("parse_item", "start", kind) = <<c>>
<1>1. Code["parse_item"] = parse_item /\ "parse_item" \in Functions
  BY FunctionsAre DEF Code
<1>2. DOMAIN parse_item = {"start"}
  BY DEF parse_item
<1>3. PICK a, b, c, d, e, g : /\ a = <<NeedTree("fn")>> /\ b = <<Parse("parse_struct")>>
                              /\ c = <<Parse("parse_enum")>> /\ d = <<Parse("parse_global")>>
                              /\ e = <<Parse("parse_extern")>> /\ g = <<GiveUp>>
  OBVIOUS
<1>4. PICK rows : rows = <<On({"fn"}, a), On({"struct"}, b), On({"enum"}, c), On({"let"}, d),
                           On({"extern"}, e), Else(g)>>
  OBVIOUS
<1>5. parse_item.start = rows
  BY <1>3, <1>4 DEF parse_item
<1>6. DOMAIN rows = {1, 2, 3, 4, 5, 6} /\ rows[1].do = a /\ rows[2].do = b /\ rows[3].do = c
      /\ rows[4].do = d /\ rows[5].do = e /\ rows[6].do = g
  BY <1>4 DEF On, Else
<1>7. RowSet(rows) = {a, b, c, d, e, g}
  BY <1>6 DEF RowSet
<1>8. Row("parse_item", "start", kind) \in {a, b, c, d, e, g}
  BY <1>1, <1>2, <1>5, <1>7, RowOf
<1> QED BY <1>3, <1>8 DEF ItemCall

LEMMA ProgramRows ==
  ASSUME NEW kind
  PROVE  Row("parse_program", "start", kind) \in {AtEof, AtItem}
<1>1. Code["parse_program"] = parse_program /\ "parse_program" \in Functions
  BY FunctionsAre DEF Code
<1>2. DOMAIN parse_program = {"start"}
  BY DEF parse_program
<1>3. parse_program.start = <<On({"EOF"}, AtEof), Else(AtItem)>>
  BY DEF parse_program, AtEof, AtItem
<1>4. RowSet(parse_program.start) = {AtEof, AtItem}
  BY <1>3, RowSet2
<1> QED BY <1>1, <1>2, <1>4, RowOf

-----------------------------------------------------------------------------
(* What one task does to its activation *)

\* What a function gives its caller.
Gives(g, tree) ==
  /\ g = "member" => IsSmall(tree)
  /\ g \in Enders \cup {"parse_enum", "parse_item"} => tree = Hole \/ IsItem(tree)

Adds(t, sn, kid) ==
  \/ t[1] \in {"keep", "name", "need name"} /\ kid = <<sn[Len(sn)]>>
  \/ t[1] \in CallWords /\ Gives(t[2], kid) /\ (t[1] = "parse" \/ kid # Hole)

Quiet == {"take", "expect", "need", "complain", "blame", "mark", "progress", "sync"}

\* The tasks that take the place of t, and the children then.
Moves(sn, f, new, kids) ==
  LET t == f.todo[1] IN
  \/ new = <<>> /\ t[1] \in Quiet \cup {"name"} /\ kids = f.kids
  \/ new = <<>> /\ \E kid : Adds(t, sn, kid) /\ kids = Append(f.kids, kid)
  \/ t[1] = "then" /\ new = Row(f.fn, t[2], Kind(sn[Len(sn)])) /\ kids = f.kids
  \/ new = <<>> /\ t[1] = "node" /\ kids = <<Tree(t[2], f.kids)>>
  \/ new = <<>> /\ t[1] = "fold"
  \/ t[1] = "element" /\ new = <<Sync(t[3])>> /\ kids = f.kids

LEMMA ConcatIs ==
  ASSUME NEW p, IsSeq(p), NEW q, IsSeq(q), NEW r, r = p \o q
  PROVE  /\ IsSeq(r) /\ Len(r) = Len(p) + Len(q)
         /\ \A i \in 1 .. Len(p) : r[i] = p[i]
         /\ \A i \in 1 .. Len(q) : r[Len(p) + i] = q[i]
<1>1. PICK S, R : q \in Seq(S) /\ p \in Seq(R)
  BY DEF IsSeq
<1>2. PICK U : U = S \cup R
  OBVIOUS
<1>3. q \in Seq(U) /\ p \in Seq(U)
  BY <1>1, <1>2
<1>4. r \in Seq(U) /\ Len(r) = Len(p) + Len(q)
  BY <1>3
<1>5. \A i \in 1 .. Len(p) : r[i] = p[i]
  BY <1>3
<1>6. ASSUME NEW i \in 1 .. Len(q) PROVE r[Len(p) + i] = q[i]
  <2>1. \A k \in 1 .. Len(r) : r[k] = IF k <= Len(p) THEN p[k] ELSE q[k - Len(p)]
    BY <1>3
  <2>2. Len(p) \in Nat /\ Len(q) \in Nat
    BY <1>3
  <2>3. PICK k : k = Len(p) + i
    OBVIOUS
  <2>4. k \in 1 .. Len(r) /\ ~(k <= Len(p)) /\ k - Len(p) = i
    BY <1>4, <2>2, <2>3
  <2> QED BY <2>1, <2>3, <2>4
<1> QED BY <1>4, <1>5, <1>6 DEF IsSeq

LEMMA TailAfter ==
  ASSUME NEW q, IsSeq(q), q # <<>>, NEW t, t = Tail(q)
  PROVE  IsSeq(t) /\ Len(t) = Len(q) - 1 /\ \A i \in 1 .. Len(q) - 1 : t[i] = q[i + 1]
<1>1. PICK S : q \in Seq(S)
  BY DEF IsSeq
<1>2. t \in Seq(S) /\ Len(t) = Len(q) - 1 /\ \A i \in 1 .. Len(q) - 1 : t[i] = q[i + 1]
  BY <1>1
<1> QED BY <1>2 DEF IsSeq

LEMMA JoinIs ==
  ASSUME NEW q, IsSeq(q), q # <<>>, NEW new, IsSeq(new), NEW r, r = new \o Tail(q)
  PROVE  /\ IsSeq(r) /\ Len(r) = Len(new) + (Len(q) - 1)
         /\ \A i \in 1 .. Len(new) : r[i] = new[i]
         /\ \A i \in 1 .. Len(q) - 1 : r[Len(new) + i] = q[i + 1]
<1>1. PICK t : t = Tail(q)
  OBVIOUS
<1>2. IsSeq(t) /\ Len(t) = Len(q) - 1 /\ \A i \in 1 .. Len(q) - 1 : t[i] = q[i + 1]
  BY <1>1, TailAfter
<1>3. r = new \o t
  BY <1>1
<1>4. IsSeq(r) /\ Len(r) = Len(new) + Len(t)
  BY <1>2, <1>3, ConcatIs
<1>5. \A i \in 1 .. Len(new) : r[i] = new[i]
  BY <1>2, <1>3, ConcatIs
<1>6. \A i \in 1 .. Len(t) : r[Len(new) + i] = t[i]
  BY <1>2, <1>3, ConcatIs
<1> QED BY <1>2, <1>4, <1>5, <1>6

Has(q, e) == \E i \in DOMAIN q : q[i] = e

\* The tasks that are left are those of the row, then those behind t.
LEMMA JoinAmong ==
  ASSUME NEW q, IsSeq(q), q # <<>>, NEW new, IsSeq(new), NEW r, r = new \o Tail(q),
         NEW j \in DOMAIN r
  PROVE  Has(new, r[j]) \/ Has(q, r[j])
<1>1. IsSeq(r) /\ Len(r) = Len(new) + (Len(q) - 1)
  BY JoinIs
<1>2. \A i \in 1 .. Len(new) : r[i] = new[i]
  BY JoinIs
<1>3. \A i \in 1 .. Len(q) - 1 : r[Len(new) + i] = q[i + 1]
  BY JoinIs
<1>4. /\ DOMAIN q = 1 .. Len(q) /\ DOMAIN new = 1 .. Len(new) /\ DOMAIN r = 1 .. Len(r)
      /\ Len(q) \in Nat /\ Len(new) \in Nat /\ Len(r) \in Nat
  BY <1>1, TodoIs
<1>5. CASE j <= Len(new)
  BY <1>2, <1>4, <1>5 DEF Has
<1>6. CASE j > Len(new)
  <2>1. PICK i : i = j - Len(new)
    OBVIOUS
  <2>2. i \in 1 .. Len(q) - 1 /\ i + 1 \in DOMAIN q /\ Len(new) + i = j
    BY <1>1, <1>4, <1>6, <2>1
  <2> QED BY <1>3, <2>2 DEF Has
<1> QED BY <1>4, <1>5, <1>6

LEMMA JoinLast ==
  ASSUME NEW q, IsSeq(q), q # <<>>, NEW new, IsSeq(new), NEW r, r = new \o Tail(q)
  PROVE  /\ Len(q) > 1 => r # <<>> /\ r[Len(r)] = q[Len(q)]
         /\ Len(q) = 1 => r = new
         /\ Len(q) >= 1
<1>1. IsSeq(r) /\ Len(r) = Len(new) + (Len(q) - 1)
  BY JoinIs
<1>2. \A i \in 1 .. Len(q) - 1 : r[Len(new) + i] = q[i + 1]
  BY JoinIs
<1>3. Len(q) \in Nat /\ Len(new) \in Nat /\ Len(r) \in Nat
  BY <1>1, TodoIs
<1>4. PICK S, R : q \in Seq(S) /\ new \in Seq(R)
  BY DEF IsSeq
<1>5. Len(q) >= 1
  BY <1>4
<1>6. ASSUME Len(q) > 1 PROVE r # <<>> /\ r[Len(r)] = q[Len(q)]
  <2>1. PICK i : i = Len(q) - 1
    OBVIOUS
  <2>2. i \in 1 .. Len(q) - 1 /\ Len(new) + i = Len(r) /\ i + 1 = Len(q) /\ Len(r) > 0
    BY <1>1, <1>3, <1>6, <2>1
  <2>3. r # <<>>
    BY <2>2
  <2> QED BY <1>2, <2>2, <2>3
<1>7. ASSUME Len(q) = 1 PROVE r = new
  <2>1. PICK t : t = Tail(q)
    OBVIOUS
  <2>2. t \in Seq(S) /\ Len(t) = 0
    BY <1>4, <1>7, <2>1
  <2>3. t = <<>>
    BY <2>2
  <2>4. r = new \o t
    BY <2>1
  <2>5. new \o <<>> = new
    BY <1>4
  <2> QED BY <2>3, <2>4, <2>5
<1> QED BY <1>5, <1>6, <1>7

LEMMA FirstIs ==
  ASSUME NEW q, IsSeq(q), q # <<>>
  PROVE  1 \in DOMAIN q
<1>1. PICK S : q \in Seq(S)
  BY DEF IsSeq
<1> QED BY <1>1

-----------------------------------------------------------------------------
(* Functions that leave one node *)

\* Only the last task goes on, makes the node or gives up.
LEMMA EndJoin ==
  ASSUME NEW q, IsSeq(q), q # <<>>, EndTodo(q), NEW new, IsSeq(new), NEW r, r = new \o Tail(q),
         \A i \in DOMAIN new : Mild(new[i]), new = <<>> \/ Len(q) > 1 \/ EndTodo(new)
  PROVE  EndTodo(r)
<1>1. \A i \in DOMAIN q : Mild(q[i])
  BY DEF EndTodo
<1>2. ASSUME NEW j \in DOMAIN r PROVE Mild(r[j])
  <2>1. Has(new, r[j]) \/ Has(q, r[j])
    BY JoinAmong
  <2> QED BY <1>1, <2>1 DEF Has
<1>3. PICK n : n = Len(q)
  OBVIOUS
<1>4. n \in Nat /\ n >= 1
  BY <1>3, TodoIs, JoinLast
<1>5. CASE n > 1
  <2>1. r[Len(r)] = q[Len(q)]
    BY <1>3, <1>5, JoinLast
  <2>2. Last(r[Len(r)])
    BY <2>1 DEF EndTodo
  <2> QED BY <1>2, <2>2 DEF EndTodo
<1>6. CASE n = 1
  <2>1. r = new
    BY <1>3, <1>6, JoinLast
  <2>2. new = <<>> \/ EndTodo(new)
    BY <1>3, <1>6
  <2> QED BY <2>1, <2>2 DEF EndTodo
<1>7. n > 1 \/ n = 1
  BY <1>4
<1> QED BY <1>5, <1>6, <1>7

Added(r, q, e) == r = Append(q, e)

LEMMA AddedIs ==
  ASSUME NEW q, IsSeq(q), NEW e, NEW r, Added(r, q, e)
  PROVE  /\ IsSeq(r) /\ r # <<>> /\ DOMAIN r = 1 .. Len(q) + 1 /\ r[Len(q) + 1] = e
         /\ \A i \in DOMAIN q : r[i] = q[i]
<1>1. PICK S : q \in Seq(S)
  BY DEF IsSeq
<1>2. q \in Seq(S \cup {e}) /\ r = Append(q, e)
  BY <1>1 DEF Added
<1>3. r \in Seq(S \cup {e}) /\ r # <<>> /\ DOMAIN r = 1 .. Len(q) + 1 /\ r[Len(q) + 1] = e
  BY <1>2
<1>4. \A i \in DOMAIN q : r[i] = q[i]
  BY <1>2
<1> QED BY <1>3, <1>4 DEF IsSeq

\* A node is its label and its children.
LEMMA NodeIs ==
  ASSUME NEW kids, IsSeq(kids), NEW l, NEW t, t = Tree(l, kids)
  PROVE  /\ IsNode(t) /\ t[1] = l /\ Len(t) = Len(kids) + 1
         /\ \A i \in DOMAIN kids : t[i + 1] = kids[i]
<1>1. PICK h : h = <<l>>
  OBVIOUS
<1>2. h \in Seq({l}) /\ Len(h) = 1 /\ h[1] = l
  BY <1>1
<1>3. t = h \o kids
  BY <1>1 DEF Tree
<1>4. IsSeq(h)
  BY <1>2 DEF IsSeq
<1>5. IsSeq(t) /\ Len(t) = Len(h) + Len(kids)
  BY <1>3, <1>4, ConcatIs
<1>6. \A i \in 1 .. Len(h) : t[i] = h[i]
  BY <1>3, <1>4, ConcatIs
<1>7. \A i \in 1 .. Len(kids) : t[Len(h) + i] = kids[i]
  BY <1>3, <1>4, ConcatIs
<1>8. Len(kids) \in Nat /\ DOMAIN kids = 1 .. Len(kids)
  BY TodoIs
<1>9. Len(t) = Len(kids) + 1 /\ t[1] = l
  BY <1>2, <1>5, <1>6, <1>8
<1>10. \A i \in DOMAIN kids : t[i + 1] = kids[i]
  BY <1>2, <1>7, <1>8
<1> QED BY <1>5, <1>8, <1>9, <1>10 DEF IsNode

LEMMA OneKid ==
  ASSUME NEW t, NEW kids, kids = <<t>>
  PROVE  IsSeq(kids) /\ kids[1] = t /\ DOMAIN kids = {1} /\ Len(kids) = 1
<1>1. kids \in Seq({t}) /\ kids[1] = t /\ DOMAIN kids = {1} /\ Len(kids) = 1
  OBVIOUS
<1> QED BY <1>1 DEF IsSeq

LEMMA NoneIsSeq == IsSeq(<<>>)
<1>1. <<>> \in Seq({})
  OBVIOUS
<1> QED BY <1>1 DEF IsSeq

LEMMA KidsMore ==
  ASSUME NEW sn, NEW f, IsSeq(f.kids), f.todo[1][1] # "fold", NEW new, NEW kids,
         Moves(sn, f, new, kids)
  PROVE  IsSeq(kids)
<1>1. ASSUME NEW kid, kids = Append(f.kids, kid) PROVE IsSeq(kids)
  <2>1. PICK old : old = f.kids
    OBVIOUS
  <2>2. IsSeq(old) /\ Added(kids, old, kid)
    BY <1>1, <2>1 DEF Added
  <2> QED BY <2>2, AddedIs
<1>2. ASSUME NEW l, kids = <<Tree(l, f.kids)>> PROVE IsSeq(kids)
  BY <1>2, OneKid
<1> QED BY <1>1, <1>2 DEF Moves

LEMMA EndMoves ==
  ASSUME NEW sn, NEW f, IsFrame(f), f.todo # <<>>, f.fn \in Enders, EndShape(f),
         f.todo[1][1] = "then" => f.todo[1][2] \in Points(f),
         NEW new, NEW kids, Moves(sn, f, new, kids), NEW m, NEW x, x = After(f, new, kids, m)
  PROVE  EndShape(x)
<1>1. PICK q, t : q = f.todo /\ t = f.todo[1]
  OBVIOUS
<1>2. IsSeq(q) /\ q # <<>> /\ EndTodo(q) /\ IsSeq(f.kids)
  BY <1>1 DEF IsFrame, EndShape
<1>3. PICK r : r = new \o Tail(q)
  OBVIOUS
<1>4. x.todo = r /\ x.kids = kids
  BY <1>1, <1>3 DEF After
<1>5. Mild(t)
  BY <1>1, <1>2, FirstIs DEF EndTodo
<1>6. IsSeq(kids)
  BY <1>1, <1>2, <1>5, KidsMore DEF Mild
<1>7. ASSUME t[1] \notin {"then", "node", "give up"} PROVE Len(q) > 1
  <2>1. PICK n : n = Len(q)
    OBVIOUS
  <2>2. n \in Nat /\ n >= 1
    BY <1>2, <2>1, TodoIs, JoinLast
  <2>3. n # 1
    BY <1>1, <1>2, <1>7, <2>1 DEF EndTodo, Last
  <2>4. n > 1
    BY <2>2, <2>3
  <2> QED BY <2>1, <2>4
<1>8. ASSUME t[1] \notin {"then", "node", "give up"}, IsSeq(new),
             \A i \in DOMAIN new : Mild(new[i])
      PROVE  EndShape(x)
  <2>1. Len(q) > 1
    BY <1>7, <1>8
  <2>2. r # <<>>
    BY <1>2, <1>3, <1>8, <2>1, JoinLast
  <2>3. EndTodo(r)
    BY <1>2, <1>3, <1>8, <2>1, EndJoin
  <2> QED BY <1>4, <1>6, <2>2, <2>3 DEF EndShape
<1>9. PICK e : e = <<>>
  OBVIOUS
<1>10. IsSeq(e) /\ \A i \in DOMAIN e : Mild(e[i])
  <2>1. e \in Seq({}) /\ DOMAIN e = {}
    BY <1>9
  <2> QED BY <2>1 DEF IsSeq
<1>11. ASSUME new = <<>>, t[1] \in Quiet \cup {"name"} PROVE EndShape(x)
  <2>1. t[1] \notin {"then", "node", "give up"}
    BY <1>11 DEF Quiet
  <2> QED BY <1>8, <1>9, <1>10, <1>11, <2>1
<1>12. ASSUME new = <<>>, NEW kid, Adds(t, sn, kid) PROVE EndShape(x)
  <2>1. t[1] \notin {"then", "node", "give up"}
    BY <1>12 DEF Adds, CallWords
  <2> QED BY <1>8, <1>9, <1>10, <1>12, <2>1
<1>13. ASSUME t[1] = "then", new = Row(f.fn, t[2], Kind(sn[Len(sn)])) PROVE EndShape(x)
  <2>1. t[2] \in DOMAIN Code[f.fn]
    BY <1>1, <1>13 DEF Points
  <2>2. Ends(new)
    BY <1>13, <2>1, RowsEnd
  <2>3. IsSeq(new) /\ new # <<>> /\ EndTodo(new)
    BY <2>2 DEF Ends
  <2>4. \A i \in DOMAIN new : Mild(new[i])
    BY <2>3 DEF EndTodo
  <2>5. EndTodo(r)
    BY <1>2, <1>3, <2>3, <2>4, EndJoin
  <2>6. r # <<>>
    <3>1. Len(q) > 1 \/ Len(q) = 1
      <4>1. PICK n : n = Len(q)
        OBVIOUS
      <4>2. n \in Nat /\ n >= 1
        BY <1>2, <4>1, TodoIs, JoinLast
      <4>3. n > 1 \/ n = 1
        BY <4>2
      <4> QED BY <4>1, <4>3
    <3> QED BY <1>2, <1>3, <2>3, <3>1, JoinLast
  <2> QED BY <1>4, <1>6, <2>5, <2>6 DEF EndShape
<1>14. ASSUME new = <<>>, t[1] = "node", kids = <<Tree(t[2], f.kids)>> PROVE EndShape(x)
  <2>1. PICK tree : tree = Tree(t[2], f.kids)
    OBVIOUS
  <2>2. IsNode(tree) /\ tree[1] = t[2]
    BY <1>2, <2>1, NodeIs
  <2>3. IsItem(tree)
    BY <1>5, <1>14, <2>2 DEF IsItem, Mild
  <2>4. kids[1] = tree
    BY <1>14, <2>1, OneKid
  <2>5. EndTodo(r)
    BY <1>2, <1>3, <1>9, <1>10, <1>14, EndJoin
  <2> QED BY <1>4, <1>6, <2>3, <2>4, <2>5 DEF EndShape
<1>15. ASSUME t[1] = "element", new = <<Sync(t[3])>> PROVE EndShape(x)
  <2>1. IsSeq(new) /\ new[1] = Sync(t[3]) /\ DOMAIN new = {1}
    BY <1>15, OneKid
  <2>2. Mild(Sync(t[3]))
    BY DEF Mild, Sync
  <2> QED BY <1>8, <1>15, <2>1, <2>2
<1>16. t[1] # "fold"
  BY <1>5 DEF Mild
<1> QED BY <1>1, <1>11, <1>12, <1>13, <1>14, <1>15, <1>16 DEF Moves

-----------------------------------------------------------------------------
(* An enum *)

LEMMA EnumMoves ==
  ASSUME NEW sn, NEW f, IsFrame(f), f.todo # <<>>, f.fn = "parse_enum", EnumShape(f),
         f.todo[1][1] = "then" => f.todo[1][2] \in Points(f),
         NEW new, NEW kids, Moves(sn, f, new, kids), NEW m, NEW x, x = After(f, new, kids, m)
  PROVE  EnumShape(x)
<1>1. PICK q, t, n : q = f.todo /\ t = f.todo[1] /\ n = Len(q)
  OBVIOUS
<1>2. IsSeq(q) /\ q # <<>> /\ EnumTodo(q) /\ IsSeq(f.kids)
  BY <1>1 DEF IsFrame, EnumShape
<1>3. PICK r : r = new \o Tail(q)
  OBVIOUS
<1>4. x.todo = r /\ x.kids = kids
  BY <1>1, <1>3 DEF After
<1>5. n \in Nat /\ n >= 1 /\ DOMAIN q = 1 .. n
  BY <1>1, <1>2, TodoIs, JoinLast
<1>6. \A i \in DOMAIN f.kids : IsSmall(f.kids[i])
  BY DEF EnumShape
<1>7. ASSUME Outer(t) PROVE n = 1
  <2>1. ~Inner(t)
    BY <1>7 DEF Inner, Outer
  <2>2. ~(1 < n)
    BY <1>1, <1>2, <1>5, <2>1 DEF EnumTodo
  <2> QED BY <1>5, <2>2
<1>8. ASSUME ~Outer(t) PROVE n > 1 /\ Inner(t)
  <2>1. n # 1
    BY <1>1, <1>2, <1>8 DEF EnumTodo
  <2>2. n > 1
    BY <1>5, <2>1
  <2>3. Inner(q[1])
    BY <1>1, <1>2, <1>5, <2>2 DEF EnumTodo
  <2> QED BY <1>1, <2>2, <2>3
<1>9. ASSUME t[1] = "then" PROVE EnumShape(x)
  <2>1. n = 1
    BY <1>7, <1>9 DEF Outer
  <2>2. new = Row(f.fn, t[2], Kind(sn[Len(sn)])) /\ kids = f.kids
    BY <1>1, <1>9 DEF Moves, Quiet, Adds, CallWords
  <2>3. t[2] \in DOMAIN Code["parse_enum"]
    BY <1>1, <1>9 DEF Points
  <2>4. EnumEnds(new)
    BY <2>2, <2>3, EnumRowsEnd
  <2>5. IsSeq(new)
    BY <2>4 DEF EnumEnds
  <2>6. r = new
    BY <1>1, <1>2, <1>3, <2>1, <2>5, JoinLast
  <2> QED BY <1>2, <1>4, <1>6, <2>2, <2>4, <2>6 DEF EnumEnds, EnumShape
<1>10. ASSUME t[1] = "node" PROVE EnumShape(x)
  <2>1. n = 1
    BY <1>7, <1>10 DEF Outer
  <2>2. PICK tree : tree = Tree(t[2], f.kids)
    OBVIOUS
  <2>3. new = <<>> /\ kids = <<tree>>
    BY <1>1, <1>10, <2>2 DEF Moves, Quiet, Adds, CallWords
  <2>4. r = new
    BY <1>1, <1>2, <1>3, <2>1, <2>3, NoneIsSeq, JoinLast
  <2>5. IsSeq(kids) /\ kids[1] = tree
    BY <2>3, OneKid
  <2>6. IsNode(tree) /\ Len(tree) = Len(f.kids) + 1
    BY <1>2, <2>2, NodeIs
  <2>7. \A i \in DOMAIN f.kids : tree[i + 1] = f.kids[i]
    BY <1>2, <2>2, NodeIs
  <2>8. DOMAIN f.kids = 1 .. Len(f.kids) /\ Len(f.kids) \in Nat
    BY <1>2, TodoIs
  <2>9. ASSUME NEW i \in 2 .. Len(tree) PROVE IsSmall(tree[i])
    <3>1. PICK k : k = i - 1
      OBVIOUS
    <3>2. k \in DOMAIN f.kids /\ i = k + 1
      BY <2>6, <2>8, <3>1
    <3> QED BY <1>6, <2>7, <3>2
  <2>10. IsItem(tree)
    BY <2>6, <2>9 DEF IsItem
  <2>11. EnumTodo(r)
    BY <2>4, <2>3 DEF EnumTodo
  <2> QED BY <1>4, <2>4, <2>3, <2>5, <2>10, <2>11 DEF EnumShape
<1>11. ASSUME ~Outer(t) PROVE EnumShape(x)
  <2>1. n > 1 /\ Inner(t)
    BY <1>8, <1>11
  <2>2. t[1] \notin {"then", "node", "fold", "element"}
    <3>1. t[1] \notin {"then", "node", "fold"}
      BY <2>1 DEF Inner
    <3>2. t[1] # "element"
      <4>1. Parse("member")[1] = "parse"
        BY DEF Parse
      <4> QED BY <2>1, <4>1 DEF Inner, CallWords
    <3> QED BY <3>1, <3>2
  <2>3. new = <<>> /\ (kids = f.kids \/ \E kid : Adds(t, sn, kid) /\ kids = Append(f.kids, kid))
    BY <1>1, <2>2 DEF Moves
  <2>4. r = <<>> \o Tail(q)
    BY <1>3, <2>3
  <2>5. IsSeq(r) /\ Len(r) = n - 1
    BY <1>1, <1>2, <2>4, TailIs
  <2>6. \A i \in 1 .. n - 1 : r[i] = q[i + 1]
    BY <1>1, <1>2, <2>4, TailIs
  <2>7. r # <<>> /\ r[Len(r)] = q[n]
    BY <1>1, <1>2, <1>3, <2>1, <2>3, NoneIsSeq, JoinLast
  <2>8. Outer(r[Len(r)])
    BY <1>1, <1>2, <2>7 DEF EnumTodo
  <2>9. ASSUME NEW j \in DOMAIN r, j < Len(r) PROVE Inner(r[j])
    <3>1. j \in 1 .. n - 1 /\ j + 1 \in DOMAIN q /\ j + 1 < n
      BY <1>5, <2>5, <2>9, TodoIs
    <3>2. Inner(q[j + 1])
      BY <1>1, <1>2, <3>1 DEF EnumTodo
    <3> QED BY <2>6, <3>1, <3>2
  <2>10. EnumTodo(r)
    BY <2>8, <2>9 DEF EnumTodo
  <2>11. ASSUME NEW kid, Adds(t, sn, kid) PROVE IsSmall(kid)
    <3>1. CASE kid = <<sn[Len(sn)]>>
      BY <3>1, OneKid DEF IsSmall, IsNode
    <3>2. CASE t[1] \in CallWords /\ Gives(t[2], kid)
      <4>1. t[2] = "member"
        BY <2>1, <3>2 DEF Inner, Parse
      <4> QED BY <3>2, <4>1 DEF Gives
    <3> QED BY <2>11, <3>1, <3>2 DEF Adds
  <2>12. IsSeq(kids) /\ \A i \in DOMAIN kids : IsSmall(kids[i])
    <3>1. CASE kids = f.kids
      BY <1>2, <1>6, <3>1
    <3>2. ASSUME NEW kid, Adds(t, sn, kid), kids = Append(f.kids, kid)
          PROVE  IsSeq(kids) /\ \A i \in DOMAIN kids : IsSmall(kids[i])
      <4>1. IsSmall(kid)
        BY <2>11, <3>2
      <4>2. PICK old : old = f.kids
        OBVIOUS
      <4>3. IsSeq(old) /\ kids = Append(old, kid)
        BY <1>2, <3>2, <4>2
      <4>4. Added(kids, old, kid)
        BY <4>3 DEF Added
      <4>5. IsSeq(kids) /\ DOMAIN kids = 1 .. Len(old) + 1 /\ kids[Len(old) + 1] = kid
        BY <4>3, <4>4, AddedIs
      <4>6. \A i \in DOMAIN old : kids[i] = old[i]
        BY <4>3, <4>4, AddedIs
      <4>7. DOMAIN old = 1 .. Len(old) /\ Len(old) \in Nat
        BY <4>3, TodoIs
      <4>8. \A i \in DOMAIN kids : i \in DOMAIN old \/ i = Len(old) + 1
        BY <4>5, <4>7
      <4> QED BY <1>6, <4>1, <4>2, <4>5, <4>6, <4>8
    <3> QED BY <2>3, <3>1, <3>2
  <2> QED BY <1>4, <2>7, <2>10, <2>12 DEF EnumShape
<1> QED BY <1>9, <1>10, <1>11 DEF Outer

-----------------------------------------------------------------------------
(* A member, an item and the program *)

LEMMA SameSeq ==
  ASSUME NEW p, IsSeq(p), NEW q, IsSeq(q), Len(p) = Len(q), \A i \in 1 .. Len(p) : p[i] = q[i]
  PROVE  p = q
<1>1. PICK S, R : p \in Seq(S) /\ q \in Seq(R)
  BY DEF IsSeq
<1>2. PICK U : U = S \cup R
  OBVIOUS
<1>3. p \in Seq(U) /\ q \in Seq(U)
  BY <1>1, <1>2
<1> QED BY <1>3

LEMMA NoneBefore == ASSUME NEW q, IsSeq(q) PROVE <<>> \o q = q
<1>1. PICK S : q \in Seq(S)
  BY DEF IsSeq
<1> QED BY <1>1

LEMMA After1 ==
  ASSUME NEW a, NEW q, q = <<a>>, NEW new, IsSeq(new)
  PROVE  new \o Tail(q) = new
<1>1. IsSeq(q) /\ Len(q) = 1 /\ q # <<>>
  BY OneKid
<1>2. PICK r : r = new \o Tail(q)
  OBVIOUS
<1>3. r = new
  BY <1>1, <1>2, JoinLast
<1> QED BY <1>2, <1>3

Pair(q, a, b) == q = <<a, b>>

LEMMA PairHead ==
  ASSUME NEW a, NEW b, NEW q, Pair(q, a, b), NEW e
  PROVE  <<>> \o Tail(q) = <<b>> /\ Pair(Tree(e, Tail(q)), e, b)
<1>1. q = <<a, b>>
  BY DEF Pair
<1>2. PICK t : t = <<b>>
  OBVIOUS
<1>3. PICK z : z = <<e, b>>
  OBVIOUS
<1>4. PICK r : r = Tree(e, t)
  OBVIOUS
<1>5. Tail(q) = t
  BY <1>2, <1>1
<1>6. Len(t) = 1 /\ DOMAIN t = {1} /\ t[1] = b
  BY <1>2, OneKid
<1>7. IsSeq(t)
  BY <1>2, OneKid
<1>8. <<>> \o t = t
  BY <1>7, NoneBefore
<1>9. IsNode(r) /\ r[1] = e /\ Len(r) = Len(t) + 1
  BY <1>4, <1>7, NodeIs
<1>10. \A i \in DOMAIN t : r[i + 1] = t[i]
  BY <1>4, <1>7, NodeIs
<1>11. IsSeq(r) /\ Len(r) = 2 /\ r[1] = e /\ r[2] = b
  BY <1>6, <1>9, <1>10 DEF IsNode
<1>12. z \in Seq({e, b}) /\ Len(z) = 2 /\ z[1] = e /\ z[2] = b
  BY <1>3
<1>13. IsSeq(z) /\ Len(r) = Len(z) /\ \A i \in 1 .. Len(r) : r[i] = z[i]
  BY <1>11, <1>12 DEF IsSeq
<1>14. r = z
  BY <1>11, <1>13, SameSeq
<1> QED BY <1>2, <1>3, <1>4, <1>5, <1>8, <1>14 DEF Pair

LEMMA After2 ==
  ASSUME NEW a, NEW b, NEW q, q = <<a, b>>, NEW e
  PROVE  <<>> \o Tail(q) = <<b>> /\ Tree(e, Tail(q)) = <<e, b>>
<1>1. Pair(q, a, b)
  BY DEF Pair
<1>2. <<>> \o Tail(q) = <<b>> /\ Pair(Tree(e, Tail(q)), e, b)
  BY <1>1, PairHead
<1> QED BY <1>2 DEF Pair

LEMMA After3 ==
  ASSUME NEW a, NEW b, NEW c, NEW q, q = <<a, b, c>>
  PROVE  <<>> \o Tail(q) = <<b, c>>
<1>1. PICK t : t = <<b, c>>
  OBVIOUS
<1>2. Tail(q) = t
  BY <1>1
<1>3. t \in Seq({b, c})
  BY <1>1
<1>4. IsSeq(t)
  BY <1>3 DEF IsSeq
<1>5. <<>> \o t = t
  BY <1>4, NoneBefore
<1> QED BY <1>1, <1>2, <1>5

\* A sequence is its head before its tail.
LEMMA HeadTail ==
  ASSUME NEW z, IsSeq(z), z # <<>>
  PROVE  Tree(z[1], Tail(z)) = z
<1>1. PICK t : t = Tail(z)
  OBVIOUS
<1>2. IsSeq(t) /\ Len(t) = Len(z) - 1
  BY <1>1, TailAfter
<1>3. \A i \in 1 .. Len(z) - 1 : t[i] = z[i + 1]
  BY <1>1, TailAfter
<1>4. PICK e : e = z[1]
  OBVIOUS
<1>5. PICK r : r = Tree(e, t)
  OBVIOUS
<1>6. IsNode(r) /\ r[1] = e /\ Len(r) = Len(t) + 1
  BY <1>2, <1>5, NodeIs
<1>7. \A i \in DOMAIN t : r[i + 1] = t[i]
  BY <1>2, <1>5, NodeIs
<1>8. PICK n : n = Len(z)
  OBVIOUS
<1>9. n \in Nat /\ DOMAIN t = 1 .. n - 1
  BY <1>2, <1>8, TodoIs
<1>10. IsSeq(r) /\ Len(r) = n
  BY <1>2, <1>6, <1>8, <1>9 DEF IsNode
<1>11. ASSUME NEW i \in 1 .. n PROVE r[i] = z[i]
  <2>1. CASE i = 1
    BY <1>4, <1>6, <2>1
  <2>2. CASE i # 1
    <3>1. PICK k : k = i - 1
      OBVIOUS
    <3>2. k \in 1 .. n - 1 /\ i = k + 1
      BY <1>9, <2>2, <3>1
    <3> QED BY <1>3, <1>7, <1>8, <1>9, <3>2
  <2> QED BY <2>1, <2>2
<1>12. r = z
  BY <1>8, <1>10, <1>11, SameSeq
<1> QED BY <1>1, <1>4, <1>5, <1>12


\* What a move is, by its task.
LEMMA QuietMoves ==
  ASSUME NEW sn, NEW f, NEW new, NEW kids, Moves(sn, f, new, kids),
         f.todo[1][1] \in Quiet
  PROVE  new = <<>> /\ kids = f.kids
BY DEF Moves, Quiet, Adds, CallWords

LEMMA KeepMoves ==
  ASSUME NEW sn, NEW f, NEW new, NEW kids, Moves(sn, f, new, kids),
         f.todo[1][1] = "keep"
  PROVE  new = <<>> /\ kids = Append(f.kids, <<sn[Len(sn)]>>)
BY DEF Moves, Quiet, Adds, CallWords

LEMMA ThenMoves ==
  ASSUME NEW sn, NEW f, NEW new, NEW kids, Moves(sn, f, new, kids),
         f.todo[1][1] = "then"
  PROVE  new = Row(f.fn, f.todo[1][2], Kind(sn[Len(sn)])) /\ kids = f.kids
BY DEF Moves, Quiet, Adds, CallWords

LEMMA NodeMoves ==
  ASSUME NEW sn, NEW f, NEW new, NEW kids, Moves(sn, f, new, kids),
         f.todo[1][1] = "node"
  PROVE  new = <<>> /\ kids = <<Tree(f.todo[1][2], f.kids)>>
BY DEF Moves, Quiet, Adds, CallWords

LEMMA CallMoves ==
  ASSUME NEW sn, NEW f, NEW new, NEW kids, Moves(sn, f, new, kids),
         f.todo[1][1] \in CallWords
  PROVE  \/ /\ new = <<>>
            /\ \E kid : /\ Gives(f.todo[1][2], kid) /\ (f.todo[1][1] = "parse" \/ kid # Hole)
                        /\ kids = Append(f.kids, kid)
         \/ f.todo[1][1] = "element" /\ new = <<Sync(f.todo[1][3])>> /\ kids = f.kids
BY DEF Moves, Quiet, Adds, CallWords

LEMMA NeverGivesUp ==
  ASSUME NEW sn, NEW f, NEW new, NEW kids, Moves(sn, f, new, kids)
  PROVE  f.todo[1][1] # "give up"
BY DEF Moves, Quiet, Adds, CallWords

LEMMA IntIs == ASSUME NEW t, Kind(t) = "INT" PROVE t \in IntLit
BY DEF Kind, Class

LEMMA MemberTasks ==
  /\ AtName[1][1] = "keep" /\ <<>> \o Tail(AtName) = AtValue
  /\ AtValue[1][1] = "then" /\ AtValue[1][2] = "value"
  /\ AtEquals[1][1] = "take" /\ <<>> \o Tail(AtEquals) = AtInt
  /\ AtInt[1][1] = "then" /\ AtInt[1][2] = "int"
  /\ Tree(Keep, Tail(AtInt)) = AtNumber /\ Tree(Complain, Tail(AtInt)) = AtOther
  /\ AtNumber[1][1] = "keep" /\ <<>> \o Tail(AtNumber) = AtEnd
  /\ AtOther[1][1] = "complain" /\ <<>> \o Tail(AtOther) = AtEnd
  /\ AtEnd[1][1] = "node" /\ AtEnd[1][2] = "EnumItem"
  /\ IsSeq(AtEquals) /\ IsSeq(AtEnd)
<1>1. AtName[1][1] = "keep" /\ <<>> \o Tail(AtName) = AtValue
  BY After2 DEF AtName, AtValue, Keep
<1>2. AtValue[1][1] = "then" /\ AtValue[1][2] = "value"
  BY DEF AtValue, Then
<1>3. AtEquals[1][1] = "take" /\ <<>> \o Tail(AtEquals) = AtInt
  BY After3 DEF AtEquals, AtInt, Take
<1>4. AtInt[1][1] = "then" /\ AtInt[1][2] = "int"
  BY DEF AtInt, Then
<1>5. Tree(Keep, Tail(AtInt)) = AtNumber /\ Tree(Complain, Tail(AtInt)) = AtOther
  <2>1. PICK a, b, k, c : a = Then("int") /\ b = MemberEnd /\ k = Keep /\ c = Complain
    OBVIOUS
  <2>2. PICK q : q = <<a, b>>
    OBVIOUS
  <2>3. Pair(q, a, b)
    BY <2>2 DEF Pair
  <2>4. Pair(Tree(k, Tail(q)), k, b)
    BY <2>3, PairHead
  <2>5. Pair(Tree(c, Tail(q)), c, b)
    BY <2>3, PairHead
  <2>6. Tree(k, Tail(q)) = <<k, b>>
    BY <2>4 DEF Pair
  <2>7. Tree(c, Tail(q)) = <<c, b>>
    BY <2>5 DEF Pair
  <2> QED BY <2>1, <2>2, <2>6, <2>7 DEF AtInt, AtNumber, AtOther
<1>6. AtNumber[1][1] = "keep" /\ <<>> \o Tail(AtNumber) = AtEnd
  BY After2 DEF AtNumber, AtEnd, Keep
<1>7. AtOther[1][1] = "complain" /\ <<>> \o Tail(AtOther) = AtEnd
  BY After2 DEF AtOther, AtEnd, Complain
<1>8. AtEnd[1][1] = "node" /\ AtEnd[1][2] = "EnumItem"
  BY DEF AtEnd, MemberEnd, Node
<1>9. IsSeq(AtEquals) /\ IsSeq(AtEnd)
  <2>1. AtEquals \in Seq({Take, Then("int"), MemberEnd}) /\ AtEnd \in Seq({MemberEnd})
    BY DEF AtEquals, AtEnd
  <2> QED BY <2>1 DEF IsSeq
<1> QED BY <1>1, <1>2, <1>3, <1>4, <1>5, <1>6, <1>7, <1>8, <1>9

LEMMA GetsAdded ==
  ASSUME NEW old, IsSeq(old), NEW kid, NEW kids, Added(kids, old, kid)
  PROVE  /\ IsSeq(kids) /\ Len(kids) = Len(old) + 1 /\ kids[Len(old) + 1] = kid
         /\ \A i \in DOMAIN kids : (i \in DOMAIN old /\ kids[i] = old[i]) \/ kids[i] = kid
<1>1. IsSeq(kids) /\ DOMAIN kids = 1 .. Len(old) + 1 /\ kids[Len(old) + 1] = kid
  BY AddedIs
<1>2. \A i \in DOMAIN old : kids[i] = old[i]
  BY AddedIs
<1>3. DOMAIN old = 1 .. Len(old) /\ Len(old) \in Nat /\ DOMAIN kids = 1 .. Len(kids)
      /\ Len(kids) \in Nat
  BY <1>1, TodoIs
<1>4. Len(kids) = Len(old) + 1
  <2>1. PICK n, k : n = Len(kids) /\ k = Len(old) + 1
    OBVIOUS
  <2>2. 1 .. n = 1 .. k /\ n \in Nat /\ k \in Nat /\ k >= 1
    BY <1>1, <1>3, <2>1
  <2>3. k \in 1 .. n /\ (n >= 1 => n \in 1 .. k)
    BY <2>2
  <2>4. n = k
    BY <2>2, <2>3
  <2> QED BY <2>1, <2>4
<1>5. \A i \in DOMAIN kids : i \in DOMAIN old \/ i = Len(old) + 1
  BY <1>1, <1>3
<1> QED BY <1>1, <1>2, <1>4, <1>5

LEMMA GetsOne ==
  ASSUME NEW old, IsSeq(old), NEW kid, NEW kids, kids = Append(old, kid)
  PROVE  /\ IsSeq(kids) /\ Len(kids) = Len(old) + 1 /\ kids[Len(old) + 1] = kid
         /\ \A i \in DOMAIN kids : (i \in DOMAIN old /\ kids[i] = old[i]) \/ kids[i] = kid
<1>1. Added(kids, old, kid)
  BY DEF Added
<1> QED BY <1>1, GetsAdded

LEMMA MemberMoves ==
  ASSUME NEW sn, NEW f, IsFrame(f), f.todo # <<>>, f.fn = "member", MemberShape(sn, f),
         NEW new, NEW kids, Moves(sn, f, new, kids), NEW m, NEW x, x = After(f, new, kids, m),
         NEW sn2, f.todo[1][1] = "then" => sn2 = sn
  PROVE  MemberShape(sn2, x)
<1>1. PICK q, t, old, last : q = f.todo /\ t = f.todo[1] /\ old = f.kids /\ last = sn[Len(sn)]
  OBVIOUS
<1>2. PICK r : r = new \o Tail(q)
  OBVIOUS
<1>3. x.todo = r /\ x.kids = kids
  BY <1>1, <1>2 DEF After
<1>4. IsSeq(old) /\ MemberTodo(last, q, old)
  BY <1>1 DEF MemberShape
<1>5. ASSUME IsSeq(kids), MemberTodo(sn2[Len(sn2)], r, kids) PROVE MemberShape(sn2, x)
  BY <1>3, <1>5 DEF MemberShape
<1>6. CASE Len(old) = 0 /\ q = AtName
  <2>1. f.todo[1][1] = "keep"
    BY <1>1, <1>6, MemberTasks
  <2>2. new = <<>> /\ kids = Append(old, <<last>>)
    BY <1>1, <2>1, KeepMoves
  <2>3. r = AtValue
    BY <1>2, <1>6, <2>2, MemberTasks
  <2>4. IsSeq(kids) /\ Len(kids) = Len(old) + 1
    BY <1>4, <2>2, GetsOne
  <2>5. Len(kids) = 1
    BY <1>6, <2>4
  <2> QED BY <1>5, <2>3, <2>4, <2>5 DEF MemberTodo
<1>7. CASE Len(old) = 1 /\ q = AtValue
  <2>1. f.todo[1][1] = "then" /\ f.todo[1][2] = "value"
    BY <1>1, <1>7, MemberTasks
  <2>2. new = Row("member", "value", Kind(sn[Len(sn)])) /\ kids = old
    BY <1>1, <2>1, ThenMoves
  <2>3. new \in {AtEquals, AtEnd}
    BY <2>2, MemberRows
  <2>4. IsSeq(new)
    BY <2>3, MemberTasks
  <2>5. r = new
    BY <1>2, <1>7, <2>4, After1 DEF AtValue
  <2> QED BY <1>4, <1>5, <1>7, <2>2, <2>3, <2>5 DEF MemberTodo
<1>8. CASE Len(old) = 1 /\ q = AtEquals
  <2>1. f.todo[1][1] = "take"
    BY <1>1, <1>8, MemberTasks
  <2>2. f.todo[1][1] \in Quiet
    BY <2>1 DEF Quiet
  <2>3. new = <<>> /\ kids = old
    BY <1>1, <2>2, QuietMoves
  <2>4. r = AtInt
    BY <1>2, <1>8, <2>3, MemberTasks
  <2> QED BY <1>4, <1>5, <1>8, <2>3, <2>4 DEF MemberTodo
<1>9. CASE Len(old) = 1 /\ q = AtInt
  <2>1. f.todo[1][1] = "then" /\ f.todo[1][2] = "int"
    BY <1>1, <1>9, MemberTasks
  <2>2. new = Row("member", "int", Kind(last)) /\ kids = old
    BY <1>1, <2>1, ThenMoves
  <2>3. sn2 = sn
    BY <2>1
  <2>4. \/ new = <<Keep>> /\ Kind(last) = "INT"
        \/ new = <<Complain>>
    BY <2>2, MemberRows
  <2>5. \/ r = AtNumber /\ Kind(last) = "INT"
        \/ r = AtOther
    BY <1>2, <1>9, <2>4, MemberTasks DEF Tree
  <2> QED BY <1>1, <1>4, <1>5, <1>9, <2>2, <2>3, <2>5 DEF MemberTodo
<1>10. CASE Len(old) = 1 /\ q = AtOther
  <2>1. f.todo[1][1] = "complain"
    BY <1>1, <1>10, MemberTasks
  <2>2. f.todo[1][1] \in Quiet
    BY <2>1 DEF Quiet
  <2>3. new = <<>> /\ kids = old
    BY <1>1, <2>2, QuietMoves
  <2>4. r = AtEnd
    BY <1>2, <1>10, <2>3, MemberTasks
  <2> QED BY <1>4, <1>5, <1>10, <2>3, <2>4 DEF MemberTodo
<1>11. CASE Len(old) = 1 /\ q = AtNumber /\ Kind(last) = "INT"
  <2>1. f.todo[1][1] = "keep"
    BY <1>1, <1>11, MemberTasks
  <2>2. PICK kid : kid = <<last>>
    OBVIOUS
  <2>3. new = <<>> /\ kids = Append(old, kid)
    BY <1>1, <2>1, <2>2, KeepMoves
  <2>4. r = AtEnd
    BY <1>2, <1>11, <2>3, MemberTasks
  <2>5. Added(kids, old, kid)
    BY <2>3 DEF Added
  <2>6. IsSeq(kids) /\ Len(kids) = Len(old) + 1 /\ kids[Len(old) + 1] = kid
    BY <1>4, <2>5, GetsAdded
  <2>7. Len(kids) = 2 /\ kids[2] = kid
    BY <1>11, <2>6
  <2>8. kid[1] \in IntLit
    BY <1>11, <2>2, IntIs
  <2> QED BY <1>5, <2>4, <2>6, <2>7, <2>8 DEF MemberTodo
<1>12. CASE q = AtEnd /\ (Len(old) = 1 \/ (Len(old) = 2 /\ old[2][1] \in IntLit))
  <2>1. f.todo[1][1] = "node" /\ f.todo[1][2] = "EnumItem"
    BY <1>1, <1>12, MemberTasks
  <2>2. PICK tree : tree = Tree("EnumItem", old)
    OBVIOUS
  <2>3. new = <<>> /\ kids = <<tree>>
    BY <1>1, <2>1, <2>2, NodeMoves
  <2>4. r = <<>>
    BY <1>2, <1>12, <2>3, NoneIsSeq, After1 DEF AtEnd
  <2>5. IsSeq(kids) /\ Len(kids) = 1 /\ kids[1] = tree
    BY <2>3, OneKid
  <2>6. IsNode(tree) /\ Len(tree) = Len(old) + 1
    BY <1>4, <2>2, NodeIs
  <2>7. \A i \in DOMAIN old : tree[i + 1] = old[i]
    BY <1>4, <2>2, NodeIs
  <2>8. DOMAIN old = 1 .. Len(old)
    BY <1>4, TodoIs
  <2>9. Len(old) = 2 => tree[3] = old[2]
    BY <2>7, <2>8
  <2>10. IsSmall(tree)
    <3>1. CASE Len(old) = 1
      <4>1. Len(tree) = 2
        BY <2>6, <3>1
      <4>2. Len(tree) # 3
        BY <4>1
      <4> QED BY <2>6, <4>2 DEF IsSmall
    <3>2. CASE Len(old) = 2 /\ old[2][1] \in IntLit
      <4>1. tree[3][1] \in IntLit
        BY <2>9, <3>2
      <4> QED BY <2>6, <4>1 DEF IsSmall
    <3> QED BY <1>12, <3>1, <3>2
  <2> QED BY <1>5, <2>4, <2>5, <2>10 DEF MemberTodo
<1>13. q # <<>>
  BY <1>1
<1>14. \/ Len(old) = 0 /\ q = AtName
       \/ Len(old) = 1 /\ q = AtValue
       \/ Len(old) = 1 /\ q = AtEquals
       \/ Len(old) = 1 /\ q = AtInt
       \/ Len(old) = 1 /\ q = AtOther
       \/ Len(old) = 1 /\ q = AtNumber /\ Kind(last) = "INT"
       \/ q = AtEnd /\ (Len(old) = 1 \/ (Len(old) = 2 /\ old[2][1] \in IntLit))
  BY <1>4, <1>13 DEF MemberTodo
<1> QED BY <1>6, <1>7, <1>8, <1>9, <1>10, <1>11, <1>12, <1>14

LEMMA ItemTasks ==
  /\ <<GiveUp>>[1][1] = "give up"
  /\ \A c \in ItemCall :
       /\ <<c>>[1] = c /\ c[1] \in CallWords /\ c[1] # "element"
       /\ c[2] \in Enders \cup {"parse_enum"}
<1>1. <<GiveUp>>[1][1] = "give up"
  BY DEF GiveUp
<1>2. ASSUME NEW c \in ItemCall
      PROVE  /\ c[1] \in CallWords /\ c[1] # "element"
             /\ c[2] \in Enders \cup {"parse_enum"}
  <2>1. \E f \in Enders \cup {"parse_enum"} : c = NeedTree(f) \/ c = Parse(f)
    BY <1>2 DEF ItemCall, Enders
  <2>2. PICK f \in Enders \cup {"parse_enum"} : c = NeedTree(f) \/ c = Parse(f)
    BY <2>1
  <2>3. ASSUME c = NeedTree(f) PROVE c[1] = "need tree" /\ c[2] = f
    BY <2>3 DEF NeedTree
  <2>4. ASSUME c = Parse(f) PROVE c[1] = "parse" /\ c[2] = f
    BY <2>4 DEF Parse
  <2>5. (c[1] = "need tree" \/ c[1] = "parse") /\ c[2] = f
    BY <2>2, <2>3, <2>4
  <2> QED BY <2>5 DEF CallWords
<1>3. \A c \in ItemCall : <<c>>[1] = c
  OBVIOUS
<1> QED BY <1>1, <1>2, <1>3

LEMMA ItemMoves ==
  ASSUME NEW sn, NEW f, IsFrame(f), f.todo # <<>>, f.fn = "parse_item", ItemShape(f),
         NEW new, NEW kids, Moves(sn, f, new, kids), NEW m, NEW x, x = After(f, new, kids, m)
  PROVE  ItemShape(x)
<1>1. PICK q, old : q = f.todo /\ old = f.kids
  OBVIOUS
<1>2. x.todo = new \o Tail(q) /\ x.kids = kids
  BY <1>1 DEF After
<1>3. old = <<>> /\ (q = <<GiveUp>> \/ \E c \in ItemCall : q = <<c>>)
  BY <1>1 DEF ItemShape
<1>4. IsSeq(old)
  BY <1>1 DEF ItemShape
<1>5. f.todo[1][1] # "give up"
  BY NeverGivesUp
<1>6. PICK c \in ItemCall : q = <<c>>
  BY <1>1, <1>3, <1>5, ItemTasks
<1>7. f.todo[1] = c
  <2>1. <<c>>[1] = c
    OBVIOUS
  <2> QED BY <1>1, <1>6, <2>1
<1>8. f.todo[1][1] \in CallWords /\ f.todo[1][1] # "element"
      /\ f.todo[1][2] \in Enders \cup {"parse_enum"}
  BY <1>7, ItemTasks
<1>9. new = <<>> /\ \E kid : Gives(f.todo[1][2], kid) /\ kids = Append(old, kid)
  BY <1>1, <1>8, CallMoves
<1>10. PICK kid : Gives(f.todo[1][2], kid) /\ kids = Append(old, kid)
  BY <1>9
<1>11. kid = Hole \/ IsItem(kid)
  BY <1>8, <1>10 DEF Gives
<1>12. Added(kids, old, kid)
  BY <1>10 DEF Added
<1>13. IsSeq(kids) /\ kids[Len(old) + 1] = kid
  BY <1>4, <1>12, GetsAdded
<1>14. kids[1] = kid
  BY <1>3, <1>13
<1>15. new \o Tail(q) = new
  BY <1>6, <1>9, NoneIsSeq, After1
<1> QED BY <1>2, <1>9, <1>11, <1>13, <1>14, <1>15 DEF ItemShape

LEMMA ProgramTasks ==
  /\ AtStart[1][1] = "then" /\ AtStart[1][2] = "start"
  /\ AtEof[1][1] = "node" /\ AtEof[1][2] = "Program"
  /\ AtItem[1][1] = "element" /\ AtItem[1][2] = "parse_item" /\ AtItem[1][3] = "sync_item"
  /\ <<>> \o Tail(AtItem) = AtProgress /\ Tree(Sync("sync_item"), Tail(AtItem)) = AtSync
  /\ AtSync[1][1] = "sync" /\ <<>> \o Tail(AtSync) = AtProgress
  /\ AtProgress[1][1] = "progress" /\ <<>> \o Tail(AtProgress) = AtStart
  /\ IsSeq(AtEof) /\ IsSeq(AtItem)
<1>1. AtStart[1][1] = "then" /\ AtStart[1][2] = "start"
  BY DEF AtStart, Then
<1>2. AtEof[1][1] = "node" /\ AtEof[1][2] = "Program"
  BY DEF AtEof, Node
<1>3. AtItem[1][1] = "element" /\ AtItem[1][2] = "parse_item" /\ AtItem[1][3] = "sync_item"
  BY DEF AtItem, Element
<1>4. <<>> \o Tail(AtItem) = AtProgress
  BY After3 DEF AtItem, AtProgress
<1>5. Tree(Sync("sync_item"), Tail(AtItem)) = AtSync
  <2>1. Tail(AtSync) = Tail(AtItem)
    BY DEF AtSync, AtItem
  <2>2. PICK a, b, c : a = Sync("sync_item") /\ b = Progress /\ c = Then("start")
    OBVIOUS
  <2>3. PICK q : q = <<a, b, c>>
    OBVIOUS
  <2>4. q \in Seq({a, b, c}) /\ q # <<>> /\ q[1] = a
    BY <2>3
  <2>5. Tree(q[1], Tail(q)) = q
    BY <2>4, HeadTail DEF IsSeq
  <2>6. q = AtSync
    BY <2>2, <2>3 DEF AtSync
  <2> QED BY <2>1, <2>2, <2>4, <2>5, <2>6
<1>6. AtSync[1][1] = "sync" /\ <<>> \o Tail(AtSync) = AtProgress
  BY After3 DEF AtSync, AtProgress, Sync
<1>7. AtProgress[1][1] = "progress" /\ <<>> \o Tail(AtProgress) = AtStart
  BY After2 DEF AtProgress, AtStart, Progress
<1>8. IsSeq(AtEof) /\ IsSeq(AtItem)
  <2>1. /\ AtEof \in Seq({Node("Program")})
        /\ AtItem \in Seq({Element("parse_item", "sync_item"), Progress, Then("start")})
    BY DEF AtEof, AtItem
  <2> QED BY <2>1 DEF IsSeq
<1> QED BY <1>1, <1>2, <1>3, <1>4, <1>5, <1>6, <1>7, <1>8

\* The children of a program are items.
Listed(kids) == IsSeq(kids) /\ \A i \in DOMAIN kids : IsItem(kids[i])

LEMMA ProgramMoves ==
  ASSUME NEW sn, NEW f, IsFrame(f), f.todo # <<>>, f.fn = "parse_program", ProgramShape(f),
         NEW new, NEW kids, Moves(sn, f, new, kids), NEW m, NEW x, x = After(f, new, kids, m)
  PROVE  ProgramShape(x)
<1>1. PICK q, old : q = f.todo /\ old = f.kids
  OBVIOUS
<1>2. PICK r : r = new \o Tail(q)
  OBVIOUS
<1>3. x.todo = r /\ x.kids = kids
  BY <1>1, <1>2 DEF After
<1>4. Listed(old) /\ q \in ProgramTodo
  BY <1>1 DEF ProgramShape, Listed
<1>5. ASSUME Listed(kids), r \in ProgramTodo PROVE ProgramShape(x)
  BY <1>3, <1>5 DEF ProgramShape, Listed
<1>6. CASE q = AtStart
  <2>1. f.todo[1][1] = "then" /\ f.todo[1][2] = "start"
    BY <1>1, <1>6, ProgramTasks
  <2>2. new = Row("parse_program", "start", Kind(sn[Len(sn)])) /\ kids = old
    BY <1>1, <2>1, ThenMoves
  <2>3. new \in {AtEof, AtItem}
    BY <2>2, ProgramRows
  <2>4. IsSeq(new)
    BY <2>3, ProgramTasks
  <2>5. r = new
    BY <1>2, <1>6, <2>4, After1 DEF AtStart
  <2> QED BY <1>4, <1>5, <2>2, <2>3, <2>5 DEF ProgramTodo
<1>7. CASE q = AtEof
  <2>1. f.todo[1][1] = "node" /\ f.todo[1][2] = "Program"
    BY <1>1, <1>7, ProgramTasks
  <2>2. PICK tree : tree = Tree("Program", old)
    OBVIOUS
  <2>3. new = <<>> /\ kids = <<tree>>
    BY <1>1, <2>1, <2>2, NodeMoves
  <2>4. r = <<>>
    BY <1>2, <1>7, <2>3, NoneIsSeq, After1 DEF AtEof
  <2>5. IsSeq(kids) /\ kids[1] = tree
    BY <2>3, OneKid
  <2>6. IsSeq(old) /\ \A i \in DOMAIN old : IsItem(old[i])
    BY <1>4 DEF Listed
  <2>7. IsNode(tree) /\ Len(tree) = Len(old) + 1
    BY <2>2, <2>6, NodeIs
  <2>8. \A i \in DOMAIN old : tree[i + 1] = old[i]
    BY <2>2, <2>6, NodeIs
  <2>9. DOMAIN old = 1 .. Len(old) /\ Len(old) \in Nat
    BY <2>6, TodoIs
  <2>10. ASSUME NEW i \in 2 .. Len(tree) PROVE IsItem(tree[i])
    <3>1. PICK k : k = i - 1
      OBVIOUS
    <3>2. k \in DOMAIN old /\ i = k + 1
      BY <2>7, <2>9, <3>1
    <3> QED BY <2>6, <2>8, <3>2
  <2>11. IsProg(tree)
    BY <2>7, <2>10 DEF IsProg
  <2> QED BY <1>3, <2>4, <2>5, <2>11 DEF ProgramShape
<1>8. CASE q = AtItem
  <2>1. f.todo[1][1] = "element" /\ f.todo[1][2] = "parse_item" /\ f.todo[1][3] = "sync_item"
    BY <1>1, <1>8, ProgramTasks
  <2>2. f.todo[1][1] \in CallWords
    BY <2>1 DEF CallWords
  <2>3. \/ new = <<>> /\ \E kid : /\ Gives(f.todo[1][2], kid) /\ kid # Hole
                                  /\ kids = Append(old, kid)
        \/ new = <<Sync(f.todo[1][3])>> /\ kids = old
    BY <1>1, <2>1, <2>2, CallMoves
  <2>4. CASE new = <<Sync(f.todo[1][3])>> /\ kids = old
    <3>1. r = AtSync
      BY <1>2, <1>8, <2>1, <2>4, ProgramTasks DEF Tree
    <3> QED BY <1>4, <1>5, <2>4, <3>1 DEF ProgramTodo
  <2>5. CASE new = <<>> /\ \E kid : /\ Gives(f.todo[1][2], kid) /\ kid # Hole
                                    /\ kids = Append(old, kid)
    <3>1. PICK kid : Gives("parse_item", kid) /\ kid # Hole /\ kids = Append(old, kid)
      BY <2>1, <2>5
    <3>2. IsItem(kid)
      BY <3>1 DEF Gives
    <3>3. IsSeq(kids)
      BY <1>4, <3>1, GetsOne DEF Listed
    <3>4. \A i \in DOMAIN kids : (i \in DOMAIN old /\ kids[i] = old[i]) \/ kids[i] = kid
      BY <1>4, <3>1, GetsOne DEF Listed
    <3>5. Listed(kids)
      BY <1>4, <3>2, <3>3, <3>4 DEF Listed
    <3>6. r = AtProgress
      BY <1>2, <1>8, <2>5, ProgramTasks
    <3> QED BY <1>5, <3>5, <3>6 DEF ProgramTodo
  <2> QED BY <2>3, <2>4, <2>5
<1>9. ASSUME q \in {AtSync, AtProgress} PROVE ProgramShape(x)
  <2>1. f.todo[1][1] \in {"sync", "progress"}
    BY <1>1, <1>9, ProgramTasks
  <2>2. f.todo[1][1] \in Quiet
    BY <2>1 DEF Quiet
  <2>3. new = <<>> /\ kids = old
    BY <1>1, <2>2, QuietMoves
  <2>4. r \in {AtProgress, AtStart}
    BY <1>2, <1>9, <2>3, ProgramTasks
  <2> QED BY <1>4, <1>5, <2>3, <2>4 DEF ProgramTodo
<1> QED BY <1>4, <1>6, <1>7, <1>8, <1>9 DEF ProgramTodo

-----------------------------------------------------------------------------
(* The stack keeps its shape *)

LEMMA MemberWords ==
  ASSUME NEW last, NEW q, NEW kids, MemberTodo(last, q, kids), q # <<>>
  PROVE  q[1][1] \in {"keep", "then", "take", "complain", "node"}
<1>1. q \in {AtName, AtValue, AtEquals, AtInt, AtNumber, AtOther, AtEnd}
  BY DEF MemberTodo
<1> QED BY <1>1, MemberTasks

LEMMA ProgramWords ==
  ASSUME NEW q \in ProgramTodo
  PROVE  q[1][1] \in {"then", "node", "element", "sync", "progress"}
BY ProgramTasks DEF ProgramTodo

\* Only a member about to take its number looks at the token in view.
LEMMA ShapeStays ==
  ASSUME NEW sn, NEW f, Shape(sn, f),
         Kind(sn[Len(sn)]) # "INT" \/ (f.todo # <<>> /\ f.todo[1][1] # "keep"), NEW sn2
  PROVE  Shape(sn2, f)
<1>1. ASSUME MemberShape(sn, f) PROVE MemberShape(sn2, f)
  <2>1. PICK q, kids, last : q = f.todo /\ kids = f.kids /\ last = sn[Len(sn)]
    OBVIOUS
  <2>2. IsSeq(kids) /\ MemberTodo(last, q, kids)
    BY <1>1, <2>1 DEF MemberShape
  <2>3. ~(q = AtNumber /\ Kind(last) = "INT")
    BY <2>1, MemberTasks
  <2>4. MemberTodo(sn2[Len(sn2)], q, kids)
    BY <2>2, <2>3 DEF MemberTodo
  <2> QED BY <2>1, <2>2, <2>4 DEF MemberShape
<1> QED BY <1>1 DEF Shape

LEMMA WaitingStays ==
  ASSUME NEW sn, NEW f, Waits(f), Shape(sn, f), NEW sn2
  PROVE  Shape(sn2, f)
<1>1. f.todo # <<>> /\ f.todo[1][1] # "keep"
  BY DEF Waits, CallWords
<1> QED BY <1>1, ShapeStays

LEMMA TopShaped ==
  ASSUME NEW sn, NEW s, Stacked(sn, s), Shaped(sn, s), NEW sn2, NEW x, x.fn = s[Len(s)].fn,
         Shape(sn2, x), NEW r, r = WithTop(s, x)
  PROVE  Shaped(sn2, r)
<1>1. PICK n : n = Len(s)
  OBVIOUS
<1>2. IsSeq(s) /\ n >= 1 /\ n \in Nat
  BY <1>1, TodoIs DEF Stacked
<1>3. IsSeq(r) /\ Len(r) = n /\ r[n] = x
  BY <1>1, <1>2, SetTop
<1>4. \A d \in 1 .. n - 1 : r[d] = s[d]
  BY <1>1, <1>2, SetTop
<1>5. \A d \in 1 .. n - 1 : Shape(sn2, s[d])
  <2>1. \A d \in 1 .. n - 1 : Waits(s[d])
    BY <1>1 DEF Stacked
  <2>2. \A d \in 1 .. n - 1 : Shape(sn, s[d])
    BY <1>1, <1>2 DEF Shaped
  <2> QED BY <2>1, <2>2, WaitingStays
<1>6. \A d \in 1 .. n : d = n \/ d \in 1 .. n - 1
  BY <1>2
<1>7. \A d \in 1 .. n : Shape(sn2, r[d])
  BY <1>3, <1>4, <1>5, <1>6
<1>8. \A d \in 1 .. n : r[d].fn = s[d].fn
  BY <1>1, <1>3, <1>4, <1>6
<1>9. r[1].fn = "parse_program"
  BY <1>2, <1>8 DEF Shaped
<1>10. ASSUME NEW d \in 1 .. n - 1 PROVE r[d].todo[1][2] = r[d + 1].fn
  <2>1. PICK e : e = d + 1
    OBVIOUS
  <2>2. e \in 1 .. n
    BY <1>2, <2>1
  <2>3. s[d].todo[1][2] = s[e].fn
    BY <1>1, <2>1 DEF Shaped
  <2> QED BY <1>4, <1>8, <2>1, <2>2, <2>3
<1> QED BY <1>3, <1>7, <1>9, <1>10 DEF Shaped

LEMMA TopShape ==
  ASSUME NEW sn, NEW s, Stacked(sn, s), Shaped(sn, s)
  PROVE  Shape(sn, s[Len(s)]) /\ IsFrame(s[Len(s)])
<1>1. PICK n : n = Len(s)
  OBVIOUS
<1>2. n \in Nat /\ n >= 1
  BY <1>1, TodoIs DEF Stacked
<1>3. n \in 1 .. n
  BY <1>2
<1> QED BY <1>1, <1>3 DEF Stacked, Runs, Shaped

\* A task of the activation on top, done.
LEMMA ShapedMove ==
  ASSUME NEW sn, NEW s, Stacked(sn, s), Shaped(sn, s), NEW f, f = s[Len(s)], f.todo # <<>>,
         f.todo[1][1] = "then" => f.todo[1][2] \in Points(f),
         NEW new, NEW kids, Moves(sn, f, new, kids), NEW m, NEW x, x = After(f, new, kids, m),
         NEW sn2, f.todo[1][1] = "then" => sn2 = sn
  PROVE  Shaped(sn2, WithTop(s, x))
<1>1. IsFrame(f) /\ Shape(sn, f)
  BY TopShape
<1>2. x.fn = f.fn
  BY DEF After
<1>3. ASSUME f.fn \in Enders PROVE EndShape(x)
  BY <1>1, <1>3, EndMoves DEF Shape
<1>4. ASSUME f.fn = "parse_enum" PROVE EnumShape(x)
  BY <1>1, <1>4, EnumMoves DEF Shape
<1>5. ASSUME f.fn = "member" PROVE MemberShape(sn2, x)
  BY <1>1, <1>5, MemberMoves DEF Shape
<1>6. ASSUME f.fn = "parse_item" PROVE ItemShape(x)
  BY <1>1, <1>6, ItemMoves DEF Shape
<1>7. ASSUME f.fn = "parse_program" PROVE ProgramShape(x)
  BY <1>1, <1>7, ProgramMoves DEF Shape
<1>8. Shape(sn2, x)
  BY <1>2, <1>3, <1>4, <1>5, <1>6, <1>7 DEF Shape
<1> QED BY <1>2, <1>8, TopShaped

\* A function that gives up leaves nothing.
LEMMA ShapedQuit ==
  ASSUME NEW sn, NEW s, Stacked(sn, s), Shaped(sn, s), NEW f, f = s[Len(s)], f.todo # <<>>,
         f.todo[1][1] \in {"need", "need name", "give up", "need tree"}, NEW sn2
  PROVE  Shaped(sn2, Quit(s))
<1>1. PICK x : x = [fn |-> f.fn, todo |-> <<>>, kids |-> <<>>, mark |-> f.mark]
  OBVIOUS
<1>2. Quit(s) = WithTop(s, x)
  BY <1>1, QuitIs
<1>3. x.fn = f.fn /\ x.todo = <<>> /\ x.kids = <<>>
  BY <1>1
<1>4. Shape(sn, f)
  BY TopShape
<1>5. f.fn # "member"
  BY <1>4, MemberWords DEF Shape, MemberShape
<1>6. f.fn # "parse_program"
  <2>1. PICK q : q = f.todo
    OBVIOUS
  <2>2. q[1][1] \notin {"then", "node", "element", "sync", "progress"}
    BY <2>1
  <2>3. q \notin ProgramTodo
    BY <2>2, ProgramWords
  <2> QED BY <1>4, <2>1, <2>3 DEF Shape, ProgramShape
<1>7. EndShape(x) /\ EnumShape(x) /\ ItemShape(x)
  BY <1>3, NoneIsSeq DEF EndShape, EnumShape, ItemShape, EndTodo, EnumTodo
<1>8. Shape(sn2, x)
  BY <1>3, <1>5, <1>6, <1>7 DEF Shape
<1> QED BY <1>2, <1>3, <1>8, TopShaped

LEMMA HoleGiven == \A g : g # "member" => Gives(g, Hole)
BY DEF Gives

LEMMA ShapedDeliver ==
  ASSUME NEW sn, NEW s, Stacked(sn, s), Shaped(sn, s), NEW f, f = s[Len(s)], Waits(f),
         NEW tree, Gives(f.todo[1][2], tree)
  PROVE  Shaped(sn, Deliver(s, tree))
<1>1. PICK t : t = f.todo[1]
  OBVIOUS
<1>2. Calm(f) /\ f.todo # <<>> /\ t[1] \in CallWords /\ Gives(t[2], tree)
  BY <1>1 DEF Waits
<1>3. Head(f.todo) = t
  BY <1>1, <1>2 DEF Calm, TasksOK, IsSeq
<1>4. t[1] # "then"
  BY <1>2 DEF CallWords
<1>5. ASSUME NEW new, NEW kids, Moves(sn, f, new, kids) PROVE Shaped(sn, Carry(s, new, kids))
  <2>1. PICK x : x = After(f, new, kids, f.mark)
    OBVIOUS
  <2>2. Carry(s, new, kids) = WithTop(s, x)
    BY <2>1, CarryIs
  <2>3. Shaped(sn, WithTop(s, x))
    BY <1>1, <1>2, <1>4, <1>5, <2>1, ShapedMove
  <2> QED BY <2>2, <2>3
<1>6. CASE t[1] = "parse" \/ tree # Hole
  <2>1. PICK kids : kids = Append(f.kids, tree)
    OBVIOUS
  <2>2. Deliver(s, tree) = Carry(s, <<>>, kids)
    BY <1>3, <1>6, <2>1 DEF Deliver
  <2>3. Adds(t, sn, tree)
    BY <1>2, <1>6 DEF Adds
  <2>4. Moves(sn, f, <<>>, kids)
    BY <1>1, <2>1, <2>3 DEF Moves
  <2> QED BY <1>5, <2>2, <2>4
<1>7. CASE t[1] = "need tree" /\ tree = Hole
  <2>1. Deliver(s, tree) = Quit(s)
    BY <1>3, <1>7 DEF Deliver
  <2> QED BY <1>1, <1>2, <1>7, <2>1, ShapedQuit
<1>8. CASE t[1] = "element" /\ tree = Hole
  <2>1. Deliver(s, tree) = Carry(s, <<Sync(t[3])>>, f.kids)
    BY <1>3, <1>8 DEF Deliver
  <2>2. Moves(sn, f, <<Sync(t[3])>>, f.kids)
    BY <1>1, <1>8 DEF Moves
  <2> QED BY <1>5, <2>1, <2>2
<1> QED BY <1>2, <1>6, <1>7, <1>8 DEF CallWords

\* What a function that is done has for its caller.
LEMMA GivesBack ==
  ASSUME NEW sn, NEW f, Shape(sn, f), f.todo = <<>>
  PROVE  Gives(f.fn, IF f.kids = <<>> THEN Hole ELSE f.kids[1])
<1>1. ASSUME f.fn = "member" PROVE f.kids # <<>> /\ IsSmall(f.kids[1])
  <2>1. MemberTodo(sn[Len(sn)], f.todo, f.kids)
    BY <1>1 DEF Shape, MemberShape
  <2>2. f.todo \notin {AtName, AtValue, AtEquals, AtInt, AtNumber, AtOther, AtEnd}
    <3>1. \A a, b, c : <<a>> # <<>> /\ <<a, b>> # <<>> /\ <<a, b, c>> # <<>>
      OBVIOUS
    <3> QED BY <3>1 DEF AtName, AtValue, AtEquals, AtInt, AtNumber, AtOther, AtEnd
  <2>3. Len(f.kids) = 1 /\ IsSmall(f.kids[1])
    BY <2>1, <2>2 DEF MemberTodo
  <2>4. Len(<<>>) = 0
    OBVIOUS
  <2> QED BY <2>3, <2>4
<1>2. CASE f.kids = <<>>
  BY <1>1, <1>2, HoleGiven
<1>3. CASE f.kids # <<>>
  <2>1. ASSUME f.fn \in Enders \cup {"parse_enum", "parse_item"}
        PROVE  f.kids[1] = Hole \/ IsItem(f.kids[1])
    BY <1>3, <2>1 DEF Shape, EndShape, EnumShape, ItemShape
  <2> QED BY <1>1, <1>3, <2>1 DEF Gives
<1> QED BY <1>2, <1>3

-----------------------------------------------------------------------------
(* The parser's steps leave the stack in shape *)

LEMMA OnTop ==
  ASSUME Ordered, NEW W, Doing(W)
  PROVE  /\ Stacked(seen, stack) /\ Top = stack[Len(stack)] /\ Top.todo # <<>>
         /\ Task = Top.todo[1] /\ Task[1] \in W
BY TopIs DEF Ordered, Doing

\* One that changes only what the activation on top holds and has to do.
LEMMA ShapedCarry ==
  ASSUME Ordered, Shaped(seen, stack), NEW W, Doing(W), "then" \notin W,
         NEW new, NEW kids, Moves(seen, Top, new, kids), NEW sn
  PROVE  Shaped(sn, Carry(stack, new, kids))
<1>1. PICK f : f = Top
  OBVIOUS
<1>2. Stacked(seen, stack) /\ f = stack[Len(stack)] /\ f.todo # <<>> /\ f.todo[1][1] # "then"
  BY <1>1, OnTop
<1>3. PICK x : x = After(f, new, kids, f.mark)
  OBVIOUS
<1>4. Carry(stack, new, kids) = WithTop(stack, x)
  BY <1>2, <1>3, CarryIs
<1>5. Shaped(sn, WithTop(stack, x))
  BY <1>1, <1>2, <1>3, ShapedMove
<1> QED BY <1>4, <1>5

LEMMA QuietOnward ==
  ASSUME Ordered, Shaped(seen, stack), NEW W, Doing(W), W \subseteq Quiet \cup {"name"},
         Onward(Top.kids), NEW sn
  PROVE  Shaped(sn, stack')
<1>1. "then" \notin W
  BY DEF Quiet
<1>2. Top.todo[1][1] \in Quiet \cup {"name"}
  BY OnTop
<1>3. Moves(seen, Top, <<>>, Top.kids)
  BY <1>2 DEF Moves
<1>4. Shaped(sn, Carry(stack, <<>>, Top.kids))
  BY <1>1, <1>3, ShapedCarry
<1> QED BY <1>4 DEF Onward

LEMMA SkipErrorShaped ==
  ASSUME Ordered, Shaped(seen, stack), SkipError
  PROVE  Shaped(seen', stack')
<1>1. stack' = stack /\ Kind(seen[Len(seen)]) # "INT"
  BY DEF SkipError, Cur, Now
<1>2. \A d \in 1 .. Len(stack) : Shape(seen', stack[d])
  BY <1>1, ShapeStays DEF Shaped
<1> QED BY <1>1, <1>2 DEF Shaped

LEMMA ShiftShaped ==
  ASSUME Ordered, Shaped(seen, stack), Shift
  PROVE  Shaped(seen', stack')
<1>1. PICK t, old : t = Top.todo[1] /\ old = Top.kids
  OBVIOUS
<1>2. Doing(Tokens) /\ Task = t /\ t[1] \in Tokens
  BY <1>1, OnTop DEF Shift
<1>3. PICK kids : kids = IF t[1] \in {"keep", "name", "need name"} THEN Append(old, <<Now>>)
                         ELSE old
  OBVIOUS
<1>4. stack' = Carry(stack, <<>>, kids)
  BY <1>1, <1>2, <1>3 DEF Shift, Onward
<1>5. ASSUME t[1] \in {"keep", "name", "need name"} PROVE Moves(seen, Top, <<>>, kids)
  <2>1. kids = Append(old, <<Now>>)
    BY <1>3, <1>5
  <2>2. Adds(t, seen, <<Now>>)
    BY <1>5 DEF Adds, Now
  <2> QED BY <1>1, <2>1, <2>2 DEF Moves
<1>6. ASSUME t[1] \notin {"keep", "name", "need name"} PROVE Moves(seen, Top, <<>>, kids)
  <2>1. kids = old /\ t[1] \in Quiet
    BY <1>2, <1>3, <1>6 DEF Tokens, Quiet
  <2> QED BY <1>1, <2>1 DEF Moves
<1>7. Moves(seen, Top, <<>>, kids)
  BY <1>5, <1>6
<1>8. "then" \notin Tokens
  BY DEF Tokens
<1> QED BY <1>2, <1>4, <1>7, <1>8, ShapedCarry

LEMMA ReportShaped ==
  ASSUME Ordered, Shaped(seen, stack), Report
  PROVE  Shaped(seen', stack')
<1>1. Onward(Top.kids)
  BY DEF Report
<1>2. PICK W : Doing(W) /\ W \in {{"expect", "name"}, {"complain", "blame"}}
  BY DEF Report
<1>3. W \subseteq Quiet \cup {"name"}
  BY <1>2 DEF Quiet
<1> QED BY <1>1, <1>2, <1>3, QuietOnward

LEMMA RefuseShaped ==
  ASSUME Ordered, Shaped(seen, stack), Refuse
  PROVE  Shaped(seen', stack')
<1>1. stack' = Quit(stack)
  BY DEF Refuse
<1>2. Doing({"need", "need name"}) \/ Doing({"give up"})
  BY DEF Refuse
<1>3. PICK f : f = Top
  OBVIOUS
<1>4. Stacked(seen, stack) /\ f = stack[Len(stack)] /\ f.todo # <<>>
      /\ f.todo[1][1] \in {"need", "need name", "give up"}
  BY <1>2, <1>3, OnTop
<1> QED BY <1>1, <1>4, ShapedQuit

LEMMA DecideShaped ==
  ASSUME Ordered, Shaped(seen, stack), Decide
  PROVE  Shaped(seen', stack')
<1>1. PICK f, row, kids : f = Top /\ row = Row(Top.fn, Task[2], Cur) /\ kids = Top.kids
  OBVIOUS
<1>2. Doing({"then"}) /\ stack' = Carry(stack, row, kids) /\ seen' = seen
  BY <1>1 DEF Decide
<1>3. Stacked(seen, stack) /\ f = stack[Len(stack)] /\ f.todo # <<>> /\ Task = f.todo[1]
      /\ Task[1] = "then"
  BY <1>1, <1>2, OnTop
<1>4. Calm(f)
  BY <1>1, <1>2, <1>3, CalmTop
<1>5. TaskOK(Points(f), Task)
  BY <1>1, <1>3, <1>4, CalmTask
<1>6. f.todo[1][2] \in Points(f)
  BY <1>3, <1>5 DEF TaskOK
<1>7. Moves(seen, f, row, kids)
  BY <1>1, <1>3 DEF Moves, Cur, Now
<1>8. PICK x : x = After(f, row, kids, f.mark)
  OBVIOUS
<1>9. Carry(stack, row, kids) = WithTop(stack, x)
  BY <1>3, <1>8, CarryIs
<1>10. Shaped(seen', WithTop(stack, x))
  BY <1>2, <1>3, <1>6, <1>7, <1>8, ShapedMove
<1> QED BY <1>2, <1>9, <1>10

LEMMA ReduceShaped ==
  ASSUME Ordered, Shaped(seen, stack), Reduce
  PROVE  Shaped(seen', stack')
<1>1. PICK W : W = {"fold", "node"}
  OBVIOUS
<1>2. Doing(W) /\ "then" \notin W
  BY <1>1 DEF Reduce
<1>3. PICK t : t = Top.todo[1]
  OBVIOUS
<1>4. Task = t /\ t[1] \in {"fold", "node"}
  BY <1>1, <1>2, <1>3, OnTop
<1>5. PICK kids : Onward(kids) /\ (t[1] = "node" => kids = <<Tree(t[2], Top.kids)>>)
  <2>1. PICK folded : Onward(IF Task[1] = "node" THEN <<Tree(Task[2], Top.kids)>> ELSE folded)
    BY DEF Reduce
  <2>2. PICK kids : kids = IF Task[1] = "node" THEN <<Tree(Task[2], Top.kids)>> ELSE folded
    OBVIOUS
  <2> QED BY <1>4, <2>1, <2>2
<1>6. Moves(seen, Top, <<>>, kids)
  BY <1>3, <1>4, <1>5 DEF Moves
<1>7. Shaped(seen', Carry(stack, <<>>, kids))
  BY <1>2, <1>6, ShapedCarry
<1> QED BY <1>5, <1>7 DEF Onward

LEMMA MakeProgressShaped ==
  ASSUME Ordered, Shaped(seen, stack), MakeProgress
  PROVE  Shaped(seen', stack')
<1>1. Doing({"progress"}) /\ Onward(Top.kids)
  BY DEF MakeProgress
<1>2. {"progress"} \subseteq Quiet \cup {"name"}
  BY DEF Quiet
<1> QED BY <1>1, <1>2, QuietOnward

LEMMA ResyncShaped ==
  ASSUME Ordered, Shaped(seen, stack), Resync
  PROVE  Shaped(seen', stack')
<1>1. Doing({"sync"}) /\ (Onward(Top.kids) \/ stack' = stack)
  BY DEF Resync
<1>2. ASSUME Onward(Top.kids) PROVE Shaped(seen', stack')
  <2>1. {"sync"} \subseteq Quiet \cup {"name"}
    BY DEF Quiet
  <2> QED BY <1>1, <1>2, <2>1, QuietOnward
<1>3. ASSUME stack' = stack PROVE Shaped(seen', stack')
  <2>1. Stacked(seen, stack) /\ Top = stack[Len(stack)] /\ Top.todo # <<>>
        /\ Top.todo[1][1] = "sync"
    BY <1>1, OnTop
  <2>2. Shape(seen, Top)
    BY <2>1, TopShape
  <2>3. Shape(seen', Top)
    BY <2>1, <2>2, ShapeStays
  <2>4. \A d \in 1 .. Len(stack) - 1 : Waits(stack[d])
    BY <2>1 DEF Stacked
  <2>5. \A d \in 1 .. Len(stack) : Shape(seen, stack[d])
    BY DEF Shaped
  <2>6. Len(stack) \in Nat
    BY <2>1, TodoIs DEF Stacked
  <2>7. \A d \in 1 .. Len(stack) : d = Len(stack) \/ d \in 1 .. Len(stack) - 1
    BY <2>6
  <2>8. \A d \in 1 .. Len(stack) : Shape(seen', stack[d])
    BY <2>1, <2>3, <2>4, <2>5, <2>7, WaitingStays
  <2> QED BY <1>3, <2>8 DEF Shaped
<1> QED BY <1>1, <1>2, <1>3

LEMMA RememberShaped ==
  ASSUME Ordered, Shaped(seen, stack), Remember
  PROVE  Shaped(seen', stack')
<1>1. PICK f, kids, m, x : /\ f = Top /\ kids = f.kids /\ m = Len(seen)
                           /\ x = After(f, <<>>, kids, m)
  OBVIOUS
<1>2. Doing({"mark"}) /\ seen' = seen
  BY DEF Remember
<1>3. Stacked(seen, stack) /\ f = stack[Len(stack)] /\ f.todo # <<>> /\ f.todo[1][1] = "mark"
  BY <1>1, <1>2, OnTop
<1>4. stack' = WithTop(stack, x)
  BY <1>1, <1>3, RememberIs
<1>5. Moves(seen, f, <<>>, kids)
  BY <1>1, <1>3 DEF Moves, Quiet
<1>6. Shaped(seen', WithTop(stack, x))
  BY <1>1, <1>3, <1>5, ShapedMove
<1> QED BY <1>4, <1>6

\* A call finds its caller in shape, marked or not.
LEMMA MarkedShaped ==
  ASSUME Ordered, Shaped(seen, stack), Doing(Calls)
  PROVE  /\ Shaped(seen, Marked) /\ Marked[Len(Marked)].todo[1] = Task
         /\ Stacked(seen, Marked) /\ Waits(Marked[Len(Marked)])
<1>1. Stacked(seen, stack) /\ Top = stack[Len(stack)] /\ Top.todo # <<>> /\ Task = Top.todo[1]
  BY OnTop
<1>2. Stacked(seen, Marked) /\ Waits(Marked[Len(Marked)])
  BY <1>1, CallerWaits
<1>3. PICK r, f : r = WithMark(stack, Here) /\ f = stack[Len(stack)]
  OBVIOUS
<1>4. PICK x : x = [fn |-> f.fn, todo |-> f.todo, kids |-> f.kids, mark |-> Here]
  OBVIOUS
<1>5. IsFrame(f) /\ Shape(seen, f) /\ IsSeq(stack) /\ Len(stack) >= 1
  BY <1>1, <1>3, TopShape DEF Stacked
<1>6. r = WithTop(stack, x)
  BY <1>3, <1>4, <1>5, MarkIs
<1>7. x.fn = f.fn /\ x.todo = f.todo /\ x.kids = f.kids
  BY <1>4
<1>8. Shape(seen, x)
  BY <1>5, <1>7 DEF Shape, EndShape, EnumShape, MemberShape, ItemShape, ProgramShape
<1>9. Shaped(seen, r)
  BY <1>1, <1>3, <1>6, <1>7, <1>8, TopShaped
<1>10. r[Len(r)] = x
  BY <1>5, <1>6, SetTop
<1>11. Marked \in {r, stack}
  BY <1>3 DEF Marked, WithMark
<1> QED BY <1>1, <1>2, <1>3, <1>7, <1>9, <1>10, <1>11

LEMMA ActivationShape ==
  ASSUME NEW g \in Functions
  PROVE  Shape(seen, Activation(g))
<1>1. PICK row, x : row = Row(g, "start", Cur) /\ x = Activation(g)
  OBVIOUS
<1>2. x.fn = g /\ x.todo = row /\ x.kids = <<>>
  BY <1>1 DEF Activation
<1>3. IsSeq(x.kids) /\ \A i : i \notin DOMAIN x.kids
  BY <1>2, NoneIsSeq
<1>4. "start" \in DOMAIN Code[g]
  BY CodeOK DEF TableOK
<1>5. ASSUME g \in Enders PROVE EndShape(x)
  BY <1>1, <1>2, <1>3, <1>4, <1>5, RowsEnd DEF EndShape, Ends
<1>6. ASSUME g = "parse_enum" PROVE EnumShape(x)
  BY <1>1, <1>2, <1>3, <1>4, <1>6, EnumRowsEnd DEF EnumShape, EnumEnds
<1>7. ASSUME g = "member" PROVE MemberShape(seen, x)
  <2>1. x.todo = AtName
    BY <1>1, <1>2, <1>7, MemberRows
  <2>2. Len(x.kids) = 0
    BY <1>2
  <2> QED BY <1>3, <2>1, <2>2 DEF MemberShape, MemberTodo
<1>8. ASSUME g = "parse_item" PROVE ItemShape(x)
  BY <1>1, <1>2, <1>3, <1>8, ItemRows DEF ItemShape
<1>9. ASSUME g = "parse_program" PROVE ProgramShape(x)
  BY <1>1, <1>2, <1>3, <1>9, ProgramRows DEF ProgramShape, ProgramTodo
<1> QED BY <1>1, <1>2, <1>5, <1>6, <1>7, <1>8, <1>9 DEF Shape

LEMMA CallShaped ==
  ASSUME Ordered, Shaped(seen, stack), Call
  PROVE  Shaped(seen', stack')
<1>1. PICK s, x, g : s = Marked /\ g = Task[2] /\ x = Activation(Task[2])
  OBVIOUS
<1>2. PICK n : n = Len(s)
  OBVIOUS
<1>3. Doing(Calls) /\ seen' = seen /\ stack' = Append(s, x)
  BY <1>1 DEF Call
<1>4. Shaped(seen, s) /\ s[n].todo[1] = Task /\ Stacked(seen, s)
  BY <1>1, <1>2, <1>3, MarkedShaped
<1>5. g \in Functions
  BY <1>1, <1>3, CallerWaits DEF Ordered
<1>6. Shape(seen, x) /\ x.fn = g
  BY <1>1, <1>5, ActivationShape DEF Activation
<1>7. IsSeq(s) /\ n >= 1 /\ n \in Nat /\ DOMAIN s = 1 .. n
  BY <1>2, <1>4, TodoIs DEF Stacked
<1>8. PICK r : r = Append(s, x)
  OBVIOUS
<1>9. Added(r, s, x)
  BY <1>8 DEF Added
<1>10. IsSeq(r) /\ DOMAIN r = 1 .. Len(s) + 1 /\ r[Len(s) + 1] = x
  BY <1>7, <1>9, AddedIs
<1>11. \A d \in DOMAIN s : r[d] = s[d]
  BY <1>7, <1>9, AddedIs
<1>12. Len(r) = Len(s) + 1
  BY <1>7, <1>8, GetsOne
<1>13. \A d \in 1 .. n + 1 : d = n + 1 \/ d \in 1 .. n
  BY <1>7
<1>14. \A d \in 1 .. n + 1 : Shape(seen, r[d])
  BY <1>2, <1>4, <1>6, <1>7, <1>10, <1>11, <1>13 DEF Shaped
<1>15. r[1].fn = "parse_program"
  <2>1. 1 \in 1 .. n
    BY <1>7
  <2> QED BY <1>4, <1>7, <1>11, <2>1 DEF Shaped
<1>16. ASSUME NEW d \in 1 .. n PROVE r[d].todo[1][2] = r[d + 1].fn
  <2>1. CASE d = n
    BY <1>1, <1>2, <1>4, <1>6, <1>7, <1>10, <1>11, <2>1
  <2>2. CASE d # n
    <3>1. d \in 1 .. n - 1 /\ d + 1 \in 1 .. n
      BY <1>7, <2>2
    <3>2. s[d].todo[1][2] = s[d + 1].fn
      BY <1>2, <1>4, <3>1 DEF Shaped
    <3> QED BY <1>7, <1>11, <3>1, <3>2
  <2> QED BY <2>1, <2>2
<1>17. Len(r) = n + 1 /\ \A d \in 1 .. Len(r) - 1 : d \in 1 .. n
  BY <1>2, <1>7, <1>12
<1>18. Shaped(seen, r)
  BY <1>14, <1>15, <1>16, <1>17 DEF Shaped
<1> QED BY <1>3, <1>8, <1>18

LEMMA CallTooDeepShaped ==
  ASSUME Ordered, Shaped(seen, stack), CallTooDeep
  PROVE  Shaped(seen', stack')
<1>1. Doing(Calls) /\ seen' = seen /\ stack' = Deliver(Marked, Hole)
  BY DEF CallTooDeep
<1>2. Shaped(seen, Marked)
  BY <1>1, MarkedShaped
<1>3. Stacked(seen, Marked) /\ Waits(Marked[Len(Marked)])
  BY <1>1, MarkedShaped
<1>4. PICK f, s : s = Marked /\ f = s[Len(s)]
  OBVIOUS
<1>5. Gives(f.todo[1][2], Hole)
  <2>1. Task[2] \in DepthCounted /\ s[Len(s)].todo[1] = Task
    BY <1>1, <1>4, MarkedShaped DEF CallTooDeep, TooDeep
  <2>2. "member" \notin DepthCounted
    BY DEF DepthCounted
  <2> QED BY <1>4, <2>1, <2>2, HoleGiven
<1>6. Shaped(seen, Deliver(s, Hole))
  BY <1>2, <1>3, <1>4, <1>5, ShapedDeliver
<1> QED BY <1>1, <1>4, <1>6

LEMMA ReturnShaped ==
  ASSUME Ordered, Shaped(seen, stack), Return
  PROVE  Shaped(seen', stack')
<1>1. PICK tree : tree = IF Top.kids = <<>> THEN Hole ELSE Top.kids[1]
  OBVIOUS
<1>2. Len(stack) > 1 /\ seen' = seen /\ stack' = Deliver(Pop, tree) /\ Top.todo = <<>>
  BY <1>1 DEF Return
<1>3. PICK p, n : p = Pop /\ n = Len(stack)
  OBVIOUS
<1>4. p = SubSeq(stack, 1, Len(stack) - 1) /\ Stacked(seen, stack)
  BY <1>3 DEF Pop, Ordered
<1>5. Stacked(seen, p) /\ Waits(p[Len(p)])
  BY <1>2, <1>4, Popped
<1>6. PICK S : stack \in Seq(S)
  BY <1>4 DEF Stacked, IsSeq
<1>7. n \in Nat /\ n > 1
  BY <1>2, <1>3, <1>6
<1>8. Len(p) = n - 1 /\ \A d \in 1 .. n - 1 : p[d] = stack[d]
  BY <1>3, <1>4, <1>6, <1>7
<1>9. Shape(seen, Top) /\ Top = stack[n]
  BY <1>3, <1>4, TopIs, TopShape
<1>10. Gives(Top.fn, tree)
  BY <1>1, <1>2, <1>9, GivesBack
<1>11. PICK k : k = n - 1
  OBVIOUS
<1>12. k \in 1 .. n - 1 /\ k + 1 = n /\ 1 \in 1 .. n - 1
  BY <1>7, <1>11
<1>13. stack[k].todo[1][2] = Top.fn
  BY <1>3, <1>9, <1>12 DEF Shaped
<1>14. Gives(p[Len(p)].todo[1][2], tree)
  BY <1>8, <1>10, <1>11, <1>12, <1>13
<1>15. Shaped(seen, p)
  <2>1. \A d \in 1 .. n - 1 : d \in 1 .. n
    BY <1>7
  <2>2. \A d \in 1 .. Len(p) : Shape(seen, p[d])
    BY <1>3, <1>8, <2>1 DEF Shaped
  <2>3. p[1].fn = "parse_program"
    BY <1>8, <1>12 DEF Shaped
  <2>4. \A d \in 1 .. Len(p) - 1 : d \in 1 .. n - 1 /\ d + 1 \in 1 .. n - 1
    BY <1>7, <1>8
  <2>5. \A d \in 1 .. Len(p) - 1 : p[d].todo[1][2] = p[d + 1].fn
    BY <1>3, <1>8, <2>4 DEF Shaped
  <2> QED BY <2>2, <2>3, <2>5 DEF Shaped
<1>16. Shaped(seen, Deliver(p, tree))
  BY <1>5, <1>14, <1>15, ShapedDeliver
<1> QED BY <1>2, <1>3, <1>16

LEMMA ParserShaped ==
  ASSUME Ordered, Shaped(seen, stack), ParserStep
  PROVE  Shaped(seen', stack')
BY SkipErrorShaped, ShiftShaped, ReportShaped, RefuseShaped, DecideShaped, ReduceShaped,
   RememberShaped, MakeProgressShaped, CallShaped, CallTooDeepShaped, ReturnShaped,
   ResyncShaped DEF ParserStep

-----------------------------------------------------------------------------
(* The trees that are collected *)

LEMMA StartsShaped ==
  ASSUME NEW s, Start(s)
  PROVE  Shaped(seen', stack')
<1>1. PICK x : x = [fn |-> "parse_program", todo |-> <<Then("start")>>, kids |-> <<>>,
                    mark |-> 0]
  OBVIOUS
<1>2. stack' = <<x>>
  BY <1>1 DEF Start
<1>3. Len(stack') = 1 /\ stack'[1] = x
  BY <1>2
<1>4. x.fn = "parse_program" /\ x.todo = AtStart /\ x.kids = <<>>
  BY <1>1 DEF AtStart
<1>5. ProgramShape(x)
  BY <1>4, NoneIsSeq DEF ProgramShape, ProgramTodo
<1>6. Shape(seen', x)
  BY <1>4, <1>5 DEF Shape, Enders
<1> QED BY <1>3, <1>4, <1>6 DEF Shaped

LEMMA ParsedIs ==
  ASSUME Ordered, Shaped(seen, stack), Parsed
  PROVE  IsProg(Top.kids[1])
<1>1. Len(stack) = 1 /\ Top.todo = <<>> /\ Top = stack[Len(stack)]
  BY TopIs DEF Parsed, Ordered
<1>2. Shape(seen, Top)
  BY <1>1, TopShape DEF Ordered
<1>3. Top.fn = "parse_program"
  BY <1>1 DEF Shaped
<1>4. <<>> \notin ProgramTodo
  <2>1. \A a, b, c : <<a>> # <<>> /\ <<a, b, c>> # <<>> /\ <<a, b>> # <<>>
    OBVIOUS
  <2> QED BY <2>1 DEF ProgramTodo, AtStart, AtEof, AtItem, AtSync, AtProgress
<1> QED BY <1>1, <1>2, <1>3, <1>4 DEF Shape, ProgramShape

LEMMA ShapeStarts == Init => ShapeInv
<1>1. Init => phase # "parse" /\ progs = <<>> /\ DOMAIN progs = {}
  BY DEF Init
<1> QED BY <1>1, NoneIsSeq DEF ShapeInv

\* The trees so far are of programs, and one more.
LEMMA ShapeKeeps == OrderInv /\ ShapeInv /\ [Next]_vars => ShapeInv'
<1> SUFFICES ASSUME OrderInv, ShapeInv, [Next]_vars PROVE ShapeInv'
  OBVIOUS
<1>1. CASE ReadFile
  <2>1. progs' = progs
    BY <1>1 DEF ReadFile
  <2>2. Shaped(seen', stack')
    BY <1>1, StartsShaped DEF ReadFile
  <2> QED BY <2>1, <2>2 DEF ShapeInv
<1>2. CASE Parse_program
  <2>1. phase = "parse" /\ progs' = progs /\ ParserStep
    BY <1>2 DEF Parse_program, driverVars
  <2>2. Ordered /\ Shaped(seen, stack)
    BY <2>1 DEF OrderInv, ShapeInv
  <2>3. Shaped(seen', stack')
    BY <2>1, <2>2, ParserShaped
  <2> QED BY <2>1, <2>3 DEF ShapeInv
<1>3. CASE FileParsed
  <2>1. phase = "parse" /\ Parsed /\ phase' # "parse"
    BY <1>3 DEF FileParsed
  <2>2. PICK tree : tree = Top.kids[1]
    OBVIOUS
  <2>3. progs' = Append(progs, tree)
    BY <1>3, <2>2 DEF FileParsed
  <2>4. IsProg(tree)
    BY <2>1, <2>2, ParsedIs DEF OrderInv, ShapeInv
  <2>5. PICK old : old = progs
    OBVIOUS
  <2>6. IsSeq(old) /\ \A u \in DOMAIN old : IsProg(old[u])
    BY <2>5 DEF ShapeInv
  <2>7. progs' = Append(old, tree)
    BY <2>3, <2>5
  <2>8. IsSeq(progs')
    BY <2>6, <2>7, GetsOne
  <2>9. \A u \in DOMAIN progs' :
          (u \in DOMAIN old /\ progs'[u] = old[u]) \/ progs'[u] = tree
    BY <2>6, <2>7, GetsOne
  <2> QED BY <2>1, <2>4, <2>6, <2>8, <2>9 DEF ShapeInv
<1>4. CASE LexFile \/ main \/ LexDone \/ AllParsed \/ collect_program \/ sema_check \/ BackHalf
           \/ CannotRead
  <2>1. phase # "parse" /\ phase' # "parse" /\ progs' = progs
    BY <1>4 DEF LexFile, main, LexDone, AllParsed, collect_program, sema_check, BackHalf,
                CannotRead, AtFile, Exit
  <2> QED BY <2>1 DEF ShapeInv
<1>5. CASE UNCHANGED vars
  <2>1. phase' = phase /\ seen' = seen /\ stack' = stack /\ progs' = progs
    BY <1>5 DEF vars, parserVars, driverVars
  <2> QED BY <2>1 DEF ShapeInv
<1> QED BY <1>1, <1>2, <1>3, <1>4, <1>5 DEF Next
-----------------------------------------------------------------------------
(* Collection as a fold over the places, in order, and what it has of the  *)
(* places behind it.                                                       *)

\* What collection stores: a member's number cut to 64 bits.
Stored(ms, i) == Count(ms, i) % (MaxU64 + 1)

\* Declared's meaning and soundness of a place, with the number stored.
StoredMeaning(p) ==
  LET it == ItemAt(p)
  IN  CASE it[1] = "StructDecl"             -> [kind |-> "struct", pos |-> p]
        [] it[1] = "EnumDecl" /\ p[3] = 0   -> [kind |-> "enum", pos |-> p]
        [] it[1] = "EnumDecl" /\ p[3] # 0   ->
             [kind |-> "member", pos |-> p, value |-> Stored(Members(it), p[3])]
        [] it[1] = "GlobalDecl"             -> [kind |-> "global", pos |-> p, value |-> 0]
        [] OTHER                            -> [kind |-> "fn", pos |-> p, value |-> 0]

StoredSound(p) ==
  LET it == ItemAt(p)
  IN  /\ it[1] = "EnumDecl" =>
           /\ BaseOf(it) \in IntegerType
           /\ p[3] # 0 => Stored(Members(it), p[3]) <= MaxOf[BaseOf(it)]
      /\ it[1] = "ExternBlock" => it[2][1] = AbiC

StoredWell ==
  /\ OneEach(TypePlaces) /\ OneEach(ValuePlaces)
  /\ \A p \in AllItems \cup AllParts : StoredSound(p)

StoredHolds(table, places) ==
  /\ DOMAIN table = {NameAt(p) : p \in places}
  /\ \A p \in places :
       (\A q \in places : NameAt(q) = NameAt(p) => ~Before(q, p)) =>
         table[NameAt(p)] = StoredMeaning(p)

\* The loop behind an item, when the item is taken.
Turns(u, i) == IF <<u, i, 0>> \in Again THEN 0 ELSE PartCount(Items(progs[u])[i])

IsPlace(u, i, k) ==
  /\ u \in DOMAIN progs /\ i \in DOMAIN Items(progs[u])
  /\ k \in Nat /\ (k = 0 \/ k <= Turns(u, i))

Places     == {p \in AllItems \cup AllParts : p[3] = 0 \/ <<p[1], p[2], 0>> \notin Again}
Visited(c) == {p \in Places : Before(p, c)}

\* Each name means what the first of its places says.
FirstHolds(table, S) ==
  /\ DOMAIN table = {NameAt(p) : p \in S}
  /\ \A n \in DOMAIN table :
       \E q \in S : /\ NameAt(q) = n /\ table[n] = StoredMeaning(q)
                    /\ \A r \in S : NameAt(r) = n => r = q \/ Before(q, r)

Clean(S) ==
  /\ OneEach(S \cap TypePlaces) /\ OneEach(S \cap ValuePlaces)
  /\ \A p \in S : StoredSound(p)

Tables(s, S) ==
  /\ FirstHolds(s.types, S \cap TypePlaces) /\ FirstHolds(s.values, S \cap ValuePlaces)
  /\ s.diag.count = 0 <=> Clean(S)

\* n is one more than the number of member i, before it is cut to 64 bits.
Numbered(ms, i, n) ==
  /\ Explicit(ms, i) # {} => \E m \in Explicit(ms, i) : IsLast(m, Explicit(ms, i))
  /\ Count(ms, i) + 1 \in Nat /\ n = (Count(ms, i) + 1) % (MaxU64 + 1)

InItem(c) == c[1] \in DOMAIN progs /\ c[2] \in DOMAIN Items(progs[c[1]])

CursorOK(c) ==
  /\ c = <<c[1], c[2], c[3]>>
  /\ c[1] \in Nat \ {0} /\ c[2] \in Nat \ {0} /\ c[3] \in Nat
  /\ InItem(c) => IsPlace(c[1], c[2], c[3])

SoFar(c, s) ==
  /\ CursorOK(c)
  /\ Tables(s, Visited(c))
  /\ InItem(c) /\ c[3] # 0 /\ ItemAt(c)[1] = "EnumDecl" =>
       Numbered(Members(ItemAt(c)), c[3] - 1, s.next)

CollectInv ==
  /\ phase \in {"main", "lex", "open", "parse"} => cursor = <<1, 1, 0>> /\ sema = sema_init
  /\ phase = "collect" => SoFar(cursor, sema)

-----------------------------------------------------------------------------
(* A table and one place more *)

\* A name that is new.
LEMMA NewName ==
  ASSUME NEW t, NEW S, FirstHolds(t, S), NEW c, NameAt(c) \notin DOMAIN t,
         NEW new, new = Declare(t, NameAt(c), StoredMeaning(c))
  PROVE  FirstHolds(new, S \cup {c}) /\ (OneEach(S \cup {c}) <=> OneEach(S))
<1>1. PICK name, sym : name = NameAt(c) /\ sym = StoredMeaning(c)
  OBVIOUS
<1>2. /\ DOMAIN new = DOMAIN t \cup {name} /\ new[name] = sym
      /\ \A n \in DOMAIN t : n # name /\ new[n] = t[n]
  BY <1>1 DEF Declare
<1>3. DOMAIN t = {NameAt(p) : p \in S}
  BY DEF FirstHolds
<1>4. \A p \in S : NameAt(p) # name
  BY <1>1, <1>3
<1>5. DOMAIN new = {NameAt(p) : p \in S \cup {c}}
  BY <1>1, <1>2, <1>3
<1>6. ASSUME NEW n \in DOMAIN new
      PROVE  \E q \in S \cup {c} : /\ NameAt(q) = n /\ new[n] = StoredMeaning(q)
                                   /\ \A r \in S \cup {c} : NameAt(r) = n => r = q \/ Before(q, r)
  <2>1. CASE n = name
    BY <1>1, <1>2, <1>4, <2>1
  <2>2. CASE n # name
    <3>1. n \in DOMAIN t /\ new[n] = t[n]
      BY <1>2, <2>2
    <3>2. PICK q \in S : /\ NameAt(q) = n /\ t[n] = StoredMeaning(q)
                         /\ \A r \in S : NameAt(r) = n => r = q \/ Before(q, r)
      BY <3>1 DEF FirstHolds
    <3> QED BY <1>1, <2>2, <3>1, <3>2
  <2> QED BY <2>1, <2>2
<1>7. OneEach(S \cup {c}) <=> OneEach(S)
  BY <1>1, <1>4 DEF OneEach
<1> QED BY <1>5, <1>6, <1>7 DEF FirstHolds

\* A name that an earlier place has.
LEMMA OldName ==
  ASSUME NEW t, NEW S, FirstHolds(t, S), NEW c, NameAt(c) \in DOMAIN t,
         c \notin S, \A p \in S : Before(p, c)
  PROVE  FirstHolds(t, S \cup {c}) /\ ~OneEach(S \cup {c})
<1>1. DOMAIN t = {NameAt(p) : p \in S}
  BY DEF FirstHolds
<1>2. DOMAIN t = {NameAt(p) : p \in S \cup {c}}
  BY <1>1
<1>3. PICK p \in S : NameAt(p) = NameAt(c)
  BY <1>1
<1>4. ~OneEach(S \cup {c})
  BY <1>3 DEF OneEach
<1>5. ASSUME NEW n \in DOMAIN t
      PROVE  \E q \in S \cup {c} : /\ NameAt(q) = n /\ t[n] = StoredMeaning(q)
                                   /\ \A r \in S \cup {c} : NameAt(r) = n => r = q \/ Before(q, r)
  <2>1. PICK q \in S : /\ NameAt(q) = n /\ t[n] = StoredMeaning(q)
                       /\ \A r \in S : NameAt(r) = n => r = q \/ Before(q, r)
    BY DEF FirstHolds
  <2> QED BY <2>1
<1> QED BY <1>2, <1>4, <1>5 DEF FirstHolds

-----------------------------------------------------------------------------
(* What sema has, and one place more *)

\* An error or none, by itself.
Judged(s, s1, c) ==
  /\ s1.types = s.types /\ s1.values = s.values
  /\ s1.diag.count = 0 <=> s.diag.count = 0 /\ StoredSound(c)

LEMMA Counts ==
  ASSUME NEW n \in Nat
  PROVE  Counted(n) \in Nat /\ Counted(n) # 0
BY DiagAssumption DEF Counted

LEMMA ErrorCounts ==
  ASSUME NEW s, SemaOK(s), NEW pos, NEW e, e = Error(s, pos)
  PROVE  /\ e.types = s.types /\ e.values = s.values /\ e.next = s.next
         /\ e.diag.count # 0
<1>1. PICK d : d = diag_error(s.diag, pos)
  OBVIOUS
<1>2. e = [types |-> s.types, values |-> s.values, next |-> s.next, diag |-> d]
  BY <1>1 DEF SemaOK, IsSema, Error
<1>3. d.count = Counted(s.diag.count) /\ s.diag.count \in Nat
  BY <1>1 DEF diag_error, SemaOK, DiagInv, IsDiag
<1> QED BY <1>2, <1>3, Counts

LEMMA DuplicateCounts ==
  ASSUME NEW s, SemaOK(s), NEW pos, NEW first, NEW e, e = Duplicate(s, pos, first)
  PROVE  /\ e.types = s.types /\ e.values = s.values /\ e.next = s.next
         /\ e.diag.count # 0
<1>1. PICK d : d = diag_error(s.diag, pos)
  OBVIOUS
<1>2. PICK n : n = diag_note(d, first, pos)
  OBVIOUS
<1>3. e = [types |-> s.types, values |-> s.values, next |-> s.next, diag |-> n]
  BY <1>1, <1>2 DEF SemaOK, IsSema, Duplicate
<1>4. d.count = Counted(s.diag.count) /\ s.diag.count \in Nat
  BY <1>1 DEF diag_error, SemaOK, DiagInv, IsDiag
<1>5. d = [count |-> d.count, reported |-> d.reported, last_printed |-> d.last_printed,
           lines |-> d.lines]
  BY <1>1 DEF diag_error
<1>6. n.count = d.count
  BY <1>2, <1>5 DEF diag_note
<1> QED BY <1>3, <1>4, <1>6, Counts

\* The places behind c are before it.
Behind(S, c) == c \notin S /\ \A p \in S : Before(p, c)

LEMMA TypePlace ==
  ASSUME NEW s, NEW S, Tables(s, S), NEW c, Behind(S, c), c \in TypePlaces, c \notin ValuePlaces,
         NEW s1, SemaOK(s1), Judged(s, s1, c), NEW pos, NEW first,
         NEW e, e = IF NameAt(c) \in DOMAIN s1.types THEN Duplicate(s1, pos, first)
                    ELSE AddType(s1, NameAt(c), StoredMeaning(c))
  PROVE  Tables(e, S \cup {c})
<1>1. PICK W : W = S \cup {c}
  OBVIOUS
<1>2. PICK T : T = S \cap TypePlaces
  OBVIOUS
<1>3. W \cap TypePlaces = T \cup {c} /\ W \cap ValuePlaces = S \cap ValuePlaces
  BY <1>1, <1>2
<1>4. FirstHolds(s.types, T) /\ c \notin T /\ \A p \in T : Before(p, c)
  BY <1>2 DEF Tables, Behind
<1>5. FirstHolds(s.values, W \cap ValuePlaces)
  BY <1>3 DEF Tables
<1>6. Clean(W) <=> /\ OneEach(T \cup {c}) /\ OneEach(S \cap ValuePlaces)
                   /\ (\A p \in S : StoredSound(p)) /\ StoredSound(c)
  BY <1>1, <1>3 DEF Clean
<1>7. CASE NameAt(c) \in DOMAIN s.types
  <2>1. e = Duplicate(s1, pos, first)
    BY <1>7 DEF Judged
  <2>2. e.types = s.types /\ e.values = s.values /\ e.diag.count # 0
    BY <2>1, DuplicateCounts DEF Judged
  <2>3. FirstHolds(s.types, T \cup {c}) /\ ~OneEach(T \cup {c})
    BY <1>4, <1>7, OldName
  <2> QED BY <1>1, <1>3, <1>5, <1>6, <2>2, <2>3 DEF Tables
<1>8. CASE NameAt(c) \notin DOMAIN s.types
  <2>1. PICK new : new = Declare(s.types, NameAt(c), StoredMeaning(c))
    OBVIOUS
  <2>2. e = AddType(s1, NameAt(c), StoredMeaning(c)) /\ s1.types = s.types
    BY <1>8 DEF Judged
  <2>3. e = [s1 EXCEPT !.types = new]
    BY <2>1, <2>2 DEF AddType
  <2>4. e.types = new /\ e.values = s1.values /\ e.diag = s1.diag
    BY <2>3 DEF SemaOK, IsSema
  <2>5. FirstHolds(new, T \cup {c}) /\ (OneEach(T \cup {c}) <=> OneEach(T))
    BY <1>4, <1>8, <2>1, NewName
  <2>6. e.diag.count = 0 <=> Clean(S) /\ StoredSound(c)
    BY <2>4 DEF Judged, Tables
  <2>7. e.diag.count = 0 <=> Clean(W)
    BY <1>2, <1>6, <2>5, <2>6 DEF Clean
  <2>8. e.values = s.values
    BY <2>4 DEF Judged
  <2> QED BY <1>1, <1>3, <1>5, <2>4, <2>5, <2>7, <2>8 DEF Tables
<1> QED BY <1>7, <1>8

LEMMA ValuePlace ==
  ASSUME NEW s, NEW S, Tables(s, S), NEW c, Behind(S, c), c \in ValuePlaces, c \notin TypePlaces,
         NEW s1, SemaOK(s1), Judged(s, s1, c), NEW sym, sym = StoredMeaning(c),
         NEW e, e = AddValue(s1, NameAt(c), sym)
  PROVE  Tables(e, S \cup {c})
<1>1. PICK W : W = S \cup {c}
  OBVIOUS
<1>2. PICK T : T = S \cap ValuePlaces
  OBVIOUS
<1>3. W \cap ValuePlaces = T \cup {c} /\ W \cap TypePlaces = S \cap TypePlaces
  BY <1>1, <1>2
<1>4. FirstHolds(s.values, T) /\ c \notin T /\ \A p \in T : Before(p, c)
  BY <1>2 DEF Tables, Behind
<1>5. FirstHolds(s.types, W \cap TypePlaces)
  BY <1>3 DEF Tables
<1>6. Clean(W) <=> /\ OneEach(T \cup {c}) /\ OneEach(S \cap TypePlaces)
                   /\ (\A p \in S : StoredSound(p)) /\ StoredSound(c)
  BY <1>1, <1>3 DEF Clean
<1>7. CASE NameAt(c) \in DOMAIN s.values
  <2>1. PICK pos, first : pos = sym.pos /\ first = s1.values[NameAt(c)].pos
    OBVIOUS
  <2>2. e = Duplicate(s1, pos, first)
    BY <1>7, <2>1 DEF Judged, AddValue
  <2>3. e.types = s.types /\ e.values = s.values /\ e.diag.count # 0
    BY <2>2, DuplicateCounts DEF Judged
  <2>4. FirstHolds(s.values, T \cup {c}) /\ ~OneEach(T \cup {c})
    BY <1>4, <1>7, OldName
  <2> QED BY <1>1, <1>3, <1>5, <1>6, <2>3, <2>4 DEF Tables
<1>8. CASE NameAt(c) \notin DOMAIN s.values
  <2>1. PICK new : new = Declare(s.values, NameAt(c), StoredMeaning(c))
    OBVIOUS
  <2>2. s1.values = s.values /\ s1.types = s.types
    BY DEF Judged
  <2>3. e = [s1 EXCEPT !.values = new]
    BY <1>8, <2>1, <2>2 DEF AddValue
  <2>4. e.values = new /\ e.types = s1.types /\ e.diag = s1.diag
    BY <2>3 DEF SemaOK, IsSema
  <2>5. FirstHolds(new, T \cup {c}) /\ (OneEach(T \cup {c}) <=> OneEach(T))
    BY <1>4, <1>8, <2>1, NewName
  <2>6. e.diag.count = 0 <=> Clean(S) /\ StoredSound(c)
    BY <2>4 DEF Judged, Tables
  <2>7. e.diag.count = 0 <=> Clean(W)
    BY <1>2, <1>6, <2>5, <2>6 DEF Clean
  <2> QED BY <1>1, <1>3, <1>5, <2>2, <2>4, <2>5, <2>7 DEF Tables
<1> QED BY <1>7, <1>8

\* A place that declares no name.
LEMMA NoName ==
  ASSUME NEW s, NEW S, Tables(s, S), NEW c, c \notin ValuePlaces, c \notin TypePlaces,
         NEW e, Judged(s, e, c)
  PROVE  Tables(e, S \cup {c})
<1>1. PICK W : W = S \cup {c}
  OBVIOUS
<1>2. W \cap ValuePlaces = S \cap ValuePlaces /\ W \cap TypePlaces = S \cap TypePlaces
  BY <1>1
<1>3. Clean(W) <=> Clean(S) /\ StoredSound(c)
  BY <1>1, <1>2 DEF Clean
<1>4. e.diag.count = 0 <=> Clean(W)
  BY <1>3 DEF Judged, Tables
<1> QED BY <1>1, <1>2, <1>4 DEF Tables, Judged

-----------------------------------------------------------------------------
(* The places of the trees *)

TreesOK == IsSeq(progs) /\ \A u \in DOMAIN progs : IsProg(progs[u])

LEMMA FilesAre ==
  ASSUME TreesOK
  PROVE  Len(progs) \in Nat /\ DOMAIN progs = 1 .. Len(progs)
BY TodoIs DEF TreesOK

LEMMA ItemsAre ==
  ASSUME TreesOK, NEW u \in DOMAIN progs, NEW items, items = Items(progs[u])
  PROVE  /\ Len(items) \in Nat /\ DOMAIN items = 1 .. Len(items)
         /\ \A i \in DOMAIN items : IsItem(items[i])
<1>1. PICK tree : tree = progs[u]
  OBVIOUS
<1>2. IsProg(tree)
  BY <1>1 DEF TreesOK
<1>3. IsSeq(tree) /\ Len(tree) >= 1 /\ Len(tree) \in Nat
  BY <1>2, TodoIs DEF IsProg, IsNode
<1>4. tree # <<>> /\ items = Tail(tree)
  BY <1>1, <1>3 DEF Items
<1>5. /\ IsSeq(items) /\ Len(items) = Len(tree) - 1
      /\ \A i \in 1 .. Len(tree) - 1 : items[i] = tree[i + 1]
  BY <1>3, <1>4, TailAfter
<1>6. Len(items) \in Nat /\ DOMAIN items = 1 .. Len(items)
  BY <1>5, TodoIs
<1>7. ASSUME NEW i \in DOMAIN items PROVE IsItem(items[i])
  <2>1. items[i] = tree[i + 1] /\ i + 1 \in 2 .. Len(tree)
    BY <1>3, <1>5, <1>6
  <2> QED BY <1>2, <2>1 DEF IsProg
<1> QED BY <1>6, <1>7

LEMMA MembersAre ==
  ASSUME NEW it, IsItem(it), NEW ms, ms = Members(it)
  PROVE  /\ Len(ms) \in Nat
         /\ it[1] = "EnumDecl" => \A j \in 1 .. Len(ms) : IsSmall(ms[j])
<1>1. PICK S : it \in Seq(S)
  BY DEF IsItem, IsNode, IsSeq
<1>2. PICK a : a = IF HasBase(it) THEN 4 ELSE 3
  OBVIOUS
<1>3. ms = SubSeq(it, a, Len(it)) /\ a \in {3, 4} /\ Len(it) \in Nat
  BY <1>1, <1>2 DEF Members
<1>4. /\ Len(ms) = IF a <= Len(it) THEN Len(it) - a + 1 ELSE 0
      /\ \A j \in 1 .. Len(ms) : ms[j] = it[a - 1 + j]
  BY <1>1, <1>3
<1>5. Len(ms) \in Nat
  BY <1>3, <1>4
<1>6. ASSUME it[1] = "EnumDecl", NEW j \in 1 .. Len(ms) PROVE IsSmall(ms[j])
  <2>1. a - 1 + j \in 2 .. Len(it)
    BY <1>3, <1>4, <1>6
  <2> QED BY <1>4, <1>6, <2>1 DEF IsItem
<1> QED BY <1>5, <1>6

LEMMA PartCountIs ==
  ASSUME NEW it, IsItem(it)
  PROVE  PartCount(it) \in Int
<1>1. Len(it) \in Nat
  BY TodoIs DEF IsItem, IsNode
<1>2. Len(Members(it)) \in Nat
  BY MembersAre
<1> QED BY <1>1, <1>2 DEF PartCount

LEMMA TurnsAre ==
  ASSUME TreesOK, NEW u \in DOMAIN progs, NEW i \in DOMAIN Items(progs[u])
  PROVE  Turns(u, i) \in Int
<1>1. PICK items : items = Items(progs[u])
  OBVIOUS
<1>2. IsItem(items[i])
  BY <1>1, ItemsAre
<1>3. PartCount(Items(progs[u])[i]) \in Int
  BY <1>1, <1>2, PartCountIs
<1> QED BY <1>3 DEF Turns

LEMMA ItemIs ==
  ASSUME NEW u, NEW i, NEW k, NEW p, p = <<u, i, k>>
  PROVE  p[1] = u /\ p[2] = i /\ p[3] = k /\ ItemAt(p) = Items(progs[u])[i]
BY DEF ItemAt

LEMMA AnItem ==
  ASSUME NEW p
  PROVE  p \in AllItems <=>
           \E u \in DOMAIN progs : \E i \in DOMAIN Items(progs[u]) : p = <<u, i, 0>>
BY DEF AllItems

LEMMA APart ==
  ASSUME NEW p
  PROVE  p \in AllParts <=> \E u \in DOMAIN progs : \E i \in DOMAIN Items(progs[u]) :
                              \E k \in 1 .. PartCount(Items(progs[u])[i]) : p = <<u, i, k>>
<1>1. p \in AllParts <=>
        \E q \in AllItems : \E k \in 1 .. PartCount(ItemAt(q)) : p = <<q[1], q[2], k>>
  BY DEF AllParts
<1>2. ASSUME NEW q, NEW u, NEW i, q = <<u, i, 0>>
      PROVE  q[1] = u /\ q[2] = i /\ ItemAt(q) = Items(progs[u])[i]
  BY <1>2, ItemIs
<1>3. ASSUME p \in AllParts
      PROVE  \E u \in DOMAIN progs : \E i \in DOMAIN Items(progs[u]) :
                \E k \in 1 .. PartCount(Items(progs[u])[i]) : p = <<u, i, k>>
  <2>1. PICK q \in AllItems : \E k \in 1 .. PartCount(ItemAt(q)) : p = <<q[1], q[2], k>>
    BY <1>1, <1>3
  <2>2. PICK u \in DOMAIN progs : \E i \in DOMAIN Items(progs[u]) : q = <<u, i, 0>>
    BY <2>1, AnItem
  <2>3. PICK i \in DOMAIN Items(progs[u]) : q = <<u, i, 0>>
    BY <2>2
  <2>4. q[1] = u /\ q[2] = i /\ ItemAt(q) = Items(progs[u])[i]
    BY <2>3, <1>2
  <2> QED BY <2>1, <2>4
<1>4. ASSUME NEW u \in DOMAIN progs, NEW i \in DOMAIN Items(progs[u]),
             NEW k \in 1 .. PartCount(Items(progs[u])[i]), p = <<u, i, k>>
      PROVE  p \in AllParts
  <2>1. PICK q : q = <<u, i, 0>>
    OBVIOUS
  <2>2. q[1] = u /\ q[2] = i /\ ItemAt(q) = Items(progs[u])[i]
    BY <2>1, <1>2
  <2>3. q \in AllItems
    BY <2>1, AnItem
  <2> QED BY <1>1, <1>4, <2>2, <2>3
<1> QED BY <1>3, <1>4

LEMMA PlaceIs ==
  ASSUME TreesOK, NEW p
  PROVE  p \in Places <=> \E u, i, k : p = <<u, i, k>> /\ IsPlace(u, i, k)
<1>1. ASSUME NEW u, NEW i, NEW k, p = <<u, i, k>>, IsPlace(u, i, k) PROVE p \in Places
  <2>1. /\ p[1] = u /\ p[2] = i /\ p[3] = k
        /\ u \in DOMAIN progs /\ i \in DOMAIN Items(progs[u]) /\ k \in Nat
    BY <1>1 DEF IsPlace
  <2>2. CASE k = 0
    BY <1>1, <2>1, <2>2, AnItem DEF Places
  <2>3. CASE k # 0
    <3>1. k <= Turns(u, i) /\ Turns(u, i) \in Int
      BY <1>1, <2>1, <2>3, TurnsAre DEF IsPlace
    <3>2. k >= 1
      BY <2>1, <2>3
    <3>3. <<u, i, 0>> \notin Again
      <4> SUFFICES ASSUME <<u, i, 0>> \in Again PROVE FALSE
        OBVIOUS
      <4>1. Turns(u, i) = 0
        BY DEF Turns
      <4> QED BY <2>1, <3>1, <3>2, <4>1
    <3>4. Turns(u, i) = PartCount(Items(progs[u])[i])
      BY <3>3 DEF Turns
    <3>5. p \in AllParts
      BY <1>1, <2>1, <3>1, <3>2, <3>4, APart
    <3> QED BY <2>1, <3>3, <3>5 DEF Places
  <2> QED BY <2>2, <2>3
<1>2. ASSUME p \in Places PROVE \E u, i, k : p = <<u, i, k>> /\ IsPlace(u, i, k)
  <2>1. CASE p \in AllItems
    BY <2>1, AnItem DEF IsPlace
  <2>2. CASE p \in AllParts
    <3>1. PICK u \in DOMAIN progs :
             \E i \in DOMAIN Items(progs[u]) :
               \E k \in 1 .. PartCount(Items(progs[u])[i]) : p = <<u, i, k>>
      BY <2>2, APart
    <3>2. PICK i \in DOMAIN Items(progs[u]) :
             \E k \in 1 .. PartCount(Items(progs[u])[i]) : p = <<u, i, k>>
      BY <3>1
    <3>3. PICK k \in 1 .. PartCount(Items(progs[u])[i]) : p = <<u, i, k>>
      BY <3>2
    <3>4. p[1] = u /\ p[2] = i /\ p[3] = k
      BY <3>3
    <3>5. Turns(u, i) \in Int /\ k \in Nat /\ k # 0
      BY TurnsAre
    <3>6. <<u, i, 0>> \notin Again
      BY <1>2, <3>4, <3>5 DEF Places
    <3>7. Turns(u, i) = PartCount(Items(progs[u])[i])
      BY <3>6 DEF Turns
    <3>8. k <= Turns(u, i)
      BY <3>5, <3>7
    <3>9. IsPlace(u, i, k)
      BY <3>5, <3>8 DEF IsPlace
    <3> QED BY <3>3, <3>9
  <2> QED BY <1>2, <2>1, <2>2 DEF Places
<1> QED BY <1>1, <1>2

Earlier(u, j, l, f, i, k) == u < f \/ (u = f /\ j < i) \/ (u = f /\ j = i /\ l < k)

LEMMA EarlierIs ==
  ASSUME NEW u, NEW j, NEW l, NEW p, p = <<u, j, l>>, NEW f, NEW i, NEW k, NEW c, c = <<f, i, k>>
  PROVE  Before(p, c) <=> Earlier(u, j, l, f, i, k)
<1>1. p[1] = u /\ p[2] = j /\ p[3] = l /\ c[1] = f /\ c[2] = i /\ c[3] = k
  OBVIOUS
<1> QED BY <1>1 DEF Before, Earlier

LEMMA Numbers ==
  ASSUME TreesOK, NEW u, NEW i, NEW k, IsPlace(u, i, k)
  PROVE  /\ u \in Nat /\ u >= 1 /\ u <= Len(progs) /\ i \in Nat /\ i >= 1
         /\ i <= Len(Items(progs[u])) /\ k \in Nat
         /\ Turns(u, i) \in Int /\ (k = 0 \/ k <= Turns(u, i)) /\ Len(Items(progs[u])) \in Nat
<1>1. u \in DOMAIN progs /\ i \in DOMAIN Items(progs[u]) /\ k \in Nat /\ (k = 0 \/ k <= Turns(u, i))
  BY DEF IsPlace
<1>2. PICK items : items = Items(progs[u])
  OBVIOUS
<1>3. Len(items) \in Nat /\ DOMAIN items = 1 .. Len(items)
  BY <1>1, <1>2, ItemsAre
<1>4. i \in 1 .. Len(items) /\ u \in 1 .. Len(progs) /\ Len(progs) \in Nat
  BY <1>1, <1>2, <1>3, FilesAre
<1> QED BY <1>1, <1>2, <1>3, <1>4, TurnsAre

LEMMA VisitedIs ==
  ASSUME TreesOK, NEW f, NEW i, NEW k, NEW c, c = <<f, i, k>>, NEW p
  PROVE  p \in Visited(c) <=>
           \E u, j, l : p = <<u, j, l>> /\ IsPlace(u, j, l) /\ Earlier(u, j, l, f, i, k)
<1>1. p \in Visited(c) <=> p \in Places /\ Before(p, c)
  BY DEF Visited
<1>2. \A u, j, l : p = <<u, j, l>> => (Before(p, c) <=> Earlier(u, j, l, f, i, k))
  BY EarlierIs
<1>3. p \in Places <=> \E u, j, l : p = <<u, j, l>> /\ IsPlace(u, j, l)
  BY PlaceIs
<1> QED BY <1>1, <1>2, <1>3

\* The loop's step leaves the place it was at behind it, and no other.
LEMMA OnePlaceOn ==
  ASSUME TreesOK, NEW f, NEW i, NEW k, IsPlace(f, i, k), NEW c, c = <<f, i, k>>,
         NEW n, n = IF k < Turns(f, i) THEN <<f, i, k + 1>> ELSE <<f, i + 1, 0>>
  PROVE  Visited(n) = Visited(c) \cup {c} /\ Behind(Visited(c), c) /\ CursorOK(n)
<1>1. /\ f \in Nat /\ f >= 1 /\ i \in Nat /\ i >= 1 /\ k \in Nat
      /\ Turns(f, i) \in Int /\ (k = 0 \/ k <= Turns(f, i))
  BY Numbers
<1>2. PICK g, h, m : g = f /\ h = (IF k < Turns(f, i) THEN i ELSE i + 1)
                     /\ m = (IF k < Turns(f, i) THEN k + 1 ELSE 0)
  OBVIOUS
<1>3. n = <<g, h, m>>
  BY <1>2
<1>4. ASSUME NEW u, NEW j, NEW l, IsPlace(u, j, l)
      PROVE  Earlier(u, j, l, g, h, m) <=> Earlier(u, j, l, f, i, k) \/ (u = f /\ j = i /\ l = k)
  <2>1. /\ u \in Nat /\ j \in Nat /\ l \in Nat
        /\ Turns(u, j) \in Int /\ (l = 0 \/ l <= Turns(u, j))
    BY <1>4, Numbers
  <2>2. PICK t : t = Turns(f, i)
    OBVIOUS
  <2>3. u = f /\ j = i => l = 0 \/ l <= t
    BY <2>1, <2>2
  <2>4. CASE k < t
    BY <1>1, <1>2, <2>1, <2>2, <2>4 DEF Earlier
  <2>5. CASE ~(k < t)
    BY <1>1, <1>2, <2>1, <2>2, <2>3, <2>5 DEF Earlier
  <2> QED BY <2>4, <2>5
<1>5. ASSUME NEW p PROVE p \in Visited(n) <=> p \in Visited(c) \cup {c}
  <2>1. p \in Visited(n) <=>
           \E u, j, l : p = <<u, j, l>> /\ IsPlace(u, j, l) /\ Earlier(u, j, l, g, h, m)
    BY <1>3, VisitedIs
  <2>2. p \in Visited(c) <=>
           \E u, j, l : p = <<u, j, l>> /\ IsPlace(u, j, l) /\ Earlier(u, j, l, f, i, k)
    BY VisitedIs
  <2> QED BY <1>4, <2>1, <2>2
<1>6. c \notin Visited(c)
  <2>1. \A u, j, l : c = <<u, j, l>> => u = f /\ j = i /\ l = k
    OBVIOUS
  <2>2. ~Earlier(f, i, k, f, i, k)
    BY <1>1 DEF Earlier
  <2> QED BY <2>1, <2>2, VisitedIs
<1>7. Behind(Visited(c), c)
  BY <1>6 DEF Behind, Visited
<1>8. n[1] = g /\ n[2] = h /\ n[3] = m
  BY <1>3
<1>9. ASSUME InItem(n) PROVE IsPlace(g, h, m)
  <2>1. g \in DOMAIN progs /\ h \in DOMAIN Items(progs[g])
    BY <1>8, <1>9 DEF InItem
  <2>2. m = 0 \/ (g = f /\ h = i /\ m <= Turns(f, i))
    BY <1>1, <1>2
  <2>3. m \in Nat
    BY <1>1, <1>2
  <2> QED BY <2>1, <2>2, <2>3 DEF IsPlace
<1>10. CursorOK(n)
  <2>1. g \in Nat \ {0} /\ h \in Nat \ {0} /\ m \in Nat
    BY <1>1, <1>2
  <2> QED BY <1>3, <1>8, <1>9, <2>1 DEF CursorOK
<1> QED BY <1>5, <1>7, <1>10

\* The end of a file leaves nothing behind.
LEMMA OneFileOn ==
  ASSUME TreesOK, NEW f \in DOMAIN progs, NEW i \in Nat, i > Len(Items(progs[f])),
         NEW k, NEW c, c = <<f, i, k>>, NEW n, n = <<f + 1, 1, 0>>
  PROVE  Visited(n) = Visited(c) /\ CursorOK(n)
<1>1. f \in Nat /\ f >= 1
  BY FilesAre
<1>2. ASSUME NEW u, NEW j, NEW l, IsPlace(u, j, l)
      PROVE  Earlier(u, j, l, f + 1, 1, 0) <=> Earlier(u, j, l, f, i, k)
  <2>1. /\ u \in Nat /\ j \in Nat /\ l \in Nat /\ j >= 1
        /\ j <= Len(Items(progs[u])) /\ Len(Items(progs[u])) \in Nat
    BY <1>2, Numbers
  <2>2. PICK t : t = Len(Items(progs[f]))
    OBVIOUS
  <2>3. u = f => j <= t /\ t \in Nat
    BY <2>1, <2>2
  <2>4. u = f => j < i
    BY <2>1, <2>2, <2>3
  <2> QED BY <1>1, <2>1, <2>4 DEF Earlier
<1>3. ASSUME NEW p PROVE p \in Visited(n) <=> p \in Visited(c)
  <2>1. p \in Visited(n) <=>
           \E u, j, l : p = <<u, j, l>> /\ IsPlace(u, j, l) /\ Earlier(u, j, l, f + 1, 1, 0)
    BY VisitedIs
  <2>2. p \in Visited(c) <=>
           \E u, j, l : p = <<u, j, l>> /\ IsPlace(u, j, l) /\ Earlier(u, j, l, f, i, k)
    BY VisitedIs
  <2> QED BY <1>2, <2>1, <2>2
<1>4. n[1] = f + 1 /\ n[2] = 1 /\ n[3] = 0 /\ f + 1 \in Nat \ {0}
  BY <1>1
<1>5. CursorOK(n)
  BY <1>4 DEF CursorOK, InItem, IsPlace
<1> QED BY <1>3, <1>5

-----------------------------------------------------------------------------
(* The numbers of members *)

LEMMA CutTwice ==
  ASSUME NEW x \in Nat, NEW m \in Nat \ {0}
  PROVE  ((x % m) + 1) % m = (x + 1) % m
<1>1. PICK q, r : q = x \div m /\ r = x % m
  OBVIOUS
<1>2. q \in Nat /\ r \in 0 .. m - 1 /\ x = m * q + r
  BY <1>1
<1>3. CASE r + 1 < m
  <2>1. x + 1 = m * q + (r + 1) /\ r + 1 \in 0 .. m - 1
    BY <1>2, <1>3
  <2>2. (x + 1) % m = r + 1
    BY <1>2, <2>1
  <2>3. (r + 1) % m = r + 1
    BY <1>2, <1>3
  <2> QED BY <1>1, <2>2, <2>3
<1>4. CASE r + 1 = m
  <2>1. x + 1 = m * (q + 1) + 0 /\ q + 1 \in Nat
    BY <1>2, <1>4
  <2>2. (x + 1) % m = 0
    BY <1>2, <2>1
  <2>3. (r + 1) % m = 0
    BY <1>2, <1>4
  <2> QED BY <1>1, <2>2, <2>3
<1> QED BY <1>2, <1>3, <1>4

LEMMA NotCut ==
  ASSUME NEW x \in Nat, NEW m \in Nat \ {0}, x < m
  PROVE  x % m = x
OBVIOUS

LEMMA Literals ==
  ASSUME NEW m, IsSmall(m), Len(m) = 3
  PROVE  IntOf[m[3][1]] \in 0 .. MaxU64
BY NumberAssumption DEF IsSmall

LEMMA NoneNumbered ==
  ASSUME NEW ms, NEW n, n = 0
  PROVE  Numbered(ms, 0, n)
<1>1. Explicit(ms, 0) = {}
  BY DEF Explicit
<1>2. Count(ms, 0) = 0 - 1
  BY <1>1 DEF Count
<1>3. Count(ms, 0) + 1 = 0 /\ 0 % (MaxU64 + 1) = 0
  BY <1>2, NumberAssumption
<1> QED BY <1>1, <1>3 DEF Numbered

ValueAt(m, next) == IF Len(m) = 3 THEN IntOf[m[3][1]] ELSE next

\* One turn of the loop gives a member its number.
LEMMA NumbersOne ==
  ASSUME NEW ms, Len(ms) \in Nat, \A j \in 1 .. Len(ms) : IsSmall(ms[j]),
         NEW k \in 1 .. Len(ms), NEW next, Numbered(ms, k - 1, next),
         NEW value, value = ValueAt(ms[k], next)
  PROVE  /\ value = Stored(ms, k) /\ value \in Nat
         /\ Numbered(ms, k, (value + 1) % (MaxU64 + 1))
<1>1. PICK m : m = MaxU64 + 1
  OBVIOUS
<1>2. m \in Nat \ {0} /\ MaxU64 \in Nat
  BY <1>1, NumberAssumption
<1>3. PICK E, D : E = Explicit(ms, k) /\ D = Explicit(ms, k - 1)
  OBVIOUS
<1>4. /\ D \subseteq 1 .. k - 1
      /\ E = D \cup {j \in {k} : Len(ms[j]) = 3}
  BY <1>3 DEF Explicit
<1>5. PICK c : c = Count(ms, k)
  OBVIOUS
<1>6. ASSUME c \in Nat, value = c % m PROVE /\ value = Stored(ms, k) /\ value \in Nat
                                            /\ c + 1 \in Nat
                                            /\ (value + 1) % m = (c + 1) % m
  <2>1. ((c % m) + 1) % m = (c + 1) % m
    BY <1>2, <1>6, CutTwice
  <2>2. (value + 1) % m = (c + 1) % m
    BY <1>6, <2>1
  <2>3. c + 1 \in Nat /\ value \in Nat
    BY <1>2, <1>6
  <2>4. value = Stored(ms, k)
    BY <1>1, <1>5, <1>6 DEF Stored
  <2> QED BY <2>2, <2>3, <2>4
<1>7. CASE Len(ms[k]) = 3
  <2>1. IsLast(k, E) /\ k \in E
    BY <1>4, <1>7 DEF IsLast
  <2>2. \A j : IsLast(j, E) => j = k
    <3>1. \A j \in E : j \in Int
      BY <1>4
    <3> QED BY <2>1, <3>1 DEF IsLast
  <2>3. (CHOOSE j \in E : IsLast(j, E)) = k
    BY <2>1, <2>2
  <2>4. c = IntOf[ms[k][3][1]] + (k - k)
    BY <1>3, <1>5, <2>1, <2>3 DEF Count
  <2>5. IntOf[ms[k][3][1]] \in 0 .. MaxU64
    BY <1>7, Literals
  <2>6. c = value /\ c \in Nat /\ c < m
    BY <1>1, <1>2, <1>7, <2>4, <2>5 DEF ValueAt
  <2>7. c % m = c
    BY <1>2, <2>6, NotCut
  <2>8. /\ value = Stored(ms, k) /\ value \in Nat /\ c + 1 \in Nat
        /\ (value + 1) % m = (c + 1) % m
    BY <1>6, <2>6, <2>7
  <2> QED BY <1>1, <1>3, <1>5, <2>1, <2>8 DEF Numbered
<1>8. CASE Len(ms[k]) # 3
  <2>1. E = D
    BY <1>4, <1>8
  <2>2. value = (Count(ms, k - 1) + 1) % m /\ Count(ms, k - 1) + 1 \in Nat
    BY <1>1, <1>8 DEF Numbered, ValueAt
  <2>3. c = Count(ms, k - 1) + 1
    <3>1. CASE D = {}
      <4>1. c = k - 1
        BY <1>3, <1>5, <2>1, <3>1 DEF Count
      <4>2. Count(ms, k - 1) = (k - 1) - 1
        BY <1>3, <3>1 DEF Count
      <4> QED BY <4>1, <4>2
    <3>2. CASE D # {}
      <4>1. PICK last : last = CHOOSE j \in D : IsLast(j, D)
        OBVIOUS
      <4>2. last \in D
        BY <1>3, <3>2, <4>1 DEF Numbered, IsLast
      <4>3. last \in 1 .. k - 1 /\ Len(ms[last]) = 3
        BY <1>3, <4>2 DEF Explicit
      <4>4. PICK v : v = IntOf[ms[last][3][1]]
        OBVIOUS
      <4>5. v \in Nat
        BY <1>2, <4>3, <4>4, Literals
      <4>6. c = v + (k - last) /\ Count(ms, k - 1) = v + ((k - 1) - last)
        BY <1>3, <1>5, <2>1, <3>2, <4>1, <4>4 DEF Count
      <4> QED BY <4>3, <4>5, <4>6
    <3> QED BY <3>1, <3>2
  <2>4. /\ value = Stored(ms, k) /\ value \in Nat /\ c + 1 \in Nat
        /\ (value + 1) % m = (c + 1) % m
    BY <1>6, <2>2, <2>3
  <2>5. E # {} => \E j \in E : IsLast(j, E)
    BY <1>3, <2>1 DEF Numbered
  <2> QED BY <1>1, <1>3, <1>5, <2>4, <2>5 DEF Numbered
<1> QED BY <1>7, <1>8

-----------------------------------------------------------------------------
(* Kinds of places *)

LEMMA TypePlaceIs ==
  ASSUME NEW f \in DOMAIN progs, NEW i \in DOMAIN Items(progs[f]), NEW c, c = <<f, i, 0>>,
         ItemAt(c)[1] \in {"StructDecl", "EnumDecl"}
  PROVE  c \in TypePlaces
BY AnItem DEF TypePlaces

LEMMA NoPart ==
  ASSUME TreesOK, NEW f, NEW i, NEW c, c = <<f, i, 0>>
  PROVE  c \notin AllParts
<1> SUFFICES ASSUME c \in AllParts PROVE FALSE
  OBVIOUS
<1>1. PICK u \in DOMAIN progs :
        \E j \in DOMAIN Items(progs[u]) :
          \E k \in 1 .. PartCount(Items(progs[u])[j]) : c = <<u, j, k>>
  BY APart
<1>2. PICK j \in DOMAIN Items(progs[u]) :
        \E k \in 1 .. PartCount(Items(progs[u])[j]) : c = <<u, j, k>>
  BY <1>1
<1>3. PICK k \in 1 .. PartCount(Items(progs[u])[j]) : c = <<u, j, k>>
  BY <1>2
<1>4. k = 0 /\ k >= 1
  BY <1>3
<1> QED BY <1>4

LEMMA TypesAre ==
  ASSUME TreesOK, NEW c \in TypePlaces
  PROVE  /\ c[3] = 0 /\ c \in Places /\ ItemAt(c)[1] \in {"StructDecl", "EnumDecl"}
         /\ \E u, i : c = <<u, i, 0>> /\ IsPlace(u, i, 0)
<1>1. c \in AllItems /\ ItemAt(c)[1] \in {"StructDecl", "EnumDecl"}
  BY DEF TypePlaces
<1>2. PICK u \in DOMAIN progs : \E i \in DOMAIN Items(progs[u]) : c = <<u, i, 0>>
  BY <1>1, AnItem
<1>3. PICK i \in DOMAIN Items(progs[u]) : c = <<u, i, 0>>
  BY <1>2
<1>4. IsPlace(u, i, 0)
  BY DEF IsPlace
<1>5. c \in Places
  BY <1>3, <1>4, PlaceIs
<1> QED BY <1>1, <1>3, <1>4, <1>5

\* A type stands for the place that it is declared at.
LEMMA TypeMeans ==
  ASSUME TreesOK, NEW c \in TypePlaces
  PROVE  StoredMeaning(c).pos = c
<1>1. PICK it : it = ItemAt(c)
  OBVIOUS
<1>2. c[3] = 0 /\ it[1] \in {"StructDecl", "EnumDecl"}
  BY <1>1, TypesAre
<1>3. CASE it[1] = "StructDecl"
  <2>1. StoredMeaning(c) = [kind |-> "struct", pos |-> c]
    BY <1>1, <1>3 DEF StoredMeaning
  <2> QED BY <2>1
<1>4. CASE it[1] = "EnumDecl"
  <2>1. StoredMeaning(c) = [kind |-> "enum", pos |-> c]
    BY <1>1, <1>2, <1>4 DEF StoredMeaning
  <2> QED BY <2>1
<1> QED BY <1>2, <1>3, <1>4

LEMMA NotBoth ==
  ASSUME TreesOK, NEW p \in Places, NEW q \in Places
  PROVE  ~(Before(p, q) /\ Before(q, p))
<1>1. PICK u, j, l : p = <<u, j, l>> /\ IsPlace(u, j, l)
  BY PlaceIs
<1>2. PICK f, i, k : q = <<f, i, k>> /\ IsPlace(f, i, k)
  BY PlaceIs
<1>3. u \in Nat /\ j \in Nat /\ l \in Nat /\ f \in Nat /\ i \in Nat /\ k \in Nat
  BY <1>1, <1>2, Numbers
<1>4. ~(Earlier(u, j, l, f, i, k) /\ Earlier(f, i, k, u, j, l))
  BY <1>3 DEF Earlier
<1> QED BY <1>1, <1>2, <1>4, EarlierIs

\* The item of a place is behind the place, or is it.
LEMMA ItemBehind ==
  ASSUME TreesOK, NEW f, NEW i, NEW k, IsPlace(f, i, k), NEW c, c = <<f, i, k>>,
         NEW a, a = <<f, i, 0>>
  PROVE  /\ k # 0 => a \in Visited(c)
         /\ a \in Visited(c) \cup {c}
         /\ \A q \in TypePlaces : Before(q, a) => q \in Visited(c)
<1>1. f \in Nat /\ i \in Nat /\ k \in Nat
  BY Numbers
<1>2. IsPlace(f, i, 0)
  BY DEF IsPlace
<1>3. k # 0 => a \in Visited(c)
  <2> SUFFICES ASSUME k # 0 PROVE a \in Visited(c)
    OBVIOUS
  <2>1. Earlier(f, i, 0, f, i, k)
    BY <1>1 DEF Earlier
  <2> QED BY <1>2, <2>1, VisitedIs
<1>4. a \in Visited(c) \cup {c}
  BY <1>3
<1>5. ASSUME NEW q \in TypePlaces, Before(q, a) PROVE q \in Visited(c)
  <2>1. PICK u, j : q = <<u, j, 0>> /\ IsPlace(u, j, 0)
    BY TypesAre
  <2>2. Earlier(u, j, 0, f, i, 0)
    BY <1>5, <2>1, EarlierIs
  <2>3. u \in Nat /\ j \in Nat
    BY <2>1, Numbers
  <2>4. Earlier(u, j, 0, f, i, k)
    BY <1>1, <2>2, <2>3 DEF Earlier
  <2> QED BY <2>1, <2>4, VisitedIs
<1> QED BY <1>3, <1>4, <1>5

\* sema has an enum exactly if no type before it has its name.
LEMMA HasTheFirst ==
  ASSUME TreesOK, NEW f, NEW i, NEW k, IsPlace(f, i, k), NEW c, c = <<f, i, k>>,
         NEW a, a = <<f, i, 0>>, a \in TypePlaces,
         NEW t, FirstHolds(t, (Visited(c) \cup {c}) \cap TypePlaces)
  PROVE  t[NameAt(a)].pos = a <=> a \notin Again
<1>1. PICK T : T = (Visited(c) \cup {c}) \cap TypePlaces
  OBVIOUS
<1>2. a \in T
  BY <1>1, ItemBehind
<1>3. NameAt(a) \in DOMAIN t
  BY <1>1, <1>2 DEF FirstHolds
<1>4. PICK q \in T : /\ NameAt(q) = NameAt(a) /\ t[NameAt(a)] = StoredMeaning(q)
                     /\ \A r \in T : NameAt(r) = NameAt(a) => r = q \/ Before(q, r)
  BY <1>1, <1>3 DEF FirstHolds
<1>5. q \in TypePlaces
  BY <1>1
<1>6. t[NameAt(a)].pos = q
  BY <1>4, <1>5, TypeMeans
<1>7. ASSUME q = a, a \in Again PROVE FALSE
  <2>1. PICK r \in TypePlaces : NameAt(r) = NameAt(a) /\ Before(r, a)
    BY <1>7 DEF Again
  <2>2. r \in T
    BY <1>1, <2>1, ItemBehind
  <2>3. r = a \/ Before(a, r)
    BY <1>4, <1>7, <2>1, <2>2
  <2>4. r \in Places /\ a \in Places
    BY TypesAre
  <2> QED BY <2>1, <2>3, <2>4, NotBoth
<1>8. ASSUME q # a, a \notin Again PROVE FALSE
  <2>1. Before(q, a)
    BY <1>2, <1>4, <1>8
  <2> QED BY <1>4, <1>5, <1>8, <2>1 DEF Again
<1> QED BY <1>6, <1>7, <1>8

LEMMA EnumName ==
  ASSUME NEW a, a[3] = 0, ItemAt(a)[1] = "EnumDecl"
  PROVE  NameAt(a) = ItemAt(a)[2][1]
BY DEF NameAt

\* The loop behind an item takes the turns that the places say.
LEMMA PartsAre ==
  ASSUME TreesOK, NEW f, NEW i, NEW k, IsPlace(f, i, k), NEW c, c = <<f, i, k>>,
         NEW it, it = ItemAt(c), NEW s,
         FirstHolds(s.types, (Visited(c) \cup {c}) \cap TypePlaces)
  PROVE  Parts(s, it, <<f, i, 0>>) = Turns(f, i)
<1>1. PICK a : a = <<f, i, 0>>
  OBVIOUS
<1>2. a[3] = 0 /\ ItemAt(a) = it /\ it = Items(progs[f])[i]
  BY <1>1, ItemIs
<1>3. f \in DOMAIN progs /\ i \in DOMAIN Items(progs[f])
  BY DEF IsPlace
<1>4. Turns(f, i) = IF a \in Again THEN 0 ELSE PartCount(it)
  BY <1>1, <1>2 DEF Turns
<1>5. CASE it[1] = "EnumDecl"
  <2>1. a \in TypePlaces
    BY <1>1, <1>2, <1>3, <1>5, TypePlaceIs
  <2>2. NameAt(a) = it[2][1]
    BY <1>2, <1>5, EnumName
  <2>3. PICK t : t = s.types
    OBVIOUS
  <2>4. FirstHolds(t, (Visited(c) \cup {c}) \cap TypePlaces)
    BY <2>3
  <2>5. t[NameAt(a)].pos = a <=> a \notin Again
    BY <1>1, <2>1, <2>4, HasTheFirst
  <2>6. s.types[it[2][1]].pos = a <=> a \notin Again
    BY <2>2, <2>3, <2>5
  <2>7. PartCount(it) = Len(Members(it))
    BY <1>5 DEF PartCount
  <2>8. Parts(s, it, a) = IF s.types[it[2][1]].pos = a THEN Len(Members(it)) ELSE 0
    BY <1>5 DEF Parts
  <2> QED BY <1>1, <1>4, <2>6, <2>7, <2>8
<1>6. CASE it[1] = "ExternBlock"
  <2>1. a \notin Again
    BY <1>2, <1>6 DEF Again, TypePlaces
  <2>2. Parts(s, it, a) = Len(it) - 2 /\ PartCount(it) = Len(it) - 2
    BY <1>6 DEF Parts, PartCount
  <2> QED BY <1>1, <1>4, <2>1, <2>2
<1>7. CASE it[1] \notin {"EnumDecl", "ExternBlock"}
  <2>1. Parts(s, it, a) = 0 /\ PartCount(it) = 0
    BY <1>7 DEF Parts, PartCount
  <2> QED BY <1>1, <1>4, <2>1
<1> QED BY <1>5, <1>6, <1>7

-----------------------------------------------------------------------------
(* One turn of collect_program *)

LEMMA NextAside ==
  ASSUME NEW x, SemaOK(x), NEW S, Tables(x, S), NEW n, NEW e, e = [x EXCEPT !.next = n]
  PROVE  Tables(e, S) /\ e.next = n
<1>1. e = [types |-> x.types, values |-> x.values, next |-> n, diag |-> x.diag]
  BY DEF SemaOK, IsSema
<1>2. e.types = x.types /\ e.values = x.values /\ e.next = n /\ e.diag = x.diag
  BY <1>1
<1> QED BY <1>2 DEF Tables

LEMMA JudgedSound ==
  ASSUME NEW s, NEW c, StoredSound(c)
  PROVE  Judged(s, s, c)
BY DEF Judged

\* The places of an item and of what is in it.
LEMMA StructItem ==
  ASSUME TreesOK, NEW f, NEW i, IsPlace(f, i, 0), NEW c, c = <<f, i, 0>>,
         NEW it, it = ItemAt(c), it[1] = "StructDecl",
         NEW s, SemaOK(s), NEW S, Tables(s, S), Behind(S, c),
         NEW e, e = collect_struct(s, it, c)
  PROVE  Tables(e, S \cup {c})
<1>1. c \in TypePlaces
  BY TypePlaceIs DEF IsPlace
<1>2. c \notin ValuePlaces
  BY NoPart DEF ValuePlaces
<1>3. PICK name, ty, first : name = it[2][1] /\ ty = [kind |-> "struct", pos |-> c]
                             /\ first = s.types[name].pos
  OBVIOUS
<1>4. NameAt(c) = name
  BY <1>3 DEF NameAt
<1>5. StoredMeaning(c) = ty
  BY <1>3 DEF StoredMeaning
<1>6. StoredSound(c)
  BY DEF StoredSound
<1>7. e = IF name \in DOMAIN s.types THEN Duplicate(s, c, first) ELSE AddType(s, name, ty)
  BY <1>3 DEF collect_struct
<1>8. e = IF NameAt(c) \in DOMAIN s.types THEN Duplicate(s, c, first)
          ELSE AddType(s, NameAt(c), StoredMeaning(c))
  BY <1>4, <1>5, <1>7
<1>9. Judged(s, s, c)
  BY <1>6, JudgedSound
<1> QED BY <1>1, <1>2, <1>8, <1>9, TypePlace

LEMMA EnumItem ==
  ASSUME TreesOK, NEW f, NEW i, IsPlace(f, i, 0), NEW c, c = <<f, i, 0>>,
         NEW it, it = ItemAt(c), it[1] = "EnumDecl",
         NEW s, SemaOK(s), NEW S, S = Visited(c), Tables(s, S), Behind(S, c),
         NEW e, e = collect_enum(s, it, c)
  PROVE  Tables(e, S \cup {c}) /\ (c \notin Again => e.next = 0)
<1>1. c \in TypePlaces
  BY TypePlaceIs DEF IsPlace
<1>2. c \notin ValuePlaces
  BY NoPart DEF ValuePlaces
<1>3. c[3] = 0
  OBVIOUS
<1>4. PICK s1 : s1 = IF Integer(it) THEN s ELSE Error(s, c)
  OBVIOUS
<1>5. PICK name, ty, first : name = it[2][1] /\ ty = [kind |-> "enum", pos |-> c]
                             /\ first = s1.types[name].pos
  OBVIOUS
<1>6. NameAt(c) = name
  BY <1>3, <1>5, EnumName
<1>7. StoredMeaning(c) = ty
  BY <1>3, <1>5 DEF StoredMeaning
<1>8. StoredSound(c) <=> Integer(it)
  BY <1>3 DEF StoredSound, Integer
<1>9. SemaOK(s1)
  BY <1>4, ErrorOK
<1>10. Judged(s, s1, c)
  <2>1. CASE Integer(it)
    BY <1>4, <1>8, <2>1, JudgedSound
  <2>2. CASE ~Integer(it)
    <3>1. s1 = Error(s, c)
      BY <1>4, <2>2
    <3>2. s1.types = s.types /\ s1.values = s.values /\ s1.diag.count # 0
      BY <3>1, ErrorCounts
    <3> QED BY <1>8, <2>2, <3>2 DEF Judged
  <2> QED BY <2>1, <2>2
<1>11. s1.types = s.types
  BY <1>10 DEF Judged
<1>12. PICK new : new = AddType(s1, name, ty)
  OBVIOUS
<1>13. PICK dup : dup = Duplicate(s1, c, first)
  OBVIOUS
<1>14. e = IF name \in DOMAIN s.types THEN dup ELSE [new EXCEPT !.next = 0]
  BY <1>4, <1>5, <1>11, <1>12, <1>13 DEF collect_enum
<1>15. PICK x : x = IF NameAt(c) \in DOMAIN s1.types THEN Duplicate(s1, c, first)
                    ELSE AddType(s1, NameAt(c), StoredMeaning(c))
  OBVIOUS
<1>16. Tables(x, S \cup {c})
  BY <1>1, <1>2, <1>9, <1>10, <1>15, TypePlace
<1>17. CASE name \in DOMAIN s.types
  <2>1. e = x
    BY <1>6, <1>11, <1>13, <1>14, <1>15, <1>17
  <2>2. PICK p \in S \cap TypePlaces : NameAt(p) = NameAt(c)
    BY <1>6, <1>17 DEF Tables, FirstHolds
  <2>3. c \in Again
    BY <1>1, <2>2 DEF Again, Behind
  <2> QED BY <1>16, <2>1, <2>3
<1>18. CASE name \notin DOMAIN s.types
  <2>1. x = new /\ e = [x EXCEPT !.next = 0]
    BY <1>6, <1>7, <1>11, <1>12, <1>14, <1>15, <1>18
  <2>2. SemaOK(x)
    BY <1>9, <1>12, <2>1, AddTypeOK
  <2> QED BY <1>16, <2>1, <2>2, NextAside
<1> QED BY <1>17, <1>18

LEMMA ValueItem ==
  ASSUME TreesOK, NEW f, NEW i, IsPlace(f, i, 0), NEW c, c = <<f, i, 0>>,
         NEW it, it = ItemAt(c), it[1] \in {"FnDecl", "GlobalDecl"},
         NEW s, SemaOK(s), NEW S, Tables(s, S), Behind(S, c),
         NEW e, e = IF it[1] = "FnDecl" THEN collect_fn(s, it[2], c) ELSE collect_global(s, it, c)
  PROVE  Tables(e, S \cup {c})
<1>1. c \notin TypePlaces
  BY DEF TypePlaces
<1>2. c \in AllItems
  BY AnItem DEF IsPlace
<1>3. c \in ValuePlaces
  BY <1>2 DEF ValuePlaces
<1>4. StoredSound(c)
  BY DEF StoredSound
<1>5. Judged(s, s, c)
  BY <1>4, JudgedSound
<1>6. PICK sym : sym = StoredMeaning(c)
  OBVIOUS
<1>7. e = AddValue(s, NameAt(c), sym)
  <2>1. CASE it[1] = "FnDecl"
    <3>1. NameAt(c) = it[2][2][1]
      BY <2>1 DEF NameAt
    <3>2. sym = [kind |-> "fn", pos |-> c, value |-> 0]
      BY <1>6, <2>1 DEF StoredMeaning
    <3> QED BY <2>1, <3>1, <3>2 DEF collect_fn
  <2>2. CASE it[1] = "GlobalDecl"
    <3>1. PICK name : name = IF it[2] = <<"mut">> THEN it[4] ELSE it[3]
      OBVIOUS
    <3>2. NameAt(c) = name[1]
      BY <2>2, <3>1 DEF NameAt
    <3>3. sym = [kind |-> "global", pos |-> c, value |-> 0]
      BY <1>6, <2>2 DEF StoredMeaning
    <3>4. e = collect_global(s, it, c)
      BY <2>2
    <3> QED BY <3>1, <3>2, <3>3, <3>4, Zenon DEF collect_global
  <2> QED BY <2>1, <2>2
<1> QED BY <1>1, <1>3, <1>5, <1>6, <1>7, ValuePlace

LEMMA OtherItem ==
  ASSUME TreesOK, NEW f, NEW i, IsPlace(f, i, 0), NEW c, c = <<f, i, 0>>,
         NEW it, it = ItemAt(c), it[1] \notin {"StructDecl", "EnumDecl", "FnDecl", "GlobalDecl"},
         NEW s, SemaOK(s), NEW S, Tables(s, S), Behind(S, c),
         NEW e, e = IF it[1] = "ExternBlock" THEN collect_extern(s, it, c) ELSE s
  PROVE  Tables(e, S \cup {c})
<1>1. c \notin TypePlaces /\ c \notin ValuePlaces
  BY NoPart DEF TypePlaces, ValuePlaces
<1>2. Judged(s, e, c)
  <2>1. CASE it[1] = "ExternBlock"
    <3>1. StoredSound(c) <=> it[2][1] = AbiC
      BY <2>1 DEF StoredSound
    <3>2. CASE it[2][1] = AbiC
      BY <2>1, <3>1, <3>2, JudgedSound DEF collect_extern
    <3>3. CASE it[2][1] # AbiC
      <4>1. e = Error(s, c)
        BY <2>1, <3>3 DEF collect_extern
      <4>2. e.types = s.types /\ e.values = s.values /\ e.diag.count # 0
        BY <4>1, ErrorCounts
      <4> QED BY <3>1, <3>3, <4>2 DEF Judged
    <3> QED BY <3>2, <3>3
  <2>2. CASE it[1] # "ExternBlock"
    <3>1. StoredSound(c)
      BY <2>2 DEF StoredSound
    <3> QED BY <2>2, <3>1, JudgedSound
  <2> QED BY <2>1, <2>2
<1> QED BY <1>1, <1>2, NoName

\* An item adds its place to what sema has of the places.
LEMMA ItemAdds ==
  ASSUME TreesOK, NEW f, NEW i, IsPlace(f, i, 0), NEW c, c = <<f, i, 0>>,
         NEW it, it = ItemAt(c),
         NEW s, SemaOK(s), NEW S, S = Visited(c), Tables(s, S), Behind(S, c),
         NEW e, e = collect_item(s, it, c)
  PROVE  /\ Tables(e, S \cup {c})
         /\ it[1] = "EnumDecl" /\ c \notin Again => e.next = 0
<1>1. CASE it[1] = "StructDecl"
  <2>1. e = collect_struct(s, it, c)
    BY <1>1 DEF collect_item
  <2> QED BY <1>1, <2>1, StructItem
<1>2. CASE it[1] = "EnumDecl"
  <2>1. e = collect_enum(s, it, c)
    BY <1>2 DEF collect_item
  <2> QED BY <1>2, <2>1, EnumItem
<1>3. CASE it[1] \in {"FnDecl", "GlobalDecl"}
  <2>1. e = IF it[1] = "FnDecl" THEN collect_fn(s, it[2], c) ELSE collect_global(s, it, c)
    BY <1>3 DEF collect_item
  <2>2. Tables(e, S \cup {c})
    BY <1>3, <2>1, ValueItem
  <2> QED BY <1>3, <2>2
<1>4. CASE it[1] \notin {"StructDecl", "EnumDecl", "FnDecl", "GlobalDecl"}
  <2>1. e = IF it[1] = "ExternBlock" THEN collect_extern(s, it, c) ELSE s
    BY <1>4 DEF collect_item
  <2>2. Tables(e, S \cup {c})
    BY <1>4, <2>1, OtherItem
  <2> QED BY <1>4, <2>2
<1> QED BY <1>1, <1>2, <1>3, <1>4

LEMMA PartPlace ==
  ASSUME TreesOK, NEW f, NEW i, NEW k, IsPlace(f, i, k), k # 0, NEW c, c = <<f, i, k>>
  PROVE  /\ c \in ValuePlaces /\ c \notin TypePlaces
         /\ <<f, i, 0>> \notin Again /\ k \in 1 .. PartCount(ItemAt(c))
         /\ ItemAt(c)[1] \in {"EnumDecl", "ExternBlock"}
<1>1. /\ k \in Nat /\ k >= 1 /\ k <= Turns(f, i) /\ Turns(f, i) \in Int
      /\ f \in DOMAIN progs /\ i \in DOMAIN Items(progs[f])
  BY Numbers DEF IsPlace
<1>2. <<f, i, 0>> \notin Again
  <2> SUFFICES ASSUME <<f, i, 0>> \in Again PROVE FALSE
    OBVIOUS
  <2>1. Turns(f, i) = 0
    BY DEF Turns
  <2> QED BY <1>1, <2>1
<1>3. PICK it : it = ItemAt(c)
  OBVIOUS
<1>4. it = Items(progs[f])[i]
  BY <1>3, ItemIs
<1>5. Turns(f, i) = PartCount(it)
  BY <1>2, <1>4 DEF Turns
<1>6. PartCount(it) \in Int
  BY <1>1, <1>5
<1>7. k \in 1 .. PartCount(it)
  BY <1>1, <1>5
<1>8. it[1] \in {"EnumDecl", "ExternBlock"}
  <2> SUFFICES ASSUME it[1] \notin {"EnumDecl", "ExternBlock"} PROVE FALSE
    OBVIOUS
  <2>1. PartCount(it) = 0
    BY DEF PartCount
  <2> QED BY <1>7, <2>1
<1>9. c \in AllParts
  BY <1>1, <1>4, <1>7, APart
<1>10. c[3] = k
  OBVIOUS
<1>11. c \notin TypePlaces
  BY <1>10, TypesAre
<1> QED BY <1>2, <1>3, <1>7, <1>8, <1>9, <1>11 DEF ValuePlaces

LEMMA MemberPart ==
  ASSUME TreesOK, NEW f, NEW i, NEW k, IsPlace(f, i, k), k # 0, NEW c, c = <<f, i, k>>,
         NEW it, it = ItemAt(c), it[1] = "EnumDecl",
         NEW s, SemaOK(s), NEW S, S = Visited(c), Tables(s, S), Behind(S, c),
         Numbered(Members(it), k - 1, s.next),
         NEW e, e = collect_member(s, it, c)
  PROVE  Tables(e, S \cup {c}) /\ Numbered(Members(it), k, e.next)
<1>1. c \in ValuePlaces /\ c \notin TypePlaces /\ k \in 1 .. PartCount(it)
  BY PartPlace
<1>2. PICK ms : ms = Members(it)
  OBVIOUS
<1>3. it = Items(progs[f])[i] /\ f \in DOMAIN progs /\ i \in DOMAIN Items(progs[f])
  BY ItemIs DEF IsPlace
<1>4. IsItem(it)
  BY <1>3, ItemsAre
<1>5. Len(ms) \in Nat /\ \A j \in 1 .. Len(ms) : IsSmall(ms[j])
  BY <1>2, <1>4, MembersAre
<1>6. k \in 1 .. Len(ms)
  BY <1>1, <1>2 DEF PartCount
<1>7. PICK m, base : m = ms[k] /\ base = IF Integer(it) THEN BaseOf(it) ELSE "i32"
  OBVIOUS
<1>8. PICK value : value = IF Len(m) = 3 THEN IntOf[m[3][1]] ELSE s.next
  OBVIOUS
<1>9. PICK n : n = (value + 1) % (MaxU64 + 1)
  OBVIOUS
<1>10. value = Stored(ms, k) /\ value \in Nat /\ Numbered(ms, k, n)
  <2>1. PICK next : next = s.next
    OBVIOUS
  <2>2. Numbered(ms, k - 1, next)
    BY <1>2, <2>1
  <2>3. value = ValueAt(ms[k], next)
    BY <1>7, <1>8, <2>1 DEF ValueAt
  <2>4. /\ value = Stored(ms, k) /\ value \in Nat
        /\ Numbered(ms, k, (value + 1) % (MaxU64 + 1))
    BY <1>5, <1>6, <2>2, <2>3, NumbersOne
  <2> QED BY <1>9, <2>4
<1>11. PICK fits : fits = IF value > MaxOf[base] THEN Error(s, c) ELSE s
  OBVIOUS
<1>12. SemaOK(fits)
  BY <1>11, ErrorOK
<1>13. c[3] = k
  OBVIOUS
<1>14. StoredSound(c) <=> BaseOf(it) \in IntegerType /\ value <= MaxOf[BaseOf(it)]
  BY <1>2, <1>10, <1>13 DEF StoredSound
<1>15. Judged(s, fits, c)
  <2>1. PICK bad : bad = Error(s, c)
    OBVIOUS
  <2>2. bad.types = s.types /\ bad.values = s.values /\ bad.diag.count # 0
    BY <2>1, ErrorCounts
  <2>3. CASE Integer(it)
    <3>1. base = BaseOf(it) /\ BaseOf(it) \in IntegerType
      BY <1>7, <2>3 DEF Integer
    <3>2. MaxOf[base] \in Nat
      BY <3>1, NumberAssumption
    <3>3. value > MaxOf[base] <=> ~StoredSound(c)
      BY <1>10, <1>14, <3>1, <3>2
    <3> QED BY <1>11, <2>1, <2>2, <3>3 DEF Judged
  <2>4. CASE ~Integer(it)
    <3>1. PICK a : a = <<f, i, 0>>
      OBVIOUS
    <3>2. ItemAt(a) = it /\ a \in S
      BY <1>3, <3>1, ItemIs, ItemBehind
    <3>3. ~StoredSound(a) /\ ~StoredSound(c)
      BY <1>14, <2>4, <3>2 DEF StoredSound, Integer
    <3>4. s.diag.count # 0
      BY <3>2, <3>3 DEF Tables, Clean
    <3>5. fits = bad \/ fits = s
      BY <1>11, <2>1
    <3> QED BY <2>2, <3>3, <3>4, <3>5 DEF Judged
  <2> QED BY <2>3, <2>4
<1>16. NameAt(c) = m[2][1]
  BY <1>2, <1>7, <1>13 DEF NameAt
<1>17. PICK sym : sym = [kind |-> "member", pos |-> c, value |-> value]
  OBVIOUS
<1>18. sym = StoredMeaning(c)
  BY <1>2, <1>10, <1>13, <1>17 DEF StoredMeaning
<1>19. PICK x : x = AddValue(fits, m[2][1], sym)
  OBVIOUS
<1>20. Tables(x, S \cup {c})
  BY <1>1, <1>12, <1>15, <1>16, <1>18, <1>19, ValuePlace
<1>21. SemaOK(x)
  BY <1>12, <1>19, AddValueOK
<1>22. e = [x EXCEPT !.next = n]
  BY <1>2, <1>7, <1>8, <1>9, <1>11, <1>13, <1>17, <1>19, Zenon DEF collect_member
<1>23. Tables(e, S \cup {c}) /\ e.next = n
  BY <1>20, <1>21, <1>22, NextAside
<1> QED BY <1>2, <1>10, <1>23

LEMMA ExternPart ==
  ASSUME TreesOK, NEW f, NEW i, NEW k, IsPlace(f, i, k), k # 0, NEW c, c = <<f, i, k>>,
         NEW it, it = ItemAt(c), it[1] = "ExternBlock",
         NEW s, SemaOK(s), NEW S, S = Visited(c), Tables(s, S), Behind(S, c),
         NEW e, e = collect_fn(s, it[k + 2], c)
  PROVE  Tables(e, S \cup {c})
<1>1. c \in ValuePlaces /\ c \notin TypePlaces
  BY PartPlace
<1>2. PICK a : a = <<f, i, 0>>
  OBVIOUS
<1>3. ItemAt(a) = it /\ a \in S
  BY <1>2, ItemIs, ItemBehind
<1>4. StoredSound(c) <=> StoredSound(a)
  BY <1>3 DEF StoredSound
<1>5. s.diag.count = 0 => StoredSound(c)
  BY <1>3, <1>4 DEF Tables, Clean
<1>6. Judged(s, s, c)
  BY <1>5 DEF Judged
<1>7. c[3] = k
  OBVIOUS
<1>8. NameAt(c) = it[k + 2][2][1]
  BY <1>7 DEF NameAt
<1>9. PICK sym : sym = [kind |-> "fn", pos |-> c, value |-> 0]
  OBVIOUS
<1>10. sym = StoredMeaning(c)
  BY <1>9 DEF StoredMeaning
<1>11. e = AddValue(s, NameAt(c), sym)
  BY <1>8, <1>9 DEF collect_fn
<1> QED BY <1>1, <1>6, <1>10, <1>11, ValuePlace

\* A part adds its place, and leaves the next number when it is a member.
LEMMA PartAdds ==
  ASSUME TreesOK, NEW f, NEW i, NEW k, IsPlace(f, i, k), k # 0, NEW c, c = <<f, i, k>>,
         NEW it, it = ItemAt(c),
         NEW s, SemaOK(s), NEW S, S = Visited(c), Tables(s, S), Behind(S, c),
         it[1] = "EnumDecl" => Numbered(Members(it), k - 1, s.next),
         NEW e, e = collect_part(s, it, c)
  PROVE  /\ Tables(e, S \cup {c})
         /\ it[1] = "EnumDecl" => Numbered(Members(it), k, e.next)
<1>1. it[1] \in {"EnumDecl", "ExternBlock"} /\ c[3] = k
  BY PartPlace
<1>2. CASE it[1] = "EnumDecl"
  <2>1. e = collect_member(s, it, c)
    BY <1>2 DEF collect_part
  <2> QED BY <1>2, <2>1, MemberPart
<1>3. CASE it[1] = "ExternBlock"
  <2>1. e = collect_fn(s, it[k + 2], c)
    BY <1>1, <1>3 DEF collect_part
  <2>2. Tables(e, S \cup {c})
    BY <1>3, <2>1, ExternPart
  <2> QED BY <1>3, <2>2
<1> QED BY <1>1, <1>2, <1>3

\* A turn of collect_program.
LEMMA TurnAdds ==
  ASSUME TreesOK, NEW f, NEW i, NEW k, IsPlace(f, i, k), NEW c, c = <<f, i, k>>,
         NEW it, it = ItemAt(c), NEW s, SemaOK(s), SoFar(c, s),
         NEW e, e = IF k = 0 THEN collect_item(s, it, c) ELSE collect_part(s, it, c),
         NEW n, n = IF k < Parts(e, it, <<f, i, 0>>) THEN <<f, i, k + 1>> ELSE <<f, i + 1, 0>>
  PROVE  SoFar(n, e)
<1>1. PICK on : on = IF k < Turns(f, i) THEN <<f, i, k + 1>> ELSE <<f, i + 1, 0>>
  OBVIOUS
<1>2. PICK S : S = Visited(c)
  OBVIOUS
<1>3. Visited(on) = S \cup {c} /\ Behind(S, c) /\ CursorOK(on)
  BY <1>1, <1>2, OnePlaceOn
<1>4. Tables(s, S)
  BY <1>2 DEF SoFar
<1>5. c[1] = f /\ c[2] = i /\ c[3] = k
  OBVIOUS
<1>6. InItem(c)
  BY <1>5 DEF InItem, IsPlace
<1>7. k # 0 /\ it[1] = "EnumDecl" => Numbered(Members(it), k - 1, s.next)
  BY <1>5, <1>6 DEF SoFar
<1>8. /\ Tables(e, S \cup {c})
      /\ it[1] = "EnumDecl" /\ <<f, i, 0>> \notin Again => Numbered(Members(it), k, e.next)
  <2>1. CASE k = 0
    <3>1. /\ Tables(e, S \cup {c})
          /\ it[1] = "EnumDecl" /\ c \notin Again => e.next = 0
      BY <1>2, <1>3, <1>4, <2>1, ItemAdds
    <3>2. e.next = 0 => Numbered(Members(it), 0, e.next)
      BY NoneNumbered
    <3> QED BY <2>1, <3>1, <3>2
  <2>2. CASE k # 0
    BY <1>2, <1>3, <1>4, <1>7, <2>2, PartAdds
  <2> QED BY <2>1, <2>2
<1>9. FirstHolds(e.types, (Visited(c) \cup {c}) \cap TypePlaces)
  BY <1>2, <1>8 DEF Tables
<1>10. Parts(e, it, <<f, i, 0>>) = Turns(f, i)
  BY <1>9, PartsAre
<1>11. n = on
  BY <1>1, <1>10
<1>12. Tables(e, Visited(n))
  BY <1>3, <1>8, <1>11
<1>13. ASSUME InItem(n), n[3] # 0, ItemAt(n)[1] = "EnumDecl"
       PROVE  Numbered(Members(ItemAt(n)), n[3] - 1, e.next)
  <2>1. k < Turns(f, i)
    <3> SUFFICES ASSUME ~(k < Turns(f, i)) PROVE FALSE
      OBVIOUS
    <3>1. n = <<f, i + 1, 0>>
      BY <1>1, <1>11
    <3> QED BY <1>13, <3>1
  <2>2. n = <<f, i, k + 1>>
    BY <1>1, <1>11, <2>1
  <2>3. n[3] = k + 1 /\ ItemAt(n) = it
    BY <2>2, ItemIs
  <2>4. k \in Nat
    BY DEF IsPlace
  <2>5. <<f, i, 0>> \notin Again
    <3> SUFFICES ASSUME <<f, i, 0>> \in Again PROVE FALSE
      OBVIOUS
    <3>1. Turns(f, i) = 0
      BY DEF Turns
    <3> QED BY <2>1, <2>4, <3>1
  <2>6. n[3] - 1 = k
    BY <2>3, <2>4
  <2> QED BY <1>8, <1>13, <2>3, <2>5, <2>6
<1> QED BY <1>3, <1>11, <1>12, <1>13 DEF SoFar

LEMMA FileAdds ==
  ASSUME TreesOK, NEW f \in DOMAIN progs, NEW i \in Nat, i > Len(Items(progs[f])),
         NEW k, NEW c, c = <<f, i, k>>, NEW s, SoFar(c, s), NEW n, n = <<f + 1, 1, 0>>
  PROVE  SoFar(n, s)
<1>1. Visited(n) = Visited(c) /\ CursorOK(n)
  BY OneFileOn
<1>2. n[3] = 0
  OBVIOUS
<1> QED BY <1>1, <1>2 DEF SoFar

-----------------------------------------------------------------------------
(* The trees stay as they are, and so do the places. *)

LEMMA SamePlaces ==
  ASSUME progs' = progs
  PROVE  /\ AllItems' = AllItems /\ AllParts' = AllParts
         /\ TypePlaces' = TypePlaces /\ ValuePlaces' = ValuePlaces
         /\ Again' = Again /\ Places' = Places
BY DEF AllItems, AllParts, TypePlaces, ValuePlaces, Again, Places, ItemAt, NameAt, PartCount

LEMMA SameMeanings ==
  ASSUME progs' = progs
  PROVE  \A p : NameAt(p)' = NameAt(p) /\ StoredMeaning(p)' = StoredMeaning(p) /\ (StoredSound(p)' <=> StoredSound(p))
BY DEF ItemAt, NameAt, StoredMeaning, StoredSound

LEMMA SameTables ==
  ASSUME progs' = progs, NEW S
  PROVE  (\A t : FirstHolds(t, S)' <=> FirstHolds(t, S)) /\ (Clean(S)' <=> Clean(S))
<1>1. \A p : NameAt(p)' = NameAt(p) /\ StoredMeaning(p)' = StoredMeaning(p) /\ (StoredSound(p)' <=> StoredSound(p))
  BY SameMeanings
<1>2. TypePlaces' = TypePlaces /\ ValuePlaces' = ValuePlaces
  BY SamePlaces
<1>3. \A t : FirstHolds(t, S)' <=> FirstHolds(t, S)
  BY <1>1 DEF FirstHolds
<1>4. \A P : OneEach(P)' <=> OneEach(P)
  BY <1>1 DEF OneEach
<1>5. Clean(S)' <=> Clean(S)
  BY <1>1, <1>2, <1>4 DEF Clean
<1> QED BY <1>3, <1>5

LEMMA SameVisited ==
  ASSUME progs' = progs, NEW c
  PROVE  /\ Visited(c)' = Visited(c) /\ ItemAt(c)' = ItemAt(c)
         /\ (InItem(c)' <=> InItem(c)) /\ (CursorOK(c)' <=> CursorOK(c))
<1>1. Visited(c)' = Visited(c)
  BY SamePlaces DEF Visited
<1>2. ItemAt(c)' = ItemAt(c)
  BY DEF ItemAt
<1>3. InItem(c)' <=> InItem(c)
  BY DEF InItem
<1>4. \A u, i : Turns(u, i)' = Turns(u, i)
  BY SamePlaces DEF Turns
<1>5. \A u, i, k : IsPlace(u, i, k)' <=> IsPlace(u, i, k)
  BY <1>4 DEF IsPlace
<1>6. CursorOK(c)' <=> CursorOK(c)
  BY <1>3, <1>5 DEF CursorOK
<1> QED BY <1>1, <1>2, <1>3, <1>6

LEMMA SameSoFar ==
  ASSUME progs' = progs, NEW c, NEW s, SoFar(c, s)
  PROVE  SoFar(c, s)'
<1>1. /\ Visited(c)' = Visited(c) /\ ItemAt(c)' = ItemAt(c)
      /\ (InItem(c)' <=> InItem(c)) /\ (CursorOK(c)' <=> CursorOK(c))
  BY SameVisited
<1>2. PICK S : S = Visited(c)
  OBVIOUS
<1>3. Tables(s, S)
  BY <1>2 DEF SoFar
<1>4. TypePlaces' = TypePlaces /\ ValuePlaces' = ValuePlaces
  BY SamePlaces
<1>5. \A P : (\A t : FirstHolds(t, P)' <=> FirstHolds(t, P)) /\ (Clean(P)' <=> Clean(P))
  BY SameTables
<1>6. Tables(s, S)'
  BY <1>3, <1>4, <1>5 DEF Tables
<1>7. Tables(s, Visited(c))'
  BY <1>1, <1>2, <1>6
<1> QED BY <1>1, <1>7 DEF SoFar

LEMMA SoFarNow ==
  ASSUME progs' = progs, NEW c, NEW s, cursor' = c, sema' = s, SoFar(c, s)
  PROVE  SoFar(cursor, sema)'
<1>1. SoFar(c, s)'
  BY SameSoFar
<1> QED BY <1>1

-----------------------------------------------------------------------------
(* Collection *)

LEMMA SoFarStarts ==
  ASSUME TreesOK, NEW c, c = <<1, 1, 0>>
  PROVE  SoFar(c, sema_init)
<1>1. PICK s : s = sema_init
  OBVIOUS
<1>2. s.types = <<>> /\ s.values = <<>> /\ s.diag.count = 0
  BY <1>1 DEF sema_init, diag_init
<1>3. c[1] = 1 /\ c[2] = 1 /\ c[3] = 0
  OBVIOUS
<1>4. CursorOK(c)
  BY <1>3 DEF CursorOK, InItem, IsPlace
<1>5. Visited(c) = {}
  <2>1. ASSUME NEW u, NEW j, NEW l, IsPlace(u, j, l), Earlier(u, j, l, 1, 1, 0) PROVE FALSE
    <3>1. u \in Nat /\ u >= 1 /\ j \in Nat /\ j >= 1 /\ l \in Nat
      BY <2>1, Numbers
    <3> QED BY <2>1, <3>1 DEF Earlier
  <2> QED BY <2>1, VisitedIs
<1>6. DOMAIN s.types = {} /\ DOMAIN s.values = {}
  BY <1>2
<1>7. FirstHolds(s.types, {}) /\ FirstHolds(s.values, {})
  BY <1>6 DEF FirstHolds
<1>8. Clean({})
  BY DEF Clean, OneEach
<1>9. {} \cap TypePlaces = {} /\ {} \cap ValuePlaces = {}
  OBVIOUS
<1>10. Tables(s, {})
  BY <1>2, <1>7, <1>8, <1>9 DEF Tables
<1> QED BY <1>1, <1>3, <1>4, <1>5, <1>10 DEF SoFar

LEMMA CollectOn ==
  ASSUME TreesOK, SemaOK(sema), phase = "collect", SoFar(cursor, sema), collect_program
  PROVE  SoFar(cursor, sema)'
<1>1. PICK c, s : c = cursor /\ s = sema
  OBVIOUS
<1>2. PICK f, i, k : f = c[1] /\ i = c[2] /\ k = c[3]
  OBVIOUS
<1>3. SemaOK(s) /\ SoFar(c, s) /\ CursorOK(c)
  BY <1>1 DEF SoFar
<1>4. c = <<f, i, k>> /\ f \in Nat /\ f >= 1 /\ i \in Nat /\ i >= 1 /\ k \in Nat
  BY <1>2, <1>3 DEF CursorOK
<1>5. f <= Len(progs) /\ progs' = progs
  BY <1>1, <1>2 DEF collect_program
<1>6. f \in DOMAIN progs
  BY <1>4, <1>5, FilesAre
<1>7. PICK items : items = Items(progs[f])
  OBVIOUS
<1>8. Len(items) \in Nat /\ DOMAIN items = 1 .. Len(items)
  BY <1>6, <1>7, ItemsAre
<1>9. PICK it : it = items[i]
  OBVIOUS
<1>10. it = ItemAt(c)
  BY <1>4, <1>7, <1>9, ItemIs
<1>11. PICK e, n : e = sema' /\ n = cursor'
  OBVIOUS
<1>12. \/ i > Len(items) /\ n = <<f + 1, 1, 0>> /\ e = s
       \/ /\ i <= Len(items)
          /\ e = IF k = 0 THEN collect_item(s, it, c) ELSE collect_part(s, it, c)
          /\ n = IF k < Parts(e, it, <<f, i, 0>>) THEN <<f, i, k + 1>> ELSE <<f, i + 1, 0>>
  BY <1>1, <1>2, <1>7, <1>9, <1>11, Zenon DEF collect_program
<1>13. SoFar(n, e)
  <2>1. CASE i > Len(items) /\ n = <<f + 1, 1, 0>> /\ e = s
    BY <1>3, <1>4, <1>6, <1>7, <2>1, FileAdds
  <2>2. CASE /\ i <= Len(items)
             /\ e = IF k = 0 THEN collect_item(s, it, c) ELSE collect_part(s, it, c)
             /\ n = IF k < Parts(e, it, <<f, i, 0>>) THEN <<f, i, k + 1>> ELSE <<f, i + 1, 0>>
    <3>1. i \in DOMAIN Items(progs[f])
      BY <1>4, <1>7, <1>8, <2>2
    <3>2. InItem(c)
      BY <1>2, <1>6, <3>1 DEF InItem
    <3>3. IsPlace(f, i, k)
      BY <1>2, <1>3, <3>2 DEF CursorOK
    <3> QED BY <1>3, <1>4, <1>10, <2>2, <3>3, TurnAdds
  <2> QED BY <1>12, <2>1, <2>2
<1> QED BY <1>5, <1>11, <1>13, SoFarNow

LEMMA PlacesStart == Init => CollectInv
BY DEF Init, CollectInv

LEMMA PlacesKeep == HonestInv /\ ShapeInv /\ CollectInv /\ [Next]_vars => CollectInv'
<1> SUFFICES ASSUME HonestInv, ShapeInv, CollectInv, [Next]_vars PROVE CollectInv'
  OBVIOUS
<1>1. TreesOK
  BY DEF ShapeInv, TreesOK
<1>2. CASE main \/ CannotRead \/ ReadFile \/ Parse_program \/ FileParsed \/ LexFile \/ LexDone
  <2>1. /\ phase \in {"main", "lex", "open", "parse"} /\ phase' # "collect"
        /\ cursor' = cursor /\ sema' = sema
    BY <1>2 DEF main, CannotRead, ReadFile, Parse_program, FileParsed, LexFile, LexDone, AtFile,
                Exit, driverVars
  <2> QED BY <2>1 DEF CollectInv
<1>3. CASE AllParsed
  <2>1. /\ phase = "open" /\ phase' \in {"exit", "collect"}
        /\ cursor' = cursor /\ sema' = sema /\ progs' = progs
    BY <1>3 DEF AllParsed, Exit
  <2>2. PICK c, s : c = <<1, 1, 0>> /\ s = sema_init
    OBVIOUS
  <2>3. cursor' = c /\ sema' = s
    BY <2>1, <2>2 DEF CollectInv
  <2>4. SoFar(c, s)
    BY <1>1, <2>2, SoFarStarts
  <2>5. SoFar(cursor, sema)'
    BY <2>1, <2>3, <2>4, SoFarNow
  <2> QED BY <2>1, <2>5 DEF CollectInv
<1>4. CASE collect_program
  <2>1. phase = "collect" /\ phase' = "collect"
    BY <1>4 DEF collect_program
  <2>2. SoFar(cursor, sema)'
    BY <1>1, <1>4, <2>1, CollectOn DEF HonestInv, CollectInv
  <2> QED BY <2>1, <2>2 DEF CollectInv
<1>5. CASE sema_check \/ BackHalf
  <2>1. phase' \in {"exit", "lower"}
    BY <1>5 DEF sema_check, BackHalf, Exit, CollectInv
  <2> QED BY <2>1 DEF CollectInv
<1>6. CASE UNCHANGED vars
  <2>1. phase' = phase /\ cursor' = cursor /\ sema' = sema /\ progs' = progs
    BY <1>6 DEF vars, driverVars
  <2>2. CASE phase = "collect"
    <3>1. PICK c, s : c = cursor /\ s = sema
      OBVIOUS
    <3>2. SoFar(c, s)
      BY <2>2, <3>1 DEF CollectInv
    <3>3. SoFar(cursor, sema)'
      BY <2>1, <3>1, <3>2, SoFarNow
    <3> QED BY <2>1, <2>2, <3>3 DEF CollectInv
  <2>3. CASE phase # "collect"
    BY <2>1, <2>3 DEF CollectInv
  <2> QED BY <2>2, <2>3
<1> QED BY <1>2, <1>3, <1>4, <1>5, <1>6 DEF Next

\* The first of a name's places is what the name means.
LEMMA FirstMeans ==
  ASSUME NEW t, NEW S, FirstHolds(t, S)
  PROVE  StoredHolds(t, S)
<1>1. DOMAIN t = {NameAt(p) : p \in S}
  BY DEF FirstHolds
<1>2. ASSUME NEW p \in S, \A q \in S : NameAt(q) = NameAt(p) => ~Before(q, p)
      PROVE  t[NameAt(p)] = StoredMeaning(p)
  <2>1. NameAt(p) \in DOMAIN t
    BY <1>1
  <2>2. PICK q \in S : /\ NameAt(q) = NameAt(p) /\ t[NameAt(p)] = StoredMeaning(q)
                       /\ \A r \in S : NameAt(r) = NameAt(p) => r = q \/ Before(q, r)
    BY <2>1 DEF FirstHolds
  <2>3. p = q
    BY <1>2, <2>2
  <2> QED BY <2>2, <2>3
<1> QED BY <1>1, <1>2 DEF StoredHolds

\* At the end every place is behind the cursor.
LEMMA AllVisited ==
  ASSUME TreesOK, NEW c, CursorOK(c), c[1] > Len(progs)
  PROVE  Visited(c) = Places
<1>1. PICK f, i, k : f = c[1] /\ i = c[2] /\ k = c[3]
  OBVIOUS
<1>2. c = <<f, i, k>> /\ f \in Nat /\ f > Len(progs)
  BY <1>1 DEF CursorOK
<1>3. ASSUME NEW u, NEW j, NEW l, IsPlace(u, j, l) PROVE Earlier(u, j, l, f, i, k)
  <2>1. u \in Nat /\ u <= Len(progs) /\ Len(progs) \in Nat
    BY <1>3, Numbers, FilesAre
  <2> QED BY <1>2, <2>1 DEF Earlier
<1>4. ASSUME NEW p PROVE p \in Visited(c) <=> p \in Places
  <2>1. p \in Visited(c) <=>
          \E u, j, l : p = <<u, j, l>> /\ IsPlace(u, j, l) /\ Earlier(u, j, l, f, i, k)
    BY <1>2, VisitedIs
  <2>2. p \in Places <=> \E u, j, l : p = <<u, j, l>> /\ IsPlace(u, j, l)
    BY PlaceIs
  <2> QED BY <1>3, <2>1, <2>2
<1> QED BY <1>4

LEMMA TheKinds ==
  ASSUME TreesOK
  PROVE  Places \cap TypePlaces = TypePlaces /\ Places \cap ValuePlaces = Taken
<1>1. Places \cap TypePlaces = TypePlaces
  BY TypesAre
<1>2. ASSUME NEW p \in ValuePlaces
      PROVE  p \in Places <=> <<p[1], p[2], 0>> \notin Again
  <2>1. CASE p \in AllParts
    <3>1. p[3] # 0
      <4>1. PICK u \in DOMAIN progs :
              \E j \in DOMAIN Items(progs[u]) :
                \E k \in 1 .. PartCount(Items(progs[u])[j]) : p = <<u, j, k>>
        BY <2>1, APart
      <4>2. PICK j \in DOMAIN Items(progs[u]) :
              \E k \in 1 .. PartCount(Items(progs[u])[j]) : p = <<u, j, k>>
        BY <4>1
      <4>3. PICK k \in 1 .. PartCount(Items(progs[u])[j]) : p = <<u, j, k>>
        BY <4>2
      <4> QED BY <4>3
    <3> QED BY <2>1, <3>1 DEF Places
  <2>2. CASE p \notin AllParts
    <3>1. p \in AllItems /\ ItemAt(p)[1] \in {"FnDecl", "GlobalDecl"}
      BY <2>2 DEF ValuePlaces
    <3>2. PICK u \in DOMAIN progs : \E j \in DOMAIN Items(progs[u]) : p = <<u, j, 0>>
      BY <3>1, AnItem
    <3>3. PICK j \in DOMAIN Items(progs[u]) : p = <<u, j, 0>>
      BY <3>2
    <3>4. <<p[1], p[2], 0>> = p /\ p[3] = 0
      BY <3>3
    <3>5. p \notin Again
      BY <3>1 DEF Again, TypePlaces
    <3> QED BY <3>1, <3>4, <3>5 DEF Places
  <2> QED BY <2>1, <2>2
<1>3. Places \cap ValuePlaces = Taken
  BY <1>2 DEF Taken
<1> QED BY <1>1, <1>3

LEMMA CleanIs ==
  ASSUME TreesOK
  PROVE  Clean(Places) <=> StoredWell
<1>1. Places \cap TypePlaces = TypePlaces /\ Places \cap ValuePlaces = Taken
  BY TheKinds
<1>2. Places \subseteq AllItems \cup AllParts /\ Taken \subseteq ValuePlaces
  BY DEF Places, Taken
<1>3. ASSUME StoredWell PROVE Clean(Places)
  <2>1. OneEach(Taken)
    BY <1>2, <1>3 DEF StoredWell, OneEach
  <2> QED BY <1>1, <1>2, <1>3, <2>1 DEF StoredWell, Clean
<1>4. ASSUME Clean(Places) PROVE StoredWell
  <2>1. OneEach(TypePlaces) /\ OneEach(Taken) /\ \A p \in Places : StoredSound(p)
    BY <1>1, <1>4 DEF Clean
  <2>2. Again = {}
    <3> SUFFICES ASSUME NEW p \in Again PROVE FALSE
      OBVIOUS
    <3>1. p \in TypePlaces
      BY DEF Again
    <3>2. PICK q \in TypePlaces : NameAt(q) = NameAt(p) /\ Before(q, p)
      BY DEF Again
    <3>3. q = p
      BY <2>1, <3>1, <3>2 DEF OneEach
    <3>4. p \in Places
      BY <3>1, TypesAre
    <3> QED BY <3>2, <3>3, <3>4, NotBoth
  <2>3. Places = AllItems \cup AllParts /\ Taken = ValuePlaces
    BY <2>2 DEF Places, Taken
  <2> QED BY <2>1, <2>3 DEF StoredWell
<1> QED BY <1>3, <1>4

LEMMA AllStored ==
  ASSUME ShapeInv, CollectInv, phase = "collect", cursor[1] > Len(progs)
  PROVE  /\ sema.diag.count = 0 <=> StoredWell
         /\ StoredHolds(sema.types, TypePlaces) /\ StoredHolds(sema.values, Taken)
<1>1. TreesOK
  BY DEF ShapeInv, TreesOK
<1>2. SoFar(cursor, sema)
  BY DEF CollectInv
<1>3. Visited(cursor) = Places
  BY <1>1, <1>2, AllVisited DEF SoFar
<1>4. Tables(sema, Places)
  BY <1>2, <1>3 DEF SoFar
<1>5. FirstHolds(sema.types, TypePlaces) /\ FirstHolds(sema.values, Taken)
  BY <1>1, <1>4, TheKinds DEF Tables
<1>6. sema.diag.count = 0 <=> StoredWell
  BY <1>1, <1>4, CleanIs DEF Tables
<1> QED BY <1>5, <1>6, FirstMeans

\* A member's number is a natural one, before it is cut.
LEMMA CountIs ==
  ASSUME NEW ms, Len(ms) \in Nat, \A j \in 1 .. Len(ms) : IsSmall(ms[j]), NEW k \in 1 .. Len(ms)
  PROVE  Count(ms, k) \in Nat
<1>1. PICK E : E = Explicit(ms, k)
  OBVIOUS
<1>2. E \subseteq 1 .. k /\ \A j \in E : Len(ms[j]) = 3
  BY <1>1 DEF Explicit
<1>3. CASE E = {}
  BY <1>1, <1>3 DEF Count
<1>4. CASE E # {}
  <2>1. PICK D : D = {k - j : j \in E}
    OBVIOUS
  <2>2. D \subseteq Nat /\ D # {}
    <3>1. PICK e : e \in E
      BY <1>4
    <3>2. k - e \in D
      BY <2>1, <3>1
    <3>3. ASSUME NEW x \in D PROVE x \in Nat
      <4>1. PICK j \in E : x = k - j
        BY <2>1
      <4>2. j \in 1 .. k /\ k \in Nat
        BY <1>2, <4>1
      <4> QED BY <4>1, <4>2
    <3> QED BY <3>2, <3>3
  <2>3. PICK d \in D : \A x \in D : d <= x
    BY <2>2, LeastIs
  <2>4. PICK last \in E : d = k - last
    BY <2>1
  <2>5. IsLast(last, E)
    <3>1. ASSUME NEW j \in E PROVE j <= last
      <4>1. k - j \in D
        BY <2>1
      <4>2. d <= k - j
        BY <2>3, <4>1
      <4> QED BY <1>2, <2>4, <4>2
    <3> QED BY <3>1 DEF IsLast
  <2>6. \A j : IsLast(j, E) => j = last
    <3>1. \A j \in E : j \in Int
      BY <1>2
    <3> QED BY <2>5, <3>1 DEF IsLast
  <2>7. (CHOOSE j \in E : IsLast(j, E)) = last
    BY <2>5, <2>6
  <2>8. Count(ms, k) = IntOf[ms[last][3][1]] + (k - last)
    BY <1>1, <1>4, <2>7 DEF Count
  <2>9. IntOf[ms[last][3][1]] \in 0 .. MaxU64 /\ last \in 1 .. k /\ MaxU64 \in Nat
    BY <1>2, Literals, NumberAssumption
  <2> QED BY <2>8, <2>9
<1> QED BY <1>3, <1>4

\* A part is behind its item, and is within its loop.
LEMMA PartsAreBehind ==
  ASSUME TreesOK, NEW p \in AllParts
  PROVE  p[3] # 0 /\ p[3] \in 1 .. PartCount(ItemAt(p)) /\ IsItem(ItemAt(p))
<1>1. PICK u \in DOMAIN progs : \E i \in DOMAIN Items(progs[u]) :
             \E k \in 1 .. PartCount(Items(progs[u])[i]) : p = <<u, i, k>>
  BY APart
<1>2. PICK i \in DOMAIN Items(progs[u]) :
             \E k \in 1 .. PartCount(Items(progs[u])[i]) : p = <<u, i, k>>
  BY <1>1
<1>3. PICK k \in 1 .. PartCount(Items(progs[u])[i]) : p = <<u, i, k>>
  BY <1>2
<1>4. p[3] = k /\ ItemAt(p) = Items(progs[u])[i]
  BY <1>3, ItemIs
<1>5. IsItem(Items(progs[u])[i])
  BY ItemsAre
<1> QED BY <1>3, <1>4, <1>5

LEMMA ItemsComeFirst ==
  ASSUME NEW p \in AllItems
  PROVE  p[3] = 0
<1>1. PICK u \in DOMAIN progs : \E i \in DOMAIN Items(progs[u]) : p = <<u, i, 0>>
  BY AnItem
<1>2. PICK i \in DOMAIN Items(progs[u]) : p = <<u, i, 0>>
  BY <1>1
<1> QED BY <1>2

\* Where no number is cut, the place is stored as declared; a number that is cut
\* fits nowhere.
LEMMA StoredIs ==
  ASSUME TreesOK, NEW p \in AllItems \cup AllParts
  PROVE  /\ p \notin Overrun => StoredMeaning(p) = Meaning(p) /\ (StoredSound(p) <=> Sound(p))
         /\ p \in Overrun => ~Sound(p)
<1>1. PICK it, ms : it = ItemAt(p) /\ ms = Members(it)
  OBVIOUS
<1>2. CASE it[1] # "EnumDecl" \/ p[3] = 0
  <2>1. p \notin Overrun \/ (it[1] = "EnumDecl" /\ p[3] = 0)
    BY <1>1, <1>2 DEF Overrun
  <2>2. StoredMeaning(p) = Meaning(p) /\ (StoredSound(p) <=> Sound(p))
    BY <1>1, <1>2 DEF StoredMeaning, Meaning, StoredSound, Sound
  <2>3. p \notin Overrun
    <3> SUFFICES ASSUME p \in Overrun PROVE FALSE
      OBVIOUS
    <3>1. p[3] = 0 /\ p \in AllParts
      BY <1>1, <1>2 DEF Overrun
    <3> QED BY <3>1, PartsAreBehind
  <2> QED BY <2>2, <2>3
<1>3. CASE it[1] = "EnumDecl" /\ p[3] # 0
  <2>1. p \in AllParts
    BY <1>3, ItemsComeFirst
  <2>2. p[3] \in 1 .. PartCount(it) /\ IsItem(it)
    BY <1>1, <2>1, PartsAreBehind
  <2>3. /\ Len(ms) \in Nat /\ p[3] \in 1 .. Len(ms)
        /\ \A j \in 1 .. Len(ms) : IsSmall(ms[j])
    BY <1>1, <1>3, <2>2, MembersAre DEF PartCount
  <2>4. PICK c, k : c = Count(ms, p[3]) /\ k = p[3]
    OBVIOUS
  <2>5. c \in Nat /\ MaxU64 \in Nat
    BY <2>3, <2>4, CountIs, NumberAssumption
  <2>6. p \in Overrun <=> c > MaxU64
    BY <1>1, <1>3, <2>1, <2>4 DEF Overrun
  <2>7. CASE c > MaxU64
    <3>1. \A t \in IntegerType : MaxOf[t] < c
      BY <2>5, <2>7, NumberAssumption
    <3>2. ASSUME Sound(p) PROVE FALSE
      <4>1. BaseOf(it) \in IntegerType /\ c <= MaxOf[BaseOf(it)]
        BY <1>1, <1>3, <2>4, <3>2 DEF Sound
      <4>2. MaxOf[BaseOf(it)] < c /\ MaxOf[BaseOf(it)] \in Nat
        BY <3>1, <4>1, NumberAssumption
      <4> QED BY <2>5, <4>1, <4>2
    <3> QED BY <2>6, <2>7, <3>2
  <2>8. CASE c <= MaxU64
    <3>1. PICK m : m = MaxU64 + 1
      OBVIOUS
    <3>2. m \in Nat \ {0} /\ c < m
      BY <2>5, <2>8, <3>1
    <3>3. c % m = c
      BY <2>5, <3>2, NotCut
    <3>4. Stored(ms, p[3]) = Count(ms, p[3])
      BY <2>4, <3>1, <3>3 DEF Stored
    <3>5. StoredMeaning(p) = Meaning(p)
      BY <1>1, <1>3, <3>4 DEF StoredMeaning, Meaning
    <3>6. StoredSound(p) <=> Sound(p)
      BY <1>1, <1>3, <3>4 DEF StoredSound, Sound
    <3>7. p \notin Overrun
      BY <2>5, <2>6, <2>8
    <3> QED BY <3>5, <3>6, <3>7
  <2> QED BY <2>5, <2>7, <2>8
<1> QED BY <1>2, <1>3

LEMMA AllCollected == ShapeInv /\ CollectInv => Collected
<1> SUFFICES ASSUME ShapeInv, CollectInv, phase = "collect", cursor[1] > Len(progs)
             PROVE  /\ sema.diag.count = 0 /\ Overrun = {} <=> WellDeclared
                    /\ Holds(sema.types, TypePlaces) /\ Holds(sema.values, Taken)
  BY DEF Collected
<1>1. TreesOK
  BY DEF ShapeInv, TreesOK
<1>2. /\ sema.diag.count = 0 <=> StoredWell
      /\ StoredHolds(sema.types, TypePlaces) /\ StoredHolds(sema.values, Taken)
  BY AllStored
<1>3. \A p \in AllItems \cup AllParts :
        /\ p \notin Overrun => StoredMeaning(p) = Meaning(p) /\ (StoredSound(p) <=> Sound(p))
        /\ p \in Overrun => ~Sound(p)
  BY <1>1, StoredIs
<1>4. Overrun \subseteq AllItems \cup AllParts
  BY DEF Overrun
<1>5. StoredWell /\ Overrun = {} <=> WellDeclared
  <2>1. ASSUME WellDeclared PROVE StoredWell /\ Overrun = {}
    <3>1. Overrun = {}
      BY <1>3, <1>4, <2>1 DEF WellDeclared
    <3> QED BY <1>3, <2>1, <3>1 DEF WellDeclared, StoredWell
  <2>2. ASSUME StoredWell, Overrun = {} PROVE WellDeclared
    BY <1>3, <2>2 DEF WellDeclared, StoredWell
  <2> QED BY <2>1, <2>2
<1>6. TypePlaces \subseteq AllItems \cup AllParts /\ Taken \subseteq AllItems \cup AllParts
  BY DEF TypePlaces, ValuePlaces, Taken
<1>7. ASSUME NEW t, NEW S, S \subseteq AllItems \cup AllParts, StoredHolds(t, S)
      PROVE  Holds(t, S)
  BY <1>3, <1>7 DEF StoredHolds, Holds
<1> QED BY <1>2, <1>5, <1>6, <1>7

\* Whatever the files hold, collection reports nothing of a program, and no enum of
\* it counts past 64 bits, exactly if its declarations agree, in whichever order
\* they stand; each name then means its declaration.  Of a program that has errors
\* it means the first one that is taken (sema.c:52-187).
THEOREM CollectsAsDeclared == Spec => []Collected
<1>1. HonestInv /\ OrderInv /\ ShapeInv /\ CollectInv /\ [Next]_vars =>
        (HonestInv /\ OrderInv /\ ShapeInv /\ CollectInv)'
  <2> SUFFICES ASSUME HonestInv, OrderInv, ShapeInv, CollectInv, [Next]_vars
               PROVE  HonestInv' /\ OrderInv' /\ ShapeInv' /\ CollectInv'
    OBVIOUS
  <2>1. HonestInv'
    BY HonestKeeps
  <2>2. OrderInv'
    BY OrderKeeps DEF HonestInv
  <2>3. ShapeInv'
    BY ShapeKeeps
  <2>4. CollectInv'
    BY PlacesKeep
  <2> QED BY <2>1, <2>2, <2>3, <2>4
<1> QED BY <1>1, AllCollected, HonestStarts, OrderStarts, ShapeStarts, PlacesStart, PTL DEF Spec

-----------------------------------------------------------------------------
(* Trees without a hole.  A function that has not reported an error leaves *)
(* a node: it holds one, or has a task still to do that will give it one.  *)

\* Tasks that give a child, or go on to a point where every row has such a
\* task, or report an error.
Early   == {"start", "size", "stmts", "mut", "type", "value", "abi"}
Sows(t) == \/ t[1] \in {"keep", "name", "need name", "node", "complain", "give up"} \cup CallWords
           \/ \E pt \in Early : t = Then(pt)
Sown(q) == \E i \in DOMAIN q : Sows(q[i])

LEMMA SowWords ==
  /\ Sows(Keep) /\ Sows(Name) /\ Sows(NeedName) /\ Sows(Complain) /\ Sows(GiveUp)
  /\ \A f : Sows(Parse(f)) /\ Sows(NeedTree(f)) /\ \A s : Sows(Element(f, s))
  /\ \A l : Sows(Node(l))
  /\ \A pt \in Early : Sows(Then(pt))
<1>1. Sows(Keep) /\ Sows(Name) /\ Sows(NeedName) /\ Sows(Complain) /\ Sows(GiveUp)
  BY DEF Sows, Keep, Name, NeedName, Complain, GiveUp
<1>2. ASSUME NEW f, NEW s PROVE Sows(Parse(f)) /\ Sows(NeedTree(f)) /\ Sows(Element(f, s))
  BY DEF Sows, Parse, NeedTree, Element, CallWords
<1>3. ASSUME NEW l PROVE Sows(Node(l))
  BY DEF Sows, Node
<1>4. ASSUME NEW pt \in Early PROVE Sows(Then(pt))
  BY DEF Sows
<1> QED BY <1>1, <1>2, <1>3, <1>4

LEMMA Sown1 == ASSUME NEW a, Sows(a) PROVE Sown(<<a>>)
<1>1. PICK q : q = <<a>>
  OBVIOUS
<1>2. 1 \in DOMAIN q /\ q[1] = a
  BY <1>1
<1> QED BY <1>1, <1>2 DEF Sown

LEMMA Sown2 == ASSUME NEW a, NEW b, Sows(a) \/ Sows(b) PROVE Sown(<<a, b>>)
<1>1. PICK q : q = <<a, b>>
  OBVIOUS
<1>2. 1 \in DOMAIN q /\ 2 \in DOMAIN q /\ q[1] = a /\ q[2] = b
  BY <1>1
<1> QED BY <1>1, <1>2 DEF Sown

LEMMA Sown3 ==
  ASSUME NEW a, NEW b, NEW c, Sows(a) \/ Sows(b) \/ Sows(c)
  PROVE  Sown(<<a, b, c>>)
<1>1. PICK q : q = <<a, b, c>>
  OBVIOUS
<1>2. 1 \in DOMAIN q /\ 2 \in DOMAIN q /\ 3 \in DOMAIN q /\ q[1] = a /\ q[2] = b /\ q[3] = c
  BY <1>1
<1> QED BY <1>1, <1>2 DEF Sown

LEMMA Sown4 ==
  ASSUME NEW a, NEW b, NEW c, NEW d, Sows(a) \/ Sows(b) \/ Sows(c) \/ Sows(d)
  PROVE  Sown(<<a, b, c, d>>)
<1>1. PICK q : q = <<a, b, c, d>>
  OBVIOUS
<1>2. /\ 1 \in DOMAIN q /\ 2 \in DOMAIN q /\ 3 \in DOMAIN q /\ 4 \in DOMAIN q
      /\ q[1] = a /\ q[2] = b /\ q[3] = c /\ q[4] = d
  BY <1>1
<1> QED BY <1>1, <1>2 DEF Sown

SownRows(rows) == \A q \in RowSet(rows) : Sown(q)

LEMMA SownRows1 == ASSUME NEW a, Sown(a) PROVE SownRows(Always(a))
BY RowSet1 DEF SownRows

LEMMA SownRows2 ==
  ASSUME NEW k, NEW a, NEW b, Sown(a), Sown(b)
  PROVE  SownRows(<<On(k, a), Else(b)>>)
BY RowSet2 DEF SownRows

LEMMA SownRows3 ==
  ASSUME NEW k, NEW l, NEW a, NEW b, NEW c, Sown(a), Sown(b), Sown(c)
  PROVE  SownRows(<<On(k, a), On(l, b), Else(c)>>)
BY RowSet3 DEF SownRows

\* One function after another; the ladder alone has the point "operator".
SowsEarly(t) == \A pt \in DOMAIN t \cap Early : SownRows(t[pt])
Plants(t)    == SowsEarly(t) /\ "operator" \notin DOMAIN t

LEMMA TypeSows == Plants(parse_type)
<1>1. DOMAIN parse_type = {"start", "suffix", "length"}
  BY DEF parse_type
<1>2. Sown(<<Keep, Then("suffix")>>) /\ Sown(<<GiveUp>>)
  BY SowWords, Sown1, Sown2 DEF Early
<1>3. SownRows(parse_type.start)
  BY <1>2, SownRows2 DEF parse_type
<1> QED BY <1>1, <1>3 DEF Plants, SowsEarly, Early

LEMMA PrimarySows == Plants(parse_primary)
<1>1. DOMAIN parse_primary = {"start"}
  BY DEF parse_primary
<1>2. Sown(<<Keep>>) /\ Sown(<<Take, Parse("parse_expr"), Expect(")")>>) /\ Sown(<<GiveUp>>)
  BY SowWords, Sown1, Sown3
<1>3. SownRows(parse_primary.start)
  BY <1>2, SownRows3 DEF parse_primary
<1> QED BY <1>1, <1>3 DEF Plants, SowsEarly, Early

LEMMA PostfixSows == Plants(parse_postfix)
<1>1. DOMAIN parse_postfix = {"start", "suffix", "args", "more", "close", "member", "cast"}
  BY DEF parse_postfix
<1>2. Sown(<<NeedTree("parse_primary"), Then("suffix")>>)
  BY SowWords, Sown2 DEF Early
<1>3. SownRows(parse_postfix.start)
  BY <1>2, SownRows1 DEF parse_postfix
<1> QED BY <1>1, <1>3 DEF Plants, SowsEarly, Early

LEMMA UnarySows == Plants(parse_unary)
<1>1. DOMAIN parse_unary = {"start", "size"}
  BY DEF parse_unary
<1>2. Sown(<<Keep, Parse("parse_unary"), Node("Unary")>>) /\ Sown(<<Take, Then("size")>>)
      /\ Sown(<<Parse("parse_postfix")>>)
      /\ Sown(<<Take, Parse("parse_type"), Expect(")"), Node("Sizeof")>>)
      /\ Sown(<<Complain, Node("Sizeof")>>)
  BY SowWords, Sown1, Sown2, Sown3, Sown4 DEF Early
<1>3. SownRows(parse_unary.start) /\ SownRows(parse_unary.size)
  BY <1>2, SownRows2, SownRows3 DEF parse_unary
<1> QED BY <1>1, <1>3 DEF Plants, SowsEarly, Early

LEMMA LadderSows == SowsEarly(parse_ladder)
<1>1. DOMAIN parse_ladder = {"start", "operator"}
  BY DEF parse_ladder
<1>2. Sown(<<Parse("parse_unary"), Then("operator")>>)
  BY SowWords, Sown2 DEF Early
<1>3. SownRows(parse_ladder.start)
  BY <1>2, SownRows1 DEF parse_ladder
<1> QED BY <1>1, <1>3 DEF SowsEarly, Early

LEMMA ExprSows == Plants(parse_expr)
<1>1. DOMAIN parse_expr = {"start"}
  BY DEF parse_expr
<1>2. Sown(<<Parse("parse_ladder")>>)
  BY SowWords, Sown1
<1>3. SownRows(parse_expr.start)
  BY <1>2, SownRows1 DEF parse_expr
<1> QED BY <1>1, <1>3 DEF Plants, SowsEarly, Early

LEMMA LiteralSows == Plants(parse_literal)
<1>1. DOMAIN parse_literal = {"start"}
  BY DEF parse_literal
<1>2. Sown(<<Parse("parse_primary")>>) /\ Sown(<<GiveUp>>)
  BY SowWords, Sown1
<1>3. SownRows(parse_literal.start)
  BY <1>2, SownRows2 DEF parse_literal
<1> QED BY <1>1, <1>3 DEF Plants, SowsEarly, Early

LEMMA BlockSows == Plants(parse_block)
<1>1. DOMAIN parse_block = {"start", "stmts"}
  BY DEF parse_block
<1>2. Sown(<<Take, Then("stmts")>>) /\ Sown(<<Complain, Node("Block")>>)
      /\ Sown(<<Expect("}"), Node("Block")>>)
      /\ Sown(<<Element("parse_stmt", "sync_stmt"), Progress, Then("stmts")>>)
  BY SowWords, Sown2, Sown3 DEF Early
<1>3. SownRows(parse_block.start) /\ SownRows(parse_block.stmts)
  BY <1>2, SownRows2 DEF parse_block
<1> QED BY <1>1, <1>3 DEF Plants, SowsEarly, Early

LEMMA VarDeclSows == Plants(parse_var_decl)
<1>1. DOMAIN parse_var_decl = {"start", "mut", "type", "init"}
  BY DEF parse_var_decl
<1>2. Sown(<<Take, Then("mut")>>) /\ Sown(<<Keep, Then("type")>>) /\ Sown(<<Then("type")>>)
      /\ Sown(<<NeedTree("parse_type"), NeedName, Then("init")>>)
  BY SowWords, Sown1, Sown2, Sown3 DEF Early
<1>3. SownRows(parse_var_decl.start) /\ SownRows(parse_var_decl.mut)
      /\ SownRows(parse_var_decl.type)
  BY <1>2, SownRows1, SownRows2 DEF parse_var_decl
<1> QED BY <1>1, <1>3 DEF Plants, SowsEarly, Early

LEMMA IfSows == Plants(parse_if)
<1>1. DOMAIN parse_if = {"start", "else", "branch"}
  BY DEF parse_if
<1>2. Sown(<<Take, Parse("parse_expr"), Parse("parse_block"), Then("else")>>)
  BY SowWords, Sown4 DEF Early
<1>3. SownRows(parse_if.start)
  BY <1>2, SownRows1 DEF parse_if
<1> QED BY <1>1, <1>3 DEF Plants, SowsEarly, Early

LEMMA WhileSows == Plants(parse_while)
<1>1. DOMAIN parse_while = {"start"}
  BY DEF parse_while
<1>2. Sown(<<Take, Parse("parse_expr"), Parse("parse_block"), Node("WhileStmt")>>)
  BY SowWords, Sown4
<1>3. SownRows(parse_while.start)
  BY <1>2, SownRows1 DEF parse_while
<1> QED BY <1>1, <1>3 DEF Plants, SowsEarly, Early

LEMMA MatchArmSows == Plants(parse_match_arm)
<1>1. DOMAIN parse_match_arm = {"start", "more"}
  BY DEF parse_match_arm
<1>2. Sown(<<Keep, Then("more")>>) /\ Sown(<<GiveUp>>)
  BY SowWords, Sown1, Sown2 DEF Early
<1>3. SownRows(parse_match_arm.start)
  BY <1>2, SownRows2 DEF parse_match_arm
<1> QED BY <1>1, <1>3 DEF Plants, SowsEarly, Early

LEMMA MatchSows == Plants(parse_match)
<1>1. DOMAIN parse_match = {"start", "open", "arms"}
  BY DEF parse_match
<1>2. Sown(<<Take, Parse("parse_expr"), Then("open")>>)
  BY SowWords, Sown3 DEF Early
<1>3. SownRows(parse_match.start)
  BY <1>2, SownRows1 DEF parse_match
<1> QED BY <1>1, <1>3 DEF Plants, SowsEarly, Early

LEMMA ReturnSows == Plants(parse_return)
<1>1. DOMAIN parse_return = {"start", "value"}
  BY DEF parse_return
<1>2. Sown(<<Take, Then("value")>>) /\ Sown(<<Expect(";"), Node("ReturnStmt")>>)
      /\ Sown(<<Parse("parse_expr"), Expect(";"), Node("ReturnStmt")>>)
  BY SowWords, Sown2, Sown3 DEF Early
<1>3. SownRows(parse_return.start) /\ SownRows(parse_return.value)
  BY <1>2, SownRows1, SownRows2 DEF parse_return
<1> QED BY <1>1, <1>3 DEF Plants, SowsEarly, Early

LEMMA ExprStmtSows == Plants(parse_expr_stmt)
<1>1. DOMAIN parse_expr_stmt = {"start", "assign"}
  BY DEF parse_expr_stmt
<1>2. Sown(<<NeedTree("parse_expr"), Then("assign")>>)
  BY SowWords, Sown2 DEF Early
<1>3. SownRows(parse_expr_stmt.start)
  BY <1>2, SownRows1 DEF parse_expr_stmt
<1> QED BY <1>1, <1>3 DEF Plants, SowsEarly, Early

LEMMA ParamSows == Plants(param)
<1>1. DOMAIN param = {"start", "type"}
  BY DEF param
<1>2. Sown(<<Keep, Then("type")>>) /\ Sown(<<Then("type")>>)
      /\ Sown(<<NeedTree("parse_type"), NeedName, Node("Param")>>)
  BY SowWords, Sown1, Sown2, Sown3 DEF Early
<1>3. SownRows(param.start) /\ SownRows(param.type)
  BY <1>2, SownRows1, SownRows2 DEF param
<1> QED BY <1>1, <1>3 DEF Plants, SowsEarly, Early

LEMMA FieldSows == Plants(field)
<1>1. DOMAIN field = {"start"}
  BY DEF field
<1>2. Sown(<<NeedTree("parse_type"), NeedName, Need(";"), Node("StructField")>>)
  BY SowWords, Sown4
<1>3. SownRows(field.start)
  BY <1>2, SownRows1 DEF field
<1> QED BY <1>1, <1>3 DEF Plants, SowsEarly, Early

LEMMA StructSows == Plants(parse_struct)
<1>1. DOMAIN parse_struct = {"start", "fields"}
  BY DEF parse_struct
<1>2. Sown(<<Take, NeedName, Need("{"), Then("fields")>>)
  BY SowWords, Sown4 DEF Early
<1>3. SownRows(parse_struct.start)
  BY <1>2, SownRows1 DEF parse_struct
<1> QED BY <1>1, <1>3 DEF Plants, SowsEarly, Early

LEMMA MemberSows == Plants(member)
<1>1. DOMAIN member = {"start", "value", "int"}
  BY DEF member
<1>2. Sown(<<Keep, Then("value")>>) /\ Sown(<<Take, Then("int"), Node("EnumItem")>>)
      /\ Sown(<<Node("EnumItem")>>)
  BY SowWords, Sown1, Sown2, Sown3 DEF Early
<1>3. SownRows(member.start) /\ SownRows(member.value)
  BY <1>2, SownRows1, SownRows2 DEF member
<1> QED BY <1>1, <1>3 DEF Plants, SowsEarly, Early

LEMMA EnumSows == Plants(parse_enum)
<1>1. DOMAIN parse_enum = {"start", "colon", "base", "open", "members", "comma", "close"}
  BY DEF parse_enum
<1>2. Sown(<<Take, NeedName, Then("colon")>>)
  BY SowWords, Sown3 DEF Early
<1>3. SownRows(parse_enum.start)
  BY <1>2, SownRows1 DEF parse_enum
<1> QED BY <1>1, <1>3 DEF Plants, SowsEarly, Early

LEMMA GlobalSows == Plants(parse_global)
<1>1. DOMAIN parse_global = {"start", "mut", "type", "init"}
  BY DEF parse_global
<1>2. Sown(<<Take, Then("mut")>>) /\ Sown(<<Keep, Then("type")>>) /\ Sown(<<Then("type")>>)
      /\ Sown(<<NeedTree("parse_type"), NeedName, Then("init")>>)
  BY SowWords, Sown1, Sown2, Sown3 DEF Early
<1>3. SownRows(parse_global.start) /\ SownRows(parse_global.mut) /\ SownRows(parse_global.type)
  BY <1>2, SownRows1, SownRows2 DEF parse_global
<1> QED BY <1>1, <1>3 DEF Plants, SowsEarly, Early

LEMMA ExternSows == Plants(parse_extern)
<1>1. DOMAIN parse_extern = {"start", "abi", "fns"}
  BY DEF parse_extern
<1>2. Sown(<<Take, Then("abi")>>) /\ Sown(<<Keep, Need("{"), Then("fns")>>) /\ Sown(<<GiveUp>>)
  BY SowWords, Sown1, Sown2, Sown3 DEF Early
<1>3. SownRows(parse_extern.start) /\ SownRows(parse_extern.abi)
  BY <1>2, SownRows1, SownRows2 DEF parse_extern
<1> QED BY <1>1, <1>3 DEF Plants, SowsEarly, Early

LEMMA ProgramSows == Plants(parse_program)
<1>1. DOMAIN parse_program = {"start"}
  BY DEF parse_program
<1>2. Sown(<<Node("Program")>>)
      /\ Sown(<<Element("parse_item", "sync_item"), Progress, Then("start")>>)
  BY SowWords, Sown1, Sown3 DEF Early
<1>3. SownRows(parse_program.start)
  BY <1>2, SownRows2 DEF parse_program
<1> QED BY <1>1, <1>3 DEF Plants, SowsEarly, Early

LEMMA StmtSows == Plants(parse_stmt)
<1>1. DOMAIN parse_stmt = {"start"}
  BY DEF parse_stmt
<1>2. PICK r1, r2, r3, r4, r5, r6, r7, r8, r9 :
        /\ r1 = On({"{"}, <<Parse("parse_block")>>)
        /\ r2 = On({"let"}, <<Parse("parse_var_decl")>>)
        /\ r3 = On({"if"}, <<Parse("parse_if")>>)
        /\ r4 = On({"while"}, <<Parse("parse_while")>>)
        /\ r5 = On({"match"}, <<Parse("parse_match")>>)
        /\ r6 = On({"return"}, <<Parse("parse_return")>>)
        /\ r7 = On({"break", "continue"}, <<Keep, Expect(";")>>)
        /\ r8 = On({";"}, <<Keep>>)
        /\ r9 = Else(<<Parse("parse_expr_stmt")>>)
  OBVIOUS
<1>3. PICK rows : rows = parse_stmt.start
  OBVIOUS
<1>4. rows = <<r1, r2, r3, r4, r5, r6, r7, r8, r9>>
  BY <1>2, <1>3 DEF parse_stmt
<1>5. \A i \in DOMAIN rows : rows[i] \in {r1, r2, r3, r4, r5, r6, r7, r8, r9}
  BY <1>4
<1>6. /\ r1.do = <<Parse("parse_block")>> /\ r2.do = <<Parse("parse_var_decl")>>
      /\ r3.do = <<Parse("parse_if")>> /\ r4.do = <<Parse("parse_while")>>
      /\ r5.do = <<Parse("parse_match")>> /\ r6.do = <<Parse("parse_return")>>
      /\ r7.do = <<Keep, Expect(";")>> /\ r8.do = <<Keep>>
      /\ r9.do = <<Parse("parse_expr_stmt")>>
  BY <1>2 DEF On, Else
<1>7. Sown(<<Keep>>) /\ Sown(<<Keep, Expect(";")>>) /\ \A f : Sown(<<Parse(f)>>)
  BY SowWords, Sown1, Sown2
<1>8. \A r \in {r1, r2, r3, r4, r5, r6, r7, r8, r9} : Sown(r.do)
  BY <1>6, <1>7
<1>9. \A i \in DOMAIN rows : Sown(rows[i].do)
  BY <1>5, <1>8
<1>10. SownRows(rows)
  BY <1>9 DEF SownRows, RowSet
<1> QED BY <1>1, <1>3, <1>10 DEF Plants, SowsEarly, Early

LEMMA ItemSows == Plants(parse_item)
<1>1. DOMAIN parse_item = {"start"}
  BY DEF parse_item
<1>2. PICK r1, r2, r3, r4, r5, r6 :
        /\ r1 = On({"fn"}, <<NeedTree("fn")>>) /\ r2 = On({"struct"}, <<Parse("parse_struct")>>)
        /\ r3 = On({"enum"}, <<Parse("parse_enum")>>)
        /\ r4 = On({"let"}, <<Parse("parse_global")>>)
        /\ r5 = On({"extern"}, <<Parse("parse_extern")>>) /\ r6 = Else(<<GiveUp>>)
  OBVIOUS
<1>3. PICK rows : rows = parse_item.start
  OBVIOUS
<1>4. rows = <<r1, r2, r3, r4, r5, r6>>
  BY <1>2, <1>3 DEF parse_item
<1>5. \A i \in DOMAIN rows : rows[i] \in {r1, r2, r3, r4, r5, r6}
  BY <1>4
<1>6. /\ r1.do = <<NeedTree("fn")>> /\ r2.do = <<Parse("parse_struct")>>
      /\ r3.do = <<Parse("parse_enum")>> /\ r4.do = <<Parse("parse_global")>>
      /\ r5.do = <<Parse("parse_extern")>> /\ r6.do = <<GiveUp>>
  BY <1>2 DEF On, Else
<1>7. Sown(<<GiveUp>>) /\ \A f : Sown(<<Parse(f)>>) /\ Sown(<<NeedTree(f)>>)
  BY SowWords, Sown1
<1>8. \A r \in {r1, r2, r3, r4, r5, r6} : Sown(r.do)
  BY <1>6, <1>7
<1>9. \A i \in DOMAIN rows : Sown(rows[i].do)
  BY <1>5, <1>8
<1>10. SownRows(rows)
  BY <1>9 DEF SownRows, RowSet
<1> QED BY <1>1, <1>3, <1>10 DEF Plants, SowsEarly, Early

LEMMA FnSows == ASSUME NEW is_extern \in BOOLEAN PROVE Plants(FnDecl(is_extern))
<1>1. PICK t : t = FnDecl(is_extern)
  OBVIOUS
<1>2. DOMAIN t = {"start", "params", "param", "more", "close", "ret", "body"}
  BY <1>1 DEF FnDecl
<1>3. Sown(<<Need("fn"), NeedName, Need("("), Then("params")>>)
  BY SowWords, Sown4
<1>4. SownRows(t.start)
  BY <1>1, <1>3, SownRows1 DEF FnDecl
<1> QED BY <1>1, <1>2, <1>4 DEF Plants, SowsEarly, Early

\* So of every function.
LEMMA CodeSows ==
  \A f \in Functions : SowsEarly(Code[f]) /\ ("operator" \in DOMAIN Code[f] => f = "parse_ladder")
<1>1. Plants(FnDecl(TRUE)) /\ Plants(FnDecl(FALSE))
  BY FnSows
<1>2. Code.fn = FnDecl(FALSE) /\ Code.extern_fn = FnDecl(TRUE)
  BY DEF Code
<1>3. Plants(Code.fn) /\ Plants(Code.extern_fn)
  BY <1>1, <1>2
<1>4. Code.parse_type = parse_type /\ Code.parse_primary = parse_primary
      /\ Code.parse_postfix = parse_postfix /\ Code.parse_unary = parse_unary
      /\ Code.parse_ladder = parse_ladder /\ Code.parse_expr = parse_expr
      /\ Code.parse_literal = parse_literal /\ Code.parse_block = parse_block
      /\ Code.parse_var_decl = parse_var_decl /\ Code.parse_if = parse_if
      /\ Code.parse_while = parse_while /\ Code.parse_match_arm = parse_match_arm
      /\ Code.parse_match = parse_match /\ Code.parse_return = parse_return
      /\ Code.parse_expr_stmt = parse_expr_stmt /\ Code.parse_stmt = parse_stmt
      /\ Code.param = param /\ Code.field = field /\ Code.parse_struct = parse_struct
      /\ Code.member = member /\ Code.parse_enum = parse_enum /\ Code.parse_global = parse_global
      /\ Code.parse_extern = parse_extern /\ Code.parse_item = parse_item
      /\ Code.parse_program = parse_program
  BY DEF Code
<1>5. Plants(Code.parse_type) /\ Plants(Code.parse_primary) /\ Plants(Code.parse_postfix)
      /\ Plants(Code.parse_unary) /\ Plants(Code.parse_expr)
      /\ Plants(Code.parse_literal) /\ Plants(Code.parse_block) /\ Plants(Code.parse_var_decl)
      /\ Plants(Code.parse_if) /\ Plants(Code.parse_while) /\ Plants(Code.parse_match_arm)
      /\ Plants(Code.parse_match) /\ Plants(Code.parse_return) /\ Plants(Code.parse_expr_stmt)
      /\ Plants(Code.parse_stmt) /\ Plants(Code.param) /\ Plants(Code.field)
      /\ Plants(Code.parse_struct) /\ Plants(Code.member) /\ Plants(Code.parse_enum)
      /\ Plants(Code.parse_global) /\ Plants(Code.parse_extern) /\ Plants(Code.parse_item)
      /\ Plants(Code.parse_program)
  BY <1>4, TypeSows, PrimarySows, PostfixSows, UnarySows, ExprSows, LiteralSows,
     BlockSows, VarDeclSows, IfSows, WhileSows, MatchArmSows, MatchSows, ReturnSows,
     ExprStmtSows, StmtSows, ParamSows, FieldSows, StructSows, MemberSows, EnumSows,
     GlobalSows, ExternSows, ItemSows, ProgramSows
<1>6. SowsEarly(Code.parse_ladder)
  BY <1>4, LadderSows
<1>7. \A f \in Functions : f = "parse_ladder" \/ Plants(Code[f])
  BY <1>3, <1>5, FunctionsAre
<1> QED BY <1>6, <1>7 DEF Plants

LEMMA RowSown ==
  ASSUME NEW f \in Functions, NEW pt \in DOMAIN Code[f] \cap Early, NEW kind
  PROVE  Sown(Row(f, pt, kind))
BY CodeSows, RowOf DEF SowsEarly, SownRows

-----------------------------------------------------------------------------
(* Whole trees, and what makes them *)

\* With a node, all that is below it, and no hole.
Closed(S)       == Hole \notin S /\ \A t \in S : \A i \in 2 .. Len(t) : t[i] \in S
Whole(t)        == \E S : t \in S /\ Closed(S)
WholeKids(kids) == IsSeq(kids) /\ \A i \in DOMAIN kids : Whole(kids[i])

LEMMA NoHole == ASSUME NEW t, Whole(t) PROVE t # Hole
BY DEF Whole, Closed

LEMMA LeafWhole == ASSUME NEW tok, NEW t, t = <<tok>> PROVE Whole(t)
<1>1. Len(t) = 1 /\ t # Hole
  BY DEF Hole
<1>2. Closed({t})
  BY <1>1 DEF Closed
<1> QED BY <1>2 DEF Whole

LEMMA NodeWhole ==
  ASSUME NEW l, NEW kids, WholeKids(kids), NEW t, t = Tree(l, kids)
  PROVE  Whole(t)
<1>1. IsSeq(kids)
  BY DEF WholeKids
<1>2. IsNode(t) /\ Len(t) = Len(kids) + 1
  BY <1>1, NodeIs
<1>3. \A i \in DOMAIN kids : t[i + 1] = kids[i]
  BY <1>1, NodeIs
<1>4. DOMAIN kids = 1 .. Len(kids) /\ Len(kids) \in Nat
  BY <1>1, TodoIs
<1>5. t # Hole
  BY <1>2, <1>4 DEF Hole
<1>6. PICK w : w = [i \in DOMAIN kids |-> CHOOSE S : kids[i] \in S /\ Closed(S)]
  OBVIOUS
<1>7. ASSUME NEW i \in DOMAIN kids PROVE kids[i] \in w[i] /\ Closed(w[i])
  <2>1. \E S : kids[i] \in S /\ Closed(S)
    BY DEF WholeKids, Whole
  <2>2. w[i] = CHOOSE S : kids[i] \in S /\ Closed(S)
    BY <1>6
  <2> QED BY <2>1, <2>2, Zenon
<1>8. PICK U : U = {t} \cup UNION {w[i] : i \in DOMAIN kids}
  OBVIOUS
<1>9. \A i \in DOMAIN kids : w[i] \subseteq U
  BY <1>8
<1>10. ASSUME NEW i \in 2 .. Len(t) PROVE t[i] \in U
  <2>1. PICK k : k = i - 1
    OBVIOUS
  <2>2. k \in DOMAIN kids /\ i = k + 1
    BY <1>2, <1>4, <2>1
  <2>3. t[i] = kids[k]
    BY <1>3, <2>2
  <2> QED BY <1>7, <1>9, <2>2, <2>3
<1>11. ASSUME NEW s \in U PROVE s # Hole /\ \A i \in 2 .. Len(s) : s[i] \in U
  <2>1. CASE s = t
    BY <1>5, <1>10, <2>1
  <2>2. ASSUME NEW k \in DOMAIN kids, s \in w[k]
        PROVE  s # Hole /\ \A i \in 2 .. Len(s) : s[i] \in U
    BY <1>7, <1>9, <2>2 DEF Closed
  <2> QED BY <1>8, <2>1, <2>2
<1>12. Closed(U) /\ t \in U
  BY <1>8, <1>11 DEF Closed
<1> QED BY <1>12 DEF Whole

LEMMA KidWhole ==
  ASSUME NEW old, WholeKids(old), NEW kid, Whole(kid), NEW kids, kids = Append(old, kid)
  PROVE  WholeKids(kids) /\ kids # <<>> /\ Len(kids) = Len(old) + 1
<1>1. IsSeq(old)
  BY DEF WholeKids
<1>2. IsSeq(kids) /\ Len(kids) = Len(old) + 1
  BY <1>1, GetsOne
<1>3. \A i \in DOMAIN kids : (i \in DOMAIN old /\ kids[i] = old[i]) \/ kids[i] = kid
  BY <1>1, GetsOne
<1>4. Len(old) \in Nat
  BY <1>1, TodoIs
<1>5. kids # <<>>
  BY <1>2, <1>4
<1> QED BY <1>2, <1>3, <1>5 DEF WholeKids

LEMMA OneWhole ==
  ASSUME NEW t, Whole(t), NEW kids, kids = <<t>>
  PROVE  WholeKids(kids) /\ kids # <<>> /\ Len(kids) = 1
BY OneKid DEF WholeKids

\* What a ladder folds: operands and operators in turn, an operand last.
Operands(n) == {i \in 1 .. n : i % 2 = 1}
Joined(kids, n, S, g) ==
  g = [i \in S |-> IF i = n THEN kids[n]
                   ELSE Tree("Binary", <<kids[i], kids[i + 1], g[i + 2]>>)]

\* The trees from each operand on, built from the last one.
LEMMA JoinedIs ==
  ASSUME NEW kids, NEW n \in Nat, n % 2 = 1
  PROVE  \E g : Joined(kids, n, Operands(n), g)
<1>1. PICK Upper : Upper = [d \in Nat |-> {i \in Operands(n) : i >= n - d}]
  OBVIOUS
<1>2. \A d \in Nat : Upper[d] = {i \in Operands(n) : i >= n - d}
  BY <1>1
<1>3. PICK Bad : Bad = {d \in Nat : ~\E g : Joined(kids, n, Upper[d], g)}
  OBVIOUS
<1>4. Bad = {}
  <2>1. SUFFICES ASSUME Bad # {} PROVE FALSE
    OBVIOUS
  <2>2. Bad \subseteq Nat
    BY <1>3
  <2>3. PICK d \in Bad : \A j \in Bad : d <= j
    BY <2>1, <2>2, LeastIs
  <2>4. d \in Nat /\ ~\E g : Joined(kids, n, Upper[d], g)
    BY <1>3
  <2>5. CASE d = 0
    <3>1. Upper[0] = {n}
      BY <1>2 DEF Operands
    <3>2. PICK g : g = [i \in {n} |-> kids[n]]
      OBVIOUS
    <3>3. g = [i \in {n} |-> IF i = n THEN kids[n]
                             ELSE Tree("Binary", <<kids[i], kids[i + 1], g[i + 2]>>)]
      BY <3>2
    <3>4. Joined(kids, n, Upper[0], g)
      BY <3>1, <3>3 DEF Joined
    <3> QED BY <2>4, <2>5, <3>4
  <2>6. CASE d # 0
    <3>1. PICK k, e : k = n - d /\ e = d - 1
      OBVIOUS
    <3>2. e \in Nat /\ e \notin Bad /\ e + 1 = d
      BY <2>3, <2>4, <2>6, <3>1
    <3>3. PICK g : Joined(kids, n, Upper[e], g)
      BY <1>3, <3>2
    <3>4. g = [i \in Upper[e] |-> IF i = n THEN kids[n]
                 ELSE Tree("Binary", <<kids[i], kids[i + 1], g[i + 2]>>)]
      BY <3>3 DEF Joined
    <3>5. CASE k \notin Operands(n)
      <4>1. ASSUME NEW i \in Operands(n) PROVE i >= n - d <=> i >= n - e
        <5>1. i \in Nat /\ i # k
          BY <3>5 DEF Operands
        <5> QED BY <2>4, <3>1, <3>2, <5>1
      <4>2. Upper[d] = Upper[e]
        BY <1>2, <2>4, <3>2, <4>1
      <4> QED BY <2>4, <3>3, <4>2
    <3>6. CASE k \in Operands(n)
      <4>1. Upper[d] = Upper[e] \cup {k} /\ k \notin Upper[e] /\ k # n
        BY <1>2, <2>4, <2>6, <3>1, <3>2, <3>6 DEF Operands
      <4>2. \A i \in Upper[d] : i # n => i + 2 \in Upper[e] /\ i + 2 # k
        BY <1>2, <2>4, <3>1, <3>2, <3>6 DEF Operands
      <4>3. PICK b : b = Tree("Binary", <<kids[k], kids[k + 1], g[k + 2]>>)
        OBVIOUS
      <4>4. PICK h : h = [i \in Upper[d] |-> IF i = k THEN b ELSE g[i]]
        OBVIOUS
      <4>5. \A i \in Upper[e] : h[i] = g[i]
        BY <4>1, <4>4
      <4>6. ASSUME NEW i \in Upper[d]
            PROVE  h[i] = IF i = n THEN kids[n]
                          ELSE Tree("Binary", <<kids[i], kids[i + 1], h[i + 2]>>)
        <5>1. CASE i = k
          <6>1. h[i + 2] = g[i + 2] /\ h[i] = b /\ i # n
            BY <4>1, <4>2, <4>4, <4>5, <5>1
          <6> QED BY <4>3, <5>1, <6>1
        <5>2. CASE i # k
          <6>1. i \in Upper[e] /\ h[i] = g[i]
            BY <4>1, <4>5, <5>2
          <6>2. i = n \/ h[i + 2] = g[i + 2]
            BY <4>2, <4>5
          <6>3. g[i] = IF i = n THEN kids[n]
                       ELSE Tree("Binary", <<kids[i], kids[i + 1], g[i + 2]>>)
            BY <3>4, <6>1
          <6> QED BY <6>1, <6>2, <6>3
        <5> QED BY <5>1, <5>2
      <4>7. h = [i \in Upper[d] |-> h[i]]
        BY <4>4
      <4>8. h = [i \in Upper[d] |-> IF i = n THEN kids[n]
                   ELSE Tree("Binary", <<kids[i], kids[i + 1], h[i + 2]>>)]
        BY <4>6, <4>7
      <4> QED BY <2>4, <4>8 DEF Joined
    <3> QED BY <3>5, <3>6
  <2> QED BY <2>5, <2>6
<1>5. n \notin Bad
  BY <1>4
<1>6. Upper[n] = Operands(n)
  BY <1>2 DEF Operands
<1> QED BY <1>3, <1>5, <1>6

LEMMA BinaryWhole ==
  ASSUME NEW a, NEW b, NEW c, Whole(a), Whole(b), Whole(c)
  PROVE  Whole(Tree("Binary", <<a, b, c>>))
<1>1. PICK q : q = <<a, b, c>>
  OBVIOUS
<1>2. q \in Seq({a, b, c}) /\ DOMAIN q = 1 .. 3 /\ q[1] = a /\ q[2] = b /\ q[3] = c
  BY <1>1
<1>3. WholeKids(q)
  BY <1>2 DEF WholeKids, IsSeq
<1> QED BY <1>1, <1>3, NodeWhole

LEMMA JoinedWhole ==
  ASSUME NEW kids, WholeKids(kids), NEW n, n = Len(kids), n % 2 = 1,
         NEW g, Joined(kids, n, Operands(n), g)
  PROVE  \A i \in Operands(n) : Whole(g[i])
<1>1. n \in Nat /\ DOMAIN kids = 1 .. n
  BY TodoIs DEF WholeKids
<1>2. \A i \in Operands(n) : g[i] = IF i = n THEN kids[n]
         ELSE Tree("Binary", <<kids[i], kids[i + 1], g[i + 2]>>)
  BY DEF Joined
<1>3. PICK Bad : Bad = {d \in Nat : n - d \in Operands(n) /\ ~Whole(g[n - d])}
  OBVIOUS
<1>4. Bad = {}
  <2>1. SUFFICES ASSUME Bad # {} PROVE FALSE
    OBVIOUS
  <2>2. Bad \subseteq Nat
    BY <1>3
  <2>3. PICK d \in Bad : \A j \in Bad : d <= j
    BY <2>1, <2>2, LeastIs
  <2>4. PICK i : i = n - d
    OBVIOUS
  <2>5. d \in Nat /\ i \in Operands(n) /\ ~Whole(g[i])
    BY <1>3, <2>4
  <2>6. i \in DOMAIN kids /\ i # n
    <3>1. i \in DOMAIN kids
      BY <1>1, <2>5 DEF Operands
    <3> QED BY <1>2, <2>5, <3>1 DEF WholeKids
  <2>7. PICK e : e = d - 2
    OBVIOUS
  <2>8. e \in Nat /\ e < d /\ n - e = i + 2 /\ i + 2 \in Operands(n) /\ i + 1 \in DOMAIN kids
    BY <1>1, <2>4, <2>5, <2>6, <2>7 DEF Operands
  <2>9. Whole(g[i + 2])
    BY <1>3, <2>3, <2>5, <2>8
  <2>10. Whole(kids[i]) /\ Whole(kids[i + 1])
    BY <2>6, <2>8 DEF WholeKids
  <2>11. g[i] = Tree("Binary", <<kids[i], kids[i + 1], g[i + 2]>>)
    BY <1>2, <2>5, <2>6
  <2> QED BY <2>5, <2>9, <2>10, <2>11, BinaryWhole
<1>5. ASSUME NEW i \in Operands(n) PROVE Whole(g[i])
  <2>1. PICK d : d = n - i
    OBVIOUS
  <2>2. d \in Nat /\ n - d = i
    BY <1>1, <2>1 DEF Operands
  <2>3. d \notin Bad
    BY <1>4
  <2> QED BY <1>3, <2>2, <2>3
<1> QED BY <1>5

\* The operand behind the last of some operators.
LEMMA FirstLoose ==
  ASSUME NEW n \in Nat, n % 2 = 1, NEW Loose, \A j \in Loose : j \in 1 .. n /\ j % 2 = 0
  PROVE  \E i \in Operands(n) : (\A j \in Loose : j < i) /\ (i = 1 \/ i - 1 \in Loose)
<1>1. CASE Loose = {}
  <2>1. 1 \in Operands(n)
    BY DEF Operands
  <2> QED BY <1>1, <2>1
<1>2. CASE Loose # {}
  <2>1. PICK K : K = {n - j : j \in Loose}
    OBVIOUS
  <2>2. K \subseteq Nat /\ K # {}
    BY <1>2, <2>1
  <2>3. PICK k \in K : \A e \in K : k <= e
    BY <2>2, LeastIs
  <2>4. PICK m \in Loose : k = n - m
    BY <2>1
  <2>5. m \in 1 .. n /\ m % 2 = 0
    OBVIOUS
  <2>6. ASSUME NEW j \in Loose PROVE j < m + 1
    <3>1. n - j \in K /\ j \in 1 .. n
      BY <2>1
    <3>2. k <= n - j
      BY <2>3, <3>1
    <3> QED BY <2>4, <2>5, <3>1, <3>2
  <2>7. m + 1 \in Operands(n) /\ (m + 1) - 1 = m
    BY <2>5 DEF Operands
  <2> QED BY <2>6, <2>7
<1> QED BY <1>1, <1>2

LEMMA FirstPart ==
  ASSUME NEW S, NEW q \in Seq(S), NEW k \in Nat, k <= Len(q), NEW p, p = SubSeq(q, 1, k)
  PROVE  p \in Seq(S) /\ Len(p) = k /\ \A i \in 1 .. k : p[i] = q[i]
OBVIOUS

FoldsTo(kids, r) ==
  \E g : \E first \in Operands(Len(kids)) :
    /\ Joined(kids, Len(kids), Operands(Len(kids)), g)
    /\ r = SubSeq(kids, 1, first - 1) \o <<g[first]>>

LEMMA FoldedIs ==
  ASSUME NEW kids, Len(kids) \in Nat, Len(kids) % 2 = 1, NEW level
  PROVE  FoldsTo(kids, Folded(kids, level))
<1>1. PICK Loose : Loose = {i \in 1 .. Len(kids) : i % 2 = 0 /\ Level(kids[i][1]) < level}
  OBVIOUS
<1>2. PICK first : first = CHOOSE i \in Operands(Len(kids)) :
                             (\A j \in Loose : j < i) /\ (i = 1 \/ i - 1 \in Loose)
  OBVIOUS
<1>3. first \in Operands(Len(kids))
  <2>1. \E i \in Operands(Len(kids)) :
           (\A j \in Loose : j < i) /\ (i = 1 \/ i - 1 \in Loose)
    <3>1. \A j \in Loose : j \in 1 .. Len(kids) /\ j % 2 = 0
      BY <1>1, Zenon
    <3> QED BY <3>1, FirstLoose, Zenon
  <2> QED BY <1>2, <2>1
<1>4. PICK g : g = CHOOSE tree :
        tree = [i \in Operands(Len(kids)) |-> IF i = Len(kids) THEN kids[Len(kids)]
                  ELSE Tree("Binary", <<kids[i], kids[i + 1], tree[i + 2]>>)]
  OBVIOUS
<1>5. g = [i \in Operands(Len(kids)) |-> IF i = Len(kids) THEN kids[Len(kids)]
             ELSE Tree("Binary", <<kids[i], kids[i + 1], g[i + 2]>>)]
  <2>1. PICK h : Joined(kids, Len(kids), Operands(Len(kids)), h)
    BY JoinedIs
  <2>2. h = [i \in Operands(Len(kids)) |-> IF i = Len(kids) THEN kids[Len(kids)]
               ELSE Tree("Binary", <<kids[i], kids[i + 1], h[i + 2]>>)]
    BY <2>1 DEF Joined
  <2> QED BY <1>4, <2>2, Zenon
<1>6. Joined(kids, Len(kids), Operands(Len(kids)), g)
  BY <1>5 DEF Joined
<1>7. Folded(kids, level) = SubSeq(kids, 1, first - 1) \o <<g[first]>>
  BY <1>1, <1>2, <1>4, Zenon DEF Folded, Operands
<1> QED BY <1>3, <1>6, <1>7 DEF FoldsTo

LEMMA FoldedWhole ==
  ASSUME NEW kids, WholeKids(kids), Len(kids) % 2 = 1, NEW level, NEW r, r = Folded(kids, level)
  PROVE  WholeKids(r) /\ Len(r) % 2 = 1
<1>1. PICK n : n = Len(kids)
  OBVIOUS
<1>2. n \in Nat /\ DOMAIN kids = 1 .. n /\ IsSeq(kids)
  BY <1>1, TodoIs DEF WholeKids
<1>3. FoldsTo(kids, r)
  BY <1>1, <1>2, FoldedIs
<1>4. PICK g, first : /\ first \in Operands(n) /\ Joined(kids, n, Operands(n), g)
                      /\ r = SubSeq(kids, 1, first - 1) \o <<g[first]>>
  BY <1>1, <1>3 DEF FoldsTo
<1>5. Whole(g[first])
  BY <1>1, <1>4, JoinedWhole
<1>6. PICK p, k : p = SubSeq(kids, 1, first - 1) /\ k = first - 1
  OBVIOUS
<1>7. k \in Nat /\ k <= n /\ k + 1 = first /\ first % 2 = 1
  BY <1>2, <1>4, <1>6 DEF Operands
<1>8. PICK S : kids \in Seq(S)
  BY <1>2 DEF IsSeq
<1>9. p \in Seq(S) /\ Len(p) = k /\ \A i \in 1 .. k : p[i] = kids[i]
  <2>1. p = SubSeq(kids, 1, k)
    BY <1>6
  <2>2. k \in Nat /\ k <= Len(kids)
    BY <1>1, <1>7
  <2> QED BY <1>8, <2>1, <2>2, FirstPart, Zenon
<1>10. WholeKids(p)
  <2>1. \A i \in DOMAIN p : i \in DOMAIN kids /\ p[i] = kids[i]
    BY <1>2, <1>7, <1>9
  <2> QED BY <1>9, <2>1 DEF WholeKids, IsSeq
<1>11. r = Append(p, g[first])
  <2>1. r = p \o <<g[first]>>
    BY <1>4, <1>6
  <2>2. PICK x : x = g[first]
    OBVIOUS
  <2>3. p \in Seq(S \cup {x})
    BY <1>9
  <2>4. p \o <<x>> = Append(p, x)
    BY <2>3
  <2> QED BY <2>1, <2>2, <2>4
<1>12. WholeKids(r) /\ Len(r) = k + 1
  BY <1>5, <1>9, <1>10, <1>11, KidWhole
<1> QED BY <1>7, <1>12

-----------------------------------------------------------------------------
(* What an activation holds while nothing has been reported *)

\* The tasks of the ladder, and whether operands and operators are even.
AtOperand  == <<Parse("parse_unary"), Then("operator")>>
AtOperator == <<Then("operator")>>
AtFold     == <<Fold, Keep, Parse("parse_unary"), Then("operator")>>
AtKeep     == <<Keep, Parse("parse_unary"), Then("operator")>>
AtLast     == <<Fold>>
Rung(q, kids) ==
  \/ q = AtOperand /\ Len(kids) % 2 = 0
  \/ q \in {AtOperator, AtFold, AtKeep, AtLast, <<>>} /\ Len(kids) % 2 = 1

Fruitful(x) ==
  /\ WholeKids(x.kids)
  /\ x.kids # <<>> \/ Sown(x.todo)
  /\ x.fn = "parse_ladder" => Rung(x.todo, x.kids)

Bears(s) == \A d \in 1 .. Len(s) : Fruitful(s[d])

\* A task done without an error: like Moves, of whole children only.
Grows(sn, f, new, kids) ==
  LET t == f.todo[1] IN
  \/ new = <<>> /\ t[1] \in {"take", "expect", "need", "mark", "progress", "sync"} /\ kids = f.kids
  \/ /\ new = <<>> /\ t[1] \in {"keep", "name", "need name"} \cup CallWords
     /\ \E kid : Whole(kid) /\ kids = Append(f.kids, kid)
  \/ /\ t[1] = "then" /\ t[2] \in Points(f)
     /\ new = Row(f.fn, t[2], Kind(sn[Len(sn)])) /\ kids = f.kids
  \/ new = <<>> /\ t[1] = "node" /\ kids = <<Tree(t[2], f.kids)>>
  \/ /\ new = <<>> /\ t[1] = "fold" /\ "operator" \in Points(f)
     /\ \E level : kids = Folded(f.kids, level)

LEMMA LadderRows ==
  ASSUME NEW pt, pt \in DOMAIN parse_ladder, NEW kind
  PROVE  /\ pt = "start" => Row("parse_ladder", pt, kind) = AtOperand
         /\ pt = "operator" => Row("parse_ladder", pt, kind) \in {AtFold, AtLast}
<1>1. Code["parse_ladder"] = parse_ladder /\ "parse_ladder" \in Functions
  BY FunctionsAre DEF Code
<1>2. ASSUME pt = "start" PROVE Row("parse_ladder", pt, kind) = AtOperand
  <2>1. parse_ladder.start = Always(AtOperand)
    BY DEF parse_ladder, AtOperand
  <2>2. RowSet(parse_ladder.start) = {AtOperand}
    BY <2>1, RowSet1
  <2> QED BY <1>1, <1>2, <2>2, RowOf
<1>3. ASSUME pt = "operator" PROVE Row("parse_ladder", pt, kind) \in {AtFold, AtLast}
  <2>1. parse_ladder.operator = <<On(BinaryOp, AtFold), Else(AtLast)>>
    BY DEF parse_ladder, AtFold, AtLast
  <2>2. RowSet(parse_ladder.operator) = {AtFold, AtLast}
    BY <2>1, RowSet2
  <2> QED BY <1>1, <1>3, <2>2, RowOf
<1> QED BY <1>2, <1>3

LEMMA LadderTasks ==
  /\ AtOperand[1][1] = "parse" /\ <<>> \o Tail(AtOperand) = AtOperator
  /\ AtOperator[1] = Then("operator")
  /\ AtFold[1][1] = "fold" /\ <<>> \o Tail(AtFold) = AtKeep
  /\ AtKeep[1][1] = "keep" /\ <<>> \o Tail(AtKeep) = AtOperand
  /\ AtLast[1][1] = "fold" /\ <<>> \o Tail(AtLast) = <<>>
  /\ IsSeq(AtFold) /\ IsSeq(AtLast)
  /\ Then("operator")[1] = "then" /\ Then("operator")[2] = "operator"
<1>1. AtOperand[1][1] = "parse" /\ <<>> \o Tail(AtOperand) = AtOperator
  BY After2 DEF AtOperand, AtOperator, Parse
<1>2. AtOperator[1] = Then("operator")
  BY DEF AtOperator
<1>3. AtFold[1][1] = "fold"
  BY DEF AtFold, Fold
<1>4. <<>> \o Tail(AtFold) = AtKeep
  <2>1. PICK a, b, c, d : a = Fold /\ b = Keep /\ c = Parse("parse_unary") /\ d = Then("operator")
    OBVIOUS
  <2>2. PICK q, t : q = <<a, b, c, d>> /\ t = <<b, c, d>>
    OBVIOUS
  <2>3. Tail(q) = t /\ t \in Seq({b, c, d})
    BY <2>2
  <2>4. <<>> \o t = t
    BY <2>3
  <2>5. q = AtFold /\ t = AtKeep
    BY <2>1, <2>2 DEF AtFold, AtKeep
  <2> QED BY <2>3, <2>4, <2>5
<1>5. AtKeep[1][1] = "keep" /\ <<>> \o Tail(AtKeep) = AtOperand
  BY After3 DEF AtKeep, AtOperand, Keep
<1>6. AtLast[1][1] = "fold" /\ <<>> \o Tail(AtLast) = <<>>
  BY NoneIsSeq, After1 DEF AtLast, Fold
<1>7. IsSeq(AtFold) /\ IsSeq(AtLast)
  <2>1. /\ AtFold \in Seq({Fold, Keep, Parse("parse_unary"), Then("operator")})
        /\ AtLast \in Seq({Fold})
    BY DEF AtFold, AtLast
  <2> QED BY <2>1 DEF IsSeq
<1>8. Then("operator")[1] = "then" /\ Then("operator")[2] = "operator"
  BY DEF Then
<1> QED BY <1>1, <1>2, <1>3, <1>4, <1>5, <1>6, <1>7, <1>8

\* What is left to do still gives a node.
LEMMA SownStays ==
  ASSUME NEW q, IsSeq(q), q # <<>>, NEW new, IsSeq(new), NEW r, r = new \o Tail(q),
         Sown(new) \/ (Sown(q) /\ ~Sows(q[1]))
  PROVE  Sown(r)
<1>1. IsSeq(r) /\ Len(r) = Len(new) + (Len(q) - 1)
  BY JoinIs
<1>2. \A i \in 1 .. Len(new) : r[i] = new[i]
  BY JoinIs
<1>3. \A i \in 1 .. Len(q) - 1 : r[Len(new) + i] = q[i + 1]
  BY JoinIs
<1>4. /\ DOMAIN q = 1 .. Len(q) /\ DOMAIN new = 1 .. Len(new) /\ DOMAIN r = 1 .. Len(r)
      /\ Len(q) \in Nat /\ Len(new) \in Nat /\ Len(r) \in Nat
  BY <1>1, TodoIs
<1>5. 1 \in DOMAIN q
  BY FirstIs
<1>6. CASE Sown(new)
  <2>1. PICK i \in DOMAIN new : Sows(new[i])
    BY <1>6 DEF Sown
  <2>2. i \in DOMAIN r /\ r[i] = new[i]
    BY <1>1, <1>2, <1>4, <1>5, <2>1
  <2> QED BY <2>1, <2>2 DEF Sown
<1>7. CASE Sown(q) /\ ~Sows(q[1])
  <2>1. PICK i \in DOMAIN q : Sows(q[i]) /\ i # 1
    BY <1>7 DEF Sown
  <2>2. PICK k, j : k = i - 1 /\ j = Len(new) + k
    OBVIOUS
  <2>3. k \in 1 .. Len(q) - 1 /\ k + 1 = i /\ j \in DOMAIN r
    BY <1>1, <1>4, <2>1, <2>2
  <2>4. r[j] = q[i]
    BY <1>3, <2>2, <2>3
  <2> QED BY <2>1, <2>3, <2>4 DEF Sown
<1> QED BY <1>6, <1>7

LEMMA RowSeq ==
  ASSUME NEW f \in Functions, NEW pt \in DOMAIN Code[f], NEW kind
  PROVE  IsSeq(Row(f, pt, kind))
<1>1. PICK row : row = Row(f, pt, kind)
  OBVIOUS
<1>2. TasksOK(DOMAIN Code[f], row) \/ row = <<Mark, Take, Blame, Then("close")>>
  BY <1>1, RowIs
<1>3. ASSUME row = <<Mark, Take, Blame, Then("close")>> PROVE IsSeq(row)
  <2>1. row \in Seq({Mark, Take, Blame, Then("close")})
    BY <1>3
  <2> QED BY <2>1 DEF IsSeq
<1> QED BY <1>1, <1>2, <1>3 DEF TasksOK

LEMMA LadderGrows ==
  ASSUME NEW sn, NEW f, f.fn = "parse_ladder", NEW q, q = f.todo, q # <<>>,
         WholeKids(f.kids), Rung(q, f.kids), NEW new, NEW kids, Grows(sn, f, new, kids)
  PROVE  WholeKids(kids) /\ Rung(new \o Tail(q), kids)
<1>1. PICK old, t, r : old = f.kids /\ t = q[1] /\ r = new \o Tail(q)
  OBVIOUS
<1>2. Len(old) \in Nat
  BY <1>1, TodoIs DEF WholeKids
<1>3. ASSUME t[1] \in {"parse", "keep"}
      PROVE  new = <<>> /\ WholeKids(kids) /\ Len(kids) = Len(old) + 1
  <2>1. new = <<>> /\ \E kid : Whole(kid) /\ kids = Append(old, kid)
    BY <1>1, <1>3 DEF Grows
  <2> QED BY <1>1, <2>1, KidWhole
<1>4. ASSUME t[1] = "fold", Len(old) % 2 = 1
      PROVE  new = <<>> /\ WholeKids(kids) /\ Len(kids) % 2 = 1
  <2>1. new = <<>> /\ \E level : kids = Folded(old, level)
    BY <1>1, <1>4 DEF Grows, CallWords
  <2> QED BY <1>1, <1>4, <2>1, FoldedWhole
<1>5. CASE q = AtOperand
  <2>1. r = AtOperator /\ WholeKids(kids) /\ Len(kids) = Len(old) + 1
    BY <1>1, <1>3, <1>5, LadderTasks
  <2>2. Len(old) % 2 = 0
    <3>1. AtOperand \notin {AtOperator, AtFold, AtKeep, AtLast, <<>>}
      <4>1. AtOperand # AtOperator /\ AtOperand # AtFold /\ AtOperand # AtKeep
            /\ AtOperand # AtLast
        BY LadderTasks
      <4> QED BY <1>5, <4>1
    <3> QED BY <1>1, <1>5, <3>1 DEF Rung
  <2>3. Len(kids) % 2 = 1
    BY <1>2, <2>1, <2>2
  <2> QED BY <1>1, <2>1, <2>3 DEF Rung
<1>6. ASSUME q # AtOperand PROVE Len(old) % 2 = 1 /\ q \in {AtOperator, AtFold, AtKeep, AtLast}
  BY <1>1, <1>6 DEF Rung
<1>7. CASE q = AtOperator
  <2>1. Len(old) % 2 = 1
    BY <1>6, <1>7, LadderTasks
  <2>2. t[1] = "then" /\ t[2] = "operator"
    BY <1>1, <1>7, LadderTasks
  <2>3. /\ new = Row("parse_ladder", "operator", Kind(sn[Len(sn)])) /\ kids = old
        /\ "operator" \in Points(f)
    BY <1>1, <2>2 DEF Grows, CallWords
  <2>4. "operator" \in DOMAIN parse_ladder
    BY <2>3 DEF Points, Code
  <2>5. new \in {AtFold, AtLast}
    BY <2>3, <2>4, LadderRows
  <2>6. r = new
    BY <1>1, <1>7, <2>5, LadderTasks, After1 DEF AtOperator
  <2> QED BY <1>1, <2>1, <2>3, <2>5, <2>6 DEF Rung
<1>8. CASE q = AtFold
  <2>1. t[1] = "fold" /\ Len(old) % 2 = 1
    BY <1>1, <1>6, <1>8, LadderTasks
  <2>2. r = AtKeep /\ WholeKids(kids) /\ Len(kids) % 2 = 1
    BY <1>1, <1>4, <1>8, <2>1, LadderTasks
  <2> QED BY <1>1, <2>2 DEF Rung
<1>9. CASE q = AtKeep
  <2>1. t[1] = "keep" /\ Len(old) % 2 = 1
    BY <1>1, <1>6, <1>9, LadderTasks
  <2>2. r = AtOperand /\ WholeKids(kids) /\ Len(kids) = Len(old) + 1
    BY <1>1, <1>3, <1>9, <2>1, LadderTasks
  <2>3. Len(kids) % 2 = 0
    BY <1>2, <2>1, <2>2
  <2> QED BY <1>1, <2>2, <2>3 DEF Rung
<1>10. CASE q = AtLast
  <2>1. t[1] = "fold" /\ Len(old) % 2 = 1
    <3>1. AtLast # AtOperand
      BY LadderTasks
    <3> QED BY <1>1, <1>6, <1>10, <3>1, LadderTasks
  <2>2. r = <<>> /\ WholeKids(kids) /\ Len(kids) % 2 = 1
    BY <1>1, <1>4, <1>10, <2>1, LadderTasks
  <2> QED BY <1>1, <2>2 DEF Rung
<1> QED BY <1>5, <1>6, <1>7, <1>8, <1>9, <1>10

LEMMA RungSown == ASSUME NEW q, NEW kids, Rung(q, kids) PROVE kids # <<>> \/ Sown(q)
<1>1. CASE q = AtOperand
  BY <1>1, SowWords, Sown2 DEF AtOperand
<1>2. CASE q # AtOperand
  <2>1. Len(kids) % 2 = 1
    BY <1>2 DEF Rung
  <2>2. Len(<<>>) = 0
    OBVIOUS
  <2> QED BY <2>1, <2>2
<1> QED BY <1>1, <1>2

\* A task done keeps the children whole, and the node in sight.
LEMMA StaysFruitful ==
  ASSUME NEW sn, NEW f, IsFrame(f), f.todo # <<>>, Fruitful(f), NEW new, NEW kids,
         Grows(sn, f, new, kids), NEW m, NEW x, x = After(f, new, kids, m)
  PROVE  Fruitful(x)
<1>1. PICK q, old, t, r : q = f.todo /\ old = f.kids /\ t = q[1] /\ r = new \o Tail(q)
  OBVIOUS
<1>2. x.fn = f.fn /\ x.todo = r /\ x.kids = kids
  BY <1>1 DEF After
<1>3. WholeKids(old) /\ (old # <<>> \/ Sown(q)) /\ IsSeq(q) /\ f.fn \in Functions
  BY <1>1 DEF Fruitful, IsFrame
<1>4. CASE f.fn = "parse_ladder"
  <2>1. Rung(q, old)
    BY <1>1, <1>4 DEF Fruitful
  <2>2. WholeKids(kids) /\ Rung(r, kids)
    BY <1>1, <1>3, <1>4, <2>1, LadderGrows
  <2> QED BY <1>2, <2>2, RungSown DEF Fruitful
<1>5. CASE f.fn # "parse_ladder"
  <2>1. t[1] # "fold"
    <3>1. "operator" \notin Points(f)
      BY <1>3, <1>5, CodeSows DEF Points
    <3> QED BY <1>1, <3>1 DEF Grows, CallWords
  <2>2. ASSUME new = <<>>, t[1] \in {"take", "expect", "need", "mark", "progress", "sync"},
               kids = old
        PROVE  WholeKids(kids) /\ (kids # <<>> \/ Sown(r))
    <3>1. \A pt : Then(pt)[1] = "then"
      BY DEF Then
    <3>2. t[1] # "then" /\ \A pt : t # Then(pt)
      BY <2>2, <3>1
    <3>3. ~Sows(t)
      BY <2>2, <3>2 DEF Sows, CallWords
    <3> QED BY <1>1, <1>3, <2>2, <3>3, NoneIsSeq, SownStays
  <2>3. ASSUME NEW kid, Whole(kid), kids = Append(old, kid)
        PROVE  WholeKids(kids) /\ (kids # <<>> \/ Sown(r))
    BY <1>3, <2>3, KidWhole
  <2>4. ASSUME t[1] = "then", t[2] \in Points(f), NEW kind, new = Row(f.fn, t[2], kind),
               kids = old
        PROVE  WholeKids(kids) /\ (kids # <<>> \/ Sown(r))
    <3>1. IsSeq(new)
      BY <1>3, <2>4, RowSeq DEF Points
    <3>2. CASE t[2] \in Early
      <4>1. Sown(new)
        BY <1>3, <2>4, <3>2, RowSown DEF Points
      <4> QED BY <1>1, <1>3, <2>4, <3>1, <4>1, SownStays
    <3>3. CASE t[2] \notin Early
      <4>1. ~Sows(t)
        BY <2>4, <3>3 DEF Sows, Then, CallWords
      <4> QED BY <1>1, <1>3, <2>4, <3>1, <4>1, SownStays
    <3> QED BY <3>2, <3>3
  <2>5. ASSUME kids = <<Tree(t[2], old)>>
        PROVE  WholeKids(kids) /\ (kids # <<>> \/ Sown(r))
    <3>1. Whole(Tree(t[2], old))
      BY <1>3, NodeWhole
    <3> QED BY <2>5, <3>1, OneWhole
  <2>6. WholeKids(kids) /\ (kids # <<>> \/ Sown(r))
    BY <1>1, <2>1, <2>2, <2>3, <2>4, <2>5 DEF Grows
  <2> QED BY <1>2, <1>5, <2>6 DEF Fruitful
<1> QED BY <1>4, <1>5

-----------------------------------------------------------------------------
(* The stack while nothing has been reported *)

LEMMA TopBears ==
  ASSUME NEW sn, NEW s, Stacked(sn, s), Bears(s)
  PROVE  Fruitful(s[Len(s)]) /\ IsFrame(s[Len(s)])
<1>1. PICK n : n = Len(s)
  OBVIOUS
<1>2. n \in Nat /\ n >= 1
  BY <1>1, TodoIs DEF Stacked
<1>3. n \in 1 .. n
  BY <1>2
<1> QED BY <1>1, <1>3 DEF Stacked, Runs, Bears

LEMMA BearsWith ==
  ASSUME NEW sn, NEW s, Stacked(sn, s), Bears(s), NEW x, Fruitful(x), NEW r, r = WithTop(s, x)
  PROVE  Bears(r)
<1>1. PICK n : n = Len(s)
  OBVIOUS
<1>2. IsSeq(s) /\ n >= 1 /\ n \in Nat
  BY <1>1, TodoIs DEF Stacked
<1>3. Len(r) = n /\ r[n] = x
  BY <1>1, <1>2, SetTop
<1>4. \A d \in 1 .. n - 1 : r[d] = s[d]
  BY <1>1, <1>2, SetTop
<1>5. \A d \in 1 .. n : d = n \/ d \in 1 .. n - 1
  BY <1>2
<1>6. \A d \in 1 .. n : Fruitful(r[d])
  BY <1>1, <1>3, <1>4, <1>5 DEF Bears
<1> QED BY <1>3, <1>6 DEF Bears

LEMMA BearsCarry ==
  ASSUME NEW sn, NEW s, Stacked(sn, s), Bears(s), NEW f, f = s[Len(s)], f.todo # <<>>,
         NEW new, NEW kids, Grows(sn, f, new, kids)
  PROVE  Bears(Carry(s, new, kids))
<1>1. PICK x : x = After(f, new, kids, f.mark)
  OBVIOUS
<1>2. Carry(s, new, kids) = WithTop(s, x)
  BY <1>1, CarryIs
<1>3. Fruitful(f) /\ IsFrame(f)
  BY TopBears
<1>4. Fruitful(x)
  BY <1>1, <1>3, StaysFruitful
<1> QED BY <1>2, <1>4, BearsWith

LEMMA BearsOnward ==
  ASSUME Ordered, Bears(stack), NEW W, Doing(W), NEW kids, Grows(seen, Top, <<>>, kids),
         Onward(kids)
  PROVE  Bears(stack')
<1>1. Stacked(seen, stack) /\ Top = stack[Len(stack)] /\ Top.todo # <<>>
  BY OnTop
<1>2. Bears(Carry(stack, <<>>, kids))
  BY <1>1, BearsCarry
<1> QED BY <1>2 DEF Onward

LEMMA QuietBears ==
  ASSUME Ordered, Bears(stack), NEW W, Doing(W), Onward(Top.kids),
         W \subseteq {"take", "expect", "need", "mark", "progress", "sync"}
  PROVE  Bears(stack')
<1>1. Top.todo[1][1] \in {"take", "expect", "need", "mark", "progress", "sync"}
  BY OnTop
<1>2. Grows(seen, Top, <<>>, Top.kids)
  BY <1>1 DEF Grows
<1> QED BY <1>2, BearsOnward

LEMMA ShiftBears ==
  ASSUME Ordered, Bears(stack), Shift
  PROVE  Bears(stack')
<1>1. PICK t, old : t = Top.todo[1] /\ old = Top.kids
  OBVIOUS
<1>2. Doing(Tokens) /\ Task = t /\ t[1] \in Tokens
  BY <1>1, OnTop DEF Shift
<1>3. PICK kids : kids = IF t[1] \in {"keep", "name", "need name"} THEN Append(old, <<Now>>)
                         ELSE old
  OBVIOUS
<1>4. Onward(kids)
  BY <1>1, <1>2, <1>3 DEF Shift
<1>5. ASSUME t[1] \in {"keep", "name", "need name"} PROVE Grows(seen, Top, <<>>, kids)
  <2>1. Whole(<<Now>>)
    BY LeafWhole
  <2>2. kids = Append(old, <<Now>>)
    BY <1>3, <1>5
  <2>3. \E kid : Whole(kid) /\ kids = Append(old, kid)
    BY <2>1, <2>2
  <2> QED BY <1>1, <1>5, <2>3 DEF Grows
<1>6. ASSUME t[1] \notin {"keep", "name", "need name"} PROVE Grows(seen, Top, <<>>, kids)
  <2>1. kids = old /\ t[1] \in {"take", "expect", "need"}
    BY <1>2, <1>3, <1>6 DEF Tokens
  <2> QED BY <1>1, <2>1 DEF Grows
<1> QED BY <1>2, <1>4, <1>5, <1>6, BearsOnward

LEMMA DecideBears ==
  ASSUME Ordered, Bears(stack), Decide
  PROVE  Bears(stack')
<1>1. PICK f, row, kids : f = Top /\ row = Row(Top.fn, Task[2], Cur) /\ kids = Top.kids
  OBVIOUS
<1>2. Doing({"then"}) /\ stack' = Carry(stack, row, kids)
  BY <1>1 DEF Decide
<1>3. Stacked(seen, stack) /\ f = stack[Len(stack)] /\ f.todo # <<>> /\ Task = f.todo[1]
      /\ Task[1] = "then"
  BY <1>1, <1>2, OnTop
<1>4. Calm(f)
  BY <1>1, <1>2, <1>3, CalmTop
<1>5. TaskOK(Points(f), Task)
  BY <1>1, <1>3, <1>4, CalmTask
<1>6. f.todo[1][2] \in Points(f)
  BY <1>3, <1>5 DEF TaskOK
<1>7. Grows(seen, f, row, kids)
  BY <1>1, <1>3, <1>6 DEF Grows, Cur, Now
<1> QED BY <1>2, <1>3, <1>7, BearsCarry

LEMMA ReduceBears ==
  ASSUME Ordered, Bears(stack), Reduce
  PROVE  Bears(stack')
<1>1. PICK W : W = {"fold", "node"}
  OBVIOUS
<1>2. Doing(W)
  BY <1>1 DEF Reduce
<1>3. PICK f, t, level : /\ f = Top /\ t = Top.todo[1]
                         /\ level = IF Cur \in BinaryOp THEN Level(Cur) ELSE 0
  OBVIOUS
<1>4. Task = t /\ t[1] \in {"fold", "node"} /\ Stacked(seen, stack) /\ f.todo # <<>>
  BY <1>1, <1>2, <1>3, OnTop
<1>5. Onward(IF t[1] = "node" THEN <<Tree(t[2], f.kids)>> ELSE Folded(f.kids, level))
  BY <1>3, <1>4 DEF Reduce
<1>6. CASE t[1] = "node"
  <2>1. PICK kids : kids = <<Tree(t[2], f.kids)>>
    OBVIOUS
  <2>2. Grows(seen, f, <<>>, kids)
    BY <1>3, <1>6, <2>1 DEF Grows
  <2>3. Onward(kids)
    BY <1>5, <1>6, <2>1
  <2> QED BY <1>2, <1>3, <2>2, <2>3, BearsOnward
<1>7. CASE t[1] = "fold"
  <2>1. Calm(f)
    BY <1>1, <1>2, <1>3, <1>4, CalmTop
  <2>2. "operator" \in Points(f)
    BY <1>3, <1>4, <1>7, <2>1, CalmTask DEF TaskOK
  <2>3. PICK kids : kids = Folded(f.kids, level)
    OBVIOUS
  <2>4. Grows(seen, f, <<>>, kids)
    BY <1>3, <1>7, <2>2, <2>3 DEF Grows
  <2>5. Onward(kids)
    BY <1>5, <1>7, <2>3
  <2> QED BY <1>2, <1>3, <2>4, <2>5, BearsOnward
<1> QED BY <1>4, <1>6, <1>7

LEMMA RememberBears ==
  ASSUME Ordered, Bears(stack), Remember
  PROVE  Bears(stack')
<1>1. PICK f, kids, m, x : /\ f = Top /\ kids = f.kids /\ m = Len(seen)
                           /\ x = After(f, <<>>, kids, m)
  OBVIOUS
<1>2. Doing({"mark"})
  BY DEF Remember
<1>3. Stacked(seen, stack) /\ f = stack[Len(stack)] /\ f.todo # <<>> /\ f.todo[1][1] = "mark"
  BY <1>1, <1>2, OnTop
<1>4. stack' = WithTop(stack, x)
  BY <1>1, <1>3, RememberIs
<1>5. Grows(seen, f, <<>>, kids)
  BY <1>1, <1>3 DEF Grows
<1>6. Fruitful(f) /\ IsFrame(f)
  BY <1>3, TopBears
<1>7. Fruitful(x)
  BY <1>1, <1>3, <1>5, <1>6, StaysFruitful
<1> QED BY <1>3, <1>4, <1>7, BearsWith

LEMMA MarkedBears ==
  ASSUME Ordered, Bears(stack), Doing(Calls)
  PROVE  Bears(Marked) /\ Stacked(seen, Marked) /\ Waits(Marked[Len(Marked)])
<1>1. Stacked(seen, stack) /\ Top = stack[Len(stack)] /\ Top.todo # <<>> /\ Task = Top.todo[1]
  BY OnTop
<1>2. Stacked(seen, Marked) /\ Waits(Marked[Len(Marked)])
  BY <1>1, CallerWaits
<1>3. PICK r, f : r = WithMark(stack, Here) /\ f = stack[Len(stack)]
  OBVIOUS
<1>4. PICK x : x = [fn |-> f.fn, todo |-> f.todo, kids |-> f.kids, mark |-> Here]
  OBVIOUS
<1>5. IsFrame(f) /\ Fruitful(f) /\ IsSeq(stack) /\ Len(stack) >= 1
  BY <1>1, <1>3, TopBears DEF Stacked
<1>6. r = WithTop(stack, x)
  BY <1>3, <1>4, <1>5, MarkIs
<1>7. x.fn = f.fn /\ x.todo = f.todo /\ x.kids = f.kids
  BY <1>4
<1>8. Fruitful(x)
  BY <1>5, <1>7 DEF Fruitful
<1>9. Bears(r)
  BY <1>1, <1>6, <1>8, BearsWith
<1>10. Marked \in {r, stack}
  BY <1>3 DEF Marked, WithMark
<1> QED BY <1>2, <1>9, <1>10

LEMMA StartFruitful ==
  ASSUME NEW g \in Functions
  PROVE  Fruitful(Activation(g))
<1>1. PICK row, x : row = Row(g, "start", Cur) /\ x = Activation(g)
  OBVIOUS
<1>2. x.fn = g /\ x.todo = row /\ x.kids = <<>>
  BY <1>1 DEF Activation
<1>3. "start" \in DOMAIN Code[g] \cap Early
  BY CodeOK DEF TableOK, Early
<1>4. Sown(row)
  BY <1>1, <1>3, RowSown
<1>5. WholeKids(<<>>) /\ Len(<<>>) = 0
  BY NoneIsSeq DEF WholeKids
<1>6. ASSUME g = "parse_ladder" PROVE row = AtOperand
  <2>1. "start" \in DOMAIN parse_ladder
    BY DEF parse_ladder
  <2> QED BY <1>1, <1>6, <2>1, LadderRows
<1> QED BY <1>1, <1>2, <1>4, <1>5, <1>6 DEF Fruitful, Rung

LEMMA CallBears ==
  ASSUME Ordered, Bears(stack), Call
  PROVE  Bears(stack')
<1>1. PICK s, x, n : s = Marked /\ x = Activation(Task[2]) /\ n = Len(s)
  OBVIOUS
<1>2. Doing(Calls) /\ stack' = Append(s, x)
  BY <1>1 DEF Call
<1>3. Bears(s) /\ Stacked(seen, s)
  BY <1>1, <1>2, MarkedBears
<1>4. Fruitful(x)
  BY <1>1, <1>2, CallerWaits, StartFruitful DEF Ordered
<1>5. IsSeq(s) /\ n \in Nat /\ DOMAIN s = 1 .. n
  BY <1>1, <1>3, TodoIs DEF Stacked
<1>6. PICK r : r = Append(s, x)
  OBVIOUS
<1>7. Len(r) = n + 1 /\ IsSeq(r)
  BY <1>1, <1>5, <1>6, GetsOne
<1>8. \A d \in DOMAIN r : (d \in DOMAIN s /\ r[d] = s[d]) \/ r[d] = x
  BY <1>5, <1>6, GetsOne
<1>9. DOMAIN r = 1 .. Len(r)
  BY <1>7, TodoIs
<1>10. \A d \in DOMAIN r : Fruitful(r[d])
  BY <1>1, <1>3, <1>4, <1>5, <1>8 DEF Bears
<1> QED BY <1>2, <1>6, <1>9, <1>10 DEF Bears

\* A function that is done has a whole tree for its caller.
LEMMA DoneIsWhole ==
  ASSUME NEW f, Fruitful(f), f.todo = <<>>
  PROVE  f.kids # <<>> /\ Whole(f.kids[1])
<1>1. ~Sown(<<>>)
  BY DEF Sown
<1>2. f.kids # <<>> /\ WholeKids(f.kids)
  BY <1>1 DEF Fruitful
<1>3. 1 \in DOMAIN f.kids
  BY <1>2, FirstIs DEF WholeKids
<1> QED BY <1>2, <1>3 DEF WholeKids

LEMMA ReturnBears ==
  ASSUME Ordered, Bears(stack), Return
  PROVE  Bears(stack')
<1>1. PICK tree : tree = IF Top.kids = <<>> THEN Hole ELSE Top.kids[1]
  OBVIOUS
<1>2. Len(stack) > 1 /\ stack' = Deliver(Pop, tree) /\ Top.todo = <<>>
  BY <1>1 DEF Return
<1>3. PICK p, n : p = Pop /\ n = Len(stack)
  OBVIOUS
<1>4. p = SubSeq(stack, 1, Len(stack) - 1) /\ Stacked(seen, stack)
  BY <1>3 DEF Pop, Ordered
<1>5. Stacked(seen, p) /\ Waits(p[Len(p)])
  BY <1>2, <1>4, Popped
<1>6. PICK S : stack \in Seq(S)
  BY <1>4 DEF Stacked, IsSeq
<1>7. n \in Nat /\ n > 1
  BY <1>2, <1>3, <1>6
<1>8. Len(p) = n - 1 /\ \A d \in 1 .. n - 1 : p[d] = stack[d]
  BY <1>3, <1>4, <1>6, <1>7
<1>9. Fruitful(Top)
  BY <1>4, TopIs, TopBears
<1>10. Whole(tree) /\ tree # Hole
  BY <1>1, <1>2, <1>9, DoneIsWhole, NoHole
<1>11. Bears(p)
  <2>1. \A d \in 1 .. n - 1 : d \in 1 .. n
    BY <1>7
  <2> QED BY <1>3, <1>8, <2>1 DEF Bears
<1>12. PICK g, t, kids : g = p[Len(p)] /\ t = g.todo[1] /\ kids = Append(g.kids, tree)
  OBVIOUS
<1>13. g.todo # <<>> /\ t[1] \in CallWords /\ Head(g.todo) = t
  BY <1>5, <1>12 DEF Waits, Calm, TasksOK, IsSeq
<1>14. Deliver(p, tree) = Carry(p, <<>>, kids)
  BY <1>10, <1>12, <1>13 DEF Deliver
<1>15. Grows(seen, g, <<>>, kids)
  BY <1>10, <1>12, <1>13 DEF Grows
<1>16. Bears(Carry(p, <<>>, kids))
  BY <1>5, <1>11, <1>12, <1>13, <1>15, BearsCarry
<1> QED BY <1>2, <1>3, <1>14, <1>16

LEMMA ErrorCounts1 ==
  ASSUME NEW d, d.count \in Nat, NEW at
  PROVE  diag_error(d, at).count # 0
<1>1. diag_error(d, at).count = Counted(d.count)
  BY DEF diag_error
<1> QED BY <1>1, DiagAssumption DEF Counted

\* So a function that has nothing to give has reported an error.
LEMMA ParserBears ==
  ASSUME Ordered, diag.count \in Nat, diag.count = 0 => Bears(stack), ParserStep
  PROVE  diag'.count = 0 => Bears(stack')
<1>1. ASSUME NEW at, diag' = diag_error(diag, at) PROVE diag'.count # 0
  BY <1>1, ErrorCounts1
<1>2. CASE SkipError \/ Report \/ Refuse \/ CallTooDeep
  <2>1. \E at : diag' = diag_error(diag, at)
    BY <1>2 DEF SkipError, Report, Refuse, CallTooDeep
  <2> QED BY <1>1, <2>1
<1>3. CASE Shift \/ Decide \/ Reduce \/ Remember \/ MakeProgress \/ Call \/ Return \/ Resync
  <2> SUFFICES ASSUME diag'.count = 0 PROVE Bears(stack')
    OBVIOUS
  <2>1. diag' = diag
    BY <1>3 DEF Shift, Decide, Reduce, Remember, MakeProgress, Call, Return, Resync
  <2>2. Bears(stack)
    BY <2>1
  <2>3. CASE MakeProgress
    <3>1. Doing({"progress"}) /\ Onward(Top.kids)
      BY <2>3 DEF MakeProgress
    <3> QED BY <2>2, <3>1, QuietBears
  <2>4. CASE Resync
    <3>1. Doing({"sync"}) /\ (Onward(Top.kids) \/ stack' = stack)
      BY <2>4 DEF Resync
    <3>2. ASSUME Onward(Top.kids) PROVE Bears(stack')
      BY <2>2, <3>1, <3>2, QuietBears
    <3> QED BY <2>2, <3>1, <3>2
  <2> QED BY <1>3, <2>2, <2>3, <2>4, ShiftBears, DecideBears, ReduceBears, RememberBears,
           CallBears, ReturnBears
<1> QED BY <1>2, <1>3 DEF ParserStep

-----------------------------------------------------------------------------
(* The trees of the files while no error has been counted *)

LEMMA StartsFruitful ==
  ASSUME NEW s, Start(s)
  PROVE  Bears(stack')
<1>1. PICK x : x = [fn |-> "parse_program", todo |-> <<Then("start")>>, kids |-> <<>>,
                    mark |-> 0]
  OBVIOUS
<1>2. stack' = <<x>>
  BY <1>1 DEF Start
<1>3. Len(stack') = 1 /\ stack'[1] = x
  BY <1>2
<1>4. x.fn # "parse_ladder" /\ x.todo = <<Then("start")>> /\ x.kids = <<>>
  BY <1>1
<1>5. Sown(x.todo)
  BY <1>4, SowWords, Sown1 DEF Early
<1>6. WholeKids(x.kids)
  BY <1>4, NoneIsSeq DEF WholeKids
<1>7. Fruitful(x)
  BY <1>4, <1>5, <1>6 DEF Fruitful
<1> QED BY <1>3, <1>7 DEF Bears

LEMMA ParsedWhole ==
  ASSUME Ordered, Bears(stack), Parsed
  PROVE  Whole(Top.kids[1])
<1>1. Top.todo = <<>> /\ Top = stack[Len(stack)]
  BY TopIs DEF Parsed, Ordered
<1>2. Fruitful(Top)
  BY <1>1, TopBears DEF Ordered
<1> QED BY <1>1, <1>2, DoneIsWhole

\* Until something is reported the parser bears, and until an error is counted,
\* past the gate above all, every tree is whole.
WholeInv ==
  /\ phase = "parse" => (diag.count = 0 => Bears(stack))
  /\ errors = 0 \/ phase \in {"collect", "lower"} => \A u \in DOMAIN progs : Whole(progs[u])

LEMMA WholeStarts == Init => WholeInv
<1>1. Init => phase # "parse" /\ progs = <<>> /\ DOMAIN progs = {}
  BY DEF Init
<1> QED BY <1>1 DEF WholeInv

\* The trees stay while errors are counted.
LEMMA WholeStays ==
  ASSUME WholeInv, phase' # "parse", progs' = progs,
         errors' = 0 \/ phase' \in {"collect", "lower"} =>
           errors = 0 \/ phase \in {"collect", "lower"}
  PROVE  WholeInv'
BY DEF WholeInv

\* A file's tree is one more, and is whole when none of its errors is counted.
LEMMA WholeMore ==
  ASSUME OrderInv, StatusInv, IsSeq(progs), WholeInv, FileParsed
  PROVE  WholeInv'
<1>1. PICK tree, old : tree = Top.kids[1] /\ old = progs
  OBVIOUS
<1>2. /\ phase = "parse" /\ phase' = "open" /\ Parsed
      /\ progs' = Append(old, tree) /\ errors' = errors + diag.count
  BY <1>1 DEF FileParsed
<1>3. Ordered
  BY <1>2 DEF OrderInv
<1>4. errors \in Nat /\ diag.count \in Nat
  BY <1>2 DEF StatusInv
<1>5. ASSUME errors' = 0 PROVE \A u \in DOMAIN progs' : Whole(progs'[u])
  <2>1. errors = 0 /\ diag.count = 0
    BY <1>2, <1>4, <1>5
  <2>2. \A u \in DOMAIN old : Whole(old[u])
    BY <1>1, <2>1 DEF WholeInv
  <2>3. Whole(tree)
    BY <1>1, <1>2, <1>3, <2>1, ParsedWhole DEF WholeInv
  <2>4. \A u \in DOMAIN progs' :
          (u \in DOMAIN old /\ progs'[u] = old[u]) \/ progs'[u] = tree
    BY <1>1, <1>2, GetsOne
  <2> QED BY <2>2, <2>3, <2>4
<1> QED BY <1>2, <1>5 DEF WholeInv

LEMMA WholeKeeps == OrderInv /\ ShapeInv /\ StatusInv /\ WholeInv /\ [Next]_vars => WholeInv'
<1> SUFFICES ASSUME OrderInv, ShapeInv, StatusInv, WholeInv, [Next]_vars PROVE WholeInv'
  OBVIOUS
<1>1. CASE ReadFile
  <2>1. progs' = progs /\ errors' = errors /\ phase' = "parse"
    BY <1>1 DEF ReadFile
  <2>2. Bears(stack')
    BY <1>1, StartsFruitful DEF ReadFile
  <2> QED BY <2>1, <2>2 DEF WholeInv
<1>2. CASE Parse_program
  <2>1. phase = "parse" /\ phase' = phase /\ progs' = progs /\ errors' = errors /\ ParserStep
    BY <1>2 DEF Parse_program, driverVars
  <2>2. Ordered /\ diag.count \in Nat /\ (diag.count = 0 => Bears(stack))
    BY <2>1 DEF OrderInv, StatusInv, WholeInv
  <2>3. diag'.count = 0 => Bears(stack')
    BY <2>1, <2>2, ParserBears
  <2> QED BY <2>1, <2>3 DEF WholeInv
<1>3. CASE FileParsed
  BY <1>3, WholeMore DEF ShapeInv
<1>4. CASE CannotRead
  <2>1. errors \in Nat /\ errors' = errors + 1 /\ phase' = phase /\ progs' = progs
        /\ phase' \notin {"parse", "collect", "lower"}
    BY <1>4 DEF CannotRead, AtFile, StatusInv
  <2>2. errors' # 0
    BY <2>1
  <2> QED BY <2>1, <2>2, WholeStays
<1>5. CASE LexFile
  <2>1. errors \in Nat /\ errors' \in {errors, errors + 1} /\ phase' = phase /\ progs' = progs
        /\ phase' \notin {"parse", "collect", "lower"}
    BY <1>5 DEF LexFile, StatusInv
  <2>2. errors' = 0 => errors = 0
    BY <2>1
  <2> QED BY <2>1, <2>2, WholeStays
<1>6. CASE main \/ LexDone \/ AllParsed
  <2>1. phase' # "parse" /\ errors' = errors /\ progs' = progs
        /\ (phase' \in {"collect", "lower"} => errors = 0)
    BY <1>6 DEF main, LexDone, AllParsed, Exit
  <2> QED BY <2>1, WholeStays
<1>7. CASE collect_program \/ sema_check \/ BackHalf
  <2>1. phase \in {"collect", "lower"} /\ phase' # "parse" /\ progs' = progs
    BY <1>7 DEF collect_program, sema_check, BackHalf, Exit
  <2> QED BY <2>1, WholeStays
<1>8. CASE UNCHANGED vars
  <2>1. phase' = phase /\ stack' = stack /\ diag' = diag /\ progs' = progs /\ errors' = errors
    BY <1>8 DEF vars, parserVars, driverVars
  <2> QED BY <2>1 DEF WholeInv
<1> QED BY <1>1, <1>2, <1>3, <1>4, <1>5, <1>6, <1>7, <1>8 DEF Next

\* Past the gate there is a tree for every file, and each is whole.
LEMMA GateWhole ==
  ASSUME StatusInv, WholeInv, PastTheGate
  PROVE  Len(progs) = Len(paths) /\ \A u \in DOMAIN progs : Whole(progs[u])
<1>1. CASE phase \in {"collect", "lower"}
  BY <1>1 DEF StatusInv, PhaseInv, WholeInv
<1>2. CASE phase = "open" /\ unit > Len(paths) /\ errors = 0
  <2>1. TreesSoFar /\ Len(paths) \in Nat
    BY <1>2, PathsCounted DEF StatusInv, PhaseInv
  <2>2. unit \in 1 .. Len(paths) + 1 /\ Len(progs) = unit - 1
    BY <1>2, <2>1 DEF TreesSoFar
  <2>3. Len(progs) = Len(paths)
    BY <1>2, <2>1, <2>2
  <2> QED BY <1>2, <2>3 DEF WholeInv
<1> QED BY <1>1, <1>2 DEF PastTheGate

-----------------------------------------------------------------------------
(* The levels of a tree *)

Kids(S) == UNION {{tree[i] : i \in 2 .. Len(tree)} : tree \in S}
Levels(S, N, g) == g = [n \in 0 .. N |-> IF n = 0 THEN S ELSE Kids(g[n - 1])]

LEMMA KidsWhole ==
  ASSUME NEW S, \A t \in S : Whole(t)
  PROVE  \A t \in Kids(S) : Whole(t)
<1> SUFFICES ASSUME NEW t \in S, NEW i \in 2 .. Len(t) PROVE Whole(t[i])
  BY DEF Kids
<1>1. PICK U : t \in U /\ Closed(U)
  BY DEF Whole
<1> QED BY <1>1 DEF Closed, Whole

LEMMA LevelsAre ==
  ASSUME NEW S, NEW N \in Nat
  PROVE  \E g : Levels(S, N, g)
<1>1. PICK Bad : Bad = {d \in Nat : ~\E g : Levels(S, d, g)}
  OBVIOUS
<1>2. SUFFICES ASSUME Bad # {} PROVE FALSE
  BY <1>1
<1>3. Bad \subseteq Nat
  BY <1>1
<1>4. PICK d \in Bad : \A j \in Bad : d <= j
  BY <1>2, <1>3, LeastIs
<1>5. d \in Nat /\ ~\E g : Levels(S, d, g)
  BY <1>1
<1>6. CASE d = 0
  <2>1. PICK g : g = [n \in {0} |-> S]
    OBVIOUS
  <2>2. g = [n \in 0 .. 0 |-> IF n = 0 THEN S ELSE Kids(g[n - 1])]
    BY <2>1
  <2> QED BY <1>5, <1>6, <2>2 DEF Levels
<1>7. CASE d # 0
  <2>1. PICK e : e = d - 1
    OBVIOUS
  <2>2. e \in Nat /\ e \notin Bad /\ d = e + 1
    BY <1>4, <1>5, <1>7, <2>1
  <2>3. PICK g : Levels(S, e, g)
    BY <1>1, <2>2
  <2>4. g = [n \in 0 .. e |-> IF n = 0 THEN S ELSE Kids(g[n - 1])]
    BY <2>3 DEF Levels
  <2>5. PICK h : h = [n \in 0 .. d |-> IF n = d THEN Kids(g[e]) ELSE g[n]]
    OBVIOUS
  <2>6. \A n \in 0 .. e : h[n] = g[n]
    BY <2>2, <2>5
  <2>7. ASSUME NEW n \in 0 .. d PROVE h[n] = IF n = 0 THEN S ELSE Kids(h[n - 1])
    <3>1. CASE n = d
      <4>1. h[n] = Kids(g[e]) /\ n # 0 /\ n - 1 = e /\ e \in 0 .. e
        BY <1>7, <2>2, <2>5, <3>1
      <4> QED BY <2>6, <4>1
    <3>2. CASE n # d
      <4>1. n \in 0 .. e /\ h[n] = g[n] /\ (n # 0 => n - 1 \in 0 .. e)
        BY <2>2, <2>6, <3>2
      <4>2. g[n] = IF n = 0 THEN S ELSE Kids(g[n - 1])
        BY <2>4, <4>1
      <4> QED BY <2>6, <4>1, <4>2
    <3> QED BY <3>1, <3>2
  <2>8. h = [n \in 0 .. d |-> h[n]]
    BY <2>5
  <2>9. h = [n \in 0 .. d |-> IF n = 0 THEN S ELSE Kids(h[n - 1])]
    BY <2>7, <2>8
  <2> QED BY <1>5, <2>9 DEF Levels
<1> QED BY <1>6, <1>7

LEMMA LevelsWhole ==
  ASSUME NEW S, \A t \in S : Whole(t), NEW N \in Nat, NEW g, Levels(S, N, g)
  PROVE  \A n \in 0 .. N : \A t \in g[n] : Whole(t)
<1>1. \A n \in 0 .. N : g[n] = IF n = 0 THEN S ELSE Kids(g[n - 1])
  BY DEF Levels
<1>2. PICK Bad : Bad = {n \in 0 .. N : ~\A t \in g[n] : Whole(t)}
  OBVIOUS
<1>3. SUFFICES ASSUME Bad # {} PROVE FALSE
  BY <1>2
<1>4. Bad \subseteq Nat
  BY <1>2
<1>5. PICK n \in Bad : \A j \in Bad : n <= j
  BY <1>3, <1>4, LeastIs
<1>6. n \in 0 .. N /\ ~\A t \in g[n] : Whole(t)
  BY <1>2
<1>7. n # 0
  BY <1>1, <1>6
<1>8. n - 1 \in 0 .. N /\ n - 1 \notin Bad /\ g[n] = Kids(g[n - 1])
  BY <1>1, <1>5, <1>6, <1>7
<1>9. \A t \in g[n - 1] : Whole(t)
  BY <1>2, <1>8
<1> QED BY <1>6, <1>8, <1>9, KidsWhole

LEMMA NodesAre == Levels({progs[u] : u \in DOMAIN progs}, TreeDepth, Nodes)
<1>1. PICK S : S = {progs[u] : u \in DOMAIN progs}
  OBVIOUS
<1>2. Nodes = CHOOSE g : g = [n \in 0 .. TreeDepth |-> IF n = 0 THEN S ELSE Kids(g[n - 1])]
  BY <1>1 DEF Nodes, Kids
<1>3. Nodes = CHOOSE g : Levels(S, TreeDepth, g)
  BY <1>2, Zenon DEF Levels
<1>4. \E g : Levels(S, TreeDepth, g)
  BY LevelsAre, DepthAssumption
<1>5. Levels(S, TreeDepth, Nodes)
  BY <1>3, <1>4, Zenon
<1> QED BY <1>1, <1>5

LEMMA GateSees == StatusInv /\ WholeInv => SemaSeesWholeTrees
<1> SUFFICES ASSUME StatusInv, WholeInv, PastTheGate
             PROVE  Len(progs) = Len(paths) /\ \A n \in 0 .. TreeDepth : Hole \notin Nodes[n]
  BY DEF SemaSeesWholeTrees
<1>1. PICK S : S = {progs[u] : u \in DOMAIN progs}
  OBVIOUS
<1>2. \A t \in S : Whole(t)
  BY <1>1, GateWhole
<1>3. Levels(S, TreeDepth, Nodes)
  BY <1>1, NodesAre
<1>4. \A n \in 0 .. TreeDepth : \A t \in Nodes[n] : Whole(t)
  BY <1>2, <1>3, LevelsWhole, DepthAssumption
<1>5. \A n \in 0 .. TreeDepth : Hole \notin Nodes[n]
  BY <1>4, NoHole
<1> QED BY <1>5, GateWhole

\* Whatever the files hold, and as deep as one looks, past the first gate there
\* is a tree of every file asked for and no tree has a hole: where the parser
\* leaves one it has reported an error, and the gate has shut (main.c:98-108).
THEOREM TreesAreWhole == Spec => []SemaSeesWholeTrees
<1>1. /\ HonestInv /\ OrderInv /\ ShapeInv /\ StatusInv /\ WholeInv
      /\ [Next]_vars
      => (HonestInv /\ OrderInv /\ ShapeInv /\ StatusInv /\ WholeInv)'
  <2> SUFFICES ASSUME HonestInv, OrderInv, ShapeInv, StatusInv, WholeInv, [Next]_vars
               PROVE  HonestInv' /\ OrderInv' /\ ShapeInv' /\ StatusInv' /\ WholeInv'
    OBVIOUS
  <2>1. HonestInv'
    BY HonestKeeps
  <2>2. OrderInv'
    BY OrderKeeps DEF HonestInv
  <2>3. ShapeInv'
    BY ShapeKeeps
  <2>4. StatusInv'
    BY StatusKeeps
  <2>5. WholeInv'
    BY WholeKeeps
  <2> QED BY <2>1, <2>2, <2>3, <2>4, <2>5
<1> QED BY <1>1, GateSees, HonestStarts, OrderStarts, ShapeStarts, StatusStarts, WholeStarts,
           PTL DEF Spec
=============================================================================
