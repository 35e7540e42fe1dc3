---------------------------- MODULE Diagnostics ----------------------------
(***************************************************************************)
(* support/diag.c: what a Diag counts and what it prints.  The parser has  *)
(* one for every file, sema one for the whole program.                     *)
(***************************************************************************)
EXTENDS Integers, Sequences, FiniteSets

CONSTANTS
  MaxReported,  \* DIAG_MAX_REPORTED
  CountCap      \* bound: an error past this many leaves the count as it is

ASSUME DiagAssumption ==
  /\ MaxReported \in Nat /\ CountCap \in Nat
  /\ MaxReported < CountCap

\* A line on stderr.  A note remembers the error it was written for.
Line(what, at, for) == [what |-> what, at |-> at, for |-> for]
ErrorLine(at)       == Line("error", at, at)
NoteLine(at, for)   == Line("note", at, for)
CutOffLine(at)      == Line("cutoff", at, at)

diag_init == [count |-> 0, reported |-> 0, last_printed |-> FALSE, lines |-> <<>>]

Counted(n) == IF n < CountCap THEN n + 1 ELSE n

\* Faulty: a suppressed error leaves last_printed as it was.
StaleLast(d, at) ==
  IF d.reported < MaxReported
  THEN [count |-> Counted(d.count), reported |-> d.reported + 1, last_printed |-> TRUE,
        lines |-> Append(d.lines, ErrorLine(at))]
  ELSE [d EXCEPT !.count = Counted(@)]

diag_error(d, at) ==
  LET fits == d.reported < MaxReported
      full == d.reported = MaxReported
  IN  [count        |-> Counted(d.count),
       reported     |-> IF fits \/ full THEN d.reported + 1 ELSE d.reported,
       last_printed |-> fits,
       lines        |-> IF fits THEN Append(d.lines, ErrorLine(at))
                        ELSE IF full THEN Append(d.lines, CutOffLine(at)) ELSE d.lines]

diag_note(d, at, for) ==
  IF d.last_printed THEN [d EXCEPT !.lines = Append(@, NoteLine(at, for))] ELSE d

\* What is on stderr of a Diag that has counted some errors.
Printed(d, what) == {i \in DOMAIN d.lines : d.lines[i].what = what}

\* The errors printed are all that were counted, or as many as are allowed and
\* then, once and after all else, the notice; a note stands under its own error
\* (diag.h:14-35, "so a suppressed cascade does not leak notes").
Honest(d) ==
  /\ Cardinality(Printed(d, "error")) = IF d.count < MaxReported THEN d.count ELSE MaxReported
  /\ Printed(d, "cutoff") = IF d.count > MaxReported THEN {Len(d.lines)} ELSE {}
  /\ \A i \in Printed(d, "note") :
       i > 1 /\ d.lines[i - 1] = ErrorLine(d.lines[i].for)
=============================================================================
