--------------------------- MODULE StructuredFlow ---------------------------
(***************************************************************************)
(* Where control goes in a structured program, without blocks or jumps:    *)
(* statements are numbered in the order of the text, 0 is the function's   *)
(* entry, and edges holds the pairs of which the second may come right     *)
(* after the first.  Conditions are not interpreted: both ways are         *)
(* possible.  A compound statement's number stands for its condition or    *)
(* scrutinee.                                                              *)
(***************************************************************************)
EXTENDS Naturals, Sequences

VARIABLES
  last,    \* the number of the latest statement
  edges,   \* control flow among the statements so far
  came,    \* the statements that control comes from at this point of the text
  nest     \* the compound statements this point is inside of

flowVars == <<last, edges, came, nest>>

\* head: the statement's number; outs: whence control leaves it from inside.
Construct(k, h) == [kind |-> k, head |-> h, outs |-> {}, wild |-> FALSE]

In           == nest[Len(nest)]
Outer        == SubSeq(nest, 1, Len(nest) - 1)
SetIn(c)     == [nest EXCEPT ![Len(nest)] = c]
Loops        == {d \in DOMAIN nest : nest[d].kind = "while"}
InnerLoop    == CHOOSE d \in Loops : \A e \in Loops : e <= d
ComeTo(s)    == edges \cup (came \X {s})
This         == last + 1

FlowInit == last = 0 /\ edges = {} /\ came = {0} /\ nest = <<>>

\* A statement control passes through, and one it does not get past.
Through == last' = This /\ edges' = ComeTo(This) /\ came' = {This} /\ UNCHANGED nest
Away    == last' = This /\ edges' = ComeTo(This) /\ came' = {} /\ UNCHANGED nest

Breaks ==
  /\ last' = This /\ edges' = ComeTo(This) /\ came' = {}
  /\ nest' = [nest EXCEPT ![InnerLoop].outs = @ \cup {This}]

Continues ==
  /\ last' = This /\ came' = {} /\ UNCHANGED nest
  /\ edges' = ComeTo(This) \cup {<<This, nest[InnerLoop].head>>}

\* Into an if, a loop or a match.
Into(k) ==
  /\ last' = This /\ edges' = ComeTo(This) /\ came' = {This}
  /\ nest' = Append(nest, Construct(k, This))

Else ==
  /\ came' = {In.head}
  /\ nest' = SetIn([In EXCEPT !.outs = came])
  /\ UNCHANGED <<last, edges>>
OutOfIf   == came' = came \cup {In.head} /\ nest' = Outer /\ UNCHANGED <<last, edges>>
OutOfElse == came' = came \cup In.outs /\ nest' = Outer /\ UNCHANGED <<last, edges>>

OutOfLoop ==
  /\ edges' = ComeTo(In.head)
  /\ came' = In.outs \cup {In.head}
  /\ nest' = Outer
  /\ UNCHANGED last

\* One arm of a match.  A second wildcard arm has no meaning here.
IntoArm(isWildcard) ==
  /\ isWildcard => ~In.wild
  /\ came' = {In.head}
  /\ nest' = SetIn([In EXCEPT !.wild = @ \/ isWildcard])
  /\ UNCHANGED <<last, edges>>
OutOfArm ==
  /\ came' = {}
  /\ nest' = SetIn([In EXCEPT !.outs = @ \cup came])
  /\ UNCHANGED <<last, edges>>
OutOfMatch ==
  /\ came' = In.outs \cup (IF In.wild THEN {} ELSE {In.head})
  /\ nest' = Outer
  /\ UNCHANGED <<last, edges>>
=============================================================================
