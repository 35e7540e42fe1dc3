---------------------------- MODULE LexicalScopes ----------------------------
(***************************************************************************)
(* What block scoping promises, without vectors or marks: a stack of       *)
(* environments, each a map from the names declared in one scope to their  *)
(* declarations.  A name means what the innermost scope that has it says.  *)
(***************************************************************************)
EXTENDS Naturals, Sequences

CONSTANTS Name, Decl

VARIABLE env

IsBinding(b) == DOMAIN b \subseteq Name /\ \A n \in DOMAIN b : b[n] \in Decl
Empty    == [n \in {} |-> n]
Last     == Len(env)
Outer    == SubSeq(env, 1, Last - 1)

Init == env = <<>>

\* A function's body: its parameters are bound, in a scope around the body's.
EnterFn == env = <<>> /\ Len(env') = 2 /\ IsBinding(env'[1]) /\ env'[2] = Empty
LeaveFn == Last = 2 /\ env' = <<>>

\* A scope inside a body.
Enter == Last >= 2 /\ env' = Append(env, Empty)
Leave == Last > 2 /\ env' = Outer

\* A declaration: only the innermost scope changes, only by gaining a name.
Bind(n, d) ==
  /\ n \notin DOMAIN env[Last] /\ d \in Decl
  /\ env' = Append(Outer, [m \in DOMAIN env[Last] \cup {n} |->
                             IF m = n THEN d ELSE env[Last][m]])

Declare ==
  /\ Last >= 2 /\ Len(env') = Last
  /\ \E n \in Name \cap DOMAIN env'[Last] : Bind(n, env'[Last][n])

Next == EnterFn \/ LeaveFn \/ Enter \/ Leave \/ Declare

Spec == Init /\ [][Next]_env

\* The declaration n denotes, or outside if no scope has the name.
Lookup(n, outside) ==
  LET scopes == {i \in 1 .. Last : n \in DOMAIN env[i]}
  IN IF scopes = {} THEN outside
     ELSE env[CHOOSE i \in scopes : \A j \in scopes : j <= i][n]
=============================================================================
