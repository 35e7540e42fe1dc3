------------------------------ MODULE MCLayout ------------------------------
(***************************************************************************)
(* Instances of pass 3 for TLC: three structs, so that cycles of length    *)
(* one, two and three occur, one global and one function.  Two families of *)
(* programs: structs that refer to one another in every way a declaration  *)
(* can, in every order; and every odd type in every kind of place.         *)
(***************************************************************************)
EXTENDS IrLayout

T(b, m) == [base |-> b, mods |-> m]

MCCoreSize == [c \in {"i8", "i64"} |-> IF c = "i8" THEN 1 ELSE 8]

RefTypes ==
  {T("i8", <<>>), T("A", <<>>), T("B", <<>>), T("C", <<>>), T("B", <<2>>),
   T("A", <<Star>>), T("A", <<2, Star>>)}
FewTypes ==
  {T("i64", <<>>), T("A", <<>>), T("C", <<3>>), T("C", <<2, Star>>), T("A", <<Star, 2>>)}

\* void, an unknown name, A[0], i64[200] (too large), A[2][3] and others
OddTypes ==
  {T("void", <<>>), T("nosuch", <<>>), T("void", <<2>>), T("A", <<0>>), T("i64", <<200>>),
   T("A", <<2, 3>>), T("nosuch", <<Star>>), T("A", <<>>)}
BigTypes == {T("i64", <<100>>), T("i8", <<200>>)}
TailTypes == FewTypes \cup {T("B", <<>>), T("A", <<2>>)}

MCTypeTerm == RefTypes \cup TailTypes \cup OddTypes \cup BigTypes

Parts(tys) == [j \in 1 .. Len(tys) |-> [name |-> <<"p", "q">>[j], type |-> tys[j]]]
SeqsTo(S, n) == UNION {[1 .. k -> S] : k \in 0 .. n}
Orders == {<<"A", "B", "C">>, <<"C", "B", "A">>, <<"B", "C", "A">>}

Family(As, Bs, Cs, gs, fs) ==
  {[it \in {"A", "B", "C", "g", "f"} |->
      CASE it = "A" -> a [] it = "B" -> b [] it = "C" -> c [] it = "g" -> g [] it = "f" -> f] :
     a \in As, b \in Bs, c \in Cs, g \in gs, f \in fs}

Void1 == {Parts(<<T("void", <<>>)>>)}
RefPrograms ==
  Family({Parts(t) : t \in SeqsTo(RefTypes, 2)},
         {Parts(t) : t \in SeqsTo(FewTypes, 2)},
         {Parts(t) : t \in SeqsTo(TailTypes, 1)},
         Void1, Void1)
OddPrograms ==
  Family({Parts(<<>>), Parts(<<T("i8", <<>>), T("i64", <<>>)>>)},
         {Parts(<<t>>) : t \in OddTypes}
           \cup {Parts(t) : t \in [1 .. 2 -> BigTypes]}
           \cup {[j \in 1 .. 2 |-> [name |-> "p", type |-> T("A", <<>>)]]},
         {Parts(<<T("A", <<>>)>>)},
         {Parts(<<t>>) : t \in OddTypes},
         {Parts(<<t, u>>) : t, u \in {T("void", <<>>), T("A", <<>>), T("A", <<2>>), T("i8", <<>>)}})

MCInit ==
  \/ \E p \in RefPrograms, o \in Orders : InitFor(p, o)
  \/ \E p \in OddPrograms : InitFor(p, <<"g", "C", "f", "B", "A">>)
MCSpec == MCInit /\ [][Next]_vars /\ WF_vars(Next)
=============================================================================
