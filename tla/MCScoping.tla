------------------------------ MODULE MCScoping ------------------------------
(***************************************************************************)
(* Instances of the two walks: sc0 may be a parameter, a local or a global *)
(* variable, and is spelled like the slot of a short circuit; k is also an *)
(* enum member and f also a function.                                      *)
(***************************************************************************)
EXTENDS Scoping

X == <<"sc", 0>>
K == <<"k", 0>>
F == <<"f", 0>>

MCName == {X, K, F}
MCGlobalKind == [n \in MCName |->
                   CASE n = X -> "global" [] n = K -> "enum" [] n = F -> "fn"]
MCParamLists == {<<>>, <<X>>, <<K, X>>, <<X, X>>}
=============================================================================
