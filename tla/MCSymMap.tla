------------------------------ MODULE MCSymMap ------------------------------
(***************************************************************************)
(* Instances of the symbol table: a key is a pair of a name and its hash,  *)
(* so that keys collide in a table of two, four or eight slots, and wrap.  *)
(***************************************************************************)
EXTENDS SymMap

MCKey  == {<<"a", 0>>, <<"b", 3>>, <<"c", 3>>, <<"d", 7>>, <<"e", 7>>}
MCHash == [k \in MCKey |-> k[2]]
=============================================================================
