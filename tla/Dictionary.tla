----------------------------- MODULE Dictionary -----------------------------
(***************************************************************************)
(* What map.h promises: a finite map from keys to pointers.  An insertion  *)
(* leaves a key that is there alone and says so; nothing is ever removed.  *)
(***************************************************************************)
CONSTANTS Key, Value, Null

VARIABLES dict, result

DictInit == dict = [k \in {} |-> Null] /\ result = Null

Put(k, v) ==
  \/ /\ k \in DOMAIN dict
     /\ result' = FALSE /\ UNCHANGED dict
  \/ /\ k \notin DOMAIN dict
     /\ dict' = [j \in DOMAIN dict \cup {k} |-> IF j = k THEN v ELSE dict[j]]
     /\ result' = TRUE

Get(k) ==
  /\ result' = IF k \in DOMAIN dict THEN dict[k] ELSE Null
  /\ UNCHANGED dict

DictNext == \E k \in Key : Get(k) \/ \E v \in Value : Put(k, v)

DictSpec == DictInit /\ [][DictNext]_<<dict, result>>
=============================================================================
