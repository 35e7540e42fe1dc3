---------------------------- MODULE SymMapProofs ----------------------------
(***************************************************************************)
(* The symbol table for any set of keys, any hash function and any number  *)
(* of growths: nothing put into it is ever lost, and it is the dictionary  *)
(* map.h promises.                                                         *)
(*                                                                         *)
(* Findable is not inductive: where an insertion ends depends on the slots *)
(* its probe has passed (Walk), and what a rehash has copied so far        *)
(* decides that a move always ends at a free slot (Copied).                *)
(***************************************************************************)
EXTENDS SymMap, FiniteSetTheorems, TLAPS

-----------------------------------------------------------------------------
(* Slots *)

LEMMA HomeSlot ==
  ASSUME NEW k \in Key, NEW c \in Nat \ {0}
  PROVE  Home(k, c) \in Slot(c)
<1>1. Hash[k] \in Nat
  BY SymMapAssumption
<1> QED BY <1>1 DEF Home, Slot

LEMMA AfterSlot ==
  ASSUME NEW c \in Nat, NEW i \in Slot(c)
  PROVE  After(i, c) \in Slot(c) /\ c > 0
  BY DEF After, Slot

\* The full slots of a table of c slots.
LEMMA FullFinite ==
  ASSUME NEW c \in Nat, NEW ks, DOMAIN ks = Slot(c)
  PROVE  /\ IsFiniteSet(Full(ks)) /\ Cardinality(Full(ks)) \in Nat
         /\ Full(ks) \subseteq Slot(c)
<1>1. IsFiniteSet(Slot(c))
  BY FS_Interval DEF Slot
<1>2. Full(ks) \subseteq Slot(c)
  BY DEF Full
<1> QED BY <1>1, <1>2, FS_Subset, FS_CardinalityType

LEMMA EmptyFull == ASSUME NEW c \in Nat PROVE Full(EmptyKeys(c)) = {}
  BY DEF Full, EmptyKeys

\* Filling a slot.
LEMMA FillOne ==
  ASSUME NEW c \in Nat, NEW ks, DOMAIN ks = Slot(c), NEW i \in Slot(c), NEW k, k # Null
  PROVE  /\ Full([ks EXCEPT ![i] = k]) = Full(ks) \cup {i}
         /\ Cardinality(Full([ks EXCEPT ![i] = k])) \in Nat
         /\ Cardinality(Full([ks EXCEPT ![i] = k])) <= Cardinality(Full(ks)) + 1
<1>1. Full([ks EXCEPT ![i] = k]) = Full(ks) \cup {i}
  BY DEF Full
<1> DEFINE F == Full(ks)
<1>2. IsFiniteSet(F) /\ Cardinality(F) \in Nat
  BY FullFinite
<1> HIDE DEF F
<1>3. Cardinality(F \cup {i}) = IF i \in F THEN Cardinality(F) ELSE Cardinality(F) + 1
  BY <1>2, FS_AddElement
<1>4. Cardinality(F \cup {i}) \in Nat /\ Cardinality(F \cup {i}) <= Cardinality(F) + 1
  BY <1>2, <1>3
<1> QED BY <1>1, <1>4 DEF F

-----------------------------------------------------------------------------
(* Type correctness and room *)

\* The old slots whose keys the rehash has moved.
Moved == {i \in Full(old.keys) : i < old.i}

\* The room there is, and the names there are, at each point of a call.
Room ==
  /\ cap = 0 \/ cap >= 2
  /\ 4 * len <= 3 * cap
  /\ pc # "idle" /\ arg.op = "put" => 4 * (len + 1) <= 3 * cap
  /\ pc \in {"idle", "probe"} => Cardinality(Full(keys)) <= len
  /\ pc \in {"rehash", "move"} =>
       /\ arg.op = "put"
       /\ Cardinality(Full(old.keys)) <= len
       /\ Cardinality(Full(keys)) <= Cardinality(Moved)
  /\ pc = "move" => old.i < old.cap /\ old.keys[old.i] # Null

LEMMA RoomInit == Init => TypeOK /\ Room
<1> SUFFICES ASSUME Init PROVE TypeOK /\ Room
  OBVIOUS
<1>1. keys \in [Slot(0) -> Key \cup {Null}] /\ vals \in [Slot(0) -> Value \cup {Null}]
      /\ old \in [cap : Nat, keys : [Slot(0) -> Key \cup {Null}],
                  vals : [Slot(0) -> Value \cup {Null}], i : 0 .. 0]
      /\ old.cap = 0
  BY DEF Init, EmptyKeys, NoTable, Slot
<1>2. TypeOK
  BY <1>1 DEF Init, TypeOK
<1>3. Cardinality(Full(keys)) = 0
  BY EmptyFull, FS_EmptySet DEF Init
<1> QED BY <1>2, <1>3 DEF Init, Room

\* The parts of TypeOK the steps of a rehash use.
LEMMA OldType ==
  ASSUME TypeOK
  PROVE  /\ old.cap \in Nat /\ old.i \in 0 .. old.cap
         /\ old.keys \in [Slot(old.cap) -> Key \cup {Null}]
         /\ old.vals \in [Slot(old.cap) -> Value \cup {Null}]
         /\ old = [cap |-> old.cap, keys |-> old.keys, vals |-> old.vals, i |-> old.i]
         /\ DOMAIN keys = Slot(cap) /\ DOMAIN old.keys = Slot(old.cap)
  BY DEF TypeOK

LEMMA OldNext ==
  ASSUME TypeOK, old.i < old.cap, old' = [old EXCEPT !.i = @ + 1]
  PROVE  /\ old'.cap = old.cap /\ old'.keys = old.keys /\ old'.vals = old.vals
         /\ old'.i = old.i + 1
         /\ old' \in [cap : Nat, keys : [Slot(old'.cap) -> Key \cup {Null}],
                      vals : [Slot(old'.cap) -> Value \cup {Null}], i : 0 .. old'.cap]
<1>1. old.i + 1 \in 0 .. old.cap
  BY OldType
<1>2. old' = [cap |-> old.cap, keys |-> old.keys, vals |-> old.vals, i |-> old.i + 1]
  BY OldType
<1> QED BY <1>1, <1>2, OldType

LEMMA CapRoom ==
  ASSUME TypeOK, Room, pc # "idle", arg.op = "put"
  PROVE  cap \in Nat \ {0}
<1>1. cap \in Nat /\ len \in Nat /\ 4 * (len + 1) <= 3 * cap
  BY DEF TypeOK, Room
<1> QED BY <1>1

LEMMA TypeNext == TypeOK /\ Room /\ [Next]_vars => TypeOK'
<1> SUFFICES ASSUME TypeOK, Room, [Next]_vars PROVE TypeOK'
  OBVIOUS
<1>0. /\ cap \in Nat /\ len \in Nat /\ keys \in [Slot(cap) -> Key \cup {Null}]
      /\ vals \in [Slot(cap) -> Value \cup {Null}]
      /\ (pc # "idle" => arg.key \in Key) /\ (pc \in {"move", "probe"} => at \in Slot(cap))
  BY DEF TypeOK
<1>1. CASE UNCHANGED vars
  BY <1>1 DEF vars, TypeOK
<1>2. CASE GetNone
  BY <1>2 DEF GetNone, TypeOK
<1>3. ASSUME NEW k \in Key, GetStart(k) PROVE TypeOK'
  <2>1. cap \in Nat \ {0}
    BY <1>0, <1>3 DEF GetStart, Room
  <2>2. at' \in Slot(cap) /\ arg' \in [op : {"get", "put"}, key : Key \cup {Null}, val : Value \cup {Null}]
        /\ arg'.key \in Key
    BY <1>3, <2>1, HomeSlot DEF GetStart
  <2> QED BY <1>3, <2>2 DEF GetStart, TypeOK
<1>4. ASSUME NEW k \in Key, NEW v \in Value, PutStart(k, v) PROVE TypeOK'
  <2>1. cap \in Nat \ {0}
    BY <1>0, <1>4 DEF PutStart, NeedsGrowth
  <2>2. at' \in Slot(cap) /\ arg' \in [op : {"get", "put"}, key : Key \cup {Null}, val : Value \cup {Null}]
        /\ arg'.key \in Key
    BY <1>4, <2>1, HomeSlot DEF PutStart
  <2> QED BY <1>4, <2>2 DEF PutStart, TypeOK
<1>5. ASSUME NEW k \in Key, NEW v \in Value, PutGrow(k, v) PROVE TypeOK'
  <2>1. /\ cap' \in Nat /\ keys' \in [Slot(cap') -> Key \cup {Null}]
        /\ vals' \in [Slot(cap') -> Value \cup {Null}]
    BY <1>0, <1>5, SymMapAssumption DEF PutGrow, NewCap, EmptyKeys
  <2>2. arg' \in [op : {"get", "put"}, key : Key \cup {Null}, val : Value \cup {Null}]
        /\ arg'.key \in Key
    BY <1>5 DEF PutGrow
  <2>3. old' \in [cap : Nat, keys : [Slot(old'.cap) -> Key \cup {Null}],
                  vals : [Slot(old'.cap) -> Value \cup {Null}], i : 0 .. old'.cap]
    <3>1. old' = [cap |-> cap, keys |-> keys, vals |-> vals, i |-> 0]
      BY <1>5 DEF PutGrow
    <3> QED BY <1>0, <3>1
  <2> QED BY <1>5, <2>1, <2>2, <2>3 DEF PutGrow, TypeOK
<1>6. CASE RehashSkip
  BY <1>6, OldNext DEF RehashSkip, TypeOK
<1>7. CASE RehashFind
  <2>1. old.keys[old.i] \in Key
    BY <1>7, OldType DEF RehashFind, Slot
  <2>2. cap \in Nat \ {0}
    BY <1>7, CapRoom DEF RehashFind, Room
  <2>3. at' \in Slot(cap)
    BY <1>7, <2>1, <2>2, HomeSlot DEF RehashFind
  <2> QED BY <1>7, <2>3 DEF RehashFind, TypeOK
<1>8. CASE MoveProbe
  BY <1>0, <1>8, AfterSlot DEF MoveProbe, TypeOK
<1>9. CASE Move
  <2>1. old.i < old.cap /\ old.i \in Slot(old.cap)
    BY <1>9, OldType DEF Move, Room, Slot
  <2>2. /\ keys' \in [Slot(cap) -> Key \cup {Null}] /\ vals' \in [Slot(cap) -> Value \cup {Null}]
    BY <1>0, <1>9, <2>1, OldType DEF Move
  <2>3. old' \in [cap : Nat, keys : [Slot(old'.cap) -> Key \cup {Null}],
                  vals : [Slot(old'.cap) -> Value \cup {Null}], i : 0 .. old'.cap]
    BY <1>9, <2>1, OldNext DEF Move
  <2> QED BY <1>9, <2>2, <2>3 DEF Move, TypeOK
<1>10. CASE RehashDone
  <2>1. cap \in Nat \ {0} /\ arg.key \in Key
    BY <1>0, <1>10, CapRoom DEF RehashDone, Room
  <2>2. at' \in Slot(cap)
    BY <1>10, <2>1, HomeSlot DEF RehashDone
  <2>3. old' \in [cap : Nat, keys : [Slot(old'.cap) -> Key \cup {Null}],
                  vals : [Slot(old'.cap) -> Value \cup {Null}], i : 0 .. old'.cap]
    BY <1>10 DEF RehashDone, NoTable, EmptyKeys, Slot
  <2> QED BY <1>0, <1>10, <2>2, <2>3 DEF RehashDone, TypeOK
<1>11. CASE Probe
  BY <1>0, <1>11, AfterSlot DEF Probe, TypeOK
<1>12. CASE PutTaken
  BY <1>12 DEF PutTaken, TypeOK
<1>13. CASE PutNew
  <2>1. arg.val \in Value \cup {Null} /\ arg.key \in Key
    BY <1>13 DEF PutNew, TypeOK
  <2>2. keys' \in [Slot(cap) -> Key \cup {Null}] /\ vals' \in [Slot(cap) -> Value \cup {Null}]
    BY <1>0, <1>13, <2>1 DEF PutNew
  <2> QED BY <1>0, <1>13, <2>2 DEF PutNew, TypeOK
<1>14. CASE GetEnd
  <2>1. result' \in BOOLEAN \cup Value \cup {Null}
    BY <1>0, <1>14 DEF GetEnd
  <2> QED BY <1>14, <2>1 DEF GetEnd, TypeOK
<1> QED
  BY <1>1, <1>2, <1>3, <1>4, <1>5, <1>6, <1>7, <1>8, <1>9, <1>10, <1>11, <1>12, <1>13, <1>14
  DEF Next, Call, Rehash, Finish

\* The rehash has moved one key more when it passes a full slot.
LEMMA MovedGrows ==
  ASSUME TypeOK, old.i < old.cap, old' = [old EXCEPT !.i = @ + 1]
  PROVE  /\ Full(old'.keys) = Full(old.keys)
         /\ old.keys[old.i] = Null => Moved' = Moved
         /\ old.keys[old.i] # Null =>
              Moved' = Moved \cup {old.i} /\ Cardinality(Moved') = Cardinality(Moved) + 1
         /\ Cardinality(Moved) \in Nat /\ IsFiniteSet(Moved)
<1>1. /\ old.i \in Slot(old.cap) /\ old.cap \in Nat
      /\ Full(old.keys) \subseteq Slot(old.cap) /\ IsFiniteSet(Full(old.keys))
  BY OldType, FullFinite DEF Slot
<1>2. old'.keys = old.keys /\ old'.i = old.i + 1 /\ \A j \in Slot(old.cap) : j \in Int
  BY OldNext DEF Slot
<1>3. Moved' = {j \in Full(old.keys) : j < old.i + 1}
  BY <1>2 DEF Moved
<1>4. \A j \in Slot(old.cap) : j < old.i + 1 <=> j < old.i \/ j = old.i
  BY <1>1 DEF Slot
<1>5. IsFiniteSet(Moved) /\ Cardinality(Moved) \in Nat
  BY <1>1, FS_Subset, FS_CardinalityType DEF Moved
<1>6. CASE old.keys[old.i] = Null
  <2>1. old.i \notin Full(old.keys)
    BY <1>6 DEF Full
  <2>2. Moved' = Moved
    BY <1>1, <1>3, <1>4, <2>1 DEF Moved
  <2> QED BY <1>2, <1>5, <1>6, <2>2
<1>7. CASE old.keys[old.i] # Null
  <2>1. old.i \in Full(old.keys)
    BY <1>1, <1>7, OldType DEF Full
  <2>2. Moved' = Moved \cup {old.i} /\ old.i \notin Moved
    <3>1. \A j \in Full(old.keys) : j < old.i + 1 <=> j < old.i \/ j = old.i
      BY <1>1, <1>4
    <3>2. ~(old.i < old.i)
      BY <1>1 DEF Slot
    <3> QED BY <1>3, <2>1, <3>1, <3>2, Zenon DEF Moved
  <2>3. Cardinality(Moved \cup {old.i}) = Cardinality(Moved) + 1
    BY <1>5, <2>2, FS_AddElement
  <2> QED BY <1>2, <1>5, <1>7, <2>2, <2>3
<1> QED BY <1>6, <1>7

LEMMA RoomNext == TypeOK /\ Room /\ [Next]_vars => Room'
<1> SUFFICES ASSUME TypeOK, Room, [Next]_vars PROVE Room'
  OBVIOUS
<1>0. /\ cap \in Nat /\ len \in Nat /\ DOMAIN keys = Slot(cap)
      /\ Cardinality(Full(keys)) \in Nat
  BY OldType, FullFinite DEF TypeOK
<1>1. CASE UNCHANGED vars
  BY <1>1 DEF vars, Room, Moved
<1>2. CASE GetNone
  BY <1>2 DEF GetNone, Room
<1>3. ASSUME NEW k \in Key, GetStart(k) PROVE Room'
  BY <1>3 DEF GetStart, Room
<1>4. ASSUME NEW k \in Key, NEW v \in Value, PutStart(k, v) PROVE Room'
  <2>1. 4 * (len + 1) <= 3 * cap
    BY <1>0, <1>4 DEF PutStart, NeedsGrowth
  <2> QED BY <1>4, <2>1 DEF PutStart, Room
<1>5. ASSUME NEW k \in Key, NEW v \in Value, PutGrow(k, v) PROVE Room'
  <2>1. cap' = NewCap /\ NewCap \in Nat /\ NewCap >= 2 /\ 4 * (len + 1) <= 3 * NewCap
    BY <1>0, <1>5, SymMapAssumption DEF PutGrow, NewCap, Room
  <2>2. /\ old'.keys = keys /\ old'.i = 0 /\ pc' = "rehash" /\ arg'.op = "put" /\ len' = len
        /\ keys' = EmptyKeys(NewCap) /\ pc = "idle"
    BY <1>5 DEF PutGrow
  <2>3. Cardinality(Full(keys')) = 0
    BY <2>1, <2>2, EmptyFull, FS_EmptySet
  <2>4. Cardinality(Full(old'.keys)) <= len
    BY <2>2 DEF Room
  <2>5. Cardinality(Moved') = 0
    <3>1. \A i \in Full(keys) : ~(i < 0)
      BY <1>0, FullFinite DEF Slot
    <3>2. Moved' = {}
      BY <2>2, <3>1 DEF Moved
    <3> QED BY <3>2, FS_EmptySet
  <2>6. 4 * len <= 3 * NewCap
    BY <1>0, <2>1
  <2> QED BY <2>1, <2>2, <2>3, <2>4, <2>5, <2>6 DEF Room
<1>6. CASE RehashSkip
  <2>1. old.i < old.cap /\ old' = [old EXCEPT !.i = @ + 1] /\ old.keys[old.i] = Null
    BY <1>6 DEF RehashSkip
  <2>2. Full(old'.keys) = Full(old.keys) /\ Moved' = Moved
    BY <2>1, MovedGrows
  <2> QED BY <1>6, <2>2 DEF RehashSkip, Room
<1>7. CASE RehashFind
  BY <1>7 DEF RehashFind, Room, Moved
<1>8. CASE MoveProbe
  BY <1>8 DEF MoveProbe, Room, Moved
<1>9. CASE Move
  <2>1. /\ old.i < old.cap /\ old' = [old EXCEPT !.i = @ + 1] /\ old.keys[old.i] # Null
        /\ at \in Slot(cap) /\ keys' = [keys EXCEPT ![at] = old.keys[old.i]]
    BY <1>9 DEF Move, Room, TypeOK
  <2>2. /\ Full(old'.keys) = Full(old.keys)
        /\ Cardinality(Moved') = Cardinality(Moved) + 1 /\ Cardinality(Moved) \in Nat
    BY <2>1, MovedGrows
  <2>3. /\ Cardinality(Full(keys')) <= Cardinality(Full(keys)) + 1
        /\ Cardinality(Full(keys')) \in Nat
    <3>1. \A k : k # Null =>
            /\ Cardinality(Full([keys EXCEPT ![at] = k])) \in Nat
            /\ Cardinality(Full([keys EXCEPT ![at] = k])) <= Cardinality(Full(keys)) + 1
      BY <1>0, <2>1, FillOne
    <3> QED BY <2>1, <3>1
  <2>4. Cardinality(Full(keys)) <= Cardinality(Moved)
    BY <1>9 DEF Move, Room
  <2>5. Cardinality(Full(keys')) <= Cardinality(Moved')
    BY <1>0, <2>2, <2>3, <2>4
  <2> QED BY <1>9, <2>2, <2>5 DEF Move, Room
<1>10. CASE RehashDone
  <2>1. /\ Cardinality(Moved) <= Cardinality(Full(old.keys))
        /\ Cardinality(Moved) \in Nat /\ Cardinality(Full(old.keys)) \in Nat
    <3>1. IsFiniteSet(Full(old.keys)) /\ Moved \subseteq Full(old.keys)
      BY OldType, FullFinite DEF Moved
    <3> QED BY <3>1, FS_Subset, FS_CardinalityType
  <2>2. Cardinality(Full(keys)) <= len
    BY <1>0, <1>10, <2>1 DEF RehashDone, Room
  <2> QED BY <1>10, <2>2 DEF RehashDone, Room
<1>11. CASE Probe
  BY <1>11 DEF Probe, Room
<1>12. CASE PutTaken
  BY <1>12 DEF PutTaken, Room
<1>13. CASE PutNew
  <2>1. /\ at \in Slot(cap) /\ arg.key # Null /\ keys' = [keys EXCEPT ![at] = arg.key]
        /\ len' = len + 1 /\ pc' = "idle" /\ cap' = cap /\ arg.op = "put" /\ pc = "probe"
    BY <1>13, SymMapAssumption DEF PutNew, TypeOK
  <2>2. /\ Cardinality(Full(keys')) <= Cardinality(Full(keys)) + 1
        /\ Cardinality(Full(keys')) \in Nat
    <3>1. \A k : k # Null =>
            /\ Cardinality(Full([keys EXCEPT ![at] = k])) \in Nat
            /\ Cardinality(Full([keys EXCEPT ![at] = k])) <= Cardinality(Full(keys)) + 1
      BY <1>0, <2>1, FillOne
    <3> QED BY <2>1, <3>1
  <2>3. Cardinality(Full(keys)) <= len /\ 4 * (len + 1) <= 3 * cap
    BY <2>1 DEF Room
  <2>4. Cardinality(Full(keys')) <= len'
    BY <1>0, <2>1, <2>2, <2>3
  <2> QED BY <2>1, <2>3, <2>4 DEF Room
<1>14. CASE GetEnd
  BY <1>14 DEF GetEnd, Room
<1> QED
  BY <1>1, <1>2, <1>3, <1>4, <1>5, <1>6, <1>7, <1>8, <1>9, <1>10, <1>11, <1>12, <1>13, <1>14
  DEF Next, Call, Rehash, Finish

LEMMA MapTypeRoom == Spec => [](TypeOK /\ Room)
<1> QED BY RoomInit, TypeNext, RoomNext, PTL DEF Spec

\* Every index the table computes is one of its slots: no probe, no move and no
\* look-up leaves the arrays, whatever the hashes and the growths (map.c:38-97).
THEOREM MapTypeCorrect == Spec => []TypeOK
BY MapTypeRoom, PTL

LEMMA RoomQuarter == TypeOK /\ Room => QuarterEmpty
<1> SUFFICES ASSUME TypeOK, Room, pc \in {"move", "probe"}
             PROVE  4 * (Cardinality(Full(keys)) + (IF arg.op = "get" THEN 0 ELSE 1)) <= 3 * cap
  BY DEF QuarterEmpty
<1>1. /\ cap \in Nat /\ len \in Nat /\ Cardinality(Full(keys)) \in Nat
      /\ arg.op \in {"get", "put"}
  BY OldType, FullFinite DEF TypeOK
<1>2. Cardinality(Full(keys)) <= len
  <2>1. CASE pc = "probe"
    BY <2>1 DEF Room
  <2>2. CASE pc = "move"
    <3>1. IsFiniteSet(Full(old.keys)) /\ Moved \subseteq Full(old.keys)
      BY OldType, FullFinite DEF Moved
    <3>2. /\ Cardinality(Moved) <= Cardinality(Full(old.keys))
          /\ Cardinality(Moved) \in Nat /\ Cardinality(Full(old.keys)) \in Nat
      BY <3>1, FS_Subset, FS_CardinalityType
    <3> QED BY <1>1, <2>2, <3>2 DEF Room
  <2> QED BY <2>1, <2>2
<1>3. CASE arg.op = "get"
  BY <1>1, <1>2, <1>3 DEF Room
<1>4. CASE arg.op = "put"
  <2>1. 4 * (len + 1) <= 3 * cap
    BY <1>4 DEF Room
  <2> QED BY <1>1, <1>2, <1>4, <2>1
<1> QED BY <1>1, <1>3, <1>4

\* "The table is never full when this is called": a quarter of the slots is
\* empty during every probe, in the middle of a rehash too (map.c:35-37).
THEOREM QuarterAlwaysEmpty == Spec => []QuarterEmpty
BY MapTypeRoom, RoomQuarter, PTL

-----------------------------------------------------------------------------
(* Going round the table *)

LEMMA PastSlot ==
  ASSUME NEW c \in Nat \ {0}, NEW h \in Slot(c)
  PROVE  /\ \A d \in Slot(c) : Past(h, d, c) \in Slot(c)
         /\ \A d, e \in Slot(c) : Past(h, d, c) = Past(h, e, c) => d = e
         /\ \A d \in Slot(c) : d + 1 < c =>
              d + 1 \in Slot(c) /\ After(Past(h, d, c), c) = Past(h, d + 1, c)
         /\ Past(h, 0, c) = h /\ 0 \in Slot(c)
  BY DEF Past, Slot, After

LEMMA PastAll ==
  ASSUME NEW c \in Nat \ {0}, NEW h \in Slot(c), NEW i \in Slot(c)
  PROVE  \E d \in Slot(c) : Past(h, d, c) = i
<1>1. CASE i >= h
  <2>1. i - h \in Slot(c) /\ Past(h, i - h, c) = i
    BY <1>1 DEF Past, Slot
  <2> QED BY <2>1
<1>2. CASE i < h
  <2>1. i - h + c \in Slot(c) /\ Past(h, i - h + c, c) = i
    BY <1>2 DEF Past, Slot
  <2> QED BY <2>1
<1> QED BY <1>1, <1>2 DEF Slot

\* The probe for k has come to slot i: it has passed full slots of other keys.
Reached(k, i) ==
  \E d \in Slot(cap) :
    /\ i = Past(Home(k, cap), d, cap)
    /\ \A e \in 0 .. (d - 1) :
         ~Free(Past(Home(k, cap), e, cap)) /\ keys[Past(Home(k, cap), e, cap)] # k

LEMMA ReachedHome ==
  ASSUME NEW k \in Key, cap \in Nat \ {0}
  PROVE  Reached(k, Home(k, cap))
<1>1. Home(k, cap) \in Slot(cap)
  BY HomeSlot
<1>2. 0 \in Slot(cap) /\ Past(Home(k, cap), 0, cap) = Home(k, cap)
  BY <1>1, PastSlot
<1>3. \A e \in 0 .. (0 - 1) : FALSE
  OBVIOUS
<1> QED BY <1>2, <1>3 DEF Reached

\* While a slot is empty, a probe that does not stop goes on to the next slot.
LEMMA ReachedNext ==
  ASSUME TypeOK, NEW k \in Key, cap \in Nat \ {0}, NEW i \in Slot(cap), Reached(k, i),
         ~StopsAt(k, i), 4 * Cardinality(Full(keys)) <= 3 * cap
  PROVE  Reached(k, After(i, cap))
<1> DEFINE h == Home(k, cap)
<1>1. h \in Slot(cap)
  BY HomeSlot
<1>2. PICK d \in Slot(cap) :
        /\ i = Past(h, d, cap)
        /\ \A e \in 0 .. (d - 1) : ~Free(Past(h, e, cap)) /\ keys[Past(h, e, cap)] # k
  BY DEF Reached
<1>3. ~Free(i) /\ keys[i] # k
  BY DEF StopsAt
<1>4. \A e \in 0 .. d : ~Free(Past(h, e, cap)) /\ keys[Past(h, e, cap)] # k
  <2>1. \A e \in 0 .. d : e \in 0 .. (d - 1) \/ e = d
    BY DEF Slot
  <2> HIDE DEF h
  <2> QED BY <1>2, <1>3, <2>1
<1>5. d + 1 < cap
  <2>1. SUFFICES ASSUME ~(d + 1 < cap) PROVE FALSE
    OBVIOUS
  <2>2. Slot(cap) = 0 .. d
    BY <2>1 DEF Slot
  <2>3. \A j \in Slot(cap) : keys[j] # Null
    <3> TAKE j \in Slot(cap)
    <3>1. PICK e \in Slot(cap) : Past(h, e, cap) = j
      BY <1>1, PastAll
    <3> HIDE DEF h
    <3> QED BY <1>4, <2>2, <3>1 DEF Free
  <2>4. Full(keys) = Slot(cap)
    BY <2>3, OldType DEF Full
  <2>5. Cardinality(Slot(cap)) = cap
    BY FS_Interval DEF Slot
  <2> QED BY <2>4, <2>5
<1>6. d + 1 \in Slot(cap) /\ After(i, cap) = Past(h, d + 1, cap)
  BY <1>1, <1>2, <1>5, PastSlot
<1>7. \A e \in 0 .. ((d + 1) - 1) : e \in 0 .. d
  BY DEF Slot
<1> HIDE DEF h
<1>8. \A e \in 0 .. ((d + 1) - 1) : ~Free(Past(h, e, cap)) /\ keys[Past(h, e, cap)] # k
  BY <1>4, <1>7
<1> QED BY <1>6, <1>8 DEF Reached, h

\* A probe that ends at an empty slot has shown that its key is not there.
LEMMA FreeMeansAbsent ==
  ASSUME TypeOK, Findable, NEW k \in Key, cap \in Nat \ {0}, NEW i \in Slot(cap),
         Reached(k, i), Free(i)
  PROVE  \A j \in Full(keys) : keys[j] # k
<1> SUFFICES ASSUME NEW j \in Full(keys), keys[j] = k PROVE FALSE
  OBVIOUS
<1> DEFINE h == Home(k, cap)
<1>1. PICK d \in Slot(cap) :
        /\ i = Past(h, d, cap)
        /\ \A e \in 0 .. (d - 1) : ~Free(Past(h, e, cap)) /\ keys[Past(h, e, cap)] # k
  BY DEF Reached
<1>2. PICK c \in Slot(cap) :
        /\ j = Past(h, c, cap)
        /\ \A e \in 0 .. (c - 1) : ~Free(Past(h, e, cap))
  BY DEF Findable
<1> HIDE DEF h
<1>3. CASE c < d
  <2>1. c \in 0 .. (d - 1)
    BY <1>3 DEF Slot
  <2> QED BY <1>1, <1>2, <2>1
<1>4. CASE d < c
  <2>1. d \in 0 .. (c - 1)
    BY <1>4 DEF Slot
  <2> QED BY <1>1, <1>2, <2>1
<1>5. CASE c = d
  BY <1>1, <1>2, <1>5 DEF Full, Free
<1> QED BY <1>3, <1>4, <1>5 DEF Slot

\* Filling the slot such a probe ended at keeps every key where it is found.
LEMMA FillFindable ==
  ASSUME TypeOK, Findable, NEW k \in Key, cap \in Nat \ {0}, NEW i \in Slot(cap),
         Reached(k, i), Free(i), cap' = cap, keys' = [keys EXCEPT ![i] = k]
  PROVE  Findable'
<1>1. /\ DOMAIN keys = Slot(cap) /\ k # Null /\ keys[i] = Null
      /\ \A j \in Full(keys) : keys[j] # k
  BY OldType, FreeMeansAbsent, SymMapAssumption DEF Free
<1>2. /\ Full(keys') = Full(keys) \cup {i} /\ i \notin Full(keys)
      /\ \A j \in Full(keys) : keys'[j] = keys[j]
      /\ keys'[i] = k
  BY <1>1 DEF Full
<1>3. \A j \in Slot(cap) : keys[j] # Null => keys'[j] # Null
  BY <1>1
<1>4. Home(k, cap) \in Slot(cap)
      /\ \A j \in Full(keys) : keys[j] \in Key /\ Home(keys[j], cap) \in Slot(cap)
  BY <1>1, HomeSlot DEF Full, TypeOK
<1>5. ASSUME NEW j \in Full(keys')
      PROVE  \E d \in Slot(cap) :
               /\ j = Past(Home(keys'[j], cap), d, cap)
               /\ \A e \in 0 .. (d - 1) : keys'[Past(Home(keys'[j], cap), e, cap)] # Null
  <2> DEFINE h == Home(keys'[j], cap)
  <2>1. h \in Slot(cap)
    BY <1>2, <1>4
  <2>2. PICK d \in Slot(cap) :
          j = Past(h, d, cap) /\ \A e \in 0 .. (d - 1) : keys[Past(h, e, cap)] # Null
    <3>1. CASE j = i
      BY <1>2, <3>1 DEF Reached, Free
    <3>2. CASE j \in Full(keys)
      BY <1>2, <3>2 DEF Findable, Free
    <3> QED BY <1>2, <3>1, <3>2
  <2>3. \A e \in 0 .. (d - 1) : e \in Slot(cap)
    BY DEF Slot
  <2> HIDE DEF h
  <2>4. \A e \in 0 .. (d - 1) : keys'[Past(h, e, cap)] # Null
    BY <1>3, <2>1, <2>2, <2>3, PastSlot
  <2> QED BY <2>2, <2>4 DEF h
<1>6. \A j, l \in Full(keys') : keys'[j] = keys'[l] => j = l
  BY <1>1, <1>2 DEF Findable
<1>7. \A j \in Full(keys') :
        \E d \in Slot(cap') :
          /\ j = Past(Home(keys'[j], cap'), d, cap')
          /\ \A e \in 0 .. (d - 1) : keys'[Past(Home(keys'[j], cap'), e, cap')] # Null
  BY <1>5
<1>8. \A j \in Full(keys') : \A l \in Full(keys') : keys'[j] = keys'[l] => j = l
  BY <1>6
<1> QED BY <1>7, <1>8, Zenon DEF Findable, Free, Home, Slot, Past

-----------------------------------------------------------------------------
(* The invariant *)

\* The key being placed or looked up.
ProbeKey == IF pc = "move" THEN old.keys[old.i] ELSE arg.key

\* The probe in progress is on its way.
Walk == pc \in {"move", "probe"} => Reached(ProbeKey, at)

\* The arguments of an insertion.
PutArgs == arg.op = "put" => arg.key \in Key /\ arg.val \in Value

\* The new table holds exactly what the rehash has moved.
Copied ==
  pc \in {"rehash", "move"} =>
    /\ \A j \in Full(keys) : \E i \in Moved : keys[j] = old.keys[i] /\ vals[j] = old.vals[i]
    /\ \A i \in Moved : \E j \in Full(keys) : keys[j] = old.keys[i]
    /\ \A i, j \in Full(old.keys) : old.keys[i] = old.keys[j] => i = j

Inv == TypeOK /\ Room /\ PutArgs /\ Findable /\ Walk /\ Copied

\* A probe in progress is in a table with slots, one of them empty.
LEMMA InProbe ==
  ASSUME Inv, pc \in {"move", "probe"}
  PROVE  /\ cap \in Nat \ {0} /\ at \in Slot(cap) /\ ProbeKey \in Key
         /\ 4 * Cardinality(Full(keys)) <= 3 * cap
         /\ Reached(ProbeKey, at)
<1>1. cap \in Nat /\ at \in Slot(cap) /\ Cardinality(Full(keys)) \in Nat
  BY OldType, FullFinite DEF Inv, TypeOK
<1>2. cap # 0
  BY <1>1 DEF Slot
<1>3. ProbeKey \in Key
  <2>1. CASE pc = "move"
    <3>1. old.i \in Slot(old.cap) /\ old.keys[old.i] # Null
      BY <2>1, OldType DEF Inv, Room, Slot
    <3> QED BY <2>1, <3>1, OldType DEF ProbeKey, Inv
  <2>2. CASE pc = "probe"
    BY <2>2 DEF ProbeKey, Inv, TypeOK
  <2> QED BY <2>1, <2>2
<1>4. 4 * Cardinality(Full(keys)) <= 3 * cap
  <2>1. 4 * (Cardinality(Full(keys)) + (IF arg.op = "get" THEN 0 ELSE 1)) <= 3 * cap
    BY RoomQuarter DEF QuarterEmpty, Inv
  <2> QED BY <1>1, <2>1
<1> QED BY <1>1, <1>2, <1>3, <1>4 DEF Inv, Walk

\* Nothing a step keeps the table and the probe for can disturb them.
LEMMA SameTable ==
  ASSUME Inv, UNCHANGED <<cap, keys>>
  PROVE  /\ Findable'
         /\ \A k, i : Reached(k, i)' <=> Reached(k, i)
         /\ Full(keys') = Full(keys)
<1>1. \A i : Free(i)' <=> Free(i)
  BY DEF Free
<1> QED BY <1>1 DEF Findable, Reached, Inv, Home, Past, Slot, Free, Full

LEMMA InvInit == Init => Inv
<1> SUFFICES ASSUME Init PROVE Inv
  OBVIOUS
<1>1. Full(keys) = {}
  BY EmptyFull DEF Init
<1>2. Findable
  BY <1>1 DEF Findable
<1> QED BY <1>2, RoomInit DEF Init, Inv, PutArgs, Walk, Copied

\* A call starts its probe, in a table that stays as it is.
LEMMA StartStep ==
  ASSUME Inv, NEW k \in Key, GetStart(k) \/ \E v \in Value : PutStart(k, v)
  PROVE  PutArgs' /\ Findable' /\ Walk' /\ Copied'
<1>1. /\ UNCHANGED <<cap, keys, vals, old>> /\ pc' = "probe" /\ at' = Home(k, cap)
      /\ arg'.key = k
  BY DEF GetStart, PutStart
<1>2. cap \in Nat \ {0}
  BY DEF GetStart, PutStart, NeedsGrowth, Inv, TypeOK, Room
<1>3. Reached(k, Home(k, cap))
  BY <1>2, ReachedHome
<1>4. Walk'
  BY <1>1, <1>3, SameTable DEF Walk, ProbeKey
<1>5. PutArgs'
  BY DEF GetStart, PutStart, PutArgs
<1> QED BY <1>1, <1>4, <1>5, SameTable DEF Copied

LEMMA GrowStep ==
  ASSUME Inv, NEW k \in Key, NEW v \in Value, PutGrow(k, v)
  PROVE  PutArgs' /\ Findable' /\ Walk' /\ Copied'
<1>1. /\ pc' = "rehash" /\ keys' = EmptyKeys(NewCap) /\ arg' = [op |-> "put", key |-> k, val |-> v]
      /\ old'.keys = keys /\ old'.i = 0
  BY DEF PutGrow
<1>2. NewCap \in Nat
  BY SymMapAssumption DEF NewCap, Inv, TypeOK
<1>3. Full(keys') = {}
  BY <1>1, <1>2, EmptyFull
<1>4. Moved' = {}
  <2>1. \A i \in Full(keys) : ~(i < 0)
    BY OldType, FullFinite DEF Slot, Inv, TypeOK
  <2> QED BY <1>1, <2>1 DEF Moved
<1>5. \A i, j \in Full(old'.keys) : old'.keys[i] = old'.keys[j] => i = j
  BY <1>1 DEF Inv, Findable
<1>6. Copied'
  BY <1>3, <1>4, <1>5 DEF Copied
<1>7. Findable'
  BY <1>3 DEF Findable
<1> QED BY <1>1, <1>6, <1>7 DEF PutArgs, Walk

LEMMA SkipStep ==
  ASSUME Inv, RehashSkip
  PROVE  PutArgs' /\ Findable' /\ Walk' /\ Copied'
<1>1. /\ old.i < old.cap /\ old' = [old EXCEPT !.i = @ + 1] /\ old.keys[old.i] = Null
      /\ UNCHANGED <<cap, keys, vals, arg>> /\ pc' = "rehash" /\ pc = "rehash"
  BY DEF RehashSkip
<1>2. /\ Moved' = Moved /\ old'.keys = old.keys /\ old'.vals = old.vals
  BY <1>1, MovedGrows, OldNext DEF Inv
<1>3. Full(keys') = Full(keys) /\ Findable'
  BY <1>1, SameTable
<1> QED BY <1>1, <1>2, <1>3 DEF Inv, PutArgs, Walk, Copied

LEMMA FindStep ==
  ASSUME Inv, RehashFind
  PROVE  PutArgs' /\ Findable' /\ Walk' /\ Copied'
<1>1. /\ pc = "rehash" /\ pc' = "move" /\ UNCHANGED <<cap, keys, vals, old, arg>>
      /\ at' = Home(old.keys[old.i], cap) /\ old.i < old.cap /\ old.keys[old.i] # Null
  BY DEF RehashFind
<1>2. cap \in Nat \ {0} /\ old.keys[old.i] \in Key
  <2>1. old.i \in Slot(old.cap)
    BY <1>1, OldType DEF Inv, Slot
  <2> QED BY <1>1, <2>1, CapRoom, OldType DEF Inv, Room
<1>3. Reached(old.keys[old.i], at')
  BY <1>1, <1>2, ReachedHome
<1>4. Walk'
  BY <1>1, <1>3, SameTable DEF Walk, ProbeKey
<1> QED BY <1>1, <1>4, SameTable DEF Inv, PutArgs, Copied, Moved

LEMMA ProbeStep ==
  ASSUME Inv, Probe \/ MoveProbe
  PROVE  PutArgs' /\ Findable' /\ Walk' /\ Copied'
<1>1. /\ pc \in {"move", "probe"} /\ UNCHANGED <<cap, keys, vals, old, arg, pc>>
      /\ at' = After(at, cap) /\ ~StopsAt(ProbeKey, at)
  BY DEF Probe, MoveProbe, ProbeKey
<1>2. Reached(ProbeKey, at') /\ ProbeKey' = ProbeKey
  BY <1>1, InProbe, ReachedNext DEF Inv, ProbeKey
<1>3. Walk'
  BY <1>1, <1>2, SameTable DEF Walk
<1> QED BY <1>1, <1>3, SameTable DEF Inv, PutArgs, Copied, Moved

\* A move ends at a free slot: no key is in the old arrays twice.
LEMMA MoveFree ==
  ASSUME Inv, Move
  PROVE  Free(at)
<1>1. /\ pc = "move" /\ old.i < old.cap /\ old.keys[old.i] # Null
      /\ StopsAt(old.keys[old.i], at) /\ at \in Slot(cap)
  BY DEF Move, Inv, Room, TypeOK
<1> SUFFICES ASSUME ~Free(at) PROVE FALSE
  OBVIOUS
<1>2. at \in Full(keys) /\ keys[at] = old.keys[old.i]
  BY <1>1, OldType DEF StopsAt, Free, Full, Inv
<1>3. PICK i \in Moved : old.keys[i] = old.keys[old.i]
  BY <1>1, <1>2 DEF Inv, Copied
<1>4. old.i \in Full(old.keys) /\ i \in Full(old.keys) /\ i < old.i
  BY <1>1, <1>3, OldType DEF Full, Moved, Inv, Slot
<1>5. i = old.i
  BY <1>1, <1>3, <1>4 DEF Inv, Copied
<1> QED BY <1>4, <1>5, OldType DEF Inv

LEMMA MoveStep ==
  ASSUME Inv, Move
  PROVE  PutArgs' /\ Findable' /\ Walk' /\ Copied'
<1> DEFINE k == old.keys[old.i]
           v == old.vals[old.i]
<1>1. /\ pc = "move" /\ pc' = "rehash" /\ old.i < old.cap /\ k # Null
      /\ old' = [old EXCEPT !.i = @ + 1] /\ cap' = cap /\ arg' = arg
      /\ keys' = [keys EXCEPT ![at] = k] /\ vals' = [vals EXCEPT ![at] = v]
  BY DEF Move, Inv, Room
<1>2. /\ cap \in Nat \ {0} /\ at \in Slot(cap) /\ k \in Key /\ Reached(k, at)
  BY <1>1, InProbe DEF ProbeKey
<1>3. Free(at)
  BY MoveFree
<1>4. Findable'
  <2> HIDE DEF k, v
  <2> QED BY <1>1, <1>2, <1>3, FillFindable DEF Inv
<1>5. /\ Moved' = Moved \cup {old.i} /\ old'.keys = old.keys /\ old'.vals = old.vals
  BY <1>1, MovedGrows, OldNext DEF Inv
<1>6. /\ Full(keys') = Full(keys) \cup {at} /\ at \notin Full(keys)
      /\ keys'[at] = k /\ vals'[at] = v
      /\ \A j \in Full(keys) : keys'[j] = keys[j] /\ vals'[j] = vals[j]
  <2>1. DOMAIN keys = Slot(cap) /\ DOMAIN vals = Slot(cap)
    BY DEF Inv, TypeOK
  <2> HIDE DEF k, v
  <2> QED BY <1>1, <1>2, <1>3, <2>1 DEF Full, Free
<1>7. Copied'
  <2>1. ASSUME NEW j \in Full(keys')
        PROVE  \E i \in Moved' : keys'[j] = old'.keys[i] /\ vals'[j] = old'.vals[i]
    <3>1. CASE j = at
      BY <1>5, <1>6, <3>1
    <3>2. CASE j \in Full(keys)
      <4>1. PICK i \in Moved : keys[j] = old.keys[i] /\ vals[j] = old.vals[i]
        BY <1>1, <3>2 DEF Inv, Copied
      <4> QED BY <1>5, <1>6, <3>2, <4>1
    <3> QED BY <1>6, <3>1, <3>2
  <2>2. ASSUME NEW i \in Moved'
        PROVE  \E j \in Full(keys') : keys'[j] = old'.keys[i]
    <3>1. CASE i = old.i
      BY <1>5, <1>6, <3>1
    <3>2. CASE i \in Moved
      <4>1. PICK j \in Full(keys) : keys[j] = old.keys[i]
        BY <1>1, <3>2 DEF Inv, Copied
      <4> QED BY <1>5, <1>6, <4>1
    <3> QED BY <1>5, <3>1, <3>2
  <2>3. \A i, j \in Full(old'.keys) : old'.keys[i] = old'.keys[j] => i = j
    BY <1>1, <1>5 DEF Inv, Copied
  <2> QED BY <2>1, <2>2, <2>3 DEF Copied
<1> QED BY <1>1, <1>4, <1>7 DEF Inv, PutArgs, Walk

LEMMA DoneStep ==
  ASSUME Inv, RehashDone
  PROVE  PutArgs' /\ Findable' /\ Walk' /\ Copied'
<1>1. /\ pc' = "probe" /\ UNCHANGED <<cap, keys, vals, arg>> /\ at' = Home(arg.key, cap)
      /\ pc = "rehash" /\ arg.op = "put"
  BY DEF RehashDone, Inv, Room
<1>2. cap \in Nat \ {0} /\ arg.key \in Key
  BY <1>1, CapRoom DEF Inv, PutArgs
<1>3. Reached(arg.key, at')
  BY <1>1, <1>2, ReachedHome
<1>4. Walk'
  BY <1>1, <1>3, SameTable DEF Walk, ProbeKey
<1> QED BY <1>1, <1>4, SameTable DEF Inv, PutArgs, Copied

\* The end of a call, with or without an insertion.
LEMMA EndStep ==
  ASSUME Inv, PutTaken \/ PutNew \/ GetEnd
  PROVE  PutArgs' /\ Findable' /\ Walk' /\ Copied'
<1>1. pc = "probe" /\ pc' = "idle" /\ arg' = arg /\ cap' = cap /\ StopsAt(arg.key, at)
  BY DEF PutTaken, PutNew, GetEnd
<1>2. Findable'
  <2>1. CASE PutNew
    <3>1. /\ cap \in Nat \ {0} /\ at \in Slot(cap) /\ arg.key \in Key /\ Reached(arg.key, at)
      BY <1>1, InProbe DEF ProbeKey
    <3>2. Free(at) /\ keys' = [keys EXCEPT ![at] = arg.key]
      BY <2>1 DEF PutNew
    <3> QED BY <1>1, <3>1, <3>2, FillFindable DEF Inv
  <2>2. CASE PutTaken \/ GetEnd
    BY <2>2, SameTable DEF PutTaken, GetEnd
  <2> QED BY <2>1, <2>2
<1> QED BY <1>1, <1>2 DEF Inv, PutArgs, Walk, Copied

LEMMA InvNext == Inv /\ [Next]_vars => Inv'
<1> SUFFICES ASSUME Inv, [Next]_vars PROVE Inv'
  OBVIOUS
<1>0. TypeOK' /\ Room'
  BY TypeNext, RoomNext DEF Inv
<1>1. CASE UNCHANGED vars
  <2>1. PutArgs' /\ Findable' /\ Walk' /\ Copied'
    BY <1>1, SameTable DEF vars, Inv, PutArgs, Walk, ProbeKey, Copied, Moved
  <2> QED BY <1>0, <2>1 DEF Inv
<1>2. CASE GetNone
  <2>1. PutArgs' /\ Findable' /\ Walk' /\ Copied'
    BY <1>2, SameTable DEF GetNone, Inv, PutArgs, Walk, Copied
  <2> QED BY <1>0, <2>1 DEF Inv
<1>3. CASE Next
  <2>1. CASE \E k \in Key : GetStart(k) \/ \E v \in Value : PutStart(k, v)
    BY <1>0, <2>1, StartStep DEF Inv
  <2>2. CASE \E k \in Key, v \in Value : PutGrow(k, v)
    BY <1>0, <2>2, GrowStep DEF Inv
  <2>3. CASE RehashSkip
    BY <1>0, <2>3, SkipStep DEF Inv
  <2>4. CASE RehashFind
    BY <1>0, <2>4, FindStep DEF Inv
  <2>5. CASE Probe \/ MoveProbe
    BY <1>0, <2>5, ProbeStep DEF Inv
  <2>6. CASE Move
    BY <1>0, <2>6, MoveStep DEF Inv
  <2>7. CASE RehashDone
    BY <1>0, <2>7, DoneStep DEF Inv
  <2>8. CASE PutTaken \/ PutNew \/ GetEnd
    BY <1>0, <2>8, EndStep DEF Inv
  <2> QED
    BY <1>2, <1>3, <2>1, <2>2, <2>3, <2>4, <2>5, <2>6, <2>7, <2>8
    DEF Next, Call, Rehash, Finish
<1> QED BY <1>1, <1>3

LEMMA MapInv == Spec => []Inv
<1> QED BY InvInit, InvNext, PTL DEF Spec

\* A declared name is found from its home slot, whatever was declared with it
\* and however often the table has grown since; no name is in it twice
\* (map.c:38-73).
THEOREM KeysFindable == Spec => []Findable
<1>1. Inv => Findable
  BY DEF Inv
<1> QED BY <1>1, MapInv, PTL

-----------------------------------------------------------------------------
(* The table is a dictionary *)

Distinct(ks) == \A i, j \in Full(ks) : ks[i] = ks[j] => i = j

LEMMA EntriesDomain ==
  ASSUME NEW ks, NEW vs
  PROVE  DOMAIN Entries(ks, vs) = {ks[i] : i \in Full(ks)}
  BY DEF Entries

LEMMA EntryAt ==
  ASSUME NEW ks, NEW vs, Distinct(ks), NEW i \in Full(ks)
  PROVE  Entries(ks, vs)[ks[i]] = vs[i]
<1> DEFINE j == CHOOSE j \in Full(ks) : ks[j] = ks[i]
<1>1. j \in Full(ks) /\ ks[j] = ks[i]
  OBVIOUS
<1>2. j = i
  <2> HIDE DEF j
  <2> QED BY <1>1 DEF Distinct
<1>3. Entries(ks, vs)[ks[i]] = vs[j]
  BY DEF Entries
<1> QED BY <1>2, <1>3

\* Two functions with the same values.
LEMMA SameFunction ==
  ASSUME NEW D1, NEW f, NEW g, f = [x \in D1 |-> f[x]], g = [x \in D1 |-> g[x]],
         \A x \in D1 : f[x] = g[x]
  PROVE  f = g
  OBVIOUS

LEMMA EntriesFunction ==
  ASSUME NEW ks, NEW vs
  PROVE  Entries(ks, vs) = [k \in DOMAIN Entries(ks, vs) |-> Entries(ks, vs)[k]]
  BY DEF Entries

\* Two tables that hold the same pairs have the same entries.
SamePairs(ks, vs, ls, ws) ==
  /\ \A j \in Full(ks) : \E i \in Full(ls) : ks[j] = ls[i] /\ vs[j] = ws[i]
  /\ \A i \in Full(ls) : \E j \in Full(ks) : ks[j] = ls[i]

LEMMA EntriesEqual ==
  ASSUME NEW ks, NEW vs, NEW ls, NEW ws, Distinct(ks), Distinct(ls),
         SamePairs(ks, vs, ls, ws)
  PROVE  Entries(ks, vs) = Entries(ls, ws)
<1> DEFINE D1 == {ks[j] : j \in Full(ks)}
           f == Entries(ks, vs)
           g == Entries(ls, ws)
<1>1. DOMAIN f = {ks[j] : j \in Full(ks)}
  BY EntriesDomain
<1>2. DOMAIN g = {ls[i] : i \in Full(ls)}
  BY EntriesDomain
<1>3. {ks[j] : j \in Full(ks)} = {ls[i] : i \in Full(ls)}
  <2>1. ASSUME NEW j \in Full(ks) PROVE \E i \in Full(ls) : ks[j] = ls[i]
    BY DEF SamePairs
  <2>2. ASSUME NEW i \in Full(ls) PROVE \E j \in Full(ks) : ks[j] = ls[i]
    BY DEF SamePairs
  <2> QED BY <2>1, <2>2
<1>4. /\ f = [x \in DOMAIN f |-> f[x]]
      /\ g = [x \in DOMAIN g |-> g[x]]
  <2>1. f = [x \in DOMAIN f |-> f[x]]
    BY EntriesFunction
  <2>2. g = [x \in DOMAIN g |-> g[x]]
    BY EntriesFunction
  <2> QED BY <2>1, <2>2
<1> HIDE DEF f, g
<1>5. ASSUME NEW x \in D1 PROVE f[x] = g[x]
  <2>1. PICK j \in Full(ks) : x = ks[j]
    BY <1>5
  <2>2. PICK i \in Full(ls) : ks[j] = ls[i] /\ vs[j] = ws[i]
    BY <2>1 DEF SamePairs
  <2>3. f[ks[j]] = vs[j]
    BY EntryAt DEF f
  <2>4. g[ls[i]] = ws[i]
    BY EntryAt DEF g
  <2> QED BY <2>1, <2>2, <2>3, <2>4
<1>6. DOMAIN f = D1 /\ DOMAIN g = D1
  BY <1>1, <1>2, <1>3
<1> HIDE DEF D1
<1>7. f = g
  BY <1>4, <1>5, <1>6, SameFunction
<1> QED BY <1>7 DEF f, g

\* When the rehash is over the new table has the entries of the old.
LEMMA SameEntries ==
  ASSUME Inv, RehashDone
  PROVE  Entries(keys, vals) = Entries(old.keys, old.vals)
<1>1. /\ \A j \in Full(keys) : \E i \in Moved : keys[j] = old.keys[i] /\ vals[j] = old.vals[i]
      /\ \A i \in Moved : \E j \in Full(keys) : keys[j] = old.keys[i]
  BY DEF RehashDone, Inv, Copied
<1>2. Distinct(old.keys) /\ Distinct(keys)
  BY DEF RehashDone, Inv, Copied, Findable, Distinct
<1>3. Moved = Full(old.keys)
  <2>1. \A i \in Full(old.keys) : i < old.i
    BY OldType, FullFinite DEF RehashDone, Inv, Slot
  <2> QED BY <2>1 DEF Moved
<1>4. SamePairs(keys, vals, old.keys, old.vals)
  BY <1>1, <1>3 DEF SamePairs
<1> QED BY <1>2, <1>4, EntriesEqual

\* What a finished probe tells of the contents.
LEMMA ProbeEnd ==
  ASSUME Inv, pc = "probe", StopsAt(arg.key, at)
  PROVE  /\ arg.key \in Key /\ Contents = Entries(keys, vals)
         /\ Free(at) => arg.key \notin DOMAIN Contents
         /\ ~Free(at) => arg.key \in DOMAIN Contents /\ Contents[arg.key] = vals[at]
<1>1. /\ cap \in Nat \ {0} /\ at \in Slot(cap) /\ arg.key \in Key /\ Reached(arg.key, at)
  BY InProbe DEF ProbeKey
<1>2. Contents = Entries(keys, vals) /\ Distinct(keys)
  BY DEF Contents, Inv, Findable, Distinct
<1>3. DOMAIN Entries(keys, vals) = {keys[i] : i \in Full(keys)}
  BY EntriesDomain
<1>4. ASSUME NEW i \in Full(keys) PROVE Entries(keys, vals)[keys[i]] = vals[i]
  BY <1>2, EntryAt
<1>5. ASSUME Free(at) PROVE arg.key \notin DOMAIN Contents
  <2>1. \A j \in Full(keys) : keys[j] # arg.key
    BY <1>1, <1>5, FreeMeansAbsent DEF Inv
  <2> QED BY <1>2, <1>3, <2>1
<1>6. ASSUME ~Free(at) PROVE arg.key \in DOMAIN Contents /\ Contents[arg.key] = vals[at]
  <2>1. at \in Full(keys) /\ keys[at] = arg.key
    BY <1>1, <1>6, OldType DEF StopsAt, Free, Full, Inv
  <2> QED BY <1>2, <1>3, <1>4, <2>1
<1> QED BY <1>1, <1>2, <1>5, <1>6

LEMMA DictPutNew ==
  ASSUME Inv, Inv', PutNew
  PROVE  D!Put(arg.key, arg.val)
<1> DEFINE k == arg.key
           v == arg.val
<1>1. /\ pc = "probe" /\ pc' = "idle" /\ StopsAt(k, at) /\ Free(at) /\ result' = TRUE
      /\ keys' = [keys EXCEPT ![at] = k] /\ vals' = [vals EXCEPT ![at] = v]
      /\ at \in Slot(cap) /\ DOMAIN keys = Slot(cap) /\ DOMAIN vals = Slot(cap)
  BY DEF PutNew, Inv, TypeOK
<1>2. k \in Key /\ k # Null /\ k \notin DOMAIN Contents /\ Contents = Entries(keys, vals)
  BY <1>1, ProbeEnd, SymMapAssumption
<1>3. Contents' = Entries(keys', vals') /\ Distinct(keys) /\ Distinct(keys')
  BY <1>1 DEF Contents, Inv, Findable, Distinct, Entries, Full
<1> HIDE DEF k, v
<1>4. /\ Full(keys') = Full(keys) \cup {at} /\ at \notin Full(keys)
      /\ keys'[at] = k /\ vals'[at] = v
      /\ \A j \in Full(keys) : keys'[j] = keys[j] /\ vals'[j] = vals[j]
  BY <1>1, <1>2 DEF Full, Free
<1> DEFINE D1 == DOMAIN Contents \cup {k}
           g == [j \in D1 |-> IF j = k THEN v ELSE Contents[j]]
<1>5. DOMAIN Contents' = D1
  <2>1. DOMAIN Contents' = {keys'[j] : j \in Full(keys')}
    BY <1>3, EntriesDomain
  <2>2. DOMAIN Contents = {keys[j] : j \in Full(keys)}
    BY <1>2, EntriesDomain
  <2> QED BY <1>4, <2>1, <2>2
<1>6. ASSUME NEW x \in D1 PROVE Contents'[x] = g[x]
  <2>1. DOMAIN Entries(keys, vals) = {keys[j] : j \in Full(keys)}
    BY EntriesDomain
  <2>3. CASE x = k
    <3>1. at \in Full(keys')
      BY <1>4
    <3>2. Entries(keys', vals')[keys'[at]] = vals'[at]
      BY <1>3, <3>1, EntryAt
    <3> QED BY <1>3, <1>4, <2>3, <3>2
  <2>4. CASE x \in DOMAIN Contents
    <3>1. PICK j \in Full(keys) : x = keys[j]
      BY <1>2, <2>4, <2>1
    <3>2. j \in Full(keys')
      BY <1>4
    <3>3. Entries(keys, vals)[keys[j]] = vals[j]
      BY <1>3, EntryAt
    <3>4. Entries(keys', vals')[keys'[j]] = vals'[j]
      BY <1>3, <3>2, EntryAt
    <3>5. x # k
      BY <1>2, <2>4
    <3> QED BY <1>2, <1>3, <1>4, <2>4, <3>1, <3>3, <3>4, <3>5
  <2> QED BY <2>3, <2>4
<1>7. Contents' = [x \in D1 |-> Contents'[x]]
  BY <1>3, <1>5, EntriesFunction
<1> HIDE DEF D1
<1>8. Contents' = g
  BY <1>6, <1>7
<1> QED BY <1>1, <1>2, <1>8 DEF D!Put, D1, k, v

LEMMA DictInit == Init => D!DictInit
<1> SUFFICES ASSUME Init PROVE D!DictInit
  OBVIOUS
<1>1. Full(keys) = {} /\ Contents = Entries(keys, vals)
  BY EmptyFull DEF Init, Contents
<1>2. Entries(keys, vals) = [k \in {} |-> Null]
  BY <1>1 DEF Entries
<1> QED BY <1>1, <1>2 DEF Init, D!DictInit

LEMMA DictStep == Inv /\ Inv' /\ [Next]_vars => [D!DictNext]_<<Contents, result>>
<1> SUFFICES ASSUME Inv, Inv', [Next]_vars PROVE [D!DictNext]_<<Contents, result>>
  OBVIOUS
<1>1. CASE UNCHANGED vars
  BY <1>1 DEF vars, Contents
<1>2. CASE GetNone
  <2>1. PICK k \in Key : TRUE
    BY SymMapAssumption
  <2>2. Full(keys) = {}
    <3>1. IsFiniteSet(Full(keys)) /\ Cardinality(Full(keys)) \in Nat
      BY OldType, FullFinite DEF Inv, TypeOK
    <3>2. Cardinality(Full(keys)) = 0
      BY <1>2, <3>1 DEF GetNone, Inv, Room
    <3> QED BY <3>1, <3>2, FS_EmptySet
  <2>3. Contents' = Contents /\ Contents = Entries(keys, vals) /\ result' = Null
    BY <1>2 DEF GetNone, Contents
  <2>4. k \notin DOMAIN Contents
    BY <2>2, <2>3 DEF Entries
  <2>5. D!Get(k)
    BY <2>3, <2>4 DEF D!Get
  <2> QED BY <2>5 DEF D!DictNext
<1>3. CASE \E k \in Key : GetStart(k) \/ \E v \in Value : PutStart(k, v)
  BY <1>3 DEF GetStart, PutStart, Contents
<1>4. CASE \E k \in Key, v \in Value : PutGrow(k, v)
  BY <1>4 DEF PutGrow, Contents
<1>5. CASE RehashSkip \/ RehashFind \/ Move \/ MoveProbe \/ Probe
  <2>1. CASE RehashSkip \/ Move
    <3>1. old.i < old.cap /\ old' = [old EXCEPT !.i = @ + 1]
      BY <2>1 DEF RehashSkip, Move, Inv, Room
    <3>2. old'.keys = old.keys /\ old'.vals = old.vals
      BY <3>1, OldNext DEF Inv
    <3> QED BY <2>1, <3>2 DEF RehashSkip, Move, Contents
  <2>2. CASE RehashFind \/ MoveProbe \/ Probe
    BY <2>2 DEF RehashFind, MoveProbe, Probe, Contents
  <2> QED BY <1>5, <2>1, <2>2
<1>6. CASE RehashDone
  BY <1>6, SameEntries DEF RehashDone, Contents
<1>7. CASE PutTaken
  <2>1. pc = "probe" /\ StopsAt(arg.key, at) /\ ~Free(at) /\ arg.op = "put"
        /\ result' = FALSE /\ Contents' = Contents
    BY <1>7 DEF PutTaken, Contents
  <2>2. arg.key \in Key /\ arg.val \in Value /\ arg.key \in DOMAIN Contents
    BY <2>1, ProbeEnd DEF Inv, PutArgs
  <2>3. D!Put(arg.key, arg.val)
    BY <2>1, <2>2 DEF D!Put
  <2> QED BY <2>2, <2>3 DEF D!DictNext
<1>8. CASE PutNew
  <2>1. arg.key \in Key /\ arg.val \in Value
    BY <1>8 DEF PutNew, Inv, PutArgs
  <2> QED BY <1>8, <2>1, DictPutNew DEF D!DictNext
<1>9. CASE GetEnd
  <2>1. pc = "probe" /\ StopsAt(arg.key, at) /\ Contents' = Contents
        /\ result' = IF Free(at) THEN Null ELSE vals[at]
    BY <1>9 DEF GetEnd, Contents
  <2>2. /\ arg.key \in Key
        /\ result' = IF arg.key \in DOMAIN Contents THEN Contents[arg.key] ELSE Null
    BY <2>1, ProbeEnd
  <2>3. D!Get(arg.key)
    BY <2>1, <2>2 DEF D!Get
  <2> QED BY <2>2, <2>3 DEF D!DictNext
<1> QED
  BY <1>1, <1>2, <1>3, <1>4, <1>5, <1>6, <1>7, <1>8, <1>9 DEF Next, Call, Rehash, Finish

\* The open-addressing table implements the dictionary of map.h: an insertion
\* adds exactly a key that is not there, a look-up finds what was put, and a
\* growth is invisible, for any hash function (map.h:26-33).
THEOREM MapIsDictionary == Spec => IsDictionary
<1> QED BY MapInv, DictInit, DictStep, PTL DEF Spec, IsDictionary, D!DictSpec
=============================================================================
