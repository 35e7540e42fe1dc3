------------------------------- MODULE SymMap -------------------------------
(***************************************************************************)
(* map.c: the table behind sema's two namespaces.  Open addressing with    *)
(* linear probing, growing at three quarters full, and no deletion.  One   *)
(* action is one turn of a loop, so that the probe and the rehash can be   *)
(* watched half way.                                                       *)
(***************************************************************************)
EXTENDS Integers, FiniteSets

CONSTANTS
  Key,         \* names; a key of the program has a non-NULL data pointer
  Value,       \* the pointers stored
  Null,        \* NULL: the key of an empty slot, and what map_get does not find
  Hash,        \* FNV-1a of each key
  InitialCap,  \* MAP_INITIAL_CAP
  MaxLen       \* bound: names in the table

ASSUME SymMapAssumption ==
  /\ Key # {} /\ Null \notin Key /\ Null \notin Value
  /\ Hash \in [Key -> Nat]
  /\ InitialCap \in Nat /\ InitialCap >= 2
  /\ MaxLen \in Nat

VARIABLES
  cap, keys, vals, len,    \* the Map
  old,      \* map_grow: the arrays being left, and the index its loop is at
  pc,       \* where in map_put or map_get: "idle", "rehash", "move" or "probe"
  arg,      \* the call's arguments
  at,       \* slot_of's i
  result    \* what the last call returned

vars == <<cap, keys, vals, len, old, pc, arg, at, result>>

Slot(c)      == 0 .. (c - 1)
EmptyKeys(c) == [i \in Slot(c) |-> Null]
NoTable      == [cap |-> 0, keys |-> EmptyKeys(0), vals |-> EmptyKeys(0), i |-> 0]

\* hash & mask and (i + 1) & mask, c being a power of two
Home(k, c)   == Hash[k] % c
\* Faulty: past the end of the table.
AfterOff(i, c) == i + 1

After(i, c)  == IF i + 1 = c THEN 0 ELSE i + 1

Free(i)      == keys[i] = Null
\* where slot_of(k) ends
StopsAt(k, i) == Free(i) \/ keys[i] = k

Init ==
  /\ cap = 0 /\ keys = EmptyKeys(0) /\ vals = EmptyKeys(0) /\ len = 0
  /\ old = NoTable /\ pc = "idle" /\ at = 0
  /\ arg = [op |-> "get", key |-> Null, val |-> Null]
  /\ result = Null

\* Faulty: one name too late; or only once.
GrowsLate == cap = 0 \/ len * 4 > cap * 3
GrowsOnce == cap = 0

NeedsGrowth == cap = 0 \/ (len + 1) * 4 > cap * 3
NewCap      == IF cap # 0 THEN cap * 2 ELSE InitialCap

(* map_put on a table with room. *)
PutStart(k, v) ==
  /\ pc = "idle" /\ len < MaxLen
  /\ ~NeedsGrowth
  /\ arg' = [op |-> "put", key |-> k, val |-> v]
  /\ at' = Home(k, cap)
  /\ pc' = "probe"
  /\ UNCHANGED <<cap, keys, vals, len, old, result>>

(* map_put on a table without: map_grow first. *)
PutGrow(k, v) ==
  /\ pc = "idle" /\ len < MaxLen
  /\ NeedsGrowth
  /\ arg' = [op |-> "put", key |-> k, val |-> v]
  /\ old' = [cap |-> cap, keys |-> keys, vals |-> vals, i |-> 0]
  /\ cap' = NewCap
  /\ keys' = EmptyKeys(NewCap) /\ vals' = EmptyKeys(NewCap)
  /\ pc' = "rehash"
  /\ UNCHANGED <<len, at, result>>

(* map_grow's loop: an empty slot, the start of a move, the probe for a new *)
(* place, the move, and the end of the loop.                                *)
RehashSkip ==
  /\ pc = "rehash" /\ old.i < old.cap /\ old.keys[old.i] = Null
  /\ old' = [old EXCEPT !.i = @ + 1]
  /\ UNCHANGED <<cap, keys, vals, len, pc, arg, at, result>>

\* Faulty: home is the home slot of the old table.
RehashStale ==
  /\ pc = "rehash" /\ old.i < old.cap /\ old.keys[old.i] # Null
  /\ at' = Home(old.keys[old.i], old.cap)
  /\ pc' = "move"
  /\ UNCHANGED <<cap, keys, vals, len, old, arg, result>>

RehashFind ==
  /\ pc = "rehash" /\ old.i < old.cap /\ old.keys[old.i] # Null
  /\ at' = Home(old.keys[old.i], cap)
  /\ pc' = "move"
  /\ UNCHANGED <<cap, keys, vals, len, old, arg, result>>

MoveProbe ==
  /\ pc = "move" /\ ~StopsAt(old.keys[old.i], at)
  /\ at' = After(at, cap)
  /\ UNCHANGED <<cap, keys, vals, len, old, pc, arg, result>>

Move ==
  /\ pc = "move" /\ StopsAt(old.keys[old.i], at)
  /\ keys' = [keys EXCEPT ![at] = old.keys[old.i]]
  /\ vals' = [vals EXCEPT ![at] = old.vals[old.i]]
  /\ old' = [old EXCEPT !.i = @ + 1]
  /\ pc' = "rehash"
  /\ UNCHANGED <<cap, len, arg, at, result>>

RehashDone ==
  /\ pc = "rehash" /\ old.i = old.cap
  /\ old' = NoTable
  /\ at' = Home(arg.key, cap)
  /\ pc' = "probe"
  /\ UNCHANGED <<cap, keys, vals, len, arg, result>>

(* slot_of's loop, for map_put and map_get, and its end. *)
Probe ==
  /\ pc = "probe" /\ ~StopsAt(arg.key, at)
  /\ at' = After(at, cap)
  /\ UNCHANGED <<cap, keys, vals, len, old, pc, arg, result>>

\* Faulty: the value is replaced.
PutReplaces ==
  /\ pc = "probe" /\ arg.op = "put" /\ StopsAt(arg.key, at)
  /\ ~Free(at)
  /\ vals' = [vals EXCEPT ![at] = arg.val]
  /\ result' = FALSE
  /\ pc' = "idle"
  /\ UNCHANGED <<cap, keys, len, old, arg, at>>

PutTaken ==
  /\ pc = "probe" /\ arg.op = "put" /\ StopsAt(arg.key, at)
  /\ ~Free(at)
  /\ result' = FALSE
  /\ pc' = "idle"
  /\ UNCHANGED <<cap, keys, vals, len, old, arg, at>>

PutNew ==
  /\ pc = "probe" /\ arg.op = "put" /\ StopsAt(arg.key, at)
  /\ Free(at)
  /\ keys' = [keys EXCEPT ![at] = arg.key]
  /\ vals' = [vals EXCEPT ![at] = arg.val]
  /\ len' = len + 1
  /\ result' = TRUE
  /\ pc' = "idle"
  /\ UNCHANGED <<cap, old, arg, at>>

(* map_get, which does not probe an empty table. *)
GetNone ==
  /\ pc = "idle" /\ len = 0
  /\ result' = Null
  /\ UNCHANGED <<cap, keys, vals, len, old, pc, arg, at>>

GetStart(k) ==
  /\ pc = "idle" /\ len # 0
  /\ arg' = [op |-> "get", key |-> k, val |-> Null]
  /\ at' = Home(k, cap)
  /\ pc' = "probe"
  /\ UNCHANGED <<cap, keys, vals, len, old, result>>

GetEnd ==
  /\ pc = "probe" /\ arg.op = "get" /\ StopsAt(arg.key, at)
  /\ result' = IF Free(at) THEN Null ELSE vals[at]
  /\ pc' = "idle"
  /\ UNCHANGED <<cap, keys, vals, len, old, arg, at>>

Call == GetNone \/ \E k \in Key : GetStart(k) \/ \E v \in Value : PutStart(k, v) \/ PutGrow(k, v)

Rehash == RehashSkip \/ RehashFind \/ MoveProbe \/ Move \/ RehashDone
Finish == Probe \/ PutTaken \/ PutNew \/ GetEnd

Next == Call \/ Rehash \/ Finish

Spec     == Init /\ [][Next]_vars
\* A call that has begun is carried on with: the program has one thread.
FairSpec == Spec /\ WF_vars(Rehash \/ Finish)

-----------------------------------------------------------------------------
(* Properties *)

Full(ks) == {i \in DOMAIN ks : ks[i] # Null}

TypeOK ==
  /\ cap \in Nat /\ len \in Nat
  /\ keys \in [Slot(cap) -> Key \cup {Null}]
  /\ vals \in [Slot(cap) -> Value \cup {Null}]
  /\ old \in [cap : Nat, keys : [Slot(old.cap) -> Key \cup {Null}],
              vals : [Slot(old.cap) -> Value \cup {Null}], i : 0 .. old.cap]
  /\ pc \in {"idle", "rehash", "move", "probe"}
  /\ arg \in [op : {"get", "put"}, key : Key \cup {Null}, val : Value \cup {Null}]
  /\ pc # "idle" => arg.key \in Key
  /\ pc \in {"move", "probe"} => at \in Slot(cap)
  /\ result \in BOOLEAN \cup Value \cup {Null}

\* "The table is never full when this is called -- grow() keeps at least a
\* quarter of the slots empty": during any probe an insertion's key would still
\* leave that quarter (map.c:35-37).
QuarterEmpty ==
  pc \in {"move", "probe"} =>
    4 * (Cardinality(Full(keys)) + (IF arg.op = "get" THEN 0 ELSE 1)) <= 3 * cap

\* The slot d places past i, cyclically.
Past(i, d, c) == IF i + d < c THEN i + d ELSE i + d - c

\* Every key is where a probe from its home slot finds it, before any empty
\* slot and nowhere else; so it is after a rehash has moved it, too (map.c:38-73).
Findable ==
  \A i \in Full(keys) :
    /\ \A j \in Full(keys) : keys[i] = keys[j] => i = j
    /\ \E d \in Slot(cap) :
         /\ i = Past(Home(keys[i], cap), d, cap)
         /\ \A e \in 0 .. (d - 1) : ~Free(Past(Home(keys[i], cap), e, cap))

\* "So the probe always terminates": every call returns (map.c:35-37).
CallsReturn == pc # "idle" ~> pc = "idle"

\* The entries of the table: those of the old arrays until the rehash is over.
Entries(ks, vs) ==
  [k \in {ks[i] : i \in Full(ks)} |-> vs[CHOOSE i \in Full(ks) : ks[i] = k]]
Contents ==
  IF pc \in {"rehash", "move"} THEN Entries(old.keys, old.vals) ELSE Entries(keys, vals)

\* The table is a dictionary: map_put inserts exactly the keys that are not
\* there and never replaces one, map_get finds what was put, and growing
\* changes nothing (map.h:26-33).
D == INSTANCE Dictionary WITH dict <- Contents
IsDictionary == D!DictSpec
=============================================================================
