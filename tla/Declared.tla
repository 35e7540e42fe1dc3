----------------------------- MODULE Declared -----------------------------
(***************************************************************************)
(* What collection promises, with no order of declarations in it.  A place *)
(* is <<file, item, part>>: part 0 is the item, the others are the members *)
(* of an enum and the functions of an extern block.                        *)
(***************************************************************************)
EXTENDS FrontEnd

ItemAt(p) == Items(progs[p[1]])[p[2]]
AllItems  == UNION {{<<u, i, 0>> : i \in DOMAIN Items(progs[u])} : u \in DOMAIN progs}

PartCount(it) ==
  CASE it[1] = "EnumDecl"    -> Len(Members(it))
    [] it[1] = "ExternBlock" -> Len(it) - 2
    [] OTHER                 -> 0
AllParts == UNION {{<<p[1], p[2], k>> : k \in 1 .. PartCount(ItemAt(p))} : p \in AllItems}

Before(p, q) ==
  \/ p[1] < q[1]
  \/ p[1] = q[1] /\ p[2] < q[2]
  \/ p[1] = q[1] /\ p[2] = q[2] /\ p[3] < q[3]

TypePlaces  == {p \in AllItems : ItemAt(p)[1] \in {"StructDecl", "EnumDecl"}}
ValuePlaces == {p \in AllItems : ItemAt(p)[1] \in {"FnDecl", "GlobalDecl"}} \cup AllParts

NameAt(p) ==
  LET it   == ItemAt(p)
      name == CASE it[1] = "EnumDecl" /\ p[3] # 0 -> Members(it)[p[3]][2]
                [] it[1] = "ExternBlock"          -> it[p[3] + 2][2]
                [] it[1] = "FnDecl"               -> it[2][2]
                [] it[1] = "GlobalDecl"           -> IF it[2] = <<"mut">> THEN it[4] ELSE it[3]
                [] OTHER                          -> it[2]
  IN  name[1]

Explicit(ms, i) == {j \in 1 .. i : Len(ms[j]) = 3}

IsLast(m, S) == m \in S /\ \A j \in S : j <= m

\* A member's number: what the last explicit one before it says, and the
\* distance from there.
Count(ms, i) ==
  LET last == CHOOSE m \in Explicit(ms, i) : IsLast(m, Explicit(ms, i))
  IN  IF Explicit(ms, i) = {} THEN i - 1 ELSE IntOf[ms[last][3][1]] + (i - last)

\* What the name declared at p is to mean.
Meaning(p) ==
  LET it == ItemAt(p)
  IN  CASE it[1] = "StructDecl"             -> [kind |-> "struct", pos |-> p]
        [] it[1] = "EnumDecl" /\ p[3] = 0   -> [kind |-> "enum", pos |-> p]
        [] it[1] = "EnumDecl" /\ p[3] # 0   ->
             [kind |-> "member", pos |-> p, value |-> Count(Members(it), p[3])]
        [] it[1] = "GlobalDecl"             -> [kind |-> "global", pos |-> p, value |-> 0]
        [] OTHER                            -> [kind |-> "fn", pos |-> p, value |-> 0]

\* An enum's base is an integer type, which holds its members; an ABI is known.
Sound(p) ==
  LET it == ItemAt(p)
  IN  /\ it[1] = "EnumDecl" =>
           /\ BaseOf(it) \in IntegerType
           /\ p[3] # 0 => Count(Members(it), p[3]) <= MaxOf[BaseOf(it)]
      /\ it[1] = "ExternBlock" => it[2][1] = AbiC

OneEach(places) == \A p, q \in places : NameAt(p) = NameAt(q) => p = q

WellDeclared ==
  /\ OneEach(TypePlaces) /\ OneEach(ValuePlaces)
  /\ \A p \in AllItems \cup AllParts : Sound(p)

\* The second and later types of one name, and the values that are not inside
\* such an enum.
Again == {p \in TypePlaces : \E q \in TypePlaces : NameAt(q) = NameAt(p) /\ Before(q, p)}
Taken == {p \in ValuePlaces : <<p[1], p[2], 0>> \notin Again}

\* Members whose number is past what 64 bits hold: no type holds it, but
\* collection goes on from 0 (sema.c:103).
Overrun == {p \in AllParts : ItemAt(p)[1] = "EnumDecl" /\ Count(Members(ItemAt(p)), p[3]) > MaxU64}

\* Each name declared at the places means what the first of them says, if that
\* has a number collection can hold.
Holds(table, places) ==
  /\ DOMAIN table = {NameAt(p) : p \in places}
  /\ \A p \in places \ Overrun :
       (\A q \in places : NameAt(q) = NameAt(p) => ~Before(q, p)) => table[NameAt(p)] = Meaning(p)

\* After collection the program is free of errors and no enum of it counts past
\* 64 bits exactly if it is well declared, whichever order its files and items
\* stand in; each name then means its declaration, members with their numbers.
\* Otherwise a name means the first declaration of it that is not inside a second
\* enum of one name (sema.c:52-187; GRAMMAR.md 102-132, 302-308).
Collected ==
  phase = "collect" /\ cursor[1] > Len(progs) =>
    /\ sema.diag.count = 0 /\ Overrun = {} <=> WellDeclared
    /\ Holds(sema.types, TypePlaces) /\ Holds(sema.values, Taken)
=============================================================================
