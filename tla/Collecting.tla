----------------------------- MODULE Collecting -----------------------------
(***************************************************************************)
(* sema.c, pass 2: the names of every file's top level, in two namespaces. *)
(* Operators on what sema holds, [types, values, next, diag], next being   *)
(* the local of collect_enum.  A declaration is known by its position,     *)
(* <<file, item, part>>, part 0 being the item.                            *)
(***************************************************************************)
EXTENDS Diagnostics

CONSTANTS
  AbiC,     \* the string literal "c"
  IntOf,    \* the value of each integer literal
  MaxOf,    \* the largest value of each integer type
  MaxU64    \* uint64_t's

IntegerType == DOMAIN MaxOf

\* map.c gives each namespace: what a name was first put with.
Declare(table, name, sym) ==
  [n \in DOMAIN table \cup {name} |-> IF n = name THEN sym ELSE table[n]]

sema_init == [types |-> <<>>, values |-> <<>>, next |-> 0, diag |-> diag_init]

Error(s, pos) == [s EXCEPT !.diag = diag_error(@, pos)]

\* "duplicate declaration of", and where the first one is.
Duplicate(s, pos, first) == [s EXCEPT !.diag = diag_note(diag_error(@, pos), first, pos)]

\* Faulty: the later declaration replaces the earlier.
AddLast(s, name, sym) ==
  IF name \in DOMAIN s.values
  THEN [Duplicate(s, sym.pos, s.values[name].pos) EXCEPT !.values = Declare(@, name, sym)]
  ELSE [s EXCEPT !.values = Declare(@, name, sym)]

\* collect_fn, collect_global and a member of collect_enum.
AddValue(s, name, sym) ==
  IF name \in DOMAIN s.values
  THEN Duplicate(s, sym.pos, s.values[name].pos)
  ELSE [s EXCEPT !.values = Declare(@, name, sym)]

AddType(s, name, ty) == [s EXCEPT !.types = Declare(@, name, ty)]

collect_fn(s, sig, pos) ==
  AddValue(s, sig[2][1], [kind |-> "fn", pos |-> pos, value |-> 0])

\* <<"GlobalDecl", [mut,] type, name, ...>>
collect_global(s, it, pos) ==
  LET name == IF it[2] = <<"mut">> THEN it[4] ELSE it[3]
  IN  AddValue(s, name[1], [kind |-> "global", pos |-> pos, value |-> 0])

collect_struct(s, it, pos) ==
  LET name == it[2][1] IN
  IF name \in DOMAIN s.types
  THEN Duplicate(s, pos, s.types[name].pos)
  ELSE AddType(s, name, [kind |-> "struct", pos |-> pos])

\* <<"EnumDecl", name, [base,] member, ...>>
HasBase(it) == Len(it) > 2 /\ it[3][1] # "EnumItem"
Members(it) == SubSeq(it, IF HasBase(it) THEN 4 ELSE 3, Len(it))
BaseOf(it)  == IF HasBase(it) THEN it[3][1] ELSE "i32"

Integer(it) == BaseOf(it) \in IntegerType

\* Nothing of a second enum of the name is taken, its members neither.
collect_enum(s, it, pos) ==
  LET name == it[2][1]
      s1   == IF Integer(it) THEN s ELSE Error(s, pos)
  IN  IF name \in DOMAIN s.types
      THEN Duplicate(s1, pos, s.types[name].pos)
      ELSE [AddType(s1, name, [kind |-> "enum", pos |-> pos]) EXCEPT !.next = 0]

\* One turn of its loop.
collect_member(s, it, pos) ==
  LET m     == Members(it)[pos[3]]
      base  == IF Integer(it) THEN BaseOf(it) ELSE "i32"
      value == IF Len(m) = 3 THEN IntOf[m[3][1]] ELSE s.next
      fits  == IF value > MaxOf[base] THEN Error(s, pos) ELSE s
  IN  [AddValue(fits, m[2][1], [kind |-> "member", pos |-> pos, value |-> value])
         EXCEPT !.next = (value + 1) % (MaxU64 + 1)]

collect_extern(s, it, pos) == IF it[2][1] = AbiC THEN s ELSE Error(s, pos)

\* collect_program's switch, up to the loops in it, and one turn of either.
collect_item(s, it, pos) ==
  CASE it[1] = "StructDecl"  -> collect_struct(s, it, pos)
    [] it[1] = "EnumDecl"    -> collect_enum(s, it, pos)
    [] it[1] = "FnDecl"      -> collect_fn(s, it[2], pos)
    [] it[1] = "GlobalDecl"  -> collect_global(s, it, pos)
    [] it[1] = "ExternBlock" -> collect_extern(s, it, pos)
    [] OTHER                 -> s

collect_part(s, it, pos) ==
  IF it[1] = "EnumDecl" THEN collect_member(s, it, pos) ELSE collect_fn(s, it[pos[3] + 2], pos)

\* How many turns the loop behind an item takes, when s has the item.
Parts(s, it, pos) ==
  CASE it[1] = "EnumDecl"    -> IF s.types[it[2][1]].pos = pos THEN Len(Members(it)) ELSE 0
    [] it[1] = "ExternBlock" -> Len(it) - 2
    [] OTHER                 -> 0
=============================================================================
