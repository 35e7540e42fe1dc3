------------------------------- MODULE Scoping -------------------------------
(***************************************************************************)
(* Names, resolved twice.  Pass 4 of sema.c walks each function body with  *)
(* a vector of visible symbols and a stack of marks (scope.c), and decides *)
(* what every name means; but the tree it leaves behind records only the   *)
(* type of each name, not the declaration.  So lowering.c walks the same   *)
(* bodies again with a stack of locals of its own, and resolves every name *)
(* afresh.  Nothing but the two walks' agreement makes the code generated  *)
(* for a name access the variable that was checked.                        *)
(*                                                                         *)
(* The program is what the first walk meets: each Sema action appends to   *)
(* text the syntax it accepts, with the declaration it found for each      *)
(* name; the second walk replays text.  After an error sema goes on only   *)
(* to report more of them, so the model stops there: nothing is lowered.   *)
(***************************************************************************)
EXTENDS Naturals, Sequences, FiniteSets

CONSTANTS
  Name,
  GlobalKind,    \* what each name is at the top level: "fn", "global", "enum" or "none"
  MaxText,       \* bound: syntax elements in the program
  MaxFns,        \* bound: functions in the program
  ParamLists,    \* the parameter lists functions may have
  MaxGap,        \* bound: numbers that labels and values left out of text take
                 \*   in front of a short circuit's
  OddForms       \* which forms the two walks read differently programs may use:
                 \*   "arm_declares": a match arm whose body is a bare `let`
                 \*   "label_hidden": a match label that is also a visible local
                 \*   "enum_address": `&` of an enum member

ASSUME ScopingAssumption ==
  /\ GlobalKind \in [Name -> {"fn", "global", "enum", "none"}]
  /\ MaxText \in Nat /\ MaxFns \in Nat /\ MaxGap \in Nat
  /\ ParamLists \subseteq Seq(Name)
  /\ OddForms \subseteq {"arm_declares", "label_hidden", "enum_address"}

VARIABLES
  phase,   \* "sema", then "lower", then "done"; or "rejected"
  text,    \* the program so far, with sema's answers
  open,    \* the constructs sema is inside of, innermost last
  syms,    \* Scopes.syms: visible declarations, innermost last
  marks,   \* Scopes.marks: how long syms was when each scope opened
  pos,     \* lowering: elements of text replayed
  locals,  \* Lower.locals
  lmarks,  \* the marks saved on lowering's C stack
  slots,   \* Lower.used_names: the allocas of the current function's variables
  made,    \* the names lowering and the builder made up for its other values
  labels,  \* Lower.next_label
  temps,   \* IrFunc.next_temp
  params,  \* the parameter names of the current IR function
  answers  \* per element of text replayed, the declarations lowering found

semaVars  == <<text, open, syms, marks>>
madeVars  == <<made, labels, temps>>
lowerVars == <<pos, locals, lmarks, slots, params, answers, madeVars>>
vars      == <<phase, semaVars, lowerVars>>

Closers == {"close", "end_arm", "end_match"}

-----------------------------------------------------------------------------
(* Declarations and lookups *)

Decl == [kind : {"fn", "global", "enum", "param", "local", "none"}, name : Name, at : Nat]

Global(n)     == [kind |-> GlobalKind[n], name |-> n, at |-> 0]
Local(k, n, i) == [kind |-> k, name |-> n, at |-> i]
Missing(n)    == [kind |-> "none", name |-> n, at |-> 0]

Hits(ds, n, from) == {i \in from .. Len(ds) : ds[i].name = n}
\* A search from the wrong end.
Outermost(S) == CHOOSE i \in S : \A j \in S : i <= j

Innermost(S)      == CHOOSE i \in S : \A j \in S : j <= i

\* scope_find, then globals_find_value.
SemaFind(n) ==
  LET hits == Hits(syms, n, 1)
  IN IF hits # {} THEN syms[Innermost(hits)] ELSE Global(n)

CurrentMark == IF marks = <<>> THEN 0 ELSE marks[Len(marks)]

\* scope_find_current
DeclaredHere(n) == Hits(syms, n, CurrentMark + 1) # {}

\* lower_expr on EXPR_NAME: find_local, find_global, then a member of the
\* enum sema gave the name as its type.
LowerFind(n, sem) ==
  LET hits == Hits(locals, n, 1)
  IN CASE hits # {}                                -> locals[Innermost(hits)]
       [] hits = {} /\ GlobalKind[n] = "global"     -> Global(n)
       [] hits = {} /\ GlobalKind[n] = "enum" /\ sem = Global(n) -> Global(n)
       [] OTHER                                     -> Missing(n)

\* lower_addr on a name: find_local, find_global; nothing else has storage.
LowerFindStorage(n) ==
  LET hits == Hits(locals, n, 1)
  IN CASE hits # {}                            -> locals[Innermost(hits)]
       [] hits = {} /\ GlobalKind[n] = "global" -> Global(n)
       [] OTHER                                 -> Missing(n)

\* find_func: functions by name, whatever locals there are.
LowerFindFunc(n) == IF GlobalKind[n] = "fn" THEN Global(n) ELSE Missing(n)

-----------------------------------------------------------------------------
(* Sema *)

TopOf(s) == s[Len(s)]
Cut(s)   == SubSeq(s, 1, Len(s) - 1)

Elem(op, names, sems) == [op |-> op, names |-> names, sems |-> sems]
Emit(e) == text' = Append(text, e)
Here    == Len(text) + 1      \* identifies the element being checked
Short   == Cardinality({i \in DOMAIN text : text[i].op \notin Closers}) < MaxText

\* At a place where a statement can stand.
AtStmt ==
  /\ phase = "sema" /\ Short
  /\ open # <<>> /\ TopOf(open) \in {"fn", "block", "arm"}

\* A match arm has one statement for a body.
StmtDone(o) == IF TopOf(o) = "arm" THEN Append(Cut(o), "arm_done") ELSE o

Reject == phase' = "rejected" /\ UNCHANGED <<semaVars, lowerVars>>

HasDuplicate(ns) == \E i, j \in DOMAIN ns : i # j /\ ns[i] = ns[j]

(* check_fn: one scope for the parameters, then check_block's own. *)
SemaFn(ps) ==
  /\ phase = "sema" /\ open = <<>> /\ Short
  /\ Cardinality({i \in DOMAIN text : text[i].op = "fn"}) < MaxFns
  /\ IF HasDuplicate(ps) THEN Reject
     ELSE /\ Emit(Elem("fn", ps, <<>>))
          /\ open' = <<"fn">>
          /\ syms' = syms \o [i \in DOMAIN ps |-> Local("param", ps[i], Here)]
          /\ marks' = marks \o <<Len(syms), Len(syms) + Len(ps)>>
          /\ UNCHANGED <<phase, lowerVars>>

(* check_block, on the way in and on the way out. *)
SemaOpen ==
  /\ AtStmt
  /\ Emit(Elem("open", <<>>, <<>>))
  /\ open' = Append(StmtDone(open), "block")
  /\ marks' = Append(marks, Len(syms))
  /\ UNCHANGED <<phase, syms, lowerVars>>

\* Faulty: the block's declarations stay visible.
SemaCloseLeaks ==
  /\ phase = "sema" /\ open # <<>> /\ TopOf(open) = "block"
  /\ Emit(Elem("close", <<>>, <<>>))
  /\ open' = Cut(open) /\ marks' = Cut(marks)
  /\ UNCHANGED <<phase, syms, lowerVars>>

SemaClose ==
  /\ phase = "sema" /\ open # <<>> /\ TopOf(open) = "block"
  /\ Emit(Elem("close", <<>>, <<>>))
  /\ open' = Cut(open)
  /\ syms' = SubSeq(syms, 1, CurrentMark)
  /\ marks' = Cut(marks)
  /\ UNCHANGED <<phase, lowerVars>>

\* Faulty: the symbols go, their marks stay.
SemaEndFnHalf ==
  /\ phase = "sema" /\ open # <<>> /\ TopOf(open) = "fn"
  /\ Emit(Elem("close", <<>>, <<>>))
  /\ open' = Cut(open)
  /\ syms' = SubSeq(syms, 1, TopOf(Cut(marks)))
  /\ UNCHANGED <<phase, marks, lowerVars>>

(* The end of check_fn leaves the body's scope and the parameters'. *)
SemaEndFn ==
  /\ phase = "sema" /\ open # <<>> /\ TopOf(open) = "fn"
  /\ Emit(Elem("close", <<>>, <<>>))
  /\ open' = Cut(open)
  /\ syms' = SubSeq(syms, 1, TopOf(Cut(marks)))
  /\ marks' = Cut(Cut(marks))
  /\ UNCHANGED <<phase, lowerVars>>

\* A name an expression may use: a function is not a value.
IsValue(d) == d.kind \notin {"none", "fn"}

(* check_var_decl, with at most one name in the initializer: the variable  *)
(* is declared after its own initializer.                                  *)
SemaLet(n, init) ==
  /\ AtStmt
  /\ TopOf(open) = "arm" => "arm_declares" \in OddForms
  /\ LET used == [i \in DOMAIN init |-> SemaFind(init[i])]
     IN IF DeclaredHere(n) \/ \E i \in DOMAIN used : ~IsValue(used[i]) THEN Reject
        ELSE /\ Emit(Elem("let", <<n>> \o init, used))
             /\ syms' = Append(syms, Local("local", n, Here))
             /\ open' = StmtDone(open)
             /\ UNCHANGED <<phase, marks, lowerVars>>

(* check_expr on a name. *)
SemaUse(n) ==
  /\ AtStmt
  /\ LET d == SemaFind(n)
     IN IF ~IsValue(d) THEN Reject
        ELSE /\ Emit(Elem("use", <<n>>, <<d>>))
             /\ open' = StmtDone(open)
             /\ UNCHANGED <<phase, syms, marks, lowerVars>>

(* check_unary on `&`: anything shaped like an lvalue will do. *)
SemaAddress(n) ==
  /\ AtStmt
  /\ LET d == SemaFind(n)
     IN /\ d.kind = "enum" => "enum_address" \in OddForms
        /\ IF ~IsValue(d) THEN Reject
           ELSE /\ Emit(Elem("address", <<n>>, <<d>>))
                /\ open' = StmtDone(open)
                /\ UNCHANGED <<phase, syms, marks, lowerVars>>

(* check_call: only a function can be called, and a local hides it. *)
SemaCall(n) ==
  /\ AtStmt
  /\ LET d == SemaFind(n)
     IN IF d.kind # "fn" THEN Reject
        ELSE /\ Emit(Elem("call", <<n>>, <<d>>))
             /\ open' = StmtDone(open)
             /\ UNCHANGED <<phase, syms, marks, lowerVars>>

(* check_binary on `&&` and `||`; the names in the operands are uses. *)
SemaLogic ==
  /\ AtStmt
  /\ Emit(Elem("logic", <<>>, <<>>))
  /\ open' = StmtDone(open)
  /\ UNCHANGED <<phase, syms, marks, lowerVars>>

(* check_match; the arms follow.  The scrutinee's names are uses like any. *)
SemaMatch ==
  /\ AtStmt
  /\ Emit(Elem("match", <<>>, <<>>))
  /\ open' = Append(StmtDone(open), "match")
  /\ UNCHANGED <<phase, syms, marks, lowerVars>>

(* One arm of check_match: a name label is looked up among the globals, and *)
(* must be an enum member; other labels have no name.  The body is checked  *)
(* by check_stmt: no scope of its own.                                      *)
SemaArm(label) ==
  /\ phase = "sema" /\ Short /\ open # <<>> /\ TopOf(open) = "match"
  /\ \A i \in DOMAIN label : Hits(syms, label[i], 1) # {} => "label_hidden" \in OddForms
  /\ IF \E i \in DOMAIN label : GlobalKind[label[i]] # "enum" THEN Reject
     ELSE /\ Emit(Elem("arm", label, [i \in DOMAIN label |-> Global(label[i])]))
          /\ open' = Append(open, "arm")
          /\ UNCHANGED <<phase, syms, marks, lowerVars>>

SemaEndArm ==
  /\ phase = "sema" /\ open # <<>> /\ TopOf(open) = "arm_done"
  /\ Emit(Elem("end_arm", <<>>, <<>>))
  /\ open' = Cut(open)
  /\ UNCHANGED <<phase, syms, marks, lowerVars>>

SemaEndMatch ==
  /\ phase = "sema" /\ open # <<>> /\ TopOf(open) = "match"
  /\ Emit(Elem("end_match", <<>>, <<>>))
  /\ open' = Cut(open)
  /\ UNCHANGED <<phase, syms, marks, lowerVars>>

\* Sema found no error in any body: main.c goes on to lower_programs.
SemaAccepts ==
  /\ phase = "sema" /\ open = <<>>
  /\ phase' = "lower"
  /\ UNCHANGED <<semaVars, lowerVars>>

-----------------------------------------------------------------------------
(* Lowering *)

AtElem(ops) == phase = "lower" /\ pos < Len(text) /\ text[pos + 1].op \in ops
This        == text[pos + 1]
Answer(ds)  == answers' = Append(answers, ds) /\ pos' = pos + 1

\* An alloca's name: name, name.addr for a parameter, or either with .dup.
Slot(n, addr, k) == [name |-> n, addr |-> addr, dup |-> k]

\* fmt_name and label_name: a stem and a number.  A program can spell such a
\* name too, and then it is the same one.
MadeUp       == {"sc", "t"} \X Nat
Temp(n)      == Slot(<<"t", n>>, FALSE, 0)
ShortSlot(n) == Slot(<<"sc", n>>, FALSE, 0)

\* emit: each instruction with a result, an alloca too, takes the next number;
\* what keeps it for a name is a value made up.  Here k of them, from `from` on.
Results(from, k) ==
  /\ temps' = from + k
  /\ made' = made \o [i \in 1 .. k |-> Temp(from + i - 1)]
  /\ UNCHANGED labels

\* A name that stands for a variable is loaded; an enum member is a constant.
Loads(ds) == IF \E i \in DOMAIN ds : ds[i].kind \notin {"enum", "none"} THEN 1 ELSE 0

\* Faulty: the name as it is.
PlainName(n, addr, taken) == Slot(n, addr, 0)

\* unique_name: the name itself, or the first of name.1, name.2, ... not taken.
UniqueName(n, addr, taken) ==
  Slot(n, addr, CHOOSE k \in 0 .. Len(taken) :
                  /\ \A i \in DOMAIN taken : taken[i] # Slot(n, addr, k)
                  /\ \A j \in 0 .. (k - 1) : \E i \in DOMAIN taken : taken[i] = Slot(n, addr, j))

\* Faulty: the parameters of the function before are still there.
LowerFnKeeps ==
  /\ AtElem({"fn"})
  /\ locals' = locals \o [i \in DOMAIN This.names |-> Local("param", This.names[i], pos + 1)]
  /\ slots' = [i \in DOMAIN This.names |-> UniqueName(This.names[i], TRUE, <<>>)]
  /\ params' = This.names
  /\ lmarks' = <<Len(locals')>>
  /\ made' = <<>> /\ temps' = Len(This.names)
  /\ Answer(<<>>)
  /\ UNCHANGED <<phase, semaVars, labels>>

(* lower_function: nothing is left of the function before but the count of *)
(* the labels, which runs through the module.                              *)
LowerFn ==
  /\ AtElem({"fn"})
  /\ locals' = [i \in DOMAIN This.names |-> Local("param", This.names[i], pos + 1)]
  /\ slots' = [i \in DOMAIN This.names |-> UniqueName(This.names[i], TRUE, <<>>)]
  /\ params' = This.names
  /\ lmarks' = <<Len(This.names)>>
  /\ made' = <<>> /\ temps' = Len(This.names)
  /\ Answer(<<>>)
  /\ UNCHANGED <<phase, semaVars, labels>>

(* lower_block and, for an arm's body, lower_match: scoping is a stack mark. *)
LowerOpen ==
  /\ AtElem({"open"})
  /\ lmarks' = Append(lmarks, Len(locals))
  /\ Answer(<<>>)
  /\ UNCHANGED <<phase, semaVars, locals, slots, params, madeVars>>

\* Faulty: the block's locals stay.
LowerCloseLeaks ==
  /\ AtElem({"close"})
  /\ lmarks' = Cut(lmarks)
  /\ Answer(<<>>)
  /\ UNCHANGED <<phase, semaVars, locals, slots, params, madeVars>>

LowerClose ==
  /\ AtElem({"close"})
  /\ locals' = SubSeq(locals, 1, TopOf(lmarks))
  /\ lmarks' = Cut(lmarks)
  /\ Answer(<<>>)
  /\ UNCHANGED <<phase, semaVars, slots, params, madeVars>>

(* lower_var: the slot first, then the initializer, then the local. *)
LowerLet ==
  /\ AtElem({"let"})
  /\ LET n  == Head(This.names)
         ds == [i \in DOMAIN This.sems |-> LowerFind(This.names[i + 1], This.sems[i])]
     IN /\ slots' = Append(slots, UniqueName(n, FALSE, slots))
        /\ locals' = Append(locals, Local("local", n, pos + 1))
        /\ Answer(ds)
        /\ Results(temps + 1, Loads(ds))
  /\ UNCHANGED <<phase, semaVars, lmarks, params>>

(* lower_expr and lower_addr on a name, and lower_call on its callee, a *)
(* function with a result.                                              *)
LowerUse ==
  /\ AtElem({"use"})
  /\ LET d == LowerFind(This.names[1], This.sems[1])
     IN Answer(<<d>>) /\ Results(temps, Loads(<<d>>))
  /\ UNCHANGED <<phase, semaVars, locals, lmarks, slots, params>>

LowerAddress ==
  /\ AtElem({"address"})
  /\ Answer(<<LowerFindStorage(This.names[1])>>)
  /\ UNCHANGED <<phase, semaVars, locals, lmarks, slots, params, madeVars>>

LowerCall ==
  /\ AtElem({"call"})
  /\ Answer(<<LowerFindFunc(This.names[1])>>)
  /\ Results(temps, 1)
  /\ UNCHANGED <<phase, semaVars, locals, lmarks, slots, params>>

(* lower_short_circuit: a slot and two blocks, all named after labels, and *)
(* in the end the slot is loaded.                                          *)
LowerLogic ==
  /\ AtElem({"logic"})
  /\ Answer(<<>>)
  /\ \E n \in labels .. labels + MaxGap, m \in temps + 1 .. temps + 1 + MaxGap :
       /\ made' = made \o <<ShortSlot(n), Temp(m)>>
       /\ labels' = n + 3 /\ temps' = m + 1
  /\ UNCHANGED <<phase, semaVars, locals, lmarks, slots, params>>

LowerMatch ==
  /\ AtElem({"match", "end_match"})
  /\ Answer(<<>>)
  /\ UNCHANGED <<phase, semaVars, locals, lmarks, slots, params, madeVars>>

(* lower_match lowers a label like any expression, then marks the locals *)
(* and lowers the body; past the body it drops what the body declared.   *)
LowerArm ==
  /\ AtElem({"arm"})
  /\ lmarks' = Append(lmarks, Len(locals))
  /\ LET ds == [i \in DOMAIN This.sems |-> LowerFind(This.names[i], This.sems[i])]
     IN Answer(ds) /\ Results(temps, Loads(ds))
  /\ UNCHANGED <<phase, semaVars, locals, slots, params>>

LowerEndArm ==
  /\ AtElem({"end_arm"})
  /\ locals' = SubSeq(locals, 1, TopOf(lmarks))
  /\ lmarks' = Cut(lmarks)
  /\ Answer(<<>>)
  /\ UNCHANGED <<phase, semaVars, slots, params, madeVars>>

LowerDone ==
  /\ phase = "lower" /\ pos = Len(text)
  /\ phase' = "done"
  /\ UNCHANGED <<semaVars, lowerVars>>

-----------------------------------------------------------------------------
UpToOne == {<<>>} \cup {<<n>> : n \in Name}

Init ==
  /\ phase = "sema"
  /\ text = <<>> /\ open = <<>> /\ syms = <<>> /\ marks = <<>>
  /\ pos = 0 /\ locals = <<>> /\ lmarks = <<>> /\ slots = <<>> /\ params = <<>>
  /\ answers = <<>> /\ made = <<>> /\ labels = 0 /\ temps = 0

SemaStep ==
  \/ \E ps \in ParamLists : SemaFn(ps)
  \/ SemaOpen
  \/ SemaClose
  \/ SemaEndFn
  \/ \E n \in Name, init \in UpToOne : SemaLet(n, init)
  \/ \E n \in Name : SemaUse(n)
  \/ \E n \in Name : SemaAddress(n)
  \/ \E n \in Name : SemaCall(n)
  \/ SemaLogic
  \/ SemaMatch
  \/ \E label \in UpToOne : SemaArm(label)
  \/ SemaEndArm
  \/ SemaEndMatch
  \/ SemaAccepts

LowerStep ==
  \/ LowerFn
  \/ LowerOpen
  \/ LowerClose
  \/ LowerLet
  \/ LowerUse
  \/ LowerAddress
  \/ LowerCall
  \/ LowerLogic
  \/ LowerMatch
  \/ LowerArm
  \/ LowerEndArm
  \/ LowerDone

Next == SemaStep \/ LowerStep
Spec == Init /\ [][Next]_vars

-----------------------------------------------------------------------------
(* Properties *)

\* The vectors hold declarations, the marks lie inside them and never step back.
TypeOK ==
  /\ phase \in {"sema", "lower", "done", "rejected"}
  /\ \A i \in DOMAIN syms : syms[i] \in Decl /\ syms[i].at \in 1 .. Len(text)
  /\ \A i \in DOMAIN locals : locals[i] \in Decl /\ locals[i].at \in 1 .. pos
  /\ \A i \in DOMAIN marks : marks[i] <= Len(syms) /\ (i > 1 => marks[i - 1] <= marks[i])
  /\ \A i \in DOMAIN lmarks : lmarks[i] <= Len(locals) /\ (i > 1 => lmarks[i - 1] <= lmarks[i])
  /\ pos <= Len(text) /\ Len(answers) = pos

\* The scope whose marks are ms[k] and ms[k + 1], as a map.
ScopeMap(ds, from, to) ==
  [n \in {ds[i].name : i \in from .. to} |->
     ds[Innermost({i \in from .. to : ds[i].name = n})]]
View(ds, ms) ==
  [k \in 1 .. Len(ms) |->
     ScopeMap(ds, ms[k] + 1, IF k = Len(ms) THEN Len(ds) ELSE ms[k + 1])]

SemaView  == View(syms, marks)
LowerView == IF lmarks = <<>> THEN <<>> ELSE View(locals, <<0>> \o lmarks)

SemaEnv  == INSTANCE LexicalScopes WITH env <- SemaView
LowerEnv == INSTANCE LexicalScopes WITH env <- LowerView

\* A vector of symbols cut back at marks behaves as a stack of scopes, in both
\* walks: leaving a block forgets exactly what it declared, and a new function
\* starts from nothing (scope.c:48-59, lowering.c:1023-1030, 1063-1070).
SemaScopes  == SemaEnv!Spec
LowerScopes == LowerEnv!Spec

\* A search from the end of the vector finds the innermost declaration
\* (scope.c:61-70, lowering.c:210-219).
FindsInnermost ==
  /\ phase = "sema" => \A n \in Name : SemaFind(n) = SemaEnv!Lookup(n, Global(n))
  /\ phase = "lower" /\ lmarks # <<>> =>
       \A n \in Name : GlobalKind[n] = "global" =>
         LowerFind(n, Global(n)) = LowerEnv!Lookup(n, Global(n))

\* Every name of an accepted program accesses the declaration it was checked
\* against, though lowering looks every one of them up again (lowering.c:210-240).
SameBinding == \A i \in 1 .. pos : answers[i] = text[i].sems

\* "0 means every Expr has a sem_type and the trees are safe to lower": no name
\* sema accepted is unknown to lowering (sema.h:16-18).
SafeToLower ==
  \A i \in 1 .. pos : \A j \in DOMAIN answers[i] : answers[i][j].kind # "none"

\* "a match label must be a constant": a label compares the scrutinee with the
\* enum member it names (sema.c:1239-1242).
LabelsAreConstants ==
  \A i \in 1 .. pos : text[i].op = "arm" =>
    \A j \in DOMAIN answers[i] : answers[i][j].kind = "enum"

\* No two variables of a function share a slot's name, however often names are
\* shadowed or redeclared in sibling blocks (lowering.c:92-115).
DeclaredDistinct == \A i, j \in DOMAIN slots : i # j => slots[i] # slots[j]

\* Nor do two names that are made up: sc<N>, counted through the module, and
\* t<N>, counted through the function (lowering.c:117-121, ir.c:371).
MadeDistinct == \A i, j \in DOMAIN made : i # j => made[i] # made[j]

\* No two values in storage or unnamed share a name, but where the program
\* declares a local spelled like a made-up name: `sc0` or `t1`, which
\* unique_name does not know to be taken (lowering.c:92-115, 482, ir.c:371).
SlotsDistinct ==
  /\ DeclaredDistinct
  /\ MadeDistinct
  /\ \A i \in DOMAIN slots, j \in DOMAIN made :
       slots[i] = made[j] => slots[i].name \in MadeUp

\* "a function's IR value names must be unique": its variables' slots, the
\* values made up and the parameters, values too (lowering.c:90-91).
ValueNamesUnique ==
  LET all == slots \o made \o [i \in DOMAIN params |-> Slot(params[i], FALSE, 0)]
  IN \A i, j \in DOMAIN all : i # j => all[i] # all[j]
=============================================================================
