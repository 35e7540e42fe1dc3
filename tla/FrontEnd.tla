------------------------------ MODULE FrontEnd ------------------------------
(***************************************************************************)
(* main.c: the command line, every file through the parser, then sema's    *)
(* collection over all of them, the rest of sema and the back half of the  *)
(* compiler by their outcomes, and the exit status.                        *)
(***************************************************************************)
EXTENDS Parsing, Collecting

CONSTANTS
  Commands,    \* what slop is run with: [args, source], the source of each path
  Unreadable,  \* the source of a path that cannot be read
  TreeDepth    \* how deep into a tree SemaSeesWholeTrees looks

\* The words that do not begin with "--".
PathsOf(c) == SelectSeq(c.args, LAMBDA w : w \in DOMAIN c.source)

ASSUME CommandAssumption == \A c \in Commands : PathsOf(c) \in Seq(DOMAIN c.source)

ASSUME DepthAssumption == TreeDepth \in Nat

\* Integer literals are uint64_t's, and the ranges of types begin at or below 0.
ASSUME NumberAssumption ==
  /\ MaxU64 \in Nat
  /\ \A t \in IntLit : IntOf[t] \in 0 .. MaxU64
  /\ \A t \in IntegerType : MaxOf[t] \in 0 .. MaxU64

VARIABLES
  command,
  phase,   \* where in main and compile
  unit,    \* the loops' i: which path
  progs,   \* the trees of the files read
  errors,  \* compile's errors, or lex_file's failures
  cursor,  \* collect_program's place: <<file, item, part>>
  sema,    \* what pass 2 has
  stdout,  \* what was printed in full, and of how many files
  status   \* the exit status

driverVars == <<command, phase, unit, progs, errors, cursor, sema, stdout, status>>
vars == <<parserVars, driverVars>>

-----------------------------------------------------------------------------
(* The command line *)

Args      == command.args
Given(w)  == \E i \in DOMAIN Args : Args[i] = w
Backends  == {"--backend=llvm", "--backend=c"}
Options   == {"--tokens", "--parse-only", "--emit"} \cup Backends
paths     == PathsOf(command)

\* Words that end main where they stand, an unknown backend among them.
Stops      == {i \in DOMAIN Args : Args[i] \in {"--list-backends", "--backend=?"}}
\* Every other word counts as a file, an option main does not know too.
files      == Cardinality({i \in DOMAIN Args : Args[i] \notin Options})
dump_tokens == Given("--tokens")
parse_only  == Given("--parse-only")
backend     == \E w \in Backends \cup {"--emit"} : Given(w)
\* The last word decides, and --emit means llvm.
backend_c   ==
  \E i \in DOMAIN Args :
    /\ Args[i] = "--backend=c"
    /\ \A j \in DOMAIN Args : j > i => Args[j] \notin Backends \cup {"--emit"}

Nothing    == [what |-> "nothing", files |-> 0]
NoSource   == [next |-> <<>>, chunks |-> {}, left |-> 0, tail |-> <<>>]

Idle ==
  /\ seen = <<>> /\ source = NoSource /\ stack = <<>> /\ depth = 0 /\ diag = diag_init

Init ==
  /\ command \in Commands
  /\ phase = "main" /\ unit = 1 /\ progs = <<>> /\ errors = 0 /\ cursor = <<1, 1, 0>>
  /\ sema = sema_init /\ stdout = Nothing /\ status = 0
  /\ Idle

Exit(code) == phase' = "exit" /\ status' = code

main ==
  /\ phase = "main"
  /\ \/ /\ Stops # {}
        /\ LET first == CHOOSE i \in Stops : \A j \in Stops : i <= j
           IN  Exit(IF Args[first] = "--list-backends" THEN 0 ELSE 2)
     \/ /\ Stops = {} /\ files = 0
        /\ Exit(2)
     \/ /\ Stops = {} /\ files # 0
        /\ phase' = (IF dump_tokens THEN "lex" ELSE "open")
        /\ UNCHANGED status
  /\ UNCHANGED <<parserVars, command, unit, progs, errors, cursor, sema, stdout>>

-----------------------------------------------------------------------------
(* Reading the files *)

SourceOf(u) == command.source[paths[u]]
AtFile(p)   == phase = p /\ unit <= Len(paths) /\ seen = <<>>

\* Faulty: the path is passed over.
NotCounted ==
  /\ \E p \in {"lex", "open"} : AtFile(p)
  /\ SourceOf(unit) = Unreadable
  /\ unit' = unit + 1
  /\ UNCHANGED <<parserVars, command, phase, progs, errors, cursor, sema, stdout, status>>

CannotRead ==
  /\ \E p \in {"lex", "open"} : AtFile(p)
  /\ SourceOf(unit) = Unreadable
  /\ errors' = errors + 1
  /\ unit' = unit + 1
  /\ UNCHANGED <<parserVars, command, phase, progs, cursor, sema, stdout, status>>

ReadFile ==
  /\ AtFile("open") /\ SourceOf(unit) # Unreadable
  /\ Start(SourceOf(unit))
  /\ phase' = "parse"
  /\ UNCHANGED <<command, unit, progs, errors, cursor, sema, stdout, status>>

Parse_program ==
  /\ phase = "parse" /\ ~Parsed
  /\ ParserStep
  /\ UNCHANGED driverVars

\* Faulty: errors = p.diag.count.
LastFileOnly ==
  /\ phase = "parse" /\ Parsed
  /\ errors' = diag.count
  /\ progs' = Append(progs, Top.kids[1])
  /\ unit' = unit + 1
  /\ phase' = "open"
  /\ seen' = <<>> /\ source' = NoSource /\ stack' = <<>> /\ depth' = 0 /\ diag' = diag_init
  /\ UNCHANGED <<command, cursor, sema, stdout, status>>

FileParsed ==
  /\ phase = "parse" /\ Parsed
  /\ errors' = errors + diag.count
  /\ progs' = Append(progs, Top.kids[1])
  /\ unit' = unit + 1
  /\ phase' = "open"
  /\ seen' = <<>> /\ source' = NoSource /\ stack' = <<>> /\ depth' = 0 /\ diag' = diag_init
  /\ UNCHANGED <<command, cursor, sema, stdout, status>>

\* lex_file: the whole token stream, errors and all, is dumped.
LexFile ==
  /\ phase = "lex" /\ unit <= Len(paths)
  /\ SourceOf(unit) # Unreadable
  /\ \/ /\ seen = <<>>
        /\ View(SourceOf(unit), <<>>)
        /\ UNCHANGED <<errors, unit, stdout>>
     \/ /\ seen # <<>> /\ Now # "EOF"
        /\ advance
        /\ UNCHANGED <<errors, unit, stdout>>
     \/ /\ seen # <<>> /\ Now = "EOF"
        /\ errors' = IF \E i \in DOMAIN seen : Kind(seen[i]) = "ERROR" THEN errors + 1 ELSE errors
        /\ stdout' = [what |-> "tokens", files |-> stdout.files + 1]
        /\ unit' = unit + 1
        /\ seen' = <<>> /\ source' = NoSource
  /\ UNCHANGED <<stack, depth, diag, command, phase, progs, cursor, sema, status>>

LexDone ==
  /\ phase = "lex" /\ unit > Len(paths)
  /\ Exit(IF errors # 0 THEN 1 ELSE 0)
  /\ UNCHANGED <<parserVars, command, unit, progs, errors, cursor, sema, stdout>>

-----------------------------------------------------------------------------
(* From the trees on *)

Dump(what) == stdout' = [what |-> what, files |-> Len(progs)]

\* compile's first gate: sema sees nothing the parser had to recover in.
AllParsed ==
  /\ phase = "open" /\ unit > Len(paths)
  /\ \/ errors # 0 /\ Exit(1) /\ UNCHANGED stdout
     \/ errors = 0 /\ parse_only /\ Dump("ast") /\ Exit(0)
     \/ errors = 0 /\ ~parse_only /\ phase' = "collect" /\ UNCHANGED <<stdout, status>>
  /\ UNCHANGED <<parserVars, command, unit, progs, errors, cursor, sema>>

\* The items of a program, behind its label.
Items(prog) == Tail(prog)

\* A declaration a step: an item, or a turn of the loop over what is in it.
collect_program ==
  /\ phase = "collect" /\ cursor[1] <= Len(progs)
  /\ LET file  == cursor[1]
         item  == cursor[2]
         part  == cursor[3]
         items == Items(progs[file])
         it    == items[item]
     IN  \/ /\ item > Len(items)
            /\ cursor' = <<file + 1, 1, 0>> /\ UNCHANGED sema
         \/ /\ item <= Len(items)
            /\ sema' = IF part = 0 THEN collect_item(sema, it, cursor)
                       ELSE collect_part(sema, it, cursor)
            /\ cursor' = IF part < Parts(sema', it, <<file, item, 0>>)
                         THEN <<file, item, part + 1>> ELSE <<file, item + 1, 0>>
  /\ UNCHANGED <<parserVars, command, phase, unit, progs, errors, stdout, status>>

\* Passes 3 and 4, which may find an error more; then the second gate.
sema_check ==
  /\ phase = "collect" /\ cursor[1] > Len(progs)
  /\ sema' \in {sema, Error(sema, <<0, 0, 0>>)}
  /\ errors' = sema'.diag.count
  /\ \/ errors' # 0 /\ Exit(1) /\ UNCHANGED stdout
     \/ errors' = 0 /\ ~backend /\ Dump("typed ast") /\ Exit(0)
     \/ errors' = 0 /\ backend /\ phase' = "lower" /\ UNCHANGED <<stdout, status>>
  /\ UNCHANGED <<parserVars, command, unit, progs, cursor>>

\* lower_programs gives NULL or ir_verify fails, and nothing is printed; or the
\* backend prints the module.  The C backend puts #error in the place of what it
\* cannot print, goes on to the end and only then fails; llvm's never does.
BackHalf ==
  /\ phase = "lower"
  /\ \/ errors' = errors + 1 /\ Exit(1) /\ UNCHANGED stdout
     \/ backend_c /\ errors' = errors + 1 /\ Dump("faulty module") /\ Exit(1)
     \/ UNCHANGED errors /\ Dump("module") /\ Exit(0)
  /\ UNCHANGED <<parserVars, command, unit, progs, cursor, sema>>

Next ==
  \/ main \/ CannotRead \/ ReadFile \/ Parse_program \/ FileParsed \/ LexFile \/ LexDone
  \/ AllParsed \/ collect_program \/ sema_check \/ BackHalf

Spec == Init /\ [][Next]_vars /\ WF_vars(Next)

-----------------------------------------------------------------------------

\* Exit status 0 means that what was asked for came out, of every file.  With any
\* other nothing did, unless it is the C backend that failed: what it printed up
\* to its end is on stdout by then, #error and all (main.c:93-139, backend_c.c:55-58).
StatusTellsTheOutput ==
  LET wanted == IF parse_only THEN "ast" ELSE IF backend THEN "module" ELSE "typed ast"
      whole  == [what |-> wanted, files |-> Len(paths)]
      faulty == [what |-> "faulty module", files |-> Len(paths)]
  IN  phase = "exit" /\ Stops = {} /\ files # 0 /\ ~dump_tokens =>
        /\ status = 0 => stdout = whole
        /\ status # 0 => \/ stdout = Nothing
                         \/ stdout = faulty /\ backend_c /\ ~parse_only

\* The nodes n levels below the roots of the trees.
Nodes[n \in 0 .. TreeDepth] ==
  IF n = 0 THEN {progs[u] : u \in DOMAIN progs}
  ELSE UNION {{tree[i] : i \in 2 .. Len(tree)} : tree \in Nodes[n - 1]}

PastTheGate ==
  \/ phase \in {"collect", "lower"}
  \/ phase = "open" /\ unit > Len(paths) /\ errors = 0

\* What is dumped and what sema sees is the tree of every file asked for, and
\* there is no hole in one, however deep (main.c:98-108).
SemaSeesWholeTrees ==
  PastTheGate => Len(progs) = Len(paths) /\ \A n \in 0 .. TreeDepth : Hole \notin Nodes[n]

\* Both passes print what they counted, up to the limit, and no note without
\* its error (diag.h:14-35).
DiagsHonest == Honest(diag) /\ Honest(sema.diag)

\* Lexical and syntactic errors come out in source order (parser.c:81-83).
\* The complaint about `...` outside an extern block is left out: it is made
\* after the token has been passed, behind any lexical error that follows.
ErrorsInOrder ==
  LET Misplaced(k) == seen[diag.lines[k].at] = "..."
  IN  \A i, j \in DOMAIN diag.lines :
        i < j /\ ~Misplaced(j) => diag.lines[i].at <= diag.lines[j].at
=============================================================================
