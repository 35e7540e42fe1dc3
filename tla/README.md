# A verification project for the slop compiler

slop is a compiler for a small C-like language, written in C99 (`src/src/`).  It
is one sequential process: no threads, no signals, nothing persisted.  What is
hard about it is elsewhere: mutual recursion over a graph that may be cyclic,
sizes that are read while they are still being computed, two independent walks
over the same tree that must agree on every name, basic blocks that must be
closed exactly once whatever the nesting, a verdict of one pass that the next one
trusts without looking again, recovery from errors that must move on and must
not be mistaken for success, and tables whose loops end only if an invariant
holds.  Those are what the modules here are about.

All line numbers are of the files under `src/src/` unless a path says otherwise.

## The system

    driver/main.c compile():
      read, lex, parse every file      -> Program per file
      no error?  sema_check            -> types on every node, symbols, layouts
      no error?  lower_programs        -> IrModule
                 ir_verify             -> or "internal error"
                 backend emit          -> C or LLVM text

| component | state it keeps | operations | what could be wrong |
|---|---|---|---|
| type resolution and layout, sema pass 3 (`sema/sema.c:192-420`, `sema/types.c`) | per struct: state, size, alignment, fields; the table of derived types | `resolve_program`, `resolve_type`, `layout_struct`, `resolve_signature`, `resolve_global`, `ty_array` | cycles of structs; sizes read before they are final; order of declarations; wrap-around |
| IR type layout (`ir/ir.c:101-160`) | none | `ir_type_size`, `ir_type_align` | disagreement with sema |
| scopes and names (`sema/scope.c`, the uses of it in `sema.c`; `locals`, `find_func`, `globals` in `backend/lowering.c`) | sema: symbols and marks; lowering: locals, value names | declare, find, push, pop, and the second look-up in lowering | a name bound to different things in the two walks; leaks between scopes and functions |
| statements (`sema.c:1261-1409`, `lowering.c:784-1099`, `ir.c` builder and verifier) | sema: `loop_depth`; lowering: cursor, blocks, loop stack | each statement form; `stmt_diverges`; `ensure_open`, `ir_build_br`, ... | a block with no terminator or two, a branch to the wrong block, a missing return accepted |
| symbol table (`support/map.c`) | capacity, slots, length | `map_put`, `map_get`, `map_grow` | a probe that never ends, a name lost by a rehash |
| declaration collection, sema passes 1 and 2 (`sema.c:52-187`, `scope.c:13-27`) | two tables of names, the next enum number | `collect_struct`, `collect_enum`, `collect_fn`, `collect_global` | duplicates over files and namespaces, numbering at the end of the range |
| expression typing and conversions (`sema.c:422-1180`, `types.c:144-330`; casts in `lowering.c`) | `sem_type` of each node | `assignable`, `common_type`, `coerce`, `retype_untyped` | an accepted program the IR verifier refuses; a wrong extension or signedness |
| parser (`parser/parser.c`) | position, depth, its `Diag` | one function per production, three recovery functions | a wrong grouping; a loop that does not progress; the depth count; a partial tree used |
| lexer (`lexer/lexer.c`) | cursor, line, error count | `lexer_next` and the function per kind of token | longest match, overflow, what follows a bad token |
| driver and diagnostics (`driver/main.c`, `support/diag.c`) | error count, printed count | options, pass gating, report limit | a pass run on a tree another one refused; a status that lies |
| arena and vectors (`support/arena.c`, `support/vec.c`) | blocks, cursor, capacity | allocate, push | pointers into storage that moved |
| backends, dumps, the self-hosted front end `src/stage1/` | none beyond the output | printing | not modelled: see the end |

They interact by calls and through shared trees: the parser's AST is annotated
by sema and read by lowering; `Ty` objects are interned and compared by
identity; the `Sym` a use was resolved to is *not* handed on, so lowering
resolves every name again; sema's `stmt_diverges` and the blocks lowering opens
answer the same question twice; `copy` sizes come from sema's layout and slot
sizes from the IR's.

## The modules

| module | models |
|---|---|
| `Layout` | sema pass 3, one call frame of the recursion per element of `stack`, one step of `resolve_type`, `layout_struct` and their callers per action |
| `LayoutProps` | what pass 3 promises |
| `IrLayout` | the IR's own sizes, compared with sema's |
| `LayoutProofs` | the theorems about `Layout` and `IrLayout` |
| `MCLayout` | two families of programs for TLC |
| `LexicalScopes` | abstract: what lexical scoping is, as an environment and a stack of saved ones |
| `Scoping` | both walks over one program text: sema's symbols with their marks, then lowering's locals, slots and the names of the values it makes |
| `MCScoping` | the names, one of them spelled like a made-up one, globals and parameter lists for TLC |
| `ScopingProofs` | the theorems about the two walks and the names of slots and values |
| `ConvTypes` | the predicates of `types.c` and sema's rules: `assignable`, `common_type`, `cast_allowed`, `default_type` |
| `ConvTypesProofs` | the theorems about the conversion rules |
| `IrValues` | the instructions expressions lower to, on bit patterns; `ir_verify`'s rules and LLVM's |
| `ConvMeaning` | abstract: the number a checked expression means, without bit patterns or instructions |
| `Conversions` | one expression through `check_expr` and its uses, then through `lower_expr` |
| `ConvProps` | what typing and lowering an expression promise |
| `MCConversions` | the types, literals and variables for TLC |
| `StructuredFlow` | abstract: where control goes in a structured body, with no blocks |
| `ControlFlow` | sema's divergence analysis and lowering's block building, walking a body statement by statement |
| `BlockProofs` | lemmas about the IR builder: what each of its operations and each form lowering composes of them reaches |
| `ControlFlowProofs` | the theorems about bodies and their blocks |
| `Dictionary` | abstract: a finite map that never forgets or replaces |
| `SymMap` | `map.c` |
| `MCSymMap` | colliding keys for TLC |
| `SymMapProofs` | the theorems about `SymMap` |
| `Diagnostics` | `diag.c`: what is counted and what is printed |
| `ParserCode` | `parser.c` as tables: for each function, the tasks it does at each point on each token |
| `Parsing` | the parser at work: the stack of activations, reports, recovery, depth |
| `Grammar` | abstract: GRAMMAR.md's productions and every tree they derive for a text |
| `Collecting` | sema pass 2 on the trees |
| `FrontEnd` | `main.c`, composing the parser, collection and the outcomes of what follows |
| `Declared` | what collection promises, with no order in it |
| `FrontEndProofs` | the theorems about the diagnostics, their order, the exit status, the trees sema sees and the collected names |
| `FrontEndProps` | what the front end promises |
| `MCFrontEnd` | the command lines and token sequences for TLC |
| `Lexing` | `lexer.c` on one text, and what its tokens cover |
| `LexingProps` | abstract: the token language of GRAMMAR.md; and what the lexer promises |
| `LexingProofs` | the theorem about what the tokens cover |
| `MCLexing` | the texts for TLC |

### Layout: how it corresponds to the code

A Ty is its base and its modifiers (`A[3]*` is `[base |-> "A", mods |-> <<3,
Star>>]`); two equal records are the interned pointer.  `decl` is the program
text, `state`/`size`/`align` are the fields of a struct's `Ty`, `placed` its
`FieldSym`s and the types recorded for globals and signatures, `interned` the
array entries of `TypeTable.derived` with the size each was given when it was
made.  The C call stack is `stack`: a frame holds the locals of `layout_struct`
(item, field number, offset, alignment) and how far `resolve_type` is in that
field's type (`k` modifiers applied, giving `ty`).  `ResolveBase`,
`ResolvePointer`, `ResolveArray` and `LayoutNeeded` are the steps of
`resolve_type`, `PlaceField` and `FinishStruct` the loop body and the end of
`layout_struct`, `PlaceUse` and `FinishUse` those of `resolve_signature` and
`resolve_global`, `NextItem` the loop of `resolve_program`.  Enums count as their
underlying core type.  Sizes wrap at `MaxU32`, which is 2^32-1 in the code and
1023 in the runs, with alignments far below it in both.

The properties: `StackSound` (the in-progress mark and the call stack agree, so
`layout_struct` runs once per struct), `Terminates`, `CyclesRejected` (exactly
the programs whose structs cannot be laid out one after another are refused,
wherever the walk enters the cycle), `LayoutIsC` (the layout GRAMMAR.md
guarantees, computed afresh from the final sizes, in unbounded arithmetic),
`InternedSizesCurrent` and `DoneIsFinal` (nobody reads a size that will still
change), `IrAgrees`.

### Scoping

A program text is grown one construct at a time and walked twice at once: each
action of the sema half appends to the text and does to `Scopes` what the code
does, and when sema accepts, the lowering half replays the text on its own
state.  `SemaScopes` and `LowerScopes` say that each half implements
`LexicalScopes` (`INSTANCE ... WITH`, with the marks mapped to saved
environments).  `SameBinding` says that lowering binds each use, address and call
to the declaration sema checked it against.  `if` and `while` bodies are blocks.

A name is a stem and a number, as the code prints those it makes up: a short
circuit's slot is `sc<N>` after the module's count of labels, and whatever has a
result is `t<N>` after the function's count of them (`made`, `labels`, `temps`); a
variable's slot gets its own name or that with a suffix (`slots`).  Labels and
results of what the text leaves out (other statements and operators) are up to
`MaxGap` numbers passed over.  `SlotsDistinct` says that no two of all these are
one name, but where the program spells a local like a made-up name: `unique_name`
looks at the variables' slots alone, so `let b8 sc0 = a && b` may give two slots the
name `sc0`, and a local `t1` that of a loaded value.  Parameters are a third kind
of value; `ValueNamesUnique` takes all three together, without that exception, as
the comment at `lowering.c:90` does, and is violated (finding 4).

`OddForms` is the set of forms in which the two walks are known to differ; the
passing run has none, and two of the violation runs have one each.

### ControlFlow

`Next` walks a function body with both passes in step: sema's part keeps
`loop_depth` and the divergence of every open construct, lowering's part appends
instructions to blocks (only what matters to flow: marks, branches, returns).
`BlocksVerify` is `ir_verify`'s demand plus that nothing follows a terminator.
`FlowExact` compares the finished blocks with `StructuredFlow`: from each statement
the blocks lead exactly to the statements the source leads to.  `NoFallOff` is
that an accepted non-void body cannot reach its end, `BlamesRealPaths` that a
refused one can, up to conditions (a path in the graph).

### Conversions

An expression is a tree whose nodes carry the type sema gave them.  `stack` holds
the trees `check_expr` has returned for operands not yet combined; each of
`Operand`, `Unary`, `CastTo`, `BinaryOp` and `Index` is one case of `check_expr`
with everything it does to its operands (coercing them, which inserts an
`EXPR_CONV` node or retypes literals downwards).  `Assigned`, `Passed`,
`Variadic`, `Condition`, `Statement`, `Matched` and `Compounded` are the
statements and arguments that use the finished tree; `root` is what they give to
lowering.  `LowerIt` builds the value: its type, the bit pattern the
instructions compute, and the set of instructions with their operands' types.
`i8`, `i32` and `i64` have `W8`, `W32` and `W64` bits; a variable holds a pattern
whose top bit is set, where every wrong extension shows, and some a small one; a
float is the whole number it stands for.

`MeaningKept` compares the bit pattern with `Meaning`, which knows numbers and
types only.  It is what catches a wrong extension, division, shift, comparison
or scale.  `NoInternalError` is what sema.h promises of an accepted tree
(no `fail`, nothing for `ir_verify`), `CodeIsTyped` LLVM's own rules, which the
verifier checks a part of.  `ContextReaches` says that the type a context gives
an untyped expression reaches every operand that type comes from.

Eleven forms are wrong in the code today.  The passing run leaves them aside by not
lowering a tree that has one (`OddIn(root) \subseteq OddForms`); adding a name to
`OddForms` shows each:

| form | source | what TLC shows |
|---|---|---|
| untyped comparison | `lowering.c:534` | `1 < -1` is true; two float literals compare with `icmp` on doubles (finding 5) |
| integer plus pointer | `sema.c:723`, `lowering.c:550` | `i + p` is accepted and becomes an `add` of an integer and a pointer, which the verifier refuses |
| unsigned offset | `lowering.c:471` | `p + u` sign-extends a 32-bit unsigned `u` |
| void offset | `sema.c:719`, `lowering.c:475` | a step in a `void*` is a `gep` over `void` |
| bits of a float | `sema.c:512` | `let f64 x = 6 & 3` retypes both literals to f64, and `&` of floats becomes `frem`; `~7` is an internal error |
| negative enum | `lowering.c:356` | an enum over a signed type is extended with zeros |
| aggregate through a pointer | `lowering.c:567` | `*p` of a struct is loaded, and the copy takes the loaded value as an address |
| aggregate cast | `lowering.c:365` | `s.as(S)` is an unsupported conversion in lowering |
| address of a member | `sema.c:600`, `lowering.c:599` | `&N_INT`: an enum member is a name, hence an lvalue to sema, and lowering finds no storage for it: an internal error |
| match width | `lowering.c:951` | an enum label and a wider integer subject are compared at two widths |
| small variadic | `sema.c:898` | `b8` and an 8-bit enum are passed as 8 bits |

Two more are outside the model's inputs: the fit of a literal is asked of its
digits, before the minus is applied, so `-128` is refused as an i8 and `-1`
accepted as a u8 (`sema.c:498`); and a literal label of an enum is not
checked against the enum's width (`sema.c:507`).

### SymMap

`map.c` one loop turn at a time: `slot_of`'s probe, `map_grow`'s rehash with a
probe of its own in the middle.  `Findable` says every key is reached by the probe
from its home slot, half-way through a rehash too; `QuarterEmpty` is the comment
of `slot_of`; `IsDictionary` refines `Dictionary`, with the old arrays as the
contents until the rehash is over.

### The front end

`ParserCode` has one record per parse function.  A point of it is a place where
the function looks at the current token; the first row whose kinds include that
token's is taken, and its tasks are what the function does before it looks
again.  The tasks are the helpers of `parser.c`: `Expect` (`expect`, answer
ignored), `Need` (`if (!expect(...)) return NULL`), `Parse` (a call), `Element`
(a turn of a list loop: mark, call, push or resync), `Progress` (`if (p->pos ==
before) advance(p)`), and so on.  The ten functions of the precedence ladder are
one activation that folds its operands when it meets a looser operator.

`Parsing` executes tasks, one per action, on a stack of activations, with the
depth counted by `parse_expr` and `parse_stmt`, the parser's `Diag`, and the tree
each call returns (`Hole` for NULL).  Tokens are chosen when `advance` uncovers
them, from the chunks of the source: a prefix is explored once for all files
that share it, and the run covers all texts made of the chunks.  A text is
forgotten when its file is done.

`FrontEnd` is `main` and `compile`: options, `lex_file`, reading, parsing and
counting each file, the gate before sema, `collect_program` a declaration at a
time (`Collecting`; an enum's members and an extern block's functions are turns
of loops, and `next` is the local they count with), passes 3 and 4, lowering and the backend by their
outcomes, the dumps, and the exit status.  Lowering or `ir_verify` fails before
anything is printed; the backend writes as it goes, and the C backend
puts `#error` where it cannot print an instruction, prints the rest and then
fails (`backend_c.c:55-58`), so `BackHalf` has three outcomes.

`ParsesTheGrammar` compares the parser with `Grammar`, which is GRAMMAR.md's
EBNF as data and the definition of derivation: without an error exactly if
there is a derivation within the nesting limit, and then with its tree.
`ErrorsInOrder` is the promise of `parser.c:81`; `DiagsHonest` that of
`diag.h:14-35`; `SemaSeesWholeTrees` that of `main.c:98`: past the gate there is a
tree of every file and no `Hole` down to `TreeDepth` levels below a root, 11 in the
run, whose deepest tree has 10, so that it looks at all there is.  `StatusTellsTheOutput`
relates the exit status to what was printed and of how many files: all of it with
status 0, nothing with another, unless the C backend was asked for and what is out
is its faulty module.  `Collected`
(in `Declared`) states duplicates, ranges and numbering over all declarations at once, without
the order of the walk, and compares the tables with it.  Members are numbered as
GRAMMAR.md:102-124 has it, in unbounded numbers that must fit the enum's type.
In one place the code does otherwise, and `Collected` names it: an implicit member
after the largest `u64` is numbered 0 and no error is reported (`sema.c:103`).  With
such a member (`Overrun`) the program is ill declared, collection may call it right
nevertheless, and what that member means is left open.  `Exits` says that every
loop of parser and recovery ends on every text, right or wrong.

`Lexing` reads one text, a token or a piece of trivia per action and strings a
character per action.  `LexesTheGrammar` compares each token with `LexingProps`,
where a word is a token or not and nothing scans: the lexer's token is the
longest word that is one, with its value, and it reports an error exactly if
there is none, a number runs into a letter, or it does not fit.  `TokensTile`
says that nothing but trivia is between tokens and that each carries its line
and column.  `Lexed` says that it ends.

Three observations that are no property of a run.  Unary operators
(`parser.c:397`) and `else if` (`parser.c:618`) recurse without counting against
`MAX_NESTING`, so the comment at `parser.c:9` ("a diagnostic, not a crash") does
not hold of a file with some hundred thousand of them; the model's stack has no
size.  The complaint about `...` in a function that is not extern comes after
the token was passed, behind a lexical error that follows it
(`parser.c:834-837`); `ErrorsInOrder` leaves it out.  An option `main` does not
know counts as a file and is then dropped (`main.c:168`, `main.c:196`), so
`slop --emti` alone exits 0 with no output; `StatusTellsTheOutput` holds of it, there
being no file, and does not speak against it.

## The runs

| run | instance | shows |
|---|---|---|
| `layout` | 3 structs, 1 global, 1 function; every combination of up to two fields over seven and five reference types, three orders; a second family of odd types (void, unknown, zero length, too large, nested arrays) in every position | all the properties above, to the end of pass 3 |
| `layout_pointer_cycle` | the same | finding 1 |
| `scoping` | 3 names that may be globals, functions, enum members, parameters and locals, `sc0` one of them; all texts of 4 constructs, 2 functions, short circuits among them | both walks are lexical scoping and agree, and names of slots and values are told apart |
| `scoping_arm` | texts of 5, with bare declarations as match arms | finding 2 |
| `scoping_label` | texts of 5, with hidden labels | finding 3 |
| `value_names` | texts of 5 | finding 4 |
| `control_flow` | all bodies of up to 5 parts with conditions that may be `a && b`, matches of up to 2 labels per arm | the blocks are right and so is the verdict |
| `conversions` | all 28 leaves (every type, signed and unsigned, negative and not; literals of each kind) under one operator or cast, in every use; trees of up to 3 operands over 7 of them | accepted expressions compile to well-typed code that computes what they mean |
| `untyped_comparison` | the same with comparisons of two literals | finding 5 |
| `front_end` | 16 families of token sequences for expressions, types, statements and items, each all sequences of up to 3 or 4 chunks behind a fixed beginning; two files with up to 2 declarations each; enums of 4 members over three bases; ten command lines with good, bad and unreadable files | the seven properties above, to the exit |
| `lexing` | all texts of 4 or 5 characters over five alphabets (numbers, literals, punctuation, words and trivia) | the three properties above, to the end of the text |
| `symbol_map` | 5 keys of which pairs collide and two wrap around, capacities 0, 2, 4, 8 | a dictionary whose calls return |

Why the bounds are enough for what the runs ask.  Three structs give cycles of
length one, two and three, and a struct outside a cycle that leads into it; two
fields give one before and one after a nested layout; longer chains only repeat
those.  `MaxU32 = 1023` lets an array, an offset and a struct's size be too
large each by itself.  Four constructs are two nested scopes with a declaration
and a use, or a scope that is closed and a use after it; two functions show what
must not survive the first.  `MaxGap = 1` lets the made-up names meet `sc0`, `t0` and
`t1` and pass them by; longer gaps only make larger numbers.  Five parts of a body hold a loop around a match
with a jump in one arm, and `else if` chains, with code after a jump.  Four
names in a table that starts at two slots force two growths with collisions and
wrap-around in each.  In `conversions`, `size` counts nodes: 3 is one operator
over two leaves, 5 two binary operators or a chain of four casts and unary
operators.  Widths of 2, 3 and 4 bits keep each pair of widths in its order and
give a signed type negative and positive patterns; what extends or
compares wrongly at 8, 32 and 64 bits does so there, because the code looks at
widths only to compare them.

In `front_end`, four chunks behind a beginning hold a construct, what breaks it,
what recovery meets, and a construct after it; operators go three at a time, so
that each rung stands left and right of each other one.  `MaxNesting = 4` (200 in
the code) is reached by two parentheses in a statement of a body;
`MaxReported = 2` (20) lets a file have errors below, at and past the limit, and
`CountCap = 4` stops the count where nothing depends on it any more.  `MaxU64 =
7` with types of one to three bits puts the last value of each type, and the
number after it, among the literals.  In `lexing`, `MaxU64 = 63` lets a decimal
literal wrap three times within five characters and come out larger than before.

Deadlock is not checked: a compilation pass ends.  `Terminates` and
`CallsReturn` say that each ends in the right place instead.

Fairness.  `Layout`, `FrontEnd` and `Lexing` have `WF_vars(Next)`, `SymMap` `WF_vars(Rehash \/ Finish)`:
the compiler is one thread, and a call that has begun is carried on with.
Nothing obliges a caller to make another call.

## What is proved

`LayoutProofs`, for any number of structs, globals and
functions, any types in any order, and any `MaxU32` from 8 up, from
`LayoutAssumption` alone (the sets of names are disjoint, core sizes fit, and they
and the size of a pointer, powers of two in the code, divide `MaxU32 + 1` as they
divide 2^32):

- `TypeCorrect`: `Spec => []TypeOK`.  Its core is that a frame's array type is in
  the table, which makes `SizeOf` defined wherever it is read; one lemma per action.
- `StackIsSound`: `Spec => []StackSound`, inductive together with `TypeOK`.
- `LayoutIsFinal`: `Spec => DoneIsFinal`.  Not inductive by itself: a struct could
  be done and still have a frame that adds a field to it.  The strengthening is
  `OpenInProgress`: until a cycle is diagnosed, every struct on the stack is in
  progress.  It needs `StackSound` for the return (no second frame is left of
  the struct that has just become done).
- `SizesAreCurrent`: `Spec => []InternedSizesCurrent`.  Strengthened by
  `InternedOverFinal` (the element of an interned array is a done struct, or an
  array in the table) and carried by `LayoutIsFinal`'s step lemma: no size an
  entry was computed from can change.
- `CyclesAreRejected`: `Spec => []CyclesRejected`, both directions, by `CycleInv`.
  A cycle is blamed only if there is one, because each call on the stack was made
  for a field of the struct below it (`Chained`), so that a struct met again closes
  a circle (`BlameIsTrue`).  And none is missed: without blame the done structs
  need only done structs, and no set of them is cyclic (`DoneSound`), which a
  return keeps because a frame ends only behind its last field (`FramesAdvance`);
  at the end every struct is done (`AllReached`).
- `LayoutIsRight`: `Spec => []LayoutIsC`.  `LayoutInv` says of each frame, and of
  each finished struct, that what is placed so far has the `Shape` of the fields
  passed so far: the offsets follow from one another in 32 bits (`Follow`), and
  are the ones of unbounded arithmetic if the last end fits (`Places`).  The step
  from one to the other is `RoundUpExact`: `round_up` adds before it rounds, and
  what alignments must divide 2^32 for is that the sum wraps only where the rounded
  result would.
- `IrAgreesWithSema`: `Spec => []IrAgrees`.  Sema's final sizes and alignments
  solve the equations the IR's recursion stands for (`SemaSizesSolve`,
  `SemaAlignsSolve`), and the equations have one solution: two that differed would
  differ at some struct, then at a struct it needs, and so on round a cycle, which
  `DoneSound` excludes (`NoDifference`).  The inductions over lengths and over
  modifiers are done with sets and a least counterexample (`AllOfNat`, `AllTypes`).

Both finality theorems are about programs nothing has been diagnosed about,
because for the others they are false: the struct a cycle is met at is marked
done at once, with size 0, and grows afterwards.  No later pass sees it.

`SymMapProofs`, for any set of keys, any hash function,
any first capacity from 2 up and any number of names, from `SymMapAssumption` alone:

- `MapTypeCorrect` and `QuarterAlwaysEmpty`.  The count that makes both
  inductive is `Room`: a table has no slots or at least two, four times the
  length is at most three times the capacity, with room for one more while a new
  key is on its way in, and the full slots are no more than the length, or no
  more than the entries moved so far while a rehash is going on.
- `KeysFindable`: `Spec => []Findable`.  Strengthened by `Walk` (the slots a
  probe has passed are full, and none has the key it looks for) and `Copied`
  (what the new arrays hold is what the loop over the old ones has moved, and no
  key is in two slots).  A probe that ends at an empty slot then shows that the
  key is nowhere, which is what makes inserting it there right.
- `MapIsDictionary`: `Spec => IsDictionary`, the refinement.  Every step of the
  probes and of the rehash is a stutter of `Dictionary`; the last step of a call
  is its `Put` or `Get`, because an absent key is absent from every slot.

`BlockProofs` and `ControlFlowProofs`, for bodies of any length, depth, match arms
and labels, from `ControlFlowAssumption`: `TypeSafe`, `BlocksAlwaysVerify`,
`NeverFallsOff`, `BlameIsFair` and `FlowIsExact`, that is `Spec => []` of `TypeOK`,
`BlocksVerify`, `NoFallOff`, `BlamesRealPaths` and `FlowExact`.  All but the first
speak of finished bodies, so the invariant has to speak of unfinished ones:

- `Frames`: which statements can be open in which; that no two of them wait for
  one block; that lowering's stack of loops, and the constructs of
  `StructuredFlow`, are the frames of their kinds, in order (`Marked`).
- `Sound`: every block has ended but those the open statements wait for and the
  one at the cursor.
- `FlowAt`: what sema has judged is what the blocks do so far.  For each open
  statement the blocks its frame names are reached from the entry exactly if no
  list around it diverged before it, and the branch in question did not leave;
  the cursor is reached, and open, exactly if nothing around it has diverged.
- `Flown`, which `FlowIsExact` needs on top of the others: the blocks hold the flow
  of the text so far.  The edges between statements are those of `StructuredFlow`,
  control is at the cursor from just the statements in `came`, and at each block
  an open statement waits for, control comes from just those its construct
  remembers (`Gives`: the head of an `if` without an else, the exits of an `else`,
  those and the head of a `while`, a `match`'s tests at the end of their chain).

Where control comes from at a block (`Arrive`) is a least set as well: it follows
the jumps, and stops at a block that has a statement.  What a step of the builder
does to it is shown first for any graph (`EdgesArrive`, `CodeArrives`,
`FreshArrives`, `TestArrives`) and then for each form lowering composes
(`IfFlow`, `WhileFlow`, `ChainFlow`, ...).  `GraphIs` shows that a finished body's
least sets give the graph of `FlowExact`, whose ways through silent blocks TLC
computes stage by stage.

Reached is a least closed set (`Rch`), not the stages TLC computes; `ReachIs` shows
that these are the same, by counting (`StagesInside`).  It is taken over the jumps that are there
and over `Detours`: the branch from the end of a match's tests to its wildcard arm
is emitted last, but the arm's code is judged when it is met.  `BlockProofs` shows
for each operation of the builder, and each statement's composition of them, which
blocks become reached, from `MoreEdges`: a jump added to one block adds its
targets and nothing else, if nothing new leads on from them.  The step lemmas
(`SimpleKeeps` to `FnEndKeeps`, `SimpleFlows` to `FnEndFlows`) then are one per action.  Termination of the
bodies is not needed: conditions and `MaxSize` play no part.

`LexingProofs`, for any texts over any characters, of any length: `TokensAreTiled`,
`Spec => []TokensTile`.  `TextAssumption` says what the provers cannot see of a
string: a text has a length and characters with a byte, and no punctuation is
empty or has a newline in it.  The invariant has three parts.  `PlaceInv`:
the cursor and what hangs on it lie in the text.  `GapInv`: from the end of the
last token to where the next may begin everything is trivia, and the cursor does not
stand inside a comment, since one is skipped in one go, up to its newline.
`LineInv`: `line` counts the newlines behind the cursor and `line_start` follows
the last of them.  That holds inside a token too because no token has a newline in it:
a string that meets one is an error which ends before it.  One lemma per
action, and no look at the tokens before the last, since `TokensTile` held when
each of them was the last.

`FrontEndProofs`, for any command lines, any sources of the files and any limits,
`DiagsAreHonest`, `Spec => []DiagsHonest`, of the parser's `Diag` and of sema's.
The strengthening is `Limited`: `reported` is the count up to the limit and stays
one past it.  `ErrorKeeps` also gives what `NoteKeeps` needs, that a printed
error stands last and the notice has not been written: a note is honest only
right behind its error, which is how `Duplicate` calls it.  The rest is that the
parser reports one error or none per step (`StepReports`), and that whatever a
declaration is, right or wrong, collection touches sema's `Diag` through `Error`
and `Duplicate` alone (`DeclarationOK`).

Also `StatusIsTruthful`, `Spec => []StatusTellsTheOutput`.  `CommandAssumption` says of
the paths a command names only that they are a sequence of files, which TLC
evaluates for its own commands.  The invariant, `StatusInv`, follows what
the three gates of `compile` let through: while nothing has been counted in
`errors` there is a tree for every path so far (`TreesSoFar`: an unreadable file
leaves none, so it must be counted, and so must each file's own count), behind the
first gate there is one for each, and nothing is on stdout before the step that
also sets the status, whichever of the outcomes of `BackHalf` it has (`BackHalfKeeps`).  That an activation of the parser adds one error or none to
a count (`StepCounts`) is all it needs of the parser.

And `ErrorsComeInOrder`, `Spec => []ErrorsInOrder`, whatever a file holds and
however its errors are recovered from.  All but one report is made where the
parser stands, and it never steps back; what has to be shown is that the report
at a position marked before is only ever made of a `...`.  That is a fact about
the tables of `ParserCode` and about every way an activation can come by its
tasks.  `CodeOK` takes the functions one by one: each call is of a function, each
`Then` names one of its points, every point has a row for any token, and one row
alone has the task to blame.  `RowIs` follows: some first row applies
(least-number principle), so a point always gives tasks.  The invariant,
`Ordered`, then says of the whole C stack that every caller stands at the call it
waits in, with the tasks of its own table behind it, and of the activation on
top that it is `Calm` or at one of the three tasks of that row, marking, passing or
blaming a `...` (`Marks`, `Takes`, `Blames`); and of the lines that each is about a
token already seen.  One lemma per step of the parser; between files the stack is
empty and the `Diag` new (`OrderInv`).

`TreesAreWhole`, `Spec => []SemaSeesWholeTrees`, whatever the files hold, for any
depth to look to (`DepthAssumption`: a number).  The code ensures it in two places
that have to agree: a function that returns NULL has reported an error, in its own
text or through what it called, and `compile` stops before sema if any file's count
is not 0.  The invariant, `WholeInv`, says for the first that while the parser of a
file has reported nothing (`diag.count = 0`) its stack `Bears`: every activation
holds whole trees only, and holds at least one or has a task still to do that gives
it one or reports (`Sown`).  `CodeSows` takes that from the tables, function by
function: the points an activation can be at with no child (`Early`) have such a task
in each row.  The ladder alone rebuilds what it holds, so it has a clause of its own
(`Rung`): operands and operators in turn, an odd number of them when it folds
(`FoldedWhole`).  For the second, `StatusInv` (above) says that the sum of counts is 0
only if each is.  A tree is `Whole` if it lies in a set that is closed under children and
has no hole; `LevelsWhole` carries that down any number of levels.

Last, `CollectsAsDeclared`, `Spec => []Collected`, whatever the files declare and
in whichever order.  `NumberAssumption` says that the number of an integer literal
is a `uint64_t` and that each integer type's maximum fits one.  `Collected` speaks
only of the end of collection, and of trees that the parser made; so it takes
four invariants together:

- `HonestInv` (above): `count` is a number that every error raises, and nothing else.
- `OrderInv` (above), which says of the stack that each caller waits at its own call.
- `ShapeInv`: the nodes an activation has made so far are those its function may
  have at the point where it stands, whatever was reported and skipped before.
  What it is for is that a finished tree is a program of items, that behind an
  enum's name and base stand only members, and that a member of three parts has
  an integer literal as its last.  The tables of `ParserCode` give it function by
  function; recovery keeps it since what is skipped leaves no node.
- `CollectInv`: collection is a fold over the places of the trees in their order, and
  `SoFar` is what it has of the places behind the cursor (`Visited`): each name in
  a table means what the first of its places says (`FirstHolds`), no error has been
  counted exactly if those places are `Clean`, and inside an enum `next` is one more
  than the number of the last member, cut to 64 bits (`Numbered`).  The members of a
  second enum of one name are no places at all (`Turns`), as the early return of
  `collect_enum` has it.  What the code's 64 bits store of a number
  (`Stored`) is the number itself for all members but those of `Overrun`.

A turn of collection adds one place, so the lemmas say what a table, the
count and `Clean` become with one place more, kind by kind; that the order of places
has no gap where the cursor moves on; and at the end that all places have been
visited and `Clean` of all of them is `WellDeclared`.  With `CollectInv` as one more
invariant the run `front_end` still passes.

`ScopingProofs`, for any names, any globals, any parameter lists and texts of any
length, from `ScopingAssumption`:

- `BindingsAgree`: without the odd forms, `Spec => []SameBinding`.  What sema saw
  at an element is gone when lowering gets there, so the invariant says that a
  history `H` of the walk exists: for each point of the text what is visible there
  and the marks lowering has there, each moment following from the one before
  (`Moves`), each answer sema gave being what its moment means (`Means`).
  `SemaInv` adds a chain of frames, one per open construct: how long the vector
  was and which the marks were when it opened, which is what closing it restores.
  Lowering then only has to be in step with the history (`InStep`): its locals and
  marks are those of the moment it stands at.  The one difference the moments must
  bridge is that sema marks a function twice and an arm not at all.
- `SlotsHaveOwnNames`: odd forms or not, `Spec => []SlotsDistinct`.  A free suffix
  exists by counting (the slots taken cannot use up `0 .. Len(taken)`), a least
  one because `<` on numbers is well-founded, and the parameters need no suffix
  because sema has refused a repeated one.  For the names made up, `MadeInv`: each
  carries a number its counter has passed, so the next differs from all before
  (`MadeGrows`, `NumbersTell`), and the temporaries start anew exactly where the
  function's names do.  A slot's name equals one of them only without a suffix, and
  then the variable itself has that name.
- `SemaIsBlockScoped`, `Spec => SemaScopes`, odd forms or not, and
  `LowerIsBlockScoped`, `Spec => LowerScopes`, without them: each walk's vector
  and marks implement `LexicalScopes`.  `View` turns a vector and its marks into a
  stack of maps; a mark at the end opens an empty one (`ViewPush`), cutting back at
  the last mark leaves the ones around (`ViewPop`), a declaration at the end adds
  one name to the last (`ViewBind`).  The invariant, `ScopesInv`, says that the
  marks never step back, and that they are as many as the constructs open around
  (`Balance`): in the code nothing keeps pushes and pops paired but the shape of
  the tree.  A number of marks is kept for every element of the text (`Depths`),
  so that lowering finds there the number it needs.  That a new local's name is new
  in its scope is the history's again: sema looked, lowering does not.
- `SearchFindsInnermost` (`FindsInnermost`) and `VectorsAreTyped` (`TypeOK`) follow
  from the same invariant; `LookUp` is the argument that the last place with a name
  lies in the innermost scope that has it.

`ConvTypesProofs`, for any enums over any core integer types and any three
increasing widths, from `ConvAssumption`; types may nest as they like, because the
rules only look at the outermost kind (poison, the type of what has already been
reported, is left out: it converts both ways):

- `AssignableIsOrder`: implicit conversion is reflexive, transitive and
  antisymmetric.  The argument is by which rule (`Literal`, `Widens`) each of two
  conversions uses; an enum is only ever at the start of a chain (`NoEnumReached`).
- `CommonTypeIgnoresOrder`: `common_type` tries one direction before the other,
  and antisymmetry is why that cannot be seen.
- `CastCoversAssignable`: `cast_allowed` is a list of its own, and admits all
  that `assignable` does.
- `DefaultFits`: the type given to a `let` without one takes its initializer.

Only model-checked: liveness (`Terminates`, `CallsReturn`, `Exits`, `Lexed`), what
compares with a recursive reference (`ParsesTheGrammar`, `LexesTheGrammar`,
`MeaningKept`), and the rest of how expressions are typed and lowered.
`Grammar`, `LexingProps` and `ConvMeaning` use recursive operators, and
`FrontEndProps` extends `Grammar`: they are for TLC only.

## Findings

1. `sema.c:215-220`: a struct that points to an array of itself (`A[2]* p`) is
   "contains itself"; the comment at `sema.c:213` and GRAMMAR.md:313 say recursion
   through a pointer works.
2. `sema.c:1257`: a match arm that is a bare `let` declares into the scope around
   the match for sema and into the arm for lowering; a later use passes sema and
   fails in lowering, where sema.h:16 promises a tree safe to lower.
3. `lowering.c:949`: a match label is a constant for sema, and whatever local hides
   it for lowering.
4. `lowering.c:803`: a local that shadows a parameter gets the parameter's value
   name in the IR, against the comment at `lowering.c:90`; so does a local spelled
   like a name the compiler makes up, `sc0` (`lowering.c:482`) or `t1` (`ir.c:371`).
5. `lowering.c:534`: two untyped operands are compared unsigned and 64 bits wide, so
   that `1 < -1`; GRAMMAR.md:269 makes such literals `i32`.

Two more divergences are known and have no run.  Offsets and sizes of structs wrap at
2^32 without a diagnostic (`sema.c:293`), where array sizes are checked
(`sema.c:232`); `LayoutIsC` is stated of the structs that fit.  An enum over `u64`
counts on from the largest value at 0 without a diagnostic (`sema.c:103`), where
GRAMMAR.md:102-124 has members continue and fit; `Collected` leaves that out
(`Overrun`).

## Not modelled yet, and the plan

In order of importance:

1. What `Conversions` leaves out: fields, results of calls, `sizeof`, the constants
   of globals, and the sign of a literal in the range check (`sema.c:498`).
2. `ArenaVec`: allocation over blocks, and which pointers a push leaves valid.
3. Passes 3 and 4 and lowering composed with `FrontEnd`, in place of their outcomes.
4. Proofs: the other properties of `ConvProps`.

Left out for good: the backends (one format string per opcode; that the C backend
may fail having printed is in `FrontEnd`), the
dumps, and `src/stage1/`, a port of the C front end to slop itself that the C
compiler compiles as a test.
