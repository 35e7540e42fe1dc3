----------------------------- MODULE ParserCode -----------------------------
(***************************************************************************)
(* parser.c, its parse functions as tables.  A function is a record of     *)
(* points; at a point it looks at the current token, and the first row     *)
(* that is On its kind says what the function does before it next looks.   *)
(* Parsing gives the tasks of a row their meaning.                         *)
(***************************************************************************)
EXTENDS Integers, Sequences, FiniteSets

CONSTANTS Ident, IntLit, FloatLit, CharLit, StrLit,  \* tokens, named by their text
          BadTok                                     \* TOK_ERROR tokens

CoreType   == {"i8", "u8", "i32", "u32", "i64", "u64", "f32", "f64",
               "b8", "b32", "b64", "void"}
LiteralKind == {"INT", "FLOAT", "CHAR", "STRING", "true", "false", "null"}
AssignOp   == {"=", "+=", "-=", "*=", "/=", "%=", "&=", "|=", "^=", "<<=", ">>="}
UnaryOp    == {"-", "!", "~", "*", "&"}
\* Faulty: comparisons tighter than the bitwise operators, as in C.
CLadder    == << {"||"}, {"&&"}, {"|"}, {"^"}, {"&"}, {"==", "!="}, {"<", "<=", ">", ">="},
                 {"<<", ">>"}, {"+", "-"}, {"*", "/", "%"} >>

\* The precedence ladder, loosest first.
Ladder     == << {"||"}, {"&&"}, {"==", "!="}, {"<", "<=", ">", ">="}, {"|"}, {"^"}, {"&"},
                 {"<<", ">>"}, {"+", "-"}, {"*", "/", "%"} >>
BinaryOp   == UNION {Ladder[l] : l \in DOMAIN Ladder}
Level(op)  == CHOOSE l \in DOMAIN Ladder : op \in Ladder[l]

\* No token is spelled like a class of them.
Class == {"IDENT", "INT", "FLOAT", "CHAR", "STRING", "ERROR"}

Kind(t) == CASE t \in Ident -> "IDENT"
             [] t \in IntLit -> "INT"
             [] t \in FloatLit -> "FLOAT"
             [] t \in CharLit -> "CHAR"
             [] t \in StrLit -> "STRING"
             [] t \in BadTok \cup Class -> "ERROR"
             [] OTHER -> t

-----------------------------------------------------------------------------
(* What a row can ask for *)

Take        == <<"take">>             \* advance
Keep        == <<"keep">>             \* advance, and put the token in the tree
Expect(k)   == <<"expect", k>>        \* expect, whatever it answers
Need(k)     == <<"need", k>>          \* if (!expect) return NULL
Name        == <<"name">>             \* expect_ident, whatever it answers
NeedName    == <<"need name">>        \* if (!expect_ident) return NULL
Parse(f)    == <<"parse", f>>         \* the child is what f returns
NeedTree(f) == <<"need tree", f>>     \* and if that is NULL, return NULL
Element(f, sync) == <<"element", f, sync>>  \* mark; push it if it is not NULL, or sync
Sync(s)     == <<"sync", s>>
Mark        == <<"mark">>             \* before = p->pos
Progress    == <<"progress">>         \* if (p->pos == before) advance
Complain    == <<"complain">>         \* error_unexpected
Blame       == <<"blame">>            \* an error at the position marked
GiveUp      == <<"give up">>          \* error_unexpected, return NULL
Fold        == <<"fold">>             \* leave the rungs tighter than the operator
Node(l)     == <<"node", l>>          \* the children become one node
Then(pt)    == <<"then", pt>>         \* go on at a point

On(kinds, tasks) == [on |-> kinds, do |-> tasks]
AnyTok           == {}
Else(tasks)      == On(AnyTok, tasks)
Always(tasks)    == << Else(tasks) >>

-----------------------------------------------------------------------------
(* Types *)

parse_type ==
  [start  |-> << On(CoreType \cup {"IDENT"}, <<Keep, Then("suffix")>>),
                 Else(<<GiveUp>>) >>,
   suffix |-> << On({"*"}, <<Take, Node("Pointer"), Then("suffix")>>),
                 On({"["}, <<Take, Then("length")>>),
                 Else(<<>>) >>,
   length |-> << On({"INT"}, <<Keep, Expect("]"), Node("Array"), Then("suffix")>>),
                 Else(<<Complain, Expect("]"), Node("Array"), Then("suffix")>>) >>]

-----------------------------------------------------------------------------
(* Expressions *)

parse_primary ==
  [start |-> << On(LiteralKind \cup {"IDENT"}, <<Keep>>),
                On({"("}, <<Take, Parse("parse_expr"), Expect(")")>>),
                Else(<<GiveUp>>) >>]

parse_postfix ==
  [start  |-> Always(<<NeedTree("parse_primary"), Then("suffix")>>),
   suffix |-> << On({"("}, <<Take, Then("args")>>),
                 On({"["}, <<Take, Parse("parse_expr"), Expect("]"), Node("Index"),
                             Then("suffix")>>),
                 On({"."}, <<Take, Then("member")>>),
                 Else(<<>>) >>,
   args   |-> << On({")"}, <<Then("close")>>),
                 Else(<<Parse("parse_expr"), Then("more")>>) >>,
   more   |-> << On({","}, <<Take, Parse("parse_expr"), Then("more")>>),
                 Else(<<Then("close")>>) >>,
   close  |-> Always(<<Expect(")"), Node("Call"), Then("suffix")>>),
   member |-> << On({"as"}, <<Take, Then("cast")>>),
                 Else(<<Name, Node("Field"), Then("suffix")>>) >>,
   cast   |-> << On({"("}, <<Take, Parse("parse_type"), Expect(")"), Node("Cast"),
                             Then("suffix")>>),
                 Else(<<Complain, Node("Cast"), Then("suffix")>>) >>]

parse_unary ==
  [start |-> << On(UnaryOp, <<Keep, Parse("parse_unary"), Node("Unary")>>),
                On({"sizeof"}, <<Take, Then("size")>>),
                Else(<<Parse("parse_postfix")>>) >>,
   size  |-> << On({"("}, <<Take, Parse("parse_type"), Expect(")"), Node("Sizeof")>>),
                Else(<<Complain, Node("Sizeof")>>) >>]

\* The ten functions from parse_logical_or to parse_mul: one frame for the
\* rungs that are open, its children being what each of them holds.
parse_ladder ==
  [start    |-> Always(<<Parse("parse_unary"), Then("operator")>>),
   operator |-> << On(BinaryOp, <<Fold, Keep, Parse("parse_unary"), Then("operator")>>),
                   Else(<<Fold>>) >>]

parse_expr == [start |-> Always(<<Parse("parse_ladder")>>)]

parse_literal ==
  [start |-> << On(LiteralKind, <<Parse("parse_primary")>>),
                Else(<<GiveUp>>) >>]

-----------------------------------------------------------------------------
(* Statements *)

parse_block ==
  [start |-> << On({"{"}, <<Take, Then("stmts")>>),
                Else(<<Complain, Node("Block")>>) >>,
   stmts |-> << On({"}", "EOF"}, <<Expect("}"), Node("Block")>>),
                Else(<<Element("parse_stmt", "sync_stmt"), Progress, Then("stmts")>>) >>]

parse_var_decl ==
  [start |-> Always(<<Take, Then("mut")>>),
   mut   |-> << On({"mut"}, <<Keep, Then("type")>>),
                Else(<<Then("type")>>) >>,
   type  |-> Always(<<NeedTree("parse_type"), NeedName, Then("init")>>),
   init  |-> << On({"="}, <<Take, Parse("parse_expr"), Expect(";"), Node("VarDecl")>>),
                Else(<<Expect(";"), Node("VarDecl")>>) >>]

parse_if ==
  [start  |-> Always(<<Take, Parse("parse_expr"), Parse("parse_block"), Then("else")>>),
   else   |-> << On({"else"}, <<Take, Then("branch"), Node("IfStmt")>>),
                 Else(<<Node("IfStmt")>>) >>,
   branch |-> << On({"if"}, <<Parse("parse_if")>>),
                 On({"{"}, <<Parse("parse_block")>>),
                 Else(<<Complain>>) >>]

parse_while ==
  [start |-> Always(<<Take, Parse("parse_expr"), Parse("parse_block"), Node("WhileStmt")>>)]

parse_match_arm ==
  [start |-> << On({"IDENT", "INT", "CHAR"}, <<Keep, Then("more")>>),
                Else(<<GiveUp>>) >>,
   more  |-> << On({","}, <<Take, Then("start")>>),
                Else(<<Need("=>"), NeedTree("parse_stmt"), Node("MatchArm")>>) >>]

parse_match ==
  [start |-> Always(<<Take, Parse("parse_expr"), Then("open")>>),
   open  |-> << On({"{"}, <<Take, Then("arms")>>),
                Else(<<Complain, Node("MatchStmt")>>) >>,
   arms  |-> << On({"}", "EOF"}, <<Expect("}"), Node("MatchStmt")>>),
                Else(<<Element("parse_match_arm", "sync_stmt"), Progress,
                       Then("arms")>>) >>]

parse_return ==
  [start |-> Always(<<Take, Then("value")>>),
   value |-> << On({";"}, <<Expect(";"), Node("ReturnStmt")>>),
                Else(<<Parse("parse_expr"), Expect(";"), Node("ReturnStmt")>>) >>]

parse_expr_stmt ==
  [start  |-> Always(<<NeedTree("parse_expr"), Then("assign")>>),
   assign |-> << On(AssignOp, <<Keep, Parse("parse_expr"), Expect(";"), Node("ExprStmt")>>),
                 Else(<<Expect(";"), Node("ExprStmt")>>) >>]

parse_stmt ==
  [start |-> << On({"{"}, <<Parse("parse_block")>>),
                On({"let"}, <<Parse("parse_var_decl")>>),
                On({"if"}, <<Parse("parse_if")>>),
                On({"while"}, <<Parse("parse_while")>>),
                On({"match"}, <<Parse("parse_match")>>),
                On({"return"}, <<Parse("parse_return")>>),
                On({"break", "continue"}, <<Keep, Expect(";")>>),
                On({";"}, <<Keep>>),
                Else(<<Parse("parse_expr_stmt")>>) >>]

-----------------------------------------------------------------------------
(* Items *)

\* parse_fn_decl: a body follows, or with is_extern a semicolon.
FnDecl(is_extern) ==
  [start  |-> Always(<<Need("fn"), NeedName, Need("("), Then("params")>>),
   params |-> << On({")"}, <<Then("close")>>),
                 Else(<<Then("param")>>) >>,
   param  |-> << On({"..."}, IF is_extern THEN <<Keep, Then("close")>>
                             ELSE <<Mark, Take, Blame, Then("close")>>),
                 Else(<<NeedTree("param"), Then("more")>>) >>,
   more   |-> << On({","}, <<Take, Then("param")>>),
                 Else(<<Then("close")>>) >>,
   close  |-> Always(<<Need(")"), Then("ret")>>),
   ret    |-> << On({"->"}, <<Take, NeedTree("parse_type"), Node("Signature"), Then("body")>>),
                 Else(<<Node("Signature"), Then("body")>>) >>,
   body   |-> Always(IF is_extern THEN <<Need(";")>>
                     ELSE <<Parse("parse_block"), Node("FnDecl")>>)]

\* One turn of the loops in parse_fn_decl and parse_struct.
param ==
  [start |-> << On({"mut"}, <<Keep, Then("type")>>),
                Else(<<Then("type")>>) >>,
   type  |-> Always(<<NeedTree("parse_type"), NeedName, Node("Param")>>)]

field ==
  [start |-> Always(<<NeedTree("parse_type"), NeedName, Need(";"), Node("StructField")>>)]

parse_struct ==
  [start  |-> Always(<<Take, NeedName, Need("{"), Then("fields")>>),
   fields |-> << On({"}", "EOF"}, <<Expect("}"), Node("StructDecl")>>),
                 Else(<<Element("field", "sync_member"), Progress, Then("fields")>>) >>]

\* A member that was read but has no comma behind it is the last.
member ==
  [start |-> Always(<<Keep, Then("value")>>),
   value |-> << On({"="}, <<Take, Then("int"), Node("EnumItem")>>),
                Else(<<Node("EnumItem")>>) >>,
   int   |-> << On({"INT"}, <<Keep>>),
                Else(<<Complain>>) >>]

parse_enum ==
  [start   |-> Always(<<Take, NeedName, Then("colon")>>),
   colon   |-> << On({":"}, <<Take, Then("base")>>),
                  Else(<<Then("open")>>) >>,
   base    |-> << On(CoreType, <<Keep, Then("open")>>),
                  Else(<<Complain, Then("open")>>) >>,
   open    |-> Always(<<Need("{"), Then("members")>>),
   members |-> << On({"}", "EOF"}, <<Then("close")>>),
                  On({"IDENT"}, <<Mark, Parse("member"), Then("comma")>>),
                  Else(<<Mark, Complain, Sync("sync_member"), Progress, Then("members")>>) >>,
   comma   |-> << On({","}, <<Take, Progress, Then("members")>>),
                  Else(<<Then("close")>>) >>,
   close   |-> Always(<<Expect("}"), Node("EnumDecl")>>)]

parse_global ==
  [start |-> Always(<<Take, Then("mut")>>),
   mut   |-> << On({"mut"}, <<Keep, Then("type")>>),
                Else(<<Then("type")>>) >>,
   type  |-> Always(<<NeedTree("parse_type"), NeedName, Then("init")>>),
   init  |-> << On({"="}, <<Take, NeedTree("parse_literal"), Expect(";"), Node("GlobalDecl")>>),
                Else(<<Expect(";"), Node("GlobalDecl")>>) >>]

parse_extern ==
  [start |-> Always(<<Take, Then("abi")>>),
   abi   |-> << On({"STRING"}, <<Keep, Need("{"), Then("fns")>>),
                Else(<<GiveUp>>) >>,
   fns   |-> << On({"}", "EOF"}, <<Expect("}"), Node("ExternBlock")>>),
                Else(<<Element("extern_fn", "sync_member"), Progress, Then("fns")>>) >>]

parse_item ==
  [start |-> << On({"fn"}, <<NeedTree("fn")>>),
                On({"struct"}, <<Parse("parse_struct")>>),
                On({"enum"}, <<Parse("parse_enum")>>),
                On({"let"}, <<Parse("parse_global")>>),
                On({"extern"}, <<Parse("parse_extern")>>),
                Else(<<GiveUp>>) >>]

parse_program ==
  [start |-> << On({"EOF"}, <<Node("Program")>>),
                Else(<<Element("parse_item", "sync_item"), Progress, Then("start")>>) >>]

Code ==
  [parse_type |-> parse_type, parse_primary |-> parse_primary,
   parse_postfix |-> parse_postfix, parse_unary |-> parse_unary,
   parse_ladder |-> parse_ladder, parse_expr |-> parse_expr,
   parse_literal |-> parse_literal, parse_block |-> parse_block,
   parse_var_decl |-> parse_var_decl, parse_if |-> parse_if, parse_while |-> parse_while,
   parse_match_arm |-> parse_match_arm, parse_match |-> parse_match,
   parse_return |-> parse_return, parse_expr_stmt |-> parse_expr_stmt,
   parse_stmt |-> parse_stmt, fn |-> FnDecl(FALSE), extern_fn |-> FnDecl(TRUE),
   param |-> param, field |-> field, parse_struct |-> parse_struct, member |-> member,
   parse_enum |-> parse_enum, parse_global |-> parse_global,
   parse_extern |-> parse_extern, parse_item |-> parse_item,
   parse_program |-> parse_program]

\* What f does at a point when the current token is of a kind.
Row(f, point, kind) ==
  LET rows == Code[f][point]
      first == CHOOSE i \in DOMAIN rows :
                 /\ rows[i].on = AnyTok \/ kind \in rows[i].on
                 /\ \A j \in 1 .. i - 1 : kind \notin rows[j].on
  IN  rows[first].do
=============================================================================
