------------------------------ MODULE Grammar ------------------------------
(***************************************************************************)
(* The language the parser is for: the EBNF of GRAMMAR.md 2-5, repeated    *)
(* rule by rule above the functions of parser.c, and the trees it gives a  *)
(* text.  Nothing here looks ahead, recovers or knows of an order: a rule  *)
(* derives every prefix it can.                                            *)
(***************************************************************************)
EXTENDS ParserCode, SequencesExt

P(k)    == [op |-> "punct", k |-> k]   \* a token that leaves no child
K(k)    == [op |-> "keep", k |-> k]    \* one that does
N(r)    == [op |-> "rule", k |-> r]
Cat(es) == [op |-> "cat", es |-> es]
Alt(es) == [op |-> "alt", es |-> es]
Star(e) == [op |-> "star", e |-> e]
Opt(e)  == Alt(<<e, Cat(<<>>)>>)
AnyOf(kinds) == [op |-> "any", kinds |-> kinds]
List(e) == Cat(<<e, Star(Cat(<<P(","), e>>))>>)
LeftAssoc(e, ops) == Cat(<<N(e), Star(Cat(<<AnyOf(ops), N(e)>>))>>)
Literal == AnyOf(LiteralKind)
Ret     == Opt(Cat(<<P("->"), N("Type")>>))

Types ==
  [Type    |-> Cat(<<AnyOf(CoreType \cup {"IDENT"}), Star(Alt(<<N("Pointer"), N("Array")>>))>>),
   Pointer |-> P("*"),
   Array   |-> Cat(<<P("["), K("INT"), P("]")>>)]

TopLevel ==
  [Program    |-> Star(N("Item")),
   Item       |-> Alt(<<N("FnDecl"), N("StructDecl"), N("EnumDecl"), N("GlobalDecl"),
                        N("ExternBlock")>>),
   FnDecl     |-> Cat(<<N("FnHead"), N("Block")>>),
   FnHead     |-> Cat(<<P("fn"), K("IDENT"), P("("), Opt(List(N("Param"))), P(")"), Ret>>),
   Param      |-> Cat(<<Opt(K("mut")), N("Type"), K("IDENT")>>),
   StructDecl |-> Cat(<<P("struct"), K("IDENT"), P("{"), Star(N("StructField")), P("}")>>),
   StructField |-> Cat(<<N("Type"), K("IDENT"), P(";")>>),
   EnumDecl   |-> Cat(<<P("enum"), K("IDENT"), Opt(Cat(<<P(":"), AnyOf(CoreType)>>)), P("{"),
                        Opt(Cat(<<List(N("EnumItem")), Opt(P(","))>>)), P("}")>>),
   EnumItem   |-> Cat(<<K("IDENT"), Opt(Cat(<<P("="), K("INT")>>))>>),
   GlobalDecl |-> Cat(<<P("let"), Opt(K("mut")), N("Type"), K("IDENT"),
                        Opt(Cat(<<P("="), Literal>>)), P(";")>>),
   ExternBlock |-> Cat(<<P("extern"), K("STRING"), P("{"), Star(N("ExternFnDecl")), P("}")>>),
   ExternFnDecl |-> Cat(<<P("fn"), K("IDENT"), P("("), Opt(N("ExternParams")), P(")"), Ret,
                          P(";")>>),
   ExternParams |-> Alt(<<Cat(<<List(N("Param")), Opt(Cat(<<P(","), K("...")>>))>>),
                          K("...")>>)]

Statements ==
  [Block      |-> Cat(<<P("{"), Star(N("Statement")), P("}")>>),
   Statement  |-> Alt(<<N("Block"), N("VarDecl"), N("IfStmt"), N("WhileStmt"), N("MatchStmt"),
                        N("ReturnStmt"), Cat(<<AnyOf({"break", "continue"}), P(";")>>),
                        N("ExprStmt"), K(";")>>),
   VarDecl    |-> Cat(<<P("let"), Opt(K("mut")), N("Type"), K("IDENT"),
                        Opt(Cat(<<P("="), N("Expr")>>)), P(";")>>),
   IfStmt     |-> Cat(<<P("if"), N("Expr"), N("Block"),
                        Opt(Cat(<<P("else"), Alt(<<N("IfStmt"), N("Block")>>)>>))>>),
   WhileStmt  |-> Cat(<<P("while"), N("Expr"), N("Block")>>),
   ReturnStmt |-> Cat(<<P("return"), Opt(N("Expr")), P(";")>>),
   MatchStmt  |-> Cat(<<P("match"), N("Expr"), P("{"), Star(N("MatchArm")), P("}")>>),
   MatchArm   |-> Cat(<<List(AnyOf({"INT", "CHAR", "IDENT"})), P("=>"), N("Statement")>>),
   ExprStmt   |-> Cat(<<N("Expr"), Opt(Cat(<<AnyOf(AssignOp), N("Expr")>>)), P(";")>>)]

Expressions ==
  [Expr       |-> N("LogicalOr"),
   LogicalOr  |-> LeftAssoc("LogicalAnd", {"||"}),
   LogicalAnd |-> LeftAssoc("Equality", {"&&"}),
   Equality   |-> LeftAssoc("Relational", {"==", "!="}),
   Relational |-> LeftAssoc("BitOr", {"<", "<=", ">", ">="}),
   BitOr      |-> LeftAssoc("BitXor", {"|"}),
   BitXor     |-> LeftAssoc("BitAnd", {"^"}),
   BitAnd     |-> LeftAssoc("Shift", {"&"}),
   Shift      |-> LeftAssoc("Additive", {"<<", ">>"}),
   Additive   |-> LeftAssoc("Multiplicative", {"+", "-"}),
   Multiplicative |-> LeftAssoc("UnaryExpr", {"*", "/", "%"}),
   UnaryExpr  |-> Alt(<<N("Unary"), N("Sizeof"), N("Postfix")>>),
   Unary      |-> Cat(<<AnyOf({"-", "!", "~", "*", "&"}), N("UnaryExpr")>>),
   Sizeof     |-> Cat(<<P("sizeof"), P("("), N("Type"), P(")")>>),
   Postfix    |-> Cat(<<N("Primary"),
                        Star(Alt(<<N("Call"), N("Index"), N("Field"), N("Cast")>>))>>),
   Call       |-> Cat(<<P("("), Opt(List(N("Expr"))), P(")")>>),
   Index      |-> Cat(<<P("["), N("Expr"), P("]")>>),
   Field      |-> Cat(<<P("."), K("IDENT")>>),
   Cast       |-> Cat(<<P("."), P("as"), P("("), N("Type"), P(")")>>),
   Primary    |-> Alt(<<Literal, K("IDENT"), Cat(<<P("("), N("Expr"), P(")")>>)>>)]

Rule(r) ==
  CASE r \in DOMAIN Types -> Types[r]
    [] r \in DOMAIN TopLevel -> TopLevel[r]
    [] r \in DOMAIN Statements -> Statements[r]
    [] r \in DOMAIN Expressions -> Expressions[r]

-----------------------------------------------------------------------------
(* Trees *)

\* Rules that stand for what they derive.
Transparent == {"Item", "Statement", "Expr", "Primary", "UnaryExpr", "ExternParams"}
Binary      == {"LogicalOr", "LogicalAnd", "Equality", "Relational", "BitOr", "BitXor",
                "BitAnd", "Shift", "Additive", "Multiplicative"}
\* Rules whose suffixes wrap, left to right, what stands before them.
Suffixed    == {"Type", "Postfix"}

\* Operators of one rule group to the left.
Grouped(kids) ==
  LET f[n \in 1 .. (Len(kids) + 1) \div 2] ==
        IF n = 1 THEN kids[1]
        ELSE <<"Binary", f[n - 1], kids[2 * n - 2], kids[2 * n - 1]>>
  IN  f[(Len(kids) + 1) \div 2]

Wrapped(kids) ==
  FoldLeft(LAMBDA tree, suffix : <<suffix[1], tree>> \o Tail(suffix), kids[1], Tail(kids))

Shape(r, kids) ==
  CASE r \in {"FnHead", "ExternFnDecl"} -> <<"Signature">> \o kids
    [] r \in Binary -> Grouped(kids)
    [] r \in Suffixed -> Wrapped(kids)
    [] OTHER -> <<r>> \o kids

(***************************************************************************)
(* Every way to derive a prefix of text[i ..] from e with at most d Expr   *)
(* and Statement inside one another: the children and where it ends.       *)
(***************************************************************************)
RECURSIVE Derive(_, _, _, _), DeriveAll(_, _, _, _), DeriveStar(_, _, _, _)

Deeper(r, d) == IF r \in {"Expr", "Statement"} THEN d - 1 ELSE d

Joined(x, y) == [kids |-> x.kids \o y.kids, to |-> y.to]

Derive(e, text, i, d) ==
  CASE e.op \in {"punct", "keep", "any"} ->
         IF i <= Len(text) /\ Kind(text[i]) \in (IF e.op = "any" THEN e.kinds ELSE {e.k})
         THEN {[kids |-> IF e.op = "punct" THEN <<>> ELSE << <<text[i]>> >>, to |-> i + 1]}
         ELSE {}
    [] e.op = "rule" ->
         IF Deeper(e.k, d) < 0 THEN {}
         ELSE {IF e.k \in Transparent THEN x
               ELSE [kids |-> << Shape(e.k, x.kids) >>, to |-> x.to] :
               x \in Derive(Rule(e.k), text, i, Deeper(e.k, d))}
    [] e.op = "alt" -> UNION {Derive(e.es[j], text, i, d) : j \in DOMAIN e.es}
    [] e.op = "cat" -> DeriveAll(e.es, text, i, d)
    [] e.op = "star" -> DeriveStar(e.e, text, i, d)

DeriveAll(es, text, i, d) ==
  IF es = <<>> THEN {[kids |-> <<>>, to |-> i]}
  ELSE UNION {{Joined(x, y) : y \in DeriveAll(Tail(es), text, x.to, d)} :
              x \in Derive(Head(es), text, i, d)}

DeriveStar(e, text, i, d) ==
  {[kids |-> <<>>, to |-> i]} \cup
  UNION {{Joined(x, y) : y \in DeriveStar(e, text, x.to, d)} : x \in Derive(e, text, i, d)}

\* The trees of a whole text.
TreesOf(text, d) ==
  {x.kids[1] : x \in {y \in Derive(N("Program"), text, 1, d) : y.to = Len(text) + 1}}
=============================================================================
