----------------------------- MODULE MCFrontEnd -----------------------------
(***************************************************************************)
(* Command lines and sources for TLC.  A source is all the token sequences *)
(* that begin with `next`, go on with at most `left` chunks and end with   *)
(* `tail`.                                                                 *)
(***************************************************************************)
EXTENDS FrontEndProps

\* The integer types with their ranges cut down: u8 holds 0 .. 3, u64 0 .. 7.
MCMaxOf == [i8 |-> 1, u8 |-> 3, i32 |-> 4, u32 |-> 5, i64 |-> 6, u64 |-> 7]
MCIntOf == [i \in {"0", "3", "7"} |-> CASE i = "0" -> 0 [] i = "3" -> 3 [] i = "7" -> 7]

Text(next, chunks, left, tail) ==
  [next |-> next, chunks |-> chunks, left |-> left, tail |-> tail]
Single(toks) == {<<t>> : t \in toks}

InBody == <<"fn", "a", "(", ")", "{">>

\* One file, parsed and no more.
ParseOnly(texts) ==
  {[args |-> <<"--parse-only", "f">>, source |-> [f |-> t]] : t \in texts}

ExprTexts ==
  { \* operators of every rung
    Text(InBody \o <<"a">>,
         {<<"*", "a">>, <<"+", "a">>, <<"&", "a">>, <<"==", "a">>, <<"<", "a">>, <<"&&", "a">>,
          <<"||", "a">>, <<"<<", "a">>, <<"|", "a">>, <<"^", "a">>}, 3, <<";", "}">>),
    \* what an operand can be
    Text(InBody, {<<"a">>, <<"(">>, <<")">>, <<"-">>, <<"*">>, <<"=">>, <<".", "b">>}, 4,
         <<";", "}">>),
    Text(InBody \o <<"a">>, {<<"a">>, <<"(">>, <<")">>, <<"[">>, <<"]">>, <<",">>,
                            <<".", "as", "(", "i32">>}, 4, <<";", "}">>),
    \* types, behind sizeof
    Text(InBody \o <<"sizeof">>, Single({"(", ")", "a", "*", "[", "3", "]"}), 4, <<")", ";", "}">>),
    \* the nesting limit
    Text(InBody, {<<"{">>, <<"(", "(">>, <<"a">>, <<")", ")">>, <<"}">>}, 4, <<";", "}">>) }

StmtTexts ==
  { Text(InBody, {<<"if", "a", "{">>, <<"}", "else", "{">>, <<"}", "else", "if", "a", "{">>,
                  <<"while", "a", "{">>, <<"}">>, <<";">>, <<"else">>}, 4, <<"}">>),
    Text(InBody \o <<"match", "a", "{">>, 
         {<<"_">>, <<"0">>, <<",", "_">>, <<"=>">>, <<"=>", ";">>, <<";">>, <<"}">>}, 4, <<"}", "}">>),
    Text(InBody \o <<"let">>, Single({"mut", "i32", "a", "=", ";", "return"}), 4, <<"}">>),
    Text(InBody, Single({"let", "break", ";", "}", "fn", "@", "a"}), 4, <<"}">>) }

ItemTexts ==
  { Text(<<"fn", "a", "(">>, Single({"mut", "i32", "a", ",", ")", "...", "@"}), 4,
         <<")", "{", "}">>),
    Text(<<"extern", "c", "{", "fn", "a", "(">>,
         {<<"i32", "a">>, <<",">>, <<")">>, <<"...">>, <<";">>, <<"->", "i32">>, <<"fn">>}, 4,
         <<";", "}">>),
    Text(<<"struct", "a", "{">>, Single({"i32", "*", "[", "0", "a", ";", "}"}), 4,
         <<"a", ";", "}">>),
    Text(<<"enum", "a">>, Single({"b", ":", "u8", "{", "}"}), 4, <<"}">>),
    Text(<<"enum", "a", "{">>, Single({"b", "=", "0", ",", "}"}), 4, <<"}">>),
    Text(<<"let">>, Single({"mut", "i32", "a", "=", "0", ";"}), 4, <<";">>),
    Text(<<>>, Single({"fn", "a", "extern", "struct", "{", "}", ";"}), 4, <<>>) }

Lets    == <<"let", "i32", "a", ";">>
Names   == {<<"let", "i32", "a", ";">>, <<"fn", "a", "(", ")", "{", "}">>, <<"struct", "a", "{", "}">>,
            <<"enum", "a", "{", "b", "}">>, <<"extern", "c", "{", "fn", "b", "(", ")", ";", "}">>,
            <<"extern", "dd", "{", "}">>}
Numbers == {<<"b", ",">>, <<"a", "=", "0", ",">>, <<"d", "=", "3", ",">>, <<"e", "=", "7", ",">>, <<"g", ",">>}

Programs ==
  {[args |-> <<"f", "g">>, source |-> [f |-> Text(<<>>, Names, 2, <<>>), g |-> Text(<<>>, Names, 2, <<>>)]],
   [args |-> <<"f">>, source |-> [f |-> Text(<<"enum", "a", ":", "u8", "{">>, Numbers, 4, <<"}">>)]],
   [args |-> <<"f">>, source |-> [f |-> Text(<<"enum", "a", ":", "u64", "{">>, Numbers, 4, <<"}">>)]],
   [args |-> <<"f">>, source |-> [f |-> Text(<<"enum", "a", ":", "f32", "{">>, Numbers, 2, <<"}">>)]]}

Good == Text(Lets, {}, 0, <<>>)
Bad  == Text(<<>>, {<<"let", "i32", "a", ";">>, <<"@">>, <<"let", "b">>}, 2, <<>>)

Lines ==
  {[args |-> a, source |-> [f |-> s, g |-> t]] :
     a \in {<<"f", "g">>, <<"--parse-only", "f", "g">>, <<"--emit", "f", "g">>,
            <<"f", "--backend=c", "g">>, <<"--backend=c", "f", "--emit", "g">>, <<"--tokens", "f", "g">>, <<"f", "--backend=?">>,
            <<"--list-backends">>, <<"--emit">>, <<"--emti", "f">>, <<"--emti">>},
     s \in {Good, Bad, Unreadable}, t \in {Good, Unreadable}}

MCCommands == ParseOnly(ExprTexts \cup StmtTexts \cup ItemTexts) \cup Programs \cup Lines
=============================================================================
