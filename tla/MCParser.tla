------------------------------ MODULE MCParser ------------------------------
(***************************************************************************)
(* Texts made of pieces: statements nested and broken in every way,        *)
(* concatenated arguments, arguments of patterns, and strings in double    *)
(* quotes over several lines.                                              *)
(***************************************************************************)
EXTENDS Parser

Texts(pieces, n) == {FlattenSeq(w) : w \in BoundedSeq(pieces, n)}

a == <<"a", " ">>
p == <<"p", " ">>
A == <<"\"", "a", "\"">>
S == <<"\"", "\\", "S", "\"">>
Plus == <<"+", " ">>

Nested ==
    Texts({a, <<"{">>, <<";">>, <<"}">>}, 5)
        \cup Texts({a \o <<"{">>, a \o <<";">>, <<"}">>}, 7)
Chains == {a \o t : t \in Texts({A, <<"'", "b", "'">>, Plus, <<";">>}, 5)}
Patterns == {t \o <<";">> : t \in Texts({a, p, S, Plus, <<";">>}, 5)}
Lines ==
    {before \o <<"\"">> \o body \o <<"\"", ";">> :
        before \in {<<"a", " ">>, <<"a", "\t">>, <<"a", " ", "/", "*", "*", "/">>},
        body \in Texts({<<"a">>, <<" ">>, <<"\t">>, <<"\n">>, <<"\\", "t">>, <<"\\", "\n">>}, 4)}
Comments ==
    Texts({a, <<"/">>, <<"*">>, <<";">>, <<"\n">>, <<"'">>, <<"\"">>, <<"\\", "x">>}, 4)

MCPattern == <<"p">>
\* More errors than the lexer reports.
Errors == {p \o t : t \in Texts({<<"\"">>, <<"\\", "x">>, <<";">>, a}, 6)}

MCText == Nested \cup Chains \cup Patterns \cup Lines \cup Comments \cup Errors

\* The statements of a forest in order, each with its nesting.
RECURSIVE Outline(_, _)
Outline(statements, nesting) ==
    IF statements = <<>> THEN <<>>
    ELSE LET s == Head(statements) IN
         << <<nesting, s.keyword, s.arg>> >>
             \o Outline(s.subs, nesting + 1) \o Outline(Tail(statements), nesting)

\* An accepted forest is the text: each statement with its keyword and argument, and
\* below the statement whose braces are around it.
TreeIsText == Accepted => Outline(forest, 0) = Headings(Concatenated(lexed))
=============================================================================
