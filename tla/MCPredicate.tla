---------------------------- MODULE MCPredicate ----------------------------
(***************************************************************************)
(* Predicate on every single clause over seven paths and eight literals,   *)
(* in two spacings, on pairs of some of them, and on texts that are no     *)
(* predicate.                                                              *)
(***************************************************************************)
EXTENDS Predicate

MCPiece == STRING

MCNumberOf == [zero |-> 0, one |-> 1, uno |-> 1, two |-> 2]

A == Field(<<"a">>)
Paths ==
    {<<A>>, <<A, Field(<<"b">>)>>, <<A, Index(0)>>, <<A, Index(0), Index(1)>>,
     <<A, Index(1), Field(<<"b">>)>>, <<A, Field(<<"k", "not">>)>>, <<Field(<<"not">>)>>}

Literals ==
    {Bool(TRUE), Bool(FALSE), Number(1), Number(2), String(<<"x">>), String(<<>>),
     String(<<"p", "=", "=", "q">>), String(<<"x", "&&", "y">>)}

Clauses ==
    {Clause(p, op, lit) : p \in Paths, op \in Op \ {"Exists", "NotExists"}, lit \in Literals}
        \cup {Clause(p, op, Missing) : p \in Paths, op \in {"Exists", "NotExists"}}

Few ==
    {Clause(<<A>>, "Exists", Missing), Clause(<<A, Field(<<"k", "not">>)>>, "NotExists", Missing),
     Clause(<<A>>, "Contains", String(<<"x", "&&", "y">>)), Clause(<<A, Index(0)>>, "Ge", Number(1)),
     Clause(<<A, Field(<<"b">>)>>, "Ne", String(<<"x">>)), Clause(<<A>>, "Lt", Number(2))}

Gaps == {<<>>, <<" ">>}

Texts ==
    {<<>>, <<" ">>, <<"a">>, <<"exists">>, <<" ", "not", " ", "exists">>, <<"a", "exists">>,
     <<"a", "=", "=">>, <<"=", "=", "one">>, <<"a", "=", "one">>, <<"a", "=", "=", "x">>,
     <<"a", "=", "=", Quote, "x">>, <<"a", "=", "=", "one", "&&">>,
     <<"a", "=", "=", Quote, "x", "&&", "b", "=", "=", "one">>,
     <<"a", "=", "=", Quote, "x", Quote, "&&", "b", ">", Quote>>,
     <<"a", "[", "x", "]", "=", "=", "one">>, <<"a", "]", "exists">>, <<"a", "[", "]", "exists">>,
     <<"a", ".", "[", "one", "]", "exists">>, <<"a", ".", ".", "[", "one", "]", " ", "exists">>,
     <<"a", "=", "=", "uno">>, <<"a", ".", ".", "b", " ", "exists">>,
     <<"a", "!", "=", "=", "one">>, <<"a", ">", "=", "=", "one">>, <<"a", " ", "contains">>}

MCInputs ==
    {[written |-> <<c>>, gap |-> g, text |-> <<>>] : c \in Clauses, g \in Gaps}
        \cup {[written |-> <<c, d>>, gap |-> g, text |-> <<>>] : c \in Few, d \in Few, g \in Gaps}
        \cup {[written |-> <<>>, gap |-> <<>>, text |-> t] : t \in Texts}

Obj(map) == [tag |-> "obj", map |-> map]
Arr(items) == [tag |-> "arr", items |-> items]

Plain ==
    {Bool(TRUE), Bool(FALSE), Number(0), Number(1), Number(2), String(<<"x">>),
     String(<<"x", "&&", "y">>), String(<<"one">>), [tag |-> "null"]}
Inner ==
    {Arr(<<>>), Arr(<<Number(1)>>), Arr(<<String(<<"x">>), Obj(<<"b">> :> Number(2))>>),
     Obj(<<"b">> :> Number(2)), Obj(<<"b">> :> String(<<"x">>)), Obj(<<"b">> :> Number(0)),
     Obj(<<"k">> :> Bool(TRUE)), Obj(<<"k", "not">> :> Bool(FALSE))}

MCValues == Plain \cup Inner \cup {Obj(<<"a">> :> v) : v \in Plain \cup Inner}

=============================================================================
