------------------------------ MODULE MCSchema ------------------------------
(* Schema for TLC.                                                         *)
EXTENDS Schema

MCSources ==
    {[stem |-> "m", nested |-> FALSE], [stem |-> "m", nested |-> TRUE],
     [stem |-> "mod", nested |-> FALSE]}

MCMethods ==
    {{[name |-> <<"a", "_", "a">>, verb |-> "POST"]},
     {[name |-> <<"a", "_", "a">>, verb |-> "GET"], [name |-> <<"a">>, verb |-> "POST"]},
     {[name |-> <<"a", "_", "a">>, verb |-> "GET"], [name |-> <<"a", "A">>, verb |-> "POST"]}}

(* x and xEvents meet in the fields of the class Api.                      *)
MCTraits ==
    [file : MCSources, inline : BOOLEAN, kind : {"api", "events"},
     spelling : {"qualified", "renamed"},
     namespaces : {<< >>, <<"x">>, <<"xEvents">>, <<"x", "xEvents">>,
                   <<"xEvents", "x">>},
     class : {"A", "B"}, methods : MCMethods]

MCFieldIdents == {<<"a">>, <<"a", "a">>, <<"a", "_", "a">>, <<"_", "a">>, <<"a", "_">>}
MCVariantIdents == {<<"A">>, <<"A", "a">>, <<"A", "a", "A">>, <<"A", "A">>}
MCRenames == {<< >>, <<"A", "_", "a">>, <<"a", "-", "a">>}
MCParamTypes == {Of(<< >>, "String"), Of(<< >>, "i32"), Of(<<"Option">>, "i32"),
                 Of(<< >>, "Hit")}
MCTexts == BoundedSeq({"x", "/", "?", "%", "%2F", "."}, 2)
=============================================================================
