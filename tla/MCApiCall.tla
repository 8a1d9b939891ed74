------------------------------ MODULE MCApiCall -----------------------------
(* ApiCall for TLC: parameters of every kind that the generator tells      *)
(* apart, and Ok types with one or two wrappers around a primitive.        *)
EXTENDS ApiCall

MCParamTypes ==
    {Of(<< >>, "String"), Of(<< >>, "Hit"), Of(<<"Option">>, "i32"),
     Of(<<"Vec">>, "i32"), Of(<< >>, "&Conn"),
     Of(<<"Option">>, "&Conn")}

MCReturnTypes ==
    {Of(<< >>, "Hit"), Of(<<"Option", "Vec">>, "i32"), Of(<<"Vec", "Option">>, "Hit"),
     Of(<<"Vec", "Vec">>, "Hit")}

MCDecimal(n) == IF n = 0 THEN "0" ELSE "1"

=============================================================================
