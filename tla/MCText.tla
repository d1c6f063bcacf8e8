-------------------------------- MODULE MCText --------------------------------
EXTENDS Text
SomeFormats ==
    {[flags |-> g, width |-> w, precision |-> p, conv |-> c] :
        g \in {<<>>, <<"-">>, <<"0">>, <<"l", "l">>, <<"#">>}, w \in {<<>>, <<"5">>, <<"1", "2">>},
        p \in {<<>>, <<".", "1">>, <<".", "*">>}, c \in {"d", "u", "x", "p", "%", "y"}}
SomeNumbers == {[long |-> l, value |-> v] : l \in BOOLEAN, v \in {0, 1, 7, -1, -8}}
               \cup {[long |-> TRUE, value |-> v] : v \in {9, 10, 15, 16, 99, 100, 127, -10, -128}}
Word == {<<"a">>, <<"-">>, <<"-", "-">>, <<"-", "b">>, <<"-", "c", "d">>, <<>>}
Lines == UNION {{<<<<"p">>>> \o ws : ws \in [1..n -> Word]} : n \in 0..3}
===============================================================================
