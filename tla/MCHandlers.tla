----------------------------- MODULE MCHandlers -----------------------------
(* Instances of Handlers for TLC. *)
EXTENDS Handlers

Words == {<<>>, <<"a">>, <<"=">>, <<"&">>, <<"%">>, <<"+">>, <<"space">>, <<"a", "%">>, <<"%", "a">>}

(* No query, every pair of words, and two pairs with few words.             *)
Forms ==
    {<<>>} \cup {<<<<k, v>>>> : k \in Words \ {<<>>}, v \in Words}
    \cup [1..2 -> {<<k, v>> : k \in {<<"a">>, <<"&">>}, v \in {<<>>, <<"=">>, <<"%", "a">>}}]

NoForm == {<<>>}
=============================================================================
