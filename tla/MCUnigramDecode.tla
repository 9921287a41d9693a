---------------------------- MODULE MCUnigramDecode ----------------------------
(***************************************************************************)
(* Two letters, a character of two bytes, and a lone surrogate.            *)
(***************************************************************************)
EXTENDS UnigramDecode, TLC

MCBytes == [c \in {"a", "b", "e"} |-> 
                IF c = "a" THEN <<<<"<a>">>>> ELSE IF c = "b" THEN <<<<"<b>">>>> ELSE <<<<"<e1>">>, <<"<e2>">>>>]
MCReplacement == <<<<"<r>">>>>
MCUnk == <<"unk">>
MCDefaultByte == -3

Scored(tokens, scores) == [tokens -> scores]
A == <<"a">>
B == <<"b">>
Vocabularies ==
    Scored({A, B, <<"a", "b">>, <<"b", "a">>}, {-1, -2})
    \cup Scored({A, <<"a", "b">>, <<"b", "a", "b">>}, {-1, -3})
    \cup Scored({<<"a", "a">>, <<"a", "b", "a">>, B, <<"<a>">>}, {-1, -2})
    \cup Scored({A, <<"a", "b">>, <<"b", "a">>, MCUnk}, {-1, -3})
    \cup Scored({A, <<"a", "a">>, <<"a", "a", "a">>}, {-1, -2, -3})
    \cup Scored({A, <<"e", "b">>, <<"<e1>">>}, {-1, -2})

MCModels == {[vocab |-> v, limit |-> l, byteFallback |-> f] : v \in Vocabularies, l \in {2, 3}, f \in BOOLEAN}

Letters == {"a", "b"}
MCTexts == UNION {[1..n -> Letters] : n \in 0..4}
           \cup {<<"e">>, <<"a", "e">>, <<"e", "b">>, <<"a", "e", "b">>, <<"a", "e", "b", "a">>,
                 <<"s">>, <<"a", "s">>, <<"a", "b", "s", "a">>, <<"a", "b", "a", "b", "a">>}
MCShared == {<<"a", "b">>, <<"a", "b", "a">>, <<"e">>}
MCSharedModels ==
    {[vocab |-> v, limit |-> 3, byteFallback |-> f] : f \in BOOLEAN,
        v \in {A :> -1 @@ B :> -1 @@ <<"a", "b">> :> -2, A :> -2 @@ <<"a", "b">> :> -1 @@ MCUnk :> -1}}

(* Each text with each model, and a few texts with a few models in several calls. *)
MCCallers == {[texts |-> {t}, models |-> MCModels, calls |-> 1] : t \in MCTexts}
             \cup {[texts |-> MCShared, models |-> MCSharedModels, calls |-> 3]}
MCBatches == {<<<<"a", "b">>, <<"a", "b", "a">>, <<"e">>>>, <<<<"a", "b">>, <<"a", "b">>, <<"a", "b", "a">>>>,
              <<<<"e">>, <<"a", "b">>>>}
================================================================================
