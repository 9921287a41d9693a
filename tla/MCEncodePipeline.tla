--------------------------- MODULE MCEncodePipeline ----------------------------
(***************************************************************************)
(* Groups of a few characters each: spaces and escapes; marks; control     *)
(* tokens; indentation; letters, digits and punctuation; clusters.         *)
(***************************************************************************)
EXTENDS EncodePipeline, TLC

MCCompat ==
    "fi" :> <<"f", "i">> @@ "nbsp" :> <<Space>> @@ "wide<" :> <<"<">> @@ "wide|" :> <<"|">>
    @@ "eacute" :> <<"e", "acute">> @@ "not<" :> <<"<", "overlay">> @@ "dots" :> <<".", ".", ".">>
MCMarkClass == "acute" :> 230 @@ "macron" :> 230 @@ "dot" :> 220 @@ "overlay" :> 1
MCComposite ==
    <<"e", "acute">> :> "eacute" @@ <<"r", "dot">> :> "rdot" @@ <<"rdot", "macron">> :> "rdotmacron"
    @@ <<"<", "overlay">> :> "not<"
MCLowerCase == "A" :> <<"a">> @@ "Idot" :> <<"i", "over">> @@ "Sigma" :> <<"sigma">>
MCCaseFold == MCLowerCase @@ "finalsigma" :> <<"sigma">>
MCFinalCase == "Sigma" :> <<"finalsigma">>
MCLetter == {"a", "b", "e", "f", "i", "r", "t", "x", "A", "Idot", "Sigma", "sigma", "finalsigma", "fi", "eacute", "rdot", "rdotmacron", "reph"}
MCBlank == {Space, Tab, "lf", "cr", "nbsp", "ogham"}
MCDigit == {"1", "2", "4"}
MCMark == DOMAIN MCMarkClass \cup {"over"}
MCFormat == {"joiner", "softhyphen"}
MCListed == {"joiner", "reph"}
MCExtend == MCMark \cup {"joiner"}
MCPrepend == {"reph"}
MCControl == {"cr", "lf", Tab, "softhyphen"}

Ascii == {Space, Tab, "lf", "cr", "a", "b", "e", "f", "i", "r", "t", "x", "A", "<", "|", ">", "\\", ".", "'", "1", "2", "4", "8"}
Wide == {Meta, EscapePrefix, EscapedMeta, "quote", "fi", "over"} \cup DOMAIN MCCompat
        \cup MCMark \cup MCFormat \cup MCLetter \cup {"ogham", "not<"}
MCBytes == [c \in Ascii \cup Wide |->
                IF c \in Ascii THEN <<<<c \o " byte">>>> ELSE <<<<c \o " byte 1">>, <<c \o " byte 2">>>>]
MCReplacement == <<>>
MCDefaultByte == -9
ByteTokens == UNION {{MCBytes[c][i] : i \in DOMAIN MCBytes[c]} : c \in DOMAIN MCBytes}
Vocab(learned, specials) ==
    [t \in learned \cup specials \cup ByteTokens |->
        IF t \in ByteTokens THEN -9 ELSE IF t \in specials THEN -20 ELSE IF Len(t) = 1 THEN -3 ELSE -4]

Asis == [unicode |-> FALSE, spaces |-> FALSE, punctuation |-> FALSE, case |-> "keep", collapse |-> FALSE, strip |-> FALSE]
Default == [Asis EXCEPT !.unicode = TRUE, !.spaces = TRUE]
Tidy == [Default EXCEPT !.collapse = TRUE, !.strip = TRUE]
Plain == [Asis EXCEPT !.punctuation = TRUE, !.spaces = TRUE, !.case = "lower"]
Folded == [Default EXCEPT !.case = "fold"]

NoIds == [t \in {} |-> 0]
Numbering(vocab) == FoldSet(LAMBDA t, numbered : numbered @@ (t :> Cardinality(DOMAIN numbered)), NoIds, DOMAIN vocab)

Config(native, settings, vocab, specials, allowed, action) ==
    [native |-> native, settings |-> settings, pre |-> DefaultPre, vocab |-> vocab, ids |-> Numbering(vocab),
     specials |-> specials, allowed |-> allowed, action |-> action]
Usual(settings, vocab, specials) ==
    {Config(n, s, vocab, specials, "none", "escape") : n \in BOOLEAN, s \in settings}

Words(chars, n) == UNION {[1..k -> chars] : k \in 1..n}
Spaces(n) == [i \in 1..n |-> Space]

SpaceVocab == Vocab({<<Meta>>, <<"a">>, <<Meta, "a">>, <<EscapePrefix>>}, {})
SpaceCase ==
    [texts |-> Words({"a", Space, Tab, Meta, EscapePrefix, EscapedMeta, "nbsp"}, 4),
     configs |-> Usual({Asis, Default, Tidy}, SpaceVocab, {})]

MarkVocab == Vocab({<<Meta>>, <<"e">>, <<"e", "acute">>, <<"f", "i">>}, {})
MarkCase ==
    [texts |-> Words({"e", "r", "acute", "dot", "macron", "fi", "lf"}, 4) \cup {<<Space, "acute", "e">>, <<"e", Space, "acute", "e">>},
     configs |-> Usual({Asis, Default, Tidy}, MarkVocab, {})]

ControlSpecials == {ControlToken("x")}
ControlVocab == Vocab({<<Meta>>, <<"a">>, <<"<">>}, ControlSpecials)
Token == ControlToken("x")
ControlCase ==
    [texts |-> {Token, <<"a">> \o Token, Token \o Token, Token \o <<"acute">>, ControlToken("fi"), <<"e", "acute">> \o Token,
                <<"wide<", "|", "x", "wide|", ">">>, <<"wide<", "|", "a">>, <<"<", "wide|", "a">>, <<"<", "overlay", "|", "a">>,
                <<"not<", "|">>, <<"<", "|">>, <<"a", "|", "<">>, <<"fi">> \o Token \o <<"a">>, Token \o <<"fi", "e", "acute">>,
                <<"<", "\\", "|", "x", "\\", "|", ">">>, <<"<", "|", Space, "x", "|", ">">>},
     configs |-> Usual({Asis, Default}, ControlVocab, ControlSpecials)
                 \cup {Config(TRUE, s, ControlVocab, ControlSpecials, allowed, action) :
                        s \in {Asis, Default}, allowed \in {"none", "all", "x", "i"}, action \in {"escape", "raise", "ignore"}}]

IndentSpecials == {ControlToken("2"), ControlToken("4"), TabToken}
IndentVocab == Vocab({<<Meta>>, <<"a">>, <<Meta, "a">>}, IndentSpecials)
IndentCase ==
    [texts |-> {Spaces(n) \o <<"a">> : n \in 1..8} \cup {<<"a">> \o Spaces(n) : n \in 1..3}
               \cup {<<Tab, "a">>, <<Tab, Space, Space, "a">>, ControlToken("4"), Spaces(4) \o <<"acute">>, <<"nbsp", Space, Space>>,
                     <<Space, Tab, Space>>, Spaces(2) \o ControlToken("2")},
     configs |-> Usual({Asis, Default, Tidy}, IndentVocab, IndentSpecials)
                 \cup {Config(TRUE, Default, IndentVocab, IndentSpecials, "all", "raise")}]

WordSpecials == {<<"a", "b">>, ControlToken("x")}
WordVocab == Vocab({<<Meta>>, <<"a">>, <<"i">>, <<"sigma">>, <<"1", "2">>, <<"a", "'">>, <<"i", "over">>}, {})
WordCase ==
    [texts |-> Words({"a", "A", "Sigma", "quote", "1", Space}, 3)
               \cup {<<"Idot">>, <<"a", "Idot">>, <<"dots">>, <<"a", "dots", "a">>, <<"1", "2", "1", "2">>, <<Space, "1", "2", "1", "2">>,
                     <<"a", "b", "a">>, <<"a", "b">>, <<Space, "a", "b">>, <<"a", "quote", "b", "'", "a">>},
     configs |-> Usual({Plain, Folded}, WordVocab, {})
                 \cup Usual({Plain}, Vocab({<<Meta>>, <<"a">>, <<"b">>, <<"b", "a">>}, WordSpecials), WordSpecials)]

CutVocab == Vocab({<<Meta>>, <<"a">>, <<"1">>, <<"1", "1">>, <<".", ".">>}, ControlSpecials)
CutCase ==
    [texts |-> Words({"a", "1", "."}, 3) \cup {<<"1", "1", "1", "1", Space, "1", "1">>, <<".", ".", "acute", ".">>} \cup {Token, <<".">> \o Token},
     configs |-> {[Config(native, Default, CutVocab, ControlSpecials, allowed, "escape") EXCEPT !.pre = pre] :
                    native \in BOOLEAN, allowed \in {"none", "all"},
                    pre \in {WithPreset(DefaultPre, "math"), WithPreset(DefaultPre, "code"), [DefaultPre EXCEPT !.chunking = "greedy"],
                             [DefaultPre EXCEPT !.chunkSize = 2], [DefaultPre EXCEPT !.splitPunctuation = FALSE],
                             [DefaultPre EXCEPT !.keepSpecials = FALSE]}}]

ClusterVocab == Vocab({<<Meta>>, <<"a">>, <<"1">>, <<"a", "joiner">>, <<"reph", "1">>}, {})
ClusterCase ==
    [texts |-> Words({"a", "1", "acute", "joiner", "reph", "softhyphen", "cr", "lf"}, 3),
     configs |-> Usual({Default}, ClusterVocab, {})]

MCCases == {SpaceCase, MarkCase, ControlCase, IndentCase, WordCase, CutCase, ClusterCase}
================================================================================
