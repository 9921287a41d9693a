---------------------------- MODULE SubwordLattice -----------------------------
(***************************************************************************)
(* The prefix trees over a vocabulary: PrefixTrie (uniqtoken/trie.py) and  *)
(* RustPrefixTrie (trie.rs), without its cache.  Texts and tokens are      *)
(* sequences of characters.  A byte token is one character that no text    *)
(* has.  Positions count from 0, as in the code.  A score is an integer    *)
(* that stands for a log probability.  Then come the edges of a lattice,   *)
(* and the decoders of the Rust core.                                      *)
(***************************************************************************)
EXTENDS Integers, Sequences, FiniteSetsExt, Functions

CONSTANTS
    Bytes,        \* the byte tokens of each character that UTF-8 can encode
    Replacement,  \* those of U+FFFD
    DefaultByte   \* the score of a byte token that is not in the vocabulary

(* A lone surrogate: no UTF-8, and no way into the native core. *)
IsSurrogate(c) == c \notin DOMAIN Bytes
NativeTextSupported(text) == \A i \in DOMAIN text : ~IsSurrogate(text[i])

Slice(text, i, j) == SubSeq(text, i + 1, j)

-----------------------------------------------------------------------------
(* A node is the text that leads to it; insertion makes the nodes of the   *)
(* whole path; score has the terminal ones.                                *)
Insert(token) == {SubSeq(token, 1, i) : i \in 0..Len(token)}

TrieOf(vocab, limit) ==
    [nodes |-> UNION {Insert(token) : token \in DOMAIN vocab}, score |-> vocab, limit |-> limit]

(* How far the walk from a position goes before a child is missing. *)
Walk(trie, text, start, limit) ==
    {d \in 1..limit : start + d <= Len(text) /\ \A i \in 1..d : Slice(text, start, start + i) \in trie.nodes}

(* The ends of the tokens that begin at start. *)
Found(trie, text, start, limit) ==
    {start + d : d \in {d \in Walk(trie, text, start, limit) :
                            Slice(text, start, start + d) \in DOMAIN trie.score}}

FindMatches(trie, text, start, limit) == Found(trie, text, start, limit)

VisitPrefix(trie, text, start) == Found(trie, text, start, trie.limit)

ExactMetadata(trie, token, default) ==
    IF token \in trie.nodes /\ token \in DOMAIN trie.score THEN trie.score[token] ELSE default
-----------------------------------------------------------------------------
(* The edges of a segmentation lattice, and what all decoders do with      *)
(* them: an edge covers the characters from start to end by one token of   *)
(* the vocabulary, or by the byte tokens of one character, or by the       *)
(* unknown token.                                                          *)
(* The score of no path, minus infinity in the code. *)
NoPath == -1000

Edge(start, end, tokens, score) == [start |-> start, end |-> end, tokens |-> tokens, score |-> score]

Total(scores) == FoldFunction(+, 0, scores)

ByteEdge(text, start, tokens, score(_)) ==
    Edge(start, start + 1, tokens, Total([i \in DOMAIN tokens |-> score(tokens[i])]))

Spans(edge) == [i \in DOMAIN edge.tokens |-> <<edge.tokens[i], edge.start, edge.end>>]

Answer(spans) == [ok |-> TRUE, spans |-> spans]
Disconnected == [ok |-> FALSE, spans |-> <<>>]

(* The spans of the edges back[n], back[back[n].start], ... in text order. *)
Trace(back, n) ==
    LET from[end \in 0..n] ==
            IF end = 0 THEN <<>>
            ELSE from[back[end].start] \o Spans(back[end])
    IN  from[n]

(* Edges into one node, by ascending start. *)
ByStart(e, f) == e.start < f.start

(* A stable sort of them by descending score. *)
ByScore(e, f) == e.score > f.score \/ (e.score = f.score /\ e.start < f.start)

(* The first k edges in that order. *)
BestEdges(edges, k) == {e \in edges : Cardinality({f \in edges : ByScore(f, e)}) < k}

(* The first edge of the order before with the greatest value; minus       *)
(* infinity is no value.                                                   *)
FirstBest(edges, before(_, _), value(_)) ==
    LET reached == {e \in edges : value(e) > NoPath}
    IN  {e \in reached : \A f \in reached \ {e} :
            value(e) > value(f) \/ (value(e) = value(f) /\ before(e, f))}

Plus(score, edge) == IF score = NoPath THEN NoPath ELSE score + edge

(* What is known of a node: the best score and the edge it came by. *)
Reach(best, value(_)) ==
    IF best = {} THEN [score |-> NoPath, edge |-> {}]
    ELSE [score |-> value(CHOOSE e \in best : TRUE), edge |-> best]

Outcome(state, n) ==
    IF n > 0 /\ state[n].edge = {} THEN Disconnected
    ELSE Answer(Trace([i \in {i \in 1..n : state[i].edge # {}} |-> CHOOSE e \in state[i].edge : TRUE], n))

-----------------------------------------------------------------------------
(* Expected counts, with weights for probabilities, sums of weights for    *)
(* log_add and logsumexp, and no division by the total.                   *)
Forward(edges, n, weight(_)) ==
    LET after[k \in 0..n] ==
            IF k = 0 THEN [i \in 0..n |-> IF i = 0 THEN 1 ELSE 0]
            ELSE LET to == after[k - 1]
                 IN  [to EXCEPT ![k] = MapThenSumSet(LAMBDA e : to[e.start] * weight(e), {e \in edges : e.end = k})]
    IN  after[n]

Backward(edges, n, weight(_)) ==
    LET after[k \in 0..n] ==
            IF k = 0 THEN [i \in 0..n |-> IF i = n THEN 1 ELSE 0]
            ELSE LET from == after[k - 1]
                 IN  [from EXCEPT ![n - k] = MapThenSumSet(LAMBDA e : from[e.end] * weight(e), {e \in edges : e.start = n - k})]
    IN  after[n]

CountsOf(edges, alpha, beta, weight(_)) ==
    [token \in UNION {{e.tokens[i] : i \in DOMAIN e.tokens} : e \in edges} |->
        MapThenSumSet(LAMBDA e : alpha[e.start] * weight(e) * beta[e.end]
                                 * Cardinality({i \in DOMAIN e.tokens : e.tokens[i] = token}), edges)]

--------------------------------------------------------------------------------
(***************************************************************************)
(* The decoders of the Rust core (viterbi.rs).  decode_compact pushes the  *)
(* score of every start on to the ends of its tokens; the older form, for  *)
(* a limit on the edges into a node, gathers them first.  A text has a     *)
(* form for ASCII and one for other characters.                            *)
(***************************************************************************)

IsAscii(text) == \A i \in DOMAIN text : Len(Bytes[text[i]]) = 1

(* The edge of the byte tokens, where no token of the vocabulary begins. *)
FallbackEdge(trie, text, start) ==
    ByteEdge(text, start, Bytes[text[start + 1]],
             LAMBDA token : ExactMetadata(trie, token, DefaultByte))

TokenEdge(trie, text, start, end) ==
    LET token == Slice(text, start, end) IN Edge(start, end, <<token>>, trie.score[token])

(* The ASCII form knows the one byte of a character. *)
AsciiFallbackEdge(trie, text, start) ==
    LET token == Bytes[text[start + 1]][1]
    IN  Edge(start, start + 1, <<token>>, ExactMetadata(trie, token, DefaultByte))

EdgesFrom(trie, text, byteFallback, start, fallback(_, _, _)) ==
    LET ends == VisitPrefix(trie, text, start)
    IN  IF ends = {} /\ byteFallback THEN {fallback(trie, text, start)}
        ELSE {TokenEdge(trie, text, start, end) : end \in ends}

-----------------------------------------------------------------------------
BugRelax(state, edges) ==
    [end \in DOMAIN state |->
        LET into == {e \in edges : e.end = end}
        IN  IF into = {} THEN state[end]
            ELSE LET e == CHOOSE e \in into : TRUE
                     score == state[e.start].score + e.score
                 IN  IF score >= state[end].score THEN [score |-> score, edge |-> {e}] ELSE state[end]]

(* An edge replaces what its end has when it is better, not when it is as  *)
(* good.  No two edges of one start have one end.                          *)
Relax(state, edges) ==
    [end \in DOMAIN state |->
        LET into == {e \in edges : e.end = end}
        IN  IF into = {} THEN state[end]
            ELSE LET e == CHOOSE e \in into : TRUE
                     score == state[e.start].score + e.score
                 IN  IF score > state[end].score THEN [score |-> score, edge |-> {e}] ELSE state[end]]

(* Starts that nothing leads to are passed over. *)
DecodeCompact(text, trie, byteFallback) ==
    LET n == Len(text)
        after[k \in 0..n] ==
            IF k = 0
            THEN [i \in 0..n |-> [score |-> IF i = 0 THEN 0 ELSE NoPath, edge |-> {}]]
            ELSE LET state == after[k - 1]
                 IN  IF state[k - 1].score = NoPath THEN state
                     ELSE Relax(state, EdgesFrom(trie, text, byteFallback, k - 1, FallbackEdge))
    IN  Outcome(after[n], n)

-----------------------------------------------------------------------------
(* With at most limit edges into a node, the best by their own scores.     *)
Gathered(text, edges, limit) ==
    LET n == Len(text)
        into(end) == {e \in edges : e.end = end}
        kept(end) == BestEdges(into(end), limit)
        order(end, e, f) == IF Cardinality(into(end)) > limit THEN ByScore(e, f) ELSE ByStart(e, f)
        after[k \in 0..n] ==
            IF k = 0
            THEN [i \in 0..n |-> [score |-> IF i = 0 THEN 0 ELSE NoPath, edge |-> {}]]
            ELSE LET state == after[k - 1]
                     through(e) == Plus(state[e.start].score, e.score)
                     best == FirstBest(kept(k), LAMBDA e, f : order(k, e, f), through)
                 IN  [state EXCEPT ![k] = Reach(best, through)]
    IN  Outcome(after[n], n)

ViterbiDecodeChars(text, trie, byteFallback, limit) ==
    Gathered(text, UNION {EdgesFrom(trie, text, byteFallback, i, FallbackEdge) : i \in 0..(Len(text) - 1)}, limit)

ViterbiDecodeAscii(text, trie, byteFallback, limit) ==
    Gathered(text, UNION {EdgesFrom(trie, text, byteFallback, i, AsciiFallbackEdge) : i \in 0..(Len(text) - 1)}, limit)

ViterbiDecode(text, trie, byteFallback, limit) ==
    IF IsAscii(text) THEN ViterbiDecodeAscii(text, trie, byteFallback, limit)
    ELSE ViterbiDecodeChars(text, trie, byteFallback, limit)

-----------------------------------------------------------------------------
(* Only tokens of the vocabulary make edges here. *)
ForwardBackwardExpectations(text, trie, weight(_)) ==
    LET n     == Len(text)
        edges == UNION {EdgesFrom(trie, text, FALSE, i, FallbackEdge) : i \in 0..(n - 1)}
        alpha == Forward(edges, n, weight)
        beta  == Backward(edges, n, weight)
    IN  IF alpha[n] = 0 THEN {}
        ELSE {CountsOf({e \in edges : alpha[e.start] # 0 /\ beta[e.end] # 0}, alpha, beta, weight)}
================================================================================
