----------------------------- MODULE UnigramDecode -----------------------------
(***************************************************************************)
(* Encoding with a UnigramModel (uniqtoken/unigram_trainer.py): the        *)
(* decoders in Python -- UnigramLattice (uniqtoken/unigram_lattice.py) and *)
(* the short-text decoder _encode_fast --, which decoder answers a call,   *)
(* and the two tables of segmentations: one of the model, one that the     *)
(* Rust trie shares among the threads of a batch (decode_cached in         *)
(* viterbi.rs, seg_cache in trie.rs).  One Python thread calls, and waits  *)
(* for its batch.                                                          *)
(* A model is a vocabulary with the scores of its tokens, the longest      *)
(* token the decoders look for, and whether unknown characters become      *)
(* byte tokens.                                                            *)
(***************************************************************************)
EXTENDS SubwordLattice

CONSTANTS
    Unk,            \* the unknown token
    FastPathMaxLen, \* _FAST_PATH_MAX_LEN
    Callers,        \* what they have: texts, models, and how many calls they make
    Batches,        \* the chunks of its batches
    Worker,         \* threads of the pool
    ParallelFrom,   \* 32: shorter batches are not given to the pool
    MaxChunkBytes,  \* longer chunks stay out of the table of the trie
    NativeCap,      \* SEG_CACHE_CAP
    MaxCacheText,   \* 64: longer texts stay out of the table of the model
    MaxCacheSize    \* _MAX_CACHE_SIZE

VARIABLES
    native,       \* whether the core is compiled
    texts,        \* what the caller encodes
    model,
    stale,        \* the model changed since its caches were renewed
    segCache,     \* UnigramModel._seg_cache
    nativeCache,  \* seg_cache of the trie, by byte fallback and chunk
    batch,        \* the batch that runs: its kind and chunks, "none"
    results,      \* what its items came to
    worker,       \* what each thread is at
    sample,       \* a segmentation that is being sampled, from its end
    answer,       \* the answer of the last call
    left          \* calls to come, a bound

vars == <<native, texts, model, stale, segCache, nativeCache, batch, results, worker, sample, answer, left>>

-----------------------------------------------------------------------------
ByteScore(vocab, token) == IF token \in DOMAIN vocab THEN vocab[token] ELSE DefaultByte

CharToByteTokens(c) == IF IsSurrogate(c) THEN Replacement ELSE Bytes[c]

(* The ends of the tokens from start: the trie's, or by slices.  Tokens    *)
(* below the least score are passed over.                                  *)
TokenEnds(m, text, start, least, trie) ==
    {end \in IF trie # {} THEN UNION {FindMatches(t, text, start, m.limit) : t \in trie}
             ELSE {end \in (start + 1)..(start + m.limit) :
                      end <= Len(text) /\ Slice(text, start, end) \in DOMAIN m.vocab} :
        m.vocab[Slice(text, start, end)] >= least}

EdgesAt(m, text, start, least, trie) ==
    LET ends == TokenEnds(m, text, start, least, trie)
    IN  IF ends # {}
        THEN {Edge(start, end, <<Slice(text, start, end)>>, m.vocab[Slice(text, start, end)]) : end \in ends}
        ELSE IF m.byteFallback
        THEN {ByteEdge(text, start, CharToByteTokens(text[start + 1]), LAMBDA token : ByteScore(m.vocab, token))}
        ELSE IF Unk \in DOMAIN m.vocab
        THEN {Edge(start, start + 1, <<Unk>>, m.vocab[Unk])}
        ELSE {}

BuildGraph(m, text, least, trie) ==
    UNION {EdgesAt(m, text, start, least, trie) : start \in 0..(Len(text) - 1)}

(* Beam pruning takes an edge out of both lists it is in. *)
Into(edges, end) == {e \in edges : e.end = end}
BugPrune(edges, limit) ==
    [begins |-> edges, ends |-> UNION {BestEdges(Into(edges, e.end), limit) : e \in edges}]

Prune(edges, limit) ==
    LET kept == UNION {BestEdges(Into(edges, e.end), limit) : e \in edges}
    IN  [begins |-> kept, ends |-> kept]

(* edges as they are in the lists of their ends: sorted where pruned. *)
Listed(edges, limit, end, e, f) ==
    IF Cardinality(Into(edges, end)) > limit THEN ByScore(e, f) ELSE ByStart(e, f)

ViterbiEdges(edges, limit, n) ==
    LET lattice == Prune(edges, limit)
        after[k \in 0..n] ==
            IF k = 0
            THEN [i \in 0..n |-> [score |-> IF i = 0 THEN 0 ELSE NoPath, edge |-> {}]]
            ELSE LET state == after[k - 1]
                     through(e) == Plus(state[e.start].score, e.score)
                     best == FirstBest(Into(lattice.ends, k), LAMBDA e, f : Listed(edges, limit, k, e, f), through)
                 IN  [state EXCEPT ![k] = Reach(best, through)]
    IN  Outcome(after[n], n)

ForwardBackward(edges, limit, n, weight(_)) ==
    LET lattice == Prune(edges, limit)
        alpha   == Forward(lattice.ends, n, weight)
        beta    == Backward(lattice.begins, n, weight)
    IN  IF alpha[n] = 0 THEN {} ELSE {CountsOf(lattice.ends, alpha, beta, weight)}

-----------------------------------------------------------------------------
(* _encode_fast.  The edge of the byte tokens enters the node after it,    *)
(* after all tokens that end there; the unknown token makes none.  A node  *)
(* that nothing enters sends the text to the lattice: the answer is {}.    *)
FastEdges(m, text, reached, end) ==
    LET least  == Min({m.limit, Len(text)})
        starts == {j \in 0..(end - 1) : end - j <= least /\ Slice(text, j, end) \in DOMAIN m.vocab}
        vocabEdge == \E j \in end..Len(text) :
                        j - (end - 1) <= least /\ Slice(text, end - 1, j) \in DOMAIN m.vocab
    IN  {Edge(j, end, <<Slice(text, j, end)>>, m.vocab[Slice(text, j, end)]) : j \in starts}
        \cup IF m.byteFallback /\ reached[end - 1].score > NoPath /\ ~vocabEdge
             THEN {ByteEdge(text, end - 1, Bytes[text[end]], LAMBDA token : ByteScore(m.vocab, token))}
             ELSE {}

EncodeFast(m, text) ==
    LET n == Len(text)
        after[k \in 0..n] ==
            IF k = 0
            THEN [i \in 0..n |-> [score |-> IF i = 0 THEN 0 ELSE NoPath, edge |-> {}]]
            ELSE LET state == after[k - 1]
                     through(e) == Plus(state[e.start].score, e.score)
                 IN  IF k > 1 /\ state[k - 1].edge = {} THEN state
                     ELSE [state EXCEPT ![k] = Reach(FirstBest(FastEdges(m, text, state, k), ByStart, through), through)]
        final == after[n]
    IN  IF n < 2 \/ n > FastPathMaxLen \/ ~NativeTextSupported(text) THEN {}
        ELSE IF \E i \in 1..n : final[i].edge = {} THEN {}
        ELSE {Outcome(final, n)}

-----------------------------------------------------------------------------
Empty == [x \in {} |-> x]
Nobody == [w \in Worker |-> [at |-> "idle", item |-> 0, seg |-> Disconnected]]
NoBatch == [kind |-> "none", chunks |-> <<>>]
NoSample == [text |-> <<>>, at |-> 0, spans |-> <<>>]
NoAnswer == [kind |-> "none", text |-> <<>>]

Init ==
    /\ native \in BOOLEAN
    /\ \E caller \in Callers : texts = caller.texts /\ model \in caller.models /\ left = caller.calls
    /\ stale = FALSE
    /\ segCache = Empty /\ nativeCache = Empty
    /\ batch = NoBatch /\ results = Empty /\ worker = Nobody
    /\ sample = NoSample
    /\ answer = NoAnswer

Idle == batch = NoBatch /\ sample = NoSample
Call == Idle /\ left > 0 /\ left' = left - 1

(* A mutation: the caches go when the next call finds the version moved. *)
ChangeModel ==
    /\ Call
    /\ model' = [model EXCEPT !.byteFallback = ~@]
    /\ stale' = TRUE
    /\ answer' = NoAnswer
    /\ UNCHANGED <<native, texts, segCache, nativeCache, batch, results, worker, sample>>

Fresh(cache) == IF stale THEN Empty ELSE cache

(* The trie of the core has no edge for unknown characters. *)
HasRustTrie(in) ==
    /\ native
    /\ model.byteFallback \/ Unk \notin DOMAIN model.vocab
    /\ \A text \in in : NativeTextSupported(text)

RustTrie == TrieOf(model.vocab, model.limit)

-----------------------------------------------------------------------------
ByteLength(text) == Total([i \in DOMAIN text |-> Len(Bytes[text[i]])])
NativeKey(text) == <<model.byteFallback, text>>

BugSegCachePut(cache, key, seg) ==
    IF Cardinality(DOMAIN cache) > NativeCap
    THEN [k \in {key} |-> seg]
    ELSE [k \in DOMAIN cache \cup {key} |-> IF k = key THEN seg ELSE cache[k]]

(* A new key finds no room: the whole table goes. *)
SegCachePut(cache, key, seg) ==
    IF key \notin DOMAIN cache /\ Cardinality(DOMAIN cache) >= NativeCap
    THEN [k \in {key} |-> seg]
    ELSE [k \in DOMAIN cache \cup {key} |-> IF k = key THEN seg ELSE cache[k]]

(* decode_cached on a table of segmentations: the answer and the table. *)
DecodeCached(text, cache) ==
    LET fresh == DecodeCompact(text, RustTrie, model.byteFallback)
    IN  IF text = <<>> THEN <<Answer(<<>>), cache>>
        ELSE IF ByteLength(text) > MaxChunkBytes THEN <<fresh, cache>>
        ELSE IF NativeKey(text) \in DOMAIN cache THEN <<Answer(cache[NativeKey(text)]), cache>>
        ELSE IF ~fresh.ok THEN <<fresh, cache>>
        ELSE <<fresh, SegCachePut(cache, NativeKey(text), fresh.spans)>>

(* The short-text decoder, or the lattice. *)
DecodeInPython(text) ==
    LET fast == EncodeFast(model, text)
    IN  IF fast # {} THEN CHOOSE a \in fast : TRUE
        ELSE ViterbiEdges(BuildGraph(model, text, NoPath, {RustTrie}), Len(text) + 1, Len(text))

Remember(cache, text, out) ==
    IF out.ok /\ Len(text) <= MaxCacheText /\ Cardinality(DOMAIN cache) < MaxCacheSize
    THEN [t \in DOMAIN cache \cup {text} |-> IF t = text THEN out.spans ELSE cache[t]]
    ELSE cache

IsToken(text) == Len(text) = 1 /\ text \in DOMAIN model.vocab

(* encode_with_spans, and encode, which keeps the tokens of it. *)
EncodeWithSpans(text) ==
    /\ Call
    /\ stale' = FALSE
    /\ LET cache == Fresh(segCache)
           decoded == IF HasRustTrie({text}) THEN DecodeCached(text, Fresh(nativeCache))
                      ELSE <<DecodeInPython(text), Fresh(nativeCache)>>
           out == IF IsToken(text) THEN Answer(<<<<text, 0, 1>>>>)
                  ELSE IF text \in DOMAIN cache THEN Answer(cache[text])
                  ELSE decoded[1]
           looked == IsToken(text) \/ text \in DOMAIN cache
       IN  /\ answer' = [kind |-> "encode", text |-> text, out |-> out]
           /\ segCache' = IF looked THEN cache ELSE Remember(cache, text, out)
           /\ nativeCache' = IF looked THEN Fresh(nativeCache) ELSE decoded[2]
    /\ UNCHANGED <<native, texts, model, batch, results, worker, sample>>

-----------------------------------------------------------------------------
(* Batches of the core: one thread, or the pool. *)
StartBatch(kind, chunks) ==
    /\ Call
    /\ stale' = FALSE
    /\ segCache' = Fresh(segCache) /\ nativeCache' = Fresh(nativeCache)
    /\ batch' = [kind |-> kind, chunks |-> chunks]
    /\ results' = Empty
    /\ answer' = NoAnswer
    /\ UNCHANGED <<native, texts, model, worker, sample>>

TextsOf(chunks) == {chunks[i] : i \in DOMAIN chunks}
RustViterbiDecodeBatch(chunks) == HasRustTrie(TextsOf(chunks)) /\ StartBatch("spans", chunks)
RustEncodeTokensBatch(chunks)  == HasRustTrie(TextsOf(chunks)) /\ StartBatch("tokens", chunks)
RustEncodeIdsBatch(chunks)     == HasRustTrie(TextsOf(chunks)) /\ StartBatch("ids", chunks)

TokensOf(spans) == [i \in DOMAIN spans |-> spans[i][1]]

(* A byte token that is not in the vocabulary has no id. *)
IdsOf(spans) ==
    IF \A i \in DOMAIN spans : spans[i][1] \in DOMAIN model.vocab
    THEN [ok |-> TRUE, spans |-> TokensOf(spans)] ELSE Disconnected

ItemOf(seg) ==
    IF ~seg.ok THEN Disconnected
    ELSE CASE batch.kind = "spans"  -> seg
           [] batch.kind = "tokens" -> [ok |-> TRUE, spans |-> TokensOf(seg.spans)]
           [] batch.kind = "ids"    -> IdsOf(seg.spans)

Parallel == Len(batch.chunks) >= ParallelFrom
Running == batch.kind \in {"spans", "tokens", "ids"}
Failed == \E i \in DOMAIN results : ~results[i].ok
Claimed == DOMAIN results \cup {worker[w].item : w \in {w \in Worker : worker[w].at # "idle"}}
Chunk(w) == batch.chunks[worker[w].item]

(* One thread goes through the items in order and stops at an error. *)
Claim(w) ==
    /\ Running /\ worker[w].at = "idle"
    /\ \E i \in DOMAIN batch.chunks \ Claimed :
        /\ Parallel \/ (Claimed = 1..(i - 1) /\ ~Failed /\ \A v \in Worker : worker[v].at = "idle")
        /\ worker' = [worker EXCEPT ![w] = [at |-> "get", item |-> i, seg |-> Disconnected]]
    /\ UNCHANGED <<native, texts, model, stale, segCache, nativeCache, batch, results, sample, answer, left>>

Finish(w, seg) ==
    /\ results' = [i \in DOMAIN results \cup {worker[w].item} |->
                        IF i = worker[w].item THEN ItemOf(seg) ELSE results[i]]
    /\ worker' = [worker EXCEPT ![w] = [at |-> "idle", item |-> 0, seg |-> Disconnected]]

(* seg_cache_get takes the lock and gives it back. *)
Get(w) ==
    /\ worker[w].at = "get"
    /\ LET text == Chunk(w)
       IN  IF text = <<>> THEN Finish(w, Answer(<<>>))
           ELSE IF ByteLength(text) <= MaxChunkBytes /\ NativeKey(text) \in DOMAIN nativeCache
           THEN Finish(w, Answer(nativeCache[NativeKey(text)]))
           ELSE /\ worker' = [worker EXCEPT ![w].at = "decode"]
                /\ UNCHANGED results
    /\ UNCHANGED <<native, texts, model, stale, segCache, nativeCache, batch, sample, answer, left>>

Decode(w) ==
    /\ worker[w].at = "decode"
    /\ LET seg == DecodeCompact(Chunk(w), RustTrie, model.byteFallback)
       IN  IF seg.ok /\ ByteLength(Chunk(w)) <= MaxChunkBytes
           THEN worker' = [worker EXCEPT ![w].at = "put", ![w].seg = seg] /\ UNCHANGED results
           ELSE Finish(w, seg)
    /\ UNCHANGED <<native, texts, model, stale, segCache, nativeCache, batch, sample, answer, left>>

(* seg_cache_put takes the lock again; another thread may have stored the  *)
(* same chunk meanwhile.                                                   *)
Put(w) ==
    /\ worker[w].at = "put"
    /\ nativeCache' = SegCachePut(nativeCache, NativeKey(Chunk(w)), worker[w].seg.spans)
    /\ Finish(w, worker[w].seg)
    /\ UNCHANGED <<native, texts, model, stale, segCache, batch, sample, answer, left>>

(* An error of one item is the error of the batch; what is left of it need *)
(* not be looked at.                                                       *)
EndBatch ==
    /\ Running
    /\ \A w \in Worker : worker[w].at = "idle"
    /\ Failed \/ DOMAIN results = DOMAIN batch.chunks
    /\ answer' = [kind |-> "batch", text |-> <<>>, of |-> batch,
                  ok |-> ~Failed, items |-> IF Failed THEN Empty ELSE results]
    /\ batch' = NoBatch /\ results' = Empty
    /\ UNCHANGED <<native, texts, model, stale, segCache, nativeCache, worker, sample, left>>

(* encode_batch without the core: one chunk after another. *)
EncodeBatchInPython(chunks) == ~HasRustTrie(TextsOf(chunks)) /\ StartBatch("python", chunks)

NextInPython ==
    /\ batch.kind = "python" /\ DOMAIN results # DOMAIN batch.chunks
    /\ LET i == Cardinality(DOMAIN results) + 1
           text == batch.chunks[i]
           out == IF IsToken(text) THEN Answer(<<<<text, 0, 1>>>>)
                  ELSE IF text \in DOMAIN segCache THEN Answer(segCache[text])
                  ELSE DecodeInPython(text)
           item == IF out.ok THEN [ok |-> TRUE, spans |-> TokensOf(out.spans)] ELSE Disconnected
           done == [j \in 1..i |-> IF j = i THEN item ELSE results[j]]
       IN  /\ segCache' = IF IsToken(text) \/ text \in DOMAIN segCache THEN segCache ELSE Remember(segCache, text, out)
           /\ IF ~out.ok \/ i = Len(batch.chunks)
              THEN /\ answer' = [kind |-> "batch", text |-> <<>>, of |-> batch, ok |-> out.ok,
                                 items |-> IF out.ok THEN done ELSE Empty]
                   /\ batch' = NoBatch /\ results' = Empty
              ELSE results' = done /\ UNCHANGED <<answer, batch>>
    /\ UNCHANGED <<native, texts, model, stale, nativeCache, worker, sample, left>>

-----------------------------------------------------------------------------
(* The decoders with a limit on the edges into a node, and a least score. *)
Asked(kind, text, limit, least, out) ==
    /\ Call
    /\ answer' = [kind |-> kind, text |-> text, limit |-> limit, least |-> least, out |-> out]
    /\ UNCHANGED <<native, texts, model, stale, segCache, nativeCache, batch, results, worker, sample>>

RustViterbiDecode(text, limit) ==
    /\ HasRustTrie({text})
    /\ Asked("rust", text, limit, NoPath, ViterbiDecode(text, RustTrie, model.byteFallback, limit))

LatticeViterbi(text, limit, least) ==
    Asked("lattice", text, limit, least,
          ViterbiEdges(BuildGraph(model, text, least, {}), limit, Len(text)))

(* A positive number that stands for the probability of an edge. *)
Weight(edge) == 7 + edge.score

RustExpectations(text) ==
    /\ native /\ NativeTextSupported(text)
    /\ Asked("rust counts", text, Len(text), NoPath, ForwardBackwardExpectations(text, RustTrie, Weight))

LatticeExpectations(text, limit, least) ==
    Asked("lattice counts", text, limit, least,
          ForwardBackward(BuildGraph(model, text, least, {}), limit, Len(text), Weight))

(* sample: forward filtering, then one edge after another from the end,    *)
(* among those that a path from the front leads to.                        *)
SampledEdges(text) == BuildGraph(model, text, NoPath, {RustTrie})

Sample(text) ==
    /\ Call
    /\ text # <<>>
    /\ IF Forward(SampledEdges(text), Len(text), Weight)[Len(text)] = 0
       THEN answer' = [kind |-> "sample", text |-> text, out |-> Disconnected] /\ UNCHANGED sample
       ELSE sample' = [text |-> text, at |-> Len(text), spans |-> <<>>] /\ answer' = NoAnswer
    /\ UNCHANGED <<native, texts, model, stale, segCache, nativeCache, batch, results, worker>>

Incoming(text, at) ==
    LET alpha == Forward(SampledEdges(text), Len(text), Weight)
    IN  {e \in Into(SampledEdges(text), at) : alpha[e.start] # 0}

SampleStep ==
    /\ sample # NoSample
    /\ \E e \in Incoming(sample.text, sample.at) :
        LET spans == Spans(e) \o sample.spans
        IN  IF e.start = 0
            THEN /\ answer' = [kind |-> "sample", text |-> sample.text, out |-> Answer(spans)]
                 /\ sample' = NoSample
            ELSE /\ sample' = [sample EXCEPT !.at = e.start, !.spans = spans]
                 /\ UNCHANGED answer
    /\ UNCHANGED <<native, texts, model, stale, segCache, nativeCache, batch, results, worker, left>>

-----------------------------------------------------------------------------
Next ==
    \/ ChangeModel
    \/ \E text \in texts : EncodeWithSpans(text)
    \/ \E chunks \in Batches :
        /\ TextsOf(chunks) \subseteq texts
        /\ \/ RustViterbiDecodeBatch(chunks) \/ RustEncodeTokensBatch(chunks)
           \/ RustEncodeIdsBatch(chunks) \/ EncodeBatchInPython(chunks)
    \/ \E w \in Worker : Claim(w) \/ Get(w) \/ Decode(w) \/ Put(w)
    \/ EndBatch
    \/ NextInPython
    \/ \E text \in texts, limit \in 1..2 : RustViterbiDecode(text, limit)
    \/ \E text \in texts, limit \in 1..2, least \in {NoPath, -1} :
        LatticeViterbi(text, limit, least) \/ LatticeExpectations(text, limit, least)
    \/ \E text \in texts : RustExpectations(text) \/ Sample(text)
    \/ SampleStep

Spec == Init /\ [][Next]_vars

-----------------------------------------------------------------------------
(* What all unigram decoders are for: of all ways to cut a text into       *)
(* tokens, the one of the best score.  Of several, the one whose last      *)
(* token is the longest, and so on towards the front.  Nothing here is     *)
(* computed position by position: all cuts are looked at.                  *)
(* The tokens a text can be cut into, at most limit characters long, with  *)
(* an edge of its own for a character where no token begins.               *)
Edges(vocab, limit, text, own(_)) ==
    LET ends(i) == {j \in (i + 1)..Len(text) : j - i <= limit /\ Slice(text, i, j) \in DOMAIN vocab}
    IN  UNION {IF ends(i) = {} THEN own(i)
               ELSE {Edge(i, j, <<Slice(text, i, j)>>, vocab[Slice(text, i, j)]) : j \in ends(i)} :
               i \in 0..(Len(text) - 1)}

NextCut(cuts, c) == CHOOSE d \in cuts : d > c /\ \A b \in cuts : b <= c \/ b >= d
EdgeOver(edges, c, d) == CHOOSE e \in edges : e.start = c /\ e.end = d

(* The sets of cuts between which there are edges. *)
Paths(edges, n) ==
    {cuts \in {inner \cup {0, n} : inner \in SUBSET (1..(n - 1))} :
        \A c \in cuts \ {n} : \E e \in edges : e.start = c /\ e.end = NextCut(cuts, c)}

EdgesOn(cuts, edges, n) == {EdgeOver(edges, c, NextCut(cuts, c)) : c \in cuts \ {n}}

PathScore(cuts, edges, n) == MapThenSumSet(LAMBDA e : e.score, EdgesOn(cuts, edges, n))

SpansOn(cuts, edges, n) ==
    LET on == EdgesOn(cuts, edges, n)
    IN  Trace([d \in cuts \ {0} |-> CHOOSE e \in on : e.end = d], n)

BestPaths(edges, n) ==
    LET paths == Paths(edges, n)
        score == [cuts \in paths |-> PathScore(cuts, edges, n)]
    IN  {cuts \in paths : \A other \in paths : score[cuts] >= score[other]}

BestAnswer(edges, n) ==
    LET best == BestPaths(edges, n)
    IN  IF best = {} THEN Disconnected
        ELSE Answer(SpansOn(CHOOSE cuts \in best : \A other \in best \ {cuts} :
                                Max((cuts \ other) \cup (other \ cuts)) \in other, edges, n))

(* Every path counts as much as the weights of its edges multiplied. *)
PathWeight(cuts, edges, n, weight(_)) ==
    LET on == EdgesOn(cuts, edges, n)
    IN  FoldFunction(LAMBDA a, b : a * b, 1, [e \in on |-> weight(e)])

ExactCounts(edges, n, weight(_)) ==
    LET paths == Paths(edges, n)
        of(cuts) == SpansOn(cuts, edges, n)
        tokens == UNION {{of(cuts)[i][1] : i \in DOMAIN of(cuts)} : cuts \in paths}
    IN  [token \in tokens |->
            MapThenSumSet(LAMBDA cuts : PathWeight(cuts, edges, n, weight)
                              * Cardinality({i \in DOMAIN of(cuts) : of(cuts)[i][1] = token}), paths)]

-----------------------------------------------------------------------------
(* The edge of a character where no token begins. *)
OwnEdge(text, i, unknown) ==
    IF model.byteFallback
    THEN {ByteEdge(text, i, CharToByteTokens(text[i + 1]), LAMBDA token : ByteScore(model.vocab, token))}
    ELSE IF unknown /\ Unk \in DOMAIN model.vocab THEN {Edge(i, i + 1, <<Unk>>, model.vocab[Unk])}
    ELSE {}

AllEdges(text, unknown) == Edges(model.vocab, model.limit, text, LAMBDA i : OwnEdge(text, i, unknown))

(* The unknown token is an edge only where the short-text decoder finds no *)
(* way without it.                                                         *)
Expected(text) ==
    LET without == BestAnswer(AllEdges(text, FALSE), Len(text))
    IN  IF Len(text) \in 2..FastPathMaxLen /\ NativeTextSupported(text) /\ without.ok THEN without
        ELSE BestAnswer(AllEdges(text, TRUE), Len(text))

(* Whichever decoder answers, with or without the core, alone or in a      *)
(* batch, from a table or not: the answer is the best of all ways to cut   *)
(* the text, with ties decided alike.  It fails only if there is no way,   *)
(* or, for ids, if a byte token has none.                                  *)
ExactAnswersAreBest ==
    /\ answer.kind = "encode" => answer.out = Expected(answer.text)
    /\ answer.kind = "batch" =>
        LET chunks == answer.of.chunks
            expected(i) == Expected(chunks[i])
            hasIds(i) == expected(i).ok /\ \A j \in DOMAIN expected(i).spans : expected(i).spans[j][1] \in DOMAIN model.vocab
        IN  /\ answer.ok <=> \A i \in DOMAIN chunks : IF answer.of.kind = "ids" THEN hasIds(i) ELSE expected(i).ok
            /\ \A i \in DOMAIN answer.items :
                answer.items[i].spans = IF answer.of.kind = "spans" THEN expected(i).spans ELSE TokensOf(expected(i).spans)

(* What the tables hold is what would be decoded, whichever thread stored  *)
(* it and whatever was thrown away; they stay within their bounds.         *)
TablesAreExact ==
    /\ ~stale => /\ \A text \in DOMAIN segCache : Answer(segCache[text]) = Expected(text)
                 /\ \A key \in DOMAIN nativeCache :
                        Answer(nativeCache[key]) = BestAnswer(AllEdges(key[2], FALSE), Len(key[2]))
    /\ Cardinality(DOMAIN nativeCache) <= NativeCap
    /\ Cardinality(DOMAIN segCache) <= MaxCacheSize

(* The edges a decoder with a limit keeps: at every node the best by their *)
(* own scores, the earlier start first.                                    *)
LeastEdges(text, least) ==
    LET vocab == [t \in {t \in DOMAIN model.vocab : model.vocab[t] >= least} |-> model.vocab[t]]
    IN  Edges(vocab, model.limit, text, LAMBDA i : OwnEdge(text, i, TRUE))
KeptEdges(text, limit, least) ==
    {e \in LeastEdges(text, least) : Cardinality({f \in LeastEdges(text, least) : f.end = e.end /\ ByScore(f, e)}) < limit}

(* A limit may lose the best way, but what is answered is the best of what *)
(* it left, and the Rust decoder and the lattice answer the same.          *)
LimitedAnswersAgree ==
    answer.kind \in {"rust", "lattice"} =>
        LET edges == KeptEdges(answer.text, answer.limit, answer.least)
            n == Len(answer.text)
        IN  /\ answer.out.ok <=> Paths(edges, n) # {}
            /\ answer.out.ok => \E cuts \in BestPaths(edges, n) : answer.out.spans = SpansOn(cuts, edges, n)
            /\ answer.kind = "rust" =>
                answer.out = ViterbiEdges(BuildGraph(model, answer.text, NoPath, {}), answer.limit, n)

(* An answer is the best of the ways that its decoder may take: of all of  *)
(* them, or of what the limit leaves.                                      *)
AnswersAreBest == ExactAnswersAreBest /\ LimitedAnswersAgree

(* Expected counts, by sums over nodes forwards and backwards, are those   *)
(* of all ways to cut the text, also after edges were pruned.              *)
CountsAreExact ==
    answer.kind \in {"rust counts", "lattice counts"} =>
        LET n == Len(answer.text)
            edges == IF answer.kind = "lattice counts" THEN KeptEdges(answer.text, answer.limit, answer.least)
                     ELSE Edges(model.vocab, model.limit, answer.text, LAMBDA i : {})
            exact == ExactCounts(edges, n, Weight)
        IN  IF Paths(edges, n) = {} THEN answer.out = {}
            ELSE \E counts \in answer.out :
                    \A token \in DOMAIN counts \cup DOMAIN exact :
                        IF token \in DOMAIN exact THEN token \in DOMAIN counts /\ counts[token] = exact[token]
                        ELSE counts[token] = 0

(* Sampling backwards never comes to a character that no way leads to, and *)
(* gives one of the ways to cut the text.                                  *)
SamplesArePaths ==
    /\ sample # NoSample => Incoming(sample.text, sample.at) # {}
    /\ answer.kind = "sample" =>
        LET edges == AllEdges(answer.text, TRUE)
            n == Len(answer.text)
        IN  IF answer.out.ok THEN \E cuts \in Paths(edges, n) : answer.out.spans = SpansOn(cuts, edges, n)
            ELSE Paths(edges, n) = {}

(* The two walks over the lattice agree with the ways to cut the text. *)
LatticeIsExact == CountsAreExact /\ SamplesArePaths
================================================================================
