---------------------------- MODULE MCModelTraining ----------------------------
(***************************************************************************)
(* Training a tokenizer as the command line does (uniqtoken/cli.py):       *)
(* UnigramTrainer.train, and CrossEntropyMerging.optimize on its model.    *)
(***************************************************************************)
EXTENDS UnigramTraining, CemMerging, SequencesExt

CONSTANTS
    CemOptions,    \* crossWord, strategy, minPmi and maxMerges
    LogProbOf(_),  \* a log probability for each token of the trained model
    UncoveredAs(_) \* the tokens of a character that is in no token

trainingVars == <<vars, cemVars>>

TrainingInit == Init /\ CemInit

Train == Next /\ UNCHANGED cemVars

(* model.encode: one of the shortest sequences of tokens. *)
Encoding(text) ==
    LET all == Segmentations(text, UncoveredAs)
    IN  IF text \in input.specials THEN <<text>>
        ELSE CHOOSE tokens \in all : \A others \in all : Len(tokens) <= Len(others)

(* input.corpus: the chunks in their order, with their strata. *)
Optimize ==
    /\ phase = "trained"
    /\ \E option \in CemOptions :
        BeginMerging(
            [chunks |-> [i \in DOMAIN input.corpus |->
                            [tokens |-> Encoding(input.corpus[i][1]), stratum |-> input.corpus[i][2]]],
             logProb |-> [t \in vocab |-> LogProbOf(t)],
             unmergeable |-> input.specials \cup ByteTokens,
             maxLen |-> input.maxNgram,
             crossWord |-> option.crossWord, strategy |-> option.strategy,
             minPmi |-> option.minPmi, maxMerges |-> option.maxMerges],
            ids)
    /\ UNCHANGED vars

Merging == CemNext /\ UNCHANGED vars

TrainingNext == Train \/ Optimize \/ Merging

(* No loop waits for anything. *)
TrainingSpec == TrainingInit /\ [][TrainingNext]_trainingVars /\ WF_trainingVars(TrainingNext)

(***************************************************************************)
(* Properties                                                              *)
(***************************************************************************)

(* Training ends, with as many tokens as were asked for or as the seed has *)
(* (unigram_trainer.py:847), and so does the merging of its model.         *)
EndsAtTarget ==
    <>(\/ phase \in {"ValueError", "Disconnected"}
       \/ /\ stage = "merged"
          /\ DOMAIN input.counts # {} =>
                Cardinality(vocab) = Min({input.target, Cardinality(DOMAIN seed)}))

(* Every character that has been seen and is no mark has its token, and so *)
(* has every special and every byte token, whatever the rounds take out    *)
(* (seed_builder.py:35); no token starts with a mark (seed_builder.py:148).*)
RequiredTokensStay ==
    phase \notin {"mine", "rank", "seed", "ValueError"} =>
        /\ DOMAIN Required(input) \subseteq vocab
        /\ \A chunk \in DOMAIN input.counts : \A i \in DOMAIN chunk :
              chunk[i] \in Marks \/ <<chunk[i]>> \in vocab
        /\ \A t \in vocab : t[1] \notin Marks

(* The seed has all the n-grams that there is room for beside the required *)
(* tokens, none if those are too many for it already; and no script is     *)
(* starved by a script with more n-grams: one that is left with candidates *)
(* has got as many as any other, or one less (seed_builder.py:511).        *)
ScriptsAreBalanced ==
    phase = "round" /\ round = 1 =>
        LET ngrams == {t \in DOMAIN seed : seed[t].source = "ngram"}
            got(script) == Cardinality({t \in ngrams : DetectScript(t) = script})
            left == DOMAIN candidates \ ngrams
            room == input.seedSize - Cardinality(DOMAIN Required(input))
        IN  /\ Cardinality(ngrams) = Min({Max({0, room}), Cardinality(DOMAIN candidates)})
            /\ \A t \in left, u \in ngrams : got(DetectScript(t)) >= got(DetectScript(u)) - 1

(* A stream has the text of its chunks, all of one stratum, whatever is    *)
(* merged in it (cem_merger.py:162).                                       *)
StreamsAreIntraStratum ==
    stage # "idle" =>
        LET text(tokens) == FlattenSeq(tokens)
            chunksOf(s) == {i \in DOMAIN call.chunks : i >= s /\ \A r \in DOMAIN streams : r <= s \/ r > i}
            spelled[i \in 0..Len(call.chunks)] ==
                IF i = 0 THEN <<>> ELSE spelled[i - 1] \o text(call.chunks[i].tokens)
        IN  \A s \in DOMAIN streams :
                /\ \A i \in chunksOf(s) : call.chunks[i].stratum = call.chunks[s].stratum
                /\ spelled[s - 1] \o text(streams[s]) = spelled[Max(chunksOf(s))]

(* The counts that are corrected stream by stream are those of the streams *)
(* (cem_merger.py:393).                                                    *)
IndexIsExact ==
    stage \in {"merging", "merged"} =>
        LET pairs == UNION {PairsOf(streams[s]) : s \in DOMAIN streams}
            in(p) == {s \in DOMAIN streams : p \in PairsOf(streams[s])}
        IN  /\ DOMAIN pairCounts = pairs
            /\ \A p \in pairs :
                  /\ pairCounts[p] = MapThenSumSet(LAMBDA s : Occurrences(streams[s], p), in(p))
                  /\ Total(pairStrata[p]) = pairCounts[p]
                  /\ pairToStreams[p] = in(p)
            /\ totalPairs = Total(totals)

(* What merging works on is the corpus, and what it counts is there. *)
StreamsAreExact == StreamsAreIntraStratum /\ IndexIsExact

(* Every merge is the one that counting everything anew would choose, and  *)
(* is made wherever the pair is (cem_merger.py:303).                       *)
ImplementsCemRule == Rule!RuleSpec

(* Merging appends to the ids: the model's tokens keep theirs and no two   *)
(* tokens share one (cem_merger.py:32).                                    *)
IdsArePreserved ==
    stage = "merged" =>
        /\ \A t \in vocab : tokenIds[t] = ids[t]
        /\ \A t, u \in DOMAIN tokenIds : tokenIds[t] = tokenIds[u] => t = u
        /\ DOMAIN tokenIds = DOMAIN probs

(* From the seed to the file, nothing takes a required token out or gives  *)
(* a token another id.                                                     *)
VocabularyIsStable == RequiredTokensStay /\ IdsArePreserved

--------------------------------------------------------------------------------
(***************************************************************************)
(* Characters: 1 and 2 are Latin letters, 3 an ideograph, 4 a combining    *)
(* mark, 5 the space, 6 a bar, these three without a script; 6 1 6 is a    *)
(* special token and 9 stands for all byte tokens.                         *)
(***************************************************************************)
MCScript == [c \in 1..6 |-> IF c \in {1, 2} THEN "latin" ELSE IF c = 3 THEN "cjk" ELSE "symbol"]
MCMarks == {4}
MCSpecialForms == {<<6, 1, 6>>}
MCByteTokens == {<<9>>}
MCUnkToken == <<6, 1, 6>>

CountsOf(corpus) ==
    LET texts == {corpus[i][1] : i \in DOMAIN corpus}
    IN  [t \in texts |-> Cardinality({i \in DOMAIN corpus : corpus[i][1] = t})]

Corpora == {
    <<>>,
    <<<<<<1, 2, 1, 2, 1>>, 1>>, <<<<5, 1, 2>>, 1>>, <<<<1, 2, 1>>, 1>>>>,
    <<<<<<1, 2>>, 1>>, <<<<5, 1, 2>>, 1>>, <<<<5, 1, 2>>, 2>>, <<<<5, 3, 3>>, 2>>, <<<<1, 2>>, 1>>>>,
    <<<<<<3, 3>>, 1>>, <<<<1, 2>>, 1>>, <<<<1, 2>>, 2>>, <<<<3, 3>>, 2>>, <<<<3, 3, 1>>, 2>>>>,
    <<<<<<1, 4, 2>>, 1>>, <<<<1, 4>>, 1>>, <<<<4, 2>>, 2>>, <<<<6, 1, 6>>, 2>>>>}

(* The sizes are of the target and of the seed: the multiplier of the seed *)
(* may be below 1.                                                         *)
Input(corpus, sizes, specials, byteFallback, ranking, entropy, minFrequency) ==
    [corpus |-> corpus, counts |-> CountsOf(corpus), specials |-> specials, target |-> sizes[1],
     seedSize |-> sizes[2], minFrequency |-> minFrequency, maxNgram |-> 3, byteFallback |-> byteFallback,
     ranking |-> ranking, entropy |-> entropy]

Rankings == {<<"char_savings", FALSE, 1>>, <<"char_savings", TRUE, 1>>, <<"frequency", FALSE, 2>>}

(* The last seed is too small for the alphabet, and no ranking matters.    *)
MCInputs ==
    {Input(c, s, sp, b, r[1], r[2], r[3]) :
        c \in Corpora, s \in {<<3, 6>>, <<5, 8>>, <<6, 9>>}, sp \in {{}, {<<6, 1, 6>>}}, b \in BOOLEAN,
        r \in Rankings}
    \cup {Input(c, <<5, 2>>, sp, b, "frequency", FALSE, 1) :
            c \in Corpora, sp \in {{}, {<<6, 1, 6>>}}, b \in BOOLEAN}

Option(crossWord, strategy, minPmi) ==
    [crossWord |-> crossWord, strategy |-> strategy, minPmi |-> minPmi, maxMerges |-> 2]

MCCemOptions ==
    {Option(TRUE, "global", -100), Option(FALSE, "global", 0), Option(TRUE, "balanced", -100),
     Option(FALSE, "coverage_aware", -100)}

MCLogProbOf(t) == -3 - (t[1] % 2)
MCUncoveredAs(c) == {<<9>>}
================================================================================
