---------------------------- MODULE UnigramTraining ----------------------------
(***************************************************************************)
(* SeedVocabularyBuilder (uniqtoken/seed_builder.py) and rust_mine_ngrams  *)
(* (seed.rs), and UnigramTrainer.train (uniqtoken/unigram_trainer.py): a   *)
(* seed vocabulary, rounds of expectation maximisation and pruning, ids.   *)
(* A character is a number, a text a sequence of them; a byte token is one *)
(* number that no text has.  Probabilities are left out: which candidates  *)
(* a round takes out is any choice, and so is when the likelihood has      *)
(* converged.                                                              *)
(***************************************************************************)
EXTENDS BpePairs, FiniteSetsExt, Integers

CONSTANTS
    Script,     \* the script of each character, "symbol" if it has none
    Marks,      \* combining marks: they belong to the character before
    SpecialForms, \* texts that begin with <| and end with |>
    ByteTokens, \* all of them
    CjkLimit    \* 4: the longest n-gram of a chunk in a script of ideographs

Entry(source, frequency) == [source |-> source, frequency |-> frequency]

(* What the builder is given: counts, the frequencies of the chunks;       *)
(* specials; target and seedSize, sizes of vocabularies; minFrequency;     *)
(* maxNgram; byteFallback; ranking; entropy, whether there is a bound on   *)
(* the entropy of what is around an n-gram: here, that it varies at all.   *)
CharCount(in, c) ==
    MapThenSumSet(LAMBDA chunk : in.counts[chunk] * Cardinality({i \in DOMAIN chunk : chunk[i] = c}),
                  DOMAIN in.counts)

CollectSpecialTokens(in) == [t \in in.specials |-> Entry("special", 1)]
CollectByteTokens(in) == [t \in IF in.byteFallback THEN ByteTokens ELSE {} |-> Entry("byte", 1)]

(* No token is a mark without the character it belongs to. *)
CollectBaseAlphabet(in) ==
    [t \in {<<c>> : c \in {c \in DOMAIN Script \ Marks : CharCount(in, c) > 0}} |->
        Entry("alphabet", CharCount(in, t[1]))]

(* The first of the three that has a token decides what it is. *)
Required(in) ==
    LET special == CollectSpecialTokens(in)
        byte == CollectByteTokens(in)
        letter == CollectBaseAlphabet(in)
    IN  [t \in DOMAIN special \cup DOMAIN byte \cup DOMAIN letter |->
            IF t \in DOMAIN special THEN special[t] ELSE IF t \in DOMAIN byte THEN byte[t] ELSE letter[t]]

-----------------------------------------------------------------------------
(* A cluster begins at every character but a mark; a mark at the front is  *)
(* a cluster too.                                                          *)
ClusterStarts(chunk) == {i \in DOMAIN chunk : i = 1 \/ chunk[i] \notin Marks}

(* The script of the first character that has one: spaces, the metaspace,  *)
(* private use, punctuation and marks without one are passed over.         *)
DetectScript(token) ==
    LET named == {i \in DOMAIN token : Script[token[i]] # "symbol"}
    IN  IF named = {} THEN "symbol" ELSE Script[token[Min(named)]]

MaxNgramForChunk(in, chunk) ==
    IF DetectScript(chunk) = "cjk" THEN Min({in.maxNgram, CjkLimit}) ELSE in.maxNgram

(* Where the n-grams of a chunk are: whole clusters, none of them a mark   *)
(* that has lost its character.                                            *)
NgramsAt(in, chunk) ==
    IF chunk \in in.specials \cup SpecialForms THEN {}
    ELSE {<<i, j>> \in ClusterStarts(chunk) \X DOMAIN chunk :
            /\ i <= j
            /\ j = Len(chunk) \/ (j + 1) \in ClusterStarts(chunk)
            /\ chunk[i] \notin Marks
            /\ Cardinality(ClusterStarts(chunk) \cap (i..j)) <= MaxNgramForChunk(in, chunk)}

MineNgrams(in) ==
    LET found == {<<chunk, at>> \in (DOMAIN in.counts) \X (UNION {NgramsAt(in, c) : c \in DOMAIN in.counts}) :
                    at \in NgramsAt(in, chunk)}
        text(f) == SubSeq(f[1], f[2][1], f[2][2])
    IN  [token \in {text(f) : f \in found} |->
            MapThenSumSet(LAMBDA f : in.counts[f[1]], {f \in found : text(f) = token})]

(* What is before and after an n-gram, 0 at the ends of a chunk: its       *)
(* entropy is 0 when that is always the same.                              *)
Contexts(in, token) ==
    LET at(chunk) == {a \in NgramsAt(in, chunk) : SubSeq(chunk, a[1], a[2]) = token}
        char(chunk, i) == IF i \in DOMAIN chunk THEN chunk[i] ELSE 0
    IN  [left  |-> UNION {{char(chunk, a[1] - 1) : a \in at(chunk)} : chunk \in DOMAIN in.counts},
         right |-> UNION {{char(chunk, a[2] + 1) : a \in at(chunk)} : chunk \in DOMAIN in.counts}]

Varies(in, token) ==
    Cardinality(Contexts(in, token).left) > 1 /\ Cardinality(Contexts(in, token).right) > 1

FilterCandidates(in, ngrams, protected) ==
    LET kept == {t \in DOMAIN ngrams \ protected :
                    /\ ngrams[t] >= in.minFrequency
                    /\ t[1] \notin Marks
                    /\ in.entropy /\ Len(t) > 1 => Varies(in, t)}
    IN  [t \in kept |-> ngrams[t]]

(* Two of the strategies: what the token saves, or how frequent it is.     *)
RankBefore(in, counts, t, u) ==
    LET score(v) == IF in.ranking = "char_savings" THEN Max({Len(v) - 1, 1}) * counts[v] ELSE counts[v]
    IN  \/ score(t) > score(u)
        \/ score(t) = score(u) /\ counts[t] > counts[u]
        \/ score(t) = score(u) /\ counts[t] = counts[u] /\ Len(t) > Len(u)
        \/ score(t) = score(u) /\ counts[t] = counts[u] /\ Len(t) = Len(u) /\ Less(t, u)

(* Ranks count from 0. *)
RankCandidates(in, counts) ==
    [t \in DOMAIN counts |-> Cardinality({u \in DOMAIN counts : RankBefore(in, counts, u, t)})]

BugSelected(rank, budget) == {t \in DOMAIN rank : rank[t] < budget}

(* Round after round, one candidate of each script, the scripts in the     *)
(* order of their best; budget candidates at most.                         *)
Selected(rank, budget) ==
    LET peers(t) == {u \in DOMAIN rank : DetectScript(u) = DetectScript(t)}
        turn(t) == [round |-> Cardinality({u \in peers(t) : rank[u] < rank[t]}),
                    script |-> Min({rank[u] : u \in peers(t)})]
        turns == {turn(t) : t \in DOMAIN rank}
        sooner(m, n) == m.round < n.round \/ (m.round = n.round /\ m.script < n.script)
    IN  {t \in DOMAIN rank : Cardinality({m \in turns : sooner(m, turn(t))}) < budget}

(* build_seed_vocab in three steps, without its check of the floor: what   *)
(* is mined, how it is ranked, what is taken of it.                        *)
FilteredCandidates(in) == FilterCandidates(in, MineNgrams(in), DOMAIN Required(in))

SeedVocab(in, counts, rank) ==
    LET needed == Required(in)
        chosen == Selected(rank, Max({0, in.seedSize - Cardinality(DOMAIN needed)}))
    IN  [t \in DOMAIN needed \cup chosen |->
            IF t \in DOMAIN needed THEN needed[t] ELSE Entry("ngram", counts[t])]

-----------------------------------------------------------------------------
(* UnigramTrainer.train *)

CONSTANTS
    Inputs,       \* what train may be called with
    SubMax,       \* em_sub_iterations
    SmallExcess,  \* 500: an excess that one round takes out
    LastRound,    \* 3: the round that takes out what is left
    NativeNgram,  \* 16: the core expects from this length of n-grams on
    UnkToken

(* What the constructors of the trainer and of the builder let pass.       *)
IsTrainerInput(in) ==
    /\ in.target \in Nat \ {0} /\ in.seedSize \in Nat
    /\ in.maxNgram \in Nat \ {0} /\ in.minFrequency \in Nat \ {0}
    /\ in.ranking \in {"char_savings", "frequency"}

ASSUME TrainerAssumption == SubMax \in Nat \ {0} /\ \A in \in Inputs : IsTrainerInput(in)

VARIABLES
    input,
    native,   \* whether the core does the expectation step
    candidates,  \* n-gram -> its frequency
    rank,     \* n-gram -> its rank
    seed,     \* the seed vocabulary
    vocab,    \* tokens of the current vocabulary
    round,    \* stands still at LastRound: nothing tells later ones apart
    sub,
    phase,    \* "mine", "rank", "seed", "round", "em", "prune", "ids", "trained", or an error
    ids       \* token_to_id

vars == <<input, native, candidates, rank, seed, vocab, round, sub, phase, ids>>

NoIds == [t \in {} |-> 0]

Init ==
    /\ input \in Inputs
    /\ native \in {n \in BOOLEAN : n => input.maxNgram >= NativeNgram}
    /\ candidates = NoIds /\ rank = NoIds
    /\ seed = [t \in {} |-> Entry("byte", 0)]
    /\ vocab = {}
    /\ round = 1 /\ sub = 0
    /\ phase = "mine"
    /\ ids = NoIds

required == {t \in DOMAIN seed : seed[t].source # "ngram"}

(* The floor is checked before anything is mined. *)
MineCandidates ==
    /\ phase = "mine"
    /\ IF Cardinality(DOMAIN Required(input)) > input.target
       THEN phase' = "ValueError" /\ UNCHANGED candidates
       ELSE phase' = "rank" /\ candidates' = FilteredCandidates(input)
    /\ UNCHANGED <<input, native, rank, seed, vocab, round, sub, ids>>

RankNgrams ==
    /\ phase = "rank"
    /\ rank' = RankCandidates(input, candidates)
    /\ phase' = "seed"
    /\ UNCHANGED <<input, native, candidates, seed, vocab, round, sub, ids>>

BuildSeed ==
    /\ phase = "seed"
    /\ seed' = SeedVocab(input, candidates, rank)
    /\ vocab' = DOMAIN seed'
    /\ phase' = "round"
    /\ UNCHANGED <<input, native, candidates, rank, round, sub, ids>>

StartRound ==
    /\ phase = "round"
    /\ phase' = IF Cardinality(vocab) > input.target THEN "em" ELSE "ids"
    /\ sub' = 0
    /\ UNCHANGED <<input, native, candidates, rank, seed, vocab, round, ids>>

(* Chunks that are special tokens are counted without a lattice. *)
Plain == {chunk \in DOMAIN input.counts : ~(chunk \in SpecialForms \cap required)}

(* The ways to cut a text into tokens; covers(c) is an edge for character  *)
(* c, where there is one besides the tokens.                               *)
Segmentations(text, covers(_)) ==
    LET starts(i) == {j \in i..Len(text) : j - i < input.maxNgram /\ SubSeq(text, i, j) \in vocab}
        from[i \in 1..(Len(text) + 1)] ==
            IF i > Len(text) THEN {<<>>}
            ELSE UNION {{<<SubSeq(text, i, j)>> \o rest : rest \in from[j + 1]} : j \in starts(i)}
                    \cup (IF starts(i) = {}
                          THEN {<<token>> \o rest : token \in covers(text[i]), rest \in from[i + 1]} ELSE {})
    IN  from[1]

(* The lattice has an edge for a character that no token begins with: its  *)
(* byte tokens, or the unknown token.  The core has none, and its error    *)
(* ends the training.  There is something to count: a vocabulary that is   *)
(* too large has n-grams.                                                  *)
CanExpect(chunk) ==
    \/ ~native /\ (input.byteFallback \/ UnkToken \in vocab)
    \/ Segmentations(chunk, LAMBDA c : {}) # {}

ExpectationStep ==
    /\ phase = "em"
    /\ IF \E chunk \in Plain : ~CanExpect(chunk)
       THEN phase' = "Disconnected" /\ UNCHANGED sub
       ELSE /\ sub' = sub + 1
            /\ phase' \in {"em", "prune"}
            /\ phase' = "em" => sub + 1 < SubMax
            /\ phase' = "prune" => sub + 1 = SubMax \/ sub > 0
    /\ UNCHANGED <<input, native, candidates, rank, seed, vocab, round, ids>>

Excess == Cardinality(vocab) - input.target

BugNumToPrune == (Excess * 3) \div 4

(* Three quarters of the excess, prune_rate, at least one token. *)
NumToPrune ==
    IF Excess <= SmallExcess \/ round >= LastRound THEN Excess
    ELSE Max({1, (Excess * 3) \div 4})

BugPrunable == {t \in vocab : Len(t) > 1 \/ seed[t].frequency = 1}

(* Required tokens are immune. *)
Prunable == vocab \ required

Prune ==
    /\ phase = "prune"
    /\ \E removed \in SUBSET Prunable :
        /\ Cardinality(removed) = Min({NumToPrune, Cardinality(Prunable)})
        /\ vocab' = vocab \ removed
    /\ round' = Min({round + 1, LastRound})
    /\ phase' = "round"
    /\ UNCHANGED <<input, native, candidates, rank, seed, sub, ids>>

(* Special tokens first, then byte tokens, then the longest. *)
Kind(t) == IF t \in SpecialForms THEN 0 ELSE IF t \in ByteTokens THEN 1 ELSE 2
IdBefore(t, u) ==
    \/ Kind(t) < Kind(u)
    \/ Kind(t) = Kind(u) /\ Len(t) > Len(u)
    \/ Kind(t) = Kind(u) /\ Len(t) = Len(u) /\ Less(t, u)

BuildIds ==
    /\ phase = "ids"
    /\ ids' = [t \in vocab |-> Cardinality({u \in vocab : IdBefore(u, t)})]
    /\ phase' = "trained"
    /\ UNCHANGED <<input, native, candidates, rank, seed, vocab, round, sub>>

Next == MineCandidates \/ RankNgrams \/ BuildSeed \/ StartRound \/ ExpectationStep \/ Prune \/ BuildIds

(* The loop waits for nothing. *)
Spec == Init /\ [][Next]_vars /\ WF_vars(Next)
================================================================================
