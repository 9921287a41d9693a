------------------------------ MODULE BpeTraining ------------------------------
(***************************************************************************)
(* BPETrainer.train with its FlatBucketQueue (uniqtoken/bpe_trainer.py).   *)
(* One step is an iteration of the loop in pop_max, or one affected word   *)
(* of a merge; the words come in the order of a set, that is in any order. *)
(* Counts that are 0 stand for absent keys.  Equal entries of a heap are   *)
(* one: a second one is always stale, as every return of a pair to a       *)
(* bucket pushes it anew.                                                  *)
(***************************************************************************)
EXTENDS BpePairs, Functions

CONSTANT Inputs  \* what train may be called with

ASSUME BpeInputsAssumption == \A in \in Inputs : IsInput(in)

VARIABLES
    input, vocab, splits, merges, outcome,  \* as in BpeRule
    pairCounts,   \* pair_counts
    pairToWords,  \* pair_to_words
    counts,       \* the queue's _counts
    buckets,      \* _buckets: frequency -> pairs
    heaps,        \* _bucket_heaps: frequency -> pairs, the least one first
    maxFreq,      \* _max_freq
    best,         \* best_pair of the merge that is under way, or None
    todo          \* affected_words still to do

queue == <<counts, buckets, heaps, maxFreq>>
vars == <<input, vocab, splits, merges, outcome, pairCounts, pairToWords, queue, best, todo>>

Rule == INSTANCE BpeRule WITH
    splits <- IF best = None THEN splits
              ELSE [w \in DOMAIN splits |-> MergeIn(splits[w], best)]

(* Pairs that can ever be adjacent, and frequencies they can have. *)
Pairs(in) ==
    UNION {{<<SubSeq(w, i, j), SubSeq(w, j + 1, k)>> :
                <<i, j, k>> \in {t \in (DOMAIN w) \X (DOMAIN w) \X (DOMAIN w) :
                                    t[1] <= t[2] /\ t[2] < t[3]}} : w \in DOMAIN in.counts}

Frequencies(in) == 1..FoldFunction(LAMBDA x, y : x + y, 0,
                          [w \in DOMAIN in.counts |-> in.counts[w] * Len(w)])

First(Q) == CHOOSE p \in Q : \A q \in Q \ {p} : Sooner(p, q)
Most(S) == CHOOSE n \in S : \A m \in S : m <= n

Init ==
    /\ input \in Inputs
    /\ vocab = input.specials \cup UNION {{<<w[i]>> : i \in DOMAIN w} : w \in DOMAIN input.counts}
    /\ splits = [w \in DOMAIN input.counts |-> Letters(w)]
    /\ merges = <<>>
    /\ outcome = IF Cardinality(vocab) > input.target THEN "ValueError" ELSE "training"
    /\ best = None /\ todo = {}
    /\ pairCounts = [p \in Pairs(input) |-> Rule!Count(p)]
    /\ pairToWords = [p \in Pairs(input) |->
                         {w \in DOMAIN splits : p \in PairsOf(splits[w])}]
    /\ counts = pairCounts
    /\ maxFreq = Most({counts[p] : p \in Pairs(input)} \cup {0})
    /\ buckets = [f \in Frequencies(input) |-> {p \in Pairs(input) : counts[p] = f}]
    /\ heaps = buckets

Room == Cardinality(vocab) < input.target /\ Len(merges) < input.merges
Popping == outcome = "training" /\ best = None /\ Room /\ maxFreq > 0

(* An empty bucket, or one with stale entries only, is dropped. *)
ScanDown ==
    /\ Popping
    /\ buckets[maxFreq] = {} \/ heaps[maxFreq] = {}
    /\ buckets' = [buckets EXCEPT ![maxFreq] = {}]
    /\ heaps' = [heaps EXCEPT ![maxFreq] = {}]
    /\ maxFreq' = maxFreq - 1
    /\ UNCHANGED <<input, vocab, splits, merges, outcome, pairCounts, pairToWords,
                   counts, best, todo>>

Top == First(heaps[maxFreq])
HasTop == Popping /\ buckets[maxFreq] # {} /\ heaps[maxFreq] # {}

DiscardStale ==
    /\ HasTop /\ Top \notin buckets[maxFreq]
    /\ heaps' = [heaps EXCEPT ![maxFreq] = @ \ {Top}]
    /\ UNCHANGED <<input, vocab, splits, merges, outcome, pairCounts, pairToWords,
                   counts, buckets, maxFreq, best, todo>>

(* The end of pop_max: a live pair leaves the queue. *)
PopMax ==
    /\ HasTop /\ Top \in buckets[maxFreq]
    /\ counts' = [counts EXCEPT ![Top] = 0]
    /\ LET bucket == buckets[maxFreq] \ {Top}
       IN  /\ buckets' = [buckets EXCEPT ![maxFreq] = bucket]
           /\ heaps' = [heaps EXCEPT ![maxFreq] = IF bucket = {} THEN {} ELSE @ \ {Top}]
           /\ maxFreq' = IF bucket = {} THEN maxFreq - 1 ELSE maxFreq
    /\ UNCHANGED <<input, splits>>

(* Another pair has made the same token before. *)
DropPair ==
    /\ PopMax
    /\ pairCounts[Top] >= 1 /\ Joined(Top) \in vocab
    /\ pairCounts' = [pairCounts EXCEPT ![Top] = 0]
    /\ pairToWords' = [pairToWords EXCEPT ![Top] = {}]
    /\ UNCHANGED <<vocab, merges, outcome, best, todo>>

BeginMerge ==
    /\ PopMax
    /\ pairCounts[Top] >= 1 /\ Joined(Top) \notin vocab
    /\ merges' = Append(merges, Top)
    /\ vocab' = vocab \cup {Joined(Top)}
    /\ best' = Top
    /\ todo' = pairToWords[Top]
    /\ UNCHANGED <<outcome, pairCounts, pairToWords>>

(* A bug: a pair that is twice in the word is taken away once. *)
BugOncePerWord(c, n, f) == IF c > f THEN c - f ELSE 0

(* A word of frequency f loses n times a pair counted c: below 0 the pair   *)
(* is dropped.  Then it gains the pair m times.  Each loss and each gain is *)
(* an update of its own, so that entries at the counts passed go stale.     *)
Lowered(c, n, f) == IF c > n * f THEN c - n * f ELSE 0
Passed(c, n, m, f) ==
    ({c - j * f : j \in {j \in 1..n : j * f < c}}
        \cup {Lowered(c, n, f) + j * f : j \in 1..m})

UpdateQueue(old, new, f) ==
    LET P == PairsOf(old) \cup PairsOf(new)
        after == [p \in P |-> Lowered(counts[p], Occurrences(old, p), f)
                                 + Occurrences(new, p) * f]
        passed == [p \in P |-> Passed(counts[p], Occurrences(old, p), Occurrences(new, p), f)]
    IN  /\ counts' = [p \in DOMAIN counts |-> IF p \in P THEN after[p] ELSE counts[p]]
        /\ buckets' = [x \in DOMAIN buckets |->
                          (buckets[x] \ P) \cup {p \in P : after[p] = x}]
        /\ heaps' = [x \in DOMAIN heaps |-> heaps[x] \cup {p \in P : x \in passed[p]}]
        /\ maxFreq' = Most({maxFreq} \cup UNION {passed[p] : p \in P})

MergeWord(w) ==
    /\ outcome = "training" /\ w \in todo
    /\ LET old == splits[w]
           new == MergeIn(old, best)
           f == input.counts[w]
       IN  /\ splits' = [splits EXCEPT ![w] = new]
           /\ pairCounts' = [p \in DOMAIN pairCounts |->
                   Lowered(pairCounts[p], Occurrences(old, p), f) + Occurrences(new, p) * f]
           /\ pairToWords' = [p \in DOMAIN pairToWords |->
                   IF p \in PairsOf(new) THEN pairToWords[p] \cup {w}
                   ELSE IF p \in PairsOf(old) THEN pairToWords[p] \ {w}
                   ELSE pairToWords[p]]
           /\ UpdateQueue(old, new, f)
    /\ todo' = todo \ {w}
    /\ UNCHANGED <<input, vocab, merges, outcome, best>>

EndMerge ==
    /\ outcome = "training" /\ best # None /\ todo = {}
    /\ pairCounts' = [pairCounts EXCEPT ![best] = 0]
    /\ pairToWords' = [pairToWords EXCEPT ![best] = {}]
    /\ best' = None
    /\ UNCHANGED <<input, vocab, splits, merges, outcome, queue, todo>>

(* The queue is empty, or it disagrees with pair_counts. *)
NoPair ==
    \/ maxFreq = 0
    \/ HasTop /\ Top \in buckets[maxFreq] /\ pairCounts[Top] < 1

Finish ==
    /\ outcome = "training" /\ best = None
    /\ ~Room \/ NoPair
    /\ outcome' = "trained"
    /\ UNCHANGED <<input, vocab, splits, merges, pairCounts, pairToWords, queue, best, todo>>

Next ==
    \/ ScanDown \/ DiscardStale \/ DropPair \/ BeginMerge
    \/ \E w \in todo : MergeWord(w)
    \/ EndMerge \/ Finish

Spec == Init /\ [][Next]_vars /\ WF_vars(Next)

================================================================================
