-------------------------------- MODULE BpeRule --------------------------------
(***************************************************************************)
(* What BPETrainer.train promises: the plain algorithm.  The most frequent *)
(* pair of adjacent symbols that makes a new token is joined everywhere,   *)
(* the first in the order of strings among equals, until the vocabulary    *)
(* is full, all merges are made or no pair is left.                        *)
(***************************************************************************)
EXTENDS BpePairs, Functions

CONSTANT Inputs  \* what train may be called with

VARIABLES
    input,    \* the arguments of the call
    vocab,    \* tokens
    splits,   \* word -> its symbols
    merges,   \* the pairs merged, in the order of their ranks
    outcome   \* "training", "trained" or "ValueError"

vars == <<input, vocab, splits, merges, outcome>>

Init ==
    /\ input \in Inputs
    /\ vocab = input.specials \cup UNION {{<<w[i]>> : i \in DOMAIN w} : w \in DOMAIN input.counts}
    /\ splits = [w \in DOMAIN input.counts |-> Letters(w)]
    /\ merges = <<>>
    /\ outcome = IF Cardinality(vocab) > input.target THEN "ValueError" ELSE "training"

Count(p) ==
    FoldFunction(LAMBDA x, y : x + y, 0,
        [w \in DOMAIN splits |-> input.counts[w] * Occurrences(splits[w], p)])

Room == Cardinality(vocab) < input.target /\ Len(merges) < input.merges

Candidates == {p \in UNION {PairsOf(splits[w]) : w \in DOMAIN splits} : Joined(p) \notin vocab}

Learn ==
    /\ outcome = "training" /\ Room
    /\ LET count == [p \in Candidates |-> Count(p)]
           preferred(p, q) == count[p] > count[q] \/ (count[p] = count[q] /\ Sooner(p, q))
       IN  \E p \in DOMAIN count :
              /\ \A q \in (DOMAIN count) \ {p} : preferred(p, q)
              /\ vocab' = vocab \cup {Joined(p)}
              /\ splits' = [w \in DOMAIN splits |-> MergeIn(splits[w], p)]
              /\ merges' = Append(merges, p)
    /\ UNCHANGED <<input, outcome>>

Finish ==
    /\ outcome = "training"
    /\ ~Room \/ Candidates = {}
    /\ outcome' = "trained"
    /\ UNCHANGED <<input, vocab, splits, merges>>

Next == Learn \/ Finish

Spec == Init /\ [][Next]_vars
================================================================================
