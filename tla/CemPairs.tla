------------------------------- MODULE CemPairs --------------------------------
(***************************************************************************)
(* What CrossEntropyMerging.optimize is called with, and how it scores a   *)
(* pair of tokens (uniqtoken/cem_merger.py).  Logarithms are left out:     *)
(* LogRatio has their order, no more.                                      *)
(***************************************************************************)
EXTENDS BpePairs, FiniteSetsExt, Integers

CONSTANTS
    Space,       \* the character between words
    StreamLimit  \* 200: a stream is closed when it has so many tokens

(* A call: chunks, each with its tokens and its stratum; logProb, the      *)
(* model's vocabulary; unmergeable, the special and the byte tokens;       *)
(* maxLen; crossWord; strategy; minPmi; maxMerges.                         *)

(* Streams are named by their first chunk.  Across words, a stream goes on *)
(* until the stratum changes or the stream is long enough.                 *)
BugFirstChunk(call) ==
    LET first[i \in DOMAIN call.chunks] ==
            IF i = 1 THEN 1
            ELSE LET f == first[i - 1]
                     size == MapThenSumSet(LAMBDA j : Len(call.chunks[j].tokens), f..(i - 1))
                 IN  IF size >= StreamLimit THEN i ELSE f
    IN  IF call.crossWord THEN first ELSE [i \in DOMAIN call.chunks |-> i]

FirstChunk(call) ==
    LET first[i \in DOMAIN call.chunks] ==
            IF i = 1 THEN 1
            ELSE LET f == first[i - 1]
                     size == MapThenSumSet(LAMBDA j : Len(call.chunks[j].tokens), f..(i - 1))
                 IN  IF call.chunks[i].stratum # call.chunks[i - 1].stratum \/ size >= StreamLimit
                     THEN i ELSE f
    IN  IF call.crossWord THEN first ELSE [i \in DOMAIN call.chunks |-> i]

StreamsOf(call) ==
    LET first == FirstChunk(call)
        upTo[i \in 0..Len(call.chunks)] ==
            IF i = 0 THEN <<>>
            ELSE IF first[i] = i THEN call.chunks[i].tokens
            ELSE upTo[i - 1] \o call.chunks[i].tokens
        last(f) == Max({i \in DOMAIN first : first[i] = f})
    IN  [f \in {first[i] : i \in DOMAIN first} |-> upTo[last(f)]]

Stratum(call, s) == call.chunks[s].stratum

Total(counts) == MapThenSumSet(LAMBDA s : counts[s], DOMAIN counts)

-----------------------------------------------------------------------------
LogRatio(f, n) == -(n \div f)

Gain(probs, p, f, n) == f * (probs[p[1]] + probs[p[2]] - LogRatio(f, n))

(* freq and totals say, stratum by stratum, how often the pair is there,   *)
(* and how many pairs are.  Every stratum weighs the same, in place of its *)
(* size to the power strata_alpha; the more strata a pair is in, the more  *)
(* coverage_aware makes of it, in place of their entropy.                  *)
Score(call, probs, freq, totals, p) ==
    LET n == Total(totals)
        present == {s \in DOMAIN freq : freq[s] > 0}
        balanced == MapThenSumSet(LAMBDA s : (n * Gain(probs, p, freq[s], totals[s])) \div totals[s], present)
    IN  IF call.strategy = "global" \/ Cardinality(DOMAIN totals) <= 1
        THEN Gain(probs, p, Total(freq), n)
        ELSE IF call.strategy = "balanced" THEN balanced
        ELSE balanced * Cardinality(present)

(* Across words, only what has a space behind its first character and is   *)
(* not spaces alone.                                                       *)
IsValidPair(call, p) ==
    call.crossWord =>
        /\ \E i \in 2..Len(Joined(p)) : Joined(p)[i] = Space
        /\ \E i \in 1..Len(Joined(p)) : Joined(p)[i] # Space

Mergeable(call, probs, t) == t \in DOMAIN probs \ call.unmergeable

IsCandidate(call, probs, freq, totals, p) ==
    /\ Total(freq) >= 2
    /\ IsValidPair(call, p)
    /\ Mergeable(call, probs, p[1]) /\ Mergeable(call, probs, p[2])
    /\ Len(Joined(p)) <= call.maxLen
    /\ Joined(p) \notin DOMAIN probs \cup call.unmergeable
    /\ LogRatio(Total(freq), Total(totals)) - (probs[p[1]] + probs[p[2]]) >= call.minPmi
    /\ Score(call, probs, freq, totals, p) < 0

(* The order of what the heap holds: score, frequency, pair. *)
Better(p, q, score, f) ==
    \/ score[p] < score[q]
    \/ score[p] = score[q] /\ f[p] > f[q]
    \/ score[p] = score[q] /\ f[p] = f[q] /\ Less(p[1], q[1])
    \/ score[p] = score[q] /\ f[p] = f[q] /\ p[1] = q[1] /\ Less(p[2], q[2])

(* The pair that is merged next; <<>> if there is none. *)
BestPair(call, probs, strataCounts, totals) ==
    LET candidates == {p \in DOMAIN strataCounts : IsCandidate(call, probs, strataCounts[p], totals, p)}
        score == [p \in candidates |-> Score(call, probs, strataCounts[p], totals, p)]
        f == [p \in candidates |-> Total(strataCounts[p])]
    IN  IF candidates = {} THEN None
        ELSE CHOOSE p \in candidates : \A q \in candidates \ {p} : Better(p, q, score, f)

(* MergeRecord: strata are numbers, in the order of their names. *)
MergeRecord(p, freq) ==
    LET most == Max({freq[s] : s \in DOMAIN freq})
    IN  [pair |-> p, strata |-> freq, dominant |-> Min({s \in DOMAIN freq : freq[s] = most})]
================================================================================
