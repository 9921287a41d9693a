-------------------------------- MODULE CemRule --------------------------------
(***************************************************************************)
(* What CrossEntropyMerging.optimize promises: every merge is of the pair  *)
(* with the best score over all streams as they are then, counted anew,    *)
(* and is made in every stream (uniqtoken/cem_merger.py:26).               *)
(***************************************************************************)
EXTENDS CemPairs

VARIABLES
    call,
    streams,
    probs,    \* log probabilities of the vocabulary and the merged tokens
    merges,   \* the records of the merges
    stage     \* "idle", "merging" or "merged"

ruleVars == <<call, streams, probs, merges, stage>>

RuleInit == stage = "idle" /\ merges = <<>>

Begin ==
    /\ stage = "idle"
    /\ stage' = "merging"
    /\ streams' = StreamsOf(call')
    /\ probs' = call'.logProb
    /\ UNCHANGED merges

StrataOfCall == {Stratum(call, s) : s \in DOMAIN streams}

(* How often p is in the streams, for the strata that have it. *)
CountIn(p, st) ==
    MapThenSumSet(LAMBDA s : Occurrences(streams[s], p), {s \in DOMAIN streams : Stratum(call, s) = st})

RecountedPairs ==
    [p \in UNION {PairsOf(streams[s]) : s \in DOMAIN streams} |->
        [st \in {st \in StrataOfCall : CountIn(p, st) > 0} |-> CountIn(p, st)]]

(* A stratum that began without pairs is none of those that count. *)
StrataWithPairs ==
    {Stratum(call, s) : s \in {s \in DOMAIN StreamsOf(call) : Len(StreamsOf(call)[s]) > 1}}

RecountedTotals ==
    [st \in StrataWithPairs |->
        MapThenSumSet(LAMBDA s : Len(streams[s]) - 1, {s \in DOMAIN streams : Stratum(call, s) = st})]

Merge ==
    /\ stage = "merging" /\ Len(merges) < call.maxMerges
    /\ LET pairs == RecountedPairs
           best == BestPair(call, probs, pairs, RecountedTotals)
       IN  /\ best # None
           /\ streams' = [s \in DOMAIN streams |-> MergeIn(streams[s], best)]
           /\ probs' = [t \in DOMAIN probs \cup {Joined(best)} |->
                           IF t \in DOMAIN probs THEN probs[t]
                           ELSE LogRatio(Total(pairs[best]), Total(RecountedTotals))]
           /\ merges' = Append(merges, MergeRecord(best, pairs[best]))
    /\ UNCHANGED <<call, stage>>

Stop ==
    /\ stage = "merging"
    /\ \/ Len(merges) = call.maxMerges
       \/ BestPair(call, probs, RecountedPairs, RecountedTotals) = None
    /\ stage' = "merged"
    /\ UNCHANGED <<call, streams, probs, merges>>

RuleNext == Begin \/ Merge \/ Stop

RuleSpec == RuleInit /\ [][RuleNext]_ruleVars
================================================================================
