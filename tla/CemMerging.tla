------------------------------ MODULE CemMerging -------------------------------
(***************************************************************************)
(* CrossEntropyMerging.optimize (uniqtoken/cem_merger.py): counts of pairs *)
(* that are corrected in the streams a merge touches, one stream a step.   *)
(* The heap is built anew for every merge, so that what is pushed while    *)
(* the counts change is never looked at.                                   *)
(***************************************************************************)
EXTENDS CemPairs, Bags

VARIABLES
    call,
    streams,
    pairCounts,     \* bag of pairs
    pairStrata,     \* pair -> bag of strata
    pairToStreams,  \* pair -> the streams it is in
    totals,         \* stratum -> number of pairs; kept at 0
    totalPairs,
    probs,
    merges,
    pending,        \* streams that the merge in progress has yet to touch
    stage,          \* "idle", "merging", "updating" or "merged"
    tokenIds        \* token_to_id of the model returned

cemVars == <<call, streams, pairCounts, pairStrata, pairToStreams, totals, totalPairs, probs, merges, pending,
             stage, tokenIds>>

NoPairs == [p \in {} |-> 0]

CemInit ==
    /\ call = None /\ streams = NoPairs
    /\ pairCounts = NoPairs /\ pairStrata = NoPairs /\ pairToStreams = NoPairs
    /\ totals = NoPairs /\ totalPairs = 0
    /\ probs = NoPairs /\ merges = <<>> /\ pending = {}
    /\ stage = "idle" /\ tokenIds = NoPairs

StreamPairs(stream) == [p \in PairsOf(stream) |-> Occurrences(stream, p)]

(* The index, over all streams. *)
BeginMerging(c, ids) ==
    LET all == StreamsOf(c)
        in(p) == {s \in DOMAIN all : p \in PairsOf(all[s])}
        pairs == UNION {PairsOf(all[s]) : s \in DOMAIN all}
        count(p, from) == MapThenSumSet(LAMBDA s : Occurrences(all[s], p), from)
        of(st, from) == {s \in from : Stratum(c, s) = st}
        paired == {s \in DOMAIN all : Len(all[s]) > 1}
    IN  /\ stage = "idle"
        /\ call' = c /\ streams' = all /\ probs' = c.logProb /\ tokenIds' = ids
        /\ pairCounts' = [p \in pairs |-> count(p, in(p))]
        /\ pairStrata' = [p \in pairs |->
                [st \in {Stratum(c, s) : s \in in(p)} |-> count(p, of(st, in(p)))]]
        /\ pairToStreams' = [p \in pairs |-> in(p)]
        /\ totals' = [st \in {Stratum(c, s) : s \in paired} |->
                MapThenSumSet(LAMBDA s : Len(all[s]) - 1, of(st, paired))]
        /\ totalPairs' = MapThenSumSet(LAMBDA s : Len(all[s]) - 1, paired)
        /\ stage' = "merging"
        /\ UNCHANGED <<merges, pending>>

CanMerge == Len(merges) < call.maxMerges /\ totalPairs > 0

Best == BestPair(call, probs, pairStrata, totals)

PickPair ==
    /\ stage = "merging" /\ CanMerge /\ Best # None
    /\ probs' = [t \in DOMAIN probs \cup {Joined(Best)} |->
                    IF t \in DOMAIN probs THEN probs[t] ELSE LogRatio(pairCounts[Best], totalPairs)]
    /\ merges' = Append(merges, MergeRecord(Best, pairStrata[Best]))
    /\ pending' = pairToStreams[Best]
    /\ stage' = "updating"
    /\ UNCHANGED <<call, streams, pairCounts, pairStrata, pairToStreams, totals, totalPairs, tokenIds>>

Pair == merges[Len(merges)].pair

(* The bags of strata, once a stream of stratum st has lost and gained     *)
(* pairs.                                                                  *)
StrataAfter(st, gone, new) ==
    LET of(p) == IF p \in DOMAIN pairStrata THEN pairStrata[p] ELSE EmptyBag
        after(p) == (of(p) (-) [s \in {st : x \in {p} \cap DOMAIN gone} |-> gone[p]])
                        (+) [s \in {st : x \in {p} \cap DOMAIN new} |-> new[p]]
    IN  [p \in {p \in DOMAIN pairStrata \cup DOMAIN new : after(p) # EmptyBag} |-> after(p)]

BugStreamsAfter(s, gone, new) ==
    [p \in DOMAIN pairToStreams \cup DOMAIN new |->
        (IF p \in DOMAIN pairToStreams THEN pairToStreams[p] ELSE {s}) \ (IF p \in DOMAIN gone THEN {s} ELSE {})]

(* A pair that has left its last stream keeps an empty entry. *)
StreamsAfter(s, gone, new) ==
    [p \in DOMAIN pairToStreams \cup DOMAIN new |->
        ((IF p \in DOMAIN pairToStreams THEN pairToStreams[p] ELSE {}) \ (IF p \in DOMAIN gone THEN {s} ELSE {}))
            \cup (IF p \in DOMAIN new THEN {s} ELSE {})]

UpdateStream(s) ==
    /\ stage = "updating" /\ s \in pending
    /\ LET old == streams[s]
           made == MergeIn(old, Pair)
           gone == StreamPairs(old)
           new == StreamPairs(made)
           st == Stratum(call, s)
       IN  /\ streams' = [streams EXCEPT ![s] = made]
           /\ pairCounts' = (pairCounts (-) gone) (+) new
           /\ pairStrata' = StrataAfter(st, gone, new)
           /\ pairToStreams' = StreamsAfter(s, gone, new)
           /\ totals' = [totals EXCEPT ![st] = @ - (Len(old) - 1) + (Len(made) - 1)]
           /\ totalPairs' = totalPairs - (Len(old) - 1) + (Len(made) - 1)
    /\ pending' = pending \ {s}
    /\ UNCHANGED <<call, probs, merges, stage, tokenIds>>

EndMerge ==
    /\ stage = "updating" /\ pending = {}
    /\ pairCounts' = [p \in DOMAIN pairCounts \ {Pair} |-> pairCounts[p]]
    /\ pairStrata' = [p \in DOMAIN pairStrata \ {Pair} |-> pairStrata[p]]
    /\ pairToStreams' = [p \in DOMAIN pairToStreams \ {Pair} |-> pairToStreams[p]]
    /\ stage' = "merging"
    /\ UNCHANGED <<call, streams, totals, totalPairs, probs, merges, pending, tokenIds>>

(* New ids follow the largest one, in the order of the merges. *)
ExtendedIds ==
    LET next == Max({tokenIds[t] : t \in DOMAIN tokenIds} \cup {-1}) + 1
        added == {Joined(merges[k].pair) : k \in DOMAIN merges}
    IN  [t \in DOMAIN tokenIds \cup added |->
            IF t \in added THEN next - 1 + CHOOSE k \in DOMAIN merges : Joined(merges[k].pair) = t
            ELSE tokenIds[t]]

FinishMerging ==
    /\ stage = "merging" /\ (~CanMerge \/ Best = None)
    /\ tokenIds' = ExtendedIds
    /\ stage' = "merged"
    /\ UNCHANGED <<call, streams, pairCounts, pairStrata, pairToStreams, totals, totalPairs, probs, merges, pending>>

CemNext ==
    \/ PickPair
    \/ \E s \in pending : UpdateStream(s)
    \/ EndMerge
    \/ FinishMerging

(* The merge in progress is made at once. *)
Rule == INSTANCE CemRule WITH
    streams <- [s \in DOMAIN streams |-> IF s \in pending THEN MergeIn(streams[s], Pair) ELSE streams[s]],
    stage <- IF stage = "updating" THEN "merging" ELSE stage
================================================================================
