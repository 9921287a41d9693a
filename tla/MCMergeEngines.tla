---------------------------- MODULE MCMergeEngines -----------------------------
(***************************************************************************)
(* The four loops that fuse cross-word tokens, each with the inputs it     *)
(* supports, against the contract they share: a tokenizer calls the engine *)
(* it was given, or its own loop (uniqtoken/tokenizer.py,                  *)
(* _apply_cross_word_merges).  What the chosen engine does not keep stays  *)
(* Unused.                                                                 *)
(***************************************************************************)
EXTENDS MergePairs

VARIABLES
    engine,  \* the engine of the call
    input, drawn, outcome,
    blocked,                            \* all but the native engine
    current, nxt, cursor, accepted,     \* reference and inline
    remap,                              \* inline
    ends, next, prev, u, applied,       \* fast
    nodes, queue, visited, currentPass  \* native

lists == <<current, nxt, cursor>>
links == <<ends, next, prev, u>>
heap == <<nodes, queue, visited, currentPass>>
vars == <<engine, input, drawn, outcome, blocked, accepted, applied,
          lists, remap, links, heap>>

Reference == INSTANCE ReferenceEngine
Fast == INSTANCE FastEngine
Inline == INSTANCE InlineMerges WITH merged <- nxt, i <- cursor, changed <- accepted
Native == INSTANCE NativeEngine

Unused == "unused"
NoLists == current = Unused /\ nxt = Unused /\ cursor = Unused
NoLinks == ends = Unused /\ next = Unused /\ prev = Unused /\ u = Unused
NoHeap == nodes = Unused /\ queue = Unused /\ visited = Unused /\ currentPass = Unused

Init ==
    \/ /\ engine = "reference" /\ Reference!Init
       /\ remap = Unused /\ applied = Unused /\ NoLinks /\ NoHeap
    \/ /\ engine = "fast" /\ Fast!Init
       /\ remap = Unused /\ NoLists /\ NoHeap
    \/ /\ engine = "inline" /\ Inline!Init
       /\ applied = Unused /\ NoLinks /\ NoHeap
    \/ /\ engine = "native" /\ Native!Init
       /\ blocked = Unused /\ accepted = Unused /\ remap = Unused /\ NoLists /\ NoLinks

ApplyReference ==
    /\ engine = "reference" /\ Reference!Next
    /\ UNCHANGED <<engine, remap, applied, links, heap>>

ApplyFast ==
    /\ engine = "fast" /\ Fast!Next
    /\ UNCHANGED <<engine, remap, lists, heap>>

ApplyInline ==
    /\ engine = "inline" /\ Inline!Next
    /\ UNCHANGED <<engine, applied, links, heap>>

ApplyNative ==
    /\ engine = "native" /\ Native!Next
    /\ UNCHANGED <<engine, blocked, accepted, remap, lists, links>>

Next == ApplyReference \/ ApplyFast \/ ApplyInline \/ ApplyNative

(* Every loop is sequential and runs until it returns or raises. *)
Spec == Init /\ [][Next]_vars /\ WF_vars(Next)

--------------------------------------------------------------------------------
(* The groups partition the leaves at every step of every engine, the      *)
(* links and blocks they keep are those of adjacent groups, and            *)
(* applied_merges is what _assert_partition and partition_valid expect.    *)
GroupsPartitionLeaves ==
    /\ engine = "reference" => Reference!Partition
    /\ engine = "fast" => Fast!Partition
    /\ engine = "inline" => Inline!BlocksAreBoundaries
    /\ engine = "native" => Native!Partition

(* What the engine of the call shows of its groups, its blocks and whose   *)
(* turn it is.                                                             *)
ChosenBounds ==
    IF engine = "reference" THEN Reference!Bounds
    ELSE IF engine = "fast" THEN Fast!Bounds
    ELSE IF engine = "inline" THEN Inline!Bounds
    ELSE Native!Bounds

ChosenBlocked ==
    IF engine = "inline" THEN Inline!BlockedPairs
    ELSE IF engine = "native" THEN Native!BlockedPairs
    ELSE blocked

ChosenTurn ==
    IF engine = "reference" THEN Reference!TurnNow
    ELSE IF engine = "fast" THEN Fast!TurnNow
    ELSE IF engine = "inline" THEN Inline!TurnNow
    ELSE Native!TurnNow

Contract == INSTANCE MergePass WITH
    bounds <- ChosenBounds, blocked <- ChosenBlocked, at <- ChosenTurn

(* Whatever the dropout decides, every engine draws for the same pairs in  *)
(* the same order, leaves the same pairs blocked and ends with the same    *)
(* groups and the same number of decisions: all four are SuperBpePassV1.   *)
ImplementsMergePass == Contract!Spec

(* Passes end: every call returns a plan or raises DecisionError. *)
EveryCallEnds == <>(outcome # "running")

--------------------------------------------------------------------------------
(* Every merge table over four leaves with every hard cut in the middle or *)
(* none and every legality predicate that refuses at most one pair, and    *)
(* every table over five leaves; no dropout, a tape that may run out, and  *)
(* one that cannot.                                                        *)
Ranges(n) == {r \in (0..n) \X (0..n) : r[1] + 1 < r[2]}

Calls(n, cuts, legal, dropping, tapes) ==
    [leaves : {n}, table : SUBSET Ranges(n), cuts : cuts, legal : legal,
     dropping : {dropping}, tape : tapes]

Refusing(n) == {Triples(n)} \cup {Triples(n) \ {t} : t \in Triples(n)}

MCInputs ==
    Calls(4, {{}, {2}}, Refusing(4), TRUE, {2, 20})
    \cup Calls(4, {{}, {2}}, Refusing(4), FALSE, {0})
    \cup Calls(5, {{}}, {Triples(5)}, TRUE, {30})
    \cup Calls(1, {{}}, {{}}, FALSE, {0})
================================================================================
