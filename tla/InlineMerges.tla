------------------------------ MODULE InlineMerges ------------------------------
(***************************************************************************)
(* CustomTokenizer._apply_cross_word_merges and its counterpart with spans *)
(* (uniqtoken/tokenizer.py), the loop a tokenizer without a merge engine   *)
(* uses.  Blocks are positions in the list of the pass, carried over to    *)
(* the next pass by remap.  It has no cuts and no legality predicate, and  *)
(* random() never runs out of decisions.                                   *)
(***************************************************************************)
EXTENDS MergePairs, Sequences

VARIABLES
    input,     \* the arguments of the call
    current,   \* the groups of the pass
    merged,    \* the groups it has left behind
    i,         \* its position in current, from 1
    changed,   \* whether it has fused a pair
    remap,     \* positions in current that were passed -> positions in merged
    blocked,   \* positions whose boundary to the right is blocked
    drawn,     \* decisions taken
    outcome    \* "running" or "plan"

vars == <<input, current, merged, i, changed, remap, blocked, drawn, outcome>>

Supported(in) ==
    /\ in.cuts = {} /\ in.legal = Triples(in.leaves)
    /\ in.dropping => \A t \in in.legal : in.tape >= in.leaves * t[3]

Init ==
    /\ input \in {in \in Inputs : Supported(in)}
    /\ current = [k \in 1..input.leaves |-> <<k - 1, k>>]
    /\ merged = <<>> /\ i = 1 /\ changed = FALSE
    /\ remap = <<>>
    /\ blocked = {} /\ drawn = 0
    /\ outcome = "running"

Pass == outcome = "running" /\ i <= Len(current)

Eligible ==
    /\ i < Len(current) /\ i \notin blocked
    /\ <<current[i][1], current[i + 1][2]>> \in input.table

Keep ==
    /\ merged' = Append(merged, current[i])
    /\ remap' = Append(remap, Len(merged) + 1)
    /\ i' = i + 1

Skip ==
    /\ Pass /\ ~Eligible
    /\ Keep
    /\ UNCHANGED <<input, current, changed, blocked, drawn, outcome>>

Drop ==
    /\ Pass /\ Eligible /\ input.dropping
    /\ drawn' = drawn + 1
    /\ blocked' = blocked \cup {i}
    /\ Keep
    /\ UNCHANGED <<input, current, changed, outcome>>

FusePair ==
    /\ Pass /\ Eligible
    /\ drawn' = IF input.dropping THEN drawn + 1 ELSE drawn
    /\ merged' = Append(merged, <<current[i][1], current[i + 1][2]>>)
    /\ remap' = remap \o <<Len(merged) + 1, Len(merged) + 1>>
    /\ i' = i + 2
    /\ changed' = TRUE
    /\ UNCHANGED <<input, current, outcome>>

Fuse == FusePair /\ blocked' = blocked \ {i - 1, i, i + 1}

EndOfPass == outcome = "running" /\ i > Len(current)

NextPass ==
    /\ EndOfPass /\ changed
    /\ blocked' = {remap[j] : j \in blocked}
    /\ current' = merged /\ merged' = <<>> /\ i' = 1 /\ changed' = FALSE /\ remap' = <<>>
    /\ UNCHANGED <<input, drawn, outcome>>

Finish ==
    /\ EndOfPass /\ ~changed
    /\ outcome' = "plan"
    /\ UNCHANGED <<input, current, merged, i, changed, remap, blocked, drawn>>

Next == Skip \/ Drop \/ Fuse \/ NextPass \/ Finish

Spec == Init /\ [][Next]_vars /\ WF_vars(Next)

--------------------------------------------------------------------------------
Groups == merged \o SubSeq(current, i, Len(current))
Bounds == {Groups[k][1] : k \in DOMAIN Groups} \cup {input.leaves}
Position == IF i <= Len(current) THEN current[i][1] ELSE input.leaves

(* What a blocked position says: the place of the group in Groups, and the *)
(* pair of it and the next.                                                *)
PlaceOf(j) == IF j < i THEN remap[j] ELSE Len(merged) + j - i + 1
BlockedPairs ==
    {<<Groups[k][1], Groups[k][2], Groups[k + 1][2]>> : k \in {PlaceOf(j) : j \in blocked}}
TurnNow == Turn(input, Bounds, BlockedPairs, Position)

(* Every blocked position has a right neighbour. *)
BlocksAreBoundaries == \A j \in blocked : PlaceOf(j) < Len(Groups)
================================================================================
