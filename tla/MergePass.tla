-------------------------------- MODULE MergePass --------------------------------
(***************************************************************************)
(* SuperBpePassV1, what every engine for SuperBPE merges promises          *)
(* (uniqtoken/merge_engine.py, document_semantic_invariants): passes from  *)
(* left to right fuse admitted pairs; a fused group waits for the next     *)
(* pass; a pair that dropout skips stays blocked until one of its groups   *)
(* changes; the passes end when nothing is left to fuse.                   *)
(***************************************************************************)
EXTENDS MergePairs

VARIABLES
    input,    \* the arguments of the call
    bounds,   \* boundaries of the groups
    blocked,  \* pairs that dropout skipped, of groups that have not changed
    at,       \* the pair whose turn it is, or None
    drawn,    \* decisions consumed
    outcome   \* "running", "plan" or "DecisionError"

vars == <<input, bounds, blocked, at, drawn, outcome>>

Init ==
    /\ input \in Inputs
    /\ bounds = 0..input.leaves
    /\ blocked = {}
    /\ at = Turn(input, bounds, {}, 0)
    /\ drawn = 0
    /\ outcome = "running"

Visit == outcome = "running" /\ at # None

Draw == /\ input.dropping => drawn < input.tape
        /\ drawn' = IF input.dropping THEN drawn + 1 ELSE drawn

Fuse ==
    /\ Visit /\ Draw
    /\ bounds' = bounds \ {at[2]}
    /\ blocked' = {t \in blocked : Adjacent(bounds', t)}
    /\ at' = Turn(input, bounds', blocked', at[3])
    /\ UNCHANGED <<input, outcome>>

Drop ==
    /\ Visit /\ input.dropping /\ Draw
    /\ blocked' = blocked \cup {at}
    /\ at' = Turn(input, bounds, blocked', at[2])
    /\ UNCHANGED <<input, bounds, outcome>>

Exhaust ==
    /\ Visit /\ input.dropping /\ drawn = input.tape
    /\ outcome' = "DecisionError"
    /\ UNCHANGED <<input, bounds, blocked, at, drawn>>

Finish ==
    /\ outcome = "running" /\ at = None
    /\ outcome' = "plan"
    /\ UNCHANGED <<input, bounds, blocked, at, drawn>>

Next == Fuse \/ Drop \/ Exhaust \/ Finish

Spec == Init /\ [][Next]_vars
================================================================================
