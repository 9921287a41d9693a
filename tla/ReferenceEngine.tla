----------------------------- MODULE ReferenceEngine -----------------------------
(***************************************************************************)
(* ReferenceMergeEngine.apply (uniqtoken/merge_engine.py): one step is one *)
(* iteration of its loops.  A group is the pair of its first leaf and the  *)
(* leaf after its last one.  Inputs have passed _validate.                 *)
(***************************************************************************)
EXTENDS MergePairs, Sequences

VARIABLES
    input,     \* the arguments of the call
    current,   \* the groups the pass goes over
    nxt,       \* the groups it has left behind
    cursor,    \* its position in current, from 1
    accepted,  \* fused pairs of the pass
    blocked,   \* blocked boundary keys (start, mid, end)
    drawn,     \* decisions_consumed
    outcome    \* "running", "plan" or "DecisionError"

vars == <<input, current, nxt, cursor, accepted, blocked, drawn, outcome>>

Init ==
    /\ input \in Inputs
    /\ current = [i \in 1..input.leaves |-> <<i - 1, i>>]
    /\ nxt = <<>> /\ cursor = 1 /\ accepted = 0
    /\ blocked = {}
    /\ drawn = 0
    /\ outcome = "running"

Left == current[cursor]
Right == current[cursor + 1]
Key(i) == <<current[i][1], current[i][2], current[i + 1][2]>>

Eligible ==
    /\ cursor < Len(current)
    /\ Resolves(input, Key(cursor))
    /\ Key(cursor) \notin blocked
    /\ Left[2] \notin input.cuts
    /\ Key(cursor) \in input.legal

(* _release_neighbor_blocks *)
Released ==
    {Key(i) : i \in {j \in {cursor - 1, cursor, cursor + 1} : j > 0 /\ j < Len(current)}}

Keep == nxt' = Append(nxt, Left) /\ cursor' = cursor + 1

(* The last group, or one that is not eligible with the next. *)
Skip ==
    /\ outcome = "running" /\ cursor <= Len(current) /\ ~Eligible
    /\ Keep
    /\ UNCHANGED <<input, current, accepted, blocked, drawn, outcome>>

Visit == outcome = "running" /\ Eligible
Draw == /\ input.dropping => drawn < input.tape
        /\ drawn' = IF input.dropping THEN drawn + 1 ELSE drawn

Drop ==
    /\ Visit /\ input.dropping /\ Draw
    /\ blocked' = blocked \cup {Key(cursor)}
    /\ Keep
    /\ UNCHANGED <<input, current, accepted, outcome>>

Fuse ==
    /\ Visit /\ Draw
    /\ blocked' = blocked \ Released
    /\ nxt' = Append(nxt, <<Left[1], Right[2]>>)
    /\ cursor' = cursor + 2
    /\ accepted' = accepted + 1
    /\ UNCHANGED <<input, current, outcome>>

Exhaust ==
    /\ Visit /\ input.dropping /\ drawn = input.tape
    /\ outcome' = "DecisionError"
    /\ UNCHANGED <<input, current, nxt, cursor, accepted, blocked, drawn>>

EndOfPass == outcome = "running" /\ cursor > Len(current)

(* A bug: the count of a pass is not reset for the next one. *)
BugKeepAccepted ==
    /\ EndOfPass /\ accepted > 0
    /\ current' = nxt /\ nxt' = <<>> /\ cursor' = 1
    /\ UNCHANGED <<input, accepted, blocked, drawn, outcome>>

NextPass ==
    /\ EndOfPass /\ accepted > 0
    /\ current' = nxt /\ nxt' = <<>> /\ cursor' = 1 /\ accepted' = 0
    /\ UNCHANGED <<input, blocked, drawn, outcome>>

Finish ==
    /\ EndOfPass /\ accepted = 0
    /\ outcome' = "plan"
    /\ UNCHANGED <<input, current, nxt, cursor, accepted, blocked, drawn>>

Next == Skip \/ Drop \/ Fuse \/ Exhaust \/ NextPass \/ Finish

Spec == Init /\ [][Next]_vars /\ WF_vars(Next)

--------------------------------------------------------------------------------
(* The groups as they are: those behind the cursor and those ahead.        *)
Groups == nxt \o SubSeq(current, cursor, Len(current))
Bounds == {Groups[i][1] : i \in DOMAIN Groups} \cup {input.leaves}
Position == IF cursor <= Len(current) THEN Left[1] ELSE input.leaves
TurnNow == Turn(input, Bounds, blocked, Position)

(* _assert_partition, at every moment: the groups partition the leaves. *)
Partition ==
    /\ \A i \in DOMAIN Groups :
          /\ Groups[i][1] < Groups[i][2]
          /\ Groups[i][1] = IF i = 1 THEN 0 ELSE Groups[i - 1][2]
    /\ Groups # <<>> => Groups[Len(Groups)][2] = input.leaves
================================================================================
