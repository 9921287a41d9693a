------------------------------- MODULE FastEngine -------------------------------
(***************************************************************************)
(* FastMergeEngine.apply (uniqtoken/merge_engine.py): the same merges as   *)
(* ReferenceEngine on arrays that link the groups, fused in place.  A      *)
(* group is the slot of its first leaf.                                    *)
(***************************************************************************)
EXTENDS MergePairs, Integers, FiniteSets

VARIABLES
    input,     \* the arguments of the call
    ends,      \* slot -> leaf after the group
    next,      \* next_idx: slot -> slot of the next group, or -1
    prev,      \* prev_idx: slot -> slot of the group before, or -1
    u,         \* slot of the pass, or -1
    accepted,  \* fused pairs of the pass
    applied,   \* total_applied
    blocked,   \* blocked boundary keys (start, mid, end)
    drawn,     \* decisions_consumed
    outcome    \* "running", "plan" or "DecisionError"

vars == <<input, ends, next, prev, u, accepted, applied, blocked, drawn, outcome>>

Nil == -1

Init ==
    /\ input \in Inputs
    /\ LET n == input.leaves
           slots == 0..(n - 1)
       IN  /\ ends = [s \in slots |-> s + 1]
           /\ next = [s \in slots |-> IF s = n - 1 THEN Nil ELSE s + 1]
           /\ prev = [s \in slots |-> s - 1]
    /\ u = 0 /\ accepted = 0 /\ applied = 0
    /\ blocked = {} /\ drawn = 0
    /\ outcome = "running"

v == next[u]
HasPair == u # Nil /\ v # Nil
Key == <<u, ends[u], ends[v]>>

(* is_clean_path: nothing but the table decides. *)
Clean == input.cuts = {} /\ input.legal = Triples(input.leaves) /\ ~input.dropping

Eligible ==
    /\ Resolves(input, Key)
    /\ ~(Clean /\ blocked = {}) =>
           ends[u] \notin input.cuts /\ Key \notin blocked /\ Key \in input.legal

Skip ==
    /\ outcome = "running" /\ HasPair /\ ~Eligible
    /\ u' = v
    /\ UNCHANGED <<input, ends, next, prev, accepted, applied, blocked, drawn, outcome>>

Visit == outcome = "running" /\ HasPair /\ Eligible
Draw == /\ input.dropping => drawn < input.tape
        /\ drawn' = IF input.dropping THEN drawn + 1 ELSE drawn

Drop ==
    /\ Visit /\ input.dropping /\ Draw
    /\ blocked' = blocked \cup {Key}
    /\ u' = v
    /\ UNCHANGED <<input, ends, next, prev, accepted, applied, outcome>>

(* The keys of the pair and of its neighbours, which it changes. *)
Released ==
    {Key} \cup {<<prev[u], ends[prev[u]], ends[u]>> : p \in {prev[u]} \ {Nil}}
          \cup {<<ends[u], ends[v], ends[w]>> : w \in {next[v]} \ {Nil}}

(* A bug: the link back of the group after the pair stays. *)
BugStalePrev ==
    /\ Visit /\ Draw
    /\ ends' = [ends EXCEPT ![u] = ends[v]]
    /\ next' = [next EXCEPT ![u] = next[v]]
    /\ blocked' = blocked \ Released
    /\ u' = next[v]
    /\ accepted' = accepted + 1 /\ applied' = applied + 1
    /\ UNCHANGED <<input, prev, outcome>>

Fuse ==
    /\ Visit /\ Draw
    /\ ends' = [ends EXCEPT ![u] = ends[v]]
    /\ next' = [next EXCEPT ![u] = next[v]]
    /\ prev' = IF next[v] = Nil THEN prev ELSE [prev EXCEPT ![next[v]] = u]
    /\ blocked' = blocked \ Released
    /\ u' = next[v]
    /\ accepted' = accepted + 1 /\ applied' = applied + 1
    /\ UNCHANGED <<input, outcome>>

Exhaust ==
    /\ Visit /\ input.dropping /\ drawn = input.tape
    /\ outcome' = "DecisionError"
    /\ UNCHANGED <<input, ends, next, prev, u, accepted, applied, blocked, drawn>>

EndOfPass == outcome = "running" /\ ~HasPair

NextPass ==
    /\ EndOfPass /\ accepted > 0
    /\ u' = 0 /\ accepted' = 0
    /\ UNCHANGED <<input, ends, next, prev, applied, blocked, drawn, outcome>>

Finish ==
    /\ EndOfPass /\ accepted = 0
    /\ outcome' = "plan"
    /\ UNCHANGED <<input, ends, next, prev, u, accepted, applied, blocked, drawn>>

Next == Skip \/ Drop \/ Fuse \/ Exhaust \/ NextPass \/ Finish

Spec == Init /\ [][Next]_vars /\ WF_vars(Next)

--------------------------------------------------------------------------------
(* The slots that the walk over the result visits: the least set with slot *)
(* 0 and, with every slot, the one after it.                               *)
Linked == {S \in SUBSET DOMAIN next :
               0 \in S /\ \A s \in S : next[s] = Nil \/ next[s] \in S}
Slots == {s \in DOMAIN next : \A S \in Linked : s \in S}
Bounds == Slots \cup {input.leaves}
Position == IF u = Nil THEN input.leaves ELSE u
TurnNow == Turn(input, Bounds, blocked, Position)

(* The links mirror each other, the groups partition the leaves, and       *)
(* applied_merges is the number of leaves less the number of groups.       *)
Partition ==
    /\ \A s \in Slots :
          IF next[s] = Nil THEN ends[s] = input.leaves
          ELSE next[s] = ends[s] /\ prev[next[s]] = s
    /\ applied = input.leaves - Cardinality(Slots)
================================================================================
