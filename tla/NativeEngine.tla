------------------------------ MODULE NativeEngine ------------------------------
(***************************************************************************)
(* The native merge engine (crates/uniqtoken_core/src/merge_engine.rs,     *)
(* apply, called by uniqtoken/native_merge_engine.py): a heap of candidate *)
(* pairs instead of passes over the groups.  Candidates carry the          *)
(* generations of their nodes and are dropped when they are stale.  Equal  *)
(* candidates in the heap are one here: the second is refused as visited.  *)
(***************************************************************************)
EXTENDS MergePairs, Integers, FiniteSets

VARIABLES
    input,        \* the arguments of the call
    nodes,        \* leaf -> [end, prev, next, generation, alive]
    queue,        \* candidates <<pass, left, right, generation, generation>>
    visited,      \* leaf -> the last candidate visited there, without pass and left
    currentPass,  \* current_pass
    applied,      \* fused pairs
    drawn,        \* consumed
    outcome       \* "running", "plan" or "DecisionError"

vars == <<input, nodes, queue, visited, currentPass, applied, drawn, outcome>>

Nil == -1

(* It knows no legality predicate. *)
Supported(in) == in.legal = Triples(in.leaves)

Init ==
    /\ input \in {in \in Inputs : Supported(in)}
    /\ LET n == input.leaves IN
       /\ nodes = [k \in 0..(n - 1) |->
                     [end |-> k + 1, prev |-> k - 1,
                      next |-> IF k = n - 1 THEN Nil ELSE k + 1,
                      generation |-> 0, alive |-> TRUE]]
       /\ queue = {<<0, k, k + 1, 0, 0>> : k \in 0..(n - 2)}
       /\ visited = [k \in 0..(n - 1) |-> None]
    /\ currentPass = 0 /\ applied = 0 /\ drawn = 0
    /\ outcome = "running"

Before(c, d) == \E k \in 1..5 : c[k] < d[k] /\ \A j \in 1..(k - 1) : c[j] = d[j]
Least(Q) == CHOOSE c \in Q : \A d \in Q \ {c} : Before(c, d)

Fresh(c) ==
    /\ c[1] >= currentPass
    /\ nodes[c[2]].alive /\ nodes[c[3]].alive
    /\ nodes[c[2]].generation = c[4] /\ nodes[c[3]].generation = c[5]
    /\ nodes[c[2]].next = c[3] /\ nodes[c[3]].prev = c[2]

Identity(c) == <<c[4], c[3], c[5]>>
Candidate(c) == Fresh(c) /\ visited[c[2]] # Identity(c)
PairOf(c) == <<c[2], nodes[c[2]].end, nodes[c[3]].end>>
Eligible(c) == PairOf(c)[2] \notin input.cuts /\ Resolves(input, PairOf(c))

Top == Least(queue)
Pop == outcome = "running" /\ queue # {}
MarkVisited ==
    /\ visited' = [visited EXCEPT ![Top[2]] = Identity(Top)]
    /\ currentPass' = Top[1]

Discard ==
    /\ Pop /\ ~Candidate(Top)
    /\ queue' = queue \ {Top}
    /\ UNCHANGED <<input, nodes, visited, currentPass, applied, drawn, outcome>>

Skip ==
    /\ Pop /\ Candidate(Top) /\ ~Eligible(Top)
    /\ queue' = queue \ {Top}
    /\ MarkVisited
    /\ UNCHANGED <<input, nodes, applied, drawn, outcome>>

Visit == Pop /\ Candidate(Top) /\ Eligible(Top)
Draw == /\ input.dropping => drawn < input.tape
        /\ drawn' = IF input.dropping THEN drawn + 1 ELSE drawn

Drop ==
    /\ Visit /\ input.dropping /\ Draw
    /\ queue' = queue \ {Top}
    /\ MarkVisited
    /\ UNCHANGED <<input, nodes, applied, outcome>>

(* enqueue: the pair of the node with the one after it. *)
CandidateAt(N, k, pass) ==
    IF k = Nil \/ N[k].next = Nil THEN {}
    ELSE {<<pass, k, N[k].next, N[k].generation, N[N[k].next].generation>>}

Fused(left, right) ==
    LET after == nodes[right].next
        linked == [nodes EXCEPT
                      ![left] = [@ EXCEPT !.end = nodes[right].end, !.next = after,
                                          !.generation = nodes[left].generation + 1],
                      ![right].alive = FALSE]
    IN  IF after = Nil THEN linked ELSE [linked EXCEPT ![after].prev = left]

(* A bug: the pair of the fused node with the one after it belongs to the  *)
(* same pass.                                                              *)
BugSamePass ==
    /\ Visit /\ Draw
    /\ nodes' = Fused(Top[2], Top[3])
    /\ queue' = (queue \ {Top})
                    \cup CandidateAt(nodes', nodes[Top[2]].prev, Top[1] + 1)
                    \cup CandidateAt(nodes', Top[2], Top[1])
    /\ MarkVisited
    /\ applied' = applied + 1
    /\ UNCHANGED <<input, outcome>>

Fuse ==
    /\ Visit /\ Draw
    /\ nodes' = Fused(Top[2], Top[3])
    /\ queue' = (queue \ {Top})
                    \cup CandidateAt(nodes', nodes[Top[2]].prev, Top[1] + 1)
                    \cup CandidateAt(nodes', Top[2], Top[1] + 1)
    /\ MarkVisited
    /\ applied' = applied + 1
    /\ UNCHANGED <<input, outcome>>

(* The heap ends with the call. *)
Exhaust ==
    /\ Visit /\ input.dropping /\ drawn = input.tape
    /\ outcome' = "DecisionError"
    /\ UNCHANGED <<input, nodes, queue, visited, currentPass, applied, drawn>>

Finish ==
    /\ outcome = "running" /\ queue = {}
    /\ outcome' = "plan"
    /\ UNCHANGED <<input, nodes, queue, visited, currentPass, applied, drawn>>

Next == Discard \/ Skip \/ Drop \/ Fuse \/ Exhaust \/ Finish

Spec == Init /\ [][Next]_vars /\ WF_vars(Next)

--------------------------------------------------------------------------------
Alive == {k \in DOMAIN nodes : nodes[k].alive}
Bounds == Alive \cup {input.leaves}

(* The eligible pairs that were visited as they are, and so dropped. *)
BlockedPairs ==
    {PairOf(<<0, k, nodes[k].next, nodes[k].generation, visited[k][3]>>) :
        k \in {j \in Alive : nodes[j].next # Nil
                 /\ visited[j] = <<nodes[j].generation, nodes[j].next,
                                   nodes[nodes[j].next].generation>>
                 /\ LET t == <<j, nodes[j].end, nodes[nodes[j].next].end>>
                    IN  t[2] \notin input.cuts /\ Resolves(input, t)}}

(* The first candidate of the heap that would be drawn or fused. *)
TurnNow == LET live == {c \in queue : Candidate(c) /\ Eligible(c)}
           IN  IF live = {} THEN None ELSE PairOf(Least(live))

(* partition_valid, at every moment, and links that mirror each other. *)
Partition ==
    /\ \A k \in Alive :
          IF nodes[k].next = Nil THEN nodes[k].end = input.leaves
          ELSE /\ nodes[k].next = nodes[k].end
               /\ nodes[nodes[k].next].alive /\ nodes[nodes[k].next].prev = k
    /\ input.leaves > 0 => nodes[0].alive
    /\ applied = input.leaves - Cardinality(Alive)
================================================================================
