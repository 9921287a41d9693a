---------------------------- MODULE RequestLifecycle ----------------------------
(***************************************************************************)
(* What the stream registry promises a caller, without its dictionaries:   *)
(* a request id is unknown, active or ended, and an ended id becomes       *)
(* unknown only when the registry is cleared or when Capacity other ids    *)
(* have ended: a bounded memory, of which nothing is given up early.       *)
(***************************************************************************)
EXTENDS Naturals, FiniteSets

CONSTANTS Requests, Capacity

VARIABLE phase

Ended == {r \in Requests : phase[r] = "ended"}

Init == phase = [r \in Requests |-> "unknown"]

(* r is registered, by an init or by a token of an unknown id. *)
Open(r) == phase' = [phase EXCEPT ![r] = "active"]

(* r ends, and the memory of ended ids has room for it. *)
EndWithRoom(r) ==
    /\ r \in Ended \/ Cardinality(Ended) < Capacity
    /\ phase' = [phase EXCEPT ![r] = "ended"]

(* r ends, the memory is full, and one older ended id is forgotten. *)
EndAndForget(r, q) ==
    /\ r \notin Ended /\ q \in Ended
    /\ Cardinality(Ended) = Capacity
    /\ phase' = [phase EXCEPT ![r] = "ended", ![q] = "unknown"]

Clear == phase' = [r \in Requests |-> "unknown"]

Next ==
    \/ \E r \in Requests : Open(r) \/ EndWithRoom(r)
    \/ \E r, q \in Requests : EndAndForget(r, q)
    \/ Clear

Spec == Init /\ [][Next]_phase
================================================================================
