-------------------------------- MODULE MergePairs --------------------------------
(***************************************************************************)
(* The arguments of a merge engine for SuperBPE and the pairs it may fuse  *)
(* (uniqtoken/merge_engine.py, contract types).                            *)
(*                                                                         *)
(* Leaves are numbered from 0.  Groups partition them and are given by     *)
(* their boundaries: 0, the number of leaves, and every leaf where a group *)
(* starts.  A pair of adjacent groups is the triple of its boundaries.     *)
(* Texts are the ranges of leaves they stand for.                          *)
(***************************************************************************)
EXTENDS Naturals

CONSTANT Inputs  \* what apply may be called with, see IsInput

Triples(n) == {t \in (0..n) \X (0..n) \X (0..n) : t[1] < t[2] /\ t[2] < t[3]}

(* table: the ranges whose text the merge table knows; cuts: hard cuts;    *)
(* legal: what the legality predicate allows; dropping: whether there are  *)
(* dropout decisions, and tape: how many of them.  Every engine answers a  *)
(* call without leaves at once.                                            *)
IsInput(in) ==
    /\ in.leaves \in Nat \ {0}
    /\ in.table \subseteq (0..in.leaves) \X (0..in.leaves)
    /\ in.cuts \subseteq 1..(in.leaves - 1)
    /\ in.legal \subseteq Triples(in.leaves)
    /\ in.dropping \in BOOLEAN
    /\ in.tape \in Nat

ASSUME InputsAssumption == \A in \in Inputs : IsInput(in)

Resolves(in, t) == <<t[1], t[3]>> \in in.table

Admitted(in) ==
    {t \in Triples(in.leaves) :
        Resolves(in, t) /\ t[2] \notin in.cuts /\ t \in in.legal}

Adjacent(bounds, t) ==
    /\ {t[1], t[2], t[3]} \subseteq bounds
    /\ \A b \in bounds : ~(t[1] < b /\ b < t[2]) /\ ~(t[2] < b /\ b < t[3])

None == <<>>

(* The pair to be fused next: the leftmost of those not blocked, from leaf *)
(* p on, or else from the start again, in the next pass.                   *)
Turn(in, bounds, blocked, p) ==
    LET open == {t \in Admitted(in) : Adjacent(bounds, t) /\ t \notin blocked}
        ahead == {t \in open : t[1] >= p}
        pool == IF ahead # {} THEN ahead ELSE open
    IN  IF pool = {} THEN None
        ELSE CHOOSE t \in pool : \A u \in pool : t[1] <= u[1]
================================================================================
