-------------------------------- MODULE BpePairs --------------------------------
(***************************************************************************)
(* Tokens and pairs of byte-pair encoding (uniqtoken/bpe_trainer.py,       *)
(* uniqtoken/bpe_model.py).  A character is a number, so that tokens, its  *)
(* sequences, have the order of Python's strings.                          *)
(***************************************************************************)
EXTENDS Naturals, Sequences, FiniteSets

None == <<>>

(* What train is called with.  counts: the words with their frequencies;   *)
(* specials: tokens that are in the vocabulary before; target: its size,   *)
(* without the byte tokens, which no pair makes; merges: at most so many.  *)
IsInput(in) ==
    /\ \A w \in DOMAIN in.counts : w \in Seq(Nat) /\ in.counts[w] \in Nat \ {0}
    /\ \A s \in in.specials : s \in Seq(Nat)
    /\ in.target \in Nat /\ in.merges \in Nat

Joined(p) == p[1] \o p[2]

PairsOf(syms) == {<<syms[i], syms[i + 1]>> : i \in 1..(Len(syms) - 1)}

(* How often the pair is in the symbols, overlaps counted. *)
Occurrences(syms, p) ==
    Cardinality({i \in 1..(Len(syms) - 1) : syms[i] = p[1] /\ syms[i + 1] = p[2]})

(* The order of strings, and of what a bucket's heap holds. *)
Less(s, t) ==
    \/ Len(s) < Len(t) /\ SubSeq(t, 1, Len(s)) = s
    \/ \E i \in DOMAIN s \cap DOMAIN t : s[i] < t[i] /\ \A j \in 1..(i - 1) : s[j] = t[j]
Sooner(p, q) ==
    \/ Less(Joined(p), Joined(q))
    \/ Joined(p) = Joined(q) /\ Less(p[1], q[1])

(* The pair joined wherever it is, from left to right. *)
MergeIn(syms, p) ==
    LET from[i \in 1..(Len(syms) + 1)] ==
            IF i > Len(syms) THEN <<>>
            ELSE IF i < Len(syms) /\ syms[i] = p[1] /\ syms[i + 1] = p[2]
                 THEN <<Joined(p)>> \o from[i + 2]
                 ELSE <<syms[i]>> \o from[i + 1]
    IN  from[1]

Letters(word) == [i \in 1..Len(word) |-> <<word[i]>>]

(* Ranks count from 1 here; 0 is the rank of a pair that is no merge. *)
Rank(merges, p) ==
    IF \E r \in DOMAIN merges : merges[r] = p THEN CHOOSE r \in DOMAIN merges : merges[r] = p ELSE 0
================================================================================
