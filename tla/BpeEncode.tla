------------------------------- MODULE BpeEncode -------------------------------
(***************************************************************************)
(* BPEModel._encode_word (uniqtoken/bpe_model.py): a heap of candidate     *)
(* pairs over a doubly linked list of symbols.  One step is one iteration  *)
(* of the loop, that is one entry taken from the heap.  Positions count    *)
(* from 1, and 0 stands for -1.                                            *)
(***************************************************************************)
EXTENDS BpePairs, SequencesExt

CONSTANT Words  \* the words to encode

VARIABLES
    vocab, merges,  \* the model
    unknown,        \* what an unknown letter becomes: a sequence of tokens,
                    \* or None for the letter itself
    word, dropout,  \* the call: the word, and whether dropout_prob > 0
    start,          \* symbols
    syms, prev, nextPos, alive,
    heap,           \* entries <<rank, counter, left_idx, right_idx>>
    counter,
    phase           \* "idle", "encoding" or "encoded"

list == <<syms, prev, nextPos, alive>>

EncodeInit ==
    /\ word = <<>> /\ dropout = FALSE /\ start = <<>>
    /\ syms = <<>> /\ prev = <<>> /\ nextPos = <<>> /\ alive = <<>>
    /\ heap = {} /\ counter = 0
    /\ phase = "idle"

(* _build_symbols.  char_to_byte_tokens and the unknown token give symbols *)
(* that are in the vocabulary before training, so that no pair has them.   *)
BuildSymbols(w) ==
    FlattenSeq([i \in 1..Len(w) |->
        IF <<w[i]>> \in vocab \/ unknown = None THEN << <<w[i]>> >> ELSE unknown])

(* The rank of two neighbours, 0 when they are no merge. *)
RankAt(s, l, r) == Rank(merges, <<s[l], s[r]>>)

BeginEncode ==
    /\ phase = "idle"
    /\ \E w \in Words, d \in BOOLEAN : word' = w /\ dropout' = d
    /\ LET s == BuildSymbols(word')
           n == Len(s)
           ranked == {i \in 1..(n - 1) : RankAt(s, i, i + 1) > 0}
       IN  /\ start' = s /\ syms' = s
           /\ prev' = [i \in 1..n |-> i - 1]
           /\ nextPos' = [i \in 1..n |-> IF i < n THEN i + 1 ELSE 0]
           /\ alive' = [i \in 1..n |-> TRUE]
           /\ heap' = {<<RankAt(s, i, i + 1),
                         Cardinality({j \in ranked : j < i}), i, i + 1>> : i \in ranked}
           /\ counter' = Cardinality(ranked)
    /\ phase' = "encoding"

(* A bug: among equal ranks the entry pushed last comes first. *)
BugLastFirst == CHOOSE e \in heap : \A f \in heap : e[1] < f[1] \/ (e[1] = f[1] /\ e[2] >= f[2])

Popped == CHOOSE e \in heap : \A f \in heap : e[1] < f[1] \/ (e[1] = f[1] /\ e[2] <= f[2])

(* A bug: only the list is looked at. *)
BugAdjacentOnly(e) == alive[e[3]] /\ alive[e[4]] /\ nextPos[e[3]] = e[4]

(* The two tests of the loop: an entry is stale when its symbols are gone  *)
(* or joined otherwise, or when they have become another pair.             *)
Live(e) ==
    /\ alive[e[3]] /\ alive[e[4]] /\ nextPos[e[3]] = e[4]
    /\ RankAt(syms, e[3], e[4]) = e[1]

SkipStale ==
    /\ phase = "encoding" /\ heap # {} /\ ~Live(Popped)
    /\ heap' = heap \ {Popped}
    /\ UNCHANGED <<word, dropout, start, list, counter, phase>>

DropCandidate ==
    /\ phase = "encoding" /\ heap # {} /\ Live(Popped) /\ dropout
    /\ heap' = heap \ {Popped}
    /\ UNCHANGED <<word, dropout, start, list, counter, phase>>

(* The entries for the pairs to the left and to the right of the new symbol. *)
Pushed(s, l, r, at) ==
    LET left == l # 0 /\ RankAt(s, l, at) > 0
    IN  {e \in {<<IF l = 0 THEN 0 ELSE RankAt(s, l, at), counter, l, at>>,
                <<IF r = 0 THEN 0 ELSE RankAt(s, at, r), IF left THEN counter + 1 ELSE counter, at, r>>} :
            e[1] > 0}

JoinSymbols ==
    /\ phase = "encoding" /\ heap # {} /\ Live(Popped)
    /\ LET left == Popped[3]
           right == Popped[4]
           rightNext == nextPos[right]
           s == [syms EXCEPT ![left] = @ \o syms[right]]
           new == Pushed(s, prev[left], rightNext, left)
       IN  /\ syms' = s
           /\ alive' = [alive EXCEPT ![right] = FALSE]
           /\ nextPos' = [nextPos EXCEPT ![left] = rightNext]
           /\ prev' = [i \in DOMAIN prev |-> IF i = rightNext THEN left ELSE prev[i]]
           /\ heap' = (heap \ {Popped}) \cup new
           /\ counter' = counter + Cardinality(new)
    /\ UNCHANGED <<word, dropout, start, phase>>

EndEncode ==
    /\ phase = "encoding" /\ heap = {}
    /\ phase' = "encoded"
    /\ UNCHANGED <<word, dropout, start, list, heap, counter>>

EncodeNext == BeginEncode \/ SkipStale \/ DropCandidate \/ JoinSymbols \/ EndEncode

(* The list from its first live position. *)
Result ==
    LET from[i \in 0..Len(syms)] == IF i = 0 THEN <<>> ELSE <<syms[i]>> \o from[nextPos[i]]
    IN  IF syms = <<>> THEN <<>> ELSE from[CHOOSE i \in DOMAIN syms : alive[i] /\ prev[i] = 0]

(* Live pairs with no entry in the heap: those that dropout left alone. *)
LeftAlone ==
    {r \in DOMAIN syms :
        /\ alive[r] /\ prev[r] # 0 /\ RankAt(syms, prev[r], r) > 0
        /\ ~\E e \in heap : e[3] = prev[r] /\ e[4] = r /\ e[1] = RankAt(syms, prev[r], r)}

Segmentation == INSTANCE BpeSegmentation WITH symbols <- Result, dropped <- LeftAlone
================================================================================
