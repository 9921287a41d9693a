--------------------------------- MODULE MCBpe ---------------------------------
(***************************************************************************)
(* BPETrainer.train and then BPEModel._encode_word with the model that it  *)
(* returns: BpeTraining and BpeEncode one after the other.                 *)
(***************************************************************************)
EXTENDS BpeTraining

CONSTANTS
    Words,     \* the words that are encoded
    Unknowns   \* what an unknown letter may become

VARIABLES
    unknown, word, dropout, start, syms, prev, nextPos, alive, heap, counter, phase

Model == INSTANCE BpeEncode

call == <<word, dropout, start, syms, prev, nextPos, alive, heap, counter, phase>>
bpeVars == <<vars, unknown, call>>

BpeInit == Init /\ Model!EncodeInit /\ unknown \in Unknowns

Train == Next /\ UNCHANGED <<unknown, call>>

Encode ==
    /\ outcome = "trained"
    /\ Model!EncodeNext
    /\ UNCHANGED <<vars, unknown>>

(* Neither loop waits for anything. *)
BpeSpec == BpeInit /\ [][Train \/ Encode]_bpeVars /\ WF_bpeVars(Train \/ Encode)

(***************************************************************************)
(* Properties                                                              *)
(***************************************************************************)

(* The buckets, the lazily cleaned heaps and the inverted index together   *)
(* learn exactly the merges of the plain algorithm (bpe_trainer.py:196).   *)
ImplementsBpeRule == Rule!Spec

(* The heap with its stale entries over a linked list joins, and under     *)
(* dropout leaves alone, exactly what rescanning the symbols would         *)
(* (bpe_model.py:123).                                                     *)
ImplementsBpeSegmentation == Model!Segmentation!Spec

(* Training ends, and encoding after it; without dropout a word that was   *)
(* trained on comes out as the symbols it had at the end of training.      *)
EndsAsTrained ==
    <>(\/ outcome = "ValueError"
       \/ /\ phase = "encoded"
          /\ ~dropout /\ word \in DOMAIN splits => Model!Result = splits[word])

--------------------------------------------------------------------------------
(* The model that is checked. *)

Picked ==
    {<<1, 2>>, <<1, 1, 2>>, <<1, 2, 3>>, <<2, 3, 1>>, <<1, 2, 1, 2>>, <<2, 1, 1, 2>>,
     <<1, 1, 1, 1, 1>>, <<1, 1, 2, 1, 2>>, <<1, 2, 2, 1, 2, 1>>, <<1, 2, 3, 1, 2, 3>>}

Corpora(W, F) == UNION {[D -> F] : D \in W}
Two == {{v, w} : v, w \in Picked}
Three == {{u, v, w} : u, v, w \in Picked}

MCInputs ==
    [counts : Corpora(Two, {1, 2}), specials : {{}, {<<1, 2>>}}, target : {9}, merges : {9}]
        \cup [counts : Corpora(Three, {1}), specials : {{}}, target : {2, 6}, merges : {2, 9}]

MCWords == Picked \cup {<<>>, <<2>>, <<1, 4, 2, 1>>}
MCUnknowns == {<<>>, << <<0>>, <<0>> >>}
================================================================================
