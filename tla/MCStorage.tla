------------------------------- MODULE MCStorage -------------------------------
(***************************************************************************)
(* The two parts that keep what they have on a disk: a behaviour is one of *)
(* a StreamingChunkCounter in its directory, or one of tokenizer files in  *)
(* theirs.                                                                 *)
(***************************************************************************)
EXTENDS ChunkCounter, TokenizerFiles

VARIABLE part   \* "counter" or "files"

storageVars == <<part, vars, filesVars>>

StorageInit == part \in {"counter", "files"} /\ Init /\ FilesInit

StorageNext ==
    \/ part = "counter" /\ Next /\ UNCHANGED <<part, filesVars>>
    \/ part = "files" /\ FilesNext /\ UNCHANGED <<part, vars>>

(* A call of finalize() runs on; nothing is promised of saves and loads. *)
StorageSpec ==
    /\ StorageInit /\ [][StorageNext]_storageVars
    /\ WF_vars(CascadeBatch \/ CascadeFails \/ FinalPass \/ FinalFails)

--------------------------------------------------------------------------------
(* A chunk that is never put in stands between the last two of the three   *)
(* that are: with an index entry for every second record, a file of three  *)
(* has a second entry, and chunks at, between and behind its entries.      *)
MCAdds == {1, 2} \X {1}
MCSets == {<<4, 2>>}

(* Tokenizers with an engine that has a name, and ids in another order than*)
(* the strings; with ids that leave a hole; with a token that has no id;   *)
(* with a score that is no 32-bit float; and with settings that            *)
(* load_binary refuses.                                                    *)
Tokenizer(vocab, ids, settings, engine) ==
    [vocab |-> vocab, ids |-> ids, settings |-> settings, engine |-> engine]
A == "a"
B == "b"
Two(atA, atB) == [token \in {A, B} |-> IF token = A THEN atA ELSE atB]
One(atA) == [token \in {A} |-> atA]

MCTokenizers ==
    {Tokenizer(Two(1, 1), Two(0, 1), "plain", "fast"),
     Tokenizer(Two(2, 1), Two(1, 0), "plain", Custom),
     Tokenizer(Two(1, 1), Two(0, 2), "plain", Nothing),
     Tokenizer(Two(1, 1), One(0), "plain", Nothing),
     Tokenizer(One(3), One(0), "plain", Nothing),
     Tokenizer(One(1), One(0), "odd", "fast")}

(* 2 is no 32-bit float, but 20 is, and is near. *)
MCSingle(score) == IF score = 2 THEN 20 ELSE score
================================================================================
