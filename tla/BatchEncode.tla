------------------------------- MODULE BatchEncode -------------------------------
(***************************************************************************)
(* The batch functions of CustomTokenizer (uniqtoken/tokenizer.py) on      *)
(* their thread pool, the first batch after the model was changed or       *)
(* loaded: every worker finds the caches of tokenizer and model out of     *)
(* date and renews them, none holding a lock.  A step here is one read or  *)
(* one write of an attribute.  In a free-threaded interpreter any two      *)
(* workers may be at them at once; under the GIL a thread switch needs a   *)
(* call or a return between two accesses.  There is no native core in the  *)
(* process, or it has no batch entry: with it, the batch never reaches the *)
(* pool unless the model has cross-word tokens.                            *)
(*                                                                         *)
(* A row is encoded in order by _sync_model_caches (for _prepare_text),    *)
(* _sync_cache for the memo table, _sync_cache for the trie, and           *)
(* _cross_word_tokens; with offsets, encode_with_spans has a _sync_cache   *)
(* of its own before.  Decoding touches no cache.  ModelCaches has the     *)
(* same calls as single steps, and the mutations, which do not happen      *)
(* during a batch.                                                         *)
(***************************************************************************)
EXTENDS Naturals, Sequences, TLC

CONSTANTS
    Workers,   \* threads of the pool
    Rows,      \* number of texts in the batch
    None

FreeThreaded == "free-threaded"

ASSUME BatchAssumption ==
    /\ Rows \in Nat
    /\ FreeThreaded \notin Workers \cup {None}
    /\ None \notin {"old", "new", "tokens", "ids", "offsets", "text"} \cup Workers

(* The attributes clear_cache tests and deletes, in its order. *)
Keys == <<"_trie", "_seg_cache", "_cache_version">>

VARIABLES
    call,       \* what the rows are for: None until a batch is begun
    pool,       \* who takes rows: the threads of the pool, or the caller
    model,      \* the model's attributes: Keys to "old", "new" or None
    crossWord,  \* _cross_word_set: "old", "new" or None
    signature,  \* _tokenizer_model_signature: "old", "new" or None
    nextRow,    \* the next row the pool hands out
    row,        \* per worker: its row, 0 if none
    pc,         \* per worker: the next access
    holder,     \* under the GIL the worker that cannot be interrupted now, or
                \* None; FreeThreaded for an interpreter without a GIL
    stage,      \* per worker: which of the calls of a row it is in
    seen,       \* per worker: the content of the memo table and trie it got
    result      \* per row: None, "decoded", "merged", "unmerged" or "KeyError"

batch == <<call, pool>>
shared == <<model, crossWord, signature>>
vars == <<batch, shared, nextRow, row, pc, holder, stage, seen, result>>

SyncOf(stg) == IF stg \in {"prepare", "merge"} THEN "compareSignature" ELSE "compareVersion"

(* The accesses that follow the one before them without a call or a return *)
(* in between: the rest of clear_cache once it is entered, the store of    *)
(* _cross_word_set after the comparison, and the load that returns it.     *)
Tests == <<"test _trie", "test _seg_cache", "test _cache_version">>
Deletes == <<"delete _trie", "delete _seg_cache", "delete _cache_version">>

(* A bug: clear_cache deletes a key in a helper, a call after the test.    *)
BugDeleteInHelper ==
    {"resetCrossWord", "returnCrossWord"} \cup {Tests[i] : i \in 2..Len(Tests)}

Uninterrupted ==
    {"resetCrossWord", "returnCrossWord"}
        \cup {Tests[i] : i \in 2..Len(Tests)} \cup {Deletes[i] : i \in DOMAIN Deletes}

(* The first worker finds a model that has changed, or a new one.  A model *)
(* without a cache version has no caches.                                  *)
Init ==
    /\ call = None /\ pool = {}
    /\ crossWord \in {"old", None}
    /\ signature \in {"old", None}
    /\ signature = None => crossWord = None
    /\ model \in [{Keys[i] : i \in DOMAIN Keys} -> {"old", None}]
    /\ model["_cache_version"] = None => model["_trie"] = None /\ model["_seg_cache"] = None
    /\ nextRow = 1
    /\ row = [w \in Workers |-> 0]
    /\ pc = [w \in Workers |-> "take"]
    /\ holder \in {None, FreeThreaded}
    /\ stage = [w \in Workers |-> "prepare"]
    /\ seen = [w \in Workers |-> {}]
    /\ result = [r \in 1..Rows |-> None]

At(w, label) == pc[w] = label /\ holder \in {w, None, FreeThreaded}
Goto(w, label) ==
    /\ pc' = [pc EXCEPT ![w] = label]
    /\ holder' = IF holder = FreeThreaded THEN FreeThreaded
                 ELSE IF label \in Uninterrupted THEN w ELSE None
Stay == UNCHANGED <<batch, nextRow, row, stage, result>>

--------------------------------------------------------------------------------
(* At most 64 rows, or the rows for one worker, are the caller's, one      *)
(* after the other; more go to a pool.                                     *)
Begin(what) ==
    /\ call = None
    /\ call' = what
    /\ pool' \in {Workers} \cup {{w} : w \in Workers}
    /\ UNCHANGED <<shared, nextRow, row, pc, holder, stage, seen, result>>

EncodeBatch == Begin("tokens")
EncodeToIdsBatch == Begin("ids")
EncodeWithOffsetsBatch == Begin("offsets")
DecodeBatch == Begin("text")

(* executor.map: a worker takes the next row. *)
Take(w) ==
    /\ At(w, "take")
    /\ w \in pool
    /\ nextRow <= Rows
    /\ row' = [row EXCEPT ![w] = nextRow]
    /\ nextRow' = nextRow + 1
    /\ stage' = [stage EXCEPT ![w] = "prepare"]
    /\ seen' = [seen EXCEPT ![w] = {}]
    /\ Goto(w, IF call = "text" THEN "decode" ELSE "compareSignature")
    /\ UNCHANGED <<batch, shared, result>>

Enter(w, stg) ==
    /\ stage' = [stage EXCEPT ![w] = stg]
    /\ Goto(w, SyncOf(stg))
    /\ UNCHANGED <<batch, nextRow, row, result>>

Finish(w, res) ==
    /\ result' = [result EXCEPT ![row[w]] = res]
    /\ Goto(w, "take")
    /\ UNCHANGED <<batch, nextRow, row, stage>>

(* The lookup in id_to_token, which no batch changes. *)
Decode(w) ==
    /\ At(w, "decode")
    /\ Finish(w, "decoded")
    /\ UNCHANGED <<shared, seen>>

--------------------------------------------------------------------------------
(* _sync_model_caches; what _prepare_text reads afterwards is current. *)
AfterSync(w) ==
    IF stage[w] = "prepare" THEN Enter(w, IF call = "offsets" THEN "spans" ELSE "memo")
    ELSE Goto(w, "testCrossWord") /\ Stay

(* A bug: the signature is set before the caches are dropped. *)
BugSignatureFirst(w) ==
    /\ At(w, "compareSignature")
    /\ IF signature = "new" THEN AfterSync(w) /\ UNCHANGED signature
       ELSE Goto(w, "resetCrossWord") /\ Stay /\ signature' = "new"
    /\ UNCHANGED <<model, crossWord, seen>>

CompareSignature(w) ==
    /\ At(w, "compareSignature")
    /\ IF signature = "new" THEN AfterSync(w) ELSE Goto(w, "resetCrossWord") /\ Stay
    /\ UNCHANGED <<shared, seen>>

ResetCrossWord(w) ==
    /\ At(w, "resetCrossWord")
    /\ crossWord' = None
    /\ Goto(w, "setSignature")
    /\ Stay /\ UNCHANGED <<model, signature, seen>>

SetSignature(w) ==
    /\ At(w, "setSignature")
    /\ signature' = "new"
    /\ AfterSync(w)
    /\ UNCHANGED <<model, crossWord, seen>>

--------------------------------------------------------------------------------
(* A chunk that is one known character needs neither memo table nor trie,  *)
(* where there are spans to give.                                          *)
AfterVersion(w) ==
    IF stage[w] = "spans" THEN \E stg \in {"memo", "merge"} : Enter(w, stg)
    ELSE Goto(w, "get") /\ Stay

(* _sync_cache and clear_cache: each key is looked for and then deleted;   *)
(* if another thread deleted it in between, the del raises KeyError, which *)
(* ends the row (and, in the caller's thread, the batch: rows that have    *)
(* not started are cancelled, which is a batch with fewer rows).           *)
CompareVersion(w) ==
    /\ At(w, "compareVersion")
    /\ IF model["_cache_version"] = "new" THEN AfterVersion(w) ELSE Goto(w, Tests[1]) /\ Stay
    /\ UNCHANGED <<shared, seen>>

AfterKey(i) == IF i < Len(Keys) THEN Tests[i + 1] ELSE "stamp"

TestKey(w, i) ==
    /\ At(w, Tests[i])
    /\ Goto(w, IF model[Keys[i]] # None THEN Deletes[i] ELSE AfterKey(i))
    /\ Stay /\ UNCHANGED <<shared, seen>>

DeleteKey(w, i) ==
    /\ At(w, Deletes[i])
    /\ IF model[Keys[i]] = None
       THEN Finish(w, "KeyError") /\ UNCHANGED model
       ELSE /\ model' = [model EXCEPT ![Keys[i]] = None]
            /\ Goto(w, AfterKey(i))
            /\ Stay
    /\ UNCHANGED <<crossWord, signature, seen>>

Stamp(w) ==
    /\ At(w, "stamp")
    /\ model' = [model EXCEPT !["_cache_version"] = "new"]
    /\ AfterVersion(w)
    /\ UNCHANGED <<crossWord, signature, seen>>

(* _get_seg_cache and _get_trie use the object they read or have built.    *)
(* Spans that are in the memo table need no trie.                          *)
KeyOf(stg) == IF stg = "memo" THEN "_seg_cache" ELSE "_trie"
AfterGet(w) ==
    \/ stage[w] = "memo" /\ Enter(w, "trie")
    \/ (stage[w] = "memo" => call = "offsets") /\ Enter(w, "merge")

Get(w) ==
    /\ At(w, "get")
    /\ LET k == KeyOf(stage[w])
       IN  IF model[k] # None
           THEN /\ seen' = [seen EXCEPT ![w] = @ \cup {model[k]}]
                /\ AfterGet(w)
           ELSE Goto(w, "build") /\ Stay /\ UNCHANGED seen
    /\ UNCHANGED shared

Build(w) ==
    /\ At(w, "build")
    /\ model' = [model EXCEPT ![KeyOf(stage[w])] = "new"]
    /\ seen' = [seen EXCEPT ![w] = @ \cup {"new"}]
    /\ AfterGet(w)
    /\ UNCHANGED <<crossWord, signature>>

--------------------------------------------------------------------------------
(* _cross_word_tokens after its sync: the attribute is tested, built if it *)
(* is None, and read again for the return.  The merges are skipped when    *)
(* the set is empty or None.                                               *)
TestCrossWord(w) ==
    /\ At(w, "testCrossWord")
    /\ Goto(w, IF crossWord = None THEN "buildCrossWord" ELSE "returnCrossWord")
    /\ Stay /\ UNCHANGED <<shared, seen>>

BuildCrossWord(w) ==
    /\ At(w, "buildCrossWord")
    /\ crossWord' = "new"
    /\ Goto(w, "returnCrossWord")
    /\ Stay /\ UNCHANGED <<model, signature, seen>>

ReturnCrossWord(w) ==
    /\ At(w, "returnCrossWord")
    /\ IF crossWord = None THEN Finish(w, "unmerged") /\ UNCHANGED seen
       ELSE Finish(w, "merged") /\ seen' = [seen EXCEPT ![w] = @ \cup {crossWord}]
    /\ UNCHANGED shared

--------------------------------------------------------------------------------
(* One access of a worker. *)
Access(w) ==
    \/ Take(w) \/ Decode(w)
    \/ CompareSignature(w) \/ ResetCrossWord(w) \/ SetSignature(w)
    \/ CompareVersion(w)
    \/ \E i \in DOMAIN Keys : TestKey(w, i) \/ DeleteKey(w, i)
    \/ Stamp(w) \/ Get(w) \/ Build(w)
    \/ TestCrossWord(w) \/ BuildCrossWord(w) \/ ReturnCrossWord(w)

Next ==
    \/ EncodeBatch \/ EncodeToIdsBatch \/ EncodeWithOffsetsBatch \/ DecodeBatch
    \/ \E w \in Workers : Access(w)

Spec == Init /\ [][Next]_vars

(* However the workers interleave in renewing the caches, no row is        *)
(* encoded with a memo table, a trie or a cross-word set of the old model. *)
NothingStaleIsUsed == \A w \in Workers : "old" \notin seen[w]

(* And none is left over: once a worker has renewed the caches, what is in *)
(* them stays current, although late workers go on clearing them.          *)
NothingStaleIsLeft ==
    /\ model["_cache_version"] = "new" => "old" \notin {model["_trie"], model["_seg_cache"]}
    /\ signature = "new" => crossWord # "old"

(* What is stale is neither used nor left. *)
NothingStaleSurvives == NothingStaleIsUsed /\ NothingStaleIsLeft

(* Every row is encoded, and with its cross-word merges, or decoded, as    *)
(* one worker does it (tests/test_parallel_batch_scheduling.py:78,         *)
(* "identical output ordering and token content" for all worker counts,    *)
(* there with caches that are warm).  Only the GIL makes it so:            *)
(* clear_cache tests and then deletes, and _cross_word_tokens loads the    *)
(* attribute a second time.                                                *)
BatchMatchesSequential ==
    holder # FreeThreaded =>
        \A r \in 1..Rows : result[r] \in {None, IF call = "text" THEN "decoded" ELSE "merged"}

(* For TLC: the workers are interchangeable. *)
Symmetry == Permutations(Workers)
================================================================================
