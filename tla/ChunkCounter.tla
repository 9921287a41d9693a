------------------------------ MODULE ChunkCounter ------------------------------
(***************************************************************************)
(* StreamingChunkCounter (uniqtoken/streaming_counter.py): counts are kept *)
(* in a buffer, spilled to sorted run files, and merged into one file by   *)
(* the first read, which freezes the counter.  When there are more runs    *)
(* than may be open at once, rounds of a cascade merge batches of them     *)
(* first, and delete the inputs of each batch as they go.                  *)
(*                                                                         *)
(* Any write may fail (a full disk); the exception leaves the call, and    *)
(* the caller may go on using the counter: the next read calls finalize()  *)
(* again.  A signal handler may close the counter in the middle of a call. *)
(* Chunks are numbers in the order of their strings, offsets in a file are *)
(* record numbers, and the buffer's budget is a number of chunks.          *)
(***************************************************************************)
EXTENDS Naturals, Sequences, FiniteSets, SequencesExt

CONSTANTS
    Chunks,           \* the chunks counted, a set of numbers
    ChunkBudgets,     \* numbers of chunks that fit the buffer (chunk_size_bytes)
    MaxOpenRuns,      \* max_open_runs
    SparseIndexStep,  \* sparse_index_step
    Adds,             \* chunk and count of the calls of add
    Sets,             \* chunk and value of the calls of __setitem__
    None,
    MaxWrites,        \* bound: calls of add and __setitem__
    MaxCount,         \* bound: what a chunk's count comes to
    MaxFailures       \* bound: failing writes

ASSUME CounterAssumption ==
    /\ Chunks \subseteq Nat /\ None \notin Nat
    /\ Adds \subseteq Chunks \X (Nat \ {0}) /\ Sets \subseteq Chunks \X Nat
    /\ ChunkBudgets \subseteq Nat \ {0}
    /\ MaxOpenRuns \in Nat \ {0, 1}
    /\ SparseIndexStep \in Nat \ {0}

VARIABLES
    budget,       \* chunks that fit the buffer
    buffer,       \* _buffer: a function from the chunks in it to counts
    runFiles,     \* _run_files: names of files, oldest first
    runCounter,   \* _run_counter
    disk,         \* the files of the directory: name -> sequence of records
    sparseIndex,  \* _sparse_index: pairs of a chunk and its record number
    unique,       \* _total_unique_chunks
    total,        \* _total_frequency
    finalized,    \* _finalized
    merged,       \* whether _merged_file is set
    closed,       \* _closed
    stage,        \* where finalize() is: "idle", "cascade" or "final"
    inputs,       \* finalize(): run_files of the round
    nextRuns,     \* finalize(): next_runs
    at,           \* finalize(): the i of the batch loop
    round,        \* finalize(): cascade_round
    taken,        \* history: what the writes put in, per chunk
    writes,       \* bound: add and __setitem__ calls so far
    failures      \* bound: failing writes so far

stats == <<sparseIndex, unique, total>>
call == <<stage, inputs, nextRuns, at, round>>
history == <<taken, writes>>
vars == <<budget, buffer, runFiles, runCounter, disk, sparseIndex, unique, total, finalized,
          merged, closed, stage, inputs, nextRuns, at, round, taken, writes, failures>>

NoFiles == [n \in {} |-> <<>>]
Run(n) == <<"run", n>>
Cascade(r, i) == <<"cascade", r, i>>
MergedRuns == <<"merged">>

Sum(records) == FoldLeft(LAMBDA acc, rec : acc + rec[2], 0, records)

Ascending(S) ==
    [i \in 1..Cardinality(S) |-> CHOOSE x \in S : Cardinality({y \in S : y < x}) = i - 1]

(* The buffer as a sorted run. *)
Sorted(b) == LET ks == Ascending(DOMAIN b) IN [i \in DOMAIN ks |-> <<ks[i], b[ks[i]]>>]

(* The k-way merge: the smallest chunk at the head of the runs is popped   *)
(* from every run that has it, and its counts are added up.                *)
ChunksOf(file) == {file[i][1] : i \in DOMAIN file}
CountIn(file, k) == Sum(SelectSeq(file, LAMBDA rec : rec[1] = k))
Merge(runs) ==
    LET ks == Ascending(UNION {ChunksOf(runs[i]) : i \in DOMAIN runs})
    IN  [j \in DOMAIN ks |->
            <<ks[j], FoldLeft(LAMBDA acc, run : acc + CountIn(run, ks[j]), 0, runs)>>]

(* The index over a file, on top of what the counters stand at already. *)
Marks(file, start) == {i \in DOMAIN file : (start + i - 1) % SparseIndexStep = 0}
IndexOf(file, start) ==
    [j \in 1..Cardinality(Marks(file, start)) |->
        LET i == Ascending(Marks(file, start))[j] IN <<file[i][1], i - 1>>]

Missing(names) == \E i \in DOMAIN names : names[i] \notin DOMAIN disk
Contents(names) == [i \in DOMAIN names |-> disk[names[i]]]
Keep(names) == [n \in names |-> disk[n]]
WriteFile(files, name, file) == [n \in DOMAIN files \cup {name} |-> IF n = name THEN file ELSE files[n]]

Init ==
    /\ budget \in ChunkBudgets
    /\ buffer = NoFiles
    /\ runFiles = <<>> /\ runCounter = 0
    /\ disk = NoFiles
    /\ sparseIndex = <<>> /\ unique = 0 /\ total = 0
    /\ finalized = FALSE /\ merged = FALSE /\ closed = FALSE
    /\ stage = "idle" /\ inputs = <<>> /\ nextRuns = <<>> /\ at = 0 /\ round = 0
    /\ taken = [k \in Chunks |-> 0] /\ writes = 0
    /\ failures = 0

Idle == /\ inputs' = <<>> /\ nextRuns' = <<>> /\ at' = 0 /\ round' = 0
        /\ stage' = "idle"
Fail == failures < MaxFailures /\ failures' = failures + 1

(* A bug: the buffer is emptied before the run is written. *)
BugClearFirst(b) ==
    /\ runCounter' = runCounter + 1
    /\ buffer' = NoFiles
    /\ \/ /\ disk' = WriteFile(disk, Run(runCounter), Sorted(b))
          /\ runFiles' = Append(runFiles, Run(runCounter))
          /\ UNCHANGED failures
       \/ /\ Fail
          /\ UNCHANGED <<disk, runFiles>>

(* _flush_buffer of the buffer b: it is emptied only when the run is       *)
(* written, and a run whose writing failed is never listed.                *)
FlushBuffer(b) ==
    /\ runCounter' = runCounter + 1
    /\ \/ /\ disk' = WriteFile(disk, Run(runCounter), Sorted(b))
          /\ runFiles' = Append(runFiles, Run(runCounter))
          /\ buffer' = NoFiles
          /\ UNCHANGED failures
       \/ /\ Fail
          /\ buffer' = b
          /\ UNCHANGED <<disk, runFiles>>

(* Put count in the buffer, and spill it when it is full. *)
Store(k, count) ==
    LET b == [l \in DOMAIN buffer \cup {k} |-> IF l = k THEN count ELSE buffer[l]]
    IN  IF Cardinality(DOMAIN b) >= budget
        THEN FlushBuffer(b)
        ELSE buffer' = b /\ UNCHANGED <<runFiles, runCounter, disk, failures>>

Buffered(k) == IF k \in DOMAIN buffer THEN buffer[k] ELSE 0

CanWrite == stage = "idle" /\ ~closed /\ ~finalized /\ writes < MaxWrites

Add(k, count) ==
    /\ CanWrite /\ taken[k] + count <= MaxCount
    /\ Store(k, Buffered(k) + count)
    /\ taken' = [taken EXCEPT ![k] = @ + count]
    /\ writes' = writes + 1
    /\ UNCHANGED <<budget, stats, finalized, merged, closed, call>>

(* __setitem__ replaces what the buffer holds; what was spilled stays. *)
SetItem(k, count) ==
    /\ CanWrite /\ (taken[k] - Buffered(k)) + count <= MaxCount
    /\ Store(k, count)
    /\ taken' = [taken EXCEPT ![k] = (@ - Buffered(k)) + count]
    /\ writes' = writes + 1
    /\ UNCHANGED <<budget, stats, finalized, merged, closed, call>>

(* finalize(), called by the first read: the buffer is spilled, and either *)
(* there is nothing at all or the merging starts.                          *)
StageOf(names) == IF Len(names) > MaxOpenRuns THEN "cascade" ELSE "final"
BeginFinalize ==
    /\ stage = "idle" /\ ~closed /\ ~finalized
    /\ IF buffer # NoFiles THEN FlushBuffer(buffer)
       ELSE UNCHANGED <<buffer, runFiles, runCounter, disk, failures>>
    /\ \/ /\ buffer' = NoFiles /\ runFiles' = <<>>
          /\ finalized' = TRUE
          /\ unique' = 0 /\ total' = 0
          /\ UNCHANGED <<sparseIndex, call>>
       \/ /\ buffer' = NoFiles /\ runFiles' # <<>>
          /\ stage' = StageOf(runFiles')
          /\ inputs' = runFiles'
          /\ UNCHANGED <<stats, finalized, nextRuns, at, round>>
       \/ /\ buffer' # NoFiles   \* the flush failed, and with it the read
          /\ UNCHANGED <<stats, finalized, call>>
    /\ UNCHANGED <<budget, merged, closed, history>>

(* One batch of a cascade round, and the end of the round after the last.  *)
(* Removing an input may fail without effect on the call.                  *)
Batch == SubSeq(inputs, at + 1, IF at + MaxOpenRuns < Len(inputs) THEN at + MaxOpenRuns
                                ELSE Len(inputs))
AfterBatch(name) ==
    IF at + MaxOpenRuns < Len(inputs)
    THEN /\ at' = at + MaxOpenRuns
         /\ nextRuns' = Append(nextRuns, name)
         /\ UNCHANGED <<stage, inputs, round>>
    ELSE /\ inputs' = Append(nextRuns, name)
         /\ stage' = StageOf(inputs')
         /\ nextRuns' = <<>> /\ at' = 0 /\ round' = round + 1

(* Bugs: inputs that are gone are passed over; a batch of one run is put   *)
(* back in the round it comes from.                                        *)
BugSkipMissing ==
    /\ stage = "cascade"
    /\ LET there == SelectSeq(Batch, LAMBDA n : n \in DOMAIN disk)
           out == Cascade(round, at)
           written == WriteFile(disk, out, Merge(Contents(there)))
       IN  /\ disk' = [n \in DOMAIN written \ Range(there) |-> written[n]]
           /\ AfterBatch(out)
    /\ UNCHANGED <<budget, buffer, runFiles, runCounter, stats, finalized, merged, closed, history, failures>>
BugRequeueSingle ==
    /\ stage = "cascade" /\ ~Missing(Batch)
    /\ IF Len(Batch) = 1 THEN UNCHANGED <<call, disk>>
       ELSE LET out == Cascade(round, at)
                written == WriteFile(disk, out, Merge(Contents(Batch)))
            IN  /\ disk' = [n \in DOMAIN written \ Range(Batch) |-> written[n]]
                /\ AfterBatch(out)
    /\ UNCHANGED <<budget, buffer, runFiles, runCounter, stats, finalized, merged, closed, history, failures>>

CascadeBatch ==
    /\ stage = "cascade"
    /\ IF Len(Batch) = 1
       THEN AfterBatch(Batch[1]) /\ UNCHANGED disk
       ELSE /\ ~Missing(Batch)
            /\ LET out == Cascade(round, at)
                   written == WriteFile(disk, out, Merge(Contents(Batch)))
               IN  \E stuck \in {{}, Range(Batch)} :
                     /\ disk' = [n \in DOMAIN written \ (Range(Batch) \ stuck) |-> written[n]]
                     /\ AfterBatch(out)
    /\ UNCHANGED <<budget, buffer, runFiles, runCounter, stats, finalized, merged, closed, history, failures>>

(* A batch whose input is gone, or whose output cannot be written, ends    *)
(* the call with an exception; a part of the output may be there.          *)
CascadeFails ==
    /\ stage = "cascade"
    /\ \/ /\ Len(Batch) > 1 /\ Missing(Batch)
          /\ UNCHANGED <<disk, failures>>
       \/ /\ Len(Batch) > 1 /\ ~Missing(Batch) /\ Fail
          /\ disk' = WriteFile(disk, Cascade(round, at), <<>>)
    /\ Idle
    /\ UNCHANGED <<budget, buffer, runFiles, runCounter, stats, finalized, merged, closed, history>>

(* The last pass: counters and index start afresh and grow with the file.  *)
(* A single run is scanned and renamed, several are merged and removed.    *)
LastFile == IF Len(inputs) = 1 THEN disk[inputs[1]] ELSE Merge(Contents(inputs))
Measure(file, index0, unique0, total0) ==
    /\ sparseIndex' = index0 \o IndexOf(file, unique0)
    /\ unique' = unique0 + Len(file)
    /\ total' = total0 + Sum(file)

FinalPass ==
    /\ stage = "final" /\ ~Missing(inputs)
    /\ Measure(LastFile, <<>>, 0, 0)
    /\ \E stuck \in IF Len(inputs) = 1 THEN {{}} ELSE {{}, Range(inputs)} :
          disk' = [n \in (DOMAIN disk \ (Range(inputs) \ stuck)) \cup {MergedRuns} |->
                     IF n = MergedRuns THEN LastFile ELSE disk[n]]
    /\ merged' = TRUE
    /\ runFiles' = <<MergedRuns>>
    /\ finalized' = TRUE
    /\ Idle
    /\ UNCHANGED <<budget, buffer, runCounter, closed, history, failures>>

(* The pass fails after n records; a single run stays where it is. *)
FinalFails ==
    /\ stage = "final"
    /\ \/ /\ Missing(inputs)
          /\ sparseIndex' = <<>> /\ unique' = 0 /\ total' = 0
          /\ UNCHANGED <<disk, failures>>
       \/ /\ ~Missing(inputs) /\ Fail
          /\ \E n \in 0..Len(LastFile) :
               /\ Measure(SubSeq(LastFile, 1, n), <<>>, 0, 0)
               /\ disk' = IF Len(inputs) = 1 THEN disk
                          ELSE WriteFile(disk, MergedRuns, SubSeq(LastFile, 1, n))
    /\ Idle
    /\ UNCHANGED <<budget, buffer, runFiles, runCounter, finalized, merged, closed, history>>

(* close(): the directory is gone; a call that runs finds out by itself.   *)
Shut ==
    /\ closed' = TRUE
    /\ disk' = NoFiles
    /\ UNCHANGED <<budget, buffer, runFiles, runCounter, stats, finalized, merged, history, failures>>

Close == stage = "idle" /\ ~closed /\ Shut /\ UNCHANGED call

(* The handlers of SIGINT and SIGTERM, if they are installed, close every  *)
(* counter at any moment.  The handler that was there before is called and *)
(* may return, and the call goes on; or KeyboardInterrupt or SystemExit    *)
(* ends it.                                                                *)
HandleSignal ==
    /\ stage = "idle" => ~closed
    /\ Shut
    /\ UNCHANGED call \/ Idle

Finalize == BeginFinalize \/ CascadeBatch \/ CascadeFails \/ FinalPass \/ FinalFails

Next ==
    \/ \E a \in Adds : Add(a[1], a[2])
    \/ \E s \in Sets : SetItem(s[1], s[2])
    \/ Finalize
    \/ Close
    \/ HandleSignal

(* finalize() is sequential code: once called it runs on. *)
Spec == Init /\ [][Next]_vars /\ WF_vars(CascadeBatch \/ CascadeFails \/ FinalPass \/ FinalFails)

--------------------------------------------------------------------------------
(* The scan of a file from an offset: until the chunk or a later one comes.*)
ScanFrom(file, start, k) ==
    LET hits == {p \in (start + 1)..Len(file) :
                    /\ file[p][1] = k
                    /\ \A q \in (start + 1)..(p - 1) : file[q][1] < k}
    IN  IF hits = {} THEN None ELSE file[CHOOSE p \in hits : TRUE][2]

NotAfter(k) == {i \in DOMAIN sparseIndex : sparseIndex[i][1] <= k}

(* A bug: bisect_right without its - 1, and the last entry for want of one.*)
BugStartEntry(k) ==
    IF NotAfter(k) = DOMAIN sparseIndex THEN Len(sparseIndex) ELSE Cardinality(NotAfter(k)) + 1

(* The last index entry at or before the chunk, or the first one. *)
StartEntry(k) == IF NotAfter(k) = {} THEN 1 ELSE Cardinality(NotAfter(k))

(* _lookup_count *)
Lookup(k) ==
    IF ~merged \/ MergedRuns \notin DOMAIN disk \/ sparseIndex = <<>> THEN None
    ELSE ScanFrom(disk[MergedRuns], sparseIndex[StartEntry(k)][2], k)

(* __getitem__ *)
GetItem(k) == IF Lookup(k) = None THEN 0 ELSE Lookup(k)
--------------------------------------------------------------------------------
(* Every complete file is a sorted run of distinct chunks with the counts  *)
(* in range, and the variables have their shapes: a merge that let a chunk *)
(* through twice or out of order would break all later merges and lookups. *)
TypeOK ==
    /\ DOMAIN buffer \subseteq Chunks
    /\ \A n \in DOMAIN disk :
          LET file == disk[n]
          IN  /\ \A i \in DOMAIN file : file[i][1] \in Chunks /\ file[i][2] \in Nat
              /\ \A i \in 1..(Len(file) - 1) : file[i][1] < file[i + 1][1]
    /\ unique \in Nat /\ total \in Nat /\ at \in Nat /\ round \in Nat
    /\ <<finalized, merged, closed>> \in BOOLEAN \X BOOLEAN \X BOOLEAN
    /\ stage \in {"idle", "cascade", "final"}

InRuns(names, k) == FoldLeft(LAMBDA acc, n : acc + CountIn(disk[n], k), 0, names)

(* Nothing is lost or counted twice on the way to the first read: the      *)
(* buffer and the listed runs together hold exactly what was put in, after *)
(* every spill and after every failed one, and a merge that is under way   *)
(* holds it in its own lists.  Only a call that failed after a batch of    *)
(* its cascade was deleted leaves runs listed that are gone.               *)
NothingLost ==
    /\ TypeOK
    /\ ~closed /\ ~finalized =>
        \A k \in Chunks :
            /\ ~Missing(runFiles) => Buffered(k) + InRuns(runFiles, k) = taken[k]
            /\ stage # "idle" /\ ~Missing(SubSeq(inputs, at + 1, Len(inputs))) =>
                  InRuns(nextRuns, k) + InRuns(SubSeq(inputs, at + 1, Len(inputs)), k) = taken[k]

(* A read answers with totals, never with a part of them: whatever failed  *)
(* before, a finalized counter finds every chunk through its sparse index  *)
(* with the count that was put in -- at an entry, between two, behind the  *)
(* last one --, answers 0 for one that was never put in, wherever it would *)
(* stand (streaming_counter.py:467), and its length and total agree.       *)
ReadsAreExact ==
    finalized /\ ~closed =>
        /\ \A k \in Chunks : GetItem(k) = taken[k]
        /\ total = FoldFunction(LAMBDA a, b : a + b, 0, taken)
        /\ unique = IF merged THEN Len(disk[MergedRuns]) ELSE 0

(* A counter that lost a run to an interrupted cascade never answers: it   *)
(* fails every read instead of answering with what is left.                *)
LostRunsNeverAnswer ==
    [](stage = "idle" /\ ~finalized /\ Missing(runFiles) => []~finalized)

(* Every call of finalize() ends, however many rounds the cascade takes.   *)
FinalizeEnds == stage # "idle" ~> stage = "idle"
================================================================================
