------------------------------ MODULE StorageProofs ------------------------------
(***************************************************************************)
(* Proofs about the two parts that keep what they have on a disk.          *)
(*                                                                         *)
(* ChunkCounter, for any chunks, budgets and numbers of open runs, of      *)
(* writes and of failures: a counter one of whose runs is gone never       *)
(* answers a read.  A run file that was written once is never written      *)
(* again, it stays on the list of runs, and a merge that is under way has  *)
(* it among what it must still read, where the last pass stops.            *)
(*                                                                         *)
(* What TokenizerFiles promises of load, for any tokenizers, settings and  *)
(* scores, any number of saves, failures, crashes and loads, and any       *)
(* damage to the binary file.                                              *)
(***************************************************************************)
EXTENDS ChunkCounter, TokenizerFiles, SequenceTheorems, FiniteSetTheorems, TLAPS

Names == {Run(n) : n \in Nat} \cup {Cascade(r, i) : r, i \in Nat} \cup {MergedRuns}

(* What finalize() has still to read: the rest of the round and the        *)
(* outputs of its earlier batches.                                         *)
StillToRead(name) ==
    \/ \E i \in DOMAIN inputs : i > at /\ inputs[i] = name
    \/ \E i \in DOMAIN nextRuns : nextRuns[i] = name

(* The shape of a call of finalize().                                      *)
CallInv ==
    /\ runCounter \in Nat /\ at \in Nat /\ round \in Nat
    /\ finalized \in BOOLEAN
    /\ stage \in {"idle", "cascade", "final"}
    /\ runFiles \in Seq(Names) /\ inputs \in Seq(Names) /\ nextRuns \in Seq(Names)
    /\ ~finalized => \A i \in DOMAIN runFiles : \E n \in 0..(runCounter - 1) : runFiles[i] = Run(n)
    /\ stage # "idle" => ~finalized
    /\ stage = "cascade" => at < Len(inputs)
    /\ stage # "cascade" => at = 0 /\ nextRuns = <<>>

(* The run is lost: it was written, its file is gone, and nothing will     *)
(* write it again or take it off the lists.                                *)
Lost(n) ==
    /\ ~finalized
    /\ Run(n) \notin DOMAIN disk
    /\ \E i \in DOMAIN runFiles : runFiles[i] = Run(n)
    /\ stage # "idle" => StillToRead(Run(n))
SomeRunLost == \E n \in Nat : n < runCounter /\ Lost(n)

--------------------------------------------------------------------------------
(* The names of the files are apart: a tuple has one length.               *)
LEMMA NamesApart ==
    ASSUME NEW n \in Nat
    PROVE  /\ \A m \in Nat : Run(m) = Run(n) => m = n
           /\ \A r, i \in Nat : Cascade(r, i) # Run(n)
           /\ MergedRuns # Run(n)
<1>1. \A m \in Nat : Run(m) = Run(n) => m = n
  BY DEF Run
<1>2. \A r, i \in Nat : Cascade(r, i) # Run(n)
  <2>1. Run(n) \in [1..2 -> Nat \cup {"run"}] /\ DOMAIN Run(n) = 1..2
    BY DEF Run
  <2>2. \A r, i \in Nat : DOMAIN Cascade(r, i) = 1..3
    BY DEF Cascade
  <2> QED BY <2>1, <2>2
<1>3. MergedRuns # Run(n)
  <2>1. DOMAIN Run(n) = 1..2 /\ DOMAIN MergedRuns = 1..1
    BY DEF Run, MergedRuns
  <2> QED BY <2>1
<1> QED BY <1>1, <1>2, <1>3

(* One write of the buffer: a new file and a new entry of the list, or     *)
(* neither.                                                                *)
LEMMA FlushWritesANewRun ==
    ASSUME NEW b, FlushBuffer(b), CallInv
    PROVE  /\ runCounter' = runCounter + 1
           /\ \/ /\ DOMAIN disk' = DOMAIN disk \cup {Run(runCounter)}
                 /\ runFiles' = Append(runFiles, Run(runCounter))
              \/ disk' = disk /\ runFiles' = runFiles
  BY DEF FlushBuffer, WriteFile

(* After a batch of runs is merged, the cascade is where the loop of       *)
(* finalize says: at the next batch, at the next round, or at the final    *)
(* merge.                                                                  *)
LEMMA BatchOutput ==
    ASSUME CallInv, stage = "cascade", NEW name \in Names, AfterBatch(name)
    PROVE  /\ inputs' \in Seq(Names) /\ nextRuns' \in Seq(Names)
           /\ at' \in Nat /\ round' \in Nat
           /\ stage' \in {"cascade", "final"}
           /\ stage' = "cascade" => at' < Len(inputs')
           /\ stage' # "cascade" => at' = 0 /\ nextRuns' = <<>>
<1> USE CounterAssumption DEF CallInv
<1>1. CASE at + MaxOpenRuns < Len(inputs)
  <2>1. /\ at' = at + MaxOpenRuns /\ nextRuns' = Append(nextRuns, name)
        /\ stage' = stage /\ inputs' = inputs /\ round' = round
    BY <1>1 DEF AfterBatch
  <2>2. nextRuns' \in Seq(Names)
    BY <2>1, AppendProperties
  <2>3. at' \in Nat /\ at' < Len(inputs')
    BY <1>1, <2>1
  <2> QED BY <2>1, <2>2, <2>3
<1>2. CASE ~(at + MaxOpenRuns < Len(inputs))
  <2>1. /\ inputs' = Append(nextRuns, name) /\ stage' = StageOf(inputs')
        /\ nextRuns' = <<>> /\ at' = 0 /\ round' = round + 1
    BY <1>2 DEF AfterBatch
  <2>2. inputs' \in Seq(Names) /\ Len(inputs') = Len(nextRuns) + 1
    BY <2>1, AppendProperties
  <2>3. Len(inputs') > 0
    BY <2>2
  <2>4. nextRuns' \in Seq(Names)
    BY <2>1
  <2> QED BY <2>1, <2>2, <2>3, <2>4 DEF StageOf
<1> QED BY <1>1, <1>2

(* Every call of the counter, a pass that fails and a signal keep what the *)
(* counter is at.                                                          *)
LEMMA CallInvKept == CallInv /\ [Next]_vars => CallInv'
<1> SUFFICES ASSUME CallInv, [Next]_vars
             PROVE  CallInv'
  OBVIOUS
<1> USE CounterAssumption
<1>f. ASSUME NEW b, FlushBuffer(b), ~finalized
      PROVE  /\ runCounter' \in Nat /\ runFiles' \in Seq(Names)
             /\ \A i \in DOMAIN runFiles' : \E n \in 0..(runCounter' - 1) : runFiles'[i] = Run(n)
  <2>1. runCounter' = runCounter + 1 /\ runCounter \in Nat
    BY <1>f DEF FlushBuffer, CallInv
  <2>2. \A i \in DOMAIN runFiles : \E n \in 0..(runCounter' - 1) : runFiles[i] = Run(n)
    <3>1. \A i \in DOMAIN runFiles : \E n \in 0..(runCounter - 1) : runFiles[i] = Run(n)
      BY <1>f DEF CallInv
    <3>2. \A n \in 0..(runCounter - 1) : n \in 0..(runCounter' - 1)
      BY <2>1
    <3> QED BY <3>1, <3>2
  <2>3. CASE runFiles' = Append(runFiles, Run(runCounter))
    <3>1. Run(runCounter) \in Names /\ runCounter \in 0..(runCounter' - 1)
      BY <2>1 DEF Names
    <3>2. /\ runFiles' \in Seq(Names)
          /\ Len(runFiles') = Len(runFiles) + 1
          /\ \A i \in 1..Len(runFiles) : runFiles'[i] = runFiles[i]
          /\ runFiles'[Len(runFiles) + 1] = Run(runCounter)
      BY <2>3, <3>1, AppendProperties DEF CallInv
    <3>3. DOMAIN runFiles = 1..Len(runFiles) /\ DOMAIN runFiles' = 1..(Len(runFiles) + 1) /\ Len(runFiles) \in Nat
      BY <3>2 DEF CallInv
    <3>4. \A i \in DOMAIN runFiles' : i \in DOMAIN runFiles \/ i = Len(runFiles) + 1
      BY <3>3
    <3> QED BY <2>1, <2>2, <3>1, <3>2, <3>3, <3>4
  <2>4. CASE runFiles' = runFiles
    BY <2>1, <2>2, <2>4 DEF CallInv
  <2> QED BY <1>f, <2>3, <2>4, FlushWritesANewRun
<1>1. ASSUME NEW k, NEW count, CanWrite, Store(k, count), UNCHANGED <<finalized, call>>
      PROVE  CallInv'
  <2>1. /\ runCounter' \in Nat /\ runFiles' \in Seq(Names)
        /\ \A i \in DOMAIN runFiles' : \E n \in 0..(runCounter' - 1) : runFiles'[i] = Run(n)
    BY <1>1, <1>f DEF Store, CallInv, CanWrite
  <2> QED BY <1>1, <2>1 DEF CallInv, call, CanWrite
<1>2. CASE \E a \in Adds : Add(a[1], a[2])
  BY <1>2, <1>1 DEF Add
<1>3. CASE \E s \in Sets : SetItem(s[1], s[2])
  BY <1>3, <1>1 DEF SetItem
<1>4. CASE BeginFinalize
  <2>1. /\ runCounter' \in Nat /\ runFiles' \in Seq(Names)
        /\ \A i \in DOMAIN runFiles' : \E n \in 0..(runCounter' - 1) : runFiles'[i] = Run(n)
    <3>1. CASE buffer # NoFiles
      BY <1>4, <1>f, <3>1 DEF BeginFinalize
    <3>2. CASE buffer = NoFiles
      BY <1>4, <3>2 DEF BeginFinalize, CallInv
    <3> QED BY <3>1, <3>2
  <2>2. stage = "idle" /\ ~finalized
    BY <1>4 DEF BeginFinalize
  <2>3. CASE finalized' = TRUE /\ UNCHANGED call
    BY <2>1, <2>2, <2>3 DEF CallInv, call
  <2>4. CASE /\ runFiles' # <<>> /\ stage' = StageOf(runFiles') /\ inputs' = runFiles'
             /\ UNCHANGED <<finalized, nextRuns, at, round>>
    <3>1. Len(inputs') > 0
      BY <2>1, <2>4, EmptySeq
    <3>2. stage' \in {"cascade", "final"}
      BY <2>4 DEF StageOf
    <3>3. at = 0 /\ nextRuns = <<>>
      BY <2>2 DEF CallInv
    <3> QED BY <2>1, <2>2, <2>4, <3>1, <3>2, <3>3 DEF CallInv
  <2>5. CASE UNCHANGED <<finalized, call>>
    BY <2>1, <2>2, <2>5 DEF CallInv, call
  <2> QED BY <1>4, <2>3, <2>4, <2>5 DEF BeginFinalize
<1>5. CASE CascadeBatch
  <2>1. stage = "cascade" /\ UNCHANGED <<runFiles, runCounter, finalized>>
    BY <1>5 DEF CascadeBatch
  <2>2. \E name \in Names : AfterBatch(name)
    <3>1. CASE Len(Batch) = 1
      <4>1. Batch \in Seq(Names)
        BY <2>1 DEF CallInv, Batch
      <4>2. Batch[1] \in Names
        BY <3>1, <4>1
      <4> QED BY <1>5, <3>1, <4>2 DEF CascadeBatch
    <3>2. CASE Len(Batch) # 1
      <4>1. Cascade(round, at) \in Names
        BY DEF Names, CallInv
      <4> QED BY <1>5, <3>2, <4>1 DEF CascadeBatch
    <3> QED BY <3>1, <3>2
  <2>3. PICK name \in Names : AfterBatch(name)
    BY <2>2
  <2>4. /\ inputs' \in Seq(Names) /\ nextRuns' \in Seq(Names)
        /\ at' \in Nat /\ round' \in Nat
        /\ stage' \in {"cascade", "final"}
        /\ stage' = "cascade" => at' < Len(inputs')
        /\ stage' # "cascade" => at' = 0 /\ nextRuns' = <<>>
    BY <2>1, <2>3, BatchOutput
  <2> QED BY <2>1, <2>4 DEF CallInv
<1>6. CASE CascadeFails
  BY <1>6 DEF CascadeFails, Idle, CallInv
<1>7. CASE FinalPass
  <2>1. /\ runFiles' = <<MergedRuns>> /\ finalized' = TRUE /\ runCounter' = runCounter
        /\ inputs' = <<>> /\ nextRuns' = <<>> /\ at' = 0 /\ round' = 0 /\ stage' = "idle"
    BY <1>7 DEF FinalPass, Idle
  <2>2. MergedRuns \in Names
    BY DEF Names
  <2>3. <<MergedRuns>> \in Seq(Names)
    BY <2>2
  <2> QED BY <2>1, <2>3 DEF CallInv
<1>8. CASE FinalFails
  BY <1>8 DEF FinalFails, Idle, CallInv
<1>9. CASE Close
  BY <1>9 DEF Close, Shut, CallInv, call
<1>11. CASE HandleSignal
  <2>1. CASE UNCHANGED call
    BY <1>11, <2>1 DEF HandleSignal, Shut, CallInv, call
  <2>2. CASE Idle
    BY <1>11, <2>2 DEF HandleSignal, Shut, Idle, CallInv
  <2> QED BY <1>11, <2>1, <2>2 DEF HandleSignal
<1>10. CASE UNCHANGED vars
  BY <1>10 DEF vars, CallInv
<1> QED BY <1>2, <1>3, <1>4, <1>5, <1>6, <1>7, <1>8, <1>9, <1>10, <1>11 DEF Next, Finalize

(* A new counter holds no run and is in no call. *)
LEMMA CallInvHolds == Init => CallInv
<1>1. <<>> \in Seq(Names) /\ DOMAIN <<>> = {}
  OBVIOUS
<1> SUFFICES ASSUME Init PROVE CallInv
  OBVIOUS
<1>2. /\ runCounter = 0 /\ at = 0 /\ round = 0 /\ finalized = FALSE /\ stage = "idle"
      /\ runFiles = <<>> /\ inputs = <<>> /\ nextRuns = <<>>
  BY DEF Init
<1> QED BY <1>1, <1>2 DEF CallInv

--------------------------------------------------------------------------------
(* A run that was lost stays lost, and keeps the counter from answering.   *)
LEMMA LostForGood ==
    ASSUME CallInv, CallInv', [Next]_vars, NEW n \in Nat, n < runCounter, Lost(n)
    PROVE  n < runCounter' /\ Lost(n)'
<1> USE CounterAssumption
<1>0. runCounter \in Nat /\ Run(n) # Run(runCounter)
  BY NamesApart DEF CallInv
<1>f. ASSUME NEW b, FlushBuffer(b)
      PROVE  /\ n < runCounter' /\ Run(n) \notin DOMAIN disk'
             /\ \E i \in DOMAIN runFiles' : runFiles'[i] = Run(n)
  <2>1. Run(n) \notin DOMAIN disk' /\ n < runCounter'
    BY <1>0, <1>f, FlushWritesANewRun DEF Lost
  <2>2. PICK i \in DOMAIN runFiles : runFiles[i] = Run(n)
    BY DEF Lost
  <2>3. CASE runFiles' = Append(runFiles, Run(runCounter))
    <3>1. Run(runCounter) \in Names
      BY <1>0 DEF Names
    <3>2. /\ Len(runFiles') = Len(runFiles) + 1 /\ Len(runFiles) \in Nat
          /\ runFiles' \in Seq(Names) /\ runFiles \in Seq(Names)
          /\ \A j \in 1..Len(runFiles) : runFiles'[j] = runFiles[j]
      BY <2>3, <3>1, AppendProperties DEF CallInv
    <3>3. DOMAIN runFiles = 1..Len(runFiles) /\ DOMAIN runFiles' = 1..(Len(runFiles) + 1)
      BY <3>2
    <3>4. i \in DOMAIN runFiles' /\ runFiles'[i] = runFiles[i]
      BY <2>2, <3>2, <3>3
    <3> QED BY <2>1, <2>2, <3>4
  <2>4. CASE runFiles' = runFiles
    BY <2>1, <2>2, <2>4
  <2> QED BY <1>f, <2>3, <2>4, FlushWritesANewRun
<1>1. ASSUME NEW k, NEW count, CanWrite, Store(k, count), UNCHANGED <<finalized, call>>
      PROVE  n < runCounter' /\ Lost(n)'
  <2>1. /\ n < runCounter' /\ Run(n) \notin DOMAIN disk'
        /\ \E i \in DOMAIN runFiles' : runFiles'[i] = Run(n)
    BY <1>1, <1>f DEF Store, Lost
  <2>2. stage' = "idle" /\ ~finalized'
    BY <1>1 DEF CanWrite, call, Lost
  <2> QED BY <2>1, <2>2 DEF Lost
<1>2. CASE \E a \in Adds : Add(a[1], a[2])
  BY <1>2, <1>1 DEF Add
<1>3. CASE \E s \in Sets : SetItem(s[1], s[2])
  BY <1>3, <1>1 DEF SetItem
<1>4. CASE BeginFinalize
  <2>1. /\ n < runCounter' /\ Run(n) \notin DOMAIN disk'
        /\ \E i \in DOMAIN runFiles' : runFiles'[i] = Run(n)
    <3>1. CASE buffer # NoFiles
      BY <1>4, <1>f, <3>1 DEF BeginFinalize
    <3>2. CASE buffer = NoFiles
      BY <1>4, <3>2 DEF BeginFinalize, Lost
    <3> QED BY <3>1, <3>2
  <2>2. PICK i \in DOMAIN runFiles' : runFiles'[i] = Run(n)
    BY <2>1
  <2>3. i \in Nat /\ i > 0 /\ runFiles' # <<>>
    BY <2>2 DEF CallInv
  <2>4. stage = "idle" /\ at = 0 /\ ~finalized
    BY <1>4 DEF BeginFinalize, CallInv
  <2>5. CASE inputs' = runFiles' /\ UNCHANGED <<finalized, nextRuns, at, round>>
    <3>1. StillToRead(Run(n))'
      BY <2>2, <2>3, <2>4, <2>5 DEF StillToRead, Run
    <3> QED BY <2>1, <2>4, <2>5, <3>1 DEF Lost, Run
  <2>6. CASE UNCHANGED <<finalized, call>>
    BY <2>1, <2>4, <2>6 DEF Lost, call, Run
  <2> QED BY <1>4, <2>3, <2>5, <2>6 DEF BeginFinalize
<1>5. CASE CascadeBatch
  <2>1. stage = "cascade" /\ UNCHANGED <<runFiles, runCounter, finalized>>
    BY <1>5 DEF CascadeBatch
  <2>2. StillToRead(Run(n)) /\ Run(n) \in Names
    BY <2>1 DEF Lost, Names
  <2> DEFINE last == IF at + MaxOpenRuns < Len(inputs) THEN at + MaxOpenRuns ELSE Len(inputs)
  <2>3. /\ Len(inputs) \in Nat /\ at \in Nat /\ last \in at + 1..Len(inputs)
        /\ inputs \in Seq(Names) /\ DOMAIN inputs = 1..Len(inputs)
    BY <2>1 DEF CallInv
  <2>4. /\ Batch = SubSeq(inputs, at + 1, last) /\ Batch \in Seq(Names)
        /\ Len(Batch) = last - at
        /\ \A i \in 1..(last - at) : Batch[i] = inputs[at + i]
    <3>1. Batch = SubSeq(inputs, at + 1, last)
      BY DEF Batch
    <3> HIDE DEF last
    <3> QED BY <2>3, <3>1, SubSeqProperties
  <2>5. /\ at + MaxOpenRuns < Len(inputs) => last = at + MaxOpenRuns
        /\ ~(at + MaxOpenRuns < Len(inputs)) => last = Len(inputs)
    OBVIOUS
  <2> HIDE DEF last
  <2>6. \E name \in Names :
           /\ AfterBatch(name) /\ Run(n) \notin DOMAIN disk'
           /\ (\E i \in (at + 1)..last : inputs[i] = Run(n)) => name = Run(n)
    <3>1. CASE Len(Batch) = 1
      <4>1. AfterBatch(Batch[1]) /\ UNCHANGED disk
        BY <1>5, <3>1 DEF CascadeBatch
      <4>2. last = at + 1 /\ Batch[1] = inputs[at + 1] /\ Batch[1] \in Names
        <5>1. last = at + 1
          BY <2>3, <2>4, <3>1
        <5>2. 1 \in 1..(last - at) /\ Batch[1] = inputs[at + 1]
          BY <2>3, <2>4, <5>1
        <5>3. Batch[1] \in Names
          <6>1. at + 1 \in DOMAIN inputs
            BY <2>3, <5>1
          <6> QED BY <2>3, <5>2, <6>1
        <5> QED BY <5>1, <5>2, <5>3
      <4>3. \A i \in (at + 1)..last : i = at + 1
        BY <2>3, <4>2
      <4> QED BY <4>1, <4>2, <4>3 DEF Lost
    <3>2. CASE Len(Batch) # 1
      <4>1. /\ AfterBatch(Cascade(round, at)) /\ ~Missing(Batch)
            /\ DOMAIN disk' \subseteq DOMAIN disk \cup {Cascade(round, at)}
        BY <1>5, <3>2 DEF CascadeBatch, WriteFile
      <4>2. Cascade(round, at) \in Names /\ Cascade(round, at) # Run(n)
        BY NamesApart DEF Names, CallInv
      <4>3. ASSUME NEW i \in (at + 1)..last, inputs[i] = Run(n)
            PROVE  FALSE
        <5>1. i - at \in 1..(last - at) /\ at + (i - at) = i
          BY <2>3
        <5>2. Batch[i - at] = Run(n)
          BY <2>4, <4>3, <5>1
        <5>3. i - at \in DOMAIN Batch
          BY <2>4, <5>1
        <5> QED BY <4>1, <5>2, <5>3 DEF Missing, Lost
      <4> QED BY <4>1, <4>2, <4>3 DEF Lost
    <3> QED BY <3>1, <3>2
  <2>7. PICK name \in Names :
           /\ AfterBatch(name) /\ Run(n) \notin DOMAIN disk'
           /\ (\E i \in (at + 1)..last : inputs[i] = Run(n)) => name = Run(n)
    BY <2>6
  <2>8. /\ Len(Append(nextRuns, name)) = Len(nextRuns) + 1 /\ Len(nextRuns) \in Nat
        /\ DOMAIN Append(nextRuns, name) = 1..(Len(nextRuns) + 1) /\ DOMAIN nextRuns = 1..Len(nextRuns)
        /\ \A i \in 1..Len(nextRuns) : Append(nextRuns, name)[i] = nextRuns[i]
        /\ Append(nextRuns, name)[Len(nextRuns) + 1] = name
    BY AppendProperties DEF CallInv
  <2>9. StillToRead(Run(n))'
    <3>1. CASE at + MaxOpenRuns < Len(inputs)
      <4>1. at' = last /\ nextRuns' = Append(nextRuns, name) /\ inputs' = inputs
        BY <2>5, <2>7, <3>1 DEF AfterBatch
      <4>2. CASE \E i \in DOMAIN inputs : i > last /\ inputs[i] = Run(n)
        BY <4>1, <4>2 DEF StillToRead, Run
      <4>3. CASE \E i \in (at + 1)..last : inputs[i] = Run(n)
        <5>1. name = Run(n) /\ Len(nextRuns) + 1 \in DOMAIN nextRuns'
          BY <2>7, <2>8, <4>1, <4>3
        <5> QED BY <2>8, <4>1, <5>1 DEF StillToRead, Run
      <4>4. CASE \E i \in DOMAIN nextRuns : nextRuns[i] = Run(n)
        <5>1. PICK i \in DOMAIN nextRuns : nextRuns[i] = Run(n)
          BY <4>4
        <5>2. i \in DOMAIN nextRuns' /\ nextRuns'[i] = Run(n)
          BY <2>8, <4>1, <5>1
        <5> QED BY <5>2 DEF StillToRead, Run
      <4>5. ASSUME NEW i \in DOMAIN inputs, i > at, inputs[i] = Run(n)
            PROVE  i > last \/ i \in (at + 1)..last
        BY <2>3, <4>5
      <4> QED BY <2>2, <4>2, <4>3, <4>4, <4>5 DEF StillToRead
    <3>2. CASE ~(at + MaxOpenRuns < Len(inputs))
      <4>1. inputs' = Append(nextRuns, name) /\ at' = 0 /\ last = Len(inputs)
        BY <2>5, <2>7, <3>2 DEF AfterBatch
      <4>2. ASSUME NEW i \in DOMAIN inputs, i > at, inputs[i] = Run(n)
            PROVE  StillToRead(Run(n))'
        <5>1. i \in (at + 1)..last
          BY <2>3, <4>1, <4>2
        <5>2. name = Run(n)
          BY <2>7, <4>2, <5>1
        <5>3. Len(nextRuns) + 1 \in DOMAIN inputs' /\ Len(nextRuns) + 1 > at' /\ inputs'[Len(nextRuns) + 1] = Run(n)
          BY <2>8, <4>1, <5>2
        <5> QED BY <5>3 DEF StillToRead, Run
      <4>3. ASSUME NEW i \in DOMAIN nextRuns, nextRuns[i] = Run(n)
            PROVE  StillToRead(Run(n))'
        <5>1. i \in DOMAIN inputs' /\ inputs'[i] = Run(n) /\ i > at'
          BY <2>8, <4>1, <4>3
        <5> QED BY <5>1 DEF StillToRead, Run
      <4> QED BY <2>2, <4>2, <4>3 DEF StillToRead
    <3> QED BY <3>1, <3>2
  <2> QED BY <2>1, <2>7, <2>9 DEF Lost, Run
<1>6. CASE CascadeFails
  <2>1. Run(n) \notin DOMAIN disk'
    BY <1>6, NamesApart DEF CascadeFails, WriteFile, Lost, CallInv
  <2> QED BY <1>6, <2>1 DEF CascadeFails, Idle, Lost, Run
<1>7. CASE FinalPass
  <2>1. stage = "final" /\ ~Missing(inputs) /\ at = 0 /\ nextRuns = <<>>
    BY <1>7 DEF FinalPass, CallInv
  <2>2. PICK i \in DOMAIN inputs : inputs[i] = Run(n)
    BY <2>1 DEF Lost, StillToRead
  <2> QED BY <2>1, <2>2 DEF Missing, Lost
<1>8. CASE FinalFails
  <2>1. Run(n) \notin DOMAIN disk'
    BY <1>8, NamesApart DEF FinalFails, WriteFile, Lost
  <2> QED BY <1>8, <2>1 DEF FinalFails, Idle, Lost, Run
<1>9. CASE Close
  <2>1. DOMAIN disk' = {}
    BY <1>9 DEF Close, Shut, NoFiles
  <2> QED BY <1>9, <2>1 DEF Close, Shut, call, Lost, StillToRead, Run
<1>11. CASE HandleSignal
  <2>1. DOMAIN disk' = {}
    BY <1>11 DEF HandleSignal, Shut, NoFiles
  <2>2. CASE UNCHANGED call
    BY <1>11, <2>1, <2>2 DEF HandleSignal, Shut, call, Lost, StillToRead, Run
  <2>3. CASE Idle
    BY <1>11, <2>1, <2>3 DEF HandleSignal, Shut, Idle, Lost, StillToRead, Run
  <2> QED BY <1>11, <2>2, <2>3 DEF HandleSignal
<1>10. CASE UNCHANGED vars
  BY <1>10 DEF vars, Lost, StillToRead, Run
<1> QED BY <1>2, <1>3, <1>4, <1>5, <1>6, <1>7, <1>8, <1>9, <1>10, <1>11 DEF Next, Finalize

(* LostRunsNeverAnswer: once a run that is listed is gone, from the batches *)
(* of a cascade that failed or from close(), no read is ever answered.     *)
THEOREM LostRunsStayLost == Spec => LostRunsNeverAnswer
<1>1. Init => CallInv
  BY CallInvHolds
<1>2. CallInv /\ [Next]_vars => CallInv'
  BY CallInvKept
<1>3. CallInv /\ stage = "idle" /\ ~finalized /\ Missing(runFiles) => SomeRunLost
  <2> SUFFICES ASSUME CallInv, stage = "idle", ~finalized, Missing(runFiles)
               PROVE  SomeRunLost
    OBVIOUS
  <2>1. PICK i \in DOMAIN runFiles : runFiles[i] \notin DOMAIN disk
    BY DEF Missing
  <2>2. PICK n \in 0..(runCounter - 1) : runFiles[i] = Run(n)
    BY <2>1 DEF CallInv
  <2>3. n \in Nat /\ n < runCounter
    BY <2>2 DEF CallInv
  <2> QED BY <2>1, <2>2, <2>3 DEF SomeRunLost, Lost
<1>4. CallInv /\ CallInv' /\ SomeRunLost /\ [Next]_vars => SomeRunLost'
  BY LostForGood DEF SomeRunLost
<1>5. SomeRunLost => ~finalized
  BY DEF SomeRunLost, Lost
<1> QED BY <1>1, <1>2, <1>3, <1>4, <1>5, PTL DEF Spec, LostRunsNeverAnswer

--------------------------------------------------------------------------------
(* The engines that a tokenizer may have. *)
AnyEngine == Engines \cup {Custom, Nothing}

(* Ids that are the numbers below their count are all different: so the    *)
(* string at a position has that position for its id.                      *)
LEMMA DenseIdsAreDistinct ==
    ASSUME NEW I, IsFiniteSet(I), NEW f \in [I -> Nat],
           {f[x] : x \in I} = 0..(Cardinality(I) - 1)
    PROVE  \A x, y \in I : f[x] = f[y] => x = y
<1> DEFINE n == Cardinality(I)
           T == 0..(n - 1)
<1>1. n \in Nat
    BY FS_CardinalityType
<1>2. Cardinality(T) = n
    BY <1>1, FS_Interval
<1>3. f \in [I -> T]
    OBVIOUS
<1>4. f \in Surjection(I, T)
    BY <1>3 DEF Surjection
<1>5. f \in Injection(I, T)
    BY <1>2, <1>4, FS_SurjSameCardinalityImpliesInj
<1> QED
    BY <1>5 DEF Injection, IsInjective

(* A tokenizer is a record of functions. *)
LEMMA TokenizerShape ==
    ASSUME NEW t \in Tokenizers
    PROVE  \E V, I \in SUBSET Strings :
              /\ IsFiniteSet(I)
              /\ t \in [vocab : [V -> Scores], ids : [I -> Nat], settings : Settings, engine : AnyEngine]
    BY FilesAssumption DEF AnyEngine

(* What save writes as JSON, load restores. *)
LEMMA JsonRestores ==
    ASSUME NEW t \in Tokenizers, NEW argument
    PROVE  Restores(FromJson(JsonOf(t), argument), t, argument)
    BY DEF Restores, FromJson, JsonOf, Resolved

(* What export_binary writes, load_binary accepts if the settings pass its *)
(* checks, and restores, but for the scores' precision.                    *)
LEMMA BinaryRestores ==
    ASSUME NEW t \in Tokenizers, Exportable(t), NEW argument
    PROVE  Restores(FromBinary(BinaryOf(t), argument), t, argument)
<1>1. PICK V \in SUBSET Strings, I \in SUBSET Strings :
        /\ IsFiniteSet(I)
        /\ t \in [vocab : [V -> Scores], ids : [I -> Nat], settings : Settings, engine : AnyEngine]
    BY TokenizerShape
<1>2. t.vocab \in [V -> Scores] /\ t.ids \in [I -> Nat] /\ DOMAIN t.ids = I /\ DOMAIN t.vocab = I
    BY <1>1 DEF Exportable
<1> DEFINE n == Cardinality(I)
           file == BinaryOf(t)
           loaded == FromBinary(file, argument)
<1>3. n \in Nat /\ {t.ids[x] : x \in I} = 0..(n - 1)
    BY <1>1, <1>2, FS_CardinalityType DEF Exportable
<1>4. \A x, y \in I : t.ids[x] = t.ids[y] => x = y
    BY <1>1, <1>2, <1>3, DenseIdsAreDistinct
<1>5. \A x \in I : TokenAt(t, t.ids[x]) = x
    BY <1>2, <1>4 DEF TokenAt
<1>6. /\ DOMAIN file.strings = 1..n
      /\ \A i \in 1..n : file.strings[i] = TokenAt(t, i - 1)
      /\ \A i \in 1..n : file.scores[i] = Single(t.vocab[TokenAt(t, i - 1)])
      /\ file.settings = t.settings /\ file.engine = Saved(t.engine)
    BY <1>2 DEF BinaryOf
<1>7. \A i \in 1..n : TokenAt(t, i - 1) \in I /\ t.ids[TokenAt(t, i - 1)] = i - 1
    <2>1. TAKE i \in 1..n
    <2>2. i - 1 \in 0..(n - 1)
        BY <1>3
    <2>3. PICK x \in I : t.ids[x] = i - 1
        BY <1>3, <2>2
    <2> QED
        BY <1>5, <2>3
<1>8. \A x \in I : t.ids[x] + 1 \in 1..n /\ file.strings[t.ids[x] + 1] = x
    <2>1. TAKE x \in I
    <2>2. t.ids[x] \in 0..(n - 1)
        BY <1>3
    <2>3. t.ids[x] + 1 \in 1..n /\ (t.ids[x] + 1) - 1 = t.ids[x]
        BY <1>3, <2>2
    <2> QED
        BY <1>5, <1>6, <2>3
<1>9. {file.strings[i] : i \in DOMAIN file.strings} = I
    BY <1>6, <1>7, <1>8
<1> DEFINE positionOf(x) == CHOOSE i \in DOMAIN file.strings : file.strings[i] = x
<1>10. \A x \in I : positionOf(x) = t.ids[x] + 1
    <2>1. TAKE x \in I
    <2>2. PICK i \in DOMAIN file.strings : i = positionOf(x) /\ file.strings[i] = x
        BY <1>6, <1>8
    <2>3. i \in 1..n /\ t.ids[x] = i - 1
        BY <1>6, <1>7, <2>2
    <2> HIDE DEF positionOf, n
    <2>4. i = t.ids[x] + 1
        BY <2>3
    <2> QED
        BY <2>2, <2>4
<1>11. loaded.ids = [x \in I |-> positionOf(x) - 1] /\ loaded.vocab = [x \in I |-> file.scores[positionOf(x)]]
    BY <1>9 DEF FromBinary
<1> HIDE DEF positionOf, loaded, file, n
<1>12. loaded.ids = t.ids
    <2>1. \A x \in I : positionOf(x) - 1 = t.ids[x]
        <3>1. TAKE x \in I
        <3>2. t.ids[x] \in Nat /\ positionOf(x) = t.ids[x] + 1
            BY <1>2, <1>10
        <3> QED
            BY <3>2
    <2> QED
        BY <1>2, <1>11, <2>1
<1>13. loaded.vocab = [x \in DOMAIN t.vocab |-> Single(t.vocab[x])]
    <2>1. \A x \in I : file.scores[positionOf(x)] = Single(t.vocab[x])
        <3>1. TAKE x \in I
        <3>2. t.ids[x] \in Nat /\ positionOf(x) = t.ids[x] + 1 /\ positionOf(x) \in 1..n
            BY <1>2, <1>8, <1>10
        <3>3. positionOf(x) - 1 = t.ids[x]
            BY <3>2
        <3> QED
            BY <1>5, <1>6, <3>2, <3>3
    <2> QED
        BY <1>2, <1>11, <2>1
<1>14. loaded.settings = t.settings /\ loaded.engine = Resolved(argument, Saved(t.engine))
    BY <1>6 DEF FromBinary, loaded
<1> QED
    BY <1>12, <1>13, <1>14 DEF Restores, Resolved, loaded, file

(* The files tell what they are by their state. *)
LEMMA FileStates ==
    ASSUME NEW t
    PROVE  /\ JsonOf(t).state = "whole" /\ BinaryOf(t).state = "present"
           /\ Absent.state = "absent" /\ Partial.state = "partial"
    BY DEF JsonOf, BinaryOf, Absent, Partial

--------------------------------------------------------------------------------
(* The inductive invariant. *)

(* A binary file whose config section is not what export_binary wrote. *)
Damaged(file) ==
    file = [state |-> "present", sections |-> file.sections, strings |-> file.strings,
            scores |-> file.scores, settings |-> Malformed, engine |-> file.engine]

(* A whole binary file of t, or none that load accepts. *)
NothingBut(t) == binary = Absent \/ Damaged(binary) \/ (Exportable(t) /\ binary = BinaryOf(t))

SaveIs ==
    /\ started \subseteq Tokenizers
    /\ step \in {"idle", "json", "export", "write", "rename", "remove"}
    /\ step # "idle" => settled = {} /\ saving \in started
    /\ step \in {"write", "rename"} => Exportable(saving)
    /\ step \in {"export", "write", "rename", "remove"} => json = JsonOf(saving)

JsonIs == json.state = "whole" => \E t \in started : json = JsonOf(t)

BinaryIs == binary = Absent \/ \E t \in started : NothingBut(t)

SettledIs == settled \subseteq started /\ \A t \in settled : json = JsonOf(t) /\ NothingBut(t)

ReaderIs ==
    \/ reader = [step |-> "idle"]
    \/ /\ reader = [step |-> reader.step, argument |-> reader.argument, expect |-> reader.expect,
                    result |-> reader.result]
       /\ reader.step \in {"binary", "json", "answered", "raised"}
       /\ reader.step \in {"binary", "json"} => reader.expect \subseteq settled

FilesInv == SaveIs /\ JsonIs /\ BinaryIs /\ SettledIs /\ ReaderIs

Answers == LoadsAreWhole /\ LastSaveIsLoaded

(* A file that is damaged is present, and load does not accept it. *)
LEMMA DamagedIsRefused ==
    ASSUME NEW file, Damaged(file)
    PROVE  file.state = "present" /\ ~Readable(file)
<1>1. file.settings = Malformed /\ file.state = "present"
    BY DEF Damaged
<1> QED
    BY <1>1, FilesAssumption DEF Readable

(* Damage leaves no file that is whole. *)
LEMMA DamageDamages ==
    ASSUME NEW t, Damaged(binary) \/ binary = BinaryOf(t), Damage
    PROVE  Damaged(binary')
<1>1. binary = [state |-> "present", sections |-> binary.sections, strings |-> binary.strings,
                scores |-> binary.scores, settings |-> binary.settings, engine |-> binary.engine]
    BY DEF Damaged, BinaryOf
<1>2. CASE binary' = [binary EXCEPT !.settings = Malformed]
    BY <1>1, <1>2 DEF Damaged
<1>3. CASE \E n \in 0..(binary.sections - 1) : binary' = Truncated(binary, n)
    BY <1>1, <1>3 DEF Damaged, Truncated
<1> QED
    BY <1>2, <1>3 DEF Damage

(* No file is there before the first save. *)
LEMMA InvHolds == FilesInit => FilesInv /\ Answers
    BY DEF FilesInit, FilesInv, SaveIs, JsonIs, BinaryIs, SettledIs, ReaderIs, Answers, LoadsAreWhole,
           LastSaveIsLoaded, Absent

(* The step that begins a save. *)
LEMMA BeginKeeps ==
    ASSUME FilesInv, Answers, NEW t \in Tokenizers, NEW withBinary \in BOOLEAN, BeginSave(t, withBinary)
    PROVE  FilesInv' /\ Answers'
<1> USE DEF BeginSave
<1>1. started' = started \cup {t} /\ settled' = {} /\ json' = Partial /\ saving' = t /\ step' = "json"
      /\ binary' = binary
    OBVIOUS
<1>2. SaveIs' /\ JsonIs' /\ SettledIs'
    BY <1>1, FileStates DEF FilesInv, SaveIs, JsonIs, SettledIs
<1>3. BinaryIs'
    BY <1>1 DEF FilesInv, BinaryIs, NothingBut
<1>4. CASE reader.step = "idle"
    <2>1. reader' = reader
        BY <1>4 DEF Unsettle
    <2> QED
        BY <1>2, <1>3, <1>4, <2>1
        DEF FilesInv, ReaderIs, Answers, LoadsAreWhole, LastSaveIsLoaded
<1>5. CASE reader.step # "idle"
    <2>1. reader = [step |-> reader.step, argument |-> reader.argument, expect |-> reader.expect,
                    result |-> reader.result]
          /\ reader.step \in {"binary", "json", "answered", "raised"}
        BY <1>5 DEF FilesInv, ReaderIs
    <2>2. reader' = [step |-> reader.step, argument |-> reader.argument, expect |-> {},
                     result |-> reader.result]
        BY <1>5, <2>1 DEF Unsettle
    <2>3. ReaderIs' /\ LastSaveIsLoaded'
        BY <2>1, <2>2 DEF ReaderIs, LastSaveIsLoaded
    <2>4. LoadsAreWhole'
        BY <1>1, <2>2 DEF Answers, LoadsAreWhole
    <2> QED
        BY <1>2, <1>3, <2>3, <2>4 DEF FilesInv, Answers
<1> QED
    BY <1>4, <1>5

(* What a step that leaves the reader alone and settles what it may keeps. *)
LEMMA ReaderKept ==
    ASSUME FilesInv, Answers, reader' = reader, started' = started, settled \subseteq settled'
    PROVE  ReaderIs' /\ Answers'
    BY DEF FilesInv, ReaderIs, Answers, LoadsAreWhole, LastSaveIsLoaded

(* The later steps of a save, and its end by an exception or a crash. *)
LEMMA SaveKeeps ==
    ASSUME FilesInv, Answers,
           \/ WriteJson \/ JsonFails \/ Pack \/ WriteTemporary \/ Rename \/ ExportFails
           \/ RemoveBinary \/ RemoveFails \/ Crash
    PROVE  FilesInv' /\ Answers'
<1> USE DEF KeepCall
<1>1. step # "idle" /\ settled = {} /\ saving \in started /\ started \subseteq Tokenizers
    BY DEF FilesInv, SaveIs, WriteJson, JsonFails, Pack, WriteTemporary, Rename, ExportFails,
           RemoveBinary, RemoveFails, Crash
<1>2. started' = started /\ saving' = saving /\ reader' = reader
    BY DEF WriteJson, JsonFails, Pack, WriteTemporary, Rename, ExportFails, RemoveBinary, RemoveFails, Crash
<1>3. ReaderIs' /\ Answers'
    BY <1>1, <1>2, ReaderKept
<1>4. CASE WriteJson
    <2>1. json' = JsonOf(saving) /\ binary' = binary
        BY <1>4 DEF WriteJson
    <2>2. \/ step' = "export" /\ settled' = {}
          \/ step' = "idle" /\ (settled' = {} \/ (settled' = {saving} /\ binary = Absent))
        BY <1>1, <1>4 DEF WriteJson, Goto, Return
    <2>3. SaveIs' /\ JsonIs'
        BY <1>1, <1>2, <2>1, <2>2 DEF SaveIs, JsonIs
    <2>4. BinaryIs' /\ SettledIs'
        BY <1>1, <1>2, <2>1, <2>2 DEF FilesInv, BinaryIs, SettledIs, NothingBut
    <2> QED
        BY <1>3, <2>3, <2>4 DEF FilesInv
<1>5. CASE JsonFails \/ RemoveFails \/ Crash
    <2>1. json' = json /\ binary' = binary /\ step' = "idle" /\ settled' = {}
        BY <1>5 DEF JsonFails, RemoveFails, Crash, Raise, Return
    <2>2. SaveIs' /\ JsonIs' /\ BinaryIs' /\ SettledIs'
        BY <1>1, <1>2, <2>1 DEF FilesInv, SaveIs, JsonIs, BinaryIs, SettledIs, NothingBut
    <2> QED
        BY <1>3, <2>2 DEF FilesInv
<1>6. CASE Pack \/ WriteTemporary \/ ExportFails
    <2>1. json' = json /\ binary' = binary /\ settled' = {}
        BY <1>1, <1>6 DEF Pack, WriteTemporary, ExportFails, Raise, Return, Goto
    <2>2. step \in {"export", "write", "rename"} /\ json = JsonOf(saving)
        BY <1>6 DEF FilesInv, SaveIs, Pack, WriteTemporary, ExportFails
    <2>3. /\ step' \in {"idle", "write", "rename", "remove"}
          /\ step' \in {"write", "rename"} => Exportable(saving)
        BY <1>6 DEF FilesInv, SaveIs, Pack, WriteTemporary, ExportFails, Raise, Return, Goto
    <2>4. SaveIs' /\ JsonIs' /\ BinaryIs' /\ SettledIs'
        BY <1>1, <1>2, <2>1, <2>2, <2>3 DEF FilesInv, SaveIs, JsonIs, BinaryIs, SettledIs, NothingBut
    <2> QED
        BY <1>3, <2>4 DEF FilesInv
<1>7. CASE Rename \/ RemoveBinary
    <2>1. json' = json /\ json = JsonOf(saving) /\ step' = "idle" /\ settled' = {saving}
        BY <1>7 DEF FilesInv, SaveIs, Rename, RemoveBinary, Return
    <2>2. binary' = Absent \/ (Exportable(saving) /\ binary' = BinaryOf(saving))
        BY <1>7 DEF FilesInv, SaveIs, Rename, RemoveBinary
    <2>3. SaveIs' /\ JsonIs'
        BY <1>1, <1>2, <2>1 DEF FilesInv, SaveIs, JsonIs
    <2>4. BinaryIs' /\ SettledIs'
        BY <1>1, <1>2, <2>1, <2>2 DEF BinaryIs, SettledIs, NothingBut
    <2> QED
        BY <1>3, <2>3, <2>4 DEF FilesInv
<1> QED
    BY <1>4, <1>5, <1>6, <1>7

(* Damage to the binary leaves a file that load_binary refuses, and what   *)
(* it answers from the other file is as whole as before.                   *)
LEMMA DamageKeeps ==
    ASSUME FilesInv, Answers, Damage
    PROVE  FilesInv' /\ Answers'
<1>1. UNCHANGED <<json, step, saving, both, started, settled, reader>> /\ binary.state = "present"
    BY DEF Damage
<1>2. ReaderIs' /\ Answers'
    BY <1>1, ReaderKept
<1>3. PICK t \in started : NothingBut(t)
    BY <1>1, FileStates DEF FilesInv, BinaryIs
<1>4. Damaged(binary')
    BY <1>1, <1>3, DamageDamages, FileStates DEF NothingBut
<1>5. SaveIs' /\ JsonIs' /\ BinaryIs' /\ SettledIs'
    BY <1>1, <1>3, <1>4 DEF FilesInv, SaveIs, JsonIs, BinaryIs, SettledIs, NothingBut
<1> QED
    BY <1>2, <1>5 DEF FilesInv

(* The steps of a load: its answer comes from a whole file. *)
LEMMA LoadKeeps ==
    ASSUME FilesInv, Answers, Load
    PROVE  FilesInv' /\ Answers'
<1>1. UNCHANGED <<json, binary, step, saving, both, started, settled>>
    BY DEF Load, BeginLoad, LoadBinary, LoadJson, KeepFiles
<1>2. SaveIs' /\ JsonIs' /\ BinaryIs' /\ SettledIs'
    BY <1>1 DEF FilesInv, SaveIs, JsonIs, BinaryIs, SettledIs, NothingBut
<1>3. ASSUME NEW preferBinary \in BOOLEAN, NEW argument \in Engines \cup {Nothing},
             BeginLoad(preferBinary, argument)
      PROVE  ReaderIs' /\ Answers'
    <2>1. PICK way \in {"binary", "json"} :
            reader' = [step |-> way, argument |-> argument, expect |-> settled, result |-> Nothing]
        BY <1>3 DEF BeginLoad
    <2> QED
        BY <1>1, <2>1 DEF ReaderIs, Answers, LoadsAreWhole, LastSaveIsLoaded
<1> DEFINE argument == reader.argument
<1>4. ASSUME LoadBinary \/ LoadJson
      PROVE  /\ reader = [step |-> reader.step, argument |-> argument, expect |-> reader.expect,
                          result |-> reader.result]
             /\ reader.expect \subseteq settled
             /\ started \subseteq Tokenizers
    BY <1>4 DEF FilesInv, SaveIs, ReaderIs, LoadBinary, LoadJson
<1>5. ASSUME NEW tokenizer, Answer(tokenizer), LoadBinary \/ LoadJson,
             \E t \in started : Restores(tokenizer, t, argument),
             \A t \in settled : Restores(tokenizer, t, argument)
      PROVE  ReaderIs' /\ Answers'
    <2>1. reader' = [step |-> "answered", argument |-> argument, expect |-> reader.expect,
                     result |-> tokenizer]
        BY <1>4, <1>5 DEF Answer
    <2>2. ReaderIs'
        BY <2>1 DEF ReaderIs
    <2>3. LoadsAreWhole' /\ LastSaveIsLoaded'
        BY <1>1, <1>4, <1>5, <2>1 DEF LoadsAreWhole, LastSaveIsLoaded
    <2> QED
        BY <2>2, <2>3 DEF Answers
<1>6. ASSUME LoadBinary PROVE ReaderIs' /\ Answers'
    <2>1. CASE binary.state = "present" /\ Readable(binary)
        <3> DEFINE tokenizer == FromBinary(binary, argument)
        <3>1. Answer(tokenizer)
            BY <1>6, <2>1 DEF LoadBinary
        <3>2. \A t \in started : NothingBut(t) => Restores(tokenizer, t, argument)
            BY <1>4, <1>6, <2>1, FileStates, DamagedIsRefused, BinaryRestores DEF NothingBut
        <3>3. \E t \in started : NothingBut(t)
            BY <2>1, FileStates DEF FilesInv, BinaryIs
        <3>4. \A t \in settled : t \in started /\ NothingBut(t)
            BY DEF FilesInv, SettledIs
        <3> HIDE DEF tokenizer
        <3> QED
            BY <1>5, <1>6, <3>1, <3>2, <3>3, <3>4
    <2>2. CASE ~(binary.state = "present" /\ Readable(binary))
        <3>1. reader' = [step |-> "json", argument |-> argument, expect |-> reader.expect,
                         result |-> reader.result]
            BY <1>4, <1>6, <2>2 DEF LoadBinary
        <3>2. reader.expect \subseteq settled'
            BY <1>1, <1>4, <1>6
        <3>3. ReaderIs'
            BY <3>1, <3>2 DEF ReaderIs
        <3>4. Answers'
            BY <3>1 DEF Answers, LoadsAreWhole, LastSaveIsLoaded
        <3> QED
            BY <3>3, <3>4
    <2> QED
        BY <2>1, <2>2
<1>7. ASSUME LoadJson PROVE ReaderIs' /\ Answers'
    <2>1. CASE json.state = "whole"
        <3> DEFINE tokenizer == FromJson(json, argument)
        <3>1. Answer(tokenizer)
            BY <1>7, <2>1 DEF LoadJson
        <3>2. \A t \in started : json = JsonOf(t) => Restores(tokenizer, t, argument)
            BY <1>4, <1>7, JsonRestores
        <3>3. \E t \in started : json = JsonOf(t)
            BY <2>1 DEF FilesInv, JsonIs
        <3>4. \A t \in settled : t \in started /\ json = JsonOf(t)
            BY DEF FilesInv, SettledIs
        <3> HIDE DEF tokenizer
        <3> QED
            BY <1>5, <1>7, <3>1, <3>2, <3>3, <3>4
    <2>2. CASE json.state # "whole"
        <3>1. reader' = [step |-> "raised", argument |-> argument, expect |-> reader.expect,
                         result |-> reader.result]
            BY <1>4, <1>7, <2>2 DEF LoadJson
        <3>2. reader.expect = {}
            BY <1>4, <1>7, <2>2, FileStates DEF FilesInv, SettledIs
        <3>3. ReaderIs'
            BY <3>1 DEF ReaderIs
        <3>4. Answers'
            BY <3>1, <3>2 DEF Answers, LoadsAreWhole, LastSaveIsLoaded
        <3> QED
            BY <3>3, <3>4
    <2> QED
        BY <2>1, <2>2
<1> QED
    BY <1>2, <1>3, <1>6, <1>7 DEF FilesInv, Load

(* Every step of save and load, a failure, a crash and damage keep what    *)
(* the files hold.                                                         *)
LEMMA InvKept == FilesInv /\ Answers /\ [FilesNext]_filesVars => FilesInv' /\ Answers'
<1> SUFFICES ASSUME FilesInv, Answers, [FilesNext]_filesVars
             PROVE  FilesInv' /\ Answers'
    OBVIOUS
<1>1. CASE Save
    BY <1>1, BeginKeeps, SaveKeeps DEF Save
<1>2. CASE UNCHANGED filesVars
    BY <1>2 DEF filesVars, FilesInv, SaveIs, JsonIs, BinaryIs, SettledIs, ReaderIs, NothingBut,
                Answers, LoadsAreWhole, LastSaveIsLoaded
<1> QED
    BY <1>1, <1>2, DamageKeeps, LoadKeeps DEF FilesNext

(* So it always holds. *)
LEMMA InvAlways == FilesSpec => [](FilesInv /\ Answers)
    BY InvHolds, InvKept, PTL DEF FilesSpec

(* load answers one whole tokenizer that was saved, whatever save fails or *)
(* is killed where and whatever the binary file suffers                    *)
(* (tokenizer.py:1310, 1353).                                              *)
THEOREM LoadedIsWhole == FilesSpec => []LoadsAreWhole
    BY InvAlways, PTL DEF Answers

(* A load that runs after a save that returned answers that save's         *)
(* tokenizer, or, if it was told to leave out the binary, answers it where *)
(* no older binary is (tokenizer.py:1322).                                 *)
THEOREM LoadedIsLast == FilesSpec => []LastSaveIsLoaded
    BY InvAlways, PTL DEF Answers
================================================================================
