------------------------ MODULE StreamingRegistryProofs ------------------------
(***************************************************************************)
(* Proofs about StreamingRegistry, for any set of requests, threads and    *)
(* state objects, any bound of the finished set and any holdback.          *)
(***************************************************************************)
EXTENDS StreamingRegistry, FiniteSetTheorems, SequenceTheorems, TLAPS

(***************************************************************************)
(* The two operators on the finished set.                                  *)
(***************************************************************************)

(* Forgetting keeps the order of the other ids: element j of the result is *)
(* element j or j + 1 of the original, and r is gone.                      *)
LEMMA ForgetFacts ==
    ASSUME NEW f \in Seq(Requests), NEW r \in Requests,
           \A i, j \in DOMAIN f : f[i] = f[j] => i = j
    PROVE  /\ Forget(f, r) \in Seq(Requests)
           /\ Len(Forget(f, r)) <= Len(f)
           /\ ~Remembered(Forget(f, r), r)
           /\ \A q \in Requests : q # r => (Remembered(Forget(f, r), q) <=> Remembered(f, q))
           /\ \A i, j \in DOMAIN Forget(f, r) :
                 \E k, l \in DOMAIN f :
                    /\ Forget(f, r)[i] = f[k] /\ Forget(f, r)[j] = f[l]
                    /\ i < j => k < l
                    /\ k = l => i = j
<1>1. CASE ~Remembered(f, r)
  BY <1>1 DEF Forget
<1>2. CASE Remembered(f, r)
  <2> DEFINE p == CHOOSE i \in DOMAIN f : f[i] = r
             up(j) == IF j < p THEN j ELSE j + 1
             g == [j \in 1..(Len(f) - 1) |-> IF j < p THEN f[j] ELSE f[j + 1]]
  <2>1. p \in 1..Len(f) /\ f[p] = r
    BY <1>2 DEF Remembered
  <2>2. Forget(f, r) = g
    BY <1>2 DEF Forget
  <2>3. Len(f) - 1 \in Nat /\ Len(f) \in Nat
    BY <2>1
  <2> HIDE DEF p
  <2>4. g \in Seq(Requests) /\ Len(g) = Len(f) - 1 /\ DOMAIN g = 1..(Len(f) - 1)
    <3>1. \A j \in 1..(Len(f) - 1) : (IF j < p THEN f[j] ELSE f[j + 1]) \in Requests
      BY <2>1, <2>3
    <3>2. g \in [1..(Len(f) - 1) -> Requests]
      BY <3>1
    <3>3. g \in Seq(Requests)
      BY <3>2, <2>3
    <3> QED BY <3>3, <2>3
  <2>5. \A j \in DOMAIN g : up(j) \in DOMAIN f /\ g[j] = f[up(j)] /\ up(j) # p
    BY <2>1, <2>3, <2>4
  <2>6. \A i, j \in DOMAIN g : (i < j => up(i) < up(j)) /\ (up(i) = up(j) => i = j)
    BY <2>1, <2>3, <2>4
  <2>7. ~Remembered(g, r)
    <3>1. \A j \in DOMAIN g : g[j] # r
      BY <2>1, <2>5
    <3> QED BY <3>1 DEF Remembered
  <2>8. ASSUME NEW q \in Requests, q # r
        PROVE  Remembered(g, q) <=> Remembered(f, q)
    <3>1. Remembered(g, q) => Remembered(f, q)
      BY <2>5 DEF Remembered
    <3>2. ASSUME NEW k \in DOMAIN f, f[k] = q PROVE Remembered(g, q)
      <4> DEFINE j == IF k < p THEN k ELSE k - 1
      <4>1. k # p
        BY <2>1, <2>8, <3>2
      <4>2. j \in DOMAIN g /\ up(j) = k
        BY <2>1, <2>3, <2>4, <4>1
      <4>3. g[j] = q
        BY <4>2, <2>5, <3>2
      <4> QED BY <4>2, <4>3 DEF Remembered
    <3> QED BY <3>1, <3>2 DEF Remembered
  <2>9. ASSUME NEW i \in DOMAIN g, NEW j \in DOMAIN g
        PROVE  \E k, l \in DOMAIN f : /\ g[i] = f[k] /\ g[j] = f[l]
                                      /\ i < j => k < l
                                      /\ k = l => i = j
    <3> WITNESS up(i) \in DOMAIN f, up(j) \in DOMAIN f
    <3> QED BY <2>5, <2>6
  <2> HIDE DEF g, up
  <2> QED BY <2>2, <2>3, <2>4, <2>7, <2>8, <2>9
<1> QED BY <1>1, <1>2

(* Marking either changes nothing, appends, or replaces the oldest id. *)
LEMMA MarkFacts ==
    ASSUME NEW f \in Seq(Requests), NEW r \in Requests, Len(f) <= MaxFinished,
           \A i, j \in DOMAIN f : f[i] = f[j] => i = j
    PROVE  LET g == MarkFinished(f, r)
           IN  /\ g \in Seq(Requests)
               /\ Len(g) <= MaxFinished
               /\ Remembered(g, r)
               /\ \A i, j \in DOMAIN g : g[i] = g[j] => i = j
               /\ \/ Remembered(f, r) /\ g = f
                  \/ /\ ~Remembered(f, r)
                     /\ Len(f) < MaxFinished
                     /\ Len(g) = Len(f) + 1
                     /\ \A i \in 1..Len(f) : g[i] = f[i]
                     /\ g[Len(g)] = r
                  \/ /\ ~Remembered(f, r)
                     /\ Len(f) = MaxFinished
                     /\ Len(g) = MaxFinished
                     /\ \A i \in 1..(MaxFinished - 1) : g[i] = f[i + 1]
                     /\ g[MaxFinished] = r
<1> USE RegistryAssumption
<1>1. CASE Remembered(f, r)
  BY <1>1 DEF MarkFinished
<1>2. CASE ~Remembered(f, r) /\ Len(f) < MaxFinished
  <2> DEFINE g == Append(f, r)
  <2>1. MarkFinished(f, r) = g /\ Len(g) = Len(f) + 1 /\ g \in Seq(Requests)
    BY <1>2, AppendProperties DEF MarkFinished
  <2>2. (\A i \in 1..Len(f) : g[i] = f[i]) /\ g[Len(f) + 1] = r
    BY AppendProperties
  <2> HIDE DEF g
  <2>3. Remembered(g, r)
    BY <2>1, <2>2 DEF Remembered
  <2>4. \A i \in 1..Len(f) : f[i] # r
    BY <1>2 DEF Remembered
  <2>5. ASSUME NEW i \in DOMAIN g, NEW j \in DOMAIN g, g[i] = g[j] PROVE i = j
    BY <2>1, <2>2, <2>4, <2>5
  <2> QED BY <1>2, <2>1, <2>2, <2>3, <2>5
<1>3. CASE ~Remembered(f, r) /\ Len(f) = MaxFinished
  <2> DEFINE a == Append(f, r)
             g == SubSeq(a, 2, MaxFinished + 1)
  <2>1. a \in Seq(Requests) /\ Len(a) = MaxFinished + 1
        /\ (\A i \in 1..Len(f) : a[i] = f[i]) /\ a[MaxFinished + 1] = r
    BY <1>3, AppendProperties
  <2>2. MarkFinished(f, r) = g
    BY <1>3, <2>1 DEF MarkFinished
  <2>3. \A i \in 2..(MaxFinished + 1) : a[i] \in Requests
    BY <2>1
  <2>4. /\ g \in Seq(Requests) /\ Len(g) = MaxFinished
        /\ \A i \in 1..MaxFinished : g[i] = a[i + 1]
    <3> HIDE DEF a
    <3>1. /\ SubSeq(a, 2, MaxFinished + 1) \in Seq(Requests)
          /\ Len(SubSeq(a, 2, MaxFinished + 1)) =
                IF 2 <= MaxFinished + 1 THEN MaxFinished + 1 - 2 + 1 ELSE 0
          /\ \A i \in 1 .. MaxFinished + 1 - 2 + 1 :
                SubSeq(a, 2, MaxFinished + 1)[i] = a[2 + i - 1]
      BY <2>3, SubSeqProperties
    <3> QED BY <3>1
  <2> HIDE DEF g
  <2>5. (\A i \in 1..(MaxFinished - 1) : g[i] = f[i + 1]) /\ g[MaxFinished] = r
    BY <1>3, <2>1, <2>4
  <2>6. Remembered(g, r)
    BY <2>4, <2>5 DEF Remembered
  <2>7. \A i \in 1..Len(f) : f[i] # r
    BY <1>3 DEF Remembered
  <2>8. ASSUME NEW i \in DOMAIN g, NEW j \in DOMAIN g, g[i] = g[j] PROVE i = j
    <3>1. i \in 1..MaxFinished /\ j \in 1..MaxFinished
      BY <2>4
    <3>2. CASE i < MaxFinished /\ j < MaxFinished
      BY <1>3, <2>5, <2>8, <3>1, <3>2
    <3>3. CASE i = MaxFinished \/ j = MaxFinished
      BY <1>3, <2>5, <2>7, <2>8, <3>1, <3>3
    <3> QED BY <3>1, <3>2, <3>3
  <2> QED BY <1>3, <2>2, <2>4, <2>5, <2>6, <2>8
<1> QED BY <1>1, <1>2, <1>3

--------------------------------------------------------------------------------
(***************************************************************************)
(* Type correctness.                                                       *)
(***************************************************************************)

(* The shape of the step outcomes: an object never holds more than MaxHeld. *)
LEMMA OutcomeType ==
    ASSUME NEW h \in 0..MaxHeld, NEW done \in BOOLEAN, NEW o \in StepOutcomes(h, done)
    PROVE  o.held \in 0..MaxHeld /\ o.done \in BOOLEAN
<1> USE RegistryAssumption DEF StepOutcomes
<1>1. CASE done
  <2>1. o = [held |-> h, done |-> TRUE]
    BY <1>1
  <2> QED BY <2>1
<1>2. CASE ~done
  <2>1. CASE o = [held |-> 0, done |-> TRUE]
    BY <2>1
  <2>2. CASE o # [held |-> 0, done |-> TRUE]
    <3>1. \E k \in 0..MaxHeld : o = [held |-> k, done |-> FALSE]
      BY <1>2, <2>2
    <3> QED BY <3>1
  <2> QED BY <2>1, <2>2
<1> QED BY <1>1, <1>2

(* Marking and forgetting keep the finished set a sequence of ids even     *)
(* where it is not known to be in bounds or without duplicates.            *)
LEMMA MarkForgetType ==
    ASSUME NEW f \in Seq(Requests), NEW r \in Requests
    PROVE  MarkFinished(f, r) \in Seq(Requests) /\ Forget(f, r) \in Seq(Requests)
<1> USE RegistryAssumption
<1>1. MarkFinished(f, r) \in Seq(Requests)
  <2> DEFINE g == Append(f, r)
             m == Len(g) - MaxFinished + 1
  <2>1. g \in Seq(Requests) /\ Len(g) \in Nat
    BY AppendProperties
  <2>2. CASE Len(g) > MaxFinished
    <3> HIDE DEF g
    <3>1. m \in Int /\ Len(g) \in Int /\ \A i \in m..Len(g) : g[i] \in Requests
      BY <2>1, <2>2
    <3>2. SubSeq(g, m, Len(g)) \in Seq(Requests)
      BY <3>1, SubSeqProperties
    <3> QED BY <2>2, <3>2 DEF MarkFinished, g
  <2>3. CASE ~(Len(g) > MaxFinished)
    BY <2>1, <2>3 DEF MarkFinished
  <2> QED BY <2>2, <2>3
<1>2. Forget(f, r) \in Seq(Requests)
  <2>1. CASE ~Remembered(f, r)
    BY <2>1 DEF Forget
  <2>2. CASE Remembered(f, r)
    <3> DEFINE p == CHOOSE i \in DOMAIN f : f[i] = r
               g == [j \in 1..(Len(f) - 1) |-> IF j < p THEN f[j] ELSE f[j + 1]]
    <3>1. p \in 1..Len(f) /\ Len(f) - 1 \in Nat
      BY <2>2 DEF Remembered
    <3>2. Forget(f, r) = g
      BY <2>2 DEF Forget
    <3> HIDE DEF p
    <3>3. \A j \in 1..(Len(f) - 1) : (IF j < p THEN f[j] ELSE f[j + 1]) \in Requests
      BY <3>1
    <3>4. g \in Seq(Requests)
      BY <3>1, <3>3
    <3> QED BY <3>2, <3>4
  <2> QED BY <2>1, <2>2
<1> QED BY <1>1, <1>2

(* A request's end keeps the types of what it changes. *)
LEMMA EndType ==
    ASSUME TypeOK, NEW r \in Requests, End(r)
    PROVE  /\ registry' \in [Requests -> States \cup {None}]
           /\ finished' \in Seq(Requests)
           /\ ended' \in [Requests -> BOOLEAN]
           /\ after' \in [Requests -> SUBSET Requests]
<1>1. finished' \in Seq(Requests)
  BY MarkForgetType DEF TypeOK, End
<1>2. after' \in [Requests -> SUBSET Requests]
  BY DEF TypeOK, End, RecordEnd
<1> QED BY <1>1, <1>2 DEF TypeOK, End, RecordEnd

(* Every call of the adapter keeps the types. *)
LEMMA TypeStep == TypeOK /\ [Next]_vars => TypeOK'
<1> SUFFICES ASSUME TypeOK, [Next]_vars PROVE TypeOK'
  OBVIOUS
<1> USE DEF TypeOK
<1>1. ASSUME NEW r \in Requests, InitRequest(r) PROVE TypeOK'
  <2>1. PICK s \in States :
            /\ registry' = [registry EXCEPT ![r] = s]
            /\ finished' = Forget(finished, r)
            /\ held' = [held EXCEPT ![s] = 0]
            /\ isFinished' = [isFinished EXCEPT ![s] = FALSE]
            /\ ended' = [ended EXCEPT ![r] = FALSE]
            /\ after' = [after EXCEPT ![r] = {}]
            /\ UNCHANGED flushing
    BY <1>1 DEF InitRequest
  <2>2. finished' \in Seq(Requests)
    BY <2>1, MarkForgetType
  <2>3. /\ held' \in [States -> 0..MaxHeld]
        /\ isFinished' \in [States -> BOOLEAN]
    BY <2>1, RegistryAssumption
  <2>4. /\ ended' \in [Requests -> BOOLEAN]
        /\ after' \in [Requests -> SUBSET Requests]
    BY <2>1
  <2> QED BY <2>1, <2>2, <2>3, <2>4
<1>2. ASSUME NEW r \in Requests, StepFinished(r) PROVE TypeOK'
  BY <1>2 DEF StepFinished, vars
<1>3. ASSUME NEW r \in Requests, StepActive(r) PROVE TypeOK'
  <2> DEFINE s == registry[r]
  <2>1. s \in States
    BY <1>3 DEF StepActive
  <2>2. PICK o \in StepOutcomes(held[s], isFinished[s]) :
            /\ held' = [held EXCEPT ![s] = o.held]
            /\ isFinished' = [isFinished EXCEPT ![s] = o.done]
            /\ IF o.done THEN End(r) ELSE UNCHANGED <<registry, finished, ended, after>>
    BY <1>3 DEF StepActive
  <2>3. held[s] \in 0..MaxHeld /\ isFinished[s] \in BOOLEAN
    BY <2>1
  <2>4. o.held \in 0..MaxHeld /\ o.done \in BOOLEAN
    BY <2>3, OutcomeType
  <2>5. held' \in [States -> 0..MaxHeld] /\ isFinished' \in [States -> BOOLEAN]
    BY <2>2, <2>4
  <2>6. CASE o.done
    BY <1>3, <2>2, <2>5, <2>6, EndType DEF StepActive
  <2>7. CASE ~o.done
    BY <1>3, <2>2, <2>5, <2>7 DEF StepActive
  <2> QED BY <2>6, <2>7
<1>4. ASSUME NEW r \in Requests, StepUnknown(r) PROVE TypeOK'
  <2>1. PICK s \in States, o \in StepOutcomes(0, FALSE) :
            /\ held' = [held EXCEPT ![s] = o.held]
            /\ isFinished' = [isFinished EXCEPT ![s] = o.done]
            /\ IF o.done THEN End(r)
               ELSE /\ registry' = [registry EXCEPT ![r] = s]
                    /\ UNCHANGED <<finished, ended, after>>
    BY <1>4 DEF StepUnknown
  <2>2. o.held \in 0..MaxHeld /\ o.done \in BOOLEAN
    <3>1. 0 \in 0..MaxHeld /\ FALSE \in BOOLEAN
      BY RegistryAssumption
    <3> QED BY <3>1, OutcomeType
  <2>3. held' \in [States -> 0..MaxHeld] /\ isFinished' \in [States -> BOOLEAN]
    BY <2>1, <2>2
  <2>4. CASE o.done
    BY <1>4, <2>1, <2>3, <2>4, EndType DEF StepUnknown
  <2>5. CASE ~o.done
    <3>1. registry' = [registry EXCEPT ![r] = s] /\ UNCHANGED <<finished, ended, after>>
      BY <2>1, <2>5
    <3>2. UNCHANGED flushing
      BY <1>4 DEF StepUnknown
    <3> QED BY <2>3, <3>1, <3>2
  <2> QED BY <2>4, <2>5
<1>5. ASSUME NEW r \in Requests, Abort(r) PROVE TypeOK'
  BY <1>5, EndType DEF Abort
<1>6. ASSUME NEW t \in Threads, NEW r \in Requests, NEW cleanup \in BOOLEAN,
             FlushBegin(t, r, cleanup)
      PROVE  TypeOK'
  <2>1. flushing' \in [Threads -> States \cup {None}]
    BY <1>6 DEF FlushBegin
  <2>2. CASE cleanup
    BY <1>6, <2>1, <2>2, EndType DEF FlushBegin
  <2>3. CASE ~cleanup
    BY <1>6, <2>1, <2>3 DEF FlushBegin
  <2> QED BY <2>2, <2>3
<1>7. ASSUME NEW t \in Threads, FlushEnd(t) PROVE TypeOK'
  BY <1>7, RegistryAssumption DEF FlushEnd
<1>8. CASE ClearAll
  BY <1>8 DEF ClearAll
<1>9. CASE UNCHANGED vars
  BY <1>9 DEF vars
<1> QED BY <1>1, <1>2, <1>3, <1>4, <1>5, <1>6, <1>7, <1>8, <1>9 DEF Next

(* Every reachable state has the dictionaries' types: in particular no     *)
(* object ever holds back more than the longest stop prefix and an         *)
(* incomplete character.                                                   *)
THEOREM TypeCorrect == Spec => []TypeOK
<1>1. Init => TypeOK
  BY RegistryAssumption DEF Init, TypeOK
<1> QED BY <1>1, TypeStep, PTL DEF Spec

--------------------------------------------------------------------------------
(***************************************************************************)
(* The invariants of the two dictionaries.                                 *)
(***************************************************************************)

(* An id is registered without touching the finished set: what the         *)
(* implicit init of a late token does.                                     *)
OpenUnknown(r) ==
    /\ ~Remembered(finished, r)
    /\ \E s \in States : registry' = [registry EXCEPT ![r] = s]
    /\ UNCHANGED <<finished, ended, after>>

(* All that a step can do to the dictionaries and to the history. *)
LEMMA DictionaryStep ==
    ASSUME [Next]_vars
    PROVE  \/ UNCHANGED <<registry, finished, ended, after>>
           \/ \E r \in Requests : End(r)
           \/ \E r \in Requests : OpenUnknown(r)
           \/ \E r \in Requests : InitRequest(r)
           \/ ClearAll
<1>1. ASSUME NEW r \in Requests, StepActive(r)
      PROVE  End(r) \/ UNCHANGED <<registry, finished, ended, after>>
  BY <1>1 DEF StepActive
<1>2. ASSUME NEW r \in Requests, StepUnknown(r)
      PROVE  End(r) \/ OpenUnknown(r)
  <2>1. PICK s \in States, o \in StepOutcomes(0, FALSE) :
            IF o.done THEN End(r)
            ELSE /\ registry' = [registry EXCEPT ![r] = s]
                 /\ UNCHANGED <<finished, ended, after>>
    BY <1>2 DEF StepUnknown
  <2>2. CASE o.done
    BY <2>1, <2>2
  <2>3. CASE ~o.done
    BY <1>2, <2>1, <2>3 DEF StepUnknown, OpenUnknown
  <2> QED BY <2>2, <2>3
<1>3. ASSUME NEW t \in Threads, NEW r \in Requests, NEW cleanup \in BOOLEAN,
             FlushBegin(t, r, cleanup)
      PROVE  End(r) \/ UNCHANGED <<registry, finished, ended, after>>
  BY <1>3 DEF FlushBegin
<1>4. ASSUME NEW r \in Requests, StepFinished(r)
      PROVE  UNCHANGED <<registry, finished, ended, after>>
  BY <1>4 DEF StepFinished, vars
<1>5. ASSUME NEW t \in Threads, FlushEnd(t)
      PROVE  UNCHANGED <<registry, finished, ended, after>>
  BY <1>5 DEF FlushEnd
<1>6. ASSUME NEW r \in Requests, Abort(r)
      PROVE  End(r)
  BY <1>6 DEF Abort
<1>7. CASE UNCHANGED vars
  BY <1>7 DEF vars
<1> QED BY <1>1, <1>2, <1>3, <1>4, <1>5, <1>6, <1>7 DEF Next

(* Ids newly marked since r was: finitely many, whatever Requests is. *)
AfterFinite == \A r \in Requests : IsFiniteSet(after[r])

(* The inductive invariant.  EndedIsRemembered needs FinishedInOrder (the  *)
(* ids behind an evicted one were marked after it), which needs the        *)
(* absence of duplicates; counting them needs after[r] to be finite.       *)
IInv ==
    /\ TypeOK
    /\ ActiveNotFinished
    /\ FinishedIsBoundedSet
    /\ FinishedInOrder
    /\ AfterFinite
    /\ EndedIsRemembered

(* r is marked: it is now in the set, the set stays within its bound and   *)
(* in order, and only the oldest id can have gone.                         *)
LEMMA EndKeeps ==
    ASSUME IInv, NEW r \in Requests, End(r)
    PROVE  /\ ActiveNotFinished'
           /\ FinishedIsBoundedSet'
           /\ FinishedInOrder'
           /\ AfterFinite'
           /\ EndedIsRemembered'
<1> DEFINE g == MarkFinished(finished, r)
<1> USE RegistryAssumption
<1>1. /\ finished' = g /\ finished \in Seq(Requests)
      /\ Len(finished) <= MaxFinished
      /\ \A i, j \in DOMAIN finished : finished[i] = finished[j] => i = j
  BY DEF End, IInv, TypeOK, FinishedIsBoundedSet
<1>2. /\ g \in Seq(Requests)
      /\ Len(g) <= MaxFinished
      /\ Remembered(g, r)
      /\ \A i, j \in DOMAIN g : g[i] = g[j] => i = j
      /\ \/ Remembered(finished, r) /\ g = finished
         \/ /\ ~Remembered(finished, r)
            /\ Len(finished) < MaxFinished
            /\ Len(g) = Len(finished) + 1
            /\ \A i \in 1..Len(finished) : g[i] = finished[i]
            /\ g[Len(g)] = r
         \/ /\ ~Remembered(finished, r)
            /\ Len(finished) = MaxFinished
            /\ Len(g) = MaxFinished
            /\ \A i \in 1..(MaxFinished - 1) : g[i] = finished[i + 1]
            /\ g[MaxFinished] = r
  BY <1>1, MarkFacts
<1> HIDE DEF g
<1>3. FinishedIsBoundedSet'
  BY <1>1, <1>2 DEF FinishedIsBoundedSet
<1>4. /\ registry' = [registry EXCEPT ![r] = None]
      /\ ended' = [ended EXCEPT ![r] = TRUE]
      /\ registry \in [Requests -> States \cup {None}]
      /\ ended \in [Requests -> BOOLEAN]
      /\ after \in [Requests -> SUBSET Requests]
      /\ Remembered(finished, r) => after' = after
      /\ ~Remembered(finished, r) =>
            after' = [q \in Requests |-> IF q = r THEN {} ELSE after[q] \cup {r}]
  BY DEF End, RecordEnd, IInv, TypeOK
<1>5. \A q \in Requests : q # r /\ Remembered(g, q) => Remembered(finished, q)
  BY <1>1, <1>2 DEF Remembered
<1>6. ActiveNotFinished'
  <2> SUFFICES ASSUME NEW q \in Requests, registry'[q] # None
               PROVE  ~Remembered(finished', q)
    BY DEF ActiveNotFinished
  <2>1. q # r /\ registry[q] # None
    BY <1>4
  <2> QED BY <1>1, <1>5, <2>1 DEF IInv, ActiveNotFinished
<1>7. AfterFinite'
  <2>1. CASE Remembered(finished, r)
    BY <1>4, <2>1 DEF IInv, AfterFinite
  <2>2. CASE ~Remembered(finished, r)
    <3> SUFFICES ASSUME NEW q \in Requests PROVE IsFiniteSet(after'[q])
      BY DEF AfterFinite
    <3>1. CASE q = r
      BY <1>4, <2>2, <3>1, FS_EmptySet
    <3>2. CASE q # r
      <4>1. IsFiniteSet(after[q])
        BY DEF IInv, AfterFinite
      <4>2. IsFiniteSet(after[q] \cup {r})
        BY <4>1, FS_AddElement
      <4> QED BY <1>4, <2>2, <3>2, <4>2
    <3> QED BY <3>1, <3>2
  <2> QED BY <2>1, <2>2
<1>8. FinishedInOrder'
  <2>1. CASE Remembered(finished, r)
    BY <1>1, <1>2, <1>4, <2>1 DEF IInv, FinishedInOrder
  <2>2. CASE ~Remembered(finished, r)
    <3> SUFFICES ASSUME NEW i \in DOMAIN g, NEW j \in DOMAIN g, i < j
                 PROVE  g[j] \in after'[g[i]]
      BY <1>1 DEF FinishedInOrder
    <3>1. g[i] # r
      BY <1>2, <2>2
    <3>2. g[i] \in Requests /\ after'[g[i]] = after[g[i]] \cup {r}
      BY <1>2, <1>4, <2>2, <3>1
    <3>3. CASE g[j] = r
      BY <3>2, <3>3
    <3>4. CASE g[j] # r
      <4>1. \E k, l \in DOMAIN finished : k < l /\ g[i] = finished[k] /\ g[j] = finished[l]
        <5>1. CASE Len(finished) < MaxFinished
          BY <1>1, <1>2, <2>2, <3>1, <3>4, <5>1
        <5>2. CASE Len(finished) = MaxFinished
          <6>1. i \in 1..(MaxFinished - 1) /\ j \in 1..(MaxFinished - 1)
            BY <1>2, <2>2, <3>1, <3>4, <5>2
          <6>2. i + 1 \in DOMAIN finished /\ j + 1 \in DOMAIN finished /\ i + 1 < j + 1
            BY <1>1, <5>2, <6>1
          <6>3. g[i] = finished[i + 1] /\ g[j] = finished[j + 1]
            BY <1>2, <2>2, <5>2, <6>1
          <6> QED BY <6>2, <6>3
        <5> QED BY <1>1, <5>1, <5>2
      <4>2. g[j] \in after[g[i]]
        BY <4>1 DEF IInv, FinishedInOrder
      <4> QED BY <3>2, <4>2
    <3> QED BY <3>3, <3>4
  <2> QED BY <2>1, <2>2
<1>9. EndedIsRemembered'
  <2> SUFFICES ASSUME NEW q \in Requests, ended'[q], ~Remembered(g, q)
               PROVE  Cardinality(after'[q]) >= MaxFinished
    BY <1>1 DEF EndedIsRemembered
  <2>1. q # r /\ ended[q]
    BY <1>2, <1>4
  <2>2. IsFiniteSet(after[q]) /\ IsFiniteSet(after'[q])
    BY <1>7 DEF IInv, AfterFinite
  <2>3. CASE Remembered(finished, q)
    \* q was the oldest id of a full set: MaxFinished ids now follow it.
    <3>1. /\ ~Remembered(finished, r) /\ Len(finished) = MaxFinished
          /\ \A i \in 1..(MaxFinished - 1) : g[i] = finished[i + 1]
          /\ g[MaxFinished] = r /\ Len(g) = MaxFinished
      <4>1. ~Remembered(finished, r)
        BY <1>1, <1>2, <2>3
      <4>2. ~(Len(finished) < MaxFinished)
        BY <1>1, <1>2, <2>3, <4>1 DEF Remembered
      <4> QED BY <1>1, <1>2, <4>1, <4>2
    <3>2. after'[q] = after[q] \cup {r}
      BY <1>4, <2>1, <3>1
    <3>3. q = finished[1]
      <4>1. PICK k \in DOMAIN finished : finished[k] = q
        BY <2>3 DEF Remembered
      <4>2. k \in 1..MaxFinished
        BY <1>1, <3>1
      <4>3. CASE k > 1
        <5>1. k - 1 \in 1..(MaxFinished - 1)
          BY <4>2, <4>3
        <5>2. g[k - 1] = q
          BY <3>1, <4>1, <5>1
        <5>3. k - 1 \in DOMAIN g
          BY <1>2, <3>1, <5>1
        <5> QED BY <5>2, <5>3 DEF Remembered
      <4> QED BY <4>1, <4>2, <4>3
    <3>4. \A i \in 1..MaxFinished : g[i] \in after'[q]
      <4> SUFFICES ASSUME NEW i \in 1..MaxFinished PROVE g[i] \in after'[q]
        OBVIOUS
      <4>1. CASE i = MaxFinished
        BY <3>1, <3>2, <4>1
      <4>2. CASE i # MaxFinished
        <5>1. i \in 1..(MaxFinished - 1) /\ i + 1 \in DOMAIN finished /\ 1 \in DOMAIN finished /\ 1 < i + 1
          BY <1>1, <3>1, <4>2
        <5>2. finished[i + 1] \in after[finished[1]]
          BY <5>1 DEF IInv, FinishedInOrder
        <5> QED BY <3>1, <3>2, <3>3, <5>1, <5>2
      <4> QED BY <4>1, <4>2
    <3>5. g \in Injection(1..MaxFinished, after'[q])
      <4>1. DOMAIN g = 1..MaxFinished /\ g = [i \in 1..MaxFinished |-> g[i]]
        BY <1>2, <3>1
      <4>2. g \in [1..MaxFinished -> after'[q]]
        BY <3>4, <4>1
      <4> QED BY <1>2, <4>1, <4>2 DEF Injection, IsInjective
    <3>6. Cardinality(1..MaxFinished) <= Cardinality(after'[q])
      BY <2>2, <3>5, FS_Injection
    <3>7. Cardinality(1..MaxFinished) = MaxFinished
      BY FS_Interval
    <3>8. Cardinality(after'[q]) \in Nat
      BY <2>2, FS_CardinalityType
    <3> QED BY <3>6, <3>7, <3>8
  <2>4. CASE ~Remembered(finished, q)
    <3>1. Cardinality(after[q]) >= MaxFinished
      BY <2>1, <2>4 DEF IInv, EndedIsRemembered
    <3>2. after[q] \subseteq after'[q]
      BY <1>4, <2>1
    <3>3. Cardinality(after[q]) <= Cardinality(after'[q])
      BY <2>2, <3>2, FS_Subset
    <3>4. Cardinality(after[q]) \in Nat /\ Cardinality(after'[q]) \in Nat
      BY <2>2, FS_CardinalityType
    <3> QED BY <3>1, <3>3, <3>4
  <2> QED BY <2>3, <2>4
<1> QED BY <1>3, <1>6, <1>7, <1>8, <1>9

(* r is registered explicitly: it leaves the finished set, whose other ids *)
(* stay in order.                                                          *)
LEMMA InitKeeps ==
    ASSUME IInv, NEW r \in Requests, InitRequest(r)
    PROVE  /\ ActiveNotFinished'
           /\ FinishedIsBoundedSet'
           /\ FinishedInOrder'
           /\ AfterFinite'
           /\ EndedIsRemembered'
<1> DEFINE g == Forget(finished, r)
<1> USE RegistryAssumption
<1>1. /\ finished' = g /\ finished \in Seq(Requests)
      /\ Len(finished) <= MaxFinished
      /\ \A i, j \in DOMAIN finished : finished[i] = finished[j] => i = j
  BY DEF InitRequest, IInv, TypeOK, FinishedIsBoundedSet
<1>2. /\ g \in Seq(Requests)
      /\ Len(g) <= Len(finished)
      /\ ~Remembered(g, r)
      /\ \A q \in Requests : q # r => (Remembered(g, q) <=> Remembered(finished, q))
      /\ \A i, j \in DOMAIN g :
            \E k, l \in DOMAIN finished :
               /\ g[i] = finished[k] /\ g[j] = finished[l]
               /\ i < j => k < l
               /\ k = l => i = j
  BY <1>1, ForgetFacts
<1> HIDE DEF g
<1>3. /\ \E s \in States : registry' = [registry EXCEPT ![r] = s]
      /\ ended' = [ended EXCEPT ![r] = FALSE]
      /\ after' = [after EXCEPT ![r] = {}]
      /\ registry \in [Requests -> States \cup {None}]
      /\ ended \in [Requests -> BOOLEAN]
      /\ after \in [Requests -> SUBSET Requests]
  BY DEF InitRequest, IInv, TypeOK
<1>4. ActiveNotFinished'
  <2> SUFFICES ASSUME NEW q \in Requests, registry'[q] # None
               PROVE  ~Remembered(g, q)
    BY <1>1 DEF ActiveNotFinished
  <2>1. CASE q = r
    BY <1>2, <2>1
  <2>2. CASE q # r
    <3>1. registry[q] # None
      BY <1>3, <2>2
    <3> QED BY <1>2, <2>2, <3>1 DEF IInv, ActiveNotFinished
  <2> QED BY <2>1, <2>2
<1>5. FinishedIsBoundedSet'
  <2>1. Len(g) <= MaxFinished
    BY <1>1, <1>2
  <2>2. ASSUME NEW i \in DOMAIN g, NEW j \in DOMAIN g, g[i] = g[j] PROVE i = j
    BY <1>1, <1>2, <2>2
  <2> QED BY <1>1, <2>1, <2>2 DEF FinishedIsBoundedSet
<1>6. FinishedInOrder'
  <2> SUFFICES ASSUME NEW i \in DOMAIN g, NEW j \in DOMAIN g, i < j
               PROVE  g[j] \in after'[g[i]]
    BY <1>1 DEF FinishedInOrder
  <2>1. PICK k, l \in DOMAIN finished : g[i] = finished[k] /\ g[j] = finished[l] /\ k < l
    BY <1>2
  <2>2. g[j] \in after[g[i]]
    BY <2>1 DEF IInv, FinishedInOrder
  <2>3. g[i] # r /\ g[i] \in Requests
    BY <1>2 DEF Remembered
  <2> QED BY <1>3, <2>2, <2>3
<1>7. AfterFinite'
  <2> SUFFICES ASSUME NEW q \in Requests PROVE IsFiniteSet(after'[q])
    BY DEF AfterFinite
  <2>1. CASE q = r
    BY <1>3, <2>1, FS_EmptySet
  <2>2. CASE q # r
    BY <1>3, <2>2 DEF IInv, AfterFinite
  <2> QED BY <2>1, <2>2
<1>8. EndedIsRemembered'
  <2> SUFFICES ASSUME NEW q \in Requests, ended'[q], ~Remembered(g, q)
               PROVE  Cardinality(after'[q]) >= MaxFinished
    BY <1>1 DEF EndedIsRemembered
  <2>1. q # r /\ ended[q] /\ after'[q] = after[q]
    BY <1>3
  <2> QED BY <1>2, <2>1 DEF IInv, EndedIsRemembered
<1> QED BY <1>4, <1>5, <1>6, <1>7, <1>8

(* Every call of the adapter keeps the inductive invariant. *)
LEMMA InvariantStep == IInv /\ [Next]_vars => IInv'
<1> SUFFICES ASSUME IInv, [Next]_vars PROVE IInv'
  OBVIOUS
<1>1. TypeOK'
  BY TypeStep DEF IInv
<1>2. CASE UNCHANGED <<registry, finished, ended, after>>
  <2>1. /\ ActiveNotFinished' /\ FinishedIsBoundedSet' /\ FinishedInOrder'
        /\ AfterFinite' /\ EndedIsRemembered'
    BY <1>2 DEF IInv, ActiveNotFinished, FinishedIsBoundedSet, FinishedInOrder,
                AfterFinite, EndedIsRemembered, Remembered
  <2> QED BY <1>1, <2>1 DEF IInv
<1>3. ASSUME NEW r \in Requests, End(r) PROVE IInv'
  BY <1>1, <1>3, EndKeeps DEF IInv
<1>4. ASSUME NEW r \in Requests, OpenUnknown(r) PROVE IInv'
  <2>1. ActiveNotFinished'
    <3> SUFFICES ASSUME NEW q \in Requests, registry'[q] # None
                 PROVE  ~Remembered(finished, q)
      BY <1>4 DEF ActiveNotFinished, OpenUnknown, Remembered
    <3>1. CASE q = r
      BY <1>4, <3>1 DEF OpenUnknown
    <3>2. CASE q # r
      <4>1. registry[q] # None
        BY <1>4, <3>2 DEF OpenUnknown, IInv, TypeOK
      <4> QED BY <4>1 DEF IInv, ActiveNotFinished
    <3> QED BY <3>1, <3>2
  <2>2. /\ FinishedIsBoundedSet' /\ FinishedInOrder' /\ AfterFinite' /\ EndedIsRemembered'
    BY <1>4 DEF OpenUnknown, IInv, FinishedIsBoundedSet, FinishedInOrder, AfterFinite,
                EndedIsRemembered, Remembered
  <2> QED BY <1>1, <2>1, <2>2 DEF IInv
<1>5. ASSUME NEW r \in Requests, InitRequest(r) PROVE IInv'
  BY <1>1, <1>5, InitKeeps DEF IInv
<1>6. CASE ClearAll
  <2>1. /\ registry' = [r \in Requests |-> None]
        /\ finished' = <<>>
        /\ ended' = [r \in Requests |-> FALSE]
        /\ after' = [r \in Requests |-> {}]
    BY <1>6 DEF ClearAll
  <2>2. ActiveNotFinished' /\ FinishedIsBoundedSet' /\ FinishedInOrder' /\ EndedIsRemembered'
    BY <2>1, RegistryAssumption
       DEF ActiveNotFinished, FinishedIsBoundedSet, FinishedInOrder, EndedIsRemembered
  <2>3. AfterFinite'
    BY <2>1, FS_EmptySet DEF AfterFinite
  <2> QED BY <1>1, <2>2, <2>3 DEF IInv
<1> QED BY <1>2, <1>3, <1>4, <1>5, <1>6, DictionaryStep

(* A new adapter has no request, active or finished. *)
LEMMA InvariantInit == Init => IInv
<1> SUFFICES ASSUME Init PROVE IInv
  OBVIOUS
<1>1. TypeOK
  BY RegistryAssumption DEF Init, TypeOK
<1>2. ActiveNotFinished /\ FinishedIsBoundedSet /\ FinishedInOrder /\ EndedIsRemembered
  BY RegistryAssumption
     DEF Init, ActiveNotFinished, FinishedIsBoundedSet, FinishedInOrder, EndedIsRemembered
<1>3. AfterFinite
  BY FS_EmptySet DEF Init, AfterFinite
<1> QED BY <1>1, <1>2, <1>3 DEF IInv

(* So the inductive invariant always holds. *)
LEMMA Inductive == Spec => []IInv
BY InvariantInit, InvariantStep, PTL DEF Spec

(* No id is ever active and finished at once, so step_streaming never      *)
(* swallows the tokens of a live stream.                                   *)
THEOREM ActiveNeverFinished == Spec => []ActiveNotFinished
<1>1. IInv => ActiveNotFinished
  BY DEF IInv
<1> QED BY <1>1, Inductive, PTL

(* The finished set never outgrows its bound nor holds an id twice. *)
THEOREM FinishedBounded == Spec => []FinishedIsBoundedSet
<1>1. IInv => FinishedIsBoundedSet
  BY DEF IInv
<1> QED BY <1>1, Inductive, PTL

(* A request that ended is forgotten only after MaxFinished distinct other *)
(* ids ended, whatever is re-registered, aborted again or flushed between. *)
THEOREM EndedRemembered == Spec => []EndedIsRemembered
<1>1. IInv => EndedIsRemembered
  BY DEF IInv
<1> QED BY <1>1, Inductive, PTL

(* The order of the finished set is the order in which its ids ended. *)
THEOREM FinishedOrdered == Spec => []FinishedInOrder
<1>1. IInv => FinishedInOrder
  BY DEF IInv
<1> QED BY <1>1, Inductive, PTL

(* The finished set is a queue of distinct ids in the order of their ends, *)
(* within its bound, whatever the threads call.                            *)
THEOREM RegistryOrdered == Spec => []RegistryIsOrdered
<1>1. TypeOK /\ FinishedIsBoundedSet /\ FinishedInOrder => RegistryIsOrdered
  BY DEF RegistryIsOrdered
<1> QED BY <1>1, TypeCorrect, FinishedBounded, FinishedOrdered, PTL

--------------------------------------------------------------------------------
(***************************************************************************)
(* No text is left behind.                                                 *)
(***************************************************************************)

(* A finished object has nothing left to return. *)
FinishedHoldsNothing == \A s \in States : isFinished[s] => held[s] = 0

(* A stream that is finished has had its decoder flushed, and no call      *)
(* fills it again.                                                         *)
LEMMA FinishedHoldsNothingStep ==
    TypeOK /\ FinishedHoldsNothing /\ [Next]_vars => FinishedHoldsNothing'
<1> SUFFICES ASSUME TypeOK, FinishedHoldsNothing, [Next]_vars
             PROVE  FinishedHoldsNothing'
  OBVIOUS
<1> USE DEF FinishedHoldsNothing, TypeOK
<1>1. ASSUME NEW r \in Requests, InitRequest(r)
      PROVE  FinishedHoldsNothing'
  BY <1>1 DEF InitRequest
<1>2. ASSUME NEW r \in Requests, StepActive(r)
      PROVE  FinishedHoldsNothing'
  <2> DEFINE u == registry[r]
  <2>1. u \in States
    BY <1>2 DEF StepActive
  <2>2. PICK o \in StepOutcomes(held[u], isFinished[u]) :
            /\ held' = [held EXCEPT ![u] = o.held]
            /\ isFinished' = [isFinished EXCEPT ![u] = o.done]
    BY <1>2 DEF StepActive
  <2>3. o.done => o.held = 0
    BY <2>1 DEF StepOutcomes
  <2> HIDE DEF u
  <2> QED BY <2>1, <2>2, <2>3
<1>3. ASSUME NEW r \in Requests, StepUnknown(r)
      PROVE  FinishedHoldsNothing'
  <2>1. PICK s \in States, o \in StepOutcomes(0, FALSE) :
            /\ held' = [held EXCEPT ![s] = o.held]
            /\ isFinished' = [isFinished EXCEPT ![s] = o.done]
    BY <1>3 DEF StepUnknown
  <2>2. o.done => o.held = 0
    BY DEF StepOutcomes
  <2> QED BY <2>1, <2>2
<1>4. ASSUME NEW t \in Threads, FlushEnd(t)
      PROVE  FinishedHoldsNothing'
  BY <1>4 DEF FlushEnd
<1>5. CASE UNCHANGED <<held, isFinished>>
  BY <1>5
<1>6. ASSUME NEW t \in Threads, NEW r \in Requests, NEW cleanup \in BOOLEAN,
             FlushBegin(t, r, cleanup)
      PROVE  UNCHANGED <<held, isFinished>>
  BY <1>6 DEF FlushBegin
<1>7. ASSUME NEW r \in Requests, StepFinished(r) \/ Abort(r)
      PROVE  UNCHANGED <<held, isFinished>>
  BY <1>7 DEF StepFinished, Abort, vars
<1>8. ClearAll \/ UNCHANGED vars => UNCHANGED <<held, isFinished>>
  BY DEF ClearAll, vars
<1> QED BY <1>1, <1>2, <1>3, <1>4, <1>5, <1>6, <1>7, <1>8 DEF Next

(* A stream leaves the registry only with its text returned, or because    *)
(* its caller gave it up.                                                  *)
LEMMA TextStep ==
    ASSUME TypeOK, FinishedHoldsNothing, [Next]_vars,
           NEW s \in States, InUse(s), ~InUse(s)'
    PROVE  ReturnedOrGivenUp(s)
<1> USE RegistryAssumption DEF TypeOK
<1>1. ASSUME NEW r \in Requests, InitRequest(r)
      PROVE  ReturnedOrGivenUp(s)
  <2>1. registry[r] = s
    BY <1>1 DEF InitRequest, InUse
  <2> QED BY <1>1, <2>1 DEF ReturnedOrGivenUp
<1>2. ASSUME NEW r \in Requests, StepActive(r)
      PROVE  ReturnedOrGivenUp(s)
  <2> DEFINE u == registry[r]
  <2>1. u \in States
    BY <1>2 DEF StepActive
  <2>2. PICK o \in StepOutcomes(held[u], isFinished[u]) :
            /\ held' = [held EXCEPT ![u] = o.held]
            /\ isFinished' = [isFinished EXCEPT ![u] = o.done]
            /\ IF o.done THEN End(r) ELSE UNCHANGED <<registry, finished, ended, after>>
            /\ UNCHANGED flushing
    BY <1>2 DEF StepActive
  <2>3. o.done => o.held = 0
    BY <2>1 DEF StepOutcomes, FinishedHoldsNothing
  <2>4. o.done /\ u = s
    BY <2>2 DEF End, InUse
  <2>5. isFinished'[s] /\ held'[s] = 0
    BY <2>1, <2>2, <2>3, <2>4
  <2> QED BY <2>5 DEF ReturnedOrGivenUp
<1>3. ASSUME NEW r \in Requests, StepUnknown(r)
      PROVE  FALSE
  <2>1. PICK x \in States, o \in StepOutcomes(0, FALSE) :
            IF o.done THEN End(r)
            ELSE registry' = [registry EXCEPT ![r] = x]
    BY <1>3 DEF StepUnknown
  <2>2. registry[r] = None /\ UNCHANGED flushing
    BY <1>3 DEF StepUnknown
  <2> QED BY <2>1, <2>2 DEF End, InUse
<1>4. ASSUME NEW t \in Threads, NEW r \in Requests, NEW cleanup \in BOOLEAN,
             FlushBegin(t, r, cleanup)
      PROVE  FALSE
  <2>1. /\ flushing[t] = None
        /\ flushing' = [flushing EXCEPT ![t] = registry[r]]
        /\ registry' = registry \/ registry' = [registry EXCEPT ![r] = None]
    BY <1>4 DEF FlushBegin, End
  <2> QED BY <2>1 DEF InUse
<1>5. ASSUME NEW t \in Threads, FlushEnd(t)
      PROVE  ReturnedOrGivenUp(s)
  <2>1. flushing[t] = s
    BY <1>5 DEF FlushEnd, InUse
  <2>2. isFinished'[s] /\ held'[s] = 0
    BY <1>5, <2>1 DEF FlushEnd, FinishedHoldsNothing
  <2> QED BY <2>2 DEF ReturnedOrGivenUp
<1>6. ASSUME NEW r \in Requests, Abort(r)
      PROVE  ReturnedOrGivenUp(s)
  <2>1. registry[r] = s
    BY <1>6 DEF Abort, End, InUse
  <2> QED BY <1>6, <2>1 DEF ReturnedOrGivenUp
<1>7. CASE ClearAll
  BY <1>7 DEF ReturnedOrGivenUp
<1>8. ASSUME UNCHANGED <<registry, flushing>>
      PROVE  FALSE
  BY <1>8 DEF InUse
<1>9. ASSUME NEW r \in Requests, StepFinished(r)
      PROVE  FALSE
  BY <1>8, <1>9 DEF StepFinished, vars
<1> QED BY <1>1, <1>2, <1>3, <1>4, <1>5, <1>6, <1>7, <1>8, <1>9 DEF Next, vars

(* Whatever the threads interleave, an object goes out of use with all its *)
(* text returned unless its request was aborted, registered again or       *)
(* cleared: flushing outside the lock loses no text.                       *)
THEOREM TextIsReturned == Spec => NoTextLeftBehind
<1>1. Init => FinishedHoldsNothing
  BY DEF Init, FinishedHoldsNothing
<1>2. TypeOK /\ FinishedHoldsNothing /\ [Next]_vars =>
          [\A s \in States : InUse(s) /\ ~InUse(s)' => ReturnedOrGivenUp(s)]_vars
  BY TextStep
<1> QED BY <1>1, <1>2, FinishedHoldsNothingStep, TypeCorrect, PTL DEF Spec, NoTextLeftBehind

--------------------------------------------------------------------------------
(***************************************************************************)
(* The registry implements RequestLifecycle.                               *)
(***************************************************************************)

(* The abstract memory holds exactly the ids of the finished set. *)
LEMMA EndedCount ==
    ASSUME IInv
    PROVE  /\ Lifecycle!Ended = {r \in Requests : Remembered(finished, r)}
           /\ Cardinality(Lifecycle!Ended) = Len(finished)
<1> DEFINE E == {r \in Requests : Remembered(finished, r)}
<1>1. Lifecycle!Ended = E
  BY DEF IInv, ActiveNotFinished, Lifecycle!Ended, Phase
<1>2. finished \in Seq(Requests) /\ Len(finished) \in Nat /\ DOMAIN finished = 1..Len(finished)
  BY DEF IInv, TypeOK
<1>3. finished \in [1..Len(finished) -> E]
  <2>1. finished = [i \in 1..Len(finished) |-> finished[i]]
    BY <1>2
  <2>2. \A i \in 1..Len(finished) : finished[i] \in E
    BY <1>2 DEF Remembered
  <2> QED BY <2>1, <2>2
<1>4. finished \in Surjection(1..Len(finished), E)
  BY <1>2, <1>3 DEF Surjection, Remembered
<1>5. finished \in Injection(1..Len(finished), E)
  BY <1>2, <1>3 DEF Injection, IsInjective, IInv, FinishedIsBoundedSet
<1>6. /\ IsFiniteSet(1..Len(finished))
      /\ Cardinality(1..Len(finished)) = Len(finished)
  BY <1>2, FS_Interval
<1>7. Cardinality(E) = Cardinality(1..Len(finished))
  BY <1>4, <1>5, <1>6, FS_Surjection
<1> QED BY <1>1, <1>6, <1>7

(* Every call is a step of the life cycle of the requests, or changes no   *)
(* phase.                                                                  *)
LEMMA RefinementStep ==
    ASSUME IInv, [Next]_vars
    PROVE  [Lifecycle!Next]_Phase
<1>1. CASE UNCHANGED <<registry, finished, ended, after>>
  BY <1>1 DEF Phase, Remembered
<1>2. ASSUME NEW r \in Requests, End(r)
      PROVE  Lifecycle!Next
  <2> DEFINE g == MarkFinished(finished, r)
  <2>1. /\ finished' = g /\ finished \in Seq(Requests)
        /\ Len(finished) <= MaxFinished
        /\ \A i, j \in DOMAIN finished : finished[i] = finished[j] => i = j
        /\ registry \in [Requests -> States \cup {None}]
        /\ registry' = [registry EXCEPT ![r] = None]
    BY <1>2 DEF End, IInv, TypeOK, FinishedIsBoundedSet
  <2>2. /\ g \in Seq(Requests)
        /\ Len(g) <= MaxFinished
        /\ Remembered(g, r)
        /\ \/ Remembered(finished, r) /\ g = finished
           \/ /\ ~Remembered(finished, r)
              /\ Len(finished) < MaxFinished
              /\ Len(g) = Len(finished) + 1
              /\ \A i \in 1..Len(finished) : g[i] = finished[i]
              /\ g[Len(g)] = r
           \/ /\ ~Remembered(finished, r)
              /\ Len(finished) = MaxFinished
              /\ Len(g) = MaxFinished
              /\ \A i \in 1..(MaxFinished - 1) : g[i] = finished[i + 1]
              /\ g[MaxFinished] = r
    BY <2>1, MarkFacts
  <2> HIDE DEF g
  <2>3. \A q \in Requests : q # r => registry'[q] = registry[q]
    BY <2>1
  <2>4. registry'[r] = None
    BY <2>1
  <2>5. CASE Remembered(finished, r) \/ Len(finished) < MaxFinished
    <3>1. \A q \in Requests : q # r => (Remembered(g, q) <=> Remembered(finished, q))
      BY <2>1, <2>2, <2>5 DEF Remembered
    <3>2. Phase' = [Phase EXCEPT ![r] = "ended"]
      BY <2>1, <2>2, <2>3, <2>4, <3>1 DEF Phase
    <3>3. r \in Lifecycle!Ended \/ Cardinality(Lifecycle!Ended) < MaxFinished
      BY <2>5, EndedCount
    <3>4. Lifecycle!EndWithRoom(r)
      BY <3>2, <3>3 DEF Lifecycle!EndWithRoom, Lifecycle!Cardinality, Cardinality
    <3> QED BY <3>4 DEF Lifecycle!Next
  <2>6. CASE ~Remembered(finished, r) /\ Len(finished) = MaxFinished
    <3> DEFINE q == finished[1]
    <3>1. 1 \in DOMAIN finished /\ MaxFinished \in Nat \ {0}
      BY <2>1, <2>6, RegistryAssumption
    <3>2. q \in Requests /\ q # r /\ Remembered(finished, q)
      BY <2>1, <2>6, <3>1 DEF Remembered
    <3>3. ~Remembered(g, q)
      <4> SUFFICES ASSUME NEW i \in DOMAIN g, g[i] = q PROVE FALSE
        BY DEF Remembered
      <4>1. i \in 1..MaxFinished
        BY <2>2, <2>6
      <4>2. i # MaxFinished
        BY <2>2, <2>6, <3>2
      <4>3. finished[i + 1] = finished[1] /\ i + 1 \in DOMAIN finished
        BY <2>1, <2>2, <2>6, <3>1, <4>1, <4>2
      <4> QED BY <2>1, <3>1, <4>1, <4>3
    <3>4. ASSUME NEW p \in Requests, p # r, p # q
          PROVE  Remembered(g, p) <=> Remembered(finished, p)
      <4>1. ASSUME NEW i \in DOMAIN g, g[i] = p PROVE Remembered(finished, p)
        <5>1. i \in 1..(MaxFinished - 1) /\ i + 1 \in DOMAIN finished
          BY <2>1, <2>2, <2>6, <3>1, <3>4, <4>1
        <5> QED BY <2>2, <2>6, <4>1, <5>1 DEF Remembered
      <4>2. ASSUME NEW i \in DOMAIN finished, finished[i] = p PROVE Remembered(g, p)
        <5>1. i \in 2..MaxFinished
          BY <2>1, <2>6, <3>4, <4>2
        <5>2. i - 1 \in 1..(MaxFinished - 1) /\ (i - 1) + 1 = i
          BY <3>1, <5>1
        <5>3. g[i - 1] = p /\ i - 1 \in DOMAIN g
          BY <2>2, <2>6, <3>1, <4>2, <5>2
        <5> QED BY <5>3 DEF Remembered
      <4> QED BY <4>1, <4>2 DEF Remembered
    <3> HIDE DEF q
    <3>5. registry[q] = None
      BY <3>2 DEF IInv, ActiveNotFinished
    <3>6. Phase' = [Phase EXCEPT ![r] = "ended", ![q] = "unknown"]
      BY <2>1, <2>2, <2>3, <2>4, <3>2, <3>3, <3>4, <3>5 DEF Phase
    <3>7. /\ r \notin Lifecycle!Ended /\ q \in Lifecycle!Ended
          /\ Cardinality(Lifecycle!Ended) = MaxFinished
      BY <2>6, <3>2, EndedCount
    <3>8. Lifecycle!EndAndForget(r, q)
      BY <3>6, <3>7 DEF Lifecycle!EndAndForget, Lifecycle!Cardinality, Cardinality
    <3> QED BY <3>2, <3>8 DEF Lifecycle!Next
  <2> QED BY <2>2, <2>5, <2>6
<1>3. ASSUME NEW r \in Requests, OpenUnknown(r) \/ InitRequest(r)
      PROVE  Lifecycle!Next
  <2>1. PICK s \in States : registry' = [registry EXCEPT ![r] = s]
    BY <1>3 DEF OpenUnknown, InitRequest
  <2>2. \A q \in Requests : q # r => (Remembered(finished', q) <=> Remembered(finished, q))
    <3>1. CASE OpenUnknown(r)
      BY <3>1 DEF OpenUnknown, Remembered
    <3>2. CASE InitRequest(r)
      <4>1. finished' = Forget(finished, r)
        BY <3>2 DEF InitRequest
      <4>2. /\ finished \in Seq(Requests)
            /\ \A i, j \in DOMAIN finished : finished[i] = finished[j] => i = j
        BY DEF IInv, TypeOK, FinishedIsBoundedSet
      <4> QED BY <4>1, <4>2, ForgetFacts
    <3> QED BY <1>3, <3>1, <3>2
  <2>3. registry \in [Requests -> States \cup {None}] /\ s # None
    BY RegistryAssumption DEF IInv, TypeOK
  <2>4. Phase' = [Phase EXCEPT ![r] = "active"]
    BY <2>1, <2>2, <2>3 DEF Phase
  <2>5. Lifecycle!Open(r)
    BY <2>4 DEF Lifecycle!Open
  <2> QED BY <2>5 DEF Lifecycle!Next
<1>4. CASE ClearAll
  <2>1. Phase' = [r \in Requests |-> "unknown"]
    BY <1>4 DEF ClearAll, Phase, Remembered
  <2> QED BY <2>1 DEF Lifecycle!Next, Lifecycle!Clear
<1> QED BY <1>1, <1>2, <1>3, <1>4, DictionaryStep

(* Every behaviour of the registry is a behaviour of the bounded memory of *)
(* ended requests: nothing is forgotten while there is room for it.        *)
THEOREM RegistryImplementsLifecycle == Spec => ImplementsLifecycle
<1>1. Init => Lifecycle!Init
  BY DEF Init, Lifecycle!Init, Phase, Remembered
<1>2. IInv /\ [Next]_vars => [Lifecycle!Next]_Phase
  BY RefinementStep
<1> QED BY <1>1, <1>2, Inductive, PTL DEF Spec, ImplementsLifecycle, Lifecycle!Spec
================================================================================
