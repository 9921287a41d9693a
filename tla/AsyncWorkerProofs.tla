--------------------------- MODULE AsyncWorkerProofs ---------------------------
(***************************************************************************)
(* Proofs about AsyncWorker, for any number of workers, of producers and   *)
(* of calls, and any queue size: the queue's count of unfinished items is  *)
(* exact, no wake-up of a waiting put is lost, no state outlives its       *)
(* worker, and only a worker that shared its id can be cut short.          *)
(***************************************************************************)
EXTENDS AsyncWorker, FiniteSetTheorems, SequenceTheorems, TLAPS

Open == {"get", "delta", "lastDelta", "finalDelta"}

(* Every put task that waits is in the row of its own worker, once.        *)
RowsAreExact ==
    \A w \in Workers :
        /\ \A i \in DOMAIN putters[w] :
             WorkerOf[putters[w][i]] = w /\ putTask[putters[w][i]] = "blocked"
        /\ \A i, j \in DOMAIN putters[w] : putters[w][i] = putters[w][j] => i = j

(* The put tasks of w that are about to look at its queue again.           *)
About(w) == {p \in Producers : WorkerOf[p] = w /\ putTask[p] = "woken"}

(* While a put task waits, every free slot is some woken task's to take.   *)
SlotsArePromised ==
    \A w \in Workers :
        /\ MaxSize > 0 => Len(queue[w]) <= MaxSize
        /\ MaxSize = 0 => putters[w] = <<>>
        /\ putters[w] # <<>> => Cardinality(About(w)) + Len(queue[w]) >= MaxSize

(* Who may end whose stream: while a worker is open and has the id to      *)
(* itself, only its own last step ends the id.                             *)
EndsAreOwn ==
    /\ \A w \in Workers : closed[w] <=> gen[w] = "done"
    /\ NoStateOutlivesItsWorker
    /\ \A v, w \in OpenWorkers : v # w => v \in overlap
    /\ \A w \in OpenWorkers : gen[w] \in {"get", "delta"} /\ w \notin overlap => ~ended
    /\ OnlyOverlapCutsShort

IInv == JoinCountsTheItemsLeft /\ RowsAreExact /\ SlotsArePromised

--------------------------------------------------------------------------------
(* Taking one task out of a row keeps the others, in order.                *)
LEMMA WithoutFacts ==
    ASSUME NEW P, NEW s \in Seq(P), NEW p,
           \A i, j \in DOMAIN s : s[i] = s[j] => i = j
    PROVE  /\ Without(s, p) \in Seq(P)
           /\ \A j \in DOMAIN Without(s, p) :
                Without(s, p)[j] # p /\ \E i \in DOMAIN s : Without(s, p)[j] = s[i]
           /\ \A i, j \in DOMAIN Without(s, p) :
                Without(s, p)[i] = Without(s, p)[j] => i = j
           /\ Without(s, p) # <<>> => s # <<>>
<1>1. CASE ~ \E i \in DOMAIN s : s[i] = p
  BY <1>1 DEF Without
<1>2. CASE \E i \in DOMAIN s : s[i] = p
  <2> DEFINE k == CHOOSE i \in DOMAIN s : s[i] = p
             up(j) == IF j < k THEN j ELSE j + 1
             g == [j \in 1..(Len(s) - 1) |-> IF j < k THEN s[j] ELSE s[j + 1]]
  <2>1. k \in 1..Len(s) /\ s[k] = p /\ Len(s) \in Nat /\ Len(s) - 1 \in Nat
    BY <1>2
  <2>2. Without(s, p) = g
    BY <1>2 DEF Without
  <2> HIDE DEF k
  <2>3. g \in Seq(P) /\ DOMAIN g = 1..(Len(s) - 1)
    <3>1. g \in [1..(Len(s) - 1) -> P]
      BY <2>1
    <3> QED BY <2>1, <3>1
  <2>4. \A j \in DOMAIN g : up(j) \in DOMAIN s /\ g[j] = s[up(j)] /\ up(j) # k
    BY <2>1, <2>3
  <2>5. \A i, j \in DOMAIN g : up(i) = up(j) => i = j
    BY <2>1, <2>3
  <2>6. \A j \in DOMAIN g : g[j] # p
    BY <2>1, <2>4
  <2>7. s # <<>>
    BY <2>1
  <2> HIDE DEF up, g
  <2>8. \A i, j \in DOMAIN g : g[i] = g[j] => i = j
    BY <2>4, <2>5
  <2> QED BY <2>2, <2>3, <2>4, <2>6, <2>7, <2>8
<1> QED BY <1>1, <1>2

(* What n calls of get_nowait do to the row of a worker.                   *)
LEMMA WakeFacts ==
    ASSUME TypeOK, RowsAreExact, NEW w \in Workers, NEW n \in Nat, WakePutters(w, n)
    PROVE  /\ putTask' \in [Producers -> {"none", "new", "blocked", "woken", "done"}]
           /\ putters' \in [Workers -> Seq(Producers)]
           /\ RowsAreExact'
           /\ \A v \in Workers : v # w => putters'[v] = putters[v] /\ About(v)' = About(v)
           /\ putters'[w] # <<>> =>
                putters[w] # <<>> /\ Cardinality(About(w)') = Cardinality(About(w)) + n
<1> USE WorkerAssumption
<1> DEFINE s == putters[w]
           t == SubSeq(s, n + 1, Len(s))
<1>1. s \in Seq(Producers) /\ Len(s) \in Nat /\ DOMAIN s = 1..Len(s)
  BY DEF TypeOK
<1>2. /\ putTask' = [p \in Producers |-> IF p \in Woken(w, n) THEN "woken" ELSE putTask[p]]
      /\ putters' = [putters EXCEPT ![w] = t]
  BY DEF WakePutters
<1>3. /\ t \in Seq(Producers)
      /\ Len(t) = IF n < Len(s) THEN Len(s) - n ELSE 0
      /\ \A i \in 1..Len(t) : n + i \in DOMAIN s /\ t[i] = s[n + i]
  BY <1>1
<1>4. Woken(w, n) \subseteq Producers
  BY <1>1 DEF Woken
<1>5. putTask' \in [Producers -> {"none", "new", "blocked", "woken", "done"}]
  BY <1>2 DEF TypeOK
<1> HIDE DEF t
<1>6. putters' \in [Workers -> Seq(Producers)] /\ putters'[w] = t
      /\ \A v \in Workers : v # w => putters'[v] = putters[v]
  BY <1>2, <1>3 DEF TypeOK
<1>7. \A p \in Woken(w, n) : WorkerOf[p] = w /\ putTask[p] = "blocked"
  BY DEF Woken, RowsAreExact
<1>8. \A p \in Producers : putTask'[p] = IF p \in Woken(w, n) THEN "woken" ELSE putTask[p]
  BY <1>2
<1>9. \A v \in Workers : v # w => About(v)' = About(v)
  BY <1>7, <1>8 DEF About
<1>10. \A i \in 1..Len(t) : t[i] \in Producers /\ t[i] \notin Woken(w, n)
  <2> SUFFICES ASSUME NEW i \in 1..Len(t), t[i] \in Woken(w, n)
               PROVE  FALSE
    BY <1>3
  <2>1. PICK j \in DOMAIN s : j <= n /\ s[j] = s[n + i]
    BY <1>3 DEF Woken
  <2>2. j = n + i
    BY <1>3, <2>1 DEF RowsAreExact
  <2> QED BY <1>1, <1>3, <2>1, <2>2
<1>11. RowsAreExact'
  <2> SUFFICES ASSUME NEW v \in Workers
               PROVE  /\ \A i \in DOMAIN putters'[v] :
                           WorkerOf[putters'[v][i]] = v /\ putTask'[putters'[v][i]] = "blocked"
                      /\ \A i, j \in DOMAIN putters'[v] : putters'[v][i] = putters'[v][j] => i = j
    BY DEF RowsAreExact
  <2>1. CASE v # w
    <3>1. \A i \in DOMAIN putters[v] : putters[v][i] \in Producers
                                       /\ putters[v][i] \notin Woken(w, n)
      BY <1>7, <2>1 DEF RowsAreExact, TypeOK
    <3>2. putters'[v] = putters[v]
      BY <1>6, <2>1
    <3>3. \A i \in DOMAIN putters[v] : putTask'[putters[v][i]] = putTask[putters[v][i]]
      BY <1>8, <3>1
    <3> QED BY <3>2, <3>3 DEF RowsAreExact
  <2>2. CASE v = w
    <3>1. DOMAIN t = 1..Len(t)
      BY <1>3
    <3>2. \A i \in 1..Len(t) : WorkerOf[t[i]] = w /\ putTask[t[i]] = "blocked"
      BY <1>3 DEF RowsAreExact
    <3>3. \A i, j \in 1..Len(t) : t[i] = t[j] => n + i = n + j
      BY <1>3 DEF RowsAreExact
    <3>4. \A i, j \in 1..Len(t) : n + i = n + j => i = j
      OBVIOUS
    <3>5. \A i, j \in 1..Len(t) : t[i] = t[j] => i = j
      BY <3>3, <3>4
    <3> QED BY <1>6, <1>8, <1>10, <2>2, <3>1, <3>2, <3>5
  <2> QED BY <2>1, <2>2
<1>12. ASSUME t # <<>>
       PROVE  s # <<>> /\ Cardinality(About(w)') = Cardinality(About(w)) + n
  <2>1. n < Len(s) /\ s # <<>>
    BY <1>1, <1>3, <1>12
  <2>2. IsFiniteSet(Woken(w, n)) /\ Cardinality(Woken(w, n)) = n
    <3> DEFINE f == [i \in 1..n |-> s[i]]
    <3>1. Woken(w, n) = {s[i] : i \in 1..n}
      BY <1>1, <2>1 DEF Woken
    <3>2. \A i, j \in 1..n : s[i] = s[j] => i = j
      BY <1>1, <2>1 DEF RowsAreExact
    <3>6. f \in [1..n -> Woken(w, n)] /\ \A i \in 1..n : f[i] = s[i]
      BY <3>1
    <3>7. \A x \in Woken(w, n) : \E i \in 1..n : f[i] = x
      BY <3>1, <3>6
    <3>8. \A i, j \in 1..n : f[i] = f[j] => i = j
      BY <3>2, <3>6
    <3> HIDE DEF f
    <3>3. f \in Bijection(1..n, Woken(w, n))
      BY <3>6, <3>7, <3>8 DEF Bijection, Injection, IsInjective, Surjection
    <3>4. ExistsBijection(1..n, Woken(w, n))
      BY <3>3 DEF ExistsBijection
    <3>5. IsFiniteSet(1..n) /\ Cardinality(1..n) = n
      BY FS_Interval
    <3> QED BY <3>4, <3>5, FS_Bijection
  <2>3. About(w)' = About(w) \cup Woken(w, n)
    BY <1>4, <1>7, <1>8 DEF About
  <2>4. About(w) \cap Woken(w, n) = {}
    BY <1>7 DEF About
  <2>5. IsFiniteSet(About(w))
    BY FS_Subset DEF About
  <2>6. Cardinality(About(w) \cup Woken(w, n)) = Cardinality(About(w)) + n - Cardinality({})
    BY <2>2, <2>4, <2>5, FS_Union
  <2>7. Cardinality({}) = 0 /\ Cardinality(About(w)) \in Nat
    BY <2>5, FS_EmptySet, FS_CardinalityType
  <2> QED BY <2>1, <2>3, <2>6, <2>7
<1> QED BY <1>5, <1>6, <1>9, <1>11, <1>12

--------------------------------------------------------------------------------
(* What a step of worker w's generator does: it goes on with one item of   *)
(* the queue less or with the queue as it is, or it closes and drains.     *)
Continues(w) ==
    /\ gen'[w] \in Open
    /\ closed' = closed
    /\ \/ queue[w] # <<>> /\ queue' = [queue EXCEPT ![w] = Tail(@)] /\ WakePutters(w, 1)
       \/ UNCHANGED <<queue, putters, putTask>>
    /\ UNCHANGED history
    /\ owner' \in {None, w, owner}
    /\ ended' \in BOOLEAN
    /\ gen'[w] \in {"get", "delta"} => ~ended' \/ (gen[w] = "delta" /\ UNCHANGED ended)
Closes(w) ==
    /\ gen'[w] = "done"
    /\ closed' = [closed EXCEPT ![w] = TRUE]
    /\ queue' = [queue EXCEPT ![w] = <<>>] /\ WakePutters(w, Len(queue[w]))
    /\ AbortRequest
    /\ overlap' = overlap
    /\ cutShort' = cutShort \/ (ended /\ gen[w] = "get" /\ cutShort' = cutShort \cup {w})

(* What a step of stream_deltas, or stopping it early, does to the queue   *)
(* it reads: the count of unfinished items still is what the queue and the *)
(* generator hold (vllm.py:685).                                           *)
LEMMA ConsumerStep ==
    ASSUME JoinCountsTheItemsLeft, NEW w \in Workers, Consume(w) \/ StopEarly(w)
    PROVE  /\ gen[w] \in Open
           /\ gen' \in [Workers -> {"uncreated", "get", "delta", "lastDelta", "finalDelta", "done"}]
           /\ \A v \in Workers : v # w => gen'[v] = gen[v] /\ unfinished'[v] = unfinished[v]
           /\ unfinished' \in [Workers -> Nat]
           /\ unfinished'[w] = Len(queue'[w]) + InHand(w)'
           /\ Continues(w) \/ Closes(w)
           /\ UNCHANGED <<item, puts>>
<1> DEFINE Goal == /\ gen[w] \in Open
                   /\ gen' = [gen EXCEPT ![w] = gen'[w]]
                   /\ gen'[w] \in Open \cup {"done"}
                   /\ unfinished' = [unfinished EXCEPT ![w] = unfinished'[w]]
                   /\ unfinished'[w] = Len(queue'[w]) + InHand(w)'
                   /\ Continues(w) \/ Closes(w)
                   /\ UNCHANGED <<item, puts>>
<1>1. /\ queue \in [Workers -> Seq({Token, End})] /\ queue[w] \in Seq({Token, End})
      /\ unfinished \in [Workers -> Nat] /\ gen \in [Workers -> {"uncreated", "get", "delta", "lastDelta", "finalDelta", "done"}]
      /\ unfinished[w] = Len(queue[w]) + InHand(w) /\ ended \in BOOLEAN
      /\ queue[w] # <<>> => Len(queue[w]) >= 1 /\ Len(Tail(queue[w])) = Len(queue[w]) - 1
                            /\ Tail(queue[w]) \in Seq({Token, End})
  BY DEF JoinCountsTheItemsLeft, TypeOK
<1>2. ASSUME NEW q \in Seq({Token, End}), NEW n \in Nat, Close(w, q, n), n = Len(q),
             WakePutters(w, Len(queue[w])), AbortRequest,
             gen[w] \in Open, UNCHANGED <<item, puts, overlap>>,
             cutShort' = cutShort \/ (ended /\ gen[w] = "get" /\ cutShort' = cutShort \cup {w})
      PROVE  Goal
  <2>1. gen'[w] = "done" /\ queue'[w] = <<>> /\ unfinished'[w] = 0
    BY <1>1, <1>2 DEF Close
  <2>2. Closes(w)
    BY <1>2, <2>1 DEF Close, Closes
  <2>3. InHand(w)' = 0 /\ Len(queue'[w]) = 0
    BY <2>1 DEF InHand
  <2> QED BY <1>1, <1>2, <2>1, <2>2, <2>3 DEF Close
<1>3. ASSUME GetToken(w) PROVE Goal
  <2>1. /\ gen[w] = "get" /\ queue[w] # <<>> /\ InHand(w) = 0
        /\ UNCHANGED <<item, puts, overlap>>
    BY <1>3 DEF GetToken, InHand
  <2>2. PICK finish \in BOOLEAN, delta \in BOOLEAN :
         \/ /\ AdapterStep(w, finish)
            /\ gen' = [gen EXCEPT ![w] = IF finish THEN "lastDelta" ELSE "delta"]
            /\ queue' = [queue EXCEPT ![w] = Tail(@)]
            /\ WakePutters(w, 1)
            /\ UNCHANGED <<unfinished, closed, cutShort>>
         \/ /\ ~finish
            /\ AdapterStep(w, finish)
            /\ queue' = [queue EXCEPT ![w] = Tail(@)]
            /\ unfinished' = [unfinished EXCEPT ![w] = @ - 1]
            /\ WakePutters(w, 1)
            /\ UNCHANGED <<gen, closed, cutShort>>
         \/ /\ Close(w, Tail(queue[w]), unfinished[w] - 1)
            /\ WakePutters(w, Len(queue[w]))
            /\ AbortRequest
            /\ cutShort' = IF ended THEN cutShort \cup {w} ELSE cutShort
    BY <1>3 DEF GetToken
  <2>3. CASE /\ AdapterStep(w, finish)
             /\ gen' = [gen EXCEPT ![w] = IF finish THEN "lastDelta" ELSE "delta"]
             /\ queue' = [queue EXCEPT ![w] = Tail(@)]
             /\ WakePutters(w, 1)
             /\ UNCHANGED <<unfinished, closed, cutShort>>
    <3>1. gen'[w] = (IF finish THEN "lastDelta" ELSE "delta") /\ queue'[w] = Tail(queue[w])
      BY <1>1, <2>3
    <3>2. InHand(w)' = 1
      BY <3>1 DEF InHand
    <3>3. gen'[w] \in Open /\ gen[w] \in Open
      BY <2>1, <3>1 DEF Open
    <3>4. Continues(w)
      BY <2>1, <2>3, <3>1, <3>3 DEF Continues, AdapterStep, history
    <3>5. gen' = [gen EXCEPT ![w] = gen'[w]]
      BY <1>1, <2>3
    <3>6. unfinished' = [unfinished EXCEPT ![w] = unfinished'[w]]
      BY <1>1, <2>3
    <3>7. unfinished'[w] = Len(queue'[w]) + InHand(w)'
      BY <1>1, <2>1, <2>3, <3>1, <3>2
    <3> QED BY <2>1, <3>3, <3>4, <3>5, <3>6, <3>7
  <2>4. CASE /\ ~finish
             /\ AdapterStep(w, finish)
             /\ queue' = [queue EXCEPT ![w] = Tail(@)]
             /\ unfinished' = [unfinished EXCEPT ![w] = @ - 1]
             /\ WakePutters(w, 1)
             /\ UNCHANGED <<gen, closed, cutShort>>
    <3>1. gen'[w] = "get" /\ queue'[w] = Tail(queue[w]) /\ unfinished'[w] = unfinished[w] - 1
      BY <1>1, <2>1, <2>4
    <3>2. InHand(w)' = 0
      BY <3>1 DEF InHand
    <3>3. gen'[w] \in Open /\ gen[w] \in Open
      BY <2>1, <3>1 DEF Open
    <3>4. Continues(w)
      BY <2>1, <2>4, <3>3 DEF Continues, AdapterStep, history
    <3>5. gen' = [gen EXCEPT ![w] = gen'[w]]
      BY <1>1, <2>4
    <3>6. unfinished' = [unfinished EXCEPT ![w] = unfinished'[w]]
      BY <1>1, <2>4
    <3>7. unfinished'[w] = Len(queue'[w]) + InHand(w)'
      BY <1>1, <2>1, <3>1, <3>2
    <3> QED BY <2>1, <3>3, <3>4, <3>5, <3>6, <3>7
  <2>5. CASE /\ Close(w, Tail(queue[w]), unfinished[w] - 1)
             /\ WakePutters(w, Len(queue[w]))
             /\ AbortRequest
             /\ cutShort' = IF ended THEN cutShort \cup {w} ELSE cutShort
    <3>1. gen[w] \in Open /\ unfinished[w] - 1 \in Nat /\ unfinished[w] - 1 = Len(Tail(queue[w]))
      BY <1>1, <2>1 DEF Open
    <3>2. cutShort' = cutShort \/ (ended /\ gen[w] = "get" /\ cutShort' = cutShort \cup {w})
      BY <2>1, <2>5
    <3> QED BY <1>1, <1>2, <2>1, <2>5, <3>1, <3>2
  <2> QED BY <2>2, <2>3, <2>4, <2>5
<1>4. ASSUME GetEnd(w) PROVE Goal
  <2>1. /\ gen[w] = "get" /\ queue[w] # <<>> /\ InHand(w) = 0
        /\ UNCHANGED <<item, puts, overlap, cutShort>>
    BY <1>4 DEF GetEnd, InHand, history
  <2>2. CASE /\ AdapterFlush
             /\ gen' = [gen EXCEPT ![w] = "finalDelta"]
             /\ queue' = [queue EXCEPT ![w] = Tail(@)]
             /\ WakePutters(w, 1)
             /\ UNCHANGED <<unfinished, closed>>
    <3>1. gen'[w] = "finalDelta" /\ queue'[w] = Tail(queue[w])
      BY <1>1, <2>2
    <3>2. InHand(w)' = 1
      BY <3>1 DEF InHand
    <3>3. gen'[w] \in Open /\ gen[w] \in Open
      BY <2>1, <3>1 DEF Open
    <3>4. Continues(w)
      BY <1>1, <2>1, <2>2, <3>1, <3>3 DEF Continues, AdapterFlush, adapter, history
    <3>5. gen' = [gen EXCEPT ![w] = gen'[w]]
      BY <1>1, <2>2
    <3>6. unfinished' = [unfinished EXCEPT ![w] = unfinished'[w]]
      BY <1>1, <2>2
    <3>7. unfinished'[w] = Len(queue'[w]) + InHand(w)'
      BY <1>1, <2>1, <2>2, <3>1, <3>2
    <3> QED BY <2>1, <3>3, <3>4, <3>5, <3>6, <3>7
  <2>3. CASE /\ Close(w, Tail(queue[w]), unfinished[w] - 1)
             /\ WakePutters(w, Len(queue[w]))
             /\ AbortRequest
    <3>1. gen[w] \in Open /\ unfinished[w] - 1 \in Nat /\ unfinished[w] - 1 = Len(Tail(queue[w]))
      BY <1>1, <2>1 DEF Open
    <3> QED BY <1>1, <1>2, <2>1, <2>3, <3>1
  <2> QED BY <1>4, <2>2, <2>3 DEF GetEnd
<1>5. ASSUME ResumeDelta(w) PROVE Goal
  <2>1. /\ gen[w] = "delta" /\ InHand(w) = 1
        /\ gen' = [gen EXCEPT ![w] = "get"]
        /\ unfinished' = [unfinished EXCEPT ![w] = @ - 1]
        /\ UNCHANGED <<queue, putters, closed, putTask, item, puts, overlap, cutShort>> /\ UNCHANGED adapter
    BY <1>5 DEF ResumeDelta, InHand, producer, history
  <2>2. gen'[w] = "get" /\ unfinished'[w] = unfinished[w] - 1
    BY <1>1, <2>1
  <2>3. InHand(w)' = 0
    BY <2>2 DEF InHand
  <2>4. gen'[w] \in Open /\ gen[w] \in Open
    BY <2>1, <2>2 DEF Open
  <2>5. Continues(w)
    BY <1>1, <2>1, <2>2, <2>4 DEF Continues, adapter, history
  <2>6. unfinished'[w] = Len(queue'[w]) + InHand(w)'
    BY <1>1, <2>1, <2>2, <2>3
  <2>7. gen' = [gen EXCEPT ![w] = gen'[w]]
    BY <1>1, <2>1
  <2>8. unfinished' = [unfinished EXCEPT ![w] = unfinished'[w]]
    BY <1>1, <2>1
  <2> QED BY <2>1, <2>4, <2>5, <2>6, <2>7, <2>8
<1>6. ASSUME ResumeLastDelta(w) PROVE Goal
  <2>1. /\ gen[w] = "lastDelta" /\ InHand(w) = 1
        /\ UNCHANGED <<item, puts, overlap, cutShort>>
    BY <1>6 DEF ResumeLastDelta, InHand, history
  <2>2. CASE /\ AdapterFlush
             /\ gen' = [gen EXCEPT ![w] = "finalDelta"]
             /\ UNCHANGED <<queue, putters, unfinished, closed, putTask>>
    <3>1. gen'[w] = "finalDelta"
      BY <1>1, <2>2
    <3>2. InHand(w)' = 1
      BY <3>1 DEF InHand
    <3>3. gen'[w] \in Open /\ gen[w] \in Open
      BY <2>1, <3>1 DEF Open
    <3>4. Continues(w)
      BY <1>1, <2>1, <2>2, <3>1, <3>3 DEF Continues, AdapterFlush, adapter, history
    <3>5. unfinished'[w] = Len(queue'[w]) + InHand(w)'
      BY <1>1, <2>1, <2>2, <3>2
    <3>6. gen' = [gen EXCEPT ![w] = gen'[w]]
      BY <1>1, <2>2
    <3>7. unfinished' = [unfinished EXCEPT ![w] = unfinished'[w]]
      BY <1>1, <2>2
    <3> QED BY <2>1, <3>3, <3>4, <3>5, <3>6, <3>7
  <2>3. CASE /\ Close(w, queue[w], unfinished[w] - 1)
             /\ WakePutters(w, Len(queue[w]))
             /\ AbortRequest
    <3>1. gen[w] \in Open /\ unfinished[w] - 1 \in Nat /\ unfinished[w] - 1 = Len(queue[w])
      BY <1>1, <2>1 DEF Open
    <3> QED BY <1>1, <1>2, <2>1, <2>3, <3>1
  <2> QED BY <1>6, <2>2, <2>3 DEF ResumeLastDelta
<1>7. ASSUME ResumeFinalDelta(w) PROVE Goal
  <2>1. /\ gen[w] = "finalDelta" /\ InHand(w) = 1
        /\ UNCHANGED <<item, puts, overlap, cutShort>>
        /\ Close(w, queue[w], unfinished[w] - 1)
        /\ WakePutters(w, Len(queue[w]))
        /\ AbortRequest
    BY <1>7 DEF ResumeFinalDelta, InHand, history
  <2>2. gen[w] \in Open /\ unfinished[w] - 1 \in Nat /\ unfinished[w] - 1 = Len(queue[w])
    BY <1>1, <2>1 DEF Open
  <2> QED BY <1>1, <1>2, <2>1, <2>2
<1>8. ASSUME StopEarly(w) PROVE Goal
  <2> DEFINE n == IF gen[w] = "get" THEN unfinished[w] ELSE unfinished[w] - 1
  <2>1. /\ gen[w] \in Open
        /\ UNCHANGED <<item, puts, overlap, cutShort>>
        /\ Close(w, queue[w], n)
        /\ WakePutters(w, Len(queue[w]))
        /\ AbortRequest
    BY <1>8 DEF StopEarly, Open, history
  <2>2. n \in Nat /\ n = Len(queue[w])
    BY <1>1, <2>1 DEF Open, InHand
  <2> QED BY <1>1, <1>2, <2>1, <2>2
<1>9. Goal
  BY <1>3, <1>4, <1>5, <1>6, <1>7, <1>8 DEF Consume
<1>10. unfinished'[w] \in Nat
  <2>1. queue'[w] \in Seq({Token, End})
    <3>1. Continues(w) => queue'[w] \in {queue[w], Tail(queue[w])}
      BY <1>1 DEF Continues
    <3>2. Continues(w) => queue'[w] = queue[w] \/ queue[w] # <<>>
      BY <1>1 DEF Continues
    <3>3. Closes(w) => queue'[w] = <<>>
      BY <1>1 DEF Closes
    <3>4. <<>> \in Seq({Token, End})
      OBVIOUS
    <3> QED BY <1>1, <1>9, <3>1, <3>2, <3>3, <3>4
  <2>2. InHand(w)' \in {0, 1}
    BY DEF InHand
  <2> QED BY <1>9, <2>1, <2>2
<1> QED BY <1>1, <1>9, <1>10 DEF Open

--------------------------------------------------------------------------------

(* Both inductive invariants hold before any call.                         *)
LEMMA InitHolds ==
    ASSUME Init
    PROVE  IInv /\ EndsAreOwn
<1> USE WorkerAssumption
<1>1. TypeOK
  <2>1. queue \in [Workers -> Seq({Token, End})] /\ putters \in [Workers -> Seq(Producers)]
    BY DEF Init
  <2>2. puts \in [Producers -> Nat] /\ unfinished \in [Workers -> Nat]
    BY DEF Init
  <2> QED BY <2>1, <2>2 DEF Init, TypeOK
<1>2. JoinCountsTheItemsLeft
  <2>1. \A w \in Workers : unfinished[w] = 0 /\ Len(queue[w]) = 0 /\ InHand(w) = 0
    BY DEF Init, InHand
  <2> QED BY <1>1, <2>1 DEF JoinCountsTheItemsLeft
<1>3. RowsAreExact
  <2>1. \A w \in Workers : putters[w] = <<>>
    BY DEF Init
  <2> QED BY <2>1 DEF RowsAreExact
<1>4. SlotsArePromised
  <2>1. \A w \in Workers : putters[w] = <<>> /\ Len(queue[w]) = 0
    BY DEF Init
  <2> QED BY <2>1 DEF SlotsArePromised
<1>5. EndsAreOwn
  BY DEF Init, EndsAreOwn, NoStateOutlivesItsWorker, OnlyOverlapCutsShort, OpenWorkers
<1> QED BY <1>2, <1>3, <1>4, <1>5 DEF IInv

(* The queue shrinks by as many items as get_nowait is called, so the      *)
(* slots that come free are promised to the tasks it wakes.                *)
LEMMA ConsumerKeeps ==
    ASSUME IInv, NEW w \in Workers, Consume(w) \/ StopEarly(w)
    PROVE  IInv'
<1> USE WorkerAssumption
<1>1. /\ JoinCountsTheItemsLeft /\ TypeOK /\ RowsAreExact /\ SlotsArePromised
      /\ queue \in [Workers -> Seq({Token, End})] /\ queue[w] \in Seq({Token, End})
      /\ owner \in Workers \cup {None} /\ ended \in BOOLEAN
      /\ overlap \subseteq Workers /\ cutShort \subseteq Workers
      /\ closed \in [Workers -> BOOLEAN]
  BY DEF IInv, JoinCountsTheItemsLeft, TypeOK
<1>2. /\ gen' \in [Workers -> {"uncreated", "get", "delta", "lastDelta", "finalDelta", "done"}]
      /\ \A v \in Workers : v # w => gen'[v] = gen[v] /\ unfinished'[v] = unfinished[v]
      /\ unfinished' \in [Workers -> Nat]
      /\ unfinished'[w] = Len(queue'[w]) + InHand(w)'
      /\ Continues(w) \/ Closes(w)
      /\ UNCHANGED <<item, puts>>
  BY <1>1, ConsumerStep
<1>3. \/ \E n \in Nat : /\ n <= Len(queue[w]) /\ Len(queue'[w]) = Len(queue[w]) - n
                        /\ WakePutters(w, n)
      \/ queue'[w] = queue[w] /\ UNCHANGED <<putters, putTask>>
  <2>1. CASE queue[w] # <<>> /\ queue' = [queue EXCEPT ![w] = Tail(@)] /\ WakePutters(w, 1)
    <3>1. queue'[w] = Tail(queue[w])
      BY <1>1, <2>1
    <3>2. Len(queue[w]) >= 1 /\ Len(Tail(queue[w])) = Len(queue[w]) - 1
      BY <1>1, <2>1
    <3> QED BY <2>1, <3>1, <3>2
  <2>2. CASE UNCHANGED <<queue, putters, putTask>>
    BY <2>2
  <2>3. CASE Closes(w)
    <3>1. queue'[w] = <<>> /\ Len(queue'[w]) = 0
      BY <1>1, <2>3 DEF Closes
    <3>2. Len(queue[w]) \in Nat /\ Len(queue[w]) - Len(queue[w]) = 0
      BY <1>1
    <3> QED BY <2>3, <3>1, <3>2 DEF Closes
  <2> QED BY <1>2, <2>1, <2>2, <2>3 DEF Continues
<1>4. /\ queue' \in [Workers -> Seq({Token, End})]
      /\ \A v \in Workers : v # w => queue'[v] = queue[v]
  <2>1. CASE queue[w] # <<>> /\ queue' = [queue EXCEPT ![w] = Tail(@)]
    <3>1. Tail(queue[w]) \in Seq({Token, End})
      BY <1>1, <2>1
    <3> QED BY <1>1, <2>1, <3>1
  <2>2. CASE queue' = queue
    BY <1>1, <2>2
  <2>3. CASE queue' = [queue EXCEPT ![w] = <<>>]
    <3>1. <<>> \in Seq({Token, End})
      OBVIOUS
    <3> QED BY <1>1, <2>3, <3>1
  <2> QED BY <1>2, <2>1, <2>2, <2>3 DEF Continues, Closes
<1> DEFINE Kept ==
      /\ putTask' \in [Producers -> {"none", "new", "blocked", "woken", "done"}]
      /\ putters' \in [Workers -> Seq(Producers)]
      /\ RowsAreExact'
      /\ \A v \in Workers : v # w => putters'[v] = putters[v] /\ About(v)' = About(v)
      /\ putters'[w] # <<>> =>
            /\ putters[w] # <<>>
            /\ Cardinality(About(w)') + Len(queue'[w]) = Cardinality(About(w)) + Len(queue[w])
      /\ Len(queue'[w]) <= Len(queue[w])
      /\ Len(queue'[w]) \in Nat
<1>5. Kept
  <2>1. ASSUME NEW n \in Nat, n <= Len(queue[w]), Len(queue'[w]) = Len(queue[w]) - n, WakePutters(w, n)
        PROVE  Kept
    <3>1. /\ putTask' \in [Producers -> {"none", "new", "blocked", "woken", "done"}]
          /\ putters' \in [Workers -> Seq(Producers)]
          /\ RowsAreExact'
          /\ \A v \in Workers : v # w => putters'[v] = putters[v] /\ About(v)' = About(v)
          /\ putters'[w] # <<>> =>
               putters[w] # <<>> /\ Cardinality(About(w)') = Cardinality(About(w)) + n
      BY <1>1, <2>1, WakeFacts
    <3>2. Len(queue[w]) \in Nat /\ Cardinality(About(w)) \in Nat
      <4>1. IsFiniteSet(About(w))
        BY FS_Subset DEF About
      <4> QED BY <1>1, <4>1, FS_CardinalityType
    <3> QED BY <2>1, <3>1, <3>2
  <2>2. ASSUME queue'[w] = queue[w], UNCHANGED <<putters, putTask>>
        PROVE  Kept
    <3>1. RowsAreExact' /\ \A v \in Workers : About(v)' = About(v)
      BY <1>1, <2>2 DEF RowsAreExact, About
    <3>2. putTask \in [Producers -> {"none", "new", "blocked", "woken", "done"}]
          /\ putters \in [Workers -> Seq(Producers)]
      BY <1>1 DEF TypeOK
    <3>3. Len(queue[w]) \in Nat
      BY <1>1
    <3> QED BY <2>2, <3>1, <3>2, <3>3
  <2> QED BY <1>3, <2>1, <2>2
<1>6. TypeOK'
  <2>1. /\ owner' \in Workers \cup {None} /\ ended' \in BOOLEAN
        /\ overlap' \subseteq Workers /\ cutShort' \subseteq Workers
    <3>1. CASE Closes(w)
      BY <1>1, <3>1 DEF Closes, AbortRequest
    <3>2. CASE Continues(w)
      BY <1>1, <3>2 DEF Continues, history
    <3> QED BY <1>2, <3>1, <3>2
  <2>2. closed' \in [Workers -> BOOLEAN]
    BY <1>1, <1>2 DEF Continues, Closes
  <2>3. item' \in [Producers -> {Token, End}] /\ puts' \in [Producers -> Nat]
    BY <1>1, <1>2 DEF TypeOK
  <2> QED BY <1>2, <1>4, <1>5, <2>1, <2>2, <2>3 DEF TypeOK
<1>7. JoinCountsTheItemsLeft'
  <2>1. \A v \in Workers : v # w => unfinished'[v] = Len(queue'[v]) + InHand(v)'
    BY <1>1, <1>2, <1>4 DEF JoinCountsTheItemsLeft, InHand
  <2> QED BY <1>2, <1>6, <2>1 DEF JoinCountsTheItemsLeft
<1>8. SlotsArePromised'
  <2> SUFFICES ASSUME NEW v \in Workers
               PROVE  /\ MaxSize > 0 => Len(queue'[v]) <= MaxSize
                      /\ MaxSize = 0 => putters'[v] = <<>>
                      /\ putters'[v] # <<>> => Cardinality(About(v)') + Len(queue'[v]) >= MaxSize
    BY DEF SlotsArePromised
  <2>1. /\ MaxSize > 0 => Len(queue[v]) <= MaxSize
        /\ MaxSize = 0 => putters[v] = <<>>
        /\ putters[v] # <<>> => Cardinality(About(v)) + Len(queue[v]) >= MaxSize
    BY <1>1 DEF SlotsArePromised
  <2>2. CASE v # w
    BY <1>4, <1>5, <2>1, <2>2
  <2>3. CASE v = w
    <3>1. Len(queue[w]) \in Nat
      BY <1>1
    <3> QED BY <1>5, <2>1, <2>3, <3>1
  <2> QED BY <2>2, <2>3
<1> QED BY <1>5, <1>7, <1>8 DEF IInv

(* A put task that finds no slot joins the end of the row; one that finds  *)
(* a slot uses up at most its own promise.                                 *)
LEMMA RunPutKeeps ==
    ASSUME IInv, NEW p \in Producers, RunPut(p)
    PROVE  IInv'
<1> USE WorkerAssumption
<1> DEFINE w == WorkerOf[p]
<1>1. /\ JoinCountsTheItemsLeft /\ TypeOK /\ RowsAreExact /\ SlotsArePromised
      /\ w \in Workers
      /\ queue \in [Workers -> Seq({Token, End})] /\ queue[w] \in Seq({Token, End})
      /\ putters \in [Workers -> Seq(Producers)] /\ putters[w] \in Seq(Producers)
      /\ putTask \in [Producers -> {"none", "new", "blocked", "woken", "done"}]
      /\ unfinished \in [Workers -> Nat] /\ item[p] \in {Token, End}
      /\ Len(queue[w]) \in Nat
  BY DEF IInv, JoinCountsTheItemsLeft, TypeOK
<1>2. /\ putTask[p] \in {"new", "woken"}
      /\ UNCHANGED <<closed, gen, item, puts, owner, ended, overlap, cutShort>>
  BY DEF RunPut, adapter, history
<1>3. \A v \in Workers : \A i \in DOMAIN putters[v] : putters[v][i] # p
  BY <1>1, <1>2 DEF RowsAreExact
<1>4. \A v \in Workers : IsFiniteSet(About(v)) /\ Cardinality(About(v)) \in Nat
  <2>1. \A v \in Workers : IsFiniteSet(About(v))
    BY FS_Subset DEF About
  <2> QED BY <2>1, FS_CardinalityType
<1>5. ASSUME NEW s \in {"blocked", "done"}, putTask' = [putTask EXCEPT ![p] = s]
      PROVE  /\ \A v \in Workers : v # w => About(v)' = About(v)
             /\ Cardinality(About(w)') \in Nat /\ Cardinality(About(w)') + 1 >= Cardinality(About(w))
  <2>1. \A q \in Producers : putTask'[q] = IF q = p THEN s ELSE putTask[q]
    BY <1>1, <1>5
  <2>2. \A v \in Workers : v # w => About(v)' = About(v)
    BY <2>1 DEF About
  <2>3. About(w)' = About(w) \ {p}
    BY <2>1 DEF About
  <2>4. Cardinality(About(w) \ {p}) \in {Cardinality(About(w)), Cardinality(About(w)) - 1}
        /\ IsFiniteSet(About(w) \ {p})
    BY <1>1, <1>4, FS_RemoveElement
  <2>5. Cardinality(About(w) \ {p}) \in Nat
    BY <2>4, FS_CardinalityType
  <2> QED BY <1>1, <1>4, <2>2, <2>3, <2>4, <2>5
<1>6. CASE Full(w)
  <2>1. /\ putters' = [putters EXCEPT ![w] = Append(@, p)]
        /\ putTask' = [putTask EXCEPT ![p] = "blocked"]
        /\ UNCHANGED <<queue, unfinished>>
    BY <1>6 DEF RunPut
  <2>2. /\ Append(putters[w], p) \in Seq(Producers)
        /\ Len(Append(putters[w], p)) = Len(putters[w]) + 1
        /\ \A i \in 1..Len(putters[w]) : Append(putters[w], p)[i] = putters[w][i]
        /\ Append(putters[w], p)[Len(putters[w]) + 1] = p
    BY <1>1, AppendProperties
  <2>3. putters'[w] = Append(putters[w], p) /\ \A v \in Workers : v # w => putters'[v] = putters[v]
    BY <1>1, <2>1
  <2>4. \A q \in Producers : putTask'[q] = IF q = p THEN "blocked" ELSE putTask[q]
    BY <1>1, <2>1
  <2>5. TypeOK'
    BY <1>1, <1>2, <2>1, <2>2 DEF TypeOK
  <2>6. JoinCountsTheItemsLeft'
    BY <1>1, <1>2, <2>1, <2>5 DEF JoinCountsTheItemsLeft, InHand
  <2>7. RowsAreExact'
    <3> SUFFICES ASSUME NEW v \in Workers
                 PROVE  /\ \A i \in DOMAIN putters'[v] :
                             WorkerOf[putters'[v][i]] = v /\ putTask'[putters'[v][i]] = "blocked"
                        /\ \A i, j \in DOMAIN putters'[v] : putters'[v][i] = putters'[v][j] => i = j
      BY DEF RowsAreExact
    <3>1. CASE v # w
      <4>1. \A i \in DOMAIN putters[v] : putters[v][i] \in Producers /\ putters[v][i] # p
        BY <1>1, <1>3
      <4>2. \A i \in DOMAIN putters[v] : putTask'[putters[v][i]] = putTask[putters[v][i]]
        BY <2>4, <4>1
      <4> QED BY <1>1, <2>3, <3>1, <4>2 DEF RowsAreExact
    <3>2. CASE v = w
      <4> DEFINE s == putters[w]
                 t == Append(putters[w], p)
      <4>1. DOMAIN t = 1..(Len(s) + 1) /\ DOMAIN s = 1..Len(s) /\ Len(s) \in Nat
        BY <1>1, <2>2
      <4>2. \A i \in 1..(Len(s) + 1) : t[i] = IF i = Len(s) + 1 THEN p ELSE s[i]
        BY <2>2, <4>1
      <4>3. \A i \in 1..(Len(s) + 1) : i # Len(s) + 1 => i \in DOMAIN s
        BY <4>1
      <4>4. \A i \in DOMAIN s : s[i] \in Producers /\ s[i] # p /\ WorkerOf[s[i]] = w
                                /\ putTask'[s[i]] = "blocked"
        BY <1>1, <1>3, <2>4 DEF RowsAreExact
      <4>5. \A i, j \in DOMAIN s : s[i] = s[j] => i = j
        BY <1>1 DEF RowsAreExact
      <4> HIDE DEF s, t
      <4>6. \A i \in DOMAIN t : WorkerOf[t[i]] = w /\ putTask'[t[i]] = "blocked"
        BY <2>4, <4>1, <4>2, <4>3, <4>4
      <4>7. \A i, j \in DOMAIN t : t[i] = t[j] => i = j
        BY <4>1, <4>2, <4>3, <4>4, <4>5
      <4> QED BY <2>3, <3>2, <4>6, <4>7 DEF t
    <3> QED BY <3>1, <3>2
  <2>8. SlotsArePromised'
    <3> SUFFICES ASSUME NEW v \in Workers
                 PROVE  /\ MaxSize > 0 => Len(queue'[v]) <= MaxSize
                        /\ MaxSize = 0 => putters'[v] = <<>>
                        /\ putters'[v] # <<>> => Cardinality(About(v)') + Len(queue'[v]) >= MaxSize
      BY DEF SlotsArePromised
    <3>1. /\ \A u \in Workers : u # w => About(u)' = About(u)
          /\ Cardinality(About(w)') \in Nat
      BY <1>5, <2>1
    <3>2. MaxSize > 0 /\ Len(queue[w]) >= MaxSize
      BY <1>6 DEF Full
    <3>3. CASE v # w
      BY <1>1, <2>1, <2>3, <3>1, <3>3 DEF SlotsArePromised
    <3>4. CASE v = w
      BY <1>1, <2>1, <3>1, <3>2, <3>4 DEF SlotsArePromised
    <3> QED BY <3>3, <3>4
  <2> QED BY <2>6, <2>7, <2>8 DEF IInv
<1>7. CASE ~Full(w)
  <2>1. /\ queue' = [queue EXCEPT ![w] = Append(@, item[p])]
        /\ unfinished' = [unfinished EXCEPT ![w] = @ + 1]
        /\ putTask' = [putTask EXCEPT ![p] = "done"]
        /\ UNCHANGED putters
    BY <1>7 DEF RunPut
  <2>2. /\ Append(queue[w], item[p]) \in Seq({Token, End})
        /\ Len(Append(queue[w], item[p])) = Len(queue[w]) + 1
    BY <1>1, AppendProperties
  <2>3. /\ Len(queue'[w]) = Len(queue[w]) + 1 /\ unfinished'[w] = unfinished[w] + 1
        /\ \A v \in Workers : v # w => queue'[v] = queue[v] /\ unfinished'[v] = unfinished[v]
    BY <1>1, <2>1, <2>2
  <2>4. \A q \in Producers : putTask'[q] = IF q = p THEN "done" ELSE putTask[q]
    BY <1>1, <2>1
  <2>5. TypeOK'
    <3>1. queue' \in [Workers -> Seq({Token, End})] /\ unfinished' \in [Workers -> Nat]
      BY <1>1, <2>1, <2>2
    <3> QED BY <1>1, <1>2, <2>1, <3>1 DEF TypeOK
  <2>6. JoinCountsTheItemsLeft'
    <3> SUFFICES ASSUME NEW v \in Workers
                 PROVE  unfinished'[v] = Len(queue'[v]) + InHand(v)'
      BY <2>5 DEF JoinCountsTheItemsLeft
    <3>1. unfinished[v] = Len(queue[v]) + InHand(v) /\ InHand(v)' = InHand(v) /\ InHand(v) \in {0, 1}
      BY <1>1, <1>2 DEF JoinCountsTheItemsLeft, InHand
    <3>2. Len(queue[v]) \in Nat
      BY <1>1
    <3>3. CASE v = w
      BY <2>3, <3>1, <3>2, <3>3
    <3>4. CASE v # w
      BY <2>3, <3>1, <3>4
    <3> QED BY <3>3, <3>4
  <2>7. RowsAreExact'
    <3>1. \A v \in Workers : \A i \in DOMAIN putters[v] : putters[v][i] \in Producers /\ putters[v][i] # p
      BY <1>1, <1>3
    <3>2. \A v \in Workers : \A i \in DOMAIN putters[v] : putTask'[putters[v][i]] = putTask[putters[v][i]]
      BY <2>4, <3>1
    <3> QED BY <1>1, <2>1, <3>2 DEF RowsAreExact
  <2>8. SlotsArePromised'
    <3> SUFFICES ASSUME NEW v \in Workers
                 PROVE  /\ MaxSize > 0 => Len(queue'[v]) <= MaxSize
                        /\ MaxSize = 0 => putters'[v] = <<>>
                        /\ putters'[v] # <<>> => Cardinality(About(v)') + Len(queue'[v]) >= MaxSize
      BY DEF SlotsArePromised
    <3>1. /\ \A u \in Workers : u # w => About(u)' = About(u)
          /\ Cardinality(About(w)') \in Nat /\ Cardinality(About(w)') + 1 >= Cardinality(About(w))
      BY <1>5, <2>1
    <3>2. ~(MaxSize > 0) \/ Len(queue[w]) < MaxSize
      BY <1>1, <1>7 DEF Full
    <3>3. CASE v # w
      BY <1>1, <2>1, <2>3, <3>1, <3>3 DEF SlotsArePromised
    <3>4. CASE v = w
      <4>1. /\ MaxSize = 0 => putters[w] = <<>>
            /\ putters[w] # <<>> => Cardinality(About(w)) + Len(queue[w]) >= MaxSize
        BY <1>1 DEF SlotsArePromised
      <4> QED BY <1>1, <1>4, <2>1, <2>3, <3>1, <3>2, <3>4, <4>1
    <3> QED BY <3>3, <3>4
  <2> QED BY <2>6, <2>7, <2>8 DEF IInv
<1> QED BY <1>6, <1>7

(* A put that is cancelled after it was woken hands its slot on; one that  *)
(* still waits just leaves the row.                                        *)
LEMMA ReturnKeeps ==
    ASSUME IInv, NEW p \in Producers, ReturnFromPut(p)
    PROVE  IInv'
<1> USE WorkerAssumption
<1> DEFINE w == WorkerOf[p]
           s == putters[w]
<1>1. /\ JoinCountsTheItemsLeft /\ TypeOK /\ RowsAreExact /\ SlotsArePromised
      /\ w \in Workers
      /\ queue \in [Workers -> Seq({Token, End})] /\ Len(queue[w]) \in Nat
      /\ putters \in [Workers -> Seq(Producers)] /\ s \in Seq(Producers)
      /\ putTask \in [Producers -> {"none", "new", "blocked", "woken", "done"}]
  <2>1. JoinCountsTheItemsLeft /\ TypeOK /\ RowsAreExact /\ SlotsArePromised
    BY DEF IInv, JoinCountsTheItemsLeft
  <2>2. w \in Workers
    OBVIOUS
  <2>3. /\ queue \in [Workers -> Seq({Token, End})] /\ putters \in [Workers -> Seq(Producers)]
        /\ putTask \in [Producers -> {"none", "new", "blocked", "woken", "done"}]
    BY <2>1 DEF TypeOK
  <2> QED BY <2>1, <2>2, <2>3
<1>2. UNCHANGED <<queue, unfinished, closed, gen, item, puts, owner, ended, overlap, cutShort>>
  BY DEF ReturnFromPut, adapter, history
<1>3. \A v \in Workers : IsFiniteSet(About(v)) /\ Cardinality(About(v)) \in Nat
  <2>1. \A v \in Workers : IsFiniteSet(About(v))
    BY FS_Subset DEF About
  <2> QED BY <2>1, FS_CardinalityType
(* What both kinds of return have in common.                               *)
<1>4. ASSUME NEW t \in Seq(Producers), putters' = [putters EXCEPT ![w] = t],
             putTask' \in [Producers -> {"none", "new", "blocked", "woken", "done"}],
             \A v \in Workers : v # w => \A q \in Producers : WorkerOf[q] = v => putTask'[q] = putTask[q],
             \A i \in DOMAIN t : WorkerOf[t[i]] = w /\ putTask'[t[i]] = "blocked",
             \A i, j \in DOMAIN t : t[i] = t[j] => i = j,
             MaxSize = 0 => t = <<>>,
             t # <<>> => Cardinality(About(w)') + Len(queue[w]) >= MaxSize
      PROVE  IInv'
  <2>1. putters'[w] = t /\ \A v \in Workers : v # w => putters'[v] = putters[v]
    BY <1>1, <1>4
  <2>2. TypeOK'
    <3>1. putters' \in [Workers -> Seq(Producers)]
      BY <1>1, <1>4
    <3> QED BY <1>1, <1>2, <1>4, <3>1 DEF TypeOK
  <2>3. JoinCountsTheItemsLeft'
    BY <1>1, <1>2, <2>2 DEF JoinCountsTheItemsLeft, InHand
  <2>4. RowsAreExact'
    <3> SUFFICES ASSUME NEW v \in Workers
                 PROVE  /\ \A i \in DOMAIN putters'[v] :
                             WorkerOf[putters'[v][i]] = v /\ putTask'[putters'[v][i]] = "blocked"
                        /\ \A i, j \in DOMAIN putters'[v] : putters'[v][i] = putters'[v][j] => i = j
      BY DEF RowsAreExact
    <3>1. CASE v = w
      BY <1>4, <2>1, <3>1
    <3>2. CASE v # w
      <4>1. \A i \in DOMAIN putters[v] : putters[v][i] \in Producers /\ WorkerOf[putters[v][i]] = v
        BY <1>1 DEF RowsAreExact
      <4>2. \A i \in DOMAIN putters[v] : putTask'[putters[v][i]] = putTask[putters[v][i]]
        BY <1>4, <3>2, <4>1
      <4> QED BY <1>1, <2>1, <3>2, <4>2 DEF RowsAreExact
    <3> QED BY <3>1, <3>2
  <2>5. \A v \in Workers : v # w => About(v)' = About(v)
    BY <1>4 DEF About
  <2>6. SlotsArePromised'
    <3> SUFFICES ASSUME NEW v \in Workers
                 PROVE  /\ MaxSize > 0 => Len(queue'[v]) <= MaxSize
                        /\ MaxSize = 0 => putters'[v] = <<>>
                        /\ putters'[v] # <<>> => Cardinality(About(v)') + Len(queue'[v]) >= MaxSize
      BY DEF SlotsArePromised
    <3>1. CASE v = w
      BY <1>1, <1>2, <1>4, <2>1, <3>1 DEF SlotsArePromised
    <3>2. CASE v # w
      BY <1>1, <1>2, <2>1, <2>5, <3>2 DEF SlotsArePromised
    <3> QED BY <3>1, <3>2
  <2> QED BY <2>3, <2>4, <2>6 DEF IInv
<1>5. CASE putTask[p] = "woken" /\ ~Full(w) /\ s # <<>>
  <2> DEFINE h == Head(s)
  <2>1. /\ putTask' = [[putTask EXCEPT ![h] = "woken"] EXCEPT ![p] = "none"]
        /\ putters' = [putters EXCEPT ![w] = Tail(s)]
    BY <1>1, <1>5 DEF ReturnFromPut, WakeNext, DropFirst
  <2>2. /\ h \in Producers /\ h = s[1] /\ 1 \in DOMAIN s
        /\ Tail(s) \in Seq(Producers) /\ Len(Tail(s)) = Len(s) - 1
        /\ DOMAIN Tail(s) = 1..(Len(s) - 1) /\ DOMAIN s = 1..Len(s) /\ Len(s) \in Nat
        /\ \A i \in 1..(Len(s) - 1) : Tail(s)[i] = s[i + 1] /\ i + 1 \in DOMAIN s /\ i + 1 # 1
    BY <1>1, <1>5, HeadTailProperties
  <2>3. WorkerOf[h] = w /\ putTask[h] = "blocked" /\ h # p
    BY <1>1, <1>5, <2>2 DEF RowsAreExact
  <2>4. \A q \in Producers : putTask'[q] = IF q = p THEN "none" ELSE IF q = h THEN "woken" ELSE putTask[q]
    BY <1>1, <2>1, <2>2
  <2>5. putTask' \in [Producers -> {"none", "new", "blocked", "woken", "done"}]
    BY <1>1, <2>1
  <2>6. \A i \in DOMAIN Tail(s) : Tail(s)[i] \in Producers /\ Tail(s)[i] # h /\ Tail(s)[i] # p
                                  /\ WorkerOf[Tail(s)[i]] = w /\ putTask[Tail(s)[i]] = "blocked"
    <3> SUFFICES ASSUME NEW i \in 1..(Len(s) - 1)
                 PROVE  /\ s[i + 1] \in Producers /\ s[i + 1] # h /\ s[i + 1] # p
                        /\ WorkerOf[s[i + 1]] = w /\ putTask[s[i + 1]] = "blocked"
      BY <2>2
    <3>1. i + 1 \in DOMAIN s /\ i + 1 # 1
      BY <2>2
    <3>2. s[i + 1] # s[1]
      BY <1>1, <2>2, <3>1 DEF RowsAreExact
    <3>3. WorkerOf[s[i + 1]] = w /\ putTask[s[i + 1]] = "blocked"
      BY <1>1, <3>1 DEF RowsAreExact
    <3> QED BY <1>1, <1>5, <2>2, <3>1, <3>2, <3>3
  <2>7. \A i \in DOMAIN Tail(s) : WorkerOf[Tail(s)[i]] = w /\ putTask'[Tail(s)[i]] = "blocked"
    BY <2>4, <2>6
  <2>8. \A i, j \in DOMAIN Tail(s) : Tail(s)[i] = Tail(s)[j] => i = j
    <3>1. \A i, j \in DOMAIN Tail(s) : Tail(s)[i] = Tail(s)[j] => i + 1 = j + 1
      <4>1. \A i, j \in DOMAIN s : s[i] = s[j] => i = j
        BY <1>1 DEF RowsAreExact
      <4> SUFFICES ASSUME NEW i \in 1..(Len(s) - 1), NEW j \in 1..(Len(s) - 1), s[i + 1] = s[j + 1]
                   PROVE  i + 1 = j + 1
        BY <2>2
      <4>2. i + 1 \in DOMAIN s /\ j + 1 \in DOMAIN s
        BY <2>2
      <4> QED BY <4>1, <4>2
    <3>2. \A i, j \in 1..(Len(s) - 1) : i + 1 = j + 1 => i = j
      BY <2>2
    <3> QED BY <2>2, <3>1, <3>2
  <2>9. Cardinality(About(w)') = Cardinality(About(w))
    <3>1. p \in About(w) /\ h \notin About(w)
      BY <1>5, <2>3 DEF About
    <3>2. About(w)' = (About(w) \cup {h}) \ {p}
      BY <2>2, <2>3, <2>4, <3>1 DEF About
    <3>3. IsFiniteSet(About(w) \cup {h}) /\ Cardinality(About(w) \cup {h}) = Cardinality(About(w)) + 1
      <4>1. IsFiniteSet(About(w))
        BY <1>1, <1>3
      <4> HIDE DEF h, w
      <4> QED BY <3>1, <4>1, FS_AddElement
    <3>4. Cardinality((About(w) \cup {h}) \ {p}) = Cardinality(About(w) \cup {h}) - 1
      BY <3>1, <3>3, FS_RemoveElement
    <3> QED BY <1>1, <1>3, <3>2, <3>3, <3>4
  <2>10. MaxSize # 0 /\ Cardinality(About(w)) + Len(queue[w]) >= MaxSize
    BY <1>1, <1>5 DEF SlotsArePromised
  <2>11. \A v \in Workers : v # w => \A q \in Producers : WorkerOf[q] = v => putTask'[q] = putTask[q]
    BY <2>3, <2>4
  <2> QED BY <1>4, <2>1, <2>2, <2>5, <2>7, <2>8, <2>9, <2>10, <2>11
<1>6. CASE putTask[p] = "woken" /\ ~Full(w) /\ s = <<>>
  <2>1. /\ putTask' = [putTask EXCEPT ![p] = "none"]
        /\ putters' = [putters EXCEPT ![w] = <<>>]
    BY <1>1, <1>6 DEF ReturnFromPut, WakeNext, DropFirst
  <2>2. putTask' \in [Producers -> {"none", "new", "blocked", "woken", "done"}]
        /\ \A q \in Producers : q # p => putTask'[q] = putTask[q]
    BY <1>1, <2>1
  <2>3. <<>> \in Seq(Producers) /\ DOMAIN <<>> = {}
    OBVIOUS
  <2> QED BY <1>4, <2>1, <2>2, <2>3
<1>7. CASE ~(putTask[p] = "woken" /\ ~Full(w))
  <2> DEFINE t == Without(s, p)
  <2>1. /\ putTask' = [putTask EXCEPT ![p] = "none"]
        /\ putters' = [putters EXCEPT ![w] = t]
    BY <1>1, <1>7 DEF ReturnFromPut
  <2>2. putTask' \in [Producers -> {"none", "new", "blocked", "woken", "done"}]
        /\ putTask'[p] = "none"
        /\ \A q \in Producers : q # p => putTask'[q] = putTask[q]
    BY <1>1, <2>1
  <2>3. /\ t \in Seq(Producers)
        /\ \A j \in DOMAIN t : t[j] # p /\ \E i \in DOMAIN s : t[j] = s[i]
        /\ \A i, j \in DOMAIN t : t[i] = t[j] => i = j
        /\ t # <<>> => s # <<>>
    BY <1>1, WithoutFacts DEF RowsAreExact
  <2> HIDE DEF t
  <2>4. \A j \in DOMAIN t : t[j] \in Producers /\ WorkerOf[t[j]] = w /\ putTask[t[j]] = "blocked"
    BY <1>1, <2>3 DEF RowsAreExact
  <2>5. \A j \in DOMAIN t : WorkerOf[t[j]] = w /\ putTask'[t[j]] = "blocked"
    BY <2>2, <2>3, <2>4
  <2>6. MaxSize = 0 => t = <<>>
    BY <1>1, <2>3 DEF SlotsArePromised
  <2>7. ASSUME t # <<>>
        PROVE  Cardinality(About(w)') + Len(queue[w]) >= MaxSize
    <3>1. Cardinality(About(w)) + Len(queue[w]) >= MaxSize
      BY <1>1, <2>3, <2>7 DEF SlotsArePromised
    <3>2. CASE putTask[p] = "woken"
      <4>1. MaxSize > 0 /\ Len(queue[w]) >= MaxSize
        BY <1>7, <3>2 DEF Full
      <4>2. About(w)' \subseteq Producers
        BY DEF About
      <4>3. Cardinality(About(w)') \in Nat
        <5>1. IsFiniteSet(About(w)')
          BY <4>2, FS_Subset
        <5> QED BY <5>1, FS_CardinalityType
      <4> QED BY <1>1, <4>1, <4>3
    <3>3. CASE putTask[p] # "woken"
      <4>1. About(w)' = About(w)
        BY <2>2, <3>3 DEF About
      <4> QED BY <3>1, <4>1
    <3> QED BY <3>2, <3>3
  <2> QED BY <1>4, <2>1, <2>2, <2>3, <2>5, <2>6, <2>7
<1> QED BY <1>5, <1>6, <1>7

(* A new worker, a new call and a forgotten id touch no queue.             *)
LEMMA OtherKeeps ==
    ASSUME IInv,
           \/ \E w \in Workers : NewWorker(w)
           \/ \E p \in Producers, i \in {Token, End} : PutToken(p, i)
           \/ ForgetId
           \/ UNCHANGED vars
    PROVE  IInv'
<1> USE WorkerAssumption
<1>1. /\ JoinCountsTheItemsLeft /\ TypeOK /\ RowsAreExact /\ SlotsArePromised
      /\ putters \in [Workers -> Seq(Producers)]
      /\ gen \in [Workers -> {"uncreated", "get", "delta", "lastDelta", "finalDelta", "done"}]
      /\ putTask \in [Producers -> {"none", "new", "blocked", "woken", "done"}]
      /\ puts \in [Producers -> Nat] /\ item \in [Producers -> {Token, End}]
  BY DEF IInv, JoinCountsTheItemsLeft, TypeOK
<1>2. UNCHANGED <<queue, putters, unfinished, closed>>
  BY DEF NewWorker, PutToken, ForgetId, vars
<1>3. \/ UNCHANGED putTask
      \/ \E p \in Producers : putTask[p] = "none" /\ putTask' = [putTask EXCEPT ![p] = "new"]
  BY DEF NewWorker, PutToken, ForgetId, producer, vars
<1>4. \/ UNCHANGED gen
      \/ \E w \in Workers : gen[w] = "uncreated" /\ gen' = [gen EXCEPT ![w] = "get"]
  BY DEF NewWorker, PutToken, ForgetId, vars
<1>5. TypeOK'
  <2>1. gen' \in [Workers -> {"uncreated", "get", "delta", "lastDelta", "finalDelta", "done"}]
    BY <1>1, <1>4
  <2>2. putTask' \in [Producers -> {"none", "new", "blocked", "woken", "done"}]
    BY <1>1, <1>3
  <2>3. puts' \in [Producers -> Nat]
    BY <1>1 DEF NewWorker, PutToken, ForgetId, producer, vars
  <2>4. item' \in [Producers -> {Token, End}]
    BY <1>1 DEF NewWorker, PutToken, ForgetId, producer, vars
  <2>5. /\ owner' \in Workers \cup {None} /\ ended' \in BOOLEAN
        /\ overlap' \subseteq Workers /\ cutShort' \subseteq Workers
    BY <1>1 DEF NewWorker, PutToken, ForgetId, adapter, history, vars, TypeOK, OpenWorkers
  <2> QED BY <1>1, <1>2, <2>1, <2>2, <2>3, <2>4, <2>5 DEF TypeOK
<1>6. JoinCountsTheItemsLeft'
  <2>1. \A w \in Workers : InHand(w)' = InHand(w)
    BY <1>1, <1>4 DEF InHand
  <2> QED BY <1>1, <1>2, <1>5, <2>1 DEF JoinCountsTheItemsLeft
<1>7. RowsAreExact'
  <2>1. \A q \in Producers : putTask[q] = "blocked" => putTask'[q] = "blocked"
    BY <1>1, <1>3
  <2>2. \A w \in Workers : \A i \in DOMAIN putters[w] : putters[w][i] \in Producers
    BY <1>1
  <2> QED BY <1>1, <1>2, <2>1, <2>2 DEF RowsAreExact
<1>8. SlotsArePromised'
  <2>1. \A q \in Producers : putTask'[q] = "woken" <=> putTask[q] = "woken"
    BY <1>1, <1>3
  <2>2. \A w \in Workers : About(w)' = About(w)
    BY <2>1 DEF About
  <2> QED BY <1>1, <1>2, <2>2 DEF SlotsArePromised
<1> QED BY <1>6, <1>7, <1>8 DEF IInv

(* Every call, every put and every step of a generator keeps the inductive *)
(* invariant.                                                              *)
LEMMA Preserved ==
    ASSUME IInv, [Next]_vars
    PROVE  IInv'
<1>1. ASSUME NEW w \in Workers, Consume(w) \/ StopEarly(w)
      PROVE  IInv'
  BY <1>1, ConsumerKeeps
<1>2. ASSUME NEW p \in Producers, RunPut(p)
      PROVE  IInv'
  BY <1>2, RunPutKeeps
<1>3. ASSUME NEW p \in Producers, ReturnFromPut(p)
      PROVE  IInv'
  BY <1>3, ReturnKeeps
<1>4. ASSUME \/ \E w \in Workers : NewWorker(w)
             \/ \E p \in Producers, i \in {Token, End} : PutToken(p, i)
             \/ ForgetId
             \/ UNCHANGED vars
      PROVE  IInv'
  BY <1>4, OtherKeeps
<1> QED BY <1>1, <1>2, <1>3, <1>4 DEF Next

(* join() waits for exactly the items that are left, on every path through *)
(* the generator's nested finally blocks.                                  *)
THEOREM JoinIsExact == Spec => []JoinCountsTheItemsLeft
<1>1. IInv => JoinCountsTheItemsLeft
  BY DEF IInv
<1>2. Init => IInv
  BY InitHolds
<1> QED BY <1>1, <1>2, Preserved, PTL DEF Spec

(* No put task sleeps beside a free slot that nobody is about to take.     *)
THEOREM WakeupsAreKept == Spec => []NoLostWakeup
<1>1. ASSUME IInv
      PROVE  NoLostWakeup
  <2> SUFFICES ASSUME NEW w \in Workers
               PROVE  /\ MaxSize > 0 => Len(queue[w]) <= MaxSize
                      /\ putters[w] # <<>> /\ ~Full(w) =>
                            \E p \in Producers : WorkerOf[p] = w /\ putTask[p] = "woken"
    BY DEF NoLostWakeup
  <2>1. /\ MaxSize > 0 => Len(queue[w]) <= MaxSize
        /\ MaxSize = 0 => putters[w] = <<>>
        /\ putters[w] # <<>> => Cardinality(About(w)) + Len(queue[w]) >= MaxSize
        /\ Len(queue[w]) \in Nat /\ MaxSize \in Nat
    BY <1>1, WorkerAssumption DEF IInv, SlotsArePromised, JoinCountsTheItemsLeft, TypeOK
  <2>2. ASSUME putters[w] # <<>>, ~Full(w), About(w) = {}
        PROVE  FALSE
    <3>1. Len(queue[w]) < MaxSize
      BY <2>1, <2>2 DEF Full
    <3>2. Cardinality({}) = 0
      BY FS_EmptySet
    <3>3. Cardinality(About(w)) = 0
      BY <2>2, <3>2
    <3> HIDE DEF About
    <3> QED BY <2>1, <2>2, <3>1, <3>3
  <2> QED BY <2>1, <2>2 DEF About
<1>2. Init => IInv
  BY InitHolds
<1> QED BY <1>1, <1>2, Preserved, PTL DEF Spec

--------------------------------------------------------------------------------
(* Whose steps end the id: only those of open workers, and the steps of a  *)
(* worker that has it to itself end it when they end that worker's stream. *)
LEMMA EndsAreOwnKept ==
    ASSUME IInv, EndsAreOwn, [Next]_vars
    PROVE  EndsAreOwn'
<1> USE WorkerAssumption
<1>1. /\ JoinCountsTheItemsLeft /\ TypeOK
      /\ gen \in [Workers -> {"uncreated", "get", "delta", "lastDelta", "finalDelta", "done"}]
      /\ closed \in [Workers -> BOOLEAN] /\ owner \in Workers \cup {None}
      /\ ended \in BOOLEAN
  BY DEF IInv, JoinCountsTheItemsLeft, TypeOK
<1>2. /\ \A w \in Workers : closed[w] <=> gen[w] = "done"
      /\ owner # None => owner \in Workers /\ gen[owner] \in Open
      /\ \A v, w \in Workers : gen[v] \in Open /\ gen[w] \in Open /\ v # w => v \in overlap
      /\ \A w \in Workers : gen[w] \in {"get", "delta"} /\ w \notin overlap => ~ended
      /\ cutShort \subseteq overlap
  BY DEF EndsAreOwn, NoStateOutlivesItsWorker, OnlyOverlapCutsShort, OpenWorkers, Open
<1> DEFINE Kept ==
      /\ \A w \in Workers : closed'[w] <=> gen'[w] = "done"
      /\ owner' # None => owner' \in Workers /\ gen'[owner'] \in Open
      /\ \A v, w \in Workers : gen'[v] \in Open /\ gen'[w] \in Open /\ v # w => v \in overlap'
      /\ \A w \in Workers : gen'[w] \in {"get", "delta"} /\ w \notin overlap' => ~ended'
      /\ cutShort' \subseteq overlap'
<1>3. Kept => EndsAreOwn'
  BY DEF EndsAreOwn, NoStateOutlivesItsWorker, OnlyOverlapCutsShort, OpenWorkers, Open
<1>4. ASSUME NEW w \in Workers, NewWorker(w)
      PROVE  Kept
  <2>1. /\ gen[w] = "uncreated"
        /\ gen'[w] = "get" /\ \A v \in Workers : v # w => gen'[v] = gen[v]
        /\ owner' = w /\ ~ended'
        /\ overlap' = overlap \cup IF OpenWorkers = {} THEN {} ELSE OpenWorkers \cup {w}
        /\ UNCHANGED <<closed, cutShort>>
    BY <1>1, <1>4 DEF NewWorker
  <2>2. \A v \in Workers : v # w /\ gen[v] \in Open => v \in overlap' /\ w \in overlap'
    BY <2>1 DEF OpenWorkers, Open
  <2> QED BY <1>2, <2>1, <2>2 DEF Open
<1>5. ASSUME NEW w \in Workers, Consume(w) \/ StopEarly(w)
      PROVE  Kept
  <2>1. /\ gen[w] \in Open
        /\ \A v \in Workers : v # w => gen'[v] = gen[v]
        /\ Continues(w) \/ Closes(w)
    BY <1>1, <1>5, ConsumerStep
  <2>2. \A v \in Workers : v # w /\ gen[v] \in Open => v \in overlap /\ w \in overlap
    BY <1>2, <2>1
  <2>3. CASE Closes(w)
    <3>1. /\ owner' = None /\ gen'[w] = "done" /\ overlap' = overlap
          /\ closed'[w] /\ \A v \in Workers : v # w => closed'[v] = closed[v]
          /\ cutShort' = cutShort \/ (ended /\ gen[w] = "get" /\ cutShort' = cutShort \cup {w})
      BY <1>1, <2>3 DEF Closes, AbortRequest
    <3>2. cutShort' \subseteq overlap'
      BY <1>2, <3>1
    <3>3. \A v \in Workers : gen'[v] \in Open => v # w /\ gen'[v] = gen[v]
      BY <2>1, <3>1 DEF Open
    <3>4. \A v \in Workers : gen'[v] \in {"get", "delta"} => v \in overlap'
      BY <2>2, <3>1, <3>3 DEF Open
    <3> QED BY <1>2, <2>1, <3>1, <3>2, <3>3, <3>4
  <2>4. CASE Continues(w)
    <3>1. /\ gen'[w] \in Open /\ closed' = closed
          /\ overlap' = overlap /\ cutShort' = cutShort
          /\ owner' \in {None, w, owner}
          /\ gen'[w] \in {"get", "delta"} => ~ended' \/ (gen[w] = "delta" /\ ended' = ended)
      BY <2>4 DEF Continues, history
    <3>2. \A v \in Workers : gen'[v] \in Open => gen[v] \in Open
      BY <2>1
    <3>3. \A v \in Workers : gen'[v] \in {"get", "delta"} /\ v \notin overlap' => ~ended'
      <4> SUFFICES ASSUME NEW v \in Workers, gen'[v] \in {"get", "delta"}, v \notin overlap
                   PROVE  ~ended'
        BY <3>1
      <4>1. v = w
        BY <2>1, <2>2, <3>2 DEF Open
      <4> QED BY <1>2, <3>1, <4>1
    <3>4. \A v \in Workers : closed'[v] <=> gen'[v] = "done"
      BY <1>2, <2>1, <3>1 DEF Open
    <3>5. owner' # None => owner' \in Workers /\ gen'[owner'] \in Open
      BY <1>2, <2>1, <3>1
    <3> QED BY <1>2, <3>1, <3>2, <3>3, <3>4, <3>5
  <2> QED BY <2>1, <2>3, <2>4
<1>6. ASSUME UNCHANGED <<gen, closed, overlap, cutShort>>,
             UNCHANGED <<owner, ended>> \/ (owner' = None /\ ~ended')
      PROVE  Kept
  BY <1>2, <1>6
<1>7. ASSUME \/ \E p \in Producers :
                  (\E i \in {Token, End} : PutToken(p, i)) \/ RunPut(p) \/ ReturnFromPut(p)
             \/ ForgetId
             \/ UNCHANGED vars
      PROVE  Kept
  <2>1. /\ UNCHANGED <<gen, closed, overlap, cutShort>>
        /\ UNCHANGED <<owner, ended>> \/ (owner' = None /\ ~ended')
    BY <1>7 DEF PutToken, RunPut, ReturnFromPut, ForgetId, adapter, history, vars
  <2> QED BY <1>6, <2>1
<1> QED BY <1>3, <1>4, <1>5, <1>7 DEF Next

(* However workers share an id, what stays registered is an open worker's, *)
(* and a worker that shares its id with nobody is never told the end of    *)
(* its stream by another one's call.                                       *)
THEOREM StreamsEndOnTheirOwn == Spec => []WorkersKeepToTheirOwn
<1>1. EndsAreOwn => WorkersKeepToTheirOwn
  BY DEF EndsAreOwn, WorkersKeepToTheirOwn
<1>2. Init => IInv /\ EndsAreOwn
  BY InitHolds
<1>3. IInv /\ EndsAreOwn /\ [Next]_vars => IInv' /\ EndsAreOwn'
  BY Preserved, EndsAreOwnKept
<1> QED BY <1>1, <1>2, <1>3, PTL DEF Spec
================================================================================
