------------------------------- MODULE AsyncWorker -------------------------------
(***************************************************************************)
(* AsyncVLLMStreamingWorker (uniqtoken/integrations/vllm.py) on one asyncio *)
(* event loop: producers call put_token, a consumer iterates               *)
(* stream_deltas, both over one asyncio.Queue per worker.  All workers     *)
(* here stream for the same request id, one after the other or at once:    *)
(* nothing in the code keeps a second worker from registering an id that a *)
(* first one still streams.                                                *)
(*                                                                         *)
(* What runs between two awaits is one action.  The tasks put_token starts *)
(* run in any order: a put task may be new, blocked in queue.put, or woken *)
(* by a get and about to look at the queue again.  asyncio.Queue is        *)
(* external: put, get_nowait, task_done and the waiting putters are        *)
(* modelled as the standard library defines them.                          *)
(***************************************************************************)
EXTENDS Naturals, Sequences, FiniteSets, SequencesExt

CONSTANTS
    Workers,     \* workers created for the request id
    Producers,   \* tasks that call put_token
    WorkerOf,    \* the worker each producer feeds
    None,
    MaxSize,     \* maxsize of the queues; 0 is unbounded
    MaxPuts      \* bound: put_token calls of each producer

ASSUME WorkerAssumption ==
    /\ WorkerOf \in [Producers -> Workers]
    /\ IsFiniteSet(Producers)
    /\ None \notin Workers
    /\ MaxSize \in Nat
    /\ MaxPuts \in [Producers -> Nat]

VARIABLES
    queue,       \* per worker: the items in the queue, Token or End
    putters,     \* per worker: the producers whose put task waits for a slot
    unfinished,  \* per worker: the queue's count of items without task_done
    closed,      \* per worker: the _closed event
    gen,         \* per worker: where stream_deltas is
    putTask,     \* per producer: the put task of its put_token call
    item,        \* per producer: what that call puts
    puts,        \* per producer: calls made
    owner,       \* adapter: the worker whose call registered the id's state
    ended,       \* adapter: the id is in _finished_requests
    overlap,     \* history: workers that were open at once with another one
    cutShort     \* history: workers that a step told the end of a stream that
                 \* had not reached its own

adapter == <<owner, ended>>
history == <<overlap, cutShort>>
producer == <<putTask, item, puts>>
vars == <<queue, putters, unfinished, closed, gen, putTask, item, puts, owner, ended, overlap, cutShort>>

Token == "token"
End == "end"      \* the None that terminates a stream

Full(w) == MaxSize > 0 /\ Len(queue[w]) >= MaxSize

(* Queue._wakeup_next: the put task that has waited longest becomes woken. *)
WakeNext(w, tasks) ==
    IF putters[w] = <<>> THEN tasks
    ELSE [tasks EXCEPT ![Head(putters[w])] = "woken"]
DropFirst(s) == IF s = <<>> THEN s ELSE Tail(s)

(* deque.remove of a put task that is cancelled, if it waits. *)
Without(s, p) ==
    IF \E i \in DOMAIN s : s[i] = p
    THEN LET i == CHOOSE i \in DOMAIN s : s[i] = p
         IN  [j \in 1..(Len(s) - 1) |-> IF j < i THEN s[j] ELSE s[j + 1]]
    ELSE s

Init ==
    /\ queue = [w \in Workers |-> <<>>]
    /\ putters = [w \in Workers |-> <<>>]
    /\ unfinished = [w \in Workers |-> 0]
    /\ closed = [w \in Workers |-> FALSE]
    /\ gen = [w \in Workers |-> "uncreated"]
    /\ putTask = [p \in Producers |-> "none"]
    /\ item = [p \in Producers |-> Token]
    /\ puts = [p \in Producers |-> 0]
    /\ owner = None
    /\ ended = FALSE
    /\ overlap = {} /\ cutShort = {}

--------------------------------------------------------------------------------
(* The adapter's calls for the one id, as StreamingRegistry has them.      *)

(* step_streaming of an id that has not ended: without a state it registers *)
(* one, and a step that finishes takes it out again.                       *)
AdapterStep(w, finish) ==
    /\ ~ended
    /\ owner' = IF finish THEN None ELSE IF owner = None THEN w ELSE owner
    /\ ended' = finish

(* flush_streaming(cleanup=True) does nothing for an id without a state. *)
AdapterFlush ==
    IF owner = None THEN UNCHANGED adapter
    ELSE owner' = None /\ ended' = TRUE

AbortRequest == owner' = None /\ ended' = TRUE

(* The adapter forgets the id: clear_all_streaming, or the end of other    *)
(* requests evicts it from _finished_requests, which then holds no state.  *)
ForgetId ==
    /\ owner # None \/ ended
    /\ owner' = None
    /\ ended' = FALSE
    /\ UNCHANGED <<queue, putters, unfinished, closed, gen, producer, history>>

OpenWorkers == {w \in Workers : gen[w] \in {"get", "delta", "lastDelta", "finalDelta"}}

(* A bug: init leaves the id among the finished requests. *)
BugKeepFinished(w) ==
    /\ gen[w] = "uncreated"
    /\ gen' = [gen EXCEPT ![w] = "get"]
    /\ owner' = w
    /\ overlap' = overlap \cup IF OpenWorkers = {} THEN {} ELSE OpenWorkers \cup {w}
    /\ UNCHANGED <<queue, putters, unfinished, closed, producer, ended, cutShort>>

(* __init__: registers the id, over the state of another worker if there   *)
(* is one.                                                                 *)
NewWorker(w) ==
    /\ gen[w] = "uncreated"
    /\ gen' = [gen EXCEPT ![w] = "get"]
    /\ owner' = w
    /\ ended' = FALSE
    /\ overlap' = overlap \cup IF OpenWorkers = {} THEN {} ELSE OpenWorkers \cup {w}
    /\ UNCHANGED <<queue, putters, unfinished, closed, producer, cutShort>>

--------------------------------------------------------------------------------
(* put_token *)

(* A call on an open worker starts its two tasks and waits for either. *)
PutToken(p, i) ==
    LET w == WorkerOf[p]
    IN  /\ gen[w] # "uncreated"
        /\ putTask[p] = "none"
        /\ puts[p] < MaxPuts[p]
        /\ puts' = [puts EXCEPT ![p] = @ + 1]
        /\ IF closed[w] THEN UNCHANGED <<putTask, item>>
           ELSE /\ putTask' = [putTask EXCEPT ![p] = "new"]
                /\ item' = [item EXCEPT ![p] = i]
        /\ UNCHANGED <<queue, putters, unfinished, closed, gen, adapter, history>>

(* queue.put runs: it waits while the queue is full, also when it was      *)
(* woken and another put took the slot.                                    *)
RunPut(p) ==
    LET w == WorkerOf[p]
    IN  /\ putTask[p] \in {"new", "woken"}
        /\ IF Full(w)
           THEN /\ putters' = [putters EXCEPT ![w] = Append(@, p)]
                /\ putTask' = [putTask EXCEPT ![p] = "blocked"]
                /\ UNCHANGED <<queue, unfinished>>
           ELSE /\ queue' = [queue EXCEPT ![w] = Append(@, item[p])]
                /\ unfinished' = [unfinished EXCEPT ![w] = @ + 1]
                /\ putTask' = [putTask EXCEPT ![p] = "done"]
                /\ UNCHANGED putters
        /\ UNCHANGED <<closed, gen, item, puts, adapter, history>>

(* A bug: a cancelled put keeps the wake-up it got. *)
BugWakeupLost(p) ==
    LET w == WorkerOf[p]
    IN  /\ putTask[p] # "none"
        /\ putTask[p] \in {"done", "woken"} \/ closed[w]
        /\ putTask' = [putTask EXCEPT ![p] = "none"]
        /\ putters' = [putters EXCEPT ![w] = Without(@, p)]
        /\ UNCHANGED <<queue, unfinished, closed, gen, item, puts, adapter, history>>

(* asyncio.wait returns since the put is done or the worker closed.  A put *)
(* still pending is cancelled; one that was woken hands its slot on.       *)
ReturnFromPut(p) ==
    LET w == WorkerOf[p]
        handOn == putTask[p] = "woken" /\ ~Full(w)
    IN  /\ putTask[p] # "none"
        /\ putTask[p] = "done" \/ closed[w]
        /\ putTask' = [(IF handOn THEN WakeNext(w, putTask) ELSE putTask) EXCEPT ![p] = "none"]
        /\ putters' = [putters EXCEPT ![w] = IF handOn THEN DropFirst(@) ELSE Without(@, p)]
        /\ UNCHANGED <<queue, unfinished, closed, gen, item, puts, adapter, history>>

--------------------------------------------------------------------------------
(* stream_deltas *)

(* A bug: the finally drains without task_done. *)
BugDrainWithoutDone(w, q, n) ==
    /\ gen' = [gen EXCEPT ![w] = "done"]
    /\ closed' = [closed EXCEPT ![w] = TRUE]
    /\ queue' = [queue EXCEPT ![w] = <<>>]
    /\ unfinished' = [unfinished EXCEPT ![w] = n]

(* The outer finally up to its abort: close and drain the queue, each      *)
(* get_nowait waking one put task.  `q` is the queue the finally finds,    *)
(* `n` the unfinished count after the task_done of the item in hand.       *)
Close(w, q, n) ==
    /\ gen' = [gen EXCEPT ![w] = "done"]
    /\ closed' = [closed EXCEPT ![w] = TRUE]
    /\ queue' = [queue EXCEPT ![w] = <<>>]
    /\ unfinished' = [unfinished EXCEPT ![w] = n - Len(q)]

(* The put tasks that n calls of get_nowait wake: the first in the row. *)
Woken(w, n) == {putters[w][i] : i \in {i \in DOMAIN putters[w] : i <= n}}
WakePutters(w, n) ==
    /\ putTask' = [p \in Producers |-> IF p \in Woken(w, n) THEN "woken" ELSE putTask[p]]
    /\ putters' = [putters EXCEPT ![w] = SubSeq(@, n + 1, Len(@))]

(* The generator gets an item and works on it up to the next yield, the    *)
(* next get, or its end.                                                   *)
GetToken(w) ==
    /\ gen[w] = "get"
    /\ queue[w] # <<>> /\ Head(queue[w]) = Token
    /\ \E finish \in BOOLEAN, delta \in BOOLEAN :
         /\ ended => finish /\ ~delta
         /\ \/ \* a delta is yielded with the item still in hand
               /\ delta
               /\ AdapterStep(w, finish)
               /\ gen' = [gen EXCEPT ![w] = IF finish THEN "lastDelta" ELSE "delta"]
               /\ queue' = [queue EXCEPT ![w] = Tail(@)]
               /\ WakePutters(w, 1)
               /\ UNCHANGED <<unfinished, closed, cutShort>>
            \/ \* nothing to yield: task_done and back to the queue
               /\ ~delta /\ ~finish
               /\ AdapterStep(w, finish)
               /\ queue' = [queue EXCEPT ![w] = Tail(@)]
               /\ unfinished' = [unfinished EXCEPT ![w] = @ - 1]
               /\ WakePutters(w, 1)
               /\ UNCHANGED <<gen, closed, cutShort>>
            \/ \* the stream ended without a delta, or had ended before: the
               \* flush finds no state
               /\ ~delta /\ finish
               /\ Close(w, Tail(queue[w]), unfinished[w] - 1)
               /\ WakePutters(w, Len(queue[w]))
               /\ AbortRequest
               /\ cutShort' = IF ended THEN cutShort \cup {w} ELSE cutShort
    /\ UNCHANGED <<item, puts, overlap>>

(* A bug: a terminator is skipped when there is nothing to flush. *)
BugSkipTerminator(w) ==
    /\ gen[w] = "get"
    /\ queue[w] # <<>> /\ Head(queue[w]) = End
    /\ queue' = [queue EXCEPT ![w] = Tail(@)]
    /\ unfinished' = [unfinished EXCEPT ![w] = @ - 1]
    /\ WakePutters(w, 1)
    /\ UNCHANGED <<gen, closed, item, puts, adapter, history>>

GetEnd(w) ==
    /\ gen[w] = "get"
    /\ queue[w] # <<>> /\ Head(queue[w]) = End
    /\ \/ \* text was held back: it is yielded with the item still in hand
          /\ owner # None
          /\ AdapterFlush
          /\ gen' = [gen EXCEPT ![w] = "finalDelta"]
          /\ queue' = [queue EXCEPT ![w] = Tail(@)]
          /\ WakePutters(w, 1)
          /\ UNCHANGED <<unfinished, closed>>
       \/ /\ Close(w, Tail(queue[w]), unfinished[w] - 1)
          /\ WakePutters(w, Len(queue[w]))
          /\ AbortRequest
    /\ UNCHANGED <<item, puts, history>>

(* The consumer asks for the next delta after one in the middle. *)
ResumeDelta(w) ==
    /\ gen[w] = "delta"
    /\ gen' = [gen EXCEPT ![w] = "get"]
    /\ unfinished' = [unfinished EXCEPT ![w] = @ - 1]
    /\ UNCHANGED <<queue, putters, closed, producer, adapter, history>>

(* After the delta of its last step the generator flushes whatever is      *)
(* registered for the id by now, and may have that to yield.               *)
ResumeLastDelta(w) ==
    /\ gen[w] = "lastDelta"
    /\ \/ /\ owner # None
          /\ AdapterFlush
          /\ gen' = [gen EXCEPT ![w] = "finalDelta"]
          /\ UNCHANGED <<queue, putters, unfinished, closed, putTask>>
       \/ /\ Close(w, queue[w], unfinished[w] - 1)
          /\ WakePutters(w, Len(queue[w]))
          /\ AbortRequest
    /\ UNCHANGED <<item, puts, history>>

ResumeFinalDelta(w) ==
    /\ gen[w] = "finalDelta"
    /\ Close(w, queue[w], unfinished[w] - 1)
    /\ WakePutters(w, Len(queue[w]))
    /\ AbortRequest
    /\ UNCHANGED <<item, puts, history>>

(* A bug: stopping early leaves the request to whoever flushes it. *)
BugStopWithoutAbort(w) ==
    /\ gen[w] \in {"get", "delta", "lastDelta", "finalDelta"}
    /\ Close(w, queue[w], IF gen[w] = "get" THEN unfinished[w] ELSE unfinished[w] - 1)
    /\ WakePutters(w, Len(queue[w]))
    /\ UNCHANGED <<item, puts, adapter, history>>

(* The consumer stops early (aclose or cancellation): at a yield the item  *)
(* in hand gets its task_done, at the get there is none in hand.           *)
StopEarly(w) ==
    /\ gen[w] \in {"get", "delta", "lastDelta", "finalDelta"}
    /\ Close(w, queue[w], IF gen[w] = "get" THEN unfinished[w] ELSE unfinished[w] - 1)
    /\ WakePutters(w, Len(queue[w]))
    /\ AbortRequest
    /\ UNCHANGED <<item, puts, history>>

Consume(w) == GetToken(w) \/ GetEnd(w) \/ ResumeDelta(w)
              \/ ResumeLastDelta(w) \/ ResumeFinalDelta(w)

Next ==
    \/ \E w \in Workers : NewWorker(w) \/ StopEarly(w) \/ Consume(w)
    \/ \E p \in Producers : \/ \E i \in {Token, End} : PutToken(p, i)
                            \/ RunPut(p)
                            \/ ReturnFromPut(p)
    \/ ForgetId

(* The event loop runs every ready task, and the consumer keeps iterating  *)
(* until the generator ends.  Nobody has to call put_token or to stop.     *)
Fairness ==
    /\ \A w \in Workers : WF_vars(Consume(w))
    /\ \A p \in Producers : WF_vars(RunPut(p)) /\ WF_vars(ReturnFromPut(p))

Spec == Init /\ [][Next]_vars /\ Fairness

--------------------------------------------------------------------------------
InHand(w) == IF gen[w] \in {"delta", "lastDelta", "finalDelta"} THEN 1 ELSE 0

TypeOK ==
    /\ queue \in [Workers -> Seq({Token, End})]
    /\ putters \in [Workers -> Seq(Producers)]
    /\ unfinished \in [Workers -> Nat]
    /\ closed \in [Workers -> BOOLEAN]
    /\ gen \in [Workers -> {"uncreated", "get", "delta", "lastDelta", "finalDelta", "done"}]
    /\ putTask \in [Producers -> {"none", "new", "blocked", "woken", "done"}]
    /\ item \in [Producers -> {Token, End}]
    /\ puts \in [Producers -> Nat]
    /\ owner \in Workers \cup {None}
    /\ ended \in BOOLEAN
    /\ overlap \subseteq Workers /\ cutShort \subseteq Workers

(* Every item put is either in the queue, in the consumer's hand or done:  *)
(* no path through the nested finally blocks calls task_done too often or  *)
(* forgets it, so join() waits for exactly the items that are left.        *)
JoinCountsTheItemsLeft ==
    /\ TypeOK
    /\ \A w \in Workers : unfinished[w] = Len(queue[w]) + InHand(w)

(* A bounded queue stays bounded, and no put task sleeps while there is a  *)
(* free slot that nobody woken is about to take: the wake-up of a          *)
(* cancelled put is handed on.                                             *)
NoLostWakeup ==
    \A w \in Workers :
        /\ MaxSize > 0 => Len(queue[w]) <= MaxSize
        /\ putters[w] # <<>> /\ ~Full(w) =>
              \E p \in Producers : WorkerOf[p] = w /\ putTask[p] = "woken"

(* Whatever workers share the id, registered over each other, evicted or   *)
(* cleared: what is registered belongs to a worker that is still open, so  *)
(* when the last one has closed nothing of the id is left registered.      *)
NoStateOutlivesItsWorker == owner # None => owner \in OpenWorkers

(* "Terminates on None or when a stop condition is triggered": no step     *)
(* tells a worker that its stream has ended when another call ended it.    *)
EndsOnNoneOrStop == cutShort = {}

(* A worker that had the id to itself while it was open does keep to that, *)
(* also after an earlier worker finished the id.                           *)
OnlyOverlapCutsShort == cutShort \subseteq overlap

(* The end of a worker is its own: it leaves nothing registered behind it, *)
(* and ends nobody else's stream but that of a worker it was open with.    *)
WorkersKeepToTheirOwn == NoStateOutlivesItsWorker /\ OnlyOverlapCutsShort

(* Closing releases every producer: a put_token call never stays blocked   *)
(* on a worker whose consumer has gone.                                    *)
ProducersAreReleased ==
    \A p \in Producers :
        (closed[WorkerOf[p]] /\ putTask[p] # "none") ~> (putTask[p] = "none")

(* A terminator in the queue ends the stream. *)
EndClosesTheStream ==
    \A w \in Workers : Contains(queue[w], End) ~> closed[w]

(* What ended ends for everybody: the worker closes, its producers go on.  *)
EndReleasesAll == EndClosesTheStream /\ ProducersAreReleased

(* vllm.py:716 says the drain releases join(): a put that was waiting for  *)
(* a slot when the worker closed must not leave an item unfinished.        *)
DrainReleasesJoin ==
    [][\A p \in Producers :
          LET w == WorkerOf[p]
          IN  closed[w] /\ putTask[p] = "woken" /\ putTask'[p] = "done" => unfinished'[w] = 0]_vars
================================================================================
