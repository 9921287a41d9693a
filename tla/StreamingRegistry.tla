--------------------------- MODULE StreamingRegistry ---------------------------
(***************************************************************************)
(* The per-request stream registry of UniqTokenVLLMAdapter                 *)
(* (uniqtoken/integrations/vllm.py).  Any number of threads call the       *)
(* adapter; every call runs under _states_lock, so it is one action, except *)
(* flush_streaming, which takes its VLLMStreamingState out under the lock  *)
(* and calls state.flush() after releasing it (FlushBegin, FlushEnd).      *)
(*                                                                         *)
(* The text of a stream is abstracted to `held`: how many pieces of text   *)
(* the state object has been fed and has not returned yet, be they an      *)
(* incomplete UTF-8 sequence in the decoder or a stop-string prefix held   *)
(* back.  StopStringStream models that text character by character.        *)
(***************************************************************************)
EXTENDS Naturals, Sequences, FiniteSets, TLC

CONSTANTS
    Requests,     \* request ids
    Threads,      \* threads that may be inside flush_streaming
    States,       \* identities of VLLMStreamingState objects
    None,         \* Python's None
    MaxFinished,  \* _max_finished_requests
    MaxHeld       \* most pieces a state holds back: the longest stop prefix
                  \* plus an incomplete UTF-8 sequence

ASSUME RegistryAssumption ==
    /\ None \notin Requests \cup States
    /\ MaxFinished \in Nat \ {0}
    /\ MaxHeld \in Nat

VARIABLES
    registry,    \* _streaming_states: the object of each active request
    finished,    \* _finished_requests: the ids in insertion order, oldest first
    held,        \* per object: decoded or buffered text not yet returned
    isFinished,  \* per object: VLLMStreamingState.is_finished
    flushing,    \* per thread: the object it is about to flush outside the lock
    ended,       \* history: ended by a finish, a flush or an abort, no init since
    after        \* history: ids newly marked finished since this one was

vars == <<registry, finished, held, isFinished, flushing, ended, after>>

InUse(s) == \/ \E r \in Requests : registry[r] = s
            \/ \E t \in Threads : flushing[t] = s

Remembered(f, r) == \E i \in DOMAIN f : f[i] = r

(* OrderedDict.pop(r, None) *)
Forget(f, r) ==
    IF Remembered(f, r)
    THEN LET i == CHOOSE i \in DOMAIN f : f[i] = r
         IN  [j \in 1..(Len(f) - 1) |-> IF j < i THEN f[j] ELSE f[j + 1]]
    ELSE f

(* Bugs of the eviction: the newest id goes, an id goes early, an id that  *)
(* ends again moves to the back.                                           *)
BugEvictNewest(f, r) ==
    IF Remembered(f, r) \/ Len(f) = MaxFinished THEN f ELSE Append(f, r)
BugEvictEarly(f, r) ==
    IF Remembered(f, r) THEN f
    ELSE IF Len(f) + 1 >= MaxFinished THEN Tail(Append(f, r)) ELSE Append(f, r)
BugMoveToEnd(f, r) ==
    LET g == Append(Forget(f, r), r)
    IN  IF Len(g) > MaxFinished THEN Tail(g) ELSE g

(* _mark_finished: an id that is there already keeps its place; a new one  *)
(* goes last, and the oldest go while the dictionary is over its bound.    *)
MarkFinished(f, r) ==
    IF Remembered(f, r) THEN f
    ELSE LET g == Append(f, r)
         IN  IF Len(g) > MaxFinished
             THEN SubSeq(g, Len(g) - MaxFinished + 1, Len(g))
             ELSE g

(* What the history variables record when r is marked. *)
RecordEnd(r) ==
    /\ ended' = [ended EXCEPT ![r] = TRUE]
    /\ after' = IF Remembered(finished, r) THEN after
                ELSE [q \in Requests |-> IF q = r THEN {} ELSE after[q] \cup {r}]

(* r leaves the registry for the finished set. *)
End(r) ==
    /\ registry' = [registry EXCEPT ![r] = None]
    /\ finished' = MarkFinished(finished, r)
    /\ RecordEnd(r)

--------------------------------------------------------------------------------

Init ==
    /\ registry = [r \in Requests |-> None]
    /\ finished = <<>>
    /\ held = [s \in States |-> 0]
    /\ isFinished = [s \in States |-> FALSE]
    /\ flushing = [t \in Threads |-> None]
    /\ ended = [r \in Requests |-> FALSE]
    /\ after = [r \in Requests |-> {}]

(* What state.step(token) can do to an object that holds h pieces: keep k  *)
(* of the h + 1 pieces back, or meet a stop string, return what precedes   *)
(* it and drop the rest.  Without stop strings only the first can happen.  *)
StepOutcomes(h, done) ==
    IF done THEN {[held |-> h, done |-> TRUE]}
    ELSE {[held |-> k, done |-> FALSE] : k \in {k \in 0..MaxHeld : k <= h + 1}}
         \cup {[held |-> 0, done |-> TRUE]}

(* A bug: registering an id does not take it out of the finished set. *)
BugInitKeepsFinished(r) ==
    \E s \in States :
        /\ ~InUse(s)
        /\ registry' = [registry EXCEPT ![r] = s]
        /\ held' = [held EXCEPT ![s] = 0]
        /\ isFinished' = [isFinished EXCEPT ![s] = FALSE]
        /\ ended' = [ended EXCEPT ![r] = FALSE]
        /\ after' = [after EXCEPT ![r] = {}]
        /\ UNCHANGED <<finished, flushing>>

InitRequest(r) ==
    \E s \in States :
        /\ ~InUse(s)
        /\ registry' = [registry EXCEPT ![r] = s]
        /\ finished' = Forget(finished, r)
        /\ held' = [held EXCEPT ![s] = 0]
        /\ isFinished' = [isFinished EXCEPT ![s] = FALSE]
        /\ ended' = [ended EXCEPT ![r] = FALSE]
        /\ after' = [after EXCEPT ![r] = {}]
        /\ UNCHANGED flushing

(* step_streaming of an id in _finished_requests answers ("", True). *)
StepFinished(r) ==
    /\ Remembered(finished, r)
    /\ UNCHANGED vars

StepActive(r) ==
    /\ ~Remembered(finished, r)
    /\ registry[r] # None
    /\ LET s == registry[r]
       IN  \E o \in StepOutcomes(held[s], isFinished[s]) :
             /\ held' = [held EXCEPT ![s] = o.held]
             /\ isFinished' = [isFinished EXCEPT ![s] = o.done]
             /\ IF o.done THEN End(r)
                ELSE UNCHANGED <<registry, finished, ended, after>>
    /\ UNCHANGED flushing

(* step_streaming of an id it does not know registers it and steps it; the *)
(* nested init_streaming_request pops r from a set that lacks it.          *)
StepUnknown(r) ==
    /\ ~Remembered(finished, r)
    /\ registry[r] = None
    /\ \E s \in States :
        /\ ~InUse(s)
        /\ \E o \in StepOutcomes(0, FALSE) :
             /\ held' = [held EXCEPT ![s] = o.held]
             /\ isFinished' = [isFinished EXCEPT ![s] = o.done]
             /\ IF o.done THEN End(r)
                ELSE /\ registry' = [registry EXCEPT ![r] = s]
                     /\ UNCHANGED <<finished, ended, after>>
    /\ UNCHANGED flushing

(* flush_streaming up to the release of the lock.  An id that is not       *)
(* registered returns "" at once and is not marked.                        *)
FlushBegin(t, r, cleanup) ==
    /\ flushing[t] = None
    /\ registry[r] # None
    /\ flushing' = [flushing EXCEPT ![t] = registry[r]]
    /\ IF cleanup THEN End(r) ELSE UNCHANGED <<registry, finished, ended, after>>
    /\ UNCHANGED <<held, isFinished>>

(* A bug: state.flush() holds text back as state.step() does. *)
BugFlushHoldsBack(t) ==
    /\ flushing[t] # None
    /\ LET s == flushing[t]
       IN  \E k \in 0..held[s] : /\ held' = [held EXCEPT ![s] = k]
                                 /\ isFinished' = [isFinished EXCEPT ![s] = TRUE]
    /\ flushing' = [flushing EXCEPT ![t] = None]
    /\ UNCHANGED <<registry, finished, ended, after>>

(* state.flush(): an unfinished object returns all it held, up to a stop.  *)
FlushEnd(t) ==
    /\ flushing[t] # None
    /\ LET s == flushing[t]
       IN  /\ held' = IF isFinished[s] THEN held ELSE [held EXCEPT ![s] = 0]
           /\ isFinished' = [isFinished EXCEPT ![s] = TRUE]
    /\ flushing' = [flushing EXCEPT ![t] = None]
    /\ UNCHANGED <<registry, finished, ended, after>>

(* abort_request, of an active, an ended or an unknown id alike. *)
Abort(r) ==
    /\ End(r)
    /\ UNCHANGED <<held, isFinished, flushing>>

ClearAll ==
    /\ registry' = [r \in Requests |-> None]
    /\ finished' = <<>>
    /\ ended' = [r \in Requests |-> FALSE]
    /\ after' = [r \in Requests |-> {}]
    /\ UNCHANGED <<held, isFinished, flushing>>

Next ==
    \/ \E r \in Requests : \/ InitRequest(r)
                           \/ StepFinished(r)
                           \/ StepActive(r)
                           \/ StepUnknown(r)
                           \/ Abort(r)
    \/ \E t \in Threads, r \in Requests, cleanup \in BOOLEAN : FlushBegin(t, r, cleanup)
    \/ \E t \in Threads : FlushEnd(t)
    \/ ClearAll

Spec == Init /\ [][Next]_vars

--------------------------------------------------------------------------------
(* The shape of the registry's dictionaries and of the objects in them. *)
TypeOK ==
    /\ registry \in [Requests -> States \cup {None}]
    /\ finished \in Seq(Requests)
    /\ held \in [States -> 0..MaxHeld]
    /\ isFinished \in [States -> BOOLEAN]
    /\ flushing \in [Threads -> States \cup {None}]
    /\ ended \in [Requests -> BOOLEAN]
    /\ after \in [Requests -> SUBSET Requests]

(* The two dictionaries never both hold an id, whatever mix of init, step, *)
(* flush, abort and implicit init the threads call: an id in both would    *)
(* swallow every token of a live stream, since step_streaming looks in the *)
(* finished set first.                                                     *)
ActiveNotFinished == \A r \in Requests : registry[r] # None => ~Remembered(finished, r)

(* _finished_requests is a set within its bound: an id is in it once, and  *)
(* no sequence of calls makes it outgrow _max_finished_requests.           *)
FinishedIsBoundedSet ==
    /\ \A i, j \in DOMAIN finished : finished[i] = finished[j] => i = j
    /\ Len(finished) <= MaxFinished

(* Positions in the finished set record the order of the ends: whatever    *)
(* follows an id was newly marked after it, so an id that is inited and    *)
(* ends again moves behind everything that ended meanwhile.                *)
FinishedInOrder ==
    \A i, j \in DOMAIN finished : i < j => finished[j] \in after[finished[i]]

(* The finished set is a queue of distinct ids in the order of their ends, *)
(* within its bound, whatever the threads call.                            *)
RegistryIsOrdered == TypeOK /\ FinishedIsBoundedSet /\ FinishedInOrder

(* A request that ended and was not registered again is forgotten only     *)
(* after MaxFinished other ids were newly marked: the bounded set evicts   *)
(* the oldest, so a late token of the MaxFinished most recently ended      *)
(* requests still gets ("", True).                                         *)
EndedIsRemembered ==
    \A r \in Requests :
        ended[r] /\ ~Remembered(finished, r) => Cardinality(after[r]) >= MaxFinished

ReturnedOrGivenUp(s) ==
    \/ isFinished'[s] /\ held'[s] = 0
    \/ ClearAll
    \/ \E r \in Requests : registry[r] = s /\ (Abort(r) \/ InitRequest(r))

(* No text is left behind: an object goes out of use finished and with all *)
(* its text returned, unless the caller aborted its request, registered    *)
(* the id again, or cleared the registry.                                  *)
NoTextLeftBehind ==
    [][\A s \in States : InUse(s) /\ ~InUse(s)' => ReturnedOrGivenUp(s)]_vars

(* The registry implements the bounded memory of ended requests that       *)
(* RequestLifecycle states without the dictionaries: no interleaving of    *)
(* calls forgets an ended id while the set has room for it.                *)
Phase == [r \in Requests |-> IF registry[r] # None THEN "active"
                             ELSE IF Remembered(finished, r) THEN "ended"
                             ELSE "unknown"]

Lifecycle == INSTANCE RequestLifecycle WITH Capacity <- MaxFinished, phase <- Phase

ImplementsLifecycle == Lifecycle!Spec

(* For TLC: ids, threads and objects are interchangeable. *)
Symmetry == Permutations(Requests) \cup Permutations(Threads) \cup Permutations(States)
================================================================================
