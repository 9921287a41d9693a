----------------------------- MODULE MCServedStream -----------------------------
(***************************************************************************)
(* The two parts of one served stream that the registry does not see: a    *)
(* behaviour is one of the text of a stream, or one of the workers that    *)
(* bring its tokens to it over their queues.                               *)
(***************************************************************************)
EXTENDS MCStreamingState, MCAsyncWorker

VARIABLE part   \* "text" or "workers"

servedVars == <<part, streamVars, vars>>

ServedInit ==
    /\ part \in {"text", "workers"}
    /\ StreamInit /\ Init
    /\ part = "workers" => direct

ServedNext ==
    \/ part = "text" /\ StreamNext /\ UNCHANGED <<part, vars>>
    \/ part = "workers" /\ Next /\ UNCHANGED <<part, streamVars>>

ServedSpec == ServedInit /\ [][ServedNext]_servedVars /\ Fairness
================================================================================
