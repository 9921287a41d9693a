----------------------------- MODULE MCAsyncWorker -----------------------------
(* Values for AsyncWorker: two producers feed the first worker, one of them *)
(* twice, and the third the first or the second worker.                     *)
EXTENDS AsyncWorker

CONSTANTS w1, w2, p1, p2, p3

AllToFirst == [p \in {p1, p2, p3} |-> w1]
TwoAndOne == [p \in {p1, p2, p3} |-> IF p = p3 THEN w2 ELSE w1]

FirstTwice == [p \in {p1, p2, p3} |-> IF p = p1 THEN 2 ELSE 1]
================================================================================
