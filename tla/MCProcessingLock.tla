-------------------------- MODULE MCProcessingLock --------------------------
(* Three workers: one per process, or all of them in one process. *)
EXTENDS ProcessingLock, TLC

CONSTANTS w1, w2, w3

MCWorkers == {w1, w2, w3}

\* One worker per process: every owner string is different.
OwnProcess == [w \in MCWorkers |-> w]

\* Goroutines of one process, such as REST requests: one owner string.
SameProcess == [w \in MCWorkers |-> w1]

AnyWorker == Permutations(MCWorkers)
=============================================================================
