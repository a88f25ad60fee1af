----------------------------- MODULE MCFileLock -----------------------------
(* Three workers that share a lock directory, in one process or in three. *)
EXTENDS FileLock

CONSTANTS w1, w2, w3

MCWorkers == {w1, w2, w3}

\* Two runtimes in one process share the store: w1 and w2 are requests to one
\* of them, w3 to the other.
OneProcess == [w \in MCWorkers |-> w1]
TwoOwners == [w \in MCWorkers |-> IF w = w3 THEN w3 ELSE w1]

\* A process, and an owner, for every worker.
OwnProcess == [w \in MCWorkers |-> w]
=============================================================================
