------------------------------ MODULE FileLock ------------------------------
(***************************************************************************)
(* The lock file of FileStateStore: TryAcquireProcessing and Release as    *)
(* the file operations they are made of.  FileStateStore.mu serialises     *)
(* them within one process; between processes that share the directory     *)
(* the operations interleave.  Time is as in ProcessingLock.               *)
(***************************************************************************)
EXTENDS Integers

CONSTANTS
  Workers,     \* the goroutines that may process the message
  ProcessOf,   \* the process each worker runs in
  Owners,
  OwnerOf,     \* the owner each worker claims with
  Nobody,
  TTL,
  Faults       \* "crash": a process may die; "io": a write may fail

ASSUME OwnerAssumption == OwnerOf \in [Workers -> Owners] /\ Nobody \notin Owners
ASSUME TTLAssumption == TTL \in Nat \ {0}

VARIABLES
  file,   \* the lock file: absent, just created (still empty), or a whole lock
  pc,     \* where each worker is
  lease   \* what is left of the lease a worker last asked for

vars == <<file, pc, lease>>

Absent == [kind |-> "absent", by |-> Nobody, left |-> -1]
Empty(w) == [kind |-> "empty", by |-> w, left |-> -1]
Lock(w, left) == [kind |-> "lock", by |-> w, left |-> left]

\* Mutant of Unlocked: the operations do not take the mutex.
Unlocked_Always(w) == w \in Workers

\* FileStateStore.mu is free for worker w.
Unlocked(w) ==
  \A v \in Workers : ProcessOf[v] = ProcessOf[w] => pc[v] \in {"idle", "working"}

Goto(w, next) == pc' = [pc EXCEPT ![w] = next]

-----------------------------------------------------------------------------
Init ==
  /\ file = Absent
  /\ pc = [w \in Workers |-> "idle"]
  /\ lease = [w \in Workers |-> -1]

\* Mutant of Claimable: a file that cannot be parsed counts as a lock.
Claimable_WholeOnly == file.kind = "absent" \/ (file.kind = "lock" /\ file.left <= 0)

\* What is in the file does not keep a worker from claiming the message: there
\* is none, it has expired, or it cannot be parsed.
Claimable == ~(file.kind = "lock" /\ file.left > 0)

\* TryAcquireProcessing reads the file: a lock that has not expired ends the
\* attempt, anything else is to be removed.
ReadLock(w) ==
  /\ pc[w] = "idle"
  /\ Unlocked(w)
  /\ Claimable
  /\ Goto(w, IF file.kind = "absent" THEN "create" ELSE "remove")
  /\ lease' = [lease EXCEPT ![w] = TTL]
  /\ UNCHANGED file

RemoveStale(w) ==
  /\ pc[w] = "remove"
  /\ file' = Absent
  /\ Goto(w, "create")
  /\ UNCHANGED lease

\* O_CREATE|O_EXCL: a file that is there already means another worker was first.
CreateExclusive(w) ==
  /\ pc[w] = "create"
  /\ \/ /\ file.kind = "absent"
        /\ file' = Empty(w)
        /\ Goto(w, "write")
        /\ UNCHANGED lease
     \/ /\ file.kind # "absent"
        /\ Goto(w, "idle")
        /\ UNCHANGED <<file, lease>>

\* The write goes to the file this worker created, whether or not that is still
\* the one in the directory.
WriteLock(w) ==
  /\ pc[w] = "write"
  /\ file' = IF file.kind = "empty" /\ file.by = w THEN Lock(w, lease[w]) ELSE file
  /\ Goto(w, "working")
  /\ UNCHANGED lease

\* Writing or closing fails: the path is removed, the error returned.
WriteFails(w) ==
  /\ "io" \in Faults
  /\ pc[w] = "write"
  /\ file' = Absent
  /\ Goto(w, "idle")
  /\ UNCHANGED lease

\* Mutant of ReadForRelease: the owner found in the file is not compared.
ReadForRelease_AnyOwner(w) ==
  /\ pc[w] = "working"
  /\ Unlocked(w)
  /\ Goto(w, IF file.kind = "absent" THEN "idle" ELSE "unlink")
  /\ UNCHANGED <<file, lease>>

\* Release reads the file: one that is gone or names another owner is left alone.
ReadForRelease(w) ==
  /\ pc[w] = "working"
  /\ Unlocked(w)
  /\ LET keep == file.kind = "absent" \/ (file.kind = "lock" /\ OwnerOf[file.by] # OwnerOf[w])
     IN  Goto(w, IF keep THEN "idle" ELSE "unlink")
  /\ UNCHANGED <<file, lease>>

Unlink(w) ==
  /\ pc[w] = "unlink"
  /\ file' = Absent
  /\ Goto(w, "idle")
  /\ UNCHANGED lease

\* A process dies: its workers are gone, the file stays as it is.
Crash(p) ==
  /\ "crash" \in Faults
  /\ \E w \in Workers : ProcessOf[w] = p /\ pc[w] # "idle"
  /\ pc' = [w \in Workers |-> IF ProcessOf[w] = p THEN "idle" ELSE pc[w]]
  /\ UNCHANGED <<file, lease>>

Later(left) == IF left > -1 THEN left - 1 ELSE -1

Tick ==
  /\ file' = [file EXCEPT !.left = Later(@)]
  /\ lease' = [w \in Workers |-> Later(lease[w])]
  /\ UNCHANGED pc

Next ==
  \/ \E w \in Workers :
       \/ ReadLock(w) \/ RemoveStale(w) \/ CreateExclusive(w)
       \/ WriteLock(w) \/ WriteFails(w)
       \/ ReadForRelease(w) \/ Unlink(w) \/ Crash(ProcessOf[w])
  \/ Tick

Spec == Init /\ [][Next]_vars

\* Time passes; nothing else is asked of the workers.
FairSpec == Spec /\ WF_vars(Tick)

-----------------------------------------------------------------------------
\* Every variable stays in its type; within a process the mutex is held by one.
TypeOK ==
  /\ file \in {Absent} \cup [kind: {"empty", "lock"}, by: Workers, left: -1..TTL]
  /\ pc \in [Workers -> {"idle", "remove", "create", "write", "working", "unlink"}]
  /\ lease \in [Workers -> -1..TTL]
  /\ \A v, w \in Workers :
       ProcessOf[v] = ProcessOf[w] /\ {pc[v], pc[w]} \cap {"idle", "working"} = {} => v = w

Working(w) == pc[w] \in {"working", "unlink"}

\* The lock a worker of one process sees: an empty file is no lock.
Abstract ==
  INSTANCE ProcessingLock WITH
    Backend <- "file",
    lock  <- IF file.kind = "lock" THEN [owner |-> OwnerOf[file.by], left |-> file.left]
                                   ELSE [owner |-> Nobody, left |-> -1],
    work  <- [w \in Workers |-> IF Working(w) THEN "working" ELSE "idle"],
    lease <- [w \in Workers |-> IF Working(w) THEN lease[w] ELSE -1]

\* Within one process the lock file is as good as the atomic lock: every file
\* operation, a crash between two of them included, is a step of ProcessingLock
\* or changes nothing there.
ImplementsLock == Abstract!Spec

\* Whatever a process leaves behind when it dies, an empty file included, the
\* message can be claimed again and again.
NeverLockedForever == []<>Claimable

\* "TryAcquireProcessing claims a message_id using an atomic lock file": no two
\* workers hold the message while the leases of both are running.
LeaseExclusive ==
  \A v, w \in Workers :
    Working(v) /\ Working(w) /\ lease[v] > 0 /\ lease[w] > 0 => v = w
=============================================================================
