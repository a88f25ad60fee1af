--------------------------- MODULE FileLock_proofs ---------------------------
(***************************************************************************)
(* Within one process the lock file implements ProcessingLock: for any     *)
(* number of workers, any owners, any ttl, crashes and failing writes.     *)
(***************************************************************************)
EXTENDS FileLock, TLAPS

PCs == {"idle", "remove", "create", "write", "working", "unlink"}

OneProcess == \A v, w \in Workers : ProcessOf[v] = ProcessOf[w]

Idling(w) == pc[w] \in {"idle", "working"}

\* What the worker that holds the mutex knows about the file.
MutexInv ==
  /\ TypeOK
  /\ \A w \in Workers :
       /\ pc[w] = "remove" => Claimable
       /\ pc[w] = "create" => file = Absent
       /\ pc[w] = "write"  => file.kind = "empty"
       /\ pc[w] = "write"  => file.by = w
       /\ pc[w] = "unlink" => (file.kind = "lock" => OwnerOf[file.by] = OwnerOf[w])

-----------------------------------------------------------------------------
\* The lock file, as absent, as just created and as written, is of its type.
LEMMA FileType ==
  /\ file \in {Absent} \cup [kind: {"empty", "lock"}, by: Workers, left: -1..TTL]
       => file.left \in -1..TTL
  /\ \A w \in Workers : Empty(w) \in [kind: {"empty", "lock"}, by: Workers, left: -1..TTL]
  /\ \A w \in Workers, left \in -1..TTL :
       Lock(w, left) \in [kind: {"empty", "lock"}, by: Workers, left: -1..TTL]
  BY TTLAssumption DEF Absent, Empty, Lock

\* Seconds that pass keep a time within its type, and an expiry expired.
LEMMA LaterType ==
  ASSUME NEW left \in -1..TTL
  PROVE  Later(left) \in -1..TTL /\ (left <= 0 => Later(left) <= 0)
  BY TTLAssumption DEF Later

\* In one process, the other workers wait while one is inside the mutex.
LEMMA Exclusive ==
  ASSUME OneProcess, TypeOK, NEW v \in Workers, NEW w \in Workers, ~Idling(w), v # w
  PROVE  Idling(v)
  BY DEF OneProcess, TypeOK, Idling

\* In one process, a worker enters the mutex only when nobody is inside.
LEMMA EntersAlone ==
  ASSUME OneProcess, NEW v \in Workers, NEW w \in Workers, Unlocked(w)
  PROVE  Idling(v)
  BY DEF OneProcess, Unlocked, Idling

\* Nobody is in the mutex at first.
LEMMA MutexInvInit == Init => MutexInv
  <1> SUFFICES ASSUME Init PROVE MutexInv
    OBVIOUS
  <1>1. \A w \in Workers : pc[w] = "idle"
    BY DEF Init
  <1>2. -1 \in -1..TTL
    BY TTLAssumption
  <1>3. \A v, w \in Workers : {pc[v], pc[w]} \cap {"idle", "working"} # {}
    BY <1>1
  <1>4. TypeOK
    BY <1>2, <1>3 DEF Init, TypeOK
  <1> QED
    BY <1>1, <1>4 DEF MutexInv

\* A step of a worker in the mutex: nobody else is in it before, so nobody else
\* is after, and all that has to be shown is about the worker itself.
LEMMA StepOfHolder ==
  ASSUME OneProcess, MutexInv, NEW w \in Workers,
         \A v \in Workers : v # w => Idling(v),
         NEW next \in PCs,
         Goto(w, next),
         file' \in {Absent} \cup [kind: {"empty", "lock"}, by: Workers, left: -1..TTL],
         lease' \in [Workers -> -1..TTL],
         next = "remove" => Claimable',
         next = "create" => file' = Absent,
         next = "write"  => file'.kind = "empty" /\ file'.by = w,
         next = "unlink" => (file'.kind = "lock" => OwnerOf[file'.by] = OwnerOf[w])
  PROVE  MutexInv'
  <1>1. pc' \in [Workers -> PCs]
    BY DEF Goto, MutexInv, TypeOK, PCs
  <1>2. pc'[w] = next /\ \A v \in Workers : v # w => pc'[v] \in {"idle", "working"}
    BY DEF Goto, MutexInv, TypeOK, Idling
  <1>3. TypeOK'
    BY <1>1, <1>2 DEF TypeOK, Absent, PCs
  <1> QED
    BY <1>2, <1>3 DEF MutexInv, Absent

\* Every step keeps what the holder of the mutex knows.
LEMMA MutexInvNext ==
  ASSUME OneProcess
  PROVE  MutexInv /\ [Next]_vars => MutexInv'
  <1> SUFFICES ASSUME MutexInv, [Next]_vars PROVE MutexInv'
    OBVIOUS
  <1>0. /\ file \in {Absent} \cup [kind: {"empty", "lock"}, by: Workers, left: -1..TTL]
        /\ lease \in [Workers -> -1..TTL]
        /\ file.left \in -1..TTL
    BY FileType DEF MutexInv, TypeOK
  <1>1. ASSUME NEW w \in Workers, ReadLock(w) PROVE MutexInv'
    <2>1. \A v \in Workers : v # w => Idling(v)
      BY <1>1, EntersAlone DEF ReadLock
    <2>2. Claimable' /\ (file.kind = "absent" => file = Absent) /\ file' = file
      BY <1>0, <1>1 DEF ReadLock, Claimable
    <2>3. lease' \in [Workers -> -1..TTL]
      BY <1>0, <1>1, TTLAssumption DEF ReadLock
    <2>4. \/ Goto(w, "create") /\ file.kind = "absent"
          \/ Goto(w, "remove")
      BY <1>1 DEF ReadLock
    <2> QED
      BY <1>0, <2>1, <2>2, <2>3, <2>4, StepOfHolder DEF PCs
  <1>2. ASSUME NEW w \in Workers, ~Idling(w),
               NEW next \in {"idle", "create", "write", "working"}, Goto(w, next),
               file' \in {Absent} \cup [kind: {"empty", "lock"}, by: Workers, left: -1..TTL],
               lease' = lease,
               next = "create" => file' = Absent,
               next = "write"  => file'.kind = "empty" /\ file'.by = w
        PROVE  MutexInv'
    <2>1. \A v \in Workers : v # w => Idling(v)
      BY <1>2, Exclusive DEF MutexInv
    <2> QED
      BY <1>0, <1>2, <2>1, StepOfHolder DEF PCs
  <1>3. ASSUME NEW w \in Workers, RemoveStale(w) PROVE MutexInv'
    BY <1>2, <1>3 DEF RemoveStale, Idling
  <1>4. ASSUME NEW w \in Workers, CreateExclusive(w) PROVE MutexInv'
    <2>1. CASE file' = Empty(w) /\ Goto(w, "write")
      BY <1>2, <1>4, <2>1, FileType DEF CreateExclusive, Idling, Empty
    <2>2. CASE file' = file /\ Goto(w, "idle")
      BY <1>0, <1>2, <1>4, <2>2 DEF CreateExclusive, Idling
    <2> QED
      BY <1>4, <2>1, <2>2 DEF CreateExclusive
  <1>5. ASSUME NEW w \in Workers, WriteLock(w) PROVE MutexInv'
    <2>1. file' \in {Absent} \cup [kind: {"empty", "lock"}, by: Workers, left: -1..TTL]
      BY <1>0, <1>5, FileType DEF WriteLock
    <2> QED
      BY <1>2, <1>5, <2>1 DEF WriteLock, Idling
  <1>6. ASSUME NEW w \in Workers, WriteFails(w) PROVE MutexInv'
    BY <1>2, <1>6 DEF WriteFails, Idling
  <1>7. ASSUME NEW w \in Workers, ReadForRelease(w) PROVE MutexInv'
    <2>1. \A v \in Workers : v # w => Idling(v)
      BY <1>7, EntersAlone DEF ReadForRelease
    <2>2. \/ Goto(w, "idle")
          \/ Goto(w, "unlink") /\ (file.kind = "lock" => OwnerOf[file.by] = OwnerOf[w])
      BY <1>7 DEF ReadForRelease
    <2>3. file' = file /\ lease' = lease
      BY <1>7 DEF ReadForRelease
    <2> QED
      BY <1>0, <2>1, <2>2, <2>3, StepOfHolder DEF PCs
  <1>8. ASSUME NEW w \in Workers, Unlink(w) PROVE MutexInv'
    BY <1>2, <1>8 DEF Unlink, Idling
  <1>9. ASSUME NEW w \in Workers, Crash(ProcessOf[w]) PROVE MutexInv'
    <2>1. pc' = [v \in Workers |-> "idle"]
      BY <1>9 DEF Crash, OneProcess
    <2> QED
      BY <1>9, <2>1 DEF Crash, MutexInv, TypeOK, Absent
  <1>10. CASE Tick
    <2>1. file' = Absent \/ file' \in [kind: {"empty", "lock"}, by: Workers, left: -1..TTL]
      <3>1. CASE file = Absent
        BY <1>10, <3>1 DEF Tick, Absent, Later
      <3>2. CASE file \in [kind: {"empty", "lock"}, by: Workers, left: -1..TTL]
        BY <1>10, <3>2, LaterType DEF Tick
      <3> QED
        BY <1>0, <3>1, <3>2
    <2>2. /\ file'.kind = file.kind /\ file'.by = file.by /\ file'.left = Later(file.left)
          /\ file = Absent => file' = Absent
      BY <1>0, <1>10 DEF Tick, Absent, Later
    <2>3. lease' \in [Workers -> -1..TTL]
      BY <1>0, <1>10, LaterType DEF Tick
    <2>4. Claimable => Claimable'
      BY <1>0, <2>2, LaterType DEF Claimable
    <2>5. TypeOK'
      BY <1>10, <2>1, <2>3 DEF Tick, MutexInv, TypeOK, Absent
    <2> QED
      BY <1>10, <2>2, <2>4, <2>5 DEF Tick, MutexInv, Absent
  <1>11. CASE UNCHANGED vars
    BY <1>11 DEF vars, MutexInv, TypeOK, Claimable, Absent
  <1> QED
    BY <1>1, <1>3, <1>4, <1>5, <1>6, <1>7, <1>8, <1>9, <1>10, <1>11 DEF Next
-----------------------------------------------------------------------------
(* The refinement: the mapping of the module's Abstract instance. *)

absLock == IF file.kind = "lock" THEN [owner |-> OwnerOf[file.by], left |-> file.left]
                                 ELSE [owner |-> Nobody, left |-> -1]
absWork == [w \in Workers |-> IF Working(w) THEN "working" ELSE "idle"]
absLease == [w \in Workers |-> IF Working(w) THEN lease[w] ELSE -1]

\* A worker that stays out of work, or in it, and keeps its lease is the same
\* worker in ProcessingLock.
LEMMA SameAbstractWorkers ==
  ASSUME NEW w \in Workers, NEW next, Goto(w, next), pc \in [Workers -> PCs],
         Working(w) <=> next \in {"working", "unlink"},
         \A v \in Workers : (v = w /\ ~Working(w)) \/ lease'[v] = lease[v]
  PROVE  absWork' = absWork /\ absLease' = absLease
  BY DEF Goto, Working, absWork, absLease

\* A worker that begins to work, with everything else as it was.
LEMMA AbstractStart ==
  ASSUME NEW w \in Workers, Goto(w, "working"), pc \in [Workers -> PCs],
         lease' = lease
  PROVE  /\ absWork' = [absWork EXCEPT ![w] = "working"]
         /\ absLease' = [absLease EXCEPT ![w] = lease[w]]
  BY DEF Goto, Working, absWork, absLease

\* A worker that stops, with everything else as it was.
LEMMA AbstractStop ==
  ASSUME NEW w \in Workers, Goto(w, "idle"), pc \in [Workers -> PCs],
         lease' = lease
  PROVE  /\ absWork' = [absWork EXCEPT ![w] = "idle"]
         /\ absLease' = [absLease EXCEPT ![w] = -1]
  BY DEF Goto, Working, absWork, absLease

\* No file is no lock.
LEMMA AbstractInit == Init => Abstract!Init
  BY DEF Init, Absent, Working, Abstract!Init, Abstract!NoLock

\* Every operation on the file is a step of the lock, or changes nothing there.
LEMMA AbstractNext ==
  ASSUME OneProcess
  PROVE  MutexInv /\ [Next]_vars => [Abstract!Next]_(Abstract!vars)
  <1> SUFFICES ASSUME MutexInv, [Next]_vars
               PROVE  Abstract!Next \/ (absLock' = absLock /\ absWork' = absWork /\ absLease' = absLease)
    BY DEF Abstract!vars, absLock, absWork, absLease
  <1> DEFINE Stutter == absLock' = absLock /\ absWork' = absWork /\ absLease' = absLease
  <1>0. /\ file \in {Absent} \cup [kind: {"empty", "lock"}, by: Workers, left: -1..TTL]
        /\ pc \in [Workers -> PCs]
        /\ lease \in [Workers -> -1..TTL]
    BY DEF MutexInv, TypeOK, PCs
  <1>a. file' = file => absLock' = absLock
    BY DEF absLock
  <1>b. file.kind # "lock" /\ file'.kind # "lock" => absLock' = absLock
    BY DEF absLock
  <1>1. ASSUME NEW w \in Workers, ReadLock(w) PROVE Stutter
    BY <1>0, <1>1, <1>a, SameAbstractWorkers DEF ReadLock, Working, Goto
  <1>2. ASSUME NEW w \in Workers, RemoveStale(w) PROVE Abstract!Evict \/ Stutter
    <2>1. absWork' = absWork /\ absLease' = absLease /\ file' = Absent
      BY <1>0, <1>2, SameAbstractWorkers DEF RemoveStale, Working
    <2>2. CASE file.kind = "lock"
      <3>1. file.left <= 0
        <4>1. Claimable
          BY <1>2 DEF RemoveStale, MutexInv
        <4>2. file.left \in Int
          <5>1. file.left \in -1..TTL
            BY <1>0, FileType
          <5> QED
            BY <5>1, TTLAssumption
        <4> QED
          BY <2>2, <4>1, <4>2 DEF Claimable
      <3>2. OwnerOf[file.by] # Nobody
        BY <1>0, <2>2, OwnerAssumption DEF Absent
      <3> QED
        BY <2>1, <2>2, <3>1, <3>2
           DEF absLock, absWork, absLease, Absent, Abstract!Evict, Abstract!NoLock, Abstract!Expired
    <2>3. CASE file.kind # "lock"
      BY <1>b, <2>1, <2>3 DEF Absent
    <2> QED
      BY <2>2, <2>3
  <1>3. ASSUME NEW w \in Workers, CreateExclusive(w) PROVE Stutter
    <2>1. absWork' = absWork /\ absLease' = absLease
      BY <1>0, <1>3, SameAbstractWorkers DEF CreateExclusive, Working
    <2>2. absLock' = absLock
      BY <1>3, <1>a, <1>b DEF CreateExclusive, Empty
    <2> QED
      BY <2>1, <2>2
  <1>4. ASSUME NEW w \in Workers, WriteLock(w) PROVE Abstract!TryAcquire(w)
    <2>1. file.kind = "empty" /\ file.by = w /\ file' = Lock(w, lease[w])
      BY <1>4 DEF WriteLock, MutexInv
    <2>2. /\ absWork' = [absWork EXCEPT ![w] = "working"]
          /\ absLease' = [absLease EXCEPT ![w] = lease[w]]
      BY <1>0, <1>4, AbstractStart DEF WriteLock
    <2>3. absWork[w] = "idle" /\ absLock.owner = Nobody
      BY <1>4, <2>1 DEF WriteLock, Working, absWork, absLock
    <2>4. absLock' = [owner |-> OwnerOf[w], left |-> lease[w]]
      BY <2>1 DEF absLock, Lock
    <2>5. lease[w] \in -1..TTL
      BY <1>0
    <2> QED
      BY <2>2, <2>3, <2>4, <2>5
         DEF absLock, absWork, absLease, Abstract!TryAcquire, Abstract!Free, Abstract!Left,
             Abstract!LockOf, Abstract!Start
  <1>5. ASSUME NEW w \in Workers, WriteFails(w) PROVE Stutter
    <2>1. absWork' = absWork /\ absLease' = absLease
      BY <1>0, <1>5, SameAbstractWorkers DEF WriteFails, Working
    <2>2. absLock' = absLock
      BY <1>5, <1>b DEF WriteFails, MutexInv, Absent
    <2> QED
      BY <2>1, <2>2
  <1>6. ASSUME NEW w \in Workers, Working(w), Goto(w, "idle"), lease' = lease,
               absLock' = IF absLock.owner = OwnerOf[w] THEN [owner |-> Nobody, left |-> -1]
                                                        ELSE absLock
        PROVE  Abstract!Release(w)
    <2>1. /\ absWork' = [absWork EXCEPT ![w] = "idle"]
          /\ absLease' = [absLease EXCEPT ![w] = -1]
      BY <1>0, <1>6, AbstractStop
    <2>2. absWork[w] = "working"
      BY <1>6 DEF absWork
    <2> QED
      BY <1>6, <2>1, <2>2
         DEF absLock, absWork, absLease, Abstract!Release, Abstract!NoLock, Abstract!Stop
  <1>7. ASSUME NEW w \in Workers, ReadForRelease(w) PROVE Abstract!Release(w) \/ Stutter
    <2>1. CASE Goto(w, "unlink")
      BY <1>0, <1>7, <1>a, <2>1, SameAbstractWorkers DEF ReadForRelease, Working
    <2>2. CASE Goto(w, "idle") /\ (file.kind = "lock" => OwnerOf[file.by] # OwnerOf[w])
      <3>1. absLock.owner # OwnerOf[w]
        BY <2>2, OwnerAssumption DEF absLock
      <3> QED
        BY <1>6, <1>7, <1>a, <2>2, <3>1 DEF ReadForRelease, Working
    <2> QED
      BY <1>7, <2>1, <2>2 DEF ReadForRelease
  <1>8. ASSUME NEW w \in Workers, Unlink(w) PROVE Abstract!Release(w)
    <2>1. file' = Absent /\ (file.kind = "lock" => OwnerOf[file.by] = OwnerOf[w])
      BY <1>8 DEF Unlink, MutexInv
    <2>2. absLock' = [owner |-> Nobody, left |-> -1]
      BY <2>1 DEF absLock, Absent
    <2>3. absLock.owner = OwnerOf[w] \/ absLock = [owner |-> Nobody, left |-> -1]
      BY <2>1 DEF absLock
    <2> QED
      BY <1>6, <1>8, <2>2, <2>3 DEF Unlink, Working
  <1>9. ASSUME NEW w \in Workers, Crash(ProcessOf[w]) PROVE Abstract!Crash(Workers)
    <2>1. pc' = [v \in Workers |-> "idle"] /\ file' = file /\ "crash" \in Faults
      BY <1>9 DEF Crash, OneProcess
    <2> QED
      BY <2>1 DEF Working, Abstract!Crash
  <1>10. CASE Tick
    <2>1. absLock' = [absLock EXCEPT !.left = Abstract!Later(@)]
      BY <1>0, <1>10 DEF Tick, absLock, Absent, Later, Abstract!Later
    <2>2. absWork' = absWork /\ absLease' = [w \in Workers |-> Abstract!Later(absLease[w])]
      BY <1>10 DEF Tick, Working, absWork, absLease, Later, Abstract!Later
    <2>3. Abstract!Tick
      BY <2>1, <2>2 DEF absLock, absWork, absLease, Abstract!Tick
    <2> QED
      BY <2>3 DEF Abstract!Next
  <1>11. CASE UNCHANGED vars
    BY <1>11, <1>a DEF vars, absWork, absLease, Working
  <1> QED
    BY <1>1, <1>2, <1>3, <1>4, <1>5, <1>7, <1>8, <1>9, <1>10, <1>11 DEF Next, Abstract!Next

\* Within one process, the operations on the lock file implement the atomic lock.
THEOREM LockFileImplementsLock ==
  ASSUME OneProcess
  PROVE  Spec => ImplementsLock
  <1> QED
    BY MutexInvInit, MutexInvNext, AbstractInit, AbstractNext, PTL
       DEF Spec, ImplementsLock, Abstract!Spec

-----------------------------------------------------------------------------
(* Any number of processes. *)

FileOK == file \in {Absent} \cup [kind: {"empty", "lock"}, by: Workers, left: -1..TTL]

\* No worker is inside the mutex of its process but w.
AloneInside(w) ==
  \A v \in Workers : v # w /\ ProcessOf[v] = ProcessOf[w] => Idling(v)

\* A step of one worker that is inside the mutex of its process, or enters it.
LEMMA TypeOfStep ==
  ASSUME TypeOK, NEW w \in Workers, AloneInside(w), NEW next \in PCs, Goto(w, next),
         FileOK', lease' \in [Workers -> -1..TTL]
  PROVE  TypeOK'
  <1>1. pc' \in [Workers -> PCs] /\ pc'[w] = next /\ \A v \in Workers : v # w => pc'[v] = pc[v]
    BY DEF Goto, TypeOK, PCs
  <1>2. ASSUME NEW u \in Workers, NEW v \in Workers, ProcessOf[u] = ProcessOf[v],
               {pc'[u], pc'[v]} \cap {"idle", "working"} = {}
        PROVE  u = v
    <2>1. CASE u = w \/ v = w
      BY <1>1, <1>2, <2>1 DEF AloneInside, Idling
    <2>2. CASE u # w /\ v # w
      BY <1>1, <1>2, <2>2 DEF TypeOK
    <2> QED
      BY <2>1, <2>2
  <1> QED
    BY <1>1, <1>2 DEF TypeOK, PCs, FileOK, Absent

\* Every action keeps TypeOK, however many processes share the directory: the
\* file is whole, empty or absent, and within a process one worker is inside.
LEMMA TypeOKNext == TypeOK /\ [Next]_vars => TypeOK'
  <1> SUFFICES ASSUME TypeOK, [Next]_vars PROVE TypeOK'
    OBVIOUS
  <1>0. FileOK /\ lease \in [Workers -> -1..TTL] /\ pc \in [Workers -> PCs]
    BY DEF TypeOK, FileOK, PCs
  <1>a. FileOK => file = Absent \/ file \in [kind: {"empty", "lock"}, by: Workers, left: -1..TTL]
    BY DEF FileOK
  <1>b. ASSUME NEW w \in Workers, ~Idling(w) PROVE AloneInside(w)
    BY <1>b DEF AloneInside, Idling, TypeOK
  <1>c. ASSUME NEW w \in Workers, Unlocked(w) PROVE AloneInside(w)
    BY <1>c DEF AloneInside, Unlocked, Idling
  <1>1. ASSUME NEW w \in Workers, ReadLock(w) PROVE TypeOK'
    <2>1. lease' \in [Workers -> -1..TTL] /\ FileOK'
      BY <1>0, <1>1, TTLAssumption DEF ReadLock, FileOK, Absent
    <2>2. Goto(w, "create") \/ Goto(w, "remove")
      BY <1>1 DEF ReadLock
    <2> QED
      BY <1>c, <1>1, <2>1, <2>2, TypeOfStep DEF ReadLock, PCs
  <1>2. ASSUME NEW w \in Workers, RemoveStale(w) \/ WriteFails(w) \/ Unlink(w) PROVE TypeOK'
    <2>1. file' = Absent /\ lease' = lease /\ ~Idling(w)
      BY <1>2 DEF RemoveStale, WriteFails, Unlink, Idling
    <2>2. FileOK'
      BY <2>1 DEF FileOK, Absent
    <2>3. Goto(w, "create") \/ Goto(w, "idle")
      BY <1>2 DEF RemoveStale, WriteFails, Unlink
    <2> QED
      BY <1>0, <1>b, <2>1, <2>2, <2>3, TypeOfStep DEF PCs
  <1>3. ASSUME NEW w \in Workers, CreateExclusive(w) \/ WriteLock(w) PROVE TypeOK'
    <2>1. lease' = lease /\ ~Idling(w) /\ lease[w] \in -1..TTL /\ -1 \in -1..TTL
      BY <1>0, <1>3, TTLAssumption DEF CreateExclusive, WriteLock, Idling
    <2>2. file' \in {file, Empty(w), Lock(w, lease[w])}
      BY <1>3 DEF CreateExclusive, WriteLock
    <2>3. FileOK'
      <3>1. /\ Empty(w) \in [kind: {"empty", "lock"}, by: Workers, left: -1..TTL]
            /\ Lock(w, lease[w]) \in [kind: {"empty", "lock"}, by: Workers, left: -1..TTL]
        BY <2>1 DEF Empty, Lock
      <3>2. CASE file' = file
        BY <1>0, <3>2 DEF FileOK, Absent
      <3>3. CASE file' # file
        BY <2>2, <3>1, <3>3 DEF FileOK, Absent
      <3> QED
        BY <3>2, <3>3
    <2>4. Goto(w, "write") \/ Goto(w, "idle") \/ Goto(w, "working")
      BY <1>3 DEF CreateExclusive, WriteLock
    <2> QED
      BY <1>0, <1>b, <2>1, <2>3, <2>4, TypeOfStep DEF PCs
  <1>4. ASSUME NEW w \in Workers, ReadForRelease(w) PROVE TypeOK'
    <2>1. file' = file /\ lease' = lease /\ Unlocked(w)
      BY <1>4 DEF ReadForRelease
    <2>2. FileOK'
      BY <1>0, <2>1 DEF FileOK, Absent
    <2>3. Goto(w, "unlink") \/ Goto(w, "idle")
      BY <1>4 DEF ReadForRelease
    <2> QED
      BY <1>0, <1>c, <2>1, <2>2, <2>3, TypeOfStep DEF PCs
  <1>5. ASSUME NEW w \in Workers, Crash(ProcessOf[w]) PROVE TypeOK'
    <2>1. \A v \in Workers : pc'[v] = "idle" \/ pc'[v] = pc[v]
      BY <1>5 DEF Crash
    <2>2. pc' \in [Workers -> PCs]
      BY <1>0, <1>5 DEF Crash, PCs
    <2> QED
      BY <1>5, <2>1, <2>2 DEF Crash, TypeOK, PCs, Absent
  <1>6. CASE Tick
    <2>1. FileOK'
      <3>1. CASE file = Absent
        BY <1>6, <3>1 DEF Tick, Absent, Later, FileOK
      <3>2. CASE file \in [kind: {"empty", "lock"}, by: Workers, left: -1..TTL]
        BY <1>6, <3>2, LaterType DEF Tick, FileOK
      <3> QED
        BY <1>0, <1>a, <3>1, <3>2
    <2>2. lease' \in [Workers -> -1..TTL]
      BY <1>0, <1>6, LaterType DEF Tick
    <2> QED
      BY <1>6, <2>1, <2>2 DEF Tick, TypeOK, FileOK, Absent
  <1>7. CASE UNCHANGED vars
    BY <1>7 DEF vars, TypeOK, Absent
  <1> QED
    BY <1>1, <1>2, <1>3, <1>4, <1>5, <1>6, <1>7 DEF Next

\* Type correctness of the lock file, for any number of processes.
THEOREM FileLockTypeCorrect == Spec => []TypeOK
  <1>1. Init => TypeOK
    BY MutexInvInit DEF MutexInv
  <1> QED
    BY <1>1, TypeOKNext, PTL DEF Spec
=============================================================================
