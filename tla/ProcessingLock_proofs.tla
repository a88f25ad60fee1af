----------------------- MODULE ProcessingLock_proofs -----------------------
(***************************************************************************)
(* Proofs about ProcessingLock, for any number of workers, any ttl, either *)
(* way of comparing the expiry, crashes and lost replies.                  *)
(***************************************************************************)
EXTENDS ProcessingLock, TLAPS

\* Seconds that pass keep a time within its type, and an expiry expired.
LEMMA LaterType ==
  ASSUME NEW left \in Left
  PROVE  /\ Later(left) \in Left
         /\ Expired(left) => Expired(Later(left))
         /\ \A other \in Left : left >= other => Later(left) >= Later(other)
  BY TTLAssumption DEF Left, Later, Expired

\* Every lock the code writes, and the absence of one, is of the lock's type.
LEMMA LockType ==
  /\ NoLock \in [owner: Owners \cup {Nobody}, left: Left]
  /\ \A w \in Workers, left \in Left :
       LockOf(w, left) \in [owner: Owners \cup {Nobody}, left: Left]
  BY TTLAssumption, OwnerAssumption DEF NoLock, LockOf, Left

\* Every action keeps TypeOK.
LEMMA TypeOKNext == TypeOK /\ [Next]_vars => TypeOK'
  <1> SUFFICES ASSUME TypeOK, [Next]_vars PROVE TypeOK'
    OBVIOUS
  <1> USE DEF TypeOK
  <1>0. -1 \in Left
    BY TTLAssumption DEF Left
  <1>1. ASSUME NEW w \in Workers, TryAcquire(w) PROVE TypeOK'
    BY <1>1, LockType DEF TryAcquire, Start
  <1>2. ASSUME NEW w \in Workers, TryAcquireLost(w) PROVE TypeOK'
    BY <1>2, LockType DEF TryAcquireLost
  <1>3. ASSUME NEW w \in Workers, Release(w) PROVE TypeOK'
    BY <1>0, <1>3, LockType DEF Release, Stop
  <1>4. ASSUME NEW W \in SUBSET Workers, Crash(W) PROVE TypeOK'
    BY <1>0, <1>4 DEF Crash
  <1>5. CASE Evict
    BY <1>5, LockType DEF Evict
  <1>6. CASE Tick
    BY <1>6, LaterType DEF Tick
  <1>7. CASE UNCHANGED vars
    BY <1>7 DEF vars
  <1> QED
    BY <1>1, <1>2, <1>3, <1>4, <1>5, <1>6, <1>7 DEF Next

\* Type correctness of the lock.
THEOREM LockTypeCorrect == Spec => []TypeOK
  <1>1. Init => TypeOK
    BY LockType, TTLAssumption DEF Init, TypeOK, Left
  <1> QED
    BY <1>1, TypeOKNext, PTL DEF Spec

-----------------------------------------------------------------------------
\* A step that changes neither the lock nor worker w.
LEMMA UntouchedHolder ==
  ASSUME NEW w \in Workers, lock' = lock, work'[w] = work[w], lease'[w] = lease[w]
  PROVE  InLease(w)' = InLease(w)
  BY DEF InLease, Expired

\* HolderKeepsLock is inductive when owners differ: a lock is only replaced when
\* it has expired, and then so has the lease of the worker it was granted to;
\* it is only removed by that worker, or, by Evict, once it has expired.
LEMMA HolderKeepsLockNext ==
  ASSUME DistinctOwners
  PROVE  TypeOK /\ HolderKeepsLock /\ [Next]_vars => HolderKeepsLock'
  <1> SUFFICES ASSUME TypeOK, HolderKeepsLock, [Next]_vars, NEW w \in Workers, InLease(w)'
               PROVE  (lock.owner = OwnerOf[w] /\ lock.left >= lease[w])'
    BY DEF HolderKeepsLock
  <1> USE DEF TypeOK
  <1>0. /\ lock.left \in Left /\ lease[w] \in Left
        /\ OwnerOf[w] # Nobody
        /\ Expired(lock.left) => ~InLease(w)
    <2>1. OwnerOf[w] # Nobody
      BY OwnerAssumption
    <2>2. lock.left \in Int /\ lease[w] \in Int
      BY DEF Left
    <2>3. Expired(lock.left) => ~InLease(w)
      BY <2>2 DEF HolderKeepsLock, InLease, Expired
    <2> QED
      BY <2>1, <2>3
  <1>1. ASSUME NEW v \in Workers, TryAcquire(v) PROVE (lock.owner = OwnerOf[w] /\ lock.left >= lease[w])'
    <2>1. PICK left \in Left : lock' = LockOf(v, left) /\ Start(v, left)
      BY <1>1 DEF TryAcquire
    <2>2. CASE v = w
      BY <2>1, <2>2 DEF LockOf, Start, Left
    <2>3. CASE v # w
      <3>1. InLease(w)
        BY <2>1, <2>3 DEF Start, InLease, Expired
      <3> QED
        BY <1>0, <1>1, <3>1 DEF TryAcquire, Free, HolderKeepsLock
    <2> QED
      BY <2>2, <2>3
  <1>2. ASSUME NEW v \in Workers, TryAcquireLost(v) PROVE FALSE
    <2>1. InLease(w)
      BY <1>2 DEF TryAcquireLost, InLease, Expired
    <2> QED
      BY <1>0, <1>2, <2>1 DEF TryAcquireLost, Free, HolderKeepsLock
  <1>3. ASSUME NEW v \in Workers, Release(v) PROVE (lock.owner = OwnerOf[w] /\ lock.left >= lease[w])'
    <2>1. v # w
      BY <1>3 DEF Release, Stop, InLease
    <2>2. InLease(w) /\ lease'[w] = lease[w]
      BY <1>3, <2>1 DEF Release, Stop, InLease, Expired
    <2>3. lock.owner = OwnerOf[w] /\ lock.left >= lease[w]
      BY <2>2 DEF HolderKeepsLock
    <2>4. lock' = lock
      BY <1>3, <2>1, <2>3 DEF Release, DistinctOwners
    <2> QED
      BY <2>2, <2>3, <2>4
  <1>4. ASSUME NEW W \in SUBSET Workers, Crash(W)
        PROVE  (lock.owner = OwnerOf[w] /\ lock.left >= lease[w])'
    <2>1. w \notin W
      BY <1>4 DEF Crash, InLease
    <2>2. lock' = lock /\ work'[w] = work[w] /\ lease'[w] = lease[w]
      BY <1>4, <2>1 DEF Crash
    <2> QED
      BY <2>2, UntouchedHolder DEF HolderKeepsLock
  <1>5. CASE Evict
    <2>1. InLease(w)
      BY <1>5 DEF Evict, InLease, Expired
    <2> QED
      BY <1>0, <1>5, <2>1 DEF Evict
  <1>6. CASE Tick
    <2>1. lock'.owner = lock.owner /\ lock'.left = Later(lock.left) /\ lease'[w] = Later(lease[w])
      BY <1>6 DEF Tick
    <2>2. InLease(w)
      BY <1>0, <1>6, <2>1, LaterType DEF Tick, InLease, Expired
    <2> QED
      BY <1>0, <2>1, <2>2, LaterType DEF HolderKeepsLock
  <1>7. CASE UNCHANGED vars
    BY <1>7, UntouchedHolder DEF vars, HolderKeepsLock
  <1> QED
    BY <1>1, <1>2, <1>3, <1>4, <1>5, <1>6, <1>7 DEF Next

\* With a different owner string for every worker, a worker whose lease still
\* runs finds the lock in its own name.
THEOREM HoldersKeepTheirLock ==
  ASSUME DistinctOwners
  PROVE  Spec => []HolderKeepsLock
  <1>1. Init => HolderKeepsLock
    BY DEF Init, HolderKeepsLock, InLease
  <1> QED
    BY <1>1, HolderKeepsLockNext, LockTypeCorrect, PTL DEF Spec

\* With a different owner string for every worker, no two workers process the
\* message within their leases.
THEOREM LeasesAreExclusive ==
  ASSUME DistinctOwners
  PROVE  Spec => []LeaseExclusive
  <1>1. HolderKeepsLock => LeaseExclusive
    BY DEF HolderKeepsLock, LeaseExclusive, DistinctOwners
  <1> QED
    BY <1>1, HoldersKeepTheirLock, PTL
=============================================================================
