--------------------------- MODULE ProcessingLock ---------------------------
(***************************************************************************)
(* The processing lock of one message_id (slip.ProcessingLocker): a lock   *)
(* item with an owner and an expiry, taken and given back by the workers   *)
(* that call AppRuntime.processPayload or framework.Runtime.Process.       *)
(*                                                                         *)
(* MemoryStateStore and DynamoDBStateStore take and release the lock in    *)
(* one atomic step, modelled here; FileLock shows what the lock file does. *)
(* Time is counted in seconds, as what is left until an expiry: 0 is the   *)
(* second in which it falls, -1 any later one.                             *)
(***************************************************************************)
EXTENDS Integers

CONSTANTS
  Workers,   \* the goroutines that may process the message
  Owners,    \* owner strings, <service>:<run id>:<pid>
  OwnerOf,   \* the owner each worker claims with
  Nobody,    \* the owner of a lock that does not exist
  TTL,       \* processing_lock.ttl_seconds
  Backend,   \* "memory", "file" or "dynamodb"
  Faults     \* which of "crash" and "lost" (a reply of the store) can happen

ASSUME OwnerAssumption == OwnerOf \in [Workers -> Owners] /\ Nobody \notin Owners
ASSUME TTLAssumption == TTL \in Nat \ {0}

VARIABLES
  lock,   \* the lock item of the message
  work,   \* whether each worker is between TryAcquireProcessing and Release
  lease   \* auxiliary: what is left of the lease granted to each worker

vars == <<lock, work, lease>>

Left == -1..TTL

NoLock == [owner |-> Nobody, left |-> -1]

\* Mutant of LockOf: the ttl is added twice.
LockOf_TTLTwice(w, left) == [owner |-> OwnerOf[w], left |-> left + TTL]

LockOf(w, left) == [owner |-> OwnerOf[w], left |-> left]

\* "expires_at < :now" on whole seconds in DynamoDB, !expiresAt.After(now) else.
Expired(left) == IF Backend = "dynamodb" THEN left < 0 ELSE left <= 0

\* Mutants of Free: a lock is never stale; DynamoDB's last second is given away.
Free_NeverStale == lock = NoLock
Free_Early == lock.owner = Nobody \/ lock.left <= 0

Free == lock.owner = Nobody \/ Expired(lock.left)

-----------------------------------------------------------------------------
Init ==
  /\ lock = NoLock
  /\ work = [w \in Workers |-> "idle"]
  /\ lease = [w \in Workers |-> -1]

Start(w, left) ==
  /\ work' = [work EXCEPT ![w] = "working"]
  /\ lease' = [lease EXCEPT ![w] = left]

Stop(w) ==
  /\ work' = [work EXCEPT ![w] = "idle"]
  /\ lease' = [lease EXCEPT ![w] = -1]

\* TryAcquireProcessing succeeds.  The expiry is counted from a time read before
\* the mutex, the file or the network is waited for: part of the ttl, or all of
\* it, may be gone already.
TryAcquire(w) ==
  /\ work[w] = "idle"
  /\ Free
  /\ \E left \in Left :
       /\ lock' = LockOf(w, left)
       /\ Start(w, left)

\* The conditional write takes place, its answer is an error: a lock that no
\* worker will release.
TryAcquireLost(w) ==
  /\ "lost" \in Faults
  /\ work[w] = "idle"
  /\ Free
  /\ \E left \in Left : lock' = LockOf(w, left)
  /\ UNCHANGED <<work, lease>>

\* Mutant of Release: the owner is not compared.
Release_AnyOwner(w) ==
  /\ work[w] = "working"
  /\ lock' = NoLock
  /\ Stop(w)

\* The deferred lease.Release(context.Background()): the lock goes if it still
\* has this owner.  An error is only logged.
Release(w) ==
  /\ work[w] = "working"
  /\ \/ lock' = IF lock.owner = OwnerOf[w] THEN NoLock ELSE lock
     \/ "lost" \in Faults /\ lock' = lock
  /\ Stop(w)

\* A process dies, with the workers W that run in it; the lock stays.
Crash(W) ==
  /\ "crash" \in Faults
  /\ work' = [w \in Workers |-> IF w \in W THEN "idle" ELSE work[w]]
  /\ lease' = [w \in Workers |-> IF w \in W THEN -1 ELSE lease[w]]
  /\ UNCHANGED lock

\* An expired item disappears: DynamoDB's time to live removes it, or a worker
\* removes the stale lock file before it creates its own.
Evict ==
  /\ Backend # "memory"
  /\ lock # NoLock
  /\ Expired(lock.left)
  /\ lock' = NoLock
  /\ UNCHANGED <<work, lease>>

Later(left) == IF left > -1 THEN left - 1 ELSE -1

\* A second passes; no lease is ever renewed.
Tick ==
  /\ lock' = [lock EXCEPT !.left = Later(@)]
  /\ lease' = [w \in Workers |-> Later(lease[w])]
  /\ UNCHANGED work

Next ==
  \/ \E w \in Workers : TryAcquire(w) \/ TryAcquireLost(w) \/ Release(w)
  \/ \E W \in SUBSET Workers : Crash(W)
  \/ Evict
  \/ Tick

Spec == Init /\ [][Next]_vars

\* Time passes; nothing else is asked of the workers or of the store.
FairSpec == Spec /\ WF_vars(Tick)

-----------------------------------------------------------------------------
\* Every variable stays in its type.
TypeOK ==
  /\ lock \in [owner: Owners \cup {Nobody}, left: Left]
  /\ work \in [Workers -> {"idle", "working"}]
  /\ lease \in [Workers -> Left]

\* Worker w is processing the message and its lease has not run out.
InLease(w) == work[w] = "working" /\ ~Expired(lease[w])

DistinctOwners == \A v, w \in Workers : OwnerOf[v] = OwnerOf[w] => v = w

\* "TryAcquireProcessing claims a message_id for one worker at a time": no two
\* workers process the message while the leases of both are running.
LeaseExclusive == \A v, w \in Workers : InLease(v) /\ InLease(w) => v = w

\* While a worker's lease runs, the store holds a lock in its name that lasts as
\* long: an earlier holder that comes back late cannot take it away.
HolderKeepsLock ==
  \A w \in Workers : InLease(w) => lock.owner = OwnerOf[w] /\ lock.left >= lease[w]

\* However many workers die or releases are lost, the message can be claimed
\* again and again: a lock nobody releases goes stale.
NeverLockedForever == []<>Free
=============================================================================
