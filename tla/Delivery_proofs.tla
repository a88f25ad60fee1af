--------------------------- MODULE Delivery_proofs ---------------------------
(***************************************************************************)
(* Proofs about Delivery, for any number of processes and of steps, every  *)
(* connector, any ttl, visibility timeout and number of faults.            *)
(***************************************************************************)
EXTENDS Delivery, TLAPS

\* What the live message of a call says, and what a completed snapshot says.
CallInv ==
  /\ \A w \in Workers :
       /\ pc[w] \in {"running", "handling"} => live[w].status = "running"
       /\ pc[w] = "handling" => live[w].cursor # 0
       /\ pc[w] = "ending" => live[w].status = "stopped"
  /\ saved.status = "completed" => saved.cursor = N

\* A worker that processes the message owns the lock, and its lease runs.
LeaseInv ==
  \A w \in Workers :
    /\ work[w] = "working" =>
         lock.owner = w /\ lock.left >= lease[w] /\ ~Lock!Expired(lease[w])
    /\ locking /\ pc[w] \in {"claimed", "running", "handling", "ending", "done"} =>
         work[w] = "working"

\* Whatever says that the message is done says so after a final status was saved.
EndedInv ==
  /\ saved.status = "completed" => ended # "no"
  /\ connector = "queue" /\ event.at = "gone" => ended # "no"
  /\ \A w \in Workers : pc[w] \in {"done", "succeeded"} \/ reply[w] = "ok" => ended # "no"

\* With the lock, the call that runs is the only one that moves the snapshot, no
\* step past the stored cursor has taken effect, nor has the one being handled.
OnceInv ==
  locking =>
    /\ \A w \in Workers : InProcess(w) => live[w].cursor = saved.cursor /\ saved.status # "completed"
    /\ \A i \in 1..N : ran[i] <= 1 /\ (i > saved.cursor => ran[i] = 0)
    /\ \A w \in Workers : pc[w] = "handling" => ran[live[w].cursor] = 0

-----------------------------------------------------------------------------
(* Types. *)

\* What the operators of Snapshots return.
LEMMA SnapshotTypes ==
  /\ N \in Nat \ {0}
  /\ Fresh \in SnapshotOf(N)
  /\ \A s \in SnapshotOf(N) :
       /\ Resumed(s) \in SnapshotOf(N)
       /\ Resumed(s).cursor = s.cursor /\ Resumed(s).status = "running"
       /\ Last(s) \in SnapshotOf(N) /\ Last(s).cursor = s.cursor
       /\ Last(s).status = IF s.status = "running" THEN "completed" ELSE s.status
       /\ s.cursor # 0 => BackOnStep(s) \in SnapshotOf(N)
       /\ BackOnStep(s).cursor = s.cursor - 1 /\ BackOnStep(s).status = "failed"
  <1>1. N \in Nat \ {0}
    BY BoundsAssumption
  <1>2. Fresh \in SnapshotOf(N)
    BY <1>1 DEF Fresh, SnapshotOf
  <1>3. ASSUME NEW s \in SnapshotOf(N)
        PROVE  /\ Resumed(s) \in SnapshotOf(N)
               /\ Resumed(s).cursor = s.cursor /\ Resumed(s).status = "running"
    BY DEF Resumed, SnapshotOf
  <1>4. ASSUME NEW s \in SnapshotOf(N)
        PROVE  /\ Last(s) \in SnapshotOf(N) /\ Last(s).cursor = s.cursor
               /\ Last(s).status = IF s.status = "running" THEN "completed" ELSE s.status
    BY DEF Last, SnapshotOf
  <1>5. ASSUME NEW s \in SnapshotOf(N)
        PROVE  /\ s.cursor # 0 => BackOnStep(s) \in SnapshotOf(N)
               /\ BackOnStep(s).cursor = s.cursor - 1 /\ BackOnStep(s).status = "failed"
    BY <1>1 DEF BackOnStep, SnapshotOf
  <1> QED
    BY <1>1, <1>2, <1>3, <1>4, <1>5

\* The steps of Delivery that touch the lock are steps of ProcessingLock.
LEMMA LockSteps == [Next]_vars => [Lock!Next]_(Lock!vars)
  <1> SUFFICES ASSUME [Next]_vars PROVE Lock!Next \/ UNCHANGED Lock!vars
    OBVIOUS
  <1> USE DEF locked, Lock!vars
  <1>1. ASSUME NEW w \in Workers, Call(w) PROVE Lock!Next \/ UNCHANGED Lock!vars
    <2>1. CASE Claim(w)
      BY <2>1 DEF Claim, Lock!Next
    <2>2. CASE Release(w)
      BY <2>2 DEF Release, Lock!Next
    <2> QED
      BY <1>1, <2>1, <2>2
         DEF Call, Reject, Accept, FindLocked, LoadState, LoadFails, ClaimStep,
             HandleStep, StepFails, Finish, Acknowledge, DeleteFails, Forgo
  <1>2. ASSUME NEW w \in Workers, Crash(w) PROVE Lock!Next
    BY <1>2 DEF Crash, Lock!Next
  <1>3. CASE Tick
    BY <1>3 DEF Tick, Lock!Next
  <1>4. CASE UNCHANGED vars
    BY <1>4 DEF vars
  <1> QED
    BY <1>1, <1>2, <1>3, <1>4 DEF Next, Receive, Restart, Resend, Reappear

\* The processing lock of a delivery is the one ProcessingLock specifies: what is
\* proved of that specification holds here.
THEOREM DeliveryTakesTheLock == Spec => Lock!Spec
  <1>1. Init => Lock!Init
    BY DEF Init
  <1> QED
    BY <1>1, LockSteps, PTL DEF Spec, Lock!Spec

\* The lock keeps its type.
LEMMA LockTypeNext == Lock!TypeOK /\ [Lock!Next]_(Lock!vars) => Lock!TypeOK'
  <1> SUFFICES ASSUME Lock!TypeOK, [Lock!Next]_(Lock!vars) PROVE Lock!TypeOK'
    OBVIOUS
  <1> USE DEF Lock!TypeOK
  <1>1. -1 \in Lock!Left /\ Lock!NoLock \in [owner: Workers \cup {Nobody}, left: Lock!Left]
    BY BoundsAssumption DEF Lock!Left, Lock!NoLock
  <1>2. \A left \in Lock!Left : Lock!Later(left) \in Lock!Left
    BY BoundsAssumption DEF Lock!Left, Lock!Later
  <1>3. ASSUME NEW w \in Workers, Lock!TryAcquire(w) \/ Lock!TryAcquireLost(w)
        PROVE  Lock!TypeOK'
    BY <1>3 DEF Lock!TryAcquire, Lock!TryAcquireLost, Lock!LockOf, Lock!Start
  <1>4. ASSUME NEW w \in Workers, Lock!Release(w) PROVE Lock!TypeOK'
    BY <1>1, <1>4 DEF Lock!Release, Lock!Stop
  <1>5. ASSUME NEW W \in SUBSET Workers, Lock!Crash(W) PROVE Lock!TypeOK'
    BY <1>1, <1>5 DEF Lock!Crash
  <1>6. CASE Lock!Evict
    BY <1>1, <1>6 DEF Lock!Evict
  <1>7. CASE Lock!Tick
    BY <1>2, <1>7 DEF Lock!Tick
  <1>8. CASE UNCHANGED Lock!vars
    BY <1>8 DEF Lock!vars
  <1> QED
    BY <1>3, <1>4, <1>5, <1>6, <1>7, <1>8 DEF Lock!Next


\* The places a worker can be, and its answers.
Places == {"idle", "received", "claimed", "running", "handling", "ending",
           "done", "failed", "succeeded", "unprocessed", "dead"}
Replies == {"none", "bad request", "accepted", "conflict", "ok", "not ok"}
Events == [at: {"visible", "hidden", "gone"}, by: Workers \cup {Nobody}, left: 0..Visibility]

\* TypeOK but for the lock.
PlainOK ==
  /\ connector \in Connectors /\ locking \in Locking /\ decodable \in BOOLEAN
  /\ event \in Events
  /\ sends \in 1..MaxSends
  /\ pc \in [Workers -> Places]
  /\ live \in [Workers -> SnapshotOf(N)]
  /\ reply \in [Workers -> Replies]
  /\ saved \in SnapshotOf(N)
  /\ ran \in [1..N -> 0..2]
  /\ ended \in {"no", "completed", "stopped"}
  /\ answer \in {"none", "ok", "error"}
  /\ faults \in 0..MaxFaults

\* The calls that hold the lock.
WorkOK ==
  \A w \in Workers : work[w] = "working" =>
    locking /\ pc[w] \in {"claimed", "running", "handling", "ending", "done", "failed"}

\* TypeOK, in parts.
LEMMA TypeParts == TypeOK <=> PlainOK /\ Lock!TypeOK /\ WorkOK
  BY DEF TypeOK, PlainOK, WorkOK, Places, Replies, Events

\* The next step is one of the slip.
LEMMA NextCursor ==
  ASSUME NEW s \in SnapshotOf(N), s.cursor < N
  PROVE  /\ [s EXCEPT !.cursor = @ + 1] \in SnapshotOf(N)
         /\ [s EXCEPT !.cursor = @ + 1].cursor = s.cursor + 1
         /\ [s EXCEPT !.cursor = @ + 1].status = s.status
  <1>1. s.cursor \in 0..N /\ N \in Nat
    BY SnapshotTypes DEF SnapshotOf
  <1>2. s.cursor + 1 \in 0..N
    BY <1>1
  <1>3. [s EXCEPT !.cursor = @ + 1] = [s EXCEPT !.cursor = s.cursor + 1]
    OBVIOUS
  <1> QED
    BY <1>2, <1>3 DEF SnapshotOf

\* Faults stay within their bound.
LEMMA FaultType == PlainOK /\ Fault => faults' \in 0..MaxFaults
  BY BoundsAssumption DEF PlainOK, Fault

\* Effects are counted up to two.
LEMMA CountedEffects ==
  ASSUME NEW r \in [1..N -> 0..2], NEW c
  PROVE  [r EXCEPT ![c] = IF @ = 2 THEN 2 ELSE @ + 1] \in [1..N -> 0..2]
  <1> DEFINE up == IF r[c] = 2 THEN 2 ELSE r[c] + 1
  <1>1. c \in 1..N => r[c] \in 0..2
    OBVIOUS
  <1>2. c \in 1..N => up \in 0..2
    BY <1>1
  <1> HIDE DEF up
  <1>3. [r EXCEPT ![c] = up] \in [1..N -> 0..2]
    BY <1>2
  <1> QED
    BY <1>3 DEF up

\* What time, and the queue, do to an event.
LEMMA EventTypes ==
  /\ Gone \in Events
  /\ [Gone EXCEPT !.at = "visible"] \in Events
  /\ \A w \in Workers : [at |-> "hidden", by |-> w, left |-> Visibility] \in Events
  /\ \A e \in Events :
       /\ [e EXCEPT !.at = "visible"] \in Events
       /\ [e EXCEPT !.left = IF @ = 0 THEN 0 ELSE @ - 1] \in Events
       /\ [e EXCEPT !.left = IF @ = 0 THEN 0 ELSE @ - 1].at = e.at
  <1>1. Visibility \in Nat \ {0}
    BY BoundsAssumption
  <1>2. ASSUME NEW e \in Events
        PROVE  /\ [e EXCEPT !.left = IF @ = 0 THEN 0 ELSE @ - 1] \in Events
               /\ [e EXCEPT !.left = IF @ = 0 THEN 0 ELSE @ - 1].at = e.at
    <2>1. (IF e.left = 0 THEN 0 ELSE e.left - 1) \in 0..Visibility
      BY <1>1 DEF Events
    <2> QED
      BY <2>1 DEF Events
  <1> QED
    BY <1>1, <1>2 DEF Gone, Events

\* Every step keeps the types of what is not the lock's.
LEMMA PlainNext == PlainOK /\ CallInv /\ [Next]_vars => PlainOK'
  <1> SUFFICES ASSUME PlainOK, CallInv, [Next]_vars PROVE PlainOK'
    OBVIOUS
  <1> USE DEF config, aux
  <1>1. ASSUME NEW w \in Workers, Receive(w) PROVE PlainOK'
    <2>1. event' \in Events
      BY <1>1, EventTypes DEF Receive
    <2> QED
      BY <1>1, <2>1 DEF Receive, PlainOK, Goto, Reply, Places, Replies
  <1>2. ASSUME NEW w \in Workers, Reject(w) \/ Accept(w) \/ FindLocked(w) PROVE PlainOK'
    BY <1>2 DEF Reject, Accept, FindLocked, PlainOK, Goto, Reply, Places, Replies
  <1>3. ASSUME NEW w \in Workers, Claim(w) \/ LoadState(w) \/ LoadFails(w) PROVE PlainOK'
    <2>1. CASE Claim(w)
      BY <2>1 DEF Claim, PlainOK, Goto, Places
    <2>2. CASE LoadState(w)
      <3>1. Resumed(saved) \in SnapshotOf(N)
        BY SnapshotTypes DEF PlainOK
      <3> QED
        BY <2>2, <3>1 DEF LoadState, PlainOK, Goto, Places
    <2>3. CASE LoadFails(w)
      BY <2>3, FaultType DEF LoadFails, PlainOK, Goto, Places
    <2> QED
      BY <1>3, <2>1, <2>2, <2>3
  <1>4. ASSUME NEW w \in Workers, ClaimStep(w) PROVE PlainOK'
    <2>1. /\ live[w] \in SnapshotOf(N) /\ live[w].cursor < N
          /\ live' = [live EXCEPT ![w] = [live[w] EXCEPT !.cursor = @ + 1]] /\ saved' = live'[w]
      BY <1>4 DEF ClaimStep, PlainOK
    <2>2. [live[w] EXCEPT !.cursor = @ + 1] \in SnapshotOf(N)
      BY <2>1, NextCursor
    <2> QED
      BY <1>4, <2>1, <2>2 DEF ClaimStep, PlainOK, Goto, Places
  <1>5. ASSUME NEW w \in Workers, HandleStep(w) PROVE PlainOK'
    <2>1. /\ live[w] \in SnapshotOf(N)
          /\ live' \in {live, [live EXCEPT ![w] = [live[w] EXCEPT !.status = "stopped"]]}
          /\ saved' = live[w]
      BY <1>5 DEF HandleStep, PlainOK
    <2>2. [live[w] EXCEPT !.status = "stopped"] \in SnapshotOf(N)
      BY <2>1 DEF SnapshotOf
    <2>3. /\ ran \in [1..N -> 0..2]
          /\ ran' = [ran EXCEPT ![live[w].cursor] = IF @ = 2 THEN 2 ELSE @ + 1]
      BY <1>5 DEF HandleStep, PlainOK
    <2>4. ran' \in [1..N -> 0..2]
      BY <2>3, CountedEffects
    <2> QED
      BY <1>5, <2>1, <2>2, <2>4 DEF HandleStep, PlainOK, Goto, Places
  <1>6. ASSUME NEW w \in Workers, StepFails(w) PROVE PlainOK'
    <2>1. BackOnStep(live[w]) \in SnapshotOf(N)
      BY <1>6, SnapshotTypes DEF StepFails, PlainOK, CallInv
    <2> QED
      BY <1>6, <2>1, FaultType DEF StepFails, PlainOK, Goto, Places
  <1>7. ASSUME NEW w \in Workers, Finish(w) PROVE PlainOK'
    <2>1. live[w] \in SnapshotOf(N) /\ live[w].status \in {"running", "stopped"}
      BY <1>7 DEF Finish, PlainOK, CallInv
    <2>2. Last(live[w]) \in SnapshotOf(N) /\ Last(live[w]).status \in {"completed", "stopped"}
      BY <2>1, SnapshotTypes
    <2> QED
      BY <1>7, <2>2 DEF Finish, PlainOK, Goto, Places
  <1>8. ASSUME NEW w \in Workers, Release(w) \/ Crash(w) PROVE PlainOK'
    <2>1. live' = [live EXCEPT ![w] = Fresh]
      BY <1>8 DEF Release, Crash
    <2>2. live' \in [Workers -> SnapshotOf(N)]
      BY <2>1, SnapshotTypes DEF PlainOK
    <2>3. CASE Release(w)
      BY <2>2, <2>3 DEF Release, PlainOK, Goto, Places
    <2>4. CASE Crash(w)
      BY <2>2, <2>4, FaultType DEF Crash, PlainOK, Goto, Places
    <2> QED
      BY <1>8, <2>3, <2>4
  <1>9. ASSUME NEW w \in Workers, Acknowledge(w) \/ DeleteFails(w) \/ Forgo(w) PROVE PlainOK'
    <2>1. CASE Acknowledge(w)
      BY <2>1, EventTypes DEF Acknowledge, PlainOK, Goto, Reply, Places, Replies
    <2>2. CASE DeleteFails(w)
      BY <2>2, EventTypes, FaultType DEF DeleteFails, PlainOK, Goto, Places
    <2>3. CASE Forgo(w)
      BY <2>3 DEF Forgo, PlainOK, Goto, Reply, Places, Replies
    <2> QED
      BY <1>9, <2>1, <2>2, <2>3
  <1>10. ASSUME NEW w \in Workers, Restart(w) PROVE PlainOK'
    BY <1>10 DEF Restart, PlainOK, Goto, Reply, Places, Replies
  <1>11. CASE Resend
    BY <1>11, EventTypes, BoundsAssumption DEF Resend, PlainOK
  <1>12. CASE Reappear
    BY <1>12, EventTypes, FaultType DEF Reappear, PlainOK
  <1>13. CASE Tick
    BY <1>13, EventTypes DEF Tick, PlainOK
  <1>14. CASE UNCHANGED vars
    BY <1>14 DEF vars, PlainOK
  <1> QED
    BY <1>1, <1>2, <1>3, <1>4, <1>5, <1>6, <1>7, <1>8, <1>9, <1>10, <1>11, <1>12,
       <1>13, <1>14 DEF Next, Call

\* A step of Delivery that leaves the snapshot and every running call alone.
Aside ==
  /\ saved' = saved /\ ran' = ran
  /\ \A v \in Workers :
       pc'[v] \in {"running", "handling", "ending"} => pc'[v] = pc[v] /\ live'[v] = live[v]

\* The steps of worker w's call in Process, and the one that starts it.
StepOfProcess(w) == LoadState(w) \/ ClaimStep(w) \/ HandleStep(w) \/ StepFails(w) \/ Finish(w)

\* Only these move the snapshot, and they are all of one call.
LEMMA StepsOfCalls ==
  ASSUME PlainOK, [Next]_vars
  PROVE  /\ config' = config
         /\ Aside \/ \E w \in Workers : StepOfProcess(w)
  <1> USE DEF PlainOK, config, aux, Goto
  <1>1. ASSUME NEW w \in Workers,
               \/ Receive(w) \/ Reject(w) \/ Accept(w) \/ FindLocked(w) \/ Claim(w)
               \/ LoadFails(w) \/ Acknowledge(w) \/ DeleteFails(w) \/ Forgo(w) \/ Restart(w)
        PROVE  config' = config /\ Aside
    <2>1. live' = live /\ saved' = saved /\ ran' = ran /\ config' = config
      BY <1>1 DEF Receive, Reject, Accept, FindLocked, Claim, LoadFails, Acknowledge,
                  DeleteFails, Forgo, Restart
    <2>2. \/ pc' = pc
          \/ \E there \in {"idle", "received", "claimed", "failed", "dead"} :
               pc' = [pc EXCEPT ![w] = there]
      BY <1>1 DEF Receive, Reject, Accept, FindLocked, Claim, LoadFails, Acknowledge,
                  DeleteFails, Forgo, Restart
    <2> QED
      BY <2>1, <2>2 DEF Aside
  <1>2. ASSUME NEW w \in Workers, Release(w) \/ Crash(w)
        PROVE  config' = config /\ Aside
    <2>1. live' = [live EXCEPT ![w] = Fresh] /\ saved' = saved /\ ran' = ran /\ config' = config
      BY <1>2 DEF Release, Crash
    <2>2. \E there \in {"succeeded", "unprocessed", "dead"} : pc' = [pc EXCEPT ![w] = there]
      BY <1>2 DEF Release, Crash
    <2> QED
      BY <2>1, <2>2 DEF Aside
  <1>3. CASE Resend \/ Reappear \/ Tick \/ UNCHANGED vars
    BY <1>3 DEF Resend, Reappear, Tick, vars, Aside
  <1>4. ASSUME NEW w \in Workers, StepOfProcess(w) PROVE config' = config
    BY <1>4 DEF StepOfProcess, LoadState, ClaimStep, HandleStep, StepFails, Finish
  <1> QED
    BY <1>1, <1>2, <1>3, <1>4 DEF Next, Call, StepOfProcess

\* A call moves its own message only.
LEMMA OtherCalls ==
  ASSUME PlainOK, NEW w \in Workers, StepOfProcess(w)
  PROVE  \A v \in Workers \ {w} : pc'[v] = pc[v] /\ live'[v] = live[v]
  BY DEF PlainOK, StepOfProcess, LoadState, ClaimStep, HandleStep, StepFails, Finish, Goto

\* The live messages of the calls say what they should.
LEMMA CallInvNext == PlainOK /\ CallInv /\ [Next]_vars => CallInv'
  <1> SUFFICES ASSUME PlainOK, CallInv, [Next]_vars PROVE CallInv'
    OBVIOUS
  <1>1. CASE Aside
    BY <1>1 DEF Aside, CallInv
  <1>2. ASSUME NEW w \in Workers, StepOfProcess(w) PROVE CallInv'
    <2> DEFINE Own == /\ pc'[w] \in {"running", "handling"} => live'[w].status = "running"
                      /\ pc'[w] = "handling" => live'[w].cursor # 0
                      /\ pc'[w] = "ending" => live'[w].status = "stopped"
    <2>0. /\ live[w] \in SnapshotOf(N) /\ live[w].cursor \in 0..N /\ saved \in SnapshotOf(N)
          /\ pc \in [Workers -> Places] /\ live \in [Workers -> SnapshotOf(N)]
          /\ N \in Nat
      BY SnapshotTypes DEF PlainOK, SnapshotOf
    <2>1. CASE LoadState(w)
      <3>1. Own /\ saved' = saved
        BY <2>0, <2>1, SnapshotTypes DEF LoadState, Goto
      <3> QED
        BY <1>2, <3>1, OtherCalls DEF CallInv
    <2>2. CASE ClaimStep(w)
      <3>1. pc'[w] = "handling" /\ live'[w] = [live[w] EXCEPT !.cursor = @ + 1] /\ saved' = live'[w]
        BY <2>0, <2>2 DEF ClaimStep, Goto
      <3>2. live[w].status = "running" /\ live[w].cursor < N
        BY <2>2 DEF ClaimStep, CallInv
      <3>3. live'[w].status = "running" /\ live'[w].cursor # 0
        BY <2>0, <3>1, <3>2, NextCursor
      <3> QED
        BY <1>2, <3>1, <3>3, OtherCalls DEF CallInv
    <2>3. CASE HandleStep(w)
      <3>1. live[w].status = "running" /\ saved' = live[w]
        BY <2>3 DEF HandleStep, CallInv
      <3>2. Own
        BY <2>0, <2>3, <3>1 DEF HandleStep, Goto, SnapshotOf
      <3> QED
        BY <1>2, <3>1, <3>2, OtherCalls DEF CallInv
    <2>4. CASE StepFails(w)
      <3>1. pc'[w] = "failed" /\ saved' = BackOnStep(live[w])
        BY <2>0, <2>4 DEF StepFails, Goto
      <3>2. saved'.status = "failed"
        BY <2>0, <3>1, SnapshotTypes
      <3> QED
        BY <1>2, <3>1, <3>2, OtherCalls DEF CallInv
    <2>5. CASE Finish(w)
      <3>1. pc'[w] = "done" /\ saved' = Last(live[w])
        BY <2>0, <2>5 DEF Finish, Goto
      <3>2. live[w].status = "stopped" \/ live[w].cursor = N
        BY <2>5 DEF Finish, CallInv
      <3>3. saved'.status = "completed" => saved'.cursor = N
        BY <2>0, <2>5, <3>1, <3>2, SnapshotTypes DEF CallInv, Finish
      <3> QED
        BY <1>2, <3>1, <3>3, OtherCalls DEF CallInv
    <2> QED
      BY <1>2, <2>1, <2>2, <2>3, <2>4, <2>5 DEF StepOfProcess
  <1> QED
    BY <1>1, <1>2, StepsOfCalls

-----------------------------------------------------------------------------
(* The lock. *)

\* Where worker w is when it has to hold the lock.
Holding == {"claimed", "running", "handling", "ending", "done"}

\* With the lock, there is one such worker at a time.
LEMMA OneHolder ==
  ASSUME LeaseInv, locking,
         NEW v \in Workers, pc[v] \in Holding, NEW w \in Workers, pc[w] \in Holding
  PROVE  v = w
  BY DEF LeaseInv, Holding

\* Nobody is granted the lock while another worker processes the message.
LEMMA FreeMeansNobody ==
  ASSUME PlainOK, Lock!TypeOK, LeaseInv, Lock!Free
  PROVE  \A v \in Workers : work[v] = "idle"
  <1> SUFFICES ASSUME NEW v \in Workers, work[v] = "working" PROVE FALSE
    BY DEF Lock!TypeOK
  <1>1. lock.owner = v /\ lock.left >= lease[v] /\ ~Lock!Expired(lease[v])
    BY DEF LeaseInv
  <1>2. lock.left \in Int /\ lease[v] \in Int
    BY BoundsAssumption DEF Lock!TypeOK, Lock!Left
  <1> QED
    BY <1>1, <1>2, WorkersAssumption DEF Lock!Free, Lock!Expired

\* A step that leaves the lock alone, and lets no worker into the calls that
\* hold it but from such a call.
LEMMA LockUntouched ==
  ASSUME LeaseInv, WorkOK, locked' = locked, locking' = locking,
         \A v \in Workers :
           /\ locking /\ pc'[v] \in Holding => pc[v] \in Holding
           /\ work[v] = "working" => pc'[v] \in Holding \cup {"failed"}
  PROVE  LeaseInv' /\ WorkOK'
  <1>1. lock' = lock /\ work' = work /\ lease' = lease
    BY DEF locked
  <1>2. LeaseInv'
    BY <1>1 DEF LeaseInv, Holding, Lock!Expired
  <1>3. WorkOK'
    BY <1>1 DEF WorkOK, Holding
  <1> QED
    BY <1>2, <1>3

\* Every action keeps LeaseInv and WorkOK: the lock is granted when nobody
\* processes the message, only its holder gives it back, and no call outlives
\* its lease.
LEMMA LeaseInvNext ==
  PlainOK /\ Lock!TypeOK /\ WorkOK /\ LeaseInv /\ [Next]_vars => WorkOK' /\ LeaseInv'
  <1> SUFFICES ASSUME PlainOK, Lock!TypeOK, WorkOK, LeaseInv, [Next]_vars
               PROVE  WorkOK' /\ LeaseInv'
    OBVIOUS
  <1>0. /\ pc \in [Workers -> Places] /\ work \in [Workers -> {"idle", "working"}]
        /\ lease \in [Workers -> Lock!Left] /\ lock.left \in Lock!Left
        /\ config' = config
    BY StepsOfCalls DEF PlainOK, Lock!TypeOK
  <1>1. ASSUME NEW w \in Workers, Receive(w) \/ Reject(w) \/ FindLocked(w) PROVE WorkOK' /\ LeaseInv'
    <2>1. /\ locked' = locked /\ pc[w] \in {"idle", "received"}
          /\ \E there \in {"idle", "received"} : pc' = [pc EXCEPT ![w] = there]
      BY <1>1 DEF Receive, Reject, FindLocked, Goto
    <2>2. work[w] # "working"
      BY <2>1 DEF WorkOK
    <2> QED
      BY <1>0, <2>1, <2>2, LockUntouched DEF WorkOK, Holding, config
  <1>2. ASSUME NEW w \in Workers,
               Acknowledge(w) \/ DeleteFails(w) \/ Forgo(w) \/ Restart(w)
        PROVE  WorkOK' /\ LeaseInv'
    <2>1. /\ locked' = locked /\ pc[w] \in {"succeeded", "unprocessed", "dead"}
          /\ \E there \in {"idle", "dead"} : pc' = [pc EXCEPT ![w] = there]
      BY <1>2 DEF Acknowledge, DeleteFails, Forgo, Restart, Goto
    <2>2. work[w] # "working"
      BY <2>1 DEF WorkOK
    <2> QED
      BY <1>0, <2>1, <2>2, LockUntouched DEF WorkOK, Holding, config
  <1>3. ASSUME NEW w \in Workers, Accept(w) \/ LoadFails(w) PROVE WorkOK' /\ LeaseInv'
    <2>1. /\ locked' = locked
          /\ pc' = pc \/ pc' = [pc EXCEPT ![w] = "failed"]
      BY <1>3 DEF Accept, LoadFails, Goto
    <2> QED
      BY <1>0, <2>1, LockUntouched DEF WorkOK, Holding, config
  <1>4. ASSUME NEW w \in Workers, StepOfProcess(w) PROVE WorkOK' /\ LeaseInv'
    <2>1. /\ locked' = locked /\ pc[w] \in Holding
          /\ \E there \in Holding \cup {"failed"} : pc' = [pc EXCEPT ![w] = there]
      BY <1>4 DEF StepOfProcess, LoadState, ClaimStep, HandleStep, StepFails, Finish, Goto, Holding
    <2> QED
      BY <1>0, <2>1, LockUntouched DEF WorkOK, Holding, config
  <1>5. ASSUME NEW w \in Workers, Claim(w) PROVE WorkOK' /\ LeaseInv'
    <2>1. pc' = [pc EXCEPT ![w] = "claimed"] /\ pc[w] = "received"
      BY <1>5 DEF Claim, Goto
    <2>2. CASE ~locking /\ locked' = locked
      BY <1>0, <2>1, <2>2, LockUntouched DEF WorkOK, Holding, config
    <2>3. CASE locking /\ Lock!TryAcquire(w) /\ lease'[w] = TTL
      <3>1. PICK left \in Lock!Left : lock' = Lock!LockOf(w, left) /\ Lock!Start(w, left)
        BY <2>3 DEF Lock!TryAcquire
      <3>2. \A v \in Workers : work[v] = "idle"
        BY <2>3, FreeMeansNobody DEF Lock!TryAcquire
      <3>3. /\ lock'.owner = w /\ lock'.left = TTL /\ lease'[w] = TTL
            /\ work' = [work EXCEPT ![w] = "working"]
        BY <1>0, <2>3, <3>1 DEF Lock!LockOf, Lock!Start
      <3>4. \A v \in Workers : work'[v] = "working" => v = w
        BY <1>0, <3>2, <3>3
      <3>5. \A v \in Workers : pc'[v] \in Holding => v = w
        BY <1>0, <2>1, <2>3, <3>2 DEF LeaseInv, Holding
      <3>6. TTL >= TTL /\ ~Lock!Expired(TTL)
        BY BoundsAssumption DEF Lock!Expired
      <3>7. WorkOK'
        BY <1>0, <2>1, <2>3, <3>4 DEF WorkOK, config
      <3>8. LeaseInv'
        BY <1>0, <3>3, <3>4, <3>5, <3>6 DEF LeaseInv, Holding, Lock!Expired
      <3> QED
        BY <3>7, <3>8
    <2> QED
      BY <1>5, <2>2, <2>3 DEF Claim
  <1>6. ASSUME NEW w \in Workers, Release(w) PROVE WorkOK' /\ LeaseInv'
    <2>1. /\ pc[w] \in {"done", "failed"}
          /\ \E there \in {"succeeded", "unprocessed"} : pc' = [pc EXCEPT ![w] = there]
      BY <1>6 DEF Release, Goto
    <2>2. CASE work[w] # "working" /\ locked' = locked
      BY <1>0, <2>1, <2>2, LockUntouched DEF WorkOK, Holding, config
    <2>3. CASE work[w] = "working" /\ Lock!Release(w)
      <3>1. \A v \in Workers : work[v] = "working" => v = w
        BY <2>3 DEF LeaseInv
      <3>2. work' = [work EXCEPT ![w] = "idle"]
        BY <2>3 DEF Lock!Release, Lock!Stop
      <3>3. \A v \in Workers : work'[v] # "working"
        BY <1>0, <3>1, <3>2
      <3>4. \A v \in Workers : locking /\ pc[v] \in Holding => v = w
        BY <3>1 DEF LeaseInv, Holding
      <3>5. \A v \in Workers : ~(locking /\ pc'[v] \in Holding)
        BY <1>0, <2>1, <3>4 DEF Holding
      <3> QED
        BY <1>0, <3>3, <3>5 DEF WorkOK, LeaseInv, Holding, config
    <2> QED
      BY <1>6, <2>2, <2>3 DEF Release
  <1>7. ASSUME NEW w \in Workers, Crash(w) PROVE WorkOK' /\ LeaseInv'
    <2>1. pc' = [pc EXCEPT ![w] = "dead"]
      BY <1>7 DEF Crash, Goto
    <2>2. /\ lock' = lock /\ work'[w] = "idle"
          /\ \A v \in Workers \ {w} : work'[v] = work[v] /\ lease'[v] = lease[v]
      BY <1>7 DEF Crash, Lock!Crash
    <2> QED
      BY <1>0, <2>1, <2>2 DEF WorkOK, LeaseInv, config, Lock!Expired
  <1>8. CASE Tick
    <2>1. /\ lock'.left = Lock!Later(lock.left) /\ lock'.owner = lock.owner
          /\ work' = work /\ pc' = pc
          /\ \A v \in Workers : lease'[v] = Lock!Later(lease[v])
      BY <1>0, <1>8 DEF Tick, Lock!Tick, Lock!TypeOK
    <2>2. ASSUME NEW v \in Workers, work[v] = "working"
          PROVE  lock'.left >= lease'[v] /\ ~Lock!Expired(lease'[v])
      <3>1. lock.left >= lease[v] /\ ~Lock!Expired(lease[v] - 1)
        BY <1>8, <2>2 DEF LeaseInv, Tick
      <3>2. lock.left \in Int /\ lease[v] \in Int
        BY <1>0, BoundsAssumption DEF Lock!Left
      <3> QED
        BY <2>1, <3>1, <3>2 DEF Lock!Later, Lock!Expired
    <2>3. LeaseInv'
      BY <1>0, <2>1, <2>2 DEF LeaseInv, config, Lock!Expired
    <2> QED
      BY <1>0, <2>1, <2>3 DEF WorkOK, config
  <1>9. CASE Resend \/ Reappear \/ UNCHANGED vars
    <2>1. locked' = locked /\ pc' = pc
      BY <1>9 DEF Resend, Reappear, vars
    <2> QED
      BY <1>0, <2>1, LockUntouched DEF WorkOK, Holding, config
  <1> QED
    BY <1>1, <1>2, <1>3, <1>4, <1>5, <1>6, <1>7, <1>8, <1>9 DEF Next, Call, StepOfProcess

-----------------------------------------------------------------------------
\* The types and the lock together.
TypeInv == TypeOK /\ CallInv /\ LeaseInv

\* The types hold, and with them what calls and leases know of each other.
LEMMA TypeInvariant == Spec => []TypeInv
  <1>1. Init => TypeInv
    <2> SUFFICES ASSUME Init PROVE TypeInv
      OBVIOUS
    <2>1. PlainOK
      BY SnapshotTypes, BoundsAssumption DEF Init, PlainOK, Events, Places, Replies
    <2>2. Lock!TypeOK /\ \A w \in Workers : work[w] = "idle"
      BY BoundsAssumption DEF Init, Lock!Init, Lock!TypeOK, Lock!NoLock, Lock!Left
    <2>3. /\ \A w \in Workers : pc[w] = "idle"
          /\ saved.status = "created"
      BY DEF Init, Fresh
    <2> QED
      BY <2>1, <2>2, <2>3, TypeParts DEF TypeInv, WorkOK, CallInv, LeaseInv
  <1>2. TypeInv /\ [Next]_vars => TypeInv'
    <2> SUFFICES ASSUME TypeInv, [Next]_vars PROVE TypeInv'
      OBVIOUS
    <2>1. PlainOK /\ Lock!TypeOK /\ WorkOK /\ CallInv /\ LeaseInv
      BY TypeParts DEF TypeInv
    <2>2. PlainOK' /\ CallInv'
      BY <2>1, PlainNext, CallInvNext
    <2>3. Lock!TypeOK'
      BY <2>1, LockSteps, LockTypeNext
    <2>4. WorkOK' /\ LeaseInv'
      BY <2>1, LeaseInvNext
    <2>5. TypeOK'
      BY <2>2, <2>3, <2>4 DEF TypeOK, PlainOK, WorkOK, Places, Replies, Events
    <2> QED
      BY <2>2, <2>4, <2>5 DEF TypeInv
  <1> QED
    BY <1>1, <1>2, PTL DEF Spec

\* Type correctness of Delivery; only a worker that holds the lock is in a call.
THEOREM DeliveryTypeCorrect == Spec => []TypeOK
  <1>1. TypeInv => TypeOK
    BY DEF TypeInv
  <1> QED
    BY <1>1, TypeInvariant, PTL

-----------------------------------------------------------------------------
(* One call at a time. *)

\* With the lock, a step of one call finds every other worker outside Process.
LEMMA Alone ==
  ASSUME LeaseInv, locking, NEW w \in Workers, StepOfProcess(w)
  PROVE  /\ pc[w] \in Holding
         /\ \A v \in Workers \ {w} : pc[v] \notin Holding
  <1>1. pc[w] \in Holding
    BY DEF StepOfProcess, LoadState, ClaimStep, HandleStep, StepFails, Finish, Holding
  <1> QED
    BY <1>1, OneHolder

\* OnceInv is inductive: the only running call has the stored cursor, the steps
\* past it have not run, and a step is handled once the cursor has passed it.
LEMMA OnceInvNext == TypeInv /\ OnceInv /\ [Next]_vars => OnceInv'
  <1> SUFFICES ASSUME TypeInv, OnceInv, [Next]_vars, locking' PROVE OnceInv'
    BY DEF OnceInv
  <1>0. PlainOK /\ LeaseInv /\ CallInv
    BY TypeParts DEF TypeInv
  <1>1. /\ locking
        /\ \A w \in Workers : InProcess(w) => live[w].cursor = saved.cursor /\ saved.status # "completed"
        /\ \A i \in 1..N : ran[i] <= 1 /\ (i > saved.cursor => ran[i] = 0)
        /\ \A w \in Workers : pc[w] = "handling" => ran[live[w].cursor] = 0
    BY <1>0, StepsOfCalls DEF OnceInv, config
  <1>2. CASE Aside
    BY <1>1, <1>2 DEF Aside, OnceInv, InProcess
  <1>3. ASSUME NEW w \in Workers, StepOfProcess(w) PROVE OnceInv'
    <2>0. /\ N \in Nat /\ live[w] \in SnapshotOf(N) /\ saved \in SnapshotOf(N)
          /\ live[w].cursor \in 0..N /\ saved.cursor \in 0..N
          /\ ran \in [1..N -> 0..2]
          /\ pc \in [Workers -> Places] /\ live \in [Workers -> SnapshotOf(N)]
      BY <1>0, SnapshotTypes DEF PlainOK, SnapshotOf
    <2>1. \A v \in Workers : InProcess(v)' => v = w
      BY <1>0, <1>1, <1>3, Alone, OtherCalls DEF InProcess, Holding
    <2> DEFINE Once == /\ InProcess(w)' => live'[w].cursor = saved'.cursor /\ saved'.status # "completed"
                       /\ \A i \in 1..N : ran'[i] <= 1 /\ (i > saved'.cursor => ran'[i] = 0)
                       /\ pc'[w] = "handling" => ran'[live'[w].cursor] = 0
    <2>2. SUFFICES Once
      BY <2>1 DEF OnceInv, InProcess
    <2>3. CASE LoadState(w)
      <3>1. CASE pc' = [pc EXCEPT ![w] = "done"] /\ saved' = saved /\ ran' = ran
        BY <1>1, <2>0, <3>1 DEF InProcess
      <3>2. CASE /\ ~Completed(saved, N) /\ pc' = [pc EXCEPT ![w] = "running"]
                 /\ live' = [live EXCEPT ![w] = Resumed(saved)] /\ saved' = saved /\ ran' = ran
        <4>1. saved.status # "completed"
          BY <1>0, <3>2 DEF CallInv, Completed
        <4>2. live'[w].cursor = saved.cursor
          BY <2>0, <3>2, SnapshotTypes
        <4> QED
          BY <1>1, <2>0, <3>2, <4>1, <4>2 DEF InProcess
      <3> QED
        BY <2>3, <3>1, <3>2 DEF LoadState, Goto, aux
    <2>4. CASE ClaimStep(w)
      <3>1. /\ pc[w] = "running" /\ live[w].cursor < N /\ pc'[w] = "handling"
            /\ live'[w] = [live[w] EXCEPT !.cursor = @ + 1] /\ saved' = live'[w] /\ ran' = ran
        BY <2>0, <2>4 DEF ClaimStep, Goto, aux
      <3>2. live[w].cursor = saved.cursor /\ live[w].status = "running"
        BY <1>0, <1>1, <3>1 DEF InProcess, CallInv
      <3>3. saved'.cursor = saved.cursor + 1 /\ saved'.status = "running"
        BY <2>0, <3>1, <3>2, NextCursor
      <3>4. saved.cursor + 1 \in 1..N /\ saved.cursor + 1 > saved.cursor
        BY <2>0, <3>1, <3>2
      <3>5. ran[saved.cursor + 1] = 0
        BY <1>1, <3>4
      <3>6. \A i \in 1..N : ran[i] <= 1 /\ (i > saved.cursor + 1 => ran[i] = 0)
        BY <1>1, <2>0
      <3> QED
        BY <3>1, <3>3, <3>5, <3>6
    <2>5. CASE HandleStep(w)
      <3>1. /\ pc[w] = "handling" /\ pc'[w] \in {"running", "ending"} /\ saved' = live[w]
            /\ live'[w] \in {live[w], [live[w] EXCEPT !.status = "stopped"]}
            /\ ran' = [ran EXCEPT ![live[w].cursor] = IF @ = 2 THEN 2 ELSE @ + 1]
        BY <2>0, <2>5 DEF HandleStep, Goto
      <3>2. /\ live[w].cursor = saved.cursor /\ live[w].status = "running"
            /\ ran[saved.cursor] = 0 /\ saved.cursor \in 1..N
        BY <1>0, <1>1, <2>0, <3>1 DEF InProcess, CallInv
      <3>3. ran' = [ran EXCEPT ![saved.cursor] = 1]
        BY <3>1, <3>2
      <3>4. \A i \in 1..N : ran'[i] <= 1 /\ (i > saved.cursor => ran'[i] = 0)
        BY <1>1, <2>0, <3>2, <3>3
      <3>5. live'[w].cursor = live[w].cursor
        BY <2>0, <3>1 DEF SnapshotOf
      <3> QED
        BY <3>1, <3>2, <3>4, <3>5
    <2>6. CASE StepFails(w)
      <3>1. /\ pc[w] = "handling" /\ pc'[w] = "failed" /\ saved' = BackOnStep(live[w]) /\ ran' = ran
        BY <2>0, <2>6 DEF StepFails, Goto, aux
      <3>2. /\ live[w].cursor = saved.cursor /\ ran[saved.cursor] = 0
            /\ saved'.cursor = saved.cursor - 1
        BY <1>1, <2>0, <3>1, SnapshotTypes DEF InProcess
      <3>3. \A i \in 1..N : i > saved.cursor - 1 => i = saved.cursor \/ i > saved.cursor
        BY <2>0
      <3> QED
        BY <1>1, <3>1, <3>2, <3>3 DEF InProcess
    <2>7. CASE Finish(w)
      <3>1. /\ InProcess(w) /\ pc'[w] = "done" /\ saved' = Last(live[w]) /\ ran' = ran
        BY <2>0, <2>7 DEF Finish, Goto, InProcess
      <3>2. saved'.cursor = saved.cursor
        BY <1>1, <2>0, <3>1, SnapshotTypes
      <3> QED
        BY <1>1, <3>1, <3>2 DEF InProcess
    <2> QED
      BY <1>3, <2>3, <2>4, <2>5, <2>6, <2>7 DEF StepOfProcess
  <1> QED
    BY <1>0, <1>2, <1>3, StepsOfCalls

\* With the lock, one call at a time moves the snapshot, and no step is ahead of it.
LEMMA OnceInvariant == Spec => [](TypeInv /\ OnceInv)
  <1>1. Init => OnceInv
    <2> SUFFICES ASSUME Init PROVE OnceInv
      OBVIOUS
    <2>1. /\ \A w \in Workers : pc[w] = "idle"
          /\ \A i \in 1..N : ran[i] = 0
      BY DEF Init
    <2> QED
      BY <2>1 DEF OnceInv, InProcess
  <1> QED
    BY <1>1, OnceInvNext, TypeInvariant, PTL DEF Spec

\* With the lock, no step takes effect twice: for any number of processes, of
\* deliveries, crashes and failures, and whatever the connector.
THEOREM NoStepIsRepeated == Spec => []NoStepRepeated
  <1>1. TypeInv /\ OnceInv => NoStepRepeated
    BY DEF OnceInv, NoStepRepeated
  <1> QED
    BY <1>1, OnceInvariant, PTL

\* With the lock, what a call knows of the snapshot is what the store has.
THEOREM CallsAreCurrent == Spec => []NoStaleCall
  <1>1. TypeInv /\ OnceInv => NoStaleCall
    BY DEF OnceInv, NoStaleCall, InProcess
  <1> QED
    BY <1>1, OnceInvariant, PTL

\* With the lock, nobody touches the snapshot of a completed message.
THEOREM CompletedIsFinal ==
  Spec => [][locking /\ Completed(saved, N) => saved' = saved]_vars
  <1>1. TypeInv /\ OnceInv /\ [Next]_vars =>
          [locking /\ Completed(saved, N) => saved' = saved]_vars
    <2> SUFFICES ASSUME TypeInv, OnceInv, [Next]_vars, locking, Completed(saved, N)
                 PROVE  saved' = saved
      OBVIOUS
    <2>1. PlainOK
      BY TypeParts DEF TypeInv
    <2>2. \A w \in Workers : ~InProcess(w)
      BY DEF OnceInv, Completed
    <2>3. ASSUME NEW w \in Workers, StepOfProcess(w) PROVE saved' = saved
      BY <2>2, <2>3
         DEF StepOfProcess, LoadState, ClaimStep, HandleStep, StepFails, Finish, InProcess
    <2> QED
      BY <2>1, <2>3, StepsOfCalls DEF Aside
  <1> QED
    BY <1>1, OnceInvariant, PTL DEF Spec

-----------------------------------------------------------------------------
(* Acknowledgement. *)

\* What holds of the event, of the snapshot and of one worker's call and answer.
LEMMA EndedParts ==
  ASSUME EndedInv, ended' = "no" => ended = "no",
         saved'.status = "completed" => saved.status = "completed" \/ ended' # "no",
         connector' = connector,
         connector = "queue" /\ event'.at = "gone" => event.at = "gone" \/ ended' # "no",
         \A w \in Workers :
           /\ pc'[w] \in {"done", "succeeded"} => pc[w] \in {"done", "succeeded"} \/ ended' # "no"
           /\ reply'[w] = "ok" => reply[w] = "ok" \/ ended' # "no"
  PROVE  EndedInv'
  BY DEF EndedInv

\* EndedInv is inductive, lock or no lock: a call is done when it has saved a
\* final status or found a completed message, and only such a call deletes the
\* event or answers 200.
LEMMA EndedInvNext == TypeInv /\ EndedInv /\ [Next]_vars => EndedInv'
  <1> SUFFICES ASSUME TypeInv, EndedInv, [Next]_vars PROVE EndedInv'
    OBVIOUS
  <1>0. /\ PlainOK /\ CallInv /\ connector' = connector
        /\ pc \in [Workers -> Places] /\ reply \in [Workers -> Replies] /\ event \in Events
    BY TypeParts, StepsOfCalls DEF TypeInv, PlainOK, config
  <1> USE DEF aux, Goto, Reply
  <1>1. ASSUME NEW w \in Workers, Receive(w) \/ Reject(w) \/ Accept(w) \/ FindLocked(w) PROVE EndedInv'
    <2>1. /\ ended' = ended /\ saved' = saved
          /\ connector = "queue" => event'.at \in {"hidden", event.at}
          /\ pc' = pc \/ \E there \in {"idle", "received"} : pc' = [pc EXCEPT ![w] = there]
          /\ \/ reply' = reply
             \/ \E r \in Replies \ {"ok"} : reply' = [reply EXCEPT ![w] = r]
      <3>1. CASE Receive(w)
        BY <3>1 DEF Receive, Gone, Replies
      <3>2. CASE Reject(w) \/ Accept(w)
        BY <3>2 DEF Reject, Accept, Replies
      <3>3. CASE FindLocked(w)
        BY <3>3 DEF FindLocked, Replies
      <3> QED
        BY <1>1, <3>1, <3>2, <3>3
    <2> QED
      BY <1>0, <2>1, EndedParts
  <1>2. ASSUME NEW w \in Workers, Claim(w) \/ LoadFails(w) \/ StepFails(w) \/ ClaimStep(w)
                                  \/ HandleStep(w)
        PROVE  EndedInv'
    <2>1. /\ ended' = ended /\ event' = event /\ reply' = reply
          /\ \E there \in {"claimed", "running", "handling", "ending", "failed"} :
               pc' = [pc EXCEPT ![w] = there]
      BY <1>2 DEF Claim, LoadFails, ClaimStep, HandleStep, StepFails
    <2>2. saved'.status = "completed" => saved.status = "completed"
      <3>1. live[w] \in SnapshotOf(N)
        BY <1>0 DEF PlainOK
      <3>2. CASE Claim(w) \/ LoadFails(w)
        BY <3>2 DEF Claim, LoadFails
      <3>3. CASE StepFails(w)
        BY <3>1, <3>3, SnapshotTypes DEF StepFails
      <3>4. CASE ClaimStep(w)
        <4>1. live[w].status = "running" /\ live[w].cursor < N
              /\ saved' = [live[w] EXCEPT !.cursor = @ + 1]
          BY <1>0, <3>4 DEF ClaimStep, CallInv, PlainOK
        <4> QED
          BY <3>1, <4>1, NextCursor
      <3>5. CASE HandleStep(w)
        BY <1>0, <3>5 DEF HandleStep, CallInv
      <3> QED
        BY <1>2, <3>2, <3>3, <3>4, <3>5
    <2> QED
      BY <1>0, <2>1, <2>2, EndedParts
  <1>3. ASSUME NEW w \in Workers, LoadState(w) PROVE EndedInv'
    <2>1. /\ ended' = ended /\ event' = event /\ reply' = reply /\ saved' = saved
          /\ \/ saved.status = "completed" /\ pc' = [pc EXCEPT ![w] = "done"]
             \/ pc' = [pc EXCEPT ![w] = "running"]
      BY <1>3 DEF LoadState, Completed
    <2>2. saved.status = "completed" => ended' # "no"
      BY <2>1 DEF EndedInv
    <2> QED
      BY <1>0, <2>1, <2>2, EndedParts
  <1>4. ASSUME NEW w \in Workers, Finish(w) PROVE EndedInv'
    <2>1. live[w] \in SnapshotOf(N) /\ live[w].status \in {"running", "stopped"}
      BY <1>0, <1>4 DEF Finish, PlainOK, CallInv
    <2>2. Last(live[w]).status # "no"
      BY <2>1, SnapshotTypes
    <2>3. ended' # "no" /\ reply' = reply /\ event' = event
      BY <1>4, <2>2 DEF Finish
    <2> QED
      BY <1>0, <2>3, EndedParts
  <1>5. ASSUME NEW w \in Workers, Release(w) PROVE EndedInv'
    <2>1. /\ ended' = ended /\ event' = event /\ reply' = reply /\ saved' = saved
          /\ \/ pc[w] = "done" /\ pc' = [pc EXCEPT ![w] = "succeeded"]
             \/ pc' = [pc EXCEPT ![w] = "unprocessed"]
      BY <1>5 DEF Release
    <2> QED
      BY <1>0, <2>1, EndedParts
  <1>6. ASSUME NEW w \in Workers, Acknowledge(w) \/ DeleteFails(w) PROVE EndedInv'
    <2>1. /\ ended' = ended /\ saved' = saved /\ pc[w] = "succeeded"
          /\ \E there \in {"idle", "dead"} : pc' = [pc EXCEPT ![w] = there]
          /\ \/ reply' = reply
             \/ reply' = [reply EXCEPT ![w] = "ok"]
      BY <1>6 DEF Acknowledge, DeleteFails
    <2>2. ended' # "no"
      BY <2>1 DEF EndedInv
    <2> QED
      BY <1>0, <2>1, <2>2, EndedParts
  <1>7. ASSUME NEW w \in Workers, Forgo(w) \/ Crash(w) \/ Restart(w) PROVE EndedInv'
    <2>1. /\ ended' = ended /\ event' = event /\ saved' = saved
          /\ \E there \in {"idle", "dead"} : pc' = [pc EXCEPT ![w] = there]
          /\ \/ reply' = reply
             \/ \E r \in Replies \ {"ok"} : reply' = [reply EXCEPT ![w] = r]
      BY <1>7 DEF Forgo, Crash, Restart, Replies
    <2> QED
      BY <1>0, <2>1, EndedParts
  <1>8. CASE Resend \/ Reappear \/ Tick \/ UNCHANGED vars
    <2>1. /\ ended' = ended /\ saved' = saved /\ pc' = pc /\ reply' = reply
      BY <1>8 DEF Resend, Reappear, Tick, vars
    <2>2. \/ connector # "queue" \/ event' = event
          \/ event' = [event EXCEPT !.at = "visible"]
          \/ event' = [event EXCEPT !.left = IF @ = 0 THEN 0 ELSE @ - 1]
      <3>1. CASE Resend
        BY <3>1 DEF Resend
      <3>2. CASE Reappear
        BY <3>2 DEF Reappear
      <3>3. CASE Tick
        BY <3>3 DEF Tick
      <3>4. CASE UNCHANGED vars
        BY <3>4 DEF vars
      <3> QED
        BY <1>8, <3>1, <3>2, <3>3, <3>4
    <2>3. [event EXCEPT !.at = "visible"].at = "visible"
      BY <1>0 DEF Events
    <2>4. connector = "queue" /\ event'.at = "gone" => event.at = "gone"
      BY <1>0, <2>2, <2>3, EventTypes
    <2> QED
      BY <1>0, <2>1, <2>4, EndedParts
  <1> QED
    BY <1>1, <1>2, <1>3, <1>4, <1>5, <1>6, <1>7, <1>8 DEF Next, Call

\* An event leaves its queue, and a request is answered with 200, only once some
\* call has saved a final status: lock or no lock, whatever is delivered again,
\* crashes or fails.
THEOREM NothingIsAcknowledgedEarly == Spec => []AcknowledgedWasEnded
  <1>1. Init => EndedInv
    <2> SUFFICES ASSUME Init PROVE EndedInv
      OBVIOUS
    <2>1. /\ \A w \in Workers : pc[w] = "idle" /\ reply[w] = "none"
          /\ event.at = "visible" /\ saved.status = "created"
      BY DEF Init, Fresh
    <2> QED
      BY <2>1 DEF EndedInv
  <1>2. EndedInv => AcknowledgedWasEnded
    BY DEF EndedInv, AcknowledgedWasEnded
  <1> QED
    BY <1>1, <1>2, EndedInvNext, TypeInvariant, PTL DEF Spec

-----------------------------------------------------------------------------
(* Delivery under the lock implements SlipProgress. *)

\* The message of the call that runs, before and after a step.
LEMMA LiveMessageOf ==
  /\ (\A v \in Workers : ~InProcess(v)) => LiveMessage = Fresh
  /\ \A w \in Workers :
       InProcess(w) /\ (\A v \in Workers : InProcess(v) => v = w) => LiveMessage = live[w]
  /\ (\A v \in Workers : ~InProcess(v)') => LiveMessage' = Fresh
  /\ \A w \in Workers :
       InProcess(w)' /\ (\A v \in Workers : InProcess(v)' => v = w) => LiveMessage' = live'[w]
  <1>1. (\A v \in Workers : ~InProcess(v)) => LiveMessage = Fresh
    BY DEF LiveMessage
  <1>2. (\A v \in Workers : ~InProcess(v)') => LiveMessage' = Fresh
    BY DEF LiveMessage, Fresh
  <1>3. ASSUME NEW w \in Workers, InProcess(w), \A v \in Workers : InProcess(v) => v = w
        PROVE  LiveMessage = live[w]
    <2>1. (CHOOSE v \in Workers : InProcess(v)) = w
      BY <1>3
    <2> QED
      BY <1>3, <2>1 DEF LiveMessage
  <1>4. ASSUME NEW w \in Workers, InProcess(w)', \A v \in Workers : InProcess(v)' => v = w
        PROVE  LiveMessage' = live'[w]
    <2>1. (CHOOSE v \in Workers : InProcess(v)') = w
      BY <1>4
    <2> QED
      BY <1>4, <2>1 DEF LiveMessage
  <1> QED
    BY <1>1, <1>2, <1>3, <1>4

\* What is not a step of a call, or its end by a crash, shows nothing.
LEMMA OtherSteps ==
  ASSUME PlainOK, [Next]_vars
  PROVE  \/ \E w \in Workers : StepOfProcess(w) \/ (Crash(w) /\ InProcess(w))
         \/ /\ Aside /\ answer' = answer
            /\ \A v \in Workers : InProcess(v) => InProcess(v)'
  <1> USE DEF PlainOK, config, aux, Goto
  <1>1. ASSUME NEW w \in Workers,
               \/ Receive(w) \/ Reject(w) \/ FindLocked(w) \/ Claim(w)
               \/ LoadFails(w) \/ Acknowledge(w) \/ DeleteFails(w) \/ Forgo(w) \/ Restart(w)
        PROVE  answer' = answer /\ \A v \in Workers : InProcess(v) => InProcess(v)'
    <2>1. answer' = answer /\ ~InProcess(w) /\ \E there : pc' = [pc EXCEPT ![w] = there]
      BY <1>1 DEF Receive, Reject, FindLocked, Claim, LoadFails, Acknowledge,
                  DeleteFails, Forgo, Restart, InProcess
    <2> QED
      BY <2>1 DEF InProcess
  <1>2. ASSUME NEW w \in Workers, Release(w) \/ (Crash(w) /\ ~InProcess(w))
        PROVE  answer' = answer /\ \A v \in Workers : InProcess(v) => InProcess(v)'
    <2>1. answer' = answer /\ ~InProcess(w) /\ \E there : pc' = [pc EXCEPT ![w] = there]
      BY <1>2 DEF Release, Crash, InProcess
    <2> QED
      BY <2>1 DEF InProcess
  <1>3. ASSUME NEW w \in Workers, Accept(w)
        PROVE  answer' = answer /\ \A v \in Workers : InProcess(v) => InProcess(v)'
    BY <1>3 DEF Accept, InProcess
  <1>4. CASE Resend \/ Reappear \/ Tick \/ UNCHANGED vars
    <2>1. answer' = answer /\ pc' = pc
      BY <1>4 DEF Resend, Reappear, Tick, vars
    <2>2. \A v \in Workers : InProcess(v) => InProcess(v)'
      BY <2>1 DEF InProcess
    <2>3. Aside
      BY <1>4 DEF Resend, Reappear, Tick, vars, Aside
    <2> QED
      BY <2>1, <2>2, <2>3
  <1>5. Aside \/ \E w \in Workers : StepOfProcess(w)
    BY StepsOfCalls
  <1> QED
    BY <1>1, <1>2, <1>3, <1>4, <1>5 DEF Next, Call, StepOfProcess

\* With the lock, every step is one of SlipProgress, or shows nothing.
LEMMA StepIsTurn ==
  TypeInv /\ OnceInv /\ [Next]_vars => [locking => Turns!Next]_(Turns!vars)
  <1> DEFINE Goal == Turns!Next \/ UNCHANGED Turns!vars
  <1> SUFFICES ASSUME TypeInv, OnceInv, [Next]_vars, locking PROVE Goal
    OBVIOUS
  <1>0. /\ PlainOK /\ CallInv /\ LeaseInv
        /\ pc \in [Workers -> Places] /\ live \in [Workers -> SnapshotOf(N)]
        /\ saved \in SnapshotOf(N) /\ N \in Nat
    BY TypeParts, SnapshotTypes DEF TypeInv, PlainOK
  <1>a. \A v, w \in Workers : InProcess(v) /\ pc[w] \in Holding => v = w
    BY <1>0, OneHolder DEF InProcess, Holding
  <1>1. CASE Aside /\ answer' = answer /\ \A v \in Workers : InProcess(v) => InProcess(v)'
    <2>1. \A v \in Workers : /\ InProcess(v)' <=> InProcess(v)
                             /\ InProcess(v) => live'[v] = live[v]
      BY <1>1 DEF Aside, InProcess
    <2>2. LiveMessage' = LiveMessage
      <3>1. CASE \A v \in Workers : ~InProcess(v)
        BY <2>1, <3>1, LiveMessageOf
      <3>2. ASSUME NEW w \in Workers, InProcess(w) PROVE LiveMessage' = LiveMessage
        <4>1. \A v \in Workers : InProcess(v) => v = w
          BY <1>a, <3>2 DEF InProcess, Holding
        <4> QED
          BY <2>1, <3>2, <4>1, LiveMessageOf
      <3> QED
        BY <3>1, <3>2
    <2>3. (\E w \in Workers : InProcess(w)) <=> (\E w \in Workers : InProcess(w)')
      BY <2>1
    <2> QED
      BY <1>1, <2>2, <2>3 DEF Aside, Turns!vars
  <1>2. ASSUME NEW w \in Workers, Crash(w), InProcess(w) PROVE Goal
    <2>1. \A v \in Workers : ~InProcess(v)'
      <3>1. pc' = [pc EXCEPT ![w] = "dead"]
        BY <1>2 DEF Crash, Goto
      <3>2. \A v \in Workers : InProcess(v) => v = w
        BY <1>a, <1>2 DEF InProcess, Holding
      <3> QED
        BY <1>0, <3>1, <3>2 DEF InProcess
    <2>2. LiveMessage' = Fresh /\ answer' = "error" /\ saved' = saved
      BY <1>2, <2>1, LiveMessageOf DEF Crash
    <2> QED
      BY <1>2, <2>1, <2>2 DEF Turns!Next, Turns!GiveUp, Turns!Fresh, Fresh
  <1>3. ASSUME NEW w \in Workers, StepOfProcess(w) PROVE Goal
    <2>0. /\ pc[w] \in Holding
          /\ live[w] \in SnapshotOf(N)
      BY <1>0, <1>3, Alone
    <2>1. \A v \in Workers : InProcess(v) => v = w
      BY <1>a, <2>0
    <2>2. \A v \in Workers : InProcess(v)' => v = w
      BY <1>0, <1>3, <2>1, OtherCalls DEF InProcess
    <2>3. CASE LoadState(w)
      <3>1. \A v \in Workers : ~InProcess(v)
        BY <2>1, <2>3 DEF LoadState, InProcess
      <3>2. LiveMessage = Fresh
        BY <3>1, LiveMessageOf
      <3>3. CASE /\ Completed(saved, N) /\ pc' = [pc EXCEPT ![w] = "done"]
                 /\ saved' = saved /\ answer' = "ok"
        <4>1. \A v \in Workers : ~InProcess(v)'
          BY <1>0, <2>2, <3>3 DEF InProcess
        <4>2. LiveMessage' = Fresh
          BY <4>1, LiveMessageOf
        <4> QED
          BY <3>1, <3>2, <3>3, <4>1, <4>2
             DEF Turns!Next, Turns!Enter, Turns!Completed, Completed
      <3>4. CASE /\ ~Completed(saved, N) /\ pc' = [pc EXCEPT ![w] = "running"]
                 /\ live' = [live EXCEPT ![w] = Resumed(saved)]
                 /\ saved' = saved /\ answer' = "none"
        <4>1. InProcess(w)' /\ live'[w] = Resumed(saved)
          BY <1>0, <3>4 DEF InProcess
        <4>2. LiveMessage' = Resumed(saved)
          BY <2>2, <4>1, LiveMessageOf
        <4> QED
          BY <3>1, <3>4, <4>1, <4>2
             DEF Turns!Next, Turns!Enter, Turns!Completed, Completed, Turns!Resumed, Resumed
      <3> QED
        BY <2>3, <3>3, <3>4 DEF LoadState, Goto
    <2>4. CASE ClaimStep(w)
      <3>1. /\ pc[w] = "running" /\ live[w].cursor < N /\ pc'[w] = "handling"
            /\ live'[w] = [live[w] EXCEPT !.cursor = @ + 1] /\ saved' = live'[w] /\ answer' = answer
        BY <1>0, <2>4 DEF ClaimStep, Goto, aux
      <3>2. InProcess(w) /\ InProcess(w)' /\ live[w].status = "running"
        BY <1>0, <3>1 DEF InProcess, CallInv
      <3>3. LiveMessage = live[w] /\ LiveMessage' = live'[w]
        BY <2>1, <2>2, <3>2, LiveMessageOf
      <3>4. live'[w] \in [cursor: 0..N, status: {"running", "stopped"}]
            /\ saved' = [live'[w] EXCEPT !.status = "running"]
        <4> DEFINE m == live'[w]
        <4>1. m \in SnapshotOf(N) /\ m.status = "running"
          BY <2>0, <3>1, <3>2, NextCursor
        <4>2. saved' = m
          BY <3>1
        <4> HIDE DEF m
        <4>3. /\ m \in [cursor: 0..N, status: {"running", "stopped"}]
              /\ m = [m EXCEPT !.status = "running"]
          BY <4>1 DEF SnapshotOf
        <4> QED
          BY <4>2, <4>3 DEF m
      <3> QED
        BY <3>1, <3>2, <3>3, <3>4 DEF Turns!Next, Turns!Work
    <2>5. CASE HandleStep(w)
      <3>1. /\ pc[w] = "handling" /\ pc'[w] \in {"running", "ending"} /\ saved' = live[w]
            /\ live'[w] \in {live[w], [live[w] EXCEPT !.status = "stopped"]} /\ answer' = answer
        BY <1>0, <2>0, <2>5 DEF HandleStep, Goto
      <3>2. InProcess(w) /\ InProcess(w)' /\ live[w].status = "running"
        BY <1>0, <3>1 DEF InProcess, CallInv
      <3>3. LiveMessage = live[w] /\ LiveMessage' = live'[w]
        BY <2>1, <2>2, <3>2, LiveMessageOf
      <3>4. live'[w] \in [cursor: 0..N, status: {"running", "stopped"}]
        BY <1>0, <2>0, <3>1, <3>2 DEF SnapshotOf
      <3> QED
        BY <3>1, <3>2, <3>3, <3>4 DEF Turns!Next, Turns!Work
    <2>6. CASE StepFails(w)
      <3>1. /\ pc[w] = "handling" /\ pc'[w] = "failed" /\ saved' = BackOnStep(live[w])
            /\ answer' = "error"
        BY <1>0, <2>6 DEF StepFails, Goto
      <3>2. InProcess(w) /\ \A v \in Workers : ~InProcess(v)'
        BY <2>2, <3>1 DEF InProcess
      <3>3. LiveMessage' = Fresh
        BY <3>2, LiveMessageOf
      <3>4. saved' \in [cursor: 0..N, status: {"running", "failed", "cancelled"}]
        <4>1. live[w].cursor \in 0..N /\ live[w].cursor # 0
          BY <1>0, <2>0, <3>1 DEF CallInv, SnapshotOf
        <4>2. live[w].cursor - 1 \in 0..N
          BY <1>0, <4>1
        <4> QED
          BY <3>1, <4>2 DEF BackOnStep
      <3> QED
        BY <3>1, <3>2, <3>3, <3>4 DEF Turns!Next, Turns!GiveUp, Turns!Fresh, Fresh
    <2>7. CASE Finish(w)
      <3>1. /\ InProcess(w) /\ pc'[w] = "done" /\ saved' = Last(live[w]) /\ answer' = "ok"
            /\ MayEnd(live[w], N)
        BY <1>0, <2>7 DEF Finish, Goto, InProcess, CallInv, MayEnd
      <3>2. \A v \in Workers : ~InProcess(v)'
        BY <2>2, <3>1 DEF InProcess
      <3>3. LiveMessage = live[w] /\ LiveMessage' = Fresh
        BY <2>1, <3>1, <3>2, LiveMessageOf
      <3> QED
        BY <3>1, <3>2, <3>3
           DEF Turns!Next, Turns!Finish, Turns!Fresh, Fresh, Turns!Last, Last, Turns!MayEnd, MayEnd
    <2> QED
      BY <1>3, <2>3, <2>4, <2>5, <2>6, <2>7 DEF StepOfProcess
  <1> QED
    BY <1>0, <1>1, <1>2, <1>3, OtherSteps

\* With the lock, the workers together do what one Router does alone: for any
\* number of them, of deliveries, crashes and failures.
THEOREM WorkersTakeTurns == Spec => CallsTakeTurns
  <1> QED
    BY OnceInvariant, StepIsTurn, PTL DEF Spec, CallsTakeTurns

\* A configuration that cannot switch the lock off implements SlipProgress.
THEOREM LockedDeliveryImplementsProgress ==
  ASSUME Locking = {TRUE}
  PROVE  Spec => Turns!Spec
  <1> DEFINE Locked == locking = TRUE
  <1>1. Init => Turns!Init /\ Locked
    <2> SUFFICES ASSUME Init PROVE Turns!Init /\ Locked
      OBVIOUS
    <2>1. \A v \in Workers : ~InProcess(v)
      BY DEF Init, InProcess
    <2>2. LiveMessage = Fresh
      BY <2>1, LiveMessageOf
    <2> QED
      BY <2>1, <2>2, SnapshotTypes DEF Init, Turns!Init, Turns!Fresh, Fresh
  <1>2. TypeInv /\ Locked /\ [Next]_vars => Locked'
    BY TypeParts, StepsOfCalls DEF TypeInv, config
  <1>3. Locked => locking
    OBVIOUS
  <1> HIDE DEF Locked
  <1> QED
    BY <1>1, <1>2, <1>3, TypeInvariant, WorkersTakeTurns, PTL
       DEF Spec, CallsTakeTurns, Turns!Spec
=============================================================================
