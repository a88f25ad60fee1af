------------------------------ MODULE Delivery ------------------------------
(***************************************************************************)
(* One event from its connector to its acknowledgement: the trigger loops  *)
(* of app/triggers.go (runREST, runKafka, runSQS, runSNS), processPayload  *)
(* in each worker, the processing lock, and the one snapshot they share.   *)
(*                                                                         *)
(* Every worker is a process of its own with a ProcessingLock owner of its *)
(* own.  The slip is run in order, without jumps (Router has those), with  *)
(* the saves of Router.Process that move the snapshot: the claim of a step *)
(* before its handler runs, its outcome, and the final status.             *)
(***************************************************************************)
EXTENDS Snapshots

CONSTANTS
  Workers,      \* the processes that serve the connector
  Nobody,       \* no worker; the owner of a lock that does not exist
  Connectors,   \* of "rest", "async" (rest in async mode), "kafka", "queue"
  Locking,      \* the values of processing_lock.enabled
  N,            \* steps of the slip
  TTL,          \* processing_lock.ttl_seconds
  Visibility,   \* the visibility timeout of the queue, in seconds
  MaxFaults,    \* bound: crashes, failures, lost answers, early redeliveries
  MaxSends      \* bound: how often the sender sends the event

ASSUME WorkersAssumption == Nobody \notin Workers
ASSUME BoundsAssumption ==
         /\ N \in Nat \ {0} /\ TTL \in Nat \ {0} /\ Visibility \in Nat \ {0}
         /\ MaxFaults \in Nat /\ MaxSends \in Nat \ {0}

VARIABLES
  connector, locking,  \* the configuration; never changes
  decodable,           \* whether the event's body is a JSON object; never changes
  event,               \* the event at its connector
  sends,               \* how often it has been sent
  pc,                  \* where each worker is
  live,                \* the message of each worker's call
  reply,               \* the last HTTP answer of each worker
  saved,               \* the snapshot in the store
  lock, work, lease,   \* the processing lock, see ProcessingLock
  ran,                 \* auxiliary: how often each step has taken effect
  ended,               \* auxiliary: the first final status saved, or "no"
  answer,              \* auxiliary: what the last call of Process has returned
  faults               \* auxiliary: the faults so far

config == <<connector, locking, decodable>>
locked == <<lock, work, lease>>
vars == <<config, event, sends, pc, live, reply, saved, locked, ran, ended, answer, faults>>
aux == <<ran, ended, answer>>

Lock == INSTANCE ProcessingLock WITH
          Owners <- Workers, OwnerOf <- [w \in Workers |-> w],
          Backend <- "dynamodb", Faults <- {"crash"}

Gone == [at |-> "gone", by |-> Nobody, left |-> 0]

-----------------------------------------------------------------------------
(* Receiving an event. *)

Init ==
  /\ connector \in Connectors
  /\ locking \in Locking
  /\ decodable \in BOOLEAN
  /\ event = [at |-> "visible", by |-> Nobody, left |-> 0]
  /\ sends = 1
  /\ pc = [w \in Workers |-> "idle"]
  /\ live = [w \in Workers |-> Fresh]
  /\ reply = [w \in Workers |-> "none"]
  /\ saved = Fresh
  /\ Lock!Init
  /\ ran = [i \in 1..N |-> 0]
  /\ ended = "no"
  /\ answer = "none"
  /\ faults = 0

Fault == faults < MaxFaults /\ faults' = faults + 1

\* Worker w is between the start of its call of Process and its answer.
InProcess(w) == pc[w] \in {"running", "handling", "ending"}

Goto(w, there) == pc' = [pc EXCEPT ![w] = there]
Reply(w, r) == reply' = [reply EXCEPT ![w] = r]

\* Mutant of Receive: the queue's event is deleted as it is received.
Receive_DeletesFirst(w) ==
  /\ pc[w] = "idle"
  /\ event.at = "visible"
  /\ event' = Gone
  /\ Goto(w, "received")
  /\ Reply(w, "none")
  /\ UNCHANGED <<config, sends, live, saved, locked, aux, faults>>

\* A queue hides a received event until it is deleted or its visibility
\* timeout ends; Kafka's ReadMessage commits its offset, a request is taken.
Receive(w) ==
  /\ pc[w] = "idle"
  /\ event.at = "visible"
  /\ event' = IF connector = "queue"
              THEN [at |-> "hidden", by |-> w, left |-> Visibility] ELSE Gone
  /\ Goto(w, "received")
  /\ Reply(w, "none")
  /\ UNCHANGED <<config, sends, live, saved, locked, aux, faults>>

\* The body does not decode: answered with 400, skipped, or left in the queue.
Reject(w) ==
  /\ pc[w] = "received"
  /\ ~decodable
  /\ Goto(w, "idle")
  /\ Reply(w, IF connector \in {"rest", "async"} THEN "bad request" ELSE "none")
  /\ UNCHANGED <<config, event, sends, live, saved, locked, aux, faults>>

\* In async mode the request is answered while its goroutine processes it.
Accept(w) ==
  /\ pc[w] # "idle" /\ pc[w] # "dead"
  /\ decodable
  /\ connector = "async"
  /\ reply[w] = "none"
  /\ Reply(w, "accepted")
  /\ UNCHANGED <<config, event, sends, pc, live, saved, locked, aux, faults>>

-----------------------------------------------------------------------------
(* processPayload. *)

\* Mutant of Claim: whether the lock was acquired is not looked at.
Claim_IgnoresAnswer(w) ==
  /\ pc[w] = "received"
  /\ decodable
  /\ \/ locking /\ Lock!TryAcquire(w) /\ lease'[w] = TTL
     \/ ~(locking /\ Lock!Free) /\ UNCHANGED locked
  /\ Goto(w, "claimed")
  /\ UNCHANGED <<config, event, sends, live, reply, saved, aux, faults>>

\* A claim of the lock is granted; it runs for the whole ttl from now on.
Claim(w) ==
  /\ pc[w] = "received"
  /\ decodable
  /\ \/ locking /\ Lock!TryAcquire(w) /\ lease'[w] = TTL
     \/ ~locking /\ UNCHANGED locked
  /\ Goto(w, "claimed")
  /\ UNCHANGED <<config, event, sends, live, reply, saved, aux, faults>>

\* ErrProcessingLocked: a conflict for a request, logged for all others.
FindLocked(w) ==
  /\ pc[w] = "received"
  /\ decodable
  /\ locking
  /\ ~Lock!Free
  /\ Goto(w, "idle")
  /\ IF connector = "rest" THEN Reply(w, "conflict") ELSE UNCHANGED reply
  /\ UNCHANGED <<config, event, sends, live, saved, locked, aux, faults>>

\* Mutant of LoadState: a completed message is processed again from its start.
LoadState_FromStart(w) ==
  /\ pc[w] = "claimed"
  /\ Goto(w, "running")
  /\ live' = [live EXCEPT ![w] = Resumed(IF Completed(saved, N) THEN Fresh ELSE saved)]
  /\ answer' = "none"
  /\ UNCHANGED <<config, event, sends, reply, saved, locked, ran, ended, faults>>

\* The snapshot is loaded; a completed one is returned without processing.
LoadState(w) ==
  /\ pc[w] = "claimed"
  /\ IF Completed(saved, N)
     THEN Goto(w, "done") /\ answer' = "ok" /\ UNCHANGED live
     ELSE /\ Goto(w, "running") /\ answer' = "none"
          /\ live' = [live EXCEPT ![w] = Resumed(saved)]
  /\ UNCHANGED <<config, event, sends, reply, saved, locked, ran, ended, faults>>

\* The snapshot cannot be loaded, or the claim itself fails.
LoadFails(w) ==
  /\ pc[w] \in {"received", "claimed"}
  /\ decodable
  /\ Fault
  /\ Goto(w, "failed")
  /\ UNCHANGED <<config, event, sends, live, reply, saved, locked, aux>>

\* Process saves the claim on the next step: the cursor is past it.
ClaimStep(w) ==
  /\ pc[w] = "running"
  /\ live[w].cursor < N
  /\ live' = [live EXCEPT ![w].cursor = @ + 1]
  /\ saved' = live'[w]
  /\ Goto(w, "handling")
  /\ UNCHANGED <<config, event, sends, reply, locked, aux, faults>>

\* The handler takes effect; its step may be the one that stops the workflow.
HandleStep(w) ==
  /\ pc[w] = "handling"
  /\ ran' = [ran EXCEPT ![live[w].cursor] = IF @ = 2 THEN 2 ELSE @ + 1]
  /\ saved' = live[w]
  /\ \/ live' = live /\ Goto(w, "running")
     \/ live' = [live EXCEPT ![w].status = "stopped"] /\ Goto(w, "ending")
  /\ UNCHANGED <<config, event, sends, reply, locked, ended, answer, faults>>

\* The handler fails and the policy is to stop: the step is given back.
StepFails(w) ==
  /\ pc[w] = "handling"
  /\ Fault
  /\ saved' = BackOnStep(live[w])
  /\ answer' = "error"
  /\ Goto(w, "failed")
  /\ UNCHANGED <<config, event, sends, live, reply, locked, ran, ended>>

\* Mutant of Finish: a stopped message is returned before the last save.
Finish_StoppedUnsaved(w) ==
  /\ pc[w] = "ending" \/ (pc[w] = "running" /\ live[w].cursor = N)
  /\ saved' = IF pc[w] = "ending" THEN saved ELSE Last(live[w])
  /\ ended' = IF ended = "no" /\ pc[w] # "ending" THEN saved'.status ELSE ended
  /\ answer' = "ok"
  /\ Goto(w, "done")
  /\ UNCHANGED <<config, event, sends, live, reply, locked, ran, faults>>

\* Process returns nil once the final status is saved.
Finish(w) ==
  /\ pc[w] = "ending" \/ (pc[w] = "running" /\ live[w].cursor = N)
  /\ saved' = Last(live[w])
  /\ ended' = IF ended = "no" THEN saved'.status ELSE ended
  /\ answer' = "ok"
  /\ Goto(w, "done")
  /\ UNCHANGED <<config, event, sends, live, reply, locked, ran, faults>>

-----------------------------------------------------------------------------
(* Answering. *)

\* Mutant of Release: the lease is given back only when there was no error.
Release_OnSuccess(w) ==
  /\ pc[w] \in {"done", "failed"}
  /\ IF work[w] = "working" /\ pc[w] = "done" THEN Lock!Release(w) ELSE UNCHANGED locked
  /\ Goto(w, IF pc[w] = "done" THEN "succeeded" ELSE "unprocessed")
  /\ live' = [live EXCEPT ![w] = Fresh]
  /\ UNCHANGED <<config, event, sends, reply, saved, aux, faults>>

\* processPayload's deferred Release, then its return with or without error.
Release(w) ==
  /\ pc[w] \in {"done", "failed"}
  /\ IF work[w] = "working" THEN Lock!Release(w) ELSE UNCHANGED locked
  /\ Goto(w, IF pc[w] = "done" THEN "succeeded" ELSE "unprocessed")
  /\ live' = [live EXCEPT ![w] = Fresh]
  /\ UNCHANGED <<config, event, sends, reply, saved, aux, faults>>

\* The event is acknowledged.  A queue may ignore the receipt handle of a
\* delivery that is not the last one.
Acknowledge(w) ==
  /\ pc[w] = "succeeded"
  /\ \/ connector # "queue" /\ event' = event
     \/ connector = "queue" /\ event' = Gone
     \/ connector = "queue" /\ event.by # w /\ event' = event
  /\ Goto(w, "idle")
  /\ IF connector = "rest" THEN Reply(w, "ok") ELSE UNCHANGED reply
  /\ UNCHANGED <<config, sends, live, saved, locked, aux, faults>>

\* DeleteMessage fails: runSQS and runSNS return the error, and the process ends.
DeleteFails(w) ==
  /\ pc[w] = "succeeded"
  /\ connector = "queue"
  /\ Fault
  /\ event' \in {event, Gone}
  /\ Goto(w, "dead")
  /\ UNCHANGED <<config, sends, live, reply, saved, locked, aux>>

\* Mutant of Forgo: a message that failed is deleted as well.
Forgo_Deletes(w) ==
  /\ pc[w] = "unprocessed"
  /\ event' = IF connector = "queue" THEN Gone ELSE event
  /\ Goto(w, "idle")
  /\ IF connector = "rest" THEN Reply(w, "ok") ELSE UNCHANGED reply
  /\ UNCHANGED <<config, sends, live, saved, locked, aux, faults>>

\* Not processed: the error is logged, a request is told of it (202 with the
\* error, 500 when the message was not even loaded), and a queue's event is left
\* to its visibility timeout.
Forgo(w) ==
  /\ pc[w] = "unprocessed"
  /\ Goto(w, "idle")
  /\ IF connector = "rest" THEN Reply(w, "not ok") ELSE UNCHANGED reply
  /\ UNCHANGED <<config, event, sends, live, saved, locked, aux, faults>>

-----------------------------------------------------------------------------
(* Processes, senders and time. *)

\* A process dies, at any point; its lock stays.
Crash(w) ==
  /\ pc[w] \notin {"idle", "dead"}
  /\ Fault
  /\ Goto(w, "dead")
  /\ live' = [live EXCEPT ![w] = Fresh]
  /\ Lock!Crash({w})
  /\ answer' = IF InProcess(w) THEN "error" ELSE answer
  /\ UNCHANGED <<config, event, sends, reply, saved, ran, ended>>

\* The orchestrator starts a new process in the place of one that ended.
Restart(w) ==
  /\ pc[w] = "dead"
  /\ Goto(w, "idle")
  /\ Reply(w, "none")
  /\ UNCHANGED <<config, event, sends, live, saved, locked, aux, faults>>

\* The sender of a request or of a Kafka record sends it again.
Resend ==
  /\ connector # "queue"
  /\ event.at = "gone"
  /\ sends < MaxSends
  /\ sends' = sends + 1
  /\ event' = [Gone EXCEPT !.at = "visible"]
  /\ UNCHANGED <<config, pc, live, reply, saved, locked, aux, faults>>

Busy(w) == w \in Workers /\ pc[w] \notin {"idle", "dead"}

\* The visibility timeout ends, in rare cases before the event is processed.
Reappear ==
  /\ event.at = "hidden"
  /\ event.left = 0
  /\ IF Busy(event.by) THEN Fault ELSE UNCHANGED faults
  /\ event' = [event EXCEPT !.at = "visible"]
  /\ UNCHANGED <<config, sends, pc, live, reply, saved, locked, aux>>

\* A second passes.  Calls are assumed to end within their leases.
Tick ==
  /\ \A w \in Workers : work[w] = "working" => ~Lock!Expired(lease[w] - 1)
  /\ Lock!Tick
  /\ event' = [event EXCEPT !.left = IF @ = 0 THEN 0 ELSE @ - 1]
  /\ UNCHANGED <<config, sends, pc, live, reply, saved, aux, faults>>

Call(w) ==
  \/ Reject(w) \/ Accept(w) \/ Claim(w) \/ FindLocked(w) \/ LoadState(w) \/ LoadFails(w)
  \/ ClaimStep(w) \/ HandleStep(w) \/ StepFails(w) \/ Finish(w)
  \/ Release(w) \/ Acknowledge(w) \/ DeleteFails(w) \/ Forgo(w)

Next ==
  \/ \E w \in Workers : Receive(w) \/ Call(w) \/ Crash(w) \/ Restart(w)
  \/ Resend
  \/ Reappear
  \/ Tick

Spec == Init /\ [][Next]_vars

\* Consumers poll, calls go on, ended processes are restarted, time passes, and
\* a queue makes a hidden event visible again.
FairSpec ==
  /\ Spec
  /\ WF_vars(\E w \in Workers : Receive(w))
  /\ \A w \in Workers : WF_vars(Call(w)) /\ WF_vars(Restart(w))
  /\ WF_vars(Reappear)
  /\ WF_vars(Tick)

-----------------------------------------------------------------------------
(* What delivery promises. *)

\* Every variable stays in its type; only the holder of the lock is in a call.
TypeOK ==
  /\ connector \in Connectors
  /\ locking \in Locking
  /\ decodable \in BOOLEAN
  /\ event \in [at: {"visible", "hidden", "gone"}, by: Workers \cup {Nobody},
                left: 0..Visibility]
  /\ sends \in 1..MaxSends
  /\ pc \in [Workers -> {"idle", "received", "claimed", "running", "handling", "ending",
                         "done", "failed", "succeeded", "unprocessed", "dead"}]
  /\ live \in [Workers -> SnapshotOf(N)]
  /\ reply \in [Workers -> {"none", "bad request", "accepted", "conflict", "ok", "not ok"}]
  /\ saved \in SnapshotOf(N)
  /\ Lock!TypeOK
  /\ ran \in [1..N -> 0..2]
  /\ ended \in {"no", "completed", "stopped"}
  /\ answer \in {"none", "ok", "error"}
  /\ faults \in 0..MaxFaults
  /\ \A w \in Workers : work[w] = "working" =>
       locking /\ pc[w] \in {"claimed", "running", "handling", "ending", "done", "failed"}

\* "Apenas uma instancia processa o message_id por vez. (...) redeliveries de
\* fila e chamadas REST duplicadas nao repetem integracoes externas": with the
\* lock, no step takes effect twice, whatever workers, crashes and redeliveries.
NoStepRepeated == locking => \A i \in 1..N : ran[i] <= 1

\* The message of the call that runs, if one does.
LiveMessage ==
  IF \E w \in Workers : InProcess(w) THEN live[CHOOSE w \in Workers : InProcess(w)] ELSE Fresh

Turns ==
  INSTANCE SlipProgress WITH
    size <- N, live <- LiveMessage, active <- \E w \in Workers : InProcess(w)

\* With the lock, the workers together do what one Router does alone (Router
\* implements SlipProgress, too): calls of Process follow one another, each
\* starts from what the last one left, crashed or not, and nobody touches the
\* snapshot of a completed message again.
CallsTakeTurns == [][locking => Turns!Next]_(Turns!vars)

\* An event leaves its queue, and a request is answered with 200, only once some
\* call has carried the message to a final status: none is lost on the way, not
\* even without the lock.
AcknowledgedWasEnded ==
  /\ connector = "queue" /\ event.at = "gone" => ended # "no"
  /\ \A w \in Workers : reply[w] = "ok" => ended # "no"

\* "Interrompe graciosamente o workflow quando uma condicao nao e atendida": once a
\* step has stopped the message, no later delivery of its event runs a step.
GateHolds == [][ended = "stopped" => ran' = ran]_vars

\* Each live call knows what is in the store: nobody else has moved the snapshot
\* since it loaded or saved it.
NoStaleCall ==
  locking =>
    \A w \in Workers : pc[w] \in {"running", "handling"} => live[w].cursor = saved.cursor

\* A queue's event that can be decoded is eventually processed and deleted,
\* whatever crashes, failures, locks left behind and failing deletions.
QueueIsDrained ==
  (connector = "queue" /\ locking /\ decodable) ~> (event.at = "gone" /\ ended # "no")

\* "A chamada REST retorna 202 Accepted (...) enquanto o processamento segue em
\* segundo plano": without faults, what was accepted is processed.
AcceptedIsProcessed ==
  \A w \in Workers : (reply[w] = "accepted" /\ locking) ~> (ended # "no" \/ faults > 0)
=============================================================================
