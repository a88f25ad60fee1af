------------------------------- MODULE Router -------------------------------
(***************************************************************************)
(* The router of app/slip/slip.go: Router.Process drives one Message along *)
(* its routing slip, saving a MessageSnapshot at every step, and           *)
(* AppRuntime.processPayload (app/triggers.go) starts it again, from the   *)
(* last snapshot, whenever the event is delivered again.                   *)
(*                                                                         *)
(* Each action runs the code up to and including one call that leaves the  *)
(* goroutine: a save in the state store, or one handler attempt.  Between  *)
(* two actions the process may crash, the context may be cancelled, and a  *)
(* save may fail.  Cursors are those of the code (0 is "nothing done"),    *)
(* steps are numbered from 1: while step i runs, the live cursor is i.     *)
(***************************************************************************)
EXTENDS Integers, Sequences

CONSTANTS
  Refs,           \* step ids, handler names and jump targets; "" is "not given"
  Slips,          \* the routing slips a message may carry
  ErrorPolicies,  \* the error policies a router may be configured with
  Handlers,       \* names registered with the router
  MayHalt,        \* handlers that can return proceed = false
  Idempotency,    \* StateOptions.IdempotencyEnabled
  KeyTokens,      \* step tokens of the idempotency key template
  Faults          \* which of "crash", "cancel" and "save" can happen

StepDef == [id: Refs, name: Refs, target: Refs,       \* target: params.to
            attempts: Int, action: STRING, to: Refs]  \* StepDef.Resilience

ASSUME RefsAssumption == "" \in Refs
ASSUME SlipsAssumption == Slips \subseteq Seq(StepDef)
ASSUME PolicyAssumption == ErrorPolicies \subseteq {"stop", "continue", "skip"}
ASSUME IdempotencyAssumption == Idempotency \in BOOLEAN
ASSUME KeyTokensAssumption ==
         KeyTokens \subseteq {"step", "step_id", "step_ref", "step_index"}

VARIABLES
  slip,     \* the slip attached to the message; never changes
  policy,   \* the router's error policy; never changes
  store,    \* the last snapshot saved (the new message while there is none)
  msg,      \* the live Message of the running Process call
  pc,       \* where that call is; "idle" when none is running
  attempt,  \* attempts of the current step that have failed (handleStep)
  verdict,  \* what the handler answered
  ctx,      \* the context of the call: "live" or "cancelled"
  outcome,  \* what the last call returned: "none" yet, "ok" or "error"
  ran       \* auxiliary: successful executions of each step, 2 = more than one

vars == <<slip, policy, store, msg, pc, attempt, verdict, ctx, outcome, ran>>
config == <<slip, policy>>
local  == <<attempt, verdict>>

Positions == 1..Len(slip)

-----------------------------------------------------------------------------
(* The message and its slip. *)

StepKey(i) ==
  [t \in KeyTokens |->
     CASE t = "step"       -> slip[i].name
       [] t = "step_id"    -> slip[i].id
       [] t = "step_ref"   -> IF slip[i].id = "" THEN slip[i].name ELSE slip[i].id
       [] t = "step_index" -> i - 1]

StepKeys == {StepKey(i) : i \in Positions}

NewMessage ==
  [cursor   |-> 0,
   status   |-> "created",
   states   |-> [k \in StepKeys |-> "none"],
   history  |-> {},      \* <<step, status>> entries, their order abstracted
   errors   |-> {},      \* steps with a recorded StepError
   results  |-> {},      \* steps whose handler's output is in the payload
   jumpTo   |-> "",      \* payload.cel_jump_to
   bypassed |-> {}]      \* auxiliary: steps a forward jump passed over

MessageStatus == {"created", "running", "completed", "stopped", "failed", "cancelled"}
StepStatus == {"none", "running", "success", "stopped", "failed", "skipped", "jumped"}
HistoryStatus == {"success", "stopped", "failed", "skipped", "jumped", "idempotent_skip"}

Message ==
  [cursor: 0..Len(slip), status: MessageStatus, states: [StepKeys -> StepStatus],
   history: SUBSET (Positions \X HistoryStatus), errors: SUBSET Positions,
   results: SUBSET Positions, jumpTo: Refs, bypassed: SUBSET Positions]

Step == slip[msg.cursor]     \* the step being executed

SetCursor(c) == IF c < 0 THEN 0 ELSE IF c > Len(slip) THEN Len(slip) ELSE c

\* The step's state under its key, in message m.
StateOf(m, i) == m.states[StepKey(i)]

\* ref names step t: by id first, by handler name when no id matches.
Resolves(ref, t) ==
  /\ ref # ""
  /\ \/ /\ slip[t].id = ref
        /\ \A u \in Positions : u < t => slip[u].id # ref
     \/ /\ slip[t].name = ref
        /\ \A u \in Positions : slip[u].id # ref /\ (u < t => slip[u].name # ref)

Found(ref) == \E t \in Positions : Resolves(ref, t)

\* The steps a jump from step i to step t leaves unexecuted.
Between(i, t) == {u \in Positions : i < u /\ u < t}

Attempts(s) == IF s.attempts <= 0 THEN 1 ELSE s.attempts

-----------------------------------------------------------------------------
(* Saving and returning. *)

\* The call returns; the live message dies with it.
Return(o) ==
  /\ pc' = "idle"
  /\ outcome' = o
  /\ msg' = NewMessage
  /\ attempt' = 0
  /\ verdict' = "none"

\* saveState(ctx, m) reports an error.  Every store checks ctx.Err() before it
\* writes; a write that fails later may have taken place all the same.
SaveFails(m) ==
  \/ ctx = "cancelled" /\ store' = store
  \/ "save" \in Faults /\ store' \in {store, m}

\* saveState(ctx, m), then go on with message live at next; an error from the
\* save makes Process return it.
SaveThen(m, live, next) ==
  \/ /\ ctx = "live"
     /\ store' = m
     /\ msg' = live
     /\ pc' = next
     /\ outcome' = outcome
     /\ attempt' = 0
     /\ verdict' = "none"
  \/ SaveFails(m) /\ Return("error")

\* saveState(context.Background(), m), its error ignored, then return an error.
SaveAndAbort(m) ==
  /\ store' = m \/ ("save" \in Faults /\ store' = store)
  /\ Return("error")

\* Mutants of GiveBack: one step too far back; the cursor left past the step.
GiveBack_OneTooFar(m) == [m EXCEPT !.cursor = m.cursor - 2, !.status = "failed"]
GiveBack_KeepsCursor(m) == [m EXCEPT !.status = "failed"]

\* Process gives the current step back: the next one to run on a resume.
GiveBack(m) == [m EXCEPT !.cursor = SetCursor(m.cursor - 1), !.status = "failed"]

-----------------------------------------------------------------------------
(* The actions of Process, in program order. *)

Init ==
  /\ slip \in Slips
  /\ policy \in ErrorPolicies
  /\ store = NewMessage
  /\ msg = NewMessage
  /\ pc = "idle"
  /\ attempt = 0
  /\ verdict = "none"
  /\ ctx = "live"
  /\ outcome = "none"
  /\ ran = [i \in Positions |-> 0]

\* Mutant of AlreadyCompleted: the slip's end is taken for completion.
AlreadyCompleted_ByCursor(m) == m.cursor = Len(slip)

AlreadyCompleted(m) == m.status = "completed" /\ m.cursor = Len(slip)

\* processPayload loads the snapshot.  A completed message is returned as it
\* is; any other one enters Process, which marks it running.
Deliver ==
  /\ pc = "idle"
  /\ ctx' = "live"
  /\ \/ /\ AlreadyCompleted(store)
        /\ Return("ok")
     \/ /\ ~AlreadyCompleted(store)
        /\ pc' = "starting"
        /\ msg' = [store EXCEPT !.status = "running", !.cursor = SetCursor(@)]
        /\ outcome' = "none"
        /\ UNCHANGED local
  /\ UNCHANGED <<config, store, ran>>

SaveStart ==
  /\ pc = "starting"
  /\ SaveThen(msg, msg, "loop")
  /\ UNCHANGED <<config, ctx, ran>>

\* The top of the loop: a cancelled context ends the call, and the slip's end
\* leaves the loop.
CheckLoop ==
  /\ pc = "loop"
  /\ \/ /\ ctx = "cancelled"
        /\ SaveAndAbort([msg EXCEPT !.status = "cancelled"])
     \/ /\ ctx = "live"
        /\ pc' = IF msg.cursor < Len(slip) THEN "next" ELSE "finish"
        /\ UNCHANGED <<store, msg, outcome, local>>
  /\ UNCHANGED <<config, ctx, ran>>

\* Mutant of SaveBeforeStep: the save comes after the cursor has advanced.
SaveBeforeStep_Late ==
  /\ pc = "next"
  /\ LET m == [msg EXCEPT !.cursor = SetCursor(@ + 1)] IN SaveThen(m, m, "dispatch")
  /\ UNCHANGED <<config, ctx, ran>>

\* The snapshot saved before the step still names it as the next one; the live
\* cursor moves past it.
SaveBeforeStep ==
  /\ pc = "next"
  /\ SaveThen(msg, [msg EXCEPT !.cursor = SetCursor(@ + 1)], "dispatch")
  /\ UNCHANGED <<config, ctx, ran>>

MissingHandler ==
  /\ pc = "dispatch"
  /\ Step.name \notin Handlers
  /\ LET m == [msg EXCEPT !.errors = @ \cup {msg.cursor}] IN
     \/ policy = "stop" /\ SaveAndAbort(GiveBack(m))
     \/ policy # "stop" /\ SaveThen(m, m, "loop")
  /\ UNCHANGED <<config, ctx, ran>>

\* Mutants of AlreadyDone: any trace of the step counts; the wrong status does.
AlreadyDone_AnyState == Idempotency /\ StateOf(msg, msg.cursor) # "none"
AlreadyDone_WrongStatus == Idempotency /\ StateOf(msg, msg.cursor) = "stopped"

AlreadyDone == Idempotency /\ StateOf(msg, msg.cursor) = "success"

IdempotentSkip ==
  /\ pc = "dispatch"
  /\ Step.name \in Handlers
  /\ AlreadyDone
  /\ LET m == [msg EXCEPT !.history = @ \cup {<<msg.cursor, "idempotent_skip">>}]
     IN  SaveThen(m, m, "loop")
  /\ UNCHANGED <<config, ctx, ran>>

\* m with the current step's state set to st.
Mark(m, st) == [m EXCEPT !.states[StepKey(m.cursor)] = st]

\* m with a history entry for the current step.
Log(m, h) == [m EXCEPT !.history = @ \cup {<<m.cursor, h>>}]

\* Mutants of ClaimStep: the claim is not saved; it is saved with the cursor
\* still on the step.
ClaimStep_Unsaved ==
  /\ pc = "dispatch"
  /\ Step.name \in Handlers
  /\ ~AlreadyDone
  /\ msg' = Mark(msg, "running")
  /\ pc' = "handle"
  /\ UNCHANGED <<config, store, local, ctx, outcome, ran>>
ClaimStep_KeepsCursor ==
  /\ pc = "dispatch"
  /\ Step.name \in Handlers
  /\ ~AlreadyDone
  /\ LET m == Mark(msg, "running")
     IN  SaveThen([m EXCEPT !.cursor = SetCursor(@ - 1)], m, "handle")
  /\ UNCHANGED <<config, ctx, ran>>

\* markStepRunning, and the save that makes the claim on the step durable:
\* it stores the cursor already past the step.
ClaimStep ==
  /\ pc = "dispatch"
  /\ Step.name \in Handlers
  /\ ~AlreadyDone
  /\ LET m == Mark(msg, "running") IN SaveThen(m, m, "handle")
  /\ UNCHANGED <<config, ctx, ran>>

\* What a handler that does not fail can answer: go on, stop the workflow,
\* or, for the two cursor controllers, redirect the cursor.
Verdicts ==
  {"proceed"} \cup {v \in {"halt"} : Step.name \in MayHalt}
              \cup {v \in {"redirect"} : \/ Step.name = "jump_if"
                                         \/ Step.name = "cel" /\ Step.target # ""}

\* The handler returns without error: its output is in the live payload and
\* its effect on the outside world has happened.
HandlerSucceeds ==
  /\ pc = "handle"
  /\ pc' = "succeeded"
  /\ verdict' \in Verdicts
  /\ msg' = [msg EXCEPT !.results = @ \cup {msg.cursor},
                        !.jumpTo = IF Step.name = "cel" /\ verdict' = "redirect"
                                   THEN Step.target ELSE @]
  /\ attempt' = 0
  /\ ran' = [ran EXCEPT ![msg.cursor] = IF @ = 2 THEN 2 ELSE @ + 1]
  /\ UNCHANGED <<config, store, ctx, outcome>>

\* An attempt fails.  handleStep tries again while attempts are left, and gives
\* up at once when the context is cancelled (during the backoff, too).
HandlerFails ==
  /\ pc = "handle"
  /\ \/ /\ ctx = "live"
        /\ attempt + 1 < Attempts(Step)
        /\ attempt' = attempt + 1
        /\ pc' = pc
     \/ /\ ctx = "cancelled" \/ attempt + 1 >= Attempts(Step)
        /\ attempt' = 0
        /\ pc' = "failed"
  /\ UNCHANGED <<config, store, msg, verdict, ctx, outcome, ran>>

\* NextCursor of jump_if and of cel: whether the step asks for a jump, and to
\* which step.  cel reads payload.cel_jump_to, which only a jump made clears.
WantsJump ==
  \/ Step.name = "jump_if" /\ verdict = "redirect"
  \/ Step.name = "cel" /\ msg.jumpTo # ""

JumpRef == IF Step.name = "jump_if" THEN Step.target ELSE msg.jumpTo

\* Mutant of JumpTarget: jumps may go backwards.
JumpTarget_AnyStep(t) == Resolves(JumpRef, t)

\* The only target a cursor controller accepts is a later step.
JumpTarget(t) == Resolves(JumpRef, t) /\ t > msg.cursor

\* m once the cursor has been moved to step t, the next one to run.
MoveTo(m, t) ==
  [m EXCEPT !.cursor = SetCursor(t - 1), !.bypassed = @ \cup Between(m.cursor, t)]

\* Mutants of Settled: the step's state is not updated; the snapshot is built
\* from the last one stored, without the handler's output.
Settled_NoState ==
  LET st == IF verdict = "halt" THEN "stopped" ELSE "success" IN Log(msg, st)
Settled_FromStored ==
  LET st == IF verdict = "halt" THEN "stopped" ELSE "success"
  IN  Log(Mark(store, st), st)

\* The step is over without error: history, step state, then the save, after
\* which a proceed = false leaves the loop as "stopped".
Settled ==
  LET st == IF verdict = "halt" THEN "stopped" ELSE "success"
  IN  Log(Mark(msg, st), st)

SaveSettled(m) ==
  IF verdict = "halt"
  THEN SaveThen(m, [m EXCEPT !.status = "stopped"], "finish")
  ELSE SaveThen(m, m, "loop")

SettleStep ==
  /\ pc = "succeeded"
  /\ \/ /\ ~WantsJump
        /\ SaveSettled(Settled)
     \/ /\ WantsJump
        /\ \E t \in Positions :
             /\ JumpTarget(t)
             /\ SaveSettled([MoveTo(Settled, t) EXCEPT
                               !.jumpTo = IF Step.name = "cel" THEN "" ELSE @])
  /\ UNCHANGED <<config, ctx, ran>>

\* NextCursor fails: the history keeps the step's success, its state does not.
RejectJump ==
  /\ pc = "succeeded"
  /\ WantsJump
  /\ ~\E t \in Positions : JumpTarget(t)
  /\ LET m == [Mark(Settled, "failed") EXCEPT !.errors = @ \cup {msg.cursor}] IN
     \/ policy = "stop" /\ SaveAndAbort(GiveBack(m))
     \/ policy # "stop" /\ SaveSettled(m)
  /\ UNCHANGED <<config, ctx, ran>>

\* The message once handleStep has given up on the current step.
Failed == [Mark(msg, "failed") EXCEPT !.errors = @ \cup {msg.cursor}]

Default == Step.action \in {"", "default"}

\* StopOnError, on_failure: stop, a jump to a step that does not exist, and an
\* action that does not exist all give the step back.
StopOnFailure ==
  /\ pc = "failed"
  /\ \/ Default /\ policy = "stop"
     \/ Step.action = "jump" /\ ~Found(Step.to)
     \/ Step.action \notin {"", "default", "continue", "skip", "jump"}
  /\ SaveAndAbort(GiveBack(Failed))
  /\ UNCHANGED <<config, ctx, ran>>

ContinueOnFailure ==
  /\ pc = "failed"
  /\ (Default /\ policy = "continue") \/ Step.action = "continue"
  /\ LET m == Log(Failed, "failed") IN SaveThen(m, m, "loop")
  /\ UNCHANGED <<config, ctx, ran>>

\* SkipOnError leaves the step's state "failed", on_failure: skip does not.
SkipOnFailure ==
  /\ pc = "failed"
  /\ (Default /\ policy = "skip") \/ Step.action = "skip"
  /\ LET f == Log(Failed, "skipped")
         m == IF Step.action = "skip" THEN Mark(f, "skipped") ELSE f
     IN  SaveThen(m, m, "loop")
  /\ UNCHANGED <<config, ctx, ran>>

\* on_failure: jump goes to any step of the slip, earlier ones included.
JumpOnFailure ==
  /\ pc = "failed"
  /\ Step.action = "jump"
  /\ \E t \in Positions :
       /\ Resolves(Step.to, t)
       /\ LET m == MoveTo(Mark(Log(Failed, "jumped"), "jumped"), t)
          IN  SaveThen(m, m, "loop")
  /\ UNCHANGED <<config, ctx, ran>>

\* Mutant of Finish: the error of the last save is not returned.
Finish_IgnoresSaveError ==
  /\ pc = "finish"
  /\ LET m == IF msg.status = "running" THEN [msg EXCEPT !.status = "completed"] ELSE msg
     IN  (ctx = "live" /\ store' = m) \/ SaveFails(m)
  /\ Return("ok")
  /\ UNCHANGED <<config, ctx, ran>>

\* After the loop: a running message is completed; the last save decides what
\* Process returns.
Finish ==
  /\ pc = "finish"
  /\ LET m == IF msg.status = "running" THEN [msg EXCEPT !.status = "completed"] ELSE msg
     IN  \/ ctx = "live" /\ store' = m /\ Return("ok")
         \/ SaveFails(m) /\ Return("error")
  /\ UNCHANGED <<config, ctx, ran>>

\* The process dies: only the store is left.
Crash ==
  /\ "crash" \in Faults
  /\ pc # "idle"
  /\ Return("error")
  /\ UNCHANGED <<config, store, ctx, ran>>

\* The caller's context is cancelled or times out.
Cancel ==
  /\ "cancel" \in Faults
  /\ pc # "idle"
  /\ ctx = "live"
  /\ ctx' = "cancelled"
  /\ UNCHANGED <<config, store, msg, pc, local, outcome, ran>>

Progress ==
  \/ SaveStart \/ CheckLoop \/ SaveBeforeStep
  \/ MissingHandler \/ IdempotentSkip \/ ClaimStep
  \/ HandlerSucceeds \/ HandlerFails
  \/ SettleStep \/ RejectJump
  \/ StopOnFailure \/ ContinueOnFailure \/ SkipOnFailure \/ JumpOnFailure
  \/ Finish

Next == Deliver \/ Progress \/ Crash \/ Cancel

Spec == Init /\ [][Next]_vars

\* Process is one goroutine that never waits for another, and handlers return.
FairSpec == Spec /\ WF_vars(Progress)

-----------------------------------------------------------------------------
(* What the router promises. *)

\* Every variable stays in its type; the cursors stay within the slip
\* (setCursor's clamp, and the arithmetic on cursors around it).
TypeOK ==
  /\ slip \in Slips
  /\ policy \in ErrorPolicies
  /\ store \in Message
  /\ msg \in Message
  /\ pc \in {"idle", "starting", "loop", "next", "dispatch", "handle",
             "succeeded", "failed", "finish"}
  /\ attempt \in Nat
  /\ verdict \in {"none", "proceed", "halt", "redirect"}
  /\ ctx \in {"live", "cancelled"}
  /\ outcome \in {"none", "ok", "error"}
  /\ ran \in [Positions -> 0..2]

\* Step i left a trace in m: a step state, an error, or a jump over it.
Accounted(m, i) ==
  i \in m.bypassed \/ i \in m.errors \/ StateOf(m, i) # "none"

\* The stored cursor never runs ahead of the execution: whatever crashes,
\* cancellations, failed saves and redeliveries happen, every step behind it
\* was at least claimed, failed for want of a handler, or was jumped over.
NoStepLeftBehind ==
  \A i \in Positions : i <= store.cursor => Accounted(store, i)

\* README.md: "Em erro com StopOnError, o cursor volta para a etapa que
\* falhou".  On every path that stores "failed" the next step to run is the
\* one that failed, and the snapshot says so.
FailedPointsAtFailedStep ==
  store.status = "failed" =>
    LET next == store.cursor + 1 IN
    /\ next \in Positions
    /\ next \in store.errors
    /\ slip[next].name \in Handlers => StateOf(store, next) = "failed"

CursorController(i) == slip[i].name \in {"jump_if", "cel"}

NoBackwardFailureJump ==
  \A i, t \in Positions : slip[i].action = "jump" /\ Resolves(slip[i].to, t) => i < t

\* No step takes effect twice, even without idempotency and however often the
\* event is delivered or the process dies, as long as no on_failure jump goes
\* backwards.  (jump_if and cel only decide: a rejected jump repeats them.)
AtMostOneEffect ==
  NoBackwardFailureJump =>
    \A i \in Positions : CursorController(i) \/ ran[i] <= 1

\* A handler takes effect only under a durable claim: the store already has
\* the cursor past the step and the step marked running.
ClaimBeforeEffect ==
  [][\A i \in Positions : ran'[i] # ran[i] =>
       store.cursor = i /\ StateOf(store, i) = "running"]_vars

\* The stored cursor moves back only to retry the step that failed, or because
\* that step's on_failure policy jumped: jump_if and cel cannot make a loop.
CursorRewindsOnlyOnFailure ==
  [][store'.cursor < store.cursor =>
       \/ store'.status = "failed" /\ store'.cursor = store.cursor - 1
       \/ <<store.cursor, "jumped">> \in store'.history]_vars

\* Process returns nil (the event is then acknowledged) only once a final
\* status is in the store, and "completed" only with the whole slip behind.
AcknowledgedIsDurable ==
  /\ outcome = "ok" => store.status \in {"completed", "stopped"}
  /\ store.status = "completed" => store.cursor = Len(slip)

DistinctKeys == \A i, j \in Positions : StepKey(i) = StepKey(j) => i = j

\* A step is skipped as idempotent only if its own earlier success, and with it
\* its output, is part of the same snapshot.
SkipOnlyAfterOwnSuccess ==
  DistinctKeys =>
    \A i \in Positions : <<i, "idempotent_skip">> \in store.history =>
      <<i, "success">> \in store.history /\ i \in store.results

\* With idempotency on, a step stored as successful is never executed again and
\* never loses that state, backward jumps included.
SuccessIsFinal ==
  [][\A i \in Positions : Idempotency /\ StateOf(store, i) = "success" =>
       ran'[i] = ran[i] /\ StateOf(store', i) = "success"]_vars

\* "State store permite retomar do cursor salvo": a completed message has no
\* step that was begun and never brought to an outcome.
CompletedMeansSettled ==
  store.status = "completed" =>
    \A i \in Positions : StateOf(store, i) # "running"

\* The completed message holds the output of every step that took effect.
CompletedKeepsResults ==
  store.status = "completed" =>
    \A i \in Positions : ran[i] > 0 => i \in store.results

\* Whatever the slip, the policy and the faults, the calls of Process behave as
\* SlipProgress says: a completed message is never touched again, "completed" is
\* saved only at the slip's end, and an answer tells the truth about the store.
ProgressOf(m) == [cursor |-> m.cursor, status |-> m.status]

Abstract ==
  INSTANCE SlipProgress WITH
    size <- Len(slip), saved <- ProgressOf(store), live <- ProgressOf(msg),
    active <- pc # "idle", answer <- outcome

ImplementsProgress == Abstract!Spec

\* Process always returns, unless on_failure jumps can go backwards.
ProcessReturns == (NoBackwardFailureJump /\ pc # "idle") ~> (pc = "idle")
=============================================================================
