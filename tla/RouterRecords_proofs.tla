------------------------ MODULE RouterRecords_proofs ------------------------
(***************************************************************************)
(* What the stored messages of Router can be trusted to say: the position  *)
(* at which a later call resumes, the step states, the history and the     *)
(* payload, and the cursor and status, by which Router implements          *)
(* SlipProgress; for every set of slips, error policy, handler registry,   *)
(* key template and combination of faults.                                 *)
(***************************************************************************)
EXTENDS Router_proofs

-----------------------------------------------------------------------------
(* The messages a step can end with, by name, and what is in them. *)

Outcome == IF verdict = "halt" THEN "stopped" ELSE "success"

Missed == [msg EXCEPT !.errors = @ \cup {msg.cursor}]

Repeated == [msg EXCEPT !.history = @ \cup {<<msg.cursor, "idempotent_skip">>}]

Redirected(t) ==
  [MoveTo(Settled, t) EXCEPT !.jumpTo = IF Step.name = "cel" THEN "" ELSE @]

Rejected == [Mark(Settled, "failed") EXCEPT !.errors = @ \cup {msg.cursor}]

Continued == Log(Failed, "failed")

SkippedOver ==
  LET f == Log(Failed, "skipped")
  IN  IF Step.action = "skip" THEN Mark(f, "skipped") ELSE f

JumpedTo(t) == MoveTo(Mark(Log(Failed, "jumped"), "jumped"), t)

\* n is m with the current step's state set to st, its cursor and status kept.
Marked(m, n, st) ==
  /\ n \in Message
  /\ n.cursor = m.cursor
  /\ n.status = m.status
  /\ n.states = [m.states EXCEPT ![StepKey(m.cursor)] = st]

\* Nothing that a step records is ever taken back.
Grows(m, n) ==
  /\ m.history \subseteq n.history
  /\ m.errors \subseteq n.errors
  /\ m.results \subseteq n.results
  /\ m.bypassed \subseteq n.bypassed

\* The last of two marks of a step is the one that counts.
LEMMA LastMarkCounts ==
  ASSUME NEW m \in Message, NEW a, NEW b, NEW n, Marked(m, n, a),
         NEW o, Marked(n, o, b)
  PROVE  Marked(m, o, b)
  <1>1. m.states \in [StepKeys -> StepStatus]
    BY DEF Message
  <1>2. [[m.states EXCEPT ![StepKey(m.cursor)] = a] EXCEPT ![StepKey(m.cursor)] = b]
          = [m.states EXCEPT ![StepKey(m.cursor)] = b]
    BY <1>1
  <1> QED
    BY <1>2 DEF Marked

\* Mark changes one step state.
LEMMA MarkFields ==
  ASSUME NEW m \in Message, NEW st \in StepStatus
  PROVE  /\ Marked(m, Mark(m, st), st) /\ Grows(m, Mark(m, st))
         /\ Mark(m, st).history = m.history
         /\ Mark(m, st).errors = m.errors
         /\ Mark(m, st).results = m.results
  BY MarkType DEF Mark, Message, Marked, Grows

\* Log adds one history entry.
LEMMA LogFields ==
  ASSUME NEW m \in Message, m.cursor \in Positions, NEW h \in HistoryStatus
  PROVE  /\ Log(m, h) \in Message
         /\ Log(m, h).cursor = m.cursor
         /\ Log(m, h).status = m.status
         /\ Log(m, h).states = m.states
         /\ Log(m, h).history = m.history \cup {<<m.cursor, h>>}
         /\ Log(m, h).errors = m.errors
         /\ Log(m, h).results = m.results
         /\ Log(m, h).bypassed = m.bypassed
  BY LogType DEF Log, Message

\* MoveTo moves the cursor, and notes the steps it passes over.
LEMMA MoveToFields ==
  ASSUME slip \in Slips, NEW m \in Message, NEW t \in Positions
  PROVE  /\ MoveTo(m, t) \in Message
         /\ MoveTo(m, t).cursor = t - 1
         /\ MoveTo(m, t).status = m.status
         /\ MoveTo(m, t).states = m.states
         /\ MoveTo(m, t).history = m.history
         /\ MoveTo(m, t).errors = m.errors
         /\ MoveTo(m, t).results = m.results
         /\ MoveTo(m, t).bypassed = m.bypassed \cup Between(m.cursor, t)
  BY MoveToType DEF MoveTo, Message

\* GiveBack sets the cursor before the current step.
LEMMA GiveBackFields ==
  ASSUME slip \in Slips, NEW m \in Message, m.cursor \in Positions
  PROVE  /\ GiveBack(m) \in Message
         /\ GiveBack(m).cursor = m.cursor - 1
         /\ GiveBack(m).status = "failed"
         /\ GiveBack(m).states = m.states
         /\ Grows(m, GiveBack(m))
         /\ GiveBack(m).history = m.history
         /\ GiveBack(m).errors = m.errors
         /\ GiveBack(m).results = m.results
  <1>1. m.cursor - 1 \in 0..Len(slip)
    BY SlipType DEF Positions
  <1>2. SetCursor(m.cursor - 1) = m.cursor - 1
    BY <1>1, SetCursorType
  <1> QED
    BY <1>2, GiveBackType DEF GiveBack, Message, Grows

\* What is in the message after a step without error.
LEMMA SettledFields ==
  ASSUME TypeInv, InStep
  PROVE  /\ Outcome \in StepStatus /\ Outcome \in {"success", "stopped"}
         /\ Marked(msg, Settled, Outcome) /\ Grows(msg, Settled)
         /\ Settled.history = msg.history \cup {<<msg.cursor, Outcome>>}
         /\ Settled.results = msg.results
  <1>1. Outcome \in StepStatus /\ Outcome \in HistoryStatus /\ Outcome \in {"success", "stopped"}
    BY DEF Outcome, StepStatus, HistoryStatus
  <1>2. msg \in Message /\ msg.cursor \in Positions
    BY OnAStep DEF TypeInv, TypeOK
  <1>3. Settled = Log(Mark(msg, Outcome), Outcome)
    BY DEF Settled, Outcome
  <1> HIDE DEF Outcome
  <1>4. Marked(msg, Mark(msg, Outcome), Outcome) /\ Mark(msg, Outcome).cursor \in Positions
    BY <1>1, <1>2, MarkFields DEF Marked
  <1> QED
    BY <1>1, <1>2, <1>3, <1>4, MarkFields, LogFields DEF Marked, Grows

\* What is in the message after a step that failed.
LEMMA FailedFields ==
  ASSUME TypeInv, InStep
  PROVE  /\ Marked(msg, Failed, "failed") /\ Grows(msg, Failed)
         /\ Failed.history = msg.history
         /\ Failed.results = msg.results
         /\ msg.cursor \in Failed.errors
  <1>1. msg \in Message /\ msg.cursor \in Positions /\ "failed" \in StepStatus
    BY OnAStep DEF TypeInv, TypeOK, StepStatus
  <1>2. /\ Marked(msg, Mark(msg, "failed"), "failed")
        /\ Mark(msg, "failed").history = msg.history
        /\ Mark(msg, "failed").results = msg.results
        /\ Grows(msg, Mark(msg, "failed"))
    BY <1>1, MarkFields
  <1>3. Mark(msg, "failed") \in Message
    BY <1>2 DEF Marked
  <1> QED
    BY <1>1, <1>2, <1>3 DEF Failed, Marked, Grows, Message

\* A step without a registered handler only leaves an error.
LEMMA MissedFields ==
  ASSUME TypeInv, InStep
  PROVE  /\ Missed \in Message /\ Missed.cursor = msg.cursor /\ Missed.status = msg.status
         /\ Missed.states = msg.states /\ Grows(msg, Missed)
         /\ Missed.history = msg.history /\ Missed.results = msg.results
         /\ msg.cursor \in Missed.errors
  BY OnAStep DEF Missed, TypeInv, TypeOK, Message, Grows

\* An idempotent skip only leaves a history entry.
LEMMA RepeatedFields ==
  ASSUME TypeInv, InStep
  PROVE  /\ Repeated \in Message /\ Repeated.cursor = msg.cursor /\ Repeated.status = msg.status
         /\ Repeated.states = msg.states /\ Grows(msg, Repeated)
         /\ Repeated.history = msg.history \cup {<<msg.cursor, "idempotent_skip">>}
         /\ Repeated.results = msg.results
  BY OnAStep DEF Repeated, TypeInv, TypeOK, Message, Grows, HistoryStatus

\* A jump without error is the settled message at its target.
LEMMA RedirectedFields ==
  ASSUME TypeInv, InStep, NEW t \in Positions
  PROVE  /\ Redirected(t) \in Message /\ Redirected(t).cursor = t - 1
         /\ Redirected(t).status = msg.status
         /\ Redirected(t).states = Settled.states
         /\ Grows(msg, Redirected(t))
         /\ Redirected(t).history = Settled.history
         /\ Redirected(t).results = msg.results
         /\ Between(msg.cursor, t) \subseteq Redirected(t).bypassed
  <1>1. /\ Settled \in Message /\ Settled.cursor = msg.cursor /\ Settled.status = msg.status
        /\ Grows(msg, Settled) /\ Settled.results = msg.results
    BY SettledFields DEF Marked
  <1> DEFINE n == MoveTo(Settled, t)
  <1>2. /\ n \in Message /\ n.cursor = t - 1 /\ n.status = msg.status
        /\ n.states = Settled.states /\ n.history = Settled.history
        /\ n.results = msg.results /\ Grows(msg, n)
        /\ n.bypassed = Settled.bypassed \cup Between(msg.cursor, t)
    BY <1>1, MoveToFields DEF Grows, TypeInv, TypeOK
  <1>3. PICK ref \in Refs : Redirected(t) = [n EXCEPT !.jumpTo = ref]
    BY <1>2, RefsAssumption DEF Redirected, Message
  <1> HIDE DEF n
  <1> QED
    BY <1>2, <1>3 DEF Message, Grows

\* A rejected jump keeps the step's success in the history, not in its state.
LEMMA RejectedFields ==
  ASSUME TypeInv, InStep
  PROVE  /\ Marked(msg, Rejected, "failed") /\ Grows(msg, Rejected)
         /\ Rejected.history = Settled.history
         /\ Rejected.results = msg.results
         /\ msg.cursor \in Rejected.errors
  <1> DEFINE n == Mark(Settled, "failed")
  <1>1. /\ Marked(msg, Settled, Outcome) /\ Settled \in Message
        /\ Grows(msg, Settled) /\ Settled.results = msg.results
    BY SettledFields DEF Marked
  <1>2. msg \in Message /\ msg.cursor \in Positions /\ "failed" \in StepStatus
    BY OnAStep DEF StepStatus, TypeInv, TypeOK
  <1>3. /\ Marked(Settled, n, "failed") /\ Grows(Settled, n)
        /\ n.history = Settled.history /\ n.results = msg.results
    BY <1>1, <1>2, MarkFields
  <1> HIDE DEF n
  <1>4. Marked(msg, n, "failed")
    BY <1>1, <1>2, <1>3, LastMarkCounts
  <1>5. n \in Message
    BY <1>3 DEF Marked
  <1>6. Rejected = [n EXCEPT !.errors = @ \cup {msg.cursor}]
    BY DEF Rejected, n
  <1>7. /\ Rejected \in Message /\ Rejected.cursor = n.cursor /\ Rejected.status = n.status
        /\ Rejected.states = n.states /\ Rejected.history = n.history
        /\ Rejected.results = n.results /\ Rejected.bypassed = n.bypassed
        /\ Rejected.errors = n.errors \cup {msg.cursor}
    BY <1>2, <1>5, <1>6 DEF Message
  <1> QED
    BY <1>1, <1>3, <1>4, <1>7 DEF Marked, Grows

\* A failure that the policy passes over is a failed message with a history entry.
LEMMA ContinuedFields ==
  ASSUME TypeInv, InStep
  PROVE  /\ Marked(msg, Continued, "failed") /\ Grows(msg, Continued)
         /\ Continued.history = msg.history \cup {<<msg.cursor, "failed">>}
         /\ Continued.results = msg.results
  <1>1. Failed \in Message /\ Failed.cursor \in Positions /\ Failed.cursor = msg.cursor
    BY FailedFields, OnAStep DEF Marked
  <1> QED
    BY <1>1, FailedFields, LogFields DEF Continued, Marked, Grows, HistoryStatus

\* on_failure: skip overwrites the state "failed" with "skipped".
LEMMA SkippedOverFields ==
  ASSUME TypeInv, InStep
  PROVE  /\ Marked(msg, SkippedOver, "failed") \/ Marked(msg, SkippedOver, "skipped")
         /\ Grows(msg, SkippedOver)
         /\ SkippedOver.history = msg.history \cup {<<msg.cursor, "skipped">>}
         /\ SkippedOver.results = msg.results
  <1> DEFINE f == Log(Failed, "skipped")
  <1>1. Failed \in Message /\ Failed.cursor \in Positions /\ Failed.cursor = msg.cursor
    BY FailedFields, OnAStep DEF Marked
  <1>2. /\ Marked(msg, f, "failed") /\ Grows(msg, f) /\ f.results = msg.results
        /\ f.history = msg.history \cup {<<msg.cursor, "skipped">>}
    BY <1>1, FailedFields, LogFields DEF Marked, Grows, HistoryStatus
  <1> HIDE DEF f
  <1>3. msg \in Message /\ f \in Message /\ "skipped" \in StepStatus
    BY <1>2 DEF Marked, TypeInv, TypeOK, StepStatus
  <1>4. /\ Marked(f, Mark(f, "skipped"), "skipped") /\ Grows(f, Mark(f, "skipped"))
        /\ Mark(f, "skipped").history = f.history /\ Mark(f, "skipped").results = f.results
    BY <1>3, MarkFields
  <1>5. /\ Marked(msg, Mark(f, "skipped"), "skipped") /\ Grows(msg, Mark(f, "skipped"))
    <2>1. Marked(msg, Mark(f, "skipped"), "skipped")
      BY <1>2, <1>3, <1>4, LastMarkCounts
    <2> QED
      BY <2>1, <1>2, <1>4 DEF Grows
  <1> QED
    BY <1>2, <1>4, <1>5 DEF SkippedOver, f

\* A failure jump is the failed message, marked, at the jump's target.
LEMMA JumpedToFields ==
  ASSUME TypeInv, InStep, NEW t \in Positions
  PROVE  /\ JumpedTo(t) \in Message /\ JumpedTo(t).cursor = t - 1
         /\ JumpedTo(t).status = msg.status
         /\ JumpedTo(t).states = [msg.states EXCEPT ![StepKey(msg.cursor)] = "jumped"]
         /\ Grows(msg, JumpedTo(t))
         /\ JumpedTo(t).history = msg.history \cup {<<msg.cursor, "jumped">>}
         /\ JumpedTo(t).results = msg.results
         /\ Between(msg.cursor, t) \subseteq JumpedTo(t).bypassed
  <1> DEFINE f == Log(Failed, "jumped")
             n == Mark(f, "jumped")
  <1>1. Failed \in Message /\ Failed.cursor \in Positions /\ Failed.cursor = msg.cursor
    BY FailedFields, OnAStep DEF Marked
  <1>2. /\ Marked(msg, f, "failed") /\ Grows(msg, f) /\ f.results = msg.results
        /\ f.history = msg.history \cup {<<msg.cursor, "jumped">>}
    BY <1>1, FailedFields, LogFields DEF Marked, Grows, HistoryStatus
  <1> HIDE DEF f
  <1>3. msg \in Message /\ f \in Message /\ "jumped" \in StepStatus
    BY <1>2 DEF Marked, TypeInv, TypeOK, StepStatus
  <1>4. Marked(f, n, "jumped") /\ Grows(f, n) /\ n.history = f.history /\ n.results = f.results
    BY <1>3, MarkFields
  <1> HIDE DEF n
  <1>5. Marked(msg, n, "jumped") /\ Grows(msg, n)
    <2>1. Marked(msg, n, "jumped")
      BY <1>2, <1>3, <1>4, LastMarkCounts
    <2> QED
      BY <2>1, <1>2, <1>4 DEF Grows
  <1>6. slip \in Slips
    BY DEF TypeInv, TypeOK
  <1> QED
    BY <1>2, <1>4, <1>5, <1>6, MoveToFields DEF JumpedTo, Marked, Grows, f, n

\* The slip, the policy and every step key are the same after any step.
LEMMA SameSlip ==
  ASSUME [Next]_vars
  PROVE  slip' = slip /\ policy' = policy /\ Positions' = Positions /\ StepKeys' = StepKeys
  <1>1. slip' = slip /\ policy' = policy
    BY DEF Next, Progress, Deliver, SaveStart, CheckLoop, SaveBeforeStep, MissingHandler,
           IdempotentSkip, ClaimStep, HandlerSucceeds, HandlerFails, SettleStep, RejectJump,
           StopOnFailure, ContinueOnFailure, SkipOnFailure, JumpOnFailure, Finish, Crash,
           Cancel, vars, config
  <1> QED
    BY <1>1 DEF Positions, StepKeys, StepKey

-----------------------------------------------------------------------------
(* An answer "ok" is backed by a final status in the store. *)

\* While a call runs, its message is "running", but for a stop on its way to the
\* last save, and nothing in the store says "completed".
StatusInv ==
  /\ pc # "idle" => outcome = "none"
  /\ pc \notin {"idle", "finish"} => msg.status = "running"
  /\ pc = "finish" => \/ msg.status = "stopped"
                      \/ msg.status = "running" /\ msg.cursor = Len(slip)
  /\ store.status = "completed" => pc = "idle"
  /\ AcknowledgedIsDurable

\* A save in the call's context of a message that is still running.
LEMMA SaveThenStatus ==
  ASSUME StatusInv, slip' = slip, pc # "idle",
         NEW m, NEW live, NEW next \in {"loop", "dispatch", "handle", "finish"},
         m.status = "running",
         live.status = IF next = "finish" THEN "stopped" ELSE "running",
         SaveThen(m, live, next)
  PROVE  StatusInv'
  BY DEF SaveThen, SaveFails, Return, StatusInv, AcknowledgedIsDurable

\* A save in the background context of a message that failed or was cancelled.
LEMMA SaveAndAbortStatus ==
  ASSUME StatusInv, slip' = slip, pc # "idle",
         NEW m, m.status \in {"failed", "cancelled"}, SaveAndAbort(m)
  PROVE  StatusInv'
  BY DEF SaveAndAbort, Return, StatusInv, AcknowledgedIsDurable

\* The save after a step without error, the stop included.
LEMMA SaveSettledStatus ==
  ASSUME StatusInv, slip' = slip, pc # "idle",
         NEW m \in Message, m.status = "running", SaveSettled(m)
  PROVE  StatusInv'
  <1>1. [m EXCEPT !.status = "stopped"].status = "stopped"
    BY DEF Message
  <1> QED
    BY <1>1, SaveThenStatus DEF SaveSettled

\* Every action keeps StatusInv.
LEMMA StatusInvNext == TypeInv /\ StatusInv /\ [Next]_vars => StatusInv'
  <1> SUFFICES ASSUME TypeInv, StatusInv, [Next]_vars PROVE StatusInv'
    OBVIOUS
  <1>0. slip' = slip /\ slip \in Slips /\ msg \in Message /\ store \in Message
    BY SameSlip DEF TypeInv, TypeOK
  <1>1. CASE Deliver
    <2>1. CASE AlreadyCompleted(store) /\ Return("ok") /\ store' = store
      BY <2>1, <1>0 DEF AlreadyCompleted, Return, StatusInv, AcknowledgedIsDurable
    <2>2. CASE /\ ~AlreadyCompleted(store) /\ pc' = "starting" /\ outcome' = "none"
               /\ msg' = [store EXCEPT !.status = "running", !.cursor = SetCursor(@)]
               /\ store' = store
      <3>1. msg'.status = "running"
        BY <2>2, <1>0 DEF Message
      <3> QED
        BY <2>2, <3>1, <1>0 DEF AlreadyCompleted, StatusInv, AcknowledgedIsDurable
    <2> QED
      BY <1>1, <2>1, <2>2 DEF Deliver
  <1>2. CASE SaveStart
    BY <1>2, <1>0, SaveThenStatus DEF SaveStart, StatusInv
  <1>3. CASE CheckLoop
    <2>1. CASE SaveAndAbort([msg EXCEPT !.status = "cancelled"])
      <3> DEFINE m == [msg EXCEPT !.status = "cancelled"]
      <3>1. m.status = "cancelled" /\ pc # "idle"
        BY <1>3, <1>0 DEF CheckLoop, Message
      <3>2. SaveAndAbort(m)
        BY <2>1 DEF m
      <3> HIDE DEF m
      <3> QED
        BY <1>0, <3>1, <3>2, SaveAndAbortStatus
    <2>2. CASE /\ pc' = IF msg.cursor < Len(slip) THEN "next" ELSE "finish"
               /\ UNCHANGED <<store, msg, outcome, local>>
      <3>1. ~(msg.cursor < Len(slip)) => msg.cursor = Len(slip)
        BY <1>0, SlipType DEF Message
      <3> QED
        BY <1>3, <1>0, <2>2, <3>1 DEF CheckLoop, StatusInv, AcknowledgedIsDurable
    <2> QED
      BY <1>3, <2>1, <2>2 DEF CheckLoop
  <1>4. CASE SaveBeforeStep
    <2>1. [msg EXCEPT !.cursor = SetCursor(@ + 1)].status = msg.status
      BY <1>0 DEF Message
    <2> QED
      BY <1>4, <1>0, <2>1, SaveThenStatus DEF SaveBeforeStep, StatusInv
  <1>5. CASE MissingHandler
    <2>1. Missed \in Message /\ Missed.cursor \in Positions /\ Missed.status = "running"
      BY <1>5, MissedFields, OnAStep DEF MissingHandler, InStep, StatusInv
    <2>2. GiveBack(Missed).status = "failed"
      BY <2>1, <1>0, GiveBackFields
    <2>3. SaveAndAbort(GiveBack(Missed)) \/ SaveThen(Missed, Missed, "loop")
      BY <1>5 DEF MissingHandler, Missed
    <2> QED
      BY <1>5, <1>0, <2>1, <2>2, <2>3, SaveThenStatus, SaveAndAbortStatus DEF MissingHandler
  <1>6. CASE IdempotentSkip
    <2>1. Repeated.status = "running"
      BY <1>6, RepeatedFields DEF IdempotentSkip, InStep, StatusInv
    <2>2. SaveThen(Repeated, Repeated, "loop")
      BY <1>6 DEF IdempotentSkip, Repeated
    <2> QED
      BY <1>6, <1>0, <2>1, <2>2, SaveThenStatus DEF IdempotentSkip
  <1>7. CASE ClaimStep
    <2>1. Mark(msg, "running").status = "running"
      BY <1>7, <1>0, MarkFields DEF ClaimStep, Marked, StepStatus, StatusInv
    <2> QED
      BY <1>7, <1>0, <2>1, SaveThenStatus DEF ClaimStep
  <1>8. CASE HandlerSucceeds
    <2>1. msg'.status = msg.status
      BY <1>8, <1>0 DEF HandlerSucceeds, Message
    <2> QED
      BY <1>8, <1>0, <2>1 DEF HandlerSucceeds, StatusInv, AcknowledgedIsDurable
  <1>9. CASE HandlerFails
    BY <1>9, <1>0 DEF HandlerFails, StatusInv, AcknowledgedIsDurable
  <1>10. CASE SettleStep
    <2>1. InStep /\ pc # "idle" /\ msg.status = "running"
      BY <1>10 DEF SettleStep, InStep, StatusInv
    <2>2. Settled \in Message /\ Settled.status = "running"
      BY <2>1, SettledFields DEF Marked
    <2>3. \A t \in Positions : Redirected(t) \in Message /\ Redirected(t).status = "running"
      BY <2>1, RedirectedFields
    <2>4. SaveSettled(Settled) \/ \E t \in Positions : SaveSettled(Redirected(t))
      BY <1>10 DEF SettleStep, Redirected
    <2> QED
      BY <1>0, <2>1, <2>2, <2>3, <2>4, SaveSettledStatus
  <1>11. CASE RejectJump
    <2>1. InStep /\ pc # "idle" /\ msg.status = "running"
      BY <1>11 DEF RejectJump, InStep, StatusInv
    <2>2. Rejected \in Message /\ Rejected.cursor \in Positions /\ Rejected.status = "running"
      BY <2>1, RejectedFields, OnAStep DEF Marked
    <2>3. GiveBack(Rejected).status = "failed"
      BY <2>2, <1>0, GiveBackFields
    <2>4. SaveAndAbort(GiveBack(Rejected)) \/ SaveSettled(Rejected)
      BY <1>11 DEF RejectJump, Rejected
    <2> QED
      BY <1>0, <2>1, <2>2, <2>3, <2>4, SaveSettledStatus, SaveAndAbortStatus
  <1>12. CASE StopOnFailure
    <2>1. InStep /\ pc # "idle"
      BY <1>12 DEF StopOnFailure, InStep
    <2>2. Failed \in Message /\ Failed.cursor \in Positions
      BY <2>1, FailedFields, OnAStep DEF Marked
    <2>3. GiveBack(Failed).status = "failed"
      BY <2>2, <1>0, GiveBackFields
    <2>4. SaveAndAbort(GiveBack(Failed))
      BY <1>12 DEF StopOnFailure
    <2> QED
      BY <1>0, <2>1, <2>3, <2>4, SaveAndAbortStatus
  <1>13. CASE ContinueOnFailure
    <2>1. InStep /\ pc # "idle" /\ msg.status = "running"
      BY <1>13 DEF ContinueOnFailure, InStep, StatusInv
    <2>2. Continued.status = "running" /\ SaveThen(Continued, Continued, "loop")
      BY <1>13, <2>1, ContinuedFields DEF ContinueOnFailure, Continued, Marked
    <2> QED
      BY <1>0, <2>1, <2>2, SaveThenStatus
  <1>14. CASE SkipOnFailure
    <2>1. InStep /\ pc # "idle" /\ msg.status = "running"
      BY <1>14 DEF SkipOnFailure, InStep, StatusInv
    <2>2. SkippedOver.status = "running"
      BY <2>1, SkippedOverFields DEF Marked
    <2>3. SaveThen(SkippedOver, SkippedOver, "loop")
      BY <1>14 DEF SkipOnFailure, SkippedOver
    <2> QED
      BY <1>0, <2>1, <2>2, <2>3, SaveThenStatus
  <1>15. CASE JumpOnFailure
    <2>1. InStep /\ pc # "idle" /\ msg.status = "running"
      BY <1>15 DEF JumpOnFailure, InStep, StatusInv
    <2>2. PICK t \in Positions : SaveThen(JumpedTo(t), JumpedTo(t), "loop")
      BY <1>15 DEF JumpOnFailure, JumpedTo
    <2>3. JumpedTo(t).status = "running"
      BY <2>1, JumpedToFields
    <2> QED
      BY <1>0, <2>1, <2>2, <2>3, SaveThenStatus
  <1>16. CASE Finish
    <2> DEFINE m == IF msg.status = "running" THEN [msg EXCEPT !.status = "completed"] ELSE msg
    <2>1. /\ m.status \in {"completed", "stopped"}
          /\ m.status = "completed" => m.cursor = Len(slip)
      BY <1>16, <1>0 DEF Finish, StatusInv, Message
    <2>2. \/ store' = m /\ Return("ok")
          \/ store' \in {store, m} /\ Return("error")
      BY <1>16 DEF Finish, SaveFails
    <2> HIDE DEF m
    <2> QED
      BY <1>0, <2>1, <2>2 DEF Return, StatusInv, AcknowledgedIsDurable
  <1>17. CASE Crash
    BY <1>17, <1>0 DEF Crash, Return, StatusInv, AcknowledgedIsDurable
  <1>18. CASE Cancel
    BY <1>18, <1>0 DEF Cancel, StatusInv, AcknowledgedIsDurable
  <1>19. CASE UNCHANGED vars
    BY <1>19 DEF vars, StatusInv, AcknowledgedIsDurable
  <1> QED
    BY <1>1, <1>2, <1>3, <1>4, <1>5, <1>6, <1>7, <1>8, <1>9, <1>10, <1>11, <1>12,
       <1>13, <1>14, <1>15, <1>16, <1>17, <1>18, <1>19 DEF Next, Progress

\* StatusInv holds in every reachable state.
LEMMA StatusInvariant == Spec => []StatusInv
  <1>1. Init => StatusInv
    <2> SUFFICES ASSUME Init PROVE StatusInv
      OBVIOUS
    <2>1. store.status = "created"
      BY DEF Init, NewMessage
    <2> QED
      BY <2>1 DEF Init, StatusInv, AcknowledgedIsDurable
  <1> QED
    BY <1>1, TypeInvInit, TypeInvNext, StatusInvNext, PTL DEF Spec

\* Process answers without an error only once a final status is in the store, and
\* "completed" is stored only with the whole slip behind the cursor.
THEOREM AcknowledgementsAreDurable == Spec => []AcknowledgedIsDurable
  <1>1. StatusInv => AcknowledgedIsDurable
    BY DEF StatusInv
  <1> QED
    BY <1>1, StatusInvariant, PTL

-----------------------------------------------------------------------------
(* No step is left behind. *)

\* Every step up to c left a trace in m.
AccountedTo(m, c) == \A i \in Positions : i <= c => Accounted(m, i)

\* So did every step behind the stored cursor, and behind the live one; a step
\* that is only dispatched has left none yet.
AccountInv ==
  /\ AccountedTo(store, store.cursor)
  /\ AccountedTo(msg, IF pc = "dispatch" THEN msg.cursor - 1 ELSE msg.cursor)

\* Whatever a step records, an earlier trace remains.
LEMMA GrowsAccounts ==
  ASSUME NEW m \in Message, NEW n \in Message, Grows(m, n), NEW i \in Positions,
         \/ n.states = m.states
         \/ \E st \in StepStatus \ {"none"} :
              n.states = [m.states EXCEPT ![StepKey(m.cursor)] = st],
         Accounted(m, i)
  PROVE  Accounted(n, i)
  <1>1. m.states \in [StepKeys -> StepStatus] /\ StepKey(i) \in StepKeys
    BY DEF Message, StepKeys
  <1> QED
    BY <1>1 DEF Accounted, StateOf, Grows

\* A step whose state is marked has left a trace.
LEMMA MarkedAccounts ==
  ASSUME NEW m \in Message, m.cursor \in Positions, NEW n, NEW st \in StepStatus \ {"none"},
         n.states = [m.states EXCEPT ![StepKey(m.cursor)] = st]
  PROVE  Accounted(n, m.cursor)
  <1>1. m.states \in [StepKeys -> StepStatus] /\ StepKey(m.cursor) \in StepKeys
    BY DEF Message, StepKeys
  <1> QED
    BY <1>1 DEF Accounted, StateOf

\* A message that grew out of the live one while a step was run, and in which
\* that step has left its trace, is accounted for up to the step.
LEMMA StepIsAccounted ==
  ASSUME TypeInv, InStep, AccountInv, NEW n \in Message, Grows(msg, n),
         \/ /\ n.states = msg.states
            /\ Accounted(n, msg.cursor)
         \/ \E st \in StepStatus \ {"none"} :
              n.states = [msg.states EXCEPT ![StepKey(msg.cursor)] = st]
  PROVE  AccountedTo(n, msg.cursor)
  <1>1. msg \in Message /\ msg.cursor \in Positions /\ msg.cursor \in Int
    BY OnAStep DEF TypeInv, TypeOK, Positions
  <1> SUFFICES ASSUME NEW i \in Positions, i <= msg.cursor
               PROVE  Accounted(n, i)
    BY DEF AccountedTo
  <1>2. CASE i = msg.cursor
    BY <1>1, <1>2, MarkedAccounts
  <1>3. CASE i # msg.cursor
    <2>1. i \in Int /\ i <= msg.cursor - 1
      BY <1>1, <1>3 DEF Positions
    <2>2. Accounted(msg, i)
      BY <1>1, <2>1 DEF AccountInv, AccountedTo
    <2> QED
      BY <1>1, <2>2, GrowsAccounts
  <1> QED
    BY <1>2, <1>3

\* A jump accounts for the steps it passes over.
LEMMA JumpIsAccounted ==
  ASSUME TypeInv, InStep, AccountInv, NEW n \in Message, Grows(msg, n),
         NEW st \in StepStatus \ {"none"},
         n.states = [msg.states EXCEPT ![StepKey(msg.cursor)] = st],
         NEW t \in Positions, Between(msg.cursor, t) \subseteq n.bypassed
  PROVE  AccountedTo(n, t - 1)
  <1>1. AccountedTo(n, msg.cursor) /\ msg.cursor \in Int
    BY StepIsAccounted, OnAStep DEF Positions
  <1> SUFFICES ASSUME NEW i \in Positions, i <= t - 1
               PROVE  Accounted(n, i)
    BY DEF AccountedTo
  <1>2. CASE i <= msg.cursor
    BY <1>1, <1>2 DEF AccountedTo
  <1>3. CASE ~(i <= msg.cursor)
    <2>1. i \in Between(msg.cursor, t)
      BY <1>1, <1>3 DEF Between, Positions
    <2> QED
      BY <2>1 DEF Accounted
  <1> QED
    BY <1>2, <1>3

\* The call is over, and what is in the store is accounted for.
LEMMA ReturnAccounts ==
  ASSUME slip \in Slips, slip' = slip, NEW o, Return(o),
         NEW m, store' = m, AccountedTo(m, m.cursor)
  PROVE  AccountInv'
  <1>1. Positions' = Positions /\ \A i : StepKey(i)' = StepKey(i)
    BY DEF Positions, StepKey
  <1>2. msg'.cursor = 0 /\ pc' = "idle"
    BY DEF Return, NewMessage
  <1>3. \A i \in Positions : ~(i <= 0)
    BY SlipType DEF Positions
  <1> QED
    BY <1>1, <1>2, <1>3 DEF AccountInv, AccountedTo, Accounted, StateOf

\* The call goes on with a live message that is accounted for.
LEMMA GoOnAccounts ==
  ASSUME slip' = slip, NEW m, store' = m, AccountedTo(m, m.cursor),
         NEW live, msg' = live,
         AccountedTo(live, IF pc' = "dispatch" THEN live.cursor - 1 ELSE live.cursor)
  PROVE  AccountInv'
  <1>1. Positions' = Positions /\ \A i : StepKey(i)' = StepKey(i)
    BY DEF Positions, StepKey
  <1> QED
    BY <1>1 DEF AccountInv, AccountedTo, Accounted, StateOf

\* A save in the call's context.
LEMMA SaveThenAccounts ==
  ASSUME TypeInv, AccountInv, slip' = slip,
         NEW m, AccountedTo(m, m.cursor),
         NEW live, NEW next,
         AccountedTo(live, IF next = "dispatch" THEN live.cursor - 1 ELSE live.cursor),
         SaveThen(m, live, next)
  PROVE  AccountInv'
  <1>1. AccountedTo(store, store.cursor) /\ slip \in Slips
    BY DEF AccountInv, TypeInv, TypeOK
  <1>2. CASE store' \in {store, m} /\ Return("error")
    BY <1>1, <1>2, ReturnAccounts
  <1>3. CASE store' = m /\ msg' = live /\ pc' = next
    BY <1>3, GoOnAccounts
  <1> QED
    BY <1>2, <1>3 DEF SaveThen, SaveFails

\* A save in the background context.
LEMMA SaveAndAbortAccounts ==
  ASSUME TypeInv, AccountInv, slip' = slip,
         NEW m, AccountedTo(m, m.cursor), SaveAndAbort(m)
  PROVE  AccountInv'
  <1>1. AccountedTo(store, store.cursor) /\ slip \in Slips
    BY DEF AccountInv, TypeInv, TypeOK
  <1> QED
    BY <1>1, ReturnAccounts DEF SaveAndAbort

\* The save after a step without error.
LEMMA SaveSettledAccounts ==
  ASSUME TypeInv, AccountInv, slip' = slip,
         NEW m \in Message, AccountedTo(m, m.cursor), SaveSettled(m)
  PROVE  AccountInv'
  <1> DEFINE live == [m EXCEPT !.status = "stopped"]
  <1>1. /\ live.cursor = m.cursor /\ live.states = m.states
        /\ live.errors = m.errors /\ live.bypassed = m.bypassed
    BY DEF Message
  <1>2. SaveThen(m, live, "finish") \/ SaveThen(m, m, "loop")
    BY DEF SaveSettled
  <1> HIDE DEF live
  <1>3. AccountedTo(live, live.cursor)
    BY <1>1 DEF AccountedTo, Accounted, StateOf
  <1> QED
    BY <1>2, <1>3, SaveThenAccounts

\* Giving the step back keeps the traces up to the one before it.
LEMMA GiveBackAccounts ==
  ASSUME slip \in Slips, NEW m \in Message, m.cursor \in Positions,
         AccountedTo(m, m.cursor)
  PROVE  AccountedTo(GiveBack(m), GiveBack(m).cursor)
  <1>1. /\ GiveBack(m) \in Message /\ GiveBack(m).cursor = m.cursor - 1
        /\ GiveBack(m).states = m.states /\ Grows(m, GiveBack(m))
    BY GiveBackFields
  <1>2. m.cursor \in Int /\ \A i \in Positions : i \in Int
    BY DEF Positions
  <1> QED
    BY <1>1, <1>2, GrowsAccounts DEF AccountedTo

\* Every action keeps AccountInv.
LEMMA AccountInvNext == TypeInv /\ AccountInv /\ [Next]_vars => AccountInv'
  <1> SUFFICES ASSUME TypeInv, AccountInv, [Next]_vars PROVE AccountInv'
    OBVIOUS
  <1>0. /\ slip' = slip /\ slip \in Slips /\ msg \in Message /\ store \in Message
        /\ AccountedTo(store, store.cursor)
    BY SameSlip DEF TypeInv, TypeOK, AccountInv
  <1>1. CASE Deliver
    <2> DEFINE m == [store EXCEPT !.status = "running", !.cursor = SetCursor(@)]
    <2>1. CASE Return("ok") /\ store' = store
      BY <1>0, <2>1, ReturnAccounts
    <2>2. CASE store' = store /\ msg' = m /\ pc' = "starting"
      <3>1. SetCursor(store.cursor) = store.cursor
        BY <1>0, SlipType, SetCursorType DEF Message
      <3>2. /\ m.cursor = store.cursor /\ m.states = store.states
            /\ m.errors = store.errors /\ m.bypassed = store.bypassed
        BY <1>0, <3>1 DEF Message
      <3> HIDE DEF m
      <3>3. AccountedTo(m, m.cursor)
        BY <1>0, <3>2 DEF AccountedTo, Accounted, StateOf
      <3> QED
        BY <1>0, <2>2, <3>3, GoOnAccounts
    <2> QED
      BY <1>1, <2>1, <2>2 DEF Deliver
  <1>2. CASE SaveStart
    <2>1. AccountedTo(msg, msg.cursor)
      BY <1>2 DEF SaveStart, AccountInv
    <2> QED
      BY <1>2, <1>0, <2>1, SaveThenAccounts DEF SaveStart
  <1>3. CASE CheckLoop
    <2> DEFINE m == [msg EXCEPT !.status = "cancelled"]
    <2>1. AccountedTo(msg, msg.cursor)
      BY <1>3 DEF CheckLoop, AccountInv
    <2>2. /\ m.cursor = msg.cursor /\ m.states = msg.states
          /\ m.errors = msg.errors /\ m.bypassed = msg.bypassed
      BY <1>0 DEF Message
    <2>3. \/ SaveAndAbort(m)
          \/ store' = store /\ msg' = msg /\ pc' # "dispatch"
      BY <1>3 DEF CheckLoop
    <2> HIDE DEF m
    <2>4. AccountedTo(m, m.cursor)
      BY <2>1, <2>2 DEF AccountedTo, Accounted, StateOf
    <2> QED
      BY <1>0, <2>1, <2>3, <2>4, SaveAndAbortAccounts, GoOnAccounts
  <1>4. CASE SaveBeforeStep
    <2> DEFINE live == [msg EXCEPT !.cursor = SetCursor(@ + 1)]
    <2>1. AccountedTo(msg, msg.cursor) /\ msg.cursor + 1 \in 0..Len(slip)
      BY <1>0, <1>4, SlipType DEF SaveBeforeStep, AccountInv, TypeInv, Message
    <2>2. /\ live.cursor - 1 = msg.cursor /\ live.states = msg.states
          /\ live.errors = msg.errors /\ live.bypassed = msg.bypassed
      BY <1>0, <2>1, SlipType, SetCursorType DEF Message
    <2>3. SaveThen(msg, live, "dispatch")
      BY <1>4 DEF SaveBeforeStep
    <2> HIDE DEF live
    <2>4. AccountedTo(live, live.cursor - 1)
      BY <2>1, <2>2 DEF AccountedTo, Accounted, StateOf
    <2> QED
      BY <1>0, <2>1, <2>3, <2>4, SaveThenAccounts
  <1>5. CASE MissingHandler
    <2>1. InStep
      BY <1>5 DEF MissingHandler, InStep
    <2>2. /\ Missed \in Message /\ Missed.cursor = msg.cursor /\ Missed.cursor \in Positions
          /\ Missed.states = msg.states /\ Grows(msg, Missed) /\ msg.cursor \in Missed.errors
      BY <2>1, MissedFields, OnAStep
    <2>3. AccountedTo(Missed, Missed.cursor)
      BY <2>1, <2>2, StepIsAccounted DEF Accounted
    <2>4. AccountedTo(GiveBack(Missed), GiveBack(Missed).cursor)
      BY <1>0, <2>2, <2>3, GiveBackAccounts
    <2>5. SaveAndAbort(GiveBack(Missed)) \/ SaveThen(Missed, Missed, "loop")
      BY <1>5 DEF MissingHandler, Missed
    <2> QED
      BY <1>0, <2>3, <2>4, <2>5, SaveThenAccounts, SaveAndAbortAccounts
  <1>6. CASE IdempotentSkip
    <2>1. InStep /\ StateOf(msg, msg.cursor) = "success"
      BY <1>6 DEF IdempotentSkip, InStep, AlreadyDone
    <2>2. /\ Repeated \in Message /\ Repeated.cursor = msg.cursor
          /\ Repeated.states = msg.states /\ Grows(msg, Repeated)
      BY <2>1, RepeatedFields
    <2>3. Accounted(Repeated, msg.cursor)
      BY <2>1, <2>2 DEF Accounted, StateOf
    <2>4. AccountedTo(Repeated, Repeated.cursor)
      BY <2>1, <2>2, <2>3, StepIsAccounted
    <2>5. SaveThen(Repeated, Repeated, "loop")
      BY <1>6 DEF IdempotentSkip, Repeated
    <2> QED
      BY <1>0, <2>4, <2>5, SaveThenAccounts
  <1>7. CASE ClaimStep
    <2> DEFINE m == Mark(msg, "running")
    <2>1. InStep
      BY <1>7 DEF ClaimStep, InStep
    <2>2. Marked(msg, m, "running") /\ Grows(msg, m) /\ "running" \in StepStatus \ {"none"}
      BY <1>0, MarkFields DEF StepStatus
    <2>3. SaveThen(m, m, "handle")
      BY <1>7 DEF ClaimStep
    <2> HIDE DEF m
    <2>4. AccountedTo(m, m.cursor)
      BY <2>1, <2>2, StepIsAccounted DEF Marked
    <2> QED
      BY <1>0, <2>3, <2>4, SaveThenAccounts
  <1>8. CASE HandlerSucceeds
    <2>1. AccountedTo(msg, msg.cursor)
      BY <1>8 DEF HandlerSucceeds, AccountInv
    <2>2. /\ msg'.cursor = msg.cursor /\ msg'.states = msg.states
          /\ msg'.errors = msg.errors /\ msg'.bypassed = msg.bypassed
      BY <1>0, <1>8 DEF HandlerSucceeds, Message
    <2>3. AccountedTo(msg', msg'.cursor)
      BY <2>1, <2>2 DEF AccountedTo, Accounted, StateOf
    <2>4. store' = store /\ pc' = "succeeded"
      BY <1>8 DEF HandlerSucceeds
    <2> QED
      BY <1>0, <2>3, <2>4, GoOnAccounts
  <1>9. CASE HandlerFails
    <2>1. store' = store /\ msg' = msg /\ pc \notin {"dispatch"} /\ pc' \notin {"dispatch"}
      BY <1>9 DEF HandlerFails
    <2>2. AccountedTo(msg, msg.cursor)
      BY <2>1 DEF AccountInv
    <2> QED
      BY <1>0, <2>1, <2>2, GoOnAccounts
  <1>10. CASE SettleStep
    <2>1. InStep
      BY <1>10 DEF SettleStep, InStep
    <2>2. /\ Settled \in Message /\ Settled.cursor = msg.cursor /\ Grows(msg, Settled)
          /\ Outcome \in StepStatus \ {"none"}
          /\ Settled.states = [msg.states EXCEPT ![StepKey(msg.cursor)] = Outcome]
      BY <2>1, SettledFields DEF Marked
    <2>3. AccountedTo(Settled, Settled.cursor)
      BY <2>1, <2>2, StepIsAccounted
    <2>4. ASSUME NEW t \in Positions
          PROVE  Redirected(t) \in Message /\ AccountedTo(Redirected(t), Redirected(t).cursor)
      BY <2>1, <2>2, RedirectedFields, JumpIsAccounted
    <2>5. SaveSettled(Settled) \/ \E t \in Positions : SaveSettled(Redirected(t))
      BY <1>10 DEF SettleStep, Redirected
    <2> QED
      BY <1>0, <2>2, <2>3, <2>4, <2>5, SaveSettledAccounts
  <1>11. CASE RejectJump
    <2>1. InStep
      BY <1>11 DEF RejectJump, InStep
    <2>2. Marked(msg, Rejected, "failed") /\ Grows(msg, Rejected) /\ msg.cursor \in Positions
      BY <2>1, RejectedFields, OnAStep
    <2>3. Rejected \in Message /\ Rejected.cursor \in Positions
      BY <2>2 DEF Marked
    <2>4. AccountedTo(Rejected, Rejected.cursor)
      BY <2>1, <2>2, StepIsAccounted DEF Marked, StepStatus
    <2>5. AccountedTo(GiveBack(Rejected), GiveBack(Rejected).cursor)
      BY <1>0, <2>3, <2>4, GiveBackAccounts
    <2>6. SaveAndAbort(GiveBack(Rejected)) \/ SaveSettled(Rejected)
      BY <1>11 DEF RejectJump, Rejected
    <2> QED
      BY <1>0, <2>3, <2>4, <2>5, <2>6, SaveSettledAccounts, SaveAndAbortAccounts
  <1>12. CASE StopOnFailure
    <2>1. InStep
      BY <1>12 DEF StopOnFailure, InStep
    <2>2. Marked(msg, Failed, "failed") /\ Grows(msg, Failed) /\ msg.cursor \in Positions
      BY <2>1, FailedFields, OnAStep
    <2>3. Failed \in Message /\ Failed.cursor \in Positions
      BY <2>2 DEF Marked
    <2>4. AccountedTo(Failed, Failed.cursor)
      BY <2>1, <2>2, StepIsAccounted DEF Marked, StepStatus
    <2>5. AccountedTo(GiveBack(Failed), GiveBack(Failed).cursor)
      BY <1>0, <2>3, <2>4, GiveBackAccounts
    <2>6. SaveAndAbort(GiveBack(Failed))
      BY <1>12 DEF StopOnFailure
    <2> QED
      BY <1>0, <2>5, <2>6, SaveAndAbortAccounts
  <1>13. CASE ContinueOnFailure
    <2>1. InStep
      BY <1>13 DEF ContinueOnFailure, InStep
    <2>2. AccountedTo(Continued, Continued.cursor)
      BY <2>1, ContinuedFields, StepIsAccounted DEF Marked, StepStatus
    <2>3. SaveThen(Continued, Continued, "loop")
      BY <1>13 DEF ContinueOnFailure, Continued
    <2> QED
      BY <1>0, <2>2, <2>3, SaveThenAccounts
  <1>14. CASE SkipOnFailure
    <2>1. InStep
      BY <1>14 DEF SkipOnFailure, InStep
    <2>2. AccountedTo(SkippedOver, SkippedOver.cursor)
      BY <2>1, SkippedOverFields, StepIsAccounted DEF Marked, StepStatus
    <2>3. SaveThen(SkippedOver, SkippedOver, "loop")
      BY <1>14 DEF SkipOnFailure, SkippedOver
    <2> QED
      BY <1>0, <2>2, <2>3, SaveThenAccounts
  <1>15. CASE JumpOnFailure
    <2>1. InStep
      BY <1>15 DEF JumpOnFailure, InStep
    <2>2. PICK t \in Positions : SaveThen(JumpedTo(t), JumpedTo(t), "loop")
      BY <1>15 DEF JumpOnFailure, JumpedTo
    <2>3. AccountedTo(JumpedTo(t), JumpedTo(t).cursor)
      BY <2>1, JumpedToFields, JumpIsAccounted DEF StepStatus
    <2> QED
      BY <1>0, <2>2, <2>3, SaveThenAccounts
  <1>16. CASE Finish
    <2> DEFINE m == IF msg.status = "running" THEN [msg EXCEPT !.status = "completed"] ELSE msg
    <2>1. AccountedTo(msg, msg.cursor)
      BY <1>16 DEF Finish, AccountInv
    <2>2. /\ m.cursor = msg.cursor /\ m.states = msg.states
          /\ m.errors = msg.errors /\ m.bypassed = msg.bypassed
      BY <1>0 DEF Message
    <2>3. store' \in {store, m} /\ (Return("ok") \/ Return("error"))
      BY <1>16 DEF Finish, SaveFails
    <2> HIDE DEF m
    <2>4. AccountedTo(m, m.cursor)
      BY <2>1, <2>2 DEF AccountedTo, Accounted, StateOf
    <2> QED
      BY <1>0, <2>3, <2>4, ReturnAccounts
  <1>17. CASE Crash
    BY <1>17, <1>0, ReturnAccounts DEF Crash
  <1>18. CASE Cancel
    <2>1. store' = store /\ msg' = msg /\ pc' = pc
      BY <1>18 DEF Cancel
    <2> QED
      BY <1>0, <2>1, GoOnAccounts DEF AccountInv
  <1>19. CASE UNCHANGED vars
    <2>1. store' = store /\ msg' = msg /\ pc' = pc
      BY <1>19 DEF vars
    <2> QED
      BY <1>0, <2>1, GoOnAccounts DEF AccountInv
  <1> QED
    BY <1>1, <1>2, <1>3, <1>4, <1>5, <1>6, <1>7, <1>8, <1>9, <1>10, <1>11, <1>12,
       <1>13, <1>14, <1>15, <1>16, <1>17, <1>18, <1>19 DEF Next, Progress

\* Whatever crashes, cancellations, failed saves and redeliveries happen, the
\* stored cursor never runs ahead of the execution.
THEOREM NothingIsLeftBehind == Spec => []NoStepLeftBehind
  <1>1. Init => AccountInv
    <2> SUFFICES ASSUME Init PROVE AccountInv
      OBVIOUS
    <2>1. slip \in Slips /\ store.cursor = 0 /\ msg.cursor = 0 /\ pc = "idle"
      BY DEF Init, NewMessage
    <2>2. \A i \in Positions : ~(i <= 0)
      BY <2>1, SlipType DEF Positions
    <2> QED
      BY <2>1, <2>2 DEF AccountInv, AccountedTo
  <1>2. AccountInv => NoStepLeftBehind
    BY DEF AccountInv, AccountedTo, NoStepLeftBehind
  <1> QED
    BY <1>1, <1>2, TypeInvInit, TypeInvNext, AccountInvNext, PTL DEF Spec

-----------------------------------------------------------------------------
(* What a step can do to the stored cursor and status. *)

\* The current step is given back in the message m of its failure: for want of
\* a handler, after its last attempt, or with a jump that is rejected.
GivesBack(m) ==
  /\ store' = GiveBack(m)
  /\ \/ m = Missed /\ pc = "dispatch" /\ Step.name \notin Handlers
     \/ m = Failed /\ pc = "failed"
     \/ m = Rejected /\ pc = "succeeded"

\* An action that saves message m, or fails to, leaves m or the old snapshot.
LEMMA SavedOrNot ==
  ASSUME NEW m
  PROVE  /\ \A live, next : SaveThen(m, live, next) => store' \in {store, m}
         /\ SaveAndAbort(m) => store' \in {store, m}
         /\ SaveSettled(m) => store' \in {store, m}
  BY DEF SaveThen, SaveAndAbort, SaveSettled, SaveFails

\* Each step leaves the snapshot, saves one with no smaller cursor that is not
\* "failed", gives the current step back, or makes the failure jump of one.
LEMMA StoredSnapshots ==
  ASSUME TypeInv, ClaimInv, StatusInv, [Next]_vars
  PROVE  \/ store' = store
         \/ store'.status # "failed" /\ store'.cursor >= store.cursor
         \/ \E m \in {Missed, Failed, Rejected} : GivesBack(m)
         \/ pc = "failed" /\ \E t \in Positions : store' = JumpedTo(t)
  <1> DEFINE Forward(m) == m.status # "failed" /\ m.cursor >= store.cursor
             Result == \/ store' = store
                       \/ Forward(store')
                       \/ \E m \in {Missed, Failed, Rejected} : GivesBack(m)
                       \/ pc = "failed" /\ \E t \in Positions : store' = JumpedTo(t)
  <1> SUFFICES Result
    OBVIOUS
  <1>0. /\ slip \in Slips /\ msg \in Message /\ msg.cursor \in Int /\ store.cursor \in Int
    BY DEF TypeInv, TypeOK, Message
  <1>1. CASE Deliver
    BY <1>1 DEF Deliver
  <1>2. CASE SaveStart
    <2>1. Forward(msg) /\ SaveThen(msg, msg, "loop")
      BY <1>2, <1>0 DEF SaveStart, ClaimInv, StatusInv
    <2>2. store' \in {store, msg}
      BY <2>1, SavedOrNot
    <2> QED
      BY <2>1, <2>2
  <1>3. CASE CheckLoop
    <2> DEFINE m == [msg EXCEPT !.status = "cancelled"]
    <2>1. Forward(m)
      BY <1>3, <1>0 DEF CheckLoop, ClaimInv, Message
    <2>2. SaveAndAbort(m) \/ store' = store
      BY <1>3 DEF CheckLoop
    <2> HIDE DEF m
    <2> QED
      BY <2>1, <2>2, SavedOrNot
  <1>4. CASE SaveBeforeStep
    <2>1. Forward(msg) /\ \E live : SaveThen(msg, live, "dispatch")
      BY <1>4, <1>0 DEF SaveBeforeStep, ClaimInv, StatusInv
    <2>2. store' \in {store, msg}
      BY <2>1, SavedOrNot
    <2> QED
      BY <2>1, <2>2
  <1>5. CASE MissingHandler
    <2>1. pc = "dispatch" /\ InStep /\ Step.name \notin Handlers
      BY <1>5 DEF MissingHandler, InStep
    <2>2. Forward(Missed)
      BY <2>1, <1>0, MissedFields DEF ClaimInv, StatusInv
    <2>3. SaveAndAbort(GiveBack(Missed)) \/ SaveThen(Missed, Missed, "loop")
      BY <1>5 DEF MissingHandler, Missed
    <2>4. store' \in {store, Missed, GiveBack(Missed)}
      BY <2>3, SavedOrNot
    <2> QED
      BY <2>1, <2>2, <2>4 DEF GivesBack
  <1>6. CASE IdempotentSkip
    <2>1. pc = "dispatch" /\ InStep /\ SaveThen(Repeated, Repeated, "loop")
      BY <1>6 DEF IdempotentSkip, InStep, Repeated
    <2>2. Forward(Repeated)
      BY <2>1, <1>0, RepeatedFields DEF ClaimInv, StatusInv
    <2>3. store' \in {store, Repeated}
      BY <2>1, SavedOrNot
    <2> QED
      BY <2>2, <2>3
  <1>7. CASE ClaimStep
    <2> DEFINE claim == Mark(msg, "running")
    <2>1. pc = "dispatch" /\ SaveThen(claim, claim, "handle")
      BY <1>7 DEF ClaimStep
    <2>2. claim.cursor = msg.cursor /\ claim.status = msg.status
      BY <1>0, MarkFields DEF StepStatus, Marked
    <2> HIDE DEF claim
    <2>3. Forward(claim)
      BY <2>1, <2>2, <1>0 DEF ClaimInv, StatusInv
    <2>4. store' \in {store, claim}
      BY <2>1, SavedOrNot
    <2> QED
      BY <2>3, <2>4
  <1>8. CASE HandlerSucceeds
    BY <1>8 DEF HandlerSucceeds
  <1>9. CASE HandlerFails
    BY <1>9 DEF HandlerFails
  <1>10. CASE SettleStep
    <2>1. InStep /\ msg.status = "running" /\ msg.cursor = store.cursor
      BY <1>10 DEF SettleStep, InStep, ClaimInv, StatusInv
    <2>2. Forward(Settled)
      BY <2>1, <1>0, SettledFields DEF Marked
    <2>3. ASSUME NEW t \in Positions, JumpTarget(t)
          PROVE  Forward(Redirected(t))
      <3>1. t - 1 >= msg.cursor
        BY <2>3, <1>0, SlipType DEF JumpTarget, Positions
      <3> QED
        BY <2>1, <3>1, RedirectedFields
    <2>4. \/ SaveSettled(Settled)
          \/ \E t \in Positions : JumpTarget(t) /\ SaveSettled(Redirected(t))
      BY <1>10 DEF SettleStep, Redirected
    <2> QED
      BY <2>2, <2>3, <2>4, SavedOrNot
  <1>11. CASE RejectJump
    <2>1. InStep /\ pc = "succeeded" /\ msg.status = "running" /\ msg.cursor = store.cursor
      BY <1>11 DEF RejectJump, InStep, ClaimInv, StatusInv
    <2>2. Forward(Rejected)
      BY <2>1, <1>0, RejectedFields DEF Marked
    <2>3. SaveAndAbort(GiveBack(Rejected)) \/ SaveSettled(Rejected)
      BY <1>11 DEF RejectJump, Rejected
    <2>4. store' \in {store, Rejected, GiveBack(Rejected)}
      BY <2>3, SavedOrNot
    <2> QED
      BY <2>1, <2>2, <2>4 DEF GivesBack
  <1>12. CASE StopOnFailure
    <2>1. pc = "failed" /\ SaveAndAbort(GiveBack(Failed))
      BY <1>12 DEF StopOnFailure
    <2>2. store' \in {store, GiveBack(Failed)}
      BY <2>1, SavedOrNot
    <2> QED
      BY <2>1, <2>2 DEF GivesBack
  <1>13. CASE ContinueOnFailure
    <2>1. pc = "failed" /\ InStep /\ SaveThen(Continued, Continued, "loop")
      BY <1>13 DEF ContinueOnFailure, InStep, Continued
    <2>2. Forward(Continued)
      BY <2>1, <1>0, ContinuedFields DEF Marked, ClaimInv, StatusInv
    <2>3. store' \in {store, Continued}
      BY <2>1, SavedOrNot
    <2> QED
      BY <2>2, <2>3
  <1>14. CASE SkipOnFailure
    <2>1. pc = "failed" /\ InStep /\ SaveThen(SkippedOver, SkippedOver, "loop")
      BY <1>14 DEF SkipOnFailure, InStep, SkippedOver
    <2>2. Forward(SkippedOver)
      BY <2>1, <1>0, SkippedOverFields DEF Marked, ClaimInv, StatusInv
    <2>3. store' \in {store, SkippedOver}
      BY <2>1, SavedOrNot
    <2> QED
      BY <2>2, <2>3
  <1>15. CASE JumpOnFailure
    <2>1. pc = "failed"
      BY <1>15 DEF JumpOnFailure
    <2>2. PICK t \in Positions : SaveThen(JumpedTo(t), JumpedTo(t), "loop")
      BY <1>15 DEF JumpOnFailure, JumpedTo
    <2>3. store' \in {store, JumpedTo(t)}
      BY <2>2, SavedOrNot
    <2> QED
      BY <2>1, <2>3
  <1>16. CASE Finish
    <2> DEFINE m == IF msg.status = "running" THEN [msg EXCEPT !.status = "completed"] ELSE msg
    <2>1. store' \in {store, m}
      BY <1>16 DEF Finish, SaveFails
    <2>2. Forward(m)
      BY <1>16, <1>0 DEF Finish, ClaimInv, StatusInv, Message
    <2> HIDE DEF m
    <2> QED
      BY <2>1, <2>2
  <1>17. CASE Crash \/ Cancel \/ UNCHANGED vars
    BY <1>17 DEF Crash, Cancel, vars
  <1> QED
    BY <1>1, <1>2, <1>3, <1>4, <1>5, <1>6, <1>7, <1>8, <1>9, <1>10, <1>11, <1>12,
       <1>13, <1>14, <1>15, <1>16, <1>17 DEF Next, Progress

\* ClaimInv and StatusInv, and with them StoredSnapshots, hold at every step.
LEMMA ResumeInvariant == Spec => [](TypeInv /\ ClaimInv /\ StatusInv)
  BY ClaimInvariant, StatusInvariant, PTL

\* The stored cursor moves back to retry the step that failed or by the failure
\* jump of that step, and for no other reason.
THEOREM RewindsAreFailures == Spec => CursorRewindsOnlyOnFailure
  <1> DEFINE Rewind == store'.cursor < store.cursor =>
                         \/ store'.status = "failed" /\ store'.cursor = store.cursor - 1
                         \/ <<store.cursor, "jumped">> \in store'.history
  <1>1. TypeInv /\ ClaimInv /\ StatusInv /\ [Next]_vars => [Rewind]_vars
    <2> SUFFICES ASSUME TypeInv, ClaimInv, StatusInv, Next,
                        store'.cursor < store.cursor
                 PROVE  \/ store'.status = "failed" /\ store'.cursor = store.cursor - 1
                        \/ <<store.cursor, "jumped">> \in store'.history
      BY DEF vars
    <2>0. store \in Message /\ msg \in Message /\ store.cursor \in Int /\ slip \in Slips
      BY DEF TypeInv, TypeOK, Message
    <2>1. CASE store' = store
      BY <2>0, <2>1
    <2>2. CASE store'.cursor >= store.cursor /\ store'.status # "failed"
      <3>1. store'.cursor \in Int
        BY TypeInvNext, SameTypes, SameSlip DEF TypeInv, TypeOK, Message
      <3> QED
        BY <2>0, <2>2, <3>1
    <2>3. ASSUME NEW m \in {Missed, Failed, Rejected}, GivesBack(m)
          PROVE  store'.status = "failed" /\ store'.cursor = store.cursor - 1
      <3>1. InStep
        BY <2>3 DEF GivesBack, InStep
      <3>2. m \in Message /\ m.cursor = msg.cursor /\ m.cursor \in Positions
        BY <3>1, MissedFields, FailedFields, RejectedFields, OnAStep DEF Marked
      <3>3. GiveBack(m).status = "failed" /\ GiveBack(m).cursor = msg.cursor - 1
        BY <2>0, <3>2, GiveBackFields
      <3>4. msg.cursor = store.cursor \/ msg.cursor = store.cursor + 1
        BY <2>3 DEF GivesBack, ClaimInv
      <3> QED
        BY <2>0, <2>3, <3>3, <3>4 DEF GivesBack
    <2>4. CASE pc = "failed" /\ \E t \in Positions : store' = JumpedTo(t)
      <3>1. InStep /\ msg.cursor = store.cursor
        BY <2>4 DEF InStep, ClaimInv
      <3> QED
        BY <2>4, <3>1, JumpedToFields
    <2> QED
      BY <2>1, <2>2, <2>3, <2>4, StoredSnapshots
  <1> QED
    BY <1>1, ResumeInvariant, PTL DEF Spec, CursorRewindsOnlyOnFailure

\* A snapshot that is not "failed", or stays as it was, says nothing new of a
\* failed step.
LEMMA FailurePointKept ==
  ASSUME FailedPointsAtFailedStep, slip' = slip,
         store' = store \/ store'.status # "failed"
  PROVE  FailedPointsAtFailedStep'
  <1>1. CASE store'.status # "failed"
    BY <1>1 DEF FailedPointsAtFailedStep
  <1>2. CASE store' = store
    <2>1. StepKey(store.cursor + 1)' = StepKey(store.cursor + 1)
      BY <1>2 DEF StepKey
    <2> QED
      BY <1>2, <2>1 DEF FailedPointsAtFailedStep, Positions, StateOf
  <1> QED
    BY <1>1, <1>2

\* Giving a step back leaves the cursor just before a step that has an error,
\* and the state "failed" if it was run at all.
LEMMA FailurePointSet ==
  ASSUME TypeInv, slip' = slip, NEW m \in {Missed, Failed, Rejected}, GivesBack(m)
  PROVE  FailedPointsAtFailedStep'
  <1>1. InStep /\ slip \in Slips
    BY DEF GivesBack, InStep, TypeInv, TypeOK
  <1>2. m \in Message /\ m.cursor = msg.cursor /\ msg.cursor \in Positions
    BY <1>1, MissedFields, FailedFields, RejectedFields, OnAStep DEF Marked
  <1>3. msg.cursor \in m.errors
    BY <1>1, MissedFields, FailedFields, RejectedFields
  <1>4. slip[msg.cursor].name \in Handlers => m.states[StepKey(msg.cursor)] = "failed"
    <2> SUFFICES ASSUME slip[msg.cursor].name \in Handlers
                 PROVE  m.states[StepKey(msg.cursor)] = "failed"
      OBVIOUS
    <2>1. Marked(msg, m, "failed")
      BY <1>1, FailedFields, RejectedFields DEF GivesBack, Step
    <2>2. msg.states \in [StepKeys -> StepStatus] /\ StepKey(msg.cursor) \in StepKeys
      BY <1>2 DEF TypeInv, TypeOK, Message, StepKeys
    <2> QED
      BY <2>1, <2>2 DEF Marked
  <1>5. /\ store'.cursor + 1 = msg.cursor /\ store'.states = m.states
        /\ store'.errors = m.errors
    BY <1>1, <1>2, GiveBackFields DEF GivesBack, Positions
  <1>6. StateOf(store, store.cursor + 1)' = m.states[StepKey(msg.cursor)]
    BY <1>5, SameKeys DEF StateOf
  <1> QED
    BY <1>2, <1>3, <1>4, <1>5, <1>6 DEF FailedPointsAtFailedStep, Positions

\* On every path that stores "failed", the next step to run is the one that
\* failed, and the snapshot says so.
THEOREM FailuresAreRetried == Spec => []FailedPointsAtFailedStep
  <1>1. Init => FailedPointsAtFailedStep
    <2> SUFFICES ASSUME Init PROVE FailedPointsAtFailedStep
      OBVIOUS
    <2>1. store.status = "created"
      BY DEF Init, NewMessage
    <2> QED
      BY <2>1 DEF FailedPointsAtFailedStep
  <1>2. TypeInv /\ ClaimInv /\ StatusInv /\ FailedPointsAtFailedStep /\ [Next]_vars
          => FailedPointsAtFailedStep'
    <2> SUFFICES ASSUME TypeInv, ClaimInv, StatusInv, FailedPointsAtFailedStep, [Next]_vars
                 PROVE  FailedPointsAtFailedStep'
      OBVIOUS
    <2>1. slip' = slip
      BY SameSlip
    <2>2. CASE pc = "failed" /\ \E t \in Positions : store' = JumpedTo(t)
      <3>1. InStep /\ msg.status = "running"
        BY <2>2 DEF InStep, StatusInv
      <3> QED
        BY <2>1, <2>2, <3>1, JumpedToFields, FailurePointKept
    <2> QED
      BY <2>1, <2>2, StoredSnapshots, FailurePointKept, FailurePointSet
  <1> QED
    BY <1>1, <1>2, ResumeInvariant, PTL DEF Spec

-----------------------------------------------------------------------------
(* What one step can record. *)

\* m and n agree on step states, history and outputs.
Same(m, n) ==
  /\ n.states = m.states
  /\ n.history = m.history
  /\ n.results = m.results

\* n has the live message's step states, with st for the current step.
MarkedAs(n, st) == n.states = [msg.states EXCEPT ![StepKey(msg.cursor)] = st]

\* n has the live message's history, with an entry h for the current step.
LoggedAs(n, h) == n.history = msg.history \cup {<<msg.cursor, h>>}

FailureStatus == {"failed", "skipped", "jumped"}

\* A save of this step may fail.
Interruptible == Faults # {} \/ ctx # "live"

\* The records of a step, by where the call is.
Recorded(n) ==
  /\ n.results = msg.results
  /\ \/ /\ pc \in {"starting", "loop", "next", "dispatch", "finish"}
        /\ n.states = msg.states /\ n.history = msg.history
     \/ /\ pc = "dispatch" /\ AlreadyDone
        /\ n.states = msg.states /\ LoggedAs(n, "idempotent_skip")
     \/ /\ pc = "dispatch" /\ ~AlreadyDone
        /\ MarkedAs(n, "running") /\ n.history = msg.history
        /\ pc' = "handle" \/ Interruptible
     \/ /\ pc = "succeeded"
        /\ MarkedAs(n, Outcome) \/ MarkedAs(n, "failed")
        /\ LoggedAs(n, Outcome)
     \/ /\ pc = "failed"
        /\ \E st \in FailureStatus : MarkedAs(n, st)
        /\ n.history = msg.history \/ \E h \in FailureStatus : LoggedAs(n, h)

\* n is saved, or the call ends because that fails.
Saving(n) ==
  /\ ran' = ran /\ ctx' = ctx
  /\ store' = store \/ Same(n, store')
  /\ Same(n, store') \/ Interruptible
  /\ \/ pc' = "idle" /\ msg' = NewMessage
     \/ /\ Same(n, store') /\ Same(n, msg')
        /\ \/ pc' \in {"loop", "dispatch", "finish"}
           \/ pc' = "handle" /\ pc = "dispatch" /\ msg'.cursor = msg.cursor

\* The call goes on, or dies, without a record.
Quiet ==
  /\ store' = store /\ ran' = ran
  /\ \/ msg' = NewMessage /\ pc' = "idle" /\ "crash" \in Faults
     \/ /\ msg' = msg
        /\ \/ pc' = pc
           \/ pc = "loop" /\ pc' \in {"next", "finish"}
           \/ pc = "handle" /\ pc' = "failed"

\* A save in the call's context.
LEMMA SaveThenSaves ==
  ASSUME UNCHANGED <<ctx, ran>>,
         NEW m, NEW live, NEW next, Same(m, live), SaveThen(m, live, next),
         \/ next \in {"loop", "dispatch", "finish"}
         \/ next = "handle" /\ pc = "dispatch" /\ live.cursor = msg.cursor
  PROVE  Saving(m)
  BY DEF SaveThen, SaveFails, Return, Saving, Same, Interruptible

\* A save in the background context.
LEMMA SaveAndAbortSaves ==
  ASSUME UNCHANGED <<ctx, ran>>, NEW m, NEW n, Same(n, m), SaveAndAbort(m)
  PROVE  Saving(n)
  BY DEF SaveAndAbort, Return, Saving, Same, Interruptible

\* The save after a step without error.
LEMMA SaveSettledSaves ==
  ASSUME UNCHANGED <<ctx, ran>>, NEW m \in Message, SaveSettled(m)
  PROVE  Saving(m)
  <1>1. Same(m, [m EXCEPT !.status = "stopped"]) /\ Same(m, m)
    BY DEF Same, Message
  <1>2. SaveThen(m, [m EXCEPT !.status = "stopped"], "finish") \/ SaveThen(m, m, "loop")
    BY DEF SaveSettled
  <1> QED
    BY <1>1, <1>2, SaveThenSaves

\* Every step enters a call, takes effect, is quiet, or saves one of the records.
LEMMA StepRecords ==
  ASSUME TypeInv, [Next]_vars
  PROVE  \/ Deliver
         \/ HandlerSucceeds
         \/ Quiet
         \/ \E n : Recorded(n) /\ Saving(n)
  <1> DEFINE Saves == \E n : Recorded(n) /\ Saving(n)
  <1>0. slip \in Slips /\ msg \in Message /\ \A m : Same(m, m)
    BY DEF TypeInv, TypeOK, Same
  <1>1. CASE SaveStart
    <2>1. Recorded(msg) /\ SaveThen(msg, msg, "loop") /\ UNCHANGED <<ctx, ran>>
      BY <1>1 DEF SaveStart, Recorded
    <2>2. Saving(msg)
      BY <1>0, <2>1, SaveThenSaves
    <2> QED
      BY <2>1, <2>2
  <1>2. CASE CheckLoop
    <2> DEFINE m == [msg EXCEPT !.status = "cancelled"]
    <2>1. Same(msg, m) /\ Recorded(msg) /\ UNCHANGED <<ctx, ran>>
      BY <1>0, <1>2 DEF CheckLoop, Recorded, Same, Message
    <2>2. Quiet \/ SaveAndAbort(m)
      BY <1>2 DEF CheckLoop, Quiet
    <2> HIDE DEF m
    <2>3. SaveAndAbort(m) => Saving(msg)
      BY <2>1, SaveAndAbortSaves
    <2> QED
      BY <2>1, <2>2, <2>3
  <1>3. CASE SaveBeforeStep
    <2> DEFINE live == [msg EXCEPT !.cursor = SetCursor(@ + 1)]
    <2>1. /\ Same(msg, live) /\ Recorded(msg) /\ UNCHANGED <<ctx, ran>>
          /\ SaveThen(msg, live, "dispatch")
      BY <1>0, <1>3 DEF SaveBeforeStep, Recorded, Same, Message
    <2> HIDE DEF live
    <2>2. Saving(msg)
      BY <2>1, SaveThenSaves
    <2> QED
      BY <2>1, <2>2
  <1>4. CASE MissingHandler
    <2>1. pc = "dispatch" /\ InStep /\ UNCHANGED <<ctx, ran>>
      BY <1>4 DEF MissingHandler, InStep
    <2>2. Missed \in Message /\ Missed.cursor \in Positions /\ Same(msg, Missed)
      BY <2>1, MissedFields, OnAStep DEF Same
    <2>3. Recorded(Missed) /\ Same(Missed, GiveBack(Missed))
      BY <1>0, <2>1, <2>2, GiveBackFields DEF Recorded, Same
    <2>4. SaveAndAbort(GiveBack(Missed)) \/ SaveThen(Missed, Missed, "loop")
      BY <1>4 DEF MissingHandler, Missed
    <2>5. Saving(Missed)
      BY <1>0, <2>1, <2>3, <2>4, SaveAndAbortSaves, SaveThenSaves
    <2> QED
      BY <2>3, <2>5
  <1>5. CASE IdempotentSkip
    <2>1. pc = "dispatch" /\ InStep /\ AlreadyDone /\ UNCHANGED <<ctx, ran>>
      BY <1>5 DEF IdempotentSkip, InStep
    <2>2. Recorded(Repeated)
      BY <2>1, RepeatedFields DEF Recorded, LoggedAs
    <2>3. SaveThen(Repeated, Repeated, "loop")
      BY <1>5 DEF IdempotentSkip, Repeated
    <2>4. Saving(Repeated)
      BY <1>0, <2>1, <2>3, SaveThenSaves
    <2> QED
      BY <2>2, <2>4
  <1>6. CASE ClaimStep
    <2> DEFINE claim == Mark(msg, "running")
    <2>1. /\ pc = "dispatch" /\ ~AlreadyDone /\ UNCHANGED <<ctx, ran>>
          /\ SaveThen(claim, claim, "handle")
      BY <1>6 DEF ClaimStep
    <2>2. /\ Marked(msg, claim, "running") /\ claim.history = msg.history
          /\ claim.results = msg.results
      BY <1>0, MarkFields DEF StepStatus
    <2> HIDE DEF claim
    <2>3. pc' = "handle" \/ Interruptible
      BY <2>1 DEF SaveThen, SaveFails, Interruptible
    <2>4. Recorded(claim) /\ claim.cursor = msg.cursor
      BY <2>1, <2>2, <2>3 DEF Recorded, MarkedAs, Marked
    <2>5. Saving(claim)
      BY <1>0, <2>1, <2>4, SaveThenSaves
    <2> QED
      BY <2>4, <2>5
  <1>7. CASE HandlerFails
    BY <1>7 DEF HandlerFails, Quiet
  <1>8. CASE SettleStep
    <2>1. pc = "succeeded" /\ InStep /\ UNCHANGED <<ctx, ran>>
      BY <1>8 DEF SettleStep, InStep
    <2>2. Settled \in Message /\ Recorded(Settled)
      BY <2>1, SettledFields DEF Recorded, Marked, MarkedAs, LoggedAs
    <2>3. \A t \in Positions : Redirected(t) \in Message /\ Recorded(Redirected(t))
      BY <2>1, SettledFields, RedirectedFields DEF Recorded, Marked, MarkedAs, LoggedAs
    <2>4. SaveSettled(Settled) \/ \E t \in Positions : SaveSettled(Redirected(t))
      BY <1>8 DEF SettleStep, Redirected
    <2>5. Saving(Settled) \/ \E t \in Positions : Saving(Redirected(t))
      BY <2>1, <2>2, <2>3, <2>4, SaveSettledSaves
    <2> QED
      BY <2>2, <2>3, <2>5
  <1>9. CASE RejectJump
    <2>1. pc = "succeeded" /\ InStep /\ UNCHANGED <<ctx, ran>>
      BY <1>9 DEF RejectJump, InStep
    <2>2. Rejected \in Message /\ Rejected.cursor \in Positions /\ Recorded(Rejected)
      BY <2>1, SettledFields, RejectedFields, OnAStep
         DEF Recorded, Marked, MarkedAs, LoggedAs
    <2>3. Same(Rejected, GiveBack(Rejected))
      BY <1>0, <2>2, GiveBackFields DEF Same
    <2>4. SaveAndAbort(GiveBack(Rejected)) \/ SaveSettled(Rejected)
      BY <1>9 DEF RejectJump, Rejected
    <2>5. Saving(Rejected)
      BY <2>1, <2>2, <2>3, <2>4, SaveAndAbortSaves, SaveSettledSaves
    <2> QED
      BY <2>2, <2>5
  <1>10. CASE StopOnFailure
    <2>1. /\ pc = "failed" /\ InStep /\ UNCHANGED <<ctx, ran>>
          /\ SaveAndAbort(GiveBack(Failed))
      BY <1>10 DEF StopOnFailure, InStep
    <2>2. Failed \in Message /\ Failed.cursor \in Positions /\ Recorded(Failed)
      BY <2>1, FailedFields, OnAStep DEF Recorded, Marked, MarkedAs, FailureStatus
    <2>3. Same(Failed, GiveBack(Failed))
      BY <1>0, <2>2, GiveBackFields DEF Same
    <2>4. Saving(Failed)
      BY <2>1, <2>3, SaveAndAbortSaves
    <2> QED
      BY <2>2, <2>4
  <1>11. CASE ContinueOnFailure
    <2>1. /\ pc = "failed" /\ InStep /\ UNCHANGED <<ctx, ran>>
          /\ SaveThen(Continued, Continued, "loop")
      BY <1>11 DEF ContinueOnFailure, InStep, Continued
    <2>2. Recorded(Continued)
      BY <2>1, ContinuedFields DEF Recorded, Marked, MarkedAs, LoggedAs, FailureStatus
    <2>3. Saving(Continued)
      BY <1>0, <2>1, SaveThenSaves
    <2> QED
      BY <2>2, <2>3
  <1>12. CASE SkipOnFailure
    <2>1. /\ pc = "failed" /\ InStep /\ UNCHANGED <<ctx, ran>>
          /\ SaveThen(SkippedOver, SkippedOver, "loop")
      BY <1>12 DEF SkipOnFailure, InStep, SkippedOver
    <2>2. Recorded(SkippedOver)
      BY <2>1, SkippedOverFields DEF Recorded, Marked, MarkedAs, LoggedAs, FailureStatus
    <2>3. Saving(SkippedOver)
      BY <1>0, <2>1, SaveThenSaves
    <2> QED
      BY <2>2, <2>3
  <1>13. CASE JumpOnFailure
    <2>1. pc = "failed" /\ InStep /\ UNCHANGED <<ctx, ran>>
      BY <1>13 DEF JumpOnFailure, InStep
    <2>2. PICK t \in Positions : SaveThen(JumpedTo(t), JumpedTo(t), "loop")
      BY <1>13 DEF JumpOnFailure, JumpedTo
    <2>3. Recorded(JumpedTo(t))
      BY <2>1, JumpedToFields DEF Recorded, MarkedAs, LoggedAs, FailureStatus
    <2>4. Saving(JumpedTo(t))
      BY <1>0, <2>1, <2>2, SaveThenSaves
    <2> QED
      BY <2>3, <2>4
  <1>14. CASE Finish
    <2> DEFINE m == IF msg.status = "running" THEN [msg EXCEPT !.status = "completed"] ELSE msg
    <2>1. Same(msg, m) /\ Recorded(msg) /\ UNCHANGED <<ctx, ran>>
      BY <1>0, <1>14 DEF Finish, Recorded, Same, Message
    <2>2. \/ store' = m /\ Return("ok")
          \/ SaveFails(m) /\ Return("error")
      BY <1>14 DEF Finish
    <2> HIDE DEF m
    <2>3. Saving(msg)
      BY <2>1, <2>2 DEF SaveFails, Return, Saving, Same, Interruptible
    <2> QED
      BY <2>1, <2>3
  <1>15. CASE Crash \/ Cancel \/ UNCHANGED vars
    BY <1>15 DEF Crash, Return, Cancel, vars, Quiet
  <1> QED
    BY <1>1, <1>2, <1>3, <1>4, <1>5, <1>6, <1>7, <1>8, <1>9, <1>10, <1>11, <1>12,
       <1>13, <1>14, <1>15 DEF Next, Progress

\* processPayload answers at once, or makes the stored message the live one.
LEMMA DeliverFields ==
  ASSUME TypeInv, Deliver
  PROVE  /\ pc = "idle" /\ store' = store /\ ran' = ran /\ ctx' = "live"
         /\ \/ pc' = "idle" /\ msg' = NewMessage
            \/ pc' = "starting" /\ Same(store, msg')
  <1>1. store \in Message
    BY DEF TypeInv, TypeOK
  <1>2. CASE Return("ok")
    BY <1>2 DEF Deliver, Return
  <1>3. CASE /\ pc' = "starting"
             /\ msg' = [store EXCEPT !.status = "running", !.cursor = SetCursor(@)]
    BY <1>1, <1>3 DEF Deliver, Same, Message
  <1> QED
    BY <1>2, <1>3 DEF Deliver

\* A handler's effect only adds to the results.
LEMMA HandlerFields ==
  ASSUME TypeInv, HandlerSucceeds
  PROVE  /\ pc = "handle" /\ pc' = "succeeded" /\ store' = store /\ ctx' = ctx
         /\ msg'.states = msg.states /\ msg'.history = msg.history
         /\ msg'.cursor = msg.cursor /\ msg'.results = msg.results \cup {msg.cursor}
         /\ \A i \in Positions \ {msg.cursor} : ran'[i] = ran[i]
  BY DEF HandlerSucceeds, TypeInv, TypeOK, Message

\* After a mark, a step of another key is as it was.
LEMMA OtherKeys ==
  ASSUME TypeInv, InStep, NEW n, NEW st, MarkedAs(n, st), NEW i \in Positions
  PROVE  /\ StepKey(i) # StepKey(msg.cursor) => StateOf(n, i) = StateOf(msg, i)
         /\ StepKey(i) = StepKey(msg.cursor) => StateOf(n, i) = st
  <1>1. msg.states \in [StepKeys -> StepStatus] /\ StepKey(i) \in StepKeys
    BY DEF TypeInv, TypeOK, Message, StepKeys
  <1> QED
    BY <1>1 DEF MarkedAs, StateOf

-----------------------------------------------------------------------------
(* A step is skipped as idempotent only after its own success. *)

\* A step that m holds for successful, or as skipped, has succeeded in m's own
\* history, and its output is in m.
OwnSuccess(m) ==
  \A i \in Positions :
    StateOf(m, i) = "success" \/ <<i, "idempotent_skip">> \in m.history =>
      <<i, "success">> \in m.history /\ i \in m.results

SuccessInv ==
  DistinctKeys =>
    /\ OwnSuccess(store)
    /\ OwnSuccess(msg)
    /\ pc = "succeeded" => msg.cursor \in msg.results

\* What holds of a message holds of those that agree with it.
LEMMA SameSuccess ==
  ASSUME slip' = slip, NEW m, OwnSuccess(m)
  PROVE  /\ Same(m, store') => OwnSuccess(store)'
         /\ Same(m, msg') => OwnSuccess(msg)'
  <1>1. Positions' = Positions /\ \A i : StepKey(i)' = StepKey(i)
    BY SameKeys DEF Positions
  <1> QED
    BY <1>1 DEF OwnSuccess, StateOf, Same

\* Nothing is successful in a new message.
LEMMA NewHasNoSuccess == OwnSuccess(NewMessage)
  <1>1. NewMessage.history = {}
    BY DEF NewMessage
  <1>2. ASSUME NEW i \in Positions PROVE StateOf(NewMessage, i) = "none"
    BY DEF NewMessage, StateOf, StepKeys
  <1> QED
    BY <1>1, <1>2 DEF OwnSuccess

\* A record keeps to it: "success" is only set, together with its history entry,
\* for a step whose output is there, and only such a step is skipped.
LEMMA RecordedSuccess ==
  ASSUME TypeInv, SuccessInv, DistinctKeys, NEW n, Recorded(n)
  PROVE  OwnSuccess(n)
  <1>1. OwnSuccess(msg) /\ (pc = "succeeded" => msg.cursor \in msg.results)
    BY DEF SuccessInv
  <1>2. CASE n.states = msg.states /\ n.history = msg.history
    BY <1>1, <1>2 DEF Recorded, OwnSuccess, StateOf
  <1>3. CASE /\ pc = "dispatch" /\ AlreadyDone
             /\ n.states = msg.states /\ LoggedAs(n, "idempotent_skip")
    <2>1. msg.cursor \in Positions
      BY <1>3, OnAStep DEF InStep
    <2>2. <<msg.cursor, "success">> \in msg.history /\ msg.cursor \in msg.results
      BY <1>1, <1>3, <2>1 DEF AlreadyDone, OwnSuccess
    <2> QED
      BY <1>1, <1>3, <2>2 DEF Recorded, OwnSuccess, StateOf, LoggedAs
  <1>4. ASSUME InStep, NEW st, MarkedAs(n, st),
               st = "success" => /\ <<msg.cursor, "success">> \in n.history
                                 /\ msg.cursor \in msg.results,
               \/ n.history = msg.history
               \/ \E h : LoggedAs(n, h) /\ h # "idempotent_skip"
        PROVE  OwnSuccess(n)
    <2>1. n.results = msg.results /\ msg.history \subseteq n.history /\ msg.cursor \in Positions
      BY <1>4, OnAStep DEF Recorded, LoggedAs
    <2> SUFFICES ASSUME NEW i \in Positions,
                        StateOf(n, i) = "success" \/ <<i, "idempotent_skip">> \in n.history
                 PROVE  <<i, "success">> \in n.history /\ i \in n.results
      BY DEF OwnSuccess
    <2>2. CASE <<i, "idempotent_skip">> \in n.history
      <3>1. <<i, "idempotent_skip">> \in msg.history
        BY <1>4, <2>2 DEF LoggedAs
      <3> QED
        BY <1>1, <2>1, <3>1 DEF OwnSuccess
    <2>3. CASE StateOf(n, i) = "success"
      <3>1. CASE i = msg.cursor
        <4>1. st = "success"
          BY <1>4, <2>3, <3>1, OtherKeys
        <4> QED
          BY <1>4, <2>1, <3>1, <4>1
      <3>2. CASE i # msg.cursor
        <4>1. StepKey(i) # StepKey(msg.cursor)
          BY <2>1, <3>2 DEF DistinctKeys
        <4>2. StateOf(msg, i) = "success"
          BY <1>4, <2>3, <4>1, OtherKeys
        <4> QED
          BY <1>1, <2>1, <4>2 DEF OwnSuccess
      <3> QED
        BY <3>1, <3>2
    <2> QED
      BY <2>2, <2>3
  <1>5. CASE pc = "dispatch" /\ MarkedAs(n, "running") /\ n.history = msg.history
    BY <1>4, <1>5 DEF InStep
  <1>6. CASE /\ pc = "succeeded"
             /\ MarkedAs(n, Outcome) \/ MarkedAs(n, "failed")
             /\ LoggedAs(n, Outcome)
    <2>1. InStep /\ Outcome \in {"success", "stopped"} /\ msg.cursor \in msg.results
      BY <1>1, <1>6 DEF InStep, Outcome
    <2>2. <<msg.cursor, Outcome>> \in n.history
      BY <1>6 DEF LoggedAs
    <2> QED
      BY <1>4, <1>6, <2>1, <2>2
  <1>7. CASE /\ pc = "failed"
             /\ \E st \in FailureStatus : MarkedAs(n, st)
             /\ n.history = msg.history \/ \E h \in FailureStatus : LoggedAs(n, h)
    <2>1. InStep
      BY <1>7 DEF InStep
    <2>2. PICK st \in FailureStatus : MarkedAs(n, st)
      BY <1>7
    <2>3. n.history = msg.history \/ \E h : LoggedAs(n, h) /\ h # "idempotent_skip"
      BY <1>7 DEF FailureStatus
    <2> QED
      BY <1>4, <2>1, <2>2, <2>3 DEF FailureStatus
  <1> QED
    BY <1>2, <1>3, <1>5, <1>6, <1>7 DEF Recorded

\* Every action keeps SuccessInv.
LEMMA SuccessInvNext == TypeInv /\ SuccessInv /\ [Next]_vars => SuccessInv'
  <1> SUFFICES ASSUME TypeInv, SuccessInv, [Next]_vars, DistinctKeys'
               PROVE  /\ OwnSuccess(store)' /\ OwnSuccess(msg)'
                      /\ pc' = "succeeded" => msg'.cursor \in msg'.results
    BY DEF SuccessInv
  <1>0. /\ slip' = slip /\ \A m : Same(m, m)
        /\ DistinctKeys /\ OwnSuccess(store) /\ OwnSuccess(msg) /\ OwnSuccess(NewMessage)
        /\ pc = "succeeded" => msg.cursor \in msg.results
    <2>1. slip' = slip
      BY SameSlip
    <2>2. DistinctKeys
      BY <2>1, SameKeys DEF DistinctKeys, Positions
    <2> QED
      BY <2>1, <2>2, NewHasNoSuccess DEF SuccessInv, Same
  <1>1. CASE Deliver
    BY <1>0, <1>1, DeliverFields, SameSuccess
  <1>2. CASE HandlerSucceeds
    <2>1. OwnSuccess(msg')
      BY <1>0, <1>2, HandlerFields DEF OwnSuccess, StateOf
    <2>2. Same(msg', msg') /\ Same(store, store')
      BY <1>2, HandlerFields DEF Same
    <2>3. msg'.cursor \in msg'.results
      BY <1>2, HandlerFields
    <2>4. OwnSuccess(store)'
      BY <1>0, <2>2, SameSuccess
    <2>5. OwnSuccess(msg)'
      BY <1>0, <2>1, <1>2, HandlerFields, SameKeys DEF OwnSuccess, StateOf, Positions
    <2> QED
      BY <2>3, <2>4, <2>5
  <1>3. CASE Quiet
    BY <1>0, <1>3, SameSuccess DEF Quiet
  <1>4. ASSUME NEW n, Recorded(n), Saving(n)
        PROVE  /\ OwnSuccess(store)' /\ OwnSuccess(msg)'
               /\ pc' = "succeeded" => msg'.cursor \in msg'.results
    <2>1. OwnSuccess(n)
      BY <1>0, <1>4, RecordedSuccess
    <2> QED
      BY <1>0, <1>4, <2>1, SameSuccess DEF Saving
  <1> QED
    BY <1>1, <1>2, <1>3, <1>4, StepRecords

\* A step is skipped as idempotent only if its own earlier success, and with it
\* its output, is part of the same snapshot.
THEOREM SkipsFollowSuccess == Spec => []SkipOnlyAfterOwnSuccess
  <1>1. Init => SuccessInv
    BY NewHasNoSuccess DEF Init, SuccessInv
  <1>2. SuccessInv => SkipOnlyAfterOwnSuccess
    BY DEF SuccessInv, OwnSuccess, SkipOnlyAfterOwnSuccess
  <1> QED
    BY <1>1, <1>2, TypeInvInit, TypeInvNext, SuccessInvNext, PTL DEF Spec

-----------------------------------------------------------------------------
(* With idempotency, success is final. *)

\* While a call runs, its message knows every success that is in the store.
KnownSuccess ==
  Idempotency /\ pc # "idle" =>
    \A k \in StepKeys : store.states[k] = "success" => msg.states[k] = "success"

\* A record takes no success back: a step is claimed only if it has not
\* succeeded, and while it runs the store has its state as "running".
LEMMA RecordedKeepsSuccess ==
  ASSUME TypeInv, ClaimInv, KnownSuccess, Idempotency, NEW n, Recorded(n), pc # "idle",
         NEW k \in StepKeys, store.states[k] = "success"
  PROVE  n.states[k] = "success"
  <1>1. msg.states[k] = "success" /\ msg.states \in [StepKeys -> StepStatus]
    BY DEF KnownSuccess, TypeInv, TypeOK, Message
  <1>2. CASE n.states = msg.states
    BY <1>1, <1>2
  <1>3. CASE /\ pc \in {"dispatch", "succeeded", "failed"}
             /\ pc = "dispatch" => ~AlreadyDone
             /\ \E st : MarkedAs(n, st)
    <2>1. CASE pc = "dispatch"
      <3>1. msg.states[StepKey(msg.cursor)] # "success"
        BY <1>3, <2>1 DEF AlreadyDone, StateOf
      <3> QED
        BY <1>1, <1>3, <3>1 DEF MarkedAs
    <2>2. CASE pc \in {"succeeded", "failed"}
      <3>1. store.states[StepKey(msg.cursor)] = "running"
        BY <2>2 DEF ClaimInv, StateOf
      <3> QED
        BY <1>1, <1>3, <3>1 DEF MarkedAs
    <2> QED
      BY <1>3, <2>1, <2>2
  <1> QED
    BY <1>2, <1>3 DEF Recorded

\* No action takes a success out of the store, and each keeps KnownSuccess.
LEMMA KnownSuccessNext ==
  ASSUME TypeInv, ClaimInv, KnownSuccess, [Next]_vars
  PROVE  /\ KnownSuccess'
         /\ Idempotency => \A k \in StepKeys : store.states[k] = "success" =>
                             store'.states[k] = "success"
  <1>0. StepKeys' = StepKeys
    BY SameSlip
  <1>1. CASE Deliver
    BY <1>0, <1>1, DeliverFields DEF KnownSuccess, Same
  <1>2. CASE HandlerSucceeds
    BY <1>0, <1>2, HandlerFields DEF KnownSuccess
  <1>3. CASE Quiet
    BY <1>0, <1>3 DEF KnownSuccess, Quiet
  <1>4. ASSUME NEW n, Recorded(n), Saving(n)
        PROVE  /\ KnownSuccess'
               /\ Idempotency => \A k \in StepKeys : store.states[k] = "success" =>
                                   store'.states[k] = "success"
    <2>1. pc # "idle"
      BY <1>4 DEF Recorded
    <2> QED
      BY <1>0, <1>4, <2>1, RecordedKeepsSuccess DEF KnownSuccess, Saving, Same
  <1> QED
    BY <1>1, <1>2, <1>3, <1>4, StepRecords

\* With idempotency on, a step stored as successful is never executed again and
\* never loses that state, whatever jumps, faults and redeliveries follow.
THEOREM SuccessStaysFinal == Spec => SuccessIsFinal
  <1> DEFINE Final == \A i \in Positions : Idempotency /\ StateOf(store, i) = "success" =>
                        ran'[i] = ran[i] /\ StateOf(store', i) = "success"
             Claimed == \A i \in Positions : ran'[i] # ran[i] =>
                          store.cursor = i /\ StateOf(store, i) = "running"
  <1>1. Init => KnownSuccess
    BY DEF Init, KnownSuccess
  <1>2. TypeInv /\ ClaimInv /\ KnownSuccess /\ [Next]_vars => KnownSuccess'
    BY KnownSuccessNext
  <1>3. TypeInv /\ ClaimInv /\ KnownSuccess /\ [Next]_vars /\ [Claimed]_vars => [Final]_vars
    <2> SUFFICES ASSUME TypeInv, ClaimInv, KnownSuccess, [Next]_vars, Claimed,
                        NEW i \in Positions, Idempotency, StateOf(store, i) = "success"
                 PROVE  ran'[i] = ran[i] /\ StateOf(store', i) = "success"
      BY DEF vars
    <2>1. StepKey(i) \in StepKeys
      BY DEF StepKeys
    <2> QED
      BY <2>1, KnownSuccessNext DEF StateOf
  <1> QED
    BY <1>1, <1>2, <1>3, ClaimInvariant, EffectsAreClaimed, PTL
       DEF Spec, SuccessIsFinal, ClaimBeforeEffect

-----------------------------------------------------------------------------
(* What a completed message contains when nothing interrupts a call. *)

\* Without faults the context of a call is never cancelled.
Uncancelled == Faults = {} => ctx = "live"

\* Only Cancel cancels a context, and it is a fault.
LEMMA NothingIsCancelled == Spec => []Uncancelled
  <1>1. Init => Uncancelled
    BY DEF Init, Uncancelled
  <1>2. Uncancelled /\ [Next]_vars => Uncancelled'
    <2> SUFFICES ASSUME Faults = {}, ctx = "live", [Next]_vars PROVE ctx' = "live"
      BY DEF Uncancelled
    <2>1. ~Cancel
      BY DEF Cancel
    <2> QED
      BY <2>1 DEF Next, Progress, Deliver, SaveStart, CheckLoop, SaveBeforeStep, MissingHandler,
           IdempotentSkip, ClaimStep, HandlerSucceeds, HandlerFails, SettleStep, RejectJump,
           StopOnFailure, ContinueOnFailure, SkipOnFailure, JumpOnFailure, Finish, Crash, vars
  <1> QED
    BY <1>1, <1>2, PTL DEF Spec

\* Only the current step is ever "running", and only from its claim to its end.
RunningInv ==
  \A m \in {store, msg}, k \in StepKeys : m.states[k] = "running" =>
    pc \in {"handle", "succeeded", "failed"} /\ k = StepKey(msg.cursor)

\* Every effect is in the stored results, but for that of the step about to be
\* settled; the live message has all that the store has.
ResultInv ==
  /\ pc # "idle" => store.results \subseteq msg.results
  /\ \A i \in Positions : ran[i] > 0 =>
       \/ i \in store.results
       \/ pc = "succeeded" /\ i = msg.cursor /\ i \in msg.results

\* Every action keeps RunningInv.
LEMMA RunningInvNext ==
  ASSUME Faults = {}
  PROVE  TypeInv /\ Uncancelled /\ RunningInv /\ [Next]_vars => RunningInv'
  <1> SUFFICES ASSUME TypeInv, ctx = "live", RunningInv, [Next]_vars PROVE RunningInv'
    BY DEF Uncancelled
  <1>0. /\ StepKeys' = StepKeys /\ \A i : StepKey(i)' = StepKey(i)
        /\ \A k \in StepKeys : NewMessage.states[k] = "none"
        /\ msg.states \in [StepKeys -> StepStatus]
    BY SameSlip, SameKeys DEF NewMessage, TypeInv, TypeOK, Message
  <1>1. CASE Deliver
    BY <1>0, <1>1, DeliverFields DEF RunningInv, Same
  <1>2. CASE HandlerSucceeds
    BY <1>0, <1>2, HandlerFields DEF RunningInv
  <1>3. CASE Quiet
    BY <1>0, <1>3 DEF RunningInv, Quiet
  <1>4. ASSUME NEW n, Recorded(n), Saving(n)
        PROVE  RunningInv'
    <2>1. Same(n, store') /\ ~Interruptible
      BY <1>4 DEF Saving, Interruptible
    <2>2. ASSUME NEW k \in StepKeys, n.states[k] = "running"
          PROVE  pc' = "handle" /\ k = StepKey(msg.cursor)
      BY <1>0, <1>4, <2>1, <2>2 DEF Recorded, RunningInv, MarkedAs, FailureStatus, Outcome
    <2> QED
      BY <1>0, <1>4, <2>1, <2>2 DEF RunningInv, Saving, Same
  <1> QED
    BY <1>1, <1>2, <1>3, <1>4, StepRecords

\* Every action keeps ResultInv.
LEMMA ResultInvNext ==
  ASSUME Faults = {}
  PROVE  TypeInv /\ Uncancelled /\ ResultInv /\ [Next]_vars => ResultInv'
  <1> SUFFICES ASSUME TypeInv, ctx = "live", ResultInv, [Next]_vars PROVE ResultInv'
    BY DEF Uncancelled
  <1>0. Positions' = Positions
    BY SameSlip
  <1>1. CASE Deliver
    BY <1>0, <1>1, DeliverFields DEF ResultInv, Same
  <1>2. CASE HandlerSucceeds
    BY <1>0, <1>2, HandlerFields DEF ResultInv
  <1>3. CASE Quiet
    BY <1>0, <1>3 DEF ResultInv, Quiet
  <1>4. ASSUME NEW n, Recorded(n), Saving(n)
        PROVE  ResultInv'
    <2>1. store'.results = msg.results /\ ran' = ran /\ pc # "idle"
      BY <1>4 DEF Recorded, Saving, Same, Interruptible
    <2>2. pc' # "idle" => msg'.results = msg.results
      BY <1>4 DEF Recorded, Saving, Same
    <2>3. pc' # "succeeded"
      BY <1>4 DEF Saving
    <2> QED
      BY <1>0, <2>1, <2>2, <2>3 DEF ResultInv
  <1> QED
    BY <1>1, <1>2, <1>3, <1>4, StepRecords

\* Without faults, a completed message has no step that was begun and never
\* brought to an outcome.
THEOREM UninterruptedIsSettled ==
  ASSUME Faults = {}
  PROVE  Spec => []CompletedMeansSettled
  <1>1. Init => RunningInv
    <2> SUFFICES ASSUME Init PROVE RunningInv
      OBVIOUS
    <2>1. \A k \in StepKeys : NewMessage.states[k] = "none"
      BY DEF NewMessage
    <2> QED
      BY <2>1 DEF Init, RunningInv
  <1>2. StatusInv /\ RunningInv => CompletedMeansSettled
    BY DEF StatusInv, RunningInv, CompletedMeansSettled, StateOf, StepKeys
  <1>3. TypeInv /\ Uncancelled /\ RunningInv /\ [Next]_vars => RunningInv'
    BY RunningInvNext
  <1> QED
    BY <1>1, <1>2, <1>3, ResumeInvariant, NothingIsCancelled, PTL DEF Spec

\* Without faults, a completed message holds the output of every step that took
\* effect.
THEOREM UninterruptedKeepsResults ==
  ASSUME Faults = {}
  PROVE  Spec => []CompletedKeepsResults
  <1>1. Init => ResultInv
    BY DEF Init, ResultInv
  <1>2. StatusInv /\ ResultInv => CompletedKeepsResults
    BY DEF StatusInv, ResultInv, CompletedKeepsResults
  <1>3. TypeInv /\ Uncancelled /\ ResultInv /\ [Next]_vars => ResultInv'
    BY ResultInvNext
  <1> QED
    BY <1>1, <1>2, <1>3, ResumeInvariant, NothingIsCancelled, PTL DEF Spec

-----------------------------------------------------------------------------
(* However a slip is made, and whatever fails, the calls of Process move   *)
(* the stored snapshot as SlipProgress allows, and answer as it says.      *)

\* While no call runs, the live message is as a new one.
IdleInv == pc = "idle" => msg.cursor = 0 /\ msg.status = "created"

\* What the mapping shows of a message is a snapshot of SlipProgress.
LEMMA ProgressType ==
  ASSUME slip \in Slips, NEW m \in Message
  PROVE  /\ ProgressOf(m).cursor \in 0..Len(slip) /\ ProgressOf(m).cursor = m.cursor
         /\ ProgressOf(m).status = m.status
         /\ \A S : m.status \in S => ProgressOf(m) \in [cursor: 0..Len(slip), status: S]
  BY DEF ProgressOf, Message

\* A call that returns leaves the live message as a new one.
LEMMA ReturnProgress ==
  ASSUME NEW o, Return(o)
  PROVE  pc' = "idle" /\ outcome' = o /\ ProgressOf(msg') = Abstract!Fresh
  BY DEF Return, NewMessage, ProgressOf, Abstract!Fresh

\* A call that ends with an error and leaves the snapshot as it was, or one that
\* a later call resumes, gives up.
LEMMA ErrorIsGiveUp ==
  ASSUME slip \in Slips, slip' = slip, pc # "idle", Return("error"),
         \/ store' = store
         \/ \E m \in Message : store' = m /\ m.status \in {"running", "failed", "cancelled"}
  PROVE  Abstract!GiveUp
  <1>1. \/ ProgressOf(store') = ProgressOf(store)
        \/ ProgressOf(store') \in
             [cursor: 0..Len(slip), status: {"running", "failed", "cancelled"}]
    BY ProgressType
  <1> QED
    BY <1>1, ReturnProgress DEF Abstract!GiveUp

\* A save in the call's context is work, or gives up.
LEMMA SaveThenIsWork ==
  ASSUME slip \in Slips, slip' = slip, pc # "idle", msg \in Message, msg.status = "running",
         NEW m \in Message, NEW live \in Message,
         NEW next \in {"loop", "dispatch", "handle", "finish"},
         m.status = "running", live.status \in {"running", "stopped"},
         m.cursor \in {msg.cursor, live.cursor},
         SaveThen(m, live, next)
  PROVE  Abstract!Work \/ Abstract!GiveUp
  <1>1. CASE Return("error") /\ store' \in {store, m}
    BY <1>1, ErrorIsGiveUp
  <1>2. CASE store' = m /\ msg' = live /\ pc' = next /\ outcome' = outcome
    <2>1. /\ ProgressOf(msg).status = "running"
          /\ ProgressOf(live) \in [cursor: 0..Len(slip), status: {"running", "stopped"}]
      BY ProgressType
    <2>2. ProgressOf(m) \in {ProgressOf(msg), [ProgressOf(live) EXCEPT !.status = "running"]}
      BY DEF ProgressOf
    <2>3. pc' # "idle"
      BY <1>2
    <2> QED
      BY <1>2, <2>1, <2>2, <2>3 DEF Abstract!Work
  <1> QED
    BY <1>1, <1>2 DEF SaveThen, SaveFails

\* A save in the background context gives up.
LEMMA SaveAndAbortIsGiveUp ==
  ASSUME slip \in Slips, slip' = slip, pc # "idle",
         NEW m \in Message, m.status \in {"failed", "cancelled"}, SaveAndAbort(m)
  PROVE  Abstract!GiveUp
  BY ErrorIsGiveUp DEF SaveAndAbort

\* The save after a step without error is work, or gives up.
LEMMA SaveSettledIsWork ==
  ASSUME slip \in Slips, slip' = slip, pc # "idle", msg \in Message, msg.status = "running",
         NEW m \in Message, m.status = "running", SaveSettled(m)
  PROVE  Abstract!Work \/ Abstract!GiveUp
  <1> DEFINE live == [m EXCEPT !.status = "stopped"]
  <1>1. live \in Message /\ live.status = "stopped" /\ live.cursor = m.cursor
    BY DEF Message, MessageStatus
  <1>2. SaveThen(m, live, "finish") \/ SaveThen(m, m, "loop")
    BY DEF SaveSettled
  <1> HIDE DEF live
  <1> QED
    BY <1>1, <1>2, SaveThenIsWork

\* An action of which the mapping shows nothing.
LEMMA Stutters ==
  ASSUME slip' = slip, store' = store, outcome' = outcome,
         msg'.cursor = msg.cursor, msg'.status = msg.status,
         (pc' # "idle") = (pc # "idle")
  PROVE  UNCHANGED Abstract!vars
  BY DEF Abstract!vars, ProgressOf

\* Every step of Router is one of SlipProgress, or shows nothing.
LEMMA StepIsProgress ==
  TypeInv /\ StatusInv /\ IdleInv /\ [Next]_vars =>
    [Abstract!Enter \/ Abstract!Work \/ Abstract!GiveUp \/ Abstract!Finish]_Abstract!vars
  <1> DEFINE Goal == \/ Abstract!Enter \/ Abstract!Work \/ Abstract!GiveUp \/ Abstract!Finish
                     \/ UNCHANGED Abstract!vars
  <1> SUFFICES ASSUME TypeInv, StatusInv, IdleInv, [Next]_vars PROVE Goal
    OBVIOUS
  <1>0. /\ slip' = slip /\ slip \in Slips /\ msg \in Message /\ store \in Message
        /\ \A m \in Message : m.cursor \in 0..Len(slip)
    BY SameSlip DEF TypeInv, TypeOK, Message
  <1>1. CASE Deliver
    <2>1. CASE AlreadyCompleted(store) /\ Return("ok") /\ store' = store
      <3>1. Abstract!Completed(ProgressOf(store), Len(slip)) /\ pc = "idle"
        BY <1>1, <2>1 DEF Deliver, AlreadyCompleted, Abstract!Completed, ProgressOf
      <3>2. ProgressOf(msg) = Abstract!Fresh
        BY <3>1 DEF IdleInv, ProgressOf, Abstract!Fresh
      <3> QED
        BY <1>0, <2>1, <3>1, <3>2, ReturnProgress DEF Abstract!Enter
    <2>2. CASE /\ ~AlreadyCompleted(store) /\ pc' = "starting" /\ outcome' = "none"
               /\ msg' = [store EXCEPT !.status = "running", !.cursor = SetCursor(@)]
               /\ store' = store
      <3>1. ~Abstract!Completed(ProgressOf(store), Len(slip)) /\ pc = "idle"
        BY <1>1, <2>2 DEF Deliver, AlreadyCompleted, Abstract!Completed, ProgressOf
      <3>2. SetCursor(store.cursor) = store.cursor
        BY <1>0, SlipType, SetCursorType
      <3>3. msg'.cursor = store.cursor /\ msg'.status = "running"
        BY <1>0, <2>2, <3>2 DEF Message
      <3>4. ProgressOf(msg') = Abstract!Resumed(ProgressOf(store))
        BY <3>3 DEF ProgressOf, Abstract!Resumed
      <3> QED
        BY <1>0, <2>2, <3>1, <3>4 DEF Abstract!Enter
    <2> QED
      BY <1>1, <2>1, <2>2 DEF Deliver
  <1>2. CASE SaveStart
    <2>1. pc # "idle" /\ msg.status = "running" /\ SaveThen(msg, msg, "loop")
      BY <1>2 DEF SaveStart, StatusInv
    <2> QED
      BY <1>0, <2>1, SaveThenIsWork
  <1>3. CASE CheckLoop
    <2> DEFINE m == [msg EXCEPT !.status = "cancelled"]
    <2>1. m \in Message /\ m.status = "cancelled" /\ pc # "idle"
      BY <1>0, <1>3 DEF CheckLoop, Message, MessageStatus
    <2>2. \/ SaveAndAbort(m)
          \/ store' = store /\ msg' = msg /\ outcome' = outcome /\ pc' # "idle"
      BY <1>3 DEF CheckLoop
    <2> HIDE DEF m
    <2> QED
      BY <1>0, <2>1, <2>2, SaveAndAbortIsGiveUp, Stutters
  <1>4. CASE SaveBeforeStep
    <2> DEFINE live == [msg EXCEPT !.cursor = SetCursor(@ + 1)]
    <2>1. SetCursor(msg.cursor + 1) \in 0..Len(slip)
      BY <1>0, SlipType, SetCursorType
    <2>2. live \in Message /\ live.status = msg.status
      BY <1>0, <2>1 DEF Message
    <2>3. pc # "idle" /\ msg.status = "running" /\ SaveThen(msg, live, "dispatch")
      BY <1>4 DEF SaveBeforeStep, StatusInv
    <2> HIDE DEF live
    <2> QED
      BY <1>0, <2>2, <2>3, SaveThenIsWork
  <1>5. CASE MissingHandler
    <2>1. pc # "idle" /\ InStep /\ msg.status = "running"
      BY <1>5 DEF MissingHandler, InStep, StatusInv
    <2>2. Missed \in Message /\ Missed.cursor \in Positions /\ Missed.status = "running"
      BY <2>1, MissedFields, OnAStep
    <2>3. GiveBack(Missed) \in Message /\ GiveBack(Missed).status = "failed"
      BY <1>0, <2>2, GiveBackFields
    <2>4. SaveAndAbort(GiveBack(Missed)) \/ SaveThen(Missed, Missed, "loop")
      BY <1>5 DEF MissingHandler, Missed
    <2> QED
      BY <1>0, <2>1, <2>2, <2>3, <2>4, SaveThenIsWork, SaveAndAbortIsGiveUp
  <1>6. CASE IdempotentSkip
    <2>1. /\ pc # "idle" /\ InStep /\ msg.status = "running"
          /\ SaveThen(Repeated, Repeated, "loop")
      BY <1>6 DEF IdempotentSkip, InStep, StatusInv, Repeated
    <2>2. Repeated \in Message /\ Repeated.status = "running"
      BY <2>1, RepeatedFields
    <2> QED
      BY <1>0, <2>1, <2>2, SaveThenIsWork
  <1>7. CASE ClaimStep
    <2> DEFINE claim == Mark(msg, "running")
    <2>1. pc # "idle" /\ msg.status = "running" /\ SaveThen(claim, claim, "handle")
      BY <1>7 DEF ClaimStep, StatusInv
    <2>2. claim \in Message /\ claim.status = msg.status
      BY <1>0, MarkFields DEF Marked, StepStatus
    <2> HIDE DEF claim
    <2> QED
      BY <1>0, <2>1, <2>2, SaveThenIsWork
  <1>8. CASE HandlerSucceeds
    <2>1. msg'.cursor = msg.cursor /\ msg'.status = msg.status
      BY <1>0, <1>8 DEF HandlerSucceeds, Message
    <2> QED
      BY <1>0, <1>8, <2>1, Stutters DEF HandlerSucceeds
  <1>9. CASE HandlerFails
    BY <1>0, <1>9, Stutters DEF HandlerFails
  <1>10. CASE SettleStep
    <2>1. pc # "idle" /\ InStep /\ msg.status = "running"
      BY <1>10 DEF SettleStep, InStep, StatusInv
    <2>2. Settled \in Message /\ Settled.status = "running"
      BY <2>1, SettledFields DEF Marked
    <2>3. \A t \in Positions : Redirected(t) \in Message /\ Redirected(t).status = "running"
      BY <2>1, RedirectedFields
    <2>4. SaveSettled(Settled) \/ \E t \in Positions : SaveSettled(Redirected(t))
      BY <1>10 DEF SettleStep, Redirected
    <2> QED
      BY <1>0, <2>1, <2>2, <2>3, <2>4, SaveSettledIsWork
  <1>11. CASE RejectJump
    <2>1. pc # "idle" /\ InStep /\ msg.status = "running"
      BY <1>11 DEF RejectJump, InStep, StatusInv
    <2>2. Rejected \in Message /\ Rejected.cursor \in Positions /\ Rejected.status = "running"
      BY <2>1, RejectedFields, OnAStep DEF Marked
    <2>3. GiveBack(Rejected) \in Message /\ GiveBack(Rejected).status = "failed"
      BY <1>0, <2>2, GiveBackFields
    <2>4. SaveAndAbort(GiveBack(Rejected)) \/ SaveSettled(Rejected)
      BY <1>11 DEF RejectJump, Rejected
    <2> QED
      BY <1>0, <2>1, <2>2, <2>3, <2>4, SaveSettledIsWork, SaveAndAbortIsGiveUp
  <1>12. CASE StopOnFailure
    <2>1. pc # "idle" /\ InStep /\ SaveAndAbort(GiveBack(Failed))
      BY <1>12 DEF StopOnFailure, InStep
    <2>2. Failed \in Message /\ Failed.cursor \in Positions
      BY <2>1, FailedFields, OnAStep DEF Marked
    <2>3. GiveBack(Failed) \in Message /\ GiveBack(Failed).status = "failed"
      BY <1>0, <2>2, GiveBackFields
    <2> QED
      BY <1>0, <2>1, <2>3, SaveAndAbortIsGiveUp
  <1>13. CASE ContinueOnFailure
    <2>1. /\ pc # "idle" /\ InStep /\ msg.status = "running"
          /\ SaveThen(Continued, Continued, "loop")
      BY <1>13 DEF ContinueOnFailure, InStep, StatusInv, Continued
    <2>2. Continued \in Message /\ Continued.status = "running"
      BY <2>1, ContinuedFields DEF Marked
    <2> QED
      BY <1>0, <2>1, <2>2, SaveThenIsWork
  <1>14. CASE SkipOnFailure
    <2>1. /\ pc # "idle" /\ InStep /\ msg.status = "running"
          /\ SaveThen(SkippedOver, SkippedOver, "loop")
      BY <1>14 DEF SkipOnFailure, InStep, StatusInv, SkippedOver
    <2>2. SkippedOver \in Message /\ SkippedOver.status = "running"
      BY <2>1, SkippedOverFields DEF Marked
    <2> QED
      BY <1>0, <2>1, <2>2, SaveThenIsWork
  <1>15. CASE JumpOnFailure
    <2>1. pc # "idle" /\ InStep /\ msg.status = "running"
      BY <1>15 DEF JumpOnFailure, InStep, StatusInv
    <2>2. PICK t \in Positions : SaveThen(JumpedTo(t), JumpedTo(t), "loop")
      BY <1>15 DEF JumpOnFailure, JumpedTo
    <2>3. JumpedTo(t) \in Message /\ JumpedTo(t).status = "running"
      BY <2>1, JumpedToFields
    <2> QED
      BY <1>0, <2>1, <2>2, <2>3, SaveThenIsWork
  <1>16. CASE Finish
    <2> DEFINE m == IF msg.status = "running" THEN [msg EXCEPT !.status = "completed"] ELSE msg
    <2>1. pc # "idle" /\ Abstract!MayEnd(ProgressOf(msg), Len(slip))
      BY <1>16 DEF Finish, StatusInv, Abstract!MayEnd, ProgressOf
    <2>2. ProgressOf(m) = Abstract!Last(ProgressOf(msg))
      BY <1>0 DEF Message, Abstract!Last, ProgressOf
    <2>3. \/ store' = m /\ Return("ok")
          \/ store' \in {store, m} /\ Return("error")
      BY <1>16 DEF Finish, SaveFails
    <2> HIDE DEF m
    <2>4. CASE store' = m /\ Return("ok")
      BY <1>0, <2>1, <2>2, <2>4, ReturnProgress DEF Abstract!Finish
    <2>5. CASE store' \in {store, m} /\ Return("error")
      BY <1>0, <2>1, <2>2, <2>5, ReturnProgress DEF Abstract!GiveUp
    <2> QED
      BY <2>3, <2>4, <2>5
  <1>17. CASE Crash
    BY <1>0, <1>17, ErrorIsGiveUp DEF Crash
  <1>18. CASE Cancel
    BY <1>0, <1>18, Stutters DEF Cancel
  <1>19. CASE UNCHANGED vars
    BY <1>19, Stutters DEF vars
  <1> QED
    BY <1>1, <1>2, <1>3, <1>4, <1>5, <1>6, <1>7, <1>8, <1>9, <1>10, <1>11, <1>12,
       <1>13, <1>14, <1>15, <1>16, <1>17, <1>18, <1>19 DEF Next, Progress

\* A save that is not the call's last leaves it running, or ends it.
LEMMA SaveThenIdle ==
  ASSUME NEW m, NEW live, NEW next, next # "idle", SaveThen(m, live, next)
  PROVE  IdleInv'
  <1>1. CASE Return("error")
    BY <1>1 DEF Return, NewMessage, IdleInv
  <1>2. CASE pc' = next
    BY <1>2 DEF IdleInv
  <1> QED
    BY <1>1, <1>2 DEF SaveThen

\* Nor does the save after a step without error.
LEMMA SaveSettledIdle ==
  ASSUME NEW m, SaveSettled(m)
  PROVE  IdleInv'
  BY SaveThenIdle DEF SaveSettled

\* Whatever ends a call takes a new message with it.
LEMMA IdleInvNext == TypeInv /\ IdleInv /\ [Next]_vars => IdleInv'
  <1> SUFFICES ASSUME TypeInv, IdleInv, [Next]_vars PROVE IdleInv'
    OBVIOUS
  <1>0. ASSUME NEW o, Return(o) PROVE IdleInv'
    BY <1>0 DEF Return, NewMessage, IdleInv
  <1>1. CASE Deliver
    BY <1>0, <1>1 DEF Deliver, IdleInv
  <1>2. CASE SaveStart \/ SaveBeforeStep \/ IdempotentSkip \/ ClaimStep
             \/ ContinueOnFailure \/ SkipOnFailure \/ JumpOnFailure
    BY <1>2, SaveThenIdle
       DEF SaveStart, SaveBeforeStep, IdempotentSkip, ClaimStep,
           ContinueOnFailure, SkipOnFailure, JumpOnFailure
  <1>3. CASE CheckLoop
    BY <1>0, <1>3 DEF CheckLoop, SaveAndAbort, IdleInv
  <1>4. CASE MissingHandler \/ StopOnFailure
    BY <1>0, <1>4, SaveThenIdle DEF MissingHandler, StopOnFailure, SaveAndAbort
  <1>5. CASE HandlerSucceeds \/ HandlerFails
    BY <1>5 DEF HandlerSucceeds, HandlerFails, IdleInv
  <1>6. CASE SettleStep \/ RejectJump
    BY <1>0, <1>6, SaveSettledIdle DEF SettleStep, RejectJump, SaveAndAbort
  <1>7. CASE Finish \/ Crash
    BY <1>0, <1>7 DEF Finish, Crash
  <1>8. CASE Cancel \/ UNCHANGED vars
    BY <1>8 DEF Cancel, vars, IdleInv
  <1> QED
    BY <1>1, <1>2, <1>3, <1>4, <1>5, <1>6, <1>7, <1>8 DEF Next, Progress

\* A new message is a fresh snapshot.
LEMMA InitIsFresh == Init => Abstract!Init /\ IdleInv
  <1> SUFFICES ASSUME Init PROVE Abstract!Init /\ IdleInv
    OBVIOUS
  <1>1. slip \in Seq(StepDef)
    BY SlipsAssumption DEF Init
  <1>2. Len(slip) \in Nat
    BY <1>1
  <1> QED
    BY <1>2 DEF Init, NewMessage, IdleInv, ProgressOf, Abstract!Init, Abstract!Fresh

\* Router implements SlipProgress: for every slip, error policy, handler table,
\* idempotency key and kind of fault, a completed message is never touched again,
\* "completed" is saved only at the slip's end, and the answer of Process tells
\* the truth about the snapshot in the store.
THEOREM RouterImplementsProgress == Spec => ImplementsProgress
  <1>1. Spec => []IdleInv
    <2>1. Init => IdleInv
      BY InitIsFresh
    <2>2. Spec => []TypeInv
      BY ResumeInvariant, PTL
    <2> QED
      BY <2>1, <2>2, IdleInvNext, PTL DEF Spec
  <1>2. Init => Abstract!Init
    BY InitIsFresh
  <1> QED
    BY <1>1, <1>2, ResumeInvariant, StepIsProgress, PTL
       DEF Spec, ImplementsProgress, Abstract!Spec, Abstract!Next
=============================================================================
