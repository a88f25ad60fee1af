--------------------------- MODULE Router_proofs ---------------------------
(***************************************************************************)
(* Proofs about Router, for every set of slips, error policy, handler      *)
(* registry, key template and combination of faults.                       *)
(***************************************************************************)
EXTENDS Router, TLAPS

PCs == {"idle", "starting", "loop", "next", "dispatch", "handle",
        "succeeded", "failed", "finish"}

InStep == pc \in {"dispatch", "handle", "succeeded", "failed"}

\* The inductive form of TypeOK: the places where the code relies on the cursor
\* standing on a step.
TypeInv ==
  /\ TypeOK
  /\ InStep => msg.cursor >= 1
  /\ pc = "next" => msg.cursor < Len(slip)

-----------------------------------------------------------------------------
(* The operators on messages keep their type. *)

\* The slip in use is a sequence of step definitions.
LEMMA SlipType ==
  ASSUME slip \in Slips
  PROVE  /\ Len(slip) \in Nat
         /\ \A i \in Positions : slip[i] \in StepDef
  BY SlipsAssumption DEF Positions

\* A new message, and one whose fields are replaced by values of their types,
\* are messages.
LEMMA NewMessageType ==
  ASSUME slip \in Slips
  PROVE  NewMessage \in Message
  <1>1. 0 \in 0..Len(slip)
    BY SlipType
  <1>2. [k \in StepKeys |-> "none"] \in [StepKeys -> StepStatus]
    BY DEF StepStatus
  <1>3. "created" \in MessageStatus
    BY DEF MessageStatus
  <1> QED
    BY <1>1, <1>2, <1>3, RefsAssumption DEF NewMessage, Message

\* setCursor clamps into the slip, and leaves a cursor of the slip alone.
LEMMA SetCursorType ==
  ASSUME slip \in Slips, NEW c \in Int
  PROVE  /\ SetCursor(c) \in 0..Len(slip)
         /\ c \in 0..Len(slip) => SetCursor(c) = c
  BY SlipType DEF SetCursor

\* Recording a step's state keeps the cursor.
LEMMA MarkType ==
  ASSUME NEW m \in Message, NEW st \in StepStatus
  PROVE  /\ Mark(m, st) \in Message
         /\ Mark(m, st).cursor = m.cursor
  BY DEF Mark, Message

\* Recording a history entry keeps the cursor.
LEMMA LogType ==
  ASSUME NEW m \in Message, m.cursor \in Positions, NEW h \in HistoryStatus
  PROVE  /\ Log(m, h) \in Message
         /\ Log(m, h).cursor = m.cursor
  BY DEF Log, Message

\* Giving the current step back yields a message.
LEMMA GiveBackType ==
  ASSUME slip \in Slips, NEW m \in Message
  PROVE  GiveBack(m) \in Message
  <1>1. m.cursor \in Int
    BY DEF Message
  <1>2. SetCursor(m.cursor - 1) \in 0..Len(slip)
    BY <1>1, SetCursorType
  <1> QED
    BY <1>2 DEF GiveBack, Message, MessageStatus

\* After a move to step t, the cursor says t is the next step.
LEMMA MoveToType ==
  ASSUME slip \in Slips, NEW m \in Message, NEW t \in Positions
  PROVE  /\ MoveTo(m, t) \in Message
         /\ MoveTo(m, t).cursor = t - 1
  <1>1. SetCursor(t - 1) \in 0..Len(slip) /\ SetCursor(t - 1) = t - 1
    BY SlipType, SetCursorType DEF Positions
  <1>2. Between(m.cursor, t) \subseteq Positions
    BY DEF Between
  <1> QED
    BY <1>1, <1>2 DEF MoveTo, Message

-----------------------------------------------------------------------------
(* Type correctness. *)

\* The slip never changes, and with it the types that depend on it.
LEMMA SameTypes ==
  ASSUME slip' = slip
  PROVE  Positions' = Positions /\ Message' = Message /\ NewMessage' = NewMessage
  <1>1. Positions' = Positions
    BY DEF Positions
  <1>2. StepKeys' = StepKeys
    BY <1>1 DEF StepKeys, StepKey
  <1> QED
    BY <1>1, <1>2 DEF Message, NewMessage

\* The three ways an action ends keep the invariant, given well-typed messages.
LEMMA ReturnType ==
  ASSUME TypeInv, slip' = slip, policy' = policy, ran' = ran,
         NEW o \in {"ok", "error"}, Return(o),
         store' \in Message, ctx' \in {"live", "cancelled"}
  PROVE  TypeInv'
  <1> USE DEF TypeInv, TypeOK
  <1>1. msg' \in Message
    BY NewMessageType DEF Return
  <1> QED
    BY <1>1, SameTypes DEF Return, InStep

\* A save in the call's context, succeeding or not.
LEMMA SaveThenType ==
  ASSUME TypeInv, UNCHANGED <<config, ctx, ran>>,
         NEW m \in Message, NEW live \in Message,
         NEW next \in {"loop", "dispatch", "handle", "finish"},
         next \in {"dispatch", "handle"} => live.cursor >= 1,
         SaveThen(m, live, next)
  PROVE  TypeInv'
  <1> USE DEF config
  <1>1. CASE Return("error") /\ store' \in {store, m}
    BY <1>1, ReturnType DEF TypeInv, TypeOK
  <1>2. CASE /\ store' = m /\ msg' = live /\ pc' = next
             /\ outcome' = outcome /\ attempt' = 0 /\ verdict' = "none"
    BY <1>2, SameTypes DEF TypeInv, TypeOK, InStep
  <1> QED
    BY <1>1, <1>2 DEF SaveThen, SaveFails

\* A save in the background context before an error is returned.
LEMMA SaveAndAbortType ==
  ASSUME TypeInv, UNCHANGED <<config, ctx, ran>>,
         NEW m \in Message, SaveAndAbort(m)
  PROVE  TypeInv'
  <1>1. store' \in Message
    BY DEF SaveAndAbort, TypeInv, TypeOK
  <1> QED
    BY <1>1, ReturnType DEF SaveAndAbort, TypeInv, TypeOK, config

\* The save after a step without error, the stop included.
LEMMA SaveSettledType ==
  ASSUME TypeInv, UNCHANGED <<config, ctx, ran>>,
         NEW m \in Message, SaveSettled(m)
  PROVE  TypeInv'
  <1>1. [m EXCEPT !.status = "stopped"] \in Message
    BY DEF Message, MessageStatus
  <1> QED
    BY <1>1, SaveThenType DEF SaveSettled

\* In a step, the cursor stands on a step of the slip.
LEMMA OnAStep ==
  ASSUME TypeInv, InStep
  PROVE  msg.cursor \in Positions /\ Step \in StepDef
  <1>1. msg.cursor \in Positions
    BY SlipType DEF TypeInv, TypeOK, Message, Positions
  <1> QED
    BY <1>1, SlipType DEF Step, TypeInv, TypeOK

\* The message as recorded after a failed step.
LEMMA FailedType ==
  ASSUME TypeInv, InStep
  PROVE  Failed \in Message /\ Failed.cursor = msg.cursor
  <1>1. Mark(msg, "failed") \in Message /\ Mark(msg, "failed").cursor = msg.cursor
    BY MarkType DEF TypeInv, TypeOK, StepStatus
  <1> QED
    BY <1>1, OnAStep DEF Failed, Message

\* The message as recorded after a step without error.
LEMMA SettledType ==
  ASSUME TypeInv, InStep
  PROVE  Settled \in Message /\ Settled.cursor = msg.cursor
  <1> DEFINE st == IF verdict = "halt" THEN "stopped" ELSE "success"
  <1>1. st \in StepStatus /\ st \in HistoryStatus
    BY DEF StepStatus, HistoryStatus
  <1>2. Mark(msg, st) \in Message /\ Mark(msg, st).cursor = msg.cursor
    BY <1>1, MarkType DEF TypeInv, TypeOK
  <1> HIDE DEF st
  <1>3. Log(Mark(msg, st), st) \in Message /\ Log(Mark(msg, st), st).cursor = msg.cursor
    BY <1>1, <1>2, LogType, OnAStep
  <1> QED
    BY <1>3 DEF Settled, st

\* A new message stands before the first step.
LEMMA TypeInvInit == Init => TypeInv
  <1> SUFFICES ASSUME Init PROVE TypeInv
    OBVIOUS
  <1>1. NewMessage \in Message
    BY NewMessageType DEF Init
  <1> QED
    BY <1>1 DEF Init, TypeInv, TypeOK, InStep

\* Every action keeps TypeInv.
LEMMA TypeInvNext == TypeInv /\ [Next]_vars => TypeInv'
  <1> SUFFICES ASSUME TypeInv, [Next]_vars PROVE TypeInv'
    OBVIOUS
  <1> USE DEF config, local
  <1>0. /\ slip \in Slips /\ msg \in Message /\ store \in Message
        /\ ctx \in {"live", "cancelled"}
    BY DEF TypeInv, TypeOK
  <1>1. CASE Deliver
    <2>1. CASE Return("ok") /\ ctx' = "live" /\ UNCHANGED <<config, store, ran>>
      BY <1>0, <2>1, ReturnType
    <2>2. CASE /\ pc' = "starting" /\ outcome' = "none" /\ UNCHANGED local
               /\ msg' = [store EXCEPT !.status = "running", !.cursor = SetCursor(@)]
               /\ ctx' = "live" /\ UNCHANGED <<config, store, ran>>
      <3>1. SetCursor(store.cursor) \in 0..Len(slip)
        BY <1>0, SlipType, SetCursorType DEF Message
      <3>2. msg' \in Message
        BY <1>0, <2>2, <3>1 DEF Message, MessageStatus
      <3> QED
        BY <2>2, <3>2, SameTypes DEF TypeInv, TypeOK, InStep
    <2> QED
      BY <1>1, <2>1, <2>2 DEF Deliver
  <1>2. CASE SaveStart
    BY <1>0, <1>2, SaveThenType DEF SaveStart
  <1>3. CASE CheckLoop
    <2>1. CASE SaveAndAbort([msg EXCEPT !.status = "cancelled"])
      <3>1. [msg EXCEPT !.status = "cancelled"] \in Message
        BY <1>0 DEF Message, MessageStatus
      <3> QED
        BY <1>3, <2>1, <3>1, SaveAndAbortType DEF CheckLoop
    <2>2. CASE /\ pc' = IF msg.cursor < Len(slip) THEN "next" ELSE "finish"
               /\ UNCHANGED <<store, msg, outcome, local>>
               /\ UNCHANGED <<config, ctx, ran>>
      BY <2>2, SameTypes DEF TypeInv, TypeOK, InStep
    <2> QED
      BY <1>3, <2>1, <2>2 DEF CheckLoop
  <1>4. CASE SaveBeforeStep
    <2> DEFINE live == [msg EXCEPT !.cursor = SetCursor(@ + 1)]
    <2>1. msg.cursor + 1 \in 0..Len(slip)
      BY <1>0, <1>4, SlipType DEF SaveBeforeStep, TypeInv, Message
    <2>2. live \in Message /\ live.cursor >= 1
      BY <1>0, <2>1, SlipType, SetCursorType DEF Message
    <2> QED
      BY <1>0, <1>4, <2>2, SaveThenType DEF SaveBeforeStep
  <1>5. CASE MissingHandler
    <2> DEFINE m == [msg EXCEPT !.errors = @ \cup {msg.cursor}]
    <2>1. m \in Message
      BY <1>0, <1>5, OnAStep DEF MissingHandler, InStep, Message
    <2>2. GiveBack(m) \in Message
      BY <1>0, <2>1, GiveBackType
    <2> QED
      BY <1>5, <2>1, <2>2, SaveThenType, SaveAndAbortType DEF MissingHandler
  <1>6. CASE IdempotentSkip
    <2> DEFINE m == [msg EXCEPT !.history = @ \cup {<<msg.cursor, "idempotent_skip">>}]
    <2>1. m \in Message
      BY <1>0, <1>6, OnAStep DEF IdempotentSkip, InStep, Message, HistoryStatus
    <2> QED
      BY <1>6, <2>1, SaveThenType DEF IdempotentSkip
  <1>7. CASE ClaimStep
    <2>1. /\ Mark(msg, "running") \in Message
          /\ Mark(msg, "running").cursor >= 1
      BY <1>0, <1>7, MarkType DEF ClaimStep, StepStatus, TypeInv, InStep
    <2> QED
      BY <1>7, <2>1, SaveThenType DEF ClaimStep
  <1>8. CASE HandlerSucceeds
    <2>1. msg.cursor \in Positions /\ Step \in StepDef
      BY <1>8, OnAStep DEF HandlerSucceeds, InStep
    <2>2. msg' \in Message /\ msg'.cursor = msg.cursor
      BY <1>0, <1>8, <2>1 DEF HandlerSucceeds, Message, StepDef
    <2>3. ran' \in [Positions -> 0..2]
      BY <1>8, <2>1 DEF HandlerSucceeds, TypeInv, TypeOK
    <2>4. verdict' \in {"none", "proceed", "halt", "redirect"}
      BY <1>8 DEF HandlerSucceeds, Verdicts
    <2> QED
      BY <1>8, <2>2, <2>3, <2>4, SameTypes DEF HandlerSucceeds, TypeInv, TypeOK, InStep
  <1>9. CASE HandlerFails
    BY <1>9, SameTypes DEF HandlerFails, TypeInv, TypeOK, InStep
  <1>10. CASE SettleStep
    <2>1. Settled \in Message
      BY <1>10, SettledType DEF SettleStep, InStep
    <2>2. ASSUME NEW t \in Positions
          PROVE  [MoveTo(Settled, t) EXCEPT
                    !.jumpTo = IF Step.name = "cel" THEN "" ELSE @] \in Message
      BY <1>0, <2>1, MoveToType, RefsAssumption DEF Message
    <2> QED
      BY <1>10, <2>1, <2>2, SaveSettledType DEF SettleStep
  <1>11. CASE RejectJump
    <2> DEFINE m == [Mark(Settled, "failed") EXCEPT !.errors = @ \cup {msg.cursor}]
    <2>1. Mark(Settled, "failed") \in Message /\ msg.cursor \in Positions
      BY <1>11, SettledType, MarkType, OnAStep DEF RejectJump, InStep, StepStatus
    <2>2. m \in Message
      BY <2>1 DEF Message
    <2>3. GiveBack(m) \in Message
      BY <1>0, <2>2, GiveBackType
    <2> HIDE DEF m
    <2> QED
      BY <1>11, <2>2, <2>3, SaveSettledType, SaveAndAbortType DEF RejectJump, m
  <1>12. CASE StopOnFailure
    <2>1. GiveBack(Failed) \in Message
      BY <1>0, <1>12, FailedType, GiveBackType DEF StopOnFailure, InStep
    <2> QED
      BY <1>12, <2>1, SaveAndAbortType DEF StopOnFailure
  <1>13. CASE ContinueOnFailure
    <2>1. Log(Failed, "failed") \in Message
      BY <1>13, FailedType, LogType, OnAStep DEF ContinueOnFailure, InStep, HistoryStatus
    <2> QED
      BY <1>13, <2>1, SaveThenType DEF ContinueOnFailure
  <1>14. CASE SkipOnFailure
    <2>1. Log(Failed, "skipped") \in Message
      BY <1>14, FailedType, LogType, OnAStep DEF SkipOnFailure, InStep, HistoryStatus
    <2>2. Mark(Log(Failed, "skipped"), "skipped") \in Message
      BY <2>1, MarkType DEF StepStatus
    <2> QED
      BY <1>14, <2>1, <2>2, SaveThenType DEF SkipOnFailure
  <1>15. CASE JumpOnFailure
    <2>1. Log(Failed, "jumped") \in Message
      BY <1>15, FailedType, LogType, OnAStep DEF JumpOnFailure, InStep, HistoryStatus
    <2>2. Mark(Log(Failed, "jumped"), "jumped") \in Message
      BY <2>1, MarkType DEF StepStatus
    <2>3. ASSUME NEW t \in Positions
          PROVE  MoveTo(Mark(Log(Failed, "jumped"), "jumped"), t) \in Message
      BY <1>0, <2>2, MoveToType
    <2> QED
      BY <1>15, <2>3, SaveThenType DEF JumpOnFailure
  <1>16. CASE Finish
    <2>1. store' \in Message
      BY <1>0, <1>16 DEF Finish, SaveFails, Message, MessageStatus
    <2> QED
      BY <1>0, <1>16, <2>1, ReturnType DEF Finish
  <1>17. CASE Crash
    BY <1>0, <1>17, ReturnType DEF Crash
  <1>18. CASE Cancel
    BY <1>18, SameTypes DEF Cancel, TypeInv, TypeOK, InStep
  <1>19. CASE UNCHANGED vars
    BY <1>19, SameTypes DEF vars, TypeInv, TypeOK, InStep
  <1> QED
    BY <1>1, <1>2, <1>3, <1>4, <1>5, <1>6, <1>7, <1>8, <1>9, <1>10, <1>11, <1>12,
       <1>13, <1>14, <1>15, <1>16, <1>17, <1>18, <1>19 DEF Next, Progress

\* Type correctness of the router, its cursors included.
THEOREM TypeCorrect == Spec => []TypeOK
  <1>1. TypeInv => TypeOK
    BY DEF TypeInv
  <1> QED
    BY <1>1, TypeInvInit, TypeInvNext, PTL DEF Spec

-----------------------------------------------------------------------------
(* Every effect happens under a durable claim. *)

\* While a handler runs, the stored snapshot has the cursor of the live message,
\* past the step, and the step's state "running".
ClaimInv ==
  /\ pc \notin {"idle", "dispatch"} => msg.cursor = store.cursor
  /\ pc = "dispatch" => msg.cursor = store.cursor + 1
  /\ pc \in {"handle", "succeeded", "failed"} => StateOf(store, msg.cursor) = "running"

\* Idempotency keys do not change during a run.
LEMMA SameKeys ==
  ASSUME slip' = slip, NEW i
  PROVE  StepKey(i)' = StepKey(i)
  BY DEF StepKey

\* A save after which the live cursor is the saved one, outside a step.
LEMMA SaveThenClaim ==
  ASSUME NEW m, NEW live, live.cursor = m.cursor,
         NEW next \in {"loop", "finish"}, SaveThen(m, live, next)
  PROVE  ClaimInv'
  BY DEF SaveThen, SaveFails, Return, ClaimInv

\* The save after a step without error ends the claim.
LEMMA SaveSettledClaim ==
  ASSUME NEW m \in Message, SaveSettled(m)
  PROVE  ClaimInv'
  <1>1. [m EXCEPT !.status = "stopped"].cursor = m.cursor
    BY DEF Message
  <1> QED
    BY <1>1, SaveThenClaim DEF SaveSettled

\* Every action keeps ClaimInv.
LEMMA ClaimInvNext == TypeInv /\ ClaimInv /\ [Next]_vars => ClaimInv'
  <1> SUFFICES ASSUME TypeInv, ClaimInv, [Next]_vars PROVE ClaimInv'
    OBVIOUS
  <1>0. slip \in Slips /\ msg \in Message /\ store \in Message
    BY DEF TypeInv, TypeOK
  <1>1. CASE Deliver
    <2>1. SetCursor(store.cursor) = store.cursor
      BY <1>0, SlipType, SetCursorType DEF Message
    <2> QED
      BY <1>0, <1>1, <2>1 DEF Deliver, Return, ClaimInv, Message
  <1>2. CASE SaveStart
    BY <1>2, SaveThenClaim DEF SaveStart
  <1>3. CASE CheckLoop
    BY <1>3 DEF CheckLoop, SaveAndAbort, Return, ClaimInv
  <1>4. CASE SaveBeforeStep
    <2> DEFINE live == [msg EXCEPT !.cursor = SetCursor(@ + 1)]
    <2>1. msg.cursor + 1 \in 0..Len(slip)
      BY <1>0, <1>4, SlipType DEF SaveBeforeStep, TypeInv, Message
    <2>2. live.cursor = msg.cursor + 1
      BY <1>0, <2>1, SlipType, SetCursorType DEF Message
    <2> HIDE DEF live
    <2>3. SaveThen(msg, live, "dispatch")
      BY <1>4 DEF SaveBeforeStep, live
    <2> QED
      BY <2>2, <2>3 DEF SaveThen, SaveFails, Return, ClaimInv
  <1>5. CASE MissingHandler
    <2> DEFINE m == [msg EXCEPT !.errors = @ \cup {msg.cursor}]
    <2>1. CASE SaveAndAbort(GiveBack(m))
      BY <2>1 DEF SaveAndAbort, Return, ClaimInv
    <2>2. CASE SaveThen(m, m, "loop")
      BY <2>2, SaveThenClaim
    <2> QED
      BY <1>5, <2>1, <2>2 DEF MissingHandler
  <1>6. CASE IdempotentSkip
    BY <1>6, SaveThenClaim DEF IdempotentSkip
  <1>7. CASE ClaimStep
    <2> DEFINE m == Mark(msg, "running")
    <2>1. msg.cursor \in Positions
      BY <1>7, OnAStep DEF ClaimStep, InStep
    <2>2. m.cursor = msg.cursor /\ m.states[StepKey(m.cursor)] = "running"
      BY <1>0, <2>1 DEF Mark, Message, StepKeys
    <2>3. SaveThen(m, m, "handle") /\ slip' = slip
      BY <1>7 DEF ClaimStep, config
    <2> HIDE DEF m
    <2> QED
      BY <2>2, <2>3, SameKeys DEF SaveThen, SaveFails, Return, ClaimInv, StateOf
  <1>8. CASE HandlerSucceeds
    <2>1. msg'.cursor = msg.cursor /\ store' = store /\ slip' = slip
      BY <1>0, <1>8 DEF HandlerSucceeds, Message, config
    <2> QED
      BY <1>8, <2>1, SameKeys DEF HandlerSucceeds, ClaimInv, StateOf
  <1>9. CASE HandlerFails
    BY <1>9, SameKeys DEF HandlerFails, ClaimInv, StateOf, config
  <1>10. CASE SettleStep
    <2>1. Settled \in Message
      BY <1>10, SettledType DEF SettleStep, InStep
    <2>2. ASSUME NEW t \in Positions
          PROVE  [MoveTo(Settled, t) EXCEPT
                    !.jumpTo = IF Step.name = "cel" THEN "" ELSE @] \in Message
      BY <1>0, <2>1, MoveToType, RefsAssumption DEF Message
    <2> QED
      BY <1>10, <2>1, <2>2, SaveSettledClaim DEF SettleStep
  <1>11. CASE RejectJump
    <2> DEFINE m == [Mark(Settled, "failed") EXCEPT !.errors = @ \cup {msg.cursor}]
    <2>1. Mark(Settled, "failed") \in Message /\ msg.cursor \in Positions
      BY <1>11, SettledType, MarkType, OnAStep DEF RejectJump, InStep, StepStatus
    <2>2. m \in Message
      BY <2>1 DEF Message
    <2> HIDE DEF m
    <2>3. CASE SaveAndAbort(GiveBack(m))
      BY <2>3 DEF SaveAndAbort, Return, ClaimInv
    <2> QED
      BY <1>11, <2>2, <2>3, SaveSettledClaim DEF RejectJump, m
  <1>12. CASE StopOnFailure
    BY <1>12 DEF StopOnFailure, SaveAndAbort, Return, ClaimInv
  <1>13. CASE ContinueOnFailure
    BY <1>13, SaveThenClaim DEF ContinueOnFailure
  <1>14. CASE SkipOnFailure
    BY <1>14, SaveThenClaim DEF SkipOnFailure
  <1>15. CASE JumpOnFailure
    BY <1>15, SaveThenClaim DEF JumpOnFailure
  <1>16. CASE Finish
    BY <1>16 DEF Finish, SaveFails, Return, ClaimInv
  <1>17. CASE Crash
    BY <1>17 DEF Crash, Return, ClaimInv
  <1>18. CASE Cancel
    BY <1>18, SameKeys DEF Cancel, ClaimInv, StateOf, config
  <1>19. CASE UNCHANGED vars
    BY <1>19, SameKeys DEF vars, ClaimInv, StateOf
  <1> QED
    BY <1>1, <1>2, <1>3, <1>4, <1>5, <1>6, <1>7, <1>8, <1>9, <1>10, <1>11, <1>12,
       <1>13, <1>14, <1>15, <1>16, <1>17, <1>18, <1>19 DEF Next, Progress

\* ClaimInv holds in every reachable state.
LEMMA ClaimInvariant == Spec => [](TypeInv /\ ClaimInv)
  <1>1. Init => ClaimInv
    BY DEF Init, ClaimInv
  <1> QED
    BY <1>1, TypeInvInit, TypeInvNext, ClaimInvNext, PTL DEF Spec

\* A handler takes effect only while the store already holds the claim on its
\* step: the save of markStepRunning comes before the call of the handler.
THEOREM EffectsAreClaimed == Spec => ClaimBeforeEffect
  <1> DEFINE Claimed == \A i \in Positions : ran'[i] # ran[i] =>
                          store.cursor = i /\ StateOf(store, i) = "running"
  <1>1. TypeInv /\ ClaimInv /\ [Next]_vars => [Claimed]_vars
    <2> SUFFICES ASSUME TypeInv, ClaimInv, Next, NEW i \in Positions, ran'[i] # ran[i]
                 PROVE  store.cursor = i /\ StateOf(store, i) = "running"
      BY DEF vars
    <2>1. HandlerSucceeds
      BY DEF Next, Progress, Deliver, SaveStart, CheckLoop, SaveBeforeStep, MissingHandler,
             IdempotentSkip, ClaimStep, HandlerFails, SettleStep, RejectJump, StopOnFailure,
             ContinueOnFailure, SkipOnFailure, JumpOnFailure, Finish, Crash, Cancel
    <2>2. pc = "handle" /\ i = msg.cursor
      BY <2>1 DEF HandlerSucceeds, TypeInv, TypeOK
    <2> QED
      BY <2>2 DEF ClaimInv
  <1> QED
    BY <1>1, ClaimInvariant, PTL DEF Spec, ClaimBeforeEffect

-----------------------------------------------------------------------------
(* No step takes effect twice. *)

\* A step that has taken effect lies behind the stored cursor, strictly behind
\* it while another step is running: nothing can claim it again.
EffectBehind(i) ==
  /\ ran[i] <= 1
  /\ ran[i] = 1 => i <= store.cursor
  /\ ran[i] = 1 /\ pc \in {"handle", "failed"} => i # store.cursor

EffectInv ==
  NoBackwardFailureJump =>
    \A i \in Positions : CursorController(i) \/ EffectBehind(i)

\* A step that moves the stored cursor forward, or leaves it alone outside a
\* handler, keeps every effect behind it.
LEMMA ForwardKeepsEffects ==
  ASSUME TypeInv, NEW i \in Positions, EffectBehind(i), slip' = slip, ran' = ran,
         store' \in Message, store'.cursor >= store.cursor,
         pc' \in {"handle", "failed"} =>
           \/ store'.cursor > store.cursor
           \/ store'.cursor = store.cursor /\ pc \in {"handle", "failed"}
  PROVE  EffectBehind(i)'
  <1>1. store.cursor \in Int /\ store'.cursor \in Int /\ i \in Int
    BY SlipType DEF TypeInv, TypeOK, Message, Positions
  <1> QED
    BY <1>1 DEF EffectBehind

\* A save that does not move the cursor back keeps every effect behind it.
LEMMA SaveThenKeepsEffects ==
  ASSUME TypeInv, NEW i \in Positions, EffectBehind(i), slip' = slip, ran' = ran,
         NEW m \in Message, NEW live, NEW next \in {"loop", "dispatch", "finish"},
         m.cursor >= store.cursor, SaveThen(m, live, next)
  PROVE  EffectBehind(i)'
  <1>1. store' \in Message /\ store'.cursor >= store.cursor /\ pc' \notin {"handle", "failed"}
    BY SlipType DEF SaveThen, SaveFails, Return, TypeInv, TypeOK, Message
  <1> QED
    BY <1>1, ForwardKeepsEffects

\* Giving back the step that failed: it has not taken effect.
LEMMA GiveBackKeepsEffects ==
  ASSUME TypeInv, NEW i \in Positions, EffectBehind(i), slip' = slip, ran' = ran,
         NEW m \in Message, m.cursor >= 1,
         ran[i] = 1 => i < m.cursor,
         SaveAndAbort(GiveBack(m))
  PROVE  EffectBehind(i)'
  <1>1. /\ m.cursor - 1 \in 0..Len(slip) /\ m.cursor \in Int
        /\ SetCursor(m.cursor - 1) = m.cursor - 1
    BY SlipType, SetCursorType DEF TypeInv, TypeOK, Message
  <1>2. GiveBack(m).cursor = m.cursor - 1
    BY <1>1 DEF GiveBack, Message
  <1>3. i \in Int
    BY DEF Positions
  <1>4. CASE store' = GiveBack(m)
    BY <1>1, <1>2, <1>3, <1>4 DEF SaveAndAbort, Return, EffectBehind
  <1>5. CASE store' = store
    BY <1>5 DEF SaveAndAbort, Return, EffectBehind
  <1> QED
    BY <1>4, <1>5 DEF SaveAndAbort

\* So does the save after a step without error.
LEMMA SaveSettledKeepsEffects ==
  ASSUME TypeInv, NEW i \in Positions, EffectBehind(i), slip' = slip, ran' = ran,
         NEW m \in Message, m.cursor >= store.cursor, SaveSettled(m)
  PROVE  EffectBehind(i)'
  BY SaveThenKeepsEffects DEF SaveSettled

\* Every action keeps EffectInv.
LEMMA EffectInvNext ==
  TypeInv /\ TypeInv' /\ ClaimInv /\ EffectInv /\ [Next]_vars => EffectInv'
  <1> USE DEF config
  <1>0. ASSUME slip' = slip
        PROVE  /\ Positions' = Positions
               /\ NoBackwardFailureJump' = NoBackwardFailureJump
               /\ \A i : CursorController(i)' = CursorController(i)
    BY <1>0 DEF Positions, NoBackwardFailureJump, Resolves, CursorController
  <1> SUFFICES ASSUME TypeInv, TypeInv', ClaimInv, EffectInv, [Next]_vars, slip' = slip,
                      NoBackwardFailureJump,
                      NEW i \in Positions, ~CursorController(i), EffectBehind(i)
               PROVE  EffectBehind(i)'
    <2>1. ASSUME [Next]_vars PROVE slip' = slip
      BY <2>1 DEF Next, Progress, Deliver, SaveStart, CheckLoop, SaveBeforeStep, MissingHandler,
             IdempotentSkip, ClaimStep, HandlerSucceeds, HandlerFails, SettleStep, RejectJump,
             StopOnFailure, ContinueOnFailure, SkipOnFailure, JumpOnFailure, Finish, Crash,
             Cancel, vars
    <2> QED
      BY <1>0, <2>1 DEF EffectInv
  <1>a. /\ slip \in Slips /\ msg \in Message /\ store \in Message /\ store' \in Message
        /\ store.cursor \in Int /\ msg.cursor \in Int /\ i \in Int
        /\ Message' = Message
    <2>1. Message' = Message
      BY SameTypes
    <2>2. slip \in Slips /\ msg \in Message /\ store \in Message /\ store' \in Message
      BY <2>1 DEF TypeInv, TypeOK
    <2>3. \A m \in Message : m.cursor \in Int
      BY DEF Message
    <2>4. i \in Int
      BY DEF Positions
    <2> QED
      BY <2>1, <2>2, <2>3, <2>4
  <1>1. CASE Deliver
    BY <1>1, <1>a, ForwardKeepsEffects DEF Deliver, Return
  <1>2. CASE SaveStart
    BY <1>2, <1>a, SaveThenKeepsEffects DEF SaveStart, ClaimInv
  <1>3. CASE CheckLoop
    <2>1. store'.cursor = store.cursor /\ ran' = ran /\ pc' \notin {"handle", "failed"}
      BY <1>3, <1>a DEF CheckLoop, SaveAndAbort, Return, ClaimInv, Message
    <2> QED
      BY <2>1, <1>a, ForwardKeepsEffects
  <1>4. CASE SaveBeforeStep
    BY <1>4, <1>a, SaveThenKeepsEffects DEF SaveBeforeStep, ClaimInv
  <1>5. CASE MissingHandler
    <2> DEFINE m == [msg EXCEPT !.errors = @ \cup {msg.cursor}]
    <2>1. m \in Message /\ m.cursor = store.cursor + 1 /\ ran' = ran
      BY <1>5, <1>a, OnAStep DEF MissingHandler, InStep, Message, ClaimInv
    <2>2. m.cursor >= 1
      BY <2>1, <1>5, <1>a DEF TypeInv, InStep, MissingHandler, ClaimInv
    <2> HIDE DEF m
    <2>3. ran[i] = 1 => i < m.cursor
      BY <2>1, <1>a DEF EffectBehind
    <2>4. m.cursor >= store.cursor
      BY <2>1, <1>a
    <2>5. SaveAndAbort(GiveBack(m)) \/ SaveThen(m, m, "loop")
      BY <1>5 DEF MissingHandler, m
    <2> QED
      BY <2>1, <2>2, <2>3, <2>4, <2>5, SaveThenKeepsEffects, GiveBackKeepsEffects
  <1>6. CASE IdempotentSkip
    <2> DEFINE m == [msg EXCEPT !.history = @ \cup {<<msg.cursor, "idempotent_skip">>}]
    <2>1. m \in Message /\ m.cursor >= store.cursor
      BY <1>6, <1>a, OnAStep DEF IdempotentSkip, InStep, Message, HistoryStatus, ClaimInv
    <2> QED
      BY <1>6, <2>1, SaveThenKeepsEffects DEF IdempotentSkip
  <1>7. CASE ClaimStep
    <2>1. Mark(msg, "running").cursor = store.cursor + 1
      BY <1>7, <1>a, MarkType DEF ClaimStep, StepStatus, ClaimInv
    <2>2. \/ store'.cursor = store.cursor + 1
          \/ store' = store /\ pc' = "idle"
      BY <1>7, <2>1 DEF ClaimStep, SaveThen, SaveFails, Return
    <2> QED
      BY <1>7, <2>2, <1>a, ForwardKeepsEffects DEF ClaimStep
  <1>8. CASE HandlerSucceeds
    <2>1. msg.cursor = store.cursor /\ pc = "handle" /\ pc' = "succeeded" /\ store' = store
      BY <1>8 DEF HandlerSucceeds, ClaimInv
    <2>2. CASE i = msg.cursor
      <3>1. ran[i] = 0
        BY <2>1, <2>2 DEF EffectBehind, TypeInv, TypeOK
      <3>2. ran'[i] = 1
        BY <1>8, <2>2, <3>1 DEF HandlerSucceeds, TypeInv, TypeOK
      <3> QED
        BY <2>1, <2>2, <3>2, <1>a DEF EffectBehind
    <2>3. CASE i # msg.cursor
      <3>1. ran'[i] = ran[i]
        BY <1>8, <2>3 DEF HandlerSucceeds, TypeInv, TypeOK
      <3> QED
        BY <2>1, <3>1 DEF EffectBehind
    <2> QED
      BY <2>2, <2>3
  <1>9. CASE HandlerFails
    BY <1>9, <1>a, ForwardKeepsEffects DEF HandlerFails
  <1>10. CASE SettleStep
    <2>1. Settled \in Message /\ Settled.cursor = store.cursor
      BY <1>10, SettledType DEF SettleStep, InStep, ClaimInv
    <2>0. pc = "succeeded" /\ ran' = ran /\ msg.cursor = store.cursor
      BY <1>10 DEF SettleStep, ClaimInv
    <2>2. ASSUME NEW t \in Positions, JumpTarget(t)
          PROVE  LET m == [MoveTo(Settled, t) EXCEPT
                             !.jumpTo = IF Step.name = "cel" THEN "" ELSE @]
                 IN  m \in Message /\ m.cursor >= store.cursor
      <3>1. t - 1 >= store.cursor
        BY <2>0, <2>2, <1>a, SlipType DEF JumpTarget, Positions
      <3>2. MoveTo(Settled, t) \in Message /\ MoveTo(Settled, t).cursor = t - 1
        BY <1>a, <2>1, MoveToType
      <3> QED
        BY <3>1, <3>2, RefsAssumption DEF Message
    <2>3. CASE SaveSettled(Settled)
      BY <2>0, <2>1, <2>3, <1>a, SaveSettledKeepsEffects
    <2>4. CASE \E t \in Positions :
                 /\ JumpTarget(t)
                 /\ SaveSettled([MoveTo(Settled, t) EXCEPT
                                   !.jumpTo = IF Step.name = "cel" THEN "" ELSE @])
      BY <2>0, <2>2, <2>4, SaveSettledKeepsEffects
    <2> QED
      BY <1>10, <2>3, <2>4 DEF SettleStep
  <1>11. CASE RejectJump
    <2> DEFINE m == [Mark(Settled, "failed") EXCEPT !.errors = @ \cup {msg.cursor}]
    <2>1. /\ Mark(Settled, "failed") \in Message /\ msg.cursor \in Positions
          /\ Mark(Settled, "failed").cursor = msg.cursor
      BY <1>11, SettledType, MarkType, OnAStep DEF RejectJump, InStep, StepStatus
    <2>2. m \in Message /\ m.cursor = msg.cursor
      BY <2>1 DEF Message
    <2>3. CursorController(msg.cursor)
      BY <1>11 DEF RejectJump, WantsJump, CursorController, Step
    <2>4. msg.cursor = store.cursor /\ msg.cursor >= 1
      BY <1>11, <2>1 DEF RejectJump, ClaimInv, Positions
    <2> HIDE DEF m
    <2>5. ran[i] = 1 => i < m.cursor
      BY <2>2, <2>3, <2>4, <1>a DEF EffectBehind
    <2>6. m.cursor >= store.cursor /\ m.cursor >= 1 /\ ran' = ran
      BY <2>2, <2>4, <1>a, <1>11 DEF RejectJump
    <2> QED
      BY <1>11, <2>2, <2>5, <2>6, GiveBackKeepsEffects, SaveSettledKeepsEffects
         DEF RejectJump, m
  <1>12. CASE StopOnFailure
    <2>1. Failed \in Message /\ Failed.cursor = msg.cursor
      BY <1>12, FailedType DEF StopOnFailure, InStep
    <2>2. msg.cursor = store.cursor /\ msg.cursor >= 1
      BY <1>12 DEF StopOnFailure, ClaimInv, TypeInv, InStep
    <2>3. ran[i] = 1 => i < Failed.cursor
      <3>1. pc = "failed"
        BY <1>12 DEF StopOnFailure
      <3> QED
        BY <3>1, <2>1, <2>2, <1>a DEF EffectBehind
    <2> QED
      BY <1>12, <2>1, <2>2, <2>3, GiveBackKeepsEffects DEF StopOnFailure
  <1>13. CASE ContinueOnFailure
    <2>1. Log(Failed, "failed") \in Message /\ Log(Failed, "failed").cursor >= store.cursor
      BY <1>13, <1>a, FailedType, LogType, OnAStep
         DEF ContinueOnFailure, InStep, HistoryStatus, ClaimInv
    <2> QED
      BY <1>13, <2>1, SaveThenKeepsEffects DEF ContinueOnFailure
  <1>14. CASE SkipOnFailure
    <2>1. Log(Failed, "skipped") \in Message /\ Log(Failed, "skipped").cursor = store.cursor
      BY <1>14, <1>a, FailedType, LogType, OnAStep
         DEF SkipOnFailure, InStep, HistoryStatus, ClaimInv
    <2>2. /\ Mark(Log(Failed, "skipped"), "skipped") \in Message
          /\ Mark(Log(Failed, "skipped"), "skipped").cursor = store.cursor
      BY <2>1, MarkType DEF StepStatus
    <2> QED
      BY <1>14, <2>1, <2>2, <1>a, SaveThenKeepsEffects DEF SkipOnFailure
  <1>15. CASE JumpOnFailure
    <2> DEFINE f == Mark(Log(Failed, "jumped"), "jumped")
    <2>1. Log(Failed, "jumped") \in Message
      BY <1>15, FailedType, LogType, OnAStep DEF JumpOnFailure, InStep, HistoryStatus
    <2>2. f \in Message
      BY <2>1, MarkType DEF StepStatus
    <2>3. ASSUME NEW t \in Positions, Resolves(Step.to, t)
          PROVE  MoveTo(f, t) \in Message /\ MoveTo(f, t).cursor >= store.cursor
      <3>1. msg.cursor < t
        BY <1>15, <2>3, OnAStep DEF JumpOnFailure, InStep, Step, NoBackwardFailureJump
      <3>2. msg.cursor = store.cursor
        BY <1>15 DEF JumpOnFailure, ClaimInv
      <3> HIDE DEF f
      <3> QED
        BY <3>1, <3>2, <2>2, <1>a, MoveToType DEF Positions
    <2> QED
      BY <1>15, <2>3, SaveThenKeepsEffects DEF JumpOnFailure
  <1>16. CASE Finish
    <2>1. store'.cursor = store.cursor /\ ran' = ran /\ pc' \notin {"handle", "failed"}
      BY <1>16, <1>a DEF Finish, SaveFails, Return, ClaimInv, Message
    <2> QED
      BY <2>1, <1>a, ForwardKeepsEffects
  <1>17. CASE Crash
    BY <1>17, <1>a, ForwardKeepsEffects DEF Crash, Return
  <1>18. CASE Cancel
    BY <1>18, <1>a, ForwardKeepsEffects DEF Cancel
  <1>19. CASE UNCHANGED vars
    BY <1>19, <1>a, ForwardKeepsEffects DEF vars
  <1> QED
    BY <1>1, <1>2, <1>3, <1>4, <1>5, <1>6, <1>7, <1>8, <1>9, <1>10, <1>11, <1>12,
       <1>13, <1>14, <1>15, <1>16, <1>17, <1>18, <1>19 DEF Next, Progress

\* Whatever crashes, cancellations, failed saves and redeliveries happen, no step
\* takes effect twice (jump_if and cel, which only decide, aside).
THEOREM NoRepeatedEffect == Spec => []AtMostOneEffect
  <1>1. Init => EffectInv
    BY DEF Init, EffectInv, EffectBehind
  <1>2. EffectInv => AtMostOneEffect
    BY DEF EffectInv, EffectBehind, AtMostOneEffect
  <1> QED
    BY <1>1, <1>2, ClaimInvariant, EffectInvNext, PTL DEF Spec
=============================================================================
