---------------------------- MODULE SlipProgress ----------------------------
(***************************************************************************)
(* What Router.Process (app/slip/slip.go) promises to those who call it,   *)
(* one call after another, whatever the steps of the slip do: which        *)
(* snapshots it may leave in the store, and what its answer says of them.  *)
(* Router implements this specification.                                   *)
(***************************************************************************)
EXTENDS Snapshots

VARIABLES
  size,    \* the number of steps of the slip; never changes
  saved,   \* the snapshot in the store
  live,    \* the message of the running call
  active,  \* whether a call is running
  answer   \* what the last call returned: "none" yet, "ok" or "error"

vars == <<size, saved, live, active, answer>>

Init ==
  /\ size \in Nat
  /\ saved = Fresh
  /\ live = Fresh
  /\ active = FALSE
  /\ answer = "none"

\* A completed message is acknowledged at once, any other one is resumed.
Enter ==
  /\ ~active
  /\ \/ /\ Completed(saved, size)
        /\ answer' = "ok"
        /\ UNCHANGED <<live, active>>
     \/ /\ ~Completed(saved, size)
        /\ answer' = "none"
        /\ live' = Resumed(saved)
        /\ active' = TRUE
  /\ UNCHANGED <<size, saved>>

\* The cursor moves, forward and, by a failure jump, backward; a step may stop
\* the workflow.  Whatever is saved meanwhile can be resumed.
Work ==
  /\ active
  /\ live.status = "running"
  /\ live' \in [cursor: 0..size, status: {"running", "stopped"}]
  /\ saved' \in {saved, live, [live' EXCEPT !.status = "running"]}
  /\ UNCHANGED <<size, active, answer>>

\* The call ends with the error, or the death, of the process: the store has
\* what it had, a running message, or one that says why it stopped.  A save
\* whose error is returned may have taken place.
GiveUp ==
  /\ active
  /\ active' = FALSE
  /\ answer' = "error"
  /\ live' = Fresh
  /\ \/ saved' = saved
     \/ saved' \in [cursor: 0..size, status: {"running", "failed", "cancelled"}]
     \/ MayEnd(live, size) /\ saved' = Last(live)
  /\ UNCHANGED size

\* The call succeeds: the slip's end is reached or a step has stopped it, and
\* the store says which.
Finish ==
  /\ active
  /\ MayEnd(live, size)
  /\ saved' = Last(live)
  /\ active' = FALSE
  /\ answer' = "ok"
  /\ live' = Fresh
  /\ UNCHANGED size

Next == Enter \/ Work \/ GiveUp \/ Finish

Spec == Init /\ [][Next]_vars
=============================================================================
