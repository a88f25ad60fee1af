------------------------------ MODULE Snapshots ------------------------------
(***************************************************************************)
(* What a snapshot of a message says to whoever resumes it: the cursor and *)
(* the status, for a slip of n steps, and the ways one call of             *)
(* Router.Process (app/slip/slip.go) moves them.  SlipProgress is the      *)
(* specification of one call after another; Delivery has many at a time.   *)
(***************************************************************************)
EXTENDS Integers

Fresh == [cursor |-> 0, status |-> "created"]

SnapshotOf(n) ==
  [cursor: 0..n,
   status: {"created", "running", "completed", "stopped", "failed", "cancelled"}]

\* Nothing is left to do: processPayload returns the snapshot as it is.
Completed(s, n) == s.status = "completed" /\ s.cursor = n

\* Process may acknowledge the message.
Final(s, n) == Completed(s, n) \/ s.status = "stopped"

\* The live message of a call that resumes snapshot s.
Resumed(s) == [s EXCEPT !.status = "running"]

\* The snapshot a call that leaves its loop with message m saves last.
Last(m) == IF m.status = "running" THEN [m EXCEPT !.status = "completed"] ELSE m

MayEnd(m, n) == m.status = "stopped" \/ m.cursor = n

\* Message m once the current step has been given back to be run again.
BackOnStep(m) == [cursor |-> m.cursor - 1, status |-> "failed"]
=============================================================================
