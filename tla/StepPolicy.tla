------------------------------ MODULE StepPolicy ------------------------------
(***************************************************************************)
(* The retries of a step: attempts and backoffDuration of                  *)
(* app/slip/resilience.go, as handleStep (app/slip/slip.go) uses them.     *)
(* Durations are milliseconds; 0 stands for a parameter that is not given. *)
(***************************************************************************)
EXTENDS Integers

Least(a, b) == IF a < b THEN a ELSE b

\* ResiliencePolicy.attempts
Attempts(p) == IF p.attempts <= 0 THEN 1 ELSE p.attempts

MaxInterval(p) == IF p.max <= 0 THEN 1000 ELSE p.max
Initial(p) == IF p.initial <= 0 THEN 100 ELSE p.initial

\* The exponential delay before attempt n: doubled for every attempt after the
\* second, until it reaches the maximum.
Doubled(p, n) ==
  LET Before[k \in 2..n] ==
        IF k = 2 THEN Initial(p) ELSE Least(2 * Before[k - 1], MaxInterval(p))
  IN  Before[n]

\* Mutant of Delay: the maximum is left to the loop that doubles.
Delay_Uncapped(p, n) ==
  IF n <= 1 \/ p.backoff = "none" THEN 0 ELSE IF p.backoff = "fixed" THEN Initial(p) ELSE Doubled(p, n)

\* backoffDuration without its jitter; any other backoff is exponential.
Delay(p, n) ==
  IF n <= 1 \/ p.backoff = "none" THEN 0
  ELSE Least(IF p.backoff = "fixed" THEN Initial(p) ELSE Doubled(p, n), MaxInterval(p))

\* The delays that rand.Int63n(delay / 2) leaves possible.
Backoffs(p, n) ==
  LET d == Delay(p, n)
  IN  IF p.jitter /\ d > 0 THEN d..(d + (d \div 2) - 1 + (d % 2)) ELSE {d}

-----------------------------------------------------------------------------
(* What a policy promises. *)

\* The policies that a workflow file can hold.
RetryPolicies == [attempts : Int, backoff : STRING, initial : Int, max : Int, jitter : BOOLEAN]

\* The delay of a retry never exceeds the maximum, or one and a half times the
\* maximum with jitter; before jitter it never shrinks from attempt to attempt;
\* the first attempt is made at once.
Bounded(p) ==
  \A n \in 1..Attempts(p) :
    /\ \A d \in Backoffs(p, n) :
         IF p.jitter THEN 2 * d < 3 * MaxInterval(p) ELSE d <= MaxInterval(p)
    /\ n = 1 => Backoffs(p, n) = {0}
    /\ n > 1 => Delay(p, n) >= Delay(p, n - 1)
=============================================================================
