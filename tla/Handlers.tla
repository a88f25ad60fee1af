------------------------------- MODULE Handlers -------------------------------
(***************************************************************************)
(* What one call of a handler does to the payload (app/handlers), for the  *)
(* handlers that write single fields: validate, enrich, transform, assert, *)
(* compute, jump_if, cel, log, notify, rest_call, graphql_enrich,          *)
(* aws_action and datadog_metric.                                          *)
(*                                                                         *)
(* A step is a record of its parameters; ext is what the world outside of  *)
(* the handler answers to this call: the verdict of a CEL expression, or   *)
(* how the request to a service went.  Time stamps are left out.           *)
(***************************************************************************)
EXTENDS Conditions

Outcome(proceed, failed, payload) == [proceed |-> proceed, failed |-> failed, payload |-> payload]

Done(payload) == Outcome(TRUE, FALSE, payload)
Stopped(payload) == Outcome(FALSE, FALSE, payload)
Failed(payload) == Outcome(FALSE, TRUE, payload)

\* What a value written by a handler is read back as.
Only(found) == IF found = {} THEN Nil ELSE CHOOSE v \in found : TRUE

\* ValidationHandler.Handle
Validate(s, payload) ==
  LET missing == {f \in s.required : Only(At(payload, f)).kind = "nil" \/ Only(At(payload, f)) = Text("")}
  IN  IF missing = {} THEN Done(Put(payload, "validation_passed", Bool(TRUE)))
      ELSE LET noted == Put(payload, "validation_error", Text("missing"))
           IN  IF s.stopOnFailure THEN Failed(noted) ELSE Done(noted)

\* EnrichmentHandler.Handle: data lists the entries in the order in which the map
\* happens to be iterated; a value may be a placeholder of a field.
Enrich(s, payload) ==
  Done(FoldLeft(LAMBDA p, d : Put(p, d.key, IF d.from = <<>> THEN d.value ELSE Only(At(p, d.from))),
                payload, s.data))

\* TransformHandler.Handle
Transform(s, payload) ==
  LET found == At(payload, s.field)
  IN  IF found = {} \/ s.operation = "unknown" THEN Failed(payload)
      ELSE Done(Put(payload, s.target, Text(s.operation \o Only(found).text)))

\* AssertHandler.Handle
AssertStep(s, payload) ==
  LET answer == Asserted(s.config, payload)
      noted == Put(payload, "assert_passed", Bool(answer = "true"))
  IN  CASE answer = "error" -> Failed(payload)
        [] answer = "true" -> Done(noted)
        [] OTHER -> Failed(Put(noted, "assert_failures", Text("failures")))

\* ComputeHandler.Handle
Compute(s, payload) ==
  LET values == Computed(s.config, payload)
  IN  IF values = {} THEN Failed(payload) ELSE Done(Put(payload, s.target, Only(values)))

\* JumpIfHandler.Handle
JumpIf(s, payload) ==
  LET answer == Evaluate(s.config, payload)
  IN  IF answer = "error" THEN Failed(payload)
      ELSE Done(Put(payload, "jump_if_matched", Bool(answer = "true")))

\* CELHandler.Handle, when ext is what the expression evaluates to.
Cel(s, payload, ext) ==
  LET noted == Put(Put(payload, s.target, Bool(ext = "true")), "cel_passed", Bool(ext = "true"))
  IN  IF ext = "error" THEN Failed(payload)
      ELSE IF ext = "true" THEN Done(noted)
      ELSE
        CASE s.onFalse = "continue" -> Done(noted)
          [] s.onFalse = "jump" /\ s.to # "" -> Done(Put(noted, "cel_jump_to", Text(s.to)))
          [] s.onFalse = "stop" -> Stopped(Put(noted, "cel_stopped", Bool(TRUE)))
          [] OTHER -> Failed(noted)

\* LogHandler.Handle
Log(s, payload) ==
  IF s.isRequired /\ \E f \in s.required : At(payload, f) = {} THEN Failed(payload)
  ELSE Done(Put(payload, "last_log_level", Text("info")))

\* NotificationHandler.Handle
Notify(s, payload, ext) ==
  IF ext = "unreachable" THEN Failed(payload)
  ELSE Done(Put(payload, "notification_sent", Bool(TRUE)))

\* Mutant of Request: the error's body is stored before the status is looked at.
Request_StoresFirst(s, payload, ext) ==
  LET stored == Put(payload, s.target, Text("body"))
  IN  CASE ext = "unconfigured" -> Failed(payload)
        [] ext \in {"unreachable", "status"} /\ s.isRequired -> Failed(stored)
        [] ext \in {"unreachable", "status"} /\ ~s.isRequired -> Done(Put(payload, s.target \o "_partial", Bool(TRUE)))
        [] ext = "malformed" -> Failed(payload)
        [] ext \in {"errors", "no result"} /\ s.isRequired -> Failed(payload)
        [] OTHER -> Done(stored)

\* RESTCallHandler.Handle and GraphQLEnrichmentHandler.Handle: a step that is not
\* required passes over a request that fails and over a result that is missing,
\* not over missing parameters or a response that cannot be decoded.
Request(s, payload, ext) ==
  CASE ext \in {"unconfigured", "malformed"} -> Failed(payload)
    [] ext \in {"unreachable", "status"} /\ ~s.isRequired -> Done(Put(payload, s.target \o "_partial", Bool(TRUE)))
    [] ext = "answered" \/ (ext \in {"errors", "no result"} /\ ~s.isRequired) ->
         Done(Put(payload, s.target, Text("body")))
    [] OTHER -> Failed(payload)

\* AWSActionHandler.Handle and DatadogMetricHandler.Handle: whatever fails is
\* passed over when the step is not required, missing parameters, too.
Action(s, payload, ext) ==
  IF ext = "answered" THEN Done(Put(payload, s.target, Text("result")))
  ELSE IF s.isRequired THEN Failed(payload)
  ELSE Done(Put(payload, s.target \o "_partial", Bool(TRUE)))

Handle(s, payload, ext) ==
  CASE s.name = "validate" -> Validate(s, payload)
    [] s.name = "enrich" -> Enrich(s, payload)
    [] s.name = "transform" -> Transform(s, payload)
    [] s.name = "assert" -> AssertStep(s, payload)
    [] s.name = "compute" -> Compute(s, payload)
    [] s.name = "jump_if" -> JumpIf(s, payload)
    [] s.name = "cel" -> Cel(s, payload, ext)
    [] s.name = "log" -> Log(s, payload)
    [] s.name = "notify" -> Notify(s, payload, ext)
    [] s.name \in {"rest_call", "graphql_enrich"} -> Request(s, payload, ext)
    [] s.name \in {"aws_action", "datadog_metric"} -> Action(s, payload, ext)

-----------------------------------------------------------------------------
(* Retries. *)

\* What handlers note of their own call, for a reader of the payload.
Diagnostics == {"validation_error", "assert_passed", "assert_failures", "cel_passed"}

\* A step that is called again after an attempt that failed, by the retries of its
\* policy or by a redelivery, does what it would have done without that attempt.
RetryIsCleanOf(s, payload, ext1, ext2) ==
  \A first \in {Handle(s, payload, ext1)}, alone \in {Handle(s, payload, ext2)} :
    first.failed =>
      \A again \in {Handle(s, first.payload, ext2)} :
        /\ again.proceed = alone.proceed /\ again.failed = alone.failed
        /\ Dropped(again.payload, Diagnostics) = Dropped(alone.payload, Diagnostics)

-----------------------------------------------------------------------------
(* When a retry can be clean. *)

\* A path that does not lead to a note of a handler.
Plain(path) == path = <<>> \/ Head(path) \notin Diagnostics

\* A step decides by none of those notes.
DecidesByPlainFields(s) ==
  /\ s.name \in {"validate", "log"} => \A f \in s.required : Plain(f)
  /\ s.name = "transform" => Plain(s.field)
  /\ s.name = "assert" => \A k \in DOMAIN s.config.list : Plain(s.config.list[k].field)
  /\ s.name = "compute" /\ s.config.mode \in {"field", "count"} => Plain(s.config.field)
  /\ s.name = "compute" /\ s.config.mode = "condition" => Plain(s.config.value.field)
  /\ s.name = "jump_if" => Plain(s.config.field)

HandlerNames ==
  {"validate", "enrich", "transform", "assert", "compute", "jump_if", "cel", "log", "notify", "rest_call",
   "graphql_enrich", "aws_action", "datadog_metric"}

\* An attempt and its repetition: of a step and an object, and the expression of a
\* cel step comes to the same both times.
Repeatable(s, payload, ext1, ext2) ==
  /\ s.name \in HandlerNames /\ DecidesByPlainFields(s)
  /\ payload = Object(payload.fields)
  /\ s.name = "cel" => ext1 = ext2
=============================================================================
