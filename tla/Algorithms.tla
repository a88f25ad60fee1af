------------------------------ MODULE Algorithms ------------------------------
(***************************************************************************)
(* The pure algorithms of the program on given inputs: a step chooses an   *)
(* input for one of the subjects, and every invariant looks at the result  *)
(* the modelled code gives for it.                                         *)
(***************************************************************************)
EXTENDS Integers, Sequences, FiniteSets

CONSTANTS
  Inputs,             \* the inputs of every subject
  Files,              \* the workflow files that may exist
  NaN,                \* a number that equals no number
  Floated,            \* what is printed of a number, when read as a float64
  Cleaned,            \* cleanStepID
  Registered,         \* the handler names that validate_workflow knows
  FileName,           \* safeStateFileName
  Rank,               \* the alphabetical order of ids and fields
  Readable,           \* the names that are identifiers of CEL
  Trimmed, Lowered    \* strings.TrimSpace and strings.ToLower

VARIABLES subject, input

vars == <<subject, input>>

Init == subject = "none" /\ input = 0

Choose ==
  /\ subject = "none"
  /\ \E s \in DOMAIN Inputs : subject' = s /\ input' \in Inputs[s]

Next == Choose

Spec == Init /\ [][Next]_vars

\* The inputs of subject s.
Of(s) == IF s \in DOMAIN Inputs THEN Inputs[s] ELSE {}

-----------------------------------------------------------------------------
(* Workflows that include each other. *)

Refs == INSTANCE WorkflowRefs

\* The workspaces are files that a directory can hold.
ASSUME WorkspacesAreFiles ==
  /\ IsFiniteSet(Files) /\ "main" \in Files
  /\ \A ws \in Of("workflow") : Refs!IsWorkspace(ws)

\* A name that has been cleaned is clean.
ASSUME NamesGetClean == \A n \in DOMAIN Cleaned : Cleaned[n] \in DOMAIN Cleaned /\ Cleaned[Cleaned[n]] = Cleaned[n]

\* Composition ends for every set of files, and is refused exactly when files
\* include each other in a circle, one is missing or, for the command line, is
\* empty: the stack of loadWorkflowConfigWithStack and of loadWorkflow.
CyclesAreRefused == subject = "workflow" => Refs!CyclesAreRefusedIn(input, "main")

\* A jump that names a step of its own file still leads to that step after the
\* file has been included, however deep: rewriteWorkflowRefTargets.
JumpsStayInTheirFile == subject = "workflow" => Refs!StaysInItsFile(input, "main", LAMBDA s : s.to)

\* The same of the target of on_failure: "IDs are prefixed to avoid conflicts".
FailureJumpsStayInTheirFile ==
  subject = "workflow" => Refs!StaysInItsFile(input, "main", LAMBDA s : s.failTo)

\* A target that validate_workflow has accepted exists when the workflow runs.
AcceptedTargetsExist == subject = "workflow" => Refs!AcceptedTargetsExistIn(input, "main")

-----------------------------------------------------------------------------
(* Conditions and handlers on payloads. *)

H == INSTANCE Handlers

\* NaN is none of the numbers that can be ordered.
ASSUME NaNIsNoInteger == NaN \notin Int

\* The conditions and payloads are ones that can be compared.
ASSUME ValuesAreCompared == \A i \in Of("condition") : H!Comparable(i.condition, i.payload)

\* A condition and its opposite (equals and not_equals, less_than and
\* greater_than_or_equal, at most n items and at least n + 1) never both hold of a
\* payload, and disagree unless both are errors; the condition gate, which compares
\* what it prints, lets nothing through that an assert or a jump_if would refuse.
\* Except NaN, which toFloat makes of a text: control_flow.go, handlers.go.
OppositesDisagree == subject = "condition" => H!AgreesOn(input.condition, input.payload)

\* The steps do not decide by what a failed attempt notes of itself.
ASSUME AttemptsAreRepeatable ==
  \A i \in Of("attempt") : H!Repeatable(i.step, i.payload, i.first, i.second)

\* A step that is attempted again, by the retries of its policy or when its
\* message is delivered again, does what it would have done without the attempt
\* that failed: what a handler notes before it fails does not change a second one.
RetryIsClean == subject = "attempt" => H!RetryIsCleanOf(input.step, input.payload, input.first, input.second)

-----------------------------------------------------------------------------
(* Texts with placeholders. *)

Filling == INSTANCE Interpolation

\* The texts are made of words and braces.
ASSUME TextsAreGiven == \A i \in Of("text") : Filling!AreTexts(i.text, i.values)

\* Placeholders are replaced until none is left, and the loop ends, unless a
\* field's value leads back to that field: the loops of interpolate,
\* interpolateValue and interpolateString, which scan what they have put in.  With
\* values that hold no brace it ends however the braces of the text are placed.
InterpolationEnds ==
  subject = "text" =>
    /\ Filling!EndsIfPlain(input.text, input.values)
    /\ Filling!EndsUnlessCircular(input.text, input.values, 8)

-----------------------------------------------------------------------------
(* The deliveries of one message and the headers they bring. *)

Tracing == INSTANCE TraceContext

\* The headers hold identifiers.
ASSUME HeadersHoldIds == \A ds \in Of("deliveries") : Tracing!AreDeliveries(ds)

\* Over all deliveries of a message the spans form chains: one span per call of a
\* handler, below the span of its delivery, which is the caller's or the last one
\* of the message: EnsureTraceContext, StartTraceSpan, processPayload, Snapshot.
SpansAreChained == subject = "deliveries" => Tracing!Chained(input)

-----------------------------------------------------------------------------
(* The ids of events. *)

Ids == INSTANCE Identity

\* The payloads are objects.
ASSUME EventsAreObjects == \A i \in Of("event") : Ids!IsEvent(i.workflow, i.payload)

\* The ids an asynchronous request is answered are those its event is processed
\* under, and an event that brings an id is the same message every time, and in
\* every entry point if the framework, which trims ids and reads numbers as
\* float64, prints it alike: prepareAsyncIdentifiers, processPayload, Process.
AcceptedNamesProcessed ==
  subject = "event" => Ids!StableNames(input.workflow, input.payload, "fresh1", "fresh2")

-----------------------------------------------------------------------------
(* Snapshots saved and listed. *)

StateStore == INSTANCE StateListing

\* The saves come in the order of their times.
ASSUME SavesAreOrdered == \A i \in Of("listing") : StateStore!IsListing(i.saves, i.locks, i.filter)

\* What is kept of the saves is found again, and a listing shows what matches its
\* filter and no more than its limit, as far as the page that DynamoDB reads and
\* the names of the state files allow: state_store.go, state_store_dynamodb.go.
ListIsComplete ==
  subject = "listing" => StateStore!ListsWhatIsKept(input.backend, input.saves, input.locks, input.filter)

-----------------------------------------------------------------------------
(* Retry policies. *)

Policy == INSTANCE StepPolicy

\* The policies are ones that a workflow file can hold.
ASSUME PoliciesAreWritten == Of("policy") \subseteq Policy!RetryPolicies

\* No retry waits longer than one and a half times the maximum interval, none
\* without jitter longer than the maximum, and the waits before jitter never shrink:
\* backoffDuration.
BackoffIsBounded == subject = "policy" => Policy!Bounded(input)

-----------------------------------------------------------------------------
(* Drafts of workflows. *)

Draft == INSTANCE Drafts

\* The rules and endpoints are ones that a request can hold.
ASSUME RequestsAreRead ==
  /\ \A i \in Of("rules") : Draft!IsRequest(i.args, i.payload)
  /\ \A i \in Of("plan") : Draft!IsPlan(i)

\* A generated draft covers its rules in their order, and lets through exactly
\* the events with all their fields; a plan covers its endpoints: mcp_business_rules.go
\* and mcp_planner.go.
DraftsAreUsable ==
  /\ subject = "rules" => Draft!GeneratedIsUsable(input.args, input.payload)
  /\ subject = "plan" => Draft!PlanIsUsable(input)

-----------------------------------------------------------------------------
(* Configurations. *)

C == INSTANCE Configuration

\* The files are ones that the two runtimes can read.
ASSUME FilesAreRead ==
  Of("config") # {} =>
    /\ C!TextFunctions
    /\ \A i \in Of("config") : i.config \in C!AppConfig /\ C!BrokersListed(i.config) /\ i.workflow \in C!WorkflowConfig

\* Whatever configuration is accepted starts, if its policy is known, its defaults
\* are complete and settled at once, and the two runtimes agree on where and under
\* which keys they keep the state of the same files, if these write down what the
\* runtimes have different defaults for: runtime_config.go, runtime_state.go,
\* framework.go.
AcceptedConfigurationRuns == subject = "config" => C!AcceptedRuns(input.config, input.workflow)
=============================================================================
