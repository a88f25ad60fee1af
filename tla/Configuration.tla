----------------------------- MODULE Configuration -----------------------------
(***************************************************************************)
(* What the two runtimes make of a configuration and a workflow file: the  *)
(* defaults, the checks and the start of the command line                  *)
(* (app/runtime_config.go, app/runtime_state.go, newAppRuntime of          *)
(* app/triggers.go) and of the importable runtime                          *)
(* (app/framework/framework.go).                                           *)
(*                                                                         *)
(* "", 0 and {} stand for what is not written.  Settings that are only     *)
(* handed to a library, and whose default is a literal, are left out; a    *)
(* default that an environment variable overrides is what is taken when it *)
(* is not set, and the files are read after variables have been expanded.  *)
(***************************************************************************)
EXTENDS Integers, Sequences

CONSTANTS Trimmed, Lowered   \* strings.TrimSpace and strings.ToLower

Texts == DOMAIN Trimmed

\* AppConfig: an entry of brokers is the list of what splitCSV makes of it; a
\* pointer to a Boolean is a set of at most one.
QueueConfig == [region : Texts, endpoint : Texts, url : Texts, wait : Int, max : Int, visibility : Int]

TableConfig == [name : Texts, region : Texts, endpoint : Texts, days : Int]

McpConfig == [enabled : BOOLEAN, flag : BOOLEAN, mode : Texts, auth : Texts]

AppConfig ==
  [connector : Texts, type : Texts, mode : Texts, brokers : Seq(Seq(Texts)), sqs : QueueConfig, sns : QueueConfig,
   runId : Texts, runTag : Texts, store : Texts, path : Texts, table : TableConfig, persistent : BOOLEAN,
   idempotent : BOOLEAN, template : Texts, topIdempotent : BOOLEAN, topTemplate : Texts,
   lock : {{}, {TRUE}, {FALSE}}, lockTTL : Int, mcp : McpConfig,
   redaction : [enabled : BOOLEAN, fields : SUBSET Texts]]

\* WorkflowConfig: a step is given by the name of its handler.
WorkflowConfig == [name : Texts, policy : Texts, messagePath : Texts, correlationPath : Texts, steps : Seq(Texts)]

Normal(text) == Lowered[Trimmed[text]]

OrElse(text, default) == IF Trimmed[text] = "" THEN default ELSE text
TrimmedOr(text, default) == IF Trimmed[text] = "" THEN default ELSE Trimmed[text]
Written(text, default) == IF text = "" THEN default ELSE text
Positive(n, default) == IF n > 0 THEN n ELSE default
Chosen(flag, default) == IF flag = {} THEN {default} ELSE flag

-----------------------------------------------------------------------------
(* The command line. *)

\* A queue's settings, with those of another one for what is not written.
QueueOr(q, default) ==
  [region |-> OrElse(q.region, default.region), endpoint |-> OrElse(q.endpoint, default.endpoint),
   url |-> OrElse(q.url, default.url), wait |-> Positive(q.wait, default.wait),
   max |-> Positive(q.max, default.max), visibility |-> Positive(q.visibility, default.visibility)]

LocalQueue ==
  [region |-> "us-east-1", endpoint |-> "http://localhost:4566", url |-> "payment-events",
   wait |-> 10, max |-> 1, visibility |-> 30]

\* Mutant of Queues: SNS takes what was written for SQS, not what it became.
Queues_AsWritten(c) ==
  [sqs |-> QueueOr(c.sqs, LocalQueue), sns |-> QueueOr(c.sns, [c.sqs EXCEPT !.url = "payment-events-sns"])]

\* SQS first: SNS takes its settings over.
Queues(c) ==
  LET sqs == QueueOr(c.sqs, LocalQueue)
  IN  [sqs |-> sqs, sns |-> QueueOr(c.sns, [sqs EXCEPT !.url = "payment-events-sns"])]

\* Brokers: one entry that holds several, between commas, is split.
BrokersOf(entries) == IF Len(entries) = 1 THEN [k \in DOMAIN entries[1] |-> <<entries[1][k]>>] ELSE entries

\* connector, the older type for it, or rest.
ConnectorOf(c) == Normal(OrElse(c.connector, OrElse(c.type, "rest")))

Template == "{workflow}:{message_id}:{step_index}:{step}"

\* The settings of the DynamoDB store and of the MCP server, which two flags enable.
TableOr(t) ==
  [name |-> OrElse(t.name, "routing-slip-state"), region |-> OrElse(t.region, "us-east-1"),
   endpoint |-> t.endpoint, days |-> Positive(t.days, 30)]

McpOr(m) ==
  [enabled |-> m.enabled \/ m.flag, flag |-> m.flag, mode |-> Normal(OrElse(m.mode, "readonly")),
   auth |-> Normal(OrElse(m.auth, "none"))]

\* applyConfigDefaults
AppDefaults(c) ==
  LET connector == ConnectorOf(c)
      runId == OrElse(c.runId, "now")
  IN  [c EXCEPT !.connector = connector,
                !.type = Normal(OrElse(@, connector)),
                !.mode = Normal(OrElse(@, IF connector = "rest" THEN "sync" ELSE "async")),
                !.brokers = BrokersOf(IF @ = <<>> THEN <<<<"localhost:9092">>>> ELSE @),
                !.sqs = Queues(c).sqs, !.sns = Queues(c).sns,
                !.runId = runId, !.runTag = IF @ = "" THEN runId ELSE @,
                !.store = Normal(OrElse(@, "memory")), !.path = OrElse(@, ".routing-slip-state"),
                !.table = TableOr(@), !.template = OrElse(@, Template),
                !.lock = Chosen(@, TRUE), !.lockTTL = Positive(@, 300),
                !.mcp = McpOr(@),
                !.redaction = IF ~@.enabled /\ @.fields = {} THEN [enabled |-> TRUE, fields |-> {"token", "password"}] ELSE @]

\* validateAppConfig
Valid(c) ==
  /\ c.connector \in {"rest", "kafka", "sqs", "sns"} /\ c.mode \in {"sync", "async"}
  /\ c.store \in {"memory", "file", "dynamodb"} /\ c.mcp.mode \in {"readonly", "maintenance"}
  /\ c.mcp.auth \in {"none", "api_key"}

\* applyWorkflowDefaults and validateWorkflowConfig
WorkflowDefaults(w) ==
  [w EXCEPT !.name = OrElse(@, "payment-event-fulfillment"), !.policy = OrElse(@, "stop"),
            !.messagePath = OrElse(@, "payload.pagamento_id"), !.correlationPath = OrElse(@, "correlation_id")]

\* RoutingErrorPolicy and errorPolicy of the framework, which does not trim.
Policies == {"stop", "continue", "skip"}
PolicyOf(text) == IF text = "" THEN {"stop"} ELSE Policies \cap {text}

\* The steps of a runtime: those that a workflow_ref stands for get ids with a
\* prefix from the command line, and keep their own in the framework.
Composed(steps, prefixed) ==
  [k \in DOMAIN steps |-> [name |-> steps[k], prefixed |-> prefixed /\ steps[k] = "workflow_ref"]]

\* What a runtime is started with, or {}; the template as stepExecutionKey reads
\* it, which puts the name of the workflow in.
Runtime(policies, stores, w, steps, idempotent, template) ==
  {[policy |-> p, store |-> s, workflow |-> w.name, messagePath |-> w.messagePath,
    correlationPath |-> w.correlationPath, steps |-> steps, idempotent |-> idempotent,
    template |-> TrimmedOr(template, Template)] : p \in policies, s \in stores}

\* The table that NewDynamoDBStateStore is given, if it is given one, where it is
\* and after how many days an item expires, if ever.
Tables(table, endpoint) ==
  {[name |-> n, region |-> table.region, endpoint |-> endpoint, days |-> Positive(table.days, 0)] :
     n \in {Trimmed[table.name]} \ {""}}

\* A store and the place it keeps its snapshots in: NewFileStateStore has one of
\* its own.
Store(type, path, tables) ==
  CASE type \in {"", "memory"} -> {<<"memory">>}
    [] type = "file" -> {<<"file", TrimmedOr(path, ".routing-slip-state")>>}
    [] type = "dynamodb" -> {<<"dynamodb", t>> : t \in tables}
    [] OTHER -> {}

\* buildStateStore and buildDynamoDBStateStore of the command line.
AppTables(table) == Tables(table, {e \in {table.endpoint} : Trimmed[e] # ""})

AppStores(c) ==
  IF c.persistent THEN Store(Normal(c.store), c.path, AppTables(c.table)) ELSE {<<"memory">>}

\* newAppRuntime, after loadAppConfig and loadWorkflowConfig accepted both files.
AppRuntime(c, w) ==
  LET d == AppDefaults(c)
      v == WorkflowDefaults(w)
  IN  IF ~Valid(d) \/ v.steps = <<>> THEN {}
      ELSE Runtime(PolicyOf(Normal(v.policy)), AppStores(d), v, Composed(v.steps, TRUE), d.idempotent, d.template)

\* runConfiguredApp has a consumer for the connector.
HasConsumer(c) == c.connector \in {"rest", "kafka", "sqs", "sns"}

-----------------------------------------------------------------------------
(* The importable runtime. *)

\* buildStore
FrameworkTables(table) == Tables(table, {table.endpoint} \ {""})

FrameworkStores(c) == Store(Lowered[c.store], c.path, FrameworkTables(c.table))

\* New, after applyDefaults, which gives no name and lets idempotency be written in
\* two places.
FrameworkRuntime(c, w) ==
  LET v == [w EXCEPT !.messagePath = Written(@, "message_id"), !.correlationPath = Written(@, "correlation_id")]
  IN  Runtime(PolicyOf(Lowered[w.policy]), FrameworkStores(c), v, Composed(v.steps, FALSE), c.topIdempotent \/ c.idempotent,
              Written(Written(c.topTemplate, c.template), Template))

-----------------------------------------------------------------------------
(* What a configuration is good for. *)

Complete(c) ==
  /\ \A q \in {c.sqs, c.sns} : q.region # "" /\ q.endpoint # "" /\ q.url # "" /\ q.wait > 0 /\ q.max > 0 /\ q.visibility > 0
  /\ c.brokers # <<>> /\ \A k \in DOMAIN c.brokers : Len(c.brokers[k]) = 1
  /\ c.lock # {} /\ c.lockTTL > 0 /\ c.runTag # "" /\ c.template # ""
  /\ c.table.region # "" /\ c.table.days > 0

\* A DynamoDB table is the same for both if its region and expiry are written.
SameTable(table) ==
  Trimmed[table.region] # "" /\ table.days > 0 /\ (table.endpoint = "" \/ Trimmed[table.endpoint] # "")

\* The two runtimes read the same of a file that writes down what they have
\* different defaults for, nothing that only one of them reads, and includes no
\* other file, of whose steps they make different ids.
SameForBoth(c, w) ==
  /\ c.persistent \/ Normal(c.store) \in {"", "memory"}
  /\ Normal(c.store) = "dynamodb" => SameTable(c.table)
  /\ Trimmed[w.name] # ""
  /\ Trimmed[w.messagePath] # "" /\ (w.correlationPath = "" \/ Trimmed[w.correlationPath] # "")
  /\ \A k \in DOMAIN w.steps : w.steps[k] # "workflow_ref"
  /\ ~c.topIdempotent /\ c.topTemplate = ""

DefaultsSettled(c, w) ==
  /\ AppDefaults(AppDefaults(c)) = AppDefaults(c)
  /\ WorkflowDefaults(WorkflowDefaults(w)) = WorkflowDefaults(w)

KnownPolicy(w) == PolicyOf(Normal(WorkflowDefaults(w).policy)) # {}

AcceptedStarts(c, w) ==
  Valid(AppDefaults(c)) /\ w.steps # <<>> =>
    HasConsumer(AppDefaults(c)) /\ (KnownPolicy(w) <=> AppRuntime(c, w) # {})

RuntimesAgree(c, w) ==
  SameForBoth(c, w) => \A a \in AppRuntime(c, w), f \in FrameworkRuntime(c, w) : a = f

\* Defaults leave nothing open and are settled by one application; what is
\* accepted, with a policy that is known, starts and has a consumer; and if both
\* runtimes start with the same two files, which write down what SameForBoth asks
\* for, they keep the same state under the same keys in the same place.
AcceptedRuns(c, w) ==
  /\ DefaultsSettled(c, w)
  /\ Complete(AppDefaults(c))
  /\ AcceptedStarts(c, w)
  /\ RuntimesAgree(c, w)

-----------------------------------------------------------------------------
(* What is known of the files and of the functions on texts. *)

\* The brokers are one entry with at least one host in it, or one host an entry.
BrokersListed(c) ==
  \/ Len(c.brokers) = 1 /\ c.brokers[1] # <<>>
  \/ \A k \in DOMAIN c.brokers : Len(c.brokers[k]) = 1

\* The texts that the code itself writes or compares with.
Literals ==
  {"", "rest", "kafka", "sqs", "sns", "sync", "async", "memory", "file", "dynamodb", "readonly", "maintenance", "stop",
   "continue", "skip", "now", "us-east-1", "http://localhost:4566", "payment-events", "payment-events-sns",
   "payload.pagamento_id", "correlation_id", "message_id", ".routing-slip-state", "routing-slip-state", Template,
   "localhost:9092", "token", "password", "payment-event-fulfillment", "none", "api_key"}

\* TrimSpace and ToLower change nothing a second time and may be swapped, ToLower
\* empties no text, and neither changes what the code writes.
TextFunctions ==
  /\ Trimmed \in [Texts -> Texts] /\ Lowered \in [Texts -> Texts]
  /\ \A t \in Texts :
       /\ Trimmed[Trimmed[t]] = Trimmed[t] /\ Lowered[Lowered[t]] = Lowered[t]
       /\ Trimmed[Lowered[t]] = Lowered[Trimmed[t]]
       /\ Lowered[t] = "" <=> t = ""
  /\ \A t \in Literals : t \in Texts /\ Trimmed[t] = t /\ Lowered[t] = t
=============================================================================
