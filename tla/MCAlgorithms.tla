----------------------------- MODULE MCAlgorithms -----------------------------
(***************************************************************************)
(* The inputs on which TLC evaluates the algorithms, and what their        *)
(* constants are for them; and the array transformations, which are        *)
(* recursive operators and have no place in a module that is proved about. *)
(***************************************************************************)
EXTENDS Algorithms

-----------------------------------------------------------------------------
(* Workflows that include each other. *)

WorkflowFiles == {"main", "child", "leaf"}

WorkflowParts == {"a", "b", "p", "q", "main", "child", "leaf", "Pay", "pay", "log", "jump_if", "workflow_ref",
                  "001", "002", "003", "004"}

WorkflowHandlers == {"log", "jump_if", "workflow_ref"}

Act(id) == Refs!WrittenStep(id, "log", <<>>, <<>>)
Risky(id, failTo) == Refs!WrittenStep(id, "log", <<>>, failTo)
Jump(id, to) == Refs!WrittenStep(id, "jump_if", to, <<>>)
Off(s) == [s EXCEPT !.enabled = FALSE]

A == <<"a">>
B == <<"b">>

MainSteps ==
  {Act(A), Jump(<<>>, A), Jump(B, <<"log">>), Jump(<<>>, <<"p", "a">>), Refs!RefTo(<<>>, "child", <<>>),
   Refs!RefTo(<<"p">>, "child", <<>>), Refs!RefTo(<<"p">>, "child", <<"Pay">>),
   Refs!RefTo(B, "main", <<>>), Off(Refs!RefTo(A, "leaf", <<>>))}

ChildSteps ==
  {<<>>, <<Act(A)>>, <<Jump(B, A), Act(A)>>, <<Risky(B, A), Act(A)>>, <<Act(<<>>), Jump(A, <<"log">>)>>,
   <<Jump(<<>>, <<"Pay">>), Act(<<"Pay">>)>>, <<Off(Act(A)), Jump(B, A)>>,
   <<Jump(A, B), Refs!RefTo(B, "leaf", <<>>)>>, <<Refs!RefTo(<<>>, "leaf", <<"q">>), Act(A)>>,
   <<Refs!RefTo(A, "leaf", <<>>), Refs!RefTo(B, "leaf", <<>>)>>, <<Refs!RefTo(<<>>, "child", <<>>)>>}

LeafSteps ==
  {<<>>, <<Act(A)>>, <<Jump(B, A), Act(A)>>, <<Risky(<<>>, A), Act(A)>>,
   <<Off(Refs!RefTo(A, "main", <<>>)), Act(B)>>, <<Refs!RefTo(<<>>, "main", <<>>)>>,
   <<Refs!RefTo(<<>>, "child", <<>>)>>}

Named(steps) == [f \in DOMAIN steps |-> [name |-> f, steps |-> steps[f]]]

Workspaces ==
  LET Complete == {Named([main |-> m, child |-> c, leaf |-> l]) :
                     m \in UNION {[1..n -> MainSteps] : n \in 1..2}, c \in ChildSteps, l \in LeafSteps}
      WithoutLeaf == {Named([main |-> m, child |-> c]) :
                        m \in [1..1 -> MainSteps], c \in ChildSteps}
  IN  Complete \cup WithoutLeaf

-----------------------------------------------------------------------------
(* Conditions, handlers and arrays on small payloads. *)

Items ==
  {<<>>,
   <<H!Object([n |-> H!Number(1), x |-> H!Text("x")])>>,
   <<H!Object([n |-> H!Number(1)]), H!Object([n |-> H!Number(2), x |-> H!Text("y")])>>,
   <<H!Object([n |-> H!Number(2), l |-> H!List(<<H!Object([n |-> H!Number(1)]), H!Number(3)>>)]), H!Text("x")>>}

Payloads ==
  {H!Object([n |-> v, o |-> H!Object([n |-> H!Number(2)]), l |-> H!List(items)]) :
     v \in {H!Nil, H!Number(1), H!Digits("01", 1), H!Digits("nan", NaN), H!Text("x"), H!Bool(FALSE)}, items \in Items}

N == <<"n">>
Fields == {<<>>, N, <<"m">>, <<"o">>, <<"o", "n">>, <<"l">>, <<"l", "0">>, <<"l", "1", "n">>}

Conditions ==
  {H!Condition(op, field, value) :
     op \in {"equals", "less_than", "less_than_or_equal", "max_items"},
     field \in Fields,
     value \in {H!Nil, H!Number(0), H!Number(1), H!Number(2), H!Text("1"), H!Digits("1", 1), H!Digits("nan", NaN), H!Text("x"),
                H!Bool(FALSE), H!List(<<>>)}}

Equals(field, value) == H!Condition("equals", field, value)
One(c) == [mode |-> "one", list |-> <<c>>]

Steps ==
  {[name |-> "validate", required |-> f, stopOnFailure |-> stop] : f \in {{N}, {N, <<"m">>}}, stop \in BOOLEAN}
  \cup {[name |-> "enrich", data |-> <<[key |-> "m", from |-> N, value |-> H!Nil], [key |-> "n", from |-> from, value |-> H!Text("y")]>>] :
          from \in {<<>>, <<"m">>}}
  \cup {[name |-> "transform", field |-> f, operation |-> op, target |-> "n"] : f \in {N, <<"m">>}, op \in {"suffix", "unknown"}}
  \cup {[name |-> "assert", config |-> [mode |-> mode, list |-> <<Equals(N, H!Number(1)), c>>]] :
          mode \in {"all", "any", "one"}, c \in {Equals(<<"m">>, H!Nil), H!Condition("exists", <<"o">>, H!Bool(TRUE))}}
  \cup {[name |-> "compute", target |-> "n", config |-> c] :
          c \in {[mode |-> "field", field |-> <<"o", "n">>], [mode |-> "count", field |-> N], [mode |-> "count", field |-> <<"l">>],
                 [mode |-> "condition", value |-> H!Condition("less_than", N, H!Number(2))], [mode |-> "literal", value |-> H!Nil]}}
  \cup {[name |-> "jump_if", config |-> H!Condition(op, N, H!Number(1))] : op \in {"equals", "greater_than", "min_items", "none"}}
  \cup {[name |-> "cel", target |-> "n", onFalse |-> onFalse, to |-> to] :
          onFalse \in {"jump", "continue", "stop", "error"}, to \in {"", "b"}}
  \cup {[name |-> name, required |-> {N, <<"m">>}, isRequired |-> r, target |-> "n"] :
          name \in {"log", "notify", "rest_call", "aws_action"}, r \in BOOLEAN}

Answers == {"true", "false", "error", "unconfigured", "unreachable", "status", "malformed", "errors", "no result", "answered"}

\* The verdicts of an expression; one payload has one.
Verdicts == {"true", "false", "error"}

Attempts ==
  {i \in [step : Steps, payload : Payloads, first : Answers, second : Answers] :
     IF i.step.name = "cel" THEN i.first \in Verdicts /\ i.second = i.first
     ELSE IF i.step.name \in {"notify", "rest_call", "aws_action"} THEN {i.first, i.second} \cap Verdicts = {}
     ELSE i.first = "answered" /\ i.second = "answered"}

Arr == INSTANCE Arrays

Entry(path, from, value) == [path |-> path, from |-> from, value |-> value]
Update(when, set) == [when |-> when, set |-> set]

Sets ==
  {<<Entry(<<"n">>, <<>>, H!Number(3))>>, <<Entry(<<"x", "n">>, <<>>, H!Number(3))>>,
   <<Entry(<<"c">>, <<"o">>, H!Nil)>>, <<Entry(<<"c">>, <<"n">>, H!Nil), Entry(<<"d">>, <<"item", "c">>, H!Nil)>>,
   <<Entry(<<"c", "n">>, <<"parent", "n">>, H!Nil)>>,
   <<Entry(<<"c">>, <<>>, Arr!Literal("a"))>>}

Filters ==
  {<<>>, <<One(H!Condition("greater_than", <<"item", "n">>, H!Number(1)))>>,
   <<[mode |-> "any", list |-> <<Equals(<<"item", "x">>, H!Text("x")), Equals(<<"index">>, H!Number(1))>>]>>}

Inner == {<<>>, <<[source |-> <<"l">>, target |-> <<"l">>, key |-> "l", where |-> <<>>, nested |-> <<>>,
                   updates |-> <<Update(<<>>, <<Entry(<<"c", "n">>, <<"parent", "n">>, H!Nil)>>)>>]>>}

Transformations ==
  [source : {<<"l">>, <<"m">>}, target : {<<"l">>, <<"o", "l">>, <<"n", "l">>}, key : {"l"}, where : Filters,
   updates : {<<>>} \cup {<<Update(<<>>, a), Update(w, b)>> : a \in Sets, b \in Sets, w \in Filters}, nested : Inner,
   objects : {H!Object([a |-> H!Object([n |-> H!Number(1)])])}]

\* array_transform writes its target and nothing else, and nothing when an item
\* fails, and leaves the parameters of the step alone, which all messages share,
\* unless an update stores an object of the payload, or one of the parameters and
\* writes below it; and a transformation that only filters keeps what filter_array
\* keeps: copyTransformValue, applyArrayTransformUpdates.
TransformationIsAtomic ==
  subject = "array" =>
    /\ Arr!StoresNoObject(input.step, input.payload) /\ Arr!KeepsItsObjects(input.step) => Arr!OnlyWrites(input.step, input.payload)
    /\ Arr!FiltersLikeTheFilter(input.step, input.payload)

-----------------------------------------------------------------------------
(* Texts with placeholders. *)

Hole(name) == <<"{", name, "}">>

Texts ==
  {Hole("a"), <<"x">> \o Hole("a"), Hole("a") \o Hole("b"), <<"x">> \o Hole("m"), <<"}", "x", "{", "a">>,
   <<"{", "{", "a", "}">>, <<"x", "{", "a">>, <<"}">> \o Hole("b"), <<"{", "}">>}

PlaceholderTexts ==
  [text : Texts, values : [{"a", "b"} -> Texts \cup {<<"x">>, <<>>, <<"x">> \o Hole("b")}]]

-----------------------------------------------------------------------------
(* The deliveries of one message and the headers they bring. *)

DeliveryHeaders ==
  {<<>>, [traceparent |-> <<101, 102>>], [traceparent |-> <<103, 104>>], [traceparent |-> <<>>],
   [Traceparent |-> <<105, 106>>], [trace_id |-> 107], [trace_id |-> 107, span_id |-> 108], [parent_span_id |-> 109]}

DeliveryKinds == [headers : DeliveryHeaders, calls : 0..2]

Once == {d \in DeliveryKinds : d.calls = 1}

DeliveriesOfOne == UNION {[1..n -> DeliveryKinds] : n \in 1..2} \cup [1..3 -> Once]

-----------------------------------------------------------------------------
(* The ids of events. *)

Event(p, c) ==
  Ids!Object([k \in ({"p"} \cap DOMAIN p) \cup ({"c"} \cap DOMAIN c) |-> IF k = "p" THEN p.p ELSE c.c])

Events ==
  {Event(p, c) :
     p \in {<<>>, [p |-> Ids!Nil], [p |-> Ids!Text("x")], [p |-> Ids!Object(<<>>)]}
           \cup {[p |-> Ids!Object([id |-> v])] :
                   v \in {Ids!Nil, Ids!Text(""), Ids!Text("e1"), Ids!Text(" e1 "), Ids!Number(7), Ids!Number(1234567),
                           Ids!Object(<<>>)}},
     c \in {<<>>, [c |-> Ids!Object([id |-> Ids!Text("e2")])]}
           \cup {[c |-> v] : v \in {Ids!Nil, Ids!Text(""), Ids!Text("c1"), Ids!Number(7)}}}

\* The numbers as they are printed of a float64.
FloatedNumbers == [t \in {"7", "1234567"} |-> IF t = "1234567" THEN "1.234567e+06" ELSE t]

NamedEvents ==
  [workflow : [messagePath : {<<"p", "id">>, <<"c", "id">>, <<"p">>, <<"x">>, <<"c">>},
               correlationPath : {<<"c">>, <<"p">>, <<"p", "c">>}],
   payload : Events]

-----------------------------------------------------------------------------
(* Snapshots saved and listed. *)

StateFiles == [id \in {"m1", "m2", "m/2", "m_2"} |-> IF id = "m/2" THEN "m_2" ELSE id]

SavesOf(ids, time) ==
  {[k \in 1..Len(s) |-> [id |-> s[k][1], correlation |-> "c1", status |-> s[k][2], updated |-> time[k]]] :
     s \in UNION {[1..n -> ids \X {"running", "completed"}] : n \in 0..3}}

Listings ==
  [backend : {"memory", "file", "dynamodb"}, locks : 0..2,
   saves : SavesOf({"m1", "m2"}, <<1, 2, 3>>) \cup SavesOf({"m/2", "m_2"}, <<1, 1, 2>>),
   filter : [id : {{}, {"m1"}, {"m_2"}}, correlation : {{"c1"}}, status : {{}, {"completed"}},
             from : {{}, {2}}, to : {{}, {1}, {2}}, limit : 0..2]]

-----------------------------------------------------------------------------
(* Retry policies. *)

WrittenPolicies ==
  [attempts : 0..6, backoff : {"fixed", "none", "exponential"}, initial : {0, 1, 7, 400, 3000},
   max : {0, 1, 50, 2000}, jitter : BOOLEAN]

-----------------------------------------------------------------------------
(* Drafts of workflows. *)

DraftNames == {"", "R1", "r2", "x y", "x-y", "rule-01", "rule-02", "m", "s"}

Alphabet ==
  [n \in DraftNames \cup {"amount", "correlation_id", "event_name", "order", "order-id"} |->
     CASE n = "R1" -> 1 [] n = "amount" -> 2 [] n = "correlation_id" -> 3 [] n = "event_name" -> 4
       [] n = "order" -> 5 [] n = "order-id" -> 6 [] n = "r2" -> 7 [] n = "x y" -> 8 [] n = "x-y" -> 9
       [] OTHER -> 10]

Identifiers == {"amount", "correlation_id", "event_name", "order", "id"}

\* What cleanStepID makes of the names of all files and drafts.
CleanedNames ==
  [n \in WorkflowParts \cup DraftNames \cup {"r1"} |->
     CASE n = "Pay" -> "pay" [] n = "R1" -> "r1" [] n = "x y" -> "x-y" [] OTHER -> n]

WrittenRule(id, name, status, order, fields, metrics, dependencies) ==
  [id |-> id, name |-> name, described |-> TRUE, status |-> status, order |-> order, fields |-> fields,
   inferred |-> {<<"order", "id">>}, metrics |-> metrics, markers |-> metrics, dependencies |-> dependencies]

BusinessRules ==
  {WrittenRule(id[1], id[2], status, order, fields, <<>>, {"R1"} \ {id[1]}) :
     id \in {<<"R1", "">>, <<"x y", "s">>, <<"", "x y">>}, status \in {"", "DRAFT"}, order \in 0..2,
     fields \in {{}, {<<"amount">>}, {<<"order-id">>}}}
  \cup {WrittenRule("r2", "", "ACTIVE", 1, {<<"amount">>}, <<"m", "s">>, {}), WrittenRule("", "", "", 0, {}, <<>>, {})}

RuleArgs ==
  [rules : {<<>>} \cup {<<r>> : r \in BusinessRules} \cup {<<r, s>> : r \in BusinessRules, s \in BusinessRules},
   paragraphs : {<<>>, <<WrittenRule("", "s", "", 0, {}, <<>>, {}), WrittenRule("", "m", "", 0, {}, <<>>, {})>>},
   required : {{}, {<<"amount">>}}]

Draftable(args) == args.rules # <<>> \/ args.paragraphs # <<>>

DraftPayloads ==
  {Draft!Object([correlation_id |-> Draft!Text("c1"), event_name |-> Draft!Text("e"), amount |-> a, order |-> o]) :
     a \in {Draft!Nil, Draft!Number(1)}, o \in {Draft!Text(""), Draft!Object([id |-> Draft!Number(7)])}}

DraftedRules == [args : {a \in RuleArgs : Draftable(a)}, payload : DraftPayloads]

Endpoints == [name : {"", "R1", "x y"}, graphql : BOOLEAN]

DraftedPlans ==
  [required : {{}, {<<"amount">>}, {<<"order", "id">>}}, event : {{}, {"amount", "order-id"}},
   endpoints : UNION {[1..n -> Endpoints] : n \in 0..2}]

-----------------------------------------------------------------------------
(* Configurations. *)

Plain == {"", "rest", "kafka", "sqs", "sns", "grpc", "sync", "async", "batch", "memory", "file", "dynamodb", "redis",
          "readonly", "stop", "skip", "retry", "id", "c", "t", "now", "correlation_id", "payload.pagamento_id",
          "us-east-1", "http://localhost:4566", "payment-events", "payment-events-sns", "eu", "q",
          "workflow_ref", "payment-event-fulfillment", "none", "api_key", "basic", "n", "e",
          "maintenance", "continue", "message_id", "localhost:9092", "h1", "h2", "token", "password", "s",
          "e1", "e2", "c1", "x", "fresh1", "fresh2",
          ".routing-slip-state", "routing-slip-state", "{workflow}:{message_id}:{step_index}:{step}"}

Spelled == Plain \cup {" ", "FILE", " file", "SQS", " SQS", " sqs", "Skip", " skip", " t", " e1 "}

TrimmedTexts ==
  [t \in Spelled |->
     CASE t = " " -> "" [] t = " file" -> "file" [] t = " SQS" -> "SQS" [] t = " sqs" -> "sqs"
       [] t = " skip" -> "skip" [] t = " t" -> "t" [] t = " e1 " -> "e1" [] OTHER -> t]

LoweredTexts ==
  [t \in Spelled |->
     CASE t = "FILE" -> "file" [] t = "SQS" -> "sqs" [] t = " SQS" -> " sqs" [] t = "Skip" -> "skip" [] OTHER -> t]

Unwritten == [region |-> "", endpoint |-> "", url |-> "", wait |-> 0, max |-> 0, visibility |-> 0]

QueueSettings == {Unwritten, [Unwritten EXCEPT !.url = "q", !.wait = 20], [Unwritten EXCEPT !.region = "eu", !.max = -1]}

NoTable == [name |-> "", region |-> "", endpoint |-> "", days |-> 0]

EmptyConfig ==
  [connector |-> "", type |-> "", mode |-> "", brokers |-> <<>>, sqs |-> Unwritten, sns |-> Unwritten,
   runId |-> "", runTag |-> "", store |-> "", path |-> "", table |-> NoTable, persistent |-> FALSE,
   idempotent |-> FALSE, template |-> "", topIdempotent |-> FALSE, topTemplate |-> "", lock |-> {}, lockTTL |-> 0,
   mcp |-> [enabled |-> FALSE, flag |-> FALSE, mode |-> "", auth |-> ""], redaction |-> [enabled |-> FALSE, fields |-> {}]]

Triggers ==
  {[EmptyConfig EXCEPT !.connector = x, !.type = y, !.mode = m, !.sqs = q, !.sns = r, !.brokers = b] :
     x \in {"", "rest", " SQS", "grpc"}, y \in {"", "kafka", "grpc"}, m \in {"", "sync", "batch"},
     q \in QueueSettings, r \in QueueSettings, b \in {<<>>, <<<<"h1", "h2">>>>, <<<<"h1">>, <<"h2">>>>}}

Storages ==
  {[EmptyConfig EXCEPT !.store = x, !.table.name = t, !.persistent = p, !.idempotent = i, !.template = k,
                       !.topIdempotent = j, !.lock = l] :
     x \in {"", "FILE", " file", "dynamodb", "redis"}, t \in {"", " t"}, p \in BOOLEAN, i \in BOOLEAN,
     k \in {"", " ", "t"}, j \in BOOLEAN, l \in {{}, {FALSE}}}

StatePlaces ==
  {[EmptyConfig EXCEPT !.store = "dynamodb", !.persistent = TRUE, !.mcp.auth = a, !.topTemplate = k,
                       !.table = [name |-> " t", region |-> r, endpoint |-> e, days |-> n]] :
     r \in {"", " ", "eu"}, e \in {"", " ", "e"}, n \in {0, 7}, a \in {"", "api_key", "basic"},
     k \in {"", "t"}}

WorkflowFile == [name |-> "n", policy |-> "", messagePath |-> "id", correlationPath |-> "", steps |-> <<"s">>]

WorkflowHeads ==
  [name : {"n"}, policy : {"", "Skip", " skip", "retry"}, messagePath : {"", " ", "id"}, correlationPath : {"", " ", "c"},
   steps : {<<>>, <<"s">>}]

NamedWorkflows ==
  {[WorkflowFile EXCEPT !.name = n, !.steps = s] :
     n \in {"", " ", "n"}, s \in {<<"s">>, <<"s", "workflow_ref">>, <<"workflow_ref">>}}

ConfigurationFiles ==
  [config : Triggers, workflow : {WorkflowFile}] \cup [config : Storages, workflow : WorkflowHeads]
  \cup [config : StatePlaces \cup {EmptyConfig}, workflow : NamedWorkflows]

-----------------------------------------------------------------------------
WorkflowInputs == [workflow |-> Workspaces]

AllInputs ==
  [workflow |-> Workspaces,
   condition |-> [condition : Conditions, payload : Payloads],
   attempt |-> Attempts,
   array |-> [step : Transformations, payload : Payloads],
   text |-> PlaceholderTexts,
   deliveries |-> DeliveriesOfOne,
   event |-> NamedEvents,
   listing |-> Listings,
   policy |-> WrittenPolicies,
   rules |-> DraftedRules,
   plan |-> DraftedPlans,
   config |-> ConfigurationFiles]
=============================================================================
