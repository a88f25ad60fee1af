-------------------------------- MODULE Drafts --------------------------------
(***************************************************************************)
(* The workflows that the MCP tools draft from business rules              *)
(* (app/mcp_business_rules.go) and from a list of endpoints                *)
(* (app/mcp_planner.go), and the test payload that comes with them.        *)
(*                                                                         *)
(* A field is the path of its parts.  "" and {} stand for what is not      *)
(* given.  Of its parameters, a step has the fields it reads, what it says *)
(* (a message, the name of a metric) and the words that a search of its    *)
(* text finds.                                                             *)
(***************************************************************************)
EXTENDS Handlers

CONSTANTS
  Cleaned,   \* cleanStepID
  Rank,      \* the alphabetical order of ids and fields
  Readable   \* the names that are identifiers of CEL

DraftStep(id, name, fields, says, words) ==
  [id |-> id, name |-> name, fields |-> fields, says |-> says, words |-> words \cup {says}]

Always == {<<"correlation_id">>, <<"event_name">>}
Audit(id) == DraftStep(id, "audit", Always, "", {})

-----------------------------------------------------------------------------
(* Business rules. *)

\* businessRuleFromMap; inferred are the fields that its texts name in braces.
Rule(w) ==
  LET name == IF w.name # "" THEN w.name ELSE w.id
  IN  [w EXCEPT !.name = name,
                !.id = IF w.id # "" THEN w.id ELSE IF name = "" THEN "" ELSE Cleaned[name],
                !.status = IF w.status = "" THEN "ACTIVE" ELSE w.status,
                !.fields = IF w.fields # {} THEN w.fields ELSE w.inferred]

\* Mutant of InOrder: by the alphabet alone.
InOrder_ById(r, s) == Rank[r.id] <= Rank[s.id]

\* sortBusinessRules: the comparison, and the rules at some positions in that order.
InOrder(r, s) == r.order < s.order \/ (r.order = s.order /\ Rank[r.id] <= Rank[s.id])

Sorted(rules, positions) ==
  LET at == CHOOSE f \in [1..Cardinality(positions) -> positions] :
              /\ IsInjective(f)
              /\ \A j, k \in DOMAIN f : j < k => InOrder(rules[f[j]], rules[f[k]])
  IN  [k \in DOMAIN at |-> rules[at[k]]]

\* businessRulesFromArgs: those that say anything, or one for every paragraph of a text.
ListedRules(args) == [k \in DOMAIN args.rules |-> Rule(args.rules[k])]

ToldRules(args) ==
  [k \in DOMAIN args.paragraphs |-> Rule([args.paragraphs[k] EXCEPT !.id = "rule-0" \o ToString(k), !.order = k])]

RulesFrom(args) ==
  LET given == {k \in DOMAIN args.rules : args.rules[k].id # "" \/ args.rules[k].name # "" \/ args.rules[k].described}
  IN  IF given # {} THEN Sorted(ListedRules(args), given) ELSE Sorted(ToldRules(args), DOMAIN args.paragraphs)

\* activeBusinessRules
Active(rules) == Sorted(rules, {k \in DOMAIN rules : rules[k].status = "ACTIVE"})

\* The steps of one rule; businessRuleExpression demands its fields of the payload.
StepsOf(r, k) ==
  LET id == IF Cleaned[r.id] # "" THEN Cleaned[r.id] ELSE "rule-0" \o ToString(k)
  IN  <<DraftStep(id \o "-log", "log", {}, r.name, {r.id, id}),
        DraftStep(id \o "-assert", "cel", r.fields, r.id, {id}),
        DraftStep(id \o "-audit", "audit", Always \cup r.fields, "", {id})>>
      \o [m \in DOMAIN r.markers |-> DraftStep(id \o "-" \o r.markers[m] \o "-log", "log", {}, r.markers[m], {r.id})]
      \o [m \in DOMAIN r.metrics |-> DraftStep(id \o "-" \o r.metrics[m] \o "-metric", "datadog_metric", {}, r.metrics[m], {r.id})]

Surrounded(required, steps) ==
  <<DraftStep("validate-input", "validate", required, "", {}), Audit("audit-received")>>
  \o steps \o <<Audit("audit-completed")>>

\* A path as one name.
Dotted(path) ==
  LET Joined[k \in 1..Len(path)] == IF k = 1 THEN path[1] ELSE Joined[k - 1] \o "." \o path[k]
  IN  Joined[Len(path)]

\* payloadForWorkflow: a sample for every required field, under its whole path as
\* one key.
TestPayload(steps) ==
  LET base == [correlation_id |-> Text("c1"), event_name |-> Text("requested"), received_at |-> Text("t")]
  IN  Object([k \in DOMAIN base \cup {Dotted(f) : f \in steps[1].fields} |->
                IF k \in DOMAIN base THEN base[k] ELSE Text("sample")])

FirstInOrder(fields) == CHOOSE f \in fields : \A g \in fields : Rank[f[1]] <= Rank[g[1]]

\* generateWorkflowFromBusinessRules: of the active rules, or of all if none is;
\* mergeRequiredFields sorts what validate requires, and the first of it names
\* the messages.
Generated(args) ==
  LET rules == RulesFrom(args)
      used == IF Active(rules) = <<>> THEN rules ELSE Active(rules)
      required == args.required \cup Always \cup UNION {used[k].fields : k \in DOMAIN used}
      steps == Surrounded(required, FlattenSeq([k \in DOMAIN used |-> StepsOf(used[k], k)]))
  IN  [rules |-> used, steps |-> steps, messagePath |-> FirstInOrder(required), payload |-> TestPayload(steps)]

-----------------------------------------------------------------------------
(* validate_workflow_against_business_rules. *)

\* containsAnyToken of businessRuleTokens.
Mentions(step, r) == ({r.id, Cleaned[r.id], r.name} \ {""}) \cap (step.words \cup {step.id}) # {}

\* validateBusinessRuleCoverage: what the workflow lacks of the rules.
Issues(steps, rules) ==
  LET found == ToSet(steps)
      Lacks(r) ==
        (IF \E s \in found : Mentions(s, r) THEN {} ELSE {<<"rule", r.id>>})
        \cup {<<"field", f>> : f \in {g \in r.fields : ~\E s \in found : g \in s.fields}}
        \cup {<<"metric", m>> : m \in {n \in ToSet(r.metrics) : ~\E s \in found : s.name = "datadog_metric" /\ s.says = n}}
        \cup {<<"marker", m>> : m \in {n \in ToSet(r.markers) : ~\E s \in found : s.name = "log" /\ s.says = n}}
        \cup {<<"dependency", d>> : d \in {e \in r.dependencies : ~\E q \in ToSet(rules) : q.id = e}}
  IN  UNION {Lacks(r) : r \in ToSet(rules)}

-----------------------------------------------------------------------------
(* Endpoints. *)

\* plannerEndpoints and endpointToStep
PlannedStep(e, k) ==
  LET id == IF e.name = "" \/ Cleaned[e.name] = "" THEN "integration-0" \o ToString(k) ELSE Cleaned[e.name]
  IN  DraftStep(id, IF e.graphql THEN "graphql_enrich" ELSE "rest_call", {}, "", {})

\* requiredFieldsFromArgs: those given, or the keys of a sample event.
RequiredOf(args) ==
  LET given == IF args.required # {} THEN args.required ELSE {<<k>> : k \in args.event}
  IN  IF given = {} THEN Always ELSE given

\* planWorkflow
Planned(args) ==
  LET steps == Surrounded(RequiredOf(args), [k \in DOMAIN args.endpoints |-> PlannedStep(args.endpoints[k], k)])
  IN  [steps |-> steps, payload |-> TestPayload(steps)]

\* idempotencyRisks and auditPoints
Risks(steps) == {k \in DOMAIN steps : steps[k].name \in {"notify", "rest_call", "graphql_enrich"}}
AuditPoints(steps) == {steps[k].id : k \in Risks(steps)}

-----------------------------------------------------------------------------
(* What a draft is good for. *)

\* The verdict of the expression "f1 != null && f2 != null": a field that is
\* missing or cannot be written in CEL is an error.
Verdict(fields, payload) ==
  IF \E f \in fields : FieldAt(payload, f) = {} \/ ~(ToSet(f) \subseteq Readable) THEN "error"
  ELSE Answer(\A f \in fields : Only(FieldAt(payload, f)).kind # "nil")

\* The field that the cel step of a rule writes: its own, named after the rule.
Target(step) == "business_rules." \o step.id

\* What a step of a draft does to a message, when services answer.
Run(step, payload) ==
  IF step.name = "validate" THEN Validate([required |-> step.fields, stopOnFailure |-> TRUE], payload)
  ELSE IF step.name = "cel"
  THEN Cel([target |-> Target(step), onFalse |-> "error", to |-> ""], payload, Verdict(step.fields, payload))
  ELSE Done(payload)

\* The steps of the draft all succeed on the payload.
Accepts(steps, payload) ==
  LET After[k \in 0..Len(steps)] ==
        IF k = 0 THEN Done(payload)
        ELSE LET o == After[k - 1] IN IF o.proceed THEN Run(steps[k], o.payload) ELSE o
  IN  After[Len(steps)].proceed

GivenIn(payload, f) == LET v == Only(FieldAt(payload, f)) IN v.kind # "nil" /\ v # Text("")
InCel(steps) == \A f \in steps[1].fields : ToSet(f) \subseteq Readable
Flat(steps) == \A f \in steps[1].fields : Len(f) = 1

\* The steps of a draft write no field that it requires.
Untouched(steps) ==
  \A f \in steps[1].fields :
    f[1] \notin {"validation_passed", "cel_passed"} \cup {Target(s) : s \in ToSet(steps)}

\* The position of the step that checks rule k of a draft.
CheckOf(d, k) == SelectInSeq(d.steps, LAMBDA s : s.name = "cel" /\ s.says = d.rules[k].id)

\* A draft of rules that can be told apart leaves nothing of them out but rules
\* they depend on, checks them in their order, names messages by a field it
\* requires, and lets an event through if, and only if, it has every field; its
\* test payload is such an event, unless a field is nested.
GeneratedIsUsable(args, payload) ==
  LET d == Generated(args)
      names == [k \in DOMAIN d.rules |-> d.rules[k].id]
  IN  d.rules # <<>> /\ "" \notin ToSet(names) /\ IsInjective(names) =>
        /\ \A i \in Issues(d.steps, d.rules) : i[1] = "dependency"
        /\ \A j, k \in DOMAIN d.rules :
             d.rules[j].order < d.rules[k].order => CheckOf(d, j) < CheckOf(d, k)
        /\ d.messagePath \in d.steps[1].fields
        /\ InCel(d.steps) /\ Untouched(d.steps) =>
             /\ Accepts(d.steps, payload) <=> \A f \in d.steps[1].fields : GivenIn(payload, f)
             /\ Flat(d.steps) => Accepts(d.steps, d.payload)

\* A plan calls every endpoint, reports every call as a risk and audits it, and
\* accepts the test payload that comes with it, unless a field is nested.
PlanIsUsable(args) ==
  LET d == Planned(args)
  IN  /\ Cardinality(Risks(d.steps)) = Len(args.endpoints)
      /\ \A e \in ToSet(args.endpoints) : e.name # "" /\ Cleaned[e.name] # "" => Cleaned[e.name] \in AuditPoints(d.steps)
      /\ Flat(d.steps) => Accepts(d.steps, d.payload)

-----------------------------------------------------------------------------
(* What drafts are asked of. *)

IsPath(f) == f \in Seq(STRING) /\ f # <<>> /\ f[1] \in DOMAIN Rank

\* Names have their places in the alphabet, and an index is no identifier.
NamesAreOrdered ==
  /\ Rank \in [DOMAIN Rank -> Nat] /\ {"correlation_id", "event_name"} \subseteq DOMAIN Rank
  /\ Readable \cap DOMAIN Index = {}

\* A rule as it was read.
IsRule(r) ==
  /\ r.order \in Int /\ r.id \in DOMAIN Rank
  /\ \A f \in r.fields : IsPath(f)
  /\ r.markers \in Seq(STRING) /\ r.metrics \in Seq(STRING)

IsRequest(args, payload) ==
  /\ NamesAreOrdered /\ payload = Object(payload.fields)
  /\ \A f \in args.required : IsPath(f)
  /\ \A rules \in {ListedRules(args), ToldRules(args)} :
       IsFiniteSet(DOMAIN rules) /\ \A k \in DOMAIN rules : IsRule(rules[k])

IsPlan(args) ==
  /\ \A f \in args.required : f \in Seq(STRING) /\ f # <<>>
  /\ args.endpoints \in Seq([name : STRING, graphql : BOOLEAN])
=============================================================================
