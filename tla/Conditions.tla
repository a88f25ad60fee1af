------------------------------ MODULE Conditions ------------------------------
(***************************************************************************)
(* The conditions that assert, jump_if, compute, filter_array and          *)
(* array_transform evaluate on a payload (app/handlers/control_flow.go),   *)
(* and the equality of the condition gate (app/handlers/handlers.go).      *)
(*                                                                         *)
(* Evaluation answers "true", "false" or "error".  A condition has one     *)
(* comparison, op, the first that the code looks for.                      *)
(***************************************************************************)
EXTENDS Payload

Condition(op, field, value) == [op |-> op, field |-> field, value |-> value]

Answer(b) == IF b THEN "true" ELSE "false"

\* valuesEqual: as numbers if both are, as they are printed, or deeply.  Of a list
\* or an object, what is printed is taken to tell what it holds.
ValuesEqual(left, right) ==
  IF left.num # {} /\ right.num # {} THEN left.num = right.num /\ NaN \notin left.num
  ELSE left = right \/ (left.text = right.text /\ {left.kind, right.kind} \cap {"map", "list"} = {})

\* collectionLength
Lengths(v) ==
  CASE v.kind = "list" -> {Len(v.items)}
    [] v.kind = "map" -> {Cardinality(DOMAIN v.fields)}
    [] v.kind = "text" -> {Len(v.text)}
    [] OTHER -> {}

\* Mutant of Holds: at least as many items as min_items is taken for more.
Holds_MoreThanMin(op, a, b) ==
  CASE op = "less_than" -> a < b
    [] op \in {"less_than_or_equal", "max_items"} -> a <= b
    [] op \in {"greater_than", "min_items"} -> a > b
    [] op = "greater_than_or_equal" -> a >= b

\* The comparisons handed to compareNumbers.
Holds(op, a, b) ==
  CASE op = "less_than" -> a < b
    [] op \in {"less_than_or_equal", "max_items"} -> a <= b
    [] op = "greater_than" -> a > b
    [] op \in {"greater_than_or_equal", "min_items"} -> a >= b

Comparisons ==
  {"less_than", "less_than_or_equal", "greater_than", "greater_than_or_equal", "min_items", "max_items"}

\* compareNumbers: both sides must be numbers (lengths, for the counts of items),
\* and nothing holds of NaN.
Compared(c, left) ==
  LET lefts == IF c.op \in {"min_items", "max_items"} THEN Lengths(left) ELSE left.num
  IN  IF lefts = {} \/ c.value.num = {} THEN "error"
      ELSE Answer(NaN \notin lefts \cup c.value.num /\ \A a \in lefts, b \in c.value.num : Holds(c.op, a, b))

\* What a condition says of the value of its field.
Judged(c, left) ==
  CASE c.op = "equals" -> Answer(ValuesEqual(left, c.value))
    [] c.op = "not_equals" -> Answer(~ValuesEqual(left, c.value))
    [] c.op \in Comparisons -> Compared(c, left)
    [] OTHER -> "error"

\* evaluateConditionConfig
Evaluate(c, payload) ==
  LET found == At(payload, c.field)
  IN  IF c.field = <<>> THEN "error"
      ELSE IF c.op = "exists" THEN Answer((found # {}) = (c.value # Bool(FALSE)))
      ELSE IF found = {} THEN "error"
      ELSE Judged(c, CHOOSE v \in found : TRUE)

\* evaluateAssertConfig: a list under all or any, where an error only counts as
\* a condition that does not hold, or one condition.
Asserted(config, payload) ==
  LET Combined(answers) ==
        CASE config.mode = "all" -> Answer(ToSet(answers) \subseteq {"true"})
          [] config.mode = "any" -> Answer("true" \in ToSet(answers))
          [] OTHER -> answers[1]
  IN  Combined([k \in DOMAIN config.list |-> Evaluate(config.list[k], payload)])

\* evaluateValueConfig: the value that compute stores, if there is one.
Computed(config, payload) ==
  LET asBool(answer) == IF answer = "error" THEN {} ELSE {Bool(answer = "true")}
  IN  CASE config.mode = "literal" -> {config.value}
        [] config.mode = "field" -> At(payload, config.field)
        [] config.mode = "count" -> {Number(n) : n \in UNION {Lengths(v) : v \in At(payload, config.field)}}
        [] config.mode = "condition" -> asBool(Evaluate(config.value, payload))
        [] OTHER -> {}

\* ConditionGate.Handle lets a message through if what it prints of the field is
\* what it prints of the expected value, or is not, with op "not_equals"; a field
\* that is missing is printed as nil is.
PassesGate(op, field, expected, payload) ==
  LET found == At(payload, field)
      current == IF found = {} THEN Nil ELSE CHOOSE v \in found : TRUE
      same == IF {current.kind, expected.kind} \cap {"map", "list"} = {}
              THEN current.text = expected.text ELSE current = expected
  IN  IF op = "equals" THEN same ELSE ~same

-----------------------------------------------------------------------------
(* What the handlers have to agree on. *)

Opposite == [op \in {"equals", "less_than", "less_than_or_equal"} |->
               CASE op = "equals" -> "not_equals"
                 [] op = "less_than" -> "greater_than_or_equal"
                 [] op = "less_than_or_equal" -> "greater_than"]

\* A condition c and the opposite one: at most n items, or at least n + 1.
Opposites(c) ==
  IF c.op = "max_items"
  THEN {[c EXCEPT !.op = "min_items", !.value = Number(n + 1)] : n \in c.value.num \ {NaN}}
  ELSE {[c EXCEPT !.op = Opposite[c.op]]}

\* One of the values that are compared is NaN.
Unordered(c, payload) == NaN \in c.value.num \/ \E v \in At(payload, c.field) : NaN \in v.num

\* A condition and its opposite never both hold, and disagree if neither is an
\* error and no value is NaN, of which no comparison holds; without NaN, a message
\* that an equals gate lets through satisfies the same assert, and one that
\* satisfies a not_equals assert is let through by the same gate.
AgreesOn(c, payload) ==
  /\ \A d \in Opposites(c) :
       LET answers == {Evaluate(c, payload), Evaluate(d, payload)}
       IN  \/ answers = {"error"} \/ answers = {"true", "false"}
           \/ answers = {"false"} /\ c.op \in {"less_than", "less_than_or_equal"} /\ Unordered(c, payload)
  /\ c.op = "equals" /\ At(payload, c.field) # {} /\ ~Unordered(c, payload) =>
       /\ PassesGate("equals", c.field, c.value, payload) => Evaluate(c, payload) = "true"
       /\ Evaluate([c EXCEPT !.op = "not_equals"], payload) = "true"
            => PassesGate("not_equals", c.field, c.value, payload)
-----------------------------------------------------------------------------
(* What is known of values. *)

\* toFloat and collectionLength make one number of a value, or none.
OneAtMost(numbers) == numbers \subseteq Int \cup {NaN} /\ \A m, n \in numbers : m = n
OneNumber(v) == OneAtMost(v.num)
OneLength(v) == OneAtMost(Lengths(v)) /\ NaN \notin Lengths(v)

\* Numbers that are printed alike are equal, and so is a text that holds one.
PrintedAlike(left, right) ==
  left.text = right.text /\ left.num # {} /\ right.num # {} => left.num = right.num

\* A condition that has an opposite, on a payload of such values.
Comparable(c, payload) ==
  /\ c = Condition(c.op, c.field, c.value) /\ c.op \in DOMAIN Opposite \cup {"max_items"}
  /\ OneNumber(c.value)
  /\ \A v \in At(payload, c.field) : OneNumber(v) /\ OneLength(v) /\ PrintedAlike(v, c.value)
=============================================================================
