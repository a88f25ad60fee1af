------------------------------- MODULE Payload -------------------------------
(***************************************************************************)
(* Payloads: nested objects and lists, read and written by dotted paths    *)
(* (GetPath of app/slip/slip.go, getMapPath of app/handlers,               *)
(* stringFromPath of app/runtime_config.go).                               *)
(*                                                                         *)
(* A path is the sequence of its parts.  A read gives the set of what it   *)
(* finds, empty or a singleton.                                            *)
(***************************************************************************)
EXTENDS Integers, SequencesExt

CONSTANT NaN   \* the number that equals no number, itself neither

\* A value: text is what %v prints of it, num holds the number toFloat makes of
\* it, if it makes one (texts that hold a number have one, too, and the text "nan"
\* holds NaN).  An integer stands for any number that can be ordered.
Value(kind, text, num, fields, items) ==
  [kind |-> kind, text |-> text, num |-> num, fields |-> fields, items |-> items]

Nil == Value("nil", "<nil>", {}, <<>>, <<>>)
Number(n) == Value("num", ToString(n), {n}, <<>>, <<>>)
Bool(b) == Value("bool", ToString(b), {}, <<>>, <<>>)
Text(t) == Value("text", t, {}, <<>>, <<>>)
Digits(t, n) == Value("text", t, {n}, <<>>, <<>>)
Object(fields) == Value("map", "map", {}, fields, <<>>)
List(items) == Value("list", "list", {}, <<>>, items)

\* strconv.Atoi, for the indexes that occur in paths.
Index == [part \in {"0", "1", "2"} |-> CHOOSE n \in 0..2 : ToString(n) = part]

Field(v, part) ==
  IF v.kind = "map" /\ part \in DOMAIN v.fields THEN {v.fields[part]} ELSE {}

Item(v, part) ==
  IF v.kind = "list" /\ part \in DOMAIN Index /\ Index[part] < Len(v.items)
  THEN {v.items[Index[part] + 1]} ELSE {}

\* What is found under a path below some values.
Descend(values, path, Step(_, _)) ==
  LET Found[k \in 0..Len(path)] ==
        IF k = 0 THEN values ELSE UNION {Step(x, path[k]) : x \in Found[k - 1]}
  IN  Found[Len(path)]

Walk(v, path, Step(_, _)) ==
  IF path = <<>> THEN {} ELSE Descend(Step(v, Head(path)), Tail(path), Step)

\* GetPath, through objects and lists.
Part(v, part) == Field(v, part) \cup Item(v, part)
At(v, path) == Walk(v, path, Part)

\* getMapPath and selectPath, through objects only.
FieldAt(v, path) == Walk(v, path, Field)

\* msg.Set: one key of the object, whatever dots it has.
Put(v, key, x) ==
  [v EXCEPT !.fields = [k \in DOMAIN v.fields \cup {key} |-> IF k = key THEN x ELSE v.fields[k]]]

\* The object without some of its keys.
Dropped(v, keys) == [v EXCEPT !.fields = [k \in DOMAIN v.fields \ keys |-> v.fields[k]]]

=============================================================================
