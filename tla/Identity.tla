------------------------------- MODULE Identity -------------------------------
(***************************************************************************)
(* The message id and the correlation id of an event: processPayload and   *)
(* prepareAsyncIdentifiers (app/triggers.go), stringFromPath               *)
(* (app/runtime_config.go) and Process (app/framework/framework.go).       *)
(*                                                                         *)
(* w holds the two paths of the workflow, which defaults never leave empty *)
(* and which have no blanks around them; fresh is the id that is generated *)
(* if one has to be.  The text of a value is here what stringFromPath      *)
(* makes of it.                                                            *)
(***************************************************************************)
EXTENDS Payload

CONSTANTS
  Trimmed,   \* strings.TrimSpace
  Floated    \* what fmt.Sprint makes of a number that was read as a float64

Names(message, correlation, payload) ==
  [message |-> message, correlation |-> correlation, payload |-> payload]

\* stringFromPath: what is printed of the field, if it is neither null nor empty.
StringAt(payload, path) ==
  {v.text : v \in {x \in FieldAt(payload, path) : x.kind # "nil" /\ x # Text("")}}

\* stringPath of the framework, which prints null, too, trims what it prints, and
\* has read all numbers as float64 (those from a million on have an exponent then).
Printed(v) ==
  CASE v.kind = "num" -> Floated[v.text]
    [] v.kind = "text" -> Trimmed[v.text]
    [] OTHER -> v.text

PrintedAt(payload, path) == {Printed(v) : v \in FieldAt(payload, path)} \ {""}

\* setPayloadPath of triggers.go and setPath of the framework: what is no object
\* on the way is replaced by one.
Forced(v, path, x) ==
  LET ObjectIn(old) == IF \E o \in old : o.kind = "map" THEN CHOOSE o \in old : TRUE ELSE Object(<<>>)
      On[k \in 1..Len(path)] == IF k = 1 THEN v ELSE ObjectIn(Field(On[k - 1], path[k - 1]))
      Made[k \in 1..Len(path)] == Put(On[k], path[k], IF k = Len(path) THEN x ELSE Made[k + 1])
  IN  Made[1]

Found(byFramework, payload, path) == IF byFramework THEN PrintedAt(payload, path) ELSE StringAt(payload, path)

\* Both give an event without a correlation id a new one, and write it down; an
\* event without a message id is named by its correlation id.
NamedBy(byFramework, w, payload, fresh) ==
  LET given == Found(byFramework, payload, w.correlationPath)
      correlation == IF given = {} THEN fresh ELSE CHOOSE t \in given : TRUE
      marked == IF given = {} THEN Forced(payload, w.correlationPath, Text(fresh)) ELSE payload
      ids == Found(byFramework, marked, w.messagePath)
  IN  Names(IF ids = {} THEN correlation ELSE CHOOSE t \in ids : TRUE, correlation, marked)

\* processPayload
Processed(w, payload, fresh) == NamedBy(FALSE, w, payload, fresh)

\* Runtime.Process of the framework.
ProcessedByFramework(w, payload, fresh) == NamedBy(TRUE, w, payload, fresh)

\* Mutant of Accepted: the new correlation id is answered and not written down.
Accepted_Unwritten(w, payload, fresh) ==
  [Processed(w, payload, fresh) EXCEPT !.payload = payload]

\* prepareAsyncIdentifiers: the message id is written down, too.
Accepted(w, payload, fresh) ==
  LET n == Processed(w, payload, fresh)
  IN  IF StringAt(n.payload, w.messagePath) # {} THEN n
      ELSE [n EXCEPT !.payload = Forced(@, w.messagePath, Text(n.message))]

-----------------------------------------------------------------------------
(* What names are good for. *)

\* A value as it is read: nothing but the empty text prints nothing.
IsValue(v) == v = Value(v.kind, v.text, v.num, v.fields, v.items) /\ (v.text = "" => v = Text(""))

\* An event: an object, and values along the two paths of the workflow.
IsEvent(w, payload) ==
  /\ payload.kind = "map" /\ IsValue(payload)
  /\ \A path \in {w.messagePath, w.correlationPath} :
       /\ path \in Seq(STRING) \ {<<>>}
       /\ \A k \in 1..Len(path) : \A v \in FieldAt(payload, SubSeq(path, 1, k)) : IsValue(v)

Below(path, other) == Len(path) > Len(other) /\ SubSeq(path, 1, Len(other)) = other

\* A text, a number or a Boolean of which both runtimes make the same id.
SameText(v) == v.kind \in {"text", "num", "bool"} /\ Printed(v) = v.text

\* The names with which an asynchronous request is accepted are those its event
\* is processed under later, unless writing the message id breaks the field of
\* the correlation id; an event with an id of its own is the same message every
\* time it is delivered, and for the framework, too, if both print the id alike.
StableNames(w, payload, fresh1, fresh2) ==
  \A accepted \in {Accepted(w, payload, fresh1)} :
    LET later == Processed(w, accepted.payload, fresh2)
        again == Processed(w, payload, fresh2).message
    IN  /\ ~Below(w.messagePath, w.correlationPath) =>
             <<later.message, later.correlation>> = <<accepted.message, accepted.correlation>>
        /\ StringAt(payload, w.messagePath) # {} /\ ~Below(w.correlationPath, w.messagePath) =>
             /\ {Processed(w, payload, fresh1).message, accepted.message} = {again}
             /\ (\A v \in FieldAt(payload, w.messagePath) : SameText(v)) =>
                  ProcessedByFramework(w, payload, fresh1).message = again
=============================================================================
