---------------------------- MODULE Interpolation ----------------------------
(***************************************************************************)
(* Placeholders in templates and parameters: interpolate (handlers.go),    *)
(* interpolateValue (graphql_enrich.go), interpolateAny and                *)
(* interpolateString (rest_call.go).                                       *)
(*                                                                         *)
(* A text is a sequence of tokens: words and single braces.  values gives  *)
(* what is printed of the fields, whose names are single words.            *)
(***************************************************************************)
EXTENDS Integers, SequencesExt

Open == "{"
Close == "}"

\* Where the first brace of a kind is, 0 if there is none.
First(text, brace) == SelectInSeq(text, LAMBDA token : token = brace)

\* Mutant of NothingToReplace: the order of the braces is not looked at.
NothingToReplace_AnyOrder(text) == First(text, Open) = 0 \/ First(text, Close) = 0

\* The loop ends: no opening brace, no closing one, or one that comes before it.
NothingToReplace(text) ==
  First(text, Open) = 0 \/ First(text, Close) = 0 \/ First(text, Close) < First(text, Open)

Printed(values, key) ==
  IF Len(key) = 1 /\ key[1] \in DOMAIN values THEN values[key[1]] ELSE <<"<nil>">>

\* One round of the loop: the result is scanned from its beginning again.
Replaced(text, values) ==
  LET start == First(text, Open)
      end == First(text, Close)
  IN  SubSeq(text, 1, start - 1) \o Printed(values, SubSeq(text, start + 1, end - 1))
        \o SubSeq(text, end + 1, Len(text))

\* The text after at most n rounds of the loop.
Rounds(text, values, n) ==
  LET After[k \in 0..n] ==
        IF k = 0 THEN text
        ELSE IF NothingToReplace(After[k - 1]) THEN After[k - 1] ELSE Replaced(After[k - 1], values)
  IN  After[n]

\* interpolateString gives back the value of a single placeholder as it is.
IsPlaceholder(text, values) ==
  Len(text) = 3 /\ text[1] = Open /\ text[3] = Close /\ text[2] \in DOMAIN values

Interpolated(text, values, n) ==
  IF IsPlaceholder(text, values) THEN values[text[2]] ELSE Rounds(text, values, n)

-----------------------------------------------------------------------------
(* When the loop ends. *)

\* Braces occur only around single words.
WellFormed(text) ==
  \A k \in DOMAIN text :
    /\ text[k] = Open => k + 2 \in DOMAIN text /\ text[k + 1] \notin {Open, Close} /\ text[k + 2] = Close
    /\ text[k] = Close => k - 2 \in DOMAIN text /\ text[k - 2] = Open

Names(text) == {text[k + 1] : k \in {j \in DOMAIN text : text[j] = Open}}

\* The fields that a text names, directly or through the values of fields.
Reached(text, values) ==
  LET More[k \in 0..Cardinality(DOMAIN values)] ==
        IF k = 0 THEN Names(text) \cap DOMAIN values
        ELSE More[k - 1] \cup UNION {Names(values[f]) \cap DOMAIN values : f \in More[k - 1]}
  IN  More[Cardinality(DOMAIN values)]

\* A text and the values that it may name.
AreTexts(text, values) == text \in Seq(STRING) /\ \A f \in DOMAIN values : values[f] \in Seq(STRING)

\* With values that hold no brace the loop of interpolate and interpolateValue ends
\* for every text, wherever its braces are, one round per two tokens at most.
EndsIfPlain(text, values) ==
  (\A f \in DOMAIN values : First(values[f], Open) = 0 /\ First(values[f], Close) = 0) =>
    NothingToReplace(Rounds(text, values, Len(text) \div 2))

\* It ends within n rounds, and leaves no placeholder, exactly when no field of
\* the text is reached from itself.
EndsUnlessCircular(text, values, n) ==
  LET circular == \E f \in Reached(text, values) : f \in Reached(values[f], values)
  IN  WellFormed(text) /\ (\A f \in DOMAIN values : WellFormed(values[f])) =>
        /\ NothingToReplace(Rounds(text, values, n)) = ~circular
        /\ ~circular => /\ First(Rounds(text, values, n), Open) = 0
                         /\ ~IsPlaceholder(text, values) => First(Interpolated(text, values, n), Open) = 0
=============================================================================
