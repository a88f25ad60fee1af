----------------------------- MODULE TraceContext -----------------------------
(***************************************************************************)
(* The trace identifiers of a message: app/slip/trace_context.go, the      *)
(* tracing middleware (app/slip/middleware.go), what Snapshot and          *)
(* MessageFromSnapshot keep of them, and what processPayload               *)
(* (app/triggers.go) takes from the headers of a delivery.                 *)
(*                                                                         *)
(* Identifiers are numbers, 0 for an empty one; those that are generated   *)
(* are drawn from the counter "fresh".  A traceparent header holds a trace *)
(* and a span, or is <<>> when it cannot be parsed; the other headers hold *)
(* one identifier.  "spans" logs the spans that handlers ran in.           *)
(***************************************************************************)
EXTENDS Integers, SequencesExt

NewMessage(fresh) ==
  [headers |-> <<>>, trace |-> 0, span |-> 0, parent |-> 0, fresh |-> fresh, spans |-> <<>>]

Trace(trace, span, parent) == [trace |-> trace, span |-> span, parent |-> parent]

Has(m, name) == name \in DOMAIN m.headers

\* firstNonEmpty and firstHeader.
FirstGiven(ids) == LET k == SelectInSeq(ids, LAMBDA id : id # 0) IN IF k = 0 THEN 0 ELSE ids[k]

Header(m, name) == IF Has(m, name) THEN m.headers[name] ELSE 0

WithHeaders(m, headers) ==
  [m EXCEPT !.headers = [n \in DOMAIN headers \cup DOMAIN m.headers |->
                           IF n \in DOMAIN headers THEN headers[n] ELSE m.headers[n]]]

\* applyTraceContext; the header of the parent stays when there is no parent now.
Apply(m, t) ==
  WithHeaders(WithHeaders([m EXCEPT !.trace = t.trace, !.span = t.span, !.parent = t.parent],
                          IF t.parent = 0 THEN <<>> ELSE [parent_span_id |-> t.parent]),
              [traceparent |-> <<t.trace, t.span>>, trace_id |-> t.trace, span_id |-> t.span])

\* ParseTraceparent of a header.
Parsed(m, name) ==
  IF Has(m, name) /\ m.headers[name] # <<>> THEN {Trace(m.headers[name][1], m.headers[name][2], 0)} ELSE {}

\* traceContextFromMessage: a traceparent, or single identifiers; a span that is
\* missing is generated.
FromMessage(m) ==
  LET trace == FirstGiven(<<m.trace, Header(m, "trace_id"), Header(m, "X-Trace-ID"), Header(m, "x-trace-id")>>)
      span == FirstGiven(<<m.span, Header(m, "span_id"), m.fresh>>)
  IN  IF Parsed(m, "traceparent") # {} THEN Parsed(m, "traceparent")
      ELSE IF Parsed(m, "Traceparent") # {} THEN Parsed(m, "Traceparent")
      ELSE IF trace = 0 THEN {}
      ELSE {Trace(trace, span, FirstGiven(<<m.parent, Header(m, "parent_span_id")>>))}

\* Mutant of Current: the message's identifiers come before those of the context.
Current_FromMessage(ctx, m) == FromMessage(m)

\* What EnsureTraceContext finds: ctx holds the trace of the caller, if any.
Current(ctx, m) == IF ctx # {} THEN ctx ELSE FromMessage(m)

\* EnsureTraceContext: the trace that is used, and the message that shows it.
Ensured(ctx, m) ==
  LET Shown(t) == [trace |-> t, m |-> Apply([m EXCEPT !.fresh = @ + 2], t)]
      Chosen(found) == IF found # {} THEN CHOOSE t \in found : TRUE ELSE Trace(m.fresh, m.fresh + 1, 0)
  IN  Shown(Chosen(Current(ctx, m)))

\* tracingHandler.Handle around one call of a handler: StartTraceSpan gives it a
\* span of its own, a child of the span of its context.
Call(ctx, m) ==
  LET Within(e, t) == [Apply([e.m EXCEPT !.fresh = @ + 1], t) EXCEPT !.spans = Append(@, t)]
      Started(e) == Within(e, Trace(e.trace.trace, e.m.fresh, e.trace.span))
  IN  Started(Ensured(ctx, m))

\* Router.Process: every handler is called with the context of Process.
Run(m, calls) ==
  LET e == Ensured({}, m)
      After[k \in 0..calls] ==
        IF k = 0 THEN [e.m EXCEPT !.spans = <<e.trace>>] ELSE Call({e.trace}, After[k - 1])
  IN  After[calls]

\* Message.Snapshot and MessageFromSnapshot: headers and identifiers are kept.
Snapshot(m) == [headers |-> m.headers, trace |-> m.trace, span |-> m.span, parent |-> m.parent]

Restored(snapshot, fresh) ==
  [NewMessage(fresh) EXCEPT !.headers = snapshot.headers, !.trace = snapshot.trace,
                            !.span = snapshot.span, !.parent = snapshot.parent]

\* processPayload: the headers of the delivery are put over those of the message;
\* of the traceparents only the lower-case one is looked at.
Received(m, headers) ==
  LET h == WithHeaders(m, headers)
      trace == FirstGiven(<<Header(h, "trace_id"), Header(h, "x-trace-id"), Header(h, "X-Trace-ID")>>)
  IN  IF Has(h, "traceparent") /\ Header(h, "traceparent") # <<>>
      THEN [h EXCEPT !.trace = h.headers["traceparent"][1], !.span = h.headers["traceparent"][2]]
      ELSE IF trace # 0 THEN [h EXCEPT !.trace = trace] ELSE h

\* What the deliveries of one message, each with its headers and the number of
\* handlers it calls, make of it: the message after each of them.
Deliveries(ds) ==
  LET After[k \in 1..Len(ds)] ==
        LET m == IF k = 1 THEN NewMessage(1) ELSE Restored(Snapshot(After[k - 1]), After[k - 1].fresh)
        IN  Run(Received(m, ds[k].headers), ds[k].calls)
  IN  After

-----------------------------------------------------------------------------
(* What the spans of a message show. *)

\* Headers: a traceparent that can be parsed is a pair, the others hold identifiers.
AreHeaders(headers) ==
  \A n \in DOMAIN headers :
    IF n \in {"traceparent", "Traceparent"} THEN headers[n] = <<>> \/ headers[n] \in Nat \X Nat
    ELSE headers[n] \in Nat

AreDeliveries(ds) ==
  /\ Len(ds) \in Nat /\ DOMAIN ds = 1..Len(ds)
  /\ \A k \in DOMAIN ds : AreHeaders(ds[k].headers) /\ ds[k].calls \in Nat

\* A delivery that brings a traceparent the router reads.
Brings(d) == "traceparent" \in DOMAIN d.headers /\ d.headers["traceparent"] # <<>>

\* Every handler runs in a span of its own, below the span its delivery entered
\* with, and leaves that span's traceparent for the requests it makes; a delivery
\* enters with the span its caller gave or, when a message is resumed, goes on
\* from the last span of the message, in the same trace.
Chained(ds) ==
  \A after \in {Deliveries(ds)} :
    LET Entry(k) == after[k].spans[1]
        Steps(k) == Tail(after[k].spans)
        Left(k) == after[k].spans[Len(after[k].spans)]
    IN  /\ \A j, k \in DOMAIN ds : \A i \in DOMAIN Steps(j), l \in DOMAIN Steps(k) :
             Steps(j)[i].span = Steps(k)[l].span => j = k /\ i = l
        /\ \A k \in DOMAIN ds :
             /\ \A t \in ToSet(Steps(k)) : t.parent = Entry(k).span /\ t.trace = Entry(k).trace
             /\ after[k].headers["traceparent"] = <<Left(k).trace, Left(k).span>>
             /\ Brings(ds[k]) => <<Entry(k).trace, Entry(k).span>> = ds[k].headers["traceparent"]
             /\ ~Brings(ds[k]) /\ "traceparent" \notin DOMAIN ds[k].headers /\ k > 1 =>
                  <<Entry(k).trace, Entry(k).span>> = <<Left(k - 1).trace, Left(k - 1).span>>
=============================================================================
