------------------------------ MODULE MCRouter ------------------------------
(* Small instances of Router: slips of three steps, called s1, s2 and s3. *)
EXTENDS Router

Base == [id |-> "", name |-> "rest_call", target |-> "",
         attempts |-> 0, action |-> "", to |-> ""]

Named(name)         == [Base EXCEPT !.name = name]
Goto(name, target)  == [Base EXCEPT !.name = name, !.target = target]
OnFailure(act, to)  == [Base EXCEPT !.action = act, !.to = to]
Retried(step, n)    == [step EXCEPT !.attempts = n]

SlipsOver(first, second, third) ==
  {<<[a EXCEPT !.id = "s1"], [b EXCEPT !.id = "s2"], [c EXCEPT !.id = "s3"]>> :
     a \in first, b \in second, c \in third}

MCRefs == {"", "s1", "s2", "s3", "s9", "rest_call", "condition", "jump_if", "cel", "unregistered"}
MCHandlers == {"rest_call", "condition", "jump_if", "cel"}
MCMayHalt  == {"condition", "cel"}

\* Every kind of step, failure action and jump, forward, backward and broken.
AllKinds ==
  SlipsOver({Retried(Base, 2), Goto("jump_if", "s3"), Goto("cel", "s1"), OnFailure("jump", "s3")},
            {Named("condition"), Named("unregistered"), Goto("cel", "s3"),
             OnFailure("skip", ""), OnFailure("jump", "s1")},
            {Base, OnFailure("continue", ""), OnFailure("abort", ""),
             OnFailure("jump", "s9"), Goto("jump_if", "s1")})

\* Steps that can be visited again, for the idempotency properties.
Revisits ==
  SlipsOver({Base, Goto("jump_if", "s3")}, {Base, OnFailure("jump", "s1"), Named("condition")},
            {OnFailure("jump", "s1"), OnFailure("jump", "s2"), OnFailure("skip", "")})

\* Plain work around a gate, for the runs about interruptions.
Gated == SlipsOver({Base}, {Named("condition")}, {Base})
AllPolicies == {"stop", "continue", "skip"}
StopPolicy  == {"stop"}
=============================================================================
