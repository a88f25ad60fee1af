# Verification of the routing slip runtime

TLA+ models of the Go program under `src/app`: a message carries its own routing
slip (a list of steps), a router executes it step by step, saves a snapshot in a
state store around every step, and starts again from the last snapshot when the
event is delivered again. Several goroutines, processes and machines may receive
the same event; a processing lock in the state store keeps them apart.

Run everything from this directory: `tlc -workers 2 -config <cfg> <module>` for
a run of `PROJECT.json`, `tlapm <module>` for a proof module.

## Inventory

| Component | Source | State it keeps | Operations | Module |
|---|---|---|---|---|
| Message and slip | `slip/slip.go` | payload, slip, cursor, status, step states, history, errors | `AttachSlip`, `NextStep`, `setCursor`, `markStepRunning/Finished`, `Snapshot` | `Router` |
| Router | `slip/slip.go`, `slip/resilience.go` | none of its own: the position in `Process` | `Process`, `handleStep` (retries), `handleStepFailure`, `saveState` | `Router`, `SlipProgress` |
| Cursor controllers | `handlers/control_flow.go`, `handlers/cel.go` | `cel_jump_to` in the payload | `Handle`, `NextCursor` | `Router`, `Handlers` |
| State stores | `slip/state_store.go`, `slip/state_store_dynamodb.go` | last snapshot of each message | `Save`, `Load`, `List` | `Router`, `Delivery`, `StateListing` |
| Processing lock | same files | one lock item per message: owner, expiry | `TryAcquireProcessing`, `Release` | `ProcessingLock`, `FileLock` |
| Runtime | `triggers.go`, `framework/framework.go` | configuration | `processPayload` / `Runtime.Process`: identity, lock, load, resume | `Delivery`, `Identity` |
| Triggers | `triggers.go` | consumer loop, what is acknowledged | `runREST`, `runKafka`, `runSQS`, `runSNS` | `Delivery` |
| Step policy | `slip/resilience.go` | none | attempts, backoff, jitter | `StepPolicy` |
| Conditions and handlers | `handlers/*.go` | none | `assert`, `compute`, `jump_if`, `cel`, `enrich`, ... | `Payload`, `Conditions`, `Handlers` |
| Arrays | `handlers/filter_array.go`, `handlers/array_transform.go` | none | `filter_array`, `array_transform` | `Arrays` |
| Placeholders | `handlers/*.go` | none | `interpolate`, `interpolateValue`, `interpolateString` | `Interpolation` |
| Workflow composition | `runtime_config.go`, `framework/framework.go`, `mcp.go` | the stack of files being expanded | `workflow_ref` expansion, prefixes, `ToSlip`, `validate_workflow` | `WorkflowRefs` |
| Configuration | `runtime_config.go`, `runtime_state.go`, `framework/framework.go` | the configuration | defaults, validation, start | `Configuration` |
| Middleware, trace context | `slip/middleware.go`, `slip/trace_context.go` | span of the message | spans, parents, headers | `TraceContext` |
| Gateway | `mcp.go`, `framework/mcp.go` | none | list and find snapshots, validate | `StateListing`, `WorkflowRefs` |
| Planner and business rules | `mcp_planner.go`, `mcp_business_rules.go` | none | drafts of workflows and test payloads | `Drafts` |
| Metrics, sources, command line, Studio, infrastructure | remaining files | none shared | text, I/O | none |

How they interact: a trigger calls `processPayload`, which takes the processing
lock of the message, loads its snapshot, and calls `Router.Process` in the same
goroutine. The router calls one handler at a time and the state store around
each; nothing calls back into the router. The goroutines of a process share the
store object (a mutex), processes share its directory or its DynamoDB table.
The only shared mutable state is therefore the snapshot and the lock of each
message_id; messages with different ids do not interact.

What is hard in it, and what makes each component correct:

* **Router.** The cursor lives three lives: on the message, in the snapshot, and
  in the resumed message. It is saved before the step, after the step has been
  claimed, and after its end, and a crash, a cancelled context or a failing save
  can fall between any two of them. Correct: no step is lost (it is behind the
  stored cursor only if it was at least claimed), none takes effect twice, a
  failure resumes at the failed step, an acknowledged message is final in the
  store, jumps make no loop of their own.
* **Processing lock.** A lease with a ttl and an owner string, released from a
  deferred call that may be late. Correct: leases exclude each other, a late
  release takes nobody's lock away, a lock nobody releases goes stale.
* **Lock file.** Reading, removing, creating and writing are separate file
  operations. Correct: it behaves as the atomic lock does; a crash between two
  of them blocks nobody.
* **Runtime and triggers.** Each connector acknowledges at another moment: Kafka
  when it reads, REST when it answers, a queue when it deletes. Correct: an event
  leaves a queue only when its message is final, a locked or failed one comes
  again, nobody works on a snapshot that another worker has moved.
* **Composition.** Files are expanded into one slip, and what names a step must
  still name it under its new id. Correct: circles are refused, jumps stay in
  their file, what validation accepts exists when it runs.
* **Handlers.** A step is attempted again after it failed, on the payload the
  failed attempt has left. Correct: an attempt that fails leaves nothing.
* **Pure algorithms.** Boundaries: the backoff's cap, the page a listing scans,
  file names of message ids, replacement loops that scan their own output,
  defaults that depend on each other.

Every hazard is listed in `PROJECT.json` at its line, with the properties that
watch it, or with a note why none does.

## Modules

| Module | Models |
|---|---|
| `Snapshots` | what a snapshot says to whoever resumes it: cursor, status, final or not |
| `SlipProgress` | abstract: what one call of `Process` after another promises its callers |
| `Router` | `Router.Process` of one message, the snapshot store, redelivery through `processPayload`; implements `SlipProgress` |
| `MCRouter` | its instances: slips of three steps |
| `Router_proofs` | type invariant, claims before effects, no repeated effect |
| `RouterRecords_proofs` | what a snapshot tells the call that resumes it: nothing lost, failures retried, acknowledgements durable; idempotency; what a completed message holds when nothing interrupts it; the router implements `SlipProgress` |
| `ProcessingLock` | the lock of one message as an atomic item: memory store and DynamoDB |
| `MCProcessingLock` | its instances: three workers |
| `ProcessingLock_proofs` | type invariant, holders keep their lock, exclusive leases |
| `FileLock` | the lock file as file operations; implements `ProcessingLock` |
| `MCFileLock` | its instances: three workers in one or three processes |
| `FileLock_proofs` | type invariant; the refinement, for one process |
| `Delivery` | one event from its connector to its acknowledgement, by several workers; composes `ProcessingLock` and the snapshot |
| `MCDelivery` | its instances: two processes behind each connector |
| `Delivery_proofs` | its lock is `ProcessingLock`; current calls, no repeated step, final answers; with the lock, it implements `SlipProgress` |
| `Payload`, `Conditions`, `Handlers`, `Arrays` | values and paths; conditions; what each handler writes; filters and transformations of arrays |
| `Interpolation` | placeholders in texts and parameters |
| `WorkflowRefs` | composition of workflow files, jump targets, validation |
| `TraceContext` | traces and spans along the deliveries of a message |
| `Identity` | message ids and correlation ids of events |
| `StateListing` | what is kept under which key, and what `List` shows of it |
| `StepPolicy` | attempts and backoff |
| `Drafts` | workflows drafted from business rules and plans |
| `Configuration` | defaults, validation and start of the two runtimes |
| `Algorithms` | the specification of the twelve modules above: a step chooses an input, each property says what the code makes of it |
| `MCAlgorithms` | its instance: bounded inputs; and the property of `Arrays` |
| `Algorithms_proofs` | configurations, conditions, handlers' retries, placeholders and retry policies, for every input |
| `Composition_proofs` | workflow files that include each other; drafted workflows |
| `Messages_proofs` | the names of messages, their traces, and the listing of their snapshots |

### Router

Each action is the code between two points at which the goroutine is at the
mercy of others: a save, or one call of a handler. `pc` says where `Process`
stands, `msg` is the live message, `store` the last snapshot.

| Action | Code |
|---|---|
| `Deliver` | `processPayload`: load, the completed short cut, entry of `Process` |
| `SaveStart`, `CheckLoop`, `SaveBeforeStep` | the first save; the context check and the end of the slip; the save with the cursor on the step |
| `MissingHandler`, `IdempotentSkip`, `ClaimStep` | the three ways on after the cursor has advanced |
| `HandlerSucceeds`, `HandlerFails` | one attempt in `handleStep` |
| `SettleStep`, `RejectJump` | history, step state, `NextCursor`, the save after the step |
| `StopOnFailure`, `ContinueOnFailure`, `SkipOnFailure`, `JumpOnFailure` | `handleStepFailure` and the error policy |
| `Finish` | completion and the last save |
| `Crash`, `Cancel` | the process dies; the caller's context ends |

Abstractions. A payload is the set of steps whose output it holds, plus
`cel_jump_to`. History entries form a set of pairs of step and status. Step
names are model values of the slip; a handler's answer is any one its code can
give (conditions and expressions are nondeterministic). A save is atomic; one
that reports an error may have been applied or not (`SaveFails`), and a
cancelled context makes it fail before it writes, as all three stores do. The
key of a step state is a record of the template's tokens that differ between
steps, so steps share a state when the template lets them. `ran` counts
successful executions (up to two) and is not part of the program. A router
without a state store is not modelled. A second delivery of a message that a
handler stopped goes on behind the stop, as `processPayload` does: the README
says that `proceed=false` ends the workflow, a comment on `MessageSnapshot` that
a stopped workflow can be resumed, so no property sides with either.

`SlipProgress` is what `processPayload` relies on: a call either answers at once
that the message is complete, or resumes the snapshot (`Enter`), moves cursor and
snapshot (`Work`), and ends with an error or a death (`GiveUp`: the store has what
it had, something that can be resumed, or what an unanswered last save has put
there) or with success (`Finish`: only when the slip's end was reached or a step
has stopped it, and only with the final status in the store). `Router!Abstract`
maps the live message and the store to their cursor and status; everything else
the router does, its step states, attempts and error policies, becomes a `Work`
step or none. `Delivery` uses the same operators of `Snapshots` for its calls.

### ProcessingLock and FileLock

Time is what is left until an expiry, in seconds, so that behaviours stay
finite without a clock. The expiry is computed from a time read before the
mutex or the network is waited for, so `TryAcquire` grants any rest of the ttl.
DynamoDB compares whole seconds with `<`, the others with `!After`; `Backend`
selects. `TryAcquireLost` is a conditional write that succeeds while its answer
is lost. The clocks of machines are assumed to agree.

`FileLock` splits the same operations into file operations. `Unlocked(w)` is
the store's mutex, which orders the workers of one process only. Its refinement
maps the file to the lock item; an empty file, which no reader can parse, maps
to "no lock", removing a stale file to `Evict`, and writing to `TryAcquire`.

### Delivery

A worker is a process with an owner string of its own. Its `pc` runs through the
connector's loop and `processPayload`:

| Action | Code |
|---|---|
| `Receive` | a request, `ReadMessage` (which commits the offset), `ReceiveMessage` (which hides the event) |
| `Reject` | the body does not decode: 400, skipped, or left in the queue |
| `Accept` | asynchronous REST answers 202 while its goroutine goes on |
| `Claim`, `FindLocked` | the processing lock is granted, or held by another |
| `LoadState`, `LoadFails` | the snapshot; a completed one is returned as it is; an error of store or lock |
| `ClaimStep`, `HandleStep`, `StepFails`, `Finish` | `Process` as far as others see it: the save before a step, its effect and outcome, the failure that gives it back, the final save |
| `Release` | the deferred release, and the return |
| `Acknowledge`, `DeleteFails`, `Forgo` | `DeleteMessage` or the answer; its error, which ends the process; a message that was not processed |
| `Crash`, `Restart`, `Resend`, `Reappear`, `Tick` | a process dies and is started again; the sender sends again; a hidden event is visible again; a second passes |

The lock is an instance of `ProcessingLock`; `Claim`, `Release`, `Crash` and
`Tick` take its actions as conjuncts. SQS and SNS have the same loop and are one
connector, `"queue"`. The slip runs in order: jumps, policies and the saves that
other workers cannot tell apart are `Router`'s. The code never renews a lease, so
a worker slower than its ttl is not excluded by the lock at all; the guard of
`Tick` assumes that calls end within their leases, and what happens otherwise is
`lock_shared`'s subject and a hazard in `PROJECT.json`. A queue may ignore the
deletion of a delivery that is not the last (`Acknowledge`).

Besides `faults`, three variables are not the program's: `ran` counts the effects of each step,
`ended` is the first final status that was saved, `answer` is how the last call
of `Process` ended. `Turns` maps the workers to one router: the call that runs,
if one does, is `SlipProgress`'s live message. `CallsTakeTurns` says that with the
lock every step of all workers is a step of that specification, so what the
router promises for one process holds for all of them together.

### The algorithms

`Payload` to `Configuration` are operators, translated function by function. The
state machine of `Algorithms` is one step: `Choose` takes an input for one subject
from `Inputs`, and an invariant says of the modelled code's result what it should
be, or compares two results of the code that should agree. `MCAlgorithms` writes
the inputs out for TLC; the theorems hold for any `Inputs` that meet the named
assumptions of `Algorithms`, which TLC evaluates on its own: workspaces hold
finitely many files (`WorkspacesAreFiles`), a cleaned name is clean
(`NamesGetClean`), numbers that print alike are the same (`ValuesAreCompared`; NaN
is one of the numbers, `NaNIsNoInteger`),
a step does not decide by what a failed attempt notes of itself
(`AttemptsAreRepeatable`), texts are sequences (`TextsAreGiven`), headers hold ids
(`HeadersHoldIds`), payloads are objects (`EventsAreObjects`), saves come in the
order of their times (`SavesAreOrdered`), rules and names are of the types that
drafts are made of (`RequestsAreRead`), policies and configurations are of the
types that a file is read into (`PoliciesAreWritten`, `FilesAreRead`).
A name is a text, a sequence of parts, or a model value where only its identity
matters; what libraries do to strings (trimming, lower case, cleaning) is a
function given by the instance.

| Property | Says | Except |
|---|---|---|
| `CyclesAreRefused` | composition ends, and is refused for circles, missing files and, on the command line, empty ones; for nothing else | |
| `JumpsStayInTheirFile` | a jump to a step of its own file leads to it after inclusion | slips whose ids are not distinct; targets that are no clean id |
| `AcceptedTargetsExist` | a target that `validate_workflow` accepts exists when the slip runs | disabled steps: they are validated and then dropped |
| `OppositesDisagree` | a condition and its opposite never both hold, and disagree unless both are errors; the gate, which compares printed values, lets nothing through that `assert` refuses | NaN, which the text `nan` is read as: two orderings of it are both false, and the gate lets `nan` = `nan` through; a gate on a missing field |
| `RetryIsClean` | after an attempt that fails, a second one writes and answers what it would have without the first | `validate`, `assert` and `cel` write notes of their own call, and `cel` its target, before they fail; a step that decides by these notes |
| `TransformationIsAtomic` | `array_transform` writes its target only, nothing if an item fails, and nothing into the parameters of its step | updates that store an object of the payload, and writes below an object that the parameters write down: both are stored by reference |
| `InterpolationEnds` | placeholders are replaced until none is left, and the loop ends, exactly when no field's value leads back to that field; with values that hold no brace it ends for every text, a round per two tokens at most | for the first part, texts with stray braces |
| `SpansAreChained` | one span per handler call, under its delivery, under the caller or the message's last span | |
| `AcceptedNamesProcessed` | the ids in a 202 answer are those the event is processed under; an event with an id is one message, for the framework, too | null ids; an id path below the other one; for the framework, ids with blanks around them, numbers that a float64 prints otherwise (from a million on) and ids that are lists or objects |
| `ListIsComplete` | a message keeps its own last snapshot, and what matches a filter is listed, up to the limit | ids that share a file name; what lies behind DynamoDB's page of twice the limit (of 50 when none is given) |
| `BackoffIsBounded` | no wait above one and a half times the maximum; the delays before jitter never shrink | |
| `DraftsAreUsable` | drafts cover their rules in order and accept exactly the complete events | rules that share an id; fields that are no CEL names; for the test payload, nested fields |
| `AcceptedConfigurationRuns` | what is accepted starts, if its error policy is known, defaults are complete and stable, both runtimes keep the same state under the same keys in the same place | for the last: files that leave open what the runtimes have different defaults for or read differently (the name of the workflow, paths of ids, region, expiry or a blank endpoint of a DynamoDB table, idempotency at the top level, persistence), and files that include others, whose steps get other ids |

Three of the modules deserve a word more.

* `Conditions` has a number `NaN` that equals nothing and is ordered with nothing;
  infinities are ordered like other numbers and not told apart. What is printed of
  a list or an object is taken to tell what it holds, although the code prints
  `[1]` and `["1"]` alike.
* `Arrays` works on a memory, which holds the payload and the objects that the
  parameters of the step write down. A reference (`Shared`) names an object in it;
  a write below a reference changes the memory, so that the next item, and the next
  message, sees it. That several goroutines write to one map at a time is left out.
* `Configuration` has what the place of a snapshot and the key of a step state are
  made of: store, path or table with region, endpoint and expiry, the name of the
  workflow, paths and template. Both runtimes expand environment variables before
  they read a file, with slightly different rules; the model starts behind that.

The exceptions of these three are needed, each of them: without it TLC finds a
counterexample among the same inputs.

Each exception is a precondition written in the property's definition; those that
can hurt are hazards in `PROJECT.json`. Left as the code has it and not the subject of
a property: the framework's `find_executions` filters by the text `<nil>` when an
argument is missing; a generated test payload spells a dotted field as one key;
a generated `message_id_path` is the alphabetically first required field.

## Runs

| Run | Question | Answer |
|---|---|---|
| `router_faults` | 100 slips of every kind of step, failure action and jump, all error policies, with crashes, cancellations and failing saves | the cursor is never ahead of or behind the execution; no effect is repeated; the router implements `SlipProgress` |
| `router_idempotent` | backward failure jumps with idempotency on, crashes, cancellations | a success is skipped for its own output only and is final |
| `router_faultless` | all slips, nothing fails from outside | `Process` returns; what completes is settled and has all outputs |
| `router_interrupted` | the same completeness, with a crash or a cancellation | violated by each of them: the claimed step is skipped on resume |
| `lock_distinct` | leases, with an owner string for each worker | exclusive; late releases do no harm; no lock stays for ever |
| `lock_shared` | leases, with the owner string of the process | violated: a late release deletes another goroutine's lock |
| `file_process` | the lock file in one process, crashes and write errors | implements `ProcessingLock`; nothing blocks for ever |
| `file_exclusive` | the lock file between processes | violated: an empty file is taken for stale |
| `delivery_leased` | two processes behind every kind of connector, with crashes, failures, lost deletions and redeliveries | no step repeated, no stale call, calls take turns on the snapshot, nothing acknowledged unfinished, a queue is drained |
| `delivery_gate` | the condition gate, when the event comes again | violated: a stopped message is resumed behind its gate |
| `algorithms` | the properties above on every input within the bounds | they hold |
| `composed_jumps` | failure jumps of included files | violated: `on_failure.to` gets no prefix |

Bounds. A slip of `Router` has three steps: enough for a step before, at and
behind a jump, a failed or claimed step, and for a jump that passes over one; the
positions are crossed so that each kind of step meets each kind of successor. Two
attempts per retried step reach both "try again" and "give up". Nothing bounds
the number of deliveries, crashes or cancellations: the state space is finite
because history is a set and `ran` stops at two. Three workers are the first
number at which a release by one can hurt a second to the profit of a third; a
ttl of two seconds (four for `lock_distinct`) leaves room for a late release, an
expiry and a new lease. `Delivery` has two processes and two steps, so that a
worker can die between them and the other take over; ttl and visibility are one
second, so that each can end before the other; `MaxFaults` counts crashes,
failures, lost deletions and events that reappear too early (two: a fault, and one
more while its consequences are dealt with), `MaxSends` the times a request or a
record is sent (a duplicate is two). Workflows are three files of at most two
steps, included to any depth and in circles; a message is delivered up to three
times with up to two calls each; three saves over two ids are listed.

Fairness. `Router!FairSpec` assumes that `Process` keeps running while it can:
it is one goroutine that waits for no other, and handlers and saves return.
Nothing is assumed of deliveries. `ProcessReturns` is about slips whose failure
jumps go forward: two failing steps that jump to each other do loop for ever.
The lock modules assume only that time passes, nothing of the workers: they may
stop anywhere, even without a crash. `Delivery!FairSpec` assumes that some worker
receives what is visible (the loops poll), that a worker in a call goes on, that
an ended process is started again (by its orchestrator; the code only exits),
that a hidden event becomes visible when its timeout is over, and that time
passes. `QueueIsDrained` is about queues with the lock on. `AcceptedIsProcessed`
is claimed without faults only: an accepted request lives in a goroutine that
dies with its process. Nothing of the kind is claimed of Kafka, whose offset is
committed by reading: a record that fails or is locked is gone.

Runs check for deadlock, save those of `MCAlgorithms`, which are over after one
choice: a router at rest can always be given the event again, and time always
passes.

## Proofs

All for every slip, policy, set of faults, number of workers and steps, connector,
owner and ttl. Each invariant below is inductive, alone or with those named with it.

Router:

* `TypeCorrect`: `TypeInv` strengthens `TypeOK` with what each place of `Process`
  knows of the cursor (behind the claim it names a step; before the loop it is
  within the slip), which the arithmetic on cursors and the accesses to the slip
  need.
* `EffectsAreClaimed`: `ClaimInv` relates the two cursors at every place of
  `Process` (equal, but for the step between its two saves) and says that a step
  in its handler is stored as running.
* `NoRepeatedEffect`: `EffectInv` relates `ran` to the stored cursor: a step that
  has taken effect lies behind it, and strictly behind it while another step is in
  its handler. The hypothesis, failure jumps only forward, is needed where
  `JumpOnFailure` moves the cursor.
* `AcknowledgementsAreDurable`: `StatusInv` says that the live message is "running"
  until its last save, that it ends there at the end of the slip or stopped, and
  that nothing in the store says "completed" while a call runs.
* `NothingIsLeftBehind`: `AccountInv` extends `NoStepLeftBehind` from the store to the
  live message, whose cursor is one ahead while a step is dispatched. What a step
  records is never taken back (`Grows`), so a step once accounted for stays so,
  whichever snapshot a crash leaves.
* `RewindsAreFailures`, `FailuresAreRetried`: from `ClaimInv` and `StatusInv`; a failed
  snapshot is only written by `GiveBack`, on the step the stored cursor is at.
* `SkipsFollowSuccess`: `SuccessInv` says of both messages that a state "success", or
  an idempotent skip, comes with the step's own history entry and output. It
  needs keys that tell steps apart, as the property does.
* `SuccessStaysFinal`: `KnownSuccess` carries each stored success into the live message
  of the call that runs; a step takes effect only while it is stored as running.
* `UninterruptedIsSettled`, `UninterruptedKeepsResults`, with `Faults = {}`: `RunningInv`
  (only the current step is ever "running", from claim to end) and `ResultInv`
  (every effect is in the stored outputs, but for that of the step about to be
  settled). `router_interrupted` shows that the hypothesis is needed.
* `RouterImplementsProgress`: every step of the router is one of `SlipProgress` or
  none, by `ClaimInv`, `StatusInv` and `IdleInv` (between calls the live message is a
  new one). One lemma for each way a save can go (`SaveThenIsWork`,
  `ErrorIsGiveUp`, ...) serves all actions.

Locks:

* `HoldersKeepTheirLock`, `LeasesAreExclusive`: with `DistinctOwners`,
  `HolderKeepsLock` and the types are inductive together, and two running leases
  would make one lock name two owners.
* `LockFileImplementsLock`: within one process, `Spec => Abstract!Spec`. `MutexInv`
  says what the worker inside the mutex knows of the file (absent after removal,
  its own empty file before the write, its own lock or none before the unlink).
  Each file operation is then a step of `ProcessingLock` or none.
  `FileLockTypeCorrect` holds across processes, too.

Delivery:

* `DeliveryTakesTheLock`: `Spec => Lock!Spec`, so that nothing the workers do around
  the lock bends it.
* `DeliveryTypeCorrect`: with `CallInv` (what the live message of a call says at
  each place; a completed snapshot is at its end) and `LeaseInv` (who works has the
  lock in its name, and its lease runs).
* `NothingIsAcknowledgedEarly`: `EndedInv` follows the final status from its save
  through "done" and "succeeded" to the answer or deletion. It needs no lock.
* `NoStepIsRepeated`, `CallsAreCurrent`, `CompletedIsFinal`, `WorkersTakeTurns`:
  `OnceInv` says that, with the lock, a call in `Process` has the stored cursor
  and has not found the message completed, that no step past the stored cursor
  has taken effect and no step has twice, and that the one in its handler has
  not yet. With `LeaseInv`, at most one worker is in `Process`.
* `LockedDeliveryImplementsProgress`, with `Locking = {TRUE}`: `Spec => Turns!Spec`, from
  `WorkersTakeTurns`. `Router` and `Delivery` thus meet in one specification.

Algorithms:

* `AcceptedFilesRun`: every default is either not empty or written down by the code
  itself (`Literals`), and trimming and lower case settle each other's results, so
  a second application changes nothing; a store type, policy or place that both
  runtimes accept is the same after their different trimming (`SamePolicy`,
  `SameStore` with `TablesAreOne`, `SamePlace`), and a name that is written and
  steps that include no file are left as they are. `SameForBoth` lists what has
  to be written down, and each of its conjuncts is needed.
* `OppositesNeverAgree`: by the pairs of comparisons (`ComparedAreOpposite`), none of
  which holds of NaN; without NaN, the gate's text comparison and `valuesEqual`
  agree because what is printed alike is the same number.
* `RetriesAreClean`: two payloads are alike if they differ only in a handler's own
  notes (`Same`). Each handler reads alike payloads alike and leaves alike ones
  (`...IsSteady`), and a failed attempt leaves one alike to what it was given.
* `PlainTextsEnd`: each round takes a pair of braces out of the end of the text and
  what it puts in front of them holds none (`RoundsTakeBraces`); with one token left
  to hold braces there is no pair.
* `RetriesWaitWithinBounds`: by induction over the attempts. The doubling is a
  recursive function, so that the proof first shows that the function exists
  (`DoublingExists`) and does not depend on the attempt it is evaluated for
  (`DoublingsAgree`). `SetInduction` states induction for a set of naturals, which
  the provers can apply, and follows from the well-foundedness of `<`. Durations are
  integers: intervals are assumed to be small enough to be doubled in a
  `time.Duration`.

Composition of workflow files:

* `CircularFilesAreRefused`: loading puts a file on the stack before it loads what the
  file includes, so the files that are not on the stack get fewer, and induction
  over their number covers every depth. A refusal is then a missing or, on the
  command line, an empty file, or a file found on its own stack, which closes a
  circle of `Reached`, the least set of files closed under inclusion.
* `AcceptedTargetsAreThere`: what is loaded is a sequence (by the same induction), in
  which `validate_workflow` and `FindStepIndex` look up ids, and then names, alike.
* `JumpsStay`: `Leads` says of a jump of one expanded step to another that it names
  the other's id if it named it in the file where both are written. An inclusion
  keeps it: steps of the same copy come through the same reference, so that both
  get the same prefix (`SiblingsBelow`, `IncludedStepsLead`), and an own step and an
  included one are in no file together (`NoSiblings`). It holds at every depth by
  the induction over files; that ids are distinct then makes the step found the one named.

Drafted workflows:

* `UsableDrafts`: a sorted list of rules exists because finitely many positions can be
  ordered, and the first of a set of names because it is finite. The steps of a
  draft are then known by their place (`validate` first, three and more per rule),
  which gives coverage and order; that a draft accepts exactly the complete events
  follows by induction over its steps, none of which writes a field the others need.

Messages:

* `AcceptedNamesStay`: a value at a path is found part by part, along objects;
  writing one id at its path leaves the value at the other path as it is unless it
  lies below, which the property excludes. What the framework trims and prints as a
  float64 (`Trimmed`, `Floated`) is any function on texts.
* `SpansFormChains`: span numbers are drawn once and only grow. The induction over
  the calls of a delivery keeps that each span so far is new and hangs below its
  delivery's, the one over deliveries that the snapshot holds the last of them.
* `ListingsAreComplete`: the state kept under a key is the last one saved under it;
  every order of a finite table lists each row once; what is picked of a list, and
  how many, by induction over its length.

Assumptions: those named in the modules (`SlipsAssumption`, `TTLAssumption`,
`OwnerAssumption`, ...), those a theorem states (`DistinctOwners`, `OneProcess`,
`Faults = {}`, `Locking = {TRUE}`), and for the algorithms those on texts and values.
`lock_shared` and `file_exclusive` show that the first two are needed, and that
the program does not always meet them. That calls end within their leases is in
`Delivery` itself (`Tick`).

Only model-checked:

* Liveness: `ProcessReturns`, `NeverLockedForever`, `QueueIsDrained`,
  `AcceptedIsProcessed`. The provers have no fairness and no ENABLED.
* `TransformationIsAtomic`: `Arrays` follows nested values and nested transformations
  with RECURSIVE operators, about which the provers can say nothing.
* Of `InterpolationEnds`, the part about values that hold braces: its bound of eight
  rounds is one of the instance, and it needs an induction over how far a field
  leads. The part about values without braces is proved for every text
  (`PlainTextsEnd`).

## Plan

Done: 1. `Router`, 2. `ProcessingLock`, 3. `FileLock`, with their proofs, because the
cursor and the lock carry every guarantee of the system; 4. `SlipProgress` and its
refinement; 5. `Delivery`; 6. the algorithms.

Then the proofs: every safety property of `Router`, the locks and `Delivery`, the two
refinements of `SlipProgress`, and the algorithms but for the two above.

Next, theorems: `Arrays` with recursive functions.

Next, models: what a snapshot of the memory store shares with the live message
(`state_store.go:114`); header names that HTTP makes canonical
(`triggers.go:173`).

## Not modelled

* Metrics and redaction: a wire format and a replacement of texts. Of redaction,
  `Configuration` has the defaults.
* Sources and the command line: bytes from files, embedded data or URLs, flags,
  demonstrations and mocks. The Studio and the infrastructure files.
* What the REST, GraphQL and AWS handlers send: libraries' I/O. `Handlers` has
  what each outcome of a request does to the payload and the step.
* Of composition, how a reference is resolved to a path; of configuration, the
  expansion of environment placeholders and the settings handed to libraries.
* Of the gateway, the JSON-RPC framing and the tools that print fixed texts.
