----------------------------- MODULE WorkflowRefs -----------------------------
(***************************************************************************)
(* Composition of workflows: the workflow_ref steps that                   *)
(* loadWorkflowConfig (app/runtime_config.go) and loadWorkflow             *)
(* (app/framework/framework.go) replace by the steps of the file they      *)
(* name, the slip made of the result, and the diagnostics that             *)
(* validate_workflow (app/mcp.go) gives of it.                             *)
(*                                                                         *)
(* A step id is the sequence of its parts between dots, <<>> when it is    *)
(* not given; handler names are given to the jumps as ids of one part.     *)
(* "at" is auxiliary: the positions, file by file, that lead to a step.    *)
(***************************************************************************)
EXTENDS Integers, SequencesExt

CONSTANTS
  Files,      \* the workflow files
  Cleaned,    \* cleanStepID, part by part
  Registered  \* the handler names validate_workflow knows, workflow_ref too

\* A step as it is written in a file, and as a slip holds it.
WrittenStep(id, name, to, failTo) ==
  [id |-> id, name |-> name, to |-> to, failTo |-> failTo, enabled |-> TRUE,
   file |-> "", prefix |-> <<>>, at |-> <<>>]

RefTo(id, file, prefix) ==
  [WrittenStep(id, "workflow_ref", <<>>, <<>>) EXCEPT !.file = file, !.prefix = prefix]

Numbered == <<"001", "002", "003", "004", "005", "006", "007", "008", "009">>

CleanId(id) == [k \in DOMAIN id |-> Cleaned[id[k]]]

\* What loading gives: the steps, or an error.
LoadError == [ok |-> FALSE, steps |-> <<>>]
Loaded(steps) == [ok |-> TRUE, steps |-> steps]

\* Mutant of Joined: a reference that cannot be loaded is left out.
Joined_LeavesOut(parts) == Loaded(FlattenSeq([k \in DOMAIN parts |-> parts[k].steps]))

\* The steps of all parts, or the error of one of them.
Joined(parts) ==
  IF \E k \in DOMAIN parts : ~parts[k].ok THEN LoadError
  ELSE Loaded(FlattenSeq([k \in DOMAIN parts |-> parts[k].steps]))

-----------------------------------------------------------------------------
(* The command line: app/runtime_config.go. *)

\* workflowRefPrefix: params.prefix, the step's id, or the child's name, which
\* applyWorkflowDefaults never leaves empty.
PrefixOf(s, childName) ==
  CleanId(IF s.prefix # <<>> THEN s.prefix ELSE IF s.id # <<>> THEN s.id ELSE <<childName>>)

PrefixedId(prefix, s, k) ==
  prefix \o (IF s.id # <<>> THEN CleanId(s.id) ELSE <<Numbered[k], s.name>>)

\* Mutant of Rewritten: the target keeps the name it has in its own file.
Rewritten_Not(prefix, ids, to) == to

\* rewriteWorkflowRefTargets: a params.to that names a step of the same file.
Rewritten(prefix, ids, to) == IF to \in ids THEN prefix \o to ELSE to

\* The child's steps in the place of the workflow_ref step at position k.
Included(ref, k, childName, child) ==
  LET prefix == PrefixOf(ref, childName)
      ids == {child[i].id : i \in DOMAIN child} \ {<<>>}
  IN  [i \in DOMAIN child |->
         [child[i] EXCEPT !.id = PrefixedId(prefix, child[i], i),
                          !.to = Rewritten(prefix, ids, @),
                          !.at = <<k>> \o @]]

\* The step at position k of a file, as it is loaded from there.
At(steps, k) == [steps[k] EXCEPT !.at = <<k>>]

\* expandWorkflowReferences, for one step: a disabled step stays as it is.
Expanded(ws, s, k, child) ==
  IF ~s.enabled \/ s.name # "workflow_ref" THEN Loaded(<<s>>)
  ELSE IF ~child.ok THEN LoadError
  ELSE Loaded(Included(s, k, ws[s.file].name, child.steps))

\* loadWorkflowConfigWithStack, for file f of workspace ws: stack holds the files
\* being loaded, Load gives what is loaded below them.  An absent or empty workflow
\* is an error.
FileLoaded(ws, f, stack, Load) ==
  IF f \in stack \/ f \notin DOMAIN ws \/ ws[f].steps = <<>> THEN LoadError
  ELSE LET steps == ws[f].steps
       IN  Joined([k \in DOMAIN steps |->
                     Expanded(ws, At(steps, k), k, Load[<<steps[k].file, stack \cup {f}>>])])

LoadFile(ws, main) ==
  LET Load[x \in Files \X SUBSET Files] == FileLoaded(ws, x[1], x[2], Load)
  IN  Load[<<main, {}>>]

\* WorkflowConfig.ToSlip.
ToSlip(steps) ==
  FlattenSeq([k \in DOMAIN steps |-> IF steps[k].enabled THEN <<steps[k]>> ELSE <<>>])

-----------------------------------------------------------------------------
(* The importable runtime: app/framework/framework.go. *)

\* loadWorkflow: the steps are taken over as they are, those of a disabled
\* workflow_ref, too; the file that is loaded first is not on the stack.
SourceLoaded(ws, f, stack, Load) ==
  IF f \notin DOMAIN ws THEN LoadError
  ELSE LET steps == ws[f].steps
           Part(s) == IF s.name # "workflow_ref" THEN Loaded(<<s>>)
                      ELSE IF s.file \in stack THEN LoadError
                      ELSE Load[<<s.file, stack \cup {s.file}>>]
       IN  Joined([k \in DOMAIN steps |-> Part(At(steps, k))])

LoadSource(ws, main) ==
  LET Load[x \in Files \X SUBSET Files] == SourceLoaded(ws, x[1], x[2], Load)
  IN  Load[<<main, {}>>]

-----------------------------------------------------------------------------
(* validate_workflow: app/mcp.go. *)

\* Mutant of Targets: any jump names itself.
Targets_OfJumps(steps) ==
  UNION {{steps[i].id, <<steps[i].name>>, steps[i].to, steps[i].failTo} : i \in DOMAIN steps}

\* What a jump may name: ids and handler names, of disabled steps as well.
Targets(steps) ==
  ({steps[i].id : i \in DOMAIN steps} \ {<<>>}) \cup {<<steps[i].name>> : i \in DOMAIN steps}

\* validateWorkflowDiagnostics finds no error.
Valid(steps) ==
  /\ steps # <<>>
  /\ \A i \in DOMAIN steps :
       /\ steps[i].name \in Registered
       /\ steps[i].name = "jump_if" => steps[i].to \in Targets(steps)
       /\ steps[i].failTo # <<>> => steps[i].failTo \in Targets(steps)

-----------------------------------------------------------------------------
(* What composition promises. *)

\* FindStepIndex, 0 for none: by id first, by handler name when no id matches.
StepNamed(slip, ref) ==
  LET byId == SelectInSeq(slip, LAMBDA s : s.id = ref)
  IN  IF byId # 0 THEN byId ELSE SelectInSeq(slip, LAMBDA s : <<s.name>> = ref)

\* What a file can hold, and the files that may be there at all.
WrittenSteps ==
  [id : Seq(DOMAIN Cleaned), name : STRING, to : Seq(STRING), failTo : Seq(STRING), enabled : BOOLEAN,
   file : STRING, prefix : Seq(DOMAIN Cleaned), at : {<<>>}]

IsWorkspace(ws) ==
  /\ DOMAIN ws \subseteq Files
  /\ \A f \in DOMAIN ws :
       /\ ws[f].name \in DOMAIN Cleaned /\ ws[f].steps \in Seq(WrittenSteps)
       /\ \A k \in DOMAIN ws[f].steps : ws[f].steps[k].name = "workflow_ref" => ws[f].steps[k].file \in Files

\* The files that each file includes: by its enabled steps, or by all of them.
Includes(ws, enabledOnly) ==
  [f \in DOMAIN ws |->
     {s.file : s \in {r \in ToSet(ws[f].steps) : r.name = "workflow_ref" /\ (enabledOnly => r.enabled)}}]

\* The files reached from file f in one step or more: those in every set that holds
\* what f includes and what its own files include.
Closed(includes, f, S) == \A g \in ({f} \cup S) \cap DOMAIN includes : includes[g] \subseteq S
Reached(includes, f) == {g \in Files : \A S \in SUBSET Files : Closed(includes, f, S) => g \in S}

\* What can be loaded by the command line, or by the importable runtime: the files
\* are there, and none leads back to itself.
Loadable(ws, main, byCommandLine) ==
  LET includes == Includes(ws, byCommandLine)
  IN  \A f \in Reached(includes, main) \cup {main} :
        /\ f \in DOMAIN ws
        /\ byCommandLine => ws[f].steps # <<>>
        /\ f \notin Reached(includes, f)

\* A workflow is refused if, and only if, files include each other in a circle
\* (or one is missing or empty), however the circle is reached.
CyclesAreRefusedIn(ws, main) ==
  /\ LoadFile(ws, main).ok <=> Loadable(ws, main, TRUE)
  /\ LoadSource(ws, main).ok <=> Loadable(ws, main, FALSE)

\* Step y is written in the same file as step x, and included with it.
Siblings(x, y) ==
  Len(x.at) = Len(y.at) /\ SubSeq(x.at, 1, Len(x.at) - 1) = SubSeq(y.at, 1, Len(y.at) - 1)

\* The step, as its file has it, that position list at leads to.
Written(ws, main, at) ==
  LET FileAt[n \in 1..Len(at)] ==
        IF n = 1 THEN main ELSE ws[FileAt[n - 1]].steps[at[n - 1]].file
  IN  ws[FileAt[Len(at)]].steps[at[Len(at)]]

DistinctIds(slip) ==
  \A i, j \in DOMAIN slip : slip[i].id # <<>> /\ slip[i].id = slip[j].id => i = j

\* A jump that names a step of its own file by its id, one that cleaning leaves
\* as it is, leads to that step in the copy of the file the jump is in; Ref is
\* the target field of the jump.
StaysInItsFile(ws, main, Ref(_)) ==
  LET loaded == LoadFile(ws, main)
      slip == ToSlip(loaded.steps)
  IN  loaded.ok /\ DistinctIds(slip) =>
        \A i, j \in DOMAIN slip :
          LET named == Ref(Written(ws, main, slip[i].at))
          IN  /\ Siblings(slip[i], slip[j])
              /\ named # <<>> /\ CleanId(named) = named
              /\ named = Written(ws, main, slip[j].at).id
              => StepNamed(slip, Ref(slip[i])) = j

\* The targets that validate_workflow accepts exist when the workflow runs,
\* unless a step is disabled.
AcceptedTargetsExistIn(ws, main) ==
  LET loaded == LoadFile(ws, main)
      slip == ToSlip(loaded.steps)
  IN  loaded.ok /\ Valid(loaded.steps) /\ slip = loaded.steps =>
        \A i \in DOMAIN slip :
          /\ slip[i].name = "jump_if" => StepNamed(slip, slip[i].to) # 0
          /\ slip[i].failTo # <<>> => StepNamed(slip, slip[i].failTo) # 0
=============================================================================
