--------------------------- MODULE Composition_proofs ---------------------------
(***************************************************************************)
(* What the composition of workflow files promises for every set of files  *)
(* that include each other, and what drafted workflows do for every set of *)
(* rules and every plan.                                                   *)
(***************************************************************************)
EXTENDS Algorithms_proofs, FiniteSetTheorems, SequenceTheorems

-----------------------------------------------------------------------------
(* Files that include each other. *)

\* What is reached is closed, and the least set that is.
LEMMA ReachedIsLeast ==
  ASSUME NEW G, \A f \in DOMAIN G : G[f] \subseteq Files, NEW f
  PROVE  /\ Refs!Reached(G, f) \subseteq Files
         /\ Refs!Closed(G, f, Refs!Reached(G, f))
         /\ \A S \in SUBSET Files : Refs!Closed(G, f, S) => Refs!Reached(G, f) \subseteq S
<1> DEFINE R == Refs!Reached(G, f)
<1>1. R \subseteq Files /\ \A S \in SUBSET Files : Refs!Closed(G, f, S) => R \subseteq S
  BY DEF Refs!Reached
<1>2. ASSUME NEW g \in ({f} \cup R) \cap DOMAIN G, NEW h \in G[g]
      PROVE  h \in R
  <2>1. h \in Files
    BY <1>2
  <2>2. ASSUME NEW S \in SUBSET Files, Refs!Closed(G, f, S)
        PROVE  h \in S
    BY <1>1, <1>2, <2>2 DEF Refs!Closed
  <2> QED
    BY <2>1, <2>2 DEF Refs!Reached
<1> QED
  BY <1>1, <1>2 DEF Refs!Closed

\* What is reached from a file is what it includes, and what is reached from there.
LEMMA ReachedThrough ==
  ASSUME NEW G, \A f \in DOMAIN G : G[f] \subseteq Files, NEW f \in DOMAIN G
  PROVE  \A h : h \in Refs!Reached(G, f) <=> \E g \in G[f] : h = g \/ h \in Refs!Reached(G, g)
<1> DEFINE R(g) == Refs!Reached(G, g)
           S == {h \in Files : \E g \in G[f] : h = g \/ h \in R(g)}
<1>1. \A g : /\ R(g) \subseteq Files
             /\ \A k \in ({g} \cup R(g)) \cap DOMAIN G : G[k] \subseteq R(g)
             /\ \A T \in SUBSET Files : Refs!Closed(G, g, T) => R(g) \subseteq T
  BY ReachedIsLeast DEF Refs!Closed
<1>2. Refs!Closed(G, f, S)
  <2>1. ASSUME NEW k \in ({f} \cup S) \cap DOMAIN G, NEW h \in G[k]
        PROVE  h \in S
    <3>1. h \in Files
      BY <2>1
    <3>2. CASE k = f
      BY <2>1, <3>1, <3>2
    <3>3. CASE k # f
      <4>1. PICK g \in G[f] : k = g \/ k \in R(g)
        BY <2>1, <3>3
      <4>2. h \in R(g)
        BY <1>1, <2>1, <4>1
      <4> QED
        BY <3>1, <4>2
    <3> QED
      BY <3>2, <3>3
  <2> QED
    BY <2>1 DEF Refs!Closed
<1>3. R(f) \subseteq S
  BY <1>1, <1>2
<1>4. G[f] \subseteq R(f)
  BY <1>1
<1>5. ASSUME NEW g \in G[f] PROVE R(g) \subseteq R(f)
  <2>1. Refs!Closed(G, g, R(f))
    BY <1>1, <1>4, <1>5 DEF Refs!Closed
  <2> QED
    BY <1>1, <2>1
<1> QED
  BY <1>3, <1>4, <1>5

\* From a file that is not there nothing is reached.
LEMMA NothingReached ==
  ASSUME NEW G, \A f \in DOMAIN G : G[f] \subseteq Files, NEW f, f \notin DOMAIN G
  PROVE  Refs!Reached(G, f) = {}
<1>1. Refs!Closed(G, f, {})
  BY DEF Refs!Closed
<1> QED
  BY <1>1, ReachedIsLeast

\* The files that a workspace's files include.
LEMMA IncludedFiles ==
  ASSUME NEW ws, Refs!IsWorkspace(ws), NEW enabledOnly
  PROVE  LET G == Refs!Includes(ws, enabledOnly)
         IN  /\ DOMAIN G = DOMAIN ws
             /\ \A f \in DOMAIN G : G[f] \subseteq Files
             /\ \A f \in DOMAIN G : \A g : g \in G[f] <=>
                  \E k \in DOMAIN ws[f].steps :
                    /\ ws[f].steps[k].name = "workflow_ref" /\ ws[f].steps[k].file = g
                    /\ enabledOnly => ws[f].steps[k].enabled
<1> DEFINE G == Refs!Includes(ws, enabledOnly)
<1>1. DOMAIN G = DOMAIN ws
  BY DEF Refs!Includes
<1>2. ASSUME NEW f \in DOMAIN ws, NEW g
      PROVE  g \in G[f] <=>
               \E k \in DOMAIN ws[f].steps :
                 /\ ws[f].steps[k].name = "workflow_ref" /\ ws[f].steps[k].file = g
                 /\ enabledOnly => ws[f].steps[k].enabled
  <2> DEFINE r(k) == ws[f].steps[k]
  <2>1. g \in G[f] <=> \E s \in Refs!ToSet(ws[f].steps) :
                          s.name = "workflow_ref" /\ (enabledOnly => s.enabled) /\ g = s.file
    BY DEF Refs!Includes
  <2>2. \A s : s \in Refs!ToSet(ws[f].steps) <=> \E k \in DOMAIN ws[f].steps : s = r(k)
    BY DEF Refs!ToSet
  <2> HIDE DEF G
  <2> QED
    BY <2>1, <2>2
<1> QED
  BY <1>1, <1>2 DEF Refs!IsWorkspace

-----------------------------------------------------------------------------
(* The recursion of the loaders ends: the stack grows. *)

\* How many files are not on the stack.
Unread(stack) == Cardinality(Files \ stack)

\* The calls of a loader that have at most n files left.
Calls(n) == {x \in Files \X SUBSET Files : Unread(x[2]) <= n}

\* A file that is pushed is one less that is left.
LEMMA PushedFile ==
  ASSUME NEW stack \in SUBSET Files
  PROVE  /\ Unread(stack) \in Nat
         /\ \A f \in Files \ stack : Unread(stack \cup {f}) = Unread(stack) - 1
         /\ Unread(stack) = 0 => stack = Files
         /\ Unread(stack) <= Cardinality(Files)
<1>1. IsFiniteSet(Files \ stack) /\ IsFiniteSet(Files)
  BY WorkspacesAreFiles, FS_Difference
<1>2. Unread(stack) \in Nat /\ Cardinality(Files) \in Nat
  BY <1>1, FS_CardinalityType DEF Unread
<1>3. ASSUME NEW f \in Files \ stack
      PROVE  Unread(stack \cup {f}) = Unread(stack) - 1
  <2>1. Files \ (stack \cup {f}) = (Files \ stack) \ {f}
    OBVIOUS
  <2> QED
    BY <1>1, <2>1, FS_RemoveElement DEF Unread
<1>4. Unread(stack) = 0 => stack = Files
  <2>1. Unread(stack) = 0 => Files \ stack = {}
    BY <1>1, FS_EmptySet DEF Unread
  <2> QED
    BY <2>1
<1>5. Unread(stack) <= Cardinality(Files)
  BY <1>1, FS_Subset DEF Unread
<1> QED
  BY <1>2, <1>3, <1>4, <1>5

\* The file that is pushed before file f's reference to file g is followed: f by the
\* command line, g by the importable runtime.
Pushed(byCommandLine, f, g) == IF byCommandLine THEN f ELSE g

\* What file f gives to either of them.
Gives(byCommandLine, ws, f, stack, Load) ==
  IF byCommandLine THEN Refs!FileLoaded(ws, f, stack, Load) ELSE Refs!SourceLoaded(ws, f, stack, Load)

\* A loaded step is the step of the file.
LEMMA StepAt ==
  ASSUME NEW ws, Refs!IsWorkspace(ws), NEW f \in DOMAIN ws, NEW k \in DOMAIN ws[f].steps
  PROVE  LET s == Refs!At(ws[f].steps, k)
             r == ws[f].steps[k]
         IN  /\ s.name = r.name /\ s.file = r.file /\ s.enabled = r.enabled
             /\ s.enabled \in BOOLEAN /\ s.name \in STRING
             /\ r.name = "workflow_ref" => r.file \in Files
<1>1. ws[f].steps[k] \in Refs!WrittenSteps
  BY DEF Refs!IsWorkspace
<1> QED
  BY <1>1 DEF Refs!IsWorkspace, Refs!WrittenSteps, Refs!At

\* What a file gives depends on what the files give that are loaded below it.
LEMMA LoadedBelow ==
  ASSUME NEW byCommandLine \in BOOLEAN,
         NEW ws, Refs!IsWorkspace(ws), NEW f \in Files, NEW stack \in SUBSET Files, NEW K, NEW L,
         \A g \in Files : Pushed(byCommandLine, f, g) \notin stack =>
           K[<<g, stack \cup {Pushed(byCommandLine, f, g)}>>] = L[<<g, stack \cup {Pushed(byCommandLine, f, g)}>>]
  PROVE  Gives(byCommandLine, ws, f, stack, K) = Gives(byCommandLine, ws, f, stack, L)
<1> DEFINE steps == ws[f].steps
           Below(M) == [k \in DOMAIN steps |->
                          Refs!Expanded(ws, Refs!At(steps, k), k, M[<<steps[k].file, stack \cup {f}>>])]
           Part(M, s) == IF s.name # "workflow_ref" THEN Refs!Loaded(<<s>>)
                         ELSE IF s.file \in stack THEN Refs!LoadError
                         ELSE M[<<s.file, stack \cup {s.file}>>]
           Parts(M) == [k \in DOMAIN steps |-> Part(M, Refs!At(steps, k))]
<1>1. ASSUME byCommandLine, f \notin stack, f \in DOMAIN ws
      PROVE  Below(K) = Below(L)
  <2>1. ASSUME NEW k \in DOMAIN steps
        PROVE  Below(K)[k] = Below(L)[k]
    <3>1. CASE Refs!At(steps, k).name # "workflow_ref"
      BY <3>1 DEF Refs!Expanded
    <3>2. CASE Refs!At(steps, k).name = "workflow_ref"
      BY <1>1, <3>2, StepAt DEF Pushed
    <3> QED
      BY <3>1, <3>2
  <2> QED
    BY <2>1
<1>2. ASSUME ~byCommandLine, f \in DOMAIN ws
      PROVE  Parts(K) = Parts(L)
  <2>1. ASSUME NEW k \in DOMAIN steps
        PROVE  Part(K, Refs!At(steps, k)) = Part(L, Refs!At(steps, k))
    BY <1>2, StepAt DEF Pushed
  <2> QED
    BY <2>1
<1>3. \A M : Refs!FileLoaded(ws, f, stack, M) =
               IF f \in stack \/ f \notin DOMAIN ws \/ ws[f].steps = <<>> THEN Refs!LoadError
               ELSE Refs!Joined(Below(M))
  BY DEF Refs!FileLoaded
<1>4. \A M : Refs!SourceLoaded(ws, f, stack, M) =
               IF f \notin DOMAIN ws THEN Refs!LoadError ELSE Refs!Joined(Parts(M))
  BY DEF Refs!SourceLoaded
<1> HIDE DEF Below, Parts
<1> QED
  BY <1>1, <1>2, <1>3, <1>4 DEF Gives

\* So there is the function that either of them computes.
LEMMA LoadersExist ==
  ASSUME NEW byCommandLine \in BOOLEAN, NEW ws, Refs!IsWorkspace(ws)
  PROVE  \E L : L = [x \in Files \X SUBSET Files |-> Gives(byCommandLine, ws, x[1], x[2], L)]
<1> DEFINE F(x, L) == Gives(byCommandLine, ws, x[1], x[2], L)
           P(x, g) == Pushed(byCommandLine, x[1], g)
           Solves(n, L) == L = [x \in Calls(n) |-> F(x, L)]
           Extends(n, M, L) ==
             /\ M = [x \in Calls(n) |-> F(x, L)]
             /\ \A x \in Calls(n), g \in Files : P(x, g) \notin x[2] =>
                  M[<<g, x[2] \cup {P(x, g)}>>] = L[<<g, x[2] \cup {P(x, g)}>>]
           T == {n \in Nat : \E L : Solves(n, L)}
<1>1. ASSUME NEW n \in Nat, NEW M, NEW L, Extends(n, M, L)
      PROVE  Solves(n, M)
  <2>1. ASSUME NEW x \in Calls(n) PROVE F(x, L) = F(x, M)
    <3> DEFINE f == x[1]
               stack == x[2]
    <3>1. f \in Files /\ stack \in SUBSET Files
      BY DEF Calls
    <3>2. \A g \in Files : Pushed(byCommandLine, f, g) \notin stack =>
            M[<<g, stack \cup {Pushed(byCommandLine, f, g)}>>] = L[<<g, stack \cup {Pushed(byCommandLine, f, g)}>>]
      BY <1>1
    <3> HIDE DEF f, stack
    <3>3. Gives(byCommandLine, ws, f, stack, M) = Gives(byCommandLine, ws, f, stack, L)
      BY <3>1, <3>2, LoadedBelow
    <3> QED
      BY <3>3 DEF f, stack
  <2> QED
    BY <1>1, <2>1
<1>2. 0 \in T
  <2>1. \A x \in Calls(0), g \in Files : P(x, g) \in x[2]
    BY PushedFile DEF Calls, Pushed
  <2> DEFINE M == [x \in Calls(0) |-> F(x, <<>>)]
  <2>2. M = [x \in Calls(0) |-> F(x, <<>>)]
    OBVIOUS
  <2> HIDE DEF M
  <2>3. Extends(0, M, <<>>)
    BY <2>1, <2>2
  <2> HIDE DEF Extends, Solves
  <2>4. Solves(0, M)
    BY <1>1, <2>3
  <2> QED
    BY <2>4
<1>3. ASSUME NEW n \in Nat, n \in T PROVE n + 1 \in T
  <2>1. PICK L : Solves(n, L)
    BY <1>3
  <2> DEFINE M == [x \in Calls(n + 1) |-> F(x, L)]
  <2>2. M = [x \in Calls(n + 1) |-> F(x, L)] /\ n + 1 \in Nat
    OBVIOUS
  <2>3. Calls(n) \subseteq Calls(n + 1)
    BY PushedFile DEF Calls
  <2>4. ASSUME NEW x \in Calls(n + 1), NEW g \in Files, P(x, g) \notin x[2]
        PROVE  <<g, x[2] \cup {P(x, g)}>> \in Calls(n)
    <3>1. P(x, g) \in Files /\ x[2] \in SUBSET Files /\ Unread(x[2]) <= n + 1
      BY <2>4 DEF Calls, Pushed
    <3>2. Unread(x[2] \cup {P(x, g)}) = Unread(x[2]) - 1 /\ Unread(x[2]) \in Nat
      BY <2>4, <3>1, PushedFile
    <3> DEFINE t == x[2] \cup {P(x, g)}
    <3>3. t \in SUBSET Files /\ Unread(t) <= n
      BY <3>1, <3>2
    <3> HIDE DEF t
    <3>4. <<g, t>> \in Calls(n)
      BY <3>3 DEF Calls
    <3> QED
      BY <3>4 DEF t
  <2> HIDE DEF M
  <2>5. \A y \in Calls(n) : M[y] = L[y]
    BY <2>1, <2>2, <2>3
  <2>6. \A x \in Calls(n + 1), g \in Files : P(x, g) \notin x[2] =>
          M[<<g, x[2] \cup {P(x, g)}>>] = L[<<g, x[2] \cup {P(x, g)}>>]
    BY <2>4, <2>5
  <2>7. Extends(n + 1, M, L)
    BY <2>2, <2>6
  <2> HIDE DEF Extends, Solves
  <2>8. Solves(n + 1, M)
    BY <1>1, <2>2, <2>7
  <2> QED
    BY <2>8
<1> DEFINE c == Cardinality(Files)
<1>4. c \in Nat /\ Calls(c) = Files \X SUBSET Files
  BY PushedFile, WorkspacesAreFiles, FS_CardinalityType DEF Calls
<1> HIDE DEF T
<1>5. c \in T
  BY <1>2, <1>3, <1>4, SetInduction
<1> QED
  BY <1>4, <1>5 DEF T

-----------------------------------------------------------------------------
(* What is refused. *)

\* A file can be there at all.
Fits(byCommandLine, ws, f) == f \in DOMAIN ws /\ (byCommandLine => ws[f].steps # <<>>)

\* It is told whether a file is loaded.
LEMMA RefusedOrNot ==
  \A byCommandLine, ws, f, stack, L : Gives(byCommandLine, ws, f, stack, L).ok \in BOOLEAN
<1>1. \A parts : Refs!Joined(parts).ok \in BOOLEAN
  BY DEF Refs!Joined, Refs!LoadError, Refs!Loaded
<1>2. Refs!LoadError.ok \in BOOLEAN
  BY DEF Refs!LoadError
<1>3. \A ws, f, stack, L : Refs!FileLoaded(ws, f, stack, L).ok \in BOOLEAN
  BY <1>1, <1>2 DEF Refs!FileLoaded
<1>4. \A ws, f, stack, L : Refs!SourceLoaded(ws, f, stack, L).ok \in BOOLEAN
  BY <1>1, <1>2 DEF Refs!SourceLoaded
<1> QED
  BY <1>3, <1>4 DEF Gives

\* A file is refused for what it is, or for one that it includes.
LEMMA RefusedForOne ==
  ASSUME NEW byCommandLine \in BOOLEAN,
         NEW ws, Refs!IsWorkspace(ws), NEW f \in Files, NEW stack \in SUBSET Files, NEW L,
         \A x \in Files \X SUBSET Files : L[x].ok \in BOOLEAN
  PROVE  LET G == Refs!Includes(ws, byCommandLine)
             P(g) == Pushed(byCommandLine, f, g)
         IN  /\ Gives(byCommandLine, ws, f, stack, L).ok \in BOOLEAN
             /\ Gives(byCommandLine, ws, f, stack, L).ok <=>
                   /\ Fits(byCommandLine, ws, f) /\ (byCommandLine => f \notin stack)
                   /\ \A g \in G[f] : P(g) \notin stack /\ L[<<g, stack \cup {P(g)}>>].ok
<1> DEFINE steps == ws[f].steps
           Below == [k \in DOMAIN steps |->
                       Refs!Expanded(ws, Refs!At(steps, k), k, L[<<steps[k].file, stack \cup {f}>>])]
           Part(s) == IF s.name # "workflow_ref" THEN Refs!Loaded(<<s>>)
                      ELSE IF s.file \in stack THEN Refs!LoadError
                      ELSE L[<<s.file, stack \cup {s.file}>>]
           Parts == [k \in DOMAIN steps |-> Part(Refs!At(steps, k))]
           G == Refs!Includes(ws, byCommandLine)
<1>1. \A parts : /\ Refs!Joined(parts).ok \in BOOLEAN
                 /\ Refs!Joined(parts).ok <=> \A k \in DOMAIN parts : parts[k].ok
  BY DEF Refs!Joined, Refs!LoadError, Refs!Loaded
<1>2. ~Refs!LoadError.ok /\ (\A s : Refs!Loaded(s).ok) /\ Refs!LoadError.ok \in BOOLEAN
  BY DEF Refs!LoadError, Refs!Loaded
<1>3. ASSUME byCommandLine, f \notin stack, f \in DOMAIN ws, NEW k \in DOMAIN steps
      PROVE  Below[k].ok <=> (steps[k].name = "workflow_ref" /\ steps[k].enabled =>
                                L[<<steps[k].file, stack \cup {f}>>].ok)
  <2> DEFINE child == L[<<steps[k].file, stack \cup {f}>>]
             s == Refs!At(steps, k)
  <2>1. s.name = steps[k].name /\ s.enabled = steps[k].enabled
    BY <1>3, StepAt
  <2>2. Below[k] = Refs!Expanded(ws, s, k, child)
    OBVIOUS
  <2> HIDE DEF child, s, Below
  <2>3. Below[k].ok <=> (s.name = "workflow_ref" /\ s.enabled => child.ok)
    BY <1>2, <2>2 DEF Refs!Expanded
  <2> QED
    BY <2>1, <2>3 DEF child
<1>4. ASSUME ~byCommandLine, f \in DOMAIN ws, NEW k \in DOMAIN steps
      PROVE  Part(Refs!At(steps, k)).ok <=>
               (steps[k].name = "workflow_ref" =>
                  steps[k].file \notin stack /\ L[<<steps[k].file, stack \cup {steps[k].file}>>].ok)
  <2> DEFINE child(g) == L[<<g, stack \cup {g}>>]
             s == Refs!At(steps, k)
  <2>1. s.name = steps[k].name /\ s.file = steps[k].file
    BY <1>4, StepAt
  <2>2. Part(s) = IF s.name # "workflow_ref" THEN Refs!Loaded(<<s>>)
                  ELSE IF s.file \in stack THEN Refs!LoadError ELSE child(s.file)
    OBVIOUS
  <2> HIDE DEF child, s, Part
  <2>3. Part(s).ok <=> (s.name = "workflow_ref" => s.file \notin stack /\ child(s.file).ok)
    BY <1>2, <2>2
  <2> QED
    BY <2>1, <2>3 DEF child, s
<1>5. Refs!FileLoaded(ws, f, stack, L) =
        IF f \in stack \/ f \notin DOMAIN ws \/ ws[f].steps = <<>> THEN Refs!LoadError
        ELSE Refs!Joined(Below)
  BY DEF Refs!FileLoaded
<1>6. Refs!SourceLoaded(ws, f, stack, L) =
        IF f \notin DOMAIN ws THEN Refs!LoadError ELSE Refs!Joined(Parts)
  BY DEF Refs!SourceLoaded
<1>7. f \in DOMAIN ws => \A g : g \in G[f] <=>
        \E k \in DOMAIN steps :
          /\ steps[k].name = "workflow_ref" /\ steps[k].file = g
          /\ byCommandLine => steps[k].enabled
  BY IncludedFiles
<1>8. DOMAIN Below = DOMAIN steps /\ DOMAIN Parts = DOMAIN steps
      /\ \A k \in DOMAIN steps : Parts[k] = Part(Refs!At(steps, k))
  OBVIOUS
<1> HIDE DEF Below, Part, Parts, G
<1>9. CASE byCommandLine
  <2>1. CASE f \in stack \/ f \notin DOMAIN ws \/ ws[f].steps = <<>>
    BY <1>2, <1>5, <1>9, <2>1 DEF Gives, Fits
  <2>2. CASE ~(f \in stack \/ f \notin DOMAIN ws \/ ws[f].steps = <<>>)
    <3>1. Refs!FileLoaded(ws, f, stack, L).ok \in BOOLEAN
          /\ (Refs!FileLoaded(ws, f, stack, L).ok <=> \A k \in DOMAIN steps : Below[k].ok)
      BY <1>1, <1>5, <1>8, <2>2
    <3>2. (\A k \in DOMAIN steps : Below[k].ok) <=> \A g \in G[f] : L[<<g, stack \cup {f}>>].ok
      BY <1>3, <1>7, <1>9, <2>2
    <3> QED
      BY <3>1, <3>2, <1>9, <2>2 DEF Gives, Fits, Pushed, G
  <2> QED
    BY <2>1, <2>2
<1>10. CASE ~byCommandLine
  <2>1. CASE f \notin DOMAIN ws
    BY <1>2, <1>6, <1>10, <2>1 DEF Gives, Fits
  <2>2. CASE f \in DOMAIN ws
    <3>1. Refs!SourceLoaded(ws, f, stack, L).ok \in BOOLEAN
          /\ (Refs!SourceLoaded(ws, f, stack, L).ok <=> \A k \in DOMAIN steps : Parts[k].ok)
      BY <1>1, <1>6, <1>8, <2>2
    <3> DEFINE Good(g) == g \notin stack /\ L[<<g, stack \cup {g}>>].ok
    <3>2. \A k \in DOMAIN steps : Parts[k].ok <=> (steps[k].name = "workflow_ref" => Good(steps[k].file))
      BY <1>4, <1>8, <1>10, <2>2
    <3>3. \A g : g \in G[f] <=> \E k \in DOMAIN steps : steps[k].name = "workflow_ref" /\ steps[k].file = g
      BY <1>7, <1>10, <2>2
    <3> HIDE DEF Good
    <3>4. (\A k \in DOMAIN steps : Parts[k].ok) <=> \A g \in G[f] : Good(g)
      BY <3>2, <3>3
    <3> QED
      BY <3>1, <3>4, <1>10, <2>2 DEF Gives, Fits, Pushed, G, Good
  <2> QED
    BY <2>1, <2>2
<1> QED
  BY <1>9, <1>10

\* By the stack, what is refused is what leads to a file that does not fit, that
\* leads to itself, or that is on the stack.
LEMMA RefusedForCycles ==
  ASSUME NEW byCommandLine \in BOOLEAN, NEW ws, Refs!IsWorkspace(ws),
         NEW L, L = [x \in Files \X SUBSET Files |-> Gives(byCommandLine, ws, x[1], x[2], L)]
  PROVE  LET R(f) == Refs!Reached(Refs!Includes(ws, byCommandLine), f)
         IN  \A f \in Files, stack \in SUBSET Files :
               L[<<f, stack>>].ok <=>
                 \A g \in {f} \cup R(f) :
                   /\ Fits(byCommandLine, ws, g) /\ g \notin R(g)
                   /\ byCommandLine \/ g \in R(f) => g \notin stack
<1> DEFINE G == Refs!Includes(ws, byCommandLine)
           R(f) == Refs!Reached(G, f)
           P(f, g) == Pushed(byCommandLine, f, g)
           Sound(g) == Fits(byCommandLine, ws, g) /\ g \notin R(g)
           Right(f, stack) ==
             \A g \in {f} \cup R(f) : Sound(g) /\ (byCommandLine \/ g \in R(f) => g \notin stack)
           T == {n \in Nat : \A f \in Files, stack \in SUBSET Files :
                               Unread(stack) <= n => (L[<<f, stack>>].ok <=> Right(f, stack))}
<1>1. \A x \in Files \X SUBSET Files : L[x].ok \in BOOLEAN
  BY RefusedOrNot
<1>2. ASSUME NEW f \in Files, NEW stack \in SUBSET Files
      PROVE  L[<<f, stack>>].ok <=>
               /\ Fits(byCommandLine, ws, f) /\ (byCommandLine => f \notin stack)
               /\ \A g \in G[f] : P(f, g) \notin stack /\ L[<<g, stack \cup {P(f, g)}>>].ok
  <2>1. L[<<f, stack>>] = Gives(byCommandLine, ws, f, stack, L)
    OBVIOUS
  <2>2. Gives(byCommandLine, ws, f, stack, L).ok <=>
          /\ Fits(byCommandLine, ws, f) /\ (byCommandLine => f \notin stack)
          /\ \A g \in Refs!Includes(ws, byCommandLine)[f] :
               /\ Pushed(byCommandLine, f, g) \notin stack
               /\ L[<<g, stack \cup {Pushed(byCommandLine, f, g)}>>].ok
    BY <1>1, RefusedForOne
  <2> QED
    BY <2>1, <2>2, Zenon
<1>3. /\ DOMAIN G = DOMAIN ws
      /\ \A f \in DOMAIN ws : G[f] \subseteq Files
  BY IncludedFiles
<1>4. \A f : f \in DOMAIN ws => \A h : h \in R(f) <=> \E g \in G[f] : h = g \/ h \in R(g)
  BY <1>3, ReachedThrough
<1>5. \A f : R(f) \subseteq Files
  BY <1>3, ReachedIsLeast
<1> HIDE DEF G, R
<1>6. ASSUME NEW f \in DOMAIN ws, NEW stack \in SUBSET Files,
             Fits(byCommandLine, ws, f), byCommandLine => f \notin stack,
             \A g \in G[f] : P(f, g) \notin stack =>
               (L[<<g, stack \cup {P(f, g)}>>].ok <=> Right(g, stack \cup {P(f, g)}))
      PROVE  (\A g \in G[f] : P(f, g) \notin stack /\ L[<<g, stack \cup {P(f, g)}>>].ok) <=> Right(f, stack)
  <2>1. ASSUME \A g \in G[f] : P(f, g) \notin stack /\ Right(g, stack \cup {P(f, g)})
        PROVE  Right(f, stack)
    <3>1. ASSUME NEW h \in R(f)
          PROVE  Sound(h) /\ h \notin stack /\ (byCommandLine => h # f)
      <4>1. PICK g \in G[f] : h = g \/ h \in R(g)
        BY <1>4, <3>1
      <4> QED
        BY <2>1, <4>1 DEF Pushed
    <3>2. f \notin R(f)
      BY <3>1
    <3> QED
      BY <1>6, <3>1, <3>2
  <2>2. ASSUME Right(f, stack), NEW g \in G[f]
        PROVE  P(f, g) \notin stack /\ Right(g, stack \cup {P(f, g)})
    <3>1. g \in R(f) /\ R(g) \subseteq R(f)
      BY <1>4, <2>2
    <3>2. P(f, g) \notin stack
      BY <1>6, <2>2, <3>1 DEF Pushed
    <3>3. ASSUME NEW h \in {g} \cup R(g)
          PROVE  Sound(h) /\ h \notin stack
      BY <2>2, <3>1, <3>3
    <3>4. f \notin R(f) /\ g \notin R(g)
      BY <2>2, <3>1
    <3> QED
      BY <3>1, <3>2, <3>3, <3>4 DEF Pushed
  <2> HIDE DEF Right, P
  <2> QED
    BY <1>6, <2>1, <2>2
<1>7. ASSUME NEW f \in Files, NEW stack \in SUBSET Files,
             ~Fits(byCommandLine, ws, f) \/ (byCommandLine /\ f \in stack)
      PROVE  ~Right(f, stack)
  BY <1>7
<1> HIDE DEF Right, P
<1>8. ASSUME NEW f \in Files, NEW stack \in SUBSET Files,
             f \in DOMAIN ws => \A g \in G[f] : P(f, g) \notin stack =>
               (L[<<g, stack \cup {P(f, g)}>>].ok <=> Right(g, stack \cup {P(f, g)}))
      PROVE  L[<<f, stack>>].ok <=> Right(f, stack)
  <2>1. CASE ~Fits(byCommandLine, ws, f) \/ (byCommandLine /\ f \in stack)
    BY <1>2, <1>7, <2>1
  <2>2. CASE Fits(byCommandLine, ws, f) /\ (byCommandLine => f \notin stack)
    <3>1. f \in DOMAIN ws
      BY <2>2 DEF Fits
    <3> QED
      BY <1>2, <1>6, <1>8, <2>2, <3>1
  <2> QED
    BY <2>1, <2>2
<1>9. ASSUME NEW f \in Files, NEW stack \in SUBSET Files, NEW g \in Files, P(f, g) \notin stack
      PROVE  Unread(stack \cup {P(f, g)}) = Unread(stack) - 1 /\ stack \cup {P(f, g)} \in SUBSET Files
  BY <1>9, PushedFile DEF P, Pushed
<1>10. \A stack \in SUBSET Files :
         Unread(stack) \in Nat /\ Unread(stack) <= Cardinality(Files) /\ (Unread(stack) = 0 => stack = Files)
  BY PushedFile
<1>11. 0 \in T
  <2>1. ASSUME NEW f \in Files, NEW stack \in SUBSET Files, Unread(stack) <= 0
        PROVE  L[<<f, stack>>].ok <=> Right(f, stack)
    <3>1. stack = Files
      BY <1>10, <2>1
    <3>2. f \in DOMAIN ws => \A g \in G[f] : P(f, g) \in stack
      BY <1>3, <3>1 DEF P, Pushed
    <3> QED
      BY <1>8, <3>2
  <2> QED
    BY <2>1
<1>12. ASSUME NEW n \in Nat, n \in T PROVE n + 1 \in T
  <2>1. ASSUME NEW f \in Files, NEW stack \in SUBSET Files, Unread(stack) <= n + 1
        PROVE  L[<<f, stack>>].ok <=> Right(f, stack)
    <3>1. ASSUME f \in DOMAIN ws, NEW g \in G[f], P(f, g) \notin stack
          PROVE  L[<<g, stack \cup {P(f, g)}>>].ok <=> Right(g, stack \cup {P(f, g)})
      <4> DEFINE t == stack \cup {P(f, g)}
      <4>1. g \in Files
        BY <1>3, <3>1
      <4>2. t \in SUBSET Files /\ Unread(t) <= n
        BY <1>9, <1>10, <2>1, <3>1, <4>1
      <4> HIDE DEF t
      <4>3. L[<<g, t>>].ok <=> Right(g, t)
        BY <1>12, <4>1, <4>2
      <4> QED
        BY <4>3 DEF t
    <3> QED
      BY <1>8, <3>1
  <2>2. n + 1 \in Nat
    OBVIOUS
  <2> HIDE DEF Right
  <2> QED
    BY <2>1, <2>2, Zenon
<1>13. Cardinality(Files) \in Nat
  BY WorkspacesAreFiles, FS_CardinalityType
<1> HIDE DEF T
<1>14. Cardinality(Files) \in T
  BY <1>11, <1>12, <1>13, SetInduction
<1>15. \A f \in Files, stack \in SUBSET Files : L[<<f, stack>>].ok <=> Right(f, stack)
  BY <1>10, <1>14 DEF T
<1> QED
  BY <1>15 DEF Right, R, G

\* So the loaders refuse what cannot be loaded, and nothing else.
LEMMA CyclesRefused ==
  ASSUME NEW ws, Refs!IsWorkspace(ws)
  PROVE  Refs!CyclesAreRefusedIn(ws, "main")
<1>1. ASSUME NEW byCommandLine \in BOOLEAN,
             NEW L, L = [x \in Files \X SUBSET Files |-> Gives(byCommandLine, ws, x[1], x[2], L)]
      PROVE  L[<<"main", {}>>].ok <=> Refs!Loadable(ws, "main", byCommandLine)
  <2>1. "main" \in Files /\ {} \in SUBSET Files
    BY WorkspacesAreFiles
  <2> DEFINE G == Refs!Includes(ws, byCommandLine)
             m == "main"
  <2>2. L[<<m, {}>>].ok <=>
          \A g \in {m} \cup Refs!Reached(G, m) : Fits(byCommandLine, ws, g) /\ g \notin Refs!Reached(G, g)
    BY <1>1, <2>1, RefusedForCycles
  <2> QED
    BY <2>2 DEF Refs!Loadable, Fits
<1>2. Refs!LoadFile(ws, "main").ok <=> Refs!Loadable(ws, "main", TRUE)
  <2> DEFINE L == CHOOSE L : L = [x \in Files \X SUBSET Files |-> Refs!FileLoaded(ws, x[1], x[2], L)]
  <2>1. \E L1 : L1 = [x \in Files \X SUBSET Files |-> Gives(TRUE, ws, x[1], x[2], L1)]
    BY LoadersExist
  <2>2. L = [x \in Files \X SUBSET Files |-> Gives(TRUE, ws, x[1], x[2], L)]
    BY <2>1 DEF Gives
  <2>3. Refs!LoadFile(ws, "main") = L[<<"main", {}>>]
    BY DEF Refs!LoadFile
  <2> HIDE DEF L
  <2> QED
    BY <1>1, <2>2, <2>3
<1>3. Refs!LoadSource(ws, "main").ok <=> Refs!Loadable(ws, "main", FALSE)
  <2> DEFINE L == CHOOSE L : L = [x \in Files \X SUBSET Files |-> Refs!SourceLoaded(ws, x[1], x[2], L)]
  <2>1. \E L1 : L1 = [x \in Files \X SUBSET Files |-> Gives(FALSE, ws, x[1], x[2], L1)]
    BY LoadersExist
  <2>2. L = [x \in Files \X SUBSET Files |-> Gives(FALSE, ws, x[1], x[2], L)]
    BY <2>1 DEF Gives
  <2>3. Refs!LoadSource(ws, "main") = L[<<"main", {}>>]
    BY DEF Refs!LoadSource
  <2> HIDE DEF L
  <2> QED
    BY <1>1, <2>2, <2>3
<1> QED
  BY <1>2, <1>3 DEF Refs!CyclesAreRefusedIn

\* Composition ends and refuses circles, missing files and empty ones, and nothing
\* else, for every workspace, both by the command line and by the importable runtime.
THEOREM CircularFilesAreRefused == Spec => []CyclesAreRefused
<1>1. ASSUME NEW ws \in Of("workflow") PROVE Refs!CyclesAreRefusedIn(ws, "main")
  BY WorkspacesAreFiles, CyclesRefused
<1>2. ChosenInput => CyclesAreRefused
  BY <1>1 DEF ChosenInput, CyclesAreRefused
<1> QED
  BY <1>2, InputIsChosen, PTL

-----------------------------------------------------------------------------
(* Sequences of steps. *)

\* A sequence of whatever it holds.
IsSeq(s) == s \in Seq({s[i] : i \in DOMAIN s})

\* It is defined on the first naturals, and is one of whatever set it is in.
LEMMA SequencesAreSuch ==
  /\ \A S, s : s \in Seq(S) => IsSeq(s)
  /\ \A s : IsSeq(s) => Len(s) \in Nat /\ DOMAIN s = 1..Len(s)
  /\ \A S, s : IsSeq(s) /\ (\A i \in DOMAIN s : s[i] \in S) => s \in Seq(S)
<1>1. ASSUME NEW S, NEW s \in Seq(S) PROVE IsSeq(s)
  BY <1>1 DEF IsSeq
<1>2. ASSUME NEW s, IsSeq(s) PROVE Len(s) \in Nat /\ DOMAIN s = 1..Len(s)
  BY <1>2 DEF IsSeq
<1>3. ASSUME NEW S, NEW s, IsSeq(s), \A i \in DOMAIN s : s[i] \in S PROVE s \in Seq(S)
  BY <1>3 DEF IsSeq
<1> QED
  BY <1>1, <1>2, <1>3

\* A function on the first naturals is a sequence.
LEMMA FunctionsAreSequences ==
  ASSUME NEW n \in Nat, NEW s, s = [i \in 1..n |-> s[i]]
  PROVE  IsSeq(s) /\ Len(s) = n /\ DOMAIN s = 1..n
BY DEF IsSeq

\* The concatenation of two sequences holds what they hold.
LEMMA Concatenated ==
  ASSUME NEW s, NEW t, IsSeq(s), IsSeq(t)
  PROVE  /\ IsSeq(s \o t) /\ Len(s \o t) = Len(s) + Len(t)
         /\ \A i \in DOMAIN (s \o t) : \/ i \in DOMAIN s /\ (s \o t)[i] = s[i]
                                       \/ i - Len(s) \in DOMAIN t /\ (s \o t)[i] = t[i - Len(s)]
<1> DEFINE S == {s[i] : i \in DOMAIN s} \cup {t[i] : i \in DOMAIN t}
<1>1. s \in Seq(S) /\ t \in Seq(S)
  BY SequencesAreSuch
<1> HIDE DEF S
<1>2. s \o t \in Seq(S)
  BY <1>1
<1>3. IsSeq(s \o t)
  BY <1>2, SequencesAreSuch
<1> QED
  BY <1>1, <1>2, <1>3

\* Where two sequences are in their concatenation.
Joint(u, s, t) ==
  /\ IsSeq(u) /\ Len(u) = Len(s) + Len(t)
  /\ \A i \in DOMAIN s : i \in DOMAIN u /\ u[i] = s[i]
  /\ \A j \in DOMAIN t : Len(s) + j \in DOMAIN u /\ u[Len(s) + j] = t[j]
  /\ \A i \in DOMAIN u : \/ i \in DOMAIN s /\ u[i] = s[i]
                         \/ i - Len(s) \in DOMAIN t /\ u[i] = t[i - Len(s)]

LEMMA JoinedAt ==
  ASSUME NEW s, NEW t, IsSeq(s), IsSeq(t)
  PROVE  Joint(s \o t, s, t)
<1> DEFINE u == s \o t
<1>1. /\ IsSeq(u) /\ Len(u) = Len(s) + Len(t)
      /\ \A i \in DOMAIN u : \/ i \in DOMAIN s /\ u[i] = s[i]
                             \/ i - Len(s) \in DOMAIN t /\ u[i] = t[i - Len(s)]
  BY Concatenated
<1> HIDE DEF u
<1>2. /\ Len(s) \in Nat /\ DOMAIN s = 1..Len(s) /\ Len(t) \in Nat /\ DOMAIN t = 1..Len(t)
      /\ DOMAIN u = 1..Len(u)
  BY <1>1, SequencesAreSuch
<1>3. \A i \in DOMAIN s : i \in DOMAIN u /\ u[i] = s[i]
  BY <1>1, <1>2
<1>4. ASSUME NEW j \in DOMAIN t PROVE Len(s) + j \in DOMAIN u /\ u[Len(s) + j] = t[j]
  <2>1. Len(s) + j \in DOMAIN u /\ Len(s) + j \notin DOMAIN s /\ (Len(s) + j) - Len(s) = j
    BY <1>1, <1>2
  <2> QED
    BY <1>1, <2>1
<1> QED
  BY <1>1, <1>3, <1>4 DEF u, Joint

\* The concatenations of the first parts, as FlattenSeq makes them.
Joins(parts, n, F) == F = [i \in 1..n |-> IF i = 1 THEN parts[i] ELSE F[i - 1] \o parts[i]]

LEMMA JoinsExist ==
  ASSUME NEW parts
  PROVE  \A n \in Nat : \E F : Joins(parts, n, F)
<1> DEFINE T == {m \in Nat : \E F : Joins(parts, m, F)}
<1>1. 0 \in T
  <2> DEFINE F == [i \in 1..0 |-> <<>>]
  <2>1. F = [i \in 1..0 |-> IF i = 1 THEN parts[i] ELSE F[i - 1] \o parts[i]]
    OBVIOUS
  <2> HIDE DEF F
  <2> QED
    BY <2>1 DEF Joins
<1>2. ASSUME NEW m \in Nat, m \in T PROVE m + 1 \in T
  <2>1. PICK F : Joins(parts, m, F)
    BY <1>2
  <2> DEFINE G == [i \in 1..(m + 1) |-> IF i = 1 THEN parts[i] ELSE F[i - 1] \o parts[i]]
  <2>2. G = [i \in 1..(m + 1) |-> IF i = 1 THEN parts[i] ELSE F[i - 1] \o parts[i]]
    OBVIOUS
  <2> HIDE DEF G
  <2>3. \A i \in 1..m : G[i] = F[i]
    <3>1. ASSUME NEW i \in 1..m PROVE G[i] = F[i]
      <4>1. i \in 1..(m + 1)
        OBVIOUS
      <4>2. G[i] = IF i = 1 THEN parts[i] ELSE F[i - 1] \o parts[i]
        BY <2>2, <4>1
      <4>3. F[i] = IF i = 1 THEN parts[i] ELSE F[i - 1] \o parts[i]
        BY <2>1 DEF Joins
      <4> QED
        BY <4>2, <4>3
    <3> QED
      BY <3>1
  <2>4. \A i \in 1..(m + 1) : i # 1 => i - 1 \in 1..m
    OBVIOUS
  <2>5. Joins(parts, m + 1, G)
    BY <2>2, <2>3, <2>4 DEF Joins
  <2> QED
    BY <2>5
<1> HIDE DEF T
<1>3. \A m \in Nat : m \in T
  BY <1>1, <1>2, SetInduction
<1> QED
  BY <1>3 DEF T

\* Where the first n parts are in what is put together of them.
Places(parts, n, s, off) ==
  /\ IsSeq(s) /\ off \in [1..n -> Nat]
  /\ \A k \in 1..n : off[k] + Len(parts[k]) <= Len(s)
  /\ \A k \in 1..n : \A j \in DOMAIN parts[k] : s[off[k] + j] = parts[k][j]
  /\ \A k, l \in 1..n : k < l => off[k] + Len(parts[k]) <= off[l]
  /\ \A i \in DOMAIN s : \E k \in 1..n : \E j \in DOMAIN parts[k] : i = off[k] + j

\* A part more goes behind the others.
LEMMA PlacedBehind ==
  ASSUME NEW parts, NEW n \in Nat, \A k \in 1..(n + 1) : IsSeq(parts[k]),
         NEW s, NEW off, Places(parts, n, s, off)
  PROVE  \E o : Places(parts, n + 1, s \o parts[n + 1], o)
<1> DEFINE t == parts[n + 1]
           o == [k \in 1..(n + 1) |-> IF k <= n THEN off[k] ELSE Len(s)]
           u == s \o t
<1>1. IsSeq(s) /\ IsSeq(t) /\ n + 1 \in 1..(n + 1)
  BY DEF Places
<1> HIDE DEF t
<1>2. /\ IsSeq(u) /\ Len(u) = Len(s) + Len(t)
      /\ \A i \in DOMAIN u : \/ i \in DOMAIN s /\ u[i] = s[i]
                             \/ i - Len(s) \in DOMAIN t /\ u[i] = t[i - Len(s)]
  BY <1>1, Concatenated
<1>3. /\ Len(s) \in Nat /\ DOMAIN s = 1..Len(s) /\ Len(t) \in Nat /\ DOMAIN t = 1..Len(t)
      /\ DOMAIN u = 1..Len(u)
  BY <1>1, <1>2, SequencesAreSuch
<1> HIDE DEF u
<1>4. \A k \in 1..n : Len(parts[k]) \in Nat /\ DOMAIN parts[k] = 1..Len(parts[k]) /\ k \in 1..(n + 1)
  BY SequencesAreSuch
<1>5. /\ off \in [1..n -> Nat]
      /\ \A k \in 1..n : off[k] + Len(parts[k]) <= Len(s)
      /\ \A k \in 1..n : \A j \in DOMAIN parts[k] : s[off[k] + j] = parts[k][j]
      /\ \A k, l \in 1..n : k < l => off[k] + Len(parts[k]) <= off[l]
      /\ \A i \in DOMAIN s : \E k \in 1..n : \E j \in DOMAIN parts[k] : i = off[k] + j
  BY DEF Places
<1>6. /\ \A k \in 1..n : o[k] = off[k]
      /\ o[n + 1] = Len(s) /\ parts[n + 1] = t
      /\ o \in [1..(n + 1) -> Nat]
  BY <1>3, <1>5 DEF t
<1> HIDE DEF o
<1>7. \A k \in 1..(n + 1) : k \in 1..n \/ k = n + 1
  OBVIOUS
<1>8. \A i \in 1..Len(s) : i \in DOMAIN u /\ u[i] = s[i]
  BY <1>2, <1>3
<1>9. \A j \in DOMAIN t : Len(s) + j \in DOMAIN u /\ u[Len(s) + j] = t[j]
  <2>1. ASSUME NEW j \in DOMAIN t PROVE Len(s) + j \in DOMAIN u /\ u[Len(s) + j] = t[j]
    <3>1. Len(s) + j \in DOMAIN u /\ Len(s) + j \notin DOMAIN s /\ (Len(s) + j) - Len(s) = j
      BY <1>2, <1>3
    <3> QED
      BY <1>2, <3>1
  <2> QED
    BY <2>1
<1>10. ASSUME NEW k \in 1..(n + 1) PROVE o[k] + Len(parts[k]) <= Len(u)
  <2>1. CASE k = n + 1
    <3>1. o[k] + Len(parts[k]) = Len(s) + Len(t)
      BY <1>6, <2>1
    <3> QED
      BY <1>2, <1>3, <3>1
  <2>2. CASE k \in 1..n
    <3>1. o[k] + Len(parts[k]) <= Len(s) /\ o[k] \in Nat /\ Len(parts[k]) \in Nat
      BY <1>4, <1>5, <1>6, <2>2
    <3> QED
      BY <1>2, <1>3, <3>1
  <2> QED
    BY <1>7, <2>1, <2>2
<1>11. ASSUME NEW k \in 1..(n + 1), NEW j \in DOMAIN parts[k] PROVE u[o[k] + j] = parts[k][j]
  <2>1. CASE k = n + 1
    BY <1>6, <1>9, <2>1
  <2>2. CASE k \in 1..n
    <3>1. off[k] + j \in 1..Len(s) /\ s[off[k] + j] = parts[k][j]
      <4>1. j \in 1..Len(parts[k]) /\ Len(parts[k]) \in Nat
        BY <1>4, <2>2
      <4>2. off[k] \in Nat /\ off[k] + Len(parts[k]) <= Len(s)
        BY <1>5, <2>2
      <4>3. off[k] + j \in 1..Len(s)
        <5> DEFINE a == off[k]
                   b == Len(parts[k])
                   c == Len(s)
        <5>1. a \in Nat /\ b \in Nat /\ c \in Nat /\ a + b <= c /\ j \in 1..b
          BY <1>3, <4>1, <4>2
        <5> HIDE DEF a, b, c
        <5>2. a + j \in 1..c
          BY <5>1
        <5> QED
          BY <5>2 DEF a, c
      <4>4. s[off[k] + j] = parts[k][j]
        BY <1>5, <2>2
      <4> QED
        BY <4>3, <4>4
    <3> QED
      BY <1>6, <1>8, <2>2, <3>1
  <2> QED
    BY <1>7, <2>1, <2>2
<1>12. ASSUME NEW k \in 1..(n + 1), NEW l \in 1..(n + 1), k < l PROVE o[k] + Len(parts[k]) <= o[l]
  <2>1. k \in 1..n
    BY <1>7, <1>12
  <2>2. CASE l = n + 1
    BY <1>5, <1>6, <2>1, <2>2
  <2>3. CASE l \in 1..n
    BY <1>5, <1>6, <1>12, <2>1, <2>3
  <2> QED
    BY <1>7, <2>2, <2>3
<1>13. ASSUME NEW i \in DOMAIN u PROVE \E k \in 1..(n + 1) : \E j \in DOMAIN parts[k] : i = o[k] + j
  <2>1. CASE i \in DOMAIN s
    <3>0. PICK k \in 1..n : \E j \in DOMAIN parts[k] : i = off[k] + j
      BY <1>5, <2>1
    <3>1. PICK j \in DOMAIN parts[k] : i = off[k] + j
      BY <3>0
    <3>2. k \in 1..(n + 1) /\ i = o[k] + j
      BY <1>4, <1>6, <3>1
    <3> QED
      BY <3>2
  <2>2. CASE i \notin DOMAIN s
    <3> DEFINE j == i - Len(s)
    <3>1. j \in DOMAIN t /\ i = Len(s) + j
      BY <1>2, <1>3, <2>2
    <3> HIDE DEF j
    <3>2. j \in DOMAIN parts[n + 1] /\ i = o[n + 1] + j
      BY <1>6, <3>1
    <3> QED
      BY <1>1, <3>2
  <2> QED
    BY <2>1, <2>2
<1>14. Places(parts, n + 1, u, o)
  BY <1>2, <1>6, <1>10, <1>11, <1>12, <1>13 DEF Places
<1> QED
  BY <1>14 DEF u, t

\* What is put together of sequences holds them one behind the other.
LEMMA FlattenedPlaces ==
  ASSUME NEW parts, IsSeq(parts), \A k \in DOMAIN parts : IsSeq(parts[k])
  PROVE  \E off : Places(parts, Len(parts), Refs!FlattenSeq(parts), off)
<1> DEFINE n == Len(parts)
           flat == Refs!FlattenSeq(parts)
<1>1. n \in Nat /\ DOMAIN parts = 1..n
  BY SequencesAreSuch
<1>2. CASE n = 0
  <2>1. flat = parts /\ DOMAIN parts = {} /\ 1..n = {}
    BY <1>1, <1>2 DEF Refs!FlattenSeq
  <2> DEFINE off == [k \in 1..n |-> 0]
  <2>2. off \in [1..n -> Nat]
    OBVIOUS
  <2> HIDE DEF n, flat, off
  <2>3. Places(parts, n, flat, off)
    BY <2>1, <2>2 DEF Places
  <2> QED
    BY <2>3 DEF n, flat
<1>3. CASE n # 0
  <2> DEFINE F == CHOOSE F : Joins(parts, n, F)
             U == {m \in Nat : m + 1 <= n => \E off : Places(parts, m + 1, F[m + 1], off)}
  <2>1. Joins(parts, n, F)
    BY <1>1, JoinsExist
  <2>2. flat = F[n]
    BY <1>3 DEF Refs!FlattenSeq, Joins
  <2> HIDE DEF F, n, flat
  <2>3. 0 \in U
    <3>1. F[1] = parts[1] /\ 1 \in DOMAIN parts
      BY <1>1, <1>3, <2>1 DEF Joins
    <3>2. IsSeq(parts[1]) /\ Len(parts[1]) \in Nat /\ DOMAIN parts[1] = 1..Len(parts[1])
      BY <3>1, SequencesAreSuch
    <3> DEFINE off == [k \in 1..1 |-> 0]
    <3>3. off \in [1..1 -> Nat] /\ off[1] = 0
      OBVIOUS
    <3>4. \A k \in 1..1 : k = 1
      OBVIOUS
    <3> HIDE DEF off
    <3>7. \A k \in 1..1 : off[k] + Len(parts[k]) <= Len(parts[1])
      BY <3>2, <3>3, <3>4
    <3>8. \A k \in 1..1 : \A j \in DOMAIN parts[k] : parts[1][off[k] + j] = parts[k][j]
      BY <3>2, <3>3, <3>4
    <3>9. \A k, l \in 1..1 : k < l => off[k] + Len(parts[k]) <= off[l]
      BY <3>4
    <3>10. \A i \in DOMAIN parts[1] : \E k \in 1..1 : \E j \in DOMAIN parts[k] : i = off[k] + j
      <4>1. ASSUME NEW i \in DOMAIN parts[1] PROVE \E k \in 1..1 : \E j \in DOMAIN parts[k] : i = off[k] + j
        <5>1. 1 \in 1..1 /\ i = off[1] + i
          BY <3>2, <3>3
        <5> QED
          BY <5>1
      <4> QED
        BY <4>1
    <3>5. Places(parts, 1, parts[1], off)
      BY <3>2, <3>3, <3>7, <3>8, <3>9, <3>10 DEF Places
    <3>6. 0 + 1 = 1
      OBVIOUS
    <3> QED
      BY <3>1, <3>5, <3>6
  <2>4. ASSUME NEW m \in Nat, m \in U PROVE m + 1 \in U
    <3> SUFFICES ASSUME m + 2 <= n PROVE \E off : Places(parts, m + 2, F[m + 2], off)
      <4>1. (m + 1) + 1 = m + 2
        OBVIOUS
      <4> QED
        BY <4>1
    <3>1. m + 2 \in 1..n /\ m + 2 # 1 /\ (m + 2) - 1 = m + 1 /\ m + 1 <= n
      BY <1>1
    <3>2. F[m + 2] = F[m + 1] \o parts[m + 2]
      BY <2>1, <3>1 DEF Joins
    <3>3. PICK off : Places(parts, m + 1, F[m + 1], off)
      BY <2>4, <3>1
    <3> DEFINE l == m + 1
               s == F[m + 1]
    <3>4. l \in Nat /\ \A k \in 1..(l + 1) : IsSeq(parts[k])
      BY <1>1, <3>1
    <3>5. Places(parts, l, s, off)
      BY <3>3
    <3>6. F[m + 2] = s \o parts[l + 1] /\ m + 2 = l + 1
      <4>1. m + 2 = l + 1
        OBVIOUS
      <4> HIDE DEF l
      <4> QED
        BY <3>2, <4>1 DEF l
    <3> HIDE DEF l, s
    <3>7. \E o : Places(parts, l + 1, s \o parts[l + 1], o)
      BY <3>4, <3>5, PlacedBehind
    <3> QED
      BY <3>6, <3>7
  <2> HIDE DEF U
  <2>5. n - 1 \in U
    BY <1>1, <1>3, <2>3, <2>4, SetInduction
  <2>6. \E off : Places(parts, n, F[n], off)
    BY <1>1, <1>3, <2>5 DEF U
  <2> QED
    BY <2>2, <2>6 DEF n, flat
<1> QED
  BY <1>2, <1>3

\* A sequence that is put together of sequences holds what they hold.
LEMMA Flattened ==
  ASSUME NEW parts, IsSeq(parts), \A k \in DOMAIN parts : IsSeq(parts[k])
  PROVE  /\ IsSeq(Refs!FlattenSeq(parts))
         /\ \A i \in DOMAIN Refs!FlattenSeq(parts) :
              \E k \in DOMAIN parts : \E j \in DOMAIN parts[k] : Refs!FlattenSeq(parts)[i] = parts[k][j]
<1>1. PICK off : Places(parts, Len(parts), Refs!FlattenSeq(parts), off)
  BY FlattenedPlaces
<1>2. DOMAIN parts = 1..Len(parts)
  BY SequencesAreSuch
<1> QED
  BY <1>1, <1>2 DEF Places

-----------------------------------------------------------------------------
(* What is loaded. *)

\* L is what the command line computes for the files of ws.
Loader(ws, L) == L = [x \in Files \X SUBSET Files |-> Gives(TRUE, ws, x[1], x[2], L)]

\* T has what is called below f, if anything is.
Below(T, f, stack) == f \notin stack => \A g \in Files : <<g, stack \cup {f}>> \in T

\* Induction along the stack: what holds of a call if it holds of those below it.
LEMMA StackInduction ==
  ASSUME NEW T,
         \A f \in Files, stack \in SUBSET Files : Below(T, f, stack) => <<f, stack>> \in T
  PROVE  \A f \in Files, stack \in SUBSET Files : <<f, stack>> \in T
<1> DEFINE U == {n \in Nat : \A f \in Files, stack \in SUBSET Files : Unread(stack) <= n => <<f, stack>> \in T}
<1>1. \A stack \in SUBSET Files :
        Unread(stack) \in Nat /\ Unread(stack) <= Cardinality(Files) /\ (Unread(stack) = 0 => stack = Files)
  BY PushedFile
<1>2. 0 \in U
  <2>1. ASSUME NEW f \in Files, NEW stack \in SUBSET Files, Unread(stack) <= 0
        PROVE  <<f, stack>> \in T
    <3>1. f \in stack
      BY <1>1, <2>1
    <3> QED
      BY <3>1 DEF Below
  <2> QED
    BY <2>1
<1>3. ASSUME NEW n \in Nat, n \in U PROVE n + 1 \in U
  <2>1. ASSUME NEW f \in Files, NEW stack \in SUBSET Files, Unread(stack) <= n + 1
        PROVE  <<f, stack>> \in T
    <3>1. ASSUME f \notin stack, NEW g \in Files
          PROVE  <<g, stack \cup {f}>> \in T
      <4> DEFINE t == stack \cup {f}
      <4>1. Unread(t) = Unread(stack) - 1
        BY <3>1, PushedFile
      <4>2. t \in SUBSET Files /\ Unread(t) <= n
        BY <1>1, <2>1, <4>1
      <4> HIDE DEF t
      <4>3. <<g, t>> \in T
        BY <1>3, <4>2
      <4> QED
        BY <4>3 DEF t
    <3> QED
      BY <3>1 DEF Below
  <2> QED
    BY <2>1
<1>4. Cardinality(Files) \in Nat
  BY WorkspacesAreFiles, FS_CardinalityType
<1> HIDE DEF U
<1>5. Cardinality(Files) \in U
  BY <1>2, <1>3, <1>4, SetInduction
<1> QED
  BY <1>1, <1>5 DEF U

\* The step at position k is replaced.
IsReference(ws, f, k) == ws[f].steps[k].enabled /\ ws[f].steps[k].name = "workflow_ref"

\* What is loaded of the file in its place.
Child(ws, L, f, stack, k) == L[<<ws[f].steps[k].file, stack \cup {f}>>]

\* The steps that stand for the step at position k.
Standing(ws, L, f, stack, k) ==
  IF IsReference(ws, f, k)
  THEN Refs!Included(Refs!At(ws[f].steps, k), k, ws[ws[f].steps[k].file].name, Child(ws, L, f, stack, k).steps)
  ELSE <<Refs!At(ws[f].steps, k)>>

\* A file that can be loaded is made of these.
LEMMA LoadedParts ==
  ASSUME NEW ws, Refs!IsWorkspace(ws), NEW L, Loader(ws, L),
         NEW f \in Files, NEW stack \in SUBSET Files, L[<<f, stack>>].ok
  PROVE  /\ f \in DOMAIN ws /\ f \notin stack
         /\ \A k \in DOMAIN ws[f].steps :
              IsReference(ws, f, k) => ws[f].steps[k].file \in Files /\ Child(ws, L, f, stack, k).ok
         /\ L[<<f, stack>>].steps =
              Refs!FlattenSeq([k \in DOMAIN ws[f].steps |-> Standing(ws, L, f, stack, k)])
<1> DEFINE steps == ws[f].steps
           Part(k) == Refs!Expanded(ws, Refs!At(steps, k), k, L[<<steps[k].file, stack \cup {f}>>])
           parts == [k \in DOMAIN steps |-> Part(k)]
<1>1. ~Refs!LoadError.ok
  BY DEF Refs!LoadError
<1>2. L[<<f, stack>>] = Refs!FileLoaded(ws, f, stack, L)
  BY DEF Loader, Gives
<1>3. f \notin stack /\ f \in DOMAIN ws /\ L[<<f, stack>>] = Refs!Joined(parts)
  BY <1>1, <1>2 DEF Refs!FileLoaded
<1> HIDE DEF parts
<1>4. /\ \A k \in DOMAIN parts : parts[k].ok
      /\ L[<<f, stack>>].steps = Refs!FlattenSeq([k \in DOMAIN parts |-> parts[k].steps])
  BY <1>1, <1>3 DEF Refs!Joined, Refs!Loaded
<1>5. DOMAIN parts = DOMAIN steps /\ \A k \in DOMAIN steps : parts[k] = Part(k)
  BY DEF parts
<1>6. ASSUME NEW k \in DOMAIN steps
      PROVE  /\ IsReference(ws, f, k) => steps[k].file \in Files /\ Child(ws, L, f, stack, k).ok
             /\ Part(k).steps = Standing(ws, L, f, stack, k)
  <2> DEFINE s == Refs!At(steps, k)
             child == L[<<steps[k].file, stack \cup {f}>>]
  <2>1. s.name = steps[k].name /\ s.enabled = steps[k].enabled /\ s.file = steps[k].file
        /\ (steps[k].name = "workflow_ref" => steps[k].file \in Files)
    BY <1>3, StepAt
  <2>2. Part(k) = Refs!Expanded(ws, s, k, child) /\ Part(k).ok
    BY <1>4, <1>5
  <2> HIDE DEF s, child, Part
  <2>3. CASE IsReference(ws, f, k)
    <3>1. child.ok /\ Part(k) = Refs!Loaded(Refs!Included(s, k, ws[s.file].name, child.steps))
      BY <1>1, <2>1, <2>2, <2>3 DEF Refs!Expanded, IsReference
    <3>2. Part(k).steps = Refs!Included(s, k, ws[s.file].name, child.steps)
      BY <3>1 DEF Refs!Loaded
    <3> QED
      BY <2>1, <2>3, <3>1, <3>2 DEF Standing, Child, IsReference, s, child
  <2>4. CASE ~IsReference(ws, f, k)
    <3>1. Part(k) = Refs!Loaded(<<s>>)
      BY <2>1, <2>2, <2>4 DEF Refs!Expanded, IsReference
    <3> QED
      BY <2>4, <3>1 DEF Refs!Loaded, Standing, s
  <2> QED
    BY <2>3, <2>4
<1> HIDE DEF Part
<1>7. [k \in DOMAIN parts |-> parts[k].steps] = [k \in DOMAIN steps |-> Standing(ws, L, f, stack, k)]
  BY <1>5, <1>6
<1> QED
  BY <1>3, <1>4, <1>6, <1>7

\* A file's steps are a sequence.
LEMMA FileSteps ==
  ASSUME NEW ws, Refs!IsWorkspace(ws), NEW f \in DOMAIN ws
  PROVE  /\ IsSeq(ws[f].steps) /\ Len(ws[f].steps) \in Nat /\ DOMAIN ws[f].steps = 1..Len(ws[f].steps)
         /\ \A k \in DOMAIN ws[f].steps : ws[f].steps[k] \in Refs!WrittenSteps
<1>1. ws[f].steps \in Seq(Refs!WrittenSteps)
  BY DEF Refs!IsWorkspace
<1> QED
  BY <1>1, SequencesAreSuch

\* What is included is a sequence, if what is loaded is.
LEMMA IncludedIsSeq ==
  ASSUME NEW s, NEW k, NEW name, NEW child, IsSeq(child)
  PROVE  IsSeq(Refs!Included(s, k, name, child)) /\ DOMAIN Refs!Included(s, k, name, child) = DOMAIN child
<1> DEFINE m == Refs!Included(s, k, name, child)
<1>1. Len(child) \in Nat /\ DOMAIN child = 1..Len(child)
  BY SequencesAreSuch
<1>2. m = [i \in DOMAIN child |-> m[i]]
  BY DEF Refs!Included
<1> HIDE DEF m
<1>3. IsSeq(m) /\ DOMAIN m = DOMAIN child
  BY <1>1, <1>2, FunctionsAreSequences
<1> QED
  BY <1>3 DEF m

\* Whatever is loaded is a sequence.
LEMMA LoadedIsSeq ==
  ASSUME NEW ws, Refs!IsWorkspace(ws), NEW L, Loader(ws, L)
  PROVE  \A f \in Files, stack \in SUBSET Files : L[<<f, stack>>].ok =>
           /\ IsSeq(L[<<f, stack>>].steps)
           /\ \A i \in DOMAIN L[<<f, stack>>].steps :
                \E k \in DOMAIN ws[f].steps : \E j \in DOMAIN Standing(ws, L, f, stack, k) :
                  L[<<f, stack>>].steps[i] = Standing(ws, L, f, stack, k)[j]
<1> DEFINE Holds(f, stack) ==
             /\ IsSeq(L[<<f, stack>>].steps)
             /\ \A i \in DOMAIN L[<<f, stack>>].steps :
                  \E k \in DOMAIN ws[f].steps : \E j \in DOMAIN Standing(ws, L, f, stack, k) :
                    L[<<f, stack>>].steps[i] = Standing(ws, L, f, stack, k)[j]
           T == {x \in Files \X SUBSET Files : L[x].ok => Holds(x[1], x[2])}
<1>1. ASSUME NEW f \in Files, NEW stack \in SUBSET Files,
             Below(T, f, stack)
      PROVE  <<f, stack>> \in T
  <2> SUFFICES ASSUME L[<<f, stack>>].ok
               PROVE  Holds(f, stack)
    OBVIOUS
  <2> DEFINE steps == ws[f].steps
             parts == [k \in DOMAIN steps |-> Standing(ws, L, f, stack, k)]
  <2>1. /\ f \in DOMAIN ws /\ f \notin stack
        /\ \A k \in DOMAIN steps :
             IsReference(ws, f, k) => steps[k].file \in Files /\ Child(ws, L, f, stack, k).ok
        /\ L[<<f, stack>>].steps = Refs!FlattenSeq(parts)
    BY LoadedParts
  <2>2. Len(steps) \in Nat /\ DOMAIN steps = 1..Len(steps)
    BY <2>1, FileSteps
  <2>3. ASSUME NEW k \in DOMAIN steps PROVE IsSeq(Standing(ws, L, f, stack, k))
    <3>1. CASE IsReference(ws, f, k)
      <4>1. <<steps[k].file, stack \cup {f}>> \in T
        BY <1>1, <2>1, <2>2, <3>1 DEF Below
      <4>2. IsSeq(Child(ws, L, f, stack, k).steps)
        BY <2>1, <2>2, <3>1, <4>1 DEF Child
      <4> QED
        BY <3>1, <4>2, IncludedIsSeq DEF Standing
    <3>2. CASE ~IsReference(ws, f, k)
      <4>1. Standing(ws, L, f, stack, k) = <<Refs!At(steps, k)>>
        BY <3>2 DEF Standing
      <4> QED
        BY <4>1 DEF IsSeq
    <3> QED
      BY <3>1, <3>2
  <2>4. \A k \in DOMAIN steps : parts[k] = Standing(ws, L, f, stack, k)
    OBVIOUS
  <2>5. IsSeq(parts) /\ DOMAIN parts = DOMAIN steps
    <3> DEFINE n == Len(steps)
    <3>1. parts = [k \in 1..n |-> parts[k]]
      BY <2>2
    <3> HIDE DEF parts
    <3> QED
      BY <2>2, <3>1, FunctionsAreSequences
  <2> HIDE DEF parts
  <2>6. /\ IsSeq(Refs!FlattenSeq(parts))
        /\ \A i \in DOMAIN Refs!FlattenSeq(parts) :
             \E k \in DOMAIN parts : \E j \in DOMAIN parts[k] : Refs!FlattenSeq(parts)[i] = parts[k][j]
    BY <2>3, <2>4, <2>5, Flattened
  <2> QED
    BY <2>1, <2>4, <2>5, <2>6
<1> HIDE DEF T
<1>2. \A f \in Files, stack \in SUBSET Files :
        Below(T, f, stack) => <<f, stack>> \in T
  BY <1>1
<1>3. \A f \in Files, stack \in SUBSET Files : <<f, stack>> \in T
  BY <1>2, StackInduction, Zenon
<1> HIDE DEF Holds
<1>4. \A f \in Files, stack \in SUBSET Files : L[<<f, stack>>].ok => Holds(f, stack)
  BY <1>3 DEF T
<1> QED
  BY <1>4 DEF Holds

-----------------------------------------------------------------------------
(* Targets. *)

\* The command line's loader, and what it makes of main.
LEMMA MainIsLoaded ==
  ASSUME NEW ws, Refs!IsWorkspace(ws)
  PROVE  \E L : Loader(ws, L) /\ Refs!LoadFile(ws, "main") = L[<<"main", {}>>]
<1> DEFINE L == CHOOSE L : L = [x \in Files \X SUBSET Files |-> Refs!FileLoaded(ws, x[1], x[2], L)]
<1>1. \E M : M = [x \in Files \X SUBSET Files |-> Gives(TRUE, ws, x[1], x[2], M)]
  BY LoadersExist
<1>2. Loader(ws, L)
  BY <1>1 DEF Gives, Loader
<1>3. Refs!LoadFile(ws, "main") = L[<<"main", {}>>]
  BY DEF Refs!LoadFile
<1> HIDE DEF L
<1> QED
  BY <1>2, <1>3

\* A jump finds a step by its id, and one by its name if no step has such an id.
LEMMA NamedStep ==
  ASSUME NEW slip, IsSeq(slip), NEW ref
  PROVE  LET ById == {k \in DOMAIN slip : slip[k].id = ref}
             ByName == {k \in DOMAIN slip : <<slip[k].name>> = ref}
         IN  /\ ById # {} => Refs!StepNamed(slip, ref) \in ById
             /\ ById = {} /\ ByName # {} => Refs!StepNamed(slip, ref) \in ByName
             /\ DOMAIN slip \subseteq Nat \ {0}
<1> DEFINE ById == {k \in 1..Len(slip) : slip[k].id = ref}
           ByName == {k \in 1..Len(slip) : <<slip[k].name>> = ref}
           Found(I) == IF I # {} THEN Refs!Min(I) ELSE 0
<1>1. Len(slip) \in Nat /\ DOMAIN slip = 1..Len(slip)
  BY SequencesAreSuch
<1>2. Refs!StepNamed(slip, ref) = IF Found(ById) # 0 THEN Found(ById) ELSE Found(ByName)
  BY DEF Refs!StepNamed, Refs!SelectInSeq
<1>3. ASSUME NEW I, I \subseteq 1..Len(slip), I # {}
      PROVE  Found(I) \in I /\ Found(I) # 0
  <2>1. I \subseteq Nat
    BY <1>1, <1>3
  <2>2. \E m \in I : \A k \in I : m <= k
    BY <1>3, <2>1, LeastNatural
  <2>3. Refs!Min(I) \in I
    BY <2>2 DEF Refs!Min
  <2> QED
    BY <1>1, <1>3, <2>3
<1>4. ById = {} => Found(ById) = 0
  OBVIOUS
<1>5. ById \subseteq 1..Len(slip) /\ ByName \subseteq 1..Len(slip)
  OBVIOUS
<1>6. /\ ById = {k \in DOMAIN slip : slip[k].id = ref}
      /\ ByName = {k \in DOMAIN slip : <<slip[k].name>> = ref}
  BY <1>1
<1> HIDE DEF ById, ByName, Found
<1>7. ById # {} => Refs!StepNamed(slip, ref) \in ById
  BY <1>2, <1>3, <1>5
<1>8. ById = {} /\ ByName # {} => Refs!StepNamed(slip, ref) \in ByName
  BY <1>2, <1>3, <1>4, <1>5
<1>9. DOMAIN slip \subseteq Nat \ {0}
  BY <1>1
<1> QED
  BY <1>6, <1>7, <1>8, <1>9

\* What validation accepts as a target is found.
LEMMA TargetsAreFound ==
  ASSUME NEW steps, IsSeq(steps), NEW ref \in Refs!Targets(steps)
  PROVE  Refs!StepNamed(steps, ref) # 0
<1>1. (\E k \in DOMAIN steps : steps[k].id = ref) \/ (\E k \in DOMAIN steps : <<steps[k].name>> = ref)
  BY DEF Refs!Targets
<1> DEFINE ById == {k \in DOMAIN steps : steps[k].id = ref}
           ByName == {k \in DOMAIN steps : <<steps[k].name>> = ref}
           found == Refs!StepNamed(steps, ref)
<1>2. ById # {} \/ ByName # {}
  BY <1>1
<1>3. /\ ById # {} => found \in ById
      /\ ById = {} /\ ByName # {} => found \in ByName
      /\ DOMAIN steps \subseteq Nat \ {0}
  BY NamedStep
<1> HIDE DEF found
<1>4. found \in DOMAIN steps
  BY <1>2, <1>3
<1> QED
  BY <1>3, <1>4 DEF found

\* A target that validation has accepted exists when the workflow runs, for every
\* workspace: validateWorkflowDiagnostics and FindStepIndex name steps alike.
THEOREM AcceptedTargetsAreThere == Spec => []AcceptedTargetsExist
<1>1. ASSUME NEW ws \in Of("workflow") PROVE Refs!AcceptedTargetsExistIn(ws, "main")
  <2> DEFINE loaded == Refs!LoadFile(ws, "main")
             slip == Refs!ToSlip(loaded.steps)
  <2> SUFFICES ASSUME loaded.ok, Refs!Valid(loaded.steps), slip = loaded.steps
               PROVE  \A i \in DOMAIN slip :
                        /\ slip[i].name = "jump_if" => Refs!StepNamed(slip, slip[i].to) # 0
                        /\ slip[i].failTo # <<>> => Refs!StepNamed(slip, slip[i].failTo) # 0
    BY Zenon DEF Refs!AcceptedTargetsExistIn
  <2>1. Refs!IsWorkspace(ws) /\ "main" \in Files
    BY WorkspacesAreFiles
  <2>2. PICK L : Loader(ws, L) /\ loaded = L[<<"main", {}>>]
    BY <2>1, MainIsLoaded
  <2>3. IsSeq(loaded.steps)
    BY <2>1, <2>2, LoadedIsSeq
  <2>4. \A i \in DOMAIN loaded.steps :
          /\ loaded.steps[i].name = "jump_if" => loaded.steps[i].to \in Refs!Targets(loaded.steps)
          /\ loaded.steps[i].failTo # <<>> => loaded.steps[i].failTo \in Refs!Targets(loaded.steps)
    BY DEF Refs!Valid
  <2> HIDE DEF loaded, slip
  <2> QED
    BY <2>3, <2>4, TargetsAreFound
<1>2. ChosenInput => AcceptedTargetsExist
  BY <1>1 DEF ChosenInput, AcceptedTargetsExist
<1> QED
  BY <1>2, InputIsChosen, PTL

-----------------------------------------------------------------------------
(* Jumps. *)

\* An id that cleaning leaves as it is.
Tidy(id) == id \in Seq(DOMAIN Cleaned) /\ Refs!CleanId(id) = id

\* What has been cleaned is clean, and so are clean ids behind each other.
LEMMA TidyIds ==
  /\ \A p \in Seq(DOMAIN Cleaned) : Tidy(Refs!CleanId(p))
  /\ \A p, q : Tidy(p) /\ Tidy(q) => Tidy(p \o q)
<1>1. ASSUME NEW p \in Seq(DOMAIN Cleaned) PROVE Tidy(Refs!CleanId(p))
  <2> DEFINE c == Refs!CleanId(p)
  <2>1. c = [k \in DOMAIN p |-> Cleaned[p[k]]]
    BY DEF Refs!CleanId
  <2>2. c \in Seq(DOMAIN Cleaned) /\ DOMAIN c = DOMAIN p
    <3> HIDE DEF c
    <3> QED
      BY <2>1, NamesGetClean
  <2>3. Refs!CleanId(c) = [k \in DOMAIN c |-> Cleaned[c[k]]]
    BY DEF Refs!CleanId
  <2> HIDE DEF c
  <2>4. \A k \in DOMAIN p : Cleaned[c[k]] = c[k]
    BY <2>1, NamesGetClean
  <2>5. Refs!CleanId(c) = c
    BY <2>1, <2>2, <2>3, <2>4
  <2> QED
    BY <2>2, <2>5 DEF Tidy, c
<1>2. ASSUME NEW p, NEW q, Tidy(p), Tidy(q) PROVE Tidy(p \o q)
  <2> DEFINE D == DOMAIN Cleaned
             r == p \o q
  <2>1. p \in Seq(D) /\ q \in Seq(D) /\ r \in Seq(D)
    BY <1>2 DEF Tidy
  <2>2. /\ \A k \in DOMAIN p : Cleaned[p[k]] = p[k]
        /\ \A k \in DOMAIN q : Cleaned[q[k]] = q[k]
    BY <1>2 DEF Tidy, Refs!CleanId
  <2> HIDE DEF D
  <2>3. \A k \in DOMAIN r : Cleaned[r[k]] = r[k]
    BY <2>1, <2>2
  <2>4. [k \in DOMAIN r |-> Cleaned[r[k]]] = r
    <3> HIDE DEF r
    <3> QED
      BY <2>1, <2>3
  <2> QED
    BY <2>1, <2>4 DEF Tidy, Refs!CleanId, D
<1> QED
  BY <1>1, <1>2

\* The files along a list of positions.
Walks(ws, f, at, F) ==
  F = [n \in 1..Len(at) |-> IF n = 1 THEN f ELSE ws[F[n - 1]].steps[at[n - 1]].file]

\* There is one for every list.
LEMMA WalkExists ==
  ASSUME NEW ws, NEW f, NEW at \in Seq(Nat)
  PROVE  \E F : Walks(ws, f, at, F)
<1> DEFINE Step(F, n) == IF n = 1 THEN f ELSE ws[F[n - 1]].steps[at[n - 1]].file
           Goes(m, F) == F = [n \in 1..m |-> Step(F, n)]
           T == {m \in Nat : \E F : Goes(m, F)}
<1>1. 0 \in T
  <2> DEFINE F == [n \in 1..0 |-> f]
  <2>1. Goes(0, F)
    OBVIOUS
  <2> QED
    BY <2>1
<1>2. ASSUME NEW m \in Nat, m \in T PROVE m + 1 \in T
  <2>1. PICK F : Goes(m, F)
    BY <1>2
  <2> DEFINE G == [n \in 1..(m + 1) |-> Step(F, n)]
  <2>2. G = [n \in 1..(m + 1) |-> Step(F, n)]
    OBVIOUS
  <2> HIDE DEF G
  <2>3. \A n \in 1..m : G[n] = F[n]
    <3>1. ASSUME NEW n \in 1..m PROVE G[n] = F[n]
      <4>1. n \in 1..(m + 1)
        OBVIOUS
      <4> HIDE DEF Step
      <4>2. G[n] = Step(F, n) /\ F[n] = Step(F, n)
        BY <2>1, <2>2, <4>1
      <4> QED
        BY <4>2
    <3> QED
      BY <3>1
  <2>4. \A n \in 1..(m + 1) : Step(F, n) = Step(G, n)
    <3>1. ASSUME NEW n \in 1..(m + 1), n # 1 PROVE F[n - 1] = G[n - 1]
      <4>1. n - 1 \in 1..m
        BY <3>1
      <4> QED
        BY <2>3, <4>1
    <3> QED
      BY <3>1
  <2> HIDE DEF Step
  <2>5. Goes(m + 1, G)
    BY <2>2, <2>4
  <2> HIDE DEF Goes
  <2> QED
    BY <2>5
<1> HIDE DEF T
<1>3. Len(at) \in T
  BY <1>1, <1>2, SetInduction
<1> QED
  BY <1>3 DEF T, Walks

\* The step that positions lead to.
LEMMA WrittenAt ==
  ASSUME NEW ws, NEW f, NEW at \in Seq(Nat), at # <<>>
  PROVE  \E F : Walks(ws, f, at, F) /\ Refs!Written(ws, f, at) = ws[F[Len(at)]].steps[at[Len(at)]]
<1> DEFINE F == CHOOSE F : Walks(ws, f, at, F)
<1>1. Walks(ws, f, at, F)
  BY WalkExists
<1>2. Refs!Written(ws, f, at) = ws[F[Len(at)]].steps[at[Len(at)]]
  BY DEF Refs!Written, Walks
<1> HIDE DEF F
<1> QED
  BY <1>1, <1>2

\* A position in front of others.
Put(k, p) == <<k>> \o p

\* It comes first, and the others move by one.
LEMMA PutBefore ==
  ASSUME NEW p \in Seq(Nat), p # <<>>, NEW k \in Nat, NEW r, r = Put(k, p)
  PROVE  /\ r \in Seq(Nat) /\ r # <<>> /\ Len(p) \in Nat \ {0} /\ Len(r) = Len(p) + 1 /\ r[1] = k
         /\ \A i \in 1..Len(p) : r[i + 1] = p[i]
BY DEF Put

\* One position is one in the file.
LEMMA WrittenHere ==
  ASSUME NEW ws, NEW f, NEW k \in Nat, NEW at, at = <<k>>
  PROVE  Refs!Written(ws, f, at) = ws[f].steps[k]
<1>1. at \in Seq(Nat) /\ at # <<>>
  OBVIOUS
<1>2. Len(at) = 1 /\ at[1] = k
  OBVIOUS
<1>3. \E F : Walks(ws, f, at, F) /\ Refs!Written(ws, f, at) = ws[F[Len(at)]].steps[at[Len(at)]]
  BY <1>1, WrittenAt
<1>4. PICK F : Walks(ws, f, at, F) /\ Refs!Written(ws, f, at) = ws[F[Len(at)]].steps[at[Len(at)]]
  BY <1>3
<1>5. F[1] = f
  BY <1>2, <1>4 DEF Walks
<1> QED
  BY <1>2, <1>4, <1>5

\* The first of more leads on to what the file includes there.
LEMMA WrittenBelow ==
  ASSUME NEW ws, NEW f, NEW k \in Nat, NEW rest \in Seq(Nat), rest # <<>>
  PROVE  Refs!Written(ws, f, Put(k, rest)) = Refs!Written(ws, ws[f].steps[k].file, rest)
<1> DEFINE at == Put(k, rest)
           m == Len(rest)
           g == ws[f].steps[k].file
<1>12. at \in Seq(Nat) /\ at # <<>>
  BY PutBefore
<1>1. /\ m \in Nat \ {0} /\ Len(at) = m + 1 /\ at[1] = k
      /\ \A i \in 1..m : at[i + 1] = rest[i]
  BY DEF Put
<1> HIDE DEF at
<1>2. PICK F : Walks(ws, f, at, F) /\ Refs!Written(ws, f, at) = ws[F[Len(at)]].steps[at[Len(at)]]
  <2>1. \E F : Walks(ws, f, at, F) /\ Refs!Written(ws, f, at) = ws[F[Len(at)]].steps[at[Len(at)]]
    BY <1>12, WrittenAt
  <2> QED
    BY <2>1
<1>3. PICK G : Walks(ws, g, rest, G) /\ Refs!Written(ws, g, rest) = ws[G[Len(rest)]].steps[rest[Len(rest)]]
  BY WrittenAt
<1>4. /\ F[1] = f
      /\ \A n \in 1..m : F[n + 1] = ws[F[n]].steps[at[n]].file
  <2>1. \A n \in 1..(m + 1) : F[n] = IF n = 1 THEN f ELSE ws[F[n - 1]].steps[at[n - 1]].file
    BY <1>1, <1>2 DEF Walks
  <2>2. ASSUME NEW n \in 1..m PROVE F[n + 1] = ws[F[n]].steps[at[n]].file
    <3>1. n + 1 \in 1..(m + 1) /\ n + 1 # 1 /\ (n + 1) - 1 = n
      BY <1>1
    <3> QED
      BY <2>1, <3>1
  <2>3. F[1] = f
    BY <1>1, <2>1
  <2> QED
    BY <2>2, <2>3
<1>5. /\ G[1] = g
      /\ \A n \in 1..(m - 1) : G[n + 1] = ws[G[n]].steps[rest[n]].file
  <2>1. \A n \in 1..m : G[n] = IF n = 1 THEN g ELSE ws[G[n - 1]].steps[rest[n - 1]].file
    BY <1>1, <1>3 DEF Walks
  <2>2. ASSUME NEW n \in 1..(m - 1) PROVE G[n + 1] = ws[G[n]].steps[rest[n]].file
    <3>1. n + 1 \in 1..m /\ n + 1 # 1 /\ (n + 1) - 1 = n
      BY <1>1
    <3> QED
      BY <2>1, <3>1
  <2>3. G[1] = g
    BY <1>1, <2>1
  <2> QED
    BY <2>2, <2>3
<1> HIDE DEF m
<1> DEFINE T == {n \in Nat : n + 1 <= m => F[n + 2] = G[n + 1]}
<1>6. 0 \in T
  <2>1. 1 \in 1..m
    BY <1>1
  <2>2. F[1 + 1] = ws[F[1]].steps[at[1]].file
    BY <1>4, <2>1
  <2> QED
    BY <1>1, <1>4, <1>5, <2>2
<1>7. ASSUME NEW n \in Nat, n \in T PROVE n + 1 \in T
  <2>1. ASSUME n + 2 <= m PROVE F[n + 3] = G[n + 2]
    <3>1. n + 2 \in 1..m /\ n + 1 \in 1..(m - 1) /\ n + 1 \in 1..m /\ n + 1 <= m
          /\ (n + 2) + 1 = n + 3 /\ (n + 1) + 1 = n + 2
      BY <1>1, <2>1
    <3>2. F[n + 3] = ws[F[n + 2]].steps[at[n + 2]].file
      BY <1>4, <3>1
    <3>3. G[n + 2] = ws[G[n + 1]].steps[rest[n + 1]].file
      BY <1>5, <3>1
    <3>4. at[n + 2] = rest[n + 1]
      BY <1>1, <3>1
    <3>5. F[n + 2] = G[n + 1]
      BY <1>7, <3>1
    <3> QED
      BY <3>2, <3>3, <3>4, <3>5
  <2>2. (n + 1) + 1 = n + 2 /\ (n + 1) + 2 = n + 3
    OBVIOUS
  <2> QED
    BY <2>1, <2>2
<1> HIDE DEF T
<1>8. \A n \in Nat : n \in T
  BY <1>6, <1>7, SetInduction
<1>9. (m - 1) + 1 = m /\ (m - 1) + 2 = m + 1 /\ m - 1 \in Nat /\ m \in 1..m
  BY <1>1
<1>10. F[m + 1] = G[m]
  BY <1>8, <1>9 DEF T
<1>11. at[m + 1] = rest[m]
  BY <1>1, <1>9
<1> QED
  BY <1>1, <1>2, <1>3, <1>10, <1>11 DEF m, g, at

\* A step has the fields of a step.
IsStep(x) ==
  x = [id |-> x.id, name |-> x.name, to |-> x.to, failTo |-> x.failTo, enabled |-> x.enabled,
       file |-> x.file, prefix |-> x.prefix, at |-> x.at]

\* x is step s of a file, as it is loaded from position k.
IsOwn(x, s, k) ==
  /\ s \in Refs!WrittenSteps
  /\ k \in Nat /\ x.at = <<k>> /\ x.id = s.id /\ x.to = s.to /\ IsStep(x)
  /\ x.prefix = s.prefix /\ x.file = s.file

\* A step of the file itself is the one that is written at its position.
LEMMA OwnStep ==
  ASSUME NEW ws, Refs!IsWorkspace(ws), NEW f \in DOMAIN ws, NEW k \in DOMAIN ws[f].steps
  PROVE  IsOwn(Refs!At(ws[f].steps, k), ws[f].steps[k], k)
<1> DEFINE s == ws[f].steps[k]
           x == Refs!At(ws[f].steps, k)
<1>1. s \in Refs!WrittenSteps /\ k \in Nat
  BY FileSteps
<1>2. x = [s EXCEPT !.at = <<k>>]
  BY DEF Refs!At
<1> HIDE DEF s, x
<1>3. IsStep(s)
  BY <1>1 DEF Refs!WrittenSteps, IsStep
<1>4. x.at = <<k>> /\ x.id = s.id /\ x.to = s.to /\ x.prefix = s.prefix /\ x.file = s.file /\ IsStep(x)
  BY <1>2, <1>3 DEF IsStep
<1> QED
  BY <1>1, <1>4 DEF s, x, IsOwn

\* A prefix has been cleaned.
LEMMA PrefixIsTidy ==
  ASSUME NEW ws, Refs!IsWorkspace(ws), NEW f \in DOMAIN ws, NEW k \in DOMAIN ws[f].steps,
         NEW g \in DOMAIN ws
  PROVE  Tidy(Refs!PrefixOf(Refs!At(ws[f].steps, k), ws[g].name))
<1> DEFINE s == ws[f].steps[k]
           x == Refs!At(ws[f].steps, k)
           p == IF x.prefix # <<>> THEN x.prefix ELSE IF x.id # <<>> THEN x.id ELSE <<ws[g].name>>
<1>1. x.prefix = s.prefix /\ x.id = s.id /\ s \in Refs!WrittenSteps
  BY OwnStep DEF IsOwn
<1>2. ws[g].name \in DOMAIN Cleaned
  BY DEF Refs!IsWorkspace
<1> HIDE DEF s, x
<1>3. s.prefix \in Seq(DOMAIN Cleaned) /\ s.id \in Seq(DOMAIN Cleaned)
  BY <1>1 DEF Refs!WrittenSteps
<1>4. p \in Seq(DOMAIN Cleaned)
  <2>1. <<ws[g].name>> \in Seq(DOMAIN Cleaned)
    BY <1>2
  <2> QED
    BY <1>1, <1>3, <2>1
<1>5. Refs!PrefixOf(x, ws[g].name) = Refs!CleanId(p)
  BY DEF Refs!PrefixOf
<1> HIDE DEF p
<1>6. Tidy(Refs!CleanId(p))
  BY <1>4, TidyIds
<1> QED
  BY <1>5, <1>6 DEF x

\* x is step c, at position j of the child, as it is included through position k.
IsIncluded(x, c, j, k, prefix, ids) ==
  /\ x.id = Refs!PrefixedId(prefix, c, j)
  /\ x.to = Refs!Rewritten(prefix, ids, c.to)
  /\ x.at = Put(k, c.at)
  /\ IsStep(x)

\* The ids of the child's steps.
StepIds(child) == {child[i].id : i \in DOMAIN child} \ {<<>>}

\* An included step stands for one of the child's.
LEMMA IncludedStep ==
  ASSUME NEW s, NEW k, NEW name, NEW child, NEW j \in DOMAIN child, IsStep(child[j])
  PROVE  IsIncluded(Refs!Included(s, k, name, child)[j], child[j], j, k, Refs!PrefixOf(s, name), StepIds(child))
<1> DEFINE x == Refs!Included(s, k, name, child)[j]
           c == child[j]
           prefix == Refs!PrefixOf(s, name)
           id == Refs!PrefixedId(prefix, c, j)
           to == Refs!Rewritten(prefix, StepIds(child), c.to)
           at == Put(k, c.at)
<1>1. x = [c EXCEPT !.id = id, !.to = to, !.at = at]
  BY DEF Refs!Included, StepIds, Put
<1>2. IsStep(c)
  OBVIOUS
<1> HIDE DEF x, c, id, to, at
<1>3. x.id = id /\ x.to = to /\ x.at = at /\ IsStep(x)
  BY <1>1, <1>2 DEF IsStep
<1> HIDE DEF prefix
<1>4. IsIncluded(x, c, j, k, prefix, StepIds(child))
  BY <1>3 DEF IsIncluded, id, to, at
<1> QED
  BY <1>4 DEF x, c, prefix

\* The beginning of a sequence holds what the sequence holds.
LEMMA Beginning ==
  ASSUME NEW p \in Seq(Nat), NEW m \in Nat, m <= Len(p), NEW a, a = SubSeq(p, 1, m)
  PROVE  a \in Seq(Nat) /\ Len(a) = m /\ \A i \in 1..m : a[i] = p[i]
OBVIOUS

\* All positions but the last are the same.
Aligned(p, q) == Len(p) = Len(q) /\ SubSeq(p, 1, Len(p) - 1) = SubSeq(q, 1, Len(q) - 1)

\* Steps that are included through one position of a file come from siblings.
LEMMA SiblingsBelow ==
  ASSUME NEW p \in Seq(Nat), NEW q \in Seq(Nat), p # <<>>, q # <<>>, NEW k \in Nat, NEW l \in Nat,
         Aligned(Put(k, p), Put(l, q))
  PROVE  k = l /\ Aligned(p, q)
<1> DEFINE m == Len(p)
           r == Put(k, p)
           t == Put(l, q)
<1>1. /\ r \in Seq(Nat) /\ m \in Nat \ {0} /\ Len(r) = m + 1 /\ r[1] = k
      /\ \A i \in 1..m : r[i + 1] = p[i]
  BY PutBefore
<1>2. /\ t \in Seq(Nat) /\ Len(q) \in Nat \ {0} /\ Len(t) = Len(q) + 1 /\ t[1] = l
      /\ \A i \in 1..Len(q) : t[i + 1] = q[i]
  BY PutBefore
<1>11. Aligned(r, t)
  OBVIOUS
<1> HIDE DEF r, t
<1>3. Len(q) = m /\ Len(r) - 1 = m /\ Len(t) - 1 = m
  <2> HIDE DEF m
  <2> QED
    BY <1>1, <1>2, <1>11 DEF Aligned
<1> HIDE DEF m
<1> DEFINE a == SubSeq(r, 1, m)
           b == SubSeq(t, 1, m)
           c == SubSeq(p, 1, m - 1)
           d == SubSeq(q, 1, m - 1)
<1>4. a = b
  BY <1>3, <1>11 DEF Aligned
<1>5. /\ \A i \in 1..m : a[i] = r[i]
      /\ \A i \in 1..m : b[i] = t[i]
  <2>1. m \in Nat /\ m <= Len(r) /\ m <= Len(t)
    BY <1>1, <1>2, <1>3
  <2>2. \A i \in 1..m : a[i] = r[i]
    <3>1. r \in Seq(Nat) /\ m \in Nat /\ m <= Len(r)
      BY <1>1, <2>1
    <3> QED
      BY <3>1, Beginning
  <2>3. \A i \in 1..m : b[i] = t[i]
    <3>1. t \in Seq(Nat) /\ m \in Nat /\ m <= Len(t)
      BY <1>2, <2>1
    <3> QED
      BY <3>1, Beginning
  <2> QED
    BY <2>2, <2>3
<1>6. /\ c \in Seq(Nat) /\ Len(c) = m - 1 /\ \A i \in 1..(m - 1) : c[i] = p[i]
      /\ d \in Seq(Nat) /\ Len(d) = m - 1 /\ \A i \in 1..(m - 1) : d[i] = q[i]
  <2>1. m - 1 \in Nat /\ m - 1 <= Len(p) /\ m - 1 <= Len(q)
    BY <1>1, <1>3 DEF m
  <2> QED
    BY <2>1, Beginning
<1> HIDE DEF a, b, c, d
<1>7. \A i \in 1..m : r[i] = t[i]
  BY <1>4, <1>5
<1>8. k = l
  BY <1>1, <1>2, <1>7
<1>9. \A i \in 1..(m - 1) : p[i] = q[i]
  <2>1. ASSUME NEW i \in 1..(m - 1) PROVE p[i] = q[i]
    <3>1. i \in 1..m /\ i + 1 \in 1..m
      BY <1>1
    <3> QED
      BY <1>1, <1>2, <1>3, <1>7, <3>1
  <2> QED
    BY <2>1
<1>10. c = d
  <2>1. \A i \in 1..(m - 1) : c[i] = d[i]
    BY <1>6, <1>9
  <2>2. c \in Seq(Nat) /\ d \in Seq(Nat) /\ Len(c) = Len(d) /\ Len(c) = m - 1
    BY <1>6
  <2> QED
    BY <2>1, <2>2, SeqEqual
<1> QED
  BY <1>3, <1>8, <1>10 DEF c, d, m, Aligned

\* A loaded step is a step, and says where it is written.
Placed(x) == IsStep(x) /\ x.at \in Seq(Nat) /\ x.at # <<>>

\* The jump of step x still names step y, if it named y where both are written.
Leads(ws, f, x, y) ==
  LET named == Refs!Written(ws, f, x.at).to
  IN  Refs!Siblings(x, y) /\ named # <<>> /\ Refs!CleanId(named) = named
        /\ named = Refs!Written(ws, f, y.at).id
      => x.to = y.id /\ y.id # <<>> /\ Tidy(y.id)

\* All of them do.
AllPlaced(steps) == \A i \in DOMAIN steps : Placed(steps[i])

\* So do all of them.
StepsLead(ws, f, steps) ==
  /\ AllPlaced(steps)
  /\ \A i, j \in DOMAIN steps : Leads(ws, f, steps[i], steps[j])

\* A jump between steps of the file itself is not changed.
LEMMA OwnStepsLead ==
  ASSUME NEW ws, Refs!IsWorkspace(ws), NEW f \in DOMAIN ws,
         NEW k \in DOMAIN ws[f].steps, NEW l \in DOMAIN ws[f].steps
  PROVE  Leads(ws, f, Refs!At(ws[f].steps, k), Refs!At(ws[f].steps, l))
<1> DEFINE x == Refs!At(ws[f].steps, k)
           y == Refs!At(ws[f].steps, l)
           s == ws[f].steps[k]
           t == ws[f].steps[l]
<1>1. IsOwn(x, s, k) /\ IsOwn(y, t, l)
  BY OwnStep
<1> HIDE DEF x, y, s, t
<1>2. k \in Nat /\ x.at = <<k>> /\ x.to = s.to
  BY <1>1 DEF IsOwn
<1>3. l \in Nat /\ y.at = <<l>> /\ y.id = t.id /\ t \in Refs!WrittenSteps
  BY <1>1 DEF IsOwn
<1>4. Refs!Written(ws, f, x.at) = s /\ Refs!Written(ws, f, y.at) = t
  BY <1>2, <1>3, WrittenHere DEF s, t
<1>5. t.id \in Seq(DOMAIN Cleaned)
  BY <1>3 DEF Refs!WrittenSteps
<1>6. Leads(ws, f, x, y)
  BY <1>2, <1>3, <1>4, <1>5 DEF Leads, Tidy
<1> QED
  BY <1>6 DEF x, y

\* What two positions give is the same if they are.
NamedAlike(k, l, v, w) == k = l => v = w

\* A jump between steps of the child is rewritten with the steps' ids.
LEMMA IncludedStepsLead ==
  ASSUME NEW ws, Refs!IsWorkspace(ws), NEW f \in DOMAIN ws,
         NEW k \in DOMAIN ws[f].steps, NEW l \in DOMAIN ws[f].steps,
         NEW g \in DOMAIN ws, g = ws[f].steps[k].file,
         NEW child, StepsLead(ws, g, child), NEW other,
         NEW i \in DOMAIN child, NEW j \in DOMAIN other, NamedAlike(k, l, other, child),
         AllPlaced(other),
         NEW x, x = Refs!Included(Refs!At(ws[f].steps, k), k, ws[g].name, child)[i],
         NEW name,
         NEW y, y = Refs!Included(Refs!At(ws[f].steps, l), l, name, other)[j],
         NamedAlike(k, l, name, ws[g].name)
  PROVE  Leads(ws, f, x, y)
<1> DEFINE s == Refs!At(ws[f].steps, k)
           c == child[i]
           d == other[j]
           prefix == Refs!PrefixOf(s, ws[g].name)
           ids == StepIds(child)
           named == Refs!Written(ws, f, x.at).to
<1> SUFFICES ASSUME Refs!Siblings(x, y), named # <<>>, Refs!CleanId(named) = named,
                    named = Refs!Written(ws, f, y.at).id
             PROVE  x.to = y.id /\ y.id # <<>> /\ Tidy(y.id)
  BY DEF Leads
<1>1. Placed(c) /\ Placed(d)
  BY DEF StepsLead, AllPlaced
<1>2. k \in Nat /\ l \in Nat
  BY OwnStep DEF IsOwn
<1>3. x.at = Put(k, c.at) /\ x.to = Refs!Rewritten(prefix, ids, c.to)
  <2>1. IsIncluded(x, c, i, k, prefix, ids)
    BY <1>1, IncludedStep DEF Placed
  <2> QED
    BY <2>1 DEF IsIncluded
<1>4. y.at = Put(l, d.at)
  <2>1. IsIncluded(y, d, j, l, Refs!PrefixOf(Refs!At(ws[f].steps, l), name), StepIds(other))
    BY <1>1, IncludedStep DEF Placed
  <2> QED
    BY <2>1 DEF IsIncluded
<1>5. c.at \in Seq(Nat) /\ c.at # <<>> /\ d.at \in Seq(Nat) /\ d.at # <<>>
  BY <1>1 DEF Placed
<1>6. Aligned(x.at, y.at)
  BY DEF Refs!Siblings, Aligned
<1> HIDE DEF s, c, d, prefix, ids, named
<1>7. k = l /\ Aligned(c.at, d.at)
  BY <1>2, <1>3, <1>4, <1>5, <1>6, SiblingsBelow
<1>8. Refs!Siblings(c, d)
  BY <1>7 DEF Refs!Siblings, Aligned
<1>9. /\ Refs!Written(ws, f, x.at) = Refs!Written(ws, g, c.at)
      /\ Refs!Written(ws, f, y.at) = Refs!Written(ws, g, d.at)
  BY <1>2, <1>3, <1>4, <1>5, <1>7, WrittenBelow
<1>10. other = child /\ name = ws[g].name
  BY <1>7 DEF NamedAlike
<1>11. Leads(ws, g, c, d)
  BY <1>10 DEF StepsLead, c, d
<1>12. c.to = d.id /\ d.id # <<>> /\ Tidy(d.id)
  BY <1>8, <1>9, <1>11 DEF Leads, named
<1>13. d.id \in ids
  BY <1>10, <1>12 DEF ids, d, StepIds
<1>14. x.to = prefix \o d.id
  BY <1>3, <1>12, <1>13 DEF Refs!Rewritten
<1>15. y.id = Refs!PrefixedId(prefix, d, j)
  <2>1. d = child[j] /\ j \in DOMAIN child /\ IsStep(child[j])
    BY <1>1, <1>10 DEF Placed, d
  <2>2. y = Refs!Included(s, k, ws[g].name, child)[j]
    BY <1>7, <1>10 DEF s
  <2>3. IsIncluded(y, d, j, k, prefix, StepIds(child))
    BY <2>1, <2>2, IncludedStep DEF prefix
  <2> QED
    BY <2>3 DEF IsIncluded
<1>16. y.id = prefix \o d.id
  BY <1>12, <1>15 DEF Refs!PrefixedId, Tidy
<1>17. Tidy(prefix)
  BY PrefixIsTidy DEF prefix, s
<1>18. Tidy(prefix \o d.id)
  BY <1>12, <1>17, TidyIds
<1>19. prefix \o d.id # <<>>
  <2>1. prefix \in Seq(DOMAIN Cleaned) /\ d.id \in Seq(DOMAIN Cleaned) /\ d.id # <<>>
    BY <1>12, <1>17 DEF Tidy
  <2> HIDE DEF Tidy
  <2> QED
    BY <2>1
<1> QED
  BY <1>14, <1>16, <1>18, <1>19

\* An own step and an included one are not siblings.
LEMMA NoSiblings ==
  ASSUME NEW ws, NEW f, NEW x, NEW y, NEW k \in Nat, NEW l \in Nat, NEW p \in Seq(Nat), p # <<>>,
         \/ x.at = <<k>> /\ y.at = Put(l, p)
         \/ y.at = <<k>> /\ x.at = Put(l, p)
  PROVE  Leads(ws, f, x, y)
<1>1. ~Refs!Siblings(x, y)
  <2> DEFINE q == Put(l, p)
             r == <<k>>
  <2>1. Len(q) = Len(p) + 1 /\ Len(p) \in Nat \ {0} /\ Len(r) = 1
    <3>1. Len(r) = 1
      OBVIOUS
    <3>2. Len(q) = Len(p) + 1 /\ Len(p) \in Nat \ {0}
      BY PutBefore
    <3> QED
      BY <3>1, <3>2
  <2>2. (x.at = r /\ y.at = q) \/ (y.at = r /\ x.at = q)
    OBVIOUS
  <2> HIDE DEF q, r
  <2>3. Len(q) # Len(r)
    BY <2>1
  <2>4. Len(x.at) # Len(y.at)
    BY <2>2, <2>3
  <2> QED
    BY <2>4 DEF Refs!Siblings
<1> QED
  BY <1>1 DEF Leads

\* What stands for the steps of a file leads where it led, if what is loaded below does.
LEMMA StandingStepsLead ==
  ASSUME NEW ws, Refs!IsWorkspace(ws), NEW L, Loader(ws, L),
         NEW f \in Files, NEW stack \in SUBSET Files, L[<<f, stack>>].ok,
         \A k \in DOMAIN ws[f].steps : IsReference(ws, f, k) =>
           StepsLead(ws, ws[f].steps[k].file, Child(ws, L, f, stack, k).steps)
  PROVE  \A k, l \in DOMAIN ws[f].steps :
           \A i \in DOMAIN Standing(ws, L, f, stack, k) : \A j \in DOMAIN Standing(ws, L, f, stack, l) :
             /\ Placed(Standing(ws, L, f, stack, k)[i])
             /\ Leads(ws, f, Standing(ws, L, f, stack, k)[i], Standing(ws, L, f, stack, l)[j])
<1> DEFINE Stand(k) == Standing(ws, L, f, stack, k)
           Son(k) == Child(ws, L, f, stack, k).steps
           File(k) == ws[f].steps[k].file
           Own(k) == Refs!At(ws[f].steps, k)
<1>1. /\ f \in DOMAIN ws
      /\ \A k \in DOMAIN ws[f].steps : IsReference(ws, f, k) =>
           File(k) \in Files /\ Child(ws, L, f, stack, k).ok
  BY LoadedParts
<1>2. ASSUME NEW k \in DOMAIN ws[f].steps, IsReference(ws, f, k)
      PROVE  /\ File(k) \in DOMAIN ws
             /\ Stand(k) = Refs!Included(Own(k), k, ws[File(k)].name, Son(k))
             /\ DOMAIN Stand(k) = DOMAIN Son(k)
             /\ StepsLead(ws, File(k), Son(k))
  <2>1. File(k) \in Files /\ stack \cup {f} \in SUBSET Files /\ Child(ws, L, f, stack, k).ok
    BY <1>1, <1>2
  <2>2. File(k) \in DOMAIN ws /\ IsSeq(Son(k))
    <3> DEFINE g == File(k)
               t == stack \cup {f}
    <3>1. g \in Files /\ t \in SUBSET Files /\ L[<<g, t>>].ok
      BY <2>1 DEF Child
    <3> HIDE DEF g, t
    <3>2. g \in DOMAIN ws
      BY <3>1, LoadedParts
    <3>3. IsSeq(L[<<g, t>>].steps)
      BY <3>1, LoadedIsSeq
    <3> QED
      BY <3>2, <3>3 DEF g, t, Child
  <2>3. Stand(k) = Refs!Included(Own(k), k, ws[File(k)].name, Son(k))
    BY <1>2 DEF Standing
  <2>4. DOMAIN Stand(k) = DOMAIN Son(k)
    BY <2>2, <2>3, IncludedIsSeq
  <2> QED
    BY <1>2, <2>2, <2>3, <2>4
<1>3. ASSUME NEW k \in DOMAIN ws[f].steps, ~IsReference(ws, f, k)
      PROVE  Stand(k) = <<Own(k)>> /\ DOMAIN Stand(k) = {1} /\ Stand(k)[1] = Own(k)
  <2>1. Stand(k) = <<Own(k)>>
    BY <1>3 DEF Standing
  <2> QED
    BY <2>1
<1>4. ASSUME NEW k \in DOMAIN ws[f].steps
      PROVE  k \in Nat /\ IsOwn(Own(k), ws[f].steps[k], k)
  <2>1. IsOwn(Own(k), ws[f].steps[k], k)
    BY <1>1, OwnStep
  <2> QED
    BY <2>1 DEF IsOwn
<1>5. ASSUME NEW k \in DOMAIN ws[f].steps, NEW i \in DOMAIN Stand(k), IsReference(ws, f, k)
      PROVE  /\ IsIncluded(Stand(k)[i], Son(k)[i], i, k, Refs!PrefixOf(Own(k), ws[File(k)].name), StepIds(Son(k)))
             /\ Placed(Son(k)[i])
             /\ Placed(Stand(k)[i])
  <2>1. i \in DOMAIN Son(k) /\ Placed(Son(k)[i])
    BY <1>2, <1>5 DEF StepsLead, AllPlaced
  <2>2. IsStep(Son(k)[i])
    BY <2>1 DEF Placed
  <2> DEFINE x == Stand(k)[i]
             c == Son(k)[i]
  <2>3. IsIncluded(x, c, i, k, Refs!PrefixOf(Own(k), ws[File(k)].name), StepIds(Son(k)))
    BY <1>2, <1>5, <2>1, <2>2, IncludedStep
  <2> HIDE DEF x, c
  <2>4. IsStep(x) /\ x.at = Put(k, c.at)
    BY <2>3 DEF IsIncluded
  <2>5. c.at \in Seq(Nat) /\ c.at # <<>>
    BY <2>1 DEF Placed, c
  <2>6. Put(k, c.at) \in Seq(Nat) /\ Put(k, c.at) # <<>>
    BY <1>4, <2>5, PutBefore
  <2> QED
    BY <2>1, <2>3, <2>4, <2>6 DEF x, c, Placed
<1>6. ASSUME NEW k \in DOMAIN ws[f].steps, NEW i \in DOMAIN Stand(k)
      PROVE  Placed(Stand(k)[i])
  <2>1. CASE ~IsReference(ws, f, k)
    <3>1. Stand(k)[i] = Own(k) /\ IsOwn(Own(k), ws[f].steps[k], k)
      BY <1>3, <1>4, <2>1
    <3> HIDE DEF Stand, Own
    <3>2. k \in Nat /\ Own(k).at = <<k>> /\ IsStep(Own(k))
      BY <3>1 DEF IsOwn
    <3> QED
      BY <3>1, <3>2 DEF Placed
  <2> QED
    BY <1>5, <2>1
<1>7. ASSUME NEW k \in DOMAIN ws[f].steps, NEW l \in DOMAIN ws[f].steps,
             NEW i \in DOMAIN Stand(k), NEW j \in DOMAIN Stand(l)
      PROVE  Leads(ws, f, Stand(k)[i], Stand(l)[j])
  <2>1. CASE ~IsReference(ws, f, k) /\ ~IsReference(ws, f, l)
    <3>1. Leads(ws, f, Own(k), Own(l))
      BY <1>1, OwnStepsLead
    <3> QED
      BY <1>3, <2>1, <3>1
  <2>2. ASSUME NEW m \in DOMAIN ws[f].steps, NEW n \in DOMAIN ws[f].steps,
               NEW a \in DOMAIN Stand(m), NEW b \in DOMAIN Stand(n),
               ~IsReference(ws, f, m), IsReference(ws, f, n)
        PROVE  /\ Leads(ws, f, Stand(m)[a], Stand(n)[b])
               /\ Leads(ws, f, Stand(n)[b], Stand(m)[a])
    <3> DEFINE x == Stand(m)[a]
               y == Stand(n)[b]
               p == Son(n)[b].at
    <3>1. x = Own(m) /\ IsOwn(Own(m), ws[f].steps[m], m)
      BY <1>3, <1>4, <2>2
    <3>2. x.at = <<m>> /\ m \in Nat /\ n \in Nat
      BY <1>4, <3>1 DEF IsOwn
    <3>3. y.at = Put(n, p)
      BY <1>5, <2>2 DEF IsIncluded
    <3>4. p \in Seq(Nat) /\ p # <<>>
      BY <1>5, <2>2 DEF Placed
    <3> HIDE DEF x, y, p
    <3>5. Leads(ws, f, x, y) /\ Leads(ws, f, y, x)
      BY <3>2, <3>3, <3>4, NoSiblings
    <3> QED
      BY <3>5 DEF x, y
  <2>3. CASE IsReference(ws, f, k) /\ IsReference(ws, f, l)
    <3> DEFINE g == File(k)
               child == Son(k)
               other == Son(l)
               x == Stand(k)[i]
               y == Stand(l)[j]
               name == ws[File(l)].name
    <3>1. /\ g \in DOMAIN ws /\ StepsLead(ws, g, child) /\ i \in DOMAIN child /\ j \in DOMAIN other
          /\ x = Refs!Included(Own(k), k, ws[g].name, child)[i]
          /\ y = Refs!Included(Own(l), l, name, other)[j]
      BY <1>2, <2>3
    <3>2. AllPlaced(other)
      BY <1>2, <2>3 DEF StepsLead
    <3>3. NamedAlike(k, l, other, child) /\ NamedAlike(k, l, name, ws[g].name)
      BY DEF NamedAlike
    <3>4. g = ws[f].steps[k].file
      OBVIOUS
    <3> HIDE DEF g, child, other, x, y, name
    <3>5. Leads(ws, f, x, y)
      BY <1>1, <3>1, <3>2, <3>3, <3>4, IncludedStepsLead
    <3> QED
      BY <3>5 DEF x, y
  <2> QED
    BY <2>1, <2>2, <2>3
<1> HIDE DEF Stand
<1>8. \A k, l \in DOMAIN ws[f].steps : \A i \in DOMAIN Stand(k) : \A j \in DOMAIN Stand(l) :
        Placed(Stand(k)[i]) /\ Leads(ws, f, Stand(k)[i], Stand(l)[j])
  BY <1>6, <1>7
<1> QED
  BY <1>8 DEF Stand

\* Whatever is loaded leads where it led.
LEMMA LoadedStepsLead ==
  ASSUME NEW ws, Refs!IsWorkspace(ws), NEW L, Loader(ws, L)
  PROVE  \A f \in Files, stack \in SUBSET Files :
           L[<<f, stack>>].ok => StepsLead(ws, f, L[<<f, stack>>].steps)
<1> DEFINE T == {x \in Files \X SUBSET Files : L[x].ok => StepsLead(ws, x[1], L[x].steps)}
<1>1. ASSUME NEW f \in Files, NEW stack \in SUBSET Files, Below(T, f, stack), L[<<f, stack>>].ok
      PROVE  StepsLead(ws, f, L[<<f, stack>>].steps)
  <2> DEFINE Stand(k) == Standing(ws, L, f, stack, k)
             steps == L[<<f, stack>>].steps
  <2>1. /\ f \notin stack
        /\ \A k \in DOMAIN ws[f].steps :
             IsReference(ws, f, k) => ws[f].steps[k].file \in Files /\ Child(ws, L, f, stack, k).ok
    BY <1>1, LoadedParts
  <2>2. ASSUME NEW k \in DOMAIN ws[f].steps, IsReference(ws, f, k)
        PROVE  StepsLead(ws, ws[f].steps[k].file, Child(ws, L, f, stack, k).steps)
    <3>1. <<ws[f].steps[k].file, stack \cup {f}>> \in T
      BY <1>1, <2>1, <2>2 DEF Below
    <3> QED
      BY <2>1, <2>2, <3>1 DEF Child
  <2> HIDE DEF T
  <2>3. \A k, l \in DOMAIN ws[f].steps : \A i \in DOMAIN Stand(k) : \A j \in DOMAIN Stand(l) :
          Placed(Stand(k)[i]) /\ Leads(ws, f, Stand(k)[i], Stand(l)[j])
    BY <1>1, <2>2, StandingStepsLead
  <2>4. \A i \in DOMAIN steps :
          \E k \in DOMAIN ws[f].steps : \E j \in DOMAIN Stand(k) : steps[i] = Stand(k)[j]
    BY <1>1, LoadedIsSeq
  <2> HIDE DEF Stand, steps
  <2>5. ASSUME NEW i \in DOMAIN steps, NEW j \in DOMAIN steps
        PROVE  Placed(steps[i]) /\ Leads(ws, f, steps[i], steps[j])
    <3>1. PICK k \in DOMAIN ws[f].steps : \E a \in DOMAIN Stand(k) : steps[i] = Stand(k)[a]
      BY <2>4
    <3>2. PICK a \in DOMAIN Stand(k) : steps[i] = Stand(k)[a]
      BY <3>1
    <3>3. PICK l \in DOMAIN ws[f].steps : \E b \in DOMAIN Stand(l) : steps[j] = Stand(l)[b]
      BY <2>4
    <3>4. PICK b \in DOMAIN Stand(l) : steps[j] = Stand(l)[b]
      BY <3>3
    <3> QED
      BY <2>3, <3>2, <3>4
  <2>6. StepsLead(ws, f, steps)
    BY <2>5 DEF StepsLead, AllPlaced
  <2> QED
    BY <2>6 DEF steps
<1>2. \A f \in Files, stack \in SUBSET Files : Below(T, f, stack) => <<f, stack>> \in T
  <2>1. ASSUME NEW f \in Files, NEW stack \in SUBSET Files, Below(T, f, stack)
        PROVE  <<f, stack>> \in T
    <3>1. L[<<f, stack>>].ok => StepsLead(ws, f, L[<<f, stack>>].steps)
      BY <1>1, <2>1
    <3> QED
      BY <3>1
  <2> QED
    BY <2>1
<1> HIDE DEF T
<1>3. \A f \in Files, stack \in SUBSET Files : <<f, stack>> \in T
  BY <1>2, StackInduction, Zenon
<1> QED
  BY <1>3 DEF T

\* A slip holds steps that have been loaded.
LEMMA SlipHoldsSteps ==
  ASSUME NEW steps, IsSeq(steps)
  PROVE  /\ IsSeq(Refs!ToSlip(steps))
         /\ \A i \in DOMAIN Refs!ToSlip(steps) : \E k \in DOMAIN steps : Refs!ToSlip(steps)[i] = steps[k]
<1> DEFINE parts == [k \in DOMAIN steps |-> IF steps[k].enabled THEN <<steps[k]>> ELSE <<>>]
           slip == Refs!FlattenSeq(parts)
<1>1. Len(steps) \in Nat /\ DOMAIN steps = 1..Len(steps)
  BY SequencesAreSuch
<1>2. DOMAIN parts = DOMAIN steps
      /\ \A k \in DOMAIN steps : parts[k] = IF steps[k].enabled THEN <<steps[k]>> ELSE <<>>
  OBVIOUS
<1>3. slip = Refs!ToSlip(steps)
  BY DEF Refs!ToSlip
<1>4. IsSeq(parts)
  <2> DEFINE n == Len(steps)
  <2>1. parts = [k \in 1..n |-> parts[k]] /\ n \in Nat
    BY <1>1
  <2> HIDE DEF parts, n
  <2> QED
    BY <2>1, FunctionsAreSequences
<1> HIDE DEF parts
<1>5. ASSUME NEW k \in DOMAIN parts
      PROVE  IsSeq(parts[k]) /\ \A j \in DOMAIN parts[k] : parts[k][j] = steps[k]
  <2>1. CASE steps[k].enabled
    <3>1. parts[k] = <<steps[k]>>
      BY <1>2, <2>1
    <3> QED
      BY <3>1 DEF IsSeq
  <2>2. CASE ~steps[k].enabled
    <3>1. parts[k] = <<>>
      BY <1>2, <2>2
    <3> QED
      BY <3>1 DEF IsSeq
  <2> QED
    BY <2>1, <2>2
<1>6. /\ IsSeq(slip)
      /\ \A i \in DOMAIN slip : \E k \in DOMAIN parts : \E j \in DOMAIN parts[k] : slip[i] = parts[k][j]
  BY <1>4, <1>5, Flattened
<1> HIDE DEF slip
<1>7. \A i \in DOMAIN slip : \E k \in DOMAIN steps : slip[i] = steps[k]
  BY <1>2, <1>5, <1>6
<1> QED
  BY <1>3, <1>6, <1>7

\* A jump that names a step of its own file leads to that step in the copy of the
\* file the jump is in, for every workspace, however deep the file is included:
\* rewriteWorkflowRefTargets, and the ids that expandWorkflowReferences gives.
THEOREM JumpsStay == Spec => []JumpsStayInTheirFile
<1>1. ASSUME NEW ws \in Of("workflow")
      PROVE  Refs!StaysInItsFile(ws, "main", LAMBDA s : s.to)
  <2> DEFINE loaded == Refs!LoadFile(ws, "main")
             steps == loaded.steps
             slip == Refs!ToSlip(steps)
             Named(x) == Refs!Written(ws, "main", x.at).to
  <2> SUFFICES ASSUME loaded.ok, Refs!DistinctIds(slip),
                      NEW i \in DOMAIN slip, NEW j \in DOMAIN slip,
                      Refs!Siblings(slip[i], slip[j]),
                      Named(slip[i]) # <<>>, Refs!CleanId(Named(slip[i])) = Named(slip[i]),
                      Named(slip[i]) = Refs!Written(ws, "main", slip[j].at).id
               PROVE  Refs!StepNamed(slip, slip[i].to) = j
    BY DEF Refs!StaysInItsFile
  <2>1. Refs!IsWorkspace(ws) /\ "main" \in Files
    BY WorkspacesAreFiles
  <2>2. PICK L : Loader(ws, L) /\ loaded = L[<<"main", {}>>]
    BY <2>1, MainIsLoaded
  <2> HIDE DEF loaded
  <2>3. IsSeq(steps) /\ StepsLead(ws, "main", steps)
    BY <2>1, <2>2, LoadedIsSeq, LoadedStepsLead
  <2> HIDE DEF steps
  <2>4. IsSeq(slip) /\ \A n \in DOMAIN slip : \E k \in DOMAIN steps : slip[n] = steps[k]
    BY <2>3, SlipHoldsSteps
  <2> HIDE DEF slip
  <2>5. Leads(ws, "main", slip[i], slip[j])
    BY <2>3, <2>4 DEF StepsLead
  <2>6. slip[i].to = slip[j].id /\ slip[j].id # <<>>
    BY <2>5 DEF Leads
  <2> DEFINE ref == slip[i].to
             ById == {k \in DOMAIN slip : slip[k].id = ref}
  <2>7. ById = {j}
    BY <2>6 DEF Refs!DistinctIds
  <2> HIDE DEF ref
  <2>8. ById # {} => Refs!StepNamed(slip, ref) \in ById
    BY <2>4, NamedStep
  <2> QED
    BY <2>7, <2>8 DEF ref
<1>2. ChosenInput => JumpsStayInTheirFile
  BY <1>1 DEF ChosenInput, JumpsStayInTheirFile
<1> QED
  BY <1>2, InputIsChosen, PTL

-----------------------------------------------------------------------------
(* Drafts: rules in their order. *)

\* An injective list in order R.
Lists(f, R) ==
  /\ \A j, k \in DOMAIN f : f[j] = f[k] => j = k
  /\ \A j, k \in DOMAIN f : j < k => <<f[j], f[k]>> \in R

\* A total order of a set.
Orders(R, S) ==
  /\ \A x, y \in S : <<x, y>> \in R \/ <<y, x>> \in R
  /\ \A x, y, z \in S : <<x, y>> \in R /\ <<y, z>> \in R => <<x, z>> \in R

\* One more element is put where it belongs.
LEMMA Inserted ==
  ASSUME NEW U, NEW x, x \notin U, NEW R, Orders(R, U \cup {x}),
         NEW n \in Nat, NEW f \in [1..n -> U], Lists(f, R)
  PROVE  \E g \in [1..(n + 1) -> U \cup {x}] : Lists(g, R)
<1> DEFINE A == {i \in 1..n : <<f[i], x>> \in R}
           g == [i \in 1..(n + 1) |-> IF i \in A THEN f[i] ELSE IF i = 1 \/ i - 1 \in A THEN x ELSE f[i - 1]]
           Before(i) == i \in A
           Here(i) == i \notin A /\ (i = 1 \/ i - 1 \in A)
           Behind(i) == i \notin A /\ i # 1 /\ i - 1 \notin A
<1>1. \A i \in 1..n : f[i] \in U /\ f[i] # x
  OBVIOUS
<1>2. ASSUME NEW i \in 1..n, NEW j \in A, i <= j PROVE i \in A
  <2>1. CASE i = j
    BY <2>1
  <2>2. CASE i < j
    <3>1. <<f[i], f[j]>> \in R /\ <<f[j], x>> \in R
      BY <2>2 DEF Lists
    <3> QED
      BY <1>1, <3>1 DEF Orders
  <2> QED
    BY <1>2, <2>1, <2>2
<1>3. ASSUME NEW i \in 1..n, i \notin A PROVE <<x, f[i]>> \in R
  BY <1>1, <1>3 DEF Orders
<1>4. \A i \in 1..(n + 1) :
        /\ Before(i) \/ Here(i) \/ Behind(i)
        /\ Before(i) => i \in 1..n /\ g[i] = f[i]
        /\ Here(i) => g[i] = x
        /\ Behind(i) => i - 1 \in 1..n /\ g[i] = f[i - 1]
  <2>1. ASSUME NEW i \in 1..(n + 1) PROVE (i # 1 => i - 1 \in 1..n) /\ (Before(i) => i \in 1..n)
    OBVIOUS
  <2> QED
    BY <2>1
<1>5. g \in [1..(n + 1) -> U \cup {x}]
  <2>1. ASSUME NEW i \in 1..(n + 1) PROVE g[i] \in U \cup {x}
    BY <1>1, <1>4
  <2>2. g = [i \in 1..(n + 1) |-> g[i]]
    OBVIOUS
  <2> HIDE DEF g
  <2> QED
    BY <2>1, <2>2
<1>6. DOMAIN g = 1..(n + 1)
  OBVIOUS
<1> HIDE DEF g
<1>7. ASSUME NEW i \in 1..(n + 1), NEW j \in 1..(n + 1), i < j
      PROVE  <<g[i], g[j]>> \in R /\ g[i] # g[j]
  <2>1. /\ \A a, b \in 1..n : f[a] = f[b] => a = b
        /\ \A a, b \in 1..n : a < b => <<f[a], f[b]>> \in R
    BY DEF Lists
  <2>2. i \in Int /\ j \in Int /\ n \in Int /\ 1 <= i /\ j <= n + 1 /\ i <= j - 1 /\ j # 1
    BY <1>7
  <2>3. i \in 1..n /\ j - 1 \in 1..n
    BY <2>2
  <2>4. CASE Before(i)
    <3>1. g[i] = f[i] /\ <<f[i], x>> \in R /\ f[i] # x
      BY <1>1, <1>4, <2>3, <2>4
    <3>2. CASE Before(j)
      <4>1. g[j] = f[j] /\ j \in 1..n
        BY <1>4, <3>2
      <4>2. <<f[i], f[j]>> \in R /\ f[i] # f[j]
        BY <1>7, <2>1, <2>3, <4>1
      <4> QED
        BY <3>1, <4>1, <4>2
    <3>3. CASE Here(j)
      BY <1>4, <3>1, <3>3
    <3>4. CASE Behind(j)
      <4>1. i # j - 1
        BY <2>4, <3>4
      <4>2. i < j - 1
        BY <2>2, <4>1
      <4>3. g[j] = f[j - 1]
        BY <1>4, <3>4
      <4> QED
        BY <2>1, <2>3, <3>1, <4>2, <4>3
    <3> QED
      BY <1>4, <3>2, <3>3, <3>4
  <2>5. CASE ~Before(i)
    <3>1. j - 1 \notin A
      BY <1>2, <2>2, <2>3, <2>5
    <3>2. j \notin A
      <4>1. ASSUME j \in A PROVE FALSE
        <5>1. i <= j /\ i \in 1..n
          BY <2>2, <2>3
        <5> QED
          BY <1>2, <2>5, <4>1, <5>1
      <4> QED
        BY <4>1
    <3>3. g[j] = f[j - 1] /\ <<x, f[j - 1]>> \in R /\ f[j - 1] # x
      BY <1>1, <1>3, <1>4, <2>2, <2>3, <3>1, <3>2
    <3>4. CASE Here(i)
      BY <1>4, <3>3, <3>4
    <3>5. CASE Behind(i)
      <4>1. g[i] = f[i - 1] /\ i - 1 \in 1..n
        BY <1>4, <3>5
      <4>2. i - 1 < j - 1
        BY <2>2
      <4>3. <<f[i - 1], f[j - 1]>> \in R /\ f[i - 1] # f[j - 1]
        BY <2>1, <2>3, <4>1, <4>2
      <4> QED
        BY <3>3, <4>1, <4>3
    <3> QED
      BY <1>4, <2>5, <3>4, <3>5
  <2> QED
    BY <2>4, <2>5
<1>8. ASSUME NEW i \in 1..(n + 1), NEW j \in 1..(n + 1), g[i] = g[j] PROVE i = j
  <2>1. ~(i < j) /\ ~(j < i)
    BY <1>7, <1>8
  <2> QED
    BY <2>1
<1>9. Lists(g, R)
  BY <1>6, <1>7, <1>8 DEF Lists
<1> QED
  BY <1>5, <1>9

\* A finite set can be listed in any total order.
LEMMA Ordered ==
  ASSUME NEW S, IsFiniteSet(S), NEW R, Orders(R, S)
  PROVE  \E f \in [1..Cardinality(S) -> S] : Lists(f, R)
<1> DEFINE Listed(U, n) == \E f \in [1..n -> U] : Lists(f, R)
           T == {n \in Nat : \A U \in SUBSET S : Cardinality(U) = n => Listed(U, n)}
<1>1. 0 \in T
  <2> SUFFICES ASSUME NEW U \in SUBSET S PROVE Listed(U, 0)
    OBVIOUS
  <2> DEFINE f == [i \in 1..0 |-> 0]
  <2>1. f \in [1..0 -> U] /\ DOMAIN f = {}
    OBVIOUS
  <2> HIDE DEF f
  <2>2. Lists(f, R)
    BY <2>1 DEF Lists
  <2> QED
    BY <2>1, <2>2
<1>2. ASSUME NEW n \in Nat, n \in T PROVE n + 1 \in T
  <2> SUFFICES ASSUME NEW U \in SUBSET S, Cardinality(U) = n + 1 PROVE Listed(U, n + 1)
    OBVIOUS
  <2>1. IsFiniteSet(U)
    BY FS_Subset
  <2>2. U # {}
    BY <2>1, FS_EmptySet
  <2>3. PICK x \in U : TRUE
    BY <2>2
  <2> DEFINE V == U \ {x}
  <2>4. Cardinality(V) = n /\ V \in SUBSET S
    BY <2>1, <2>3, FS_RemoveElement
  <2>5. PICK f \in [1..n -> V] : Lists(f, R)
    BY <1>2, <2>4
  <2>6. x \notin V /\ V \cup {x} = U
    BY <2>3
  <2>7. Orders(R, V \cup {x})
    BY <2>6 DEF Orders
  <2> HIDE DEF V
  <2>8. \E g \in [1..(n + 1) -> V \cup {x}] : Lists(g, R)
    BY <2>5, <2>6, <2>7, Inserted
  <2> QED
    BY <2>6, <2>8
<1> HIDE DEF T
<1>3. \A n \in Nat : n \in T
  BY <1>1, <1>2, SetInduction
<1>4. Cardinality(S) \in T
  BY <1>3, FS_CardinalityType
<1> QED
  BY <1>4 DEF T

\* Rules of which the order and the rank of the id are known.
Ranked(rules, positions) ==
  /\ IsFiniteSet(positions)
  /\ \A k \in positions : rules[k].order \in Int /\ Rank[rules[k].id] \in Int

\* Sorting gives a sequence of the rules at those positions, in their order.
LEMMA RulesGetSorted ==
  ASSUME NEW rules, NEW positions, Ranked(rules, positions)
  PROVE  /\ IsSeq(Draft!Sorted(rules, positions))
         /\ \A k \in DOMAIN Draft!Sorted(rules, positions) :
              \E p \in positions : Draft!Sorted(rules, positions)[k] = rules[p]
         /\ \A j, k \in DOMAIN Draft!Sorted(rules, positions) :
              j < k => Draft!Sorted(rules, positions)[j].order <= Draft!Sorted(rules, positions)[k].order
<1> DEFINE R == {x \in positions \X positions : Draft!InOrder(rules[x[1]], rules[x[2]])}
           n == Cardinality(positions)
           InPlace(f) == /\ Draft!IsInjective(f)
                         /\ \A j, k \in DOMAIN f : j < k => Draft!InOrder(rules[f[j]], rules[f[k]])
           at == CHOOSE f \in [1..n -> positions] : InPlace(f)
           sorted == Draft!Sorted(rules, positions)
<1>1. \A x, y \in positions : <<x, y>> \in R <=> Draft!InOrder(rules[x], rules[y])
  OBVIOUS
<1> HIDE DEF R
<1>2. Orders(R, positions)
  BY <1>1 DEF Ranked, Orders, Draft!InOrder
<1>3. PICK f \in [1..n -> positions] : Lists(f, R)
  BY <1>2, Ordered DEF Ranked
<1>4. InPlace(f)
  <2>1. \A k \in DOMAIN f : f[k] \in positions
    OBVIOUS
  <2> QED
    BY <1>1, <1>3, <2>1 DEF Lists, Draft!IsInjective
<1>5. n \in Nat /\ Draft!Cardinality(positions) = n
  <2>1. n \in Nat
    BY FS_CardinalityType DEF Ranked
  <2>2. Draft!Cardinality(positions) = n
    BY DEF Draft!Cardinality, Cardinality
  <2> QED
    BY <2>1, <2>2
<1>6. at \in [1..n -> positions] /\ InPlace(at)
  BY <1>4
<1>7. sorted = [k \in DOMAIN at |-> rules[at[k]]]
  BY <1>5 DEF Draft!Sorted
<1> HIDE DEF at, n, sorted
<1>8. DOMAIN at = 1..n /\ \A k \in 1..n : at[k] \in positions
  BY <1>6
<1>9. IsSeq(sorted) /\ DOMAIN sorted = 1..n
  <2>1. sorted = [k \in 1..n |-> sorted[k]]
    BY <1>7, <1>8
  <2> QED
    BY <1>5, <2>1, FunctionsAreSequences
<1>10. \A k \in 1..n : sorted[k] = rules[at[k]]
  BY <1>7, <1>8
<1>11. ASSUME NEW j \in 1..n, NEW k \in 1..n, j < k PROVE sorted[j].order <= sorted[k].order
  <2>1. Draft!InOrder(rules[at[j]], rules[at[k]])
    BY <1>6, <1>8, <1>11
  <2> QED
    BY <1>8, <1>10, <2>1 DEF Ranked, Draft!InOrder
<1>12. \A k \in 1..n : \E p \in positions : sorted[k] = rules[p]
  BY <1>8, <1>10
<1> QED
  BY <1>9, <1>11, <1>12 DEF sorted

-----------------------------------------------------------------------------
(* Drafts: what is read of a message. *)

\* A path is a sequence of names, and leads from the first of them.
Path(f) == IsSeq(f) /\ f # <<>>

LEMMA PathsBegin ==
  ASSUME NEW f, Path(f)
  PROVE  /\ Head(f) = f[1] /\ 1 \in DOMAIN f
         /\ IsSeq(Tail(f)) /\ Len(Tail(f)) \in Nat /\ Len(Tail(f)) = Len(f) - 1
         /\ \A k \in 1..Len(Tail(f)) : k + 1 \in DOMAIN f /\ Tail(f)[k] = f[k + 1]
<1>1. Len(f) \in Nat /\ DOMAIN f = 1..Len(f)
  BY SequencesAreSuch DEF Path
<1> DEFINE S == {f[i] : i \in DOMAIN f}
<1>2. f \in Seq(S)
  BY DEF Path, IsSeq
<1> HIDE DEF S
<1>3. f # <<>> /\ Len(f) # 0
  BY <1>2 DEF Path
<1>4. Tail(f) \in Seq(S) /\ Len(Tail(f)) = Len(f) - 1 /\ Head(f) = f[1]
  BY <1>2, <1>3
<1>5. \A k \in 1..Len(Tail(f)) : Tail(f)[k] = f[k + 1]
  BY <1>2, <1>3, <1>4
<1>6. IsSeq(Tail(f)) /\ Len(Tail(f)) \in Nat
  BY <1>4, SequencesAreSuch
<1> QED
  BY <1>1, <1>3, <1>4, <1>5, <1>6

\* What is found after each part of a path, by objects alone.
Finds(F, n, values, path) ==
  F = [k \in 0..n |-> IF k = 0 THEN values ELSE UNION {Draft!Field(x, path[k]) : x \in F[k - 1]}]

LEMMA FindsExist ==
  ASSUME NEW values, NEW path
  PROVE  \A n \in Nat : \E F : Finds(F, n, values, path)
<1> DEFINE T == {m \in Nat : \E F : Finds(F, m, values, path)}
           Deeper(F, k) == UNION {Draft!Field(x, path[k]) : x \in F[k - 1]}
<1>1. 0 \in T
  <2> DEFINE F == [k \in 0..0 |-> values]
  <2>1. F = [k \in 0..0 |-> IF k = 0 THEN values ELSE Deeper(F, k)]
    OBVIOUS
  <2> HIDE DEF F
  <2> QED
    BY <2>1 DEF Finds
<1>2. ASSUME NEW m \in Nat, m \in T PROVE m + 1 \in T
  <2>1. PICK F : Finds(F, m, values, path)
    BY <1>2
  <2> DEFINE G == [k \in 0..(m + 1) |-> IF k = 0 THEN values ELSE Deeper(F, k)]
  <2>3. \A k \in 0..(m + 1) : k # 0 => k - 1 \in 0..m
    OBVIOUS
  <2>2. \A k \in 0..m : G[k] = F[k]
    <3>1. ASSUME NEW k \in 0..m PROVE G[k] = F[k]
      <4>1. k \in 0..(m + 1)
        OBVIOUS
      <4>2. G[k] = IF k = 0 THEN values ELSE Deeper(F, k)
        BY <4>1
      <4>3. F[k] = IF k = 0 THEN values ELSE Deeper(F, k)
        BY <2>1 DEF Finds
      <4> HIDE DEF G, Deeper
      <4> QED
        BY <4>2, <4>3
    <3> QED
      BY <3>1
  <2>4. DOMAIN G = 0..(m + 1) /\ G = [k \in 0..(m + 1) |-> IF k = 0 THEN values ELSE Deeper(F, k)]
    OBVIOUS
  <2> HIDE DEF G
  <2>5. \A k \in 0..(m + 1) : k # 0 => Deeper(F, k) = Deeper(G, k)
    BY <2>2, <2>3
  <2>6. G = [k \in 0..(m + 1) |-> IF k = 0 THEN values ELSE Deeper(G, k)]
    BY <2>4, <2>5
  <2>7. Finds(G, m + 1, values, path)
    BY <2>6 DEF Finds
  <2> QED
    BY <2>7
<1> HIDE DEF T
<1>3. \A m \in Nat : m \in T
  BY <1>1, <1>2, SetInduction
<1> QED
  BY <1>3 DEF T

\* There is no other.
LEMMA FindsOne ==
  ASSUME NEW values, NEW path, NEW n \in Nat, NEW F, NEW G,
         Finds(F, n, values, path), Finds(G, n, values, path)
  PROVE  F[n] = G[n]
<1> DEFINE T == {m \in Nat : m <= n => F[m] = G[m]}
<1>1. 0 \in T
  BY DEF Finds
<1>2. ASSUME NEW m \in Nat, m \in T PROVE m + 1 \in T
  <2> SUFFICES ASSUME m + 1 <= n PROVE F[m + 1] = G[m + 1]
    OBVIOUS
  <2>1. F[m] = G[m]
    BY <1>2
  <2>2. m + 1 \in 0..n /\ m + 1 # 0 /\ (m + 1) - 1 = m
    OBVIOUS
  <2> HIDE DEF T
  <2>3. F[m + 1] = UNION {Draft!Field(x, path[m + 1]) : x \in F[m]}
    BY <2>2 DEF Finds
  <2>4. G[m + 1] = UNION {Draft!Field(x, path[m + 1]) : x \in G[m]}
    BY <2>2 DEF Finds
  <2> QED
    BY <2>1, <2>3, <2>4
<1> HIDE DEF T
<1>3. n \in T
  BY <1>1, <1>2, SetInduction
<1> QED
  BY <1>3 DEF T

\* A path of names that are no indexes finds in objects and lists what it finds in
\* objects.
LEMMA NamesAreNoIndexes ==
  ASSUME NEW v, NEW f, Path(f), Draft!ToSet(f) \cap DOMAIN Draft!Index = {}
  PROVE  Draft!At(v, f) = Draft!FieldAt(v, f)
<1> DEFINE path == Tail(f)
           n == Len(path)
           values == Draft!Field(v, Head(f))
           Found(F) == F = [k \in 0..n |-> IF k = 0 THEN values ELSE UNION {Draft!Part(x, path[k]) : x \in F[k - 1]}]
           a == CHOOSE F : Found(F)
           b == CHOOSE F : Finds(F, n, values, path)
<1>1. /\ Head(f) = f[1] /\ 1 \in DOMAIN f /\ f # <<>>
      /\ n \in Nat /\ \A k \in 1..n : k + 1 \in DOMAIN f /\ path[k] = f[k + 1]
  BY PathsBegin DEF Path
<1>2. \A x, k : k \in DOMAIN f => Draft!Part(x, f[k]) = Draft!Field(x, f[k])
  BY DEF Draft!Part, Draft!Item, Draft!ToSet
<1>3. Draft!FieldAt(v, f) = b[n]
  BY <1>1 DEF Draft!FieldAt, Draft!Walk, Draft!Descend, Finds
<1>4. Draft!Part(v, Head(f)) = values
  BY <1>1, <1>2
<1>5. Draft!At(v, f) = a[n]
  BY <1>1, <1>4 DEF Draft!At, Draft!Walk, Draft!Descend
<1> HIDE DEF values, n, path
<1>6. \A x, k : k \in 1..n => Draft!Part(x, path[k]) = Draft!Field(x, path[k])
  BY <1>1, <1>2
<1>7. ASSUME NEW F PROVE Found(F) <=> Finds(F, n, values, path)
  <2>1. \A k \in 1..n : UNION {Draft!Part(x, path[k]) : x \in F[k - 1]}
                         = UNION {Draft!Field(x, path[k]) : x \in F[k - 1]}
    BY <1>6
  <2>2. \A k \in 0..n : k # 0 => k \in 1..n
    BY <1>1
  <2> QED
    BY <2>1, <2>2 DEF Finds
<1>8. \E F : Finds(F, n, values, path)
  BY <1>1, FindsExist
<1>9. Finds(b, n, values, path)
  BY <1>8
<1>10. Found(a)
  BY <1>7, <1>8
<1> HIDE DEF a, b, Found
<1>11. Finds(a, n, values, path)
  BY <1>7, <1>10
<1> QED
  BY <1>1, <1>3, <1>5, <1>9, <1>11, FindsOne

\* What one name leads to.
LEMMA OneName ==
  ASSUME NEW v, NEW f, Path(f), Len(f) = 1, v.kind = "map"
  PROVE  /\ Draft!At(v, f) = Draft!Field(v, f[1])
         /\ Draft!FieldAt(v, f) = Draft!Field(v, f[1])
<1> DEFINE path == Tail(f)
           values == Draft!Field(v, Head(f))
           P(F) == F = [k \in 0..0 |-> IF k = 0 THEN values ELSE UNION {Draft!Part(x, path[k]) : x \in F[k - 1]}]
           Q(F) == F = [k \in 0..0 |-> IF k = 0 THEN values ELSE UNION {Draft!Field(x, path[k]) : x \in F[k - 1]}]
           a == CHOOSE F : P(F)
           b == CHOOSE F : Q(F)
           c == [k \in 0..0 |-> values]
<1>1. Head(f) = f[1] /\ f # <<>> /\ Len(path) = 0
  BY PathsBegin DEF Path
<1>2. Draft!Part(v, Head(f)) = values
  BY DEF Draft!Part, Draft!Item
<1>3. Draft!At(v, f) = a[0]
  <2>1. Draft!At(v, f) = Draft!Descend(Draft!Part(v, Head(f)), Tail(f), Draft!Part)
    BY <1>1 DEF Draft!At, Draft!Walk
  <2>2. Draft!At(v, f) = Draft!Descend(values, path, Draft!Part)
    BY <1>2, <2>1
  <2> HIDE DEF values, path
  <2>3. Draft!Descend(values, path, Draft!Part) = a[0]
    BY <1>1 DEF Draft!Descend
  <2> QED
    BY <2>2, <2>3
<1>4. Draft!FieldAt(v, f) = b[0]
  BY <1>1 DEF Draft!FieldAt, Draft!Walk, Draft!Descend
<1>5. P(c) /\ Q(c)
  OBVIOUS
<1>6. P(a) /\ Q(b)
  BY <1>5
<1> HIDE DEF a, b, c
<1>7. a[0] = values /\ b[0] = values
  BY <1>6
<1> QED
  BY <1>1, <1>3, <1>4, <1>7

\* Writing one field of an object changes nothing that is found under another.
LEMMA OthersAreFound ==
  ASSUME NEW v, IsObject(v), NEW key, NEW x, NEW f, Path(f), f[1] # key
  PROVE  /\ IsObject(Draft!Put(v, key, x))
         /\ Draft!FieldAt(Draft!Put(v, key, x), f) = Draft!FieldAt(v, f)
<1> DEFINE w == Draft!Put(v, key, x)
<1>1. w = H!Put(v, key, x)
  BY DEF Draft!Put, H!Put
<1> HIDE DEF w
<1>2. /\ IsObject(w) /\ DOMAIN w.fields = DOMAIN v.fields \cup {key}
      /\ \A k \in DOMAIN v.fields \cup {key} : w.fields[k] = IF k = key THEN x ELSE v.fields[k]
  BY <1>1, PutFields
<1>3. v.kind = "map" /\ w.kind = "map"
  <2>1. \A e : H!Object(e).kind = "map"
    BY DEF H!Object, H!Value
  <2> QED
    BY <1>2, <2>1 DEF IsObject
<1>4. Head(f) = f[1] /\ f # <<>>
  BY PathsBegin DEF Path
<1>5. Draft!Field(w, Head(f)) = Draft!Field(v, Head(f))
  BY <1>2, <1>3, <1>4 DEF Draft!Field
<1>6. Draft!FieldAt(w, f) = Draft!Descend(Draft!Field(w, Head(f)), Tail(f), Draft!Field)
  BY <1>4 DEF Draft!FieldAt, Draft!Walk
<1>7. Draft!FieldAt(v, f) = Draft!Descend(Draft!Field(v, Head(f)), Tail(f), Draft!Field)
  BY <1>4 DEF Draft!FieldAt, Draft!Walk
<1> QED
  BY <1>2, <1>5, <1>6, <1>7 DEF w

-----------------------------------------------------------------------------
(* Drafts: the events that they accept. *)

\* The outcome after one more step.
Later(o, step) == IF o.proceed THEN Draft!Run(step, o.payload) ELSE o

\* The outcomes after each of the first n steps.
Outcomes(F, n, steps, payload) ==
  F = [k \in 0..n |-> IF k = 0 THEN Draft!Done(payload) ELSE Later(F[k - 1], steps[k])]

LEMMA OutcomesExist ==
  ASSUME NEW steps, NEW payload
  PROVE  \A n \in Nat : \E F : Outcomes(F, n, steps, payload)
<1> DEFINE T == {m \in Nat : \E F : Outcomes(F, m, steps, payload)}
           first == Draft!Done(payload)
<1>1. 0 \in T
  <2> DEFINE F == [k \in 0..0 |-> first]
  <2>1. F = [k \in 0..0 |-> IF k = 0 THEN first ELSE Later(F[k - 1], steps[k])]
    OBVIOUS
  <2> HIDE DEF F
  <2> QED
    BY <2>1 DEF Outcomes
<1>2. ASSUME NEW m \in Nat, m \in T PROVE m + 1 \in T
  <2>1. PICK F : Outcomes(F, m, steps, payload)
    BY <1>2
  <2> DEFINE G == [k \in 0..(m + 1) |-> IF k = 0 THEN first ELSE Later(F[k - 1], steps[k])]
  <2>2. \A k \in 0..(m + 1) : k # 0 => k - 1 \in 0..m
    OBVIOUS
  <2> HIDE DEF first
  <2>3. \A k \in 0..m : G[k] = F[k]
    <3>1. ASSUME NEW k \in 0..m PROVE G[k] = F[k]
      <4>1. k \in 0..(m + 1)
        OBVIOUS
      <4>2. G[k] = IF k = 0 THEN first ELSE Later(F[k - 1], steps[k])
        BY <4>1
      <4>3. F[k] = IF k = 0 THEN first ELSE Later(F[k - 1], steps[k])
        BY <2>1 DEF Outcomes, first
      <4> HIDE DEF G
      <4> QED
        BY <4>2, <4>3
    <3> QED
      BY <3>1
  <2>4. G = [k \in 0..(m + 1) |-> IF k = 0 THEN first ELSE Later(F[k - 1], steps[k])]
    OBVIOUS
  <2> HIDE DEF G
  <2>5. G = [k \in 0..(m + 1) |-> IF k = 0 THEN first ELSE Later(G[k - 1], steps[k])]
    BY <2>2, <2>3, <2>4
  <2>6. Outcomes(G, m + 1, steps, payload)
    BY <2>5 DEF Outcomes, first
  <2> QED
    BY <2>6
<1> HIDE DEF T
<1>3. \A m \in Nat : m \in T
  BY <1>1, <1>2, SetInduction
<1> QED
  BY <1>3 DEF T

\* A workflow accepts an event when no step stops it.
LEMMA AcceptedByAll ==
  ASSUME NEW steps, NEW payload, Len(steps) \in Nat
  PROVE  \E F : /\ F[0] = Draft!Done(payload)
                /\ \A k \in 1..Len(steps) : F[k] = Later(F[k - 1], steps[k])
                /\ Draft!Accepts(steps, payload) <=> F[Len(steps)].proceed
<1> DEFINE n == Len(steps)
           F == CHOOSE F : Outcomes(F, n, steps, payload)
<1>1. Draft!Accepts(steps, payload) <=> F[n].proceed
  BY DEF Draft!Accepts, Outcomes, Later
<1>2. \E G : Outcomes(G, n, steps, payload)
  BY OutcomesExist
<1>3. Outcomes(F, n, steps, payload)
  BY <1>2
<1> HIDE DEF F, n
<1>4. n \in Nat
  BY DEF n
<1>5. F[0] = Draft!Done(payload) /\ \A k \in 1..n : F[k] = Later(F[k - 1], steps[k])
  BY <1>3, <1>4 DEF Outcomes
<1> QED
  BY <1>1, <1>5 DEF n

\* A read value that counts as given for validate.
Present(v) == v.kind # "nil" /\ v # Draft!Text("")

\* validate lets a message through that has all the fields, and no other.
LEMMA ValidateDecides ==
  ASSUME NEW R, NEW p
  PROVE  LET o == Draft!Validate([required |-> R, stopOnFailure |-> TRUE], p)
         IN  /\ (\A f \in R : Present(Draft!Only(Draft!At(p, f)))) =>
                  o.proceed /\ o.payload = Draft!Put(p, "validation_passed", Draft!Bool(TRUE))
             /\ (\E f \in R : ~Present(Draft!Only(Draft!At(p, f)))) => ~o.proceed
<1> DEFINE s == [required |-> R, stopOnFailure |-> TRUE]
           missing == {f \in R : Draft!Only(Draft!At(p, f)).kind = "nil" \/ Draft!Only(Draft!At(p, f)) = Draft!Text("")}
           passed == Draft!Put(p, "validation_passed", Draft!Bool(TRUE))
           noted == Draft!Put(p, "validation_error", Draft!Text("missing"))
           o == Draft!Validate(s, p)
<1>1. s.required = R /\ s.stopOnFailure = TRUE
  OBVIOUS
<1> HIDE DEF s
<1>2. o = IF missing = {} THEN Draft!Done(passed) ELSE Draft!Failed(noted)
  BY <1>1 DEF Draft!Validate
<1> HIDE DEF o, passed, noted
<1>3. (\A f \in R : Present(Draft!Only(Draft!At(p, f)))) => missing = {}
  BY DEF Present
<1>4. (\E f \in R : ~Present(Draft!Only(Draft!At(p, f)))) => missing # {}
  BY DEF Present
<1> HIDE DEF missing
<1>5. /\ Draft!Done(passed).proceed /\ Draft!Done(passed).payload = passed
      /\ ~Draft!Failed(noted).proceed
  BY DEF Draft!Done, Draft!Failed, Draft!Outcome
<1> QED
  BY <1>2, <1>3, <1>4, <1>5 DEF o, passed, s

\* A cel step whose expression is true.
LEMMA TrueIsNoted ==
  ASSUME NEW s, NEW p
  PROVE  LET o == Draft!Cel(s, p, "true")
         IN  o.proceed /\ o.payload = Draft!Put(Draft!Put(p, s.target, Draft!Bool(TRUE)), "cel_passed", Draft!Bool(TRUE))
<1> DEFINE noted == Draft!Put(Draft!Put(p, s.target, Draft!Bool(TRUE)), "cel_passed", Draft!Bool(TRUE))
<1>1. "true" # "error" /\ ("true" = "true") = TRUE
  OBVIOUS
<1>2. Draft!Cel(s, p, "true") = Draft!Done(noted)
  BY <1>1, Zenon DEF Draft!Cel
<1> HIDE DEF noted
<1>3. Draft!Done(noted).proceed /\ Draft!Done(noted).payload = noted
  BY DEF Draft!Done, Draft!Outcome
<1> QED
  BY <1>2, <1>3 DEF noted

\* The steps of a draft: validate, and then steps that write nothing or check some of
\* the fields it requires.
Checked(steps) ==
  /\ Len(steps) \in Nat /\ Len(steps) # 0 /\ steps[1].name = "validate"
  /\ \A f \in steps[1].fields : Path(f)
  /\ \A k \in 2..Len(steps) : steps[k].name # "validate"

\* Without checks, a draft accepts what validate accepts.
LEMMA UncheckedAccepts ==
  ASSUME NEW steps, Checked(steps), \A k \in 2..Len(steps) : steps[k].name # "cel", NEW payload,
         \A f \in steps[1].fields : Present(Draft!Only(Draft!At(payload, f)))
  PROVE  Draft!Accepts(steps, payload)
<1> DEFINE n == Len(steps)
<1>1. n \in Nat /\ n # 0 /\ steps[1].name = "validate"
  BY DEF Checked
<1>2. PICK F : /\ F[0] = Draft!Done(payload)
               /\ \A k \in 1..n : F[k] = Later(F[k - 1], steps[k])
               /\ Draft!Accepts(steps, payload) <=> F[n].proceed
  BY <1>1, AcceptedByAll
<1>3. F[0].proceed /\ F[0].payload = payload
  BY <1>2 DEF Draft!Done, Draft!Outcome
<1>4. F[1] = Later(F[0], steps[1])
  BY <1>1, <1>2
<1>5. F[1] = Draft!Validate([required |-> steps[1].fields, stopOnFailure |-> TRUE], payload)
  BY <1>1, <1>3, <1>4 DEF Later, Draft!Run
<1>6. F[1].proceed
  BY <1>5, ValidateDecides
<1> DEFINE T == {m \in Nat : m + 1 <= n => F[m + 1].proceed}
<1>7. 0 \in T
  BY <1>6
<1>8. ASSUME NEW m \in Nat, m \in T PROVE m + 1 \in T
  <2> SUFFICES ASSUME (m + 1) + 1 <= n PROVE F[(m + 1) + 1].proceed
    OBVIOUS
  <2> DEFINE k == (m + 1) + 1
  <2>1. k \in 2..n /\ k \in 1..n /\ k - 1 = m + 1 /\ m + 1 <= n
    BY <1>1
  <2>2. F[k - 1].proceed
    BY <1>8, <2>1
  <2> HIDE DEF k
  <2>3. F[k] = Draft!Run(steps[k], F[k - 1].payload)
    BY <1>2, <2>1, <2>2 DEF Later
  <2>4. steps[k].name # "validate" /\ steps[k].name # "cel"
    BY <2>1 DEF Checked
  <2>5. F[k] = Draft!Done(F[k - 1].payload)
    BY <2>3, <2>4 DEF Draft!Run
  <2>6. F[k].proceed
    BY <2>5 DEF Draft!Done, Draft!Outcome
  <2> QED
    BY <2>6 DEF k
<1> HIDE DEF T
<1>9. n - 1 \in T
  BY <1>1, <1>7, <1>8, SetInduction
<1>10. F[n].proceed
  BY <1>1, <1>9 DEF T
<1> QED
  BY <1>2, <1>10

\* An object in which the fields R are what they are in p.
Keeps(q, p, R) == IsObject(q) /\ \A f \in R : Draft!FieldAt(q, f) = Draft!FieldAt(p, f)

\* Writing another field keeps them.
LEMMA OthersAreKept ==
  ASSUME NEW p, NEW q, NEW R, Keeps(q, p, R), \A f \in R : Path(f),
         NEW key, \A f \in R : f[1] # key, NEW x
  PROVE  Keeps(Draft!Put(q, key, x), p, R)
<1>1. IsObject(q)
  BY DEF Keeps
<1>2. IsObject(Draft!Put(q, key, x))
  <2>1. Draft!Put(q, key, x) = H!Put(q, key, x)
    BY DEF Draft!Put, H!Put
  <2> QED
    BY <1>1, <2>1, PutFields
<1>3. ASSUME NEW f \in R PROVE Draft!FieldAt(Draft!Put(q, key, x), f) = Draft!FieldAt(p, f)
  <2>1. Path(f) /\ f[1] # key /\ Draft!FieldAt(q, f) = Draft!FieldAt(p, f)
    BY DEF Keeps
  <2> QED
    BY <1>1, <2>1, OthersAreFound
<1> QED
  BY <1>2, <1>3 DEF Keeps

\* What one step of a draft does to a message that has all the fields: it is let
\* through, and the fields stay.
LEMMA CheckPasses ==
  ASSUME NEW step, NEW p, NEW q, NEW R, Keeps(q, p, R),
         \A f \in R : Path(f) /\ Draft!ToSet(f) \subseteq Readable /\ Present(Draft!Only(Draft!FieldAt(p, f))),
         \A f \in R : f[1] # Draft!Target(step) /\ f[1] # "cel_passed",
         step.name # "validate", step.name = "cel" => step.fields \subseteq R
  PROVE  Draft!Run(step, q).proceed /\ Keeps(Draft!Run(step, q).payload, p, R)
<1>1. CASE step.name # "cel"
  <2>1. Draft!Run(step, q) = Draft!Done(q)
    BY <1>1 DEF Draft!Run
  <2> QED
    BY <2>1 DEF Draft!Done, Draft!Outcome
<1>2. CASE step.name = "cel"
  <2> DEFINE s == [target |-> Draft!Target(step), onFalse |-> "error", to |-> ""]
             yes == Draft!Bool(TRUE)
             once == Draft!Put(q, Draft!Target(step), yes)
             twice == Draft!Put(once, "cel_passed", yes)
  <2>1. ASSUME NEW f \in step.fields
        PROVE  /\ Draft!FieldAt(q, f) # {} /\ Draft!ToSet(f) \subseteq Readable
               /\ Draft!Only(Draft!FieldAt(q, f)).kind # "nil"
    <3>1. f \in R
      BY <1>2
    <3>2. Draft!ToSet(f) \subseteq Readable /\ Present(Draft!Only(Draft!FieldAt(p, f)))
      BY <3>1
    <3>3. Draft!FieldAt(q, f) = Draft!FieldAt(p, f)
      BY <3>1 DEF Keeps
    <3>4. Draft!Only(Draft!FieldAt(q, f)).kind # "nil"
      BY <3>2, <3>3 DEF Present
    <3>5. Draft!Only({}).kind = "nil"
      BY DEF Draft!Only, Draft!Nil, Draft!Value
    <3> QED
      BY <3>2, <3>4, <3>5
  <2>2. Draft!Verdict(step.fields, q) = "true"
    BY <2>1 DEF Draft!Verdict, Draft!Answer
  <2>3. Draft!Run(step, q) = Draft!Cel(s, q, "true")
    BY <1>2, <2>2 DEF Draft!Run
  <2>4. s.target = Draft!Target(step)
    OBVIOUS
  <2> HIDE DEF s, yes
  <2>5. Draft!Run(step, q).proceed /\ Draft!Run(step, q).payload = twice
    BY <2>3, <2>4, TrueIsNoted DEF yes
  <2>6. Keeps(once, p, R)
    BY OthersAreKept
  <2> HIDE DEF once
  <2>7. Keeps(twice, p, R)
    BY <2>6, OthersAreKept
  <2> QED
    BY <2>5, <2>7
<1> QED
  BY <1>1, <1>2

\* The checks of a draft demand no more than its validate step, and write none of it.
LEMMA CheckedAccepts ==
  ASSUME NEW steps, IsSeq(steps), Checked(steps), Draft!InCel(steps), Draft!Untouched(steps),
         \A k \in 2..Len(steps) : steps[k].name = "cel" => steps[k].fields \subseteq steps[1].fields,
         Readable \cap DOMAIN Draft!Index = {}, NEW payload, IsObject(payload)
  PROVE  Draft!Accepts(steps, payload) <=> \A f \in steps[1].fields : Draft!GivenIn(payload, f)
<1> DEFINE n == Len(steps)
           R == steps[1].fields
<1>1. n \in Nat /\ n # 0 /\ steps[1].name = "validate" /\ \A f \in R : Path(f)
  BY DEF Checked
<1>2. PICK F : /\ F[0] = Draft!Done(payload)
               /\ \A k \in 1..n : F[k] = Later(F[k - 1], steps[k])
               /\ Draft!Accepts(steps, payload) <=> F[n].proceed
  BY <1>1, AcceptedByAll
<1>3. F[0].proceed /\ F[0].payload = payload
  BY <1>2 DEF Draft!Done, Draft!Outcome
<1>4. F[1] = Later(F[0], steps[1])
  BY <1>1, <1>2
<1>5. F[1] = Draft!Validate([required |-> R, stopOnFailure |-> TRUE], payload)
  BY <1>1, <1>3, <1>4 DEF Later, Draft!Run
<1>6. \A f \in R : Draft!ToSet(f) \subseteq Readable
  BY DEF Draft!InCel
<1>7. \A f \in R : Draft!At(payload, f) = Draft!FieldAt(payload, f)
  BY <1>1, <1>6, NamesAreNoIndexes
<1>8. \A f \in R : Draft!GivenIn(payload, f) <=> Present(Draft!Only(Draft!FieldAt(payload, f)))
  BY DEF Draft!GivenIn, Present
<1> HIDE DEF n, R
<1>9. ASSUME NEW g \in R, ~Draft!GivenIn(payload, g) PROVE ~F[n].proceed
  <2> DEFINE T == {m \in Nat : m + 1 <= n => ~F[m + 1].proceed}
  <2>1. 0 \in T
    <3>1. ~Present(Draft!Only(Draft!At(payload, g)))
      BY <1>7, <1>8, <1>9
    <3>2. \E f \in R : ~Present(Draft!Only(Draft!At(payload, f)))
      BY <3>1
    <3>3. ~Draft!Validate([required |-> R, stopOnFailure |-> TRUE], payload).proceed
      BY <3>2, ValidateDecides
    <3>4. ~F[1].proceed
      BY <1>5, <3>3
    <3>5. 0 + 1 = 1
      OBVIOUS
    <3> QED
      BY <3>4, <3>5
  <2>2. ASSUME NEW m \in Nat, m \in T PROVE m + 1 \in T
    <3> SUFFICES ASSUME (m + 1) + 1 <= n PROVE ~F[(m + 1) + 1].proceed
      OBVIOUS
    <3> DEFINE k == (m + 1) + 1
    <3>1. k \in 1..n /\ k - 1 = m + 1 /\ m + 1 <= n
      BY <1>1
    <3>2. ~F[k - 1].proceed
      BY <2>2, <3>1
    <3> HIDE DEF k
    <3>3. F[k] = F[k - 1]
      BY <1>2, <3>1, <3>2 DEF Later
    <3> QED
      BY <3>2, <3>3 DEF k
  <2> HIDE DEF T
  <2>3. n - 1 \in T
    BY <1>1, <2>1, <2>2, SetInduction
  <2> QED
    BY <1>1, <2>3 DEF T
<1>10. ASSUME \A f \in R : Draft!GivenIn(payload, f) PROVE F[n].proceed
  <2>1. \A f \in R : Present(Draft!Only(Draft!FieldAt(payload, f)))
    BY <1>8, <1>10
  <2>2. F[1].proceed /\ F[1].payload = Draft!Put(payload, "validation_passed", Draft!Bool(TRUE))
    BY <1>5, <1>7, <2>1, ValidateDecides
  <2>3. \A f \in R : f[1] # "validation_passed" /\ f[1] # "cel_passed"
    BY DEF Draft!Untouched, R
  <2>4. \A k \in 1..n : \A f \in R : f[1] # Draft!Target(steps[k])
    <3>1. \A k \in 1..n : steps[k] \in Draft!ToSet(steps)
      BY SequencesAreSuch DEF Draft!ToSet, n
    <3> QED
      BY <3>1 DEF Draft!Untouched, R
  <2>5. Keeps(payload, payload, R)
    BY DEF Keeps
  <2>6. Keeps(F[1].payload, payload, R)
    BY <1>1, <2>2, <2>3, <2>5, OthersAreKept
  <2> DEFINE T == {m \in Nat : m + 1 <= n => F[m + 1].proceed /\ Keeps(F[m + 1].payload, payload, R)}
  <2>7. 0 \in T
    <3>1. 0 + 1 = 1
      OBVIOUS
    <3> QED
      BY <2>2, <2>6, <3>1
  <2>8. ASSUME NEW m \in Nat, m \in T PROVE m + 1 \in T
    <3> SUFFICES ASSUME (m + 1) + 1 <= n
                 PROVE  F[(m + 1) + 1].proceed /\ Keeps(F[(m + 1) + 1].payload, payload, R)
      OBVIOUS
    <3> DEFINE k == (m + 1) + 1
               q == F[k - 1].payload
    <3>1. k \in 2..n /\ k \in 1..n /\ k - 1 = m + 1 /\ m + 1 <= n
      BY <1>1
    <3>2. F[k - 1].proceed /\ Keeps(q, payload, R)
      BY <2>8, <3>1
    <3> HIDE DEF k, q
    <3>3. F[k] = Draft!Run(steps[k], q)
      BY <1>2, <3>1, <3>2 DEF Later, q
    <3>4. steps[k].name # "validate" /\ (steps[k].name = "cel" => steps[k].fields \subseteq R)
      BY <3>1 DEF Checked, n, R
    <3>5. \A f \in R : f[1] # Draft!Target(steps[k]) /\ f[1] # "cel_passed"
      BY <2>3, <2>4, <3>1
    <3>6. \A f \in R : Path(f) /\ Draft!ToSet(f) \subseteq Readable /\ Present(Draft!Only(Draft!FieldAt(payload, f)))
      BY <1>1, <1>6, <2>1
    <3>7. F[k].proceed /\ Keeps(F[k].payload, payload, R)
      BY <3>2, <3>3, <3>4, <3>5, <3>6, CheckPasses
    <3> QED
      BY <3>7 DEF k
  <2> HIDE DEF T
  <2>9. n - 1 \in T
    BY <1>1, <2>7, <2>8, SetInduction
  <2> QED
    BY <1>1, <2>9 DEF T
<1> QED
  BY <1>2, <1>9, <1>10 DEF R

\* A field of one name that is given in an object of texts.
LEMMA NamesAreGiven ==
  ASSUME NEW e, NEW f, Path(f), Len(f) = 1, f[1] \in DOMAIN e, NEW t, t # "", e[f[1]] = Draft!Text(t)
  PROVE  /\ Present(Draft!Only(Draft!At(Draft!Object(e), f)))
         /\ Draft!GivenIn(Draft!Object(e), f)
<1> DEFINE v == Draft!Object(e)
<1>1. v.kind = "map" /\ v.fields = e
  BY DEF Draft!Object, Draft!Value
<1> HIDE DEF v
<1>2. Draft!At(v, f) = Draft!Field(v, f[1]) /\ Draft!FieldAt(v, f) = Draft!Field(v, f[1])
  BY <1>1, OneName
<1>3. Draft!Field(v, f[1]) = {Draft!Text(t)}
  BY <1>1 DEF Draft!Field
<1>4. \A x : Draft!Only({x}) = x
  BY DEF Draft!Only
<1>5. Draft!Text(t).kind # "nil" /\ Draft!Text(t) # Draft!Text("")
  <2>1. \A u : Draft!Text(u).kind = "text" /\ Draft!Text(u).text = u
    BY DEF Draft!Text, Draft!Value
  <2> QED
    BY <2>1
<1>6. Draft!Only(Draft!At(v, f)) = Draft!Text(t) /\ Draft!Only(Draft!FieldAt(v, f)) = Draft!Text(t)
  BY <1>2, <1>3, <1>4
<1> QED
  BY <1>5, <1>6 DEF Present, Draft!GivenIn, v

\* The test payload is an object and has every field of one name.
LEMMA TestIsComplete ==
  ASSUME NEW steps, \A f \in steps[1].fields : Path(f) /\ Len(f) = 1
  PROVE  /\ IsObject(Draft!TestPayload(steps))
         /\ \A f \in steps[1].fields :
              /\ Present(Draft!Only(Draft!At(Draft!TestPayload(steps), f)))
              /\ Draft!GivenIn(Draft!TestPayload(steps), f)
<1> DEFINE base == [correlation_id |-> Draft!Text("c1"), event_name |-> Draft!Text("requested"), received_at |-> Draft!Text("t")]
           R == steps[1].fields
           e == [k \in DOMAIN base \cup {Draft!Dotted(f) : f \in R} |-> IF k \in DOMAIN base THEN base[k] ELSE Draft!Text("sample")]
<1>1. Draft!TestPayload(steps) = Draft!Object(e)
  BY DEF Draft!TestPayload
<1>2. \A k \in DOMAIN e : \E t \in {"c1", "requested", "t", "sample"} : e[k] = Draft!Text(t)
  OBVIOUS
<1>3. ASSUME NEW f \in R PROVE Draft!Dotted(f) = f[1]
  <2> DEFINE J(F) == F = [k \in 1..1 |-> IF k = 1 THEN f[1] ELSE F[k - 1] \o "." \o f[k]]
             F == CHOOSE F : J(F)
             G == [k \in 1..1 |-> f[1]]
  <2>1. Draft!Dotted(f) = F[1]
    BY DEF Draft!Dotted
  <2>2. J(G)
    OBVIOUS
  <2>3. J(F)
    BY <2>2
  <2> HIDE DEF F, G
  <2>4. F[1] = f[1]
    BY <2>3
  <2> QED
    BY <2>1, <2>4
<1>4. \A f \in R : f[1] \in DOMAIN e
  BY <1>3
<1> HIDE DEF e
<1>5. IsObject(Draft!Object(e))
  BY DEF IsObject, Draft!Object, Draft!Value, H!Object, H!Value
<1>6. ASSUME NEW f \in R
      PROVE  Present(Draft!Only(Draft!At(Draft!Object(e), f))) /\ Draft!GivenIn(Draft!Object(e), f)
  <2>1. PICK t \in {"c1", "requested", "t", "sample"} : e[f[1]] = Draft!Text(t)
    BY <1>2, <1>4
  <2>2. t # ""
    OBVIOUS
  <2> QED
    BY <1>4, <2>1, <2>2, NamesAreGiven
<1> QED
  BY <1>1, <1>5, <1>6

-----------------------------------------------------------------------------
(* Drafts: their steps. *)

\* Sequences of one, two or three.
OfOne(s, a) == IsSeq(s) /\ Len(s) = 1 /\ DOMAIN s = {1} /\ s[1] = a
OfTwo(s, a, b) == IsSeq(s) /\ Len(s) = 2 /\ DOMAIN s = {1, 2} /\ s[1] = a /\ s[2] = b
OfThree(s, a, b, c) == IsSeq(s) /\ Len(s) = 3 /\ DOMAIN s = {1, 2, 3} /\ s[1] = a /\ s[2] = b /\ s[3] = c

LEMMA ShortSequences ==
  ASSUME NEW a, NEW b, NEW c
  PROVE  OfOne(<<a>>, a) /\ OfTwo(<<a, b>>, a, b) /\ OfThree(<<a, b, c>>, a, b, c)
<1> DEFINE S == {a, b, c}
<1>1. a \in S /\ b \in S /\ c \in S
  OBVIOUS
<1> HIDE DEF S
<1>2. <<a>> \in Seq(S) /\ <<a, b>> \in Seq(S) /\ <<a, b, c>> \in Seq(S)
  BY <1>1
<1>3. IsSeq(<<a>>) /\ IsSeq(<<a, b>>) /\ IsSeq(<<a, b, c>>)
  BY <1>2, SequencesAreSuch
<1>4. 1..1 = {1} /\ 1..2 = {1, 2} /\ 1..3 = {1, 2, 3}
  OBVIOUS
<1> QED
  BY <1>3, <1>4 DEF OfOne, OfTwo, OfThree

\* A sequence of three has a first and a second.
LEMMA AtLeastThree ==
  ASSUME NEW s, IsSeq(s), Len(s) >= 3
  PROVE  1 \in DOMAIN s /\ 2 \in DOMAIN s
<1>1. Len(s) \in Nat /\ DOMAIN s = 1..Len(s)
  BY SequencesAreSuch
<1> QED
  BY <1>1

\* Between their first and last steps.
LEMMA SurroundedSteps ==
  ASSUME NEW R, NEW s, IsSeq(s)
  PROVE  LET d == Draft!Surrounded(R, s)
         IN  /\ IsSeq(d) /\ Len(d) = Len(s) + 3 /\ Len(s) \in Nat /\ DOMAIN d = 1..(Len(s) + 3)
             /\ d[1].name = "validate" /\ d[1].fields = R
             /\ d[2].name = "audit" /\ d[Len(s) + 3].name = "audit"
             /\ \A i \in DOMAIN s : i + 2 \in DOMAIN d /\ d[i + 2] = s[i]
             /\ \A k \in 2..Len(d) : k = 2 \/ k = Len(s) + 3 \/ k - 2 \in DOMAIN s
<1> DEFINE v == Draft!DraftStep("validate-input", "validate", R, "", {})
           a == Draft!Audit("audit-received")
           z == Draft!Audit("audit-completed")
           b == <<v, a>>
           c == b \o s
           d == c \o <<z>>
<1>1. Draft!Surrounded(R, s) = d
  BY DEF Draft!Surrounded
<1>2. v.name = "validate" /\ v.fields = R /\ a.name = "audit" /\ z.name = "audit"
  BY DEF Draft!DraftStep, Draft!Audit
<1> HIDE DEF v, a, z
<1>3. IsSeq(b) /\ Len(b) = 2 /\ DOMAIN b = {1, 2} /\ b[1] = v /\ b[2] = a
  <2>1. OfTwo(b, v, a)
    BY ShortSequences
  <2> HIDE DEF b
  <2> QED
    BY <2>1 DEF OfTwo
<1>4. IsSeq(<<z>>) /\ Len(<<z>>) = 1 /\ DOMAIN <<z>> = {1} /\ <<z>>[1] = z
  BY ShortSequences DEF OfOne
<1> HIDE DEF b
<1>5. /\ IsSeq(c) /\ Len(c) = 2 + Len(s)
      /\ \A i \in DOMAIN b : i \in DOMAIN c /\ c[i] = b[i]
      /\ \A j \in DOMAIN s : Len(b) + j \in DOMAIN c /\ c[Len(b) + j] = s[j]
  <2>1. Joint(c, b, s)
    BY <1>3, JoinedAt
  <2> HIDE DEF c
  <2> QED
    BY <1>3, <2>1 DEF Joint
<1> HIDE DEF c
<1>6. /\ IsSeq(d) /\ Len(d) = Len(c) + 1
      /\ \A i \in DOMAIN c : i \in DOMAIN d /\ d[i] = c[i]
      /\ \A j \in DOMAIN <<z>> : Len(c) + j \in DOMAIN d /\ d[Len(c) + j] = <<z>>[j]
  <2>1. Joint(d, c, <<z>>)
    BY <1>4, <1>5, JoinedAt
  <2> HIDE DEF d
  <2> QED
    BY <1>4, <2>1 DEF Joint
<1> HIDE DEF d
<1>7. Len(s) \in Nat /\ DOMAIN s = 1..Len(s) /\ DOMAIN d = 1..Len(d)
  BY <1>6, SequencesAreSuch
<1>8. Len(d) = Len(s) + 3
  BY <1>5, <1>6, <1>7
<1>9. d[1] = v /\ d[2] = a
  BY <1>3, <1>5, <1>6
<1>10. d[Len(s) + 3] = z
  <2>1. d[Len(c) + 1] = z
    BY <1>4, <1>6
  <2>2. Len(c) + 1 = Len(s) + 3
    BY <1>5, <1>7
  <2> QED
    BY <2>1, <2>2
<1>11. ASSUME NEW i \in DOMAIN s PROVE i + 2 \in DOMAIN d /\ d[i + 2] = s[i]
  <2>1. Len(b) + i = i + 2
    BY <1>3, <1>7
  <2> QED
    BY <1>5, <1>6, <2>1
<1>12. \A k \in 2..Len(d) : k = 2 \/ k = Len(s) + 3 \/ k - 2 \in DOMAIN s
  BY <1>7, <1>8
<1> QED
  BY <1>1, <1>2, <1>6, <1>7, <1>8, <1>9, <1>10, <1>11, <1>12

\* What the steps of one rule are for.
ServesRule(s, r) ==
  /\ IsSeq(s) /\ Len(s) >= 3
  /\ s[1].name = "log" /\ r.id \in s[1].words
  /\ s[2].name = "cel" /\ s[2].fields = r.fields /\ s[2].says = r.id
  /\ \A j \in DOMAIN s : s[j].name # "validate" /\ (s[j].name = "cel" => j = 2)
  /\ \A m \in Draft!ToSet(r.markers) : \E j \in DOMAIN s : s[j].name = "log" /\ s[j].says = m
  /\ \A m \in Draft!ToSet(r.metrics) : \E j \in DOMAIN s : s[j].name = "datadog_metric" /\ s[j].says = m

LEMMA RuleIsServed ==
  ASSUME NEW r, IsSeq(r.markers), IsSeq(r.metrics), NEW k
  PROVE  ServesRule(Draft!StepsOf(r, k), r)
<1> DEFINE id == IF Cleaned[r.id] # "" THEN Cleaned[r.id] ELSE "rule-0" \o Draft!ToString(k)
           x == Draft!DraftStep(id \o "-log", "log", {}, r.name, {r.id, id})
           y == Draft!DraftStep(id \o "-assert", "cel", r.fields, r.id, {id})
           z == Draft!DraftStep(id \o "-audit", "audit", Draft!Always \cup r.fields, "", {id})
           p == [m \in DOMAIN r.markers |-> Draft!DraftStep(id \o "-" \o r.markers[m] \o "-log", "log", {}, r.markers[m], {r.id})]
           q == [m \in DOMAIN r.metrics |-> Draft!DraftStep(id \o "-" \o r.metrics[m] \o "-metric", "datadog_metric", {}, r.metrics[m], {r.id})]
           b == <<x, y, z>>
           c == b \o p
           s == c \o q
<1>1. Draft!StepsOf(r, k) = s
  BY DEF Draft!StepsOf
<1>2. /\ x.name = "log" /\ r.id \in x.words
      /\ y.name = "cel" /\ y.fields = r.fields /\ y.says = r.id
      /\ z.name = "audit"
  BY DEF Draft!DraftStep
<1>3. /\ DOMAIN p = DOMAIN r.markers /\ \A m \in DOMAIN p : p[m].name = "log" /\ p[m].says = r.markers[m]
      /\ DOMAIN q = DOMAIN r.metrics /\ \A m \in DOMAIN q : q[m].name = "datadog_metric" /\ q[m].says = r.metrics[m]
  BY DEF Draft!DraftStep
<1>4. p = [m \in DOMAIN r.markers |-> p[m]] /\ q = [m \in DOMAIN r.metrics |-> q[m]]
  OBVIOUS
<1> HIDE DEF x, y, z, p, q
<1>5. /\ Len(r.markers) \in Nat /\ DOMAIN r.markers = 1..Len(r.markers)
      /\ Len(r.metrics) \in Nat /\ DOMAIN r.metrics = 1..Len(r.metrics)
  BY SequencesAreSuch
<1>6. IsSeq(p) /\ IsSeq(q)
  BY <1>4, <1>5, FunctionsAreSequences
<1>7. IsSeq(b) /\ Len(b) = 3 /\ DOMAIN b = {1, 2, 3} /\ b[1] = x /\ b[2] = y /\ b[3] = z
  <2>1. OfThree(b, x, y, z)
    BY ShortSequences
  <2> HIDE DEF b
  <2> QED
    BY <2>1 DEF OfThree
<1> HIDE DEF b
<1>8. /\ IsSeq(c) /\ Len(c) = Len(b) + Len(p)
      /\ \A i \in DOMAIN b : i \in DOMAIN c /\ c[i] = b[i]
      /\ \A j \in DOMAIN p : Len(b) + j \in DOMAIN c /\ c[Len(b) + j] = p[j]
      /\ \A i \in DOMAIN c : \/ i \in DOMAIN b /\ c[i] = b[i]
                             \/ i - Len(b) \in DOMAIN p /\ c[i] = p[i - Len(b)]
  <2>1. Joint(c, b, p)
    BY <1>6, <1>7, JoinedAt
  <2> QED
    BY <2>1 DEF Joint
<1> HIDE DEF c
<1>10. /\ IsSeq(s) /\ Len(s) = Len(c) + Len(q)
       /\ \A i \in DOMAIN c : i \in DOMAIN s /\ s[i] = c[i]
       /\ \A j \in DOMAIN q : Len(c) + j \in DOMAIN s /\ s[Len(c) + j] = q[j]
       /\ \A i \in DOMAIN s : \/ i \in DOMAIN c /\ s[i] = c[i]
                              \/ i - Len(c) \in DOMAIN q /\ s[i] = q[i - Len(c)]
  <2>1. Joint(s, c, q)
    BY <1>6, <1>8, JoinedAt
  <2> QED
    BY <2>1 DEF Joint
<1> HIDE DEF s
<1>12. Len(s) >= 3
  <2>1. Len(p) \in Nat /\ Len(q) \in Nat
    BY <1>6, SequencesAreSuch
  <2> QED
    BY <1>7, <1>8, <1>10, <2>1
<1>13. s[1] = x /\ s[2] = y /\ s[3] = z
  BY <1>7, <1>8, <1>10
<1>14. ASSUME NEW j \in DOMAIN s PROVE s[j].name # "validate" /\ (s[j].name = "cel" => j = 2)
  <2>1. CASE j \in DOMAIN c /\ s[j] = c[j]
    <3>1. CASE j \in DOMAIN b /\ c[j] = b[j]
      BY <1>2, <1>7, <2>1, <3>1
    <3>2. CASE j - Len(b) \in DOMAIN p /\ c[j] = p[j - Len(b)]
      <4>1. s[j].name = "log"
        BY <1>3, <2>1, <3>2
      <4> QED
        BY <4>1
    <3> QED
      BY <1>8, <2>1, <3>1, <3>2
  <2>2. CASE j - Len(c) \in DOMAIN q /\ s[j] = q[j - Len(c)]
    <3>1. s[j].name = "datadog_metric"
      BY <1>3, <2>2
    <3> QED
      BY <3>1
  <2> QED
    BY <1>10, <2>1, <2>2
<1>15. ASSUME NEW m \in Draft!ToSet(r.markers) PROVE \E j \in DOMAIN s : s[j].name = "log" /\ s[j].says = m
  <2>1. PICK i \in DOMAIN r.markers : r.markers[i] = m
    BY DEF Draft!ToSet
  <2>2. p[i].name = "log" /\ p[i].says = m /\ i \in DOMAIN p
    BY <1>3, <2>1
  <2>3. Len(b) + i \in DOMAIN s /\ s[Len(b) + i] = p[i]
    BY <1>8, <1>10, <2>2
  <2> QED
    BY <2>2, <2>3
<1>16. ASSUME NEW m \in Draft!ToSet(r.metrics) PROVE \E j \in DOMAIN s : s[j].name = "datadog_metric" /\ s[j].says = m
  <2>1. PICK i \in DOMAIN r.metrics : r.metrics[i] = m
    BY DEF Draft!ToSet
  <2>2. q[i].name = "datadog_metric" /\ q[i].says = m /\ i \in DOMAIN q
    BY <1>3, <2>1
  <2>3. Len(c) + i \in DOMAIN s /\ s[Len(c) + i] = q[i]
    BY <1>10, <2>2
  <2> QED
    BY <2>2, <2>3
<1> QED
  BY <1>1, <1>2, <1>10, <1>12, <1>13, <1>14, <1>15, <1>16 DEF ServesRule

-----------------------------------------------------------------------------
(* Drafts: from the rules of a request. *)

\* Rules as they were read, in their order.
OrderedRules(rules) ==
  /\ IsSeq(rules) /\ \A k \in DOMAIN rules : Draft!IsRule(rules[k])
  /\ \A j, k \in DOMAIN rules : j < k => rules[j].order <= rules[k].order

LEMMA SortedAreOrdered ==
  ASSUME Draft!NamesAreOrdered, NEW rules, IsFiniteSet(DOMAIN rules), \A k \in DOMAIN rules : Draft!IsRule(rules[k]),
         NEW positions, positions \subseteq DOMAIN rules
  PROVE  OrderedRules(Draft!Sorted(rules, positions))
<1>1. IsFiniteSet(positions)
  BY FS_Subset
<1>2. \A k \in positions : rules[k].order \in Int /\ Rank[rules[k].id] \in Int
  BY DEF Draft!IsRule, Draft!NamesAreOrdered
<1>3. Ranked(rules, positions)
  BY <1>1, <1>2 DEF Ranked
<1> DEFINE s == Draft!Sorted(rules, positions)
<1>4. /\ IsSeq(s)
      /\ \A k \in DOMAIN s : \E p \in positions : s[k] = rules[p]
      /\ \A j, k \in DOMAIN s : j < k => s[j].order <= s[k].order
  BY <1>3, RulesGetSorted
<1> HIDE DEF s
<1>5. \A k \in DOMAIN s : Draft!IsRule(s[k])
  BY <1>4
<1> QED
  BY <1>4, <1>5 DEF OrderedRules, s

\* Those that a draft is made of.
UsedRules(args) ==
  LET rules == Draft!RulesFrom(args)
  IN  IF Draft!Active(rules) = <<>> THEN rules ELSE Draft!Active(rules)

LEMMA RulesAreOrdered ==
  ASSUME NEW args, NEW payload, Draft!IsRequest(args, payload)
  PROVE  OrderedRules(UsedRules(args))
<1> DEFINE listed == Draft!ListedRules(args)
           told == Draft!ToldRules(args)
           given == {k \in DOMAIN args.rules : args.rules[k].id # "" \/ args.rules[k].name # "" \/ args.rules[k].described}
           rules == Draft!RulesFrom(args)
           active == {k \in DOMAIN rules : rules[k].status = "ACTIVE"}
<1>1. /\ Draft!NamesAreOrdered
      /\ IsFiniteSet(DOMAIN listed) /\ \A k \in DOMAIN listed : Draft!IsRule(listed[k])
      /\ IsFiniteSet(DOMAIN told) /\ \A k \in DOMAIN told : Draft!IsRule(told[k])
  <2>1. /\ Draft!NamesAreOrdered
        /\ \A rs \in {listed, told} : IsFiniteSet(DOMAIN rs) /\ \A k \in DOMAIN rs : Draft!IsRule(rs[k])
    BY DEF Draft!IsRequest, Draft!IsFiniteSet, IsFiniteSet
  <2> HIDE DEF listed, told
  <2>2. listed \in {listed, told} /\ told \in {listed, told}
    OBVIOUS
  <2> QED
    BY <2>1, <2>2
<1>2. given \subseteq DOMAIN listed /\ DOMAIN args.paragraphs \subseteq DOMAIN told
  BY DEF Draft!ListedRules, Draft!ToldRules
<1>3. rules = IF given # {} THEN Draft!Sorted(listed, given) ELSE Draft!Sorted(told, DOMAIN args.paragraphs)
  BY DEF Draft!RulesFrom
<1> HIDE DEF listed, told, given, rules
<1>4. OrderedRules(Draft!Sorted(listed, given)) /\ OrderedRules(Draft!Sorted(told, DOMAIN args.paragraphs))
  BY <1>1, <1>2, SortedAreOrdered
<1>5. OrderedRules(rules)
  BY <1>3, <1>4
<1>6. Len(rules) \in Nat /\ DOMAIN rules = 1..Len(rules)
  BY <1>5, SequencesAreSuch DEF OrderedRules
<1>7. IsFiniteSet(DOMAIN rules)
  BY <1>6, FS_Interval
<1>8. \A k \in DOMAIN rules : Draft!IsRule(rules[k])
  BY <1>5 DEF OrderedRules
<1>9. active \subseteq DOMAIN rules
  OBVIOUS
<1>10. Draft!Active(rules) = Draft!Sorted(rules, active)
  BY DEF Draft!Active
<1> HIDE DEF active
<1>11. OrderedRules(Draft!Active(rules))
  BY <1>1, <1>7, <1>8, <1>9, <1>10, SortedAreOrdered
<1> QED
  BY <1>5, <1>11 DEF UsedRules, rules

\* The steps of rule k of a draft.
RuleSteps(d, k) == Draft!StepsOf(d.rules[k], k)

\* A draft: it demands R, and the steps of rule k are behind the first off[k] + 2.
DraftOf(d, R, off) ==
  /\ OrderedRules(d.rules) /\ IsSeq(d.steps) /\ Len(d.steps) \in Nat /\ DOMAIN d.steps = 1..Len(d.steps)
  /\ Len(d.steps) # 0 /\ d.steps[1].name = "validate" /\ d.steps[1].fields = R
  /\ off \in [DOMAIN d.rules -> Nat]
  /\ \A k \in DOMAIN d.rules :
       /\ ServesRule(RuleSteps(d, k), d.rules[k])
       /\ \A j \in DOMAIN RuleSteps(d, k) :
            (off[k] + j) + 2 \in DOMAIN d.steps /\ d.steps[(off[k] + j) + 2] = RuleSteps(d, k)[j]
  /\ \A k, l \in DOMAIN d.rules : k < l => off[k] + 3 <= off[l]
  /\ \A i \in 2..Len(d.steps) :
       \/ d.steps[i].name = "audit"
       \/ \E k \in DOMAIN d.rules : \E j \in DOMAIN RuleSteps(d, k) : i = (off[k] + j) + 2

Demanded(args) ==
  args.required \cup Draft!Always \cup UNION {UsedRules(args)[k].fields : k \in DOMAIN UsedRules(args)}

LEMMA DraftIsMade ==
  ASSUME NEW args, NEW payload, Draft!IsRequest(args, payload)
  PROVE  /\ \E off : DraftOf(Draft!Generated(args), Demanded(args), off)
         /\ Draft!Generated(args).rules = UsedRules(args)
         /\ Draft!Generated(args).messagePath = Draft!FirstInOrder(Demanded(args))
         /\ Draft!Generated(args).payload = Draft!TestPayload(Draft!Generated(args).steps)
<1> DEFINE used == UsedRules(args)
           R == Demanded(args)
           parts == [k \in DOMAIN used |-> Draft!StepsOf(used[k], k)]
           flat == Draft!FlattenSeq(parts)
           steps == Draft!Surrounded(R, flat)
           d == [rules |-> used, steps |-> steps, messagePath |-> Draft!FirstInOrder(R), payload |-> Draft!TestPayload(steps)]
<1>1. Draft!Generated(args) = d
  BY DEF Draft!Generated, UsedRules, Demanded
<1>2. OrderedRules(used)
  BY RulesAreOrdered
<1>3. d.rules = used /\ d.steps = steps /\ d.messagePath = Draft!FirstInOrder(R) /\ d.payload = Draft!TestPayload(steps)
  OBVIOUS
<1>4. DOMAIN parts = DOMAIN used /\ parts = [k \in DOMAIN used |-> parts[k]]
      /\ \A k \in DOMAIN used : parts[k] = Draft!StepsOf(used[k], k)
  OBVIOUS
<1>5. flat = Refs!FlattenSeq(parts)
  BY DEF Draft!FlattenSeq, Refs!FlattenSeq
<1> HIDE DEF d, R, used, steps, flat, parts
<1>6. IsSeq(used) /\ Len(used) \in Nat /\ DOMAIN used = 1..Len(used)
  BY <1>2, SequencesAreSuch DEF OrderedRules
<1>7. IsSeq(parts) /\ Len(parts) = Len(used) /\ DOMAIN parts = 1..Len(parts)
  BY <1>4, <1>6, FunctionsAreSequences
<1>8. ASSUME NEW k \in DOMAIN used PROVE ServesRule(parts[k], used[k]) /\ IsSeq(parts[k])
  <2>1. IsSeq(used[k].markers) /\ IsSeq(used[k].metrics)
    BY <1>2, SequencesAreSuch DEF OrderedRules, Draft!IsRule
  <2>2. ServesRule(parts[k], used[k])
    BY <1>4, <2>1, RuleIsServed
  <2> QED
    BY <2>2 DEF ServesRule
<1>9. PICK off : Places(parts, Len(parts), flat, off)
  BY <1>4, <1>5, <1>7, <1>8, FlattenedPlaces
<1>10. /\ IsSeq(flat) /\ off \in [DOMAIN used -> Nat]
       /\ \A k \in DOMAIN used : \A j \in DOMAIN parts[k] : off[k] + j \in DOMAIN flat /\ flat[off[k] + j] = parts[k][j]
       /\ \A k, l \in DOMAIN used : k < l => off[k] + 3 <= off[l]
       /\ \A i \in DOMAIN flat : \E k \in DOMAIN used : \E j \in DOMAIN parts[k] : i = off[k] + j
  <2>1. /\ IsSeq(flat) /\ off \in [DOMAIN used -> Nat]
        /\ \A k \in DOMAIN used : off[k] + Len(parts[k]) <= Len(flat)
        /\ \A k \in DOMAIN used : \A j \in DOMAIN parts[k] : flat[off[k] + j] = parts[k][j]
        /\ \A k, l \in DOMAIN used : k < l => off[k] + Len(parts[k]) <= off[l]
        /\ \A i \in DOMAIN flat : \E k \in DOMAIN used : \E j \in DOMAIN parts[k] : i = off[k] + j
    BY <1>4, <1>7, <1>9 DEF Places
  <2>2. Len(flat) \in Nat /\ DOMAIN flat = 1..Len(flat)
    BY <2>1, SequencesAreSuch
  <2>3. \A k \in DOMAIN used : Len(parts[k]) \in Nat /\ DOMAIN parts[k] = 1..Len(parts[k]) /\ Len(parts[k]) >= 3
    BY <1>8, SequencesAreSuch DEF ServesRule
  <2>4. ASSUME NEW k \in DOMAIN used, NEW j \in DOMAIN parts[k] PROVE off[k] + j \in DOMAIN flat
    <3> DEFINE a == off[k]
               b == Len(parts[k])
               c == Len(flat)
    <3>1. a \in Nat /\ b \in Nat /\ c \in Nat /\ a + b <= c /\ j \in 1..b
      BY <2>1, <2>2, <2>3
    <3> HIDE DEF a, b, c
    <3>2. a + j \in 1..c
      BY <3>1
    <3> QED
      BY <2>2, <3>2 DEF a, c
  <2>5. ASSUME NEW k \in DOMAIN used, NEW l \in DOMAIN used, k < l PROVE off[k] + 3 <= off[l]
    <3> DEFINE a == off[k]
               b == Len(parts[k])
               c == off[l]
    <3>1. a \in Nat /\ b \in Nat /\ c \in Nat /\ b >= 3 /\ a + b <= c
      BY <2>1, <2>3, <2>5
    <3> HIDE DEF a, b, c
    <3>2. a + 3 <= c
      BY <3>1
    <3> QED
      BY <3>2 DEF a, c
  <2> QED
    BY <2>1, <2>4, <2>5
<1>11. /\ IsSeq(steps) /\ Len(steps) = Len(flat) + 3 /\ Len(flat) \in Nat /\ DOMAIN steps = 1..(Len(flat) + 3)
       /\ steps[1].name = "validate" /\ steps[1].fields = R
       /\ steps[2].name = "audit" /\ steps[Len(flat) + 3].name = "audit"
       /\ \A i \in DOMAIN flat : i + 2 \in DOMAIN steps /\ steps[i + 2] = flat[i]
       /\ \A k \in 2..Len(steps) : k = 2 \/ k = Len(flat) + 3 \/ k - 2 \in DOMAIN flat
  BY <1>10, SurroundedSteps DEF steps
<1>12. \A k \in DOMAIN used : parts[k] = RuleSteps(d, k)
  BY <1>3, <1>4 DEF RuleSteps
<1>13. ASSUME NEW i \in 2..Len(steps)
       PROVE  \/ steps[i].name = "audit"
              \/ \E k \in DOMAIN used : \E j \in DOMAIN RuleSteps(d, k) : i = (off[k] + j) + 2
  <2>1. CASE i = 2 \/ i = Len(flat) + 3
    BY <1>11, <2>1
  <2>2. CASE i - 2 \in DOMAIN flat
    <3>1. PICK k \in DOMAIN used : \E j \in DOMAIN parts[k] : i - 2 = off[k] + j
      BY <1>10, <2>2
    <3>2. PICK j \in DOMAIN parts[k] : i - 2 = off[k] + j
      BY <3>1
    <3>3. i = (off[k] + j) + 2
      <4>1. off[k] \in Nat /\ j \in Nat
        <5>1. DOMAIN parts[k] = 1..Len(parts[k])
          BY <1>8, SequencesAreSuch
        <5> QED
          BY <1>10, <5>1
      <4> QED
        BY <3>2, <4>1
    <3> QED
      BY <1>12, <3>3
  <2> QED
    BY <1>11, <2>1, <2>2
<1>14. DraftOf(d, R, off)
  <2>1. Len(steps) \in Nat /\ DOMAIN steps = 1..Len(steps) /\ Len(steps) # 0
    BY <1>11
  <2>2. \A k \in DOMAIN used : ServesRule(RuleSteps(d, k), used[k])
    BY <1>8, <1>12
  <2>3. \A k \in DOMAIN used : \A j \in DOMAIN RuleSteps(d, k) :
          (off[k] + j) + 2 \in DOMAIN steps /\ steps[(off[k] + j) + 2] = RuleSteps(d, k)[j]
    BY <1>10, <1>11, <1>12
  <2> QED
    BY <1>2, <1>3, <1>10, <1>11, <1>13, <2>1, <2>2, <2>3 DEF DraftOf
<1> QED
  BY <1>1, <1>3, <1>14 DEF R, used

\* What a draft demands are paths whose first names have a place in the alphabet.
LEMMA DemandsArePaths ==
  ASSUME NEW args, NEW payload, Draft!IsRequest(args, payload)
  PROVE  /\ Demanded(args) # {}
         /\ \A f \in Demanded(args) : Path(f) /\ Rank[f[1]] \in Nat
<1>1. \A f : Draft!IsPath(f) => Path(f) /\ f[1] \in DOMAIN Rank
  BY SequencesAreSuch DEF Draft!IsPath, Path
<1>2. \A f \in args.required : Draft!IsPath(f)
  BY DEF Draft!IsRequest
<1>3. ASSUME NEW k \in DOMAIN UsedRules(args), NEW f \in UsedRules(args)[k].fields PROVE Draft!IsPath(f)
  <2>1. Draft!IsRule(UsedRules(args)[k])
    BY RulesAreOrdered DEF OrderedRules
  <2> QED
    BY <2>1 DEF Draft!IsRule
<1>4. ASSUME NEW f \in Draft!Always PROVE Path(f) /\ f[1] \in DOMAIN Rank
  <2>1. PICK a \in {"correlation_id", "event_name"} : f = <<a>>
    BY DEF Draft!Always
  <2>2. a \in DOMAIN Rank
    BY DEF Draft!IsRequest, Draft!NamesAreOrdered
  <2>3. OfOne(f, a)
    BY <2>1, ShortSequences
  <2>4. IsSeq(f) /\ Len(f) = 1 /\ f[1] = a
    BY <2>3 DEF OfOne
  <2>5. Len(<<>>) = 0
    OBVIOUS
  <2> QED
    BY <2>2, <2>4, <2>5 DEF Path
<1>5. \A f \in Demanded(args) : Path(f) /\ f[1] \in DOMAIN Rank
  BY <1>1, <1>2, <1>3, <1>4 DEF Demanded
<1>6. Rank \in [DOMAIN Rank -> Nat]
  BY DEF Draft!IsRequest, Draft!NamesAreOrdered
<1>7. <<"correlation_id">> \in Demanded(args)
  BY DEF Demanded, Draft!Always
<1> QED
  BY <1>5, <1>6, <1>7

\* The field that comes first names the messages.
LEMMA FirstIsOne ==
  ASSUME NEW R, R # {}, \A f \in R : Rank[f[1]] \in Nat
  PROVE  Draft!FirstInOrder(R) \in R
<1> DEFINE N == {Rank[f[1]] : f \in R}
<1>1. N \subseteq Nat /\ N # {}
  OBVIOUS
<1>2. PICK m \in N : \A k \in N : m <= k
  BY <1>1, LeastNatural
<1>3. PICK f \in R : m = Rank[f[1]]
  BY <1>2
<1>4. \A g \in R : Rank[f[1]] <= Rank[g[1]]
  BY <1>2, <1>3
<1> QED
  BY <1>3, <1>4 DEF Draft!FirstInOrder

\* Nothing of a rule is left out.
LEMMA NothingIsMissing ==
  ASSUME NEW d, NEW R, NEW off, DraftOf(d, R, off), \A k \in DOMAIN d.rules : d.rules[k].id # ""
  PROVE  \A i \in Draft!Issues(d.steps, d.rules) : i[1] = "dependency"
<1> DEFINE found == Draft!ToSet(d.steps)
<1>1. ASSUME NEW k \in DOMAIN d.rules, NEW j \in DOMAIN RuleSteps(d, k) PROVE RuleSteps(d, k)[j] \in found
  BY <1>1 DEF DraftOf, Draft!ToSet
<1>2. ASSUME NEW r \in Draft!ToSet(d.rules)
      PROVE  /\ \E s \in found : Draft!Mentions(s, r)
             /\ \A f \in r.fields : \E s \in found : f \in s.fields
             /\ \A m \in Draft!ToSet(r.metrics) : \E s \in found : s.name = "datadog_metric" /\ s.says = m
             /\ \A m \in Draft!ToSet(r.markers) : \E s \in found : s.name = "log" /\ s.says = m
  <2>1. PICK k \in DOMAIN d.rules : r = d.rules[k]
    BY DEF Draft!ToSet
  <2> DEFINE s == RuleSteps(d, k)
  <2>2. ServesRule(s, r)
    BY <2>1 DEF DraftOf
  <2>3. \A j \in DOMAIN s : s[j] \in found
    BY <1>1
  <2> HIDE DEF s, found
  <2>4. IsSeq(s) /\ Len(s) >= 3
    BY <2>2 DEF ServesRule
  <2>5. Len(s) \in Nat /\ DOMAIN s = 1..Len(s)
    BY <2>4, SequencesAreSuch
  <2>6. s[1] \in found /\ s[2] \in found
    <3>2. 1 \in DOMAIN s /\ 2 \in DOMAIN s
      BY <2>4, AtLeastThree
    <3> QED
      BY <2>3, <3>2
  <2>7. Draft!Mentions(s[1], r)
    <3>1. r.id # "" /\ r.id \in s[1].words
      BY <2>1, <2>2 DEF ServesRule
    <3> QED
      BY <3>1 DEF Draft!Mentions
  <2>8. s[2].fields = r.fields
    BY <2>2 DEF ServesRule
  <2>9. \A m \in Draft!ToSet(r.metrics) : \E t \in found : t.name = "datadog_metric" /\ t.says = m
    BY <2>2, <2>3 DEF ServesRule
  <2>10. \A m \in Draft!ToSet(r.markers) : \E t \in found : t.name = "log" /\ t.says = m
    BY <2>2, <2>3 DEF ServesRule
  <2> QED
    BY <2>6, <2>7, <2>8, <2>9, <2>10
<1> HIDE DEF found
<1> DEFINE Lacks(r) ==
        (IF \E s \in found : Draft!Mentions(s, r) THEN {} ELSE {<<"rule", r.id>>})
        \cup {<<"field", f>> : f \in {g \in r.fields : ~\E s \in found : g \in s.fields}}
        \cup {<<"metric", m>> : m \in {n \in Draft!ToSet(r.metrics) : ~\E s \in found : s.name = "datadog_metric" /\ s.says = n}}
        \cup {<<"marker", m>> : m \in {n \in Draft!ToSet(r.markers) : ~\E s \in found : s.name = "log" /\ s.says = n}}
        \cup {<<"dependency", e>> : e \in {e \in r.dependencies : ~\E q \in Draft!ToSet(d.rules) : q.id = e}}
<1>3. Draft!Issues(d.steps, d.rules) = UNION {Lacks(r) : r \in Draft!ToSet(d.rules)}
  BY DEF Draft!Issues, found
<1> HIDE DEF Lacks
<1>4. ASSUME NEW r \in Draft!ToSet(d.rules), NEW i \in Lacks(r) PROVE i[1] = "dependency"
  <2>1. /\ \E s \in found : Draft!Mentions(s, r)
        /\ \A f \in r.fields : \E s \in found : f \in s.fields
        /\ \A m \in Draft!ToSet(r.metrics) : \E s \in found : s.name = "datadog_metric" /\ s.says = m
        /\ \A m \in Draft!ToSet(r.markers) : \E s \in found : s.name = "log" /\ s.says = m
    BY <1>2
  <2>2. {g \in r.fields : ~\E s \in found : g \in s.fields} = {}
    BY <2>1
  <2> DEFINE Metric(n) == \E s \in found : s.name = "datadog_metric" /\ s.says = n
             Marker(n) == \E s \in found : s.name = "log" /\ s.says = n
  <2>3. {n \in Draft!ToSet(r.metrics) : ~Metric(n)} = {}
    <3>1. \A m \in Draft!ToSet(r.metrics) : Metric(m)
      BY <2>1
    <3> HIDE DEF Metric
    <3> QED
      BY <3>1
  <2>4. {n \in Draft!ToSet(r.markers) : ~Marker(n)} = {}
    <3>1. \A m \in Draft!ToSet(r.markers) : Marker(m)
      BY <2>1
    <3> HIDE DEF Marker
    <3> QED
      BY <3>1
  <2>5. i \in {<<"dependency", e>> : e \in {e \in r.dependencies : ~\E q \in Draft!ToSet(d.rules) : q.id = e}}
    BY <2>1, <2>2, <2>3, <2>4 DEF Lacks
  <2>6. PICK e \in r.dependencies : i = <<"dependency", e>>
    BY <2>5
  <2> QED
    BY <2>6
<1> QED
  BY <1>3, <1>4

\* The step that checks a rule is the second of its steps.
LEMMA ChecksAreFound ==
  ASSUME NEW d, NEW R, NEW off, DraftOf(d, R, off),
         \A k, l \in DOMAIN d.rules : d.rules[k].id = d.rules[l].id => k = l,
         NEW k \in DOMAIN d.rules
  PROVE  Draft!CheckOf(d, k) = off[k] + 4
<1> DEFINE at == off[k] + 4
           I == {i \in 1..Len(d.steps) : d.steps[i].name = "cel" /\ d.steps[i].says = d.rules[k].id}
<1>1. Draft!CheckOf(d, k) = IF I # {} THEN CHOOSE x \in I : \A y \in I : x <= y ELSE 0
  BY DEF Draft!CheckOf, Draft!SelectInSeq, Draft!Min
<1>2. /\ DOMAIN d.steps = 1..Len(d.steps) /\ d.steps[1].name = "validate" /\ Len(d.steps) \in Nat
      /\ off[k] \in Nat
  BY DEF DraftOf
<1>3. \A l \in DOMAIN d.rules :
        /\ ServesRule(RuleSteps(d, l), d.rules[l])
        /\ \A j \in DOMAIN RuleSteps(d, l) :
             (off[l] + j) + 2 \in DOMAIN d.steps /\ d.steps[(off[l] + j) + 2] = RuleSteps(d, l)[j]
  BY DEF DraftOf
<1>4. at \in I
  <2> DEFINE s == RuleSteps(d, k)
  <2>1. ServesRule(s, d.rules[k])
    BY <1>3
  <2>2. \A j \in DOMAIN s : (off[k] + j) + 2 \in DOMAIN d.steps /\ d.steps[(off[k] + j) + 2] = s[j]
    BY <1>3
  <2> HIDE DEF s
  <2>3. IsSeq(s) /\ Len(s) >= 3 /\ s[2].name = "cel" /\ s[2].says = d.rules[k].id
    BY <2>1 DEF ServesRule
  <2>4. Len(s) \in Nat /\ DOMAIN s = 1..Len(s)
    BY <2>3, SequencesAreSuch
  <2>5. 2 \in DOMAIN s
    BY <2>3, <2>4
  <2>6. (off[k] + 2) + 2 = at
    BY <1>2
  <2>7. at \in DOMAIN d.steps /\ d.steps[at] = s[2]
    BY <2>2, <2>5, <2>6
  <2> QED
    BY <1>2, <2>3, <2>7
<1>5. ASSUME NEW i \in I PROVE i = at
  <2>1. i \in 2..Len(d.steps) /\ d.steps[i].name = "cel" /\ d.steps[i].says = d.rules[k].id
    BY <1>2
  <2>2. PICK l \in DOMAIN d.rules : \E j \in DOMAIN RuleSteps(d, l) : i = (off[l] + j) + 2
    <3>1. d.steps[i].name # "audit"
      BY <2>1
    <3> QED
      BY <2>1, <3>1 DEF DraftOf
  <2>3. PICK j \in DOMAIN RuleSteps(d, l) : i = (off[l] + j) + 2
    BY <2>2
  <2> DEFINE s == RuleSteps(d, l)
  <2>4. d.steps[i] = s[j] /\ ServesRule(s, d.rules[l])
    BY <1>3, <2>3
  <2>5. j \in DOMAIN s
    OBVIOUS
  <2> HIDE DEF s
  <2>6. j = 2 /\ s[2].says = d.rules[l].id
    BY <2>1, <2>4, <2>5 DEF ServesRule
  <2>7. l = k
    BY <2>1, <2>4, <2>6
  <2> QED
    BY <1>2, <2>3, <2>6, <2>7
<1> HIDE DEF at, I
<1>6. I = {at}
  BY <1>4, <1>5
<1>7. at \in Nat
  BY <1>2 DEF at
<1> QED
  BY <1>1, <1>6, <1>7 DEF at

\* The checks of a draft come in the order of the rules.
LEMMA ChecksAreInOrder ==
  ASSUME NEW d, NEW R, NEW off, DraftOf(d, R, off),
         \A k, l \in DOMAIN d.rules : d.rules[k].id = d.rules[l].id => k = l
  PROVE  \A j, k \in DOMAIN d.rules :
           d.rules[j].order < d.rules[k].order => Draft!CheckOf(d, j) < Draft!CheckOf(d, k)
<1> SUFFICES ASSUME NEW j \in DOMAIN d.rules, NEW k \in DOMAIN d.rules, d.rules[j].order < d.rules[k].order
             PROVE  Draft!CheckOf(d, j) < Draft!CheckOf(d, k)
  OBVIOUS
<1>1. Draft!CheckOf(d, j) = off[j] + 4 /\ Draft!CheckOf(d, k) = off[k] + 4
  BY ChecksAreFound
<1>2. OrderedRules(d.rules)
  BY DEF DraftOf
<1>3. j \in Nat /\ k \in Nat
  <2>1. Len(d.rules) \in Nat /\ DOMAIN d.rules = 1..Len(d.rules)
    BY <1>2, SequencesAreSuch DEF OrderedRules
  <2> QED
    BY <2>1
<1>4. d.rules[j].order \in Int /\ d.rules[k].order \in Int
  BY <1>2 DEF OrderedRules, Draft!IsRule
<1>5. ~(k < j) /\ k # j
  <2>1. k < j => d.rules[k].order <= d.rules[j].order
    BY <1>2 DEF OrderedRules
  <2> QED
    BY <1>4, <2>1
<1>6. j < k
  BY <1>3, <1>5
<1>7. off[j] + 3 <= off[k] /\ off[j] \in Nat /\ off[k] \in Nat
  BY <1>6 DEF DraftOf
<1> QED
  BY <1>1, <1>7

\* A draft checks none but the fields it requires.
LEMMA DraftIsChecked ==
  ASSUME NEW d, NEW R, NEW off, DraftOf(d, R, off), \A f \in R : Path(f),
         \A k \in DOMAIN d.rules : d.rules[k].fields \subseteq R
  PROVE  /\ IsSeq(d.steps) /\ Checked(d.steps)
         /\ \A i \in 2..Len(d.steps) : d.steps[i].name = "cel" => d.steps[i].fields \subseteq d.steps[1].fields
<1>1. ASSUME NEW i \in 2..Len(d.steps)
      PROVE  /\ d.steps[i].name # "validate"
             /\ d.steps[i].name = "cel" => d.steps[i].fields \subseteq R
  <2>1. CASE d.steps[i].name = "audit"
    BY <2>1
  <2>2. CASE \E k \in DOMAIN d.rules : \E j \in DOMAIN RuleSteps(d, k) : i = (off[k] + j) + 2
    <3>1. PICK k \in DOMAIN d.rules : \E j \in DOMAIN RuleSteps(d, k) : i = (off[k] + j) + 2
      BY <2>2
    <3>2. PICK j \in DOMAIN RuleSteps(d, k) : i = (off[k] + j) + 2
      BY <3>1
    <3>3. d.steps[i] = RuleSteps(d, k)[j] /\ ServesRule(RuleSteps(d, k), d.rules[k])
      BY <3>2 DEF DraftOf
    <3> DEFINE s == RuleSteps(d, k)
    <3>4. j \in DOMAIN s /\ d.steps[i] = s[j] /\ ServesRule(s, d.rules[k])
      BY <3>3
    <3> HIDE DEF s
    <3>5. s[j].name # "validate" /\ (s[j].name = "cel" => s[j].fields = d.rules[k].fields)
      BY <3>4 DEF ServesRule
    <3> QED
      BY <3>4, <3>5
  <2> QED
    BY <2>1, <2>2 DEF DraftOf
<1>2. /\ IsSeq(d.steps) /\ Len(d.steps) \in Nat /\ Len(d.steps) # 0
      /\ d.steps[1].name = "validate" /\ d.steps[1].fields = R
  BY DEF DraftOf
<1> QED
  BY <1>1, <1>2 DEF Checked

\* Drafts from business rules are usable.
LEMMA RulesMakeDrafts ==
  ASSUME NEW args, NEW payload, Draft!IsRequest(args, payload)
  PROVE  Draft!GeneratedIsUsable(args, payload)
<1> DEFINE d == Draft!Generated(args)
           R == Demanded(args)
           names == [k \in DOMAIN d.rules |-> d.rules[k].id]
<1>1. PICK off : DraftOf(d, R, off)
  BY DraftIsMade
<1>2. d.rules = UsedRules(args) /\ d.messagePath = Draft!FirstInOrder(R) /\ d.payload = Draft!TestPayload(d.steps)
  BY DraftIsMade
<1>3. R # {} /\ \A f \in R : Path(f) /\ Rank[f[1]] \in Nat
  BY DemandsArePaths
<1>4. \A k \in DOMAIN d.rules : d.rules[k].fields \subseteq R
  BY <1>2 DEF Demanded
<1>5. IsObject(payload) /\ Readable \cap DOMAIN Draft!Index = {}
  BY DEF Draft!IsRequest, Draft!NamesAreOrdered, IsObject, Draft!Object, Draft!Value, H!Object, H!Value
<1> HIDE DEF d, R
<1> SUFFICES ASSUME "" \notin Draft!ToSet(names), Draft!IsInjective(names)
             PROVE  /\ \A i \in Draft!Issues(d.steps, d.rules) : i[1] = "dependency"
                    /\ \A j, k \in DOMAIN d.rules :
                         d.rules[j].order < d.rules[k].order => Draft!CheckOf(d, j) < Draft!CheckOf(d, k)
                    /\ d.messagePath \in d.steps[1].fields
                    /\ Draft!InCel(d.steps) /\ Draft!Untouched(d.steps) =>
                         /\ Draft!Accepts(d.steps, payload) <=> \A f \in d.steps[1].fields : Draft!GivenIn(payload, f)
                         /\ Draft!Flat(d.steps) => Draft!Accepts(d.steps, d.payload)
  BY DEF Draft!GeneratedIsUsable, d
<1>6. \A k \in DOMAIN d.rules : d.rules[k].id # ""
  BY DEF Draft!ToSet
<1>7. \A k, l \in DOMAIN d.rules : d.rules[k].id = d.rules[l].id => k = l
  BY DEF Draft!IsInjective
<1> HIDE DEF names
<1>8. \A i \in Draft!Issues(d.steps, d.rules) : i[1] = "dependency"
  BY <1>1, <1>6, NothingIsMissing
<1>9. \A j, k \in DOMAIN d.rules :
        d.rules[j].order < d.rules[k].order => Draft!CheckOf(d, j) < Draft!CheckOf(d, k)
  BY <1>1, <1>7, ChecksAreInOrder
<1>10. d.steps[1].fields = R
  BY <1>1 DEF DraftOf
<1>11. d.messagePath \in d.steps[1].fields
  BY <1>2, <1>3, <1>10, FirstIsOne
<1>12. ASSUME Draft!InCel(d.steps), Draft!Untouched(d.steps), NEW p, IsObject(p)
       PROVE  Draft!Accepts(d.steps, p) <=> \A f \in d.steps[1].fields : Draft!GivenIn(p, f)
  <2>1. /\ IsSeq(d.steps) /\ Checked(d.steps)
        /\ \A i \in 2..Len(d.steps) : d.steps[i].name = "cel" => d.steps[i].fields \subseteq d.steps[1].fields
    BY <1>1, <1>3, <1>4, DraftIsChecked
  <2> DEFINE steps == d.steps
  <2>2. /\ IsSeq(steps) /\ Checked(steps) /\ Draft!InCel(steps) /\ Draft!Untouched(steps)
        /\ \A i \in 2..Len(steps) : steps[i].name = "cel" => steps[i].fields \subseteq steps[1].fields
    BY <1>12, <2>1
  <2> HIDE DEF steps
  <2>3. Draft!Accepts(steps, p) <=> \A f \in steps[1].fields : Draft!GivenIn(p, f)
    BY <1>5, <1>12, <2>2, CheckedAccepts
  <2> QED
    BY <2>3 DEF steps
<1>13. ASSUME Draft!InCel(d.steps), Draft!Untouched(d.steps), Draft!Flat(d.steps)
       PROVE  Draft!Accepts(d.steps, d.payload)
  <2> DEFINE steps == d.steps
  <2>1. \A f \in steps[1].fields : Path(f) /\ Len(f) = 1
    BY <1>3, <1>10, <1>13 DEF Draft!Flat
  <2> HIDE DEF steps
  <2>2. IsObject(Draft!TestPayload(steps)) /\ \A f \in steps[1].fields : Draft!GivenIn(Draft!TestPayload(steps), f)
    BY <2>1, TestIsComplete
  <2>3. IsObject(d.payload) /\ \A f \in d.steps[1].fields : Draft!GivenIn(d.payload, f)
    BY <1>2, <2>2 DEF steps
  <2> QED
    BY <1>12, <1>13, <2>3
<1> QED
  BY <1>5, <1>8, <1>9, <1>11, <1>12, <1>13

-----------------------------------------------------------------------------
(* Drafts: from a list of endpoints. *)

\* Plans are usable.
LEMMA EndpointsMakePlans ==
  ASSUME NEW args, Draft!IsPlan(args)
  PROVE  Draft!PlanIsUsable(args)
<1> DEFINE ends == args.endpoints
           R == Draft!RequiredOf(args)
           calls == [k \in DOMAIN ends |-> Draft!PlannedStep(ends[k], k)]
           steps == Draft!Surrounded(R, calls)
           d == Draft!Planned(args)
<1>1. d.steps = steps /\ d.payload = Draft!TestPayload(steps)
  BY DEF Draft!Planned
<1>2. IsSeq(ends) /\ Len(ends) \in Nat /\ DOMAIN ends = 1..Len(ends)
  <2>1. ends \in Seq([name : STRING, graphql : BOOLEAN])
    BY DEF Draft!IsPlan
  <2> QED
    BY <2>1, SequencesAreSuch
<1>3. /\ DOMAIN calls = DOMAIN ends /\ calls = [k \in DOMAIN ends |-> calls[k]]
      /\ \A k \in DOMAIN ends : calls[k] = Draft!PlannedStep(ends[k], k)
  OBVIOUS
<1>4. \A k \in DOMAIN ends :
        /\ calls[k].name \in {"rest_call", "graphql_enrich"}
        /\ ends[k].name # "" /\ Cleaned[ends[k].name] # "" => calls[k].id = Cleaned[ends[k].name]
  BY DEF Draft!PlannedStep, Draft!DraftStep
<1> HIDE DEF ends, calls, d
<1>5. IsSeq(calls) /\ Len(calls) = Len(ends)
  BY <1>2, <1>3, FunctionsAreSequences
<1>6. /\ IsSeq(steps) /\ Len(steps) = Len(calls) + 3 /\ Len(calls) \in Nat /\ DOMAIN steps = 1..(Len(calls) + 3)
      /\ steps[1].name = "validate" /\ steps[1].fields = R
      /\ steps[2].name = "audit" /\ steps[Len(calls) + 3].name = "audit"
      /\ \A i \in DOMAIN calls : i + 2 \in DOMAIN steps /\ steps[i + 2] = calls[i]
      /\ \A k \in 2..Len(steps) : k = 2 \/ k = Len(calls) + 3 \/ k - 2 \in DOMAIN calls
  BY <1>5, SurroundedSteps
<1> HIDE DEF steps
<1>7. \A i \in DOMAIN steps :
        \/ i - 2 \in DOMAIN calls /\ steps[i] = calls[i - 2]
        \/ steps[i].name \in {"validate", "audit"} /\ i - 2 \notin DOMAIN calls
  <2>1. DOMAIN calls = 1..Len(calls)
    BY <1>5, SequencesAreSuch
  <2>2. ASSUME NEW i \in DOMAIN steps
        PROVE  \/ i - 2 \in DOMAIN calls /\ steps[i] = calls[i - 2]
               \/ steps[i].name \in {"validate", "audit"} /\ i - 2 \notin DOMAIN calls
    <3>1. CASE i = 1 \/ i = 2 \/ i = Len(calls) + 3
      BY <1>6, <2>1, <3>1
    <3>2. CASE i - 2 \in DOMAIN calls
      <4>1. (i - 2) + 2 = i
        BY <1>6
      <4> QED
        BY <1>6, <3>2, <4>1
    <3>3. i = 1 \/ i \in 2..Len(steps)
      BY <1>6
    <3> QED
      BY <1>6, <3>1, <3>2, <3>3
  <2> QED
    BY <2>2
<1>8. Cardinality(Draft!Risks(steps)) = Len(ends)
  <2> DEFINE n == Len(ends)
  <2>1. DOMAIN calls = 1..n /\ DOMAIN steps = 1..(n + 3) /\ n \in Nat
    BY <1>2, <1>3, <1>5, <1>6
  <2> HIDE DEF n
  <2>2. \A i \in DOMAIN steps : i \in Draft!Risks(steps) <=> i - 2 \in DOMAIN calls
    BY <1>3, <1>4, <1>7 DEF Draft!Risks
  <2>3. Draft!Risks(steps) \subseteq DOMAIN steps
    BY DEF Draft!Risks
  <2>4. Draft!Risks(steps) = 3..(n + 2)
    <3> DEFINE risks == Draft!Risks(steps)
    <3>1. \A i \in 1..(n + 3) : i \in risks <=> i - 2 \in 1..n
      BY <1>3, <2>1, <2>2
    <3>2. risks \subseteq 1..(n + 3)
      BY <2>1, <2>3
    <3> HIDE DEF risks
    <3>3. \A i \in 1..(n + 3) : i - 2 \in 1..n <=> i \in 3..(n + 2)
      BY <2>1
    <3>4. 3..(n + 2) \subseteq 1..(n + 3)
      BY <2>1
    <3> QED
      BY <3>1, <3>2, <3>3, <3>4 DEF risks
  <2>5. Cardinality(3..(n + 2)) = n
    BY <2>1, FS_Interval
  <2> QED
    BY <2>4, <2>5 DEF n
<1>9. ASSUME NEW e \in Draft!ToSet(ends), e.name # "", Cleaned[e.name] # ""
      PROVE  Cleaned[e.name] \in Draft!AuditPoints(steps)
  <2>1. PICK k \in DOMAIN ends : e = ends[k]
    BY DEF Draft!ToSet
  <2>2. k + 2 \in DOMAIN steps /\ steps[k + 2] = calls[k]
    BY <1>3, <1>6
  <2>3. steps[k + 2].name \in {"rest_call", "graphql_enrich"} /\ steps[k + 2].id = Cleaned[e.name]
    BY <1>4, <1>9, <2>1, <2>2
  <2> QED
    BY <2>2, <2>3 DEF Draft!AuditPoints, Draft!Risks
<1>10. ASSUME Draft!Flat(steps) PROVE Draft!Accepts(steps, Draft!TestPayload(steps))
  <2>0. ASSUME NEW k \in 2..Len(steps) PROVE steps[k].name \in {"audit", "rest_call", "graphql_enrich"}
    <3>1. CASE k = 2 \/ k = Len(calls) + 3
      BY <1>6, <3>1
    <3>2. CASE k - 2 \in DOMAIN calls
      <4>1. (k - 2) + 2 = k
        OBVIOUS
      <4>2. steps[k] = calls[k - 2]
        BY <1>6, <3>2, <4>1
      <4> QED
        BY <1>3, <1>4, <3>2, <4>2
    <3> QED
      BY <1>6, <3>1, <3>2
  <2>1. ASSUME NEW f \in R PROVE Path(f)
    <3>1. CASE f \in args.required
      BY <3>1, SequencesAreSuch DEF Draft!IsPlan, Path
    <3>2. CASE \E k : f = <<k>>
      <4>1. PICK k : f = <<k>>
        BY <3>2
      <4>2. OfOne(f, k)
        BY <4>1, ShortSequences
      <4>3. Len(<<>>) = 0
        OBVIOUS
      <4> QED
        BY <4>2, <4>3 DEF OfOne, Path
    <3> QED
      BY <3>1, <3>2 DEF Draft!RequiredOf, Draft!Always
  <2>2. Checked(steps)
    <3>1. \A k \in 2..Len(steps) : steps[k].name # "validate"
      BY <2>0
    <3> QED
      BY <1>6, <2>1, <3>1 DEF Checked
  <2>3. \A k \in 2..Len(steps) : steps[k].name # "cel"
    BY <2>0
  <2>4. \A f \in steps[1].fields : Path(f) /\ Len(f) = 1
    BY <1>6, <1>10, <2>1 DEF Draft!Flat
  <2>5. \A f \in steps[1].fields : Present(Draft!Only(Draft!At(Draft!TestPayload(steps), f)))
    BY <2>4, TestIsComplete
  <2> QED
    BY <2>2, <2>3, <2>5, UncheckedAccepts
<1>11. Draft!Cardinality(Draft!Risks(d.steps)) = Len(args.endpoints)
  BY <1>1, <1>8 DEF Draft!Cardinality, Cardinality, ends
<1> QED
  BY <1>1, <1>9, <1>10, <1>11 DEF Draft!PlanIsUsable, d, ends

\* Drafts of workflows: for every list of rules or endpoints, every event and every
\* alphabet, a draft covers what it was made of, in its order, and accepts exactly the
\* events that have its fields.
THEOREM UsableDrafts == Spec => []DraftsAreUsable
<1>1. ChosenInput => DraftsAreUsable
  <2> SUFFICES ASSUME ChosenInput PROVE DraftsAreUsable
    OBVIOUS
  <2>1. CASE subject = "rules"
    <3>1. input \in Of("rules")
      BY <2>1 DEF ChosenInput, Of
    <3>2. Draft!IsRequest(input.args, input.payload)
      BY <3>1, RequestsAreRead
    <3> QED
      BY <2>1, <3>2, RulesMakeDrafts DEF DraftsAreUsable
  <2>2. CASE subject = "plan"
    <3>1. input \in Of("plan")
      BY <2>2 DEF ChosenInput, Of
    <3>2. Draft!IsPlan(input)
      BY <3>1, RequestsAreRead
    <3> QED
      BY <2>2, <3>2, EndpointsMakePlans DEF DraftsAreUsable
  <2> QED
    BY <2>1, <2>2 DEF DraftsAreUsable
<1> QED
  BY <1>1, InputIsChosen, PTL

=============================================================================
