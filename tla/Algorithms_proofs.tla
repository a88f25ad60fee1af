--------------------------- MODULE Algorithms_proofs ---------------------------
(***************************************************************************)
(* What the pure algorithms promise for every set of inputs: configuration *)
(* and workflow files of any content, conditions and handlers on any       *)
(* payload, retry policies of any length.                                  *)
(***************************************************************************)
EXTENDS Algorithms, WellFoundedInduction, TLAPS

\* What an invariant looks at has been chosen among the inputs of its subject.
ChosenInput == subject # "none" => input \in Of(subject)

LEMMA InputIsChosen == Spec => []ChosenInput
<1>1. Init => ChosenInput
  BY DEF Init, ChosenInput
<1>2. ChosenInput /\ [Next]_vars => ChosenInput'
  BY DEF ChosenInput, Next, Choose, vars, Of
<1> QED
  BY <1>1, <1>2, PTL DEF Spec

-----------------------------------------------------------------------------
(* Induction. *)

\* A set of naturals has a least element.
LEMMA LeastNatural ==
  ASSUME NEW T, T \subseteq Nat, T # {}
  PROVE  \E m \in T : \A k \in T : m <= k
<1> DEFINE R == OpToRel(<, Nat)
<1>1. IsWellFoundedOn(R, Nat)
  BY NatLessThanWellFounded, Zenon
<1>2. R = {ss \in Nat \X Nat : ss[1] < ss[2]}
  BY Zenon DEF OpToRel
<1> HIDE DEF R
<1>3. PICK m \in T : \A k \in T : ~(<<k, m>> \in R)
  BY <1>1, WFMin
<1>4. \A k \in T : ~(k < m)
  BY <1>2, <1>3
<1> QED
  BY <1>3, <1>4

\* Induction: a set with 0, and with the successor of each of its naturals.
LEMMA SetInduction ==
  ASSUME NEW T, 0 \in T, \A n \in Nat : n \in T => n + 1 \in T
  PROVE  \A n \in Nat : n \in T
<1> SUFFICES ASSUME Nat \ T # {} PROVE FALSE
  OBVIOUS
<1>1. PICK m \in Nat \ T : \A k \in Nat \ T : m <= k
  BY LeastNatural
<1>2. m # 0 /\ m - 1 \in Nat
  BY <1>1
<1>3. m - 1 \in T
  BY <1>1, <1>2
<1>4. (m - 1) + 1 \in T
  BY <1>2, <1>3
<1> QED
  BY <1>1, <1>4

-----------------------------------------------------------------------------
(* Texts and their defaults. *)

\* A text that is more than white space, which a default leaves as it is.
Given(t) == t \in C!Texts /\ Trimmed[t] # ""

\* What the code writes itself is given, unless it is empty.
LEMMA LiteralsAreGiven ==
  ASSUME C!TextFunctions, NEW t \in C!Literals, t # ""
  PROVE  Given(t) /\ C!Normal(t) = t
BY DEF C!TextFunctions, C!Normal, Given

\* Neither function changes it.
LEMMA LiteralsStay ==
  ASSUME C!TextFunctions, NEW t \in C!Literals
  PROVE  t \in C!Texts /\ Trimmed[t] = t /\ Lowered[t] = t
BY DEF C!TextFunctions

\* White space is no text that is given.
LEMMA GivenIsNotEmpty ==
  ASSUME C!TextFunctions, NEW t, Given(t)
  PROVE  t # ""
<1>1. Trimmed[""] = ""
  BY DEF C!TextFunctions, C!Literals
<1> QED
  BY <1>1 DEF Given

\* A normal text is a text, normal a second time, and empty only for white space.
LEMMA NormalTexts ==
  ASSUME C!TextFunctions, NEW t \in C!Texts
  PROVE  /\ C!Normal(t) \in C!Texts
         /\ C!Normal(C!Normal(t)) = C!Normal(t)
         /\ Trimmed[C!Normal(t)] = C!Normal(t)
         /\ C!Normal(t) = "" <=> Trimmed[t] = ""
<1> DEFINE x == Trimmed[t]
           n == Lowered[x]
<1>1. x \in C!Texts /\ Trimmed[x] = x
  BY DEF C!TextFunctions
<1> HIDE DEF x
<1>2. n \in C!Texts /\ Lowered[n] = n /\ Trimmed[n] = n /\ (n = "" <=> x = "")
  BY <1>1 DEF C!TextFunctions
<1>3. C!Normal(t) = n
  BY DEF C!Normal, x
<1> HIDE DEF n
<1>4. C!Normal(n) = n
  BY <1>2 DEF C!Normal
<1> QED
  BY <1>2, <1>3, <1>4 DEF x

\* A setting with a default is given, and a second default changes nothing.
LEMMA DefaultsAreGiven ==
  ASSUME NEW t \in C!Texts, NEW d, Given(d)
  PROVE  /\ Given(C!OrElse(t, d))
         /\ \A e : C!OrElse(C!OrElse(t, d), e) = C!OrElse(t, d)
         /\ \A e : Given(t) => C!OrElse(t, e) = t
BY DEF C!OrElse, Given

\* The same for a setting that is made normal afterwards.
LEMMA NormalDefaults ==
  ASSUME C!TextFunctions, NEW t \in C!Texts, NEW d, Given(d)
  PROVE  LET n == C!Normal(C!OrElse(t, d))
         IN  Given(n) /\ \A e : C!Normal(C!OrElse(n, e)) = n
<1> DEFINE x == C!OrElse(t, d)
<1>1. Given(x)
  BY DefaultsAreGiven
<1> HIDE DEF x
<1>2. Given(C!Normal(x)) /\ C!Normal(C!Normal(x)) = C!Normal(x)
  BY <1>1, NormalTexts DEF Given
<1>3. \A e : C!OrElse(C!Normal(x), e) = C!Normal(x)
  BY <1>2 DEF C!OrElse, Given
<1> QED
  BY <1>2, <1>3 DEF x

-----------------------------------------------------------------------------
(* Queues and brokers. *)

\* A queue that leaves nothing open.
Ready(q) ==
  /\ q \in C!QueueConfig
  /\ Given(q.region) /\ Given(q.endpoint) /\ Given(q.url)
  /\ q.wait > 0 /\ q.max > 0 /\ q.visibility > 0

\* What a queue is made of.
LEMMA QueueRecord ==
  ASSUME NEW r \in C!Texts, NEW e \in C!Texts, NEW u \in C!Texts, NEW w \in Int, NEW m \in Int, NEW v \in Int
  PROVE  [region |-> r, endpoint |-> e, url |-> u, wait |-> w, max |-> m, visibility |-> v] \in C!QueueConfig
BY DEF C!QueueConfig

\* The defaults make a queue ready, and leave a ready one as it is.
LEMMA QueuesGetReady ==
  ASSUME NEW q \in C!QueueConfig, NEW d, Ready(d)
  PROVE  Ready(C!QueueOr(q, d))
<1> DEFINE r == C!QueueOr(q, d)
<1>1. Given(r.region) /\ Given(r.endpoint) /\ Given(r.url)
  BY DefaultsAreGiven DEF C!QueueOr, C!QueueConfig, Ready
<1>2. /\ r.wait \in Int /\ r.wait > 0
      /\ r.max \in Int /\ r.max > 0
      /\ r.visibility \in Int /\ r.visibility > 0
  BY DEF C!QueueOr, C!QueueConfig, C!Positive, Ready
<1>3. r = [region |-> r.region, endpoint |-> r.endpoint, url |-> r.url, wait |-> r.wait, max |-> r.max,
           visibility |-> r.visibility]
  BY DEF C!QueueOr
<1> HIDE DEF r
<1>4. r \in C!QueueConfig
  BY <1>1, <1>2, <1>3, QueueRecord DEF Given
<1> QED
  BY <1>1, <1>2, <1>4 DEF Ready, r

\* The defaults leave a queue as it is that leaves nothing open.
LEMMA ReadyQueuesStay ==
  ASSUME NEW q, Ready(q), NEW d
  PROVE  C!QueueOr(q, d) = q
BY DEF C!QueueOr, C!QueueConfig, C!OrElse, C!Positive, Ready, Given

\* Both queues of a configuration get ready, and stay as they are.
LEMMA QueuesSettle ==
  ASSUME C!TextFunctions, NEW c, c.sqs \in C!QueueConfig, c.sns \in C!QueueConfig
  PROVE  /\ Ready(C!Queues(c).sqs) /\ Ready(C!Queues(c).sns)
         /\ \A d : d.sqs = C!Queues(c).sqs /\ d.sns = C!Queues(c).sns =>
              C!Queues(d).sqs = d.sqs /\ C!Queues(d).sns = d.sns
<1> DEFINE sqs == C!QueueOr(c.sqs, C!LocalQueue)
           rest == [sqs EXCEPT !.url = "payment-events-sns"]
           sns == C!QueueOr(c.sns, rest)
<1>1. Ready(C!LocalQueue)
  <2>1. Given("us-east-1") /\ Given("http://localhost:4566") /\ Given("payment-events")
    BY LiteralsAreGiven DEF C!Literals
  <2>2. C!LocalQueue \in C!QueueConfig
    <3>1. "us-east-1" \in C!Texts /\ "http://localhost:4566" \in C!Texts /\ "payment-events" \in C!Texts
      BY <2>1 DEF Given
    <3>2. 10 \in Int /\ 1 \in Int /\ 30 \in Int
      OBVIOUS
    <3> QED
      BY <3>1, <3>2, QueueRecord, Zenon DEF C!LocalQueue
  <2>3. Given(C!LocalQueue.region) /\ Given(C!LocalQueue.endpoint) /\ Given(C!LocalQueue.url)
    BY <2>1 DEF C!LocalQueue
  <2>4. C!LocalQueue.wait > 0 /\ C!LocalQueue.max > 0 /\ C!LocalQueue.visibility > 0
    BY DEF C!LocalQueue
  <2> QED
    BY <2>2, <2>3, <2>4 DEF Ready
<1>2. Ready(sqs)
  BY <1>1, QueuesGetReady
<1>3. C!Queues(c).sqs = sqs /\ C!Queues(c).sns = sns
  BY DEF C!Queues
<1> HIDE DEF sqs
<1>4. Ready(rest)
  <2>1. Given("payment-events-sns")
    BY LiteralsAreGiven DEF C!Literals
  <2> QED
    BY <1>2, <2>1 DEF Ready, C!QueueConfig, Given
<1> HIDE DEF rest
<1>5. Ready(sns)
  BY <1>4, QueuesGetReady
<1> HIDE DEF sns
<1>6. ASSUME NEW d, d.sqs = sqs, d.sns = sns
      PROVE  C!Queues(d).sqs = d.sqs /\ C!Queues(d).sns = d.sns
  <2>1. C!QueueOr(d.sqs, C!LocalQueue) = d.sqs
    BY <1>2, <1>6, ReadyQueuesStay
  <2>2. C!QueueOr(d.sns, [d.sqs EXCEPT !.url = "payment-events-sns"]) = d.sns
    BY <1>5, <1>6, ReadyQueuesStay
  <2> QED
    BY <2>1, <2>2 DEF C!Queues
<1> QED
  BY <1>2, <1>3, <1>5, <1>6

\* Brokers that are listed end up as one host an entry, and stay so.
LEMMA BrokersSettle ==
  ASSUME NEW entries \in Seq(Seq(C!Texts)), entries # <<>>,
         \/ Len(entries) = 1 /\ entries[1] # <<>>
         \/ \A k \in DOMAIN entries : Len(entries[k]) = 1
  PROVE  LET b == C!BrokersOf(entries)
         IN  /\ b \in Seq(Seq(C!Texts)) /\ b # <<>>
             /\ \A k \in DOMAIN b : Len(b[k]) = 1
             /\ C!BrokersOf(b) = b
<1>1. CASE Len(entries) = 1
  <2> DEFINE e == entries[1]
             b == [k \in DOMAIN e |-> <<e[k]>>]
  <2>1. e \in Seq(C!Texts) /\ e # <<>>
    BY <1>1
  <2>2. C!BrokersOf(entries) = b
    BY <1>1 DEF C!BrokersOf
  <2> HIDE DEF e
  <2>3. e \in [1..Len(e) -> C!Texts] /\ Len(e) \in Nat \ {0} /\ DOMAIN e = 1..Len(e)
    BY <2>1
  <2>4. b \in Seq(Seq(C!Texts)) /\ Len(b) = Len(e) /\ DOMAIN b = 1..Len(e)
    BY <2>3
  <2>5. \A k \in DOMAIN b : b[k] = <<e[k]>>
    BY <2>4, <2>3
  <2>6. b # <<>>
    BY <2>3, <2>4
  <2>7. C!BrokersOf(b) = b
    <3>1. CASE Len(b) = 1
      <4>1. b[1] = <<e[1]>> /\ DOMAIN b[1] = 1..1 /\ b[1][1] = e[1]
        BY <3>1, <2>4, <2>5
      <4>2. C!BrokersOf(b) = [k \in 1..1 |-> <<b[1][k]>>]
        BY <3>1, <4>1 DEF C!BrokersOf
      <4>3. [k \in 1..1 |-> <<b[1][k]>>] = [k \in 1..1 |-> <<e[k]>>]
        BY <4>1
      <4> QED
        BY <3>1, <4>2, <4>3, <2>4, <2>3
    <3>2. CASE Len(b) # 1
      BY <3>2 DEF C!BrokersOf
    <3> QED
      BY <3>1, <3>2
  <2> QED
    BY <2>2, <2>4, <2>5, <2>6, <2>7
<1>2. CASE Len(entries) # 1
  BY <1>2 DEF C!BrokersOf
<1> QED
  BY <1>1, <1>2

-----------------------------------------------------------------------------
(* The defaults of the command line. *)

\* The connector that the defaults leave behind.
LEMMA ConnectorSettles ==
  ASSUME C!TextFunctions, NEW c \in C!AppConfig
  PROVE  /\ Given(C!ConnectorOf(c)) /\ C!Normal(C!ConnectorOf(c)) = C!ConnectorOf(c)
         /\ \A d : d.connector = C!ConnectorOf(c) => C!ConnectorOf(d) = d.connector
<1> DEFINE inner == C!OrElse(c.type, "rest")
           n == C!Normal(C!OrElse(c.connector, inner))
<1>1. c.type \in C!Texts /\ c.connector \in C!Texts
  BY DEF C!AppConfig
<1>2. Given("rest")
  BY LiteralsAreGiven DEF C!Literals
<1>3. Given(inner)
  BY <1>1, <1>2, DefaultsAreGiven
<1>4. C!ConnectorOf(c) = n
  BY DEF C!ConnectorOf
<1> HIDE DEF inner
<1>5. Given(n) /\ \A e : C!Normal(C!OrElse(n, e)) = n
  BY <1>1, <1>3, NormalDefaults
<1> HIDE DEF n
<1>6. C!OrElse(n, n) = n
  BY DEF C!OrElse
<1>7. C!Normal(n) = n
  BY <1>5, <1>6
<1> QED
  BY <1>4, <1>5, <1>7 DEF C!ConnectorOf

\* The settings of the DynamoDB store, written down where that is needed.
Tabled(t) == t \in C!TableConfig /\ Given(t.name) /\ Given(t.region) /\ t.days > 0

\* What both kinds of settings are made of.
LEMMA TableRecord ==
  ASSUME NEW n \in C!Texts, NEW r \in C!Texts, NEW e \in C!Texts, NEW k \in Int,
         Trimmed[n] # "", Trimmed[r] # "", k > 0
  PROVE  Tabled([name |-> n, region |-> r, endpoint |-> e, days |-> k])
BY DEF Tabled, Given, C!TableConfig

LEMMA McpRecord ==
  ASSUME NEW b \in BOOLEAN, NEW f \in BOOLEAN, NEW x \in C!Texts, NEW a \in C!Texts
  PROVE  [enabled |-> b, flag |-> f, mode |-> x, auth |-> a] \in C!McpConfig
BY DEF C!McpConfig

\* The defaults write them down, and change nothing a second time.
LEMMA TableSettles ==
  ASSUME C!TextFunctions, NEW t \in C!TableConfig
  PROVE  Tabled(C!TableOr(t)) /\ C!TableOr(C!TableOr(t)) = C!TableOr(t)
<1> DEFINE name == C!OrElse(t.name, "routing-slip-state")
           region == C!OrElse(t.region, "us-east-1")
           days == C!Positive(t.days, 30)
<1>1. t.name \in C!Texts /\ t.region \in C!Texts /\ t.endpoint \in C!Texts /\ t.days \in Int
  BY DEF C!TableConfig
<1>2. Given("routing-slip-state") /\ Given("us-east-1")
  BY LiteralsAreGiven DEF C!Literals
<1>3. /\ Given(name) /\ \A e : C!OrElse(name, e) = name
      /\ Given(region) /\ \A e : C!OrElse(region, e) = region
  BY <1>1, <1>2, DefaultsAreGiven
<1>4. days \in Int /\ days > 0 /\ C!Positive(days, 30) = days
  BY <1>1 DEF C!Positive
<1>5. C!TableOr(t) = [name |-> name, region |-> region, endpoint |-> t.endpoint, days |-> days]
  BY DEF C!TableOr
<1> HIDE DEF name, region, days
<1>6. Tabled(C!TableOr(t))
  BY <1>1, <1>3, <1>4, <1>5, TableRecord, Zenon DEF Given
<1>7. C!TableOr(C!TableOr(t)) = C!TableOr(t)
  <2> DEFINE u == C!TableOr(t)
  <2>1. u.name = name /\ u.region = region /\ u.endpoint = t.endpoint /\ u.days = days
    BY <1>5
  <2> HIDE DEF u
  <2>2. C!TableOr(u) = [name |-> name, region |-> region, endpoint |-> t.endpoint, days |-> days]
    BY <1>3, <1>4, <2>1, Zenon DEF C!TableOr
  <2> QED
    BY <1>5, <2>2 DEF u
<1> QED
  BY <1>6, <1>7

\* The same of the settings of the MCP server.
LEMMA McpSettles ==
  ASSUME C!TextFunctions, NEW m \in C!McpConfig
  PROVE  C!McpOr(m) \in C!McpConfig /\ C!McpOr(C!McpOr(m)) = C!McpOr(m)
<1> DEFINE enabled == m.enabled \/ m.flag
           mode == C!Normal(C!OrElse(m.mode, "readonly"))
           auth == C!Normal(C!OrElse(m.auth, "none"))
<1>1. m.enabled \in BOOLEAN /\ m.flag \in BOOLEAN /\ m.mode \in C!Texts /\ m.auth \in C!Texts
  BY DEF C!McpConfig
<1>2. Given("readonly") /\ Given("none")
  BY LiteralsAreGiven DEF C!Literals
<1>3. /\ Given(mode) /\ C!Normal(C!OrElse(mode, "readonly")) = mode
      /\ Given(auth) /\ C!Normal(C!OrElse(auth, "none")) = auth
  BY <1>1, <1>2, NormalDefaults
<1>4. enabled \in BOOLEAN /\ (enabled \/ m.flag) = enabled
  BY <1>1
<1>5. C!McpOr(m) = [enabled |-> enabled, flag |-> m.flag, mode |-> mode, auth |-> auth]
  BY DEF C!McpOr
<1> HIDE DEF enabled, mode, auth
<1>6. C!McpOr(m) \in C!McpConfig
  BY <1>1, <1>3, <1>4, <1>5, McpRecord, Zenon DEF Given
<1>7. C!McpOr(C!McpOr(m)) = C!McpOr(m)
  <2> DEFINE u == C!McpOr(m)
  <2>1. u.enabled = enabled /\ u.flag = m.flag /\ u.mode = mode /\ u.auth = auth
    BY <1>5
  <2> HIDE DEF u
  <2>2. C!McpOr(u) = [enabled |-> enabled, flag |-> m.flag, mode |-> mode, auth |-> auth]
    BY <1>3, <1>4, <2>1, Zenon DEF C!McpOr
  <2> QED
    BY <1>5, <2>2 DEF u
<1> QED
  BY <1>6, <1>7

\* Configurations whose settings are the same are the same.
LEMMA SameSettings ==
  ASSUME NEW c \in C!AppConfig, NEW d \in C!AppConfig,
         c.connector = d.connector, c.type = d.type, c.mode = d.mode, c.brokers = d.brokers, c.sqs = d.sqs,
         c.sns = d.sns, c.runId = d.runId, c.runTag = d.runTag, c.store = d.store, c.path = d.path,
         c.table = d.table, c.persistent = d.persistent, c.idempotent = d.idempotent, c.template = d.template,
         c.topIdempotent = d.topIdempotent, c.topTemplate = d.topTemplate, c.lock = d.lock,
         c.lockTTL = d.lockTTL, c.mcp = d.mcp, c.redaction = d.redaction
  PROVE  c = d
BY SMTT(60) DEF C!AppConfig

\* The redaction that the defaults leave behind.
Redacted(r) ==
  IF ~r.enabled /\ r.fields = {} THEN [enabled |-> TRUE, fields |-> {"token", "password"}] ELSE r

\* The mode that a connector has by default.
ModeOf(connector) == IF connector = "rest" THEN "sync" ELSE "async"

BrokersOr(entries) == IF entries = <<>> THEN <<<<"localhost:9092">>>> ELSE entries

\* d has every setting of c after the defaults, and those they leave alone.
DefaultsTo(c, d) ==
  /\ d.connector = C!ConnectorOf(c)
  /\ d.type = C!Normal(C!OrElse(c.type, C!ConnectorOf(c)))
  /\ d.mode = C!Normal(C!OrElse(c.mode, ModeOf(C!ConnectorOf(c))))
  /\ d.brokers = C!BrokersOf(BrokersOr(c.brokers))
  /\ d.sqs = C!Queues(c).sqs /\ d.sns = C!Queues(c).sns
  /\ d.runId = C!OrElse(c.runId, "now")
  /\ d.runTag = C!Written(c.runTag, C!OrElse(c.runId, "now"))
  /\ d.store = C!Normal(C!OrElse(c.store, "memory"))
  /\ d.path = C!OrElse(c.path, ".routing-slip-state")
  /\ d.table = C!TableOr(c.table)
  /\ d.template = C!OrElse(c.template, C!Template)
  /\ d.lock = C!Chosen(c.lock, TRUE) /\ d.lockTTL = C!Positive(c.lockTTL, 300)
  /\ d.mcp = C!McpOr(c.mcp)
  /\ d.redaction = Redacted(c.redaction)
  /\ d.persistent = c.persistent /\ d.idempotent = c.idempotent
  /\ d.topIdempotent = c.topIdempotent /\ d.topTemplate = c.topTemplate

\* The defaults are the settings of DefaultsTo.
LEMMA DefaultFields ==
  ASSUME NEW c \in C!AppConfig
  PROVE  DefaultsTo(c, C!AppDefaults(c))
<1> DEFINE connector == C!ConnectorOf(c)
           type == C!Normal(C!OrElse(c.type, connector))
           mode == C!Normal(C!OrElse(c.mode, ModeOf(connector)))
           brokers == C!BrokersOf(BrokersOr(c.brokers))
           sqs == C!Queues(c).sqs
           sns == C!Queues(c).sns
           runId == C!OrElse(c.runId, "now")
           runTag == C!Written(c.runTag, runId)
           store == C!Normal(C!OrElse(c.store, "memory"))
           path == C!OrElse(c.path, ".routing-slip-state")
           table == C!TableOr(c.table)
           template == C!OrElse(c.template, C!Template)
           lock == C!Chosen(c.lock, TRUE)
           lockTTL == C!Positive(c.lockTTL, 300)
           mcp == C!McpOr(c.mcp)
           redaction == Redacted(c.redaction)
           e == [c EXCEPT !.connector = connector, !.type = type, !.mode = mode, !.brokers = brokers, !.sqs = sqs,
                          !.sns = sns, !.runId = runId, !.runTag = runTag, !.store = store, !.path = path,
                          !.table = table, !.template = template, !.lock = lock, !.lockTTL = lockTTL, !.mcp = mcp,
                          !.redaction = redaction]
<1>1. C!AppDefaults(c) = e
  BY DEF C!AppDefaults, C!Written, ModeOf, BrokersOr, Redacted
<1> HIDE DEF connector, type, mode, brokers, sqs, sns, runId, runTag, store, path, table, template, lock, lockTTL,
             mcp, redaction
<1>2. /\ e.connector = connector /\ e.type = type /\ e.mode = mode /\ e.brokers = brokers /\ e.sqs = sqs
      /\ e.sns = sns /\ e.runId = runId /\ e.runTag = runTag /\ e.store = store /\ e.path = path
      /\ e.table = table /\ e.template = template /\ e.lock = lock /\ e.lockTTL = lockTTL /\ e.mcp = mcp
      /\ e.redaction = redaction
      /\ e.persistent = c.persistent /\ e.idempotent = c.idempotent
      /\ e.topIdempotent = c.topIdempotent /\ e.topTemplate = c.topTemplate
  BY DEF C!AppConfig
<1> HIDE DEF e
<1> QED
  BY <1>1, <1>2 DEF DefaultsTo, connector, type, mode, brokers, sqs, sns, runId, runTag, store, path, table, template, lock,
                    lockTTL, mcp, redaction

\* The brokers that the defaults put in are one entry with one host.
LEMMA OneBroker ==
  ASSUME C!TextFunctions
  PROVE  LET b == <<<<"localhost:9092">>>>
         IN  b \in Seq(Seq(C!Texts)) /\ b # <<>> /\ Len(b) = 1 /\ b[1] # <<>>
<1>1. ASSUME NEW h \in C!Texts
      PROVE  /\ <<<<h>>>> \in Seq(Seq(C!Texts)) /\ <<<<h>>>> # <<>>
             /\ Len(<<<<h>>>>) = 1 /\ <<<<h>>>>[1] # <<>>
  <2> DEFINE e == <<h>>
             b == <<e>>
  <2>1. e \in Seq(C!Texts) /\ Len(e) = 1
    OBVIOUS
  <2>2. e # <<>>
    BY <2>1
  <2> HIDE DEF e
  <2>3. b \in Seq(Seq(C!Texts)) /\ Len(b) = 1 /\ b[1] = e
    BY <2>1
  <2>4. b # <<>>
    BY <2>3
  <2> QED
    BY <2>2, <2>3, <2>4 DEF e
<1>2. "localhost:9092" \in C!Texts
  BY DEF C!TextFunctions, C!Literals
<1> QED
  BY <1>1, <1>2, Zenon

\* With brokers of their own or the default one, brokers are listed.
LEMMA BrokersGiven ==
  ASSUME C!TextFunctions, NEW c, c.brokers \in Seq(Seq(C!Texts)), C!BrokersListed(c)
  PROVE  LET entries == BrokersOr(c.brokers)
         IN  /\ entries \in Seq(Seq(C!Texts)) /\ entries # <<>>
             /\ \/ Len(entries) = 1 /\ entries[1] # <<>>
                \/ \A k \in DOMAIN entries : Len(entries[k]) = 1
<1> DEFINE entries == BrokersOr(c.brokers)
<1>1. CASE c.brokers = <<>>
  <2>1. entries = <<<<"localhost:9092">>>>
    BY <1>1 DEF BrokersOr
  <2> QED
    BY <2>1, OneBroker
<1>2. CASE c.brokers # <<>>
  BY <1>2 DEF BrokersOr, C!BrokersListed
<1> QED
  BY <1>1, <1>2

\* A flag that is not written becomes a flag, and the redaction stays one.
LEMMA ChosenFlag ==
  ASSUME NEW flag \in {{}, {TRUE}, {FALSE}}
  PROVE  C!Chosen(flag, TRUE) \in {{TRUE}, {FALSE}}
BY Zenon DEF C!Chosen

\* The redaction with its defaults has its type and stays as it is.
LEMMA RedactionStays ==
  ASSUME C!TextFunctions, NEW r \in [enabled : BOOLEAN, fields : SUBSET C!Texts]
  PROVE  /\ Redacted(r) \in [enabled : BOOLEAN, fields : SUBSET C!Texts]
         /\ Redacted(Redacted(r)) = Redacted(r)
<1> DEFINE given == [enabled |-> TRUE, fields |-> {"token", "password"}]
<1>1. {"token", "password"} \in SUBSET C!Texts
  <2>1. "token" \in C!Texts /\ "password" \in C!Texts
    BY DEF C!TextFunctions, C!Literals
  <2>2. ASSUME NEW s \in C!Texts, NEW t \in C!Texts
        PROVE  {s, t} \in SUBSET C!Texts
    OBVIOUS
  <2> QED
    BY <2>1, <2>2, Zenon
<1>2. given \in [enabled : BOOLEAN, fields : SUBSET C!Texts]
  BY <1>1
<1>3. given.enabled
  OBVIOUS
<1> HIDE DEF given
<1>4. Redacted(r) = IF ~r.enabled /\ r.fields = {} THEN given ELSE r
  BY DEF Redacted, given
<1>5. Redacted(given) = given
  BY <1>3 DEF Redacted
<1>6. CASE ~r.enabled /\ r.fields = {}
  BY <1>2, <1>4, <1>5, <1>6
<1>7. CASE ~(~r.enabled /\ r.fields = {})
  <2>1. Redacted(r) = r
    BY <1>4, <1>7
  <2> QED
    BY <2>1
<1> QED
  BY <1>6, <1>7

\* What every setting is worth after the defaults.
LEMMA DefaultsAreSound ==
  ASSUME C!TextFunctions, NEW c \in C!AppConfig, C!BrokersListed(c)
  PROVE  LET d == C!AppDefaults(c)
         IN  /\ \A t \in {d.connector, d.type, d.mode, d.runId, d.store, d.path, d.template} : Given(t)
             /\ Tabled(d.table) /\ d.mcp \in C!McpConfig
             /\ d.runTag \in C!Texts /\ d.runTag # ""
             /\ d.brokers \in Seq(Seq(C!Texts)) /\ d.brokers # <<>>
             /\ \A k \in DOMAIN d.brokers : Len(d.brokers[k]) = 1
             /\ Ready(d.sqs) /\ Ready(d.sns)
             /\ d.lock \in {{TRUE}, {FALSE}} /\ d.lockTTL \in Int /\ d.lockTTL > 0
             /\ d.redaction \in [enabled : BOOLEAN, fields : SUBSET C!Texts]
<1> DEFINE d == C!AppDefaults(c)
<1>0. DefaultsTo(c, d)
  BY DefaultFields
<1> HIDE DEF d
<1>1. /\ c.type \in C!Texts /\ c.mode \in C!Texts /\ c.runId \in C!Texts /\ c.runTag \in C!Texts
      /\ c.store \in C!Texts /\ c.path \in C!Texts /\ c.template \in C!Texts
      /\ c.table \in C!TableConfig /\ c.mcp \in C!McpConfig /\ c.brokers \in Seq(Seq(C!Texts)) /\ c.sqs \in C!QueueConfig
      /\ c.sns \in C!QueueConfig /\ c.lock \in {{}, {TRUE}, {FALSE}} /\ c.lockTTL \in Int
      /\ c.redaction \in [enabled : BOOLEAN, fields : SUBSET C!Texts]
  BY DEF C!AppConfig
<1>2. Given(C!ConnectorOf(c))
  BY ConnectorSettles
<1>3. /\ Given("sync") /\ Given("async") /\ Given("now") /\ Given("memory") /\ Given(".routing-slip-state")
      /\ Given(C!Template)
  <2>1. C!Template # ""
    BY DEF C!Template
  <2> QED
    BY <2>1, LiteralsAreGiven DEF C!Literals
<1>4. Given(ModeOf(C!ConnectorOf(c)))
  BY <1>3 DEF ModeOf
<1>5. Given(d.connector) /\ Given(d.type) /\ Given(d.mode) /\ Given(d.store)
  <2>1. Given(d.connector) /\ d.connector = C!ConnectorOf(c)
    BY <1>0, <1>2 DEF DefaultsTo
  <2>2. Given(d.type) /\ Given(d.mode)
    BY <1>0, <1>1, <1>2, <1>4, NormalDefaults DEF DefaultsTo
  <2>3. Given(d.store)
    BY <1>0, <1>1, <1>3, NormalDefaults DEF DefaultsTo
  <2> QED
    BY <2>1, <2>2, <2>3
<1>6. Given(d.runId) /\ Given(d.path) /\ Given(d.template)
  BY <1>0, <1>1, <1>3, DefaultsAreGiven DEF DefaultsTo
<1>7. d.runTag \in C!Texts /\ d.runTag # ""
  <2>1. d.runTag = C!Written(c.runTag, d.runId)
    BY <1>0 DEF DefaultsTo
  <2>2. d.runId \in C!Texts /\ d.runId # ""
    BY <1>6, GivenIsNotEmpty DEF Given
  <2> QED
    BY <1>1, <2>1, <2>2 DEF C!Written
<1>8. /\ d.brokers \in Seq(Seq(C!Texts)) /\ d.brokers # <<>>
      /\ \A k \in DOMAIN d.brokers : Len(d.brokers[k]) = 1
  <2> DEFINE entries == BrokersOr(c.brokers)
  <2>1. /\ entries \in Seq(Seq(C!Texts)) /\ entries # <<>>
        /\ \/ Len(entries) = 1 /\ entries[1] # <<>>
           \/ \A k \in DOMAIN entries : Len(entries[k]) = 1
    BY <1>1, BrokersGiven
  <2>2. d.brokers = C!BrokersOf(entries)
    BY <1>0 DEF DefaultsTo
  <2> HIDE DEF entries
  <2> QED
    BY <2>1, <2>2, BrokersSettle
<1>9. Ready(d.sqs) /\ Ready(d.sns)
  BY <1>0, <1>1, QueuesSettle DEF DefaultsTo
<1>10. d.lock \in {{TRUE}, {FALSE}} /\ d.lockTTL \in Int /\ d.lockTTL > 0 /\ Tabled(d.table) /\ d.mcp \in C!McpConfig
  <2>1. d.lock \in {{TRUE}, {FALSE}}
    BY <1>0, <1>1, ChosenFlag DEF DefaultsTo
  <2>2. d.lockTTL \in Int /\ d.lockTTL > 0
    BY <1>0, <1>1 DEF DefaultsTo, C!Positive
  <2>3. Tabled(d.table) /\ d.mcp \in C!McpConfig
    BY <1>0, <1>1, TableSettles, McpSettles DEF DefaultsTo
  <2> QED
    BY <2>1, <2>2, <2>3
<1>11. d.redaction \in [enabled : BOOLEAN, fields : SUBSET C!Texts]
  BY <1>0, <1>1, RedactionStays DEF DefaultsTo
<1> QED
  BY <1>5, <1>6, <1>7, <1>8, <1>9, <1>10, <1>11 DEF d

\* A configuration with its defaults is one that a file can hold.
LEMMA DefaultsAreWritable ==
  ASSUME C!TextFunctions, NEW c \in C!AppConfig, C!BrokersListed(c)
  PROVE  C!AppDefaults(c) \in C!AppConfig
<1> DEFINE d == C!AppDefaults(c)
           connector == d.connector
           type == d.type
           mode == d.mode
           brokers == d.brokers
           sqs == d.sqs
           sns == d.sns
           runId == d.runId
           runTag == d.runTag
           store == d.store
           path == d.path
           table == d.table
           template == d.template
           lock == d.lock
           lockTTL == d.lockTTL
           mcp == d.mcp
           redaction == d.redaction
           e == [c EXCEPT !.connector = connector, !.type = type, !.mode = mode, !.brokers = brokers, !.sqs = sqs,
                          !.sns = sns, !.runId = runId, !.runTag = runTag, !.store = store, !.path = path,
                          !.table = table, !.template = template, !.lock = lock, !.lockTTL = lockTTL, !.mcp = mcp,
                          !.redaction = redaction]
<1>1. /\ connector \in C!Texts /\ type \in C!Texts /\ mode \in C!Texts
      /\ brokers \in Seq(Seq(C!Texts)) /\ sqs \in C!QueueConfig /\ sns \in C!QueueConfig
      /\ runId \in C!Texts /\ runTag \in C!Texts /\ store \in C!Texts /\ path \in C!Texts
      /\ table \in C!TableConfig /\ template \in C!Texts /\ lock \in {{}, {TRUE}, {FALSE}}
      /\ lockTTL \in Int /\ mcp \in C!McpConfig
      /\ redaction \in [enabled : BOOLEAN, fields : SUBSET C!Texts]
  BY DefaultsAreSound DEF Given, Ready, Tabled
<1>2. d = e
  BY DefaultFields DEF DefaultsTo, C!AppDefaults, ModeOf, BrokersOr, Redacted, C!Written
<1> HIDE DEF connector, type, mode, brokers, sqs, sns, runId, runTag, store, path, table, template, lock, lockTTL,
             mcp, redaction
<1>3. e \in C!AppConfig
  BY <1>1 DEF C!AppConfig
<1> QED
  BY <1>2, <1>3, Zenon

\* A second application of the defaults changes nothing.
LEMMA DefaultsStay ==
  ASSUME C!TextFunctions, NEW c \in C!AppConfig, C!BrokersListed(c)
  PROVE  C!AppDefaults(C!AppDefaults(c)) = C!AppDefaults(c)
<1> DEFINE d == C!AppDefaults(c)
           e == C!AppDefaults(d)
<1>1. d \in C!AppConfig /\ DefaultsTo(c, d)
  BY DefaultFields, DefaultsAreWritable
<1>2. /\ d.brokers # <<>> /\ \A k \in DOMAIN d.brokers : Len(d.brokers[k]) = 1
      /\ d.brokers \in Seq(Seq(C!Texts))
      /\ Given(d.runId) /\ Given(d.path) /\ Given(d.template)
      /\ d.runTag # "" /\ d.lock \in {{TRUE}, {FALSE}} /\ d.lockTTL > 0
  BY DefaultsAreSound
<1> HIDE DEF d
<1>3. DefaultsTo(d, e) /\ e \in C!AppConfig
  BY <1>1, <1>2, DefaultFields, DefaultsAreWritable DEF C!BrokersListed
<1> HIDE DEF e
<1>4. /\ c.type \in C!Texts /\ c.mode \in C!Texts /\ c.store \in C!Texts
      /\ c.sqs \in C!QueueConfig /\ c.sns \in C!QueueConfig /\ c.table \in C!TableConfig /\ c.mcp \in C!McpConfig
      /\ c.redaction \in [enabled : BOOLEAN, fields : SUBSET C!Texts]
      /\ c.brokers \in Seq(Seq(C!Texts))
  BY DEF C!AppConfig
<1>5. e.connector = d.connector
  BY <1>1, <1>3, ConnectorSettles DEF DefaultsTo
<1>6. e.type = d.type /\ e.mode = d.mode /\ e.store = d.store
  <2>1. Given(C!ConnectorOf(c))
    BY ConnectorSettles
  <2>2. Given("sync") /\ Given("async") /\ Given("memory")
    BY LiteralsAreGiven DEF C!Literals
  <2>3. Given(ModeOf(C!ConnectorOf(c)))
    BY <2>2 DEF ModeOf
  <2>4. e.type = d.type
    BY <1>1, <1>3, <1>4, <2>1, NormalDefaults DEF DefaultsTo
  <2>5. e.mode = d.mode
    BY <1>1, <1>3, <1>4, <2>3, NormalDefaults DEF DefaultsTo
  <2>6. e.store = d.store
    BY <1>1, <1>3, <1>4, <2>2, NormalDefaults DEF DefaultsTo
  <2> QED
    BY <2>4, <2>5, <2>6
<1>7. e.brokers = d.brokers
  <2>1. BrokersOr(d.brokers) = d.brokers
    BY <1>2 DEF BrokersOr
  <2>2. C!BrokersOf(d.brokers) = d.brokers
    <3> DEFINE entries == BrokersOr(c.brokers)
    <3>1. /\ entries \in Seq(Seq(C!Texts)) /\ entries # <<>>
          /\ \/ Len(entries) = 1 /\ entries[1] # <<>>
             \/ \A k \in DOMAIN entries : Len(entries[k]) = 1
      BY <1>4, BrokersGiven
    <3> HIDE DEF entries
    <3>2. C!BrokersOf(C!BrokersOf(entries)) = C!BrokersOf(entries)
      BY <3>1, BrokersSettle
    <3> QED
      BY <1>1, <3>2 DEF DefaultsTo, entries
  <2> QED
    BY <1>3, <2>1, <2>2 DEF DefaultsTo
<1>8. e.sqs = d.sqs /\ e.sns = d.sns
  BY <1>1, <1>3, <1>4, QueuesSettle DEF DefaultsTo
<1>9. e.runId = d.runId /\ e.runTag = d.runTag /\ e.path = d.path /\ e.template = d.template
  BY <1>2, <1>3 DEF DefaultsTo, C!OrElse, C!Written, Given
<1>10. e.lock = d.lock
  BY <1>2, <1>3, Zenon DEF DefaultsTo, C!Chosen
<1>11. e.lockTTL = d.lockTTL /\ e.table = d.table /\ e.mcp = d.mcp
  <2>1. e.lockTTL = d.lockTTL
    BY <1>2, <1>3 DEF DefaultsTo, C!Positive
  <2>2. e.table = d.table /\ e.mcp = d.mcp
    BY <1>1, <1>3, <1>4, TableSettles, McpSettles DEF DefaultsTo
  <2> QED
    BY <2>1, <2>2
<1>12. e.redaction = d.redaction
  BY <1>1, <1>3, <1>4, RedactionStays DEF DefaultsTo
<1>13. /\ e.persistent = d.persistent /\ e.idempotent = d.idempotent /\ e.topIdempotent = d.topIdempotent
       /\ e.topTemplate = d.topTemplate
  BY <1>3 DEF DefaultsTo
<1>14. e = d
  BY <1>1, <1>3, <1>5, <1>6, <1>7, <1>8, <1>9, <1>10, <1>11, <1>12, <1>13, SameSettings
<1> QED
  BY <1>14 DEF d, e

-----------------------------------------------------------------------------
(* Workflow files, stores and policies. *)

\* The head of a workflow after the defaults of the command line.
LEMMA WorkflowFields ==
  ASSUME NEW w \in C!WorkflowConfig
  PROVE  LET v == C!WorkflowDefaults(w)
         IN  /\ v.name = C!OrElse(w.name, "payment-event-fulfillment")
             /\ v.policy = C!OrElse(w.policy, "stop")
             /\ v.messagePath = C!OrElse(w.messagePath, "payload.pagamento_id")
             /\ v.correlationPath = C!OrElse(w.correlationPath, "correlation_id")
             /\ v.steps = w.steps
BY DEF C!WorkflowDefaults, C!WorkflowConfig

\* A second application of its defaults changes nothing.
LEMMA WorkflowStays ==
  ASSUME C!TextFunctions, NEW w \in C!WorkflowConfig
  PROVE  C!WorkflowDefaults(C!WorkflowDefaults(w)) = C!WorkflowDefaults(w)
<1> DEFINE name == C!OrElse(w.name, "payment-event-fulfillment")
           policy == C!OrElse(w.policy, "stop")
           messagePath == C!OrElse(w.messagePath, "payload.pagamento_id")
           correlationPath == C!OrElse(w.correlationPath, "correlation_id")
           v == [w EXCEPT !.name = name, !.policy = policy, !.messagePath = messagePath,
                          !.correlationPath = correlationPath]
<1>1. w.name \in C!Texts /\ w.policy \in C!Texts /\ w.messagePath \in C!Texts /\ w.correlationPath \in C!Texts
  BY DEF C!WorkflowConfig
<1>2. Given("payment-event-fulfillment") /\ Given("stop") /\ Given("payload.pagamento_id") /\ Given("correlation_id")
  BY LiteralsAreGiven DEF C!Literals
<1>3. /\ \A e : C!OrElse(name, e) = name
      /\ \A e : C!OrElse(policy, e) = policy
      /\ \A e : C!OrElse(messagePath, e) = messagePath
      /\ \A e : C!OrElse(correlationPath, e) = correlationPath
  BY <1>1, <1>2, DefaultsAreGiven
<1>4. C!WorkflowDefaults(w) = v
  BY DEF C!WorkflowDefaults
<1> HIDE DEF name, policy, messagePath, correlationPath
<1>5. v.name = name /\ v.policy = policy /\ v.messagePath = messagePath /\ v.correlationPath = correlationPath
  BY DEF C!WorkflowConfig
<1>6. C!WorkflowDefaults(v) = [v EXCEPT !.name = name, !.policy = policy, !.messagePath = messagePath,
                                        !.correlationPath = correlationPath]
  BY <1>3, <1>5 DEF C!WorkflowDefaults
<1>7. [v EXCEPT !.name = name, !.policy = policy, !.messagePath = messagePath, !.correlationPath = correlationPath] = v
  BY DEF C!WorkflowConfig
<1> QED
  BY <1>4, <1>6, <1>7

\* What a store is, for each of the types that the configuration may name.
LEMMA StoreOfType ==
  ASSUME NEW type, NEW path, NEW tables
  PROVE  /\ type \in {"", "memory"} => C!Store(type, path, tables) = {<<"memory">>}
         /\ type = "file" => C!Store(type, path, tables) = {<<"file", C!TrimmedOr(path, ".routing-slip-state")>>}
         /\ type = "dynamodb" => C!Store(type, path, tables) = {<<"dynamodb", t>> : t \in tables}
         /\ type \notin {"", "memory", "file", "dynamodb"} => C!Store(type, path, tables) = {}
BY Zenon DEF C!Store

\* There is a table if one is named, and no more than one.
LEMMA TableNamed ==
  ASSUME NEW table, NEW endpoint
  PROVE  /\ C!Tables(table, endpoint) # {} <=> Trimmed[table.name] # ""
         /\ \A x, y \in C!Tables(table, endpoint) : x = y
<1> DEFINE r(n) == [name |-> n, region |-> table.region, endpoint |-> endpoint, days |-> C!Positive(table.days, 0)]
           names == {Trimmed[table.name]} \ {""}
<1>1. C!Tables(table, endpoint) = {r(n) : n \in names}
  BY DEF C!Tables
<1> HIDE DEF r
<1>2. {r(n) : n \in names} # {} <=> names # {}
  BY Zenon
<1>3. \A x, y \in {r(n) : n \in names} : x = y
  OBVIOUS
<1> QED
  BY <1>1, <1>2, <1>3

\* The store of a configuration with its defaults.
LEMMA StoreSettles ==
  ASSUME C!TextFunctions, NEW c \in C!AppConfig, C!BrokersListed(c)
  PROVE  LET d == C!AppDefaults(c)
         IN  /\ C!AppStores(d) = IF c.persistent THEN C!Store(d.store, d.path, C!AppTables(d.table)) ELSE {<<"memory">>}
             /\ d.store \in {"memory", "file", "dynamodb"} => C!AppStores(d) # {}
<1> DEFINE d == C!AppDefaults(c)
<1>1. DefaultsTo(c, d)
  BY DefaultFields
<1>2. Given(d.store) /\ Tabled(d.table)
  BY DefaultsAreSound
<1> HIDE DEF d
<1>3. C!Normal(d.store) = d.store
  <2>1. c.store \in C!Texts
    BY DEF C!AppConfig
  <2>2. Given("memory")
    BY LiteralsAreGiven DEF C!Literals
  <2>3. C!OrElse(c.store, "memory") \in C!Texts
    BY <2>1, <2>2, DefaultsAreGiven DEF Given
  <2>4. C!Normal(C!Normal(C!OrElse(c.store, "memory"))) = C!Normal(C!OrElse(c.store, "memory"))
    BY <2>3, NormalTexts
  <2> QED
    BY <1>1, <2>4 DEF DefaultsTo
<1>4. C!AppStores(d) = IF c.persistent THEN C!Store(d.store, d.path, C!AppTables(d.table)) ELSE {<<"memory">>}
  BY <1>1, <1>3 DEF DefaultsTo, C!AppStores
<1>5. ASSUME d.store \in {"memory", "file", "dynamodb"}
      PROVE  C!Store(d.store, d.path, C!AppTables(d.table)) # {}
  <2> DEFINE type == d.store
             st == C!Store(type, d.path, C!AppTables(d.table))
             file == <<"file", C!TrimmedOr(d.path, ".routing-slip-state")>>
             rest == C!AppTables(d.table)
  <2>1. CASE type = "memory"
    <3>1. st = {<<"memory">>}
      BY <2>1, StoreOfType
    <3> QED
      BY <3>1
  <2>2. CASE type = "file"
    <3>1. st = {file}
      BY <2>2, StoreOfType
    <3> HIDE DEF file
    <3> QED
      BY <3>1
  <2>3. CASE type = "dynamodb"
    <3>1. st = {<<"dynamodb", t>> : t \in rest}
      BY <2>3, StoreOfType
    <3>2. rest # {}
      BY <1>2, TableNamed DEF Given, Tabled, C!AppTables
    <3> HIDE DEF rest
    <3> QED
      BY <3>1, <3>2
  <2> QED
    BY <1>5, <2>1, <2>2, <2>3
<1>6. {<<"memory">>} # {}
  OBVIOUS
<1> QED
  BY <1>4, <1>5, <1>6 DEF d

\* A runtime starts exactly with a policy and a store.
LEMMA RuntimeNeeds ==
  ASSUME NEW P, NEW S, NEW v, NEW o, NEW i, NEW t
  PROVE  C!Runtime(P, S, v, o, i, t) # {} <=> P # {} /\ S # {}
<1> DEFINE r(p, s) == [policy |-> p, store |-> s, workflow |-> v.name, messagePath |-> v.messagePath,
                       correlationPath |-> v.correlationPath, steps |-> o, idempotent |-> i,
                       template |-> C!TrimmedOr(t, C!Template)]
<1>1. C!Runtime(P, S, v, o, i, t) = {r(p, s) : p \in P, s \in S}
  BY DEF C!Runtime
<1> HIDE DEF r
<1>2. ASSUME NEW p \in P, NEW s \in S
      PROVE  r(p, s) \in C!Runtime(P, S, v, o, i, t)
  BY <1>1
<1>3. ASSUME NEW x \in C!Runtime(P, S, v, o, i, t)
      PROVE  P # {} /\ S # {}
  BY <1>1
<1> QED
  BY <1>2, <1>3

\* What is accepted has a consumer, and starts if its policy is known.
LEMMA StartsWhenAccepted ==
  ASSUME C!TextFunctions, NEW c \in C!AppConfig, C!BrokersListed(c), NEW w \in C!WorkflowConfig
  PROVE  C!AcceptedStarts(c, w)
<1> DEFINE d == C!AppDefaults(c)
           v == C!WorkflowDefaults(w)
           o == C!Composed(v.steps, TRUE)
<1> SUFFICES ASSUME C!Valid(d), w.steps # <<>>
             PROVE  C!HasConsumer(d) /\ (C!KnownPolicy(w) <=> C!AppRuntime(c, w) # {})
  BY DEF C!AcceptedStarts
<1>1. C!HasConsumer(d)
  BY DEF C!Valid, C!HasConsumer
<1>2. v.steps # <<>>
  BY WorkflowFields
<1>3. C!AppStores(d) # {}
  BY StoreSettles DEF C!Valid
<1>4. C!AppRuntime(c, w) = C!Runtime(C!PolicyOf(C!Normal(v.policy)), C!AppStores(d), v, o, d.idempotent, d.template)
  <2>1. C!Valid(d) /\ ~(v.steps = <<>>)
    BY <1>2
  <2> QED
    BY <2>1, Zenon DEF C!AppRuntime
<1>5. C!KnownPolicy(w) <=> C!PolicyOf(C!Normal(v.policy)) # {}
  BY DEF C!KnownPolicy
<1> HIDE DEF d, v, o
<1>6. C!Runtime(C!PolicyOf(C!Normal(v.policy)), C!AppStores(d), v, o, d.idempotent, d.template) # {}
        <=> C!PolicyOf(C!Normal(v.policy)) # {} /\ C!AppStores(d) # {}
  BY RuntimeNeeds, Zenon
<1> QED
  BY <1>1, <1>3, <1>4, <1>5, <1>6, Zenon

\* Nothing is left open after the defaults.
LEMMA DefaultsAreComplete ==
  ASSUME C!TextFunctions, NEW c \in C!AppConfig, C!BrokersListed(c)
  PROVE  C!Complete(C!AppDefaults(c))
<1> DEFINE d == C!AppDefaults(c)
<1>1. /\ d.brokers # <<>> /\ \A k \in DOMAIN d.brokers : Len(d.brokers[k]) = 1
      /\ Ready(d.sqs) /\ Ready(d.sns) /\ Given(d.template) /\ Tabled(d.table)
      /\ d.runTag # "" /\ d.lock \in {{TRUE}, {FALSE}} /\ d.lockTTL > 0
  BY DefaultsAreSound
<1> HIDE DEF d
<1>2. d.lock # {}
  BY <1>1, Zenon
<1>3. d.template # "" /\ d.table.region # "" /\ d.table.days > 0
  BY <1>1, GivenIsNotEmpty DEF Tabled
<1>4. \A q \in {d.sqs, d.sns} : /\ q.region # "" /\ q.endpoint # "" /\ q.url # ""
                               /\ q.wait > 0 /\ q.max > 0 /\ q.visibility > 0
  BY <1>1, GivenIsNotEmpty DEF Ready
<1>5. C!Complete(d)
  BY <1>1, <1>2, <1>3, <1>4 DEF C!Complete
<1> QED
  BY <1>5 DEF d

-----------------------------------------------------------------------------
(* The two runtimes. *)

\* What both runtimes call the same policy is one.
LEMMA SamePolicy ==
  ASSUME C!TextFunctions, NEW t \in C!Texts,
         NEW p \in C!PolicyOf(C!Normal(C!OrElse(t, "stop"))), NEW q \in C!PolicyOf(Lowered[t])
  PROVE  p = q
<1>1. "stop" # "" /\ C!Normal("stop") = "stop" /\ Lowered[""] = "" /\ Trimmed[""] = ""
  BY LiteralsAreGiven DEF C!TextFunctions, C!Literals
<1>2. CASE t = ""
  <2>1. C!OrElse(t, "stop") = "stop"
    BY <1>1, <1>2 DEF C!OrElse
  <2> QED
    BY <1>1, <1>2, <2>1 DEF C!PolicyOf
<1>3. CASE t # ""
  <2>1. Lowered[t] # ""
    BY <1>3 DEF C!TextFunctions
  <2>2. q = Lowered[t] /\ q \in C!Policies
    BY <2>1 DEF C!PolicyOf
  <2>3. Trimmed[q] = q /\ q # ""
    <3>1. q \in C!Literals /\ q # ""
      BY <2>2 DEF C!Policies, C!Literals
    <3> QED
      BY <3>1, LiteralsStay
  <2>4. C!Normal(t) = q
    BY <2>2, <2>3 DEF C!Normal, C!TextFunctions
  <2>5. Trimmed[t] # ""
    BY <1>1, <2>3, <2>4 DEF C!Normal
  <2>6. C!OrElse(t, "stop") = t
    BY <2>5 DEF C!OrElse
  <2> QED
    BY <2>3, <2>4, <2>6 DEF C!PolicyOf
<1> QED
  BY <1>2, <1>3

\* A type of store that the framework knows is the same one for the command line.
LEMMA SameType ==
  ASSUME C!TextFunctions, NEW t \in C!Texts, Lowered[t] \in {"", "memory", "file", "dynamodb"}
  PROVE  /\ C!Normal(t) = Lowered[t]
         /\ C!Normal(C!OrElse(t, "memory")) = IF Lowered[t] = "" THEN "memory" ELSE Lowered[t]
<1>1. C!Normal("memory") = "memory" /\ Lowered[""] = "" /\ Trimmed[""] = ""
  BY LiteralsAreGiven DEF C!TextFunctions, C!Literals
<1>2. Trimmed[Lowered[t]] = Lowered[t]
  <2>1. Lowered[t] \in C!Literals
    BY DEF C!Literals
  <2> QED
    BY <2>1, LiteralsStay
<1>3. C!Normal(t) = Lowered[t]
  BY <1>2 DEF C!Normal, C!TextFunctions
<1>4. Trimmed[t] = "" <=> Lowered[t] = ""
  BY <1>3, NormalTexts
<1> QED
  BY <1>1, <1>3, <1>4 DEF C!OrElse

\* A default that the configuration has already put in is the one of the store.
LEMMA SamePlace ==
  ASSUME C!TextFunctions, NEW t \in C!Texts, NEW d, Given(d), Trimmed[d] = d
  PROVE  /\ C!TrimmedOr(C!OrElse(t, d), d) = C!TrimmedOr(t, d)
         /\ C!TrimmedOr(C!Written(t, d), d) = C!TrimmedOr(t, d)
         /\ Trimmed[t] # "" => C!OrElse(t, d) = t
<1>1. Trimmed[""] = ""
  BY DEF C!TextFunctions, C!Literals
<1> QED
  BY <1>1 DEF C!TrimmedOr, C!OrElse, C!Written, Given

\* A table whose region and expiry are written is the same one for both.
LEMMA TablesAreOne ==
  ASSUME C!TextFunctions, NEW t \in C!TableConfig, Trimmed[t.name] # "", C!SameTable(t)
  PROVE  /\ C!AppTables(C!TableOr(t)) = C!FrameworkTables(t)
         /\ \A x, y \in C!FrameworkTables(t) : x = y
<1>1. Trimmed[t.region] # "" /\ t.days > 0 /\ (t.endpoint = "" \/ Trimmed[t.endpoint] # "")
  BY DEF C!SameTable
<1>2. C!TableOr(t) = t
  <2>1. C!OrElse(t.name, "routing-slip-state") = t.name /\ C!OrElse(t.region, "us-east-1") = t.region
    BY <1>1 DEF C!OrElse
  <2>2. C!Positive(t.days, 30) = t.days
    BY <1>1 DEF C!Positive
  <2>3. C!TableOr(t) = [name |-> t.name, region |-> t.region, endpoint |-> t.endpoint, days |-> t.days]
    BY <2>1, <2>2, Zenon DEF C!TableOr
  <2> QED
    BY <2>3 DEF C!TableConfig
<1>3. Trimmed[""] = ""
  BY DEF C!TextFunctions, C!Literals
<1>4. {e \in {t.endpoint} : Trimmed[e] # ""} = {t.endpoint} \ {""}
  BY <1>1, <1>3
<1>5. C!AppTables(t) = C!FrameworkTables(t)
  BY <1>4, Zenon DEF C!AppTables, C!FrameworkTables
<1> QED
  BY <1>2, <1>5, TableNamed DEF C!FrameworkTables

\* What both runtimes start with for a store is one.
LEMMA SameStore ==
  ASSUME C!TextFunctions, NEW c \in C!AppConfig, C!BrokersListed(c),
         c.persistent \/ C!Normal(c.store) \in {"", "memory"},
         C!Normal(c.store) = "dynamodb" => C!SameTable(c.table),
         NEW a \in C!AppStores(C!AppDefaults(c)), NEW f \in C!FrameworkStores(c)
  PROVE  a = f
<1> DEFINE d == C!AppDefaults(c)
           low == Lowered[c.store]
           own == C!Store(d.store, d.path, C!AppTables(d.table))
           other == C!Store(low, c.path, C!FrameworkTables(c.table))
           default == ".routing-slip-state"
<1>1. DefaultsTo(c, d)
  BY DefaultFields
<1>2. a \in IF c.persistent THEN own ELSE {<<"memory">>}
  BY StoreSettles
<1>3. f \in other
  BY DEF C!FrameworkStores
<1> HIDE DEF d
<1>4. c.store \in C!Texts /\ c.path \in C!Texts /\ c.table \in C!TableConfig
  BY DEF C!AppConfig
<1>5. low \in {"", "memory", "file", "dynamodb"}
  <2>1. low \notin {"", "memory", "file", "dynamodb"} => other = {}
    BY StoreOfType
  <2> QED
    BY <1>3, <2>1
<1>6. C!Normal(c.store) = low /\ d.store = IF low = "" THEN "memory" ELSE low
  BY <1>1, <1>4, <1>5, SameType DEF DefaultsTo
<1> HIDE DEF low
<1>7. CASE low \in {"", "memory"}
  <2>1. other = {<<"memory">>}
    BY <1>7, StoreOfType
  <2>2. d.store = "memory"
    BY <1>6, <1>7
  <2>3. own = {<<"memory">>}
    BY <2>2, StoreOfType
  <2> HIDE DEF own, other
  <2> QED
    BY <1>2, <1>3, <2>1, <2>3
<1>8. CASE low = "file"
  <2>1. c.persistent /\ d.store = "file"
    BY <1>6, <1>8
  <2>2. own = {<<"file", C!TrimmedOr(d.path, default)>>}
    BY <2>1, StoreOfType
  <2>3. other = {<<"file", C!TrimmedOr(c.path, default)>>}
    BY <1>8, StoreOfType
  <2>4. Given(default) /\ Trimmed[default] = default /\ d.path = C!OrElse(c.path, default)
    BY <1>1, LiteralsAreGiven, LiteralsStay DEF C!Literals, DefaultsTo
  <2> HIDE DEF own, other, default
  <2>5. C!TrimmedOr(d.path, default) = C!TrimmedOr(c.path, default)
    BY <1>4, <2>4, SamePlace
  <2> QED
    BY <1>2, <1>3, <2>1, <2>2, <2>3, <2>5
<1>9. CASE low = "dynamodb"
  <2>1. c.persistent /\ d.store = "dynamodb"
    BY <1>6, <1>9
  <2> DEFINE here == C!AppTables(d.table)
             there == C!FrameworkTables(c.table)
  <2>2. own = {<<"dynamodb", t>> : t \in here}
    BY <2>1, StoreOfType
  <2>3. other = {<<"dynamodb", t>> : t \in there}
    BY <1>9, StoreOfType
  <2> HIDE DEF own, other
  <2>4. there # {}
    BY <1>3, <2>3
  <2>5. here = there /\ \A x, y \in there : x = y
    <3>1. Trimmed[c.table.name] # ""
      BY <2>4, TableNamed DEF C!FrameworkTables
    <3>2. C!SameTable(c.table)
      BY <1>6, <1>9
    <3> QED
      BY <1>1, <1>4, <3>1, <3>2, TablesAreOne DEF DefaultsTo
  <2> HIDE DEF here, there
  <2>6. PICK x \in there : a = <<"dynamodb", x>>
    BY <1>2, <2>1, <2>2, <2>5
  <2>7. PICK y \in there : f = <<"dynamodb", y>>
    BY <1>3, <2>3
  <2>8. x = y
    BY <2>5
  <2> QED
    BY <2>6, <2>7, <2>8
<1> QED
  BY <1>5, <1>7, <1>8, <1>9

\* What a runtime is started with: one of its policies and one of its stores.
StartedWith(x, p, s, v, o, i, t) ==
  x = [policy |-> p, store |-> s, workflow |-> v.name, messagePath |-> v.messagePath,
       correlationPath |-> v.correlationPath, steps |-> o, idempotent |-> i,
       template |-> C!TrimmedOr(t, C!Template)]

LEMMA Started ==
  ASSUME NEW P, NEW S, NEW v, NEW o, NEW i, NEW t, NEW x, x \in C!Runtime(P, S, v, o, i, t)
  PROVE  \E p \in P, s \in S : StartedWith(x, p, s, v, o, i, t)
<1> DEFINE r(p, s) == [policy |-> p, store |-> s, workflow |-> v.name, messagePath |-> v.messagePath,
                       correlationPath |-> v.correlationPath, steps |-> o, idempotent |-> i,
                       template |-> C!TrimmedOr(t, C!Template)]
<1>1. x \in {r(p, s) : p \in P, s \in S}
  BY DEF C!Runtime
<1> HIDE DEF r
<1>2. \E p \in P, s \in S : x = r(p, s)
  BY <1>1
<1> QED
  BY <1>2 DEF r, StartedWith

\* What is asked of the files, in the two parts the other lemmas do not read.
LEMMA WrittenForBoth ==
  ASSUME NEW c, NEW w, C!SameForBoth(c, w)
  PROVE  /\ Trimmed[w.name] # ""
         /\ \A k \in DOMAIN w.steps : w.steps[k] # "workflow_ref"
  BY Zenon DEF C!SameForBoth

\* Files that write down what the two runtimes read differently start the same
\* runtime, whichever of the two is started.
LEMMA RuntimesStartTheSame ==
  ASSUME C!TextFunctions, NEW c \in C!AppConfig, C!BrokersListed(c), NEW w \in C!WorkflowConfig
  PROVE  C!RuntimesAgree(c, w)
<1> SUFFICES ASSUME C!SameForBoth(c, w), NEW a \in C!AppRuntime(c, w), NEW f \in C!FrameworkRuntime(c, w)
             PROVE  a = f
  BY DEF C!RuntimesAgree
<1> DEFINE d == C!AppDefaults(c)
           v == C!WorkflowDefaults(w)
           u == [w EXCEPT !.messagePath = C!Written(w.messagePath, "message_id"),
                          !.correlationPath = C!Written(w.correlationPath, "correlation_id")]
           composed == C!Composed(v.steps, TRUE)
           expanded == C!Composed(u.steps, FALSE)
           either == c.topIdempotent \/ c.idempotent
           given == C!Written(C!Written(c.topTemplate, c.template), C!Template)
<1>1. DefaultsTo(c, d)
  BY DefaultFields
<1>2. /\ v.policy = C!OrElse(w.policy, "stop")
      /\ v.messagePath = C!OrElse(w.messagePath, "payload.pagamento_id")
      /\ v.correlationPath = C!OrElse(w.correlationPath, "correlation_id")
      /\ v.steps = w.steps /\ v.name = C!OrElse(w.name, "payment-event-fulfillment")
  BY WorkflowFields
<1>3. /\ w.policy \in C!Texts /\ w.messagePath \in C!Texts /\ w.correlationPath \in C!Texts
      /\ c.template \in C!Texts
  BY DEF C!WorkflowConfig, C!AppConfig
<1>4. /\ u.messagePath = C!Written(w.messagePath, "message_id")
      /\ u.correlationPath = C!Written(w.correlationPath, "correlation_id")
      /\ u.steps = w.steps /\ u.name = w.name
  BY DEF C!WorkflowConfig
<1>5. a \in C!Runtime(C!PolicyOf(C!Normal(v.policy)), C!AppStores(d), v, composed, d.idempotent, d.template)
  BY DEF C!AppRuntime
<1>6. f \in C!Runtime(C!PolicyOf(Lowered[w.policy]), C!FrameworkStores(c), u, expanded, either, given)
  BY DEF C!FrameworkRuntime
<1> HIDE DEF d, v, u, given, composed, expanded, either
<1>7. PICK p \in C!PolicyOf(C!Normal(v.policy)), s \in C!AppStores(d) :
        StartedWith(a, p, s, v, composed, d.idempotent, d.template)
  BY <1>5, Started, Zenon
<1>8. PICK q \in C!PolicyOf(Lowered[w.policy]), z \in C!FrameworkStores(c) :
        StartedWith(f, q, z, u, expanded, either, given)
  BY <1>6, Started, Zenon
<1>9. p = q
  <2>1. p \in C!PolicyOf(C!Normal(C!OrElse(w.policy, "stop")))
    BY <1>2, <1>7
  <2> QED
    BY <1>3, <1>8, <2>1, SamePolicy
<1>10. s = z
  BY <1>7, <1>8, SameStore DEF C!SameForBoth, d
<1>11. Trimmed[""] = "" /\ Trimmed["correlation_id"] = "correlation_id" /\ "correlation_id" # ""
  BY DEF C!TextFunctions, C!Literals
<1>12. v.messagePath = u.messagePath
  BY <1>2, <1>4, <1>11 DEF C!SameForBoth, C!OrElse, C!Written
<1>13. v.correlationPath = u.correlationPath
  BY <1>2, <1>4, <1>11 DEF C!SameForBoth, C!OrElse, C!Written
<1>14. d.idempotent = either
  <2>1. d.idempotent = c.idempotent /\ c.idempotent \in BOOLEAN /\ ~c.topIdempotent
    BY <1>1 DEF DefaultsTo, C!SameForBoth, C!AppConfig
  <2> QED
    BY <2>1 DEF either
<1>15. C!TrimmedOr(d.template, C!Template) = C!TrimmedOr(given, C!Template)
  <2>1. Given(C!Template) /\ Trimmed[C!Template] = C!Template
    <3>1. C!Template \in C!Literals
      BY DEF C!Literals
    <3>2. C!Template # ""
      BY DEF C!Template
    <3> QED
      BY <3>1, <3>2, LiteralsAreGiven, LiteralsStay
  <2>2. d.template = C!OrElse(c.template, C!Template)
    BY <1>1 DEF DefaultsTo
  <2>3. given = C!Written(c.template, C!Template)
    BY DEF given, C!SameForBoth, C!Written
  <2> QED
    BY <1>3, <2>1, <2>2, <2>3, SamePlace
<1>16. v.name = u.name
  <2>1. Trimmed[w.name] # ""
    BY WrittenForBoth
  <2>2. C!OrElse(w.name, "payment-event-fulfillment") = w.name
    BY <2>1, Zenon DEF C!OrElse
  <2> QED
    BY <1>2, <1>4, <2>2
<1>17. composed = expanded
  <2>1. \A k \in DOMAIN w.steps : w.steps[k] # "workflow_ref"
    BY WrittenForBoth
  <2>2. C!Composed(w.steps, TRUE) = C!Composed(w.steps, FALSE)
    BY <2>1 DEF C!Composed
  <2> QED
    BY <1>2, <1>4, <2>2 DEF composed, expanded
<1> QED
  BY <1>7, <1>8, <1>9, <1>10, <1>12, <1>13, <1>14, <1>15, <1>16, <1>17, Zenon
     DEF StartedWith

-----------------------------------------------------------------------------

\* Whatever is written in the two files and whatever TrimSpace and ToLower make
\* of it, defaults leave nothing open and are settled by one application; what
\* validateAppConfig and validateWorkflowConfig accept starts, with a policy that
\* is known, and has a consumer; and the command line and the importable runtime,
\* when both start with the same files, which write down all that the two have
\* different defaults for and include no other file, keep the same state under the
\* same keys in the same place.
THEOREM ConfigurationsRun ==
  ASSUME C!TextFunctions, NEW c \in C!AppConfig, C!BrokersListed(c), NEW w \in C!WorkflowConfig
  PROVE  C!AcceptedRuns(c, w)
<1>1. C!DefaultsSettled(c, w)
  BY DefaultsStay, WorkflowStays DEF C!DefaultsSettled
<1>2. C!Complete(C!AppDefaults(c))
  BY DefaultsAreComplete
<1>3. C!AcceptedStarts(c, w)
  BY StartsWhenAccepted
<1>4. C!RuntimesAgree(c, w)
  BY RuntimesStartTheSame
<1> QED
  BY <1>1, <1>2, <1>3, <1>4 DEF C!AcceptedRuns

-----------------------------------------------------------------------------
(* Conditions. *)

\* A path without parts leads nowhere.
LEMMA NothingAtNoPath ==
  ASSUME NEW v
  PROVE  H!At(v, <<>>) = {}
BY Zenon DEF H!At, H!Walk

\* Each comparison, by its name.
LEMMA HoldsByName ==
  ASSUME NEW a, NEW b
  PROVE  /\ H!Holds("less_than", a, b) = (a < b)
         /\ H!Holds("less_than_or_equal", a, b) = (a <= b)
         /\ H!Holds("max_items", a, b) = (a <= b)
         /\ H!Holds("greater_than", a, b) = (a > b)
         /\ H!Holds("greater_than_or_equal", a, b) = (a >= b)
         /\ H!Holds("min_items", a, b) = (a >= b)
BY Zenon DEF H!Holds

\* The comparison of a condition and that of its opposite, on numbers.
LEMMA ComparisonsAreOpposite ==
  ASSUME NEW m \in Int, NEW n \in Int
  PROVE  /\ H!Holds("greater_than_or_equal", m, n) <=> ~H!Holds("less_than", m, n)
         /\ H!Holds("greater_than", m, n) <=> ~H!Holds("less_than_or_equal", m, n)
         /\ H!Holds("min_items", m, n + 1) <=> ~H!Holds("max_items", m, n)
<1>1. (m >= n <=> ~(m < n)) /\ (m > n <=> ~(m <= n)) /\ (m >= n + 1 <=> ~(m <= n))
  OBVIOUS
<1>2. H!Holds("greater_than_or_equal", m, n) <=> ~H!Holds("less_than", m, n)
  BY <1>1, HoldsByName, Zenon
<1>3. H!Holds("greater_than", m, n) <=> ~H!Holds("less_than_or_equal", m, n)
  BY <1>1, HoldsByName, Zenon
<1>4. H!Holds("min_items", m, n + 1) <=> ~H!Holds("max_items", m, n)
  BY <1>1, HoldsByName, Zenon
<1> QED
  BY <1>2, <1>3, <1>4

\* Each judgement, by its name.
LEMMA JudgedByName ==
  ASSUME NEW c, NEW left
  PROVE  /\ c.op = "equals" => H!Judged(c, left) = H!Answer(H!ValuesEqual(left, c.value))
         /\ c.op = "not_equals" => H!Judged(c, left) = H!Answer(~H!ValuesEqual(left, c.value))
         /\ c.op \in H!Comparisons => H!Judged(c, left) = H!Compared(c, left)
<1>1. ASSUME c.op = "equals"
      PROVE  H!Judged(c, left) = H!Answer(H!ValuesEqual(left, c.value))
  BY <1>1, Zenon DEF H!Judged, H!Comparisons
<1>2. ASSUME c.op = "not_equals"
      PROVE  H!Judged(c, left) = H!Answer(~H!ValuesEqual(left, c.value))
  BY <1>2, Zenon DEF H!Judged, H!Comparisons
<1>3. ASSUME c.op \in H!Comparisons
      PROVE  H!Judged(c, left) = H!Compared(c, left)
  <2>1. c.op # "equals" /\ c.op # "not_equals"
    BY <1>3, Zenon DEF H!Comparisons
  <2> QED
    BY <1>3, <2>1, Zenon DEF H!Judged
<1> QED
  BY <1>1, <1>2, <1>3

\* The value that a condition, and the gate, look at.
Left(payload, field) == CHOOSE v \in H!At(payload, field) : TRUE

\* A condition is an error if its field is missing, and judged otherwise.
LEMMA Evaluated ==
  ASSUME NEW c, NEW payload, c.op # "exists"
  PROVE  /\ H!At(payload, c.field) = {} => H!Evaluate(c, payload) = "error"
         /\ H!At(payload, c.field) # {} => /\ Left(payload, c.field) \in H!At(payload, c.field)
                                           /\ H!Evaluate(c, payload) = H!Judged(c, Left(payload, c.field))
<1>1. H!At(payload, c.field) # {} => c.field # <<>>
  BY NothingAtNoPath
<1> QED
  BY <1>1, Zenon DEF H!Evaluate, Left

\* The answers to a comparison and to the opposite one: both are errors, they
\* disagree, or a value is NaN and neither holds.
OppositeAnswers(c, payload, answers) ==
  \/ answers = {"error"} \/ answers = {"true", "false"}
  \/ answers = {"false"} /\ c.op \in {"less_than", "less_than_or_equal"} /\ H!Unordered(c, payload)

\* A comparison and the opposite one are both errors or disagree.
LEMMA ComparedAreOpposite ==
  ASSUME NEW c, NEW d, NEW payload, NEW left \in H!At(payload, c.field),
         H!OneNumber(c.value), H!OneNumber(left), H!OneLength(left),
         \/ c.op = "less_than" /\ d.op = "greater_than_or_equal" /\ d.value = c.value
         \/ c.op = "less_than_or_equal" /\ d.op = "greater_than" /\ d.value = c.value
         \/ c.op = "max_items" /\ d.op = "min_items" /\ \E n \in Int : c.value.num = {n} /\ d.value.num = {n + 1}
  PROVE  OppositeAnswers(c, payload, {H!Compared(c, left), H!Compared(d, left)})
<1> DEFINE lefts == IF c.op \in {"min_items", "max_items"} THEN H!Lengths(left) ELSE left.num
           held(e) == \A a \in lefts, b \in e.value.num : H!Holds(e.op, a, b)
<1>1. lefts = IF d.op \in {"min_items", "max_items"} THEN H!Lengths(left) ELSE left.num
  OBVIOUS
<1>2. \A e \in {c, d} : H!Compared(e, left) = IF lefts = {} \/ e.value.num = {} THEN "error" ELSE H!Answer(NaN \notin lefts \cup e.value.num /\ held(e))
  BY <1>1, Zenon DEF H!Compared
<1>3. lefts = {} \/ \E n \in Int \cup {NaN} : lefts = {n}
  <2>1. lefts \subseteq Int \cup {NaN} /\ \A m, n \in lefts : m = n
    <3>1. CASE c.op \in {"min_items", "max_items"}
      BY <3>1, Zenon DEF H!OneLength, H!OneAtMost
    <3>2. CASE c.op \notin {"min_items", "max_items"}
      BY <3>2, Zenon DEF H!OneNumber, H!OneAtMost
    <3> QED
      BY <3>1, <3>2
  <2> HIDE DEF lefts
  <2>2. SUFFICES ASSUME NEW n \in lefts
                 PROVE  lefts = {n}
    BY <2>1
  <2> QED
    BY <2>1
<1>4. d.value.num = {} <=> c.value.num = {}
  OBVIOUS
<1>5. ASSUME lefts # {}, c.value.num # {}, NaN \notin lefts \cup c.value.num
      PROVE  held(d) <=> ~held(c)
  <2>1. PICK m \in Int : lefts = {m}
    BY <1>3, <1>5
  <2>2. PICK n \in Int : c.value.num = {n}
    BY <1>5 DEF H!OneNumber, H!OneAtMost
  <2> HIDE DEF lefts
  <2>3. CASE c.op = "less_than" /\ d.op = "greater_than_or_equal" /\ d.value = c.value
    <3>1. held(c) <=> H!Holds("less_than", m, n)
      BY <2>1, <2>2, <2>3
    <3>2. held(d) <=> H!Holds("greater_than_or_equal", m, n)
      BY <2>1, <2>2, <2>3
    <3> HIDE DEF held
    <3> QED
      BY <3>1, <3>2, ComparisonsAreOpposite, Zenon
  <2>4. CASE c.op = "less_than_or_equal" /\ d.op = "greater_than" /\ d.value = c.value
    <3>1. held(c) <=> H!Holds("less_than_or_equal", m, n)
      BY <2>1, <2>2, <2>4
    <3>2. held(d) <=> H!Holds("greater_than", m, n)
      BY <2>1, <2>2, <2>4
    <3> HIDE DEF held
    <3> QED
      BY <3>1, <3>2, ComparisonsAreOpposite, Zenon
  <2>5. CASE c.op = "max_items" /\ d.op = "min_items" /\ \E k \in Int : c.value.num = {k} /\ d.value.num = {k + 1}
    <3>1. d.value.num = {n + 1}
      BY <2>2, <2>5
    <3>2. held(c) <=> H!Holds("max_items", m, n)
      BY <2>1, <2>2, <2>5
    <3>3. held(d) <=> H!Holds("min_items", m, n + 1)
      BY <2>1, <2>5, <3>1
    <3> HIDE DEF held
    <3> QED
      BY <3>2, <3>3, ComparisonsAreOpposite, Zenon
  <2> QED
    BY <2>3, <2>4, <2>5
<1>6. NaN \in lefts \cup d.value.num <=> NaN \in lefts \cup c.value.num
  BY NaNIsNoInteger
<1>7. NaN \in lefts \cup c.value.num => c.op \in {"less_than", "less_than_or_equal"} /\ H!Unordered(c, payload)
  BY NaNIsNoInteger DEF H!OneLength, H!Unordered
<1> HIDE DEF lefts, held
<1>8. CASE lefts = {} \/ c.value.num = {}
  <2>1. H!Compared(c, left) = "error" /\ H!Compared(d, left) = "error"
    BY <1>2, <1>4, <1>8
  <2> QED
    BY <2>1 DEF OppositeAnswers
<1>9. CASE lefts # {} /\ c.value.num # {} /\ NaN \in lefts \cup c.value.num
  <2>1. H!Compared(c, left) = H!Answer(FALSE) /\ H!Compared(d, left) = H!Answer(FALSE)
    <3>1. H!Compared(c, left) = H!Answer(NaN \notin lefts \cup c.value.num /\ held(c))
      BY <1>2, <1>9, Zenon
    <3>2. H!Compared(d, left) = H!Answer(NaN \notin lefts \cup d.value.num /\ held(d))
      BY <1>2, <1>4, <1>9, Zenon
    <3>3. (NaN \notin lefts \cup c.value.num /\ held(c)) = FALSE /\ (NaN \notin lefts \cup d.value.num /\ held(d)) = FALSE
      BY <1>6, <1>9, Zenon
    <3> QED
      BY <3>1, <3>2, <3>3, Zenon
  <2>2. H!Compared(c, left) = "false" /\ H!Compared(d, left) = "false"
    BY <2>1, Zenon DEF H!Answer
  <2> QED
    BY <1>7, <1>9, <2>2, Zenon DEF OppositeAnswers
<1>10. CASE lefts # {} /\ c.value.num # {} /\ NaN \notin lefts \cup c.value.num
  <2>1. H!Compared(c, left) = H!Answer(held(c)) /\ H!Compared(d, left) = H!Answer(held(d))
    <3>1. H!Compared(c, left) = H!Answer(NaN \notin lefts \cup c.value.num /\ held(c))
      BY <1>2, <1>10, Zenon
    <3>2. H!Compared(d, left) = H!Answer(NaN \notin lefts \cup d.value.num /\ held(d))
      BY <1>2, <1>4, <1>10, Zenon
    <3>3. held(c) \in BOOLEAN /\ held(d) \in BOOLEAN
      BY DEF held
    <3> QED
      BY <1>6, <1>10, <3>1, <3>2, <3>3, Zenon
  <2>2. CASE held(c)
    <3>1. H!Compared(c, left) = "true" /\ H!Compared(d, left) = "false"
      BY <1>5, <1>10, <2>1, <2>2 DEF H!Answer
    <3> QED
      BY <3>1 DEF OppositeAnswers
  <2>3. CASE ~held(c)
    <3>1. H!Compared(c, left) = "false" /\ H!Compared(d, left) = "true"
      BY <1>5, <1>10, <2>1, <2>3 DEF H!Answer
    <3> QED
      BY <3>1 DEF OppositeAnswers
  <2> QED
    BY <2>2, <2>3
<1> QED
  BY <1>8, <1>9, <1>10

\* Whatever is compared with whatever, a condition and its opposite disagree or
\* are both errors, and the gate lets nothing through that assert refuses; only of
\* NaN neither of two comparisons holds, and the gate may take it for equal.
THEOREM OpposingConditions ==
  ASSUME NEW payload, NEW c, H!Comparable(c, payload)
  PROVE  H!AgreesOn(c, payload)
<1>0. /\ c = H!Condition(c.op, c.field, c.value)
      /\ c.op \in {"equals", "less_than", "less_than_or_equal", "max_items"}
      /\ H!OneNumber(c.value)
      /\ \A v \in H!At(payload, c.field) : H!OneNumber(v) /\ H!OneLength(v) /\ H!PrintedAlike(v, c.value)
  BY DEF H!Comparable, H!Opposite
<1> DEFINE found == H!At(payload, c.field)
           left == Left(payload, c.field)
<1>1. ASSUME NEW d \in H!Opposites(c)
      PROVE  OppositeAnswers(c, payload, {H!Evaluate(c, payload), H!Evaluate(d, payload)})
  <2>1. /\ d.field = c.field
        /\ \/ c.op = "equals" /\ d.op = "not_equals" /\ d.value = c.value
           \/ c.op = "less_than" /\ d.op = "greater_than_or_equal" /\ d.value = c.value
           \/ c.op = "less_than_or_equal" /\ d.op = "greater_than" /\ d.value = c.value
           \/ c.op = "max_items" /\ d.op = "min_items" /\ \E n \in Int : c.value.num = {n} /\ d.value.num = {n + 1}
    <3>1. CASE c.op = "max_items"
      <4>1. PICK n \in c.value.num \ {NaN} : d = [c EXCEPT !.op = "min_items", !.value = H!Number(n + 1)]
        BY <3>1 DEF H!Opposites
      <4>2. n \in Int /\ c.value.num = {n}
        BY <1>0, <4>1 DEF H!OneNumber, H!OneAtMost
      <4>3. H!Number(n + 1).num = {n + 1}
        BY DEF H!Number, H!Value
      <4>4. d.field = c.field /\ d.op = "min_items" /\ d.value = H!Number(n + 1)
        BY <1>0, <4>1 DEF H!Condition
      <4> QED
        BY <3>1, <4>2, <4>3, <4>4
    <3>2. CASE c.op # "max_items"
      <4>1. d = [c EXCEPT !.op = H!Opposite[c.op]]
        BY <3>2 DEF H!Opposites
      <4>2. d.field = c.field /\ d.op = H!Opposite[c.op] /\ d.value = c.value
        BY <1>0, <4>1 DEF H!Condition
      <4>3. /\ H!Opposite["equals"] = "not_equals"
            /\ H!Opposite["less_than"] = "greater_than_or_equal"
            /\ H!Opposite["less_than_or_equal"] = "greater_than"
        BY Zenon DEF H!Opposite
      <4> QED
        BY <1>0, <3>2, <4>2, <4>3
    <3> QED
      BY <3>1, <3>2
  <2>2. c.op # "exists" /\ d.op # "exists"
    BY <2>1
  <2>3. CASE found = {}
    <3>1. H!Evaluate(c, payload) = "error" /\ H!Evaluate(d, payload) = "error"
      BY <2>1, <2>2, <2>3, Evaluated
    <3> QED
      BY <3>1 DEF OppositeAnswers
  <2>4. CASE found # {}
    <3>1. left \in found /\ H!Evaluate(c, payload) = H!Judged(c, left) /\ H!Evaluate(d, payload) = H!Judged(d, left)
      BY <2>1, <2>2, <2>4, Evaluated
    <3>2. CASE c.op = "equals" /\ d.op = "not_equals" /\ d.value = c.value
      <4>1. /\ H!Judged(c, left) = H!Answer(H!ValuesEqual(left, c.value))
            /\ H!Judged(d, left) = H!Answer(~H!ValuesEqual(left, c.value))
        BY <3>2, JudgedByName
      <4> QED
        BY <3>1, <4>1 DEF H!Answer, OppositeAnswers
    <3>3. CASE c.op # "equals"
      <4>1. c.op \in H!Comparisons /\ d.op \in H!Comparisons
        BY <2>1, <3>3 DEF H!Comparisons
      <4>2. H!Judged(c, left) = H!Compared(c, left) /\ H!Judged(d, left) = H!Compared(d, left)
        BY <4>1, JudgedByName
      <4>3. H!OneNumber(left) /\ H!OneLength(left)
        BY <1>0, <3>1
      <4> HIDE DEF left
      <4>4. OppositeAnswers(c, payload, {H!Compared(c, left), H!Compared(d, left)})
        BY <2>1, <3>1, <3>3, <4>3, <1>0, ComparedAreOpposite
      <4> QED
        BY <3>1, <4>2, <4>4
    <3> QED
      BY <2>1, <3>2, <3>3
  <2> QED
    BY <2>3, <2>4
<1>2. ASSUME c.op = "equals", found # {}, ~H!Unordered(c, payload)
      PROVE  /\ H!PassesGate("equals", c.field, c.value, payload) => H!Evaluate(c, payload) = "true"
             /\ H!Evaluate([c EXCEPT !.op = "not_equals"], payload) = "true"
                  => H!PassesGate("not_equals", c.field, c.value, payload)
  <2> DEFINE d == [c EXCEPT !.op = "not_equals"]
             same == IF {left.kind, c.value.kind} \cap {"map", "list"} = {}
                     THEN left.text = c.value.text ELSE left = c.value
  <2>1. d.op = "not_equals" /\ d.field = c.field /\ d.value = c.value
    BY <1>0 DEF H!Condition
  <2> HIDE DEF d
  <2>2. left \in found /\ H!Evaluate(c, payload) = H!Judged(c, left) /\ H!Evaluate(d, payload) = H!Judged(d, left)
    BY <1>2, <2>1, Evaluated
  <2>3. /\ H!Judged(c, left) = H!Answer(H!ValuesEqual(left, c.value))
        /\ H!Judged(d, left) = H!Answer(~H!ValuesEqual(left, c.value))
    BY <1>2, <2>1, JudgedByName
  <2>4. /\ H!PassesGate("equals", c.field, c.value, payload) <=> same
        /\ H!PassesGate("not_equals", c.field, c.value, payload) <=> ~same
    BY <1>2 DEF H!PassesGate, Left
  <2>5. same => H!ValuesEqual(left, c.value)
    <3>1. H!PrintedAlike(left, c.value)
      BY <1>0, <2>2
    <3>2. NaN \notin left.num
      BY <1>2, <2>2 DEF H!Unordered
    <3> HIDE DEF left
    <3> QED
      BY <3>1, <3>2 DEF H!ValuesEqual, H!PrintedAlike
  <2> HIDE DEF same
  <2>6. H!PassesGate("equals", c.field, c.value, payload) => H!Evaluate(c, payload) = "true"
    BY <2>2, <2>3, <2>4, <2>5 DEF H!Answer
  <2>7. H!Evaluate(d, payload) = "true" => H!PassesGate("not_equals", c.field, c.value, payload)
    BY <2>2, <2>3, <2>4, <2>5 DEF H!Answer
  <2> QED
    BY <2>6, <2>7 DEF d
<1> HIDE DEF found
<1> QED
  BY <1>1, <1>2 DEF H!AgreesOn, OppositeAnswers, found

-----------------------------------------------------------------------------
(* Attempts of handlers. *)

\* An object.
IsObject(p) == p = H!Object(p.fields)

\* Objects that differ in nothing but the notes that handlers make of their calls.
Same(p, q) ==
  /\ IsObject(p) /\ IsObject(q)
  /\ \A k : k \notin H!Diagnostics =>
       /\ k \in DOMAIN p.fields <=> k \in DOMAIN q.fields
       /\ k \in DOMAIN p.fields => p.fields[k] = q.fields[k]

\* An object with other fields is the object of those fields.
LEMMA FieldsReplaced ==
  ASSUME NEW p, NEW e, p = H!Object(e), NEW f, NEW r, r = [p EXCEPT !.fields = f]
  PROVE  r = H!Object(f) /\ r.fields = f
BY DEF H!Object, H!Value

\* Writing a field makes an object of an object.
LEMMA PutFields ==
  ASSUME NEW p, IsObject(p), NEW key, NEW x
  PROVE  /\ IsObject(H!Put(p, key, x))
         /\ DOMAIN H!Put(p, key, x).fields = DOMAIN p.fields \cup {key}
         /\ \A k \in DOMAIN p.fields \cup {key} :
              H!Put(p, key, x).fields[k] = IF k = key THEN x ELSE p.fields[k]
<1> DEFINE f == p.fields
           g == [k \in DOMAIN f \cup {key} |-> IF k = key THEN x ELSE f[k]]
<1>1. H!Put(p, key, x) = [p EXCEPT !.fields = g]
  BY DEF H!Put
<1>2. p = H!Object(f)
  BY DEF IsObject
<1>3. /\ DOMAIN g = DOMAIN f \cup {key}
      /\ \A k \in DOMAIN f \cup {key} : g[k] = IF k = key THEN x ELSE f[k]
  OBVIOUS
<1> HIDE DEF f, g
<1>4. H!Put(p, key, x) = H!Object(g) /\ H!Put(p, key, x).fields = g
  BY <1>1, <1>2 DEF H!Object, H!Value
<1> QED
  BY <1>3, <1>4 DEF IsObject, f

\* Without their notes such objects are the same.
LEMMA SameDropped ==
  ASSUME NEW p, NEW q, Same(p, q)
  PROVE  H!Dropped(p, H!Diagnostics) = H!Dropped(q, H!Diagnostics)
<1> DEFINE N == H!Diagnostics
           f == [k \in DOMAIN p.fields \ N |-> p.fields[k]]
           g == [k \in DOMAIN q.fields \ N |-> q.fields[k]]
<1>1. H!Dropped(p, N) = [p EXCEPT !.fields = f] /\ H!Dropped(q, N) = [q EXCEPT !.fields = g]
  BY DEF H!Dropped
<1>2. f = g
  BY DEF Same
<1>3. p = H!Object(p.fields) /\ q = H!Object(q.fields)
  BY DEF Same, IsObject
<1> HIDE DEF f, g, N
<1>4. [p EXCEPT !.fields = f] = H!Object(f)
  BY <1>3, FieldsReplaced
<1>5. [q EXCEPT !.fields = g] = H!Object(g)
  BY <1>3, FieldsReplaced
<1> QED
  BY <1>1, <1>2, <1>4, <1>5 DEF N

\* This relates an object to itself, and it is symmetric and transitive.
LEMMA SameIsEquivalence ==
  /\ \A p : IsObject(p) => Same(p, p)
  /\ \A p, q : Same(p, q) => Same(q, p)
  /\ \A p, q, r : Same(p, q) /\ Same(q, r) => Same(p, r)
BY DEF Same

\* They stay so when the same is written into both.
LEMMA SamePut ==
  ASSUME NEW p, NEW q, Same(p, q), NEW key, NEW x
  PROVE  Same(H!Put(p, key, x), H!Put(q, key, x))
<1>1. IsObject(p) /\ IsObject(q)
  BY DEF Same
<1>2. /\ IsObject(H!Put(p, key, x))
      /\ DOMAIN H!Put(p, key, x).fields = DOMAIN p.fields \cup {key}
      /\ \A k \in DOMAIN p.fields \cup {key} :
              H!Put(p, key, x).fields[k] = IF k = key THEN x ELSE p.fields[k]
  BY <1>1, PutFields
<1>3. /\ IsObject(H!Put(q, key, x))
      /\ DOMAIN H!Put(q, key, x).fields = DOMAIN q.fields \cup {key}
      /\ \A k \in DOMAIN q.fields \cup {key} :
              H!Put(q, key, x).fields[k] = IF k = key THEN x ELSE q.fields[k]
  BY <1>1, PutFields
<1> QED
  BY <1>2, <1>3 DEF Same

\* A note changes an object to such a one.
LEMMA NotedIsSame ==
  ASSUME NEW p, IsObject(p), NEW key \in H!Diagnostics, NEW x
  PROVE  Same(H!Put(p, key, x), p)
<1>1. /\ IsObject(H!Put(p, key, x))
      /\ DOMAIN H!Put(p, key, x).fields = DOMAIN p.fields \cup {key}
      /\ \A k \in DOMAIN p.fields \cup {key} :
              H!Put(p, key, x).fields[k] = IF k = key THEN x ELSE p.fields[k]
  BY PutFields
<1> QED
  BY <1>1 DEF Same

\* A path that leads to no note finds the same in both.
LEMMA SameIsRead ==
  ASSUME NEW p, NEW q, Same(p, q), NEW path, H!Plain(path)
  PROVE  H!At(p, path) = H!At(q, path)
<1>1. CASE path = <<>>
  BY <1>1 DEF H!At, H!Walk
<1>2. CASE path # <<>>
  <2> DEFINE part == Head(path)
  <2>1. part \notin H!Diagnostics
    BY <1>2 DEF H!Plain
  <2>2. p.kind = "map" /\ q.kind = "map"
    <3>1. \A f : H!Object(f).kind = "map"
      BY DEF H!Object, H!Value
    <3> QED
      BY <3>1 DEF Same, IsObject
  <2>3. H!Item(p, part) = {} /\ H!Item(q, part) = {}
    BY <2>2 DEF H!Item
  <2>4. H!Field(p, part) = H!Field(q, part)
    BY <2>1, <2>2 DEF H!Field, Same
  <2>5. H!Part(p, part) = H!Part(q, part)
    BY <2>3, <2>4 DEF H!Part
  <2>6. H!At(p, path) = H!Descend(H!Part(p, part), Tail(path), H!Part)
    BY <1>2 DEF H!At, H!Walk
  <2>7. H!At(q, path) = H!Descend(H!Part(q, part), Tail(path), H!Part)
    BY <1>2 DEF H!At, H!Walk
  <2> QED
    BY <2>5, <2>6, <2>7
<1> QED
  BY <1>1, <1>2

\* The calls of a handler come to the same, up to the notes.
Alike(a, b) == a.proceed = b.proceed /\ a.failed = b.failed /\ Same(a.payload, b.payload)

\* A call that fails leaves no more than notes behind.
Clean(a, p) == a.failed => Same(a.payload, p)

\* Calls that end alike, with payloads that are the same, are alike.
LEMMA EndsAlike ==
  ASSUME NEW p, NEW q, Same(p, q)
  PROVE  /\ Alike(H!Done(p), H!Done(q)) /\ Alike(H!Failed(p), H!Failed(q))
         /\ Alike(H!Stopped(p), H!Stopped(q))
BY DEF Alike, H!Done, H!Failed, H!Stopped, H!Outcome

\* Only a call that fails can leave something behind.
LEMMA EndsClean ==
  ASSUME NEW p, NEW q
  PROVE  /\ Clean(H!Done(p), q) /\ Clean(H!Stopped(p), q)
         /\ Same(p, q) => Clean(H!Failed(p), q)
BY DEF Clean, H!Done, H!Failed, H!Stopped, H!Outcome

\* The calls a and b, on objects that are the same, are alike, and a, on p, is clean.
Steady(a, b, p) == Alike(a, b) /\ Clean(a, p)

\* Validation reads its fields and notes what is missing.
LEMMA ValidateIsSteady ==
  ASSUME NEW p, NEW q, Same(p, q), NEW s, \A f \in s.required : H!Plain(f)
  PROVE  Steady(H!Validate(s, p), H!Validate(s, q), p)
<1> DEFINE M(o) == {f \in s.required : H!Only(H!At(o, f)).kind = "nil" \/ H!Only(H!At(o, f)) = H!Text("")}
           N(o) == H!Put(o, "validation_error", H!Text("missing"))
           V(o) == H!Put(o, "validation_passed", H!Bool(TRUE))
<1>1. M(p) = M(q)
  BY SameIsRead
<1>2. Same(V(p), V(q)) /\ Same(N(p), N(q))
  BY SamePut
<1>3. Same(N(p), p)
  BY NotedIsSame DEF Same, H!Diagnostics
<1>4. \A o : H!Validate(s, o) = IF M(o) = {} THEN H!Done(V(o))
                                ELSE IF s.stopOnFailure THEN H!Failed(N(o)) ELSE H!Done(N(o))
  BY DEF H!Validate
<1> HIDE DEF M, N, V
<1>5. Alike(H!Validate(s, p), H!Validate(s, q))
  BY <1>1, <1>2, <1>4, EndsAlike
<1>6. Clean(H!Validate(s, p), p)
  BY <1>3, <1>4, EndsClean
<1> QED
  BY <1>5, <1>6 DEF Steady

\* A transformation reads one field and writes one.
LEMMA TransformIsSteady ==
  ASSUME NEW p, NEW q, Same(p, q), NEW s, H!Plain(s.field)
  PROVE  Steady(H!Transform(s, p), H!Transform(s, q), p)
<1> DEFINE A(o) == H!At(o, s.field)
           x(found) == H!Text(s.operation \o H!Only(found).text)
<1>1. A(p) = A(q)
  BY SameIsRead
<1>2. Same(H!Put(p, s.target, x(A(p))), H!Put(q, s.target, x(A(p)))) /\ Same(p, p)
  BY SamePut, SameIsEquivalence DEF Same
<1>3. \A o : H!Transform(s, o) = IF A(o) = {} \/ s.operation = "unknown" THEN H!Failed(o)
                                 ELSE H!Done(H!Put(o, s.target, x(A(o))))
  BY DEF H!Transform
<1> HIDE DEF A, x
<1>4. Alike(H!Transform(s, p), H!Transform(s, q))
  BY <1>1, <1>2, <1>3, EndsAlike
<1>5. Clean(H!Transform(s, p), p)
  BY <1>2, <1>3, EndsClean
<1> QED
  BY <1>4, <1>5 DEF Steady

\* A condition on a field that is no note is judged the same.
LEMMA EvaluationIsSteady ==
  ASSUME NEW p, NEW q, Same(p, q), NEW c, H!Plain(c.field)
  PROVE  H!Evaluate(c, p) = H!Evaluate(c, q)
<1>1. H!At(p, c.field) = H!At(q, c.field)
  BY SameIsRead
<1> DEFINE x(found) == CHOOSE v \in found : TRUE
           Value(found) == IF c.field = <<>> THEN "error"
                           ELSE IF c.op = "exists" THEN H!Answer((found # {}) = (c.value # H!Bool(FALSE)))
                           ELSE IF found = {} THEN "error" ELSE H!Judged(c, x(found))
<1>2. \A o : H!Evaluate(c, o) = Value(H!At(o, c.field))
  BY DEF H!Evaluate
<1> QED
  BY <1>1, <1>2

\* An assert decides by its conditions and notes the answer.
LEMMA AssertIsSteady ==
  ASSUME NEW p, NEW q, Same(p, q), NEW s,
         \A k \in DOMAIN s.config.list : H!Plain(s.config.list[k].field)
  PROVE  Steady(H!AssertStep(s, p), H!AssertStep(s, q), p)
<1> DEFINE E(o) == [k \in DOMAIN s.config.list |-> H!Evaluate(s.config.list[k], o)]
           A(o) == H!Asserted(s.config, o)
           P(o, b) == H!Put(o, "assert_passed", H!Bool(b))
           F(o, b) == H!Put(P(o, b), "assert_failures", H!Text("failures"))
<1>1. E(p) = E(q)
  BY EvaluationIsSteady
<1>2. A(p) = A(q)
  BY <1>1, Zenon DEF H!Asserted
<1>3. \A b : Same(P(p, b), P(q, b))
  BY SamePut
<1>4. \A b : Same(F(p, b), F(q, b))
  BY <1>3, SamePut
<1>5. \A b : Same(P(p, b), p) /\ IsObject(P(p, b))
  BY NotedIsSame DEF Same, H!Diagnostics
<1>6. \A b : Same(F(p, b), P(p, b))
  BY <1>5, NotedIsSame DEF H!Diagnostics
<1>7. \A b : Same(F(p, b), p)
  BY <1>5, <1>6, SameIsEquivalence
<1>8. Same(p, p)
  BY SameIsEquivalence DEF Same
<1>9. ASSUME NEW o
      PROVE  /\ A(o) = "error" => H!AssertStep(s, o) = H!Failed(o)
             /\ A(o) = "true" => H!AssertStep(s, o) = H!Done(P(o, A(o) = "true"))
             /\ A(o) # "error" /\ A(o) # "true" =>
                  H!AssertStep(s, o) = H!Failed(F(o, A(o) = "true"))
  BY Zenon DEF H!AssertStep
<1> HIDE DEF A, P, F
<1> DEFINE b == (A(p) = "true")
<1>10. (A(q) = "true") = b
  BY <1>2
<1> HIDE DEF b
<1>11. CASE A(p) = "error"
  <2>1. H!AssertStep(s, p) = H!Failed(p) /\ H!AssertStep(s, q) = H!Failed(q)
    BY <1>2, <1>9, <1>11
  <2> QED
    BY <2>1, <1>8, EndsAlike, EndsClean DEF Steady
<1>12. CASE A(p) = "true"
  <2>1. H!AssertStep(s, p) = H!Done(P(p, b)) /\ H!AssertStep(s, q) = H!Done(P(q, b))
    BY <1>2, <1>9, <1>10, <1>12 DEF b
  <2> QED
    BY <2>1, <1>3, EndsAlike, EndsClean DEF Steady
<1>13. CASE A(p) # "error" /\ A(p) # "true"
  <2>1. H!AssertStep(s, p) = H!Failed(F(p, b)) /\ H!AssertStep(s, q) = H!Failed(F(q, b))
    BY <1>2, <1>9, <1>10, <1>13 DEF b
  <2> QED
    BY <2>1, <1>4, <1>7, EndsAlike, EndsClean DEF Steady
<1> QED
  BY <1>11, <1>12, <1>13

\* The value that compute stores does not depend on notes.
LEMMA ComputedIsSteady ==
  ASSUME NEW p, NEW q, Same(p, q), NEW config,
         config.mode \in {"field", "count"} => H!Plain(config.field),
         config.mode = "condition" => H!Plain(config.value.field)
  PROVE  H!Computed(config, p) = H!Computed(config, q)
<1> DEFINE asBool(answer) == IF answer = "error" THEN {} ELSE {H!Bool(answer = "true")}
           counted(found) == {H!Number(n) : n \in UNION {H!Lengths(v) : v \in found}}
           A(o) == H!At(o, config.field)
           E(o) == H!Evaluate(config.value, o)
<1>1. ASSUME NEW o
      PROVE  /\ config.mode = "literal" => H!Computed(config, o) = {config.value}
             /\ config.mode = "field" => H!Computed(config, o) = A(o)
             /\ config.mode = "count" => H!Computed(config, o) = counted(A(o))
             /\ config.mode = "condition" => H!Computed(config, o) = asBool(E(o))
             /\ config.mode \notin {"literal", "field", "count", "condition"} => H!Computed(config, o) = {}
  BY Zenon DEF H!Computed
<1>2. config.mode \in {"field", "count"} => A(p) = A(q)
  BY SameIsRead
<1>3. config.mode = "condition" => E(p) = E(q)
  BY EvaluationIsSteady
<1> HIDE DEF asBool, counted, A, E
<1> QED
  BY <1>1, <1>2, <1>3

\* Compute writes that value or nothing.
LEMMA ComputeIsSteady ==
  ASSUME NEW p, NEW q, Same(p, q), NEW s,
         s.config.mode \in {"field", "count"} => H!Plain(s.config.field),
         s.config.mode = "condition" => H!Plain(s.config.value.field)
  PROVE  Steady(H!Compute(s, p), H!Compute(s, q), p)
<1> DEFINE V(o) == H!Computed(s.config, o)
           P(o, v) == H!Put(o, s.target, H!Only(v))
<1>1. V(p) = V(q)
  BY ComputedIsSteady
<1>2. Same(P(p, V(p)), P(q, V(p))) /\ Same(p, p)
  BY SamePut, SameIsEquivalence DEF Same
<1>3. \A o : H!Compute(s, o) = IF V(o) = {} THEN H!Failed(o) ELSE H!Done(P(o, V(o)))
  BY DEF H!Compute
<1> HIDE DEF V, P
<1> QED
  BY <1>1, <1>2, <1>3, EndsAlike, EndsClean DEF Steady

\* A jump_if step decides by its condition.
LEMMA JumpIsSteady ==
  ASSUME NEW p, NEW q, Same(p, q), NEW s, H!Plain(s.config.field)
  PROVE  Steady(H!JumpIf(s, p), H!JumpIf(s, q), p)
<1> DEFINE A(o) == H!Evaluate(s.config, o)
           P(o, a) == H!Put(o, "jump_if_matched", H!Bool(a = "true"))
<1>1. A(p) = A(q)
  BY EvaluationIsSteady
<1>2. Same(P(p, A(p)), P(q, A(p))) /\ Same(p, p)
  BY SamePut, SameIsEquivalence DEF Same
<1>3. \A o : H!JumpIf(s, o) = IF A(o) = "error" THEN H!Failed(o) ELSE H!Done(P(o, A(o)))
  BY DEF H!JumpIf
<1> HIDE DEF A, P
<1> QED
  BY <1>1, <1>2, <1>3, EndsAlike, EndsClean DEF Steady

\* A log step decides by the fields it requires.
LEMMA LogIsSteady ==
  ASSUME NEW p, NEW q, Same(p, q), NEW s, \A f \in s.required : H!Plain(f)
  PROVE  Steady(H!Log(s, p), H!Log(s, q), p)
<1> DEFINE Stuck(o) == s.isRequired /\ \E f \in s.required : H!At(o, f) = {}
           P(o) == H!Put(o, "last_log_level", H!Text("info"))
<1>1. Stuck(p) <=> Stuck(q)
  BY SameIsRead
<1>2. Same(P(p), P(q)) /\ Same(p, p)
  BY SamePut, SameIsEquivalence DEF Same
<1>3. \A o : H!Log(s, o) = IF Stuck(o) THEN H!Failed(o) ELSE H!Done(P(o))
  BY DEF H!Log
<1> HIDE DEF Stuck, P
<1> QED
  BY <1>1, <1>2, <1>3, EndsAlike, EndsClean DEF Steady

\* The handlers that call a service decide by its answer alone.
LEMMA CallsAreSteady ==
  ASSUME NEW p, NEW q, Same(p, q), NEW s, NEW ext
  PROVE  /\ Steady(H!Notify(s, p, ext), H!Notify(s, q, ext), p)
         /\ Steady(H!Request(s, p, ext), H!Request(s, q, ext), p)
         /\ Steady(H!Action(s, p, ext), H!Action(s, q, ext), p)
<1> DEFINE P(o, key, x) == H!Put(o, key, x)
           partial == s.target \o "_partial"
           yes == H!Bool(TRUE)
           body == H!Text("body")
           result == H!Text("result")
<1>1. /\ \A key, x : Same(P(p, key, x), P(q, key, x))
      /\ Same(p, p)
  BY SamePut, SameIsEquivalence DEF Same
<1>2. \A o : H!Notify(s, o, ext) = IF ext = "unreachable" THEN H!Failed(o)
                                   ELSE H!Done(P(o, "notification_sent", yes))
  BY DEF H!Notify
<1>3. \A o : H!Action(s, o, ext) = IF ext = "answered" THEN H!Done(P(o, s.target, result))
                                   ELSE IF s.isRequired THEN H!Failed(o) ELSE H!Done(P(o, partial, yes))
  BY DEF H!Action
<1> DEFINE passed == ext \in {"unreachable", "status"} /\ ~s.isRequired
           stored == ext = "answered" \/ (ext \in {"errors", "no result"} /\ ~s.isRequired)
<1>4. ASSUME NEW o
      PROVE  /\ passed => H!Request(s, o, ext) = H!Done(P(o, partial, yes))
             /\ stored => H!Request(s, o, ext) = H!Done(P(o, s.target, body))
             /\ ~passed /\ ~stored => H!Request(s, o, ext) = H!Failed(o)
  BY Zenon DEF H!Request
<1> HIDE DEF P, partial, yes, body, result, passed, stored
<1>5. Steady(H!Notify(s, p, ext), H!Notify(s, q, ext), p)
  BY <1>1, <1>2, EndsAlike, EndsClean DEF Steady
<1>6. Steady(H!Action(s, p, ext), H!Action(s, q, ext), p)
  BY <1>1, <1>3, EndsAlike, EndsClean DEF Steady
<1>7. Steady(H!Request(s, p, ext), H!Request(s, q, ext), p)
  BY <1>1, <1>4, EndsAlike, EndsClean DEF Steady
<1> QED
  BY <1>5, <1>6, <1>7

\* The step that a name calls.
LEMMA HandlersByName ==
  ASSUME NEW s, NEW p, NEW ext
  PROVE  /\ s.name = "validate" => H!Handle(s, p, ext) = H!Validate(s, p)
         /\ s.name = "enrich" => H!Handle(s, p, ext) = H!Enrich(s, p)
         /\ s.name = "transform" => H!Handle(s, p, ext) = H!Transform(s, p)
         /\ s.name = "assert" => H!Handle(s, p, ext) = H!AssertStep(s, p)
         /\ s.name = "compute" => H!Handle(s, p, ext) = H!Compute(s, p)
         /\ s.name = "jump_if" => H!Handle(s, p, ext) = H!JumpIf(s, p)
         /\ s.name = "cel" => H!Handle(s, p, ext) = H!Cel(s, p, ext)
         /\ s.name = "log" => H!Handle(s, p, ext) = H!Log(s, p)
         /\ s.name = "notify" => H!Handle(s, p, ext) = H!Notify(s, p, ext)
         /\ s.name \in {"rest_call", "graphql_enrich"} => H!Handle(s, p, ext) = H!Request(s, p, ext)
         /\ s.name \in {"aws_action", "datadog_metric"} => H!Handle(s, p, ext) = H!Action(s, p, ext)
BY Zenon DEF H!Handle

\* A step but cel's or enrich's does the same to objects that differ in notes only,
\* and leaves no more than notes if it fails.
LEMMA StepIsSteady ==
  ASSUME NEW p, NEW q, Same(p, q), NEW s, NEW ext,
         s.name \in H!HandlerNames \ {"cel", "enrich"}, H!DecidesByPlainFields(s)
  PROVE  Steady(H!Handle(s, p, ext), H!Handle(s, q, ext), p)
<1>1. CASE s.name = "validate"
  BY <1>1, HandlersByName, ValidateIsSteady DEF H!DecidesByPlainFields
<1>2. CASE s.name = "transform"
  BY <1>2, HandlersByName, TransformIsSteady DEF H!DecidesByPlainFields
<1>3. CASE s.name = "assert"
  BY <1>3, HandlersByName, AssertIsSteady DEF H!DecidesByPlainFields
<1>4. CASE s.name = "compute"
  BY <1>4, HandlersByName, ComputeIsSteady DEF H!DecidesByPlainFields
<1>5. CASE s.name = "jump_if"
  BY <1>5, HandlersByName, JumpIsSteady DEF H!DecidesByPlainFields
<1>6. CASE s.name = "log"
  BY <1>6, HandlersByName, LogIsSteady DEF H!DecidesByPlainFields
<1>7. CASE s.name = "notify"
  BY <1>7, HandlersByName, CallsAreSteady
<1>8. CASE s.name \in {"rest_call", "graphql_enrich"}
  BY <1>8, HandlersByName, CallsAreSteady
<1>9. CASE s.name \in {"aws_action", "datadog_metric"}
  BY <1>9, HandlersByName, CallsAreSteady
<1> QED
  BY <1>1, <1>2, <1>3, <1>4, <1>5, <1>6, <1>7, <1>8, <1>9 DEF H!HandlerNames

\* The cel step notes the same verdict twice, at its target, too, when the
\* expression comes to the same.
LEMMA CelIsRepeatable ==
  ASSUME NEW p, IsObject(p), NEW s, NEW ext, H!Cel(s, p, ext).failed
  PROVE  Alike(H!Cel(s, H!Cel(s, p, ext).payload, ext), H!Cel(s, p, ext))
<1> DEFINE verdict == H!Bool(ext = "true")
           T(o) == H!Put(o, s.target, verdict)
           N(o) == H!Put(T(o), "cel_passed", verdict)
           jumps == s.onFalse = "jump" /\ s.to # ""
           goes == ext = "true" \/ s.onFalse = "continue"
           J(o) == H!Put(N(o), "cel_jump_to", H!Text(s.to))
           S(o) == H!Put(N(o), "cel_stopped", H!Bool(TRUE))
<1>1. ASSUME NEW o
      PROVE  /\ ext = "error" => H!Cel(s, o, ext) = H!Failed(o)
             /\ ext # "error" /\ goes => H!Cel(s, o, ext) = H!Done(N(o))
             /\ ext # "error" /\ ~goes /\ jumps => H!Cel(s, o, ext) = H!Done(J(o))
             /\ ext # "error" /\ ~goes /\ s.onFalse = "stop" => H!Cel(s, o, ext) = H!Stopped(S(o))
             /\ ext # "error" /\ ~goes /\ ~jumps /\ s.onFalse # "stop" => H!Cel(s, o, ext) = H!Failed(N(o))
  BY Zenon DEF H!Cel
<1>2. \A o : ~H!Done(o).failed /\ ~H!Stopped(o).failed /\ H!Failed(o).payload = o
  BY DEF H!Done, H!Stopped, H!Failed, H!Outcome
<1>3. CASE ext = "error"
  <2>1. H!Cel(s, p, ext) = H!Failed(p)
    BY <1>1, <1>3
  <2> QED
    BY <2>1, <1>2, EndsAlike, SameIsEquivalence
<1>4. CASE ext # "error"
  <2> HIDE DEF N, J, S, jumps, goes
  <2>1. ~goes /\ ~jumps /\ s.onFalse # "stop"
    BY <1>1, <1>2, <1>4
  <2>2. H!Cel(s, p, ext) = H!Failed(N(p)) /\ H!Cel(s, N(p), ext) = H!Failed(N(N(p)))
    BY <1>1, <1>4, <2>1
  <2>3. Same(N(N(p)), N(p))
    <3> USE DEF N
    <3> HIDE DEF verdict
    <3>1. /\ IsObject(T(p)) /\ DOMAIN T(p).fields = DOMAIN p.fields \cup {s.target}
          /\ \A k \in DOMAIN p.fields \cup {s.target} :
               T(p).fields[k] = IF k = s.target THEN verdict ELSE p.fields[k]
      BY PutFields
    <3> DEFINE n == N(p)
    <3> HIDE DEF T
    <3>2. /\ IsObject(n) /\ DOMAIN n.fields = DOMAIN T(p).fields \cup {"cel_passed"}
          /\ \A k \in DOMAIN T(p).fields \cup {"cel_passed"} :
               n.fields[k] = IF k = "cel_passed" THEN verdict ELSE T(p).fields[k]
      BY <3>1, PutFields
    <3>3. /\ IsObject(T(n)) /\ DOMAIN T(n).fields = DOMAIN n.fields \cup {s.target}
          /\ \A k \in DOMAIN n.fields \cup {s.target} :
               T(n).fields[k] = IF k = s.target THEN verdict ELSE n.fields[k]
      <4> HIDE DEF n
      <4> QED
        BY <3>2, PutFields DEF T
    <3>4. Same(T(n), n)
      <4> HIDE DEF n
      <4> QED
        BY <3>1, <3>2, <3>3 DEF Same
    <3>5. Same(N(n), T(n))
      <4> HIDE DEF n
      <4> QED
        BY <3>3, NotedIsSame DEF H!Diagnostics
    <3> HIDE DEF n
    <3>6. Same(N(n), n)
      BY <3>4, <3>5, SameIsEquivalence
    <3> QED
      BY <3>6 DEF n
  <2> QED
    BY <2>2, <2>3, <1>2, EndsAlike
<1> QED
  BY <1>3, <1>4

\* Filling fields in never fails.
LEMMA EnrichNeverFails == \A s, p : ~H!Enrich(s, p).failed
BY DEF H!Enrich, H!Done, H!Outcome

\* An attempt that fails changes nothing for the one that follows it.
LEMMA RepeatableIsClean ==
  ASSUME NEW s, NEW p, NEW ext1, NEW ext2, H!Repeatable(s, p, ext1, ext2)
  PROVE  H!RetryIsCleanOf(s, p, ext1, ext2)
<1> DEFINE first == H!Handle(s, p, ext1)
           alone == H!Handle(s, p, ext2)
           again == H!Handle(s, first.payload, ext2)
<1>1. IsObject(p) /\ Same(p, p)
  BY SameIsEquivalence DEF H!Repeatable, IsObject
<1>2. ASSUME first.failed
      PROVE  Alike(again, alone)
  <2>1. CASE s.name = "cel"
    BY <1>1, <1>2, <2>1, HandlersByName, CelIsRepeatable DEF H!Repeatable
  <2>2. CASE s.name = "enrich"
    BY <1>2, <2>2, HandlersByName, EnrichNeverFails
  <2>3. CASE s.name \notin {"cel", "enrich"}
    <3>1. Clean(first, p)
      BY <1>1, <2>3, StepIsSteady DEF H!Repeatable, Steady
    <3>2. Same(first.payload, p)
      BY <1>2, <3>1 DEF Clean
    <3> HIDE DEF first
    <3> QED
      BY <2>3, <3>2, StepIsSteady DEF H!Repeatable, Steady
  <2> QED
    BY <2>1, <2>2, <2>3
<1> HIDE DEF first, alone, again
<1>3. first.failed =>
        /\ again.proceed = alone.proceed /\ again.failed = alone.failed
        /\ H!Dropped(again.payload, H!Diagnostics) = H!Dropped(alone.payload, H!Diagnostics)
  BY <1>2, SameDropped DEF Alike
<1> QED
  BY <1>3 DEF H!RetryIsCleanOf, first, again, alone

-----------------------------------------------------------------------------
(* Retry policies. *)

\* The loop of backoffDuration up to attempt n, from a first delay.
NextDelay(first, most, f, k) == IF k = 2 THEN first ELSE Policy!Least(2 * f[k - 1], most)
Doubling(f, first, most, n) == f = [k \in 2..n |-> NextDelay(first, most, f, k)]

\* Two runs of the loop agree as far as both go.
LEMMA DoublingsAgree ==
  ASSUME NEW first, NEW most, NEW f, NEW g, NEW m \in Nat, NEW n \in Nat,
         Doubling(f, first, most, m), Doubling(g, first, most, n)
  PROVE  \A k \in 2..m : k \in 2..n => f[k] = g[k]
<1> DEFINE T == {k \in Nat : k \in 2..m /\ k \in 2..n => f[k] = g[k]}
<1>1. /\ \A k \in 2..m : f[k] = NextDelay(first, most, f, k)
      /\ \A k \in 2..n : g[k] = NextDelay(first, most, g, k)
  BY DEF Doubling
<1>2. 0 \in T
  OBVIOUS
<1>3. ASSUME NEW k \in Nat, k \in T
      PROVE  k + 1 \in T
  <2> SUFFICES ASSUME k + 1 \in 2..m, k + 1 \in 2..n PROVE f[k + 1] = g[k + 1]
    OBVIOUS
  <2>1. CASE k + 1 = 2
    BY <1>1, <2>1 DEF NextDelay
  <2>2. CASE k + 1 # 2
    <3>1. k \in 2..m /\ k \in 2..n
      BY <2>2
    <3>2. f[k] = g[k] /\ (k + 1) - 1 = k
      BY <1>3, <3>1
    <3>3. f[k + 1] = Policy!Least(2 * f[(k + 1) - 1], most) /\ g[k + 1] = Policy!Least(2 * g[(k + 1) - 1], most)
      BY <1>1, <2>2 DEF NextDelay
    <3> QED
      BY <3>2, <3>3
  <2> QED
    BY <2>1, <2>2
<1> HIDE DEF T
<1>4. \A k \in Nat : k \in T
  BY <1>2, <1>3, SetInduction
<1> QED
  BY <1>4 DEF T

\* The loop runs to every attempt.
LEMMA DoublingExists ==
  ASSUME NEW first, NEW most
  PROVE  \A n \in Nat : \E f : Doubling(f, first, most, n)
<1> DEFINE T == {n \in Nat : \E f : Doubling(f, first, most, n)}
<1>1. 0 \in T
  <2> DEFINE f == [k \in 2..0 |-> 0]
  <2>1. f = [k \in 2..0 |-> NextDelay(first, most, f, k)]
    OBVIOUS
  <2> HIDE DEF f
  <2> QED
    BY <2>1 DEF Doubling
<1>2. ASSUME NEW n \in Nat, n \in T
      PROVE  n + 1 \in T
  <2>1. PICK f : Doubling(f, first, most, n)
    BY <1>2
  <2> DEFINE g == [k \in 2..(n + 1) |-> NextDelay(first, most, f, k)]
  <2>2. \A k \in 2..n : f[k] = NextDelay(first, most, f, k)
    BY <2>1 DEF Doubling
  <2>3. \A k \in 2..n : g[k] = f[k]
    BY <2>2
  <2>4. \A k \in 2..(n + 1) : NextDelay(first, most, f, k) = NextDelay(first, most, g, k)
    <3> SUFFICES ASSUME NEW k \in 2..(n + 1), k # 2 PROVE f[k - 1] = g[k - 1]
      BY DEF NextDelay
    <3>1. k - 1 \in 2..n
      OBVIOUS
    <3> QED
      BY <2>3, <3>1
  <2>5. g = [k \in 2..(n + 1) |-> NextDelay(first, most, g, k)]
    <3>1. g = [k \in 2..(n + 1) |-> NextDelay(first, most, f, k)]
      OBVIOUS
    <3> HIDE DEF g
    <3> QED
      BY <2>4, <3>1
  <2> HIDE DEF g
  <2> QED
    BY <2>5 DEF Doubling
<1> HIDE DEF T
<1>3. \A n \in Nat : n \in T
  BY <1>1, <1>2, SetInduction
<1> QED
  BY <1>3 DEF T

\* What backoffDuration doubles: the first delay, then twice the one before, no
\* more than the maximum.
LEMMA DoubledSteps ==
  ASSUME NEW p, NEW n \in Nat, n >= 2
  PROVE  Policy!Doubled(p, n) = IF n = 2 THEN Policy!Initial(p) ELSE Policy!Least(2 * Policy!Doubled(p, n - 1), Policy!MaxInterval(p))
<1> DEFINE first == Policy!Initial(p)
           most == Policy!MaxInterval(p)
           F(k) == CHOOSE f : Doubling(f, first, most, k)
<1>1. ASSUME NEW k \in Nat
      PROVE  Doubling(F(k), first, most, k) /\ Policy!Doubled(p, k) = F(k)[k]
  <2>1. Doubling(F(k), first, most, k)
    BY DoublingExists
  <2>2. Policy!Doubled(p, k) = F(k)[k]
    BY DEF Policy!Doubled, Doubling, NextDelay
  <2> QED
    BY <2>1, <2>2
<1> HIDE DEF F
<1>2. F(n)[n] = NextDelay(first, most, F(n), n)
  BY <1>1 DEF Doubling
<1>3. CASE n = 2
  BY <1>1, <1>2, <1>3 DEF NextDelay
<1>4. CASE n # 2
  <2>1. n - 1 \in Nat /\ n - 1 \in 2..n /\ n - 1 \in 2..(n - 1)
    BY <1>4
  <2>2. F(n)[n - 1] = F(n - 1)[n - 1]
    BY <1>1, <2>1, DoublingsAgree
  <2> QED
    BY <1>1, <1>2, <1>4, <2>1, <2>2 DEF NextDelay
<1> QED
  BY <1>3, <1>4

\* The intervals of a policy, with their defaults, are positive.
LEMMA IntervalsArePositive ==
  ASSUME NEW p \in Policy!RetryPolicies
  PROVE  /\ Policy!Initial(p) \in Int /\ Policy!Initial(p) > 0
         /\ Policy!MaxInterval(p) \in Int /\ Policy!MaxInterval(p) > 0
BY DEF Policy!Initial, Policy!MaxInterval, Policy!RetryPolicies

\* A doubled delay is positive.
LEMMA DoubledIsPositive ==
  ASSUME NEW p \in Policy!RetryPolicies
  PROVE  \A n \in Nat : n >= 2 => Policy!Doubled(p, n) \in Int /\ Policy!Doubled(p, n) > 0
<1> DEFINE first == Policy!Initial(p)
           most == Policy!MaxInterval(p)
           T == {n \in Nat : n >= 2 => Policy!Doubled(p, n) \in Int /\ Policy!Doubled(p, n) > 0}
<1>1. first \in Int /\ first > 0 /\ most \in Int /\ most > 0
  BY IntervalsArePositive
<1>2. 0 \in T
  OBVIOUS
<1>3. ASSUME NEW n \in Nat, n \in T
      PROVE  n + 1 \in T
  <2> SUFFICES ASSUME n + 1 >= 2 PROVE Policy!Doubled(p, n + 1) \in Int /\ Policy!Doubled(p, n + 1) > 0
    OBVIOUS
  <2>1. n + 1 \in Nat /\ (n + 1) - 1 = n
    OBVIOUS
  <2>2. Policy!Doubled(p, n + 1) = IF n + 1 = 2 THEN first ELSE Policy!Least(2 * Policy!Doubled(p, n), most)
    BY <2>1, DoubledSteps
  <2> HIDE DEF first, most
  <2>3. CASE n + 1 = 2
    BY <1>1, <2>2, <2>3
  <2>4. CASE n + 1 # 2
    <3>1. Policy!Doubled(p, n) \in Int /\ Policy!Doubled(p, n) > 0
      BY <1>3, <2>4
    <3> QED
      BY <1>1, <2>2, <2>4, <3>1 DEF Policy!Least
  <2> QED
    BY <2>3, <2>4
<1> HIDE DEF T
<1>4. \A n \in Nat : n \in T
  BY <1>2, <1>3, SetInduction
<1> QED
  BY <1>4 DEF T

\* Each kind of backoff, by its name.
LEMMA DelayByBackoff ==
  ASSUME NEW p, NEW n \in Nat
  PROVE  /\ n <= 1 \/ p.backoff = "none" => Policy!Delay(p, n) = 0
         /\ n > 1 /\ p.backoff = "fixed" => Policy!Delay(p, n) = Policy!Least(Policy!Initial(p), Policy!MaxInterval(p))
         /\ n > 1 /\ p.backoff \notin {"none", "fixed"} =>
              Policy!Delay(p, n) = Policy!Least(Policy!Doubled(p, n), Policy!MaxInterval(p))
BY DEF Policy!Delay

\* A delay is at most the maximum, and no shorter than the one before it.
LEMMA DelaysGrow ==
  ASSUME NEW p \in Policy!RetryPolicies, NEW n \in Nat
  PROVE  /\ Policy!Delay(p, n) \in Int /\ 0 <= Policy!Delay(p, n) /\ Policy!Delay(p, n) <= Policy!MaxInterval(p)
         /\ n > 1 => Policy!Delay(p, n) >= Policy!Delay(p, n - 1)
<1>1. /\ Policy!Initial(p) \in Int /\ Policy!Initial(p) > 0
      /\ Policy!MaxInterval(p) \in Int /\ Policy!MaxInterval(p) > 0
  BY IntervalsArePositive
<1>2. ASSUME NEW k \in Nat
      PROVE  Policy!Delay(p, k) \in Int /\ 0 <= Policy!Delay(p, k) /\ Policy!Delay(p, k) <= Policy!MaxInterval(p)
  <2>1. CASE k <= 1 \/ p.backoff = "none"
    BY <1>1, <2>1, DelayByBackoff
  <2>2. CASE k > 1 /\ p.backoff = "fixed"
    BY <1>1, <2>2, DelayByBackoff DEF Policy!Least
  <2>3. CASE k > 1 /\ p.backoff \notin {"none", "fixed"}
    BY <1>1, <2>3, DelayByBackoff, DoubledIsPositive DEF Policy!Least
  <2> QED
    BY <2>1, <2>2, <2>3
<1>3. ASSUME n > 1
      PROVE  Policy!Delay(p, n) >= Policy!Delay(p, n - 1)
  <2>1. n - 1 \in Nat
    BY <1>3
  <2>2. CASE n - 1 <= 1 \/ p.backoff = "none"
    BY <1>2, <2>1, <2>2, DelayByBackoff
  <2>3. CASE n - 1 > 1 /\ p.backoff = "fixed"
    <3>1. Policy!Delay(p, n) = Policy!Delay(p, n - 1)
      BY <2>1, <2>3, <1>3, DelayByBackoff
    <3> QED
      BY <1>2, <2>1, <3>1
  <2>4. CASE n - 1 > 1 /\ p.backoff \notin {"none", "fixed"}
    <3> DEFINE before == Policy!Doubled(p, n - 1)
               most == Policy!MaxInterval(p)
    <3>1. before \in Int /\ before > 0
      BY <2>1, <2>4, DoubledIsPositive
    <3>2. Policy!Doubled(p, n) = Policy!Least(2 * before, most)
      BY <1>3, <2>4, DoubledSteps
    <3>3. Policy!Delay(p, n) = Policy!Least(Policy!Least(2 * before, most), most) /\ Policy!Delay(p, n - 1) = Policy!Least(before, most)
      BY <1>3, <2>1, <2>4, <3>2, DelayByBackoff
    <3> HIDE DEF before, most
    <3> QED
      BY <1>1, <3>1, <3>3 DEF Policy!Least, most
  <2> QED
    BY <2>1, <2>2, <2>3, <2>4
<1> QED
  BY <1>2, <1>3

\* Jitter adds less than half of a delay.
LEMMA JitterIsBounded ==
  ASSUME NEW d \in Int, d > 0, NEW e \in d..(d + (d \div 2) - 1 + (d % 2))
  PROVE  2 * e < 3 * d
<1>1. d = 2 * (d \div 2) + (d % 2) /\ d % 2 \in 0..1 /\ d \div 2 \in Int
  OBVIOUS
<1> DEFINE h == d \div 2
           r == d % 2
<1>2. d = 2 * h + r /\ r \in 0..1 /\ h \in Int /\ e \in Int /\ e <= d + h - 1 + r
  BY <1>1
<1> HIDE DEF h, r
<1> QED
  BY <1>2

\* Whatever a policy says, its first attempt is made at once, no retry waits
\* longer than its maximum interval, or one and a half times that with jitter, and
\* before jitter the waits never shrink: backoffDuration.
THEOREM WaitsAreBounded ==
  ASSUME NEW p \in Policy!RetryPolicies
  PROVE  Policy!Bounded(p)
<1> DEFINE most == Policy!MaxInterval(p)
<1>1. most \in Int /\ most > 0
  BY IntervalsArePositive
<1>2. Policy!Attempts(p) \in Nat
  BY DEF Policy!Attempts, Policy!RetryPolicies
<1> SUFFICES ASSUME NEW n \in 1..Policy!Attempts(p)
             PROVE  /\ \A e \in Policy!Backoffs(p, n) : IF p.jitter THEN 2 * e < 3 * most ELSE e <= most
                    /\ n = 1 => Policy!Backoffs(p, n) = {0}
                    /\ n > 1 => Policy!Delay(p, n) >= Policy!Delay(p, n - 1)
  BY DEF Policy!Bounded
<1> DEFINE d == Policy!Delay(p, n)
<1>3. n \in Nat
  BY <1>2
<1>4. d \in Int /\ 0 <= d /\ d <= most
  BY <1>3, DelaysGrow
<1>5. n > 1 => Policy!Delay(p, n) >= Policy!Delay(p, n - 1)
  BY <1>3, DelaysGrow
<1>6. n = 1 => d = 0
  BY <1>3, DelayByBackoff
<1>7. Policy!Backoffs(p, n) = IF p.jitter /\ d > 0 THEN d..(d + (d \div 2) - 1 + (d % 2)) ELSE {d}
  BY DEF Policy!Backoffs
<1> HIDE DEF d, most
<1>8. ASSUME NEW e \in Policy!Backoffs(p, n)
      PROVE  IF p.jitter THEN 2 * e < 3 * most ELSE e <= most
  <2>1. CASE p.jitter /\ d > 0
    <3>1. e \in d..(d + (d \div 2) - 1 + (d % 2))
      BY <1>7, <2>1
    <3>2. e \in Int
      BY <1>4, <3>1
    <3>3. 2 * e < 3 * d
      BY <1>4, <2>1, <3>1, JitterIsBounded
    <3> QED
      BY <1>1, <1>4, <2>1, <3>2, <3>3
  <2>2. CASE ~(p.jitter /\ d > 0)
    <3>1. e = d
      BY <1>7, <2>2
    <3> QED
      BY <1>1, <1>4, <2>2, <3>1
  <2> QED
    BY <2>1, <2>2
<1>9. n = 1 => Policy!Backoffs(p, n) = {0}
  <2> SUFFICES ASSUME n = 1 PROVE Policy!Backoffs(p, n) = {0}
    OBVIOUS
  <2>1. d = 0 /\ ~(d > 0)
    BY <1>6
  <2> QED
    BY <1>7, <2>1
<1> QED
  BY <1>5, <1>8, <1>9 DEF d

-----------------------------------------------------------------------------
(* Texts with placeholders. *)

\* What a text is made of.
Tokens == STRING \cup {"<nil>"}

\* A text of strings is one of tokens.
LEMMA TextOfTokens ==
  ASSUME NEW t \in Seq(STRING)
  PROVE  t \in Seq(Tokens)
<1>1. Len(t) \in Nat /\ t \in [1..Len(t) -> STRING]
  OBVIOUS
<1>2. t \in [1..Len(t) -> Tokens]
  BY <1>1 DEF Tokens
<1> QED
  BY <1>1, <1>2

Braces == {Filling!Open, Filling!Close}

\* Where the first brace of a kind is.
LEMMA FirstOfAKind ==
  ASSUME NEW text \in Seq(Tokens), NEW brace
  PROVE  /\ Filling!First(text, brace) \in 0..Len(text)
         /\ Filling!First(text, brace) = 0 => \A i \in 1..Len(text) : text[i] # brace
         /\ Filling!First(text, brace) # 0 =>
              /\ text[Filling!First(text, brace)] = brace
              /\ \A i \in 1..Len(text) : text[i] = brace => Filling!First(text, brace) <= i
<1> DEFINE P == {i \in 1..Len(text) : text[i] = brace}
<1>1. Filling!First(text, brace) = IF P # {} THEN CHOOSE x \in P : \A y \in P : x <= y ELSE 0
  BY DEF Filling!First, Filling!SelectInSeq, Filling!Min
<1>2. Len(text) \in Nat /\ P \subseteq Nat
  OBVIOUS
<1>3. CASE P = {}
  BY <1>1, <1>2, <1>3
<1>4. CASE P # {}
  <2>1. \E m \in P : \A k \in P : m <= k
    BY <1>2, <1>4, LeastNatural
  <2>2. Filling!First(text, brace) \in P /\ \A y \in P : Filling!First(text, brace) <= y
    BY <1>1, <1>4, <2>1
  <2> QED
    BY <1>2, <2>2
<1> QED
  BY <1>3, <1>4

\* What is printed of fields that hold no brace.
Plain(values) ==
  \A f \in DOMAIN values : Filling!First(values[f], Filling!Open) = 0 /\ Filling!First(values[f], Filling!Close) = 0

\* The values that can be named are texts.
Texts(values) == \A f \in DOMAIN values : values[f] \in Seq(Tokens)

\* A text whose braces are among its last n tokens.
BracesAtEnd(text, n) ==
  text \in Seq(Tokens) /\ \A i \in 1..Len(text) : text[i] \in Braces => i > Len(text) - n

\* A text of one token, and two texts joined.
LEMMA OneToken ==
  ASSUME NEW S, NEW token \in S
  PROVE  <<token>> \in Seq(S) /\ Len(<<token>>) = 1 /\ <<token>>[1] = token
OBVIOUS

LEMMA TextsJoined ==
  ASSUME NEW a \in Seq(Tokens), NEW b \in Seq(Tokens)
  PROVE  a \o b \in Seq(Tokens) /\ Len(a \o b) = Len(a) + Len(b)
OBVIOUS

\* What is put in place of a placeholder holds no brace.
LEMMA PrintedIsPlain ==
  ASSUME NEW values, NEW key \in Seq(Tokens), Texts(values), Plain(values)
  PROVE  /\ Filling!Printed(values, key) \in Seq(Tokens)
         /\ \A i \in 1..Len(Filling!Printed(values, key)) : Filling!Printed(values, key)[i] \notin Braces
<1>1. CASE Len(key) = 1 /\ key[1] \in DOMAIN values
  <2> DEFINE v == values[key[1]]
  <2>1. Filling!Printed(values, key) = v /\ v \in Seq(Tokens)
    BY <1>1 DEF Filling!Printed, Texts
  <2>2. Filling!First(v, Filling!Open) = 0 /\ Filling!First(v, Filling!Close) = 0
    BY <1>1 DEF Plain
  <2> HIDE DEF v
  <2>3. \A i \in 1..Len(v) : v[i] # Filling!Open
    BY <2>1, <2>2, FirstOfAKind
  <2>4. \A i \in 1..Len(v) : v[i] # Filling!Close
    BY <2>1, <2>2, FirstOfAKind
  <2> QED
    BY <2>1, <2>3, <2>4 DEF Braces
<1>2. CASE ~(Len(key) = 1 /\ key[1] \in DOMAIN values)
  <2>1. Filling!Printed(values, key) = <<"<nil>">>
    BY <1>2 DEF Filling!Printed
  <2> DEFINE none == <<"<nil>">>
  <2>2. none \in Seq(Tokens) /\ Len(none) = 1 /\ none[1] = "<nil>"
    <3>1. "<nil>" \in Tokens
      BY DEF Tokens
    <3> QED
      BY <3>1, OneToken, Zenon
  <2>3. "<nil>" \notin Braces
    BY DEF Braces, Filling!Open, Filling!Close
  <2> HIDE DEF none
  <2>4. \A i \in 1..Len(none) : none[i] \notin Braces
    BY <2>2, <2>3
  <2> QED
    BY <2>1, <2>2, <2>4 DEF none
<1> QED
  BY <1>1, <1>2

\* A round takes a pair of braces out of the end of the text and puts none in.
LEMMA RoundsTakeBraces ==
  ASSUME NEW values, NEW text, NEW n \in Nat, Texts(values), Plain(values),
         BracesAtEnd(text, n), ~Filling!NothingToReplace(text)
  PROVE  n >= 2 /\ BracesAtEnd(Filling!Replaced(text, values), n - 2)
<1> DEFINE start == Filling!First(text, Filling!Open)
           end == Filling!First(text, Filling!Close)
           key == SubSeq(text, start + 1, end - 1)
           head == SubSeq(text, 1, start - 1)
           tail == SubSeq(text, end + 1, Len(text))
           printed == Filling!Printed(values, key)
<1>1. text \in Seq(Tokens) /\ \A i \in 1..Len(text) : text[i] \in Braces => i > Len(text) - n
  BY DEF BracesAtEnd
<1>2. /\ start \in 1..Len(text) /\ text[start] = Filling!Open
      /\ \A i \in 1..Len(text) : text[i] = Filling!Open => start <= i
  BY <1>1, FirstOfAKind DEF Filling!NothingToReplace
<1>3. /\ end \in 1..Len(text) /\ text[end] = Filling!Close
      /\ \A i \in 1..Len(text) : text[i] = Filling!Close => end <= i
  BY <1>1, FirstOfAKind DEF Filling!NothingToReplace
<1>4. start < end
  <2>1. ~(end < start)
    BY Zenon DEF Filling!NothingToReplace
  <2> HIDE DEF start, end
  <2>2. start # end
    BY <1>2, <1>3 DEF Filling!Open, Filling!Close
  <2> QED
    BY <1>2, <1>3, <2>1, <2>2
<1>5. Filling!Replaced(text, values) = head \o printed \o tail
  BY DEF Filling!Replaced
<1>6. key \in Seq(Tokens)
  BY <1>1, <1>2, <1>3, <1>4
<1> HIDE DEF start, end
<1>7. /\ head \in Seq(Tokens) /\ Len(head) = start - 1
      /\ \A i \in 1..Len(head) : head[i] = text[i]
  BY <1>1, <1>2
<1>8. /\ tail \in Seq(Tokens) /\ Len(tail) = Len(text) - end
  BY <1>1, <1>3
<1> HIDE DEF key
<1>9. printed \in Seq(Tokens) /\ \A i \in 1..Len(printed) : printed[i] \notin Braces
  BY <1>6, PrintedIsPlain
<1>10. start > Len(text) - n
  BY <1>1, <1>2 DEF Braces
<1>11. Len(tail) <= n - 2
  BY <1>1, <1>2, <1>3, <1>4, <1>8, <1>10
<1>12. \A i \in 1..Len(head) : head[i] \notin Braces
  BY <1>1, <1>2, <1>3, <1>4, <1>7 DEF Braces
<1> HIDE DEF head, tail, printed
<1> DEFINE all == head \o printed \o tail
<1>13. all \in Seq(Tokens) /\ Len(all) = Len(head) + Len(printed) + Len(tail)
  <2> DEFINE front == head \o printed
  <2>1. front \in Seq(Tokens) /\ Len(front) = Len(head) + Len(printed)
    BY <1>7, <1>9
  <2>2. all = front \o tail
    OBVIOUS
  <2> HIDE DEF front, all
  <2> QED
    BY <1>8, <2>1, <2>2, TextsJoined
<1>14. ASSUME NEW i \in 1..Len(all), all[i] \in Braces
       PROVE  i > Len(all) - (n - 2)
  <2>1. CASE i <= Len(head)
    <3>1. all[i] = head[i]
      BY <1>7, <1>8, <1>9, <1>13, <2>1
    <3> QED
      BY <1>12, <1>7, <1>14, <2>1, <3>1
  <2>2. CASE i > Len(head) /\ i <= Len(head) + Len(printed)
    <3>1. all[i] = printed[i - Len(head)] /\ i - Len(head) \in 1..Len(printed)
      BY <1>7, <1>8, <1>9, <1>13, <2>2
    <3> QED
      BY <1>9, <1>14, <3>1
  <2>3. CASE i > Len(head) + Len(printed)
    BY <1>7, <1>8, <1>9, <1>11, <1>13, <2>3
  <2> QED
    BY <1>7, <1>8, <1>9, <1>13, <2>1, <2>2, <2>3
<1>15. n >= 2
  BY <1>8, <1>11
<1> HIDE DEF all
<1>16. BracesAtEnd(all, n - 2)
  BY <1>13, <1>14 DEF BracesAtEnd
<1> QED
  BY <1>5, <1>15, <1>16 DEF all

\* With less than two tokens to hold braces there is no pair of them.
LEMMA OneBraceIsNoPair ==
  ASSUME NEW text, NEW n \in Nat, n <= 1, BracesAtEnd(text, n)
  PROVE  Filling!NothingToReplace(text)
<1> SUFFICES ASSUME Filling!First(text, Filling!Open) # 0, Filling!First(text, Filling!Close) # 0
             PROVE  FALSE
  BY DEF Filling!NothingToReplace
<1> DEFINE start == Filling!First(text, Filling!Open)
           end == Filling!First(text, Filling!Close)
<1>1. text \in Seq(Tokens) /\ \A i \in 1..Len(text) : text[i] \in Braces => i > Len(text) - n
  BY DEF BracesAtEnd
<1>2. start \in 1..Len(text) /\ text[start] = Filling!Open
  BY <1>1, FirstOfAKind
<1>3. end \in 1..Len(text) /\ text[end] = Filling!Close
  BY <1>1, FirstOfAKind
<1> HIDE DEF start, end
<1>4. start = Len(text) /\ end = Len(text)
  BY <1>1, <1>2, <1>3 DEF Braces
<1> QED
  BY <1>2, <1>3, <1>4 DEF Filling!Open, Filling!Close

\* What a round leaves of the text before it.
After(text, values) == IF Filling!NothingToReplace(text) THEN text ELSE Filling!Replaced(text, values)

Looping(f, text, values, n) == f = [k \in 0..n |-> IF k = 0 THEN text ELSE After(f[k - 1], values)]

\* The loop runs to every round.
LEMMA LoopingExists ==
  ASSUME NEW text, NEW values
  PROVE  \A n \in Nat : \E f : Looping(f, text, values, n)
<1> DEFINE T == {n \in Nat : \E f : Looping(f, text, values, n)}
<1>1. 0 \in T
  <2> DEFINE f == [k \in 0..0 |-> text]
  <2>1. f = [k \in 0..0 |-> IF k = 0 THEN text ELSE After(f[k - 1], values)]
    OBVIOUS
  <2> HIDE DEF f
  <2> QED
    BY <2>1 DEF Looping
<1>2. ASSUME NEW n \in Nat, n \in T
      PROVE  n + 1 \in T
  <2>1. PICK f : Looping(f, text, values, n)
    BY <1>2
  <2> DEFINE g == [k \in 0..(n + 1) |-> IF k = 0 THEN text ELSE After(f[k - 1], values)]
  <2>2. \A k \in 0..n : f[k] = IF k = 0 THEN text ELSE After(f[k - 1], values)
    BY <2>1 DEF Looping
  <2>3. \A k \in 0..n : g[k] = f[k]
    BY <2>2
  <2>4. \A k \in 0..(n + 1) : k # 0 => f[k - 1] = g[k - 1]
    <3> SUFFICES ASSUME NEW k \in 0..(n + 1), k # 0 PROVE f[k - 1] = g[k - 1]
      OBVIOUS
    <3>1. k - 1 \in 0..n
      OBVIOUS
    <3> QED
      BY <2>3, <3>1
  <2>5. g = [k \in 0..(n + 1) |-> IF k = 0 THEN text ELSE After(f[k - 1], values)]
    OBVIOUS
  <2> HIDE DEF g
  <2>6. g = [k \in 0..(n + 1) |-> IF k = 0 THEN text ELSE After(g[k - 1], values)]
    BY <2>4, <2>5
  <2> QED
    BY <2>6 DEF Looping
<1> HIDE DEF T
<1>3. \A n \in Nat : n \in T
  BY <1>1, <1>2, SetInduction
<1> QED
  BY <1>3 DEF T

\* After k rounds the loop has ended, or the braces are among all but 2k of the tokens.
LEMMA RoundsAdvance ==
  ASSUME NEW text, NEW values, NEW n \in Nat, NEW f, Looping(f, text, values, n),
         text \in Seq(Tokens), Texts(values), Plain(values)
  PROVE  \A k \in 0..n :
           Filling!NothingToReplace(f[k]) \/ (Len(text) - 2 * k \in Nat /\ BracesAtEnd(f[k], Len(text) - 2 * k))
<1> DEFINE Ended(k) == Filling!NothingToReplace(f[k])
           Near(k) == Len(text) - 2 * k \in Nat /\ BracesAtEnd(f[k], Len(text) - 2 * k)
           T == {k \in Nat : k \in 0..n => Ended(k) \/ Near(k)}
<1>1. f[0] = text /\ \A k \in 0..n : k # 0 => f[k] = After(f[k - 1], values)
  BY DEF Looping
<1>2. 0 \in T
  <2>1. Len(text) - 2 * 0 = Len(text) /\ Len(text) \in Nat /\ \A i \in 1..Len(text) : i > Len(text) - Len(text)
    OBVIOUS
  <2>2. BracesAtEnd(text, Len(text))
    BY <2>1 DEF BracesAtEnd
  <2> QED
    BY <1>1, <2>1, <2>2
<1>3. ASSUME NEW k \in Nat, k \in T
      PROVE  k + 1 \in T
  <2> SUFFICES ASSUME k + 1 \in 0..n PROVE Ended(k + 1) \/ Near(k + 1)
    OBVIOUS
  <2>1. f[k + 1] = After(f[k], values) /\ (Ended(k) \/ Near(k))
    BY <1>1, <1>3
  <2>2. CASE Ended(k)
    BY <2>1, <2>2 DEF After
  <2>3. CASE Near(k) /\ ~Ended(k)
    <3> DEFINE m == Len(text) - 2 * k
               t == f[k]
    <3>1. m \in Nat /\ BracesAtEnd(t, m) /\ ~Filling!NothingToReplace(t)
      BY <2>3
    <3>2. f[k + 1] = Filling!Replaced(t, values)
      BY <2>1, <2>3 DEF After
    <3> HIDE DEF m, t
    <3>3. m >= 2 /\ BracesAtEnd(Filling!Replaced(t, values), m - 2)
      BY <3>1, RoundsTakeBraces
    <3>4. Len(text) \in Nat /\ m - 2 = Len(text) - 2 * (k + 1)
      BY DEF m
    <3>5. m - 2 \in Nat
      BY <3>1, <3>3
    <3> QED
      BY <3>2, <3>3, <3>4, <3>5
  <2> QED
    BY <2>1, <2>2, <2>3
<1> HIDE DEF T
<1>4. \A k \in Nat : k \in T
  BY <1>2, <1>3, SetInduction
<1> QED
  BY <1>4 DEF T

\* The loop takes at least a pair of braces from the end of the text in each round,
\* and what it puts in front of them holds none.
LEMMA PlainLoopsEnd ==
  ASSUME NEW text, NEW values, Filling!AreTexts(text, values)
  PROVE  Filling!EndsIfPlain(text, values)
<1> SUFFICES ASSUME Plain(values)
             PROVE  Filling!NothingToReplace(Filling!Rounds(text, values, Len(text) \div 2))
  BY DEF Filling!EndsIfPlain, Plain
<1> DEFINE n == Len(text) \div 2
           f == CHOOSE g : Looping(g, text, values, n)
<1>1. text \in Seq(Tokens) /\ Texts(values)
  BY TextOfTokens DEF Filling!AreTexts, Texts
<1>2. n \in Nat /\ Len(text) \in Nat /\ Len(text) - 2 * n <= 1
  BY <1>1
<1> HIDE DEF n
<1>3. Looping(f, text, values, n)
  BY <1>2, LoopingExists
<1>4. Filling!Rounds(text, values, n) = f[n]
  BY DEF Filling!Rounds, Looping, After
<1> HIDE DEF f
<1>5. Filling!NothingToReplace(f[n]) \/ (Len(text) - 2 * n \in Nat /\ BracesAtEnd(f[n], Len(text) - 2 * n))
  BY <1>1, <1>2, <1>3, RoundsAdvance
<1>6. Filling!NothingToReplace(f[n])
  BY <1>2, <1>5, OneBraceIsNoPair
<1> QED
  BY <1>4, <1>6 DEF n

\* The inputs that Spec chooses are such: what is accepted runs, in every state.
THEOREM AcceptedFilesRun == Spec => []AcceptedConfigurationRuns
<1>1. ASSUME NEW i \in Of("config") PROVE C!AcceptedRuns(i.config, i.workflow)
  <2>1. Of("config") # {}
    BY <1>1
  <2>2. C!TextFunctions /\ i.config \in C!AppConfig /\ C!BrokersListed(i.config) /\ i.workflow \in C!WorkflowConfig
    BY <2>1, FilesAreRead
  <2> QED
    BY <2>2, ConfigurationsRun
<1>2. ChosenInput => AcceptedConfigurationRuns
  BY <1>1 DEF ChosenInput, AcceptedConfigurationRuns
<1> QED
  BY <1>2, InputIsChosen, PTL

\* The same of conditions.
THEOREM OppositesNeverAgree == Spec => []OppositesDisagree
<1>1. ASSUME NEW i \in Of("condition") PROVE H!AgreesOn(i.condition, i.payload)
  BY ValuesAreCompared, OpposingConditions
<1>2. ChosenInput => OppositesDisagree
  BY <1>1 DEF ChosenInput, OppositesDisagree
<1> QED
  BY <1>2, InputIsChosen, PTL

\* The same of attempts: a handler that failed and is called again, by the retries of
\* its policy or by a redelivery, does what it would have done had it not been called.
THEOREM RetriesAreClean == Spec => []RetryIsClean
<1>1. ASSUME NEW i \in Of("attempt") PROVE H!RetryIsCleanOf(i.step, i.payload, i.first, i.second)
  BY AttemptsAreRepeatable, RepeatableIsClean
<1>2. ChosenInput => RetryIsClean
  BY <1>1 DEF ChosenInput, RetryIsClean
<1> QED
  BY <1>2, InputIsChosen, PTL

\* And of policies.
THEOREM RetriesWaitWithinBounds == Spec => []BackoffIsBounded
<1>1. ASSUME NEW i \in Of("policy") PROVE Policy!Bounded(i)
  BY PoliciesAreWritten, WaitsAreBounded
<1>2. ChosenInput => BackoffIsBounded
  BY <1>1 DEF ChosenInput, BackoffIsBounded
<1> QED
  BY <1>2, InputIsChosen, PTL

\* The loops that replace placeholders end for every text when the values hold no brace.
PlainValuesEnd == subject = "text" => Filling!EndsIfPlain(input.text, input.values)

THEOREM PlainTextsEnd == Spec => []PlainValuesEnd
<1>1. ASSUME NEW i \in Of("text") PROVE Filling!EndsIfPlain(i.text, i.values)
  BY TextsAreGiven, PlainLoopsEnd
<1>2. ChosenInput => PlainValuesEnd
  BY <1>1 DEF ChosenInput, PlainValuesEnd
<1> QED
  BY <1>2, InputIsChosen, PTL
=============================================================================
