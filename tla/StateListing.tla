----------------------------- MODULE StateListing -----------------------------
(***************************************************************************)
(* What the state stores keep of a sequence of saves, and what Load, List  *)
(* and the diagnostic tools of the MCP gateways answer: state_store.go,    *)
(* state_store_dynamodb.go (app/slip), mcp.go (app, app/framework).        *)
(*                                                                         *)
(* A snapshot has an id, the fields that filters look at and the time of   *)
(* its save.  A filter has a set for every field: {} for any value.        *)
(***************************************************************************)
EXTENDS Integers, SequencesExt

CONSTANT FileName   \* safeStateFileName: the file that a message id is kept in

\* The key under which a backend keeps a message.
Key(backend, id) == IF backend = "file" THEN FileName[id] ELSE id

\* Save, three times: the last snapshot saved under a key is the one kept.
Kept(backend, saves) ==
  [k \in {Key(backend, s.id) : s \in Range(saves)} |->
     saves[SelectLastInSeq(saves, LAMBDA s : Key(backend, s.id) = k)]]

\* Load, three times: the id of what is found is not looked at.
Load(backend, saves, id) ==
  LET kept == Kept(backend, saves)
  IN  IF Key(backend, id) \in DOMAIN kept THEN {kept[Key(backend, id)]} ELSE {}

AnyOf(given, value) == given = {} \/ value \in given

\* snapshotMatches; both ends of the period belong to it.
Matches(s, f) ==
  /\ AnyOf(f.id, s.id) /\ AnyOf(f.correlation, s.correlation) /\ AnyOf(f.status, s.status)
  /\ \A t \in f.from : s.updated >= t
  /\ \A t \in f.to : s.updated <= t

\* Every item of a table is a snapshot or a lock: <<s>> or <<"lock", n>>.
IsSnapshot(x) == Len(x) = 1

\* How many List answers at most, 0 for any number.
Most(backend, limit) == IF limit = 0 /\ backend = "dynamodb" THEN 50 ELSE limit

\* Mutant of PageOf: the page is as long as the answer may be.
PageOf_AsAsked(backend, items, limit) ==
  LET page == IF limit = 0 THEN 50 ELSE limit
  IN  IF backend = "dynamodb" /\ Len(items) > page THEN SubSeq(items, 1, page) ELSE items

\* What a backend goes through to answer List, in an order of its own: DynamoDB
\* reads one page of its table, which holds the locks, too; no limit is a limit
\* of 50 there.
PageOf(backend, items, limit) ==
  LET page == 2 * Most(backend, limit)
  IN  IF backend = "dynamodb" /\ Len(items) > page THEN SubSeq(items, 1, page) ELSE items

\* The items that are answered: one after the other is appended, if it matches.
Picked(items, f) ==
  LET After[k \in 0..Len(items)] ==
        IF k = 0 THEN <<>>
        ELSE IF IsSnapshot(items[k]) /\ Matches(items[k][1], f) THEN Append(After[k - 1], items[k])
        ELSE After[k - 1]
  IN  After[Len(items)]

\* List, three times: items holds the table in the order of the backend.
List(backend, items, f) ==
  LET found == Picked(PageOf(backend, items, f.limit), f)
      most == Most(backend, f.limit)
  IN  IF most > 0 /\ Len(found) > most THEN SubSeq(found, 1, most) ELSE found

\* The orders in which a backend may list what it keeps: files by name, memory
\* and DynamoDB in any order, with the locks held at the time among the items.
Orders(backend, saves, locks) ==
  LET kept == Kept(backend, saves)
      rows == {<<kept[k]>> : k \in DOMAIN kept}
      all == IF backend = "dynamodb" THEN rows \cup {<<"lock", l>> : l \in 1..locks} ELSE rows
  IN  SetToSeqs(all)

\* mcpServer.getExecution: by message id if one is given, else the first listed.
Asked(f) == [f EXCEPT !.limit = IF @ = 0 THEN 20 ELSE @]

GetExecution(backend, saves, items, f) ==
  IF f.id # {} THEN UNION {Load(backend, saves, id) : id \in f.id}
  ELSE {x[1] : x \in Range(List(backend, items, Asked(f)))}

\* find_executions of the framework prints an argument that is not given, too, and
\* knows neither a period nor a limit.
FindExecutions(backend, items, f) ==
  LET printed(given) == IF given = {} THEN {"<nil>"} ELSE given
  IN  List(backend, items, [f EXCEPT !.id = {}, !.from = {}, !.to = {}, !.limit = 20,
                                     !.correlation = printed(@), !.status = printed(@)])

-----------------------------------------------------------------------------
(* What an operator can rely on. *)

\* Saves in the order of their times, and a filter.
IsListing(saves, locks, f) ==
  /\ Len(saves) \in Nat /\ DOMAIN saves = 1..Len(saves)
  /\ \A i, j \in DOMAIN saves : i <= j => saves[j].updated >= saves[i].updated
  /\ f = [id |-> f.id, correlation |-> f.correlation, status |-> f.status, from |-> f.from, to |-> f.to,
          limit |-> f.limit]
  /\ locks \in Nat /\ f.limit \in Nat

\* All items are on the page that is read.
Fits(backend, items, limit) == backend = "dynamodb" => Len(items) <= 2 * Most(backend, limit)

NamesDiffer(backend, ids) == IsInjective([id \in ids |-> Key(backend, id)])

\* Every message keeps its own last snapshot, if the file names of the messages
\* differ; List answers snapshots that match, each once and no more than asked
\* for, and all of them if that is fewer (in DynamoDB if the table fits a page);
\* what the framework finds for arguments that are all given matches them, too.
ListsWhatIsKept(backend, saves, locks, f) ==
  \A items \in Orders(backend, saves, locks) :
    LET listed == List(backend, items, f)
        matching == {x \in Range(items) : IsSnapshot(x) /\ Matches(x[1], f)}
    IN  /\ IsInjective(listed) /\ Range(listed) \subseteq matching
        /\ f.limit > 0 => Len(listed) <= f.limit
        /\ f.correlation # {} /\ f.status # {} =>
             {x \in Range(FindExecutions(backend, items, f)) : \A t \in f.to : x[1].updated <= t}
               \subseteq {x \in Range(items) : IsSnapshot(x) /\ Matches(x[1], [f EXCEPT !.id = {}, !.from = {}])}
        /\ Fits(backend, items, f.limit) =>
             Len(listed) >= Cardinality(matching) \/ Len(listed) = Most(backend, f.limit)
        /\ NamesDiffer(backend, {s.id : s \in Range(saves)} \cup f.id) =>
             /\ \A s \in Range(saves) : \A x \in Load(backend, saves, s.id) :
                  x.id = s.id /\ x.updated >= s.updated
             /\ \A x \in GetExecution(backend, saves, items, f) : AnyOf(f.id, x.id)
             /\ matching # {} /\ Fits(backend, items, Asked(f).limit) => GetExecution(backend, saves, items, f) # {}
=============================================================================
