-------------------------------- MODULE Arrays --------------------------------
(***************************************************************************)
(* filter_array (app/handlers/filter_array.go) and array_transform         *)
(* (app/handlers/array_transform.go).                                      *)
(*                                                                         *)
(* array_transform works on deep copies of the items, but what an update   *)
(* sets it stores as it is: an object of the payload, taken with "from",   *)
(* or an object written in the parameters of the step, which all items and *)
(* all messages of the slip share.  Both lie in a memory, Shared(loc)      *)
(* stands for the object at its location loc, and a write below it changes *)
(* the memory.  An object that "from" takes from the item or its parent is *)
(* taken by value, CEL conditions are left out, and the entries of a "set" *)
(* are listed in the order in which the map happens to be iterated.        *)
(***************************************************************************)
EXTENDS Handlers

\* The payload and the objects that the parameters of the step write down.
Memory(payload, objects) == Object([payload |-> payload, step |-> objects])

Shared(loc) == Value("shared", "", {}, <<>>, loc)

\* The object that the parameters write down under a name.
Literal(name) == Shared(<<"step", name>>)

\* setPayloadPath: objects that are missing on the way are made; a field on the
\* way that is no object is an error, and nothing has been written then.  The
\* result is the set of what the write makes, empty or a singleton.
RECURSIVE PutAt(_, _, _)
PutAt(v, path, x) ==
  IF Len(path) = 1 THEN {Put(v, path[1], x)}
  ELSE LET next == IF path[1] \in DOMAIN v.fields THEN v.fields[path[1]] ELSE Object(<<>>)
       IN  IF next.kind # "map" THEN {}
           ELSE {Put(v, path[1], child) : child \in PutAt(next, Tail(path), x)}

\* The value with the objects it shares in their place.
RECURSIVE Whole(_, _)
Whole(memory, v) ==
  CASE v.kind = "shared" -> Whole(memory, Only(At(memory, v.items)))
    [] v.kind = "map" -> [v EXCEPT !.fields = [k \in DOMAIN @ |-> Whole(memory, @[k])]]
    [] v.kind = "list" -> [v EXCEPT !.items = [k \in DOMAIN @ |-> Whole(memory, @[k])]]
    [] OTHER -> v

\* The memory with another object at location loc.
RECURSIVE Replaced(_, _, _)
Replaced(v, loc, x) ==
  IF loc = <<>> THEN x
  ELSE IF v.kind = "list"
  THEN [v EXCEPT !.items[Index[loc[1]] + 1] = Replaced(@, Tail(loc), x)]
  ELSE Put(v, loc[1], Replaced(v.fields[loc[1]], Tail(loc), x))

\* setPayloadPath on an item: what it makes of the memory and of the item.
RECURSIVE Written(_, _, _, _)
Written(memory, obj, path, x) ==
  IF obj.kind = "shared"
  THEN {[memory |-> Replaced(memory, obj.items, o), item |-> obj] :
          o \in PutAt(Only(At(memory, obj.items)), path, x)}
  ELSE IF obj.kind # "map" THEN {}
  ELSE IF Len(path) = 1 THEN {[memory |-> memory, item |-> Put(obj, path[1], x)]}
  ELSE LET next == IF path[1] \in DOMAIN obj.fields THEN obj.fields[path[1]] ELSE Object(<<>>)
       IN  {[memory |-> w.memory, item |-> Put(obj, path[1], w.item)] :
              w \in Written(memory, next, Tail(path), x)}

\* filterArrayPayload and arrayTransformPayload.
Context(memory, item, index, parent) ==
  FoldLeft(LAMBDA p, f : Put(p, f[1], f[2]), memory.fields.payload,
           <<<<"item", Whole(memory, item)>>, <<"index", Number(index)>>, <<"parent", Whole(memory, parent)>>>>)

-----------------------------------------------------------------------------
\* FilterArrayHandler.Handle: nothing is written unless every item is decided.
FilterArray(s, payload) ==
  LET found == At(payload, s.source)
      items == Only(found).items
      answers == [k \in DOMAIN items |-> Asserted(s.filter, Context(Memory(payload, Nil), items[k], k - 1, Nil))]
      kept == SelectSeq([k \in DOMAIN items |-> k], LAMBDA k : answers[k] = "true")
      written == PutAt(payload, s.target, List([k \in DOMAIN kept |-> items[kept[k]]]))
  IN  IF Only(found).kind # "list" \/ "error" \in Range(answers) \/ written = {} THEN Failed(payload)
      ELSE Done(Put(Put(Only(written), s.key \o "_filtered_count", Number(Len(kept))),
                    s.key \o "_removed_count", Number(Len(items) - Len(kept))))

-----------------------------------------------------------------------------
(* array_transform: w is the work on one item so far. *)

Work(memory, item, kept, failed) == [memory |-> memory, item |-> item, kept |-> kept, failed |-> failed]

\* Mutant of Working: the item itself is worked on.
Working_Itself(item, loc) == IF loc # <<>> /\ item.kind = "map" THEN Shared(loc) ELSE item

\* copyTransformValue: a deep copy of the item at location loc of the memory.
Working(item, loc) == item

\* resolveTransformValue: what is found under "from", or the value as it is.
Resolved(e, w, index, parent) ==
  LET found == FieldAt(Context(w.memory, w.item, index, parent), e.from)
  IN  IF e.from = <<>> THEN e.value
      ELSE IF found # {} /\ Only(found).kind = "map" /\ e.from[1] \notin {"item", "index", "parent"}
      THEN Shared(<<"payload">> \o e.from) ELSE Only(found)

\* One entry of the set of an update.
SetEntry(w, e, index, parent) ==
  LET written == Written(w.memory, w.item, e.path, Resolved(e, w, index, parent))
  IN  IF w.failed THEN w
      ELSE IF written = {} THEN [w EXCEPT !.failed = TRUE]
      ELSE LET x == CHOOSE y \in written : TRUE
           IN  [w EXCEPT !.memory = x.memory, !.item = x.item]

\* applyArrayTransformUpdates
Updated(w, updates, index, parent) ==
  LET Update(w1, u) ==
        LET answer == IF u.when = <<>> THEN "true"
                      ELSE Asserted(u.when[1], Context(w1.memory, w1.item, index, parent))
        IN  IF w1.failed \/ answer = "false" THEN w1
            ELSE IF answer = "error" THEN [w1 EXCEPT !.failed = TRUE]
            ELSE FoldLeft(LAMBDA w2, e : SetEntry(w2, e, index, parent), w1, u.set)
  IN  FoldLeft(Update, w, updates)

\* The item of w is one of those that are kept.
Kept(w) == [w EXCEPT !.kept = Append(@, w.item)]

\* What a nested transformation has kept becomes a field of the item.
Stored(w, target, inner) ==
  LET written == Written(inner.memory, w.item, target, List(inner.kept))
  IN  IF inner.failed \/ written = {} THEN [w EXCEPT !.failed = TRUE, !.memory = inner.memory]
      ELSE LET x == CHOOSE y \in written : TRUE
           IN  [w EXCEPT !.memory = x.memory, !.item = x.item]

\* transformArrayItems and applyNestedArrayTransforms, which call each other: the
\* items kept, in their new form; at is the location of the list in the memory,
\* <<>> for the list of a copy.
RECURSIVE Transformed(_, _, _, _, _)
Transformed(memory, items, at, s, parent) ==
  LET Nested(w, n) ==
        LET found == FieldAt(Whole(w.memory, w.item), n.source)
        IN  IF w.failed \/ found = {} THEN w
            ELSE IF Only(found).kind # "list" THEN [w EXCEPT !.failed = TRUE]
            ELSE Stored(w, n.target, Transformed(w.memory, Only(found).items, <<>>, n, w.item))
      Step(w, k) ==
        LET loc == IF at = <<>> THEN <<>> ELSE Append(at, ToString(k - 1))
            start == [w EXCEPT !.item = Working(items[k], loc)]
            answer == IF s.where = <<>> THEN "true"
                      ELSE Asserted(s.where[1], Context(w.memory, start.item, k - 1, parent))
        IN  IF w.failed \/ answer = "false" THEN w
            ELSE IF answer = "error" THEN [w EXCEPT !.failed = TRUE]
            ELSE IF items[k].kind # "map" THEN Kept(start)
            ELSE Kept(FoldLeft(Nested, Updated(start, s.updates, k - 1, parent), s.nested))
  IN  FoldLeft(Step, Work(memory, Nil, <<>>, FALSE), [k \in DOMAIN items |-> k])

\* ArrayTransformHandler.Handle: the outcome, and what has become of the objects
\* that the parameters of the step write down.
ArrayTransform(s, payload) ==
  LET source == Only(At(payload, s.source))
      Ended(w) ==
        LET made == w.memory.fields.payload
            written == PutAt(made, s.target, Whole(w.memory, List(w.kept)))
        IN  [objects |-> w.memory.fields.step,
             outcome |-> IF w.failed \/ written = {} THEN Failed(made)
                         ELSE Done(Put(Only(written), s.key \o "_transformed_count", Number(Len(w.kept))))]
  IN  IF source.kind # "list" THEN [objects |-> s.objects, outcome |-> Failed(payload)]
      ELSE Ended(Transformed(Memory(payload, s.objects), source.items, <<"payload">> \o s.source, s, Nil))

-----------------------------------------------------------------------------
(* What a transformation leaves alone. *)

RECURSIVE Entries(_)
Entries(s) ==
  UNION {Range(s.updates[k].set) : k \in DOMAIN s.updates} \cup UNION {Entries(n) : n \in Range(s.nested)}

\* No update stores an object of the payload.
StoresNoObject(s, payload) ==
  \A e \in Entries(s) : e.from # <<>> => Only(FieldAt(payload, e.from)).kind # "map"

\* Every write into an item is to one of its own fields.
RECURSIVE WritesNothingBelow(_)
WritesNothingBelow(s) ==
  /\ \A k \in DOMAIN s.updates : \A e \in Range(s.updates[k].set) : Len(e.path) = 1
  /\ \A n \in Range(s.nested) : Len(n.target) = 1 /\ WritesNothingBelow(n)

\* No update stores an object of the parameters, or nothing is written below it.
KeepsItsObjects(s) == (\A e \in Entries(s) : e.value.kind # "shared") \/ WritesNothingBelow(s)

\* Nothing but the target and the count is written, nothing at all by a
\* transformation that fails, and the parameters of the step stay as they are.
OnlyWrites(s, payload) ==
  \A t \in {ArrayTransform(s, payload)} :
    \A o \in {t.outcome} :
      /\ t.objects = s.objects
      /\ IF o.failed THEN o.payload = payload
         ELSE o.payload \in {Put(q, s.key \o "_transformed_count", Number(Len(x.items))) :
                               q \in UNION {PutAt(payload, s.target, x) : x \in At(o.payload, s.target)},
                               x \in At(o.payload, s.target)}

\* A transformation that only filters keeps what the filter handler keeps.
FiltersLikeTheFilter(s, payload) ==
  s.where # <<>> /\ s.updates = <<>> /\ s.nested = <<>> =>
    \A f \in {FilterArray([source |-> s.source, target |-> s.target, key |-> s.key, filter |-> s.where[1]], payload)},
       o \in {ArrayTransform(s, payload).outcome} :
      /\ f.failed = o.failed
      /\ ~f.failed => At(f.payload, s.target) = At(o.payload, s.target)
=============================================================================
