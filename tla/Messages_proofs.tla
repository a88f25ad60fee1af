------------------------- MODULE Messages_proofs -------------------------
(***************************************************************************)
(* What is kept of a message between its deliveries: the names of events,  *)
(* for every payload that is an object and for any two paths of a workflow *)
(* (whether one lies below the other or not); the spans of every sequence  *)
(* of deliveries; and what is listed of every sequence of saves, however   *)
(* long the table is.                                                      *)
(***************************************************************************)
EXTENDS Algorithms_proofs, SequenceTheorems, FiniteSetTheorems

-----------------------------------------------------------------------------
(* Reading along a path. *)

\* The parts of a path: splitPath.
IsPath(p) == p \in Seq(STRING) /\ p # <<>>

\* What is found after k parts of a path, if S is what was found before.
Next1(v, p, k, S) == IF k = 1 THEN Ids!Field(v, p[1]) ELSE UNION {Ids!Field(x, p[k]) : x \in S}

\* What is found after each part of a path.
Along(v, p, F) == F = [k \in 1..Len(p) |-> Next1(v, p, k, F[k - 1])]

\* There is such a function.
LEMMA AlongExists ==
  ASSUME NEW v, NEW p, IsPath(p)
  PROVE  \E F : Along(v, p, F)
<1> DEFINE Goes(m, F) == F = [k \in 1..m |-> Next1(v, p, k, F[k - 1])]
           T == {m \in Nat : \E F : Goes(m, F)}
<1>1. 0 \in T
  <2> DEFINE F == [k \in 1..0 |-> {}]
  <2>1. Goes(0, F)
    OBVIOUS
  <2> QED
    BY <2>1
<1>2. ASSUME NEW m \in Nat, m \in T PROVE m + 1 \in T
  <2>1. PICK F : Goes(m, F)
    BY <1>2
  <2> DEFINE G == [k \in 1..(m + 1) |-> Next1(v, p, k, F[k - 1])]
  <2>2. G = [k \in 1..(m + 1) |-> Next1(v, p, k, F[k - 1])]
    OBVIOUS
  <2> HIDE DEF G
  <2>3. \A k \in 1..m : G[k] = F[k]
    <3>1. ASSUME NEW k \in 1..m PROVE G[k] = F[k]
      <4>1. k \in 1..(m + 1)
        OBVIOUS
      <4>2. G[k] = Next1(v, p, k, F[k - 1]) /\ F[k] = Next1(v, p, k, F[k - 1])
        BY <2>1, <2>2, <4>1
      <4> QED
        BY <4>2
    <3> QED
      BY <3>1
  <2>4. \A k \in 1..(m + 1) : Next1(v, p, k, F[k - 1]) = Next1(v, p, k, G[k - 1])
    <3>1. ASSUME NEW k \in 1..(m + 1), k # 1 PROVE F[k - 1] = G[k - 1]
      <4>1. k - 1 \in 1..m
        BY <3>1
      <4> QED
        BY <2>3, <4>1
    <3> QED
      BY <3>1 DEF Next1
  <2>5. Goes(m + 1, G)
    BY <2>2, <2>4
  <2> HIDE DEF Goes
  <2> QED
    BY <2>5
<1> HIDE DEF T
<1>3. Len(p) \in Nat
  BY DEF IsPath
<1>4. Len(p) \in T
  BY <1>1, <1>2, <1>3, SetInduction
<1> QED
  BY <1>4 DEF T, Along

\* Each part leads on from what was found before.
LeadsOn(v, p, F) ==
  /\ Len(p) \in Nat \ {0} /\ F[1] = Ids!Field(v, p[1])
  /\ \A k \in 1..(Len(p) - 1) : F[k + 1] = UNION {Ids!Field(x, p[k + 1]) : x \in F[k]}

\* What is found along a path leads on.
LEMMA AlongLeadsOn ==
  ASSUME NEW v, NEW p, IsPath(p), NEW F, Along(v, p, F)
  PROVE  LeadsOn(v, p, F)
<1>1. Len(p) \in Nat \ {0} /\ DOMAIN p = 1..Len(p)
  BY DEF IsPath
<1>2. \A k \in 1..Len(p) : F[k] = Next1(v, p, k, F[k - 1])
  BY DEF Along
<1>3. F[1] = Ids!Field(v, p[1])
  <2>1. 1 \in 1..Len(p)
    BY <1>1
  <2>2. F[1] = Next1(v, p, 1, F[1 - 1])
    BY <1>2, <2>1
  <2> QED
    BY <2>2 DEF Next1
<1>4. ASSUME NEW k \in 1..(Len(p) - 1)
      PROVE  F[k + 1] = UNION {Ids!Field(x, p[k + 1]) : x \in F[k]}
  <2>1. k + 1 \in 1..Len(p) /\ k + 1 # 1 /\ (k + 1) - 1 = k
    BY <1>1
  <2>2. F[k + 1] = Next1(v, p, k + 1, F[k])
    BY <1>2, <2>1
  <2> QED
    BY <2>1, <2>2 DEF Next1
<1> QED
  BY <1>1, <1>3, <1>4 DEF LeadsOn

\* The last of them is what the path reads.
LEMMA ReadAlong ==
  ASSUME NEW v, NEW p, IsPath(p), NEW F, Along(v, p, F)
  PROVE  Ids!FieldAt(v, p) = F[Len(p)]
<1> DEFINE n == Len(p)
           t == Tail(p)
           S == Ids!Field(v, Head(p))
           Goes(G) == G = [k \in 0..Len(t) |-> IF k = 0 THEN S ELSE UNION {Ids!Field(x, t[k]) : x \in G[k - 1]}]
           G == CHOOSE G : Goes(G)
<1>11. LeadsOn(v, p, F)
  BY AlongLeadsOn
<1>1. /\ n \in Nat \ {0} /\ F[1] = Ids!Field(v, p[1])
      /\ \A k \in 1..(n - 1) : F[k + 1] = UNION {Ids!Field(x, p[k + 1]) : x \in F[k]}
  BY <1>11 DEF LeadsOn
<1>2. Len(t) = n - 1 /\ Head(p) = p[1] /\ \A k \in 1..(n - 1) : t[k] = p[k + 1]
  BY DEF IsPath
<1>3. Ids!FieldAt(v, p) = G[Len(t)]
  BY DEF Ids!FieldAt, Ids!Walk, Ids!Descend, IsPath
<1> HIDE DEF n, t
<1> DEFINE H0 == [k \in 0..Len(t) |-> F[k + 1]]
<1>4. Goes(H0)
  <2>1. ASSUME NEW k \in 0..Len(t), k # 0
        PROVE  H0[k] = UNION {Ids!Field(x, t[k]) : x \in H0[k - 1]}
    <3>1. k \in 1..(n - 1) /\ k - 1 \in 0..Len(t) /\ (k - 1) + 1 = k
      BY <1>1, <1>2, <2>1
    <3> QED
      BY <1>1, <1>2, <3>1
  <2>2. 0 \in 0..Len(t) => H0[0] = S
    BY <1>1, <1>2
  <2> QED
    BY <2>1, <2>2
<1> HIDE DEF H0
<1>5. Goes(G)
  BY <1>4
<1> HIDE DEF G
<1> DEFINE T == {k \in Nat : k <= n - 1 => G[k] = F[k + 1]}
<1>6. 0 \in T
  BY <1>1, <1>2, <1>5
<1>7. ASSUME NEW k \in Nat, k \in T PROVE k + 1 \in T
  <2>1. ASSUME k + 1 <= n - 1 PROVE G[k + 1] = F[k + 2]
    <3>1. k + 1 \in 0..Len(t) /\ k + 1 # 0 /\ (k + 1) - 1 = k /\ k + 1 \in 1..(n - 1) /\ k <= n - 1
          /\ (k + 1) + 1 = k + 2
      BY <1>1, <1>2, <2>1
    <3>2. G[k + 1] = UNION {Ids!Field(x, t[k + 1]) : x \in G[k]}
      BY <1>5, <3>1
    <3>3. G[k] = F[k + 1] /\ t[k + 1] = p[k + 2]
      BY <1>2, <1>7, <3>1
    <3>4. F[k + 2] = UNION {Ids!Field(x, p[k + 2]) : x \in F[k + 1]}
      BY <1>1, <3>1
    <3> QED
      BY <3>2, <3>3, <3>4
  <2> QED
    BY <2>1
<1> HIDE DEF T
<1>8. n - 1 \in T
  BY <1>1, <1>6, <1>7, SetInduction
<1>9. G[n - 1] = F[n]
  BY <1>1, <1>8 DEF T
<1> QED
  BY <1>2, <1>3, <1>9 DEF n

\* Paths that begin alike find the same at first.
LEMMA AlongTheSame ==
  ASSUME NEW v, NEW p, IsPath(p), NEW F, Along(v, p, F), NEW q, IsPath(q), NEW G, Along(v, q, G),
         NEW c \in Nat, c <= Len(p), c <= Len(q), \A k \in 1..c : p[k] = q[k]
  PROVE  \A k \in 1..c : F[k] = G[k]
<1> DEFINE T == {k \in Nat : k + 1 <= c => F[k + 1] = G[k + 1]}
<1>11. LeadsOn(v, p, F) /\ LeadsOn(v, q, G)
  BY AlongLeadsOn
<1>1. /\ Len(p) \in Nat \ {0} /\ F[1] = Ids!Field(v, p[1])
      /\ \A k \in 1..(Len(p) - 1) : F[k + 1] = UNION {Ids!Field(x, p[k + 1]) : x \in F[k]}
  BY <1>11 DEF LeadsOn
<1>2. /\ Len(q) \in Nat \ {0} /\ G[1] = Ids!Field(v, q[1])
      /\ \A k \in 1..(Len(q) - 1) : G[k + 1] = UNION {Ids!Field(x, q[k + 1]) : x \in G[k]}
  BY <1>11 DEF LeadsOn
<1>3. 0 \in T
  BY <1>1, <1>2
<1>4. ASSUME NEW k \in Nat, k \in T PROVE k + 1 \in T
  <2>1. ASSUME k + 2 <= c PROVE F[k + 2] = G[k + 2]
    <3>1. /\ k + 1 \in 1..(Len(p) - 1) /\ k + 1 \in 1..(Len(q) - 1) /\ k + 2 \in 1..c /\ k + 1 <= c
          /\ (k + 1) + 1 = k + 2
      BY <1>1, <1>2, <2>1
    <3>2. F[k + 2] = UNION {Ids!Field(x, p[k + 2]) : x \in F[k + 1]}
      BY <1>1, <3>1
    <3>3. G[k + 2] = UNION {Ids!Field(x, q[k + 2]) : x \in G[k + 1]}
      BY <1>2, <3>1
    <3>4. F[k + 1] = G[k + 1] /\ p[k + 2] = q[k + 2]
      BY <1>4, <3>1
    <3> QED
      BY <3>2, <3>3, <3>4
  <2>2. (k + 1) + 1 = k + 2
    OBVIOUS
  <2> QED
    BY <2>1, <2>2
<1> HIDE DEF T
<1>5. \A k \in Nat : k \in T
  BY <1>3, <1>4, SetInduction
<1>6. ASSUME NEW k \in 1..c PROVE F[k] = G[k]
  <2>1. k - 1 \in Nat /\ (k - 1) + 1 = k /\ k <= c
    OBVIOUS
  <2> QED
    BY <1>5, <2>1 DEF T
<1> QED
  BY <1>6

-----------------------------------------------------------------------------
(* Writing along a path. *)

\* The object that a value is written into, if S is what was there.
Opened(S) == IF \E o \in S : o.kind = "map" THEN CHOOSE o \in S : TRUE ELSE Ids!Object(<<>>)

\* The objects along a path, before and after x is written.
Opening(v, p, O, k) == IF k = 1 THEN v ELSE Opened(Ids!Field(O[k - 1], p[k - 1]))
Opens(v, p, O) == O = [k \in 1..Len(p) |-> Opening(v, p, O, k)]
Making(p, x, O, M, k) == Ids!Put(O[k], p[k], IF k = Len(p) THEN x ELSE M[k + 1])
Makes(p, x, O, M) == M = [k \in 1..Len(p) |-> Making(p, x, O, M, k)]

\* There are such objects.
LEMMA OpensExists ==
  ASSUME NEW v, NEW p, IsPath(p)
  PROVE  \E O : Opens(v, p, O)
<1> DEFINE Goes(m, F) == F = [k \in 1..m |-> Opening(v, p, F, k)]
           T == {m \in Nat : \E F : Goes(m, F)}
<1>1. 0 \in T
  <2> DEFINE F == [k \in 1..0 |-> {}]
  <2>1. Goes(0, F)
    OBVIOUS
  <2> QED
    BY <2>1
<1>2. ASSUME NEW m \in Nat, m \in T PROVE m + 1 \in T
  <2>1. PICK F : Goes(m, F)
    BY <1>2
  <2> DEFINE G == [k \in 1..(m + 1) |-> Opening(v, p, F, k)]
  <2>2. G = [k \in 1..(m + 1) |-> Opening(v, p, F, k)]
    OBVIOUS
  <2> HIDE DEF G
  <2>3. \A k \in 1..m : G[k] = F[k]
    <3>1. ASSUME NEW k \in 1..m PROVE G[k] = F[k]
      <4>1. k \in 1..(m + 1)
        OBVIOUS
      <4>2. G[k] = Opening(v, p, F, k) /\ F[k] = Opening(v, p, F, k)
        BY <2>1, <2>2, <4>1
      <4> QED
        BY <4>2
    <3> QED
      BY <3>1
  <2>4. \A k \in 1..(m + 1) : Opening(v, p, F, k) = Opening(v, p, G, k)
    <3>1. ASSUME NEW k \in 1..(m + 1), k # 1 PROVE F[k - 1] = G[k - 1]
      <4>1. k - 1 \in 1..m
        BY <3>1
      <4> QED
        BY <2>3, <4>1
    <3> QED
      BY <3>1 DEF Opening
  <2>5. Goes(m + 1, G)
    BY <2>2, <2>4
  <2> HIDE DEF Goes
  <2> QED
    BY <2>5
<1> HIDE DEF T
<1>3. Len(p) \in Nat
  BY DEF IsPath
<1>4. Len(p) \in T
  BY <1>1, <1>2, <1>3, SetInduction
<1> QED
  BY <1>4 DEF T, Opens

\* The objects are made from the last one on.
LEMMA MakesExists ==
  ASSUME NEW p, IsPath(p), NEW x, NEW O
  PROVE  \E M : Makes(p, x, O, M)
<1> DEFINE n == Len(p)
           Goes(m, F) == F = [k \in (n - m)..n |-> Making(p, x, O, F, k)]
           T == {m \in Nat : \E F : Goes(m, F)}
<1>0. n \in Nat \ {0}
  BY DEF IsPath
<1>1. 0 \in T
  <2> DEFINE F == [k \in (n - 0)..n |-> Ids!Put(O[k], p[k], x)]
  <2>1. \A k \in (n - 0)..n : k = n
    BY <1>0
  <2>2. \A k \in (n - 0)..n : Ids!Put(O[k], p[k], x) = Making(p, x, O, F, k)
    BY <2>1 DEF Making
  <2>3. F = [k \in (n - 0)..n |-> Ids!Put(O[k], p[k], x)]
    OBVIOUS
  <2> HIDE DEF F
  <2>4. Goes(0, F)
    BY <2>2, <2>3
  <2> QED
    BY <2>4
<1>2. ASSUME NEW m \in Nat, m \in T PROVE m + 1 \in T
  <2>1. PICK F : Goes(m, F)
    BY <1>2
  <2> DEFINE G == [k \in (n - (m + 1))..n |-> Making(p, x, O, F, k)]
  <2>2. G = [k \in (n - (m + 1))..n |-> Making(p, x, O, F, k)]
    OBVIOUS
  <2> HIDE DEF G, n
  <2>3. \A k \in (n - m)..n : G[k] = F[k]
    <3>1. ASSUME NEW k \in (n - m)..n PROVE G[k] = F[k]
      <4>1. k \in (n - (m + 1))..n
        BY <1>0
      <4>2. G[k] = Making(p, x, O, F, k) /\ F[k] = Making(p, x, O, F, k)
        BY <2>1, <2>2, <4>1
      <4> QED
        BY <4>2
    <3> QED
      BY <3>1
  <2>4. \A k \in (n - (m + 1))..n : Making(p, x, O, F, k) = Making(p, x, O, G, k)
    <3>1. ASSUME NEW k \in (n - (m + 1))..n, k # n PROVE F[k + 1] = G[k + 1]
      <4>1. k + 1 \in (n - m)..n
        BY <1>0, <3>1
      <4> QED
        BY <2>3, <4>1
    <3> QED
      BY <3>1 DEF Making, n
  <2>5. Goes(m + 1, G)
    BY <2>2, <2>4
  <2> HIDE DEF Goes
  <2> QED
    BY <2>5
<1> HIDE DEF T, n
<1>3. n - 1 \in T
  BY <1>0, <1>1, <1>2, SetInduction
<1>4. n - (n - 1) = 1
  BY <1>0
<1> QED
  BY <1>3, <1>4 DEF T, Makes, n

\* What is written is the first of them.
LEMMA ForcedIsMade ==
  ASSUME NEW v, NEW p, IsPath(p), NEW x
  PROVE  \E O : Opens(v, p, O) /\ \E M : Makes(p, x, O, M) /\ Ids!Forced(v, p, x) = M[1]
<1> DEFINE O == CHOOSE O : O = [k \in 1..Len(p) |->
                                 IF k = 1 THEN v ELSE Opened(Ids!Field(O[k - 1], p[k - 1]))]
<1>1. Opens(v, p, O)
  <2>1. \E F : F = [k \in 1..Len(p) |-> IF k = 1 THEN v ELSE Opened(Ids!Field(F[k - 1], p[k - 1]))]
    <3>1. PICK F : Opens(v, p, F)
      BY OpensExists
    <3>2. F = [k \in 1..Len(p) |-> IF k = 1 THEN v ELSE Opened(Ids!Field(F[k - 1], p[k - 1]))]
      BY <3>1 DEF Opens, Opening
    <3> QED
      BY <3>2
  <2> QED
    BY <2>1 DEF Opens, Opening
<1> DEFINE M == CHOOSE M : M = [k \in 1..Len(p) |-> Ids!Put(O[k], p[k], IF k = Len(p) THEN x ELSE M[k + 1])]
<1>2. Ids!Forced(v, p, x) = M[1]
  BY DEF Ids!Forced, Opened
<1> HIDE DEF O
<1>3. Makes(p, x, O, M)
  <2>1. \E F : F = [k \in 1..Len(p) |-> Ids!Put(O[k], p[k], IF k = Len(p) THEN x ELSE F[k + 1])]
    <3>1. PICK F : Makes(p, x, O, F)
      BY MakesExists
    <3>2. F = [k \in 1..Len(p) |-> Ids!Put(O[k], p[k], IF k = Len(p) THEN x ELSE F[k + 1])]
      BY <3>1 DEF Makes, Making
    <3> QED
      BY <3>2
  <2> QED
    BY <2>1 DEF Makes, Making
<1> HIDE DEF M
<1>4. \E F : Makes(p, x, O, F) /\ Ids!Forced(v, p, x) = F[1]
  BY <1>2, <1>3
<1> QED
  BY <1>1, <1>4, Zenon

\* A value that is an object.
IsMapping(v) == v.kind = "map" /\ Ids!IsValue(v)

\* An object that gets a field has it, and its other fields.
LEMMA PutIntoObject ==
  ASSUME NEW v, IsMapping(v), NEW part, NEW x
  PROVE  /\ IsMapping(Ids!Put(v, part, x))
         /\ Ids!Field(Ids!Put(v, part, x), part) = {x}
         /\ \A other : other # part => Ids!Field(Ids!Put(v, part, x), other) = Ids!Field(v, other)
<1> DEFINE f == [k \in DOMAIN v.fields \cup {part} |-> IF k = part THEN x ELSE v.fields[k]]
           w == Ids!Put(v, part, x)
<1>1. v = Ids!Value(v.kind, v.text, v.num, v.fields, v.items) /\ v.kind = "map"
  BY DEF IsMapping, Ids!IsValue
<1>2. w = [v EXCEPT !.fields = f]
  BY DEF Ids!Put
<1> HIDE DEF f, w
<1>3. w = Ids!Value(v.kind, v.text, v.num, f, v.items)
  BY <1>1, <1>2 DEF Ids!Value
<1>4. w.kind = "map" /\ w.text = v.text /\ w.fields = f /\ w = Ids!Value(w.kind, w.text, w.num, w.fields, w.items)
  BY <1>1, <1>3 DEF Ids!Value
<1>5. v.text # ""
  <2>1. Ids!Text("").kind = "text"
    BY DEF Ids!Text, Ids!Value
  <2>2. v # Ids!Text("")
    BY <1>1, <2>1
  <2> QED
    BY <2>2 DEF IsMapping, Ids!IsValue
<1>6. IsMapping(w)
  BY <1>4, <1>5 DEF IsMapping, Ids!IsValue
<1>7. DOMAIN f = DOMAIN v.fields \cup {part} /\ f[part] = x
      /\ \A k \in DOMAIN v.fields : k # part => f[k] = v.fields[k]
  BY DEF f
<1>8. Ids!Field(w, part) = {x}
  BY <1>4, <1>7 DEF Ids!Field
<1>9. \A other : other # part => Ids!Field(w, other) = Ids!Field(v, other)
  BY <1>1, <1>4, <1>7 DEF Ids!Field
<1> QED
  BY <1>6, <1>8, <1>9 DEF w

\* A read finds one value or none.
Lone(S) == \A x, y \in S : x = y

\* Values that are read along a path.
Sound(S) == Lone(S) /\ \A x \in S : Ids!IsValue(x)
CanRead(v, p) ==
  /\ IsMapping(v) /\ IsPath(p)
  /\ \A k \in 1..Len(p) : \A x \in Ids!FieldAt(v, SubSeq(p, 1, k)) : Ids!IsValue(x)

\* A path's beginning reads what is found on the way.
LEMMA ReadBefore ==
  ASSUME NEW v, NEW p, IsPath(p), NEW F, Along(v, p, F), NEW k \in 1..Len(p)
  PROVE  Ids!FieldAt(v, SubSeq(p, 1, k)) = F[k]
<1> DEFINE q == SubSeq(p, 1, k)
<1>1. Len(p) \in Nat /\ p \in Seq(STRING)
  BY DEF IsPath
<1>2. q \in Seq(STRING) /\ Len(q) = k /\ \A i \in 1..k : q[i] = p[i]
  BY <1>1
<1>3. IsPath(q)
  BY <1>2 DEF IsPath
<1> HIDE DEF q
<1>4. PICK G : Along(v, q, G)
  BY <1>3, AlongExists
<1>5. k \in Nat /\ k <= Len(p) /\ k <= Len(q) /\ \A i \in 1..k : p[i] = q[i]
  BY <1>1, <1>2
<1>6. \A i \in 1..k : F[i] = G[i]
  BY <1>3, <1>4, <1>5, AlongTheSame
<1>7. Ids!FieldAt(v, q) = G[k]
  BY <1>2, <1>3, <1>4, ReadAlong
<1> QED
  BY <1>6, <1>7 DEF q

\* A field is one value or none.
LEMMA FieldIsLone == \A v, part : Lone(Ids!Field(v, part))
BY DEF Lone, Ids!Field

\* What is found on the way is sound.
LEMMA AlongIsSound ==
  ASSUME NEW v, NEW p, CanRead(v, p), NEW F, Along(v, p, F)
  PROVE  \A k \in 1..Len(p) : Sound(F[k])
<1> DEFINE T == {k \in Nat : k + 1 <= Len(p) => Lone(F[k + 1])}
<1>1. IsPath(p)
  BY DEF CanRead
<1>2. LeadsOn(v, p, F)
  BY <1>1, AlongLeadsOn
<1>3. 0 \in T
  BY <1>2, FieldIsLone DEF LeadsOn
<1>4. ASSUME NEW k \in Nat, k \in T PROVE k + 1 \in T
  <2>1. ASSUME k + 2 <= Len(p) PROVE Lone(F[k + 2])
    <3>1. k + 1 \in 1..(Len(p) - 1) /\ (k + 1) + 1 = k + 2 /\ k + 1 <= Len(p)
      BY <1>2, <2>1 DEF LeadsOn
    <3>2. F[k + 2] = UNION {Ids!Field(x, p[k + 2]) : x \in F[k + 1]}
      BY <1>2, <3>1 DEF LeadsOn
    <3>3. Lone(F[k + 1])
      BY <1>4, <3>1
    <3> QED
      BY <3>2, <3>3, FieldIsLone DEF Lone
  <2>2. (k + 1) + 1 = k + 2
    OBVIOUS
  <2> QED
    BY <2>1, <2>2
<1> HIDE DEF T
<1>5. \A k \in Nat : k \in T
  BY <1>3, <1>4, SetInduction
<1>6. ASSUME NEW k \in 1..Len(p) PROVE Sound(F[k])
  <2>1. k - 1 \in Nat /\ (k - 1) + 1 = k /\ k <= Len(p)
    BY <1>2 DEF LeadsOn
  <2>2. Lone(F[k])
    BY <1>5, <2>1 DEF T
  <2>3. \A x \in F[k] : Ids!IsValue(x)
    BY <1>1, ReadBefore DEF CanRead
  <2> QED
    BY <2>2, <2>3 DEF Sound
<1> QED
  BY <1>6

\* An object is opened, and nothing is found in what is none.
LEMMA OpenedReads ==
  ASSUME NEW S, Sound(S)
  PROVE  /\ IsMapping(Opened(S))
         /\ \A part : Ids!Field(Opened(S), part) = UNION {Ids!Field(x, part) : x \in S}
<1>1. CASE \E o \in S : o.kind = "map"
  <2>1. PICK o \in S : o.kind = "map"
    BY <1>1
  <2>2. S = {o} /\ Ids!IsValue(o)
    BY <2>1 DEF Sound, Lone
  <2>3. Opened(S) = o
    BY <1>1, <2>2 DEF Opened
  <2> QED
    BY <2>1, <2>2, <2>3 DEF IsMapping
<1>2. CASE ~\E o \in S : o.kind = "map"
  <2>1. Opened(S) = Ids!Object(<<>>)
    BY <1>2 DEF Opened
  <2>2. IsMapping(Ids!Object(<<>>)) /\ Ids!Object(<<>>).fields = <<>>
    BY DEF IsMapping, Ids!IsValue, Ids!Object, Ids!Value
  <2>3. \A part : Ids!Field(Ids!Object(<<>>), part) = {}
    BY <2>2 DEF Ids!Field
  <2>4. \A part : \A x \in S : Ids!Field(x, part) = {}
    BY <1>2 DEF Ids!Field
  <2> QED
    BY <2>1, <2>2, <2>3, <2>4
<1> QED
  BY <1>1, <1>2

\* The objects that are opened read what is found on the way.
LEMMA OpensAlong ==
  ASSUME NEW v, NEW p, CanRead(v, p), NEW F, Along(v, p, F), NEW O, Opens(v, p, O)
  PROVE  /\ O[1] = v
         /\ \A k \in 1..(Len(p) - 1) : O[k + 1] = Opened(F[k])
         /\ \A k \in 1..Len(p) : IsMapping(O[k])
<1> DEFINE n == Len(p)
           T == {k \in Nat : k + 1 <= n => IsMapping(O[k + 1]) /\ Ids!Field(O[k + 1], p[k + 1]) = F[k + 1]}
<1>1. IsPath(p) /\ IsMapping(v)
  BY DEF CanRead
<1>2. LeadsOn(v, p, F) /\ \A k \in 1..n : Sound(F[k])
  BY <1>1, AlongLeadsOn, AlongIsSound
<1>3. n \in Nat \ {0} /\ F[1] = Ids!Field(v, p[1])
      /\ \A k \in 1..(n - 1) : F[k + 1] = UNION {Ids!Field(x, p[k + 1]) : x \in F[k]}
  BY <1>2 DEF LeadsOn
<1> HIDE DEF n
<1>4. \A k \in 1..n : O[k] = Opening(v, p, O, k)
  BY DEF Opens, n
<1>5. O[1] = v
  BY <1>3, <1>4 DEF Opening
<1>6. ASSUME NEW k \in 1..(n - 1) PROVE O[k + 1] = Opened(Ids!Field(O[k], p[k]))
  <2>1. k + 1 \in 1..n /\ k + 1 # 1 /\ (k + 1) - 1 = k
    BY <1>3
  <2>2. O[k + 1] = Opening(v, p, O, k + 1)
    BY <1>4, <2>1
  <2> QED
    BY <2>1, <2>2 DEF Opening
<1>7. 0 \in T
  BY <1>1, <1>3, <1>5
<1>8. ASSUME NEW k \in Nat, k \in T PROVE k + 1 \in T
  <2>1. ASSUME k + 2 <= n
        PROVE  IsMapping(O[k + 2]) /\ Ids!Field(O[k + 2], p[k + 2]) = F[k + 2]
    <3>1. k + 1 \in 1..(n - 1) /\ k + 1 \in 1..n /\ (k + 1) + 1 = k + 2 /\ k + 1 <= n
      BY <1>3, <2>1
    <3>2. O[k + 2] = Opened(F[k + 1])
      BY <1>6, <1>8, <3>1
    <3>3. Sound(F[k + 1])
      BY <1>2, <3>1 DEF n
    <3>4. F[k + 2] = UNION {Ids!Field(x, p[k + 2]) : x \in F[k + 1]}
      BY <1>3, <3>1
    <3> QED
      BY <3>2, <3>3, <3>4, OpenedReads
  <2>2. (k + 1) + 1 = k + 2
    OBVIOUS
  <2> QED
    BY <2>1, <2>2
<1> HIDE DEF T
<1>9. \A k \in Nat : k \in T
  BY <1>7, <1>8, SetInduction
<1>10. ASSUME NEW k \in 1..n PROVE IsMapping(O[k]) /\ Ids!Field(O[k], p[k]) = F[k]
  <2>1. k - 1 \in Nat /\ (k - 1) + 1 = k /\ k <= n
    BY <1>3
  <2> QED
    BY <1>9, <2>1 DEF T
<1>11. \A k \in 1..(n - 1) : k \in 1..n
  BY <1>3
<1> QED
  BY <1>5, <1>6, <1>10, <1>11 DEF n

-----------------------------------------------------------------------------
(* What is read after something has been written. *)

\* Part k of what is made leads to the next one, and other fields stay.
LeadsThere(p, x, O, M, k) ==
  /\ IsMapping(M[k])
  /\ Ids!Field(M[k], p[k]) = {IF k = Len(p) THEN x ELSE M[k + 1]}
  /\ \A part : part # p[k] => Ids!Field(M[k], part) = Ids!Field(O[k], part)

\* Every part does.
LEMMA MadeReads ==
  ASSUME NEW v, NEW p, CanRead(v, p), NEW O, Opens(v, p, O), NEW x, NEW M, Makes(p, x, O, M)
  PROVE  \A k \in 1..Len(p) : LeadsThere(p, x, O, M, k)
<1>1. IsPath(p)
  BY DEF CanRead
<1>2. PICK F : Along(v, p, F)
  BY <1>1, AlongExists
<1>3. \A k \in 1..Len(p) : IsMapping(O[k])
  BY <1>2, OpensAlong
<1>4. SUFFICES ASSUME NEW k \in 1..Len(p) PROVE LeadsThere(p, x, O, M, k)
  OBVIOUS
<1> DEFINE y == IF k = Len(p) THEN x ELSE M[k + 1]
<1>5. M[k] = Ids!Put(O[k], p[k], y)
  BY DEF Makes, Making
<1>6. IsMapping(O[k])
  BY <1>3
<1> HIDE DEF y
<1>7. /\ IsMapping(Ids!Put(O[k], p[k], y))
      /\ Ids!Field(Ids!Put(O[k], p[k], y), p[k]) = {y}
      /\ \A other : other # p[k] => Ids!Field(Ids!Put(O[k], p[k], y), other) = Ids!Field(O[k], other)
  BY <1>6, PutIntoObject
<1>8. IsMapping(M[k]) /\ Ids!Field(M[k], p[k]) = {y}
  BY <1>5, <1>7
<1>9. \A part : part # p[k] => Ids!Field(M[k], part) = Ids!Field(O[k], part)
  BY <1>5, <1>7, Zenon
<1> QED
  BY <1>8, <1>9 DEF LeadsThere, y

\* What has been written is found, below objects.
LEMMA WrittenIsFound ==
  ASSUME NEW v, NEW p, CanRead(v, p), NEW O, Opens(v, p, O), NEW x, NEW M, Makes(p, x, O, M),
         NEW G, Along(M[1], p, G)
  PROVE  \A k \in 1..Len(p) : G[k] = {IF k = Len(p) THEN x ELSE M[k + 1]}
<1> DEFINE n == Len(p)
           y(k) == IF k = n THEN x ELSE M[k + 1]
           T == {k \in Nat : k + 1 <= n => G[k + 1] = {y(k + 1)}}
<1>0. \A k \in 1..Len(p) :
         /\ IsMapping(M[k])
         /\ Ids!Field(M[k], p[k]) = {IF k = Len(p) THEN x ELSE M[k + 1]}
         /\ \A part : part # p[k] => Ids!Field(M[k], part) = Ids!Field(O[k], part)
  <2>1. \A k \in 1..Len(p) : LeadsThere(p, x, O, M, k)
    BY MadeReads
  <2> QED
    BY <2>1 DEF LeadsThere
<1>1. IsPath(p)
  BY DEF CanRead
<1>2. LeadsOn(M[1], p, G)
  BY <1>1, AlongLeadsOn
<1>3. /\ n \in Nat \ {0} /\ G[1] = Ids!Field(M[1], p[1])
      /\ \A k \in 1..(n - 1) : G[k + 1] = UNION {Ids!Field(z, p[k + 1]) : z \in G[k]}
  BY <1>2 DEF LeadsOn
<1>4. \A k \in 1..n : Ids!Field(M[k], p[k]) = {y(k)}
  BY <1>0
<1> HIDE DEF n
<1>5. 0 \in T
  BY <1>3, <1>4
<1>6. ASSUME NEW k \in Nat, k \in T PROVE k + 1 \in T
  <2>1. ASSUME k + 2 <= n PROVE G[k + 2] = {y(k + 2)}
    <3>1. k + 1 \in 1..(n - 1) /\ k + 2 \in 1..n /\ k + 1 <= n /\ (k + 1) + 1 = k + 2 /\ k + 1 # n
      BY <1>3, <2>1
    <3>2. G[k + 1] = {M[k + 2]}
      BY <1>6, <3>1
    <3>3. G[k + 2] = UNION {Ids!Field(z, p[k + 2]) : z \in G[k + 1]}
      BY <1>3, <3>1
    <3>4. Ids!Field(M[k + 2], p[k + 2]) = {y(k + 2)}
      BY <1>4, <3>1
    <3> HIDE DEF y
    <3> QED
      BY <3>2, <3>3, <3>4
  <2>2. (k + 1) + 1 = k + 2
    OBVIOUS
  <2> QED
    BY <2>1, <2>2
<1> HIDE DEF T
<1>7. \A k \in Nat : k \in T
  BY <1>5, <1>6, SetInduction
<1>8. ASSUME NEW k \in 1..n PROVE G[k] = {y(k)}
  <2>1. k - 1 \in Nat /\ (k - 1) + 1 = k /\ k <= n
    BY <1>3
  <2> QED
    BY <1>7, <2>1 DEF T
<1> QED
  BY <1>8 DEF n

\* What is written is found.
LEMMA ForcedIsFound ==
  ASSUME NEW v, NEW p, CanRead(v, p), NEW x
  PROVE  IsMapping(Ids!Forced(v, p, x)) /\ Ids!FieldAt(Ids!Forced(v, p, x), p) = {x}
<1>1. IsPath(p)
  BY DEF CanRead
<1>2. PICK O : Opens(v, p, O) /\ \E M : Makes(p, x, O, M) /\ Ids!Forced(v, p, x) = M[1]
  BY <1>1, ForcedIsMade
<1>3. PICK M : Makes(p, x, O, M) /\ Ids!Forced(v, p, x) = M[1]
  BY <1>2
<1>4. PICK G : Along(M[1], p, G)
  BY <1>1, AlongExists
<1>5. Len(p) \in Nat \ {0}
  BY <1>1 DEF IsPath
<1>6. IsMapping(M[1])
  BY <1>2, <1>3, <1>5, MadeReads DEF LeadsThere
<1>7. G[Len(p)] = {x}
  BY <1>2, <1>3, <1>4, <1>5, WrittenIsFound
<1> QED
  BY <1>1, <1>3, <1>4, <1>6, <1>7, ReadAlong

\* p is the beginning of q.
LEMMA BelowBegins ==
  ASSUME NEW q, IsPath(q), NEW p, IsPath(p), Ids!Below(q, p)
  PROVE  Len(p) \in 1..Len(q) /\ Len(p) < Len(q) /\ p = SubSeq(q, 1, Len(p))
BY DEF Ids!Below, IsPath

\* Below what is no object, nothing is found.
LEMMA FoundBelow ==
  ASSUME NEW v, NEW q, IsPath(q), NEW p, IsPath(p), Ids!Below(q, p), Ids!FieldAt(v, q) # {}
  PROVE  \E y \in Ids!FieldAt(v, p) : y.kind = "map"
<1> DEFINE n == Len(p)
<1>1. n \in 1..Len(q) /\ n < Len(q) /\ p = SubSeq(q, 1, n)
  BY BelowBegins
<1>2. PICK F : Along(v, q, F)
  BY AlongExists
<1>3. Ids!FieldAt(v, p) = F[n]
  <2>1. Ids!FieldAt(v, SubSeq(q, 1, n)) = F[n]
    BY <1>1, <1>2, ReadBefore
  <2> QED
    BY <1>1, <2>1
<1>4. Ids!FieldAt(v, q) = F[Len(q)]
  BY <1>2, ReadAlong
<1>5. LeadsOn(v, q, F)
  BY <1>2, AlongLeadsOn
<1>6. Len(q) \in Nat /\ \A k \in 1..(Len(q) - 1) : F[k + 1] = UNION {Ids!Field(x, q[k + 1]) : x \in F[k]}
  BY <1>5 DEF LeadsOn
<1> HIDE DEF n
<1>7. SUFFICES ASSUME \A y \in F[n] : y.kind # "map" PROVE FALSE
  BY <1>3
<1> DEFINE T == {k \in Nat : n + 1 + k <= Len(q) => F[n + 1 + k] = {}}
<1>8. 0 \in T
  <2>1. n \in 1..(Len(q) - 1) /\ n + 1 + 0 = n + 1
    BY <1>1, <1>6
  <2>2. F[n + 1] = UNION {Ids!Field(x, q[n + 1]) : x \in F[n]}
    BY <1>6, <2>1
  <2>3. \A x \in F[n] : Ids!Field(x, q[n + 1]) = {}
    BY <1>7 DEF Ids!Field
  <2> QED
    BY <2>1, <2>2, <2>3
<1>9. ASSUME NEW k \in Nat, k \in T PROVE k + 1 \in T
  <2>1. ASSUME n + 1 + (k + 1) <= Len(q) PROVE F[n + 1 + (k + 1)] = {}
    <3>1. n + 1 + k \in 1..(Len(q) - 1) /\ n + 1 + k <= Len(q) /\ (n + 1 + k) + 1 = n + 1 + (k + 1)
      BY <1>1, <1>6, <2>1
    <3>2. F[(n + 1 + k) + 1] = UNION {Ids!Field(x, q[(n + 1 + k) + 1]) : x \in F[n + 1 + k]}
      BY <1>6, <3>1
    <3>3. F[n + 1 + k] = {}
      BY <1>9, <3>1
    <3> QED
      BY <3>1, <3>2, <3>3
  <2> QED
    BY <2>1
<1> HIDE DEF T
<1>10. \A k \in Nat : k \in T
  BY <1>8, <1>9, SetInduction
<1>11. Len(q) - (n + 1) \in Nat /\ n + 1 + (Len(q) - (n + 1)) = Len(q)
  BY <1>1, <1>6
<1>12. F[Len(q)] = {}
  <2>1. Len(q) - (n + 1) \in T
    BY <1>10, <1>11
  <2> QED
    BY <1>6, <1>11, <2>1 DEF T
<1> QED
  BY <1>4, <1>12

\* Two paths part after their first c parts.
Parting(p, q, c) ==
  /\ c \in Nat /\ c < Len(p) /\ c < Len(q)
  /\ \A k \in 1..c : p[k] = q[k]
  /\ p[c + 1] # q[c + 1]

\* Paths, none of which is the beginning of the other, part somewhere.
LEMMA PathsPart ==
  ASSUME NEW p, IsPath(p), NEW q, IsPath(q), p # q, ~Ids!Below(p, q), ~Ids!Below(q, p)
  PROVE  \E c : Parting(p, q, c)
<1> DEFINE n == IF Len(p) <= Len(q) THEN Len(p) ELSE Len(q)
           D == {k \in 1..n : p[k] # q[k]}
<1>1. Len(p) \in Nat /\ Len(q) \in Nat /\ n \in Nat /\ n <= Len(p) /\ n <= Len(q) /\ (n = Len(p) \/ n = Len(q))
  BY DEF IsPath
<1>2. D # {}
  <2>1. SUFFICES ASSUME \A k \in 1..n : p[k] = q[k] PROVE FALSE
    OBVIOUS
  <2>2. CASE Len(p) = Len(q)
    <3>1. \A k \in 1..Len(p) : p[k] = q[k]
      BY <1>1, <2>1, <2>2
    <3> QED
      BY <2>2, <3>1, SeqEqual DEF IsPath
  <2>3. CASE Len(p) > Len(q)
    <3>1. n = Len(q)
      BY <1>1, <2>3
    <3>2. SubSeq(p, 1, Len(q)) = q
      BY <1>1, <2>1, <2>3, <3>1, SeqEqual DEF IsPath
    <3> QED
      BY <2>3, <3>2 DEF Ids!Below
  <2>4. CASE Len(q) > Len(p)
    <3>1. n = Len(p)
      BY <1>1, <2>4
    <3>2. SubSeq(q, 1, Len(p)) = p
      BY <1>1, <2>1, <2>4, <3>1, SeqEqual DEF IsPath
    <3> QED
      BY <2>4, <3>2 DEF Ids!Below
  <2> QED
    BY <1>1, <2>2, <2>3, <2>4
<1> HIDE DEF n
<1>3. D \subseteq Nat
  BY <1>1
<1>4. PICK d \in D : \A k \in D : d <= k
  BY <1>2, <1>3, LeastNatural
<1>5. d - 1 \in Nat /\ d - 1 < Len(p) /\ d - 1 < Len(q) /\ (d - 1) + 1 = d /\ p[d] # q[d]
  BY <1>1, <1>4
<1>6. \A k \in 1..(d - 1) : p[k] = q[k]
  BY <1>1, <1>4
<1>7. Parting(p, q, d - 1)
  BY <1>5, <1>6 DEF Parting
<1> QED
  BY <1>7

\* What is beside the path that is written stays as it is.
LEMMA BesideStays ==
  ASSUME NEW v, NEW p, CanRead(v, p), NEW x, NEW q, IsPath(q), p # q, ~Ids!Below(p, q), ~Ids!Below(q, p)
  PROVE  Ids!FieldAt(Ids!Forced(v, p, x), q) = Ids!FieldAt(v, q)
<1>1. IsPath(p)
  BY DEF CanRead
<1>2. PICK O : Opens(v, p, O) /\ \E M : Makes(p, x, O, M) /\ Ids!Forced(v, p, x) = M[1]
  BY <1>1, ForcedIsMade
<1>3. PICK M : Makes(p, x, O, M) /\ Ids!Forced(v, p, x) = M[1]
  BY <1>2
<1>4. PICK c : Parting(p, q, c)
  BY <1>1, PathsPart
<1>5. PICK P : Along(v, p, P)
  BY <1>1, AlongExists
<1>6. PICK Q : Along(v, q, Q)
  BY AlongExists
<1>7. PICK W : Along(M[1], p, W)
  BY <1>1, AlongExists
<1>8. PICK R : Along(M[1], q, R)
  BY AlongExists
<1>9. c \in Nat /\ c < Len(p) /\ c < Len(q) /\ c <= Len(p) /\ c <= Len(q) /\ Len(p) \in Nat /\ Len(q) \in Nat
  BY <1>1, <1>4 DEF Parting, IsPath
<1>10. p[c + 1] # q[c + 1]
  BY <1>4 DEF Parting
<1>101. \A k \in 1..c : p[k] = q[k]
  BY <1>4 DEF Parting
<1>11. \A k \in 1..c : P[k] = Q[k]
  BY <1>1, <1>5, <1>6, <1>9, <1>101, AlongTheSame
<1>12. \A k \in 1..c : W[k] = R[k]
  BY <1>1, <1>7, <1>8, <1>9, <1>101, AlongTheSame
<1>13. LeadsOn(v, q, Q) /\ LeadsOn(M[1], q, R)
  BY <1>6, <1>8, AlongLeadsOn
<1>14. Q[1] = Ids!Field(v, q[1]) /\ R[1] = Ids!Field(M[1], q[1])
  BY <1>13 DEF LeadsOn
<1>15. \A k \in 1..(Len(q) - 1) : Q[k + 1] = UNION {Ids!Field(z, q[k + 1]) : z \in Q[k]}
  BY <1>13 DEF LeadsOn
<1>16. \A k \in 1..(Len(q) - 1) : R[k + 1] = UNION {Ids!Field(z, q[k + 1]) : z \in R[k]}
  BY <1>13 DEF LeadsOn
<1>17. O[1] = v /\ \A k \in 1..(Len(p) - 1) : O[k + 1] = Opened(P[k])
  BY <1>2, <1>5, OpensAlong
<1>18. Ids!Field(M[c + 1], q[c + 1]) = Ids!Field(O[c + 1], q[c + 1])
  <2>1. \A k \in 1..Len(p) :
           /\ IsMapping(M[k])
           /\ Ids!Field(M[k], p[k]) = {IF k = Len(p) THEN x ELSE M[k + 1]}
           /\ \A part : part # p[k] => Ids!Field(M[k], part) = Ids!Field(O[k], part)
    BY <1>2, <1>3, MadeReads DEF LeadsThere
  <2>2. c + 1 \in 1..Len(p)
    BY <1>9
  <2>3. \A part : part # p[c + 1] => Ids!Field(M[c + 1], part) = Ids!Field(O[c + 1], part)
    BY <2>1, <2>2
  <2> QED
    BY <1>10, <2>3
<1>19. R[c + 1] = Q[c + 1]
  <2>1. CASE c = 0
    <3>1. c + 1 = 1
      BY <2>1
    <3> QED
      BY <1>14, <1>17, <1>18, <3>1
  <2>2. CASE c # 0
    <3>1. c \in 1..(Len(q) - 1) /\ c \in 1..(Len(p) - 1) /\ c \in 1..c /\ c \in 1..Len(p) /\ c # Len(p)
      BY <1>9, <2>2
    <3>2. \A k \in 1..Len(p) : W[k] = {IF k = Len(p) THEN x ELSE M[k + 1]}
      BY <1>2, <1>3, <1>7, WrittenIsFound
    <3>3. R[c] = {M[c + 1]}
      BY <1>12, <3>1, <3>2
    <3>4. R[c + 1] = Ids!Field(M[c + 1], q[c + 1])
      <4>1. R[c + 1] = UNION {Ids!Field(z, q[c + 1]) : z \in R[c]}
        BY <1>16, <3>1
      <4> QED
        BY <3>3, <4>1
    <3>5. Sound(P[c])
      BY <1>5, <3>1, AlongIsSound
    <3>6. O[c + 1] = Opened(P[c]) /\ P[c] = Q[c]
      BY <1>11, <1>17, <3>1
    <3>7. \A part : Ids!Field(Opened(P[c]), part) = UNION {Ids!Field(z, part) : z \in P[c]}
      BY <3>5, OpenedReads
    <3>8. Ids!Field(Opened(P[c]), q[c + 1]) = UNION {Ids!Field(z, q[c + 1]) : z \in P[c]}
      BY <3>7
    <3>9. Q[c + 1] = UNION {Ids!Field(z, q[c + 1]) : z \in Q[c]}
      BY <1>15, <3>1
    <3> QED
      BY <1>18, <3>4, <3>6, <3>8, <3>9
  <2> QED
    BY <2>1, <2>2
<1> DEFINE T == {k \in Nat : c + 1 + k <= Len(q) => R[c + 1 + k] = Q[c + 1 + k]}
<1>20. 0 \in T
  BY <1>9, <1>19
<1>21. ASSUME NEW k \in Nat, k \in T PROVE k + 1 \in T
  <2>1. ASSUME c + 1 + (k + 1) <= Len(q) PROVE R[c + 1 + (k + 1)] = Q[c + 1 + (k + 1)]
    <3>1. c + 1 + k \in 1..(Len(q) - 1) /\ c + 1 + k <= Len(q) /\ (c + 1 + k) + 1 = c + 1 + (k + 1)
      BY <1>9, <2>1
    <3>2. R[(c + 1 + k) + 1] = UNION {Ids!Field(z, q[(c + 1 + k) + 1]) : z \in R[c + 1 + k]}
      BY <1>16, <3>1
    <3>3. Q[(c + 1 + k) + 1] = UNION {Ids!Field(z, q[(c + 1 + k) + 1]) : z \in Q[c + 1 + k]}
      BY <1>15, <3>1
    <3>4. R[c + 1 + k] = Q[c + 1 + k]
      BY <1>21, <3>1
    <3> QED
      BY <3>1, <3>2, <3>3, <3>4
  <2> QED
    BY <2>1
<1> HIDE DEF T
<1>22. \A k \in Nat : k \in T
  BY <1>20, <1>21, SetInduction
<1>23. R[Len(q)] = Q[Len(q)]
  <2>1. Len(q) - (c + 1) \in Nat /\ c + 1 + (Len(q) - (c + 1)) = Len(q) /\ Len(q) <= Len(q)
    BY <1>9
  <2>2. Len(q) - (c + 1) \in T
    BY <1>22, <2>1
  <2> QED
    BY <2>1, <2>2 DEF T
<1> QED
  BY <1>3, <1>6, <1>8, <1>23, ReadAlong

\* A value that is found after a text has been written is a value still.
LEMMA FoundIsValue ==
  ASSUME NEW v, NEW p, CanRead(v, p), NEW x, Ids!IsValue(x), x.kind # "map",
         NEW q, IsPath(q), \A y \in Ids!FieldAt(v, q) : Ids!IsValue(y)
  PROVE  \A y \in Ids!FieldAt(Ids!Forced(v, p, x), q) : Ids!IsValue(y)
<1> DEFINE m == Ids!Forced(v, p, x)
<1>1. IsPath(p)
  BY DEF CanRead
<1>2. IsMapping(m) /\ Ids!FieldAt(m, p) = {x}
  BY ForcedIsFound
<1>3. CASE p = q
  BY <1>2, <1>3
<1>4. CASE p # q /\ ~Ids!Below(p, q) /\ ~Ids!Below(q, p)
  <2>1. Ids!FieldAt(m, q) = Ids!FieldAt(v, q)
    BY <1>4, BesideStays
  <2> QED
    BY <2>1
<1> HIDE DEF m
<1>5. CASE Ids!Below(q, p)
  <2>1. Ids!FieldAt(m, q) # {} => \E y \in Ids!FieldAt(m, p) : y.kind = "map"
    BY <1>1, <1>5, FoundBelow
  <2> QED
    BY <1>2, <2>1 DEF m
<1>6. CASE Ids!Below(p, q)
  <2>1. PICK O : Opens(v, p, O) /\ \E M : Makes(p, x, O, M) /\ Ids!Forced(v, p, x) = M[1]
    BY <1>1, ForcedIsMade
  <2>2. PICK M : Makes(p, x, O, M) /\ Ids!Forced(v, p, x) = M[1]
    BY <2>1
  <2>3. PICK G : Along(M[1], p, G)
    BY <1>1, AlongExists
  <2>4. Len(q) \in 1..Len(p) /\ Len(q) < Len(p) /\ q = SubSeq(p, 1, Len(q))
    BY <1>1, <1>6, BelowBegins
  <2>5. Ids!FieldAt(M[1], q) = G[Len(q)]
    <3>1. Ids!FieldAt(M[1], SubSeq(p, 1, Len(q))) = G[Len(q)]
      BY <1>1, <2>3, <2>4, ReadBefore
    <3> QED
      BY <2>4, <3>1
  <2>6. \A k \in 1..Len(p) : G[k] = {IF k = Len(p) THEN x ELSE M[k + 1]}
    BY <2>1, <2>2, <2>3, WrittenIsFound
  <2>7. Len(p) \in Nat /\ Len(q) + 1 \in 1..Len(p) /\ Len(q) # Len(p)
    BY <1>1, <2>4 DEF IsPath
  <2>8. G[Len(q)] = {M[Len(q) + 1]}
    BY <2>4, <2>6, <2>7
  <2>9. IsMapping(M[Len(q) + 1])
    BY <2>1, <2>2, <2>7, MadeReads DEF LeadsThere
  <2> QED
    BY <2>2, <2>5, <2>8, <2>9 DEF IsMapping, m
<1> QED
  BY <1>3, <1>4, <1>5, <1>6 DEF m

\* A payload that a text is written into can be read as before.
LEMMA StillReadable ==
  ASSUME NEW v, NEW p, CanRead(v, p), NEW x, Ids!IsValue(x), x.kind # "map", NEW q, CanRead(v, q)
  PROVE  CanRead(Ids!Forced(v, p, x), q)
<1> DEFINE m == Ids!Forced(v, p, x)
<1>1. IsMapping(m) /\ IsPath(q)
  BY ForcedIsFound DEF CanRead
<1>2. ASSUME NEW k \in 1..Len(q) PROVE \A y \in Ids!FieldAt(m, SubSeq(q, 1, k)) : Ids!IsValue(y)
  <2> DEFINE b == SubSeq(q, 1, k)
  <2>1. b \in Seq(STRING) /\ Len(b) = k /\ k # 0
    BY <1>1 DEF IsPath
  <2>2. IsPath(b)
    BY <2>1 DEF IsPath
  <2>3. \A y \in Ids!FieldAt(v, b) : Ids!IsValue(y)
    BY DEF CanRead
  <2> HIDE DEF b
  <2>4. \A y \in Ids!FieldAt(Ids!Forced(v, p, x), b) : Ids!IsValue(y)
    BY <2>2, <2>3, FoundIsValue
  <2> QED
    BY <2>4 DEF b
<1> QED
  BY <1>1, <1>2 DEF CanRead

-----------------------------------------------------------------------------
(* The names of an event. *)

\* A text with anything in it.
IsFilled(t) == t # ""

\* A text that is written down.
LEMMA TextsAreValues ==
  ASSUME NEW t, IsFilled(t)
  PROVE  /\ Ids!IsValue(Ids!Text(t)) /\ Ids!Text(t).kind = "text" /\ Ids!Text(t).text = t
         /\ Ids!Text(t) # Ids!Text("")
BY DEF IsFilled, Ids!IsValue, Ids!Text, Ids!Value

\* What is found at a path is one value, if anything.
LEMMA FoundIsSound ==
  ASSUME NEW v, NEW p, CanRead(v, p)
  PROVE  Sound(Ids!FieldAt(v, p))
<1>1. IsPath(p)
  BY DEF CanRead
<1>2. PICK F : Along(v, p, F)
  BY <1>1, AlongExists
<1>3. Len(p) \in 1..Len(p)
  BY <1>1 DEF IsPath
<1>4. Sound(F[Len(p)])
  BY <1>2, <1>3, AlongIsSound
<1> QED
  BY <1>1, <1>2, <1>4, ReadAlong

\* A text that is found is not empty, and the framework finds it, too, if it prints
\* it alike.
LEMMA TextFound ==
  ASSUME NEW v, NEW p, CanRead(v, p), Ids!StringAt(v, p) # {}
  PROVE  \E t : /\ IsFilled(t) /\ Ids!StringAt(v, p) = {t}
                /\ (\A x \in Ids!FieldAt(v, p) : Ids!SameText(x)) => Ids!PrintedAt(v, p) = {t}
<1>1. Sound(Ids!FieldAt(v, p))
  BY FoundIsSound
<1>2. PICK y \in Ids!FieldAt(v, p) : y.kind # "nil" /\ y # Ids!Text("")
  BY DEF Ids!StringAt
<1>3. Ids!FieldAt(v, p) = {y} /\ Ids!IsValue(y)
  BY <1>1, <1>2 DEF Sound, Lone
<1>4. y.text # "" /\ IsFilled(y.text)
  BY <1>2, <1>3 DEF Ids!IsValue, IsFilled
<1>5. Ids!StringAt(v, p) = {y.text}
  BY <1>2, <1>3, <1>4 DEF Ids!StringAt
<1>6. ASSUME \A x \in Ids!FieldAt(v, p) : Ids!SameText(x)
      PROVE  Ids!PrintedAt(v, p) = {y.text}
  <2>1. Ids!Printed(y) = y.text
    BY <1>2, <1>6 DEF Ids!SameText
  <2> QED
    BY <1>3, <1>4, <2>1 DEF Ids!PrintedAt
<1> QED
  BY <1>4, <1>5, <1>6

\* A text that has been written is found again.
LEMMA WrittenText ==
  ASSUME NEW v, NEW p, CanRead(v, p), NEW t, IsFilled(t)
  PROVE  Ids!StringAt(Ids!Forced(v, p, Ids!Text(t)), p) = {t}
<1> DEFINE x == Ids!Text(t)
           m == Ids!Forced(v, p, x)
<1>1. x.kind = "text" /\ x.text = t /\ x # Ids!Text("")
  BY TextsAreValues
<1> HIDE DEF x
<1>2. Ids!FieldAt(m, p) = {x}
  BY ForcedIsFound
<1> HIDE DEF m
<1>3. Ids!StringAt(m, p) = {t}
  BY <1>1, <1>2 DEF Ids!StringAt
<1> QED
  BY <1>3 DEF x, m

\* What an event is called if its payload m has the correlation id c.
Called(w, m, c) ==
  Ids!Names(IF Ids!StringAt(m, w.messagePath) = {} THEN c ELSE CHOOSE t \in Ids!StringAt(m, w.messagePath) : TRUE, c, m)

\* An event that has a correlation id keeps it.
LEMMA CalledAgain ==
  ASSUME NEW w, NEW m, NEW c, Ids!StringAt(m, w.correlationPath) = {c}, NEW fresh
  PROVE  Ids!Processed(w, m, fresh) = Called(w, m, c)
<1>1. (CHOOSE t \in {c} : TRUE) = c
  OBVIOUS
<1> QED
  BY <1>1 DEF Ids!Processed, Ids!NamedBy, Ids!Found, Called

\* An event that can be named.
CanName(w, m) == CanRead(m, w.messagePath) /\ CanRead(m, w.correlationPath)

\* An event is one that can be named.
LEMMA EventsAreNamed ==
  ASSUME NEW w, NEW payload, Ids!IsEvent(w, payload)
  PROVE  CanName(w, payload)
BY DEF Ids!IsEvent, CanName, CanRead, IsPath, IsMapping

\* An event that is processed has a correlation id then.
LEMMA ProcessedIsCalled ==
  ASSUME NEW w, NEW payload, CanName(w, payload), NEW fresh, IsFilled(fresh)
  PROVE  \E m, c : /\ CanName(w, m) /\ IsFilled(c) /\ Ids!StringAt(m, w.correlationPath) = {c}
                   /\ Ids!Processed(w, payload, fresh) = Called(w, m, c)
<1> DEFINE cp == w.correlationPath
           m == Ids!Forced(payload, cp, Ids!Text(fresh))
<1>1. CASE Ids!StringAt(payload, cp) # {}
  <2>1. PICK t : IsFilled(t) /\ Ids!StringAt(payload, cp) = {t}
    BY <1>1, TextFound DEF CanName
  <2>2. Ids!Processed(w, payload, fresh) = Called(w, payload, t)
    BY <2>1, CalledAgain
  <2> QED
    BY <2>1, <2>2
<1>2. CASE Ids!StringAt(payload, cp) = {}
  <2>1. Ids!StringAt(m, cp) = {fresh}
    <3>1. CanRead(payload, cp)
      BY DEF CanName
    <3> QED
      BY <3>1, WrittenText
  <2>2. Ids!IsValue(Ids!Text(fresh)) /\ Ids!Text(fresh).kind # "map"
    BY TextsAreValues
  <2>3. CanRead(m, w.messagePath) /\ CanRead(m, cp)
    BY <2>2, StillReadable DEF CanName
  <2>4. Ids!Processed(w, payload, fresh) = Called(w, m, fresh)
    BY <1>2 DEF Ids!Processed, Ids!NamedBy, Ids!Found, Called
  <2> QED
    BY <2>1, <2>3, <2>4 DEF CanName
<1> QED
  BY <1>1, <1>2

\* The names that are accepted are those that are processed later.
LEMMA AcceptedIsProcessed ==
  ASSUME NEW w, NEW payload, CanName(w, payload), NEW fresh1, IsFilled(fresh1), NEW fresh2,
         ~Ids!Below(w.messagePath, w.correlationPath),
         NEW a, a = Ids!Accepted(w, payload, fresh1),
         NEW later, later = Ids!Processed(w, a.payload, fresh2)
  PROVE  <<later.message, later.correlation>> = <<a.message, a.correlation>>
<1> DEFINE mp == w.messagePath
           cp == w.correlationPath
<1>1. PICK m, c : /\ CanName(w, m) /\ IsFilled(c) /\ Ids!StringAt(m, cp) = {c}
                  /\ Ids!Processed(w, payload, fresh1) = Called(w, m, c)
  BY ProcessedIsCalled
<1> DEFINE n == Called(w, m, c)
<1>2. n.payload = m /\ n.correlation = c /\ n = Ids!Names(n.message, c, m)
  BY DEF Called, Ids!Names
<1>3. CASE Ids!StringAt(m, mp) # {}
  <2>1. a = n
    BY <1>1, <1>2, <1>3 DEF Ids!Accepted
  <2>2. later = Called(w, m, c)
    <3>1. a.payload = m
      BY <1>2, <2>1
    <3> QED
      BY <1>1, <3>1, CalledAgain
  <2> QED
    BY <2>1, <2>2
<1>4. CASE Ids!StringAt(m, mp) = {}
  <2> DEFINE m2 == Ids!Forced(m, mp, Ids!Text(c))
  <2>1. n.message = c
    BY <1>4 DEF Called, Ids!Names
  <2>2. a = [n EXCEPT !.payload = m2]
    BY <1>1, <1>2, <1>4, <2>1 DEF Ids!Accepted
  <2>3. a.message = c /\ a.correlation = c /\ a.payload = m2
    BY <1>2, <2>1, <2>2 DEF Ids!Names
  <2>4. mp # cp
    BY <1>1, <1>4
  <2>5. Ids!StringAt(m2, mp) = {c}
    <3>1. CanRead(m, mp) /\ IsFilled(c)
      BY <1>1 DEF CanName
    <3> QED
      BY <3>1, WrittenText
  <2>6. ~Ids!Below(cp, mp)
    <3>1. SUFFICES ASSUME Ids!Below(cp, mp) PROVE FALSE
      OBVIOUS
    <3>2. Ids!FieldAt(m, cp) # {} /\ IsPath(mp) /\ IsPath(cp)
      BY <1>1 DEF Ids!StringAt, CanName, CanRead
    <3>3. PICK y \in Ids!FieldAt(m, mp) : y.kind = "map"
      BY <3>1, <3>2, FoundBelow
    <3>4. y # Ids!Text("")
      <4>1. Ids!Text("").kind = "text"
        BY DEF Ids!Text, Ids!Value
      <4> QED
        BY <3>3, <4>1
    <3> QED
      BY <1>4, <3>3, <3>4 DEF Ids!StringAt
  <2>7. Ids!FieldAt(m2, cp) = Ids!FieldAt(m, cp)
    <3>1. CanRead(m, mp) /\ IsPath(cp)
      BY <1>1 DEF CanName, CanRead
    <3> QED
      BY <2>4, <2>6, <3>1, BesideStays
  <2> HIDE DEF m2
  <2>8. Ids!StringAt(m2, cp) = {c}
    BY <1>1, <2>7 DEF Ids!StringAt
  <2>9. later = Called(w, m2, c)
    BY <2>3, <2>8, CalledAgain
  <2>10. later.message = c /\ later.correlation = c
    <3>1. (CHOOSE t \in {c} : TRUE) = c
      OBVIOUS
    <3>2. later = Ids!Names(c, c, m2)
      BY <2>5, <2>9, <3>1 DEF Called
    <3> QED
      BY <3>2 DEF Ids!Names
  <2> QED
    BY <2>3, <2>10
<1> QED
  BY <1>3, <1>4

\* An event with a message id has that name, whoever processes it and prints it alike.
LEMMA OwnNameStays ==
  ASSUME NEW w, NEW payload, CanName(w, payload), Ids!StringAt(payload, w.messagePath) # {},
         ~Ids!Below(w.correlationPath, w.messagePath), NEW byFramework \in BOOLEAN, NEW fresh,
         byFramework => \A x \in Ids!FieldAt(payload, w.messagePath) : Ids!SameText(x)
  PROVE  Ids!NamedBy(byFramework, w, payload, fresh).message
           = CHOOSE t \in Ids!StringAt(payload, w.messagePath) : TRUE
<1> DEFINE mp == w.messagePath
           cp == w.correlationPath
           m == Ids!Forced(payload, cp, Ids!Text(fresh))
           own == CHOOSE t \in Ids!StringAt(payload, mp) : TRUE
<1>1. CanRead(payload, mp) /\ CanRead(payload, cp) /\ IsPath(mp) /\ IsPath(cp)
  BY DEF CanName, CanRead
<1>2. PICK t : /\ IsFilled(t) /\ Ids!StringAt(payload, mp) = {t}
               /\ byFramework => Ids!PrintedAt(payload, mp) = {t}
  BY <1>1, TextFound
<1>3. Ids!Found(byFramework, payload, mp) = Ids!StringAt(payload, mp)
  BY <1>2 DEF Ids!Found
<1>4. CASE Ids!Found(byFramework, payload, cp) # {}
  BY <1>2, <1>3, <1>4 DEF Ids!NamedBy, Ids!Names
<1>5. CASE Ids!Found(byFramework, payload, cp) = {}
  <2>1. mp # cp
    BY <1>2, <1>3, <1>5
  <2>2. ~Ids!Below(mp, cp)
    <3>1. SUFFICES ASSUME Ids!Below(mp, cp) PROVE FALSE
      OBVIOUS
    <3>2. Ids!FieldAt(payload, mp) # {}
      BY <1>2 DEF Ids!StringAt
    <3>3. PICK y \in Ids!FieldAt(payload, cp) : y.kind = "map"
      BY <1>1, <3>1, <3>2, FoundBelow
    <3>4. Ids!IsValue(y) /\ y # Ids!Text("")
      <4>1. Ids!Text("").kind = "text"
        BY DEF Ids!Text, Ids!Value
      <4>2. Sound(Ids!FieldAt(payload, cp))
        BY <1>1, FoundIsSound
      <4> QED
        BY <3>3, <4>1, <4>2 DEF Sound
    <3>5. y.text # "" /\ Ids!Printed(y) = y.text
      BY <3>3, <3>4, Zenon DEF Ids!IsValue, Ids!Printed
    <3> QED
      BY <1>5, <3>3, <3>4, <3>5 DEF Ids!Found, Ids!StringAt, Ids!PrintedAt
  <2>3. Ids!FieldAt(m, mp) = Ids!FieldAt(payload, mp)
    BY <1>1, <2>1, <2>2, BesideStays
  <2> HIDE DEF m
  <2>4. Ids!Found(byFramework, m, mp) = Ids!Found(byFramework, payload, mp)
    BY <2>3 DEF Ids!Found, Ids!StringAt, Ids!PrintedAt
  <2>5. Ids!NamedBy(byFramework, w, payload, fresh).message
          = IF Ids!Found(byFramework, m, mp) = {} THEN fresh ELSE CHOOSE s \in Ids!Found(byFramework, m, mp) : TRUE
    BY <1>5 DEF Ids!NamedBy, Ids!Names, m
  <2> QED
    BY <1>2, <1>3, <2>4, <2>5
<1> QED
  BY <1>4, <1>5

\* Every event is named alike.
LEMMA NamesAreStable ==
  ASSUME NEW w, NEW payload, Ids!IsEvent(w, payload), NEW fresh1, IsFilled(fresh1), NEW fresh2
  PROVE  Ids!StableNames(w, payload, fresh1, fresh2)
<1> DEFINE a == Ids!Accepted(w, payload, fresh1)
           later == Ids!Processed(w, a.payload, fresh2)
<1>1. CanName(w, payload)
  BY EventsAreNamed
<1>2. ASSUME ~Ids!Below(w.messagePath, w.correlationPath)
      PROVE  <<later.message, later.correlation>> = <<a.message, a.correlation>>
  <2>1. a = Ids!Accepted(w, payload, fresh1) /\ later = Ids!Processed(w, a.payload, fresh2)
    OBVIOUS
  <2> HIDE DEF a, later
  <2> QED
    BY <1>1, <1>2, <2>1, AcceptedIsProcessed
<1> DEFINE again == Ids!Processed(w, payload, fresh2).message
<1>3. ASSUME Ids!StringAt(payload, w.messagePath) # {}, ~Ids!Below(w.correlationPath, w.messagePath)
      PROVE  /\ {Ids!Processed(w, payload, fresh1).message, a.message} = {again}
             /\ (\A v \in Ids!FieldAt(payload, w.messagePath) : Ids!SameText(v)) =>
                  Ids!ProcessedByFramework(w, payload, fresh1).message = again
  <2> DEFINE own == CHOOSE t \in Ids!StringAt(payload, w.messagePath) : TRUE
  <2>1. Ids!NamedBy(FALSE, w, payload, fresh1).message = own
    BY <1>1, <1>3, OwnNameStays
  <2>2. Ids!NamedBy(FALSE, w, payload, fresh2).message = own
    BY <1>1, <1>3, OwnNameStays
  <2>3. (\A v \in Ids!FieldAt(payload, w.messagePath) : Ids!SameText(v)) =>
          Ids!NamedBy(TRUE, w, payload, fresh1).message = own
    BY <1>1, <1>3, OwnNameStays
  <2> HIDE DEF own
  <2>4. a.message = Ids!Processed(w, payload, fresh1).message
    <3> DEFINE n == Ids!Processed(w, payload, fresh1)
    <3>0. \E x, y, z : n = Ids!Names(x, y, z)
      BY Zenon DEF Ids!Processed, Ids!NamedBy
    <3> HIDE DEF n
    <3>1. n = Ids!Names(n.message, n.correlation, n.payload)
      BY <3>0 DEF Ids!Names
    <3>2. \A x : [n EXCEPT !.payload = x].message = n.message
      BY <3>1 DEF Ids!Names
    <3> QED
      BY <3>2 DEF Ids!Accepted, n
  <2> QED
    BY <2>1, <2>2, <2>3, <2>4 DEF Ids!Processed, Ids!ProcessedByFramework
<1> HIDE DEF a
<1> QED
  BY <1>2, <1>3 DEF Ids!StableNames, a

\* The same of the events that Spec chooses: the ids an asynchronous request is
\* answered are those its event is processed under, and an event that brings an id is
\* the same message every time, in every entry point that prints the id alike.
THEOREM AcceptedNamesStay == Spec => []AcceptedNamesProcessed
<1>1. ASSUME NEW i \in Of("event") PROVE Ids!StableNames(i.workflow, i.payload, "fresh1", "fresh2")
  <2>1. Ids!IsEvent(i.workflow, i.payload)
    BY EventsAreObjects
  <2>2. IsFilled("fresh1")
    BY DEF IsFilled
  <2> QED
    BY <2>1, <2>2, NamesAreStable
<1>2. ChosenInput => AcceptedNamesProcessed
  BY <1>1 DEF ChosenInput, AcceptedNamesProcessed
<1> QED
  BY <1>2, InputIsChosen, PTL

-----------------------------------------------------------------------------
(* Headers and identifiers of one message. *)

\* A trace context.
Traces == [trace : Nat, span : Nat, parent : Nat]

\* A message, as far as its trace goes.
IsMessage(m) ==
  /\ m = [headers |-> m.headers, trace |-> m.trace, span |-> m.span, parent |-> m.parent,
          fresh |-> m.fresh, spans |-> m.spans]
  /\ Tracing!AreHeaders(m.headers) /\ m.fresh \in Nat /\ m.spans \in Seq(Traces)
  /\ m.trace \in Nat /\ m.span \in Nat /\ m.parent \in Nat

\* m and n differ in their headers only.
SameButHeaders(m, n) ==
  /\ n.trace = m.trace /\ n.span = m.span /\ n.parent = m.parent /\ n.fresh = m.fresh /\ n.spans = m.spans

\* n has the headers of m and those of h over them.
HeadersOver(m, h, n) ==
  /\ DOMAIN n.headers = DOMAIN h \cup DOMAIN m.headers
  /\ \A x \in DOMAIN n.headers : n.headers[x] = IF x \in DOMAIN h THEN h[x] ELSE m.headers[x]

\* Headers over those of a message are headers.
LEMMA WithHeadersIsMessage ==
  ASSUME NEW m, IsMessage(m), NEW h, Tracing!AreHeaders(h)
  PROVE  /\ IsMessage(Tracing!WithHeaders(m, h)) /\ SameButHeaders(m, Tracing!WithHeaders(m, h))
         /\ HeadersOver(m, h, Tracing!WithHeaders(m, h))
<1> DEFINE g == [n \in DOMAIN h \cup DOMAIN m.headers |-> IF n \in DOMAIN h THEN h[n] ELSE m.headers[n]]
           w == Tracing!WithHeaders(m, h)
<1>1. w = [m EXCEPT !.headers = g]
  BY DEF Tracing!WithHeaders
<1>2. DOMAIN g = DOMAIN h \cup DOMAIN m.headers
      /\ \A x \in DOMAIN g : g[x] = IF x \in DOMAIN h THEN h[x] ELSE m.headers[x]
  OBVIOUS
<1>3. Tracing!AreHeaders(m.headers)
  BY DEF IsMessage
<1> HIDE DEF g, w
<1>4. Tracing!AreHeaders(g)
  BY <1>2, <1>3 DEF Tracing!AreHeaders
<1>5. w.headers = g /\ SameButHeaders(m, w)
      /\ w = [headers |-> w.headers, trace |-> w.trace, span |-> w.span, parent |-> w.parent,
              fresh |-> w.fresh, spans |-> w.spans]
  BY <1>1 DEF IsMessage, SameButHeaders
<1> QED
  BY <1>2, <1>4, <1>5 DEF IsMessage, SameButHeaders, HeadersOver, w

\* m shows the trace t.
Shows(m, t) ==
  /\ "traceparent" \in DOMAIN m.headers
  /\ m.headers["traceparent"] = <<t.trace, t.span>>

\* A message shows the trace that is applied to it.
LEMMA ApplyShows ==
  ASSUME NEW m, IsMessage(m), NEW t \in Traces
  PROVE  /\ IsMessage(Tracing!Apply(m, t)) /\ Shows(Tracing!Apply(m, t), t)
         /\ Tracing!Apply(m, t).fresh = m.fresh /\ Tracing!Apply(m, t).spans = m.spans
<1> DEFINE m1 == [m EXCEPT !.trace = t.trace, !.span = t.span, !.parent = t.parent]
           h1 == IF t.parent = 0 THEN <<>> ELSE [parent_span_id |-> t.parent]
           h2 == [traceparent |-> <<t.trace, t.span>>, trace_id |-> t.trace, span_id |-> t.span]
           m2 == Tracing!WithHeaders(m1, h1)
           m3 == Tracing!WithHeaders(m2, h2)
<1>0. t.trace \in Nat /\ t.span \in Nat /\ t.parent \in Nat
  BY DEF Traces
<1>1. Tracing!Apply(m, t) = m3
  BY DEF Tracing!Apply
<1>2. IsMessage(m1) /\ m1.fresh = m.fresh /\ m1.spans = m.spans
  <2>1. m = [headers |-> m.headers, trace |-> m.trace, span |-> m.span, parent |-> m.parent,
             fresh |-> m.fresh, spans |-> m.spans]
    BY DEF IsMessage
  <2>2. m1 = [headers |-> m.headers, trace |-> t.trace, span |-> t.span, parent |-> t.parent,
              fresh |-> m.fresh, spans |-> m.spans]
    <3>1. DOMAIN m = {"headers", "trace", "span", "parent", "fresh", "spans"}
      BY <2>1
    <3>2. DOMAIN m1 = DOMAIN m
      OBVIOUS
    <3>3. /\ m1.headers = m.headers /\ m1.trace = t.trace /\ m1.span = t.span /\ m1.parent = t.parent
          /\ m1.fresh = m.fresh /\ m1.spans = m.spans
      BY <3>1
    <3>4. m1 = [k \in DOMAIN m1 |-> m1[k]]
      OBVIOUS
    <3> HIDE DEF m1
    <3> QED
      BY <3>1, <3>2, <3>3, <3>4
  <2> HIDE DEF m1
  <2> QED
    BY <1>0, <2>2 DEF IsMessage
<1>3. Tracing!AreHeaders(h1)
  BY <1>0 DEF Tracing!AreHeaders
<1>4. Tracing!AreHeaders(h2)
  BY <1>0 DEF Tracing!AreHeaders
<1>5. "traceparent" \in DOMAIN h2 /\ h2["traceparent"] = <<t.trace, t.span>>
  OBVIOUS
<1> HIDE DEF m1, h1, h2
<1>6. IsMessage(m2) /\ SameButHeaders(m1, m2)
  BY <1>2, <1>3, WithHeadersIsMessage
<1> HIDE DEF m2
<1>7. IsMessage(m3) /\ SameButHeaders(m2, m3) /\ HeadersOver(m2, h2, m3)
  BY <1>4, <1>6, WithHeadersIsMessage
<1> HIDE DEF m3
<1>8. Shows(m3, t)
  BY <1>5, <1>7 DEF Shows, HeadersOver
<1>9. m3.fresh = m.fresh /\ m3.spans = m.spans
  BY <1>2, <1>6, <1>7 DEF SameButHeaders
<1> QED
  BY <1>1, <1>7, <1>8, <1>9

\* The first given identifier is one.
LEMMA FirstGivenIsId ==
  ASSUME NEW ids \in Seq(Nat)
  PROVE  Tracing!FirstGiven(ids) \in Nat
<1> DEFINE I == {i \in 1..Len(ids) : ids[i] # 0}
           k == Tracing!SelectInSeq(ids, LAMBDA id : id # 0)
<1>1. k = IF I # {} THEN Tracing!Min(I) ELSE 0
  BY DEF Tracing!SelectInSeq
<1>2. I # {} => Tracing!Min(I) \in I
  <2>1. SUFFICES ASSUME I # {} PROVE Tracing!Min(I) \in I
    OBVIOUS
  <2>2. I \subseteq Nat
    OBVIOUS
  <2> HIDE DEF I
  <2>3. PICK x \in I : \A y \in I : x <= y
    BY <2>1, <2>2, LeastNatural
  <2> QED
    BY <2>3 DEF Tracing!Min
<1>3. Tracing!FirstGiven(ids) = IF k = 0 THEN 0 ELSE ids[k]
  BY DEF Tracing!FirstGiven
<1> HIDE DEF k
<1> QED
  BY <1>1, <1>2, <1>3

\* What single identifiers give is a trace.
LEMMA FromMessageIsTrace ==
  ASSUME NEW m, IsMessage(m)
  PROVE  /\ Tracing!FromMessage(m) \subseteq Traces
         /\ "traceparent" \in DOMAIN m.headers /\ m.headers["traceparent"] # <<>> =>
              Tracing!FromMessage(m) = {Tracing!Trace(m.headers["traceparent"][1], m.headers["traceparent"][2], 0)}
<1>1. Tracing!AreHeaders(m.headers) /\ m.trace \in Nat /\ m.span \in Nat /\ m.parent \in Nat /\ m.fresh \in Nat
  BY DEF IsMessage
<1>2. \A n \in {"traceparent", "Traceparent"} : Tracing!Parsed(m, n) \subseteq Traces
  BY <1>1 DEF Tracing!Parsed, Tracing!Has, Tracing!AreHeaders, Tracing!Trace, Traces
<1>3. \A n : n \notin {"traceparent", "Traceparent"} => Tracing!Header(m, n) \in Nat
  BY <1>1 DEF Tracing!Header, Tracing!Has, Tracing!AreHeaders
<1> DEFINE a == Tracing!FirstGiven(<<m.trace, Tracing!Header(m, "trace_id"), Tracing!Header(m, "X-Trace-ID"), Tracing!Header(m, "x-trace-id")>>)
           b == Tracing!FirstGiven(<<m.span, Tracing!Header(m, "span_id"), m.fresh>>)
           c == Tracing!FirstGiven(<<m.parent, Tracing!Header(m, "parent_span_id")>>)
<1>4. /\ Tracing!Header(m, "trace_id") \in Nat /\ Tracing!Header(m, "X-Trace-ID") \in Nat /\ Tracing!Header(m, "x-trace-id") \in Nat
      /\ Tracing!Header(m, "span_id") \in Nat /\ Tracing!Header(m, "parent_span_id") \in Nat
  BY <1>3
<1>5. a \in Nat /\ b \in Nat /\ c \in Nat
  <2>1. <<m.trace, Tracing!Header(m, "trace_id"), Tracing!Header(m, "X-Trace-ID"), Tracing!Header(m, "x-trace-id")>> \in Seq(Nat)
    BY <1>1, <1>4
  <2>2. <<m.span, Tracing!Header(m, "span_id"), m.fresh>> \in Seq(Nat) /\ <<m.parent, Tracing!Header(m, "parent_span_id")>> \in Seq(Nat)
    BY <1>1, <1>4
  <2> QED
    BY <2>1, <2>2, FirstGivenIsId
<1>6. Tracing!FromMessage(m) = IF Tracing!Parsed(m, "traceparent") # {} THEN Tracing!Parsed(m, "traceparent")
                         ELSE IF Tracing!Parsed(m, "Traceparent") # {} THEN Tracing!Parsed(m, "Traceparent")
                         ELSE IF a = 0 THEN {} ELSE {Tracing!Trace(a, b, c)}
  BY DEF Tracing!FromMessage
<1> HIDE DEF a, b, c
<1>7. Tracing!Trace(a, b, c) \in Traces
  BY <1>5 DEF Tracing!Trace, Traces
<1>8. "traceparent" \in DOMAIN m.headers /\ m.headers["traceparent"] # <<>> =>
        Tracing!Parsed(m, "traceparent") = {Tracing!Trace(m.headers["traceparent"][1], m.headers["traceparent"][2], 0)}
  BY DEF Tracing!Parsed, Tracing!Has
<1> QED
  BY <1>2, <1>6, <1>7, <1>8

\* e has a trace that its message m shows; the message has drawn two identifiers.
Entered(m, e) ==
  /\ e.trace \in Traces /\ IsMessage(e.m) /\ Shows(e.m, e.trace)
  /\ e.m.fresh = m.fresh + 2 /\ e.m.spans = m.spans

\* EnsureTraceContext with the trace of a caller.
LEMMA EnsuredWithin ==
  ASSUME NEW m, IsMessage(m), NEW t \in Traces
  PROVE  Entered(m, Tracing!Ensured({t}, m)) /\ Tracing!Ensured({t}, m).trace = t
<1> DEFINE m1 == [m EXCEPT !.fresh = @ + 2]
           e == [trace |-> t, m |-> Tracing!Apply(m1, t)]
<1>1. (CHOOSE x \in {t} : TRUE) = t
  OBVIOUS
<1>2. Tracing!Ensured({t}, m) = e
  BY <1>1 DEF Tracing!Ensured, Tracing!Current
<1>3. IsMessage(m1) /\ m1.fresh = m.fresh + 2 /\ m1.spans = m.spans
  BY DEF IsMessage
<1> HIDE DEF m1
<1>4. /\ IsMessage(Tracing!Apply(m1, t)) /\ Shows(Tracing!Apply(m1, t), t)
      /\ Tracing!Apply(m1, t).fresh = m1.fresh /\ Tracing!Apply(m1, t).spans = m1.spans
  BY <1>3, ApplyShows
<1>5. Entered(m, e) /\ e.trace = t
  BY <1>3, <1>4 DEF Entered
<1> QED
  BY <1>2, <1>5

\* EnsureTraceContext without one: the message's own, if it has one, or a new one.
LEMMA EnsuredAlone ==
  ASSUME NEW m, IsMessage(m)
  PROVE  /\ Entered(m, Tracing!Ensured({}, m))
         /\ "traceparent" \in DOMAIN m.headers /\ m.headers["traceparent"] # <<>> =>
              /\ Tracing!Ensured({}, m).trace.trace = m.headers["traceparent"][1]
              /\ Tracing!Ensured({}, m).trace.span = m.headers["traceparent"][2]
<1> DEFINE found == Tracing!FromMessage(m)
           m1 == [m EXCEPT !.fresh = @ + 2]
           t == IF found # {} THEN CHOOSE x \in found : TRUE ELSE Tracing!Trace(m.fresh, m.fresh + 1, 0)
           e == [trace |-> t, m |-> Tracing!Apply(m1, t)]
<1>1. Tracing!Ensured({}, m) = e
  BY DEF Tracing!Ensured, Tracing!Current
<1>2. IsMessage(m1) /\ m1.fresh = m.fresh + 2 /\ m1.spans = m.spans
  BY DEF IsMessage
<1>3. found \subseteq Traces
  BY FromMessageIsTrace
<1>4. "traceparent" \in DOMAIN m.headers /\ m.headers["traceparent"] # <<>> =>
        found = {Tracing!Trace(m.headers["traceparent"][1], m.headers["traceparent"][2], 0)}
  BY FromMessageIsTrace
<1>5. Tracing!Trace(m.fresh, m.fresh + 1, 0) \in Traces
  BY DEF Tracing!Trace, Traces, IsMessage
<1> HIDE DEF found, m1
<1>6. t \in Traces
  BY <1>3, <1>5
<1>7. "traceparent" \in DOMAIN m.headers /\ m.headers["traceparent"] # <<>> =>
        t.trace = m.headers["traceparent"][1] /\ t.span = m.headers["traceparent"][2]
  <2>1. SUFFICES ASSUME "traceparent" \in DOMAIN m.headers /\ m.headers["traceparent"] # <<>>
                 PROVE  t.trace = m.headers["traceparent"][1] /\ t.span = m.headers["traceparent"][2]
    OBVIOUS
  <2> DEFINE x == Tracing!Trace(m.headers["traceparent"][1], m.headers["traceparent"][2], 0)
  <2>2. found = {x}
    BY <1>4, <2>1
  <2>3. x.trace = m.headers["traceparent"][1] /\ x.span = m.headers["traceparent"][2]
    BY DEF Tracing!Trace
  <2> HIDE DEF x
  <2>4. t = x
    BY <2>2
  <2> QED
    BY <2>3, <2>4
<1> HIDE DEF t
<1>8. /\ IsMessage(Tracing!Apply(m1, t)) /\ Shows(Tracing!Apply(m1, t), t)
      /\ Tracing!Apply(m1, t).fresh = m1.fresh /\ Tracing!Apply(m1, t).spans = m1.spans
  BY <1>2, <1>6, ApplyShows
<1>9. Entered(m, e) /\ e.trace = t
  BY <1>2, <1>6, <1>8 DEF Entered
<1> HIDE DEF e
<1> QED
  BY <1>1, <1>7, <1>9

\* A call of a handler in the trace t appends a span of its own, below that of t.
SpanOf(m, t) == Tracing!Trace(t.trace, m.fresh + 2, t.span)

\* c is m after a call in the trace t.
HasCalled(m, t, c) ==
  /\ IsMessage(c) /\ c.fresh = m.fresh + 3 /\ Shows(c, SpanOf(m, t))
  /\ c.spans = Append(m.spans, SpanOf(m, t))

\* Call makes one.
LEMMA CallAppends ==
  ASSUME NEW m, IsMessage(m), NEW t \in Traces
  PROVE  HasCalled(m, t, Tracing!Call({t}, m))
<1> DEFINE e == Tracing!Ensured({t}, m)
           s == SpanOf(m, t)
           m1 == [e.m EXCEPT !.fresh = @ + 1]
           a == Tracing!Apply(m1, s)
           c == [a EXCEPT !.spans = Append(@, s)]
<1>1. Entered(m, e) /\ e.trace = t
  BY EnsuredWithin
<1>2. e.m.fresh = m.fresh + 2 /\ IsMessage(e.m) /\ e.m.spans = m.spans
  BY <1>1 DEF Entered
<1>3. Tracing!Trace(e.trace.trace, e.m.fresh, e.trace.span) = s
  BY <1>1, <1>2 DEF SpanOf
<1>4. Tracing!Call({t}, m) = c
  BY <1>3 DEF Tracing!Call
<1>5. s \in Traces
  BY DEF SpanOf, Tracing!Trace, Traces, IsMessage
<1> HIDE DEF e, s
<1>6. IsMessage(m1) /\ m1.fresh = m.fresh + 3 /\ m1.spans = m.spans
  BY <1>2 DEF IsMessage
<1> HIDE DEF m1
<1>7. IsMessage(a) /\ Shows(a, s) /\ a.fresh = m1.fresh /\ a.spans = m1.spans
  BY <1>5, <1>6, ApplyShows
<1> HIDE DEF a
<1>8. Append(a.spans, s) \in Seq(Traces)
  BY <1>5, <1>7 DEF IsMessage
<1>9. IsMessage(c) /\ c.spans = Append(m.spans, s) /\ c.fresh = m.fresh + 3 /\ c.headers = a.headers
  <2>1. c = [headers |-> a.headers, trace |-> a.trace, span |-> a.span, parent |-> a.parent,
             fresh |-> a.fresh, spans |-> Append(a.spans, s)]
    <3>1. a = [headers |-> a.headers, trace |-> a.trace, span |-> a.span, parent |-> a.parent,
               fresh |-> a.fresh, spans |-> a.spans]
      BY <1>7 DEF IsMessage
    <3> QED
      BY <3>1
  <2> HIDE DEF c
  <2> QED
    BY <1>6, <1>7, <1>8, <2>1 DEF IsMessage
<1>10. Shows(c, s)
  BY <1>7, <1>9 DEF Shows
<1> QED
  BY <1>4, <1>9, <1>10 DEF HasCalled, s

\* After k calls of a delivery that entered with trace t and number f.
Ran(t, f, k, m) ==
  /\ IsMessage(m) /\ m.fresh = f + 3 * k /\ Len(m.spans) = k + 1 /\ m.spans[1] = t
  /\ Shows(m, m.spans[k + 1])
  /\ \A i \in 1..k : m.spans[i + 1] = Tracing!Trace(t.trace, f + 3 * (i - 1) + 2, t.span)

\* What Router.Process does with its handlers, one after the other.
Runs(e, n, R) ==
  R = [k \in 0..n |-> IF k = 0 THEN [e.m EXCEPT !.spans = <<e.trace>>] ELSE Tracing!Call({e.trace}, R[k - 1])]

\* There is such a function.
LEMMA RunsExists ==
  ASSUME NEW e, NEW n \in Nat
  PROVE  \E R : Runs(e, n, R)
<1> DEFINE Step(k, F) == IF k = 0 THEN [e.m EXCEPT !.spans = <<e.trace>>] ELSE Tracing!Call({e.trace}, F[k - 1])
           Goes(m, F) == F = [k \in 0..m |-> Step(k, F)]
           A == {m \in Nat : \E F : Goes(m, F)}
<1>1. 0 \in A
  <2> DEFINE F == [k \in 0..0 |-> [e.m EXCEPT !.spans = <<e.trace>>]]
  <2>1. Goes(0, F)
    OBVIOUS
  <2> QED
    BY <2>1
<1>2. ASSUME NEW m \in Nat, m \in A PROVE m + 1 \in A
  <2>1. PICK F : Goes(m, F)
    BY <1>2
  <2> HIDE DEF Step
  <2> DEFINE G == [k \in 0..(m + 1) |-> Step(k, F)]
  <2>2. G = [k \in 0..(m + 1) |-> Step(k, F)]
    OBVIOUS
  <2> HIDE DEF G
  <2>3. \A k \in 0..m : G[k] = F[k]
    <3>1. ASSUME NEW k \in 0..m PROVE G[k] = F[k]
      <4>1. k \in 0..(m + 1)
        OBVIOUS
      <4>2. G[k] = Step(k, F) /\ F[k] = Step(k, F)
        BY <2>1, <2>2, <4>1
      <4> QED
        BY <4>2
    <3> QED
      BY <3>1
  <2>4. \A k \in 0..(m + 1) : Step(k, F) = Step(k, G)
    <3>1. ASSUME NEW k \in 0..(m + 1), k # 0 PROVE F[k - 1] = G[k - 1]
      <4>1. k - 1 \in 0..m
        BY <3>1
      <4> QED
        BY <2>3, <4>1
    <3> QED
      BY <3>1 DEF Step
  <2>5. Goes(m + 1, G)
    BY <2>2, <2>4
  <2> HIDE DEF Goes
  <2> QED
    BY <2>5
<1> HIDE DEF A
<1>3. \A m \in Nat : m \in A
  BY <1>1, <1>2, SetInduction
<1>4. n \in A
  BY <1>3
<1> QED
  BY <1>4 DEF A, Runs

\* Every call of a delivery has a span of its own, below that of its delivery.
LEMMA RunsShow ==
  ASSUME NEW m, IsMessage(m), NEW e, Entered(m, e), NEW n \in Nat, NEW R, Runs(e, n, R)
  PROVE  \A k \in 0..n : Ran(e.trace, m.fresh + 2, k, R[k])
<1> DEFINE t == e.trace
           f == m.fresh + 2
           A == {k \in Nat : k <= n => Ran(t, f, k, R[k])}
<1>1. t \in Traces /\ IsMessage(e.m) /\ Shows(e.m, t) /\ e.m.fresh = f /\ f \in Nat
  BY DEF Entered, IsMessage
<1>2. \A k \in 0..n : R[k] = IF k = 0 THEN [e.m EXCEPT !.spans = <<t>>] ELSE Tracing!Call({t}, R[k - 1])
  BY DEF Runs
<1> HIDE DEF t, f
<1>3. 0 \in A
  <2> DEFINE r == [e.m EXCEPT !.spans = <<t>>]
  <2>1. R[0] = r
    BY <1>2
  <2>2. <<t>> \in Seq(Traces) /\ Len(<<t>>) = 1 /\ <<t>>[1] = t
    BY <1>1
  <2>3. IsMessage(r) /\ r.spans = <<t>> /\ r.fresh = f /\ r.headers = e.m.headers
    <3>1. r = [headers |-> e.m.headers, trace |-> e.m.trace, span |-> e.m.span, parent |-> e.m.parent,
               fresh |-> e.m.fresh, spans |-> <<t>>]
      BY <1>1 DEF IsMessage
    <3> HIDE DEF r
    <3> QED
      BY <1>1, <2>2, <3>1 DEF IsMessage
  <2> HIDE DEF r
  <2>4. Shows(r, t)
    BY <1>1, <2>3 DEF Shows
  <2>5. Ran(t, f, 0, r)
    BY <1>1, <2>2, <2>3, <2>4 DEF Ran
  <2> QED
    BY <2>1, <2>5
<1>4. ASSUME NEW k \in Nat, k \in A PROVE k + 1 \in A
  <2>1. ASSUME k + 1 <= n PROVE Ran(t, f, k + 1, R[k + 1])
    <3> DEFINE a == R[k]
               c == R[k + 1]
               s == SpanOf(a, t)
    <3>1. Ran(t, f, k, a)
      BY <1>4, <2>1
    <3>2. c = Tracing!Call({t}, a)
      <4>1. k + 1 \in 0..n /\ k + 1 # 0 /\ (k + 1) - 1 = k
        BY <2>1
      <4> QED
        BY <1>2, <4>1
    <3> HIDE DEF a, c
    <3>3. IsMessage(a) /\ a.fresh = f + 3 * k /\ Len(a.spans) = k + 1 /\ a.spans[1] = t
      BY <3>1 DEF Ran
    <3>4. \A i \in 1..k : a.spans[i + 1] = Tracing!Trace(t.trace, f + 3 * (i - 1) + 2, t.span)
      BY <3>1 DEF Ran
    <3>5. HasCalled(a, t, Tracing!Call({t}, a))
      BY <1>1, <3>3, CallAppends
    <3>6. IsMessage(c) /\ c.fresh = a.fresh + 3 /\ Shows(c, s) /\ c.spans = Append(a.spans, s)
      BY <3>2, <3>5 DEF HasCalled
    <3>7. s = Tracing!Trace(t.trace, f + 3 * k + 2, t.span)
      BY <3>3 DEF SpanOf
    <3> HIDE DEF s
    <3>8. a.spans \in Seq(Traces)
      BY <3>3 DEF IsMessage
    <3>9. Len(c.spans) = k + 2 /\ c.spans[k + 2] = s /\ \A i \in 1..(k + 1) : c.spans[i] = a.spans[i]
      BY <3>3, <3>6, <3>8
    <3>10. c.spans[1] = t
      BY <3>3, <3>9
    <3>11. ASSUME NEW i \in 1..(k + 1)
           PROVE  c.spans[i + 1] = Tracing!Trace(t.trace, f + 3 * (i - 1) + 2, t.span)
      <4>1. CASE i = k + 1
        BY <3>7, <3>9, <4>1
      <4>2. CASE i # k + 1
        <5>1. i \in 1..k /\ i + 1 \in 1..(k + 1)
          BY <4>2
        <5> QED
          BY <3>4, <3>9, <5>1
      <4> QED
        BY <4>1, <4>2
    <3>12. c.fresh = f + 3 * (k + 1) /\ Len(c.spans) = (k + 1) + 1 /\ Shows(c, c.spans[(k + 1) + 1])
      <4>1. (k + 1) + 1 = k + 2 /\ f + 3 * k + 3 = f + 3 * (k + 1)
        BY <1>1
      <4> QED
        BY <3>3, <3>6, <3>9, <4>1
    <3>13. Ran(t, f, k + 1, c)
      BY <3>6, <3>10, <3>11, <3>12 DEF Ran
    <3> QED
      BY <3>13 DEF c
  <2> QED
    BY <2>1
<1> HIDE DEF A
<1>5. \A k \in Nat : k \in A
  BY <1>3, <1>4, SetInduction
<1> QED
  BY <1>5 DEF A, t, f

-----------------------------------------------------------------------------
(* The deliveries of a message. *)

\* What a delivery that starts with message m makes of it.
LEMMA RunIsRan ==
  ASSUME NEW m, IsMessage(m), NEW n \in Nat
  PROVE  Ran(Tracing!Ensured({}, m).trace, m.fresh + 2, n, Tracing!Run(m, n))
<1> DEFINE e == Tracing!Ensured({}, m)
           R == CHOOSE R : R = [k \in 0..n |->
                  IF k = 0 THEN [e.m EXCEPT !.spans = <<e.trace>>] ELSE Tracing!Call({e.trace}, R[k - 1])]
<1>1. Tracing!Run(m, n) = R[n]
  BY DEF Tracing!Run
<1>2. Entered(m, e)
  BY EnsuredAlone
<1> HIDE DEF e
<1>3. Runs(e, n, R)
  <2>1. \E F : F = [k \in 0..n |->
                 IF k = 0 THEN [e.m EXCEPT !.spans = <<e.trace>>] ELSE Tracing!Call({e.trace}, F[k - 1])]
    BY RunsExists DEF Runs
  <2> QED
    BY <2>1 DEF Runs
<1> HIDE DEF R
<1>4. n \in 0..n
  OBVIOUS
<1>5. Ran(e.trace, m.fresh + 2, n, R[n])
  BY <1>2, <1>3, <1>4, RunsShow
<1> QED
  BY <1>1, <1>5 DEF e

\* A delivery's headers are put over those of the message.
LEMMA ReceivedIsMessage ==
  ASSUME NEW m, IsMessage(m), NEW h, Tracing!AreHeaders(h)
  PROVE  /\ IsMessage(Tracing!Received(m, h)) /\ Tracing!Received(m, h).fresh = m.fresh
         /\ HeadersOver(m, h, Tracing!Received(m, h))
<1> DEFINE w == Tracing!WithHeaders(m, h)
           trace == Tracing!FirstGiven(<<Tracing!Header(w, "trace_id"), Tracing!Header(w, "x-trace-id"), Tracing!Header(w, "X-Trace-ID")>>)
           has == Tracing!Has(w, "traceparent") /\ Tracing!Header(w, "traceparent") # <<>>
           r1 == [w EXCEPT !.trace = w.headers["traceparent"][1], !.span = w.headers["traceparent"][2]]
           r2 == [w EXCEPT !.trace = trace]
<1>1. IsMessage(w) /\ SameButHeaders(m, w) /\ HeadersOver(m, h, w)
  BY WithHeadersIsMessage
<1>2. Tracing!Received(m, h) = IF has THEN r1 ELSE IF trace # 0 THEN r2 ELSE w
  BY DEF Tracing!Received
<1> HIDE DEF w
<1>3. Tracing!AreHeaders(w.headers) /\ w = [headers |-> w.headers, trace |-> w.trace, span |-> w.span,
                                      parent |-> w.parent, fresh |-> w.fresh, spans |-> w.spans]
  BY <1>1 DEF IsMessage
<1>4. trace \in Nat
  <2>1. \A n : n \notin {"traceparent", "Traceparent"} => Tracing!Header(w, n) \in Nat
    BY <1>3 DEF Tracing!Header, Tracing!Has, Tracing!AreHeaders
  <2>2. Tracing!Header(w, "trace_id") \in Nat /\ Tracing!Header(w, "x-trace-id") \in Nat /\ Tracing!Header(w, "X-Trace-ID") \in Nat
    BY <2>1
  <2>3. <<Tracing!Header(w, "trace_id"), Tracing!Header(w, "x-trace-id"), Tracing!Header(w, "X-Trace-ID")>> \in Seq(Nat)
    BY <2>2
  <2> QED
    BY <2>3, FirstGivenIsId
<1>5. has => w.headers["traceparent"] \in Nat \X Nat
  BY <1>3 DEF Tracing!Header, Tracing!Has, Tracing!AreHeaders
<1>6. has => IsMessage(r1) /\ r1.fresh = w.fresh /\ r1.headers = w.headers
  <2>1. SUFFICES ASSUME has PROVE IsMessage(r1) /\ r1.fresh = w.fresh /\ r1.headers = w.headers
    OBVIOUS
  <2> DEFINE a == w.headers["traceparent"][1]
             b == w.headers["traceparent"][2]
  <2>2. a \in Nat /\ b \in Nat
    BY <1>5, <2>1
  <2>3. r1 = [headers |-> w.headers, trace |-> a, span |-> b,
              parent |-> w.parent, fresh |-> w.fresh, spans |-> w.spans]
    <3>1. w = [headers |-> w.headers, trace |-> w.trace, span |-> w.span,
               parent |-> w.parent, fresh |-> w.fresh, spans |-> w.spans]
      BY <1>3
    <3>2. r1 = [w EXCEPT !.trace = a, !.span = b]
      OBVIOUS
    <3> HIDE DEF r1, a, b
    <3> QED
      BY <3>1, <3>2
  <2> HIDE DEF r1, a, b
  <2> QED
    BY <1>1, <2>2, <2>3 DEF IsMessage
<1> HIDE DEF trace, has, r1
<1>7. IsMessage(r2) /\ r2.fresh = w.fresh /\ r2.headers = w.headers
  <2>1. r2 = [headers |-> w.headers, trace |-> trace, span |-> w.span,
              parent |-> w.parent, fresh |-> w.fresh, spans |-> w.spans]
    BY <1>3
  <2> HIDE DEF r2
  <2> QED
    BY <1>1, <1>4, <2>1 DEF IsMessage
<1> HIDE DEF r2
<1> DEFINE r == Tracing!Received(m, h)
<1>8. IsMessage(r) /\ r.fresh = w.fresh /\ r.headers = w.headers
  BY <1>1, <1>2, <1>6, <1>7
<1> HIDE DEF r
<1>9. HeadersOver(m, h, r)
  BY <1>1, <1>8 DEF HeadersOver
<1> QED
  BY <1>1, <1>8, <1>9 DEF SameButHeaders, r

\* The message as delivery k finds it.
Before(D, k) == IF k = 1 THEN Tracing!NewMessage(1) ELSE Tracing!Restored(Tracing!Snapshot(D[k - 1]), D[k - 1].fresh)

\* The message after it, and after every delivery.
Delivering(ds, D, k) == Tracing!Run(Tracing!Received(Before(D, k), ds[k].headers), ds[k].calls)

Delivers(ds, D) == D = [k \in 1..Len(ds) |-> Delivering(ds, D, k)]

\* Each delivery follows from the one before.
LEMMA DeliversExists ==
  ASSUME NEW ds, Len(ds) \in Nat
  PROVE  \E D : Delivers(ds, D)
<1> DEFINE Goes(m, F) == F = [k \in 1..m |-> Delivering(ds, F, k)]
           A == {m \in Nat : \E F : Goes(m, F)}
<1>1. 0 \in A
  <2> DEFINE F == [k \in 1..0 |-> {}]
  <2>1. Goes(0, F)
    OBVIOUS
  <2> QED
    BY <2>1
<1>2. ASSUME NEW m \in Nat, m \in A PROVE m + 1 \in A
  <2>1. PICK F : Goes(m, F)
    BY <1>2
  <2> DEFINE G == [k \in 1..(m + 1) |-> Delivering(ds, F, k)]
  <2>2. G = [k \in 1..(m + 1) |-> Delivering(ds, F, k)]
    OBVIOUS
  <2> HIDE DEF G
  <2>3. \A k \in 1..m : G[k] = F[k]
    <3>1. ASSUME NEW k \in 1..m PROVE G[k] = F[k]
      <4>1. k \in 1..(m + 1)
        OBVIOUS
      <4>2. G[k] = Delivering(ds, F, k) /\ F[k] = Delivering(ds, F, k)
        BY <2>1, <2>2, <4>1
      <4> QED
        BY <4>2
    <3> QED
      BY <3>1
  <2>4. \A k \in 1..(m + 1) : Delivering(ds, F, k) = Delivering(ds, G, k)
    <3>1. ASSUME NEW k \in 1..(m + 1), k # 1 PROVE F[k - 1] = G[k - 1]
      <4>1. k - 1 \in 1..m
        BY <3>1
      <4> QED
        BY <2>3, <4>1
    <3> QED
      BY <3>1 DEF Delivering, Before
  <2>5. Goes(m + 1, G)
    BY <2>2, <2>4
  <2> HIDE DEF Goes
  <2> QED
    BY <2>5
<1> HIDE DEF A
<1>3. \A m \in Nat : m \in A
  BY <1>1, <1>2, SetInduction
<1>4. Len(ds) \in A
  BY <1>3
<1> QED
  BY <1>4 DEF A, Delivers

\* Deliveries is that function.
LEMMA DeliveriesDeliver ==
  ASSUME NEW ds, Len(ds) \in Nat
  PROVE  Delivers(ds, Tracing!Deliveries(ds))
<1> DEFINE D == CHOOSE D : D = [k \in 1..Len(ds) |->
                  Tracing!Run(Tracing!Received(IF k = 1 THEN Tracing!NewMessage(1) ELSE Tracing!Restored(Tracing!Snapshot(D[k - 1]), D[k - 1].fresh),
                                   ds[k].headers), ds[k].calls)]
<1>1. Tracing!Deliveries(ds) = D
  BY DEF Tracing!Deliveries
<1>2. \E F : F = [k \in 1..Len(ds) |->
                  Tracing!Run(Tracing!Received(IF k = 1 THEN Tracing!NewMessage(1) ELSE Tracing!Restored(Tracing!Snapshot(F[k - 1]), F[k - 1].fresh),
                                   ds[k].headers), ds[k].calls)]
  BY DeliversExists DEF Delivers, Delivering, Before
<1>3. Delivers(ds, D)
  BY <1>2 DEF Delivers, Delivering, Before
<1> HIDE DEF D
<1> QED
  BY <1>1, <1>3

\* The first identifier that delivery k may draw.
Start(D, k) == IF k = 1 THEN 1 ELSE D[k - 1].fresh

\* A delivery enters with trace t, and runs its handlers in it.
Enters(ds, D, k, t) ==
  /\ t \in Traces /\ Ran(t, Start(D, k) + 2, ds[k].calls, D[k])
  /\ Tracing!Brings(ds[k]) => <<t.trace, t.span>> = ds[k].headers["traceparent"]
  /\ "traceparent" \notin DOMAIN ds[k].headers /\ k > 1 => <<t.trace, t.span>> = D[k - 1].headers["traceparent"]

\* A message that delivery k can start with.
IsReady(D, k) ==
  /\ IsMessage(Before(D, k)) /\ Before(D, k).fresh = Start(D, k) /\ Start(D, k) \in Nat
  /\ k > 1 => Before(D, k).headers = D[k - 1].headers /\ \E t \in Traces : Shows(D[k - 1], t)

\* The first delivery starts with a new message.
LEMMA NewIsReady ==
  ASSUME NEW D
  PROVE  IsReady(D, 1)
<1> DEFINE m == Tracing!NewMessage(1)
<1>1. m = [headers |-> <<>>, trace |-> 0, span |-> 0, parent |-> 0, fresh |-> 1, spans |-> <<>>]
  BY DEF Tracing!NewMessage
<1>2. Tracing!AreHeaders(<<>>) /\ <<>> \in Seq(Traces)
  BY DEF Tracing!AreHeaders
<1> HIDE DEF m
<1>3. IsMessage(m) /\ m.fresh = 1
  BY <1>1, <1>2 DEF IsMessage
<1> QED
  BY <1>3 DEF IsReady, Before, Start, m

\* Every other one with the message that its predecessor left.
LEMMA RestoredIsReady ==
  ASSUME NEW D, NEW k \in Nat, k > 1, IsMessage(D[k - 1]), NEW t \in Traces, Shows(D[k - 1], t)
  PROVE  IsReady(D, k)
<1> DEFINE d == D[k - 1]
           m == Tracing!Restored(Tracing!Snapshot(d), d.fresh)
<1>1. m = [headers |-> d.headers, trace |-> d.trace, span |-> d.span, parent |-> d.parent,
           fresh |-> d.fresh, spans |-> <<>>]
  <2> DEFINE s == Tracing!Snapshot(d)
             n == Tracing!NewMessage(d.fresh)
  <2>1. m = [n EXCEPT !.headers = s.headers, !.trace = s.trace, !.span = s.span, !.parent = s.parent]
    BY DEF Tracing!Restored
  <2>2. s.headers = d.headers /\ s.trace = d.trace /\ s.span = d.span /\ s.parent = d.parent
    BY DEF Tracing!Snapshot
  <2>3. n = [headers |-> <<>>, trace |-> 0, span |-> 0, parent |-> 0, fresh |-> d.fresh, spans |-> <<>>]
    BY DEF Tracing!NewMessage
  <2> HIDE DEF m, d, s, n
  <2> QED
    BY <2>1, <2>2, <2>3
<1>2. <<>> \in Seq(Traces)
  OBVIOUS
<1>3. Before(D, k) = m /\ Start(D, k) = d.fresh
  BY DEF Before, Start
<1> HIDE DEF m, d
<1>4. IsMessage(d)
  BY DEF d
<1>5. IsMessage(m) /\ m.fresh = d.fresh /\ m.headers = d.headers /\ d.fresh \in Nat
  BY <1>1, <1>2, <1>4 DEF IsMessage
<1> QED
  BY <1>3, <1>5 DEF IsReady, d

\* A delivery that can start enters, and leaves a message for the next one.
LEMMA ReadyEnters ==
  ASSUME NEW ds, Tracing!AreDeliveries(ds), NEW D, Delivers(ds, D), NEW k \in 1..Len(ds), IsReady(D, k)
  PROVE  \E t : Enters(ds, D, k, t)
<1> DEFINE b == Before(D, k)
           h == ds[k].headers
           n == ds[k].calls
           r == Tracing!Received(b, h)
           t == Tracing!Ensured({}, r).trace
<1>1. Tracing!AreHeaders(h) /\ n \in Nat
  BY DEF Tracing!AreDeliveries
<1>2. D[k] = Tracing!Run(r, n)
  BY DEF Delivers, Delivering
<1>3. IsMessage(b) /\ b.fresh = Start(D, k)
  BY DEF IsReady
<1>4. k > 1 => b.headers = D[k - 1].headers /\ \E s \in Traces : Shows(D[k - 1], s)
  BY DEF IsReady
<1> HIDE DEF b, h, n
<1>5. IsMessage(r) /\ r.fresh = b.fresh /\ HeadersOver(b, h, r)
  BY <1>1, <1>3, ReceivedIsMessage
<1> HIDE DEF r
<1>6. Ran(t, r.fresh + 2, n, Tracing!Run(r, n))
  BY <1>1, <1>5, RunIsRan
<1>7. Entered(r, Tracing!Ensured({}, r))
  BY <1>5, EnsuredAlone
<1>8. t \in Traces
  BY <1>7 DEF Entered
<1>9. "traceparent" \in DOMAIN r.headers /\ r.headers["traceparent"] # <<>> =>
        t.trace = r.headers["traceparent"][1] /\ t.span = r.headers["traceparent"][2]
  BY <1>5, EnsuredAlone
<1> HIDE DEF t
<1>10. Ran(t, Start(D, k) + 2, n, D[k])
  BY <1>2, <1>3, <1>5, <1>6
<1>11. ASSUME "traceparent" \in DOMAIN h, h["traceparent"] # <<>>
       PROVE  <<t.trace, t.span>> = h["traceparent"]
  <2>1. r.headers["traceparent"] = h["traceparent"] /\ "traceparent" \in DOMAIN r.headers
    BY <1>5, <1>11 DEF HeadersOver
  <2>2. h["traceparent"] \in Nat \X Nat
    BY <1>1, <1>11 DEF Tracing!AreHeaders
  <2> QED
    BY <1>9, <1>11, <2>1, <2>2
<1>12. ASSUME "traceparent" \notin DOMAIN h, k > 1
       PROVE  <<t.trace, t.span>> = D[k - 1].headers["traceparent"]
  <2>1. PICK s \in Traces : Shows(D[k - 1], s)
    BY <1>4, <1>12
  <2>2. "traceparent" \in DOMAIN b.headers /\ b.headers["traceparent"] = <<s.trace, s.span>>
        /\ b.headers["traceparent"] = D[k - 1].headers["traceparent"]
    BY <1>4, <1>12, <2>1 DEF Shows
  <2>3. r.headers["traceparent"] = <<s.trace, s.span>> /\ "traceparent" \in DOMAIN r.headers
    BY <1>5, <1>12, <2>2 DEF HeadersOver
  <2>4. <<s.trace, s.span>> # <<>> /\ <<s.trace, s.span>>[1] = s.trace /\ <<s.trace, s.span>>[2] = s.span
    OBVIOUS
  <2> QED
    BY <1>9, <2>2, <2>3, <2>4
<1>13. Tracing!Brings(ds[k]) => "traceparent" \in DOMAIN h /\ h["traceparent"] # <<>>
  BY DEF Tracing!Brings, h
<1>14. Enters(ds, D, k, t)
  BY <1>8, <1>10, <1>11, <1>12, <1>13 DEF Enters, h, n
<1> QED
  BY <1>14

\* Every delivery enters.
LEMMA AllEnter ==
  ASSUME NEW ds, Tracing!AreDeliveries(ds), NEW D, Delivers(ds, D)
  PROVE  \A k \in 1..Len(ds) : \E t : Enters(ds, D, k, t)
<1> DEFINE A == {k \in Nat : k + 1 <= Len(ds) => \E t : Enters(ds, D, k + 1, t)}
<1>1. Len(ds) \in Nat
  BY DEF Tracing!AreDeliveries
<1>2. 0 \in A
  <2>1. ASSUME 1 <= Len(ds) PROVE \E t : Enters(ds, D, 1, t)
    <3>1. 1 \in 1..Len(ds)
      BY <1>1, <2>1
    <3> QED
      BY <3>1, NewIsReady, ReadyEnters
  <2> QED
    BY <2>1
<1>3. ASSUME NEW k \in Nat, k \in A PROVE k + 1 \in A
  <2>1. ASSUME (k + 1) + 1 <= Len(ds) PROVE \E t : Enters(ds, D, (k + 1) + 1, t)
    <3> DEFINE j == (k + 1) + 1
    <3>1. j \in 1..Len(ds) /\ j \in Nat /\ j > 1 /\ j - 1 = k + 1 /\ k + 1 <= Len(ds) /\ k + 1 \in 1..Len(ds)
      BY <1>1, <2>1
    <3>2. PICK t : Enters(ds, D, k + 1, t)
      BY <1>3, <3>1
    <3> DEFINE n == ds[k + 1].calls
    <3>3. n \in Nat
      BY <3>1 DEF Tracing!AreDeliveries
    <3> HIDE DEF n
    <3>4. Ran(t, Start(D, k + 1) + 2, n, D[k + 1]) /\ t \in Traces
      BY <3>2 DEF Enters, n
    <3>5. IsMessage(D[k + 1]) /\ Shows(D[k + 1], D[k + 1].spans[n + 1]) /\ Len(D[k + 1].spans) = n + 1
      BY <3>4 DEF Ran
    <3>6. D[k + 1].spans[n + 1] \in Traces
      BY <3>3, <3>5 DEF IsMessage
    <3> HIDE DEF j
    <3>7. IsReady(D, j)
      BY <3>1, <3>5, <3>6, RestoredIsReady
    <3> QED
      BY <3>1, <3>7, ReadyEnters DEF j
  <2> QED
    BY <2>1
<1> HIDE DEF A
<1>4. \A k \in Nat : k \in A
  BY <1>2, <1>3, SetInduction
<1>5. ASSUME NEW k \in 1..Len(ds) PROVE \E t : Enters(ds, D, k, t)
  <2>1. k - 1 \in Nat /\ (k - 1) + 1 = k /\ k <= Len(ds)
    BY <1>1
  <2>2. k - 1 \in A
    BY <1>4, <2>1
  <2> QED
    BY <2>1, <2>2 DEF A
<1> QED
  BY <1>5

-----------------------------------------------------------------------------
(* The spans of all deliveries. *)

\* The span of call i of delivery k.
SpanNumber(D, k, i) == Start(D, k) + 3 * i + 1

\* What delivery k left, entered with t: its calls' spans, numbered.
LeftBy(ds, D, k, t) ==
  /\ Start(D, k) \in Nat /\ ds[k].calls \in Nat /\ D[k].fresh = Start(D, k) + 2 + 3 * ds[k].calls
  /\ D[k].spans \in Seq(Traces) /\ Len(D[k].spans) = ds[k].calls + 1 /\ D[k].spans[1] = t
  /\ D[k].headers["traceparent"] = <<D[k].spans[ds[k].calls + 1].trace, D[k].spans[ds[k].calls + 1].span>>
  /\ \A i \in 1..ds[k].calls :
       D[k].spans[i + 1] = Tracing!Trace(t.trace, SpanNumber(D, k, i), t.span)

\* A delivery that entered leaves that.
LEMMA EntersLeft ==
  ASSUME NEW ds, Tracing!AreDeliveries(ds), NEW D, NEW k \in 1..Len(ds), NEW t, Enters(ds, D, k, t),
         Start(D, k) \in Nat
  PROVE  LeftBy(ds, D, k, t)
<1> DEFINE n == ds[k].calls
           m == D[k]
           s == Start(D, k)
<1>1. n \in Nat
  BY DEF Tracing!AreDeliveries
<1>2. Ran(t, s + 2, n, m)
  BY DEF Enters
<1> HIDE DEF n, m, s
<1>3. /\ IsMessage(m) /\ m.fresh = (s + 2) + 3 * n /\ Len(m.spans) = n + 1 /\ m.spans[1] = t
      /\ Shows(m, m.spans[n + 1])
  BY <1>2 DEF Ran
<1>4. \A i \in 1..n : m.spans[i + 1] = Tracing!Trace(t.trace, (s + 2) + 3 * (i - 1) + 2, t.span)
  BY <1>2 DEF Ran
<1>5. s \in Nat
  BY DEF s
<1>6. m.spans \in Seq(Traces) /\ m.headers["traceparent"] = <<m.spans[n + 1].trace, m.spans[n + 1].span>>
  BY <1>3 DEF IsMessage, Shows
<1>7. ASSUME NEW i \in 1..n
      PROVE  m.spans[i + 1] = Tracing!Trace(t.trace, SpanNumber(D, k, i), t.span)
  <2>1. (s + 2) + 3 * (i - 1) + 2 = SpanNumber(D, k, i)
    BY <1>1, <1>5 DEF SpanNumber, s
  <2> QED
    BY <1>4, <2>1
<1>8. m.fresh = s + 2 + 3 * n
  BY <1>1, <1>3, <1>5
<1> QED
  BY <1>1, <1>3, <1>5, <1>6, <1>7, <1>8 DEF LeftBy, n, m, s

\* Numbers are not drawn again: those of a delivery come after those before it.
LEMMA StartsGrow ==
  ASSUME NEW ds, Tracing!AreDeliveries(ds), NEW D, NEW f, \A k \in 1..Len(ds) : Enters(ds, D, k, f[k])
  PROVE  /\ \A k \in 1..Len(ds) : Start(D, k) \in Nat
         /\ \A j, k \in 1..Len(ds) : j < k => D[j].fresh <= Start(D, k)
<1>1. Len(ds) \in Nat /\ \A k \in 1..Len(ds) : ds[k].calls \in Nat
  BY DEF Tracing!AreDeliveries
<1> DEFINE A == {k \in Nat : k + 1 <= Len(ds) => Start(D, k + 1) \in Nat}
<1>2. 0 \in A
  BY DEF Start
<1>3. ASSUME NEW k \in Nat, k \in A PROVE k + 1 \in A
  <2>1. ASSUME (k + 1) + 1 <= Len(ds) PROVE Start(D, (k + 1) + 1) \in Nat
    <3>1. k + 1 \in 1..Len(ds) /\ (k + 1) + 1 # 1 /\ ((k + 1) + 1) - 1 = k + 1
      BY <1>1, <2>1
    <3>2. Enters(ds, D, k + 1, f[k + 1])
      BY <3>1
    <3>3. IsMessage(D[k + 1])
      BY <3>2 DEF Enters, Ran
    <3>4. Start(D, (k + 1) + 1) = D[k + 1].fresh
      BY <3>1 DEF Start
    <3> QED
      BY <3>3, <3>4 DEF IsMessage
  <2> QED
    BY <2>1
<1> HIDE DEF A
<1>4. \A k \in Nat : k \in A
  BY <1>2, <1>3, SetInduction
<1>5. ASSUME NEW k \in 1..Len(ds) PROVE Start(D, k) \in Nat
  <2>1. k - 1 \in Nat /\ (k - 1) + 1 = k /\ k <= Len(ds)
    BY <1>1
  <2>2. k - 1 \in A
    BY <1>4, <2>1
  <2> QED
    BY <2>1, <2>2 DEF A
<1>6. ASSUME NEW k \in 1..Len(ds) PROVE D[k].fresh \in Nat /\ Start(D, k) <= D[k].fresh
  <2>1. LeftBy(ds, D, k, f[k])
    BY <1>5, EntersLeft
  <2> DEFINE n == ds[k].calls
             x == Start(D, k)
             y == D[k].fresh
  <2>2. x \in Nat /\ n \in Nat /\ y = x + 2 + 3 * n
    BY <2>1 DEF LeftBy
  <2> HIDE DEF n, x, y
  <2>3. y \in Nat /\ x <= y
    BY <2>2
  <2> QED
    BY <2>3 DEF x, y
<1> DEFINE B == {k \in Nat : \A j \in 1..Len(ds) : j + k + 1 <= Len(ds) => D[j].fresh <= Start(D, j + k + 1)}
<1>7. 0 \in B
  <2>1. ASSUME NEW j \in 1..Len(ds), j + 0 + 1 <= Len(ds) PROVE D[j].fresh <= Start(D, j + 0 + 1)
    <3>1. j + 0 + 1 # 1 /\ (j + 0 + 1) - 1 = j
      BY <1>1
    <3> QED
      BY <1>6, <3>1 DEF Start
  <2> QED
    BY <2>1
<1>8. ASSUME NEW k \in Nat, k \in B PROVE k + 1 \in B
  <2>1. ASSUME NEW j \in 1..Len(ds), j + (k + 1) + 1 <= Len(ds)
        PROVE  D[j].fresh <= Start(D, j + (k + 1) + 1)
    <3> DEFINE i == j + k + 1
    <3>1. i \in 1..Len(ds) /\ j + (k + 1) + 1 = i + 1 /\ i + 1 # 1 /\ (i + 1) - 1 = i
      BY <1>1, <2>1
    <3>2. D[j].fresh <= Start(D, i)
      BY <1>8, <3>1
    <3> HIDE DEF i
    <3>3. Start(D, i + 1) = D[i].fresh
      BY <3>1 DEF Start
    <3>4. D[j].fresh \in Nat /\ Start(D, i) \in Nat /\ D[i].fresh \in Nat /\ Start(D, i) <= D[i].fresh
      BY <1>5, <1>6, <3>1
    <3> QED
      BY <3>1, <3>2, <3>3, <3>4
  <2> QED
    BY <2>1
<1> HIDE DEF B
<1>9. \A k \in Nat : k \in B
  BY <1>7, <1>8, SetInduction
<1>10. ASSUME NEW j \in 1..Len(ds), NEW k \in 1..Len(ds), j < k PROVE D[j].fresh <= Start(D, k)
  <2>1. k - j - 1 \in Nat /\ j + (k - j - 1) + 1 = k /\ k <= Len(ds)
    BY <1>1, <1>10
  <2>2. k - j - 1 \in B
    BY <1>9, <2>1
  <2> QED
    BY <2>1, <2>2 DEF B
<1> QED
  BY <1>5, <1>10

\* The spans that handlers ran in.
StepsOf(D, k) == Tail(D[k].spans)

\* They are the calls of handlers, numbered.
LEMMA StepsAreNumbered ==
  ASSUME NEW ds, NEW D, NEW k, NEW t, LeftBy(ds, D, k, t)
  PROVE  /\ DOMAIN StepsOf(D, k) = 1..ds[k].calls
         /\ \A i \in 1..ds[k].calls : StepsOf(D, k)[i] = Tracing!Trace(t.trace, SpanNumber(D, k, i), t.span)
<1> DEFINE s == D[k].spans
           n == ds[k].calls
<1>1. s \in Seq(Traces) /\ Len(s) = n + 1 /\ n \in Nat
  BY DEF LeftBy
<1>2. \A i \in 1..n : s[i + 1] = Tracing!Trace(t.trace, SpanNumber(D, k, i), t.span)
  BY DEF LeftBy
<1> HIDE DEF s, n
<1>3. Len(Tail(s)) = n /\ DOMAIN Tail(s) = 1..n /\ \A i \in 1..n : Tail(s)[i] = s[i + 1]
  BY <1>1
<1> QED
  BY <1>2, <1>3 DEF StepsOf, s, n

\* No two calls of handlers share a span.
LEMMA SpansDiffer ==
  ASSUME NEW ds, NEW D, NEW j, NEW k, NEW t, NEW u, LeftBy(ds, D, j, t), LeftBy(ds, D, k, u),
         NEW i \in 1..ds[j].calls, NEW l \in 1..ds[k].calls, SpanNumber(D, j, i) = SpanNumber(D, k, l),
         j = k \/ D[j].fresh <= Start(D, k) \/ D[k].fresh <= Start(D, j)
  PROVE  j = k /\ i = l
<1>1. Start(D, j) \in Nat /\ ds[j].calls \in Nat /\ D[j].fresh = Start(D, j) + 2 + 3 * ds[j].calls
  BY DEF LeftBy
<1>2. Start(D, k) \in Nat /\ ds[k].calls \in Nat /\ D[k].fresh = Start(D, k) + 2 + 3 * ds[k].calls
  BY DEF LeftBy
<1>3. Start(D, j) + 3 * i + 1 = Start(D, k) + 3 * l + 1
  BY DEF SpanNumber
<1>4. i \in Nat /\ l \in Nat /\ 1 <= i /\ i <= ds[j].calls /\ 1 <= l /\ l <= ds[k].calls
  BY <1>1, <1>2
<1>5. ~(D[j].fresh <= Start(D, k))
  BY <1>1, <1>2, <1>3, <1>4
<1>6. ~(D[k].fresh <= Start(D, j))
  BY <1>1, <1>2, <1>3, <1>4
<1>7. j = k
  BY <1>5, <1>6
<1>8. i = l
  BY <1>1, <1>3, <1>4, <1>7
<1> QED
  BY <1>7, <1>8

\* The spans of every sequence of deliveries are chained.
LEMMA DeliveriesAreChained ==
  ASSUME NEW ds, Tracing!AreDeliveries(ds)
  PROVE  Tracing!Chained(ds)
<1> DEFINE D == Tracing!Deliveries(ds)
<1>1. Len(ds) \in Nat /\ DOMAIN ds = 1..Len(ds)
  BY DEF Tracing!AreDeliveries
<1>2. Delivers(ds, D)
  BY <1>1, DeliveriesDeliver
<1> HIDE DEF D
<1> DEFINE f == [k \in 1..Len(ds) |-> CHOOSE t : Enters(ds, D, k, t)]
<1>3. \A k \in 1..Len(ds) : Enters(ds, D, k, f[k])
  <2>1. \A k \in 1..Len(ds) : \E t : Enters(ds, D, k, t)
    BY <1>2, AllEnter
  <2> QED
    BY <2>1
<1> HIDE DEF f
<1>4. \A k \in 1..Len(ds) : Start(D, k) \in Nat
  BY <1>3, StartsGrow
<1>5. \A j, k \in 1..Len(ds) : j < k => D[j].fresh <= Start(D, k)
  BY <1>3, StartsGrow
<1>6. \A k \in 1..Len(ds) : LeftBy(ds, D, k, f[k])
  BY <1>3, <1>4, EntersLeft
<1>7. ASSUME NEW j \in 1..Len(ds), NEW k \in 1..Len(ds),
             NEW i \in DOMAIN StepsOf(D, j), NEW l \in DOMAIN StepsOf(D, k),
             StepsOf(D, j)[i].span = StepsOf(D, k)[l].span
      PROVE  j = k /\ i = l
  <2>1. LeftBy(ds, D, j, f[j]) /\ LeftBy(ds, D, k, f[k])
    BY <1>6
  <2>2. /\ DOMAIN StepsOf(D, j) = 1..ds[j].calls
        /\ \A x \in 1..ds[j].calls : StepsOf(D, j)[x] = Tracing!Trace(f[j].trace, SpanNumber(D, j, x), f[j].span)
    BY <2>1, StepsAreNumbered
  <2>3. /\ DOMAIN StepsOf(D, k) = 1..ds[k].calls
        /\ \A x \in 1..ds[k].calls : StepsOf(D, k)[x] = Tracing!Trace(f[k].trace, SpanNumber(D, k, x), f[k].span)
    BY <2>1, StepsAreNumbered
  <2>4. i \in 1..ds[j].calls /\ l \in 1..ds[k].calls
    BY <2>2, <2>3
  <2>5. StepsOf(D, j)[i].span = SpanNumber(D, j, i)
    <3>1. StepsOf(D, j)[i] = Tracing!Trace(f[j].trace, SpanNumber(D, j, i), f[j].span)
      BY <2>2, <2>4
    <3>2. Tracing!Trace(f[j].trace, SpanNumber(D, j, i), f[j].span).span = SpanNumber(D, j, i)
      BY DEF Tracing!Trace
    <3> QED
      BY <3>1, <3>2
  <2>6. StepsOf(D, k)[l].span = SpanNumber(D, k, l)
    <3>1. StepsOf(D, k)[l] = Tracing!Trace(f[k].trace, SpanNumber(D, k, l), f[k].span)
      BY <2>3, <2>4
    <3>2. Tracing!Trace(f[k].trace, SpanNumber(D, k, l), f[k].span).span = SpanNumber(D, k, l)
      BY DEF Tracing!Trace
    <3> QED
      BY <3>1, <3>2
  <2>7. SpanNumber(D, j, i) = SpanNumber(D, k, l)
    BY <1>7, <2>5, <2>6
  <2>8. j = k \/ D[j].fresh <= Start(D, k) \/ D[k].fresh <= Start(D, j)
    BY <1>1, <1>5
  <2> QED
    BY <2>1, <2>4, <2>7, <2>8, SpansDiffer
<1>8. ASSUME NEW k \in 1..Len(ds)
      PROVE  /\ \A s \in Tracing!ToSet(StepsOf(D, k)) : s.parent = D[k].spans[1].span /\ s.trace = D[k].spans[1].trace
             /\ D[k].headers["traceparent"] = <<D[k].spans[Len(D[k].spans)].trace, D[k].spans[Len(D[k].spans)].span>>
  <2>1. LeftBy(ds, D, k, f[k])
    BY <1>6
  <2>2. /\ DOMAIN StepsOf(D, k) = 1..ds[k].calls
        /\ \A i \in 1..ds[k].calls : StepsOf(D, k)[i] = Tracing!Trace(f[k].trace, SpanNumber(D, k, i), f[k].span)
    BY <2>1, StepsAreNumbered
  <2>3. /\ D[k].spans[1] = f[k] /\ Len(D[k].spans) = ds[k].calls + 1
        /\ D[k].headers["traceparent"]
             = <<D[k].spans[ds[k].calls + 1].trace, D[k].spans[ds[k].calls + 1].span>>
    BY <2>1 DEF LeftBy
  <2>4. ASSUME NEW s \in Tracing!ToSet(StepsOf(D, k))
        PROVE  s.parent = f[k].span /\ s.trace = f[k].trace
    <3>1. PICK i \in DOMAIN StepsOf(D, k) : s = StepsOf(D, k)[i]
      BY DEF Tracing!ToSet
    <3>2. s = Tracing!Trace(f[k].trace, SpanNumber(D, k, i), f[k].span)
      BY <2>2, <3>1
    <3> QED
      BY <3>2 DEF Tracing!Trace
  <2> QED
    BY <2>3, <2>4
<1>9. ASSUME NEW k \in 1..Len(ds), Tracing!Brings(ds[k])
      PROVE  <<D[k].spans[1].trace, D[k].spans[1].span>> = ds[k].headers["traceparent"]
  <2>1. LeftBy(ds, D, k, f[k]) /\ Enters(ds, D, k, f[k])
    BY <1>3, <1>6
  <2>2. D[k].spans[1] = f[k]
    BY <2>1 DEF LeftBy
  <2>3. <<f[k].trace, f[k].span>> = ds[k].headers["traceparent"]
    BY <1>9, <2>1 DEF Enters
  <2> QED
    BY <2>2, <2>3
<1>10. ASSUME NEW k \in 1..Len(ds), "traceparent" \notin DOMAIN ds[k].headers, k > 1
       PROVE  <<D[k].spans[1].trace, D[k].spans[1].span>>
                = <<D[k - 1].spans[Len(D[k - 1].spans)].trace, D[k - 1].spans[Len(D[k - 1].spans)].span>>
  <2>1. LeftBy(ds, D, k, f[k]) /\ Enters(ds, D, k, f[k])
    BY <1>3, <1>6
  <2>2. D[k].spans[1] = f[k]
    BY <2>1 DEF LeftBy
  <2>3. <<f[k].trace, f[k].span>> = D[k - 1].headers["traceparent"]
    BY <1>10, <2>1 DEF Enters
  <2>4. k - 1 \in 1..Len(ds)
    BY <1>1, <1>10
  <2>5. D[k - 1].headers["traceparent"]
          = <<D[k - 1].spans[Len(D[k - 1].spans)].trace, D[k - 1].spans[Len(D[k - 1].spans)].span>>
    BY <1>8, <2>4
  <2> QED
    BY <2>2, <2>3, <2>5
<1>11. \A x \in {Tracing!Deliveries(ds)} : x = D
  BY DEF D
<1>12. \A j, k \in DOMAIN ds : \A i \in DOMAIN Tail(D[j].spans), l \in DOMAIN Tail(D[k].spans) :
         Tail(D[j].spans)[i].span = Tail(D[k].spans)[l].span => j = k /\ i = l
  BY <1>1, <1>7, Zenon DEF StepsOf
<1>13. \A k \in DOMAIN ds :
         /\ \A s \in Tracing!ToSet(Tail(D[k].spans)) : s.parent = D[k].spans[1].span /\ s.trace = D[k].spans[1].trace
         /\ D[k].headers["traceparent"] = <<D[k].spans[Len(D[k].spans)].trace, D[k].spans[Len(D[k].spans)].span>>
         /\ Tracing!Brings(ds[k]) => <<D[k].spans[1].trace, D[k].spans[1].span>> = ds[k].headers["traceparent"]
         /\ ~Tracing!Brings(ds[k]) /\ "traceparent" \notin DOMAIN ds[k].headers /\ k > 1 =>
              <<D[k].spans[1].trace, D[k].spans[1].span>>
                = <<D[k - 1].spans[Len(D[k - 1].spans)].trace, D[k - 1].spans[Len(D[k - 1].spans)].span>>
  BY <1>1, <1>8, <1>9, <1>10, Zenon DEF StepsOf
<1> QED
  <2>1. SUFFICES ASSUME NEW after \in {Tracing!Deliveries(ds)}
                 PROVE  /\ \A j, k \in DOMAIN ds : \A i \in DOMAIN Tail(after[j].spans), l \in DOMAIN Tail(after[k].spans) :
                             Tail(after[j].spans)[i].span = Tail(after[k].spans)[l].span => j = k /\ i = l
                        /\ \A k \in DOMAIN ds :
                             /\ \A t \in Tracing!ToSet(Tail(after[k].spans)) :
                                  t.parent = after[k].spans[1].span /\ t.trace = after[k].spans[1].trace
                             /\ after[k].headers["traceparent"]
                                  = <<after[k].spans[Len(after[k].spans)].trace, after[k].spans[Len(after[k].spans)].span>>
                             /\ Tracing!Brings(ds[k]) =>
                                  <<after[k].spans[1].trace, after[k].spans[1].span>> = ds[k].headers["traceparent"]
                             /\ ~Tracing!Brings(ds[k]) /\ "traceparent" \notin DOMAIN ds[k].headers /\ k > 1 =>
                                  <<after[k].spans[1].trace, after[k].spans[1].span>>
                                    = <<after[k - 1].spans[Len(after[k - 1].spans)].trace,
                                        after[k - 1].spans[Len(after[k - 1].spans)].span>>
    BY Zenon DEF Tracing!Chained
  <2>2. after = D
    BY <1>11, <2>1, Zenon
  <2> QED
    BY <1>12, <1>13, <2>2, Zenon

\* The same of the deliveries that Spec chooses.
THEOREM SpansFormChains == Spec => []SpansAreChained
<1>1. ASSUME NEW i \in Of("deliveries") PROVE Tracing!Chained(i)
  BY HeadersHoldIds, DeliveriesAreChained
<1>2. ChosenInput => SpansAreChained
  BY <1>1 DEF ChosenInput, SpansAreChained
<1> QED
  BY <1>2, InputIsChosen, PTL

-----------------------------------------------------------------------------
(* What a list of items answers. *)

\* An item that is answered.
Answers(x, f) == StateStore!IsSnapshot(x) /\ StateStore!Matches(x[1], f)

\* Items one by one, none of them twice.
AreItems(s) == Len(s) \in Nat /\ DOMAIN s = 1..Len(s) /\ \A i, j \in 1..Len(s) : s[i] = s[j] => i = j

\* The first k items, as far as they are answered.
PickedOf(items, f, k, r) ==
  /\ r \in Seq({items[i] : i \in 1..Len(items)}) /\ AreItems(r)
  /\ \A i \in 1..Len(r) : \E j \in 1..k : r[i] = items[j] /\ Answers(items[j], f)
  /\ \A j \in 1..k : Answers(items[j], f) => \E i \in 1..Len(r) : r[i] = items[j]

\* The same, one item after the other.
Pick1(items, f, R, k) ==
  IF k = 0 THEN <<>>
  ELSE IF StateStore!IsSnapshot(items[k]) /\ StateStore!Matches(items[k][1], f) THEN Append(R[k - 1], items[k])
  ELSE R[k - 1]

Picks(items, f, R) == R = [k \in 0..Len(items) |-> Pick1(items, f, R, k)]

\* There is such a function.
LEMMA PicksExists ==
  ASSUME NEW items, Len(items) \in Nat, NEW f
  PROVE  \E R : Picks(items, f, R)
<1> DEFINE Goes(m, F) == F = [k \in 0..m |-> Pick1(items, f, F, k)]
           A == {m \in Nat : \E F : Goes(m, F)}
<1>1. 0 \in A
  <2> DEFINE F == [k \in 0..0 |-> <<>>]
  <2>1. \A k \in 0..0 : <<>> = Pick1(items, f, F, k)
    BY DEF Pick1
  <2>2. F = [k \in 0..0 |-> <<>>]
    OBVIOUS
  <2> HIDE DEF F
  <2>3. Goes(0, F)
    BY <2>1, <2>2
  <2> QED
    BY <2>3
<1>2. ASSUME NEW m \in Nat, m \in A PROVE m + 1 \in A
  <2>1. PICK F : Goes(m, F)
    BY <1>2
  <2> DEFINE G == [k \in 0..(m + 1) |-> Pick1(items, f, F, k)]
  <2>2. G = [k \in 0..(m + 1) |-> Pick1(items, f, F, k)]
    OBVIOUS
  <2> HIDE DEF G
  <2>3. \A k \in 0..m : G[k] = F[k]
    <3>1. ASSUME NEW k \in 0..m PROVE G[k] = F[k]
      <4>1. k \in 0..(m + 1)
        OBVIOUS
      <4>2. G[k] = Pick1(items, f, F, k) /\ F[k] = Pick1(items, f, F, k)
        BY <2>1, <2>2, <4>1
      <4> QED
        BY <4>2
    <3> QED
      BY <3>1
  <2>4. \A k \in 0..(m + 1) : Pick1(items, f, F, k) = Pick1(items, f, G, k)
    <3>1. ASSUME NEW k \in 0..(m + 1), k # 0 PROVE F[k - 1] = G[k - 1]
      <4>1. k - 1 \in 0..m
        BY <3>1
      <4> QED
        BY <2>3, <4>1
    <3> QED
      BY <3>1 DEF Pick1
  <2>5. Goes(m + 1, G)
    BY <2>2, <2>4
  <2> HIDE DEF Goes
  <2> QED
    BY <2>5
<1> HIDE DEF A
<1>3. \A m \in Nat : m \in A
  BY <1>1, <1>2, SetInduction
<1>4. Len(items) \in A
  BY <1>3
<1> QED
  BY <1>4 DEF A, Picks

\* Nothing is answered of no items.
LEMMA PickedOfNone ==
  ASSUME NEW items, NEW f
  PROVE  PickedOf(items, f, 0, <<>>)
BY DEF PickedOf, AreItems

\* An item that is answered comes last, any other one is left out.
LEMMA PickedOfMore ==
  ASSUME NEW items, AreItems(items), NEW f, NEW k \in Nat, k + 1 <= Len(items), NEW r, PickedOf(items, f, k, r)
  PROVE  /\ Answers(items[k + 1], f) => PickedOf(items, f, k + 1, Append(r, items[k + 1]))
         /\ ~Answers(items[k + 1], f) => PickedOf(items, f, k + 1, r)
<1> DEFINE S == {items[i] : i \in 1..Len(items)}
           x == items[k + 1]
           n == Len(r)
<1>1. r \in Seq(S) /\ AreItems(r) /\ n \in Nat
  BY DEF PickedOf, AreItems
<1>2. \A i \in 1..n : \E j \in 1..k : r[i] = items[j] /\ Answers(items[j], f)
  BY DEF PickedOf
<1>3. \A j \in 1..k : Answers(items[j], f) => \E i \in 1..n : r[i] = items[j]
  BY DEF PickedOf
<1>4. Len(items) \in Nat /\ k + 1 \in 1..Len(items) /\ x \in S /\ 1..k \subseteq 1..Len(items)
  BY DEF AreItems
<1>5. \A j \in 1..k : items[j] # x
  <2>1. \A i, j \in 1..Len(items) : items[i] = items[j] => i = j
    BY DEF AreItems
  <2>2. \A j \in 1..k : j # k + 1
    OBVIOUS
  <2> QED
    BY <1>4, <2>1, <2>2
<1> HIDE DEF S
<1>6. ASSUME Answers(x, f) PROVE PickedOf(items, f, k + 1, Append(r, x))
  <2> DEFINE a == Append(r, x)
  <2>1. a \in Seq(S) /\ Len(a) = n + 1 /\ DOMAIN a = 1..(n + 1) /\ a[n + 1] = x /\ \A i \in 1..n : a[i] = r[i]
    BY <1>1, <1>4
  <2> HIDE DEF a, x, n
  <2>2. ASSUME NEW i \in 1..(n + 1), NEW j \in 1..(n + 1), a[i] = a[j] PROVE i = j
    <3>1. \A l \in 1..n : a[l] # x
      BY <1>2, <1>5, <2>1
    <3>2. CASE i = n + 1 \/ j = n + 1
      <4>1. \A l \in 1..(n + 1) : l # n + 1 => l \in 1..n
        BY <1>1
      <4> QED
        BY <2>1, <2>2, <3>1, <3>2, <4>1
    <3>3. CASE i # n + 1 /\ j # n + 1
      <4>1. i \in 1..n /\ j \in 1..n
        BY <1>1, <3>3
      <4>2. r[i] = r[j]
        BY <2>1, <2>2, <4>1
      <4> QED
        BY <1>1, <4>1, <4>2 DEF AreItems, n
    <3> QED
      BY <3>2, <3>3
  <2>3. AreItems(a)
    BY <1>1, <2>1, <2>2 DEF AreItems
  <2>4. ASSUME NEW i \in 1..(n + 1) PROVE \E j \in 1..(k + 1) : a[i] = items[j] /\ Answers(items[j], f)
    <3>1. CASE i = n + 1
      BY <1>6, <2>1, <3>1 DEF x
    <3>2. CASE i # n + 1
      <4>1. i \in 1..n
        BY <1>1, <3>2
      <4>2. \E j \in 1..k : a[i] = items[j] /\ Answers(items[j], f)
        BY <1>2, <2>1, <4>1
      <4>3. 1..k \subseteq 1..(k + 1)
        OBVIOUS
      <4> QED
        BY <4>2, <4>3
    <3> QED
      BY <3>1, <3>2
  <2>5. ASSUME NEW j \in 1..(k + 1), Answers(items[j], f) PROVE \E i \in 1..(n + 1) : a[i] = items[j]
    <3>1. CASE j = k + 1
      <4>1. n + 1 \in 1..(n + 1)
        BY <1>1
      <4> QED
        BY <2>1, <3>1, <4>1 DEF x
    <3>2. CASE j # k + 1
      <4>1. j \in 1..k
        BY <3>2
      <4>2. PICK i \in 1..n : r[i] = items[j]
        BY <1>3, <2>5, <4>1
      <4>3. i \in 1..(n + 1) /\ a[i] = items[j]
        BY <1>1, <2>1, <4>2
      <4> QED
        BY <4>3
    <3> QED
      BY <3>1, <3>2
  <2>6. PickedOf(items, f, k + 1, a)
    BY <2>1, <2>3, <2>4, <2>5 DEF PickedOf, S
  <2> QED
    BY <2>6 DEF a
<1>7. ASSUME ~Answers(x, f) PROVE PickedOf(items, f, k + 1, r)
  <2>1. ASSUME NEW i \in 1..n PROVE \E j \in 1..(k + 1) : r[i] = items[j] /\ Answers(items[j], f)
    <3>1. 1..k \subseteq 1..(k + 1)
      OBVIOUS
    <3> QED
      BY <1>2, <3>1
  <2>2. ASSUME NEW j \in 1..(k + 1), Answers(items[j], f) PROVE \E i \in 1..n : r[i] = items[j]
    <3>1. j # k + 1
      BY <1>7, <2>2
    <3>2. j \in 1..k
      BY <3>1
    <3> QED
      BY <1>3, <2>2, <3>2
  <2> QED
    BY <1>1, <2>1, <2>2 DEF PickedOf, S
<1> QED
  BY <1>6, <1>7

\* Items are answered if they match, each once.
LEMMA PickedAreAnswers ==
  ASSUME NEW items, AreItems(items), NEW f
  PROVE  PickedOf(items, f, Len(items), StateStore!Picked(items, f))
<1> DEFINE n == Len(items)
           R == CHOOSE R : R = [k \in 0..n |->
                  IF k = 0 THEN <<>>
                  ELSE IF StateStore!IsSnapshot(items[k]) /\ StateStore!Matches(items[k][1], f)
                       THEN Append(R[k - 1], items[k])
                  ELSE R[k - 1]]
           A == {k \in Nat : k <= n => PickedOf(items, f, k, R[k])}
<1>1. StateStore!Picked(items, f) = R[n]
  BY DEF StateStore!Picked
<1>2. n \in Nat
  BY DEF AreItems
<1>3. Picks(items, f, R)
  <2>1. \E F : F = [k \in 0..n |->
                  IF k = 0 THEN <<>>
                  ELSE IF StateStore!IsSnapshot(items[k]) /\ StateStore!Matches(items[k][1], f)
                       THEN Append(F[k - 1], items[k])
                  ELSE F[k - 1]]
    BY <1>2, PicksExists DEF Picks, Pick1
  <2> QED
    BY <2>1 DEF Picks, Pick1
<1> HIDE DEF R
<1>4. \A k \in 0..n : R[k] = Pick1(items, f, R, k)
  BY <1>3 DEF Picks
<1> HIDE DEF n
<1>5. 0 \in A
  <2>1. R[0] = <<>>
    BY <1>2, <1>4 DEF Pick1
  <2> QED
    BY <2>1, PickedOfNone
<1>6. ASSUME NEW k \in Nat, k \in A PROVE k + 1 \in A
  <2>1. ASSUME k + 1 <= n PROVE PickedOf(items, f, k + 1, R[k + 1])
    <3>1. k + 1 \in 0..n /\ k + 1 # 0 /\ (k + 1) - 1 = k /\ k <= n /\ k + 1 <= Len(items)
      BY <1>2, <2>1 DEF n
    <3>2. R[k + 1] = IF Answers(items[k + 1], f) THEN Append(R[k], items[k + 1]) ELSE R[k]
      BY <1>4, <3>1 DEF Pick1, Answers
    <3>3. PickedOf(items, f, k, R[k])
      BY <1>6, <3>1
    <3> QED
      BY <3>1, <3>2, <3>3, PickedOfMore
  <2> QED
    BY <2>1
<1> HIDE DEF A
<1>7. \A k \in Nat : k \in A
  BY <1>5, <1>6, SetInduction
<1>8. n \in A /\ n <= n
  BY <1>2, <1>7
<1> QED
  BY <1>1, <1>8 DEF A, n

\* The beginning of a list of items is one.
LEMMA ItemsBegin ==
  ASSUME NEW S, NEW s \in Seq(S), AreItems(s), NEW m \in Nat, m <= Len(s)
  PROVE  /\ AreItems(SubSeq(s, 1, m)) /\ Len(SubSeq(s, 1, m)) = m /\ SubSeq(s, 1, m) \in Seq(S)
         /\ \A i \in 1..m : SubSeq(s, 1, m)[i] = s[i]
<1> DEFINE t == SubSeq(s, 1, m)
<1>1. Len(s) \in Nat /\ \A i, j \in 1..Len(s) : s[i] = s[j] => i = j
  BY DEF AreItems
<1>2. Len(t) = m /\ t \in Seq(S) /\ DOMAIN t = 1..m
  BY <1>1
<1>3. \A i \in 1..m : t[i] = s[i]
  BY <1>1
<1> HIDE DEF t
<1>4. 1..m \subseteq 1..Len(s)
  BY <1>1
<1>5. AreItems(t)
  BY <1>1, <1>2, <1>3, <1>4 DEF AreItems
<1> QED
  BY <1>2, <1>3, <1>5 DEF t

\* The page that is read: the items, or their beginning.
LEMMA PageBegins ==
  ASSUME NEW S, NEW items \in Seq(S), AreItems(items), NEW backend, NEW limit \in Nat
  PROVE  LET page == StateStore!PageOf(backend, items, limit)
         IN  /\ AreItems(page) /\ page \in Seq(S) /\ Len(page) <= Len(items)
             /\ \A i \in 1..Len(page) : page[i] = items[i]
             /\ StateStore!Fits(backend, items, limit) => page = items
<1> DEFINE m == 2 * StateStore!Most(backend, limit)
           page == StateStore!PageOf(backend, items, limit)
<1>1. m \in Nat
  BY DEF StateStore!Most
<1>2. Len(items) \in Nat
  BY DEF AreItems
<1>3. page = IF backend = "dynamodb" /\ Len(items) > m THEN SubSeq(items, 1, m) ELSE items
  BY DEF StateStore!PageOf
<1>4. StateStore!Fits(backend, items, limit) <=> (backend = "dynamodb" => Len(items) <= m)
  BY DEF StateStore!Fits
<1> HIDE DEF m, page
<1>5. CASE backend = "dynamodb" /\ Len(items) > m
  <2>1. m <= Len(items)
    BY <1>1, <1>2, <1>5
  <2>2. /\ AreItems(SubSeq(items, 1, m)) /\ Len(SubSeq(items, 1, m)) = m /\ SubSeq(items, 1, m) \in Seq(S)
        /\ \A i \in 1..m : SubSeq(items, 1, m)[i] = items[i]
    BY <1>1, <2>1, ItemsBegin
  <2>3. ~(Len(items) <= m)
    BY <1>1, <1>2, <1>5
  <2>4. page = SubSeq(items, 1, m)
    BY <1>3, <1>5
  <2>5. Len(page) = m /\ AreItems(page) /\ page \in Seq(S) /\ \A i \in 1..m : page[i] = items[i]
    BY <2>2, <2>4
  <2> QED
    BY <1>4, <1>5, <2>1, <2>3, <2>5 DEF page
<1>6. CASE ~(backend = "dynamodb" /\ Len(items) > m)
  <2>1. page = items
    BY <1>3, <1>6
  <2> QED
    BY <1>2, <2>1 DEF page
<1> QED
  BY <1>5, <1>6

\* What List answers.
ListedOf(backend, items, f, l) ==
  /\ AreItems(l)
  /\ \A i \in 1..Len(l) : \E j \in 1..Len(items) : l[i] = items[j] /\ Answers(items[j], f)
  /\ f.limit > 0 => Len(l) <= f.limit
  /\ StateStore!Fits(backend, items, f.limit) =>
       \/ Len(l) = StateStore!Most(backend, f.limit) /\ Len(l) > 0
       \/ \A j \in 1..Len(items) : Answers(items[j], f) => \E i \in 1..Len(l) : l[i] = items[j]

\* List answers it.
LEMMA ListIsOf ==
  ASSUME NEW S, NEW items \in Seq(S), AreItems(items), NEW backend, NEW f, f.limit \in Nat
  PROVE  ListedOf(backend, items, f, StateStore!List(backend, items, f))
<1> DEFINE page == StateStore!PageOf(backend, items, f.limit)
           found == StateStore!Picked(page, f)
           most == StateStore!Most(backend, f.limit)
           l == StateStore!List(backend, items, f)
<1>1. /\ AreItems(page) /\ page \in Seq(S) /\ Len(page) <= Len(items)
      /\ \A i \in 1..Len(page) : page[i] = items[i]
      /\ StateStore!Fits(backend, items, f.limit) => page = items
  BY PageBegins
<1>2. most \in Nat /\ (f.limit > 0 => most = f.limit)
  BY DEF StateStore!Most
<1>3. l = IF most > 0 /\ Len(found) > most THEN SubSeq(found, 1, most) ELSE found
  BY DEF StateStore!List
<1> HIDE DEF page, most, l
<1>4. PickedOf(page, f, Len(page), found)
  BY <1>1, PickedAreAnswers
<1> HIDE DEF found
<1>5. found \in Seq({page[i] : i \in 1..Len(page)}) /\ AreItems(found)
  BY <1>4 DEF PickedOf
<1>6. \A i \in 1..Len(found) : \E j \in 1..Len(page) : found[i] = page[j] /\ Answers(page[j], f)
  BY <1>4 DEF PickedOf
<1>7. \A j \in 1..Len(page) : Answers(page[j], f) => \E i \in 1..Len(found) : found[i] = page[j]
  BY <1>4 DEF PickedOf
<1>8. Len(found) \in Nat /\ Len(page) \in Nat /\ Len(items) \in Nat
  BY <1>1, <1>5 DEF AreItems
<1>9. AreItems(l) /\ Len(l) <= Len(found) /\ Len(l) \in Nat /\ \A i \in 1..Len(l) : l[i] = found[i]
  <2>1. CASE most > 0 /\ Len(found) > most
    <3>1. most <= Len(found)
      BY <1>2, <1>8, <2>1
    <3>2. /\ AreItems(SubSeq(found, 1, most)) /\ Len(SubSeq(found, 1, most)) = most
          /\ \A i \in 1..most : SubSeq(found, 1, most)[i] = found[i]
      BY <1>2, <1>5, <3>1, ItemsBegin
    <3>3. l = SubSeq(found, 1, most)
      BY <1>3, <2>1
    <3>4. AreItems(l) /\ Len(l) = most /\ \A i \in 1..most : l[i] = found[i]
      BY <3>2, <3>3
    <3> QED
      BY <1>2, <3>1, <3>4
  <2>2. CASE ~(most > 0 /\ Len(found) > most)
    <3>1. l = found
      BY <1>3, <2>2
    <3> QED
      BY <1>5, <1>8, <3>1
  <2> QED
    BY <2>1, <2>2
<1>10. ASSUME NEW i \in 1..Len(l) PROVE \E j \in 1..Len(items) : l[i] = items[j] /\ Answers(items[j], f)
  <2>1. i \in 1..Len(found)
    BY <1>8, <1>9
  <2>2. PICK j \in 1..Len(page) : found[i] = page[j] /\ Answers(page[j], f)
    BY <1>6, <2>1
  <2>3. j \in 1..Len(items) /\ page[j] = items[j]
    BY <1>1, <1>8, <2>2
  <2> QED
    BY <1>9, <2>2, <2>3
<1>11. (most > 0 /\ Len(l) = most) \/ (l = found /\ ~(most > 0 /\ Len(found) > most))
  <2>1. CASE most > 0 /\ Len(found) > most
    <3>1. most <= Len(found)
      BY <1>2, <1>8, <2>1
    <3>2. Len(SubSeq(found, 1, most)) = most
      BY <1>2, <1>5, <3>1, ItemsBegin
    <3> QED
      BY <1>3, <2>1, <3>2
  <2>2. CASE ~(most > 0 /\ Len(found) > most)
    <3>1. l = found
      BY <1>3, <2>2
    <3> QED
      BY <2>2, <3>1
  <2> QED
    BY <2>1, <2>2
<1>12. f.limit > 0 => Len(l) <= f.limit
  BY <1>2, <1>9, <1>11
<1>13. ASSUME StateStore!Fits(backend, items, f.limit), ~(Len(l) = most /\ Len(l) > 0),
              NEW j \in 1..Len(items), Answers(items[j], f)
       PROVE  \E i \in 1..Len(l) : l[i] = items[j]
  <2>1. page = items /\ l = found
    BY <1>1, <1>2, <1>9, <1>11, <1>13
  <2> QED
    BY <1>7, <1>13, <2>1
<1> QED
  BY <1>9, <1>10, <1>12, <1>13 DEF ListedOf, l, most

\* A set of numbers up to n has a greatest one.
LEMMA GreatestNatural ==
  ASSUME NEW n \in Nat, NEW At, At \subseteq 1..n, At # {}
  PROVE  StateStore!Max(At) \in At /\ \A i \in At : StateStore!Max(At) >= i
<1> DEFINE T == {n - i : i \in At}
<1>1. T \subseteq Nat /\ T # {}
  <2>1. \A i \in At : n - i \in Nat
    OBVIOUS
  <2>2. T \subseteq Nat
    BY <2>1
  <2>3. PICK i \in At : TRUE
    OBVIOUS
  <2>4. n - i \in T
    OBVIOUS
  <2> QED
    BY <2>2, <2>4
<1>2. PICK m \in T : \A k \in T : m <= k
  BY <1>1, LeastNatural
<1>3. PICK g \in At : m = n - g
  BY <1>2
<1>4. \A i \in At : n - g <= n - i
  BY <1>2, <1>3
<1>5. \A i \in At : g >= i
  BY <1>4
<1> QED
  BY <1>5 DEF StateStore!Max

\* Saves in the order of their times.
AreSaves(saves) ==
  /\ Len(saves) \in Nat /\ DOMAIN saves = 1..Len(saves)
  /\ \A i, j \in DOMAIN saves : i <= j => saves[j].updated >= saves[i].updated

\* The j-th save is the last one under key k.
LastUnder(backend, saves, k, j) ==
  /\ j \in 1..Len(saves) /\ StateStore!Key(backend, saves[j].id) = k
  /\ \A i \in 1..Len(saves) : StateStore!Key(backend, saves[i].id) = k => i <= j

\* A key is kept if something is saved under it.
LEMMA KeptKeys ==
  ASSUME NEW backend, NEW saves, AreSaves(saves)
  PROVE  DOMAIN StateStore!Kept(backend, saves) = {StateStore!Key(backend, saves[i].id) : i \in 1..Len(saves)}
BY DEF StateStore!Kept, StateStore!Range, AreSaves

\* What is kept under a key is the last save.
LEMMA KeptIsLast ==
  ASSUME NEW backend, NEW saves, AreSaves(saves), NEW k \in DOMAIN StateStore!Kept(backend, saves)
  PROVE  \E j \in 1..Len(saves) : LastUnder(backend, saves, k, j) /\ StateStore!Kept(backend, saves)[k] = saves[j]
<1> DEFINE At == {i \in 1..Len(saves) : StateStore!Key(backend, saves[i].id) = k}
           j == StateStore!Max(At)
<1>1. Len(saves) \in Nat /\ DOMAIN saves = 1..Len(saves)
  BY DEF AreSaves
<1>2. At # {} /\ At \subseteq 1..Len(saves)
  <2>1. k \in {StateStore!Key(backend, saves[i].id) : i \in 1..Len(saves)}
    BY KeptKeys, Zenon
  <2>2. PICK i \in 1..Len(saves) : k = StateStore!Key(backend, saves[i].id)
    BY <2>1
  <2>3. i \in At
    BY <2>2
  <2> QED
    BY <2>3
<1>3. StateStore!Kept(backend, saves)[k] = saves[j]
  <2>1. StateStore!Kept(backend, saves)[k] =
          saves[StateStore!SelectLastInSeq(saves, LAMBDA s : StateStore!Key(backend, s.id) = k)]
    BY DEF StateStore!Kept
  <2> QED
    BY <1>2, <2>1 DEF StateStore!SelectLastInSeq
<1>4. j \in At /\ \A i \in At : j >= i
  <2> HIDE DEF At
  <2> QED
    BY <1>1, <1>2, GreatestNatural
<1> HIDE DEF j
<1>5. j \in 1..Len(saves) /\ StateStore!Key(backend, saves[j].id) = k
  BY <1>4
<1>6. \A i \in 1..Len(saves) : StateStore!Key(backend, saves[i].id) = k => i <= j
  BY <1>1, <1>4
<1> QED
  BY <1>3, <1>5, <1>6 DEF LastUnder

\* A backend lists its rows, in DynamoDB the locks among them.
RowsOf(backend, saves) ==
  {<<StateStore!Kept(backend, saves)[k]>> : k \in DOMAIN StateStore!Kept(backend, saves)}

\* All that it lists.
TableOf(backend, saves, locks) ==
  IF backend = "dynamodb" THEN RowsOf(backend, saves) \cup {<<"lock", l>> : l \in 1..locks}
  ELSE RowsOf(backend, saves)

\* The table is finite.
LEMMA TableIsFinite ==
  ASSUME NEW backend, NEW saves, AreSaves(saves), NEW locks \in Nat
  PROVE  IsFiniteSet(TableOf(backend, saves, locks))
<1> DEFINE R == RowsOf(backend, saves)
           L == {<<"lock", l>> : l \in 1..locks}
           n == Len(saves)
           F == [i \in 1..n |-> <<StateStore!Kept(backend, saves)[StateStore!Key(backend, saves[i].id)]>>]
           G == [l \in 1..locks |-> <<"lock", l>>]
<1>1. n \in Nat
  BY DEF AreSaves
<1>2. F \in Surjection(1..n, R)
  <2>1. \A i \in 1..n : F[i] \in R
    BY KeptKeys DEF RowsOf
  <2>2. ASSUME NEW x \in R PROVE \E i \in 1..n : F[i] = x
    <3>1. PICK k \in DOMAIN StateStore!Kept(backend, saves) : x = <<StateStore!Kept(backend, saves)[k]>>
      BY <2>2 DEF RowsOf
    <3>2. k \in {StateStore!Key(backend, saves[i].id) : i \in 1..Len(saves)}
      BY <3>1, KeptKeys, Zenon
    <3>3. PICK i \in 1..n : k = StateStore!Key(backend, saves[i].id)
      BY <3>2
    <3>4. F[i] = x
      BY <3>1, <3>3
    <3> QED
      BY <3>4
  <2> HIDE DEF R
  <2>3. F \in [1..n -> R]
    BY <2>1
  <2> HIDE DEF F
  <2> QED
    BY <2>2, <2>3 DEF Surjection
<1>3. G \in Surjection(1..locks, L)
  BY DEF Surjection
<1> HIDE DEF R, L, F, G
<1>4. IsFiniteSet(1..n) /\ IsFiniteSet(1..locks)
  BY <1>1, FS_Interval
<1>5. IsFiniteSet(R) /\ IsFiniteSet(L)
  BY <1>2, <1>3, <1>4, FS_Surjection
<1>6. IsFiniteSet(R \cup L)
  BY <1>5, FS_Union
<1> QED
  BY <1>5, <1>6 DEF TableOf, R, L

\* Whatever its order, a list of the table has every item once.
LEMMA OrdersAreItems ==
  ASSUME NEW backend, NEW saves, AreSaves(saves), NEW locks \in Nat,
         NEW items \in StateStore!Orders(backend, saves, locks)
  PROVE  items \in Seq(TableOf(backend, saves, locks)) /\ AreItems(items)
<1> DEFINE all == TableOf(backend, saves, locks)
           c == Cardinality(all)
<1>1. c \in Nat
  BY TableIsFinite, FS_CardinalityType
<1>2. StateStore!Orders(backend, saves, locks) = StateStore!SetToSeqs(all)
  BY DEF StateStore!Orders, TableOf, RowsOf
<1> HIDE DEF all
<1>3. items \in [1..c -> all] /\ \A i, j \in 1..c : i # j => items[i] # items[j]
  <2>1. StateStore!Cardinality(all) = Cardinality(all)
    BY DEF StateStore!Cardinality, Cardinality
  <2> QED
    BY <1>2, <2>1 DEF StateStore!SetToSeqs
<1> HIDE DEF c
<1>4. items \in Seq(all) /\ Len(items) = c
  BY <1>1, <1>3
<1>5. AreItems(items)
  BY <1>1, <1>3, <1>4 DEF AreItems
<1> QED
  BY <1>4, <1>5 DEF all

\* A filter.
IsFilter(f) ==
  /\ f = [id |-> f.id, correlation |-> f.correlation, status |-> f.status, from |-> f.from, to |-> f.to,
          limit |-> f.limit]
  /\ f.limit \in Nat

\* Load finds the last save under the key of the id; it finds what has been saved.
LEMMA LoadsTheLast ==
  ASSUME NEW backend, NEW saves, AreSaves(saves), NEW id
  PROVE  /\ \A x \in StateStore!Load(backend, saves, id) :
              \E j \in 1..Len(saves) : LastUnder(backend, saves, StateStore!Key(backend, id), j) /\ x = saves[j]
         /\ \A i \in 1..Len(saves) : saves[i].id = id => StateStore!Load(backend, saves, id) # {}
<1> DEFINE K == StateStore!Kept(backend, saves)
           k == StateStore!Key(backend, id)
<1>1. StateStore!Load(backend, saves, id) = IF k \in DOMAIN K THEN {K[k]} ELSE {}
  BY DEF StateStore!Load
<1>2. ASSUME k \in DOMAIN K
      PROVE  \E j \in 1..Len(saves) : LastUnder(backend, saves, k, j) /\ K[k] = saves[j]
  BY <1>2, KeptIsLast
<1>3. ASSUME NEW i \in 1..Len(saves), saves[i].id = id PROVE k \in DOMAIN K
  <2>1. DOMAIN K = {StateStore!Key(backend, saves[l].id) : l \in 1..Len(saves)}
    BY KeptKeys
  <2> QED
    BY <1>3, <2>1
<1> HIDE DEF K, k
<1>4. \A x \in StateStore!Load(backend, saves, id) : k \in DOMAIN K /\ x = K[k]
  BY <1>1
<1>5. k \in DOMAIN K => StateStore!Load(backend, saves, id) # {}
  BY <1>1
<1> QED
  BY <1>2, <1>3, <1>4, <1>5 DEF k

\* Names that differ tell messages apart.
LEMMA NamesTell ==
  ASSUME NEW backend, NEW ids, StateStore!NamesDiffer(backend, ids), NEW a \in ids, NEW b \in ids,
         StateStore!Key(backend, a) = StateStore!Key(backend, b)
  PROVE  a = b
BY DEF StateStore!NamesDiffer, StateStore!IsInjective

\* The items that a filter asks for.
MatchingOf(items, f) ==
  {x \in StateStore!Range(items) : StateStore!IsSnapshot(x) /\ StateStore!Matches(x[1], f)}

\* They are the ones that are answered.
LEMMA MatchingAnswers ==
  ASSUME NEW items, AreItems(items), NEW f
  PROVE  MatchingOf(items, f) = {x \in {items[j] : j \in 1..Len(items)} : Answers(x, f)}
BY DEF MatchingOf, StateStore!Range, AreItems, Answers

\* A list that holds all of them is as long as they are many.
LEMMA AllAreCounted ==
  ASSUME NEW items, AreItems(items), NEW f, NEW l, AreItems(l),
         \A j \in 1..Len(items) : Answers(items[j], f) => \E i \in 1..Len(l) : l[i] = items[j]
  PROVE  Len(l) >= Cardinality(MatchingOf(items, f))
<1> DEFINE n == Len(l)
           L == {l[i] : i \in 1..n}
           F == [i \in 1..n |-> l[i]]
           M == MatchingOf(items, f)
<1>1. n \in Nat
  BY DEF AreItems
<1>2. M \subseteq L
  <2>1. ASSUME NEW x \in M PROVE x \in L
    <3>1. x \in {items[j] : j \in 1..Len(items)} /\ Answers(x, f)
      BY <2>1, MatchingAnswers
    <3>2. PICK j \in 1..Len(items) : x = items[j]
      BY <3>1
    <3>3. PICK i \in 1..Len(l) : l[i] = items[j]
      BY <3>1, <3>2
    <3> QED
      BY <3>2, <3>3
  <2> HIDE DEF M, L
  <2> QED
    BY <2>1
<1>3. F \in Surjection(1..n, L)
  BY DEF Surjection
<1> HIDE DEF n, L, F, M
<1>4. IsFiniteSet(1..n) /\ Cardinality(1..n) = n
  BY <1>1, FS_Interval
<1>5. IsFiniteSet(L) /\ Cardinality(L) <= n
  BY <1>3, <1>4, FS_Surjection
<1>6. IsFiniteSet(M) /\ Cardinality(M) <= Cardinality(L)
  BY <1>2, <1>5, FS_Subset
<1>7. Cardinality(M) \in Nat /\ Cardinality(L) \in Nat
  BY <1>5, <1>6, FS_CardinalityType
<1> QED
  BY <1>1, <1>5, <1>6, <1>7 DEF n, M

\* What getExecution asks for.
LEMMA AskedAnswers ==
  ASSUME NEW f, IsFilter(f), NEW x
  PROVE  /\ StateStore!Asked(f).limit \in Nat
         /\ Answers(x, StateStore!Asked(f)) <=> Answers(x, f)
         /\ Answers(x, f) => StateStore!AnyOf(f.id, x[1].id)
<1> DEFINE g == [id |-> f.id, correlation |-> f.correlation, status |-> f.status, from |-> f.from, to |-> f.to,
                 limit |-> IF f.limit = 0 THEN 20 ELSE f.limit]
<1>1. StateStore!Asked(f) = g
  BY DEF IsFilter, StateStore!Asked
<1>2. g.limit \in Nat
  BY DEF IsFilter
<1>3. g.id = f.id /\ g.correlation = f.correlation /\ g.status = f.status /\ g.from = f.from /\ g.to = f.to
  OBVIOUS
<1> HIDE DEF g
<1>4. Answers(x, g) <=> Answers(x, f)
  BY <1>3 DEF Answers, StateStore!Matches
<1>5. Answers(x, f) => StateStore!AnyOf(f.id, x[1].id)
  BY DEF Answers, StateStore!Matches
<1> QED
  BY <1>1, <1>2, <1>4, <1>5

\* What find_executions finds.
FindsOf(backend, items, f) ==
  {x \in StateStore!Range(StateStore!FindExecutions(backend, items, f)) : \A t \in f.to : x[1].updated <= t}
    \subseteq {x \in StateStore!Range(items) :
                 StateStore!IsSnapshot(x) /\ StateStore!Matches(x[1], [f EXCEPT !.id = {}, !.from = {}])}

\* If all arguments are given, it is what they ask for.
LEMMA FindsWhatIsAsked ==
  ASSUME NEW S, NEW backend, NEW items \in Seq(S), AreItems(items), NEW f, IsFilter(f),
         f.correlation # {}, f.status # {}
  PROVE  FindsOf(backend, items, f)
<1> DEFINE g == [f EXCEPT !.id = {}, !.from = {}, !.to = {}, !.limit = 20,
                          !.correlation = IF @ = {} THEN {"<nil>"} ELSE @,
                          !.status = IF @ = {} THEN {"<nil>"} ELSE @]
           h == [f EXCEPT !.id = {}, !.from = {}]
           l == StateStore!List(backend, items, g)
<1>1. StateStore!FindExecutions(backend, items, f) = l
  BY DEF StateStore!FindExecutions
<1>2. [f EXCEPT !.id = {}, !.from = {}] = h
  OBVIOUS
<1>3. g = [f EXCEPT !.id = {}, !.from = {}, !.to = {}, !.limit = 20,
                    !.correlation = IF @ = {} THEN {"<nil>"} ELSE @,
                    !.status = IF @ = {} THEN {"<nil>"} ELSE @]
  OBVIOUS
<1> HIDE DEF g, h
<1>4. /\ g.id = {} /\ g.correlation = f.correlation /\ g.status = f.status /\ g.from = {} /\ g.to = {}
      /\ g.limit = 20
      /\ h.id = {} /\ h.correlation = f.correlation /\ h.status = f.status /\ h.from = {} /\ h.to = f.to
  <2>1. f = [id |-> f.id, correlation |-> f.correlation, status |-> f.status, from |-> f.from, to |-> f.to,
             limit |-> f.limit]
    BY DEF IsFilter
  <2>2. DOMAIN f = {"id", "correlation", "status", "from", "to", "limit"}
    BY <2>1
  <2> QED
    BY <1>2, <1>3, <2>1, <2>2
<1>5. ListedOf(backend, items, g, l)
  BY <1>4, ListIsOf
<1> HIDE DEF l
<1>6. ASSUME NEW x \in StateStore!Range(l), \A t \in f.to : x[1].updated <= t
      PROVE  x \in StateStore!Range(items) /\ StateStore!IsSnapshot(x) /\ StateStore!Matches(x[1], h)
  <2>1. DOMAIN l = 1..Len(l) /\ DOMAIN items = 1..Len(items)
    BY <1>5 DEF ListedOf, AreItems
  <2>2. PICK i \in 1..Len(l) : x = l[i]
    BY <1>6, <2>1 DEF StateStore!Range
  <2>3. PICK j \in 1..Len(items) : l[i] = items[j] /\ Answers(items[j], g)
    BY <1>5 DEF ListedOf
  <2>4. x \in StateStore!Range(items) /\ Answers(x, g)
    BY <2>1, <2>2, <2>3 DEF StateStore!Range
  <2>5. StateStore!IsSnapshot(x) /\ StateStore!Matches(x[1], g)
    BY <2>4 DEF Answers
  <2>6. StateStore!Matches(x[1], h)
    BY <1>4, <1>6, <2>5 DEF StateStore!Matches
  <2> QED
    BY <2>4, <2>5, <2>6
<1> QED
  BY <1>1, <1>2, <1>6 DEF FindsOf

\* What Load finds of a message is its own last snapshot, if the names of the
\* messages differ.
LoadsItsOwn(backend, saves) ==
  \A s \in StateStore!Range(saves) : \A x \in StateStore!Load(backend, saves, s.id) :
    x.id = s.id /\ x.updated >= s.updated

\* Load does.
LEMMA LoadsTheLatest ==
  ASSUME NEW backend, NEW saves, AreSaves(saves), NEW ids,
         StateStore!NamesDiffer(backend, {s.id : s \in StateStore!Range(saves)} \cup ids)
  PROVE  LoadsItsOwn(backend, saves)
<1> SUFFICES ASSUME NEW s \in StateStore!Range(saves), NEW x \in StateStore!Load(backend, saves, s.id)
             PROVE  x.id = s.id /\ x.updated >= s.updated
  BY DEF LoadsItsOwn
<1> DEFINE names == {t.id : t \in StateStore!Range(saves)} \cup ids
           k == StateStore!Key(backend, s.id)
<1>1. DOMAIN saves = 1..Len(saves)
  BY DEF AreSaves
<1>2. PICK i \in 1..Len(saves) : s = saves[i]
  BY <1>1 DEF StateStore!Range
<1>3. PICK j \in 1..Len(saves) : LastUnder(backend, saves, k, j) /\ x = saves[j]
  BY LoadsTheLast
<1>4. StateStore!Key(backend, x.id) = k /\ i <= j
  BY <1>2, <1>3 DEF LastUnder
<1>5. x \in StateStore!Range(saves)
  BY <1>1, <1>3 DEF StateStore!Range
<1>6. x.id \in names /\ s.id \in names
  BY <1>5
<1> HIDE DEF names
<1>7. x.id = s.id
  BY <1>4, <1>6, NamesTell DEF names, k
<1>8. x.updated >= s.updated
  BY <1>1, <1>2, <1>3, <1>4 DEF AreSaves
<1> QED
  BY <1>7, <1>8

\* getExecution answers what has the id it is asked for.
AnswersTheId(backend, saves, items, f) ==
  \A x \in StateStore!GetExecution(backend, saves, items, f) : StateStore!AnyOf(f.id, x.id)

\* It does, if the names of the messages differ.
LEMMA GetsWhatIsAsked ==
  ASSUME NEW backend, NEW saves, AreSaves(saves), NEW S, NEW items \in Seq(S), AreItems(items),
         NEW f, IsFilter(f),
         StateStore!NamesDiffer(backend, {s.id : s \in StateStore!Range(saves)} \cup f.id)
  PROVE  AnswersTheId(backend, saves, items, f)
<1> SUFFICES ASSUME NEW x \in StateStore!GetExecution(backend, saves, items, f)
             PROVE  StateStore!AnyOf(f.id, x.id)
  BY DEF AnswersTheId
<1>1. CASE f.id = {}
  BY <1>1 DEF StateStore!AnyOf
<1>2. CASE f.id # {}
  <2> DEFINE names == {t.id : t \in StateStore!Range(saves)} \cup f.id
  <2>1. PICK id \in f.id : x \in StateStore!Load(backend, saves, id)
    BY <1>2 DEF StateStore!GetExecution
  <2>2. PICK j \in 1..Len(saves) : LastUnder(backend, saves, StateStore!Key(backend, id), j) /\ x = saves[j]
    <3>1. \A y \in StateStore!Load(backend, saves, id) :
            \E j \in 1..Len(saves) : LastUnder(backend, saves, StateStore!Key(backend, id), j) /\ y = saves[j]
      BY LoadsTheLast
    <3> QED
      BY <2>1, <3>1
  <2>3. StateStore!Key(backend, x.id) = StateStore!Key(backend, id)
    BY <2>2 DEF LastUnder
  <2>4. x \in StateStore!Range(saves)
    BY <2>2 DEF StateStore!Range, AreSaves
  <2>5. x.id \in names /\ id \in names
    BY <2>1, <2>4
  <2> HIDE DEF names
  <2>6. x.id = id
    BY <2>3, <2>5, NamesTell DEF names
  <2> QED
    BY <2>1, <2>6 DEF StateStore!AnyOf
<1> QED
  BY <1>1, <1>2

\* The snapshots of a table are rows.
LEMMA SnapshotsAreRows ==
  ASSUME NEW backend, NEW saves, NEW locks, NEW x \in TableOf(backend, saves, locks), StateStore!IsSnapshot(x)
  PROVE  x \in RowsOf(backend, saves)
<1>1. \A l : Len(<<"lock", l>>) # 1
  OBVIOUS
<1>2. \A l \in 1..locks : x # <<"lock", l>>
  BY <1>1 DEF StateStore!IsSnapshot
<1>3. x \in RowsOf(backend, saves) \cup {<<"lock", l>> : l \in 1..locks}
  BY DEF TableOf
<1> QED
  BY <1>2, <1>3

\* getExecution answers something if something matches.
LEMMA GetsSomething ==
  ASSUME NEW backend, NEW saves, AreSaves(saves), NEW locks \in Nat,
         NEW items \in Seq(TableOf(backend, saves, locks)), AreItems(items), NEW f, IsFilter(f),
         MatchingOf(items, f) # {}, StateStore!Fits(backend, items, StateStore!Asked(f).limit)
  PROVE  StateStore!GetExecution(backend, saves, items, f) # {}
<1> DEFINE g == StateStore!Asked(f)
           l == StateStore!List(backend, items, g)
<1>1. PICK x \in {items[j] : j \in 1..Len(items)} : Answers(x, f)
  BY MatchingAnswers
<1>2. PICK j \in 1..Len(items) : x = items[j]
  BY <1>1
<1>3. g.limit \in Nat /\ Answers(x, g) /\ StateStore!AnyOf(f.id, x[1].id)
  BY <1>1, AskedAnswers
<1>4. CASE f.id # {}
  <2>1. x[1].id \in f.id
    BY <1>3, <1>4 DEF StateStore!AnyOf
  <2>2. x \in RowsOf(backend, saves)
    <3>1. x \in TableOf(backend, saves, locks)
      BY <1>2
    <3> QED
      BY <1>1, <3>1, SnapshotsAreRows DEF Answers
  <2>3. PICK k \in DOMAIN StateStore!Kept(backend, saves) : x = <<StateStore!Kept(backend, saves)[k]>>
    BY <2>2 DEF RowsOf
  <2>4. PICK i \in 1..Len(saves) : StateStore!Kept(backend, saves)[k] = saves[i]
    BY KeptIsLast
  <2>5. x[1] = saves[i]
    BY <2>3, <2>4
  <2>6. StateStore!Load(backend, saves, x[1].id) # {}
    BY <2>5, LoadsTheLast
  <2> QED
    BY <1>4, <2>1, <2>6 DEF StateStore!GetExecution
<1>5. CASE f.id = {}
  <2> HIDE DEF g
  <2>1. ListedOf(backend, items, g, l)
    BY <1>3, ListIsOf
  <2> HIDE DEF l
  <2>2. DOMAIN l = 1..Len(l) /\ Len(l) \in Nat
    BY <2>1 DEF ListedOf, AreItems
  <2>3. Len(l) > 0 \/ \E i \in 1..Len(l) : l[i] = items[j]
    BY <1>2, <1>3, <2>1 DEF ListedOf, g
  <2>4. 1 \in 1..Len(l)
    BY <2>2, <2>3
  <2>5. l[1] \in StateStore!Range(l)
    BY <2>2, <2>4 DEF StateStore!Range
  <2> QED
    BY <1>5, <2>5 DEF StateStore!GetExecution, g, l
<1> QED
  BY <1>4, <1>5

\* What List answers matches, each snapshot once, and is no more than asked for.
ListsMatches(backend, items, f) ==
  LET listed == StateStore!List(backend, items, f)
  IN  /\ StateStore!IsInjective(listed) /\ StateStore!Range(listed) \subseteq MatchingOf(items, f)
      /\ f.limit > 0 => Len(listed) <= f.limit

\* All that matches is answered, unless the answer is as long as it may be.
ListsAll(backend, items, f) ==
  LET listed == StateStore!List(backend, items, f)
  IN  StateStore!Fits(backend, items, f.limit) =>
        Len(listed) >= StateStore!Cardinality(MatchingOf(items, f)) \/ Len(listed) = StateStore!Most(backend, f.limit)

\* Both hold of every list of items.
LEMMA ListAnswers ==
  ASSUME NEW S, NEW items \in Seq(S), AreItems(items), NEW backend, NEW f, IsFilter(f)
  PROVE  ListsMatches(backend, items, f) /\ ListsAll(backend, items, f)
<1> DEFINE l == StateStore!List(backend, items, f)
           M == MatchingOf(items, f)
<1>1. ListedOf(backend, items, f, l)
  BY ListIsOf DEF IsFilter
<1> HIDE DEF l
<1>2. AreItems(l)
  BY <1>1 DEF ListedOf
<1>3. StateStore!IsInjective(l)
  BY <1>2 DEF AreItems, StateStore!IsInjective
<1>4. M = {x \in {items[j] : j \in 1..Len(items)} : Answers(x, f)}
  BY MatchingAnswers
<1> HIDE DEF M
<1>5. ASSUME NEW x \in StateStore!Range(l) PROVE x \in M
  <2>1. PICK i \in 1..Len(l) : x = l[i]
    BY <1>2 DEF StateStore!Range, AreItems
  <2>2. PICK j \in 1..Len(items) : l[i] = items[j] /\ Answers(items[j], f)
    BY <1>1 DEF ListedOf
  <2> QED
    BY <1>4, <2>1, <2>2
<1>6. ListsMatches(backend, items, f)
  BY <1>1, <1>3, <1>5 DEF ListedOf, ListsMatches, l, M
<1>7. ASSUME StateStore!Fits(backend, items, f.limit), Len(l) # StateStore!Most(backend, f.limit)
      PROVE  Len(l) >= StateStore!Cardinality(M)
  <2>1. \A j \in 1..Len(items) : Answers(items[j], f) => \E i \in 1..Len(l) : l[i] = items[j]
    BY <1>1, <1>7 DEF ListedOf
  <2>2. Len(l) >= Cardinality(M)
    BY <1>2, <2>1, AllAreCounted DEF M
  <2>3. StateStore!Cardinality(M) = Cardinality(M)
    BY DEF StateStore!Cardinality, Cardinality
  <2> QED
    BY <2>2, <2>3
<1>8. ListsAll(backend, items, f)
  BY <1>7 DEF ListsAll, l, M
<1> QED
  BY <1>6, <1>8

\* ListIsComplete for every input: whatever the saves, the locks, the order of the
\* table, the filter and its limit, and however long the table is.
THEOREM ListingsAreComplete == Spec => []ListIsComplete
<1>1. ASSUME NEW i \in Of("listing")
      PROVE  StateStore!ListsWhatIsKept(i.backend, i.saves, i.locks, i.filter)
  <2> DEFINE backend == i.backend
             saves == i.saves
             locks == i.locks
             f == i.filter
  <2>1. AreSaves(saves) /\ IsFilter(f) /\ locks \in Nat
    BY SavesAreOrdered DEF StateStore!IsListing, AreSaves, IsFilter
  <2> HIDE DEF backend, saves, locks, f
  <2>2. ASSUME NEW items \in StateStore!Orders(backend, saves, locks)
        PROVE  /\ ListsMatches(backend, items, f) /\ ListsAll(backend, items, f)
               /\ f.correlation # {} /\ f.status # {} => FindsOf(backend, items, f)
               /\ StateStore!NamesDiffer(backend, {s.id : s \in StateStore!Range(saves)} \cup f.id) =>
                    /\ LoadsItsOwn(backend, saves)
                    /\ AnswersTheId(backend, saves, items, f)
                    /\ MatchingOf(items, f) # {} /\ StateStore!Fits(backend, items, StateStore!Asked(f).limit) =>
                         StateStore!GetExecution(backend, saves, items, f) # {}
    <3>1. items \in Seq(TableOf(backend, saves, locks)) /\ AreItems(items)
      BY <2>1, OrdersAreItems
    <3>2. ListsMatches(backend, items, f) /\ ListsAll(backend, items, f)
      BY <2>1, <3>1, ListAnswers
    <3>3. f.correlation # {} /\ f.status # {} => FindsOf(backend, items, f)
      BY <2>1, <3>1, FindsWhatIsAsked
    <3>4. StateStore!NamesDiffer(backend, {s.id : s \in StateStore!Range(saves)} \cup f.id) =>
            LoadsItsOwn(backend, saves) /\ AnswersTheId(backend, saves, items, f)
      BY <2>1, <3>1, LoadsTheLatest, GetsWhatIsAsked
    <3>5. MatchingOf(items, f) # {} /\ StateStore!Fits(backend, items, StateStore!Asked(f).limit) =>
            StateStore!GetExecution(backend, saves, items, f) # {}
      BY <2>1, <3>1, GetsSomething
    <3> QED
      BY <3>2, <3>3, <3>4, <3>5
  <2>3. StateStore!ListsWhatIsKept(backend, saves, locks, f)
    BY <2>2 DEF StateStore!ListsWhatIsKept, ListsMatches, ListsAll, FindsOf, LoadsItsOwn, AnswersTheId, MatchingOf
  <2> QED
    BY <2>3 DEF backend, saves, locks, f
<1>2. ChosenInput => ListIsComplete
  BY <1>1 DEF ChosenInput, ListIsComplete
<1> QED
  BY <1>2, InputIsChosen, PTL
=============================================================================
