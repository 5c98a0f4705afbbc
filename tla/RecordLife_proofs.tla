-------------------------- MODULE RecordLife_proofs --------------------------
(***************************************************************************)
(* Proofs about Serialization and RecordLife.                              *)
(***************************************************************************)
EXTENDS RecordLife, FoldLemmas

----------------------------------------------------------------------------
(* Single reads.  K is the set a cookie is in while it is filled.          *)

\* The states of a read of which K is the set of the cookie.
Reader(K) == [b : Nat, next : Nat, ok : BOOLEAN, cookie : K]

\* A cookie of which only the fields are being read.
FieldsOnly(c) == [field : [Fields -> Nat], purchaseIds : {c.purchaseIds},
                  known : {c.known}, vals : {c.vals}]

\* ReadItem: the next item if there is one, else the read fails where it is.
LEMMA ReadNextFacts ==
  ASSUME NEW items \in Seq(Nat), NEW K, NEW r \in Reader(K)
  PROVE  /\ ReadNext(items, r) \in Reader(K)
         /\ ReadNext(items, r).cookie = r.cookie
         /\ r.ok /\ r.b < Len(items) =>
              /\ ReadNext(items, r).ok /\ ReadNext(items, r).b = r.b + 1
              /\ ReadNext(items, r).next = items[r.b + 1]
         /\ ~(r.ok /\ r.b < Len(items)) =>
              ~ReadNext(items, r).ok /\ ReadNext(items, r).b = r.b
<1>1. Len(items) \in Nat /\ r.b \in Nat /\ r.ok \in BOOLEAN
  BY LenProperties DEF Reader
<1>2. CASE r.ok /\ r.b < Len(items)
  <2>1. r.b + 1 \in 1..Len(items)
    BY <1>1, <1>2
  <2>2. items[r.b + 1] \in Nat
    BY <2>1, ElementOfSeq
  <2> DEFINE n == ReadNext(items, r)
             next == items[r.b + 1]
  <2>3. n = [r EXCEPT !.b = @ + 1, !.next = next]
    BY <1>2 DEF ReadNext
  <2>4. next \in Nat
    BY <2>2
  <2> HIDE DEF n, next
  <2> DEFINE m == [r EXCEPT !.b = @ + 1]
  <2>5. m \in Reader(K) /\ m.b = r.b + 1 /\ m.ok /\ m.cookie = r.cookie
    BY <1>1, <1>2 DEF Reader
  <2>6. n = [m EXCEPT !.next = next]
    BY <2>3
  <2> HIDE DEF m
  <2>7. /\ n \in Reader(K) /\ n.cookie = r.cookie
        /\ n.ok /\ n.b = r.b + 1 /\ n.next = next
    BY <2>4, <2>5, <2>6 DEF Reader
  <2> QED BY <2>7, <1>2 DEF n, next
<1>3. CASE ~(r.ok /\ r.b < Len(items))
  <2>1. ReadNext(items, r) = [r EXCEPT !.ok = FALSE]
    BY <1>3 DEF ReadNext
  <2> QED BY <2>1, <1>1, <1>3 DEF Reader
<1> QED BY <1>2, <1>3

\* What ReadField makes of a reader r: a reader q that is past the field, if
\* it is the next one.
FieldRead(items, r, f, q) ==
  /\ ~r.ok \/ r.next # f => q = r
  /\ r.ok /\ r.next = f =>
       /\ r.b >= Len(items) => ~q.ok /\ q.cookie.field = r.cookie.field
       /\ r.b < Len(items) =>
            /\ q.cookie.field = [r.cookie.field EXCEPT ![f] = items[r.b + 1]]
            /\ r.b + 1 = Len(items) => ~q.ok
            /\ r.b + 1 < Len(items) =>
                 q.ok /\ q.b = r.b + 2 /\ q.next = items[r.b + 2]

\* One field is read into the fields of the cookie and nothing else.
LEMMA ReadFieldFacts ==
  ASSUME NEW c, NEW items \in Seq(Nat), NEW r \in Reader(FieldsOnly(c)), NEW f \in Fields,
         NEW q, q = ReadField(items, r, f)
  PROVE  /\ q \in Reader(FieldsOnly(c))
         /\ FieldRead(items, r, f, q)
<1> DEFINE K == FieldsOnly(c)
           value == ReadNext(items, r)
           set == [value EXCEPT !.cookie.field[f] = value.next]
<1>1. Len(items) \in Nat /\ r.b \in Nat
  BY LenProperties DEF Reader
<1>2. CASE ~r.ok \/ r.next # f
  BY <1>2 DEF ReadField, FieldRead
<1>3. CASE r.ok /\ r.next = f /\ r.b >= Len(items)
  <2>1. ~value.ok /\ value \in Reader(K) /\ value.cookie = r.cookie
    BY <1>1, <1>3, ReadNextFacts
  <2>2. q = value
    BY <1>3, <2>1 DEF ReadField
  <2> QED BY <1>1, <1>3, <2>1, <2>2 DEF FieldRead
<1>4. CASE r.ok /\ r.next = f /\ r.b < Len(items)
  <2>1. /\ value \in Reader(K) /\ value.ok /\ value.b = r.b + 1
        /\ value.next = items[r.b + 1] /\ value.cookie = r.cookie
    BY <1>4, ReadNextFacts
  <2>2. q = ReadNext(items, set)
    BY <1>4, <2>1 DEF ReadField
  <2> HIDE DEF value
  <2>3. /\ set \in Reader(K) /\ set.ok /\ set.b = r.b + 1
        /\ set.cookie.field = [r.cookie.field EXCEPT ![f] = items[r.b + 1]]
    BY <2>1 DEF Reader, FieldsOnly
  <2> HIDE DEF set
  <2>4. /\ q \in Reader(K) /\ q.cookie = set.cookie
        /\ r.b + 1 = Len(items) => ~q.ok
        /\ r.b + 1 < Len(items) => q.ok /\ q.b = r.b + 2 /\ q.next = items[r.b + 2]
    BY <1>1, <1>4, <2>2, <2>3, ReadNextFacts
  <2> QED BY <1>1, <1>4, <2>3, <2>4 DEF FieldRead
<1>5. r.b < Len(items) \/ r.b >= Len(items)
  BY <1>1
<1> QED BY <1>2, <1>3, <1>4, <1>5

----------------------------------------------------------------------------
(* The fields, one read after the other *)

\* ReadFields is ten reads, one for each field in order.
LEMMA FieldsFold ==
  ASSUME NEW c, NEW items \in Seq(Nat), NEW start \in Reader(FieldsOnly(c))
  PROVE  \E R \in [0..10 -> Reader(FieldsOnly(c))] :
           /\ R[0] = start
           /\ \A k \in 1..10 : R[k] = ReadField(items, R[k - 1], k)
           /\ ReadFields(items, start) = R[10]
<1> DEFINE V == Reader(FieldsOnly(c))
           numbers == [f \in Fields |-> f]
           step == [x \in V \X (1..10) |-> ReadField(items, x[1], x[2])]
           Fold(g) == [s \in SUBSET (1..10) |->
                         IF s = {} THEN start
                         ELSE ReadField(items, g[s \ {Max(s)}], numbers[Max(s)])]
<1>1. DOMAIN numbers = 1..10 /\ \A k \in 1..10 : numbers[k] = k
  BY DEF Fields
<1> HIDE DEF numbers
<1>2. step \in [V \X (1..10) -> V] /\ \A r \in V, k \in 1..10 : step[<<r, k>>] = ReadField(items, r, k)
  <2>1. \A r \in V, k \in 1..10 : ReadField(items, r, k) \in V
    BY ReadFieldFacts DEF Fields
  <2> HIDE DEF V
  <2> QED BY <2>1
<1> HIDE DEF step, V
<1>3. start \in V /\ 10 \in Nat
  BY DEF V
<1>4. PICK g \in [SUBSET (1..10) -> V] : IsFold(g, start, 10, step)
  BY <1>2, <1>3, FoldExists
<1>5. g = Fold(g)
  <2> SUFFICES ASSUME NEW s \in SUBSET (1..10), s # {}
               PROVE  step[<<g[s \ {Max(s)}], Max(s)>>]
                        = ReadField(items, g[s \ {Max(s)}], numbers[Max(s)])
    BY <1>4 DEF IsFold
  <2>1. Max(s) \in 1..10 /\ s \ {Max(s)} \in SUBSET (1..10)
    BY <1>3, MaxFacts
  <2> QED BY <2>1, <1>1, <1>2, <1>4
<1> DEFINE h == CHOOSE f : f = Fold(f)
<1>6. h = Fold(h)
  <2>1. \E f : f = Fold(f)
    BY <1>5
  <2> HIDE DEF Fold
  <2> QED BY <2>1
<1>7. ReadFields(items, start) = h[1..10]
  <2>1. ReadFields(items, start) =
          (CHOOSE f : f = [s \in SUBSET DOMAIN numbers |->
                             IF s = {} THEN start
                             ELSE ReadField(items, f[s \ {Max(s)}], numbers[Max(s)])])[DOMAIN numbers]
    BY Zenon DEF ReadFields, FoldLeft, MapThenFoldSet, numbers
  <2> QED BY <1>1, <2>1
<1> HIDE DEF h
<1>8. IsStepwise(h, V, start, 10, step)
  <2>1. h[{}] = start
    BY <1>6
  <2>2. ASSUME NEW s \in SUBSET (1..10), s # {}, h[s \ {Max(s)}] \in V
        PROVE  h[s] = step[<<h[s \ {Max(s)}], Max(s)>>]
    <3>1. Max(s) \in 1..10
      BY <1>3, <2>2, MaxFacts
    <3>2. h[s] = ReadField(items, h[s \ {Max(s)}], numbers[Max(s)])
      BY <1>6, <2>2
    <3> QED BY <3>1, <3>2, <2>2, <1>1, <1>2
  <2> HIDE DEF Fold
  <2>3. IsFoldIn(h, V, start, 10, step)
    BY <2>1, <2>2 DEF IsFoldIn
  <2> QED BY <2>3, <1>2, <1>3, FoldSteps
<1> DEFINE R == [k \in 0..10 |-> h[1..k]]
<1>9. R \in [0..10 -> V] /\ R[0] = start /\ R[10] = h[1..10]
  BY <1>8 DEF IsStepwise
<1>10. ASSUME NEW k \in 1..10 PROVE R[k] = ReadField(items, R[k - 1], k)
  <2>1. k - 1 \in 0..10 /\ k \in 0..10
    OBVIOUS
  <2>2. h[1..(k - 1)] \in V /\ h[1..k] = step[<<h[1..(k - 1)], k>>]
    BY <2>1, <1>8 DEF IsStepwise
  <2> QED BY <2>1, <2>2, <1>2
<1> QED BY <1>7, <1>9, <1>10 DEF V, numbers

\* What is read of a record: all items of it that arrive are its first ones.
IsStartOf(items, record) ==
  Len(items) <= Len(record) /\ \A i \in 1..Len(items) : items[i] = record[i]

\* The fields stand in the record, from place P[0] on, that are not 0.
FieldsAt(record, P, given) ==
  /\ P \in [0..10 -> Nat] /\ given \in [Fields -> Nat]
  /\ \A f \in 1..10 :
       /\ P[f] = P[f - 1] + (IF given[f] = 0 THEN 0 ELSE 2)
       /\ P[f] < Len(record)
       /\ given[f] # 0 => record[P[f - 1] + 1] = f /\ record[P[f - 1] + 2] = given[f]
       /\ given[f] = 0 => record[P[f - 1] + 1] # f

\* The reader is past the items up to p and has the next one in hand.
StandsAt(r, items, record, p) ==
  r.ok /\ r.b = p + 1 /\ p + 1 <= Len(items) /\ r.next = record[p + 1]

\* After the fields up to k: those in the record are read, the next item is in
\* hand; or the items ended before.
FieldsState(r, items, record, p, old, given, k) ==
  /\ \/ /\ StandsAt(r, items, record, p)
        /\ \A f \in Fields : r.cookie.field[f] = IF f <= k /\ given[f] # 0 THEN given[f] ELSE old[f]
     \/ ~r.ok /\ Len(items) < p + 1
  /\ \A f \in Fields : r.cookie.field[f] = old[f] \/ r.cookie.field[f] = given[f]

\* The fields up to one are those before it and itself.
LEMMA FieldOrder ==
  ASSUME NEW k \in Fields
  PROVE  /\ k \in 1..10 /\ k - 1 \in 0..10 /\ k \in 0..10
         /\ \A f \in Fields : (f <= k <=> f <= k - 1 \/ f = k) /\ (f = k => ~(f <= k - 1))
BY DEF Fields

\* A field that is where it should be is read; so are those before it still.
LEMMA OneField ==
  ASSUME NEW c, NEW items \in Seq(Nat), NEW record \in Seq(Nat), IsStartOf(items, record),
         NEW given \in [Fields -> Nat], NEW old, NEW k \in Fields, NEW p \in Nat, NEW to \in Nat,
         to = p + (IF given[k] = 0 THEN 0 ELSE 2), to < Len(record),
         given[k] # 0 => record[p + 1] = k /\ record[p + 2] = given[k],
         given[k] = 0 => record[p + 1] # k,
         NEW r \in Reader(FieldsOnly(c)), FieldsState(r, items, record, p, old, given, k - 1),
         NEW q, q = ReadField(items, r, k)
  PROVE  FieldsState(q, items, record, to, old, given, k)
<1> DEFINE N == Len(items)
           before == r.cookie.field
           after == q.cookie.field
           Full == \A f \in Fields : after[f] = IF f <= k /\ given[f] # 0 THEN given[f] ELSE old[f]
           Part == \A f \in Fields : after[f] = old[f] \/ after[f] = given[f]
<1>1. N \in Nat /\ k \in 1..10
  BY LenProperties DEF Fields
<1>2. before \in [Fields -> Nat] /\ r.b \in Nat /\ r.ok \in BOOLEAN
  BY DEF Reader, FieldsOnly
<1>3. /\ ~r.ok \/ r.next # k => q = r
      /\ r.ok /\ r.next = k =>
            /\ r.b >= N => ~q.ok /\ after = before
            /\ r.b < N =>
                 /\ after = [before EXCEPT ![k] = items[r.b + 1]]
                 /\ r.b + 1 = N => ~q.ok
                 /\ r.b + 1 < N => q.ok /\ q.b = r.b + 2 /\ q.next = items[r.b + 2]
  <2>1. FieldRead(items, r, k, q)
    BY ReadFieldFacts
  <2> QED BY <2>1, Zenon DEF FieldRead
<1>4. \A f \in Fields : (f <= k <=> f <= k - 1 \/ f = k) /\ (f = k => ~(f <= k - 1))
  BY FieldOrder, Zenon
<1>5. \A f \in Fields : before[f] = old[f] \/ before[f] = given[f]
  BY DEF FieldsState
<1>6. r.ok => /\ r.b = p + 1 /\ p + 1 <= N /\ r.next = record[p + 1]
              /\ \A f \in Fields : before[f] = IF f <= k - 1 /\ given[f] # 0 THEN given[f] ELSE old[f]
  BY DEF FieldsState, StandsAt
<1>7. ~r.ok => N < p + 1
  BY DEF FieldsState, StandsAt
<1>8. \A i \in 1..N : items[i] = record[i]
  BY DEF IsStartOf
<1>9. ~q.ok /\ N < to + 1 /\ Part => FieldsState(q, items, record, to, old, given, k)
  BY DEF FieldsState
<1>10. /\ q.ok /\ q.b = to + 1 /\ to + 1 <= N /\ q.next = record[to + 1] /\ Full /\ Part
         => FieldsState(q, items, record, to, old, given, k)
  BY DEF FieldsState, StandsAt
<1> HIDE DEF N, Full, Part
<1>11. CASE ~r.ok
  <2>1. q = r
    BY <1>3, <1>11
  <2>2. N < to + 1
    BY <1>1, <1>7, <1>11
  <2>3. Part
    BY <2>1, <1>5 DEF Part
  <2> QED BY <2>1, <2>2, <2>3, <1>9, <1>11
<1>12. CASE r.ok /\ given[k] = 0
  <2>1. q = r /\ to = p
    BY <1>3, <1>6, <1>12
  <2>2. Full
    BY <2>1, <1>4, <1>6, <1>12 DEF Full
  <2>3. Part
    BY <2>1, <1>5 DEF Part
  <2> QED BY <2>1, <2>2, <2>3, <1>6, <1>10, <1>12
<1>13. CASE r.ok /\ given[k] # 0
  <2>1. r.next = k /\ to = p + 2 /\ record[p + 2] = given[k] /\ r.b = p + 1 /\ p + 1 <= N
    BY <1>6, <1>13
  <2>2. CASE N = p + 1
    <3>1. r.b >= N /\ N < to + 1
      BY <2>1, <2>2
    <3>2. ~q.ok /\ after = before
      BY <3>1, <2>1, <1>3, <1>13
    <3>3. Part
      BY <3>2, <1>5 DEF Part
    <3> QED BY <3>1, <3>2, <3>3, <1>9
  <2>3. CASE p + 1 < N
    <3>1. p + 2 \in 1..N /\ r.b < N /\ r.b + 1 = p + 2
      BY <2>1, <2>3, <1>1
    <3>2. items[p + 2] = given[k]
      BY <3>1, <2>1, <1>8
    <3>3. /\ after = [before EXCEPT ![k] = given[k]]
          /\ p + 2 = N => ~q.ok
          /\ p + 2 < N => q.ok /\ q.b = r.b + 2 /\ q.next = items[r.b + 2]
      BY <3>1, <3>2, <2>1, <1>3, <1>13
    <3>4. \A f \in Fields : after[f] = IF f = k THEN given[k] ELSE before[f]
      BY <3>3, <1>2
    <3>5. Part
      BY <3>4, <1>5 DEF Part
    <3>6. Full
      BY <3>4, <1>4, <1>6, <1>13 DEF Full
    <3>7. CASE p + 2 = N
      <4>1. N < to + 1
        BY <3>7, <2>1, <1>1
      <4> QED BY <4>1, <3>3, <3>5, <3>7, <1>9
    <3>8. CASE p + 2 < N
      <4>1. p + 3 \in 1..N /\ r.b + 2 = p + 3 /\ to + 1 = p + 3 /\ p + 3 <= N
        BY <3>8, <2>1, <1>1
      <4>2. q.ok /\ q.b = p + 3 /\ q.next = items[p + 3] /\ items[p + 3] = record[p + 3]
        BY <4>1, <3>3, <3>8, <1>8
      <4> QED BY <4>1, <4>2, <3>5, <3>6, <1>10
    <3> QED BY <3>1, <3>7, <3>8, <1>1
  <2> QED BY <2>1, <2>2, <2>3, <1>1
<1> QED BY <1>2, <1>11, <1>12, <1>13

\* All the fields are read, or as many of them as are there.
LEMMA FieldsRead ==
  ASSUME NEW c, NEW items \in Seq(Nat), NEW record \in Seq(Nat), IsStartOf(items, record),
         NEW P, NEW given, FieldsAt(record, P, given),
         NEW start \in Reader(FieldsOnly(c)), FieldsState(start, items, record, P[0], c.field, given, 0),
         NEW end, end = ReadFields(items, start)
  PROVE  /\ end \in Reader(FieldsOnly(c))
         /\ FieldsState(end, items, record, P[10], c.field, given, 10)
<1> DEFINE K == FieldsOnly(c)
           State(r, k) == FieldsState(r, items, record, P[k], c.field, given, k)
<1>1. PICK R \in [0..10 -> Reader(K)] :
        /\ R[0] = start /\ end = R[10]
        /\ \A k \in 1..10 : R[k] = ReadField(items, R[k - 1], k)
  BY FieldsFold
<1> DEFINE T == {k \in 0..10 : State(R[k], k)}
<1>2. 0 \in T
  BY <1>1
<1>3. ASSUME NEW k \in 1..10, k - 1 \in T PROVE k \in T
  <2>1. k \in Fields /\ k - 1 \in 0..10 /\ k \in 0..10
    BY DEF Fields
  <2>2. /\ P[k] = P[k - 1] + (IF given[k] = 0 THEN 0 ELSE 2)
        /\ P[k] < Len(record) /\ P[k] \in Nat /\ P[k - 1] \in Nat /\ given \in [Fields -> Nat]
        /\ given[k] # 0 => record[P[k - 1] + 1] = k /\ record[P[k - 1] + 2] = given[k]
        /\ given[k] = 0 => record[P[k - 1] + 1] # k
    BY <2>1 DEF FieldsAt
  <2>3. R[k - 1] \in Reader(K) /\ R[k] = ReadField(items, R[k - 1], k)
    BY <2>1, <1>1
  <2>4. State(R[k - 1], k - 1)
    BY <1>3
  <2>5. State(ReadField(items, R[k - 1], k), k)
    <3> HIDE DEF K
    <3> QED BY <2>1, <2>2, <2>3, <2>4, OneField DEF K
  <2> HIDE DEF State
  <2> QED BY <2>1, <2>3, <2>5
<1>4. 10 \in T
  <2>1. 0..10 \subseteq T
    <3> HIDE DEF T
    <3> QED BY <1>2, <1>3, UpTo
  <2> QED BY <2>1
<1> QED BY <1>1, <1>4

----------------------------------------------------------------------------
(* The purchase ids *)

\* The purchase ids of a cookie are a list without duplicates, of bounded length.
LEMMA IdListFacts ==
  /\ NUM_SAVED_PURCHASE_IDS \in Nat \ {0} /\ IdList = ListsOf(PurchaseIds, NUM_SAVED_PURCHASE_IDS)
  /\ <<>> \in IdList
<1>1. NUM_SAVED_PURCHASE_IDS \in Nat \ {0}
  BY SerializationAssumption
<1>2. ASSUME NEW ids \in Seq(PurchaseIds) PROVE IsInjective(ids) <=> NoDuplicates(ids)
  <2>1. DOMAIN ids = 1..Len(ids)
    BY LenProperties
  <2> QED BY <2>1 DEF IsInjective, NoDuplicates
<1>3. IdList = ListsOf(PurchaseIds, NUM_SAVED_PURCHASE_IDS)
  BY <1>2, Zenon DEF IdList, ListsOf
<1>4. <<>> \in Seq(PurchaseIds) /\ Len(<<>>) = 0
  BY EmptySeq
<1>5. <<>> \in ListsOf(PurchaseIds, NUM_SAVED_PURCHASE_IDS)
  BY <1>1, <1>4 DEF ListsOf, NoDuplicates
<1> QED BY <1>1, <1>3, <1>5

\* SetPurchaseId adds an id at the end, or moves it there, in a list that stays short.
LEMMA SetPurchaseIdFacts ==
  ASSUME NEW ids \in IdList, NEW id \in PurchaseIds, NEW new, new = SetPurchaseId(ids, id)
  PROVE  /\ new \in IdList /\ new[Len(new)] = id
         /\ \/ Grown(ids, id, new)
            \/ \E gap \in 1..Len(ids) : Moved(ids, id, new, gap, NUM_SAVED_PURCHASE_IDS)
<1>1. new = LatestLast(ids, id, NUM_SAVED_PURCHASE_IDS)
  BY Zenon DEF SetPurchaseId, LatestLast
<1>2. NUM_SAVED_PURCHASE_IDS \in Nat \ {0} /\ IdList = ListsOf(PurchaseIds, NUM_SAVED_PURCHASE_IDS)
  BY IdListFacts
<1> QED BY <1>1, <1>2, LatestLastFacts

\* The fold of ReadPurchaseIds, one id after the other.
LEMMA PurchaseIdsFold ==
  ASSUME NEW old \in IdList, NEW ids \in Seq(PurchaseIds)
  PROVE  \E R \in [0..Len(ids) -> IdList] :
           /\ R[0] = old
           /\ \A n \in 1..Len(ids) : R[n] = SetPurchaseId(R[n - 1], ids[n])
           /\ AddPurchaseIds(old, ids) = R[Len(ids)]
<1> DEFINE L == Len(ids)
           V == IdList
           step == [p \in V \X (1..L) |-> SetPurchaseId(p[1], ids[p[2]])]
           Fold(f) == [s \in SUBSET (1..L) |->
                         IF s = {} THEN old ELSE SetPurchaseId(f[s \ {Max(s)}], ids[Max(s)])]
<1>1. L \in Nat /\ DOMAIN ids = 1..L /\ \A n \in 1..L : ids[n] \in PurchaseIds
  BY LenProperties, ElementOfSeq
<1>2. ASSUME NEW v \in V, NEW id \in PurchaseIds PROVE SetPurchaseId(v, id) \in V
  BY SetPurchaseIdFacts
<1>3. step \in [V \X (1..L) -> V] /\ \A v \in V, n \in 1..L : step[<<v, n>>] = SetPurchaseId(v, ids[n])
  <2> HIDE DEF V, L
  <2> QED BY <1>1, <1>2
<1> HIDE DEF step
<1>4. PICK g \in [SUBSET (1..L) -> V] : IsFold(g, old, L, step)
  <2> HIDE DEF L
  <2> QED BY <1>1, <1>3, FoldExists
<1>5. g = Fold(g)
  <2> SUFFICES ASSUME NEW s \in SUBSET (1..L), s # {}
               PROVE  step[<<g[s \ {Max(s)}], Max(s)>>] = SetPurchaseId(g[s \ {Max(s)}], ids[Max(s)])
    BY <1>4 DEF IsFold
  <2>1. Max(s) \in 1..L /\ s \ {Max(s)} \in SUBSET (1..L)
    BY <1>1, MaxFacts
  <2> QED BY <2>1, <1>3, <1>4
<1> DEFINE h == CHOOSE f : f = Fold(f)
<1>6. h = Fold(h)
  <2>1. \E f : f = Fold(f)
    BY <1>5
  <2> HIDE DEF Fold
  <2> QED BY <2>1
<1>7. AddPurchaseIds(old, ids) = h[1..L]
  <2>1. FoldLeft(SetPurchaseId, old, ids) =
          (CHOOSE f : f = [s \in SUBSET DOMAIN ids |->
                             IF s = {} THEN old ELSE SetPurchaseId(f[s \ {Max(s)}], ids[Max(s)])])[DOMAIN ids]
    BY Zenon DEF FoldLeft, MapThenFoldSet
  <2> QED BY <1>1, <2>1 DEF AddPurchaseIds
<1> HIDE DEF h
<1>8. IsStepwise(h, V, old, L, step)
  <2>1. h[{}] = old
    BY <1>6
  <2>2. ASSUME NEW s \in SUBSET (1..L), s # {}, h[s \ {Max(s)}] \in V
        PROVE  h[s] = step[<<h[s \ {Max(s)}], Max(s)>>]
    <3>1. Max(s) \in 1..L
      BY <1>1, <2>2, MaxFacts
    <3>2. h[s] = SetPurchaseId(h[s \ {Max(s)}], ids[Max(s)])
      BY <1>6, <2>2
    <3> QED BY <3>1, <3>2, <2>2, <1>3
  <2>3. L \in Nat /\ old \in V
    BY <1>1
  <2>4. IsFoldIn(h, V, old, L, step)
    BY <2>1, <2>2 DEF IsFoldIn
  <2> HIDE DEF V, L, Fold
  <2> QED BY <2>3, <2>4, <1>3, FoldSteps
<1> DEFINE R == [n \in 0..L |-> h[1..n]]
<1>9. R \in [0..L -> V] /\ R[0] = old /\ R[L] = h[1..L]
  BY <1>1, <1>8 DEF IsStepwise
<1>10. ASSUME NEW n \in 1..L PROVE R[n] = SetPurchaseId(R[n - 1], ids[n])
  <2>1. n - 1 \in 0..L /\ n \in 0..L
    BY <1>1
  <2>2. h[1..(n - 1)] \in V /\ h[1..n] = step[<<h[1..(n - 1)], n>>]
    BY <2>1, <1>8 DEF IsStepwise
  <2> QED BY <2>1, <2>2, <1>3
<1> HIDE DEF R, Fold
<1> QED BY <1>7, <1>9, <1>10

\* Added to nothing, a list of ids stays as it is.
LEMMA PurchaseIdsOntoNothing ==
  ASSUME NEW ids \in IdList
  PROVE  AddPurchaseIds(<<>>, ids) = ids
<1> DEFINE L == Len(ids)
<1>1. /\ ids \in Seq(PurchaseIds) /\ L \in Nat /\ NoDuplicates(ids) /\ L <= NUM_SAVED_PURCHASE_IDS
      /\ NUM_SAVED_PURCHASE_IDS \in Nat \ {0}
  BY IdListFacts, LenProperties DEF ListsOf
<1>2. PICK R \in [0..L -> IdList] :
        /\ R[0] = <<>>
        /\ \A n \in 1..L : R[n] = SetPurchaseId(R[n - 1], ids[n])
        /\ AddPurchaseIds(<<>>, ids) = R[L]
  BY <1>1, IdListFacts, PurchaseIdsFold
<1> DEFINE IsFront(s, n) == s \in Seq(PurchaseIds) /\ Len(s) = n /\ \A i \in 1..n : s[i] = ids[i]
           T == {n \in 0..L : IsFront(R[n], n)}
<1>3. 0 \in T
  <2>1. <<>> \in Seq(PurchaseIds) /\ Len(<<>>) = 0
    BY EmptySeq
  <2>2. IsFront(R[0], 0)
    BY <2>1, <1>2
  <2> QED BY <2>2, <1>1
<1>4. ASSUME NEW n \in 1..L, n - 1 \in T PROVE n \in T
  <2> DEFINE front == R[n - 1]
             id == ids[n]
  <2>1. front \in Seq(PurchaseIds) /\ Len(front) = n - 1 /\ \A i \in 1..(n - 1) : front[i] = ids[i]
    BY <1>4
  <2>2. id \in PurchaseIds /\ R[n] = SetPurchaseId(front, id)
    BY <1>1, <1>2, ElementOfSeq
  <2>3. ~Contains(front, id)
    BY <1>1, <2>1 DEF Contains, NoDuplicates
  <2>4. Len(front) # NUM_SAVED_PURCHASE_IDS
    BY <1>1, <2>1
  <2>5. R[n] = Append(front, id)
    BY <2>2, <2>3, <2>4 DEF SetPurchaseId
  <2> HIDE DEF front, id
  <2>6. /\ R[n] \in Seq(PurchaseIds) /\ Len(R[n]) = Len(front) + 1
        /\ \A i \in 1..Len(front) : R[n][i] = front[i]
        /\ R[n][Len(front) + 1] = id
    BY <2>1, <2>2, <2>5, AppendProperties
  <2>7. \A i \in 1..n : i \in 1..(n - 1) \/ i = n
    OBVIOUS
  <2> QED BY <2>1, <2>6, <2>7 DEF id
<1>5. L \in T
  <2>1. 0..L \subseteq T
    <3> HIDE DEF T, L
    <3> QED BY <1>1, <1>3, <1>4, UpTo
  <2> QED BY <2>1, <1>1
<1>6. R[L] = ids
  <2>1. R[L] \in Seq(PurchaseIds) /\ Len(R[L]) = L /\ \A i \in 1..L : R[L][i] = ids[i]
    BY <1>5
  <2> QED BY <1>1, <2>1, SeqEqual
<1> QED BY <1>2, <1>6

\* Added to itself, a list of ids turns once round.
LEMMA PurchaseIdsOntoThemselves ==
  ASSUME NEW ids \in IdList
  PROVE  AddPurchaseIds(ids, ids) = ids
<1> DEFINE L == Len(ids)
<1>1. /\ ids \in Seq(PurchaseIds) /\ L \in Nat /\ NoDuplicates(ids) /\ L <= NUM_SAVED_PURCHASE_IDS
      /\ NUM_SAVED_PURCHASE_IDS \in Nat \ {0}
  BY IdListFacts, LenProperties DEF ListsOf
<1>2. PICK R \in [0..L -> IdList] :
        /\ R[0] = ids
        /\ \A n \in 1..L : R[n] = SetPurchaseId(R[n - 1], ids[n])
        /\ AddPurchaseIds(ids, ids) = R[L]
  BY <1>1, PurchaseIdsFold
<1> DEFINE Turned(s, n) == /\ Len(s) = L
                           /\ \A i \in 1..L : s[i] = IF i <= L - n THEN ids[i + n] ELSE ids[i - (L - n)]
           T == {n \in 0..L : Turned(R[n], n)}
<1>3. 0 \in T
  BY <1>1, <1>2
<1>4. ASSUME NEW n \in 1..L, n - 1 \in T PROVE n \in T
  <2> DEFINE old == R[n - 1]
             id == ids[n]
             new == R[n]
  <2>1. /\ Len(old) = L
        /\ \A i \in 1..L : old[i] = IF i <= L - (n - 1) THEN ids[i + (n - 1)] ELSE ids[i - (L - (n - 1))]
    BY <1>4
  <2>2. id \in PurchaseIds /\ new = SetPurchaseId(old, id) /\ n - 1 \in 0..L
    BY <1>1, <1>2, ElementOfSeq
  <2>3. old \in IdList /\ NoDuplicates(old)
    BY <2>2, <1>2, IdListFacts DEF ListsOf
  <2> HIDE DEF old, id, new, T
  <2>5. /\ new[Len(new)] = id
        /\ \/ Grown(old, id, new)
           \/ \E gap \in 1..Len(old) : Moved(old, id, new, gap, NUM_SAVED_PURCHASE_IDS)
    BY <2>2, <2>3, SetPurchaseIdFacts
  <2>6. old[1] = id /\ 1 \in 1..L
    BY <1>1, <2>1 DEF id
  <2>7. Contains(old, id) /\ NoDuplicates(old)
    BY <2>1, <2>3, <2>6 DEF Contains
  <2>8. PICK gap \in 1..L : Moved(old, id, new, gap, NUM_SAVED_PURCHASE_IDS)
    BY <2>1, <2>5, <2>7 DEF Grown
  <2>9. gap = 1
    BY <2>1, <2>6, <2>7, <2>8 DEF Moved, NoDuplicates
  <2>10. Len(new) = L /\ new[L] = ids[n] /\ \A i \in 1..(L - 1) : new[i] = old[i + 1]
    <3>1. \A i \in 1..(L - 1) : ~(i < 1)
      BY <1>1
    <3> QED BY <3>1, <2>1, <2>5, <2>8, <2>9 DEF Moved, id
  <2>11. ASSUME NEW i \in 1..L PROVE new[i] = IF i <= L - n THEN ids[i + n] ELSE ids[i - (L - n)]
    <3>1. CASE i = L
      BY <3>1, <2>10, <1>1
    <3>2. CASE i # L
      <4>1. i \in 1..(L - 1) /\ i + 1 \in 1..L
        BY <3>2, <1>1
      <4>2. new[i] = IF i + 1 <= L - (n - 1) THEN ids[i + 1 + (n - 1)] ELSE ids[i + 1 - (L - (n - 1))]
        BY <4>1, <2>1, <2>10
      <4>3. /\ i + 1 <= L - (n - 1) <=> i <= L - n
            /\ i + 1 + (n - 1) = i + n /\ i + 1 - (L - (n - 1)) = i - (L - n)
        BY <1>1
      <4> QED BY <4>2, <4>3
    <3> QED BY <3>1, <3>2
  <2> QED BY <2>10, <2>11 DEF new, T
<1>5. L \in T
  <2>1. 0..L \subseteq T
    <3> HIDE DEF T, L
    <3> QED BY <1>1, <1>3, <1>4, UpTo
  <2> QED BY <2>1, <1>1
<1>6. R[L] = ids
  <2>1. Len(R[L]) = L /\ \A i \in 1..L : R[L][i] = ids[i]
    BY <1>1, <1>5
  <2>2. R[L] \in Seq(PurchaseIds)
    BY <1>1, <1>2, IdListFacts DEF ListsOf
  <2> QED BY <1>1, <2>1, <2>2, SeqEqual
<1> QED BY <1>2, <1>6

----------------------------------------------------------------------------
(* Lists: a number, how many items there are, and the items *)

\* The smaller of two numbers.
LEMMA MinOfTwo ==
  ASSUME NEW m \in Nat, NEW n \in Nat
  PROVE  Min({m, n}) = IF m <= n THEN m ELSE n
<1> DEFINE least == IF m <= n THEN m ELSE n
<1>1. least \in {m, n} /\ \A y \in {m, n} : least <= y
  OBVIOUS
<1>2. \A x \in {m, n} : (\A y \in {m, n} : x <= y) => x = least
  OBVIOUS
<1> HIDE DEF least
<1>3. Min({m, n}) = least
  BY <1>1, <1>2 DEF Min
<1> QED BY <1>3 DEF least

\* What there is of cnt items at b.
PresentOf(items, b, cnt, part) ==
  /\ part \in Seq(Nat) /\ Len(part) \in Nat
  /\ b + cnt <= Len(items) => Len(part) = cnt
  /\ ~(b + cnt <= Len(items)) => Len(part) = Len(items) - b
  /\ \A j \in 1..Len(part) : part[j] = items[b + j]

\* The items that are there: as many as asked for, or up to the end.
LEMMA PresentFacts ==
  ASSUME NEW items \in Seq(Nat), NEW b \in Nat, b <= Len(items), NEW cnt \in Nat
  PROVE  PresentOf(items, b, cnt, Present(items, b, cnt))
<1> DEFINE N == Len(items)
           part == Present(items, b, cnt)
           last == IF b + cnt <= N THEN b + cnt ELSE N
<1>1. N \in Nat /\ b + cnt \in Nat /\ b <= N
  BY LenProperties
<1>2. part = SubSeq(items, b + 1, last)
  BY <1>1, MinOfTwo DEF Present
<1>3. last \in Nat /\ last <= N /\ b <= last
  BY <1>1
<1>6. last = IF b + cnt <= N THEN b + cnt ELSE N
  OBVIOUS
<1> HIDE DEF N, last, part
<1>4. b + 1 \in Int /\ last \in Int /\ \A i \in (b + 1)..last : i \in 1..N
  BY <1>1, <1>3
<1>5. \A i \in (b + 1)..last : items[i] \in Nat
  BY <1>4, ElementOfSeq DEF N
<1>7. /\ part \in Seq(Nat) /\ Len(part) = IF b + 1 <= last THEN last - (b + 1) + 1 ELSE 0
      /\ \A j \in 1..(last - (b + 1) + 1) : part[j] = items[b + 1 + j - 1]
  BY <1>2, <1>4, <1>5, SubSeqProperties
<1>8. Len(part) = last - b /\ last - b \in Nat
  BY <1>3, <1>7
<1>9. \A j \in 1..Len(part) : part[j] = items[b + j]
  <2>1. \A j \in 1..(last - b) : j \in 1..(last - (b + 1) + 1) /\ b + 1 + j - 1 = b + j
    BY <1>3
  <2> QED BY <2>1, <1>7, <1>8
<1>10. b + cnt <= N => last - b = cnt
  BY <1>1, <1>6
<1>11. ~(b + cnt <= N) => last - b = N - b
  BY <1>1, <1>6
<1> QED BY <1>7, <1>8, <1>9, <1>10, <1>11 DEF N, part, PresentOf

\* The list stands in the record, behind its number at p + 1; it ends at to.
ListAt(record, p, list, to) ==
  /\ list \in Seq(Nat) /\ to = p + 2 + Len(list) /\ to < Len(record)
  /\ record[p + 2] = Len(list)
  /\ \A j \in 1..Len(list) : record[p + 2 + j] = list[j]

\* part is what list starts with.
IsBeginning(part, list) ==
  /\ part \in Seq(Nat) /\ Len(part) <= Len(list)
  /\ \A j \in 1..Len(part) : part[j] = list[j]

\* What is read of a list: its count, the items of it that are there, and
\* what follows if all of them are.
ListIsRead(K, items, record, list, to, r, cnt, part) ==
  /\ cnt \in Reader(K) /\ cnt.cookie = r.cookie
  /\ ~cnt.ok => Len(items) < to + 1
  /\ cnt.ok => /\ cnt.next = Len(list) /\ IsBeginning(part, list)
               /\ Len(part) = cnt.next => part = list
               /\ Len(part) # cnt.next => Len(items) < to + 1
  /\ \A set \in Reader(K) :
       cnt.ok /\ set.ok = (Len(part) = cnt.next) /\ set.b = cnt.b + Len(part) =>
         \/ part = list /\ StandsAt(ReadNext(items, set), items, record, to)
         \/ ~ReadNext(items, set).ok /\ Len(items) < to + 1

\* A list that is where it should be is read whole, or up to the end of the items.
LEMMA ListRead ==
  ASSUME NEW K, NEW items \in Seq(Nat), NEW record \in Seq(Nat), IsStartOf(items, record),
         NEW p \in Nat, NEW to, NEW list, ListAt(record, p, list, to),
         NEW r \in Reader(K), StandsAt(r, items, record, p),
         NEW cnt, cnt = ReadNext(items, r), NEW part, part = Present(items, cnt.b, cnt.next)
  PROVE  ListIsRead(K, items, record, list, to, r, cnt, part)
<1> DEFINE N == Len(items)
           L == Len(list)
<1>1. /\ N \in Nat /\ L \in Nat /\ list \in Seq(Nat) /\ to = p + 2 + L /\ record[p + 2] = L
      /\ \A j \in 1..L : record[p + 2 + j] = list[j]
  BY LenProperties DEF ListAt
<1>2. r.ok /\ r.b = p + 1 /\ p + 1 <= N
  BY DEF StandsAt
<1>3. /\ cnt \in Reader(K) /\ cnt.cookie = r.cookie
      /\ r.b < N => cnt.ok /\ cnt.b = r.b + 1 /\ cnt.next = items[r.b + 1]
      /\ ~(r.b < N) => ~cnt.ok
  BY <1>2, ReadNextFacts
<1>4. \A i \in 1..N : items[i] = record[i]
  BY DEF IsStartOf
<1> HIDE DEF N, L
<1>5. CASE N = p + 1
  <2>1. ~(r.b < N) /\ N < to + 1
    BY <1>1, <1>2, <1>5
  <2>2. ~cnt.ok
    BY <2>1, <1>3
  <2> QED BY <2>1, <2>2, <1>3 DEF N, ListIsRead
<1>6. CASE p + 1 < N
  <2>1. r.b < N /\ r.b + 1 = p + 2 /\ p + 2 \in 1..N /\ p + 2 \in Nat /\ p + 2 <= N
    BY <1>1, <1>2, <1>6
  <2>2. cnt.ok /\ cnt.b = p + 2 /\ cnt.next = L
    BY <2>1, <1>1, <1>3, <1>4
  <2>3. /\ part \in Seq(Nat) /\ Len(part) \in Nat
        /\ p + 2 + L <= N => Len(part) = L
        /\ ~(p + 2 + L <= N) => Len(part) = N - (p + 2)
        /\ \A j \in 1..Len(part) : part[j] = items[p + 2 + j]
    <3>1. p + 2 \in Nat /\ p + 2 <= Len(items) /\ L \in Nat
      BY <2>1, <1>1 DEF N
    <3>2. PresentOf(items, p + 2, L, Present(items, p + 2, L))
      BY <3>1, PresentFacts
    <3>3. PresentOf(items, p + 2, L, part)
      BY <3>2, <2>2
    <3> QED BY <3>3 DEF PresentOf, N
  <2> DEFINE M == Len(part)
  <2>4. M \in Nat /\ M <= L /\ p + 2 + M <= N /\ (M # L => N = p + 2 + M)
    BY <2>1, <2>3, <1>1
  <2> HIDE DEF M
  <2>5. \A j \in 1..M : j \in 1..L /\ p + 2 + j \in 1..N
    BY <2>4, <1>1
  <2>6. IsBeginning(part, list)
    <3>1. \A j \in 1..M : part[j] = list[j]
      BY <2>3, <2>5, <1>1, <1>4 DEF M
    <3> QED BY <3>1, <2>3, <2>4 DEF IsBeginning, M, L
  <2>7. M = L => part = list
    BY <2>3, <2>6, <1>1, SeqEqual DEF IsBeginning, M, L
  <2>8. M # L => N < to + 1
    BY <2>4, <1>1
  <2>9. ASSUME NEW set \in Reader(K), set.ok = (M = L), set.b = p + 2 + M
        PROVE  \/ part = list /\ StandsAt(ReadNext(items, set), items, record, to)
               \/ ~ReadNext(items, set).ok /\ N < to + 1
    <3> DEFINE end == ReadNext(items, set)
    <3>1. /\ set.ok /\ set.b < N => end.ok /\ end.b = set.b + 1 /\ end.next = items[set.b + 1]
          /\ ~(set.ok /\ set.b < N) => ~end.ok
      BY ReadNextFacts DEF N
    <3> HIDE DEF end
    <3>2. CASE M # L
      BY <3>1, <3>2, <2>8, <2>9 DEF end
    <3>3. CASE M = L /\ ~(to < N)
      <4>1. set.b = to /\ N < to + 1
        BY <3>3, <2>9, <1>1
      <4> QED BY <4>1, <3>1, <3>3 DEF end
    <3>4. CASE M = L /\ to < N
      <4>a. to \in Nat
        BY <1>1
      <4>b. set.b = to
        BY <3>4, <2>9, <1>1
      <4>c. set.ok
        BY <3>4, <2>9, Zenon
      <4>0. to \in Nat /\ set.b = to /\ set.ok
        BY <4>a, <4>b, <4>c
      <4>1. set.b = to /\ set.ok /\ to + 1 \in 1..N /\ to + 1 <= N
        BY <4>0, <3>4, <1>1
      <4>2. end.ok /\ end.b = to + 1 /\ end.next = record[to + 1]
        BY <4>1, <3>1, <3>4, <1>4
      <4>3. StandsAt(end, items, record, to)
        BY <4>1, <4>2 DEF StandsAt, N
      <4> QED BY <4>3, <3>4, <2>7 DEF end
    <3> QED BY <3>2, <3>3, <3>4
  <2> QED BY <2>2, <2>6, <2>7, <2>8, <2>9, <1>3 DEF M, L, N, ListIsRead
<1>7. N = p + 1 \/ p + 1 < N
  BY <1>1, <1>2
<1> QED BY <1>5, <1>6, <1>7

\* Adding the ids of a list to none, or to the same, gives the list.
LEMMA AddPurchaseIdsFacts ==
  ASSUME NEW old \in IdList, NEW ids \in IdList
  PROVE  /\ AddPurchaseIds(old, ids) \in IdList
         /\ AddPurchaseIds(old, <<>>) = old
         /\ AddPurchaseIds(<<>>, ids) = ids
         /\ AddPurchaseIds(ids, ids) = ids
<1>1. ids \in Seq(PurchaseIds) /\ Len(ids) \in Nat
  BY LenProperties DEF IdList
<1>2. AddPurchaseIds(old, ids) \in IdList
  <2>1. PICK R \in [0..Len(ids) -> IdList] : AddPurchaseIds(old, ids) = R[Len(ids)]
    BY <1>1, PurchaseIdsFold
  <2>2. Len(ids) \in 0..Len(ids)
    BY <1>1
  <2> QED BY <2>1, <2>2
<1>3. AddPurchaseIds(old, <<>>) = old
  <2> DEFINE none == <<>>
  <2>1. none \in Seq(PurchaseIds) /\ Len(none) = 0
    BY EmptySeq
  <2> HIDE DEF none
  <2>2. PICK R \in [0..Len(none) -> IdList] : R[0] = old /\ AddPurchaseIds(old, none) = R[Len(none)]
    BY <2>1, PurchaseIdsFold
  <2> QED BY <2>1, <2>2 DEF none
<1> QED BY <1>2, <1>3, PurchaseIdsOntoNothing, PurchaseIdsOntoThemselves

\* What a list of purchase ids starts with is one.
LEMMA BeginningOfIds ==
  ASSUME NEW ids \in IdList, NEW part, IsBeginning(part, ids)
  PROVE  part \in IdList
<1>1. /\ ids \in Seq(PurchaseIds) /\ Len(ids) \in Nat /\ NoDuplicates(ids)
      /\ Len(ids) <= NUM_SAVED_PURCHASE_IDS /\ NUM_SAVED_PURCHASE_IDS \in Nat
  BY IdListFacts, LenProperties DEF ListsOf
<1>2. /\ part \in Seq(Nat) /\ Len(part) \in Nat /\ Len(part) <= Len(ids)
      /\ \A j \in 1..Len(part) : part[j] = ids[j]
  BY LenProperties DEF IsBeginning
<1>3. \A j \in 1..Len(part) : j \in 1..Len(ids) /\ part[j] \in PurchaseIds
  BY <1>1, <1>2, ElementOfSeq
<1>4. part \in Seq(PurchaseIds)
  <2>1. part \in [1..Len(part) -> Nat]
    BY <1>2, LenProperties
  <2>2. part = [j \in 1..Len(part) |-> part[j]]
    BY <2>1
  <2> QED BY <2>1, <2>2, <1>2, <1>3, SeqDef
<1>5. NoDuplicates(part)
  BY <1>1, <1>2, <1>3 DEF NoDuplicates
<1>6. Len(part) <= NUM_SAVED_PURCHASE_IDS
  BY <1>1, <1>2
<1> QED BY <1>4, <1>5, <1>6, IdListFacts DEF ListsOf

\* A cookie of which only the purchase ids are being read.
PurchasesOnly(c) == [field : {c.field}, purchaseIds : IdList, known : {c.known}, vals : {c.vals}]

\* After the purchase ids of a record: all of them are added to those the
\* cookie had, or as many as there are.
PurchasesState(q, items, record, to, old, ids) ==
  /\ \/ StandsAt(q, items, record, to) /\ q.cookie.purchaseIds = AddPurchaseIds(old, ids)
     \/ ~q.ok /\ Len(items) < to + 1
  /\ \E part : IsBeginning(part, ids) /\ q.cookie.purchaseIds = AddPurchaseIds(old, part)

\* The shortest and the longest beginning of a list.
LEMMA NoneIsBeginning ==
  ASSUME NEW list \in Seq(Nat)
  PROVE  IsBeginning(<<>>, list) /\ IsBeginning(list, list)
<1>1. Len(list) \in Nat
  BY LenProperties
<1> DEFINE none == <<>>
<1>2. none \in Seq(Nat) /\ Len(none) = 0
  BY EmptySeq
<1> HIDE DEF none
<1>3. IsBeginning(none, list)
  BY <1>1, <1>2 DEF IsBeginning
<1>4. IsBeginning(list, list)
  BY <1>1 DEF IsBeginning
<1> QED BY <1>3, <1>4 DEF none

\* The purchase ids are read into the list of the cookie, whole or up to the end.
LEMMA PurchasesRead ==
  ASSUME NEW c, c.purchaseIds \in IdList, NEW items \in Seq(Nat), NEW record \in Seq(Nat),
         IsStartOf(items, record), NEW ids \in IdList, NEW p \in Nat, NEW to \in Nat,
         ids = <<>> => to = p /\ record[p + 1] # PurchaseIdList,
         ids # <<>> => record[p + 1] = PurchaseIdList /\ ListAt(record, p, ids, to),
         NEW r \in Reader(PurchasesOnly(c)), r.cookie.purchaseIds = c.purchaseIds,
         StandsAt(r, items, record, p) \/ (~r.ok /\ Len(items) < p + 1),
         NEW q, q = ReadPurchaseIds(items, r)
  PROVE  /\ q \in Reader(PurchasesOnly(c))
         /\ PurchasesState(q, items, record, to, c.purchaseIds, ids)
<1> DEFINE K == PurchasesOnly(c)
           old == c.purchaseIds
           State(x) == PurchasesState(x, items, record, to, old, ids)
<1>1. /\ ids \in Seq(Nat) /\ Len(items) \in Nat /\ Len(ids) \in Nat
      /\ \A part : IsBeginning(part, ids) => part \in IdList
  <2>1. PurchaseIds \subseteq Nat /\ ids \in Seq(PurchaseIds)
    BY DEF IdList, PurchaseIds
  <2>2. ids \in Seq(Nat)
    BY <2>1, SeqMonotonic
  <2> QED BY <2>2, LenProperties, BeginningOfIds
<1>2. /\ old \in IdList /\ AddPurchaseIds(old, <<>>) = old
      /\ \A part \in IdList : AddPurchaseIds(old, part) \in IdList
  BY AddPurchaseIdsFacts
<1>3. IsBeginning(<<>>, ids)
  BY <1>1, NoneIsBeginning
<1>4. CASE ~r.ok
  <2>1. q = r /\ Len(items) < p + 1
    BY <1>4 DEF ReadPurchaseIds, StandsAt
  <2>2. p <= to
    BY <1>1 DEF ListAt
  <2>3. Len(items) < to + 1
    BY <2>1, <2>2, <1>1
  <2> QED BY <2>1, <2>3, <1>2, <1>3, <1>4 DEF PurchasesState
<1>5. CASE r.ok /\ ids = <<>>
  <2>1. StandsAt(r, items, record, p) /\ r.next # PurchaseIdList /\ to = p
    BY <1>5 DEF StandsAt
  <2>2. q = r
    BY <2>1 DEF ReadPurchaseIds
  <2> QED BY <2>1, <2>2, <1>2, <1>3, <1>5 DEF PurchasesState
<1>6. CASE r.ok /\ ids # <<>>
  <2> DEFINE cnt == ReadNext(items, r)
             part == Present(items, cnt.b, cnt.next)
             new == AddPurchaseIds(old, part)
             s1 == [cnt EXCEPT !.b = @ + Len(part)]
             s2 == [s1 EXCEPT !.cookie.purchaseIds = new]
             set == [s2 EXCEPT !.ok = Len(part) = cnt.next]
  <2>1. StandsAt(r, items, record, p) /\ r.next = PurchaseIdList /\ ListAt(record, p, ids, to)
    BY <1>6 DEF StandsAt
  <2>2. /\ cnt \in Reader(K) /\ cnt.cookie = r.cookie
        /\ ~cnt.ok => Len(items) < to + 1
        /\ cnt.ok => /\ cnt.next = Len(ids) /\ IsBeginning(part, ids)
                     /\ Len(part) = cnt.next => part = ids
                     /\ Len(part) # cnt.next => Len(items) < to + 1
        /\ \A s \in Reader(K) :
             cnt.ok /\ s.ok = (Len(part) = cnt.next) /\ s.b = cnt.b + Len(part) =>
               \/ part = ids /\ StandsAt(ReadNext(items, s), items, record, to)
               \/ ~ReadNext(items, s).ok /\ Len(items) < to + 1
    <3>1. ListIsRead(K, items, record, ids, to, r, cnt, part)
      <4>1. r \in Reader(K)
        OBVIOUS
      <4> HIDE DEF K
      <4> QED BY <4>1, <2>1, ListRead
    <3> HIDE DEF K, cnt, part
    <3> QED BY <3>1, Zenon DEF ListIsRead
  <2>3. CASE ~cnt.ok
    <3>1. q = cnt
      BY <2>1, <2>3, <1>6 DEF ReadPurchaseIds
    <3> QED BY <3>1, <2>2, <2>3, <1>2, <1>3 DEF PurchasesState
  <2>4. CASE cnt.ok
    <3>1. cnt.cookie.purchaseIds = old
      BY <2>2
    <3>2. q = ReadNext(items, set)
      <4>1. [cnt EXCEPT !.b = @ + Len(part), !.cookie.purchaseIds = AddPurchaseIds(@, part)] = s2
        <5> HIDE DEF part
        <5>1. s1.cookie.purchaseIds = old
          BY <3>1
        <5> QED BY <5>1
      <4> QED BY <4>1, <2>1, <2>4, <1>6, Zenon DEF ReadPurchaseIds
    <3>3. part \in IdList /\ new \in IdList /\ Len(part) \in Nat
      BY <2>2, <2>4, <1>1, <1>2, LenProperties DEF IsBeginning
    <3> HIDE DEF part, new, cnt, s1
    <3>4. s1 \in Reader(K) /\ s1.b = cnt.b + Len(part) /\ s1.next = cnt.next
      <4> DEFINE count == cnt.b + Len(part)
      <4>1. cnt \in Reader(K)
        BY <2>2
      <4>2. count \in Nat
        BY <4>1, <3>3 DEF Reader
      <4> HIDE DEF K, count
      <4>3. s1 = [cnt EXCEPT !.b = count]
        BY DEF s1, count
      <4> QED BY <4>1, <4>2, <4>3 DEF Reader, count
    <3>5. s2 \in Reader(K) /\ s2.b = cnt.b + Len(part) /\ s2.cookie.purchaseIds = new
      BY <3>3, <3>4 DEF Reader, PurchasesOnly
    <3> HIDE DEF s2
    <3>6. /\ set \in Reader(K) /\ set.b = cnt.b + Len(part) /\ set.cookie.purchaseIds = new
          /\ set.ok = (Len(part) = cnt.next)
      BY <3>5 DEF Reader
    <3> HIDE DEF set
    <3>7. q \in Reader(K) /\ q.cookie = set.cookie
      BY <3>2, <3>6, ReadNextFacts
    <3>8. \/ part = ids /\ StandsAt(q, items, record, to)
          \/ ~q.ok /\ Len(items) < to + 1
      BY <2>2, <2>4, <3>2, <3>6
    <3>9. IsBeginning(part, ids) /\ q.cookie.purchaseIds = AddPurchaseIds(old, part)
      BY <2>2, <2>4, <3>6, <3>7 DEF new
    <3> QED BY <3>7, <3>8, <3>9 DEF PurchasesState
  <2> QED BY <2>3, <2>4
<1> QED BY <1>4, <1>5, <1>6

----------------------------------------------------------------------------
(* The relation variables *)

\* What a variable with the elements old becomes, when part of its cnt
\* elements is read.
Loaded(old, part, cnt) ==
  IF part = <<>> THEN old
  ELSE Append(IF cnt > 1 THEN SubSeq(old, (IF Len(old) > cnt - 1 THEN Len(old) - (cnt - 1) ELSE 0) + 1, Len(old))
              ELSE <<>>, Head(part)) \o Tail(part)

\* How many of the elements a variable had stay in front of what is read.
Staying(old, cnt) == IF cnt > 1 THEN (IF Len(old) > cnt - 1 THEN cnt - 1 ELSE Len(old)) ELSE 0

\* part is what new ends with.
EndsWith(new, part) ==
  /\ Len(part) <= Len(new)
  /\ \A j \in 1..Len(part) : new[Len(new) - Len(part) + j] = part[j]

\* What the elements of a variable are after some were read on top of the old ones.
IsLoaded(S, old, part, cnt, new) ==
  /\ new \in Seq(S)
  /\ part = <<>> => new = old
  /\ part # <<>> => /\ new # <<>> /\ Len(new) = Staying(old, cnt) + Len(part)
                    /\ EndsWith(new, part)

\* SetVar and AddLinearElement, as Deserialize calls them, do that.
LEMMA LoadedFacts ==
  ASSUME NEW S, NEW old \in Seq(S), NEW part \in Seq(S), NEW cnt \in Nat
  PROVE  IsLoaded(S, old, part, cnt, Loaded(old, part, cnt))
<1>1. CASE part = <<>>
  BY <1>1 DEF Loaded, IsLoaded
<1>2. CASE part # <<>>
  <2> DEFINE O == Len(old)
             N == Len(part)
             from == (IF O > cnt - 1 THEN O - (cnt - 1) ELSE 0) + 1
             kept == IF cnt > 1 THEN SubSeq(old, from, O) ELSE <<>>
             stay == Staying(old, cnt)
             first == Head(part)
             rest == Tail(part)
             front == Append(kept, first)
             new == front \o rest
  <2>1. O \in Nat /\ N \in Nat
    BY LenProperties
  <2>2. N # 0 /\ first = part[1]
    BY <1>2, EmptySeq
  <2>3. /\ first \in S /\ rest \in Seq(S) /\ Len(rest) = N - 1
        /\ \A i \in 1..(N - 1) : rest[i] = part[i + 1]
    BY <1>2, HeadTailProperties
  <2>4. kept \in Seq(S) /\ Len(kept) = stay
    <3>1. CASE cnt > 1
      <4>1. from \in Int /\ O \in Int /\ from >= 1
        BY <2>1, <3>1
      <4>2. stay = IF from <= O THEN O - from + 1 ELSE 0
        BY <2>1, <3>1 DEF Staying
      <4> HIDE DEF from, O
      <4>3. \A i \in from..O : i \in 1..O
        BY <4>1
      <4>4. \A i \in from..O : old[i] \in S
        BY <4>3, ElementOfSeq DEF O
      <4>5. /\ SubSeq(old, from, O) \in Seq(S)
            /\ Len(SubSeq(old, from, O)) = IF from <= O THEN O - from + 1 ELSE 0
        BY <4>1, <4>4, SubSeqProperties
      <4> QED BY <3>1, <4>2, <4>5
    <3>2. CASE ~(cnt > 1)
      <4>1. <<>> \in Seq(S) /\ Len(<<>>) = 0
        BY EmptySeq
      <4> QED BY <3>2, <4>1 DEF Staying
    <3> QED BY <3>1, <3>2
  <2>5. Loaded(old, part, cnt) = new
    BY <1>2 DEF Loaded
  <2>6. stay \in Nat
    BY <2>4, LenProperties
  <2> HIDE DEF kept, first, rest, O, N, stay
  <2>7. front \in Seq(S) /\ Len(front) = stay + 1 /\ front[stay + 1] = first
    BY <2>3, <2>4, AppendProperties
  <2> HIDE DEF front
  <2>8. /\ new \in Seq(S) /\ Len(new) = Len(front) + Len(rest)
        /\ \A i \in 1..(Len(front) + Len(rest)) :
             new[i] = IF i <= Len(front) THEN front[i] ELSE rest[i - Len(front)]
    BY <2>3, <2>7, ConcatProperties
  <2> HIDE DEF new
  <2>9. Len(new) = stay + N /\ \A i \in 1..(stay + N) :
                                 new[i] = IF i <= stay + 1 THEN front[i] ELSE rest[i - (stay + 1)]
    BY <2>1, <2>3, <2>6, <2>7, <2>8
  <2>10. ASSUME NEW j \in 1..N PROVE new[stay + j] = part[j]
    <3>1. stay + j \in 1..(stay + N) /\ stay + j - (stay + 1) = j - 1
      BY <2>1, <2>6
    <3>2. CASE j = 1
      <4>1. stay + j = stay + 1
        BY <3>2
      <4> QED BY <3>1, <3>2, <4>1, <2>2, <2>7, <2>9
    <3>3. CASE j # 1
      <4>1. j - 1 \in 1..(N - 1) /\ ~(stay + j <= stay + 1) /\ j - 1 + 1 = j
        BY <3>3, <2>1, <2>6
      <4>2. rest[j - 1] = part[j]
        BY <4>1, <2>3
      <4> DEFINE i == stay + j
      <4>3. i \in 1..(stay + N) /\ ~(i <= stay + 1) /\ i - (stay + 1) = j - 1
        BY <4>1, <2>1, <2>6
      <4> HIDE DEF i
      <4>4. new[i] = rest[j - 1]
        BY <4>3, <2>9
      <4> QED BY <4>2, <4>4 DEF i
    <3> QED BY <3>2, <3>3
  <2>11. N <= Len(new) /\ Len(new) - N = stay /\ Len(new) # 0
    BY <2>1, <2>2, <2>6, <2>9
  <2>12. new # <<>>
    BY <2>11, EmptySeq
  <2>13. EndsWith(new, part)
    BY <2>10, <2>11 DEF EndsWith, N
  <2> QED BY <1>2, <2>5, <2>8, <2>9, <2>12, <2>13 DEF IsLoaded, N, stay
<1> QED BY <1>1, <1>2

\* A cookie of which only the relation variables are being read.
VarsOnly(c) == [field : {c.field}, purchaseIds : {c.purchaseIds},
                known : SUBSET Nat, vals : [Rids -> Seq(Nat)]]

\* The cookie new is d with part of the cnt elements of the variable rid.
ElementsSet(d, rid, part, cnt, new) ==
  /\ new.known = IF part = <<>> THEN d.known ELSE d.known \cup {rid}
  /\ \A x \in Rids : new.vals[x] = IF x = rid THEN Loaded(d.vals[x], part, cnt) ELSE d.vals[x]

\* SetElements changes the variable of one id, and gives it a slot.
LEMMA SetElementsFacts ==
  ASSUME NEW c, NEW d \in VarsOnly(c), NEW rid \in Nat, NEW part \in Seq(Nat), NEW cnt \in Nat,
         NEW new, new = SetElements(d, rid, part, cnt)
  PROVE  new \in VarsOnly(c) /\ ElementsSet(d, rid, part, cnt, new)
<1>1. CASE part = <<>>
  BY <1>1 DEF SetElements, Loaded, ElementsSet
<1>2. CASE part # <<>>
  <2> DEFINE value == Vars(d)!NewValues(d.vals[rid], Head(part), IF cnt > 1 THEN "LINEAR" ELSE "LAST", cnt)
                        \o Tail(part)
             d1 == [d EXCEPT !.known = @ \cup {rid}]
             d2 == [d1 EXCEPT !.vals[rid] = value]
  <2>1. new = [d EXCEPT !.known = @ \cup {rid},
                        !.vals[rid] = Vars(d)!NewValues(@, Head(part), IF cnt > 1 THEN "LINEAR" ELSE "LAST", cnt)
                                        \o Tail(part)]
    BY <1>2 DEF SetElements
  <2>2. new = d2
    BY <2>1
  <2>3. value = Loaded(d.vals[rid], part, cnt)
    <3>1. CASE cnt > 1
      <4> DEFINE old == d.vals[rid]
                 kept == SubSeq(old, (IF Len(old) > cnt - 1 THEN Len(old) - (cnt - 1) ELSE 0) + 1, Len(old))
      <4>1. cnt # 0
        BY <3>1
      <4>2. Vars(d)!NewValues(old, Head(part), "LINEAR", cnt) = Append(kept, Head(part))
        BY <4>1, Zenon DEF Vars!NewValues, Vars!AppendLimited, Vars!LastN
      <4>3. Loaded(old, part, cnt) = Append(kept, Head(part)) \o Tail(part)
        BY <3>1, <1>2, Zenon DEF Loaded
      <4> QED BY <3>1, <4>2, <4>3, Zenon
    <3>2. CASE ~(cnt > 1)
      <4>1. <<Head(part)>> = Append(<<>>, Head(part))
        OBVIOUS
      <4> QED BY <3>2, <4>1, <1>2 DEF Loaded, Vars!NewValues
    <3> QED BY <3>1, <3>2
  <2>4. d1 \in VarsOnly(c) /\ d1.known = d.known \cup {rid} /\ d1.vals = d.vals
    BY DEF VarsOnly
  <2> HIDE DEF d1, value
  <2>5. CASE rid \in Rids
    <3>1. d.vals[rid] \in Seq(Nat)
      BY <2>5 DEF VarsOnly
    <3>2. value \in Seq(Nat)
      BY <2>3, <3>1, LoadedFacts DEF IsLoaded
    <3>3. d2 \in VarsOnly(c) /\ d2.known = d1.known /\ d2.vals = [d.vals EXCEPT ![rid] = value]
      BY <2>4, <3>2 DEF VarsOnly
    <3>4. d.vals \in [Rids -> Seq(Nat)]
      BY DEF VarsOnly
    <3> QED BY <1>2, <2>2, <2>3, <2>4, <3>3, <3>4 DEF ElementsSet
  <2>6. CASE rid \notin Rids
    <3>1. d.vals \in [Rids -> Seq(Nat)]
      BY DEF VarsOnly
    <3>2. [d.vals EXCEPT ![rid] = value] = d.vals
      BY <2>6, <3>1
    <3>3. d2 \in VarsOnly(c) /\ d2.known = d1.known /\ d2.vals = d.vals
      BY <2>4, <3>2 DEF VarsOnly
    <3> QED BY <1>2, <2>2, <2>4, <2>6, <3>3 DEF ElementsSet
  <2> QED BY <2>5, <2>6
<1> QED BY <1>1, <1>2

\* The reads of one variable, step by step.
VarIsRead(c, items, r, cnt, part) ==
  /\ ~cnt.ok => ReadVar(items, r) = cnt
  /\ cnt.ok => \E set \in Reader(VarsOnly(c)) :
                 /\ ReadVar(items, r) = ReadNext(items, set)
                 /\ set.ok = (Len(part) = cnt.next) /\ set.b = cnt.b + Len(part)
                 /\ set.cookie = SetElements(r.cookie, r.next, part, cnt.next)

\* Reading one variable: its count, its elements, and the id after it.
LEMMA ReadVarSteps ==
  ASSUME NEW c, NEW items \in Seq(Nat), NEW r \in Reader(VarsOnly(c)), r.ok, r.next # InvalidRid,
         NEW cnt, cnt = ReadNext(items, r), NEW part, part = Present(items, cnt.b, cnt.next)
  PROVE  VarIsRead(c, items, r, cnt, part)
<1> DEFINE K == VarsOnly(c)
           new == SetElements(r.cookie, r.next, part, cnt.next)
           s1 == [cnt EXCEPT !.b = @ + Len(part)]
           s2 == [s1 EXCEPT !.cookie = new]
           set == [s2 EXCEPT !.ok = Len(part) = cnt.next]
<1>1. Len(items) \in Nat /\ r.b \in Nat /\ r.next \in Nat /\ r.cookie \in K
  BY LenProperties DEF Reader
<1>2. /\ cnt \in Reader(K) /\ cnt.cookie = r.cookie /\ cnt.next \in Nat
      /\ cnt.ok => cnt.b \in Nat /\ cnt.b <= Len(items)
  <2>1. /\ cnt \in Reader(K) /\ cnt.cookie = r.cookie
        /\ r.b < Len(items) => cnt.b = r.b + 1
        /\ ~(r.b < Len(items)) => ~cnt.ok
    BY ReadNextFacts
  <2>2. cnt.next \in Nat
    BY <2>1 DEF Reader
  <2> QED BY <1>1, <2>1, <2>2
<1>3. CASE ~cnt.ok
  BY <1>3 DEF ReadVar, VarIsRead
<1>4. CASE cnt.ok
  <2>1. part \in Seq(Nat) /\ Len(part) \in Nat
    BY <1>2, <1>4, PresentFacts DEF PresentOf
  <2>2. ReadVar(items, r) = ReadNext(items, set)
    <3>1. [cnt EXCEPT !.b = @ + Len(part), !.cookie = SetElements(@, r.next, part, cnt.next)] = s2
      <4>1. s1.cookie = r.cookie
        BY <1>2
      <4> QED BY <4>1
    <3> QED BY <3>1, <1>4, Zenon DEF ReadVar
  <2>3. new \in K
    BY <1>1, <1>2, <2>1, SetElementsFacts
  <2> HIDE DEF new
  <2>4. s1 \in Reader(K) /\ s1.b = cnt.b + Len(part)
    <3> DEFINE count == cnt.b + Len(part)
    <3>1. count \in Nat
      BY <1>2, <1>4, <2>1
    <3>2. s1 = [cnt EXCEPT !.b = count]
      OBVIOUS
    <3> HIDE DEF K, count, s1
    <3> QED BY <1>2, <3>1, <3>2 DEF Reader, count
  <2> HIDE DEF s1
  <2>5. s2 \in Reader(K) /\ s2.b = cnt.b + Len(part) /\ s2.cookie = new
    <3> HIDE DEF K
    <3> QED BY <2>3, <2>4 DEF Reader
  <2> HIDE DEF s2
  <2>6. /\ set \in Reader(K) /\ set.b = cnt.b + Len(part) /\ set.cookie = new
        /\ set.ok = (Len(part) = cnt.next)
    <3> HIDE DEF K
    <3> QED BY <2>5 DEF Reader
  <2> HIDE DEF set
  <2> QED BY <1>4, <2>2, <2>6 DEF new, VarIsRead
<1> QED BY <1>3, <1>4

\* A variable is read into the variables of the cookie and nothing else.
LEMMA ReadVarType ==
  ASSUME NEW c, NEW items \in Seq(Nat), NEW r \in Reader(VarsOnly(c))
  PROVE  ReadVar(items, r) \in Reader(VarsOnly(c))
<1> DEFINE cnt == ReadNext(items, r)
<1>1. CASE ~r.ok \/ r.next = InvalidRid
  BY <1>1 DEF ReadVar
<1>2. CASE r.ok /\ r.next # InvalidRid /\ ~cnt.ok
  BY <1>2, ReadVarSteps, ReadNextFacts DEF VarIsRead
<1>3. CASE r.ok /\ r.next # InvalidRid /\ cnt.ok
  <2>1. PICK set \in Reader(VarsOnly(c)) : ReadVar(items, r) = ReadNext(items, set)
    BY <1>3, ReadVarSteps DEF VarIsRead
  <2> QED BY <2>1, ReadNextFacts
<1> QED BY <1>1, <1>2, <1>3

\* The n variables of a record: variable i has the id ids[i] and the elements
\* new[ids[i]], and ends at P[i]; INVALID_RID follows the last one.
VarsAt(record, P, ids, new, n) ==
  /\ n \in Nat /\ P \in [0..n -> Nat] /\ ids \in [1..n -> RelationIds] /\ new \in [Rids -> Seq(Nat)]
  /\ \A i, j \in 1..n : ids[i] = ids[j] => i = j
  /\ \A i \in 1..n : record[P[i - 1] + 1] = ids[i] /\ ListAt(record, P[i - 1], new[ids[i]], P[i])
  /\ \A x \in Rids : new[x] # <<>> => \E i \in 1..n : ids[i] = x
  /\ record[P[n] + 1] = InvalidRid /\ P[n] + 1 = Len(record)

\* Every set variable of the cookie has a slot, and only ids that had one before
\* have a slot that is not set.
SlotsFit(d, before) ==
  /\ d.known \subseteq Rids
  /\ \A x \in Rids : d.vals[x] # <<>> => x \in d.known
  /\ \A x \in d.known : x \in before \/ d.vals[x] # <<>>

\* After i variables: those are read whole and the others are as they were,
\* or the items ended before.
VarsState(r, items, record, P, ids, new, old, before, i) ==
  /\ \/ /\ StandsAt(r, items, record, P[i])
        /\ \A x \in Rids : r.cookie.vals[x] = IF \E j \in 1..i : ids[j] = x
                                              THEN Loaded(old[x], new[x], Len(new[x])) ELSE old[x]
     \/ ~r.ok /\ Len(items) < P[i] + 1
  /\ \A x \in Rids : \E part : /\ IsBeginning(part, new[x])
                               /\ r.cookie.vals[x] = Loaded(old[x], part, Len(new[x]))
  /\ SlotsFit(r.cookie, before)

\* INVALID_RID is above all the ids in use.
LEMMA RidFacts ==
  /\ Rids \subseteq Nat /\ RelationIds \subseteq Rids /\ InvalidRid \in Rids /\ InvalidRid \in Nat
  /\ \A x \in RelationIds : x \in Nat /\ x \in Rids /\ x # InvalidRid /\ x < InvalidRid
BY SerializationAssumption DEF Rids

\* A variable that is where it should be is read; so are those before it still.
LEMMA OneVar ==
  ASSUME NEW c, NEW items \in Seq(Nat), NEW record \in Seq(Nat), IsStartOf(items, record),
         NEW P, NEW ids, NEW new, NEW n, VarsAt(record, P, ids, new, n), NEW i \in 1..n, NEW old, NEW before,
         NEW r \in Reader(VarsOnly(c)), VarsState(r, items, record, P, ids, new, old, before, i - 1),
         NEW q, q = ReadVar(items, r)
  PROVE  VarsState(q, items, record, P, ids, new, old, before, i)
<1> DEFINE K == VarsOnly(c)
           rid == ids[i]
           list == new[rid]
           N == Len(items)
           was == r.cookie.vals
           now == q.cookie.vals
           Part == \A x \in Rids : \E part : /\ IsBeginning(part, new[x])
                                             /\ now[x] = Loaded(old[x], part, Len(new[x]))
           Full == \A x \in Rids : now[x] = IF \E j \in 1..i : ids[j] = x
                                            THEN Loaded(old[x], new[x], Len(new[x])) ELSE old[x]
<1>1. /\ n \in Nat /\ i - 1 \in 0..n /\ i \in 0..n /\ P[i - 1] \in Nat /\ P[i] \in Nat
      /\ rid \in RelationIds /\ rid \in Nat /\ rid \in Rids /\ rid # InvalidRid
      /\ record[P[i - 1] + 1] = rid /\ ListAt(record, P[i - 1], list, P[i])
      /\ list \in Seq(Nat) /\ Len(list) \in Nat
      /\ \A a, b \in 1..n : ids[a] = ids[b] => a = b
  <2>1. n \in Nat /\ P \in [0..n -> Nat] /\ ids \in [1..n -> RelationIds] /\ new \in [Rids -> Seq(Nat)]
    BY DEF VarsAt
  <2>2. i - 1 \in 0..n /\ i \in 0..n
    BY <2>1
  <2>3. rid \in RelationIds
    BY <2>1
  <2>4. rid \in Nat /\ rid \in Rids /\ rid # InvalidRid
    BY <2>3, RidFacts
  <2>5. record[P[i - 1] + 1] = rid /\ ListAt(record, P[i - 1], list, P[i])
        /\ \A a, b \in 1..n : ids[a] = ids[b] => a = b
    BY DEF VarsAt
  <2>6. list \in Seq(Nat)
    BY <2>1, <2>4
  <2>7. Len(list) \in Nat
    BY <2>6, LenProperties
  <2> QED BY <2>1, <2>2, <2>3, <2>4, <2>5, <2>6, <2>7
<1>2. N \in Nat /\ P[i - 1] <= P[i]
  <2>1. N \in Nat
    BY LenProperties
  <2>2. P[i] = P[i - 1] + 2 + Len(list)
    BY <1>1 DEF ListAt
  <2> HIDE DEF N, list
  <2> QED BY <2>1, <2>2, <1>1
<1>3. /\ \A x \in Rids : \E part : /\ IsBeginning(part, new[x])
                                   /\ was[x] = Loaded(old[x], part, Len(new[x]))
      /\ SlotsFit(r.cookie, before)
  BY DEF VarsState
<1>4. ~r.ok => N < P[i - 1] + 1
  BY DEF VarsState, StandsAt
<1>5. r.ok => /\ StandsAt(r, items, record, P[i - 1])
              /\ \A x \in Rids : was[x] = IF \E j \in 1..(i - 1) : ids[j] = x
                                          THEN Loaded(old[x], new[x], Len(new[x])) ELSE old[x]
  BY DEF VarsState
<1>6. /\ ~q.ok /\ N < P[i] + 1 /\ Part /\ SlotsFit(q.cookie, before)
           => VarsState(q, items, record, P, ids, new, old, before, i)
      /\ StandsAt(q, items, record, P[i]) /\ Full /\ Part /\ SlotsFit(q.cookie, before)
           => VarsState(q, items, record, P, ids, new, old, before, i)
  BY DEF VarsState
<1> HIDE DEF N, Part, Full
<1>7. CASE ~r.ok
  <2>1. q = r
    BY <1>7 DEF ReadVar
  <2>2. N < P[i] + 1
    BY <1>1, <1>2, <1>4, <1>7
  <2>3. Part
    BY <2>1, <1>3 DEF Part
  <2> QED BY <2>1, <2>2, <2>3, <1>3, <1>6, <1>7
<1>8. CASE r.ok
  <2> DEFINE cnt == ReadNext(items, r)
             part == Present(items, cnt.b, cnt.next)
  <2>1. r.next = rid /\ StandsAt(r, items, record, P[i - 1])
    BY <1>1, <1>5, <1>8 DEF StandsAt
  <2>2. ListIsRead(K, items, record, list, P[i], r, cnt, part)
    <3>1. r \in Reader(K)
      OBVIOUS
    <3> HIDE DEF K, list
    <3> QED BY <3>1, <2>1, <1>1, ListRead
  <2>3. /\ ~cnt.ok => q = cnt
        /\ cnt.ok => \E set \in Reader(K) :
                       /\ q = ReadNext(items, set)
                       /\ set.ok = (Len(part) = cnt.next) /\ set.b = cnt.b + Len(part)
                       /\ set.cookie = SetElements(r.cookie, r.next, part, cnt.next)
    <3>1. VarIsRead(c, items, r, cnt, part)
      BY <1>1, <1>8, <2>1, ReadVarSteps
    <3> HIDE DEF cnt, part
    <3> QED BY <3>1 DEF VarIsRead
  <2> HIDE DEF cnt, part
  <2>4. CASE ~cnt.ok
    <3>1. q = cnt /\ q.cookie = r.cookie /\ N < P[i] + 1
      BY <2>2, <2>3, <2>4 DEF ListIsRead, N
    <3>2. Part
      BY <3>1, <1>3 DEF Part
    <3> QED BY <3>1, <3>2, <2>4, <1>3, <1>6
  <2>5. CASE cnt.ok
    <3>1. PICK set \in Reader(K) :
            /\ q = ReadNext(items, set)
            /\ set.ok = (Len(part) = cnt.next) /\ set.b = cnt.b + Len(part)
            /\ set.cookie = SetElements(r.cookie, r.next, part, cnt.next)
      BY <2>3, <2>5
    <3>2. cnt.next = Len(list) /\ IsBeginning(part, list) /\ part \in Seq(Nat)
      BY <2>2, <2>5 DEF ListIsRead, IsBeginning
    <3>3. \/ part = list /\ StandsAt(q, items, record, P[i])
          \/ ~q.ok /\ N < P[i] + 1
      <4>1. cnt.ok /\ set.ok = (Len(part) = cnt.next) /\ set.b = cnt.b + Len(part) =>
               \/ part = list /\ StandsAt(ReadNext(items, set), items, record, P[i])
               \/ ~ReadNext(items, set).ok /\ Len(items) < P[i] + 1
        BY <2>2, Zenon DEF ListIsRead
      <4> QED BY <4>1, <3>1, <2>5 DEF N
    <3>4. q.cookie = SetElements(r.cookie, rid, part, Len(list)) /\ r.cookie \in K
      <4>1. q.cookie = set.cookie
        BY <3>1, ReadNextFacts
      <4> QED BY <4>1, <3>1, <3>2, <2>1 DEF Reader
    <3>5. /\ q.cookie.known = IF part = <<>> THEN r.cookie.known ELSE r.cookie.known \cup {rid}
          /\ \A x \in Rids : now[x] = IF x = rid THEN Loaded(was[x], part, Len(list)) ELSE was[x]
      <4>1. ElementsSet(r.cookie, rid, part, Len(list), q.cookie)
        BY <3>2, <3>4, <1>1, SetElementsFacts
      <4> QED BY <4>1 DEF ElementsSet
    <3>6. was[rid] = old[rid]
      <4>1. ~(\E j \in 1..(i - 1) : ids[j] = rid)
        BY <1>1
      <4> QED BY <4>1, <1>1, <1>5, <1>8
    <3>7. now[rid] = Loaded(old[rid], part, Len(list)) /\ \A x \in Rids \ {rid} : now[x] = was[x]
      BY <3>5, <3>6, <1>1
    <3>8. Part
      <4> SUFFICES ASSUME NEW x \in Rids
                   PROVE  \E s : IsBeginning(s, new[x]) /\ now[x] = Loaded(old[x], s, Len(new[x]))
        BY DEF Part
      <4>1. CASE x = rid
        BY <4>1, <3>2, <3>7
      <4>2. CASE x # rid
        BY <4>2, <3>7, <1>3
      <4> QED BY <4>1, <4>2
    <3>9. SlotsFit(q.cookie, before)
      <4>1. CASE part = <<>>
        <5>1. \A x \in Rids : now[x] = was[x]
          <6>1. Loaded(was[rid], part, Len(list)) = was[rid]
            BY <4>1 DEF Loaded
          <6> QED BY <6>1, <3>5
        <5>2. q.cookie.known = r.cookie.known
          BY <4>1, <3>5
        <5> QED BY <5>1, <5>2, <1>3 DEF SlotsFit
      <4>2. CASE part # <<>>
        <5>1. q.cookie.known = r.cookie.known \cup {rid}
          BY <4>2, <3>5
        <5>2. /\ r.cookie.known \subseteq Rids /\ \A x \in Rids : was[x] # <<>> => x \in r.cookie.known
              /\ \A x \in r.cookie.known : x \in before \/ was[x] # <<>>
          BY <1>3 DEF SlotsFit
        <5>3. \A x \in Rids : now[x] # <<>> => x \in q.cookie.known
          BY <5>1, <5>2, <3>7
        <5>4. now[rid] # <<>>
          <6>1. now[rid] = Loaded(was[rid], part, Len(list)) /\ was[rid] \in Seq(Nat)
            <7>1. was \in [Rids -> Seq(Nat)]
              BY <3>4 DEF VarsOnly
            <7> QED BY <7>1, <3>5, <1>1
          <6>2. IsLoaded(Nat, was[rid], part, Len(list), Loaded(was[rid], part, Len(list)))
            BY <6>1, <3>2, <1>1, LoadedFacts
          <6> QED BY <6>1, <6>2, <4>2 DEF IsLoaded
        <5>5. \A x \in q.cookie.known : x \in before \/ now[x] # <<>>
          BY <5>1, <5>2, <5>4, <3>7
        <5> QED BY <5>1, <5>2, <5>3, <5>5, <1>1 DEF SlotsFit
      <4> QED BY <4>1, <4>2
    <3>10. part = list => Full
      <4> SUFFICES ASSUME part = list, NEW x \in Rids
                   PROVE  now[x] = IF \E j \in 1..i : ids[j] = x
                                   THEN Loaded(old[x], new[x], Len(new[x])) ELSE old[x]
        BY DEF Full
      <4>1. i \in 1..i /\ \A j \in 1..i : j \in 1..(i - 1) \/ j = i
        BY <1>1
      <4>2. CASE x = rid
        BY <4>1, <4>2, <3>7
      <4>3. CASE x # rid
        <5>1. (\E j \in 1..i : ids[j] = x) <=> (\E j \in 1..(i - 1) : ids[j] = x)
          <6>1. \A j \in 1..(i - 1) : j \in 1..i
            BY <1>1
          <6> QED BY <6>1, <4>1, <4>3
        <5> QED BY <5>1, <4>3, <3>7, <1>5, <1>8
      <4> QED BY <4>2, <4>3
    <3> QED BY <3>3, <3>8, <3>9, <3>10, <1>6
  <2> QED BY <2>4, <2>5
<1> QED BY <1>7, <1>8

\* The variables are read one after the other.
VarsInSteps(c, items, start) ==
  \E R \in [0..Len(items) -> Reader(VarsOnly(c))] :
    /\ R[0] = start
    /\ \A k \in 1..Len(items) : R[k] = ReadVar(items, R[k - 1])
    /\ ReadVars(items, start) = R[Len(items)]

\* ReadVars is one read after the other, for each item of the buffer.
LEMMA VarsFold ==
  ASSUME NEW c, NEW items \in Seq(Nat), NEW start \in Reader(VarsOnly(c))
  PROVE  VarsInSteps(c, items, start)
<1> DEFINE V == Reader(VarsOnly(c))
           L == Len(items)
           numbers == [i \in 1..L |-> i]
           step == [x \in V \X (1..L) |-> ReadVar(items, x[1])]
           Fold(g) == [s \in SUBSET (1..L) |->
                         IF s = {} THEN start ELSE ReadVar(items, g[s \ {Max(s)}])]
<1>1. L \in Nat /\ DOMAIN numbers = 1..L
  BY LenProperties
<1>2. step \in [V \X (1..L) -> V] /\ \A r \in V, k \in 1..L : step[<<r, k>>] = ReadVar(items, r)
  <2>1. \A r \in V : ReadVar(items, r) \in V
    BY ReadVarType
  <2> HIDE DEF V, L
  <2> QED BY <2>1
<1>3. start \in V
  OBVIOUS
<1> HIDE DEF step, V, numbers
<1>4. PICK g \in [SUBSET (1..L) -> V] : IsFold(g, start, L, step)
  <2> HIDE DEF L
  <2> QED BY <1>1, <1>2, <1>3, FoldExists
<1>5. g = Fold(g)
  <2> SUFFICES ASSUME NEW s \in SUBSET (1..L), s # {}
               PROVE  step[<<g[s \ {Max(s)}], Max(s)>>] = ReadVar(items, g[s \ {Max(s)}])
    BY <1>4 DEF IsFold
  <2>1. Max(s) \in 1..L /\ s \ {Max(s)} \in SUBSET (1..L)
    BY <1>1, MaxFacts
  <2> QED BY <2>1, <1>2, <1>4
<1> DEFINE h == CHOOSE f : f = Fold(f)
<1>6. h = Fold(h)
  <2>1. \E f : f = Fold(f)
    BY <1>5
  <2> HIDE DEF Fold
  <2> QED BY <2>1
<1>7. ReadVars(items, start) = h[1..L]
  <2>1. ReadVars(items, start) =
          (CHOOSE f : f = [s \in SUBSET DOMAIN numbers |->
                             IF s = {} THEN start
                             ELSE ReadVar(items, f[s \ {Max(s)}])])[DOMAIN numbers]
    BY Zenon DEF ReadVars, FoldLeft, MapThenFoldSet, numbers
  <2> QED BY <1>1, <2>1
<1> HIDE DEF h
<1>8. IsStepwise(h, V, start, L, step)
  <2>1. h[{}] = start
    BY <1>6
  <2>2. ASSUME NEW s \in SUBSET (1..L), s # {}, h[s \ {Max(s)}] \in V
        PROVE  h[s] = step[<<h[s \ {Max(s)}], Max(s)>>]
    <3>1. Max(s) \in 1..L
      BY <1>1, <2>2, MaxFacts
    <3>2. h[s] = ReadVar(items, h[s \ {Max(s)}])
      BY <1>6, <2>2
    <3> QED BY <3>1, <3>2, <2>2, <1>2
  <2>3. IsFoldIn(h, V, start, L, step)
    BY <2>1, <2>2 DEF IsFoldIn
  <2> HIDE DEF Fold, L
  <2> QED BY <2>3, <1>1, <1>2, <1>3, FoldSteps
<1> DEFINE R == [k \in 0..L |-> h[1..k]]
<1>9. R \in [0..L -> V] /\ R[0] = start /\ R[L] = h[1..L]
  BY <1>1, <1>8 DEF IsStepwise
<1>10. ASSUME NEW k \in 1..L PROVE R[k] = ReadVar(items, R[k - 1])
  <2>1. k - 1 \in 0..L /\ k \in 0..L
    BY <1>1
  <2>2. h[1..(k - 1)] \in V /\ h[1..k] = step[<<h[1..(k - 1)], k>>]
    BY <2>1, <1>8 DEF IsStepwise
  <2> QED BY <2>1, <2>2, <1>2
<1>11. \E Q \in [0..L -> V] : /\ Q[0] = start
                              /\ \A k \in 1..L : Q[k] = ReadVar(items, Q[k - 1])
                              /\ ReadVars(items, start) = Q[L]
  <2> HIDE DEF R, Fold, L
  <2> QED BY <1>7, <1>9, <1>10
<1> QED BY <1>11, Zenon DEF V, VarsInSteps

\* Variables come one after the other.
LEMMA PlacesGrow ==
  ASSUME NEW record, NEW P, NEW ids, NEW new, NEW n, VarsAt(record, P, ids, new, n)
  PROVE  \A i \in 0..n : i <= P[i] /\ P[i] <= P[n]
<1>1. n \in Nat /\ P \in [0..n -> Nat]
  BY DEF VarsAt
<1>2. ASSUME NEW i \in 1..n PROVE P[i - 1] + 1 <= P[i]
  <2>1. /\ ids[i] \in Rids /\ new \in [Rids -> Seq(Nat)] /\ P[i - 1] \in Nat
        /\ P[i] = P[i - 1] + 2 + Len(new[ids[i]])
    <3>1. i - 1 \in 0..n /\ P[i - 1] \in Nat
      BY <1>1
    <3>2. ids \in [1..n -> RelationIds] /\ new \in [Rids -> Seq(Nat)]
      BY DEF VarsAt
    <3>3. ids[i] \in Rids
      BY <3>2, RidFacts
    <3>4. ListAt(record, P[i - 1], new[ids[i]], P[i])
      BY DEF VarsAt
    <3> QED BY <3>1, <3>2, <3>3, <3>4 DEF ListAt
  <2>2. Len(new[ids[i]]) \in Nat
    BY <2>1, LenProperties
  <2> QED BY <2>1, <2>2
<1> DEFINE T == {i \in 0..n : i <= P[i]}
           U == {k \in 0..n : P[n - k] <= P[n]}
<1>3. 0 \in T
  BY <1>1
<1>4. ASSUME NEW i \in 1..n, i - 1 \in T PROVE i \in T
  <2>1. i - 1 <= P[i - 1] /\ P[i - 1] \in Nat /\ P[i] \in Nat /\ i \in 0..n
    BY <1>1, <1>4
  <2> QED BY <2>1, <1>2
<1>5. 0 \in U
  BY <1>1
<1>6. ASSUME NEW k \in 1..n, k - 1 \in U PROVE k \in U
  <2> DEFINE i == n - (k - 1)
  <2>1. i \in 1..n /\ i \in 0..n /\ i - 1 \in 0..n /\ n - k = i - 1 /\ k \in 0..n /\ n \in 0..n
    BY <1>1
  <2>2. P[i] <= P[n]
    BY <1>6
  <2> HIDE DEF i
  <2>3. P[i - 1] \in Nat /\ P[i] \in Nat /\ P[n] \in Nat /\ P[i - 1] + 1 <= P[i]
    BY <2>1, <1>1, <1>2
  <2>4. P[n - k] <= P[n]
    BY <2>1, <2>2, <2>3
  <2> QED BY <2>1, <2>4
<1>7. 0..n \subseteq T /\ 0..n \subseteq U
  <2> HIDE DEF T, U
  <2> QED BY <1>1, <1>3, <1>4, <1>5, <1>6, UpTo
<1> SUFFICES ASSUME NEW i \in 0..n PROVE i <= P[i] /\ P[i] <= P[n]
  OBVIOUS
<1>8. n - i \in 0..n /\ n - (n - i) = i
  BY <1>1
<1> QED BY <1>7, <1>8

\* All the variables are read, or as many as are there, to INVALID_RID.
LEMMA VarsRead ==
  ASSUME NEW c, NEW items \in Seq(Nat), NEW record \in Seq(Nat), IsStartOf(items, record),
         NEW P, NEW ids, NEW new, NEW n, VarsAt(record, P, ids, new, n), NEW old, NEW before,
         NEW start \in Reader(VarsOnly(c)), VarsState(start, items, record, P, ids, new, old, before, 0),
         NEW end, end = ReadVars(items, start)
  PROVE  /\ end \in Reader(VarsOnly(c))
         /\ VarsState(end, items, record, P, ids, new, old, before, n)
<1> DEFINE K == VarsOnly(c)
           L == Len(items)
           State(r, i) == VarsState(r, items, record, P, ids, new, old, before, i)
           done(k) == IF k <= n THEN k ELSE n
<1>1. L \in Nat /\ n \in Nat /\ P \in [0..n -> Nat]
  BY LenProperties DEF VarsAt
<1>2. PICK R \in [0..L -> Reader(K)] :
        /\ R[0] = start /\ end = R[L]
        /\ \A k \in 1..L : R[k] = ReadVar(items, R[k - 1])
  <2>1. VarsInSteps(c, items, start)
    BY VarsFold
  <2>2. \E R \in [0..L -> Reader(K)] :
          /\ R[0] = start /\ end = R[L]
          /\ \A k \in 1..L : R[k] = ReadVar(items, R[k - 1])
    BY <2>1, Zenon DEF VarsInSteps
  <2> QED BY <2>2
<1> DEFINE T == {k \in 0..L : State(R[k], done(k))}
<1>3. 0 \in T
  BY <1>1, <1>2
<1>4. ASSUME NEW k \in 1..L, k - 1 \in T PROVE k \in T
  <2>1. k - 1 \in 0..L /\ k \in 0..L
    BY <1>1
  <2>2. R[k - 1] \in Reader(K) /\ R[k] = ReadVar(items, R[k - 1])
    BY <2>1, <1>2
  <2>3. State(R[k - 1], done(k - 1))
    BY <1>4
  <2>4. CASE k <= n
    <3>1. k \in 1..n /\ done(k - 1) = k - 1 /\ done(k) = k
      BY <2>4, <1>1
    <3>2. State(ReadVar(items, R[k - 1]), k)
      <4>1. State(R[k - 1], k - 1)
        BY <2>3, <3>1
      <4> HIDE DEF K, T, done
      <4> QED BY <3>1, <2>2, <4>1, OneVar DEF K
    <3> QED BY <3>1, <3>2, <2>1, <2>2
  <2>5. CASE ~(k <= n)
    <3>1. done(k - 1) = n /\ done(k) = n
      BY <2>5, <1>1
    <3>2. State(R[k - 1], n)
      BY <2>3, <3>1
    <3>3. ~R[k - 1].ok \/ R[k - 1].next = InvalidRid
      BY <3>2 DEF VarsState, StandsAt, VarsAt
    <3>4. R[k] = R[k - 1]
      BY <2>2, <3>3 DEF ReadVar
    <3> QED BY <3>1, <3>2, <3>4, <2>1
  <2> QED BY <2>4, <2>5
<1>5. L \in T
  <2>1. 0..L \subseteq T
    <3> HIDE DEF T, L
    <3> QED BY <1>1, <1>3, <1>4, UpTo
  <2>2. L \in 0..L
    BY <1>1
  <2> HIDE DEF T
  <2> QED BY <2>1, <2>2
<1>6. State(end, done(L)) /\ end \in Reader(K)
  <2>1. L \in 0..L
    BY <1>1
  <2> QED BY <2>1, <1>2, <1>5
<1>7. CASE n <= L
  <2>1. done(L) = n
    BY <1>7, <1>1
  <2> QED BY <2>1, <1>6
<1>8. CASE L < n
  <2>1. done(L) = L /\ L \in 0..n /\ n \in 0..n
    BY <1>8, <1>1
  <2>2. L <= P[L] /\ P[L] <= P[n] /\ P[L] \in Nat /\ P[n] \in Nat
    BY <2>1, <1>1, PlacesGrow
  <2>3. ~StandsAt(end, items, record, P[L])
    BY <2>2, <1>1 DEF StandsAt
  <2>4. State(end, L)
    BY <2>1, <1>6
  <2>5. ~end.ok /\ L < P[L] + 1
    BY <2>3, <2>4 DEF VarsState
  <2>6. L < P[n] + 1
    BY <2>2, <2>5, <1>1
  <2> QED BY <2>4, <2>5, <2>6, <1>6 DEF VarsState
<1>9. n <= L \/ L < n
  BY <1>1
<1> QED BY <1>7, <1>8, <1>9

----------------------------------------------------------------------------
(* What is written, place by place *)

\* The sequence st is s and then t.
Joined(s, t, st) ==
  /\ st \in Seq(Nat) /\ Len(st) = Len(s) + Len(t)
  /\ \A i \in 1..Len(s) : st[i] = s[i]
  /\ \A j \in 1..Len(t) : st[Len(s) + j] = t[j]

\* The items of two sequences one after the other.
LEMMA JoinedFacts ==
  ASSUME NEW s \in Seq(Nat), NEW t \in Seq(Nat)
  PROVE  Joined(s, t, s \o t)
<1> DEFINE st == s \o t
           L == Len(s)
           M == Len(t)
<1>1. L \in Nat /\ M \in Nat
  BY LenProperties
<1>2. /\ st \in Seq(Nat) /\ Len(st) = L + M
      /\ \A i \in 1..(L + M) : st[i] = IF i <= L THEN s[i] ELSE t[i - L]
  BY ConcatProperties
<1> HIDE DEF st, L, M
<1>3. ASSUME NEW i \in 1..L PROVE st[i] = s[i]
  <2>1. i \in 1..(L + M) /\ i <= L
    BY <1>1
  <2> QED BY <2>1, <1>2
<1>4. ASSUME NEW j \in 1..M PROVE st[L + j] = t[j]
  <2> DEFINE i == L + j
  <2>1. i \in 1..(L + M) /\ ~(i <= L) /\ i - L = j
    BY <1>1
  <2> HIDE DEF i
  <2>2. st[i] = t[j]
    BY <2>1, <1>2
  <2> QED BY <2>2 DEF i
<1> QED BY <1>2, <1>3, <1>4 DEF Joined, st, L, M

\* The record of these fields and variables.
IsRecord(record, compatible, fields, variables) ==
  /\ record \in Seq(Nat) /\ Len(record) = Len(fields) + Len(variables) + 6
  /\ record[2] = compatible /\ record[4] = Len(fields) + 5
  /\ \A j \in 1..Len(fields) : record[4 + j] = fields[j]
  /\ record[Len(fields) + 5] = 0
  /\ \A j \in 1..Len(variables) : record[Len(fields) + 5 + j] = variables[j]
  /\ record[Len(fields) + Len(variables) + 6] = InvalidRid

\* Where the parts of an assembled record are.
LEMMA AssembleFacts ==
  ASSUME NEW version \in Nat, NEW compatible \in Nat, NEW fields \in Seq(Nat), NEW variables \in Seq(Nat)
  PROVE  IsRecord(Assemble(version, compatible, fields, variables), compatible, fields, variables)
<1> DEFINE F == Len(fields)
           W == Len(variables)
           header == <<version, compatible, 0, F + 5>>
           zero == <<0>>
           invalid == <<InvalidRid>>
           r1 == header \o fields
           r2 == r1 \o zero
           r3 == r2 \o variables
           r4 == r3 \o invalid
<1>1. F \in Nat /\ W \in Nat
  BY LenProperties
<1>2. /\ header \in Seq(Nat) /\ Len(header) = 4 /\ header[2] = compatible /\ header[4] = F + 5
      /\ zero \in Seq(Nat) /\ Len(zero) = 1 /\ zero[1] = 0
      /\ invalid \in Seq(Nat) /\ Len(invalid) = 1 /\ invalid[1] = InvalidRid
  <2> HIDE DEF F
  <2> QED BY <1>1, RidFacts
<1>3. Assemble(version, compatible, fields, variables) = r4
  BY Zenon DEF Assemble
<1> HIDE DEF header, zero, invalid
<1>4. Joined(header, fields, r1)
  BY <1>2, JoinedFacts
<1>5. Joined(r1, zero, r2)
  <2>1. r1 \in Seq(Nat)
    BY <1>4 DEF Joined
  <2> HIDE DEF r1
  <2> QED BY <2>1, <1>2, JoinedFacts
<1>6. Joined(r2, variables, r3)
  <2>1. r2 \in Seq(Nat)
    BY <1>5 DEF Joined
  <2> HIDE DEF r2
  <2> QED BY <2>1, JoinedFacts
<1>7. Joined(r3, invalid, r4)
  <2>1. r3 \in Seq(Nat)
    BY <1>6 DEF Joined
  <2> HIDE DEF r3
  <2> QED BY <2>1, <1>2, JoinedFacts
<1> HIDE DEF r1, r2, r3, r4, F, W
<1>8. /\ Len(r1) = F + 4 /\ Len(r2) = F + 5 /\ Len(r3) = F + W + 5 /\ Len(r4) = F + W + 6
      /\ r4 \in Seq(Nat)
  BY <1>1, <1>2, <1>4, <1>5, <1>6, <1>7 DEF F, W, Joined
<1>9. ASSUME NEW i \in 1..(F + 4) PROVE r4[i] = r1[i]
  <2>1. i \in 1..Len(r1) /\ i \in 1..Len(r2) /\ i \in 1..Len(r3)
    BY <1>1, <1>8
  <2> QED BY <2>1, <1>5, <1>6, <1>7 DEF Joined
<1>10. r4[2] = compatible /\ r4[4] = F + 5
  <2>1. 2 \in 1..(F + 4) /\ 4 \in 1..(F + 4) /\ 2 \in 1..4 /\ 4 \in 1..4
    BY <1>1
  <2>2. r1[2] = header[2] /\ r1[4] = header[4]
    BY <2>1, <1>2, <1>4 DEF Joined
  <2> QED BY <2>1, <2>2, <1>2, <1>9
<1>11. ASSUME NEW j \in 1..F PROVE r4[4 + j] = fields[j]
  <2>1. 4 + j \in 1..(F + 4)
    BY <1>1
  <2>2. r1[4 + j] = fields[j]
    BY <1>2, <1>4 DEF Joined, F
  <2> QED BY <2>1, <2>2, <1>9
<1>12. r4[F + 5] = 0
  <2>1. F + 5 \in 1..Len(r2) /\ F + 5 \in 1..Len(r3) /\ 1 \in 1..1 /\ F + 5 = Len(r1) + 1
    BY <1>1, <1>8
  <2>2. r2[Len(r1) + 1] = zero[1]
    BY <2>1, <1>2, <1>5 DEF Joined
  <2>3. r2[F + 5] = 0
    BY <2>1, <2>2, <1>2
  <2> QED BY <2>1, <2>3, <1>6, <1>7 DEF Joined
<1>13. ASSUME NEW j \in 1..W PROVE r4[F + 5 + j] = variables[j]
  <2>1. F + 5 + j \in 1..Len(r3) /\ F + 5 + j = Len(r2) + j
    BY <1>1, <1>8
  <2>2. r3[Len(r2) + j] = variables[j]
    BY <1>6 DEF Joined, W
  <2>3. r3[F + 5 + j] = variables[j]
    BY <2>1, <2>2
  <2> QED BY <2>1, <2>3, <1>7 DEF Joined
<1>14. r4[F + W + 6] = InvalidRid
  <2>1. 1 \in 1..1 /\ F + W + 6 = Len(r3) + 1
    BY <1>1, <1>8
  <2>2. r4[Len(r3) + 1] = invalid[1]
    BY <2>1, <1>2, <1>7 DEF Joined
  <2> QED BY <2>1, <2>2, <1>2
<1> QED BY <1>3, <1>8, <1>10, <1>11, <1>12, <1>13, <1>14 DEF IsRecord, F, W

\* all is the number, the length of the list, and the list.
IsListed(number, list, all) ==
  /\ all \in Seq(Nat) /\ Len(all) = Len(list) + 2
  /\ all[1] = number /\ all[2] = Len(list)
  /\ \A j \in 1..Len(list) : all[2 + j] = list[j]

\* A list is its number, its length and its items.
LEMMA AddListFacts ==
  ASSUME NEW number \in Nat, NEW list \in Seq(Nat)
  PROVE  IsListed(number, list, AddList(number, list))
<1> DEFINE L == Len(list)
           head == <<number, L>>
           all == AddList(number, list)
<1>1. L \in Nat
  BY LenProperties
<1>2. head \in Seq(Nat) /\ Len(head) = 2 /\ head[1] = number /\ head[2] = L
  <2> HIDE DEF L
  <2> QED BY <1>1
<1>3. all = head \o list
  BY DEF AddList
<1> HIDE DEF head, all
<1>4. Joined(head, list, all)
  BY <1>2, <1>3, JoinedFacts
<1>5. 1 \in 1..2 /\ 2 \in 1..2
  OBVIOUS
<1>6. all \in Seq(Nat) /\ Len(all) = L + 2
  BY <1>1, <1>2, <1>4 DEF Joined
<1>7. all[1] = number /\ all[2] = L
  BY <1>2, <1>4, <1>5 DEF Joined
<1>8. \A j \in 1..L : all[2 + j] = list[j]
  BY <1>2, <1>4 DEF Joined
<1>9. IsListed(number, list, all)
  BY <1>6, <1>7, <1>8 DEF IsListed
<1> QED BY <1>9 DEF all

\* The value a field has in a record; 0 if it is not written.
Given(c, withTime) == [f \in Fields |-> IF f = LastHitTime /\ ~withTime THEN 0 ELSE Getter(c, f)]

\* The parts of a cookie.
LEMMA CookieFacts ==
  ASSUME NEW c \in Cookie
  PROVE  /\ c.field \in [Fields -> Nat] /\ c.purchaseIds \in IdList /\ c.known \subseteq Rids
         /\ c.vals \in [Rids -> Seq(Elements)] /\ c.vals \in [Rids -> Seq(Nat)]
         /\ \A x \in Rids : c.vals[x] # <<>> => x \in c.known
         /\ \A f \in Fields : Getter(c, f) \in Nat
         /\ c = [field |-> c.field, purchaseIds |-> c.purchaseIds, known |-> c.known, vals |-> c.vals]
<1>1. /\ c.field \in [Fields -> Nat] /\ c.purchaseIds \in IdList /\ c.known \subseteq Rids
      /\ c.vals \in [Rids -> Seq(Elements)]
      /\ c = [field |-> c.field, purchaseIds |-> c.purchaseIds, known |-> c.known, vals |-> c.vals]
  BY DEF Cookie
<1>2. \A x \in Rids : c.vals[x] # <<>> => x \in c.known
  BY DEF Cookie
<1>3. \A f \in Fields : Getter(c, f) \in Nat
  <2>1. LastHitTime \in Fields
    BY DEF LastHitTime, Fields
  <2> QED BY <2>1, <1>1 DEF Getter
<1>4. c.vals \in [Rids -> Seq(Nat)]
  <2>1. \A x \in Rids : c.vals[x] \in Seq(Nat)
    BY <1>1, SerializationAssumption, SeqMonotonic
  <2> QED BY <2>1, <1>1
<1> QED BY <1>1, <1>2, <1>3, <1>4

\* The items of the fields, and where each one is.
FieldItems(c, withTime) ==
  FlattenSeq([f \in Fields |-> IF f = LastHitTime /\ ~withTime THEN <<>> ELSE AddField(f, Getter(c, f))])

\* Where the fields are among the items: P[f] items are those of the fields up to f.
FieldPlaces(items, given, P) ==
  /\ items \in Seq(Nat) /\ P \in [0..10 -> Nat] /\ P[0] = 0 /\ Len(items) = P[10]
  /\ \A f \in 1..10 :
       /\ P[f] = P[f - 1] + (IF given[f] = 0 THEN 0 ELSE 2)
       /\ given[f] # 0 => /\ P[f - 1] + 2 <= Len(items)
                          /\ items[P[f - 1] + 1] = f /\ items[P[f - 1] + 2] = given[f]

\* The fields that are given are laid out in order, two items each.
LEMMA FieldItemsFacts ==
  ASSUME NEW c \in Cookie, NEW withTime \in BOOLEAN
  PROVE  /\ Given(c, withTime) \in [Fields -> Nat]
         /\ \E P : FieldPlaces(FieldItems(c, withTime), Given(c, withTime), P)
<1> DEFINE given == Given(c, withTime)
           lists == [f \in Fields |-> IF f = LastHitTime /\ ~withTime THEN <<>> ELSE AddField(f, Getter(c, f))]
           items == FlattenSeq(lists)
<1>1. Fields = 1..10 /\ 10 \in Nat
  BY DEF Fields
<1>2. given \in [Fields -> Nat]
  BY CookieFacts DEF Given
<1>3. \A f \in 1..10 : lists[f] = IF given[f] = 0 THEN <<>> ELSE <<f, given[f]>>
  BY <1>1 DEF AddField, Given
<1>4. lists \in [1..10 -> Seq(Nat)]
  <2>1. \A f \in 1..10 : lists[f] \in Seq(Nat)
    <3> SUFFICES ASSUME NEW f \in 1..10 PROVE lists[f] \in Seq(Nat)
      OBVIOUS
    <3>1. CASE given[f] = 0
      BY <3>1, <1>3, EmptySeq
    <3>2. CASE given[f] # 0
      <4>1. given[f] \in Nat /\ f \in Nat
        BY <1>1, <1>2
      <4> HIDE DEF lists, given
      <4>2. <<f, given[f]>> \in Seq(Nat)
        BY <4>1
      <4> QED BY <3>2, <4>2, <1>3
    <3> QED BY <3>1, <3>2
  <2>2. DOMAIN lists = 1..10 /\ lists = [f \in 1..10 |-> lists[f]]
    BY <1>1
  <2> HIDE DEF lists
  <2> QED BY <2>1, <2>2
<1> HIDE DEF lists, given
<1>5. lists \in Seq(Seq(Nat)) /\ Len(lists) = 10
  <2>1. lists \in Seq(Seq(Nat))
    <3> DEFINE Lists == Seq(Nat)
    <3>1. lists \in [1..10 -> Lists]
      BY <1>4
    <3> HIDE DEF Lists
    <3>2. \E n \in Nat : lists \in [1..n -> Lists]
      BY <3>1, <1>1
    <3>3. lists \in UNION {[1..n -> Lists] : n \in Nat}
      BY <3>2, Zenon
    <3>4. lists \in Seq(Lists)
      BY <3>3, SeqDef, Zenon
    <3> QED BY <3>4 DEF Lists
  <2>2. DOMAIN lists = 1..10 /\ DOMAIN lists = 1..Len(lists) /\ Len(lists) \in Nat
    BY <2>1, <1>4, LenProperties
  <2>3. Len(lists) = 10
    BY <2>2
  <2> QED BY <2>1, <2>3
<1>6. items \in Seq(Nat) /\ \E P : ListPlaces(lists, items, P)
  BY <1>5, FlattenPlaces
<1> HIDE DEF items
<1>7. PICK P \in [0..10 -> Nat] :
        /\ P[0] = 0 /\ Len(items) = P[10] /\ \A n \in 0..10 : P[n] <= Len(items)
        /\ \A n \in 1..10 :
             /\ P[n] = P[n - 1] + Len(lists[n])
             /\ \A j \in 1..Len(lists[n]) : items[P[n - 1] + j] = lists[n][j]
  <2>1. PICK P : ListPlaces(lists, items, P)
    BY <1>6
  <2>2. /\ P \in [0..10 -> Nat] /\ P[0] = 0 /\ Len(items) = P[10] /\ \A n \in 0..10 : P[n] <= Len(items)
        /\ \A n \in 1..10 :
             /\ P[n] = P[n - 1] + Len(lists[n])
             /\ \A j \in 1..Len(lists[n]) : items[P[n - 1] + j] = lists[n][j]
    BY <1>5, <2>1, Zenon DEF ListPlaces
  <2> QED BY <2>2
<1>8. ASSUME NEW f \in 1..10
      PROVE  /\ P[f] = P[f - 1] + (IF given[f] = 0 THEN 0 ELSE 2) /\ P[f - 1] \in Nat
             /\ given[f] # 0 => items[P[f - 1] + 1] = f /\ items[P[f - 1] + 2] = given[f]
  <2>1. f - 1 \in 0..10
    OBVIOUS
  <2>2. CASE given[f] = 0
    <3>1. Len(lists[f]) = 0
      BY <2>2, <1>3, EmptySeq
    <3> QED BY <3>1, <2>1, <2>2, <1>7
  <2>3. CASE given[f] # 0
    <3>1. lists[f] = <<f, given[f]>>
      BY <2>3, <1>3
    <3>2. Len(lists[f]) = 2 /\ lists[f][1] = f /\ lists[f][2] = given[f]
      BY <3>1
    <3>3. 1 \in 1..2 /\ 2 \in 1..2
      OBVIOUS
    <3> QED BY <3>2, <3>3, <2>1, <2>3, <1>7
  <2> QED BY <2>2, <2>3
<1>10. ASSUME NEW f \in 1..10, given[f] # 0 PROVE P[f - 1] + 2 <= Len(items)
  <2>1. f \in 0..10
    OBVIOUS
  <2> QED BY <2>1, <1>7, <1>8, <1>10
<1>11. FieldPlaces(items, given, P)
  BY <1>6, <1>7, <1>8, <1>10 DEF FieldPlaces
<1> QED BY <1>2, <1>11 DEF FieldItems, items, lists, given

\* A function on the first numbers is a sequence.
LEMMA FunctionIsSeq ==
  ASSUME NEW S, NEW n \in Nat, NEW f \in [1..n -> S]
  PROVE  f \in Seq(S) /\ Len(f) = n
<1>1. f \in Seq(S)
  <2>1. f \in UNION {[1..m -> S] : m \in Nat}
    BY Zenon
  <2> QED BY <2>1, SeqDef, Zenon
<1>2. Len(f) \in Nat /\ 1..Len(f) = 1..n
  BY <1>1, LenProperties
<1> QED BY <1>1, <1>2

\* The order in which the variables are visited.
IsOrder(ids, n, s) ==
  /\ n \in Nat /\ s \in [1..n -> ids]
  /\ \A i, j \in 1..n : i < j => s[i] < s[j]
  /\ \A i, j \in 1..n : s[i] = s[j] => i = j
  /\ \A x \in ids : \E i \in 1..n : s[i] = x

\* A set of ids, all below INVALID_RID, has an ascending order, and Ascending is it.
LEMMA AscendingFacts ==
  ASSUME NEW ids \in SUBSET RelationIds
  PROVE  IsOrder(ids, Cardinality(ids), Ascending(ids))
<1> DEFINE n == Cardinality(ids)
           s == Ascending(ids)
<1>1. ids \subseteq Nat /\ InvalidRid \in Nat /\ \A x \in ids : x <= InvalidRid
  BY RidFacts
<1>2. IsFiniteSet(ids)
  BY <1>1, FS_BoundedSetOfNaturals
<1>3. n \in Nat /\ \E q \in [1..n -> ids] : \A i, j \in DOMAIN q : i < j => q[i] < q[j]
  BY <1>1, <1>2, AscendingExists
<1>4. s \in [1..n -> ids] /\ \A i, j \in DOMAIN s : i < j => s[i] < s[j]
  <2>1. s = CHOOSE q \in [1..n -> ids] : \A i, j \in DOMAIN q : i < j => q[i] < q[j]
    BY DEF Ascending
  <2> HIDE DEF s, n
  <2> QED BY <1>3, <2>1
<1> HIDE DEF s
<1>5. \A i, j \in 1..n : s[i] = s[j] => i = j
  <2> SUFFICES ASSUME NEW i \in 1..n, NEW j \in 1..n, i < j PROVE s[i] # s[j]
    BY <1>3
  <2>1. s[i] < s[j] /\ s[i] \in Nat /\ s[j] \in Nat
    BY <1>1, <1>4
  <2> QED BY <2>1
<1>6. \A x \in ids : \E i \in 1..n : s[i] = x
  <2>1. s \in Injection(1..n, ids)
    BY <1>4, <1>5 DEF Injection, IsInjective
  <2>2. Cardinality(1..n) = n
    BY <1>3, FS_Interval
  <2>3. s \in Surjection(1..n, ids)
    BY <2>1, <2>2, <1>2, FS_Injection
  <2> QED BY <2>3 DEF Surjection
<1>7. IsOrder(ids, n, s)
  BY <1>3, <1>4, <1>5, <1>6 DEF IsOrder
<1> QED BY <1>7 DEF n, s

\* The n variables of c in the items flat, in the order ids.
VarPlaces(c, flat, n, ids, P) ==
  /\ flat \in Seq(Nat) /\ IsOrder(SetIds(c), n, ids)
  /\ P \in [0..n -> Nat] /\ P[0] = 0 /\ Len(flat) = P[n]
  /\ \A i \in 1..n : /\ P[i] = P[i - 1] + 2 + Len(c.vals[ids[i]]) /\ P[i] <= Len(flat)
                     /\ flat[P[i - 1] + 1] = ids[i] /\ flat[P[i - 1] + 2] = Len(c.vals[ids[i]])
                     /\ \A j \in 1..Len(c.vals[ids[i]]) : flat[P[i - 1] + 2 + j] = c.vals[ids[i]][j]

\* The variables that are set are laid out by ascending id.
LEMMA AddVarsFacts ==
  ASSUME NEW c \in Cookie
  PROVE  \E n, ids, P : VarPlaces(c, AddVars(c), n, ids, P)
<1> DEFINE n == Cardinality(SetIds(c))
           ids == Ascending(SetIds(c))
           lists == [i \in 1..n |-> AddList(ids[i], c.vals[ids[i]])]
           flat == FlattenSeq(lists)
<1>1. IsOrder(SetIds(c), n, ids)
  BY AscendingFacts DEF SetIds
<1>2. flat = AddVars(c)
  BY Zenon DEF AddVars
<1> HIDE DEF n, ids
<1>3. ASSUME NEW i \in 1..n
      PROVE  /\ ids[i] \in Nat /\ c.vals[ids[i]] \in Seq(Nat) /\ Len(c.vals[ids[i]]) \in Nat
             /\ lists[i] \in Seq(Nat) /\ Len(lists[i]) = Len(c.vals[ids[i]]) + 2
             /\ lists[i][1] = ids[i] /\ lists[i][2] = Len(c.vals[ids[i]])
             /\ \A j \in 1..Len(c.vals[ids[i]]) : lists[i][2 + j] = c.vals[ids[i]][j]
  <2> DEFINE number == ids[i]
             list == c.vals[number]
  <2>1. number \in RelationIds
    BY <1>1 DEF IsOrder, SetIds
  <2>2. number \in Nat /\ number \in Rids
    BY <2>1, RidFacts
  <2>3. list \in Seq(Nat)
    BY <2>2, CookieFacts
  <2>4. lists[i] = AddList(number, list)
    OBVIOUS
  <2> HIDE DEF number, list, lists
  <2>5. /\ lists[i] \in Seq(Nat) /\ Len(lists[i]) = Len(list) + 2
        /\ lists[i][1] = number /\ lists[i][2] = Len(list)
        /\ \A j \in 1..Len(list) : lists[i][2 + j] = list[j]
    <3> DEFINE all == AddList(number, list)
    <3>1. IsListed(number, list, all)
      BY <2>2, <2>3, AddListFacts
    <3> HIDE DEF all
    <3>2. IsListed(number, list, lists[i])
      BY <3>1, <2>4 DEF all
    <3> QED BY <3>2 DEF IsListed
  <2> QED BY <2>2, <2>3, <2>5, LenProperties DEF number, list
<1>4. lists \in Seq(Seq(Nat)) /\ Len(lists) = n
  <2> DEFINE T == Seq(Nat)
  <2>1. lists \in [1..n -> T] /\ n \in Nat
    BY <1>1, <1>3 DEF IsOrder
  <2> HIDE DEF T, lists
  <2>2. lists \in Seq(T) /\ Len(lists) = n
    BY <2>1, FunctionIsSeq
  <2> QED BY <2>2 DEF T
<1> HIDE DEF lists
<1>5. flat \in Seq(Nat) /\ \E P : ListPlaces(lists, flat, P)
  BY <1>4, FlattenPlaces
<1> HIDE DEF flat
<1>6. PICK P : ListPlaces(lists, flat, P)
  BY <1>5
<1>7. /\ P \in [0..n -> Nat] /\ P[0] = 0 /\ Len(flat) = P[n] /\ \A i \in 0..n : P[i] <= Len(flat)
      /\ \A i \in 1..n : /\ P[i] = P[i - 1] + Len(lists[i])
                         /\ \A j \in 1..Len(lists[i]) : flat[P[i - 1] + j] = lists[i][j]
  BY <1>4, <1>6, Zenon DEF ListPlaces
<1>8. n \in Nat
  BY <1>1 DEF IsOrder
<1>9. ASSUME NEW i \in 1..n
      PROVE  /\ P[i] = P[i - 1] + 2 + Len(c.vals[ids[i]]) /\ P[i] <= Len(flat)
             /\ flat[P[i - 1] + 1] = ids[i] /\ flat[P[i - 1] + 2] = Len(c.vals[ids[i]])
             /\ \A j \in 1..Len(c.vals[ids[i]]) : flat[P[i - 1] + 2 + j] = c.vals[ids[i]][j]
  <2> DEFINE L == Len(c.vals[ids[i]])
             list == c.vals[ids[i]]
  <2>1. L \in Nat /\ Len(lists[i]) = L + 2 /\ lists[i][1] = ids[i] /\ lists[i][2] = L
        /\ \A j \in 1..L : lists[i][2 + j] = list[j]
    BY <1>3
  <2>2. i \in 0..n /\ P[i - 1] \in Nat
    BY <1>7, <1>8
  <2> HIDE DEF L, list
  <2>3. 1 \in 1..(L + 2) /\ 2 \in 1..(L + 2) /\ \A j \in 1..L : 2 + j \in 1..(L + 2) /\ j \in Nat
    BY <2>1
  <2>4. P[i] = P[i - 1] + 2 + L /\ P[i] <= Len(flat)
    <3>1. P[i] = P[i - 1] + (L + 2) /\ P[i] <= Len(flat)
      BY <1>7, <2>1, <2>2
    <3>2. \A a \in Nat : a + (L + 2) = a + 2 + L
      BY <2>1
    <3>3. P[i - 1] + (L + 2) = P[i - 1] + 2 + L
      BY <3>2, <2>2
    <3> QED BY <3>1, <3>3
  <2>5. flat[P[i - 1] + 1] = ids[i] /\ flat[P[i - 1] + 2] = L
    BY <1>7, <2>1, <2>3
  <2>6. ASSUME NEW j \in 1..L PROVE flat[P[i - 1] + 2 + j] = list[j]
    <3>1. flat[P[i - 1] + (2 + j)] = lists[i][2 + j]
      BY <1>7, <2>1, <2>3
    <3>2. P[i - 1] + (2 + j) = P[i - 1] + 2 + j
      BY <2>2, <2>3
    <3> QED BY <3>1, <3>2, <2>1
  <2> QED BY <2>4, <2>5, <2>6 DEF L, list
<1>10. VarPlaces(c, flat, n, ids, P)
  BY <1>1, <1>5, <1>7, <1>9 DEF VarPlaces
<1> QED BY <1>2, <1>10

----------------------------------------------------------------------------
(* The layout of a record *)

\* The fields of a record stand behind its header, whatever follows them that
\* is no field this version knows (vcookiestore.cpp:75-107).
LEMMA FieldsLaidOut ==
  ASSUME NEW items, NEW given \in [Fields -> Nat], NEW P0, FieldPlaces(items, given, P0),
         NEW record \in Seq(Nat), \A j \in 1..Len(items) : record[4 + j] = items[j],
         Len(items) + 5 <= Len(record),
         record[Len(items) + 5] = 0 \/ record[Len(items) + 5] > 10
  PROVE  \E P : FieldsAt(record, P, given) /\ P[0] = 4 /\ P[10] = Len(items) + 4
<1> DEFINE L == Len(items)
           P == [i \in 0..10 |-> P0[i] + 4]
           After(f) == record[P[f] + 1]
           S == {k \in 0..10 : P[10 - k] <= L + 4 /\ (After(10 - k) = 0 \/ After(10 - k) > 10 - k)}
<1>1. /\ P0 \in [0..10 -> Nat] /\ P0[0] = 0 /\ L = P0[10] /\ L \in Nat /\ Fields = 1..10
      /\ \A f \in 1..10 : P0[f] = P0[f - 1] + (IF given[f] = 0 THEN 0 ELSE 2)
  BY DEF FieldPlaces, Fields
<1>0. L \in Nat
  BY <1>1
<1>2a. \A f \in 0..10 : P0[f] \in Nat /\ P[f] = P0[f] + 4 /\ P[f] \in Nat
  <2> SUFFICES ASSUME NEW f \in 0..10 PROVE P0[f] \in Nat /\ P[f] = P0[f] + 4 /\ P[f] \in Nat
    OBVIOUS
  <2>1. P0[f] \in Nat
    BY <1>1
  <2>2. P[f] = P0[f] + 4
    OBVIOUS
  <2> HIDE DEF P
  <2> QED BY <2>1, <2>2
<1>2. P \in [0..10 -> Nat] /\ P[0] = 4 /\ P[10] = L + 4
  <2>1. P \in [0..10 -> Nat]
    <3>1. P = [f \in 0..10 |-> P[f]]
      OBVIOUS
    <3> HIDE DEF P
    <3> QED BY <3>1, <1>2a
  <2>2. 0 \in 0..10 /\ 10 \in 0..10 /\ P0[0] = 0 /\ P0[10] = L
    BY <1>1
  <2> HIDE DEF P, L
  <2>3. P[0] = P0[0] + 4 /\ P[10] = P0[10] + 4
    BY <2>2, <1>2a
  <2> QED BY <2>1, <2>2, <2>3
<1>3. ASSUME NEW f \in 1..10
      PROVE  /\ P[f - 1] \in Nat /\ P[f] \in Nat /\ P[f] = P[f - 1] + (IF given[f] = 0 THEN 0 ELSE 2)
             /\ given[f] # 0 => record[P[f - 1] + 1] = f /\ record[P[f - 1] + 2] = given[f]
  <2> DEFINE p == P0[f - 1]
  <2>1. /\ f \in 0..10 /\ f - 1 \in 0..10 /\ p \in Nat /\ P[f - 1] = p + 4 /\ P[f] = P0[f] + 4
        /\ P0[f] = p + (IF given[f] = 0 THEN 0 ELSE 2)
    <3>1. f \in 0..10 /\ f - 1 \in 0..10
      OBVIOUS
    <3> HIDE DEF P
    <3> QED BY <3>1, <1>1, <1>2a
  <2>2. given[f] # 0 => p + 2 <= L /\ items[p + 1] = f /\ items[p + 2] = given[f]
    BY DEF FieldPlaces
  <2> HIDE DEF p, P, L
  <2>3. P[f - 1] \in Nat /\ P[f] \in Nat /\ P[f] = P[f - 1] + (IF given[f] = 0 THEN 0 ELSE 2)
    BY <2>1
  <2>4. ASSUME given[f] # 0 PROVE record[P[f - 1] + 1] = f /\ record[P[f - 1] + 2] = given[f]
    <3>1. p + 1 \in 1..L /\ p + 2 \in 1..L
      BY <1>0, <2>1, <2>2, <2>4
    <3>2. record[4 + (p + 1)] = f /\ record[4 + (p + 2)] = given[f]
      BY <2>2, <2>4, <3>1 DEF L
    <3>3. 4 + (p + 1) = P[f - 1] + 1 /\ 4 + (p + 2) = P[f - 1] + 2
      BY <2>1
    <3> QED BY <3>2, <3>3
  <2> QED BY <2>3, <2>4
<1>4. L + 5 <= Len(record) /\ Len(record) \in Nat /\ (record[L + 5] = 0 \/ record[L + 5] > 10)
  BY LenProperties
<1> HIDE DEF P, L
<1>5. 0 \in S
  <2>1. 10 - 0 = 10 /\ P[10] + 1 = L + 5 /\ 0 \in 0..10 /\ P[10] <= L + 4
    BY <1>0, <1>2
  <2> QED BY <2>1, <1>4
<1>6. ASSUME NEW k \in 1..10, k - 1 \in S PROVE k \in S
  <2> DEFINE f == 10 - (k - 1)
  <2>1. f \in 1..10 /\ 10 - k = f - 1 /\ k \in 0..10
    OBVIOUS
  <2>2. P[f] <= L + 4 /\ (After(f) = 0 \/ After(f) > f)
    BY <1>6
  <2> HIDE DEF f
  <2>3. P[f - 1] <= L + 4 /\ (After(f - 1) = 0 \/ After(f - 1) > f - 1)
    <3>1. P[f - 1] \in Nat /\ P[f] \in Nat /\ P[f] = P[f - 1] + (IF given[f] = 0 THEN 0 ELSE 2)
      BY <1>3, <2>1
    <3>2. CASE given[f] = 0
      <4>1. P[f] = P[f - 1] /\ After(f) = After(f - 1)
        BY <3>1, <3>2
      <4>2. After(f) > f => After(f) > f - 1
        <5>1. P[f] + 1 \in 1..Len(record)
          BY <3>1, <2>2, <1>4, <1>0
        <5>2. After(f) \in Nat
          BY <5>1, ElementOfSeq
        <5> HIDE DEF After
        <5> QED BY <2>1, <5>2
      <4> QED BY <4>1, <4>2, <2>2
    <3>3. CASE given[f] # 0
      <4>1. After(f - 1) = f
        BY <3>3, <2>1, <1>3
      <4> QED BY <3>1, <3>3, <4>1, <2>1, <2>2, <1>0
    <3> QED BY <3>2, <3>3
  <2> HIDE DEF After
  <2> QED BY <2>1, <2>3
<1>7. 0..10 \subseteq S
  <2> HIDE DEF S
  <2> QED BY <1>5, <1>6, UpTo
<1>8. ASSUME NEW f \in 1..10
      PROVE  P[f] <= L + 4 /\ (After(f) = 0 \/ After(f) > f)
  <2>1. 10 - f \in 0..10 /\ 10 - (10 - f) = f
    OBVIOUS
  <2> QED BY <2>1, <1>7
<1>9. ASSUME NEW f \in 1..10
      PROVE  /\ P[f] < Len(record)
             /\ given[f] = 0 => record[P[f - 1] + 1] # f
  <2>0. /\ P[f - 1] \in Nat /\ P[f] \in Nat /\ P[f] <= L + 4
        /\ P[f] = P[f - 1] + (IF given[f] = 0 THEN 0 ELSE 2)
    BY <1>3, <1>8
  <2>1. P[f] < Len(record)
    BY <2>0, <1>4, <1>0
  <2>2. ASSUME given[f] = 0 PROVE record[P[f - 1] + 1] # f
    <3>1. P[f] = P[f - 1]
      BY <2>0, <2>2
    <3>2. After(f) # f
      <4>1. f > 0 /\ f \in Nat
        OBVIOUS
      <4>2. After(f) = 0 \/ After(f) > f
        BY <1>8
      <4>3. CASE After(f) = 0
        <5> HIDE DEF After
        <5> QED BY <4>1, <4>3
      <4>4. CASE After(f) > f
        <5> HIDE DEF After
        <5> QED BY <4>1, <4>4
      <4> QED BY <4>2, <4>3, <4>4
    <3> QED BY <3>1, <3>2
  <2> QED BY <2>1, <2>2
<1>10. FieldsAt(record, P, given)
  BY <1>2, <1>3, <1>9 DEF FieldsAt
<1> QED BY <1>10, <1>2 DEF L

\* The elements a record has of each variable: those of INVALID_RID are not
\* written, because the walk ends there (vcookiestore.cpp:119-134).
Written_vals(c) == [x \in Rids |-> IF x \in RelationIds THEN c.vals[x] ELSE <<>>]

\* The variables of a record stand behind its offset, and end it.
LEMMA VarsLaidOut ==
  ASSUME NEW c \in Cookie, NEW flat, NEW n, NEW ids, NEW P0, VarPlaces(c, flat, n, ids, P0),
         NEW fields \in Seq(Nat), NEW compatible, NEW record, IsRecord(record, compatible, fields, flat)
  PROVE  \E P : VarsAt(record, P, ids, Written_vals(c), n) /\ P[0] = Len(fields) + 5
<1> DEFINE F == Len(fields)
           L == Len(flat)
           new == Written_vals(c)
           P == [i \in 0..n |-> P0[i] + (F + 5)]
<1>1. /\ flat \in Seq(Nat) /\ n \in Nat /\ ids \in [1..n -> SetIds(c)] /\ P0 \in [0..n -> Nat]
      /\ P0[0] = 0 /\ L = P0[n] /\ \A i, j \in 1..n : ids[i] = ids[j] => i = j
      /\ \A x \in SetIds(c) : \E i \in 1..n : ids[i] = x
  BY DEF VarPlaces, IsOrder
<1>2. F \in Nat /\ L \in Nat
  BY <1>1, LenProperties
<1>3. /\ record \in Seq(Nat) /\ Len(record) = F + L + 6 /\ record[F + L + 6] = InvalidRid
      /\ \A j \in 1..L : record[F + 5 + j] = flat[j]
  BY DEF IsRecord
<1>4. SetIds(c) \subseteq RelationIds /\ ids \in [1..n -> RelationIds]
  <2>1. SetIds(c) \subseteq RelationIds
    BY DEF SetIds
  <2> QED BY <2>1, <1>1
<1>5. new \in [Rids -> Seq(Nat)] /\ \A x \in Rids : new[x] # <<>> => x \in SetIds(c)
  <2>1. \A x \in Rids : c.vals[x] \in Seq(Nat)
    BY CookieFacts
  <2>2. <<>> \in Seq(Nat)
    BY EmptySeq
  <2> HIDE DEF SetIds
  <2>3. new \in [Rids -> Seq(Nat)]
    BY <2>1, <2>2 DEF Written_vals
  <2>4. \A x \in Rids : new[x] # <<>> => x \in RelationIds /\ c.vals[x] # <<>>
    BY DEF Written_vals
  <2> QED BY <2>3, <2>4 DEF SetIds
<1>6. \A x \in RelationIds : new[x] = c.vals[x]
  BY RidFacts DEF Written_vals
<1> HIDE DEF F, L, new
<1>7. P \in [0..n -> Nat] /\ P[0] = F + 5 /\ P[n] = L + (F + 5)
  BY <1>1, <1>2
<1>8. ASSUME NEW i \in 1..n
      PROVE  record[P[i - 1] + 1] = ids[i] /\ ListAt(record, P[i - 1], new[ids[i]], P[i])
  <2> DEFINE list == new[ids[i]]
             N == Len(list)
             p == P0[i - 1]
             head == P[i - 1]
             to == P[i]
  <2>1. ids[i] \in RelationIds /\ ids[i] \in Rids /\ list = c.vals[ids[i]]
    BY <1>4, <1>6, RidFacts
  <2>2. list \in Seq(Nat) /\ N \in Nat
    BY <2>1, <1>5, LenProperties
  <2>3. /\ P0[i] = p + 2 + N /\ P0[i] <= L
        /\ flat[p + 1] = ids[i] /\ flat[p + 2] = N
        /\ \A j \in 1..N : flat[p + 2 + j] = list[j]
    BY <2>1, Zenon DEF VarPlaces, L
  <2>4. i - 1 \in 0..n /\ i \in 0..n
    BY <1>1
  <2>5. p \in Nat /\ head = p + (F + 5) /\ to = P0[i] + (F + 5)
    BY <1>1, <2>4
  <2> HIDE DEF list, N, p, P, head, to
  <2>6. to = head + 2 + N /\ to < Len(record)
    BY <2>2, <2>3, <2>5, <1>2, <1>3
  <2>7. ASSUME NEW j \in 1..(N + 2) PROVE record[head + j] = flat[p + j]
    <3>1. p + j \in 1..L
      BY <2>2, <2>3, <2>5, <1>2
    <3>2. F + 5 + (p + j) = head + j
      BY <2>5, <1>2, <2>2
    <3> QED BY <3>1, <3>2, <1>3
  <2>8. record[head + 1] = ids[i] /\ record[head + 2] = N
    <3>1. 1 \in 1..(N + 2) /\ 2 \in 1..(N + 2)
      BY <2>2
    <3> QED BY <3>1, <2>3, <2>7
  <2>9. ASSUME NEW j \in 1..N PROVE record[head + 2 + j] = list[j]
    <3>1. 2 + j \in 1..(N + 2) /\ head + (2 + j) = head + 2 + j /\ p + (2 + j) = p + 2 + j
      BY <2>2, <2>5, <1>2
    <3> QED BY <3>1, <2>3, <2>7
  <2>10. ListAt(record, head, list, to)
    BY <2>2, <2>6, <2>8, <2>9 DEF ListAt, N
  <2> QED BY <2>8, <2>10 DEF list, head, to
<1>9. record[P[n] + 1] = InvalidRid /\ P[n] + 1 = Len(record)
  <2>1. P[n] + 1 = F + L + 6
    BY <1>7, <1>2
  <2> QED BY <2>1, <1>3
<1> HIDE DEF P
<1>10. VarsAt(record, P, ids, new, n)
  BY <1>1, <1>4, <1>5, <1>7, <1>8, <1>9 DEF VarsAt
<1> QED BY <1>7, <1>10 DEF new, F

\* The purchase ids stand in the record from place p on, up to place to, if
\* there are any.
PurchasesAt(record, p, ids, to) ==
  /\ ids = <<>> => to = p /\ record[p + 1] # PurchaseIdList
  /\ ids # <<>> => record[p + 1] = PurchaseIdList /\ ListAt(record, p, ids, to)

\* What stands before the offset of a record: the fields of the cookie, its
\* purchase ids, and what a later version adds.
FieldsOfRecord(record, given, ids, offset) ==
  \E P, to : /\ FieldsAt(record, P, given) /\ P[0] = 4
             /\ to \in Nat /\ PurchasesAt(record, P[10], ids, to) /\ to + 1 <= offset

\* The fields of a record, its purchase ids behind them, and where they end.
LEMMA PurchasesLaidOut ==
  ASSUME NEW c \in Cookie, NEW withTime \in BOOLEAN,
         NEW more \in Seq(Nat), more # <<>> => Head(more) > PurchaseIdList,
         NEW flat \in Seq(Nat), NEW compatible, NEW record,
         NEW fields, fields = AddFields(c, withTime) \o more
  PROVE  /\ AddFields(c, withTime) \in Seq(Nat) /\ fields \in Seq(Nat)
         /\ IsRecord(record, compatible, fields, flat) =>
              FieldsOfRecord(record, Given(c, withTime), c.purchaseIds, Len(fields) + 5)
<1> DEFINE ids == c.purchaseIds
           items == FieldItems(c, withTime)
           list == IF ids = <<>> THEN <<>> ELSE AddList(PurchaseIdList, ids)
           both == items \o list
           L == Len(items)
           N == Len(list)
           M == Len(more)
           given == Given(c, withTime)
<1>1. given \in [Fields -> Nat] /\ \E P0 : FieldPlaces(items, given, P0)
  BY FieldItemsFacts
<1>2. PICK P0 : FieldPlaces(items, given, P0)
  BY <1>1
<1>3. items \in Seq(Nat)
  BY <1>2 DEF FieldPlaces
<1>4. ids \in Seq(Nat) /\ (ids # <<>> => Len(ids) >= 1)
  <2>1. ids \in Seq(PurchaseIds)
    BY CookieFacts DEF IdList
  <2>2. ids \in Seq(Nat)
    BY <2>1, SeqMonotonic DEF PurchaseIds
  <2> HIDE DEF ids
  <2> QED BY <2>2, EmptySeq, LenProperties
<1>5. /\ list \in Seq(Nat)
      /\ ids = <<>> => list = <<>>
      /\ ids # <<>> => IsListed(PurchaseIdList, ids, list)
  <2>1. PurchaseIdList \in Nat
    BY DEF PurchaseIdList
  <2>2. CASE ids = <<>>
    BY <2>2, EmptySeq
  <2>3. CASE ids # <<>>
    <3>1. list = AddList(PurchaseIdList, ids)
      BY <2>3
    <3> HIDE DEF ids, list
    <3>2. IsListed(PurchaseIdList, ids, list)
      BY <2>1, <3>1, <1>4, AddListFacts
    <3>3. list \in Seq(Nat)
      BY <3>2 DEF IsListed
    <3> QED BY <2>3, <3>2, <3>3
  <2> QED BY <2>2, <2>3
<1>6. AddFields(c, withTime) = both
  BY DEF AddFields, FieldItems
<1> HIDE DEF items, list, ids, given
<1>7. Joined(items, list, both)
  BY <1>3, <1>5, JoinedFacts
<1>8. both \in Seq(Nat) /\ fields = both \o more
  BY <1>6, <1>7 DEF Joined
<1> HIDE DEF both
<1>9. Joined(both, more, fields)
  BY <1>8, JoinedFacts
<1>9a. AddFields(c, withTime) \in Seq(Nat) /\ fields \in Seq(Nat)
  BY <1>6, <1>8, <1>9 DEF Joined
<1> SUFFICES ASSUME IsRecord(record, compatible, fields, flat)
             PROVE  FieldsOfRecord(record, Given(c, withTime), c.purchaseIds, Len(fields) + 5)
  BY <1>9a
<1>10. L \in Nat /\ N \in Nat /\ M \in Nat /\ Len(both) = L + N /\ Len(fields) = L + N + M
  BY <1>3, <1>5, <1>7, <1>9, LenProperties DEF Joined
<1>11. /\ record \in Seq(Nat) /\ Len(record) = Len(fields) + Len(flat) + 6 /\ Len(flat) \in Nat
       /\ record[Len(fields) + 5] = 0 /\ \A j \in 1..Len(fields) : record[4 + j] = fields[j]
  BY LenProperties DEF IsRecord
<1>12. /\ \A j \in 1..L : both[j] = items[j]
       /\ \A j \in 1..N : both[L + j] = list[j]
       /\ \A j \in 1..(L + N) : fields[j] = both[j]
       /\ \A j \in 1..M : fields[L + N + j] = more[j]
  BY <1>7, <1>9, <1>10 DEF Joined
<1> DEFINE F == Len(fields)
<1> HIDE DEF L, N, M, F
<1>13. ASSUME NEW j \in 1..L PROVE record[4 + j] = items[j]
  <2>1. j \in 1..(L + N) /\ j \in 1..F
    BY <1>10 DEF F
  <2> QED BY <2>1, <1>11, <1>12 DEF F
<1>14. ASSUME NEW j \in 1..N PROVE record[L + 4 + j] = list[j]
  <2>1. L + j \in 1..(L + N) /\ L + j \in 1..F /\ 4 + (L + j) = L + 4 + j
    BY <1>10 DEF F
  <2> QED BY <2>1, <1>11, <1>12 DEF F
<1>15. record[L + N + 5] = 0 \/ record[L + N + 5] > 11
  <2>1. CASE M = 0
    <3>1. F = L + N
      BY <2>1, <1>10 DEF F
    <3> QED BY <3>1, <1>11 DEF F
  <2>2. CASE M # 0
    <3>1. 1 \in 1..M /\ L + N + 1 \in 1..F /\ 4 + (L + N + 1) = L + N + 5
      BY <2>2, <1>10 DEF F
    <3>2. record[L + N + 5] = more[1]
      BY <3>1, <1>11, <1>12 DEF F
    <3>3. more # <<>>
      BY <2>2 DEF M
    <3> QED BY <3>2, <3>3 DEF PurchaseIdList
  <2> QED BY <2>1, <2>2
<1>16. L + 5 <= Len(record)
  BY <1>10, <1>11
<1>17. /\ record[L + 5] = 0 \/ record[L + 5] > 10
       /\ \E to \in Nat : PurchasesAt(record, L + 4, ids, to) /\ to + 1 <= F + 5
  <2>1. CASE ids = <<>>
    <3>1. N = 0
      BY <2>1, <1>5 DEF N
    <3>2. L + N + 5 = L + 5 /\ L + 4 \in Nat /\ L + 4 + 1 = L + 5 /\ L + 5 <= F + 5
      BY <3>1, <1>10 DEF F
    <3>3. record[L + 5] = 0 \/ record[L + 5] > 11
      BY <3>2, <1>15
    <3>4. record[L + 5] # 11 /\ (record[L + 5] = 0 \/ record[L + 5] > 10)
      <4> DEFINE x == record[L + 5]
      <4>1. x \in Nat
        <5>1. L + 5 \in 1..Len(record)
          BY <1>10, <1>16, <1>11
        <5> QED BY <5>1, <1>11, ElementOfSeq
      <4>2. x = 0 \/ x > 11
        BY <3>3
      <4> HIDE DEF x
      <4>3. x # 11 /\ (x = 0 \/ x > 10)
        BY <4>1, <4>2
      <4> QED BY <4>3 DEF x
    <3>5. PurchasesAt(record, L + 4, ids, L + 4)
      BY <2>1, <3>2, <3>4 DEF PurchasesAt, PurchaseIdList
    <3> QED BY <3>2, <3>4, <3>5
  <2>2. CASE ids # <<>>
    <3> DEFINE I == Len(ids)
               to == L + 4 + N
    <3>1. /\ N = I + 2 /\ list[1] = PurchaseIdList /\ list[2] = I
          /\ \A j \in 1..I : list[2 + j] = ids[j]
      BY <2>2, <1>5 DEF IsListed, N
    <3>2. I \in Nat
      BY <1>4, LenProperties
    <3> HIDE DEF I, to
    <3>3. /\ 1 \in 1..N /\ 2 \in 1..N /\ L + 4 + 1 = L + 5
          /\ to \in Nat /\ to = L + 4 + 2 + I /\ to + 1 <= F + 5 /\ to < Len(record)
      BY <3>1, <3>2, <1>10, <1>11 DEF F, to
    <3>4. record[L + 4 + 1] = PurchaseIdList /\ record[L + 4 + 2] = I
      BY <3>1, <3>3, <1>14
    <3>5. ASSUME NEW j \in 1..I PROVE record[L + 4 + 2 + j] = ids[j]
      <4>1. 2 + j \in 1..N /\ L + 4 + (2 + j) = L + 4 + 2 + j
        BY <3>1, <3>2, <1>10
      <4> QED BY <4>1, <3>1, <1>14
    <3>6. ListAt(record, L + 4, ids, to)
      BY <1>4, <3>3, <3>4, <3>5 DEF ListAt, I
    <3>7. PurchasesAt(record, L + 4, ids, to)
      BY <2>2, <3>4, <3>6 DEF PurchasesAt
    <3>8. record[L + 5] > 10
      BY <3>3, <3>4 DEF PurchaseIdList
    <3> QED BY <3>3, <3>7, <3>8
  <2> QED BY <2>1, <2>2
<1>18. \E P : FieldsAt(record, P, given) /\ P[0] = 4 /\ P[10] = L + 4
  BY <1>1, <1>2, <1>11, <1>13, <1>16, <1>17, FieldsLaidOut DEF L
<1>19. FieldsOfRecord(record, given, ids, F + 5)
  BY <1>17, <1>18 DEF FieldsOfRecord
<1> QED BY <1>19 DEF F, given, ids

----------------------------------------------------------------------------
(* Reading a record from its header to its variables *)

\* The first item behind the header is in hand, or there is none.
LEMMA StartFacts ==
  ASSUME NEW old \in Cookie, NEW items \in Seq(Nat), NEW record \in Seq(Nat), IsStartOf(items, record),
         Len(items) >= 4, NEW given \in [Fields -> Nat],
         NEW start, start = ReadNext(items, [b |-> 4, next |-> 0, ok |-> TRUE, cookie |-> old])
  PROVE  start \in Reader(FieldsOnly(old)) /\ FieldsState(start, items, record, 4, old.field, given, 0)
<1> DEFINE K == FieldsOnly(old)
           r == [b |-> 4, next |-> 0, ok |-> TRUE, cookie |-> old]
<1>1. old \in K
  BY CookieFacts DEF FieldsOnly
<1> HIDE DEF K
<1>2. r \in Reader(K) /\ r.ok /\ r.b = 4 /\ r.cookie = old
  BY <1>1 DEF Reader
<1>3. Len(items) \in Nat
  BY LenProperties
<1> HIDE DEF r
<1>4. start = ReadNext(items, r)
  BY DEF r
<1>5. /\ start \in Reader(K) /\ start.cookie = old
      /\ 4 < Len(items) => start.ok /\ start.b = 5 /\ start.next = items[5]
      /\ ~(4 < Len(items)) => ~start.ok
  <2>1. 4 + 1 = 5
    OBVIOUS
  <2> QED BY <1>2, <1>4, <2>1, ReadNextFacts
<1>6. \A f \in Fields : start.cookie.field[f] = old.field[f] /\ ~(f <= 0)
  <2>1. \A f \in Fields : ~(f <= 0)
    BY DEF Fields
  <2> QED BY <2>1, <1>5
<1>7. StandsAt(start, items, record, 4) \/ (~start.ok /\ Len(items) < 4 + 1)
  <2>1. CASE 4 < Len(items)
    <3>1. 5 \in 1..Len(items) /\ 4 + 1 = 5 /\ 5 <= Len(items)
      BY <2>1, <1>3
    <3>2. items[5] = record[5]
      BY <3>1 DEF IsStartOf
    <3> QED BY <2>1, <3>1, <3>2, <1>5 DEF StandsAt
  <2>2. CASE ~(4 < Len(items))
    BY <2>2, <1>3, <1>5
  <2> QED BY <2>1, <2>2
<1> QED BY <1>5, <1>6, <1>7 DEF FieldsState, K

\* What this version does not know is skipped: the first item behind the
\* offset is in hand, or there is none (vcookiestore.cpp:228-247).
LEMMA SkipFacts ==
  ASSUME NEW items \in Seq(Nat), NEW record \in Seq(Nat), IsStartOf(items, record),
         NEW K, NEW r \in Reader(K), NEW to \in Nat, NEW offset \in Nat, to + 1 <= offset,
         StandsAt(r, items, record, to) \/ (~r.ok /\ Len(items) < to + 1),
         NEW q, q = SkipToVars(items, r, offset)
  PROVE  /\ q \in Reader(K) /\ q.cookie = r.cookie /\ (q.ok => StandsAt(r, items, record, to))
         /\ StandsAt(q, items, record, offset) \/ (~q.ok /\ Len(items) < offset + 1)
<1> DEFINE set == [r EXCEPT !.ok = @ /\ r.b <= offset, !.b = offset]
           yes == r.ok /\ r.b <= offset
           half == [r EXCEPT !.ok = yes]
<1>1. r.b \in Nat /\ r.ok \in BOOLEAN /\ Len(items) \in Nat
  BY LenProperties DEF Reader
<1>2. set = [half EXCEPT !.b = offset] /\ yes \in BOOLEAN /\ (yes <=> r.ok /\ r.b <= offset)
  BY <1>1
<1>3. q = ReadNext(items, set)
  BY DEF SkipToVars
<1> HIDE DEF set, yes
<1>4. half \in Reader(K) /\ half.ok = yes /\ half.cookie = r.cookie
  BY <1>2 DEF Reader
<1> HIDE DEF half
<1>5. set \in Reader(K) /\ set.ok = yes /\ set.b = offset /\ set.cookie = r.cookie
  BY <1>2, <1>4 DEF Reader
<1>6. /\ q \in Reader(K) /\ q.cookie = r.cookie
      /\ yes /\ offset < Len(items) => q.ok /\ q.b = offset + 1 /\ q.next = items[offset + 1]
      /\ ~(yes /\ offset < Len(items)) => ~q.ok
  BY <1>3, <1>5, ReadNextFacts
<1>7. CASE StandsAt(r, items, record, to)
  <2>1. yes
    BY <1>2, <1>7 DEF StandsAt
  <2>2. CASE offset < Len(items)
    <3>1. offset + 1 \in 1..Len(items) /\ offset + 1 <= Len(items)
      BY <2>2, <1>1
    <3>2. items[offset + 1] = record[offset + 1]
      BY <3>1 DEF IsStartOf
    <3>3. StandsAt(q, items, record, offset)
      BY <2>1, <2>2, <3>1, <3>2, <1>6 DEF StandsAt
    <3> QED BY <3>3, <1>6, <1>7
  <2>3. CASE ~(offset < Len(items))
    BY <2>3, <1>1, <1>6, <1>7
  <2> QED BY <2>2, <2>3
<1>8. CASE ~r.ok /\ Len(items) < to + 1
  <2>1. ~yes /\ Len(items) < offset + 1
    BY <1>1, <1>2, <1>8
  <2> QED BY <2>1, <1>6
<1> QED BY <1>7, <1>8

\* A cookie of which all but the relation variables is read.
HeadOnly(c) == [field : [Fields -> Nat], purchaseIds : IdList, known : {c.known}, vals : {c.vals}]

\* The reader has passed what stands before the offset, or the items ended
\* before; the cookie, old at first, has what arrived of it.
HeadState(q, items, record, offset, old, given, ids) ==
  /\ q \in Reader(HeadOnly(old))
  /\ StandsAt(q, items, record, offset) \/ (~q.ok /\ Len(items) < offset + 1)
  /\ \A f \in Fields : q.cookie.field[f] = old.field[f] \/ q.cookie.field[f] = given[f]
  /\ \E part : IsBeginning(part, ids) /\ q.cookie.purchaseIds = AddPurchaseIds(old.purchaseIds, part)
  /\ q.ok => /\ \A f \in Fields : q.cookie.field[f] = IF given[f] # 0 THEN given[f] ELSE old.field[f]
             /\ q.cookie.purchaseIds = AddPurchaseIds(old.purchaseIds, ids)

\* The header, the fields and the purchase ids are read, and what is unknown is skipped.
LEMMA HeadRead ==
  ASSUME NEW old \in Cookie, NEW items \in Seq(Nat), NEW record \in Seq(Nat), IsStartOf(items, record),
         Len(items) >= 4, NEW given, NEW ids \in IdList, NEW offset \in Nat,
         FieldsOfRecord(record, given, ids, offset),
         NEW start, start = ReadNext(items, [b |-> 4, next |-> 0, ok |-> TRUE, cookie |-> old]),
         NEW read, read = ReadFields(items, start),
         NEW purchases, purchases = ReadPurchaseIds(items, read),
         NEW q, q = SkipToVars(items, purchases, offset)
  PROVE  HeadState(q, items, record, offset, old, given, ids)
<1>1. PICK P, to : /\ FieldsAt(record, P, given) /\ P[0] = 4
                   /\ to \in Nat /\ PurchasesAt(record, P[10], ids, to) /\ to + 1 <= offset
  BY DEF FieldsOfRecord
<1>2. given \in [Fields -> Nat] /\ P[10] \in Nat /\ Len(items) \in Nat
  BY <1>1, LenProperties DEF FieldsAt
<1>3. start \in Reader(FieldsOnly(old)) /\ FieldsState(start, items, record, P[0], old.field, given, 0)
  BY <1>1, <1>2, StartFacts
<1>4. read \in Reader(FieldsOnly(old)) /\ FieldsState(read, items, record, P[10], old.field, given, 10)
  BY <1>1, <1>3, FieldsRead
<1> DEFINE c == read.cookie
<1>5. /\ c \in FieldsOnly(old) /\ c.purchaseIds = old.purchaseIds /\ c.purchaseIds \in IdList
      /\ c.known = old.known /\ c.vals = old.vals /\ c.field \in [Fields -> Nat]
  <2>1. c \in FieldsOnly(old)
    BY <1>4 DEF Reader
  <2> QED BY <2>1, CookieFacts DEF FieldsOnly
<1>6. read \in Reader(PurchasesOnly(c))
  <2>1. c \in PurchasesOnly(c)
    BY <1>5 DEF FieldsOnly, PurchasesOnly
  <2> QED BY <2>1, <1>4 DEF Reader
<1>7. StandsAt(read, items, record, P[10]) \/ (~read.ok /\ Len(items) < P[10] + 1)
  BY <1>4 DEF FieldsState
<1> HIDE DEF c
<1>8. /\ purchases \in Reader(PurchasesOnly(c))
      /\ PurchasesState(purchases, items, record, to, c.purchaseIds, ids)
  <2>1. /\ ids = <<>> => to = P[10] /\ record[P[10] + 1] # PurchaseIdList
        /\ ids # <<>> => record[P[10] + 1] = PurchaseIdList /\ ListAt(record, P[10], ids, to)
    BY <1>1 DEF PurchasesAt
  <2>2. read.cookie.purchaseIds = c.purchaseIds
    BY DEF c
  <2> QED BY <2>1, <2>2, <1>1, <1>2, <1>5, <1>6, <1>7, PurchasesRead
<1>9. P[10] <= to
  <2>1. CASE ids = <<>>
    BY <2>1, <1>1, <1>2 DEF PurchasesAt
  <2>2. CASE ids # <<>>
    <3>1. to = P[10] + 2 + Len(ids) /\ Len(ids) \in Nat
      BY <2>2, <1>1, LenProperties DEF PurchasesAt, ListAt
    <3> QED BY <3>1, <1>2
  <2> QED BY <2>1, <2>2
<1>10. /\ q \in Reader(PurchasesOnly(c)) /\ q.cookie = purchases.cookie
       /\ q.ok => StandsAt(purchases, items, record, to)
       /\ StandsAt(q, items, record, offset) \/ (~q.ok /\ Len(items) < offset + 1)
  <2>1. StandsAt(purchases, items, record, to) \/ (~purchases.ok /\ Len(items) < to + 1)
    BY <1>8 DEF PurchasesState
  <2> HIDE DEF c
  <2> QED BY <2>1, <1>1, <1>8, SkipFacts
<1>11. q.cookie.field = c.field /\ q \in Reader(HeadOnly(old))
  <2>1. q.cookie \in PurchasesOnly(c)
    BY <1>10 DEF Reader
  <2>2. q.cookie \in HeadOnly(old) /\ q.cookie.field = c.field
    BY <2>1, <1>5 DEF PurchasesOnly, HeadOnly
  <2> QED BY <2>2, <1>10 DEF Reader
<1>12. \A f \in Fields : c.field[f] = old.field[f] \/ c.field[f] = given[f]
  BY <1>4 DEF FieldsState, c
<1>13. \E part : IsBeginning(part, ids) /\ q.cookie.purchaseIds = AddPurchaseIds(old.purchaseIds, part)
  BY <1>5, <1>8, <1>10 DEF PurchasesState
<1>14. ASSUME q.ok
       PROVE  /\ \A f \in Fields : c.field[f] = IF given[f] # 0 THEN given[f] ELSE old.field[f]
              /\ q.cookie.purchaseIds = AddPurchaseIds(old.purchaseIds, ids)
  <2>1. StandsAt(purchases, items, record, to)
    BY <1>10, <1>14
  <2>2. to + 1 <= Len(items) /\ purchases.ok
    BY <2>1 DEF StandsAt
  <2>3. ~(Len(items) < P[10] + 1)
    BY <2>2, <1>1, <1>2, <1>9
  <2>4. \A f \in Fields : c.field[f] = IF f <= 10 /\ given[f] # 0 THEN given[f] ELSE old.field[f]
    BY <2>3, <1>4 DEF FieldsState, c
  <2>5. \A f \in Fields : f <= 10
    BY DEF Fields
  <2>6. purchases.cookie.purchaseIds = AddPurchaseIds(old.purchaseIds, ids)
    BY <2>2, <1>5, <1>8 DEF PurchasesState
  <2> QED BY <2>4, <2>5, <2>6, <1>10
<1> QED BY <1>10, <1>11, <1>12, <1>13, <1>14 DEF HeadState

\* Nothing of a variable leaves it as it is.
LEMMA NothingLoaded ==
  ASSUME NEW old, NEW cnt PROVE Loaded(old, <<>>, cnt) = old
BY DEF Loaded

\* From the offset of a record to its end.
LEMMA VarsStage ==
  ASSUME NEW old \in Cookie, NEW items \in Seq(Nat), NEW record \in Seq(Nat), IsStartOf(items, record),
         NEW Q, NEW order, NEW new, NEW n, VarsAt(record, Q, order, new, n),
         NEW start \in Reader(HeadOnly(old)),
         StandsAt(start, items, record, Q[0]) \/ (~start.ok /\ Len(items) < Q[0] + 1),
         NEW end, end = ReadVars(items, start)
  PROVE  /\ end \in Reader(VarsOnly(start.cookie))
         /\ VarsState(end, items, record, Q, order, new, old.vals, old.known, n)
<1> DEFINE c == start.cookie
<1>1. c.vals = old.vals /\ c.known = old.known /\ c \in HeadOnly(old)
  BY DEF Reader, HeadOnly
<1>2. /\ old.known \subseteq Rids /\ old.vals \in [Rids -> Seq(Nat)]
      /\ \A x \in Rids : old.vals[x] # <<>> => x \in old.known
  BY CookieFacts
<1>3. c \in VarsOnly(c)
  <2>1. c.known \in SUBSET Nat /\ c.vals \in [Rids -> Seq(Nat)]
    BY <1>1, <1>2, RidFacts
  <2> HIDE DEF c
  <2> QED BY <2>1, <1>1 DEF VarsOnly, HeadOnly
<1>4. start \in Reader(VarsOnly(c))
  BY <1>3 DEF Reader
<1>5. SlotsFit(c, old.known)
  <2> HIDE DEF c
  <2> QED BY <1>1, <1>2 DEF SlotsFit
<1>6. new \in [Rids -> Seq(Nat)]
  BY DEF VarsAt
<1>7. ASSUME NEW x \in Rids
      PROVE  /\ ~(\E j \in 1..0 : order[j] = x)
             /\ \E part : IsBeginning(part, new[x]) /\ c.vals[x] = Loaded(old.vals[x], part, Len(new[x]))
  <2>1. new[x] \in Seq(Nat)
    BY <1>6
  <2>2. IsBeginning(<<>>, new[x])
    BY <2>1, NoneIsBeginning
  <2>3. c.vals[x] = Loaded(old.vals[x], <<>>, Len(new[x]))
    <3> HIDE DEF c
    <3> QED BY <1>1, NothingLoaded
  <2>4. 1..0 = {}
    OBVIOUS
  <2> QED BY <2>2, <2>3, <2>4
<1>8. VarsState(start, items, record, Q, order, new, old.vals, old.known, 0)
  BY <1>1, <1>5, <1>7 DEF VarsState
<1> QED BY <1>4, <1>8, VarsRead

\* A cookie, old at first, that was filled from items, and whether all of the
\* record was there.
IsFilled(items, record, old, given, ids, new, cookie, all) ==
  /\ cookie \in Cookie /\ all \in BOOLEAN /\ (all <=> Len(items) = Len(record))
  /\ \A f \in Fields : cookie.field[f] = old.field[f] \/ cookie.field[f] = given[f]
  /\ \E part : IsBeginning(part, ids) /\ cookie.purchaseIds = AddPurchaseIds(old.purchaseIds, part)
  /\ \A x \in Rids : \E part : /\ IsBeginning(part, new[x])
                               /\ cookie.vals[x] = Loaded(old.vals[x], part, Len(new[x]))
  /\ \A x \in cookie.known : x \in old.known \/ cookie.vals[x] # <<>>
  /\ all => /\ \A f \in Fields : cookie.field[f] = IF given[f] # 0 THEN given[f] ELSE old.field[f]
            /\ cookie.purchaseIds = AddPurchaseIds(old.purchaseIds, ids)
            /\ \A x \in Rids : cookie.vals[x] = Loaded(old.vals[x], new[x], Len(new[x]))

\* A part of a list of elements is one itself.
LEMMA BeginningOfElements ==
  ASSUME NEW S, S \subseteq Nat, NEW list \in Seq(S), NEW part, IsBeginning(part, list)
  PROVE  part \in Seq(S)
<1>1. part \in Seq(Nat) /\ Len(part) \in Nat /\ Len(list) \in Nat /\ Len(part) <= Len(list)
  BY LenProperties DEF IsBeginning
<1>2. ASSUME NEW j \in 1..Len(part) PROVE part[j] \in S
  <2>1. j \in 1..Len(list) /\ part[j] = list[j]
    BY <1>1 DEF IsBeginning
  <2> QED BY <2>1, ElementOfSeq
<1>3. part = [j \in 1..Len(part) |-> part[j]]
  BY <1>1, LenProperties
<1>4. part \in [1..Len(part) -> S]
  BY <1>2, <1>3
<1> QED BY <1>1, <1>4, FunctionIsSeq

\* Deserialize fills a cookie with what has arrived of a record it can read,
\* and says whether that is all of it.
LEMMA Reading ==
  ASSUME NEW old \in Cookie, NEW items \in Seq(Nat), NEW record \in Seq(Nat), IsStartOf(items, record),
         CanRead(items), NEW given, NEW ids \in IdList, NEW offset \in Nat, record[4] = offset,
         FieldsOfRecord(record, given, ids, offset),
         NEW Q, NEW order, NEW new, NEW n, VarsAt(record, Q, order, new, n), Q[0] = offset,
         \A x \in Rids : new[x] \in Seq(Elements),
         NEW result, result = Deserialize(old, items)
  PROVE  IsFilled(items, record, old, given, ids, new, result.cookie, result.ok)
<1> DEFINE start == ReadNext(items, [b |-> 4, next |-> 0, ok |-> TRUE, cookie |-> old])
           read == ReadFields(items, start)
           purchases == ReadPurchaseIds(items, read)
           q == SkipToVars(items, purchases, offset)
           end == ReadVars(items, q)
           c == q.cookie
           cookie == end.cookie
<1>1. Len(items) >= 4 /\ Len(items) \in Nat /\ Len(record) \in Nat /\ Len(items) <= Len(record)
  BY LenProperties DEF CanRead, IsStartOf
<1>2. items[4] = offset
  <2>1. 4 \in 1..Len(items)
    BY <1>1
  <2> QED BY <2>1 DEF IsStartOf
<1>3. result = [ok |-> end.ok, cookie |-> cookie]
  BY <1>2 DEF Deserialize
<1> HIDE DEF end, q, purchases, read, start
<1>4. HeadState(q, items, record, offset, old, given, ids)
  BY <1>1, HeadRead DEF q, purchases, read, start
<1>5. q \in Reader(HeadOnly(old)) /\ (StandsAt(q, items, record, offset) \/ (~q.ok /\ Len(items) < offset + 1))
  BY <1>4 DEF HeadState
<1>6. /\ end \in Reader(VarsOnly(c))
      /\ VarsState(end, items, record, Q, order, new, old.vals, old.known, n)
  <2>1. end = ReadVars(items, q)
    BY DEF end
  <2> QED BY <2>1, <1>5, VarsStage
<1>7. c \in HeadOnly(old)
  BY <1>5 DEF Reader
<1> HIDE DEF c
<1>8. end.ok \in BOOLEAN /\ end.b \in Nat /\ cookie \in VarsOnly(c)
  BY <1>6 DEF Reader
<1> HIDE DEF cookie
<1>9. cookie.field = c.field /\ cookie.purchaseIds = c.purchaseIds
  BY <1>8 DEF VarsOnly
<1>10. \A x \in Rids : \E part : /\ IsBeginning(part, new[x])
                                 /\ cookie.vals[x] = Loaded(old.vals[x], part, Len(new[x]))
  BY <1>6 DEF VarsState, cookie
<1>11. Q[n] + 1 = Len(record) /\ n \in Nat /\ Q \in [0..n -> Nat]
  BY DEF VarsAt
<1>12. end.ok <=> Len(items) = Len(record)
  <2>1. CASE StandsAt(end, items, record, Q[n])
    <3>1. end.ok /\ Q[n] + 1 <= Len(items)
      BY <2>1 DEF StandsAt
    <3> QED BY <3>1, <1>1, <1>11
  <2>2. CASE ~end.ok /\ Len(items) < Q[n] + 1
    BY <2>2, <1>1, <1>11
  <2> QED BY <2>1, <2>2, <1>6 DEF VarsState
<1>13. cookie \in Cookie
  <2>1. c.field \in [Fields -> Nat] /\ c.purchaseIds \in IdList
    BY <1>7 DEF HeadOnly
  <2>2. cookie.vals \in [Rids -> Seq(Elements)]
    <3>1. ASSUME NEW x \in Rids PROVE cookie.vals[x] \in Seq(Elements)
      <4>1. PICK part : /\ IsBeginning(part, new[x])
                        /\ cookie.vals[x] = Loaded(old.vals[x], part, Len(new[x]))
        BY <1>10
      <4>2. Elements \subseteq Nat
        BY SerializationAssumption
      <4>3. new[x] \in Seq(Elements) /\ Len(new[x]) \in Nat
        BY LenProperties
      <4>4. part \in Seq(Elements)
        BY <4>1, <4>2, <4>3, BeginningOfElements
      <4>5. old.vals[x] \in Seq(Elements)
        BY CookieFacts
      <4>6. IsLoaded(Elements, old.vals[x], part, Len(new[x]), Loaded(old.vals[x], part, Len(new[x])))
        BY <4>3, <4>4, <4>5, LoadedFacts
      <4> QED BY <4>1, <4>6, Zenon DEF IsLoaded
    <3>2. cookie.vals = [x \in Rids |-> cookie.vals[x]]
      BY <1>8 DEF VarsOnly
    <3> QED BY <3>1, <3>2
  <2>3. SlotsFit(cookie, old.known)
    BY <1>6 DEF VarsState, cookie
  <2>4. /\ cookie \in [field : [Fields -> Nat], purchaseIds : IdList, known : SUBSET Rids, vals : [Rids -> Seq(Elements)]]
        /\ \A x \in Rids : cookie.vals[x] # <<>> => x \in cookie.known
    BY <2>1, <2>2, <2>3, <1>8 DEF VarsOnly, SlotsFit
  <2> QED BY <2>4 DEF Cookie
<1>14. ASSUME end.ok
       PROVE  /\ \A f \in Fields : cookie.field[f] = IF given[f] # 0 THEN given[f] ELSE old.field[f]
              /\ cookie.purchaseIds = AddPurchaseIds(old.purchaseIds, ids)
              /\ \A x \in Rids : cookie.vals[x] = Loaded(old.vals[x], new[x], Len(new[x]))
  <2>1. q.ok
    <3>1. Q[0] <= Q[n] /\ Q[0] \in Nat /\ Q[n] \in Nat
      <4>1. 0 \in 0..n /\ n \in 0..n
        BY <1>11
      <4> QED BY <4>1, <1>11, PlacesGrow
    <3>2. ~(Len(items) < offset + 1)
      BY <3>1, <1>1, <1>11, <1>12, <1>14
    <3> QED BY <3>2, <1>5 DEF StandsAt
  <2>2. /\ \A f \in Fields : c.field[f] = IF given[f] # 0 THEN given[f] ELSE old.field[f]
        /\ c.purchaseIds = AddPurchaseIds(old.purchaseIds, ids)
    BY <2>1, <1>4 DEF HeadState, c
  <2>3. \A x \in Rids : cookie.vals[x] = IF \E j \in 1..n : order[j] = x
                                          THEN Loaded(old.vals[x], new[x], Len(new[x])) ELSE old.vals[x]
    BY <1>6, <1>14 DEF VarsState, cookie
  <2>4. ASSUME NEW x \in Rids PROVE cookie.vals[x] = Loaded(old.vals[x], new[x], Len(new[x]))
    <3>1. CASE \E j \in 1..n : order[j] = x
      BY <3>1, <2>3
    <3>2. CASE ~(\E j \in 1..n : order[j] = x)
      <4>1. new[x] = <<>>
        BY <3>2 DEF VarsAt
      <4>2. Loaded(old.vals[x], new[x], Len(new[x])) = old.vals[x]
        BY <4>1, NothingLoaded
      <4> QED BY <3>2, <4>2, <2>3
    <3> QED BY <3>1, <3>2
  <2> QED BY <2>2, <2>4, <1>9
<1>15. /\ \A f \in Fields : c.field[f] = old.field[f] \/ c.field[f] = given[f]
       /\ \E part : IsBeginning(part, ids) /\ c.purchaseIds = AddPurchaseIds(old.purchaseIds, part)
  BY <1>4 DEF HeadState, c
<1>16. \A x \in cookie.known : x \in old.known \/ cookie.vals[x] # <<>>
  BY <1>6 DEF VarsState, SlotsFit, cookie
<1>17. IsFilled(items, record, old, given, ids, new, cookie, end.ok)
  BY <1>8, <1>9, <1>10, <1>12, <1>13, <1>14, <1>15, <1>16 DEF IsFilled
<1> QED BY <1>3, <1>17

\* What a record of this layout holds: the version that can read it, the fields
\* given, the purchase ids and the elements of the variables.
IsLaidOut(record, compatible, given, ids, new) ==
  /\ record \in Seq(Nat) /\ Len(record) >= 6 /\ record[2] = compatible
  /\ \E offset, Q, order, n : /\ offset \in Nat /\ record[4] = offset
                              /\ FieldsOfRecord(record, given, ids, offset)
                              /\ VarsAt(record, Q, order, new, n) /\ Q[0] = offset

\* Whatever cookie is written, and whatever fields a later version adds, the record has
\* this layout.
LEMMA LaidOut ==
  ASSUME NEW s \in Cookie, NEW withTime \in BOOLEAN,
         NEW more \in Seq(Nat), more # <<>> => Head(more) > PurchaseIdList,
         NEW version \in Nat, NEW compatible \in Nat,
         NEW record, record = Assemble(version, compatible, AddFields(s, withTime) \o more, AddVars(s))
  PROVE  IsLaidOut(record, compatible, Given(s, withTime), s.purchaseIds, Written_vals(s))
<1> DEFINE fields == AddFields(s, withTime) \o more
           flat == AddVars(s)
           offset == Len(fields) + 5
<1>1. PICK n, order, P0 : VarPlaces(s, flat, n, order, P0)
  BY AddVarsFacts
<1>2. flat \in Seq(Nat)
  BY <1>1 DEF VarPlaces
<1> HIDE DEF flat
<1>3. fields \in Seq(Nat)
  BY <1>2, PurchasesLaidOut
<1>4. IsRecord(record, compatible, fields, flat) => FieldsOfRecord(record, Given(s, withTime), s.purchaseIds, offset)
  BY <1>2, PurchasesLaidOut
<1> HIDE DEF fields
<1>5. record = Assemble(version, compatible, fields, flat)
  BY DEF fields, flat
<1>6. IsRecord(record, compatible, fields, flat)
  BY <1>2, <1>3, <1>5, AssembleFacts
<1>7. \E Q : VarsAt(record, Q, order, Written_vals(s), n) /\ Q[0] = offset
  BY <1>1, <1>3, <1>6, VarsLaidOut
<1>8. Len(fields) \in Nat /\ Len(flat) \in Nat
  BY <1>2, <1>3, LenProperties
<1>9. record \in Seq(Nat) /\ Len(record) >= 6 /\ record[2] = compatible /\ record[4] = offset /\ offset \in Nat
  BY <1>6, <1>8 DEF IsRecord
<1> HIDE DEF offset
<1> QED BY <1>4, <1>6, <1>7, <1>9 DEF IsLaidOut

----------------------------------------------------------------------------
(* What each writer writes, and what a reader has of it *)

\* Who can have written a record.
Writers == {"this", "timeless", "later", "incompatible"}

\* The record that a writer makes of a cookie.
RecordBy(s, w) ==
  CASE w = "this" -> Serialize(s, TRUE)
    [] w = "timeless" -> Serialize(s, FALSE)
    [] w = "later" -> SerializeLater(s, Added, VC_SERIAL_VERSION)
    [] w = "incompatible" -> SerializeLater(s, Added, VC_SERIAL_VERSION + 1)

\* What the writer w gives of the fields of s.
GivenBy(s, w) == Given(s, w # "timeless")

\* What Serialize writes is laid out like that,
LEMMA SerializeLaidOut ==
  ASSUME NEW s \in Cookie, NEW withTime \in BOOLEAN
  PROVE  IsLaidOut(Serialize(s, withTime), 0, Given(s, withTime), s.purchaseIds, Written_vals(s))
<1> DEFINE none == <<>>
<1>1. none \in Seq(Nat) /\ none = <<>>
  BY EmptySeq
<1>2. AddFields(s, withTime) \in Seq(Nat)
  <2>1. none # <<>> => Head(none) > PurchaseIdList
    BY <1>1
  <2> HIDE DEF none
  <2> QED BY <2>1, <1>1, PurchasesLaidOut
<1>3. AddFields(s, withTime) \o none = AddFields(s, withTime)
  BY <1>2, ConcatEmptySeq
<1>4. Serialize(s, withTime) = Assemble(0, 0, AddFields(s, withTime) \o none, AddVars(s))
  BY <1>3 DEF Serialize, VC_SERIAL_VERSION
<1> HIDE DEF none
<1> QED BY <1>1, <1>4, LaidOut

\* and so is what a later version writes.
LEMMA LaterLaidOut ==
  ASSUME NEW s \in Cookie, NEW compatible \in Nat,
         NEW more \in Seq(Nat), more # <<>> => Head(more) > PurchaseIdList
  PROVE  IsLaidOut(SerializeLater(s, more, compatible), compatible, Given(s, TRUE), s.purchaseIds, Written_vals(s))
<1>1. SerializeLater(s, more, compatible) = Assemble(1, compatible, AddFields(s, TRUE) \o more, AddVars(s))
  BY DEF SerializeLater, VC_SERIAL_VERSION
<1> QED BY <1>1, LaidOut

\* Each writer's record is laid out as its reader expects.
LEMMA RecordOfFacts ==
  ASSUME NEW s \in Cookie, NEW w \in Writers
  PROVE  IsLaidOut(RecordBy(s, w), IF w = "incompatible" THEN 1 ELSE 0, GivenBy(s, w), s.purchaseIds, Written_vals(s))
<1>1. Added \in Seq(Nat) /\ (Added # <<>> => Head(Added) > PurchaseIdList)
  BY AddedAssumption
<1>5. CASE w = "this"
  <2>1. RecordBy(s, w) = Serialize(s, TRUE)
    BY <1>5 DEF RecordBy, VC_SERIAL_VERSION
  <2>2. GivenBy(s, w) = Given(s, TRUE)
    <3>1. (w # "timeless") = TRUE
      BY <1>5
    <3> QED BY <3>1 DEF GivenBy
  <2> QED BY <2>1, <2>2, SerializeLaidOut, <1>5
<1>6. CASE w = "timeless"
  <2>1. RecordBy(s, w) = Serialize(s, FALSE)
    BY <1>6 DEF RecordBy, VC_SERIAL_VERSION
  <2>2. GivenBy(s, w) = Given(s, FALSE)
    <3>1. (w # "timeless") = FALSE
      BY <1>6
    <3> QED BY <3>1 DEF GivenBy
  <2> QED BY <2>1, <2>2, SerializeLaidOut, <1>6
<1>7. CASE w = "later"
  <2>1. RecordBy(s, w) = SerializeLater(s, Added, 0)
    BY <1>7 DEF RecordBy, VC_SERIAL_VERSION
  <2>2. GivenBy(s, w) = Given(s, TRUE)
    <3>1. (w # "timeless") = TRUE
      BY <1>7
    <3> QED BY <3>1 DEF GivenBy
  <2> QED BY <2>1, <2>2, <1>1, LaterLaidOut, <1>7
<1>8. CASE w = "incompatible"
  <2>1. RecordBy(s, w) = SerializeLater(s, Added, 1)
    BY <1>8 DEF RecordBy, VC_SERIAL_VERSION
  <2>2. GivenBy(s, w) = Given(s, TRUE)
    <3>1. (w # "timeless") = TRUE
      BY <1>8
    <3> QED BY <3>1 DEF GivenBy
  <2> QED BY <2>1, <2>2, <1>1, LaterLaidOut, <1>8
<1> QED BY <1>5, <1>6, <1>7, <1>8 DEF Writers

\* A reader of a record laid out like that, or of its first items: one that a
\* later version must read leaves the cookie alone.
ReadAs(compatible, given, ids, new, old, items, record, result) ==
  /\ compatible = 0 => IsFilled(items, record, old, given, ids, new, result.cookie, result.ok)
  /\ compatible # 0 => result.ok = FALSE /\ result.cookie = old

\* Deserialize on any beginning of such a record, into any cookie.
LEMMA LayoutRead ==
  ASSUME NEW record, NEW compatible \in {0, 1}, NEW given, NEW ids \in IdList, NEW new,
         IsLaidOut(record, compatible, given, ids, new),
         \A x \in Rids : new[x] \in Seq(Elements),
         NEW old \in Cookie, NEW items \in Seq(Nat), IsStartOf(items, record),
         NEW result, result = Deserialize(old, items)
  PROVE  ReadAs(compatible, given, ids, new, old, items, record, result)
<1>4. record \in Seq(Nat) /\ Len(record) >= 6 /\ Len(record) \in Nat /\ Len(items) \in Nat /\ record[2] = compatible
  BY LenProperties DEF IsLaidOut
<1>5. CASE ~CanRead(items)
  <2>1. result = [ok |-> FALSE, cookie |-> old]
    BY <1>5 DEF Deserialize
  <2>2. ASSUME compatible = 0
        PROVE  IsFilled(items, record, old, given, ids, new, old, FALSE)
    <3>1. Len(items) < 4
      <4>1. CASE Len(items) >= 4
        <5>1. 2 \in 1..Len(items)
          BY <4>1, <1>4
        <5>2. items[2] = 0
          BY <5>1, <1>4, <2>2 DEF IsStartOf
        <5> QED BY <5>2, <4>1, <1>5 DEF CanRead, VC_SERIAL_VERSION
      <4> QED BY <4>1, <1>4
    <3>2. FALSE <=> Len(items) = Len(record)
      BY <3>1, <1>4
    <3>3. IsBeginning(<<>>, ids) /\ AddPurchaseIds(old.purchaseIds, <<>>) = old.purchaseIds
      <4>1. ids \in Seq(Nat)
        <5>1. ids \in Seq(PurchaseIds)
          BY DEF IdList
        <5> QED BY <5>1, SeqMonotonic DEF PurchaseIds
      <4>2. old.purchaseIds \in IdList
        BY CookieFacts
      <4>3. IsBeginning(<<>>, ids)
        BY <4>1, NoneIsBeginning
      <4> QED BY <4>2, <4>3, AddPurchaseIdsFacts
    <3>4. ASSUME NEW x \in Rids
          PROVE  IsBeginning(<<>>, new[x]) /\ old.vals[x] = Loaded(old.vals[x], <<>>, Len(new[x]))
      <4>1. new[x] \in Seq(Nat)
        <5>1. new[x] \in Seq(Elements) /\ Elements \subseteq Nat
          BY SerializationAssumption
        <5> QED BY <5>1, SeqMonotonic
      <4>2. IsBeginning(<<>>, new[x])
        BY <4>1, NoneIsBeginning
      <4> QED BY <4>2, NothingLoaded
    <3> QED BY <3>2, <3>3, <3>4 DEF IsFilled
  <2>3. result.ok = FALSE /\ result.cookie = old
    BY <2>1
  <2> QED BY <2>2, <2>3 DEF ReadAs
<1>6. CASE CanRead(items)
  <2>1. compatible = 0
    <3>1. Len(items) >= 4 /\ items[2] <= 0
      BY <1>6 DEF CanRead, VC_SERIAL_VERSION
    <3>2. 2 \in 1..Len(items)
      BY <3>1, <1>4
    <3>3. items[2] = record[2]
      BY <3>2 DEF IsStartOf
    <3> QED BY <3>1, <3>3, <1>4
  <2>2. PICK offset, Q, order, n :
          /\ offset \in Nat /\ record[4] = offset /\ FieldsOfRecord(record, given, ids, offset)
          /\ VarsAt(record, Q, order, new, n) /\ Q[0] = offset
    BY DEF IsLaidOut
  <2>3. IsFilled(items, record, old, given, ids, new, result.cookie, result.ok)
    BY <2>2, <1>4, <1>6, Reading
  <2> QED BY <2>1, <2>3 DEF ReadAs
<1> QED BY <1>5, <1>6

\* The parts of a cookie that were written are as a reader expects them.
LEMMA WrittenFacts ==
  ASSUME NEW s \in Cookie
  PROVE  s.purchaseIds \in IdList /\ \A x \in Rids : Written_vals(s)[x] \in Seq(Elements)
<1> SUFFICES ASSUME NEW x \in Rids PROVE Written_vals(s)[x] \in Seq(Elements)
  BY CookieFacts
<1>1. s.vals[x] \in Seq(Elements)
  BY CookieFacts
<1> QED BY <1>1, EmptySeq DEF Written_vals

\* A reader of what w wrote.
ReadBy(s, w, old, items, record, result) ==
  /\ w # "incompatible" =>
       IsFilled(items, record, old, GivenBy(s, w), s.purchaseIds, Written_vals(s), result.cookie, result.ok)
  /\ w = "incompatible" => result.ok = FALSE /\ result.cookie = old

\* Deserialize on any beginning of any writer's record.
LEMMA ReadingOf ==
  ASSUME NEW s \in Cookie, NEW w \in Writers, NEW old \in Cookie,
         NEW record, record = RecordBy(s, w), NEW items \in Seq(Nat), IsStartOf(items, record),
         NEW result, result = Deserialize(old, items)
  PROVE  ReadBy(s, w, old, items, record, result)
<1> DEFINE compatible == IF w = "incompatible" THEN 1 ELSE 0
<1>1. IsLaidOut(record, compatible, GivenBy(s, w), s.purchaseIds, Written_vals(s))
  BY RecordOfFacts
<1>2. compatible \in {0, 1} /\ (compatible = 0 <=> w # "incompatible")
  OBVIOUS
<1> HIDE DEF compatible
<1>3. ReadAs(compatible, GivenBy(s, w), s.purchaseIds, Written_vals(s), old, items, record, result)
  BY <1>1, <1>2, WrittenFacts, LayoutRead
<1> QED BY <1>2, <1>3 DEF ReadAs, ReadBy

\* Read into a variable that has no elements, a list stays as it is.
LEMMA LoadedOntoNothing ==
  ASSUME NEW part \in Seq(Nat), NEW cnt \in Nat
  PROVE  Loaded(<<>>, part, cnt) = part
<1> DEFINE none == <<>>
           new == Loaded(none, part, cnt)
<1>1. none \in Seq(Nat) /\ Len(none) = 0
  BY EmptySeq
<1> HIDE DEF none
<1>2. IsLoaded(Nat, none, part, cnt, new)
  BY <1>1, LoadedFacts
<1> HIDE DEF new
<1>3. new = part
  <2>1. CASE part = <<>>
    BY <2>1, <1>2 DEF IsLoaded, none
  <2>2. CASE part # <<>>
    <3>1. Staying(none, cnt) = 0
      BY <1>1 DEF Staying
    <3>2. new \in Seq(Nat) /\ Len(new) = Staying(none, cnt) + Len(part) /\ EndsWith(new, part)
      BY <2>2, <1>2 DEF IsLoaded
    <3>3. Len(part) \in Nat
      BY LenProperties
    <3>4. Len(new) = Len(part)
      BY <3>1, <3>2, <3>3
    <3>5. ASSUME NEW j \in 1..Len(part) PROVE new[j] = part[j]
      <4>1. Len(new) - Len(part) + j = j
        BY <3>3, <3>4
      <4> QED BY <4>1, <3>2 DEF EndsWith
    <3> QED BY <3>2, <3>4, <3>5, SeqEqual
  <2> QED BY <2>1, <2>2
<1> QED BY <1>3 DEF new, none

\* The blank cookie.
LEMMA BlankFacts ==
  /\ Blank \in Cookie /\ Blank.purchaseIds = <<>>
  /\ \A f \in Fields : Blank.field[f] = 0
  /\ \A x \in Rids : Blank.vals[x] = <<>>
<1>1. <<>> \in IdList
  BY IdListFacts
<1>2. <<>> \in Seq(Elements)
  BY EmptySeq
<1> QED BY <1>1, <1>2 DEF Blank, Cookie

\* A cookie that was blank, with a part of what a record of s has, or all.
HasOf(given, s, cookie, all) ==
  /\ \A f \in Fields : cookie.field[f] \in {0, given[f]}
  /\ IsBeginning(cookie.purchaseIds, s.purchaseIds)
  /\ \A x \in Rids : IsBeginning(cookie.vals[x], Written_vals(s)[x])
  /\ all => /\ \A f \in Fields : cookie.field[f] = given[f]
            /\ cookie.purchaseIds = s.purchaseIds
            /\ \A x \in Rids : cookie.vals[x] = Written_vals(s)[x]

\* A blank cookie that is filled has parts of the cookie that was saved, or all of it.
LEMMA FilledFirst ==
  ASSUME NEW items, NEW record, NEW given, NEW s \in Cookie, NEW cookie, NEW all,
         IsFilled(items, record, Blank, given, s.purchaseIds, Written_vals(s), cookie, all)
  PROVE  HasOf(given, s, cookie, all)
<1> DEFINE ids == s.purchaseIds
           new == Written_vals(s)
<1>1. ids \in IdList
  BY CookieFacts
<1>2. ASSUME NEW x \in Rids PROVE new[x] \in Seq(Nat) /\ Len(new[x]) \in Nat
  <2>1. s.vals[x] \in Seq(Nat)
    BY CookieFacts
  <2>2. new[x] \in Seq(Nat)
    BY <2>1, EmptySeq DEF Written_vals
  <2> QED BY <2>2, LenProperties
<1> HIDE DEF ids, new
<1>3. \A f \in Fields : cookie.field[f] \in {0, given[f]}
  BY BlankFacts DEF IsFilled
<1>4. IsBeginning(cookie.purchaseIds, ids)
  <2>1. PICK part : IsBeginning(part, ids) /\ cookie.purchaseIds = AddPurchaseIds(<<>>, part)
    BY BlankFacts DEF IsFilled, ids
  <2>2. part \in IdList
    BY <2>1, <1>1, BeginningOfIds
  <2>3. AddPurchaseIds(<<>>, part) = part
    BY <2>2, <1>1, AddPurchaseIdsFacts
  <2> QED BY <2>1, <2>3
<1>5. ASSUME NEW x \in Rids PROVE IsBeginning(cookie.vals[x], new[x])
  <2>1. PICK part : IsBeginning(part, new[x]) /\ cookie.vals[x] = Loaded(<<>>, part, Len(new[x]))
    BY BlankFacts DEF IsFilled, new
  <2>2. part \in Seq(Nat)
    BY <2>1 DEF IsBeginning
  <2>3. Loaded(<<>>, part, Len(new[x])) = part
    BY <2>2, <1>2, LoadedOntoNothing
  <2> QED BY <2>1, <2>3
<1>6. ASSUME all
      PROVE  /\ \A f \in Fields : cookie.field[f] = given[f]
             /\ cookie.purchaseIds = ids
             /\ \A x \in Rids : cookie.vals[x] = new[x]
  <2>1. \A f \in Fields : cookie.field[f] = given[f]
    BY <1>6, BlankFacts DEF IsFilled
  <2>2. cookie.purchaseIds = ids
    <3>1. cookie.purchaseIds = AddPurchaseIds(<<>>, ids)
      BY <1>6, BlankFacts DEF IsFilled, ids
    <3> QED BY <3>1, <1>1, AddPurchaseIdsFacts
  <2>3. ASSUME NEW x \in Rids PROVE cookie.vals[x] = new[x]
    <3>1. cookie.vals[x] = Loaded(<<>>, new[x], Len(new[x]))
      BY <1>6, BlankFacts DEF IsFilled, new
    <3> QED BY <3>1, <1>2, LoadedOntoNothing
  <2> QED BY <2>1, <2>2, <2>3
<1> QED BY <1>3, <1>4, <1>5, <1>6 DEF ids, new, HasOf

----------------------------------------------------------------------------
(* What a hit does *)

\* The worker's step for one evar of the hit.
HitStep(evar, d, i) == IF evar[i] # 0 THEN SetEvar(d, i, evar[i]) ELSE ClearVar(d, i)

\* The evars are set one after the other, and the cookie stays in V.
HitInSteps(evar, V, c) ==
  \E n, order, R : /\ IsOrder(RelationIds, n, order) /\ R \in [0..n -> V] /\ R[0] = c
                   /\ \A k \in 1..n : R[k] = HitStep(evar, R[k - 1], order[k])
                   /\ SetEvars(c, evar) = R[n]

\* SetEvars is one step for each id in ascending order.
LEMMA SetEvarsFold ==
  ASSUME NEW evar, NEW V, NEW c \in V, \A d \in V, i \in RelationIds : HitStep(evar, d, i) \in V
  PROVE  HitInSteps(evar, V, c)
<1> DEFINE L == Cardinality(RelationIds)
           order == Ascending(RelationIds)
           step == [x \in V \X (1..L) |-> HitStep(evar, x[1], order[x[2]])]
           Fold(g) == [s \in SUBSET (1..L) |->
                         IF s = {} THEN c ELSE HitStep(evar, g[s \ {Max(s)}], order[Max(s)])]
<1>1. IsOrder(RelationIds, L, order)
  BY AscendingFacts
<1>2. SetEvars(c, evar) =
        (CHOOSE f : f = [s \in SUBSET DOMAIN order |->
                           IF s = {} THEN c
                           ELSE HitStep(evar, f[s \ {Max(s)}], order[Max(s)])])[DOMAIN order]
  BY Zenon DEF SetEvars, FoldLeft, MapThenFoldSet, HitStep
<1> HIDE DEF order, L
<1>3. L \in Nat /\ order \in [1..L -> RelationIds] /\ DOMAIN order = 1..L
  BY <1>1 DEF IsOrder
<1>4. step \in [V \X (1..L) -> V] /\ \A d \in V, k \in 1..L : step[<<d, k>>] = HitStep(evar, d, order[k])
  <2>1. \A d \in V, k \in 1..L : HitStep(evar, d, order[k]) \in V
    BY <1>3
  <2> QED BY <2>1
<1> HIDE DEF step
<1>5. PICK g \in [SUBSET (1..L) -> V] : IsFold(g, c, L, step)
  BY <1>3, <1>4, FoldExists
<1>6. g = Fold(g)
  <2> SUFFICES ASSUME NEW s \in SUBSET (1..L), s # {}
               PROVE  step[<<g[s \ {Max(s)}], Max(s)>>] = HitStep(evar, g[s \ {Max(s)}], order[Max(s)])
    BY <1>5 DEF IsFold
  <2>1. Max(s) \in 1..L /\ s \ {Max(s)} \in SUBSET (1..L)
    BY <1>3, MaxFacts
  <2> QED BY <2>1, <1>4, <1>5
<1> DEFINE h == CHOOSE f : f = Fold(f)
<1>7. h = Fold(h)
  <2>1. \E f : f = Fold(f)
    BY <1>6
  <2> HIDE DEF Fold
  <2> QED BY <2>1
<1>8. SetEvars(c, evar) = h[1..L]
  BY <1>2, <1>3
<1> HIDE DEF h
<1>9. IsStepwise(h, V, c, L, step)
  <2>1. h[{}] = c
    BY <1>7
  <2>2. ASSUME NEW s \in SUBSET (1..L), s # {}, h[s \ {Max(s)}] \in V
        PROVE  h[s] = step[<<h[s \ {Max(s)}], Max(s)>>]
    <3>1. Max(s) \in 1..L
      BY <1>3, <2>2, MaxFacts
    <3>2. h[s] = HitStep(evar, h[s \ {Max(s)}], order[Max(s)])
      BY <1>7, <2>2
    <3> QED BY <3>1, <3>2, <2>2, <1>4
  <2> HIDE DEF Fold
  <2>3. IsFoldIn(h, V, c, L, step)
    BY <2>1, <2>2 DEF IsFoldIn
  <2> QED BY <2>3, <1>3, <1>4, FoldSteps
<1> DEFINE R == [k \in 0..L |-> h[1..k]]
<1>10. R \in [0..L -> V] /\ R[0] = c /\ R[L] = h[1..L]
  BY <1>3, <1>9 DEF IsStepwise
<1>11. ASSUME NEW k \in 1..L PROVE R[k] = HitStep(evar, R[k - 1], order[k])
  <2>1. k - 1 \in 0..L /\ k \in 0..L
    BY <1>3
  <2>2. h[1..(k - 1)] \in V /\ h[1..k] = step[<<h[1..(k - 1)], k>>]
    BY <2>1, <1>9 DEF IsStepwise
  <2> QED BY <2>1, <2>2, <1>4
<1> HIDE DEF R
<1>12. SetEvars(c, evar) = R[L]
  BY <1>8, <1>10
<1> QED BY <1>1, <1>10, <1>11, <1>12 DEF HitInSteps

\* A step of a hit leaves a cookie.
LEMMA HitStepType ==
  ASSUME NEW evar \in HitEvars, NEW d \in Cookie, NEW i \in RelationIds
  PROVE  HitStep(evar, d, i) \in Cookie
<1> DEFINE value == evar[i]
<1>1. value \in Elements \cup {0} /\ i \in Rids
  BY HitEvarsAssumption, RidFacts
<1>2. /\ d.field \in [Fields -> Nat] /\ d.purchaseIds \in IdList /\ d.known \subseteq Rids
      /\ d.vals \in [Rids -> Seq(Elements)]
      /\ \A x \in Rids : d.vals[x] # <<>> => x \in d.known
      /\ d = [field |-> d.field, purchaseIds |-> d.purchaseIds, known |-> d.known, vals |-> d.vals]
  BY CookieFacts
<1> HIDE DEF value
<1>3. CASE evar[i] # 0
  <2>1. value \in Elements /\ HitStep(evar, d, i) = SetEvar(d, i, value)
    BY <1>1, <1>3 DEF value, HitStep
  <2> DEFINE list == Vars(d)!NewValues(d.vals[i], value, "FIRST", 1)
             new == [field |-> d.field, purchaseIds |-> d.purchaseIds, known |-> d.known \cup {i},
                     vals |-> [d.vals EXCEPT ![i] = list]]
  <2>2. SetEvar(d, i, value) = d \/ SetEvar(d, i, value) = new
    <3>1. SetEvar(d, i, value) = d
            \/ SetEvar(d, i, value) = [d EXCEPT !.known = @ \cup {i},
                                                !.vals[i] = Vars(d)!NewValues(@, value, "FIRST", 1)]
      BY Zenon DEF SetEvar
    <3>2. [d EXCEPT !.known = @ \cup {i}, !.vals[i] = Vars(d)!NewValues(@, value, "FIRST", 1)] = new
      <4>1. [d EXCEPT !.known = @ \cup {i}, !.vals[i] = Vars(d)!NewValues(@, value, "FIRST", 1)]
              = [d EXCEPT !.known = @ \cup {i}, !.vals[i] = list]
        OBVIOUS
      <4>2. [d EXCEPT !.known = @ \cup {i}, !.vals[i] = list] = new
        <5> HIDE DEF list
        <5> DEFINE known == d.known \cup {i}
                   d1 == [field |-> d.field, purchaseIds |-> d.purchaseIds, known |-> known, vals |-> d.vals]
        <5>0. d \in [field : {d.field}, purchaseIds : {d.purchaseIds}, known : {d.known}, vals : {d.vals}]
          BY DEF Cookie
        <5>1. [d EXCEPT !.known = known] = d1
          <6> HIDE DEF known
          <6> QED BY <5>0
        <5>2. [d EXCEPT !.known = known, !.vals[i] = list] = [[d EXCEPT !.known = known] EXCEPT !.vals[i] = list]
          OBVIOUS
        <5>3. [d1 EXCEPT !.vals[i] = list] = new
          OBVIOUS
        <5> QED BY <5>1, <5>2, <5>3
      <4> QED BY <4>1, <4>2
    <3> QED BY <3>1, <3>2
  <2>3. list \in Seq(Elements)
    <3>1. d.vals[i] \in Seq(Elements) /\ <<value>> \in Seq(Elements)
      BY <1>1, <1>2, <2>1
    <3>2. list = d.vals[i] \/ list = <<value>>
      BY DEF Vars!NewValues
    <3> QED BY <3>1, <3>2
  <2> HIDE DEF list
  <2>4. new \in Cookie
    <3> DEFINE vals == [d.vals EXCEPT ![i] = list]
    <3>1. vals \in [Rids -> Seq(Elements)] /\ \A x \in Rids : x # i => vals[x] = d.vals[x]
      BY <1>2, <2>3
    <3>2. d.known \cup {i} \subseteq Rids
      BY <1>1, <1>2
    <3> HIDE DEF vals
    <3>3. new = [field |-> d.field, purchaseIds |-> d.purchaseIds, known |-> d.known \cup {i}, vals |-> vals]
      BY DEF vals
    <3> HIDE DEF new
    <3>4. \A x \in Rids : new.vals[x] # <<>> => x \in new.known
      BY <3>1, <3>3, <1>2
    <3> QED BY <3>1, <3>2, <3>3, <3>4, <1>2 DEF Cookie
  <2> QED BY <2>1, <2>2, <2>4
<1>4. CASE ~(evar[i] # 0)
  <2> DEFINE T == Vars(d)!Target(i)
             vals == [r \in Rids |-> IF r \in T THEN <<>> ELSE d.vals[r]]
             new == [field |-> d.field, purchaseIds |-> d.purchaseIds, known |-> d.known, vals |-> vals]
  <2>1. HitStep(evar, d, i) = [d EXCEPT !.vals = [r \in Rids |-> IF r \in T THEN <<>> ELSE @[r]]]
    BY <1>4 DEF HitStep, ClearVar
  <2> HIDE DEF T
  <2>2. HitStep(evar, d, i) = new
    BY <2>1, <1>2
  <2>3. vals \in [Rids -> Seq(Elements)]
    BY <1>2, EmptySeq
  <2>4. \A x \in Rids : vals[x] # <<>> => x \in d.known
    BY <1>2
  <2> HIDE DEF vals
  <2>5. new \in Cookie
    BY <2>3, <2>4, <1>2 DEF Cookie
  <2> QED BY <2>2, <2>5
<1> QED BY <1>3, <1>4

\* A hit on a blank cookie sets nothing: GetVar finds no variable.
LEMMA HitStepOnBlank ==
  ASSUME NEW evar, NEW i
  PROVE  HitStep(evar, Blank, i) = Blank
<1>1. Vars(Blank)!Target(i) = {}
  BY DEF Vars!Target, Blank
<1>2. FoundVals(Blank, i) = <<>>
  BY <1>1 DEF FoundVals
<1>3. SetEvar(Blank, i, evar[i]) = Blank
  BY <1>2 DEF SetEvar
<1>4. ClearVar(Blank, i) = Blank
  <2> DEFINE T == Vars(Blank)!Target(i)
  <2>1. ClearVar(Blank, i) = [Blank EXCEPT !.vals = [r \in Rids |-> IF r \in T THEN <<>> ELSE @[r]]]
    BY DEF ClearVar
  <2>2. T = {}
    BY <1>1
  <2> HIDE DEF T
  <2>3. [r \in Rids |-> IF r \in T THEN <<>> ELSE Blank.vals[r]] = Blank.vals
    BY <2>2 DEF Blank
  <2> QED BY <2>1, <2>3 DEF Blank
<1> QED BY <1>3, <1>4 DEF HitStep

\* A hit leaves a cookie a cookie, and a blank one blank.
LEMMA SetEvarsFacts ==
  ASSUME NEW evar \in HitEvars, NEW c \in Cookie
  PROVE  SetEvars(c, evar) \in Cookie /\ SetEvars(Blank, evar) = Blank
<1>1. SetEvars(c, evar) \in Cookie
  <2>1. HitInSteps(evar, Cookie, c)
    BY HitStepType, SetEvarsFold
  <2> QED BY <2>1 DEF HitInSteps, IsOrder
<1>2. SetEvars(Blank, evar) = Blank
  <2> DEFINE V == {Blank}
  <2>1. \A d \in V, i \in RelationIds : HitStep(evar, d, i) \in V
    BY HitStepOnBlank
  <2>2. Blank \in V
    OBVIOUS
  <2> HIDE DEF V
  <2>3. HitInSteps(evar, V, Blank)
    BY <2>1, <2>2, SetEvarsFold
  <2>4. SetEvars(Blank, evar) \in V
    BY <2>3 DEF HitInSteps, IsOrder
  <2> QED BY <2>4 DEF V
<1> QED BY <1>1, <1>2

----------------------------------------------------------------------------
(* The inductive invariant of RecordLife *)

\* The buffer is the start of what its writer wrote, and whole if nothing of
\* it is missing.
BufferOfWriter ==
  writer \in Writers =>
    /\ buffer \in Seq(Nat) /\ IsStartOf(buffer, RecordBy(saved, writer))
    /\ whole <=> Len(buffer) = Len(RecordBy(saved, writer))

\* A cookie, old at first, that was filled from the buffer.
FilledFromBuffer(old, cookie) ==
  IsFilled(buffer, RecordBy(saved, writer), old, GivenBy(saved, writer), saved.purchaseIds,
           Written_vals(saved), cookie, whole)

\* What was loaded comes from the buffer: read once into a blank cookie, or
\* once more into the cookie that was read.
LoadedFromBuffer ==
  /\ loads = 0 => loaded = Blank
  /\ loads > 0 => /\ writer \in Writers /\ ok = (whole /\ Readable)
                  /\ ~Readable => loaded = Blank
  /\ Readable /\ ~hit =>
       /\ loads = 1 => FilledFromBuffer(Blank, loaded)
       /\ loads = 2 => \E first \in Cookie : FilledFromBuffer(Blank, first) /\ FilledFromBuffer(first, loaded)

\* A hit comes after the first load of a whole record; nothing is read before
\* it is written.
OrderOfSteps == /\ writer = "nobody" => whole /\ loads = 0
                /\ hit => loads = 1 /\ whole

\* The inductive invariant.
Inv == TypeOK /\ OrderOfSteps /\ BufferOfWriter /\ LoadedFromBuffer

\* It holds initially ...
LEMMA InvInit == Init => Inv
<1> SUFFICES ASSUME Init PROVE Inv
  OBVIOUS
<1>1. TypeOK
  <2>1. Blank \in Cookie
    BY BlankFacts
  <2>2. 0 \in 0..2
    OBVIOUS
  <2> QED BY <2>1, <2>2 DEF Init, TypeOK
<1>2. OrderOfSteps /\ BufferOfWriter /\ LoadedFromBuffer
  BY DEF Init, OrderOfSteps, BufferOfWriter, LoadedFromBuffer, Writers
<1> QED BY <1>1, <1>2 DEF Inv

\* The record is written.
LEMMA InvWritten ==
  ASSUME Inv, NEW w \in Writers, Written(w, RecordBy(saved, w))
  PROVE  Inv'
<1> DEFINE record == RecordBy(saved, w)
<1>1. saved \in Cookie
  BY CookiesAssumption DEF Inv, TypeOK
<1>2. record \in Seq(Nat)
  BY <1>1, RecordOfFacts DEF IsLaidOut
<1>3. /\ writer = "nobody" /\ whole /\ loads = 0 /\ ~hit /\ loaded = Blank
      /\ writer' = w /\ buffer' = record
      /\ UNCHANGED <<saved, whole, loaded, ok, loads, hit>>
  BY DEF Written, Inv, OrderOfSteps, LoadedFromBuffer
<1>4. TypeOK'
  BY <1>3 DEF Inv, TypeOK, Writers
<1>5. OrderOfSteps'
  BY <1>3 DEF OrderOfSteps, Writers
<1>6. LoadedFromBuffer'
  BY <1>3 DEF LoadedFromBuffer
<1>7. BufferOfWriter'
  <2>1. buffer' \in Seq(Nat) /\ buffer' = RecordBy(saved', writer') /\ Len(buffer') \in Nat
    BY <1>2, <1>3, LenProperties
  <2>2. IsStartOf(buffer', RecordBy(saved', writer'))
    BY <2>1 DEF IsStartOf
  <2> QED BY <1>3, <2>1, <2>2 DEF BufferOfWriter
<1> QED BY <1>4, <1>5, <1>6, <1>7 DEF Inv

\* ... and is kept when the record is cut,
LEMMA InvCut == ASSUME Inv, Cut PROVE Inv'
<1>1. /\ writer \in Writers /\ whole /\ loads = 0 /\ ~hit /\ loaded = Blank
      /\ whole' = FALSE /\ UNCHANGED <<saved, writer, loaded, ok, loads, hit>>
  BY DEF Cut, Inv, TypeOK, OrderOfSteps, LoadedFromBuffer, Writers
<1>2. TypeOK'
  BY <1>1 DEF Inv, TypeOK
<1>3. OrderOfSteps'
  BY <1>1 DEF OrderOfSteps, Writers
<1>4. LoadedFromBuffer'
  BY <1>1 DEF LoadedFromBuffer
<1>5. BufferOfWriter'
  <2> DEFINE record == RecordBy(saved, writer)
             N == Len(buffer)
  <2>1. buffer \in Seq(Nat) /\ IsStartOf(buffer, record) /\ N \in Nat
    BY <1>1, LenProperties DEF Inv, BufferOfWriter
  <2>2. PICK n \in 0..N - 1 : buffer' = SubSeq(buffer, 1, n)
    BY DEF Cut
  <2> HIDE DEF N, record
  <2>3. n \in Nat /\ n <= N - 1 /\ 1..n \subseteq 1..N
    BY <2>1, <2>2
  <2>4. buffer' \in Seq(Nat) /\ Len(buffer') = n /\ \A i \in 1..n : buffer'[i] = buffer[i]
    <3>1. n = 0 \/ (1 \in 1..N /\ n \in 1..N)
      BY <2>1, <2>3
    <3>2. CASE n = 0
      <4>1. SubSeq(buffer, 1, 0) = <<>>
        BY <2>1 DEF N
      <4> QED BY <3>2, <4>1, <2>2, EmptySeq
    <3>3. CASE 1 \in 1..N /\ n \in 1..N
      <4>1. /\ SubSeq(buffer, 1, n) \in Seq(Nat)
            /\ Len(SubSeq(buffer, 1, n)) = n
            /\ \A i \in 1..n : SubSeq(buffer, 1, n)[i] = buffer[i]
        BY <3>3, <2>1, <2>3 DEF N
      <4> QED BY <4>1, <2>2
    <3> QED BY <3>1, <3>2, <3>3
  <2>5. Len(record) >= N /\ Len(record) \in Nat
    <3>1. record \in Seq(Nat)
      <4>1. saved \in Cookie
        BY CookiesAssumption DEF Inv, TypeOK
      <4> QED BY <4>1, <1>1, RecordOfFacts DEF IsLaidOut, record
    <3>2. Len(record) \in Nat
      BY <3>1, LenProperties
    <3> QED BY <3>2, <2>1 DEF IsStartOf, N
  <2>6. IsStartOf(buffer', record) /\ Len(buffer') # Len(record)
    <3>1. Len(buffer') <= Len(record) /\ Len(buffer') # Len(record)
      BY <2>1, <2>3, <2>4, <2>5
    <3>2. \A i \in 1..N : buffer[i] = record[i]
      BY <2>1 DEF IsStartOf, N
    <3>3. \A i \in 1..Len(buffer') : buffer'[i] = record[i]
      BY <2>3, <2>4, <3>2
    <3> QED BY <3>1, <3>3 DEF IsStartOf
  <2>7. record = RecordBy(saved', writer')
    BY <1>1 DEF record
  <2> QED BY <1>1, <2>4, <2>6, <2>7 DEF BufferOfWriter
<1> QED BY <1>2, <1>3, <1>4, <1>5 DEF Inv

\* when a cookie is filled from it,
LEMMA InvLoad == ASSUME Inv, Load PROVE Inv'
<1> DEFINE result == Deserialize(loaded, buffer)
           record == RecordBy(saved, writer)
<1>1. /\ writer \in Writers /\ loads \in 0..1 /\ ~hit
      /\ loaded' = result.cookie /\ ok' = result.ok /\ loads' = loads + 1
      /\ UNCHANGED <<saved, writer, buffer, whole, hit>>
  BY DEF Load, Inv, TypeOK, Writers
<1>2. /\ saved \in Cookie /\ loaded \in Cookie /\ buffer \in Seq(Nat) /\ whole \in BOOLEAN
      /\ IsStartOf(buffer, record) /\ (whole <=> Len(buffer) = Len(record))
  BY <1>1, CookiesAssumption DEF Inv, TypeOK, BufferOfWriter
<1> HIDE DEF result, record
<1>3. /\ writer # "incompatible" =>
           IsFilled(buffer, record, loaded, GivenBy(saved, writer), saved.purchaseIds, Written_vals(saved),
                    result.cookie, result.ok)
      /\ writer = "incompatible" => result.ok = FALSE /\ result.cookie = loaded
  <2>1. record = RecordBy(saved, writer) /\ result = Deserialize(loaded, buffer)
    BY DEF result, record
  <2>2. ReadBy(saved, writer, loaded, buffer, record, result)
    BY <2>1, <1>1, <1>2, ReadingOf
  <2> QED BY <2>2 DEF ReadBy
<1>4. Readable <=> writer # "incompatible"
  BY <1>1 DEF Readable, Writers
<1>5. result.ok = (whole /\ Readable) /\ result.cookie \in Cookie
  <2>1. CASE writer = "incompatible"
    BY <2>1, <1>2, <1>3, <1>4
  <2>2. CASE writer # "incompatible"
    <3>1. result.ok \in BOOLEAN /\ (result.ok <=> Len(buffer) = Len(record)) /\ result.cookie \in Cookie
      BY <2>2, <1>3 DEF IsFilled
    <3>2. result.ok = whole
      BY <3>1, <1>2
    <3> QED BY <2>2, <3>1, <3>2, <1>2, <1>4
  <2> QED BY <2>1, <2>2
<1>6. TypeOK'
  BY <1>1, <1>2, <1>5 DEF Inv, TypeOK, Readable
<1>7. OrderOfSteps'
  BY <1>1 DEF OrderOfSteps, Writers
<1>8. BufferOfWriter'
  BY <1>1 DEF Inv, BufferOfWriter
<1>9. Readable => FilledFromBuffer(loaded, loaded')
  <2>1. Readable => result.ok = whole
    BY <1>2, <1>5
  <2> QED BY <2>1, <1>1, <1>3, <1>4 DEF FilledFromBuffer, record
<1>10. LoadedFromBuffer'
  <2>1. /\ loads' > 0 /\ loads' # 0
        /\ writer' \in Writers /\ ok' = (whole' /\ Readable')
    BY <1>1, <1>5 DEF Readable
  <2>2. ~Readable' => loaded' = Blank
    <3>1. ~Readable => loaded = Blank
      BY <1>1 DEF Inv, LoadedFromBuffer
    <3> QED BY <3>1, <1>1, <1>3, <1>4 DEF Readable
  <2>3. \A a, b : (FilledFromBuffer(a, b)' <=> FilledFromBuffer(a, b))
    BY <1>1 DEF FilledFromBuffer
  <2>4. ASSUME Readable', loads' = 1 PROVE FilledFromBuffer(Blank, loaded)'
    <3>1. loaded = Blank /\ Readable
      BY <2>4, <1>1 DEF Inv, LoadedFromBuffer, Readable
    <3>2. IsFilled(buffer, RecordBy(saved, writer), Blank, GivenBy(saved, writer), saved.purchaseIds,
                   Written_vals(saved), loaded', whole)
      BY <3>1, <1>9 DEF FilledFromBuffer
    <3> QED BY <3>2, <1>1 DEF FilledFromBuffer
  <2>5. ASSUME Readable', loads' = 2
        PROVE  (\E first \in Cookie : FilledFromBuffer(Blank, first) /\ FilledFromBuffer(first, loaded))'
    <3>1. FilledFromBuffer(Blank, loaded) /\ Readable
      BY <2>5, <1>1 DEF Inv, LoadedFromBuffer, Readable
    <3>2. /\ IsFilled(buffer, RecordBy(saved, writer), Blank, GivenBy(saved, writer), saved.purchaseIds,
                      Written_vals(saved), loaded, whole)
          /\ IsFilled(buffer, RecordBy(saved, writer), loaded, GivenBy(saved, writer), saved.purchaseIds,
                      Written_vals(saved), loaded', whole)
      BY <3>1, <1>9 DEF FilledFromBuffer
    <3> QED BY <3>2, <1>1, <1>2 DEF FilledFromBuffer
  <2> QED BY <2>1, <2>2, <2>4, <2>5 DEF LoadedFromBuffer
<1> QED BY <1>6, <1>7, <1>8, <1>10 DEF Inv

\* when a hit changes the cookie,
LEMMA InvHit == ASSUME Inv, NEW evar \in HitEvars, Hit(evar) PROVE Inv'
<1>1. /\ loads = 1 /\ whole /\ loaded' = SetEvars(loaded, evar) /\ hit' = TRUE
      /\ UNCHANGED <<saved, writer, buffer, whole, ok, loads>>
  BY DEF Hit
<1>2. loaded \in Cookie
  BY DEF Inv, TypeOK
<1>3. SetEvars(loaded, evar) \in Cookie /\ SetEvars(Blank, evar) = Blank
  BY <1>2, SetEvarsFacts
<1>4. TypeOK'
  BY <1>1, <1>3 DEF Inv, TypeOK
<1>5. OrderOfSteps'
  BY <1>1 DEF Inv, OrderOfSteps
<1>6. BufferOfWriter'
  BY <1>1 DEF Inv, BufferOfWriter
<1>7. LoadedFromBuffer'
  <2>1. loads' > 0 /\ loads' # 0 /\ writer' \in Writers /\ ok' = (whole' /\ Readable') /\ hit'
    BY <1>1 DEF Inv, LoadedFromBuffer, Readable
  <2>2. ~Readable' => loaded' = Blank
    BY <1>1, <1>3 DEF Inv, LoadedFromBuffer, Readable
  <2> QED BY <2>1, <2>2 DEF LoadedFromBuffer
<1> QED BY <1>4, <1>5, <1>6, <1>7 DEF Inv

\* and by every other step.
LEMMA InvNext == ASSUME Inv, [Next]_vars PROVE Inv'
<1>1. CASE Write
  <2>1. \E w \in Writers : Written(w, RecordBy(saved, w))
    BY <1>1 DEF Write, Writers, RecordBy
  <2> QED BY <2>1, InvWritten
<1>2. CASE WriteLater
  <2>1. \E w \in Writers : Written(w, RecordBy(saved, w))
    BY <1>2 DEF WriteLater, Writers, RecordBy
  <2> QED BY <2>1, InvWritten
<1>3. CASE Cut
  BY <1>3, InvCut
<1>4. CASE Load
  BY <1>4, InvLoad
<1>5. CASE \E evar \in HitEvars : Hit(evar)
  BY <1>5, InvHit
<1>6. CASE UNCHANGED vars
  BY <1>6 DEF vars, Inv, TypeOK, OrderOfSteps, BufferOfWriter, LoadedFromBuffer, Readable, FilledFromBuffer
<1>7. CASE Done
  BY <1>6, <1>7 DEF Done
<1> QED BY <1>1, <1>2, <1>3, <1>4, <1>5, <1>6, <1>7 DEF Next

\* The invariant holds in every behaviour.
THEOREM InvHolds == Spec => []Inv
<1>1. Init => Inv
  BY InvInit
<1>2. Inv /\ [Next]_vars => Inv'
  BY InvNext
<1> QED BY <1>1, <1>2, PTL DEF Spec

----------------------------------------------------------------------------
(* A record that is read once *)

\* What a writer gives of a field is what its getter gives.
LEMMA GivenFacts ==
  ASSUME NEW s, NEW w, NEW f \in Fields
  PROVE  GivenBy(s, w)[f] = IF f = 2 /\ w = "timeless" THEN 0 ELSE Getter(s, f)
<1>1. (~(w # "timeless")) <=> w = "timeless"
  OBVIOUS
<1> QED BY <1>1 DEF GivenBy, Given, LastHitTime

\* What a reader has of a whole record.
LEMMA ReadOnce ==
  ASSUME Inv, Readable, whole, loads = 1, ~hit
  PROVE  ok /\ Same(loaded, saved, IF writer = "timeless" THEN Fields \ {2, 3, 5} ELSE Fields)
<1>1. saved \in Cookie /\ FilledFromBuffer(Blank, loaded) /\ ok = (whole /\ Readable)
  BY CookiesAssumption DEF Inv, TypeOK, LoadedFromBuffer
<1>2. ok
  BY <1>1
<1>3. /\ \A f \in Fields : loaded.field[f] = GivenBy(saved, writer)[f]
      /\ loaded.purchaseIds = saved.purchaseIds
      /\ \A x \in Rids : loaded.vals[x] = Written_vals(saved)[x]
  <2> DEFINE record == RecordBy(saved, writer)
             given == GivenBy(saved, writer)
  <2>1. IsFilled(buffer, record, Blank, given, saved.purchaseIds, Written_vals(saved), loaded, whole)
    BY <1>1 DEF FilledFromBuffer
  <2> HIDE DEF record, given
  <2>2. /\ \A f \in Fields : loaded.field[f] = given[f]
        /\ loaded.purchaseIds = saved.purchaseIds
        /\ \A x \in Rids : loaded.vals[x] = Written_vals(saved)[x]
    <3>1. HasOf(given, saved, loaded, whole)
      BY <2>1, <1>1, FilledFirst
    <3> QED BY <3>1 DEF HasOf
  <2> QED BY <2>2 DEF given
<1>4. \A r \in RelationIds : loaded.vals[r] = saved.vals[r]
  BY <1>3, RidFacts DEF Written_vals
<1>5. ASSUME NEW f \in IF writer = "timeless" THEN Fields \ {2, 3, 5} ELSE Fields
      PROVE  Getter(loaded, f) = Getter(saved, f)
  <2> DEFINE g == IF f \in {3, 5} THEN LastHitTime ELSE f
  <2>1. f \in Fields /\ g \in Fields /\ ~(g = 2 /\ writer = "timeless") /\ g \notin {3, 5}
    BY DEF Fields, LastHitTime
  <2>2. Getter(loaded, f) = loaded.field[g] /\ Getter(saved, f) = saved.field[g]
    BY DEF Getter
  <2> HIDE DEF g
  <2>3. Getter(saved, g) = saved.field[g]
    BY <2>1 DEF Getter
  <2>4. loaded.field[g] = Getter(saved, g)
    BY <2>1, <1>3, GivenFacts
  <2> QED BY <2>2, <2>3, <2>4
<1> QED BY <1>2, <1>3, <1>4, <1>5 DEF Same

\* A whole record that this version wrote, or a later one for it, gives a blank
\* cookie back what was saved: every field, purchase id and variable
\* (vcookiestore.cpp:75-138 against 140-273).
THEOREM RoundTripHolds == Spec => []RoundTrip
<1>1. Inv => RoundTrip
  BY ReadOnce DEF Inv, RoundTrip
<1> QED BY <1>1, InvHolds, PTL

----------------------------------------------------------------------------
(* A record that is cut, or that this version cannot read *)

\* A list that begins another is a prefix of it.
LEMMA BeginningIsPrefix ==
  ASSUME NEW S, NEW list \in Seq(S), NEW part, IsBeginning(part, list)
  PROVE  IsPrefix(part, list)
<1> DEFINE n == Len(part)
<1>1. part \in Seq(Nat) /\ n \in Nat /\ n <= Len(list) /\ Len(list) \in Nat
  BY LenProperties DEF IsBeginning
<1>2. \A j \in 1..n : part[j] = list[j]
  BY DEF IsBeginning
<1> HIDE DEF n
<1>3. SubSeq(part, 1, n) = [j \in 1..n |-> part[j]] /\ SubSeq(list, 1, n) = [j \in 1..n |-> list[j]]
  <2>1. \A i : i \in 1..n => 1 + i - 1 = i
    BY <1>1
  <2> QED BY <1>1, <2>1
<1>4. [j \in 1..n |-> part[j]] = [j \in 1..n |-> list[j]]
  BY <1>2
<1>5. SubSeq(part, 1, n) = SubSeq(list, 1, n)
  BY <1>3, <1>4
<1> QED BY <1>1, <1>5 DEF IsPrefix, n

\* Nothing is a prefix of every list.
LEMMA NothingIsPrefix ==
  ASSUME NEW S, NEW list \in Seq(S)
  PROVE  IsPrefix(<<>>, list)
<1>1. IsBeginning(<<>>, list)
  <2>1. Len(list) \in Nat
    BY LenProperties
  <2> QED BY <2>1, EmptySeq DEF IsBeginning
<1> QED BY <1>1, BeginningIsPrefix

\* A record that ends early, or that only later versions can read, is rejected
\* and leaves in a blank cookie parts of what its writer had
\* (vcookiestore.cpp:153-163, 268-272; VCCouchbaseStore.cc:145).
THEOREM RejectedHolds == Spec => []RejectedIsPartOfSaved
<1>1. ASSUME Inv, loads > 0, ~whole \/ ~Readable
      PROVE  /\ ~ok
             /\ ~Readable => loaded = Blank
             /\ loads = 1 =>
                  /\ \A f \in Fields : loaded.field[f] \in {0, Getter(saved, f)}
                  /\ IsPrefix(loaded.purchaseIds, saved.purchaseIds)
                  /\ \A r \in Rids : IsPrefix(loaded.vals[r], saved.vals[r])
  <2>1. saved \in Cookie /\ ok = (whole /\ Readable) /\ (~Readable => loaded = Blank)
    BY <1>1, CookiesAssumption DEF Inv, TypeOK, LoadedFromBuffer
  <2>2. ~ok
    BY <2>1, <1>1
  <2>3. saved.purchaseIds \in Seq(PurchaseIds) /\ \A r \in Rids : saved.vals[r] \in Seq(Elements)
    BY <2>1, CookieFacts DEF IdList
  <2>4. ASSUME loads = 1
        PROVE  /\ \A f \in Fields : loaded.field[f] \in {0, Getter(saved, f)}
               /\ IsPrefix(loaded.purchaseIds, saved.purchaseIds)
               /\ \A r \in Rids : IsPrefix(loaded.vals[r], saved.vals[r])
    <3>1. CASE ~Readable
      <4>1. loaded = Blank
        BY <3>1, <2>1
      <4>2. IsPrefix(<<>>, saved.purchaseIds) /\ \A r \in Rids : IsPrefix(<<>>, saved.vals[r])
        BY <2>3, NothingIsPrefix
      <4> QED BY <4>1, <4>2, BlankFacts
    <3>2. CASE Readable
      <4>1. ~whole /\ ~hit
        BY <3>2, <1>1 DEF Inv, OrderOfSteps
      <4>2. FilledFromBuffer(Blank, loaded)
        BY <4>1, <3>2, <2>4, <1>1 DEF Inv, LoadedFromBuffer
      <4> DEFINE record == RecordBy(saved, writer)
                 given == GivenBy(saved, writer)
      <4>3. IsFilled(buffer, record, Blank, given, saved.purchaseIds, Written_vals(saved), loaded, whole)
        BY <4>2 DEF FilledFromBuffer
      <4> HIDE DEF record, given
      <4>4. /\ \A f \in Fields : loaded.field[f] \in {0, given[f]}
            /\ IsBeginning(loaded.purchaseIds, saved.purchaseIds)
            /\ \A x \in Rids : IsBeginning(loaded.vals[x], Written_vals(saved)[x])
        <5>1. HasOf(given, saved, loaded, whole)
          BY <4>3, <2>1, FilledFirst
        <5> QED BY <5>1 DEF HasOf
      <4>5. \A f \in Fields : given[f] \in {0, Getter(saved, f)}
        BY GivenFacts DEF given
      <4>6. \A f \in Fields : loaded.field[f] \in {0, Getter(saved, f)}
        BY <4>4, <4>5
      <4>7. IsPrefix(loaded.purchaseIds, saved.purchaseIds)
        BY <4>4, <2>3, BeginningIsPrefix
      <4>8. ASSUME NEW r \in Rids PROVE IsPrefix(loaded.vals[r], saved.vals[r])
        <5>1. IsBeginning(loaded.vals[r], Written_vals(saved)[r])
          BY <4>4
        <5>2. CASE r \in RelationIds
          <6>1. Written_vals(saved)[r] = saved.vals[r]
            BY <5>2 DEF Written_vals
          <6> QED BY <5>1, <6>1, <2>3, BeginningIsPrefix
        <5>3. CASE r \notin RelationIds
          <6>1. Written_vals(saved)[r] = <<>>
            BY <5>3 DEF Written_vals
          <6>2. loaded.vals[r] = <<>>
            <7>1. loaded.vals[r] \in Seq(Nat) /\ Len(loaded.vals[r]) <= 0 /\ Len(loaded.vals[r]) \in Nat
              BY <5>1, <6>1, LenProperties DEF IsBeginning
            <7> QED BY <7>1, EmptySeq
          <6> QED BY <6>2, <2>3, NothingIsPrefix
        <5> QED BY <5>2, <5>3
      <4> QED BY <4>6, <4>7, <4>8
    <3> QED BY <3>1, <3>2
  <2> QED BY <2>1, <2>2, <2>4
<1>2. Inv => RejectedIsPartOfSaved
  BY <1>1 DEF RejectedIsPartOfSaved
<1> QED BY <1>2, InvHolds, PTL

----------------------------------------------------------------------------
(* A record that is read twice *)

\* A list that another ends with is a suffix of it.
LEMMA EndIsSuffix ==
  ASSUME NEW part \in Seq(Nat), NEW list \in Seq(Nat), EndsWith(list, part)
  PROVE  IsSuffix(part, list)
<1> DEFINE n == Len(part)
           m == Len(list)
           back == Reverse(part)
           all == Reverse(list)
<1>1. n \in Nat /\ m \in Nat /\ n <= m
  BY LenProperties DEF EndsWith
<1>2. back = [j \in 1..n |-> part[n - j + 1]] /\ all = [j \in 1..m |-> list[m - j + 1]]
  BY DEF Reverse
<1>3. \A j \in 1..n : list[m - n + j] = part[j]
  BY DEF EndsWith
<1>4. (\A j \in 1..n : part[j] \in Nat) /\ (\A j \in 1..m : list[j] \in Nat)
  BY ElementOfSeq
<1> HIDE DEF n, m, back, all
<1>5. \A j \in 1..n : n - j + 1 \in 1..n /\ j \in 1..m
  BY <1>1
<1>6. \A j \in 1..m : m - j + 1 \in 1..m
  BY <1>1
<1>7. back \in [1..n -> Nat] /\ all \in [1..m -> Nat]
  <2>1. \A j \in 1..n : part[n - j + 1] \in Nat
    BY <1>4, <1>5
  <2>2. \A j \in 1..m : list[m - j + 1] \in Nat
    BY <1>4, <1>6
  <2> QED BY <2>1, <2>2, <1>2
<1>8. back \in Seq(Nat) /\ Len(back) = n /\ all \in Seq(Nat) /\ Len(all) = m
  BY <1>1, <1>7, FunctionIsSeq
<1>9. ASSUME NEW j \in 1..n PROVE back[j] = all[j]
  <2> DEFINE k == n - j + 1
  <2>1. k \in 1..n /\ j \in 1..m /\ m - n + k = m - j + 1
    BY <1>1, <1>5
  <2>2. back[j] = part[k] /\ all[j] = list[m - j + 1]
    BY <2>1, <1>2
  <2> HIDE DEF k
  <2>3. list[m - n + k] = part[k]
    BY <2>1, <1>3
  <2> QED BY <2>1, <2>2, <2>3
<1>10. IsBeginning(back, all)
  BY <1>1, <1>8, <1>9 DEF IsBeginning
<1>11. IsPrefix(back, all)
  BY <1>8, <1>10, BeginningIsPrefix
<1> QED BY <1>11 DEF IsSuffix, back, all

\* Read once more into the variable that has it, a list stands at the end of
\* what is there, behind all but the first of its elements.
LEMMA LoadedOntoItself ==
  ASSUME NEW list \in Seq(Nat), NEW new, new = Loaded(list, list, Len(list))
  PROVE  /\ IsSuffix(list, new)
         /\ Len(new) = IF Len(list) > 1 THEN 2 * Len(list) - 1 ELSE Len(list)
<1> DEFINE n == Len(list)
<1>1. n \in Nat
  BY LenProperties
<1>2. IsLoaded(Nat, list, list, n, new)
  BY <1>1, LoadedFacts
<1>3. CASE list = <<>>
  <2>1. new = list
    BY <1>2, <1>3 DEF IsLoaded
  <2>2. EndsWith(new, list)
    BY <2>1, <1>1 DEF EndsWith
  <2>3. IsSuffix(list, new)
    BY <2>1, <2>2, EndIsSuffix
  <2>4. Len(list) = 0 /\ ~(0 > 1)
    BY <1>3
  <2> QED BY <2>1, <2>3, <2>4
<1>4. CASE list # <<>>
  <2>1. new \in Seq(Nat) /\ Len(new) = Staying(list, n) + n /\ EndsWith(new, list)
    BY <1>2, <1>4 DEF IsLoaded
  <2>2. IsSuffix(list, new)
    BY <2>1, EndIsSuffix
  <2>3. Staying(list, n) = IF n > 1 THEN n - 1 ELSE 0
    <3>1. Staying(list, n) = IF n > 1 THEN (IF n > n - 1 THEN n - 1 ELSE n) ELSE 0
      BY DEF Staying
    <3> HIDE DEF n
    <3>2. n > n - 1
      BY <1>1
    <3> QED BY <3>1, <3>2
  <2> HIDE DEF n
  <2>4. Len(new) = IF n > 1 THEN 2 * n - 1 ELSE n
    BY <1>1, <2>1, <2>3
  <2> QED BY <2>2, <2>4 DEF n
<1> QED BY <1>3, <1>4

\* Filling a cookie that has its record already keeps its fields and purchase
\* ids; each variable ends with its saved elements, and of those it had before
\* all but the oldest stay in front of them (the constructor and LoadVCookies,
\* VCCouchbaseStore.cc:101-160; SetVar in vcookiestore.cpp:250-264).
THEOREM SecondLoadHolds == Spec => []SecondLoadKeepsTheRecord
<1>1. ASSUME Inv, Readable, whole, loads = 2
      PROVE  /\ \A f \in Fields \ {2, 3, 5} : Getter(loaded, f) = Getter(saved, f)
             /\ loaded.purchaseIds = saved.purchaseIds
             /\ \A r \in RelationIds :
                  LET n == Len(saved.vals[r])
                  IN IsSuffix(saved.vals[r], loaded.vals[r])
                       /\ Len(loaded.vals[r]) = IF n > 1 THEN 2 * n - 1 ELSE n
  <2> DEFINE record == RecordBy(saved, writer)
             given == GivenBy(saved, writer)
             new == Written_vals(saved)
             ids == saved.purchaseIds
  <2>1. saved \in Cookie /\ ~hit
    BY <1>1, CookiesAssumption DEF Inv, TypeOK, OrderOfSteps
  <2>2. PICK first \in Cookie : FilledFromBuffer(Blank, first) /\ FilledFromBuffer(first, loaded)
    BY <1>1, <2>1 DEF Inv, LoadedFromBuffer
  <2>3. /\ IsFilled(buffer, record, Blank, given, ids, new, first, whole)
        /\ IsFilled(buffer, record, first, given, ids, new, loaded, whole)
    BY <2>2 DEF FilledFromBuffer
  <2>4. ids \in IdList
    BY <2>1, CookieFacts
  <2> HIDE DEF record, given, ids
  <2>5. HasOf(given, saved, first, whole)
    BY <2>1, <2>3, FilledFirst DEF ids
  <2> HIDE DEF new
  <2>6. /\ \A f \in Fields : first.field[f] = given[f]
        /\ first.purchaseIds = ids
        /\ \A x \in Rids : first.vals[x] = new[x]
    BY <1>1, <2>5 DEF HasOf, ids, new
  <2>7. /\ \A f \in Fields : loaded.field[f] = IF given[f] # 0 THEN given[f] ELSE first.field[f]
        /\ loaded.purchaseIds = AddPurchaseIds(first.purchaseIds, ids)
        /\ \A x \in Rids : loaded.vals[x] = Loaded(first.vals[x], new[x], Len(new[x]))
    BY <1>1, <2>3 DEF IsFilled
  <2>8. loaded.purchaseIds = ids
    BY <2>4, <2>6, <2>7, AddPurchaseIdsFacts
  <2>9. ASSUME NEW f \in Fields \ {2, 3, 5} PROVE Getter(loaded, f) = Getter(saved, f)
    <3>1. loaded.field[f] = given[f]
      BY <2>6, <2>7
    <3>2. given[f] = Getter(saved, f)
      BY GivenFacts DEF given
    <3> QED BY <3>1, <3>2 DEF Getter
  <2>10. ASSUME NEW r \in RelationIds
         PROVE  /\ IsSuffix(saved.vals[r], loaded.vals[r])
                /\ Len(loaded.vals[r]) = IF Len(saved.vals[r]) > 1 THEN 2 * Len(saved.vals[r]) - 1 ELSE Len(saved.vals[r])
    <3> DEFINE list == saved.vals[r]
    <3>1. r \in Rids /\ new[r] = list
      BY RidFacts DEF Written_vals, new
    <3>2. list \in Seq(Nat)
      BY <2>1, <3>1, CookieFacts
    <3> HIDE DEF list
    <3>3. loaded.vals[r] = Loaded(list, list, Len(list))
      BY <3>1, <2>6, <2>7
    <3> QED BY <3>2, <3>3, LoadedOntoItself DEF list
  <2> QED BY <2>8, <2>9, <2>10 DEF ids
<1>2. Inv => SecondLoadKeepsTheRecord
  BY <1>1 DEF SecondLoadKeepsTheRecord
<1> QED BY <1>2, InvHolds, PTL

----------------------------------------------------------------------------
(* The comparison of two cookies *)

\* For cookies with the same variables set, operator== sees every difference
\* that a reader can tell, and no other.
LEMMA EqualFacts ==
  ASSUME NEW a \in Cookie, NEW b \in Cookie, SetIds(a) = SetIds(b)
  PROVE  Equal(a, b) <=> Same(a, b, Fields)
<1>1. ASSUME NEW r \in SetIds(a) PROVE FoundVals(b, r) = b.vals[r]
  <2>1. r \in RelationIds /\ b.vals[r] # <<>> /\ r \in Rids
    BY RidFacts DEF SetIds
  <2>2. r \in b.known /\ b.known \subseteq Nat
    BY <2>1, CookieFacts, RidFacts
  <2>3. Vars(b)!Target(r) = {r}
    <3>1. Vars(b)!Target(r) = {s \in b.known : s >= r /\ \A u \in b.known : u >= r => s <= u}
      BY DEF Vars!Target
    <3>2. \A s \in b.known : (s >= r /\ \A u \in b.known : u >= r => s <= u) <=> s = r
      BY <2>2
    <3> QED BY <3>1, <3>2, <2>2
  <2> QED BY <2>3 DEF FoundVals
<1>2. GetFirstSetVar(a) = GetFirstSetVar(b)
  <2>1. \A c : {r \in Rids : c.vals[r] # <<>>} \cup {InvalidRid} = SetIds(c) \cup {InvalidRid}
    BY DEF SetIds, Rids
  <2> QED BY <2>1 DEF GetFirstSetVar
<1>3. (\A r \in SetIds(a) : SameVar(a, b, r)) <=> \A r \in RelationIds : a.vals[r] = b.vals[r]
  <2>1. \A r \in SetIds(a) : SameVar(a, b, r) <=> a.vals[r] = b.vals[r]
    BY <1>1 DEF SameVar
  <2>2. \A r \in RelationIds : r \notin SetIds(a) => a.vals[r] = <<>> /\ b.vals[r] = <<>>
    BY DEF SetIds
  <2>3. SetIds(a) \subseteq RelationIds
    BY DEF SetIds
  <2> QED BY <2>1, <2>2, <2>3
<1> QED BY <1>2, <1>3 DEF Equal, Same

\* operator== tells a loaded cookie from every other with the same variables,
\* and a whole record that has its last hit time equals what was saved, in both
\* orders (vcookie.h:404-467).
THEOREM EqualHolds == Spec => []EqualIsExactForSameIds
<1>1. ASSUME Inv, Readable, loads = 1, ~hit
      PROVE  /\ \A c \in {d \in Compared : SetIds(d) = SetIds(loaded)} :
                  Equal(loaded, c) <=> Same(loaded, c, Fields)
             /\ whole /\ writer # "timeless" => Equal(loaded, saved) /\ Equal(saved, loaded)
  <2>1. loaded \in Cookie /\ saved \in Cookie /\ Compared \subseteq Cookie
    BY <1>1, CookiesAssumption DEF Inv, TypeOK
  <2>2. ASSUME NEW c \in Compared, SetIds(c) = SetIds(loaded)
        PROVE  Equal(loaded, c) <=> Same(loaded, c, Fields)
    BY <2>1, <2>2, EqualFacts
  <2>3. ASSUME whole, writer # "timeless" PROVE Equal(loaded, saved) /\ Equal(saved, loaded)
    <3>1. Same(loaded, saved, Fields)
      BY <1>1, <2>3, ReadOnce
    <3>2. Same(saved, loaded, Fields) /\ SetIds(saved) = SetIds(loaded)
      BY <3>1 DEF Same, SetIds
    <3> QED BY <2>1, <3>1, <3>2, EqualFacts
  <2> QED BY <2>2, <2>3
<1>2. Inv => EqualIsExactForSameIds
  BY <1>1 DEF EqualIsExactForSameIds
<1> QED BY <1>2, InvHolds, PTL

----------------------------------------------------------------------------
(* The evars of a hit, one after the other *)

\* The evar i, which the hit does not set, clears the variable r: the first one
\* of the ids in set at or above it.
Clears(evar, set, i, r) == evar[i] = 0 /\ i <= r /\ \A q \in set : q < i \/ q >= r

\* The variables that the evars done have cleared.
ClearedBy(evar, set, done) == {r \in set : \E i \in done : Clears(evar, set, i, r)}

\* What the evars done of a hit have made of the cookie c: they added no slots
\* but their own; a variable is cleared, as it was, or has the value of its
\* evar.
HitSoFar(evar, c, done, d) ==
  /\ d \in Cookie /\ SetIds(c) \subseteq d.known /\ d.known \subseteq SetIds(c) \cup done
  /\ \A r \in ClearedBy(evar, SetIds(c), done) : d.vals[r] = <<>>
  /\ \A r \in SetIds(c) \ ClearedBy(evar, SetIds(c), done) :
       d.vals[r] = c.vals[r] \/ (r \in done /\ Len(c.vals[r]) > 1 /\ d.vals[r] = <<evar[r]>>)
  /\ \A r \in RelationIds \ SetIds(c) :
       d.vals[r] = <<>> \/ (r \in done /\ d.vals[r] = <<evar[r]>> /\ \E q \in SetIds(c) : q > r)

\* The cookie new is d after one evar, of which the first known id is in T.
StepDone(evar, d, i, T, new) ==
  /\ evar[i] = 0 => /\ new.known = d.known
                    /\ \A x \in Rids : new.vals[x] = IF x \in T THEN <<>> ELSE d.vals[x]
  /\ evar[i] # 0 =>
       \/ new = d
       \/ /\ \E t \in T : d.vals[t] # <<>>
          /\ new.known = d.known \cup {i}
          /\ \A x \in Rids \ {i} : new.vals[x] = d.vals[x]
          /\ new.vals[i] = IF Len(d.vals[i]) = 1 THEN d.vals[i] ELSE <<evar[i]>>

\* One evar: SetEvar or ClearVar.
LEMMA HitStepFacts ==
  ASSUME NEW evar, NEW d \in Cookie, NEW i \in RelationIds, NEW T, T = Vars(d)!Target(i),
         NEW new, new = HitStep(evar, d, i)
  PROVE  StepDone(evar, d, i, T, new)
<1>1. i \in Rids
  BY RidFacts
<1>2. d \in [field : {d.field}, purchaseIds : {d.purchaseIds}, known : {d.known}, vals : {d.vals}]
      /\ d.vals \in [Rids -> Seq(Elements)]
  BY CookieFacts DEF Cookie
<1>3. CASE evar[i] = 0
  <2>1. new = [d EXCEPT !.vals = [r \in Rids |-> IF r \in T THEN <<>> ELSE @[r]]]
    BY <1>3 DEF HitStep, ClearVar
  <2> DEFINE vals == [r \in Rids |-> IF r \in T THEN <<>> ELSE d.vals[r]]
  <2>2. new = [d EXCEPT !.vals = vals]
    BY <2>1
  <2>3. new.vals = vals /\ new.known = d.known
    <3> HIDE DEF vals
    <3> QED BY <2>2, <1>2
  <2>4. \A x \in Rids : new.vals[x] = IF x \in T THEN <<>> ELSE d.vals[x]
    BY <2>3
  <2> QED BY <2>3, <2>4, <1>3 DEF StepDone
<1>4. CASE evar[i] # 0
  <2> DEFINE list == Vars(d)!NewValues(d.vals[i], evar[i], "FIRST", 1)
             found == FoundVals(d, i)
             set == found # <<>> /\ new = [d EXCEPT !.known = @ \cup {i},
                                                    !.vals[i] = Vars(d)!NewValues(@, evar[i], "FIRST", 1)]
  <2>1. new = d \/ set
    BY <1>4, Zenon DEF HitStep, SetEvar
  <2>2. CASE new = d
    BY <2>2, <1>4 DEF StepDone
  <2>3. CASE set
    <3>1. new = [d EXCEPT !.known = @ \cup {i}, !.vals[i] = list]
      BY <2>3
    <3>2. list = IF Len(d.vals[i]) = 1 THEN d.vals[i] ELSE <<evar[i]>>
      BY DEF Vars!NewValues
    <3> HIDE DEF list
    <3>3. new.known = d.known \cup {i} /\ new.vals = [d.vals EXCEPT ![i] = list]
      <4> DEFINE known == d.known \cup {i}
                 d1 == [d EXCEPT !.known = known]
      <4>1. d1.vals = d.vals /\ d1.known = known
            /\ d1 \in [field : {d.field}, purchaseIds : {d.purchaseIds}, known : {known}, vals : {d.vals}]
        <5> HIDE DEF known
        <5> QED BY <1>2
      <4>2. new = [d EXCEPT !.known = known, !.vals[i] = list]
        BY <3>1
      <4>3. [d EXCEPT !.known = known, !.vals[i] = list] = [d1 EXCEPT !.vals[i] = list]
        OBVIOUS
      <4> HIDE DEF d1
      <4>4. [d1 EXCEPT !.vals[i] = list].vals = [d1.vals EXCEPT ![i] = list]
            /\ [d1 EXCEPT !.vals[i] = list].known = d1.known
        BY <4>1
      <4> QED BY <4>1, <4>2, <4>3, <4>4
    <3>4. new.vals[i] = list /\ \A x \in Rids \ {i} : new.vals[x] = d.vals[x]
      BY <3>3, <1>1, <1>2
    <3>5. \E t \in T : d.vals[t] # <<>>
      <4>1. T # {} /\ found = d.vals[CHOOSE t \in T : TRUE]
        BY <2>3 DEF FoundVals
      <4>2. (CHOOSE t \in T : TRUE) \in T
        BY <4>1
      <4> QED BY <4>1, <4>2, <2>3
    <3> QED BY <3>2, <3>3, <3>4, <3>5, <1>4 DEF StepDone
  <2> HIDE DEF set
  <2> QED BY <2>1, <2>2, <2>3
<1> QED BY <1>3, <1>4

\* T holds the first of the ids in set at or above i.
FirstAt(T, set, i) == \A r : r \in T <=> r \in set /\ i <= r /\ \A q \in set : q < i \/ q >= r

\* The first known id at or above an evar whose turn has come is a variable of
\* the cookie as it was before the hit.
LEMMA TargetInHit ==
  ASSUME NEW known, NEW set \in SUBSET RelationIds, NEW done \in SUBSET RelationIds,
         set \subseteq known, known \subseteq set \cup done,
         NEW i \in RelationIds, \A j \in done : j < i,
         NEW T, T = {s \in known : s >= i /\ \A u \in known : u >= i => s <= u}
  PROVE  FirstAt(T, set, i)
<1>1. set \subseteq Nat /\ done \subseteq Nat /\ i \in Nat /\ known \subseteq Nat
  BY RidFacts
<1>2. \A u \in known : u >= i => u \in set
  BY <1>1
<1>3. ASSUME NEW r \in T PROVE r \in set /\ i <= r /\ \A q \in set : q < i \/ q >= r
  BY <1>1, <1>2
<1>4. ASSUME NEW r \in set, i <= r, \A q \in set : q < i \/ q >= r PROVE r \in T
  <2>1. \A u \in known : u >= i => r <= u
    BY <1>1, <1>2, <1>4
  <2> QED BY <2>1, <1>1, <1>4
<1> QED BY <1>3, <1>4 DEF FirstAt

\* Each evar goes on from what those before it have made of the cookie.
LEMMA HitGoesOn ==
  ASSUME NEW evar \in HitEvars, NEW c \in Cookie, NEW done \in SUBSET RelationIds, NEW d,
         HitSoFar(evar, c, done, d), NEW i \in RelationIds, \A j \in done : j < i
  PROVE  HitSoFar(evar, c, done \cup {i}, HitStep(evar, d, i))
<1> DEFINE set == SetIds(c)
           T == Vars(d)!Target(i)
           new == HitStep(evar, d, i)
           before == ClearedBy(evar, set, done)
           after == ClearedBy(evar, set, done \cup {i})
<1>1. /\ d \in Cookie /\ set \subseteq d.known /\ d.known \subseteq set \cup done
      /\ \A r \in before : d.vals[r] = <<>>
      /\ \A r \in set \ before : d.vals[r] = c.vals[r] \/ (r \in done /\ Len(c.vals[r]) > 1 /\ d.vals[r] = <<evar[r]>>)
      /\ \A r \in RelationIds \ set :
           d.vals[r] = <<>> \/ (r \in done /\ d.vals[r] = <<evar[r]>> /\ \E q \in set : q > r)
  BY DEF HitSoFar
<1>2. set \in SUBSET RelationIds /\ \A r \in set : c.vals[r] # <<>>
  BY DEF SetIds
<1>3. RelationIds \subseteq Nat /\ RelationIds \subseteq Rids /\ i \in Nat /\ i \notin done
  BY RidFacts
<1>4. new \in Cookie
  BY <1>1, HitStepType
<1>5. StepDone(evar, d, i, T, new)
  BY <1>1, HitStepFacts
<1>6. T = {s \in d.known : s >= i /\ \A u \in d.known : u >= i => s <= u}
  BY DEF Vars!Target
<1> HIDE DEF set, T, new
<1>7. \A r : r \in T <=> r \in set /\ i <= r /\ \A q \in set : q < i \/ q >= r
  <2> DEFINE known == d.known
  <2>1. set \subseteq known /\ known \subseteq set \cup done
        /\ T = {s \in known : s >= i /\ \A u \in known : u >= i => s <= u}
    BY <1>1, <1>6
  <2> HIDE DEF known
  <2>2. FirstAt(T, set, i)
    BY <2>1, <1>2, TargetInHit
  <2> QED BY <2>2 DEF FirstAt
<1>8. before \subseteq set /\ after \subseteq set
  BY DEF ClearedBy
<1>9. \A r : r \in after <=> r \in before \/ (evar[i] = 0 /\ r \in T)
  BY <1>7 DEF ClearedBy, Clears
<1> HIDE DEF before, after
<1>10. ASSUME evar[i] = 0
       PROVE  /\ set \subseteq new.known /\ new.known \subseteq set \cup (done \cup {i})
              /\ \A r \in after : new.vals[r] = <<>>
              /\ \A r \in set \ after : new.vals[r] = c.vals[r]
                                          \/ (r \in done \cup {i} /\ Len(c.vals[r]) > 1 /\ new.vals[r] = <<evar[r]>>)
              /\ \A r \in RelationIds \ set :
                   new.vals[r] = <<>> \/ (r \in done \cup {i} /\ new.vals[r] = <<evar[r]>> /\ \E q \in set : q > r)
  <2>1. new.known = d.known /\ \A x \in RelationIds : new.vals[x] = IF x \in T THEN <<>> ELSE d.vals[x]
    BY <1>3, <1>5, <1>10 DEF StepDone
  <2>2. \A r \in after : new.vals[r] = <<>>
    BY <2>1, <1>1, <1>2, <1>8, <1>9
  <2>3. ASSUME NEW r \in set \ after PROVE new.vals[r] = d.vals[r] /\ r \in set \ before
    BY <2>1, <1>2, <1>9, <1>10
  <2>4. ASSUME NEW r \in RelationIds \ set PROVE new.vals[r] = d.vals[r]
    BY <2>1, <1>7
  <2> QED BY <2>1, <2>2, <2>3, <2>4, <1>1
<1>11. ASSUME evar[i] # 0
       PROVE  /\ set \subseteq new.known /\ new.known \subseteq set \cup (done \cup {i})
              /\ \A r \in after : new.vals[r] = <<>>
              /\ \A r \in set \ after : new.vals[r] = c.vals[r]
                                          \/ (r \in done \cup {i} /\ Len(c.vals[r]) > 1 /\ new.vals[r] = <<evar[r]>>)
              /\ \A r \in RelationIds \ set :
                   new.vals[r] = <<>> \/ (r \in done \cup {i} /\ new.vals[r] = <<evar[r]>> /\ \E q \in set : q > r)
  <2>1. after = before
    BY <1>9, <1>11
  <2>2. CASE new = d
    BY <2>1, <2>2, <1>1
  <2>3. CASE new # d
    <3>1. /\ \E t \in T : d.vals[t] # <<>>
          /\ new.known = d.known \cup {i}
          /\ \A x \in RelationIds \ {i} : new.vals[x] = d.vals[x]
          /\ new.vals[i] = IF Len(d.vals[i]) = 1 THEN d.vals[i] ELSE <<evar[i]>>
      BY <2>3, <1>3, <1>5, <1>11 DEF StepDone
    <3>2. PICK t \in T : d.vals[t] # <<>>
      BY <3>1
    <3>3. t \in set /\ i <= t /\ t \in Nat /\ \A q \in set : q < i \/ q >= t
      BY <1>2, <1>3, <1>7
    <3>4. CASE i \in set
      <4>1. t = i
        BY <3>3, <3>4, <1>3
      <4>2. i \in set \ before /\ d.vals[i] = c.vals[i] /\ d.vals[i] # <<>>
        BY <4>1, <3>2, <3>4, <1>1, <1>3
      <4>3. new.vals[i] = c.vals[i] \/ (Len(c.vals[i]) > 1 /\ new.vals[i] = <<evar[i]>>)
        <5>1. c.vals[i] \in Seq(Elements) /\ c.vals[i] # <<>>
          BY <4>2, <1>3, CookieFacts
        <5> DEFINE n == Len(c.vals[i])
        <5>2. n \in Nat /\ n # 0
          BY <5>1, LenProperties, EmptySeq
        <5> HIDE DEF n
        <5>3. n = 1 \/ n > 1
          BY <5>2
        <5> QED BY <5>3, <4>2, <3>1 DEF n
      <4>4. \A r \in before : new.vals[r] = <<>>
        BY <4>2, <3>1, <1>1, <1>2, <1>8
      <4>5. \A r \in set \ before : new.vals[r] = c.vals[r]
                                      \/ (r \in done \cup {i} /\ Len(c.vals[r]) > 1 /\ new.vals[r] = <<evar[r]>>)
        BY <4>3, <3>1, <1>1, <1>2
      <4>6. \A r \in RelationIds \ set : new.vals[r] = d.vals[r]
        BY <3>1, <3>4
      <4> QED BY <4>4, <4>5, <4>6, <3>1, <2>1, <1>1
    <3>5. CASE i \notin set
      <4>1. t > i
        BY <3>3, <3>5, <1>3
      <4>2. d.vals[i] = <<>>
        BY <3>5, <1>1, <1>3
      <4>3. new.vals[i] = <<evar[i]>>
        <5>1. Len(d.vals[i]) = 0
          BY <4>2, EmptySeq
        <5> QED BY <5>1, <3>1
      <4>4. \A r \in set : new.vals[r] = d.vals[r]
        BY <3>1, <3>5, <1>2
      <4>5. \A r \in RelationIds \ set :
              new.vals[r] = <<>> \/ (r \in done \cup {i} /\ new.vals[r] = <<evar[r]>> /\ \E q \in set : q > r)
        BY <4>1, <4>3, <3>1, <3>3, <1>1
      <4> QED BY <4>4, <4>5, <3>1, <2>1, <1>1, <1>8
    <3> QED BY <3>4, <3>5
  <2> QED BY <2>2, <2>3
<1>12. HitSoFar(evar, c, done \cup {i}, new)
  <2>1. \/ evar[i] = 0
        \/ evar[i] # 0
    OBVIOUS
  <2> QED BY <2>1, <1>4, <1>10, <1>11 DEF HitSoFar, set, after
<1> QED BY <1>12 DEF new

\* What a hit makes of a cookie whose known variables are all set.
LEMMA HitAtEnd ==
  ASSUME NEW evar \in HitEvars, NEW c \in Cookie, c.known \subseteq SetIds(c)
  PROVE  HitSoFar(evar, c, RelationIds, SetEvars(c, evar))
<1>1. HitInSteps(evar, Cookie, c)
  BY HitStepType, SetEvarsFold
<1>2. PICK n, order, R : /\ IsOrder(RelationIds, n, order) /\ R \in [0..n -> Cookie] /\ R[0] = c
                         /\ \A k \in 1..n : R[k] = HitStep(evar, R[k - 1], order[k])
                         /\ SetEvars(c, evar) = R[n]
  BY <1>1 DEF HitInSteps
<1>3. /\ n \in Nat /\ order \in [1..n -> RelationIds]
      /\ \A i, j \in 1..n : i < j => order[i] < order[j]
      /\ \A x \in RelationIds : \E i \in 1..n : order[i] = x
  BY <1>2 DEF IsOrder
<1> DEFINE done(k) == {order[j] : j \in 1..k}
           T == {k \in 0..n : HitSoFar(evar, c, done(k), R[k])}
<1>4. 0 \in T
  <2>1. done(0) = {}
    OBVIOUS
  <2>2. ClearedBy(evar, SetIds(c), {}) = {}
    BY DEF ClearedBy
  <2>3. /\ c.known \subseteq Rids /\ \A r \in Rids : c.vals[r] # <<>> => r \in c.known
        /\ \A r \in RelationIds \ SetIds(c) : c.vals[r] = <<>>
        /\ SetIds(c) \subseteq c.known
    BY CookieFacts, RidFacts DEF SetIds
  <2>4. HitSoFar(evar, c, {}, c)
    BY <2>2, <2>3 DEF HitSoFar
  <2>5. HitSoFar(evar, c, done(0), R[0])
    BY <2>1, <2>4, <1>2
  <2> QED BY <2>5, <1>3
<1>5. ASSUME NEW k \in 1..n, k - 1 \in T PROVE k \in T
  <2>1. k \in 0..n /\ k - 1 \in 0..n /\ R[k] = HitStep(evar, R[k - 1], order[k]) /\ order[k] \in RelationIds
    BY <1>2, <1>3
  <2>2. done(k - 1) \in SUBSET RelationIds
    <3>1. \A j \in 1..(k - 1) : j \in 1..n
      BY <1>3
    <3> QED BY <3>1, <1>3
  <2>3. \A j \in done(k - 1) : j < order[k]
    <3>1. \A j \in 1..(k - 1) : j \in 1..n /\ j < k
      BY <1>3
    <3> QED BY <3>1, <1>3
  <2>4. done(k) = done(k - 1) \cup {order[k]}
    <3>1. 1..k = 1..(k - 1) \cup {k}
      BY <1>3
    <3> QED BY <3>1
  <2>5. HitSoFar(evar, c, done(k - 1), R[k - 1])
    BY <1>5
  <2> HIDE DEF done, T
  <2>6. HitSoFar(evar, c, done(k - 1) \cup {order[k]}, HitStep(evar, R[k - 1], order[k]))
    BY <2>1, <2>2, <2>3, <2>5, HitGoesOn
  <2>7. HitSoFar(evar, c, done(k), R[k])
    BY <2>1, <2>4, <2>6
  <2> QED BY <2>1, <2>7 DEF T
<1>6. n \in T
  <2> HIDE DEF T
  <2>1. 0..n \subseteq T
    BY <1>3, <1>4, <1>5, UpTo
  <2> QED BY <2>1, <1>3
<1>7. done(n) = RelationIds
  BY <1>3
<1>8. HitSoFar(evar, c, done(n), R[n])
  BY <1>6
<1> QED BY <1>2, <1>7, <1>8

\* What has been loaded when a hit comes has no variable that is not set.
LEMMA KnownAtHit ==
  ASSUME Inv, NEW evar, Hit(evar)
  PROVE  loaded.known \subseteq SetIds(loaded)
<1>1. loads = 1 /\ whole /\ ~hit /\ saved \in Cookie
  BY CookiesAssumption DEF Hit, Inv, TypeOK
<1>2. CASE ~Readable
  <2>1. loaded = Blank
    BY <1>1, <1>2 DEF Inv, LoadedFromBuffer
  <2> QED BY <2>1 DEF Blank
<1>3. CASE Readable
  <2> DEFINE record == RecordBy(saved, writer)
             given == GivenBy(saved, writer)
  <2>1. IsFilled(buffer, record, Blank, given, saved.purchaseIds, Written_vals(saved), loaded, whole)
    BY <1>1, <1>3 DEF Inv, LoadedFromBuffer, FilledFromBuffer
  <2> HIDE DEF record, given
  <2>2. HasOf(given, saved, loaded, whole)
    BY <1>1, <2>1, FilledFirst
  <2>3. \A x \in Rids : loaded.vals[x] = Written_vals(saved)[x]
    BY <1>1, <2>2 DEF HasOf
  <2>4. \A x \in loaded.known : loaded.vals[x] # <<>>
    BY <2>1 DEF IsFilled, Blank
  <2>5. loaded.known \subseteq Rids
    <3>1. loaded \in Cookie
      BY DEF Inv, TypeOK
    <3> QED BY <3>1, CookieFacts
  <2>6. ASSUME NEW x \in loaded.known PROVE x \in RelationIds
    <3>1. Written_vals(saved)[x] # <<>>
      BY <2>3, <2>4, <2>5
    <3> QED BY <3>1, <2>5 DEF Written_vals
  <2> QED BY <2>4, <2>6 DEF SetIds
<1> QED BY <1>2, <1>3

\* What EvarsOfAHit says of one hit.
AfterHit(evar) ==
  LET set == SetIds(loaded)
      cleared == {r \in set : \E i \in RelationIds :
                    evar[i] = 0 /\ i <= r /\ \A q \in set : q < i \/ q >= r}
      old == loaded.vals
      new == loaded'.vals
  IN \A r \in RelationIds :
       CASE r \in cleared -> new[r] = <<>>
         [] r \in set \ cleared -> new[r] = old[r] \/ (Len(old[r]) > 1 /\ new[r] = <<evar[r]>>)
         [] r \notin set -> new[r] = <<>> \/ (new[r] = <<evar[r]>> /\ \E q \in set : q > r)

\* A hit clears the first variable at or above each evar that it does not set,
\* and of the others it changes only those that have several elements; an evar
\* that the record does not have is added only below a variable
\* (testharness.cpp:819-846, FindRelationId, ALLOC_TYPE_FIRST).
THEOREM EvarsHold == Spec => EvarsOfAHit
<1>1. ASSUME Inv, NEW evar \in HitEvars, Hit(evar)
      PROVE  AfterHit(evar)
  <2> DEFINE set == SetIds(loaded)
             cleared == ClearedBy(evar, set, RelationIds)
             old == loaded.vals
             new == loaded'.vals
  <2>1. HitSoFar(evar, loaded, RelationIds, loaded')
    <3>1. loaded \in Cookie /\ loaded' = SetEvars(loaded, evar)
      BY <1>1 DEF Inv, TypeOK, Hit
    <3> QED BY <3>1, <1>1, KnownAtHit, HitAtEnd
  <2>2. /\ \A r \in cleared : new[r] = <<>>
        /\ \A r \in set \ cleared : new[r] = old[r] \/ (Len(old[r]) > 1 /\ new[r] = <<evar[r]>>)
        /\ \A r \in RelationIds \ set : new[r] = <<>> \/ (new[r] = <<evar[r]>> /\ \E q \in set : q > r)
    BY <2>1 DEF HitSoFar
  <2>3. /\ cleared = {r \in set : \E i \in RelationIds :
                        evar[i] = 0 /\ i <= r /\ \A q \in set : q < i \/ q >= r}
        /\ cleared \subseteq set
    BY DEF ClearedBy, Clears
  <2> HIDE DEF cleared, set, old, new
  <2>4. ASSUME NEW r \in RelationIds
        PROVE  CASE r \in cleared -> new[r] = <<>>
                 [] r \in set \ cleared -> new[r] = old[r] \/ (Len(old[r]) > 1 /\ new[r] = <<evar[r]>>)
                 [] r \notin set -> new[r] = <<>> \/ (new[r] = <<evar[r]>> /\ \E q \in set : q > r)
    <3>1. CASE r \in cleared
      BY <3>1, <2>2, <2>3
    <3>2. CASE r \in set \ cleared
      BY <3>2, <2>2, <2>3
    <3>3. CASE r \notin set
      BY <3>3, <2>2, <2>3
    <3> QED BY <3>1, <3>2, <3>3
  <2> QED BY <2>3, <2>4 DEF set, old, new, AfterHit
<1>2. Inv /\ [Next]_vars => [\A evar \in HitEvars : Hit(evar) => AfterHit(evar)]_vars
  BY <1>1
<1> QED BY <1>2, InvHolds, PTL DEF Spec, EvarsOfAHit, AfterHit
=============================================================================
