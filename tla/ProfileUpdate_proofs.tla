------------------------- MODULE ProfileUpdate_proofs -------------------------
(***************************************************************************)
(* Proofs about ProfileUpdate for any number of threads, hits, keys and    *)
(* failures: a record is what its hits make of it, a hit that was worked   *)
(* through and is not in its record has one of the causes the property     *)
(* lists, and one worker alone implements ProfileLog.                      *)
(***************************************************************************)
EXTENDS ProfileUpdate, FoldLemmas, SequenceTheorems

----------------------------------------------------------------------------
(* Lists of purchase ids *)

\* A list that SetPurchaseId can have made.
IdList == {ids \in Seq(PurchaseIds) : NoDuplicates(ids) /\ Len(ids) <= NUM_SAVED_PURCHASE_IDS}

LEMMA SetPurchaseIdFacts ==
  ASSUME NEW ids \in IdList, NEW id \in PurchaseIds, NEW new, new = SetPurchaseId(ids, id)
  PROVE  /\ new \in IdList /\ Len(new) >= 1 /\ new[Len(new)] = id
         /\ \/ Grown(ids, id, new)
            \/ \E gap \in 1..Len(ids) : Moved(ids, id, new, gap, NUM_SAVED_PURCHASE_IDS)
<1>1. new = LatestLast(ids, id, NUM_SAVED_PURCHASE_IDS)
  BY DEF SetPurchaseId, LatestLast
<1>2. IdList = ListsOf(PurchaseIds, NUM_SAVED_PURCHASE_IDS)
  BY DEF IdList, ListsOf
<1> QED BY <1>1, <1>2, BoundsAssumption, LatestLastFacts

\* Setting the ids of a list one after the other gives the list.
LEMMA FoldOfIds ==
  ASSUME NEW ids \in IdList
  PROVE  FoldLeft(SetPurchaseId, <<>>, ids) = ids
<1> DEFINE L == Len(ids)
           V == IdList
           step == [p \in V \X (1..L) |-> SetPurchaseId(p[1], ids[p[2]])]
           Fold(f) == [s \in SUBSET (1..L) |->
                         IF s = {} THEN <<>> ELSE SetPurchaseId(f[s \ {Max(s)}], ids[Max(s)])]
<1>0. /\ ids \in Seq(PurchaseIds) /\ NoDuplicates(ids) /\ L <= NUM_SAVED_PURCHASE_IDS /\ L \in Nat
      /\ \A n \in 1..L : ids[n] \in PurchaseIds
  BY LenProperties, ElementOfSeq DEF IdList
<1>1. <<>> \in V
  <2>1. <<>> \in Seq(PurchaseIds) /\ Len(<<>>) = 0
    BY EmptySeq
  <2> QED BY <2>1, BoundsAssumption DEF IdList, NoDuplicates
<1>2. step \in [V \X (1..L) -> V]
  <2> SUFFICES ASSUME NEW v \in V, NEW n \in 1..L PROVE SetPurchaseId(v, ids[n]) \in V
    OBVIOUS
  <2> QED BY <1>0, SetPurchaseIdFacts
<1>3. PICK g \in [SUBSET (1..L) -> V] : IsFold(g, <<>>, L, step)
  <2>1. L \in Nat
    BY <1>0
  <2> HIDE DEF step, V, L, Fold
  <2> QED BY <2>1, <1>1, <1>2, FoldExists
<1>4. \A v \in V, n \in 1..L : step[<<v, n>>] = SetPurchaseId(v, ids[n])
  OBVIOUS
<1> HIDE DEF step
<1>5. g = Fold(g)
  <2> SUFFICES ASSUME NEW s \in SUBSET (1..L), s # {}
               PROVE  step[<<g[s \ {Max(s)}], Max(s)>>] = SetPurchaseId(g[s \ {Max(s)}], ids[Max(s)])
    BY <1>3 DEF IsFold
  <2>1. Max(s) \in 1..L /\ s \ {Max(s)} \in SUBSET (1..L)
    BY <1>0, MaxFacts
  <2> QED BY <2>1, <1>3, <1>4
<1> DEFINE h == CHOOSE f : f = Fold(f)
<1>6. h = Fold(h)
  <2>1. \E f : f = Fold(f)
    BY <1>5
  <2> HIDE DEF Fold
  <2> QED BY <2>1
<1>7. FoldLeft(SetPurchaseId, <<>>, ids) = h[1..L]
  <2>1. DOMAIN ids = 1..L
    BY <1>0, LenProperties
  <2>2. FoldLeft(SetPurchaseId, <<>>, ids) =
          (CHOOSE f : f = [s \in SUBSET DOMAIN ids |->
                             IF s = {} THEN <<>> ELSE SetPurchaseId(f[s \ {Max(s)}], ids[Max(s)])])[DOMAIN ids]
    BY Zenon DEF FoldLeft, MapThenFoldSet
  <2> QED BY <2>1, <2>2
<1> HIDE DEF h
<1>8. IsStepwise(h, V, <<>>, L, step)
  <2>1. h[{}] = <<>>
    BY <1>6
  <2>2. ASSUME NEW s \in SUBSET (1..L), s # {}, h[s \ {Max(s)}] \in V
        PROVE  h[s] = step[<<h[s \ {Max(s)}], Max(s)>>]
    <3>1. Max(s) \in 1..L
      BY <1>0, <2>2, MaxFacts
    <3>2. h[s] = SetPurchaseId(h[s \ {Max(s)}], ids[Max(s)])
      BY <1>6, <2>2
    <3> QED BY <3>1, <3>2, <2>2, <1>4
  <2>3. L \in Nat
    BY <1>0
  <2>4. IsFoldIn(h, V, <<>>, L, step)
    BY <2>1, <2>2 DEF IsFoldIn
  <2> HIDE DEF V, L, Fold
  <2> QED BY <2>3, <2>4, <1>1, <1>2, FoldSteps
<1> DEFINE S == {n \in 0..L : h[1..n] = SubSeq(ids, 1, n)}
<1>9. 0 \in S
  <2>1. SubSeq(ids, 1, 0) = <<>>
    BY SubSeqEmpty
  <2>2. h[1..0] = SubSeq(ids, 1, 0) /\ 0 \in 0..L
    BY <2>1, <1>0, <1>8 DEF IsStepwise
  <2> QED BY <2>2
<1>10. ASSUME NEW n \in 1..L, n - 1 \in S PROVE n \in S
  <2> DEFINE front == SubSeq(ids, 1, n - 1)
  <2>1. h[1..(n - 1)] = front /\ n - 1 \in 0..L
    BY <1>10
  <2>2. front \in V
    BY <2>1, <1>8 DEF IsStepwise
  <2>3. h[1..n] = SetPurchaseId(front, ids[n])
    BY <2>1, <2>2, <1>8, <1>4 DEF IsStepwise
  <2>4. /\ front \in Seq(PurchaseIds) /\ Len(front) = n - 1
        /\ \A i \in 1..(n - 1) : front[i] = ids[i]
    <3>1. 1 \in Int /\ n - 1 \in Int /\ \A i \in 1..(n - 1) : ids[i] \in PurchaseIds
      BY <1>0
    <3>2. /\ front \in Seq(PurchaseIds) /\ Len(front) = IF 1 <= n - 1 THEN n - 1 - 1 + 1 ELSE 0
          /\ \A i \in 1..(n - 1 - 1 + 1) : front[i] = ids[1 + i - 1]
      BY <3>1, SubSeqProperties
    <3> QED BY <3>2
  <2> HIDE DEF front
  <2>5. ~Contains(front, ids[n])
    BY <1>0, <2>4 DEF Contains, NoDuplicates
  <2>6. Len(front) < NUM_SAVED_PURCHASE_IDS
    BY <1>0, <2>4, BoundsAssumption
  <2>7. h[1..n] = Append(front, ids[n])
    BY <2>3, <2>5, <2>6, BoundsAssumption DEF SetPurchaseId
  <2>8. Append(front, ids[n]) = front \o <<ids[n]>>
    BY <2>4, <1>0, AppendIsConcat
  <2>9. front \o <<ids[n]>> = SubSeq(ids, 1, n)
    <3>1. 1 \in 1..Len(ids) /\ n \in 1..Len(ids)
      BY <1>0
    <3> QED BY <3>1, <1>0, SubSeqRecursiveSecond DEF front
  <2> QED BY <2>7, <2>8, <2>9, <1>0
<1>11. 0..L \subseteq S
  <2> HIDE DEF S, L
  <2> QED BY <1>0, <1>9, <1>10, UpTo
<1>12. SubSeq(ids, 1, L) = ids
  BY <1>0, SubSeqFull
<1> QED BY SMTT(40), <1>0, <1>7, <1>11, <1>12

----------------------------------------------------------------------------
(* What the hits of a log make of a cookie.  h is the replay.              *)

IdOf(h, log, n) == h[log[n]].purchaseId
PurchasesIn(h, log) == {n \in 1..Len(log) : IdOf(h, log, n) # NoPurchase}
LastUsesIn(h, log) ==
  {n \in PurchasesIn(h, log) :
     \A m \in PurchasesIn(h, log) : IdOf(h, log, m) = IdOf(h, log, n) => m <= n}

\* The ids are those of the places pos of the log, in their order: each the
\* last use of its id, and the last ones there are.
IdsFollow(h, log, ids, pos) ==
  /\ pos \in [1..Len(ids) -> LastUsesIn(h, log)]
  /\ \A p, q \in 1..Len(ids) : p < q => pos[p] < pos[q]
  /\ \A p \in 1..Len(ids) : ids[p] = IdOf(h, log, pos[p])
  /\ \A n \in LastUsesIn(h, log) :
       \/ \E p \in 1..Len(ids) : n = pos[p]
       \/ Len(ids) = NUM_SAVED_PURCHASE_IDS /\ \A p \in 1..Len(ids) : n < pos[p]

\* The log of a cookie has one more hit.
LEMMA OneMoreHit ==
  ASSUME NEW h \in Seq(Hit), NEW log \in Seq(1..Len(h)), NEW i \in 1..Len(h)
  PROVE  LET N == Len(log) + 1
             more == Append(log, i)
         IN /\ more \in Seq(1..Len(h)) /\ Len(more) = N /\ more[N] = i
            /\ \A n \in 1..Len(log) : more[n] = log[n]
            /\ \A n \in 1..Len(log) : IdOf(h, more, n) = IdOf(h, log, n)
            /\ IdOf(h, more, N) = h[i].purchaseId
            /\ N \in Nat /\ N \notin 1..Len(log) /\ 1..N = 1..Len(log) \cup {N}
<1> DEFINE more == Append(log, i)
<1>1. /\ more \in Seq(1..Len(h)) /\ Len(more) = Len(log) + 1 /\ more[Len(log) + 1] = i
      /\ \A n \in 1..Len(log) : more[n] = log[n]
  BY AppendProperties
<1>2. Len(log) \in Nat
  BY LenProperties
<1> HIDE DEF more
<1>3. /\ \A n \in 1..Len(log) : IdOf(h, more, n) = IdOf(h, log, n)
      /\ IdOf(h, more, Len(log) + 1) = h[i].purchaseId
  BY <1>1 DEF IdOf
<1>4. /\ Len(log) + 1 \in Nat /\ Len(log) + 1 \notin 1..Len(log)
      /\ 1..(Len(log) + 1) = 1..Len(log) \cup {Len(log) + 1}
  BY <1>2
<1> QED BY <1>1, <1>3, <1>4 DEF more

\* A hit without a purchase changes neither the purchases nor their order;
\* one with a purchase is the last use of its id.
PurchasesStep(h, log, i, more, N) ==
  /\ h[i].purchaseId = NoPurchase =>
       /\ PurchasesIn(h, more) = PurchasesIn(h, log)
       /\ LastUsesIn(h, more) = LastUsesIn(h, log)
  /\ h[i].purchaseId # NoPurchase =>
       /\ PurchasesIn(h, more) = PurchasesIn(h, log) \cup {N}
       /\ LastUsesIn(h, more) =
            {n \in LastUsesIn(h, log) : IdOf(h, log, n) # h[i].purchaseId} \cup {N}

LEMMA OneMorePurchase ==
  ASSUME NEW h \in Seq(Hit), NEW log \in Seq(1..Len(h)), NEW i \in 1..Len(h)
  PROVE  PurchasesStep(h, log, i, Append(log, i), Len(log) + 1)
<1> SUFFICES ASSUME NEW more, more = Append(log, i), NEW N, N = Len(log) + 1
             PROVE  PurchasesStep(h, log, i, more, N)
  OBVIOUS
<1>1. /\ Len(more) = N /\ N \in Nat /\ N \notin 1..Len(log) /\ 1..N = 1..Len(log) \cup {N}
      /\ \A n \in 1..Len(log) : IdOf(h, more, n) = IdOf(h, log, n)
      /\ IdOf(h, more, N) = h[i].purchaseId
  BY OneMoreHit
<1>2. \A n \in 1..Len(log) : n \in Nat /\ n < N
  <2>1. Len(log) \in Nat
    BY LenProperties
  <2> QED BY <2>1
<1> DEFINE P == PurchasesIn(h, log)
           Q == PurchasesIn(h, more)
           x == h[i].purchaseId
<1>3. P \subseteq 1..Len(log)
  BY DEF PurchasesIn
<1>4. CASE x = NoPurchase
  <2>1. Q = P
    BY <1>1, <1>4 DEF PurchasesIn
  <2>2. LastUsesIn(h, more) = LastUsesIn(h, log)
    <3> HIDE DEF P, Q
    <3> QED BY <2>1, <1>1, <1>3 DEF LastUsesIn, P, Q
  <2> QED BY <2>1, <2>2, <1>4 DEF PurchasesStep
<1>5. CASE x # NoPurchase
  <2>1. Q = P \cup {N}
    BY <1>1, <1>5 DEF PurchasesIn
  <2> DEFINE U == {n \in LastUsesIn(h, log) : IdOf(h, log, n) # x} \cup {N}
  <2>2. ASSUME NEW n \in LastUsesIn(h, more) PROVE n \in U
    <3>1. n \in P \cup {N} /\ \A m \in P \cup {N} : IdOf(h, more, m) = IdOf(h, more, n) => m <= n
      BY <2>1, <2>2 DEF LastUsesIn
    <3>2. CASE n \in P
      <4>1. IdOf(h, more, N) # IdOf(h, more, n)
        BY <3>1, <3>2, <1>1, <1>2, <1>3
      <4>2. IdOf(h, log, n) # x /\ \A m \in P : IdOf(h, log, m) = IdOf(h, log, n) => m <= n
        BY <4>1, <3>1, <3>2, <1>1, <1>3
      <4> QED BY <4>2, <3>2 DEF LastUsesIn
    <3> QED BY <3>1, <3>2
  <2>3. ASSUME NEW n \in U PROVE n \in LastUsesIn(h, more)
    <3>1. CASE n = N
      <4>1. \A m \in P \cup {N} : m <= N
        BY <1>1, <1>2, <1>3
      <4> QED BY <2>1, <3>1, <4>1 DEF LastUsesIn
    <3>2. CASE n # N
      <4>1. n \in P /\ IdOf(h, log, n) # x /\ \A m \in P : IdOf(h, log, m) = IdOf(h, log, n) => m <= n
        BY <2>3, <3>2 DEF LastUsesIn
      <4>2. \A m \in P \cup {N} : IdOf(h, more, m) = IdOf(h, more, n) => m <= n
        BY <4>1, <1>1, <1>3
      <4> QED BY <2>1, <4>1, <4>2 DEF LastUsesIn
    <3> QED BY <3>1, <3>2
  <2>4. LastUsesIn(h, more) = U
    BY <2>2, <2>3
  <2> QED BY <2>1, <2>4, <1>5 DEF PurchasesStep
<1> QED BY <1>4, <1>5
\* With one more hit, the ids still follow.
LEMMA IdsStillFollow ==
  ASSUME NEW h \in Seq(Hit), NEW log \in Seq(1..Len(h)), NEW i \in 1..Len(h),
         NEW more, more = Append(log, i), NEW ids \in IdList, NEW pos,
         IdsFollow(h, log, ids, pos),
         NEW new, new = IF h[i].purchaseId # NoPurchase
                        THEN SetPurchaseId(ids, h[i].purchaseId) ELSE ids
  PROVE  \E place : IdsFollow(h, more, new, place)
<1> DEFINE x == h[i].purchaseId
           K == Len(ids)
<1>1. PICK N : N = Len(log) + 1
  OBVIOUS
<1>2. /\ N \in Nat /\ \A n \in 1..Len(log) : n \in Nat /\ n < N /\ IdOf(h, more, n) = IdOf(h, log, n)
      /\ IdOf(h, more, N) = x
  <2>1. Len(log) \in Nat
    BY LenProperties
  <2> QED BY <2>1, <1>1, OneMoreHit
<1>3. /\ pos \in [1..K -> LastUsesIn(h, log)]
      /\ \A p, q \in 1..K : p < q => pos[p] < pos[q]
      /\ \A p \in 1..K : ids[p] = IdOf(h, log, pos[p])
      /\ \A n \in LastUsesIn(h, log) :
           \/ \E p \in 1..K : n = pos[p]
           \/ K = NUM_SAVED_PURCHASE_IDS /\ \A p \in 1..K : n < pos[p]
  BY DEF IdsFollow
<1>4. /\ LastUsesIn(h, log) \subseteq 1..Len(log)
      /\ K \in Nat /\ NoDuplicates(ids)
  BY LenProperties DEF LastUsesIn, PurchasesIn, IdList
<1>7. PurchasesStep(h, log, i, more, N)
  BY <1>1, OneMorePurchase
<1>5. CASE x = NoPurchase
  <2>1. LastUsesIn(h, more) = LastUsesIn(h, log) /\ new = ids
    BY <1>5, <1>7 DEF PurchasesStep
  <2>2. \A p \in 1..K : IdOf(h, more, pos[p]) = IdOf(h, log, pos[p])
    BY <1>2, <1>3, <1>4
  <2> QED BY <2>1, <2>2, <1>3 DEF IdsFollow
<1>6. CASE x # NoPurchase
  <2>1. /\ LastUsesIn(h, more) = {n \in LastUsesIn(h, log) : IdOf(h, log, n) # x} \cup {N}
        /\ new = SetPurchaseId(ids, x) /\ x \in PurchaseIds
    <3>1. h[i] \in Hit
      BY ElementOfSeq
    <3>2. x \in PurchaseIds
      BY <3>1, <1>6 DEF Hit
    <3> QED BY <1>6, <1>7, <3>2 DEF PurchasesStep
  <2>2. /\ new \in IdList /\ Len(new) >= 1 /\ new[Len(new)] = x
        /\ Grown(ids, x, new) \/ \E gap \in 1..K : Moved(ids, x, new, gap, NUM_SAVED_PURCHASE_IDS)
    BY <2>1, SetPurchaseIdFacts
  <2>3. \A p \in 1..K : /\ pos[p] \in LastUsesIn(h, log) /\ pos[p] \in Nat /\ pos[p] < N
                        /\ IdOf(h, more, pos[p]) = ids[p]
                        /\ ids[p] # x => pos[p] \in LastUsesIn(h, more)
    BY <1>2, <1>3, <1>4, <2>1
  <2>4. N \in LastUsesIn(h, more)
    BY <2>1
  <2>5. Len(new) <= NUM_SAVED_PURCHASE_IDS
    BY <2>2 DEF IdList
  <2>6. CASE Grown(ids, x, new)
    <3> DEFINE place == [p \in 1..(K + 1) |-> IF p = K + 1 THEN N ELSE pos[p]]
    <3>1. Len(new) = K + 1 /\ (\A p \in 1..K : new[p] = ids[p]) /\ \A p \in 1..K : ids[p] # x
      BY <2>6 DEF Grown, Contains
    <3>2. \A p \in 1..(K + 1) : p = K + 1 \/ p \in 1..K
      BY <1>4
    <3>3. /\ place[K + 1] = N /\ \A p \in 1..K : place[p] = pos[p]
      BY <1>4
    <3>4. place \in [1..(K + 1) -> LastUsesIn(h, more)]
      BY <3>1, <3>2, <2>3, <2>4
    <3> HIDE DEF place
    <3>5. ASSUME NEW p \in 1..(K + 1), NEW q \in 1..(K + 1), p < q PROVE place[p] < place[q]
      <4>1. p \in 1..K
        BY <3>5, <1>4
      <4> QED BY <4>1, <3>5, <3>2, <3>3, <1>3, <2>3
    <3>6. \A p \in 1..(K + 1) : new[p] = IdOf(h, more, place[p])
      BY <3>1, <3>2, <3>3, <2>2, <2>3, <1>2
    <3>7. ASSUME NEW n \in LastUsesIn(h, more) PROVE \E p \in 1..(K + 1) : n = place[p]
      <4>1. CASE n = N
        BY <4>1, <3>3, <1>4
      <4>2. CASE n # N
        <5>1. n \in LastUsesIn(h, log)
          BY <4>2, <2>1
        <5>2. K # NUM_SAVED_PURCHASE_IDS
          BY <3>1, <2>5, <1>4, BoundsAssumption
        <5>3. PICK p \in 1..K : n = pos[p]
          BY <5>1, <5>2, <1>3
        <5>4. p \in 1..(K + 1) /\ n = place[p]
          BY <5>3, <3>3, <1>4
        <5> QED BY <5>4
      <4> QED BY <4>1, <4>2
    <3>8. /\ place \in [1..Len(new) -> LastUsesIn(h, more)]
          /\ \A p, q \in 1..Len(new) : p < q => place[p] < place[q]
      BY <3>1, <3>4, <3>5
    <3>9. \A p \in 1..Len(new) : new[p] = IdOf(h, more, place[p])
      BY <3>1, <3>6
    <3>10. \A n \in LastUsesIn(h, more) : \E p \in 1..Len(new) : n = place[p]
      BY <3>1, <3>7
    <3>11. IdsFollow(h, more, new, place)
      BY <3>8, <3>9, <3>10, Zenon DEF IdsFollow
    <3> QED BY <3>11
  <2>7. CASE \E gap \in 1..K : Moved(ids, x, new, gap, NUM_SAVED_PURCHASE_IDS)
    <3>0. PICK gap \in 1..K : Moved(ids, x, new, gap, NUM_SAVED_PURCHASE_IDS)
      BY <2>7
    <3> DEFINE From(p) == IF p < gap THEN p ELSE p + 1
               place == [p \in 1..K |-> IF p = K THEN N ELSE pos[From(p)]]
    <3>1. /\ Len(new) = K
          /\ \A p \in 1..(K - 1) : new[p] = ids[From(p)]
          /\ \A p \in 1..K : p # gap => ids[p] # x
          /\ ids[gap] # x => gap = 1 /\ K = NUM_SAVED_PURCHASE_IDS
      <4>1. /\ Len(new) = K
            /\ \A p \in 1..(K - 1) : new[p] = IF p < gap THEN ids[p] ELSE ids[p + 1]
            /\ ids[gap] = x \/ (~Contains(ids, x) /\ gap = 1 /\ K = NUM_SAVED_PURCHASE_IDS)
        BY <3>0 DEF Moved
      <4>2. \A p \in 1..K : p # gap => ids[p] # x
        BY <4>1, <1>4 DEF Contains, NoDuplicates
      <4> QED BY <4>1, <4>2
    <3>2. \A p \in 1..K : p = K \/ p \in 1..(K - 1)
      BY <1>4
    <3>3. \A p \in 1..(K - 1) : From(p) \in 1..K /\ From(p) # gap
      BY <1>4
    <3>4. \A p, q \in 1..(K - 1) : p < q => From(p) < From(q)
      BY <1>4
    <3>5. \A p \in 1..K : p # gap => \E q \in 1..(K - 1) : From(q) = p
      <4> SUFFICES ASSUME NEW p \in 1..K, p # gap PROVE \E q \in 1..(K - 1) : From(q) = p
        OBVIOUS
      <4>1. CASE p < gap
        <5>1. p \in 1..(K - 1) /\ From(p) = p
          BY <4>1, <1>4
        <5> QED BY <5>1
      <4>2. CASE p > gap
        <5>1. p - 1 \in 1..(K - 1) /\ From(p - 1) = p
          BY <4>2, <1>4
        <5> QED BY <5>1
      <4>3. p < gap \/ p > gap
        BY <1>4
      <4> QED BY <4>1, <4>2, <4>3
    <3>6. place[K] = N /\ K \in 1..K /\ \A p \in 1..(K - 1) : place[p] = pos[From(p)] /\ p \in 1..K
      BY <1>4
    <3>7. place = [p \in 1..K |-> place[p]]
      OBVIOUS
    <3> HIDE DEF From, place
    <3>8. \A p \in 1..K : place[p] \in LastUsesIn(h, more)
      BY <3>1, <3>2, <3>3, <3>6, <2>3, <2>4
    <3>9. place \in [1..K -> LastUsesIn(h, more)]
      BY <3>7, <3>8
    <3>10. ASSUME NEW p \in 1..K, NEW q \in 1..K, p < q PROVE place[p] < place[q]
      <4>1. p \in 1..(K - 1)
        BY <3>10, <1>4
      <4> QED BY <4>1, <3>10, <3>2, <3>3, <3>4, <3>6, <1>3, <2>3
    <3>11. ASSUME NEW p \in 1..K PROVE new[p] = IdOf(h, more, place[p])
      <4>1. CASE p = K
        BY <4>1, <3>1, <3>6, <2>2, <1>2
      <4>2. CASE p \in 1..(K - 1)
        <5>1. From(p) \in 1..K /\ new[p] = ids[From(p)] /\ place[p] = pos[From(p)]
          BY <4>2, <3>1, <3>3, <3>6
        <5> QED BY <5>1, <2>3
      <4> QED BY <4>1, <4>2, <3>2
    <3>12. ASSUME NEW n \in LastUsesIn(h, more)
           PROVE  \/ \E p \in 1..K : n = place[p]
                  \/ K = NUM_SAVED_PURCHASE_IDS /\ \A p \in 1..K : n < place[p]
      <4>1. CASE n = N
        BY <4>1, <3>6
      <4>2. CASE n # N
        <5>1. n \in LastUsesIn(h, log) /\ IdOf(h, log, n) # x /\ n \in Nat /\ n < N
          BY <4>2, <2>1, <1>2, <1>4
        <5>2. CASE \E p \in 1..K : n = pos[p]
          <6>1. PICK p \in 1..K : n = pos[p]
            BY <5>2
          <6>2. CASE p # gap
            <7>1. PICK q \in 1..(K - 1) : From(q) = p
              BY <6>2, <3>5
            <7> QED BY <7>1, <6>1, <3>6
          <6>3. CASE p = gap
            <7>1. ids[gap] # x
              BY <6>1, <6>3, <5>1, <1>3
            <7>2. gap = 1 /\ K = NUM_SAVED_PURCHASE_IDS
              BY <7>1, <3>1
            <7>3. ASSUME NEW r \in 1..K PROVE n < place[r]
              <8>1. CASE r = K
                BY <8>1, <5>1, <3>6
              <8>2. CASE r \in 1..(K - 1)
                <9>1. From(r) \in 1..K /\ p < From(r)
                  BY <8>2, <7>2, <6>3, <3>3, <1>4
                <9> QED BY <9>1, <8>2, <6>1, <3>6, <1>3
              <8> QED BY <8>1, <8>2, <3>2
            <7> QED BY <7>2, <7>3
          <6> QED BY <6>2, <6>3
        <5>3. CASE K = NUM_SAVED_PURCHASE_IDS /\ \A p \in 1..K : n < pos[p]
          BY <5>3, <5>1, <3>2, <3>3, <3>6
        <5> QED BY <5>1, <5>2, <5>3, <1>3
      <4> QED BY <4>1, <4>2
    <3> QED BY ZenonT(40), <3>1, <3>9, <3>10, <3>11, <3>12 DEF IdsFollow
  <2> QED BY <2>2, <2>6, <2>7
<1> QED BY <1>5, <1>6

\* The number of purchases and the ids are what the hits of the log make.
Counts(h, c) ==
  /\ c \in Cookie /\ c.purchaseIds \in IdList
  /\ c.log \in Seq(1..Len(h)) /\ NoDuplicates(c.log)
  /\ c.lastPurchaseNum = Cardinality(PurchasesIn(h, c.log))
  /\ \E pos : IdsFollow(h, c.log, c.purchaseIds, pos)

\* So are the times, and the log is not empty.
Follows(h, c) ==
  /\ Counts(h, c)
  /\ Len(c.log) >= 1
  /\ c.firstHit = h[c.log[1]].time
  /\ c.lastHit = h[c.log[Len(c.log)]].time

LEMMA BlankCounts ==
  ASSUME NEW h \in Seq(Hit)
  PROVE  Counts(h, Blank) /\ Blank.log = <<>>
<1>1. <<>> \in Seq(PurchaseIds) /\ <<>> \in Seq(Nat) /\ <<>> \in Seq(1..Len(h)) /\ Len(<<>>) = 0
  BY EmptySeq
<1>2. NoDuplicates(<<>>) /\ PurchasesIn(h, <<>>) = {} /\ LastUsesIn(h, <<>>) = {}
  BY <1>1 DEF NoDuplicates, PurchasesIn, LastUsesIn
<1>3. <<>> \in IdList
  BY <1>1, <1>2, BoundsAssumption DEF IdList
<1>4. Cardinality(PurchasesIn(h, <<>>)) = 0
  BY <1>2, FS_EmptySet
<1>5. IdsFollow(h, <<>>, <<>>, [p \in 1..0 |-> 0])
  BY <1>1, <1>2 DEF IdsFollow
<1>6. /\ Blank \in Cookie /\ Blank.log = <<>> /\ Blank.purchaseIds = <<>>
      /\ Blank.lastPurchaseNum = 0
  BY <1>1 DEF Blank, Cookie
<1> HIDE DEF Blank
<1>7. \E pos : IdsFollow(h, Blank.log, Blank.purchaseIds, pos)
  BY <1>5, <1>6
<1> QED BY <1>1, <1>2, <1>3, <1>4, <1>6, <1>7 DEF Counts

\* A log without duplicates has none after a hit that is not in it.
LEMMA StillNoDuplicates ==
  ASSUME NEW S, NEW log \in Seq(S), NoDuplicates(log), NEW i \in S,
         \A n \in 1..Len(log) : log[n] # i
  PROVE  NoDuplicates(Append(log, i))
<1> DEFINE more == Append(log, i)
<1>1. Len(log) \in Nat
  BY LenProperties
<1>2. Len(more) = Len(log) + 1 /\ more[Len(log) + 1] = i /\ \A n \in 1..Len(log) : more[n] = log[n]
  BY AppendProperties
<1> HIDE DEF more
<1> SUFFICES ASSUME NEW p \in 1..(Len(log) + 1), NEW q \in 1..(Len(log) + 1),
                    more[p] = more[q], p # q
             PROVE  FALSE
  BY <1>2 DEF NoDuplicates, more
<1>3. (p \in 1..Len(log) \/ p = Len(log) + 1) /\ (q \in 1..Len(log) \/ q = Len(log) + 1)
  BY <1>1
<1> QED BY <1>2, <1>3 DEF NoDuplicates

\* The setters keep a cookie that follows its hits one that does, and so do
\* saving and loading.
LEMMA UpdatedFollows ==
  ASSUME hits \in Seq(Hit), NEW c, NEW isNew \in BOOLEAN, NEW i \in 1..Len(hits),
         \A n \in 1..Len(c.log) : c.log[n] # i,
         IF isNew THEN c = Blank ELSE Follows(hits, c)
  PROVE  Follows(hits, Updated(c, i, isNew)) /\ Updated(c, i, isNew).log = Append(c.log, i)
<1> DEFINE N == Len(c.log) + 1
           more == Append(c.log, i)
           hit == hits[i]
           buys == hit.purchaseId # NoPurchase
           ids == IF buys THEN SetPurchaseId(c.purchaseIds, hit.purchaseId) ELSE c.purchaseIds
           num == IF buys THEN c.lastPurchaseNum + 1 ELSE c.lastPurchaseNum
           first == IF isNew THEN hit.time ELSE c.firstHit
           ptime == IF hit.purchaseTime # 0 THEN hit.purchaseTime ELSE c.lastPurchaseTime
           d == Updated(c, i, isNew)
<1>1. Counts(hits, c)
  BY BlankCounts DEF Follows
<1>2. /\ c \in Cookie /\ c.purchaseIds \in IdList
      /\ c.log \in Seq(1..Len(hits)) /\ NoDuplicates(c.log)
      /\ c.lastPurchaseNum = Cardinality(PurchasesIn(hits, c.log))
      /\ \E pos : IdsFollow(hits, c.log, c.purchaseIds, pos)
  BY <1>1 DEF Counts
<1>3. /\ hit \in Hit /\ hit.time \in Nat /\ hit.purchaseTime \in Nat
      /\ (buys => hit.purchaseId \in PurchaseIds)
  <2>1. hit \in Hit
    BY ElementOfSeq
  <2> QED BY <2>1 DEF Hit
<1>4. /\ c.firstHit \in Nat /\ c.lastHit \in Nat /\ c.lastPurchaseTime \in Nat
      /\ c.lastPurchaseNum \in Nat /\ c.purchaseIds \in Seq(PurchaseIds) /\ c.log \in Seq(Nat)
      /\ i \in Nat /\ Len(c.log) \in Nat
  BY <1>2, LenProperties DEF Cookie
<1>5. d = [c EXCEPT !.firstHit = first, !.lastHit = hit.time, !.lastPurchaseTime = ptime,
                    !.lastPurchaseNum = num, !.purchaseIds = ids, !.log = more]
  BY DEF Updated
<1>6. ids \in IdList /\ ids \in Seq(PurchaseIds) /\ num \in Nat /\ first \in Nat /\ ptime \in Nat
  <2>1. ids \in IdList
    <3>1. buys => SetPurchaseId(c.purchaseIds, hit.purchaseId) \in IdList
      BY <1>2, <1>3, SetPurchaseIdFacts
    <3> QED BY <3>1, <1>2
  <2>2. ids \in Seq(PurchaseIds)
    BY <2>1 DEF IdList
  <2>3. num \in Nat /\ first \in Nat /\ ptime \in Nat
    BY <1>3, <1>4
  <2> QED BY <2>1, <2>2, <2>3
<1>7. /\ more \in Seq(1..Len(hits)) /\ Len(more) = N /\ more[N] = i
      /\ \A n \in 1..Len(c.log) : more[n] = c.log[n]
  BY <1>2, OneMoreHit
<1>8. more \in Seq(Nat)
  BY <1>4, AppendProperties
<1>9. NoDuplicates(more)
  BY <1>2, StillNoDuplicates
<1>10. PurchasesStep(hits, c.log, i, more, N)
  BY <1>2, OneMorePurchase
<1>11. \E pos : IdsFollow(hits, more, ids, pos)
  <2>1. PICK pos : IdsFollow(hits, c.log, c.purchaseIds, pos)
    BY <1>2
  <2>2. PICK log, old : log = c.log /\ old = c.purchaseIds
    OBVIOUS
  <2>3. PICK m, new : /\ m = Append(log, i)
                      /\ new = IF hits[i].purchaseId # NoPurchase
                               THEN SetPurchaseId(old, hits[i].purchaseId) ELSE old
    OBVIOUS
  <2>4. log \in Seq(1..Len(hits)) /\ old \in IdList /\ IdsFollow(hits, log, old, pos)
    BY <2>1, <2>2, <1>2
  <2>5. \E place : IdsFollow(hits, m, new, place)
    <3> HIDE DEF ids, more
    <3> QED BY <2>3, <2>4, IdsStillFollow
  <2>6. m = more /\ new = ids
    BY <2>2, <2>3
  <2> QED BY <2>5, <2>6
<1>12. num = Cardinality(PurchasesIn(hits, more))
  <2>0. 1 \in Int /\ Len(c.log) \in Int
    BY <1>4
  <2>1. IsFiniteSet(1..Len(c.log)) /\ PurchasesIn(hits, c.log) \subseteq 1..Len(c.log)
    <3>1. IsFiniteSet(1..Len(c.log))
      BY <2>0, FS_Interval
    <3> QED BY <3>1 DEF PurchasesIn
  <2>2. IsFiniteSet(PurchasesIn(hits, c.log)) /\ N \notin PurchasesIn(hits, c.log)
    <3>1. N \notin 1..Len(c.log)
      BY <1>4
    <3> QED BY <2>1, <3>1, FS_Subset
  <2>3. Cardinality(PurchasesIn(hits, c.log) \cup {N}) = Cardinality(PurchasesIn(hits, c.log)) + 1
    BY <2>2, FS_AddElement
  <2> QED BY <2>3, <1>2, <1>10 DEF PurchasesStep
<1> HIDE DEF ids, more, num, first, ptime, hit
<1>13. d \in Cookie
  BY <1>2, <1>3, <1>5, <1>6, <1>8 DEF Cookie
<1>14. /\ d.firstHit = first /\ d.lastHit = hit.time /\ d.lastPurchaseNum = num
       /\ d.purchaseIds = ids /\ d.log = more
  BY <1>2, <1>5 DEF Cookie
<1> HIDE DEF d
<1>15. Counts(hits, d)
  BY <1>6, <1>7, <1>9, <1>11, <1>12, <1>13, <1>14 DEF Counts
<1>16. first = hits[more[1]].time
  <2>1. CASE isNew
    <3>1. c.log = <<>>
      BY <2>1, BlankCounts
    <3>2. N = 1
      BY <3>1
    <3> QED BY <3>2, <2>1, <1>7 DEF first, hit
  <2>2. CASE ~isNew
    <3>1. Len(c.log) >= 1 /\ c.firstHit = hits[c.log[1]].time
      BY <2>2 DEF Follows
    <3>2. more[1] = c.log[1]
      BY <3>1, <1>4, <1>7
    <3> QED BY <3>1, <3>2, <2>2 DEF first
  <2> QED BY <2>1, <2>2
<1>17. Len(more) >= 1 /\ hit.time = hits[more[Len(more)]].time
  BY <1>4, <1>7 DEF hit
<1>18. Follows(hits, d)
  BY <1>14, <1>15, <1>16, <1>17 DEF Follows
<1> QED BY <1>14, <1>18 DEF d, more

LEMMA SavedFollows ==
  ASSUME NEW h \in Seq(Hit), NEW c, Follows(h, c)
  PROVE  Follows(h, Serialized(c)) /\ Serialized(c).log = c.log
<1> DEFINE d == Serialized(c)
<1>1. /\ c \in Cookie /\ d \in Cookie
      /\ d.firstHit = c.firstHit /\ d.lastHit = c.lastHit /\ d.log = c.log
      /\ d.lastPurchaseNum = c.lastPurchaseNum /\ d.purchaseIds = c.purchaseIds
  BY DEF Follows, Counts, Serialized, Cookie
<1> HIDE DEF d
<1>2. Follows(h, d)
  BY <1>1 DEF Follows, Counts
<1> QED BY <1>1, <1>2 DEF d

LEMMA LoadedIsSaved ==
  ASSUME NEW h, NEW c, Follows(h, c)
  PROVE  Deserialized(c) = c
<1>1. c \in Cookie /\ c.purchaseIds \in IdList
  BY DEF Follows, Counts
<1>2. FoldLeft(SetPurchaseId, <<>>, c.purchaseIds) = c.purchaseIds
  BY <1>1, FoldOfIds
<1>3. Deserialized(c) = [c EXCEPT !.purchaseIds = c.purchaseIds]
  BY <1>2 DEF Deserialized
<1> QED BY <1>1, <1>3 DEF Cookie

----------------------------------------------------------------------------
(* From places of the log to the saved ids of RecordsFollowTheirHits       *)

\* The first p of places that grow are p places.
LEMMA CountPlaces ==
  ASSUME NEW K \in Nat, NEW pos \in [1..K -> Nat],
         \A p, q \in 1..K : p < q => pos[p] < pos[q],
         NEW p \in 0..K
  PROVE  Cardinality({pos[q] : q \in 1..p}) = p
<1> DEFINE T == {pos[q] : q \in 1..p}
           f == [q \in 1..p |-> pos[q]]
<1>1. f \in Surjection(1..p, T)
  BY DEF Surjection
<1>2. f \in Injection(1..p, T)
  <2>1. \A q, r \in 1..p : q \in 1..K /\ r \in 1..K /\ (q < r \/ q = r \/ q > r) /\ pos[q] \in Nat
    OBVIOUS
  <2>2. \A q, r \in 1..p : pos[q] = pos[r] => q = r
    BY <2>1
  <2> QED BY <2>2 DEF Injection, IsInjective
<1>3. IsFiniteSet(1..p) /\ Cardinality(1..p) = p
  <2>1. 1 \in Int /\ p \in Int /\ (1 > p => p = 0)
    OBVIOUS
  <2>2. IsFiniteSet(1..p)
    BY <2>1, FS_Interval
  <2>3. Cardinality(1..p) = IF 1 > p THEN 0 ELSE p - 1 + 1
    BY <2>1, FS_Interval
  <2> QED BY <2>1, <2>2, <2>3
<1> HIDE DEF f, T
<1>4. Cardinality(T) = Cardinality(1..p)
  BY <1>1, <1>2, <1>3, FS_Surjection
<1> QED BY <1>3, <1>4 DEF T

\* The clauses of RecordsFollowTheirHits about one record.
IsWhatHitsMake(c) ==
    LET log == c.log
        ids == c.purchaseIds
        saved == {n \in LastUses(log) : Contains(ids, IdAt(log, n))}
    IN /\ log # <<>> /\ IsInjective(log)
       /\ c.firstHit = hits[log[1]].time /\ c.lastHit = hits[Last(log)].time
       /\ c.lastPurchaseNum = Cardinality(Purchases(log))
       /\ ids = [p \in 1..Cardinality(saved) |->
                   IdAt(log, CHOOSE n \in saved : Cardinality({m \in saved : m <= n}) = p)]
       /\ \A n \in LastUses(log) \ saved :
            Len(ids) = NUM_SAVED_PURCHASE_IDS /\ \A m \in saved : n < m

SavedIn(log, ids) == {n \in LastUses(log) : Contains(ids, IdAt(log, n))}

IdsAreThoseOf(saved, log, ids) ==
  /\ ids = [p \in 1..Cardinality(saved) |->
              IdAt(log, CHOOSE n \in saved : Cardinality({m \in saved : m <= n}) = p)]
  /\ \A n \in LastUses(log) \ saved :
       Len(ids) = NUM_SAVED_PURCHASE_IDS /\ \A m \in saved : n < m

\* Ids in the order of places that grow are those of the saved places, in
\* the order of the places.
LEMMA SavedPlaces ==
  ASSUME hits \in Seq(Hit), NEW log \in Seq(1..Len(hits)), NEW ids \in IdList, NEW pos,
         IdsFollow(hits, log, ids, pos), NEW saved, saved = SavedIn(log, ids)
  PROVE  IdsAreThoseOf(saved, log, ids)
<1> DEFINE K == Len(ids)
<1>1. DOMAIN log = 1..Len(log)
  BY LenProperties
<1>2. Purchases(log) = PurchasesIn(hits, log) /\ \A n \in 1..Len(log) : IdAt(log, n) = IdOf(hits, log, n)
  BY <1>1 DEF Purchases, PurchasesIn, IdAt, IdOf
<1>3. LastUses(log) = LastUsesIn(hits, log) /\ LastUses(log) \subseteq 1..Len(log)
  BY <1>1, <1>2 DEF LastUses, LastUsesIn, PurchasesIn, IdAt, IdOf
<1>4. /\ pos \in [1..K -> LastUses(log)]
      /\ \A p, q \in 1..K : p < q => pos[p] < pos[q]
      /\ \A p \in 1..K : ids[p] = IdAt(log, pos[p])
      /\ \A n \in LastUses(log) :
           \/ \E p \in 1..K : n = pos[p]
           \/ K = NUM_SAVED_PURCHASE_IDS /\ \A p \in 1..K : n < pos[p]
  BY <1>2, <1>3 DEF IdsFollow
<1>5. K \in Nat /\ Len(log) \in Nat /\ NoDuplicates(ids) /\ ids \in Seq(PurchaseIds)
  BY LenProperties DEF IdList
<1>6. \A n \in LastUses(log) : n \in Nat
  BY <1>3, <1>5
<1>7. saved = {pos[q] : q \in 1..K}
  <2>1. ASSUME NEW q \in 1..K PROVE pos[q] \in saved
    BY <1>4 DEF Contains, SavedIn
  <2>2. ASSUME NEW n \in saved PROVE \E q \in 1..K : n = pos[q]
    <3>1. PICK q \in 1..K : ids[q] = IdAt(log, n)
      BY DEF Contains, SavedIn
    <3>2. /\ n \in LastUses(log) /\ pos[q] \in LastUses(log) /\ IdAt(log, n) = IdAt(log, pos[q])
      BY <3>1, <1>4 DEF SavedIn
    <3>3. n <= pos[q] /\ pos[q] <= n
      BY <3>2 DEF LastUses
    <3>4. n = pos[q]
      BY <3>2, <3>3, <1>6
    <3> QED BY <3>4
  <2> QED BY <2>1, <2>2
<1>8. ASSUME NEW p \in 1..K
      PROVE  pos[p] \in saved /\ Cardinality({m \in saved : m <= pos[p]}) = p
  <2>0. p \in 0..K /\ pos \in [1..K -> Nat]
    BY <1>4, <1>6
  <2>1. {m \in saved : m <= pos[p]} = {pos[q] : q \in 1..p}
    <3>1. \A q \in 1..K : pos[q] \in Nat
      BY <2>0
    <3>2. \A q \in 1..K : (q < p \/ q = p \/ q > p)
      BY <1>5
    <3>3. \A q \in 1..K : pos[q] <= pos[p] <=> q <= p
      BY <3>1, <3>2, <1>4, <1>5
    <3>4. \A q \in 1..p : q \in 1..K /\ q <= p
      BY <1>5
    <3>5. \A q \in 1..K : q <= p => q \in 1..p
      BY <1>5
    <3> QED BY <3>3, <3>4, <3>5, <1>7
  <2>2. Cardinality({pos[q] : q \in 1..p}) = p
    BY <2>0, <1>4, <1>5, CountPlaces
  <2> QED BY <2>1, <2>2, <1>7
<1>9. Cardinality(saved) = K
  <2>1. K \in 0..K /\ pos \in [1..K -> Nat]
    BY <1>4, <1>5, <1>6
  <2>2. Cardinality({pos[q] : q \in 1..K}) = K
    <3> HIDE DEF K
    <3> QED BY <2>1, <1>4, <1>5, CountPlaces
  <2> QED BY <2>2, <1>7
<1> DEFINE Place(p) == CHOOSE n \in saved : Cardinality({m \in saved : m <= n}) = p
<1>10. ASSUME NEW p \in 1..K PROVE Place(p) = pos[p]
  <2>1. \E n \in saved : Cardinality({m \in saved : m <= n}) = p
    BY <1>8
  <2>2. Place(p) \in saved /\ Cardinality({m \in saved : m <= Place(p)}) = p
    BY <2>1
  <2> HIDE DEF Place
  <2>3. PICK q \in 1..K : Place(p) = pos[q]
    BY <2>2, <1>7
  <2>4. Cardinality({m \in saved : m <= pos[q]}) = q
    BY <1>8
  <2>5. p = q
    BY <2>2, <2>3, <2>4
  <2> QED BY <2>3, <2>5
<1> HIDE DEF Place
<1>11. ids = [p \in 1..K |-> IdAt(log, Place(p))]
  <2>1. ids = [p \in 1..K |-> ids[p]]
    <3>1. DOMAIN ids = 1..K /\ ids \in [1..K -> PurchaseIds]
      BY <1>5, LenProperties
    <3> QED BY <3>1
  <2>2. \A p \in 1..K : ids[p] = IdAt(log, Place(p))
    BY <1>4, <1>10
  <2> QED BY <2>1, <2>2
<1>12. ASSUME NEW n \in LastUses(log) \ saved
       PROVE  Len(ids) = NUM_SAVED_PURCHASE_IDS /\ \A m \in saved : n < m
  BY <1>4, <1>7
<1> QED BY <1>9, <1>11, <1>12 DEF Place, IdsAreThoseOf

LEMMA FollowingIsWhatHitsMake ==
  ASSUME hits \in Seq(Hit), NEW c, Follows(hits, c)
  PROVE  IsWhatHitsMake(c)
<1>1. /\ c.purchaseIds \in IdList /\ c.log \in Seq(1..Len(hits)) /\ NoDuplicates(c.log)
      /\ Len(c.log) >= 1 /\ Len(c.log) \in Nat
      /\ c.firstHit = hits[c.log[1]].time /\ c.lastHit = hits[c.log[Len(c.log)]].time
      /\ c.lastPurchaseNum = Cardinality(PurchasesIn(hits, c.log))
      /\ \E pos : IdsFollow(hits, c.log, c.purchaseIds, pos)
  BY LenProperties DEF Follows, Counts
<1>2. DOMAIN c.log = 1..Len(c.log)
  BY <1>1, LenProperties
<1>3. Purchases(c.log) = PurchasesIn(hits, c.log)
  BY <1>2 DEF Purchases, PurchasesIn, IdOf
<1>4. IsInjective(c.log)
  BY <1>1, <1>2 DEF IsInjective, NoDuplicates
<1>5. c.log # <<>>
  <2>1. Len(<<>>) = 0
    BY EmptySeq
  <2> QED BY <2>1, <1>1
<1>6. IdsAreThoseOf(SavedIn(c.log, c.purchaseIds), c.log, c.purchaseIds)
  <2>1. PICK log, ids : log = c.log /\ ids = c.purchaseIds
    OBVIOUS
  <2>2. IdsAreThoseOf(SavedIn(log, ids), log, ids)
    BY <1>1, <2>1, SavedPlaces
  <2> QED BY <2>1, <2>2
<1> QED BY <1>1, <1>3, <1>4, <1>5, <1>6, Zenon DEF IsWhatHitsMake, IdsAreThoseOf, SavedIn, Last

----------------------------------------------------------------------------
(* The inductive invariant                                                 *)

Working == {"construct", "update", "store", "destroy"}

\* Each hit that was handed out is worked on by one thread at most.
WorkInv ==
  /\ hits \in Replays /\ next \in 1..(Len(hits) + 1)
  /\ count \in [Threads -> 0..Requests]
  /\ pc \in [Threads -> Working \cup {"idle", "done"}]
  /\ current \in [Threads -> 0..Len(hits)]
  /\ newCookie \in [Threads -> BOOLEAN] /\ modified \in [Threads -> BOOLEAN]
  /\ exited \in BOOLEAN
  /\ \A t \in Threads :
       /\ pc[t] \in Working => current[t] \in 1..(next - 1) /\ count[t] < Requests
       /\ pc[t] \notin Working => current[t] = NoHit
       /\ modified[t] => pc[t] \in {"store", "destroy"}
       /\ pc[t] = "store" => modified[t]
  /\ \A t, u \in Threads : pc[t] \in Working /\ current[t] = current[u] => t = u
  /\ faulty \subseteq 1..(next - 1)
  /\ \A pair \in overlap : pair \subseteq 1..(next - 1) /\ Cardinality(pair) = 2

InLog(i, c) == \E n \in 1..Len(c.log) : c.log[n] = i

\* Hit i went into a record, a cookie or a late write.
Logged(i) ==
  \/ \E k \in Users : db[k] # NoRecord /\ InLog(i, db[k])
  \/ \E t \in Threads : InLog(i, cookie[t])
  \/ \E w \in late : InLog(i, w.record)

\* What each of them holds follows its hits; a hit is not in any of them
\* before its thread updates its cookie.
ContentInv ==
  /\ db \in [Users -> Cookie \cup {NoRecord}]
  /\ cookie \in [Threads -> Cookie]
  /\ \A k \in Users : db[k] # NoRecord => Follows(hits, db[k])
  /\ \A w \in late : w.key \in Users /\ Follows(hits, w.record)
  /\ \A t \in Threads :
       CASE pc[t] \in {"store", "destroy"} -> Follows(hits, cookie[t])
         [] pc[t] = "update" -> IF newCookie[t] THEN cookie[t] = Blank ELSE Follows(hits, cookie[t])
         [] OTHER -> cookie[t] = Blank
  /\ \A i : Logged(i) => /\ i \in 1..(next - 1)
                         /\ \A t \in Threads : pc[t] \in {"construct", "update"} => current[t] # i

\* A hit that was worked through up to the destructor of its cookie.
Through(i) == \A t \in Threads : current[t] = i => pc[t] = "destroy"

\* A cause of EachLossHasACause.
Excused(i) ==
  \/ i \in faulty
  \/ \E j \in 1..(next - 1) : /\ j # i /\ KeyOf(j) = KeyOf(i)
                              /\ \/ j \in faulty
                                 \/ hits[j].newVisitor
                                 \/ {i, j} \in overlap

\* No hit is lost without a cause from its record ...
NoneMissing ==
  \A i \in 1..(next - 1) : Through(i) => InRecord(i) \/ Excused(i)

\* ... nor from a cookie that is yet to be saved over the record.
NoneOverwritten ==
  \A t \in Threads : Unsaved(t) =>
    \A i \in 1..(next - 1) :
      Through(i) /\ KeyOf(i) = KeyOf(current[t]) => InLog(i, cookie[t]) \/ Excused(i)

\* Two threads that hold copies of one record are known to have met.
MeetingsSeen ==
  \A t, u \in Threads :
    t # u /\ Unsaved(t) /\ Unsaved(u) /\ KeyOf(current[t]) = KeyOf(current[u])
      => {current[t], current[u]} \in overlap

OwnHitLogged ==
  \A t \in Threads : pc[t] \in {"store", "destroy"} => InLog(current[t], cookie[t])

\* The store failed on a hit of the key of every late write.
LateAreFaulty == \A w \in late : \E j \in faulty : KeyOf(j) = w.key

LossInv == NoneMissing /\ NoneOverwritten /\ MeetingsSeen /\ OwnHitLogged /\ LateAreFaulty

LEMMA HitsAreHits ==
  ASSUME hits \in Replays
  PROVE  hits \in Seq(Hit) /\ Len(hits) \in Nat /\ \A i \in 1..Len(hits) : KeyOf(i) \in Users
<1>1. hits \in Seq(Hit)
  BY ReplaysAssumption
<1>2. \A i \in 1..Len(hits) : hits[i] \in Hit
  BY <1>1, ElementOfSeq
<1> QED BY <1>1, <1>2, LenProperties DEF KeyOf, Hit

\* What SaveVCookie leaves behind, however it ends.
SaveEffect(t) ==
  \/ /\ db' = [db EXCEPT ![KeyOf(current[t])] = Serialized(cookie[t])]
     /\ late' = late /\ faulty' = faulty
  \/ /\ db' = db /\ faulty' = faulty \cup {current[t]}
     /\ \/ late' = late
        \/ late' = late \cup {[key |-> KeyOf(current[t]), record |-> Serialized(cookie[t])]}

LEMMA SaveEffects ==
  ASSUME NEW t, Returned(t) \/ Threw(t)
  PROVE  SaveEffect(t)
BY DEF Returned, Threw, Saved, Refused, TimedOut, SaveEffect

LEMMA TwoElements ==
  ASSUME NEW a, NEW b, a # b
  PROVE  Cardinality({a, b}) = 2
<1>1. IsFiniteSet({a}) /\ Cardinality({a}) = 1
  BY FS_Singleton
<1>2. {a} \cup {b} = {a, b} /\ b \notin {a}
  OBVIOUS
<1>3. Cardinality({a} \cup {b}) = 1 + 1
  BY <1>1, <1>2, FS_AddElement
<1> QED BY <1>2, <1>3

LEMMA WorkInit ==
  ASSUME Init
  PROVE  WorkInv
<1>1. hits \in Replays /\ Len(hits) \in Nat
  BY HitsAreHits DEF Init
<1>2. next \in 1..(Len(hits) + 1)
  BY <1>1 DEF Init
<1>3. Requests \in Nat
  BY BoundsAssumption
<1>4. /\ count \in [Threads -> 0..Requests]
      /\ pc \in [Threads -> Working \cup {"idle", "done"}]
      /\ current \in [Threads -> 0..Len(hits)]
      /\ newCookie \in [Threads -> BOOLEAN] /\ modified \in [Threads -> BOOLEAN]
      /\ exited \in BOOLEAN
  <2>1. 0 \in 0..Requests /\ 0 \in 0..Len(hits)
    BY <1>1, <1>3
  <2>2. /\ count = [t \in Threads |-> 0] /\ current = [t \in Threads |-> 0]
        /\ pc = [t \in Threads |-> "idle"] /\ exited = FALSE
        /\ newCookie = [t \in Threads |-> FALSE] /\ modified = [t \in Threads |-> FALSE]
    BY DEF Init, NoHit
  <2> QED BY <2>1, <2>2
<1>5. \A t \in Threads : pc[t] = "idle" /\ current[t] = NoHit /\ modified[t] = FALSE
  BY DEF Init
<1>6. "idle" \notin Working /\ "idle" # "store"
  BY DEF Working
<1>7. faulty = {} /\ overlap = {}
  BY DEF Init
<1> QED BY <1>1, <1>2, <1>4, <1>5, <1>6, <1>7 DEF WorkInv

LEMMA WorkStep ==
  ASSUME WorkInv, [Next]_vars
  PROVE  WorkInv'
<1>0. Len(hits) \in Nat /\ next \in Nat \ {0} /\ Requests \in Nat
  BY HitsAreHits, BoundsAssumption DEF WorkInv
<1>1. ASSUME NEW t \in Threads, Take(t) PROVE WorkInv'
  <2>1. next \in 1..Len(hits) /\ next' = next + 1 /\ next' \in 1..(Len(hits) + 1)
    BY <1>0, <1>1 DEF Take
  <2>2. /\ 1..(next - 1) \subseteq 1..(next' - 1) /\ next \in 1..(next' - 1) /\ next \notin 1..(next - 1)
        /\ next # 0
    BY <1>0, <2>1
  <2>3. \A u \in Threads : current[u] # next
    BY <2>2 DEF WorkInv, NoHit
  <2>4. \A u, v \in Threads : pc'[u] \in Working /\ current'[u] = current'[v] => u = v
    BY <1>1, <2>3 DEF Take, WorkInv, Working
  <2>5. \A u \in Threads :
       /\ pc'[u] \in Working => current'[u] \in 1..(next' - 1) /\ count'[u] < Requests
       /\ pc'[u] \notin Working => current'[u] = NoHit
       /\ modified'[u] => pc'[u] \in {"store", "destroy"}
       /\ pc'[u] = "store" => modified'[u]
    BY <1>1, <2>2 DEF Take, WorkInv, Working
  <2>6. /\ faulty' \subseteq 1..(next' - 1)
        /\ \A pair \in overlap' : pair \subseteq 1..(next' - 1) /\ Cardinality(pair) = 2
    BY <1>1, <2>2 DEF Take, WorkInv
  <2>7. /\ hits' \in Replays /\ count' \in [Threads -> 0..Requests]
        /\ pc' \in [Threads -> Working \cup {"idle", "done"}]
        /\ current' \in [Threads -> 0..Len(hits)]
        /\ newCookie' \in [Threads -> BOOLEAN] /\ modified' \in [Threads -> BOOLEAN]
        /\ exited' \in BOOLEAN /\ hits' = hits
    BY <1>1, <2>1 DEF Take, WorkInv, Working
  <2> QED BY <2>1, <2>4, <2>5, <2>6, <2>7 DEF WorkInv
<1>2. ASSUME NEW t \in Threads, Stop(t) PROVE WorkInv'
  BY <1>2 DEF Stop, WorkInv, Working
<1>3. ASSUME NEW t \in Threads, pc[t] = "construct", NEW isNew \in BOOLEAN, NEW c,
             Constructed(t, isNew, c), faulty' \subseteq faulty \cup {current[t]}
      PROVE  WorkInv'
  <2>1. pc' = [pc EXCEPT ![t] = "update"] /\ newCookie' = [newCookie EXCEPT ![t] = isNew]
        /\ modified' = [modified EXCEPT ![t] = FALSE]
        /\ UNCHANGED <<hits, next, count, current, exited>>
    BY <1>3 DEF Constructed
  <2>2. \A pair \in overlap' : pair \subseteq 1..(next - 1) /\ Cardinality(pair) = 2
    <3> SUFFICES ASSUME NEW pair \in overlap', pair \notin overlap
                 PROVE  pair \subseteq 1..(next - 1) /\ Cardinality(pair) = 2
      BY DEF WorkInv
    <3>1. PICK u \in Threads \ {t} : Unsaved(u) /\ pair = {current[t], current[u]}
      BY <1>3 DEF Constructed
    <3>2. pc[u] \in Working /\ pc[t] \in Working
      BY <1>3, <3>1 DEF Unsaved, WorkInv, Working
    <3>3. current[u] \in 1..(next - 1) /\ current[t] \in 1..(next - 1) /\ current[t] # current[u]
      BY <3>1, <3>2 DEF WorkInv
    <3> QED BY <3>1, <3>3, TwoElements
  <2>3. current[t] \in 1..(next - 1)
    BY <1>3 DEF WorkInv, Working
  <2> QED BY <1>3, <2>1, <2>2, <2>3 DEF WorkInv, Working
<1>4. ASSUME NEW t \in Threads, Update(t) PROVE WorkInv'
  BY <1>4 DEF Update, WorkInv, Working
<1>5. ASSUME NEW t \in Threads, Store(t) PROVE WorkInv'
  <2>1. SaveEffect(t)
    BY <1>5, SaveEffects DEF Store
  <2>2. faulty' \subseteq faulty \cup {current[t]}
    BY <2>1 DEF SaveEffect
  <2>3. /\ modified' \in [Threads -> BOOLEAN] /\ \A u \in Threads \ {t} : modified'[u] = modified[u]
    BY <1>5 DEF Store, WorkInv
  <2>4. pc[t] = "store" /\ pc' = [pc EXCEPT ![t] = "destroy"]
        /\ UNCHANGED <<hits, next, count, current, cookie, newCookie, overlap, exited>>
    BY <1>5 DEF Store
  <2>5. faulty' \subseteq 1..(next - 1)
    BY <2>2, <2>4 DEF WorkInv, Working
  <2> QED BY <2>3, <2>4, <2>5 DEF WorkInv, Working
<1>6. ASSUME NEW t \in Threads, Destroy(t) PROVE WorkInv'
  <2>1. faulty' \subseteq faulty \cup {current[t]}
    <3>1. CASE modified[t]
      BY <1>6, <3>1, SaveEffects DEF Destroy, SaveEffect
    <3>2. CASE ~modified[t]
      BY <1>6, <3>2 DEF Destroy
    <3> QED BY <3>1, <3>2
  <2>2. faulty' \subseteq 1..(next - 1)
    BY <1>6, <2>1 DEF Destroy, WorkInv, Working
  <2>3. count' \in [Threads -> 0..Requests]
    BY <1>0, <1>6 DEF Destroy, WorkInv, Working
  <2> QED BY <1>6, <2>2, <2>3 DEF Destroy, WorkInv, Working, NoHit
<1>7. ASSUME NEW t \in Threads, FatalError(t) PROVE WorkInv'
  BY <1>7 DEF FatalError, WorkInv
<1>8. CASE LateWrite
  BY <1>8 DEF LateWrite, WorkInv
<1>9. CASE UNCHANGED vars
  BY <1>9 DEF vars, WorkInv
<1>10. ASSUME NEW t \in Threads, Construct(t) \/ ConstructUnread(t) PROVE WorkInv'
  <2>1. pc[t] = "construct" /\ faulty' \subseteq faulty \cup {current[t]}
    BY <1>10 DEF Construct, ConstructUnread
  <2>2. \E isNew \in BOOLEAN : \E c : Constructed(t, isNew, c)
    BY <1>10 DEF Construct, ConstructUnread
  <2> QED BY <1>3, <2>1, <2>2
<1> QED BY <1>1, <1>2, <1>4, <1>5, <1>6, <1>7, <1>8, <1>9, <1>10 DEF Next, Step, Terminated

LEMMA ContentInit ==
  ASSUME Init
  PROVE  ContentInv
<1>1. hits \in Seq(Hit)
  BY HitsAreHits DEF Init
<1>2. Blank \in Cookie /\ Blank.log = <<>>
  BY <1>1, BlankCounts DEF Counts
<1>3. \A i : ~InLog(i, Blank)
  <2>1. Len(<<>>) = 0
    BY EmptySeq
  <2> QED BY <1>2, <2>1 DEF InLog
<1>4. /\ db = [k \in Users |-> NoRecord] /\ cookie = [t \in Threads |-> Blank] /\ late = {}
      /\ \A t \in Threads : pc[t] = "idle"
  BY DEF Init
<1>5. \A i : ~Logged(i)
  BY <1>3, <1>4 DEF Logged
<1> QED BY <1>2, <1>4, <1>5 DEF ContentInv

\* However a save ends, the records and the late writes follow their hits,
\* and no hit is logged there that was not logged before.
LEMMA SaveKeepsContent ==
  ASSUME WorkInv, ContentInv, NEW t \in Threads, pc[t] \in {"store", "destroy"}, SaveEffect(t)
  PROVE  /\ db' \in [Users -> Cookie \cup {NoRecord}]
         /\ \A k \in Users : db'[k] # NoRecord => Follows(hits, db'[k])
         /\ \A w \in late' : w.key \in Users /\ Follows(hits, w.record)
         /\ \A i : \A k \in Users : db'[k] # NoRecord /\ InLog(i, db'[k]) => Logged(i)
         /\ \A i : \A w \in late' : InLog(i, w.record) => Logged(i)
<1> DEFINE c == Serialized(cookie[t])
           key == KeyOf(current[t])
<1>1. current[t] \in 1..Len(hits) /\ hits \in Seq(Hit)
  <2>1. current[t] \in 1..(next - 1) /\ next \in 1..(Len(hits) + 1) /\ Len(hits) \in Nat
    BY HitsAreHits DEF WorkInv, Working
  <2> QED BY <2>1, HitsAreHits DEF WorkInv
<1>2. key \in Users
  BY <1>1, HitsAreHits DEF WorkInv
<1>3. Follows(hits, cookie[t])
  BY DEF ContentInv
<1>4. Follows(hits, c) /\ c.log = cookie[t].log
  BY <1>1, <1>3, SavedFollows
<1>5. \A i : InLog(i, c) => Logged(i)
  BY <1>4 DEF InLog, Logged
<1>6. c \in Cookie /\ c # NoRecord
  BY <1>4, NoRecordAssumption DEF Follows, Counts
<1>7. CASE db' = [db EXCEPT ![key] = c] /\ late' = late
  <2>1. \A k \in Users : db'[k] = IF k = key THEN c ELSE db[k]
    BY <1>2, <1>7 DEF ContentInv
  <2>2. db' \in [Users -> Cookie \cup {NoRecord}]
    BY <1>2, <1>6, <1>7 DEF ContentInv
  <2>3. \A k \in Users : db'[k] # NoRecord => Follows(hits, db'[k])
    BY <1>4, <2>1 DEF ContentInv
  <2>4. \A i : \A k \in Users : db'[k] # NoRecord /\ InLog(i, db'[k]) => Logged(i)
    BY <1>5, <2>1 DEF Logged
  <2> QED BY <1>7, <2>2, <2>3, <2>4 DEF ContentInv, Logged
<1>8. CASE db' = db /\ late' = late
  BY <1>8 DEF ContentInv, Logged
<1>9. CASE db' = db /\ late' = late \cup {[key |-> key, record |-> c]}
  <2>1. \A w \in late' : w \in late \/ (w.key = key /\ w.record = c)
    BY <1>9
  <2>2. \A w \in late' : w.key \in Users /\ Follows(hits, w.record)
    BY <2>1, <1>2, <1>4 DEF ContentInv
  <2>3. \A i : \A w \in late' : InLog(i, w.record) => Logged(i)
    BY <2>1, <1>5 DEF Logged
  <2> QED BY <1>9, <2>2, <2>3 DEF ContentInv, Logged
<1> QED BY <1>7, <1>8, <1>9 DEF SaveEffect

LEMMA ContentStep ==
  ASSUME WorkInv, ContentInv, [Next]_vars
  PROVE  ContentInv'
<1>0. Len(hits) \in Nat /\ next \in Nat /\ next \in 1..(Len(hits) + 1) /\ hits \in Seq(Hit)
  BY HitsAreHits DEF WorkInv
<1>b. Blank \in Cookie /\ \A i : ~InLog(i, Blank)
  <2>1. Len(<<>>) = 0
    BY EmptySeq
  <2> QED BY <1>0, <2>1, BlankCounts DEF Counts, InLog
<1> DEFINE Holds(t) ==
             CASE pc[t] \in {"store", "destroy"} -> Follows(hits, cookie[t])
               [] pc[t] = "update" ->
                    IF newCookie[t] THEN cookie[t] = Blank ELSE Follows(hits, cookie[t])
               [] OTHER -> cookie[t] = Blank
           Past(i) == /\ i \in 1..(next - 1)
                      /\ \A t \in Threads : pc[t] \in {"construct", "update"} => current[t] # i
<1>p. /\ db \in [Users -> Cookie \cup {NoRecord}] /\ cookie \in [Threads -> Cookie]
      /\ \A k \in Users : db[k] # NoRecord => Follows(hits, db[k])
      /\ \A w \in late : w.key \in Users /\ Follows(hits, w.record)
      /\ \A t \in Threads : Holds(t)
      /\ \A i : Logged(i) => Past(i)
  BY DEF ContentInv
<1>q. ASSUME /\ db' \in [Users -> Cookie \cup {NoRecord}] /\ cookie' \in [Threads -> Cookie]
             /\ \A k \in Users : db'[k] # NoRecord => Follows(hits', db'[k])
             /\ \A w \in late' : w.key \in Users /\ Follows(hits', w.record)
             /\ \A t \in Threads : Holds(t)'
             /\ \A i : Logged(i)' => Past(i)'
      PROVE  ContentInv'
  BY <1>q DEF ContentInv
<1>1. ASSUME NEW t \in Threads, Take(t) PROVE ContentInv'
  <2>1. /\ pc' = [pc EXCEPT ![t] = "construct"] /\ current' = [current EXCEPT ![t] = next]
        /\ pc[t] = "idle" /\ next' = next + 1
        /\ UNCHANGED <<hits, db, cookie, newCookie, late>>
    BY <1>1 DEF Take
  <2>2. \A u \in Threads : Holds(u)'
    BY <2>1, <1>p DEF WorkInv
  <2>3. ASSUME NEW i, Logged(i)' PROVE Past(i)'
    <3>1. Logged(i)
      BY <2>1, <2>3 DEF Logged
    <3>2. i \in 1..(next - 1) /\ \A u \in Threads : pc[u] \in {"construct", "update"} => current[u] # i
      BY <3>1, <1>p
    <3>3. i # next /\ i \in 1..(next' - 1)
      BY <3>2, <2>1, <1>0
    <3> QED BY <3>2, <3>3, <2>1 DEF WorkInv
  <2> HIDE DEF Holds, Past
  <2> QED BY <2>1, <2>2, <2>3, <1>p, <1>q
<1>2. ASSUME NEW t \in Threads, Stop(t) PROVE ContentInv'
  <2>1. /\ pc' = [pc EXCEPT ![t] = "done"] /\ pc[t] = "idle"
        /\ UNCHANGED <<hits, next, db, cookie, newCookie, late, current>>
    BY <1>2 DEF Stop
  <2>2. \A u \in Threads : Holds(u)'
    BY <2>1, <1>p DEF WorkInv
  <2>3. ASSUME NEW i, Logged(i)' PROVE Past(i)'
    BY <2>1, <2>3, <1>p DEF Logged, WorkInv
  <2> HIDE DEF Holds, Past
  <2> QED BY <2>1, <2>2, <2>3, <1>p, <1>q
<1>3. ASSUME NEW t \in Threads, pc[t] = "construct", NEW isNew \in BOOLEAN, NEW c,
             Constructed(t, isNew, c), UNCHANGED <<db, late>>,
             IF isNew THEN c = Blank
                      ELSE Follows(hits, c) /\ \E k \in Users : db[k] # NoRecord /\ c = db[k]
      PROVE  ContentInv'
  <2>1. /\ pc' = [pc EXCEPT ![t] = "update"] /\ newCookie' = [newCookie EXCEPT ![t] = isNew]
        /\ cookie' = [cookie EXCEPT ![t] = c]
        /\ UNCHANGED <<hits, next, db, late, current>>
    BY <1>3 DEF Constructed
  <2>2. c \in Cookie
    BY <1>3, <1>b DEF Follows, Counts
  <2>3. \A u \in Threads : Holds(u)'
    BY <2>1, <1>3, <1>p DEF WorkInv
  <2>4. \A i : InLog(i, c) => Logged(i)
    BY <1>3, <1>b DEF Logged
  <2>5. ASSUME NEW i, Logged(i)' PROVE Past(i)'
    <3>1. Logged(i)
      BY <2>1, <2>4, <2>5, <1>p DEF Logged
    <3> QED BY <3>1, <2>1, <1>3, <1>p DEF WorkInv
  <2>6. cookie' \in [Threads -> Cookie]
    BY <2>1, <2>2, <1>p
  <2> HIDE DEF Holds, Past
  <2> QED BY <2>1, <2>3, <2>5, <2>6, <1>p, <1>q
<1>4. ASSUME NEW t \in Threads, Construct(t) PROVE ContentInv'
  <2> DEFINE record == db[KeyOf(current[t])]
  <2>1. pc[t] = "construct" /\ UNCHANGED <<db, late>>
    BY <1>4 DEF Construct, Constructed
  <2>2. current[t] \in 1..(next - 1) /\ current[t] \in 1..Len(hits)
    BY <1>0, <2>1 DEF WorkInv, Working
  <2>3. KeyOf(current[t]) \in Users
    BY <2>2, HitsAreHits DEF WorkInv
  <2>4. CASE Constructed(t, TRUE, Blank)
    BY <2>1, <2>4, <1>3
  <2>5. CASE record # NoRecord /\ Constructed(t, FALSE, Deserialized(record))
    <3>1. Follows(hits, record) /\ Deserialized(record) = record
      BY <2>3, <2>5, <1>p, LoadedIsSaved
    <3>2. Constructed(t, FALSE, record)
      BY <2>5, <3>1
    <3>3. \E k \in Users : db[k] # NoRecord /\ record = db[k]
      BY <2>3, <2>5
    <3> HIDE DEF record
    <3> QED BY <2>1, <3>1, <3>2, <3>3, <1>3
  <2> QED BY <1>4, <2>4, <2>5 DEF Construct
<1>5. ASSUME NEW t \in Threads, ConstructUnread(t) PROVE ContentInv'
  <2>1. pc[t] = "construct" /\ UNCHANGED <<db, late>> /\ Constructed(t, TRUE, Blank)
    BY <1>5 DEF ConstructUnread, Constructed
  <2> QED BY <2>1, <1>3
<1>6. ASSUME NEW t \in Threads, Update(t) PROVE ContentInv'
  <2> DEFINE i0 == current[t]
             c == Updated(cookie[t], i0, newCookie[t])
  <2>1. /\ pc[t] = "update" /\ pc' = [pc EXCEPT ![t] = "store"]
        /\ cookie' = [cookie EXCEPT ![t] = c]
        /\ UNCHANGED <<hits, next, db, late, current, newCookie>>
    BY <1>6 DEF Update
  <2>2. i0 \in 1..(next - 1) /\ i0 \in 1..Len(hits)
    BY <1>0, <2>1 DEF WorkInv, Working
  <2>3. \A n \in 1..Len(cookie[t].log) : cookie[t].log[n] # i0
    <3>1. ~Logged(i0)
      BY <2>1, <1>p
    <3> QED BY <3>1 DEF Logged, InLog
  <2>4. IF newCookie[t] THEN cookie[t] = Blank ELSE Follows(hits, cookie[t])
    BY <2>1, <1>p
  <2>5. Follows(hits, c) /\ c.log = Append(cookie[t].log, i0)
    <3>1. PICK old, isNew : old = cookie[t] /\ isNew = newCookie[t]
      OBVIOUS
    <3>2. isNew \in BOOLEAN
      BY <3>1 DEF WorkInv
    <3>3. Follows(hits, Updated(old, i0, isNew)) /\ Updated(old, i0, isNew).log = Append(old.log, i0)
      BY <3>1, <3>2, <2>2, <2>3, <2>4, <1>0, UpdatedFollows
    <3> QED BY <3>1, <3>3
  <2>6. \A i : InLog(i, c) => Logged(i) \/ i = i0
    <3> SUFFICES ASSUME NEW i, InLog(i, c) PROVE Logged(i) \/ i = i0
      OBVIOUS
    <3>1. cookie[t].log \in Seq(Nat) /\ i0 \in Nat
      BY <2>2, <1>0, <1>p DEF Cookie
    <3>2. /\ Len(cookie[t].log) \in Nat /\ Len(c.log) = Len(cookie[t].log) + 1
          /\ \A n \in 1..Len(cookie[t].log) : c.log[n] = cookie[t].log[n]
          /\ c.log[Len(cookie[t].log) + 1] = i0
      BY <3>1, <2>5, AppendProperties, LenProperties
    <3>3. PICK n \in 1..Len(c.log) : c.log[n] = i
      BY DEF InLog
    <3>4. n \in 1..Len(cookie[t].log) \/ n = Len(cookie[t].log) + 1
      BY <3>2
    <3> HIDE DEF c, i0
    <3>5. CASE n \in 1..Len(cookie[t].log)
      BY <3>2, <3>3, <3>5 DEF InLog, Logged
    <3>6. CASE n = Len(cookie[t].log) + 1
      BY <3>2, <3>3, <3>6
    <3> QED BY <3>4, <3>5, <3>6
  <2> HIDE DEF c
  <2>7. \A u \in Threads : Holds(u)'
    BY <2>1, <2>5, <1>p DEF WorkInv
  <2>8. ASSUME NEW i, Logged(i)' PROVE Past(i)'
    <3>1. Logged(i) \/ i = i0
      BY <2>1, <2>6, <2>8, <1>p DEF Logged
    <3>2. \A u \in Threads : u # t => current[u] # i0
      BY <2>1 DEF WorkInv, Working
    <3>3. CASE Logged(i)
      BY <3>3, <2>1, <1>p DEF WorkInv
    <3>4. CASE i = i0
      BY <3>2, <3>4, <2>1, <2>2 DEF WorkInv
    <3> QED BY <3>1, <3>3, <3>4
  <2>9. cookie' \in [Threads -> Cookie]
    BY <2>1, <2>5, <1>p DEF Follows, Counts
  <2> HIDE DEF Holds, Past
  <2> QED BY <2>1, <2>7, <2>8, <2>9, <1>p, <1>q
<1>7. ASSUME NEW t \in Threads, Store(t) PROVE ContentInv'
  <2>1. SaveEffect(t)
    BY <1>7, SaveEffects DEF Store
  <2>2. /\ pc[t] = "store" /\ pc' = [pc EXCEPT ![t] = "destroy"]
        /\ UNCHANGED <<hits, next, cookie, current, newCookie>>
    BY <1>7 DEF Store
  <2>3. /\ db' \in [Users -> Cookie \cup {NoRecord}]
        /\ \A k \in Users : db'[k] # NoRecord => Follows(hits, db'[k])
        /\ \A w \in late' : w.key \in Users /\ Follows(hits, w.record)
        /\ \A i : \A k \in Users : db'[k] # NoRecord /\ InLog(i, db'[k]) => Logged(i)
        /\ \A i : \A w \in late' : InLog(i, w.record) => Logged(i)
    BY <2>1, <2>2, SaveKeepsContent
  <2>4. \A u \in Threads : Holds(u)'
    BY <2>2, <1>p DEF WorkInv
  <2>5. ASSUME NEW i, Logged(i)' PROVE Past(i)'
    <3>1. Logged(i)
      BY <2>2, <2>3, <2>5 DEF Logged
    <3> QED BY <3>1, <2>2, <1>p DEF WorkInv
  <2> HIDE DEF Holds, Past
  <2> QED BY <2>2, <2>3, <2>4, <2>5, <1>p, <1>q
<1>8. ASSUME NEW t \in Threads, Destroy(t) PROVE ContentInv'
  <2>1. /\ pc[t] = "destroy" /\ pc' = [pc EXCEPT ![t] = "idle"]
        /\ cookie' = [cookie EXCEPT ![t] = Blank] /\ newCookie' = [newCookie EXCEPT ![t] = FALSE]
        /\ current' = [current EXCEPT ![t] = NoHit]
        /\ UNCHANGED <<hits, next>>
    BY <1>8 DEF Destroy
  <2>3. /\ db' \in [Users -> Cookie \cup {NoRecord}]
        /\ \A k \in Users : db'[k] # NoRecord => Follows(hits, db'[k])
        /\ \A w \in late' : w.key \in Users /\ Follows(hits, w.record)
        /\ \A i : \A k \in Users : db'[k] # NoRecord /\ InLog(i, db'[k]) => Logged(i)
        /\ \A i : \A w \in late' : InLog(i, w.record) => Logged(i)
    <3>1. CASE modified[t]
      <4>1. SaveEffect(t)
        BY <1>8, <3>1, SaveEffects DEF Destroy
      <4> QED BY <4>1, <2>1, SaveKeepsContent
    <3>2. CASE ~modified[t]
      <4>1. UNCHANGED <<db, late>>
        BY <1>8, <3>2 DEF Destroy
      <4> QED BY <4>1, <1>p DEF Logged
    <3> QED BY <3>1, <3>2
  <2>4. \A u \in Threads : Holds(u)'
    BY <2>1, <1>p DEF WorkInv
  <2>5. ASSUME NEW i, Logged(i)' PROVE Past(i)'
    <3>1. Logged(i)
      BY <2>1, <2>3, <2>5, <1>b, <1>p DEF Logged
    <3> QED BY <3>1, <2>1, <1>p DEF WorkInv
  <2>6. cookie' \in [Threads -> Cookie]
    BY <2>1, <1>b, <1>p
  <2> HIDE DEF Holds, Past
  <2> QED BY <2>1, <2>3, <2>4, <2>5, <2>6, <1>q
<1>9. ASSUME NEW t \in Threads, FatalError(t) PROVE ContentInv'
  BY <1>9 DEF FatalError, ContentInv, Logged
<1>10. CASE LateWrite
  <2>1. PICK w \in late : db' = [db EXCEPT ![w.key] = w.record] /\ late' = late \ {w}
    BY <1>10 DEF LateWrite
  <2>2. UNCHANGED <<hits, next, cookie, newCookie, current, pc>>
    BY <1>10 DEF LateWrite
  <2>3. w.key \in Users /\ Follows(hits, w.record) /\ w.record \in Cookie
    BY <1>p DEF Follows, Counts
  <2>4. \A k \in Users : db'[k] = IF k = w.key THEN w.record ELSE db[k]
    BY <2>1, <2>3, <1>p
  <2>5. db' \in [Users -> Cookie \cup {NoRecord}]
    BY <2>1, <2>3, <1>p
  <2>6. \A k \in Users : db'[k] # NoRecord => Follows(hits, db'[k])
    BY <2>3, <2>4, <1>p
  <2>7. ASSUME NEW i, Logged(i)' PROVE Past(i)'
    <3>1. Logged(i)
      BY <2>1, <2>2, <2>4, <2>7 DEF Logged
    <3> QED BY <3>1, <2>2, <1>p
  <2>8. \A u \in Threads : Holds(u)'
    BY <2>2, <1>p
  <2> HIDE DEF Holds, Past
  <2> QED BY <2>1, <2>2, <2>5, <2>6, <2>7, <2>8, <1>p, <1>q
<1>11. CASE UNCHANGED vars
  BY <1>11 DEF vars, ContentInv, Logged
<1> QED BY <1>1, <1>2, <1>4, <1>5, <1>6, <1>7, <1>8, <1>9, <1>10, <1>11 DEF Next, Step, Terminated

LEMMA LossInit ==
  ASSUME Init
  PROVE  LossInv
<1>1. /\ next = 1 /\ late = {}
      /\ \A t \in Threads : pc[t] = "idle" /\ modified[t] = FALSE
  BY DEF Init
<1>2. \A t \in Threads : ~Unsaved(t)
  BY <1>1 DEF Unsaved
<1>3. 1..(next - 1) = {}
  BY <1>1
<1> QED BY <1>1, <1>2, <1>3
        DEF LossInv, NoneMissing, NoneOverwritten, MeetingsSeen, OwnHitLogged, LateAreFaulty

\* What excuses a hit stays.
LEMMA ExcuseStays ==
  ASSUME hits' = hits, next \in Nat, next' \in Nat, next <= next',
         faulty \subseteq faulty', overlap \subseteq overlap', NEW i, Excused(i)
  PROVE  Excused(i)'
<1>1. \A j \in 1..(next - 1) : j \in 1..(next' - 1)
  <2>1. \A m, n \in Nat : m <= n => \A j \in 1..(m - 1) : j \in 1..(n - 1)
    OBVIOUS
  <2> QED BY <2>1
<1>2. CASE i \in faulty
  BY <1>2 DEF Excused
<1>3. CASE i \notin faulty
  <2>1. PICK j \in 1..(next - 1) : /\ j # i /\ KeyOf(j) = KeyOf(i)
                                   /\ j \in faulty \/ hits[j].newVisitor \/ {i, j} \in overlap
    BY <1>3 DEF Excused
  <2>2. j \in 1..(next' - 1) /\ KeyOf(j)' = KeyOf(i)'
    BY <1>1, <2>1 DEF KeyOf
  <2>3. j \in faulty' \/ hits'[j].newVisitor \/ {i, j} \in overlap'
    BY <2>1
  <2> QED BY <2>1, <2>2, <2>3 DEF Excused
<1> QED BY <1>2, <1>3

LEMMA CurrentInRange ==
  ASSUME WorkInv, NEW t \in Threads, pc[t] \in Working
  PROVE  /\ current[t] \in 1..(next - 1) /\ current[t] \in 1..Len(hits) /\ KeyOf(current[t]) \in Users
         /\ \A i \in 1..(next - 1) : KeyOf(i) \in Users
         /\ \A u \in Threads : u # t => current[u] # current[t]
<1>1. next \in 1..(Len(hits) + 1) /\ Len(hits) \in Nat /\ current[t] \in 1..(next - 1)
  BY HitsAreHits DEF WorkInv
<1>2. \A i \in 1..(next - 1) : i \in 1..Len(hits)
  BY <1>1
<1>3. \A i \in 1..(next - 1) : KeyOf(i) \in Users
  BY <1>2, HitsAreHits DEF WorkInv
<1>4. \A u \in Threads : u # t => current[u] # current[t]
  BY DEF WorkInv
<1> QED BY <1>1, <1>2, <1>3, <1>4

\* A save loses no hit: what it writes over was in the cookie, or is excused.
LEMMA SaveLosesNone ==
  ASSUME WorkInv, ContentInv, LossInv, NEW t \in Threads, pc[t] \in {"store", "destroy"},
         Unsaved(t), SaveEffect(t), UNCHANGED <<hits, next, overlap>>
  PROVE  /\ \A i \in 1..(next - 1) : Through(i) \/ i = current[t] => InRecord(i)' \/ Excused(i)'
         /\ LateAreFaulty'
         /\ faulty \subseteq faulty'
<1> DEFINE i0 == current[t]
           c == Serialized(cookie[t])
<1>0. next \in Nat /\ hits \in Seq(Hit)
  BY HitsAreHits DEF WorkInv
<1>1. /\ i0 \in 1..(next - 1) /\ KeyOf(i0) \in Users /\ \A i \in 1..(next - 1) : KeyOf(i) \in Users
  BY CurrentInRange DEF Working
<1>2. faulty \subseteq faulty'
  BY DEF SaveEffect
<1>3. \A i : Excused(i) => Excused(i)'
  BY <1>0, <1>2, ExcuseStays
<1>4. \A i : KeyOf(i)' = KeyOf(i)
  BY DEF KeyOf
<1>5. c # NoRecord /\ c.log = cookie[t].log
  <2>1. Follows(hits, cookie[t])
    BY DEF ContentInv
  <2>2. Follows(hits, c) /\ c.log = cookie[t].log
    BY <1>0, <2>1, SavedFollows
  <2> QED BY <2>2, NoRecordAssumption DEF Follows, Counts
<1> HIDE DEF c
<1>6. CASE db' = [db EXCEPT ![KeyOf(i0)] = c] /\ late' = late /\ faulty' = faulty
  <2>1. \A k \in Users : db'[k] = IF k = KeyOf(i0) THEN c ELSE db[k]
    BY <1>1, <1>6 DEF ContentInv
  <2>2. ASSUME NEW i \in 1..(next - 1), Through(i) \/ i = i0 PROVE InRecord(i)' \/ Excused(i)'
    <3>1. CASE KeyOf(i) = KeyOf(i0)
      <4>1. InLog(i, cookie[t]) \/ Excused(i)
        BY <2>2, <3>1 DEF LossInv, NoneOverwritten, OwnHitLogged
      <4>2. InLog(i, cookie[t]) => InRecord(i)'
        BY <1>1, <1>4, <1>5, <2>1, <3>1 DEF InLog, InRecord, Contains
      <4> QED BY <4>1, <4>2, <1>3
    <3>2. CASE KeyOf(i) # KeyOf(i0)
      <4>1. InRecord(i) \/ Excused(i)
        BY <2>2, <3>2 DEF LossInv, NoneMissing
      <4>2. InRecord(i) => InRecord(i)'
        BY <1>1, <1>4, <2>1, <3>2 DEF InRecord
      <4> QED BY <4>1, <4>2, <1>3
    <3> QED BY <3>1, <3>2
  <2>3. LateAreFaulty'
    BY <1>4, <1>6 DEF LossInv, LateAreFaulty
  <2> QED BY <1>2, <2>2, <2>3
<1>7. CASE /\ db' = db /\ faulty' = faulty \cup {i0}
           /\ late' = late \/ late' = late \cup {[key |-> KeyOf(i0), record |-> c]}
  <2>1. ASSUME NEW i \in 1..(next - 1), Through(i) \/ i = i0 PROVE InRecord(i)' \/ Excused(i)'
    <3>1. CASE i = i0
      BY <3>1, <1>7 DEF Excused
    <3>2. CASE i # i0
      <4>1. InRecord(i) \/ Excused(i)
        BY <2>1, <3>2 DEF LossInv, NoneMissing
      <4>2. InRecord(i) => InRecord(i)'
        BY <1>4, <1>7 DEF InRecord
      <4> QED BY <4>1, <4>2, <1>3
    <3> QED BY <3>1, <3>2
  <2>2. LateAreFaulty'
    <3> SUFFICES ASSUME NEW w \in late' PROVE \E j \in faulty' : KeyOf(j)' = w.key
      BY DEF LateAreFaulty
    <3>1. CASE w \in late
      BY <3>1, <1>2, <1>4 DEF LossInv, LateAreFaulty
    <3>2. CASE w \notin late
      <4>1. w = [key |-> KeyOf(i0), record |-> c]
        BY <3>2, <1>7
      <4>2. w.key = KeyOf(i0) /\ i0 \in faulty'
        BY <4>1, <1>7
      <4> QED BY <4>2, <1>4
    <3> QED BY <3>1, <3>2
  <2> QED BY <1>2, <2>1, <2>2
<1> QED BY <1>6, <1>7 DEF SaveEffect, c

LEMMA LossStep ==
  ASSUME WorkInv, ContentInv, LossInv, [Next]_vars
  PROVE  LossInv'
<1>0. next \in Nat \ {0} /\ hits \in Seq(Hit) /\ Len(hits) \in Nat
  BY HitsAreHits DEF WorkInv
<1>p. NoneMissing /\ NoneOverwritten /\ MeetingsSeen /\ OwnHitLogged /\ LateAreFaulty
  BY DEF LossInv
<1>q. NoneMissing' /\ NoneOverwritten' /\ MeetingsSeen' /\ OwnHitLogged' /\ LateAreFaulty' => LossInv'
  BY DEF LossInv
<1>k. hits' = hits => \A i : KeyOf(i)' = KeyOf(i)
  BY DEF KeyOf
<1>1. ASSUME NEW t \in Threads, Take(t) PROVE LossInv'
  <2>1. /\ pc' = [pc EXCEPT ![t] = "construct"] /\ current' = [current EXCEPT ![t] = next]
        /\ pc[t] = "idle" /\ next' = next + 1
        /\ UNCHANGED <<hits, db, cookie, newCookie, modified, late, faulty, overlap>>
    BY <1>1 DEF Take
  <2>2. \A i : Excused(i) => Excused(i)'
    BY <2>1, <1>0, ExcuseStays
  <2>3. \A i : KeyOf(i)' = KeyOf(i)
    BY <2>1, <1>k
  <2>4. ASSUME NEW i \in 1..(next' - 1), Through(i)' PROVE i \in 1..(next - 1) /\ Through(i)
    <3>1. current'[t] = next /\ pc'[t] = "construct"
      BY <2>1 DEF WorkInv
    <3>2. i # next
      BY <3>1, <2>4 DEF Through
    <3>3. i \in 1..(next - 1)
      BY <3>2, <2>1, <1>0
    <3>4. current[t] # i
      BY SMTT(40), <3>3, <2>1, <1>0 DEF WorkInv, Working, NoHit
    <3> QED BY <3>3, <3>4, <2>1, <2>4 DEF Through, WorkInv
  <2>5. \A u \in Threads : Unsaved(u)' =>
          u # t /\ Unsaved(u) /\ current'[u] = current[u] /\ cookie'[u] = cookie[u]
    BY <2>1 DEF Unsaved, WorkInv
  <2>6. NoneMissing'
    BY <2>1, <2>2, <2>3, <2>4, <1>p DEF NoneMissing, InRecord
  <2>7. NoneOverwritten'
    BY <2>2, <2>3, <2>4, <2>5, <1>p DEF NoneOverwritten
  <2>8. MeetingsSeen'
    BY <2>1, <2>3, <2>5, <1>p DEF MeetingsSeen
  <2>9. OwnHitLogged' /\ LateAreFaulty'
    BY <2>1, <2>3, <1>p DEF OwnHitLogged, LateAreFaulty, WorkInv
  <2> QED BY <2>6, <2>7, <2>8, <2>9, <1>q
<1>2. ASSUME NEW t \in Threads, Stop(t) PROVE LossInv'
  <2>1. /\ pc' = [pc EXCEPT ![t] = "done"] /\ pc[t] = "idle"
        /\ UNCHANGED <<hits, next, db, cookie, newCookie, modified, late, faulty, overlap, current>>
    BY <1>2 DEF Stop
  <2>2. \A i : /\ Excused(i)' = Excused(i) /\ InRecord(i)' = InRecord(i) /\ KeyOf(i)' = KeyOf(i)
               /\ Through(i)' => Through(i)
    BY <2>1 DEF Excused, InRecord, KeyOf, Through, WorkInv
  <2>3. \A u \in Threads : Unsaved(u)' => Unsaved(u)
    BY <2>1 DEF Unsaved, WorkInv
  <2>4. OwnHitLogged'
    BY <2>1, <1>p DEF OwnHitLogged, WorkInv
  <2> QED BY <2>1, <2>2, <2>3, <2>4, <1>p, <1>q
          DEF NoneMissing, NoneOverwritten, MeetingsSeen, LateAreFaulty
<1>3. ASSUME NEW t \in Threads, pc[t] = "construct", NEW isNew, NEW c,
             Constructed(t, isNew, c), UNCHANGED <<db, late>>, faulty \subseteq faulty',
             \A i \in 1..(next - 1) :
               Through(i) /\ KeyOf(i) = KeyOf(current[t]) => InLog(i, c) \/ Excused(i)'
      PROVE  LossInv'
  <2>1. /\ pc' = [pc EXCEPT ![t] = "update"] /\ cookie' = [cookie EXCEPT ![t] = c]
        /\ modified' = [modified EXCEPT ![t] = FALSE]
        /\ overlap' = overlap \cup
             {{current[t], current[u]} :
                u \in {v \in Threads \ {t} : Unsaved(v) /\ KeyOf(current[v]) = KeyOf(current[t])}}
        /\ UNCHANGED <<hits, next, db, late, current>>
    BY <1>3 DEF Constructed
  <2>2. \A i : Excused(i) => Excused(i)'
    BY <2>1, <1>0, <1>3, ExcuseStays
  <2>3. \A i : KeyOf(i)' = KeyOf(i)
    BY <2>1, <1>k
  <2>4. \A i : Through(i)' => Through(i)
    BY <2>1, <1>3 DEF Through, WorkInv
  <2>5. \A u \in Threads : u # t => Unsaved(u)' = Unsaved(u) /\ cookie'[u] = cookie[u]
    BY <2>1 DEF Unsaved, WorkInv, ContentInv
  <2>6. cookie'[t] = c
    BY <2>1 DEF ContentInv
  <2>7. NoneMissing'
    BY <2>1, <2>2, <2>4, <1>p, <2>3 DEF NoneMissing, InRecord
  <2>8. NoneOverwritten'
    <3> SUFFICES ASSUME NEW u \in Threads, Unsaved(u)', NEW i \in 1..(next - 1),
                        Through(i)', KeyOf(i) = KeyOf(current[u])
                 PROVE  InLog(i, cookie'[u]) \/ Excused(i)'
      BY <2>1, <2>3 DEF NoneOverwritten
    <3>1. CASE u = t
      BY <3>1, <2>4, <2>6, <1>3
    <3>2. CASE u # t
      BY <3>2, <2>2, <2>4, <2>5, <1>p DEF NoneOverwritten
    <3> QED BY <3>1, <3>2
  <2>9. MeetingsSeen'
    <3> SUFFICES ASSUME NEW u \in Threads, NEW v \in Threads, u # v, Unsaved(u)', Unsaved(v)',
                        KeyOf(current[u]) = KeyOf(current[v])
                 PROVE  {current[u], current[v]} \in overlap'
      BY <2>1, <2>3 DEF MeetingsSeen
    <3>1. CASE u = t
      BY <3>1, <2>1, <2>5
    <3>2. CASE v = t
      <4>1. {current[v], current[u]} \in overlap'
        BY <3>2, <2>1, <2>5
      <4>2. {current[v], current[u]} = {current[u], current[v]}
        OBVIOUS
      <4> QED BY <4>1, <4>2
    <3>3. CASE u # t /\ v # t
      BY <3>3, <2>1, <2>5, <1>p DEF MeetingsSeen
    <3> QED BY <3>1, <3>2, <3>3
  <2>10. OwnHitLogged' /\ LateAreFaulty'
    BY <2>1, <2>3, <2>5, <1>3, <1>p DEF OwnHitLogged, LateAreFaulty, WorkInv
  <2> QED BY <2>7, <2>8, <2>9, <2>10, <1>q
<1>4. ASSUME NEW t \in Threads, Construct(t) PROVE LossInv'
  <2> DEFINE i0 == current[t]
             record == db[KeyOf(i0)]
  <2>1. pc[t] = "construct" /\ UNCHANGED <<db, late, faulty>>
    BY <1>4 DEF Construct, Constructed
  <2>2. UNCHANGED <<hits, next>> /\ overlap \subseteq overlap'
    BY <1>4 DEF Construct, Constructed
  <2>3. i0 \in 1..(next - 1) /\ KeyOf(i0) \in Users
    BY <2>1, CurrentInRange DEF Working
  <2>4. \A i : Excused(i) => Excused(i)'
    BY <2>1, <2>2, <1>0, ExcuseStays
  <2>5. \A i : Through(i) => i # i0
    BY <2>1 DEF Through
  <2>6. CASE Constructed(t, TRUE, Blank) /\ (hits[i0].newVisitor \/ record = NoRecord)
    <3>1. ASSUME NEW i \in 1..(next - 1), Through(i), KeyOf(i) = KeyOf(i0) PROVE Excused(i)'
      <4>1. CASE hits[i0].newVisitor
        <5>1. Excused(i)
          BY <4>1, <3>1, <2>3, <2>5 DEF Excused
        <5> QED BY <5>1, <2>4
      <4>2. CASE record = NoRecord
        <5>1. ~InRecord(i)
          BY <4>2, <3>1 DEF InRecord
        <5>2. Excused(i)
          BY <5>1, <3>1, <1>p DEF NoneMissing
        <5> QED BY <5>2, <2>4
      <4> QED BY <4>1, <4>2, <2>6
    <3> QED BY <3>1, <2>1, <2>6, <1>3
  <2>7. CASE Constructed(t, FALSE, Deserialized(record)) /\ record # NoRecord
    <3>1. Follows(hits, record) /\ Deserialized(record) = record
      BY <2>3, <2>7, LoadedIsSaved DEF ContentInv
    <3>2. ASSUME NEW i \in 1..(next - 1), Through(i), KeyOf(i) = KeyOf(i0)
          PROVE  InLog(i, record) \/ Excused(i)'
      <4>1. InRecord(i) \/ Excused(i)
        BY <3>2, <1>p DEF NoneMissing
      <4>2. InRecord(i) => InLog(i, record)
        BY <3>2 DEF InRecord, InLog, Contains
      <4> QED BY <4>1, <4>2, <2>4
    <3>3. Constructed(t, FALSE, record)
      BY <2>7, <3>1
    <3> QED BY <3>2, <3>3, <2>1, <1>3
  <2> QED BY <1>4, <2>6, <2>7 DEF Construct
<1>5. ASSUME NEW t \in Threads, ConstructUnread(t) PROVE LossInv'
  <2>1. /\ pc[t] = "construct" /\ UNCHANGED <<db, late, hits, next>>
        /\ Constructed(t, TRUE, Blank) /\ faulty' = faulty \cup {current[t]}
    BY <1>5 DEF ConstructUnread, Constructed
  <2>2. PICK j : j = current[t]
    OBVIOUS
  <2>3. j \in 1..(next - 1) /\ j \in faulty'
    BY <2>1, <2>2, CurrentInRange DEF Working
  <2>4. \A i : Through(i) => i # j
    BY <2>1, <2>2 DEF Through
  <2>5. \A i : KeyOf(i)' = KeyOf(i)
    BY <2>1, <1>k
  <2>6. ASSUME NEW i \in 1..(next - 1), Through(i), KeyOf(i) = KeyOf(j) PROVE Excused(i)'
    <3>1. j \in 1..(next' - 1) /\ j # i /\ KeyOf(j)' = KeyOf(i)'
      BY <2>1, <2>3, <2>4, <2>5, <2>6
    <3> QED BY <3>1, <2>3 DEF Excused
  <2> QED BY <2>1, <2>2, <2>6, <1>3
<1>6. ASSUME NEW t \in Threads, Update(t) PROVE LossInv'
  <2> DEFINE c == Updated(cookie[t], current[t], newCookie[t])
  <2>1. /\ pc[t] = "update" /\ pc' = [pc EXCEPT ![t] = "store"]
        /\ cookie' = [cookie EXCEPT ![t] = c] /\ modified' = [modified EXCEPT ![t] = TRUE]
        /\ UNCHANGED <<hits, next, db, late, current, faulty, overlap>>
    BY <1>6 DEF Update
  <2>2. \A i : /\ Excused(i)' = Excused(i) /\ InRecord(i)' = InRecord(i) /\ KeyOf(i)' = KeyOf(i)
               /\ Through(i)' => Through(i)
    BY <2>1 DEF Excused, InRecord, KeyOf, Through, WorkInv
  <2>3. \A u \in Threads : Unsaved(u)' => Unsaved(u)
    BY <2>1 DEF Unsaved, WorkInv
  <2>4. \A i : InLog(i, c) <=> InLog(i, cookie[t]) \/ i = current[t]
    <3>1. /\ cookie[t].log \in Seq(Nat) /\ current[t] \in Nat
      <4>1. cookie[t] \in Cookie
        BY DEF ContentInv
      <4>2. current[t] \in 1..(next - 1)
        BY <2>1, CurrentInRange DEF Working
      <4> QED BY <4>1, <4>2, <1>0 DEF Cookie
    <3>2. c.log = Append(cookie[t].log, current[t])
      <4>1. cookie[t] \in Cookie
        BY DEF ContentInv
      <4>2. DOMAIN cookie[t] = {"firstHit", "lastHit", "lastPurchaseTime", "lastPurchaseNum",
                                "purchaseIds", "log"}
        BY <4>1 DEF Cookie
      <4> QED BY <4>2 DEF Updated
    <3> HIDE DEF c
    <3>3. /\ Len(cookie[t].log) \in Nat /\ Len(c.log) = Len(cookie[t].log) + 1
          /\ \A n \in 1..Len(cookie[t].log) : c.log[n] = cookie[t].log[n]
          /\ c.log[Len(cookie[t].log) + 1] = current[t]
      BY <3>1, <3>2, AppendProperties, LenProperties
    <3>4. \A n \in 1..Len(c.log) : n \in 1..Len(cookie[t].log) \/ n = Len(cookie[t].log) + 1
      BY <3>3
    <3>5. /\ \A n \in 1..Len(cookie[t].log) : n \in 1..Len(c.log)
          /\ Len(cookie[t].log) + 1 \in 1..Len(c.log)
      BY <3>3
    <3> QED BY <3>3, <3>4, <3>5 DEF InLog
  <2> HIDE DEF c
  <2>5. cookie'[t] = c /\ \A u \in Threads : u # t => cookie'[u] = cookie[u]
    BY <2>1 DEF ContentInv
  <2>6. \A u \in Threads : \A i : InLog(i, cookie[u]) => InLog(i, cookie'[u])
    BY <2>4, <2>5
  <2>7. NoneOverwritten'
    BY <2>1, <2>2, <2>3, <2>6, <1>p DEF NoneOverwritten
  <2>8. OwnHitLogged'
    BY <2>1, <2>4, <2>5, <1>p DEF OwnHitLogged, WorkInv
  <2> QED BY <2>1, <2>2, <2>3, <2>7, <2>8, <1>p, <1>q
          DEF NoneMissing, MeetingsSeen, LateAreFaulty
<1>7. ASSUME NEW t \in Threads, Store(t) PROVE LossInv'
  <2>1. SaveEffect(t)
    BY <1>7, SaveEffects DEF Store
  <2>2. /\ pc[t] = "store" /\ pc' = [pc EXCEPT ![t] = "destroy"]
        /\ \A u \in Threads : u # t => modified'[u] = modified[u]
        /\ UNCHANGED <<hits, next, cookie, current, overlap>>
    BY <1>7 DEF Store, WorkInv
  <2>3. Unsaved(t)
    BY <2>2 DEF Unsaved
  <2>4. /\ \A i \in 1..(next - 1) : Through(i) \/ i = current[t] => InRecord(i)' \/ Excused(i)'
        /\ LateAreFaulty' /\ faulty \subseteq faulty'
    BY <2>1, <2>2, <2>3, SaveLosesNone
  <2>5. \A i : Excused(i) => Excused(i)'
    BY <2>2, <2>4, <1>0, ExcuseStays
  <2>6. \A i : KeyOf(i)' = KeyOf(i)
    BY <2>2, <1>k
  <2>7. /\ current[t] \in 1..(next - 1)
        /\ \A u \in Threads : u # t => current[u] # current[t]
    BY <2>2, CurrentInRange DEF Working
  <2>8. \A i : Through(i)' => Through(i) \/ i = current[t]
    BY <2>2, <2>7 DEF Through, WorkInv
  <2>9. \A u \in Threads : Unsaved(u)' => Unsaved(u)
    BY <2>2, <2>3 DEF Unsaved, WorkInv
  <2>10. NoneMissing'
    BY <2>2, <2>4, <2>8 DEF NoneMissing
  <2>11. NoneOverwritten'
    <3> SUFFICES ASSUME NEW u \in Threads, Unsaved(u), NEW i \in 1..(next - 1),
                        Through(i)', KeyOf(i) = KeyOf(current[u])
                 PROVE  InLog(i, cookie[u]) \/ Excused(i)'
      BY <2>2, <2>6, <2>9 DEF NoneOverwritten
    <3>1. CASE Through(i)
      BY <3>1, <2>5, <1>p DEF NoneOverwritten
    <3>2. CASE i = current[t] /\ u = t
      BY <3>2, <2>2, <1>p DEF OwnHitLogged
    <3>3. CASE i = current[t] /\ u # t
      <4>1. {current[t], current[u]} \in overlap
        BY <3>3, <2>3, <1>p DEF MeetingsSeen
      <4>2. pc[u] \in Working
        BY DEF Unsaved, WorkInv, Working
      <4>3. current[u] \in 1..(next - 1) /\ current[u] # i
        BY <3>3, <4>2, <2>7 DEF WorkInv
      <4>4. Excused(i)
        BY <3>3, <4>1, <4>3 DEF Excused
      <4> QED BY <4>4, <2>5
    <3> QED BY <3>1, <3>2, <3>3, <2>8
  <2>12. MeetingsSeen'
    BY <2>2, <2>6, <2>9, <1>p DEF MeetingsSeen
  <2>13. OwnHitLogged'
    BY <2>2, <1>p DEF OwnHitLogged, WorkInv
  <2> QED BY <2>4, <2>10, <2>11, <2>12, <2>13, <1>q
<1>8. ASSUME NEW t \in Threads, Destroy(t) PROVE LossInv'
  <2>1. /\ pc[t] = "destroy" /\ pc' = [pc EXCEPT ![t] = "idle"]
        /\ current' = [current EXCEPT ![t] = NoHit]
        /\ cookie' = [cookie EXCEPT ![t] = Blank]
        /\ modified' = [modified EXCEPT ![t] = FALSE]
        /\ UNCHANGED <<hits, next, overlap>>
    BY <1>8 DEF Destroy
  <2>2. /\ \A i \in 1..(next - 1) : Through(i) => InRecord(i)' \/ Excused(i)'
        /\ LateAreFaulty' /\ faulty \subseteq faulty'
    <3>1. CASE modified[t]
      <4>1. SaveEffect(t) /\ Unsaved(t)
        BY <1>8, <3>1, SaveEffects DEF Destroy, Unsaved
      <4> QED BY <4>1, <2>1, SaveLosesNone
    <3>2. CASE ~modified[t]
      <4>1. UNCHANGED <<db, late, faulty>>
        BY <1>8, <3>2 DEF Destroy
      <4>2. \A i : Excused(i)' = Excused(i) /\ InRecord(i)' = InRecord(i) /\ KeyOf(i)' = KeyOf(i)
        BY <4>1, <2>1 DEF Excused, InRecord, KeyOf
      <4> QED BY <4>1, <4>2, <1>p DEF NoneMissing, LateAreFaulty
    <3> QED BY <3>1, <3>2
  <2>3. \A i : Excused(i) => Excused(i)'
    BY <2>1, <2>2, <1>0, ExcuseStays
  <2>4. \A i : KeyOf(i)' = KeyOf(i)
    BY <2>1, <1>k
  <2>5. \A i \in 1..(next - 1) : Through(i)' => Through(i)
    <3>1. \A i \in 1..(next - 1) : i # NoHit
      BY <1>0 DEF NoHit
    <3> QED BY <3>1, <2>1 DEF Through, WorkInv
  <2>6. \A u \in Threads : Unsaved(u)' =>
          u # t /\ Unsaved(u) /\ current'[u] = current[u] /\ cookie'[u] = cookie[u]
    BY <2>1 DEF Unsaved, WorkInv, ContentInv
  <2>7. NoneMissing'
    BY <2>1, <2>2, <2>5 DEF NoneMissing
  <2>8. NoneOverwritten'
    BY <2>1, <2>3, <2>4, <2>5, <2>6, <1>p DEF NoneOverwritten
  <2>9. MeetingsSeen'
    BY <2>1, <2>4, <2>6, <1>p DEF MeetingsSeen
  <2>10. OwnHitLogged'
    BY <2>1, <1>p DEF OwnHitLogged, WorkInv, ContentInv
  <2> QED BY <2>2, <2>7, <2>8, <2>9, <2>10, <1>q
<1>9. ASSUME UNCHANGED <<hits, next, db, cookie, pc, modified, late, faulty, overlap, current>>
      PROVE  LossInv'
  <2>1. \A i : /\ Excused(i)' = Excused(i) /\ InRecord(i)' = InRecord(i) /\ KeyOf(i)' = KeyOf(i)
               /\ Through(i)' = Through(i)
    BY <1>9 DEF Excused, InRecord, KeyOf, Through
  <2>2. \A u : Unsaved(u)' = Unsaved(u)
    BY <1>9 DEF Unsaved
  <2> QED BY <2>1, <2>2, <1>9, <1>p, <1>q
          DEF NoneMissing, NoneOverwritten, MeetingsSeen, OwnHitLogged, LateAreFaulty
<1>10. CASE LateWrite
  <2>1. PICK w \in late : db' = [db EXCEPT ![w.key] = w.record] /\ late' = late \ {w}
    BY <1>10 DEF LateWrite
  <2>2. UNCHANGED <<hits, next, cookie, pc, modified, faulty, overlap, current>>
    BY <1>10 DEF LateWrite
  <2>3. \A i : Excused(i)' = Excused(i) /\ KeyOf(i)' = KeyOf(i) /\ Through(i)' = Through(i)
    BY <2>2 DEF Excused, KeyOf, Through
  <2>4. \A u : Unsaved(u)' = Unsaved(u)
    BY <2>2 DEF Unsaved
  <2>5. NoneMissing'
    <3> SUFFICES ASSUME NEW i \in 1..(next - 1), Through(i) PROVE InRecord(i)' \/ Excused(i)
      BY <2>2, <2>3 DEF NoneMissing
    <3>1. CASE KeyOf(i) = w.key
      <4>1. PICK j \in faulty : KeyOf(j) = w.key
        BY <1>p DEF LateAreFaulty
      <4>2. j \in 1..(next - 1)
        BY DEF WorkInv
      <4> QED BY <3>1, <4>1, <4>2 DEF Excused
    <3>2. CASE KeyOf(i) # w.key
      <4>1. db'[KeyOf(i)] = db[KeyOf(i)]
        BY <3>2, <2>1 DEF ContentInv
      <4>2. InRecord(i)' = InRecord(i)
        BY <4>1, <2>3 DEF InRecord
      <4> QED BY <4>2, <1>p DEF NoneMissing
    <3> QED BY <3>1, <3>2
  <2> QED BY <2>1, <2>2, <2>3, <2>4, <2>5, <1>p, <1>q
          DEF NoneOverwritten, MeetingsSeen, OwnHitLogged, LateAreFaulty
<1>11. ASSUME NEW t \in Threads, FatalError(t) PROVE LossInv'
  BY <1>9, <1>11 DEF FatalError
<1>12. CASE UNCHANGED vars
  BY <1>9, <1>12 DEF vars
<1> QED BY <1>1, <1>2, <1>4, <1>5, <1>6, <1>7, <1>8, <1>10, <1>11, <1>12 DEF Next, Step, Terminated
----------------------------------------------------------------------------
(* Theorems                                                                *)

Inv == WorkInv /\ ContentInv /\ LossInv

\* Inv holds of every reachable state: of the loop of WorkerThread, the life
\* of a VCookie and the calls of VCCouchbaseStore, for any threads.
THEOREM Invariant == Spec => []Inv
<1>1. Init => Inv
  BY WorkInit, ContentInit, LossInit DEF Inv
<1>2. Inv /\ [Next]_vars => Inv'
  BY WorkStep, ContentStep, LossStep DEF Inv
<1> QED BY <1>1, <1>2, PTL DEF Spec

LEMMA InvGivesTypes ==
  ASSUME Inv
  PROVE  TypeOK
<1>0. WorkInv /\ ContentInv /\ next \in 1..(Len(hits) + 1) /\ Len(hits) \in Nat /\ hits \in Seq(Hit)
  BY HitsAreHits DEF Inv, WorkInv
<1>1. \A i \in 1..(next - 1) : i \in 1..Len(hits)
  BY <1>0
<1>2. ASSUME NEW c \in Records \cup {cookie[t] : t \in Threads} \cup {w.record : w \in late}
      PROVE  c \in Cookie /\ Len(c.purchaseIds) <= NUM_SAVED_PURCHASE_IDS
  <2>1. Counts(hits, c)
    <3>1. CASE c \in Records
      BY <1>0, <3>1 DEF Records, ContentInv, Follows
    <3>2. CASE \E t \in Threads : c = cookie[t]
      BY <1>0, <3>2, BlankCounts DEF ContentInv, Follows
    <3>3. CASE \E w \in late : c = w.record
      BY <1>0, <3>3 DEF ContentInv, Follows
    <3> QED BY <3>1, <3>2, <3>3
  <2> QED BY <2>1 DEF Counts, IdList
<1>3. faulty \subseteq 1..Len(hits) /\ \A pair \in overlap : pair \subseteq 1..Len(hits) /\ Cardinality(pair) = 2
  BY <1>0, <1>1 DEF WorkInv
<1> QED BY <1>0, <1>2, <1>3 DEF TypeOK, WorkInv, Working, NoHit

\* Every variable has its type, and no cookie and no record has more
\* purchase ids than fit (SetPurchaseId).
THEOREM TypeCorrect == Spec => []TypeOK
<1>1. Inv => TypeOK
  BY InvGivesTypes
<1> QED BY <1>1, Invariant, PTL

\* RecordsFollowTheirHits: whatever the threads, the failures of the store
\* and the late writes do, a record is what SetPurchaseId and the setters of
\* WorkerThread make of the hits in its log, each counted once.
THEOREM RecordsFollow == Spec => []RecordsFollowTheirHits
<1>1. ASSUME Inv PROVE RecordsFollowTheirHits
  <2>1. TypeOK
    BY <1>1, InvGivesTypes
  <2>2. hits \in Seq(Hit)
    BY <1>1, HitsAreHits DEF Inv, WorkInv
  <2>3. ASSUME NEW c \in Records PROVE IsWhatHitsMake(c)
    <3>1. Follows(hits, c)
      BY <1>1 DEF Records, Inv, ContentInv
    <3> QED BY <2>2, <3>1, FollowingIsWhatHitsMake
  <2> QED BY <2>1, <2>3, Zenon DEF RecordsFollowTheirHits, IsWhatHitsMake
<1> QED BY <1>1, Invariant, PTL

\* EachLossHasACause: without a failing store, a visitor declared new or two
\* threads at work on one key, WorkerThread loses no hit it worked through.
THEOREM LossesHaveCauses == Spec => []EachLossHasACause
<1>1. ASSUME Inv PROVE EachLossHasACause
  <2>1. ASSUME NEW i \in Finished PROVE InRecord(i) \/ Excused(i)
    <3>1. i \in 1..(next - 1) /\ Through(i)
      BY DEF Finished, Through
    <3> QED BY <1>1, <3>1 DEF Inv, LossInv, NoneMissing
  <2> QED BY <2>1 DEF EachLossHasACause, Excused
<1> QED BY <1>1, Invariant, PTL

----------------------------------------------------------------------------
(* One worker alone implements ProfileLog                                  *)

\* The log of the record of key k.
LogOf(k) == IF db[k] = NoRecord THEN <<>> ELSE db[k].log

\* Nothing fails, and the cookie of worker w goes on from the record.
AloneInv(w) ==
  /\ faulty = {} /\ late = {}
  /\ modified[w] => pc[w] = "store"
  /\ pc[w] \in {"construct", "update", "store"} => current[w] = next - 1
  /\ pc[w] = "update" => cookie[w].log = LogOf(KeyOf(current[w]))
  /\ pc[w] = "store" => cookie[w].log = Append(LogOf(KeyOf(current[w])), current[w])

NobodyIsNew == \A replay \in Replays : \A i \in 1..Len(replay) : ~replay[i].newVisitor

LEMMA CannotFail ==
  ASSUME MaxFaulty = 0, NEW t, IsFiniteSet(faulty)
  PROVE  ~CanFail(t)
<1>1. IsFiniteSet(faulty \cup {current[t]})
  BY FS_AddElement
<1>2. Cardinality(faulty \cup {current[t]}) \in Nat
  BY <1>1, FS_CardinalityType
<1>3. Cardinality(faulty \cup {current[t]}) # 0
  BY <1>1, FS_EmptySet
<1> QED BY <1>2, <1>3 DEF CanFail

LEMMA AloneInit ==
  ASSUME NEW w \in Threads, Init
  PROVE  AloneInv(w)
BY DEF Init, AloneInv

\* What each step of one worker does when nothing fails.
LEMMA AloneSteps ==
  ASSUME NEW w, Threads = {w}, MaxFaulty = 0, NobodyIsNew, WorkInv, ContentInv, AloneInv(w),
         [Next]_vars
  PROVE  \/ Take(w)
         \/ Stop(w)
         \/ /\ pc[w] = "construct" /\ UNCHANGED <<db, late, faulty>>
            /\ \E c, isNew : Constructed(w, isNew, c) /\ c.log = LogOf(KeyOf(current[w]))
         \/ Update(w)
         \/ Saved(w) /\ modified' = [modified EXCEPT ![w] = FALSE] /\ Store(w)
         \/ Destroy(w) /\ UNCHANGED <<db, late, faulty>>
         \/ UNCHANGED vars
<1>0. ~CanFail(w)
  <2>1. IsFiniteSet(faulty)
    BY FS_EmptySet DEF AloneInv
  <2> QED BY <2>1, CannotFail
<1>1. ~LateWrite
  BY DEF LateWrite, AloneInv
<1>2. ~FatalError(w) /\ ~ConstructUnread(w) /\ ~Refused(w) /\ ~TimedOut(w)
  BY <1>0 DEF FatalError, ConstructUnread, Refused, TimedOut
<1>3. ASSUME Construct(w)
      PROVE  /\ pc[w] = "construct" /\ UNCHANGED <<db, late, faulty>>
             /\ \E c, isNew : Constructed(w, isNew, c) /\ c.log = LogOf(KeyOf(current[w]))
  <2> DEFINE record == db[KeyOf(current[w])]
  <2>1. pc[w] = "construct" /\ UNCHANGED <<db, late, faulty>>
    BY <1>3 DEF Construct, Constructed
  <2>2. current[w] \in 1..Len(hits) /\ KeyOf(current[w]) \in Users
    BY <2>1, CurrentInRange DEF Working
  <2>3. ~hits[current[w]].newVisitor
    BY <2>2 DEF NobodyIsNew, WorkInv
  <2>4. CASE record = NoRecord
    <3>1. Blank.log = LogOf(KeyOf(current[w]))
      BY <2>4 DEF LogOf, Blank
    <3> QED BY <3>1, <2>1, <2>4, <1>3 DEF Construct
  <2>5. CASE record # NoRecord
    <3>1. Deserialized(record) = record
      BY <2>2, <2>5, LoadedIsSaved DEF ContentInv
    <3>2. Constructed(w, FALSE, record)
      BY <2>3, <2>5, <3>1, <1>3 DEF Construct
    <3>3. record.log = LogOf(KeyOf(current[w]))
      BY <2>5 DEF LogOf
    <3> HIDE DEF record
    <3> QED BY <2>1, <3>2, <3>3
  <2> QED BY <2>4, <2>5
<1>4. ASSUME Store(w) PROVE Saved(w) /\ modified' = [modified EXCEPT ![w] = FALSE]
  BY <1>2, <1>4 DEF Store, Returned, Threw
<1>5. ASSUME Destroy(w) PROVE UNCHANGED <<db, late, faulty>>
  <2>1. ~modified[w]
    BY <1>5 DEF Destroy, AloneInv
  <2> QED BY <1>5, <2>1 DEF Destroy
<1>6. \A t \in Threads : t = w
  OBVIOUS
<1>7. Step(w) \/ UNCHANGED vars
  BY <1>1, <1>6 DEF Next, Terminated
<1> QED BY <1>2, <1>3, <1>4, <1>5, <1>7 DEF Step

LEMMA AloneStep ==
  ASSUME NEW w, Threads = {w}, MaxFaulty = 0, NobodyIsNew, WorkInv, ContentInv, AloneInv(w),
         [Next]_vars
  PROVE  AloneInv(w)'
<1>0. next \in Nat \ {0} /\ w \in Threads
  BY HitsAreHits DEF WorkInv
<1>a. hits' = hits => \A i : KeyOf(i)' = KeyOf(i)
  BY DEF KeyOf
<1>b. db' = db => \A k : LogOf(k)' = LogOf(k)
  BY DEF LogOf
<1>1. CASE Take(w)
  BY <1>0, <1>1 DEF Take, AloneInv, WorkInv
<1>2. CASE Stop(w)
  BY <1>0, <1>2 DEF Stop, AloneInv, WorkInv
<1>3. CASE /\ pc[w] = "construct" /\ UNCHANGED <<db, late, faulty>>
           /\ \E c, isNew : Constructed(w, isNew, c) /\ c.log = LogOf(KeyOf(current[w]))
  <2>1. PICK c, isNew : Constructed(w, isNew, c) /\ c.log = LogOf(KeyOf(current[w]))
    BY <1>3
  <2>2. /\ hits' = hits /\ db' = db /\ current' = current /\ next' = next
        /\ pc'[w] = "update" /\ cookie'[w] = c /\ modified'[w] = FALSE
    BY <2>1, <1>0, <1>3 DEF Constructed, WorkInv, ContentInv
  <2>3. LogOf(KeyOf(current[w]))' = LogOf(KeyOf(current[w]))
    BY <2>2 DEF LogOf, KeyOf
  <2> QED BY <1>3, <2>1, <2>2, <2>3 DEF AloneInv
<1>4. CASE Update(w)
  <2> DEFINE d == Updated(cookie[w], current[w], newCookie[w])
  <2>1. /\ hits' = hits /\ db' = db /\ current' = current /\ next' = next /\ pc[w] = "update"
        /\ late' = late /\ faulty' = faulty
        /\ pc'[w] = "store" /\ cookie'[w] = d
    BY <1>0, <1>4 DEF Update, WorkInv, ContentInv
  <2>2. d.log = Append(cookie[w].log, current[w])
    <3>1. cookie[w] \in Cookie
      BY <1>0 DEF ContentInv
    <3>2. DOMAIN cookie[w] = {"firstHit", "lastHit", "lastPurchaseTime", "lastPurchaseNum",
                              "purchaseIds", "log"}
      BY <3>1 DEF Cookie
    <3> QED BY <3>2 DEF Updated
  <2>3. LogOf(KeyOf(current[w]))' = LogOf(KeyOf(current[w]))
    BY <2>1 DEF LogOf, KeyOf
  <2> HIDE DEF d
  <2> QED BY <2>1, <2>2, <2>3 DEF AloneInv
<1>5. CASE Saved(w) /\ modified' = [modified EXCEPT ![w] = FALSE] /\ Store(w)
  BY <1>0, <1>5 DEF Saved, Store, AloneInv, WorkInv
<1>6. CASE Destroy(w) /\ UNCHANGED <<db, late, faulty>>
  BY <1>0, <1>6 DEF Destroy, AloneInv, WorkInv
<1>7. CASE UNCHANGED vars
  BY <1>7 DEF vars, AloneInv, LogOf, KeyOf
<1> QED BY <1>1, <1>2, <1>3, <1>4, <1>5, <1>6, <1>7, AloneSteps

\* The variables of ProfileLog, as ProfileUpdate maps them.
KeysOfHits == [i \in 1..Len(hits) |-> KeyOf(i)]
Recorded == next - 1 - Cardinality(Underway)
Profile == [k \in Users |-> LogOf(k)]

LEMMA UnderwayAlone ==
  ASSUME NEW w, Threads = {w}, NEW at
  PROVE  Cardinality({t \in Threads : at[t] \in {"construct", "update", "store"}})
           = IF at[w] \in {"construct", "update", "store"} THEN 1 ELSE 0
<1> DEFINE S == {t \in Threads : at[t] \in {"construct", "update", "store"}}
<1>1. CASE at[w] \in {"construct", "update", "store"}
  <2>1. S = {w}
    BY <1>1
  <2> QED BY <1>1, <2>1, FS_Singleton
<1>2. CASE at[w] \notin {"construct", "update", "store"}
  <2>1. S = {}
    BY <1>2
  <2> QED BY <1>2, <2>1, FS_EmptySet
<1> QED BY <1>1, <1>2

\* Each step is a Record of ProfileLog, the save of SaveVCookie, or none.
LEMMA AloneRecords ==
  ASSUME NEW w, Threads = {w}, MaxFaulty = 0, NobodyIsNew, WorkInv, WorkInv', ContentInv,
         AloneInv(w), [Next]_vars
  PROVE  \/ /\ Recorded < Len(KeysOfHits) /\ Recorded' = Recorded + 1
            /\ Profile' = [Profile EXCEPT ![KeysOfHits[Recorded + 1]] = Append(@, Recorded + 1)]
            /\ KeysOfHits' = KeysOfHits
         \/ Recorded' = Recorded /\ Profile' = Profile /\ KeysOfHits' = KeysOfHits
<1>0. /\ next \in Nat \ {0} /\ w \in Threads /\ next \in 1..(Len(hits) + 1) /\ Len(hits) \in Nat
  BY HitsAreHits DEF WorkInv
<1>1. /\ Recorded = next - 1 - (IF pc[w] \in {"construct", "update", "store"} THEN 1 ELSE 0)
      /\ Recorded' = next' - 1 - (IF pc'[w] \in {"construct", "update", "store"} THEN 1 ELSE 0)
  <2>1. Cardinality(Underway) = IF pc[w] \in {"construct", "update", "store"} THEN 1 ELSE 0
    BY UnderwayAlone DEF Underway
  <2>2. Cardinality(Underway') = IF pc'[w] \in {"construct", "update", "store"} THEN 1 ELSE 0
    BY UnderwayAlone DEF Underway
  <2> QED BY <2>1, <2>2 DEF Recorded
<1>2. hits' = hits /\ KeysOfHits' = KeysOfHits
  <2>1. hits' = hits
    BY AloneSteps DEF Take, Stop, Constructed, Update, Store, Destroy, vars
  <2> QED BY <2>1 DEF KeysOfHits, KeyOf
<1>3. db' = db => Profile' = Profile
  BY DEF Profile, LogOf
<1>4. CASE Take(w)
  BY <1>0, <1>1, <1>2, <1>3, <1>4 DEF Take, WorkInv
<1>5. CASE Stop(w)
  BY <1>0, <1>1, <1>2, <1>3, <1>5 DEF Stop, WorkInv
<1>6. CASE /\ pc[w] = "construct" /\ UNCHANGED <<db, late, faulty>>
           /\ \E c, isNew : Constructed(w, isNew, c) /\ c.log = LogOf(KeyOf(current[w]))
  <2>1. pc'[w] = "update" /\ next' = next
    BY <1>0, <1>6 DEF Constructed, WorkInv
  <2> QED BY <2>1, <1>1, <1>2, <1>3, <1>6
<1>7. CASE Update(w)
  BY <1>0, <1>1, <1>2, <1>3, <1>7 DEF Update, WorkInv
<1>8. CASE Saved(w) /\ modified' = [modified EXCEPT ![w] = FALSE] /\ Store(w)
  <2> DEFINE i0 == current[w]
             key == KeyOf(i0)
             c == Serialized(cookie[w])
  <2>1. /\ pc[w] = "store" /\ pc'[w] = "destroy" /\ next' = next
        /\ db' = [db EXCEPT ![key] = c]
    BY <1>0, <1>8 DEF Saved, Store, WorkInv
  <2>2. i0 = next - 1 /\ cookie[w].log = Append(LogOf(key), i0)
    BY <2>1 DEF AloneInv
  <2>3. i0 \in 1..Len(hits) /\ key \in Users
    BY <2>1, <1>0, CurrentInRange DEF Working
  <2>4. Recorded = i0 - 1 /\ Recorded' = i0
    BY <2>1, <2>2, <1>0, <1>1
  <2>5. Len(KeysOfHits) = Len(hits) /\ KeysOfHits[i0] = key
    <3>1. \A i \in 1..Len(hits) : KeyOf(i) \in Users
      BY HitsAreHits DEF WorkInv
    <3>2. KeysOfHits \in [1..Len(hits) -> Users]
      BY <3>1 DEF KeysOfHits
    <3>3. KeysOfHits \in Seq(Users) /\ DOMAIN KeysOfHits = 1..Len(hits)
      BY <1>0, <3>2, SeqDef
    <3>4. Len(KeysOfHits) = Len(hits)
      BY <1>0, <3>3, LenProperties
    <3> QED BY <3>4, <2>3 DEF KeysOfHits
  <2>6. c # NoRecord /\ c.log = cookie[w].log
    <3>1. Follows(hits, cookie[w])
      BY <2>1, <1>0 DEF ContentInv
    <3>2. Follows(hits, c) /\ c.log = cookie[w].log
      BY <3>1, HitsAreHits, SavedFollows DEF WorkInv
    <3> QED BY <3>2, NoRecordAssumption DEF Follows, Counts
  <2> HIDE DEF c, key
  <2>7. \A k \in Users : LogOf(k)' = IF k = key THEN Append(LogOf(key), i0) ELSE LogOf(k)
    <3>1. \A k \in Users : db'[k] = IF k = key THEN c ELSE db[k]
      BY <2>1, <2>3 DEF ContentInv
    <3> QED BY <3>1, <2>2, <2>6 DEF LogOf
  <2>8. Profile' = [Profile EXCEPT ![key] = Append(@, i0)]
    BY <2>3, <2>7 DEF Profile
  <2>9. Recorded + 1 = i0 /\ Recorded < Len(hits) /\ Recorded' = Recorded + 1
    BY <2>3, <2>4, <1>0
  <2> QED BY <2>5, <2>8, <2>9, <1>2
<1>9. CASE Destroy(w) /\ UNCHANGED <<db, late, faulty>>
  BY <1>0, <1>1, <1>2, <1>3, <1>9 DEF Destroy, WorkInv
<1>10. CASE UNCHANGED vars
  BY <1>1, <1>2, <1>3, <1>10 DEF vars
<1> QED BY <1>4, <1>5, <1>6, <1>7, <1>8, <1>9, <1>10, AloneSteps

\* ImplementsProfileLog: one worker whose store does not fail, and whose
\* hits are not declared to be of new visitors, records every hit it takes,
\* once, in the record of its key, in the order of the replay.
THEOREM AloneImplementsLog ==
  ASSUME NEW w, Threads = {w}, MaxFaulty = 0, NobodyIsNew
  PROVE  Spec => ImplementsProfileLog
<1>1. Init => Log!Init
  <2> SUFFICES ASSUME Init PROVE Log!Init
    OBVIOUS
  <2>1. WorkInv /\ hits \in Replays /\ next = 1 /\ db = [k \in Users |-> NoRecord]
        /\ pc[w] = "idle"
    BY WorkInit DEF Init
  <2>2. KeysOfHits \in Seq(Users)
    <3>1. \A i \in 1..Len(hits) : KeyOf(i) \in Users
      BY <2>1, HitsAreHits
    <3>2. Len(hits) \in Nat /\ KeysOfHits \in [1..Len(hits) -> Users]
      BY <2>1, <3>1, HitsAreHits DEF KeysOfHits
    <3> QED BY <3>2, SeqDef
  <2>3. Recorded = 0
    BY <2>1, UnderwayAlone DEF Recorded, Underway
  <2>4. Profile = [k \in Users |-> <<>>]
    BY <2>1 DEF Profile, LogOf
  <2> QED BY <2>2, <2>3, <2>4 DEF Log!Init, KeysOfHits, Recorded, Profile, LogOf
<1>2. Init => AloneInv(w)
  BY AloneInit
<1>3. Inv /\ AloneInv(w) /\ [Next]_vars => AloneInv(w)'
  BY AloneStep DEF Inv
<1>4. Inv /\ Inv' /\ AloneInv(w) /\ [Next]_vars => [Log!Record]_(Log!pvars)
  <2> SUFFICES ASSUME Inv, Inv', AloneInv(w), [Next]_vars PROVE [Log!Record]_(Log!pvars)
    OBVIOUS
  <2>1. \/ /\ Recorded < Len(KeysOfHits) /\ Recorded' = Recorded + 1
           /\ Profile' = [Profile EXCEPT ![KeysOfHits[Recorded + 1]] = Append(@, Recorded + 1)]
           /\ KeysOfHits' = KeysOfHits
        \/ Recorded' = Recorded /\ Profile' = Profile /\ KeysOfHits' = KeysOfHits
    BY AloneRecords DEF Inv
  <2> QED BY <2>1, Zenon DEF Log!Record, Log!pvars, KeysOfHits, Recorded, Profile, LogOf
<1> QED BY <1>1, <1>2, <1>3, <1>4, Invariant, PTL DEF Spec, ImplementsProfileLog, Log!Spec
=============================================================================
