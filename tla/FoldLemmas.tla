------------------------------ MODULE FoldLemmas ------------------------------
(***************************************************************************)
(* What the proofs of other modules need of FoldLeft, FlattenSeq, maxima   *)
(* and sequences that are written out.                                     *)
(*                                                                         *)
(* An induction over naturals is made with the least counterexample        *)
(* (LeastNatural).  A fold is a recursive function of sets of indices; the *)
(* operator it folds appears in these lemmas as a function step of the     *)
(* value so far and the index, which a user of them defines from the       *)
(* operator.                                                               *)
(***************************************************************************)
EXTENDS Integers, FiniteSets, SequencesExt, SequenceTheorems, FiniteSetTheorems,
        WellFoundedInduction, TLAPS

\* A set of naturals that is not empty has a least element.
LEMMA LeastNatural ==
  ASSUME NEW T, T \subseteq Nat, T # {}
  PROVE  \E n \in T : \A m \in T : n <= m
<1> DEFINE U == {0..n : n \in T}
<1>1. U \subseteq FiniteSubsetsOf(Nat)
  <2> SUFFICES ASSUME NEW n \in T PROVE 0..n \in FiniteSubsetsOf(Nat)
    OBVIOUS
  <2>1. n \in Nat /\ IsFiniteSet(0..n)
    BY FS_Interval
  <2> QED BY <2>1 DEF FiniteSubsetsOf
<1>2. U # {}
  OBVIOUS
<1>3. PICK u \in U : \A v \in U : ~(<<v, u>> \in StrictSubsetOrdering(Nat))
  <2> HIDE DEF U
  <2> QED BY <1>1, <1>2, WFMin, FS_StrictSubsetOrderingWellFounded
<1>4. PICK n \in T : u = 0..n
  OBVIOUS
<1>5. ASSUME NEW m \in T PROVE n <= m
  <2>1. 0..m \in U /\ ~(<<0..m, 0..n>> \in StrictSubsetOrdering(Nat))
    BY <1>3, <1>4
  <2>2. n \in Nat /\ m \in Nat
    OBVIOUS
  <2>3. 0..m \in SUBSET Nat /\ 0..n \in SUBSET Nat
    BY <2>2
  <2>4. ~(0..m \subseteq 0..n) \/ 0..m = 0..n
    BY <2>1, <2>3 DEF StrictSubsetOrdering
  <2> QED BY <2>2, <2>4
<1> QED BY <1>5

\* Induction: a set of naturals that has the first of 0..L, and with each
\* one the next, has them all.
LEMMA UpTo ==
  ASSUME NEW L \in Nat, NEW S, 0 \in S,
         \A n \in 1..L : n - 1 \in S => n \in S
  PROVE  0..L \subseteq S
<1> DEFINE T == {n \in 0..L : n \notin S}
<1> SUFFICES ASSUME T # {} PROVE FALSE
  OBVIOUS
<1>1. PICK n \in T : \A m \in T : n <= m
  <2>1. T \subseteq Nat
    OBVIOUS
  <2> HIDE DEF T
  <2> QED BY <2>1, LeastNatural
<1>2. n \in 1..L /\ n - 1 \in 0..L /\ n - 1 \notin T
  BY <1>1
<1> QED BY <1>2

\* The largest number of a set.
LEMMA MaxFacts ==
  ASSUME NEW L \in Nat, NEW s \in SUBSET (1..L), s # {}
  PROVE  Max(s) \in s /\ \A x \in s : x <= Max(s)
<1> DEFINE T == {n \in 0..L : L - n \in s}
<1>1. PICK x \in s : TRUE
  OBVIOUS
<1>2. L - x \in T
  BY <1>1
<1>3. PICK n \in T : \A m \in T : n <= m
  <2>1. T \subseteq Nat
    OBVIOUS
  <2> HIDE DEF T
  <2> QED BY <1>2, <2>1, LeastNatural
<1>4. L - n \in s /\ \A y \in s : L - n >= y
  <2> SUFFICES ASSUME NEW y \in s PROVE L - n >= y
    BY <1>3
  <2>1. L - y \in T /\ y \in 1..L
    OBVIOUS
  <2>2. n <= L - y /\ n \in 0..L
    BY <2>1, <1>3
  <2> QED BY <2>1, <2>2
<1>5. \E m \in s : \A y \in s : m >= y
  BY <1>4
<1> DEFINE mx == CHOOSE m \in s : \A y \in s : m >= y
<1>6. mx \in s /\ \A y \in s : mx >= y
  BY <1>5
<1>7. Max(s) = mx
  BY DEF Max
<1> QED BY <1>6, <1>7

\* The recursion of a fold over the indices 1..L, as FoldLeft makes it.
IsFold(g, base, L, step) ==
  \A s \in SUBSET (1..L) :
    g[s] = IF s = {} THEN base ELSE step[<<g[s \ {Max(s)}], Max(s)>>]

\* The same, where the values so far are in V.
IsFoldIn(h, V, base, L, step) ==
  /\ h[{}] = base
  /\ \A s \in SUBSET (1..L) :
       s # {} /\ h[s \ {Max(s)}] \in V => h[s] = step[<<h[s \ {Max(s)}], Max(s)>>]

\* The fold of the first n indices, one n after the other.
IsStepwise(h, V, base, L, step) ==
  /\ \A n \in 0..L : h[1..n] \in V
  /\ h[1..0] = base
  /\ \A n \in 1..L : h[1..n] = step[<<h[1..(n - 1)], n>>]

\* The recursive function of a fold over the indices 1..L exists.
LEMMA FoldExists ==
  ASSUME NEW V, NEW base \in V, NEW L \in Nat, NEW step \in [V \X (1..L) -> V]
  PROVE  \E g \in [SUBSET (1..L) -> V] : IsFold(g, base, L, step)
<1> DEFINE Folds(n, g) ==
             \A s \in SUBSET (1..n) :
               g[s] = IF s = {} THEN base ELSE step[<<g[s \ {Max(s)}], Max(s)>>]
           S == {n \in 0..L : \E g \in [SUBSET (1..n) -> V] : Folds(n, g)}
<1>1. 0 \in S
  <2> DEFINE g == [s \in SUBSET (1..0) |-> base]
  <2>1. \A s \in SUBSET (1..0) : s = {}
    OBVIOUS
  <2>2. g \in [SUBSET (1..0) -> V] /\ Folds(0, g)
    BY <2>1
  <2>3. \E f \in [SUBSET (1..0) -> V] : Folds(0, f)
    BY <2>2
  <2>4. 0 \in 0..L
    OBVIOUS
  <2> QED
    <3> HIDE DEF Folds, g
    <3> QED BY <2>3, <2>4, Zenon
<1>2. ASSUME NEW n \in 1..L, n - 1 \in S PROVE n \in S
  <2>1. PICK g \in [SUBSET (1..(n - 1)) -> V] : Folds(n - 1, g)
    BY <1>2
  <2> DEFINE h == [s \in SUBSET (1..n) |->
                     IF n \in s THEN step[<<g[s \ {n}], n>>] ELSE g[s]]
  <2>2. \A s \in SUBSET (1..n) : /\ n \notin s => s \in SUBSET (1..(n - 1))
                                 /\ s \ {n} \in SUBSET (1..(n - 1))
    OBVIOUS
  <2>3. h \in [SUBSET (1..n) -> V]
    <3> SUFFICES ASSUME NEW s \in SUBSET (1..n)
                 PROVE (IF n \in s THEN step[<<g[s \ {n}], n>>] ELSE g[s]) \in V
      OBVIOUS
    <3>1. g[s \ {n}] \in V /\ (n \notin s => g[s] \in V)
      BY <2>2
    <3>2. <<g[s \ {n}], n>> \in V \X (1..L)
      BY <3>1
    <3> QED BY <3>1, <3>2
  <2>4. ASSUME NEW s \in SUBSET (1..n)
        PROVE  h[s] = IF s = {} THEN base ELSE step[<<h[s \ {Max(s)}], Max(s)>>]
    <3>0. s \in SUBSET (1..L)
      OBVIOUS
    <3>1. CASE n \in s
      <4>1. Max(s) \in s /\ \A x \in s : x <= Max(s)
        BY <3>0, <3>1, MaxFacts
      <4>2. Max(s) = n
        <5>1. Max(s) \in 1..n /\ n <= Max(s)
          BY <3>1, <4>1
        <5> QED BY <5>1
      <4>3. h[s \ {n}] = g[s \ {n}]
        OBVIOUS
      <4> QED BY <3>1, <4>2, <4>3
    <3>2. CASE n \notin s
      <4>1. s \in SUBSET (1..(n - 1)) /\ h[s] = g[s]
        BY <3>2, <2>2
      <4>2. CASE s = {}
        BY <4>1, <4>2, <2>1
      <4>3. CASE s # {}
        <5>1. Max(s) \in s
          BY <3>0, <4>3, MaxFacts
        <5>2. s \ {Max(s)} \in SUBSET (1..n) /\ n \notin s \ {Max(s)}
          BY <3>2
        <5>3. h[s \ {Max(s)}] = g[s \ {Max(s)}]
          BY <5>2
        <5> QED BY <4>1, <4>3, <5>3, <2>1
      <4> QED BY <4>2, <4>3
    <3> QED BY <3>1, <3>2
  <2>5. Folds(n, h)
    BY <2>4
  <2> QED
    <3> HIDE DEF h, Folds
    <3>1. \E f \in [SUBSET (1..n) -> V] : Folds(n, f)
      BY <2>3, <2>5
    <3>2. n \in 0..L
      OBVIOUS
    <3> QED BY <3>1, <3>2, Zenon
<1>3. L \in S
  <2> HIDE DEF S
  <2> QED BY <1>1, <1>2, UpTo
<1> QED BY <1>3 DEF IsFold

\* A function that satisfies the recursion folds one index after the other.
LEMMA FoldSteps ==
  ASSUME NEW V, NEW base \in V, NEW L \in Nat, NEW step \in [V \X (1..L) -> V], NEW h,
         IsFoldIn(h, V, base, L, step)
  PROVE  IsStepwise(h, V, base, L, step)
<1> DEFINE S == {n \in 0..L : h[1..n] \in V}
<1>1. 1..0 = {}
  OBVIOUS
<1>2. ASSUME NEW n \in 1..L, h[1..(n - 1)] \in V
      PROVE  h[1..n] = step[<<h[1..(n - 1)], n>>] /\ h[1..n] \in V
  <2>1. 1..n \in SUBSET (1..L) /\ n \in 1..n
    OBVIOUS
  <2>2. Max(1..n) \in 1..n /\ \A x \in 1..n : x <= Max(1..n)
    BY <2>1, MaxFacts
  <2>3. Max(1..n) = n
    BY <2>1, <2>2
  <2>4. (1..n) \ {n} = 1..(n - 1)
    OBVIOUS
  <2>5. h[1..n] = step[<<h[1..(n - 1)], n>>]
    BY <1>2, <2>1, <2>3, <2>4 DEF IsFoldIn
  <2>6. <<h[1..(n - 1)], n>> \in V \X (1..L)
    BY <1>2
  <2> QED BY <2>5, <2>6
<1>3. 0 \in S
  BY <1>1 DEF IsFoldIn
<1>4. ASSUME NEW n \in 1..L, n - 1 \in S PROVE n \in S
  <2>1. h[1..(n - 1)] \in V
    BY <1>4
  <2>2. h[1..n] \in V
    BY <2>1, <1>2
  <2> QED BY <2>2
<1>5. 0..L \subseteq S
  <2> HIDE DEF S
  <2> QED BY <1>3, <1>4, UpTo
<1> QED BY <1>1, <1>2, <1>5 DEF IsFoldIn, IsStepwise

\* The sequence of a list of lists, one list after the other.
LEMMA FlattenSteps ==
  ASSUME NEW S, NEW lists \in Seq(Seq(S))
  PROVE  \E f \in [0..Len(lists) -> Seq(S)] :
           /\ f[0] = <<>> /\ \A n \in 1..Len(lists) : f[n] = f[n - 1] \o lists[n]
           /\ FlattenSeq(lists) = f[Len(lists)]
<1> DEFINE L == Len(lists)
           IsUpTo(n, f) == /\ f[0] = <<>>
                           /\ \A m \in 1..n : f[m] = f[m - 1] \o lists[m]
           Good == {n \in 0..L : \E f \in [0..n -> Seq(S)] : IsUpTo(n, f)}
<1>0. L \in Nat /\ \A n \in 1..L : lists[n] \in Seq(S)
  BY LenProperties, ElementOfSeq
<1>1. 0 \in Good
  <2> DEFINE f == [n \in 0..0 |-> <<>>]
  <2>1. f \in [0..0 -> Seq(S)] /\ IsUpTo(0, f)
    OBVIOUS
  <2>2. 0 \in 0..L
    BY <1>0
  <2> HIDE DEF f, IsUpTo
  <2> QED BY <2>1, <2>2
<1>2. ASSUME NEW n \in 1..L, n - 1 \in Good PROVE n \in Good
  <2>1. PICK f \in [0..(n - 1) -> Seq(S)] : IsUpTo(n - 1, f)
    BY <1>2
  <2> DEFINE next == f[n - 1] \o lists[n]
             g == [m \in 0..n |-> IF m = n THEN next ELSE f[m]]
  <2>2. next \in Seq(S)
    <3>1. f[n - 1] \in Seq(S) /\ lists[n] \in Seq(S)
      BY <1>0
    <3> QED BY <3>1, ConcatProperties
  <2> HIDE DEF next
  <2>3. g \in [0..n -> Seq(S)]
    BY <1>0, <2>2
  <2>4. g[0] = <<>>
    BY <1>0, <2>1
  <2>5. ASSUME NEW m \in 1..n PROVE g[m] = g[m - 1] \o lists[m]
    <3>1. m - 1 \in 0..(n - 1) /\ m - 1 # n /\ m - 1 \in 0..n /\ m \in 0..n
      BY <1>0
    <3>2. g[m - 1] = f[m - 1]
      BY <3>1
    <3>3. CASE m = n
      BY <3>1, <3>2, <3>3 DEF next
    <3>4. CASE m # n
      <4>1. m \in 1..(n - 1) /\ g[m] = f[m]
        BY <3>1, <3>4, <1>0
      <4> QED BY <4>1, <3>2, <2>1
    <3> QED BY <3>3, <3>4
  <2>6. IsUpTo(n, g)
    BY <2>4, <2>5
  <2>7. n \in 0..L
    BY <1>0
  <2> HIDE DEF g, IsUpTo
  <2> QED BY <2>3, <2>6, <2>7
<1>3. L \in Good
  <2>1. 0..L \subseteq Good
    <3> HIDE DEF Good, L
    <3> QED BY <1>0, <1>1, <1>2, UpTo
  <2> HIDE DEF Good
  <2> QED BY <1>0, <2>1
<1>4. PICK f \in [0..L -> Seq(S)] : IsUpTo(L, f)
  BY <1>3
<1>5. FlattenSeq(lists) = f[L]
  <2>1. CASE L = 0
    <3>1. lists = <<>>
      BY <2>1, EmptySeq
    <3> QED BY <2>1, <3>1, <1>4 DEF FlattenSeq
  <2>2. CASE L # 0
    <3> DEFINE Fl(h) == [i \in 1..L |-> IF i = 1 THEN lists[i] ELSE h[i - 1] \o lists[i]]
               g == [i \in 1..L |-> f[i]]
    <3>1. ASSUME NEW i \in 1..L PROVE f[i] = IF i = 1 THEN lists[i] ELSE g[i - 1] \o lists[i]
      <4>1. f[i] = f[i - 1] \o lists[i]
        BY <1>4
      <4>2. CASE i = 1
        <5>1. lists[i] \in Seq(S) /\ f[i - 1] = <<>>
          BY <4>2, <1>0, <1>4
        <5> QED BY <4>1, <4>2, <5>1, ConcatEmptySeq
      <4>3. CASE i # 1
        <5>1. i - 1 \in 1..L
          BY <4>3, <1>0
        <5> QED BY <4>1, <4>3, <5>1
      <4> QED BY <4>2, <4>3
    <3>2. g = Fl(g)
      BY <3>1
    <3> DEFINE h == CHOOSE h_ : h_ = Fl(h_)
    <3>3. h = Fl(h)
      <4>1. \E h_ : h_ = Fl(h_)
        BY <3>2
      <4> HIDE DEF Fl
      <4> QED BY <4>1
    <3>4. FlattenSeq(lists) = h[L]
      <4>1. FlattenSeq(lists) =
              (CHOOSE h_ : h_ = [i \in 1..Len(lists) |->
                                   IF i = 1 THEN lists[i] ELSE h_[i - 1] \o lists[i]])[Len(lists)]
        BY <2>2, Zenon DEF FlattenSeq
      <4> QED BY <4>1
    <3> HIDE DEF h
    <3> DEFINE Same == {n \in 0..L : n = 0 \/ h[n] = f[n]}
    <3>5. 0 \in Same
      BY <1>0
    <3>6. ASSUME NEW n \in 1..L, n - 1 \in Same PROVE n \in Same
      <4>1. h[n] = IF n = 1 THEN lists[n] ELSE h[n - 1] \o lists[n]
        BY <3>3
      <4>2. h[n] = f[n]
        <5>1. CASE n = 1
          BY <4>1, <5>1, <3>1
        <5>2. CASE n # 1
          <6>1. n - 1 # 0
            BY <1>0, <5>2
          <6>2. h[n - 1] = f[n - 1]
            BY <3>6, <6>1
          <6>3. f[n] = f[n - 1] \o lists[n]
            BY <1>4
          <6> QED BY <4>1, <5>2, <6>2, <6>3
        <5> QED BY <5>1, <5>2
      <4>3. n \in 0..L
        BY <1>0
      <4> QED BY <4>2, <4>3
    <3>7. 0..L \subseteq Same
      <4> HIDE DEF Same, L
      <4> QED BY <1>0, <3>5, <3>6, UpTo
    <3> QED BY <1>0, <2>2, <3>4, <3>7
  <2> QED BY <2>1, <2>2
<1> QED BY <1>4, <1>5

\* A list at the end.
LEMMA FlattenAppend ==
  ASSUME NEW S, NEW lists \in Seq(Seq(S)), NEW list \in Seq(S)
  PROVE  /\ FlattenSeq(lists) \in Seq(S)
         /\ FlattenSeq(Append(lists, list)) = FlattenSeq(lists) \o list
<1> DEFINE L == Len(lists)
           more == Append(lists, list)
<1>1. /\ L \in Nat /\ more \in Seq(Seq(S)) /\ Len(more) = L + 1 /\ more[L + 1] = list
      /\ \A n \in 1..L : more[n] = lists[n]
  <2>1. list \in Seq(S) /\ lists \in Seq(Seq(S))
    OBVIOUS
  <2> QED BY <2>1, AppendProperties, LenProperties
<1>2. PICK f \in [0..L -> Seq(S)] :
        /\ f[0] = <<>> /\ \A n \in 1..L : f[n] = f[n - 1] \o lists[n]
        /\ FlattenSeq(lists) = f[L]
  BY FlattenSteps
<1>3. PICK g \in [0..Len(more) -> Seq(S)] :
        /\ g[0] = <<>> /\ \A n \in 1..Len(more) : g[n] = g[n - 1] \o more[n]
        /\ FlattenSeq(more) = g[Len(more)]
  <2> HIDE DEF more
  <2> QED BY <1>1, FlattenSteps
<1> HIDE DEF L, more
<1> DEFINE Same == {n \in 0..L : f[n] = g[n]}
<1>4. 0 \in Same
  BY <1>1, <1>2, <1>3
<1>5. ASSUME NEW n \in 1..L, n - 1 \in Same PROVE n \in Same
  <2>1. n \in 1..Len(more) /\ f[n - 1] = g[n - 1] /\ more[n] = lists[n]
    BY <1>1, <1>5
  <2>2. f[n] = f[n - 1] \o lists[n] /\ g[n] = g[n - 1] \o more[n]
    BY <2>1, <1>2, <1>3
  <2>3. n \in 0..L
    BY <1>1
  <2> QED BY <2>1, <2>2, <2>3
<1>6. f[L] = g[L]
  <2>1. 0..L \subseteq Same
    <3> HIDE DEF Same
    <3> QED BY <1>1, <1>4, <1>5, UpTo
  <2> QED BY <1>1, <2>1
<1>7. L + 1 \in 1..Len(more) /\ (L + 1) - 1 = L
  <2> HIDE DEF Same
  <2>1. L \in Nat /\ Len(more) = L + 1
    BY <1>1
  <2> QED BY <2>1
<1>8. g[L + 1] = g[L] \o list
  BY <1>1, <1>3, <1>7
<1> QED BY <1>1, <1>2, <1>3, <1>6, <1>8 DEF L, more

\* Places in a list, and after the one at pos.
LEMMA AroundPlace ==
  ASSUME NEW len \in Nat, NEW pos \in 1..(len + 1)
  PROVE  /\ pos \in Nat /\ pos - 1 \in Nat /\ pos - 1 \in 0..(pos - 1) /\ pos - 1 \in 0..(len + 1)
         /\ \A n \in 1..(len + 1 - pos) :
              /\ pos - 1 + n \in 1..len /\ pos - 1 + n >= pos /\ pos + n \in 1..(len + 1)
              /\ n \in 0..(len + 1 - pos)
              /\ (pos - 1 + n) + 1 = pos + n /\ (pos + n) - 1 = pos + (n - 1)
              /\ (pos - 1 + n) - 1 = pos - 1 + (n - 1)
OBVIOUS

\* An empty list among the lists makes no difference.
LEMMA FlattenWithout ==
  ASSUME NEW S, NEW lists \in Seq(Seq(S)), NEW more \in Seq(Seq(S)), NEW pos \in 1..Len(lists) + 1,
         Len(more) = Len(lists) + 1, more[pos] = <<>>,
         \A i \in 1..Len(lists) : (i < pos => more[i] = lists[i]) /\ (i >= pos => more[i + 1] = lists[i])
  PROVE  FlattenSeq(more) = FlattenSeq(lists)
<1> DEFINE L == Len(lists)
<1>1. L \in Nat /\ pos \in Nat /\ Len(more) = L + 1 /\ pos \in 1..(L + 1) /\ more[pos] = <<>>
  <2>1. L \in Nat
    BY LenProperties
  <2> QED BY <2>1
<1>2. PICK f \in [0..L -> Seq(S)] :
        /\ f[0] = <<>> /\ \A n \in 1..L : f[n] = f[n - 1] \o lists[n]
        /\ FlattenSeq(lists) = f[L]
  BY FlattenSteps
<1>3. PICK g \in [0..(L + 1) -> Seq(S)] :
        /\ g[0] = <<>> /\ \A n \in 1..(L + 1) : g[n] = g[n - 1] \o more[n]
        /\ FlattenSeq(more) = g[L + 1]
  <2>1. \E g \in [0..Len(more) -> Seq(S)] :
          /\ g[0] = <<>> /\ \A n \in 1..Len(more) : g[n] = g[n - 1] \o more[n]
          /\ FlattenSeq(more) = g[Len(more)]
    BY FlattenSteps
  <2> HIDE DEF L
  <2> QED BY <2>1, <1>1
<1>4. \A i \in 1..L : (i < pos => more[i] = lists[i]) /\ (i >= pos => more[i + 1] = lists[i])
  OBVIOUS
<1> HIDE DEF L
<1> DEFINE Before == {n \in 0..(pos - 1) : g[n] = f[n]}
           After == {n \in 0..(L + 1 - pos) : g[pos + n] = f[pos - 1 + n]}
<1>5. pos - 1 \in Before
  <2>1. 0 \in Before
    BY <1>1, <1>2, <1>3
  <2>2. ASSUME NEW n \in 1..(pos - 1), n - 1 \in Before PROVE n \in Before
    <3>1. n \in 1..L /\ n < pos /\ n \in 1..(L + 1) /\ n \in 0..(pos - 1)
      BY <1>1
    <3>2. g[n] = g[n - 1] \o more[n] /\ f[n] = f[n - 1] \o lists[n] /\ more[n] = lists[n] /\ g[n - 1] = f[n - 1]
      BY <3>1, <2>2, <1>2, <1>3, <1>4
    <3> QED BY <3>1, <3>2
  <2> HIDE DEF Before
  <2>3. pos - 1 \in Nat /\ pos - 1 \in 0..(pos - 1)
    BY <1>1, AroundPlace
  <2> QED BY <2>1, <2>2, <2>3, UpTo
<1>6. 0 \in After
  <2>0. pos \in 1..(L + 1) /\ pos - 1 \in 0..(L + 1)
    BY <1>1, AroundPlace
  <2>1. g[pos] = g[pos - 1] \o more[pos] /\ g[pos - 1] \in Seq(S) /\ more[pos] = <<>>
    BY <2>0, <1>1, <1>3
  <2>2. g[pos] = g[pos - 1]
    BY <2>1, ConcatEmptySeq
  <2>3. g[pos - 1] = f[pos - 1]
    BY <1>5
  <2> HIDE DEF After, Before
  <2>4. pos + 0 = pos /\ pos - 1 + 0 = pos - 1 /\ 0 \in 0..(L + 1 - pos)
    BY ONLY <1>1
  <2> QED BY <2>2, <2>3, <2>4 DEF After
<1>7. ASSUME NEW n \in 1..(L + 1 - pos), n - 1 \in After PROVE n \in After
  <2>1. /\ pos - 1 + n \in 1..L /\ pos - 1 + n >= pos /\ pos + n \in 1..(L + 1) /\ n \in 0..(L + 1 - pos)
        /\ (pos - 1 + n) + 1 = pos + n /\ (pos + n) - 1 = pos + (n - 1)
        /\ (pos - 1 + n) - 1 = pos - 1 + (n - 1)
    BY <1>1, AroundPlace
  <2>2. more[pos + n] = lists[pos - 1 + n]
    BY <2>1, <1>4
  <2>3. g[pos + n] = g[pos + (n - 1)] \o more[pos + n]
    BY <2>1, <1>3
  <2>4. f[pos - 1 + n] = f[pos - 1 + (n - 1)] \o lists[pos - 1 + n]
    BY <2>1, <1>2
  <2>5. g[pos + (n - 1)] = f[pos - 1 + (n - 1)]
    BY <1>7
  <2> QED BY <2>1, <2>2, <2>3, <2>4, <2>5
<1>8. L + 1 - pos \in After
  <2>1. L + 1 - pos \in Nat /\ L + 1 - pos \in 0..(L + 1 - pos)
    BY <1>1
  <2> HIDE DEF After
  <2> QED BY <2>1, <1>6, <1>7, UpTo
<1>9. pos + (L + 1 - pos) = L + 1 /\ pos - 1 + (L + 1 - pos) = L
  BY <1>1
<1>10. g[L + 1] = f[L]
  BY <1>8, <1>9
<1> QED BY <1>2, <1>3, <1>10

\* Where only the list at pos is not empty, it is all there is.
LEMMA FlattenOnly ==
  ASSUME NEW S, NEW lists \in Seq(Seq(S)), NEW pos \in Nat,
         \A i \in 1..Len(lists) : i # pos => lists[i] = <<>>
  PROVE  FlattenSeq(lists) = IF pos \in 1..Len(lists) THEN lists[pos] ELSE <<>>
<1> DEFINE L == Len(lists)
           upTo(n) == IF pos \in 1..n THEN lists[pos] ELSE <<>>
<1>1. L \in Nat
  BY LenProperties
<1>2. PICK f \in [0..L -> Seq(S)] :
        /\ f[0] = <<>> /\ \A n \in 1..L : f[n] = f[n - 1] \o lists[n]
        /\ FlattenSeq(lists) = f[L]
  BY FlattenSteps
<1>3. \A i \in 1..L : lists[i] \in Seq(S) /\ (i # pos => lists[i] = <<>>)
  BY ElementOfSeq
<1> HIDE DEF L
<1> DEFINE Same == {n \in 0..L : f[n] = upTo(n)}
<1>4. 0 \in Same
  BY <1>1, <1>2
<1>5. ASSUME NEW n \in 1..L, n - 1 \in Same PROVE n \in Same
  <2>1. f[n] = upTo(n - 1) \o lists[n] /\ lists[n] \in Seq(S) /\ f[n - 1] = upTo(n - 1) /\ f[n - 1] \in Seq(S)
    BY <1>2, <1>3, <1>5
  <2>2. CASE n = pos
    <3>1. upTo(n - 1) = <<>> /\ upTo(n) = lists[n] /\ n \in 0..L
      BY <2>2, <1>1
    <3> HIDE DEF upTo
    <3>2. f[n] = <<>> \o lists[n]
      BY <3>1, <2>1
    <3>3. f[n] = lists[n]
      BY <3>2, <2>1, ConcatEmptySeq
    <3> QED BY <3>1, <3>3
  <2>3. CASE n # pos
    <3>1. upTo(n) = upTo(n - 1) /\ lists[n] = <<>>
      BY <2>3, <1>1, <1>3
    <3>2. f[n] = f[n - 1]
      BY <3>1, <2>1, ConcatEmptySeq
    <3>3. n \in 0..L
      BY <1>1
    <3> HIDE DEF upTo
    <3> QED BY <3>1, <3>2, <3>3, <2>1
  <2> QED BY <2>2, <2>3
<1>6. 0..L \subseteq Same
  <2> HIDE DEF Same
  <2> QED BY <1>1, <1>4, <1>5, UpTo
<1>7. f[L] = upTo(L)
  BY <1>1, <1>6
<1> QED BY <1>2, <1>7 DEF L

\* Sequences that are written out, made one element after the other.
LEMMA PairListed ==
  ASSUME NEW S, NEW a \in S, NEW b \in S
  PROVE  <<a>> \o <<b>> = <<a, b>>
<1> DEFINE A == <<a>>
           B == <<b>>
           AB == <<a, b>>
           D == A \o B
<1>1. /\ A \in Seq(S) /\ B \in Seq(S) /\ AB \in Seq(S) /\ Len(A) = 1 /\ Len(B) = 1 /\ Len(AB) = 2
      /\ A[1] = a /\ B[1] = b /\ AB[1] = a /\ AB[2] = b
  OBVIOUS
<1> HIDE DEF A, B, AB
<1>2. /\ D \in Seq(S) /\ Len(D) = 2
      /\ \A i \in 1..2 : D[i] = IF i <= 1 THEN A[i] ELSE B[i - 1]
  BY <1>1, ConcatProperties
<1> HIDE DEF D
<1>3. D[1] = a /\ D[2] = b /\ \A i \in 1..2 : i = 1 \/ i = 2
  BY <1>1, <1>2
<1>4. D = AB
  BY <1>1, <1>2, <1>3, SeqEqual
<1> QED BY <1>4 DEF A, B, AB, D

LEMMA TripleListed ==
  ASSUME NEW S, NEW a \in S, NEW b \in S, NEW c \in S
  PROVE  <<a, b>> \o <<c>> = <<a, b, c>>
<1> DEFINE C == <<c>>
           AB == <<a, b>>
           ABC == <<a, b, c>>
           D == AB \o C
<1>1. /\ AB \in Seq(S) /\ C \in Seq(S) /\ Len(AB) = 2 /\ Len(C) = 1
      /\ AB[1] = a /\ AB[2] = b /\ C[1] = c
  OBVIOUS
<1>2. /\ ABC \in Seq(S) /\ Len(ABC) = 3 /\ ABC[1] = a /\ ABC[2] = b /\ ABC[3] = c
  OBVIOUS
<1> HIDE DEF C, AB, ABC
<1>3. /\ D \in Seq(S) /\ Len(D) = Len(AB) + Len(C)
      /\ \A i \in 1..(Len(AB) + Len(C)) : D[i] = IF i <= Len(AB) THEN AB[i] ELSE C[i - Len(AB)]
  BY <1>1, ConcatProperties
<1> HIDE DEF D
<1>4. Len(D) = 3 /\ \A i \in 1..3 : D[i] = IF i <= 2 THEN AB[i] ELSE C[i - 2]
  BY <1>1, <1>3
<1>5. D[1] = a /\ D[2] = b /\ D[3] = c /\ \A i \in 1..3 : i = 1 \/ i = 2 \/ i = 3
  BY <1>1, <1>4
<1>6. \A i \in 1..3 : D[i] = ABC[i]
  BY <1>2, <1>5
<1>7. D = ABC
  BY <1>2, <1>3, <1>4, <1>6, SeqEqual
<1> QED BY <1>7 DEF C, AB, ABC, D

LEMMA FlattenNothing == FlattenSeq(<<>>) = <<>>
<1> DEFINE none == <<>>
           S == {}
<1>1. none \in Seq(Seq(S)) /\ Len(none) = 0
  OBVIOUS
<1> HIDE DEF none, S
<1>2. PICK f \in [0..Len(none) -> Seq(S)] :
        f[0] = <<>> /\ FlattenSeq(none) = f[Len(none)]
  BY <1>1, FlattenSteps
<1> QED BY <1>1, <1>2 DEF none

----------------------------------------------------------------------------
(* Lists without duplicates, in which what is used moves to the end *)

NoDuplicates(ids) == \A p, q \in 1..Len(ids) : ids[p] = ids[q] => p = q

\* At most Num of T.
ListsOf(T, Num) == {ids \in Seq(T) : NoDuplicates(ids) /\ Len(ids) <= Num}

\* The list with id at its end; the oldest goes if there is no room.
LatestLast(ids, id, Num) ==
  IF Contains(ids, id) THEN Append(RemoveFirst(ids, id), id)
  ELSE Append(IF Len(ids) = Num THEN Tail(ids) ELSE ids, id)

\* A list without its element at k.
LEMMA RemoveAtFacts ==
  ASSUME NEW S, NEW s \in Seq(S), NEW k \in 1..Len(s)
  PROVE  /\ RemoveAt(s, k) \in Seq(S)
         /\ Len(RemoveAt(s, k)) = Len(s) - 1
         /\ \A p \in 1..(Len(s) - 1) : RemoveAt(s, k)[p] = IF p < k THEN s[p] ELSE s[p + 1]
<1> DEFINE front == SubSeq(s, 1, k - 1)
           back == SubSeq(s, k + 1, Len(s))
<1>1. Len(s) \in Nat /\ k \in Nat
  BY LenProperties
<1>2. RemoveAt(s, k) = front \o back
  BY DEF RemoveAt
<1>3. \A i \in 1..Len(s) : s[i] \in S
  BY ElementOfSeq
<1>4. /\ front \in Seq(S) /\ Len(front) = k - 1
      /\ \A i \in 1..(k - 1) : front[i] = s[i]
  BY <1>1, <1>3, SubSeqProperties
<1>5. /\ back \in Seq(S) /\ Len(back) = Len(s) - k
      /\ \A i \in 1..(Len(s) - k) : back[i] = s[k + i]
  <2>1. k + 1 \in Int /\ Len(s) \in Int /\ \A i \in (k + 1)..Len(s) : s[i] \in S
    BY <1>1, <1>3
  <2>2. /\ back \in Seq(S)
        /\ Len(back) = IF k + 1 <= Len(s) THEN Len(s) - (k + 1) + 1 ELSE 0
        /\ \A i \in 1..(Len(s) - (k + 1) + 1) : back[i] = s[(k + 1) + i - 1]
    BY <2>1, SubSeqProperties
  <2> QED BY <1>1, <2>2
<1> HIDE DEF front, back
<1>6. /\ front \o back \in Seq(S) /\ Len(front \o back) = Len(s) - 1
      /\ \A i \in 1..(Len(s) - 1) :
           (front \o back)[i] = IF i <= k - 1 THEN front[i] ELSE back[i - (k - 1)]
  <2>1. Len(front) + Len(back) = Len(s) - 1
    BY <1>1, <1>4, <1>5
  <2>2. /\ front \o back \in Seq(S) /\ Len(front \o back) = Len(front) + Len(back)
        /\ \A i \in 1..(Len(front) + Len(back)) :
             (front \o back)[i] = IF i <= Len(front) THEN front[i] ELSE back[i - Len(front)]
    BY <1>4, <1>5, ConcatProperties
  <2> QED BY <2>1, <2>2, <1>4
<1>7. ASSUME NEW p \in 1..(Len(s) - 1)
      PROVE  (front \o back)[p] = IF p < k THEN s[p] ELSE s[p + 1]
  <2>1. CASE p < k
    BY <2>1, <1>1, <1>4, <1>6
  <2>2. CASE p >= k
    <3>1. p - (k - 1) \in 1..(Len(s) - k) /\ k + (p - (k - 1)) = p + 1
      BY <2>2, <1>1
    <3> QED BY <3>1, <2>2, <1>1, <1>5, <1>6
  <2>3. p < k \/ p >= k
    BY <1>1
  <2> QED BY <2>1, <2>2, <2>3
<1> QED BY <1>2, <1>6, <1>7

\* A list with e put in at p.
LEMMA InsertAtFacts ==
  ASSUME NEW S, NEW s \in Seq(S), NEW e \in S, NEW p \in 1..(Len(s) + 1)
  PROVE  /\ InsertAt(s, p, e) \in Seq(S)
         /\ Len(InsertAt(s, p, e)) = Len(s) + 1
         /\ \A i \in 1..(Len(s) + 1) :
              InsertAt(s, p, e)[i] = IF i < p THEN s[i] ELSE IF i = p THEN e ELSE s[i - 1]
<1> DEFINE front == SubSeq(s, 1, p - 1)
           back == SubSeq(s, p, Len(s))
<1>0. Len(s) \in Nat /\ p \in Nat
  BY LenProperties
<1>1. /\ front \in Seq(S) /\ Len(front) = p - 1
      /\ \A i \in 1..(p - 1) : front[i] = s[i]
  BY <1>0, SubSeqProperties
<1>2. /\ back \in Seq(S) /\ Len(back) = Len(s) - p + 1
      /\ \A i \in 1..(Len(s) - p + 1) : back[i] = s[p + i - 1]
  BY <1>0, SubSeqProperties
<1>3. InsertAt(s, p, e) = (front \o <<e>>) \o back
  BY DEF InsertAt
<1> HIDE DEF front, back
<1>4. /\ front \o <<e>> \in Seq(S) /\ Len(front \o <<e>>) = p
      /\ \A i \in 1..p : (front \o <<e>>)[i] = IF i < p THEN s[i] ELSE e
  <2>1. <<e>> \in Seq(S) /\ Len(<<e>>) = 1 /\ <<e>>[1] = e
    OBVIOUS
  <2> QED BY <2>1, <1>0, <1>1, ConcatProperties
<1>5. /\ InsertAt(s, p, e) \in Seq(S)
      /\ Len(InsertAt(s, p, e)) = Len(s) + 1
      /\ \A i \in 1..(Len(s) + 1) :
           InsertAt(s, p, e)[i] = IF i <= p THEN (front \o <<e>>)[i] ELSE back[i - p]
  BY SMTT(40), <1>0, <1>2, <1>3, <1>4, ConcatProperties
<1>6. ASSUME NEW i \in 1..(Len(s) + 1)
      PROVE  InsertAt(s, p, e)[i] = IF i < p THEN s[i] ELSE IF i = p THEN e ELSE s[i - 1]
  <2>1. CASE i <= p
    BY <2>1, <1>0, <1>4, <1>5
  <2>2. CASE i > p
    <3>1. i - p \in 1..(Len(s) - p + 1) /\ p + (i - p) - 1 = i - 1
      BY <2>2, <1>0
    <3> QED BY SMTT(40), <3>1, <2>2, <1>0, <1>2, <1>5
  <2> QED BY <2>1, <2>2, <1>0
<1> QED BY <1>5, <1>6

\* RemoveFirst takes out the place that has the id and closes the gap.
LEMMA RemoveFirstFacts ==
  ASSUME NEW S, NEW ids \in Seq(S), NoDuplicates(ids), NEW k \in 1..Len(ids)
  PROVE  /\ RemoveFirst(ids, ids[k]) \in Seq(S)
         /\ Len(RemoveFirst(ids, ids[k])) = Len(ids) - 1
         /\ \A p \in 1..(Len(ids) - 1) :
              RemoveFirst(ids, ids[k])[p] = IF p < k THEN ids[p] ELSE ids[p + 1]
<1>0. Len(ids) \in Nat /\ k \in Nat
  BY LenProperties
<1>1. {i \in 1..Len(ids) : ids[i] = ids[k]} = {k}
  BY <1>0 DEF NoDuplicates
<1>2. Min({k}) = k
  BY <1>0 DEF Min
<1>3. RemoveFirst(ids, ids[k]) = RemoveAt(ids, k)
  BY <1>0, <1>1, <1>2 DEF RemoveFirst, SelectInSeq
<1> QED BY <1>3, RemoveAtFacts

\* The list new is ids with id added at its end; or without the place gap.
Grown(ids, id, new) ==
  /\ ~Contains(ids, id) /\ Len(new) = Len(ids) + 1
  /\ \A p \in 1..Len(ids) : new[p] = ids[p]

Moved(ids, id, new, gap, Num) ==
  /\ ids[gap] = id \/ (~Contains(ids, id) /\ gap = 1 /\ Len(ids) = Num)
  /\ Len(new) = Len(ids)
  /\ \A p \in 1..(Len(ids) - 1) : new[p] = IF p < gap THEN ids[p] ELSE ids[p + 1]

LEMMA LatestLastFacts ==
  ASSUME NEW T, NEW Num \in Nat \ {0}, NEW ids \in ListsOf(T, Num), NEW id \in T,
         NEW new, new = LatestLast(ids, id, Num)
  PROVE  /\ new \in ListsOf(T, Num) /\ Len(new) >= 1 /\ new[Len(new)] = id
         /\ Grown(ids, id, new) \/ \E gap \in 1..Len(ids) : Moved(ids, id, new, gap, Num)
<1>0. /\ ids \in Seq(T) /\ NoDuplicates(ids) /\ Len(ids) <= Num /\ Num \in Nat \ {0}
      /\ Len(ids) \in Nat
  BY LenProperties DEF ListsOf
<1>a. ASSUME NEW s \in Seq(T), NoDuplicates(s), Len(s) < Num, ~Contains(s, id)
      PROVE  /\ Append(s, id) \in ListsOf(T, Num) /\ Len(Append(s, id)) = Len(s) + 1
             /\ Append(s, id)[Len(s) + 1] = id
             /\ \A p \in 1..Len(s) : Append(s, id)[p] = s[p]
  <2>1. /\ Append(s, id) \in Seq(T) /\ Len(Append(s, id)) = Len(s) + 1
        /\ Append(s, id)[Len(s) + 1] = id
        /\ \A p \in 1..Len(s) : Append(s, id)[p] = s[p]
    BY AppendProperties
  <2>2. /\ Len(s) \in Nat 
    BY <2>1, LenProperties
  <2>3. NoDuplicates(Append(s, id))
    <3> SUFFICES ASSUME NEW p \in 1..(Len(s) + 1), NEW q \in 1..(Len(s) + 1),
                        Append(s, id)[p] = Append(s, id)[q], p # q
                 PROVE  FALSE
      BY <2>1, <2>2 DEF NoDuplicates
    <3>1. \A i \in 1..Len(s) : s[i] # id
      BY <1>a DEF Contains
    <3>2. p \in 1..Len(s) \/ p = Len(s) + 1
      BY <2>2
    <3>3. q \in 1..Len(s) \/ q = Len(s) + 1
      BY <2>2
    <3> QED BY <3>1, <3>2, <3>3, <2>1, <2>2, <1>a DEF NoDuplicates
  <2> QED BY <2>1, <2>2, <2>3, <1>0, <1>a DEF ListsOf
<1>1. CASE Contains(ids, id)
  <2>1. PICK k \in 1..Len(ids) : ids[k] = id
    BY <1>1 DEF Contains
  <2> DEFINE rest == RemoveFirst(ids, id)
  <2>2. /\ rest \in Seq(T) /\ Len(rest) = Len(ids) - 1
        /\ \A p \in 1..(Len(ids) - 1) : rest[p] = IF p < k THEN ids[p] ELSE ids[p + 1]
    BY <1>0, <2>1, RemoveFirstFacts
  <2>3. new = Append(rest, id)
    BY <1>1 DEF LatestLast
  <2>5. \A p \in 1..(Len(ids) - 1) :
          \E i \in 1..Len(ids) : i # k /\ rest[p] = ids[i] /\ i = IF p < k THEN p ELSE p + 1
    BY <1>0, <2>2
  <2> HIDE DEF rest
  <2>6. NoDuplicates(rest)
    <3> SUFFICES ASSUME NEW p \in 1..(Len(ids) - 1), NEW q \in 1..(Len(ids) - 1), rest[p] = rest[q]
                 PROVE  p = q
      BY <2>2 DEF NoDuplicates
    <3>1. PICK i \in 1..Len(ids) : rest[p] = ids[i] /\ i = IF p < k THEN p ELSE p + 1
      BY <2>5
    <3>2. PICK j \in 1..Len(ids) : rest[q] = ids[j] /\ j = IF q < k THEN q ELSE q + 1
      BY <2>5
    <3>3. i = j
      BY <3>1, <3>2, <1>0 DEF NoDuplicates
    <3> QED BY <3>1, <3>2, <3>3
  <2>7. ~Contains(rest, id) /\ Len(rest) < Num
    <3> SUFFICES ASSUME NEW p \in 1..(Len(ids) - 1), rest[p] = id PROVE FALSE
      BY <1>0, <2>2 DEF Contains
    <3>1. PICK i \in 1..Len(ids) : i # k /\ rest[p] = ids[i]
      BY <2>5
    <3> QED BY <3>1, <2>1, <1>0 DEF NoDuplicates
  <2>8. /\ Append(rest, id) \in ListsOf(T, Num) /\ Len(Append(rest, id)) = Len(rest) + 1
        /\ Append(rest, id)[Len(rest) + 1] = id
        /\ \A p \in 1..Len(rest) : Append(rest, id)[p] = rest[p]
    BY <1>a, <2>2, <2>6, <2>7
  <2> QED
    <3>1. Len(new) = Len(ids) /\ \A p \in 1..(Len(ids) - 1) : new[p] = rest[p]
      BY <1>0, <2>2, <2>3, <2>8
    <3>2. Moved(ids, id, new, k, Num)
      BY <3>1, <2>1, <2>2 DEF Moved
    <3>3. new \in ListsOf(T, Num) /\ Len(new) >= 1 /\ new[Len(new)] = id
      BY <3>1, <1>0, <2>2, <2>3, <2>8
    <3> QED BY <3>2, <3>3
<1>2. CASE ~Contains(ids, id) /\ Len(ids) < Num
  <2>1. new = Append(ids, id)
    BY <1>2 DEF LatestLast
  <2>2. Grown(ids, id, new)
    BY <1>2, <2>1, <1>a, <1>0 DEF Grown
  <2> QED BY <1>2, <2>1, <2>2, <1>a, <1>0
<1>3. CASE ~Contains(ids, id) /\ Len(ids) = Num
  <2> DEFINE rest == Tail(ids)
  <2>1. ids # <<>>
    BY <1>0, <1>3
  <2>2. /\ rest \in Seq(T) /\ Len(rest) = Len(ids) - 1
        /\ \A p \in 1..(Len(ids) - 1) : rest[p] = ids[p + 1]
    BY <2>1, <1>0, HeadTailProperties
  <2>4. new = Append(rest, id)
    BY <1>3 DEF LatestLast
  <2> HIDE DEF rest
  <2>5. NoDuplicates(rest)
    <3> SUFFICES ASSUME NEW p \in 1..(Len(ids) - 1), NEW q \in 1..(Len(ids) - 1), rest[p] = rest[q]
                 PROVE  p = q
      BY <2>2 DEF NoDuplicates
    <3>1. p + 1 \in 1..Len(ids) /\ q + 1 \in 1..Len(ids) /\ ids[p + 1] = ids[q + 1]
      BY <2>2, <1>0
    <3>2. p + 1 = q + 1
      BY <3>1, <1>0 DEF NoDuplicates
    <3> QED BY <3>2
  <2>6. ~Contains(rest, id)
    BY <1>0, <1>3, <2>2 DEF Contains
  <2>7. /\ Append(rest, id) \in ListsOf(T, Num) /\ Len(Append(rest, id)) = Len(rest) + 1
        /\ Append(rest, id)[Len(rest) + 1] = id
        /\ \A p \in 1..Len(rest) : Append(rest, id)[p] = rest[p]
    BY <1>a, <1>0, <1>3, <2>2, <2>5, <2>6
  <2>8. 1 \in 1..Len(ids)
    BY <1>0, <1>3
  <2>9. Len(new) = Len(ids) /\ \A p \in 1..(Len(ids) - 1) : new[p] = rest[p]
    BY <1>0, <2>2, <2>4, <2>7
  <2>10. Moved(ids, id, new, 1, Num)
    <3>1. \A p \in 1..(Len(ids) - 1) : ~(p < 1)
      BY <1>0
    <3> QED BY <3>1, <1>3, <2>2, <2>9 DEF Moved
  <2>11. new \in ListsOf(T, Num) /\ Len(new) >= 1 /\ new[Len(new)] = id
    BY <2>9, <1>0, <2>2, <2>4, <2>7
  <2> QED BY <2>8, <2>10, <2>11
<1>4. Len(ids) < Num \/ Len(ids) = Num
  BY <1>0
<1> QED BY <1>1, <1>2, <1>3, <1>4, Zenon

\* A function that never falls is nowhere above its last value.
LEMMA PlacesAreInside ==
  ASSUME NEW L \in Nat, NEW P \in [0..L -> Nat], \A n \in 1..L : P[n - 1] <= P[n]
  PROVE  \A n \in 0..L : P[n] <= P[L]
<1> DEFINE U == {k \in 0..L : P[L - k] <= P[L]}
<1>1. 0 \in U
  OBVIOUS
<1>2. ASSUME NEW k \in 1..L, k - 1 \in U PROVE k \in U
  <2> DEFINE i == L - (k - 1)
  <2>1. i \in 1..L /\ i \in 0..L /\ i - 1 \in 0..L /\ L - k = i - 1 /\ k \in 0..L /\ L \in 0..L
    OBVIOUS
  <2>2. P[i] <= P[L]
    BY <1>2
  <2> HIDE DEF i
  <2>3. P[i - 1] \in Nat /\ P[i] \in Nat /\ P[L] \in Nat /\ P[i - 1] <= P[i]
    BY <2>1
  <2>4. P[L - k] <= P[L]
    BY <2>1, <2>2, <2>3
  <2> QED BY <2>1, <2>4
<1>3. 0..L \subseteq U
  <2> HIDE DEF U
  <2> QED BY <1>1, <1>2, UpTo
<1> SUFFICES ASSUME NEW n \in 0..L PROVE P[n] <= P[L]
  OBVIOUS
<1>4. L - n \in 0..L /\ L - (L - n) = n
  OBVIOUS
<1> QED BY <1>3, <1>4

\* Where each list is in the sequence flat of the lists.
ListPlaces(lists, flat, P) ==
  /\ P \in [0..Len(lists) -> Nat] /\ P[0] = 0 /\ Len(flat) = P[Len(lists)]
  /\ \A n \in 0..Len(lists) : P[n] <= Len(flat)
  /\ \A n \in 1..Len(lists) :
       /\ P[n] = P[n - 1] + Len(lists[n])
       /\ \A j \in 1..Len(lists[n]) : flat[P[n - 1] + j] = lists[n][j]

LEMMA FlattenPlaces ==
  ASSUME NEW S, NEW lists \in Seq(Seq(S))
  PROVE  FlattenSeq(lists) \in Seq(S) /\ \E P : ListPlaces(lists, FlattenSeq(lists), P)
<1> DEFINE L == Len(lists)
<1>1. L \in Nat /\ \A n \in 1..L : lists[n] \in Seq(S) /\ Len(lists[n]) \in Nat
  BY LenProperties, ElementOfSeq
<1>2. PICK f \in [0..L -> Seq(S)] :
        /\ f[0] = <<>> /\ \A n \in 1..L : f[n] = f[n - 1] \o lists[n]
        /\ FlattenSeq(lists) = f[L]
  BY FlattenSteps
<1> DEFINE P == [n \in 0..L |-> Len(f[n])]
<1>3. P \in [0..L -> Nat]
  <2> SUFFICES ASSUME NEW n \in 0..L PROVE Len(f[n]) \in Nat
    OBVIOUS
  <2> QED BY LenProperties
<1>4. P[0] = 0 /\ Len(FlattenSeq(lists)) = P[L]
  BY <1>1, <1>2, EmptySeq
<1>5. ASSUME NEW n \in 1..L
      PROVE  /\ n - 1 \in 0..L /\ n \in 0..L
             /\ P[n] = P[n - 1] + Len(lists[n])
             /\ \A j \in 1..P[n] : f[n][j] = IF j <= P[n - 1] THEN f[n - 1][j]
                                             ELSE lists[n][j - P[n - 1]]
  <2>1. n - 1 \in 0..L /\ n \in 0..L
    BY <1>1
  <2>2. f[n - 1] \in Seq(S) /\ f[n] = f[n - 1] \o lists[n] /\ lists[n] \in Seq(S)
    BY <2>1, <1>1, <1>2
  <2>3. /\ Len(f[n]) = Len(f[n - 1]) + Len(lists[n])
        /\ \A j \in 1..(Len(f[n - 1]) + Len(lists[n])) :
             f[n][j] = IF j <= Len(f[n - 1]) THEN f[n - 1][j] ELSE lists[n][j - Len(f[n - 1])]
    <3> DEFINE A == f[n - 1]
               B == lists[n]
    <3>1. A \in Seq(S) /\ B \in Seq(S) /\ f[n] = A \o B
      BY <2>2
    <3> HIDE DEF A, B
    <3>2. /\ Len(A \o B) = Len(A) + Len(B)
          /\ \A j \in 1..(Len(A) + Len(B)) :
               (A \o B)[j] = IF j <= Len(A) THEN A[j] ELSE B[j - Len(A)]
      BY <3>1, ConcatProperties
    <3> QED BY <3>1, <3>2 DEF A, B
  <2> QED BY <2>1, <2>3
<1> DEFINE Placed(m) == \A n \in 1..m : \A j \in 1..Len(lists[n]) :
                          P[n - 1] + j \in 1..P[m] /\ f[m][P[n - 1] + j] = lists[n][j]
           T == {m \in 0..L : Placed(m)}
<1>6. 0 \in T
  BY <1>1
<1> HIDE DEF P, L
<1>7. ASSUME NEW m \in 1..L, m - 1 \in T PROVE m \in T
  <2>1. m - 1 \in 0..L /\ m \in 0..L /\ P[m] \in Nat /\ P[m - 1] \in Nat /\ Len(lists[m]) \in Nat
    BY <1>1, <1>3
  <2>2. ASSUME NEW n \in 1..m, NEW j \in 1..Len(lists[n])
        PROVE  P[n - 1] + j \in 1..P[m] /\ f[m][P[n - 1] + j] = lists[n][j]
    <3>1. CASE n = m
      <4>1. P[m - 1] + j \in 1..P[m] /\ ~(P[m - 1] + j <= P[m - 1])
        BY <3>1, <2>1, <1>5
      <4>2. f[m][P[m - 1] + j] = lists[m][(P[m - 1] + j) - P[m - 1]]
        BY <4>1, <1>5
      <4>3. (P[m - 1] + j) - P[m - 1] = j
        BY <2>1, <3>1
      <4> QED BY <3>1, <4>1, <4>2, <4>3
    <3>2. CASE n \in 1..(m - 1)
      <4>1. P[n - 1] + j \in 1..P[m - 1] /\ f[m - 1][P[n - 1] + j] = lists[n][j]
        BY <3>2, <1>7
      <4>2. P[n - 1] + j \in 1..P[m] /\ P[n - 1] + j <= P[m - 1]
        BY <4>1, <2>1, <1>5
      <4> QED BY <4>1, <4>2, <1>5
    <3> QED BY <3>1, <3>2, <1>1
  <2> QED BY <2>1, <2>2
<1>8. L \in T
  <2>1. 0..L \subseteq T
    <3> HIDE DEF T
    <3> QED BY <1>1, <1>6, <1>7, UpTo
  <2>2. L \in 0..L
    BY <1>1
  <2> QED BY <2>1, <2>2
<1>9. Placed(L)
  BY <1>8
<1>10. FlattenSeq(lists) \in Seq(S)
  BY <1>1, <1>2
<1>11. \A n \in 1..L : /\ P[n] = P[n - 1] + Len(lists[n])
                       /\ \A j \in 1..Len(lists[n]) : FlattenSeq(lists)[P[n - 1] + j] = lists[n][j]
  BY <1>2, <1>5, <1>9
<1>12. \A n \in 0..L : P[n] <= P[L]
  <2>1. \A n \in 1..L : P[n - 1] <= P[n]
    <3> SUFFICES ASSUME NEW n \in 1..L PROVE P[n - 1] <= P[n]
      OBVIOUS
    <3>1. P[n - 1] \in Nat /\ Len(lists[n]) \in Nat /\ P[n] = P[n - 1] + Len(lists[n])
      BY <1>1, <1>3, <1>5
    <3> QED BY <3>1
  <2> QED BY <2>1, <1>1, <1>3, PlacesAreInside
<1>13. ListPlaces(lists, FlattenSeq(lists), P)
  BY <1>3, <1>4, <1>11, <1>12 DEF L, ListPlaces
<1> QED BY <1>10, <1>13

\* A finite set of naturals can be counted upwards.
LEMMA AscendingExists ==
  ASSUME NEW S, S \subseteq Nat, IsFiniteSet(S)
  PROVE  /\ Cardinality(S) \in Nat
         /\ \E s \in [1..Cardinality(S) -> S] : \A i, j \in DOMAIN s : i < j => s[i] < s[j]
<1> DEFINE C == Cardinality(S)
           Counts(n, T, s) == /\ T \subseteq S /\ s \in [1..n -> T]
                              /\ \A i, j \in 1..n : i < j => s[i] < s[j]
                              /\ \A x \in T, y \in S \ T : x < y
                              /\ Cardinality(S \ T) = C - n
           Good == {n \in 0..C : \E T, s : Counts(n, T, s)}
<1>1. C \in Nat
  BY FS_CardinalityType
<1>2. 0 \in Good
  <2> DEFINE none == [i \in 1..0 |-> 0]
  <2>1. none \in [1..0 -> {}] /\ 1..0 = {} /\ S \ {} = S
    OBVIOUS
  <2>2. Counts(0, {}, none)
    BY <1>1, <2>1
  <2>3. 0 \in 0..C
    BY <1>1
  <2> HIDE DEF Counts, none, C
  <2> QED BY <2>2, <2>3
<1>3. ASSUME NEW n \in 1..C, n - 1 \in Good PROVE n \in Good
  <2>1. PICK T, s : Counts(n - 1, T, s)
    BY <1>3
  <2>2. IsFiniteSet(S \ T) /\ S \ T # {}
    <3>1. IsFiniteSet(S \ T)
      BY FS_Subset
    <3>2. C - (n - 1) # 0
      BY <1>1
    <3> QED BY <3>1, <3>2, <2>1, FS_EmptySet
  <2>3. PICK x \in S \ T : \A y \in S \ T : x <= y
    BY <2>2, LeastNatural
  <2> DEFINE more == T \cup {x}
             t == [i \in 1..n |-> IF i = n THEN x ELSE s[i]]
  <2>4. \A i \in 1..n : i = n \/ i \in 1..(n - 1)
    BY <1>1
  <2>5. t \in [1..n -> more] /\ more \subseteq S
    BY <2>1, <2>3, <2>4
  <2>6. \A i, j \in 1..n : i < j => t[i] < t[j]
    <3> SUFFICES ASSUME NEW i \in 1..n, NEW j \in 1..n, i < j PROVE t[i] < t[j]
      OBVIOUS
    <3>1. i \in 1..(n - 1) /\ t[i] = s[i] /\ s[i] \in T
      BY <2>1, <2>4
    <3>2. CASE j = n
      BY <3>1, <3>2, <2>1, <2>3
    <3>3. CASE j \in 1..(n - 1)
      BY <3>1, <3>3, <2>1
    <3> QED BY <3>2, <3>3, <2>4
  <2>7. \A y \in more, z \in S \ more : y < z
    <3> SUFFICES ASSUME NEW y \in more, NEW z \in S \ more PROVE y < z
      OBVIOUS
    <3>1. z \in S \ T /\ z # x /\ z \in Nat /\ x \in Nat
      BY <2>3
    <3> QED BY <3>1, <2>1, <2>3
  <2>8. Cardinality(S \ more) = C - n
    <3>1. S \ more = (S \ T) \ {x}
      OBVIOUS
    <3>2. Cardinality((S \ T) \ {x}) = Cardinality(S \ T) - 1
      BY <2>2, <2>3, FS_RemoveElement
    <3>3. Cardinality(S \ T) = C - (n - 1) /\ n \in Nat
      BY <2>1, <1>1
    <3> HIDE DEF C, more
    <3> QED BY <3>1, <3>2, <3>3, <1>1
  <2> HIDE DEF more, t
  <2>9. Counts(n, more, t)
    BY <2>5, <2>6, <2>7, <2>8
  <2>10. n \in 0..C
    BY <1>1
  <2> HIDE DEF Counts, C
  <2> QED BY <2>9, <2>10
<1>4. C \in Good
  <2>1. 0..C \subseteq Good
    <3> HIDE DEF Good, C
    <3> QED BY <1>1, <1>2, <1>3, UpTo
  <2>2. C \in 0..C
    BY <1>1
  <2> HIDE DEF Good, C
  <2> QED BY <2>1, <2>2
<1>5. PICK T, s : Counts(C, T, s)
  BY <1>4
<1> QED BY <1>1, <1>5
=============================================================================
