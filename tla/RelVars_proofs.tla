--------------------------- MODULE RelVars_proofs ---------------------------
(***************************************************************************)
(* Proofs about RelVars for any relation ids, values and limits: the       *)
(* index stays a sorted list of all slots, so the search has exactly one   *)
(* place to find; slots keep their relation; slots, index and search       *)
(* implement the map of RelMap; the walks visit what is set, or modified;  *)
(* and only a cleared variable is left unmarked.  Then the binary search   *)
(* of RelVarSearch, for every index and every id.                          *)
(***************************************************************************)
EXTENDS RelVars, RelVarSearch, FoldLemmas, SequenceTheorems, TLAPS

----------------------------------------------------------------------------
(* Sequences *)

\* Dropping the oldest elements of a variable leaves a list of values.
LEMMA NewVarType ==
  ASSUME NEW var \in Seq(Values), NEW v \in Values, NEW type, NEW max \in Limits
  PROVE  NewVar(var, v, type, max) \in Seq(Values)
<1>1. max \in Nat /\ Len(var) \in Nat
  BY LimitsAssumption, LenProperties DEF LimitsAssumption
<1>2. DropFull(var, max) \in Seq(Values)
  <2>1. CASE max = MaxLinearInfinite \/ Len(var) < max
    BY <2>1 DEF DropFull
  <2>2. CASE ~(max = MaxLinearInfinite \/ Len(var) < max)
    <3>1. Len(var) - max + 2 \in 1..(Len(var) + 1)
      BY <1>1, <2>2 DEF MaxLinearInfinite
    <3>2. SubSeq(var, Len(var) - max + 2, Len(var)) \in Seq(Values)
      BY <3>1, <1>1, SubSeqProperties
    <3> QED BY <3>2, <2>2 DEF DropFull
  <2> QED BY <2>1, <2>2
<1> QED BY <1>2 DEF NewVar

----------------------------------------------------------------------------
(* The index and the search *)

IInv == TypeOK /\ IndexOK

LEMMA IndexFacts ==
  ASSUME IInv
  PROVE  /\ Len(relVarSort) \in Nat /\ Len(relVar) \in Nat
         /\ DOMAIN relVarSort = 1..Len(relVarSort)
         /\ DOMAIN relVar = 1..Len(relVar)
         /\ \A p \in 1..Len(relVarSort) : /\ relVarSort[p] \in DOMAIN relVar
                                          /\ IndexedId(p) \in RelationIds
                                          /\ IndexedId(p) \in Nat
         /\ \A i \in DOMAIN relVar : /\ relVar[i] \in Slot
                                     /\ \E p \in 1..Len(relVarSort) : relVarSort[p] = i
<1>1. relVar \in Seq(Slot) /\ relVarSort \in Seq(DOMAIN relVar)
  BY DEF IInv, TypeOK
<1>2. /\ Len(relVarSort) \in Nat /\ Len(relVar) \in Nat
      /\ DOMAIN relVarSort = 1..Len(relVarSort)
      /\ DOMAIN relVar = 1..Len(relVar)
  BY <1>1, LenProperties
<1>3. \A i \in DOMAIN relVar : relVar[i] \in Slot
  BY <1>1, <1>2, ElementOfSeq
<1>4. \A p \in 1..Len(relVarSort) : relVarSort[p] \in DOMAIN relVar
  BY <1>1, ElementOfSeq
<1>5. \A p \in 1..Len(relVarSort) : IndexedId(p) \in RelationIds /\ IndexedId(p) \in Nat
  BY <1>3, <1>4, RelationIdsAssumption DEF IndexedId, Slot, RelationIdsAssumption
<1>6. \A i \in DOMAIN relVar : \E p \in 1..Len(relVarSort) : relVarSort[p] = i
  BY <1>2 DEF IInv, IndexOK, Range
<1> QED BY <1>2, <1>3, <1>4, <1>5, <1>6

\* In a sorted index every id has a place: FindRelationPos is well defined.
LEMMA PosFacts ==
  ASSUME IInv, NEW r \in RelationIds
  PROVE  /\ FindRelationPos(r) \in 1..(Len(relVarSort) + 1)
         /\ \A i \in 1..(FindRelationPos(r) - 1) : IndexedId(i) < r
         /\ \A i \in FindRelationPos(r)..Len(relVarSort) : IndexedId(i) >= r
<1> DEFINE n == Len(relVarSort)
           Fits == {p \in 1..(n + 1) : p = n + 1 \/ IndexedId(p) >= r}
<1>1. /\ n \in Nat /\ DOMAIN relVarSort = 1..n
      /\ r \in Nat /\ \A p \in 1..n : IndexedId(p) \in Nat
      /\ \A p, q \in 1..n : p < q => IndexedId(p) < IndexedId(q)
  BY IndexFacts, RelationIdsAssumption DEF IInv, IndexOK, RelationIdsAssumption
<1> HIDE DEF n
<1>2. Fits \subseteq Nat /\ Fits # {}
  BY <1>1
<1>3. PICK least \in Fits : \A p \in Fits : least <= p
  <2> HIDE DEF Fits
  <2> QED BY <1>2, LeastNatural
<1>4. \A p \in Fits : p >= least
  BY <1>2, <1>3
<1>5. /\ least \in 1..(n + 1)
      /\ \A i \in 1..(least - 1) : IndexedId(i) < r
      /\ \A i \in least..n : IndexedId(i) >= r
  <2>0. least \in 1..(n + 1) /\ (least = n + 1 \/ IndexedId(least) >= r)
    OBVIOUS
  <2>1. ASSUME NEW i \in 1..(least - 1) PROVE IndexedId(i) < r
    <3>1. i \in 1..n /\ i < least
      BY <1>1, <2>0
    <3>2. i \notin Fits
      BY <3>1, <1>4, <1>1
    <3> QED BY <3>1, <3>2, <1>1
  <2>2. ASSUME NEW i \in least..n PROVE IndexedId(i) >= r
    <3>1. least \in 1..n /\ i \in 1..n /\ IndexedId(least) >= r
      BY <1>1, <2>0
    <3> QED BY <3>1, <1>1
  <2> QED BY <2>0, <2>1, <2>2
<1>6. \E pos \in 1..(Len(relVarSort) + 1) :
        /\ \A i \in 1..(pos - 1) : IndexedId(i) < r
        /\ \A i \in pos..Len(relVarSort) : IndexedId(i) >= r
  BY <1>5 DEF n
<1> QED BY <1>6 DEF FindRelationPos

\* A slot that a look-up answers with exists.
LEMMA FoundSlot ==
  ASSUME IInv, NEW r \in RelationIds, FindRelationId(r) # VarNotSet
  PROVE  FindRelationId(r) \in DOMAIN relVar
BY PosFacts, IndexFacts DEF FindRelationId

----------------------------------------------------------------------------
(* The inductive invariant *)

\* Changing the values of a slot leaves the index as it was.
LEMMA RewriteSlot ==
  ASSUME IInv, NEW vid \in DOMAIN relVar, NEW var \in Seq(Values),
         relVar' = [relVar EXCEPT ![vid].var = var, ![vid].modified = TRUE],
         UNCHANGED relVarSort
  PROVE  /\ relVar' \in Seq(Slot)
         /\ relVarSort' \in Seq(DOMAIN relVar')
         /\ IndexOK'
         /\ DOMAIN relVar' = DOMAIN relVar
         /\ \A i \in DOMAIN relVar : relVar'[i].relation_id = relVar[i].relation_id
<1>1. relVar[vid] \in Slot
  BY IndexFacts
<1>2. DOMAIN relVar' = DOMAIN relVar
  OBVIOUS
<1>3. \A i \in DOMAIN relVar : /\ relVar'[i] \in Slot
                               /\ relVar'[i].relation_id = relVar[i].relation_id
  BY <1>1, IndexFacts DEF Slot
<1>4. relVar' \in Seq(Slot)
  <2> DEFINE slot == [relVar[vid] EXCEPT !.var = var, !.modified = TRUE]
  <2>1. slot \in Slot
    BY <1>1 DEF Slot
  <2>2. relVar' = [relVar EXCEPT ![vid] = slot]
    OBVIOUS
  <2> HIDE DEF slot
  <2>3. relVar \in Seq(Slot) /\ vid \in 1..Len(relVar)
    BY IndexFacts DEF IInv, TypeOK
  <2>4. [relVar EXCEPT ![vid] = slot] \in Seq(Slot)
    BY <2>1, <2>3, ExceptSeq
  <2> QED BY <2>2, <2>4
<1>5. IndexOK'
  BY ZenonT(40), <1>2, <1>3, IndexFacts DEF IInv, IndexOK, IndexedId
<1> QED BY <1>2, <1>3, <1>4, <1>5 DEF IInv, TypeOK

\* A new slot goes where its id belongs.
LEMMA AddSlot ==
  ASSUME IInv, NEW r \in RelationIds, NEW v \in Values,
         ~IsIndexedAt(r, FindRelationPos(r)), InsertSlot(r, v, FindRelationPos(r))
  PROVE  /\ relVar' \in Seq(Slot)
         /\ relVarSort' \in Seq(DOMAIN relVar')
         /\ IndexOK'
         /\ \A i \in DOMAIN relVar : i \in DOMAIN relVar' /\ relVar'[i] = relVar[i]
<1> DEFINE pos == FindRelationPos(r)
           n == Len(relVarSort)
           slot == [relation_id |-> r, modified |-> TRUE, var |-> <<v>>]
           vid == Len(relVar) + 1
<1>1. /\ pos \in 1..(n + 1)
      /\ \A i \in 1..(pos - 1) : IndexedId(i) < r
      /\ \A i \in pos..n : IndexedId(i) >= r
  BY PosFacts
<1>2. /\ n \in Nat /\ Len(relVar) \in Nat
      /\ DOMAIN relVarSort = 1..n /\ DOMAIN relVar = 1..Len(relVar)
      /\ \A p \in 1..n : relVarSort[p] \in DOMAIN relVar /\ IndexedId(p) \in Nat
      /\ \A p, q \in 1..n : p < q => IndexedId(p) < IndexedId(q)
      /\ relVar \in Seq(Slot) /\ relVarSort \in Seq(DOMAIN relVar)
      /\ \A i \in DOMAIN relVar : \E p \in 1..n : relVarSort[p] = i
      /\ r \in Nat
  BY IndexFacts, RelationIdsAssumption DEF IInv, IndexOK, TypeOK, RelationIdsAssumption
<1>3. \A i \in pos..n : IndexedId(i) > r
  <2> SUFFICES ASSUME NEW i \in pos..n PROVE IndexedId(i) > r
    OBVIOUS
  <2>1. pos \in 1..n /\ i \in 1..n /\ i >= pos
    BY <1>1, <1>2
  <2>2. IndexedId(pos) # r
    BY <2>1 DEF IsIndexedAt
  <2>3. IndexedId(pos) >= r /\ IndexedId(pos) \in Nat /\ IndexedId(i) \in Nat
    BY SMTT(40), <2>1, <1>1, <1>2
  <2> HIDE DEF pos, n
  <2>4. IndexedId(pos) > r
    BY <2>2, <2>3, <1>2
  <2>5. i > pos => IndexedId(i) > IndexedId(pos)
    BY <2>1, <1>2
  <2>6. (i = pos \/ i > pos) /\ r \in Nat
    BY <2>1, <1>2
  <2> QED BY <2>3, <2>4, <2>5, <2>6
<1>4. slot \in Slot
  BY DEF Slot
<1>5. /\ relVar' = Append(relVar, slot)
      /\ relVarSort' = InsertAt(relVarSort, pos, vid)
  BY DEF InsertSlot
<1>6. /\ relVar' \in Seq(Slot)
      /\ DOMAIN relVar' = 1..vid
      /\ \A i \in 1..Len(relVar) : relVar'[i] = relVar[i]
      /\ relVar'[vid].relation_id = r
  BY <1>2, <1>4, <1>5, AppendProperties
<1>7. /\ relVarSort' \in Seq(1..vid)
      /\ Len(relVarSort') = n + 1
      /\ \A i \in 1..(n + 1) : relVarSort'[i] = IF i < pos THEN relVarSort[i]
                                               ELSE IF i = pos THEN vid ELSE relVarSort[i - 1]
  <2> DEFINE S == 1..vid
  <2>1. relVarSort \in Seq(S) /\ vid \in S
    BY <1>2, SeqMonotonic
  <2>2. pos \in 1..(Len(relVarSort) + 1)
    BY <1>1
  <2> HIDE DEF S, pos, vid, n
  <2>3. /\ InsertAt(relVarSort, pos, vid) \in Seq(S)
        /\ Len(InsertAt(relVarSort, pos, vid)) = Len(relVarSort) + 1
        /\ \A i \in 1..(Len(relVarSort) + 1) :
             InsertAt(relVarSort, pos, vid)[i] =
               IF i < pos THEN relVarSort[i] ELSE IF i = pos THEN vid ELSE relVarSort[i - 1]
    BY <2>1, <2>2, InsertAtFacts
  <2> QED BY <2>3, <1>5 DEF n, S
<1> HIDE DEF pos, n, slot, vid
<1>8. \A i \in 1..(n + 1) : IndexedId(i)' = IF i < pos THEN IndexedId(i)
                                           ELSE IF i = pos THEN r ELSE IndexedId(i - 1)
  <2> SUFFICES ASSUME NEW i \in 1..(n + 1)
               PROVE  IndexedId(i)' = IF i < pos THEN IndexedId(i)
                                      ELSE IF i = pos THEN r ELSE IndexedId(i - 1)
    OBVIOUS
  <2>0. IndexedId(i)' = relVar'[relVarSort'[i]].relation_id
    BY DEF IndexedId
  <2>1. CASE i < pos
    <3>1. i \in 1..n
      BY <2>1, <1>1, <1>2
    <3>2. relVarSort'[i] = relVarSort[i] /\ relVarSort[i] \in 1..Len(relVar)
      BY <2>1, <3>1, <1>2, <1>7
    <3> QED BY <2>0, <2>1, <3>2, <1>6 DEF IndexedId
  <2>2. CASE i = pos
    BY <2>0, <2>2, <1>1, <1>2, <1>6, <1>7
  <2>3. CASE i > pos
    <3>1. i - 1 \in 1..n
      BY <2>3, <1>1, <1>2
    <3>2. relVarSort'[i] = relVarSort[i - 1] /\ relVarSort[i - 1] \in 1..Len(relVar)
      BY <2>3, <3>1, <1>1, <1>2, <1>7
    <3>3. ~(i < pos) /\ i # pos
      BY <2>3, <1>1, <1>2
    <3> QED BY <2>0, <3>2, <3>3, <1>6 DEF IndexedId
  <2> QED BY <2>1, <2>2, <2>3, <1>1, <1>2
<1>9. DOMAIN relVarSort' = 1..(n + 1)
  BY <1>7, LenProperties
<1>10. \A p, q \in DOMAIN relVarSort' : p < q => IndexedId(p)' < IndexedId(q)'
  <2> SUFFICES ASSUME NEW p \in 1..(n + 1), NEW q \in 1..(n + 1), p < q
               PROVE  IndexedId(p)' < IndexedId(q)'
    BY <1>9
  <2>0. /\ p \in Nat /\ q \in Nat /\ pos \in 1..(n + 1)
        /\ p < pos => p \in 1..n /\ IndexedId(p)' = IndexedId(p) /\ IndexedId(p) < r
        /\ q < pos => q \in 1..n /\ IndexedId(q)' = IndexedId(q)
        /\ p > pos => p - 1 \in 1..n /\ IndexedId(p)' = IndexedId(p - 1)
        /\ q > pos => q - 1 \in 1..n /\ IndexedId(q)' = IndexedId(q - 1)
                                     /\ IndexedId(q - 1) > r
        /\ p = pos => IndexedId(p)' = r
        /\ q = pos => IndexedId(q)' = r
    <3>1. p < pos => p \in 1..n /\ IndexedId(p)' = IndexedId(p) /\ IndexedId(p) < r
      BY <1>1, <1>2, <1>8
    <3>2. q < pos => q \in 1..n /\ IndexedId(q)' = IndexedId(q)
      BY <1>1, <1>2, <1>8
    <3>3. p > pos => p - 1 \in 1..n /\ IndexedId(p)' = IndexedId(p - 1)
      BY <1>1, <1>2, <1>8
    <3>4. q > pos => /\ q - 1 \in 1..n /\ IndexedId(q)' = IndexedId(q - 1)
                     /\ IndexedId(q - 1) > r
      <4>1. q > pos => q - 1 \in pos..n
        BY <1>1, <1>2
      <4> QED BY <4>1, <1>1, <1>2, <1>3, <1>8
    <3>5. /\ p = pos => IndexedId(p)' = r
          /\ q = pos => IndexedId(q)' = r
      BY <1>1, <1>2, <1>8
    <3> QED BY <3>1, <3>2, <3>3, <3>4, <3>5, <1>1, <1>2
  <2>1. CASE q < pos
    <3>1. p < pos /\ IndexedId(p) < IndexedId(q)
      BY <2>0, <2>1, <1>2
    <3> QED BY <2>0, <2>1, <3>1
  <2>2. CASE q = pos
    BY <2>0, <2>2
  <2>3. CASE p < pos /\ q > pos
    <3>1. IndexedId(p) \in Nat /\ IndexedId(q - 1) \in Nat
      BY <2>0, <2>3, <1>2
    <3> QED BY <3>1, <2>0, <2>3, <1>2
  <2>4. CASE p = pos /\ q > pos
    BY <2>0, <2>4, <1>2
  <2>5. CASE p > pos
    <3>1. q > pos /\ p - 1 < q - 1
      BY <2>0, <2>5
    <3>2. IndexedId(p - 1) < IndexedId(q - 1)
      BY <2>0, <2>5, <3>1, <1>2
    <3> QED BY <2>0, <2>5, <3>1, <3>2
  <2> QED BY <2>0, <2>1, <2>2, <2>3, <2>4, <2>5
<1>11. Range(relVarSort') = DOMAIN relVar'
  <2>1. \A i \in 1..(n + 1) : relVarSort'[i] \in 1..vid
    BY <1>7, ElementOfSeq
  <2>2. ASSUME NEW i \in 1..vid PROVE \E p \in 1..(n + 1) : relVarSort'[p] = i
    <3>1. CASE i = vid
      BY <3>1, <1>1, <1>7
    <3>2. CASE i # vid
      <4>0. i \in DOMAIN relVar
        BY <3>2, <1>2 DEF vid
      <4>1. PICK p \in 1..n : relVarSort[p] = i
        BY <4>0, <1>2
      <4>2. CASE p < pos
        BY <4>1, <4>2, <1>2, <1>7
      <4>3. CASE p >= pos
        <5>1. p + 1 \in 1..(n + 1) /\ ~(p + 1 < pos) /\ p + 1 # pos /\ (p + 1) - 1 = p
          BY <4>3, <1>1, <1>2
        <5> QED BY <5>1, <4>1, <1>7
      <4> QED BY <4>2, <4>3, <1>1, <1>2
    <3> QED BY <3>1, <3>2
  <2> QED BY <2>1, <2>2, <1>6, <1>9 DEF Range
<1>12. IndexOK'
  BY <1>10, <1>11 DEF IndexOK
<1> QED BY SMTT(40), <1>2, <1>6, <1>7, <1>12 DEF vid

THEOREM InitIInv == Init => IInv
<1> SUFFICES ASSUME Init PROVE IInv
  OBVIOUS
<1>1. relVar = <<>> /\ relVarSort = <<>> /\ relVar \in Seq(Slot)
  BY DEF Init
<1>2. relVarSort \in Seq(DOMAIN relVar) /\ DOMAIN relVar = {} /\ DOMAIN relVarSort = {}
  BY <1>1
<1>3. TypeOK
  BY <1>1, <1>2 DEF Init, TypeOK
<1>4. IndexOK
  BY <1>2 DEF IndexOK, Range
<1> QED BY <1>3, <1>4 DEF IInv

\* What every step does to the slots: it changes none, rewrites the values
\* of one, or adds one.
LEMMA StepShape ==
  ASSUME IInv, [Next]_vars
  PROVE  \/ UNCHANGED <<relVar, relVarSort>>
         \/ /\ UNCHANGED relVarSort
            /\ \E vid \in DOMAIN relVar, var \in Seq(Values) :
                 relVar' = [relVar EXCEPT ![vid].var = var, ![vid].modified = TRUE]
         \/ \E r \in RelationIds, v \in Values :
              /\ ~IsIndexedAt(r, FindRelationPos(r))
              /\ InsertSlot(r, v, FindRelationPos(r))
<1>1. ASSUME NEW r \in RelationIds, ClearVar(r)
      PROVE  /\ UNCHANGED relVarSort
             /\ \E vid \in DOMAIN relVar, var \in Seq(Values) :
                  relVar' = [relVar EXCEPT ![vid].var = var, ![vid].modified = TRUE]
  <2>1. FindRelationId(r) \in DOMAIN relVar
    BY <1>1, FoundSlot DEF ClearVar
  <2>2. <<>> \in Seq(Values)
    OBVIOUS
  <2> QED BY <1>1, <2>1, <2>2 DEF ClearVar
<1>2. ASSUME NEW r \in RelationIds, NEW v \in Values, NEW type, NEW max \in Limits,
             IsIndexedAt(r, FindRelationPos(r)),
             UpdateSlot(v, type, max, relVarSort[FindRelationPos(r)])
      PROVE  /\ UNCHANGED relVarSort
             /\ \E vid \in DOMAIN relVar, var \in Seq(Values) :
                  relVar' = [relVar EXCEPT ![vid].var = var, ![vid].modified = TRUE]
  <2> DEFINE vid == relVarSort[FindRelationPos(r)]
             var == NewVar(relVar[vid].var, v, type, max)
  <2>1. vid \in DOMAIN relVar
    BY <1>2, PosFacts, IndexFacts DEF IsIndexedAt
  <2>2. relVar[vid].var \in Seq(Values)
    BY <2>1, IndexFacts DEF Slot
  <2>3. var \in Seq(Values)
    BY <2>2, NewVarType
  <2>4. UNCHANGED relVarSort
        /\ relVar' = [relVar EXCEPT ![vid].var = var, ![vid].modified = TRUE]
    BY <1>2 DEF UpdateSlot
  <2> QED BY <2>1, <2>3, <2>4
<1>3. ASSUME NEW vid \in DOMAIN relVar, NEW v \in Values, AddLinearElement(vid, v)
      PROVE  /\ UNCHANGED relVarSort
             /\ \E i \in DOMAIN relVar, var \in Seq(Values) :
                  relVar' = [relVar EXCEPT ![i].var = var, ![i].modified = TRUE]
  <2>1. relVar[vid].var \in Seq(Values)
    BY IndexFacts DEF Slot
  <2>2. Append(relVar[vid].var, v) \in Seq(Values)
    BY <2>1
  <2>3. /\ UNCHANGED relVarSort
        /\ relVar' = [relVar EXCEPT ![vid].var = Append(relVar[vid].var, v),
                                    ![vid].modified = TRUE]
    BY <1>3 DEF AddLinearElement
  <2> QED BY <2>2, <2>3
<1>4. SetOtherField \/ FinishConstruction \/ Store \/ UNCHANGED vars
        => UNCHANGED <<relVar, relVarSort>>
  BY DEF SetOtherField, FinishConstruction, Store, vars
<1>5. ASSUME NEW r \in RelationIds, NEW v \in Values \cup {EmptyValue},
             NEW type \in AllocationType, NEW max \in Limits, SetVar(r, v, type, max)
      PROVE  \/ ClearVar(r)
             \/ v \in Values /\ ~IsIndexedAt(r, FindRelationPos(r))
                             /\ InsertSlot(r, v, FindRelationPos(r))
             \/ v \in Values /\ IsIndexedAt(r, FindRelationPos(r))
                             /\ UpdateSlot(v, type, max, relVarSort[FindRelationPos(r)])
  BY <1>5 DEF SetVar
<1> QED BY <1>1, <1>2, <1>3, <1>4, <1>5 DEF Next

THEOREM NextIInv == IInv /\ [Next]_vars => IInv'
<1> SUFFICES ASSUME IInv, [Next]_vars PROVE IInv'
  OBVIOUS
<1>1. relVar' \in Seq(Slot) /\ relVarSort' \in Seq(DOMAIN relVar') /\ IndexOK'
  <2>1. CASE UNCHANGED <<relVar, relVarSort>>
    BY <2>1 DEF IInv, TypeOK, IndexOK, IndexedId
  <2> QED BY <2>1, StepShape, RewriteSlot, AddSlot
<1>2. modified' \in BOOLEAN /\ relVarModified' \in BOOLEAN /\ phase' \in {"loading", "live"}
  <2>0. modified \in BOOLEAN /\ relVarModified \in BOOLEAN /\ phase \in {"loading", "live"}
    BY DEF IInv, TypeOK
  <2>1. MarkModified => modified' = TRUE /\ relVarModified' = TRUE /\ phase' = phase
    BY DEF MarkModified
  <2>2. ASSUME NEW r \in RelationIds, ClearVar(r)
        PROVE  UNCHANGED <<modified, relVarModified, phase>>
    BY <2>2 DEF ClearVar
  <2>3. ASSUME NEW r \in RelationIds, NEW v \in Values \cup {EmptyValue},
               NEW type \in AllocationType, NEW max \in Limits, SetVar(r, v, type, max)
        PROVE  ClearVar(r) \/ MarkModified
    BY <2>3 DEF SetVar, InsertSlot, UpdateSlot
  <2>4. ASSUME NEW vid \in DOMAIN relVar, NEW v \in Values, AddLinearElement(vid, v)
        PROVE  MarkModified
    BY <2>4 DEF AddLinearElement
  <2>5. CASE SetOtherField \/ FinishConstruction \/ Store \/ UNCHANGED vars
    BY <2>0, <2>5 DEF SetOtherField, FinishConstruction, Store, vars
  <2> QED BY <2>0, <2>1, <2>2, <2>3, <2>4, <2>5 DEF Next
<1> QED BY <1>1, <1>2 DEF IInv, TypeOK

\* The types hold, and the index is the sorted list of all slots, whatever
\* is set, added and cleared in whatever order.
THEOREM IndexAlwaysOK == Spec => [](TypeOK /\ IndexOK)
BY InitIInv, NextIInv, PTL DEF Spec, IInv

\* A VarId names the same relation for the life of the cookie.
THEOREM HandlesAlwaysValid == Spec => HandlesStayValid
<1> DEFINE Kept == \A vid \in DOMAIN relVar :
                     /\ vid \in DOMAIN relVar'
                     /\ relVar'[vid].relation_id = relVar[vid].relation_id
<1>1. IInv /\ [Next]_vars => [Kept]_vars
  <2> SUFFICES ASSUME IInv, [Next]_vars PROVE Kept
    OBVIOUS
  <2>1. CASE UNCHANGED <<relVar, relVarSort>>
    BY <2>1
  <2> QED BY <2>1, StepShape, RewriteSlot, AddSlot
<1>2. Spec => [][Kept]_vars
  BY <1>1, InitIInv, NextIInv, PTL DEF Spec
<1> QED BY <1>2 DEF HandlesStayValid

----------------------------------------------------------------------------
(* What the slots mean: a map of ids to values *)

Known == {r \in RelationIds : SlotsOf(r) # {}}

\* No id has two slots: the values of a slot are the values of its id.
OneSlotEach ==
  \A i \in DOMAIN relVar : /\ relVar[i].relation_id \in Known
                           /\ SlotsOf(relVar[i].relation_id) = {i}
                           /\ ValuesOf(relVar[i].relation_id) = relVar[i].var

LEMMA OneSlot == IInv => OneSlotEach
<1> SUFFICES ASSUME IInv, NEW i \in DOMAIN relVar
             PROVE  /\ relVar[i].relation_id \in Known
                    /\ SlotsOf(relVar[i].relation_id) = {i}
                    /\ ValuesOf(relVar[i].relation_id) = relVar[i].var
  BY DEF OneSlotEach
<1>1. relVar[i].relation_id \in RelationIds
  BY IndexFacts DEF Slot
<1>2. ASSUME NEW j \in DOMAIN relVar, relVar[j].relation_id = relVar[i].relation_id
      PROVE  j = i
  <2>1. PICK p \in 1..Len(relVarSort) : relVarSort[p] = i
    BY IndexFacts
  <2>2. PICK q \in 1..Len(relVarSort) : relVarSort[q] = j
    BY IndexFacts
  <2>3. p \in DOMAIN relVarSort /\ q \in DOMAIN relVarSort /\ IndexedId(p) = IndexedId(q)
    BY <1>2, <2>1, <2>2, IndexFacts DEF IndexedId
  <2>4. ~(p < q) /\ ~(q < p)
    <3>1. IndexedId(p) \in Nat
      BY IndexFacts
    <3>2. /\ p < q => IndexedId(p) < IndexedId(q)
          /\ q < p => IndexedId(q) < IndexedId(p)
      BY <2>3 DEF IInv, IndexOK
    <3> QED BY <2>3, <3>1, <3>2
  <2>5. p \in Int /\ q \in Int
    OBVIOUS
  <2>6. p = q
    BY <2>4, <2>5
  <2> QED BY <2>1, <2>2, <2>6
<1>3. SlotsOf(relVar[i].relation_id) = {i}
  BY <1>2 DEF SlotsOf
<1>4. ValuesOf(relVar[i].relation_id) = relVar[i].var
  <2>1. \A j \in SlotsOf(relVar[i].relation_id) : j = i
    BY <1>3
  <2>2. (CHOOSE j \in SlotsOf(relVar[i].relation_id) : TRUE) = i
    BY <1>3
  <2> QED BY <1>3, <2>2 DEF ValuesOf
<1> QED BY <1>1, <1>3, <1>4 DEF Known

\* Rewriting the values of a slot sets the values of its id, and no other.
LEMMA RewriteMeans ==
  ASSUME IInv, NEW vid \in DOMAIN relVar, NEW var \in Seq(Values),
         relVar' = [relVar EXCEPT ![vid].var = var, ![vid].modified = TRUE],
         UNCHANGED relVarSort
  PROVE  /\ Known' = Known
         /\ \A r \in RelationIds : ValuesOf(r)' = IF r = relVar[vid].relation_id
                                                  THEN var ELSE ValuesOf(r)
<1>1. /\ DOMAIN relVar' = DOMAIN relVar
      /\ \A i \in DOMAIN relVar : relVar'[i].relation_id = relVar[i].relation_id
  BY RewriteSlot
<1>2. \A r : SlotsOf(r)' = SlotsOf(r)
  BY <1>1 DEF SlotsOf
<1>3. SlotsOf(relVar[vid].relation_id) = {vid}
  BY OneSlot DEF OneSlotEach
<1>4. relVar'[vid].var = var
  <2>1. relVar[vid] \in Slot
    BY IndexFacts
  <2> QED BY <2>1 DEF Slot
<1>5. ASSUME NEW r \in RelationIds
      PROVE  ValuesOf(r)' = IF r = relVar[vid].relation_id THEN var ELSE ValuesOf(r)
  <2>1. ValuesOf(r)' = IF SlotsOf(r) = {} THEN <<>>
                       ELSE relVar'[CHOOSE i \in SlotsOf(r) : TRUE].var
    <3>1. ValuesOf(r)' = IF SlotsOf(r)' = {} THEN <<>>
                         ELSE relVar'[CHOOSE i \in SlotsOf(r)' : TRUE].var
      BY DEF ValuesOf
    <3>2. SlotsOf(r)' = SlotsOf(r)
      BY <1>2
    <3> QED BY <3>1, <3>2, Zenon
  <2>2. CASE r = relVar[vid].relation_id
    <3>1. (CHOOSE i \in SlotsOf(r) : TRUE) = vid
      BY <2>2, <1>3
    <3> QED BY <2>1, <2>2, <3>1, <1>3, <1>4
  <2>3. CASE r # relVar[vid].relation_id
    <3>1. CASE SlotsOf(r) = {}
      BY <2>1, <2>3, <3>1 DEF ValuesOf
    <3>2. CASE SlotsOf(r) # {}
      <4>1. PICK i \in SlotsOf(r) : i = CHOOSE j \in SlotsOf(r) : TRUE
        BY <3>2
      <4>2. i \in DOMAIN relVar /\ i # vid
        BY <2>3 DEF SlotsOf
      <4>3. relVar'[i] = relVar[i]
        BY <4>2
      <4>4. ValuesOf(r) = relVar[i].var
        BY <3>2, <4>1 DEF ValuesOf
      <4>5. ValuesOf(r)' = relVar'[i].var
        BY <2>1, <3>2, <4>1
      <4> QED BY <2>3, <4>3, <4>4, <4>5
    <3> QED BY <3>1, <3>2
  <2> QED BY <2>2, <2>3
<1> QED BY <1>2, <1>5 DEF Known

\* A new slot gives its id, which had none, a value, and no other id.
LEMMA AddMeans ==
  ASSUME IInv, NEW r \in RelationIds, NEW v \in Values,
         ~IsIndexedAt(r, FindRelationPos(r)), InsertSlot(r, v, FindRelationPos(r))
  PROVE  /\ r \notin Known
         /\ ValuesOf(r) = <<>>
         /\ Known' = Known \cup {r}
         /\ \A s \in RelationIds : ValuesOf(s)' = IF s = r THEN <<v>> ELSE ValuesOf(s)
<1> DEFINE vid == Len(relVar) + 1
           slot == [relation_id |-> r, modified |-> TRUE, var |-> <<v>>]
<1>1. /\ Len(relVar) \in Nat /\ DOMAIN relVar = 1..Len(relVar)
      /\ relVar \in Seq(Slot) /\ slot \in Slot
  BY IndexFacts DEF IInv, TypeOK, Slot
<1>2. relVar' = Append(relVar, slot)
  BY DEF InsertSlot
<1>3. /\ DOMAIN relVar' = 1..vid
      /\ \A i \in 1..Len(relVar) : relVar'[i] = relVar[i]
      /\ relVar'[vid] = slot
  <2> HIDE DEF slot
  <2> QED BY <1>1, <1>2, AppendProperties
<1>4. SlotsOf(r) = {}
  <2> SUFFICES ASSUME NEW i \in DOMAIN relVar, relVar[i].relation_id = r PROVE FALSE
    BY DEF SlotsOf
  <2>1. PICK p \in 1..Len(relVarSort) : relVarSort[p] = i
    BY IndexFacts
  <2>2. IndexedId(p) = r
    BY <2>1 DEF IndexedId
  <2> DEFINE pos == FindRelationPos(r)
  <2>3. /\ pos \in 1..(Len(relVarSort) + 1)
        /\ \A j \in 1..(pos - 1) : IndexedId(j) < r
        /\ \A j \in pos..Len(relVarSort) : IndexedId(j) >= r
    BY PosFacts
  <2>4. /\ Len(relVarSort) \in Nat /\ r \in Nat
        /\ \A j \in 1..Len(relVarSort) : IndexedId(j) \in Nat
        /\ \A j, k \in 1..Len(relVarSort) : j < k => IndexedId(j) < IndexedId(k)
    BY IndexFacts, RelationIdsAssumption DEF RelationIdsAssumption, IInv, IndexOK
  <2>5. ~(pos <= Len(relVarSort) /\ IndexedId(pos) = r)
    BY DEF IsIndexedAt
  <2> HIDE DEF pos
  <2>6. p \in pos..Len(relVarSort)
    BY <2>2, <2>3, <2>4
  <2>7. pos \in 1..Len(relVarSort) /\ IndexedId(pos) >= r /\ IndexedId(pos) # r
    BY <2>3, <2>4, <2>5, <2>6
  <2>8. pos < p
    BY <2>2, <2>6, <2>7
  <2> QED BY <2>2, <2>4, <2>6, <2>7, <2>8
<1>5. SlotsOf(r)' = {vid}
  <2>1. \A i \in 1..Len(relVar) : relVar[i].relation_id # r
    BY <1>1, <1>4 DEF SlotsOf
  <2>2. SlotsOf(r)' = {i \in 1..vid : relVar'[i].relation_id = r}
    BY <1>3 DEF SlotsOf
  <2>3. vid \in 1..vid /\ \A i \in 1..vid : i \in 1..Len(relVar) \/ i = vid
    BY <1>1
  <2> HIDE DEF vid
  <2> QED BY <1>3, <2>1, <2>2, <2>3
<1>6. \A s : s # r => SlotsOf(s)' = SlotsOf(s)
  <2> TAKE s
  <2> HAVE s # r
  <2>1. SlotsOf(s)' = {i \in 1..vid : relVar'[i].relation_id = s}
    BY <1>3 DEF SlotsOf
  <2>2. vid \in 1..vid /\ \A i : i \in 1..vid <=> (i \in 1..Len(relVar) \/ i = vid)
    BY <1>1
  <2>3. SlotsOf(s) = {i \in 1..Len(relVar) : relVar[i].relation_id = s}
    BY <1>1 DEF SlotsOf
  <2>4. relVar'[vid].relation_id # s
    BY <1>3
  <2> HIDE DEF vid, slot
  <2> QED BY <1>3, <2>1, <2>2, <2>3, <2>4
<1>7. ASSUME NEW s \in RelationIds
      PROVE  ValuesOf(s)' = IF s = r THEN <<v>> ELSE ValuesOf(s)
  <2>1. CASE s = r
    <3>1. (CHOOSE i \in SlotsOf(s)' : TRUE) = vid
      BY <1>5, <2>1
    <3>2. ValuesOf(s)' = relVar'[vid].var
      BY <1>5, <2>1, <3>1 DEF ValuesOf
    <3> QED BY <2>1, <3>2, <1>3
  <2>2. CASE s # r
    <3>0. SlotsOf(s)' = SlotsOf(s)
      BY <1>6, <2>2
    <3>1. CASE SlotsOf(s) = {}
      BY <2>2, <3>0, <3>1 DEF ValuesOf
    <3>2. CASE SlotsOf(s) # {}
      <4>1. PICK i \in SlotsOf(s) : i = CHOOSE j \in SlotsOf(s) : TRUE
        BY <3>2
      <4>2. i \in 1..Len(relVar)
        BY <1>1 DEF SlotsOf
      <4>3. ValuesOf(s) = relVar[i].var
        BY <3>2, <4>1 DEF ValuesOf
      <4>4. ValuesOf(s)' = relVar'[i].var
        BY <3>0, <3>2, <4>1 DEF ValuesOf
      <4> QED BY <2>2, <4>2, <4>3, <4>4, <1>3
    <3> QED BY <3>1, <3>2
  <2> QED BY <2>1, <2>2
<1>8. r \notin Known /\ ValuesOf(r) = <<>>
  BY <1>4 DEF Known, ValuesOf
<1>9. Known' = Known \cup {r}
  BY <1>5, <1>6 DEF Known
<1> QED BY <1>7, <1>8, <1>9

\* A look-up that answers with a slot has found the least known id that is
\* not below the one that was asked for.
LEMMA FoundIsTarget ==
  ASSUME IInv, NEW r \in RelationIds, FindRelationId(r) # VarNotSet
  PROVE  RM!Target(r) = {relVar[FindRelationId(r)].relation_id}
<1> DEFINE pos == FindRelationPos(r)
           n == Len(relVarSort)
           t == IndexedId(pos)
<1>1. /\ pos \in 1..(n + 1)
      /\ \A i \in 1..(pos - 1) : IndexedId(i) < r
      /\ \A i \in pos..n : IndexedId(i) >= r
  BY PosFacts
<1>2. /\ n \in Nat /\ r \in Nat
      /\ \A p \in 1..n : IndexedId(p) \in Nat /\ relVarSort[p] \in DOMAIN relVar
      /\ \A p, q \in 1..n : p < q => IndexedId(p) < IndexedId(q)
  BY IndexFacts, RelationIdsAssumption DEF RelationIdsAssumption, IInv, IndexOK
<1>3. pos <= n /\ FindRelationId(r) = relVarSort[pos]
  BY DEF FindRelationId
<1>4. relVar[FindRelationId(r)].relation_id = t
  BY <1>3 DEF IndexedId
<1>5. t \in Known /\ t \in Nat /\ t >= r
  <2>1. pos \in 1..n /\ pos \in pos..n
    BY <1>1, <1>2, <1>3
  <2>2. relVarSort[pos] \in DOMAIN relVar
    BY <2>1, <1>2
  <2>3. t \in Known
    BY <2>2, OneSlot DEF OneSlotEach, IndexedId
  <2> HIDE DEF pos, n
  <2> QED BY <2>1, <2>3, <1>1, <1>2
<1>6. ASSUME NEW u \in Known, u >= r PROVE u \in Nat /\ t <= u
  <2>1. u \in Nat
    BY RelationIdsAssumption DEF Known, RelationIdsAssumption
  <2>2. PICK j \in DOMAIN relVar : relVar[j].relation_id = u
    BY DEF Known, SlotsOf
  <2>3. PICK q \in 1..n : relVarSort[q] = j
    BY IndexFacts
  <2>4. IndexedId(q) = u
    BY <2>2, <2>3 DEF IndexedId
  <2> HIDE DEF pos, n
  <2>5. q \in pos..n
    BY <2>1, <2>4, <1>1, <1>2, <1>6
  <2>6. pos \in 1..n /\ (q = pos \/ pos < q)
    BY <2>5, <1>1, <1>2
  <2> QED BY <2>1, <2>4, <2>6, <1>2, <1>5
<1> HIDE DEF t
<1>7. {s \in Known : s >= r /\ \A u \in Known : u >= r => s <= u} = {t}
  <2> DEFINE T == {s \in Known : s >= r /\ \A u \in Known : u >= r => s <= u}
  <2>1. t \in T
    BY <1>5, <1>6
  <2>2. ASSUME NEW s \in T PROVE s = t
    <3>1. s \in Nat /\ t <= s /\ s <= t
      BY <1>5, <1>6
    <3> QED BY <3>1, <1>5
  <2> HIDE DEF T
  <2>3. T = {t}
    BY <2>1, <2>2
  <2> QED BY <2>3 DEF T
<1> QED BY <1>4, <1>7 DEF RM!Target, Known

\* What NewVar makes of the values of a slot is what the map makes of the
\* values of its id.
LEMMA NewVarIsNewValues ==
  ASSUME NEW var \in Seq(Values), NEW v \in Values, NEW type \in AllocationType,
         NEW max \in Limits, ~(type = "FIRST" /\ Len(var) = 1)
  PROVE  NewVar(var, v, type, max) = RM!NewValues(var, v, type, max)
<1>1. max \in Nat /\ Len(var) \in Nat
  BY LimitsAssumption, LenProperties DEF LimitsAssumption
<1>2. DropFull(var, max) = IF max = 0 THEN var ELSE RM!LastN(var, max - 1)
  <2>1. CASE max = 0
    BY <2>1 DEF DropFull, MaxLinearInfinite
  <2>2. CASE max # 0 /\ Len(var) < max
    <3>1. ~(Len(var) > max - 1)
      BY <2>2, <1>1
    <3>2. RM!LastN(var, max - 1) = SubSeq(var, 1, Len(var))
      BY <3>1 DEF RM!LastN
    <3>3. SubSeq(var, 1, Len(var)) = var
      OBVIOUS
    <3> QED BY <2>2, <3>2, <3>3 DEF DropFull
  <2>3. CASE max # 0 /\ ~(Len(var) < max)
    <3>1. Len(var) > max - 1
      BY <2>3, <1>1
    <3>2. Len(var) - (max - 1) + 1 = Len(var) - max + 2
      BY <1>1
    <3>3. RM!LastN(var, max - 1) = SubSeq(var, Len(var) - (max - 1) + 1, Len(var))
      BY <3>1 DEF RM!LastN
    <3>4. DropFull(var, max) = SubSeq(var, Len(var) - max + 2, Len(var))
      BY <2>3 DEF DropFull, MaxLinearInfinite
    <3> QED BY <2>3, <3>2, <3>3, <3>4
  <2> QED BY <2>1, <2>2, <2>3
<1>3. CASE type = "LINEAR"
  BY <1>2, <1>3 DEF NewVar, RM!NewValues, RM!AppendLimited
<1>4. CASE type = "FIRST"
  BY <1>4 DEF NewVar, RM!NewValues
<1>5. CASE type = "LAST"
  BY <1>5 DEF NewVar, RM!NewValues
<1> QED BY <1>3, <1>4, <1>5 DEF AllocationType

\* ... and a slot that is new holds what the map makes of no values.
LEMMA FirstValue ==
  ASSUME NEW v \in Values, NEW type \in AllocationType, NEW max \in Limits
  PROVE  RM!NewValues(<<>>, v, type, max) = <<v>>
<1>1. <<>> \in Seq(Values) /\ Len(<<>>) = 0
  OBVIOUS
<1>2. DropFull(<<>>, max) = <<>>
  <2>1. max \in Nat
    BY LimitsAssumption DEF LimitsAssumption
  <2> QED BY <1>1, <2>1 DEF DropFull, MaxLinearInfinite
<1>3. NewVar(<<>>, v, type, max) = <<v>>
  <2>1. Append(<<>>, v) = <<v>>
    OBVIOUS
  <2> QED BY <1>2, <2>1, Zenon DEF NewVar
<1>4. NewVar(<<>>, v, type, max) = RM!NewValues(<<>>, v, type, max)
  <2>1. ~(type = "FIRST" /\ Len(<<>>) = 1)
    BY <1>1
  <2> QED BY <1>1, <2>1, NewVarIsNewValues, Zenon
<1> QED BY <1>3, <1>4

----------------------------------------------------------------------------
(* Each call implements the one of the map *)

LEMMA ClearImplementsClear ==
  ASSUME IInv, NEW r \in RelationIds, ClearVar(r)
  PROVE  /\ RM!Clear(r)
         /\ \A s \in RelationIds : ValuesOf(s)' # ValuesOf(s) => ValuesOf(s)' = <<>>
<1> DEFINE vid == FindRelationId(r)
           t == relVar[vid].relation_id
<1>1. /\ vid # VarNotSet /\ UNCHANGED relVarSort
      /\ relVar' = [relVar EXCEPT ![vid].var = <<>>, ![vid].modified = TRUE]
  BY DEF ClearVar
<1>2. RM!Target(r) = {t}
  BY <1>1, FoundIsTarget
<1>3. vid \in DOMAIN relVar
  BY <1>1, FoundSlot
<1> HIDE DEF vid
<1>4. /\ Known' = Known
      /\ \A s \in RelationIds : ValuesOf(s)' = IF s = t THEN <<>> ELSE ValuesOf(s)
  <2>1. <<>> \in Seq(Values)
    OBVIOUS
  <2> QED BY <2>1, <1>1, <1>3, RewriteMeans
<1> HIDE DEF t
<1>5. CurrentValues' = [s \in RelationIds |-> IF s \in RM!Target(r) THEN <<>>
                                              ELSE CurrentValues[s]]
  BY <1>2, <1>4 DEF CurrentValues
<1>6. RM!Clear(r)
  BY <1>4, <1>5 DEF RM!Clear, Known
<1> QED BY <1>4, <1>6

LEMMA SetImplementsSet ==
  ASSUME IInv, NEW r \in RelationIds, NEW v \in Values, NEW type \in AllocationType,
         NEW max \in Limits, SetVar(r, v, type, max)
  PROVE  RM!Set(r, v, type, max) /\ MarkModified
<1> DEFINE pos == FindRelationPos(r)
           new == RM!NewValues(ValuesOf(r), v, type, max)
<1>1. v # EmptyValue
  BY ValuesAssumption DEF ValuesAssumption
<1>2. ASSUME Known' = Known \cup {r},
             \A s \in RelationIds : ValuesOf(s)' = IF s = r THEN new ELSE ValuesOf(s)
      PROVE  RM!Set(r, v, type, max)
  <2>1. CurrentValues[r] = ValuesOf(r)
    BY DEF CurrentValues
  <2> HIDE DEF new
  <2>2. CurrentValues' = [CurrentValues EXCEPT ![r] = new]
    BY <1>2 DEF CurrentValues
  <2>3. CurrentValues' = [CurrentValues EXCEPT
                            ![r] = RM!NewValues(CurrentValues[r], v, type, max)]
    BY <2>1, <2>2, Zenon DEF new
  <2>4. Known' = {s \in RelationIds : SlotsOf(s) # {}} \cup {r}
    BY <1>2 DEF Known
  <2> QED BY <2>3, <2>4 DEF RM!Set, Known
<1>3. CASE ~IsIndexedAt(r, pos) /\ InsertSlot(r, v, pos)
  <2>1. /\ ValuesOf(r) = <<>> /\ Known' = Known \cup {r}
        /\ \A s \in RelationIds : ValuesOf(s)' = IF s = r THEN <<v>> ELSE ValuesOf(s)
    BY <1>3, AddMeans
  <2>2. new = <<v>>
    BY <2>1, FirstValue
  <2>3. MarkModified
    BY <1>3 DEF InsertSlot
  <2> HIDE DEF new
  <2>4. RM!Set(r, v, type, max)
    BY <2>1, <2>2, <1>2
  <2> QED BY <2>3, <2>4
<1>4. CASE IsIndexedAt(r, pos) /\ UpdateSlot(v, type, max, relVarSort[pos])
  <2> DEFINE vid == relVarSort[pos]
             var == NewVar(relVar[vid].var, v, type, max)
  <2>1. vid \in DOMAIN relVar
    BY <1>4, PosFacts, IndexFacts DEF IsIndexedAt
  <2>2. relVar[vid].relation_id = r
    BY <1>4 DEF IsIndexedAt, IndexedId
  <2>3. relVar[vid].var \in Seq(Values)
    BY <2>1, IndexFacts DEF Slot
  <2>4. var \in Seq(Values)
    BY <2>3, NewVarType
  <2>5. /\ UNCHANGED relVarSort /\ MarkModified
        /\ ~(type = "FIRST" /\ Len(relVar[vid].var) = 1)
        /\ relVar' = [relVar EXCEPT ![vid].var = var, ![vid].modified = TRUE]
    BY <1>4 DEF UpdateSlot
  <2>6. ValuesOf(r) = relVar[vid].var /\ r \in Known
    BY <2>1, <2>2, OneSlot DEF OneSlotEach
  <2>7. var = new
    <3>1. var = RM!NewValues(relVar[vid].var, v, type, max)
      BY <2>3, <2>5, NewVarIsNewValues
    <3> QED BY <3>1, <2>6, Zenon
  <2> HIDE DEF vid, var, new
  <2>8. /\ Known' = Known
        /\ \A s \in RelationIds : ValuesOf(s)' = IF s = r THEN var ELSE ValuesOf(s)
    BY <2>1, <2>2, <2>4, <2>5, RewriteMeans
  <2>9. RM!Set(r, v, type, max)
    BY <2>6, <2>7, <2>8, <1>2
  <2> QED BY <2>5, <2>9
<1> QED BY <1>1, <1>3, <1>4 DEF SetVar

LEMMA AddImplementsAdd ==
  ASSUME IInv, NEW vid \in DOMAIN relVar, NEW v \in Values, AddLinearElement(vid, v)
  PROVE  RM!AddElement(relVar[vid].relation_id, v) /\ MarkModified
<1> DEFINE r == relVar[vid].relation_id
           var == Append(relVar[vid].var, v)
<1>1. /\ UNCHANGED relVarSort /\ MarkModified
      /\ relVar' = [relVar EXCEPT ![vid].var = var, ![vid].modified = TRUE]
  BY DEF AddLinearElement
<1>2. relVar[vid].var \in Seq(Values)
  BY IndexFacts DEF Slot
<1>3. var \in Seq(Values)
  BY <1>2
<1>4. /\ Known' = Known
      /\ \A s \in RelationIds : ValuesOf(s)' = IF s = r THEN var ELSE ValuesOf(s)
  <2> HIDE DEF var
  <2> QED BY <1>1, <1>3, RewriteMeans
<1>5. ValuesOf(r) = relVar[vid].var /\ r \in Known /\ r \in RelationIds
  BY OneSlot DEF OneSlotEach, Known
<1>6. var = Append(CurrentValues[r], v)
  BY <1>5 DEF CurrentValues
<1> HIDE DEF var, r
<1>7. CurrentValues' = [CurrentValues EXCEPT ![r] = var]
  BY <1>4 DEF CurrentValues
<1>8. RM!AddElement(r, v)
  BY <1>4, <1>5, <1>6, <1>7 DEF RM!AddElement, Known
<1> QED BY <1>1, <1>8 DEF r

\* Each call does to the map what that very call should.
CallsAct ==
  /\ \A r \in RelationIds : ClearVar(r) => RM!Clear(r)
  /\ \A r \in RelationIds, v \in Values, type \in AllocationType, max \in Limits :
       SetVar(r, v, type, max) => RM!Set(r, v, type, max)
  /\ \A vid \in DOMAIN relVar, v \in Values :
       AddLinearElement(vid, v) => RM!AddElement(relVar[vid].relation_id, v)

LEMMA SlotsUnchanged ==
  ASSUME UNCHANGED relVar
  PROVE  Known' = Known /\ \A r : ValuesOf(r)' = ValuesOf(r)
BY DEF Known, ValuesOf, SlotsOf

LEMMA StepImplementsMap ==
  ASSUME IInv, [Next]_vars
  PROVE  [RM!Next]_(RM!mvars)
<1>1. ASSUME UNCHANGED relVar PROVE UNCHANGED RM!mvars
  BY <1>1, SlotsUnchanged DEF RM!mvars, Known, CurrentValues
<1>2. ASSUME NEW r \in RelationIds, ClearVar(r) PROVE RM!Next
  BY <1>2, ClearImplementsClear DEF RM!Next
<1>3. ASSUME NEW r \in RelationIds, NEW v \in Values \cup {EmptyValue},
             NEW type \in AllocationType, NEW max \in Limits, SetVar(r, v, type, max)
      PROVE  RM!Next
  <2>1. CASE v \in Values
    <3>1. RM!Set(r, v, type, max)
      BY <1>3, <2>1, SetImplementsSet
    <3> QED BY <2>1, <3>1 DEF RM!Next, AllocationType, RM!AllocationType
  <2>2. CASE v = EmptyValue
    BY <1>2, <1>3, <2>2 DEF SetVar
  <2> QED BY <2>1, <2>2
<1>4. ASSUME NEW vid \in DOMAIN relVar, NEW v \in Values, AddLinearElement(vid, v)
      PROVE  RM!Next
  <2>1. RM!AddElement(relVar[vid].relation_id, v)
    BY <1>4, AddImplementsAdd
  <2>2. relVar[vid].relation_id \in RelationIds
    BY IndexFacts DEF Slot
  <2> QED BY <2>1, <2>2 DEF RM!Next
<1>5. SetOtherField \/ FinishConstruction \/ Store \/ UNCHANGED vars => UNCHANGED relVar
  BY DEF SetOtherField, FinishConstruction, Store, vars
<1> QED BY <1>1, <1>2, <1>3, <1>4, <1>5 DEF Next

LEMMA InitImplementsMap == Init => RM!Init
<1> SUFFICES ASSUME Init PROVE RM!Init
  OBVIOUS
<1>1. \A r : SlotsOf(r) = {}
  BY DEF Init, SlotsOf
<1>2. CurrentValues = [r \in RelationIds |-> <<>>]
  BY <1>1 DEF CurrentValues, ValuesOf
<1> QED BY <1>1, <1>2 DEF RM!Init

\* Slots, index and search are the map of ids to values, and each call acts
\* on the map as that very call should.
THEOREM RelVarsImplementRelMap == Spec => ImplementsRelMap
<1>1. IInv /\ [Next]_vars => [CallsAct]_vars
  BY ClearImplementsClear, SetImplementsSet, AddImplementsAdd DEF CallsAct
<1>2. IInv /\ [Next]_vars => [RM!Next]_(RM!mvars)
  BY StepImplementsMap
<1>3. Spec => [][CallsAct]_vars
  BY <1>1, InitIInv, NextIInv, PTL DEF Spec
<1>4. Spec => RM!Spec
  BY <1>2, InitIInv, NextIInv, InitImplementsMap, PTL DEF Spec, RM!Spec
<1>5. Spec => CallsActOnMap
  BY <1>3 DEF CallsActOnMap, CallsAct
<1> QED BY <1>4, <1>5 DEF ImplementsRelMap

\* A step that changes the values of an id marks the cookie, unless it
\* leaves the id without a value.
ChangeIsMarked ==
  \A r \in RelationIds :
    ValuesOf(r)' # ValuesOf(r) => (modified' /\ relVarModified') \/ ValuesOf(r)' = <<>>

LEMMA StepMarksChanges ==
  ASSUME IInv, [Next]_vars
  PROVE  ChangeIsMarked
<1>1. MarkModified => ChangeIsMarked
  BY DEF MarkModified, ChangeIsMarked
<1>2. ASSUME NEW r \in RelationIds, ClearVar(r) PROVE ChangeIsMarked
  BY <1>2, ClearImplementsClear DEF ChangeIsMarked
<1>3. ASSUME NEW r \in RelationIds, NEW v \in Values \cup {EmptyValue},
             NEW type \in AllocationType, NEW max \in Limits, SetVar(r, v, type, max)
      PROVE  ChangeIsMarked
  <2>1. CASE v \in Values
    BY <1>1, <1>3, <2>1, SetImplementsSet
  <2>2. CASE v = EmptyValue
    BY <1>2, <1>3, <2>2 DEF SetVar
  <2> QED BY <2>1, <2>2
<1>4. ASSUME NEW vid \in DOMAIN relVar, NEW v \in Values, AddLinearElement(vid, v)
      PROVE  ChangeIsMarked
  BY <1>1, <1>4, AddImplementsAdd
<1>5. ASSUME UNCHANGED relVar PROVE ChangeIsMarked
  BY <1>5, SlotsUnchanged DEF ChangeIsMarked
<1>6. SetOtherField \/ FinishConstruction \/ Store \/ UNCHANGED vars => UNCHANGED relVar
  BY DEF SetOtherField, FinishConstruction, Store, vars
<1> QED BY <1>2, <1>3, <1>4, <1>5, <1>6 DEF Next

\* Only a cleared variable is left for the destructor to forget.
THEOREM OnlyClearingUnmarked == Spec => OnlyClearingIsUnmarked
<1>1. IInv /\ [Next]_vars => [ChangeIsMarked]_vars
  BY StepMarksChanges
<1>2. Spec => [][ChangeIsMarked]_vars
  BY <1>1, InitIInv, NextIInv, PTL DEF Spec
<1> QED BY <1>2 DEF OnlyClearingIsUnmarked, ChangeIsMarked

----------------------------------------------------------------------------
(* The walks *)

\* The ids of a set of slots.
IdsOf(slots) == {relVar[i].relation_id : i \in slots}

\* FirstIdFrom finds the first position that holds a slot of the set.
LEMMA FirstIdFacts ==
  ASSUME IInv, NEW W \in SUBSET (DOMAIN relVar), NEW pos \in 1..(Len(relVarSort) + 1)
  PROVE  \/ /\ FirstIdFrom(pos, W) = InvalidRid
            /\ \A p \in pos..Len(relVarSort) : relVarSort[p] \notin W
         \/ \E p \in pos..Len(relVarSort) :
              /\ relVarSort[p] \in W
              /\ FirstIdFrom(pos, W) = IndexedId(p)
              /\ \A q \in pos..Len(relVarSort) : relVarSort[q] \in W => p <= q
<1> DEFINE found == {p \in pos..Len(relVarSort) : relVarSort[p] \in W}
<1>1. FirstIdFrom(pos, W) = IF found = {} THEN InvalidRid
                            ELSE IndexedId(CHOOSE p \in found : \A q \in found : p <= q)
  BY DEF FirstIdFrom
<1>2. CASE found = {}
  BY <1>1, <1>2
<1>3. CASE found # {}
  <2>1. found \subseteq Nat
    BY IndexFacts
  <2> DEFINE least == CHOOSE p \in found : \A q \in found : p <= q
  <2>2. \E p \in found : \A q \in found : p <= q
    <3> HIDE DEF found
    <3> QED BY <1>3, <2>1, LeastNatural
  <2>3. least \in found /\ \A q \in found : least <= q
    <3> HIDE DEF found
    <3> QED BY <2>2
  <2>4. FirstIdFrom(pos, W) = IndexedId(least)
    BY <1>1, <1>3
  <2> HIDE DEF least
  <2> QED BY <2>3, <2>4
<1> QED BY <1>2, <1>3

\* The ids above r are the ones from PosAfter(r) on.
LEMMA PosAfterFacts ==
  ASSUME IInv, NEW r \in RelationIds
  PROVE  /\ PosAfter(r) \in 1..(Len(relVarSort) + 1)
         /\ \A i \in 1..(PosAfter(r) - 1) : IndexedId(i) <= r
         /\ \A i \in PosAfter(r)..Len(relVarSort) : IndexedId(i) > r
<1> DEFINE pos == FindRelationPos(r)
           n == Len(relVarSort)
<1>1. /\ pos \in 1..(n + 1)
      /\ \A i \in 1..(pos - 1) : IndexedId(i) < r
      /\ \A i \in pos..n : IndexedId(i) >= r
  BY PosFacts
<1>2. /\ n \in Nat /\ r \in Nat
      /\ \A p \in 1..n : IndexedId(p) \in Nat
      /\ \A p, q \in 1..n : p < q => IndexedId(p) < IndexedId(q)
  BY IndexFacts, RelationIdsAssumption DEF RelationIdsAssumption, IInv, IndexOK
<1>3. PosAfter(r) = IF pos <= n /\ IndexedId(pos) = r THEN pos + 1 ELSE pos
  BY DEF PosAfter, IsIndexedAt
<1> HIDE DEF pos, n
<1>4. CASE pos <= n /\ IndexedId(pos) = r
  <2>1. PosAfter(r) = pos + 1 /\ pos \in 1..n
    BY <1>1, <1>2, <1>3, <1>4
  <2>2. ASSUME NEW i \in 1..pos PROVE IndexedId(i) <= r
    <3>1. i = pos \/ i \in 1..(pos - 1)
      BY <2>1
    <3>2. i \in 1..n
      BY <2>1, <1>2
    <3> QED BY <3>1, <3>2, <1>1, <1>2, <1>4
  <2>3. ASSUME NEW i \in (pos + 1)..n PROVE IndexedId(i) > r
    <3>1. i \in 1..n /\ pos < i
      BY <2>1, <1>2
    <3> QED BY <3>1, <2>1, <1>2, <1>4
  <2>4. pos + 1 \in 1..(n + 1) /\ (pos + 1) - 1 = pos
    BY <2>1, <1>2
  <2> QED BY <2>1, <2>2, <2>3, <2>4 DEF n
<1>5. CASE ~(pos <= n /\ IndexedId(pos) = r)
  <2>1. PosAfter(r) = pos
    BY <1>3, <1>5
  <2>2. ASSUME NEW i \in pos..n PROVE IndexedId(i) > r
    <3>1. pos \in 1..n /\ i \in 1..n /\ (i = pos \/ pos < i)
      BY <1>1, <1>2
    <3>2. IndexedId(pos) > r
      <4>1. pos \in pos..n /\ IndexedId(pos) # r
        BY <3>1, <1>5
      <4> QED BY <4>1, <3>1, <1>1, <1>2
    <3> QED BY <3>1, <3>2, <1>2
  <2>3. ASSUME NEW i \in 1..(pos - 1) PROVE IndexedId(i) <= r
    <3>1. i \in 1..n
      BY <1>1, <1>2
    <3> QED BY <3>1, <1>1, <1>2
  <2> QED BY <2>1, <2>2, <2>3, <1>1 DEF n
<1> QED BY <1>4, <1>5

\* Of the positions below r's that hold a slot of the set, one is the last.
LEMMA LastBelow ==
  ASSUME NEW n \in Nat, NEW T \in SUBSET (1..n), T # {}
  PROVE  \E p \in T : \A q \in T : q <= p
<1> DEFINE U == {n - p : p \in T}
<1>1. U \subseteq Nat /\ U # {}
  <2>1. \A p \in T : n - p \in Nat
    OBVIOUS
  <2>2. PICK p \in T : TRUE
    OBVIOUS
  <2>3. n - p \in U
    OBVIOUS
  <2> QED BY <2>1, <2>3
<1>2. PICK u \in U : \A v \in U : u <= v
  <2> HIDE DEF U
  <2> QED BY <1>1, LeastNatural
<1>3. PICK p \in T : u = n - p
  OBVIOUS
<1>4. ASSUME NEW q \in T PROVE q <= p
  <2>1. n - q \in U /\ q \in 1..n /\ p \in 1..n
    OBVIOUS
  <2>2. n - p <= n - q
    BY <2>1, <1>2, <1>3
  <2> QED BY <2>1, <2>2
<1> QED BY <1>4

\* A walk along FirstIdFrom visits the ids of the set, in order, and stops.
LEMMA WalkFacts ==
  ASSUME IInv, NEW W \in SUBSET (DOMAIN relVar)
  PROVE  WalkVisits(IdsOf(W), FirstIdFrom(1, W),
                    [r \in RelationIds |-> FirstIdFrom(PosAfter(r), W)])
<1> DEFINE n == Len(relVarSort)
<1>1. /\ n \in Nat
      /\ \A p \in 1..n : IndexedId(p) \in RelationIds /\ IndexedId(p) \in Nat
      /\ \A p, q \in 1..n : p < q => IndexedId(p) < IndexedId(q)
      /\ \A p \in 1..n : relVarSort[p] \in W => IndexedId(p) \in IdsOf(W)
  BY IndexFacts DEF IInv, IndexOK, IdsOf, IndexedId
<1>2. 1 \in 1..(n + 1)
  BY <1>1
<1> HIDE DEF n
<1>3. ASSUME NEW pos \in 1..(n + 1)
      PROVE  \/ /\ FirstIdFrom(pos, W) = InvalidRid
                /\ \A p \in pos..n : relVarSort[p] \notin W
             \/ \E p \in pos..n :
                  /\ p \in 1..n
                  /\ relVarSort[p] \in W
                  /\ FirstIdFrom(pos, W) = IndexedId(p)
                  /\ \A q \in pos..n : relVarSort[q] \in W => p <= q
  <2>1. \A p \in pos..n : p \in 1..n
    BY <1>1
  <2> QED BY <2>1, FirstIdFacts DEF n
<1>4. ASSUME NEW pos \in 1..(n + 1) PROVE FirstIdFrom(pos, W) \in IdsOf(W) \cup {InvalidRid}
  BY <1>1, <1>3
<1>5. ASSUME NEW r \in RelationIds
      PROVE  /\ FirstIdFrom(PosAfter(r), W) \in IdsOf(W) \cup {InvalidRid}
             /\ FirstIdFrom(PosAfter(r), W) > r
  <2>1. /\ PosAfter(r) \in 1..(n + 1)
        /\ \A i \in PosAfter(r)..n : IndexedId(i) > r
    BY PosAfterFacts DEF n
  <2>2. InvalidRid > r
    BY RelationIdsAssumption DEF RelationIdsAssumption
  <2> QED BY <2>1, <2>2, <1>3, <1>4
<1>6. ASSUME NEW r \in IdsOf(W)
      PROVE  \/ r = FirstIdFrom(1, W)
             \/ \E q \in IdsOf(W) : q < r /\ FirstIdFrom(PosAfter(q), W) = r
  <2>1. PICK i \in W : relVar[i].relation_id = r
    BY DEF IdsOf
  <2>2. PICK p \in 1..n : relVarSort[p] = i
    BY IndexFacts DEF n
  <2>3. IndexedId(p) = r /\ relVarSort[p] \in W
    BY <2>1, <2>2 DEF IndexedId
  <2> DEFINE below == {q \in 1..(p - 1) : relVarSort[q] \in W}
  <2>4. CASE below = {}
    <3>1. PICK f \in 1..n : /\ relVarSort[f] \in W
                            /\ FirstIdFrom(1, W) = IndexedId(f)
                            /\ \A q \in 1..n : relVarSort[q] \in W => f <= q
      BY <2>3, <1>2, <1>3
    <3>2. f <= p /\ f \notin 1..(p - 1)
      BY <3>1, <2>3, <2>4
    <3>3. f = p
      BY <3>2, <1>1
    <3> QED BY <3>1, <3>3, <2>3
  <2>5. CASE below # {}
    <3>1. PICK q \in below : \A k \in below : k <= q
      <4>1. below \in SUBSET (1..n)
        BY <1>1
      <4> HIDE DEF below
      <4> QED BY <4>1, <2>5, <1>1, LastBelow
    <3>2. q \in 1..n /\ q < p /\ relVarSort[q] \in W
      BY <1>1
    <3> DEFINE u == IndexedId(q)
               pos == PosAfter(u)
    <3>3. u \in IdsOf(W) /\ u \in RelationIds /\ u \in Nat /\ u < r
      BY <3>2, <2>3, <1>1
    <3>4. /\ pos \in 1..(n + 1)
          /\ \A k \in 1..(pos - 1) : IndexedId(k) <= u
          /\ \A k \in pos..n : IndexedId(k) > u
      BY <3>3, PosAfterFacts DEF n
    <3>5. q \notin pos..n
      BY <3>3, <3>4
    <3> HIDE DEF pos
    <3>6. pos = q + 1
      <4>1. q + 1 \in 1..n /\ IndexedId(q + 1) > u /\ IndexedId(q + 1) \in Nat
        BY <3>2, <1>1
      <4>2. q + 1 \notin 1..(pos - 1)
        BY <4>1, <3>3, <3>4
      <4> QED BY <4>1, <4>2, <3>2, <3>4, <3>5, <1>1
    <3>7. p \in pos..n
      BY <3>2, <3>6
    <3>8. PICK f \in pos..n : /\ f \in 1..n
                              /\ relVarSort[f] \in W
                              /\ FirstIdFrom(pos, W) = IndexedId(f)
                              /\ \A k \in pos..n : relVarSort[k] \in W => f <= k
      BY <3>4, <3>7, <2>3, <1>3
    <3>9. f <= p
      BY <3>7, <3>8, <2>3
    <3>10. ~(f < p)
      <4> SUFFICES ASSUME f < p PROVE FALSE
        OBVIOUS
      <4>1. f \in below
        BY <3>8
      <4>2. f <= q
        BY <4>1, <3>1
      <4> QED BY <4>2, <3>2, <3>6, <3>8
    <3>11. f = p
      BY <3>9, <3>10, <3>8
    <3>12. FirstIdFrom(PosAfter(u), W) = r
      BY <3>8, <3>11, <2>3 DEF pos
    <3> QED BY <3>3, <3>12
  <2> QED BY <2>4, <2>5
<1>7. \A r \in IdsOf(W) : r \in RelationIds
  <2>1. \A i \in W : relVar[i] \in Slot
    BY IndexFacts
  <2> QED BY <2>1 DEF IdsOf, Slot
<1> DEFINE next == [r \in RelationIds |-> FirstIdFrom(PosAfter(r), W)]
<1>8. \A r \in RelationIds : next[r] = FirstIdFrom(PosAfter(r), W)
  OBVIOUS
<1> HIDE DEF next
<1>9. WalkVisits(IdsOf(W), FirstIdFrom(1, W), next)
  <2>1. ASSUME NEW r \in IdsOf(W)
        PROVE  r = FirstIdFrom(1, W) \/ \E q \in IdsOf(W) : q < r /\ next[q] = r
    BY <1>6, <1>7, <1>8
  <2>2. ASSUME NEW r \in RelationIds
        PROVE  next[r] \in IdsOf(W) \cup {InvalidRid} /\ next[r] > r
    BY <1>5, <1>8
  <2> QED BY <2>1, <2>2, <1>2, <1>4 DEF WalkVisits
<1> QED BY <1>9 DEF next

\* The ids that are set are the ids of the slots that hold values.
LEMMA SetIdsFacts ==
  ASSUME IInv
  PROVE  SetIds = IdsOf({i \in DOMAIN relVar : relVar[i].var # <<>>})
<1>1. ASSUME NEW r \in SetIds
      PROVE  \E i \in DOMAIN relVar : relVar[i].relation_id = r /\ relVar[i].var # <<>>
  <2>1. SlotsOf(r) # {} /\ ValuesOf(r) # <<>>
    BY DEF SetIds, ValuesOf
  <2>2. PICK i \in DOMAIN relVar : relVar[i].relation_id = r
    BY <2>1 DEF SlotsOf
  <2>3. ValuesOf(r) = relVar[i].var
    BY <2>2, OneSlot DEF OneSlotEach
  <2> QED BY <2>1, <2>2, <2>3
<1>2. ASSUME NEW i \in DOMAIN relVar, relVar[i].var # <<>>
      PROVE  relVar[i].relation_id \in SetIds
  BY <1>2, OneSlot DEF OneSlotEach, Known, SetIds
<1> QED BY <1>1, <1>2 DEF IdsOf

\* The walks over the set and over the modified ids visit all of them, in
\* ascending order, and stop.
LEMMA WalksFollow == IInv => WalksComplete
<1> SUFFICES ASSUME IInv PROVE WalksComplete
  OBVIOUS
<1> DEFINE set == {i \in DOMAIN relVar : relVar[i].var # <<>>}
           mod == {i \in DOMAIN relVar : relVar[i].modified}
<1>1. WalkVisits(SetIds, GetFirstSetVar, [r \in RelationIds |-> GetNextSetVar(r)])
  <2>1. WalkVisits(IdsOf(set), FirstIdFrom(1, set),
                   [r \in RelationIds |-> FirstIdFrom(PosAfter(r), set)])
    BY WalkFacts
  <2> QED BY <2>1, SetIdsFacts DEF GetFirstSetVar, GetNextSetVar, GetSetVar
<1>2. WalkVisits(ModifiedIds, GetFirstModifiedVar,
                 [r \in RelationIds |-> GetNextModifiedVar(r)])
  <2>1. WalkVisits(IdsOf(mod), FirstIdFrom(1, mod),
                   [r \in RelationIds |-> FirstIdFrom(PosAfter(r), mod)])
    BY WalkFacts
  <2> QED BY <2>1 DEF GetFirstModifiedVar, GetNextModifiedVar, GetModifiedVar,
                      ModifiedIds, IdsOf
<1> QED BY <1>1, <1>2 DEF WalksComplete, IInv

THEOREM WalksAlwaysComplete == Spec => []WalksComplete
BY InitIInv, NextIInv, WalksFollow, PTL DEF Spec

----------------------------------------------------------------------------
(* The binary search *)

\* What the range [low, high) still to be searched has to do with the id:
\* everything outside it has been decided.
RangeInv == result = Searching =>
              /\ low <= high
              /\ \A i \in 1..low : ids[i] < relation_id
              /\ low # 0 => ids[low + 1] < relation_id /\ low < high
              /\ \A i \in high+1..Len(ids) : ids[i] > relation_id

SearchInv == SearchTypeOK /\ RangeInv /\ ReturnsLowerBound

LEMMA SearchIdsType ==
  ASSUME SearchTypeOK
  PROVE  /\ Len(ids) \in Nat
         /\ relation_id \in Nat
         /\ \A i \in 1..Len(ids) : ids[i] \in Nat
         /\ \A i, j \in 1..Len(ids) : i < j => ids[i] < ids[j]
<1>1. ids \in Seq(SearchedIds) /\ Ascending(ids)
  BY IndexesAssumption DEF SearchTypeOK, IndexesAssumption
<1>2. Len(ids) \in Nat /\ \A i \in 1..Len(ids) : ids[i] \in SearchedIds
  BY <1>1
<1> QED BY <1>1, <1>2, SearchedIdsAssumption DEF Ascending, SearchTypeOK, SearchedIdsAssumption

\* While the range is not empty its middle lies inside, below high.
LEMMA MidInRange ==
  ASSUME SearchTypeOK, low < high
  PROVE  Mid \in low..(high - 1) /\ Mid + 1 \in 1..Len(ids)
<1>1. low \in Nat /\ high \in Nat /\ high <= Len(ids) /\ Len(ids) \in Nat
  BY SearchIdsType DEF SearchTypeOK
<1> QED BY <1>1 DEF Mid

THEOREM SearchInitInv == SearchInit => SearchInv
<1> SUFFICES ASSUME SearchInit PROVE SearchInv
  OBVIOUS
<1>1. Len(ids) \in Nat
  <2>1. ids \in Seq(SearchedIds)
    BY IndexesAssumption DEF SearchInit, IndexesAssumption
  <2> QED BY <2>1
<1>2. SearchTypeOK
  BY <1>1 DEF SearchInit, SearchTypeOK
<1>3. RangeInv /\ ReturnsLowerBound
  BY <1>1 DEF SearchInit, RangeInv, ReturnsLowerBound, Searching
<1> QED BY <1>2, <1>3 DEF SearchInv

THEOREM SearchNextInv == SearchInv /\ [SearchNext]_searchVars => SearchInv'
<1> SUFFICES ASSUME SearchInv, [SearchNext]_searchVars PROVE SearchInv'
  OBVIOUS
<1> USE DEF SearchInv
<1>0. /\ Len(ids) \in Nat /\ relation_id \in Nat
      /\ low \in 0..Len(ids) /\ high \in 0..Len(ids)
      /\ \A i \in 1..Len(ids) : ids[i] \in Nat
      /\ \A i, j \in 1..Len(ids) : i < j => ids[i] < ids[j]
  BY SearchIdsType DEF SearchTypeOK
\* Returning ends the search: only the position returned matters.
<1>1. ASSUME result = Searching, NEW pos \in 0..Len(ids), Return(pos),
             IsLowerBound(ids, relation_id, pos)
      PROVE  SearchInv'
  <2>1. /\ result' = pos /\ result' # Searching
        /\ ids' = ids /\ relation_id' = relation_id /\ low' = low /\ high' = high
    BY <1>0, <1>1 DEF Return, Searching
  <2>2. SearchTypeOK' /\ RangeInv'
    BY <2>1 DEF SearchTypeOK, RangeInv
  <2>3. ReturnsLowerBound'
    BY <2>1, <1>1 DEF ReturnsLowerBound
  <2> QED BY <2>2, <2>3
<1>2. CASE result = Searching /\ Found
  <2>1. Mid \in low..(high - 1) /\ Mid + 1 \in 1..Len(ids) /\ ids[Mid + 1] = relation_id
    BY <1>2, MidInRange DEF Found, IdAt
  <2>2. IsLowerBound(ids, relation_id, Mid)
    <3>1. \A i \in 1..Mid : ids[i] < relation_id
      BY <2>1, <1>0
    <3>2. \A i \in Mid+1..Len(ids) : ids[i] >= relation_id
      BY <2>1, <1>0
    <3> QED BY <2>1, <3>1, <3>2, <1>0 DEF IsLowerBound
  <2> QED BY <2>1, <2>2, <1>0, <1>1, <1>2 DEF Found
<1>3. CASE result = Searching /\ NotAbove
  <2>1. low < high /\ ids[low + 1] < relation_id /\ low + 1 \in 1..Len(ids)
    BY <1>3, MidInRange DEF NotAbove, IdAt
  <2>2. high = low + 1
    BY <1>3, <2>1, <1>0 DEF NotAbove, Mid
  <2>3. IsLowerBound(ids, relation_id, high)
    <3>1. \A i \in 1..high : ids[i] < relation_id
      BY <2>1, <2>2, <1>0, <1>3 DEF RangeInv
    <3>2. \A i \in high+1..Len(ids) : ids[i] >= relation_id
      BY <1>0, <1>3 DEF RangeInv
    <3> QED BY <3>1, <3>2, <1>0 DEF IsLowerBound
  <2> QED BY <2>3, <1>0, <1>1, <1>3 DEF NotAbove
<1>4. CASE result = Searching /\ GoUp
  <2>1. /\ Mid \in low..(high - 1) /\ Mid + 1 \in 1..Len(ids)
        /\ ids[Mid + 1] < relation_id
        /\ low' = Mid /\ UNCHANGED <<ids, relation_id, high, result>>
    BY <1>4, MidInRange DEF GoUp, IdAt
  <2>2. \A i \in 1..Mid : ids[i] < relation_id
    BY <2>1, <1>0
  <2>3. RangeInv'
    BY <2>1, <2>2, <1>0, <1>4 DEF RangeInv
  <2> QED BY <2>1, <2>3, <1>0, <1>4 DEF SearchTypeOK, ReturnsLowerBound
<1>5. CASE result = Searching /\ GoDown
  <2>1. /\ Mid \in low..(high - 1) /\ Mid + 1 \in 1..Len(ids)
        /\ ids[Mid + 1] > relation_id
        /\ high' = Mid /\ UNCHANGED <<ids, relation_id, low, result>>
    BY <1>5, MidInRange DEF GoDown, IdAt
  <2>2. \A i \in Mid+1..Len(ids) : ids[i] > relation_id
    BY <2>1, <1>0
  <2>3. low # 0 => low < Mid
    <3>1. CASE low # 0 /\ Mid = low
      BY <3>1, <2>1, <1>0, <1>5 DEF RangeInv
    <3> QED BY <3>1, <2>1, <1>0
  <2>4. RangeInv'
    BY <2>1, <2>2, <2>3, <1>0, <1>5 DEF RangeInv
  <2> QED BY <2>1, <2>4, <1>0, <1>5 DEF SearchTypeOK, ReturnsLowerBound
<1>6. CASE result = Searching /\ Exhausted
  <2>1. low = high /\ Return(low)
    BY <1>0, <1>6 DEF Exhausted, RangeInv
  <2>2. IsLowerBound(ids, relation_id, low)
    BY <2>1, <1>0, <1>6 DEF RangeInv, IsLowerBound
  <2> QED BY <2>1, <2>2, <1>0, <1>1, <1>6
<1>7. CASE UNCHANGED searchVars
  BY <1>7 DEF searchVars, SearchTypeOK, RangeInv, ReturnsLowerBound
<1> QED BY <1>2, <1>3, <1>4, <1>5, <1>6, <1>7 DEF SearchNext, Iterate, SearchDone

\* FindRelationPos returns the position of the id, or where to insert it,
\* for every ascending index.
THEOREM SearchCorrect == SearchSpec => []ReturnsLowerBound
<1>1. SearchInv => ReturnsLowerBound
  BY DEF SearchInv
<1> QED BY <1>1, SearchInitInv, SearchNextInv, PTL DEF SearchSpec

\* The ids of the index, in its order.
IndexedIds == [p \in 1..Len(relVarSort) |-> IndexedId(p)]

\* FindRelationPos of RelVars is what the binary search returns: the index
\* ascends, and its lower bound of an id is that position and no other.
THEOREM SearchIsFindRelationPos ==
  ASSUME IInv, NEW r \in RelationIds, NEW pos \in Nat
  PROVE  /\ IndexedIds \in Seq(RelationIds) /\ Ascending(IndexedIds)
         /\ IsLowerBound(IndexedIds, r, pos) <=> pos = FindRelationPos(r) - 1
<1> DEFINE n == Len(relVarSort)
           found == FindRelationPos(r)
<1>1. /\ n \in Nat /\ r \in Nat /\ DOMAIN relVarSort = 1..n
      /\ \A p \in 1..n : IndexedId(p) \in Nat /\ IndexedId(p) \in RelationIds
      /\ \A p, q \in 1..n : p < q => IndexedId(p) < IndexedId(q)
  BY IndexFacts, RelationIdsAssumption DEF IInv, IndexOK, RelationIdsAssumption
<1>2. /\ found \in 1..(n + 1)
      /\ \A i \in 1..(found - 1) : IndexedId(i) < r
      /\ \A i \in found..n : IndexedId(i) >= r
  BY PosFacts
<1> HIDE DEF n, found
<1>3. IndexedIds \in [1..n -> RelationIds]
  BY <1>1 DEF IndexedIds, n
<1>4. IndexedIds \in Seq(RelationIds) /\ Len(IndexedIds) = n
  BY <1>1, <1>3
<1>5. \A p \in 1..n : IndexedIds[p] = IndexedId(p)
  BY DEF IndexedIds, n
<1>6. Ascending(IndexedIds)
  BY <1>1, <1>4, <1>5 DEF Ascending
<1>7. ASSUME IsLowerBound(IndexedIds, r, pos) PROVE pos = found - 1
  <2>1. /\ pos \in 0..n
        /\ \A i \in 1..pos : IndexedId(i) < r
        /\ \A i \in pos + 1..n : IndexedId(i) >= r
    BY <1>1, <1>4, <1>5, <1>7 DEF IsLowerBound
  <2>2. CASE pos + 1 < found
    <3>1. pos + 1 \in 1..(found - 1) /\ pos + 1 \in pos + 1..n
      BY <2>1, <2>2, <1>1, <1>2
    <3>2. IndexedId(pos + 1) < r /\ IndexedId(pos + 1) >= r /\ IndexedId(pos + 1) \in Nat
      BY <3>1, <2>1, <1>1, <1>2
    <3> QED BY <3>2, <1>1
  <2>3. CASE found < pos + 1
    <3>1. found \in 1..pos /\ found \in found..n
      BY <2>1, <2>3, <1>1, <1>2
    <3>2. IndexedId(found) < r /\ IndexedId(found) >= r /\ IndexedId(found) \in Nat
      BY <3>1, <2>1, <1>1, <1>2
    <3> QED BY <3>2, <1>1
  <2> QED BY <2>1, <2>2, <2>3, <1>1, <1>2
<1>8. ASSUME pos = found - 1 PROVE IsLowerBound(IndexedIds, r, pos)
  <2>1. pos \in 0..n /\ pos + 1 = found
    BY <1>1, <1>2, <1>8
  <2>2. \A i \in 1..pos : IndexedIds[i] < r
    BY <2>1, <1>1, <1>2, <1>5
  <2>3. \A i \in pos + 1..n : IndexedIds[i] >= r
    BY <2>1, <1>1, <1>2, <1>5
  <2> QED BY <2>1, <2>2, <2>3, <1>4 DEF IsLowerBound
<1> QED BY <1>4, <1>6, <1>7, <1>8 DEF found
=============================================================================
