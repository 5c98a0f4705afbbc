------------------------------- MODULE RelVars -------------------------------
(***************************************************************************)
(* The relation variables (evars) of one VCookie, src/abstraction/vcookie.h:*)
(* the slots relVar, the index relVarSort that orders them by relation id, *)
(* SetVar, AddLinearElement, ClearVar, the look-ups and enumerations, and  *)
(* the flags that say what has to be stored.                               *)
(*                                                                         *)
(* Positions count from 1 here, from 0 in the code.  A VarId is the index  *)
(* of a slot.  A value stands for its value, timestamp and revision.       *)
(***************************************************************************)
EXTENDS Naturals, SequencesExt

CONSTANTS RelationIds,    \* the relation ids the program uses
          InvalidRid,     \* INVALID_RID: greater than all of them
          Values,         \* the values a hit or a record can give a variable
          EmptyValue,     \* the empty string
          Limits,         \* values of the maxLinear argument
          MaxElements     \* bound: elements of one linear variable

ASSUME RelationIdsAssumption ==
  RelationIds \subseteq Nat /\ InvalidRid \in Nat /\ \A r \in RelationIds : r < InvalidRid

ASSUME ValuesAssumption == EmptyValue \notin Values

ASSUME LimitsAssumption == Limits \subseteq Nat /\ MaxElements \in Nat

VARIABLES relVar,         \* the slots, in the order of their creation
          relVarSort,     \* the slot numbers, in the order of their ids
          modified, relVarModified,    \* the flags of the cookie
          phase           \* "loading" while the constructor fills the cookie

vars == <<relVar, relVarSort, modified, relVarModified, phase>>

VarNotSet == 0            \* VAR_NOT_SET
MaxLinearInfinite == 0    \* MAX_LINEAR_INFINITE

AllocationType == {"LAST", "FIRST", "LINEAR"}

Slot == [relation_id : RelationIds, modified : BOOLEAN, var : Seq(Values)]

----------------------------------------------------------------------------
(* Look-up *)

IndexedId(pos) == relVar[relVarSort[pos]].relation_id

\* Seeded bug: the position below the place of an id that is not there.
FindRelationPos_OneLow(r) ==
  LET pos == CHOOSE p \in 1..(Len(relVarSort) + 1) :
               /\ \A i \in 1..(p - 1) : IndexedId(i) < r
               /\ \A i \in p..Len(relVarSort) : IndexedId(i) >= r
  IN IF pos = 1 \/ (pos <= Len(relVarSort) /\ IndexedId(pos) = r) THEN pos ELSE pos - 1

\* Where the id is in the index, or has to be inserted.  RelVarSearch shows
\* that the binary search of the code computes it.
FindRelationPos(r) ==
  CHOOSE pos \in 1..(Len(relVarSort) + 1) :
    /\ \A i \in 1..(pos - 1) : IndexedId(i) < r
    /\ \A i \in pos..Len(relVarSort) : IndexedId(i) >= r

IsIndexedAt(r, pos) == pos <= Len(relVarSort) /\ IndexedId(pos) = r

\* The slot of an id.  The code does not compare: for an id that has no slot
\* the answer is the slot of the next greater id, if there is one.
FindRelationId(r) ==
  LET pos == FindRelationPos(r)
  IN IF pos <= Len(relVarSort) THEN relVarSort[pos] ELSE VarNotSet

GetVarElementCount(r) ==
  LET vid == FindRelationId(r)
  IN IF vid = VarNotSet THEN 0 ELSE Len(relVar[vid].var)

----------------------------------------------------------------------------
(* Enumeration *)

\* The id at the first position from pos on that is in the set, in index order.
FirstIdFrom(pos, Wanted) ==
  LET found == {p \in pos..Len(relVarSort) : relVarSort[p] \in Wanted}
  IN IF found = {} THEN InvalidRid
     ELSE IndexedId(CHOOSE p \in found : \A q \in found : p <= q)

GetSetVar(pos) == FirstIdFrom(pos, {i \in DOMAIN relVar : relVar[i].var # <<>>})
GetModifiedVar(pos) == FirstIdFrom(pos, {i \in DOMAIN relVar : relVar[i].modified})

\* Seeded bug: the search for the next id starts at the id itself.
PosAfter_Stays(r) == FindRelationPos(r)

PosAfter(r) == LET pos == FindRelationPos(r)
               IN IF IsIndexedAt(r, pos) THEN pos + 1 ELSE pos

GetFirstSetVar == GetSetVar(1)
GetNextSetVar(r) == GetSetVar(PosAfter(r))
GetFirstModifiedVar == GetModifiedVar(1)
GetNextModifiedVar(r) == GetModifiedVar(PosAfter(r))

----------------------------------------------------------------------------
(* The values of each variable *)

SlotsOf(r) == {i \in DOMAIN relVar : relVar[i].relation_id = r}

ValuesOf(r) == IF SlotsOf(r) = {} THEN <<>>
               ELSE relVar[CHOOSE i \in SlotsOf(r) : TRUE].var

CurrentValues == [r \in RelationIds |-> ValuesOf(r)]

----------------------------------------------------------------------------
(* Operations *)

Init == /\ relVar = <<>>
        /\ relVarSort = <<>>
        /\ modified = FALSE /\ relVarModified = FALSE
        /\ phase = "loading"

\* Seeded bug: forget the slot instead of emptying it.
ClearVar_Erases(r) ==
  LET vid == FindRelationId(r)
  IN /\ vid # VarNotSet
     /\ relVar' = RemoveAt(relVar, vid)
     /\ relVarSort' = [p \in 1..(Len(relVarSort) - 1) |->
                         LET v == RemoveAt(relVarSort, FindRelationPos(r))[p]
                         IN IF v > vid THEN v - 1 ELSE v]
     /\ UNCHANGED <<modified, relVarModified, phase>>

\* Empty the slot found for the id; the flags of the cookie stay as they are.
ClearVar(r) ==
  LET vid == FindRelationId(r)
  IN /\ vid # VarNotSet
     /\ relVar' = [relVar EXCEPT ![vid].var = <<>>, ![vid].modified = TRUE]
     /\ UNCHANGED <<relVarSort, modified, relVarModified, phase>>

\* Seeded bug: the newest elements go.
DropFull_Newest(var, max) ==
  IF max = MaxLinearInfinite \/ Len(var) < max THEN var ELSE SubSeq(var, 1, max - 1)

\* A linear variable with a limit drops its oldest elements until one more fits.
DropFull(var, max) ==
  IF max = MaxLinearInfinite \/ Len(var) < max THEN var
  ELSE SubSeq(var, Len(var) - max + 2, Len(var))

NewVar(var, v, type, max) ==
  IF type = "LINEAR" THEN Append(DropFull(var, max), v) ELSE <<v>>

MarkModified == /\ modified' = TRUE /\ relVarModified' = TRUE
                /\ UNCHANGED phase

\* A new slot at the end, and its number where the id belongs in the index.
InsertSlot(r, v, pos) ==
  /\ relVar' = Append(relVar, [relation_id |-> r, modified |-> TRUE, var |-> <<v>>])
  /\ relVarSort' = InsertAt(relVarSort, pos, Len(relVar) + 1)
  /\ MarkModified

\* A slot that exists; a FIRST variable keeps the one value it has.
UpdateSlot(v, type, max, vid) ==
  LET var == NewVar(relVar[vid].var, v, type, max)
  IN /\ ~(type = "FIRST" /\ Len(relVar[vid].var) = 1)
     /\ Len(var) <= MaxElements
     /\ relVar' = [relVar EXCEPT ![vid].var = var, ![vid].modified = TRUE]
     /\ UNCHANGED relVarSort
     /\ MarkModified

\* The calls that return early change nothing and are left out.
SetVar(r, v, type, max) ==
  LET pos == FindRelationPos(r)
  IN \/ v = EmptyValue /\ type = "LAST" /\ ClearVar(r)
     \/ v # EmptyValue /\ ~IsIndexedAt(r, pos) /\ InsertSlot(r, v, pos)
     \/ v # EmptyValue /\ IsIndexedAt(r, pos) /\ UpdateSlot(v, type, max, relVarSort[pos])

\* Seeded bug: an element is added without marking the cookie.
AddLinearElement_Unmarked(vid, v) ==
  /\ Len(relVar[vid].var) < MaxElements
  /\ relVar' = [relVar EXCEPT ![vid].var = Append(@, v), ![vid].modified = TRUE]
  /\ UNCHANGED <<relVarSort, modified, relVarModified, phase>>

\* The handle vid comes from SetVar or GetVarElementCount.
AddLinearElement(vid, v) ==
  /\ Len(relVar[vid].var) < MaxElements
  /\ relVar' = [relVar EXCEPT ![vid].var = Append(@, v), ![vid].modified = TRUE]
  /\ UNCHANGED relVarSort
  /\ MarkModified

\* A setter of another field of the cookie.
SetOtherField == /\ modified' = TRUE
                 /\ UNCHANGED <<relVar, relVarSort, relVarModified, phase>>

\* The constructor has loaded the record, or found none.
FinishConstruction == /\ phase = "loading"
                      /\ phase' = "live"
                      /\ modified' = FALSE /\ relVarModified' = FALSE
                      /\ UNCHANGED <<relVar, relVarSort>>

\* Store clears the flags of the cookie, whatever SaveVCookie answers, and
\* leaves the flags of the variables as they are.  (If SaveVCookie throws,
\* nothing changes.)
Store == /\ phase = "live"
         /\ modified' = FALSE /\ relVarModified' = FALSE
         /\ UNCHANGED <<relVar, relVarSort, phase>>

Next == \/ \E r \in RelationIds, v \in Values \cup {EmptyValue},
              type \in AllocationType, max \in Limits : SetVar(r, v, type, max)
        \/ \E r \in RelationIds : ClearVar(r)
        \/ \E vid \in DOMAIN relVar, v \in Values : AddLinearElement(vid, v)
        \/ SetOtherField
        \/ FinishConstruction
        \/ Store

Spec == Init /\ [][Next]_vars
----------------------------------------------------------------------------
(* Properties *)

\* Every variable has its type; the index holds slot numbers.
TypeOK == /\ relVar \in Seq(Slot)
          /\ relVarSort \in Seq(DOMAIN relVar)
          /\ modified \in BOOLEAN /\ relVarModified \in BOOLEAN
          /\ phase \in {"loading", "live"}

(* The index lists every slot once, in strictly ascending order of the     *)
(* relation ids; so no id has two slots.  The binary search and all        *)
(* enumerations rest on it (vcookie.h:187-234, 337-358).                   *)
IndexOK ==
  /\ Range(relVarSort) = DOMAIN relVar
  /\ \A p, q \in DOMAIN relVarSort : p < q => IndexedId(p) < IndexedId(q)

\* The walk from first along next visits exactly the ids in Wanted.
WalkVisits(Wanted, first, next) ==
  /\ \A r \in Wanted : r = first \/ \E q \in Wanted : q < r /\ next[q] = r
  /\ first \in Wanted \cup {InvalidRid}
  /\ \A r \in RelationIds : /\ next[r] \in Wanted \cup {InvalidRid}
                            /\ next[r] > r

SetIds == {r \in RelationIds : ValuesOf(r) # <<>>}
ModifiedIds == {relVar[i].relation_id : i \in {j \in DOMAIN relVar : relVar[j].modified}}

(* Starting at GetFirstSetVar and following GetNextSetVar, and likewise    *)
(* for the modified ones, visits exactly the ids that are set (modified),  *)
(* in ascending order, and stops: Serialize and operator== are such walks. *)
WalksComplete ==
  /\ TypeOK
  /\ WalkVisits(SetIds, GetFirstSetVar, [r \in RelationIds |-> GetNextSetVar(r)])
  /\ WalkVisits(ModifiedIds, GetFirstModifiedVar,
                [r \in RelationIds |-> GetNextModifiedVar(r)])

(* A VarId stays good: the slot it names belongs to the same relation for  *)
(* the life of the cookie, whatever is set or cleared in between.          *)
(* Deserialize keeps the VarId that SetVar returns across                  *)
(* AddLinearElement (vcookiestore.cpp:263-267).                            *)
HandlesStayValid ==
  [][\A vid \in DOMAIN relVar : /\ vid \in DOMAIN relVar'
                                /\ relVar'[vid].relation_id = relVar[vid].relation_id]_vars

RM == INSTANCE RelMap WITH known <- {r \in RelationIds : SlotsOf(r) # {}},
                           vals <- CurrentValues

\* Each call does to the map what that very call should do to it.
CallsActOnMap ==
  [][/\ \A r \in RelationIds : ClearVar(r) => RM!Clear(r)
     /\ \A r \in RelationIds, v \in Values, type \in AllocationType, max \in Limits :
          SetVar(r, v, type, max) => RM!Set(r, v, type, max)
     /\ \A vid \in DOMAIN relVar, v \in Values :
          AddLinearElement(vid, v) => RM!AddElement(relVar[vid].relation_id, v)]_vars

(* Slots, index and search implement the map of relations to values, and   *)
(* each call acts on the map as that very call should, with its own        *)
(* relation, value, allocation type and limit (vcookie.h:175-251).         *)
ImplementsRelMap == RM!Spec /\ CallsActOnMap

(* A change of a variable leaves the cookie unmarked, for its destructor   *)
(* to forget, in one case only: the variable was cleared.  SetVar and      *)
(* AddLinearElement mark what they change whichever of their paths they    *)
(* take; ClearVar marks the slot but not the cookie (vcookie.h:175-251).   *)
OnlyClearingIsUnmarked ==
  [][\A r \in RelationIds :
       ValuesOf(r)' # ValuesOf(r) => (modified' /\ relVarModified') \/ ValuesOf(r)' = <<>>]_vars
=============================================================================
