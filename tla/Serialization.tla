---------------------------- MODULE Serialization ----------------------------
(***************************************************************************)
(* Serialize and Deserialize (src/abstraction/vcookiestore.cpp), the       *)
(* getters, Reset and operator== of VCookie (src/abstraction/vcookie.h),   *)
(* as operators.                                                           *)
(*                                                                         *)
(* A buffer is a sequence of items: a number, a string, or one element of  *)
(* a relation variable with its timestamp and revision.  Items are read    *)
(* whole or not at all, so a buffer that ends inside an item reads like    *)
(* one that ends before it.  Zero stands for a time or number that is 0    *)
(* and for the empty string: such a field is not written.                  *)
(***************************************************************************)
EXTENDS Naturals, SequencesExt, FiniteSetsExt

CONSTANTS RelationIds,   \* the relation ids below INVALID_RID in use
          InvalidRid,    \* INVALID_RID
          Elements,      \* the elements a relation variable can have, as numbers
          NUM_SAVED_PURCHASE_IDS

ASSUME SerializationAssumption ==
  /\ RelationIds \subseteq Nat /\ InvalidRid \in Nat /\ \A r \in RelationIds : r < InvalidRid
  /\ Elements \subseteq Nat /\ NUM_SAVED_PURCHASE_IDS \in Nat \ {0}

VC_SERIAL_VERSION == 0

\* The fields by the number Serialize gives them: 1 firstHitTimeGMT,
\* 2 lastHitTimeGMT, 3 lastHitTimeVisitorLocal, 4 lastVisitNum,
\* 5 lastPurchaseTimeGMT, 6 firstHitReferrer, 7 firstHitPageUrl,
\* 8 firstHitPagename, 9 lastPurchaseNum, 10 merchandising.
Fields == 1..10
LastHitTime == 2
PurchaseIdList == 11

Rids == RelationIds \cup {InvalidRid}

\* The lists SetPurchaseId makes.
PurchaseIds == Nat \ {0}
IdList == {ids \in Seq(PurchaseIds) : Len(ids) <= NUM_SAVED_PURCHASE_IDS /\ IsInjective(ids)}

\* known: the ids that have a slot; vals: their elements, empty if cleared.
Cookie == {c \in [field : [Fields -> Nat], purchaseIds : IdList,
                  known : SUBSET Rids, vals : [Rids -> Seq(Elements)]] :
             \A r \in Rids : c.vals[r] # <<>> => r \in c.known}

\* What Reset leaves, and the constructor when it loads nothing.
Blank == [field |-> [f \in Fields |-> 0], purchaseIds |-> <<>>,
          known |-> {}, vals |-> [r \in Rids |-> <<>>]]

\* The relation variables as the map that RelVars implements.
Vars(c) == INSTANCE RelMap WITH RelationIds <- Rids, Values <- Elements, Limits <- Nat,
                                known <- c.known, vals <- c.vals

----------------------------------------------------------------------------
(* Getters *)

\* The getters of lastHitTimeVisitorLocal and lastPurchaseTimeGMT return
\* lastHitTimeGMT.
Getter(c, f) == c.field[IF f \in {3, 5} THEN LastHitTime ELSE f]

\* The ids that GetFirstSetVar and GetNextSetVar visit before INVALID_RID.
SetIds(c) == {r \in RelationIds : c.vals[r] # <<>>}

\* A set of ids in the order of the variable index.
Ascending(ids) == CHOOSE s \in [1..Cardinality(ids) -> ids] :
                    \A i, j \in DOMAIN s : i < j => s[i] < s[j]

\* What GetVarElementCount and GetVar find for an id: the elements of the
\* least known id that is not below it.
FoundVals(c, r) == LET found == Vars(c)!Target(r)
                   IN IF found = {} THEN <<>> ELSE c.vals[CHOOSE s \in found : TRUE]

----------------------------------------------------------------------------
(* Writing *)

AddField(f, value) == IF value = 0 THEN <<>> ELSE <<f, value>>

\* A number and as many items, as AddField and AddItem write them.
AddList(number, items) == <<number, Len(items)>> \o items

\* Seeded bug: the walk ends one variable early.
AddVars_OneShort(c) ==
  FlattenSeq([i \in 1..Cardinality(SetIds(c)) - 1 |->
                LET r == Ascending(SetIds(c))[i] IN AddList(r, c.vals[r])])

AddVars(c) ==
  FlattenSeq([i \in 1..Cardinality(SetIds(c)) |->
                LET r == Ascending(SetIds(c))[i] IN AddList(r, c.vals[r])])

\* The fields, without the zero that ends them.
AddFields(c, saveLastHitTime) ==
  FlattenSeq([f \in Fields |-> IF f = LastHitTime /\ ~saveLastHitTime THEN <<>>
                               ELSE AddField(f, Getter(c, f))])
    \o (IF c.purchaseIds = <<>> THEN <<>> ELSE AddList(PurchaseIdList, c.purchaseIds))

\* version, read compatible version, flag, offset of the variables; fields;
\* variables.  Offsets count items from 0.
Assemble(version, compatible, fields, variables) ==
  <<version, compatible, 0, Len(fields) + 5>> \o fields \o <<0>> \o variables \o <<InvalidRid>>

Serialize(c, saveLastHitTime) ==
  Assemble(VC_SERIAL_VERSION, VC_SERIAL_VERSION, AddFields(c, saveLastHitTime), AddVars(c))

\* What a later version that added fields writes, readable by this one or not.
SerializeLater(c, added, compatible) ==
  Assemble(VC_SERIAL_VERSION + 1, compatible, AddFields(c, TRUE) \o added, AddVars(c))

----------------------------------------------------------------------------
(* Reading.  A read is in state [b, next, ok, cookie]: the items consumed, *)
(* the field or relation id read last, whether every read succeeded, and   *)
(* the cookie as filled so far.                                            *)

\* ReadItem into next.
ReadNext(buffer, r) == IF r.ok /\ r.b < Len(buffer)
                       THEN [r EXCEPT !.b = @ + 1, !.next = buffer[r.b + 1]]
                       ELSE [r EXCEPT !.ok = FALSE]

\* The field if it is next, and the id after it.
ReadField(buffer, r, f) ==
  IF ~r.ok \/ r.next # f THEN r
  ELSE LET value == ReadNext(buffer, r)
       IN IF ~value.ok THEN value
          ELSE ReadNext(buffer, [value EXCEPT !.cookie.field[f] = value.next])

ReadFields(buffer, r) == FoldLeft(LAMBDA q, f : ReadField(buffer, q, f), r, [f \in Fields |-> f])

\* Seeded bug: ids are added without looking at those in the list.
SetPurchaseId_Appends(ids, id) == Append(ids, id)

SetPurchaseId(ids, id) ==
  IF Contains(ids, id) THEN Append(RemoveFirst(ids, id), id)
  ELSE Append(IF Len(ids) = NUM_SAVED_PURCHASE_IDS THEN Tail(ids) ELSE ids, id)

\* Ids one after the other.
AddPurchaseIds(ids, more) == FoldLeft(SetPurchaseId, ids, more)

\* The items that are there of cnt items at b.
Present(buffer, b, cnt) == SubSeq(buffer, b + 1, Min({b + cnt, Len(buffer)}))

ReadPurchaseIds(buffer, r) ==
  IF ~r.ok \/ r.next # PurchaseIdList THEN r
  ELSE LET cnt == ReadNext(buffer, r)
           ids == Present(buffer, cnt.b, cnt.next)
           set == [cnt EXCEPT !.b = @ + Len(ids),
                              !.cookie.purchaseIds = AddPurchaseIds(@, ids)]
       IN IF cnt.ok THEN ReadNext(buffer, [set EXCEPT !.ok = Len(ids) = cnt.next]) ELSE cnt

\* SetVar for the first element, with the count as limit; AddLinearElement
\* for the others.
SetElements(c, rid, elements, cnt) ==
  IF elements = <<>> THEN c
  ELSE [c EXCEPT !.known = @ \cup {rid},
                 !.vals[rid] = Vars(c)!NewValues(@, Head(elements),
                                                 IF cnt > 1 THEN "LINEAR" ELSE "LAST", cnt)
                                 \o Tail(elements)]

\* Seeded bug: a missing id ends the variables like INVALID_RID does.
ReadVar_EndsQuietly(buffer, r) ==
  IF ~r.ok \/ r.next = InvalidRid THEN r
  ELSE IF r.b = Len(buffer) THEN [r EXCEPT !.next = InvalidRid]
  ELSE LET cnt == ReadNext(buffer, r)
           elements == Present(buffer, cnt.b, cnt.next)
           set == [cnt EXCEPT !.b = @ + Len(elements),
                              !.cookie = SetElements(@, r.next, elements, cnt.next)]
       IN IF set.b < Len(buffer) THEN ReadNext(buffer, set) ELSE [set EXCEPT !.next = InvalidRid]

\* A relation variable and the id after it.
ReadVar(buffer, r) ==
  IF ~r.ok \/ r.next = InvalidRid THEN r
  ELSE LET cnt == ReadNext(buffer, r)
           elements == Present(buffer, cnt.b, cnt.next)
           set == [cnt EXCEPT !.b = @ + Len(elements),
                              !.cookie = SetElements(@, r.next, elements, cnt.next)]
       IN IF cnt.ok THEN ReadNext(buffer, [set EXCEPT !.ok = Len(elements) = cnt.next]) ELSE cnt

\* Until a read fails or INVALID_RID is read.  (Bound: a variable takes more
\* than one item, so as many reads as there are items are enough.)
ReadVars(buffer, r) ==
  FoldLeft(LAMBDA q, i : ReadVar(buffer, q), r, [i \in 1..Len(buffer) |-> i])

\* Past what this version does not know, to the variables.
SkipToVars(buffer, r, offset) ==
  ReadNext(buffer, [r EXCEPT !.ok = @ /\ r.b <= offset, !.b = offset])

\* The header is there and this version can read on.  (The header items
\* before the offset are read unchecked; without an offset the answer is no.)
CanRead(buffer) == Len(buffer) >= 4 /\ buffer[2] <= VC_SERIAL_VERSION

Deserialize(c, buffer) ==
  IF ~CanRead(buffer) THEN [ok |-> FALSE, cookie |-> c]
  ELSE LET start == ReadNext(buffer, [b |-> 4, next |-> 0, ok |-> TRUE, cookie |-> c])
           purchases == ReadPurchaseIds(buffer, ReadFields(buffer, start))
           done == ReadVars(buffer, SkipToVars(buffer, purchases, buffer[4]))
       IN [ok |-> done.ok, cookie |-> done.cookie]

----------------------------------------------------------------------------
(* operator== for cookies of one visitor *)

\* The first id that is set, or INVALID_RID.
GetFirstSetVar(c) == Min({r \in Rids : c.vals[r] # <<>>} \cup {InvalidRid})

\* Seeded bug: the number of elements is not compared.
SameVar_NoCount(a, b, r) == IsPrefix(a.vals[r], FoundVals(b, r))

SameVar(a, b, r) == FoundVals(b, r) = a.vals[r]

\* After the first variable the walk through b follows the ids of a, because
\* it advances with a.GetNextSetVar.
Equal(a, b) == /\ \A f \in Fields : Getter(a, f) = Getter(b, f)
               /\ a.purchaseIds = b.purchaseIds
               /\ GetFirstSetVar(a) = GetFirstSetVar(b)
               /\ \A r \in SetIds(a) : SameVar(a, b, r)
=============================================================================
