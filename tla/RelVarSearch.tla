---------------------------- MODULE RelVarSearch -----------------------------
(***************************************************************************)
(* VCookie::FindRelationPos (src/abstraction/vcookie.h): the binary search *)
(* for a relation id in the sorted index of a cookie's variables, one loop *)
(* iteration per step.  It must return the position of the id, or the      *)
(* position at which SetVar has to insert it.  Positions count from 0.     *)
(***************************************************************************)
EXTENDS Integers, Sequences

CONSTANTS SearchedIds,     \* relation ids, natural numbers
          Indexes          \* the index contents searched: ascending ids

Ascending(s) == \A i, j \in 1..Len(s) : i < j => s[i] < s[j]

ASSUME SearchedIdsAssumption == SearchedIds \subseteq Nat

ASSUME IndexesAssumption ==
  /\ Indexes \subseteq Seq(SearchedIds)
  /\ \A s \in Indexes : Ascending(s)

VARIABLES ids,             \* the relation ids in the order of relVarSort
          relation_id,     \* the argument
          low, high,       \* the bounds of the search
          result           \* the position returned, or Searching

searchVars == <<ids, relation_id, low, high, result>>

Searching == -1

Mid == (low + high) \div 2
IdAt(pos) == ids[pos + 1]

SearchInit ==
  /\ ids \in Indexes
  /\ relation_id \in SearchedIds
  /\ low = 0
  /\ high = Len(ids)
  /\ result = Searching

Return(pos) == /\ result' = pos
               /\ UNCHANGED <<ids, relation_id, low, high>>

\* The id in the middle is the one searched.
Found == /\ low < high /\ IdAt(Mid) = relation_id
         /\ Return(Mid)

\* It is smaller, and the upper half has shrunk to nothing.  Seeded bug
\* first: forgetting that low may already be the middle.
NotAbove_GoesOn == /\ low < high /\ IdAt(Mid) < relation_id /\ Mid = low
                   /\ low' = Mid
                   /\ UNCHANGED <<ids, relation_id, high, result>>

NotAbove == /\ low < high /\ IdAt(Mid) < relation_id /\ Mid = low
            /\ Return(high)

GoUp == /\ low < high /\ IdAt(Mid) < relation_id /\ Mid # low
        /\ low' = Mid
        /\ UNCHANGED <<ids, relation_id, high, result>>

\* It is greater.  Seeded bug first: excluding one position too many.
GoDown_TooFar == /\ low < high /\ IdAt(Mid) > relation_id
                 /\ high' = IF Mid > low THEN Mid - 1 ELSE Mid
                 /\ UNCHANGED <<ids, relation_id, low, result>>

GoDown == /\ low < high /\ IdAt(Mid) > relation_id
          /\ high' = Mid
          /\ UNCHANGED <<ids, relation_id, low, result>>

\* The loop ends.
Exhausted == /\ low >= high
             /\ Return(low)

Iterate == result = Searching /\ (Found \/ NotAbove \/ GoUp \/ GoDown \/ Exhausted)

SearchDone == result # Searching /\ UNCHANGED searchVars

SearchNext == Iterate \/ SearchDone

SearchSpec == SearchInit /\ [][SearchNext]_searchVars

FairSearchSpec == SearchSpec /\ WF_searchVars(Iterate)

----------------------------------------------------------------------------
(* Properties *)

SearchTypeOK ==
  /\ ids \in Indexes
  /\ relation_id \in SearchedIds
  /\ low \in 0..Len(ids)
  /\ high \in 0..Len(ids)
  /\ result \in 0..Len(ids) \cup {Searching}

\* pos splits the index: smaller ids before it, no smaller id from it on.
IsLowerBound(s, r, pos) == /\ pos \in 0..Len(s)
                           /\ \A i \in 1..pos : s[i] < r
                           /\ \A i \in pos+1..Len(s) : s[i] >= r

(* FindRelationPos returns the place of the id in the order of the index,  *)
(* whether it is there or not (vcookie.h:337-358, used by SetVar to insert *)
(* and by GetNextSetVar to go on).                                         *)
ReturnsLowerBound == result # Searching => IsLowerBound(ids, relation_id, result)

(* The loop ends: every iteration returns or narrows the range.            *)
Terminates == <>(result # Searching)
=============================================================================
