----------------------------- MODULE MCRecordLife -----------------------------
(* Cookies for RecordLife: none, some or all fields; lists of purchase ids  *)
(* that are empty, short and full; variables of three ids and of INVALID_RID *)
(* with up to two elements, set, cleared or never used.                     *)
EXTENDS RecordLife

MCRelationIds == {0, 1, 2}
MCInvalidRid == 3
MCAdded == <<12, 7, 13, 9>>

\* A value that is the number of the next field, so that items mixed up show.
Filled(set) == [f \in Fields |-> IF f \in set THEN f + 1 ELSE 0]

FieldSets == {{}, {LastHitTime}, {1, 6, 10}, Fields \ {LastHitTime}, Fields \ {10}, Fields}

Lists == {<<>>, <<1>>, <<1, 2>>}

Used(vals) == {r \in Rids : vals[r] # <<>>}

Made(set, ids, vals, known) ==
  [field |-> Filled(set), purchaseIds |-> ids, known |-> known, vals |-> vals]

\* Variables with every list, INVALID_RID with at most one element; and a few.
AllVals == {v \in [Rids -> Lists] : Len(v[MCInvalidRid]) < 2}
SomeVals == {v \in AllVals : v[1] = v[2] /\ v[MCInvalidRid] = v[0] /\ Len(v[1]) # 1}

MCCookies ==
  {Made(set, ids, vals, Used(vals)) :
     set \in FieldSets, ids \in {<<>>, <<1>>, <<2, 1, 3>>}, vals \in SomeVals}
  \cup {Made(Fields, <<1>>, vals, Used(vals)) : vals \in AllVals}

\* All fields or none, and ids that were set and cleared.
MCCompared ==
  {Made(set, ids, vals, Used(vals) \cup extra) :
     set \in {Fields, Fields \ {10}}, ids \in {<<>>, <<1>>},
     extra \in {{}, Rids}, vals \in {v \in AllVals : v[MCInvalidRid] = <<>>}}

MCHitEvars == [MCRelationIds -> {0, 1, 2}]
=============================================================================
