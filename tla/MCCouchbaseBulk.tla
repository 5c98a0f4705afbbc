--------------------------- MODULE MCCouchbaseBulk ---------------------------
(* Up to three cookies of up to three visitors, alone or sharing a record,  *)
(* on a bucket in which a record may be missing, cut or of a later version. *)
EXTENDS CouchbaseBulk

MCRelationIds == {0}
MCInvalidRid == 1
MCBatches == {<<1, 1>>, <<1, 2, 3>>, <<1, 2, 1>>}

\* What an earlier session saved: two elements in the variable.
Earlier(u) == [field |-> [f \in Fields |-> CASE f = LastHitTime -> 3 [] f = FirstHitReferrer -> Mark(u)
                                             [] OTHER -> 0],
               purchaseIds |-> <<1>>, known |-> {0},
               vals |-> [r \in Rids |-> IF r = 0 THEN <<1, 2>> ELSE <<>>]]

Whole(u) == Serialize(Earlier(u), TRUE)
Cut(u) == SubSeq(Whole(u), 1, Len(Whole(u)) - 2)
Later(u) == SerializeLater(Earlier(u), <<>>, VC_SERIAL_VERSION + 1)

MCSavedBefore == {Earlier(u) : u \in 1..3}

MCBuckets ==
  {[u \in 1..3 |-> IF u = 1 THEN NoRecord ELSE Whole(u)],
   [u \in 1..3 |-> IF u = 1 THEN Cut(u) ELSE Whole(u)],
   [u \in 1..3 |-> IF u = 2 THEN Later(u) ELSE Whole(u)]}
=============================================================================
