--------------------------- MODULE MCInMemoryStore ---------------------------
(* Three visitors on VCStoreInMemory: such that the comparison orders them, *)
(* as ids of one suite counted up, or of several suites; and such that it   *)
(* does not: a pair below each other and above the third or below it, or    *)
(* all pairs below each other.                                              *)
EXTENDS InMemoryStore

Ordered == {{<<1, 1, 1>>, <<1, 1, 2>>, <<1, 2, 2>>}, {<<1, 1, 1>>, <<2, 1, 1>>, <<2, 2, 3>>}}

Unordered == {{<<1, 1, 1>>, <<1, 1, 2>>, <<1, 2, 1>>},
              {<<1, 1, 3>>, <<1, 2, 2>>, <<1, 3, 1>>},
              {<<1, 1, 3>>, <<1, 2, 1>>, <<1, 2, 4>>}}

AllKeySets == Ordered \cup Unordered

MCRelationIds == {}
MCInvalidRid == 1
=============================================================================
