--------------------------- MODULE MCRelVarSearch ---------------------------
(* Every ascending index over a handful of ids, every id searched for.      *)
EXTENDS RelVarSearch

CONSTANT MaxId        \* bound: the ids are 1..MaxId

MCSearchedIds == 1..MaxId

\* The ascending indexes over 1..n: those over 1..n-1, without and with n.
AscendingUpTo[n \in 0..MaxId] ==
  IF n = 0 THEN {<<>>}
  ELSE AscendingUpTo[n - 1] \cup {Append(s, n) : s \in AscendingUpTo[n - 1]}

MCIndexes == AscendingUpTo[MaxId]
=============================================================================
