--------------------------- MODULE MCProfileUpdate --------------------------
(* Small instances of ProfileUpdate.  Each replay makes some hits meet in   *)
(* the record of one key; all others would only repeat these cases.         *)
EXTENDS ProfileUpdate, TLC

H(u, v, new, time, bought, id) ==
  [user |-> u, visitor |-> v, newVisitor |-> new, time |-> time,
   purchaseTime |-> bought, purchaseId |-> id]

CONSTANTS u1, u2, v1, v2, p1, p2, p3

\* Hits of one visitor with no purchase, with a purchase, and of another user.
Browse(time) == H(u1, v1, FALSE, time, 0, NoPurchase)
Buy(time, id) == H(u1, v1, FALSE, time, time - 1, id)
Other(time) == H(u2, v2, FALSE, time, 0, NoPurchase)
New(time) == H(u1, v1, TRUE, time, 0, NoPurchase)

\* For threads that compete: every sequence of three hits, and two longer
\* ones in which a full list of purchase ids is read back while it changes.
Contended ==
  [1..3 -> {Buy(2, p1), Buy(3, p2), Browse(4), New(5), Other(6)}]
    \cup {<<Buy(2, p1), Buy(3, p2), Buy(4, p1), Buy(5, p3)>>,
          <<Buy(2, p1), Buy(3, p2), Other(4), Buy(5, p3)>>}

\* Every sequence of up to five hits that are not of a new visitor.
Alone == UNION {[1..n -> {Browse(2), Buy(3, p1), Buy(4, p2), Buy(5, p3), Other(6)}] : n \in 0..5}

\* Two visitors of one report suite.
TwoVisitors == {<<Browse(2), H(u1, v2, FALSE, 3, 0, NoPurchase)>>}

Symmetry == Permutations(Threads)
=============================================================================
