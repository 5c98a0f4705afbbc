------------------------------ MODULE MCRelVars ------------------------------
(* RelVars with a few ids, so that ids are set in every order and asked for *)
(* below, between and above those that are set.                             *)
EXTENDS RelVars

CONSTANT MaxId          \* bound: the ids are 1..MaxId

MCRelationIds == 1..MaxId
MCInvalidRid == MaxId + 1
=============================================================================
