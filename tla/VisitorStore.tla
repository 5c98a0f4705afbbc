----------------------------- MODULE VisitorStore -----------------------------
(***************************************************************************)
(* What the interface VCookieStore promises to the program: one record per *)
(* visitor, which a load finds until it is deleted or purged.              *)
(* InMemoryStore.tla is compared with this module.                         *)
(***************************************************************************)
EXTENDS Naturals, FiniteSets

CONSTANTS Visitors,     \* the visitors
          NoRecord      \* what is stored for a visitor without a record

VARIABLE stored         \* stored[v]: the record of v, with its time of expiry

Saved(v, record) == stored' = [stored EXCEPT ![v] = record]

Deleted(v) == stored' = [stored EXCEPT ![v] = NoRecord]

\* Every record older than t goes.
Purged(t) == stored' = [v \in Visitors |-> IF stored[v] # NoRecord /\ stored[v].lastHit < t
                                           THEN NoRecord ELSE stored[v]]

Kept == {v \in Visitors : stored[v] # NoRecord}
=============================================================================
