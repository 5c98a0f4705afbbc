----------------------------- MODULE ProfileLog ------------------------------
(***************************************************************************)
(* What replaying hits promises when nothing goes wrong: the hits are      *)
(* recorded one after the other, in their order, each in the record of its *)
(* key, and no record loses a hit.  ProfileUpdate.tla is shown to          *)
(* implement this module for one worker, no faults and no hit declared to  *)
(* be of a new visitor.                                                    *)
(***************************************************************************)
EXTENDS Naturals, Sequences

CONSTANT Keys           \* the keys records are stored under

VARIABLES keyOf,        \* keyOf[i]: the key of hit i
          recorded,     \* how many hits have been recorded
          profile       \* profile[k]: the hits in the record of k, in order

pvars == <<keyOf, recorded, profile>>

Init == /\ keyOf \in Seq(Keys)
        /\ recorded = 0
        /\ profile = [k \in Keys |-> <<>>]

Record == /\ recorded < Len(keyOf)
          /\ recorded' = recorded + 1
          /\ profile' = [profile EXCEPT ![keyOf[recorded + 1]] = Append(@, recorded + 1)]
          /\ UNCHANGED keyOf

Spec == Init /\ [][Record]_pvars
=============================================================================
