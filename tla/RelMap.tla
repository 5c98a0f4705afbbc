------------------------------- MODULE RelMap --------------------------------
(***************************************************************************)
(* What the relation variables of a VCookie mean to the code that uses     *)
(* them: a map from relation ids to the list of values each one holds,     *)
(* without slots, sort index or flags.  RelVars.tla is shown to implement  *)
(* this module.                                                            *)
(*                                                                         *)
(* The one thing the representation cannot hide is which ids the cookie    *)
(* knows, set or cleared: ClearVar looks an id up with FindRelationId,     *)
(* which answers with the next known id when the id itself is unknown.     *)
(***************************************************************************)
EXTENDS Naturals, Sequences

CONSTANTS RelationIds,   \* the relation ids in use, natural numbers
          Values,        \* the values a variable can be given
          Limits         \* the limits callers put on linear variables

VARIABLES known,         \* the ids that were ever given a value
          vals           \* vals[r]: the values of r, oldest first

mvars == <<known, vals>>

AllocationType == {"LAST", "FIRST", "LINEAR"}

\* The last n elements of a sequence.
LastN(s, n) == SubSeq(s, (IF Len(s) > n THEN Len(s) - n ELSE 0) + 1, Len(s))

\* A linear variable with a finite limit keeps its newest values only, and
\* at least the one being added; 0 stands for no limit.
AppendLimited(s, v, max) ==
  Append(IF max = 0 THEN s ELSE LastN(s, max - 1), v)

\* What SetVar makes of the values of a variable.
NewValues(s, v, type, max) ==
  CASE type = "LINEAR" -> AppendLimited(s, v, max)
    [] type = "FIRST" -> IF Len(s) = 1 THEN s ELSE <<v>>
    [] type = "LAST" -> <<v>>

\* The id ClearVar(r) acts on: the least known one that is not below r.
Target(r) == {s \in known : s >= r /\ \A u \in known : u >= r => s <= u}

Init == /\ known = {}
        /\ vals = [r \in RelationIds |-> <<>>]

Set(r, v, type, max) ==
  /\ known' = known \cup {r}
  /\ vals' = [vals EXCEPT ![r] = NewValues(@, v, type, max)]

AddElement(r, v) ==
  /\ r \in known
  /\ vals' = [vals EXCEPT ![r] = Append(@, v)]
  /\ UNCHANGED known

Clear(r) ==
  /\ vals' = [s \in RelationIds |-> IF s \in Target(r) THEN <<>> ELSE vals[s]]
  /\ UNCHANGED known

Next == \E r \in RelationIds :
          \/ \E v \in Values, type \in AllocationType, max \in Limits : Set(r, v, type, max)
          \/ \E v \in Values : AddElement(r, v)
          \/ Clear(r)

Spec == Init /\ [][Next]_mvars
=============================================================================
