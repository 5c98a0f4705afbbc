------------------------------ MODULE RecordLife ------------------------------
(***************************************************************************)
(* A record between its writer and its readers: a cookie is serialized by  *)
(* this version of the program or by a later one, the bytes may be cut on  *)
(* their way, and a cookie is filled from what arrives - a blank one by    *)
(* the constructor of VCookie, and the same cookie again by a bulk load.   *)
(* A worker (src/testharness.cpp) gives the cookie the evars of its hit.   *)
(***************************************************************************)
EXTENDS Serialization

CONSTANTS Cookies,    \* the cookies that are saved
          Compared,   \* cookies that a loaded one is compared with
          Added,      \* the items of fields that only a later version knows
          HitEvars    \* the evars of hits: evar[i] is 0 if i is not set

ASSUME CookiesAssumption == Cookies \subseteq Cookie /\ Compared \subseteq Cookie
\* "ALWAYS add new fields to the end": they have numbers of their own.
ASSUME AddedAssumption == Added \in Seq(Nat) /\ (Added # <<>> => Head(Added) > PurchaseIdList)
ASSUME HitEvarsAssumption == HitEvars \subseteq [RelationIds -> Elements \cup {0}]

VARIABLES saved,      \* the cookie that is saved
          writer,     \* who wrote the buffer
          buffer,     \* the serialized record
          whole,      \* the buffer is complete
          loaded,     \* the cookie that is filled
          ok,         \* what Deserialize answered
          loads,      \* how often the cookie was filled
          hit         \* a hit has changed it

vars == <<saved, writer, buffer, whole, loaded, ok, loads, hit>>

Init == /\ saved \in Cookies
        /\ writer = "nobody" /\ buffer = <<>> /\ whole = TRUE
        /\ loaded = Blank /\ ok = FALSE /\ loads = 0 /\ hit = FALSE

Written(who, items) == /\ writer = "nobody"
                       /\ writer' = who
                       /\ buffer' = items
                       /\ UNCHANGED <<saved, whole, loaded, ok, loads, hit>>

\* With the last hit time in the buffer, or stored beside it.
Write == \/ Written("this", Serialize(saved, TRUE))
         \/ Written("timeless", Serialize(saved, FALSE))

WriteLater == \/ Written("later", SerializeLater(saved, Added, VC_SERIAL_VERSION))
              \/ Written("incompatible", SerializeLater(saved, Added, VC_SERIAL_VERSION + 1))

\* Only the first items of the record arrive.
Cut == /\ writer # "nobody" /\ whole /\ loads = 0
       /\ \E n \in 0..Len(buffer) - 1 : buffer' = SubSeq(buffer, 1, n)
       /\ whole' = FALSE
       /\ UNCHANGED <<saved, writer, loaded, ok, loads, hit>>

\* A cookie is filled at most twice: when it is made and by LoadVCookies.
Load == /\ writer # "nobody" /\ loads < 2 /\ ~hit
        /\ LET result == Deserialize(loaded, buffer)
           IN loaded' = result.cookie /\ ok' = result.ok
        /\ loads' = loads + 1
        /\ UNCHANGED <<saved, writer, buffer, whole, hit>>

\* Seeded bug: the value of the hit replaces the one the variable has.
SetEvar_Last(c, i, value) ==
  IF FoundVals(c, i) # <<>> /\ Head(FoundVals(c, i)) # value
  THEN [c EXCEPT !.known = @ \cup {i}, !.vals[i] = Vars(c)!NewValues(@, value, "LAST", 1)]
  ELSE c

\* An evar of the hit is set if GetVar finds a variable with another value.
SetEvar(c, i, value) ==
  IF FoundVals(c, i) # <<>> /\ Head(FoundVals(c, i)) # value
  THEN [c EXCEPT !.known = @ \cup {i}, !.vals[i] = Vars(c)!NewValues(@, value, "FIRST", 1)]
  ELSE c

ClearVar(c, i) ==
  [c EXCEPT !.vals = [r \in Rids |-> IF r \in Vars(c)!Target(i) THEN <<>> ELSE @[r]]]

SetEvars(c, evar) ==
  FoldLeft(LAMBDA d, i : IF evar[i] # 0 THEN SetEvar(d, i, evar[i]) ELSE ClearVar(d, i),
           c, Ascending(RelationIds))

\* The worker's loop over the evars, on a cookie that was just made.  (Bound:
\* of whole records; a cut one has some of the same variables.)
Hit(evar) == /\ loads = 1 /\ whole /\ ~hit
             /\ loaded' = SetEvars(loaded, evar)
             /\ hit' = TRUE
             /\ UNCHANGED <<saved, writer, buffer, whole, ok, loads>>

Done == (loads = 2 \/ hit) /\ UNCHANGED vars

Next == Write \/ WriteLater \/ Cut \/ Load \/ Done \/ \E evar \in HitEvars : Hit(evar)

Spec == Init /\ [][Next]_vars

----------------------------------------------------------------------------
(* Properties *)

\* Every variable has its type.
TypeOK == /\ saved \in Cookies /\ whole \in BOOLEAN /\ ok \in BOOLEAN /\ loads \in 0..2 /\ hit \in BOOLEAN
          /\ writer \in {"nobody", "this", "timeless", "later", "incompatible"}
          /\ loaded \in Cookie

Readable == writer \in {"this", "timeless", "later"}

\* What a reader can tell of a cookie, by its getters and its walks.
Same(a, b, fields) == /\ \A f \in fields : Getter(a, f) = Getter(b, f)
                      /\ a.purchaseIds = b.purchaseIds
                      /\ \A r \in RelationIds : a.vals[r] = b.vals[r]

(* A complete record of this version, or of a later one that says it can   *)
(* be read, gives back every field its writer had in the cookie, its       *)
(* purchase ids and its variables below INVALID_RID; the last hit time,    *)
(* and what is read through it, only if it was saved with the rest         *)
(* (vcookiestore.cpp:75-138 against 140-273).                              *)
RoundTrip ==
  /\ TypeOK
  /\ Readable /\ whole /\ loads = 1 /\ ~hit =>
       ok /\ Same(loaded, saved, IF writer = "timeless" THEN Fields \ {2, 3, 5} ELSE Fields)

(* operator== sees every difference of two cookies that have the same      *)
(* variables set, and no other (vcookie.h:404-467); so a cookie equals     *)
(* what it was saved from, in both orders, as test.cpp:167 checks of one.  *)
EqualIsExactForSameIds ==
  Readable /\ loads = 1 /\ ~hit =>
    /\ \A c \in {d \in Compared : SetIds(d) = SetIds(loaded)} :
          Equal(loaded, c) <=> Same(loaded, c, Fields)
    /\ whole /\ writer # "timeless" => Equal(loaded, saved) /\ Equal(saved, loaded)

(* A record that ends early, wherever it does, or that only later versions *)
(* can read is rejected, and leaves in a blank cookie nothing but what its *)
(* writer had there: fields are saved ones or blank, lists are beginnings  *)
(* of the saved ones, and nothing at all is read of a later version's.     *)
(* The caller keeps such a cookie (VCCouchbaseStore.cc:145).               *)
RejectedIsPartOfSaved ==
  loads > 0 /\ (~whole \/ ~Readable) =>
    /\ ~ok
    /\ ~Readable => loaded = Blank
    /\ loads = 1 =>
         /\ \A f \in Fields : loaded.field[f] \in {0, Getter(saved, f)}
         /\ IsPrefix(loaded.purchaseIds, saved.purchaseIds)
         /\ \A r \in Rids : IsPrefix(loaded.vals[r], saved.vals[r])

(* Filling a cookie that has its record already (the constructor loads,    *)
(* then LoadVCookies does) leaves fields and purchase ids as they are, and *)
(* each variable ends with its saved elements; elements it had before may  *)
(* stay in front of them, because SetVar only makes room for one.          *)
SecondLoadKeepsTheRecord ==
  Readable /\ whole /\ loads = 2 =>
    /\ \A f \in Fields \ {2, 3, 5} : Getter(loaded, f) = Getter(saved, f)
    /\ loaded.purchaseIds = saved.purchaseIds
    /\ \A r \in RelationIds :
         LET n == Len(saved.vals[r])
         IN IsSuffix(saved.vals[r], loaded.vals[r])
              /\ Len(loaded.vals[r]) = IF n > 1 THEN 2 * n - 1 ELSE n

(* What a hit does to the variables of a record.  An evar that the hit does *)
(* not set clears the first variable at or above it; another variable keeps *)
(* its value, or if it has several gets the one of the hit; and an evar    *)
(* that the record does not have is added only if there is a variable      *)
(* above it, so that a record without variables never gets one (the "may   *)
(* be null" of testharness.cpp:828, FindRelationId, ALLOC_TYPE_FIRST).     *)
EvarsOfAHit ==
  [][\A evar \in HitEvars : Hit(evar) =>
       LET set == SetIds(loaded)
           cleared == {r \in set : \E i \in RelationIds :
                         evar[i] = 0 /\ i <= r /\ \A q \in set : q < i \/ q >= r}
           old == loaded.vals
           new == loaded'.vals
       IN \A r \in RelationIds :
            CASE r \in cleared -> new[r] = <<>>
              [] r \in set \ cleared -> new[r] = old[r] \/ (Len(old[r]) > 1 /\ new[r] = <<evar[r]>>)
              [] r \notin set -> new[r] = <<>> \/ (new[r] = <<evar[r]>> /\ \E q \in set : q > r)]_vars
=============================================================================
