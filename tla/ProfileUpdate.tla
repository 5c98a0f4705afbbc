---------------------------- MODULE ProfileUpdate ----------------------------
(***************************************************************************)
(* Worker threads replaying hits against one shared store:                 *)
(* the loop of WorkerThread (src/testharness.cpp), the life of a VCookie   *)
(* (src/abstraction/vcookie.h: constructor, setters, SetPurchaseId, Store, *)
(* destructor) and the synchronous operations of VCCouchbaseStore.         *)
(*                                                                         *)
(* Every thread has its own connection, but all of them use one bucket, so *)
(* constructing, updating and storing a cookie is a read-modify-write that *)
(* other threads can run into.  Relation variables are in RelVars; here a  *)
(* cookie has its traffic and purchase fields.                             *)
(***************************************************************************)
EXTENDS Naturals, FiniteSets, SequencesExt

CONSTANTS Threads,       \* the worker threads
          Users,         \* userid of the hits: the report suite
          Visitors,      \* visid_high, visid_low
          PurchaseIds,   \* purchase ids
          NoPurchase,    \* the empty purchase id
          NUM_SAVED_PURCHASE_IDS,
          NoRecord,      \* what the bucket holds for a key without a record
          Replays,       \* the sequences of hits to replay
          Requests,      \* options.requests: hits one thread replays at most
          MaxFaulty      \* bound: hits that meet a failing store

Hit == [user : Users, visitor : Visitors, newVisitor : BOOLEAN,
        time : Nat \ {0}, purchaseTime : Nat, purchaseId : PurchaseIds \cup {NoPurchase}]

ASSUME ReplaysAssumption == Replays \subseteq Seq(Hit)

ASSUME BoundsAssumption ==
  /\ NUM_SAVED_PURCHASE_IDS \in Nat \ {0} /\ Requests \in Nat /\ MaxFaulty \in Nat
  /\ NoPurchase \notin PurchaseIds

VARIABLES hits,          \* the replay, in the order the source hands it out
          next,          \* the next hit
          count,         \* the loop counter of each thread
          db,            \* the bucket: a record per key, or NoRecord
          pc, current,   \* where each thread is, and the hit it works on
          cookie,        \* the VCookie of each thread
          newCookie, modified,     \* flags of that cookie
          late,          \* writes that timed out and may still be applied
          faulty,        \* history: hits during which the store failed
          overlap,       \* history: pairs of hits of one key in work together
          exited         \* error_handler has ended the process

vars == <<hits, next, count, db, pc, current, cookie, newCookie, modified, late, faulty,
          overlap, exited>>

NoHit == 0

----------------------------------------------------------------------------
(* Cookies and records.  firstHit stands for the first-hit fields,         *)
(* lastHit for the last-hit fields; log is history: the hits that went     *)
(* into the cookie.                                                        *)

Cookie == [firstHit : Nat, lastHit : Nat, lastPurchaseTime : Nat, lastPurchaseNum : Nat,
           purchaseIds : Seq(PurchaseIds), log : Seq(Nat)]

Blank == [firstHit |-> 0, lastHit |-> 0, lastPurchaseTime |-> 0, lastPurchaseNum |-> 0,
          purchaseIds |-> <<>>, log |-> <<>>]

ASSUME NoRecordAssumption == NoRecord \notin Cookie

\* Seeded bug: an id in the list stays where it is.
SetPurchaseId_StaysInPlace(ids, id) ==
  IF Contains(ids, id) THEN ids
  ELSE Append(IF Len(ids) = NUM_SAVED_PURCHASE_IDS THEN Tail(ids) ELSE ids, id)

\* An id in the list moves to its end; a new one is added, in place of the
\* oldest if the list is full.
SetPurchaseId(ids, id) ==
  IF Contains(ids, id) THEN Append(RemoveFirst(ids, id), id)
  ELSE Append(IF Len(ids) = NUM_SAVED_PURCHASE_IDS THEN Tail(ids) ELSE ids, id)

\* What Serialize writes: GetLastPurchaseTimeGMT returns the last hit time.
Serialized(c) == [c EXCEPT !.lastPurchaseTime = c.lastHit]

\* What Deserialize makes of it in a blank cookie: the purchase ids are set
\* one after the other.
Deserialized(r) == [r EXCEPT !.purchaseIds = FoldLeft(SetPurchaseId, <<>>, @)]

\* The setters WorkerThread calls for hit i.
Updated(c, i, isNew) ==
  LET h == hits[i]
      buys == h.purchaseId # NoPurchase
  IN [c EXCEPT !.firstHit = IF isNew THEN h.time ELSE @,
               !.lastHit = h.time,
               !.lastPurchaseTime = IF h.purchaseTime # 0 THEN h.purchaseTime ELSE @,
               !.lastPurchaseNum = IF buys THEN @ + 1 ELSE @,
               !.purchaseIds = IF buys THEN SetPurchaseId(@, h.purchaseId) ELSE @,
               !.log = Append(@, i)]

\* The key of a record: the userid alone.
KeyOf(i) == hits[i].user

----------------------------------------------------------------------------
Init == /\ hits \in Replays
        /\ next = 1
        /\ count = [t \in Threads |-> 0]
        /\ db = [k \in Users |-> NoRecord]
        /\ pc = [t \in Threads |-> "idle"]
        /\ current = [t \in Threads |-> NoHit]
        /\ cookie = [t \in Threads |-> Blank]
        /\ newCookie = [t \in Threads |-> FALSE]
        /\ modified = [t \in Threads |-> FALSE]
        /\ late = {}
        /\ faulty = {}
        /\ overlap = {}
        /\ exited = FALSE

\* NextHit returns a hit.
Take(t) == /\ pc[t] = "idle" /\ count[t] < Requests /\ next <= Len(hits)
           /\ next' = next + 1
           /\ current' = [current EXCEPT ![t] = next]
           /\ pc' = [pc EXCEPT ![t] = "construct"]
           /\ UNCHANGED <<hits, count, db, cookie, newCookie, modified, late, faulty,
                          overlap, exited>>

\* NextHit returns false, or all requests are done.
Stop(t) == /\ pc[t] = "idle"
           /\ count[t] = Requests \/ next > Len(hits)
           /\ pc' = [pc EXCEPT ![t] = "done"]
           /\ UNCHANGED <<hits, next, count, db, current, cookie, newCookie, modified,
                          late, faulty, overlap, exited>>

----------------------------------------------------------------------------
(* Constructing the cookie.                                                *)

\* The store may fail the call that thread t makes.
CanFail(t) == Cardinality(faulty \cup {current[t]}) <= MaxFaulty

\* Thread u holds a copy of the record with a change that is not saved yet.
Unsaved(u) == pc[u] \in {"update", "store"} \/ modified[u]

Constructed(t, isNew, c) ==
  /\ cookie' = [cookie EXCEPT ![t] = c]
  /\ newCookie' = [newCookie EXCEPT ![t] = isNew]
  /\ modified' = [modified EXCEPT ![t] = FALSE]
  /\ pc' = [pc EXCEPT ![t] = "update"]
  /\ overlap' = overlap \cup
       {{current[t], current[u]} :
          u \in {v \in Threads \ {t} : Unsaved(v) /\ KeyOf(current[v]) = KeyOf(current[t])}}
  /\ UNCHANGED <<hits, next, count, db, current, late, exited>>

\* Seeded bug: every cookie is taken for new.
Construct_NeverLoads(t) == /\ pc[t] = "construct"
                           /\ Constructed(t, TRUE, Blank)
                           /\ UNCHANGED faulty

\* VCookie::VCookie: a visitor declared new is not looked up; otherwise the
\* cookie is new if LoadVCookie returns false.
Construct(t) ==
  /\ pc[t] = "construct"
  /\ LET record == db[KeyOf(current[t])]
     IN IF hits[current[t]].newVisitor \/ record = NoRecord
        THEN Constructed(t, TRUE, Blank)
        ELSE Constructed(t, FALSE, Deserialized(record))
  /\ UNCHANGED faulty

\* LoadVCookie gets an error other than "no such key": it returns false too.
ConstructUnread(t) == /\ pc[t] = "construct" /\ CanFail(t)
                      /\ ~hits[current[t]].newVisitor
                      /\ faulty' = faulty \cup {current[t]}
                      /\ Constructed(t, TRUE, Blank)

Update(t) == /\ pc[t] = "update"
             /\ cookie' = [cookie EXCEPT ![t] = Updated(@, current[t], newCookie[t])]
             /\ modified' = [modified EXCEPT ![t] = TRUE]
             /\ pc' = [pc EXCEPT ![t] = "store"]
             /\ UNCHANGED <<hits, next, count, db, current, newCookie, late, faulty,
                            overlap, exited>>

----------------------------------------------------------------------------
(* The outcomes of SaveVCookie: the write is done; it is refused; it times *)
(* out and may be applied later; or an exception leaves SaveVCookie before *)
(* anything is written.                                                    *)

\* Seeded bug: a write that keeps the record there is (LCB_ADD for LCB_SET).
Saved_AddsOnly(t) ==
  /\ db' = [db EXCEPT ![KeyOf(current[t])] = IF @ = NoRecord THEN Serialized(cookie[t]) ELSE @]
  /\ UNCHANGED <<late, faulty>>

Saved(t) == /\ db' = [db EXCEPT ![KeyOf(current[t])] = Serialized(cookie[t])]
            /\ UNCHANGED <<late, faulty>>

Refused(t) == /\ CanFail(t)
              /\ faulty' = faulty \cup {current[t]}
              /\ UNCHANGED <<db, late>>

TimedOut(t) == /\ CanFail(t)
               /\ faulty' = faulty \cup {current[t]}
               /\ late' = late \cup {[key |-> KeyOf(current[t]), record |-> Serialized(cookie[t])]}
               /\ UNCHANGED db

\* SaveVCookie returns, with true or false.
Returned(t) == Saved(t) \/ Refused(t) \/ TimedOut(t)

Threw(t) == Refused(t)

\* VCookie::Store: only an exception keeps the flag.  The worker does not
\* look at the result.
Store(t) == /\ pc[t] = "store"
            /\ \/ Returned(t) /\ modified' = [modified EXCEPT ![t] = FALSE]
               \/ Threw(t) /\ UNCHANGED modified
            /\ pc' = [pc EXCEPT ![t] = "destroy"]
            /\ UNCHANGED <<hits, next, count, current, cookie, newCookie, overlap, exited>>

\* VCookie::~VCookie: a cookie still modified is stored once more.  Then
\* the cookie is gone, whatever came of it.
Destroy(t) == /\ pc[t] = "destroy"
              /\ IF modified[t] THEN Returned(t) \/ Threw(t)
                                ELSE UNCHANGED <<db, late, faulty>>
              /\ current' = [current EXCEPT ![t] = NoHit]
              /\ count' = [count EXCEPT ![t] = @ + 1]
              /\ cookie' = [cookie EXCEPT ![t] = Blank]
              /\ newCookie' = [newCookie EXCEPT ![t] = FALSE]
              /\ modified' = [modified EXCEPT ![t] = FALSE]
              /\ pc' = [pc EXCEPT ![t] = "idle"]
              /\ UNCHANGED <<hits, next, overlap, exited>>

----------------------------------------------------------------------------
\* A write that timed out is applied after all.
LateWrite == \E w \in late : /\ db' = [db EXCEPT ![w.key] = w.record]
                             /\ late' = late \ {w}
                             /\ UNCHANGED <<hits, next, count, pc, current, cookie,
                                            newCookie, modified, faulty, overlap, exited>>

\* Thread t is inside a call of the store.
InStoreCall(t) == \/ pc[t] = "construct" /\ ~hits[current[t]].newVisitor
                  \/ pc[t] = "store"
                  \/ pc[t] = "destroy" /\ modified[t]

\* error_handler: a fatal error of the connection ends the process.
FatalError(t) == /\ InStoreCall(t) /\ CanFail(t)
                 /\ exited' = TRUE
                 /\ UNCHANGED <<hits, next, count, db, pc, current, cookie, newCookie,
                                modified, late, faulty, overlap>>

Step(t) == \/ Take(t) \/ Stop(t) \/ Construct(t) \/ ConstructUnread(t) \/ Update(t)
           \/ Store(t) \/ Destroy(t) \/ FatalError(t)

Terminated == /\ exited \/ \A t \in Threads : pc[t] = "done"
              /\ UNCHANGED vars

Next == \/ ~exited /\ \E t \in Threads : Step(t)
        \/ LateWrite
        \/ Terminated

Spec == Init /\ [][Next]_vars

----------------------------------------------------------------------------
(* Properties.                                                             *)

Records == {db[k] : k \in Users} \ {NoRecord}

\* Every variable has its type; a cookie has no more purchase ids than fit.
TypeOK ==
  /\ hits \in Replays /\ next \in 1..Len(hits) + 1
  /\ count \in [Threads -> 0..Requests]
  /\ pc \in [Threads -> {"idle", "construct", "update", "store", "destroy", "done"}]
  /\ current \in [Threads -> NoHit..Len(hits)]
  /\ newCookie \in [Threads -> BOOLEAN] /\ modified \in [Threads -> BOOLEAN]
  /\ \A c \in Records \cup {cookie[t] : t \in Threads} \cup {w.record : w \in late} :
        c \in Cookie /\ Len(c.purchaseIds) <= NUM_SAVED_PURCHASE_IDS
  /\ faulty \subseteq 1..Len(hits) /\ exited \in BOOLEAN
  /\ \A pair \in overlap : pair \subseteq 1..Len(hits) /\ Cardinality(pair) = 2

\* The places of log where a purchase was made, and where each id was last.
Purchases(log) == {n \in DOMAIN log : hits[log[n]].purchaseId # NoPurchase}
IdAt(log, n) == hits[log[n]].purchaseId
LastUses(log) ==
  {n \in Purchases(log) : \A m \in Purchases(log) : IdAt(log, m) = IdAt(log, n) => m <= n}

(* A record is what its hits make of it and counts each of them once, even *)
(* if its cookie was stored twice or its write was applied late: the first *)
(* and last hit times and the number of purchases are those of the log,    *)
(* and the saved purchase ids are those used last, in order of their last  *)
(* use, and no more than fit (SetPurchaseId, WorkerThread, Store and       *)
(* ~VCookie).                                                              *)
RecordsFollowTheirHits ==
  TypeOK /\ \A c \in Records :
    LET log == c.log
        ids == c.purchaseIds
        saved == {n \in LastUses(log) : Contains(ids, IdAt(log, n))}
    IN /\ log # <<>> /\ IsInjective(log)
       /\ c.firstHit = hits[log[1]].time /\ c.lastHit = hits[Last(log)].time
       /\ c.lastPurchaseNum = Cardinality(Purchases(log))
       /\ ids = [p \in 1..Cardinality(saved) |->
                   IdAt(log, CHOOSE n \in saved : Cardinality({m \in saved : m <= n}) = p)]
       /\ \A n \in LastUses(log) \ saved :
            Len(ids) = NUM_SAVED_PURCHASE_IDS /\ \A m \in saved : n < m

Finished == {i \in 1..next - 1 : \A t \in Threads : current[t] # i}
InRecord(i) == db[KeyOf(i)] # NoRecord /\ Contains(db[KeyOf(i)].log, i)

(* A hit that was worked through is missing from its record only for one   *)
(* of these reasons: the store failed on it; another hit of the key met a  *)
(* failing store (its cookie began blank, or its write came late), was     *)
(* declared to be of a new visitor, or was worked on at the same time      *)
(* (nothing guards the load, update and save of WorkerThread).             *)
EachLossHasACause ==
  \A i \in Finished :
    \/ InRecord(i)
    \/ i \in faulty
    \/ \E j \in 1..next - 1 : /\ j # i /\ KeyOf(j) = KeyOf(i)
                              /\ \/ j \in faulty
                                 \/ hits[j].newVisitor
                                 \/ {i, j} \in overlap

----------------------------------------------------------------------------
(* A statement of a comment that the code does not keep.                   *)

(* "The key would be the userid/visid" (src/abstraction/vcookiestore.h):   *)
(* a record has the hits of one visitor.                                   *)
RecordOfOneVisitor ==
  \A c \in Records : \A n, m \in DOMAIN c.log : hits[c.log[n]].visitor = hits[c.log[m]].visitor

----------------------------------------------------------------------------
\* Hits whose cookie is being worked on and not yet saved.
Underway == {t \in Threads : pc[t] \in {"construct", "update", "store"}}

(* One worker whose store does not fail, replaying hits of visitors not    *)
(* declared new, records every hit, in order.                              *)
Log == INSTANCE ProfileLog WITH
         Keys <- Users,
         keyOf <- [i \in 1..Len(hits) |-> KeyOf(i)],
         recorded <- next - 1 - Cardinality(Underway),
         profile <- [k \in Users |-> IF db[k] = NoRecord THEN <<>> ELSE db[k].log]
ImplementsProfileLog == Log!Spec
=============================================================================
