---------------------------- MODULE CouchbaseBulk ----------------------------
(***************************************************************************)
(* The bulk operations of VCCouchbaseStore (src/VCCouchbaseStore.cc) next  *)
(* to its single ones, on one connection, and the cookies they work on.    *)
(*                                                                         *)
(* A bulk call makes the connection asynchronous and exchanges a callback, *)
(* sends its requests, and waits in lcb_wait while responses arrive in any *)
(* order; then it sets the connection back.  Each callback takes the       *)
(* cookie pointer of its request for a structure of its own kind.          *)
(***************************************************************************)
EXTENDS Serialization, TLC

CONSTANTS Users,        \* the userids: the keys of the bucket
          Batches,      \* the userids of the cookies in work, in order
          SavedBefore,  \* cookies that were saved by others
          Buckets,      \* what the bucket may hold at first
          HitTimes,     \* times of hits
          NoRecord,     \* there is no record for a key
          Garbage,      \* a key that no cookie has
          MaxCalls      \* bound: calls, apart from making cookies

ASSUME BulkAssumption ==
  /\ Users \subseteq Nat \ {0} /\ Garbage \notin Users /\ MaxCalls \in Nat
  /\ HitTimes \subseteq Nat /\ Batches \subseteq Seq(Users) /\ SavedBefore \subseteq Cookie

\* The first-hit referrer tells whose cookie it is.
FirstHitReferrer == 6
Mark(u) == 100 + u
Marks(u) == {0, Mark(u)}

\* What this version or a later one wrote of a cookie.
RecordsOf(c) == {Serialize(c, TRUE), SerializeLater(c, <<>>, VC_SERIAL_VERSION + 1)}

\* A record may have come incomplete into the bucket, but it is of a cookie of
\* its own visitor.
ASSUME BucketsAssumption ==
  \A b \in Buckets :
    /\ b \in [Users -> Seq(Nat) \cup {NoRecord}]
    /\ \A u \in Users : b[u] = NoRecord \/
         \E c \in SavedBefore : c.field[FirstHitReferrer] \in Marks(u) /\ \E r \in RecordsOf(c) : IsPrefix(b[u], r)

VARIABLES users,        \* userid of each cookie
          bucket,       \* a buffer for each key, or NoRecord
          cookies,      \* the cookies that are made, in order
          connection,   \* mode and callbacks of the lcb_t
          pc,           \* what the program does: "idle", "get", "store", or "aborted"
          pending,      \* requests without a response, oldest first
          calls,        \* how many calls were made
          reports,      \* history: the callbacks of a bulk load, in order
          before,       \* history: what the cookies had in them when it began
          dangling,     \* history: a key was not its own when lcb_get read it
          misread,      \* history: a callback took its pointer for another kind
          refused       \* history: the store refused a request

bulkVars == <<users, bucket, cookies, connection, pc, pending, calls, reports, before, dangling,
          misread, refused>>

Ordinary == [mode |-> "SYNCHRONOUS", get |-> "get_handler", store |-> "store_handler"]

Ids == DOMAIN cookies

\* bulk_cookie::objects after all cookies of the batch are entered.
Object(u) == Max({c \in Ids : users[c] = u})

\* Deserialize, as the store calls it: its result is not looked at, and the
\* setters leave the cookie modified.
Fill(c, buffer) ==
  [cookies EXCEPT ![c] = [content |-> Deserialize(@.content, buffer).cookie, modified |-> TRUE]]

----------------------------------------------------------------------------
BulkInit ==
  /\ users \in Batches /\ bucket \in Buckets
  /\ cookies = <<>> /\ connection = Ordinary /\ pc = "idle" /\ pending = <<>>
  /\ calls = 0 /\ reports = <<>> /\ before = <<>>
  /\ dangling = FALSE /\ misread = FALSE /\ refused = FALSE

\* A response to a request that takes its pointer for kind.
Handled(handler, kind) == misread' = (misread \/ handler # kind)

\* VCookie::VCookie: LoadVCookie if the visitor is not declared new; it may
\* fail although there is a record.
MakeCookie(newVisitor, answered) ==
  /\ pc = "idle" /\ Len(cookies) < Len(users)
  /\ LET record == bucket[users[Len(cookies) + 1]]
     IN cookies' = Append(cookies,
          [content |-> IF newVisitor \/ ~answered \/ record = NoRecord THEN Blank
                       ELSE Deserialize(Blank, record).cookie,
           modified |-> FALSE])
  /\ IF newVisitor THEN UNCHANGED misread ELSE Handled(connection.get, "get_handler")
  /\ UNCHANGED <<users, bucket, connection, pc, pending, calls, reports, before, dangling, refused>>

\* The next call on the cookies there are.
NextCall == pc = "idle" /\ cookies # <<>> /\ calls < MaxCalls /\ calls' = calls + 1

\* The setters a hit calls.
VisitCookie(c, time) ==
  /\ NextCall
  /\ cookies' = [cookies EXCEPT ![c] =
       [content |-> [@.content EXCEPT !.field[LastHitTime] = time,
                                      !.field[FirstHitReferrer] = Mark(users[c])],
        modified |-> TRUE]]
  /\ UNCHANGED <<users, bucket, connection, pc, pending, reports, before, dangling, misread, refused>>

\* SaveVCookie: the cluster stores the record or refuses it.
SaveRecord(c, done) ==
  /\ bucket' = [bucket EXCEPT ![users[c]] = IF done THEN Serialize(cookies[c].content, TRUE) ELSE @]
  /\ refused' = (refused \/ ~done)
  /\ Handled(connection.store, "store_handler")

\* VCookie::Store, and the destructor of a modified cookie.
StoreCookie(c, done) ==
  /\ NextCall /\ cookies[c].modified
  /\ SaveRecord(c, done)
  /\ cookies' = [cookies EXCEPT ![c].modified = FALSE]
  /\ UNCHANGED <<users, connection, pc, pending, reports, before, dangling>>

\* DeleteVCookie.
Delete(c) ==
  /\ NextCall
  /\ bucket' = [bucket EXCEPT ![users[c]] = NoRecord]
  /\ UNCHANGED <<users, cookies, connection, pc, pending, reports, before, dangling, misread, refused>>

----------------------------------------------------------------------------
(* LoadVCookies *)

\* What lcb_get reads as the keys: each points into a string that is gone.
\* It may still be there, or be overwritten by the last one or by anything.
KeysRead == [Ids -> Users \cup {Garbage}]
ReadableKey(c, key) == key \in {users[c], users[Len(cookies)], Garbage}

BeginLoad ==
  /\ NextCall
  /\ connection' = [connection EXCEPT !.mode = "ASYNCHRONOUS", !.get = "bulk_get_handler"]
  /\ \E keys \in KeysRead :
       /\ \A c \in Ids : ReadableKey(c, keys[c])
       /\ pending' = [c \in Ids |-> [cookie |-> c, key |-> keys[c]]]
       /\ dangling' = \E c \in Ids : keys[c] # users[c]
  /\ reports' = <<>> /\ before' = [c \in Ids |-> cookies[c].content]
  /\ pc' = "get"
  /\ UNCHANGED <<users, bucket, cookies, misread, refused>>

\* Seeded bug: the cookie of the request is taken, whatever key comes back.
BulkGet_ByRequest(i, answered) ==
  LET c == pending[i].cookie
      key == pending[i].key
      found == answered /\ key # Garbage /\ bucket[key] # NoRecord
  IN /\ IF found THEN cookies' = Fill(c, bucket[key]) ELSE UNCHANGED cookies
     /\ reports' = Append(reports, [cookie |-> c, success |-> found])
     /\ UNCHANGED pc

\* Seeded bug: only what was found is reported.
BulkGet_SilentMiss(i, answered) ==
  LET key == pending[i].key
      found == answered /\ key # Garbage /\ bucket[key] # NoRecord
  IN /\ IF found THEN /\ cookies' = Fill(Object(key), bucket[key])
                      /\ reports' = Append(reports, [cookie |-> Object(key), success |-> TRUE])
                 ELSE UNCHANGED <<cookies, reports>>
     /\ UNCHANGED pc

\* Seeded bug: success is reported for an error of a record that exists.
BulkGet_AnyIsSuccess(i, answered) ==
  LET key == pending[i].key
  IN IF key = Garbage
     THEN pc' = "aborted" /\ UNCHANGED <<cookies, reports>>
     ELSE /\ IF answered /\ bucket[key] # NoRecord THEN cookies' = Fill(Object(key), bucket[key])
                                                  ELSE UNCHANGED cookies
          /\ reports' = Append(reports, [cookie |-> Object(key), success |-> bucket[key] # NoRecord])
          /\ UNCHANGED pc

\* bulk_get_handler: the cookie is looked up by the key of the response; a
\* key that none has fails the assertion.
BulkGet(i, answered) ==
  LET key == pending[i].key
      found == answered /\ bucket[key] # NoRecord
  IN IF key = Garbage
     THEN pc' = "aborted" /\ UNCHANGED <<cookies, reports>>
     ELSE /\ IF found THEN cookies' = Fill(Object(key), bucket[key]) ELSE UNCHANGED cookies
          /\ reports' = Append(reports, [cookie |-> Object(key), success |-> found])
          /\ UNCHANGED pc

GetResponse(i, answered) ==
  /\ pc = "get"
  /\ BulkGet(i, answered)
  /\ pending' = RemoveAt(pending, i)
  /\ Handled(connection.get, "bulk_get_handler")
  /\ UNCHANGED <<users, bucket, connection, calls, before, dangling, refused>>

\* Seeded bug: the callback stays.
EndLoad_KeepsCallback ==
  /\ pc = "get" /\ pending = <<>>
  /\ connection' = [connection EXCEPT !.mode = "SYNCHRONOUS"]
  /\ pc' = "idle"
  /\ UNCHANGED <<users, bucket, cookies, pending, calls, reports, before, dangling, misread, refused>>

EndLoad ==
  /\ pc = "get" /\ pending = <<>>
  /\ connection' = [connection EXCEPT !.mode = "SYNCHRONOUS", !.get = "get_handler"]
  /\ pc' = "idle"
  /\ UNCHANGED <<users, bucket, cookies, pending, calls, reports, before, dangling, misread, refused>>

----------------------------------------------------------------------------
(* SaveVCookies.  The callback of the caller is stored and never called;   *)
(* bulk_store_handler leaves the outcome in a variable that is gone.  The  *)
(* cookies, which it takes as constant, stay modified.                     *)

BeginSave ==
  /\ NextCall
  /\ connection' = [connection EXCEPT !.mode = "ASYNCHRONOUS", !.store = "bulk_store_handler"]
  /\ pending' = [c \in Ids |-> [key |-> users[c], buffer |-> Serialize(cookies[c].content, TRUE)]]
  /\ refused' = FALSE /\ reports' = <<>> /\ before' = <<>> /\ dangling' = FALSE
  /\ pc' = "store"
  /\ UNCHANGED <<users, bucket, cookies, misread>>

\* Requests for one key are answered in their order.
MayAnswer(i) == \A j \in 1..i - 1 : pending[j].key # pending[i].key

StoreResponse(i, done) ==
  /\ pc = "store" /\ MayAnswer(i)
  /\ bucket' = [bucket EXCEPT ![pending[i].key] = IF done THEN pending[i].buffer ELSE @]
  /\ refused' = (refused \/ ~done)
  /\ pending' = RemoveAt(pending, i)
  /\ Handled(connection.store, "bulk_store_handler")
  /\ UNCHANGED <<users, cookies, connection, pc, calls, reports, before, dangling>>

\* Seeded bug: the call returns without waiting for the responses.
EndSave_NoWait ==
  /\ pc = "store" /\ Len(pending) <= 1
  /\ connection' = Ordinary
  /\ pc' = "idle" /\ pending' = <<>>
  /\ UNCHANGED <<users, bucket, cookies, calls, reports, before, dangling, misread, refused>>

EndSave ==
  /\ pc = "store" /\ pending = <<>>
  /\ connection' = [connection EXCEPT !.mode = "SYNCHRONOUS", !.store = "store_handler"]
  /\ pc' = "idle"
  /\ UNCHANGED <<users, bucket, cookies, pending, calls, reports, before, dangling, misread, refused>>

----------------------------------------------------------------------------
BulkDone == /\ pc = "aborted" \/ (pc = "idle" /\ calls = MaxCalls /\ Len(cookies) = Len(users))
            /\ UNCHANGED bulkVars

BulkNext == \/ \E newVisitor, answered \in BOOLEAN : MakeCookie(newVisitor, answered)
            \/ \E c \in Ids : \/ \E time \in HitTimes : VisitCookie(c, time)
                              \/ \E done \in BOOLEAN : StoreCookie(c, done)
                              \/ Delete(c)
            \/ BeginLoad \/ EndLoad \/ BeginSave \/ EndSave
            \/ \E i \in DOMAIN pending, yes \in BOOLEAN : GetResponse(i, yes) \/ StoreResponse(i, yes)
            \/ BulkDone

BulkSpec == BulkInit /\ [][BulkNext]_bulkVars

----------------------------------------------------------------------------
(* Properties *)

\* Every variable has its type.
BulkTypeOK ==
  /\ \A c \in Ids : cookies[c].content \in Cookie /\ cookies[c].modified \in BOOLEAN
  /\ users \in Batches /\ Len(cookies) <= Len(users) /\ calls \in 0..MaxCalls
  /\ pc \in {"idle", "get", "store", "aborted"} /\ Len(pending) <= Len(users)
  /\ DOMAIN bucket = Users
  /\ \A n \in DOMAIN reports : reports[n].cookie \in Ids

(* No response is handled by a callback that takes the pointer of its      *)
(* request for a structure of another kind, whatever the order of single   *)
(* and bulk calls: get_cookie, bulk_cookie and bool are told apart by the  *)
(* callback that is set when the response comes (VCCouchbaseStore.cc).     *)
HandlersFit == BulkTypeOK /\ ~misread

(* Whichever string the keys of the batch point into when they are read,   *)
(* no cookie gets a record of another visitor, nor does a record get       *)
(* anything of another visitor's cookie; at worst the program aborts.      *)
NoMixUp ==
  /\ \A c \in Ids : cookies[c].content.field[FirstHitReferrer] \in Marks(users[c])
  /\ \A u \in Users : bucket[u] # NoRecord =>
       Deserialize(Blank, bucket[u]).cookie.field[FirstHitReferrer] \in Marks(u)

(* Whatever keys are read and however the responses come, a bulk load that *)
(* ends has called back once for each request, never with success for a    *)
(* cookie without a record, and has told of every cookie it changed        *)
(* (VCCouchbaseStore.cc:165-254).  That is less than the promised "call    *)
(* for each cookie to track the status of each individual cookie"          *)
(* (vcookiestore.h:38-39): the cookie is found by the key, so an earlier   *)
(* one of a visitor is neither loaded nor told of.                         *)
ReportsTellTheLoad ==
  [][EndLoad =>
       /\ Len(reports) = Len(cookies)
       /\ \A n \in DOMAIN reports :
            reports[n].success => bucket[users[reports[n].cookie]] # NoRecord
       /\ \A c \in Ids : cookies[c].content # before[c] =>
            \E n \in DOMAIN reports : reports[n].cookie = c /\ reports[n].success]_bulkVars

CookiesOf(u) == {c \in Ids : users[c] = u}
Record(c) == Deserialize(Blank, bucket[users[c]])

(* A cookie reported as loaded from a record that can be read has the      *)
(* fields of the record, and its purchase ids and variables end with those *)
(* of the record.  It is exactly the record if the cookie was blank, the   *)
(* only one of its visitor, and the keys were still there; else it may     *)
(* have been filled twice (VCCouchbaseStore.cc:186-204).                   *)
LoadedHasItsRecord ==
  [][EndLoad =>
       \A n \in DOMAIN reports :
         LET c == reports[n].cookie
             has == cookies[c].content
         IN reports[n].success /\ Record(c).ok =>
              /\ \A f \in Fields : Record(c).cookie.field[f] \in {0, has.field[f]}
              /\ IsSuffix(Record(c).cookie.purchaseIds, has.purchaseIds)
              /\ \A r \in RelationIds : IsSuffix(Record(c).cookie.vals[r], has.vals[r])
              /\ before[c] = Blank /\ CookiesOf(users[c]) = {c} /\ ~dangling
                   => has = Record(c).cookie]_bulkVars

(* A bulk save of which no request is refused leaves for each visitor the  *)
(* last of its cookies, however the responses come.                        *)
LastCookieIsSaved ==
  [][EndSave /\ ~refused =>
       \A c \in Ids : bucket[users[c]] = Serialize(cookies[Object(users[c])].content, TRUE)]_bulkVars
=============================================================================
