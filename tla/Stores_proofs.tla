---------------------------- MODULE Stores_proofs ----------------------------
(***************************************************************************)
(* Proofs about CouchbaseBulk and InMemoryStore.                           *)
(***************************************************************************)
EXTENDS RecordLife_proofs, CouchbaseBulk, InMemoryStore

----------------------------------------------------------------------------
(* Records and cookies of one visitor *)

\* A cookie that has the mark of u or none.
CookieOf(content, u) == content \in Cookie /\ content.field[FirstHitReferrer] \in Marks(u)

\* The start of a record of such a cookie.
RecordOfUser(items, u) ==
  /\ items \in Seq(Nat)
  /\ \E s : CookieOf(s, u) /\ \E record \in RecordsOf(s) : IsStartOf(items, record)

\* The record of this version, and of the later one that it cannot read.
LEMMA RecordsLaidOut ==
  ASSUME NEW s \in Cookie, NEW record \in RecordsOf(s)
  PROVE  \E compatible \in {0, 1} :
           IsLaidOut(record, compatible, Given(s, TRUE), s.purchaseIds, Written_vals(s))
<1> DEFINE none == <<>>
<1>1. none \in Seq(Nat) /\ (none # <<>> => Head(none) > PurchaseIdList)
  BY EmptySeq
<1>2. CASE record = Serialize(s, TRUE)
  <2>1. IsLaidOut(Serialize(s, TRUE), 0, Given(s, TRUE), s.purchaseIds, Written_vals(s))
    BY SerializeLaidOut
  <2> QED BY <2>1, <1>2
<1>3. CASE record = SerializeLater(s, none, 1)
  <2> HIDE DEF none
  <2>1. IsLaidOut(SerializeLater(s, none, 1), 1, Given(s, TRUE), s.purchaseIds, Written_vals(s))
    BY <1>1, LaterLaidOut
  <2> QED BY <2>1, <1>3
<1>4. record = Serialize(s, TRUE) \/ record = SerializeLater(s, none, 1)
  <2>1. VC_SERIAL_VERSION + 1 = 1
    BY DEF VC_SERIAL_VERSION
  <2> QED BY <2>1, Zenon DEF RecordsOf
<1> QED BY <1>2, <1>3, <1>4

\* A list that is a prefix starts as the longer one.
LEMMA PrefixIsStart ==
  ASSUME NEW items \in Seq(Nat), NEW record \in Seq(Nat), IsPrefix(items, record)
  PROVE  IsStartOf(items, record)
<1>1. Len(items) \in Nat /\ Len(record) \in Nat
  BY LenProperties
<1>2. Len(items) <= Len(record) /\ SubSeq(items, 1, Len(items)) = SubSeq(record, 1, Len(items))
  BY DEF IsPrefix
<1>3. ASSUME NEW i \in 1..Len(items) PROVE items[i] = record[i]
  <2>1. \A j \in 1..Len(items) : items[j] \in Nat /\ record[j] \in Nat
    BY <1>1, <1>2, ElementOfSeq
  <2>2. SubSeq(items, 1, Len(items))[i] = items[1 + i - 1] /\ SubSeq(record, 1, Len(items))[i] = record[1 + i - 1]
    BY <2>1, <1>1, SubSeqProperties
  <2> QED BY <2>2, <1>1, <1>2
<1> QED BY <1>2, <1>3 DEF IsStartOf

\* Whatever cookie of u a record of u, or its start, is read into, it stays one
\* of u.
LEMMA OwnRecordRead ==
  ASSUME NEW u, NEW items, RecordOfUser(items, u), NEW old, CookieOf(old, u)
  PROVE  CookieOf(Deserialize(old, items).cookie, u)
<1> DEFINE result == Deserialize(old, items)
<1>1. PICK s : CookieOf(s, u) /\ \E record \in RecordsOf(s) : IsStartOf(items, record)
  BY DEF RecordOfUser
<1>2. PICK record \in RecordsOf(s) : IsStartOf(items, record)
  BY <1>1
<1>3. s \in Cookie /\ old \in Cookie /\ items \in Seq(Nat)
  BY <1>1 DEF CookieOf, RecordOfUser
<1>4. PICK compatible \in {0, 1} :
        IsLaidOut(record, compatible, Given(s, TRUE), s.purchaseIds, Written_vals(s))
  BY <1>2, <1>3, RecordsLaidOut
<1> HIDE DEF result
<1>5. ReadAs(compatible, Given(s, TRUE), s.purchaseIds, Written_vals(s), old, items, record, result)
  BY <1>2, <1>3, <1>4, WrittenFacts, LayoutRead DEF result
<1>6. CASE compatible # 0
  BY <1>5, <1>6 DEF ReadAs, result
<1>7. CASE compatible = 0
  <2>1. IsFilled(items, record, old, Given(s, TRUE), s.purchaseIds, Written_vals(s), result.cookie, result.ok)
    BY <1>5, <1>7 DEF ReadAs
  <2>2. FirstHitReferrer \in Fields
    BY DEF FirstHitReferrer, Fields
  <2>3. /\ result.cookie \in Cookie
        /\ \/ result.cookie.field[FirstHitReferrer] = old.field[FirstHitReferrer]
           \/ result.cookie.field[FirstHitReferrer] = Given(s, TRUE)[FirstHitReferrer]
    BY <2>1, <2>2 DEF IsFilled
  <2>4. Given(s, TRUE)[FirstHitReferrer] = s.field[FirstHitReferrer]
    BY <2>2 DEF Given, FirstHitReferrer, Getter, LastHitTime
  <2> QED BY <2>3, <2>4, <1>1 DEF CookieOf, result
<1> QED BY <1>6, <1>7

\* A whole record of this version is one of u.
LEMMA OwnRecordWritten ==
  ASSUME NEW u, NEW content, CookieOf(content, u)
  PROVE  RecordOfUser(Serialize(content, TRUE), u)
<1> DEFINE record == Serialize(content, TRUE)
<1>1. record \in RecordsOf(content)
  BY DEF RecordsOf
<1>2. content \in Cookie
  BY DEF CookieOf
<1>3. IsLaidOut(record, 0, Given(content, TRUE), content.purchaseIds, Written_vals(content))
  BY <1>2, SerializeLaidOut
<1> HIDE DEF record
<1>4. record \in Seq(Nat) /\ Len(record) \in Nat
  BY <1>3, LenProperties DEF IsLaidOut
<1>5. IsStartOf(record, record)
  BY <1>4 DEF IsStartOf
<1> QED BY <1>1, <1>4, <1>5 DEF RecordOfUser, record

\* A blank cookie is anybody's.
LEMMA BlankIsAnybodys ==
  ASSUME NEW u
  PROVE  CookieOf(Blank, u)
BY BlankFacts DEF CookieOf, Marks, FirstHitReferrer, Fields

----------------------------------------------------------------------------
(* The inductive invariant of CouchbaseBulk *)

\* A cookie of a batch, and the three parts of the state that its calls change.
CookieState == [content : Cookie, modified : BOOLEAN]

\* Each cookie is one of the visitor it was made for.
CookiesInv ==
  /\ users \in Batches /\ users \in Seq(Users)
  /\ cookies \in Seq(CookieState) /\ Len(cookies) <= Len(users)
  /\ \A c \in Ids : CookieOf(cookies[c].content, users[c])

\* Each record is one, or the beginning of one, of the visitor under whose key it is.
BucketInv ==
  /\ bucket \in [Users -> Seq(Nat) \cup {NoRecord}]
  /\ \A u \in Users : bucket[u] = NoRecord \/ RecordOfUser(bucket[u], u)

\* What the connection is set to while the program is at pc: the callback
\* that a response meets is the one its request was made for.
ConnectionAt(at) ==
  CASE at = "get" -> [mode |-> "ASYNCHRONOUS", get |-> "bulk_get_handler", store |-> "store_handler"]
    [] at = "store" -> [mode |-> "ASYNCHRONOUS", get |-> "get_handler", store |-> "bulk_store_handler"]
    [] OTHER -> Ordinary

ConnectionInv ==
  /\ pc \in {"idle", "get", "store", "aborted"}
  /\ pc # "aborted" => connection = ConnectionAt(pc)
  /\ ~misread

\* An interval from 1 tells its length.
LEMMA SameInterval == ASSUME NEW m \in Nat, NEW n \in Nat, 1..m = 1..n PROVE m = n
<1>1. ASSUME m < n PROVE FALSE
  <2>1. n \in 1..n /\ n \notin 1..m
    BY <1>1
  <2> QED BY <2>1
<1>2. ASSUME n < m PROVE FALSE
  <2>1. m \in 1..m /\ m \notin 1..n
    BY <1>2
  <2> QED BY <2>1
<1> QED BY <1>1, <1>2

\* What a bulk load and a bulk save ask of the cluster.
GetRequest == [cookie : Ids, key : Users \cup {Garbage}]
StoreRequest == [key : Users, buffer : Seq(Nat)]

\* The requests of a bulk load ask for keys that some cookie has, or for none;
\* those of a bulk save have a record of the visitor under whose key it goes.
PendingInv ==
  /\ pc = "idle" => pending = <<>>
  /\ pc = "get" =>
       /\ pending \in Seq(GetRequest)
       /\ \A i \in DOMAIN pending : pending[i].key # Garbage => \E c \in Ids : users[c] = pending[i].key
  /\ pc = "store" =>
       /\ pending \in Seq(StoreRequest)
       /\ \A i \in DOMAIN pending : RecordOfUser(pending[i].buffer, pending[i].key)
  /\ Len(pending) <= Len(users)

\* What the callback of the program is told.
Report == [cookie : Ids, success : BOOLEAN]

\* Calls are counted, and reports are about cookies of the batch.
HistoryInv == calls \in 0..MaxCalls /\ reports \in Seq(Report)

\* What holds in every state of the store.
BulkInv == CookiesInv /\ BucketInv /\ ConnectionInv /\ PendingInv /\ HistoryInv

\* The last cookie of a visitor is one of that visitor.
LEMMA ObjectFacts ==
  ASSUME CookiesInv, NEW c \in Ids
  PROVE  /\ Object(users[c]) \in Ids /\ users[Object(users[c])] = users[c]
         /\ \A d \in Ids : users[d] = users[c] => d <= Object(users[c])
<1> DEFINE mine == {d \in Ids : users[d] = users[c]}
<1>1. Ids = 1..Len(cookies) /\ Len(cookies) \in Nat
  BY LenProperties DEF CookiesInv, Ids
<1>2. mine \in SUBSET (1..Len(cookies)) /\ mine # {}
  BY <1>1
<1> HIDE DEF mine
<1>3. Max(mine) \in mine /\ \A x \in mine : x <= Max(mine)
  BY <1>1, <1>2, MaxFacts
<1>4. Object(users[c]) = Max(mine)
  BY DEF Object, mine
<1> QED BY <1>3, <1>4 DEF mine

\* Ids, and who they belong to.
LEMMA IdsFacts ==
  ASSUME CookiesInv
  PROVE  /\ Ids = 1..Len(cookies) /\ Len(cookies) \in Nat /\ Len(users) \in Nat
         /\ \A c \in Ids : /\ c \in 1..Len(users) /\ users[c] \in Users /\ cookies[c] \in CookieState
                           /\ cookies[c].content \in Cookie /\ cookies[c].modified \in BOOLEAN
<1>1. Ids = 1..Len(cookies) /\ Len(cookies) \in Nat /\ Len(users) \in Nat /\ Len(cookies) <= Len(users)
  BY LenProperties DEF CookiesInv, Ids
<1>2. ASSUME NEW c \in Ids
      PROVE  c \in 1..Len(users) /\ users[c] \in Users /\ cookies[c] \in CookieState
  <2>1. c \in 1..Len(users) /\ c \in 1..Len(cookies)
    BY <1>1
  <2> QED BY <2>1, ElementOfSeq DEF CookiesInv
<1> QED BY <1>1, <1>2 DEF CookieState

\* A sequence in which one element is another.
LEMMA SeqUpdated ==
  ASSUME NEW S, NEW s \in Seq(S), NEW i \in 1..Len(s), NEW e \in S, NEW t, t = [s EXCEPT ![i] = e]
  PROVE  /\ t \in Seq(S) /\ Len(t) = Len(s) /\ DOMAIN t = DOMAIN s
         /\ \A j \in 1..Len(s) : t[j] = IF j = i THEN e ELSE s[j]
<1>1. Len(s) \in Nat /\ s \in [1..Len(s) -> S] /\ DOMAIN s = 1..Len(s)
  BY LenProperties
<1>2. t \in [1..Len(s) -> S]
  BY <1>1
<1>3. t \in Seq(S) /\ Len(t) = Len(s)
  BY <1>1, <1>2, FunctionIsSeq
<1> QED BY <1>1, <1>2, <1>3

\* One cookie gets other content.
LEMMA CookieChanged ==
  ASSUME CookiesInv, NEW c \in Ids, NEW new \in CookieState, CookieOf(new.content, users[c]),
         cookies' = [cookies EXCEPT ![c] = new], users' = users
  PROVE  CookiesInv' /\ Ids' = Ids
<1>1. Ids = 1..Len(cookies) /\ cookies \in Seq(CookieState)
  BY IdsFacts DEF CookiesInv
<1>2. /\ cookies' \in Seq(CookieState) /\ Len(cookies') = Len(cookies) /\ DOMAIN cookies' = DOMAIN cookies
      /\ \A d \in Ids : cookies'[d] = IF d = c THEN new ELSE cookies[d]
  BY <1>1, SeqUpdated
<1>3. Ids' = Ids
  BY <1>2 DEF Ids
<1>4. ASSUME NEW d \in Ids PROVE CookieOf(cookies'[d].content, users[d])
  <2>1. CASE d = c
    BY <2>1, <1>2
  <2>2. CASE d # c
    BY <2>2, <1>2 DEF CookiesInv
  <2> QED BY <2>1, <2>2
<1>5. CookiesInv'
  BY <1>2, <1>3, <1>4 DEF CookiesInv, CookieOf
<1> QED BY <1>3, <1>5

\* The invariant holds initially.
LEMMA BulkInvInit == BulkInit => BulkInv
<1> SUFFICES ASSUME BulkInit PROVE BulkInv
  OBVIOUS
<1>1. cookies = <<>> /\ Len(cookies) = 0 /\ Ids = {} /\ users \in Batches /\ users \in Seq(Users) /\ Len(users) \in Nat
  <2>1. users \in Batches /\ users \in Seq(Users)
    BY BulkAssumption DEF BulkInit
  <2>2. cookies = <<>>
    BY DEF BulkInit
  <2> QED BY <2>1, <2>2, LenProperties, EmptySeq DEF Ids
<1>2. CookiesInv
  BY <1>1, EmptySeq DEF CookiesInv
<1>3. BucketInv
  <2>1. bucket \in Buckets
    BY DEF BulkInit
  <2>2. /\ bucket \in [Users -> Seq(Nat) \cup {NoRecord}]
        /\ \A u \in Users : bucket[u] = NoRecord \/
             \E c \in SavedBefore : c.field[FirstHitReferrer] \in Marks(u) /\ \E r \in RecordsOf(c) : IsPrefix(bucket[u], r)
    BY <2>1, BucketsAssumption
  <2>3. ASSUME NEW u \in Users, bucket[u] # NoRecord PROVE RecordOfUser(bucket[u], u)
    <3>1. bucket[u] \in Seq(Nat)
      BY <2>2, <2>3
    <3>2. PICK c \in SavedBefore : /\ c.field[FirstHitReferrer] \in Marks(u)
                                   /\ \E r \in RecordsOf(c) : IsPrefix(bucket[u], r)
      BY <2>2, <2>3
    <3>3. PICK r \in RecordsOf(c) : IsPrefix(bucket[u], r)
      BY <3>2
    <3>4. c \in Cookie
      BY BulkAssumption
    <3>5. r \in Seq(Nat)
      <4>1. \E compatible \in {0, 1} : IsLaidOut(r, compatible, Given(c, TRUE), c.purchaseIds, Written_vals(c))
        BY <3>4, RecordsLaidOut
      <4> QED BY <4>1 DEF IsLaidOut
    <3>6. IsStartOf(bucket[u], r)
      BY <3>1, <3>3, <3>5, PrefixIsStart
    <3> QED BY <3>1, <3>2, <3>4, <3>6 DEF RecordOfUser, CookieOf
  <2> QED BY <2>2, <2>3 DEF BucketInv
<1>4. ConnectionInv
  BY DEF BulkInit, ConnectionInv, ConnectionAt
<1>5. PendingInv
  <2>1. pending = <<>> /\ pc = "idle" /\ Len(pending) = 0
    BY EmptySeq DEF BulkInit
  <2> QED BY <2>1, <1>1 DEF PendingInv
<1>6. HistoryInv
  BY EmptySeq, BulkAssumption DEF BulkInit, HistoryInv
<1> QED BY <1>2, <1>3, <1>4, <1>5, <1>6 DEF BulkInv

\* A record that is there, read into a blank cookie.
LEMMA BulkInvMake ==
  ASSUME BulkInv, NEW newVisitor \in BOOLEAN, NEW answered \in BOOLEAN, MakeCookie(newVisitor, answered)
  PROVE  BulkInv'
<1> DEFINE n == Len(cookies) + 1
           record == bucket[users[n]]
           content == IF newVisitor \/ ~answered \/ record = NoRecord THEN Blank
                      ELSE Deserialize(Blank, record).cookie
           new == [content |-> content, modified |-> FALSE]
<1>1. /\ pc = "idle" /\ Len(cookies) < Len(users)
      /\ cookies' = Append(cookies, new)
      /\ UNCHANGED <<users, bucket, connection, pc, pending, calls, reports, before, dangling, refused>>
  BY DEF MakeCookie
<1>2. CookiesInv /\ BucketInv /\ ConnectionInv /\ PendingInv /\ HistoryInv
  BY DEF BulkInv
<1>3. Ids = 1..Len(cookies) /\ Len(cookies) \in Nat /\ Len(users) \in Nat
  BY <1>2, IdsFacts
<1>4. n \in 1..Len(users) /\ users[n] \in Users
  <2>1. n \in 1..Len(users)
    BY <1>1, <1>3
  <2> QED BY <2>1, <1>2, ElementOfSeq DEF CookiesInv
<1>5. CookieOf(content, users[n])
  <2> HIDE DEF n
  <2>1. CASE newVisitor \/ ~answered \/ record = NoRecord
    BY <2>1, BlankIsAnybodys
  <2>2. CASE ~(newVisitor \/ ~answered \/ record = NoRecord)
    <3>1. RecordOfUser(record, users[n])
      BY <2>2, <1>2, <1>4 DEF BucketInv
    <3>2. CookieOf(Deserialize(Blank, record).cookie, users[n])
      BY <3>1, BlankIsAnybodys, OwnRecordRead
    <3> QED BY <2>2, <3>2
  <2> QED BY <2>1, <2>2
<1> HIDE DEF content
<1>6. new \in CookieState
  BY <1>5 DEF CookieOf, CookieState
<1>7. /\ cookies' \in Seq(CookieState) /\ Len(cookies') = n
      /\ \A d \in 1..Len(cookies) : cookies'[d] = cookies[d]
      /\ cookies'[n] = new
  BY <1>1, <1>2, <1>6, AppendProperties DEF CookiesInv
<1>8. Ids' = 1..n
  BY <1>7, LenProperties DEF Ids
<1>9. CookiesInv'
  <2>1. ASSUME NEW d \in 1..n PROVE CookieOf(cookies'[d].content, users[d])
    <3>1. CASE d = n
      BY <3>1, <1>5, <1>7
    <3>2. CASE d # n
      <4>1. d \in Ids
        BY <3>2, <1>3
      <4> QED BY <4>1, <1>2, <1>3, <1>7 DEF CookiesInv
    <3> QED BY <3>1, <3>2
  <2>2. users' = users /\ n <= Len(users)
    BY <1>1, <1>4
  <2> HIDE DEF n
  <2>3. \A d \in Ids' : CookieOf(cookies'[d].content, users'[d])
    BY <2>1, <2>2, <1>8
  <2>4. users' \in Batches /\ users' \in Seq(Users) /\ Len(cookies') <= Len(users')
    BY <2>2, <1>2, <1>7 DEF CookiesInv
  <2> QED BY <2>3, <2>4, <1>7 DEF CookiesInv, CookieOf
<1>10. BucketInv'
  BY <1>1, <1>2 DEF BucketInv, RecordOfUser
<1>11. ConnectionInv'
  <2>1. connection.get = "get_handler"
    BY <1>1, <1>2 DEF ConnectionInv, ConnectionAt, Ordinary
  <2>2. ~misread'
    BY <2>1, <1>2 DEF MakeCookie, Handled, ConnectionInv
  <2> QED BY <2>2, <1>1, <1>2 DEF ConnectionInv, ConnectionAt
<1>12. PendingInv'
  BY <1>1, <1>2 DEF PendingInv
<1>13. HistoryInv'
  <2>1. Ids \subseteq Ids'
    BY <1>3, <1>8
  <2>2. Report \subseteq Report'
    BY <2>1 DEF Report
  <2>3. reports' \in Seq(Report')
    BY <2>2, <1>1, <1>2, SeqMonotonic DEF HistoryInv
  <2> QED BY <2>1, <2>3, <1>1, <1>2 DEF HistoryInv
<1> QED BY <1>9, <1>10, <1>11, <1>12, <1>13 DEF BulkInv

\* What a call that is not a bulk one leaves of the connection, of the requests
\* and of the history.
LEMMA SingleCall ==
  ASSUME BulkInv, NextCall, Ids' = Ids, ~misread',
         UNCHANGED <<users, connection, pc, pending, reports, before>>
  PROVE  ConnectionInv' /\ PendingInv' /\ HistoryInv'
<1>1. pc = "idle" /\ calls < MaxCalls /\ calls' = calls + 1 /\ ConnectionInv /\ PendingInv /\ HistoryInv
  BY DEF NextCall, BulkInv
<1>2. ConnectionInv'
  BY <1>1 DEF ConnectionInv, ConnectionAt
<1>3. PendingInv'
  BY <1>1 DEF PendingInv
<1>4. HistoryInv'
  <2>1. calls' \in 0..MaxCalls
    BY <1>1, BulkAssumption DEF HistoryInv
  <2>2. Report' = Report
    BY DEF Report
  <2> QED BY <2>1, <2>2, <1>1 DEF HistoryInv
<1> QED BY <1>2, <1>3, <1>4

\* A cookie with other fields is a cookie.
LEMMA FieldsChanged ==
  ASSUME NEW content \in Cookie, NEW field \in [Fields -> Nat],
         NEW new, new = [content EXCEPT !.field = field]
  PROVE  new \in Cookie /\ new.field = field
BY DEF Cookie

\* A hit leaves the cookie with its visitor.
LEMMA BulkInvVisit ==
  ASSUME BulkInv, NEW c \in Ids, NEW time \in HitTimes, VisitCookie(c, time)
  PROVE  BulkInv'
<1> DEFINE old == cookies[c].content
           field == [old.field EXCEPT ![LastHitTime] = time, ![FirstHitReferrer] = Mark(users[c])]
           content == [old EXCEPT !.field = field]
           new == [content |-> content, modified |-> TRUE]
<1>1. CookiesInv /\ BucketInv /\ ConnectionInv
  BY DEF BulkInv
<1>2. /\ old \in Cookie /\ users[c] \in Users /\ cookies[c] \in CookieState /\ c \in DOMAIN cookies
  BY <1>1, IdsFacts DEF Ids
<1>3. old.field \in [Fields -> Nat] /\ time \in Nat /\ Mark(users[c]) \in Nat
  BY <1>2, CookieFacts, BulkAssumption DEF Mark
<1>4. field \in [Fields -> Nat] /\ field[FirstHitReferrer] = Mark(users[c])
  BY <1>3 DEF Fields, FirstHitReferrer, LastHitTime
<1>5. cookies' = [cookies EXCEPT ![c] = new]
  <2>1. cookies' = [cookies EXCEPT ![c] =
                      [content |-> [old EXCEPT !.field[LastHitTime] = time, !.field[FirstHitReferrer] = Mark(users[c])],
                       modified |-> TRUE]]
    BY DEF VisitCookie
  <2>2. [old EXCEPT !.field[LastHitTime] = time, !.field[FirstHitReferrer] = Mark(users[c])] = content
    BY <1>2 DEF Cookie
  <2> QED BY <2>1, <2>2
<1> HIDE DEF field
<1>6. content \in Cookie /\ content.field = field
  BY <1>2, <1>4, FieldsChanged
<1> HIDE DEF content
<1>7. new \in CookieState /\ CookieOf(new.content, users[c])
  BY <1>4, <1>6 DEF CookieState, CookieOf, Marks
<1> HIDE DEF new
<1>8. /\ NextCall
      /\ UNCHANGED <<users, bucket, connection, pc, pending, reports, before, dangling, misread, refused>>
  BY DEF VisitCookie
<1>9. CookiesInv' /\ Ids' = Ids
  BY <1>1, <1>5, <1>7, <1>8, CookieChanged
<1>10. BucketInv'
  BY <1>1, <1>8 DEF BucketInv, RecordOfUser
<1>11. ConnectionInv' /\ PendingInv' /\ HistoryInv'
  <2>1. ~misread'
    BY <1>1, <1>8 DEF ConnectionInv
  <2> QED BY <2>1, <1>8, <1>9, SingleCall
<1> QED BY <1>9, <1>10, <1>11 DEF BulkInv

\* A write under the key of u of a record of u keeps the bucket in order.
LEMMA BucketChanged ==
  ASSUME BucketInv, NEW u \in Users, NEW record, record = NoRecord \/ RecordOfUser(record, u),
         bucket' = [bucket EXCEPT ![u] = record]
  PROVE  BucketInv'
<1>1. bucket \in [Users -> Seq(Nat) \cup {NoRecord}]
  BY DEF BucketInv
<1>2. record \in Seq(Nat) \cup {NoRecord}
  BY DEF RecordOfUser
<1>3. bucket' \in [Users -> Seq(Nat) \cup {NoRecord}] /\ \A v \in Users : bucket'[v] = IF v = u THEN record ELSE bucket[v]
  BY <1>1, <1>2
<1>4. \A v \in Users : bucket'[v] = NoRecord \/ RecordOfUser(bucket'[v], v)
  <2> SUFFICES ASSUME NEW v \in Users PROVE bucket'[v] = NoRecord \/ RecordOfUser(bucket'[v], v)
    OBVIOUS
  <2>1. CASE v = u
    BY <2>1, <1>3
  <2>2. CASE v # u
    BY <2>2, <1>3 DEF BucketInv
  <2> QED BY <2>1, <2>2
<1> QED BY <1>3, <1>4 DEF BucketInv, RecordOfUser

\* A single save writes under the key of the cookie what the cookie is.
LEMMA BulkInvStore ==
  ASSUME BulkInv, NEW c \in Ids, NEW done \in BOOLEAN, StoreCookie(c, done)
  PROVE  BulkInv'
<1> DEFINE new == [cookies[c] EXCEPT !.modified = FALSE]
           record == IF done THEN Serialize(cookies[c].content, TRUE) ELSE bucket[users[c]]
<1>1. CookiesInv /\ BucketInv /\ ConnectionInv
  BY DEF BulkInv
<1>2. users[c] \in Users /\ cookies[c] \in CookieState /\ c \in DOMAIN cookies
  BY <1>1, IdsFacts DEF Ids
<1>3. /\ NextCall
      /\ cookies' = [cookies EXCEPT ![c].modified = FALSE]
      /\ bucket' = [bucket EXCEPT ![users[c]] = record]
      /\ Handled(connection.store, "store_handler")
      /\ UNCHANGED <<users, connection, pc, pending, reports, before, dangling>>
  BY DEF StoreCookie, SaveRecord
<1>4. CookieOf(cookies[c].content, users[c])
  BY <1>1 DEF CookiesInv
<1>5. cookies' = [cookies EXCEPT ![c] = new]
  BY <1>3
<1>6. new \in CookieState /\ CookieOf(new.content, users[c])
  BY <1>2, <1>4 DEF CookieState
<1>7. record = NoRecord \/ RecordOfUser(record, users[c])
  <2>1. CASE done
    BY <2>1, <1>4, OwnRecordWritten
  <2>2. CASE ~done
    BY <2>2, <1>1, <1>2 DEF BucketInv
  <2> QED BY <2>1, <2>2
<1> HIDE DEF new, record
<1>8. CookiesInv' /\ Ids' = Ids
  BY <1>1, <1>3, <1>5, <1>6, CookieChanged
<1>9. BucketInv'
  BY <1>1, <1>2, <1>3, <1>7, BucketChanged
<1>10. ConnectionInv' /\ PendingInv' /\ HistoryInv'
  <2>1. connection.store = "store_handler"
    BY <1>1, <1>3 DEF ConnectionInv, ConnectionAt, Ordinary, NextCall
  <2>2. ~misread'
    BY <2>1, <1>1, <1>3 DEF Handled, ConnectionInv
  <2> QED BY <2>2, <1>3, <1>8, SingleCall
<1> QED BY <1>8, <1>9, <1>10 DEF BulkInv

\* A single deletion leaves no record.
LEMMA BulkInvDelete ==
  ASSUME BulkInv, NEW c \in Ids, Delete(c)
  PROVE  BulkInv'
<1>1. CookiesInv /\ BucketInv /\ ConnectionInv
  BY DEF BulkInv
<1>2. /\ NextCall /\ bucket' = [bucket EXCEPT ![users[c]] = NoRecord]
      /\ UNCHANGED <<users, cookies, connection, pc, pending, reports, before, dangling, misread, refused>>
  BY DEF Delete
<1>3. users[c] \in Users
  BY <1>1, IdsFacts
<1>4. BucketInv'
  BY <1>1, <1>2, <1>3, BucketChanged
<1>5. Ids' = Ids /\ CookiesInv'
  BY <1>1, <1>2 DEF Ids, CookiesInv, CookieOf
<1>6. ConnectionInv' /\ PendingInv' /\ HistoryInv'
  <2>1. ~misread'
    BY <1>1, <1>2 DEF ConnectionInv
  <2> QED BY <2>1, <1>2, <1>5, SingleCall
<1> QED BY <1>4, <1>5, <1>6 DEF BulkInv

\* What the steps of a bulk call leave alone.
LEMMA SameIds ==
  ASSUME BulkInv, UNCHANGED <<users, cookies>>
  PROVE  CookiesInv' /\ Ids' = Ids /\ GetRequest' = GetRequest /\ Report' = Report
BY DEF BulkInv, CookiesInv, CookieOf, Ids, GetRequest, Report

\* The mode and one callback of a connection are changed.
LEMMA ConnectionChanged ==
  ASSUME NEW mode, NEW get, NEW store, NEW a, NEW b, NEW r, r = [mode |-> mode, get |-> get, store |-> store]
  PROVE  /\ [r EXCEPT !.mode = a, !.get = b] = [mode |-> a, get |-> b, store |-> store]
         /\ [r EXCEPT !.mode = a, !.store = b] = [mode |-> a, get |-> get, store |-> b]
<1> DEFINE s == [r EXCEPT !.mode = a]
<1>1. s = [mode |-> a, get |-> get, store |-> store]
  OBVIOUS
<1>2. [r EXCEPT !.mode = a, !.get = b] = [s EXCEPT !.get = b]
  OBVIOUS
<1>3. [r EXCEPT !.mode = a, !.store = b] = [s EXCEPT !.store = b]
  OBVIOUS
<1> HIDE DEF s
<1>4. [s EXCEPT !.get = b] = [mode |-> a, get |-> b, store |-> store]
  BY ONLY <1>1
<1>5. [s EXCEPT !.store = b] = [mode |-> a, get |-> get, store |-> b]
  BY ONLY <1>1
<1> QED BY <1>2, <1>3, <1>4, <1>5

\* The requests of a bulk load have keys of the batch, or whatever the dangling keys give.
LEMMA BulkInvBeginLoad == ASSUME BulkInv, BeginLoad PROVE BulkInv'
<1>1. CookiesInv /\ BucketInv /\ ConnectionInv /\ HistoryInv
  BY DEF BulkInv
<1>2. /\ NextCall /\ pc = "idle" /\ pc' = "get"
      /\ connection' = [connection EXCEPT !.mode = "ASYNCHRONOUS", !.get = "bulk_get_handler"]
      /\ reports' = <<>> /\ before' = [c \in Ids |-> cookies[c].content]
      /\ UNCHANGED <<users, bucket, cookies, misread, refused>>
  BY DEF BeginLoad, NextCall
<1>3. PICK keys \in KeysRead :
        /\ \A c \in Ids : ReadableKey(c, keys[c])
        /\ pending' = [c \in Ids |-> [cookie |-> c, key |-> keys[c]]]
  BY DEF BeginLoad
<1>4. CookiesInv' /\ Ids' = Ids /\ GetRequest' = GetRequest /\ Report' = Report
  BY <1>2, SameIds
<1>5. BucketInv'
  BY <1>1, <1>2 DEF BucketInv, RecordOfUser
<1>6. ConnectionInv'
  <2>1. connection = [mode |-> "SYNCHRONOUS", get |-> "get_handler", store |-> "store_handler"]
    BY <1>1, <1>2 DEF ConnectionInv, ConnectionAt, Ordinary
  <2>2. connection' = [mode |-> "ASYNCHRONOUS", get |-> "bulk_get_handler", store |-> "store_handler"]
    BY <2>1, <1>2, ConnectionChanged
  <2>3. connection' = ConnectionAt("get")
    BY <2>2 DEF ConnectionAt
  <2> QED BY <2>3, <1>1, <1>2 DEF ConnectionInv
<1>7. PendingInv'
  <2>1. Ids = 1..Len(cookies) /\ Len(cookies) \in Nat /\ Len(users) \in Nat /\ Len(cookies) <= Len(users)
    BY <1>1, IdsFacts DEF CookiesInv
  <2>2. keys \in [Ids -> Users \cup {Garbage}]
    BY DEF KeysRead
  <2>3. \A c \in Ids : [cookie |-> c, key |-> keys[c]] \in GetRequest
    BY <2>2 DEF GetRequest
  <2>4. pending' \in [1..Len(cookies) -> GetRequest]
    BY <2>1, <2>3, <1>3
  <2>5. pending' \in Seq(GetRequest) /\ Len(pending') = Len(cookies) /\ DOMAIN pending' = Ids
    BY <2>1, <2>4, FunctionIsSeq
  <2>6. ASSUME NEW i \in Ids, pending'[i].key # Garbage
        PROVE  \E c \in Ids : users[c] = pending'[i].key
    <3>1. pending'[i].key = keys[i]
      BY <1>3
    <3>2. keys[i] \in {users[i], users[Len(cookies)]}
      BY <2>6, <3>1, <1>3 DEF ReadableKey
    <3>3. Len(cookies) \in Ids
      BY <2>1
    <3> QED BY <3>1, <3>2, <3>3
  <2> QED BY <2>1, <2>5, <2>6, <1>2, <1>4 DEF PendingInv
<1>8. HistoryInv'
  <2>1. calls' \in 0..MaxCalls
    BY <1>1, <1>2, BulkAssumption DEF NextCall, HistoryInv
  <2>2. reports' \in Seq(Report')
    BY <1>2, <1>4, EmptySeq
  <2> QED BY <2>1, <2>2 DEF HistoryInv
<1> QED BY <1>4, <1>5, <1>6, <1>7, <1>8 DEF BulkInv

\* A bulk call whose responses have all come ends with the connection as before.
LEMMA BulkInvEnd == ASSUME BulkInv, EndLoad \/ EndSave PROVE BulkInv'
<1>1. CookiesInv /\ BucketInv /\ ConnectionInv /\ PendingInv /\ HistoryInv
  BY DEF BulkInv
<1>2. /\ pc' = "idle" /\ pending = <<>>
      /\ UNCHANGED <<users, bucket, cookies, pending, calls, reports, before, dangling, misread, refused>>
  BY DEF EndLoad, EndSave
<1>3. CookiesInv' /\ Ids' = Ids /\ Report' = Report
  BY <1>2, SameIds
<1>4. BucketInv'
  BY <1>1, <1>2 DEF BucketInv, RecordOfUser
<1>5. connection' = Ordinary
  <2>1. CASE EndLoad
    <3>1. connection = [mode |-> "ASYNCHRONOUS", get |-> "bulk_get_handler", store |-> "store_handler"]
      BY <2>1, <1>1 DEF EndLoad, ConnectionInv, ConnectionAt
    <3>2. connection' = [connection EXCEPT !.mode = "SYNCHRONOUS", !.get = "get_handler"]
      BY <2>1 DEF EndLoad
    <3> QED BY <3>1, <3>2, ConnectionChanged DEF Ordinary
  <2>2. CASE EndSave
    <3>1. connection = [mode |-> "ASYNCHRONOUS", get |-> "get_handler", store |-> "bulk_store_handler"]
      BY <2>2, <1>1 DEF EndSave, ConnectionInv, ConnectionAt
    <3>2. connection' = [connection EXCEPT !.mode = "SYNCHRONOUS", !.store = "store_handler"]
      BY <2>2 DEF EndSave
    <3> QED BY <3>1, <3>2, ConnectionChanged DEF Ordinary
  <2> QED BY <2>1, <2>2
<1>6. ConnectionInv'
  BY <1>1, <1>2, <1>5 DEF ConnectionInv, ConnectionAt
<1>7. PendingInv'
  BY <1>1, <1>2 DEF PendingInv
<1>8. HistoryInv'
  BY <1>1, <1>2, <1>3 DEF HistoryInv
<1> QED BY <1>3, <1>4, <1>6, <1>7, <1>8 DEF BulkInv

\* The requests of a bulk save are the modified cookies, each under its own key.
LEMMA BulkInvBeginSave == ASSUME BulkInv, BeginSave PROVE BulkInv'
<1>1. CookiesInv /\ BucketInv /\ ConnectionInv /\ HistoryInv
  BY DEF BulkInv
<1>2. /\ NextCall /\ pc = "idle" /\ pc' = "store"
      /\ connection' = [connection EXCEPT !.mode = "ASYNCHRONOUS", !.store = "bulk_store_handler"]
      /\ pending' = [c \in Ids |-> [key |-> users[c], buffer |-> Serialize(cookies[c].content, TRUE)]]
      /\ reports' = <<>> /\ before' = <<>>
      /\ UNCHANGED <<users, bucket, cookies, misread>>
  BY DEF BeginSave, NextCall
<1>3. CookiesInv' /\ Ids' = Ids /\ Report' = Report
  BY <1>2, SameIds
<1>4. BucketInv'
  BY <1>1, <1>2 DEF BucketInv, RecordOfUser
<1>5. ConnectionInv'
  <2>1. connection = [mode |-> "SYNCHRONOUS", get |-> "get_handler", store |-> "store_handler"]
    BY <1>1, <1>2 DEF ConnectionInv, ConnectionAt, Ordinary
  <2>2. connection' = [mode |-> "ASYNCHRONOUS", get |-> "get_handler", store |-> "bulk_store_handler"]
    BY <2>1, <1>2, ConnectionChanged
  <2>3. connection' = ConnectionAt("store")
    BY <2>2 DEF ConnectionAt
  <2> QED BY <2>3, <1>1, <1>2 DEF ConnectionInv
<1>6. PendingInv'
  <2>1. Ids = 1..Len(cookies) /\ Len(cookies) \in Nat /\ Len(users) \in Nat /\ Len(cookies) <= Len(users)
    BY <1>1, IdsFacts DEF CookiesInv
  <2>2. ASSUME NEW c \in Ids
        PROVE  users[c] \in Users /\ RecordOfUser(Serialize(cookies[c].content, TRUE), users[c])
    <3>1. users[c] \in Users /\ CookieOf(cookies[c].content, users[c])
      BY <1>1, IdsFacts DEF CookiesInv
    <3> QED BY <3>1, OwnRecordWritten
  <2>3. \A c \in Ids : [key |-> users[c], buffer |-> Serialize(cookies[c].content, TRUE)] \in StoreRequest
    BY <2>2 DEF RecordOfUser, StoreRequest
  <2>4. pending' \in [1..Len(cookies) -> StoreRequest]
    BY <2>1, <2>3, <1>2
  <2>5. pending' \in Seq(StoreRequest) /\ Len(pending') = Len(cookies) /\ DOMAIN pending' = Ids
    BY <2>1, <2>4, FunctionIsSeq
  <2>6. ASSUME NEW i \in Ids PROVE RecordOfUser(pending'[i].buffer, pending'[i].key)
    <3>1. pending'[i] = [key |-> users[i], buffer |-> Serialize(cookies[i].content, TRUE)]
      BY <1>2
    <3>2. pending'[i].key = users[i] /\ pending'[i].buffer = Serialize(cookies[i].content, TRUE)
      BY <3>1
    <3> QED BY <2>2, <3>2
  <2>7. StoreRequest' = StoreRequest /\ \A x, y : RecordOfUser(x, y)' <=> RecordOfUser(x, y)
    BY DEF StoreRequest, RecordOfUser
  <2> QED BY <2>1, <2>5, <2>6, <2>7, <1>2 DEF PendingInv
<1>7. HistoryInv'
  <2>1. calls' \in 0..MaxCalls
    BY <1>1, <1>2, BulkAssumption DEF NextCall, HistoryInv
  <2>2. reports' \in Seq(Report')
    BY <1>2, <1>3, EmptySeq
  <2> QED BY <2>1, <2>2 DEF HistoryInv
<1> QED BY <1>3, <1>4, <1>5, <1>6, <1>7 DEF BulkInv

\* A response to a bulk load: one request less, and the last cookie of the key
\* filled from a record of its own visitor.
LEMMA BulkInvGet ==
  ASSUME BulkInv, NEW i \in DOMAIN pending, NEW answered \in BOOLEAN, GetResponse(i, answered)
  PROVE  BulkInv'
<1> DEFINE key == pending[i].key
           found == answered /\ bucket[key] # NoRecord
           object == Object(key)
           new == [content |-> Deserialize(cookies[object].content, bucket[key]).cookie, modified |-> TRUE]
<1>1. CookiesInv /\ BucketInv /\ ConnectionInv /\ PendingInv /\ HistoryInv
  BY DEF BulkInv
<1>2. /\ pc = "get" /\ pending' = RemoveAt(pending, i) /\ BulkGet(i, answered)
      /\ Handled(connection.get, "bulk_get_handler")
      /\ UNCHANGED <<users, bucket, connection, calls, before, dangling, refused>>
  BY DEF GetResponse
<1>3. /\ pending \in Seq(GetRequest) /\ i \in 1..Len(pending) /\ DOMAIN pending = 1..Len(pending)
      /\ Len(pending) \in Nat
  BY <1>1, <1>2, LenProperties DEF PendingInv
<1>4. /\ pending' \in Seq(GetRequest) /\ Len(pending') = Len(pending) - 1
      /\ \A j \in 1..Len(pending') : pending'[j] = IF j < i THEN pending[j] ELSE pending[j + 1]
  BY <1>2, <1>3, RemoveAtFacts
<1>5. BucketInv'
  BY <1>1, <1>2 DEF BucketInv, RecordOfUser
<1>6. ~misread'
  <2>1. connection.get = "bulk_get_handler"
    BY <1>1, <1>2 DEF ConnectionInv, ConnectionAt
  <2> QED BY <2>1, <1>1, <1>2 DEF Handled, ConnectionInv
<1>7. ASSUME Ids' = Ids, pc' \in {"get", "aborted"} PROVE ConnectionInv' /\ PendingInv'
  <2>1. ConnectionInv'
    BY <1>1, <1>2, <1>6, <1>7 DEF ConnectionInv, ConnectionAt
  <2>2. Len(pending') <= Len(users')
    <3>1. Len(users) \in Nat /\ Len(pending) <= Len(users)
      BY <1>1, IdsFacts DEF PendingInv
    <3> QED BY <3>1, <1>2, <1>3, <1>4
  <2>3. ASSUME NEW j \in DOMAIN pending', pending'[j].key # Garbage
        PROVE  \E c \in Ids : users[c] = pending'[j].key
    <3>1. j \in 1..Len(pending')
      BY <1>4, LenProperties
    <3>2. PICK k \in 1..Len(pending) : pending'[j] = pending[k]
      BY <3>1, <1>3, <1>4
    <3> QED BY <2>3, <3>2, <1>1, <1>2, <1>3 DEF PendingInv
  <2>4. GetRequest' = GetRequest
    BY <1>7 DEF GetRequest
  <2>5. PendingInv'
    BY <2>2, <2>3, <2>4, <1>2, <1>4, <1>7 DEF PendingInv
  <2> QED BY <2>1, <2>5
<1>8. CASE key = Garbage
  <2>1. pc' = "aborted" /\ UNCHANGED <<cookies, reports>>
    BY <1>2, <1>8 DEF BulkGet
  <2>2. CookiesInv' /\ Ids' = Ids /\ Report' = Report
    BY <2>1, <1>2, SameIds
  <2>3. HistoryInv'
    BY <2>1, <2>2, <1>1, <1>2 DEF HistoryInv
  <2> QED BY <2>1, <2>2, <2>3, <1>5, <1>7 DEF BulkInv
<1>9. CASE key # Garbage
  <2>1. /\ IF found THEN cookies' = [cookies EXCEPT ![object] = new] ELSE UNCHANGED cookies
        /\ reports' = Append(reports, [cookie |-> object, success |-> found])
        /\ pc' = pc
    BY <1>2, <1>9 DEF BulkGet, Fill
  <2>2. PICK c \in Ids : users[c] = key
    BY <1>1, <1>2, <1>9 DEF PendingInv
  <2>3. object \in Ids /\ users[object] = key
    BY <2>2, <1>1, ObjectFacts
  <2>4. key \in Users
    BY <2>2, <1>1, IdsFacts
  <2>5. CookiesInv' /\ Ids' = Ids
    <3> HIDE DEF key, object
    <3>1. CASE found
      <4>1. CookieOf(new.content, users[object])
        <5>1. RecordOfUser(bucket[key], key) /\ CookieOf(cookies[object].content, key)
          BY <2>3, <2>4, <3>1, <1>1 DEF BucketInv, CookiesInv
        <5>2. CookieOf(Deserialize(cookies[object].content, bucket[key]).cookie, key)
          BY <5>1, OwnRecordRead
        <5> QED BY <5>2, <2>3
      <4>2. new \in CookieState
        BY <4>1 DEF CookieOf, CookieState
      <4> HIDE DEF new
      <4> QED BY <2>1, <2>3, <3>1, <4>1, <4>2, <1>1, <1>2, CookieChanged
    <3>2. CASE ~found
      BY <2>1, <3>2, <1>2, SameIds
    <3> QED BY <3>1, <3>2
  <2>6. HistoryInv'
    <3>1. Report' = Report
      BY <2>5 DEF Report
    <3>2. [cookie |-> object, success |-> found] \in Report
      BY <2>3 DEF Report
    <3> HIDE DEF object, found
    <3>3. reports' \in Seq(Report)
      BY <2>1, <3>2, <1>1, AppendProperties DEF HistoryInv
    <3> QED BY <3>1, <3>3, <2>5, <1>1, <1>2 DEF HistoryInv
  <2> QED BY <2>1, <2>5, <2>6, <1>2, <1>5, <1>7 DEF BulkInv
<1> QED BY <1>8, <1>9

\* A response to a bulk save: the record goes under the key of its own visitor.
LEMMA BulkInvStored ==
  ASSUME BulkInv, NEW i \in DOMAIN pending, NEW done \in BOOLEAN, StoreResponse(i, done)
  PROVE  BulkInv'
<1> DEFINE key == pending[i].key
           record == IF done THEN pending[i].buffer ELSE bucket[key]
<1>1. CookiesInv /\ BucketInv /\ ConnectionInv /\ PendingInv /\ HistoryInv
  BY DEF BulkInv
<1>2. /\ pc = "store" /\ pending' = RemoveAt(pending, i) /\ bucket' = [bucket EXCEPT ![key] = record]
      /\ Handled(connection.store, "bulk_store_handler")
      /\ UNCHANGED <<users, cookies, connection, pc, calls, reports, before, dangling>>
  BY DEF StoreResponse
<1>3. /\ pending \in Seq(StoreRequest) /\ i \in 1..Len(pending) /\ DOMAIN pending = 1..Len(pending)
      /\ Len(pending) \in Nat
  BY <1>1, <1>2, LenProperties DEF PendingInv
<1>4. /\ pending' \in Seq(StoreRequest) /\ Len(pending') = Len(pending) - 1
      /\ \A j \in 1..Len(pending') : pending'[j] = IF j < i THEN pending[j] ELSE pending[j + 1]
  BY <1>2, <1>3, RemoveAtFacts
<1>5. CookiesInv' /\ Ids' = Ids /\ Report' = Report
  BY <1>2, SameIds
<1>6. BucketInv'
  <2>1. key \in Users
    <3>1. pending[i] \in StoreRequest
      BY <1>3, ElementOfSeq
    <3> QED BY <3>1 DEF StoreRequest
  <2>2. record = NoRecord \/ RecordOfUser(record, key)
    <3>1. RecordOfUser(pending[i].buffer, key)
      BY <1>1, <1>2 DEF PendingInv
    <3>2. bucket[key] = NoRecord \/ RecordOfUser(bucket[key], key)
      BY <2>1, <1>1 DEF BucketInv
    <3> QED BY <3>1, <3>2
  <2> HIDE DEF record, key
  <2> QED BY <2>1, <2>2, <1>1, <1>2, BucketChanged
<1>7. ConnectionInv'
  <2>1. connection.store = "bulk_store_handler"
    BY <1>1, <1>2 DEF ConnectionInv, ConnectionAt
  <2>2. ~misread'
    BY <2>1, <1>1, <1>2 DEF Handled, ConnectionInv
  <2> QED BY <2>2, <1>1, <1>2 DEF ConnectionInv, ConnectionAt
<1>8. PendingInv'
  <2>1. Len(pending') <= Len(users')
    <3>1. Len(users) \in Nat /\ Len(pending) <= Len(users)
      BY <1>1, IdsFacts DEF PendingInv
    <3> QED BY <3>1, <1>2, <1>3, <1>4
  <2>2. ASSUME NEW j \in DOMAIN pending' PROVE RecordOfUser(pending'[j].buffer, pending'[j].key)
    <3>1. j \in 1..Len(pending')
      BY <1>4, LenProperties
    <3>2. PICK k \in 1..Len(pending) : pending'[j] = pending[k]
      BY <3>1, <1>3, <1>4
    <3> QED BY <3>2, <1>1, <1>2, <1>3 DEF PendingInv
  <2>3. StoreRequest' = StoreRequest /\ \A x, y : RecordOfUser(x, y)' <=> RecordOfUser(x, y)
    BY DEF StoreRequest, RecordOfUser
  <2> QED BY <2>1, <2>2, <2>3, <1>2, <1>4 DEF PendingInv
<1>9. HistoryInv'
  BY <1>1, <1>2, <1>5 DEF HistoryInv
<1> QED BY <1>5, <1>6, <1>7, <1>8, <1>9 DEF BulkInv

\* Every step keeps it.
LEMMA BulkInvNext == ASSUME BulkInv, [BulkNext]_bulkVars PROVE BulkInv'
<1>1. CASE UNCHANGED bulkVars
  <2>1. CookiesInv' /\ Ids' = Ids /\ GetRequest' = GetRequest /\ Report' = Report
    BY <1>1, SameIds DEF bulkVars
  <2>2. BucketInv' /\ ConnectionInv' /\ HistoryInv'
    BY <1>1, <2>1 DEF bulkVars, BulkInv, BucketInv, RecordOfUser, ConnectionInv, ConnectionAt, HistoryInv
  <2>3. PendingInv'
    BY <1>1, <2>1 DEF bulkVars, BulkInv, PendingInv, StoreRequest, RecordOfUser
  <2> QED BY <2>1, <2>2, <2>3 DEF BulkInv
<1>2. CASE \E newVisitor, answered \in BOOLEAN : MakeCookie(newVisitor, answered)
  BY <1>2, BulkInvMake
<1>3. CASE \E c \in Ids, time \in HitTimes : VisitCookie(c, time)
  BY <1>3, BulkInvVisit
<1>4. CASE \E c \in Ids, done \in BOOLEAN : StoreCookie(c, done)
  BY <1>4, BulkInvStore
<1>5. CASE \E c \in Ids : Delete(c)
  BY <1>5, BulkInvDelete
<1>6. CASE BeginLoad
  BY <1>6, BulkInvBeginLoad
<1>7. CASE BeginSave
  BY <1>7, BulkInvBeginSave
<1>8. CASE EndLoad \/ EndSave
  BY <1>8, BulkInvEnd
<1>9. CASE \E i \in DOMAIN pending, yes \in BOOLEAN : GetResponse(i, yes)
  BY <1>9, BulkInvGet
<1>10. CASE \E i \in DOMAIN pending, yes \in BOOLEAN : StoreResponse(i, yes)
  BY <1>10, BulkInvStored
<1>11. CASE BulkDone
  BY <1>11, <1>1 DEF BulkDone
<1> QED BY <1>1, <1>2, <1>3, <1>4, <1>5, <1>6, <1>7, <1>8, <1>9, <1>10, <1>11 DEF BulkNext

(* The inductive invariant of the bulk operations: cookies and records are *)
(* their visitors', the connection is set to what the requests need, and   *)
(* each request is for a visitor whose cookie is in work.                  *)
THEOREM BulkInvHolds == BulkSpec => []BulkInv
BY BulkInvInit, BulkInvNext, PTL DEF BulkSpec

(* No response meets a callback that takes its pointer for another kind.   *)
THEOREM HandlersAlwaysFit == BulkSpec => []HandlersFit
<1>1. BulkInv => HandlersFit
  <2> SUFFICES ASSUME BulkInv PROVE HandlersFit
    OBVIOUS
  <2>1. CookiesInv /\ BucketInv /\ ConnectionInv /\ PendingInv /\ HistoryInv
    BY DEF BulkInv
  <2>2. \A c \in Ids : cookies[c].content \in Cookie /\ cookies[c].modified \in BOOLEAN
    BY <2>1, IdsFacts
  <2>3. ASSUME NEW n \in DOMAIN reports PROVE reports[n].cookie \in Ids
    <3>1. reports[n] \in Report
      BY <2>1, LenProperties, ElementOfSeq DEF HistoryInv
    <3> QED BY <3>1 DEF Report
  <2>4. DOMAIN bucket = Users
    BY <2>1 DEF BucketInv
  <2> QED BY <2>1, <2>2, <2>3, <2>4
       DEF HandlersFit, BulkTypeOK, CookiesInv, ConnectionInv, PendingInv, HistoryInv
<1> QED BY <1>1, BulkInvHolds, PTL

(* No cookie and no record gets anything of another visitor, whatever the  *)
(* keys of a bulk load turn out to be.                                     *)
THEOREM NeverMixedUp == BulkSpec => []NoMixUp
<1>1. BulkInv => NoMixUp
  <2> SUFFICES ASSUME BulkInv PROVE NoMixUp
    OBVIOUS
  <2>1. CookiesInv /\ BucketInv
    BY DEF BulkInv
  <2>2. \A c \in Ids : cookies[c].content.field[FirstHitReferrer] \in Marks(users[c])
    BY <2>1 DEF CookiesInv, CookieOf
  <2>3. ASSUME NEW u \in Users, bucket[u] # NoRecord
        PROVE  Deserialize(Blank, bucket[u]).cookie.field[FirstHitReferrer] \in Marks(u)
    <3>1. CookieOf(Deserialize(Blank, bucket[u]).cookie, u)
      BY <2>1, <2>3, BlankIsAnybodys, OwnRecordRead DEF BucketInv
    <3> QED BY <3>1 DEF CookieOf
  <2> QED BY <2>2, <2>3 DEF NoMixUp
<1> QED BY <1>1, BulkInvHolds, PTL

----------------------------------------------------------------------------
(* What a bulk save leaves in the bucket *)

\* The record of the last cookie of u.
LastRecord(u) == Serialize(cookies[Object(u)].content, TRUE)

\* The request that goes last under its key.
IsLastRequest(i) == \A j \in DOMAIN pending : j > i => pending[j].key # pending[i].key

\* While responses are coming: the last request under a key has the record of
\* the last cookie of its visitor, and when all requests of a visitor were
\* granted, the bucket has it.
SaveInv ==
  pc = "store" =>
    /\ \A i \in DOMAIN pending : IsLastRequest(i) => pending[i].buffer = LastRecord(pending[i].key)
    /\ \A c \in Ids : ~refused /\ (\A i \in DOMAIN pending : pending[i].key # users[c])
                        => bucket[users[c]] = LastRecord(users[c])

\* Every cookie has its request when the save begins.
LEMMA SaveInvBegin == ASSUME BulkInv, BeginSave PROVE SaveInv'
<1>1. CookiesInv
  BY DEF BulkInv
<1>2. /\ pending' = [c \in Ids |-> [key |-> users[c], buffer |-> Serialize(cookies[c].content, TRUE)]]
      /\ UNCHANGED <<users, bucket, cookies>>
  BY DEF BeginSave
<1>3. /\ Ids = 1..Len(cookies) /\ Len(cookies) \in Nat /\ Ids' = Ids
  BY <1>1, <1>2, IdsFacts DEF Ids
<1>4. DOMAIN pending' = Ids
  BY <1>2
<1>5. \A c \in Ids : pending'[c].key = users[c] /\ pending'[c].buffer = Serialize(cookies[c].content, TRUE)
  BY <1>2
<1>6. \A u : LastRecord(u)' = LastRecord(u)
  BY <1>2 DEF LastRecord, Object, Ids
<1>7. ASSUME NEW i \in Ids, \A j \in Ids : j > i => pending'[j].key # pending'[i].key
      PROVE  pending'[i].buffer = LastRecord(pending'[i].key)
  <2>1. Object(users[i]) \in Ids /\ users[Object(users[i])] = users[i] /\ i <= Object(users[i])
    BY <1>1, ObjectFacts
  <2>2. ASSUME Object(users[i]) # i PROVE FALSE
    <3> DEFINE o == Object(users[i])
    <3>1. o \in Ids /\ users[o] = users[i] /\ i <= o /\ o # i /\ i \in Nat /\ o \in Nat
      BY <2>1, <2>2, <1>3
    <3> HIDE DEF o
    <3>2. o > i
      BY ONLY <3>1
    <3> QED BY <3>1, <3>2, <1>5, <1>7
  <2> QED BY <2>2, <1>5 DEF LastRecord
<1>8. ASSUME NEW c \in Ids PROVE \E i \in Ids : pending'[i].key = users[c]
  BY <1>5
<1> QED BY <1>2, <1>3, <1>4, <1>6, <1>7, <1>8 DEF SaveInv, IsLastRequest

\* A request that is answered is the first under its key.
LEMMA SaveInvStored ==
  ASSUME BulkInv, SaveInv, NEW i \in DOMAIN pending, NEW done \in BOOLEAN, StoreResponse(i, done)
  PROVE  SaveInv'
<1> DEFINE key == pending[i].key
           at(j) == IF j < i THEN j ELSE j + 1
<1>1. CookiesInv /\ BucketInv /\ PendingInv
  BY DEF BulkInv
<1>2. /\ pc = "store" /\ MayAnswer(i) /\ pending' = RemoveAt(pending, i)
      /\ bucket' = [bucket EXCEPT ![key] = IF done THEN pending[i].buffer ELSE @]
      /\ refused' = (refused \/ ~done)
      /\ UNCHANGED <<users, cookies>>
  BY DEF StoreResponse
<1>3. /\ pending \in Seq(StoreRequest) /\ i \in 1..Len(pending) /\ DOMAIN pending = 1..Len(pending)
      /\ Len(pending) \in Nat
  BY <1>1, <1>2, LenProperties DEF PendingInv
<1>4. /\ pending' \in Seq(StoreRequest) /\ Len(pending') = Len(pending) - 1
      /\ \A j \in 1..Len(pending') : pending'[j] = pending[at(j)]
  BY <1>2, <1>3, RemoveAtFacts
<1>5. DOMAIN pending' = 1..(Len(pending) - 1)
  BY <1>4, LenProperties
<1>6. \A u : LastRecord(u)' = LastRecord(u)
  BY <1>2 DEF LastRecord, Object, Ids
<1>7. \A k \in 1..Len(pending) : k # i => \E j \in 1..(Len(pending) - 1) : at(j) = k
  <2> SUFFICES ASSUME NEW k \in 1..Len(pending), k # i
               PROVE  \E j \in 1..(Len(pending) - 1) : at(j) = k
    OBVIOUS
  <2>1. CASE k < i
    <3>1. k \in 1..(Len(pending) - 1) /\ at(k) = k
      BY <2>1, <1>3
    <3> QED BY <3>1
  <2>2. CASE k > i
    <3>1. k - 1 \in 1..(Len(pending) - 1) /\ at(k - 1) = k
      BY <2>2, <1>3
    <3> QED BY <3>1
  <2> QED BY <2>1, <2>2, <1>3
<1>8. ASSUME NEW j \in DOMAIN pending', \A m \in DOMAIN pending' : m > j => pending'[m].key # pending'[j].key
      PROVE  pending'[j].buffer = LastRecord(pending'[j].key)
  <2>1. /\ j \in 1..(Len(pending) - 1) /\ at(j) \in 1..Len(pending) /\ at(j) # i
        /\ pending'[j] = pending[at(j)]
    BY <1>3, <1>4, <1>5
  <2>2. ASSUME NEW k \in DOMAIN pending, k > at(j) PROVE pending[k].key # pending[at(j)].key
    <3>1. CASE k = i
      <4>1. at(j) \in 1..(i - 1)
        BY <3>1, <2>1, <2>2, <1>3
      <4> QED BY <3>1, <4>1, <1>2 DEF MayAnswer
    <3>2. CASE k # i
      <4>1. PICK m \in 1..(Len(pending) - 1) : at(m) = k
        BY <3>2, <1>3, <1>7
      <4>2. m > j
        BY <4>1, <2>1, <2>2, <1>3
      <4>3. pending'[m] = pending[k] /\ m \in DOMAIN pending'
        BY <4>1, <1>4, <1>5
      <4> QED BY <4>2, <4>3, <2>1, <1>8
    <3> QED BY <3>1, <3>2
  <2>3. pending[at(j)].buffer = LastRecord(pending[at(j)].key)
    BY <2>1, <2>2, <1>2, <1>3 DEF SaveInv, IsLastRequest
  <2> QED BY <2>1, <2>3
<1>9. ASSUME NEW c \in Ids, ~refused', \A j \in DOMAIN pending' : pending'[j].key # users[c]
      PROVE  bucket'[users[c]] = LastRecord(users[c])
  <2>1. users[c] \in Users /\ done /\ ~refused
    BY <1>1, <1>2, <1>9, IdsFacts
  <2>2. ASSUME NEW k \in DOMAIN pending, k # i PROVE pending[k].key # users[c]
    <3>1. PICK j \in 1..(Len(pending) - 1) : at(j) = k
      BY <2>2, <1>3, <1>7
    <3>2. pending'[j] = pending[k] /\ j \in DOMAIN pending'
      BY <3>1, <1>4, <1>5
    <3> QED BY <3>2, <1>9
  <2>3. bucket'[users[c]] = IF key = users[c] THEN pending[i].buffer ELSE bucket[users[c]]
    BY <2>1, <1>1, <1>2 DEF BucketInv
  <2>4. CASE key = users[c]
    <3>1. IsLastRequest(i)
      BY <2>2, <2>4, <1>3 DEF IsLastRequest
    <3>2. pending[i].buffer = LastRecord(key)
      BY <3>1, <1>2 DEF SaveInv
    <3> QED BY <3>2, <2>3, <2>4
  <2>5. CASE key # users[c]
    <3>1. \A k \in DOMAIN pending : pending[k].key # users[c]
      BY <2>2, <2>5
    <3>2. bucket[users[c]] = LastRecord(users[c])
      BY <3>1, <2>1, <1>2 DEF SaveInv
    <3> QED BY <3>2, <2>3, <2>5
  <2> QED BY <2>4, <2>5
<1>10. Ids' = Ids /\ users' = users
  BY <1>2 DEF Ids
<1> HIDE DEF key, at
<1> QED BY <1>6, <1>8, <1>9, <1>10 DEF SaveInv, IsLastRequest

\* Every other step leaves the program out of a bulk save, or nothing changed.
LEMMA SaveInvNext == ASSUME BulkInv, SaveInv, [BulkNext]_bulkVars PROVE SaveInv'
<1>1. CASE UNCHANGED bulkVars
  BY <1>1 DEF bulkVars, SaveInv, IsLastRequest, LastRecord, Object, Ids
<1>2. CASE \E i \in DOMAIN pending, yes \in BOOLEAN : StoreResponse(i, yes)
  BY <1>2, SaveInvStored
<1>3. CASE BeginSave
  BY <1>3, SaveInvBegin
<1>4. CASE pc' # "store"
  BY <1>4 DEF SaveInv
<1>5. ASSUME BulkNext, pc' = "store", ~BeginSave, ~UNCHANGED bulkVars
      PROVE  \E i \in DOMAIN pending, yes \in BOOLEAN : StoreResponse(i, yes)
  <2>1. ASSUME NEW newVisitor, NEW answered, MakeCookie(newVisitor, answered) PROVE FALSE
    BY <2>1, <1>5 DEF MakeCookie
  <2>2. ASSUME NEW c, NEW time, VisitCookie(c, time) PROVE FALSE
    BY <2>2, <1>5 DEF VisitCookie, NextCall
  <2>3. ASSUME NEW c, NEW done, StoreCookie(c, done) PROVE FALSE
    BY <2>3, <1>5 DEF StoreCookie, NextCall
  <2>4. ASSUME NEW c, Delete(c) PROVE FALSE
    BY <2>4, <1>5 DEF Delete, NextCall
  <2>5. ~BeginLoad /\ ~EndLoad /\ ~EndSave
    BY <1>5 DEF BeginLoad, EndLoad, EndSave
  <2>6. ASSUME NEW i, NEW answered, GetResponse(i, answered) PROVE FALSE
    BY <2>6, <1>5 DEF GetResponse, BulkGet
  <2>7. ~BulkDone
    BY <1>5 DEF BulkDone
  <2> QED BY <1>5, <2>1, <2>2, <2>3, <2>4, <2>5, <2>6, <2>7 DEF BulkNext
<1> QED BY <1>1, <1>2, <1>3, <1>4, <1>5

(* A bulk save of which no request was refused leaves the record of the    *)
(* last cookie of each visitor, in whatever order the responses came       *)
(* (VCCouchbaseStore.cc:203-281).                                          *)
THEOREM LastIsSaved == BulkSpec => LastCookieIsSaved
<1> DEFINE Right == EndSave /\ ~refused =>
             \A c \in Ids : bucket[users[c]] = Serialize(cookies[Object(users[c])].content, TRUE)
<1>1. BulkInit => SaveInv
  BY DEF BulkInit, SaveInv
<1>2. BulkInv /\ SaveInv /\ [BulkNext]_bulkVars => SaveInv'
  BY SaveInvNext
<1>3. ASSUME SaveInv, EndSave, ~refused, NEW c \in Ids
      PROVE  bucket[users[c]] = Serialize(cookies[Object(users[c])].content, TRUE)
  <2>1. pc = "store" /\ DOMAIN pending = {}
    BY <1>3 DEF EndSave
  <2>2. \A i \in DOMAIN pending : pending[i].key # users[c]
    BY <2>1
  <2> QED BY <1>3, <2>1, <2>2 DEF SaveInv, LastRecord
<1>4. BulkInv /\ SaveInv /\ [BulkNext]_bulkVars => [Right]_bulkVars
  BY <1>3
<1>5. BulkSpec => [][Right]_bulkVars
  BY <1>1, <1>2, <1>4, BulkInvHolds, PTL DEF BulkSpec
<1> QED BY <1>5, Zenon DEF LastCookieIsSaved

----------------------------------------------------------------------------
(* What a bulk load reports *)

\* The reports about c.
ReportsOf(c) == {n \in DOMAIN reports : reports[n].cookie = c}

\* The requests are for different cookies; what was answered is reported, as
\* found only if there is a record; and a cookie that has changed was found.
ReportsInv ==
  /\ \A i, j \in DOMAIN pending : pending[i].cookie = pending[j].cookie => i = j
  /\ Len(reports) + Len(pending) = Len(cookies)
  /\ \A n \in DOMAIN reports :
       reports[n].success => bucket[users[reports[n].cookie]] # NoRecord
  /\ \A c \in Ids : cookies[c].content # before[c] =>
       \E n \in DOMAIN reports : reports[n].cookie = c /\ reports[n].success

\* If the keys were still there, each request has the key of its cookie.
KeysAreOwn == \A i \in DOMAIN pending : pending[i].key = users[pending[i].cookie]

\* What holds of the reports while a bulk load is under way.
ReportInv == pc = "get" => ReportsInv /\ (~dangling => KeysAreOwn)

\* Nothing is reported at first, and nothing has changed.
LEMMA ReportInvBegin == ASSUME BulkInv, BeginLoad PROVE ReportInv'
<1>1. CookiesInv
  BY DEF BulkInv
<1>2. PICK keys \in KeysRead :
        /\ pending' = [c \in Ids |-> [cookie |-> c, key |-> keys[c]]]
        /\ dangling' = \E c \in Ids : keys[c] # users[c]
  BY DEF BeginLoad
<1>3. /\ reports' = <<>> /\ UNCHANGED <<users, bucket, cookies>> /\ Ids' = Ids
      /\ before' = [c \in Ids |-> cookies[c].content]
  BY DEF BeginLoad, Ids
<1>4. DOMAIN pending' = Ids /\ \A c \in Ids : pending'[c].cookie = c /\ pending'[c].key = keys[c]
  BY <1>2
<1>5. DOMAIN reports' = {} /\ Len(reports') = 0
  BY <1>3
<1>6. Len(pending') = Len(cookies)
  <2>1. Ids = 1..Len(cookies) /\ Len(cookies) \in Nat
    BY <1>1, IdsFacts
  <2>2. pending' \in Seq(GetRequest)
    <3>1. BulkInv'
      BY BulkInvBeginLoad
    <3>2. pc' = "get" /\ GetRequest' = GetRequest
      BY <1>3 DEF BeginLoad, GetRequest
    <3> QED BY <3>1, <3>2 DEF BulkInv, PendingInv
  <2>3. Len(pending') \in Nat /\ DOMAIN pending' = 1..Len(pending')
    BY <2>2, LenProperties
  <2>4. 1..Len(pending') = 1..Len(cookies)
    BY <1>4, <2>1, <2>3
  <2> QED BY <2>1, <2>3, <2>4, SameInterval
<1>7. ReportsInv'
  <2>1. Len(cookies) \in Nat
    BY <1>1, IdsFacts
  <2> QED BY <1>3, <1>4, <1>5, <1>6, <2>1 DEF ReportsInv
<1>8. ASSUME ~dangling' PROVE KeysAreOwn'
  BY <1>2, <1>3, <1>4, <1>8 DEF KeysAreOwn
<1> QED BY <1>7, <1>8 DEF ReportInv

\* A response that does not abort the program: the request is gone, and the
\* last cookie of its key, which has one, is reported.
Answered(i, object, found) ==
  /\ Ids' = Ids /\ users' = users /\ bucket' = bucket /\ dangling' = dangling /\ before' = before
  /\ object \in Ids /\ users[object] = pending[i].key /\ pending[i].key \in Users
  /\ object = Object(pending[i].key) /\ found \in BOOLEAN
  /\ found => bucket[pending[i].key] # NoRecord
  /\ \A j \in DOMAIN pending' :
       \E k \in DOMAIN pending : k # i /\ pending'[j] = pending[k]
  /\ \A k \in DOMAIN pending : k # i => \E j \in DOMAIN pending' : pending'[j] = pending[k]
  /\ \A j, m \in DOMAIN pending' : j # m =>
       \E k, l \in DOMAIN pending : k # l /\ pending'[j] = pending[k] /\ pending'[m] = pending[l]
  /\ DOMAIN reports' = DOMAIN reports \cup {Len(reports) + 1} /\ Len(reports) + 1 \notin DOMAIN reports
  /\ Len(reports') = Len(reports) + 1 /\ Len(reports) \in Nat
  /\ Len(pending') = Len(pending) - 1 /\ Len(pending) \in Nat
  /\ \A n \in DOMAIN reports : reports'[n] = reports[n]
  /\ reports'[Len(reports) + 1] = [cookie |-> object, success |-> found]
  /\ IF found
     THEN cookies' = [cookies EXCEPT ![object] =
            [content |-> Deserialize(cookies[object].content, bucket[pending[i].key]).cookie, modified |-> TRUE]]
     ELSE cookies' = cookies

\* A response does what Answered says of it.
LEMMA ResponseFacts ==
  ASSUME BulkInv, NEW i \in DOMAIN pending, NEW answered \in BOOLEAN, GetResponse(i, answered), pc' = "get"
  PROVE  \E object, found : Answered(i, object, found)
<1> DEFINE key == pending[i].key
           found == answered /\ bucket[key] # NoRecord
           object == Object(key)
           at(j) == IF j < i THEN j ELSE j + 1
<1>1. CookiesInv /\ BucketInv /\ ConnectionInv /\ PendingInv /\ HistoryInv
  BY DEF BulkInv
<1>2. /\ pc = "get" /\ pending' = RemoveAt(pending, i) /\ BulkGet(i, answered)
      /\ UNCHANGED <<users, bucket, connection, calls, before, dangling, refused>>
  BY DEF GetResponse
<1>3. /\ pending \in Seq(GetRequest) /\ i \in 1..Len(pending) /\ DOMAIN pending = 1..Len(pending)
      /\ Len(pending) \in Nat
  BY <1>1, <1>2, LenProperties DEF PendingInv
<1>4. /\ pending' \in Seq(GetRequest) /\ Len(pending') = Len(pending) - 1
      /\ \A j \in 1..Len(pending') : pending'[j] = pending[at(j)]
  BY <1>2, <1>3, RemoveAtFacts
<1>5. DOMAIN pending' = 1..(Len(pending) - 1)
  BY <1>4, LenProperties
<1>6. key # Garbage
  BY <1>2 DEF BulkGet
<1>7. /\ IF found THEN cookies' = [cookies EXCEPT ![object] =
              [content |-> Deserialize(cookies[object].content, bucket[key]).cookie, modified |-> TRUE]]
                  ELSE UNCHANGED cookies
      /\ reports' = Append(reports, [cookie |-> object, success |-> found])
  BY <1>2, <1>6 DEF BulkGet, Fill
<1>8. PICK c \in Ids : users[c] = key
  BY <1>1, <1>2, <1>6 DEF PendingInv
<1>9. object \in Ids /\ users[object] = key /\ key \in Users
  BY <1>8, <1>1, ObjectFacts, IdsFacts
<1>10. Ids' = Ids
  <2>1. CASE found
    BY <2>1, <1>7 DEF Ids
  <2>2. CASE ~found
    BY <2>2, <1>7 DEF Ids
  <2> QED BY <2>1, <2>2
<1>11. \A j \in DOMAIN pending' : /\ at(j) \in DOMAIN pending /\ at(j) # i /\ pending'[j] = pending[at(j)]
  BY <1>3, <1>4, <1>5
<1>12. ASSUME NEW k \in DOMAIN pending, k # i PROVE \E j \in DOMAIN pending' : pending'[j] = pending[k]
  <2>1. CASE k < i
    <3>1. k \in DOMAIN pending' /\ at(k) = k
      BY <2>1, <1>3, <1>5
    <3> QED BY <3>1, <1>11
  <2>2. CASE k > i
    <3>1. k - 1 \in DOMAIN pending' /\ at(k - 1) = k
      BY <2>2, <1>3, <1>5
    <3> QED BY <3>1, <1>11
  <2> QED BY <2>1, <2>2, <1>3, <1>12
<1>13. ASSUME NEW j \in DOMAIN pending', NEW m \in DOMAIN pending', j # m
       PROVE  \E k, l \in DOMAIN pending : k # l /\ pending'[j] = pending[k] /\ pending'[m] = pending[l]
  <2>1. at(j) # at(m)
    BY <1>3, <1>5, <1>13
  <2> QED BY <2>1, <1>11
<1>14. /\ DOMAIN reports' = DOMAIN reports \cup {Len(reports) + 1} /\ Len(reports) + 1 \notin DOMAIN reports
       /\ Len(reports') = Len(reports) + 1 /\ Len(reports) \in Nat
       /\ \A n \in DOMAIN reports : reports'[n] = reports[n]
       /\ reports'[Len(reports) + 1] = [cookie |-> object, success |-> found]
  <2>1. reports \in Seq(Report)
    BY <1>1 DEF HistoryInv
  <2>2. [cookie |-> object, success |-> found] \in Report
    BY <1>9 DEF Report
  <2> HIDE DEF object, found
  <2>3. /\ reports' \in Seq(Report) /\ Len(reports') = Len(reports) + 1
        /\ \A n \in 1..Len(reports) : reports'[n] = reports[n]
        /\ reports'[Len(reports) + 1] = [cookie |-> object, success |-> found]
    BY <2>1, <2>2, <1>7, AppendProperties
  <2>4. DOMAIN reports = 1..Len(reports) /\ DOMAIN reports' = 1..(Len(reports) + 1) /\ Len(reports) \in Nat
    BY <2>1, <2>3, LenProperties
  <2> QED BY <2>3, <2>4
<1>15. found \in BOOLEAN /\ (found => bucket[key] # NoRecord)
  OBVIOUS
<1> HIDE DEF at, found
<1>16. Answered(i, object, found)
  <2> HIDE DEF object
  <2> QED BY <1>2, <1>3, <1>4, <1>7, <1>9, <1>10, <1>11, <1>12, <1>13, <1>14, <1>15 DEF Answered, object
<1> QED BY <1>16

\* One request less and one report more, about the cookie that is filled.
LEMMA ReportInvGet ==
  ASSUME BulkInv, BulkInv', ReportsInv,
         NEW i \in DOMAIN pending, NEW object, NEW found, Answered(i, object, found)
  PROVE  ReportsInv'
<1>1. \A j, m \in DOMAIN pending' : pending'[j].cookie = pending'[m].cookie => j = m
  BY DEF Answered, ReportsInv
<1>2. Len(reports') + Len(pending') = Len(cookies')
  <2>1. Ids = 1..Len(cookies) /\ Len(cookies) \in Nat
    BY LenProperties DEF BulkInv, CookiesInv, Ids
  <2>2. Ids' = 1..Len(cookies') /\ Len(cookies') \in Nat
    BY LenProperties DEF BulkInv, CookiesInv, Ids
  <2>3. Len(cookies') = Len(cookies)
    BY <2>1, <2>2, SameInterval DEF Answered
  <2>4. /\ Len(reports) + Len(pending) = Len(cookies) /\ Len(reports) \in Nat /\ Len(pending) \in Nat
        /\ Len(reports') = Len(reports) + 1 /\ Len(pending') = Len(pending) - 1
    BY DEF Answered, ReportsInv
  <2> QED BY <2>1, <2>3, <2>4
<1>3. ASSUME NEW n \in DOMAIN reports', reports'[n].success
      PROVE  bucket[users[reports'[n].cookie]] # NoRecord
  <2>1. CASE n \in DOMAIN reports
    BY <1>3, <2>1 DEF Answered, ReportsInv
  <2>2. CASE n = Len(reports) + 1
    BY <1>3, <2>2 DEF Answered
  <2> QED BY <2>1, <2>2, <1>3 DEF Answered
<1>4. ASSUME NEW c \in Ids, cookies'[c].content # before[c]
      PROVE  \E n \in DOMAIN reports' : reports'[n].cookie = c /\ reports'[n].success
  <2>1. CASE c = object /\ found
    <3>1. Len(reports) + 1 \in DOMAIN reports' /\ reports'[Len(reports) + 1] = [cookie |-> object, success |-> found]
      BY DEF Answered
    <3> QED BY <2>1, <3>1
  <2>2. CASE ~(c = object /\ found)
    <3>1. cookies'[c].content = cookies[c].content
      <4>1. CASE found
        BY <4>1, <2>2 DEF Answered, Ids
      <4>2. CASE ~found
        BY <4>2 DEF Answered
      <4> QED BY <4>1, <4>2
    <3>2. PICK n \in DOMAIN reports : reports[n].cookie = c /\ reports[n].success
      BY <3>1, <1>4 DEF ReportsInv
    <3>3. n \in DOMAIN reports' /\ reports'[n] = reports[n]
      BY DEF Answered
    <3> QED BY <3>2, <3>3
  <2> QED BY <2>1, <2>2
<1>5. users' = users /\ bucket' = bucket /\ before' = before /\ Ids' = Ids
  BY DEF Answered
<1> QED BY <1>1, <1>2, <1>3, <1>4, <1>5 DEF ReportsInv

\* The requests that are left have the keys they had.
LEMMA KeysAreOwnGet ==
  ASSUME KeysAreOwn, NEW i \in DOMAIN pending, NEW object, NEW found, Answered(i, object, found)
  PROVE  KeysAreOwn'
BY DEF Answered, KeysAreOwn

\* A step while a bulk load is under way.
LEMMA StepsOfLoad ==
  ASSUME [BulkNext]_bulkVars, pc' = "get"
  PROVE  \/ UNCHANGED bulkVars \/ BeginLoad
         \/ \E i \in DOMAIN pending, yes \in BOOLEAN : GetResponse(i, yes)
<1> SUFFICES ASSUME BulkNext, ~BeginLoad, ~UNCHANGED bulkVars
             PROVE  \E i \in DOMAIN pending, yes \in BOOLEAN : GetResponse(i, yes)
  OBVIOUS
<1>1. ASSUME NEW newVisitor, NEW answered, MakeCookie(newVisitor, answered) PROVE FALSE
  BY <1>1 DEF MakeCookie
<1>2. ASSUME NEW c, NEW time, VisitCookie(c, time) PROVE FALSE
  BY <1>2 DEF VisitCookie, NextCall
<1>3. ASSUME NEW c, NEW done, StoreCookie(c, done) PROVE FALSE
  BY <1>3 DEF StoreCookie, NextCall
<1>4. ASSUME NEW c, Delete(c) PROVE FALSE
  BY <1>4 DEF Delete, NextCall
<1>5. ~BeginSave /\ ~EndLoad /\ ~EndSave
  BY DEF BeginSave, EndLoad, EndSave
<1>6. ASSUME NEW i, NEW done, StoreResponse(i, done) PROVE FALSE
  BY <1>6 DEF StoreResponse
<1>7. ~BulkDone
  BY DEF BulkDone
<1> QED BY <1>1, <1>2, <1>3, <1>4, <1>5, <1>6, <1>7 DEF BulkNext

\* Every step keeps it.
LEMMA ReportInvNext == ASSUME BulkInv, ReportInv, [BulkNext]_bulkVars PROVE ReportInv'
<1> SUFFICES ASSUME pc' = "get" PROVE ReportInv'
  BY DEF ReportInv
<1>1. CASE UNCHANGED bulkVars
  BY <1>1 DEF bulkVars, ReportInv, ReportsInv, KeysAreOwn, Ids
<1>2. CASE BeginLoad
  BY <1>2, ReportInvBegin
<1>3. ASSUME NEW i \in DOMAIN pending, NEW yes \in BOOLEAN, GetResponse(i, yes)
      PROVE  ReportInv'
  <2>1. PICK object, found : Answered(i, object, found)
    BY <1>3, ResponseFacts
  <2>2. pc = "get" /\ dangling' = dangling
    BY <1>3 DEF GetResponse
  <2>3. ReportsInv'
    <3>1. BulkInv'
      BY BulkInvNext
    <3> QED BY <2>1, <2>2, <3>1, ReportInvGet DEF ReportInv
  <2>4. ~dangling => KeysAreOwn'
    BY <2>1, <2>2, KeysAreOwnGet DEF ReportInv
  <2> QED BY <2>2, <2>3, <2>4 DEF ReportInv
<1> QED BY <1>1, <1>2, <1>3, StepsOfLoad

(* Whatever keys are read and however the responses come, a bulk load has  *)
(* called back once for each request when it ends, never with success for  *)
(* a cookie without a record, and told of every cookie it changed          *)
(* (VCCouchbaseStore.cc:165-254).                                          *)
THEOREM ReportsAreTrue == BulkSpec => ReportsTellTheLoad
<1> DEFINE Right == EndLoad =>
             /\ Len(reports) = Len(cookies)
             /\ \A n \in DOMAIN reports :
                  reports[n].success => bucket[users[reports[n].cookie]] # NoRecord
             /\ \A c \in Ids : cookies[c].content # before[c] =>
                  \E n \in DOMAIN reports : reports[n].cookie = c /\ reports[n].success
<1>1. BulkInit => ReportInv
  BY DEF BulkInit, ReportInv
<1>2. BulkInv /\ ReportInv /\ [BulkNext]_bulkVars => ReportInv'
  BY ReportInvNext
<1>3. ASSUME BulkInv, ReportInv, EndLoad PROVE Right
  <2>1. ReportsInv /\ pending = <<>>
    BY <1>3 DEF EndLoad, ReportInv
  <2>2. Len(reports) \in Nat
    BY <1>3, LenProperties DEF BulkInv, HistoryInv
  <2>3. Len(reports) = Len(cookies)
    BY <2>1, <2>2, EmptySeq DEF ReportsInv
  <2> QED BY <2>1, <2>3 DEF ReportsInv
<1>4. BulkInv /\ ReportInv /\ [BulkNext]_bulkVars => [Right]_bulkVars
  BY <1>3
<1> QED BY <1>1, <1>2, <1>4, BulkInvHolds, PTL DEF BulkSpec, ReportsTellTheLoad

----------------------------------------------------------------------------
(* What a bulk load leaves in the cookies *)

\* Ids added one after the other stand at the end of the list.
LEMMA AddedIdsAreLast ==
  ASSUME NEW old \in IdList, NEW ids \in IdList
  PROVE  IsSuffix(ids, AddPurchaseIds(old, ids))
<1> DEFINE L == Len(ids)
<1>1. /\ ids \in Seq(PurchaseIds) /\ L \in Nat /\ NoDuplicates(ids) /\ L <= NUM_SAVED_PURCHASE_IDS
      /\ NUM_SAVED_PURCHASE_IDS \in Nat
  BY IdListFacts, LenProperties DEF ListsOf
<1>2. PICK R \in [0..L -> IdList] :
        /\ R[0] = old
        /\ \A n \in 1..L : R[n] = SetPurchaseId(R[n - 1], ids[n])
        /\ AddPurchaseIds(old, ids) = R[L]
  BY <1>1, PurchaseIdsFold
<1>3. \A n \in 0..L : Len(R[n]) \in Nat /\ R[n] \in Seq(PurchaseIds) /\ NoDuplicates(R[n])
  BY <1>2, IdListFacts, LenProperties DEF ListsOf
<1> DEFINE Ends(s, n) == n <= Len(s) /\ \A j \in 1..n : s[Len(s) - n + j] = ids[j]
           T == {n \in 0..L : Ends(R[n], n)}
<1>4. 0 \in T
  BY <1>1, <1>3
<1>5. ASSUME NEW n \in 1..L, n - 1 \in T PROVE n \in T
  <2> DEFINE s == R[n - 1]
             new == R[n]
             id == ids[n]
  <2>1. /\ n - 1 <= Len(s) /\ \A j \in 1..(n - 1) : s[Len(s) - (n - 1) + j] = ids[j]
    BY <1>5
  <2>2. id \in PurchaseIds /\ new = SetPurchaseId(s, id) /\ n - 1 \in 0..L /\ n \in 0..L /\ n \in Nat
    BY <1>1, <1>2, ElementOfSeq
  <2>3. s \in IdList /\ Len(s) \in Nat /\ Len(new) \in Nat /\ NoDuplicates(s)
    BY <2>2, <1>2, <1>3
  <2>4. \A j \in 1..(n - 1) : ids[j] # id
    BY <1>1, <2>2 DEF NoDuplicates
  <2> HIDE DEF s, new, id, T, L
  <2>5. /\ new[Len(new)] = id
        /\ \/ Grown(s, id, new)
           \/ \E gap \in 1..Len(s) : Moved(s, id, new, gap, NUM_SAVED_PURCHASE_IDS)
    BY <2>2, <2>3, SetPurchaseIdFacts
  <2>6. CASE Grown(s, id, new)
    <3>1. Len(new) = Len(s) + 1 /\ \A p \in 1..Len(s) : new[p] = s[p]
      BY <2>6 DEF Grown
    <3>2. ASSUME NEW j \in 1..n PROVE new[Len(new) - n + j] = ids[j]
      <4>1. CASE j = n
        <5>1. Len(new) - n + j = Len(new)
          BY <4>1, <2>2, <2>3
        <5> QED BY <5>1, <4>1, <2>5 DEF id
      <4>2. CASE j # n
        <5> DEFINE p == Len(s) - (n - 1) + j
        <5>1. j \in 1..(n - 1) /\ p = Len(new) - n + j /\ p \in 1..Len(s)
          BY <4>2, <2>1, <2>2, <2>3, <3>1
        <5>2. s[p] = ids[j]
          BY <5>1, <2>1
        <5> HIDE DEF p
        <5> QED BY <5>1, <5>2, <3>1
      <4> QED BY <4>1, <4>2
    <3>3. n <= Len(new)
      BY <3>1, <2>1, <2>2, <2>3
    <3> QED BY <3>2, <3>3, <2>2 DEF T, new
  <2>7. ASSUME NEW gap \in 1..Len(s), Moved(s, id, new, gap, NUM_SAVED_PURCHASE_IDS) PROVE n \in T
    <3>1. /\ s[gap] = id \/ (gap = 1 /\ Len(s) = NUM_SAVED_PURCHASE_IDS)
          /\ Len(new) = Len(s) /\ \A p \in 1..(Len(s) - 1) : new[p] = IF p < gap THEN s[p] ELSE s[p + 1]
      BY <2>7 DEF Moved
    <3>2. gap <= Len(s) - (n - 1)
      <4>1. CASE s[gap] = id
        <5> DEFINE j == gap - (Len(s) - (n - 1))
        <5>1. ASSUME ~(gap <= Len(s) - (n - 1)) PROVE FALSE
          <6>1. j \in 1..(n - 1) /\ gap = Len(s) - (n - 1) + j
            BY <5>1, <2>1, <2>2, <2>3
          <6> HIDE DEF j
          <6>2. s[gap] = ids[j] /\ ids[j] # id
            BY <6>1, <2>1, <2>4
          <6> QED BY <6>2, <4>1
        <5> QED BY <5>1
      <4>2. CASE gap = 1 /\ Len(s) = NUM_SAVED_PURCHASE_IDS
        <5>1. n <= Len(s)
          BY <4>2, <1>1, <2>2
        <5> QED BY <5>1, <4>2, <2>2, <2>3
      <4> QED BY <3>1, <4>1, <4>2
    <3>3. n <= Len(new)
      BY <3>1, <3>2, <2>2, <2>3
    <3>4. ASSUME NEW j \in 1..n PROVE new[Len(new) - n + j] = ids[j]
      <4>1. CASE j = n
        <5>1. Len(new) - n + j = Len(new)
          BY <4>1, <2>2, <2>3
        <5> QED BY <5>1, <4>1, <2>5 DEF id
      <4>2. CASE j # n
        <5> DEFINE p == Len(new) - n + j
        <5>1. j \in 1..(n - 1) /\ p + 1 = Len(s) - (n - 1) + j /\ p \in 1..(Len(s) - 1) /\ ~(p < gap)
          BY <4>2, <2>1, <2>2, <2>3, <3>1, <3>2
        <5>2. s[p + 1] = ids[j]
          BY <5>1, <2>1
        <5> HIDE DEF p
        <5>3. new[p] = ids[j]
          BY <5>1, <5>2, <3>1
        <5> QED BY <5>3 DEF p
      <4> QED BY <4>1, <4>2
    <3> QED BY <3>3, <3>4, <2>2 DEF T, new
  <2> QED BY <2>5, <2>6, <2>7
<1>6. L \in T
  <2>1. 0..L \subseteq T
    <3> HIDE DEF T, L
    <3> QED BY <1>1, <1>4, <1>5, UpTo
  <2> QED BY <2>1, <1>1
<1>7. R[L] \in Seq(Nat) /\ ids \in Seq(Nat)
  <2>1. R[L] \in Seq(PurchaseIds) /\ PurchaseIds \subseteq Nat
    BY <1>1, <1>3 DEF PurchaseIds
  <2> QED BY <2>1, <1>1, SeqMonotonic
<1>8. EndsWith(R[L], ids)
  BY <1>6 DEF EndsWith
<1> QED BY <1>2, <1>7, <1>8, EndIsSuffix

\* Elements read into a variable stand at its end.
LEMMA LoadedAreLast ==
  ASSUME NEW old \in Seq(Nat), NEW part \in Seq(Nat)
  PROVE  IsSuffix(part, Loaded(old, part, Len(part)))
<1> DEFINE new == Loaded(old, part, Len(part))
<1>1. IsLoaded(Nat, old, part, Len(part), new)
  BY LenProperties, LoadedFacts
<1> HIDE DEF new
<1>2. EndsWith(new, part)
  <2>1. CASE part = <<>>
    <3>1. new = old /\ Len(part) = 0 /\ Len(old) \in Nat
      BY <2>1, <1>1, LenProperties, EmptySeq DEF IsLoaded
    <3> QED BY <3>1 DEF EndsWith
  <2>2. CASE part # <<>>
    BY <2>2, <1>1 DEF IsLoaded
  <2> QED BY <2>1, <2>2
<1>3. new \in Seq(Nat)
  BY <1>1 DEF IsLoaded
<1> QED BY <1>2, <1>3, EndIsSuffix DEF new

\* The content of a cookie has what can be read of items.
HasRecord(content, items) ==
  LET read == Deserialize(Blank, items)
  IN read.ok =>
       /\ \A f \in Fields : read.cookie.field[f] \in {0, content.field[f]}
       /\ IsSuffix(read.cookie.purchaseIds, content.purchaseIds)
       /\ \A r \in RelationIds : IsSuffix(read.cookie.vals[r], content.vals[r])

\* Whatever a cookie had, filled from a record it has that record.
LEMMA FilledHasRecord ==
  ASSUME NEW u, NEW items, RecordOfUser(items, u), NEW old \in Cookie
  PROVE  HasRecord(Deserialize(old, items).cookie, items)
<1> DEFINE read == Deserialize(Blank, items)
           result == Deserialize(old, items)
           content == result.cookie
<1> SUFFICES ASSUME read.ok
             PROVE  /\ \A f \in Fields : read.cookie.field[f] \in {0, content.field[f]}
                    /\ IsSuffix(read.cookie.purchaseIds, content.purchaseIds)
                    /\ \A r \in RelationIds : IsSuffix(read.cookie.vals[r], content.vals[r])
  BY DEF HasRecord
<1>1. PICK s : CookieOf(s, u) /\ \E record \in RecordsOf(s) : IsStartOf(items, record)
  BY DEF RecordOfUser
<1>2. PICK record \in RecordsOf(s) : IsStartOf(items, record)
  BY <1>1
<1>3. s \in Cookie /\ items \in Seq(Nat) /\ Blank \in Cookie
  BY <1>1, BlankFacts DEF CookieOf, RecordOfUser
<1> DEFINE given == Given(s, TRUE)
           ids == s.purchaseIds
           new == Written_vals(s)
<1>4. PICK compatible \in {0, 1} : IsLaidOut(record, compatible, given, ids, new)
  BY <1>2, <1>3, RecordsLaidOut
<1>5. ids \in IdList /\ \A x \in Rids : new[x] \in Seq(Elements)
  BY <1>3, WrittenFacts
<1> HIDE DEF read, result, given
<1>6. /\ ReadAs(compatible, given, ids, new, Blank, items, record, read)
      /\ ReadAs(compatible, given, ids, new, old, items, record, result)
  BY <1>2, <1>3, <1>4, <1>5, LayoutRead DEF read, result
<1>7. compatible = 0
  BY <1>6 DEF ReadAs
<1>8. /\ IsFilled(items, record, Blank, given, ids, new, read.cookie, read.ok)
      /\ IsFilled(items, record, old, given, ids, new, content, result.ok)
  BY <1>6, <1>7 DEF ReadAs
<1>9. result.ok
  BY <1>8 DEF IsFilled
<1>10. HasOf(given, s, read.cookie, read.ok)
  BY <1>3, <1>8, FilledFirst
<1> HIDE DEF ids, new
<1>11. /\ \A f \in Fields : read.cookie.field[f] = given[f]
       /\ read.cookie.purchaseIds = ids
       /\ \A x \in Rids : read.cookie.vals[x] = new[x]
  BY <1>10 DEF HasOf, ids, new
<1>12. /\ \A f \in Fields : content.field[f] = IF given[f] # 0 THEN given[f] ELSE old.field[f]
       /\ content.purchaseIds = AddPurchaseIds(old.purchaseIds, ids)
       /\ \A x \in Rids : content.vals[x] = Loaded(old.vals[x], new[x], Len(new[x]))
  BY <1>8, <1>9 DEF IsFilled
<1>13. IsSuffix(read.cookie.purchaseIds, content.purchaseIds)
  <2>1. old.purchaseIds \in IdList
    BY CookieFacts
  <2> QED BY <2>1, <1>5, <1>11, <1>12, AddedIdsAreLast
<1>14. ASSUME NEW r \in RelationIds PROVE IsSuffix(read.cookie.vals[r], content.vals[r])
  <2>1. r \in Rids
    BY DEF Rids
  <2>2. old.vals[r] \in Seq(Nat) /\ new[r] \in Seq(Nat)
    <3>1. new[r] \in Seq(Elements) /\ Elements \subseteq Nat
      BY <2>1, <1>5, SerializationAssumption
    <3> QED BY <3>1, <2>1, CookieFacts, SeqMonotonic
  <2> QED BY <2>1, <2>2, <1>11, <1>12, LoadedAreLast
<1> QED BY <1>11, <1>12, <1>13, <1>14

\* A cookie that was blank before the load and has its visitor for itself.
IsAlone(c) == before[c] = Blank /\ CookiesOf(users[c]) = {c}

\* What was found is in the cookie it was reported for; a cookie that is alone
\* is blank until it is reported, and then exactly what was found.
FoundIsLoaded ==
  \A n \in DOMAIN reports :
    LET c == reports[n].cookie
    IN c \in Ids /\ (reports[n].success => HasRecord(cookies[c].content, bucket[users[c]]))

\* A cookie that is alone is loaded by one response only.
AloneIsLoadedOnce ==
  \A c \in Ids : IsAlone(c) =>
    /\ (\E i \in DOMAIN pending : pending[i].cookie = c) => cookies[c].content = Blank /\ ReportsOf(c) = {}
    /\ \A n \in ReportsOf(c) : reports[n].success => cookies[c].content = Record(c).cookie

\* What holds of the cookies while a bulk load is under way.
LoadInv == pc = "get" => FoundIsLoaded /\ (~dangling => AloneIsLoadedOnce)

\* At first nothing is reported.
LEMMA LoadInvBegin == ASSUME BulkInv, BeginLoad PROVE LoadInv'
<1>1. /\ reports' = <<>> /\ UNCHANGED <<users, bucket, cookies>> /\ Ids' = Ids
      /\ before' = [c \in Ids |-> cookies[c].content]
  BY DEF BeginLoad, Ids
<1>2. DOMAIN reports' = {} /\ \A c : ReportsOf(c)' = {}
  BY <1>1 DEF ReportsOf
<1>3. FoundIsLoaded'
  BY <1>2 DEF FoundIsLoaded
<1>4. AloneIsLoadedOnce'
  BY <1>1, <1>2 DEF AloneIsLoadedOnce, IsAlone, Blank
<1> QED BY <1>3, <1>4 DEF LoadInv

\* What a response leaves of the cookies.
LEMMA ContentsAfter ==
  ASSUME BulkInv, NEW i \in DOMAIN pending, NEW object, NEW found, Answered(i, object, found)
  PROVE  /\ \A c \in Ids : c # object \/ ~found => cookies'[c].content = cookies[c].content
         /\ found => /\ RecordOfUser(bucket[users[object]], users[object])
                     /\ cookies[object].content \in Cookie
                     /\ cookies'[object].content =
                          Deserialize(cookies[object].content, bucket[users[object]]).cookie
<1>1. object \in DOMAIN cookies /\ users[object] = pending[i].key /\ pending[i].key \in Users
  BY DEF Answered, Ids
<1>2. ASSUME found
      PROVE  cookies' = [cookies EXCEPT ![object] =
               [content |-> Deserialize(cookies[object].content, bucket[users[object]]).cookie, modified |-> TRUE]]
  BY <1>1, <1>2 DEF Answered
<1>3. ASSUME ~found PROVE cookies' = cookies
  BY <1>3 DEF Answered
<1>4. ASSUME found PROVE RecordOfUser(bucket[users[object]], users[object]) /\ cookies[object].content \in Cookie
  <2>1. cookies[object].content \in Cookie
    BY <1>1, IdsFacts DEF BulkInv, Ids
  <2>2. bucket[users[object]] # NoRecord
    BY <1>1, <1>4 DEF Answered
  <2> QED BY <2>1, <2>2, <1>1 DEF BulkInv, BucketInv
<1> QED BY <1>1, <1>2, <1>3, <1>4 DEF Ids

\* A response fills the cookie it is reported for.
LEMMA FoundGet ==
  ASSUME BulkInv, FoundIsLoaded, NEW i \in DOMAIN pending, NEW object, NEW found, Answered(i, object, found)
  PROVE  FoundIsLoaded'
<1>1. Ids' = Ids /\ users' = users /\ bucket' = bucket /\ object \in Ids
  BY DEF Answered
<1>2. ASSUME NEW c \in Ids, HasRecord(cookies[c].content, bucket[users[c]])
      PROVE  HasRecord(cookies'[c].content, bucket[users[c]])
  <2>1. CASE c = object /\ found
    BY <2>1, ContentsAfter, FilledHasRecord
  <2>2. CASE ~(c = object /\ found)
    BY <2>2, <1>2, ContentsAfter
  <2> QED BY <2>1, <2>2
<1>3. ASSUME found PROVE HasRecord(cookies'[object].content, bucket[users[object]])
  BY <1>3, ContentsAfter, FilledHasRecord
<1>4. ASSUME NEW n \in DOMAIN reports'
      PROVE  /\ reports'[n].cookie \in Ids
             /\ reports'[n].success => HasRecord(cookies'[reports'[n].cookie].content, bucket[users[reports'[n].cookie]])
  <2>1. CASE n \in DOMAIN reports
    <3>1. reports'[n] = reports[n]
      BY <2>1 DEF Answered
    <3> QED BY <3>1, <2>1, <1>2 DEF FoundIsLoaded
  <2>2. CASE n = Len(reports) + 1
    <3>1. reports'[n] = [cookie |-> object, success |-> found]
      BY <2>2 DEF Answered
    <3> QED BY <3>1, <1>1, <1>3
  <2> QED BY <2>1, <2>2, <1>4 DEF Answered
<1>5. \A content, items : HasRecord(content, items)' <=> HasRecord(content, items)
  BY DEF HasRecord
<1> QED BY <1>1, <1>4, <1>5 DEF FoundIsLoaded

\* The one response for a cookie that is alone finds it blank.
LEMMA AloneGet ==
  ASSUME BulkInv, pc = "get", ReportsInv, KeysAreOwn, AloneIsLoadedOnce,
         NEW i \in DOMAIN pending, NEW object, NEW found, Answered(i, object, found)
  PROVE  AloneIsLoadedOnce'
<1> DEFINE d == pending[i].cookie
<1>1. /\ Ids' = Ids /\ users' = users /\ bucket' = bucket /\ before' = before /\ object \in Ids
      /\ users[object] = pending[i].key
  BY DEF Answered
<1>2. \A c : Record(c)' = Record(c) /\ (IsAlone(c)' <=> IsAlone(c))
  BY <1>1 DEF Record, IsAlone, CookiesOf
<1>3. users[d] = users[object] /\ d \in Ids
  <2>1. pending[i] \in GetRequest
    BY LenProperties, ElementOfSeq DEF BulkInv, PendingInv
  <2> QED BY <2>1, <1>1 DEF KeysAreOwn, GetRequest
<1>4. ASSUME NEW c \in Ids, IsAlone(c), NEW k \in DOMAIN pending', pending'[k].cookie = c
      PROVE  cookies'[c].content = Blank /\ ReportsOf(c)' = {}
  <2>1. PICK j \in DOMAIN pending : j # i /\ pending[j].cookie = c
    BY <1>4 DEF Answered
  <2>2. cookies[c].content = Blank /\ ReportsOf(c) = {}
    BY <2>1, <1>4 DEF AloneIsLoadedOnce
  <2>3. c # d
    BY <2>1 DEF ReportsInv
  <2>4. c # object
    BY <2>3, <1>3, <1>4 DEF IsAlone, CookiesOf
  <2>5. cookies'[c].content = cookies[c].content
    BY <2>4, ContentsAfter
  <2>6. ReportsOf(c)' = ReportsOf(c)
    BY <2>4 DEF ReportsOf, Answered
  <2> QED BY <2>2, <2>5, <2>6
<1>5. ASSUME NEW c \in Ids, IsAlone(c), NEW n \in DOMAIN reports', reports'[n].cookie = c, reports'[n].success
      PROVE  cookies'[c].content = Record(c).cookie
  <2>1. CASE c = object
    <3>1. d = c
      BY <2>1, <1>3, <1>5 DEF IsAlone, CookiesOf
    <3>2. cookies[c].content = Blank /\ ReportsOf(c) = {}
      BY <3>1, <1>5 DEF AloneIsLoadedOnce
    <3>3. n = Len(reports) + 1
      BY <3>2, <1>5 DEF Answered, ReportsOf
    <3>4. found
      BY <3>3, <1>5 DEF Answered
    <3>5. cookies'[c].content = Deserialize(cookies[c].content, bucket[users[c]]).cookie
      BY <3>4, <2>1, ContentsAfter
    <3> QED BY <3>2, <3>5 DEF Record
  <2>2. CASE c # object
    <3>1. n \in DOMAIN reports /\ reports'[n] = reports[n]
      BY <2>2, <1>5 DEF Answered
    <3>2. cookies[c].content = Record(c).cookie
      BY <3>1, <1>5 DEF AloneIsLoadedOnce, ReportsOf
    <3>3. cookies'[c].content = cookies[c].content
      BY <2>2, ContentsAfter
    <3> QED BY <3>2, <3>3
  <2> QED BY <2>1, <2>2
<1> HIDE DEF d
<1>6. \A c \in Ids' : \A n \in ReportsOf(c)' : n \in DOMAIN reports' /\ reports'[n].cookie = c
  BY DEF ReportsOf
<1>7. (\A c \in Ids : IsAlone(c) =>
        /\ (\E k \in DOMAIN pending : pending[k].cookie = c) => cookies[c].content = Blank /\ ReportsOf(c) = {}
        /\ \A n \in ReportsOf(c) : reports[n].success => cookies[c].content = Record(c).cookie)'
  BY <1>1, <1>2, <1>4, <1>5, <1>6 DEF Blank
<1> QED BY <1>7 DEF AloneIsLoadedOnce

\* Every step keeps it.
LEMMA LoadInvNext == ASSUME BulkInv, ReportInv, LoadInv, [BulkNext]_bulkVars PROVE LoadInv'
<1> SUFFICES ASSUME pc' = "get" PROVE LoadInv'
  BY DEF LoadInv
<1>1. CASE UNCHANGED bulkVars
  <2>1. UNCHANGED <<users, bucket, cookies, pending, reports, before, dangling, pc>>
    BY <1>1 DEF bulkVars
  <2>2. /\ UNCHANGED Ids
        /\ \A c : Record(c)' = Record(c) /\ ReportsOf(c)' = ReportsOf(c) /\ IsAlone(c)' = IsAlone(c)
    <3>1. Ids' = Ids /\ \A u : CookiesOf(u)' = CookiesOf(u)
      BY <2>1 DEF Ids, CookiesOf
    <3>2. \A c : Record(c)' = Record(c)
      BY <2>1 DEF Record, Blank
    <3>3. \A c : ReportsOf(c)' = ReportsOf(c)
      BY <2>1 DEF ReportsOf
    <3>4. \A c : IsAlone(c)' = IsAlone(c)
      BY <2>1, <3>1 DEF IsAlone, Blank
    <3> QED BY <3>1, <3>2, <3>3, <3>4
  <2>3. (FoundIsLoaded => FoundIsLoaded') /\ (AloneIsLoadedOnce => AloneIsLoadedOnce')
    BY <2>1, <2>2 DEF FoundIsLoaded, AloneIsLoadedOnce, HasRecord, Record, Blank
  <2> QED BY <2>1, <2>3 DEF LoadInv
<1>2. CASE BeginLoad
  BY <1>2, LoadInvBegin
<1>3. ASSUME NEW i \in DOMAIN pending, NEW yes \in BOOLEAN, GetResponse(i, yes)
      PROVE  LoadInv'
  <2>1. PICK object, found : Answered(i, object, found)
    BY <1>3, ResponseFacts
  <2>2. pc = "get" /\ dangling' = dangling
    BY <1>3 DEF GetResponse
  <2>3. FoundIsLoaded'
    BY <2>1, <2>2, FoundGet DEF LoadInv
  <2>4. ~dangling => AloneIsLoadedOnce'
    BY <2>1, <2>2, AloneGet DEF LoadInv, ReportInv
  <2> QED BY <2>2, <2>3, <2>4 DEF LoadInv
<1> QED BY <1>1, <1>2, <1>3, StepsOfLoad

(* A cookie reported as loaded has what can be read of its record, and is  *)
(* exactly that if it was blank, alone, and the keys were still there      *)
(* (VCCouchbaseStore.cc:165-254).                                          *)
THEOREM LoadedAsReported == BulkSpec => LoadedHasItsRecord
<1> DEFINE Right == EndLoad =>
             \A n \in DOMAIN reports :
               LET c == reports[n].cookie
                   has == cookies[c].content
               IN reports[n].success /\ Record(c).ok =>
                    /\ \A f \in Fields : Record(c).cookie.field[f] \in {0, has.field[f]}
                    /\ IsSuffix(Record(c).cookie.purchaseIds, has.purchaseIds)
                    /\ \A r \in RelationIds : IsSuffix(Record(c).cookie.vals[r], has.vals[r])
                    /\ before[c] = Blank /\ CookiesOf(users[c]) = {c} /\ ~dangling
                         => has = Record(c).cookie
<1>1. BulkInit => ReportInv /\ LoadInv
  BY DEF BulkInit, ReportInv, LoadInv
<1>2. BulkInv /\ ReportInv /\ LoadInv /\ [BulkNext]_bulkVars => ReportInv' /\ LoadInv'
  BY ReportInvNext, LoadInvNext
<1>3. ASSUME LoadInv, EndLoad PROVE Right
  <2>1. FoundIsLoaded /\ (~dangling => AloneIsLoadedOnce)
    BY <1>3 DEF EndLoad, LoadInv
  <2> SUFFICES ASSUME NEW n \in DOMAIN reports, NEW c, c = reports[n].cookie,
                      NEW has, has = cookies[c].content, reports[n].success, Record(c).ok
               PROVE  /\ \A f \in Fields : Record(c).cookie.field[f] \in {0, has.field[f]}
                      /\ IsSuffix(Record(c).cookie.purchaseIds, has.purchaseIds)
                      /\ \A r \in RelationIds : IsSuffix(Record(c).cookie.vals[r], has.vals[r])
                      /\ before[c] = Blank /\ CookiesOf(users[c]) = {c} /\ ~dangling
                           => has = Record(c).cookie
    OBVIOUS
  <2>2. c \in Ids /\ HasRecord(has, bucket[users[c]])
    BY <2>1 DEF FoundIsLoaded
  <2>3. ASSUME IsAlone(c), ~dangling PROVE has = Record(c).cookie
    <3>1. n \in ReportsOf(c)
      BY DEF ReportsOf
    <3> QED BY <3>1, <2>1, <2>2, <2>3 DEF AloneIsLoadedOnce
  <2> QED BY <2>2, <2>3 DEF HasRecord, Record, IsAlone
<1>4. BulkInv /\ ReportInv /\ LoadInv /\ [BulkNext]_bulkVars => [Right]_bulkVars
  BY <1>3
<1> QED BY <1>1, <1>2, <1>4, BulkInvHolds, PTL DEF BulkSpec, LoadedHasItsRecord

----------------------------------------------------------------------------
(* The trees of InMemoryStore *)

\* Visitor ids (userid, and the two parts of the visitor id) and the nodes of the map.
Key == Nat \X Nat \X Nat
Node == [key : Key, lastHit : Nat, buffer : Seq(Nat)]

\* A tree of n nodes has its root in the middle.
RootFits(n, root) == \/ n = 0 /\ root = 0
                     \/ n = 1 /\ root = 1
                     \/ n = 2 /\ root \in {1, 2}
                     \/ n = 3 /\ root = 2

\* A tree of at most three nodes in the shape the balancing gives it.
IsTree(t) == /\ t \in [nodes : Seq(Node), root : Nat]
             /\ RootFits(Len(t.nodes), t.root)

\* Of two ids that are not below each other, both are the same.
LEMMA KeysCompared ==
  ASSUME NEW a \in Key, NEW b \in Key
  PROVE  /\ ~Less(a, a)
         /\ Less(a, b) \in BOOLEAN
         /\ ~Less(a, b) /\ ~Less(b, a) => a = b
<1>1. /\ a = <<a[1], a[2], a[3]>> /\ a[1] \in Nat /\ a[2] \in Nat /\ a[3] \in Nat
      /\ b = <<b[1], b[2], b[3]>> /\ b[1] \in Nat /\ b[2] \in Nat /\ b[3] \in Nat
  BY DEF Key
<1>2. 1..3 = {1, 2, 3}
  OBVIOUS
<1>3. Less(a, b) <=> a[1] < b[1] \/ a[2] < b[2] \/ a[3] < b[3]
  BY <1>2 DEF Less
<1>4. Less(b, a) <=> b[1] < a[1] \/ b[2] < a[2] \/ b[3] < a[3]
  BY <1>2 DEF Less
<1>5. ~Less(a, a)
  BY <1>1, <1>2 DEF Less
<1>6. ASSUME ~Less(a, b), ~Less(b, a) PROVE a = b
  <2>1. a[1] = b[1] /\ a[2] = b[2] /\ a[3] = b[3]
    BY <1>6, <1>1, <1>3, <1>4
  <2> QED BY <2>1, <1>1
<1> QED BY <1>5, <1>6 DEF Less

\* What is known of the nodes of a tree.
LEMMA TreeFacts ==
  ASSUME NEW t, IsTree(t)
  PROVE  /\ t.nodes \in Seq(Node) /\ Len(t.nodes) \in 0..3 /\ DOMAIN t.nodes = 1..Len(t.nodes)
         /\ t.root \in 0..Len(t.nodes)
         /\ \A p \in DOMAIN t.nodes : /\ t.nodes[p] \in Node /\ KeyAt(t, p) = t.nodes[p].key
                                      /\ KeyAt(t, p) \in Key
<1>1. t.nodes \in Seq(Node)
  BY DEF IsTree
<1>2. Len(t.nodes) \in Nat /\ DOMAIN t.nodes = 1..Len(t.nodes)
  BY <1>1, LenProperties
<1>3. Len(t.nodes) \in 0..3 /\ t.root \in 0..Len(t.nodes)
  BY <1>2 DEF IsTree, RootFits
<1>4. \A p \in DOMAIN t.nodes : t.nodes[p] \in Node
  BY <1>1, <1>2, ElementOfSeq
<1> QED BY <1>1, <1>2, <1>3, <1>4 DEF Node, KeyAt

\* It has at most three nodes.
LEMMA TreeNodes ==
  ASSUME NEW t, IsTree(t), NEW p \in DOMAIN t.nodes
  PROVE  p \in 1..3
<1>1. Len(t.nodes) \in 0..3 /\ p \in 1..Len(t.nodes)
  BY TreeFacts
<1> QED BY <1>1

\* Where a descent ends, the node before went right and the node after left.
LEMMA GapFacts ==
  ASSUME NEW t, IsTree(t), NEW Right \in SUBSET DOMAIN t.nodes
  PROVE  /\ Gap(t, Right) \in 0..Len(t.nodes)
         /\ Gap(t, Right) # 0 => Gap(t, Right) \in Right
         /\ Gap(t, Right) # Len(t.nodes) => Gap(t, Right) + 1 \notin Right
<1> DEFINE n == Len(t.nodes)
           root == t.root
           above == {p \in Right : p > root}
           below == {p \in Right : p < root}
<1>1. n \in 0..3 /\ root \in 0..n /\ Right \subseteq 1..n /\ RootFits(n, root)
  BY TreeFacts DEF IsTree
<1>2. Gap(t, Right) = IF root \in Right THEN root + Cardinality(above) ELSE Cardinality(below)
  BY DEF Gap
<1> HIDE DEF n, root
<1>3. Cardinality({}) = 0 /\ \A x : Cardinality({x}) = 1
  BY FS_EmptySet, FS_Singleton
<1>4. CASE root \in Right
  <2>1. root \in 1..n /\ n <= root + 1
    BY <1>1, <1>4 DEF RootFits
  <2>2. CASE n = root + 1 /\ n \in Right
    <3>1. above = {n}
      BY <1>1, <2>1, <2>2
    <3>2. Gap(t, Right) = n
      BY <1>1, <1>2, <1>3, <1>4, <2>2, <3>1
    <3> QED BY <3>2, <2>2, <1>1 DEF n
  <2>3. CASE ~(n = root + 1 /\ n \in Right)
    <3>1. above = {}
      BY <1>1, <2>1, <2>3
    <3>2. Gap(t, Right) = root
      BY <1>1, <1>2, <1>3, <1>4, <3>1
    <3>3. root # n => root + 1 \notin Right
      BY <2>1, <2>3, <1>1
    <3> QED BY <3>2, <3>3, <1>4, <1>1 DEF n
  <2> QED BY <2>2, <2>3
<1>5. CASE root \notin Right
  <2>1. root <= 2 /\ (n # 0 => root # 0)
    BY <1>1 DEF RootFits
  <2>2. CASE root = 2 /\ 1 \in Right
    <3>1. below = {1}
      BY <1>1, <2>2
    <3>2. Gap(t, Right) = 1
      BY <1>2, <1>3, <1>5, <3>1
    <3> QED BY <3>2, <2>2, <1>1, <1>5 DEF n
  <2>3. CASE ~(root = 2 /\ 1 \in Right)
    <3>1. below = {}
      BY <1>1, <2>1, <2>3
    <3>2. Gap(t, Right) = 0
      BY <1>2, <1>3, <1>5, <3>1
    <3>3. n # 0 => 1 \notin Right
      BY <2>1, <2>3, <1>1, <1>5
    <3> QED BY <3>2, <3>3, <1>1 DEF n
  <2> QED BY <2>2, <2>3
<1> QED BY <1>4, <1>5

\* What is found for an id has this very id.
LEMMA FindFacts ==
  ASSUME NEW t, IsTree(t), NEW k \in Key
  PROVE  /\ Find(t, k) \in 1..Len(t.nodes) + 1
         /\ Find(t, k) \in DOMAIN t.nodes => KeyAt(t, Find(t, k)) = k
<1> DEFINE Right == {p \in DOMAIN t.nodes : Less(KeyAt(t, p), k)}
           g == Gap(t, Right)
<1>1. /\ Len(t.nodes) \in 0..3 /\ DOMAIN t.nodes = 1..Len(t.nodes)
      /\ \A p \in DOMAIN t.nodes : KeyAt(t, p) \in Key
  BY TreeFacts
<1>2. g \in 0..Len(t.nodes) /\ (g # Len(t.nodes) => g + 1 \notin Right)
  <2>1. Right \in SUBSET DOMAIN t.nodes
    OBVIOUS
  <2> HIDE DEF Right
  <2> QED BY <2>1, GapFacts
<1>3. Find(t, k) = IF g + 1 > Len(t.nodes) \/ Less(k, KeyAt(t, g + 1)) THEN Len(t.nodes) + 1 ELSE g + 1
  BY DEF Find
<1> HIDE DEF g
<1>4. CASE g + 1 > Len(t.nodes) \/ Less(k, KeyAt(t, g + 1))
  <2>1. Find(t, k) = Len(t.nodes) + 1
    BY <1>3, <1>4
  <2> QED BY <2>1, <1>1
<1>5. CASE ~(g + 1 > Len(t.nodes) \/ Less(k, KeyAt(t, g + 1)))
  <2>1. Find(t, k) = g + 1 /\ g + 1 \in DOMAIN t.nodes /\ g # Len(t.nodes)
    BY <1>1, <1>2, <1>3, <1>5
  <2>2. ~Less(KeyAt(t, g + 1), k) /\ ~Less(k, KeyAt(t, g + 1))
    BY <2>1, <1>2, <1>5
  <2>3. KeyAt(t, g + 1) = k
    BY <2>1, <2>2, <1>1, KeysCompared
  <2> QED BY <2>1, <2>3, <1>1
<1> QED BY <1>4, <1>5

\* Where an id would be put, the node before is not above it and the node after
\* is; a node that is found to have the id has this very id.
LEMMA PlaceFacts ==
  ASSUME NEW t, IsTree(t), NEW k \in Key
  PROVE  /\ Place(t, k) \in 0..Len(t.nodes)
         /\ Place(t, k) # Len(t.nodes) => Less(k, KeyAt(t, Place(t, k) + 1))
         /\ HasTwin(t, k) => Place(t, k) \in DOMAIN t.nodes /\ KeyAt(t, Place(t, k)) = k
         /\ ~HasTwin(t, k) /\ Place(t, k) # 0 => Less(KeyAt(t, Place(t, k)), k)
<1> DEFINE Right == {p \in DOMAIN t.nodes : ~Less(k, KeyAt(t, p))}
           g == Place(t, k)
<1>1. /\ Len(t.nodes) \in 0..3 /\ DOMAIN t.nodes = 1..Len(t.nodes)
      /\ \A p \in DOMAIN t.nodes : KeyAt(t, p) \in Key
  BY TreeFacts
<1>2. /\ g \in 0..Len(t.nodes)
      /\ g # 0 => g \in Right
      /\ g # Len(t.nodes) => g + 1 \notin Right
  <2>1. Right \in SUBSET DOMAIN t.nodes /\ g = Gap(t, Right)
    BY DEF Place
  <2> HIDE DEF Right, g
  <2> QED BY <2>1, GapFacts
<1>3. g # Len(t.nodes) => g + 1 \in DOMAIN t.nodes
  BY <1>1, <1>2
<1>4. g # 0 => g \in DOMAIN t.nodes /\ ~Less(k, KeyAt(t, g))
  BY <1>2
<1>5. g # 0 /\ ~Less(KeyAt(t, g), k) => KeyAt(t, g) = k
  BY <1>1, <1>4, KeysCompared
<1> QED BY <1>2, <1>3, <1>4, <1>5 DEF HasTwin

\* insert and the assignment to what it returns: the node of the id has the
\* value, or there is one more node.
IsPut(t, k, node, new) ==
  /\ IsTree(new)
  /\ HasTwin(t, k) => /\ Len(new.nodes) = Len(t.nodes)
                      /\ \A p \in DOMAIN t.nodes :
                           new.nodes[p] = IF p = Place(t, k) THEN node ELSE t.nodes[p]
  /\ ~HasTwin(t, k) => /\ Len(new.nodes) = Len(t.nodes) + 1
                       /\ \A p \in 1..(Len(t.nodes) + 1) :
                            new.nodes[p] = IF p <= Place(t, k) THEN t.nodes[p]
                                           ELSE IF p = Place(t, k) + 1 THEN node ELSE t.nodes[p - 1]

\* The node that a save puts in.
NodeWith(k, value) == [key |-> k, lastHit |-> value.lastHit, buffer |-> value.buffer]

\* A save replaces the node that the search meets or puts one in at its place.
LEMMA PutFacts ==
  ASSUME NEW t, IsTree(t), NEW k \in Key, NEW value \in [lastHit : Nat, buffer : Seq(Nat)],
         HasTwin(t, k) \/ Len(t.nodes) < 3
  PROVE  IsPut(t, k, NodeWith(k, value), Put(t, k, value))
<1> DEFINE g == Place(t, k)
           node == NodeWith(k, value)
           new == Put(t, k, value)
           n == Len(t.nodes)
<1>1. /\ t.nodes \in Seq(Node) /\ n \in 0..3 /\ DOMAIN t.nodes = 1..n /\ RootFits(n, t.root)
      /\ t \in [nodes : Seq(Node), root : Nat]
  BY TreeFacts DEF IsTree
<1>2. g \in 0..n
  BY PlaceFacts
<1>3. node \in Node
  BY DEF NodeWith, Node
<1>4. CASE HasTwin(t, k)
  <2>1. g \in 1..n /\ KeyAt(t, g) = k
    BY <1>1, <1>4, PlaceFacts
  <2>2. new = [t EXCEPT !.nodes[g] = [node EXCEPT !.key = KeyAt(t, g)]]
    BY <1>4, Zenon DEF Put, NodeWith
  <2>3. [node EXCEPT !.key = k] = node
    BY <1>3 DEF NodeWith
  <2>4. new = [t EXCEPT !.nodes[g] = node]
    BY <2>1, <2>2, <2>3
  <2> HIDE DEF node, new, g, n
  <2>5. new.nodes = [t.nodes EXCEPT ![g] = node] /\ new.root = t.root
    BY <2>4, <1>1
  <2>6. g \in 1..Len(t.nodes)
    BY <2>1 DEF n
  <2>7. /\ new.nodes \in Seq(Node) /\ Len(new.nodes) = n
        /\ \A p \in 1..n : new.nodes[p] = IF p = g THEN node ELSE t.nodes[p]
    BY <2>5, <2>6, <1>1, <1>3, SeqUpdated DEF n
  <2>8. new \in [nodes : Seq(Node), root : Nat]
    BY <2>4, <2>5, <2>7, <1>1
  <2>9. IsTree(new)
    BY <2>5, <2>7, <2>8, <1>1 DEF IsTree
  <2> QED BY <2>7, <2>9, <1>1, <1>4 DEF IsPut, node, new, g, n
<1>5. CASE ~HasTwin(t, k)
  <2>1. n \in 0..2
    <3>1. n < 3 /\ n \in 0..3
      BY <1>1, <1>5, Zenon
    <3> HIDE DEF n, new, node, g
    <3> QED BY <3>1
  <2>2. new = [nodes |-> InsertAt(t.nodes, g + 1, node),
               root |-> CASE n = 0 -> 1 [] n = 1 -> IF g = 0 THEN 2 ELSE 1 [] OTHER -> 2]
    BY <1>5, Zenon DEF Put, NodeWith
  <2> HIDE DEF node, new, g
  <2>3. /\ new.nodes = InsertAt(t.nodes, g + 1, node)
        /\ new.root = CASE n = 0 -> 1 [] n = 1 -> IF g = 0 THEN 2 ELSE 1 [] OTHER -> 2
    BY <2>2
  <2>4. g + 1 \in 1..(Len(t.nodes) + 1)
    BY <1>1, <1>2
  <2>5. /\ new.nodes \in Seq(Node) /\ Len(new.nodes) = Len(t.nodes) + 1
        /\ \A i \in 1..(Len(t.nodes) + 1) :
             new.nodes[i] = IF i < g + 1 THEN t.nodes[i] ELSE IF i = g + 1 THEN node ELSE t.nodes[i - 1]
    <3> DEFINE nodes == t.nodes
               q == g + 1
               longer == InsertAt(nodes, q, node)
    <3>1. nodes \in Seq(Node) /\ q \in 1..(Len(nodes) + 1)
      BY <1>1, <2>4
    <3>2. new.nodes = longer
      BY <2>3
    <3>3. /\ longer \in Seq(Node) /\ Len(longer) = Len(nodes) + 1
          /\ \A i \in 1..(Len(nodes) + 1) :
               longer[i] = IF i < q THEN nodes[i] ELSE IF i = q THEN node ELSE nodes[i - 1]
      <4> HIDE DEF n, nodes, q
      <4> QED BY <3>1, <1>3, InsertAtFacts
    <3> HIDE DEF longer
    <3> QED BY <3>2, <3>3
  <2> HIDE DEF n
  <2>6. new.root \in {1, 2} /\ RootFits(n + 1, new.root)
    BY <2>1, <2>3, <1>2 DEF RootFits
  <2>7. new \in [nodes : Seq(Node), root : Nat]
    BY <2>2, <2>3, <2>5, <2>6
  <2>8. IsTree(new)
    BY <2>5, <2>6, <2>7 DEF IsTree, n
  <2>9. \A p \in 1..(Len(t.nodes) + 1) :
          new.nodes[p] = IF p <= g THEN t.nodes[p] ELSE IF p = g + 1 THEN node ELSE t.nodes[p - 1]
    BY <2>5, <1>1, <1>2
  <2> QED BY <2>5, <2>8, <2>9, <1>5 DEF IsPut, node, new, g
<1> QED BY <1>4, <1>5

\* map::erase of one node.
LEMMA EraseAtFacts ==
  ASSUME NEW t, IsTree(t), NEW p \in DOMAIN t.nodes
  PROVE  /\ IsTree(EraseAt(t, p))
         /\ Len(EraseAt(t, p).nodes) = Len(t.nodes) - 1
         /\ \A i \in 1..(Len(t.nodes) - 1) :
              EraseAt(t, p).nodes[i] = IF i < p THEN t.nodes[i] ELSE t.nodes[i + 1]
<1> DEFINE n == Len(t.nodes)
           new == EraseAt(t, p)
           root == t.root
<1>1. /\ t.nodes \in Seq(Node) /\ n \in 0..3 /\ DOMAIN t.nodes = 1..n /\ RootFits(n, root)
      /\ root \in 0..n
  BY TreeFacts DEF IsTree
<1>2. p \in 1..n /\ n \in 1..3
  BY <1>1
<1>3. new = [nodes |-> RemoveAt(t.nodes, p), root |-> IF p < root THEN root - 1 ELSE Min({root, n - 1})]
  BY DEF EraseAt
<1> HIDE DEF new
<1>4. /\ new.nodes \in Seq(Node) /\ Len(new.nodes) = n - 1
      /\ \A i \in 1..(n - 1) : new.nodes[i] = IF i < p THEN t.nodes[i] ELSE t.nodes[i + 1]
  BY <1>1, <1>2, <1>3, RemoveAtFacts
<1> HIDE DEF n, root
<1>5. Min({root, n - 1}) = IF root <= n - 1 THEN root ELSE n - 1
  BY <1>1, <1>2, MinOfTwo
<1>6. new.root \in Nat /\ RootFits(n - 1, new.root)
  BY <1>1, <1>2, <1>3, <1>5 DEF RootFits
<1>7. new \in [nodes : Seq(Node), root : Nat]
  BY <1>3, <1>4, <1>6
<1> QED BY <1>4, <1>6, <1>7 DEF IsTree, n, new

\* The nodes of t are those of t0 that are not in S: the i-th one was at e[i].
Remains(t0, S, t, e) ==
  /\ IsTree(t) /\ e \in [1..Len(t.nodes) -> (DOMAIN t0.nodes) \ S]
  /\ \A i, j \in 1..Len(t.nodes) : i < j => e[i] < e[j]
  /\ \A p \in (DOMAIN t0.nodes) \ S : \E i \in 1..Len(t.nodes) : e[i] = p
  /\ \A i \in 1..Len(t.nodes) : t.nodes[i] = t0.nodes[e[i]]

\* The nodes of S from q on are erased, those before q are where they were.
ErasedFrom(t0, S, q, t, e) ==
  /\ Remains(t0, {p \in S : p >= q}, t, e)
  /\ \A i \in DOMAIN t0.nodes : i < q => i \in 1..Len(t.nodes) /\ e[i] = i

\* One step of the erasure: positions below it are not moved yet.
LEMMA ErasedIfFacts ==
  ASSUME NEW t0, IsTree(t0), NEW S \in SUBSET DOMAIN t0.nodes, NEW q \in 1..3,
         NEW t, NEW e, ErasedFrom(t0, S, q + 1, t, e)
  PROVE  \E f : ErasedFrom(t0, S, q, ErasedIf(t, S, q), f)
<1> DEFINE D == DOMAIN t0.nodes
           n == Len(t.nodes)
           above == {p \in S : p >= q + 1}
           from == {p \in S : p >= q}
<1>1. D \subseteq 1..3 /\ S \subseteq D /\ \A p \in S : p \in 1..3
  <2>1. \A p \in D : p \in 1..3
    BY TreeNodes
  <2>2. S \subseteq D
    OBVIOUS
  <2> HIDE DEF D
  <2> QED BY <2>1, <2>2
<1>0. \A p \in S : p >= q <=> p >= q + 1 \/ p = q
  BY <1>1
<1>2. Remains(t0, above, t, e) /\ \A i \in D : i < q + 1 => i \in 1..n /\ e[i] = i
  BY DEF ErasedFrom
<1>3. IsTree(t) /\ n \in 0..3 /\ DOMAIN t.nodes = 1..n
  BY <1>2, TreeFacts DEF Remains
<1> HIDE DEF D, n
<1>4. CASE q \notin S
  <2>1. from = above
    BY <1>0, <1>4
  <2>2. \A i \in D : i < q => i < q + 1
    BY <1>1
  <2>3. ErasedIf(t, S, q) = t
    BY <1>4 DEF ErasedIf
  <2> HIDE DEF from, above
  <2>4. ErasedFrom(t0, S, q, t, e)
    BY <1>2, <2>1, <2>2 DEF ErasedFrom, D, n, from, above
  <2> QED BY <2>3, <2>4
<1>5. CASE q \in S
  <2> DEFINE new == EraseAt(t, q)
             f == [i \in 1..(n - 1) |-> IF i < q THEN e[i] ELSE e[i + 1]]
  <2>1. q \in D /\ q \in 1..n /\ e[q] = q
    BY <1>1, <1>2, <1>5
  <2>2. /\ IsTree(new) /\ Len(new.nodes) = n - 1
        /\ \A i \in 1..(n - 1) : new.nodes[i] = IF i < q THEN t.nodes[i] ELSE t.nodes[i + 1]
    BY <1>3, <2>1, EraseAtFacts DEF n
  <2>3. /\ e \in [1..n -> D \ above]
        /\ \A i, j \in 1..n : i < j => e[i] < e[j]
        /\ \A p \in D \ above : \E i \in 1..n : e[i] = p
        /\ \A i \in 1..n : t.nodes[i] = t0.nodes[e[i]]
    BY <1>2 DEF Remains, n, D
  <2>4. \A i \in 1..n : e[i] \in D \ above /\ e[i] \in 1..3
    BY <2>3, <1>1
  <2> HIDE DEF new
  <2>5. \A i \in 1..(n - 1) : i < q => i \in 1..n /\ f[i] = e[i] /\ e[i] < q
    BY <1>3, <2>1, <2>3
  <2>6. \A i \in 1..(n - 1) : i >= q => i + 1 \in 1..n /\ f[i] = e[i + 1] /\ e[i + 1] > q
    <3>1. \A i \in 1..(n - 1) : i >= q => i + 1 \in 1..n /\ q < i + 1 /\ f[i] = e[i + 1]
      BY <1>3, <2>1
    <3>2. \A i \in 1..n : q < i => e[q] < e[i]
      BY <2>1, <2>3
    <3> QED BY <3>1, <3>2, <2>1, <2>4
  <2>7. from = above \cup {q}
    BY <1>0, <1>5
  <2>8. \A i \in 1..(n - 1) : f[i] \in D \ from
    <3> SUFFICES ASSUME NEW i \in 1..(n - 1) PROVE f[i] \in D \ from
      OBVIOUS
    <3> HIDE DEF f, from, above
    <3>1. CASE i < q
      <4>1. f[i] = e[i] /\ e[i] < q /\ i \in 1..n
        BY <3>1, <2>5
      <4> QED BY <4>1, <2>4, <2>7
    <3>2. CASE i >= q
      <4>1. f[i] = e[i + 1] /\ e[i + 1] > q /\ i + 1 \in 1..n
        BY <3>2, <2>6
      <4> QED BY <4>1, <2>4, <2>7
    <3> QED BY <3>1, <3>2, <1>3
  <2>9. f \in [1..(n - 1) -> D \ from]
    <3> HIDE DEF from, above
    <3> QED BY <2>8
  <2> HIDE DEF f, from, above
  <2>10. \A i, j \in 1..(n - 1) : i < j => f[i] < f[j]
    <3> SUFFICES ASSUME NEW i \in 1..(n - 1), NEW j \in 1..(n - 1), i < j PROVE f[i] < f[j]
      OBVIOUS
    <3>1. CASE j < q
      <4>1. i < q
        BY <3>1, <1>3
      <4> QED BY <3>1, <4>1, <2>5, <2>3
    <3>2. CASE j >= q /\ i < q
      <4>1. f[i] = e[i] /\ i \in 1..n /\ f[j] = e[j + 1] /\ j + 1 \in 1..n /\ i < j + 1
        BY <3>2, <2>5, <2>6, <1>3
      <4> QED BY <4>1, <2>3
    <3>3. CASE i >= q
      <4>1. j >= q /\ i + 1 < j + 1
        BY <3>3, <1>3
      <4>2. f[i] = e[i + 1] /\ i + 1 \in 1..n /\ f[j] = e[j + 1] /\ j + 1 \in 1..n
        BY <3>3, <4>1, <2>6
      <4> QED BY <4>1, <4>2, <2>3
    <3> QED BY <3>1, <3>2, <3>3, <1>3
  <2>11. ASSUME NEW p \in D \ from PROVE \E i \in 1..(n - 1) : f[i] = p
    <3>1. p \in D \ above /\ p # q
      BY <2>7
    <3>2. PICK i \in 1..n : e[i] = p
      BY <3>1, <2>3
    <3>3. i # q
      BY <3>1, <3>2, <2>1
    <3>4. CASE i < q
      <4>1. i \in 1..(n - 1)
        BY <3>4, <2>1, <1>3
      <4> QED BY <4>1, <3>2, <3>4, <2>5
    <3>5. CASE i > q
      <4>1. i - 1 \in 1..(n - 1) /\ i - 1 >= q /\ (i - 1) + 1 = i
        BY <3>5, <2>1, <1>3
      <4> QED BY <4>1, <3>2, <2>6
    <3> QED BY <3>3, <3>4, <3>5, <2>1, <1>3
  <2>12. ASSUME NEW i \in 1..(n - 1) PROVE new.nodes[i] = t0.nodes[f[i]]
    <3>1. CASE i < q
      BY <3>1, <2>2, <2>3, <2>5
    <3>2. CASE i >= q
      <4>1. ~(i < q)
        BY <3>2, <1>3
      <4> QED BY <3>2, <4>1, <2>2, <2>3, <2>6
    <3> QED BY <3>1, <3>2, <1>3
  <2>13. Remains(t0, from, new, f)
    BY <2>2, <2>9, <2>10, <2>11, <2>12 DEF Remains, D
  <2>14. ASSUME NEW i \in D, i < q PROVE i \in 1..(n - 1) /\ f[i] = i
    <3>1. i < q + 1 /\ i \in 1..3
      BY <2>14, <1>1
    <3>2. i \in 1..n /\ e[i] = i
      BY <3>1, <1>2
    <3>3. i \in 1..(n - 1)
      BY <3>1, <2>1, <2>14, <1>3
    <3> QED BY <3>2, <3>3, <2>5, <2>14
  <2>15. ErasedIf(t, S, q) = new
    BY <1>5 DEF ErasedIf, new
  <2>16. ErasedFrom(t0, S, q, new, f)
    BY <2>2, <2>13, <2>14 DEF ErasedFrom, D, from
  <2> QED BY <2>15, <2>16
<1> QED BY <1>4, <1>5

\* Nodes are erased from the last one to the first.
ErasedInSteps(t, S) ==
  \E id, f, g, h : /\ ErasedFrom(t, S, 4, t, id)
                   /\ ErasedFrom(t, S, 3, ErasedIf(t, S, 3), f)
                   /\ ErasedFrom(t, S, 2, ErasedIf(ErasedIf(t, S, 3), S, 2), g)
                   /\ ErasedFrom(t, S, 1, Erased(t, S), h)

\* The erasure goes from the last position to the first.
LEMMA ErasedSteps ==
  ASSUME NEW t, IsTree(t), NEW S \in SUBSET DOMAIN t.nodes
  PROVE  ErasedInSteps(t, S)
<1> DEFINE n == Len(t.nodes)
           id == [i \in 1..n |-> i]
           t3 == ErasedIf(t, S, 3)
           t2 == ErasedIf(t3, S, 2)
           t1 == ErasedIf(t2, S, 1)
<1>1. n \in 0..3 /\ DOMAIN t.nodes = 1..n
  BY TreeFacts
<1>2. ErasedFrom(t, S, 4, t, id)
  <2>1. {p \in S : p >= 4} = {}
    <3> HIDE DEF n, id
    <3>1. \A p \in 1..n : ~(p >= 4)
      BY <1>1
    <3> QED BY <3>1, <1>1
  <2>2. Remains(t, {}, t, id)
    BY <1>1 DEF Remains
  <2>3. \A i \in DOMAIN t.nodes : i \in 1..Len(t.nodes) /\ id[i] = i
    BY <1>1
  <2> HIDE DEF id, n
  <2> QED BY <2>1, <2>2, <2>3 DEF ErasedFrom
<1> HIDE DEF id, n, t3, t2, t1
<1>3. 3 \in 1..3 /\ 3 + 1 = 4 /\ 2 \in 1..3 /\ 2 + 1 = 3 /\ 1 \in 1..3 /\ 1 + 1 = 2
  OBVIOUS
<1>4. PICK f : ErasedFrom(t, S, 3, t3, f)
  BY <1>2, <1>3, ErasedIfFacts DEF t3
<1>5. PICK g : ErasedFrom(t, S, 2, t2, g)
  BY <1>3, <1>4, ErasedIfFacts DEF t2
<1>6. PICK h : ErasedFrom(t, S, 1, t1, h)
  BY <1>3, <1>5, ErasedIfFacts DEF t1
<1>7. t1 = Erased(t, S)
  BY DEF Erased, t1, t2, t3
<1> QED BY <1>2, <1>4, <1>5, <1>6, <1>7 DEF ErasedInSteps, t2, t3

\* What erasing a set of nodes leaves.
LEMMA ErasedFacts ==
  ASSUME NEW t, IsTree(t), NEW S \in SUBSET DOMAIN t.nodes
  PROVE  \E e : Remains(t, S, Erased(t, S), e)
<1>1. PICK h : ErasedFrom(t, S, 1, Erased(t, S), h)
  BY ErasedSteps DEF ErasedInSteps
<1>2. {p \in S : p >= 1} = S
  <2>1. \A p \in S : p \in 1..3
    BY TreeNodes
  <2> QED BY <2>1
<1> QED BY <1>1, <1>2 DEF ErasedFrom

----------------------------------------------------------------------------
(* What a node of the map keeps of a cookie *)

\* A cookie with the mark of its visitor or none.
MarkedFor(c, k) == c \in Cookie /\ c.field[6] \in {0, MarkOf(k)}

\* The node has what SaveVCookie makes of the cookie s of its visitor.
NodeKeeps(node, s) == /\ MarkedFor(s, node.key)
                      /\ node.lastHit = s.field[LastHitTime] /\ node.buffer = Serialize(s, FALSE)

\* What a cookie, c at first, has that was filled from a node that keeps s.
HasOfNode(node, s, c, new) ==
  /\ new \in Cookie
  /\ \A f \in Fields \ {LastHitTime} : new.field[f] = IF Given(s, FALSE)[f] # 0 THEN Given(s, FALSE)[f] ELSE c.field[f]
  /\ new.field[LastHitTime] = node.lastHit
  /\ new.purchaseIds = AddPurchaseIds(c.purchaseIds, s.purchaseIds)
  /\ \A x \in Rids : new.vals[x] = Loaded(c.vals[x], Written_vals(s)[x], Len(Written_vals(s)[x]))

\* Whatever cookie is filled from a node, all of the node's record is read.
LEMMA NodeRead ==
  ASSUME NEW node \in Node, NEW s, NodeKeeps(node, s), NEW c \in Cookie
  PROVE  FilledFrom(c, node).ok /\ HasOfNode(node, s, c, FilledFrom(c, node).cookie)
<1> DEFINE field == [c.field EXCEPT ![LastHitTime] = node.lastHit]
           old == [c EXCEPT !.field = field]
           record == Serialize(s, FALSE)
           given == Given(s, FALSE)
           result == Deserialize(old, record)
<1>1. s \in Cookie /\ node.buffer = record /\ node.lastHit \in Nat
  BY DEF NodeKeeps, MarkedFor, Node
<1>2. c.field \in [Fields -> Nat] /\ LastHitTime \in Fields
  BY CookieFacts DEF LastHitTime, Fields
<1>3. /\ field \in [Fields -> Nat] /\ field[LastHitTime] = node.lastHit
      /\ \A f \in Fields \ {LastHitTime} : field[f] = c.field[f]
  BY <1>1, <1>2
<1>4. [c EXCEPT !.field[LastHitTime] = node.lastHit] = old
  BY DEF Cookie
<1>5. FilledFrom(c, node) = result
  BY <1>1, <1>4 DEF FilledFrom
<1> HIDE DEF field
<1>6. old \in Cookie /\ old.field = field /\ old.purchaseIds = c.purchaseIds /\ old.vals = c.vals
  BY <1>3 DEF Cookie
<1>7. IsLaidOut(record, 0, given, s.purchaseIds, Written_vals(s))
  BY <1>1, SerializeLaidOut
<1> HIDE DEF old, record, result
<1>8. record \in Seq(Nat) /\ IsStartOf(record, record)
  <2>1. record \in Seq(Nat)
    BY <1>7 DEF IsLaidOut
  <2>2. Len(record) \in Nat
    BY <2>1, LenProperties
  <2> QED BY <2>1, <2>2 DEF IsStartOf
<1>9. ReadAs(0, given, s.purchaseIds, Written_vals(s), old, record, record, result)
  <2> HIDE DEF given
  <2>1. s.purchaseIds \in IdList /\ \A x \in Rids : Written_vals(s)[x] \in Seq(Elements)
    BY <1>1, WrittenFacts
  <2> QED BY <2>1, <1>6, <1>7, <1>8, LayoutRead DEF result
<1>10. IsFilled(record, record, old, given, s.purchaseIds, Written_vals(s), result.cookie, result.ok)
  BY <1>9 DEF ReadAs
<1>11. given[LastHitTime] = 0
  BY <1>2 DEF Given
<1> HIDE DEF given
<1>12. /\ result.ok /\ result.cookie \in Cookie
       /\ \A f \in Fields : result.cookie.field[f] = IF given[f] # 0 THEN given[f] ELSE field[f]
       /\ result.cookie.purchaseIds = AddPurchaseIds(c.purchaseIds, s.purchaseIds)
       /\ \A x \in Rids : result.cookie.vals[x] = Loaded(c.vals[x], Written_vals(s)[x], Len(Written_vals(s)[x]))
  BY <1>6, <1>10 DEF IsFilled
<1>13. \A f \in Fields \ {LastHitTime} : result.cookie.field[f] = IF given[f] # 0 THEN given[f] ELSE c.field[f]
  BY <1>3, <1>12
<1>14. result.cookie.field[LastHitTime] = node.lastHit
  BY <1>2, <1>3, <1>11, <1>12
<1> QED BY <1>5, <1>12, <1>13, <1>14 DEF HasOfNode, given

\* A cookie of the visitor of the node, or a blank one, has the mark of that
\* visitor or none when it was filled.
LEMMA NodeMarks ==
  ASSUME NEW node \in Node, NEW s, NodeKeeps(node, s), NEW c, MarkedFor(c, node.key)
  PROVE  FilledFrom(c, node).ok /\ MarkedFor(FilledFrom(c, node).cookie, node.key)
<1> DEFINE new == FilledFrom(c, node).cookie
<1>1. c \in Cookie /\ s \in Cookie
  BY DEF MarkedFor, NodeKeeps
<1>2. FilledFrom(c, node).ok /\ HasOfNode(node, s, c, new)
  BY <1>1, NodeRead
<1>3. 6 \in Fields \ {LastHitTime} /\ Given(s, FALSE)[6] = s.field[6]
  BY DEF Fields, LastHitTime, Given, Getter
<1> HIDE DEF new
<1>4. new \in Cookie /\ (new.field[6] = s.field[6] \/ new.field[6] = c.field[6])
  BY <1>2, <1>3 DEF HasOfNode
<1>5. s.field[6] \in {0, MarkOf(node.key)} /\ c.field[6] \in {0, MarkOf(node.key)}
  BY DEF MarkedFor, NodeKeeps
<1> QED BY <1>2, <1>4, <1>5 DEF MarkedFor, new

\* A blank cookie is marked for nobody.
LEMMA BlankMarked ==
  ASSUME NEW k
  PROVE  MarkedFor(Blank, k)
BY BlankFacts DEF MarkedFor, Fields

----------------------------------------------------------------------------
(* Trees in order *)

\* No id is below one before it.
Sorted(t) == \A p, q \in DOMAIN t.nodes : p < q => Less(KeyAt(t, p), KeyAt(t, q))

\* All ids of the tree are of these visitors.
KeysAmong(t, keys) == \A p \in DOMAIN t.nodes : KeyAt(t, p) \in keys

\* Among visitors that the comparison orders, it is an order.
LEMMA ChainFacts ==
  ASSUME NEW keys, keys \subseteq Key, IsChain(keys)
  PROVE  /\ \A a, b \in keys : Less(a, b) => ~Less(b, a) /\ a # b
         /\ \A a, b, c \in keys : Less(a, b) /\ Less(b, c) => Less(a, c)
<1>1. ASSUME NEW a \in keys, NEW b \in keys, Less(a, b) PROVE ~Less(b, a) /\ a # b
  <2>1. a # b
    BY <1>1, KeysCompared
  <2> QED BY <2>1, <1>1 DEF IsChain
<1>2. ASSUME NEW a \in keys, NEW b \in keys, NEW c \in keys, Less(a, b), Less(b, c) PROVE Less(a, c)
  <2>1. \A i \in 1..3 : a[i] \in Nat /\ b[i] \in Nat /\ c[i] \in Nat
    <3>1. 1..3 = {1, 2, 3}
      OBVIOUS
    <3>2. a \in Key /\ b \in Key /\ c \in Key
      OBVIOUS
    <3> QED BY <3>1, <3>2 DEF Key
  <2>2. ~Less(c, b)
    BY <1>1, <1>2
  <2>3. PICK i \in 1..3 : a[i] < b[i]
    BY <1>2 DEF Less
  <2>4. ~(c[i] < b[i])
    BY <2>2 DEF Less
  <2>5. a[i] < c[i]
    BY <2>1, <2>3, <2>4
  <2> QED BY <2>5 DEF Less
<1> QED BY <1>1, <1>2

\* In a tree in order each visitor has at most one node, and it is found.
LEMMA FoundInOrder ==
  ASSUME NEW t, IsTree(t), NEW keys, keys \subseteq Key, IsChain(keys), KeysAmong(t, keys), Sorted(t),
         NEW p \in DOMAIN t.nodes
  PROVE  /\ Find(t, KeyAt(t, p)) = p
         /\ \A q \in DOMAIN t.nodes : KeyAt(t, q) = KeyAt(t, p) => q = p
<1> DEFINE k == KeyAt(t, p)
           Right == {q \in DOMAIN t.nodes : Less(KeyAt(t, q), k)}
           g == Gap(t, Right)
           n == Len(t.nodes)
<1>1. n \in 0..3 /\ DOMAIN t.nodes = 1..n /\ p \in 1..n
  BY TreeFacts
<1>2. k \in keys /\ k \in Key /\ ~Less(k, k)
  BY KeysCompared DEF KeysAmong
<1>3. ASSUME NEW q \in DOMAIN t.nodes PROVE /\ q < p => Less(KeyAt(t, q), k)
                                            /\ q > p => Less(k, KeyAt(t, q)) /\ ~Less(KeyAt(t, q), k)
                                            /\ q # p => KeyAt(t, q) # k
  <2>1. KeyAt(t, q) \in keys
    BY DEF KeysAmong
  <2>2. q < p => Less(KeyAt(t, q), k)
    BY DEF Sorted
  <2>3. q > p => Less(k, KeyAt(t, q))
    <3>1. q > p => p < q
      BY <1>1
    <3> QED BY <3>1 DEF Sorted
  <2>4. Less(k, KeyAt(t, q)) => ~Less(KeyAt(t, q), k) /\ KeyAt(t, q) # k
    BY <2>1, <1>2, ChainFacts
  <2>5. Less(KeyAt(t, q), k) => KeyAt(t, q) # k
    BY <2>1, <1>2, ChainFacts
  <2> HIDE DEF k
  <2>6. q # p => q < p \/ q > p
    BY <1>1
  <2> QED BY <2>2, <2>3, <2>4, <2>5, <2>6
<1>4. \A q \in DOMAIN t.nodes : q \in Right <=> q < p
  <2> SUFFICES ASSUME NEW q \in DOMAIN t.nodes PROVE Less(KeyAt(t, q), k) <=> q < p
    OBVIOUS
  <2> HIDE DEF k
  <2>1. q < p \/ q > p \/ q = p
    BY <1>1
  <2>2. q = p => ~Less(KeyAt(t, q), k)
    BY <1>2 DEF k
  <2>3. q > p => ~(q < p)
    BY <1>1
  <2> QED BY <2>1, <2>2, <2>3, <1>3
<1>5. g \in 0..n /\ (g # 0 => g \in Right) /\ (g # n => g + 1 \notin Right)
  <2>1. Right \in SUBSET DOMAIN t.nodes
    OBVIOUS
  <2> HIDE DEF Right
  <2> QED BY <2>1, GapFacts
<1>6. Find(t, k) = IF g + 1 > n \/ Less(k, KeyAt(t, g + 1)) THEN n + 1 ELSE g + 1
  BY DEF Find
<1> HIDE DEF g, k, Right, n
<1>7. g + 1 = p
  <2>1. g # 0 => g < p
    BY <1>1, <1>4, <1>5
  <2>2. g # n => g + 1 \in DOMAIN t.nodes
    BY <1>1, <1>5
  <2>3. g # n => ~(g + 1 < p)
    BY <2>2, <1>4, <1>5
  <2> QED BY <2>1, <2>3, <1>1, <1>5
<1>8. ~(g + 1 > n) /\ ~Less(k, KeyAt(t, g + 1))
  BY <1>1, <1>2, <1>7 DEF k
<1> QED BY <1>3, <1>6, <1>7, <1>8 DEF k

\* insert keeps a tree in order,
LEMMA PutKeepsOrder ==
  ASSUME NEW t, IsTree(t), NEW keys, keys \subseteq Key, IsChain(keys), KeysAmong(t, keys), Sorted(t),
         NEW k \in keys, NEW node, node.key = k, NEW new, IsPut(t, k, node, new)
  PROVE  Sorted(new)
<1> DEFINE g == Place(t, k)
           n == Len(t.nodes)
<1>1. n \in 0..3 /\ DOMAIN t.nodes = 1..n
  BY TreeFacts
<1>2. k \in Key
  OBVIOUS
<1>3. /\ g \in 0..n
      /\ g # n => Less(k, KeyAt(t, g + 1))
      /\ HasTwin(t, k) => g \in DOMAIN t.nodes /\ KeyAt(t, g) = k
      /\ ~HasTwin(t, k) /\ g # 0 => Less(KeyAt(t, g), k)
  BY <1>2, PlaceFacts
<1>4. IsTree(new) /\ DOMAIN new.nodes = 1..Len(new.nodes)
  BY TreeFacts DEF IsPut
<1>5. CASE HasTwin(t, k)
  <2>1. Len(new.nodes) = n /\ \A p \in DOMAIN t.nodes : new.nodes[p] = IF p = g THEN node ELSE t.nodes[p]
    BY <1>5 DEF IsPut
  <2>2. \A p \in DOMAIN t.nodes : KeyAt(new, p) = KeyAt(t, p)
    <3> SUFFICES ASSUME NEW p \in DOMAIN t.nodes PROVE KeyAt(new, p) = KeyAt(t, p)
      OBVIOUS
    <3>1. CASE p = g
      BY <3>1, <2>1, <1>3, <1>5 DEF KeyAt
    <3>2. CASE p # g
      BY <3>2, <2>1 DEF KeyAt
    <3> QED BY <3>1, <3>2
  <2>3. DOMAIN new.nodes = DOMAIN t.nodes
    BY <2>1, <1>1, <1>4
  <2> QED BY <2>2, <2>3 DEF Sorted
<1>6. CASE ~HasTwin(t, k)
  <2>1. /\ Len(new.nodes) = n + 1
        /\ \A p \in 1..(n + 1) : new.nodes[p] = IF p <= g THEN t.nodes[p] ELSE IF p = g + 1 THEN node ELSE t.nodes[p - 1]
    BY <1>6 DEF IsPut
  <2> HIDE DEF g, n
  <2>2. ASSUME NEW p \in 1..(n + 1)
        PROVE  /\ p <= g => p \in DOMAIN t.nodes /\ KeyAt(new, p) = KeyAt(t, p)
               /\ p = g + 1 => KeyAt(new, p) = k
               /\ p > g + 1 => p - 1 \in DOMAIN t.nodes /\ KeyAt(new, p) = KeyAt(t, p - 1)
    <3>1. /\ p <= g => p \in 1..n
          /\ p = g + 1 => ~(p <= g)
          /\ p > g + 1 => p - 1 \in 1..n /\ ~(p <= g) /\ p # g + 1
      BY <1>1, <1>3
    <3> QED BY <3>1, <2>1, <1>1 DEF KeyAt
  \* The id is above those before its place and below those after it.
  <2>3. ASSUME NEW p \in DOMAIN t.nodes
        PROVE  (p <= g => Less(KeyAt(t, p), k)) /\ (p > g => Less(k, KeyAt(t, p)))
    <3>1. KeyAt(t, p) \in keys
      BY DEF KeysAmong
    <3>2. ASSUME p <= g PROVE Less(KeyAt(t, p), k)
      <4>1. g # 0 /\ g \in DOMAIN t.nodes /\ (p < g \/ p = g)
        BY <3>2, <1>1, <1>3
      <4>2. Less(KeyAt(t, g), k) /\ KeyAt(t, g) \in keys
        BY <4>1, <1>3, <1>6 DEF KeysAmong
      <4>3. p < g => Less(KeyAt(t, p), KeyAt(t, g))
        BY <4>1 DEF Sorted
      <4> QED BY <3>1, <4>1, <4>2, <4>3, ChainFacts
    <3>3. ASSUME p > g PROVE Less(k, KeyAt(t, p))
      <4>1. g # n /\ g + 1 \in DOMAIN t.nodes /\ (g + 1 < p \/ p = g + 1)
        BY <3>3, <1>1, <1>3
      <4>2. Less(k, KeyAt(t, g + 1)) /\ KeyAt(t, g + 1) \in keys
        BY <4>1, <1>3 DEF KeysAmong
      <4>3. g + 1 < p => Less(KeyAt(t, g + 1), KeyAt(t, p))
        BY <4>1 DEF Sorted
      <4> QED BY <3>1, <4>1, <4>2, <4>3, ChainFacts
    <3> QED BY <3>2, <3>3
  <2>4. ASSUME NEW p \in 1..(n + 1), NEW q \in 1..(n + 1), p < q
        PROVE  Less(KeyAt(new, p), KeyAt(new, q))
    <3>1. p \in Nat /\ q \in Nat /\ g \in Nat
      BY <1>3, <1>1
    <3>2. CASE q <= g
      <4>1. p <= g
        BY <3>1, <3>2, <2>4
      <4> QED BY <4>1, <3>2, <2>2, <2>4 DEF Sorted
    <3>3. CASE q = g + 1
      <4>1. p <= g
        BY <3>1, <3>3, <2>4
      <4> QED BY <4>1, <3>3, <2>2, <2>3
    <3>4. CASE q > g + 1 /\ p <= g
      <4>1. p < q - 1
        BY <3>1, <3>4
      <4> QED BY <4>1, <3>4, <2>2 DEF Sorted
    <3>5. CASE q > g + 1 /\ p = g + 1
      <4>1. q - 1 > g
        BY <3>1, <3>5
      <4> QED BY <4>1, <3>5, <2>2, <2>3
    <3>6. CASE p > g + 1
      <4>1. p - 1 < q - 1 /\ q > g + 1
        BY <3>1, <3>6, <2>4
      <4> QED BY <4>1, <3>6, <2>2 DEF Sorted
    <3> QED BY <3>1, <3>2, <3>3, <3>4, <3>5, <3>6
  <2> QED BY <2>1, <2>4, <1>4 DEF Sorted
<1> QED BY <1>5, <1>6

\* and so does erase.
LEMMA EraseKeepsOrder ==
  ASSUME NEW t0, Sorted(t0), NEW S, NEW t, NEW e, Remains(t0, S, t, e)
  PROVE  Sorted(t)
<1>1. IsTree(t) /\ DOMAIN t.nodes = 1..Len(t.nodes)
  BY TreeFacts DEF Remains
<1>2. \A i \in DOMAIN t.nodes : e[i] \in DOMAIN t0.nodes /\ KeyAt(t, i) = KeyAt(t0, e[i])
  BY <1>1 DEF Remains, KeyAt
<1>3. \A i, j \in DOMAIN t.nodes : i < j => e[i] < e[j]
  BY <1>1 DEF Remains
<1> QED BY <1>2, <1>3 DEF Sorted

\* equal_range is made of nodes; in a tree in order, of those that have the id.
LEMMA EqualRangeFacts ==
  ASSUME NEW t, IsTree(t), NEW k \in Key
  PROVE  EqualRange(t, k) \subseteq DOMAIN t.nodes
<1> DEFINE equal == {p \in DOMAIN t.nodes : ~Less(KeyAt(t, p), k) /\ ~Less(k, KeyAt(t, p))}
           next == IF t.nodes = <<>> \/ t.root \in equal THEN t.root
                   ELSE IF Less(KeyAt(t, t.root), k) THEN t.root + 1 ELSE t.root - 1
           left == {p \in 1..t.root - 1 : next = t.root /\ ~Less(KeyAt(t, p), k)}
           right == {p \in t.root + 1..Len(t.nodes) : next = t.root /\ ~Less(k, KeyAt(t, p))}
<1>1. Len(t.nodes) \in 0..3 /\ DOMAIN t.nodes = 1..Len(t.nodes) /\ t.root \in 0..Len(t.nodes)
  BY TreeFacts
<1>2. 1..t.root - 1 \subseteq DOMAIN t.nodes /\ t.root + 1..Len(t.nodes) \subseteq DOMAIN t.nodes
  BY <1>1
<1>3. left \subseteq DOMAIN t.nodes /\ right \subseteq DOMAIN t.nodes /\ equal \subseteq DOMAIN t.nodes
  BY <1>2
<1>4. EqualRange(t, k) = IF next \in equal THEN {next} \cup left \cup right ELSE {}
  BY DEF EqualRange
<1> HIDE DEF equal, next, left, right
<1> QED BY <1>3, <1>4

\* In a tree in order, what equals a key in the comparison has that key.
LEMMA EqualRangeInOrder ==
  ASSUME NEW t, IsTree(t), NEW keys, keys \subseteq Key, IsChain(keys), KeysAmong(t, keys), Sorted(t),
         NEW k \in keys
  PROVE  EqualRange(t, k) = {p \in DOMAIN t.nodes : KeyAt(t, p) = k}
<1> DEFINE equal == {p \in DOMAIN t.nodes : ~Less(KeyAt(t, p), k) /\ ~Less(k, KeyAt(t, p))}
           next == IF t.nodes = <<>> \/ t.root \in equal THEN t.root
                   ELSE IF Less(KeyAt(t, t.root), k) THEN t.root + 1 ELSE t.root - 1
           left == {p \in 1..t.root - 1 : next = t.root /\ ~Less(KeyAt(t, p), k)}
           right == {p \in t.root + 1..Len(t.nodes) : next = t.root /\ ~Less(k, KeyAt(t, p))}
           mine == {p \in DOMAIN t.nodes : KeyAt(t, p) = k}
           n == Len(t.nodes)
           root == t.root
<1>1. n \in 0..3 /\ DOMAIN t.nodes = 1..n /\ root \in 0..n /\ RootFits(n, root) /\ t.nodes \in Seq(Node)
  BY TreeFacts DEF IsTree
<1>2. k \in Key
  OBVIOUS
<1>3. equal = mine
  <2>1. ASSUME NEW p \in DOMAIN t.nodes
        PROVE  ~Less(KeyAt(t, p), k) /\ ~Less(k, KeyAt(t, p)) <=> KeyAt(t, p) = k
    <3>1. KeyAt(t, p) \in Key
      BY DEF KeysAmong
    <3> QED BY <3>1, <1>2, KeysCompared
  <2> QED BY <2>1
<1>4. ASSUME NEW p \in DOMAIN t.nodes, NEW q \in DOMAIN t.nodes, KeyAt(t, q) = k
      PROVE  /\ p < q => Less(KeyAt(t, p), k)
             /\ q < p => Less(k, KeyAt(t, p)) /\ ~Less(KeyAt(t, p), k)
             /\ KeyAt(t, p) = k => p = q
  <2>1. KeyAt(t, p) \in keys
    BY DEF KeysAmong
  <2>2. p < q => Less(KeyAt(t, p), k)
    BY <1>4 DEF Sorted
  <2>3. q < p => Less(k, KeyAt(t, p))
    BY <1>4 DEF Sorted
  <2> QED BY <2>1, <2>2, <2>3, <1>4, ChainFacts, FoundInOrder
<1>5. EqualRange(t, k) = IF next \in equal THEN {next} \cup left \cup right ELSE {}
  BY DEF EqualRange
<1>6. CASE t.nodes = <<>>
  <2>1. DOMAIN t.nodes = {}
    BY <1>6
  <2>2. equal = {} /\ mine = {}
    BY <2>1
  <2> HIDE DEF equal, mine, next, left, right
  <2> QED BY <2>2, <1>5 DEF mine
<1>7. CASE t.nodes # <<>> /\ root \in mine
  <2>1. next = root /\ root \in DOMAIN t.nodes /\ KeyAt(t, root) = k
    BY <1>3, <1>7
  <2>2. left = {}
    <3> SUFFICES ASSUME NEW p \in 1..root - 1 PROVE Less(KeyAt(t, p), k)
      OBVIOUS
    <3>1. p \in DOMAIN t.nodes /\ p < root
      BY <1>1
    <3> QED BY <3>1, <2>1, <1>4
  <2>3. right = {}
    <3> SUFFICES ASSUME NEW p \in root + 1..n PROVE Less(k, KeyAt(t, p))
      OBVIOUS
    <3>1. p \in DOMAIN t.nodes /\ root < p
      BY <1>1
    <3> QED BY <3>1, <2>1, <1>4
  <2>4. mine = {root}
    BY <2>1, <1>4
  <2> HIDE DEF equal, mine, next, left, right
  <2> QED BY <2>1, <2>2, <2>3, <2>4, <1>3, <1>5 DEF mine
<1>8. CASE t.nodes # <<>> /\ root \notin mine
  <2>1. next = IF Less(KeyAt(t, root), k) THEN root + 1 ELSE root - 1
    BY <1>3, <1>8
  <2>2. n # 0
    BY <1>1, <1>8, EmptySeq
  <2>3. root \in DOMAIN t.nodes /\ n <= root + 1 /\ root <= 2
    <3>1. n \in 0..3 /\ root \in 0..n /\ RootFits(n, root) /\ n # 0
      BY <1>1, <2>2
    <3> HIDE DEF n, root
    <3>2. root \in 1..n /\ n <= root + 1 /\ root <= 2
      BY ONLY <3>1 DEF RootFits
    <3> QED BY <3>2, <1>1
  <2>4. ASSUME NEW p \in mine PROVE p = next /\ mine = {p}
    <3>1. p \in DOMAIN t.nodes /\ KeyAt(t, p) = k /\ p # root
      BY <1>8
    <3>2. mine = {p}
      BY <3>1, <1>4
    <3>3. (root < p => Less(KeyAt(t, root), k)) /\ (p < root => ~Less(KeyAt(t, root), k))
      BY <3>1, <2>3, <1>4
    <3> HIDE DEF next, mine
    <3>4. p = next
      BY <3>1, <3>3, <2>1, <2>3, <1>1
    <3> QED BY <3>2, <3>4
  <2>5. next # root
    <3> HIDE DEF next
    <3> QED BY <2>1, <1>1
  <2>6. left = {} /\ right = {}
    BY <2>5
  <2> HIDE DEF equal, mine, next, left, right
  <2>7. CASE mine = {}
    BY <2>7, <1>3, <1>5 DEF mine
  <2>8. CASE mine # {}
    <3>1. PICK p : p \in mine
      BY <2>8
    <3>2. p = next /\ mine = {p}
      BY <3>1, <2>4
    <3> QED BY <3>1, <3>2, <2>6, <1>3, <1>5 DEF mine
  <2> QED BY <2>7, <2>8
<1> QED BY <1>6, <1>7, <1>8

----------------------------------------------------------------------------
(* The inductive invariant of InMemoryStore *)

\* A node that keeps a cookie of one of the visitors of this behaviour.
OwnNode(node) == node.key \in visitors /\ \E s : NodeKeeps(node, s)

\* A cookie of one of the visitors.
OwnCookie(c) ==
  /\ c \in [key : visitors, newCookie : BOOLEAN, modified : BOOLEAN, content : Cookie]
  /\ MarkedFor(c.content, c.key)

\* What holds in every state: each node keeps a record of its visitor.
MemoryInv ==
  /\ visitors \in KeySets /\ hung \in BOOLEAN
  /\ IsTree(tree) /\ Len(tree.nodes) <= MaxRecords
  /\ \A p \in DOMAIN tree.nodes : OwnNode(tree.nodes[p])
  /\ cookie = NoCookie \/ OwnCookie(cookie)
  /\ IsChain(visitors) => Sorted(tree)

\* What is known of the visitors.
LEMMA VisitorFacts ==
  ASSUME visitors \in KeySets
  PROVE  visitors \subseteq Key /\ \A k \in visitors : MarkOf(k) \in Nat
<1>1. UNION KeySets \subseteq Nat \X Nat \X Nat
  BY StoreAssumption
<1>2. visitors \subseteq Key
  BY <1>1 DEF Key
<1>3. ASSUME NEW k \in visitors PROVE MarkOf(k) \in Nat
  <2>1. k[1] \in Nat /\ k[2] \in Nat /\ k[3] \in Nat
    BY <1>2 DEF Key
  <2> QED BY <2>1 DEF MarkOf
<1> QED BY <1>2, <1>3

\* The nodes of the tree, and the ids in it.
LEMMA MemoryFacts ==
  ASSUME MemoryInv
  PROVE  /\ visitors \subseteq Key /\ KeysAmong(tree, visitors) /\ Len(tree.nodes) \in 0..3
         /\ DOMAIN tree.nodes = 1..Len(tree.nodes)
         /\ \A p \in DOMAIN tree.nodes : tree.nodes[p] \in Node /\ KeyAt(tree, p) = tree.nodes[p].key
<1>1. visitors \subseteq Key
  BY VisitorFacts DEF MemoryInv
<1>2. /\ Len(tree.nodes) \in 0..3 /\ DOMAIN tree.nodes = 1..Len(tree.nodes)
      /\ \A p \in DOMAIN tree.nodes : tree.nodes[p] \in Node /\ KeyAt(tree, p) = tree.nodes[p].key
  BY TreeFacts DEF MemoryInv
<1>3. KeysAmong(tree, visitors)
  BY <1>2 DEF KeysAmong, MemoryInv, OwnNode
<1> QED BY <1>1, <1>2, <1>3

\* It holds in an empty store.
LEMMA MemoryInvInit == MemoryInit => MemoryInv
<1> SUFFICES ASSUME MemoryInit PROVE MemoryInv
  OBVIOUS
<1>1. visitors \in KeySets /\ tree = Empty /\ cookie = NoCookie /\ hung = FALSE
  BY DEF MemoryInit
<1>2. tree.nodes = <<>> /\ tree.root = 0 /\ Len(tree.nodes) = 0 /\ DOMAIN tree.nodes = {}
  BY <1>1, EmptySeq DEF Empty
<1>3. tree \in [nodes : Seq(Node), root : Nat]
  <2>1. <<>> \in Seq(Node)
    BY EmptySeq
  <2> QED BY <2>1, <1>1 DEF Empty
<1>4. IsTree(tree)
  BY <1>2, <1>3 DEF IsTree, RootFits
<1>5. Len(tree.nodes) <= MaxRecords
  BY <1>2, StoreAssumption
<1> QED BY <1>1, <1>2, <1>4, <1>5 DEF MemoryInv, Sorted

\* A step that leaves the map alone.
LEMMA TreeUnchanged ==
  ASSUME MemoryInv, UNCHANGED <<visitors, tree>>, hung' \in BOOLEAN, cookie' = NoCookie \/ OwnCookie(cookie')
  PROVE  MemoryInv'
<1>1. \A p \in DOMAIN tree.nodes : OwnNode(tree.nodes[p])'
  BY DEF MemoryInv, OwnNode
<1>2. cookie' = NoCookie \/ OwnCookie(cookie)'
  BY DEF OwnCookie
<1> QED BY <1>1, <1>2 DEF MemoryInv, Sorted, KeyAt, IsTree

\* A step that changes the map, and of the cookie at most its flags.
LEMMA TreeChanged ==
  ASSUME MemoryInv, UNCHANGED <<visitors, hung>>,
         IsTree(tree'), Len(tree'.nodes) <= MaxRecords, \A p \in DOMAIN tree'.nodes : OwnNode(tree'.nodes[p]),
         IsChain(visitors) => Sorted(tree'), cookie' = NoCookie \/ OwnCookie(cookie')
  PROVE  MemoryInv'
<1>1. \A p \in DOMAIN tree'.nodes : OwnNode(tree.nodes[p])'
  BY DEF OwnNode
<1>2. cookie' = NoCookie \/ OwnCookie(cookie)'
  BY DEF OwnCookie
<1> QED BY <1>1, <1>2 DEF MemoryInv

\* What is loaded for a visitor is of that visitor.
LEMMA LoadedIsOwn ==
  ASSUME MemoryInv, NEW k \in visitors, NEW c, MarkedFor(c, k)
  PROVE  /\ LoadVCookie(k, c).ok <=> Find(tree, k) \in DOMAIN tree.nodes
         /\ MarkedFor(LoadVCookie(k, c).cookie, k)
         /\ ~LoadVCookie(k, c).ok => LoadVCookie(k, c).cookie = c
         /\ Find(tree, k) \in DOMAIN tree.nodes => LoadVCookie(k, c) = FilledFrom(c, tree.nodes[Find(tree, k)])
<1> DEFINE p == Find(tree, k)
<1>1. /\ Len(tree.nodes) \in 0..3 /\ DOMAIN tree.nodes = 1..Len(tree.nodes) /\ k \in Key
      /\ \A q \in DOMAIN tree.nodes : tree.nodes[q] \in Node /\ KeyAt(tree, q) = tree.nodes[q].key
  BY MemoryFacts
<1>2. p \in 1..Len(tree.nodes) + 1 /\ (p \in DOMAIN tree.nodes => KeyAt(tree, p) = k)
  BY <1>1, FindFacts DEF MemoryInv
<1>3. LoadVCookie(k, c) = IF p > Len(tree.nodes) THEN [ok |-> FALSE, cookie |-> c] ELSE FilledFrom(c, tree.nodes[p])
  BY DEF LoadVCookie
<1> HIDE DEF p
<1>4. CASE p > Len(tree.nodes)
  <2>1. p \notin DOMAIN tree.nodes
    BY <1>1, <1>2, <1>4
  <2> QED BY <2>1, <1>3, <1>4 DEF p
<1>5. CASE ~(p > Len(tree.nodes))
  <2>1. p \in DOMAIN tree.nodes
    BY <1>1, <1>2, <1>5
  <2>2. tree.nodes[p] \in Node /\ tree.nodes[p].key = k
    BY <2>1, <1>1, <1>2
  <2>3. PICK s : NodeKeeps(tree.nodes[p], s)
    BY <2>1 DEF MemoryInv, OwnNode
  <2>4. FilledFrom(c, tree.nodes[p]).ok /\ MarkedFor(FilledFrom(c, tree.nodes[p]).cookie, k)
    BY <2>2, <2>3, NodeMarks
  <2> QED BY <2>1, <2>4, <1>3, <1>5 DEF p
<1> QED BY <1>4, <1>5

\* A cookie that is saved gets a node of its own, or the one it has.
LEMMA SaveFacts ==
  ASSUME MemoryInv, OwnCookie(cookie), CanSave, SaveVCookie(cookie.key, cookie.content)
  PROVE  \E node : /\ node \in Node /\ NodeKeeps(node, cookie.content) /\ node.key = cookie.key
                   /\ node.lastHit = cookie.content.field[LastHitTime]
                   /\ IsPut(tree, cookie.key, node, tree')
<1> DEFINE k == cookie.key
           c == cookie.content
           value == [lastHit |-> Getter(c, LastHitTime), buffer |-> Serialize(c, FALSE)]
           node == NodeWith(k, value)
<1>1. k \in visitors /\ k \in Key /\ c \in Cookie /\ MarkedFor(c, k)
  BY MemoryFacts DEF OwnCookie
<1>2. Getter(c, LastHitTime) = c.field[LastHitTime] /\ c.field[LastHitTime] \in Nat
  <2>1. LastHitTime \in Fields /\ LastHitTime \notin {3, 5}
    BY DEF LastHitTime, Fields
  <2> QED BY <2>1, <1>1, CookieFacts DEF Getter
<1>3. Serialize(c, FALSE) \in Seq(Nat)
  <2>1. IsLaidOut(Serialize(c, FALSE), 0, Given(c, FALSE), c.purchaseIds, Written_vals(c))
    BY <1>1, SerializeLaidOut
  <2> QED BY <2>1 DEF IsLaidOut
<1>4. value \in [lastHit : Nat, buffer : Seq(Nat)]
  BY <1>2, <1>3
<1>5. HasTwin(tree, k) \/ Len(tree.nodes) < 3
  <2>1. MaxRecords \in 1..3 /\ Len(tree.nodes) \in 0..3
    BY StoreAssumption, MemoryFacts
  <2> QED BY <2>1 DEF CanSave
<1>6. tree' = Put(tree, k, value)
  BY DEF SaveVCookie
<1>7. node = [key |-> k, lastHit |-> c.field[LastHitTime], buffer |-> Serialize(c, FALSE)]
  BY <1>2 DEF NodeWith
<1> HIDE DEF value, k
<1>8. node \in Node
  BY <1>1, <1>4 DEF NodeWith, Node
<1> HIDE DEF node, c
<1>9. IsTree(tree)
  BY DEF MemoryInv
<1>10. IsPut(tree, k, node, tree')
  BY <1>1, <1>4, <1>5, <1>6, <1>9, PutFacts DEF node
<1>11. node.key = k /\ node.lastHit = c.field[LastHitTime] /\ NodeKeeps(node, c)
  BY <1>1, <1>7 DEF NodeKeeps
<1> QED BY <1>8, <1>10, <1>11 DEF c, k

\* A save keeps it.
LEMMA MemoryInvSave ==
  ASSUME MemoryInv, OwnCookie(cookie), CanSave, SaveVCookie(cookie.key, cookie.content),
         UNCHANGED <<visitors, hung>>, cookie' = NoCookie \/ OwnCookie(cookie')
  PROVE  MemoryInv'
<1> DEFINE k == cookie.key
<1>1. PICK node : /\ node \in Node /\ NodeKeeps(node, cookie.content) /\ node.key = k
                  /\ IsPut(tree, k, node, tree')
  BY SaveFacts
<1>2. /\ Len(tree.nodes) \in 0..3 /\ DOMAIN tree.nodes = 1..Len(tree.nodes) /\ visitors \subseteq Key
      /\ KeysAmong(tree, visitors)
  BY MemoryFacts
<1>3. k \in visitors
  BY DEF OwnCookie
<1>4. OwnNode(node)
  BY <1>1, <1>3 DEF OwnNode
<1>5. \A p \in DOMAIN tree.nodes : OwnNode(tree.nodes[p])
  BY DEF MemoryInv
<1>6. IsTree(tree') /\ DOMAIN tree'.nodes = 1..Len(tree'.nodes)
  BY <1>1, TreeFacts DEF IsPut
<1>7. IsChain(visitors) => Sorted(tree')
  BY <1>1, <1>2, <1>3, PutKeepsOrder DEF MemoryInv
<1> HIDE DEF k
<1>8. CASE HasTwin(tree, k)
  <2>1. /\ Len(tree'.nodes) = Len(tree.nodes)
        /\ \A p \in DOMAIN tree.nodes : tree'.nodes[p] = IF p = Place(tree, k) THEN node ELSE tree.nodes[p]
    BY <1>1, <1>8 DEF IsPut
  <2>2. \A p \in DOMAIN tree'.nodes : OwnNode(tree'.nodes[p])
    BY <2>1, <1>2, <1>4, <1>5, <1>6
  <2>3. Len(tree'.nodes) <= MaxRecords
    BY <2>1 DEF MemoryInv
  <2> QED BY <2>2, <2>3, <1>6, <1>7, TreeChanged
<1>9. CASE ~HasTwin(tree, k)
  <2>1. /\ Len(tree'.nodes) = Len(tree.nodes) + 1
        /\ \A p \in 1..(Len(tree.nodes) + 1) :
             tree'.nodes[p] = IF p <= Place(tree, k) THEN tree.nodes[p]
                              ELSE IF p = Place(tree, k) + 1 THEN node ELSE tree.nodes[p - 1]
    BY <1>1, <1>9 DEF IsPut
  <2>2. Place(tree, k) \in 0..Len(tree.nodes)
    <3>1. k \in Key /\ IsTree(tree)
      BY <1>2, <1>3 DEF MemoryInv
    <3> QED BY <3>1, PlaceFacts
  <2>3. ASSUME NEW p \in DOMAIN tree'.nodes PROVE OwnNode(tree'.nodes[p])
    <3>1. p \in 1..(Len(tree.nodes) + 1)
      BY <2>1, <1>6
    <3>2. /\ p <= Place(tree, k) => p \in DOMAIN tree.nodes
          /\ p > Place(tree, k) + 1 => p - 1 \in DOMAIN tree.nodes
          /\ p <= Place(tree, k) \/ p = Place(tree, k) + 1 \/ p > Place(tree, k) + 1
          /\ p = Place(tree, k) + 1 => ~(p <= Place(tree, k))
          /\ p > Place(tree, k) + 1 => ~(p <= Place(tree, k)) /\ p # Place(tree, k) + 1
      BY <3>1, <2>2, <1>2
    <3> QED BY <3>1, <3>2, <2>1, <1>4, <1>5
  <2>4. Len(tree.nodes) < MaxRecords
    BY <1>9 DEF CanSave, k
  <2>5. Len(tree'.nodes) <= MaxRecords
    BY <2>1, <2>4, <1>2, StoreAssumption
  <2> QED BY <2>3, <2>5, <1>6, <1>7, TreeChanged
<1> QED BY <1>8, <1>9

\* Nodes are erased.
LEMMA MemoryInvErase ==
  ASSUME MemoryInv, NEW S \in SUBSET DOMAIN tree.nodes, tree' = Erased(tree, S),
         UNCHANGED <<visitors, cookie, hung>>
  PROVE  MemoryInv'
<1>1. PICK e : Remains(tree, S, tree', e)
  BY ErasedFacts DEF MemoryInv
<1>2. IsTree(tree') /\ DOMAIN tree'.nodes = 1..Len(tree'.nodes) /\ Len(tree'.nodes) \in 0..3
  BY <1>1, TreeFacts DEF Remains
<1>3. \A i \in 1..Len(tree'.nodes) : e[i] \in DOMAIN tree.nodes /\ tree'.nodes[i] = tree.nodes[e[i]]
  BY <1>1 DEF Remains
<1>4. \A i \in DOMAIN tree'.nodes : OwnNode(tree'.nodes[i])
  BY <1>2, <1>3 DEF MemoryInv
<1>5. IsChain(visitors) => Sorted(tree')
  BY <1>1, EraseKeepsOrder DEF MemoryInv
<1>6. Len(tree'.nodes) <= MaxRecords
  <2>1. /\ Len(tree.nodes) \in 0..3 /\ Len(tree.nodes) <= MaxRecords /\ DOMAIN tree.nodes = 1..Len(tree.nodes)
        /\ MaxRecords \in 1..3
    BY MemoryFacts, StoreAssumption DEF MemoryInv
  <2>2. \A i, j \in 1..Len(tree'.nodes) : i < j => e[i] < e[j]
    BY <1>1 DEF Remains
  <2>3. \A i \in 1..Len(tree'.nodes) : e[i] \in 1..Len(tree.nodes)
    BY <2>1, <1>3
  <2> DEFINE m == Len(tree'.nodes)
             n == Len(tree.nodes)
  <2>4. m \in 0..3 /\ n \in 0..3
    BY <1>2, <2>1
  <2> HIDE DEF m, n
  <2>5. m <= n
    <3>1. /\ \A i, j \in 1..m : i < j => e[i] < e[j]
          /\ \A i \in 1..m : e[i] \in 1..n
      BY <2>2, <2>3 DEF m, n
    <3>2. CASE m = 0
      BY <3>2, <2>4
    <3>3. CASE m = 1
      <4>1. e[1] \in 1..n
        BY <3>1, <3>3
      <4> QED BY <4>1, <3>3, <2>4
    <3>4. CASE m = 2
      <4>1. e[1] \in 1..n /\ e[2] \in 1..n /\ e[1] < e[2]
        BY <3>1, <3>4
      <4> QED BY <4>1, <3>4, <2>4
    <3>5. CASE m = 3
      <4>1. e[1] \in 1..n /\ e[2] \in 1..n /\ e[3] \in 1..n /\ e[1] < e[2] /\ e[2] < e[3]
        BY <3>1, <3>5
      <4> QED BY <4>1, <3>5, <2>4
    <3> QED BY <3>2, <3>3, <3>4, <3>5, <2>4
  <2> QED BY <2>1, <2>4, <2>5 DEF m, n
<1>7. cookie' = NoCookie \/ OwnCookie(cookie')
  BY DEF MemoryInv
<1> QED BY <1>2, <1>4, <1>5, <1>6, <1>7, TreeChanged

\* The constructor, and what a cookie is after it.
LEMMA MemoryInvConstruct ==
  ASSUME MemoryInv, NEW k \in visitors, NEW newVisitor \in BOOLEAN, Construct(k, newVisitor)
  PROVE  MemoryInv'
<1> DEFINE got == LoadVCookie(k, Blank)
           isNew == newVisitor \/ ~got.ok
           content == IF newVisitor THEN Blank ELSE got.cookie
<1>1. MarkedFor(Blank, k)
  BY BlankMarked
<1>2. /\ MarkedFor(got.cookie, k)
      /\ got.ok <=> Find(tree, k) \in DOMAIN tree.nodes
  BY <1>1, LoadedIsOwn
<1>3. /\ cookie' = [key |-> k, newCookie |-> isNew, modified |-> FALSE, content |-> content]
      /\ UNCHANGED <<visitors, tree, hung>>
  BY DEF Construct
<1>4. isNew \in BOOLEAN /\ MarkedFor(content, k)
  BY <1>1, <1>2
<1> HIDE DEF isNew, content, got
<1>5. content \in Cookie
  BY <1>4 DEF MarkedFor
<1>6. OwnCookie(cookie')
  BY <1>3, <1>4, <1>5 DEF OwnCookie
<1> QED BY <1>3, <1>6, TreeUnchanged DEF MemoryInv

\* The cookie gets other content and flags.
LEMMA CookieStaysOwn ==
  ASSUME OwnCookie(cookie), NEW content, MarkedFor(content, cookie.key), NEW modified \in BOOLEAN, NEW new,
         new = [cookie EXCEPT !.content = content, !.modified = modified]
  PROVE  OwnCookie(new)
<1> DEFINE rest == [cookie EXCEPT !.content = content]
<1>1. content \in Cookie
  BY DEF MarkedFor
<1>2. /\ rest \in [key : visitors, newCookie : BOOLEAN, modified : BOOLEAN, content : Cookie]
      /\ rest.key = cookie.key /\ rest.content = content
  BY <1>1 DEF OwnCookie
<1>3. new = [rest EXCEPT !.modified = modified]
  BY DEF OwnCookie
<1> HIDE DEF rest
<1>4. /\ new \in [key : visitors, newCookie : BOOLEAN, modified : BOOLEAN, content : Cookie]
      /\ new.key = rest.key /\ new.content = rest.content
  BY <1>2, <1>3
<1> QED BY <1>2, <1>4 DEF OwnCookie

\* A hit keeps it.
LEMMA MemoryInvVisit ==
  ASSUME MemoryInv, NEW time \in Times, Visit(time)
  PROVE  MemoryInv'
<1> DEFINE old == cookie.content
           field == [old.field EXCEPT ![LastHitTime] = time, ![6] = MarkOf(cookie.key)]
           content == [old EXCEPT !.field = field]
<1>1. OwnCookie(cookie)
  BY DEF MemoryInv, Visit
<1>2. old \in Cookie /\ cookie.key \in visitors
  BY <1>1 DEF OwnCookie
<1>3. old.field \in [Fields -> Nat] /\ time \in Nat /\ MarkOf(cookie.key) \in Nat
  BY <1>2, CookieFacts, VisitorFacts, StoreAssumption DEF MemoryInv
<1>4. field \in [Fields -> Nat] /\ field[6] = MarkOf(cookie.key)
  BY <1>3 DEF Fields, LastHitTime
<1>5. /\ cookie' = [cookie EXCEPT !.content.field[LastHitTime] = time, !.content.field[6] = MarkOf(cookie.key),
                                  !.modified = TRUE]
      /\ UNCHANGED <<visitors, tree, hung>>
  BY DEF Visit
<1>6. cookie' = [cookie EXCEPT !.content = content, !.modified = TRUE]
  <2>1. cookie = [key |-> cookie.key, newCookie |-> cookie.newCookie, modified |-> cookie.modified,
                  content |-> cookie.content]
    BY <1>1 DEF OwnCookie
  <2>2. old = [field |-> old.field, purchaseIds |-> old.purchaseIds, known |-> old.known, vals |-> old.vals]
    BY <1>2, CookieFacts
  <2> HIDE DEF old
  <2> QED BY <2>1, <2>2, <1>5 DEF old
<1> HIDE DEF field
<1>7. content \in Cookie /\ content.field = field
  BY <1>2, <1>4, FieldsChanged
<1>8. MarkedFor(content, cookie.key)
  BY <1>4, <1>7 DEF MarkedFor
<1> HIDE DEF content
<1>9. OwnCookie(cookie')
  BY <1>1, <1>6, <1>8, CookieStaysOwn
<1> QED BY <1>5, <1>9, TreeUnchanged DEF MemoryInv

\* The bulk load of the interface keeps it.
LEMMA MemoryInvLoad == ASSUME MemoryInv, LoadVCookies PROVE MemoryInv'
<1> DEFINE k == cookie.key
           content == LoadVCookie(k, cookie.content).cookie
           modified == cookie.modified \/ Find(tree, k) \in DOMAIN tree.nodes
<1>1. OwnCookie(cookie)
  BY DEF MemoryInv, LoadVCookies
<1>2. k \in visitors /\ MarkedFor(cookie.content, k)
  BY <1>1 DEF OwnCookie
<1>3. MarkedFor(content, k)
  BY <1>2, LoadedIsOwn
<1>4. /\ cookie' = [cookie EXCEPT !.content = content, !.modified = modified]
      /\ UNCHANGED <<visitors, tree, hung>>
  <2>1. cookie' = [cookie EXCEPT !.content = LoadVCookie(k, @).cookie,
                                 !.modified = @ \/ Find(tree, k) \in DOMAIN tree.nodes]
    BY DEF LoadVCookies
  <2> QED BY <2>1, <1>1 DEF LoadVCookies, OwnCookie
<1>5. modified \in BOOLEAN
  BY <1>1 DEF OwnCookie
<1> HIDE DEF content, modified
<1>6. OwnCookie(cookie')
  BY <1>1, <1>3, <1>4, <1>5, CookieStaysOwn
<1> QED BY <1>4, <1>6, TreeUnchanged DEF MemoryInv

\* GetVCookie makes the cookie that of the first node's visitor.
LEMMA MemoryInvGet == ASSUME MemoryInv, GetVCookie PROVE MemoryInv'
<1> DEFINE node == tree.nodes[1]
           content == FilledFrom(Blank, node).cookie
<1>1. OwnCookie(cookie) /\ Len(tree.nodes) > 0
  BY DEF MemoryInv, GetVCookie, GetVCookieCount
<1>2. 1 \in DOMAIN tree.nodes
  <2>1. Len(tree.nodes) \in 0..3 /\ DOMAIN tree.nodes = 1..Len(tree.nodes)
    BY MemoryFacts
  <2> QED BY <2>1, <1>1
<1>3. node \in Node /\ OwnNode(node)
  BY <1>2, MemoryFacts DEF MemoryInv
<1>4. PICK s : NodeKeeps(node, s)
  BY <1>3 DEF OwnNode
<1>5. MarkedFor(content, node.key) /\ node.key \in visitors
  BY <1>3, <1>4, BlankMarked, NodeMarks DEF OwnNode
<1>6. /\ cookie' = [cookie EXCEPT !.key = node.key, !.modified = TRUE, !.content = content]
      /\ UNCHANGED <<visitors, tree, hung>>
  BY DEF GetVCookie
<1> HIDE DEF content, node
<1>7. content \in Cookie
  BY <1>5 DEF MarkedFor
<1>8. cookie' = [key |-> node.key, newCookie |-> cookie.newCookie, modified |-> TRUE, content |-> content]
  <2>1. cookie = [key |-> cookie.key, newCookie |-> cookie.newCookie, modified |-> cookie.modified,
                  content |-> cookie.content]
    BY <1>1 DEF OwnCookie
  <2> QED BY <2>1, <1>6
<1>9. cookie.newCookie \in BOOLEAN
  BY <1>1 DEF OwnCookie
<1>10. OwnCookie(cookie')
  BY <1>5, <1>7, <1>8, <1>9 DEF OwnCookie
<1> QED BY <1>6, <1>10, TreeUnchanged DEF MemoryInv

\* Every call keeps it.
LEMMA MemoryInvCall == ASSUME MemoryInv, Call PROVE MemoryInv'
<1>1. ASSUME NEW k \in visitors, NEW newVisitor \in BOOLEAN, Construct(k, newVisitor) PROVE MemoryInv'
  BY <1>1, MemoryInvConstruct
<1>2. ASSUME NEW time \in Times, Visit(time) PROVE MemoryInv'
  BY <1>2, MemoryInvVisit
<1>3. ASSUME NEW time \in Times, DeleteOldVCookies(time) PROVE MemoryInv'
  <2> DEFINE old == {p \in DOMAIN tree.nodes : tree.nodes[p].lastHit < time}
  <2>1. tree' = Erased(tree, old) /\ UNCHANGED <<visitors, cookie, hung>>
    BY <1>3 DEF DeleteOldVCookies, Purge
  <2>2. old \in SUBSET DOMAIN tree.nodes
    OBVIOUS
  <2> HIDE DEF old
  <2> QED BY <2>1, <2>2, MemoryInvErase
<1>4. CASE Store
  <2>1. /\ cookie # NoCookie /\ CanSave /\ SaveVCookie(cookie.key, cookie.content)
        /\ cookie' = [cookie EXCEPT !.modified = FALSE] /\ UNCHANGED <<visitors, hung>>
    BY <1>4 DEF Store
  <2>2. OwnCookie(cookie)
    BY <2>1 DEF MemoryInv
  <2>3. OwnCookie(cookie')
    BY <2>1, <2>2 DEF OwnCookie
  <2> QED BY <2>1, <2>2, <2>3, MemoryInvSave
<1>5. CASE Destroy
  <2>1. cookie # NoCookie /\ cookie' = NoCookie /\ UNCHANGED <<visitors, hung>> /\ OwnCookie(cookie)
    BY <1>5 DEF Destroy, MemoryInv
  <2>2. CASE cookie.modified
    <3>1. CanSave /\ SaveVCookie(cookie.key, cookie.content)
      BY <1>5, <2>2 DEF Destroy
    <3> QED BY <3>1, <2>1, MemoryInvSave
  <2>3. CASE ~cookie.modified
    <3>1. UNCHANGED tree
      BY <1>5, <2>3 DEF Destroy
    <3> QED BY <3>1, <2>1, TreeUnchanged DEF MemoryInv
  <2> QED BY <2>2, <2>3
<1>6. CASE LoadVCookies
  BY <1>6, MemoryInvLoad
<1>7. CASE SaveVCookies
  <2>1. /\ cookie # NoCookie /\ CanSave /\ SaveVCookie(cookie.key, cookie.content)
        /\ UNCHANGED <<visitors, cookie, hung>>
    BY <1>7 DEF SaveVCookies
  <2>2. OwnCookie(cookie)
    BY <2>1 DEF MemoryInv
  <2> QED BY <2>1, <2>2, MemoryInvSave
<1>8. CASE DeleteVCookie
  <2>1. /\ cookie # NoCookie /\ tree' = Erased(tree, EqualRange(tree, cookie.key))
        /\ UNCHANGED <<visitors, cookie, hung>>
    BY <1>8 DEF DeleteVCookie, Erase
  <2>2. cookie.key \in Key
    BY <2>1, MemoryFacts DEF MemoryInv, OwnCookie
  <2>3. EqualRange(tree, cookie.key) \subseteq DOMAIN tree.nodes
    BY <2>2, EqualRangeFacts DEF MemoryInv
  <2> QED BY <2>1, <2>3, MemoryInvErase
<1>9. CASE GetVCookie
  BY <1>9, MemoryInvGet
<1>10. CASE GetVCookieFurther
  BY <1>10, TreeUnchanged DEF GetVCookieFurther, MemoryInv
<1> QED BY <1>1, <1>2, <1>3, <1>4, <1>5, <1>6, <1>7, <1>8, <1>9, <1>10 DEF Call

\* Every step keeps it.
LEMMA MemoryInvNext == ASSUME MemoryInv, [MemoryNext]_memoryVars PROVE MemoryInv'
<1>1. CASE UNCHANGED memoryVars
  BY <1>1, TreeUnchanged DEF memoryVars, MemoryInv
<1>2. CASE ~hung /\ Call
  BY <1>2, MemoryInvCall
<1> QED BY <1>1, <1>2 DEF MemoryNext

(* The inductive invariant of the in-memory store: the map is a tree of    *)
(* nodes that keep what was saved of a cookie of their own visitor, and    *)
(* the caller's cookie has nothing of another's (VCStoreInMemory.h:35-83). *)
THEOREM MemoryInvHolds == MemorySpec => []MemoryInv
BY MemoryInvInit, MemoryInvNext, PTL DEF MemorySpec

\* The invariant has the type invariant.
LEMMA MemoryTypes == ASSUME MemoryInv PROVE MemoryTypeOK
<1>1. tree.root \in 0..Len(tree.nodes) /\ \A p \in DOMAIN tree.nodes : KeyAt(tree, p) \in visitors
  BY TreeFacts, MemoryFacts DEF MemoryInv, KeysAmong
<1>2. ASSUME cookie # NoCookie
      PROVE  /\ cookie.key \in visitors /\ cookie.content \in Cookie
             /\ cookie.newCookie \in BOOLEAN /\ cookie.modified \in BOOLEAN
  BY <1>2 DEF MemoryInv, OwnCookie
<1> QED BY <1>1, <1>2 DEF MemoryTypeOK, MemoryInv

(* No call mixes two visitors up, even where the comparison of their ids   *)
(* is no order (VCStoreInMemory.h:35-83, 121-127).                         *)
THEOREM NeverMixedUpInMemory == MemorySpec => []NoMixUpInMemory
<1>1. MemoryInv => NoMixUpInMemory
  <2> SUFFICES ASSUME MemoryInv PROVE NoMixUpInMemory
    OBVIOUS
  <2>1. ASSUME NEW p \in DOMAIN tree.nodes
        PROVE  /\ FilledFrom(Blank, tree.nodes[p]).ok
               /\ FilledFrom(Blank, tree.nodes[p]).cookie.field[6] \in {0, MarkOf(tree.nodes[p].key)}
    <3>1. tree.nodes[p] \in Node
      BY MemoryFacts
    <3>2. PICK s : NodeKeeps(tree.nodes[p], s)
      BY DEF MemoryInv, OwnNode
    <3> QED BY <3>1, <3>2, BlankMarked, NodeMarks DEF MarkedFor
  <2>2. cookie # NoCookie => cookie.content.field[6] \in {0, MarkOf(cookie.key)}
    BY DEF MemoryInv, OwnCookie, MarkedFor
  <2> QED BY <2>1, <2>2, MemoryTypes DEF NoMixUpInMemory
<1> QED BY <1>1, MemoryInvHolds, PTL

----------------------------------------------------------------------------
(* The nodes of one visitor *)

\* The node of p if it is one of k.
Own(t, k, p) == IF KeyAt(t, p) = k THEN <<t.nodes[p]>> ELSE <<>>
\* The nodes of k as a sequence, in the order of the tree.
Lists(t, k) == [p \in DOMAIN t.nodes |-> Own(t, k, p)]
NodesIn(t, k) == FlattenSeq(Lists(t, k))

\* They are what OthersUndisturbed speaks of, before and after a step.
LEMMA NodesOfIs ==
  ASSUME NEW k
  PROVE  NodesOf(k) = NodesIn(tree, k) /\ NodesOf(k)' = NodesIn(tree', k)
BY DEF NodesOf, NodesIn, Lists, Own

\* They are concatenated position by position.
LEMMA ListsFacts ==
  ASSUME NEW t, IsTree(t), NEW k
  PROVE  /\ Lists(t, k) \in Seq(Seq(Node)) /\ Len(Lists(t, k)) = Len(t.nodes)
         /\ \A p \in 1..Len(t.nodes) : Lists(t, k)[p] = Own(t, k, p)
<1>1. Len(t.nodes) \in 0..3 /\ DOMAIN t.nodes = 1..Len(t.nodes) /\ \A p \in DOMAIN t.nodes : t.nodes[p] \in Node
  BY TreeFacts
<1>2. \A p \in DOMAIN t.nodes : Own(t, k, p) \in Seq(Node)
  BY <1>1, EmptySeq DEF Own
<1>3. Lists(t, k) \in [1..Len(t.nodes) -> Seq(Node)]
  BY <1>1, <1>2 DEF Lists
<1>4. Lists(t, k) \in Seq(Seq(Node)) /\ Len(Lists(t, k)) = Len(t.nodes)
  BY <1>1, <1>3, FunctionIsSeq
<1>5. \A p \in 1..Len(t.nodes) : Lists(t, k)[p] = Own(t, k, p)
  BY <1>1 DEF Lists
<1> QED BY <1>4, <1>5

\* The only node of a visitor, and a visitor without one.
LEMMA OnlyNode ==
  ASSUME NEW t, IsTree(t), NEW k, NEW p \in DOMAIN t.nodes, KeyAt(t, p) = k,
         \A q \in DOMAIN t.nodes : KeyAt(t, q) = k => q = p
  PROVE  NodesIn(t, k) = <<t.nodes[p]>>
<1>1. /\ Lists(t, k) \in Seq(Seq(Node)) /\ Len(Lists(t, k)) = Len(t.nodes)
      /\ \A q \in 1..Len(t.nodes) : Lists(t, k)[q] = Own(t, k, q)
  BY ListsFacts
<1>2. Len(t.nodes) \in 0..3 /\ DOMAIN t.nodes = 1..Len(t.nodes) /\ p \in Nat
  BY TreeFacts, TreeNodes
<1>3. \A q \in 1..Len(Lists(t, k)) : q # p => Lists(t, k)[q] = <<>>
  BY <1>1, <1>2 DEF Own
<1>4. p \in 1..Len(Lists(t, k)) /\ Lists(t, k)[p] = <<t.nodes[p]>>
  BY <1>1, <1>2 DEF Own
<1> QED BY <1>1, <1>2, <1>3, <1>4, FlattenOnly DEF NodesIn

\* A visitor without a node has none in the sequence.
LEMMA NoNodes ==
  ASSUME NEW t, IsTree(t), NEW k, \A q \in DOMAIN t.nodes : KeyAt(t, q) # k
  PROVE  NodesIn(t, k) = <<>>
<1>1. /\ Lists(t, k) \in Seq(Seq(Node)) /\ Len(Lists(t, k)) = Len(t.nodes)
      /\ \A q \in 1..Len(t.nodes) : Lists(t, k)[q] = Own(t, k, q)
  BY ListsFacts
<1>2. Len(t.nodes) \in 0..3 /\ DOMAIN t.nodes = 1..Len(t.nodes)
  BY TreeFacts
<1>3. \A q \in 1..Len(Lists(t, k)) : Lists(t, k)[q] = <<>>
  BY <1>1, <1>2 DEF Own
<1>4. 0 \in Nat /\ 0 \notin 1..Len(Lists(t, k))
  BY <1>1, <1>2
<1> QED BY <1>1, <1>3, <1>4, FlattenOnly DEF NodesIn

\* What is put for one visitor leaves the nodes of the others,
LEMMA PutLeavesOthers ==
  ASSUME NEW t, IsTree(t), NEW k \in Key, NEW node, node.key = k, NEW new, IsPut(t, k, node, new),
         NEW other, other # k
  PROVE  NodesIn(new, other) = NodesIn(t, other)
<1> DEFINE g == Place(t, k)
           n == Len(t.nodes)
           first == Lists(t, other)
           after == Lists(new, other)
<1>1. n \in 0..3 /\ DOMAIN t.nodes = 1..n
  BY TreeFacts
<1>2. /\ first \in Seq(Seq(Node)) /\ Len(first) = n
      /\ \A p \in 1..n : first[p] = Own(t, other, p)
  BY ListsFacts
<1>3. /\ after \in Seq(Seq(Node)) /\ Len(after) = Len(new.nodes)
      /\ \A p \in 1..Len(new.nodes) : after[p] = Own(new, other, p)
  BY ListsFacts DEF IsPut
<1>4. g \in 0..n /\ (HasTwin(t, k) => g \in DOMAIN t.nodes /\ KeyAt(t, g) = k)
  BY PlaceFacts
<1> HIDE DEF first, after
<1>5. CASE HasTwin(t, k)
  <2>1. Len(new.nodes) = n /\ \A p \in DOMAIN t.nodes : new.nodes[p] = IF p = g THEN node ELSE t.nodes[p]
    BY <1>5 DEF IsPut
  <2>2. ASSUME NEW p \in 1..n PROVE after[p] = first[p]
    <3>1. CASE p = g
      <4>1. KeyAt(new, p) = k /\ KeyAt(t, p) = k
        BY <3>1, <2>1, <1>4, <1>5 DEF KeyAt
      <4> QED BY <4>1, <2>1, <1>2, <1>3 DEF Own
    <3>2. CASE p # g
      <4>1. new.nodes[p] = t.nodes[p]
        BY <3>2, <2>1, <1>1
      <4> QED BY <4>1, <2>1, <1>2, <1>3 DEF Own, KeyAt
    <3> QED BY <3>1, <3>2
  <2>3. after = first
    <3> HIDE DEF n
    <3>1. DOMAIN after = 1..n /\ DOMAIN first = 1..n
      BY <2>1, <1>2, <1>3, LenProperties
    <3> QED BY <3>1, <2>2, <1>2, <1>3, SeqEqual
  <2> QED BY <2>3 DEF NodesIn, after, first
<1>6. CASE ~HasTwin(t, k)
  <2>1. /\ Len(new.nodes) = n + 1
        /\ \A p \in 1..(n + 1) : new.nodes[p] = IF p <= g THEN t.nodes[p] ELSE IF p = g + 1 THEN node ELSE t.nodes[p - 1]
    BY <1>6 DEF IsPut
  <2> HIDE DEF n, g
  <2>2. g + 1 \in 1..(n + 1) /\ ~(g + 1 <= g)
    BY <1>1, <1>4
  <2>3. after[g + 1] = <<>>
    <3>1. new.nodes[g + 1] = node
      BY <2>1, <2>2
    <3> QED BY <3>1, <2>1, <2>2, <1>3 DEF Own, KeyAt
  <2>4. ASSUME NEW i \in 1..n
        PROVE  (i < g + 1 => after[i] = first[i]) /\ (i >= g + 1 => after[i + 1] = first[i])
    <3>1. ASSUME i < g + 1 PROVE after[i] = first[i]
      <4>1. i <= g /\ i \in 1..(n + 1)
        BY <3>1, <1>1, <1>4
      <4>2. new.nodes[i] = t.nodes[i]
        BY <4>1, <2>1
      <4> QED BY <4>1, <4>2, <2>1, <1>2, <1>3 DEF Own, KeyAt
    <3>2. ASSUME i >= g + 1 PROVE after[i + 1] = first[i]
      <4>1. ~(i + 1 <= g) /\ i + 1 # g + 1 /\ i + 1 \in 1..(n + 1) /\ (i + 1) - 1 = i
        BY <3>2, <1>1, <1>4
      <4>2. new.nodes[i + 1] = t.nodes[i]
        BY <4>1, <2>1
      <4> QED BY <4>1, <4>2, <2>1, <1>2, <1>3 DEF Own, KeyAt
    <3> QED BY <3>1, <3>2
  <2>5. FlattenSeq(after) = FlattenSeq(first)
    BY <2>1, <2>2, <2>3, <2>4, <1>2, <1>3, FlattenWithout
  <2> QED BY <2>5 DEF NodesIn, after, first
<1> QED BY <1>5, <1>6

\* and so does erasing a node of another.
LEMMA EraseAtLeavesOthers ==
  ASSUME NEW t, IsTree(t), NEW p \in DOMAIN t.nodes, NEW other, KeyAt(t, p) # other
  PROVE  NodesIn(EraseAt(t, p), other) = NodesIn(t, other)
<1> DEFINE new == EraseAt(t, p)
           n == Len(t.nodes)
           m == n - 1
           first == Lists(t, other)
           after == Lists(new, other)
<1>1. n \in 0..3 /\ DOMAIN t.nodes = 1..n /\ p \in 1..n
  BY TreeFacts
<1>2. /\ first \in Seq(Seq(Node)) /\ Len(first) = n
      /\ \A q \in 1..n : first[q] = Own(t, other, q)
  BY ListsFacts
<1>3. /\ IsTree(new) /\ Len(new.nodes) = m
      /\ \A i \in 1..m : new.nodes[i] = IF i < p THEN t.nodes[i] ELSE t.nodes[i + 1]
  BY EraseAtFacts
<1> HIDE DEF new
<1>4. /\ after \in Seq(Seq(Node)) /\ Len(after) = m
      /\ \A q \in 1..m : after[q] = Own(new, other, q)
  BY <1>3, ListsFacts
<1> HIDE DEF first, after, n
<1>5. p \in 1..(m + 1) /\ n = m + 1 /\ m \in Nat
  BY <1>1
<1>6. first[p] = <<>>
  BY <1>1, <1>2 DEF Own
<1> HIDE DEF m
<1>7. ASSUME NEW i \in 1..m PROVE (i < p => first[i] = after[i]) /\ (i >= p => first[i + 1] = after[i])
  <2>1. i \in 1..n /\ i + 1 \in 1..n /\ (i >= p => ~(i < p))
    BY <1>1, <1>5
  <2>2. (i < p => new.nodes[i] = t.nodes[i]) /\ (i >= p => new.nodes[i] = t.nodes[i + 1])
    BY <2>1, <1>3
  <2> QED BY <2>1, <2>2, <1>2, <1>4 DEF Own, KeyAt
<1>8. FlattenSeq(first) = FlattenSeq(after)
  BY <1>2, <1>4, <1>5, <1>6, <1>7, FlattenWithout
<1> QED BY <1>8 DEF NodesIn, new, first, after

\* A step of the erasure leaves the nodes of visitors it does not erase.
LEMMA ErasedIfLeavesOthers ==
  ASSUME NEW t0, IsTree(t0), NEW S \in SUBSET DOMAIN t0.nodes, NEW q \in 1..3,
         NEW t, NEW e, ErasedFrom(t0, S, q + 1, t, e), NEW other, \A p \in S : KeyAt(t0, p) # other
  PROVE  NodesIn(ErasedIf(t, S, q), other) = NodesIn(t, other)
<1>1. CASE q \in S
  <2>1. q \in DOMAIN t0.nodes /\ q < q + 1
    BY <1>1
  <2>2. q \in 1..Len(t.nodes) /\ e[q] = q
    BY <2>1 DEF ErasedFrom
  <2>3. IsTree(t) /\ t.nodes[q] = t0.nodes[q]
    BY <2>2 DEF ErasedFrom, Remains
  <2>4. q \in DOMAIN t.nodes
    BY <2>2, <2>3, TreeFacts
  <2>5. KeyAt(t, q) # other
    BY <1>1, <2>3 DEF KeyAt
  <2>6. ErasedIf(t, S, q) = EraseAt(t, q)
    BY <1>1 DEF ErasedIf
  <2> QED BY <2>3, <2>4, <2>5, <2>6, EraseAtLeavesOthers
<1>2. CASE q \notin S
  BY <1>2 DEF ErasedIf
<1> QED BY <1>1, <1>2

\* So does the erasure as a whole.
LEMMA ErasedLeavesOthers ==
  ASSUME NEW t, IsTree(t), NEW S \in SUBSET DOMAIN t.nodes, NEW other, \A p \in S : KeyAt(t, p) # other
  PROVE  NodesIn(Erased(t, S), other) = NodesIn(t, other)
<1> DEFINE t3 == ErasedIf(t, S, 3)
           t2 == ErasedIf(t3, S, 2)
           t1 == ErasedIf(t2, S, 1)
<1>1. PICK id, f, g, h : /\ ErasedFrom(t, S, 4, t, id) /\ ErasedFrom(t, S, 3, t3, f)
                         /\ ErasedFrom(t, S, 2, t2, g) /\ ErasedFrom(t, S, 1, Erased(t, S), h)
  BY ErasedSteps DEF ErasedInSteps
<1>2. 3 \in 1..3 /\ 3 + 1 = 4 /\ 2 \in 1..3 /\ 2 + 1 = 3 /\ 1 \in 1..3 /\ 1 + 1 = 2
  OBVIOUS
<1> HIDE DEF t1, t2, t3
<1>3. NodesIn(t3, other) = NodesIn(t, other)
  BY <1>1, <1>2, ErasedIfLeavesOthers DEF t3
<1>4. NodesIn(t2, other) = NodesIn(t3, other)
  BY <1>1, <1>2, ErasedIfLeavesOthers DEF t2
<1>5. NodesIn(t1, other) = NodesIn(t2, other)
  BY <1>1, <1>2, ErasedIfLeavesOthers DEF t1
<1>6. t1 = Erased(t, S)
  BY DEF Erased, t1, t2, t3
<1> QED BY <1>3, <1>4, <1>5, <1>6

\* What a cookie's own calls do to the nodes of others.
LEMMA SaveLeavesOthers ==
  ASSUME MemoryInv, OwnCookie(cookie), CanSave, SaveVCookie(cookie.key, cookie.content),
         NEW k, k # cookie.key
  PROVE  NodesOf(k)' = NodesOf(k)
<1>1. PICK node : node.key = cookie.key /\ IsPut(tree, cookie.key, node, tree')
  BY SaveFacts
<1>2. cookie.key \in Key /\ IsTree(tree)
  BY MemoryFacts DEF OwnCookie, MemoryInv
<1>3. NodesIn(tree', k) = NodesIn(tree, k)
  BY <1>1, <1>2, PutLeavesOthers
<1> QED BY <1>3, NodesOfIs

\* Where ids are ordered, a deletion takes the nodes of its visitor only.
LEMMA DeleteLeavesOthers ==
  ASSUME MemoryInv, DeleteVCookie, IsChain(visitors), NEW k, k # cookie.key
  PROVE  NodesOf(k)' = NodesOf(k)
<1> DEFINE S == EqualRange(tree, cookie.key)
<1>1. cookie.key \in visitors /\ tree' = Erased(tree, S)
  BY DEF DeleteVCookie, Erase, MemoryInv, OwnCookie
<1>2. IsTree(tree) /\ Sorted(tree) /\ visitors \subseteq Key /\ KeysAmong(tree, visitors)
  BY MemoryFacts DEF MemoryInv
<1>3. S = {p \in DOMAIN tree.nodes : KeyAt(tree, p) = cookie.key}
  BY <1>1, <1>2, EqualRangeInOrder
<1>4. S \in SUBSET DOMAIN tree.nodes /\ \A p \in S : KeyAt(tree, p) # k
  BY <1>3
<1> HIDE DEF S
<1>5. NodesIn(tree', k) = NodesIn(tree, k)
  BY <1>1, <1>2, <1>4, ErasedLeavesOthers
<1> QED BY <1>5, NodesOfIs

\* Where they are not, a deletion takes the node of another visitor that stands
\* to the left without being below: at 1/1/2, that of 1/1/3.
LEMMA DeleteTakesAnother ==
  ASSUME NEW a \in Node, NEW b \in Node, ~Less(a.key, b.key)
  PROVE  EqualRange([nodes |-> <<a, b>>, root |-> 2], b.key) = {1, 2}
<1> DEFINE t == [nodes |-> <<a, b>>, root |-> 2]
           equal == {p \in DOMAIN t.nodes : ~Less(KeyAt(t, p), b.key) /\ ~Less(b.key, KeyAt(t, p))}
           next == IF t.nodes = <<>> \/ t.root \in equal THEN t.root
                   ELSE IF Less(KeyAt(t, t.root), b.key) THEN t.root + 1 ELSE t.root - 1
           left == {p \in 1..t.root - 1 : next = t.root /\ ~Less(KeyAt(t, p), b.key)}
           right == {p \in t.root + 1..Len(t.nodes) : next = t.root /\ ~Less(b.key, KeyAt(t, p))}
<1>1. t.root = 2 /\ Len(t.nodes) = 2 /\ DOMAIN t.nodes = {1, 2} /\ KeyAt(t, 1) = a.key /\ KeyAt(t, 2) = b.key
  BY DEF KeyAt
<1>2. ~Less(b.key, b.key)
  BY DEF Less, Node, Key
<1>3. 2 \in equal /\ equal \subseteq {1, 2}
  BY <1>1, <1>2
<1>4. next = 2 /\ 1 \in left /\ left \subseteq {1} /\ right = {}
  <2>1. next = 2
    BY <1>1, <1>3
  <2>2. 1..t.root - 1 = {1} /\ t.root + 1..Len(t.nodes) = {}
    BY <1>1
  <2> QED BY <1>1, <2>1, <2>2
<1>5. EqualRange(t, b.key) = IF next \in equal THEN {next} \cup left \cup right ELSE {}
  BY DEF EqualRange
<1> HIDE DEF equal, next, left, right
<1> QED BY <1>3, <1>4, <1>5

\* The same for every call but a purge.
LEMMA OthersAfterCall ==
  ASSUME MemoryInv, Call, \A time \in Times : ~DeleteOldVCookies(time), DeleteVCookie => IsChain(visitors),
         NEW k, cookie = NoCookie \/ k # cookie.key
  PROVE  NodesOf(k)' = NodesOf(k)
<1>1. CASE UNCHANGED tree
  BY <1>1, NodesOfIs
<1>2. CASE Store \/ SaveVCookies \/ (Destroy /\ cookie.modified)
  <2>1. cookie # NoCookie /\ CanSave /\ SaveVCookie(cookie.key, cookie.content)
    BY <1>2 DEF Store, SaveVCookies, Destroy
  <2>2. OwnCookie(cookie)
    BY <2>1 DEF MemoryInv
  <2> QED BY <2>1, <2>2, SaveLeavesOthers
<1>3. CASE DeleteVCookie
  <2>1. k # cookie.key
    BY <1>3 DEF DeleteVCookie
  <2> QED BY <2>1, <1>3, DeleteLeavesOthers
<1> QED BY <1>1, <1>2, <1>3 DEF Call, Construct, Visit, Destroy, LoadVCookies, GetVCookie, GetVCookieFurther

(* Loading and saving the cookie of one visitor leaves the records of all  *)
(* others, whatever the comparison makes of their ids; deleting it does if *)
(* the comparison orders them (VCStoreInMemory.h:35-83).                   *)
THEOREM OthersStay == MemorySpec => OthersUndisturbed
<1>1. ASSUME MemoryInv, [MemoryNext]_memoryVars
      PROVE  [(\A time \in Times : ~DeleteOldVCookies(time)) /\ (DeleteVCookie => IsChain(visitors)) =>
                \A k \in visitors : (cookie = NoCookie \/ k # cookie.key) => NodesOf(k)' = NodesOf(k)]_memoryVars
  <2>1. CASE UNCHANGED memoryVars
    BY <2>1
  <2>2. CASE Call
    BY <2>2, <1>1, OthersAfterCall
  <2> QED BY <2>1, <2>2, <1>1 DEF MemoryNext
<1> QED BY <1>1, MemoryInvHolds, PTL DEF MemorySpec, OthersUndisturbed

----------------------------------------------------------------------------
(* What the interface promises *)

\* A blank cookie that was filled from a node is written as the node has it.
LEMMA ReadIsWritten ==
  ASSUME NEW node \in Node, NEW s, NodeKeeps(node, s), NEW new, HasOfNode(node, s, Blank, new)
  PROVE  Serialize(new, FALSE) = node.buffer
<1>1. s \in Cookie /\ node.buffer = Serialize(s, FALSE) /\ node.lastHit = s.field[LastHitTime]
  BY DEF NodeKeeps, MarkedFor
<1>2. s.purchaseIds \in IdList /\ \A x \in Rids : Written_vals(s)[x] \in Seq(Nat)
  <2>1. \A x \in Rids : Written_vals(s)[x] \in Seq(Elements)
    BY <1>1, WrittenFacts
  <2>2. Elements \subseteq Nat
    BY SerializationAssumption
  <2>3. Seq(Elements) \subseteq Seq(Nat)
    BY <2>2, SeqMonotonic
  <2> QED BY <2>1, <2>3, <1>1, CookieFacts
<1>3. ASSUME NEW f \in Fields, f # LastHitTime PROVE Getter(new, f) = Getter(s, f)
  <2>1. CASE f \in {3, 5}
    <3>1. Getter(new, f) = new.field[LastHitTime] /\ Getter(s, f) = s.field[LastHitTime]
      BY <2>1 DEF Getter
    <3> QED BY <3>1, <1>1 DEF HasOfNode
  <2>2. CASE f \notin {3, 5}
    <3>1. Getter(new, f) = new.field[f] /\ Getter(s, f) = s.field[f]
      BY <2>2 DEF Getter
    <3>2. Given(s, FALSE)[f] = s.field[f]
      BY <3>1, <1>3 DEF Given
    <3>3. Blank.field[f] = 0
      BY BlankFacts
    <3>4. new.field[f] = IF Given(s, FALSE)[f] # 0 THEN Given(s, FALSE)[f] ELSE Blank.field[f]
      BY <1>3 DEF HasOfNode
    <3> QED BY <3>1, <3>2, <3>3, <3>4
  <2> QED BY <2>1, <2>2
<1>4. new.purchaseIds = s.purchaseIds
  <2>1. Blank.purchaseIds = <<>>
    BY BlankFacts
  <2> QED BY <2>1, <1>2, PurchaseIdsOntoNothing DEF HasOfNode
<1>5. \A r \in RelationIds : new.vals[r] = s.vals[r]
  <2> SUFFICES ASSUME NEW r \in RelationIds PROVE new.vals[r] = s.vals[r]
    OBVIOUS
  <2>1. r \in Rids /\ Blank.vals[r] = <<>> /\ Written_vals(s)[r] = s.vals[r]
    BY RidFacts, BlankFacts DEF Written_vals
  <2>2. new.vals[r] = Loaded(<<>>, Written_vals(s)[r], Len(Written_vals(s)[r]))
    BY <2>1 DEF HasOfNode
  <2>3. Written_vals(s)[r] \in Seq(Nat) /\ Len(Written_vals(s)[r]) \in Nat
    BY <2>1, <1>2, LenProperties
  <2> QED BY <2>1, <2>2, <2>3, LoadedOntoNothing
<1>6. AddFields(new, FALSE) = AddFields(s, FALSE)
  <2>1. \A f \in Fields : (IF f = LastHitTime /\ ~FALSE THEN <<>> ELSE AddField(f, Getter(new, f)))
                            = IF f = LastHitTime /\ ~FALSE THEN <<>> ELSE AddField(f, Getter(s, f))
    BY <1>3
  <2>2. [f \in Fields |-> IF f = LastHitTime /\ ~FALSE THEN <<>> ELSE AddField(f, Getter(new, f))]
          = [f \in Fields |-> IF f = LastHitTime /\ ~FALSE THEN <<>> ELSE AddField(f, Getter(s, f))]
    BY <2>1, Zenon
  <2> QED BY <2>2, <1>4, Zenon DEF AddFields
<1>7. AddVars(new) = AddVars(s)
  <2> DEFINE ids == SetIds(s)
             order == Ascending(ids)
             n == Cardinality(ids)
  <2>1. SetIds(new) = ids
    BY <1>5 DEF SetIds
  <2>2. IsOrder(ids, n, order)
    <3>1. ids \in SUBSET RelationIds
      BY DEF SetIds
    <3> QED BY <3>1, AscendingFacts
  <2>3. \A i \in 1..n : order[i] \in RelationIds
    BY <2>2 DEF IsOrder, SetIds
  <2> HIDE DEF ids, order, n
  <2>4. \A i \in 1..n : AddList(order[i], new.vals[order[i]]) = AddList(order[i], s.vals[order[i]])
    BY <2>3, <1>5
  <2>5. [i \in 1..n |-> AddList(order[i], new.vals[order[i]])] = [i \in 1..n |-> AddList(order[i], s.vals[order[i]])]
    BY <2>4, Zenon
  <2>6. /\ AddVars(new) = FlattenSeq([i \in 1..n |-> AddList(order[i], new.vals[order[i]])])
        /\ AddVars(s) = FlattenSeq([i \in 1..n |-> AddList(order[i], s.vals[order[i]])])
    BY <2>1, Zenon DEF AddVars, ids, order, n
  <2> QED BY <2>5, <2>6
<1> QED BY <1>1, <1>6, <1>7 DEF Serialize

\* The record of a node.
StoredIn(node) == [lastHit |-> node.lastHit, buffer |-> node.buffer]
RecordIn(t, k) == IF NodesIn(t, k) = <<>> THEN NoNode ELSE StoredIn(Head(NodesIn(t, k)))

\* It is the record the interface would give, before and after a step.
LEMMA RecordOfIs ==
  ASSUME NEW k
  PROVE  RecordOf(k) = RecordIn(tree, k) /\ RecordOf(k)' = RecordIn(tree', k)
BY NodesOfIs DEF RecordOf, RecordIn, StoredIn

\* The node that has the record of k, or none that has one.
HasRecordAt(t, k, p) == p \in DOMAIN t.nodes /\ KeyAt(t, p) = k /\ RecordIn(t, k) = StoredIn(t.nodes[p])
HasNoRecord(t, k) == (\A p \in DOMAIN t.nodes : KeyAt(t, p) # k) /\ RecordIn(t, k) = NoNode

\* Where a visitor has one node, its record is in that node.
LEMMA RecordAt ==
  ASSUME NEW t, IsTree(t), NEW k, NEW p \in DOMAIN t.nodes, KeyAt(t, p) = k,
         \A q \in DOMAIN t.nodes : KeyAt(t, q) = k => q = p
  PROVE  HasRecordAt(t, k, p) /\ RecordIn(t, k) # NoNode
<1>1. NodesIn(t, k) = <<t.nodes[p]>>
  BY OnlyNode
<1>2. t.nodes[p] \in Node
  BY TreeFacts
<1>3. StoredIn(t.nodes[p]) \in [lastHit : Nat, buffer : Seq(Nat)]
  BY <1>2 DEF Node, StoredIn
<1>4. StoredIn(t.nodes[p]) # NoNode
  BY <1>3, StoreAssumption
<1>5. <<t.nodes[p]>> # <<>> /\ Head(<<t.nodes[p]>>) = t.nodes[p]
  OBVIOUS
<1>6. RecordIn(t, k) = StoredIn(t.nodes[p])
  BY <1>1, <1>5 DEF RecordIn
<1> QED BY <1>4, <1>6 DEF HasRecordAt

\* Where a visitor has no node, it has no record.
LEMMA NoRecordOf ==
  ASSUME NEW t, IsTree(t), NEW k, \A p \in DOMAIN t.nodes : KeyAt(t, p) # k
  PROVE  HasNoRecord(t, k)
BY NoNodes DEF HasNoRecord, RecordIn

\* In a tree in order, each visitor's record is where it is searched.
LEMMA RecordsInOrder ==
  ASSUME NEW t, IsTree(t), NEW keys, keys \subseteq Key, IsChain(keys), KeysAmong(t, keys), Sorted(t), NEW k \in Key
  PROVE  \/ /\ HasRecordAt(t, k, Find(t, k)) /\ RecordIn(t, k) # NoNode
            /\ \A q \in DOMAIN t.nodes : KeyAt(t, q) = k => q = Find(t, k)
         \/ Find(t, k) \notin DOMAIN t.nodes /\ HasNoRecord(t, k)
<1>1. CASE \E p \in DOMAIN t.nodes : KeyAt(t, p) = k
  <2>1. PICK p \in DOMAIN t.nodes : KeyAt(t, p) = k
    BY <1>1
  <2>2. Find(t, k) = p /\ \A q \in DOMAIN t.nodes : KeyAt(t, q) = k => q = p
    BY <2>1, FoundInOrder
  <2> QED BY <2>1, <2>2, RecordAt
<1>2. CASE \A p \in DOMAIN t.nodes : KeyAt(t, p) # k
  BY <1>2, FindFacts, NoRecordOf
<1> QED BY <1>1, <1>2

\* What is known when the comparison orders the visitors.
LEMMA InOrder ==
  ASSUME MemoryInv, IsChain(visitors)
  PROVE  /\ IsTree(tree) /\ visitors \subseteq Key /\ KeysAmong(tree, visitors) /\ Sorted(tree)
         /\ UNION KeySets \subseteq Key /\ visitors \subseteq UNION KeySets
BY MemoryFacts, StoreAssumption DEF MemoryInv, Key

\* A cookie that is made has the record of its visitor, or is new.
LEMMA MadeOfRecord ==
  ASSUME MemoryInv, IsChain(visitors), NEW k \in visitors, Construct(k, FALSE)
  PROVE  IF RecordOf(k) # NoNode
         THEN /\ ~cookie'.newCookie
              /\ Getter(cookie'.content, LastHitTime) = RecordOf(k).lastHit
              /\ Serialize(cookie'.content, FALSE) = RecordOf(k).buffer
         ELSE cookie'.newCookie /\ cookie'.content = Blank
<1> DEFINE p == Find(tree, k)
           got == LoadVCookie(k, Blank)
<1>1. cookie' = [key |-> k, newCookie |-> FALSE \/ ~got.ok, modified |-> FALSE, content |-> got.cookie]
  BY DEF Construct
<1>2. /\ got.ok <=> p \in DOMAIN tree.nodes
      /\ ~got.ok => got.cookie = Blank
      /\ p \in DOMAIN tree.nodes => got = FilledFrom(Blank, tree.nodes[p])
  BY BlankMarked, LoadedIsOwn
<1>3. \/ HasRecordAt(tree, k, p) /\ RecordIn(tree, k) # NoNode
      \/ p \notin DOMAIN tree.nodes /\ HasNoRecord(tree, k)
  BY InOrder, RecordsInOrder
<1> HIDE DEF p, got
<1>4. cookie'.newCookie = ~got.ok /\ cookie'.content = got.cookie
  BY <1>1
<1>5. CASE HasRecordAt(tree, k, p) /\ RecordIn(tree, k) # NoNode
  <2>1. p \in DOMAIN tree.nodes /\ RecordOf(k) = StoredIn(tree.nodes[p]) /\ RecordOf(k) # NoNode
    BY <1>5, RecordOfIs DEF HasRecordAt
  <2>2. tree.nodes[p] \in Node
    BY <2>1, MemoryFacts
  <2>3. PICK s : NodeKeeps(tree.nodes[p], s)
    BY <2>1 DEF MemoryInv, OwnNode
  <2>4. HasOfNode(tree.nodes[p], s, Blank, got.cookie)
    BY <2>1, <2>2, <2>3, <1>2, BlankFacts, NodeRead
  <2>5. Serialize(got.cookie, FALSE) = tree.nodes[p].buffer
    BY <2>2, <2>3, <2>4, ReadIsWritten
  <2>6. Getter(got.cookie, LastHitTime) = tree.nodes[p].lastHit
    BY <2>4 DEF HasOfNode, Getter, LastHitTime
  <2>7. RecordOf(k).lastHit = tree.nodes[p].lastHit /\ RecordOf(k).buffer = tree.nodes[p].buffer
    BY <2>1 DEF StoredIn
  <2> QED BY <2>1, <2>5, <2>6, <2>7, <1>2, <1>4
<1>6. CASE p \notin DOMAIN tree.nodes /\ HasNoRecord(tree, k)
  <2>1. RecordOf(k) = NoNode
    BY <1>6, RecordOfIs DEF HasNoRecord
  <2> QED BY <2>1, <1>2, <1>4, <1>6
<1> QED BY <1>3, <1>5, <1>6

\* A cookie that is saved is the record of its visitor.
LEMMA SavedIsRecord ==
  ASSUME MemoryInv, MemoryInv', UNCHANGED visitors, IsChain(visitors), OwnCookie(cookie), CanSave,
         SaveVCookie(cookie.key, cookie.content), NEW k, k = cookie.key
  PROVE  RecordOf(k)' = [lastHit |-> cookie.content.field[LastHitTime],
                         buffer |-> Serialize(cookie.content, FALSE)]
<1>1. PICK node : /\ node \in Node /\ NodeKeeps(node, cookie.content) /\ node.key = k
                  /\ node.lastHit = cookie.content.field[LastHitTime]
                  /\ IsPut(tree, k, node, tree')
  BY SaveFacts
<1>2. k \in visitors /\ k \in Key /\ IsTree(tree)
  BY MemoryFacts DEF OwnCookie, MemoryInv
<1>3. IsTree(tree') /\ Sorted(tree') /\ KeysAmong(tree', visitors) /\ visitors \subseteq Key
  <2>1. IsTree(tree') /\ Sorted(tree')
    BY DEF MemoryInv
  <2>2. \A q \in DOMAIN tree'.nodes : tree'.nodes[q].key \in visitors
    BY DEF MemoryInv, OwnNode
  <2> QED BY <2>1, <2>2, MemoryFacts DEF KeysAmong, KeyAt
<1>4. \E p \in DOMAIN tree'.nodes : tree'.nodes[p] = node
  <2> DEFINE g == Place(tree, k)
             n == Len(tree.nodes)
  <2>1. n \in 0..3 /\ DOMAIN tree.nodes = 1..n /\ g \in 0..n /\ (HasTwin(tree, k) => g \in DOMAIN tree.nodes)
    BY <1>2, TreeFacts, PlaceFacts
  <2>2. DOMAIN tree'.nodes = 1..Len(tree'.nodes)
    BY <1>3, TreeFacts
  <2>3. CASE HasTwin(tree, k)
    <3>1. Len(tree'.nodes) = n /\ tree'.nodes[g] = node
      BY <2>1, <2>3, <1>1 DEF IsPut
    <3> QED BY <3>1, <2>1, <2>2, <2>3
  <2>4. CASE ~HasTwin(tree, k)
    <3>1. /\ Len(tree'.nodes) = n + 1
          /\ \A p \in 1..(n + 1) : tree'.nodes[p] = IF p <= g THEN tree.nodes[p] ELSE IF p = g + 1 THEN node ELSE tree.nodes[p - 1]
      BY <2>4, <1>1 DEF IsPut
    <3> HIDE DEF g, n
    <3>2. g + 1 \in 1..(n + 1) /\ ~(g + 1 <= g)
      BY <2>1
    <3> QED BY <3>1, <3>2, <2>2
  <2> QED BY <2>3, <2>4
<1>5. PICK p \in DOMAIN tree'.nodes : tree'.nodes[p] = node
  BY <1>4
<1>6. KeyAt(tree', p) = k
  BY <1>1, <1>5 DEF KeyAt
<1>7. \A q \in DOMAIN tree'.nodes : KeyAt(tree', q) = k => q = p
  BY <1>3, <1>6, FoundInOrder
<1>8. RecordOf(k)' = StoredIn(node)
  BY <1>3, <1>5, <1>6, <1>7, RecordAt, RecordOfIs DEF HasRecordAt
<1> QED BY <1>1, <1>8 DEF StoredIn, NodeKeeps

\* A visitor whose cookie is deleted has no record.
LEMMA DeletedIsGone ==
  ASSUME MemoryInv, IsChain(visitors), DeleteVCookie, NEW k, k = cookie.key
  PROVE  RecordOf(k)' = NoNode
<1> DEFINE S == EqualRange(tree, k)
<1>1. k \in visitors /\ tree' = Erased(tree, S)
  BY DEF DeleteVCookie, Erase, MemoryInv, OwnCookie
<1>2. S = {p \in DOMAIN tree.nodes : KeyAt(tree, p) = k}
  BY <1>1, InOrder, EqualRangeInOrder
<1>3. IsTree(tree) /\ S \in SUBSET DOMAIN tree.nodes
  BY <1>2, InOrder
<1> HIDE DEF S
<1>4. PICK e : Remains(tree, S, tree', e)
  BY <1>1, <1>3, ErasedFacts
<1>5. IsTree(tree') /\ DOMAIN tree'.nodes = 1..Len(tree'.nodes)
  BY <1>4, TreeFacts DEF Remains
<1>6. \A i \in DOMAIN tree'.nodes : e[i] \in (DOMAIN tree.nodes) \ S /\ KeyAt(tree', i) = KeyAt(tree, e[i])
  BY <1>4, <1>5 DEF Remains, KeyAt
<1>7. \A i \in DOMAIN tree'.nodes : KeyAt(tree', i) # k
  BY <1>2, <1>6
<1>8. RecordIn(tree', k) = NoNode
  BY <1>5, <1>7, NoRecordOf DEF HasNoRecord
<1> QED BY <1>8, RecordOfIs

\* A record is purged if it is older than the time, and stays if it is not.
LEMMA PurgedIfOld ==
  ASSUME MemoryInv, IsChain(visitors), NEW time \in Times, DeleteOldVCookies(time), NEW k \in UNION KeySets
  PROVE  RecordOf(k)' = IF RecordOf(k) # NoNode /\ RecordOf(k).lastHit < time THEN NoNode ELSE RecordOf(k)
<1> DEFINE S == {p \in DOMAIN tree.nodes : tree.nodes[p].lastHit < time}
           p == Find(tree, k)
<1>1. tree' = Erased(tree, S)
  BY DEF DeleteOldVCookies, Purge
<1>2. S \in SUBSET DOMAIN tree.nodes /\ \A q \in DOMAIN tree.nodes : q \in S <=> tree.nodes[q].lastHit < time
  OBVIOUS
<1>3. IsTree(tree) /\ k \in Key
  BY InOrder
<1>4. \/ /\ HasRecordAt(tree, k, p) /\ RecordIn(tree, k) # NoNode
         /\ \A q \in DOMAIN tree.nodes : KeyAt(tree, q) = k => q = p
      \/ HasNoRecord(tree, k)
  BY <1>3, InOrder, RecordsInOrder
<1> HIDE DEF S, p
<1>5. CASE \A q \in S : KeyAt(tree, q) # k
  <2>1. NodesIn(tree', k) = NodesIn(tree, k)
    BY <1>1, <1>2, <1>3, <1>5, ErasedLeavesOthers
  <2>2. RecordOf(k)' = RecordOf(k)
    BY <2>1, RecordOfIs DEF RecordIn
  <2>3. ASSUME RecordOf(k) # NoNode PROVE ~(RecordOf(k).lastHit < time)
    <3>1. HasRecordAt(tree, k, p)
      BY <2>3, <1>4, RecordOfIs DEF HasNoRecord
    <3>2. p \in DOMAIN tree.nodes /\ p \notin S /\ RecordOf(k) = StoredIn(tree.nodes[p])
      BY <3>1, <1>5, RecordOfIs DEF HasRecordAt
    <3>3. RecordOf(k).lastHit = tree.nodes[p].lastHit
      BY <3>2 DEF StoredIn
    <3> QED BY <3>2, <3>3, <1>2
  <2> QED BY <2>2, <2>3
<1>6. CASE \E q \in S : KeyAt(tree, q) = k
  <2>1. PICK q \in S : KeyAt(tree, q) = k
    BY <1>6
  <2>2. q \in DOMAIN tree.nodes /\ tree.nodes[q].lastHit < time
    BY <1>2
  <2>3. /\ HasRecordAt(tree, k, p) /\ RecordIn(tree, k) # NoNode /\ q = p
        /\ \A r \in DOMAIN tree.nodes : KeyAt(tree, r) = k => r = p
    BY <2>1, <2>2, <1>4 DEF HasNoRecord
  <2>4. RecordOf(k) = StoredIn(tree.nodes[p]) /\ RecordOf(k) # NoNode
    BY <2>3, RecordOfIs DEF HasRecordAt
  <2>5. RecordOf(k).lastHit < time
    BY <2>2, <2>3, <2>4 DEF StoredIn
  <2>6. PICK e : Remains(tree, S, tree', e)
    BY <1>1, <1>2, <1>3, ErasedFacts
  <2>7. IsTree(tree') /\ DOMAIN tree'.nodes = 1..Len(tree'.nodes)
    BY <2>6, TreeFacts DEF Remains
  <2>8. \A i \in DOMAIN tree'.nodes : e[i] \in (DOMAIN tree.nodes) \ S /\ KeyAt(tree', i) = KeyAt(tree, e[i])
    BY <2>6, <2>7 DEF Remains, KeyAt
  <2>9. \A i \in DOMAIN tree'.nodes : KeyAt(tree', i) # k
    BY <2>3, <2>8
  <2>10. RecordIn(tree', k) = NoNode
    BY <2>7, <2>9, NoRecordOf DEF HasNoRecord
  <2> QED BY <2>4, <2>5, <2>10, RecordOfIs
<1> QED BY <1>5, <1>6

\* One record is another, the rest is as it was.
LEMMA OneRecordChanged ==
  ASSUME NEW k0 \in UNION KeySets, NEW record, RecordOf(k0)' = record,
         \A k \in UNION KeySets : k # k0 => NodesOf(k)' = NodesOf(k)
  PROVE  [k \in UNION KeySets |-> RecordOf(k)]' = [[k \in UNION KeySets |-> RecordOf(k)] EXCEPT ![k0] = record]
<1> DEFINE K == UNION KeySets
<1>1. ASSUME NEW k \in K PROVE RecordOf(k)' = IF k = k0 THEN record ELSE RecordOf(k)
  BY DEF RecordOf
<1>2. [k \in K |-> RecordOf(k)]' = [k \in K |-> IF k = k0 THEN record ELSE RecordOf(k)]
  BY <1>1
<1> HIDE DEF K
<1>3. [[k \in K |-> RecordOf(k)] EXCEPT ![k0] = record] = [k \in K |-> IF k = k0 THEN record ELSE RecordOf(k)]
  OBVIOUS
<1> QED BY <1>2, <1>3 DEF K

(* If the comparison orders the visitors, VCStoreInMemory does what the    *)
(* interface promises: a cookie that is made has the record that was       *)
(* saved, a saved one is the record, and what is deleted or too old is     *)
(* gone (VCStoreInMemory.h:47-97, vcookiestore.h:25-60).                   *)
THEOREM PromiseKept == MemorySpec => CallsKeepThePromise
<1>1. ASSUME MemoryInv, MemoryInv', [MemoryNext]_memoryVars, IsChain(visitors)
      PROVE  \/ UNCHANGED memoryVars
             \/ /\ \A k \in visitors : Construct(k, FALSE) =>
                     IF k \in Promise!Kept
                     THEN /\ ~cookie'.newCookie
                          /\ Getter(cookie'.content, LastHitTime) = RecordOf(k).lastHit
                          /\ Serialize(cookie'.content, FALSE) = RecordOf(k).buffer
                     ELSE cookie'.newCookie /\ cookie'.content = Blank
                /\ Store \/ SaveVCookies \/ (Destroy /\ cookie.modified) =>
                     Promise!Saved(cookie.key, [lastHit |-> cookie.content.field[LastHitTime],
                                                buffer |-> Serialize(cookie.content, FALSE)])
                /\ DeleteVCookie => Promise!Deleted(cookie.key)
                /\ \A time \in Times : DeleteOldVCookies(time) => Promise!Purged(time)
  <2>1. ASSUME NEW k \in visitors, Construct(k, FALSE)
        PROVE  IF k \in Promise!Kept
               THEN /\ ~cookie'.newCookie
                    /\ Getter(cookie'.content, LastHitTime) = RecordOf(k).lastHit
                    /\ Serialize(cookie'.content, FALSE) = RecordOf(k).buffer
               ELSE cookie'.newCookie /\ cookie'.content = Blank
    <3>1. k \in UNION KeySets
      BY <1>1, InOrder
    <3>2. k \in Promise!Kept <=> RecordOf(k) # NoNode
      BY <3>1 DEF Promise!Kept
    <3> QED BY <3>2, <1>1, <2>1, MadeOfRecord
  <2>2. ASSUME Store \/ SaveVCookies \/ (Destroy /\ cookie.modified)
        PROVE  Promise!Saved(cookie.key, [lastHit |-> cookie.content.field[LastHitTime],
                                          buffer |-> Serialize(cookie.content, FALSE)])
    <3>1. cookie # NoCookie /\ CanSave /\ SaveVCookie(cookie.key, cookie.content) /\ UNCHANGED visitors
      BY <2>2 DEF Store, SaveVCookies, Destroy
    <3>2. OwnCookie(cookie) /\ cookie.key \in UNION KeySets
      BY <3>1, <1>1, InOrder DEF MemoryInv, OwnCookie
    <3>3. PICK k0 : k0 = cookie.key
      OBVIOUS
    <3>4. RecordOf(k0)' = [lastHit |-> cookie.content.field[LastHitTime], buffer |-> Serialize(cookie.content, FALSE)]
      BY <3>1, <3>2, <3>3, <1>1, SavedIsRecord
    <3>5. \A k : k # k0 => NodesOf(k)' = NodesOf(k)
      BY <3>1, <3>2, <3>3, <1>1, SaveLeavesOthers
    <3>6. [k \in UNION KeySets |-> RecordOf(k)]'
            = [[k \in UNION KeySets |-> RecordOf(k)]
                 EXCEPT ![k0] = [lastHit |-> cookie.content.field[LastHitTime],
                                 buffer |-> Serialize(cookie.content, FALSE)]]
      BY <3>2, <3>3, <3>4, <3>5, OneRecordChanged
    <3> QED BY <3>3, <3>6 DEF Promise!Saved
  <2>3. ASSUME DeleteVCookie PROVE Promise!Deleted(cookie.key)
    <3>1. cookie # NoCookie
      BY <2>3 DEF DeleteVCookie
    <3>2. cookie.key \in UNION KeySets
      BY <3>1, <1>1, InOrder DEF MemoryInv, OwnCookie
    <3>3. PICK k0 : k0 = cookie.key
      OBVIOUS
    <3>4. RecordOf(k0)' = NoNode
      BY <2>3, <3>3, <1>1, DeletedIsGone
    <3>5. \A k : k # k0 => NodesOf(k)' = NodesOf(k)
      BY <2>3, <3>3, <1>1, DeleteLeavesOthers
    <3>6. [k \in UNION KeySets |-> RecordOf(k)]' = [[k \in UNION KeySets |-> RecordOf(k)] EXCEPT ![k0] = NoNode]
      BY <3>2, <3>3, <3>4, <3>5, OneRecordChanged
    <3> QED BY <3>3, <3>6 DEF Promise!Deleted
  <2>4. ASSUME NEW time \in Times, DeleteOldVCookies(time) PROVE Promise!Purged(time)
    <3>1. \A k \in UNION KeySets :
            RecordOf(k)' = IF RecordOf(k) # NoNode /\ RecordOf(k).lastHit < time THEN NoNode ELSE RecordOf(k)
      BY <1>1, <2>4, PurgedIfOld
    <3> QED BY <3>1 DEF Promise!Purged
  <2> QED BY <2>1, <2>2, <2>3, <2>4
<1>2. MemoryInv /\ MemoryInv' /\ [MemoryNext]_memoryVars =>
        [IsChain(visitors) =>
           /\ \A k \in visitors : Construct(k, FALSE) =>
                IF k \in Promise!Kept
                THEN /\ ~cookie'.newCookie
                     /\ Getter(cookie'.content, LastHitTime) = RecordOf(k).lastHit
                     /\ Serialize(cookie'.content, FALSE) = RecordOf(k).buffer
                ELSE cookie'.newCookie /\ cookie'.content = Blank
           /\ Store \/ SaveVCookies \/ (Destroy /\ cookie.modified) =>
                Promise!Saved(cookie.key, [lastHit |-> cookie.content.field[LastHitTime],
                                           buffer |-> Serialize(cookie.content, FALSE)])
           /\ DeleteVCookie => Promise!Deleted(cookie.key)
           /\ \A time \in Times : DeleteOldVCookies(time) => Promise!Purged(time)]_memoryVars
  BY <1>1
<1> QED BY <1>2, MemoryInvHolds, PTL DEF MemorySpec, CallsKeepThePromise
=============================================================================
