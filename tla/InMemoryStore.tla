---------------------------- MODULE InMemoryStore ----------------------------
(***************************************************************************)
(* VCStoreInMemory (src/VCStoreInMemory.h) and a cookie that lives on it   *)
(* (src/abstraction/vcookie.h: constructor, setters, Store, destructor,    *)
(* Reset).                                                                 *)
(*                                                                         *)
(* The store is a std::map whose comparison is not an order, so it matters *)
(* how the tree is searched.  A tree of at most three nodes is its nodes   *)
(* in walking order and the place of its root: the parts left and right of *)
(* the root have at most one node each, and three nodes are balanced.      *)
(***************************************************************************)
EXTENDS Serialization, TLC

CONSTANTS KeySets,       \* sets of visitors, each <<userid, visid_high, visid_low>>
          Times,         \* times of hits
          NoCookie,      \* there is no cookie at the moment
          NoNode,        \* what the map has for a visitor without a node
          MaxRecords     \* bound: nodes in the tree

ASSUME StoreAssumption ==
  /\ UNION KeySets \subseteq Nat \X Nat \X Nat /\ Times \subseteq Nat \ {0}
  /\ MaxRecords \in 1..3 /\ NoNode \notin [lastHit : Nat, buffer : Seq(Nat)]

VARIABLES visitors,      \* the visitors of this behaviour, a member of KeySets
          tree,          \* the map
          cookie,        \* the VCookie of the caller, or NoCookie
          hung           \* GetVCookie does not return

memoryVars == <<visitors, tree, cookie, hung>>

----------------------------------------------------------------------------
(* The tree *)

\* VCookieId::operator<
Less(a, b) == \E i \in 1..3 : a[i] < b[i]

Empty == [nodes |-> <<>>, root |-> 0]
KeyAt(t, p) == t.nodes[p].key

\* How many nodes are left of where a descent from the root ends, if it goes
\* right at the nodes in Right.
Gap(t, Right) ==
  IF t.root \in Right THEN t.root + Cardinality({p \in Right : p > t.root})
                      ELSE Cardinality({p \in Right : p < t.root})

\* map::find: the node of the key, or the end of the map.
Find(t, k) ==
  LET lower == Gap(t, {p \in DOMAIN t.nodes : Less(KeyAt(t, p), k)}) + 1
  IN IF lower > Len(t.nodes) \/ Less(k, KeyAt(t, lower)) THEN Len(t.nodes) + 1 ELSE lower

\* The nodes left of where map::insert would put the key.
Place(t, k) == Gap(t, {p \in DOMAIN t.nodes : ~Less(k, KeyAt(t, p))})

\* map::insert finds the key in the node before that place.
HasTwin(t, k) == Place(t, k) # 0 /\ ~Less(KeyAt(t, Place(t, k)), k)

\* map::insert, or the value of the node the key has.
Put(t, k, value) ==
  LET g == Place(t, k)
      node == [key |-> k, lastHit |-> value.lastHit, buffer |-> value.buffer]
  IN IF HasTwin(t, k) THEN [t EXCEPT !.nodes[g] = [node EXCEPT !.key = KeyAt(t, g)]]
     ELSE [nodes |-> InsertAt(t.nodes, g + 1, node),
           root |-> CASE Len(t.nodes) = 0 -> 1
                      [] Len(t.nodes) = 1 -> IF g = 0 THEN 2 ELSE 1
                      [] OTHER -> 2]

\* map::erase of one node.
EraseAt(t, p) ==
  [nodes |-> RemoveAt(t.nodes, p),
   root |-> IF p < t.root THEN t.root - 1 ELSE Min({t.root, Len(t.nodes) - 1})]

\* map::erase of the nodes in S, of a tree of at most three.
ErasedIf(t, S, p) == IF p \in S THEN EraseAt(t, p) ELSE t
Erased(t, S) == ErasedIf(ErasedIf(ErasedIf(t, S, 3), S, 2), S, 1)

\* The nodes that equal_range gives to map::erase.
EqualRange(t, k) ==
  LET equal == {p \in DOMAIN t.nodes : ~Less(KeyAt(t, p), k) /\ ~Less(k, KeyAt(t, p))}
      next == IF t.nodes = <<>> \/ t.root \in equal THEN t.root
              ELSE IF Less(KeyAt(t, t.root), k) THEN t.root + 1 ELSE t.root - 1
      left == {p \in 1..t.root - 1 : next = t.root /\ ~Less(KeyAt(t, p), k)}
      right == {p \in t.root + 1..Len(t.nodes) : next = t.root /\ ~Less(k, KeyAt(t, p))}
  IN IF next \in equal THEN {next} \cup left \cup right ELSE {}

\* DeleteOldVCookies: a walk that erases the nodes older than time.
Purge(t, time) == Erased(t, {p \in DOMAIN t.nodes : t.nodes[p].lastHit < time})

----------------------------------------------------------------------------
(* The store *)

\* Seeded bug: the time of a record that exists stays as it is.
SaveVCookie_KeepsTime(k, c) ==
  LET old == Find(tree, k)
      time == IF old \in DOMAIN tree.nodes THEN tree.nodes[old].lastHit ELSE Getter(c, LastHitTime)
  IN tree' = Put(tree, k, [lastHit |-> time, buffer |-> Serialize(c, FALSE)])

\* The last hit time is stored beside the buffer.
SaveVCookie(k, c) ==
  tree' = Put(tree, k, [lastHit |-> Getter(c, LastHitTime), buffer |-> Serialize(c, FALSE)])

\* Fill a cookie from a node.
FilledFrom(c, node) == Deserialize([c EXCEPT !.field[LastHitTime] = node.lastHit], node.buffer)

\* Seeded bug: what lower_bound finds is taken without comparing keys.
LoadVCookie_Near(k, c) ==
  LET p == Gap(tree, {q \in DOMAIN tree.nodes : Less(KeyAt(tree, q), k)}) + 1
  IN IF p > Len(tree.nodes) THEN [ok |-> FALSE, cookie |-> c] ELSE FilledFrom(c, tree.nodes[p])

LoadVCookie(k, c) ==
  LET p == Find(tree, k)
  IN IF p > Len(tree.nodes) THEN [ok |-> FALSE, cookie |-> c] ELSE FilledFrom(c, tree.nodes[p])

----------------------------------------------------------------------------
(* A cookie on the store.  It carries its visitor in its first-hit         *)
(* referrer, which is how a mix-up would show.                             *)

MarkOf(k) == 100 * k[1] + 10 * k[2] + k[3]

MemoryInit == /\ visitors \in KeySets
              /\ tree = Empty /\ cookie = NoCookie /\ hung = FALSE

\* VCookie::VCookie
Construct(k, newVisitor) ==
  /\ cookie = NoCookie
  /\ LET loaded == LoadVCookie(k, Blank)
         isNew == newVisitor \/ ~loaded.ok
     IN cookie' = [key |-> k, newCookie |-> isNew, modified |-> FALSE,
                   content |-> IF newVisitor THEN Blank ELSE loaded.cookie]
  /\ UNCHANGED <<visitors, tree, hung>>

\* The setters a hit calls.
Visit(time) ==
  /\ cookie # NoCookie
  /\ cookie' = [cookie EXCEPT !.content.field[LastHitTime] = time,
                              !.content.field[6] = MarkOf(cookie.key), !.modified = TRUE]
  /\ UNCHANGED <<visitors, tree, hung>>

CanSave == HasTwin(tree, cookie.key) \/ Len(tree.nodes) < MaxRecords

\* VCookie::Store
Store == /\ cookie # NoCookie /\ CanSave
         /\ SaveVCookie(cookie.key, cookie.content)
         /\ cookie' = [cookie EXCEPT !.modified = FALSE]
         /\ UNCHANGED <<visitors, hung>>

\* VCookie::~VCookie
Destroy == /\ cookie # NoCookie
           /\ IF cookie.modified THEN CanSave /\ SaveVCookie(cookie.key, cookie.content)
                              ELSE UNCHANGED tree
           /\ cookie' = NoCookie
           /\ UNCHANGED <<visitors, hung>>

\* LoadVCookies and SaveVCookies as the interface defines them, for a batch of
\* this cookie: one call of the single operation for each cookie.  A cookie
\* that is found is set, so it is modified; one that is saved stays modified.
LoadVCookies == /\ cookie # NoCookie
                /\ LET k == cookie.key
                       found == Find(tree, k) \in DOMAIN tree.nodes
                   IN cookie' = [cookie EXCEPT !.content = LoadVCookie(k, @).cookie,
                                               !.modified = @ \/ found]
                /\ UNCHANGED <<visitors, tree, hung>>

SaveVCookies == /\ cookie # NoCookie /\ CanSave
                /\ SaveVCookie(cookie.key, cookie.content)
                /\ UNCHANGED <<visitors, cookie, hung>>

\* Seeded bug: from the node of the key to the end of the map.
Erase_ToEnd(t, k) == Erased(t, {p \in DOMAIN t.nodes : \E q \in EqualRange(t, k) : q <= p})

Erase(t, k) == Erased(t, EqualRange(t, k))

DeleteVCookie == /\ cookie # NoCookie
                 /\ tree' = Erase(tree, cookie.key)
                 /\ UNCHANGED <<visitors, cookie, hung>>

DeleteOldVCookies(time) == /\ tree' = Purge(tree, time)
                           /\ UNCHANGED <<visitors, cookie, hung>>

GetVCookieCount == Len(tree.nodes)

\* The first node, into a cookie that is reset; its flags stay, apart from
\* those the setters set.
GetVCookie == /\ cookie # NoCookie /\ GetVCookieCount > 0
              /\ LET node == tree.nodes[1]
                 IN cookie' = [cookie EXCEPT !.key = node.key, !.modified = TRUE,
                                             !.content = FilledFrom(Blank, node).cookie]
              /\ UNCHANGED <<visitors, tree, hung>>

\* The loop that walks to a node further on does not count.
GetVCookieFurther == /\ cookie # NoCookie /\ GetVCookieCount > 1
                     /\ hung' = TRUE
                     /\ UNCHANGED <<visitors, tree, cookie>>

Call == \/ \E k \in visitors, newVisitor \in BOOLEAN : Construct(k, newVisitor)
        \/ \E time \in Times : Visit(time) \/ DeleteOldVCookies(time)
        \/ Store \/ Destroy \/ LoadVCookies \/ SaveVCookies \/ DeleteVCookie
        \/ GetVCookie \/ GetVCookieFurther

MemoryNext == (~hung /\ Call) \/ (hung /\ UNCHANGED memoryVars)

MemorySpec == MemoryInit /\ [][MemoryNext]_memoryVars

----------------------------------------------------------------------------
(* Properties *)

\* Every variable has its type.
MemoryTypeOK ==
  /\ visitors \in KeySets /\ hung \in BOOLEAN
  /\ tree.root \in 0..Len(tree.nodes) /\ Len(tree.nodes) <= MaxRecords
  /\ \A p \in DOMAIN tree.nodes : KeyAt(tree, p) \in visitors
  /\ cookie = NoCookie \/ (/\ cookie.key \in visitors /\ cookie.content \in Cookie
                           /\ cookie.newCookie \in BOOLEAN /\ cookie.modified \in BOOLEAN)

(* Whatever the visitors are, no call mixes two of them up: a node and a   *)
(* cookie have nothing but what was saved or set for their own visitor,    *)
(* even where the comparison is no order (VCStoreInMemory.h:35-76).        *)
NoMixUpInMemory ==
  /\ MemoryTypeOK
  /\ \A p \in DOMAIN tree.nodes :
       LET node == tree.nodes[p]
       IN /\ FilledFrom(Blank, node).ok
          /\ FilledFrom(Blank, node).cookie.field[6] \in {0, MarkOf(node.key)}
  /\ cookie # NoCookie => cookie.content.field[6] \in {0, MarkOf(cookie.key)}

\* The nodes of a visitor, in walking order.
NodesOf(k) == FlattenSeq([p \in DOMAIN tree.nodes |->
                            IF KeyAt(tree, p) = k THEN <<tree.nodes[p]>> ELSE <<>>])

\* The comparison orders the visitors.
IsChain(keys) == \A a, b \in keys : a # b => (Less(a, b) /\ ~Less(b, a)) \/ (Less(b, a) /\ ~Less(a, b))

(* Whatever the visitors are, loading and saving the cookie of one leaves  *)
(* the records of all others as they are; so does deleting it, if the      *)
(* comparison orders the visitors (VCStoreInMemory.h:35-83).               *)
OthersUndisturbed ==
  [][(\A time \in Times : ~DeleteOldVCookies(time)) /\ (DeleteVCookie => IsChain(visitors)) =>
       \A k \in visitors : (cookie = NoCookie \/ k # cookie.key) => NodesOf(k)' = NodesOf(k)]_memoryVars

RecordOf(k) == IF NodesOf(k) = <<>> THEN NoNode
               ELSE [lastHit |-> Head(NodesOf(k)).lastHit, buffer |-> Head(NodesOf(k)).buffer]

Promise == INSTANCE VisitorStore WITH Visitors <- UNION KeySets,
                                      stored <- [k \in UNION KeySets |-> RecordOf(k)],
                                      NoRecord <- NoNode

(* If the comparison orders the visitors, each call does to the records    *)
(* what the interface says of that very call: a cookie made of a stored    *)
(* record has its content, one without a record is new; what was saved is  *)
(* there, what was deleted or is too old is gone, all else stays.          *)
CallsKeepThePromise ==
  [][IsChain(visitors) =>
       /\ \A k \in visitors : Construct(k, FALSE) =>
            IF k \in Promise!Kept
            THEN /\ ~cookie'.newCookie
                 /\ Getter(cookie'.content, LastHitTime) = RecordOf(k).lastHit
                 /\ Serialize(cookie'.content, FALSE) = RecordOf(k).buffer
            ELSE cookie'.newCookie /\ cookie'.content = Blank
       /\ Store \/ SaveVCookies \/ (Destroy /\ cookie.modified) =>
            Promise!Saved(cookie.key, [lastHit |-> cookie.content.field[LastHitTime],
                                       buffer |-> Serialize(cookie.content, FALSE)])
       /\ DeleteVCookie => Promise!Deleted(cookie.key)
       /\ \A time \in Times : DeleteOldVCookies(time) => Promise!Purged(time)]_memoryVars

(* "This is a very simple in-memory database ... A map is a key/value data *)
(* store" (VCStoreInMemory.h:17-18): a cookie just saved can be loaded.    *)
SavedIsFound ==
  [][Store => Find(tree', cookie.key) \in DOMAIN tree'.nodes]_memoryVars
=============================================================================
