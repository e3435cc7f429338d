------------------------------ MODULE ListCache ------------------------------
(***************************************************************************)
(* The cache of list queries: RedisDecorator around the services' get,     *)
(* RedisCacheInvalidateDecorator around createOrder (order-service) and    *)
(* generateInvoiceInTransaction (invoice-service).  A list is abstracted to *)
(* how many rows had been created and updated when it was queried.  Every  *)
(* awaited call to Redis or to the database is a step of its own.          *)
(***************************************************************************)
EXTENDS Naturals, FiniteSets

CONSTANTS
  Keys,         \* cache keys: one per distinct query
  Workers,      \* requests (and consumer) of one service under way at once
  Existing,     \* rows there are before
  MaxCreates,   \* bound: rows created, with these
  MaxUpdates,   \* bound: rows updated
  MaxFailures   \* bound: awaited calls that are rejected

ASSUME BoundsAssumption == {Existing, MaxCreates, MaxUpdates, MaxFailures} \subseteq Nat

List   == [created : Nat, updated : Nat]
Absent == [created |-> "none"]

Idle     == [pc |-> "idle"]
Activity ==
  {Idle, [pc |-> "save"]}
    \cup [pc : {"query", "register"}, key : Keys]
    \cup [pc : {"set"}, key : Keys, list : List]
    \cup [pc : {"unlink"}, keys : SUBSET Keys]

VARIABLES
  db,        \* rows created and updated so far
  cache,     \* cache[k]: the list stored under k
  keySet,    \* the Redis set of the cache keys, under the key template
  work,      \* work[w]: what worker w awaits
  failures   \* awaited calls that have been rejected

vars == <<db, cache, keySet, work, failures>>

TypeOK ==
  /\ db \in List
  /\ cache \in [Keys -> List \cup {Absent}]
  /\ keySet \in SUBSET Keys
  /\ work \in [Workers -> Activity]
  /\ failures \in 0 .. MaxFailures

Init ==
  /\ db = [created |-> Existing, updated |-> 0]
  /\ cache = [k \in Keys |-> Absent]
  /\ keySet = {}
  /\ work = [w \in Workers |-> Idle]
  /\ failures = 0

At(w, point) == work[w].pc = point
Goto(w, a)   == work' = [work EXCEPT ![w] = a]

-----------------------------------------------------------------------------
(* RedisDecorator: get, and on a miss query, set with a TTL, sAdd *)

(* A hit is served at once. *)
Lookup(w, k) ==
  /\ At(w, "idle")
  /\ cache[k] = Absent
  /\ Goto(w, [pc |-> "query", key |-> k])
  /\ UNCHANGED <<db, cache, keySet, failures>>

Query(w) ==
  /\ At(w, "query")
  /\ Goto(w, [pc |-> "set", key |-> work[w].key, list |-> db])
  /\ UNCHANGED <<db, cache, keySet, failures>>

SetList(w) ==
  /\ At(w, "set")
  /\ cache' = [cache EXCEPT ![work[w].key] = work[w].list]
  /\ Goto(w, [pc |-> "register", key |-> work[w].key])
  /\ UNCHANGED <<db, keySet, failures>>

Register(w) ==
  /\ At(w, "register")
  /\ keySet' = keySet \cup {work[w].key}
  /\ Goto(w, Idle)
  /\ UNCHANGED <<db, cache, failures>>

(* Mutant: the list is stored without a TTL. *)
NeverExpire(k) == cache[k] # Absent /\ UNCHANGED vars

(* The TTL of a stored list runs out. *)
Expire(k) ==
  /\ cache[k] # Absent
  /\ cache' = [cache EXCEPT ![k] = Absent]
  /\ UNCHANGED <<db, keySet, work, failures>>

-----------------------------------------------------------------------------
(* RedisCacheInvalidateDecorator: sMembers, unlink, and then the method *)

(* The bound on rows counts those being created. *)
Creating(w) == At(w, "unlink") \/ At(w, "save")
MayCreate   == db.created + Cardinality({w \in Workers : Creating(w)}) < MaxCreates

CollectKeys(w) ==
  /\ At(w, "idle")
  /\ MayCreate
  /\ Goto(w, IF keySet = {} THEN [pc |-> "save"]
                            ELSE [pc |-> "unlink", keys |-> keySet])
  /\ UNCHANGED <<db, cache, keySet, failures>>

(* Mutant: the set of keys is dropped with the lists it names. *)
UnlinkWithSet(w) ==
  /\ At(w, "unlink")
  /\ cache' = [k \in Keys |-> IF k \in work[w].keys THEN Absent ELSE cache[k]]
  /\ keySet' = {}
  /\ Goto(w, [pc |-> "save"])
  /\ UNCHANGED <<db, failures>>

(* The keys stay in the set. *)
Unlink(w) ==
  /\ At(w, "unlink")
  /\ cache' = [k \in Keys |-> IF k \in work[w].keys THEN Absent ELSE cache[k]]
  /\ Goto(w, [pc |-> "save"])
  /\ UNCHANGED <<db, keySet, failures>>

Save(w) ==
  /\ At(w, "save")
  /\ db' = [db EXCEPT !.created = @ + 1]
  /\ Goto(w, Idle)
  /\ UNCHANGED <<cache, keySet, failures>>

(* updateOrderStatus: no decorator, nothing is invalidated. *)
Update ==
  /\ db.updated < MaxUpdates
  /\ db' = [db EXCEPT !.updated = @ + 1]
  /\ UNCHANGED <<cache, keySet, work, failures>>

(* An awaited call is rejected: the decorators let the error through. *)
Fail(w) ==
  /\ work[w] # Idle
  /\ failures < MaxFailures
  /\ failures' = failures + 1
  /\ Goto(w, Idle)
  /\ UNCHANGED <<db, cache, keySet>>

-----------------------------------------------------------------------------
Continue(w) == Query(w) \/ SetList(w) \/ Register(w) \/ Unlink(w) \/ Save(w)

Next ==
  \/ \E w \in Workers :
       \/ \E k \in Keys : Lookup(w, k)
       \/ CollectKeys(w)
       \/ Continue(w)
       \/ Fail(w)
  \/ \E k \in Keys : Expire(k)
  \/ Update

Spec == Init /\ [][Next]_vars

(* Calls under way return, and a TTL runs out; no one has to ask or write. *)
FairSpec ==
  /\ Spec
  /\ \A w \in Workers : WF_vars(Continue(w))
  /\ \A k \in Keys : WF_vars(Expire(k))

-----------------------------------------------------------------------------
(* Properties *)

(* Invalidation can find every stored list: its key is in the set, or its  *)
(* reader is about to add it, whatever invalidations run in between.  (A    *)
(* call rejected between set and sAdd is the exception.)                   *)
KeysAreKnown ==
  failures = 0 =>
    \A k \in Keys :
      cache[k] # Absent =>
        \/ k \in keySet
        \/ \E w \in Workers : At(w, "register") /\ work[w].key = k

(* Stale lists die out: once the last write is done, every list served is  *)
(* current from some time on, whoever was reading during the writes.       *)
ListsConverge == <>[](\A k \in Keys : cache[k] \in {Absent, db})
=============================================================================
