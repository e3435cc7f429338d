--------------------------- MODULE PagedListProofs ---------------------------
(* Invalidation knows every stored list, for any number of keys, workers    *)
(* and writes, as long as no awaited call is rejected; and for pages of any *)
(* size, any rows and any interleaving with reads, writes and expiry, a     *)
(* walk over a list skips no row unless it goes back in time.              *)
EXTENDS PagedList, TLAPS

LEMMA NextKeepsType == TypeOK /\ [Next]_vars => TypeOK'
<1> SUFFICES ASSUME TypeOK, [Next]_vars
             PROVE  TypeOK'
  OBVIOUS
<1> USE BoundsAssumption DEF TypeOK, List, Absent, Activity, Idle, At, Goto
<1>1. ASSUME NEW w \in Workers, NEW k \in Keys, Lookup(w, k)
      PROVE  TypeOK'
  BY <1>1 DEF Lookup
<1>2. ASSUME NEW w \in Workers, CollectKeys(w)
      PROVE  TypeOK'
  <2>1. CASE keySet = {}
    BY <1>2, <2>1 DEF CollectKeys
  <2>2. CASE keySet # {}
    BY <1>2, <2>2 DEF CollectKeys
  <2>3. QED BY <2>1, <2>2
<1>3. ASSUME NEW w \in Workers, Query(w)
      PROVE  TypeOK'
  <2>1. work[w].key \in Keys
    BY <1>3 DEF Query
  <2>2. QED BY <1>3, <2>1 DEF Query
<1>4. ASSUME NEW w \in Workers, SetList(w)
      PROVE  TypeOK'
  <2>1. work[w].key \in Keys /\ work[w].list \in List
    BY <1>4 DEF SetList
  <2>2. QED BY <1>4, <2>1 DEF SetList
<1>5. ASSUME NEW w \in Workers, Register(w)
      PROVE  TypeOK'
  <2>1. work[w].key \in Keys
    BY <1>5 DEF Register
  <2>2. QED BY <1>5, <2>1 DEF Register
<1>6. ASSUME NEW w \in Workers, Unlink(w)
      PROVE  TypeOK'
  BY <1>6 DEF Unlink
<1>7. ASSUME NEW w \in Workers, Save(w)
      PROVE  TypeOK'
  BY <1>7 DEF Save
<1>8. ASSUME NEW w \in Workers, Fail(w)
      PROVE  TypeOK'
  BY <1>8 DEF Fail
<1>9. ASSUME NEW k \in Keys, Expire(k)
      PROVE  TypeOK'
  BY <1>9 DEF Expire
<1>10. CASE Update
  BY <1>10 DEF Update
<1>11. CASE UNCHANGED vars
  BY <1>11 DEF vars
<1>12. QED
  BY <1>1, <1>2, <1>3, <1>4, <1>5, <1>6, <1>7, <1>8, <1>9, <1>10, <1>11
  DEF Next, Continue

(* Every state of the cache and of the workers is well typed. *)
THEOREM CacheTypeCorrect == Spec => []TypeOK
<1>1. Init => TypeOK
  BY BoundsAssumption DEF Init, TypeOK, List, Absent, Activity, Idle
<1>2. QED BY <1>1, NextKeepsType, PTL DEF Spec

-----------------------------------------------------------------------------
(* A list that stays, or becomes, stored is named by the set or by its reader. *)
LEMMA NextKeepsKeysKnown ==
  ASSUME TypeOK, KeysAreKnown, [Next]_vars
  PROVE  KeysAreKnown'
<1> SUFFICES ASSUME failures' = 0, NEW k \in Keys, cache'[k] # Absent
             PROVE  \/ k \in keySet'
                    \/ \E w \in Workers : work'[w].pc = "register" /\ work'[w].key = k
  BY DEF KeysAreKnown, At
<1> USE DEF TypeOK, At, Goto
<1> DEFINE Known == \/ k \in keySet
                    \/ \E w \in Workers : work[w].pc = "register" /\ work[w].key = k
<1>0. failures = 0
  BY BoundsAssumption DEF Next, Continue, Lookup, CollectKeys, Query, SetList, Register,
     Unlink, Save, Fail, Expire, Update, vars
<1>1. ASSUME cache[k] # Absent PROVE Known
  BY <1>0, <1>1 DEF KeysAreKnown
<1>2. ASSUME NEW w \in Workers, SetList(w)
      PROVE  \/ k \in keySet'
             \/ \E v \in Workers : work'[v].pc = "register" /\ work'[v].key = k
  <2>1. CASE work[w].key = k
    BY <1>2, <2>1 DEF SetList
  <2>2. CASE work[w].key # k
    <3>1. Known
      BY <1>1, <1>2, <2>2 DEF SetList
    <3>2. \A v \in Workers : work[v].pc = "register" => work'[v] = work[v]
      BY <1>2 DEF SetList
    <3>3. QED BY <1>2, <3>1, <3>2 DEF SetList
  <2>3. QED BY <2>1, <2>2
<1>3. ASSUME NEW w \in Workers, Register(w)
      PROVE  \/ k \in keySet'
             \/ \E v \in Workers : work'[v].pc = "register" /\ work'[v].key = k
  <2>1. Known
    BY <1>1, <1>3 DEF Register
  <2>2. \A v \in Workers : v # w => work'[v] = work[v]
    BY <1>3 DEF Register
  <2>3. QED BY <1>3, <2>1, <2>2 DEF Register
<1>4. ASSUME NEW w \in Workers, Unlink(w)
      PROVE  \/ k \in keySet'
             \/ \E v \in Workers : work'[v].pc = "register" /\ work'[v].key = k
  <2>1. Known
    BY <1>1, <1>4 DEF Unlink
  <2>2. \A v \in Workers : work[v].pc = "register" => work'[v] = work[v]
    BY <1>4 DEF Unlink
  <2>3. QED BY <1>4, <2>1, <2>2 DEF Unlink
<1>5. ASSUME NEW w \in Workers,
             (\E j \in Keys : Lookup(w, j)) \/ CollectKeys(w) \/ Query(w) \/ Save(w)
      PROVE  \/ k \in keySet'
             \/ \E v \in Workers : work'[v].pc = "register" /\ work'[v].key = k
  <2>1. Known /\ keySet' = keySet
    BY <1>1, <1>5 DEF Lookup, CollectKeys, Query, Save
  <2>2. \A v \in Workers : work[v].pc = "register" => work'[v] = work[v]
    BY <1>5 DEF Lookup, CollectKeys, Query, Save
  <2>3. QED BY <2>1, <2>2
<1>6. ASSUME NEW w \in Workers, Fail(w)
      PROVE  FALSE
  BY <1>0, <1>6 DEF Fail
<1>7. ASSUME NEW j \in Keys, Expire(j)
      PROVE  Known /\ UNCHANGED <<keySet, work>>
  BY <1>1, <1>7 DEF Expire
<1>8. CASE Update \/ UNCHANGED vars
  <2>1. Known /\ UNCHANGED <<keySet, work>>
    BY <1>1, <1>8 DEF Update, vars
  <2>2. QED BY <2>1
<1>9. QED
  BY <1>2, <1>3, <1>4, <1>5, <1>6, <1>7, <1>8 DEF Next, Continue

(* Whatever readers and invalidations overlap, no stored list escapes the   *)
(* next invalidation once its reader has registered it: the decorators      *)
(* never drop a key from the set, and set comes before sAdd.                *)
THEOREM StoredListsAreKnown == Spec => []KeysAreKnown
<1>1. Init => KeysAreKnown
  BY DEF Init, KeysAreKnown
<1>2. TypeOK /\ KeysAreKnown /\ [Next]_vars => KeysAreKnown'
  BY NextKeepsKeysKnown
<1>3. QED BY <1>1, <1>2, CacheTypeCorrect, PTL DEF Spec

-----------------------------------------------------------------------------
(* The pages of a list *)

USE PageAssumption

(* The client changes nothing of the cache. *)
LEMMA PagedStepIsStep == [PagedNext]_pagedVars => [Next]_vars
BY DEF PagedNext, pagedVars, ReadCached, ReadQueried, Next, Continue

(* Whatever a client does, all that is proved of the cache holds. *)
THEOREM PagedListImplementsListCache == PagedSpec => Spec
<1>1. PagedInit => Init
  BY DEF PagedInit
<1>2. QED BY <1>1, PagedStepIsStep, PTL DEF PagedSpec, Spec

-----------------------------------------------------------------------------
(* Of the rows there were at first, those now on the pages read are seen. *)
Covered ==
  walk.ordered /\ walk.page > 1 =>
    /\ walk.first <= walk.total
    /\ \A i \in 1 .. walk.first :
         walk.total - i + 1 <= (walk.page - 1) * PageSize => i \in walk.seen

WalkInv == walk \in Walks /\ Covered

(* A page extends the part of the list that is covered. *)
LEMMA TakePageCovers ==
  ASSUME WalkInv, NEW list \in List, TakePage(list)
  PROVE  WalkInv'
<1> DEFINE read == (walk.page - 1) * PageSize
<1> DEFINE goal == walk.page * PageSize
<1>1. /\ walk \in Walks /\ list.created \in Nat /\ PageSize \in Nat
      /\ read \in Nat /\ goal \in Nat
  BY DEF WalkInv, Walks, List
<1>2. walk.page = 1 => read = 0
  BY <1>1
<1>3. Page(walk.page, list) =
        {i \in 1 .. list.created : /\ read < list.created - i + 1
                                   /\ list.created - i + 1 <= goal}
  BY DEF Page, Position
<1>4. /\ walk'.page = walk.page + 1
      /\ walk'.first = IF walk.page = 1 THEN list.created ELSE walk.first
      /\ walk'.total = list.created
      /\ walk'.ordered = (walk.ordered /\ walk.total <= list.created)
      /\ walk'.seen = walk.seen \cup Page(walk.page, list)
  BY DEF TakePage
<1>5. walk' \in Walks
  <2>1. Page(walk.page, list) \subseteq Nat
    BY <1>3, <1>1
  <2>2. walk.seen \cup Page(walk.page, list) \in SUBSET Nat
    BY <2>1, <1>1 DEF Walks
  <2>3. QED BY <2>2, <1>1 DEF TakePage, Walks
<1>6. ASSUME walk'.ordered
      PROVE  /\ walk'.first <= walk'.total
             /\ \A i \in 1 .. walk'.first :
                  walk'.total - i + 1 <= goal => i \in walk'.seen
  <2> HIDE DEF read, goal
  <2>1. CASE walk.page = 1
    BY <2>1, <1>1, <1>2, <1>3, <1>4
  <2>2. CASE walk.page > 1
    <3>1. /\ walk.ordered /\ walk.total <= list.created
          /\ walk.first <= walk.total
          /\ \A i \in 1 .. walk.first :
               walk.total - i + 1 <= read => i \in walk.seen
      BY <2>2, <1>4, <1>6 DEF WalkInv, Covered, read
    <3>2. ASSUME NEW i \in 1 .. walk.first, list.created - i + 1 <= goal
          PROVE  i \in walk.seen \cup Page(walk.page, list)
      <4>1. i \in 1 .. list.created
        BY <3>1, <1>1 DEF Walks
      <4>2. CASE read < list.created - i + 1
        BY <4>1, <4>2, <3>2, <1>3
      <4>3. CASE list.created - i + 1 <= read
        BY <4>3, <3>1, <1>1 DEF Walks
      <4>4. QED BY <4>1, <4>2, <4>3, <1>1
    <3>3. QED BY <2>2, <3>1, <3>2, <1>1, <1>4 DEF Walks
  <2>3. QED BY <2>1, <2>2, <1>1 DEF Walks
<1>7. (walk'.page - 1) * PageSize = goal
  <2>1. walk'.page - 1 = walk.page
    BY <1>1, <1>4 DEF Walks
  <2>2. QED BY <2>1
<1> HIDE DEF goal
<1>8. Covered'
  BY <1>6, <1>7 DEF Covered
<1>9. QED BY <1>5, <1>8 DEF WalkInv

LEMMA NextKeepsWalk == TypeOK /\ WalkInv /\ [PagedNext]_pagedVars => WalkInv'
<1> SUFFICES ASSUME TypeOK, WalkInv, [PagedNext]_pagedVars
             PROVE  WalkInv'
  OBVIOUS
<1>1. CASE UNCHANGED walk
  BY <1>1 DEF WalkInv, Covered
<1>2. CASE ReadCached
  BY <1>2, TakePageCovers DEF ReadCached, TypeOK
<1>3. ASSUME NEW w \in Workers, ReadQueried(w)
      PROVE  WalkInv'
  BY <1>3, TakePageCovers DEF ReadQueried, TypeOK
<1>4. QED BY <1>1, <1>2, <1>3 DEF PagedNext, pagedVars

LEMMA WalkInvariant == PagedSpec => [](TypeOK /\ WalkInv)
<1>1. PagedInit => WalkInv
  BY DEF PagedInit, WalkInv, Walks, Covered
<1>2. PagedSpec => []TypeOK
  BY PagedListImplementsListCache, CacheTypeCorrect, PTL
<1>3. QED BY <1>1, <1>2, NextKeepsWalk, PTL DEF PagedSpec

(* Every state of the cache and of the client is well typed. *)
THEOREM PagedTypeCorrect == PagedSpec => []PagedTypeOK
<1>1. TypeOK /\ WalkInv => PagedTypeOK
  BY DEF WalkInv, PagedTypeOK
<1>2. QED BY <1>1, WalkInvariant, PTL

(* The offsets of queryResults are safe against rows created during a walk: *)
(* for every page size, a walk whose pages are each as recent as the one    *)
(* before has seen, when it ends, every row that was there when it began.   *)
THEOREM WalksSkipNothing == PagedSpec => []OrderedWalksSeeAllRows
<1>1. WalkInv => OrderedWalksSeeAllRows
  <2> SUFFICES ASSUME WalkInv, Finished, walk.ordered, NEW i \in 1 .. walk.first
               PROVE  i \in walk.seen
    BY DEF OrderedWalksSeeAllRows
  <2> DEFINE read == (walk.page - 1) * PageSize
  <2>1. walk.page > 1 /\ read >= walk.total /\ read \in Nat /\ walk \in Walks
    BY DEF Finished, WalkInv, Walks
  <2>2. walk.total - i + 1 <= read => i \in walk.seen
    BY <2>1 DEF WalkInv, Covered
  <2> HIDE DEF read
  <2>3. QED BY <2>1, <2>2 DEF Walks
<1>2. QED BY <1>1, WalkInvariant, PTL
=============================================================================
