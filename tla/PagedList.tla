------------------------------ MODULE PagedList ------------------------------
(***************************************************************************)
(* A client that reads a list page by page, of a service whose pages are   *)
(* cached each on its own (ListCache with a key for each page).  Rows are   *)
(* numbered as they are created; queryResults sorts them newest first, so   *)
(* that every creation moves the rows of the pages still to be read.        *)
(***************************************************************************)
EXTENDS ListCache

CONSTANT PageSize   \* limit: rows on a page

ASSUME PageAssumption == PageSize \in Nat \ {0} /\ Keys \subseteq Nat \ {0}

VARIABLE walk   \* the client's next page, the rows counted when it read its
                \* first and its latest page, whether every page it was given
                \* was as recent as the one before, and the rows it has seen

pagedVars == <<vars, walk>>

Walks == [page : Nat \ {0}, first : Nat, total : Nat, ordered : BOOLEAN,
          seen : SUBSET Nat]

PagedTypeOK == TypeOK /\ walk \in Walks

PagedInit ==
  /\ Init
  /\ walk = [page |-> 1, first |-> 0, total |-> 0, ordered |-> TRUE, seen |-> {}]

(* Where row i stands in a list: the newest is the first. *)
Position(i, list) == list.created - i + 1

(* Mutant: skip is page * limit. *)
PageSkipping(page, list) ==
  {i \in 1 .. list.created : /\ page * PageSize < Position(i, list)
                             /\ Position(i, list) <= (page + 1) * PageSize}

Page(page, list) ==
  {i \in 1 .. list.created : /\ (page - 1) * PageSize < Position(i, list)
                             /\ Position(i, list) <= page * PageSize}

(* The total that comes with a page tells the client which page is the last. *)
Finished == walk.page > 1 /\ (walk.page - 1) * PageSize >= walk.total

TakePage(list) ==
  /\ ~ Finished
  /\ walk' = [page    |-> walk.page + 1,
              first   |-> IF walk.page = 1 THEN list.created ELSE walk.first,
              total   |-> list.created,
              ordered |-> walk.ordered /\ walk.total <= list.created,
              seen    |-> walk.seen \cup Page(walk.page, list)]

(* A hit: the stored page, however old. *)
ReadCached ==
  /\ walk.page \in Keys
  /\ cache[walk.page] # Absent
  /\ TakePage(cache[walk.page])
  /\ UNCHANGED vars

(* A miss: what its query finds. *)
ReadQueried(w) ==
  /\ Query(w)
  /\ work[w].key = walk.page
  /\ TakePage(db)

PagedNext ==
  \/ Next /\ UNCHANGED walk
  \/ ReadCached
  \/ \E w \in Workers : ReadQueried(w)

PagedSpec == PagedInit /\ [][PagedNext]_pagedVars

FairPagedSpec ==
  /\ PagedSpec
  /\ \A w \in Workers : WF_pagedVars(Continue(w) /\ UNCHANGED walk)
  /\ \A k \in Keys : WF_pagedVars(Expire(k) /\ UNCHANGED walk)

-----------------------------------------------------------------------------
(* Properties *)

(* Rows created between two pages skip none of those that were there when  *)
(* the walk began, as long as no page comes from a list older than the one *)
(* before, which the cache may serve when a read and a creation overlap.   *)
OrderedWalksSeeAllRows ==
  Finished /\ walk.ordered => 1 .. walk.first \subseteq walk.seen
=============================================================================
