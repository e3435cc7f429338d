----------------------------- MODULE OrderLoader -----------------------------
(***************************************************************************)
(* The DataLoader behind getById and getBy of order-service (and getById   *)
(* of invoice-service): one cache of promises per process, never told of   *)
(* updates, whose DTOs getById changes in place.  getById strips userId    *)
(* from the cached DTO when it has its answer; the next getById finds the  *)
(* DTO without it, clears the entry and loads the order again.             *)
(***************************************************************************)
EXTENDS Naturals, Sequences

CONSTANTS
  Orders,       \* ids that clients ask for
  Missing,      \* the ones no order has
  Readers,      \* HTTP requests: getById
  Responders,   \* FETCH_ORDER_REQUEST messages: getBy
  Wanted,       \* Wanted[c]: the id that call c asks for
  MaxUpdates,   \* bound: updates of one order
  MaxFailures   \* bound: queries and requests that are rejected

Calls == Readers \cup Responders

ASSUME LoaderAssumption ==
  /\ Missing \subseteq Orders
  /\ Readers \cap Responders = {}
  /\ Wanted \in [Calls -> Orders]
  /\ {MaxUpdates, MaxFailures} \subseteq Nat

(* A promise the loader made, with the DTO it resolved to: which version   *)
(* of the row it shows, and whether it still has its userId.               *)
Load ==
  [order : Orders, state : {"queued", "resolved", "rejected"},
   version : Nat, userId : BOOLEAN]

(* began: the version of the row when the call began; floor: what it has to *)
(* show at least: for getById the highest began, for getBy the highest     *)
(* floor, of the getById calls that had been answered when it began.       *)
Call ==
  [pc : {"idle", "loading", "asking", "done", "failed"},
   load : Nat, began : Nat, floor : Nat]

VARIABLES
  rows,        \* rows[o]: how often the row of o has been updated
  loads,       \* every promise made, oldest first
  cache,       \* cache[o]: index of the cached promise, 0 when there is none
  call,        \* call[c]: how far call c has come
  confirmed,   \* confirmed[o]: highest began of the answered calls of getById
  shown,       \* shown[o]: highest floor of the answered calls of getById
  failures     \* queries and requests that have been rejected

vars == <<rows, loads, cache, call, confirmed, shown, failures>>

TypeOK ==
  /\ rows \in [Orders -> Nat]
  /\ loads \in Seq(Load)
  /\ cache \in [Orders -> 0 .. Len(loads)]
  /\ call \in [Calls -> Call]
  /\ \A c \in Calls : call[c].pc # "idle" => call[c].load \in DOMAIN loads
  /\ {confirmed, shown} \subseteq [Orders -> Nat]
  /\ failures \in Nat

Init ==
  /\ rows = [o \in Orders |-> 0]
  /\ loads = << >>
  /\ cache = [o \in Orders |-> 0]
  /\ call = [c \in Calls |-> [pc |-> "idle", load |-> 0, began |-> 0, floor |-> 0]]
  /\ confirmed = [o \in Orders |-> 0]
  /\ shown = [o \in Orders |-> 0]
  /\ failures = 0

-----------------------------------------------------------------------------
At(c, point)   == call[c].pc = point
Goto(c, point) == call' = [call EXCEPT ![c].pc = point]
Dto(c)         == loads[call[c].load]
LoadOf(o)      == [order |-> o, state |-> "queued", version |-> 0, userId |-> TRUE]

(* DataLoader.load when nothing is cached: the key joins the next batch. *)
Enqueue(o) ==
  /\ loads' = Append(loads, LoadOf(o))
  /\ cache' = [cache EXCEPT ![o] = Len(loads) + 1]

(* A consumer group handles one message at a time. *)
MayBegin(c) == c \in Responders => \A d \in Responders : ~ At(d, "loading")

Begin(c) ==
  /\ At(c, "idle")
  /\ MayBegin(c)
  /\ LET o == Wanted[c]
     IN  /\ IF cache[o] # 0 THEN UNCHANGED <<loads, cache>> ELSE Enqueue(o)
         /\ call' = [call EXCEPT ![c] =
                       [pc |-> "loading", load |-> cache'[o], began |-> rows[o],
                        floor |-> IF c \in Readers THEN confirmed[o] ELSE shown[o]]]
  /\ UNCHANGED <<rows, confirmed, shown, failures>>

(* The loads of one turn of the event loop make one query. *)
Batches == SUBSET {p \in DOMAIN loads : loads[p].state = "queued"} \ {{}}

Fetch(B) ==
  /\ \A p \in B : loads[p].order \notin Missing
  /\ loads' = [p \in DOMAIN loads |->
                 IF p \in B THEN [loads[p] EXCEPT !.state = "resolved",
                                                  !.version = rows[loads[p].order]]
                            ELSE loads[p]]
  /\ UNCHANGED <<rows, cache, call, confirmed, shown, failures>>

RejectBatch(B) ==
  /\ loads' = [p \in DOMAIN loads |->
                 IF p \in B THEN [loads[p] EXCEPT !.state = "rejected"] ELSE loads[p]]
  /\ cache' = [o \in Orders |-> IF \E p \in B : loads[p].order = o THEN 0 ELSE cache[o]]
  /\ UNCHANGED <<rows, call, confirmed, shown>>

(* NotFoundError is thrown for the batch: DataLoader rejects and clears    *)
(* each of its loads.                                                      *)
FetchMissing(B) ==
  /\ \E p \in B : loads[p].order \in Missing
  /\ RejectBatch(B)
  /\ UNCHANGED failures

FetchFails(B) ==
  /\ failures < MaxFailures
  /\ failures' = failures + 1
  /\ RejectBatch(B)

Resolved(c) == At(c, "loading") /\ Dto(c).state = "resolved"

(* getById with a complete DTO: ask for the user. *)
AskUser(c) ==
  /\ c \in Readers
  /\ Resolved(c)
  /\ Dto(c).userId
  /\ Goto(c, "asking")
  /\ UNCHANGED <<rows, loads, cache, confirmed, shown, failures>>

(* Mutant: the entry is not cleared before the order is loaded again. *)
LoadAgainUncleared(c) ==
  /\ c \in Readers
  /\ Resolved(c)
  /\ ~ Dto(c).userId
  /\ UNCHANGED vars

(* Mutant: the order is loaded past the cache, which keeps what it had.    *)
LoadAgainAside(c) ==
  /\ c \in Readers
  /\ Resolved(c)
  /\ ~ Dto(c).userId
  /\ loads' = Append(loads, LoadOf(Wanted[c]))
  /\ call' = [call EXCEPT ![c].load = Len(loads) + 1]
  /\ UNCHANGED <<rows, cache, confirmed, shown, failures>>

(* getById with a DTO another getById has stripped: clear, and call again. *)
LoadAgain(c) ==
  /\ c \in Readers
  /\ Resolved(c)
  /\ ~ Dto(c).userId
  /\ Enqueue(Wanted[c])
  /\ call' = [call EXCEPT ![c].load = Len(loads) + 1]
  /\ UNCHANGED <<rows, confirmed, shown, failures>>

Larger(x, y) == IF x < y THEN y ELSE x
Confirm(c) ==
  /\ confirmed' = [confirmed EXCEPT ![Wanted[c]] = Larger(@, call[c].began)]
  /\ shown' = [shown EXCEPT ![Wanted[c]] = Larger(@, call[c].floor)]

(* Mutant: userId is left out of the answer, not taken from the DTO. *)
AnswerFromCopy(c) ==
  /\ c \in Readers
  /\ At(c, "asking")
  /\ Confirm(c)
  /\ Goto(c, "done")
  /\ UNCHANGED <<rows, loads, cache, failures>>

(* The user arrives: userId is deleted from the DTO, the rest is returned. *)
Answer(c) ==
  /\ c \in Readers
  /\ At(c, "asking")
  /\ loads' = [loads EXCEPT ![call[c].load].userId = FALSE]
  /\ Confirm(c)
  /\ Goto(c, "done")
  /\ UNCHANGED <<rows, cache, failures>>

AskFails(c) ==
  /\ At(c, "asking")
  /\ failures < MaxFailures
  /\ failures' = failures + 1
  /\ Goto(c, "failed")
  /\ UNCHANGED <<rows, loads, cache, confirmed, shown>>

(* getBy publishes the DTO as it is. *)
PublishOrder(c) ==
  /\ c \in Responders
  /\ Resolved(c)
  /\ Goto(c, "done")
  /\ UNCHANGED <<rows, loads, cache, confirmed, shown, failures>>

Reject(c) ==
  /\ At(c, "loading")
  /\ Dto(c).state = "rejected"
  /\ Goto(c, "failed")
  /\ UNCHANGED <<rows, loads, cache, confirmed, shown, failures>>

(* updateOrderStatus knows nothing of the loader. *)
Update(o) ==
  /\ o \notin Missing
  /\ rows[o] < MaxUpdates
  /\ rows' = [rows EXCEPT ![o] = @ + 1]
  /\ UNCHANGED <<loads, cache, call, confirmed, shown, failures>>

-----------------------------------------------------------------------------
Continue(c) ==
  \/ AskUser(c) \/ LoadAgain(c) \/ Answer(c) \/ AskFails(c)
  \/ PublishOrder(c) \/ Reject(c)

Query == \E B \in Batches : Fetch(B) \/ FetchMissing(B) \/ FetchFails(B)

Next ==
  \/ \E c \in Calls : Begin(c) \/ Continue(c)
  \/ Query
  \/ \E o \in Orders : Update(o)

Spec == Init /\ [][Next]_vars

(* Promises settle; nobody has to call, nothing has to be updated. *)
FairSpec == Spec /\ WF_vars(Query) /\ \A c \in Calls : WF_vars(Continue(c))

-----------------------------------------------------------------------------
(* Properties *)

Answered(c) == c \in Readers /\ At(c, "done")

(* Staleness ends with one answer: once a getById that began after an      *)
(* update has been answered, every getById that begins later sees the      *)
(* update, however they overlap with others and whatever is cached.        *)
SecondReadIsCurrent ==
  \A c \in Readers : Answered(c) => Dto(c).version >= call[c].floor

(* What getBy publishes to other services is cached, maybe stripped and old; *)
(* but it is never older than what a getById answered before had to show:  *)
(* two getById calls, one after the other, end the staleness of getBy too. *)
PublishedOrderIsRecent ==
  \A c \in Responders : At(c, "done") => Dto(c).version >= call[c].floor

(* getById ends: its recursion finds a DTO with its userId in the end,     *)
(* although calls that are answered meanwhile strip the DTOs they share.   *)
CallsEnd == \A c \in Calls : At(c, "loading") ~> At(c, "done") \/ At(c, "failed")

(* Why the first two hold.  Loads are those of the orders asked for, *)
LoadsMatch ==
  /\ \A c \in Calls : ~ At(c, "idle") => Dto(c).order = Wanted[c]
  /\ \A o \in Orders :
       cache[o] # 0 => /\ loads[cache[o]].order = o
                       /\ loads[cache[o]].state # "rejected"

(* what calls know of a row is its past, *)
BeganInThePast ==
  /\ \A o \in Orders : shown[o] <= confirmed[o] /\ confirmed[o] <= rows[o]
  /\ \A c \in Calls :
       ~ At(c, "idle") => /\ call[c].began <= rows[Wanted[c]]
                          /\ call[c].floor <= call[c].began

(* a DTO that will be, or was, the answer to a call is not below its floor, *)
Usable(c) == Resolved(c) /\ (c \in Readers => Dto(c).userId)
FloorsHold ==
  \A c \in Calls :
    /\ Usable(c) => Dto(c).version >= call[c].floor
    /\ At(c, "asking") \/ At(c, "done")
         => Dto(c).state = "resolved" /\ Dto(c).version >= call[c].floor

(* a complete DTO in the cache shows what answered calls have confirmed, a  *)
(* stripped one what they have shown,                                      *)
CacheIsConfirmed ==
  \A o \in Orders :
    LET dto == loads[cache[o]]
    IN  cache[o] # 0 /\ dto.state = "resolved"
          => dto.version >= IF dto.userId THEN confirmed[o] ELSE shown[o]

(* and one that has replaced the DTO of a call was loaded since it began.   *)
CacheIsNewer ==
  \A c \in Readers :
    LET k == cache[Wanted[c]]
    IN  /\ At(c, "loading") \/ At(c, "asking")
        /\ k \notin {0, call[c].load}
        /\ loads[k].state = "resolved"
        => loads[k].version >= call[c].began

StalenessIsBounded ==
  LoadsMatch /\ BeganInThePast /\ FloorsHold /\ CacheIsConfirmed /\ CacheIsNewer
=============================================================================
