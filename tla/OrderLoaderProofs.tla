-------------------------- MODULE OrderLoaderProofs --------------------------
(***************************************************************************)
(* Proofs about the loader of order-service, for any number of calls,      *)
(* orders and updates: type correctness, and that staleness ends with one  *)
(* answered call.                                                          *)
(***************************************************************************)
EXTENDS OrderLoader, TLAPS

(* A batch changes the state of some loads, and leaves a sequence of loads. *)
LEMMA BatchIsLoads ==
  ASSUME TypeOK, NEW B \in Batches, Fetch(B) \/ RejectBatch(B)
  PROVE  /\ loads' \in Seq(Load)
         /\ Len(loads') = Len(loads)
         /\ DOMAIN loads' = DOMAIN loads
<1>1. /\ loads \in Seq(Load)
      /\ DOMAIN loads = 1 .. Len(loads)
      /\ Len(loads) \in Nat
      /\ \A p \in 1 .. Len(loads) : loads[p] \in Load
  BY DEF TypeOK
<1>2. \A p \in DOMAIN loads : loads[p] \in Load /\ rows[loads[p].order] \in Nat
  BY <1>1 DEF TypeOK, Load
<1>3. loads' \in [1 .. Len(loads) -> Load]
  <2>1. CASE Fetch(B)
    BY <1>1, <1>2, <2>1 DEF Fetch, Load
  <2>2. CASE RejectBatch(B)
    BY <1>1, <2>2 DEF RejectBatch, Load
  <2>3. QED BY <2>1, <2>2
<1>4. QED BY <1>1, <1>3

(* A load that is enqueued is the last of a sequence of loads. *)
LEMMA EnqueueIsLoads ==
  ASSUME TypeOK, NEW o \in Orders, Enqueue(o)
  PROVE  /\ loads' \in Seq(Load)
         /\ Len(loads') = Len(loads) + 1
         /\ DOMAIN loads' = 1 .. Len(loads) + 1
         /\ \A p \in DOMAIN loads : p \in DOMAIN loads' /\ loads'[p] = loads[p]
         /\ loads'[Len(loads) + 1] = LoadOf(o)
         /\ cache' = [cache EXCEPT ![o] = Len(loads) + 1]
         /\ cache' \in [Orders -> 0 .. Len(loads')]
<1>1. LoadOf(o) \in Load
  BY DEF LoadOf, Load
<1>2. QED BY <1>1 DEF TypeOK, Enqueue

(* Deleting userId changes one load. *)
LEMMA AnswerIsLoads ==
  ASSUME TypeOK, NEW c \in Calls, Answer(c)
  PROVE  /\ loads' \in Seq(Load)
         /\ Len(loads') = Len(loads)
         /\ DOMAIN loads' = DOMAIN loads
         /\ call[c].load \in DOMAIN loads
<1>1. call[c].load \in DOMAIN loads
  BY DEF TypeOK, Answer, At
<1>2. /\ DOMAIN loads = 1 .. Len(loads)
      /\ Len(loads) \in Nat
      /\ \A p \in 1 .. Len(loads) : loads[p] \in Load
  BY DEF TypeOK
<1>3. loads' \in [1 .. Len(loads) -> Load]
  BY <1>1, <1>2 DEF Answer, Load
<1>4. QED BY <1>1, <1>2, <1>3

LEMMA NextKeepsType == TypeOK /\ [Next]_vars => TypeOK'
<1> SUFFICES ASSUME TypeOK, [Next]_vars PROVE TypeOK'
  OBVIOUS
<1> USE LoaderAssumption
<1>0. /\ \A c \in Calls : Wanted[c] \in Orders /\ call[c] \in Call
      /\ DOMAIN loads = 1 .. Len(loads) /\ Len(loads) \in Nat
  BY DEF TypeOK
<1>1. ASSUME NEW c \in Calls, Begin(c) PROVE TypeOK'
  <2> DEFINE o == Wanted[c]
             Floor == IF c \in Readers THEN confirmed[o] ELSE shown[o]
  <2>1. CASE cache[o] # 0
    <3>1. UNCHANGED <<loads, cache>> /\ cache[o] \in DOMAIN loads
      BY <1>0, <1>1, <2>1 DEF Begin, TypeOK
    <3>2. call' = [call EXCEPT ![c] = [pc |-> "loading", load |-> cache[o],
                                       began |-> rows[o], floor |-> Floor]]
      BY <1>1, <3>1 DEF Begin
    <3>3. call' \in [Calls -> Call]
      BY <1>0, <3>1, <3>2 DEF TypeOK, Call
    <3>4. QED BY <1>0, <1>1, <3>1, <3>2, <3>3 DEF Begin, TypeOK
  <2>2. CASE cache[o] = 0
    <3>1. Enqueue(o)
      BY <1>1, <2>2 DEF Begin
    <3>2. cache'[o] = Len(loads) + 1
      BY <1>0, <3>1 DEF Enqueue, TypeOK
    <3>3. call' = [call EXCEPT ![c] = [pc |-> "loading", load |-> Len(loads) + 1,
                                       began |-> rows[o], floor |-> Floor]]
      BY <1>1, <3>2 DEF Begin
    <3>4. call' \in [Calls -> Call]
      BY <1>0, <3>3 DEF TypeOK, Call
    <3>5. \A d \in Calls : call'[d].pc # "idle" => call'[d].load \in DOMAIN loads'
      BY <1>0, <3>1, <3>3, EnqueueIsLoads DEF TypeOK
    <3>6. QED BY <1>0, <1>1, <3>1, <3>4, <3>5, EnqueueIsLoads DEF Begin, TypeOK
  <2>3. QED BY <2>1, <2>2
<1>2. ASSUME NEW B \in Batches, Fetch(B) PROVE TypeOK'
  BY <1>2, BatchIsLoads DEF Fetch, TypeOK
<1>3. ASSUME NEW B \in Batches, FetchMissing(B) \/ FetchFails(B) PROVE TypeOK'
  <2>1. RejectBatch(B) /\ failures' \in Nat
    BY <1>3 DEF FetchMissing, FetchFails, TypeOK
  <2>2. cache' \in [Orders -> 0 .. Len(loads)]
    BY <2>1 DEF RejectBatch, TypeOK
  <2>3. QED BY <2>1, <2>2, BatchIsLoads DEF RejectBatch, TypeOK
<1>4. ASSUME NEW c \in Calls, LoadAgain(c) PROVE TypeOK'
  <2>1. Enqueue(Wanted[c]) /\ call' = [call EXCEPT ![c].load = Len(loads) + 1]
    BY <1>4 DEF LoadAgain
  <2>2. call' \in [Calls -> Call]
    <3>1. call[c] \in Call /\ Len(loads) + 1 \in Nat
      BY <1>0
    <3>2. \A n \in Nat : [call[c] EXCEPT !.load = n] \in Call
      BY <3>1 DEF Call
    <3>3. [call EXCEPT ![c].load = Len(loads) + 1] \in [Calls -> Call]
      BY <3>1, <3>2 DEF TypeOK
    <3>4. QED BY <2>1, <3>3
  <2>3. \A d \in Calls : call'[d].pc # "idle" => call'[d].load \in DOMAIN loads'
    BY <1>0, <2>1, EnqueueIsLoads DEF TypeOK
  <2>4. QED BY <1>0, <1>4, <2>1, <2>2, <2>3, EnqueueIsLoads DEF LoadAgain, TypeOK
<1>5. ASSUME NEW c \in Calls, Answer(c) PROVE TypeOK'
  <2>1. call' \in [Calls -> Call]
    BY <1>0, <1>5 DEF Answer, Goto, TypeOK, Call
  <2>2. \A d \in Calls : call'[d].pc # "idle" => call'[d].load \in DOMAIN loads
    BY <1>0, <1>5, AnswerIsLoads DEF Answer, Goto, At, TypeOK
  <2>3. {confirmed', shown'} \subseteq [Orders -> Nat]
    BY <1>0, <1>5 DEF Answer, Confirm, Larger, TypeOK, Call
  <2>4. QED BY <1>5, <2>1, <2>2, <2>3, AnswerIsLoads DEF Answer, TypeOK
<1>6. ASSUME NEW c \in Calls, AskUser(c) \/ AskFails(c) \/ PublishOrder(c) \/ Reject(c)
      PROVE  TypeOK'
  <2>1. /\ UNCHANGED <<rows, loads, cache, confirmed, shown>>
        /\ \E point \in {"asking", "failed", "done"} : Goto(c, point)
        /\ call[c].pc # "idle"
        /\ failures' \in Nat
    BY <1>6 DEF AskUser, AskFails, PublishOrder, Reject, At, Resolved, TypeOK
  <2>2. call' \in [Calls -> Call]
    <3>1. PICK point \in {"asking", "failed", "done"} : Goto(c, point)
      BY <2>1
    <3>2. [call[c] EXCEPT !.pc = point] \in Call
      BY <1>0 DEF Call
    <3>3. QED BY <3>1, <3>2 DEF Goto, TypeOK
  <2>3. \A d \in Calls : call'[d].pc # "idle" => call'[d].load \in DOMAIN loads
    BY <1>0, <2>1 DEF Goto, TypeOK
  <2>4. QED BY <2>1, <2>2, <2>3 DEF TypeOK
<1>7. ASSUME NEW o \in Orders, Update(o) PROVE TypeOK'
  BY <1>7 DEF Update, TypeOK
<1>8. CASE UNCHANGED vars
  BY <1>8 DEF vars, TypeOK
<1>9. QED
  BY <1>1, <1>2, <1>3, <1>4, <1>5, <1>6, <1>7, <1>8 DEF Next, Continue, Query

(* Loads, calls and their bookkeeping are well typed: every call that has   *)
(* begun holds a promise that the loader has made.                         *)
THEOREM LoaderTypeCorrect == Spec => []TypeOK
<1>1. Init => TypeOK
  BY LoaderAssumption DEF Init, TypeOK, Call
<1>2. QED BY <1>1, NextKeepsType, PTL DEF Spec

-----------------------------------------------------------------------------
(* A call begins: it holds what is cached for its order, maybe a new load.  *)
LEMMA BeginKeepsBound ==
  ASSUME TypeOK, StalenessIsBounded, NEW c \in Calls, Begin(c)
  PROVE  StalenessIsBounded'
<1> DEFINE o == Wanted[c]
           k == cache'[o]
           Floor == IF c \in Readers THEN confirmed[o] ELSE shown[o]
<1>1. /\ o \in Orders
      /\ \A d \in Calls : Wanted[d] \in Orders
      /\ \A x \in Orders : rows[x] \in Nat /\ confirmed[x] \in Nat /\ shown[x] \in Nat
      /\ \A x \in Orders : cache[x] # 0 => cache[x] \in DOMAIN loads
      /\ \A d \in Calls : call[d].pc # "idle" => call[d].load \in DOMAIN loads
  BY LoaderAssumption DEF TypeOK
<1>2. /\ UNCHANGED <<rows, confirmed, shown>>
      /\ call'[c] = [pc |-> "loading", load |-> k, began |-> rows[o], floor |-> Floor]
      /\ \A d \in Calls : d # c => call'[d] = call[d]
  BY DEF Begin, TypeOK
<1>3. /\ \A p \in DOMAIN loads : loads'[p] = loads[p]
      /\ \A x \in Orders : x # o => cache'[x] = cache[x]
      /\ k # 0
      /\ \/ k = cache[o]
         \/ loads'[k] = LoadOf(o)
  <2>1. CASE cache[o] # 0
    BY <1>1, <2>1 DEF Begin
  <2>2. CASE cache[o] = 0
    <3>1. Enqueue(o)
      BY <2>2 DEF Begin
    <3>2. k = Len(loads) + 1 /\ Len(loads) \in Nat
      BY <1>1, <3>1, EnqueueIsLoads DEF TypeOK
    <3>3. \A x \in Orders : x # o => cache'[x] = cache[x]
      BY <1>1, <3>1 DEF Enqueue, TypeOK
    <3>4. QED BY <1>1, <3>1, <3>2, <3>3, EnqueueIsLoads
  <2>3. QED BY <2>1, <2>2
<1>4. /\ loads'[k].order = o
      /\ loads'[k].state # "rejected"
      /\ loads'[k].state = "resolved" => k = cache[o]
  BY <1>1, <1>3 DEF StalenessIsBounded, LoadsMatch, LoadOf
<1>5. LoadsMatch'
  BY <1>1, <1>2, <1>3, <1>4 DEF StalenessIsBounded, LoadsMatch, At, Dto
<1>6. BeganInThePast'
  BY <1>1, <1>2 DEF StalenessIsBounded, BeganInThePast, At
<1>7. \A x \in Orders : cache'[x] # 0 /\ loads'[cache'[x]].state = "resolved"
        => loads'[cache'[x]].version >= IF loads'[cache'[x]].userId THEN confirmed[x]
                                                                    ELSE shown[x]
  BY <1>1, <1>3, <1>4 DEF StalenessIsBounded, CacheIsConfirmed
<1>8. CacheIsConfirmed'
  BY <1>2, <1>7 DEF CacheIsConfirmed
<1>9. FloorsHold'
  <2>1. \A d \in Calls : d # c /\ call[d].pc # "idle" => Dto(d)' = Dto(d)
    BY <1>1, <1>2, <1>3 DEF Dto
  <2>2. ASSUME loads'[k].state = "resolved", c \in Readers => loads'[k].userId
        PROVE  loads'[k].version >= Floor
    <3>1. k = cache[o] /\ loads[k] \in Load /\ loads'[k] = loads[k]
      BY <1>1, <1>3, <1>4, <2>2 DEF TypeOK
    <3>2. shown[o] <= confirmed[o]
      BY <1>1 DEF StalenessIsBounded, BeganInThePast
    <3>3. QED BY <1>1, <1>3, <1>7, <2>2, <3>1, <3>2 DEF Load
  <2>3. QED
    BY <1>2, <2>1, <2>2 DEF StalenessIsBounded, FloorsHold, At, Dto, Usable, Resolved
<1>10. CacheIsNewer'
  BY <1>1, <1>2, <1>3, <1>4 DEF StalenessIsBounded, CacheIsNewer, At, Calls
<1>11. QED BY <1>5, <1>6, <1>8, <1>9, <1>10 DEF StalenessIsBounded

(* A query resolves loads with the rows as they are. *)
LEMMA FetchKeepsBound ==
  ASSUME TypeOK, StalenessIsBounded, NEW B \in Batches, Fetch(B)
  PROVE  StalenessIsBounded'
<1>1. /\ \A d \in Calls : Wanted[d] \in Orders
      /\ \A x \in Orders : rows[x] \in Nat /\ confirmed[x] \in Nat /\ shown[x] \in Nat
      /\ \A x \in Orders : cache[x] # 0 => cache[x] \in DOMAIN loads
      /\ \A d \in Calls :
           /\ call[d] \in Call
           /\ call[d].pc # "idle" => call[d].load \in DOMAIN loads
      /\ \A p \in DOMAIN loads : loads[p] \in Load
  BY LoaderAssumption DEF TypeOK
<1>2. UNCHANGED <<rows, cache, call, confirmed, shown>>
  BY DEF Fetch
<1>3. \A p \in DOMAIN loads :
        /\ loads'[p].order = loads[p].order
        /\ \/ loads'[p] = loads[p]
           \/ /\ loads[p].state = "queued"
              /\ loads'[p].state = "resolved"
              /\ loads'[p].version = rows[loads[p].order]
  BY <1>1 DEF Fetch, Batches, Load
<1>4. LoadsMatch'
  BY <1>1, <1>2, <1>3 DEF StalenessIsBounded, LoadsMatch, At, Dto
<1>5. BeganInThePast'
  BY <1>2 DEF StalenessIsBounded, BeganInThePast, At
<1>6. FloorsHold'
  <2> SUFFICES ASSUME NEW d \in Calls, call[d].pc # "idle"
               PROVE  /\ Usable(d)' => Dto(d)'.version >= call[d].floor
                      /\ At(d, "asking") \/ At(d, "done")
                           => Dto(d)'.state = "resolved" /\ Dto(d)'.version >= call[d].floor
    BY <1>2 DEF FloorsHold, At, Usable, Resolved
  <2>1. CASE Dto(d)' = Dto(d)
    BY <1>2, <2>1 DEF StalenessIsBounded, FloorsHold, At, Usable, Resolved
  <2>2. CASE Dto(d)' # Dto(d)
    <3>1. Dto(d).state = "queued" /\ Dto(d)'.version = rows[Wanted[d]]
      BY <1>1, <1>2, <1>3, <2>2 DEF StalenessIsBounded, LoadsMatch, At, Dto
    <3>2. call[d].floor <= rows[Wanted[d]]
      BY <1>1 DEF StalenessIsBounded, BeganInThePast, At, Call
    <3>3. ~ (At(d, "asking") \/ At(d, "done"))
      BY <3>1 DEF StalenessIsBounded, FloorsHold
    <3>4. QED BY <1>1, <3>1, <3>2, <3>3 DEF Call
  <2>3. QED BY <2>1, <2>2
<1>7. CacheIsConfirmed'
  BY <1>1, <1>2, <1>3
     DEF StalenessIsBounded, LoadsMatch, BeganInThePast, CacheIsConfirmed
<1>8. CacheIsNewer'
  <2>1. \A d \in Readers : d \in Calls
    BY DEF Calls
  <2>2. QED
    BY <1>1, <1>2, <1>3, <2>1
       DEF StalenessIsBounded, LoadsMatch, BeganInThePast, CacheIsNewer, At
<1>9. QED BY <1>4, <1>5, <1>6, <1>7, <1>8 DEF StalenessIsBounded

(* A rejected batch is no longer cached. *)
LEMMA RejectKeepsBound ==
  ASSUME TypeOK, StalenessIsBounded, NEW B \in Batches, RejectBatch(B)
  PROVE  StalenessIsBounded'
<1>1. /\ \A d \in Calls : Wanted[d] \in Orders
      /\ \A x \in Orders : cache[x] # 0 => cache[x] \in DOMAIN loads
      /\ \A d \in Calls : call[d].pc # "idle" => call[d].load \in DOMAIN loads
      /\ \A p \in DOMAIN loads : loads[p] \in Load
  BY LoaderAssumption DEF TypeOK
<1>2. UNCHANGED <<rows, call, confirmed, shown>>
  BY DEF RejectBatch
<1>3. \A p \in DOMAIN loads :
        /\ loads'[p].order = loads[p].order
        /\ loads'[p].version = loads[p].version
        /\ \/ loads'[p] = loads[p]
           \/ p \in B /\ loads[p].state = "queued" /\ loads'[p].state = "rejected"
  BY <1>1 DEF RejectBatch, Batches, Load
<1>4. \A x \in Orders :
        \/ cache'[x] = 0
        \/ /\ cache'[x] = cache[x]
           /\ \A p \in B : loads[p].order # x
  BY DEF RejectBatch
<1>5. \A x \in Orders : cache'[x] # 0 => cache'[x] = cache[x]
                                          /\ loads'[cache[x]] = loads[cache[x]]
  BY <1>1, <1>3, <1>4 DEF StalenessIsBounded, LoadsMatch
<1>6. LoadsMatch'
  BY <1>1, <1>2, <1>3, <1>5 DEF StalenessIsBounded, LoadsMatch, At, Dto
<1>7. BeganInThePast'
  BY <1>2 DEF StalenessIsBounded, BeganInThePast, At
<1>8. FloorsHold'
  <2>1. \A d \in Readers : d \in Calls
    BY DEF Calls
  <2>2. QED
    BY <1>1, <1>2, <1>3, <2>1 DEF StalenessIsBounded, FloorsHold, At, Dto, Usable, Resolved
<1>9. CacheIsConfirmed'
  BY <1>2, <1>5 DEF StalenessIsBounded, CacheIsConfirmed
<1>10. CacheIsNewer'
  <2>1. \A d \in Readers : d \in Calls
    BY DEF Calls
  <2>2. QED BY <1>1, <1>2, <1>5, <2>1 DEF StalenessIsBounded, CacheIsNewer, At
<1>11. QED BY <1>6, <1>7, <1>8, <1>9, <1>10 DEF StalenessIsBounded

(* An entry is cleared and loaded again: nothing resolved is cached.        *)
LEMMA LoadAgainKeepsBound ==
  ASSUME TypeOK, StalenessIsBounded, NEW c \in Calls, LoadAgain(c)
  PROVE  StalenessIsBounded'
<1> DEFINE o == Wanted[c]
           k == Len(loads) + 1
<1>1. /\ o \in Orders
      /\ \A d \in Calls : Wanted[d] \in Orders
      /\ \A x \in Orders : cache[x] # 0 => cache[x] \in DOMAIN loads
      /\ \A d \in Calls : call[d].pc # "idle" => call[d].load \in DOMAIN loads
      /\ DOMAIN loads = 1 .. Len(loads) /\ Len(loads) \in Nat
  BY LoaderAssumption DEF TypeOK
<1>2. /\ UNCHANGED <<rows, confirmed, shown>>
      /\ call[c].pc = "loading"
      /\ \A d \in Calls : d # c => call'[d] = call[d]
  BY DEF LoadAgain, TypeOK, Resolved, At
<1>3. /\ call'[c].pc = "loading"
      /\ call'[c].load = k
      /\ call'[c].began = call[c].began
      /\ call'[c].floor = call[c].floor
  BY <1>2 DEF LoadAgain, TypeOK, Call
<1>4. /\ \A p \in DOMAIN loads : loads'[p] = loads[p]
      /\ loads'[k] = LoadOf(o)
      /\ \A x \in Orders : x # o => cache'[x] = cache[x]
      /\ cache'[o] = k /\ k # 0
  <2>1. Enqueue(o)
    BY DEF LoadAgain
  <2>2. QED BY <1>1, <2>1, EnqueueIsLoads DEF TypeOK
<1>5. loads'[k].order = o /\ loads'[k].state = "queued"
  BY <1>4 DEF LoadOf
<1> HIDE DEF k, o
<1>6. LoadsMatch'
  <2>1. \A d \in Calls : call'[d].pc # "idle" => loads'[call'[d].load].order = Wanted[d]
    BY <1>1, <1>2, <1>3, <1>4, <1>5 DEF StalenessIsBounded, LoadsMatch, At, Dto, o
  <2>2. \A x \in Orders : cache'[x] # 0 =>
          loads'[cache'[x]].order = x /\ loads'[cache'[x]].state # "rejected"
    BY <1>1, <1>4, <1>5 DEF StalenessIsBounded, LoadsMatch
  <2>3. QED BY <2>1, <2>2 DEF LoadsMatch, At, Dto
<1>7. BeganInThePast'
  BY <1>1, <1>2, <1>3 DEF StalenessIsBounded, BeganInThePast, At
<1>8. FloorsHold'
  BY <1>1, <1>2, <1>3, <1>4, <1>5
     DEF StalenessIsBounded, FloorsHold, At, Dto, Usable, Resolved, Calls
<1>9. CacheIsConfirmed'
  BY <1>1, <1>2, <1>4, <1>5 DEF StalenessIsBounded, CacheIsConfirmed
<1>10. CacheIsNewer'
  <2>1. \A d \in Readers : d \in Calls
    BY DEF Calls
  <2>2. \A d \in Readers : Wanted[d] # o => call'[d] = call[d]
    BY <1>2, <2>1 DEF o
  <2>3. QED
    BY <1>1, <1>4, <1>5, <2>1, <2>2 DEF StalenessIsBounded, CacheIsNewer, At
<1>11. QED BY <1>6, <1>7, <1>8, <1>9, <1>10 DEF StalenessIsBounded

(* A call is answered: its DTO is no longer complete, and whatever else is  *)
(* cached is not older than the call.                                      *)
LEMMA AnswerKeepsBound ==
  ASSUME TypeOK, StalenessIsBounded, NEW c \in Readers, Answer(c)
  PROVE  StalenessIsBounded'
<1> DEFINE o == Wanted[c]
           l == call[c].load
<1>1. /\ c \in Calls /\ o \in Orders
      /\ \A d \in Readers : d \in Calls
      /\ \A d \in Calls : Wanted[d] \in Orders /\ call[d] \in Call
      /\ \A x \in Orders : rows[x] \in Nat /\ confirmed[x] \in Nat /\ shown[x] \in Nat
      /\ \A x \in Orders : cache[x] # 0 => cache[x] \in DOMAIN loads
      /\ \A d \in Calls : call[d].pc # "idle" => call[d].load \in DOMAIN loads
      /\ \A p \in DOMAIN loads : loads[p] \in Load
  BY LoaderAssumption DEF TypeOK, Calls
<1>2. /\ UNCHANGED <<rows, cache>>
      /\ call[c].pc = "asking"
      /\ l \in DOMAIN loads
  BY <1>1 DEF Answer, At
<1>3. \A p \in DOMAIN loads :
        /\ loads'[p].order = loads[p].order
        /\ loads'[p].state = loads[p].state
        /\ loads'[p].version = loads[p].version
        /\ loads'[p].userId <=> loads[p].userId /\ p # l
  BY <1>1, <1>2 DEF Answer, Load
<1>4. /\ call'[c].pc = "done"
      /\ \A d \in Calls :
           /\ call'[d].load = call[d].load
           /\ call'[d].began = call[d].began
           /\ call'[d].floor = call[d].floor
           /\ d # c => call'[d].pc = call[d].pc
  BY <1>1 DEF Answer, Goto, TypeOK, Call
<1>5. /\ \A x \in Orders : x # o => confirmed'[x] = confirmed[x] /\ shown'[x] = shown[x]
      /\ confirmed'[o] = Larger(confirmed[o], call[c].began)
      /\ shown'[o] = Larger(shown[o], call[c].floor)
  BY <1>1 DEF Answer, Confirm, TypeOK
<1>6. LoadsMatch'
  BY <1>1, <1>2, <1>3, <1>4 DEF StalenessIsBounded, LoadsMatch, At, Dto
<1>7. BeganInThePast'
  BY <1>1, <1>2, <1>4, <1>5 DEF StalenessIsBounded, BeganInThePast, At, Larger, Call
<1>8. FloorsHold'
  BY <1>1, <1>2, <1>3, <1>4 DEF StalenessIsBounded, FloorsHold, At, Dto, Usable, Resolved
<1>9. CacheIsConfirmed'
  <2> SUFFICES ASSUME NEW x \in Orders, cache[x] # 0, loads'[cache[x]].state = "resolved"
               PROVE  loads'[cache[x]].version
                        >= IF loads'[cache[x]].userId THEN confirmed'[x] ELSE shown'[x]
    BY <1>2 DEF CacheIsConfirmed
  <2> DEFINE dto == loads[cache[x]]
  <2>1. /\ dto \in Load /\ dto.state = "resolved"
        /\ loads'[cache[x]].version = dto.version
        /\ loads'[cache[x]].userId <=> dto.userId /\ cache[x] # l
    BY <1>1, <1>3
  <2>2. dto.version >= IF dto.userId THEN confirmed[x] ELSE shown[x]
    BY <2>1 DEF StalenessIsBounded, CacheIsConfirmed
  <2>3. shown[x] <= confirmed[x] /\ call[c].floor <= call[c].began
    BY <1>1, <1>2 DEF StalenessIsBounded, BeganInThePast, At
  <2>4. CASE x # o
    BY <1>1, <1>2, <1>5, <2>1, <2>2, <2>3, <2>4 DEF StalenessIsBounded, LoadsMatch, At, Dto, Load
  <2>5. CASE x = o /\ cache[x] # l
    <3>1. dto.version >= call[c].began
      BY <1>1, <1>2, <2>1, <2>5 DEF StalenessIsBounded, CacheIsNewer, At
    <3>2. QED BY <1>1, <1>5, <2>1, <2>2, <2>3, <2>5, <3>1 DEF Larger, Load, Call
  <2>6. CASE x = o /\ cache[x] = l
    <3>1. dto.version >= call[c].floor
      BY <1>1, <1>2, <2>6 DEF StalenessIsBounded, FloorsHold, At, Dto
    <3>2. QED BY <1>1, <1>5, <2>1, <2>2, <2>3, <2>6, <3>1 DEF Larger, Load, Call
  <2>7. QED BY <2>4, <2>5, <2>6
<1>10. CacheIsNewer'
  BY <1>1, <1>2, <1>3, <1>4 DEF StalenessIsBounded, CacheIsNewer, At
<1>11. QED BY <1>6, <1>7, <1>8, <1>9, <1>10 DEF StalenessIsBounded

(* A call goes on, or fails, without touching loads or cache. *)
LEMMA GotoKeepsBound ==
  ASSUME TypeOK, StalenessIsBounded, NEW c \in Calls,
         AskUser(c) \/ AskFails(c) \/ PublishOrder(c) \/ Reject(c)
  PROVE  StalenessIsBounded'
<1>1. /\ \A d \in Readers : d \in Calls
      /\ \A d \in Calls : call[d] \in Call
      /\ UNCHANGED <<rows, loads, cache, confirmed, shown>>
  BY LoaderAssumption DEF TypeOK, Calls, AskUser, AskFails, PublishOrder, Reject
<1>2. \/ /\ call[c].pc = "loading" /\ call' = [call EXCEPT ![c].pc = "asking"]
         /\ Usable(c)
      \/ /\ call[c].pc \in {"loading", "asking"}
         /\ call' = [call EXCEPT ![c].pc = "failed"]
      \/ /\ call[c].pc = "loading" /\ call' = [call EXCEPT ![c].pc = "done"]
         /\ Usable(c)
  <2>1. CASE AskUser(c)
    BY <2>1 DEF AskUser, Goto, At, Resolved, Usable
  <2>2. CASE AskFails(c)
    BY <2>2 DEF AskFails, Goto, At
  <2>3. CASE PublishOrder(c)
    BY <2>3, LoaderAssumption DEF PublishOrder, Goto, At, Resolved, Usable
  <2>4. CASE Reject(c)
    BY <2>4 DEF Reject, Goto, At
  <2>5. QED BY <2>1, <2>2, <2>3, <2>4
<1>3. /\ call[c].pc \in {"loading", "asking"}
      /\ \A d \in Calls :
           /\ call'[d].load = call[d].load
           /\ call'[d].began = call[d].began
           /\ call'[d].floor = call[d].floor
           /\ d # c => call'[d].pc = call[d].pc
      /\ call'[c].pc \in {"asking", "done"} => Usable(c)
      /\ call'[c].pc \in {"asking", "done", "failed"}
  BY <1>1, <1>2 DEF TypeOK, Call
<1>4. LoadsMatch'
  BY <1>1, <1>3 DEF StalenessIsBounded, LoadsMatch, At, Dto
<1>5. BeganInThePast'
  BY <1>1, <1>3 DEF StalenessIsBounded, BeganInThePast, At
<1>6. FloorsHold'
  BY <1>1, <1>3 DEF StalenessIsBounded, FloorsHold, At, Dto, Usable, Resolved
<1>7. CacheIsConfirmed'
  BY <1>1 DEF StalenessIsBounded, CacheIsConfirmed
<1>8. CacheIsNewer'
  BY <1>1, <1>3 DEF StalenessIsBounded, CacheIsNewer, At
<1>9. QED BY <1>4, <1>5, <1>6, <1>7, <1>8 DEF StalenessIsBounded

LEMMA UpdateKeepsBound ==
  ASSUME TypeOK, StalenessIsBounded, NEW o \in Orders, Update(o)
  PROVE  StalenessIsBounded'
<1>1. /\ \A d \in Calls : Wanted[d] \in Orders /\ call[d] \in Call
      /\ \A x \in Orders : rows[x] \in Nat /\ confirmed[x] \in Nat /\ shown[x] \in Nat
      /\ \A x \in Orders : rows'[x] \in Nat /\ rows'[x] >= rows[x]
      /\ UNCHANGED <<loads, cache, call, confirmed, shown>>
  BY LoaderAssumption DEF TypeOK, Update
<1>2. LoadsMatch' /\ FloorsHold' /\ CacheIsConfirmed' /\ CacheIsNewer'
  BY <1>1 DEF StalenessIsBounded, LoadsMatch, FloorsHold, CacheIsConfirmed,
              CacheIsNewer, At, Dto, Usable, Resolved
<1>3. \A x \in Orders : shown[x] <= confirmed[x] /\ confirmed[x] <= rows'[x]
  BY <1>1 DEF StalenessIsBounded, BeganInThePast
<1>4. \A d \in Calls : call[d].pc # "idle" =>
        call[d].began <= rows'[Wanted[d]] /\ call[d].floor <= call[d].began
  BY <1>1 DEF StalenessIsBounded, BeganInThePast, At, Call
<1>5. BeganInThePast'
  BY <1>1, <1>3, <1>4 DEF BeganInThePast, At
<1>6. QED BY <1>2, <1>5 DEF StalenessIsBounded

LEMMA BoundIsInvariant == Spec => []StalenessIsBounded
<1>1. Init => StalenessIsBounded
  BY LoaderAssumption
     DEF Init, StalenessIsBounded, LoadsMatch, BeganInThePast, FloorsHold, Usable, Resolved,
         CacheIsConfirmed, CacheIsNewer, At, Calls
<1>2. TypeOK /\ StalenessIsBounded /\ [Next]_vars => StalenessIsBounded'
  <2> SUFFICES ASSUME TypeOK, StalenessIsBounded, [Next]_vars
               PROVE  StalenessIsBounded'
    OBVIOUS
  <2>1. CASE UNCHANGED vars
    BY <2>1 DEF vars, StalenessIsBounded, LoadsMatch, BeganInThePast, FloorsHold,
                CacheIsConfirmed, CacheIsNewer, At, Dto, Usable, Resolved
  <2>2. ASSUME NEW c \in Calls, Answer(c) PROVE StalenessIsBounded'
    <3>1. c \in Readers
      BY <2>2 DEF Answer
    <3>2. QED BY <2>2, <3>1, AnswerKeepsBound
  <2>3. ASSUME NEW B \in Batches, FetchMissing(B) \/ FetchFails(B)
        PROVE  StalenessIsBounded'
    BY <2>3, RejectKeepsBound DEF FetchMissing, FetchFails
  <2>4. QED
    BY <2>1, <2>2, <2>3, BeginKeepsBound, FetchKeepsBound, LoadAgainKeepsBound,
       GotoKeepsBound, UpdateKeepsBound DEF Next, Continue, Query
<1>3. QED BY <1>1, <1>2, LoaderTypeCorrect, PTL DEF Spec

(* One answered getById ends the staleness of its order: any number of      *)
(* calls, orders and updates, with rejected queries and requests.          *)
THEOREM StalenessEnds == Spec => []SecondReadIsCurrent
<1>1. StalenessIsBounded => SecondReadIsCurrent
  BY DEF StalenessIsBounded, FloorsHold, SecondReadIsCurrent, Answered, Calls
<1>2. QED BY <1>1, BoundIsInvariant, PTL

(* Two getById calls, one after the other, end the staleness of what getBy  *)
(* publishes to other services, for any number of calls of both kinds.     *)
THEOREM PublishedStalenessEnds == Spec => []PublishedOrderIsRecent
<1>1. StalenessIsBounded => PublishedOrderIsRecent
  BY DEF StalenessIsBounded, FloorsHold, PublishedOrderIsRecent, Calls
<1>2. QED BY <1>1, BoundIsInvariant, PTL
=============================================================================
