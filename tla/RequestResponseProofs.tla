------------------------ MODULE RequestResponseProofs ------------------------
(* For any number of groups, requests and faults: no handler is leaked, and *)
(* no request is resolved by the answer to another.                         *)
EXTENDS RequestResponse, TLAPS

USE RequestAssumption

LEMMA NextKeepsType == TypeOK /\ [Next]_vars => TypeOK'
<1> SUFFICES ASSUME TypeOK, [Next]_vars
             PROVE  TypeOK'
  OBVIOUS
<1> USE DEF TypeOK, Goto, Settle, Spend, Faults
<1>1. ASSUME NEW R \in Calls, Ask(R)
      PROVE  TypeOK'
  BY <1>1 DEF Ask, AskAll
<1>2. ASSUME NEW r \in Requests, PublishRequest(r)
      PROVE  TypeOK'
  BY <1>2 DEF PublishRequest
<1>3. ASSUME NEW r \in Requests, PublishFails(r)
      PROVE  TypeOK'
  BY <1>3 DEF PublishFails
<1>4. ASSUME NEW r \in Requests, Subscribe(r)
      PROVE  TypeOK'
  BY <1>4 DEF Subscribe
<1>5. ASSUME NEW r \in Requests, Join(r)
      PROVE  TypeOK'
  BY <1>5 DEF Join
<1>6. ASSUME NEW r \in Requests, JoinFails(r)
      PROVE  TypeOK'
  BY <1>6 DEF JoinFails
<1>7. ASSUME NEW r \in Requests, Timeout(r)
      PROVE  TypeOK'
  BY <1>7 DEF Timeout
<1>8. ASSUME NEW r \in Requests, Respond(r)
      PROVE  TypeOK'
  BY <1>8 DEF Respond, TakeRequest
<1>9. ASSUME NEW g \in Groups, NEW r \in responses[g], HandleResponse(g, r)
      PROVE  TypeOK'
  BY <1>9 DEF HandleResponse
<1>10. CASE UNCHANGED vars
  BY <1>10 DEF vars
<1>11. QED
  BY <1>1, <1>2, <1>3, <1>4, <1>5, <1>6, <1>7, <1>8, <1>9, <1>10 DEF Next, Progress

(* Every state of the requests and of the groups is well typed. *)
THEOREM RequestTypeCorrect == Spec => []TypeOK
<1>1. Init => TypeOK
  BY DEF Init, TypeOK, Faults
<1>2. QED BY <1>1, NextKeepsType, PTL DEF Spec

-----------------------------------------------------------------------------
(* Handlers and timers come and go together. *)
LEMMA NextReleasesHandlers ==
  TypeOK /\ HandlersAreReleased /\ [Next]_vars => HandlersAreReleased'
<1> SUFFICES ASSUME TypeOK, HandlersAreReleased, [Next]_vars
             PROVE  HandlersAreReleased'
  OBVIOUS
<1> USE DEF TypeOK, HandlersAreReleased, Settle
<1>1. ASSUME NEW R \in Calls, Ask(R)
      PROVE  HandlersAreReleased'
  BY <1>1 DEF Ask, AskAll
<1>2. ASSUME NEW r \in Requests, PublishFails(r) \/ JoinFails(r)
      PROVE  HandlersAreReleased'
  BY <1>2 DEF PublishFails, JoinFails
<1>3. ASSUME NEW r \in Requests, Progress(r) \/ Respond(r)
      PROVE  HandlersAreReleased'
  BY <1>3 DEF Progress, PublishRequest, Subscribe, Join, Respond
<1>4. ASSUME NEW r \in Requests, Timeout(r)
      PROVE  HandlersAreReleased'
  BY <1>4 DEF Timeout
<1>5. ASSUME NEW g \in Groups, NEW r \in responses[g], HandleResponse(g, r)
      PROVE  HandlersAreReleased'
  BY <1>5 DEF HandleResponse
<1>6. CASE UNCHANGED vars
  BY <1>6 DEF vars
<1>7. QED BY <1>1, <1>2, <1>3, <1>4, <1>5, <1>6 DEF Next

(* processRequest leaks no handler: it is there exactly as long as the timer *)
(* that would remove it, and never after the request was resolved.          *)
THEOREM NoHandlerLeaks == Spec => []HandlersAreReleased
<1>1. Init => HandlersAreReleased
  BY DEF Init, HandlersAreReleased
<1>2. QED BY <1>1, NextReleasesHandlers, RequestTypeCorrect, PTL DEF Spec

-----------------------------------------------------------------------------
(* No group is ever given a response for an unknown id. *)
NoUnknownResponse == \A g \in Groups : responses[g] \cap Unknown = {}

LEMMA NextKeepsUnknown ==
  TypeOK /\ NoUnknownResponse /\ UnknownIsNeverResolved /\ [Next]_vars
    => NoUnknownResponse' /\ UnknownIsNeverResolved'
<1> SUFFICES ASSUME TypeOK, NoUnknownResponse, UnknownIsNeverResolved, [Next]_vars
             PROVE  NoUnknownResponse' /\ UnknownIsNeverResolved'
  OBVIOUS
<1> USE DEF TypeOK, NoUnknownResponse, UnknownIsNeverResolved, Settle
<1>1. ASSUME NEW R \in Calls, Ask(R)
      PROVE  NoUnknownResponse' /\ UnknownIsNeverResolved'
  BY <1>1 DEF Ask, AskAll
<1>2. ASSUME NEW r \in Requests, PublishFails(r) \/ JoinFails(r) \/ Timeout(r)
      PROVE  NoUnknownResponse' /\ UnknownIsNeverResolved'
  BY <1>2 DEF PublishFails, JoinFails, Timeout
<1>3. ASSUME NEW r \in Requests, Progress(r)
      PROVE  NoUnknownResponse' /\ UnknownIsNeverResolved'
  BY <1>3 DEF Progress, PublishRequest, Subscribe, Join
<1>4. ASSUME NEW r \in Requests, Respond(r)
      PROVE  NoUnknownResponse' /\ UnknownIsNeverResolved'
  BY <1>4 DEF Respond
<1>5. ASSUME NEW g \in Groups, NEW r \in responses[g], HandleResponse(g, r)
      PROVE  NoUnknownResponse' /\ UnknownIsNeverResolved'
  BY <1>5 DEF HandleResponse
<1>6. CASE UNCHANGED vars
  BY <1>6 DEF vars
<1>7. QED BY <1>1, <1>2, <1>3, <1>4, <1>5, <1>6 DEF Next

(* handleResponse resolves the request whose correlation id the response    *)
(* carries, so a request nobody can answer is never resolved.               *)
THEOREM NoForeignAnswer == Spec => []UnknownIsNeverResolved
<1>1. Init => NoUnknownResponse /\ UnknownIsNeverResolved
  BY DEF Init, NoUnknownResponse, UnknownIsNeverResolved
<1>2. QED BY <1>1, NextKeepsUnknown, RequestTypeCorrect, PTL DEF Spec

-----------------------------------------------------------------------------
(* requestResponse keeps its promise *)

(* A request is asked before anything is under way that is about it. *)
AskedFirst ==
  \A r \in Requests :
    IF pc[r] = "idle"
      THEN promise[r] = "none" /\ r \notin requests /\ \A g \in Groups : r \notin responses[g]
      ELSE promise[r] # "none"

(* What is pending has a handler. *)
PendingIsHandled == \A r \in Requests : promise[r] = "pending" => r \in handlers

LEMMA NextAsksFirst ==
  TypeOK /\ AskedFirst /\ PendingIsHandled /\ [Next]_vars => AskedFirst' /\ PendingIsHandled'
<1> SUFFICES ASSUME TypeOK, AskedFirst, PendingIsHandled, [Next]_vars
             PROVE  AskedFirst' /\ PendingIsHandled'
  OBVIOUS
<1> USE DEF TypeOK, AskedFirst, PendingIsHandled, Settle, Goto
<1>1. ASSUME NEW R \in Calls, Ask(R)
      PROVE  AskedFirst' /\ PendingIsHandled'
  BY <1>1 DEF Ask, AskAll
<1>2. ASSUME NEW r \in Requests, PublishFails(r) \/ JoinFails(r)
      PROVE  AskedFirst' /\ PendingIsHandled'
  BY <1>2 DEF PublishFails, JoinFails
<1>3. ASSUME NEW r \in Requests, Progress(r)
      PROVE  AskedFirst' /\ PendingIsHandled'
  BY <1>3 DEF Progress, PublishRequest, Subscribe, Join
<1>4. ASSUME NEW r \in Requests, Timeout(r)
      PROVE  AskedFirst' /\ PendingIsHandled'
  BY <1>4 DEF Timeout
<1>5. ASSUME NEW r \in Requests, Respond(r)
      PROVE  AskedFirst' /\ PendingIsHandled'
  BY <1>5 DEF Respond, TakeRequest
<1>6. ASSUME NEW g \in Groups, NEW r \in responses[g], HandleResponse(g, r)
      PROVE  AskedFirst' /\ PendingIsHandled'
  BY <1>6 DEF HandleResponse
<1>7. CASE UNCHANGED vars
  BY <1>7 DEF vars
<1>8. QED BY <1>1, <1>2, <1>3, <1>4, <1>5, <1>6, <1>7 DEF Next

(* A promise that is settled with state is rejected or keeps what it was.  *)
LEMMA RejectionIsPromised ==
  ASSUME TypeOK, NEW r \in Requests, Settle(r, "rejected"), UNCHANGED responses
  PROVE  [Promised!Next]_<<promise, Answers>>
<1>1. Answers' = Answers
  BY DEF Answers
<1>2. CASE promise[r] = "pending"
  BY <1>1, <1>2 DEF Settle, Promised!Reject, Promised!Next, TypeOK
<1>3. CASE promise[r] # "pending"
  BY <1>1, <1>3 DEF Settle, TypeOK
<1>4. QED BY <1>2, <1>3

LEMMA ResponsesAnswer ==
  ASSUME TypeOK, AskedFirst, NEW r \in Requests, Respond(r)
  PROVE  [Promised!Next]_<<promise, Answers>>
<1>1. promise' = promise /\ promise[r] # "none"
  BY DEF Respond, TakeRequest, AskedFirst
<1>2. CASE r \notin Unknown /\ Client[r] \in joined \cap Readers(r)
  <2>1. Answers' = Answers \cup {r}
    BY <1>2 DEF Answers, Respond, TypeOK
  <2>2. QED BY <1>1, <1>2, <2>1 DEF Promised!Answer, Promised!Next
<1>3. CASE ~ (r \notin Unknown /\ Client[r] \in joined \cap Readers(r))
  <2>1. Answers' = Answers
    BY <1>3 DEF Answers, Respond, TypeOK
  <2>2. QED BY <1>1, <2>1
<1>4. QED BY <1>2, <1>3

LEMMA ReadingsAnswer ==
  ASSUME TypeOK, HandlersAreReleased, PendingIsHandled,
         NEW g \in Groups, NEW r \in responses[g], HandleResponse(g, r)
  PROVE  [Promised!Next]_<<promise, Answers>>
<1>1. r \in Requests
  BY DEF TypeOK
<1>2. CASE g # Client[r]
  <2>1. Answers' = Answers
    BY <1>2 DEF Answers, HandleResponse, TypeOK
  <2>2. QED BY <1>2, <2>1 DEF HandleResponse
<1>3. CASE g = Client[r]
  <2>1. r \in Answers /\ Answers' = Answers \ {r}
    BY <1>1, <1>3 DEF Answers, HandleResponse, TypeOK
  <2>2. CASE promise[r] = "pending"
    <3>1. Settle(r, "resolved")
      BY <1>1, <1>3, <2>2 DEF HandleResponse, PendingIsHandled
    <3>2. QED BY <1>1, <2>1, <2>2, <3>1 DEF Settle, TypeOK, Promised!Resolve, Promised!Next
  <2>3. CASE promise[r] # "pending"
    <3>1. promise' = promise
      BY <1>1, <2>3 DEF HandleResponse, Settle, TypeOK
    <3>2. QED BY <1>1, <2>1, <2>3, <3>1 DEF Promised!Discard, Promised!Next
  <2>4. QED BY <2>2, <2>3
<1>4. QED BY <1>2, <1>3

LEMMA StepsArePromised ==
  TypeOK /\ HandlersAreReleased /\ AskedFirst /\ PendingIsHandled /\ [Next]_vars
    => [Promised!Next]_<<promise, Answers>>
<1> SUFFICES ASSUME TypeOK, HandlersAreReleased, AskedFirst, PendingIsHandled, [Next]_vars
             PROVE  [Promised!Next]_<<promise, Answers>>
  OBVIOUS
<1>1. ASSUME NEW R \in Calls, Ask(R)
      PROVE  [Promised!Next]_<<promise, Answers>>
  <2>1. Answers' = Answers
    BY <1>1 DEF Ask, AskAll, Answers
  <2>2. \A r \in R : promise[r] = "none"
    BY <1>1 DEF Ask, AskAll, AskedFirst
  <2>3. Promised!Ask(R)
    BY <1>1, <2>1, <2>2 DEF Ask, AskAll, Promised!Ask
  <2>4. QED BY <2>3 DEF Promised!Next
<1>2. ASSUME NEW r \in Requests, PublishFails(r) \/ JoinFails(r) \/ Timeout(r)
      PROVE  [Promised!Next]_<<promise, Answers>>
  BY <1>2, RejectionIsPromised DEF PublishFails, JoinFails, Timeout
<1>3. ASSUME NEW r \in Requests, Progress(r)
      PROVE  UNCHANGED <<promise, responses>>
  BY <1>3 DEF Progress, PublishRequest, Subscribe, Join
<1>4. ASSUME UNCHANGED <<promise, responses>>
      PROVE  UNCHANGED <<promise, Answers>>
  BY <1>4 DEF Answers
<1>5. QED
  BY <1>1, <1>2, <1>3, <1>4, ResponsesAnswer, ReadingsAnswer DEF Next, vars

(* However handlers, timers, publications and subscriptions interleave, and *)
(* whatever is redelivered or rejected: a request settles once, by the      *)
(* answer to itself or a rejection, and no answer that handleResponse of    *)
(* the group that asked reads in time is lost.                              *)
THEOREM RequestsKeepTheirPromise == Spec => ImplementsRequestOutcome
<1>1. Init => AskedFirst /\ PendingIsHandled
  BY DEF Init, AskedFirst, PendingIsHandled
<1>2. Init => Promised!Init
  BY DEF Init, Promised!Init, Answers
<1>3. QED
  BY <1>1, <1>2, NextAsksFirst, StepsArePromised, RequestTypeCorrect, NoHandlerLeaks, PTL
  DEF Spec, Promised!Spec, ImplementsRequestOutcome
=============================================================================
