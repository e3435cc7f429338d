--------------------------- MODULE RequestResponse ---------------------------
(***************************************************************************)
(* Requests over Kafka (kafka.infrastructure.ts requestResponse,           *)
(* processRequest, handleResponse and subscribe; kafka-consumer's subscribe *)
(* and run): order-service and invoice-service ask auth-service for a user, *)
(* invoice-service asks order-service for an order.                        *)
(*                                                                         *)
(* A request names the consumer group its response is read in, and is       *)
(* served by one group, which takes it once.  A group may do both:          *)
(* ORDER_USER_FETCH_GROUP serves orders from start-up on, and is stopped    *)
(* and run again when the first request for a user adds its response topic. *)
(* All groups that read a response topic are given each of its responses.   *)
(* Topics have three partitions: messages may overtake one another.         *)
(***************************************************************************)
CONSTANTS
  Groups,        \* consumer groups
  Requests,      \* requests; each stands for its own correlation id
  Calls,         \* sets of requests that are made by one requestResponse
  Client,        \* Client[r]: the group that request r names
  Responder,     \* Responder[r]: the group that serves the topic of r
  Unknown,       \* requests for an id the responder's database does not have
  Slow,          \* requests that may take longer than their ten seconds
  Strikes        \* <<fault, request>>: what may go wrong once, with what

Faults == {"publishError", "subscribeError", "redelivery"}

ASSUME RequestAssumption == /\ {Client, Responder} \subseteq [Requests -> Groups]
                            /\ Calls \subseteq SUBSET Requests
                            /\ Unknown \subseteq Slow /\ Slow \subseteq Requests
                            /\ Strikes \subseteq Faults \X Requests

VARIABLES
  pc,          \* pc[r]: what processRequest of r awaits
  promise,     \* promise[r]: state of the promise it returned
  handlers,    \* responseHandlers: requests with a handler
  timers,      \* requests whose ten-second timer is armed
  subscribed,  \* groups with the response topic in subscribedTopics
  running,     \* groups whose consumer runs
  joined,      \* groups that have run with the response topic
  requests,    \* requests on the request topic, not consumed
  responses,   \* responses[g]: responses that g will still be given
  used         \* strikes that have happened

vars == <<pc, promise, handlers, timers, subscribed, running, joined,
          requests, responses, used>>

TypeOK ==
  /\ pc \in [Requests -> {"idle", "publish", "subscribe", "join", "done"}]
  /\ promise \in [Requests -> {"none", "pending", "resolved", "rejected"}]
  /\ handlers \in SUBSET Requests
  /\ timers \in SUBSET Requests
  /\ subscribed \in SUBSET Groups
  /\ running \in SUBSET Groups
  /\ joined \in SUBSET Groups
  /\ requests \in SUBSET Requests
  /\ responses \in [Groups -> SUBSET Requests]
  /\ used \in SUBSET Strikes

Init ==
  /\ pc = [r \in Requests |-> "idle"]
  /\ promise = [r \in Requests |-> "none"]
  /\ handlers = {}
  /\ timers = {}
  /\ subscribed = {}
  /\ running = {Responder[r] : r \in Requests}
  /\ joined = {}
  /\ requests = {}
  /\ responses = [g \in Groups |-> {}]
  /\ used = {}

Spend(f, r) == <<f, r>> \in Strikes \ used /\ used' = used \cup {<<f, r>>}
Goto(r, point) == pc' = [pc EXCEPT ![r] = point]

(* A promise settles once; resolve and reject have no effect after that.   *)
Settle(r, state) ==
  promise' = [promise EXCEPT ![r] = IF @ = "pending" THEN state ELSE @]

-----------------------------------------------------------------------------
(* processRequest *)

(* requestResponse starts all requests of a getById before it awaits any.  *)
AskAll(R) ==
  /\ \A r \in R : pc[r] = "idle"
  /\ pc' = [r \in Requests |-> IF r \in R THEN "publish" ELSE pc[r]]
  /\ promise' = [r \in Requests |-> IF r \in R THEN "pending" ELSE promise[r]]
  /\ UNCHANGED <<subscribed, running, joined, requests, responses, used>>

(* Mutant: no timer is armed. *)
AskWithoutTimer(R) == AskAll(R) /\ handlers' = handlers \cup R /\ UNCHANGED timers

(* Mutant: the request is published before its handler is noted. *)
AskWithoutHandler(R) == AskAll(R) /\ timers' = timers \cup R /\ UNCHANGED handlers

Ask(R) == AskAll(R) /\ handlers' = handlers \cup R /\ timers' = timers \cup R

PublishRequest(r) ==
  /\ pc[r] = "publish"
  /\ requests' = requests \cup {r}
  /\ Goto(r, "subscribe")
  /\ UNCHANGED <<promise, handlers, timers, subscribed, running, joined,
                 responses, used>>

(* The handler and the timer stay until the timer fires. *)
PublishFails(r) ==
  /\ pc[r] = "publish"
  /\ Spend("publishError", r)
  /\ Settle(r, "rejected")
  /\ Goto(r, "done")
  /\ UNCHANGED <<handlers, timers, subscribed, running, joined, requests, responses>>

(* isSubscribedTo asks a consumer that is never subscribed to anything, so *)
(* every request subscribes; only the first finds the topic missing.  The  *)
(* topic is noted as subscribed before the consumer is stopped and joins.  *)
Subscribe(r) ==
  /\ pc[r] = "subscribe"
  /\ IF Client[r] \in subscribed
       THEN Goto(r, "done") /\ UNCHANGED <<subscribed, running>>
       ELSE /\ Goto(r, "join")
            /\ subscribed' = subscribed \cup {Client[r]}
            /\ running' = running \ {Client[r]}
  /\ UNCHANGED <<promise, handlers, timers, joined, requests, responses, used>>

(* Mutant: the consumer is not run again. *)
JoinWithoutRun(r) ==
  /\ pc[r] = "join"
  /\ joined' = joined \cup {Client[r]}
  /\ Goto(r, "done")
  /\ UNCHANGED <<promise, handlers, timers, subscribed, running, requests, responses,
                 used>>

(* consumer.subscribe and consumer.run return once the group is joined. *)
Join(r) ==
  /\ pc[r] = "join"
  /\ running' = running \cup {Client[r]}
  /\ joined' = joined \cup {Client[r]}
  /\ Goto(r, "done")
  /\ UNCHANGED <<promise, handlers, timers, subscribed, requests, responses, used>>

(* The topic stays noted: nothing runs the consumer of the group again.    *)
JoinFails(r) ==
  /\ pc[r] = "join"
  /\ Spend("subscribeError", r)
  /\ Settle(r, "rejected")
  /\ Goto(r, "done")
  /\ UNCHANGED <<handlers, timers, subscribed, running, joined, requests, responses>>

(* Mutant: the handler of a request that timed out is kept. *)
TimeoutKeepsHandler(r) ==
  /\ r \in timers
  /\ timers' = timers \ {r}
  /\ Settle(r, "rejected")
  /\ UNCHANGED <<pc, handlers, subscribed, running, joined, requests, responses,
                 used>>

(* The consumer of g is stopped, and not about to run. *)
Stopped(g) ==
  g \notin running /\ ~\E q \in Requests : pc[q] = "join" /\ Client[q] = g

(* Nothing that would answer r is under way any more. *)
Abandoned(r) ==
  /\ pc[r] = "done"
  /\ r \in requests => Stopped(Responder[r])
  /\ r \in responses[Client[r]] => Stopped(Client[r])

(* Mutant: the handlers of one group are forgotten together. *)
TimeoutForgetsHandlers(r) ==
  /\ r \in timers
  /\ r \in Slow \/ Abandoned(r)
  /\ timers' = timers \ {r}
  /\ handlers' = {q \in handlers : Client[q] # Client[r]}
  /\ Settle(r, "rejected")
  /\ UNCHANGED <<pc, subscribed, running, joined, requests, responses, used>>

(* The timer of a request that is not slow fires only when nothing is left *)
(* to wait for: ten seconds are longer than the steps of an answer.        *)
Timeout(r) ==
  /\ r \in timers
  /\ r \in Slow \/ Abandoned(r)
  /\ timers' = timers \ {r}
  /\ handlers' = handlers \ {r}
  /\ Settle(r, "rejected")
  /\ UNCHANGED <<pc, subscribed, running, joined, requests, responses, used>>

-----------------------------------------------------------------------------
(* Responder (user-kafka.subscriber, order-kafka.subscriber: getBy), and   *)
(* handleResponse                                                          *)

TakeRequest(r) ==
  /\ r \in requests
  /\ Responder[r] \in running
  /\ \/ requests' = requests \ {r} /\ UNCHANGED used
     \/ Spend("redelivery", r) /\ UNCHANGED requests

(* The groups that read the response topic of r. *)
Readers(r) == {Client[q] : q \in {q \in Requests : Responder[q] = Responder[r]}}

(* fromBeginning is false: a group is given what is published once it has  *)
(* joined.  For an unknown id the handler throws, and nothing is published. *)
Respond(r) ==
  /\ TakeRequest(r)
  /\ responses' = [g \in Groups |->
                     IF r \notin Unknown /\ g \in joined \cap Readers(r)
                       THEN responses[g] \cup {r} ELSE responses[g]]
  /\ UNCHANGED <<pc, promise, handlers, timers, subscribed, running, joined>>

(* Mutant: the correlation id is ignored. *)
HandleAnyResponse(g, r) ==
  /\ g \in running
  /\ r \in responses[g]
  /\ responses' = [responses EXCEPT ![g] = @ \ {r}]
  /\ \E q \in handlers :
       /\ Client[q] = g
       /\ handlers' = handlers \ {q}
       /\ timers' = timers \ {q}
       /\ Settle(q, "resolved")
  /\ UNCHANGED <<pc, subscribed, running, joined, requests, used>>

(* handleResponse: a response without a handler here, because it is of     *)
(* another service, late or repeated, changes nothing.                     *)
HandleResponse(g, r) ==
  /\ g \in running
  /\ r \in responses[g]
  /\ responses' = [responses EXCEPT ![g] = @ \ {r}]
  /\ IF r \in handlers /\ Client[r] = g
       THEN /\ handlers' = handlers \ {r}
            /\ timers' = timers \ {r}
            /\ Settle(r, "resolved")
       ELSE UNCHANGED <<handlers, timers, promise>>
  /\ UNCHANGED <<pc, subscribed, running, joined, requests, used>>

-----------------------------------------------------------------------------
Progress(r) == PublishRequest(r) \/ Subscribe(r) \/ Join(r)

Next ==
  \/ \E R \in Calls : Ask(R)
  \/ \E r \in Requests :
       \/ Progress(r)
       \/ PublishFails(r)
       \/ JoinFails(r)
       \/ Timeout(r)
       \/ Respond(r)
  \/ \E g \in Groups : \E r \in responses[g] : HandleResponse(g, r)

Spec == Init /\ [][Next]_vars

(* Awaited calls return, timers fire, consumers that run take messages.    *)
FairSpec ==
  /\ Spec
  /\ \A r \in Requests : WF_vars(Progress(r) \/ JoinFails(r)) /\ WF_vars(Timeout(r))
  /\ \A g \in Groups :
       /\ WF_vars(\E r \in Requests : Responder[r] = g /\ Respond(r))
       /\ WF_vars(\E r \in responses[g] : HandleResponse(g, r))

-----------------------------------------------------------------------------
(* Properties *)

(* A request for an id nobody knows is never resolved: not by the response *)
(* to another request, a repeated one, or one meant for another service.   *)
UnknownIsNeverResolved == \A r \in Unknown : promise[r] # "resolved"

(* A handler lives as long as its timer and no longer: whichever of the    *)
(* response, the timer and an error comes first, no handler is leaked and  *)
(* none is left that could fire for a request already resolved.            *)
HandlersAreReleased ==
  /\ handlers = timers
  /\ \A r \in handlers : promise[r] # "resolved"

(* requestResponse implements its promise: each request settles once, with *)
(* the answer to itself, and no answer is read by the group that asked     *)
(* without resolving a promise that is pending, although handler, timer,   *)
(* publication and subscription come and go in any order.                  *)
Answers == {r \in Requests : r \in responses[Client[r]]}
Promised == INSTANCE RequestOutcome WITH outcome <- promise, answers <- Answers
ImplementsRequestOutcome == Promised!Spec

(* Every request settles and forgets its handler, whatever is lost.        *)
RequestsSettle ==
  \A r \in Requests :
    promise[r] = "pending"
      ~> promise[r] \in {"resolved", "rejected"} /\ r \notin handlers

(* Every published request is taken, also by a group that is stopped and   *)
(* run again because its service asks for something itself; unless that    *)
(* subscription was rejected, which leaves the group stopped for ever.     *)
RequestsAreTaken ==
  \A r \in Requests :
    r \in requests ~> \/ r \notin requests
                      \/ \E q \in Requests : /\ Client[q] = Responder[r]
                                             /\ <<"subscribeError", q>> \in used

(* No subscription can take g away from its topics any more. *)
Settled(g) == g \in running /\ (g \in joined \/ \A r \in Requests : Client[r] # g)

(* A request that is under way when its client reads the response topic is *)
(* answered, if the answer takes less than ten seconds: no subscription of  *)
(* another request to the same group, no error and no repetition loses it. *)
UnderWay(r) ==
  /\ promise[r] = "pending"
  /\ r \in requests
  /\ Settled(Client[r]) /\ Settled(Responder[r])
JoinedClientsAreAnswered ==
  \A r \in Requests \ Slow : UnderWay(r) ~> promise[r] = "resolved"

(* README.md:75: "Uses Kafka for reliable event publishing and             *)
(* consumption".  Every request is answered that can be answered in time.  *)
RequestsAreAnswered ==
  \A r \in Requests \ Slow : promise[r] = "pending" ~> promise[r] = "resolved"
=============================================================================
