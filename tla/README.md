# Verification of the invoice hub

TLA+ modules, TLC configurations and TLAPS proofs for the microservices of this
repository: order-service, invoice-service, auth-service and the library
`@invoice-hub/common` they share. The core is the distributed transaction (saga)
that approves an order and invoices it; around it are the mechanisms of the
library that have state and concurrency of their own.

Paths below are relative to `src/`; `TC` is
`common/src/infrastructure/transaction/transaction-coordinator.infrastructure.ts`.

## The system

| part | state | operations |
|---|---|---|
| transaction coordinator (`TC`), one in every service that takes part in a saga | transactions in that service's Redis (24 h), a timer | `startTransaction`, six event handlers, compensation, timeout checker |
| order-service | orders (PostgreSQL) | `createOrder`, `get`, `getById`, handlers of UPDATE_ORDER_STATUS and FETCH_ORDER_REQUEST |
| invoice-service | invoices (PostgreSQL) | `get`, `getById`, handlers of INVOICE_GENERATE and of the user notification |
| auth-service | users, roles | `signin`, `signout`, `get`, handler of FETCH_USER_REQUEST |
| list cache (`redis.decorator.ts`, `redis-cache-invalidate.decorator.ts`) | cached lists and the set of their keys, in Redis | around `get`, `createOrder`, `generateInvoiceInTransaction` |
| loaders (`data-loader.infrastructure.ts`) | one DataLoader per process, with promises of DTOs | around `getById` and `getBy` |
| Kafka request and response (`kafka.infrastructure.ts`) | response handlers, timers, subscribed topics | `requestResponse`, `handleResponse`, `subscribe` |
| service start-up (`server-bootstrapper.ts`) | connections, consumer groups and their topics | `start`, `initialize` of each service |
| graceful shutdown (`graceful-shutdown.helper.ts`, `retry.helper.ts`) | connections, retries | `shutDown` on SIGINT and SIGTERM |

**How they interact.** Services speak through Kafka topics with three partitions;
messages carry no key, so messages of one transaction may overtake each other. A
topic is read by every consumer group that subscribes to it, and each group
handles one message at a time. A handler that throws is logged and its message is
committed; a message whose offset was not committed is delivered again. Many
publications are not awaited (`order-kafka.subscriber.ts:94`,
`invoice-kafka.subscriber.ts:84`, `TC:246`, `TC:387`,
`order-transaction.manager.ts:81`). HTTP requests, the consumers and the timers of a
process interleave at every `await`.

**The saga.** A request saves an order and calls `startTransaction`, which stores
the transaction twice (STARTED, then IN_PROGRESS) and publishes the first step.
The participants execute a step and publish TRANSACTION_STEP_COMPLETED. The
coordinator *of every service* reads the events, but each has its own Redis: the
one of order-service, which started the transaction, advances it; the others
know nothing of it until a final event comes, and then store a minimal record.
Steps that take over five minutes are found by the timeout checker and lead to
TIMEOUT, a user notification, COMPENSATION_START, one compensation message per
completed step *on the topic that executes the step*, and
COMPENSATION_COMPLETED. A refused order (`totalAmount <= 0`) runs through the same
transaction: its first step throws, publishes nothing, and only the timeout
checker ends it.

**What is hard.** Reordered and redelivered events; two stores with a crash or the
timeout checker in between; publications lost with the process; a timeout that
races a late completion; compensations that arrive at handlers which do not tell
them from steps; readers that fill a cache while a writer invalidates it; a
DTO shared and changed in place; a response that is published before anybody
listens; a group that stops serving while it subscribes; a client that pages through
a list that grows; a shutdown that runs twice and beside consumers that go on. The list, line
by line, is under `hazards` in `PROJECT.json`.

## Modules

| module | models | theorems |
|---|---|---|
| `SagaOutcome` | the promise: steps in order, one decision, and every service records it | `SagaOutcomeProofs` |
| `TransactionCoordinator` | `TC` in several services, requests, participants, faults | `TransactionCoordinatorProofs`, `TransactionRequestProofs` |
| `OrderApproval` | `TransactionCoordinator` with the participants replaced by order-service and invoice-service and their databases | `OrderApprovalProofs` |
| `ListCache` | both Redis decorators | `PagedListProofs` |
| `PagedList` | EXTENDS `ListCache`: pages, and a client that reads them | `PagedListProofs` |
| `RequestOutcome` | the promise of a request: it settles once, by its own answer or a rejection | `RequestResponseProofs` |
| `RequestResponse` | requests over Kafka, of several services at once | `RequestResponseProofs` |
| `OrderLoader` | the loader behind `getById` and `getBy` | `OrderLoaderProofs` |
| `GracefulShutdown` | from a signal to `process.exit` | `ServiceLifecycleProofs` |
| `ServiceLifecycle` | EXTENDS `GracefulShutdown`: the start of the service before it | `ServiceLifecycleProofs` |
| `Deployment` | the consumer groups, topics and initialisations of the three services, as data | |
| `MC...` | constants of the small instances | |

### TransactionCoordinator

`store[c][t]` is what service `c` has in Redis under the key of `t` ("NONE" is an
absent key; a record that a coordinator invents has no steps, `NoSteps`).
`events[c]`, `commands` and `outbox[c]` are the messages in flight: events
not yet consumed by `c`'s group, messages on the steps' topics, and publications
that a process has begun and not awaited. `offsets.late` are commands that a participant
has handled and whose offset is not committed, `offsets.again` (a history) those that were
for this reason delivered again. `work[w]` is a consumer loop or a
request between two awaits: its message, its local copy of the transaction and the
point it has reached; a request whose handler has work of its own before
`startTransaction` is `Called`. `performed` is a history of the steps executed.

An action is the code between two awaits. A handler's first action reads the store and
decides (`HandleStepCompleted`, ..., with their early returns: an event that is
not meant for the state it meets is consumed without effect); `StoreThen`
leaves the worker awaiting `StoreTransactionState`, and it goes on at `progress`,
`complete`, `notify`, `startCompensation` and so on until it returns. Reading a
transaction and the code after it are one action, because nothing else writes
the key of a transaction in the same service meanwhile, or (for events that
race the request that creates the transaction) because `SingleWriter` is what
is checked and proved. `Rejected` are the transactions whose request refuses them and tells
the user.

`FaultPlans` is the set of fault budgets of a behaviour, each of which says how
often every fault may strike. The nine faults are

* `crash`: a process ends at any point. Its local copies and un-awaited publications are
  gone. The event that its coordinator was handling is delivered again, and so are the
  commands its participant had handled without the commit of their offset (`PutBack`).
* `lateCommit`: a command is handled, and its offset not committed in time. Until a crash or a
  rebalance (`Rebalance`) of the group of that service it stays so, and is then delivered
  again.
* `redelivery`: an event is handled once more.
* `publishError`, `storeError`: an awaited publication or a store is rejected; the
  handler throws, and its message is committed.
* `readError`: a read of Redis is rejected. The handler throws likewise, except that
  `handleSendUserNotification` swallows it (`TC:442`): its caller goes on to
  start a compensation of which nobody was told.
* `stepFailure`: a participant reports a failure, which the library handles although no
  service sends it.
* `checkerRace`: the timeout checker reads a transaction that has been stored one past its
  last step (`TC:242`), and its process exits.
* `expiry`: a stored transaction disappears.

A participant takes a command, saves and begins the publication in one action. A process that
ends before the save leaves the command where it was; one that ends between the save and
the commit is a `lateCommit` with a crash, in which the publication may be lost from `outbox` or
not.

The model's messages form sets: a duplicate exists only through redelivery or an uncommitted offset. A step
that fails in its database is `RejectStep`: the handler throws and nothing is
published.

### OrderApproval

EXTENDS `TransactionCoordinator` and adds the orders and invoices tables.
`createOrder` is `SaveOrder`, which awaits the database, then `StartOrder`; a process may
end in between, and `OrdersAreTracked` says that only this, a store that Redis refuses, or an
expiry separates a saved order from its transaction. Each
participant action of the coordinator is replaced by the real handlers:
`UpdateOrderStatus`, `RefuseOrder`, `GenerateInvoice`, `IgnoreCompensation`,
`FailStep` (either database rejects the handler's query) and
`UpdateUnidentifiedOrder`. The last is the handler of a
compensation: the message nests its payload, so `orderId` is `undefined` and
`findOneOrFail({ where: { id: undefined } })` returns *some* row, which is then saved
as COMPLETED. `ImplementsCoordinator` says that every step of this system is a step of
`TransactionCoordinator`, so what is proved there holds here.

### ListCache, PagedList, RequestResponse, OrderLoader, GracefulShutdown, ServiceLifecycle

* `ListCache`: a list is abstracted to how many rows had been created and updated
  when it was queried. Each awaited Redis or database call is a step.
* `PagedList`: rows are numbered as they are created and sorted newest first, a key is a
  page (`queryResults`: `skip`, `take`, and a `total` beside the rows). `walk` is a client that
  asks for page after page and is given what is cached (`ReadCached`) or queried
  (`ReadQueried`). `ordered` remembers that no page was older than the one before.
* `RequestResponse`: `processRequest` arms a timer, registers a handler, publishes and
  then subscribes. Consumer groups are the real ones of `Deployment`: a request names the
  group its response is read in (`Client`) and is served by another
  (`Responder`), and `ORDER_USER_FETCH_GROUP` is both. `running` and `joined` model
  `consumer.stop` / `consumer.run` with `fromBeginning: false`; `Calls` are the sets of
  requests one `getById` makes at once; `Strikes` says which fault may strike which request.
* `OrderLoader`: DataLoader (an external package) is modelled by its cache of
  promises, its batches of one turn of the event loop, and its clearing of
  rejected loads. A DTO is a version of the row and whether it still has its `userId`,
  which `getById` deletes from the shared object. `Responders` are
  messages of invoice-service that `getBy` answers from the same cache. `began`, `floor`,
  `confirmed` and `shown` are history. The loader of invoice-service differs in that
  two fields are deleted together.
* `GracefulShutdown`: one call of `shutDown` per signal, each with its own retries, beside
  open requests, messages and a sweep of the timeout checker.
* `ServiceLifecycle` EXTENDS it and begins with `ServerBootstrapper.start`, of a `service`
  chosen from `Services`: Kafka, Redis and the database one after the other, then each
  `initialize` in the order of the code (each is called twice, since the service is among what it initialises), topic by
  topic, and listening last.
  A group with another topic is stopped, subscribed and run again while the other groups go
  on and messages of an earlier process arrive. `noted`, `topics`, `flagged` and
  `runs` are `subscribedTopics`, what Kafka has accepted, `isConsumerRunning`, and
  the consumer itself. Signals have no handler until the service has started
  (before that they end the process, as a crash does), and a process that
  has exited is not started again. Once it listens, the first `getById` that asks for
  responses subscribes their topic (`joins`): this too stops a group that
  runs, for ever if the subscription is rejected, which is the exception that
  `ListeningIsSubscribed` states. Modelled is the first call per response topic, begun before
  the connections are being closed.

Three connections are closed with retries (`Connections`: Kafka, Redis, the database). The
fourth callback of `disconnectServices`, the coordinator's, only stops a timer and cannot fail. The
consumers of the groups have connections of their own, which nothing closes:
`KafkaInfrastructure.disconnect` clears the map that holds them and disconnects a
consumer that was never subscribed. In the model `GroupConsumers` therefore stay
in `up` until the process exits, and go on consuming; `ExitIsClean` speaks of what
`disconnectServices` is given and of nothing else.

## Runs

| run | question | bounds |
|---|---|---|
| `coordinator_faults` | are sagas ordered, earned, announced (unless a read is rejected), decided once, by one writer, and is each step begun once? | 1 transaction, 2 services, 2 steps; any timeout, and any one of the nine faults, or one of five pairs: a redelivered event with a checker crash, a rejected publication or a rejected read; a process crash with a reported failure or an uncommitted offset |
| `approval_faults` | do databases and records agree, is an order invoiced at most once (unless its command comes again) and every saved order tracked, is the coordinator refined, and with it the promise of the saga? | 1 order, failing databases; one each of crash, rejected publication, rejected store, expiry and checker crash; or a crash and an uncommitted offset |
| `approval_settles` | does a transaction that may time out at any point settle alike in both services? | 1 order, failing databases, no other faults |
| `approval_timely` | are accepted orders completed, and refused ones never? | 2 orders, no faults |
| `cache_overlap` | can invalidation find all lists; do stale lists die out; when does a client miss a row? | 2 pages of 2 rows, 2 rows at first and 2 more, 2 requests, 1 client, 1 update, 1 rejected call |
| `request_settles` | do requests settle and get taken, without leaks or mix-ups, and keep the promise of `requestResponse`? | 3 services, 4 requests: `getById` of an order twice, of an invoice once; one of them unknown and slow; a rejected publication or subscription of the first, one redelivery |
| `loader_reads` | how stale can `getById` and `getBy` be, and do they end? | 3 reads (one of a missing id), 2 messages, 1 update, 1 rejection |
| `service_lifecycle` | does a service start and end in good order, with every topic of the start consumed (but in a group stopped for a response) and every request served? | each of the three services with all its topics (of the two responses of invoice-service, each read in a group of its own, one stands for both); 2 signals, 2 attempts, 2 requests, 1 message, 2 rejected calls |
| `compensation_other_order`, `crash_stuck`, `request_first_lost`, `shutdown_hangs` | disagreements, below | |

**Why the bounds are enough.** Transactions do not interact except through the
arbitrary row that a compensation updates, which needs two (`approval_timely`,
`compensation_other_order`). Two steps are the saga the services run, and have
a first, a next and a last step. Two services are the starter and one that is
not. One fault of a kind suffices for each hazard named; a crash, a
redelivery and a reported failure together are a run of many minutes, so
`coordinator_faults` takes them one by one and in the five pairs that meet in one
handler, and the theorems cover every budget. `ImplementsSagaOutcome` holds until a
stored transaction expires: what a service has recorded is then forgotten by design,
after 24 hours. Two keys tell a list that an invalidation found from one it missed; two
pages, of which the first is full at the start, let a creation move a row from a
page already read to the next, and out of the last. The four requests are two in one group, which is
also the one that serves the fourth, and two asked at once in groups of their own, so that a
group is stopped both while it waits for a response and while a request waits for it. Two
readers of one id are the fewest that share a DTO, and two messages the fewest of which the
second comes after an answer. A service has three connections and a dozen subscriptions to
lose: two rejected calls are one of each, or a disconnect that is tried twice.

CHECK_DEADLOCK is FALSE where the system comes to rest, when all messages have been handled,
or where the process exits.

**Fairness.** Weak fairness of: a worker that has begun (awaited calls return); each
consumer group, as one disjunction of what it may take, so that it need not take a
given message first (in `RequestResponse` a group's requests are one such disjunction, its
responses another, since they are on different topics, and neither while it is stopped); un-awaited publications; the timer, for a transaction
whose current step stays started and unanswered; HTTP requests that have begun (a saved order's request goes on to its transaction);
promises and timers; expiry of a TTL. `CheckTimeout` of the starter alone is
fair: other services have no steps to time out. Clients need not
call anything, and faults, redelivery and signals never have to happen. `start` awaits one call at
a time, each of which returns or is rejected. In
`OrderApproval` UPDATE_ORDER_STATUS and the events of order-service are one fair
disjunction, since both topics belong to the group of its coordinator.

## Where code and documentation disagree

* `compensation_other_order`: compensating one order completes another,
  cancelled one (`order-kafka.subscriber.ts:83`).
* `crash_stuck`: after a crash between two stores nothing resumes or times out the
  transaction (`TC:113`).
* `request_first_lost`: the request is published before the response topic is
  subscribed (`kafka.infrastructure.ts:124`).
* `shutdown_hangs`: the timer that should force the exit is armed after the wait it
  should bound (`graceful-shutdown.helper.ts:29`).

Others follow from the same models, without a run of their own: a compensated order
stays COMPLETED (its compensation is another approval, or of another row); a
crash of the timeout checker at `TC:242` leaves a transaction unsettled in one of the services; an
INVOICE_GENERATE that is delivered again, since the process ended or the group rebalanced between
the save and the commit of its offset, makes a second invoice
(`invoice-kafka.subscriber.ts:77`), which is why `OneInvoicePerOrder` and `AskedOnce` except
a command that was itself delivered again; a read of Redis that is rejected in
`handleSendUserNotification` (`TC:442`) is swallowed and lets a compensation start unannounced, the exception
of `CompensationAnnounced`; a list read while a row is created is cached without it, since
invalidation precedes the save, and updates invalidate nothing, so that
`ListsConverge` rests on the TTL; one rejected subscription is never
tried again (`kafka-consumer.infrastructure.ts:28`); the group consumers are still connected, and go
on, after "Kafka fully disconnected." was logged (`kafka.infrastructure.ts:99` and `:102`), until
the process exits; the first `getById` of an order stops a group that serves other requests, and leaves
it stopped if its subscription is rejected (`kafka-consumer.infrastructure.ts:30`); an id without a row rejects
the reads of other ids in its batch (`data-loader.infrastructure.ts:37`).

## Proofs

All theorems hold for every value of the constants that satisfies the named
assumptions: any number of services, transactions, steps, requests, keys, pages, rows and
orders, and any fault budget. Every step of every proof is checked by TLAPS.

* **Coordinator.** `TypeCorrect` is type correctness (in particular `currentStep`
  never passes the number of steps). `CompletionIsEarned` and `CommandsInOrder`
  need a strengthening, `EverythingEarned`: no property of the stored records
  alone is inductive, since the decision is taken from a message and a
  local copy read earlier. It says of every stored record, of every copy a
  worker holds across an await, and of every message in flight, that the steps they
  claim have been executed. That a crash drops copies and messages, and that
  redelivery and uncommitted offsets repeat them, is then harmless, since the executed steps only grow
  (lemma `EarnedGrows`).
* **Requests of the coordinator.** `SingleWriter` and `CompensationAnnounced` are not
  inductive either: a message that arrived early could let a consumer write beside the
  request. `RequestsComeFirst` says that none does: until a request comes to publish its
  first step it is alone with its transaction (no message, no consumer, no IN_PROGRESS
  record that the timeout checker would find). A consumer on its way to
  `startCompensation` is then the only one to store, so that what it told the user about is
  what it announces (`EverythingAnnounced`), as long as no read was rejected. `RequestsAreStored` adds that a
  request that is past its first store has its transaction in Redis, which only four of
  the faults can undo.
* **The saga.** `CoordinatorsImplementSaga`: every step of the coordinators is one of
  `SagaOutcome` or none, with the outcome that each store records as the abstract record.
  That the other services record only what the starter decided is not visible in the stores:
  they learn of it from messages, and store it after an `await`. `EverythingDecided` therefore
  says of every COMPLETED, COMPENSATION_START and COMPENSATION_COMPLETED in flight that
  the starter has so decided, of every worker that it acts on that decision, and of the starter
  that a store it is about to make never changes a decision (`Decides`; here `SingleWriter` is
  needed, and that a completed transaction has no current step left to be late). It holds until a
  key expires, as the starter's decision is then gone. `ServicesAgree` draws the conclusion: what the services have recorded of one transaction never
  differs; `ApprovalImplementsSaga` carries it to order-service and invoice-service.
* **Each step once.** `StepsAskedOnce`: the starter's stored copy, and every copy its consumer or
  the request holds, stands at or past every step that was asked for, and one that is on its way to
  `publishStep` stands at a step that was not (`StepsAreReached`). It holds through expiry, since
  a transaction invented for an unknown key has no steps to ask for. The exception is a
  command in `offsets.again`: its own redelivery, not the coordinator, asks again. `OrdersAreInvoicedOnce` follows
  with `DatabasesFollow`: an invoice takes a command, and unless that command was delivered again its step was not
  executed before.
* **Order approval.** `ApprovalImplementsCoordinator` proves the refinement, so
  `EverythingEarned` carries over; `DatabasesFollow` adds that both
  databases agree with the executed steps, which yields
  `InvoicesOnlyForCompletedOrders`, `RejectedOrdersStayUninvoiced` and
  `CompletedOrdersAreInvoiced`. `OrdersTracked` follows from `RequestsAreStored`, since a
  command that could touch the row of an order comes after its request (`OrdersHaveRequests`).
* **List cache.** `StoredListsAreKnown`: `KeysAreKnown` is inductive with one
  conjunct on the readers between `set` and `sAdd`.
* **Requests over Kafka.** `NoHandlerLeaks` and `NoForeignAnswer`: handlers and
  timers are equal at every step, and responses in flight are only to requests with an answer.
  `RequestsKeepTheirPromise`: the specification implements `RequestOutcome`, whose answers are the
  responses that the group of the asking service will still be given. It needs both ends of a
  request: nothing about it is under way before it was asked (`AskedFirst`), and a pending
  promise has a handler (`PendingIsHandled`), so that an answer that is read resolves it.
* **Pages.** `PagedListImplementsListCache`: every step of a client is one of the cache
  or none. `WalksSkipNothing`: `OrderedWalksSeeAllRows` is inductive once one knows that a
  walk that is ordered has seen the first `page - 1` pages of the latest list, shifted by what was
  created since; it holds for every page size and number of rows.
* **Loader.** `StalenessEnds`: a read of a shared promise is bounded by what was
  confirmed when it began only because a DTO that is cached without the reader's own
  load was fetched since (`CacheIsNewer`), and because answering a call strips
  the DTO it used; the conjuncts of `StalenessIsBounded` say so. `PublishedStalenessEnds`
  is the same of what `getBy` publishes, which clears no entry itself.
* **Shutdown.** `ShutdownExitsCleanly`: what a call of `shutDown` has settled is down, the timer is
  stopped once a call disconnects, and an exit with code 0 comes from a call that has settled
  everything or given up on something (`SettledAreDown`). `ShutdownServesRequests`: with one signal,
  nothing is disconnected before the last open request was served (`ServedBeforeDown`); the same
  says that an exit with code 0 after one signal cuts off no request.
* **Start-up.** The place of the start determines what is connected (`PlaceOfStart`); no
  request is open and no signal handled before the service listens (`StartIsQuiet`), which carries both theorems over to the
  whole life of a service and yields `StartFindsConnections`. `ListeningServiceIsSubscribed` needs
  two facts: Kafka has accepted (`TakenTopics`) the topics of every manager initialised so far and those of the
  current one whose turn has passed (`TakesTopics`); and the group of an accepted topic is
  `flagged`, and runs, or is the one that the start, or a `getById`, has stopped and will run again, or one
  whose subscription was rejected (`GroupsRun`). The second `initialize` of a manager skips its topics, so the theorem
  rests on the first, and on `LifecycleAssumption`: every topic of the service is
  subscribed by a manager among its initialisations, which TLC evaluates on the three services of
  `Deployment`.

**Model-checked only.** Every invariant and every safety property of a step that a run checks is
a theorem. What remains with TLC is liveness, which the prover does not reach any more than
ENABLED, on which fairness rests: `TransactionsSettle`, `TimelyOrdersAreInvoiced`,
`ListsConverge`, `RequestsSettle`, `RequestsAreTaken`, `JoinedClientsAreAnswered`, `CallsEnd`,
`StartEnds` and `ShutdownEnds`; and the four counterexamples.

## Not modelled

The creation of topics, whose errors the code swallows; restarts of a whole service
beside its start-up and its crashes; the DTO conversion and validation; lists with a filter
on the status, from which the saga takes rows while a client pages through them, so that rows
are skipped (nothing in the repository promises otherwise). Authentication changes no
state, and the API gateway is a stateless proxy; logging, metrics and migrations are
output and configuration.

## Plan

1. Done: `SagaOutcome`, `TransactionCoordinator`, `OrderApproval`, with proofs;
   failures of the databases and of Redis, `createOrder` in its two steps.
2. Done: `ListCache`, `PagedList`, `RequestResponse` with the composed calls of three
   services, `OrderLoader`, with proofs; `GracefulShutdown` and `ServiceLifecycle`, of all
   three services.
3. Done: `SingleWriter`, `CompensationAnnounced` and `OrdersAreTracked`, from what holds of
   requests.
4. Done: `OneInvoicePerOrder` with `AskedOnce`; the refinement of `SagaOutcome`; the safety
   properties of `GracefulShutdown` and `ServiceLifecycle`.
5. Done: `RequestOutcome` and its refinement.
6. Next: what the list cache and the loader promise as specifications of their own (how old
   what is answered may be), with their refinement checked and proved.
