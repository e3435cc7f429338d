----------------------- MODULE TransactionCoordinator -----------------------
(***************************************************************************)
(* The saga coordinator of @invoice-hub/common                             *)
(* (transaction-coordinator.infrastructure.ts) as it runs in several       *)
(* services at once, with the HTTP requests that start transactions, the   *)
(* timeout checker and the participants that execute the steps.            *)
(*                                                                         *)
(* Every service keeps its own Redis, consumes the TRANSACTION_ topics in  *)
(* its own consumer group (each group receives each event), and handles    *)
(* one message at a time.  Only Starter calls startTransaction.  A topic   *)
(* has three partitions and messages carry no key, so a group may see      *)
(* events in any order: the messages in flight form a set.                 *)
(***************************************************************************)
EXTENDS Naturals

CONSTANTS
  Coordinators,   \* services that run a coordinator, each with its own store
  Starter,        \* the one whose requests call startTransaction
  Transactions,   \* transaction ids; each is also its own HTTP request
  NSteps,         \* number of steps of the saga; a step is named by its index
  Host,           \* Host[i]: the service that executes step i
  Rejected,       \* transactions whose request refuses them, and tells the user
  Slow,           \* transactions whose steps may take more than five minutes
  FaultPlans      \* each says how often every fault may strike in one behaviour

StepIndex == 0 .. NSteps - 1
Faults    == {"crash", "redelivery", "lateCommit", "publishError", "storeError",
              "readError", "stepFailure", "expiry", "checkerRace"}

ASSUME CoordinatorsAssumption == /\ Starter \in Coordinators
                                 /\ Coordinators \cap Transactions = {}
ASSUME StepsAssumption        == /\ NSteps \in Nat \ {0}
                                 /\ Host \in [StepIndex -> Coordinators]
ASSUME FaultsAssumption       == /\ Slow \subseteq Transactions
                                 /\ FaultPlans \subseteq [Faults -> Nat]

-----------------------------------------------------------------------------
(* A stored transaction.  "NONE" stands for an absent key; a transaction   *)
(* the coordinator did not start itself is stored with no steps at all.    *)

Status     == {"NONE", "STARTED", "IN_PROGRESS", "COMPLETED", "FAILED",
               "TIMED_OUT", "COMPENSATING", "COMPENSATED"}
Step       == [status : {"PENDING", "COMPLETED", "FAILED", "COMPENSATED"},
               started : BOOLEAN]
NoSteps    == [i \in {} |-> i]
FreshSteps == [i \in StepIndex |-> [status |-> "PENDING", started |-> FALSE]]
Transaction == [status : Status, currentStep : 0 .. NSteps,
                steps : [StepIndex -> Step] \cup {NoSteps}]

Minimal(status) == [status |-> status, currentStep |-> 0, steps |-> NoSteps]
Missing         == Minimal("NONE")

(* steps[currentStep] is defined; otherwise the code dereferences undefined. *)
HasCurrentStep(tx) == tx.currentStep \in DOMAIN tx.steps

(* Messages: the coordinators' own topics, broadcast to every group; the   *)
(* two kinds of messages on a step's topic; the user notification.         *)
EventTopics   == {"STEP_COMPLETED", "STEP_FAILED", "COMPENSATION_START",
                  "COMPENSATION_COMPLETED", "COMPLETED", "TIMEOUT"}
CommandTopics == {"EXECUTE", "COMPENSATE"}
Event   == [topic : EventTopics, id : Transactions, step : StepIndex]
Command == [topic : CommandTopics, id : Transactions, step : StepIndex]
Notice  == [topic : {"USER_NOTIFICATION"}, id : Transactions, step : StepIndex]
Request == [topic : {"CREATE"}, id : Transactions, step : StepIndex]
Message == Event \cup Command \cup Notice

StepMessage(topic, t, i) == [topic |-> topic, id |-> t, step |-> i]
Msg(topic, t)            == StepMessage(topic, t, 0)

(* What a worker (a group's consumer loop, or a request) is doing: the     *)
(* message it handles, its local copy of the transaction, where it stands  *)
(* and, while it awaits a store, what comes after.                         *)
Workers == Coordinators \cup Transactions
Points  == {"store", "progress", "publishStep", "complete", "publishCompleted",
            "notify", "startCompensation", "compensateSteps",
            "publishCompensated", "done"}
Running  == [pc : Points, message : Event \cup Request, tx : Transaction,
             then : Points \ {"store"}]
Idle     == [pc |-> "idle"]
Called   == [pc |-> "called"]
Returned == [pc |-> "returned"]
Ended    == [pc |-> "ended"]
Activity == Running \cup {Idle, Called, Returned, Ended}

VARIABLES
  store,      \* store[c][t]: the transaction in c's Redis
  events,     \* events[c]: events c's group has not consumed
  commands,   \* messages on the steps' topics not consumed
  offsets,    \* .late: commands handled whose offset is not committed in time;
              \* .again: a history, the commands that were delivered again
  outbox,     \* outbox[c]: publications c began without awaiting them
  work,       \* work[w]: what worker w is doing
  performed,  \* <<i, t>>: step i has been executed for t
  notified,   \* transactions whose user was sent a notification
  used        \* used[f]: how often fault f has struck

vars == <<store, events, commands, offsets, outbox, work, performed, notified, used>>

(* A consumer handles events, a request only its own creation. *)
Handles(w, m) == m \in IF w \in Coordinators THEN Event ELSE {Msg("CREATE", w)}
WorkOK ==
  /\ work \in [Workers -> Activity]
  /\ \A w \in Workers : work[w] \in Running => Handles(w, work[w].message)

TypeOK ==
  /\ store \in [Coordinators -> [Transactions -> Transaction]]
  /\ events \in [Coordinators -> SUBSET Event]
  /\ commands \in SUBSET Command
  /\ offsets \in [late : SUBSET Command, again : SUBSET Command]
  /\ outbox \in [Coordinators -> SUBSET Message]
  /\ WorkOK
  /\ performed \in SUBSET (StepIndex \X Transactions)
  /\ notified \in SUBSET Transactions
  /\ used \in [Faults -> Nat]

Init ==
  /\ store = [c \in Coordinators |-> [t \in Transactions |-> Missing]]
  /\ events = [c \in Coordinators |-> {}]
  /\ commands = {}
  /\ offsets = [late |-> {}, again |-> {}]
  /\ outbox = [c \in Coordinators |-> {}]
  /\ work = [w \in Workers |-> Idle]
  /\ performed = {}
  /\ notified = {}
  /\ used = [f \in Faults |-> 0]

-----------------------------------------------------------------------------
(* Building blocks *)

ServiceOf(w) == IF w \in Coordinators THEN w ELSE Starter
IsBusy(w)    == work[w] \in Running
At(w, point) == work[w].pc = point
Id(w)        == work[w].message.id
StoredFor(w) == store[ServiceOf(w)][Id(w)]

Finished(w) == IF w \in Transactions THEN Returned ELSE Idle
Finish(w)   == work' = [work EXCEPT ![w] = Finished(w)]
Goto(w, point) == work' = [work EXCEPT ![w].pc = point]
StoreThen(w, m, tx, point) ==
  work' = [work EXCEPT ![w] = [pc |-> "store", message |-> m, tx |-> tx,
                               then |-> point]]

(* An awaited publication, to all groups, to a step's topic or to the user. *)
Publish(m) ==
  /\ events' = IF m.topic \in EventTopics
                 THEN [c \in Coordinators |-> events[c] \cup {m}] ELSE events
  /\ commands' = IF m.topic \in CommandTopics THEN commands \cup {m} ELSE commands
  /\ notified' = IF m.topic = "USER_NOTIFICATION" THEN notified \cup {m.id}
                                                  ELSE notified

PublishLater(c, ms) == outbox' = [outbox EXCEPT ![c] = @ \cup ms]

PlansWith == [f \in Faults |-> {plan \in FaultPlans : plan[f] > 0}]
Spend(f) ==
  /\ used' = [used EXCEPT ![f] = @ + 1]
  /\ \E plan \in PlansWith[f] : \A g \in Faults : used'[g] <= plan[g]

(* The consumer of c takes e.  Its offset may still be uncommitted when    *)
(* the group rebalances or restarts: then the event is delivered again.    *)
Deliver(c, e) ==
  /\ work[c] = Idle
  /\ e \in events[c]
  /\ \/ events' = [events EXCEPT ![c] = @ \ {e}] /\ UNCHANGED used
     \/ Spend("redelivery") /\ UNCHANGED events

-----------------------------------------------------------------------------
(* Starting a transaction, and the pieces of handlers between two awaits *)

(* A request whose handler has work of its own to await before it calls    *)
(* startTransaction.                                                       *)
BeginRequest(t) ==
  /\ work[t] = Idle
  /\ work' = [work EXCEPT ![t] = Called]
  /\ UNCHANGED <<store, events, commands, offsets, outbox, performed, notified, used>>

(* Mutant: storeTransactionState is not called. *)
StartWithoutStoring(t) ==
  /\ work[t] = Called
  /\ work' = [work EXCEPT ![t] = [pc |-> "progress", message |-> Msg("CREATE", t),
                tx |-> Missing, then |-> "progress"]]
  /\ UNCHANGED <<store, events, commands, offsets, outbox, performed, notified, used>>

(* Mutant: the first step to run is the second. *)
StartAtSecondStep(t) ==
  /\ work[t] = Called
  /\ StoreThen(t, Msg("CREATE", t),
               [status |-> "STARTED", currentStep |-> 1, steps |-> FreshSteps],
               "progress")
  /\ UNCHANGED <<store, events, commands, offsets, outbox, performed, notified, used>>

StartTransaction(t) ==
  /\ work[t] = Called
  /\ StoreThen(t, Msg("CREATE", t),
               [status |-> "STARTED", currentStep |-> 0, steps |-> FreshSteps],
               "progress")
  /\ UNCHANGED <<store, events, commands, offsets, outbox, performed, notified, used>>

(* startTransaction has returned.  The request of a transaction meant to   *)
(* fail leaves a publication behind.                                       *)
EndRequest(t) ==
  /\ work[t] = Returned
  /\ work' = [work EXCEPT ![t] = Ended]
  /\ PublishLater(Starter, IF t \in Rejected THEN {Msg("USER_NOTIFICATION", t)} ELSE {})
  /\ UNCHANGED <<store, events, commands, offsets, performed, notified, used>>

StoreTransactionState(w) ==
  /\ IsBusy(w) /\ At(w, "store")
  /\ store' = [store EXCEPT ![ServiceOf(w)][Id(w)] = work[w].tx]
  /\ IF work[w].then = "done" THEN Finish(w) ELSE Goto(w, work[w].then)
  /\ UNCHANGED <<events, commands, offsets, outbox, performed, notified, used>>

InProgress(tx) == [tx EXCEPT !.status = "IN_PROGRESS",
                             !.steps[tx.currentStep].started = TRUE]

(* Mutant: currentStep <= steps.length. *)
ProgressPastLastStep(w) ==
  /\ IsBusy(w) /\ At(w, "progress")
  /\ IF StoredFor(w).status \in {"STARTED", "IN_PROGRESS"}
       THEN StoreThen(w, work[w].message, InProgress(StoredFor(w)), "publishStep")
       ELSE Finish(w)
  /\ UNCHANGED <<store, events, commands, offsets, outbox, performed, notified, used>>

(* Mutant: the step is published before the transaction is stored. *)
ProgressPublishingFirst(w) ==
  /\ IsBusy(w) /\ At(w, "progress")
  /\ LET tx == StoredFor(w)
     IN  IF tx.status \in {"STARTED", "IN_PROGRESS"} /\ HasCurrentStep(tx)
           THEN /\ Publish(StepMessage("EXECUTE", Id(w), tx.currentStep))
                /\ StoreThen(w, work[w].message, InProgress(tx), "done")
           ELSE /\ IF tx.status \in {"STARTED", "IN_PROGRESS"}
                     THEN Goto(w, "complete") ELSE Finish(w)
                /\ UNCHANGED <<events, commands, notified>>
  /\ UNCHANGED <<store, offsets, outbox, performed, used>>

ProgressTransaction(w) ==
  /\ IsBusy(w) /\ At(w, "progress")
  /\ LET tx == StoredFor(w)
     IN  IF tx.status \notin {"STARTED", "IN_PROGRESS"}
           THEN Finish(w)
           ELSE IF HasCurrentStep(tx)
             THEN StoreThen(w, work[w].message, InProgress(tx), "publishStep")
             ELSE Goto(w, "complete")
  /\ UNCHANGED <<store, events, commands, offsets, outbox, performed, notified, used>>

PublishStep(w) ==
  /\ IsBusy(w) /\ At(w, "publishStep")
  /\ Publish(StepMessage("EXECUTE", Id(w), work[w].tx.currentStep))
  /\ Finish(w)
  /\ UNCHANGED <<store, offsets, outbox, performed, used>>

CompleteTransaction(w) ==
  /\ IsBusy(w) /\ At(w, "complete")
  /\ IF StoredFor(w) = Missing
       THEN Finish(w)
       ELSE StoreThen(w, work[w].message,
                      [StoredFor(w) EXCEPT !.status = "COMPLETED"],
                      "publishCompleted")
  /\ UNCHANGED <<store, events, commands, offsets, outbox, performed, notified, used>>

PublishCompleted(w) ==
  /\ IsBusy(w) /\ At(w, "publishCompleted")
  /\ Publish(Msg("COMPLETED", Id(w)))
  /\ Finish(w)
  /\ UNCHANGED <<store, offsets, outbox, performed, used>>

SendUserNotification(w) ==
  /\ IsBusy(w) /\ At(w, "notify")
  /\ IF StoredFor(w) = Missing
       THEN UNCHANGED <<events, commands, notified>>
       ELSE Publish(Msg("USER_NOTIFICATION", Id(w)))
  /\ Goto(w, "startCompensation")
  /\ UNCHANGED <<store, offsets, outbox, performed, used>>

(* Without a current step the name of the failed step cannot be read: the  *)
(* handler throws, and the consumer swallows the error.                    *)
StartCompensation(w) ==
  /\ IsBusy(w) /\ At(w, "startCompensation")
  /\ IF HasCurrentStep(StoredFor(w))
       THEN Publish(Msg("COMPENSATION_START", Id(w)))
       ELSE UNCHANGED <<events, commands, notified>>
  /\ Finish(w)
  /\ UNCHANGED <<store, offsets, outbox, performed, used>>

-----------------------------------------------------------------------------
(* Handlers of the six topics, up to their first store *)

CompleteCurrentStep(tx) ==
  [tx EXCEPT !.steps[tx.currentStep].status = "COMPLETED", !.currentStep = @ + 1]

(* Mutant: the completion may be that of another step than the current one. *)
HandleAnyStepCompleted(c, e) ==
  /\ e.topic = "STEP_COMPLETED"
  /\ Deliver(c, e)
  /\ IF HasCurrentStep(store[c][e.id])
       THEN StoreThen(c, e, CompleteCurrentStep(store[c][e.id]), "progress")
       ELSE UNCHANGED work
  /\ UNCHANGED <<store, commands, offsets, outbox, performed, notified>>

(* Mutant: the next step is never begun. *)
HandleStepWithoutProgress(c, e) ==
  /\ e.topic = "STEP_COMPLETED"
  /\ Deliver(c, e)
  /\ LET tx == store[c][e.id]
     IN  IF HasCurrentStep(tx) /\ tx.currentStep = e.step
           THEN StoreThen(c, e, CompleteCurrentStep(tx), "done")
           ELSE UNCHANGED work
  /\ UNCHANGED <<store, commands, offsets, outbox, performed, notified>>

(* Mutant: the step that has completed stays the current one. *)
HandleStepWithoutAdvance(c, e) ==
  /\ e.topic = "STEP_COMPLETED"
  /\ Deliver(c, e)
  /\ LET tx == store[c][e.id]
     IN  IF HasCurrentStep(tx) /\ tx.currentStep = e.step
           THEN StoreThen(c, e, [tx EXCEPT !.steps[tx.currentStep].status = "COMPLETED"],
                          "progress")
           ELSE UNCHANGED work
  /\ UNCHANGED <<store, commands, offsets, outbox, performed, notified>>

HandleStepCompleted(c, e) ==
  /\ e.topic = "STEP_COMPLETED"
  /\ Deliver(c, e)
  /\ LET tx == store[c][e.id]
     IN  IF HasCurrentStep(tx) /\ tx.currentStep = e.step
           THEN StoreThen(c, e, CompleteCurrentStep(tx), "progress")
           ELSE UNCHANGED work
  /\ UNCHANGED <<store, commands, offsets, outbox, performed, notified>>

FailCurrentStep(tx) ==
  [tx EXCEPT !.status = "FAILED", !.steps[tx.currentStep].status = "FAILED"]

(* Mutant: compensation starts without a word to the user. *)
HandleStepFailedSilently(c, e) ==
  /\ e.topic = "STEP_FAILED"
  /\ Deliver(c, e)
  /\ IF HasCurrentStep(store[c][e.id])
       THEN StoreThen(c, e, FailCurrentStep(store[c][e.id]), "startCompensation")
       ELSE UNCHANGED work
  /\ UNCHANGED <<store, commands, offsets, outbox, performed, notified>>

HandleStepFailed(c, e) ==
  /\ e.topic = "STEP_FAILED"
  /\ Deliver(c, e)
  /\ LET tx == store[c][e.id]
     IN  IF HasCurrentStep(tx)
           THEN StoreThen(c, e, FailCurrentStep(tx), "notify")
           ELSE UNCHANGED work
  /\ UNCHANGED <<store, commands, offsets, outbox, performed, notified>>

(* Mutant: a timeout that arrives late is taken at its word. *)
HandleLateTimeout(c, e) ==
  /\ e.topic = "TIMEOUT"
  /\ Deliver(c, e)
  /\ LET tx == store[c][e.id]
     IN  IF tx # Missing
           THEN StoreThen(c, e, [tx EXCEPT !.status = "TIMED_OUT"], "notify")
           ELSE UNCHANGED work
  /\ UNCHANGED <<store, commands, offsets, outbox, performed, notified>>

HandleTimeout(c, e) ==
  /\ e.topic = "TIMEOUT"
  /\ Deliver(c, e)
  /\ LET tx == store[c][e.id]
     IN  IF tx.status = "IN_PROGRESS"
           THEN StoreThen(c, e, [tx EXCEPT !.status = "TIMED_OUT"], "notify")
           ELSE UNCHANGED work
  /\ UNCHANGED <<store, commands, offsets, outbox, performed, notified>>

HandleCompensationStart(c, e) ==
  /\ e.topic = "COMPENSATION_START"
  /\ Deliver(c, e)
  /\ LET tx == store[c][e.id]
     IN  CASE tx = Missing ->
                StoreThen(c, e, Minimal("COMPENSATING"), "done")
           [] tx.status \in {"COMPENSATING", "COMPENSATED"} -> UNCHANGED work
           [] OTHER ->
                StoreThen(c, e, [tx EXCEPT !.status = "COMPENSATING"],
                          "compensateSteps")
  /\ UNCHANGED <<store, commands, offsets, outbox, performed, notified>>

StepsToCompensate(tx) ==
  {i \in DOMAIN tx.steps : i < tx.currentStep /\ tx.steps[i].status = "COMPLETED"}

Compensated(tx) ==
  [tx EXCEPT !.status = "COMPENSATED",
             !.steps = [i \in DOMAIN @ |->
                          IF i \in StepsToCompensate(tx)
                            THEN [@[i] EXCEPT !.status = "COMPENSATED"]
                            ELSE @[i]]]

(* Mutant: the other services are not told that compensation is over. *)
CompensateQuietly(w) ==
  /\ IsBusy(w) /\ At(w, "compensateSteps")
  /\ PublishLater(ServiceOf(w), {StepMessage("COMPENSATE", Id(w), i) :
                                  i \in StepsToCompensate(work[w].tx)})
  /\ StoreThen(w, work[w].message, Compensated(work[w].tx), "done")
  /\ UNCHANGED <<store, events, commands, offsets, performed, notified, used>>

(* handleExecuteCompensation after its first store: one publication per    *)
(* completed step, none of them awaited, then the second store.            *)
CompensateSteps(w) ==
  /\ IsBusy(w) /\ At(w, "compensateSteps")
  /\ LET tx == work[w].tx
     IN  IF tx.steps = NoSteps
           THEN Goto(w, "publishCompensated") /\ UNCHANGED outbox
           ELSE /\ PublishLater(ServiceOf(w),
                     {StepMessage("COMPENSATE", Id(w), i) :
                        i \in StepsToCompensate(tx)})
                /\ StoreThen(w, work[w].message, Compensated(tx),
                             "publishCompensated")
  /\ UNCHANGED <<store, events, commands, offsets, performed, notified, used>>

PublishCompensated(w) ==
  /\ IsBusy(w) /\ At(w, "publishCompensated")
  /\ Publish(Msg("COMPENSATION_COMPLETED", Id(w)))
  /\ Finish(w)
  /\ UNCHANGED <<store, offsets, outbox, performed, used>>

HandleCompensationCompleted(c, e) ==
  /\ e.topic = "COMPENSATION_COMPLETED"
  /\ Deliver(c, e)
  /\ LET tx == store[c][e.id]
     IN  IF tx.status = "COMPENSATED"
           THEN UNCHANGED work
           ELSE StoreThen(c, e, [tx EXCEPT !.status = "COMPENSATED"], "done")
  /\ UNCHANGED <<store, commands, offsets, outbox, performed, notified>>

(* A known transaction that is not COMPLETED is stored as COMPENSATED. *)
HandleCompleted(c, e) ==
  /\ e.topic = "COMPLETED"
  /\ Deliver(c, e)
  /\ LET tx == store[c][e.id]
     IN  CASE tx = Missing -> StoreThen(c, e, Minimal("COMPLETED"), "done")
           [] tx.status = "COMPLETED" -> UNCHANGED work
           [] OTHER -> StoreThen(c, e, [tx EXCEPT !.status = "COMPENSATED"],
                                 "done")
  /\ UNCHANGED <<store, commands, offsets, outbox, performed, notified>>

Handle(c, e) ==
  \/ HandleStepCompleted(c, e)
  \/ HandleStepFailed(c, e)
  \/ HandleTimeout(c, e)
  \/ HandleCompensationStart(c, e)
  \/ HandleCompensationCompleted(c, e)
  \/ HandleCompleted(c, e)

Continue(w) ==
  \/ StoreTransactionState(w)
  \/ ProgressTransaction(w)
  \/ PublishStep(w)
  \/ CompleteTransaction(w)
  \/ PublishCompleted(w)
  \/ SendUserNotification(w)
  \/ StartCompensation(w)
  \/ CompensateSteps(w)
  \/ PublishCompensated(w)

-----------------------------------------------------------------------------
(* The timeout checker, publications that were not awaited, crashes *)

(* Mutant: a transaction whose currentStep is 0 (falsy) is skipped. *)
CheckLaterSteps(c, t) ==
  /\ t \in Slow
  /\ store[c][t].status = "IN_PROGRESS"
  /\ HasCurrentStep(store[c][t])
  /\ store[c][t].currentStep # 0
  /\ PublishLater(c, {Msg("TIMEOUT", t)})
  /\ UNCHANGED <<store, events, commands, offsets, work, performed, notified, used>>

(* c's timer finds t's current step started more than five minutes ago.    *)
CheckTimeout(c, t) ==
  /\ t \in Slow
  /\ store[c][t].status = "IN_PROGRESS"
  /\ HasCurrentStep(store[c][t])
  /\ store[c][t].steps[store[c][t].currentStep].started
  /\ PublishLater(c, {Msg("TIMEOUT", t)})
  /\ UNCHANGED <<store, events, commands, offsets, work, performed, notified, used>>

Flush(c, m) ==
  /\ m \in outbox[c]
  /\ outbox' = [outbox EXCEPT ![c] = @ \ {m}]
  /\ Publish(m)
  /\ UNCHANGED <<store, offsets, work, performed, used>>

(* Commands handled in c, or being handled, are delivered again when the   *)
(* group rebalances, or the process ends, before their offset is committed. *)
Uncommitted(c) == {m \in offsets.late : Host[m.step] = c}
PutBack(c) ==
  /\ commands' = commands \cup Uncommitted(c)
  /\ offsets' = [late  |-> offsets.late \ Uncommitted(c),
                 again |-> offsets.again \cup Uncommitted(c)]

Rebalance(c) ==
  /\ Uncommitted(c) # {}
  /\ PutBack(c)
  /\ UNCHANGED <<store, events, outbox, work, performed, notified, used>>

(* The process of c ends and starts again.  The messages it was handling,  *)
(* as a coordinator and as a participant, are not committed; its requests  *)
(* and unfinished publications are gone.                                   *)
Restart(c) ==
  /\ events' = [events EXCEPT ![c] =
                  IF IsBusy(c) THEN @ \cup {work[c].message} ELSE @]
  /\ PutBack(c)
  /\ outbox' = [outbox EXCEPT ![c] = {}]
  /\ work' = [w \in Workers |->
                CASE w = c -> Idle
                  [] w \in Transactions /\ c = Starter /\ work[w] # Idle -> Ended
                  [] OTHER -> work[w]]
  /\ UNCHANGED <<store, performed, notified>>

Crash(c) == Spend("crash") /\ Restart(c)

(* The checker dereferences the current step of an IN_PROGRESS transaction *)
(* that has none: an unhandled rejection, on which the process exits.      *)
CheckerFails(c, t) ==
  /\ store[c][t].status = "IN_PROGRESS"
  /\ ~ HasCurrentStep(store[c][t])
  /\ Spend("checkerRace")
  /\ Restart(c)

(* An awaited publication is rejected: the handler, or the request, throws. *)
PublishFails(w) ==
  /\ IsBusy(w)
  /\ work[w].pc \in {"publishStep", "publishCompleted", "notify",
                     "startCompensation", "publishCompensated"}
  /\ Spend("publishError")
  /\ work' = [work EXCEPT ![w] = IF w \in Transactions THEN Ended ELSE Idle]
  /\ UNCHANGED <<store, events, commands, offsets, outbox, performed, notified>>

(* Redis rejects a store: storeTransactionState throws again, and so does  *)
(* the handler, or the request, that awaits it.                            *)
StoreFails(w) ==
  /\ IsBusy(w) /\ At(w, "store")
  /\ Spend("storeError")
  /\ work' = [work EXCEPT ![w] = IF w \in Transactions THEN Ended ELSE Idle]
  /\ UNCHANGED <<store, events, commands, offsets, outbox, performed, notified>>

(* Redis rejects a read.  sendUserNotification swallows the error, and its *)
(* caller goes on as if the user had been told; anywhere else the handler, *)
(* or the request, throws.                                                 *)
ReadFails(w) ==
  /\ IsBusy(w)
  /\ Spend("readError")
  /\ \/ At(w, "notify") /\ Goto(w, "startCompensation")
     \/ /\ work[w].pc \in {"progress", "complete", "startCompensation"}
        /\ work' = [work EXCEPT ![w] = IF w \in Transactions THEN Ended ELSE Idle]
  /\ UNCHANGED <<store, events, commands, offsets, outbox, performed, notified>>

(* The first read of a handler is rejected: its event is lost. *)
FirstReadFails(c, e) ==
  /\ work[c] = Idle
  /\ Spend("readError")
  /\ events' = [events EXCEPT ![c] = @ \ {e}]
  /\ UNCHANGED <<store, commands, offsets, outbox, work, performed, notified>>

(* storeTransactionState keeps a transaction for 24 hours. *)
Expire(c, t) ==
  /\ store[c][t] # Missing
  /\ Spend("expiry")
  /\ store' = [store EXCEPT ![c][t] = Missing]
  /\ UNCHANGED <<events, commands, offsets, outbox, work, performed, notified>>

-----------------------------------------------------------------------------
(* Participants: the services' handlers of the steps' topics *)

(* A handler's consumer commits the offset after the handler, in time or   *)
(* not: a process that ends between what the handler saves and the commit  *)
(* finds the command again.  (One that ends before has not taken it.)      *)
TakeCommand(m) ==
  /\ m \in commands
  /\ commands' = commands \ {m}
  /\ \/ UNCHANGED <<offsets, used>>
     \/ /\ Spend("lateCommit")
        /\ offsets' = [offsets EXCEPT !.late = @ \cup {m}]

(* The step is executed and saved, and its completion published without    *)
(* awaiting: it may be lost with the process, as a member of outbox.       *)
PerformStep(i, t) ==
  /\ TakeCommand(StepMessage("EXECUTE", t, i))
  /\ performed' = performed \cup {<<i, t>>}
  /\ PublishLater(Host[i], {StepMessage("STEP_COMPLETED", t, i)})
  /\ UNCHANGED <<store, events, work, notified>>

(* The participant's handler throws: nothing is published. *)
RejectStep(i, t) ==
  /\ TakeCommand(StepMessage("EXECUTE", t, i))
  /\ UNCHANGED <<store, events, outbox, work, performed, notified>>

(* A participant that reports a failure; no service of this repository does. *)
ReportFailure(i, t) ==
  /\ Spend("stepFailure")
  /\ StepMessage("EXECUTE", t, i) \in commands
  /\ commands' = commands \ {StepMessage("EXECUTE", t, i)}
  /\ PublishLater(Host[i], {StepMessage("STEP_FAILED", t, i)})
  /\ UNCHANGED <<store, events, offsets, work, performed, notified>>

TakeCompensation(i, t) ==
  /\ TakeCommand(StepMessage("COMPENSATE", t, i))
  /\ UNCHANGED <<store, events, outbox, work, performed, notified>>

-----------------------------------------------------------------------------
CoordinatorStep ==
  \/ \E c \in Coordinators : \E e \in events[c] : Handle(c, e)
  \/ \E w \in Workers : Continue(w)
  \/ \E c \in Coordinators : \E m \in outbox[c] : Flush(c, m)
  \/ \E c \in Coordinators, t \in Transactions :
       CheckTimeout(c, t) \/ CheckerFails(c, t)

FaultStep ==
  \/ \E c \in Coordinators : Crash(c) \/ Rebalance(c)
  \/ \E w \in Workers : PublishFails(w) \/ StoreFails(w) \/ ReadFails(w)
  \/ \E c \in Coordinators : \E e \in events[c] : FirstReadFails(c, e)
  \/ \E c \in Coordinators, t \in Transactions : Expire(c, t)

ParticipantStep ==
  \E i \in StepIndex, t \in Transactions :
    \/ PerformStep(i, t)
    \/ RejectStep(i, t)
    \/ ReportFailure(i, t)
    \/ TakeCompensation(i, t)

RequestStep ==
  \E t \in Transactions :
    \/ BeginRequest(t)
    \/ StartTransaction(t)
    \/ EndRequest(t)

Next == CoordinatorStep \/ FaultStep \/ ParticipantStep \/ RequestStep

Spec == Init /\ [][Next]_vars

-----------------------------------------------------------------------------
(* Properties *)

(* A transaction is recorded, or announced, as COMPLETED only when each of *)
(* its steps has really been executed: neither a lost, late or repeated    *)
(* event nor a restart lets handleProgressTransaction run past a step.     *)
CompletedIsEarned ==
  \A t \in Transactions :
    (\E c \in Coordinators : \/ store[c][t].status = "COMPLETED"
                             \/ Msg("COMPLETED", t) \in events[c])
      => \A i \in StepIndex : <<i, t>> \in performed

(* A participant is asked to execute a step only when every earlier step   *)
(* has been executed, though completions may arrive in any order.          *)
StepsInOrder ==
  \A m \in commands :
    m.topic = "EXECUTE" => \A j \in 0 .. m.step - 1 : <<j, m.id>> \in performed

(* A step that was executed is asked for again only by a command that was  *)
(* delivered again, its offset being uncommitted when a group rebalanced   *)
(* or a process ended.  A repeated completion, a restart in the middle of  *)
(* a coordinator's handler, a late timeout or an expired transaction never *)
(* has the coordinator begin a step anew.                                  *)
AskedOnce ==
  \A m \in commands \ offsets.again :
    m.topic = "EXECUTE" => <<m.step, m.id>> \notin performed

(* The user is told of a failure or a timeout before the compensation it   *)
(* leads to can begin, whatever fails, repeats or expires between the two, *)
(* but one thing: sendUserNotification swallows a read that Redis rejects, *)
(* and startCompensation then announces what nobody was told of.           *)
CompensationAnnounced ==
  used["readError"] = 0 =>
    \A c \in Coordinators :
      \A e \in events[c] : e.topic = "COMPENSATION_START" => e.id \in notified

(* The request that starts a transaction and the consumer that advances it *)
(* never both hold a local copy they are about to store: no lost update.   *)
Storing(w) == IsBusy(w) /\ At(w, "store")
SingleWriter ==
  \A v, w \in Workers :
    Storing(v) /\ Storing(w) /\ v # w
      => ServiceOf(v) # ServiceOf(w) \/ Id(v) # Id(w)

(* Why CompletedIsEarned and StepsInOrder hold: every copy of a transaction, *)
(* stored or held by a worker, and every message in flight is covered by   *)
(* the set done of the steps that have been executed.                      *)
AllDone(done, t) == \A i \in StepIndex : <<i, t>> \in done

Earned(done, tx, t) ==
  /\ \A i \in StepIndex : i < tx.currentStep => <<i, t>> \in done
  /\ tx.status = "COMPLETED" => AllDone(done, t)
  /\ tx.status \in {"STARTED", "IN_PROGRESS"} => tx.steps \in [StepIndex -> Step]

MessageEarned(done, m) ==
  /\ m.topic = "STEP_COMPLETED" => <<m.step, m.id>> \in done
  /\ m.topic = "COMPLETED" => AllDone(done, m.id)
  /\ m.topic = "EXECUTE" =>
       \A j \in StepIndex : j < m.step => <<j, m.id>> \in done

Heads(a, point) == a.pc = point \/ (a.pc = "store" /\ a.then = point)

Grounded(done, a) ==
  a \in Running =>
    /\ Earned(done, a.tx, a.message.id)
    /\ MessageEarned(done, a.message)
    /\ Heads(a, "publishStep") => HasCurrentStep(a.tx)
    /\ Heads(a, "complete") \/ Heads(a, "publishCompleted")
         => AllDone(done, a.message.id)

EverythingEarned ==
  /\ \A c \in Coordinators, t \in Transactions : Earned(performed, store[c][t], t)
  /\ \A w \in Workers : Grounded(performed, work[w])
  /\ \A c \in Coordinators :
       \A m \in events[c] \cup outbox[c] : MessageEarned(performed, m)
  /\ \A m \in commands \cup offsets.late : MessageEarned(performed, m)

(* Why SingleWriter holds: a request that has not stored the transaction   *)
(* whose first step it is going to publish is alone with it.               *)
AtWork(a) ==
  a \in Running =>
    \/ a.pc \in {"progress", "publishStep", "complete", "publishCompleted"}
    \/ a.pc = "store" /\ a.then \in {"publishStep", "publishCompleted"}
    \/ a.pc = "store" /\ a.then = "progress" /\ a.tx.status = "STARTED"

Alone(t) ==
  /\ \A c \in Coordinators :
       /\ store[c][t].status # "IN_PROGRESS"
       /\ \A m \in events[c] \cup outbox[c] : m.id # t
       /\ IsBusy(c) => Id(c) # t
  /\ \A m \in commands \cup offsets.late : m.id # t

Publishing(a) == a.pc \in {"publishStep", "publishCompleted"}
Early(a)      == a \in {Idle, Called} \/ (a \in Running /\ ~ Publishing(a))

RequestsComeFirst ==
  \A t \in Transactions : AtWork(work[t]) /\ (Early(work[t]) => Alone(t))

(* Why CompensationAnnounced holds: while no read has been rejected, the   *)
(* consumer that is about to announce a compensation has told the user, or *)
(* finds no transaction to announce.                                       *)
Announced(m) == m.topic = "COMPENSATION_START" => m.id \in notified

MessagesAnnounced ==
  \A c \in Coordinators : \A m \in events[c] \cup outbox[c] : Announced(m)

WorkerAnnounced(w) ==
  IsBusy(w) =>
    /\ Announced(work[w].message)
    /\ work[w].then # "startCompensation"
    /\ At(w, "startCompensation") => Id(w) \in notified \/ StoredFor(w) = Missing

EverythingAnnounced == MessagesAnnounced /\ \A w \in Workers : WorkerAnnounced(w)

(* What a request has stored stays, unless one of these faults strikes:    *)
(* from its first store on, its transaction is found in Starter's Redis.   *)
NothingIsLost == \A f \in {"crash", "checkerRace", "storeError", "expiry"} : used[f] = 0
HasStored(t)  == \/ work[t] \in {Returned, Ended}
                 \/ IsBusy(t) /\ ~ (At(t, "store") /\ work[t].then = "progress")

RequestsAreStored ==
  /\ \A c \in Coordinators, t \in Transactions :
       store[c][t].status = "NONE" => ~ HasCurrentStep(store[c][t])
  /\ \A w \in Workers : Storing(w) => work[w].tx.status # "NONE"
  /\ NothingIsLost =>
       \A t \in Transactions : HasStored(t) => store[Starter][t].status # "NONE"

(* What a service has recorded of a transaction, for the abstract saga. *)
RecordOf(c, t) ==
  CASE store[c][t].status = "COMPLETED" -> "committed"
    [] store[c][t].status \in {"NONE", "STARTED", "IN_PROGRESS"} -> "open"
    [] OTHER -> "aborted"

Records == [c \in Coordinators |-> [t \in Transactions |-> RecordOf(c, t)]]
Outcome == INSTANCE SagaOutcome WITH record <- Records

(* The coordinators implement the saga: steps in order, one decision, and  *)
(* every service records the decision of the service that started it.  (A  *)
(* service that forgets a transaction after 24 hours may record anew.)     *)
ImplementsSagaOutcome ==
  Outcome!Init /\ [][Outcome!Next \/ used'["expiry"] > 0]_<<performed, Records>>
=============================================================================
