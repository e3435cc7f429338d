-------------------- MODULE TransactionCoordinatorProofs --------------------
(* Theorems about the coordinator, for any services, transactions, number  *)
(* of steps and limits on faults.                                          *)
EXTENDS TransactionCoordinator, TLAPS

-----------------------------------------------------------------------------
(* What the building blocks return *)

LEMMA MessageType ==
  ASSUME NEW t \in Transactions, NEW i \in StepIndex, NEW topic
  PROVE  /\ topic \in EventTopics => StepMessage(topic, t, i) \in Event
         /\ topic \in CommandTopics => StepMessage(topic, t, i) \in Command
         /\ StepMessage("USER_NOTIFICATION", t, i) \in Notice
         /\ StepMessage("CREATE", t, i) \in Request
         /\ 0 \in StepIndex
  BY StepsAssumption DEF StepMessage, Event, Command, Notice, Request, StepIndex

LEMMA TransactionType ==
  ASSUME NEW tx \in Transaction
  PROVE  /\ \A status \in Status : [tx EXCEPT !.status = status] \in Transaction
         /\ \A status \in Status : Minimal(status) \in Transaction
         /\ HasCurrentStep(tx) =>
              /\ tx.currentStep \in StepIndex
              /\ tx.steps \in [StepIndex -> Step]
              /\ InProgress(tx) \in Transaction
              /\ CompleteCurrentStep(tx) \in Transaction
              /\ FailCurrentStep(tx) \in Transaction
         /\ Compensated(tx) \in Transaction
<1>1. ASSUME NEW status \in Status
      PROVE  [tx EXCEPT !.status = status] \in Transaction /\ Minimal(status) \in Transaction
  BY StepsAssumption DEF Transaction, Minimal
<1>2. ASSUME HasCurrentStep(tx)
      PROVE  tx.currentStep \in StepIndex /\ tx.steps \in [StepIndex -> Step]
  BY <1>2 DEF HasCurrentStep, Transaction, NoSteps
<1>3. ASSUME HasCurrentStep(tx)
      PROVE  /\ InProgress(tx) \in Transaction
             /\ CompleteCurrentStep(tx) \in Transaction
             /\ FailCurrentStep(tx) \in Transaction
  <2>1. \A st \in [StepIndex -> Step], i \in StepIndex, status \in Status, n \in 0 .. NSteps :
          /\ [st EXCEPT ![i].started = TRUE] \in [StepIndex -> Step]
          /\ [st EXCEPT ![i].status = "COMPLETED"] \in [StepIndex -> Step]
          /\ [st EXCEPT ![i].status = "FAILED"] \in [StepIndex -> Step]
    BY DEF Step
  <2>2. tx.currentStep + 1 \in 0 .. NSteps
    BY <1>2, <1>3, StepsAssumption DEF StepIndex
  <2>3. QED
    BY <1>2, <1>3, <2>1, <2>2
    DEF Transaction, Status, InProgress, CompleteCurrentStep, FailCurrentStep
<1>4. Compensated(tx) \in Transaction
  <2>1. CASE tx.steps = NoSteps
    BY <2>1 DEF Compensated, Transaction, Status, NoSteps, StepsToCompensate
  <2>2. CASE tx.steps \in [StepIndex -> Step]
    BY <2>2 DEF Compensated, Transaction, Status, Step
  <2>3. QED BY <2>1, <2>2 DEF Transaction
<1>5. QED BY <1>1, <1>2, <1>3, <1>4

LEMMA BlockTypes ==
  ASSUME TypeOK, NEW w \in Workers
  PROVE  /\ Finish(w) => WorkOK'
         /\ \A m \in Event \cup Request, tx \in Transaction, point \in Points \ {"store"} :
              Handles(w, m) /\ StoreThen(w, m, tx, point) => WorkOK'
         /\ \A point \in Points : IsBusy(w) /\ Goto(w, point) => WorkOK'
         /\ \A m \in Message :
              Publish(m) => /\ events' \in [Coordinators -> SUBSET Event]
                            /\ commands' \in SUBSET Command
                            /\ notified' \in SUBSET Transactions
         /\ \A c \in Coordinators : \A ms \in SUBSET Message :
              PublishLater(c, ms) => outbox' \in [Coordinators -> SUBSET Message]
         /\ \A f \in Faults : Spend(f) => used' \in [Faults -> Nat]
<1>0. ASSUME NEW a \in Activity, a \in Running => Handles(w, a.message),
             work' = [work EXCEPT ![w] = a]
      PROVE  WorkOK'
  BY <1>0 DEF TypeOK, WorkOK, Handles
<1>1. Finish(w) => WorkOK'
  <2>1. Finished(w) \in Activity /\ Finished(w) \notin Running
    BY DEF Finished, Activity, Running, Idle, Returned, Points
  <2>2. QED BY <1>0, <2>1 DEF Finish
<1>2. \A m \in Event \cup Request, tx \in Transaction, point \in Points \ {"store"} :
        Handles(w, m) /\ StoreThen(w, m, tx, point) => WorkOK'
  <2> SUFFICES ASSUME NEW m \in Event \cup Request, NEW tx \in Transaction,
                      NEW point \in Points \ {"store"}, Handles(w, m), StoreThen(w, m, tx, point)
               PROVE  WorkOK'
    OBVIOUS
  <2> DEFINE a == [pc |-> "store", message |-> m, tx |-> tx, then |-> point]
  <2>1. a \in Activity /\ a.message = m
    BY DEF Activity, Running, Points
  <2>2. work' = [work EXCEPT ![w] = a]
    BY DEF StoreThen
  <2> HIDE DEF a
  <2>3. QED BY <1>0, <2>1, <2>2
<1>3. \A point \in Points : IsBusy(w) /\ Goto(w, point) => WorkOK'
  <2> SUFFICES ASSUME NEW point \in Points, IsBusy(w), Goto(w, point)
               PROVE  WorkOK'
    OBVIOUS
  <2> DEFINE a == [work[w] EXCEPT !.pc = point]
  <2>1. a \in Activity /\ a.message = work[w].message
    BY DEF IsBusy, Running, Activity
  <2>2. work' = [work EXCEPT ![w] = a]
    BY DEF Goto, TypeOK
  <2>3. Handles(w, work[w].message)
    BY DEF TypeOK, WorkOK, IsBusy
  <2> HIDE DEF a
  <2>4. QED BY <1>0, <2>1, <2>2, <2>3
<1>4. \A m \in Message :
        Publish(m) => /\ events' \in [Coordinators -> SUBSET Event]
                      /\ commands' \in SUBSET Command
                      /\ notified' \in SUBSET Transactions
  <2> SUFFICES ASSUME NEW m \in Message, Publish(m)
               PROVE  /\ events' \in [Coordinators -> SUBSET Event]
                      /\ commands' \in SUBSET Command
                      /\ notified' \in SUBSET Transactions
    OBVIOUS
  <2>1. /\ m.topic \in EventTopics => m \in Event
        /\ m.topic \in CommandTopics => m \in Command
        /\ m.id \in Transactions
    BY DEF Message, Event, Command, Notice, EventTopics, CommandTopics
  <2>2. QED BY <2>1 DEF TypeOK, Publish
<1>5. \A c \in Coordinators : \A ms \in SUBSET Message :
        PublishLater(c, ms) => outbox' \in [Coordinators -> SUBSET Message]
  BY DEF TypeOK, PublishLater
<1>6. \A f \in Faults : Spend(f) => used' \in [Faults -> Nat]
  BY DEF TypeOK, Spend
<1>7. QED BY <1>1, <1>2, <1>3, <1>4, <1>5, <1>6

LEMMA WorkerType ==
  ASSUME TypeOK, NEW w \in Workers
  PROVE  /\ ServiceOf(w) \in Coordinators
         /\ IsBusy(w) => /\ work[w].pc \in Points
                         /\ work[w].then \in Points \ {"store"}
                         /\ work[w].message \in Event \cup Request
                         /\ Handles(w, work[w].message)
                         /\ work[w].tx \in Transaction
                         /\ Id(w) \in Transactions
                         /\ StoredFor(w) \in Transaction
<1>1. ServiceOf(w) \in Coordinators
  BY CoordinatorsAssumption DEF ServiceOf
<1>2. ASSUME IsBusy(w)
      PROVE  /\ work[w].pc \in Points
             /\ work[w].then \in Points \ {"store"}
             /\ work[w].message \in Event \cup Request
             /\ Handles(w, work[w].message)
             /\ work[w].tx \in Transaction
  BY <1>2 DEF IsBusy, Running, TypeOK, WorkOK
<1>3. ASSUME IsBusy(w)
      PROVE  Id(w) \in Transactions
  BY <1>2, <1>3 DEF Id, Event, Request
<1>4. ASSUME IsBusy(w)
      PROVE  StoredFor(w) \in Transaction
  BY <1>1, <1>3, <1>4 DEF StoredFor, TypeOK
<1>5. QED BY <1>1, <1>2, <1>3, <1>4

LEMMA DeliverType ==
  ASSUME TypeOK, NEW c \in Coordinators, NEW e \in events[c], Deliver(c, e)
  PROVE  /\ e \in Event /\ e.id \in Transactions /\ e.step \in StepIndex
         /\ store[c][e.id] \in Transaction
         /\ c \in Workers /\ Handles(c, e)
         /\ events' \in [Coordinators -> SUBSET Event]
         /\ used' \in [Faults -> Nat]
<1>1. e \in Event
  BY DEF TypeOK
<1>2. e.id \in Transactions /\ e.step \in StepIndex
  BY <1>1 DEF Event
<1>3. events' \in [Coordinators -> SUBSET Event] /\ used' \in [Faults -> Nat]
  BY BlockTypes DEF Deliver, TypeOK, Spend, Faults
<1>4. QED BY <1>1, <1>2, <1>3 DEF TypeOK, Workers, Handles

-----------------------------------------------------------------------------
(* Type correctness *)

LEMMA ContinueType ==
  ASSUME TypeOK, NEW w \in Workers, Grounded(performed, work[w]), Continue(w)
  PROVE  TypeOK'
<1> DEFINE s == ServiceOf(w)
           t == Id(w)
<1>1. /\ IsBusy(w)
      /\ s \in Coordinators /\ t \in Transactions
      /\ work[w].tx \in Transaction /\ work[w].then \in Points \ {"store"}
      /\ work[w].message \in Event \cup Request
      /\ Handles(w, work[w].message)
      /\ StoredFor(w) \in Transaction
  BY WorkerType DEF Continue, StoreTransactionState, ProgressTransaction, PublishStep,
    CompleteTransaction, PublishCompleted, SendUserNotification, StartCompensation,
    CompensateSteps, PublishCompensated
<1>2. /\ {"progress", "publishStep", "complete", "publishCompleted", "startCompensation",
          "publishCompensated"} \subseteq Points \ {"store"}
      /\ "COMPLETED" \in Status /\ 0 \in StepIndex
  BY StepsAssumption DEF Points, Status, StepIndex
<1>3. CASE StoreTransactionState(w)
  <2>1. store' \in [Coordinators -> [Transactions -> Transaction]]
    BY <1>1, <1>3 DEF StoreTransactionState, TypeOK
  <2>2. WorkOK'
    BY <1>1, <1>3, BlockTypes DEF StoreTransactionState
  <2>3. QED BY <1>3, <2>1, <2>2 DEF StoreTransactionState, TypeOK
<1>4. CASE ProgressTransaction(w)
  <2>1. WorkOK'
    BY <1>1, <1>2, <1>4, BlockTypes, TransactionType DEF ProgressTransaction
  <2>2. QED BY <1>4, <2>1 DEF ProgressTransaction, TypeOK
<1>5. CASE PublishStep(w)
  <2>1. StepMessage("EXECUTE", t, work[w].tx.currentStep) \in Message
    <3>1. HasCurrentStep(work[w].tx)
      BY <1>5 DEF PublishStep, Grounded, IsBusy, At, Heads
    <3>2. work[w].tx.currentStep \in StepIndex
      BY <1>1, <3>1, TransactionType
    <3>3. QED BY <1>1, <3>2, MessageType DEF CommandTopics, Message
  <2>2. QED BY <1>1, <1>5, <2>1, BlockTypes DEF PublishStep, TypeOK
<1>6. CASE CompleteTransaction(w)
  <2>1. WorkOK'
    BY <1>1, <1>2, <1>6, BlockTypes, TransactionType DEF CompleteTransaction
  <2>2. QED BY <1>6, <2>1 DEF CompleteTransaction, TypeOK
<1>7. CASE PublishCompleted(w)
  BY <1>1, <1>2, <1>7, BlockTypes, MessageType
  DEF PublishCompleted, TypeOK, Msg, Message, EventTopics
<1>8. CASE SendUserNotification(w)
  BY <1>1, <1>2, <1>8, BlockTypes, MessageType
  DEF SendUserNotification, TypeOK, Msg, Message
<1>9. CASE StartCompensation(w)
  BY <1>1, <1>2, <1>9, BlockTypes, MessageType
  DEF StartCompensation, TypeOK, Msg, Message, EventTopics
<1>10. CASE CompensateSteps(w)
  <2>1. WorkOK'
    BY <1>1, <1>2, <1>10, BlockTypes, TransactionType DEF CompensateSteps
  <2>2. {StepMessage("COMPENSATE", t, i) : i \in StepsToCompensate(work[w].tx)}
          \in SUBSET Message
    BY <1>1, MessageType
    DEF StepsToCompensate, Transaction, NoSteps, CommandTopics, Message
  <2>3. outbox' \in [Coordinators -> SUBSET Message]
    BY <1>1, <1>10, <2>2, BlockTypes DEF CompensateSteps, TypeOK
  <2>4. QED BY <1>10, <2>1, <2>3 DEF CompensateSteps, TypeOK
<1>11. CASE PublishCompensated(w)
  BY <1>1, <1>2, <1>11, BlockTypes, MessageType
  DEF PublishCompensated, TypeOK, Msg, Message, EventTopics
<1>12. QED
  BY <1>3, <1>4, <1>5, <1>6, <1>7, <1>8, <1>9, <1>10, <1>11 DEF Continue

LEMMA HandleType ==
  ASSUME TypeOK, NEW c \in Coordinators, NEW e \in events[c], Handle(c, e)
  PROVE  TypeOK'
<1> DEFINE tx == store[c][e.id]
<1>1. Deliver(c, e)
  BY DEF Handle, HandleStepCompleted, HandleStepFailed, HandleTimeout,
    HandleCompensationStart, HandleCompensationCompleted, HandleCompleted
<1>2. /\ e \in Event \cup Request /\ tx \in Transaction /\ c \in Workers
      /\ Handles(c, e)
      /\ events' \in [Coordinators -> SUBSET Event]
      /\ used' \in [Faults -> Nat]
  BY <1>1, DeliverType
<1>3. /\ {"progress", "notify", "done", "compensateSteps"} \subseteq Points \ {"store"}
      /\ {"TIMED_OUT", "COMPENSATING", "COMPENSATED", "COMPLETED"} \subseteq Status
  BY DEF Points, Status
<1>4. WorkOK'
  <2>1. CASE HandleStepCompleted(c, e)
    BY <1>2, <1>3, <2>1, BlockTypes, TransactionType DEF HandleStepCompleted, TypeOK, WorkOK
  <2>2. CASE HandleStepFailed(c, e)
    BY <1>2, <1>3, <2>2, BlockTypes, TransactionType DEF HandleStepFailed, TypeOK, WorkOK
  <2>3. CASE HandleTimeout(c, e)
    BY <1>2, <1>3, <2>3, BlockTypes, TransactionType DEF HandleTimeout, TypeOK, WorkOK
  <2>4. CASE HandleCompensationStart(c, e)
    BY <1>2, <1>3, <2>4, BlockTypes, TransactionType DEF HandleCompensationStart, TypeOK, WorkOK
  <2>5. CASE HandleCompensationCompleted(c, e)
    BY <1>2, <1>3, <2>5, BlockTypes, TransactionType DEF HandleCompensationCompleted, TypeOK, WorkOK
  <2>6. CASE HandleCompleted(c, e)
    BY <1>2, <1>3, <2>6, BlockTypes, TransactionType DEF HandleCompleted, TypeOK, WorkOK
  <2>7. QED BY <2>1, <2>2, <2>3, <2>4, <2>5, <2>6 DEF Handle
<1>5. UNCHANGED <<store, commands, offsets, outbox, performed, notified>>
  BY DEF Handle, HandleStepCompleted, HandleStepFailed, HandleTimeout,
    HandleCompensationStart, HandleCompensationCompleted, HandleCompleted
<1>6. QED BY <1>2, <1>4, <1>5 DEF TypeOK

(* Commands taken, put back, delivered again: never one that was not there. *)
LEMMA OffsetsType ==
  ASSUME TypeOK
  PROVE  /\ \A c \in Coordinators : PutBack(c) =>
              /\ commands' \in SUBSET Command
              /\ offsets' \in [late : SUBSET Command, again : SUBSET Command]
              /\ commands' \cup offsets'.late = commands \cup offsets.late
         /\ \A m : TakeCommand(m) =>
              /\ commands' \in SUBSET Command
              /\ offsets' \in [late : SUBSET Command, again : SUBSET Command]
              /\ commands' \cup offsets'.late \subseteq commands \cup offsets.late
              /\ used' \in [Faults -> Nat]
<1>1. /\ commands \in SUBSET Command
      /\ offsets \in [late : SUBSET Command, again : SUBSET Command]
      /\ used \in [Faults -> Nat]
  BY DEF TypeOK
<1>2. ASSUME NEW c \in Coordinators, PutBack(c)
      PROVE  /\ commands' \in SUBSET Command
             /\ offsets' \in [late : SUBSET Command, again : SUBSET Command]
             /\ commands' \cup offsets'.late = commands \cup offsets.late
  BY <1>1, <1>2 DEF PutBack, Uncommitted
<1>3. ASSUME NEW m, TakeCommand(m)
      PROVE  /\ commands' \in SUBSET Command
             /\ offsets' \in [late : SUBSET Command, again : SUBSET Command]
             /\ commands' \cup offsets'.late \subseteq commands \cup offsets.late
             /\ used' \in [Faults -> Nat]
  <2>1. CASE UNCHANGED <<offsets, used>>
    BY <1>1, <1>3, <2>1 DEF TakeCommand
  <2>2. CASE /\ Spend("lateCommit")
             /\ offsets' = [offsets EXCEPT !.late = @ \cup {m}]
    <3>1. used' \in [Faults -> Nat]
      BY <1>1, <2>2 DEF Spend, Faults
    <3>2. QED BY <1>1, <1>3, <2>2, <3>1 DEF TakeCommand
  <2>3. QED BY <1>3, <2>1, <2>2 DEF TakeCommand
<1>4. QED BY <1>2, <1>3

LEMMA RestartType ==
  ASSUME TypeOK, NEW c \in Coordinators, Restart(c)
  PROVE  /\ events' \in [Coordinators -> SUBSET Event]
         /\ outbox' \in [Coordinators -> SUBSET Message]
         /\ WorkOK'
         /\ commands' \in SUBSET Command
         /\ offsets' \in [late : SUBSET Command, again : SUBSET Command]
<1>1. events' \in [Coordinators -> SUBSET Event]
  <2>1. IsBusy(c) => work[c].message \in Event
    BY DEF TypeOK, WorkOK, Handles, IsBusy, Workers
  <2>2. QED BY <2>1 DEF Restart, TypeOK
<1>2. outbox' \in [Coordinators -> SUBSET Message]
  BY DEF Restart, TypeOK
<1>3. WorkOK'
  <2>1. \A w \in Workers : work'[w] \in {work[w], Idle, Ended}
    BY DEF Restart
  <2>2. {Idle, Ended} \subseteq Activity /\ Idle \notin Running /\ Ended \notin Running
    BY DEF Idle, Ended, Activity, Running
  <2>3. \A w \in Workers :
          /\ work'[w] \in Activity
          /\ work'[w] \in Running => Handles(w, work'[w].message)
    BY <2>1, <2>2 DEF TypeOK, WorkOK
  <2>4. work' \in [Workers -> Activity]
    BY <2>3 DEF Restart
  <2>5. QED BY <2>3, <2>4 DEF WorkOK, Handles
<1>4. QED BY <1>1, <1>2, <1>3, OffsetsType DEF Restart

LEMMA OtherTypes ==
  ASSUME TypeOK, NEW c \in Coordinators
  PROVE  /\ \A t \in Transactions :
              CheckTimeout(c, t) \/ CheckerFails(c, t) \/ Expire(c, t) => TypeOK'
         /\ Crash(c) \/ Rebalance(c) => TypeOK'
         /\ \A m \in outbox[c] : Flush(c, m) => TypeOK'
         /\ \A w \in Workers : PublishFails(w) \/ StoreFails(w) \/ ReadFails(w) => TypeOK'
         /\ \A e \in events[c] : FirstReadFails(c, e) => TypeOK'
<1>0. /\ c \in Workers /\ 0 \in StepIndex
      /\ {"checkerRace", "crash", "expiry", "publishError", "storeError", "readError"}
           \subseteq Faults
  BY StepsAssumption DEF Workers, Faults, StepIndex
<1>1. ASSUME NEW t \in Transactions, CheckTimeout(c, t) PROVE TypeOK'
  <2>1. Msg("TIMEOUT", t) \in Message
    BY <1>0, MessageType DEF Msg, EventTopics, Message
  <2>2. outbox' \in [Coordinators -> SUBSET Message]
    BY <1>0, <1>1, <2>1, BlockTypes DEF CheckTimeout
  <2>3. QED BY <1>1, <2>2 DEF CheckTimeout, TypeOK, WorkOK, Handles
<1>2. ASSUME NEW t \in Transactions, CheckerFails(c, t) PROVE TypeOK'
  BY <1>0, <1>2, RestartType, BlockTypes DEF CheckerFails, Restart, TypeOK
<1>3. ASSUME Crash(c) PROVE TypeOK'
  BY <1>0, <1>3, RestartType, BlockTypes DEF Crash, Restart, TypeOK
<1>4. ASSUME NEW t \in Transactions, Expire(c, t) PROVE TypeOK'
  <2>1. Missing \in Transaction
    BY StepsAssumption DEF Missing, Minimal, Transaction, Status
  <2>2. QED BY <1>0, <1>4, <2>1, BlockTypes DEF Expire, TypeOK, WorkOK, Handles
<1>5. ASSUME NEW m \in outbox[c], Flush(c, m) PROVE TypeOK'
  <2>1. m \in Message
    BY DEF TypeOK
  <2>2. QED BY <1>0, <1>5, <2>1, BlockTypes DEF Flush, TypeOK, WorkOK, Handles
<1>6. ASSUME NEW w \in Workers, PublishFails(w) \/ StoreFails(w) PROVE TypeOK'
  <2>1. \A a \in {Idle, Ended} : a \in Activity /\ a \notin Running
    BY DEF Idle, Ended, Activity, Running
  <2>2. WorkOK'
    BY <1>6, <2>1 DEF PublishFails, StoreFails, TypeOK, WorkOK, Handles
  <2>3. QED BY <1>0, <1>6, <2>2, BlockTypes DEF PublishFails, StoreFails, TypeOK
<1>7. ASSUME Rebalance(c) PROVE TypeOK'
  BY <1>7, OffsetsType DEF Rebalance, TypeOK, WorkOK, Handles
<1>8. ASSUME NEW w \in Workers, ReadFails(w) PROVE TypeOK'
  <2>1. \A a \in {Idle, Ended} : a \in Activity /\ a \notin Running
    BY DEF Idle, Ended, Activity, Running
  <2>2. CASE Goto(w, "startCompensation")
    <3>1. IsBusy(w) /\ "startCompensation" \in Points
      BY <1>8 DEF ReadFails, Points
    <3>2. WorkOK'
      BY <2>2, <3>1, BlockTypes
    <3>3. QED BY <1>0, <1>8, <3>2, BlockTypes DEF ReadFails, TypeOK
  <2>3. CASE work' = [work EXCEPT ![w] = IF w \in Transactions THEN Ended ELSE Idle]
    <3>1. WorkOK'
      BY <2>1, <2>3 DEF TypeOK, WorkOK, Handles
    <3>2. QED BY <1>0, <1>8, <3>1, BlockTypes DEF ReadFails, TypeOK
  <2>4. QED BY <1>8, <2>2, <2>3 DEF ReadFails
<1>9. ASSUME NEW e \in events[c], FirstReadFails(c, e) PROVE TypeOK'
  BY <1>0, <1>9, BlockTypes DEF FirstReadFails, TypeOK, WorkOK, Handles
<1>10. QED BY <1>1, <1>2, <1>3, <1>4, <1>5, <1>6, <1>7, <1>8, <1>9

LEMMA ParticipantType ==
  ASSUME TypeOK, NEW t \in Transactions, NEW i \in StepIndex
  PROVE  /\ PerformStep(i, t) \/ RejectStep(i, t) => TypeOK'
         /\ ReportFailure(i, t) \/ TakeCompensation(i, t) => TypeOK'
<1> DEFINE Taken == /\ commands' \in SUBSET Command
                    /\ offsets' \in [late : SUBSET Command, again : SUBSET Command]
                    /\ used' \in [Faults -> Nat]
<1>1. \A m : TakeCommand(m) => Taken
  BY OffsetsType
<1>2. Host[i] \in Coordinators
  BY StepsAssumption
<1>3. \A topic \in {"STEP_COMPLETED", "STEP_FAILED"} : StepMessage(topic, t, i) \in Message
  BY MessageType DEF EventTopics, Message
<1>4. \A ms \in SUBSET Message :
        PublishLater(Host[i], ms) => outbox' \in [Coordinators -> SUBSET Message]
  BY <1>2 DEF TypeOK, PublishLater
<1>5. ASSUME PerformStep(i, t) PROVE TypeOK'
  <2>1. outbox' \in [Coordinators -> SUBSET Message]
    BY <1>3, <1>4, <1>5 DEF PerformStep
  <2>2. Taken
    BY <1>1, <1>5 DEF PerformStep
  <2>3. performed' \in SUBSET (StepIndex \X Transactions)
    BY <1>5 DEF PerformStep, TypeOK
  <2>4. WorkOK'
    BY <1>5 DEF PerformStep, TypeOK, WorkOK, Handles
  <2>5. QED BY <1>5, <2>1, <2>2, <2>3, <2>4 DEF PerformStep, TypeOK
<1>6. ASSUME RejectStep(i, t) PROVE TypeOK'
  <2>1. Taken
    BY <1>1, <1>6 DEF RejectStep
  <2>2. QED BY <1>6, <2>1 DEF RejectStep, TypeOK, WorkOK, Handles
<1>7. ASSUME ReportFailure(i, t) PROVE TypeOK'
  <2>1. outbox' \in [Coordinators -> SUBSET Message]
    BY <1>3, <1>4, <1>7 DEF ReportFailure
  <2>2. used' \in [Faults -> Nat]
    BY <1>7 DEF ReportFailure, TypeOK, Spend, Faults
  <2>3. QED BY <1>7, <2>1, <2>2 DEF ReportFailure, TypeOK, WorkOK, Handles
<1>8. ASSUME TakeCompensation(i, t) PROVE TypeOK'
  <2>1. Taken
    BY <1>1, <1>8 DEF TakeCompensation
  <2>2. QED BY <1>8, <2>1 DEF TakeCompensation, TypeOK, WorkOK, Handles
<1>9. QED BY <1>5, <1>6, <1>7, <1>8

LEMMA RequestType ==
  ASSUME TypeOK, NEW t \in Transactions
  PROVE  /\ BeginRequest(t) => TypeOK'
         /\ StartTransaction(t) => TypeOK'
         /\ EndRequest(t) => TypeOK'
<1>0. t \in Workers /\ t \notin Coordinators /\ 0 \in StepIndex /\ "progress" \in Points \ {"store"}
  BY CoordinatorsAssumption, StepsAssumption DEF Workers, StepIndex, Points
<1>1. ASSUME StartTransaction(t) PROVE TypeOK'
  <2>1. [status |-> "STARTED", currentStep |-> 0, steps |-> FreshSteps] \in Transaction
    BY StepsAssumption DEF Transaction, Status, FreshSteps, Step
  <2>2. Msg("CREATE", t) \in Request /\ Handles(t, Msg("CREATE", t))
    BY <1>0, MessageType DEF Msg, Handles
  <2>3. WorkOK'
    BY <1>0, <1>1, <2>1, <2>2, BlockTypes DEF StartTransaction
  <2>4. QED BY <1>1, <2>3 DEF StartTransaction, TypeOK
<1>2. ASSUME EndRequest(t) PROVE TypeOK'
  <2>1. Msg("USER_NOTIFICATION", t) \in Message
    BY <1>0, MessageType DEF Msg, Message
  <2>2. Ended \in Activity /\ Ended \notin Running
    BY DEF Ended, Activity, Running
  <2>3. WorkOK'
    BY <1>0, <1>2, <2>2 DEF EndRequest, TypeOK, WorkOK, Handles
  <2>4. QED
    BY <1>0, <1>2, <2>1, <2>3, CoordinatorsAssumption, BlockTypes DEF EndRequest, TypeOK
<1>3. ASSUME BeginRequest(t) PROVE TypeOK'
  <2>1. Called \in Activity /\ Called \notin Running
    BY DEF Called, Activity, Running
  <2>2. WorkOK'
    BY <1>0, <1>3, <2>1 DEF BeginRequest, TypeOK, WorkOK, Handles
  <2>3. QED BY <1>3, <2>2 DEF BeginRequest, TypeOK
<1>4. QED BY <1>1, <1>2, <1>3

LEMMA NextType ==
  ASSUME TypeOK, \A w \in Workers : Grounded(performed, work[w]), [Next]_vars
  PROVE  TypeOK'
<1>1. CASE CoordinatorStep
  BY <1>1, HandleType, ContinueType, OtherTypes DEF CoordinatorStep
<1>2. CASE FaultStep
  BY <1>2, OtherTypes, CoordinatorsAssumption DEF FaultStep
<1>3. CASE ParticipantStep
  BY <1>3, ParticipantType DEF ParticipantStep
<1>4. CASE RequestStep
  BY <1>4, RequestType DEF RequestStep
<1>5. CASE UNCHANGED vars
  BY <1>5 DEF vars, TypeOK, WorkOK, Handles
<1>6. QED BY <1>1, <1>2, <1>3, <1>4, <1>5 DEF Next

-----------------------------------------------------------------------------
(* Nothing runs ahead of the steps that were executed *)

LEMMA EarnedGrows ==
  ASSUME NEW done, NEW later, done \subseteq later
  PROVE  /\ \A tx, t : Earned(done, tx, t) => Earned(later, tx, t)
         /\ \A m : MessageEarned(done, m) => MessageEarned(later, m)
         /\ \A a : Grounded(done, a) => Grounded(later, a)
<1>1. \A t : AllDone(done, t) => AllDone(later, t)
  BY DEF AllDone
<1>2. \A tx, t : Earned(done, tx, t) => Earned(later, tx, t)
  BY <1>1 DEF Earned
<1>3. \A m : MessageEarned(done, m) => MessageEarned(later, m)
  BY <1>1 DEF MessageEarned
<1>4. \A a : Grounded(done, a) => Grounded(later, a)
  BY <1>1, <1>2, <1>3 DEF Grounded
<1>5. QED BY <1>2, <1>3, <1>4

LEMMA EarnedTransforms ==
  ASSUME NEW done, NEW t, NEW tx \in Transaction, Earned(done, tx, t)
  PROVE  /\ \A status \in Status \ {"STARTED", "IN_PROGRESS"} :
              (status = "COMPLETED" => AllDone(done, t))
                => /\ Earned(done, [tx EXCEPT !.status = status], t)
                   /\ Earned(done, Minimal(status), t)
         /\ HasCurrentStep(tx) =>
              /\ Earned(done, InProgress(tx), t)
              /\ HasCurrentStep(InProgress(tx))
              /\ Earned(done, FailCurrentStep(tx), t)
              /\ <<tx.currentStep, t>> \in done
                   => Earned(done, CompleteCurrentStep(tx), t)
         /\ Earned(done, Compensated(tx), t)
         /\ tx.status \in {"STARTED", "IN_PROGRESS"} /\ ~ HasCurrentStep(tx)
              => AllDone(done, t)
<1>1. \A status \in Status \ {"STARTED", "IN_PROGRESS"} :
        (status = "COMPLETED" => AllDone(done, t))
          => /\ Earned(done, [tx EXCEPT !.status = status], t)
             /\ Earned(done, Minimal(status), t)
  BY DEF Earned, Minimal, Transaction, StepIndex
<1>2. ASSUME HasCurrentStep(tx)
      PROVE  /\ Earned(done, InProgress(tx), t)
             /\ HasCurrentStep(InProgress(tx))
             /\ Earned(done, FailCurrentStep(tx), t)
             /\ <<tx.currentStep, t>> \in done
                  => Earned(done, CompleteCurrentStep(tx), t)
  <2> DEFINE cs == tx.currentStep
  <2>1. /\ cs \in StepIndex /\ tx.steps \in [StepIndex -> Step]
        /\ InProgress(tx) \in Transaction
        /\ CompleteCurrentStep(tx) \in Transaction
    BY <1>2, TransactionType
  <2>2. /\ InProgress(tx).currentStep = cs /\ InProgress(tx).status = "IN_PROGRESS"
        /\ InProgress(tx).steps \in [StepIndex -> Step]
    <3>1. [tx.steps EXCEPT ![cs].started = TRUE] \in [StepIndex -> Step]
      BY <2>1 DEF Step
    <3>2. QED BY <3>1 DEF InProgress, Transaction
  <2>3. FailCurrentStep(tx).currentStep = cs /\ FailCurrentStep(tx).status = "FAILED"
    BY DEF FailCurrentStep, Transaction
  <2>4. /\ CompleteCurrentStep(tx).currentStep = cs + 1
        /\ CompleteCurrentStep(tx).status = tx.status
        /\ CompleteCurrentStep(tx).steps \in [StepIndex -> Step]
    <3>1. [tx.steps EXCEPT ![cs].status = "COMPLETED"] \in [StepIndex -> Step]
      BY <2>1 DEF Step
    <3>2. QED BY <3>1 DEF CompleteCurrentStep, Transaction
  <2>5. Earned(done, InProgress(tx), t) /\ Earned(done, FailCurrentStep(tx), t)
    BY <2>2, <2>3 DEF Earned
  <2>6. HasCurrentStep(InProgress(tx))
    BY <2>1, <2>2 DEF HasCurrentStep
  <2>7. ASSUME <<cs, t>> \in done PROVE Earned(done, CompleteCurrentStep(tx), t)
    <3>1. \A i \in StepIndex : i < cs + 1 => i < cs \/ i = cs
      BY <2>1 DEF StepIndex
    <3>2. QED BY <2>4, <2>7, <3>1 DEF Earned
  <2>8. QED BY <2>5, <2>6, <2>7
<1>3. Earned(done, Compensated(tx), t)
  <2>1. Compensated(tx).currentStep = tx.currentStep
        /\ Compensated(tx).status = "COMPENSATED"
    BY DEF Compensated, Transaction
  <2>2. QED BY <2>1 DEF Earned
<1>4. ASSUME tx.status \in {"STARTED", "IN_PROGRESS"}, ~ HasCurrentStep(tx)
      PROVE  AllDone(done, t)
  <2>1. tx.currentStep = NSteps
    BY <1>4, StepsAssumption DEF Earned, HasCurrentStep, Transaction, StepIndex
  <2>2. QED BY <2>1, StepsAssumption DEF Earned, AllDone, StepIndex
<1>5. QED BY <1>1, <1>2, <1>3, <1>4

LEMMA PointsOnlyRunning ==
  /\ Idle \notin Running /\ Called \notin Running
  /\ Returned \notin Running /\ Ended \notin Running
  BY DEF Idle, Called, Returned, Ended, Running

(* A publication keeps the messages in flight earned. *)
LEMMA PublishEarned ==
  ASSUME TypeOK, EverythingEarned, NEW m, MessageEarned(performed, m), Publish(m)
  PROVE  /\ \A c \in Coordinators : \A e \in events'[c] : MessageEarned(performed, e)
         /\ \A e \in commands' : MessageEarned(performed, e)
  BY DEF TypeOK, EverythingEarned, Publish

(* What a worker moves on to is grounded. *)
LEMMA WorkEarned ==
  ASSUME TypeOK, EverythingEarned, NEW w \in Workers
  PROVE  /\ Finish(w) => \A v \in Workers : Grounded(performed, work'[v])
         /\ \A m \in Event \cup Request, tx \in Transaction, point \in Points \ {"store"} :
              /\ Earned(performed, tx, m.id) /\ MessageEarned(performed, m)
              /\ point = "publishStep" => HasCurrentStep(tx)
              /\ point \in {"complete", "publishCompleted"} => AllDone(performed, m.id)
              /\ StoreThen(w, m, tx, point)
              => \A v \in Workers : Grounded(performed, work'[v])
         /\ \A point \in Points :
              /\ IsBusy(w)
              /\ point = "publishStep" => HasCurrentStep(work[w].tx)
              /\ point \in {"complete", "publishCompleted"} => AllDone(performed, Id(w))
              /\ point # "store"
              /\ Goto(w, point)
              => \A v \in Workers : Grounded(performed, work'[v])
<1>0. ASSUME NEW a, Grounded(performed, a), work' = [work EXCEPT ![w] = a]
      PROVE  \A v \in Workers : Grounded(performed, work'[v])
  BY <1>0 DEF TypeOK, WorkOK, EverythingEarned
<1>1. Finish(w) => \A v \in Workers : Grounded(performed, work'[v])
  <2>1. Grounded(performed, Finished(w))
    BY PointsOnlyRunning DEF Finished, Grounded
  <2>2. QED BY <1>0, <2>1 DEF Finish
<1>2. ASSUME NEW m \in Event \cup Request, NEW tx \in Transaction, NEW point \in Points \ {"store"},
             Earned(performed, tx, m.id), MessageEarned(performed, m),
             point = "publishStep" => HasCurrentStep(tx),
             point \in {"complete", "publishCompleted"} => AllDone(performed, m.id),
             StoreThen(w, m, tx, point)
      PROVE  \A v \in Workers : Grounded(performed, work'[v])
  <2> DEFINE a == [pc |-> "store", message |-> m, tx |-> tx, then |-> point]
  <2>1. Grounded(performed, a)
    BY <1>2 DEF Grounded, Heads
  <2>2. work' = [work EXCEPT ![w] = a]
    BY <1>2 DEF StoreThen
  <2> HIDE DEF a
  <2>3. QED BY <1>0, <2>1, <2>2
<1>3. ASSUME NEW point \in Points, IsBusy(w), point # "store",
             point = "publishStep" => HasCurrentStep(work[w].tx),
             point \in {"complete", "publishCompleted"} => AllDone(performed, Id(w)),
             Goto(w, point)
      PROVE  \A v \in Workers : Grounded(performed, work'[v])
  <2> DEFINE a == [work[w] EXCEPT !.pc = point]
  <2>1. /\ a.pc = point /\ a.then = work[w].then
        /\ a.tx = work[w].tx /\ a.message = work[w].message
    BY <1>3 DEF IsBusy, Running
  <2>2. Grounded(performed, work[w])
    BY DEF EverythingEarned
  <2>3. work' = [work EXCEPT ![w] = a]
    BY <1>3 DEF Goto, TypeOK
  <2> HIDE DEF a
  <2>4. Grounded(performed, a)
    BY <1>3, <2>1, <2>2 DEF Grounded, Heads, Id, IsBusy
  <2>5. QED BY <1>0, <2>3, <2>4
<1>4. QED BY <1>1, <1>2, <1>3

LEMMA ContinueEarned ==
  ASSUME TypeOK, EverythingEarned, NEW w \in Workers, Continue(w)
  PROVE  EverythingEarned'
<1> DEFINE s == ServiceOf(w)
           t == Id(w)
           a == work[w]
<1>1. /\ IsBusy(w) /\ s \in Coordinators /\ t \in Transactions
      /\ a.tx \in Transaction /\ a.then \in Points \ {"store"}
      /\ a.message \in Event \cup Request
      /\ StoredFor(w) \in Transaction
  BY WorkerType DEF Continue, StoreTransactionState, ProgressTransaction, PublishStep,
    CompleteTransaction, PublishCompleted, SendUserNotification, StartCompensation,
    CompensateSteps, PublishCompensated
<1>2. /\ Earned(performed, a.tx, t) /\ Earned(performed, StoredFor(w), t)
      /\ MessageEarned(performed, a.message)
      /\ Heads(a, "publishStep") => HasCurrentStep(a.tx)
      /\ Heads(a, "complete") \/ Heads(a, "publishCompleted") => AllDone(performed, t)
  BY <1>1 DEF EverythingEarned, Grounded, IsBusy, Id, StoredFor
<1>3. /\ {"progress", "publishStep", "complete", "publishCompleted", "startCompensation",
          "publishCompensated"} \subseteq Points \ {"store"}
      /\ "COMPLETED" \in Status
  BY DEF Points, Status
<1>4. performed' = performed
  BY DEF Continue, StoreTransactionState, ProgressTransaction, PublishStep,
    CompleteTransaction, PublishCompleted, SendUserNotification, StartCompensation,
    CompensateSteps, PublishCompensated
<1>5. CASE StoreTransactionState(w)
  <2>1. \A c \in Coordinators, u \in Transactions : Earned(performed, store'[c][u], u)
    BY <1>1, <1>2, <1>5 DEF StoreTransactionState, TypeOK, EverythingEarned
  <2>2. Heads(a, a.then)
    BY <1>5 DEF StoreTransactionState, At, Heads
  <2>3. \A v \in Workers : Grounded(performed, work'[v])
    BY <1>1, <1>2, <1>5, <2>2, WorkEarned DEF StoreTransactionState
  <2>4. QED BY <1>4, <1>5, <2>1, <2>3 DEF StoreTransactionState, EverythingEarned
<1>6. CASE ProgressTransaction(w)
  <2> DEFINE tx == StoredFor(w)
  <2>1. CASE tx.status \notin {"STARTED", "IN_PROGRESS"}
    BY <1>4, <1>6, <2>1, WorkEarned DEF ProgressTransaction, EverythingEarned
  <2>2. CASE tx.status \in {"STARTED", "IN_PROGRESS"} /\ HasCurrentStep(tx)
    <3>1. StoreThen(w, a.message, InProgress(tx), "publishStep")
      BY <1>6, <2>2 DEF ProgressTransaction
    <3>2. /\ InProgress(tx) \in Transaction /\ HasCurrentStep(InProgress(tx))
          /\ Earned(performed, InProgress(tx), a.message.id)
      BY <1>1, <1>2, <2>2, EarnedTransforms, TransactionType DEF Id
    <3>3. \A v \in Workers : Grounded(performed, work'[v])
      BY <1>1, <1>2, <1>3, <3>1, <3>2, WorkEarned
    <3>4. QED BY <1>4, <1>6, <3>3 DEF ProgressTransaction, EverythingEarned
  <2>3. CASE tx.status \in {"STARTED", "IN_PROGRESS"} /\ ~ HasCurrentStep(tx)
    <3>1. Goto(w, "complete")
      BY <1>6, <2>3 DEF ProgressTransaction
    <3>2. AllDone(performed, t)
      BY <1>1, <1>2, <2>3, EarnedTransforms
    <3>3. \A v \in Workers : Grounded(performed, work'[v])
      BY <1>1, <1>3, <3>1, <3>2, WorkEarned
    <3>4. QED BY <1>4, <1>6, <3>3 DEF ProgressTransaction, EverythingEarned
  <2>4. QED BY <2>1, <2>2, <2>3
<1>7. CASE PublishStep(w)
  <2> DEFINE m == StepMessage("EXECUTE", t, a.tx.currentStep)
  <2>1. MessageEarned(performed, m)
    BY <1>1, <1>2 DEF MessageEarned, StepMessage, Earned
  <2>2. Publish(m) /\ Finish(w)
    BY <1>7 DEF PublishStep
  <2> HIDE DEF m
  <2>3. QED
    BY <1>4, <1>7, <2>1, <2>2, PublishEarned, WorkEarned DEF PublishStep, EverythingEarned
<1>8. CASE CompleteTransaction(w)
  <2> DEFINE tx == [StoredFor(w) EXCEPT !.status = "COMPLETED"]
  <2>1. AllDone(performed, t)
    BY <1>2, <1>8 DEF CompleteTransaction, At, Heads
  <2>2. tx \in Transaction /\ Earned(performed, tx, a.message.id)
    BY <1>1, <1>2, <1>3, <2>1, TransactionType, EarnedTransforms DEF Id
  <2>3. Finish(w) \/ StoreThen(w, a.message, tx, "publishCompleted")
    BY <1>8 DEF CompleteTransaction
  <2> HIDE DEF tx
  <2>4. \A v \in Workers : Grounded(performed, work'[v])
    BY <1>1, <1>2, <1>3, <2>1, <2>2, <2>3, WorkEarned DEF Id
  <2>5. QED BY <1>4, <1>8, <2>4 DEF CompleteTransaction, EverythingEarned
<1>9. CASE PublishCompleted(w)
  <2> DEFINE m == Msg("COMPLETED", t)
  <2>1. MessageEarned(performed, m)
    BY <1>2, <1>9 DEF PublishCompleted, At, Heads, MessageEarned, Msg, StepMessage
  <2>2. Publish(m) /\ Finish(w)
    BY <1>9 DEF PublishCompleted
  <2> HIDE DEF m
  <2>3. QED
    BY <1>4, <1>9, <2>1, <2>2, PublishEarned, WorkEarned DEF PublishCompleted, EverythingEarned
<1>10. CASE SendUserNotification(w)
  <2> DEFINE m == Msg("USER_NOTIFICATION", t)
  <2>1. MessageEarned(performed, m)
    BY DEF MessageEarned, Msg, StepMessage
  <2>2. Publish(m) \/ UNCHANGED <<events, commands>>
    BY <1>10 DEF SendUserNotification
  <2> HIDE DEF m
  <2>3. /\ \A c \in Coordinators : \A e \in events'[c] : MessageEarned(performed, e)
        /\ \A e \in commands' : MessageEarned(performed, e)
    BY <2>1, <2>2, PublishEarned DEF EverythingEarned
  <2>4. \A v \in Workers : Grounded(performed, work'[v])
    BY <1>1, <1>3, <1>10, WorkEarned DEF SendUserNotification
  <2>5. QED BY <1>4, <1>10, <2>3, <2>4 DEF SendUserNotification, EverythingEarned
<1>11. CASE StartCompensation(w)
  <2> DEFINE m == Msg("COMPENSATION_START", t)
  <2>1. MessageEarned(performed, m)
    BY DEF MessageEarned, Msg, StepMessage
  <2>2. Publish(m) \/ UNCHANGED <<events, commands>>
    BY <1>11 DEF StartCompensation
  <2> HIDE DEF m
  <2>3. /\ \A c \in Coordinators : \A e \in events'[c] : MessageEarned(performed, e)
        /\ \A e \in commands' : MessageEarned(performed, e)
    BY <2>1, <2>2, PublishEarned DEF EverythingEarned
  <2>4. \A v \in Workers : Grounded(performed, work'[v])
    BY <1>11, WorkEarned DEF StartCompensation
  <2>5. QED BY <1>4, <1>11, <2>3, <2>4 DEF StartCompensation, EverythingEarned
<1>12. CASE CompensateSteps(w)
  <2> DEFINE ms == {StepMessage("COMPENSATE", t, i) : i \in StepsToCompensate(a.tx)}
             tx == Compensated(a.tx)
  <2>1. \A m \in ms : MessageEarned(performed, m)
    BY DEF MessageEarned, StepMessage
  <2>2. tx \in Transaction /\ Earned(performed, tx, a.message.id)
    BY <1>1, <1>2, TransactionType, EarnedTransforms DEF Id
  <2>3. PublishLater(s, ms) \/ UNCHANGED outbox
    BY <1>12 DEF CompensateSteps
  <2>4. StoreThen(w, a.message, tx, "publishCompensated") \/ Goto(w, "publishCompensated")
    BY <1>12 DEF CompensateSteps
  <2> HIDE DEF ms, tx
  <2>5. \A c \in Coordinators : \A m \in outbox'[c] : MessageEarned(performed, m)
    BY <2>1, <2>3 DEF PublishLater, EverythingEarned, TypeOK
  <2>6. \A v \in Workers : Grounded(performed, work'[v])
    BY <1>1, <1>2, <1>3, <2>2, <2>4, WorkEarned
  <2>7. QED BY <1>4, <1>12, <2>5, <2>6 DEF CompensateSteps, EverythingEarned
<1>13. CASE PublishCompensated(w)
  <2> DEFINE m == Msg("COMPENSATION_COMPLETED", t)
  <2>1. MessageEarned(performed, m)
    BY DEF MessageEarned, Msg, StepMessage
  <2>2. Publish(m) /\ Finish(w)
    BY <1>13 DEF PublishCompensated
  <2> HIDE DEF m
  <2>3. QED
    BY <1>4, <1>13, <2>1, <2>2, PublishEarned, WorkEarned
    DEF PublishCompensated, EverythingEarned
<1>14. QED
  BY <1>5, <1>6, <1>7, <1>8, <1>9, <1>10, <1>11, <1>12, <1>13 DEF Continue

LEMMA HandleEarned ==
  ASSUME TypeOK, EverythingEarned, NEW c \in Coordinators, NEW e \in events[c], Handle(c, e)
  PROVE  EverythingEarned'
<1> DEFINE tx == store[c][e.id]
<1>1. Deliver(c, e) /\ UNCHANGED <<store, commands, offsets, outbox, performed>>
  BY DEF Handle, HandleStepCompleted, HandleStepFailed, HandleTimeout,
    HandleCompensationStart, HandleCompensationCompleted, HandleCompleted
<1>2. /\ e \in Event \cup Request /\ e.id \in Transactions
      /\ tx \in Transaction /\ c \in Workers
  BY <1>1, DeliverType
<1>3. MessageEarned(performed, e) /\ Earned(performed, tx, e.id)
  BY <1>2 DEF EverythingEarned
<1>4. /\ {"progress", "notify", "done", "compensateSteps"} \subseteq Points \ {"store"}
      /\ {"TIMED_OUT", "COMPENSATING", "COMPENSATED", "COMPLETED"}
           \subseteq Status \ {"STARTED", "IN_PROGRESS"}
  BY DEF Points, Status
<1>5. ASSUME NEW new \in Transaction, Earned(performed, new, e.id),
             NEW point \in {"progress", "notify", "done", "compensateSteps"},
             StoreThen(c, e, new, point)
      PROVE  \A v \in Workers : Grounded(performed, work'[v])
  BY <1>2, <1>3, <1>4, <1>5, WorkEarned
<1>6. ASSUME UNCHANGED work PROVE \A v \in Workers : Grounded(performed, work'[v])
  BY <1>6 DEF EverythingEarned
<1>7. \A v \in Workers : Grounded(performed, work'[v])
  <2>1. CASE HandleStepCompleted(c, e)
    BY <1>2, <1>3, <1>5, <1>6, <2>1, EarnedTransforms, TransactionType
    DEF HandleStepCompleted, MessageEarned
  <2>2. CASE HandleStepFailed(c, e)
    BY <1>2, <1>3, <1>5, <1>6, <2>2, EarnedTransforms, TransactionType
    DEF HandleStepFailed
  <2>3. CASE HandleTimeout(c, e)
    BY <1>2, <1>3, <1>4, <1>5, <1>6, <2>3, EarnedTransforms, TransactionType
    DEF HandleTimeout
  <2>4. CASE HandleCompensationStart(c, e)
    BY <1>2, <1>3, <1>4, <1>5, <1>6, <2>4, EarnedTransforms, TransactionType
    DEF HandleCompensationStart
  <2>5. CASE HandleCompensationCompleted(c, e)
    BY <1>2, <1>3, <1>4, <1>5, <1>6, <2>5, EarnedTransforms, TransactionType
    DEF HandleCompensationCompleted
  <2>6. CASE HandleCompleted(c, e)
    BY <1>2, <1>3, <1>4, <1>5, <1>6, <2>6, EarnedTransforms, TransactionType
    DEF HandleCompleted, MessageEarned
  <2>7. QED BY <2>1, <2>2, <2>3, <2>4, <2>5, <2>6 DEF Handle
<1>8. \A d \in Coordinators : events'[d] \subseteq events[d]
  BY <1>1 DEF Deliver, TypeOK
<1>9. QED BY <1>1, <1>7, <1>8 DEF EverythingEarned

LEMMA RestartEarned ==
  ASSUME TypeOK, EverythingEarned, NEW c \in Coordinators, Restart(c)
  PROVE  EverythingEarned'
<1>1. \A w \in Workers : work'[w] \in {work[w], Idle, Ended}
  BY DEF Restart
<1>2. \A w \in Workers : Grounded(performed, work'[w])
  BY <1>1, PointsOnlyRunning DEF EverythingEarned, Grounded
<1>3. IsBusy(c) => MessageEarned(performed, work[c].message)
  BY DEF EverythingEarned, Grounded, IsBusy, Workers
<1>4. \A d \in Coordinators :
        \A m \in events'[d] \cup outbox'[d] : MessageEarned(performed, m)
  BY <1>3 DEF Restart, EverythingEarned, TypeOK
<1>5. \A m \in commands' \cup offsets'.late : MessageEarned(performed, m)
  BY OffsetsType DEF Restart, EverythingEarned
<1>6. QED BY <1>2, <1>4, <1>5 DEF Restart, EverythingEarned

LEMMA OtherEarned ==
  ASSUME TypeOK, EverythingEarned, NEW c \in Coordinators
  PROVE  /\ \A t \in Transactions :
              CheckTimeout(c, t) \/ CheckerFails(c, t) \/ Expire(c, t) => EverythingEarned'
         /\ Crash(c) \/ Rebalance(c) => EverythingEarned'
         /\ \A m \in outbox[c] : Flush(c, m) => EverythingEarned'
         /\ \A w \in Workers :
              PublishFails(w) \/ StoreFails(w) \/ ReadFails(w) => EverythingEarned'
         /\ \A e \in events[c] : FirstReadFails(c, e) => EverythingEarned'
<1>1. ASSUME NEW t \in Transactions, CheckTimeout(c, t) PROVE EverythingEarned'
  <2>1. MessageEarned(performed, Msg("TIMEOUT", t))
    BY DEF MessageEarned, Msg, StepMessage
  <2>2. \A d \in Coordinators : \A m \in outbox'[d] : MessageEarned(performed, m)
    BY <1>1, <2>1 DEF CheckTimeout, PublishLater, EverythingEarned, TypeOK
  <2>3. QED BY <1>1, <2>2 DEF CheckTimeout, EverythingEarned
<1>2. ASSUME NEW t \in Transactions, Expire(c, t) PROVE EverythingEarned'
  <2>1. \A u : Earned(performed, Missing, u)
    BY DEF Earned, Missing, Minimal, StepIndex
  <2>2. \A d \in Coordinators, u \in Transactions : Earned(performed, store'[d][u], u)
    BY <1>2, <2>1 DEF Expire, EverythingEarned, TypeOK
  <2>3. QED BY <1>2, <2>2 DEF Expire, EverythingEarned
<1>3. ASSUME NEW m \in outbox[c], Flush(c, m) PROVE EverythingEarned'
  <2>1. MessageEarned(performed, m)
    BY DEF EverythingEarned
  <2>2. Publish(m)
    BY <1>3 DEF Flush
  <2>3. \A d \in Coordinators : outbox'[d] \subseteq outbox[d]
    BY <1>3 DEF Flush, TypeOK
  <2>4. QED BY <1>3, <2>1, <2>2, <2>3, PublishEarned DEF Flush, EverythingEarned
<1>4. ASSUME NEW w \in Workers, PublishFails(w) \/ StoreFails(w) PROVE EverythingEarned'
  <2>1. \A v \in Workers : work'[v] \in {work[v], Idle, Ended}
    BY <1>4 DEF PublishFails, StoreFails, TypeOK, WorkOK
  <2>2. \A v \in Workers : Grounded(performed, work'[v])
    BY <2>1, PointsOnlyRunning DEF EverythingEarned, Grounded
  <2>3. QED BY <1>4, <2>2 DEF PublishFails, StoreFails, EverythingEarned
<1>5. ASSUME NEW w \in Workers, ReadFails(w) PROVE EverythingEarned'
  <2>1. \A v \in Workers : Grounded(performed, work'[v])
    <3>1. CASE Goto(w, "startCompensation")
      <4>1. IsBusy(w) /\ "startCompensation" \in Points \ {"store"}
        BY <1>5 DEF ReadFails, Points
      <4>2. QED BY <3>1, <4>1, WorkEarned
    <3>2. CASE work' = [work EXCEPT ![w] = IF w \in Transactions THEN Ended ELSE Idle]
      <4>1. \A v \in Workers : work'[v] \in {work[v], Idle, Ended}
        BY <3>2 DEF TypeOK, WorkOK
      <4>2. QED BY <4>1, PointsOnlyRunning DEF EverythingEarned, Grounded
    <3>3. QED BY <1>5, <3>1, <3>2 DEF ReadFails
  <2>2. QED BY <1>5, <2>1 DEF ReadFails, EverythingEarned
<1>6. ASSUME NEW e \in events[c], FirstReadFails(c, e) PROVE EverythingEarned'
  <2>1. \A d \in Coordinators : events'[d] \subseteq events[d]
    BY <1>6 DEF FirstReadFails, TypeOK
  <2>2. QED BY <1>6, <2>1 DEF FirstReadFails, EverythingEarned
<1>7. ASSUME Rebalance(c) PROVE EverythingEarned'
  BY <1>7, OffsetsType DEF Rebalance, EverythingEarned
<1>8. QED BY <1>1, <1>2, <1>3, <1>4, <1>5, <1>6, <1>7, RestartEarned DEF CheckerFails, Crash

LEMMA ParticipantEarned ==
  ASSUME TypeOK, EverythingEarned, NEW t \in Transactions, NEW i \in StepIndex
  PROVE  /\ PerformStep(i, t) \/ RejectStep(i, t) => EverythingEarned'
         /\ ReportFailure(i, t) \/ TakeCompensation(i, t) => EverythingEarned'
<1>1. \A m : TakeCommand(m) => commands' \cup offsets'.late \subseteq commands \cup offsets.late
  BY OffsetsType
<1>2. ASSUME PerformStep(i, t) PROVE EverythingEarned'
  <2>1. /\ commands' \cup offsets'.late \subseteq commands \cup offsets.late
        /\ UNCHANGED <<store, events, work>>
    BY <1>1, <1>2 DEF PerformStep
  <2>2. performed \subseteq performed' /\ <<i, t>> \in performed'
    BY <1>2 DEF PerformStep
  <2>3. MessageEarned(performed', StepMessage("STEP_COMPLETED", t, i))
    BY <2>2 DEF MessageEarned, StepMessage
  <2>4. \A d \in Coordinators : \A m \in outbox'[d] :
          m \in outbox[d] \/ m = StepMessage("STEP_COMPLETED", t, i)
    BY <1>2 DEF PerformStep, PublishLater, TypeOK
  <2>5. QED BY <2>1, <2>2, <2>3, <2>4, EarnedGrows DEF EverythingEarned
<1>3. ASSUME RejectStep(i, t) \/ TakeCompensation(i, t) PROVE EverythingEarned'
  <2>1. /\ commands' \cup offsets'.late \subseteq commands \cup offsets.late
        /\ UNCHANGED <<store, events, outbox, work, performed>>
    BY <1>1, <1>3 DEF RejectStep, TakeCompensation
  <2>2. QED BY <2>1 DEF EverythingEarned
<1>4. ASSUME ReportFailure(i, t) PROVE EverythingEarned'
  <2>1. MessageEarned(performed, StepMessage("STEP_FAILED", t, i))
    BY DEF MessageEarned, StepMessage
  <2>2. \A d \in Coordinators : \A m \in outbox'[d] :
          m \in outbox[d] \/ m = StepMessage("STEP_FAILED", t, i)
    BY <1>4 DEF ReportFailure, PublishLater, TypeOK
  <2>3. QED BY <1>4, <2>1, <2>2 DEF ReportFailure, EverythingEarned
<1>5. QED BY <1>2, <1>3, <1>4

LEMMA RequestEarned ==
  ASSUME TypeOK, EverythingEarned, NEW t \in Transactions
  PROVE  /\ BeginRequest(t) => EverythingEarned'
         /\ StartTransaction(t) => EverythingEarned'
         /\ EndRequest(t) => EverythingEarned'
<1>1. ASSUME StartTransaction(t) PROVE EverythingEarned'
  <2> DEFINE tx == [status |-> "STARTED", currentStep |-> 0, steps |-> FreshSteps]
             m  == Msg("CREATE", t)
  <2>1. tx \in Transaction /\ Earned(performed, tx, m.id)
    BY StepsAssumption DEF Transaction, Status, FreshSteps, Step, Earned, StepIndex
  <2>2. m \in Request /\ MessageEarned(performed, m)
    <3>1. m \in Request
      BY StepsAssumption, MessageType DEF Msg, StepIndex
    <3>2. MessageEarned(performed, m)
      BY DEF MessageEarned, Msg, StepMessage
    <3>3. QED BY <3>1, <3>2
  <2>3. t \in Workers /\ "progress" \in Points \ {"store"}
    BY DEF Workers, Points
  <2>4. StoreThen(t, m, tx, "progress")
    BY <1>1 DEF StartTransaction
  <2> HIDE DEF tx, m
  <2>5. \A v \in Workers : Grounded(performed, work'[v])
    BY <2>1, <2>2, <2>3, <2>4, WorkEarned
  <2>6. QED BY <1>1, <2>5 DEF StartTransaction, EverythingEarned
<1>2. ASSUME EndRequest(t) PROVE EverythingEarned'
  <2>1. MessageEarned(performed, Msg("USER_NOTIFICATION", t))
    BY DEF MessageEarned, Msg, StepMessage
  <2>2. \A d \in Coordinators : \A m \in outbox'[d] :
          m \in outbox[d] \/ m = Msg("USER_NOTIFICATION", t)
    BY <1>2 DEF EndRequest, PublishLater, TypeOK
  <2>3. \A v \in Workers : work'[v] \in {work[v], Ended}
    BY <1>2 DEF EndRequest, TypeOK, WorkOK
  <2>4. \A v \in Workers : Grounded(performed, work'[v])
    BY <2>3, PointsOnlyRunning DEF EverythingEarned, Grounded
  <2>5. QED BY <1>2, <2>1, <2>2, <2>4 DEF EndRequest, EverythingEarned
<1>3. ASSUME BeginRequest(t) PROVE EverythingEarned'
  <2>1. \A v \in Workers : work'[v] \in {work[v], Called}
    BY <1>3 DEF BeginRequest, TypeOK, WorkOK
  <2>2. \A v \in Workers : Grounded(performed, work'[v])
    BY <2>1, PointsOnlyRunning DEF EverythingEarned, Grounded
  <2>3. QED BY <1>3, <2>2 DEF BeginRequest, EverythingEarned
<1>4. QED BY <1>1, <1>2, <1>3

-----------------------------------------------------------------------------
(* The inductive invariant and the theorems *)

LEMMA InitInvariant == Init => TypeOK /\ EverythingEarned
<1> SUFFICES ASSUME Init PROVE TypeOK /\ EverythingEarned
  OBVIOUS
<1>1. Missing \in Transaction /\ \A t : Earned(performed, Missing, t)
  BY StepsAssumption DEF Missing, Minimal, Transaction, Status, Earned, StepIndex
<1>2. TypeOK
  BY <1>1, PointsOnlyRunning DEF Init, TypeOK, WorkOK, Handles, Activity
<1>3. EverythingEarned
  BY <1>1, PointsOnlyRunning DEF Init, EverythingEarned, Grounded
<1>4. QED BY <1>2, <1>3

LEMMA NextInvariant ==
  TypeOK /\ EverythingEarned /\ [Next]_vars => TypeOK' /\ EverythingEarned'
<1> SUFFICES ASSUME TypeOK, EverythingEarned, [Next]_vars
             PROVE  TypeOK' /\ EverythingEarned'
  OBVIOUS
<1>1. TypeOK'
  BY NextType DEF EverythingEarned
<1>2. EverythingEarned'
  <2>1. CASE CoordinatorStep
    BY <2>1, HandleEarned, ContinueEarned, OtherEarned DEF CoordinatorStep
  <2>2. CASE FaultStep
    BY <2>2, OtherEarned, CoordinatorsAssumption DEF FaultStep
  <2>3. CASE ParticipantStep
    BY <2>3, ParticipantEarned DEF ParticipantStep
  <2>4. CASE RequestStep
    BY <2>4, RequestEarned DEF RequestStep
  <2>5. CASE UNCHANGED vars
    BY <2>5 DEF vars, EverythingEarned
  <2>6. QED BY <2>1, <2>2, <2>3, <2>4, <2>5 DEF Next
<1>3. QED BY <1>1, <1>2

(* The inductive invariant: types, and nothing ahead of the executed steps. *)
THEOREM EarnedAlways == Spec => [](TypeOK /\ EverythingEarned)
<1>1. QED BY InitInvariant, NextInvariant, PTL DEF Spec

(* Every variable keeps its type: no handler stores a malformed transaction *)
(* and no step beyond the last is ever commanded.                          *)
THEOREM TypeCorrect == Spec => []TypeOK
<1>1. QED BY EarnedAlways, PTL

(* A transaction is COMPLETED, or announced so, only when all its steps     *)
(* were executed, whatever is lost, repeated, reordered, crashed or expired. *)
THEOREM CompletionIsEarned == Spec => []CompletedIsEarned
<1>1. TypeOK /\ EverythingEarned => CompletedIsEarned
  <2> SUFFICES ASSUME EverythingEarned, NEW t \in Transactions, NEW c \in Coordinators,
                      store[c][t].status = "COMPLETED" \/ Msg("COMPLETED", t) \in events[c]
               PROVE  AllDone(performed, t)
    BY DEF CompletedIsEarned, AllDone
  <2>1. CASE store[c][t].status = "COMPLETED"
    BY <2>1 DEF EverythingEarned, Earned
  <2>2. CASE Msg("COMPLETED", t) \in events[c]
    <3> DEFINE m == Msg("COMPLETED", t)
    <3>1. MessageEarned(performed, m)
      BY <2>2 DEF EverythingEarned
    <3>2. m.topic = "COMPLETED" /\ m.id = t
      BY DEF Msg, StepMessage
    <3>3. QED BY <3>1, <3>2 DEF MessageEarned
  <2>3. QED BY <2>1, <2>2
<1>2. QED BY <1>1, EarnedAlways, PTL

(* A step is commanded only after every earlier step was executed. *)
THEOREM CommandsInOrder == Spec => []StepsInOrder
<1>1. TypeOK /\ EverythingEarned => StepsInOrder
  <2> SUFFICES ASSUME TypeOK, EverythingEarned, NEW m \in commands, m.topic = "EXECUTE",
                      NEW j \in 0 .. m.step - 1
               PROVE  <<j, m.id>> \in performed
    BY DEF StepsInOrder
  <2>1. m.step \in StepIndex
    BY DEF TypeOK, Command
  <2>2. j \in StepIndex /\ j < m.step
    BY <2>1, StepsAssumption DEF StepIndex
  <2>3. QED BY <2>2 DEF EverythingEarned, MessageEarned
<1>2. QED BY <1>1, EarnedAlways, PTL
=============================================================================
