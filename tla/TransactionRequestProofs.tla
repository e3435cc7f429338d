---------------------- MODULE TransactionRequestProofs ----------------------
(* Theorems about the requests that start transactions, which run beside   *)
(* the consumers of the same process.                                      *)
EXTENDS TransactionCoordinatorProofs

-----------------------------------------------------------------------------
(* The parts of Alone *)

StoresApart(t)   == \A c \in Coordinators : store[c][t].status # "IN_PROGRESS"
EventsApart(t)   == \A c \in Coordinators : \A m \in events[c] : m.id # t
OutboxApart(t)   == \A c \in Coordinators : \A m \in outbox[c] : m.id # t
WorkApart(t)     == \A c \in Coordinators : IsBusy(c) => Id(c) # t
CommandsApart(t) == \A m \in commands \cup offsets.late : m.id # t

LEMMA AloneParts ==
  ASSUME NEW t
  PROVE  Alone(t) <=> /\ StoresApart(t) /\ EventsApart(t) /\ OutboxApart(t)
                      /\ WorkApart(t) /\ CommandsApart(t)
  BY DEF Alone, StoresApart, EventsApart, OutboxApart, WorkApart, CommandsApart

LEMMA AlonePartsNext ==
  ASSUME NEW t
  PROVE  Alone(t)' <=> /\ StoresApart(t)' /\ EventsApart(t)' /\ OutboxApart(t)'
                       /\ WorkApart(t)' /\ CommandsApart(t)'
  BY DEF Alone, StoresApart, EventsApart, OutboxApart, WorkApart, CommandsApart

(* What concerns other transactions leaves t alone. *)
LEMMA BlocksApart ==
  ASSUME TypeOK, NEW t \in Transactions, Alone(t)
  PROVE  /\ \A m : m.id # t /\ Publish(m) /\ offsets' = offsets
              => EventsApart(t)' /\ CommandsApart(t)'
         /\ \A c \in Coordinators : \A ms :
              (\A m \in ms : m.id # t) /\ PublishLater(c, ms) => OutboxApart(t)'
         /\ \A w \in Workers : \A a :
              (a \in Running => a.message.id # t) /\ work' = [work EXCEPT ![w] = a]
                => WorkApart(t)'
<1> USE AloneParts
<1>1. \A m : m.id # t /\ Publish(m) /\ offsets' = offsets
              => EventsApart(t)' /\ CommandsApart(t)'
  BY DEF Publish, EventsApart, CommandsApart, TypeOK
<1>2. \A c \in Coordinators : \A ms :
        (\A m \in ms : m.id # t) /\ PublishLater(c, ms) => OutboxApart(t)'
  BY DEF PublishLater, OutboxApart, TypeOK
<1>3. \A w \in Workers : \A a :
        (a \in Running => a.message.id # t) /\ work' = [work EXCEPT ![w] = a]
          => WorkApart(t)'
  BY DEF WorkApart, IsBusy, Id, TypeOK, WorkOK, Workers
<1>4. QED BY <1>1, <1>2, <1>3

(* So does a worker that is busy with another transaction. *)
LEMMA WorkerApart ==
  ASSUME TypeOK, NEW t \in Transactions, Alone(t),
         NEW w \in Workers, IsBusy(w), Id(w) # t
  PROVE  /\ Finish(w) => WorkApart(t)'
         /\ \A point \in Points : Goto(w, point) => WorkApart(t)'
         /\ \A tx, point : StoreThen(w, work[w].message, tx, point) => WorkApart(t)'
<1>1. Finished(w) \notin Running
  BY PointsOnlyRunning DEF Finished
<1>2. Finish(w) => WorkApart(t)'
  BY <1>1, BlocksApart DEF Finish
<1>3. ASSUME NEW point \in Points, Goto(w, point) PROVE WorkApart(t)'
  <2>1. [work[w] EXCEPT !.pc = point].message.id # t
    BY DEF Id, IsBusy, Running
  <2>2. work' = [work EXCEPT ![w] = [work[w] EXCEPT !.pc = point]]
    BY <1>3 DEF Goto
  <2>3. QED BY <2>1, <2>2, BlocksApart
<1>4. ASSUME NEW tx, NEW point, StoreThen(w, work[w].message, tx, point)
      PROVE  WorkApart(t)'
  <2> DEFINE a == [pc |-> "store", message |-> work[w].message, tx |-> tx, then |-> point]
  <2>1. a.message.id # t
    BY DEF Id
  <2>2. work' = [work EXCEPT ![w] = a]
    BY <1>4 DEF StoreThen
  <2> HIDE DEF a
  <2>3. QED BY <2>1, <2>2, BlocksApart
<1>5. QED BY <1>2, <1>3, <1>4

-----------------------------------------------------------------------------
(* Workers, handlers and faults that concern other transactions *)

LEMMA ContinueApart ==
  ASSUME TypeOK, NEW t \in Transactions, Alone(t),
         NEW w \in Workers, Id(w) # t, Continue(w)
  PROVE  Alone(t)'
<1> USE AloneParts, AlonePartsNext
<1>1. IsBusy(w) /\ ServiceOf(w) \in Coordinators /\ Id(w) \in Transactions
  <2>1. IsBusy(w)
    BY DEF Continue, StoreTransactionState, ProgressTransaction, PublishStep,
      CompleteTransaction, PublishCompleted, SendUserNotification, StartCompensation,
      CompensateSteps, PublishCompensated
  <2>2. QED BY <2>1, WorkerType
<1>2. \A topic, i : StepMessage(topic, Id(w), i).id # t /\ Msg(topic, Id(w)).id # t
  BY DEF StepMessage, Msg
<1>3. CASE StoreTransactionState(w)
  <2>1. StoresApart(t)'
    BY <1>1, <1>3 DEF StoreTransactionState, StoresApart, TypeOK
  <2>2. WorkApart(t)'
    BY <1>1, <1>3, WorkerApart, WorkerType DEF StoreTransactionState
  <2>3. QED
    BY <1>3, <2>1, <2>2 DEF StoreTransactionState, EventsApart, OutboxApart, CommandsApart
<1>4. CASE ProgressTransaction(w) \/ CompleteTransaction(w)
  <2>1. WorkApart(t)'
    BY <1>1, <1>4, WorkerApart DEF ProgressTransaction, CompleteTransaction, Points
  <2>2. QED
    BY <1>4, <2>1
    DEF ProgressTransaction, CompleteTransaction, StoresApart, EventsApart, OutboxApart,
      CommandsApart
<1>5. CASE \/ PublishStep(w) \/ PublishCompleted(w) \/ PublishCompensated(w)
           \/ SendUserNotification(w) \/ StartCompensation(w)
  <2>1. WorkApart(t)'
    BY <1>1, <1>5, WorkerApart
    DEF PublishStep, PublishCompleted, PublishCompensated, SendUserNotification,
      StartCompensation, Points
  <2>2. EventsApart(t)' /\ CommandsApart(t)'
    <3>1. /\ offsets' = offsets
          /\ \/ \E m : m.id # t /\ Publish(m)
             \/ UNCHANGED <<events, commands>>
      BY <1>2, <1>5
      DEF PublishStep, PublishCompleted, PublishCompensated, SendUserNotification,
        StartCompensation
    <3>2. QED BY <3>1, BlocksApart DEF EventsApart, CommandsApart
  <2>3. StoresApart(t)' /\ OutboxApart(t)'
    BY <1>5
    DEF PublishStep, PublishCompleted, PublishCompensated, SendUserNotification,
      StartCompensation, StoresApart, OutboxApart
  <2>4. QED BY <2>1, <2>2, <2>3
<1>6. CASE CompensateSteps(w)
  <2>1. WorkApart(t)'
    BY <1>1, <1>6, WorkerApart DEF CompensateSteps, Points
  <2>2. OutboxApart(t)'
    <3>1. \/ UNCHANGED outbox
          \/ \E ms : (\A m \in ms : m.id # t) /\ PublishLater(ServiceOf(w), ms)
      BY <1>2, <1>6 DEF CompensateSteps
    <3>2. QED BY <1>1, <3>1, BlocksApart DEF OutboxApart
  <2>3. QED
    BY <1>6, <2>1, <2>2 DEF CompensateSteps, StoresApart, EventsApart, CommandsApart
<1>7. QED BY <1>3, <1>4, <1>5, <1>6 DEF Continue

LEMMA HandleApart ==
  ASSUME TypeOK, NEW t \in Transactions, Alone(t),
         NEW c \in Coordinators, NEW e \in events[c], Handle(c, e)
  PROVE  Alone(t)'
<1> USE AloneParts, AlonePartsNext
<1>1. e.id # t /\ c \in Workers
  BY DEF EventsApart, Workers
<1>2. Deliver(c, e) /\ UNCHANGED <<store, commands, offsets, outbox>>
  BY DEF Handle, HandleStepCompleted, HandleStepFailed, HandleTimeout,
    HandleCompensationStart, HandleCompensationCompleted, HandleCompleted
<1>3. EventsApart(t)'
  BY <1>2 DEF Deliver, EventsApart, TypeOK
<1>4. WorkApart(t)'
  <2>1. UNCHANGED work \/ \E tx, point : StoreThen(c, e, tx, point)
    BY DEF Handle, HandleStepCompleted, HandleStepFailed, HandleTimeout,
      HandleCompensationStart, HandleCompensationCompleted, HandleCompleted
  <2>2. ASSUME NEW tx, NEW point, StoreThen(c, e, tx, point)
        PROVE  WorkApart(t)'
    <3> DEFINE a == [pc |-> "store", message |-> e, tx |-> tx, then |-> point]
    <3>1. a.message.id # t
      BY <1>1
    <3>2. work' = [work EXCEPT ![c] = a]
      BY <2>2 DEF StoreThen
    <3> HIDE DEF a
    <3>3. QED BY <1>1, <3>1, <3>2, BlocksApart
  <2>3. QED BY <2>1, <2>2 DEF WorkApart, IsBusy, Id
<1>5. QED BY <1>2, <1>3, <1>4 DEF StoresApart, OutboxApart, CommandsApart

LEMMA RestartApart ==
  ASSUME TypeOK, NEW t \in Transactions, Alone(t), NEW c \in Coordinators, Restart(c)
  PROVE  Alone(t)'
<1> USE AloneParts, AlonePartsNext
<1>1. EventsApart(t)'
  BY DEF Restart, EventsApart, WorkApart, Id, TypeOK
<1>2. WorkApart(t)'
  BY CoordinatorsAssumption, PointsOnlyRunning DEF Restart, WorkApart, IsBusy, Id, Workers
<1>3. CommandsApart(t)'
  BY OffsetsType DEF Restart, CommandsApart
<1>4. QED
  BY <1>1, <1>2, <1>3 DEF Restart, StoresApart, OutboxApart, TypeOK

LEMMA OtherApart ==
  ASSUME TypeOK, NEW t \in Transactions, Alone(t), NEW c \in Coordinators
  PROVE  /\ \A u \in Transactions :
              CheckTimeout(c, u) \/ CheckerFails(c, u) \/ Expire(c, u) => Alone(t)'
         /\ Crash(c) \/ Rebalance(c) => Alone(t)'
         /\ \A m \in outbox[c] : Flush(c, m) => Alone(t)'
         /\ \A w \in Workers : PublishFails(w) \/ StoreFails(w) \/ ReadFails(w) => Alone(t)'
         /\ \A e \in events[c] : FirstReadFails(c, e) => Alone(t)'
<1> USE AloneParts, AlonePartsNext
<1>1. ASSUME NEW u \in Transactions, CheckTimeout(c, u) PROVE Alone(t)'
  <2>1. u # t
    BY <1>1 DEF CheckTimeout, StoresApart
  <2>2. OutboxApart(t)'
    <3>1. \A m \in {Msg("TIMEOUT", u)} : m.id # t
      BY <2>1 DEF Msg, StepMessage
    <3>2. QED BY <1>1, <3>1, BlocksApart DEF CheckTimeout
  <2>3. QED
    BY <1>1, <2>2
    DEF CheckTimeout, StoresApart, EventsApart, WorkApart, IsBusy, Id, CommandsApart
<1>2. ASSUME NEW u \in Transactions, Expire(c, u) PROVE Alone(t)'
  <2>1. StoresApart(t)'
    BY <1>2 DEF Expire, StoresApart, Missing, Minimal, TypeOK
  <2>2. QED
    BY <1>2, <2>1
    DEF Expire, EventsApart, OutboxApart, WorkApart, IsBusy, Id, CommandsApart
<1>3. ASSUME NEW m \in outbox[c], Flush(c, m) PROVE Alone(t)'
  <2>1. m.id # t
    BY DEF OutboxApart
  <2>2. EventsApart(t)' /\ CommandsApart(t)'
    BY <1>3, <2>1, BlocksApart DEF Flush
  <2>3. OutboxApart(t)'
    BY <1>3 DEF Flush, OutboxApart, TypeOK
  <2>4. QED BY <1>3, <2>2, <2>3 DEF Flush, StoresApart, WorkApart, IsBusy, Id
<1>4. ASSUME NEW w \in Workers, PublishFails(w) \/ StoreFails(w) PROVE Alone(t)'
  <2>1. \A v \in Workers : work'[v] \in {work[v], Idle, Ended}
    BY <1>4 DEF PublishFails, StoreFails, TypeOK, WorkOK
  <2>2. WorkApart(t)'
    BY <2>1, PointsOnlyRunning DEF WorkApart, IsBusy, Id, Workers
  <2>3. QED
    BY <1>4, <2>2
    DEF PublishFails, StoreFails, StoresApart, EventsApart, OutboxApart, CommandsApart
<1>5. ASSUME NEW w \in Workers, ReadFails(w) PROVE Alone(t)'
  <2>1. WorkApart(t)'
    <3>1. CASE Goto(w, "startCompensation")
      <4>1. IsBusy(w) /\ "startCompensation" \in Points
        BY <1>5 DEF ReadFails, Points
      <4>2. CASE Id(w) # t
        BY <3>1, <4>1, <4>2, WorkerApart
      <4>3. CASE Id(w) = t
        <5>1. w \notin Coordinators
          BY <4>1, <4>3 DEF WorkApart
        <5>2. \A c2 \in Coordinators : work'[c2] = work[c2]
          BY <3>1, <5>1 DEF Goto, TypeOK, WorkOK, Workers
        <5>3. QED BY <5>2 DEF WorkApart, IsBusy, Id
      <4>4. QED BY <4>2, <4>3
    <3>2. CASE work' = [work EXCEPT ![w] = IF w \in Transactions THEN Ended ELSE Idle]
      <4>1. \A v \in Workers : work'[v] \in {work[v], Idle, Ended}
        BY <3>2 DEF TypeOK, WorkOK
      <4>2. QED BY <4>1, PointsOnlyRunning DEF WorkApart, IsBusy, Id, Workers
    <3>3. QED BY <1>5, <3>1, <3>2 DEF ReadFails
  <2>2. QED
    BY <1>5, <2>1 DEF ReadFails, StoresApart, EventsApart, OutboxApart, CommandsApart
<1>6. ASSUME NEW e \in events[c], FirstReadFails(c, e) PROVE Alone(t)'
  <2>1. EventsApart(t)'
    BY <1>6 DEF FirstReadFails, EventsApart, TypeOK
  <2>2. QED
    BY <1>6, <2>1
    DEF FirstReadFails, StoresApart, OutboxApart, WorkApart, IsBusy, Id, CommandsApart
<1>7. ASSUME Rebalance(c) PROVE Alone(t)'
  <2>1. CommandsApart(t)'
    BY <1>7, OffsetsType DEF Rebalance, CommandsApart
  <2>2. QED
    BY <1>7, <2>1
    DEF Rebalance, StoresApart, EventsApart, OutboxApart, WorkApart, IsBusy, Id
<1>8. QED BY <1>1, <1>2, <1>3, <1>4, <1>5, <1>6, <1>7, RestartApart DEF CheckerFails, Crash

LEMMA ParticipantApart ==
  ASSUME TypeOK, NEW t \in Transactions, Alone(t),
         NEW u \in Transactions, NEW i \in StepIndex,
         \/ PerformStep(i, u) \/ RejectStep(i, u)
         \/ ReportFailure(i, u) \/ TakeCompensation(i, u)
  PROVE  Alone(t)'
<1> USE AloneParts, AlonePartsNext
<1>1. \A topic : StepMessage(topic, u, i).id = u
  BY DEF StepMessage
<1>2. u # t /\ commands' \cup offsets'.late \subseteq commands \cup offsets.late
  <2>1. CASE PerformStep(i, u) \/ RejectStep(i, u) \/ TakeCompensation(i, u)
    <3>1. PICK m : m.id = u /\ TakeCommand(m)
      BY <1>1, <2>1 DEF PerformStep, RejectStep, TakeCompensation
    <3>2. QED BY <3>1, OffsetsType DEF TakeCommand, CommandsApart
  <2>2. CASE ReportFailure(i, u)
    BY <1>1, <2>2 DEF ReportFailure, CommandsApart
  <2>3. QED BY <2>1, <2>2
<1>3. OutboxApart(t)'
  <2>1. \/ UNCHANGED outbox
        \/ \E topic : PublishLater(Host[i], {StepMessage(topic, u, i)})
    BY DEF PerformStep, RejectStep, ReportFailure, TakeCompensation
  <2>2. Host[i] \in Coordinators
    BY StepsAssumption
  <2>3. ASSUME NEW topic, PublishLater(Host[i], {StepMessage(topic, u, i)})
        PROVE  OutboxApart(t)'
    <3>1. \A m \in {StepMessage(topic, u, i)} : m.id # t
      BY <1>1, <1>2
    <3>2. QED BY <2>2, <2>3, <3>1, BlocksApart
  <2>4. QED BY <2>1, <2>3 DEF OutboxApart
<1>4. UNCHANGED <<store, events, work>>
  BY DEF PerformStep, RejectStep, ReportFailure, TakeCompensation
<1>5. QED
  BY <1>2, <1>3, <1>4 DEF StoresApart, EventsApart, WorkApart, IsBusy, Id, CommandsApart

LEMMA RequestApart ==
  ASSUME TypeOK, NEW t \in Transactions, Alone(t), NEW u \in Transactions
  PROVE  /\ BeginRequest(u) \/ StartTransaction(u) => Alone(t)'
         /\ u # t /\ EndRequest(u) => Alone(t)'
<1> USE AloneParts, AlonePartsNext
<1>1. BeginRequest(u) \/ StartTransaction(u) \/ EndRequest(u) => WorkApart(t)'
  BY CoordinatorsAssumption
  DEF BeginRequest, StartTransaction, StoreThen, EndRequest, WorkApart, IsBusy, Id, Workers,
    TypeOK, WorkOK
<1>2. u # t /\ EndRequest(u) => OutboxApart(t)'
  <2>1. Msg("USER_NOTIFICATION", u).id = u
    BY DEF Msg, StepMessage
  <2>2. QED BY <2>1, BlocksApart, CoordinatorsAssumption DEF EndRequest
<1>3. QED
  BY <1>1, <1>2
  DEF BeginRequest, StartTransaction, EndRequest, StoresApart, EventsApart, OutboxApart,
    CommandsApart

-----------------------------------------------------------------------------
(* The request's own steps *)

LEMMA NotEarly == ~ Early(Returned) /\ ~ Early(Ended) /\ Early(Idle) /\ Early(Called)
  BY PointsOnlyRunning DEF Early, Returned, Ended, Idle, Called

LEMMA OwnMessage ==
  ASSUME TypeOK, NEW t \in Transactions, IsBusy(t)
  PROVE  Id(t) = t /\ ServiceOf(t) = Starter
<1>1. t \in Workers /\ t \notin Coordinators
  BY CoordinatorsAssumption DEF Workers
<1>2. Id(t) = t
  <2>1. Handles(t, work[t].message)
    BY <1>1, WorkerType
  <2>2. work[t].message = Msg("CREATE", t)
    BY <1>1, <2>1 DEF Handles
  <2>3. QED BY <2>2 DEF Id, Msg, StepMessage
<1>3. QED BY <1>1, <1>2 DEF ServiceOf

LEMMA ContinueRequest ==
  ASSUME TypeOK, RequestsComeFirst, NEW t \in Transactions, Continue(t)
  PROVE  AtWork(work'[t]) /\ (Early(work'[t]) => Alone(t)')
<1>1. IsBusy(t) /\ t \in Workers /\ t \notin Coordinators
  BY CoordinatorsAssumption
  DEF Continue, StoreTransactionState, ProgressTransaction, PublishStep,
    CompleteTransaction, PublishCompleted, SendUserNotification, StartCompensation,
    CompensateSteps, PublishCompensated, Workers
<1>2. Id(t) = t /\ ServiceOf(t) = Starter
  BY <1>1, OwnMessage
<1>3. AtWork(work[t]) /\ (Early(work[t]) => Alone(t))
  BY DEF RequestsComeFirst
<1>4. Finish(t) => work'[t] = Returned
  BY <1>1 DEF Finish, Finished, TypeOK, WorkOK
<1>5. \A point \in Points : Goto(t, point) => work'[t] = [work[t] EXCEPT !.pc = point]
  BY <1>1 DEF Goto, TypeOK, WorkOK
<1>6. ASSUME Finish(t) PROVE AtWork(work'[t]) /\ ~ Early(work'[t])
  BY <1>4, <1>6, NotEarly, PointsOnlyRunning DEF AtWork
<1>7. \A c \in Coordinators :
        (\E a : work' = [work EXCEPT ![t] = a]) => work'[c] = work[c]
  BY <1>1 DEF TypeOK, WorkOK, Workers
<1>8. CASE StoreTransactionState(t)
  <2>1. /\ work[t].pc = "store" /\ work[t] \in Running
        /\ store' = [store EXCEPT ![Starter][t] = work[t].tx]
    BY <1>1, <1>2, <1>8 DEF StoreTransactionState, At, IsBusy
  <2>2. \/ work[t].then \in {"publishStep", "publishCompleted"}
        \/ work[t].then = "progress" /\ work[t].tx.status = "STARTED"
    BY <1>3, <2>1 DEF AtWork
  <2>3. work' = [work EXCEPT ![t] = [work[t] EXCEPT !.pc = work[t].then]]
    BY <1>8, <2>2 DEF StoreTransactionState, Goto
  <2>4. work'[t].pc = work[t].then
    BY <1>1, <2>1, <2>3 DEF TypeOK, WorkOK, Running
  <2>5. AtWork(work'[t])
    BY <2>2, <2>4 DEF AtWork
  <2>6. CASE work[t].then = "progress"
    <3>1. Early(work[t])
      BY <2>1 DEF Early, Publishing
    <3>2. Alone(t)
      BY <1>3, <3>1
    <3>3. work[t].tx.status = "STARTED"
      BY <2>2, <2>6
    <3>4. StoresApart(t)'
      BY <2>1, <3>2, <3>3, AloneParts DEF StoresApart, TypeOK
    <3>5. WorkApart(t)'
      BY <1>7, <2>3, <3>2, AloneParts DEF WorkApart, IsBusy, Id
    <3>6. QED
      BY <1>8, <2>5, <3>2, <3>4, <3>5, AloneParts, AlonePartsNext
      DEF StoreTransactionState, EventsApart, OutboxApart, CommandsApart
  <2>7. CASE work[t].then # "progress"
    <3>1. Publishing(work'[t]) /\ work'[t] \notin {Idle, Called}
      BY <2>2, <2>4, <2>7 DEF Publishing, Idle, Called
    <3>2. QED BY <2>5, <3>1 DEF Early
  <2>8. QED BY <2>6, <2>7
<1>9. CASE ProgressTransaction(t) \/ CompleteTransaction(t)
  <2>1. Early(work[t])
    BY <1>1, <1>9 DEF ProgressTransaction, CompleteTransaction, At, IsBusy, Early, Publishing
  <2>2. Alone(t)'
    <3>1. \E a : work' = [work EXCEPT ![t] = a]
      BY <1>9 DEF ProgressTransaction, CompleteTransaction, Finish, Goto, StoreThen
    <3>2. WorkApart(t)'
      BY <1>3, <1>7, <2>1, <3>1, AloneParts DEF WorkApart, IsBusy, Id
    <3>3. QED
      BY <1>3, <1>9, <2>1, <3>2, AloneParts, AlonePartsNext
      DEF ProgressTransaction, CompleteTransaction, StoresApart, EventsApart, OutboxApart,
        CommandsApart
  <2>3. \/ Finish(t)
        \/ Goto(t, "complete")
        \/ \E tx : StoreThen(t, work[t].message, tx, "publishStep")
        \/ \E tx : StoreThen(t, work[t].message, tx, "publishCompleted")
    BY <1>9 DEF ProgressTransaction, CompleteTransaction
  <2>4. AtWork(work'[t])
    <3>1. CASE Goto(t, "complete")
      <4>1. work'[t].pc = "complete"
        BY <1>1, <1>5, <3>1 DEF Points, IsBusy, Running
      <4>2. QED BY <4>1 DEF AtWork
    <3>2. ASSUME NEW tx, NEW point \in {"publishStep", "publishCompleted"},
                 StoreThen(t, work[t].message, tx, point)
          PROVE  AtWork(work'[t])
      <4>1. work'[t].pc = "store" /\ work'[t].then = point
        BY <1>1, <3>2 DEF StoreThen, TypeOK, WorkOK
      <4>2. QED BY <4>1 DEF AtWork
    <3>3. QED BY <1>6, <2>3, <3>1, <3>2
  <2>5. QED BY <2>2, <2>4
<1>10. CASE PublishStep(t) \/ PublishCompleted(t)
  BY <1>6, <1>10 DEF PublishStep, PublishCompleted
<1>11. CASE \/ SendUserNotification(t) \/ StartCompensation(t)
            \/ CompensateSteps(t) \/ PublishCompensated(t)
  BY <1>1, <1>3, <1>11
  DEF SendUserNotification, StartCompensation, CompensateSteps, PublishCompensated, At,
    IsBusy, AtWork
<1>12. QED BY <1>8, <1>9, <1>10, <1>11 DEF Continue

LEMMA OtherWork ==
  ASSUME TypeOK, NEW t \in Transactions
  PROVE  /\ \A c \in Coordinators : \A e : Handle(c, e) => work'[t] = work[t]
         /\ \A w \in Workers \ {t} : Continue(w) => work'[t] = work[t]
         /\ \A c \in Coordinators : Restart(c) => work'[t] \in {work[t], Ended}
         /\ \A w \in Workers :
              PublishFails(w) \/ StoreFails(w) => work'[t] \in {work[t], Ended}
         /\ \A w \in Workers :
              ReadFails(w) => work'[t] \in {work[t], Ended} \/ (w = t /\ At(t, "notify"))
         /\ \A u \in Transactions : EndRequest(u) => work'[t] \in {work[t], Ended}
         /\ \A u \in Transactions \ {t} :
              BeginRequest(u) \/ StartTransaction(u) => work'[t] = work[t]
<1>1. t \in Workers /\ t \notin Coordinators
  BY CoordinatorsAssumption DEF Workers
<1>2. \A w \in Workers \ {t} : (\E a : work' = [work EXCEPT ![w] = a]) => work'[t] = work[t]
  BY <1>1 DEF TypeOK, WorkOK
<1>3. ASSUME NEW c \in Coordinators, NEW e, Handle(c, e) PROVE work'[t] = work[t]
  BY <1>1, <1>2, <1>3
  DEF Handle, HandleStepCompleted, HandleStepFailed, HandleTimeout,
    HandleCompensationStart, HandleCompensationCompleted, HandleCompleted, StoreThen, Workers
<1>4. ASSUME NEW w \in Workers \ {t}, Continue(w) PROVE work'[t] = work[t]
  BY <1>2, <1>4
  DEF Continue, StoreTransactionState, ProgressTransaction, PublishStep,
    CompleteTransaction, PublishCompleted, SendUserNotification, StartCompensation,
    CompensateSteps, PublishCompensated, Finish, Goto, StoreThen
<1>5. \A c \in Coordinators : Restart(c) => work'[t] \in {work[t], Ended}
  BY <1>1 DEF Restart
<1>6. \A w \in Workers : PublishFails(w) \/ StoreFails(w) => work'[t] \in {work[t], Ended}
  BY <1>1 DEF PublishFails, StoreFails, TypeOK, WorkOK
<1>7. \A u \in Transactions : EndRequest(u) => work'[t] \in {work[t], Ended}
  BY <1>1 DEF EndRequest, TypeOK, WorkOK
<1>8. \A u \in Transactions \ {t} :
        BeginRequest(u) \/ StartTransaction(u) => work'[t] = work[t]
  BY <1>1, <1>2 DEF BeginRequest, StartTransaction, StoreThen, Workers
<1>9. \A w \in Workers :
        ReadFails(w) => work'[t] \in {work[t], Ended} \/ (w = t /\ At(t, "notify"))
  BY <1>1 DEF ReadFails, Goto, TypeOK, WorkOK
<1>10. QED BY <1>3, <1>4, <1>5, <1>6, <1>7, <1>8, <1>9

LEMMA RequestFirst ==
  ASSUME TypeOK, RequestsComeFirst, NEW t \in Transactions, NEW u \in Transactions,
         BeginRequest(u) \/ StartTransaction(u) \/ EndRequest(u)
  PROVE  AtWork(work'[t]) /\ (Early(work'[t]) => Alone(t)')
<1>1. AtWork(work[t]) /\ (Early(work[t]) => Alone(t)) /\ t \in Workers
  BY DEF RequestsComeFirst, Workers
<1>2. CASE u # t \/ EndRequest(u)
  <2>1. work'[t] = work[t] \/ (work'[t] = Ended /\ u = t)
    BY <1>1, <1>2 DEF BeginRequest, StartTransaction, StoreThen, EndRequest, TypeOK, WorkOK
  <2>2. u # t /\ Alone(t) => Alone(t)'
    BY RequestApart
  <2>3. u = t => ~ Early(work'[t])
    BY <1>1, <1>2, NotEarly DEF EndRequest, TypeOK, WorkOK
  <2>4. QED BY <1>1, <2>1, <2>2, <2>3, NotEarly, PointsOnlyRunning DEF AtWork
<1>3. CASE u = t /\ (BeginRequest(t) \/ StartTransaction(t))
  <2>1. Alone(t)
    BY <1>1, <1>3, NotEarly DEF BeginRequest, StartTransaction
  <2>2. Alone(t)'
    BY <1>3, <2>1, RequestApart
  <2>3. AtWork(work'[t])
    <3>1. CASE BeginRequest(t)
      BY <1>1, <3>1, PointsOnlyRunning DEF BeginRequest, AtWork, TypeOK, WorkOK
    <3>2. CASE StartTransaction(t)
      <4>1. /\ work'[t].pc = "store" /\ work'[t].then = "progress"
            /\ work'[t].tx.status = "STARTED"
        BY <1>1, <3>2 DEF StartTransaction, StoreThen, TypeOK, WorkOK
      <4>2. QED BY <4>1 DEF AtWork
    <3>3. QED BY <1>3, <3>1, <3>2
  <2>4. QED BY <2>2, <2>3
<1>4. QED BY <1>2, <1>3

LEMMA NextFirst == TypeOK /\ RequestsComeFirst /\ [Next]_vars => RequestsComeFirst'
<1> SUFFICES ASSUME TypeOK, RequestsComeFirst, [Next]_vars, NEW t \in Transactions
             PROVE  AtWork(work'[t]) /\ (Early(work'[t]) => Alone(t)')
  BY DEF RequestsComeFirst
<1>1. ASSUME work'[t] \in {work[t], Ended}, Alone(t) => Alone(t)'
      PROVE  AtWork(work'[t]) /\ (Early(work'[t]) => Alone(t)')
  BY <1>1, NotEarly, PointsOnlyRunning DEF RequestsComeFirst, AtWork
<1>2. CASE CoordinatorStep
  <2>1. ASSUME NEW c \in Coordinators, NEW e \in events[c], Handle(c, e)
        PROVE  work'[t] = work[t] /\ (Alone(t) => Alone(t)')
    BY <2>1, OtherWork, HandleApart
  <2>2. ASSUME NEW w \in Workers \ {t}, Continue(w)
        PROVE  work'[t] = work[t] /\ (Alone(t) => Alone(t)')
    <3>1. work'[t] = work[t]
      BY <2>2, OtherWork
    <3>2. IsBusy(w)
      BY <2>2
      DEF Continue, StoreTransactionState, ProgressTransaction, PublishStep,
        CompleteTransaction, PublishCompleted, SendUserNotification, StartCompensation,
        CompensateSteps, PublishCompensated
    <3>3. Alone(t) => Id(w) # t
      BY <2>2, <3>2, OwnMessage DEF Alone, Workers
    <3>4. QED BY <2>2, <3>1, <3>3, ContinueApart
  <2>3. ASSUME NEW c \in Coordinators, NEW m \in outbox[c], Flush(c, m)
        PROVE  work'[t] = work[t] /\ (Alone(t) => Alone(t)')
    BY <2>3, OtherApart DEF Flush
  <2>4. ASSUME NEW c \in Coordinators, NEW u \in Transactions,
               CheckTimeout(c, u) \/ CheckerFails(c, u)
        PROVE  work'[t] \in {work[t], Ended} /\ (Alone(t) => Alone(t)')
    BY <2>4, OtherWork, OtherApart DEF CheckTimeout, CheckerFails
  <2>5. QED BY <1>1, <1>2, <2>1, <2>2, <2>3, <2>4, ContinueRequest DEF CoordinatorStep
<1>3. CASE FaultStep
  <2>1. ASSUME NEW c \in Coordinators, Crash(c) \/ Rebalance(c)
        PROVE  work'[t] \in {work[t], Ended} /\ (Alone(t) => Alone(t)')
    BY <2>1, OtherWork, OtherApart DEF Crash, Rebalance
  <2>2. ASSUME NEW w \in Workers, PublishFails(w) \/ StoreFails(w)
        PROVE  work'[t] \in {work[t], Ended} /\ (Alone(t) => Alone(t)')
    BY <2>2, OtherWork, OtherApart, CoordinatorsAssumption
  <2>3. ASSUME NEW c \in Coordinators, NEW u \in Transactions, Expire(c, u)
        PROVE  work'[t] \in {work[t], Ended} /\ (Alone(t) => Alone(t)')
    BY <2>3, OtherApart DEF Expire
  <2>4. ASSUME NEW w \in Workers, ReadFails(w)
        PROVE  work'[t] \in {work[t], Ended} /\ (Alone(t) => Alone(t)')
    <3>1. ~ (w = t /\ At(t, "notify"))
      BY <2>4 DEF RequestsComeFirst, AtWork, At, ReadFails, IsBusy
    <3>2. QED BY <2>4, <3>1, OtherWork, OtherApart, CoordinatorsAssumption
  <2>5. ASSUME NEW c \in Coordinators, NEW e \in events[c], FirstReadFails(c, e)
        PROVE  work'[t] = work[t] /\ (Alone(t) => Alone(t)')
    BY <2>5, OtherApart DEF FirstReadFails
  <2>6. QED BY <1>1, <1>3, <2>1, <2>2, <2>3, <2>4, <2>5 DEF FaultStep
<1>4. CASE ParticipantStep
  <2>1. work' = work
    BY <1>4 DEF ParticipantStep, PerformStep, RejectStep, ReportFailure, TakeCompensation
  <2>2. Alone(t) => Alone(t)'
    <3> SUFFICES ASSUME Alone(t) PROVE Alone(t)'
      OBVIOUS
    <3>1. PICK i \in StepIndex, u \in Transactions :
            \/ PerformStep(i, u)
            \/ RejectStep(i, u)
            \/ ReportFailure(i, u)
            \/ TakeCompensation(i, u)
      BY <1>4 DEF ParticipantStep
    <3>2. QED BY <3>1, ParticipantApart
  <2>3. QED BY <1>1, <2>1, <2>2
<1>5. CASE RequestStep
  BY <1>5, RequestFirst DEF RequestStep
<1>6. CASE UNCHANGED vars
  BY <1>6 DEF vars, RequestsComeFirst, Alone, IsBusy, Id
<1>7. QED BY <1>2, <1>3, <1>4, <1>5, <1>6 DEF Next

(* Until a request has stored the transaction it starts and comes to        *)
(* publish the first step, no message and no consumer is about it.          *)
THEOREM RequestsFirst == Spec => []RequestsComeFirst
<1>1. Init => RequestsComeFirst
  BY PointsOnlyRunning, CoordinatorsAssumption
  DEF Init, RequestsComeFirst, AtWork, Alone, IsBusy, Missing, Minimal, Workers
<1>2. QED BY <1>1, TypeCorrect, NextFirst, PTL DEF Spec

(* A request and the consumer of its process never both hold a copy of one  *)
(* transaction they are about to store, for any services and faults.        *)
THEOREM SingleWriters == Spec => []SingleWriter
<1>1. TypeOK /\ RequestsComeFirst => SingleWriter
  <2> SUFFICES ASSUME TypeOK, RequestsComeFirst, NEW v \in Workers, NEW w \in Workers,
                      Storing(v), Storing(w), v # w,
                      ServiceOf(v) = ServiceOf(w), Id(v) = Id(w)
               PROVE  FALSE
    BY DEF SingleWriter
  <2>1. IsBusy(v) /\ IsBusy(w)
    BY DEF Storing
  <2>2. \A t \in Transactions : Storing(t) => Alone(t) /\ Id(t) = t
    <3> SUFFICES ASSUME NEW t \in Transactions, Storing(t) PROVE Alone(t) /\ Id(t) = t
      OBVIOUS
    <3>1. IsBusy(t) /\ Early(work[t])
      BY DEF Storing, At, IsBusy, Early, Publishing
    <3>2. QED BY <3>1, OwnMessage DEF RequestsComeFirst
  <2>3. v \in Transactions \/ w \in Transactions
    BY DEF ServiceOf, Workers
  <2>4. CASE v \in Transactions
    <3>1. w \in Transactions => FALSE
      BY <2>2, <2>4
    <3>2. QED BY <2>1, <2>2, <2>4, <3>1 DEF Alone, Workers
  <2>5. CASE w \in Transactions
    <3>1. v \in Transactions => FALSE
      BY <2>2, <2>5
    <3>2. QED BY <2>1, <2>2, <2>5, <3>1 DEF Alone, Workers
  <2>6. QED BY <2>3, <2>4, <2>5
<1>2. QED BY <1>1, RequestsFirst, TypeCorrect, PTL

-----------------------------------------------------------------------------
(* Faults are counted *)

(* Only a fault adds to the count of faults, and each only to its own. *)
LEMMA FaultsAreSpent ==
  ASSUME [Next]_vars
  PROVE  used' = used \/ \E f \in Faults : Spend(f)
<1>1. ASSUME NEW c \in Coordinators, NEW e \in events[c], Handle(c, e)
      PROVE  used' = used \/ \E f \in Faults : Spend(f)
  BY <1>1
  DEF Handle, HandleStepCompleted, HandleStepFailed, HandleTimeout, HandleCompensationStart,
    HandleCompensationCompleted, HandleCompleted, Deliver, Faults
<1>2. ASSUME NEW w \in Workers, Continue(w)
      PROVE  used' = used
  BY <1>2
  DEF Continue, StoreTransactionState, ProgressTransaction, PublishStep, CompleteTransaction,
    PublishCompleted, SendUserNotification, StartCompensation, CompensateSteps,
    PublishCompensated
<1>3. CASE CoordinatorStep
  BY <1>1, <1>2, <1>3 DEF CoordinatorStep, Flush, CheckTimeout, CheckerFails, Faults
<1>4. CASE FaultStep
  BY <1>4
  DEF FaultStep, Crash, Rebalance, PublishFails, StoreFails, ReadFails, FirstReadFails, Expire,
    Faults
<1>5. CASE ParticipantStep
  BY <1>5
  DEF ParticipantStep, PerformStep, RejectStep, ReportFailure, TakeCompensation, TakeCommand,
    Faults
<1>6. CASE RequestStep \/ UNCHANGED vars
  BY <1>6 DEF RequestStep, BeginRequest, StartTransaction, EndRequest, vars
<1>7. QED BY <1>3, <1>4, <1>5, <1>6 DEF Next

(* Faults are counted, and no count ever falls. *)
LEMMA FaultsCount ==
  ASSUME TypeOK, [Next]_vars
  PROVE  /\ \A f \in Faults : used[f] <= used'[f]
         /\ \A f \in Faults : used[f] \in Nat /\ (Spend(f) => used'[f] > 0)
<1>1. \A f \in Faults : used[f] \in Nat
  BY DEF TypeOK
<1>2. \A f \in Faults : Spend(f) => used' = [used EXCEPT ![f] = @ + 1]
  BY DEF Spend
<1>3. \A f, g \in Faults : Spend(f) => used'[g] = used[g] + IF g = f THEN 1 ELSE 0
  BY <1>2 DEF TypeOK
<1>4. QED BY <1>1, <1>3, FaultsAreSpent

-----------------------------------------------------------------------------
(* The user is told before a compensation is announced *)

LEMMA PublishAnnounced ==
  ASSUME TypeOK, MessagesAnnounced, NEW m, Announced(m), Publish(m)
  PROVE  /\ notified \subseteq notified'
         /\ outbox' = outbox => MessagesAnnounced'
  BY DEF Publish, MessagesAnnounced, Announced, TypeOK

(* A worker that does not move is only disturbed by a store. *)
LEMMA StillAnnounced ==
  ASSUME TypeOK, NEW v \in Workers, WorkerAnnounced(v), notified \subseteq notified',
         work'[v] = work[v] \/ work'[v] \notin Running,
         work'[v] = work[v] /\ IsBusy(v) /\ At(v, "startCompensation")
           => StoredFor(v)' \in {StoredFor(v), Missing}
  PROVE  WorkerAnnounced(v)'
  BY DEF WorkerAnnounced, IsBusy, Announced, At, Id, Missing, Minimal

(* While a consumer is about to announce a compensation nobody stores the  *)
(* transaction.                                                            *)
LEMMA AnnouncerIsAlone ==
  ASSUME TypeOK, RequestsComeFirst, NEW v \in Workers, NEW w \in Workers,
         IsBusy(v), At(v, "startCompensation"), StoreTransactionState(w)
  PROVE  StoredFor(v)' = StoredFor(v)
<1>1. v \in Coordinators /\ ServiceOf(v) = v
  <2>1. v \notin Transactions
    BY DEF RequestsComeFirst, AtWork, IsBusy, At
  <2>2. QED BY <2>1 DEF Workers, ServiceOf
<1>2. Storing(w) /\ Id(v)' = Id(v)
  <2>1. Storing(w) /\ v # w
    BY DEF StoreTransactionState, Storing, At
  <2>2. work'[v] = work[v]
    BY <2>1 DEF StoreTransactionState, Finish, Goto, TypeOK, WorkOK
  <2>3. QED BY <2>1, <2>2 DEF Id
<1>3. ServiceOf(w) # v \/ Id(w) # Id(v)
  <2>1. CASE w \in Coordinators
    BY <1>2, <2>1 DEF ServiceOf, Storing, At
  <2>2. CASE w \in Transactions
    <3>1. IsBusy(w) /\ Early(work[w])
      BY <1>2 DEF Storing, At, IsBusy, Early, Publishing
    <3>2. Alone(w) /\ Id(w) = w
      BY <2>2, <3>1, OwnMessage DEF RequestsComeFirst
    <3>3. QED BY <1>1, <3>2 DEF Alone
  <2>3. QED BY <2>1, <2>2 DEF Workers
<1>4. store' = [store EXCEPT ![ServiceOf(w)][Id(w)] = work[w].tx]
  BY DEF StoreTransactionState
<1>5. ServiceOf(v)' = ServiceOf(v)
  BY DEF ServiceOf
<1>6. QED BY <1>1, <1>2, <1>3, <1>4, <1>5, WorkerType DEF StoredFor, TypeOK

LEMMA MovedAnnounced ==
  ASSUME TypeOK, NEW w \in Workers, Announced(work[w].message), IsBusy(w),
         work[w].then # "startCompensation", notified \subseteq notified'
  PROVE  /\ Finish(w) => WorkerAnnounced(w)'
         /\ \A point \in Points \ {"startCompensation"} : Goto(w, point) => WorkerAnnounced(w)'
         /\ \A tx, point : point # "startCompensation" /\ StoreThen(w, work[w].message, tx, point)
              => WorkerAnnounced(w)'
<1>1. Finish(w) => WorkerAnnounced(w)'
  BY PointsOnlyRunning DEF Finish, Finished, WorkerAnnounced, IsBusy, TypeOK, WorkOK
<1>2. ASSUME NEW point \in Points \ {"startCompensation"}, Goto(w, point)
      PROVE  WorkerAnnounced(w)'
  <2>1. work'[w] = [work[w] EXCEPT !.pc = point]
    BY <1>2 DEF Goto, TypeOK, WorkOK
  <2>2. /\ work'[w].pc = point /\ work'[w].message = work[w].message
        /\ work'[w].then = work[w].then
    BY <2>1 DEF IsBusy, Running
  <2>3. QED BY <1>2, <2>2 DEF WorkerAnnounced, At, Announced
<1>3. ASSUME NEW tx, NEW point, point # "startCompensation",
             StoreThen(w, work[w].message, tx, point)
      PROVE  WorkerAnnounced(w)'
  <2>1. work'[w] = [pc |-> "store", message |-> work[w].message, tx |-> tx, then |-> point]
    BY <1>3 DEF StoreThen, TypeOK, WorkOK
  <2>2. QED BY <1>3, <2>1 DEF WorkerAnnounced, At, Announced
<1>4. QED BY <1>1, <1>2, <1>3

LEMMA ContinueAnnounced ==
  ASSUME TypeOK, RequestsComeFirst, EverythingAnnounced, NEW w \in Workers, Continue(w)
  PROVE  EverythingAnnounced'
<1>1. /\ IsBusy(w) /\ work[w].then \in Points \ {"store", "startCompensation"}
      /\ Announced(work[w].message)
  <2>1. IsBusy(w)
    BY DEF Continue, StoreTransactionState, ProgressTransaction, PublishStep,
      CompleteTransaction, PublishCompleted, SendUserNotification, StartCompensation,
      CompensateSteps, PublishCompensated
  <2>2. QED BY <2>1, WorkerType DEF EverythingAnnounced, WorkerAnnounced
<1>2. \A v \in Workers \ {w} : work'[v] = work[v]
  BY DEF Continue, StoreTransactionState, ProgressTransaction, PublishStep,
    CompleteTransaction, PublishCompleted, SendUserNotification, StartCompensation,
    CompensateSteps, PublishCompensated, Finish, Goto, StoreThen, TypeOK, WorkOK
<1>3. ASSUME notified \subseteq notified', MessagesAnnounced', WorkerAnnounced(w)',
             store' = store \/ StoreTransactionState(w)
      PROVE  EverythingAnnounced'
  <2> SUFFICES ASSUME NEW v \in Workers \ {w} PROVE WorkerAnnounced(v)'
    BY <1>3 DEF EverythingAnnounced
  <2>1. store' = store => StoredFor(v)' = StoredFor(v)
    BY <1>2 DEF StoredFor, ServiceOf, Id
  <2>2. QED
    BY <1>2, <1>3, <2>1, StillAnnounced, AnnouncerIsAlone DEF EverythingAnnounced
<1>4. CASE StoreTransactionState(w)
  <2>1. WorkerAnnounced(w)'
    BY <1>1, <1>4, MovedAnnounced DEF StoreTransactionState
  <2>2. QED
    BY <1>3, <1>4, <2>1
    DEF StoreTransactionState, EverythingAnnounced, MessagesAnnounced, Announced
<1>5. CASE ProgressTransaction(w) \/ CompleteTransaction(w)
  <2>1. WorkerAnnounced(w)'
    BY <1>1, <1>5, MovedAnnounced DEF ProgressTransaction, CompleteTransaction, Points
  <2>2. QED
    BY <1>3, <1>5, <2>1
    DEF ProgressTransaction, CompleteTransaction, EverythingAnnounced, MessagesAnnounced,
      Announced
<1>6. CASE PublishStep(w) \/ PublishCompleted(w) \/ PublishCompensated(w)
  <2>1. PICK m : m.topic # "COMPENSATION_START" /\ Publish(m)
    BY <1>6 DEF PublishStep, PublishCompleted, PublishCompensated, Msg, StepMessage
  <2>2. UNCHANGED <<store, outbox>> /\ Finish(w)
    BY <1>6 DEF PublishStep, PublishCompleted, PublishCompensated
  <2>3. notified \subseteq notified' /\ MessagesAnnounced'
    BY <2>1, <2>2, PublishAnnounced DEF EverythingAnnounced, Announced
  <2>4. QED BY <1>1, <1>3, <2>2, <2>3, MovedAnnounced
<1>7. CASE SendUserNotification(w)
  <2>1. \/ StoredFor(w) = Missing /\ UNCHANGED <<events, commands, notified>>
        \/ Publish(Msg("USER_NOTIFICATION", Id(w)))
    BY <1>7 DEF SendUserNotification
  <2>2. UNCHANGED <<store, outbox>> /\ Goto(w, "startCompensation")
    BY <1>7 DEF SendUserNotification
  <2>3. Announced(Msg("USER_NOTIFICATION", Id(w)))
    BY DEF Announced, Msg, StepMessage
  <2>4. notified \subseteq notified' /\ MessagesAnnounced'
    BY <2>1, <2>2, <2>3, PublishAnnounced
    DEF EverythingAnnounced, MessagesAnnounced, Announced
  <2>5. Id(w) \in notified' \/ StoredFor(w) = Missing
    BY <2>1 DEF Publish, Msg, StepMessage
  <2>6. /\ work'[w].message = work[w].message
        /\ work'[w].then = work[w].then
    BY <1>1, <2>2 DEF Goto, TypeOK, WorkOK, IsBusy, Running
  <2>7. Id(w)' = Id(w) /\ StoredFor(w)' = StoredFor(w)
    BY <2>2, <2>6 DEF Id, StoredFor, ServiceOf
  <2>8. WorkerAnnounced(w)'
    BY <1>1, <2>4, <2>5, <2>6, <2>7 DEF WorkerAnnounced, Announced, Missing, Minimal
  <2>9. QED BY <1>3, <2>2, <2>4, <2>8
<1>8. CASE StartCompensation(w)
  <2>1. UNCHANGED <<store, outbox>> /\ Finish(w)
    BY <1>8 DEF StartCompensation
  <2>2. CASE HasCurrentStep(StoredFor(w))
    <3>1. Publish(Msg("COMPENSATION_START", Id(w)))
      BY <1>8, <2>2 DEF StartCompensation
    <3>2. StoredFor(w) # Missing
      BY <2>2 DEF HasCurrentStep, Missing, Minimal, NoSteps
    <3>3. Id(w) \in notified
      BY <1>1, <1>8, <3>2 DEF StartCompensation, EverythingAnnounced, WorkerAnnounced
    <3>4. notified' = notified
      BY <3>1 DEF Publish, Msg, StepMessage
    <3>5. Announced(Msg("COMPENSATION_START", Id(w)))
      BY <3>3 DEF Announced, Msg, StepMessage
    <3>6. MessagesAnnounced'
      BY <2>1, <3>1, <3>5, PublishAnnounced DEF EverythingAnnounced
    <3>7. QED BY <1>1, <1>3, <2>1, <3>4, <3>6, MovedAnnounced
  <2>3. CASE ~ HasCurrentStep(StoredFor(w))
    <3>1. UNCHANGED <<events, commands, notified>>
      BY <1>8, <2>3 DEF StartCompensation
    <3>2. QED
      BY <1>1, <1>3, <2>1, <3>1, MovedAnnounced
      DEF EverythingAnnounced, MessagesAnnounced, Announced
  <2>4. QED BY <2>2, <2>3
<1>9. CASE CompensateSteps(w)
  <2>1. WorkerAnnounced(w)'
    BY <1>1, <1>9, MovedAnnounced DEF CompensateSteps, Points
  <2>2. \A c \in Coordinators : \A m \in outbox'[c] : m \in outbox[c] \/ m.topic = "COMPENSATE"
    BY <1>9, WorkerType DEF CompensateSteps, PublishLater, StepMessage, TypeOK
  <2>3. QED
    BY <1>3, <1>9, <2>1, <2>2
    DEF CompensateSteps, EverythingAnnounced, MessagesAnnounced, Announced
<1>10. QED BY <1>4, <1>5, <1>6, <1>7, <1>8, <1>9 DEF Continue

LEMMA HandleAnnounced ==
  ASSUME TypeOK, EverythingAnnounced, NEW c \in Coordinators, NEW e \in events[c], Handle(c, e)
  PROVE  EverythingAnnounced'
<1>1. Deliver(c, e) /\ UNCHANGED <<store, outbox, notified>>
  BY DEF Handle, HandleStepCompleted, HandleStepFailed, HandleTimeout,
    HandleCompensationStart, HandleCompensationCompleted, HandleCompleted
<1>2. MessagesAnnounced'
  BY <1>1 DEF EverythingAnnounced, MessagesAnnounced, Announced, Deliver, TypeOK
<1>3. c \in Workers /\ Announced(e)
  BY DEF Workers, EverythingAnnounced, MessagesAnnounced
<1>4. \/ UNCHANGED work
      \/ \E tx, point : point # "startCompensation" /\ StoreThen(c, e, tx, point)
  BY DEF Handle, HandleStepCompleted, HandleStepFailed, HandleTimeout,
    HandleCompensationStart, HandleCompensationCompleted, HandleCompleted
<1>5. \A v \in Workers : work'[v] = work[v] => WorkerAnnounced(v)'
  <2> SUFFICES ASSUME NEW v \in Workers, work'[v] = work[v] PROVE WorkerAnnounced(v)'
    OBVIOUS
  <2>1. StoredFor(v)' = StoredFor(v)
    BY <1>1 DEF StoredFor, ServiceOf, Id
  <2>2. QED BY <1>1, <2>1, StillAnnounced DEF EverythingAnnounced
<1>6. ASSUME NEW tx, NEW point, point # "startCompensation", StoreThen(c, e, tx, point)
      PROVE  \A v \in Workers : WorkerAnnounced(v)'
  <2>1. work'[c] = [pc |-> "store", message |-> e, tx |-> tx, then |-> point]
    BY <1>3, <1>6 DEF StoreThen, TypeOK, WorkOK
  <2>2. WorkerAnnounced(c)'
    BY <1>1, <1>3, <1>6, <2>1 DEF WorkerAnnounced, Announced, At
  <2>3. \A v \in Workers \ {c} : work'[v] = work[v]
    BY <1>6 DEF StoreThen, TypeOK, WorkOK
  <2>4. QED BY <1>5, <2>2, <2>3
<1>7. QED BY <1>2, <1>4, <1>5, <1>6 DEF EverythingAnnounced

LEMMA RestartAnnounced ==
  ASSUME TypeOK, EverythingAnnounced, NEW c \in Coordinators, Restart(c)
  PROVE  EverythingAnnounced'
<1>1. c \in Workers
  BY DEF Workers
<1>2. MessagesAnnounced'
  BY <1>1 DEF Restart, EverythingAnnounced, MessagesAnnounced, WorkerAnnounced, Announced, TypeOK
<1>3. ASSUME NEW v \in Workers PROVE WorkerAnnounced(v)'
  <2>1. work'[v] = work[v] \/ work'[v] \notin Running
    BY PointsOnlyRunning DEF Restart
  <2>2. work'[v] = work[v] => StoredFor(v)' = StoredFor(v)
    BY DEF Restart, StoredFor, ServiceOf, Id
  <2>3. QED BY <2>1, <2>2, StillAnnounced DEF Restart, EverythingAnnounced
<1>4. QED BY <1>2, <1>3 DEF EverythingAnnounced

(* Steps that add only other messages and end work, or begin a request.    *)
LEMMA OthersAnnounced ==
  ASSUME TypeOK, EverythingAnnounced, notified' = notified,
         \A c \in Coordinators :
           \A m \in events'[c] \cup outbox'[c] :
             m \in events[c] \cup outbox[c] \/ m.topic # "COMPENSATION_START",
         \A c \in Coordinators, t \in Transactions : store'[c][t] \in {store[c][t], Missing},
         \A v \in Workers :
           \/ work'[v] = work[v]
           \/ work'[v] \notin Running
           \/ /\ work'[v].message.topic = "CREATE"
              /\ work'[v].then = "progress"
              /\ work'[v].pc = "store"
  PROVE  EverythingAnnounced'
<1>1. MessagesAnnounced'
  BY DEF EverythingAnnounced, MessagesAnnounced, Announced
<1>2. ASSUME NEW v \in Workers PROVE WorkerAnnounced(v)'
  <2>1. CASE work'[v] = work[v] \/ work'[v] \notin Running
    <3>1. ASSUME work'[v] = work[v], IsBusy(v)
          PROVE  StoredFor(v)' \in {StoredFor(v), Missing}
      BY <3>1, WorkerType DEF StoredFor, ServiceOf, Id
    <3>2. QED BY <2>1, <3>1, StillAnnounced DEF EverythingAnnounced
  <2>2. CASE /\ work'[v].message.topic = "CREATE"
             /\ work'[v].then = "progress"
             /\ work'[v].pc = "store"
    BY <2>2 DEF WorkerAnnounced, Announced, At
  <2>3. QED BY <2>1, <2>2
<1>3. QED BY <1>1, <1>2 DEF EverythingAnnounced

AnnouncedUnlessUnread == used["readError"] = 0 => EverythingAnnounced

LEMMA NextAnnounced ==
  TypeOK /\ RequestsComeFirst /\ AnnouncedUnlessUnread /\ [Next]_vars
    => AnnouncedUnlessUnread'
<1> SUFFICES ASSUME TypeOK, RequestsComeFirst, AnnouncedUnlessUnread, [Next]_vars,
                    used'["readError"] = 0
             PROVE  EverythingAnnounced'
  BY DEF AnnouncedUnlessUnread
<1>0. EverythingAnnounced /\ ~ Spend("readError")
  <2>1. "readError" \in Faults
    BY DEF Faults
  <2>2. used["readError"] = 0 /\ ~ Spend("readError")
    BY <2>1, FaultsCount
  <2>3. QED BY <2>2 DEF AnnouncedUnlessUnread
<1> USE <1>0
<1>1. CASE CoordinatorStep
  <2>1. ASSUME NEW c \in Coordinators, NEW m \in outbox[c], Flush(c, m)
        PROVE  EverythingAnnounced'
    <3>1. Announced(m)
      BY DEF EverythingAnnounced, MessagesAnnounced
    <3>2. notified \subseteq notified' /\ MessagesAnnounced'
      BY <2>1, <3>1 DEF Flush, Publish, EverythingAnnounced, MessagesAnnounced, Announced, TypeOK
    <3>3. \A v \in Workers : WorkerAnnounced(v)'
      BY <2>1, <3>2, StillAnnounced DEF Flush, EverythingAnnounced, StoredFor, ServiceOf, Id
    <3>4. QED BY <3>2, <3>3 DEF EverythingAnnounced
  <2>2. ASSUME NEW c \in Coordinators, NEW t \in Transactions, CheckTimeout(c, t)
        PROVE  EverythingAnnounced'
    <3>1. Msg("TIMEOUT", t).topic # "COMPENSATION_START"
      BY DEF Msg, StepMessage
    <3>2. QED BY <2>2, <3>1, OthersAnnounced DEF CheckTimeout, PublishLater, TypeOK
  <2>3. QED
    BY <1>1, <2>1, <2>2, HandleAnnounced, ContinueAnnounced, RestartAnnounced
    DEF CoordinatorStep, CheckerFails
<1>2. CASE FaultStep
  <2>1. ASSUME NEW w \in Workers, PublishFails(w) \/ StoreFails(w)
        PROVE  EverythingAnnounced'
    <3>1. \A v \in Workers : work'[v] = work[v] \/ work'[v] \notin Running
      BY <2>1, PointsOnlyRunning DEF PublishFails, StoreFails, TypeOK, WorkOK
    <3>2. UNCHANGED <<store, events, outbox, notified>>
      BY <2>1 DEF PublishFails, StoreFails
    <3>3. QED BY <3>1, <3>2, OthersAnnounced
  <2>2. ASSUME NEW c \in Coordinators, NEW t \in Transactions, Expire(c, t)
        PROVE  EverythingAnnounced'
    BY <2>2, OthersAnnounced DEF Expire, TypeOK
  <2>3. ASSUME NEW c \in Coordinators, Rebalance(c)
        PROVE  EverythingAnnounced'
    BY <2>3, OthersAnnounced DEF Rebalance
  <2>4. QED
    BY <1>2, <2>1, <2>2, <2>3, RestartAnnounced
    DEF FaultStep, Crash, ReadFails, FirstReadFails
<1>3. CASE ParticipantStep
  <2> PICK i \in StepIndex, t \in Transactions :
        \/ PerformStep(i, t)
        \/ RejectStep(i, t)
        \/ ReportFailure(i, t)
        \/ TakeCompensation(i, t)
    BY <1>3 DEF ParticipantStep
  <2>1. UNCHANGED <<store, events, work, notified>>
    BY DEF PerformStep, RejectStep, ReportFailure, TakeCompensation
  <2>2. \A c \in Coordinators : \A m \in outbox'[c] :
          m \in outbox[c] \/ m.topic # "COMPENSATION_START"
    BY DEF PerformStep, RejectStep, ReportFailure, TakeCompensation, PublishLater,
      StepMessage, TypeOK
  <2>3. QED BY <2>1, <2>2, OthersAnnounced
<1>4. CASE RequestStep
  <2> PICK t \in Transactions : BeginRequest(t) \/ StartTransaction(t) \/ EndRequest(t)
    BY <1>4 DEF RequestStep
  <2>1. UNCHANGED <<store, events, notified>>
    BY DEF BeginRequest, StartTransaction, EndRequest
  <2>2. \A c \in Coordinators : \A m \in outbox'[c] :
          m \in outbox[c] \/ m.topic # "COMPENSATION_START"
    BY DEF BeginRequest, StartTransaction, EndRequest, PublishLater, Msg, StepMessage, TypeOK
  <2>3. \A v \in Workers :
          \/ work'[v] = work[v]
          \/ work'[v] \notin Running
          \/ /\ work'[v].message.topic = "CREATE"
             /\ work'[v].then = "progress"
             /\ work'[v].pc = "store"
    BY PointsOnlyRunning
    DEF BeginRequest, StartTransaction, EndRequest, StoreThen, Msg, StepMessage, TypeOK, WorkOK
  <2>4. QED BY <2>1, <2>2, <2>3, OthersAnnounced
<1>5. CASE UNCHANGED vars
  BY <1>5, OthersAnnounced DEF vars
<1>6. QED BY <1>1, <1>2, <1>3, <1>4, <1>5 DEF Next

(* Every COMPENSATION_START follows a notification of the user, for any    *)
(* services and for all faults but a read that Redis rejects, which        *)
(* sendUserNotification swallows: a crash, a redelivery, a rejected store  *)
(* or publication, an expired transaction never lets one go unannounced.   *)
THEOREM CompensationsAnnounced == Spec => []CompensationAnnounced
<1>1. Init => AnnouncedUnlessUnread
  BY PointsOnlyRunning
  DEF Init, AnnouncedUnlessUnread, EverythingAnnounced, MessagesAnnounced, WorkerAnnounced,
    IsBusy
<1>2. AnnouncedUnlessUnread => CompensationAnnounced
  BY DEF AnnouncedUnlessUnread, EverythingAnnounced, MessagesAnnounced, Announced,
    CompensationAnnounced
<1>3. QED BY <1>1, <1>2, TypeCorrect, RequestsFirst, NextAnnounced, PTL DEF Spec

-----------------------------------------------------------------------------
(* What a request has stored is found *)

NoneIsMissing == \A c \in Coordinators, t \in Transactions :
                   store[c][t].status = "NONE" => ~ HasCurrentStep(store[c][t])
StoresExist   == \A w \in Workers : Storing(w) => work[w].tx.status # "NONE"
RequestsKept  == NothingIsLost =>
                   \A t \in Transactions : HasStored(t) => store[Starter][t].status # "NONE"

LEMMA StoredParts == RequestsAreStored <=> NoneIsMissing /\ StoresExist /\ RequestsKept
  BY DEF RequestsAreStored, NoneIsMissing, StoresExist, RequestsKept

LEMMA StoredPartsNext ==
  RequestsAreStored' <=> NoneIsMissing' /\ StoresExist' /\ RequestsKept'
  BY DEF RequestsAreStored, NoneIsMissing, StoresExist, RequestsKept

(* Spending on a fault never brings back what was lost. *)
LEMMA LossStays ==
  ASSUME TypeOK
  PROVE  /\ \A f \in Faults : Spend(f) /\ NothingIsLost' => NothingIsLost
         /\ \A f \in {"crash", "checkerRace", "storeError", "expiry"} :
              Spend(f) => ~ NothingIsLost'
<1>1. \A f \in Faults : used[f] \in Nat
  BY DEF TypeOK
<1>2. ASSUME NEW f \in Faults, Spend(f)
      PROVE  \A g \in Faults : used'[g] = IF g = f THEN used[g] + 1 ELSE used[g]
  BY <1>2 DEF Spend, TypeOK
<1>3. {"crash", "checkerRace", "storeError", "expiry"} \subseteq Faults
  BY DEF Faults
<1>4. QED BY <1>1, <1>2, <1>3 DEF NothingIsLost

(* Steps that store nothing, and end no request that has stored nothing.   *)
LEMMA KeptByOthers ==
  ASSUME TypeOK, RequestsAreStored, store' = store, NothingIsLost' => NothingIsLost,
         \A w \in Workers : Storing(w)' => work'[w] = work[w] \/ work'[w].tx.status # "NONE",
         NothingIsLost' => \A t \in Transactions : HasStored(t)' => HasStored(t)
  PROVE  RequestsAreStored'
<1> USE StoredParts, StoredPartsNext
<1>1. NoneIsMissing'
  BY DEF NoneIsMissing
<1>2. StoresExist'
  BY DEF StoresExist, Storing, IsBusy, At
<1>3. RequestsKept'
  BY DEF RequestsKept
<1>4. QED BY <1>1, <1>2, <1>3

LEMMA ContinueStored ==
  ASSUME TypeOK, RequestsAreStored, NEW w \in Workers, Continue(w)
  PROVE  RequestsAreStored'
<1> USE StoredParts, StoredPartsNext
<1>1. /\ IsBusy(w) /\ work[w].then # "store"
      /\ ServiceOf(w) \in Coordinators /\ Id(w) \in Transactions
  <2>1. IsBusy(w)
    BY DEF Continue, StoreTransactionState, ProgressTransaction, PublishStep,
      CompleteTransaction, PublishCompleted, SendUserNotification, StartCompensation,
      CompensateSteps, PublishCompensated
  <2>2. QED BY <2>1, WorkerType
<1>2. \A v \in Workers \ {w} : work'[v] = work[v]
  BY DEF Continue, StoreTransactionState, ProgressTransaction, PublishStep,
    CompleteTransaction, PublishCompleted, SendUserNotification, StartCompensation,
    CompensateSteps, PublishCompensated, Finish, Goto, StoreThen, TypeOK, WorkOK
<1>3. used' = used
  BY DEF Continue, StoreTransactionState, ProgressTransaction, PublishStep,
    CompleteTransaction, PublishCompleted, SendUserNotification, StartCompensation,
    CompensateSteps, PublishCompensated
<1>4. \A t \in Transactions \ {w} : HasStored(t)' <=> HasStored(t)
  BY <1>2 DEF HasStored, IsBusy, At, Workers
<1>5. CASE StoreTransactionState(w)
  <2>1. store' = [store EXCEPT ![ServiceOf(w)][Id(w)] = work[w].tx] /\ Storing(w)
    BY <1>5 DEF StoreTransactionState, Storing
  <2>2. work[w].tx.status # "NONE"
    BY <2>1 DEF StoresExist
  <2>3. \A c \in Coordinators, t \in Transactions :
          store'[c][t] = IF c = ServiceOf(w) /\ t = Id(w) THEN work[w].tx ELSE store[c][t]
    BY <1>1, <2>1 DEF TypeOK
  <2>4. NoneIsMissing'
    BY <2>2, <2>3 DEF NoneIsMissing
  <2>5. ~ Storing(w)'
    <3>1. Finished(w).pc # "store"
      BY DEF Finished, Returned, Idle
    <3>2. Goto(w, work[w].then) => work'[w].pc # "store"
      BY <1>1, <2>1 DEF Goto, TypeOK, WorkOK, Storing, IsBusy, Running
    <3>3. Finish(w) => work'[w].pc # "store"
      BY <3>1 DEF Finish, TypeOK, WorkOK
    <3>4. QED BY <1>5, <3>2, <3>3 DEF StoreTransactionState, Storing, At
  <2>6. StoresExist'
    BY <1>2, <2>5 DEF StoresExist, Storing, IsBusy, At
  <2>7. RequestsKept'
    <3>1. NothingIsLost' => NothingIsLost
      BY <1>3 DEF NothingIsLost
    <3>2. w \in Transactions => Id(w) = w /\ ServiceOf(w) = Starter
      BY <1>1, OwnMessage
    <3>3. \A t \in Transactions :
            store[Starter][t].status # "NONE" => store'[Starter][t].status # "NONE"
      BY <2>2, <2>3, CoordinatorsAssumption
    <3>4. w \in Transactions => store'[Starter][w].status # "NONE"
      BY <2>2, <2>3, <3>2, CoordinatorsAssumption
    <3>5. QED BY <1>4, <3>1, <3>3, <3>4 DEF RequestsKept
  <2>8. QED BY <2>4, <2>6, <2>7
<1>6. CASE ~ StoreTransactionState(w)
  <2>1. store' = store /\ HasStored(w)
    BY <1>1, <1>6
    DEF Continue, ProgressTransaction, PublishStep, CompleteTransaction, PublishCompleted,
      SendUserNotification, StartCompensation, CompensateSteps, PublishCompensated,
      HasStored, At
  <2>2. \/ Finish(w)
        \/ \E point \in Points \ {"store"} : Goto(w, point)
        \/ \E tx, point : tx.status # "NONE" /\ StoreThen(w, work[w].message, tx, point)
    <3>1. \A tx \in Transaction :
            /\ InProgress(tx).status # "NONE" \/ ~ HasCurrentStep(tx)
            /\ [tx EXCEPT !.status = "COMPLETED"].status = "COMPLETED"
            /\ Compensated(tx).status = "COMPENSATED"
      BY DEF InProgress, Compensated, Transaction
    <3>2. StoredFor(w) \in Transaction /\ work[w].tx \in Transaction
      BY <1>1, WorkerType
    <3>3. CASE ProgressTransaction(w)
      BY <3>1, <3>2, <3>3 DEF ProgressTransaction, Points
    <3>4. CASE CompleteTransaction(w)
      BY <3>1, <3>2, <3>4 DEF CompleteTransaction
    <3>5. CASE CompensateSteps(w)
      BY <3>1, <3>2, <3>5 DEF CompensateSteps, Points
    <3>6. CASE SendUserNotification(w)
      BY <3>6 DEF SendUserNotification, Points
    <3>7. QED
      BY <1>6, <3>3, <3>4, <3>5, <3>6
      DEF Continue, PublishStep, PublishCompleted, StartCompensation, PublishCompensated
  <2>3. Storing(w)' => work'[w].tx.status # "NONE"
    <3>1. Finish(w) => ~ Storing(w)'
      BY PointsOnlyRunning
      DEF Finish, Finished, Storing, IsBusy, TypeOK, WorkOK
    <3>2. \A point \in Points \ {"store"} : Goto(w, point) => ~ Storing(w)'
      BY <1>1 DEF Goto, Storing, At, IsBusy, Running, TypeOK, WorkOK
    <3>3. \A tx, point : StoreThen(w, work[w].message, tx, point) => work'[w].tx = tx
      BY DEF StoreThen, TypeOK, WorkOK
    <3>4. QED BY <2>2, <3>1, <3>2, <3>3
  <2>4. NothingIsLost' => NothingIsLost
    BY <1>3 DEF NothingIsLost
  <2>5. QED BY <1>2, <1>4, <2>1, <2>3, <2>4, KeptByOthers
<1>7. QED BY <1>5, <1>6

LEMMA HandleStored ==
  ASSUME TypeOK, RequestsAreStored, NEW c \in Coordinators, NEW e \in events[c], Handle(c, e)
  PROVE  RequestsAreStored'
<1> USE StoredParts, StoredPartsNext
<1>1. Deliver(c, e) /\ store' = store
  BY DEF Handle, HandleStepCompleted, HandleStepFailed, HandleTimeout,
    HandleCompensationStart, HandleCompensationCompleted, HandleCompleted
<1>2. c \in Workers /\ store[c][e.id] \in Transaction /\ e.id \in Transactions
  BY <1>1, DeliverType
<1>3. NothingIsLost' => NothingIsLost
  BY <1>1, LossStays DEF Deliver, NothingIsLost, Faults
<1>4. \/ UNCHANGED work
      \/ \E tx, point : tx.status # "NONE" /\ StoreThen(c, e, tx, point)
  <2>1. \A tx \in Transaction, status \in Status : [tx EXCEPT !.status = status].status = status
    BY DEF Transaction
  <2>2. HasCurrentStep(store[c][e.id]) =>
          /\ store[c][e.id].status # "NONE"
          /\ CompleteCurrentStep(store[c][e.id]).status = store[c][e.id].status
          /\ FailCurrentStep(store[c][e.id]).status = "FAILED"
    BY <1>2 DEF NoneIsMissing, CompleteCurrentStep, FailCurrentStep, Transaction
  <2>3. \A status : Minimal(status).status = status
    BY DEF Minimal
  <2>4. CASE HandleStepCompleted(c, e)
    BY <2>2, <2>4 DEF HandleStepCompleted
  <2>5. CASE HandleStepFailed(c, e)
    BY <2>2, <2>5 DEF HandleStepFailed
  <2>6. CASE HandleTimeout(c, e)
    BY <1>2, <2>1, <2>6 DEF HandleTimeout, Status
  <2>7. CASE HandleCompensationStart(c, e)
    BY <1>2, <2>1, <2>3, <2>7 DEF HandleCompensationStart, Status
  <2>8. CASE HandleCompensationCompleted(c, e)
    BY <1>2, <2>1, <2>8 DEF HandleCompensationCompleted, Status
  <2>9. CASE HandleCompleted(c, e)
    BY <1>2, <2>1, <2>3, <2>9 DEF HandleCompleted, Status
  <2>10. QED BY <2>4, <2>5, <2>6, <2>7, <2>8, <2>9 DEF Handle
<1>5. \A v \in Workers : work'[v] = work[v] \/ v = c
  BY <1>4 DEF StoreThen, TypeOK, WorkOK
<1>6. Storing(c)' => work'[c] = work[c] \/ work'[c].tx.status # "NONE"
  BY <1>2, <1>4 DEF StoreThen, TypeOK, WorkOK
<1>7. \A t \in Transactions : HasStored(t)' => HasStored(t)
  BY <1>5, CoordinatorsAssumption DEF HasStored, IsBusy, At, Workers
<1>8. QED BY <1>1, <1>3, <1>5, <1>6, <1>7, KeptByOthers

LEMMA NextStored == TypeOK /\ RequestsAreStored /\ [Next]_vars => RequestsAreStored'
<1> SUFFICES ASSUME TypeOK, RequestsAreStored, [Next]_vars PROVE RequestsAreStored'
  OBVIOUS
<1>1. \A f \in {"crash", "checkerRace", "storeError", "expiry"} : Spend(f) => ~ NothingIsLost'
  BY LossStays
<1>2. ASSUME NEW c \in Coordinators, Restart(c), ~ NothingIsLost' PROVE RequestsAreStored'
  <2>1. store' = store /\ \A w \in Workers : Storing(w)' => work'[w] = work[w]
    BY <1>2, PointsOnlyRunning DEF Restart, Storing, IsBusy
  <2>2. QED BY <1>2, <2>1, KeptByOthers
<1>3. ASSUME UNCHANGED <<store, work>>, used' = used \/ \E f \in Faults : Spend(f)
      PROVE  RequestsAreStored'
  <2>1. NothingIsLost' => NothingIsLost
    BY <1>3, LossStays DEF NothingIsLost
  <2>2. QED BY <1>3, <2>1, KeptByOthers DEF HasStored, IsBusy, At
<1>4. CASE CoordinatorStep
  BY <1>1, <1>2, <1>3, <1>4, HandleStored, ContinueStored
  DEF CoordinatorStep, CheckerFails, CheckTimeout, Flush
<1>5. CASE FaultStep
  <2>1. ASSUME NEW w \in Workers, PublishFails(w) PROVE RequestsAreStored'
    <3>1. \A v \in Workers : work'[v] = work[v] \/ (v = w /\ work'[v] \in {Idle, Ended})
      BY <2>1 DEF PublishFails, TypeOK, WorkOK
    <3>2. HasStored(w)
      BY <2>1 DEF PublishFails, HasStored, At
    <3>3. \A t \in Transactions : HasStored(t)' => HasStored(t)
      BY <3>1, <3>2 DEF HasStored, IsBusy, At, Workers
    <3>4. NothingIsLost' => NothingIsLost
      BY <2>1, LossStays DEF PublishFails, Faults
    <3>5. QED
      BY <2>1, <3>1, <3>3, <3>4, PointsOnlyRunning, KeptByOthers
      DEF PublishFails, Storing, IsBusy
  <2>2. ASSUME NEW w \in Workers, StoreFails(w) PROVE RequestsAreStored'
    <3>1. \A v \in Workers : work'[v] = work[v] \/ work'[v] \in {Idle, Ended}
      BY <2>2 DEF StoreFails, TypeOK, WorkOK
    <3>2. QED
      BY <1>1, <2>2, <3>1, PointsOnlyRunning, KeptByOthers DEF StoreFails, Storing, IsBusy
  <2>3. ASSUME NEW c \in Coordinators, NEW t \in Transactions, Expire(c, t)
        PROVE  RequestsAreStored'
    <3>1. ~ NothingIsLost' /\ work' = work
      BY <1>1, <2>3 DEF Expire
    <3>2. ~ HasCurrentStep(Missing)
      BY DEF HasCurrentStep, Missing, Minimal, NoSteps
    <3>3. NoneIsMissing'
      BY <2>3, <3>2, StoredParts DEF Expire, NoneIsMissing, TypeOK
    <3>4. QED
      BY <3>1, <3>3, StoredParts, StoredPartsNext
      DEF StoresExist, Storing, IsBusy, At, RequestsKept
  <2>4. ASSUME NEW w \in Workers, ReadFails(w) PROVE RequestsAreStored'
    <3>1. NothingIsLost' => NothingIsLost
      BY <2>4, LossStays DEF ReadFails, Faults
    <3>2. IsBusy(w) /\ ~ At(w, "store") /\ store' = store
      BY <2>4 DEF ReadFails, At
    <3>3. /\ \A v \in Workers \ {w} : work'[v] = work[v]
          /\ ~ Storing(w)'
      <4>1. CASE Goto(w, "startCompensation")
        BY <3>2, <4>1 DEF Goto, Storing, At, IsBusy, Running, TypeOK, WorkOK
      <4>2. CASE work' = [work EXCEPT ![w] = IF w \in Transactions THEN Ended ELSE Idle]
        BY <4>2, PointsOnlyRunning DEF Storing, IsBusy, TypeOK, WorkOK
      <4>3. QED BY <2>4, <4>1, <4>2 DEF ReadFails
    <3>4. \A t \in Transactions : HasStored(t)' => HasStored(t)
      BY <3>2, <3>3 DEF HasStored, IsBusy, At, Workers
    <3>5. QED BY <3>1, <3>2, <3>3, <3>4, KeptByOthers
  <2>5. ASSUME NEW c \in Coordinators, Rebalance(c) PROVE RequestsAreStored'
    BY <1>3, <2>5 DEF Rebalance
  <2>6. ASSUME NEW c \in Coordinators, NEW e \in events[c], FirstReadFails(c, e)
        PROVE  RequestsAreStored'
    BY <1>3, <2>6 DEF FirstReadFails, Faults
  <2>7. QED
    BY <1>1, <1>2, <1>5, <2>1, <2>2, <2>3, <2>4, <2>5, <2>6 DEF FaultStep, Crash
<1>6. CASE ParticipantStep
  BY <1>3, <1>6
  DEF ParticipantStep, PerformStep, RejectStep, ReportFailure, TakeCompensation, TakeCommand,
    Faults
<1>7. CASE RequestStep
  <2> PICK t \in Transactions : BeginRequest(t) \/ StartTransaction(t) \/ EndRequest(t)
    BY <1>7 DEF RequestStep
  <2>1. store' = store /\ (NothingIsLost' => NothingIsLost)
    BY DEF BeginRequest, StartTransaction, EndRequest, NothingIsLost
  <2>2. \A v \in Workers : work'[v] = work[v] \/ v = t
    BY DEF BeginRequest, StartTransaction, EndRequest, StoreThen, TypeOK, WorkOK
  <2>3. Storing(t)' => work'[t].tx.status # "NONE"
    BY PointsOnlyRunning
    DEF BeginRequest, StartTransaction, EndRequest, StoreThen, Storing, IsBusy, TypeOK,
      WorkOK, Workers
  <2>4. HasStored(t)' => HasStored(t)
    <3>1. CASE EndRequest(t)
      BY <3>1 DEF EndRequest, HasStored
    <3>2. CASE BeginRequest(t)
      <4>1. work'[t] = Called
        BY <3>2 DEF BeginRequest, TypeOK, WorkOK, Workers
      <4>2. QED BY <4>1, PointsOnlyRunning DEF HasStored, IsBusy, Called, Returned, Ended
    <3>3. CASE StartTransaction(t)
      <4>1. work'[t].pc = "store" /\ work'[t].then = "progress"
        BY <3>3 DEF StartTransaction, StoreThen, TypeOK, WorkOK, Workers
      <4>2. QED BY <4>1 DEF HasStored, At, Returned, Ended
    <3>4. QED BY <3>1, <3>2, <3>3
  <2>5. \A u \in Transactions : HasStored(u)' => HasStored(u)
    BY <2>2, <2>4 DEF HasStored, IsBusy, At, Workers
  <2>6. QED BY <2>1, <2>2, <2>3, <2>5, KeptByOthers
<1>8. CASE UNCHANGED vars
  BY <1>3, <1>8 DEF vars
<1>9. QED BY <1>4, <1>5, <1>6, <1>7, <1>8 DEF Next

(* From its first store on, the transaction of a request is found in the   *)
(* Redis of its service, whatever is redelivered, rejected or late.        *)
THEOREM RequestsStored == Spec => []RequestsAreStored
<1>1. Init => RequestsAreStored
  BY PointsOnlyRunning, CoordinatorsAssumption
  DEF Init, RequestsAreStored, Storing, IsBusy, HasStored, HasCurrentStep, Missing, Minimal,
    NoSteps, Workers, Idle, Returned, Ended
<1>2. QED BY <1>1, TypeCorrect, NextStored, PTL DEF Spec
=============================================================================
