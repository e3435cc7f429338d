------------------------ MODULE OrderApprovalProofs -------------------------
(* Theorems about the order approval saga, for any orders and any faults.  *)
(* What the number of invoices rests on comes first: the coordinators ask  *)
(* for every step once.                                                    *)
EXTENDS OrderApproval, SagaOutcomeProofs

-----------------------------------------------------------------------------
(* Coordinators ask for every step once *)

(* The steps that participants were asked to execute, with their           *)
(* transaction; a command whose offset is not committed may come back.     *)
Asked == performed \cup {<<m.step, m.id>> :
                           m \in {n \in commands \cup offsets.late : n.topic = "EXECUTE"}}

(* A copy of the transaction stands at, or past, every step asked for. *)
Reached(asked, tx, t) ==
  tx.steps # NoSteps => \A i \in StepIndex : <<i, t>> \in asked => i <= tx.currentStep

(* The current step of a copy, not the first, has yet to be asked for. *)
Unasked(asked, tx, t) ==
  tx.steps # NoSteps => tx.currentStep > 0 /\ <<tx.currentStep, t>> \notin asked

(* A consumer of Starter publishes the step it has just reached, *)
ConsumerAsks(asked, stored, a) ==
  /\ Reached(asked, a.tx, a.message.id)
  /\ Heads(a, "publishStep") => Unasked(asked, a.tx, a.message.id)
  /\ a.pc = "store" /\ a.then = "progress" => Unasked(asked, a.tx, a.message.id)
  /\ a.pc = "progress" => Unasked(asked, stored, a.message.id)
  /\ a.pc = "publishStep" /\ stored.steps # NoSteps => a.tx.currentStep <= stored.currentStep

(* a request the first. *)
RequestAsks(asked, a) ==
  /\ a.tx.currentStep = 0
  /\ a.pc = "publishStep" => <<0, a.message.id>> \notin asked

WorkerAsks(w) ==
  IsBusy(w) =>
    /\ w \in Transactions => RequestAsks(Asked, work[w])
    /\ w = Starter => ConsumerAsks(Asked, StoredFor(w), work[w])
    /\ w \notin Transactions \cup {Starter} => work[w].tx.steps = NoSteps

StoreAsks(c, t) == IF c = Starter THEN Reached(Asked, store[c][t], t)
                                  ELSE store[c][t].steps = NoSteps

NotBegun(t) ==
  /\ store[Starter][t].currentStep = 0
  /\ \A i \in StepIndex : <<i, t>> \notin Asked

StepsAreReached ==
  /\ \A c \in Coordinators, t \in Transactions : StoreAsks(c, t)
  /\ \A w \in Workers : WorkerAsks(w)
  /\ \A c \in Coordinators : \A m \in outbox[c] : m.topic # "EXECUTE"
  /\ \A t \in Transactions : Early(work[t]) => NotBegun(t)

LEMMA FullSteps == ASSUME NEW tx, HasCurrentStep(tx) PROVE tx.steps # NoSteps
BY DEF HasCurrentStep, NoSteps

(* Steps are asked for by PublishStep only. *)
LEMMA AskedFewer ==
  ASSUME performed' = performed,
         \A m \in (commands \cup offsets.late)' :
           m.topic = "EXECUTE" => m \in commands \cup offsets.late
  PROVE  Asked' \subseteq Asked
BY DEF Asked

LEMMA AskedOneMore ==
  ASSUME performed' = performed, offsets' = offsets, NEW t, NEW i,
         Publish(StepMessage("EXECUTE", t, i))
  PROVE  Asked' \subseteq Asked \cup {<<i, t>>}
BY DEF Asked, Publish, StepMessage

LEMMA TakenWasAsked ==
  ASSUME TypeOK, NEW m, TakeCommand(m)
  PROVE  /\ m \in commands
         /\ (commands \cup offsets.late)' \subseteq commands \cup offsets.late
BY DEF TakeCommand, TypeOK

(* Delivered again, a command was asked for before. *)
LEMMA PutBackWasAsked ==
  ASSUME NEW c, PutBack(c)
  PROVE  (commands \cup offsets.late)' \subseteq commands \cup offsets.late
BY DEF PutBack, Uncommitted

LEMMA ExecutedWasAsked ==
  ASSUME TypeOK, NEW t \in Transactions, NEW i \in StepIndex, PerformStep(i, t)
  PROVE  Asked' \subseteq Asked
<1>1. /\ StepMessage("EXECUTE", t, i) \in commands
      /\ (commands \cup offsets.late)' \subseteq commands \cup offsets.late
  BY TakenWasAsked DEF PerformStep
<1>2. <<i, t>> \in Asked
  BY <1>1 DEF Asked, StepMessage
<1>3. QED BY <1>1, <1>2 DEF Asked, PerformStep

(* What holds with more steps asked for holds with fewer. *)
LEMMA FewerAsks ==
  ASSUME NEW asked, NEW fewer, fewer \subseteq asked
  PROVE  /\ \A tx, t : Reached(asked, tx, t) => Reached(fewer, tx, t)
         /\ \A tx, t : Unasked(asked, tx, t) => Unasked(fewer, tx, t)
         /\ \A stored, a : ConsumerAsks(asked, stored, a) => ConsumerAsks(fewer, stored, a)
         /\ \A a : RequestAsks(asked, a) => RequestAsks(fewer, a)
<1>1. \A tx, t : Reached(asked, tx, t) => Reached(fewer, tx, t)
  BY DEF Reached
<1>2. \A tx, t : Unasked(asked, tx, t) => Unasked(fewer, tx, t)
  BY DEF Unasked
<1>3. QED BY <1>1, <1>2 DEF ConsumerAsks, RequestAsks

LEMMA WorkerKinds ==
  /\ \A t \in Transactions : t \in Workers /\ t \notin Coordinators /\ t # Starter
  /\ \A c \in Coordinators : c \in Workers /\ c \notin Transactions /\ ServiceOf(c) = c
BY CoordinatorsAssumption DEF Workers, ServiceOf

(* Steps that store nothing and ask for nothing. *)
LEMMA UndisturbedAsks ==
  ASSUME StepsAreReached, store' = store, Asked' \subseteq Asked,
         \A c \in Coordinators : \A m \in outbox'[c] : m \in outbox[c] \/ m.topic # "EXECUTE",
         \A v \in Workers :
           work'[v] = work[v] \/ work'[v] \notin Running \/ WorkerAsks(v)',
         \A t \in Transactions : Early(work'[t]) => Early(work[t])
  PROVE  StepsAreReached'
<1>1. \A c \in Coordinators, t \in Transactions : StoreAsks(c, t)'
  BY FewerAsks DEF StepsAreReached, StoreAsks
<1>2. ASSUME NEW v \in Workers
      PROVE  WorkerAsks(v)'
  <2>1. CASE work'[v] = work[v]
    <3>1. StoredFor(v)' = StoredFor(v)
      BY <2>1 DEF StoredFor, ServiceOf, Id
    <3>2. WorkerAsks(v)
      BY DEF StepsAreReached
    <3>3. IsBusy(v) /\ v \in Transactions => RequestAsks(Asked', work[v])
      BY <3>2, FewerAsks DEF WorkerAsks
    <3>4. IsBusy(v) /\ v = Starter => ConsumerAsks(Asked', StoredFor(v), work[v])
      BY <3>2, FewerAsks DEF WorkerAsks
    <3>5. QED BY <2>1, <3>1, <3>2, <3>3, <3>4 DEF WorkerAsks, IsBusy
  <2>2. CASE work'[v] \notin Running
    BY <2>2 DEF WorkerAsks, IsBusy
  <2>3. QED BY <2>1, <2>2
<1>3. \A t \in Transactions : Early(work'[t]) => NotBegun(t)'
  BY DEF StepsAreReached, NotBegun
<1>4. QED BY <1>1, <1>2, <1>3 DEF StepsAreReached

(* A worker that goes on to store tx. *)
LEMMA StoringAsks ==
  ASSUME TypeOK, Asked' \subseteq Asked,
         NEW w \in Workers, NEW m, NEW tx, NEW point, StoreThen(w, m, tx, point),
         w \in Transactions => tx.currentStep = 0,
         w = Starter => Reached(Asked, tx, m.id),
         w = Starter /\ point \in {"progress", "publishStep"} => Unasked(Asked, tx, m.id),
         w \notin Transactions \cup {Starter} => tx.steps = NoSteps
  PROVE  WorkerAsks(w)' /\ \A v \in Workers \ {w} : work'[v] = work[v]
<1>1. /\ \A v \in Workers \ {w} : work'[v] = work[v]
      /\ work'[w] = [pc |-> "store", message |-> m, tx |-> tx, then |-> point]
  BY DEF StoreThen, TypeOK, WorkOK
<1>2. /\ work'[w].pc = "store" /\ work'[w].message = m
      /\ work'[w].tx = tx /\ work'[w].then = point
  BY <1>1
<1>3. w \in Transactions => RequestAsks(Asked', work'[w])
  BY <1>2 DEF RequestAsks
<1>4. w = Starter => \A stored : ConsumerAsks(Asked', stored, work'[w])
  BY <1>2, FewerAsks DEF ConsumerAsks, Heads
<1>5. QED BY <1>1, <1>2, <1>3, <1>4, WorkerKinds DEF WorkerAsks

(* A worker that goes on to another point than a store or the first await *)
(* after one.                                                              *)
LEMMA GoingAsks ==
  ASSUME TypeOK, StepsAreReached, Asked' \subseteq Asked,
         NEW w \in Workers, IsBusy(w),
         NEW point \in Points \ {"store", "progress", "publishStep"}, Goto(w, point)
  PROVE  WorkerAsks(w)' /\ \A v \in Workers \ {w} : work'[v] = work[v]
<1>1. /\ \A v \in Workers \ {w} : work'[v] = work[v]
      /\ work'[w] = [work[w] EXCEPT !.pc = point]
  BY DEF Goto, TypeOK, WorkOK
<1>2. /\ work'[w].pc = point /\ work'[w].message = work[w].message
      /\ work'[w].tx = work[w].tx
  BY <1>1 DEF IsBusy, Running
<1>3. WorkerAsks(w)
  BY DEF StepsAreReached
<1>4. w \in Transactions => RequestAsks(Asked', work'[w])
  BY <1>2, <1>3, FewerAsks DEF WorkerAsks, RequestAsks
<1>5. w = Starter => \A stored : ConsumerAsks(Asked', stored, work'[w])
  BY <1>2, <1>3, FewerAsks, WorkerKinds, CoordinatorsAssumption
  DEF WorkerAsks, ConsumerAsks, Heads
<1>6. w \notin Transactions \cup {Starter} => work'[w].tx.steps = NoSteps
  BY <1>2, <1>3 DEF WorkerAsks
<1>7. QED BY <1>1, <1>4, <1>5, <1>6, WorkerKinds DEF WorkerAsks

LEMMA FinishedAsks ==
  ASSUME TypeOK, NEW w \in Workers, Finish(w)
  PROVE  /\ work'[w] \notin Running
         /\ \A v \in Workers \ {w} : work'[v] = work[v]
         /\ w \in Transactions => ~ Early(work'[w])
BY PointsOnlyRunning, NotEarly DEF Finish, Finished, TypeOK, WorkOK

(* A worker's move that neither stores nor asks for a step. *)
LEMMA MovedAsks ==
  ASSUME TypeOK, StepsAreReached, store' = store, Asked' \subseteq Asked,
         NEW w \in Workers, work'[w] \notin Running \/ WorkerAsks(w)',
         \A v \in Workers \ {w} : work'[v] = work[v],
         w \in Transactions /\ Early(work'[w]) => Early(work[w]),
         \A c \in Coordinators : \A m \in outbox'[c] : m \in outbox[c] \/ m.topic # "EXECUTE"
  PROVE  StepsAreReached'
<1>1. \A t \in Transactions : Early(work'[t]) => Early(work[t])
  BY WorkerKinds
<1>2. QED BY <1>1, UndisturbedAsks

(* Whoever stores what a request has is that request, before it publishes. *)
LEMMA StoringRequest ==
  ASSUME TypeOK, RequestsComeFirst, NEW t \in Transactions, Early(work[t]),
         NEW w \in Workers, IsBusy(w), Id(w) = t
  PROVE  w = t
<1>1. Alone(t)
  BY DEF RequestsComeFirst
<1>2. w \in Transactions => w = t
  BY OwnMessage
<1>3. QED BY <1>1, <1>2 DEF Alone, Workers

LEMMA StoreKeepsAsks ==
  ASSUME TypeOK, RequestsComeFirst, StepsAreReached, NEW w \in Workers, StoreTransactionState(w)
  PROVE  StepsAreReached'
<1> DEFINE s == ServiceOf(w)
           t == Id(w)
           tx == work[w].tx
<1>1. /\ IsBusy(w) /\ At(w, "store") /\ s \in Coordinators /\ t \in Transactions
      /\ work[w].then \in Points \ {"store"} /\ work[w].message.id = t
      /\ UNCHANGED <<commands, offsets, outbox, performed>>
  BY WorkerType DEF StoreTransactionState, Id
<1>2. Asked' = Asked
  BY <1>1 DEF Asked
<1>3. WorkerAsks(w)
  BY DEF StepsAreReached
<1>4. w \in Transactions
        => Early(work[w]) /\ t = w /\ s = Starter /\ NotBegun(w) /\ tx.currentStep = 0
  BY <1>1, <1>3, OwnMessage
  DEF IsBusy, At, Early, Publishing, StepsAreReached, WorkerAsks, RequestAsks
<1> HIDE DEF s, t, tx
<1>5. \A c \in Coordinators, u \in Transactions :
        store'[c][u] = IF c = s /\ u = t THEN tx ELSE store[c][u]
  BY <1>1 DEF StoreTransactionState, s, t, tx, TypeOK
<1>6. s = Starter => Reached(Asked, tx, t)
  <2>1. CASE w \in Transactions
    BY <1>4, <2>1 DEF NotBegun, Reached
  <2>2. CASE w \notin Transactions
    BY <1>1, <1>3, <2>2, WorkerKinds DEF WorkerAsks, ConsumerAsks, s, tx, Workers
  <2>3. QED BY <2>1, <2>2
<1>7. ASSUME NEW c \in Coordinators, NEW u \in Transactions
      PROVE  StoreAsks(c, u)'
  <2>1. StoreAsks(c, u)
    BY DEF StepsAreReached
  <2>2. s # Starter => tx.steps = NoSteps
    BY <1>1, <1>3, <1>4, WorkerKinds DEF WorkerAsks, s, tx, Workers
  <2>3. QED BY <1>2, <1>5, <1>6, <2>1, <2>2 DEF StoreAsks
<1>8. ASSUME NEW v \in Workers \ {w}
      PROVE  WorkerAsks(v)'
  <2>1. work'[v] = work[v] /\ WorkerAsks(v)
    BY DEF StoreTransactionState, Finish, Goto, TypeOK, WorkOK, StepsAreReached
  <2>2. ASSUME IsBusy(v), v = Starter
        PROVE  StoredFor(v)' = StoredFor(v)
    <3>1. ServiceOf(v) = Starter /\ Id(v) \in Transactions
      BY <2>2, WorkerKinds, WorkerType, CoordinatorsAssumption
    <3>2. s # Starter \/ t # Id(v)
      <4>1. SUFFICES ASSUME s = Starter
                     PROVE  t # Id(v)
        OBVIOUS
      <4>2. w \in Transactions
        BY <2>2, <4>1, WorkerKinds DEF s, Workers
      <4>3. QED BY <1>4, <2>2, <4>2, WorkerKinds, StoringRequest, CoordinatorsAssumption
    <3>3. ServiceOf(v)' = ServiceOf(v) /\ Id(v)' = Id(v)
      BY <2>1 DEF ServiceOf, Id
    <3>4. QED BY <1>5, <3>1, <3>2, <3>3, CoordinatorsAssumption DEF StoredFor
  <2>3. QED BY <1>2, <2>1, <2>2 DEF WorkerAsks, IsBusy
<1>9. WorkerAsks(w)'
  <2>1. CASE work[w].then = "done"
    BY <2>1, FinishedAsks DEF StoreTransactionState, WorkerAsks, IsBusy
  <2>2. CASE work[w].then # "done"
    <3>1. work'[w] = [work[w] EXCEPT !.pc = work[w].then]
      BY <2>2 DEF StoreTransactionState, Goto, TypeOK, WorkOK
    <3>2. /\ work'[w].pc = work[w].then /\ work'[w].message = work[w].message
          /\ work'[w].tx = work[w].tx
      BY <1>1, <3>1 DEF IsBusy, Running
    <3>3. w \in Transactions => RequestAsks(Asked, work'[w])
      BY <1>1, <1>4, <3>2, StepsAssumption DEF RequestAsks, NotBegun, StepIndex, tx
    <3>4. ASSUME w = Starter
          PROVE  ConsumerAsks(Asked, StoredFor(w)', work'[w])
      <4>1. ConsumerAsks(Asked, StoredFor(w), work[w]) /\ s = Starter
        BY <1>1, <1>3, <3>4, WorkerKinds, CoordinatorsAssumption DEF WorkerAsks, s
      <4>2. StoredFor(w)' = tx
        BY <1>1, <1>5, <3>2, <4>1 DEF StoredFor, ServiceOf, Id, s, t
      <4>3. tx \in Transaction /\ work[w].tx = tx
        BY <1>1, WorkerType DEF tx
      <4>4. QED
        BY <1>1, <3>2, <4>1, <4>2, <4>3 DEF ConsumerAsks, Heads, At, Transaction
    <3>5. QED BY <1>2, <1>3, <1>1, <3>2, <3>3, <3>4 DEF WorkerAsks
  <2>3. QED BY <2>1, <2>2
<1>10. ASSUME NEW u \in Transactions, Early(work'[u])
       PROVE  NotBegun(u)'
  <2>1. Early(work[u])
    <3>1. CASE u = w
      BY <1>4, <3>1
    <3>2. CASE u # w
      BY <1>10, <3>2, WorkerKinds DEF StoreTransactionState, Finish, Goto, TypeOK, WorkOK
    <3>3. QED BY <3>1, <3>2
  <2>2. NotBegun(u)
    BY <2>1 DEF StepsAreReached
  <2>3. t = u => w = u
    BY <1>1, <2>1, StoringRequest DEF t
  <2>4. store'[Starter][u].currentStep = 0
    BY <1>4, <1>5, <2>2, <2>3, CoordinatorsAssumption DEF NotBegun
  <2>5. QED BY <1>2, <2>2, <2>4 DEF NotBegun
<1>11. QED BY <1>1, <1>7, <1>8, <1>9, <1>10 DEF StepsAreReached

(* The step a worker asks for is the one that its transaction has reached. *)
LEMMA PublishKeepsAsks ==
  ASSUME TypeOK, EverythingEarned, RequestsComeFirst, StepsAreReached,
         NEW w \in Workers, PublishStep(w)
  PROVE  /\ StepsAreReached'
         /\ <<work[w].tx.currentStep, Id(w)>> \notin Asked
<1> DEFINE t == Id(w)
           k == work[w].tx.currentStep
<1>1. /\ IsBusy(w) /\ At(w, "publishStep") /\ t \in Transactions /\ work[w].message.id = t
      /\ work[w].tx \in Transaction /\ StoredFor(w) \in Transaction
      /\ Publish(StepMessage("EXECUTE", t, k)) /\ Finish(w)
      /\ UNCHANGED <<store, offsets, outbox, performed>>
  BY WorkerType DEF PublishStep, Id
<1>2. HasCurrentStep(work[w].tx) /\ work[w].tx.steps # NoSteps
  BY <1>1, FullSteps DEF EverythingEarned, Grounded, IsBusy, Heads, At
<1>3. WorkerAsks(w) /\ w \in Transactions \cup {Starter}
  BY <1>1, <1>2 DEF StepsAreReached, WorkerAsks
<1>4. w \in Transactions => t = w /\ k = 0 /\ <<k, t>> \notin Asked
  BY <1>1, <1>3, OwnMessage DEF WorkerAsks, RequestAsks, At
<1>5. w = Starter =>
        /\ k > 0 /\ <<k, t>> \notin Asked
        /\ StoredFor(w).steps # NoSteps => k <= StoredFor(w).currentStep
  BY <1>1, <1>2, <1>3, WorkerKinds, CoordinatorsAssumption
  DEF WorkerAsks, ConsumerAsks, Heads, Unasked, At
<1>6. StoredFor(w) = store[Starter][t] /\ k \in Nat
  BY <1>1, <1>2, <1>3, <1>4, WorkerKinds, OwnMessage, CoordinatorsAssumption, StepsAssumption
  DEF StoredFor, Transaction
<1>7. Asked' \subseteq Asked \cup {<<k, t>>}
  BY <1>1, AskedOneMore
<1> HIDE DEF k, t
<1>8. ASSUME NEW c \in Coordinators, NEW u \in Transactions
      PROVE  StoreAsks(c, u)'
  <2>1. StoreAsks(c, u) /\ store' = store
    BY <1>1 DEF StepsAreReached
  <2>2. ASSUME c = Starter
        PROVE  Reached(Asked', store[c][u], u)
    <3>1. Reached(Asked, store[c][u], u)
      BY <2>1, <2>2 DEF StoreAsks
    <3>2. u = t /\ store[c][u].steps # NoSteps => k <= store[c][u].currentStep
      BY <1>1, <1>3, <1>4, <1>5, <1>6, <2>2 DEF Transaction
    <3>3. QED BY <1>7, <3>1, <3>2 DEF Reached
  <2>3. QED BY <2>1, <2>2 DEF StoreAsks
<1>9. ASSUME NEW v \in Workers \ {w}
      PROVE  WorkerAsks(v)'
  <2>1. work'[v] = work[v] /\ WorkerAsks(v)
    BY <1>1, FinishedAsks DEF StepsAreReached
  <2>2. StoredFor(v)' = StoredFor(v)
    BY <1>1, <2>1 DEF StoredFor, ServiceOf, Id
  <2>3. ASSUME v \in Transactions, IsBusy(v)
        PROVE  RequestAsks(Asked', work[v])
    <3>1. RequestAsks(Asked, work[v]) /\ work[v].message.id = v
      BY <2>1, <2>3, OwnMessage DEF WorkerAsks, Id
    <3>2. <<0, v>> # <<k, t>>
      BY <1>3, <1>4, <1>5
    <3>3. QED BY <1>7, <3>1, <3>2 DEF RequestAsks
  <2>4. ASSUME v = Starter, IsBusy(v)
        PROVE  ConsumerAsks(Asked', StoredFor(v), work[v])
    <3>1. ConsumerAsks(Asked, StoredFor(v), work[v]) /\ k = 0
      BY <1>3, <1>4, <2>1, <2>4 DEF WorkerAsks
    <3>2. work[v].tx \in Transaction
      BY <2>4, WorkerType
    <3>3. \A tx, u : Unasked(Asked, tx, u) => Unasked(Asked', tx, u)
      BY <1>7, <3>1 DEF Unasked
    <3>4. Reached(Asked', work[v].tx, work[v].message.id)
      BY <1>7, <3>1, <3>2, StepsAssumption DEF ConsumerAsks, Reached, Transaction
    <3>5. QED BY <3>1, <3>3, <3>4 DEF ConsumerAsks
  <2>5. QED BY <2>1, <2>2, <2>3, <2>4 DEF WorkerAsks, IsBusy
<1>10. WorkerAsks(w)'
  BY <1>1, FinishedAsks DEF WorkerAsks, IsBusy
<1>11. ASSUME NEW u \in Transactions, Early(work'[u])
       PROVE  NotBegun(u)'
  <2>1. u # w /\ Early(work[u])
    BY <1>1, <1>11, WorkerKinds, FinishedAsks
  <2>2. NotBegun(u) /\ u # t
    BY <1>1, <2>1, StoringRequest DEF StepsAreReached, t
  <2>3. QED BY <1>1, <1>7, <2>2 DEF NotBegun
<1>12. StepsAreReached'
  BY <1>1, <1>8, <1>9, <1>10, <1>11 DEF StepsAreReached
<1>13. QED BY <1>3, <1>4, <1>5, <1>12 DEF k, t

(* A copy made from another stands no less far. *)
Keeps(old, new) ==
  new.steps # NoSteps => old.steps # NoSteps /\ old.currentStep <= new.currentStep

LEMMA CopiesKeep ==
  ASSUME NEW tx \in Transaction
  PROVE  /\ \A status : Keeps(tx, [tx EXCEPT !.status = status]) /\ Keeps(tx, Minimal(status))
         /\ Keeps(tx, tx)
         /\ tx.steps # NoSteps => Keeps(tx, Compensated(tx))
         /\ HasCurrentStep(tx) =>
              /\ Keeps(tx, InProgress(tx)) /\ InProgress(tx).currentStep = tx.currentStep
              /\ Keeps(tx, FailCurrentStep(tx)) /\ FailCurrentStep(tx).currentStep = tx.currentStep
              /\ Keeps(tx, CompleteCurrentStep(tx))
              /\ CompleteCurrentStep(tx).currentStep = tx.currentStep + 1
         /\ \A status : [tx EXCEPT !.status = status].currentStep = tx.currentStep
         /\ tx.steps # NoSteps => Compensated(tx).currentStep = tx.currentStep
         /\ tx.currentStep \in Nat
<1>1. tx.currentStep \in Nat
  BY StepsAssumption DEF Transaction
<1>2. \A status : /\ [tx EXCEPT !.status = status].steps = tx.steps
                  /\ [tx EXCEPT !.status = status].currentStep = tx.currentStep
                  /\ Minimal(status).steps = NoSteps
  BY DEF Transaction, Minimal
<1>3. Compensated(tx).currentStep = tx.currentStep
  BY DEF Transaction, Compensated
<1>4. /\ InProgress(tx).currentStep = tx.currentStep
      /\ FailCurrentStep(tx).currentStep = tx.currentStep
      /\ CompleteCurrentStep(tx).currentStep = tx.currentStep + 1
  BY DEF Transaction, InProgress, FailCurrentStep, CompleteCurrentStep
<1>5. QED BY <1>1, <1>2, <1>3, <1>4, FullSteps DEF Keeps

LEMMA KeepsReached ==
  ASSUME NEW old, NEW new, old.currentStep \in Nat, new.currentStep \in Nat, Keeps(old, new),
         NEW asked, NEW t
  PROVE  Reached(asked, old, t) => Reached(asked, new, t)
BY StepsAssumption DEF Keeps, Reached, StepIndex

LEMMA ContinueAsks ==
  ASSUME TypeOK, EverythingEarned, RequestsComeFirst, StepsAreReached,
         NEW w \in Workers, Continue(w)
  PROVE  StepsAreReached'
<1>1. /\ IsBusy(w) /\ Id(w) \in Transactions /\ work[w].tx \in Transaction
      /\ StoredFor(w) \in Transaction /\ work[w].message.id = Id(w)
  <2>1. IsBusy(w)
    BY DEF Continue, StoreTransactionState, ProgressTransaction, PublishStep,
      CompleteTransaction, PublishCompleted, SendUserNotification, StartCompensation,
      CompensateSteps, PublishCompensated
  <2>2. QED BY <2>1, WorkerType DEF Id
<1>2. WorkerAsks(w)
  BY DEF StepsAreReached
<1>3. CASE StoreTransactionState(w)
  BY <1>3, StoreKeepsAsks
<1>4. CASE PublishStep(w)
  BY <1>4, PublishKeepsAsks
<1>5. ASSUME ~ PublishStep(w), ~ StoreTransactionState(w)
      PROVE  /\ store' = store /\ Asked' \subseteq Asked
             /\ \A c \in Coordinators : \A m \in outbox'[c] : m \in outbox[c] \/ m.topic # "EXECUTE"
  <2>1. store' = store /\ performed' = performed
    BY <1>5
    DEF Continue, ProgressTransaction, CompleteTransaction, PublishCompleted,
      SendUserNotification, StartCompensation, CompensateSteps, PublishCompensated
  <2>2. commands' = commands /\ offsets' = offsets
    BY <1>5
    DEF Continue, ProgressTransaction, CompleteTransaction, PublishCompleted,
      SendUserNotification, StartCompensation, CompensateSteps, PublishCompensated, Publish,
      Msg, StepMessage, CommandTopics
  <2>3. outbox' = outbox
          \/ \E ms : PublishLater(ServiceOf(w), ms) /\ \A m \in ms : m.topic = "COMPENSATE"
    BY <1>5
    DEF Continue, ProgressTransaction, CompleteTransaction, PublishCompleted,
      SendUserNotification, StartCompensation, CompensateSteps, PublishCompensated, StepMessage
  <2>4. QED BY <2>1, <2>2, <2>3, AskedFewer DEF PublishLater, TypeOK
<1>6. CASE Finish(w) /\ ~ PublishStep(w) /\ ~ StoreTransactionState(w)
  BY <1>5, <1>6, FinishedAsks, MovedAsks
<1>7. ASSUME ~ PublishStep(w), ~ StoreTransactionState(w), ~ Publishing(work[w]),
             NEW tx, NEW point, StoreThen(w, work[w].message, tx, point),
             w \in Transactions => tx.currentStep = 0,
             w = Starter => Reached(Asked, tx, Id(w)),
             w = Starter /\ point \in {"progress", "publishStep"} => Unasked(Asked, tx, Id(w)),
             w \notin Transactions \cup {Starter} => tx.steps = NoSteps
      PROVE  StepsAreReached'
  <2>1. WorkerAsks(w)' /\ \A v \in Workers \ {w} : work'[v] = work[v]
    BY <1>1, <1>5, <1>7, StoringAsks
  <2>2. Early(work[w])
    BY <1>1, <1>7 DEF Early, IsBusy
  <2>3. QED BY <1>5, <1>7, <2>1, <2>2, MovedAsks
<1>8. ASSUME ~ PublishStep(w), ~ StoreTransactionState(w), ~ Publishing(work[w]),
             NEW point \in Points \ {"store", "progress", "publishStep"}, Goto(w, point)
      PROVE  StepsAreReached'
  <2>1. WorkerAsks(w)' /\ \A v \in Workers \ {w} : work'[v] = work[v]
    BY <1>1, <1>5, <1>8, GoingAsks
  <2>2. Early(work[w])
    BY <1>1, <1>8 DEF Early, IsBusy
  <2>3. QED BY <1>5, <1>8, <2>1, <2>2, MovedAsks
<1>9. ASSUME ~ Publishing(work[w])
      PROVE  /\ w \in Transactions => StoredFor(w).currentStep = 0
             /\ w = Starter => Reached(Asked, StoredFor(w), Id(w))
             /\ w \notin Transactions \cup {Starter} => StoredFor(w).steps = NoSteps
  <2>1. w \in Transactions => NotBegun(w) /\ StoredFor(w) = store[Starter][w]
    BY <1>1, <1>9, OwnMessage DEF StepsAreReached, Early, IsBusy, StoredFor
  <2>2. w \notin Transactions => w \in Coordinators /\ StoredFor(w) = store[w][Id(w)]
    BY WorkerKinds DEF StoredFor, Workers
  <2>3. QED
    BY <1>1, <2>1, <2>2, WorkerKinds, CoordinatorsAssumption
    DEF StepsAreReached, StoreAsks, NotBegun
<1>10. CASE ProgressTransaction(w)
  <2>1. /\ ~ PublishStep(w) /\ ~ StoreTransactionState(w) /\ ~ Publishing(work[w])
        /\ At(w, "progress")
    BY <1>10 DEF ProgressTransaction, PublishStep, StoreTransactionState, Publishing, At
  <2>2. CASE Goto(w, "complete")
    BY <1>8, <2>1, <2>2 DEF Points
  <2>3. CASE /\ HasCurrentStep(StoredFor(w))
             /\ StoreThen(w, work[w].message, InProgress(StoredFor(w)), "publishStep")
    <3> DEFINE old == StoredFor(w)
               new == InProgress(old)
    <3>1. /\ old \in Transaction /\ HasCurrentStep(old)
          /\ StoreThen(w, work[w].message, new, "publishStep")
          /\ Keeps(old, new) /\ new.currentStep = old.currentStep /\ old.currentStep \in Nat
      BY <1>1, <2>3, CopiesKeep
    <3>2. old.steps # NoSteps
      BY <3>1, FullSteps
    <3>3. w \in Transactions => new.currentStep = 0
      BY <1>9, <2>1, <3>1
    <3>4. w \in Transactions \cup {Starter}
      BY <1>9, <2>1, <3>2
    <3>5. w = Starter => Reached(Asked, old, Id(w)) /\ Unasked(Asked, old, Id(w))
      BY <1>1, <1>2, <1>9, <2>1 DEF WorkerAsks, ConsumerAsks, At
    <3> HIDE DEF old, new
    <3>6. w = Starter => Reached(Asked, new, Id(w)) /\ Unasked(Asked, new, Id(w))
      BY <3>1, <3>2, <3>5, KeepsReached DEF Unasked
    <3>7. QED BY <1>7, <2>1, <3>1, <3>3, <3>4, <3>6
  <2>4. QED BY <1>6, <1>10, <2>1, <2>2, <2>3 DEF ProgressTransaction
<1>11. CASE CompleteTransaction(w)
  <2>1. ~ PublishStep(w) /\ ~ StoreTransactionState(w) /\ ~ Publishing(work[w])
    BY <1>11 DEF CompleteTransaction, PublishStep, StoreTransactionState, Publishing, At
  <2>2. CASE Finish(w)
    BY <1>6, <2>1, <2>2
  <2>3. CASE StoreThen(w, work[w].message, [StoredFor(w) EXCEPT !.status = "COMPLETED"],
                       "publishCompleted")
    <3> DEFINE old == StoredFor(w)
               new == [old EXCEPT !.status = "COMPLETED"]
    <3>1. /\ StoreThen(w, work[w].message, new, "publishCompleted")
          /\ Keeps(old, new) /\ new.currentStep = old.currentStep /\ old.currentStep \in Nat
          /\ new.steps = old.steps
      BY <1>1, <2>3, CopiesKeep DEF Transaction
    <3> HIDE DEF new
    <3>2. w = Starter => Reached(Asked, new, Id(w))
      BY <1>9, <2>1, <3>1, KeepsReached
    <3>3. QED BY <1>7, <1>9, <2>1, <3>1, <3>2
  <2>4. QED BY <1>11, <2>2, <2>3 DEF CompleteTransaction
<1>12. CASE CompensateSteps(w)
  <2>1. ~ PublishStep(w) /\ ~ StoreTransactionState(w) /\ ~ Publishing(work[w])
    BY <1>12 DEF CompensateSteps, PublishStep, StoreTransactionState, Publishing, At
  <2>2. CASE Goto(w, "publishCompensated")
    BY <1>8, <2>1, <2>2 DEF Points
  <2>3. CASE /\ work[w].tx.steps # NoSteps
             /\ StoreThen(w, work[w].message, Compensated(work[w].tx), "publishCompensated")
    <3> DEFINE old == work[w].tx
               new == Compensated(old)
    <3>1. /\ StoreThen(w, work[w].message, new, "publishCompensated") /\ old.steps # NoSteps
          /\ Keeps(old, new) /\ new.currentStep = old.currentStep /\ old.currentStep \in Nat
      BY <1>1, <2>3, CopiesKeep
    <3>2. /\ w \in Transactions => old.currentStep = 0
          /\ w = Starter => Reached(Asked, old, Id(w))
          /\ w \in Transactions \cup {Starter}
      BY <1>1, <1>2, <2>3 DEF WorkerAsks, RequestAsks, ConsumerAsks
    <3> HIDE DEF old, new
    <3>3. w = Starter => Reached(Asked, new, Id(w))
      BY <3>1, <3>2, KeepsReached
    <3>4. QED BY <1>7, <2>1, <3>1, <3>2, <3>3
  <2>4. QED BY <1>12, <2>2, <2>3 DEF CompensateSteps
<1>13. CASE PublishCompleted(w) \/ StartCompensation(w) \/ PublishCompensated(w)
  <2>1. Finish(w) /\ ~ PublishStep(w) /\ ~ StoreTransactionState(w)
    BY <1>13
    DEF PublishCompleted, StartCompensation, PublishCompensated, PublishStep,
      StoreTransactionState, At
  <2>2. QED BY <1>6, <2>1
<1>14. CASE SendUserNotification(w)
  <2>1. /\ ~ PublishStep(w) /\ ~ StoreTransactionState(w) /\ ~ Publishing(work[w])
        /\ Goto(w, "startCompensation")
    BY <1>14 DEF SendUserNotification, PublishStep, StoreTransactionState, Publishing, At
  <2>2. QED BY <1>8, <2>1 DEF Points
<1>15. QED BY <1>3, <1>4, <1>10, <1>11, <1>12, <1>13, <1>14 DEF Continue

LEMMA HandleAsks ==
  ASSUME TypeOK, StepsAreReached, NEW c \in Coordinators, NEW e \in events[c], Handle(c, e)
  PROVE  StepsAreReached'
<1> DEFINE tx == store[c][e.id]
<1>1. Deliver(c, e) /\ UNCHANGED <<store, commands, offsets, outbox, performed>>
  BY DEF Handle, HandleStepCompleted, HandleStepFailed, HandleTimeout,
    HandleCompensationStart, HandleCompensationCompleted, HandleCompleted
<1>2. /\ c \in Workers /\ c \notin Transactions /\ tx \in Transaction /\ StoreAsks(c, e.id)
      /\ Asked' \subseteq Asked
  BY <1>1, DeliverType, WorkerKinds DEF StepsAreReached, Asked
<1>3. CASE UNCHANGED work
  BY <1>1, <1>2, <1>3, UndisturbedAsks
<1> HIDE DEF tx
<1>4. ASSUME NEW new, NEW point, StoreThen(c, e, new, point), Keeps(tx, new),
             new.currentStep \in Nat,
             point = "progress" =>
               tx.steps # NoSteps /\ new.currentStep = tx.currentStep + 1,
             point # "publishStep"
      PROVE  StepsAreReached'
  <2>1. tx.currentStep \in Nat
    BY <1>2, CopiesKeep
  <2>2. c # Starter => new.steps = NoSteps
    BY <1>2, <1>4 DEF StoreAsks, Keeps, tx
  <2>3. c = Starter => Reached(Asked, tx, e.id)
    BY <1>2 DEF StoreAsks, tx
  <2>4. c = Starter => Reached(Asked, new, e.id)
    BY <1>4, <2>1, <2>3, KeepsReached
  <2>5. c = Starter /\ point = "progress" => Unasked(Asked, new, e.id)
    <3> SUFFICES ASSUME c = Starter, point = "progress", <<new.currentStep, e.id>> \in Asked
                 PROVE  FALSE
      BY <1>4, <2>1 DEF Unasked
    <3>1. new.currentStep \in StepIndex
      BY DEF Asked, TypeOK, Command
    <3>2. QED BY <1>4, <2>1, <2>3, <3>1 DEF Reached
  <2>6. WorkerAsks(c)' /\ \A v \in Workers \ {c} : work'[v] = work[v]
    BY <1>2, <1>4, <2>2, <2>4, <2>5, StoringAsks
  <2>7. QED BY <1>1, <1>2, <2>6, MovedAsks
<1>5. /\ \A status : [tx EXCEPT !.status = status].currentStep \in Nat
      /\ \A status : Minimal(status).currentStep \in Nat
      /\ HasCurrentStep(tx) => FailCurrentStep(tx).currentStep \in Nat
                               /\ CompleteCurrentStep(tx).currentStep \in Nat
  BY <1>2, CopiesKeep DEF Minimal
<1>6. CASE HandleStepCompleted(c, e)
  BY <1>2, <1>3, <1>4, <1>5, <1>6, CopiesKeep, FullSteps DEF HandleStepCompleted, tx
<1>7. CASE HandleStepFailed(c, e)
  BY <1>2, <1>3, <1>4, <1>5, <1>7, CopiesKeep DEF HandleStepFailed, tx
<1>8. CASE HandleTimeout(c, e)
  BY <1>2, <1>3, <1>4, <1>5, <1>8, CopiesKeep DEF HandleTimeout, tx
<1>9. CASE HandleCompensationStart(c, e)
  BY <1>2, <1>3, <1>4, <1>5, <1>9, CopiesKeep DEF HandleCompensationStart, tx
<1>10. CASE HandleCompensationCompleted(c, e)
  BY <1>2, <1>3, <1>4, <1>5, <1>10, CopiesKeep DEF HandleCompensationCompleted, tx
<1>11. CASE HandleCompleted(c, e)
  BY <1>2, <1>3, <1>4, <1>5, <1>11, CopiesKeep DEF HandleCompleted, tx
<1>12. QED BY <1>6, <1>7, <1>8, <1>9, <1>10, <1>11 DEF Handle

LEMMA RestartAsks ==
  ASSUME TypeOK, StepsAreReached, NEW c \in Coordinators, Restart(c)
  PROVE  StepsAreReached'
<1>1. store' = store /\ Asked' \subseteq Asked
  BY AskedFewer, PutBackWasAsked DEF Restart
<1>2. \A d \in Coordinators : \A m \in outbox'[d] : m \in outbox[d]
  BY DEF Restart, TypeOK
<1>3. \A v \in Workers : work'[v] = work[v] \/ work'[v] \notin Running
  BY PointsOnlyRunning DEF Restart
<1>4. \A t \in Transactions : Early(work'[t]) => Early(work[t])
  BY NotEarly, OtherWork
<1>5. QED BY <1>1, <1>2, <1>3, <1>4, UndisturbedAsks

LEMMA OthersAsk ==
  ASSUME TypeOK, StepsAreReached, NEW c \in Coordinators
  PROVE  /\ \A t \in Transactions :
              CheckTimeout(c, t) \/ CheckerFails(c, t) \/ Expire(c, t) => StepsAreReached'
         /\ Crash(c) \/ Rebalance(c) => StepsAreReached'
         /\ \A m \in outbox[c] : Flush(c, m) => StepsAreReached'
         /\ \A e \in events[c] : FirstReadFails(c, e) => StepsAreReached'
<1>1. ASSUME NEW t \in Transactions, CheckTimeout(c, t)
      PROVE  StepsAreReached'
  <2>1. Asked' \subseteq Asked
    BY <1>1, AskedFewer DEF CheckTimeout
  <2>2. \A d \in Coordinators : \A m \in outbox'[d] : m \in outbox[d] \/ m.topic # "EXECUTE"
    BY <1>1 DEF CheckTimeout, PublishLater, Msg, StepMessage, TypeOK
  <2>3. QED BY <1>1, <2>1, <2>2, UndisturbedAsks DEF CheckTimeout
<1>2. Crash(c) \/ (\E t \in Transactions : CheckerFails(c, t)) => StepsAreReached'
  BY RestartAsks DEF CheckerFails, Crash
<1>3. ASSUME Rebalance(c)
      PROVE  StepsAreReached'
  <2>1. Asked' \subseteq Asked
    BY <1>3, AskedFewer, PutBackWasAsked DEF Rebalance
  <2>2. QED BY <1>3, <2>1, UndisturbedAsks DEF Rebalance
<1>4. ASSUME NEW e \in events[c], FirstReadFails(c, e)
      PROVE  StepsAreReached'
  <2>1. Asked' \subseteq Asked
    BY <1>4, AskedFewer DEF FirstReadFails
  <2>2. QED BY <1>4, <2>1, UndisturbedAsks DEF FirstReadFails
<1>5. ASSUME NEW m \in outbox[c], Flush(c, m)
      PROVE  StepsAreReached'
  <2>1. m.topic # "EXECUTE" /\ UNCHANGED <<store, work, performed>>
    BY <1>5 DEF StepsAreReached, Flush
  <2>2. Asked' \subseteq Asked
    BY <1>5, <2>1, AskedFewer DEF Flush, Publish
  <2>3. \A d \in Coordinators : \A n \in outbox'[d] : n \in outbox[d]
    BY <1>5 DEF Flush, TypeOK
  <2>4. QED BY <2>1, <2>2, <2>3, UndisturbedAsks
<1>6. ASSUME NEW t \in Transactions, Expire(c, t)
      PROVE  StepsAreReached'
  <2>1. /\ \A d \in Coordinators, u \in Transactions : store'[d][u] \in {store[d][u], Missing}
        /\ UNCHANGED <<commands, offsets, outbox, work, performed>>
    BY <1>6 DEF Expire, TypeOK
  <2>2. Asked' = Asked /\ Missing.steps = NoSteps /\ Missing.currentStep = 0
    BY <2>1 DEF Asked, Missing, Minimal
  <2>3. \A d \in Coordinators, u \in Transactions : StoreAsks(d, u)'
    BY <2>1, <2>2 DEF StepsAreReached, StoreAsks, Reached
  <2>4. ASSUME NEW v \in Workers
        PROVE  WorkerAsks(v)'
    <3>1. IsBusy(v) => StoredFor(v)' \in {StoredFor(v), Missing}
      BY <2>1, WorkerType DEF StoredFor, ServiceOf, Id
    <3>2. \A stored, a : ConsumerAsks(Asked, stored, a) => ConsumerAsks(Asked, Missing, a)
      BY <2>2 DEF ConsumerAsks, Unasked
    <3>3. WorkerAsks(v)
      BY DEF StepsAreReached
    <3>4. QED BY <2>1, <2>2, <3>1, <3>2, <3>3 DEF WorkerAsks, IsBusy
  <2>5. \A u \in Transactions : NotBegun(u) => NotBegun(u)'
    BY <2>1, <2>2, CoordinatorsAssumption DEF NotBegun
  <2>6. QED BY <2>1, <2>3, <2>4, <2>5 DEF StepsAreReached
<1>7. QED BY <1>1, <1>2, <1>3, <1>4, <1>5, <1>6

(* What an awaited call that is rejected leaves of the handler, or request. *)
LEMMA RejectionsAsk ==
  ASSUME TypeOK, StepsAreReached, NEW w \in Workers,
         PublishFails(w) \/ StoreFails(w) \/ ReadFails(w)
  PROVE  StepsAreReached'
<1>1. UNCHANGED <<store, outbox>> /\ Asked' \subseteq Asked /\ IsBusy(w)
  BY AskedFewer DEF PublishFails, StoreFails, ReadFails
<1>2. CASE At(w, "notify") /\ Goto(w, "startCompensation")
  <2>1. WorkerAsks(w)' /\ \A v \in Workers \ {w} : work'[v] = work[v]
    BY <1>1, <1>2, GoingAsks DEF Points
  <2>2. Early(work[w])
    BY <1>1, <1>2 DEF Early, Publishing, IsBusy, At
  <2>3. QED BY <1>1, <2>1, <2>2, MovedAsks
<1>3. CASE work' = [work EXCEPT ![w] = IF w \in Transactions THEN Ended ELSE Idle]
  <2>1. \A v \in Workers : work'[v] = work[v] \/ work'[v] \notin Running
    BY <1>3, PointsOnlyRunning DEF TypeOK, WorkOK
  <2>2. \A t \in Transactions : Early(work'[t]) => Early(work[t])
    BY <1>3, NotEarly, WorkerKinds DEF TypeOK, WorkOK
  <2>3. QED BY <1>1, <2>1, <2>2, UndisturbedAsks
<1>4. QED BY <1>2, <1>3 DEF PublishFails, StoreFails, ReadFails

LEMMA ParticipantAsks ==
  ASSUME TypeOK, StepsAreReached, NEW t \in Transactions, NEW i \in StepIndex,
         \/ PerformStep(i, t) \/ RejectStep(i, t)
         \/ ReportFailure(i, t) \/ TakeCompensation(i, t)
  PROVE  StepsAreReached'
<1>1. UNCHANGED <<store, work>>
  BY DEF PerformStep, RejectStep, ReportFailure, TakeCompensation
<1>2. Asked' \subseteq Asked
  BY ExecutedWasAsked, TakenWasAsked, AskedFewer DEF RejectStep, ReportFailure, TakeCompensation
<1>3. \A c \in Coordinators : \A m \in outbox'[c] : m \in outbox[c] \/ m.topic # "EXECUTE"
  BY DEF PerformStep, RejectStep, ReportFailure, TakeCompensation, PublishLater, StepMessage,
    TypeOK
<1>4. QED BY <1>1, <1>2, <1>3, UndisturbedAsks

LEMMA NewRequestAsks ==
  ASSUME TypeOK, StepsAreReached, NEW t \in Transactions,
         BeginRequest(t) \/ StartTransaction(t) \/ EndRequest(t)
  PROVE  StepsAreReached'
<1>1. store' = store /\ Asked' \subseteq Asked /\ t \in Workers
  BY AskedFewer, WorkerKinds DEF BeginRequest, StartTransaction, EndRequest
<1>2. \A c \in Coordinators : \A m \in outbox'[c] : m \in outbox[c] \/ m.topic # "EXECUTE"
  BY DEF BeginRequest, StartTransaction, EndRequest, PublishLater, Msg, StepMessage, TypeOK
<1>3. CASE BeginRequest(t) \/ EndRequest(t)
  <2>1. /\ work'[t] \notin Running
        /\ \A v \in Workers \ {t} : work'[v] = work[v]
        /\ Early(work'[t]) => Early(work[t])
    BY <1>1, <1>3, PointsOnlyRunning, NotEarly DEF BeginRequest, EndRequest, TypeOK, WorkOK
  <2>2. QED BY <1>1, <1>2, <2>1, MovedAsks
<1>4. CASE StartTransaction(t)
  <2> DEFINE tx == [status |-> "STARTED", currentStep |-> 0, steps |-> FreshSteps]
  <2>1. StoreThen(t, Msg("CREATE", t), tx, "progress") /\ Early(work[t]) /\ tx.currentStep = 0
    BY <1>4, NotEarly DEF StartTransaction
  <2> HIDE DEF tx
  <2>2. WorkerAsks(t)' /\ \A v \in Workers \ {t} : work'[v] = work[v]
    BY <1>1, <2>1, WorkerKinds, StoringAsks
  <2>3. QED BY <1>1, <1>2, <2>1, <2>2, MovedAsks
<1>5. QED BY <1>3, <1>4

LEMMA NextAsks ==
  TypeOK /\ EverythingEarned /\ RequestsComeFirst /\ StepsAreReached /\ [Next]_vars
    => StepsAreReached'
<1> SUFFICES ASSUME TypeOK, EverythingEarned, RequestsComeFirst, StepsAreReached, [Next]_vars
             PROVE  StepsAreReached'
  OBVIOUS
<1>1. CASE CoordinatorStep
  BY <1>1, HandleAsks, ContinueAsks, OthersAsk DEF CoordinatorStep
<1>2. CASE FaultStep
  BY <1>2, OthersAsk, RejectionsAsk DEF FaultStep
<1>3. CASE ParticipantStep
  BY <1>3, ParticipantAsks DEF ParticipantStep
<1>4. CASE RequestStep
  BY <1>4, NewRequestAsks DEF RequestStep
<1>5. CASE UNCHANGED vars
  BY <1>5, UndisturbedAsks, AskedFewer DEF vars
<1>6. QED BY <1>1, <1>2, <1>3, <1>4, <1>5 DEF Next

(* Commands stand where they stood, but the one a worker publishes, those  *)
(* delivered again, and the one a participant executes.                    *)
LEMMA CommandsMove ==
  ASSUME TypeOK, StepsAreReached, [Next]_vars
  PROVE  \/ \E w \in Workers : PublishStep(w)
         \/ \E i \in StepIndex, t \in Transactions : PerformStep(i, t)
         \/ /\ performed' = performed
            /\ \A m \in commands' \ offsets'.again :
                 m.topic = "EXECUTE" => m \in commands \ offsets.again
<1> SUFFICES ASSUME ~ \E w \in Workers : PublishStep(w),
                    ~ \E i \in StepIndex, t \in Transactions : PerformStep(i, t)
             PROVE  /\ performed' = performed
                    /\ \A m \in commands' \ offsets'.again :
                         m.topic = "EXECUTE" => m \in commands \ offsets.again
  OBVIOUS
<1>1. \A c : PutBack(c) => commands' \ offsets'.again \subseteq commands \ offsets.again
  BY DEF PutBack, TypeOK
<1>2. \A m : TakeCommand(m) => commands' \subseteq commands /\ offsets'.again = offsets.again
  BY DEF TakeCommand, TypeOK
<1>3. CASE CoordinatorStep
  <2>1. ASSUME NEW c \in Coordinators, NEW e \in events[c], Handle(c, e)
        PROVE  UNCHANGED <<commands, offsets, performed>>
    BY <2>1
    DEF Handle, HandleStepCompleted, HandleStepFailed, HandleTimeout,
      HandleCompensationStart, HandleCompensationCompleted, HandleCompleted
  <2>2. ASSUME NEW w \in Workers, Continue(w)
        PROVE  UNCHANGED <<commands, offsets, performed>>
    BY <2>2
    DEF Continue, StoreTransactionState, ProgressTransaction, CompleteTransaction,
      PublishCompleted, SendUserNotification, StartCompensation, CompensateSteps,
      PublishCompensated, Publish, Msg, StepMessage, CommandTopics
  <2>3. ASSUME NEW c \in Coordinators, NEW n \in outbox[c], Flush(c, n)
        PROVE  /\ performed' = performed /\ commands' \subseteq commands \cup {n}
               /\ offsets' = offsets /\ n.topic # "EXECUTE"
    BY <2>3 DEF Flush, Publish, StepsAreReached
  <2>4. QED
    BY <1>1, <1>3, <2>1, <2>2, <2>3 DEF CoordinatorStep, CheckTimeout, CheckerFails, Restart
<1>4. CASE FaultStep
  BY <1>1, <1>4
  DEF FaultStep, Crash, Restart, Rebalance, PublishFails, StoreFails, ReadFails,
    FirstReadFails, Expire
<1>5. CASE ParticipantStep
  BY <1>2, <1>5 DEF ParticipantStep, RejectStep, ReportFailure, TakeCompensation
<1>6. CASE RequestStep
  BY <1>6 DEF RequestStep, BeginRequest, StartTransaction, EndRequest
<1>7. CASE UNCHANGED vars
  BY <1>7 DEF vars
<1>8. QED BY <1>3, <1>4, <1>5, <1>6, <1>7 DEF Next

LEMMA NextAsksOnce ==
  TypeOK /\ EverythingEarned /\ RequestsComeFirst /\ StepsAreReached /\ AskedOnce /\ [Next]_vars
    => AskedOnce'
<1> SUFFICES ASSUME TypeOK, EverythingEarned, RequestsComeFirst, StepsAreReached, AskedOnce,
                    [Next]_vars, NEW m \in commands' \ offsets'.again, m.topic = "EXECUTE"
             PROVE  <<m.step, m.id>> \notin performed'
  BY DEF AskedOnce
<1>1. m \in commands \ offsets.again => <<m.step, m.id>> \notin performed
  BY DEF AskedOnce
<1>2. CASE \E w \in Workers : PublishStep(w)
  <2> PICK w \in Workers : PublishStep(w)
    BY <1>2
  <2>1. /\ performed' = performed /\ offsets' = offsets
        /\ m \in commands \/ m = StepMessage("EXECUTE", Id(w), work[w].tx.currentStep)
    BY DEF PublishStep, Publish, StepMessage, CommandTopics
  <2>2. <<work[w].tx.currentStep, Id(w)>> \notin performed
    BY PublishKeepsAsks DEF Asked
  <2>3. QED BY <1>1, <2>1, <2>2 DEF StepMessage
<1>3. CASE \E i \in StepIndex, t \in Transactions : PerformStep(i, t)
  <2> PICK i \in StepIndex, t \in Transactions : PerformStep(i, t)
    BY <1>3
  <2>1. /\ commands' = commands \ {StepMessage("EXECUTE", t, i)}
        /\ offsets'.again = offsets.again
        /\ performed' = performed \cup {<<i, t>>}
    BY DEF PerformStep, TakeCommand, TypeOK
  <2>2. m \in Command
    BY <2>1 DEF TypeOK
  <2>3. m # StepMessage("EXECUTE", t, i) => m.step # i \/ m.id # t
    BY <2>2 DEF Command, StepMessage
  <2>4. QED BY <1>1, <2>1, <2>3
<1>4. QED BY <1>1, <1>2, <1>3, CommandsMove

(* A step that was executed is asked for by no command but one that was    *)
(* itself delivered again, for any services, steps, transactions, faults.  *)
THEOREM StepsAskedOnce == Spec => []AskedOnce
<1>1. Init => StepsAreReached /\ AskedOnce
  <2> SUFFICES ASSUME Init
               PROVE  StepsAreReached
    BY DEF Init, AskedOnce
  <2>1. Asked = {} /\ Missing.steps = NoSteps /\ Missing.currentStep = 0
    BY DEF Init, Asked, Missing, Minimal
  <2>2. \A w \in Workers : ~ IsBusy(w)
    BY PointsOnlyRunning DEF Init, IsBusy
  <2>3. QED
    BY <2>1, <2>2, CoordinatorsAssumption
    DEF Init, StepsAreReached, StoreAsks, Reached, WorkerAsks, NotBegun
<1>2. QED
  BY <1>1, EarnedAlways, RequestsFirst, NextAsks, NextAsksOnce, PTL DEF Spec

-----------------------------------------------------------------------------
(* Every step of the saga is a step of the coordinator *)

LEMMA ApprovalStepRefines == [ApprovalNext]_approvalVars => [Next]_vars
<1> SUFFICES ASSUME [ApprovalNext]_approvalVars PROVE [Next]_vars
  OBVIOUS
<1>1. 0 \in StepIndex /\ 1 \in StepIndex
  BY ApprovalAssumption DEF StepIndex
<1>2. CASE OrderStep
  <2> PICK t \in Transactions :
        \/ SaveOrder(t) \/ StartOrder(t) \/ FinishOrder(t) \/ FinishRejectedOrder(t)
        \/ UpdateOrderStatus(t) \/ RefuseOrder(t)
        \/ \E x \in Transactions : UpdateUnidentifiedOrder(t, x)
    BY <1>2 DEF OrderStep
  <2>1. CASE SaveOrder(t) \/ StartOrder(t) \/ FinishOrder(t) \/ FinishRejectedOrder(t)
    <3>1. RequestStep
      BY <2>1 DEF SaveOrder, StartOrder, FinishOrder, FinishRejectedOrder, RequestStep
    <3>2. QED BY <3>1 DEF Next
  <2>2. CASE UpdateOrderStatus(t) \/ RefuseOrder(t)
              \/ \E x \in Transactions : UpdateUnidentifiedOrder(t, x)
    <3>1. ParticipantStep
      BY <1>1, <2>2 DEF UpdateOrderStatus, RefuseOrder, UpdateUnidentifiedOrder,
        UpdateOrderStatusStep, ParticipantStep
    <3>2. QED BY <3>1 DEF Next
  <2>3. QED BY <2>1, <2>2
<1>3. CASE InvoiceStep
  <2>1. ParticipantStep
    BY <1>1, <1>3 DEF InvoiceStep, GenerateInvoice, IgnoreCompensation,
      InvoiceGenerateStep, ParticipantStep
  <2>2. QED BY <2>1 DEF Next
<1>4. CASE CoordinatorStep \/ FaultStep
  BY <1>4 DEF Next
<1>5. CASE UNCHANGED approvalVars
  BY <1>5 DEF approvalVars
<1>6. CASE \E t \in Transactions : FailStep(t)
  <2>1. ParticipantStep
    BY <1>1, <1>6 DEF FailStep, UpdateOrderStatusStep, InvoiceGenerateStep, ParticipantStep
  <2>2. QED BY <2>1 DEF Next
<1>7. QED BY <1>2, <1>3, <1>4, <1>5, <1>6 DEF ApprovalNext

(* The services' handlers are participants the coordinator allows: what is *)
(* proved of the coordinator holds of the saga.                            *)
THEOREM ApprovalImplementsCoordinator == ApprovalSpec => ImplementsCoordinator
<1>1. ApprovalInit => Init
  BY DEF ApprovalInit
<1>2. [ApprovalNext]_approvalVars => [Next]_vars
  BY ApprovalStepRefines
<1>3. QED BY <1>1, <1>2, PTL DEF ApprovalSpec, Spec, ImplementsCoordinator

(* Hence order-service and invoice-service, with their databases, keep the  *)
(* promise of the saga: one decision per order, taken by order-service, and *)
(* recorded by invoice-service as it was taken.                             *)
THEOREM ApprovalImplementsSaga == ApprovalSpec => ImplementsSagaOutcome
BY ApprovalImplementsCoordinator, CoordinatorsImplementSaga DEF ImplementsCoordinator

-----------------------------------------------------------------------------
(* The databases follow the executed steps *)

LEMMA StepsHere == StepIndex = {0, 1}
  BY ApprovalAssumption DEF StepIndex

LEMMA ApprovalStepType ==
  ApprovalTypeOK /\ TypeOK' /\ [ApprovalNext]_approvalVars => ApprovalTypeOK'
<1> SUFFICES ASSUME ApprovalTypeOK, TypeOK', [ApprovalNext]_approvalVars
             PROVE  /\ orders' \in [Transactions -> OrderStatus]
                    /\ invoices' \in [Transactions -> Nat]
  BY DEF ApprovalTypeOK
<1>1. CASE OrderStep
  BY <1>1 DEF OrderStep, SaveOrder, StartOrder, FinishOrder, FinishRejectedOrder, UpdateOrderStatus,
    RefuseOrder, UpdateUnidentifiedOrder, ApprovalTypeOK, OrderStatus
<1>2. CASE InvoiceStep
  BY <1>2 DEF InvoiceStep, GenerateInvoice, IgnoreCompensation, ApprovalTypeOK
<1>3. CASE UNCHANGED <<orders, invoices>>
  BY <1>3 DEF ApprovalTypeOK
<1>4. QED BY <1>1, <1>2, <1>3 DEF ApprovalNext, FailStep, approvalVars

LEMMA FollowStep ==
  ASSUME ApprovalTypeOK, EverythingEarned, DatabasesFollowSteps, [ApprovalNext]_approvalVars
  PROVE  DatabasesFollowSteps'
<1> USE DEF UpdateOrderStatusStep, InvoiceGenerateStep
<1>1. CASE OrderStep
  <2> PICK t \in Transactions :
        \/ SaveOrder(t) \/ StartOrder(t) \/ FinishOrder(t) \/ FinishRejectedOrder(t)
        \/ UpdateOrderStatus(t) \/ RefuseOrder(t)
        \/ \E x \in Transactions : UpdateUnidentifiedOrder(t, x)
    BY <1>1 DEF OrderStep
  <2>1. CASE SaveOrder(t) \/ StartOrder(t)
    BY <2>1 DEF SaveOrder, BeginRequest, StartOrder, StartTransaction, DatabasesFollowSteps,
      ApprovalTypeOK
  <2>2. CASE FinishOrder(t)
    BY <2>2 DEF FinishOrder, EndRequest, DatabasesFollowSteps
  <2>3. CASE FinishRejectedOrder(t)
    BY <2>3 DEF FinishRejectedOrder, EndRequest, DatabasesFollowSteps, ApprovalTypeOK
  <2>4. CASE UpdateOrderStatus(t)
    <3>1. /\ performed' = performed \cup {<<0, t>>}
          /\ orders' = [orders EXCEPT ![t] = "COMPLETED"]
          /\ invoices' = invoices /\ t \notin Rejected
      BY <2>4 DEF UpdateOrderStatus, PerformStep
    <3>2. \A u : /\ <<1, u>> \in performed' <=> <<1, u>> \in performed
                 /\ <<0, u>> \in performed' <=> <<0, u>> \in performed \/ u = t
      BY <3>1
    <3>3. QED BY <3>1, <3>2 DEF DatabasesFollowSteps, ApprovalTypeOK
  <2>5. CASE RefuseOrder(t)
    BY <2>5 DEF RefuseOrder, RejectStep, DatabasesFollowSteps, ApprovalTypeOK
  <2>6. CASE \E x \in Transactions : UpdateUnidentifiedOrder(t, x)
    BY <2>6 DEF UpdateUnidentifiedOrder, TakeCompensation, DatabasesFollowSteps, ApprovalTypeOK
  <2>7. QED BY <2>1, <2>2, <2>3, <2>4, <2>5, <2>6
<1>2. CASE InvoiceStep
  <2> PICK t \in Transactions : GenerateInvoice(t) \/ IgnoreCompensation(t)
    BY <1>2 DEF InvoiceStep
  <2>1. CASE GenerateInvoice(t)
    <3> DEFINE m == StepMessage("EXECUTE", t, 1)
    <3>1. m \in commands
      BY <2>1 DEF GenerateInvoice, PerformStep, TakeCommand
    <3>2. MessageEarned(performed, m) /\ m.topic = "EXECUTE" /\ m.step = 1 /\ m.id = t
      BY <3>1 DEF EverythingEarned, StepMessage
    <3> HIDE DEF m
    <3>3. <<0, t>> \in performed
      BY <3>2, StepsHere DEF MessageEarned
    <3>4. /\ performed' = performed \cup {<<1, t>>}
          /\ invoices' = [invoices EXCEPT ![t] = @ + 1]
          /\ orders' = orders
      BY <2>1 DEF GenerateInvoice, PerformStep
    <3>5. invoices'[t] > 0
      BY <3>4 DEF ApprovalTypeOK
    <3>6. QED BY <3>3, <3>4, <3>5 DEF DatabasesFollowSteps, ApprovalTypeOK
  <2>2. CASE IgnoreCompensation(t)
    BY <2>2 DEF IgnoreCompensation, TakeCompensation, DatabasesFollowSteps
  <2>3. QED BY <2>1, <2>2
<1>3. CASE (CoordinatorStep \/ FaultStep) /\ UNCHANGED <<orders, invoices>>
  <2>1. performed' = performed
    BY <1>3 DEF CoordinatorStep, FaultStep, Handle, HandleStepCompleted, HandleStepFailed,
      HandleTimeout, HandleCompensationStart, HandleCompensationCompleted, HandleCompleted,
      Continue, StoreTransactionState, ProgressTransaction, PublishStep, CompleteTransaction,
      PublishCompleted, SendUserNotification, StartCompensation, CompensateSteps,
      PublishCompensated, Flush, CheckTimeout, CheckerFails, Crash, Restart, Rebalance,
      PublishFails, StoreFails, ReadFails, FirstReadFails, Expire
  <2>2. QED BY <1>3, <2>1 DEF DatabasesFollowSteps
<1>4. CASE UNCHANGED approvalVars
  BY <1>4 DEF approvalVars, vars, DatabasesFollowSteps
<1>5. CASE \E t \in Transactions : FailStep(t)
  BY <1>5 DEF FailStep, RejectStep, DatabasesFollowSteps
<1>6. QED BY <1>1, <1>2, <1>3, <1>4, <1>5 DEF ApprovalNext

(* The inductive invariant of the saga. *)
THEOREM DatabasesFollow ==
  ApprovalSpec => [](ApprovalTypeOK /\ EverythingEarned /\ DatabasesFollowSteps)
<1> DEFINE IInv == ApprovalTypeOK /\ EverythingEarned /\ DatabasesFollowSteps
<1>1. ApprovalInit => IInv
  BY InitInvariant, StepsHere
  DEF ApprovalInit, Init, ApprovalTypeOK, OrderStatus, DatabasesFollowSteps
<1>2. IInv /\ [ApprovalNext]_approvalVars => IInv'
  BY NextInvariant, ApprovalStepRefines, ApprovalStepType, FollowStep DEF ApprovalTypeOK
<1>3. QED BY <1>1, <1>2, PTL DEF ApprovalSpec

(* An invoice exists only for an order that is COMPLETED. *)
THEOREM InvoicesOnlyForCompletedOrders == ApprovalSpec => []InvoicedOrderIsCompleted
<1>1. DatabasesFollowSteps => InvoicedOrderIsCompleted
  BY DEF DatabasesFollowSteps, InvoicedOrderIsCompleted
<1>2. QED BY <1>1, DatabasesFollow, PTL

(* A rejected order is never invoiced, nor its transaction COMPLETED. *)
THEOREM RejectedOrdersStayUninvoiced == ApprovalSpec => []RejectedIsNeverInvoiced
<1>1. ApprovalTypeOK /\ EverythingEarned /\ DatabasesFollowSteps => RejectedIsNeverInvoiced
  <2> SUFFICES ASSUME ApprovalTypeOK, EverythingEarned, DatabasesFollowSteps, NEW t \in Rejected
               PROVE  /\ invoices[t] = 0
                      /\ \A c \in Coordinators : store[c][t].status # "COMPLETED"
    BY DEF RejectedIsNeverInvoiced
  <2>1. t \in Transactions
    BY ApprovalAssumption, FaultsAssumption
  <2>2. <<0, t>> \notin performed /\ ~ (invoices[t] > 0)
    BY <2>1 DEF DatabasesFollowSteps, UpdateOrderStatusStep
  <2>3. invoices[t] = 0
    BY <2>1, <2>2 DEF ApprovalTypeOK
  <2>4. ~ AllDone(performed, t)
    BY <2>2, StepsHere DEF AllDone
  <2>5. QED BY <2>1, <2>3, <2>4 DEF EverythingEarned, Earned
<1>2. QED BY <1>1, DatabasesFollow, PTL

(* COMPLETED, wherever it is recorded, means a COMPLETED, invoiced order. *)
THEOREM CompletedOrdersAreInvoiced == ApprovalSpec => []CompletedIsInvoiced
<1>1. ApprovalTypeOK /\ EverythingEarned /\ DatabasesFollowSteps => CompletedIsInvoiced
  BY StepsHere DEF EverythingEarned, Earned, AllDone, DatabasesFollowSteps, CompletedIsInvoiced,
    UpdateOrderStatusStep, InvoiceGenerateStep
<1>2. QED BY <1>1, DatabasesFollow, PTL

LEMMA AgainGrows ==
  ASSUME TypeOK, [Next]_vars
  PROVE  offsets.again \subseteq offsets'.again
<1>1. \A c : PutBack(c) => offsets.again \subseteq offsets'.again
  BY DEF PutBack, TypeOK
<1>2. \A m : TakeCommand(m) => offsets'.again = offsets.again
  BY DEF TakeCommand, TypeOK
<1>3. CASE CoordinatorStep
  BY <1>1, <1>3
  DEF CoordinatorStep, Handle, HandleStepCompleted, HandleStepFailed, HandleTimeout,
    HandleCompensationStart, HandleCompensationCompleted, HandleCompleted,
    Continue, StoreTransactionState, ProgressTransaction, PublishStep, CompleteTransaction,
    PublishCompleted, SendUserNotification, StartCompensation, CompensateSteps,
    PublishCompensated, Flush, CheckTimeout, CheckerFails, Restart
<1>4. CASE FaultStep
  BY <1>1, <1>4
  DEF FaultStep, Crash, Restart, Rebalance, PublishFails, StoreFails, ReadFails,
    FirstReadFails, Expire
<1>5. CASE ParticipantStep
  BY <1>2, <1>5 DEF ParticipantStep, PerformStep, RejectStep, ReportFailure, TakeCompensation
<1>6. CASE RequestStep
  BY <1>6 DEF RequestStep, BeginRequest, StartTransaction, EndRequest
<1>7. CASE UNCHANGED vars
  BY <1>7 DEF vars
<1>8. QED BY <1>3, <1>4, <1>5, <1>6, <1>7 DEF Next

(* An order is invoiced twice only by a command delivered again: the       *)
(* coordinators ask for the step once.                                     *)
THEOREM OrdersAreInvoicedOnce == ApprovalSpec => []OneInvoicePerOrder
<1>1. ApprovalInit => OneInvoicePerOrder
  BY DEF ApprovalInit, OneInvoicePerOrder
<1>2. ApprovalTypeOK /\ DatabasesFollowSteps /\ AskedOnce /\ OneInvoicePerOrder
        /\ [ApprovalNext]_approvalVars
          => OneInvoicePerOrder'
  <2> SUFFICES ASSUME ApprovalTypeOK, DatabasesFollowSteps, AskedOnce, OneInvoicePerOrder,
                      [ApprovalNext]_approvalVars, NEW u \in Transactions,
                      StepMessage("EXECUTE", u, InvoiceGenerateStep) \notin offsets'.again
               PROVE  invoices'[u] <= 1
    BY DEF OneInvoicePerOrder
  <2>1. StepMessage("EXECUTE", u, InvoiceGenerateStep) \notin offsets.again
    BY ApprovalStepRefines, AgainGrows DEF ApprovalTypeOK
  <2>2. invoices[u] <= 1 /\ invoices[u] \in Nat
    BY <2>1 DEF OneInvoicePerOrder, ApprovalTypeOK
  <2>3. CASE GenerateInvoice(u)
    <3>1. StepMessage("EXECUTE", u, 1) \in commands
      BY <2>3 DEF GenerateInvoice, PerformStep, TakeCommand, InvoiceGenerateStep
    <3>2. <<1, u>> \notin performed
      BY <2>1, <3>1 DEF AskedOnce, StepMessage, InvoiceGenerateStep
    <3>3. ~ (invoices[u] > 0)
      BY <3>2 DEF DatabasesFollowSteps, InvoiceGenerateStep
    <3>4. invoices[u] = 0
      BY <2>2, <3>3
    <3>5. QED BY <2>3, <3>4 DEF GenerateInvoice, ApprovalTypeOK
  <2>4. CASE ~ GenerateInvoice(u)
    <3>1. invoices'[u] = invoices[u]
      BY <2>4
      DEF ApprovalNext, OrderStep, SaveOrder, StartOrder, FinishOrder, FinishRejectedOrder,
        UpdateOrderStatus, RefuseOrder, UpdateUnidentifiedOrder, InvoiceStep, GenerateInvoice,
        IgnoreCompensation, FailStep, approvalVars, ApprovalTypeOK
    <3>2. QED BY <2>2, <3>1
  <2>5. QED BY <2>3, <2>4
<1>3. ApprovalSpec => []AskedOnce
  BY ApprovalImplementsCoordinator, StepsAskedOnce DEF ImplementsCoordinator
<1>4. QED BY <1>1, <1>2, <1>3, DatabasesFollow, PTL DEF ApprovalSpec

-----------------------------------------------------------------------------
(* Every saved order is tracked *)

LEMMA RequestsStayBegun ==
  ASSUME TypeOK, [Next]_vars, NEW t \in Transactions, work[t] # Idle
  PROVE  work'[t] # Idle
<1>1. t \in Workers /\ t \notin Coordinators
  BY CoordinatorsAssumption DEF Workers
<1>2. CASE Continue(t)
  <2>1. IsBusy(t)
    BY <1>2 DEF Continue, StoreTransactionState, ProgressTransaction, PublishStep,
      CompleteTransaction, PublishCompleted, SendUserNotification, StartCompensation,
      CompensateSteps, PublishCompensated
  <2>2. work'[t].pc # "idle"
    <3>1. \/ Finish(t)
          \/ \E point \in Points : Goto(t, point)
          \/ \E tx, point : StoreThen(t, work[t].message, tx, point)
      BY <1>2, <2>1, WorkerType, <1>1
      DEF Continue, StoreTransactionState, ProgressTransaction, PublishStep,
        CompleteTransaction, PublishCompleted, SendUserNotification, StartCompensation,
        CompensateSteps, PublishCompensated, Points
    <3>2. Finish(t) => work'[t].pc = "returned"
      BY <1>1 DEF Finish, Finished, Returned, TypeOK, WorkOK
    <3>3. \A point \in Points : Goto(t, point) => work'[t].pc = point
      BY <1>1, <2>1 DEF Goto, IsBusy, Running, TypeOK, WorkOK
    <3>4. \A tx, point : StoreThen(t, work[t].message, tx, point) => work'[t].pc = "store"
      BY <1>1 DEF StoreThen, TypeOK, WorkOK
    <3>5. QED BY <3>1, <3>2, <3>3, <3>4 DEF Points
  <2>3. QED BY <2>2 DEF Idle
<1>3. ASSUME BeginRequest(t) \/ StartTransaction(t) PROVE work'[t] # Idle
  BY <1>1, <1>3
  DEF BeginRequest, StartTransaction, StoreThen, Called, Idle, TypeOK, WorkOK
<1>4. CASE CoordinatorStep
  <2>1. ASSUME NEW c \in Coordinators, NEW e \in events[c], Handle(c, e) PROVE work'[t] # Idle
    BY <2>1, OtherWork
  <2>2. ASSUME NEW w \in Workers, Continue(w) PROVE work'[t] # Idle
    BY <1>2, <2>2, OtherWork
  <2>3. ASSUME NEW c \in Coordinators, NEW u \in Transactions,
               CheckTimeout(c, u) \/ CheckerFails(c, u)
        PROVE  work'[t] # Idle
    BY <2>3, OtherWork DEF CheckTimeout, CheckerFails, Idle, Ended
  <2>4. QED BY <1>4, <2>1, <2>2, <2>3 DEF CoordinatorStep, Flush
<1>5. CASE FaultStep
  <2>1. ASSUME NEW w \in Workers, ReadFails(w), w = t PROVE work'[t] # Idle
    BY <1>1, <2>1 DEF ReadFails, Goto, IsBusy, Running, Idle, Ended, TypeOK, WorkOK
  <2>2. QED
    BY <1>5, <2>1, OtherWork
    DEF FaultStep, Crash, Rebalance, FirstReadFails, Expire, Idle, Ended
<1>6. CASE ParticipantStep
  BY <1>6 DEF ParticipantStep, PerformStep, RejectStep, ReportFailure, TakeCompensation
<1>7. CASE RequestStep
  BY <1>3, <1>7, OtherWork DEF RequestStep, Idle, Ended
<1>8. CASE UNCHANGED vars
  BY <1>8 DEF vars
<1>9. QED BY <1>4, <1>5, <1>6, <1>7, <1>8 DEF Next

LEMMA OrdersHaveRequestsNext ==
  ASSUME ApprovalTypeOK, RequestsComeFirst, OrdersHaveRequests, [ApprovalNext]_approvalVars
  PROVE  OrdersHaveRequests'
<1> SUFFICES ASSUME NEW t \in Transactions, orders'[t] # "NONE" PROVE work'[t] # Idle
  BY DEF OrdersHaveRequests
<1>1. work[t] # Idle => work'[t] # Idle
  BY ApprovalStepRefines, RequestsStayBegun DEF ApprovalTypeOK
<1>2. CASE orders[t] # "NONE"
  BY <1>1, <1>2 DEF OrdersHaveRequests
<1>3. CASE SaveOrder(t) \/ FinishRejectedOrder(t)
  BY <1>3, CoordinatorsAssumption
  DEF SaveOrder, FinishRejectedOrder, BeginRequest, EndRequest, Called, Ended, Idle,
    ApprovalTypeOK, TypeOK, WorkOK, Workers
<1>4. CASE UpdateOrderStatus(t) \/ RefuseOrder(t)
  <2>1. \E m \in commands : m.id = t
    BY <1>4
    DEF UpdateOrderStatus, RefuseOrder, PerformStep, RejectStep, TakeCommand, StepMessage
  <2>2. ~ Early(work[t])
    BY <2>1 DEF RequestsComeFirst, Alone
  <2>3. QED BY <1>1, <2>2, NotEarly
<1>5. orders[t] # "NONE" \/ SaveOrder(t) \/ FinishRejectedOrder(t)
        \/ UpdateOrderStatus(t) \/ RefuseOrder(t)
  <2> SUFFICES ASSUME orders'[t] # orders[t], orders[t] = "NONE"
               PROVE  \/ SaveOrder(t) \/ FinishRejectedOrder(t)
                      \/ UpdateOrderStatus(t) \/ RefuseOrder(t)
    OBVIOUS
  <2>1. OrderStep
    BY DEF ApprovalNext, InvoiceStep, GenerateInvoice, IgnoreCompensation, FailStep, approvalVars
  <2>2. PICK u \in Transactions :
          \/ SaveOrder(u) \/ StartOrder(u) \/ FinishOrder(u) \/ FinishRejectedOrder(u)
          \/ UpdateOrderStatus(u) \/ RefuseOrder(u)
          \/ \E x \in Transactions : UpdateUnidentifiedOrder(u, x)
    BY <2>1 DEF OrderStep
  <2>3. ~ \E x \in Transactions : UpdateUnidentifiedOrder(u, x)
    BY DEF UpdateUnidentifiedOrder, ApprovalTypeOK
  <2>4. u = t
    BY <2>2, <2>3
    DEF SaveOrder, StartOrder, FinishOrder, FinishRejectedOrder, UpdateOrderStatus,
      RefuseOrder, ApprovalTypeOK
  <2>5. ~ StartOrder(t) /\ ~ FinishOrder(t)
    BY DEF StartOrder, FinishOrder
  <2>6. QED BY <2>2, <2>3, <2>4, <2>5
<1>6. QED BY <1>2, <1>3, <1>4, <1>5

(* A saved order is one whose request is at work or whose transaction is   *)
(* stored, unless a process ended, Redis refused it, or it expired.        *)
THEOREM OrdersTracked == ApprovalSpec => []OrdersAreTracked
<1>1. ApprovalInit => OrdersHaveRequests
  BY DEF ApprovalInit, OrdersHaveRequests
<1>2. ApprovalSpec => Spec
  BY ApprovalImplementsCoordinator DEF ImplementsCoordinator
<1>3. TypeOK /\ OrdersHaveRequests /\ RequestsAreStored => OrdersAreTracked
  <2> SUFFICES ASSUME TypeOK, OrdersHaveRequests, RequestsAreStored, NEW t \in Transactions,
                      orders[t] # "NONE", NothingIsLost, work[t] \notin Running \cup {Called}
               PROVE  store[Starter][t] # Missing
    BY DEF OrdersAreTracked
  <2>1. work[t] \in {Returned, Ended}
    BY DEF OrdersHaveRequests, TypeOK, WorkOK, Activity, Workers
  <2>2. QED BY <2>1 DEF RequestsAreStored, HasStored, Missing, Minimal
<1>4. QED
  BY <1>1, <1>2, <1>3, DatabasesFollow, RequestsFirst, RequestsStored, TypeCorrect,
    OrdersHaveRequestsNext, PTL DEF ApprovalSpec
=============================================================================
