-------------------------- MODULE SagaOutcomeProofs --------------------------
(* The coordinators implement the saga, for any number of services, steps  *)
(* and transactions and any faults but the loss of a key: every step maps  *)
(* to one of SagaOutcome, since whatever tells of a decision, or stores    *)
(* one, agrees with the decision that Starter has taken.                   *)
EXTENDS TransactionRequestProofs

OutcomeOf(tx) ==
  CASE tx.status = "COMPLETED" -> "committed"
    [] tx.status \in {"NONE", "STARTED", "IN_PROGRESS"} -> "open"
    [] OTHER -> "aborted"

(* What Starter has recorded of every transaction. *)
Decision == [t \in Transactions |-> OutcomeOf(store[Starter][t])]

(* The events that tell of a decision tell of one that was taken. *)
Told(d, m) ==
  /\ m.topic = "COMPLETED" => d[m.id] = "committed"
  /\ m.topic \in {"COMPENSATION_START", "COMPENSATION_COMPLETED"} => d[m.id] = "aborted"

(* Whoever acts on a decision acts on the one that was taken, or stores it. *)
ActsOn(d, a) ==
  /\ Told(d, a.message)
  /\ a.pc \in {"notify", "startCompensation"} => d[a.message.id] = "aborted"
  /\ a.pc = "publishCompleted" => d[a.message.id] = "committed"
  /\ Heads(a, "compensateSteps") \/ Heads(a, "publishCompensated")
       => a.message.topic = "COMPENSATION_START"
  /\ a.then \notin {"complete", "startCompensation"}
  /\ a.pc = "store" =>
       /\ a.then = "notify" => OutcomeOf(a.tx) = "aborted"
       /\ a.then = "publishCompleted" => OutcomeOf(a.tx) = "committed"
       /\ a.tx.status = "COMPLETED" => ~ HasCurrentStep(a.tx)

(* The other services store a decision, and begin no step. *)
Following == {"COMPLETED", "COMPENSATING", "COMPENSATED"}
Follows(d, a) ==
  /\ a.pc \in {"store", "compensateSteps", "publishCompensated"}
  /\ a.pc # "publishCompensated" => a.tx.steps = NoSteps
  /\ a.pc = "store" =>
       /\ a.then \in {"done", "compensateSteps"}
       /\ a.tx.status \in Following
       /\ OutcomeOf(a.tx) = d[a.message.id]

(* Starter is never about to store another decision than it has taken. *)
Decides(w) ==
  /\ At(w, "store") /\ Decision[Id(w)] # "open" => OutcomeOf(work[w].tx) = Decision[Id(w)]
  /\ At(w, "complete") => Decision[Id(w)] = "open" /\ ~ HasCurrentStep(StoredFor(w))

WorkerDecided(w) ==
  IsBusy(w) => /\ ActsOn(Decision, work[w])
               /\ IF ServiceOf(w) = Starter THEN Decides(w) ELSE Follows(Decision, work[w])

StoreDecided(c, t) ==
  IF c = Starter
    THEN store[c][t].status = "COMPLETED" => ~ HasCurrentStep(store[c][t])
    ELSE \/ store[c][t] = Missing
         \/ /\ store[c][t].status \in Following
            /\ store[c][t].steps = NoSteps
            /\ OutcomeOf(store[c][t]) = Decision[t]

EverythingDecided ==
  /\ \A c \in Coordinators, t \in Transactions : StoreDecided(c, t)
  /\ \A c \in Coordinators : \A m \in events[c] \cup outbox[c] : Told(Decision, m)
  /\ \A w \in Workers : WorkerDecided(w)
  /\ \A t \in Transactions : work[t] \in {Idle, Called} => Decision[t] = "open"

-----------------------------------------------------------------------------
(* Outcomes and decisions *)

LEMMA Outcomes ==
  ASSUME NEW tx
  PROVE  /\ OutcomeOf(tx) \in {"open", "committed", "aborted"}
         /\ OutcomeOf(tx) = "committed" <=> tx.status = "COMPLETED"
         /\ OutcomeOf(tx) = "open" <=> tx.status \in {"NONE", "STARTED", "IN_PROGRESS"}
BY DEF OutcomeOf

(* What was decided holds of every later decision. *)
LEMMA DecisionsLast ==
  ASSUME NEW d, NEW later, \A t \in Transactions : d[t] \in {"open", later[t]}
  PROVE  /\ \A m : m.id \in Transactions /\ Told(d, m) => Told(later, m)
         /\ \A a : a.message.id \in Transactions =>
              /\ ActsOn(d, a) => ActsOn(later, a)
              /\ Follows(d, a) => Follows(later, a)
<1>1. ASSUME NEW m, m.id \in Transactions, Told(d, m)
      PROVE  Told(later, m)
  BY <1>1 DEF Told
<1>2. ASSUME NEW a, a.message.id \in Transactions, ActsOn(d, a)
      PROVE  ActsOn(later, a)
  BY <1>1, <1>2 DEF ActsOn
<1>3. ASSUME NEW a, a.message.id \in Transactions, Follows(d, a)
      PROVE  Follows(later, a)
  <2>1. a.pc = "store" => OutcomeOf(a.tx) # "open"
    BY <1>3, Outcomes DEF Follows, Following
  <2>2. QED BY <1>3, <2>1 DEF Follows
<1>4. QED BY <1>1, <1>2, <1>3

(* Nobody else of its service is about to publish or store what w stores. *)
LEMMA StorerIsAlone ==
  ASSUME TypeOK, RequestsComeFirst, NEW w \in Workers, IsBusy(w), At(w, "store"),
         NEW v \in Workers \ {w}, IsBusy(v), ~ Publishing(work[v])
  PROVE  ServiceOf(v) # ServiceOf(w) \/ Id(v) # Id(w)
<1>1. CASE v \in Coordinators /\ w \in Coordinators
  BY <1>1 DEF ServiceOf
<1>2. ASSUME NEW t \in Transactions, NEW u \in Workers \ {t},
             t \in {v, w}, u \in {v, w}
      PROVE  Id(u) # Id(t)
  <2>1. IsBusy(t) /\ ~ Publishing(work[t])
    BY <1>2 DEF Publishing, At
  <2>2. Alone(t) /\ Id(t) = t
    BY <2>1, OwnMessage DEF RequestsComeFirst, Early, IsBusy
  <2>3. CASE u \in Coordinators
    BY <1>2, <2>2, <2>3 DEF Alone
  <2>4. CASE u \in Transactions
    BY <1>2, <2>2, <2>4, OwnMessage
  <2>5. QED BY <2>3, <2>4 DEF Workers
<1>3. QED BY <1>1, <1>2 DEF Workers

-----------------------------------------------------------------------------
(* Every step keeps EverythingDecided, unless a key is lost *)

(* A worker that does not move is only disturbed by a store. *)
LEMMA StillDecided ==
  ASSUME TypeOK, NEW v \in Workers, WorkerDecided(v), work'[v] = work[v],
         \A t \in Transactions : Decision[t] \in {"open", Decision'[t]},
         ServiceOf(v) = Starter /\ IsBusy(v) /\ ~ Publishing(work[v])
           => StoredFor(v)' = StoredFor(v)
  PROVE  WorkerDecided(v)'
<1> SUFFICES ASSUME IsBusy(v)
             PROVE  WorkerDecided(v)'
  BY DEF WorkerDecided, IsBusy
<1>1. Id(v) \in Transactions /\ Id(v)' = Id(v) /\ ServiceOf(v)' = ServiceOf(v)
  BY WorkerType DEF Id, ServiceOf
<1>2. ActsOn(Decision, work[v])'
  BY <1>1, DecisionsLast DEF WorkerDecided, Id
<1>3. CASE ServiceOf(v) # Starter
  <2>1. Follows(Decision, work[v])'
    BY <1>1, <1>3, DecisionsLast DEF WorkerDecided, Id
  <2>2. QED BY <1>1, <1>2, <1>3, <2>1 DEF WorkerDecided
<1>4. CASE ServiceOf(v) = Starter
  <2>1. ~ Publishing(work[v]) => Decision'[Id(v)] = Decision[Id(v)]
    BY <1>1, <1>4 DEF Decision, StoredFor
  <2>2. Decides(v)'
    BY <1>1, <1>4, <2>1 DEF WorkerDecided, Decides, At, Publishing
  <2>3. QED BY <1>1, <1>2, <1>4, <2>2 DEF WorkerDecided
<1>5. QED BY <1>3, <1>4

(* Steps that store nothing. *)
LEMMA UndisturbedDecisions ==
  ASSUME TypeOK, EverythingDecided, store' = store,
         \A c \in Coordinators : \A m \in events'[c] \cup outbox'[c] : Told(Decision, m),
         \A v \in Workers :
           work'[v] = work[v] \/ work'[v] \notin Running \/ WorkerDecided(v)',
         \A t \in Transactions : work'[t] \in {Idle, Called} => work[t] \in {Idle, Called}
  PROVE  EverythingDecided'
<1>1. Decision' = Decision
  BY DEF Decision
<1>2. ASSUME NEW v \in Workers
      PROVE  WorkerDecided(v)'
  <2>1. CASE work'[v] = work[v]
    <3>1. StoredFor(v)' = StoredFor(v)
      BY <2>1 DEF StoredFor, ServiceOf, Id
    <3>2. QED BY <1>1, <2>1, <3>1, StillDecided DEF EverythingDecided
  <2>2. CASE work'[v] \notin Running
    BY <2>2 DEF WorkerDecided, IsBusy
  <2>3. QED BY <2>1, <2>2
<1>3. \A c \in Coordinators, t \in Transactions : StoreDecided(c, t)'
  BY <1>1 DEF EverythingDecided, StoreDecided
<1>4. QED BY <1>1, <1>2, <1>3 DEF EverythingDecided
(* A worker that goes on to store tx. *)
LEMMA StoringDecided ==
  ASSUME TypeOK, EverythingDecided, store' = store,
         NEW w \in Workers, NEW m, NEW tx, NEW point, StoreThen(w, m, tx, point),
         Told(Decision, m),
         point \notin {"complete", "startCompensation"},
         point \in {"compensateSteps", "publishCompensated"}
           => m.topic = "COMPENSATION_START",
         point = "notify" => OutcomeOf(tx) = "aborted",
         point = "publishCompleted" => OutcomeOf(tx) = "committed",
         tx.status = "COMPLETED" => ~ HasCurrentStep(tx),
         ServiceOf(w) = Starter => Decision[m.id] \in {"open", OutcomeOf(tx)},
         ServiceOf(w) # Starter =>
           /\ tx.steps = NoSteps /\ tx.status \in Following
           /\ OutcomeOf(tx) = Decision[m.id]
           /\ point \in {"done", "compensateSteps"}
  PROVE  /\ WorkerDecided(w)'
         /\ \A v \in Workers \ {w} : work'[v] = work[v]
         /\ work'[w] \notin {Idle, Called}
<1>1. /\ \A v \in Workers \ {w} : work'[v] = work[v]
      /\ work'[w] = [pc |-> "store", message |-> m, tx |-> tx, then |-> point]
  BY DEF StoreThen, TypeOK, WorkOK
<1>2. /\ work'[w].pc = "store" /\ work'[w].message = m
      /\ work'[w].tx = tx /\ work'[w].then = point
  BY <1>1
<1>3. Decision' = Decision
  BY DEF Decision
<1>4. ActsOn(Decision, work'[w])
  BY <1>2 DEF ActsOn, Heads
<1>5. ServiceOf(w) # Starter => Follows(Decision, work'[w])
  BY <1>2 DEF Follows
<1>6. ServiceOf(w) = Starter => Decides(w)'
  BY <1>2, <1>3 DEF Decides, At, Id
<1>7. WorkerDecided(w)'
  BY <1>3, <1>4, <1>5, <1>6 DEF WorkerDecided, ServiceOf
<1>8. work'[w] \notin {Idle, Called}
  BY <1>2 DEF Idle, Called
<1>9. QED BY <1>1, <1>7, <1>8

(* A worker that goes on to another point than a store. *)
LEMMA GoingDecided ==
  ASSUME TypeOK, EverythingDecided, store' = store,
         NEW w \in Workers, IsBusy(w), NEW point \in Points \ {"store"}, Goto(w, point),
         point \in {"notify", "startCompensation"} => Decision[Id(w)] = "aborted",
         point = "publishCompleted" => Decision[Id(w)] = "committed",
         point \in {"compensateSteps", "publishCompensated"}
           => work[w].message.topic = "COMPENSATION_START",
         ServiceOf(w) = Starter /\ point = "complete"
           => Decision[Id(w)] = "open" /\ ~ HasCurrentStep(StoredFor(w)),
         ServiceOf(w) # Starter => point = "publishCompensated"
  PROVE  /\ WorkerDecided(w)'
         /\ \A v \in Workers \ {w} : work'[v] = work[v]
         /\ work'[w] \notin {Idle, Called}
<1>1. /\ \A v \in Workers \ {w} : work'[v] = work[v]
      /\ work'[w] = [work[w] EXCEPT !.pc = point]
  BY DEF Goto, TypeOK, WorkOK
<1>2. /\ work'[w].pc = point /\ work'[w].message = work[w].message
      /\ work'[w].tx = work[w].tx /\ work'[w].then = work[w].then
  BY <1>1 DEF IsBusy, Running
<1>3. Decision' = Decision /\ Id(w)' = Id(w) /\ StoredFor(w)' = StoredFor(w)
  BY <1>2 DEF Decision, Id, StoredFor, ServiceOf
<1>4. ActsOn(Decision, work[w])
  BY DEF EverythingDecided, WorkerDecided
<1>5. ActsOn(Decision, work'[w])
  BY <1>2, <1>4 DEF ActsOn, Heads, Id
<1>6. ServiceOf(w) # Starter => Follows(Decision, work'[w])
  BY <1>2 DEF Follows
<1>7. ServiceOf(w) = Starter => Decides(w)'
  BY <1>2, <1>3 DEF Decides, At
<1>8. WorkerDecided(w)'
  BY <1>3, <1>5, <1>6, <1>7 DEF WorkerDecided, ServiceOf
<1>9. work'[w] \notin {Idle, Called}
  BY <1>2 DEF Idle, Called, Points
<1>10. QED BY <1>1, <1>8, <1>9

(* A worker that has finished. *)
LEMMA FinishedDecided ==
  ASSUME TypeOK, NEW w \in Workers, Finish(w)
  PROVE  /\ work'[w] \notin Running
         /\ \A v \in Workers \ {w} : work'[v] = work[v]
         /\ w \in Transactions => work'[w] \notin {Idle, Called}
BY PointsOnlyRunning DEF Finish, Finished, TypeOK, WorkOK, Idle, Called, Returned

(* A publication tells of the decision that was taken. *)
LEMMA PublicationsTold ==
  ASSUME TypeOK, EverythingDecided, outbox' = outbox, NEW m, Told(Decision, m), Publish(m)
  PROVE  \A c \in Coordinators : \A e \in events'[c] \cup outbox'[c] : Told(Decision, e)
BY DEF TypeOK, EverythingDecided, Publish

LEMMA StoreKeepsDecisions ==
  ASSUME TypeOK, RequestsComeFirst, EverythingDecided,
         NEW w \in Workers, StoreTransactionState(w)
  PROVE  EverythingDecided'
<1> DEFINE s == ServiceOf(w)
           t == Id(w)
           tx == work[w].tx
<1>1. /\ IsBusy(w) /\ At(w, "store") /\ s \in Coordinators /\ t \in Transactions
      /\ tx \in Transaction /\ work[w].then \in Points \ {"store"}
      /\ ActsOn(Decision, work[w]) /\ work[w].then # "startCompensation"
  BY WorkerType DEF StoreTransactionState, EverythingDecided, WorkerDecided, ActsOn
<1> HIDE DEF s, t, tx
<1>2. store' = [store EXCEPT ![s][t] = tx]
  BY DEF StoreTransactionState, s, t, tx
<1>3. /\ store'[s][t] = tx
      /\ \A c \in Coordinators, u \in Transactions :
           c # s \/ u # t => store'[c][u] = store[c][u]
  BY <1>1, <1>2 DEF TypeOK
<1>4. /\ \A u \in Transactions : u # t \/ s # Starter => Decision'[u] = Decision[u]
      /\ s = Starter => Decision'[t] = OutcomeOf(tx)
  BY <1>1, <1>3, CoordinatorsAssumption DEF Decision
<1>5. s = Starter => Decision[t] \in {"open", OutcomeOf(tx)}
  BY <1>1 DEF EverythingDecided, WorkerDecided, Decides, s, t, tx
<1>6. \A u \in Transactions : Decision[u] \in {"open", Decision'[u]}
  BY <1>4, <1>5
<1>7. ASSUME NEW c \in Coordinators, NEW u \in Transactions
      PROVE  StoreDecided(c, u)'
  <2>1. StoreDecided(c, u)
    BY DEF EverythingDecided
  <2>2. CASE c # s \/ u # t
    <3>1. store'[c][u] = store[c][u]
      BY <1>3, <2>2
    <3>2. Decision[u] \in {"open", Decision'[u]}
      BY <1>6
    <3>3. QED BY <2>1, <3>1, <3>2, Outcomes DEF StoreDecided, Following
  <2>3. CASE c = s /\ u = t /\ s = Starter
    BY <1>1, <1>3, <2>3 DEF StoreDecided, ActsOn, At, tx
  <2>4. CASE c = s /\ u = t /\ s # Starter
    <3>1. Follows(Decision, work[w])
      BY <1>1, <2>4 DEF EverythingDecided, WorkerDecided, s
    <3>2. tx.steps = NoSteps /\ tx.status \in Following /\ OutcomeOf(tx) = Decision'[t]
      BY <1>1, <1>4, <2>4, <3>1 DEF Follows, At, Id, t, tx
    <3>3. QED BY <1>3, <2>4, <3>2 DEF StoreDecided
  <2>5. QED BY <2>2, <2>3, <2>4
<1>8. ASSUME NEW c \in Coordinators, NEW m \in events'[c] \cup outbox'[c]
      PROVE  Told(Decision, m)'
  <2>1. m \in events[c] \cup outbox[c] /\ Told(Decision, m)
    BY <1>8 DEF StoreTransactionState, EverythingDecided
  <2>2. CASE m.id \in Transactions
    BY <1>6, <2>1, <2>2, DecisionsLast
  <2>3. m.id \in Transactions
    BY <2>1 DEF TypeOK, Message, Event, Command, Notice
  <2>4. QED BY <2>2, <2>3
<1>9. ASSUME NEW v \in Workers \ {w}
      PROVE  WorkerDecided(v)'
  <2>1. work'[v] = work[v]
    BY DEF StoreTransactionState, Finish, Goto, TypeOK, WorkOK
  <2>2. ASSUME ServiceOf(v) = Starter, IsBusy(v), ~ Publishing(work[v])
        PROVE  StoredFor(v)' = StoredFor(v)
    <3>1. ServiceOf(v) # s \/ Id(v) # t
      BY <1>1, <2>2, StorerIsAlone DEF s, t
    <3>2. ServiceOf(v) \in Coordinators /\ Id(v) \in Transactions
      BY <2>2, WorkerType
    <3>3. ServiceOf(v)' = ServiceOf(v) /\ Id(v)' = Id(v)
      BY <2>1 DEF ServiceOf, Id
    <3>4. QED BY <1>3, <3>1, <3>2, <3>3 DEF StoredFor
  <2>3. QED BY <1>6, <2>1, <2>2, StillDecided DEF EverythingDecided
<1>10. WorkerDecided(w)'
  <2>1. CASE work[w].then = "done"
    <3>1. Finish(w)
      BY <2>1 DEF StoreTransactionState
    <3>2. QED BY <3>1, FinishedDecided DEF WorkerDecided, IsBusy
  <2>2. CASE work[w].then # "done"
    <3>1. work'[w] = [work[w] EXCEPT !.pc = work[w].then]
      BY <2>2 DEF StoreTransactionState, Goto, TypeOK, WorkOK
    <3>2. /\ work'[w].pc = work[w].then /\ work'[w].message = work[w].message
          /\ work'[w].tx = work[w].tx /\ work'[w].then = work[w].then
      BY <1>1, <3>1 DEF IsBusy, Running
    <3>3. Told(Decision', work[w].message)
      BY <1>1, <1>6, DecisionsLast DEF ActsOn, t, Id
    <3>4. /\ work[w].then \notin {"store", "startCompensation", "complete"}
          /\ work[w].then = "notify" => OutcomeOf(tx) = "aborted"
          /\ work[w].then = "publishCompleted" => OutcomeOf(tx) = "committed"
          /\ work[w].then \in {"compensateSteps", "publishCompensated"}
               => work[w].message.topic = "COMPENSATION_START"
      BY <1>1 DEF ActsOn, Heads, At, tx
    <3>5. CASE s = Starter
      <4>1. work[w].message.id = t /\ Decision'[t] = OutcomeOf(tx)
        BY <1>4, <3>5 DEF t, Id
      <4>2. ActsOn(Decision', work'[w])
        BY <3>2, <3>3, <3>4, <4>1 DEF ActsOn, Heads
      <4>3. Decides(w)'
        BY <3>2, <3>4 DEF Decides, At
      <4>4. QED BY <3>5, <4>2, <4>3 DEF WorkerDecided, ServiceOf, s
    <3>6. CASE s # Starter
      <4>1. Follows(Decision, work[w])
        BY <1>1, <3>6 DEF EverythingDecided, WorkerDecided, s
      <4>2. work[w].then = "compensateSteps" /\ tx.steps = NoSteps
        BY <1>1, <2>2, <4>1 DEF Follows, At, tx
      <4>3. ActsOn(Decision', work'[w])
        BY <3>2, <3>3, <3>4, <4>2 DEF ActsOn, Heads
      <4>4. Follows(Decision', work'[w])
        BY <3>2, <4>2 DEF Follows, tx
      <4>5. QED BY <3>6, <4>3, <4>4 DEF WorkerDecided, ServiceOf, s
    <3>7. QED BY <3>5, <3>6
  <2>3. QED BY <2>1, <2>2
<1>11. ASSUME NEW u \in Transactions, work'[u] \in {Idle, Called}
       PROVE  Decision'[u] = "open"
  <2>1. u \in Workers /\ work[u] \in {Idle, Called} /\ u # w
    <3>1. u \in Workers
      BY DEF Workers
    <3>2. CASE u = w
      <4>1. work[w].then = "done" => work'[w] \notin {Idle, Called}
        BY <3>2, FinishedDecided DEF StoreTransactionState
      <4>2. work[w].then # "done" => work'[w] = [work[w] EXCEPT !.pc = work[w].then]
        BY DEF StoreTransactionState, Goto, TypeOK, WorkOK
      <4>3. work[w].then # "done" => work'[w].pc \in Points
        BY <1>1, <4>2 DEF IsBusy, Running
      <4>4. QED BY <1>11, <3>2, <4>1, <4>3 DEF Idle, Called, Points
    <3>3. CASE u # w
      BY <1>11, <3>1, <3>3 DEF StoreTransactionState, Finish, Goto, TypeOK, WorkOK
    <3>4. QED BY <3>1, <3>2, <3>3
  <2>2. Alone(u) /\ Decision[u] = "open"
    BY <2>1, NotEarly DEF RequestsComeFirst, EverythingDecided
  <2>3. t # u
    <3>1. CASE w \in Coordinators
      BY <1>1, <2>2, <3>1 DEF Alone, t
    <3>2. CASE w \in Transactions
      BY <1>1, <2>1, <3>2, OwnMessage DEF t
    <3>3. QED BY <3>1, <3>2 DEF Workers
  <2>4. QED BY <1>4, <2>2, <2>3
<1>12. QED BY <1>7, <1>8, <1>9, <1>10, <1>11 DEF EverythingDecided
LEMMA ContinueDecided ==
  ASSUME TypeOK, RequestsComeFirst, EverythingDecided,
         NEW w \in Workers, Continue(w)
  PROVE  EverythingDecided'
<1>1. /\ IsBusy(w) /\ Id(w) \in Transactions /\ work[w].tx \in Transaction
      /\ ServiceOf(w) \in Coordinators /\ StoredFor(w) \in Transaction
      /\ work[w].message.id = Id(w)
  <2>1. IsBusy(w)
    BY DEF Continue, StoreTransactionState, ProgressTransaction, PublishStep,
      CompleteTransaction, PublishCompleted, SendUserNotification, StartCompensation,
      CompensateSteps, PublishCompensated
  <2>2. QED BY <2>1, WorkerType DEF Id
<1>2. /\ ActsOn(Decision, work[w]) /\ Told(Decision, work[w].message)
      /\ ServiceOf(w) = Starter => Decides(w)
      /\ ServiceOf(w) # Starter => Follows(Decision, work[w])
  BY <1>1 DEF EverythingDecided, WorkerDecided, ActsOn
<1>3. ServiceOf(w) = Starter => Decision[Id(w)] = OutcomeOf(StoredFor(w))
  BY <1>1 DEF Decision, StoredFor
<1>4. ASSUME store' = store,
             \A c \in Coordinators : \A m \in events'[c] \cup outbox'[c] : Told(Decision, m),
             \A v \in Workers \ {w} : work'[v] = work[v],
             work'[w] \notin Running \/ WorkerDecided(w)',
             w \in Transactions => work'[w] \notin {Idle, Called}
      PROVE  EverythingDecided'
  <2>1. \A t \in Transactions : work'[t] \in {Idle, Called} => work[t] \in {Idle, Called}
    BY <1>4 DEF Workers
  <2>2. QED BY <1>4, <2>1, UndisturbedDecisions
<1>5. \A c \in Coordinators : \A m \in events[c] \cup outbox[c] : Told(Decision, m)
  BY DEF EverythingDecided
<1>6. CASE StoreTransactionState(w)
  BY <1>6, StoreKeepsDecisions
<1>7. CASE ProgressTransaction(w)
  <2>1. UNCHANGED <<store, events, outbox>> /\ ServiceOf(w) = Starter
    BY <1>2, <1>7 DEF ProgressTransaction, Follows, At
  <2>2. CASE Finish(w)
    BY <1>4, <1>5, <2>1, <2>2, FinishedDecided
  <2>3. CASE ~ Finish(w)
    <3>1. StoredFor(w).status \in {"STARTED", "IN_PROGRESS"}
      BY <1>7, <2>3 DEF ProgressTransaction
    <3>2. Decision[Id(w)] = "open"
      BY <1>3, <2>1, <3>1, Outcomes
    <3>3. CASE HasCurrentStep(StoredFor(w))
      <4>1. StoreThen(w, work[w].message, InProgress(StoredFor(w)), "publishStep")
        BY <1>7, <3>1, <3>3 DEF ProgressTransaction
      <4>2. InProgress(StoredFor(w)).status = "IN_PROGRESS"
        BY <1>1 DEF InProgress, Transaction
      <4>3. WorkerDecided(w)' /\ work'[w] \notin {Idle, Called}
            /\ \A v \in Workers \ {w} : work'[v] = work[v]
        BY <1>1, <1>2, <2>1, <3>2, <4>1, <4>2, StoringDecided
      <4>4. QED BY <1>4, <1>5, <2>1, <4>3
    <3>4. CASE ~ HasCurrentStep(StoredFor(w))
      <4>1. Goto(w, "complete")
        BY <1>7, <3>1, <3>4 DEF ProgressTransaction
      <4>2. WorkerDecided(w)' /\ work'[w] \notin {Idle, Called}
            /\ \A v \in Workers \ {w} : work'[v] = work[v]
        BY <1>1, <2>1, <3>2, <3>4, <4>1, GoingDecided DEF Points
      <4>3. QED BY <1>4, <1>5, <2>1, <4>2
    <3>5. QED BY <3>3, <3>4
  <2>4. QED BY <2>2, <2>3
<1>8. CASE PublishStep(w) \/ PublishCompleted(w) \/ PublishCompensated(w)
  <2>1. UNCHANGED <<store, outbox>> /\ Finish(w)
    BY <1>8 DEF PublishStep, PublishCompleted, PublishCompensated
  <2>2. PICK m : Publish(m) /\ Told(Decision, m)
    <3>1. CASE PublishStep(w)
      <4>1. \A i : Told(Decision, StepMessage("EXECUTE", Id(w), i))
        BY DEF Told, StepMessage
      <4>2. QED BY <3>1, <4>1 DEF PublishStep
    <3>2. CASE PublishCompleted(w)
      <4>1. Decision[Id(w)] = "committed"
        BY <1>1, <1>2, <3>2 DEF PublishCompleted, ActsOn, At
      <4>2. Told(Decision, Msg("COMPLETED", Id(w)))
        BY <4>1 DEF Told, Msg, StepMessage
      <4>3. QED BY <3>2, <4>2 DEF PublishCompleted
    <3>3. CASE PublishCompensated(w)
      <4>1. Decision[Id(w)] = "aborted"
        BY <1>1, <1>2, <3>3 DEF PublishCompensated, ActsOn, Heads, At, Told
      <4>2. Told(Decision, Msg("COMPENSATION_COMPLETED", Id(w)))
        BY <4>1 DEF Told, Msg, StepMessage
      <4>3. QED BY <3>3, <4>2 DEF PublishCompensated
    <3>4. QED BY <1>8, <3>1, <3>2, <3>3
  <2>3. \A c \in Coordinators : \A e \in events'[c] \cup outbox'[c] : Told(Decision, e)
    BY <2>1, <2>2, PublicationsTold
  <2>4. QED BY <1>4, <2>1, <2>3, FinishedDecided
<1>9. CASE CompleteTransaction(w)
  <2>1. UNCHANGED <<store, events, outbox>> /\ ServiceOf(w) = Starter
    BY <1>2, <1>9 DEF CompleteTransaction, Follows, At
  <2>2. CASE Finish(w)
    BY <1>4, <1>5, <2>1, <2>2, FinishedDecided
  <2>3. CASE StoreThen(w, work[w].message, [StoredFor(w) EXCEPT !.status = "COMPLETED"],
                       "publishCompleted")
    <3>1. Decision[Id(w)] = "open" /\ ~ HasCurrentStep(StoredFor(w))
      BY <1>2, <1>9, <2>1 DEF CompleteTransaction, Decides
    <3> DEFINE tx == [StoredFor(w) EXCEPT !.status = "COMPLETED"]
    <3>2. /\ tx.status = "COMPLETED"
          /\ tx.steps = StoredFor(w).steps
          /\ tx.currentStep = StoredFor(w).currentStep
      BY <1>1 DEF Transaction
    <3>3. StoreThen(w, work[w].message, tx, "publishCompleted")
      BY <2>3
    <3> HIDE DEF tx
    <3>4. ~ HasCurrentStep(tx) /\ OutcomeOf(tx) = "committed"
      BY <3>1, <3>2, Outcomes DEF HasCurrentStep
    <3>5. WorkerDecided(w)' /\ work'[w] \notin {Idle, Called}
          /\ \A v \in Workers \ {w} : work'[v] = work[v]
      BY <1>1, <1>2, <2>1, <3>1, <3>2, <3>3, <3>4, StoringDecided
    <3>6. QED BY <1>4, <1>5, <2>1, <3>5
  <2>4. QED BY <1>9, <2>2, <2>3 DEF CompleteTransaction
<1>10. CASE SendUserNotification(w)
  <2>1. /\ UNCHANGED <<store, outbox>> /\ Goto(w, "startCompensation")
        /\ events' = events \/ Publish(Msg("USER_NOTIFICATION", Id(w)))
        /\ ServiceOf(w) = Starter
    BY <1>2, <1>10 DEF SendUserNotification, Follows, At
  <2>2. Decision[Id(w)] = "aborted"
    BY <1>1, <1>2, <1>10 DEF SendUserNotification, ActsOn, At
  <2>3. Told(Decision, Msg("USER_NOTIFICATION", Id(w)))
    BY DEF Told, Msg, StepMessage
  <2>4. \A c \in Coordinators : \A e \in events'[c] \cup outbox'[c] : Told(Decision, e)
    BY <1>5, <2>1, <2>3, PublicationsTold
  <2>5. WorkerDecided(w)' /\ work'[w] \notin {Idle, Called}
        /\ \A v \in Workers \ {w} : work'[v] = work[v]
    BY <1>1, <2>1, <2>2, GoingDecided DEF Points
  <2>6. QED BY <1>4, <2>1, <2>4, <2>5
<1>11. CASE StartCompensation(w)
  <2>1. /\ UNCHANGED <<store, outbox>> /\ Finish(w)
        /\ events' = events \/ Publish(Msg("COMPENSATION_START", Id(w)))
    BY <1>11 DEF StartCompensation
  <2>2. Decision[Id(w)] = "aborted"
    BY <1>1, <1>2, <1>11 DEF StartCompensation, ActsOn, At
  <2>3. Told(Decision, Msg("COMPENSATION_START", Id(w)))
    BY <2>2 DEF Told, Msg, StepMessage
  <2>4. \A c \in Coordinators : \A e \in events'[c] \cup outbox'[c] : Told(Decision, e)
    BY <1>5, <2>1, <2>3, PublicationsTold
  <2>5. QED BY <1>4, <2>1, <2>4, FinishedDecided
<1>12. CASE CompensateSteps(w)
  <2>1. UNCHANGED <<store, events>>
    BY <1>12 DEF CompensateSteps
  <2>2. /\ work[w].message.topic = "COMPENSATION_START"
        /\ Decision[Id(w)] = "aborted"
    BY <1>1, <1>2, <1>12 DEF CompensateSteps, ActsOn, Heads, At, Told
  <2>3. \A c \in Coordinators : \A m \in events'[c] \cup outbox'[c] : Told(Decision, m)
    <3> SUFFICES ASSUME NEW c \in Coordinators, NEW m \in outbox'[c]
                 PROVE  Told(Decision, m)
      BY <1>5, <2>1
    <3>1. m \in outbox[c] \/ m.topic = "COMPENSATE"
      BY <1>1, <1>12 DEF CompensateSteps, PublishLater, StepMessage, TypeOK
    <3>2. QED BY <1>5, <3>1 DEF Told
  <2>4. CASE Goto(w, "publishCompensated")
    <3>1. WorkerDecided(w)' /\ work'[w] \notin {Idle, Called}
          /\ \A v \in Workers \ {w} : work'[v] = work[v]
      BY <1>1, <2>1, <2>2, <2>4, GoingDecided DEF Points
    <3>2. QED BY <1>4, <2>1, <2>3, <3>1
  <2>5. CASE ~ Goto(w, "publishCompensated")
    <3>1. /\ StoreThen(w, work[w].message, Compensated(work[w].tx), "publishCompensated")
          /\ work[w].tx.steps # NoSteps
      BY <1>12, <2>5 DEF CompensateSteps
    <3>2. ServiceOf(w) = Starter
      BY <1>2, <1>12, <3>1 DEF CompensateSteps, Follows, At
    <3>3. Compensated(work[w].tx).status = "COMPENSATED"
      BY <1>1 DEF Compensated, Transaction
    <3>4. OutcomeOf(Compensated(work[w].tx)) = "aborted"
      BY <3>3 DEF OutcomeOf
    <3>5. WorkerDecided(w)' /\ work'[w] \notin {Idle, Called}
          /\ \A v \in Workers \ {w} : work'[v] = work[v]
      BY <1>1, <1>2, <2>1, <2>2, <3>1, <3>2, <3>3, <3>4, StoringDecided
    <3>6. QED BY <1>4, <2>1, <2>3, <3>5
  <2>6. QED BY <2>4, <2>5
<1>13. QED BY <1>6, <1>7, <1>8, <1>9, <1>10, <1>11, <1>12 DEF Continue
LEMMA HandleDecided ==
  ASSUME TypeOK, EverythingDecided, NEW c \in Coordinators, NEW e \in events[c], Handle(c, e)
  PROVE  EverythingDecided'
<1> DEFINE tx == store[c][e.id]
<1>1. Deliver(c, e) /\ UNCHANGED <<store, outbox>>
  BY DEF Handle, HandleStepCompleted, HandleStepFailed, HandleTimeout,
    HandleCompensationStart, HandleCompensationCompleted, HandleCompleted
<1>2. /\ c \in Workers /\ ServiceOf(c) = c /\ e.id \in Transactions
      /\ tx \in Transaction /\ Told(Decision, e) /\ StoreDecided(c, e.id)
  BY <1>1, DeliverType DEF EverythingDecided, ServiceOf, Workers
<1>3. c = Starter => OutcomeOf(tx) = Decision[e.id]
  BY <1>2 DEF Decision
<1>4. c # Starter =>
        /\ tx.steps = NoSteps /\ tx.status \in Following \cup {"NONE"}
        /\ tx = Missing \/ OutcomeOf(tx) = Decision[e.id]
  BY <1>2 DEF StoreDecided, Missing, Minimal
<1>5. HasCurrentStep(tx) => c = Starter /\ tx.status # "COMPLETED"
  BY <1>2, <1>4 DEF StoreDecided, HasCurrentStep, NoSteps
<1>6. \A d \in Coordinators : \A m \in events'[d] \cup outbox'[d] : Told(Decision, m)
  BY <1>1 DEF EverythingDecided, Deliver, TypeOK
<1>7. CASE UNCHANGED work
  BY <1>1, <1>6, <1>7, UndisturbedDecisions
<1>8. ASSUME NEW new, NEW point,
             StoreThen(c, e, new, point),
             point \notin {"complete", "startCompensation"},
             point = "compensateSteps" => e.topic = "COMPENSATION_START",
             point \notin {"publishCompensated", "publishCompleted"},
             point = "notify" => OutcomeOf(new) = "aborted",
             new.status = "COMPLETED" => ~ HasCurrentStep(new),
             c = Starter => Decision[e.id] \in {"open", OutcomeOf(new)},
             c # Starter =>
               /\ new.steps = NoSteps /\ new.status \in Following
               /\ OutcomeOf(new) = Decision[e.id]
               /\ point \in {"done", "compensateSteps"}
      PROVE  EverythingDecided'
  <2>1. /\ WorkerDecided(c)' /\ work'[c] \notin {Idle, Called}
        /\ \A v \in Workers \ {c} : work'[v] = work[v]
    BY <1>1, <1>2, <1>8, StoringDecided
  <2>2. \A t \in Transactions : work'[t] \in {Idle, Called} => work[t] \in {Idle, Called}
    BY <2>1 DEF Workers
  <2>3. QED BY <1>1, <1>6, <2>1, <2>2, UndisturbedDecisions
<1> HIDE DEF tx
<1>9. \A status : LET new == [tx EXCEPT !.status = status]
                  IN  /\ new.status = status /\ new.steps = tx.steps
                      /\ new.currentStep = tx.currentStep
  BY <1>2 DEF Transaction
<1>10. CASE HandleStepCompleted(c, e)
  <2>1. SUFFICES ASSUME HasCurrentStep(tx), StoreThen(c, e, CompleteCurrentStep(tx), "progress")
                 PROVE  EverythingDecided'
    BY <1>7, <1>10 DEF HandleStepCompleted, tx
  <2>2. CompleteCurrentStep(tx).status = tx.status
    BY <1>2 DEF CompleteCurrentStep, Transaction
  <2>3. OutcomeOf(CompleteCurrentStep(tx)) = OutcomeOf(tx)
    BY <2>2 DEF OutcomeOf
  <2>4. QED BY <1>3, <1>5, <1>8, <2>1, <2>2, <2>3
<1>11. CASE HandleStepFailed(c, e)
  <2>1. SUFFICES ASSUME HasCurrentStep(tx), StoreThen(c, e, FailCurrentStep(tx), "notify")
                 PROVE  EverythingDecided'
    BY <1>7, <1>11 DEF HandleStepFailed, tx
  <2>2. FailCurrentStep(tx).status = "FAILED"
    BY <1>2 DEF FailCurrentStep, Transaction
  <2>3. OutcomeOf(FailCurrentStep(tx)) = "aborted"
    BY <2>2 DEF OutcomeOf
  <2>4. Decision[e.id] # "committed"
    BY <1>3, <1>5, <2>1, Outcomes
  <2>5. Decision[e.id] \in {"open", "aborted"}
    BY <1>3, <1>5, <2>1, <2>4, Outcomes
  <2>6. QED BY <1>5, <1>8, <2>1, <2>2, <2>3, <2>5
<1>12. CASE HandleTimeout(c, e)
  <2> DEFINE new == [tx EXCEPT !.status = "TIMED_OUT"]
  <2>1. new.status = "TIMED_OUT"
    BY <1>9
  <2>2. SUFFICES ASSUME tx.status = "IN_PROGRESS", StoreThen(c, e, new, "notify")
                 PROVE  EverythingDecided'
    BY <1>7, <1>12 DEF HandleTimeout, tx
  <2> HIDE DEF new
  <2>3. c = Starter
    BY <1>4, <2>2 DEF Following
  <2>4. OutcomeOf(new) = "aborted" /\ Decision[e.id] = "open"
    BY <1>3, <2>1, <2>2, <2>3 DEF OutcomeOf
  <2>5. QED BY <1>8, <2>1, <2>2, <2>3, <2>4
<1>13. CASE HandleCompensationStart(c, e)
  <2>1. e.topic = "COMPENSATION_START" /\ Decision[e.id] = "aborted"
    BY <1>2, <1>13 DEF HandleCompensationStart, Told
  <2>2. \A new : new.status = "COMPENSATING" => OutcomeOf(new) = "aborted"
    BY DEF OutcomeOf
  <2>3. CASE StoreThen(c, e, Minimal("COMPENSATING"), "done")
    <3>1. Minimal("COMPENSATING").status = "COMPENSATING"
          /\ Minimal("COMPENSATING").steps = NoSteps
      BY DEF Minimal
    <3>2. QED BY <1>8, <2>1, <2>2, <2>3, <3>1 DEF Following
  <2>4. CASE StoreThen(c, e, [tx EXCEPT !.status = "COMPENSATING"], "compensateSteps")
    <3> DEFINE new == [tx EXCEPT !.status = "COMPENSATING"]
    <3>1. new.status = "COMPENSATING" /\ new.steps = tx.steps
      BY <1>9
    <3>2. StoreThen(c, e, new, "compensateSteps")
      BY <2>4
    <3> HIDE DEF new
    <3>3. QED BY <1>4, <1>8, <2>1, <2>2, <3>1, <3>2 DEF Following
  <2>5. QED BY <1>7, <1>13, <2>3, <2>4 DEF HandleCompensationStart, tx
<1>14. CASE HandleCompensationCompleted(c, e)
  <2> DEFINE new == [tx EXCEPT !.status = "COMPENSATED"]
  <2>1. new.status = "COMPENSATED" /\ new.steps = tx.steps
    BY <1>9
  <2>2. SUFFICES ASSUME StoreThen(c, e, new, "done")
                 PROVE  EverythingDecided'
    BY <1>7, <1>14 DEF HandleCompensationCompleted, tx
  <2> HIDE DEF new
  <2>3. OutcomeOf(new) = "aborted" /\ Decision[e.id] = "aborted"
    BY <1>2, <1>14, <2>1 DEF HandleCompensationCompleted, Told, OutcomeOf
  <2>4. QED BY <1>4, <1>8, <2>1, <2>2, <2>3 DEF Following
<1>15. CASE HandleCompleted(c, e)
  <2>1. Decision[e.id] = "committed"
    BY <1>2, <1>15 DEF HandleCompleted, Told
  <2>2. CASE StoreThen(c, e, Minimal("COMPLETED"), "done")
    <3>1. /\ Minimal("COMPLETED").status = "COMPLETED"
          /\ Minimal("COMPLETED").steps = NoSteps
          /\ ~ HasCurrentStep(Minimal("COMPLETED"))
      BY DEF Minimal, HasCurrentStep, NoSteps
    <3>2. OutcomeOf(Minimal("COMPLETED")) = "committed"
      BY <3>1 DEF OutcomeOf
    <3>3. QED BY <1>8, <2>1, <2>2, <3>1, <3>2 DEF Following
  <2>3. CASE tx # Missing /\ tx.status # "COMPLETED"
    <3>1. c # Starter
      BY <1>3, <2>1, <2>3, Outcomes
    <3>2. OutcomeOf(tx) = "committed"
      BY <1>4, <2>1, <2>3, <3>1
    <3>3. QED BY <2>3, <3>2, Outcomes
  <2>4. QED BY <1>7, <1>15, <2>2, <2>3 DEF HandleCompleted, tx
<1>16. QED BY <1>10, <1>11, <1>12, <1>13, <1>14, <1>15 DEF Handle
(* Restarts, faults, participants and requests decide nothing. *)
LEMMA RestartDecided ==
  ASSUME TypeOK, EverythingDecided, NEW c \in Coordinators, Restart(c)
  PROVE  EverythingDecided'
<1>1. c \in Workers /\ store' = store
  BY DEF Workers, Restart
<1>2. IsBusy(c) => Told(Decision, work[c].message)
  BY <1>1 DEF EverythingDecided, WorkerDecided, ActsOn
<1>3. \A d \in Coordinators : \A m \in events'[d] \cup outbox'[d] : Told(Decision, m)
  BY <1>2 DEF Restart, EverythingDecided, TypeOK
<1>4. \A v \in Workers : work'[v] = work[v] \/ work'[v] \notin Running
  BY PointsOnlyRunning DEF Restart
<1>5. \A t \in Transactions : work'[t] \in {Idle, Called} => work[t] \in {Idle, Called}
  BY CoordinatorsAssumption DEF Restart, Workers, Idle, Called, Ended
<1>6. QED BY <1>1, <1>3, <1>4, <1>5, UndisturbedDecisions

LEMMA OthersDecided ==
  ASSUME TypeOK, EverythingDecided, NEW c \in Coordinators
  PROVE  /\ \A t \in Transactions :
              CheckTimeout(c, t) \/ CheckerFails(c, t) => EverythingDecided'
         /\ Crash(c) \/ Rebalance(c) => EverythingDecided'
         /\ \A e \in events[c] : FirstReadFails(c, e) => EverythingDecided'
         /\ \A m \in outbox[c] : Flush(c, m) => EverythingDecided'
<1>1. ASSUME NEW t \in Transactions, CheckTimeout(c, t)
      PROVE  EverythingDecided'
  <2>1. Told(Decision, Msg("TIMEOUT", t))
    BY DEF Told, Msg, StepMessage
  <2>2. QED
    BY <1>1, <2>1, UndisturbedDecisions DEF CheckTimeout, PublishLater, EverythingDecided, TypeOK
<1>2. Crash(c) \/ (\E t \in Transactions : CheckerFails(c, t)) => EverythingDecided'
  BY RestartDecided DEF CheckerFails, Crash
<1>3. ASSUME NEW m \in outbox[c], Flush(c, m)
      PROVE  EverythingDecided'
  <2>1. Told(Decision, m)
    BY DEF EverythingDecided
  <2>2. \A d \in Coordinators : \A e \in events'[d] \cup outbox'[d] : Told(Decision, e)
    BY <1>3, <2>1 DEF Flush, Publish, EverythingDecided, TypeOK
  <2>3. QED BY <1>3, <2>2, UndisturbedDecisions DEF Flush
<1>4. Rebalance(c) => EverythingDecided'
  BY UndisturbedDecisions DEF Rebalance, EverythingDecided
<1>5. ASSUME NEW e \in events[c], FirstReadFails(c, e)
      PROVE  EverythingDecided'
  <2>1. \A d \in Coordinators : \A m \in events'[d] \cup outbox'[d] : Told(Decision, m)
    BY <1>5 DEF FirstReadFails, EverythingDecided, TypeOK
  <2>2. QED BY <1>5, <2>1, UndisturbedDecisions DEF FirstReadFails
<1>6. QED BY <1>1, <1>2, <1>3, <1>4, <1>5

(* A rejected call ends the handler or the request, but the read before a  *)
(* notification: the handler of an aborted transaction goes on.            *)
LEMMA RejectionsDecided ==
  ASSUME TypeOK, EverythingDecided, NEW w \in Workers,
         PublishFails(w) \/ StoreFails(w) \/ ReadFails(w)
  PROVE  EverythingDecided'
<1>1. UNCHANGED <<store, events, outbox>> /\ IsBusy(w)
  BY DEF PublishFails, StoreFails, ReadFails
<1>2. \A c \in Coordinators : \A m \in events'[c] \cup outbox'[c] : Told(Decision, m)
  BY <1>1 DEF EverythingDecided
<1>3. CASE At(w, "notify") /\ Goto(w, "startCompensation")
  <2>1. Decision[Id(w)] = "aborted" /\ ServiceOf(w) = Starter
    BY <1>1, <1>3 DEF EverythingDecided, WorkerDecided, ActsOn, Follows, At, Id
  <2>2. WorkerDecided(w)' /\ work'[w] \notin {Idle, Called}
        /\ \A v \in Workers \ {w} : work'[v] = work[v]
    BY <1>1, <1>3, <2>1, GoingDecided DEF Points
  <2>3. \A t \in Transactions : work'[t] \in {Idle, Called} => work[t] \in {Idle, Called}
    BY <2>2 DEF Workers
  <2>4. QED BY <1>1, <1>2, <2>2, <2>3, UndisturbedDecisions
<1>4. CASE work' = [work EXCEPT ![w] = IF w \in Transactions THEN Ended ELSE Idle]
  <2>1. \A v \in Workers : work'[v] = work[v] \/ work'[v] \notin Running
    BY <1>4, PointsOnlyRunning DEF TypeOK, WorkOK
  <2>2. \A u \in Transactions : work'[u] \in {Idle, Called} => work[u] \in {Idle, Called}
    <3> SUFFICES ASSUME NEW u \in Transactions, work'[u] \in {Idle, Called}
                 PROVE  work[u] \in {Idle, Called}
      OBVIOUS
    <3>1. u \in Workers
      BY DEF Workers
    <3>2. u = w => work'[u] = Ended
      BY <1>4, <3>1 DEF TypeOK, WorkOK
    <3>3. u # w => work'[u] = work[u]
      BY <1>4, <3>1 DEF TypeOK, WorkOK
    <3>4. QED BY <3>2, <3>3 DEF Idle, Called, Ended
  <2>3. QED BY <1>1, <1>2, <2>1, <2>2, UndisturbedDecisions
<1>5. QED BY <1>3, <1>4 DEF PublishFails, StoreFails, ReadFails

LEMMA ParticipantDecided ==
  ASSUME TypeOK, EverythingDecided, NEW t \in Transactions, NEW i \in StepIndex,
         \/ PerformStep(i, t) \/ RejectStep(i, t)
         \/ ReportFailure(i, t) \/ TakeCompensation(i, t)
  PROVE  EverythingDecided'
<1>1. UNCHANGED <<store, events, work>>
  BY DEF PerformStep, RejectStep, ReportFailure, TakeCompensation
<1>2. \A c \in Coordinators : \A m \in outbox'[c] :
        m \in outbox[c] \/ m.topic \in {"STEP_COMPLETED", "STEP_FAILED"}
  BY DEF PerformStep, RejectStep, ReportFailure, TakeCompensation, PublishLater,
    StepMessage, TypeOK
<1>3. \A c \in Coordinators : \A m \in events'[c] \cup outbox'[c] : Told(Decision, m)
  BY <1>1, <1>2 DEF EverythingDecided, Told
<1>4. QED BY <1>1, <1>3, UndisturbedDecisions

LEMMA RequestDecided ==
  ASSUME TypeOK, EverythingDecided, NEW t \in Transactions,
         BeginRequest(t) \/ StartTransaction(t) \/ EndRequest(t)
  PROVE  EverythingDecided'
<1>1. UNCHANGED <<store, events>> /\ t \in Workers /\ t \notin Coordinators
  BY CoordinatorsAssumption DEF BeginRequest, StartTransaction, EndRequest, Workers
<1>2. \A c \in Coordinators : \A m \in outbox'[c] :
        m \in outbox[c] \/ m.topic = "USER_NOTIFICATION"
  BY DEF BeginRequest, StartTransaction, EndRequest, PublishLater, Msg, StepMessage, TypeOK
<1>3. \A c \in Coordinators : \A m \in events'[c] \cup outbox'[c] : Told(Decision, m)
  BY <1>1, <1>2 DEF EverythingDecided, Told
<1>4. CASE BeginRequest(t) \/ EndRequest(t)
  <2>1. \A v \in Workers : work'[v] = work[v] \/ work'[v] \notin Running
    BY <1>4, PointsOnlyRunning DEF BeginRequest, EndRequest, TypeOK, WorkOK
  <2>2. \A u \in Transactions : work'[u] \in {Idle, Called} => work[u] \in {Idle, Called}
    BY <1>4 DEF BeginRequest, EndRequest, TypeOK, WorkOK, Workers, Idle, Called, Ended
  <2>3. QED BY <1>1, <1>3, <2>1, <2>2, UndisturbedDecisions
<1>5. CASE StartTransaction(t)
  <2> DEFINE tx == [status |-> "STARTED", currentStep |-> 0, steps |-> FreshSteps]
  <2>1. StoreThen(t, Msg("CREATE", t), tx, "progress") /\ work[t] = Called
    BY <1>5 DEF StartTransaction
  <2>2. tx.status = "STARTED" /\ OutcomeOf(tx) = "open"
    BY DEF OutcomeOf
  <2> HIDE DEF tx
  <2>3. /\ Decision[t] = "open" /\ ServiceOf(t) = Starter
        /\ Msg("CREATE", t).id = t /\ Told(Decision, Msg("CREATE", t))
    BY <1>1, <2>1 DEF EverythingDecided, ServiceOf, Told, Msg, StepMessage
  <2>4. /\ WorkerDecided(t)' /\ work'[t] \notin {Idle, Called}
        /\ \A v \in Workers \ {t} : work'[v] = work[v]
    BY <1>1, <2>1, <2>2, <2>3, StoringDecided
  <2>5. \A u \in Transactions : work'[u] \in {Idle, Called} => work[u] \in {Idle, Called}
    BY <2>4 DEF Workers
  <2>6. QED BY <1>1, <1>3, <2>4, <2>5, UndisturbedDecisions
<1>6. QED BY <1>4, <1>5

(* No key has expired before either. *)
LEMMA ExpiryCounts ==
  ASSUME TypeOK, [Next]_vars, used'["expiry"] = 0
  PROVE  /\ used["expiry"] = 0
         /\ \A c \in Coordinators, t \in Transactions : ~ Expire(c, t)
<1>1. "expiry" \in Faults
  BY DEF Faults
<1>2. used["expiry"] = 0 /\ ~ Spend("expiry")
  BY <1>1, FaultsCount
<1>3. QED BY <1>2 DEF Expire

Decided == used["expiry"] = 0 => EverythingDecided

LEMMA NextDecided ==
  TypeOK /\ RequestsComeFirst /\ Decided /\ [Next]_vars => Decided'
<1> SUFFICES ASSUME TypeOK, RequestsComeFirst, Decided, [Next]_vars,
                    used'["expiry"] = 0
             PROVE  EverythingDecided'
  BY DEF Decided
<1>1. /\ EverythingDecided
      /\ \A c \in Coordinators, t \in Transactions : ~ Expire(c, t)
  BY ExpiryCounts DEF Decided
<1>2. CASE CoordinatorStep
  BY <1>1, <1>2, HandleDecided, ContinueDecided, OthersDecided DEF CoordinatorStep
<1>3. CASE FaultStep
  BY <1>1, <1>3, OthersDecided, RejectionsDecided DEF FaultStep
<1>4. CASE ParticipantStep
  BY <1>1, <1>4, ParticipantDecided DEF ParticipantStep
<1>5. CASE RequestStep
  BY <1>1, <1>5, RequestDecided DEF RequestStep
<1>6. CASE UNCHANGED vars
  BY <1>1, <1>6, UndisturbedDecisions DEF vars, EverythingDecided
<1>7. QED BY <1>2, <1>3, <1>4, <1>5, <1>6 DEF Next

LEMMA DecidedAlways == Spec => []Decided
<1>1. Init => Decided
  <2> SUFFICES ASSUME Init
               PROVE  EverythingDecided
    BY DEF Decided
  <2>1. \A w \in Workers : ~ IsBusy(w)
    BY PointsOnlyRunning DEF Init, IsBusy
  <2>2. \A c \in Coordinators, t \in Transactions : store[c][t] = Missing
    BY DEF Init
  <2>3. \A t \in Transactions : Decision[t] = "open"
    BY <2>2, CoordinatorsAssumption DEF Decision, OutcomeOf, Missing, Minimal
  <2>4. \A c \in Coordinators, t \in Transactions : StoreDecided(c, t)
    BY <2>2 DEF StoreDecided, Missing, Minimal
  <2>5. QED BY <2>1, <2>3, <2>4 DEF Init, EverythingDecided, WorkerDecided
<1>2. QED BY <1>1, NextDecided, TypeCorrect, RequestsFirst, PTL DEF Spec

-----------------------------------------------------------------------------
(* The refinement *)

LEMMA RecordsAre ==
  /\ \A c \in Coordinators, t \in Transactions : Records[c][t] = OutcomeOf(store[c][t])
  /\ store' = store => Records' = Records
BY DEF Records, RecordOf, OutcomeOf

(* A store records the decision of Starter, or changes no record. *)
LEMMA StoreRecords ==
  ASSUME TypeOK, EverythingEarned, EverythingDecided,
         NEW w \in Workers, StoreTransactionState(w)
  PROVE  Outcome!Next \/ UNCHANGED <<performed, Records>>
<1> DEFINE s == ServiceOf(w)
           t == Id(w)
           tx == work[w].tx
           outcome == OutcomeOf(tx)
<1>1. /\ IsBusy(w) /\ At(w, "store") /\ s \in Coordinators /\ t \in Transactions
      /\ performed' = performed
      /\ store' = [store EXCEPT ![s][t] = tx]
  BY WorkerType DEF StoreTransactionState
<1>2. tx.status = "COMPLETED" => \A i \in StepIndex : <<i, t>> \in performed
  BY <1>1 DEF EverythingEarned, Grounded, Earned, AllDone, IsBusy, Id
<1>3. s = Starter => Decision[t] \in {"open", outcome}
  BY <1>1 DEF EverythingDecided, WorkerDecided, Decides
<1>4. s # Starter => outcome = Decision[t]
  BY <1>1 DEF EverythingDecided, WorkerDecided, Follows, At, Id
<1>5. StoreDecided(s, t)
  BY <1>1 DEF EverythingDecided
<1> HIDE DEF s, t, tx
<1>6. Decision[t] = Records[Starter][t]
  BY <1>1, RecordsAre, CoordinatorsAssumption DEF Decision
<1>7. ASSUME NEW c \in Coordinators, NEW u \in Transactions
      PROVE  OutcomeOf(store'[c][u])
               = IF c = s /\ u = t THEN outcome ELSE OutcomeOf(store[c][u])
  BY <1>1 DEF TypeOK
<1>8. Records = [c \in Coordinators |-> [u \in Transactions |-> OutcomeOf(store[c][u])]]
  BY DEF Records, RecordOf, OutcomeOf
<1>9. Records' = [c \in Coordinators |-> [u \in Transactions |-> OutcomeOf(store'[c][u])]]
  BY DEF Records, RecordOf, OutcomeOf
<1>10. Records' = [Records EXCEPT ![s][t] = outcome]
  <2> HIDE DEF outcome
  <2>1. QED BY <1>1, <1>7, <1>8, <1>9
<1>11. CASE Records[s][t] = outcome
  <2> HIDE DEF outcome
  <2>1. ASSUME NEW c \in Coordinators, NEW u \in Transactions
        PROVE  OutcomeOf(store'[c][u]) = OutcomeOf(store[c][u])
    BY <1>1, <1>11, <1>7, RecordsAre
  <2>2. Records' = Records
    BY <1>8, <1>9, <2>1
  <2>3. QED BY <1>1, <2>2
<1>12. CASE Records[s][t] # outcome
  <2>1. Records[s][t] = "open"
    <3>1. CASE s = Starter
      BY <1>3, <1>6, <1>12, <3>1
    <3>2. CASE s # Starter
      <4>1. store[s][t] = Missing
        BY <1>1, <1>4, <1>5, <1>12, <3>2, RecordsAre DEF StoreDecided
      <4>2. QED BY <1>1, <4>1, RecordsAre DEF OutcomeOf, Missing, Minimal
    <3>3. QED BY <3>1, <3>2
  <2>2. outcome \in {"committed", "aborted"}
    BY <1>12, <2>1, Outcomes
  <2>3. Outcome!Record(s, t, outcome)
    BY <1>1, <1>4, <1>6, <1>10, <2>1 DEF Outcome!Record
  <2>4. CASE outcome = "committed"
    <3>1. \A i \in 0 .. NSteps - 1 : <<i, t>> \in performed
      BY <1>2, <2>4, Outcomes DEF StepIndex
    <3>2. Outcome!Commit(s, t)
      BY <2>3, <2>4, <3>1 DEF Outcome!Commit
    <3>3. QED BY <1>1, <3>2 DEF Outcome!Next
  <2>5. CASE outcome = "aborted"
    BY <1>1, <2>3, <2>5 DEF Outcome!Abort, Outcome!Next
  <2>6. QED BY <2>2, <2>4, <2>5
<1>13. QED BY <1>11, <1>12

(* A step is executed after those before it. *)
LEMMA StepPerforms ==
  ASSUME TypeOK, EverythingEarned, NEW t \in Transactions, NEW i \in StepIndex,
         PerformStep(i, t)
  PROVE  Outcome!Next
<1>1. StepMessage("EXECUTE", t, i) \in commands
  BY DEF PerformStep, TakeCommand
<1>2. \A j \in StepIndex : j < i => <<j, t>> \in performed
  <2>1. MessageEarned(performed, StepMessage("EXECUTE", t, i))
    BY <1>1 DEF EverythingEarned
  <2>2. QED BY <2>1 DEF MessageEarned, StepMessage
<1>3. \A j \in 0 .. i - 1 : <<j, t>> \in performed
  BY <1>2, StepsAssumption DEF StepIndex
<1>4. performed' = performed \cup {<<i, t>>} /\ Records' = Records
  BY RecordsAre DEF PerformStep
<1>5. QED BY <1>3, <1>4 DEF Outcome!Perform, Outcome!Next, StepIndex

LEMMA StepImplementsOutcome ==
  TypeOK /\ EverythingEarned /\ Decided /\ [Next]_vars
    => [Outcome!Next \/ used'["expiry"] > 0]_<<performed, Records>>
<1> SUFFICES ASSUME TypeOK, EverythingEarned, Decided, [Next]_vars,
                    ~ (used'["expiry"] > 0)
             PROVE  Outcome!Next \/ UNCHANGED <<performed, Records>>
  OBVIOUS
<1>1. used'["expiry"] = 0
  <2>1. TypeOK'
    BY NextInvariant
  <2>2. QED BY <2>1 DEF TypeOK, Faults
<1>2. /\ EverythingDecided
      /\ \A c \in Coordinators, t \in Transactions : ~ Expire(c, t)
  BY <1>1, ExpiryCounts DEF Decided
<1>3. CASE UNCHANGED <<store, performed>>
  BY <1>3, RecordsAre
<1>4. CASE \E w \in Workers : StoreTransactionState(w)
  BY <1>2, <1>4, StoreRecords
<1>5. CASE \E i \in StepIndex, t \in Transactions : PerformStep(i, t)
  BY <1>5, StepPerforms
<1>6. CASE CoordinatorStep
  <2>1. ASSUME NEW c \in Coordinators, NEW e \in events[c], Handle(c, e)
        PROVE  UNCHANGED <<store, performed>>
    BY <2>1
    DEF Handle, HandleStepCompleted, HandleStepFailed, HandleTimeout, HandleCompensationStart,
      HandleCompensationCompleted, HandleCompleted
  <2>2. ASSUME NEW w \in Workers, Continue(w), ~ StoreTransactionState(w)
        PROVE  UNCHANGED <<store, performed>>
    BY <2>2
    DEF Continue, ProgressTransaction, PublishStep, CompleteTransaction, PublishCompleted,
      SendUserNotification, StartCompensation, CompensateSteps, PublishCompensated
  <2>3. QED
    BY <1>3, <1>4, <1>6, <2>1, <2>2
    DEF CoordinatorStep, Flush, CheckTimeout, CheckerFails, Restart
<1>7. CASE FaultStep
  BY <1>2, <1>3, <1>7
  DEF FaultStep, Crash, Restart, Rebalance, PublishFails, StoreFails, ReadFails,
    FirstReadFails
<1>8. CASE ParticipantStep
  BY <1>3, <1>5, <1>8 DEF ParticipantStep, RejectStep, ReportFailure, TakeCompensation
<1>9. CASE RequestStep
  BY <1>3, <1>9 DEF RequestStep, BeginRequest, StartTransaction, EndRequest
<1>10. CASE UNCHANGED vars
  BY <1>3, <1>10 DEF vars
<1>11. QED BY <1>6, <1>7, <1>8, <1>9, <1>10 DEF Next

(* The coordinators of all services together implement the saga: steps in  *)
(* order, at most one decision, taken by the service that started the      *)
(* transaction and committed only when every step was executed, and every  *)
(* other service records that one - through crashes, redeliveries, late    *)
(* timeouts and rejected calls, until a key expires.                       *)
THEOREM CoordinatorsImplementSaga == Spec => ImplementsSagaOutcome
<1>1. Init => Outcome!Init
  <2> SUFFICES ASSUME Init
               PROVE  Outcome!Init
    OBVIOUS
  <2>1. \A c \in Coordinators, t \in Transactions : RecordOf(c, t) = "open"
    BY DEF Init, RecordOf, Missing, Minimal
  <2>2. QED BY <2>1 DEF Init, Records, Outcome!Init
<1>2. TypeOK /\ EverythingEarned /\ Decided /\ [Next]_vars
        => [Outcome!Next \/ used'["expiry"] > 0]_<<performed, Records>>
  BY StepImplementsOutcome
<1>3. QED
  BY <1>1, <1>2, EarnedAlways, DecidedAlways, PTL DEF Spec, ImplementsSagaOutcome

(* No service records that a transaction completed before all its steps     *)
(* were executed, and, until a key expires, no two of them record           *)
(* different outcomes: what HandleCompleted and HandleCompensationCompleted *)
(* store in the other services is no decision of their own.                 *)
THEOREM ServicesAgree ==
  Spec => [](Outcome!Justified /\ (used["expiry"] = 0 => Outcome!Agreement))
<1>1. Decided /\ used["expiry"] = 0 => Outcome!Agreement
  <2> SUFFICES ASSUME EverythingDecided
               PROVE  Outcome!Agreement
    BY DEF Decided
  <2>1. ASSUME NEW t \in Transactions, NEW c \in Coordinators
        PROVE  Records[c][t] \in {"open", Decision[t]}
    <3>1. Records[c][t] = RecordOf(c, t)
      BY DEF Records
    <3>2. CASE c = Starter
      BY <3>1, <3>2 DEF RecordOf, Decision, OutcomeOf
    <3>3. CASE store[c][t] = Missing
      BY <3>1, <3>3 DEF RecordOf, Missing, Minimal
    <3>4. CASE c # Starter /\ store[c][t] # Missing
      <4>1. OutcomeOf(store[c][t]) = Decision[t]
        BY <3>4 DEF EverythingDecided, StoreDecided
      <4>2. QED BY <3>1, <4>1 DEF RecordOf, OutcomeOf
    <3>5. QED BY <3>2, <3>3, <3>4
  <2>2. QED BY <2>1 DEF Outcome!Agreement
<1>2. CompletedIsEarned => Outcome!Justified
  BY DEF CompletedIsEarned, Outcome!Justified, Records, RecordOf, StepIndex
<1>3. QED BY <1>1, <1>2, DecidedAlways, CompletionIsEarned, PTL
=============================================================================
