------------------------ MODULE ServiceLifecycleProofs ------------------------
(* For any signals, retries, requests and failures: a service that exits    *)
(* with code 0 has closed what it tried to close, unless something resisted *)
(* all its retries, and serves what it accepted before.  For any services,  *)
(* managers, topics and groups: one that listens consumes every topic of    *)
(* its start, but those of a group stopped to join a response topic, and    *)
(* what it consumes before is handled with its connections up.              *)
EXTENDS ServiceLifecycle, TLAPS

LEMMA ShutdownKeepsType == TypeOK /\ [Next]_vars => TypeOK'
<1> SUFFICES ASSUME TypeOK, [Next]_vars
             PROVE  TypeOK'
  OBVIOUS
<1> USE ShutdownAssumption DEF ShutdownAssumption, TypeOK, Alive, DisconnectServices
<1>1. CASE OpenRequest \/ CloseRequest
  BY <1>1 DEF OpenRequest, CloseRequest
<1>2. CASE Consume
  BY <1>2 DEF Consume
<1>3. CASE StartSweep \/ EndSweep \/ SweepFails
  BY <1>3 DEF StartSweep, EndSweep, SweepFails
<1>4. ASSUME NEW s \in Signals, Signal(s)
      PROVE  TypeOK'
  BY <1>4 DEF Signal
<1>5. ASSUME NEW s \in Signals, ServerClosed(s)
      PROVE  TypeOK'
  BY <1>5 DEF ServerClosed
<1>6. ASSUME NEW s \in Signals, NEW n \in Connections, Disconnect(s, n)
      PROVE  TypeOK'
  BY <1>6 DEF Disconnect
<1>7. ASSUME NEW s \in Signals, NEW n \in Connections, DisconnectFails(s, n)
      PROVE  TypeOK'
  <2>1. attempts[s][n] + 1 \in 0 .. MaxRetries
    BY <1>7 DEF DisconnectFails, Trying
  <2>2. attempts' \in [Signals -> [Connections -> 0 .. MaxRetries]]
    BY <1>7, <2>1 DEF DisconnectFails
  <2>3. failures' \in 0 .. MaxFailures
    BY <1>7 DEF DisconnectFails
  <2>4. QED BY <1>7, <2>2, <2>3 DEF DisconnectFails
<1>8. ASSUME NEW s \in Signals, Exit(s)
      PROVE  TypeOK'
  BY <1>8 DEF Exit
<1>9. CASE UNCHANGED vars
  BY <1>9 DEF vars
<1>10. QED
  BY <1>1, <1>2, <1>3, <1>4, <1>5, <1>6, <1>7, <1>8, <1>9 DEF Next, ShutDown

(* Every state of a service that ends is well typed. *)
THEOREM ShutdownTypeCorrect == Spec => []TypeOK
<1>1. Init => TypeOK
  <2>1. /\ 0 \in 0 .. MaxRetries /\ 0 \in 0 .. MaxRequests
        /\ 0 \in 0 .. MaxEvents /\ 0 \in 0 .. MaxFailures
    BY ShutdownAssumption DEF ShutdownAssumption
  <2>2. [n \in Connections |-> 0] \in [Connections -> 0 .. MaxRetries]
    BY <2>1
  <2>3. ASSUME Init
        PROVE  attempts \in [Signals -> [Connections -> 0 .. MaxRetries]]
    BY <2>2, <2>3 DEF Init
  <2>4. QED BY <2>1, <2>3 DEF Init, TypeOK, Alive
<1>2. QED BY <1>1, ShutdownKeepsType, PTL DEF Spec

-----------------------------------------------------------------------------
(* The end of a service *)

(* What a call has disconnected is down, it has tried nothing before it    *)
(* disconnects, and only its end is an exit.                               *)
SettledAreDown ==
  /\ \A s \in Signals : settled[s] \cap up = {}
  /\ \A s \in Signals : call[s] = "disconnecting" => "Coordinator" \notin up
  /\ \A s \in Signals :
       settled[s] # {} \/ (\E n \in Connections : attempts[s][n] # 0)
         => call[s] = "disconnecting"
  /\ exitCode = 0 => \E s \in Signals : settled[s] = Connections \/ Exhausted(s)

LEMMA SettledStayDown == TypeOK /\ SettledAreDown /\ [Next]_vars => SettledAreDown'
<1> SUFFICES ASSUME TypeOK, SettledAreDown, [Next]_vars
             PROVE  SettledAreDown'
  OBVIOUS
<1> USE DEF SettledAreDown, Alive, TypeOK
<1>1. CASE OpenRequest \/ CloseRequest \/ StartSweep \/ EndSweep \/ SweepFails
  BY <1>1 DEF OpenRequest, CloseRequest, StartSweep, EndSweep, SweepFails, Exhausted
<1>2. ASSUME exitCode = Alive, Consume
      PROVE  SettledAreDown'
  BY <1>2 DEF Consume
<1>3. ASSUME exitCode = Alive, NEW s \in Signals, Signal(s) \/ ServerClosed(s)
      PROVE  SettledAreDown'
  <2>1. /\ UNCHANGED <<settled, attempts, exitCode>> /\ up' \subseteq up
        /\ settled[s] = {} /\ \A n \in Connections : attempts[s][n] = 0
    BY <1>3 DEF Signal, ServerClosed, DisconnectServices
  <2>2. \A t \in Signals : t # s => call'[t] = call[t]
    BY <1>3 DEF Signal, ServerClosed, DisconnectServices
  <2>3. call'[s] = "disconnecting" => "Coordinator" \notin up'
    BY <1>3 DEF Signal, ServerClosed, DisconnectServices
  <2>4. QED BY <1>3, <2>1, <2>2, <2>3
<1>4. ASSUME exitCode = Alive, NEW s \in Signals, NEW n \in Connections, Disconnect(s, n)
      PROVE  SettledAreDown'
  BY <1>4 DEF Disconnect, Trying, Connections
<1>5. ASSUME exitCode = Alive, NEW s \in Signals, NEW n \in Connections,
             DisconnectFails(s, n)
      PROVE  SettledAreDown'
  <2>1. call[s] = "disconnecting" /\ UNCHANGED <<settled, up, call, exitCode>>
    BY <1>5 DEF DisconnectFails, Trying
  <2>2. \A t \in Signals : t # s => attempts'[t] = attempts[t]
    BY <1>5 DEF DisconnectFails
  <2>3. QED BY <1>5, <2>1, <2>2
<1>6. ASSUME NEW s \in Signals, Exit(s)
      PROVE  SettledAreDown'
  BY <1>6 DEF Exit, Exhausted
<1>7. CASE UNCHANGED vars
  BY <1>7 DEF vars, Exhausted
<1>8. QED
  BY <1>1, <1>2, <1>3, <1>4, <1>5, <1>6, <1>7 DEF Next, ShutDown

(* Nothing is disconnected before the server closed, unless it is closed by *)
(* a second signal that does not wait for it.                               *)
ServedBeforeDown ==
  /\ listening <=> \A s \in Signals : call[s] = "none"
  /\ (\A s \in Signals : call[s] # "disconnecting")
       => {"Redis", "Kafka", "Database"} \subseteq up
  /\ OneSignal /\ (\E s \in Signals : call[s] = "disconnecting") => requests = 0

LEMMA DownAfterServed ==
  TypeOK /\ ServedBeforeDown /\ [Next]_vars => ServedBeforeDown'
<1> SUFFICES ASSUME TypeOK, ServedBeforeDown, [Next]_vars
             PROVE  ServedBeforeDown'
  OBVIOUS
<1> USE DEF ServedBeforeDown, TypeOK
<1>1. CASE OpenRequest
  BY <1>1 DEF OpenRequest, OneSignal
<1>2. CASE CloseRequest
  BY <1>2 DEF CloseRequest, OneSignal
<1>3. CASE Consume \/ StartSweep \/ EndSweep \/ SweepFails
  BY <1>3 DEF Consume, StartSweep, EndSweep, SweepFails, OneSignal
<1>4. ASSUME NEW s \in Signals, Signal(s)
      PROVE  ServedBeforeDown'
  <2>1. call' = [call EXCEPT ![s] = IF listening THEN "closing" ELSE "disconnecting"]
    BY <1>4 DEF Signal, DisconnectServices
  <2>2. CASE listening
    <3>1. \A r \in Signals : call[r] = "none"
      BY <2>2
    <3>2. \A r \in Signals : call'[r] # "disconnecting"
      BY <2>1, <2>2, <3>1
    <3>3. QED BY <1>4, <2>1, <2>2, <3>1, <3>2 DEF Signal
  <2>3. CASE ~ listening
    <3>1. PICK r \in Signals : call[r] # "none"
      BY <2>3
    <3>2. r # s /\ call'[r] # "none" /\ call'[s] = "disconnecting"
      BY <1>4, <2>1, <2>3, <3>1 DEF Signal
    <3>3. ~ OneSignal'
      BY <3>2 DEF OneSignal
    <3>4. QED BY <1>4, <3>2, <3>3 DEF Signal
  <2>4. QED BY <2>2, <2>3
<1>5. ASSUME NEW s \in Signals, ServerClosed(s)
      PROVE  ServedBeforeDown'
  <2>1. call'[s] = "disconnecting" /\ requests' = 0 /\ call[s] # "none"
    BY <1>5 DEF ServerClosed, DisconnectServices
  <2>2. listening' = listening /\ ~ listening
    BY <1>5, <2>1 DEF ServerClosed
  <2>3. QED BY <2>1, <2>2
<1>6. ASSUME NEW s \in Signals, NEW n \in Connections,
             Disconnect(s, n) \/ DisconnectFails(s, n)
      PROVE  ServedBeforeDown'
  <2>1. call' = call /\ call[s] = "disconnecting"
    BY <1>6 DEF Disconnect, DisconnectFails, Trying
  <2>2. requests' = requests /\ listening' = listening
    BY <1>6 DEF Disconnect, DisconnectFails
  <2>3. QED BY <2>1, <2>2 DEF OneSignal
<1>7. ASSUME NEW s \in Signals, Exit(s)
      PROVE  ServedBeforeDown'
  BY <1>7 DEF Exit, OneSignal
<1>8. CASE UNCHANGED vars
  BY <1>8 DEF vars, OneSignal
<1>9. QED
  BY <1>1, <1>2, <1>3, <1>4, <1>5, <1>6, <1>7, <1>8 DEF Next, ShutDown

LEMMA ServedBeforeIsServed == TypeOK /\ ServedBeforeDown => RequestsAreServed
BY DEF TypeOK, ServedBeforeDown, RequestsAreServed

LEMMA ServersCloseFirst == Spec => []ServedBeforeDown
<1>1. Init => ServedBeforeDown
  BY DEF Init, ServedBeforeDown, Connected, Disposable, Connections
<1>2. TypeOK /\ ServedBeforeDown /\ [Next]_vars => ServedBeforeDown'
  BY DownAfterServed
<1>3. QED BY <1>1, <1>2, ShutdownTypeCorrect, PTL DEF Spec

(* shutDown awaits httpServer.close before any disconnect: with one signal, *)
(* whatever was accepted is served with its connections up.                 *)
THEOREM ShutdownServesRequests == Spec => []RequestsAreServed
BY ServedBeforeIsServed, ServersCloseFirst, ShutdownTypeCorrect, PTL

(* A call that ends has disconnected all, or exhausted the retries of one;  *)
(* either way its server had closed first.                                  *)
LEMMA SettledIsClean ==
  ASSUME TypeOK, SettledAreDown,
         (\E s \in Signals : call[s] = "disconnecting") => ServedBeforeDown
  PROVE  ExitIsClean
<1> SUFFICES ASSUME exitCode = 0
             PROVE  /\ OneSignal => requests = 0
                    /\ up \cap Disposable = {} \/ \E s \in Signals : Exhausted(s)
  BY DEF ExitIsClean
<1>1. PICK s \in Signals : settled[s] = Connections \/ Exhausted(s)
  BY DEF SettledAreDown
<1>2. settled[s] # {} \/ \E n \in Connections : attempts[s][n] # 0
  <2>1. MaxRetries # 0 /\ Connections # {}
    BY ShutdownAssumption DEF ShutdownAssumption, Connections
  <2>2. QED BY <1>1, <2>1 DEF Exhausted
<1>3. call[s] = "disconnecting" /\ "Coordinator" \notin up
  BY <1>2 DEF SettledAreDown
<1>4. OneSignal => requests = 0
  BY <1>3 DEF ServedBeforeDown
<1>5. settled[s] = Connections => up \cap Disposable = {}
  BY <1>3 DEF SettledAreDown, Disposable
<1>6. QED BY <1>1, <1>4, <1>5

(* GracefulShutdownHelper.shutDown: an exit with code 0 cuts off no request *)
(* while one signal came, and leaves nothing connected of what is           *)
(* disconnected, unless one connection resisted all its retries: then the   *)
(* others may be left connected too.                                        *)
THEOREM ShutdownExitsCleanly == Spec => []ExitIsClean
<1>1. Init => SettledAreDown
  BY DEF Init, SettledAreDown, Alive
<1>2. TypeOK /\ SettledAreDown /\ [Next]_vars => SettledAreDown'
  BY SettledStayDown
<1>3. TypeOK /\ SettledAreDown /\ ServedBeforeDown => ExitIsClean
  BY SettledIsClean
<1>4. QED
  BY <1>1, <1>2, <1>3, ShutdownTypeCorrect, ServersCloseFirst, PTL DEF Spec

-----------------------------------------------------------------------------
(* The start of a service *)

(* Once a service has started, it does what GracefulShutdown says. *)
LEMMA RunStepIsStep == exitCode = Alive /\ RunStep => Next /\ UNCHANGED startVars
BY DEF RunStep, Next

(* A start stands at a topic of a manager until the last has been called. *)
Subscribing == {"connect", "note", "stop", "subscribe", "run"}
PlaceOfStart ==
  /\ turn[1] # 0
  /\ turn[1] \in DOMAIN service.initialisations
       => turn[2] \in DOMAIN service.topicsOf[Manager]
  /\ point \in Subscribing => turn[1] \in DOMAIN service.initialisations
  /\ point = "started" => turn[1] > Len(service.initialisations)

LEMMA CalledManager ==
  ASSUME LifecycleTypeOK, turn[1] # 0, turn[1] <= Len(service.initialisations)
  PROVE  /\ turn[1] \in DOMAIN service.initialisations
         /\ Manager \in DOMAIN service.topicsOf
         /\ service.topicsOf[Manager] \in Seq(DOMAIN service.groupOf) \ {<< >>}
         /\ Manager \in Managers
<1>1. service.initialisations \in Seq(DOMAIN service.topicsOf)
  BY LifecycleAssumption DEF LifecycleAssumption, LifecycleTypeOK
<1>2. turn[1] \in Nat
  BY DEF LifecycleTypeOK
<1>3. turn[1] \in DOMAIN service.initialisations
  BY <1>1, <1>2
<1>4. Manager \in DOMAIN service.topicsOf
  BY <1>1, <1>3 DEF Manager
<1>5. service.topicsOf[Manager] \in Seq(DOMAIN service.groupOf) \ {<< >>}
  BY <1>4, LifecycleAssumption DEF LifecycleAssumption, LifecycleTypeOK
<1>6. Manager \in Managers
  BY <1>4 DEF Managers, LifecycleTypeOK
<1>7. QED BY <1>3, <1>4, <1>5, <1>6

LEMMA CalledTopic ==
  ASSUME LifecycleTypeOK, PlaceOfStart, turn[1] <= Len(service.initialisations)
  PROVE  /\ turn[2] \in 1 .. Len(service.topicsOf[Manager])
         /\ Topic \in DOMAIN service.groupOf
         /\ Topic \in AllTopics
         /\ Group \in Groups
<1>1. /\ turn[1] \in DOMAIN service.initialisations
      /\ service.topicsOf[Manager] \in Seq(DOMAIN service.groupOf)
  BY CalledManager DEF PlaceOfStart
<1>2. turn[2] \in DOMAIN service.topicsOf[Manager]
  BY <1>1 DEF PlaceOfStart
<1>3. turn[2] \in 1 .. Len(service.topicsOf[Manager]) /\ Topic \in DOMAIN service.groupOf
  BY <1>1, <1>2 DEF Topic
<1>4. Group \in UNION {{s.groupOf[t] : t \in DOMAIN s.groupOf} : s \in Services}
  BY <1>3 DEF Group, LifecycleTypeOK
<1>5. Topic \in UNION {DOMAIN s.groupOf : s \in Services}
  BY <1>3 DEF LifecycleTypeOK
<1>6. QED BY <1>3, <1>4, <1>5 DEF AllTopics, Groups

(* The start advances to a topic that there is, or to its end. *)
LEMMA NextPlace ==
  ASSUME LifecycleTypeOK, turn[1] # 0, turn[1] <= Len(service.initialisations),
         service' = service, turn' = <<turn[1] + 1, 1>>
  PROVE  /\ turn'[1] # 0
         /\ turn'[1] \in DOMAIN service.initialisations
              => turn'[2] \in DOMAIN service'.topicsOf[Manager']
<1>1. turn'[1] = turn[1] + 1 /\ turn'[2] = 1 /\ turn[1] \in Nat
  BY DEF LifecycleTypeOK
<1>2. service.initialisations \in Seq(DOMAIN service.topicsOf)
  BY LifecycleAssumption DEF LifecycleAssumption, LifecycleTypeOK
<1>3. ASSUME turn'[1] \in DOMAIN service.initialisations
      PROVE  1 \in DOMAIN service.topicsOf[service.initialisations[turn'[1]]]
  <2>1. service.initialisations[turn'[1]] \in DOMAIN service.topicsOf
    BY <1>2, <1>3
  <2>2. service.topicsOf[service.initialisations[turn'[1]]]
          \in Seq(DOMAIN service.groupOf) \ {<< >>}
    BY <2>1, LifecycleAssumption DEF LifecycleAssumption, LifecycleTypeOK
  <2>3. QED BY <2>2
<1>4. QED BY <1>1, <1>3 DEF Manager

LEMMA SubscriptionEndsWell ==
  ASSUME LifecycleTypeOK, PlaceOfStart, turn[1] <= Len(service.initialisations),
         service' = service, exitCode' = exitCode, SubscriptionEnds
  PROVE  /\ PlaceOfStart'
         /\ point' = "initialize"
         /\ turn' \in Nat \X Nat
         /\ initialized' \in SUBSET Managers
         /\ up' \in SUBSET Connected
<1>1. /\ point' = "initialize" /\ turn[1] \in Nat /\ turn[2] \in Nat
      /\ up \in SUBSET Connected /\ initialized \in SUBSET Managers /\ turn[1] # 0
  BY DEF SubscriptionEnds, LifecycleTypeOK, TypeOK, PlaceOfStart
<1>2. /\ service.topicsOf[Manager] \in Seq(DOMAIN service.groupOf)
      /\ Manager \in Managers /\ turn[1] \in DOMAIN service.initialisations
  BY CalledManager DEF PlaceOfStart
<1>3. CASE turn[2] < Len(service.topicsOf[Manager])
  <2>1. turn' = <<turn[1], turn[2] + 1>> /\ initialized' = initialized /\ up' = up
    BY <1>3 DEF SubscriptionEnds
  <2>2. Manager' = Manager
    BY <2>1 DEF Manager
  <2>3. turn[2] + 1 \in DOMAIN service.topicsOf[Manager]
    BY <1>1, <1>2, <1>3
  <2>4. turn' \in Nat \X Nat /\ turn'[1] = turn[1] /\ turn'[2] = turn[2] + 1
    BY <1>1, <2>1
  <2>5. QED BY <1>1, <1>2, <2>1, <2>2, <2>3, <2>4 DEF PlaceOfStart, Subscribing
<1>4. CASE ~ (turn[2] < Len(service.topicsOf[Manager]))
  <2>1. /\ turn' = <<turn[1] + 1, 1>>
        /\ initialized' = initialized \cup {Manager}
        /\ up' = up \cup ({Manager} \cap {"Coordinator"})
    BY <1>4 DEF SubscriptionEnds
  <2>2. up' \in SUBSET Connected
    BY <1>1, <2>1 DEF Connected, Disposable
  <2>3. /\ turn'[1] # 0
        /\ turn'[1] \in DOMAIN service.initialisations
             => turn'[2] \in DOMAIN service'.topicsOf[Manager']
    BY <1>1, <2>1, NextPlace
  <2>4. turn' \in Nat \X Nat
    BY <1>1, <2>1
  <2>5. QED BY <1>1, <1>2, <2>1, <2>2, <2>3, <2>4 DEF PlaceOfStart, Subscribing
<1>5. QED BY <1>3, <1>4

(* A subscription of responses changes the groups and, if it fails, the     *)
(* number of failures; it may connect a group.                              *)
LEMMA JoinsLeave ==
  ASSUME JoinStep
  PROVE  /\ point = "started" /\ UNCHANGED <<service, point, turn, initialized>>
         /\ UNCHANGED <<listening, requests, call, attempts, settled, sweeping, consumed,
                        exitCode>>
         /\ up' = up \/ up' = up \cup {"GroupConsumers"}
         /\ \/ failures' = failures
            \/ failures < MaxFailures /\ failures' = failures + 1
<1>1. /\ point = "started" /\ UNCHANGED <<service, point, turn, initialized>>
      /\ \E r \in DOMAIN service.getById :
           \/ UNCHANGED vars
           \/ ConnectForResponses(r)
           \/ JoinFails(r)
  BY DEF JoinStep, AskForResponses, StopForResponses, SubscribeResponses, RunForResponses
<1>2. CASE UNCHANGED vars
  BY <1>1, <1>2 DEF vars
<1>3. ASSUME NEW r, ConnectForResponses(r) \/ JoinFails(r)
      PROVE  /\ UNCHANGED <<listening, requests, call, attempts, settled, sweeping,
                            consumed, exitCode>>
             /\ up' = up \/ up' = up \cup {"GroupConsumers"}
             /\ \/ failures' = failures
                \/ failures < MaxFailures /\ failures' = failures + 1
  BY <1>3 DEF ConnectForResponses, JoinFails
<1>4. QED BY <1>1, <1>2, <1>3

LEMMA JoinsKeepTypes ==
  ASSUME LifecycleTypeOK, JoinStep
  PROVE  /\ TypeOK'
         /\ {opened', flagged', runs'} \subseteq SUBSET Groups
         /\ {noted', topics'} \subseteq [Groups -> SUBSET AllTopics]
         /\ joins' \in [Responses -> Awaits]
<1>1. TypeOK'
  BY JoinsLeave, ShutdownAssumption
  DEF ShutdownAssumption, LifecycleTypeOK, TypeOK, Connected
<1>2. PICK r \in DOMAIN service.getById :
        \/ AskForResponses(r) \/ ConnectForResponses(r) \/ StopForResponses(r)
        \/ SubscribeResponses(r) \/ RunForResponses(r) \/ JoinFails(r)
  BY DEF JoinStep
<1>3. r \in Responses /\ r \in AllTopics /\ GroupFor(r) \in Groups
  <2>1. service \in Services
    BY DEF LifecycleTypeOK
  <2>2. r \in Responses /\ r \in AllTopics
    BY <1>2, <2>1 DEF Responses, AllTopics
  <2>3. GroupFor(r) \in {service.getById[t] : t \in DOMAIN service.getById}
    BY <1>2 DEF GroupFor
  <2>4. GroupFor(r) \in UNION {{s.getById[t] : t \in DOMAIN s.getById} : s \in Services}
    BY <2>1, <2>3
  <2>5. QED BY <2>2, <2>4 DEF Groups
<1>4. {opened', flagged', runs'} \subseteq SUBSET Groups
  BY <1>2, <1>3
  DEF AskForResponses, ConnectForResponses, StopForResponses, SubscribeResponses,
      RunForResponses, JoinFails, Stop, LifecycleTypeOK
<1>5. /\ noted' = noted \/ Note(r)
      /\ topics' = topics \/ topics' = [topics EXCEPT ![GroupFor(r)] = @ \cup {r}]
  BY <1>2
  DEF AskForResponses, ConnectForResponses, StopForResponses, SubscribeResponses,
      RunForResponses, JoinFails, JoinNoted
<1>6. {noted', topics'} \subseteq [Groups -> SUBSET AllTopics]
  BY <1>3, <1>5 DEF Note, LifecycleTypeOK
<1>7. \E a \in Awaits : Goto(r, a)
  BY <1>2
  DEF AskForResponses, ConnectForResponses, StopForResponses, SubscribeResponses,
      RunForResponses, JoinFails, JoinNoted, Awaits
<1>8. joins' \in [Responses -> Awaits]
  BY <1>3, <1>7 DEF Goto, LifecycleTypeOK
<1>9. QED BY <1>1, <1>4, <1>6, <1>8

LEMMA StartKeepsPlace ==
  LifecycleTypeOK /\ PlaceOfStart /\ [LifecycleNext]_lifecycleVars
    => LifecycleTypeOK' /\ PlaceOfStart'
<1> SUFFICES ASSUME LifecycleTypeOK, PlaceOfStart, [LifecycleNext]_lifecycleVars
             PROVE  LifecycleTypeOK' /\ PlaceOfStart'
  OBVIOUS
<1>1. CASE exitCode = Alive /\ RunStep
  <2>1. Next /\ UNCHANGED startVars
    BY <1>1, RunStepIsStep
  <2>2. TypeOK'
    BY <2>1, ShutdownKeepsType DEF LifecycleTypeOK
  <2>3. QED
    BY <1>1, <2>1, <2>2
    DEF startVars, consumerVars, LifecycleTypeOK, PlaceOfStart, Manager, Alive
<1>2. CASE UNCHANGED lifecycleVars
  <2>1. TypeOK'
    BY <1>2, ShutdownKeepsType DEF LifecycleTypeOK, lifecycleVars
  <2>2. QED
    BY <1>2, <2>1
    DEF lifecycleVars, startVars, consumerVars, LifecycleTypeOK, PlaceOfStart, Manager
<1>3. ASSUME exitCode = Alive, UNCHANGED <<service, joins>>,
             NEW n \in {"Kafka", "Redis", "Database"}, Connect(n)
      PROVE  LifecycleTypeOK' /\ PlaceOfStart'
  <2>1. TypeOK'
    BY <1>3 DEF Connect, LifecycleTypeOK, TypeOK, Connected, Disposable, Connections
  <2>2. point' \in {"Redis", "Database", "initialize"}
    BY <1>3 DEF Connect, Following
  <2>3. QED
    BY <1>3, <2>1, <2>2
    DEF Connect, consumerVars, LifecycleTypeOK, Points, PlaceOfStart, Manager, Subscribing
<1>4. ASSUME exitCode = Alive, UNCHANGED <<service, joins>>, SkipInitialized
      PROVE  LifecycleTypeOK' /\ PlaceOfStart'
  <2>1. /\ turn' = <<turn[1] + 1, 1>> /\ point' = "initialize" /\ UNCHANGED vars
        /\ turn[1] # 0 /\ turn[1] <= Len(service.initialisations)
    BY <1>4 DEF SkipInitialized, AtTopic, PlaceOfStart
  <2>2. /\ turn'[1] # 0
        /\ turn'[1] \in DOMAIN service.initialisations
             => turn'[2] \in DOMAIN service'.topicsOf[Manager']
    BY <1>4, <2>1, NextPlace
  <2>3. turn' \in Nat \X Nat
    BY <2>1 DEF LifecycleTypeOK
  <2>4. TypeOK'
    BY <2>1, ShutdownKeepsType DEF LifecycleTypeOK
  <2>5. PlaceOfStart'
    BY <1>4, <2>1, <2>2 DEF PlaceOfStart, Subscribing
  <2>6. QED
    BY <1>4, <2>1, <2>3, <2>4, <2>5 DEF SkipInitialized, consumerVars, LifecycleTypeOK, Points
<1>5. ASSUME UNCHANGED <<service, joins>>,
             FindConsumer \/ ConnectConsumer \/ NoteTopic \/ StopConsumer
      PROVE  LifecycleTypeOK' /\ PlaceOfStart'
  <2>1. UNCHANGED <<turn, initialized, topics>> /\ point' \in Subscribing
    BY <1>5
    DEF FindConsumer, ConnectConsumer, NoteTopic, StopConsumer, Subscribing, consumerVars
  <2>2. turn[1] \in DOMAIN service.initialisations /\ turn[1] <= Len(service.initialisations)
    <3>1. CASE AtTopic
      BY <3>1, CalledManager DEF AtTopic, PlaceOfStart
    <3>2. CASE turn[1] \in DOMAIN service.initialisations
      <4>1. service.initialisations \in Seq(DOMAIN service.topicsOf)
        BY LifecycleAssumption DEF LifecycleAssumption, LifecycleTypeOK
      <4>2. QED BY <3>2, <4>1
    <3>3. QED
      BY <1>5, <3>1, <3>2
      DEF FindConsumer, ConnectConsumer, NoteTopic, StopConsumer, PlaceOfStart, Subscribing
  <2>3. Topic \in AllTopics /\ Group \in Groups
    BY <2>2, CalledTopic
  <2>4. TypeOK'
    <3>1. CASE UNCHANGED vars
      BY <3>1, ShutdownKeepsType DEF LifecycleTypeOK
    <3>2. CASE ConnectConsumer
      BY <3>2 DEF ConnectConsumer, LifecycleTypeOK, TypeOK, Connected
    <3>3. QED BY <1>5, <3>1, <3>2 DEF FindConsumer, NoteTopic, StopConsumer
  <2>5. PlaceOfStart'
    BY <1>5, <2>1, <2>2 DEF PlaceOfStart, Subscribing, Manager
  <2>6. {opened', flagged', runs'} \subseteq SUBSET Groups
    BY <1>5, <2>3
    DEF LifecycleTypeOK, FindConsumer, ConnectConsumer, NoteTopic, StopConsumer, Stop,
        consumerVars
  <2>7. noted' \in [Groups -> SUBSET AllTopics]
    <3>1. CASE NoteTopic
      BY <3>1, <2>3 DEF LifecycleTypeOK, NoteTopic
    <3>2. CASE noted' = noted
      BY <3>2 DEF LifecycleTypeOK
    <3>3. QED BY <1>5, <3>1, <3>2 DEF FindConsumer, ConnectConsumer, StopConsumer, consumerVars
  <2>8. QED
    BY <1>5, <2>1, <2>4, <2>5, <2>6, <2>7 DEF LifecycleTypeOK, Points, Subscribing
<1>6. ASSUME exitCode = Alive, UNCHANGED <<service, joins>>, SubscribeTopic \/ RunConsumer
      PROVE  LifecycleTypeOK' /\ PlaceOfStart'
  <2>1. point \in Subscribing /\ exitCode' = exitCode
    BY <1>6 DEF SubscribeTopic, RunConsumer, Subscribing
  <2>2. turn[1] \in DOMAIN service.initialisations /\ turn[1] <= Len(service.initialisations)
    <3>1. service.initialisations \in Seq(DOMAIN service.topicsOf)
      BY LifecycleAssumption DEF LifecycleAssumption, LifecycleTypeOK
    <3>2. QED BY <2>1, <3>1 DEF PlaceOfStart
  <2>3. Topic \in AllTopics /\ Group \in Groups
    BY <2>2, CalledTopic
  <2>4. /\ PlaceOfStart'
        /\ point' \in {"initialize", "run"}
        /\ turn' \in Nat \X Nat
        /\ initialized' \in SUBSET Managers
        /\ up' \in SUBSET Connected
    <3>1. CASE SubscriptionEnds
      BY <1>6, <2>1, <2>2, <3>1, SubscriptionEndsWell
    <3>2. CASE point' = "run" /\ UNCHANGED <<turn, initialized, up>>
      BY <1>6, <2>1, <2>2, <3>2
      DEF LifecycleTypeOK, TypeOK, PlaceOfStart, Subscribing, Manager
    <3>3. QED BY <1>6, <3>1, <3>2 DEF SubscribeTopic, RunConsumer
  <2>5. TypeOK'
    BY <1>6, <2>4 DEF SubscribeTopic, RunConsumer, LifecycleTypeOK, TypeOK
  <2>6. {opened', flagged', runs'} \subseteq SUBSET Groups
    BY <1>6, <2>3 DEF LifecycleTypeOK, SubscribeTopic, RunConsumer
  <2>7. noted' = noted /\ topics' \in [Groups -> SUBSET AllTopics]
    <3>1. CASE SubscribeTopic
      BY <3>1, <2>3 DEF LifecycleTypeOK, SubscribeTopic
    <3>2. CASE RunConsumer
      BY <3>2 DEF LifecycleTypeOK, RunConsumer
    <3>3. QED BY <1>6, <3>1, <3>2
  <2>8. QED
    BY <1>6, <2>4, <2>5, <2>6, <2>7 DEF LifecycleTypeOK, Points
<1>7. ASSUME UNCHANGED <<service, joins>>, StartServer
      PROVE  LifecycleTypeOK' /\ PlaceOfStart'
  <2>1. TypeOK'
    BY <1>7 DEF StartServer, LifecycleTypeOK, TypeOK
  <2>2. QED
    BY <1>7, <2>1
    DEF StartServer, consumerVars, LifecycleTypeOK, Points, PlaceOfStart, Manager, Subscribing
<1>8. ASSUME UNCHANGED <<service, joins>>, StartFails
      PROVE  LifecycleTypeOK' /\ PlaceOfStart'
  <2>1. failures' \in 0 .. MaxFailures
    BY <1>8, ShutdownAssumption DEF ShutdownAssumption, StartFails, LifecycleTypeOK, TypeOK
  <2>2. TypeOK'
    BY <1>8, <2>1 DEF StartFails, LifecycleTypeOK, TypeOK
  <2>3. QED
    BY <1>8, <2>2
    DEF StartFails, startVars, consumerVars, LifecycleTypeOK, PlaceOfStart, Manager
<1>9. CASE JoinStep
  <2>1. UNCHANGED <<service, point, turn, initialized>> /\ TypeOK'
    BY <1>9, JoinsKeepTypes DEF JoinStep
  <2>2. QED
    BY <1>9, <2>1, JoinsKeepTypes DEF LifecycleTypeOK, PlaceOfStart, Manager
<1>10. QED
  BY <1>1, <1>2, <1>3, <1>4, <1>5, <1>6, <1>7, <1>8, <1>9 DEF LifecycleNext, StartStep

(* Every state of a service, from its start on, is well typed. *)
THEOREM LifecycleTypeCorrect == LifecycleSpec => [](LifecycleTypeOK /\ PlaceOfStart)
<1>1. LifecycleInit => LifecycleTypeOK /\ PlaceOfStart
  <2> SUFFICES ASSUME LifecycleInit
               PROVE  LifecycleTypeOK /\ PlaceOfStart
    OBVIOUS
  <2>1. /\ 0 \in 0 .. MaxRetries /\ 0 \in 0 .. MaxRequests
        /\ 0 \in 0 .. MaxEvents /\ 0 \in 0 .. MaxFailures
    BY ShutdownAssumption DEF ShutdownAssumption
  <2>2. [n \in Connections |-> 0] \in [Connections -> 0 .. MaxRetries]
    BY <2>1
  <2>3. attempts \in [Signals -> [Connections -> 0 .. MaxRetries]]
    BY <2>2 DEF LifecycleInit
  <2>4. TypeOK
    BY <2>1, <2>3 DEF LifecycleInit, TypeOK, Alive
  <2>5. LifecycleTypeOK
    BY <2>4 DEF LifecycleInit, LifecycleTypeOK, Points, Awaits
  <2>6. turn[1] = 1 /\ turn[2] = 1 /\ point = "Kafka"
    BY DEF LifecycleInit
  <2>7. service.initialisations \in Seq(DOMAIN service.topicsOf)
    BY <2>5, LifecycleAssumption DEF LifecycleAssumption, LifecycleTypeOK
  <2>8. ASSUME 1 \in DOMAIN service.initialisations
        PROVE  1 \in DOMAIN service.topicsOf[Manager]
    <3>1. 1 <= Len(service.initialisations)
      BY <2>7, <2>8
    <3>2. service.topicsOf[Manager] \in Seq(DOMAIN service.groupOf) \ {<< >>}
      BY <2>5, <2>6, <3>1, CalledManager
    <3>3. QED BY <3>2
  <2>9. QED BY <2>5, <2>6, <2>8 DEF PlaceOfStart, Subscribing
<1>2. QED BY <1>1, StartKeepsPlace, PTL DEF LifecycleSpec
-----------------------------------------------------------------------------
(* What a start connects, and what it serves *)

(* A start is not signalled, and connects one thing after the other. *)
StartIsQuiet ==
  /\ point # "started" =>
       /\ ~ listening /\ requests = 0
       /\ \A s \in Signals : call[s] = "none"
       /\ point # "Kafka" => "Kafka" \in up
       /\ point \notin {"Kafka", "Redis"} => "Redis" \in up
       /\ point \notin {"Kafka", "Redis", "Database"} => "Database" \in up
  /\ point \in {"Kafka", "Redis", "Database"} => runs = {}
  /\ point = "started" => ServedBeforeDown

LEMMA StartStaysQuiet ==
  LifecycleTypeOK /\ StartIsQuiet /\ [LifecycleNext]_lifecycleVars => StartIsQuiet'
<1> SUFFICES ASSUME LifecycleTypeOK, StartIsQuiet, [LifecycleNext]_lifecycleVars
             PROVE  StartIsQuiet'
  OBVIOUS
<1>1. CASE exitCode = Alive /\ RunStep
  <2>1. Next /\ UNCHANGED startVars
    BY <1>1, RunStepIsStep
  <2>2. CASE point = "started"
    <3>1. ServedBeforeDown'
      BY <2>1, <2>2, DownAfterServed DEF StartIsQuiet, LifecycleTypeOK
    <3>2. QED BY <2>1, <2>2, <3>1 DEF startVars, consumerVars, StartIsQuiet
  <2>3. CASE point # "started"
    <3>1. \A s \in Signals : call[s] = "none"
      BY <2>3 DEF StartIsQuiet
    <3>2. UNCHANGED <<listening, requests, call, up>>
      BY <1>1, <2>3, <3>1
      DEF RunStep, Consume, StartSweep, EndSweep, SweepFails, ShutDown, ServerClosed,
          Disconnect, DisconnectFails, Trying, Exit
    <3>3. QED BY <2>1, <2>3, <3>2 DEF startVars, consumerVars, StartIsQuiet
  <2>4. QED BY <2>2, <2>3
<1>2. CASE UNCHANGED lifecycleVars
  BY <1>2
  DEF lifecycleVars, vars, startVars, consumerVars, StartIsQuiet, ServedBeforeDown, OneSignal
<1>3. ASSUME NEW n \in {"Kafka", "Redis", "Database"}, Connect(n)
      PROVE  StartIsQuiet'
  BY <1>3 DEF Connect, Following, consumerVars, StartIsQuiet
<1>4. CASE SkipInitialized \/ FindConsumer \/ ConnectConsumer \/ NoteTopic \/ StopConsumer
  <2>1. /\ UNCHANGED <<listening, requests, call>> /\ up \subseteq up'
        /\ point \notin {"Kafka", "Redis", "Database", "started"}
        /\ point' \notin {"Kafka", "Redis", "Database", "started"}
    BY <1>4
    DEF SkipInitialized, FindConsumer, ConnectConsumer, NoteTopic, StopConsumer, AtTopic, vars
  <2>2. QED BY <2>1 DEF StartIsQuiet
<1>5. CASE SubscribeTopic \/ RunConsumer
  <2>1. /\ UNCHANGED <<listening, requests, call>> /\ up \subseteq up'
        /\ point \in {"subscribe", "run"}
        /\ point' \in {"run", "initialize"}
    BY <1>5 DEF SubscribeTopic, RunConsumer, SubscriptionEnds
  <2>2. QED BY <2>1 DEF StartIsQuiet
<1>6. CASE StartServer
  BY <1>6 DEF StartServer, StartIsQuiet, ServedBeforeDown
<1>7. CASE StartFails
  BY <1>7 DEF StartFails, startVars, consumerVars, StartIsQuiet, ServedBeforeDown, OneSignal
<1>8. CASE JoinStep
  <2>1. /\ point = "started" /\ point' = "started"
        /\ UNCHANGED <<listening, requests, call>> /\ up \subseteq up'
    BY <1>8, JoinsLeave
  <2>2. ServedBeforeDown'
    BY <2>1 DEF StartIsQuiet, ServedBeforeDown, OneSignal
  <2>3. QED BY <2>1, <2>2 DEF StartIsQuiet
<1>9. QED
  BY <1>1, <1>2, <1>3, <1>4, <1>5, <1>6, <1>7, <1>8 DEF LifecycleNext, StartStep

LEMMA QuietFromTheStart == LifecycleSpec => []StartIsQuiet
<1>1. LifecycleInit => StartIsQuiet
  BY DEF LifecycleInit, StartIsQuiet
<1>2. LifecycleTypeOK /\ StartIsQuiet /\ [LifecycleNext]_lifecycleVars => StartIsQuiet'
  BY StartStaysQuiet
<1>3. QED BY <1>1, <1>2, LifecycleTypeCorrect, PTL DEF LifecycleSpec

(* ServerBootstrapper.start installs the signal handlers and listens last:  *)
(* until a second signal, all that the service accepts it serves.           *)
THEOREM LifecycleServesRequests == LifecycleSpec => []RequestsAreServed
<1>1. LifecycleTypeOK /\ StartIsQuiet => RequestsAreServed
  BY ServedBeforeIsServed DEF LifecycleTypeOK, StartIsQuiet, RequestsAreServed, TypeOK
<1>2. QED BY <1>1, LifecycleTypeCorrect, QuietFromTheStart, PTL

(* KafkaConsumerInfrastructure.startConsumer runs a group long before the   *)
(* service listens: its messages find Kafka, Redis and the database.        *)
THEOREM StartFindsConnections == LifecycleSpec => HandlersFindConnections
<1>1. LifecycleTypeOK /\ StartIsQuiet /\ [LifecycleNext]_lifecycleVars
        => (consumed' # consumed /\ ~ Signalled
              => {"Kafka", "Redis", "Database"} \subseteq up)
  <2> SUFFICES ASSUME LifecycleTypeOK, StartIsQuiet, [LifecycleNext]_lifecycleVars,
                      consumed' # consumed, ~ Signalled
               PROVE  {"Kafka", "Redis", "Database"} \subseteq up
    OBVIOUS
  <2>1. consumed' = consumed \/ runs # {}
    <3>1. CASE RunStep
      BY <3>1
      DEF RunStep, StartSweep, EndSweep, SweepFails, OpenRequest, CloseRequest, Signal,
          ShutDown, ServerClosed, Disconnect, DisconnectFails, Exit
    <3>2. CASE StartStep
      BY <3>2
      DEF StartStep, Connect, SkipInitialized, FindConsumer, ConnectConsumer, NoteTopic,
          StopConsumer, SubscribeTopic, RunConsumer, StartServer, StartFails, vars
    <3>3. CASE UNCHANGED lifecycleVars
      BY <3>3 DEF lifecycleVars, vars
    <3>4. CASE JoinStep
      BY <3>4, JoinsLeave
    <3>5. QED BY <3>1, <3>2, <3>3, <3>4 DEF LifecycleNext
  <2>2. CASE point # "started"
    BY <2>1, <2>2 DEF StartIsQuiet
  <2>3. CASE point = "started"
    BY <2>3 DEF StartIsQuiet, ServedBeforeDown, Signalled
  <2>4. QED BY <2>2, <2>3
<1>2. QED
  BY <1>1, LifecycleTypeCorrect, QuietFromTheStart, PTL
  DEF LifecycleSpec, HandlersFindConnections

LEMMA StartSettlesNothing ==
  LifecycleTypeOK /\ StartIsQuiet /\ SettledAreDown /\ [LifecycleNext]_lifecycleVars
    => SettledAreDown'
<1> SUFFICES ASSUME LifecycleTypeOK, StartIsQuiet, SettledAreDown,
                    [LifecycleNext]_lifecycleVars
             PROVE  SettledAreDown'
  OBVIOUS
<1>1. CASE exitCode = Alive /\ RunStep
  BY <1>1, RunStepIsStep, SettledStayDown DEF LifecycleTypeOK
<1>2. CASE UNCHANGED lifecycleVars
  BY <1>2, SettledStayDown DEF LifecycleTypeOK, lifecycleVars
<1>3. CASE exitCode = Alive /\ StartStep
  <2>1. CASE UNCHANGED vars
    BY <2>1, SettledStayDown DEF LifecycleTypeOK
  <2>2. CASE \/ \E n \in {"Kafka", "Redis", "Database"} : Connect(n)
             \/ ConnectConsumer \/ SubscribeTopic \/ RunConsumer
             \/ StartServer \/ StartFails
    <3>1. /\ UNCHANGED <<settled, call, attempts>>
          /\ exitCode' = exitCode \/ exitCode' = 1
          /\ up' = up \/ point # "started"
      BY <2>2
      DEF Connect, ConnectConsumer, SubscribeTopic, RunConsumer, SubscriptionEnds,
          StartServer, StartFails
    <3>2. point # "started"
            => \A s \in Signals : settled[s] = {} /\ call[s] = "none"
      BY DEF StartIsQuiet, SettledAreDown
    <3>3. exitCode' # 0
      BY <1>3, <3>1 DEF Alive
    <3>4. QED BY <3>1, <3>2, <3>3 DEF SettledAreDown
  <2>3. QED
    BY <1>3, <2>1, <2>2
    DEF StartStep, SkipInitialized, FindConsumer, NoteTopic, StopConsumer
<1>4. CASE exitCode = Alive /\ JoinStep
  <2>1. /\ UNCHANGED <<settled, call, attempts, exitCode>> /\ exitCode # 0
        /\ up' = up \/ up' = up \cup {"GroupConsumers"}
    BY <1>4, JoinsLeave DEF Alive
  <2>2. \A s \in Signals : "GroupConsumers" \notin settled[s]
    BY DEF LifecycleTypeOK, TypeOK, Connections
  <2>3. QED BY <2>1, <2>2 DEF SettledAreDown
<1>5. QED BY <1>1, <1>2, <1>3, <1>4 DEF LifecycleNext

(* However a start goes and whatever requests subscribe later, an exit with *)
(* code 0 cuts off no request while one signal came, and leaves open what   *)
(* is disconnected only if one connection resisted all its retries.         *)
THEOREM LifecycleExitsCleanly == LifecycleSpec => []ExitIsClean
<1>1. LifecycleInit => SettledAreDown
  BY DEF LifecycleInit, SettledAreDown, Alive
<1>2. /\ LifecycleTypeOK /\ StartIsQuiet /\ SettledAreDown /\ [LifecycleNext]_lifecycleVars
        => SettledAreDown'
  BY StartSettlesNothing
<1>3. LifecycleTypeOK /\ StartIsQuiet /\ SettledAreDown => ExitIsClean
  <2>1. StartIsQuiet /\ (\E s \in Signals : call[s] = "disconnecting") => ServedBeforeDown
    BY DEF StartIsQuiet
  <2>2. QED BY <2>1, SettledIsClean DEF LifecycleTypeOK
<1>4. QED
  BY <1>1, <1>2, <1>3, LifecycleTypeCorrect, QuietFromTheStart, PTL DEF LifecycleSpec
-----------------------------------------------------------------------------
(* The topics of a service *)

(* Topics that Kafka has accepted for their group. *)
TakenTopics == {t \in DOMAIN service.groupOf : t \in topics[service.groupOf[t]]}

(* The start takes the topics of its managers in their order. *)
TakesTopics ==
  /\ \A m \in initialized \cap DOMAIN service.topicsOf :
       \A j \in DOMAIN service.topicsOf[m] : service.topicsOf[m][j] \in TakenTopics
  /\ \A i \in DOMAIN service.initialisations :
       i < turn[1] => service.initialisations[i] \in initialized
  /\ turn[1] \in DOMAIN service.initialisations =>
       \A j \in DOMAIN service.topicsOf[Manager] :
         j < turn[2] => service.topicsOf[Manager][j] \in TakenTopics
  /\ point = "run" => Topic \in TakenTopics

(* A group with topics taken is flagged, except from when it is stopped for *)
(* another until that is subscribed; one that is flagged runs, or is to.    *)
Joining(g, awaits) ==
  \E r \in DOMAIN service.getById : GroupFor(r) = g /\ joins[r] \in awaits

GroupsRun ==
  /\ \A t \in TakenTopics :
       \/ service.groupOf[t] \in flagged
       \/ point = "subscribe" /\ service.groupOf[t] = Group
       \/ Joining(service.groupOf[t], {"subscribe", "rejected"})
  /\ \A g \in flagged :
       \/ g \in runs
       \/ point = "run" /\ g = Group
       \/ Joining(g, {"run"})

(* No topic is given back. *)
LEMMA TopicsGrow ==
  ASSUME LifecycleTypeOK, [LifecycleNext]_lifecycleVars
  PROVE  /\ service' = service /\ TakenTopics \subseteq TakenTopics'
         /\ \A t \in DOMAIN service.groupOf : service.groupOf[t] \in Groups
<1>1. /\ service' = service
      /\ \/ topics' = topics
         \/ \E g, t : topics' = [topics EXCEPT ![g] = @ \cup {t}]
  <2>1. CASE StartStep
    BY <2>1
    DEF StartStep, Connect, SkipInitialized, FindConsumer, ConnectConsumer, NoteTopic,
        StopConsumer, SubscribeTopic, RunConsumer, StartServer, StartFails, startVars,
        consumerVars
  <2>2. CASE RunStep \/ UNCHANGED lifecycleVars
    BY <2>2 DEF RunStep, lifecycleVars, startVars, consumerVars
  <2>3. CASE JoinStep
    BY <2>3
    DEF JoinStep, AskForResponses, ConnectForResponses, StopForResponses,
        SubscribeResponses, RunForResponses, JoinFails
  <2>4. QED BY <2>1, <2>2, <2>3 DEF LifecycleNext
<1>2. topics \in [Groups -> SUBSET AllTopics]
  BY DEF LifecycleTypeOK
<1>3. \A g \in Groups : topics[g] \subseteq topics'[g]
  BY <1>1, <1>2
<1>4. \A t \in DOMAIN service.groupOf : service.groupOf[t] \in Groups
  <2>1. service \in Services
    BY DEF LifecycleTypeOK
  <2>2. \A t \in DOMAIN service.groupOf :
          service.groupOf[t] \in UNION {{s.groupOf[u] : u \in DOMAIN s.groupOf} : s \in Services}
    BY <2>1
  <2>3. QED BY <2>2 DEF Groups
<1>5. QED BY <1>1, <1>3, <1>4 DEF TakenTopics

(* What is taken once stays so while the turn of the start does not change. *)
LEMMA TakenTopicsKeep ==
  ASSUME TakesTopics, service' = service, turn' = turn, initialized' = initialized,
         TakenTopics \subseteq TakenTopics',
         point' = "run" => Topic \in TakenTopics'
  PROVE  TakesTopics'
<1>1. Manager' = Manager /\ Topic' = Topic
  BY DEF Manager, Topic
<1>2. QED BY <1>1 DEF TakesTopics

(* The end of a subscription takes the current topic off the start's list. *)
LEMMA SubscriptionEndTakes ==
  ASSUME LifecycleTypeOK, PlaceOfStart, TakesTopics, service' = service,
         turn[1] <= Len(service.initialisations), SubscriptionEnds,
         Topic \in TakenTopics',
         TakenTopics \subseteq TakenTopics'
  PROVE  TakesTopics'
<1>1. /\ service.initialisations \in Seq(DOMAIN service.topicsOf)
      /\ turn[1] \in Nat /\ turn[2] \in Nat
      /\ turn[1] \in DOMAIN service.initialisations
      /\ Manager \in DOMAIN service.topicsOf
      /\ service.topicsOf[Manager] \in Seq(DOMAIN service.groupOf)
  BY CalledManager, LifecycleAssumption
  DEF LifecycleAssumption, LifecycleTypeOK, PlaceOfStart
<1>2. turn[2] \in 1 .. Len(service.topicsOf[Manager])
  BY CalledTopic
<1>3. \A j \in DOMAIN service.topicsOf[Manager] :
        j <= turn[2] => service.topicsOf[Manager][j] \in TakenTopics'
  <2> SUFFICES ASSUME NEW j \in DOMAIN service.topicsOf[Manager], j <= turn[2]
               PROVE  service.topicsOf[Manager][j] \in TakenTopics'
    OBVIOUS
  <2>1. j \in Nat
    BY <1>1
  <2>2. CASE j < turn[2]
    BY <1>1, <2>2 DEF TakesTopics
  <2>3. CASE j = turn[2]
    BY <2>3 DEF Topic
  <2>4. QED BY <1>1, <2>1, <2>2, <2>3
<1>4. CASE turn[2] < Len(service.topicsOf[Manager])
  <2>1. /\ turn'[1] = turn[1] /\ turn'[2] = turn[2] + 1
        /\ initialized' = initialized
    BY <1>4 DEF SubscriptionEnds
  <2>2. Manager' = Manager
    BY <2>1 DEF Manager
  <2>3. \A j \in DOMAIN service.topicsOf[Manager] :
          j < turn'[2] => service.topicsOf[Manager][j] \in TakenTopics'
    BY <1>1, <1>3, <2>1
  <2>4. point' # "run"
    BY DEF SubscriptionEnds
  <2>5. QED BY <2>1, <2>2, <2>3, <2>4 DEF TakesTopics
<1>5. CASE ~ (turn[2] < Len(service.topicsOf[Manager]))
  <2>1. /\ turn'[1] = turn[1] + 1 /\ turn'[2] = 1
        /\ initialized' = initialized \cup {Manager}
    BY <1>5 DEF SubscriptionEnds
  <2>2. \A j \in DOMAIN service.topicsOf[Manager] :
          service.topicsOf[Manager][j] \in TakenTopics'
    BY <1>1, <1>2, <1>3, <1>5
  <2>3. \A m \in initialized' \cap DOMAIN service.topicsOf :
          \A j \in DOMAIN service.topicsOf[m] : service.topicsOf[m][j] \in TakenTopics'
    BY <2>1, <2>2 DEF TakesTopics
  <2>4. \A i \in DOMAIN service.initialisations :
          i < turn'[1] => service.initialisations[i] \in initialized'
    <3> SUFFICES ASSUME NEW i \in DOMAIN service.initialisations, i < turn'[1]
                 PROVE  service.initialisations[i] \in initialized'
      OBVIOUS
    <3>1. i < turn[1] \/ i = turn[1]
      BY <1>1, <2>1
    <3>2. CASE i < turn[1]
      BY <2>1, <3>2 DEF TakesTopics
    <3>3. CASE i = turn[1]
      BY <2>1, <3>3 DEF Manager
    <3>4. QED BY <3>1, <3>2, <3>3
  <2>5. turn'[1] \in DOMAIN service.initialisations =>
          \A j \in DOMAIN service.topicsOf[Manager'] : ~ (j < turn'[2])
    <3> SUFFICES ASSUME turn'[1] \in DOMAIN service.initialisations,
                        NEW j \in DOMAIN service.topicsOf[Manager']
                 PROVE  ~ (j < turn'[2])
      OBVIOUS
    <3>1. Manager' \in DOMAIN service.topicsOf
      BY <1>1 DEF Manager
    <3>2. service.topicsOf[Manager'] \in Seq(DOMAIN service.groupOf)
      BY <3>1, LifecycleAssumption DEF LifecycleAssumption, LifecycleTypeOK
    <3>3. QED BY <2>1, <3>2
  <2>6. point' # "run"
    BY DEF SubscriptionEnds
  <2>7. QED BY <2>3, <2>4, <2>5, <2>6 DEF TakesTopics
<1>6. QED BY <1>4, <1>5

LEMMA StartTakesTopics ==
  LifecycleTypeOK /\ PlaceOfStart /\ TakesTopics /\ [LifecycleNext]_lifecycleVars
    => TakesTopics'
<1> SUFFICES ASSUME LifecycleTypeOK, PlaceOfStart, TakesTopics,
                    [LifecycleNext]_lifecycleVars
             PROVE  TakesTopics'
  OBVIOUS
<1>1. service' = service /\ TakenTopics \subseteq TakenTopics'
  BY TopicsGrow
<1>2. CASE UNCHANGED <<point, turn, initialized>>
  BY <1>1, <1>2, TakenTopicsKeep DEF TakesTopics
<1>3. CASE /\ UNCHANGED <<turn, initialized>>
           /\ point' # "run"
  BY <1>1, <1>3, TakenTopicsKeep
<1>4. CASE SkipInitialized
  <2>1. /\ UNCHANGED <<point, initialized>> /\ point = "initialize"
        /\ turn'[1] = turn[1] + 1 /\ turn'[2] = 1 /\ Manager \in initialized
        /\ turn[1] \in Nat
    BY <1>4 DEF SkipInitialized, AtTopic, LifecycleTypeOK
  <2>2. service.initialisations \in Seq(DOMAIN service.topicsOf)
    BY LifecycleAssumption DEF LifecycleAssumption, LifecycleTypeOK
  <2>3. \A i \in DOMAIN service.initialisations :
          i < turn'[1] => service.initialisations[i] \in initialized
    <3> SUFFICES ASSUME NEW i \in DOMAIN service.initialisations, i < turn'[1]
                 PROVE  service.initialisations[i] \in initialized
      OBVIOUS
    <3>1. i < turn[1] \/ i = turn[1]
      BY <2>1, <2>2
    <3>2. QED BY <2>1, <3>1 DEF TakesTopics, Manager
  <2>4. turn'[1] \in DOMAIN service.initialisations =>
          \A j \in DOMAIN service.topicsOf[Manager'] : ~ (j < turn'[2])
    <3> SUFFICES ASSUME turn'[1] \in DOMAIN service.initialisations,
                        NEW j \in DOMAIN service.topicsOf[Manager']
                 PROVE  ~ (j < turn'[2])
      OBVIOUS
    <3>1. Manager' \in DOMAIN service.topicsOf
      BY <1>1, <2>2 DEF Manager
    <3>2. service.topicsOf[Manager'] \in Seq(DOMAIN service.groupOf)
      BY <3>1, LifecycleAssumption DEF LifecycleAssumption, LifecycleTypeOK
    <3>3. QED BY <2>1, <3>2
  <2>5. QED BY <1>1, <2>1, <2>3, <2>4 DEF TakesTopics
<1>5. CASE SubscribeTopic \/ RunConsumer
  <2>1. turn[1] <= Len(service.initialisations)
    <3>1. service.initialisations \in Seq(DOMAIN service.topicsOf)
      BY LifecycleAssumption DEF LifecycleAssumption, LifecycleTypeOK
    <3>2. QED BY <1>5, <3>1 DEF SubscribeTopic, RunConsumer, PlaceOfStart, Subscribing
  <2>2. Topic \in DOMAIN service.groupOf /\ Group \in Groups
    BY <2>1, CalledTopic
  <2>3. Topic \in TakenTopics'
    <3>1. CASE SubscribeTopic
      <4>1. Topic \in topics'[Group]
        BY <2>2, <3>1 DEF SubscribeTopic, LifecycleTypeOK
      <4>2. QED BY <1>1, <2>2, <4>1 DEF TakenTopics, Group
    <3>2. CASE RunConsumer
      BY <1>1, <3>2 DEF RunConsumer, TakesTopics
    <3>3. QED BY <1>5, <3>1, <3>2
  <2>4. CASE SubscriptionEnds
    BY <1>1, <2>1, <2>3, <2>4, SubscriptionEndTakes
  <2>5. CASE ~ SubscriptionEnds
    <3>1. UNCHANGED <<turn, initialized>>
      BY <1>5, <2>5 DEF SubscribeTopic, RunConsumer
    <3>2. QED BY <1>1, <2>3, <3>1, TakenTopicsKeep
  <2>6. QED BY <2>4, <2>5
<1>6. CASE StartStep
  <2>1. CASE \E n \in {"Kafka", "Redis", "Database"} : Connect(n)
    BY <1>3, <2>1 DEF Connect, Following
  <2>2. CASE FindConsumer \/ ConnectConsumer \/ NoteTopic \/ StopConsumer \/ StartServer
    BY <1>3, <2>2 DEF FindConsumer, ConnectConsumer, NoteTopic, StopConsumer, StartServer
  <2>3. CASE StartFails
    BY <1>2, <2>3 DEF StartFails, startVars
  <2>4. QED BY <1>4, <1>5, <1>6, <2>1, <2>2, <2>3 DEF StartStep
<1>7. CASE RunStep \/ JoinStep \/ UNCHANGED lifecycleVars
  BY <1>2, <1>7, JoinsLeave DEF RunStep, lifecycleVars, startVars
<1>8. QED BY <1>6, <1>7 DEF LifecycleNext

(* While the service listens, subscriptions of responses stop groups and    *)
(* run them again.                                                          *)
LEMMA JoinsRunGroups ==
  ASSUME LifecycleTypeOK, GroupsRun, JoinStep, [LifecycleNext]_lifecycleVars
  PROVE  GroupsRun'
<1>1. point = "started" /\ point' = "started" /\ service' = service
  BY JoinsLeave
<1>2. PICK r \in DOMAIN service.getById :
        \/ AskForResponses(r) \/ ConnectForResponses(r) \/ StopForResponses(r)
        \/ SubscribeResponses(r) \/ RunForResponses(r) \/ JoinFails(r)
  BY DEF JoinStep
<1>3. PICK g \in Groups : GroupFor(r) = g /\ GroupFor(r)' = g /\ r \in Responses
  <2>1. service \in Services
    BY DEF LifecycleTypeOK
  <2>2. GroupFor(r) \in UNION {{s.getById[t] : t \in DOMAIN s.getById} : s \in Services}
    BY <1>2, <2>1 DEF GroupFor
  <2>3. QED BY <1>1, <1>2, <2>1, <2>2 DEF GroupFor, Groups, Responses
<1>4. \A t \in DOMAIN service.getById : t # r => joins'[t] = joins[t]
  <2>1. \E a : Goto(r, a)
    BY <1>2
    DEF AskForResponses, ConnectForResponses, StopForResponses, SubscribeResponses,
        RunForResponses, JoinFails, JoinNoted
  <2>2. \A t \in DOMAIN service.getById : t \in Responses
    BY DEF Responses, LifecycleTypeOK
  <2>3. QED BY <1>3, <2>1, <2>2 DEF Goto, LifecycleTypeOK
<1>5. \A h, awaits : Joining(h, awaits) /\ (h = g => joins[r] \notin awaits)
        => Joining(h, awaits)'
  <2> SUFFICES ASSUME NEW h, NEW awaits, Joining(h, awaits),
                      h = g => joins[r] \notin awaits
               PROVE  Joining(h, awaits)'
    OBVIOUS
  <2>1. PICK t \in DOMAIN service.getById : GroupFor(t) = h /\ joins[t] \in awaits
    BY DEF Joining
  <2>2. t # r /\ joins'[t] \in awaits
    BY <1>3, <1>4, <2>1
  <2>3. QED BY <1>1, <2>1, <2>2 DEF Joining, GroupFor
<1>6. /\ flagged' \ {g} = flagged \ {g}
      /\ runs' \ {g} = runs \ {g}
      /\ \A h \in Groups : h # g => topics'[h] = topics[h]
  BY <1>2, <1>3
  DEF AskForResponses, ConnectForResponses, StopForResponses, SubscribeResponses,
      RunForResponses, JoinFails, Stop, LifecycleTypeOK
<1>7. \A t \in DOMAIN service.groupOf : service.groupOf[t] \in Groups
  BY TopicsGrow
<1>8. ASSUME NEW awaits, joins'[r] \in awaits
      PROVE  Joining(g, awaits)'
  BY <1>1, <1>2, <1>3, <1>8 DEF Joining, GroupFor
<1>9. /\ \A t \in TakenTopics' :
           service.groupOf[t] = g => g \in flagged' \/ Joining(g, {"subscribe", "rejected"})'
      /\ g \in flagged' => g \in runs' \/ Joining(g, {"run"})'
  <2>1. CASE AskForResponses(r) \/ ConnectForResponses(r)
    <3>1. UNCHANGED <<flagged, runs, topics>> /\ joins[r] \in {"none", "connect"}
      BY <2>1 DEF AskForResponses, ConnectForResponses
    <3>2. QED BY <1>1, <1>5, <3>1 DEF GroupsRun, TakenTopics
  <2>2. CASE StopForResponses(r)
    <3>1. g \notin flagged' /\ joins'[r] = "subscribe"
      BY <1>3, <2>2 DEF StopForResponses, Stop, Goto, LifecycleTypeOK
    <3>2. QED BY <1>8, <3>1
  <2>3. CASE SubscribeResponses(r)
    <3>1. g \in flagged' /\ UNCHANGED runs /\ joins[r] = "subscribe"
      BY <1>3, <2>3 DEF SubscribeResponses
    <3>2. CASE g \in flagged
      BY <1>1, <1>5, <3>1, <3>2 DEF GroupsRun
    <3>3. CASE g \notin flagged
      <4>1. joins'[r] = "run"
        BY <1>3, <2>3, <3>3 DEF SubscribeResponses, Goto, LifecycleTypeOK
      <4>2. QED BY <1>8, <3>1, <4>1
    <3>4. QED BY <3>2, <3>3
  <2>4. CASE RunForResponses(r)
    <3>1. g \in runs' /\ UNCHANGED <<flagged, topics>> /\ joins[r] = "run"
      BY <1>3, <2>4 DEF RunForResponses
    <3>2. QED BY <1>1, <1>5, <3>1 DEF GroupsRun, TakenTopics
  <2>5. CASE JoinFails(r)
    <3>1. UNCHANGED <<runs, topics>>
      BY <2>5 DEF JoinFails
    <3>2. CASE joins[r] = "connect"
      BY <1>1, <1>5, <2>5, <3>1, <3>2 DEF GroupsRun, TakenTopics, JoinFails
    <3>3. CASE joins[r] # "connect"
      <4>1. joins'[r] = "rejected" /\ (joins[r] = "run" => g \notin flagged')
        BY <1>3, <2>5, <3>3 DEF JoinFails, Goto, LifecycleTypeOK
      <4>2. joins[r] # "run" => flagged' = flagged
        BY <2>5 DEF JoinFails
      <4>3. QED BY <1>1, <1>5, <1>8, <3>1, <4>1, <4>2 DEF GroupsRun
    <3>4. QED BY <3>2, <3>3
  <2>6. QED BY <1>2, <2>1, <2>2, <2>3, <2>4, <2>5
<1>10. ASSUME NEW t \in TakenTopics', service.groupOf[t] # g
       PROVE  \/ service.groupOf[t] \in flagged'
              \/ Joining(service.groupOf[t], {"subscribe", "rejected"})'
  <2>1. t \in TakenTopics
    BY <1>1, <1>6, <1>7, <1>10 DEF TakenTopics
  <2>2. QED BY <1>1, <1>5, <1>6, <1>10, <2>1 DEF GroupsRun
<1>11. ASSUME NEW h \in flagged', h # g
       PROVE  h \in runs' \/ Joining(h, {"run"})'
  <2>1. h \in flagged
    BY <1>6, <1>11
  <2>2. QED BY <1>1, <1>5, <1>6, <1>11, <2>1 DEF GroupsRun
<1>12. QED BY <1>1, <1>9, <1>10, <1>11 DEF GroupsRun

LEMMA StartRunsGroups ==
  LifecycleTypeOK /\ PlaceOfStart /\ GroupsRun /\ [LifecycleNext]_lifecycleVars
    => GroupsRun'
<1> SUFFICES ASSUME LifecycleTypeOK, PlaceOfStart, GroupsRun,
                    [LifecycleNext]_lifecycleVars
             PROVE  GroupsRun'
  OBVIOUS
<1>1. service' = service
  BY TopicsGrow
<1>2. CASE JoinStep
  BY <1>1, <1>2, JoinsRunGroups
<1>3. CASE UNCHANGED startVars
  <2>1. TakenTopics' = TakenTopics /\ Group' = Group
    BY <1>3 DEF startVars, consumerVars, TakenTopics, Group, Topic, Manager
  <2>2. \A h, awaits : Joining(h, awaits)' = Joining(h, awaits)
    BY <1>3 DEF startVars, Joining, GroupFor
  <2>3. QED BY <1>3, <2>1, <2>2 DEF startVars, consumerVars, GroupsRun
<1>4. ASSUME StartStep, ~ StartFails
      PROVE  GroupsRun'
  <2>1. \A h, awaits : Joining(h, awaits)' = Joining(h, awaits)
    BY <1>4 DEF StartStep, Joining, GroupFor
  <2>2. CASE /\ UNCHANGED <<topics, flagged, runs>>
             /\ point \notin {"subscribe", "run"}
    BY <1>1, <2>1, <2>2 DEF GroupsRun, TakenTopics
  <2>3. CASE \/ \E n \in {"Kafka", "Redis", "Database"} : Connect(n)
             \/ SkipInitialized \/ FindConsumer \/ ConnectConsumer \/ NoteTopic
             \/ StartServer
    BY <2>2, <2>3
    DEF Connect, SkipInitialized, FindConsumer, ConnectConsumer, NoteTopic, StartServer,
        AtTopic, consumerVars
  <2>4. CASE StopConsumer
    <3>1. Group' = Group /\ TakenTopics' = TakenTopics
      BY <1>1, <2>4 DEF StopConsumer, Group, Topic, Manager, TakenTopics
    <3>2. QED BY <1>1, <2>1, <2>4, <3>1 DEF StopConsumer, Stop, GroupsRun
  <2>5. CASE SubscribeTopic
    <3>1. topics \in [Groups -> SUBSET AllTopics]
      BY DEF LifecycleTypeOK
    <3>2. \A t \in DOMAIN service.groupOf : service.groupOf[t] \in Groups
      BY TopicsGrow
    <3>3. \A t \in TakenTopics' : service.groupOf[t] # Group => t \in TakenTopics
      BY <1>1, <2>5, <3>1, <3>2 DEF SubscribeTopic, TakenTopics
    <3>4. flagged' = flagged \cup {Group} /\ runs' = runs /\ point = "subscribe"
      BY <2>5 DEF SubscribeTopic
    <3>5. Group \notin flagged => point' = "run" /\ Group' = Group
      BY <1>1, <2>5 DEF SubscribeTopic, Group, Topic, Manager
    <3>6. QED BY <1>1, <2>1, <3>3, <3>4, <3>5 DEF GroupsRun
  <2>6. CASE RunConsumer
    <3>1. /\ UNCHANGED <<topics, flagged>> /\ runs' = runs \cup {Group}
          /\ point = "run"
      BY <2>6 DEF RunConsumer
    <3>2. QED BY <1>1, <2>1, <3>1 DEF GroupsRun, TakenTopics
  <2>7. QED BY <1>4, <2>3, <2>4, <2>5, <2>6 DEF StartStep
<1>5. QED
  BY <1>2, <1>3, <1>4 DEF LifecycleNext, RunStep, StartFails, lifecycleVars

(* KafkaConsumerInfrastructure: a service that accepts requests consumes    *)
(* every topic it subscribed at its start, however many share a group, but  *)
(* for the groups that it stopped to subscribe the responses of a getById:  *)
(* these run again, unless that subscription is rejected.                   *)
THEOREM ListeningServiceIsSubscribed == LifecycleSpec => []ListeningIsSubscribed
<1>1. LifecycleInit => TakesTopics /\ GroupsRun
  <2> SUFFICES ASSUME LifecycleInit
               PROVE  TakesTopics /\ GroupsRun
    OBVIOUS
  <2>1. /\ turn[1] = 1 /\ turn[2] = 1 /\ flagged = {} /\ initialized = {}
        /\ point # "run" /\ service \in Services
    BY DEF LifecycleInit
  <2>2. service.initialisations \in Seq(DOMAIN service.topicsOf)
    BY <2>1, LifecycleAssumption DEF LifecycleAssumption
  <2>3. turn[1] \in DOMAIN service.initialisations
          => service.topicsOf[Manager] \in Seq(DOMAIN service.groupOf)
    BY <2>1, <2>2, LifecycleAssumption DEF LifecycleAssumption, Manager
  <2>4. \A i \in DOMAIN service.initialisations : ~ (i < turn[1])
    BY <2>1, <2>2
  <2>5. turn[1] \in DOMAIN service.initialisations
          => \A j \in DOMAIN service.topicsOf[Manager] : ~ (j < turn[2])
    <3> SUFFICES ASSUME turn[1] \in DOMAIN service.initialisations,
                        NEW j \in DOMAIN service.topicsOf[Manager]
                 PROVE  ~ (j < 1)
      BY <2>1
    <3>1. j \in 1 .. Len(service.topicsOf[Manager])
      BY <2>3
    <3>2. QED BY <3>1
  <2>6. TakenTopics = {}
    <3>1. \A t \in DOMAIN service.groupOf : service.groupOf[t] \in Groups
      <4>1. \A t \in DOMAIN service.groupOf :
              service.groupOf[t]
                \in UNION {{s.groupOf[u] : u \in DOMAIN s.groupOf} : s \in Services}
        BY <2>1
      <4>2. QED BY <4>1 DEF Groups
    <3>2. QED BY <3>1 DEF LifecycleInit, TakenTopics
  <2>7. QED BY <2>1, <2>4, <2>5, <2>6 DEF TakesTopics, GroupsRun
<1>2. LifecycleTypeOK /\ PlaceOfStart /\ (TakesTopics /\ GroupsRun)
        /\ [LifecycleNext]_lifecycleVars => (TakesTopics /\ GroupsRun)'
  BY StartTakesTopics, StartRunsGroups
<1>3. LifecycleTypeOK /\ PlaceOfStart /\ StartIsQuiet /\ TakesTopics /\ GroupsRun
        => ListeningIsSubscribed
  <2> SUFFICES ASSUME LifecycleTypeOK, PlaceOfStart, StartIsQuiet, TakesTopics, GroupsRun,
                      listening, NEW t \in DOMAIN service.groupOf
               PROVE  /\ t \in topics[service.groupOf[t]]
                      /\ service.groupOf[t] \in runs \/ Rejoining(service.groupOf[t])
    BY DEF ListeningIsSubscribed
  <2>1. point = "started" /\ turn[1] > Len(service.initialisations)
    BY DEF StartIsQuiet, PlaceOfStart
  <2>2. PICK i \in DOMAIN service.initialisations :
          \E j \in DOMAIN service.topicsOf[service.initialisations[i]] :
            service.topicsOf[service.initialisations[i]][j] = t
    BY LifecycleAssumption DEF LifecycleAssumption, LifecycleTypeOK
  <2>3. service.initialisations \in Seq(DOMAIN service.topicsOf) /\ turn[1] \in Nat
    BY LifecycleAssumption DEF LifecycleAssumption, LifecycleTypeOK
  <2>4. service.initialisations[i] \in initialized \cap DOMAIN service.topicsOf
    BY <2>1, <2>3 DEF TakesTopics
  <2>5. t \in TakenTopics
    BY <2>2, <2>4 DEF TakesTopics
  <2>6. \/ service.groupOf[t] \in runs
        \/ Joining(service.groupOf[t], {"subscribe", "run", "rejected"})
    BY <2>1, <2>5 DEF GroupsRun, Joining
  <2>7. QED BY <2>5, <2>6 DEF TakenTopics, Joining, Rejoining
<1>4. QED
  BY <1>1, <1>2, <1>3, LifecycleTypeCorrect, QuietFromTheStart, PTL DEF LifecycleSpec
=============================================================================
