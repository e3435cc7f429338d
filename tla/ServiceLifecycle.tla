--------------------------- MODULE ServiceLifecycle ---------------------------
(***************************************************************************)
(* A service from ServerBootstrapper.start to process.exit.  start connects *)
(* Kafka, Redis and the database, lets each service initialise, topic by   *)
(* topic, and listens last.  A consumer group that is given another topic  *)
(* is stopped, subscribed and run again, while messages of its earlier     *)
(* topics arrive; the other groups run on.  So it is for a service that    *)
(* listens: its first getById subscribes the topic of the responses, in a  *)
(* group that may be reading another topic since the start.  Then          *)
(* GracefulShutdown takes over.                                            *)
(***************************************************************************)
EXTENDS GracefulShutdown, Sequences

CONSTANT
  Services   \* services: their initialize methods in the order of the calls,
             \* topicsOf[m]: the topics that m subscribes, in order,
             \* groupOf[t]: the consumer group that reads topic t, and
             \* getById[r]: the group that is to read the responses r

Managers  == UNION {DOMAIN s.topicsOf : s \in Services}
Responses == UNION {DOMAIN s.getById : s \in Services}
AllTopics == (UNION {DOMAIN s.groupOf : s \in Services}) \cup Responses
Groups ==
  (UNION {{s.groupOf[t] : t \in DOMAIN s.groupOf} : s \in Services})
    \cup (UNION {{s.getById[r] : r \in DOMAIN s.getById} : s \in Services})

ASSUME LifecycleAssumption ==
  \A s \in Services :
    /\ s.initialisations \in Seq(DOMAIN s.topicsOf)
    /\ \A m \in DOMAIN s.topicsOf : s.topicsOf[m] \in Seq(DOMAIN s.groupOf) \ {<< >>}
    /\ \A t \in DOMAIN s.groupOf :
         \E i \in DOMAIN s.initialisations :
           \E j \in DOMAIN s.topicsOf[s.initialisations[i]] :
             s.topicsOf[s.initialisations[i]][j] = t

Points == {"Kafka", "Redis", "Database", "initialize", "connect", "note", "stop",
           "subscribe", "run", "started"}
Awaits == {"none", "connect", "stop", "subscribe", "run", "done", "rejected"}

VARIABLES
  service,      \* the service that starts
  point,        \* what start awaits
  turn,         \* which initialize method it calls, and which of its topics
  initialized,  \* those with isInitialized set
  opened,       \* groups with an instance in consumerInstances
  noted,        \* noted[g]: subscribedTopics
  flagged,      \* groups whose isConsumerRunning is true
  topics,       \* topics[g]: those Kafka has accepted
  runs,         \* groups that consume
  joins         \* joins[r]: what the subscription of the responses r awaits

consumerVars == <<opened, noted, flagged, topics, runs>>
startVars == <<service, point, turn, initialized, consumerVars, joins>>
lifecycleVars == <<vars, startVars>>

LifecycleTypeOK ==
  /\ TypeOK
  /\ service \in Services
  /\ point \in Points
  /\ turn \in Nat \X Nat
  /\ initialized \in SUBSET Managers
  /\ {opened, flagged, runs} \subseteq SUBSET Groups
  /\ {noted, topics} \subseteq [Groups -> SUBSET AllTopics]
  /\ joins \in [Responses -> Awaits]

LifecycleInit ==
  /\ service \in Services
  /\ listening = FALSE
  /\ requests = 0
  /\ call = [s \in Signals |-> "none"]
  /\ attempts = [s \in Signals |-> [n \in Connections |-> 0]]
  /\ settled = [s \in Signals |-> {}]
  /\ up = {}
  /\ sweeping = FALSE
  /\ consumed = 0
  /\ failures = 0
  /\ exitCode = Alive
  /\ point = "Kafka"
  /\ turn = <<1, 1>>
  /\ initialized = {}
  /\ opened = {} /\ flagged = {} /\ runs = {}
  /\ noted = [g \in Groups |-> {}] /\ topics = [g \in Groups |-> {}]
  /\ joins = [r \in Responses |-> "none"]

-----------------------------------------------------------------------------
(* configureInfrastructure: one connection after the other *)

Following(n) == CASE n = "Kafka" -> "Redis" [] n = "Redis" -> "Database"
                  [] n = "Database" -> "initialize"

(* Mutant: the connections are begun and not awaited. *)
ConnectUnawaited(n) ==
  /\ point = n
  /\ point' = Following(n)
  /\ UNCHANGED <<vars, turn, initialized, consumerVars>>

Connect(n) ==
  /\ point = n
  /\ up' = up \cup {n}
  /\ point' = Following(n)
  /\ UNCHANGED <<listening, requests, call, attempts, settled, sweeping, consumed,
                 failures, exitCode, turn, initialized, consumerVars>>

-----------------------------------------------------------------------------
(* configureKafkaServices: each initialize, and each of its subscriptions *)

Manager == service.initialisations[turn[1]]
Topic   == service.topicsOf[Manager][turn[2]]
Group   == service.groupOf[Topic]
AtTopic == point = "initialize" /\ turn[1] <= Len(service.initialisations)

SkipInitialized ==
  /\ AtTopic
  /\ Manager \in initialized
  /\ turn' = <<turn[1] + 1, 1>>
  /\ UNCHANGED <<vars, point, initialized, consumerVars>>

(* KafkaInfrastructure.subscribe: an instance for the group, connected once. *)
FindConsumer ==
  /\ AtTopic
  /\ Manager \notin initialized
  /\ point' = IF Group \in opened THEN "note" ELSE "connect"
  /\ opened' = opened \cup {Group}
  /\ UNCHANGED <<vars, turn, initialized, noted, flagged, topics, runs>>

ConnectConsumer ==
  /\ point = "connect"
  /\ point' = "note"
  /\ up' = up \cup {"GroupConsumers"}
  /\ UNCHANGED <<listening, requests, call, attempts, settled, sweeping, consumed,
                 failures, exitCode, turn, initialized, consumerVars>>

(* KafkaConsumerInfrastructure.subscribe (no start subscribes a topic twice). *)
NoteTopic ==
  /\ point = "note"
  /\ noted' = [noted EXCEPT ![Group] = @ \cup {Topic}]
  /\ point' = IF Group \in flagged THEN "stop" ELSE "subscribe"
  /\ UNCHANGED <<vars, turn, initialized, opened, flagged, topics, runs>>

(* Mutant: stopConsumer leaves isConsumerRunning as it is. *)
StopFlagged(g) == runs' = runs \ {g} /\ UNCHANGED flagged

(* stopConsumer: an error of consumer.stop is only logged. *)
Stop(g) == runs' = runs \ {g} /\ flagged' = flagged \ {g}

StopConsumer ==
  /\ point = "stop"
  /\ Stop(Group)
  /\ point' = "subscribe"
  /\ UNCHANGED <<vars, turn, initialized, opened, noted, topics>>

(* The next topic, or the end of this initialize: the coordinator's starts *)
(* the timeout checker.                                                    *)
SubscriptionEnds ==
  /\ point' = "initialize"
  /\ IF turn[2] < Len(service.topicsOf[Manager])
       THEN /\ turn' = <<turn[1], turn[2] + 1>>
            /\ UNCHANGED <<initialized, up>>
       ELSE /\ turn' = <<turn[1] + 1, 1>>
            /\ initialized' = initialized \cup {Manager}
            /\ up' = up \cup ({Manager} \cap {"Coordinator"})

SubscribeTopic ==
  /\ point = "subscribe"
  /\ topics' = [topics EXCEPT ![Group] = @ \cup {Topic}]
  /\ IF Group \in flagged
       THEN SubscriptionEnds /\ UNCHANGED flagged
       ELSE /\ flagged' = flagged \cup {Group}
            /\ point' = "run"
            /\ UNCHANGED <<turn, initialized, up>>
  /\ UNCHANGED <<listening, requests, call, attempts, settled, sweeping, consumed,
                 failures, exitCode, opened, noted, runs>>

RunConsumer ==
  /\ point = "run"
  /\ runs' = runs \cup {Group}
  /\ SubscriptionEnds
  /\ UNCHANGED <<listening, requests, call, attempts, settled, sweeping, consumed,
                 failures, exitCode, opened, noted, flagged, topics>>

(* handleProcessSignals and listen. *)
StartServer ==
  /\ point = "initialize"
  /\ turn[1] > Len(service.initialisations)
  /\ point' = "started"
  /\ listening' = TRUE
  /\ UNCHANGED <<requests, call, attempts, settled, up, sweeping, consumed,
                 failures, exitCode, turn, initialized, consumerVars>>

(* Mutant: the catch clause of start only logs. *)
StartFailsQuietly ==
  /\ point \in {"Kafka", "Redis", "Database", "connect", "subscribe", "run"}
  /\ failures < MaxFailures
  /\ failures' = failures + 1
  /\ point' = "started"
  /\ UNCHANGED <<listening, requests, call, attempts, settled, up, sweeping,
                 consumed, exitCode, turn, initialized, consumerVars>>

(* Anything start awaits is rejected: it logs, and exits with code 1. *)
StartFails ==
  /\ point \in {"Kafka", "Redis", "Database", "connect", "subscribe", "run"}
  /\ failures < MaxFailures
  /\ failures' = failures + 1
  /\ exitCode' = 1
  /\ UNCHANGED <<listening, requests, call, attempts, settled, up, sweeping,
                 consumed, startVars>>

-----------------------------------------------------------------------------
(* processRequest, in a service that listens: the first getById subscribes *)
(* the responses it asks for, later ones find the topic noted.  (Begun     *)
(* while Kafka is being disconnected, a subscription is left out.)         *)

GroupFor(r) == service.getById[r]
Goto(r, await) == joins' = [joins EXCEPT ![r] = await]
Note(r)        == noted' = [noted EXCEPT ![GroupFor(r)] = @ \cup {r}]

JoinNoted(r) == Note(r) /\ Goto(r, IF GroupFor(r) \in flagged THEN "stop" ELSE "subscribe")

AskForResponses(r) ==
  /\ requests > 0
  /\ \A s \in Signals : call[s] # "disconnecting"
  /\ joins[r] = "none"
  /\ IF GroupFor(r) \in opened THEN JoinNoted(r) ELSE Goto(r, "connect") /\ UNCHANGED noted
  /\ opened' = opened \cup {GroupFor(r)}
  /\ UNCHANGED <<vars, flagged, topics, runs>>

ConnectForResponses(r) ==
  /\ joins[r] = "connect"
  /\ up' = up \cup {"GroupConsumers"}
  /\ JoinNoted(r)
  /\ UNCHANGED <<listening, requests, call, attempts, settled, sweeping, consumed,
                 failures, exitCode, opened, flagged, topics, runs>>

StopForResponses(r) ==
  /\ joins[r] = "stop"
  /\ Stop(GroupFor(r))
  /\ Goto(r, "subscribe")
  /\ UNCHANGED <<vars, opened, noted, topics>>

SubscribeResponses(r) ==
  /\ joins[r] = "subscribe"
  /\ topics' = [topics EXCEPT ![GroupFor(r)] = @ \cup {r}]
  /\ flagged' = flagged \cup {GroupFor(r)}
  /\ Goto(r, IF GroupFor(r) \in flagged THEN "done" ELSE "run")
  /\ UNCHANGED <<vars, opened, noted, runs>>

RunForResponses(r) ==
  /\ joins[r] = "run"
  /\ runs' = runs \cup {GroupFor(r)}
  /\ Goto(r, "done")
  /\ UNCHANGED <<vars, opened, noted, flagged, topics>>

(* Something is rejected, and so is the request.  The topic stays noted,   *)
(* unless connect was rejected: nothing subscribes it again, and a group   *)
(* that was stopped for it stays stopped.                                  *)
JoinFails(r) ==
  /\ joins[r] \in {"connect", "subscribe", "run"}
  /\ failures < MaxFailures
  /\ failures' = failures + 1
  /\ Goto(r, IF joins[r] = "connect" THEN "none" ELSE "rejected")
  /\ flagged' = IF joins[r] = "run" THEN flagged \ {GroupFor(r)} ELSE flagged
  /\ UNCHANGED <<listening, requests, call, attempts, settled, up, sweeping,
                 consumed, exitCode, opened, noted, topics, runs>>

-----------------------------------------------------------------------------
StartStep ==
  /\ UNCHANGED <<service, joins>>
  /\ \/ \E n \in {"Kafka", "Redis", "Database"} : Connect(n)
     \/ SkipInitialized
     \/ FindConsumer
     \/ ConnectConsumer
     \/ NoteTopic
     \/ StopConsumer
     \/ SubscribeTopic
     \/ RunConsumer
     \/ StartServer
     \/ StartFails

(* A group that runs takes messages from its first subscription on. *)
RunStep ==
  /\ \/ runs # {} /\ Consume
     \/ StartSweep \/ EndSweep \/ SweepFails
     \/ point = "started" /\ (OpenRequest \/ CloseRequest \/ \E s \in Signals : Signal(s))
     \/ \E s \in Signals : ShutDown(s)
  /\ UNCHANGED startVars

JoinStep ==
  /\ point = "started"
  /\ \E r \in DOMAIN service.getById :
       \/ AskForResponses(r)
       \/ ConnectForResponses(r)
       \/ StopForResponses(r)
       \/ SubscribeResponses(r)
       \/ RunForResponses(r)
       \/ JoinFails(r)
  /\ UNCHANGED <<service, point, turn, initialized>>

LifecycleNext == exitCode = Alive /\ (StartStep \/ RunStep \/ JoinStep)

LifecycleSpec == LifecycleInit /\ [][LifecycleNext]_lifecycleVars

(* What start awaits returns; requests end; attempts to disconnect settle. *)
FairLifecycleSpec ==
  /\ LifecycleSpec
  /\ WF_lifecycleVars(exitCode = Alive /\ StartStep)
  /\ WF_lifecycleVars(exitCode = Alive /\ CloseRequest /\ UNCHANGED startVars)
  /\ \A s \in Signals :
       WF_lifecycleVars(exitCode = Alive /\ ShutDown(s) /\ UNCHANGED startVars)

-----------------------------------------------------------------------------
(* Properties *)

(* A service that accepts requests consumes every topic it subscribed at   *)
(* its start, however often groups are stopped for another topic: but a    *)
(* group that is to read responses too, from when it was stopped for their *)
(* first subscription until it runs, or for ever if that was rejected.     *)
Rejoining(g) ==
  \E r \in DOMAIN service.getById :
    GroupFor(r) = g /\ joins[r] \in {"subscribe", "run", "rejected"}

ListeningIsSubscribed ==
  listening =>
    \A t \in DOMAIN service.groupOf :
      /\ t \in topics[service.groupOf[t]]
      /\ service.groupOf[t] \in runs \/ Rejoining(service.groupOf[t])

(* Messages that arrive during the start, left over from an earlier        *)
(* process, are handled with Redis, Kafka and the database connected.      *)
Signalled == \E s \in Signals : call[s] # "none"
HandlersFindConnections ==
  [][consumed' # consumed /\ ~ Signalled
       => {"Kafka", "Redis", "Database"} \subseteq up]_lifecycleVars

(* A service that starts comes to listen, or exits to be restarted.        *)
StartEnds == <>(listening \/ exitCode # Alive)
=============================================================================
