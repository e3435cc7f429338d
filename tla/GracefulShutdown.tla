--------------------------- MODULE GracefulShutdown ---------------------------
(***************************************************************************)
(* A service from its first signal to process.exit: GracefulShutdownHelper *)
(* and RetryHelper, with the disconnect callbacks of the services' container *)
(* configuration, beside the HTTP requests, the Kafka consumers and the    *)
(* coordinator's timeout checker, which go on meanwhile.                   *)
(***************************************************************************)
EXTENDS Naturals

CONSTANTS
  Signals,       \* signals received; each calls shutDown
  MaxRetries,    \* SHUTDOWN_RETRIES
  Hangs,         \* connections whose disconnect never settles
  MaxRequests,   \* bound: HTTP requests open at once
  MaxEvents,     \* bound: Kafka messages consumed
  MaxFailures    \* bound: disconnects that are rejected

(* What disconnectServices awaits the end of; the coordinator, whose timer *)
(* it stops; and what it is not given: the consumers of the groups, which  *)
(* have connections of their own.                                          *)
Connections == {"Redis", "Kafka", "Database"}
Disposable  == Connections \cup {"Coordinator"}
Connected   == Disposable \cup {"GroupConsumers"}

ASSUME ShutdownAssumption ==
  /\ {MaxRequests, MaxEvents, MaxFailures} \subseteq Nat
  /\ MaxRetries \in Nat \ {0}
  /\ Hangs \subseteq Connections

VARIABLES
  listening,   \* the HTTP server accepts connections
  requests,    \* requests it is serving
  call,        \* call[s]: where the shutDown of signal s stands
  attempts,    \* attempts[s][n]: failed attempts to disconnect n
  settled,     \* settled[s]: connections whose disconnect has succeeded
  up,          \* what is connected
  sweeping,    \* the timeout checker is going through the transactions
  consumed,    \* messages consumed
  failures,    \* disconnects that were rejected
  exitCode     \* 2 while the process runs

vars == <<listening, requests, call, attempts, settled, up, sweeping, consumed,
          failures, exitCode>>

Alive == 2

TypeOK ==
  /\ listening \in BOOLEAN
  /\ requests \in 0 .. MaxRequests
  /\ call \in [Signals -> {"none", "closing", "disconnecting"}]
  /\ attempts \in [Signals -> [Connections -> 0 .. MaxRetries]]
  /\ settled \in [Signals -> SUBSET Connections]
  /\ up \in SUBSET Connected
  /\ sweeping \in BOOLEAN
  /\ consumed \in 0 .. MaxEvents
  /\ failures \in 0 .. MaxFailures
  /\ exitCode \in {0, 1, Alive}

Init ==
  /\ listening = TRUE
  /\ requests = 0
  /\ call = [s \in Signals |-> "none"]
  /\ attempts = [s \in Signals |-> [n \in Connections |-> 0]]
  /\ settled = [s \in Signals |-> {}]
  /\ up = Connected
  /\ sweeping = FALSE
  /\ consumed = 0
  /\ failures = 0
  /\ exitCode = Alive

-----------------------------------------------------------------------------
(* What the process does until it exits *)

OpenRequest ==
  /\ listening
  /\ requests < MaxRequests
  /\ requests' = requests + 1
  /\ UNCHANGED <<listening, call, attempts, settled, up, sweeping, consumed,
                 failures, exitCode>>

CloseRequest ==
  /\ requests > 0
  /\ requests' = requests - 1
  /\ UNCHANGED <<listening, call, attempts, settled, up, sweeping, consumed,
                 failures, exitCode>>

(* KafkaInfrastructure.disconnect forgets its group consumers (line 99) and *)
(* disconnects only the one it never subscribed: they stay connected, and  *)
(* messages keep coming.  A handler may then publish without awaiting, an  *)
(* unhandled rejection.                                                    *)
Consume ==
  /\ "GroupConsumers" \in up
  /\ consumed < MaxEvents
  /\ consumed' = consumed + 1
  /\ exitCode' \in IF "Kafka" \in up THEN {Alive} ELSE {Alive, 1}
  /\ UNCHANGED <<listening, requests, call, attempts, settled, up, sweeping,
                 failures>>

(* checkTimeouts; stopping the timer does not stop a sweep under way. *)
StartSweep ==
  /\ "Coordinator" \in up
  /\ ~ sweeping
  /\ sweeping' = TRUE
  /\ UNCHANGED <<listening, requests, call, attempts, settled, up, consumed,
                 failures, exitCode>>

EndSweep ==
  /\ sweeping
  /\ sweeping' = FALSE
  /\ UNCHANGED <<listening, requests, call, attempts, settled, up, consumed,
                 failures, exitCode>>

(* A sweep that meets the closed Redis client is an unhandled rejection. *)
SweepFails ==
  /\ sweeping
  /\ "Redis" \notin up
  /\ exitCode' = 1
  /\ UNCHANGED <<listening, requests, call, attempts, settled, up, sweeping,
                 consumed, failures>>

-----------------------------------------------------------------------------
(* shutDown *)

(* All are begun at once; the coordinator only stops its timer, and is done. *)
DisconnectServices(s) ==
  /\ call' = [call EXCEPT ![s] = "disconnecting"]
  /\ up' = up \ {"Coordinator"}

(* Mutant: httpServer.close is not awaited. *)
SignalWithoutWaiting(s) ==
  /\ call[s] = "none"
  /\ listening' = FALSE
  /\ DisconnectServices(s)
  /\ UNCHANGED <<requests, attempts, settled, sweeping, consumed, failures, exitCode>>

(* A server that no longer listens is not closed again, nor waited for. *)
Signal(s) ==
  /\ call[s] = "none"
  /\ listening' = FALSE
  /\ IF listening
       THEN call' = [call EXCEPT ![s] = "closing"] /\ UNCHANGED up
       ELSE DisconnectServices(s)
  /\ UNCHANGED <<requests, attempts, settled, sweeping, consumed, failures, exitCode>>

ServerClosed(s) ==
  /\ call[s] = "closing"
  /\ requests = 0
  /\ DisconnectServices(s)
  /\ UNCHANGED <<listening, requests, attempts, settled, sweeping, consumed, failures,
                 exitCode>>

(* executeWithRetry, for each connection, all at the same time. *)
Trying(s, n) ==
  /\ call[s] = "disconnecting"
  /\ n \notin settled[s] \cup Hangs
  /\ attempts[s][n] < MaxRetries

Disconnect(s, n) ==
  /\ Trying(s, n)
  /\ up' = up \ {n}
  /\ settled' = [settled EXCEPT ![s] = @ \cup {n}]
  /\ UNCHANGED <<listening, requests, call, attempts, sweeping, consumed, failures,
                 exitCode>>

(* Mutant: a failed attempt ends the retries as if it had succeeded. *)
GiveUpQuietly(s, n) ==
  /\ Trying(s, n)
  /\ failures < MaxFailures
  /\ failures' = failures + 1
  /\ settled' = [settled EXCEPT ![s] = @ \cup {n}]
  /\ UNCHANGED <<listening, requests, call, attempts, up, sweeping, consumed,
                 exitCode>>

DisconnectFails(s, n) ==
  /\ Trying(s, n)
  /\ failures < MaxFailures
  /\ failures' = failures + 1
  /\ attempts' = [attempts EXCEPT ![s][n] = @ + 1]
  /\ UNCHANGED <<listening, requests, call, settled, up, sweeping, consumed,
                 exitCode>>

Exhausted(s) == \E n \in Connections : attempts[s][n] = MaxRetries

(* Mutant: process.exit is called only when everything was disconnected. *)
ExitOnSuccess(s) ==
  /\ settled[s] = Connections
  /\ exitCode' = 0
  /\ UNCHANGED <<listening, requests, call, attempts, settled, up, sweeping,
                 consumed, failures>>

(* Promise.all settles, and the finally clause exits.  The shutdown timer  *)
(* is armed after the wait and cleared before the next: it never fires.    *)
Exit(s) ==
  /\ settled[s] = Connections \/ Exhausted(s)
  /\ exitCode' = 0
  /\ UNCHANGED <<listening, requests, call, attempts, settled, up, sweeping,
                 consumed, failures>>

-----------------------------------------------------------------------------
ShutDown(s) ==
  \/ ServerClosed(s)
  \/ \E n \in Connections : Disconnect(s, n) \/ DisconnectFails(s, n)
  \/ Exit(s)

Next ==
  /\ exitCode = Alive
  /\ \/ OpenRequest \/ CloseRequest \/ Consume
     \/ StartSweep \/ EndSweep \/ SweepFails
     \/ \E s \in Signals : Signal(s) \/ ShutDown(s)

Spec == Init /\ [][Next]_vars

(* Requests end, attempts settle unless they hang. *)
Fairness ==
  /\ WF_vars(exitCode = Alive /\ CloseRequest)
  /\ \A s \in Signals : WF_vars(exitCode = Alive /\ ShutDown(s))

FairSpec == Spec /\ Fairness

-----------------------------------------------------------------------------
(* Properties *)

(* Until a second signal comes, a request that was accepted is served with *)
(* its connections up: nothing is disconnected before the server closed.   *)
OneSignal == \A s, t \in Signals : call[s] # "none" /\ call[t] # "none" => s = t
RequestsAreServed == OneSignal /\ requests > 0 => {"Redis", "Kafka", "Database"} \subseteq up

(* process.exit(0) is the end of a shutDown.  Until a second signal comes, *)
(* it cuts off no request; and it leaves nothing connected of what         *)
(* disconnectServices is given, unless one of these has resisted all its   *)
(* retries: the others, whose retries go on, are then not waited for.  The *)
(* group consumers are not given to it, and no property says they close.   *)
ExitIsClean ==
  exitCode = 0 =>
    /\ OneSignal => requests = 0
    /\ up \cap Disposable = {} \/ \E s \in Signals : Exhausted(s)

(* A process that was told to end does: through open requests, retries, a  *)
(* second signal, and connections that cannot be closed.                   *)
ShutdownEnds == \A s \in Signals : call[s] # "none" ~> exitCode # Alive
=============================================================================
