---------------------------- MODULE SagaOutcome -----------------------------
(***************************************************************************)
(* What the saga promises, whatever its mechanism: the steps of a          *)
(* transaction are executed in order, the service that started it decides  *)
(* it at most once, to commit only after every step was executed, and the  *)
(* other services only ever record the decision that was taken.            *)
(***************************************************************************)
EXTENDS Naturals

CONSTANTS Coordinators, Starter, Transactions, NSteps

VARIABLES
  performed,   \* <<i, t>>: step i has been executed for t
  record       \* record[c][t]: the outcome of t as service c has recorded it

Outcomes == {"open", "committed", "aborted"}

OutcomeTypeOK ==
  /\ performed \in SUBSET ((0 .. NSteps - 1) \X Transactions)
  /\ record \in [Coordinators -> [Transactions -> Outcomes]]

Init ==
  /\ performed = {}
  /\ record = [c \in Coordinators |-> [t \in Transactions |-> "open"]]

Perform(i, t) ==
  /\ \A j \in 0 .. i - 1 : <<j, t>> \in performed
  /\ performed' = performed \cup {<<i, t>>}
  /\ UNCHANGED record

Record(c, t, outcome) ==
  /\ record[c][t] = "open"
  /\ c # Starter => record[Starter][t] = outcome
  /\ record' = [record EXCEPT ![c][t] = outcome]
  /\ UNCHANGED performed

Commit(c, t) ==
  /\ \A i \in 0 .. NSteps - 1 : <<i, t>> \in performed
  /\ Record(c, t, "committed")

Abort(c, t) == Record(c, t, "aborted")

Next ==
  \E t \in Transactions :
    \/ \E i \in 0 .. NSteps - 1 : Perform(i, t)
    \/ \E c \in Coordinators : Commit(c, t) \/ Abort(c, t)

Spec == Init /\ [][Next]_<<performed, record>>

(* What it is for: services that know of a decision know of the same one,   *)
(* and a decision to commit was earned by every step.                       *)
Agreement ==
  \A t \in Transactions, c, d \in Coordinators :
    record[c][t] # "open" /\ record[d][t] # "open" => record[c][t] = record[d][t]

Justified ==
  \A t \in Transactions, c \in Coordinators :
    record[c][t] = "committed" => \A i \in 0 .. NSteps - 1 : <<i, t>> \in performed
=============================================================================
