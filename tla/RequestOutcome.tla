--------------------------- MODULE RequestOutcome ---------------------------
(***************************************************************************)
(* What requestResponse promises to a getById, whatever groups, topics,    *)
(* handlers and timers it takes: the promises of a call are made together, *)
(* each settles once, it resolves with the answer to its own request, and  *)
(* an answer that reaches a pending promise resolves it.                   *)
(***************************************************************************)
CONSTANTS Requests, Calls, Unknown

VARIABLES
  outcome,   \* outcome[r]: state of the promise of r
  answers    \* requests with an answer under way to who asked

Init ==
  /\ outcome = [r \in Requests |-> "none"]
  /\ answers = {}

Ask(R) ==
  /\ \A r \in R : outcome[r] = "none"
  /\ outcome' = [r \in Requests |-> IF r \in R THEN "pending" ELSE outcome[r]]
  /\ UNCHANGED answers

Answer(r) ==
  /\ outcome[r] # "none"
  /\ r \notin Unknown
  /\ answers' = answers \cup {r}
  /\ UNCHANGED outcome

Resolve(r) ==
  /\ r \in answers
  /\ outcome[r] = "pending"
  /\ outcome' = [outcome EXCEPT ![r] = "resolved"]
  /\ answers' = answers \ {r}

(* Late, or repeated. *)
Discard(r) ==
  /\ r \in answers
  /\ outcome[r] # "pending"
  /\ answers' = answers \ {r}
  /\ UNCHANGED outcome

Reject(r) ==
  /\ outcome[r] = "pending"
  /\ outcome' = [outcome EXCEPT ![r] = "rejected"]
  /\ UNCHANGED answers

Next ==
  \/ \E R \in Calls : Ask(R)
  \/ \E r \in Requests : Answer(r) \/ Resolve(r) \/ Discard(r) \/ Reject(r)

Spec == Init /\ [][Next]_<<outcome, answers>>
=============================================================================
