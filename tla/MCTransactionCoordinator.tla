---------------------- MODULE MCTransactionCoordinator ----------------------
(* Small instances of the coordinator: two services, two steps. *)
EXTENDS TransactionCoordinator

CONSTANTS order, invoice

TwoServices == {order, invoice}
TwoHosts    == [i \in {0, 1} |-> IF i = 0 THEN order ELSE invoice]

(* Faults that may strike in one behaviour: any one of them, and the pairs *)
(* of an event delivered again with what can go wrong at its first or its  *)
(* second delivery, of a step that fails with a crash, and of an offset    *)
(* not committed in time with a crash.                                     *)
Once(fs)    == [f \in Faults |-> IF f \in fs THEN 1 ELSE 0]
Pairs       == {{"redelivery", "checkerRace"}, {"redelivery", "publishError"},
                {"stepFailure", "crash"}, {"lateCommit", "crash"},
                {"readError", "redelivery"}}
EventFaults == {Once({f}) : f \in Faults} \cup {Once(p) : p \in Pairs}
=============================================================================
