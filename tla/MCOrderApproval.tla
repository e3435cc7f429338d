-------------------------- MODULE MCOrderApproval ---------------------------
(* Small instances of the order approval saga: an order answered in time,   *)
(* one that may time out, one that is refused.                              *)
EXTENDS OrderApproval

CONSTANTS order, invoice

TwoServices == {order, invoice}
TwoHosts    == [i \in {0, 1} |-> IF i = 0 THEN order ELSE invoice]

(* Faults that may strike in one behaviour, each once. *)
Once(fs)      == [f \in Faults |-> IF f \in fs THEN 1 ELSE 0]
NoFaults      == {Once({})}
OneCrash      == {Once({"crash"})}
ProcessFaults == {Once({"crash", "publishError", "storeError", "checkerRace", "expiry"}),
                  Once({"crash", "lateCommit"})}
=============================================================================
