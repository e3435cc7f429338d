---------------------------- MODULE MCOrderLoader ----------------------------
(* Reads of an order, one of an id nobody has, and messages for the order. *)
EXTENDS OrderLoader

CONSTANTS known, unknown, get1, get2, get3, by1, by2

TwoIds == [c \in Calls |-> IF c = get3 THEN unknown ELSE known]
=============================================================================
