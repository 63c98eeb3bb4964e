------------------------------ MODULE MCWaits ------------------------------
(* A process with two threads and one with a single thread that waits for  *)
(* the other process.                                                      *)
EXTENDS Waits, TLC

CONSTANTS p1, p2, t1, t2, t3

MCHome == [t \in Threads |-> IF t = t3 THEN p2 ELSE p1]
=============================================================================
