----------------------------- MODULE MCRoundRobin ---------------------------
(* Two processes; the first may have two driver threads beside its main one.*)
EXTENDS RoundRobin, TLC

CONSTANTS p1, p2, main1, main2, driver1, driver2, l1, l2

MCHome == [t \in Threads |-> IF t = main2 THEN p2 ELSE p1]
MCTid == [t \in Threads |-> CASE t = driver1 -> 1 [] t = driver2 -> 2 [] OTHER -> 0]
=============================================================================
