--------------------------- MODULE MCProcessTable ---------------------------
(* A process with two threads, the second one created by the first, and a  *)
(* child with one that either of them may exec.                            *)
EXTENDS ProcessTable, TLC

CONSTANTS p1, p2, t1, t2, t3

MCHome == [t \in Threads |-> IF t = t3 THEN p2 ELSE p1]
MCMain == [p \in Procs |-> IF p = p1 THEN t1 ELSE t3]

(* Peers upset threads only where no child is born: one or the other. *)
UpsetOrBorn == upset = {} \/ \A p \in Procs \ Booted : proc[p] = "unborn"
=============================================================================
