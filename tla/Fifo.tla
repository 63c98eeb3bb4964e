-------------------------------- MODULE Fifo --------------------------------
(* What the queue of one port promises: first in, first out, nothing lost, *)
(* nothing twice.                                                          *)
EXTENDS Sequences

CONSTANT Items

VARIABLE queue

Init == queue = << >>

Put(x) == queue' = Append(queue, x)
Get == queue # << >> /\ queue' = Tail(queue)

Next == Get \/ \E x \in Items : Put(x)

Spec == Init /\ [][Next]_queue
=============================================================================
