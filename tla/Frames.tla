------------------------------- MODULE Frames -------------------------------
(* What the allocator of physical pages promises: who asks gets a run of    *)
(* pages that nobody has, or nothing, and gives pages back.                 *)
EXTENDS Naturals

CONSTANT TotalPages

VARIABLES
    held,       \* the pages that somebody has
    granted     \* the run that was given last

Runs == {a..b : a \in 0..(TotalPages - 1), b \in 0..(TotalPages - 1)} \ {{}}

Init == held \subseteq 0..(TotalPages - 1) /\ granted = {}

Take(run) == run \cap held = {} /\ held' = held \cup run /\ granted' = run
Give(run) == run \subseteq held /\ held' = held \ run /\ granted' = {}

Next == \E run \in Runs : Take(run) \/ Give(run)

Spec == Init /\ [][Next]_<<held, granted>>
=============================================================================
