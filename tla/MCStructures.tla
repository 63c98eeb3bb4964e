---------------------------- MODULE MCStructures ----------------------------
(* The structures that other parts are built on, one at a time: "focus" says *)
(* which of them moves, and the others stay as they were initialised.        *)
(* Four clients of the lock, three of the lock with its spinlock, a chain of *)
(* three pages with three pulses each, eleven physical pages, four threads of *)
(* a process, three threads on a semaphore of capacity 0, the "GO" signal, 1  *)
(* or 2.                                                                    *)
EXTENDS RWLock, SpinRWLock, PulsePages, PhysicalPages, Semaphores,
        ThreadLists

VARIABLE focus

all == <<focus, vars, spinVars, pulseVars, pageVars, familyVars, semaphoreVars>>

StructuresInit ==
    /\ focus \in {"lock", "spin", "pulses", "pages", "threads", "semaphore"}
    /\ Init /\ SpinInit /\ PulsesInit /\ PagesInit /\ FamilyInit /\ SemaphoreInit
    /\ focus # "pages" => smp
    /\ focus # "semaphore" => capacity = 0

Others(mine) ==
    /\ mine # "lock" => UNCHANGED vars
    /\ mine # "spin" => UNCHANGED spinVars
    /\ mine # "pulses" => UNCHANGED pulseVars
    /\ mine # "pages" => UNCHANGED pageVars
    /\ mine # "threads" => UNCHANGED familyVars
    /\ mine # "semaphore" => UNCHANGED semaphoreVars

StructuresNext ==
    /\ \/ focus = "lock" /\ Next
       \/ focus = "spin" /\ SpinNext
       \/ focus = "pulses" /\ PulsesNext
       \/ focus = "pages" /\ PagesNext
       \/ focus = "threads" /\ FamilyNext
       \/ focus = "semaphore" /\ SemaphoreNext
    /\ Others(focus)
    /\ UNCHANGED focus

StructuresSpec ==
    StructuresInit /\ [][StructuresNext]_all /\ Fairness /\ SemaphoreFairness
=============================================================================
