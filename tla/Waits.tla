------------------------------- MODULE Waits -------------------------------
(***************************************************************************)
(* Waiting for the death of a process, or of a thread of one's own process  *)
(* (waits.c), and the garbage collector that answers (smk/smk_gc.c). A wait *)
(* is a link on its target's list. The waiter commits the target between    *)
(* linking itself and falling asleep, the collector takes the whole list    *)
(* and walks it while the waiters it has woken run.                         *)
(* What is done under one checkout is one step: only the collector keeps a  *)
(* process checked out while it goes on to something else. ProcessTable has *)
(* the locks in detail, and that kernel_threads is the number used here.    *)
(***************************************************************************)
EXTENDS Naturals, Sequences, FiniteSets

CONSTANTS
    Procs,
    Threads,
    Home,       \* the process of each thread
    Nobody,     \* no target
    MaxWaits,   \* bound: waits that are begun
    MaxResumes  \* bound: sleeping waiters that a peer sets running

ASSUME NamesAssumption ==
    /\ Procs # {} /\ IsFiniteSet(Threads)
    /\ Procs \cap Threads = {}
    /\ Nobody \notin Procs \cup Threads
    /\ Home \in [Threads -> Procs]
ASSUME BoundsAssumption == MaxWaits \in Nat /\ MaxResumes \in Nat

VARIABLES
    life,       \* where each process is in its life
    status,     \* thread->state
    pc,         \* where each thread is in the kernel
    target,     \* what it waits for
    serial,     \* waits it has begun; the last is its link nw
    waits,      \* the list of waits of each process and thread
    answered,   \* links with success = 0
    frees,      \* how often each link was freed
    result,     \* what its last wait told each thread
    due,        \* threads in gc_tasks
    gc,         \* the collector: where it is, for which process, whether all of it
    walk,       \* what is left of the list it has taken
    missed,     \* history: links whose waiter was not yet asleep when it was woken
    resumed,    \* history: waiters that a peer set running
    stray,      \* history: freed links the collector used
    torn,       \* history: links behind a freed one whose next it read
    revived,    \* history: ended threads it set running
    cut         \* history: threads ended in the kernel

calls == <<pc, target, serial, result>>
links == <<waits, answered, frees>>
history == <<missed, resumed, stray, torn, revived, cut>>
vars == <<life, status, calls, links, due, gc, walk, history>>

Targets == Procs \cup Threads
Links == Threads \X (1..MaxWaits)
Places == {"user", "calling", "gap", "parked", "back"}
Phases == {"idle", "next", "mark", "rouse", "advance"}

ProcOf(x) == IF x \in Threads THEN Home[x] ELSE x
Link(t) == <<t, serial[t]>>
Waiter(l) == l[1]
Table == {p \in Procs : life[p] \in {"live", "finishing"}}
Attached(p) == {t \in Threads : Home[t] = p /\ status[t] # "deleted"}

(* Threads of p in the kernel; one that sleeps there does not count. *)
Inside == {"calling", "gap", "back"}
KernelThreads(p) == {t \in Threads : Home[t] = p /\ pc[t] \in Inside}
(* Faulty variant: threads in the kernel are not waited for. *)
QuietAtOnce(p) == life[p] = "finishing"

Quiet(p) == life[p] = "finishing" /\ KernelThreads(p) = {}

(* switch_thread lets it run. *)
Runs(t) == status[t] = "running" /\ Home[t] \in Table /\ ~Quiet(Home[t])

(* checkout_process( p, WRITER ) would be granted. *)
Free(p) == ~(gc.phase # "idle" /\ ~gc.whole /\ gc.owner = p)

IdleGC == [phase |-> "idle", owner |-> CHOOSE p \in Procs : TRUE, whole |-> FALSE, found |-> TRUE]
Moved(s, whole, found) == [phase |-> s, owner |-> gc.owner, whole |-> whole, found |-> found]

Init ==
    /\ life = [p \in Procs |-> "live"]
    /\ status = [t \in Threads |-> "running"]
    /\ pc = [t \in Threads |-> "user"]
    /\ target = [t \in Threads |-> Nobody]
    /\ serial = [t \in Threads |-> 0]
    /\ waits = [x \in Targets |-> << >>]
    /\ answered = {}
    /\ frees = [l \in Links |-> 0]
    /\ result = [t \in Threads |-> "none"]
    /\ due = {}
    /\ gc = IdleGC
    /\ walk = << >>
    /\ missed = {} /\ resumed = {} /\ stray = {} /\ torn = {} /\ revived = {} /\ cut = {}

Goto(t, s) == pc' = [pc EXCEPT ![t] = s]
-----------------------------------------------------------------------------
(* begin_wait_process and begin_wait_thread.                                *)

(* The call; begin_wait_thread's target is in the caller's process. *)
Wait(t) ==
    /\ pc[t] = "user" /\ Runs(t) /\ life[Home[t]] = "live"
    /\ Cardinality({l \in Links : l[2] <= serial[l[1]]}) < MaxWaits
    /\ \E x \in Targets :
        /\ x \in Threads => Home[x] = Home[t]
        /\ target' = [target EXCEPT ![t] = x]
    /\ result' = [result EXCEPT ![t] = "none"]
    /\ Goto(t, "calling")
    /\ UNCHANGED <<life, status, serial, links, due, gc, walk, history>>

Found(x) == IF x \in Threads THEN x \in Attached(Home[x]) ELSE x \in Table

Refuse(t) ==
    /\ pc[t] = "calling" /\ Runs(t) /\ Free(ProcOf(target[t]))
    /\ ~Found(target[t])
    /\ result' = [result EXCEPT ![t] = "refused"]
    /\ Goto(t, "user")
    /\ UNCHANGED <<life, status, target, serial, links, due, gc, walk, history>>

(* Faulty variant: the new link forgets the list behind it. *)
EnlistAlone(t) ==
    LET x == target[t]
        n == serial[t] + 1
    IN  /\ pc[t] = "calling" /\ Runs(t) /\ Free(ProcOf(x))
        /\ Found(x)
        /\ serial' = [serial EXCEPT ![t] = n]
        /\ waits' = [waits EXCEPT ![x] = <<(<<t, n>>)>>]
        /\ Goto(t, "gap")
        /\ UNCHANGED <<life, status, target, result, answered, frees, due, gc, walk, history>>

Enlist(t) ==
    LET x == target[t]
        n == serial[t] + 1
    IN  /\ pc[t] = "calling" /\ Runs(t) /\ Free(ProcOf(x))
        /\ Found(x)
        /\ serial' = [serial EXCEPT ![t] = n]
        /\ waits' = [waits EXCEPT ![x] = <<(<<t, n>>)>> \o @]
        /\ Goto(t, "gap")
        /\ UNCHANGED <<life, status, target, result, answered, frees, due, gc, walk, history>>

Park(t) ==
    /\ pc[t] = "gap" /\ Runs(t) /\ Free(Home[t])
    /\ status' = [status EXCEPT ![t] = "asleep"]
    /\ Goto(t, "parked")
    /\ UNCHANGED <<life, target, serial, result, links, due, gc, walk, history>>

Resume(t) ==
    /\ pc[t] = "parked" /\ Runs(t)
    /\ Goto(t, "back")
    /\ UNCHANGED <<life, status, target, serial, result, links, due, gc, walk, history>>

(* The answer is read and the link freed, wherever it may be linked. *)
Return(t) ==
    /\ pc[t] = "back" /\ Runs(t) /\ Free(Home[t])
    /\ result' = [result EXCEPT ![t] = IF Link(t) \in answered THEN "died" ELSE "failed"]
    /\ frees' = [frees EXCEPT ![Link(t)] = @ + 1]
    /\ Goto(t, "user")
    /\ UNCHANGED <<life, status, target, serial, waits, answered, due, gc, walk, history>>
-----------------------------------------------------------------------------
(* Exits, and what peers do to a thread.                                    *)

Calls(t) == pc[t] = "user" /\ Runs(t) /\ life[Home[t]] = "live" /\ Free(Home[t])

ExitProcess(t) ==
    /\ Calls(t)
    /\ life' = [life EXCEPT ![Home[t]] = "finishing"]
    /\ status' = [status EXCEPT ![t] = "finished"]
    /\ UNCHANGED <<calls, links, due, gc, walk, history>>

(* A thread's own exit, or syscall_thread, SYS_TWO, to kill a peer wherever *)
(* it is. In the kernel it is between two checkouts: a kill that leaves one *)
(* behind is ProcessTable's.                                                *)
End(t) ==
    /\ Calls(t)
    /\ \E u \in Attached(Home[t]) :
        /\ status' = [status EXCEPT ![u] = "finished"]
        /\ cut' = IF pc[u] \in Inside THEN cut \cup {u} ELSE cut
    /\ UNCHANGED <<life, calls, links, due, gc, walk, missed, resumed, stray, torn, revived>>

(* SYS_TWO again, to set a sleeping waiter running. *)
ResumePeer(t) ==
    /\ Calls(t) /\ Cardinality(resumed) < MaxResumes
    /\ \E u \in Attached(Home[t]) :
        /\ status[u] = "asleep"
        /\ status' = [status EXCEPT ![u] = "running"]
        /\ resumed' = resumed \cup {u}
    /\ UNCHANGED <<life, calls, links, due, gc, walk, missed, stray, torn, revived, cut>>

(* switch_thread comes to an ended thread: signal_gc, refused while the     *)
(* collector works.                                                         *)
Turn(t) ==
    /\ status[t] = "finished" /\ Home[t] \in Table /\ ~Quiet(Home[t])
    /\ gc.phase = "idle"
    /\ due' = due \cup {t}
    /\ UNCHANGED <<life, status, calls, links, gc, walk, history>>
-----------------------------------------------------------------------------
(* The collector.                                                           *)

(* The collector takes a list and walks it. *)
TakeWaits(x) ==
    /\ walk' = waits[x]
    /\ waits' = [waits EXCEPT ![x] = << >>]

(* gc_cleanup of a thread, whose process stays checked out until Leave. *)
CollectThread(u) ==
    /\ gc.phase = "idle" /\ u \in due
    /\ Home[u] \in Table /\ u \in Attached(Home[u])
    /\ due' = due \ {u}
    /\ gc' = [phase |-> "mark", owner |-> Home[u], whole |-> FALSE, found |-> TRUE]
    /\ status' = [status EXCEPT ![u] = "deleted"]
    /\ TakeWaits(u)
    /\ UNCHANGED <<life, calls, answered, frees, history>>

(* gc_cleanup of a process: it is detached, not checked out. *)
CollectProcess(p) ==
    /\ gc.phase = "idle" /\ Quiet(p)
    /\ life' = [life EXCEPT ![p] = "detached"]
    /\ gc' = [phase |-> "next", owner |-> p, whole |-> TRUE, found |-> TRUE]
    /\ UNCHANGED <<status, calls, links, due, walk, history>>

(* Faulty variant: no answer is left. *)
MarkNothing ==
    /\ gc.phase = "mark" /\ walk # << >>
    /\ stray' = IF frees[Head(walk)] > 0 THEN stray \cup {Head(walk)} ELSE stray
    /\ gc' = Moved("rouse", gc.whole, gc.found)
    /\ UNCHANGED <<life, status, calls, links, due, walk, missed, resumed, torn, revived, cut>>

(* clean_general, link by link: the answer is left in the link, *)
Mark ==
    /\ gc.phase = "mark" /\ walk # << >>
    /\ answered' = answered \cup {Head(walk)}
    /\ stray' = IF frees[Head(walk)] > 0 THEN stray \cup {Head(walk)} ELSE stray
    /\ gc' = Moved("rouse", gc.whole, gc.found)
    /\ UNCHANGED <<life, status, calls, waits, frees, due, walk, missed, resumed, torn, revived, cut>>

(* the waiter is set running, if it is there, whatever it is doing, *)
Rouse ==
    LET w == Waiter(Head(walk))
        found == w \in Attached(Home[w]) /\ (Home[w] = gc.owner \/ Home[w] \in Table)
    IN  /\ gc.phase = "rouse"
        /\ gc' = Moved("advance", gc.whole, found)
        /\ status' = IF found THEN [status EXCEPT ![w] = "running"] ELSE status
        /\ missed' = IF found /\ pc[w] = "gap" THEN missed \cup {Head(walk)} ELSE missed
        /\ revived' = IF found /\ status[w] = "finished" THEN revived \cup {w} ELSE revived
        /\ UNCHANGED <<life, calls, links, due, walk, resumed, stray, torn, cut>>

(* Faulty variant: every link is freed. *)
AdvanceFreesAll ==
    /\ gc.phase = "advance"
    /\ frees' = [frees EXCEPT ![Head(walk)] = @ + 1]
    /\ walk' = Tail(walk)
    /\ gc' = Moved("mark", gc.whole, gc.found)
    /\ UNCHANGED <<life, status, calls, waits, answered, due, history>>

(* and the next link is read from it, which the waiter may have freed by    *)
(* now: what is found there then is the old list, or no list. The link of a *)
(* waiter that is gone is freed here.                                       *)
Advance ==
    LET l == Head(walk) IN
    /\ gc.phase = "advance"
    /\ \E rest \in {Tail(walk)} \cup (IF frees[l] > 0 THEN {<< >>} ELSE {}) : walk' = rest
    /\ frees' = IF gc.found THEN frees ELSE [frees EXCEPT ![l] = @ + 1]
    /\ torn' = IF frees[l] > 0 THEN torn \cup {walk[i] : i \in 2..Len(walk)} ELSE torn
    /\ gc' = Moved("mark", gc.whole, gc.found)
    /\ UNCHANGED <<life, status, calls, waits, answered, due, missed, resumed, stray, revived, cut>>

(* The list is done: what was collected is freed, and with the last thread  *)
(* of a process the process is collected.                                   *)
Done ==
    LET p == gc.owner IN
    /\ gc.phase = "mark" /\ walk = << >>
    /\ IF gc.whole
       THEN IF Attached(p) = {} /\ life[p] = "reaped"
            THEN gc' = IdleGC /\ life' = [life EXCEPT ![p] = "freed"]
            ELSE gc' = Moved("next", gc.whole, gc.found) /\ UNCHANGED life
       ELSE IF Attached(p) = {}
            THEN gc' = Moved("next", TRUE, gc.found)
                 /\ life' = [life EXCEPT ![p] = "detached"]
            ELSE gc' = IdleGC /\ UNCHANGED life
    /\ UNCHANGED <<status, calls, links, due, walk, history>>

(* gc_cleanup of a detached process: each thread of it, then gc_process. *)
Proceed ==
    LET p == gc.owner IN
    /\ gc.phase = "next"
    /\ gc' = Moved("mark", gc.whole, gc.found)
    /\ \/ \E u \in Attached(p) :
            /\ status' = [status EXCEPT ![u] = "deleted"]
            /\ TakeWaits(u)
            /\ UNCHANGED life
       \/ /\ Attached(p) = {}
          /\ life' = [life EXCEPT ![p] = "reaped"]
          /\ TakeWaits(p)
          /\ UNCHANGED status
    /\ UNCHANGED <<calls, answered, frees, due, history>>

Collector ==
    \/ \E u \in Threads : CollectThread(u)
    \/ \E p \in Procs : CollectProcess(p)
    \/ Mark \/ Rouse \/ Advance \/ Done \/ Proceed

Waiting(t) == Refuse(t) \/ Enlist(t) \/ Park(t) \/ Resume(t) \/ Return(t)

Next ==
    \/ Collector
    \/ \E t \in Threads :
        Wait(t) \/ Waiting(t) \/ ExitProcess(t) \/ End(t) \/ ResumePeer(t) \/ Turn(t)

Spec == Init /\ [][Next]_vars

(* The run queue is cyclic: the collector and every thread that may run in  *)
(* the kernel get their turn again and again, and so does every ended       *)
(* thread, to be reported.                                                  *)
Fairness ==
    /\ WF_vars(Collector)
    /\ \A t \in Threads : WF_vars(Waiting(t)) /\ WF_vars(Turn(t))

FairSpec == Spec /\ Fairness
-----------------------------------------------------------------------------
TypeOK ==
    /\ life \in [Procs -> {"live", "finishing", "detached", "reaped", "freed"}]
    /\ status \in [Threads -> {"running", "asleep", "finished", "deleted"}]
    /\ pc \in [Threads -> Places]
    /\ target \in [Threads -> Targets \cup {Nobody}]
    /\ serial \in [Threads -> 0..MaxWaits]
    /\ waits \in [Targets -> Seq(Links)]
    /\ answered \subseteq Links
    /\ frees \in [Links -> Nat]
    /\ result \in [Threads -> {"none", "refused", "failed", "died"}]
    /\ due \subseteq Threads
    /\ gc \in [phase : Phases, owner : Procs, whole : BOOLEAN, found : BOOLEAN]
    /\ walk \in Seq(Links)
    /\ missed \subseteq Links /\ resumed \subseteq Threads /\ stray \subseteq Links
    /\ torn \subseteq Links /\ revived \subseteq Threads /\ cut \subseteq Threads

Gone(x) == IF x \in Threads THEN status[x] = "deleted" ELSE x \notin Table

(* A link is freed once, by its waiter or, when that is gone, by the        *)
(* collector, and what is on a list or to be answered is not freed: unless  *)
(* a peer set its waiter running, who then frees a link that is still on    *)
(* its list and is later woken by it from another wait.                     *)
FreedOnce ==
    \A l \in Links : Waiter(l) \notin resumed =>
        /\ frees[l] <= 1 /\ l \notin stray
        /\ \A x \in Targets : frees[l] > 0 => \A i \in DOMAIN waits[x] : waits[x][i] # l

(* Who is told of a death has waited for one, of its target; who is told of *)
(* none was set running by a peer.                                          *)
AnswersTrue ==
    \A t \in Threads :
        /\ result[t] \in {"refused", "died"} => Gone(target[t])
        /\ result[t] = "failed" => t \in resumed

(* A thread the collector deletes is not in the kernel, where it would be   *)
(* counted for ever: unless it was ended there, or the collector itself set *)
(* it running again after its end.                                          *)
DeletedOutside ==
    \A t \in Threads : status[t] = "deleted" /\ pc[t] \in Inside => t \in revived \cup cut

(* A sleeper whose target is gone is woken, unless the collector came when  *)
(* it was not yet asleep, or lost the list over a freed link.               *)
SleeperWoken ==
    \A t \in Threads :
        []<>(\/ status[t] # "asleep"
             \/ ~Gone(target[t])
             \/ Link(t) \in missed \cup torn)

(* gc_thread: "wake up any sleepers". When the collector is done with a     *)
(* list, nobody who was on it sleeps.                                       *)
NoSleeperLeft ==
    \A t \in Threads :
        status[t] = "asleep" /\ Home[t] \in Table /\ gc.phase = "idle" => ~Gone(target[t])
=============================================================================
