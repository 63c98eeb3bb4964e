---------------------------- MODULE SmpScheduler ----------------------------
(***************************************************************************)
(* The scheduler of the multiprocessor kernel (scheduler.c, exec_thread and *)
(* set_thread_state in threads.c), with interrupt threads (irq.c) and the   *)
(* calls that change a thread's state or handle an interrupt (syscalls.c).  *)
(* Each processor has a queue under a spinlock. A thread that takes one off *)
(* another processor's queue keeps that lock until the processor stops.     *)
(* At this commit only the first module's process is ever started, so all   *)
(* threads are its own and its checkout lets one call in at a time.         *)
(* sub_queue and the others raise si->locked only with interrupts off, where *)
(* exec_thread never finds it set: it is left out. pause and restart have   *)
(* no caller. A processor's queue has room for every thread.                *)
(***************************************************************************)
EXTENDS Integers, Sequences, FiniteSets

CONSTANTS
    Threads,    \* 1..n: tids
    CPUs,       \* 0..m; interrupts come to processor 0
    Drivers,    \* threads spawned for the line, by smk_request_irq
    Nobody

ASSUME NamesAssumption ==
    /\ IsFiniteSet(Threads) /\ Threads # {} /\ Threads = 1..Cardinality(Threads)
    /\ IsFiniteSet(CPUs) /\ CPUs # {} /\ CPUs = 0..(Cardinality(CPUs) - 1)
    /\ Drivers \subseteq Threads
    /\ Nobody \notin Threads /\ Nobody \notin CPUs

VARIABLES
    queue,      \* sched_queue
    position,
    picked,     \* previous_pos
    current,    \* current_thread; Nobody while the idle thread runs
    running,
    state,      \* thread->state
    cpu,        \* thread->cpu
    sched,      \* whether thread->sched_state asks for THREAD_IRQ
    pc,         \* where each thread is in the kernel
    call,       \* the thread whose state is changed, and to what
    busy,       \* the thread that has the process checked out
    handler,    \* handlers[irq], of one line
    masked,
    irq,        \* where the interrupt handler is
    refused,    \* history: the last interrupt was not handled
    late,       \* history: a wait was passed over by remove_last
    failed      \* history: threads for whom an assertion failed

scheduler == <<queue, position, picked, current, running>>
thread == <<state, cpu, sched>>
line == <<handler, masked, irq>>
history == <<refused, late, failed>>
vars == <<scheduler, thread, pc, call, busy, line, history>>

First == 1
Home(t) == (t - 1) % Cardinality(CPUs)
Queued(t) == \E i \in DOMAIN queue[Home(t)] : queue[Home(t)][i] = t
Place(c, t) == CHOOSE i \in DOMAIN queue[c] : queue[c][i] = t
Without(s, i) == SubSeq(s, 1, i - 1) \o SubSeq(s, i + 1, Len(s))

(* ( position - 1 ) % count in 32 bits *)
Back(p, n) ==
    CASE n = 0 -> 0
      [] n > 0 /\ p = 0 -> ((65536 % n) * (65536 % n) + n - 1) % n
      [] OTHER -> (p - 1) % n

Target(t) == call[t].target

(* Interrupts are off from the test of a thread's state to its change. *)
Changing == {"unlist", "await", "unset", "list", "mark", "halted"}

(* A thread waits with the lock of the target's processor for it to stop;   *)
(* all else under a lock is one step.                                       *)
Locked(c) == \E t \in Threads : pc[t] = "await" /\ Home(Target(t)) = c

(* t's processor is executing t. *)
OnCPU(t) == current[Home(t)] = t /\ running[Home(t)] /\ (Home(t) = 0 => irq = "none")

Init ==
    /\ queue = [c \in CPUs |-> IF c = Home(First) THEN <<First>> ELSE << >>]
    /\ position = [c \in CPUs |-> 0]
    /\ picked = [c \in CPUs |-> 0]
    /\ current = [c \in CPUs |-> Nobody]
    /\ running = [c \in CPUs |-> FALSE]
    /\ state = [t \in Threads |-> "suspended"]
    /\ cpu = [t \in Threads |-> IF t = First THEN Home(First) ELSE Nobody]
    /\ sched = [t \in Threads |-> FALSE]
    /\ pc = [t \in Threads |-> "user"]
    /\ call = [t \in Threads |-> [target |-> t, state |-> "suspended"]]
    /\ busy = Nobody
    /\ handler = Nobody
    /\ masked = TRUE
    /\ irq = "none"
    /\ refused = FALSE
    /\ late = FALSE
    /\ failed = {}

Goto(t, s) == pc' = [pc EXCEPT ![t] = s]
Forget(t) == call' = [call EXCEPT ![t] = [target |-> t, state |-> "suspended"]]
-----------------------------------------------------------------------------
(* syscall_thread, SYS_TWO, and set_thread_state.                           *)

(* dequeue wants the thread to have a processor, queue wants it to have     *)
(* none. Nobody resumes or suspends the thread of an interrupt line.        *)
SetState(t) ==
    /\ pc[t] = "user" /\ OnCPU(t) /\ busy = Nobody /\ t \notin Drivers
    /\ busy' = t
    /\ \E u \in Threads \ Drivers, s \in {"running", "suspended"} :
        /\ state[u] # s
        /\ call' = [call EXCEPT ![t] = [target |-> u, state |-> s]]
        /\ \/ /\ state[u] = "running"
              /\ Goto(t, IF cpu[u] = Nobody THEN "halted" ELSE "unlist")
              /\ failed' = IF cpu[u] = Nobody THEN failed \cup {u} ELSE failed
              /\ UNCHANGED cpu
           \/ /\ s = "running"
              /\ Goto(t, IF cpu[u] # Nobody THEN "halted" ELSE "list")
              /\ failed' = IF cpu[u] # Nobody THEN failed \cup {u} ELSE failed
              /\ cpu' = IF cpu[u] # Nobody THEN cpu ELSE [cpu EXCEPT ![u] = Home(u)]
    /\ UNCHANGED <<scheduler, state, sched, line, refused, late>>

(* sub_dequeue: the lock, *)
Lock(t) ==
    /\ pc[t] = "unlist" /\ OnCPU(t)
    /\ ~Locked(Home(Target(t)))
    /\ Goto(t, "await")
    /\ UNCHANGED <<scheduler, thread, call, busy, line, history>>

Removed(t) ==
    LET u == Target(t)
        c == Home(u)
    IN  /\ IF Queued(u)
           THEN /\ queue' = [queue EXCEPT ![c] = Without(@, Place(c, u))]
                /\ position' = [position EXCEPT ![c] = Back(@, Len(queue[c]) - 1)]
                /\ Goto(t, "unset")
                /\ UNCHANGED failed
           ELSE /\ Goto(t, "halted")
                /\ failed' = failed \cup {u}
                /\ UNCHANGED <<queue, position>>
        /\ UNCHANGED <<picked, current, running, thread, call, busy, line, refused, late>>

(* Faulty variants: the other processor may still be running it; a thread   *)
(* waits for its own processor.                                             *)
UnlistAtOnce(t) == pc[t] = "await" /\ OnCPU(t) /\ Removed(t)
UnlistSelfToo(t) == pc[t] = "await" /\ OnCPU(t) /\ ~running[Home(Target(t))] /\ Removed(t)

(* the other processor's stop, and the removal. *)
Unlist(t) ==
    /\ pc[t] = "await" /\ OnCPU(t)
    /\ Home(Target(t)) # Home(t) => ~running[Home(Target(t))]
    /\ Removed(t)

(* Faulty variant: the thread keeps its processor. *)
UnsetForgets(t) ==
    /\ pc[t] = "unset" /\ OnCPU(t)
    /\ Goto(t, "mark")
    /\ UNCHANGED <<scheduler, thread, call, busy, line, history>>

Unset(t) ==
    /\ pc[t] = "unset" /\ OnCPU(t)
    /\ cpu' = [cpu EXCEPT ![Target(t)] = Nobody]
    /\ Goto(t, "mark")
    /\ UNCHANGED <<scheduler, state, sched, call, busy, line, history>>

(* sub_queue *)
List(t) ==
    LET c == Home(Target(t)) IN
    /\ pc[t] = "list" /\ OnCPU(t)
    /\ ~Locked(c)
    /\ queue' = [queue EXCEPT ![c] = Append(@, Target(t))]
    /\ Goto(t, "mark")
    /\ UNCHANGED <<position, picked, current, running, thread, call, busy, line, history>>

(* The word changes last. One's own change is followed by a yield, which    *)
(* keeps the process checked out; the thread is on no queue any more, and   *)
(* only a call of its own process could put it there.                       *)
Mark(t) ==
    LET u == Target(t) IN
    /\ pc[t] = "mark" /\ OnCPU(t)
    /\ state' = [state EXCEPT ![u] = call[t].state]
    /\ IF u = t
       THEN Goto(t, "yield") /\ UNCHANGED busy
       ELSE Goto(t, "user") /\ busy' = Nobody
    /\ Forget(t)
    /\ UNCHANGED <<scheduler, cpu, sched, line, history>>
-----------------------------------------------------------------------------
(* syscall_irq. irq_lock is held with interrupts on; a handler that has     *)
(* halted keeps it.                                                         *)

IrqHeld == irq \in {"queue", "halted"} \/ \E t \in Threads : pc[t] \in {"request", "release", "ack"}

(* A line is requested for a thread that has not been started; that thread  *)
(* releases the line and acknowledges interrupts.                           *)
LockIrq(t) ==
    /\ pc[t] = "user" /\ OnCPU(t) /\ busy = Nobody /\ ~IrqHeld
    /\ busy' = t
    /\ \/ /\ t \notin Drivers
          /\ \E d \in Drivers :
                /\ state[d] = "suspended"
                /\ call' = [call EXCEPT ![t].target = d]
          /\ Goto(t, "request")
       \/ t \in Drivers /\ Goto(t, "release") /\ UNCHANGED call
       \/ t \in Drivers /\ Goto(t, "ack") /\ UNCHANGED call
    /\ UNCHANGED <<scheduler, thread, line, history>>

(* request_irq changes the state and nothing else of the thread. *)
Request(t) ==
    /\ pc[t] = "request" /\ OnCPU(t)
    /\ IF handler = Nobody
       THEN /\ handler' = Target(t)
            /\ state' = [state EXCEPT ![Target(t)] = "irq"]
            /\ masked' = FALSE
       ELSE UNCHANGED <<handler, state, masked>>
    /\ busy' = Nobody
    /\ Goto(t, "user")
    /\ Forget(t)
    /\ UNCHANGED <<scheduler, cpu, sched, irq, history>>

(* release_irq *)
Release(t) ==
    /\ pc[t] = "release" /\ OnCPU(t)
    /\ IF handler = t
       THEN handler' = Nobody /\ masked' = TRUE
       ELSE UNCHANGED <<handler, masked>>
    /\ busy' = Nobody
    /\ Goto(t, "user")
    /\ UNCHANGED <<scheduler, thread, call, irq, history>>

(* irq_ack of an interrupt that was handled, or was not, *)
Acknowledge(t) ==
    /\ pc[t] = "ack" /\ OnCPU(t)
    /\ \/ masked' = FALSE /\ UNCHANGED refused
       \/ refused' = TRUE /\ UNCHANGED masked
    /\ busy' = Nobody
    /\ Goto(t, "acked")
    /\ UNCHANGED <<scheduler, thread, call, handler, irq, late, failed>>

(* and the wait for the next, which the scheduler carries out. *)
Wait(t) ==
    /\ pc[t] = "acked" /\ OnCPU(t)
    /\ sched' = [sched EXCEPT ![t] = TRUE]
    /\ Goto(t, "waiting")
    /\ UNCHANGED <<scheduler, state, cpu, call, busy, line, history>>
-----------------------------------------------------------------------------
(* irq_handler, on processor 0 on top of the thread that runs there.        *)

Interruptible(c) ==
    /\ running[c]
    /\ current[c] # Nobody => pc[current[c]] \notin Changing

Interrupt ==
    /\ irq = "none" /\ ~masked /\ Interruptible(0)
    /\ irq' = "lock"
    /\ UNCHANGED <<scheduler, thread, pc, call, busy, handler, masked, history>>

(* queue *)
Handle ==
    /\ irq = "lock" /\ ~IrqHeld
    /\ masked' = TRUE
    /\ refused' = FALSE
    /\ IF handler = Nobody
       THEN irq' = "none" /\ UNCHANGED <<cpu, failed>>
       ELSE IF cpu[handler] # Nobody
            THEN irq' = "halted" /\ failed' = failed \cup {handler} /\ UNCHANGED cpu
            ELSE irq' = "queue" /\ cpu' = [cpu EXCEPT ![handler] = Home(handler)] /\ UNCHANGED failed
    /\ UNCHANGED <<scheduler, state, sched, pc, call, busy, handler, late>>

(* Faulty variant: the handler's thread is not put on the queue. *)
HandleDrops ==
    /\ irq = "queue"
    /\ ~Locked(Home(handler))
    /\ irq' = "none"
    /\ UNCHANGED <<scheduler, thread, pc, call, busy, handler, masked, history>>

(* sub_queue *)
QueueHandler ==
    LET c == Home(handler) IN
    /\ irq = "queue"
    /\ ~Locked(c)
    /\ queue' = [queue EXCEPT ![c] = Append(@, handler)]
    /\ irq' = "none"
    /\ UNCHANGED <<position, picked, current, running, thread, pc, call, busy, handler, masked, history>>
-----------------------------------------------------------------------------
(* scheduler and exec_thread.                                               *)

(* The timer, or a yield, ends the thread's run. *)
Stop(c) ==
    /\ running[c] /\ (c = 0 => irq = "none")
    /\ current[c] # Nobody => pc[current[c]] \notin Changing
    /\ running' = [running EXCEPT ![c] = FALSE]
    /\ UNCHANGED <<queue, position, picked, current, thread, pc, call, busy, line, history>>

(* remove_last: a thread that waits for an interrupt leaves its queue, if   *)
(* it is still at the place it was picked from.                             *)
Leaves(c) ==
    /\ current[c] # Nobody /\ queue[c] # << >>
    /\ queue[c][(picked[c] % Len(queue[c])) + 1] = current[c]
    /\ sched[current[c]]

(* With the lock again: remove_last, and the next thread is run.            *)
TurnBy(c, step) ==
    LET t == current[c]
        q == IF Leaves(c) THEN Without(queue[c], (picked[c] % Len(queue[c])) + 1) ELSE queue[c]
        p == IF Leaves(c) THEN Back(position[c], Len(q)) ELSE position[c]
        n == IF q = << >> THEN Nobody ELSE q[p + 1]
    IN  /\ ~running[c] /\ ~Locked(c)
        /\ IF Leaves(c)
           THEN /\ state' = [state EXCEPT ![t] = "irq"]
                /\ sched' = [sched EXCEPT ![t] = FALSE]
                /\ cpu' = [cpu EXCEPT ![t] = Nobody]
           ELSE UNCHANGED thread
        /\ queue' = [queue EXCEPT ![c] = q]
        /\ picked' = [picked EXCEPT ![c] = p]
        /\ position' = [position EXCEPT ![c] = IF q = << >> THEN p ELSE (p + step) % Len(q)]
        /\ current' = [current EXCEPT ![c] = n]
        /\ running' = [running EXCEPT ![c] = TRUE]
        /\ pc' = IF n # Nobody /\ pc[n] = "waiting" THEN [pc EXCEPT ![n] = "user"] ELSE pc
        /\ late' = (late \/ (t # Nobody /\ sched'[t]))
        /\ UNCHANGED <<call, busy, line, refused, failed>>

(* Faulty variant: the next turn is the same thread's. *)
TurnStays(c) == TurnBy(c, 0)

Turn(c) == TurnBy(c, 1)

Change(t) == Lock(t) \/ Unlist(t) \/ Unset(t) \/ List(t) \/ Mark(t)
Finish(t) == Request(t) \/ Release(t) \/ Acknowledge(t)
Handler == Handle \/ QueueHandler

Next ==
    \/ \E t \in Threads : SetState(t) \/ Change(t) \/ LockIrq(t) \/ Finish(t) \/ Wait(t)
    \/ \E c \in CPUs : Stop(c) \/ Turn(c)
    \/ Interrupt \/ Handler

Spec == Init /\ [][Next]_vars

(* Processors execute: the scheduler; a thread with interrupts off; and one *)
(* with interrupts on, which gets something done in its time slices. The    *)
(* timer ends every run, if late because interrupts were off, and the       *)
(* handler's loop for a lock outlasts calls that take it in turn. Nobody    *)
(* has to make a call, or to be interrupted.                                *)
Fairness ==
    /\ SF_vars(Handler)
    /\ \A c \in CPUs : WF_vars(Turn(c)) /\ SF_vars(Stop(c))
    /\ \A t \in Threads : WF_vars(Change(t))
    /\ SF_vars(\E t \in Threads : Finish(t))

FairSpec == Spec /\ Fairness
-----------------------------------------------------------------------------
(* The types; and the scheduler reads the queue at its position without a   *)
(* test, so that lies within whatever is put on the queue or taken off.     *)
TypeOK ==
    /\ queue \in [CPUs -> Seq(Threads)]
    /\ position \in [CPUs -> Nat] /\ picked \in [CPUs -> Nat]
    /\ \A c \in CPUs : queue[c] # << >> => position[c] < Len(queue[c])
    /\ current \in [CPUs -> Threads \cup {Nobody}]
    /\ running \in [CPUs -> BOOLEAN]
    /\ state \in [Threads -> {"suspended", "running", "irq"}]
    /\ cpu \in [Threads -> CPUs \cup {Nobody}]
    /\ sched \in [Threads -> BOOLEAN]
    /\ pc \in [Threads -> Changing \cup {"user", "yield", "request", "release", "ack", "acked", "waiting"}]
    /\ call \in [Threads -> [target : Threads, state : {"suspended", "running"}]]
    /\ busy \in Threads \cup {Nobody} /\ handler \in Threads \cup {Nobody}
    /\ masked \in BOOLEAN /\ irq \in {"none", "lock", "queue", "halted"}
    /\ refused \in BOOLEAN /\ late \in BOOLEAN /\ failed \subseteq Threads

(* "make sure it's not running anything": a thread that runs is on its      *)
(* processor's queue, so one that a peer on another processor has taken off *)
(* has stopped; or it has just taken itself off and is about to yield.      *)
RunsQueued ==
    \A c \in CPUs : LET t == current[c] IN
        running[c] /\ t # Nobody =>
            Queued(t) \/ (Target(t) = t /\ pc[t] \in {"unset", "mark", "yield"})

Settled(t) ==
    /\ \A x \in Threads : Target(x) = t => pc[x] \notin {"unset", "list", "mark"}
    /\ ~(handler = t /\ irq = "queue")

(* Who runs is queued, and the word, the processor and the queues agree: no *)
(* thread is on a queue twice, it has a processor when it is on that one's  *)
(* queue, it is there when its state is running, and no assertion fails for *)
(* it; but state means nothing for the first module's thread, which is      *)
(* queued as it is, and for that of an interrupt line.                      *)
StatesAgree ==
    /\ RunsQueued
    /\ \A t \in Threads :
        /\ Cardinality({i \in DOMAIN queue[Home(t)] : queue[Home(t)][i] = t}) <= 1
        /\ Settled(t) => (cpu[t] = Home(t) <=> Queued(t))
        /\ Settled(t) /\ t \notin Drivers \cup {First} => (state[t] = "running" <=> Queued(t))
    /\ failed \subseteq Drivers \cup {First}

(* A line that the handler has masked has a thread on a queue that will     *)
(* acknowledge it, if it did not refuse the last one. A wait that was       *)
(* passed over takes the thread off at a later turn, whatever it does then. *)
LineServed ==
    masked /\ handler # Nobody /\ irq = "none" => Queued(handler) \/ refused \/ late

(* What stops a processor for good: a failed assertion; the handler, if it  *)
(* wants the lock of a thread that waits for this processor to stop; the    *)
(* handler again, if it wants irq_lock of a thread that it interrupted; and *)
(* a wait that takes a thread off its queue when it has locks of its own.   *)
Halted ==
    \/ failed # {} \/ late
    \/ irq = "queue" /\ Locked(0) /\ Home(handler) = 0
    \/ irq = "lock" /\ \E t \in Threads : Home(t) = 0 /\ pc[t] \in {"request", "release", "ack"}

(* A call gives the process back, and the handler comes to its end, unless  *)
(* a processor has stopped for good; but a thread that suspends itself      *)
(* keeps its process, and nobody can resume it.                             *)
CallsReturn ==
    /\ []<>(Halted \/ busy = Nobody \/ pc[busy] = "yield")
    /\ []<>(Halted \/ irq = "none")

Removing(c) == \E t \in Threads :
    \/ Home(t) = c /\ sched[t]
    \/ Home(Target(t)) = c /\ pc[t] = "unset"

(* A queued thread gets its turn again and again; but each removal from the *)
(* queue moves the position back, and those that never cease may keep it    *)
(* away from a thread.                                                      *)
ReadyRuns ==
    \A t \in Threads :
        \/ []<>(current[Home(t)] = t \/ ~Queued(t) \/ Halted)
        \/ []<>Removing(Home(t))

(* queue in scheduler.c: assert( tr->cpu < 0 ), of an interrupt's thread.   *)
HandlerIdle == failed \cap Drivers = {}
=============================================================================
