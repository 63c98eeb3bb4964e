----------------------------- MODULE RoundRobin -----------------------------
(***************************************************************************)
(* The scheduler of the old kernel (old_kernel/schedulers/rrpp.c) with the  *)
(* three things that drive it: the state changes of threads (threads.c),    *)
(* the switch to a thread (arch/i686/switching.c) and interrupts that wake  *)
(* driver threads (irq.c). There is one processor. The scheduler runs with  *)
(* interrupts off; they come only while a thread runs.                      *)
(***************************************************************************)
EXTENDS Integers, FiniteSets, Sequences, SequencesExt

CONSTANTS
    Threads, Procs,
    Home,           \* the process of each thread
    Tid,            \* and its number there
    First,          \* the one that runs from the start
    Lines,          \* interrupt lines
    MaxRequests,    \* MAX_REQUESTS
    MaxLoad,        \* bound: threads made and threads upset, together
    MaxUpsets,      \* bound: threads that are used as the library never does
    Idle, Gc,       \* smk_idle, smk_gc
    Nobody, NoLine

ASSUME HomeAssumption == Home \in [Threads -> Procs]
ASSUME TidAssumption == Tid \in [Threads -> Nat] /\ First \in Threads
ASSUME RequestsAssumption ==
    MaxRequests \in Nat \ {0, 1} /\ IsFiniteSet(Lines) /\ Cardinality(Lines) < MaxRequests
ASSUME BoundsAssumption == MaxLoad \in Nat /\ MaxUpsets \in Nat
ASSUME NamesAssumption ==
    /\ Threads \cap {Idle, Gc, Nobody} = {} /\ Cardinality({Idle, Gc, Nobody}) = 3
    /\ NoLine \notin Lines

VARIABLES
    queue,          \* _queue up to its first empty slot
    requests, pos, mark,            \* _requests, _request_pos, _request_mark
    slotPos, threadPos, ran,        \* scheduler's positions; count_perLoop > 0
    phase,          \* where scheduler goes on when nobody runs
    cur,            \* who runs
    state,          \* of each thread
    handler,        \* handlers[line].t
    masked,         \* handlers[line].masked
    duty,           \* the line a driver thread's loop acknowledges
    tasks,          \* threads the collector is asked to free
    upset           \* history: threads used as the library never does

ring == <<requests, pos, mark>>
place == <<slotPos, threadPos, ran>>
irq == <<handler, masked, duty>>
vars == <<queue, ring, place, phase, cur, state, irq, tasks, upset>>

(* asleep: DORMANT, SLEEPING, WAITING, SEMAPHORE; whether a time is set is  *)
(* left open. gone: STOPPED and freed. none: not made yet.                  *)
States == {"none", "suspended", "running", "asleep", "irq", "finished", "gone"}
Phases == {"gc", "request", "slot", "rewind", "halted"}

Init ==
    /\ queue = <<[proc |-> Home[First], threads |-> <<First>>]>>
    /\ requests = [i \in 0 .. MaxRequests - 1 |-> Nobody]
    /\ pos = 0 /\ mark = 0
    /\ slotPos = 0 /\ threadPos = 0 /\ ran = FALSE
    /\ phase = "gc" /\ cur = Nobody
    /\ state = [t \in Threads |-> IF t = First THEN "running" ELSE "none"]
    /\ handler = [l \in Lines |-> Nobody]
    /\ masked = [l \in Lines |-> TRUE]
    /\ duty = [t \in Threads |-> NoLine]
    /\ tasks = {}
    /\ upset = {}
-----------------------------------------------------------------------------
(* The slots.                                                               *)

SlotOf(p) == SelectInSeq(queue, LAMBDA s : s.proc = p)

(* sched_insert, the arrays long enough: to the end of the process's slot, *)
(* which is new, at the end, if the process has none.                       *)
Inserted(t) ==
    LET i == SlotOf(Home[t]) IN
    IF i = 0 THEN Append(queue, [proc |-> Home[t], threads |-> <<t>>])
             ELSE [queue EXCEPT ![i].threads = Append(@, t)]

(* sched_remove: the first entry of t goes, and its slot with the last one. *)
Removed(t) ==
    LET i == SlotOf(Home[t]) IN
    IF i = 0 THEN queue ELSE
    LET j == SelectInSeq(queue[i].threads, LAMBDA u : u = t) IN
    IF j = 0 THEN queue ELSE
    IF Len(queue[i].threads) = 1 THEN RemoveAt(queue, i)
    ELSE [queue EXCEPT ![i].threads = RemoveAt(@, j)]

(* The states set_thread_state takes a thread off the queue for, and those  *)
(* it puts one on for: SUSPENDED is only among the latter.                  *)
Leaves == {"running", "asleep", "finished"}
Joins == Leaves \cup {"suspended"}

(* Faulty variant: the state is changed and the queue forgotten. *)
SetThreadStateOnly(t, s) ==
    /\ state' = [state EXCEPT ![t] = s]
    /\ queue' = IF state[t] \in Leaves \/ s \notin Joins THEN queue ELSE Inserted(t)

SetThreadState(t, s) ==
    LET remove == state[t] \in Leaves
        insert == s \in Joins
    IN /\ state' = [state EXCEPT ![t] = s]
       /\ queue' = IF state[t] = s \/ remove = insert THEN queue
                   ELSE IF remove THEN Removed(t) ELSE Inserted(t)
-----------------------------------------------------------------------------
(* scheduler(), from one switch_thread to the next.                         *)

At(p) == cur = Nobody /\ phase = p
Run(who, next) == cur' = who /\ phase' = next /\ ran' = TRUE
GoOn(next, r) == cur' = Nobody /\ phase' = next /\ ran' = r

(* switch_thread: t runs, or is asleep, or is due to run, or is handed to   *)
(* the collector. A thread that was freed is read from freed memory.        *)
SwitchThread(t, next, r) ==
    \/ state[t] = "running" /\ Run(t, next) /\ UNCHANGED <<state, tasks>>
    \/ /\ state[t] = "asleep" /\ Run(t, next)
       /\ state' = [state EXCEPT ![t] = "running"] /\ UNCHANGED tasks
    \/ state[t] \in {"suspended", "asleep", "irq"} /\ GoOn(next, r) /\ UNCHANGED <<state, tasks>>
    \/ /\ state[t] = "finished" /\ GoOn(next, r)
       /\ tasks' = tasks \cup {t} /\ UNCHANGED state
    \/ state[t] = "gone" /\ GoOn("halted", r) /\ UNCHANGED <<state, tasks>>

(* Faulty variant: the next slot is entered where the last one was left. *)
PickKeepsPosition(sp, tp, r) ==
    LET exhausted == sp < Len(queue) /\ Len(queue[sp + 1].threads) <= tp
        s == IF exhausted THEN sp + 1 ELSE sp
    IN /\ slotPos' = s
       /\ IF s < Len(queue) /\ tp < Len(queue[s + 1].threads)
          THEN /\ threadPos' = tp + 1
               /\ SwitchThread(queue[s + 1].threads[tp + 1], "gc", r)
          ELSE /\ threadPos' = tp
               /\ UNCHANGED <<state, tasks>>
               /\ GoOn("gc", r)

(* The two sanity checks and the switch to the thread at the position; a    *)
(* turn that rewinds forgets that something ran (r).                        *)
Pick(sp, tp, r) ==
    LET exhausted == sp < Len(queue) /\ Len(queue[sp + 1].threads) <= tp
        s == IF exhausted THEN sp + 1 ELSE sp
        i == IF exhausted THEN 0 ELSE tp
    IN /\ slotPos' = s
       /\ IF s < Len(queue)
          THEN /\ threadPos' = i + 1
               /\ SwitchThread(queue[s + 1].threads[i + 1], "gc", r)
          ELSE /\ threadPos' = i
               /\ UNCHANGED <<state, tasks>>
               /\ GoOn("gc", r)

(* Past the last slot the positions go back to the first, after the idle    *)
(* thread had its turn if no other had.                                     *)
ServeSlots ==
    \/ slotPos < Len(queue) /\ Pick(slotPos, threadPos, ran)
    \/ slotPos >= Len(queue) /\ ran /\ Pick(0, 0, FALSE)
    \/ /\ slotPos >= Len(queue) /\ ~ran
       /\ cur' = Idle /\ phase' = "rewind"
       /\ UNCHANGED <<place, state, tasks>>

(* Faulty variant: the newest request is served, not the oldest. *)
ServeNewestRequest ==
    IF pos = mark THEN ServeSlots
    ELSE /\ SwitchThread(requests[(mark + MaxRequests - 1) % MaxRequests], "slot", ran)
         /\ UNCHANGED <<slotPos, threadPos>>

(* The oldest request has a turn in every iteration until it is acknowledged. *)
ServeRequest ==
    IF pos = mark THEN ServeSlots
    ELSE SwitchThread(requests[pos], "slot", ran) /\ UNCHANGED <<slotPos, threadPos>>

ServeCollector ==
    IF tasks = {} THEN ServeRequest
    ELSE Run(Gc, "request") /\ UNCHANGED <<slotPos, threadPos, state, tasks>>

(* One iteration of the loop, from where it was left for a thread. *)
Schedule ==
    /\ \/ At("gc") /\ ServeCollector
       \/ At("request") /\ ServeRequest
       \/ At("slot") /\ ServeSlots
       \/ At("rewind") /\ Pick(0, 0, FALSE)
    /\ UNCHANGED <<queue, ring, irq, upset>>

(* The timer, or sched_yield. *)
Yield ==
    /\ cur # Nobody
    /\ cur' = Nobody
    /\ UNCHANGED <<queue, ring, place, phase, state, irq, tasks, upset>>

Turn == Schedule \/ Yield
-----------------------------------------------------------------------------
(* What the thread that runs does.                                          *)

Pending == {requests[(pos + i) % MaxRequests] : i \in 0 .. ((mark + MaxRequests - pos) % MaxRequests) - 1}
Handlers == {handler[l] : l \in Lines} \ {Nobody}
Drivers == {t \in Threads : duty[t] # NoLine}

IsMain(t) == Tid[t] = 0

Load == Cardinality({t \in Threads : state[t] # "none"}) + Cardinality(upset)

(* At most one upset of each thread. *)
Upsets(t, is) ==
    /\ is => t \notin upset /\ Cardinality(upset) < MaxUpsets /\ Load < MaxLoad
    /\ upset' = IF is THEN upset \cup {t} ELSE upset

(* new_thread, or for the first thread of a process exec; numbers are given *)
(* in turn.                                                                 *)
NewThread(t) ==
    /\ cur \in Threads /\ state[t] = "none"
    /\ IsMain(t) \/ Home[t] = Home[cur]
    /\ \A u \in Threads : Home[u] = Home[t] /\ Tid[u] < Tid[t] => state[u] # "none"
    /\ Load < MaxLoad
    /\ state' = [state EXCEPT ![t] = "suspended"]
    /\ UNCHANGED <<queue, ring, place, phase, cur, irq, tasks, upset>>

(* The library's resume, suspend and kill of a thread of one's process, or  *)
(* the start of a process. It disturbs a thread to suspend it once it runs, *)
(* and to set the state of a driver.                                        *)
PeerSet(t, s) ==
    /\ cur \in Threads
    /\ Home[t] = Home[cur] \/ (IsMain(t) /\ s = "running")
    /\ state[t] \notin {"none", "gone", s}
    /\ SetThreadState(t, s)
    /\ cur' = IF t = cur THEN Nobody ELSE cur
    /\ Upsets(t, s = "suspended" \/ t \in Drivers)
    /\ UNCHANGED <<ring, place, phase, irq, tasks>>

(* go_dormant, a wait, a semaphore or sleep, and the yield that follows. *)
Block ==
    /\ cur \in Threads
    /\ SetThreadState(cur, "asleep")
    /\ cur' = Nobody
    /\ UNCHANGED <<ring, place, phase, irq, tasks, upset>>

(* A message, a pulse, a signal or the end of a wait. *)
Wake(t) ==
    /\ cur \in Threads \cup {Gc} /\ state[t] = "asleep"
    /\ SetThreadState(t, "running")
    /\ UNCHANGED <<ring, place, phase, cur, irq, tasks, upset>>

(* The end of a thread; a driver that ends leaves its line or its request   *)
(* behind.                                                                  *)
Exit ==
    /\ cur \in Threads
    /\ SetThreadState(cur, "finished")
    /\ cur' = Nobody
    /\ Upsets(cur, cur \in Drivers)
    /\ UNCHANGED <<ring, place, phase, irq, tasks>>

(* gc_cleanup of a thread. *)
Collect(t) ==
    /\ cur = Gc /\ t \in tasks
    /\ SetThreadState(t, "gone")
    /\ tasks' = tasks \ {t}
    /\ UNCHANGED <<ring, place, phase, cur, irq, upset>>
-----------------------------------------------------------------------------
(* Interrupts.                                                              *)

(* Faulty variant: the line is left masked. *)
RequestIrqMasked(t, l) ==
    /\ cur \in Threads /\ Home[t] = Home[cur]
    /\ state[t] \notin {"none", "gone"} /\ duty[t] = NoLine
    /\ handler[l] = Nobody
    /\ handler' = [handler EXCEPT ![l] = t]
    /\ duty' = [duty EXCEPT ![t] = l]
    /\ SetThreadState(t, "irq")
    /\ Upsets(t, state[t] # "suspended" \/ IsMain(t) \/ Pending \ Handlers # {})
    /\ UNCHANGED <<ring, place, phase, cur, masked, tasks>>

(* request_irq, for a thread that was spawned for it. Else it is an upset,  *)
(* and so it is while a driver that gave a line up has yet to acknowledge.  *)
RequestIrq(t, l) ==
    /\ cur \in Threads /\ Home[t] = Home[cur]
    /\ state[t] \notin {"none", "gone"} /\ duty[t] = NoLine
    /\ handler[l] = Nobody
    /\ handler' = [handler EXCEPT ![l] = t]
    /\ duty' = [duty EXCEPT ![t] = l]
    /\ masked' = [masked EXCEPT ![l] = FALSE]
    /\ SetThreadState(t, "irq")
    /\ Upsets(t, state[t] # "suspended" \/ IsMain(t) \/ Pending \ Handlers # {})
    /\ UNCHANGED <<ring, place, phase, cur, tasks>>

ReleaseIrq(l) ==
    /\ cur \in Threads /\ handler[l] = cur
    /\ handler' = [handler EXCEPT ![l] = Nobody]
    /\ masked' = [masked EXCEPT ![l] = TRUE]
    /\ UNCHANGED <<queue, ring, place, phase, cur, state, duty, tasks, upset>>

(* sched_request: nothing happens if the ring is full. *)
SchedRequest(t) ==
    /\ requests' = IF (mark + 1) % MaxRequests = pos THEN requests
                   ELSE [requests EXCEPT ![mark] = t]
    /\ mark' = IF (mark + 1) % MaxRequests = pos THEN mark ELSE (mark + 1) % MaxRequests
    /\ UNCHANGED pos

(* irq_handler's check of pid and tid: a main thread, whose tid is 0, is    *)
(* never requested, and its line stays masked after the first interrupt.    *)
Served(l) == handler[l] # Nobody /\ ~IsMain(handler[l])

(* Faulty variant: the driver is also put on the queue. *)
InterruptQueues(l) ==
    /\ cur # Nobody /\ ~masked[l]
    /\ masked' = [masked EXCEPT ![l] = TRUE]
    /\ \/ ~Served(l) /\ UNCHANGED <<queue, ring, cur, state>>
       \/ /\ Served(l) /\ SchedRequest(handler[l])
          /\ state[handler[l]] # "gone" /\ SetThreadState(handler[l], "running")
          /\ cur' = Nobody
    /\ UNCHANGED <<place, phase, handler, duty, tasks, upset>>

(* irq_handler: the driver's state is set past set_thread_state, so it runs *)
(* from the ring alone.                                                     *)
Interrupt(l) ==
    /\ cur # Nobody /\ ~masked[l]
    /\ masked' = [masked EXCEPT ![l] = TRUE]
    /\ \/ ~Served(l) /\ UNCHANGED <<ring, cur, state>>
       \/ /\ Served(l) /\ SchedRequest(handler[l])
          /\ state' = [state EXCEPT ![handler[l]] = IF @ = "gone" THEN @ ELSE "running"]
          /\ cur' = Nobody
    /\ UNCHANGED <<queue, place, phase, handler, duty, tasks, upset>>

(* What a driver's loop does after its function: ASSERT that it is the      *)
(* oldest request, or halt; then its line is open again.                    *)
Acknowledge ==
    /\ cur \in Threads /\ duty[cur] # NoLine
    /\ cur' = Nobody
    /\ \/ /\ requests[pos] = cur
          /\ pos' = (pos + 1) % MaxRequests
          /\ state' = [state EXCEPT ![cur] = "irq"]
          /\ masked' = [masked EXCEPT ![duty[cur]] = FALSE]
          /\ UNCHANGED phase
       \/ /\ requests[pos] # cur
          /\ phase' = "halted"
          /\ UNCHANGED <<pos, state, masked>>
    /\ UNCHANGED <<queue, requests, mark, place, handler, duty, tasks, upset>>
-----------------------------------------------------------------------------

Operation ==
    \/ \E t \in Threads :
        \/ NewThread(t) \/ Wake(t) \/ Collect(t)
        \/ \E s \in {"running", "suspended", "finished"} : PeerSet(t, s)
        \/ \E l \in Lines : RequestIrq(t, l)
    \/ Block
    \/ Exit
    \/ Acknowledge
    \/ \E l \in Lines : Interrupt(l) \/ ReleaseIrq(l)

Next == Turn \/ Operation

Spec == Init /\ [][Next]_vars

(* The processor never stops, the timer ends every run, and a driver that   *)
(* runs again and again comes to the end of its function.                   *)
Fairness ==
    /\ WF_vars(Turn)
    /\ SF_vars(Acknowledge)

FairSpec == Spec /\ Fairness
-----------------------------------------------------------------------------
TypeOK ==
    /\ queue \in Seq([proc : Procs, threads : Seq(Threads)])
    /\ requests \in [0 .. MaxRequests - 1 -> Threads \cup {Nobody}]
    /\ pos \in 0 .. MaxRequests - 1 /\ mark \in 0 .. MaxRequests - 1
    /\ slotPos \in Nat /\ threadPos \in Nat /\ ran \in BOOLEAN
    /\ phase \in Phases
    /\ cur \in Threads \cup {Idle, Gc, Nobody}
    /\ state \in [Threads -> States]
    /\ handler \in [Lines -> Threads \cup {Nobody}]
    /\ masked \in [Lines -> BOOLEAN]
    /\ duty \in [Threads -> Lines \cup {NoLine}]
    /\ tasks \subseteq Threads /\ upset \subseteq Threads

Entries == UNION {{<<i, j>> : j \in DOMAIN queue[i].threads} : i \in DOMAIN queue}
Copies(t) == Cardinality({e \in Entries : queue[e[1]].threads[e[2]] = t})

(* A thread is queued once while it may run, sleep or be collected, and not *)
(* at all before, after, and while it handles interrupts, whoever changed   *)
(* its state how often, unless it was upset or is a driver when another was;*)
(* what was freed is not requested either, so that the scheduler never      *)
(* switches to it; and each process with queued threads has one slot.       *)
QueuedOnce ==
    /\ \A t \in Threads \ upset : upset = {} \/ t \notin Drivers =>
        Copies(t) = IF state[t] \in Leaves /\ t \notin Pending THEN 1 ELSE 0
    /\ \A t \in Threads : upset = {} /\ state[t] = "gone" => t \notin Handlers \cup Pending
    /\ \A i, j \in DOMAIN queue : queue[i].proc = queue[j].proc => i = j
    /\ \A i \in DOMAIN queue :
        /\ queue[i].threads # << >>
        /\ \A j \in DOMAIN queue[i].threads : Home[queue[i].threads[j]] = queue[i].proc

(* ASSERT in sched_ack: who acknowledges is the oldest request, though it   *)
(* was preempted, slept and was woken in between.                           *)
AcknowledgesHead == upset = {} => phase # "halted"

(* Masked lines and requests match: no interrupt is forgotten, for a line   *)
(* that has a handler is masked only while its request is pending, and there *)
(* are no more requests than masked lines, so that the ring, whose overflow *)
(* irq_handler has no answer to, does not fill.                             *)
LinesMatchRequests ==
    upset = {} =>
        /\ \A l \in Lines : handler[l] # Nobody /\ masked[l] => handler[l] \in Pending
        /\ (mark + MaxRequests - pos) % MaxRequests <= Cardinality({l \in Lines : masked[l]})

Queued(t) == \E i \in DOMAIN queue : t \in ToSet(queue[i].threads)
Ready(t) == state[t] = "running" /\ Queued(t)

(* No thread starves: none stays ready for ever without its turn, however   *)
(* the slots move under the scheduler's positions and whatever requests do.  *)
ReadyRuns ==
    \A t \in Threads : []<>(cur = t \/ ~Ready(t) \/ phase = "halted")

(* An interrupt is handled: no request stays pending for ever, unless the   *)
(* driver whose turn it is sleeps for good, for all later requests wait for *)
(* it.                                                                      *)
RequestServed ==
    \/ <>[](pos # mark /\ state[requests[pos]] = "asleep")
    \/ \A t \in Threads : []<>(t \notin Pending \/ upset # {})
=============================================================================
