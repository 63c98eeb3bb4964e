---------------------------- MODULE ProcessTable ----------------------------
(***************************************************************************)
(* The life of processes and threads in the uniprocessor kernel: system     *)
(* calls that check a process out and commit it (process.c), exec (exec.c), *)
(* exits, state changes by peers (syscalls.c), the scheduler's turn         *)
(* (switching.c) and the garbage collector (smk/smk_gc.c). A checkout takes *)
(* two locks, the list's as a reader and then the process's; a process is   *)
(* freed under neither, and what keeps that safe is the number of its       *)
(* threads in the kernel. Threads are preempted between any two steps.      *)
(***************************************************************************)
EXTENDS RWLockOps, FiniteSets

CONSTANTS
    Procs,      \* pids; each is used once
    Threads,
    Home,       \* the process of each thread
    Main,       \* the thread exec starts a process with
    Booted,     \* processes that are there from the start
    GC,         \* the garbage collector's thread
    NoThread,   \* tid -1
    MaxTasks,   \* GC_REQUESTS, 32
    MaxUpsets   \* bound: state changes by peers that a thread does not expect

ASSUME ThreadsAssumption == IsFiniteSet(Threads) /\ GC \notin Threads /\ NoThread \notin Threads
ASSUME HomesAssumption ==
    /\ Home \in [Threads -> Procs]
    /\ Main \in [Procs -> Threads]
    /\ \A p \in Procs : Home[Main[p]] = p
    /\ Booted \subseteq Procs /\ Booted # {}
ASSUME BoundsAssumption == MaxTasks \in Nat /\ MaxUpsets \in Nat

VARIABLES
    list,       \* process_rwlock
    plock,      \* proc->lock
    proc,       \* where each process is in its life
    kernel,     \* proc->kernel_threads
    status,     \* thread->state
    pc,         \* where each thread, and the collector, is in the kernel
    call,       \* what it wants of which process
    tasks,      \* gc_tasks
    slot,       \* the slot the collector is at, 0 before its pass
    upset       \* history: threads a peer ended inside the kernel, or revived

locks == <<list, plock>>
life == <<proc, status>>
collector == <<tasks, slot>>
vars == <<locks, life, kernel, pc, call, collector, upset>>

Agents == Threads \cup {GC}
Slots == 1..MaxTasks
NoTask == << >>
Lives == {"unborn", "made", "live", "finishing", "finished", "crashing", "crashed",
          "detached", "freed"}
Statuses == {"none", "suspended", "running", "asleep", "finished", "crashed", "deleted"}
Ending == {"finishing", "crashing"}
Table == {p \in Procs : proc[p] \in Ending \cup {"live", "finished", "crashed"}}

NoCall == [op |-> "none", target |-> CHOOSE p \in Procs : TRUE]

At(a, s) == pc[a] = s
Goto(a, s) == pc' = [pc EXCEPT ![a] = s]
Target(a) == call[a].target
Op(a) == call[a].op
Own(t) == Target(t) = Home[t]
Attached(p) == {t \in Threads : Home[t] = p /\ status[t] \notin {"none", "deleted"}}

(* Faulty variant: threads in the kernel are not waited for. *)
QuietAtOnce(p) == proc[p] \in Ending

(* switch_thread lets a thread of an ended process run no more, and one     *)
(* that is ending has ended when none of its threads is in the kernel.      *)
Quiet(p) == proc[p] \in Ending /\ kernel[p] = 0
Runs(a) ==
    a \in Threads =>
        /\ status[a] = "running"
        /\ proc[Home[a]] \in Ending \cup {"live"}
        /\ ~Quiet(Home[a])

Init ==
    /\ list = FreeLock
    /\ plock = [p \in Procs |-> FreeLock]
    /\ proc = [p \in Procs |-> IF p \in Booted THEN "live" ELSE "unborn"]
    /\ kernel = [p \in Procs |-> 0]
    /\ status = [t \in Threads |->
                    IF Home[t] \in Booted /\ t = Main[Home[t]] THEN "running" ELSE "none"]
    /\ pc = [a \in Agents |-> IF a = GC THEN "idle" ELSE "user"]
    /\ call = [a \in Agents |-> NoCall]
    /\ tasks = [i \in Slots |-> NoTask]
    /\ slot = 0
    /\ upset = {}
-----------------------------------------------------------------------------
(* The way into the kernel and out of it (syscall).                         *)

Trap(t) ==
    /\ At(t, "user") /\ Runs(t)
    /\ Goto(t, IF proc[Home[t]] \in Ending THEN "barred" ELSE "trapped")
    /\ UNCHANGED <<locks, life, kernel, call, collector, upset>>

(* crash_offending: an exception in user mode. The thread loops for ever in *)
(* the kernel without having entered it; a process that was finishing is   *)
(* crashing now.                                                            *)
Crash(t) ==
    /\ At(t, "user") /\ Runs(t)
    /\ status' = [status EXCEPT ![t] = "crashed"]
    /\ proc' = [proc EXCEPT ![Home[t]] = "crashing"]
    /\ Goto(t, "looping")
    /\ UNCHANGED <<locks, kernel, call, collector, upset>>

(* Any call that checks one process out, or exec. *)
Enter(t) ==
    /\ At(t, "trapped") /\ Runs(t)
    /\ kernel' = [kernel EXCEPT ![Home[t]] = @ + 1]
    /\ \/ \E op \in {"read", "write"}, p \in Procs :
            /\ call' = [call EXCEPT ![t] = [op |-> op, target |-> p]]
            /\ Goto(t, "wantList")
            /\ UNCHANGED proc
       \/ \E p \in Procs :
            /\ proc[p] = "unborn"
            /\ proc' = [proc EXCEPT ![p] = "made"]
            /\ call' = [call EXCEPT ![t] = [op |-> "exec", target |-> p]]
            /\ Goto(t, "wantWrite")
    /\ UNCHANGED <<locks, status, collector, upset>>

Leave(t) ==
    /\ At(t, "leaving") /\ Runs(t)
    /\ kernel' = [kernel EXCEPT ![Home[t]] = @ - 1]
    /\ call' = [call EXCEPT ![t] = NoCall]
    /\ Goto(t, "user")
    /\ UNCHANGED <<locks, life, collector, upset>>
-----------------------------------------------------------------------------
(* checkout_process and commit_process.                                     *)

(* A process that is not there ends the call; one's own that is not there   *)
(* is the failing ASSERT( proc != NULL ).                                   *)
CheckoutList(a) ==
    /\ At(a, "wantList") /\ Runs(a)
    /\ ReadGranted(list)
    /\ IF Target(a) \in Table
       THEN list' = TakeRead(list) /\ Goto(a, "wantProc")
       ELSE UNCHANGED list /\ Goto(a, IF a = GC \/ Own(a) THEN "missing" ELSE "leaving")
    /\ UNCHANGED <<plock, life, kernel, call, collector, upset>>

CheckoutProc(a) ==
    LET p == Target(a) IN
    /\ At(a, "wantProc") /\ Runs(a)
    /\ \/ /\ Op(a) = "read" /\ ReadGranted(plock[p])
          /\ plock' = [plock EXCEPT ![p] = TakeRead(@)]
          /\ Goto(a, "holding")
       \/ /\ Op(a) # "read" /\ WriteGranted(plock[p])
          /\ plock' = [plock EXCEPT ![p] = TakeWrite(@)]
          /\ Goto(a, "holding")
       \/ /\ Op(a) # "read" /\ ~WriteGranted(plock[p])
          /\ plock' = [plock EXCEPT ![p] = AskWrite(@)]
          /\ UNCHANGED pc
    /\ UNCHANGED <<list, life, kernel, call, collector, upset>>

AfterCommit(a) ==
    IF a # GC THEN "leaving"
    ELSE CASE Op(a) = "reap" -> "wantWrite"
           [] Op(a) = "collect" -> "done"
           [] OTHER -> "failed"

(* A call that only looks, or changes what this module does not know, goes *)
(* straight from holding to its commit.                                    *)
Commit(a) ==
    /\ Runs(a)
    /\ At(a, "putProc") \/ (At(a, "holding") /\ Op(a) \in {"read", "write"})
    /\ plock' = [plock EXCEPT ![Target(a)] = Release(@)]
    /\ list' = Release(list)
    /\ Goto(a, AfterCommit(a))
    /\ UNCHANGED <<life, kernel, call, collector, upset>>

(* Faulty variant: the list is changed under its readers. *)
LockListBlind(a) ==
    /\ At(a, "wantWrite") /\ Runs(a)
    /\ list' = TakeWrite(list)
    /\ Goto(a, "writing")
    /\ UNCHANGED <<plock, life, kernel, call, collector, upset>>

(* insert_process and detach_process, up to the lock. *)
LockList(a) ==
    /\ At(a, "wantWrite") /\ Runs(a)
    /\ \/ /\ WriteGranted(list)
          /\ list' = TakeWrite(list)
          /\ Goto(a, "writing")
       \/ /\ ~WriteGranted(list)
          /\ list' = AskWrite(list)
          /\ UNCHANGED pc
    /\ UNCHANGED <<plock, life, kernel, call, collector, upset>>
-----------------------------------------------------------------------------
(* What calls do that hold a process checked out as its writer.             *)

Writing(t) == At(t, "holding") /\ Op(t) = "write" /\ Runs(t)

(* Faulty variant: the list is not given back. *)
PartKeepsList(t, s, place) ==
    /\ Writing(t) /\ Own(t)
    /\ kernel' = [kernel EXCEPT ![Home[t]] = @ - 1]
    /\ status' = [status EXCEPT ![t] = s]
    /\ plock' = [plock EXCEPT ![Home[t]] = Release(@)]
    /\ Goto(t, place)
    /\ UNCHANGED <<list, call, collector, upset>>

(* Interrupts stay off from the first of these changes to the last. *)
Part(t, s, place) ==
    /\ Writing(t) /\ Own(t)
    /\ kernel' = [kernel EXCEPT ![Home[t]] = @ - 1]
    /\ status' = [status EXCEPT ![t] = s]
    /\ plock' = [plock EXCEPT ![Home[t]] = Release(@)]
    /\ list' = Release(list)
    /\ Goto(t, place)
    /\ UNCHANGED <<call, collector, upset>>

Sleep(t) == Part(t, "asleep", "resuming") /\ UNCHANGED proc
ExitThread(t) == Part(t, "finished", "exited") /\ UNCHANGED proc
ExitProcess(t) ==
    /\ Part(t, "finished", "gone")
    /\ proc' = [proc EXCEPT ![Home[t]] = "finishing"]

(* The sleeper's time is up, or it has got what it waits for. *)
Wake(t) ==
    /\ status[t] = "asleep"
    /\ proc[Home[t]] \in Ending \cup {"live"} /\ ~Quiet(Home[t])
    /\ status' = [status EXCEPT ![t] = "running"]
    /\ UNCHANGED <<locks, proc, kernel, pc, call, collector, upset>>

(* Faulty variant: the thread is not counted again. *)
ResumeUncounted(t) ==
    /\ At(t, "resuming") /\ Runs(t)
    /\ Goto(t, "leaving")
    /\ UNCHANGED <<locks, life, kernel, call, collector, upset>>

Resume(t) ==
    /\ At(t, "resuming") /\ Runs(t)
    /\ kernel' = [kernel EXCEPT ![Home[t]] = @ + 1]
    /\ Goto(t, "leaving")
    /\ UNCHANGED <<locks, life, call, collector, upset>>

(* An exited thread that a peer set running returns from the yield that is *)
(* commented "Never to return".                                            *)
Return(t) ==
    /\ At(t, "exited") /\ Runs(t)
    /\ Goto(t, "leaving")
    /\ UNCHANGED <<locks, life, kernel, call, collector, upset>>

NewThread(t) ==
    /\ Writing(t) /\ Own(t)
    /\ \E u \in Threads :
        /\ Home[u] = Home[t] /\ status[u] = "none"
        /\ status' = [status EXCEPT ![u] = "suspended"]
    /\ Goto(t, "putProc")
    /\ UNCHANGED <<locks, proc, kernel, call, collector, upset>>

(* Where a thread must not be ended: it is counted and may hold locks. *)
Inside == {"wantList", "missing", "wantProc", "holding", "putProc",
           "wantWrite", "writing", "wantOwn", "cloning", "leaving"}

SetState(u, s, unexpected) ==
    /\ status' = [status EXCEPT ![u] = s]
    /\ unexpected => u \notin upset /\ Cardinality(upset) < MaxUpsets
    /\ upset' = IF unexpected THEN upset \cup {u} ELSE upset

(* syscall_thread, SYS_TWO, to resume a thread of one's process or kill it. *)
SetPeer(t) ==
    /\ Writing(t) /\ Own(t)
    /\ \E u \in Attached(Home[t]) :
        \/ SetState(u, "running", status[u] = "finished")
        \/ SetState(u, "finished", pc[u] \in Inside)
        \/ SetState(u, "suspended", pc[u] \in Inside \/ status[u] = "finished")
    /\ Goto(t, "putProc")
    /\ UNCHANGED <<locks, proc, kernel, call, collector>>

(* syscall_process, SYS_TWO, of a process that has threads. *)
StartProcess(t) ==
    LET p == Target(t) IN
    /\ Writing(t)
    /\ proc' = [proc EXCEPT ![p] = "live"]
    /\ \E u \in Attached(p) :
        /\ Main[p] \in Attached(p) => u = Main[p]
        /\ SetState(u, "running", status[u] = "finished" \/ proc[p] # "live")
    /\ Goto(t, "putProc")
    /\ UNCHANGED <<locks, kernel, call, collector>>
-----------------------------------------------------------------------------
(* exec_memory_region: the child goes into the table, is checked out, and   *)
(* while it is the parent is checked out too.                               *)

Insert(t) ==
    /\ At(t, "writing") /\ t # GC /\ Runs(t)
    /\ proc' = [proc EXCEPT ![Target(t)] = "live"]
    /\ list' = Release(list)
    /\ Goto(t, "wantList")
    /\ UNCHANGED <<plock, status, kernel, call, collector, upset>>

Nesting(t) == At(t, "holding") /\ Op(t) = "exec"

CheckoutParentList(t) ==
    /\ Nesting(t) /\ Runs(t)
    /\ ReadGranted(list)
    /\ IF Home[t] \in Table
       THEN list' = TakeRead(list) /\ Goto(t, "wantOwn")
       ELSE UNCHANGED list /\ Goto(t, "putProc")
    /\ UNCHANGED <<plock, life, kernel, call, collector, upset>>

CheckoutParent(t) ==
    /\ At(t, "wantOwn") /\ Runs(t)
    /\ ReadGranted(plock[Home[t]])
    /\ plock' = [plock EXCEPT ![Home[t]] = TakeRead(@)]
    /\ Goto(t, "cloning")
    /\ UNCHANGED <<list, life, kernel, call, collector, upset>>

(* The parent is committed, and under its lock the child gets its thread. *)
CommitParent(t) ==
    /\ At(t, "cloning") /\ Runs(t)
    /\ plock' = [plock EXCEPT ![Home[t]] = Release(@)]
    /\ list' = Release(list)
    /\ status' = [status EXCEPT ![Main[Target(t)]] = "suspended"]
    /\ Goto(t, "putProc")
    /\ UNCHANGED <<proc, kernel, call, collector, upset>>
-----------------------------------------------------------------------------
(* The scheduler and the garbage collector.                                 *)

(* signal_gc: refused while the collector works or no slot is free, ignored *)
(* when known.                                                              *)
Signal(p, t) ==
    LET free == {i \in Slots : tasks[i] = NoTask}
        known == \E i \in Slots : tasks[i] = <<p, t>>
    IN  tasks' = IF ~At(GC, "idle") \/ known \/ free = {}
                 THEN tasks
                 ELSE [tasks EXCEPT ![CHOOSE i \in free : \A j \in free : i <= j] = <<p, t>>]

(* switch_thread, for a thread it does not let run. *)
Turn(t) ==
    LET p == Home[t] IN
    /\ status[t] \notin {"none", "suspended", "deleted"}
    /\ \/ /\ Quiet(p) /\ proc[p] = "finishing"
          /\ proc' = [proc EXCEPT ![p] = "finished"]
          /\ Signal(p, NoThread)
       \/ /\ Quiet(p) /\ proc[p] = "crashing"
          /\ proc' = [proc EXCEPT ![p] = "crashed"]
          /\ UNCHANGED tasks
       \/ /\ proc[p] \in {"finished", "detached"}
          /\ Signal(p, NoThread)
          /\ UNCHANGED proc
       \/ /\ ~Quiet(p) /\ proc[p] \in Ending \cup {"live"}
          /\ status[t] = "finished"
          /\ Signal(p, t)
          /\ UNCHANGED proc
    /\ UNCHANGED <<locks, status, kernel, pc, call, slot, upset>>

(* gc: a pass over the slots, which gc_needed lets begin when one is taken. *)
Begin ==
    /\ At(GC, "idle") /\ \E i \in Slots : tasks[i] # NoTask
    /\ Goto(GC, "next")
    /\ UNCHANGED <<locks, life, kernel, call, collector, upset>>

Ahead == {i \in Slots : i > slot /\ tasks[i] # NoTask}

(* gc_cleanup, of a thread or of a process. *)
Take ==
    /\ At(GC, "next")
    /\ \E i \in Ahead :
        /\ \A j \in Ahead : i <= j
        /\ slot' = i
        /\ \/ /\ tasks[i][2] = NoThread
              /\ call' = [call EXCEPT ![GC] = [op |-> "reap", target |-> tasks[i][1]]]
              /\ Goto(GC, "wantWrite")
           \/ /\ tasks[i][2] # NoThread
              /\ call' = [call EXCEPT ![GC] = [op |-> "collect", target |-> tasks[i][1]]]
              /\ Goto(GC, "wantList")
    /\ UNCHANGED <<locks, life, kernel, tasks, upset>>

End ==
    /\ At(GC, "next") /\ Ahead = {}
    /\ slot' = 0
    /\ call' = [call EXCEPT ![GC] = NoCall]
    /\ Goto(GC, "idle")
    /\ UNCHANGED <<locks, life, kernel, tasks, upset>>

(* Faulty variant: the process goes with its main thread. *)
CollectMain ==
    LET p == Target(GC)
        t == tasks[slot][2]
    IN  /\ At(GC, "holding")
        /\ IF t \in Attached(p)
           THEN /\ status' = [status EXCEPT ![t] = "deleted"]
                /\ call' = [call EXCEPT ![GC].op = IF Main[p] = t THEN "reap" ELSE "collect"]
           ELSE UNCHANGED status /\ call' = [call EXCEPT ![GC].op = "lost"]
        /\ Goto(GC, "putProc")
        /\ UNCHANGED <<locks, proc, kernel, collector, upset>>

(* The thread is deleted; with the last one goes the process. *)
Collect ==
    LET p == Target(GC)
        t == tasks[slot][2]
    IN  /\ At(GC, "holding")
        /\ IF t \in Attached(p)
           THEN /\ status' = [status EXCEPT ![t] = "deleted"]
                /\ call' = [call EXCEPT ![GC].op =
                                IF Attached(p) = {t} THEN "reap" ELSE "collect"]
           ELSE UNCHANGED status /\ call' = [call EXCEPT ![GC].op = "lost"]
        /\ Goto(GC, "putProc")
        /\ UNCHANGED <<locks, proc, kernel, collector, upset>>

(* detach_process *)
Detach ==
    /\ At(GC, "writing")
    /\ IF Target(GC) \in Table
       THEN proc' = [proc EXCEPT ![Target(GC)] = "detached"] /\ Goto(GC, "freeing")
       ELSE UNCHANGED proc /\ Goto(GC, "failed")
    /\ list' = Release(list)
    /\ UNCHANGED <<plock, status, kernel, call, collector, upset>>

(* gc_thread on each that is left, gc_process *)
Free ==
    LET p == Target(GC) IN
    /\ At(GC, "freeing")
    /\ proc' = [proc EXCEPT ![p] = "freed"]
    /\ status' = [t \in Threads |-> IF t \in Attached(p) THEN "deleted" ELSE status[t]]
    /\ Goto(GC, "done")
    /\ UNCHANGED <<locks, kernel, call, collector, upset>>

(* A task that fails stays in its slot. *)
Done ==
    /\ At(GC, "done") \/ At(GC, "failed") \/ At(GC, "missing")
    /\ tasks' = IF At(GC, "done") THEN [tasks EXCEPT ![slot] = NoTask] ELSE tasks
    /\ Goto(GC, "next")
    /\ UNCHANGED <<locks, life, kernel, call, slot, upset>>

Collector == Begin \/ Take \/ End \/ Collect \/ Detach \/ Free \/ Done
Checkout(a) == CheckoutList(a) \/ CheckoutProc(a) \/ Commit(a) \/ LockList(a)
Exec(t) == Insert(t) \/ CheckoutParentList(t) \/ CheckoutParent(t) \/ CommitParent(t)
Change(t) == Sleep(t) \/ ExitThread(t) \/ ExitProcess(t) \/ NewThread(t) \/ SetPeer(t)
                 \/ StartProcess(t)

Next ==
    \/ Collector
    \/ \E a \in Agents : Checkout(a)
    \/ \E t \in Threads :
        Trap(t) \/ Crash(t) \/ Enter(t) \/ Leave(t) \/ Change(t) \/ Exec(t)
            \/ Wake(t) \/ Resume(t) \/ Return(t) \/ Turn(t)

Spec == Init /\ [][Next]_vars

(* The run queue is cyclic: the collector, every thread inside the kernel   *)
(* and every thread that is not let run gets its turn again and again. No   *)
(* thread has to make a call.                                               *)
Fairness ==
    /\ WF_vars(Collector) /\ WF_vars(Checkout(GC))
    /\ \A t \in Threads :
        /\ WF_vars(Checkout(t) \/ Exec(t))
        /\ WF_vars(Enter(t) \/ Leave(t) \/ Resume(t) \/ Return(t))
        /\ WF_vars(Turn(t))

FairSpec == Spec /\ Fairness
-----------------------------------------------------------------------------
Places ==
    Inside \cup {"user", "trapped", "barred", "resuming", "exited", "gone", "looping",
                "idle", "next", "freeing", "done", "failed"}
Ops == {"none", "read", "write", "exec", "collect", "reap", "lost"}

TypeOK ==
    /\ list \in LockType
    /\ plock \in [Procs -> LockType]
    /\ proc \in [Procs -> Lives]
    /\ kernel \in [Procs -> Int]
    /\ status \in [Threads -> Statuses]
    /\ pc \in [Agents -> Places]
    /\ call \in [Agents -> [op : Ops, target : Procs]]
    /\ tasks \in [Slots -> (Procs \X (Threads \cup {NoThread})) \cup {NoTask}]
    /\ slot \in Slots \cup {0}
    /\ upset \subseteq Threads

OnTarget == {"holding", "putProc", "wantOwn", "cloning"}
ReadersOf(p) ==
    {a \in Agents : Target(a) = p /\ Op(a) = "read" /\ pc[a] \in OnTarget}
        \cup {t \in Threads : At(t, "cloning") /\ Home[t] = p}
WritersOf(p) == {a \in Agents : Target(a) = p /\ Op(a) # "read" /\ pc[a] \in OnTarget}
ListOnce == {a \in Agents : pc[a] \in OnTarget \cup {"wantProc"}}
ListTwice == {t \in Threads : pc[t] \in {"wantOwn", "cloning"}}

(* Each lock's counters are its holders, through nested checkouts, sleeps   *)
(* and exits that give both locks up, and threads ended while they hold.    *)
LocksMatchHolders ==
    /\ list.readers = Cardinality(ListOnce) + Cardinality(ListTwice)
    /\ list.writers = Cardinality({a \in Agents : At(a, "writing")})
    /\ \A p \in Procs : /\ plock[p].readers = Cardinality(ReadersOf(p))
                        /\ plock[p].writers = Cardinality(WritersOf(p))

(* Nobody waits for or holds the lock of a process that is being freed. *)
FreedUnheld ==
    \A p \in Procs : proc[p] \in {"detached", "freed"} =>
        /\ ReadersOf(p) \cup WritersOf(p) = {}
        /\ \A a \in Agents : ~(At(a, "wantProc") /\ Target(a) = p)
        /\ \A t \in Threads : ~(At(t, "wantOwn") /\ Home[t] = p)

Calm(p) == \A t \in upset : Home[t] # p

(* kernel_threads counts the threads of the process that are in the kernel  *)
(* and not asleep there, and none of those is deleted: whom the collector   *)
(* takes holds nothing and is counted nowhere; unless a peer upset one.     *)
KernelCountExact ==
    \A p \in Procs : Calm(p) =>
        kernel[p] = Cardinality({t \in Threads :
                        Home[t] = p /\ pc[t] \in Inside /\ status[t] # "deleted"})

(* The count is exact, and no look-up fails that the code takes for granted: *)
(* ASSERT( proc != NULL ), a thread finds its own process, in exec too, where *)
(* the code says an orphan would be freaky; and the collector is never sent  *)
(* for what is gone already, a task that fails would hold its slot for ever. *)
LookupsFind ==
    /\ KernelCountExact
    /\ \A t \in Threads : pc[t] \in Inside /\ Calm(Home[t]) => Home[t] \in Table
    /\ Calm(Target(GC)) => pc[GC] \notin {"failed", "missing"} /\ Op(GC) # "lost"

(* exec keeps the list as a reader and asks for it again: if a writer has   *)
(* asked in between, both wait for ever, and all who want the list.         *)
Wedged == \E t \in Threads : Nesting(t) /\ list.request

(* A finished process is freed, unless exec wedged the list, a peer upset a *)
(* thread in the kernel, or the collector never again finds the lock of a   *)
(* process free: writers that follow one another can keep it waiting there, *)
(* for a writer's release takes its request back.                           *)
Starved == <>[]At(GC, "wantProc")
FinishedFreed ==
    \/ Starved
    \/ \A p \in Procs :
            []<>(proc[p] \notin {"finished", "detached"} \/ Wedged \/ upset # {})
=============================================================================
