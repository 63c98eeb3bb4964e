# A verification project for Spoon

Spoon is a small operating system for the PC: a microkernel, a C and a C++
library, servers (files, windows, input), drivers and applications. This
directory holds TLA+ modules that model its concurrent core, the TLC
configurations that check them on small instances, and TLAPS proofs of what
matters most for instances of every size. All paths below are relative to
`src/system/source/` of the repository.

There are two kernels in the tree. `old_kernel/` is the complete one (the
README of the other sends the reader there): one processor, interrupts disabled
around short sections, ports, messages, pulses, semaphores, shared memory, waits
and a garbage collector. `kernel/` is its rewrite for several processors:
spinlocks, a run queue per processor, interrupt threads; its IPC is still to be
written. The project models both, each for what it has.

## 1. Inventory

| Component | State it keeps | Operations | Interacts with |
|---|---|---|---|
| Reader-writer lock (`*/rwlock.c`, `kernel/include/atomic.h`) | reader and writer counters, request flag, spinlock bit | get read, get write, release | every checkout of a process, shared memory |
| Process table (`*/process.c`) | table of processes, tree and list of them, one list lock, one lock per process | insert, detach/remove, checkout, commit, find, foreach | every system call checks a process out |
| Threads (`*/threads.c`) | thread states, per process list, tree and table | new, attach, detach, set state, go dormant | run queue, IPC, semaphores |
| Ports, messages, pulses (`old_kernel/ports.c`, `messages.c`, `pulse.c`) | per process 32 ports: owner thread, flags, pulse pages, message list; per thread its ports and two hints | create, release, mask; send, receive, peek, drop, count | `go_dormant` sleeps until one is there; senders wake the owner |
| Semaphores (`old_kernel/sem.c`) | identifier, capacity, count, list of waiters, per process or global | create, destroy, wait, signal | parks and wakes threads |
| Waits (`old_kernel/waits.c`) | per process and per thread a list of waiters | begin wait, clean | the garbage collector answers them |
| Garbage collector (`old_kernel/smk/smk_gc.c`) | list of dead threads and processes, flag lock | signal, collect | scheduler signals it, frees all of the above |
| Round-robin scheduler (`old_kernel/schedulers/rrpp.c`, `arch/i686/switching.c`) | slots of processes with their threads, ring of requests, stop flag | insert, remove, request, ack, loop | every state change of a thread |
| Shared memory (`old_kernel/shmem.c`) | regions, per region the processes allowed and mapped, usage counts | create, grant, revoke, request, release, delete, clean | process checkouts, page tables |
| SMP scheduler (`kernel/scheduler.c`, parts of `threads.c`) | per processor a run queue, a pause queue, a position, a spinlock; per thread its state, pending state, processor, running flag | queue, dequeue, pause, restart, exec, remove after run | interrupts, system calls |
| Interrupt threads (`*/irq.c`) | handler per line, mask bits | request, release, ack, the handler itself | scheduler |
| Page allocator (`kernel/physmem.c`, `old_kernel/memory.c`) | bitmap, free count, scan position | alloc, multiple alloc, free, reserve | page tables, heap |
| Page tables (`kernel/paging.c`) | directory and tables per process | map in, map out, ensure, find free | user allocations |
| User allocations (`*/ualloc.c`) | list of regions per process | alloc, free, map, size, location, ensure | page allocator |
| Heap (`*/liballoc.c`) | list of major and minor blocks | malloc, free, calloc, realloc | page allocator |
| Hash table (`kernel/ds/htable.c`) | open-addressed array, load | insert, remove, retrieve, rehash | process and thread tables |
| Environment (`*/env.c`) | block of variables per process | set, get, remove, clone | process checkouts |
| System call layer (`*/syscalls.c`), program loader (`*/exec.c`) | in-kernel thread counter of each process | dispatch, start and end processes | all of the above |
| VFS server (`servers/vfs_server`), with the clients' `File` and the drivers' `DeviceNode` (`libraries/spoon/storage`) | device, mount, file and entity tables; each File's descriptor | install, mount, open, read, write, close | messages to drivers and clients |
| C++ library IPC (`libraries/spoon/ipc`, `app/Application.cpp`) | temporary ports, what waits on them, the masks; typed message container, looper queue | send and wait for the answer, reply, post a pulse; add, find, flatten | ports and messages |
| GUI and input servers, video, storage, network and audio drivers, applications | device and window state | device protocols | messages |
| Bundled libraries (`libpng`, `libz`, minizip, mpeg2decode) | | | not part of the system |

What is hard in each, and at which line, is the list of hazards in
`PROJECT.json`. In short:

* Locks: two-level locking of processes (the list lock is held for reading
  while a process lock is held), a request flag that denies readers, nested
  checkouts by one thread.
* IPC: a thread must not sleep on a message that has arrived; queues must not
  lose, duplicate or reorder; releasing one port must not touch the mail of
  another; hints remembered between calls may be stale.
* Semaphores: the woken thread runs later than the signal that woke it, and
  others may come first; an identifier may be destroyed and reused under a
  waiter; counts pass their limits.
* Process life: a waiter registers, then sleeps, with a gap between; the
  collector frees what others still reach.
* SMP scheduler: a thread may be changing queues while another processor runs
  it; an interrupt may wake a thread that has not finished going to sleep; full
  queues drop threads.
* Shared memory: usage counts, revocation against mapping, deletion of an
  owner.
* Round-robin scheduler: its positions are kept while the slots move under
  them; a driver that handles an interrupt is in no slot, and must not get into
  one; only the oldest request has a turn.
* Calls between servers: an answer that comes after its caller gave up finds the
  port of the next call; a server that waits for a driver drops the pulses of its
  clients; a device goes while files on it are open.
* Data structures: bitmaps, free counts, wrap-around of scan positions, rehash.

## 2. Plan

The order is that of importance: first what every system call rests on, then
IPC, then what brings threads and processes to their end, then the rewrite.

| # | Module | Composes | State |
|---|---|---|---|
| 1 | `RWLockOps`, `ReadersWriters`, `RWLock`, `SpinRWLock` | SpinRWLock implements RWLock implements ReadersWriters | checked, proved |
| 2 | `Ports`, `PulseSlots`, `PulsePages`, `Fifo` | PulsePages implements Fifo, the queue that Ports assumes per port | checked, proved |
| 3 | `Semaphores` | | checked, proved |
| 4 | `ProcessTable` | the locks of RWLockOps, the collector, the scheduler's turn | checked, proved |
| 5 | `RoundRobin` | scheduler, state changes, interrupts | checked, proved |
| 6 | `Waits` | the waits with the collector that answers them | checked, proved |
| 7 | `SharedMemory` | regions over the checkouts and the list lock of RWLockOps, the collector | checked, proved |
| 8 | `SmpScheduler` | run queues, state changes, interrupt threads on two processors | checked, proved |
| 9 | `PageMap`, `PhysicalPages`, `Frames` | PhysicalPages implements Frames | checked, proved |
| 10 | `ThreadLists` | the threads that ProcessTable attaches and collects | checked, proved |
| 11 | `Messengers`, `VfsServer` | VfsServer: server, drivers and clients over the calls of Messengers | checked, proved |
| 12 | hash table, user allocations | against reference definitions | open |
| 13 | mounts of the VFS server | VfsServer | open |

`MCStructures` runs 1, 3, 9, 10 and the pages of 2 in one specification, one at
a time.

Abstract specifications: `ReadersWriters` (who is inside), `Fifo` (a queue),
`Frames` (who has which page).

## 3. The modules and the code

Two conventions hold throughout. The old kernel has one processor and a handler
that keeps interrupts disabled, or holds the one lock all the others need, is
one action; wherever it yields, waits for a lock or lets interrupts in, the
action ends. A *fault* is never part of a model: operators under a comment
"Faulty variant" are mutants, kept beside the definition they deform, and no
specification uses them.

**RWLockOps, RWLock** (`old_kernel/rwlock.c`). `LockType` is `struct rwlock`
with its two counters and the request flag. `GetRead`, `GetWrite` and
`DenyWrite` are one round of the acquisition loops each, `Drop` is
`rwlock_release`, which is told nothing of its caller and guesses. `pc` records
what a client has asked for. `ReadersWriters` is the abstraction: sets of
readers and writers, and that a writer is alone. Both locks name
sets of clients of their own.

**SpinRWLock** (`kernel/rwlock.c`, `kernel/include/atomic.h`). The same code as
it is in the rewrite. Taking the spinlock (`AcquireSpin`), testing the counters
(`Test`), each change (`AddRead`, `AddWrite`, `Ask`, `Lower`, `Clear`, `Zero`)
and giving the spinlock back are steps of their own on processors of their own.
`Seen` is the refinement mapping: while a client is in the middle of a section
the lock is seen as it was before the section or as it will be after it,
whichever the client's place says.

**Ports** (`old_kernel/ports.c`, `messages.c`, `pulse.c`, `threads.c:395-473`).
`owner` and `masked` are the table `ipc[]`, `ports` the list in `struct thread`,
`hint` is `last_port_message` and `last_port_pulse`, `mail` the queues. Creating,
releasing, masking and restoring ports, peek, receive and drop of both kinds,
`go_dormant`, the end of a thread and its collection are actions. The clock
takes no lock, so a send to a dormant owner is two steps (`Send`, `Wake`) with
the timer between. `seen` and `late` are history: what a peek showed, and which
ports a peer opened while the owner slept.

**PulsePages, Fifo** (`old_kernel/pulse.c`). The chain of pages behind one queue
of `Ports`: the header's two counters, new pages, restarted pages, freed pages.
`Contents` maps it to the sequence of pulses.

**Semaphores** (`old_kernel/sem.c`). One slot of a table. `Wait` ends asleep or
holding, `Enter` is a woken thread's way past the lock, later than the signal
that woke it; `Signal` pops a link; `Destroy` evicts; `Create` reuses the slot
under threads of its former life. `Gift` is a signal by a thread that does not
hold, `Upset` a peer that resumes or ends a waiter.

**ProcessTable** (`old_kernel/process.c`, `threads.c`, `exec.c`,
`syscalls.c:188-390,1216-1263`, `smk/smk_gc.c`, `arch/i686/switching.c:299-389`).
`list` and `plock` are the two levels of locks. A thread walks
`Trap`, `Enter` (kernel_threads is raised), checkout of the list, then of the
process, the call, the commit, `Leave`. `Exec` adds the nested checkout,
`Turn` is the scheduler coming to a thread of a finishing process, and
`Collector` walks the slots of `gc_tasks` while the scheduler fills them: a task
goes in the first free slot, a pass looks at each slot once, and when all are
taken the signal is tried again at the next turn. `Crash` is an exception in
user mode: its thread loops for ever in the kernel without having entered it,
and a finishing process of which another thread crashes is crashing from then
on, crashed in the end, and never collected. The commit gives two locks back in
one step: nothing can observe the state between them but a waiter that has to
come round again. `Free` takes every attached thread, which is what the
collector's walk reaches while a process has its first thread or only one;
`ThreadLists` shows when it does not.

**ThreadLists** (`old_kernel/threads.c:173-333`, `smk/smk_gc.c:203-273`).
`link` holds the six pointers of each thread, `root` is `proc->threads`, where
the tree of parents and children begins and the list in the order of making.
`Attach` and `Detach` are `attach_thread` and `detach_thread` as the code writes
through the pointers; `Unlinked`, `Adopted` and `Raised` are the parts of the
second. `Collect` takes one thread, `Reap` is the walk when a process is deleted.

**RoundRobin** (`old_kernel/schedulers/rrpp.c`, `threads.c:341-392`, `irq.c`,
`syscalls.c:864-910`, `arch/i686/switching.c:224-389`, `jump.S:168-207`). `queue`
holds the slots,
`requests`, `pos` and `mark` the ring, `slotPos`, `threadPos`, `ran` the locals
of `scheduler()`, and `phase` where it goes on. `Turn` is the loop or the return
of the running thread to it; `Operation` is what the running thread, or an
interrupt, does: new threads, state changes by peers, sleeps, wake-ups, exits,
requests and releases of lines, interrupts, acknowledgements, collection.
`Served` is the handler's check of pid and tid: a line requested for a main
thread, whose tid is 0, is masked by its first interrupt and never requested;
the library requests lines only for threads it has spawned, so this is an upset.

**Waits** (`old_kernel/waits.c`, `smk/smk_gc.c:203-273`,
`syscalls.c:211-224,316-365,844-852`,
`arch/i686/switching.c:328-389`). A wait is a link, named by its waiter and a
serial number; `waits` are the lists of targets. `Enlist`, `Park`, `Resume` and
`Return` are the four pieces of `begin_wait_process` and `begin_wait_thread`
between which the process is given back. The collector takes a list
(`TakeWaits`), and `Mark`, `Rouse` and `Advance` are `clean_general` link by
link, because the waiters it wakes run between them and free the links it
walks; `gc` says where it is, and `Done` and `Proceed` take it from the threads
of a process to the process. `ProcessTable` has the same collector with its
locks; here a process is free unless the collector keeps it. `End` may hit a
thread anywhere, in the kernel between two checkouts; `cut` remembers whom it hit
there.

**SharedMemory** (`old_kernel/shmem.c`, `syscalls.c:211-224,1101-1189`,
`process.c:351-455`). `region` and `infos` are the table and the list of users
of each region, `kept` the history of who was left the region itself when it
should have been taken away. `list` is the process list's lock, shared with
`ProcessTable` by `RWLockOps`, `held` the locks of processes. `Visits`, `Take`,
`Copy`, `Drop` and `Follow` are the passes of `delete_shmem`, which checks users
out one after the other and keeps them all; `Clean` is the collector's walk over
the regions of a dead process.

**SmpScheduler** (`kernel/scheduler.c`, `threads.c`, `irq.c`, `syscalls.c`).
Each processor has `queue`, `position`, `picked`, `current` and `running`.
`Stop` is the end of a time slice or a yield, `Turn` the scheduler with the
lock in its hand: `remove_last`, the next place, and the thread found there.
`SetState` and the steps under it are a call that suspends or resumes a thread,
with the wait for the other processor (`Lock`, `Unlist`) as separate steps.
`Interrupt`, `Handle` and `QueueHandler` are the handler on top of whatever runs
on processor 0, which spins for the locks that the thread below it may hold.

**PhysicalPages, PageMap, Frames** (`kernel/physmem.c`, `old_kernel/memory.c`).
`used` is the bitmap, `freePages` the number the allocators test a request
against, `lastPage` where the scan goes on, `Found` the scan as a function of its
rounds, and `smp` which of the two kernels it is: in the
rewrite the count is lowered once for a run of pages and raised for each page
that is given back. `Frames` is the abstraction: a run of pages that nobody
has, or nothing.

**Messengers** (`libraries/spoon/ipc/Messenger.cpp`, `Message.cpp:846-885`). How
processes call each other on top of the kernel's ports. `box` and `pulses` are
what waits on a process's own port, `answers` what waits on the temporary port of
a call, `ask` the request it was made for. `Ask` is `SendReceiveMessage` to the
place where it waits, with the drop of everything that was there; `Answered` and
`Unanswered` are the return of `WaitOnReply` and the release of the port;
`SendReply` is the answer, which goes to a port by its number, whichever call has
it now. A process calls from one thread, so its temporary port always has the
same number. The numbers of requests (`no`) are the model's: the code's messages
carry none, which is what `AnswersMine` is about.

**VfsServer** (`servers/vfs_server`, `libraries/spoon/storage/File.cpp`,
`DeviceNode.cpp`, `app/Application.cpp:138-190`). Three kinds of process over
those calls. `loop`, `job` and `reply` are the server: one round takes a pulse,
then a message (`TakePulse`, `NoMessage`, `InstallDevice`, `OpenFile`,
`ReadFile`), and a read asks the driver for its data and then for its size before
it is answered (`AskData`, `DataComes`, `AskSize`, `SizeComes`, `Reply`,
`ReplyAgain`). `devices` and `entities` are its tables; that a device may be
deleted under an entity is in `Asked`. `Install`, `Serve`, `Uninstall` and
`Release` are a driver's life. `files` and `slot` are a client's File objects and
the call it is in: `Open`, `Opened`, `Read`, `HasRead`, `Close`.

## 4. The runs

| Run | Instance | What it shows |
|---|---|---|
| `structures` | lock: 4 clients; with its spinlock: 3 clients; pulses: pages of 3, chains of 3 pages, 2 items; 11 physical pages, requests up to 5; 4 threads of a process; a semaphore of capacity 0 to 2 with 3 threads, 2 gifts, 2 upsets | the lock implements `ReadersWriters`, its flag that denies readers has an owner and a waiting writer gets in; the spinlock version implements the lock; the chain of pages is a queue; no page has two owners, and a small request is refused only when it cannot be met; no thread of a process is lost, and none left behind while the first thread is there; sleepers on a semaphore can be woken and get their turn, its count is exact, no signal is lost |
| `ports` | 2 threads, 2 ports, queues of 1 | table and lists agree, hints are fresh, nobody sleeps on mail, a message leaves only by its handler or its port |
| `ports_live` | 2 threads, 1 port, queues of 2 different items | a wake-up comes, a timed sleep ends |
| `ports_release` | as `ports` | a finding: releasing a port empties the pulses of the handler's other ports |
| `process_table` | 2 threads and a child with one, or 2 upsets and no child | locks match their holders, nothing in use is freed, the count of threads in the kernel is exact, look-ups that the code asserts succeed, a finished process is freed |
| `round_robin` | 2 processes; of 4 threads any 3 (or 2 and an upset of one); 2 lines, ring of 3 | queue and ring are exact, drivers acknowledge in order, nobody starves, no interrupt is forgotten |
| `waits` | 2 processes with 3 threads, 2 waits, 1 resume | links are freed once, answers are true, no thread is deleted in the kernel, sleepers are woken but for two named gaps |
| `waits_sleepers` | as `waits`, no resume | a finding: a waiter that the collector came to before it slept sleeps for ever |
| `shmem` | 2 processes, 2 regions, one of them promiscuous and immortal | who loses access keeps a scratch copy at most, checkouts are returned, the dead leave orphans only, a deletion hangs only in a circle |
| `smp` | 2 processors, 4 threads, 2 of them made for an interrupt line | who is taken off a queue has stopped; words, processors and queues agree; a masked line has its thread queued; calls end; queued threads get turns |
| `smp_assert` | as `smp` | a finding: an interrupt before a driver's wait fails the assertion in `queue()` |
| `vfs` | 2 clients, 2 drivers with a node each, of which one comes later and may end, the file server; 5 entities; up to 4 requests and 2 that time out | a call takes its own answer unless it gave one up before; a client reads the node it opened and no entity leaks, but for the named gaps |

Each part of `structures` starts from its own initial state and only one of
them moves in a behaviour (`focus`); they share no variable.

Why the bounds are enough. A lock's decisions look at "none, one or more" of
readers and writers, and two of each kind meet with four clients. Two ports are
needed for one's release to reach the other's mail, two threads for a peer;
identity of items matters within a queue only, hence the second instance.
Three pages make a first, a middle and a last one; three pulses let a page be
partly used on both sides. Three threads are one or two that hold a
semaphore, one that sleeps and one that overtakes it; its safety is proved for
any number. The ring of three takes two requests, as many as there
are lines, and wraps around; two slots, one of up to three threads, let both
threads and whole slots vanish before and behind the scheduler's positions.
Two waits put two links on one list, the first of which may be freed while the
second is still to come, and a thread's second wait behind the link of its
first; a process of two threads and another one give both kinds of target.
Two deletions and two users in either order make the circles of shared memory,
and the region of a dead process lies behind an orphan or before one. Two
processors give a remote removal and, with two drivers and a line of processor
0, a handler for its own queue and for the other's; of two other threads one is
the first module's, whose state means nothing, and one is like all the rest.
Eleven pages leave free runs of several lengths between the kernel's page and a
module's, and a request of five does not fit behind the last. Four threads make
a tree of three generations, or a parent with three children of which any may
end first, and a main thread that leaves several behind. Of the file server's
behaviours the run has four families (`Scenarios`): one client with three
requests and the other with one, or both with two, and no time-out; two requests,
one and a time-out; and one client alone with three requests, two File objects
and two time-outs. Two opens and a read are what it takes for two entities to
meet, an open, a read and a late answer what it takes to read the wrong node, and
a second time-out hands lateness on.

Distinct states: `ports` 627,604, `ports_live` 558,971, `waits` 1,028,667,
`round_robin` 337,487, `process_table` 462,840, `shmem` 372,379, `smp` 92,647,
`structures` 58,345, `vfs` 649,636. Every run ends within a few minutes
on two workers.

The bounds in the models, each a constant: `MaxQueue`, `MaxPages`, `MaxGifts`,
`MaxUpsets`, `MaxTasks`, `MaxLoad`, `MaxRequests`, `MaxWaits`, `MaxResumes`, `MaxUsage`,
`Creators`, `Mortals`, `Odd`, `MaxRequest`, `MaxCount`, `MaxAsks`, `MaxGiveUps`,
`Early`, `Slots`, `Places`. *Upsets* and *resumes*
stand for state changes that the system-call interface lets a peer make and the
library's own code never makes (a thread resumed out of a wait, ended inside the
kernel, suspended after its start, a line requested for a main thread). They are in the models because the kernel
does not forbid them; each property says whether it survives them, and where it
does not, that is in the hazards. In `process_table` a constraint keeps them to
behaviours in which no child is born: both together are out of TLC's reach.
`Odd` names the users of shared memory that may release once too often or find
no memory.

Deadlock is not checked where the program may stop: all threads can be asleep
or gone, or a bound be used up, or an assertion has halted the kernel or a
processor. In `round_robin`, `AcknowledgesHead` shows that this cannot happen
without an upset. The `structures` run has `CHECK_DEADLOCK FALSE` because its
focus on pages ends when the bound `MaxCount` is reached, and that on threads
when the process is gone.

### Fairness

* `RWLock`: each round of a client that is inside a call is weakly fair, for the
  run queue is cyclic; holders give the lock back; nobody has to call. Only
  *some* writer is promised to get in: the code favours none. Readers may wait
  for ever behind writers that follow one another.
* `SpinRWLock`: none. Test-and-set favours nobody, and no liveness is claimed.
* `Ports`: a send completes, the clock passes a set time, a running thread
  returns from `go_dormant`.
* `Semaphores` (`SemaphoreFairness`): a woken thread runs, a holder signals. `SleeperServed` is void
  after an upset, because the link that an upset leaves swallows a signal.
* `VfsServer`: none. A driver may never answer and every call has a time limit, so
  no liveness is claimed beyond that of `Ports`.
* `ProcessTable`: the collector and each thread inside the kernel get their
  turn. `FinishedFreed` excuses what the code itself allows: `Wedged` (exec
  asked for the list twice with a writer between) and `Starved` (the collector
  never finds a process's lock free).
* `RoundRobin`: the processor goes on and the timer ends every run
  (`WF(Turn)`), and drivers come to their acknowledgement when they run again
  and again (`SF(Acknowledge)`; strong, because preemption disables it).
* `Waits`: the collector, each waiter in the kernel and each ended thread get
  their turn (weak). `SleeperWoken` excuses a waiter that was not yet asleep
  when it was woken (`missed`, the finding) and one behind a link that its
  waiter had freed when the collector read on from it (`torn`).
* `SharedMemory`: the collector and every thread in the kernel get their turn
  (weak). `DeletionEnds` excuses circles, which `Deadlocked` defines: two
  deletions that each keep a user the other wants, and one that asks for the
  list again when the collector has asked for it as a writer.
* `SmpScheduler`: a processor in its scheduler goes on and a thread with
  interrupts off finishes what it does (weak). The timer ends every run, if late,
  because it stays pending while interrupts are off, and the handler's loop for
  a lock outlasts calls that take it in turn (`SF(Stop)`, `SF(Handler)`). A thread
  with a lock and interrupts on finishes if it runs again and again (`SF` of
  `Finish`). Nobody has to call and no interrupt has to come. `CallsReturn`
  and `ReadyRuns` excuse a processor that has stopped for good (`Halted`), a thread
  that suspended itself with its process checked out, and removals that never
  cease; `LineServed` excuses a driver that refused an interrupt, and a wait that
  `remove_last` passed over.

## 5. What is proved

The proofs hold for every number of clients or threads and for every bound.

`Structures_proofs` proves the modules of `MCStructures` one at a time.

*Reader-writer lock.* `IInv` is `TypeOK`, `CountsMatchHolders` and `Exclusion`
together. Exclusion alone is not inductive: a release guesses who leaves from
`num_writers`, and that the guess is right is what the counters say. With the
counters equal to the numbers of holders each step is a fact about
cardinalities (`ReaderJoins`, `WriterJoins`, `HolderLeaves`). `LockImplements`
follows: each step moves one client in or out of the abstract sets, or is a
stutter. `RequestOwned` adds that a raised request flag has a writer who waits
or writes.

*Its spinlock version.* `SpinMutex` (one client in a section, the bit set exactly
then) is inductive with `TypeOK` and `FoundHolds`: what a client has found of the
counters is still so at each later step of its section, because nobody else is
in one. Under it the counters that `Seen` shows change in one step of a
section only, and `SpinLockImplements` maps every step to the one `RWLock` takes or
to a stutter. So what is proved of `RWLock` holds of the spinlock version.

*Semaphores.* The invariant adds two facts to the properties: `ListExact` (left
alone, the list holds each sleeper once and nobody else; without it a signal
might pop a link that wakes nobody) and `FreeSlotUnheld` (what `Create` needs
for the count to start at zero). `SleepersCanBeWoken`, `CountExact` and
`SignalsArrive` follow from it.

*Physical pages.* `PagesInv`: what was marked at boot stays marked, and the count
is at least the number of free pages, in the rewrite at least one more, because
its `>` refuses a request for all of them. A grant lowers it by no more pages than
it takes. So the count is never in the way of a request. Whether the scan finds a
run is shown from its last round down: its place in a round is that of a later
round (`FoundIs`, which is also why there is such a function at all), what it finds
is free (`ScanFits`), it passes no free run when it goes on behind a page in use,
and behind the end of the map it passes at most as many pages as the first
megabyte keeps (`NothingSkipped`, `ScanFinds`). That is where the bound `Low + 2` of
`RequestsFound` comes from. `PagesAreFrames` follows.

*Pulse pages.* `PulsesInv`: every page but the last is full and not empty, and
`last_pulses` is the last page (`ChainSound`), and a page's header describes a
window within its slots. A pulse that is stored is appended to the last window
(`StoreAppends`); one that is consumed was first in the first window
(`ConsumeTakes`). What this does to all windows in a row is shown for
`FlattenSeq` page by page (`FlattenMore`, `FlattenLonger`, `FlattenShorter`,
`FlattenRest`). Hence `PulsesAreQueue`, and `EndsMeet`: `ChainSound` for every
size of a page.

For both, the library's induction theorems cannot be instantiated by the
prover. `LeastOf` takes their place (a set of numbers has a least one, from the
well-foundedness of `<`), and `Upwards` and `Downwards` are the two inductions
that follow from it: a counterexample with the least number would not be one.

*Threads of a process.* `FamilyIInv`: while the process lives its threads' pointers
come in pairs that point back and stay among the attached (`Enclosed`, `Paired`),
the root is the eldest main thread (`Tops`), and *a set of threads that has the
root, and with each member its child and right sibling, has all of them*; the
same of the list and its first, which is the root until it left two others. That
form of "everything is reached" speaks of sets instead of paths, so a step of
`detach_thread` is shown to keep it without an induction: `LeftFound` takes a
set that is closed after the step and finds that with the thread that went it was
closed before. What the loops over siblings and list arrive at needs two facts of
finite sets: a set cannot grow more often than it has members (`ReachStops`, so
`Reached` is closed and the least such set, `ReachedKept`), and a chain whose links
lead back and that covers all from its first has an end (`ChainEnds`, because
an injection of a finite set into itself is onto). `AttachJoins`, `UnlinkedParts`,
`RaisedIs` and `DetachLeaves` say what the writes through pointers come to, field
by field. Theorem: `ThreadsFound`.

`Waits_proofs` follows a link. `Fresh`: before its wait it is nowhere. `Unique`:
it is on one list at one place, or on the collector's walk. `PendingCurrent`:
as long as the collector has not come to it, it belongs to its waiter's
current wait, is not freed and its waiter is about to sleep or asleep, unless a
peer set the waiter running. `HeadKnown`: the link the collector is at was
answered, and one it is about to free has a waiter that can never return.
`OwnTarget`: it is on no list but its target's, and when it has left that list
the target is gone. `EndedOutside` and `WholeDetached` do the same for threads:
who has ended is not in the kernel, unless a peer ended it there (`cut`), and a
process of which everything is collected has been detached after its last thread left the kernel. None of the
three properties is inductive without its part of this; `ListTaken` is the one
argument for every way the collector takes a list.
`LinksFreedOnce`, `AnswersAreTrue` and `DeletedAreOutside` follow.

`Ports_proofs`. `IInv` adds to the properties that a thread which is gone owns
nothing (`GoneForgotten`), that a port without an owner holds no mail
(`UnownedEmpty`) and that a wake-up under way has a thread (`WakeLives`). The
port table and the handlers' lists agree step by step (`ListsAgree`); a hint
names a port of its thread whose head is what the peek showed, since whatever
takes that head clears or spends the hint (`HintsFresh`); the test for mail and
the sleep are one step, and every send to an open port wakes its owner
(`NobodySleepsOnMail`); `MessagesAreTaken` is the action property.

`ProcessTable_proofs`. `IInv` is `TypeOK`, `LocksMatchHolders` and what makes it
inductive: locks exclude (`LocksExclude`), a thread's place fits its call
(`PlacesFit`), only the thread in exec reaches an unfinished child
(`ChildrenOwn`), and whoever waits for or holds a process's lock has kept it from
being detached (`WorkedOnLives`); and that the collector never reads. In each
step one agent moves, so each counter changes as the set it counts does
(`CountsKept`). `LocksExact` is the invariant of the counters, and
`FreedAreUnheld` follows from `WorkedOnLives`: a process is detached under the
list's lock as a writer, and who works on a process holds it as a reader.
`LookupsSucceed` needs a second invariant, `FindInv`, about the processes in which
no peer upset a thread. Whoever is inside the kernel runs, in a process that has
not ended (`InsideAlive`, `ExitedEnded`), so its process is in the table. The child
of an exec is empty, and that exec's alone, until its first thread is started
(`ExecsApart`). The collector's tasks differ, are about threads that have ended,
and wait in their slots until they can be run (`TasksFit`, `TasksReady`); none of
them fails, so none holds its slot for ever (`NothingStays`), and the lowest free
slot keeps the task of a process behind those of its threads. A process that has
ended and that all have left keeps a thread in its list that no task is about
(`EndedHasRest`), so collecting thread by thread never empties the list before
the task of the process comes.

`RoundRobin_proofs`. A process has one slot, which holds threads of its own
(`SlotsFit`), and a thread that is no driver and was not *upset* (used as the
library never uses one) is in one place of one slot exactly while its state is
one that the scheduler leaves queued (`QueuedByState`). That needs nothing of
interrupts, only that drivers alone handle lines and are requested
(`DriversOnly`). The rest holds while no thread at all was upset: no driver is
requested twice (`RingFits`); a driver is off the queue, and requested exactly
while it is not waiting for its line, which is then masked (`DriversFit`); a
line has one such driver, its handler if it has one (`LinesFit`); and a driver
that runs is the oldest request (`RunnerFits`). From these follows that the ring
never overtakes itself: requests go to different masked lines, and there are
fewer lines than places (`RequestsAssumption`: 16 lines and 128 places in the
code), so a ring that looks empty is empty. `irq_handler` requests a handler only
if it is no main thread, so the line of a main thread would stay masked without a
request; `Spawned` says that no line has such a handler. `RingFilled` says that the ring is
filled in turn, so that its window never shows a place nobody wrote. Theorems:
`QueuedByTheirState`, `OldestAcknowledges`, `RequestsFitLines`.

`SharedMemory_proofs` rests on who owns a region that goes. From `Unlink` on its
infos are reached from nowhere but its deleter's walk, so two deletions never
meet (`DeletersApart`), a deletion always stands in the list it walks
(`DeletersStand`), and the marks it finds there are its own (`MarkedByDeletion`).
Hence whom it is going to commit it has checked out (`DropsTheirs`) and whoever
is checked out is going to be committed (`HeldReturned`): `CheckoutsComeBack`.
`UsersKeepScratch` needs that a mapping without a count is a double release's work
(`UsageMatches`) and that the walk has checked out every user it passed
(`UsersVisited`). That holders and waiters are the readers of the process list
(`ReadersCounted`) is the other half of `CheckoutsComeBack`. `OrphansOnly` needs
that a process which has ended makes no more calls (`EndedAreOut`), so none of its
regions comes after the collector has looked.

`SmpScheduler_proofs`. A thread is queued, runs and is counted at its home
processor only (`AtHome`) and once (`Once`). Who is in a call has the process
checked out (`BusyCalls`), so what a call has found of its target and done to it
is still so at its next step (`TargetsFit`), and the targets of state changes are no
drivers. `HandlerFits`: the thread an interrupt found off the queue stays off it
until it is queued, because the handler keeps `irq_lock` meanwhile, as it does when
an assertion has stopped it. `WaitsMet`: as long as no wait came late a driver
leaves the queue only at the end of the run in which it waited, and by then has
the line unmasked or refused. `QueuesAgree` and `MaskedLineServed` follow.

`VfsServer_proofs` follows a request from the box to the server's hand to the
port of its answer. Each is known: it is what its sender waits for, or the sender
gave it or an earlier one up (`BoxKnown`, `JobKnown`, `AnswersKnown`). The last
request of a process is at one of the three places and there once, or nowhere if
it found no port (`OneBox`, `BoxOrJob`, `BoxOrAnswered`, `JobOrAnswered`, and
`Unsent...`). So the answer a call takes is its own unless an earlier call of the
same process was given up: `AnswersAreMine`.

`FileInv` adds what the messages are about. The request that a box or the server
holds is what its sender waits for, if it is its last (`BoxIsAsk`, `JobIsAsk`). A
client is *patient* while it has given up no call; nothing of a patient client goes
round but the call it waits in (`PatientFacts`). Its accounts then balance: files
that are open, the descriptor on its way to it and the CLOSEs that wait make up at
most its entities, and exactly those if none of its CLOSEs was dropped
(`Accounted`): `EntitiesAreAccounted`. Without "at most" the reads could not be
followed, because a dropped CLOSE leaks an entity but must never let one be missing.
Who never had two entities at once has one at most (`Single`), and what it has open
or is opening is that entity's node (`EntityIsFile`). So the driver that the server
asks for it has the node it wants, unless the entity's device was deleted
(`JobReads`), and what a patient server is answered comes from the driver it asked
(`DriverAnswers`): the data that reach a client are of its node (`AnswerReads`),
hence `ReadsAreOpened`.

The assumptions are those on the constants: clients, threads, processes,
processors and lines are finite, capacities and bounds are natural numbers,
there are fewer lines than places in the ring, and names of different kinds
differ.

Every invariant, action property and refinement that a passing run checks is also
a theorem. Only model-checked, and why:

* What is to happen in the end (`WriterGetsIn`, `SleepEnds`, `SleeperServed`,
  `FinishedFreed`, `RequestServed`, `ReadyRuns`, `SleeperWoken`, `DeletionEnds`,
  `CallsReturn`): liveness is beyond the prover.

## 6. Where code and documents differ

Three runs show such places:

* `ports_release`, `old_kernel/ports.c:156`: the loop that empties a released
  port arms the hint for messages where it means pulses, so a release drops the
  pulses of other ports. The changelog (649) says this was fixed.
* `waits_sleepers`, `old_kernel/waits.c:43`: a waiter links itself, gives the
  process back and only then falls asleep. The collector that comes in between
  sets it running to no effect, and it sleeps for ever.
* `smp_assert`, `kernel/scheduler.c:325`: an acknowledgement unmasks the line
  before its thread has left the queue, and the next interrupt fails an
  assertion in the handler, which keeps `irq_lock`.

Others were met while modelling and have no run of their own:

* `old_kernel/smk/smk_gc.c:216`: the walk over a dead process's threads follows
  `linear_next` from `proc->threads`. When the main thread has ended and left two
  others, `detach_thread` has put the youngest there, and the walk misses the
  elder: they stay attached and queued, and their process is freed.
  `NoThreadLost` excuses exactly this (`orphaned`).
* `old_kernel/process.c:297`: the parent of a new process is looked for before
  the process is inserted, under the child's own number, so no process has a
  parent and the todo at 398 ("RE-INSERTION OF THE CHILDREN") is never reached.
* `old_kernel/pulse.c:375`: `drop_pulse` does not look at the mask, so
  `Messenger.cpp`, which masks its other ports to protect them (112), empties
  them.
* `old_kernel/sem.c:303`: a woken waiter counts itself in without looking, and
  with a thread that came in between the semaphore is held beyond its capacity,
  against `libraries/old_libkernel/sem.c:19`; the test is for equality and from
  then on lets everybody in. `Balance` is stated for what the count does mean.
* `kernel/physmem.c:35` calls its count "The total number of free pages." It
  drifts from that with every run of several pages; `RequestsFound`, a part of
  `PagesImplement`, shows that no small request is refused because of it.
* `kernel/scheduler.c:375`, "Honour the thread's requested state change": a
  wait is passed over when the queue changed during the turn (`late`).
* `servers/vfs_server/tables/FileTable.cpp:22`: `UniqueFD` is to return a free
  descriptor, but nothing is ever added to the table it looks in, so every file
  has descriptor 2 and a client's second file is served from the first one's
  entity.
* `libraries/spoon/ipc/Messenger.cpp:112`: the other ports are masked so that the
  call does not touch them, yet its drop of pulses empties them: a CLOSE or
  UNINSTALL that waits while the server asks a driver is gone.
* `servers/vfs_server/VFSServer.cpp:50`: a device is deleted while entities point
  to it.
* `libraries/spoon/storage/File.cpp:171`: `Stat` sends its request to
  "gui_server". `primitives/Entity.cpp:34`: `Seek` always returns -1.

## 7. What is not modelled

`PROJECT.json` lists every component. Planned and not yet modelled are the hash
table, the user allocations and the mounts of the VFS server. Not
planned: device drivers, the console, page tables, the graphical servers,
applications and the bundled libraries; they are hardware, sequential, or not
this system's own.

Inside the modelled parts these are left out:

* everywhere: the limits of tables and the arrays that grow (the run queue's
  slots, where `rrpp.c:218` takes a pointer into the array it then frees), and allocation failures but for scratch areas in `SharedMemory`;
* `ProcessTable`: the family links of processes (there are none, see 6), a failing clone of the
  environment in exec (`exec.c:178` returns with both checkouts held), and the
  start of a process that has no thread yet (`syscalls.c:205`);
* `RoundRobin`: `sched_stop`, whether a sleeper has a time set (either may
  happen) and the three assignments of `request_irq` (`irq.c:84`) as more than
  one step;
* `Waits`: the locks of processes beyond "free or kept by the collector", and with
  them the end of a thread that has a process checked out or waits for one (both
  are in `ProcessTable`), and the order of the collector's slots;
* `SharedMemory`: names, permissions and `find_shmem`; the interrupts that a
  failed revocation leaves disabled; of what `delete_shmem` may read from a freed
  info only that the list ends;
* `SmpScheduler`: pause and restart, which nobody calls; full queues; processes
  other than the first module's, which alone is ever started; calls that do not
  touch a queue. `kernel/process.c:167` returns from `insert_process` with the
  write lock held; the rewrite's process table is otherwise that of
  `ProcessTable` and is not modelled again. Requests of pages beyond the first megabyte's
  number and two may be missed by the scan, and `kernel/paging.c` does not look
  at the result of `memory_alloc(1)`.
* `Messengers`, `VfsServer`: mounts and file systems, writes, seeks, directories
  and positions; what is inside a message; loopers; calls from several threads of
  a process (their temporary ports would have different numbers); a File opened
  again while it is open; an entity table that is full.
