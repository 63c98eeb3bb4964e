---------------------------- MODULE SharedMemory ----------------------------
(***************************************************************************)
(* Shared memory regions of the uniprocessor kernel (shmem.c, and           *)
(* syscall_shmem in syscalls.c): an owner creates a region and grants it,   *)
(* users map it, and when a user is revoked or the region is deleted those  *)
(* who still use it get a scratch copy in its place. For that a deletion    *)
(* checks its users out one after the other and keeps them all.             *)
(* Who holds shmem_lock waits at most for a region's lock, and who holds    *)
(* that waits for nothing, so what is done under them is one step. Each     *)
(* process has one thread; checkouts here are all of writers.               *)
(***************************************************************************)
EXTENDS RWLockOps, Sequences, FiniteSets

CONSTANTS
    Procs,
    GC,         \* the garbage collector
    Nobody,
    Regions,    \* ids, in the order of shmem_table: 1..n
    Flags,      \* the flags of each region
    Creators,   \* bound: who may create each region
    Mortals,    \* bound: processes that may exit
    MaxUsage,   \* bound: requests of one region that a process has not released
    Odd         \* bound: users that may release too often or find no memory

ASSUME ActorsAssumption ==
    IsFiniteSet(Procs) /\ GC \notin Procs /\ Nobody \notin Procs \cup {GC}
ASSUME RegionsAssumption ==
    /\ Flags \in [Regions -> SUBSET {"promiscuous", "immortal"}]
    /\ Creators \in [Regions -> SUBSET Procs]
ASSUME BoundsAssumption ==
    Regions \subseteq Nat /\ MaxUsage \in Nat \ {0} /\ Odd \subseteq Regions \X Procs

VARIABLES
    list,       \* process_rwlock
    held,       \* who has each process checked out
    life,       \* where each process is in its life
    region,     \* shmem_table: status and owner of each region
    infos,      \* sh->list
    reused,     \* deletions whose freed info is another's memory by now
    kept,       \* who has which region mapped without an info that says so
    pc,         \* where each process, and the collector, is in the kernel
    job,        \* what it does to which region and process, at which info
    overdrawn,  \* history: releases of what was not in use
    starved,    \* history: users for whom no scratch area could be had
    lost        \* history: processes whose checkout a deletion lost with its list

table == <<region, infos, kept>>
history == <<overdrawn, starved, lost>>
vars == <<list, held, life, table, reused, pc, job, history>>

Actors == Procs \cup {GC}
InTable(p) == life[p] \in {"live", "exited"}
Live(r) == region[r].status = "live"

NoRegion == [status |-> "none", owner |-> Nobody, orphan |-> FALSE]
Promiscuous(r) == "promiscuous" \in Flags[r]
Immortal(r) == "immortal" \in Flags[r]
NoJob == [op |-> "none", region |-> 0, target |-> Nobody, at |-> 0]

Info(p) == [pid |-> p, usage |-> 0, mapped |-> FALSE, tmp |-> FALSE, tmp2 |-> FALSE]
Listed(r, p) == \E i \in DOMAIN infos[r] : infos[r][i].pid = p
Place(r, p) == CHOOSE i \in DOMAIN infos[r] : infos[r][i].pid = p
Without(s, i) == SubSeq(s, 1, i - 1) \o SubSeq(s, i + 1, Len(s))

Init ==
    /\ list = FreeLock
    /\ held = [p \in Procs |-> Nobody]
    /\ life = [p \in Procs |-> "live"]
    /\ region = [r \in Regions |-> NoRegion]
    /\ infos = [r \in Regions |-> << >>]
    /\ kept = {}
    /\ reused = {}
    /\ pc = [a \in Actors |-> IF a = GC THEN "idle" ELSE "user"]
    /\ job = [a \in Actors |-> NoJob]
    /\ overdrawn = {} /\ starved = {} /\ lost = {}

OddOnly == overdrawn' \cup starved' \subseteq Odd

Goto(a, s) == pc' = [pc EXCEPT ![a] = s]
User(a) == a \in Procs /\ pc[a] = "user"

(* A new info takes memory, and perhaps that of the info a deletion has     *)
(* just freed and will read the next link from.                             *)
Allocate == reused' = reused \cup {a \in Actors : pc[a] = "freed"}
-----------------------------------------------------------------------------
(* create_shmem and grant_shmem.                                            *)

Create(a) ==
    /\ User(a)
    /\ \E r \in Regions :
        /\ region[r].status = "none" /\ a \in Creators[r]
        /\ \A q \in Regions : q < r => region[q].status # "none"
        /\ region' = [region EXCEPT ![r] = [status |-> "live", owner |-> a, orphan |-> FALSE]]
    /\ UNCHANGED <<list, held, life, infos, kept, reused, pc, job, history>>

Grant(a) ==
    /\ User(a)
    /\ \E r \in Regions, p \in Procs :
        /\ Live(r) /\ region[r].owner = a /\ ~Listed(r, p)
        /\ infos' = [infos EXCEPT ![r] = <<Info(p)>> \o @]
    /\ Allocate
    /\ UNCHANGED <<list, held, life, region, kept, pc, job, history>>
-----------------------------------------------------------------------------
(* Calls that check a process out: the user's own to request and release,   *)
(* any to revoke. One that need not wait is one step with its commit; one   *)
(* that waits for the process reads the list meanwhile.                     *)

Await(a) ==
    /\ User(a)
    /\ ReadGranted(list)
    /\ \E p \in Procs :
        /\ InTable(p) /\ held[p] # Nobody
        /\ job' = [job EXCEPT ![a] = [NoJob EXCEPT !.op = "call", !.target = p]]
    /\ list' = TakeRead(list)
    /\ Goto(a, "wantProc")
    /\ UNCHANGED <<held, life, table, reused, history>>

Granted(a, p) ==
    /\ held[p] = Nobody
    /\ \/ User(a) /\ ReadGranted(list) /\ InTable(p)
       \/ pc[a] = "wantProc" /\ job[a].op = "call" /\ job[a].target = p

Commit(a) ==
    /\ list' = IF User(a) THEN list ELSE Release(list)
    /\ Goto(a, "user")
    /\ job' = [job EXCEPT ![a] = NoJob]
    /\ UNCHANGED <<held, life, region>>

(* Not there, not the owner's, not granted, no memory. *)
Fail(a) ==
    /\ pc[a] = "wantProc" /\ job[a].op = "call" /\ held[job[a].target] = Nobody
    /\ Commit(a) /\ UNCHANGED <<infos, kept, reused, history>>

(* Faulty variant: access is taken away and the mapping stays. *)
RevokeUnmapped(a) ==
    /\ \E r \in Regions, p \in Procs :
        /\ Granted(a, p)
        /\ Live(r) /\ region[r].owner = a /\ Listed(r, p)
        /\ infos' = [infos EXCEPT ![r] = Without(@, Place(r, p))]
        /\ kept' = IF infos[r][Place(r, p)].mapped THEN kept \cup {<<r, p>>} ELSE kept
    /\ Commit(a) /\ UNCHANGED <<reused, history>>

(* revoke_shmem: who uses the region has a scratch area mapped in its       *)
(* place. When none can be had nothing is revoked.                          *)
Revoke(a) ==
    /\ \E r \in Regions, p \in Procs :
        /\ Granted(a, p)
        /\ Live(r) /\ region[r].owner = a /\ Listed(r, p)
        /\ infos' = [infos EXCEPT ![r] = Without(@, Place(r, p))]
        /\ kept' = LET info == infos[r][Place(r, p)] IN
                   IF info.mapped /\ info.usage <= 0 THEN kept \cup {<<r, p>>} ELSE kept
    /\ Commit(a) /\ UNCHANGED <<reused, history>>

Used(info) == [info EXCEPT !.mapped = TRUE, !.usage = @ + 1]

(* request_shmem, of a region that lists the process *)
Request(a) ==
    /\ Granted(a, a)
    /\ \E r \in Regions :
        /\ Live(r) /\ Listed(r, a)
        /\ infos[r][Place(r, a)].usage < MaxUsage
        /\ infos' = [infos EXCEPT ![r][Place(r, a)] = Used(@)]
    /\ Commit(a) /\ UNCHANGED <<kept, reused, history>>

(* or takes anyone in, even when there is then no room to map it. *)
RequestPromiscuous(a) ==
    /\ Granted(a, a)
    /\ \E r \in Regions, info \in {Info(a), Used(Info(a))} :
        /\ Live(r) /\ ~Listed(r, a) /\ Promiscuous(r)
        /\ infos' = [infos EXCEPT ![r] = <<info>> \o @]
    /\ Allocate
    /\ Commit(a) /\ UNCHANGED <<kept, history>>

(* release_shmem: only the count 0 unmaps. *)
Returned(info) == [info EXCEPT !.mapped = @ /\ info.usage # 1, !.usage = @ - 1]

ReleaseRegion(a) ==
    /\ Granted(a, a)
    /\ \E r \in Regions :
        LET i == Place(r, a) IN
        /\ Live(r) /\ Listed(r, a)
        /\ infos[r][i].usage >= 0
        /\ infos' = [infos EXCEPT ![r][i] = Returned(@)]
        /\ overdrawn' = IF infos[r][i].usage = 0 THEN overdrawn \cup {<<r, a>>} ELSE overdrawn
    /\ Commit(a) /\ UNCHANGED <<kept, reused, starved, lost>>
    /\ OddOnly
-----------------------------------------------------------------------------
(* delete_shmem. From the table's side the region is gone at once.          *)

Unlink(a, r) ==
    /\ Live(r)
    /\ region' = [region EXCEPT ![r].status = "gone"]
    /\ job' = [job EXCEPT ![a] = [op |-> "delete", region |-> r, target |-> Nobody, at |-> 1]]
    /\ Goto(a, "visit")

Delete(a) ==
    /\ User(a)
    /\ \E r \in Regions : region[r].owner = a /\ Unlink(a, r)
    /\ UNCHANGED <<list, held, life, infos, kept, reused, history>>

Infos(a) == infos[job[a].region]
AtEnd(a) == job[a].at > Len(Infos(a))
Current(a) == Infos(a)[job[a].at]
Advance(a) == job' = [job EXCEPT ![a].at = @ + 1]

(* First those who use the region are checked out, *)
Visits(a) == pc[a] = "visit" /\ ~AtEnd(a)

Skip(a) ==
    /\ Visits(a)
    /\ Current(a).usage > 0 => ReadGranted(list) /\ ~InTable(Current(a).pid)
    /\ Advance(a)
    /\ UNCHANGED <<list, held, life, table, reused, pc, history>>

CheckoutUser(a) ==
    /\ Visits(a)
    /\ Current(a).usage > 0 /\ ReadGranted(list) /\ InTable(Current(a).pid)
    /\ list' = TakeRead(list)
    /\ job' = [job EXCEPT ![a].target = Current(a).pid]
    /\ Goto(a, "wantProc")
    /\ UNCHANGED <<held, life, table, reused, history>>

(* each with a scratch area, if there is one, *)
Take(a) ==
    LET r == job[a].region
        p == job[a].target
    IN  /\ pc[a] = "wantProc" /\ job[a].op = "delete" /\ held[p] = Nobody
        /\ held' = [held EXCEPT ![p] = a]
        /\ \E scratch \in BOOLEAN :
            /\ infos' = [infos EXCEPT ![r][job[a].at] = [@ EXCEPT !.tmp = TRUE, !.tmp2 = scratch]]
            /\ starved' = IF scratch THEN starved ELSE starved \cup {<<r, p>>}
        /\ Advance(a)
        /\ Goto(a, "visit")
        /\ UNCHANGED <<list, life, region, kept, reused, overdrawn, lost>>
        /\ OddOnly

(* then all get their copy with interrupts off, *)
Copy(a) ==
    LET r == job[a].region
        Keeps(info) == info.mapped /\ InTable(info.pid) /\ ~(info.tmp /\ info.tmp2)
    IN  /\ pc[a] = "visit" /\ AtEnd(a)
        /\ kept' = kept \cup {<<r, p>> : p \in {q \in Procs : Listed(r, q) /\ Keeps(infos[r][Place(r, q)])}}
        /\ job' = [job EXCEPT ![a].at = 1, ![a].target = Nobody]
        /\ Goto(a, "drop")
        /\ UNCHANGED <<list, held, life, region, infos, reused, history>>

(* Faulty variant: only those who got a scratch area are committed. *)
DropScratched(a) ==
    LET p == Current(a).pid IN
    /\ pc[a] = "drop" /\ ~AtEnd(a)
    /\ IF Current(a).tmp /\ Current(a).tmp2
       THEN held' = [held EXCEPT ![p] = Nobody] /\ list' = Release(list)
       ELSE UNCHANGED <<held, list>>
    /\ Goto(a, "freed")
    /\ UNCHANGED <<life, table, job, reused, history>>

(* then each is committed and its info freed, *)
Drop(a) ==
    LET p == Current(a).pid IN
    /\ pc[a] = "drop" /\ ~AtEnd(a)
    /\ IF Current(a).tmp
       THEN held' = [held EXCEPT ![p] = Nobody] /\ list' = Release(list)
       ELSE UNCHANGED <<held, list>>
    /\ Goto(a, "freed")
    /\ UNCHANGED <<life, table, job, reused, history>>

(* and the next one is read from it: from memory that may be another's now, *)
(* where the list may well end.                                             *)
Follow(a) ==
    /\ pc[a] = "freed"
    /\ \/ Advance(a) /\ UNCHANGED lost
       \/ /\ a \in reused
          /\ job' = [job EXCEPT ![a].at = Len(Infos(a)) + 1]
          /\ lost' = lost \cup {p \in Procs : held[p] = a}
    /\ reused' = reused \ {a}
    /\ Goto(a, "drop")
    /\ UNCHANGED <<list, held, life, table, overdrawn, starved>>

(* With the region goes what this module remembers of it. *)
Deleted(a) ==
    LET r == job[a].region
        Others(S) == {x \in S : x[1] # r}
    IN  /\ pc[a] = "drop" /\ AtEnd(a)
        /\ infos' = [infos EXCEPT ![r] = << >>]
        /\ kept' = Others(kept)
        /\ overdrawn' = Others(overdrawn) /\ starved' = Others(starved)
        /\ Goto(a, IF a = GC THEN "clean" ELSE "user")
        /\ job' = [job EXCEPT ![a] = NoJob]
        /\ UNCHANGED <<list, held, life, region, reused, lost>>
-----------------------------------------------------------------------------
(* The end of a process: detach_process, and clean_shmem in delete_process. *)

Exit(a) ==
    /\ User(a) /\ a \in Mortals /\ life[a] = "live" /\ held[a] = Nobody
    /\ life' = [life EXCEPT ![a] = "exited"]
    /\ Goto(a, "out")
    /\ UNCHANGED <<list, held, table, job, reused, history>>

(* Faulty variant: the writer's request outlives it. *)
DetachKeepsRequest ==
    /\ pc[GC] = "idle"
    /\ \E p \in Procs :
        /\ life[p] = "exited"
        /\ IF WriteGranted(list)
           THEN /\ life' = [life EXCEPT ![p] = "gone"]
                /\ list' = ReleaseKeepsRequest(TakeWrite(list))
                /\ Goto(GC, "clean")
           ELSE /\ list' = AskWrite(list)
                /\ UNCHANGED <<life, pc>>
    /\ UNCHANGED <<held, table, job, reused, history>>

(* The list is taken as a writer and the process taken off it. *)
Detach ==
    /\ pc[GC] = "idle"
    /\ \E p \in Procs :
        /\ life[p] = "exited"
        /\ IF WriteGranted(list)
           THEN /\ life' = [life EXCEPT ![p] = "gone"]
                /\ list' = Release(TakeWrite(list))
                /\ Goto(GC, "clean")
           ELSE /\ list' = AskWrite(list)
                /\ UNCHANGED <<life, pc>>
    /\ UNCHANGED <<held, table, job, reused, history>>

Owned == {r \in Regions : Live(r) /\ region[r].owner \in Procs /\ life[region[r].owner] = "gone"}
Mortal == {r \in Owned : ~Immortal(r)}

(* Faulty variant: the walk ends at an immortal region. *)
CleanUntilImmortal ==
    /\ pc[GC] = "clean"
    /\ LET r == CHOOSE q \in Owned : \A o \in Owned : q <= o IN
       IF Owned # {} /\ r \in Mortal
       THEN Unlink(GC, r)
       ELSE Goto(GC, "idle") /\ UNCHANGED <<region, job>>
    /\ UNCHANGED <<list, held, life, infos, kept, reused, history>>

(* The walk makes orphans of immortal regions up to the first other, which  *)
(* is deleted before it starts again.                                       *)
Clean ==
    LET first == CHOOSE r \in Mortal : \A q \in Mortal : r <= q
        orphans == IF Mortal = {} THEN Owned ELSE {r \in Owned : r < first}
        marked == [r \in Regions |-> IF r \in orphans
                                     THEN [region[r] EXCEPT !.orphan = TRUE] ELSE region[r]]
    IN  /\ pc[GC] = "clean"
        /\ IF Mortal = {}
           THEN region' = marked /\ Goto(GC, "idle") /\ UNCHANGED job
           ELSE /\ region' = [marked EXCEPT ![first].status = "gone"]
                /\ job' = [job EXCEPT ![GC] =
                            [op |-> "delete", region |-> first, target |-> Nobody, at |-> 1]]
                /\ Goto(GC, "visit")
        /\ UNCHANGED <<list, held, life, infos, kept, reused, history>>

Deleting(a) == Skip(a) \/ CheckoutUser(a) \/ Take(a) \/ Copy(a) \/ Drop(a) \/ Follow(a) \/ Deleted(a)
Serve(a) == Fail(a) \/ Revoke(a) \/ Request(a) \/ RequestPromiscuous(a) \/ ReleaseRegion(a)
Begin(a) == Create(a) \/ Grant(a) \/ Await(a) \/ Delete(a) \/ Exit(a)

Next ==
    \/ \E a \in Actors : Deleting(a)
    \/ \E a \in Procs : Begin(a) \/ Serve(a)
    \/ Detach \/ Clean

Spec == Init /\ [][Next]_vars

(* The run queue is cyclic: every thread in the kernel gets its turn again  *)
(* and again. Nobody has to make a call.                                    *)
Fairness ==
    /\ WF_vars(Detach \/ Clean)
    /\ \A a \in Actors : WF_vars(Deleting(a))
    /\ \A a \in Procs : WF_vars(Serve(a))

FairSpec == Spec /\ Fairness
-----------------------------------------------------------------------------
TypeOK ==
    /\ list \in LockType
    /\ held \in [Procs -> Actors \cup {Nobody}]
    /\ life \in [Procs -> {"live", "exited", "gone"}]
    /\ region \in [Regions -> [status : {"none", "live", "gone"}, owner : Procs \cup {Nobody}, orphan : BOOLEAN]]
    /\ infos \in [Regions -> Seq([pid : Procs, usage : -1..MaxUsage, mapped : BOOLEAN,
                                   tmp : BOOLEAN, tmp2 : BOOLEAN])]
    /\ kept \subseteq Regions \X Procs
    /\ reused \subseteq Actors
    /\ pc \in [Actors -> {"user", "wantProc", "visit", "drop", "freed",
                           "out", "idle", "clean"}]
    /\ job \in [Actors -> [op : {"none", "call", "delete"},
                            region : Nat, target : Procs \cup {Nobody}, at : Nat]]
    /\ overdrawn \subseteq Regions \X Procs /\ starved \subseteq Regions \X Procs
    /\ lost \subseteq Procs

(* "revokes all access": when a user is revoked or a region deleted, what   *)
(* stays mapped is a scratch area and not the region, unless the user had   *)
(* released more than it had requested, or there was no memory for one.     *)
OnlyScratchLeft ==
    kept \subseteq overdrawn \cup starved

(* Where a deletion finds p again to commit it. *)
ToDrop(a) ==
    {i \in DOMAIN Infos(a) :
        /\ Infos(a)[i].tmp
        /\ pc[a] = "drop" => i >= job[a].at
        /\ pc[a] = "freed" => i > job[a].at}

(* Whoever has a process checked out is about to commit it, whatever way    *)
(* its call went, and each holder or waiter reads the process list once: no *)
(* checkout is forgotten but by a deletion that read its next user from     *)
(* freed memory.                                                            *)
CheckoutsReturned ==
    /\ \A p \in Procs \ lost : held[p] # Nobody =>
        LET a == held[p] IN
        job[a].op = "delete" /\ \E i \in ToDrop(a) : Infos(a)[i].pid = p
    /\ list.readers = Cardinality({p \in Procs : held[p] # Nobody})
                        + Cardinality({a \in Actors : pc[a] = "wantProc"})

(* "release all shared memory regions which the process had created and are *)
(* not marked as immortal": when the collector is done with a process, its  *)
(* regions are gone or orphans.                                             *)
DeadLeaveOrphans ==
    pc[GC] = "idle" => \A r \in Owned : Immortal(r) /\ region[r].orphan

(* b waits for another of S: for a process it has checked out, or at the    *)
(* list for the collector, who waits as a writer for its readers.           *)
WaitsIn(b, S) ==
    \/ /\ pc[b] = "wantProc"
       /\ held[job[b].target] \in S \ {b} \/ job[b].target \in lost
    \/ Visits(b) /\ Current(b).usage > 0 /\ list.request /\ GC \in S \ {b}
    \/ /\ b = GC /\ pc[GC] = "idle" /\ list.request
       /\ \/ lost # {}
          \/ \E c \in S \ {GC} : pc[c] = "wantProc" \/ \E p \in Procs : held[p] = c
Deadlocked(a) == \E S \in SUBSET Actors : a \in S /\ \A b \in S : WaitsIn(b, S)

(* A deletion comes to its end, unless it is caught in a circle: two        *)
(* deletions that each keep a user the other one wants, or one that has a   *)
(* user and asks for the list again when the collector has asked for it as  *)
(* a writer.                                                                *)
DeletionEnds ==
    \A a \in Actors : []<>(job[a].op # "delete" \/ Deadlocked(a))
=============================================================================
