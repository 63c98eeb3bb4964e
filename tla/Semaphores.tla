----------------------------- MODULE Semaphores -----------------------------
(***************************************************************************)
(* One slot of the semaphore table (old_kernel/sem.c): create, destroy,     *)
(* wait and signal, for local and global semaphores alike. Each handler     *)
(* runs under the table's spinlock, so it is one step; a wait that has to   *)
(* sleep is two, for it gives the lock up with its sleep and takes it again *)
(* when it is woken.                                                        *)
(***************************************************************************)
EXTENDS Integers, Sequences, FiniteSets

CONSTANTS
    Threads,
    Capacities, \* capacities create is called with
    MaxGifts,   \* bound: signals by threads that do not hold the semaphore
    MaxUpsets   \* bound: threads resumed or ended by a peer during their wait

ASSUME ThreadsAssumption == IsFiniteSet(Threads)
ASSUME CapacitiesAssumption == Capacities \subseteq Nat
ASSUME BoundsAssumption == MaxGifts \in Nat /\ MaxUpsets \in Nat

VARIABLES
    valid,      \* sem_id is the slot's own number, not -1
    capacity,
    count,
    waiting,    \* waiting_list
    use,        \* what each thread has to do with the slot
    gifts,      \* history: signals this semaphore got from non-holders
    upsets      \* history: interferences of peers

semaphoreVars == <<valid, capacity, count, waiting, use, gifts, upsets>>

(* asleep: THREAD_SEMAPHORE. woken: running again, not yet past the lock.   *)
(* evicted: the same, its semaphore destroyed meanwhile. orphan: holds a    *)
(* semaphore that was destroyed under it.                                   *)
Uses == {"idle", "asleep", "woken", "evicted", "holding", "orphan", "dead"}

In(u) == {t \in Threads : use[t] = u}
Becomes(t, u) == use' = [use EXCEPT ![t] = u]
Listed == {waiting[i] : i \in DOMAIN waiting}

SemaphoreInit ==
    /\ valid = FALSE
    /\ capacity \in Capacities
    /\ count = 0
    /\ waiting = << >>
    /\ use = [t \in Threads |-> "idle"]
    /\ gifts = 0
    /\ upsets = 0

(* create_local_semaphore, create_global_semaphore, in this slot. *)
Create(c) ==
    /\ ~valid
    /\ valid' = TRUE
    /\ capacity' = c
    /\ count' = 0
    /\ waiting' = << >>
    /\ gifts' = 0
    /\ UNCHANGED <<use, upsets>>

(* Faulty variant: the sleepers are not told. *)
DestroySilent ==
    /\ valid
    /\ valid' = FALSE
    /\ waiting' = << >>
    /\ UNCHANGED <<capacity, count, use, gifts, upsets>>

(* destroy: everyone on the list is set running, nobody is waited for. *)
Destroy ==
    /\ valid
    /\ valid' = FALSE
    /\ waiting' = << >>
    /\ use' = [t \in Threads |->
            CASE use[t] = "asleep" /\ t \in Listed -> "evicted"
              [] use[t] = "woken" -> "evicted"
              [] use[t] = "holding" -> "orphan"
              [] OTHER -> use[t]]
    /\ UNCHANGED <<capacity, count, gifts, upsets>>

(* wait, up to its yield. *)
Wait(t) ==
    /\ use[t] = "idle"
    /\ valid
    /\ \/ /\ count = capacity
          /\ waiting' = Append(waiting, t)
          /\ Becomes(t, "asleep")
          /\ UNCHANGED count
       \/ /\ count # capacity
          /\ count' = count + 1
          /\ Becomes(t, "holding")
          /\ UNCHANGED waiting
    /\ UNCHANGED <<valid, capacity, gifts, upsets>>

(* Faulty variant: a woken waiter does not count itself in. *)
EnterUncounted(t) ==
    /\ use[t] \in {"woken", "evicted"}
    /\ Becomes(t, IF valid THEN "holding" ELSE "idle")
    /\ UNCHANGED <<valid, capacity, count, waiting, gifts, upsets>>

(* The rest of a wait that slept: it looks at sem_id again, not at count. *)
Enter(t) ==
    /\ use[t] \in {"woken", "evicted"}
    /\ IF valid
       THEN count' = count + 1 /\ Becomes(t, "holding")
       ELSE UNCHANGED count /\ Becomes(t, "idle")
    /\ UNCHANGED <<valid, capacity, waiting, gifts, upsets>>

(* Who runs after the first waiter is set running. A waiter that is not on *)
(* this list for its sleep, or gone, is not affected.                      *)
WakeFirst(u) ==
    IF waiting # << >> /\ u[Head(waiting)] = "asleep"
    THEN [u EXCEPT ![Head(waiting)] = "woken"]
    ELSE u

(* Faulty variants: the link is not taken off; nobody is woken. *)
SignalKeepsLink(t) ==
    /\ valid
    /\ use[t] = "holding"
    /\ count' = count - 1
    /\ use' = WakeFirst([use EXCEPT ![t] = "idle"])
    /\ UNCHANGED <<valid, capacity, waiting, gifts, upsets>>
SignalWakesNobody(t) ==
    /\ valid
    /\ use[t] = "holding"
    /\ count' = count - 1
    /\ waiting' = IF waiting = << >> THEN << >> ELSE Tail(waiting)
    /\ Becomes(t, "idle")
    /\ UNCHANGED <<valid, capacity, gifts, upsets>>

(* signal: by a holder, or by a thread that holds nothing of this semaphore. *)
SignalBy(t, gift) ==
    /\ valid
    /\ count' = count - 1
    /\ waiting' = IF waiting = << >> THEN << >> ELSE Tail(waiting)
    /\ use' = WakeFirst([use EXCEPT ![t] = "idle"])
    /\ gifts' = gifts + gift
    /\ UNCHANGED <<valid, capacity, upsets>>

Signal(t) == use[t] = "holding" /\ SignalBy(t, 0)
Gift(t) == use[t] \in {"idle", "orphan"} /\ gifts < MaxGifts /\ SignalBy(t, 1)

(* signal on a slot that is free. *)
SignalRefused(t) ==
    /\ ~valid
    /\ use[t] = "orphan"
    /\ Becomes(t, "idle")
    /\ UNCHANGED <<valid, capacity, count, waiting, gifts, upsets>>

(* A peer resumes a thread in its wait, or ends it: its link stays. *)
Upset(t) ==
    /\ upsets < MaxUpsets
    /\ use[t] = "asleep"
    /\ Becomes(t, "woken") \/ Becomes(t, "dead")
    /\ upsets' = upsets + 1
    /\ UNCHANGED <<valid, capacity, count, waiting, gifts>>

SemaphoreNext ==
    \/ \E c \in Capacities : Create(c)
    \/ Destroy
    \/ \E t \in Threads :
        Wait(t) \/ Enter(t) \/ Signal(t) \/ Gift(t) \/ SignalRefused(t) \/ Upset(t)

SemaphoreSpec == SemaphoreInit /\ [][SemaphoreNext]_semaphoreVars

(* A thread set running runs, and a holder signals when it is done. *)
SemaphoreFairness == \A t \in Threads : WF_semaphoreVars(Enter(t)) /\ WF_semaphoreVars(Signal(t))
-----------------------------------------------------------------------------
SemaphoreTypeOK ==
    /\ valid \in BOOLEAN
    /\ capacity \in Capacities
    /\ count \in Int
    /\ waiting \in Seq(Threads)
    /\ use \in [Threads -> Uses]
    /\ gifts \in 0..MaxGifts
    /\ upsets \in 0..MaxUpsets

(* Every sleeper can be woken: it is on the list of a semaphore that exists, *)
(* where a signal or the destruction finds it, whatever peers do.            *)
SleepersListed == \A t \in In("asleep") : valid /\ t \in Listed

(* The count is exact through overtaking, destruction and reuse of the slot: *)
(* holders, less the signals of those that held nothing. The code tests      *)
(* count with = only, so one lost or doubled step opens or shuts the         *)
(* semaphore for good.                                                       *)
Balance == valid => count = Cardinality(In("holding")) - gifts

(* No signal is lost: while someone sleeps, the places are taken or promised *)
(* to threads already woken. Left alone by peers; a peer that resumes or     *)
(* ends a waiter leaves a link on the list that swallows one signal.         *)
Due == In("woken") \cup In("evicted")
NoLostSignal ==
    upsets = 0 /\ In("asleep") # {} => count + Cardinality(Due) >= capacity

(* A sleeper gets its turn, where holders signal and no peer interferes with *)
(* a waiter. (Capacity 0 has no holders: its sleepers wait for a "GO".)      *)
SleeperServed ==
    \A t \in Threads :
        use[t] = "asleep" /\ capacity > 0 ~> use[t] # "asleep" \/ upsets # 0
-----------------------------------------------------------------------------
(* What the proofs need beside these: left alone, the list holds each       *)
(* sleeper once and nobody else; a free slot has no holders.                *)
ListExact ==
    upsets = 0 =>
        /\ \A i \in DOMAIN waiting : use[waiting[i]] = "asleep"
        /\ \A i, j \in DOMAIN waiting : waiting[i] = waiting[j] => i = j

FreeSlotUnheld == ~valid => In("holding") = {}

SemaphoreIInv ==
    /\ SemaphoreTypeOK
    /\ SleepersListed
    /\ Balance
    /\ NoLostSignal
    /\ ListExact
    /\ FreeSlotUnheld
=============================================================================
