------------------------------- MODULE RWLock -------------------------------
(***************************************************************************)
(* The reader-writer lock of the uniprocessor kernel (old_kernel/rwlock.c) *)
(* under its clients. Every attempt runs with interrupts disabled, so it is *)
(* one step; between two attempts the caller yields the processor. A client *)
(* is one request for the lock: a thread that nests two calls is two        *)
(* clients (ProcessTable looks at that case).                               *)
(***************************************************************************)
EXTENDS RWLockOps, FiniteSets

CONSTANT Clients

ASSUME ClientsFinite == IsFiniteSet(Clients)

VARIABLES
    lock,       \* the struct rwlock
    pc          \* where each client is in its use of the lock

vars == <<lock, pc>>

States == {"idle", "wantRead", "wantWrite", "reading", "writing"}

Init ==
    /\ lock = FreeLock
    /\ pc = [c \in Clients |-> "idle"]

At(c, s) == pc[c] = s
Goto(c, s) == pc' = [pc EXCEPT ![c] = s]

(* A client calls rwlock_get_read_access or rwlock_get_write_access. *)
Call(c) ==
    /\ At(c, "idle")
    /\ \/ Goto(c, "wantRead")
       \/ Goto(c, "wantWrite")
    /\ UNCHANGED lock

(* The granted round of the loop of rwlock_get_read_access. A denied round *)
(* changes nothing and yields.                                             *)
GetRead(c) ==
    /\ At(c, "wantRead")
    /\ ReadGranted(lock)
    /\ lock' = TakeRead(lock)
    /\ Goto(c, "reading")

(* The granted round of the loop of rwlock_get_write_access. *)
GetWrite(c) ==
    /\ At(c, "wantWrite")
    /\ WriteGranted(lock)
    /\ lock' = TakeWrite(lock)
    /\ Goto(c, "writing")

(* Its denied round: ask for the readers to hold off, and yield. *)
DenyWrite(c) ==
    /\ At(c, "wantWrite")
    /\ ~WriteGranted(lock)
    /\ lock' = AskWrite(lock)
    /\ UNCHANGED pc

(* rwlock_release, called by a holder. *)
Drop(c) ==
    /\ At(c, "reading") \/ At(c, "writing")
    /\ lock' = Release(lock)
    /\ Goto(c, "idle")

Next == \E c \in Clients :
            Call(c) \/ GetRead(c) \/ GetWrite(c) \/ DenyWrite(c) \/ Drop(c)

Spec == Init /\ [][Next]_vars

(* The run queue is cyclic, so a client inside a call is resumed again and *)
(* again: each of its rounds is weakly fair. A holder gives the lock back. *)
(* Nobody has to call.                                                     *)
Fairness == \A c \in Clients :
    /\ WF_vars(GetRead(c))
    /\ WF_vars(GetWrite(c) \/ DenyWrite(c))
    /\ WF_vars(Drop(c))

FairSpec == Spec /\ Fairness
-----------------------------------------------------------------------------
Readers == {c \in Clients : At(c, "reading")}
Writers == {c \in Clients : At(c, "writing")}

TypeOK ==
    /\ lock \in LockType
    /\ pc \in [Clients -> States]

(* The counters of struct rwlock are the numbers of holders, so a release  *)
(* that cannot tell its caller from another still drops the right one.     *)
CountsMatchHolders ==
    /\ lock.readers = Cardinality(Readers)
    /\ lock.writers = Cardinality(Writers)

(* A writer is alone with what the lock protects. *)
Exclusion ==
    \A w \in Writers : Readers = {} /\ Writers = {w}

(* The flag that keeps new readers out never stays up without a writer to  *)
(* take it down: if it did, no reader would get in again.                  *)
RequestHasOwner ==
    lock.request => \E c \in Clients : At(c, "wantWrite") \/ At(c, "writing")

(* What the proofs of Exclusion and of the refinement rest on. *)
IInv == TypeOK /\ CountsMatchHolders /\ Exclusion

(* A writer that waits is not starved by readers, however many come and go: *)
(* some writer gets in. (Which one is left to chance, and readers may wait  *)
(* for ever behind writers that follow one another.)                        *)
WriterGetsIn ==
    \A c \in Clients : At(c, "wantWrite") ~> Writers # {}

RW == INSTANCE ReadersWriters WITH reading <- Readers, writing <- Writers

(* The lock implements the abstract readers and writers. *)
Implements == RW!Spec
=============================================================================
