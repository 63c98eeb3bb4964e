----------------------------- MODULE RWLockOps -----------------------------
(***************************************************************************)
(* The reader-writer lock of both kernels as data: struct rwlock without   *)
(* its spinlock word, and what one attempt of each call does to it.        *)
(* rwlock_get_*_access run these attempts in a loop until one is granted;  *)
(* the loop, and who may run between two attempts, belong to the modules   *)
(* that use the lock (RWLock, SpinRWLock, ProcessTable).                   *)
(***************************************************************************)
EXTENDS Integers

(* struct rwlock: the two counters and the flag a denied writer raises.    *)
LockType == [readers : Int, writers : Nat, request : BOOLEAN]

(* init_rwlock *)
FreeLock == [readers |-> 0, writers |-> 0, request |-> FALSE]

(* Faulty variants: a release that leaves the request up, a reader that    *)
(* overlooks requests, one that overlooks writers.                         *)
ReleaseKeepsRequest(l) ==
    IF l.writers # 0 THEN [l EXCEPT !.writers = 0]
                     ELSE [l EXCEPT !.readers = @ - 1]
ReadGrantedDespiteRequest(l) == l.writers = 0
ReadGrantedBesideWriter(l) == ~l.request

(* The tests of the two acquisition loops. *)
ReadGranted(l) == l.writers = 0 /\ ~l.request
WriteGranted(l) == l.readers = 0 /\ l.writers = 0

(* What a granted attempt leaves behind. A granted writer leaves the       *)
(* request flag as it is.                                                  *)
TakeRead(l) == [l EXCEPT !.readers = @ + 1]
TakeWrite(l) == [l EXCEPT !.writers = @ + 1]

(* A denied writer raises the flag; a denied reader changes nothing. *)
AskWrite(l) == [l EXCEPT !.request = TRUE]

(* rwlock_release is told nothing of the caller: if a writer is counted it *)
(* is the writer's release, which also clears every writer's request.      *)
Release(l) ==
    IF l.writers # 0
    THEN [readers |-> l.readers, writers |-> 0, request |-> FALSE]
    ELSE [l EXCEPT !.readers = @ - 1]
=============================================================================
