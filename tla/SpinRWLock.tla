----------------------------- MODULE SpinRWLock -----------------------------
(***************************************************************************)
(* The reader-writer lock of the SMP kernel (kernel/rwlock.c): the same    *)
(* lock, each attempt and each release now a section under a test-and-set  *)
(* spinlock that clients on other processors compete for. Taking the       *)
(* spinlock, testing the counters, each change of the lock and giving the  *)
(* spinlock back are separate steps; the module shows that they cannot be  *)
(* told from the single steps of RWLock.                                   *)
(***************************************************************************)
EXTENDS RWLockOps, FiniteSets

CONSTANT SpinClients

ASSUME SpinClientsFinite == IsFiniteSet(SpinClients)

VARIABLES
    word,       \* the counters and the flag of struct rwlock
    spin,       \* bit 0 of its spinlock word
    place       \* where each client is

spinVars == <<word, spin, place>>

(* From each place where acquire_spinlock is called to the section behind  *)
(* it, and from the end of each section to what follows release_spinlock:  *)
(* a miss goes round the loop again.                                       *)
Inside(s) ==
    CASE s = "wantRead"  -> "testRead"
      [] s = "wantWrite" -> "testWrite"
      [] s = "exitRead"  -> "testExitRead"
      [] s = "exitWrite" -> "testExitWrite"

Outside(s) ==
    CASE s = "gotRead"   -> "reading"
      [] s = "missRead"  -> "wantRead"
      [] s = "gotWrite"  -> "writing"
      [] s = "missWrite" -> "wantWrite"
      [] s = "exited"    -> "idle"

Spinning == {"wantRead", "wantWrite", "exitRead", "exitWrite"}
Entered  == {"testRead", "addRead", "testWrite", "addWrite", "ask",
             "testExitRead", "testExitWrite", "lowerRead", "lowerWrite",
             "clearRead", "clearWrite", "zero"}
Leaving  == {"gotRead", "missRead", "gotWrite", "missWrite", "exited"}
SpinStates == Spinning \cup Entered \cup Leaving \cup {"idle", "reading", "writing"}

SpinInit ==
    /\ word = FreeLock
    /\ spin = 0
    /\ place = [c \in SpinClients |-> "idle"]

SpinAt(c, s) == place[c] = s
SpinGoto(c, s) == place' = [place EXCEPT ![c] = s]

(* A client calls rwlock_get_read_access or rwlock_get_write_access, or a  *)
(* holder calls rwlock_release.                                            *)
SpinCall(c) ==
    /\ \/ SpinAt(c, "idle") /\ (SpinGoto(c, "wantRead") \/ SpinGoto(c, "wantWrite"))
       \/ SpinAt(c, "reading") /\ SpinGoto(c, "exitRead")
       \/ SpinAt(c, "writing") /\ SpinGoto(c, "exitWrite")
    /\ UNCHANGED <<word, spin>>

(* Faulty variant: taking a set bit. *)
AcquireSpinBlind(c) ==
    /\ place[c] \in Spinning
    /\ spin' = 1
    /\ SpinGoto(c, Inside(place[c]))
    /\ UNCHANGED word

(* The bit-test-and-set of acquire_spinlock that finds the bit clear. *)
AcquireSpin(c) ==
    /\ place[c] \in Spinning
    /\ spin = 0
    /\ spin' = 1
    /\ SpinGoto(c, Inside(place[c]))
    /\ UNCHANGED word

(* In a section the counters are tested, and changed by later instructions. *)
Test(c) ==
    /\ \/ SpinAt(c, "testRead") /\ SpinGoto(c, IF ReadGranted(word) THEN "addRead" ELSE "missRead")
       \/ SpinAt(c, "testWrite") /\ SpinGoto(c, IF WriteGranted(word) THEN "addWrite" ELSE "ask")
       \/ SpinAt(c, "testExitRead") /\ SpinGoto(c, IF word.writers # 0 THEN "clearRead" ELSE "lowerRead")
       \/ SpinAt(c, "testExitWrite") /\ SpinGoto(c, IF word.writers # 0 THEN "clearWrite" ELSE "lowerWrite")
    /\ UNCHANGED <<word, spin>>

AddRead(c) ==
    /\ SpinAt(c, "addRead")
    /\ word' = TakeRead(word)
    /\ SpinGoto(c, "gotRead")
    /\ UNCHANGED spin

AddWrite(c) ==
    /\ SpinAt(c, "addWrite")
    /\ word' = TakeWrite(word)
    /\ SpinGoto(c, "gotWrite")
    /\ UNCHANGED spin

Ask(c) ==
    /\ SpinAt(c, "ask")
    /\ word' = AskWrite(word)
    /\ SpinGoto(c, "missWrite")
    /\ UNCHANGED spin

(* rwlock_release, by the test, whatever its caller holds: a reader less;   *)
(* or the request and then the writer.                                      *)
Lower(c) ==
    /\ place[c] \in {"lowerRead", "lowerWrite"}
    /\ word' = [word EXCEPT !.readers = @ - 1]
    /\ SpinGoto(c, "exited")
    /\ UNCHANGED spin

WithoutRequest(l) == [readers |-> l.readers, writers |-> l.writers, request |-> FALSE]
WithoutWriter(l) == [readers |-> l.readers, writers |-> 0, request |-> l.request]

Clear(c) ==
    /\ place[c] \in {"clearRead", "clearWrite"}
    /\ word' = WithoutRequest(word)
    /\ SpinGoto(c, "zero")
    /\ UNCHANGED spin

Zero(c) ==
    /\ SpinAt(c, "zero")
    /\ word' = WithoutWriter(word)
    /\ SpinGoto(c, "exited")
    /\ UNCHANGED spin

(* release_spinlock *)
ReleaseSpin(c) ==
    /\ place[c] \in Leaving
    /\ spin' = 0
    /\ SpinGoto(c, Outside(place[c]))
    /\ UNCHANGED word

SpinNext == \E c \in SpinClients :
    \/ SpinCall(c) \/ AcquireSpin(c) \/ ReleaseSpin(c)
    \/ Test(c) \/ AddRead(c) \/ AddWrite(c) \/ Ask(c)
    \/ Lower(c) \/ Clear(c) \/ Zero(c)

SpinSpec == SpinInit /\ [][SpinNext]_spinVars
-----------------------------------------------------------------------------
(* Clients between acquire_spinlock and release_spinlock. *)
InSection(c) == place[c] \in Entered \cup Leaving

SpinTypeOK ==
    /\ word \in LockType
    /\ spin \in {0, 1}
    /\ place \in [SpinClients -> SpinStates]

(* At most one client is in a section, and the bit is set as long as one   *)
(* is: no path out of a section forgets release_spinlock, none gives back  *)
(* a spinlock it has not taken.                                            *)
SpinMutex ==
    /\ \A c, d \in SpinClients : InSection(c) /\ InSection(d) => c = d
    /\ spin = 1 <=> \E c \in SpinClients : InSection(c)

(* What a test has found still holds when its section acts on it. *)
FoundHolds(c) ==
    /\ SpinAt(c, "addRead") => ReadGranted(word)
    /\ SpinAt(c, "addWrite") => WriteGranted(word)
    /\ SpinAt(c, "ask") => ~WriteGranted(word)
    /\ place[c] \in {"lowerRead", "lowerWrite"} => word.writers = 0
    /\ place[c] \in {"clearRead", "clearWrite"} => word.writers # 0
    /\ SpinAt(c, "zero") => ~word.request

SpinIInv == SpinTypeOK /\ SpinMutex /\ \A c \in SpinClients : FoundHolds(c)

(* The holder's view of each place: a client holds the lock from the moment *)
(* a counter is changed inside the section until the moment the lock is     *)
(* changed back.                                                            *)
Abs(s) ==
    CASE s \in {"wantRead", "testRead", "addRead", "missRead"} -> "wantRead"
      [] s \in {"wantWrite", "testWrite", "addWrite", "ask", "missWrite"} -> "wantWrite"
      [] s \in {"gotRead", "reading", "exitRead", "testExitRead", "lowerRead", "clearRead"} -> "reading"
      [] s \in {"gotWrite", "writing", "exitWrite", "testExitWrite", "lowerWrite", "clearWrite"} -> "writing"
      [] s \in {"idle", "zero", "exited"} -> "idle"

(* A release that has cleared the request has the writer still counted. *)
Seen == IF \E c \in SpinClients : SpinAt(c, "zero") THEN WithoutWriter(word) ELSE word

RL == INSTANCE RWLock WITH Clients <- SpinClients, lock <- Seen, pc <- [c \in SpinClients |-> Abs(place[c])]

(* Clients on several processors that share one spinlock see the lock of   *)
(* the uniprocessor kernel, step for step.                                 *)
SpinImplements == RL!Spec
=============================================================================
