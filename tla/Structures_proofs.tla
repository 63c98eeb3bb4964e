------------------------- MODULE Structures_proofs -------------------------
(***************************************************************************)
(* What holds of the structures that other parts are built on, for any     *)
(* clients, threads, capacities and sizes of memory: the reader-writer     *)
(* lock of the uniprocessor kernel, the same lock with the spinlock of the *)
(* multiprocessor kernel, a semaphore, the allocator of pages, the pages   *)
(* of a port's pulses, and the threads of a process.                       *)
(***************************************************************************)
EXTENDS RWLock, SpinRWLock, Semaphores, PhysicalPages, PulsePages, ThreadLists,
        FiniteSetTheorems, SequenceTheorems, WellFoundedInduction,
        NaturalsInduction, TLAPS

-----------------------------------------------------------------------------
(* The lock: its counters count its holders, a writer is alone, and it      *)
(* implements the abstract readers and writers.                             *)

(* Both sets of holders are finite, so their cardinalities are numbers. *)
LEMMA HoldersFinite ==
    /\ IsFiniteSet(Readers) /\ Cardinality(Readers) \in Nat
    /\ IsFiniteSet(Writers) /\ Cardinality(Writers) \in Nat
<1>1. Readers \subseteq Clients /\ Writers \subseteq Clients
  BY DEF Readers, Writers
<1>2. QED
  BY <1>1, ClientsFinite, FS_Subset, FS_CardinalityType

(* A grant to a reader puts exactly that client among the readers. *)
LEMMA ReaderJoins ==
    ASSUME IInv, NEW c \in Clients, GetRead(c)
    PROVE  /\ Readers' = Readers \cup {c} /\ c \notin Readers
           /\ Writers' = Writers /\ Writers = {}
<1>1. Readers' = Readers \cup {c} /\ c \notin Readers /\ Writers' = Writers
  BY DEF IInv, TypeOK, GetRead, Goto, At, Readers, Writers, States
<1>2. Cardinality(Writers) = 0
  BY DEF IInv, CountsMatchHolders, GetRead, ReadGranted
<1>3. Writers = {}
  BY <1>2, HoldersFinite, FS_EmptySet
<1>4. QED
  BY <1>1, <1>3

(* A grant to a writer finds no holder and leaves exactly that writer. *)
LEMMA WriterJoins ==
    ASSUME IInv, NEW c \in Clients, GetWrite(c)
    PROVE  /\ Readers' = {} /\ Readers = {}
           /\ Writers' = {c} /\ Writers = {}
<1>1. Cardinality(Readers) = 0 /\ Cardinality(Writers) = 0
  BY DEF IInv, CountsMatchHolders, GetWrite, WriteGranted
<1>2. Readers = {} /\ Writers = {}
  BY <1>1, HoldersFinite, FS_EmptySet
<1>3. Readers' = Readers /\ Writers' = Writers \cup {c}
  BY DEF IInv, TypeOK, GetWrite, Goto, At, Readers, Writers, States
<1>4. QED
  BY <1>2, <1>3

(* A release takes exactly the caller out of the holders of its mode. *)
LEMMA HolderLeaves ==
    ASSUME IInv, NEW c \in Clients, Drop(c)
    PROVE  \/ /\ c \in Readers /\ Readers' = Readers \ {c}
              /\ Writers' = {} /\ Writers = {}
           \/ /\ c \in Writers /\ Writers' = {} /\ Writers = {c}
              /\ Readers' = {} /\ Readers = {}
<1>1. CASE At(c, "reading")
  <2>1. c \in Readers /\ Readers' = Readers \ {c} /\ Writers' = Writers
    BY <1>1 DEF IInv, TypeOK, Drop, Goto, At, Readers, Writers, States
  <2>2. Writers = {}
    BY <2>1 DEF IInv, Exclusion
  <2>3. QED
    BY <2>1, <2>2
<1>2. CASE At(c, "writing")
  <2>1. c \in Writers /\ Readers' = Readers /\ Writers' = Writers \ {c}
    BY <1>2 DEF IInv, TypeOK, Drop, Goto, At, Readers, Writers, States
  <2>2. Writers = {c} /\ Readers = {}
    BY <2>1 DEF IInv, Exclusion
  <2>3. QED
    BY <2>1, <2>2
<1>3. QED
  BY <1>1, <1>2 DEF Drop

LEMMA InitIInv == Init => IInv
<1> SUFFICES ASSUME Init PROVE IInv
  OBVIOUS
<1>1. TypeOK
  BY DEF Init, TypeOK, LockType, FreeLock, States
<1>2. Readers = {} /\ Writers = {}
  BY DEF Init, Readers, Writers, At
<1>3. CountsMatchHolders
  BY <1>2, FS_EmptySet DEF Init, FreeLock, CountsMatchHolders
<1>4. Exclusion
  BY <1>2 DEF Exclusion
<1>5. QED
  BY <1>1, <1>3, <1>4 DEF IInv

LEMMA NextIInv == IInv /\ [Next]_vars => IInv'
<1> SUFFICES ASSUME IInv, [Next]_vars PROVE IInv'
  OBVIOUS
<1>1. ASSUME NEW c \in Clients, Call(c) PROVE IInv'
  <2>1. TypeOK'
    BY <1>1 DEF IInv, TypeOK, Call, Goto, At, States
  <2>2. Readers' = Readers /\ Writers' = Writers
    BY <1>1 DEF IInv, TypeOK, Call, Goto, At, Readers, Writers, States
  <2>3. QED
    BY <1>1, <2>1, <2>2 DEF IInv, Call, CountsMatchHolders, Exclusion
<1>2. ASSUME NEW c \in Clients, GetRead(c) PROVE IInv'
  <2>1. TypeOK'
    BY <1>2 DEF IInv, TypeOK, LockType, GetRead, TakeRead, Goto, At, States
  <2>2. Readers' = Readers \cup {c} /\ c \notin Readers
        /\ Writers' = Writers /\ Writers = {}
    BY <1>2, ReaderJoins
  <2>3. Cardinality(Readers') = Cardinality(Readers) + 1
    BY <2>2, HoldersFinite, FS_AddElement
  <2>4. lock'.readers = lock.readers + 1 /\ lock'.writers = lock.writers
    BY <1>2 DEF IInv, TypeOK, LockType, GetRead, TakeRead
  <2>5. CountsMatchHolders'
    BY <2>2, <2>3, <2>4 DEF IInv, CountsMatchHolders
  <2>6. Exclusion'
    BY <2>2 DEF Exclusion
  <2>7. QED
    BY <2>1, <2>5, <2>6 DEF IInv
<1>3. ASSUME NEW c \in Clients, GetWrite(c) PROVE IInv'
  <2>1. TypeOK'
    BY <1>3 DEF IInv, TypeOK, LockType, GetWrite, TakeWrite, Goto, At, States
  <2>2. Readers' = {} /\ Readers = {} /\ Writers' = {c} /\ Writers = {}
    BY <1>3, WriterJoins
  <2>3. Cardinality(Readers') = 0 /\ Cardinality(Writers') = 1
    BY <2>2, FS_EmptySet, FS_Singleton
  <2>4. lock'.readers = 0 /\ lock'.writers = 1
    BY <1>3 DEF IInv, TypeOK, LockType, GetWrite, WriteGranted, TakeWrite
  <2>5. CountsMatchHolders'
    BY <2>3, <2>4 DEF CountsMatchHolders
  <2>6. Exclusion'
    BY <2>2 DEF Exclusion
  <2>7. QED
    BY <2>1, <2>5, <2>6 DEF IInv
<1>4. ASSUME NEW c \in Clients, DenyWrite(c) PROVE IInv'
  <2>1. TypeOK' /\ lock'.readers = lock.readers /\ lock'.writers = lock.writers
    BY <1>4 DEF IInv, TypeOK, LockType, DenyWrite, AskWrite
  <2>2. Readers' = Readers /\ Writers' = Writers
    BY <1>4 DEF DenyWrite, Readers, Writers, At
  <2>3. QED
    BY <2>1, <2>2 DEF IInv, CountsMatchHolders, Exclusion
<1>5. ASSUME NEW c \in Clients, Drop(c) PROVE IInv'
  <2>1. TypeOK'
    <3>1. lock' \in LockType
      <4>1. CASE lock.writers # 0
        BY <1>5, <4>1 DEF IInv, TypeOK, LockType, Drop, Release
      <4>2. CASE lock.writers = 0
        BY <1>5, <4>2 DEF IInv, TypeOK, LockType, Drop, Release
      <4>3. QED
        BY <4>1, <4>2
    <3>2. pc' \in [Clients -> States]
      BY <1>5 DEF IInv, TypeOK, Drop, Goto, States
    <3>3. QED
      BY <3>1, <3>2 DEF TypeOK
  <2>2. CASE /\ c \in Readers /\ Readers' = Readers \ {c}
             /\ Writers' = {} /\ Writers = {}
    <3>1. Cardinality(Readers') = Cardinality(Readers) - 1
      BY <2>2, HoldersFinite, FS_RemoveElement
    <3>2. lock.writers = 0
      BY <2>2, FS_EmptySet DEF IInv, CountsMatchHolders
    <3>3. lock'.readers = lock.readers - 1 /\ lock'.writers = 0
      BY <1>5, <3>2 DEF IInv, TypeOK, LockType, Drop, Release
    <3>4. QED
      BY <2>1, <2>2, <3>1, <3>3, FS_EmptySet
      DEF IInv, CountsMatchHolders, Exclusion
  <2>3. CASE /\ c \in Writers /\ Writers' = {} /\ Writers = {c}
             /\ Readers' = {} /\ Readers = {}
    <3>1. lock.writers = 1 /\ lock.readers = 0
      BY <2>3, FS_EmptySet, FS_Singleton DEF IInv, CountsMatchHolders
    <3>2. lock'.writers = 0 /\ lock'.readers = 0
      BY <1>5, <3>1 DEF IInv, TypeOK, LockType, Drop, Release
    <3>3. QED
      BY <2>1, <2>3, <3>2, FS_EmptySet
      DEF IInv, CountsMatchHolders, Exclusion
  <2>4. QED
    BY <1>5, <2>2, <2>3, HolderLeaves
<1>6. CASE UNCHANGED vars
  <2>1. Readers' = Readers /\ Writers' = Writers
    BY <1>6 DEF vars, Readers, Writers, At
  <2>2. QED
    BY <1>6, <2>1 DEF IInv, TypeOK, CountsMatchHolders, Exclusion, vars
<1>7. QED
  BY <1>1, <1>2, <1>3, <1>4, <1>5, <1>6 DEF Next

(* Every reachable state satisfies the inductive invariant. *)
LEMMA Invariance == Spec => []IInv
<1>1. QED
  BY InitIInv, NextIInv, PTL DEF Spec

(* The lock record and the places of the clients keep their types: the     *)
(* counters of rwlock.c stay integers in range whatever the clients do.    *)
THEOREM TypeCorrect == Spec => []TypeOK
<1>1. IInv => TypeOK
  BY DEF IInv
<1>2. QED
  BY <1>1, Invariance, PTL

(* The counters of struct rwlock always equal the numbers of holders. *)
THEOREM CountsCorrect == Spec => []CountsMatchHolders
<1>1. IInv => CountsMatchHolders
  BY DEF IInv
<1>2. QED
  BY <1>1, Invariance, PTL

(* A writer never shares the lock with a reader or with another writer. *)
THEOREM ExclusionHolds == Spec => []Exclusion
<1>1. IInv => Exclusion
  BY DEF IInv
<1>2. QED
  BY <1>1, Invariance, PTL

(* No step leaves the request flag up with nobody to take it down: a denied *)
(* writer goes on asking, a granted one leaves by a release that clears it. *)
LEMMA RequestKeepsOwner ==
    IInv /\ RequestHasOwner /\ [Next]_vars => RequestHasOwner'
<1> SUFFICES ASSUME IInv, RequestHasOwner, [Next]_vars, lock'.request
             PROVE  \E o \in Clients : At(o, "wantWrite")' \/ At(o, "writing")'
  BY DEF RequestHasOwner
<1> USE DEF At, Goto
<1>1. ASSUME NEW c \in Clients, DenyWrite(c)
      PROVE  At(c, "wantWrite")'
  BY <1>1 DEF DenyWrite
<1>2. ASSUME NEW c \in Clients, Call(c) \/ GetRead(c) \/ GetWrite(c)
      PROVE  \E o \in Clients : At(o, "wantWrite")' \/ At(o, "writing")'
  <2>1. lock.request
    BY <1>2 DEF IInv, TypeOK, LockType, Call, GetRead, GetWrite, TakeRead, TakeWrite
  <2>2. PICK o \in Clients : At(o, "wantWrite") \/ At(o, "writing")
    BY <2>1 DEF RequestHasOwner
  <2>3. At(o, "wantWrite")' \/ At(o, "writing")'
    BY <1>2, <2>2 DEF IInv, TypeOK, Call, GetRead, GetWrite
  <2>4. QED
    BY <2>3
<1>3. ASSUME NEW c \in Clients, Drop(c)
      PROVE  \E o \in Clients : At(o, "wantWrite")' \/ At(o, "writing")'
  <2>1. lock.writers = 0 /\ lock.request
    <3>1. lock.writers # 0 => ~Release(lock).request
      BY DEF Release
    <3>2. lock.writers = 0 => Release(lock).request = lock.request
      BY DEF IInv, TypeOK, LockType, Release
    <3>3. QED
      BY <1>3, <3>1, <3>2 DEF Drop
  <2>2. At(c, "reading")
    <3>1. Writers = {}
      BY <2>1, HoldersFinite, FS_EmptySet DEF IInv, CountsMatchHolders
    <3>2. QED
      BY <1>3, <3>1 DEF Drop, Writers
  <2>3. PICK o \in Clients : At(o, "wantWrite") \/ At(o, "writing")
    BY <2>1 DEF RequestHasOwner
  <2>4. At(o, "wantWrite")' \/ At(o, "writing")'
    BY <1>3, <2>2, <2>3 DEF IInv, TypeOK, Drop
  <2>5. QED
    BY <2>4
<1>4. CASE UNCHANGED vars
  BY <1>4 DEF vars, RequestHasOwner
<1>5. QED
  BY <1>1, <1>2, <1>3, <1>4 DEF Next

(* The flag that holds readers off never stays up without a writer that     *)
(* waits or writes, for any finite set of clients.                          *)
THEOREM RequestOwned == Spec => []RequestHasOwner
<1>1. Init => RequestHasOwner
  BY DEF Init, FreeLock, RequestHasOwner
<1>2. QED
  BY <1>1, RequestKeepsOwner, Invariance, PTL DEF Spec

(* The initial states of the lock are initial states of the abstract one. *)
LEMMA InitMaps == Init => RW!Init
BY DEF Init, RW!Init, Readers, Writers, At

(* A step of the lock begins or ends one hold, or leaves the holders alone. *)
LEMMA StepMaps == IInv /\ [Next]_vars => [RW!Next]_RW!rwvars
<1> SUFFICES ASSUME IInv, [Next]_vars PROVE [RW!Next]_RW!rwvars
  OBVIOUS
<1>1. ASSUME NEW c \in Clients, Call(c) \/ DenyWrite(c)
      PROVE  UNCHANGED RW!rwvars
  BY <1>1 DEF IInv, TypeOK, Call, DenyWrite, Goto, At, Readers, Writers,
              States, RW!rwvars
<1>2. ASSUME NEW c \in Clients, GetRead(c) PROVE RW!BeginRead(c)
  BY <1>2, ReaderJoins DEF RW!BeginRead
<1>3. ASSUME NEW c \in Clients, GetWrite(c) PROVE RW!BeginWrite(c)
  BY <1>3, WriterJoins DEF RW!BeginWrite
<1>4. ASSUME NEW c \in Clients, Drop(c) PROVE RW!EndRead(c) \/ RW!EndWrite(c)
  BY <1>4, HolderLeaves DEF RW!EndRead, RW!EndWrite
<1>5. CASE UNCHANGED vars
  BY <1>5 DEF vars, Readers, Writers, At, RW!rwvars
<1>6. QED
  BY <1>1, <1>2, <1>3, <1>4, <1>5 DEF Next, RW!Next

(* rwlock.c implements the abstract readers and writers. *)
THEOREM LockImplements == Spec => Implements
<1>1. QED
  BY InitMaps, StepMaps, Invariance, PTL DEF Spec, Implements, RW!Spec
-----------------------------------------------------------------------------
(* The lock with its spinlock: each section is one step of the lock above.  *)

(* Every change of the lock yields a lock. *)
LEMMA OpsType ==
    ASSUME NEW l \in LockType
    PROVE  /\ TakeRead(l) \in LockType /\ TakeWrite(l) \in LockType
           /\ AskWrite(l) \in LockType
           /\ [l EXCEPT !.readers = @ - 1] \in LockType
           /\ WithoutRequest(l) \in LockType /\ WithoutWriter(l) \in LockType
<1>1. TakeRead(l) \in LockType
  BY DEF LockType, TakeRead
<1>2. TakeWrite(l) \in LockType
  BY DEF LockType, TakeWrite
<1>3. AskWrite(l) \in LockType
  BY DEF LockType, AskWrite
<1>4. [l EXCEPT !.readers = @ - 1] \in LockType
  BY DEF LockType
<1>5. WithoutRequest(l) \in LockType
  BY DEF LockType, WithoutRequest
<1>6. WithoutWriter(l) \in LockType
  BY DEF LockType, WithoutWriter
<1>7. QED
  BY <1>1, <1>2, <1>3, <1>4, <1>5, <1>6

LEMMA SpinInitIInv == SpinInit => SpinIInv
BY DEF SpinInit, SpinIInv, SpinTypeOK, SpinMutex, FoundHolds, SpinAt, InSection, LockType,
       FreeLock, SpinStates, Spinning, Entered, Leaving

(* Each step keeps the clients at known places and the lock a lock. *)
LEMMA NextTypeOK == SpinTypeOK /\ [SpinNext]_spinVars => SpinTypeOK'
<1> SUFFICES ASSUME SpinTypeOK, [SpinNext]_spinVars PROVE SpinTypeOK'
  OBVIOUS
<1> USE DEF SpinTypeOK, SpinAt, SpinGoto, SpinStates, Spinning, Entered, Leaving
<1>1. ASSUME NEW c \in SpinClients, SpinCall(c) PROVE SpinTypeOK'
  BY <1>1 DEF SpinCall
<1>2. ASSUME NEW c \in SpinClients, AcquireSpin(c) PROVE SpinTypeOK'
  BY <1>2 DEF AcquireSpin, Inside
<1>3. ASSUME NEW c \in SpinClients, Test(c) PROVE SpinTypeOK'
  BY <1>3 DEF Test
<1>4. ASSUME NEW c \in SpinClients, AddRead(c) \/ AddWrite(c) \/ Ask(c) PROVE SpinTypeOK'
  BY <1>4, OpsType DEF AddRead, AddWrite, Ask
<1>5. ASSUME NEW c \in SpinClients, Lower(c) \/ Clear(c) \/ Zero(c) PROVE SpinTypeOK'
  BY <1>5, OpsType DEF Lower, Clear, Zero
<1>6. ASSUME NEW c \in SpinClients, ReleaseSpin(c) PROVE SpinTypeOK'
  BY <1>6 DEF ReleaseSpin, Outside
<1>7. CASE UNCHANGED spinVars
  BY <1>7 DEF spinVars
<1>8. QED
  BY <1>1, <1>2, <1>3, <1>4, <1>5, <1>6, <1>7 DEF SpinNext

(* What a client does inside a section. *)
InsideStep(c) == Test(c) \/ AddRead(c) \/ AddWrite(c) \/ Ask(c)
                 \/ Lower(c) \/ Clear(c) \/ Zero(c)

(* A step inside a section, or away from every section, keeps the bit and  *)
(* who is in a section.                                                    *)
LEMMA SectionKept ==
    ASSUME SpinTypeOK, NEW c \in SpinClients, SpinCall(c) \/ InsideStep(c)
    PROVE  spin' = spin /\ \A d \in SpinClients : InSection(d)' <=> InSection(d)
<1> USE DEF SpinTypeOK, SpinAt, SpinGoto, InSection, Entered, Leaving
<1>1. CASE SpinCall(c)
  BY <1>1 DEF SpinCall
<1>2. CASE Test(c)
  BY <1>2 DEF Test
<1>3. CASE AddRead(c) \/ AddWrite(c) \/ Ask(c)
  BY <1>3 DEF AddRead, AddWrite, Ask
<1>4. CASE Lower(c) \/ Clear(c) \/ Zero(c)
  BY <1>4 DEF Lower, Clear, Zero
<1>5. QED
  BY <1>1, <1>2, <1>3, <1>4 DEF InsideStep

LEMMA MutexKept == SpinIInv /\ [SpinNext]_spinVars => SpinMutex'
<1> SUFFICES ASSUME SpinIInv, [SpinNext]_spinVars PROVE SpinMutex'
  OBVIOUS
<1>1. ASSUME NEW c \in SpinClients, SpinCall(c) \/ InsideStep(c)
      PROVE  SpinMutex'
  BY <1>1, SectionKept DEF SpinIInv, SpinMutex
<1>2. ASSUME NEW c \in SpinClients, AcquireSpin(c) PROVE SpinMutex'
  <2>1. \A d \in SpinClients : ~InSection(d)
    BY <1>2 DEF SpinIInv, SpinMutex, AcquireSpin
  <2>2. \A d \in SpinClients : InSection(d)' <=> d = c
    BY <1>2, <2>1 DEF SpinIInv, SpinTypeOK, AcquireSpin, Inside, SpinGoto, InSection,
                      Spinning, Entered, Leaving
  <2>3. spin' = 1
    BY <1>2 DEF AcquireSpin
  <2>4. QED
    BY <2>2, <2>3 DEF SpinMutex
<1>3. ASSUME NEW c \in SpinClients, ReleaseSpin(c) PROVE SpinMutex'
  <2>1. \A d \in SpinClients : InSection(d) => d = c
    BY <1>3 DEF SpinIInv, SpinMutex, ReleaseSpin, InSection
  <2>2. \A d \in SpinClients : ~InSection(d)'
    BY <1>3, <2>1 DEF SpinIInv, SpinTypeOK, ReleaseSpin, Outside, SpinGoto, InSection,
                      Entered, Leaving
  <2>3. spin' = 0
    BY <1>3 DEF ReleaseSpin
  <2>4. QED
    BY <2>2, <2>3 DEF SpinMutex
<1>4. CASE UNCHANGED spinVars
  BY <1>4 DEF SpinIInv, SpinMutex, InSection, spinVars
<1>5. QED
  BY <1>1, <1>2, <1>3, <1>4 DEF SpinNext, InsideStep

(* Nobody changes the lock between another client's test and its change:   *)
(* both would be in a section.                                             *)
LEMMA FoundKept == SpinIInv /\ [SpinNext]_spinVars => \A d \in SpinClients : FoundHolds(d)'
<1> SUFFICES ASSUME SpinIInv, [SpinNext]_spinVars, NEW d \in SpinClients PROVE FoundHolds(d)'
  OBVIOUS
<1> USE DEF FoundHolds, SpinAt
<1>1. ASSUME NEW c \in SpinClients, c # d, InsideStep(c) PROVE FoundHolds(d)'
  <2>1. ~InSection(d)
    BY <1>1 DEF SpinIInv, SpinMutex, InSection, Entered, InsideStep, Test, AddRead,
                AddWrite, Ask, Lower, Clear, Zero
  <2>2. ~InSection(d)'
    BY <1>1, <2>1, SectionKept DEF SpinIInv
  <2>3. QED
    BY <2>2 DEF InSection, Entered
<1>2. ASSUME Test(d) PROVE FoundHolds(d)'
  BY <1>2 DEF SpinIInv, SpinTypeOK, Test, SpinGoto, ReadGranted, WriteGranted
<1>3. ASSUME AddRead(d) \/ AddWrite(d) \/ Ask(d) PROVE FoundHolds(d)'
  BY <1>3 DEF SpinIInv, SpinTypeOK, AddRead, AddWrite, Ask, SpinGoto
<1>4. ASSUME Lower(d) \/ Clear(d) \/ Zero(d) PROVE FoundHolds(d)'
  BY <1>4 DEF SpinIInv, SpinTypeOK, LockType, Lower, Clear, Zero, SpinGoto, WithoutRequest, WithoutWriter
<1>5. ASSUME NEW c \in SpinClients, SpinCall(c) PROVE FoundHolds(d)'
  BY <1>5 DEF SpinIInv, SpinTypeOK, SpinCall, SpinGoto
<1>6. ASSUME NEW c \in SpinClients, AcquireSpin(c) PROVE FoundHolds(d)'
  BY <1>6 DEF SpinIInv, SpinTypeOK, AcquireSpin, Spinning, Inside, SpinGoto
<1>7. ASSUME NEW c \in SpinClients, ReleaseSpin(c) PROVE FoundHolds(d)'
  BY <1>7 DEF SpinIInv, SpinTypeOK, ReleaseSpin, Leaving, Outside, SpinGoto
<1>8. CASE UNCHANGED spinVars
  BY <1>8 DEF SpinIInv, spinVars
<1>9. QED
  BY <1>1, <1>2, <1>3, <1>4, <1>5, <1>6, <1>7, <1>8 DEF SpinNext, InsideStep

LEMMA SpinNextIInv == SpinIInv /\ [SpinNext]_spinVars => SpinIInv'
BY NextTypeOK, MutexKept, FoundKept DEF SpinIInv

LEMMA SpinInvariance == SpinSpec => []SpinIInv
BY SpinInitIInv, SpinNextIInv, PTL DEF SpinSpec

(* acquire_spinlock and release_spinlock bracket the sections of rwlock.c: *)
(* no two processors are in one, and the bit is set exactly when one is.   *)
THEOREM SpinMutexHolds == SpinSpec => []SpinMutex
<1>1. SpinIInv => SpinMutex
  BY DEF SpinIInv
<1>2. QED
  BY <1>1, SpinInvariance, PTL

(* No client has cleared the request and not yet the writer: the lock is   *)
(* seen as it is.                                                          *)
LEMMA SeenAsIs ==
    ASSUME \A c \in SpinClients : ~SpinAt(c, "zero")
    PROVE  Seen = word
BY DEF Seen

(* Who is in a section is alone there. *)
LEMMA OthersNotAtZero ==
    ASSUME SpinIInv, NEW c \in SpinClients, InSection(c), ~SpinAt(c, "zero")
    PROVE  \A d \in SpinClients : ~SpinAt(d, "zero")
BY DEF SpinIInv, SpinMutex, InSection, Entered, SpinAt

LEMMA SpinInitMaps == SpinInit => RL!Init
<1> SUFFICES ASSUME SpinInit PROVE RL!Init
  OBVIOUS
<1>1. Seen = word
  BY SeenAsIs DEF SpinInit, SpinAt
<1>2. QED
  BY <1>1 DEF SpinInit, RL!Init, Abs, FreeLock, RL!FreeLock

(* A step that moves client c to place s moves its image to Abs(s). *)
LEMMA AbsMoves ==
    ASSUME SpinTypeOK, NEW c \in SpinClients, NEW s, SpinGoto(c, s)
    PROVE  [d \in SpinClients |-> Abs(place[d])]'
             = [[d \in SpinClients |-> Abs(place[d])] EXCEPT ![c] = Abs(s)]
BY DEF SpinTypeOK, SpinGoto

(* ... and leaves the images alone when that is where c's image was. *)
LEMMA AbsStays ==
    ASSUME SpinTypeOK, NEW c \in SpinClients, NEW s, SpinGoto(c, s), Abs(s) = Abs(place[c])
    PROVE  [d \in SpinClients |-> Abs(place[d])]' = [d \in SpinClients |-> Abs(place[d])]
BY DEF SpinTypeOK, SpinGoto

(* A step that keeps the lock and who is about to zero it keeps what is    *)
(* seen; and with the image of the client that moves it is a stutter of    *)
(* RWLock.                                                                 *)
LEMMA Stutters ==
    ASSUME SpinTypeOK, NEW c \in SpinClients, NEW s, SpinGoto(c, s),
           word' = word, Abs(s) = Abs(place[c]), s # "zero", ~SpinAt(c, "zero")
    PROVE  UNCHANGED RL!vars
<1>1. \A d \in SpinClients : SpinAt(d, "zero")' <=> SpinAt(d, "zero")
  BY DEF SpinTypeOK, SpinGoto, SpinAt
<1>2. Seen' = Seen
  BY <1>1 DEF Seen
<1>3. QED
  BY <1>2, AbsStays DEF RL!vars

(* A step inside a section that does not lead to the zeroing changes what  *)
(* is seen as it changes the lock.                                         *)
LEMMA SeenMoves ==
    ASSUME SpinIInv, NEW c \in SpinClients, InSection(c), ~SpinAt(c, "zero"),
           NEW s, SpinGoto(c, s), s # "zero"
    PROVE  Seen = word /\ Seen' = word'
<1>1. \A d \in SpinClients : ~SpinAt(d, "zero") /\ ~SpinAt(d, "zero")'
  BY OthersNotAtZero DEF SpinIInv, SpinTypeOK, SpinGoto, SpinAt
<1>2. QED
  BY <1>1 DEF Seen

LEMMA SpinStepMaps == SpinIInv /\ [SpinNext]_spinVars => [RL!Next]_RL!vars
<1> SUFFICES ASSUME SpinIInv, [SpinNext]_spinVars PROVE [RL!Next]_RL!vars
  OBVIOUS
<1>0. SpinTypeOK
  BY DEF SpinIInv
<1>1. ASSUME NEW c \in SpinClients, SpinCall(c) PROVE [RL!Next]_RL!vars
  <2>1. ASSUME SpinAt(c, "idle"), NEW s \in {"wantRead", "wantWrite"}, SpinGoto(c, s)
        PROVE  RL!Call(c)
    <3>1. \A d \in SpinClients : SpinAt(d, "zero")' <=> SpinAt(d, "zero")
      BY <1>0, <2>1 DEF SpinTypeOK, SpinGoto, SpinAt
    <3>2. Seen' = Seen
      BY <1>1, <3>1 DEF Seen, SpinCall
    <3>3. QED
      BY <1>0, <1>1, <2>1, <3>2, AbsMoves DEF RL!Call, RL!At, RL!Goto, SpinAt, Abs
  <2>2. CASE SpinAt(c, "reading") /\ SpinGoto(c, "exitRead")
    BY <1>0, <1>1, <2>2, Stutters DEF SpinCall, SpinAt, Abs
  <2>3. CASE SpinAt(c, "writing") /\ SpinGoto(c, "exitWrite")
    BY <1>0, <1>1, <2>3, Stutters DEF SpinCall, SpinAt, Abs
  <2>4. QED
    BY <1>1, <2>1, <2>2, <2>3 DEF SpinCall, RL!Next
<1>2. ASSUME NEW c \in SpinClients, AcquireSpin(c) PROVE UNCHANGED RL!vars
  <2>1. Abs(Inside(place[c])) = Abs(place[c]) /\ Inside(place[c]) # "zero" /\ ~SpinAt(c, "zero")
    BY <1>2 DEF AcquireSpin, Spinning, Inside, Abs, SpinAt
  <2>2. QED
    BY <1>0, <1>2, <2>1, Stutters DEF AcquireSpin
<1>3. ASSUME NEW c \in SpinClients, Test(c) PROVE UNCHANGED RL!vars
  <2>1. CASE SpinAt(c, "testRead")
    BY <1>0, <1>3, <2>1, Stutters DEF Test, SpinAt, Abs
  <2>2. CASE SpinAt(c, "testWrite")
    BY <1>0, <1>3, <2>2, Stutters DEF Test, SpinAt, Abs
  <2>3. CASE SpinAt(c, "testExitRead")
    BY <1>0, <1>3, <2>3, Stutters DEF Test, SpinAt, Abs
  <2>4. CASE SpinAt(c, "testExitWrite")
    BY <1>0, <1>3, <2>4, Stutters DEF Test, SpinAt, Abs
  <2>5. QED
    BY <1>3, <2>1, <2>2, <2>3, <2>4 DEF Test
<1>4. ASSUME NEW c \in SpinClients, AddRead(c) PROVE RL!GetRead(c)
  <2>1. Seen = word /\ Seen' = word'
    BY <1>4, SeenMoves DEF AddRead, InSection, Entered, SpinAt
  <2>2. ReadGranted(word)
    BY <1>4 DEF SpinIInv, FoundHolds, AddRead
  <2>3. QED
    BY <1>0, <1>4, <2>1, <2>2, AbsMoves
    DEF AddRead, RL!GetRead, RL!At, RL!Goto, SpinAt, Abs, RL!ReadGranted,
        RL!TakeRead, ReadGranted, TakeRead
<1>5. ASSUME NEW c \in SpinClients, AddWrite(c) PROVE RL!GetWrite(c)
  <2>1. Seen = word /\ Seen' = word'
    BY <1>5, SeenMoves DEF AddWrite, InSection, Entered, SpinAt
  <2>2. WriteGranted(word)
    BY <1>5 DEF SpinIInv, FoundHolds, AddWrite
  <2>3. QED
    BY <1>0, <1>5, <2>1, <2>2, AbsMoves
    DEF AddWrite, RL!GetWrite, RL!At, RL!Goto, SpinAt, Abs, RL!WriteGranted,
        RL!TakeWrite, WriteGranted, TakeWrite
<1>6. ASSUME NEW c \in SpinClients, Ask(c) PROVE RL!DenyWrite(c)
  <2>1. Seen = word /\ Seen' = word'
    BY <1>6, SeenMoves DEF Ask, InSection, Entered, SpinAt
  <2>2. ~WriteGranted(word)
    BY <1>6 DEF SpinIInv, FoundHolds, Ask
  <2>3. [d \in SpinClients |-> Abs(place[d])]' = [d \in SpinClients |-> Abs(place[d])]
    BY <1>0, <1>6, AbsStays DEF Ask, SpinAt, Abs
  <2>4. QED
    BY <1>6, <2>1, <2>2, <2>3
    DEF Ask, RL!DenyWrite, RL!At, SpinAt, Abs, RL!WriteGranted, RL!AskWrite,
        WriteGranted, AskWrite
<1>7. ASSUME NEW c \in SpinClients, Lower(c) PROVE RL!Drop(c)
  <2>1. Seen = word /\ Seen' = word'
    BY <1>7, SeenMoves DEF Lower, InSection, Entered, SpinAt
  <2>2. word.writers = 0
    BY <1>7 DEF SpinIInv, FoundHolds, Lower
  <2>3. QED
    BY <1>0, <1>7, <2>1, <2>2, AbsMoves
    DEF Lower, RL!Drop, RL!At, RL!Goto, SpinAt, Abs, RL!Release
<1>8. ASSUME NEW c \in SpinClients, Clear(c) PROVE RL!Drop(c)
  <2>1. Seen = word
    BY <1>8, OthersNotAtZero, SeenAsIs DEF Clear, InSection, Entered, SpinAt
  <2>2. word.writers # 0
    BY <1>8 DEF SpinIInv, FoundHolds, Clear
  <2>3. SpinAt(c, "zero")'
    BY <1>0, <1>8 DEF Clear, SpinTypeOK, SpinGoto, SpinAt
  <2>4. Seen' = WithoutWriter(WithoutRequest(word))
    BY <1>8, <2>3 DEF Seen, Clear, WithoutWriter
  <2>5. Seen' = RL!Release(Seen)
    BY <2>1, <2>2, <2>4 DEF RL!Release, WithoutWriter, WithoutRequest
  <2>6. QED
    BY <1>0, <1>8, <2>5, AbsMoves DEF Clear, RL!Drop, RL!At, RL!Goto, Abs
<1>9. ASSUME NEW c \in SpinClients, Zero(c) PROVE UNCHANGED RL!vars
  <2>1. Seen = WithoutWriter(word)
    BY <1>9 DEF Zero, Seen
  <2>2. \A d \in SpinClients : ~SpinAt(d, "zero")'
    BY <1>0, <1>9 DEF SpinIInv, SpinMutex, Zero, InSection, Entered, SpinTypeOK, SpinGoto, SpinAt
  <2>3. Seen' = word'
    BY <2>2 DEF Seen
  <2>4. QED
    BY <1>0, <1>9, <2>1, <2>3, AbsStays DEF Zero, SpinAt, Abs, RL!vars
<1>10. ASSUME NEW c \in SpinClients, ReleaseSpin(c) PROVE UNCHANGED RL!vars
  <2>1. Abs(Outside(place[c])) = Abs(place[c]) /\ Outside(place[c]) # "zero" /\ ~SpinAt(c, "zero")
    BY <1>10 DEF ReleaseSpin, Leaving, Outside, Abs, SpinAt
  <2>2. QED
    BY <1>0, <1>10, <2>1, Stutters DEF ReleaseSpin
<1>11. CASE UNCHANGED spinVars
  BY <1>11 DEF spinVars, Seen, SpinAt, RL!vars
<1>12. QED
  BY <1>1, <1>2, <1>3, <1>4, <1>5, <1>6, <1>7, <1>8, <1>9, <1>10, <1>11
  DEF SpinNext, RL!Next

(* The rwlock.c of the SMP kernel implements that of the uniprocessor one. *)
THEOREM SpinLockImplements == SpinSpec => SpinImplements
BY SpinInitMaps, SpinStepMaps, SpinInvariance, PTL DEF SpinSpec, SpinImplements, RL!Spec
-----------------------------------------------------------------------------
(* The semaphore: sleepers stay on the list, the count is exact, and without *)
(* interference no signal is lost.                                          *)

(* The set of threads in one use, after one thread has changed its use. *)
LEMMA Move ==
    ASSUME SemaphoreTypeOK, NEW t \in Threads, NEW u \in Uses, Becomes(t, u), NEW v \in Uses
    PROVE  In(v)' = IF v = u THEN In(v) \cup {t} ELSE In(v) \ {t}
BY DEF SemaphoreTypeOK, Becomes, In

(* These sets are finite. *)
LEMMA InFinite ==
    ASSUME NEW v PROVE IsFiniteSet(In(v)) /\ Cardinality(In(v)) \in Nat
<1>1. In(v) \subseteq Threads
  BY DEF In
<1>2. QED
  BY <1>1, ThreadsAssumption, FS_Subset, FS_CardinalityType

LEMMA DueFinite == IsFiniteSet(Due) /\ Cardinality(Due) \in Nat
<1>1. Due \subseteq Threads
  BY DEF Due, In
<1>2. QED
  BY <1>1, ThreadsAssumption, FS_Subset, FS_CardinalityType

(* The two ends of the waiting list. *)
LEMMA AppendListed ==
    ASSUME SemaphoreTypeOK, NEW t \in Threads, waiting' = Append(waiting, t)
    PROVE  Listed' = Listed \cup {t}
<1>1. /\ waiting' \in Seq(Threads)
      /\ Len(waiting') = Len(waiting) + 1
      /\ \A i \in 1..Len(waiting) : waiting'[i] = waiting[i]
      /\ waiting'[Len(waiting) + 1] = t
  BY DEF SemaphoreTypeOK
<1>2. DOMAIN waiting = 1..Len(waiting) /\ DOMAIN waiting' = 1..(Len(waiting) + 1)
  BY <1>1 DEF SemaphoreTypeOK
<1>3. Len(waiting) \in Nat
  BY DEF SemaphoreTypeOK
<1>4. QED
  BY <1>1, <1>2, <1>3 DEF Listed

LEMMA TailListed ==
    ASSUME SemaphoreTypeOK, waiting # << >>, waiting' = Tail(waiting)
    PROVE  /\ Head(waiting) \in Listed
           /\ waiting' \in Seq(Threads)
           /\ \A i \in DOMAIN waiting' :
                i + 1 \in DOMAIN waiting /\ waiting'[i] = waiting[i + 1]
           /\ Listed \subseteq Listed' \cup {Head(waiting)}
<1>1. /\ waiting' \in Seq(Threads)
      /\ Len(waiting) \in Nat \ {0}
      /\ Len(waiting') = Len(waiting) - 1
      /\ \A i \in 1..Len(waiting') : waiting'[i] = waiting[i + 1]
      /\ Head(waiting) = waiting[1]
  BY DEF SemaphoreTypeOK
<1>2. DOMAIN waiting = 1..Len(waiting) /\ DOMAIN waiting' = 1..Len(waiting')
  BY <1>1 DEF SemaphoreTypeOK
<1>3. Head(waiting) \in Listed
  BY <1>1, <1>2 DEF Listed
<1>4. ASSUME NEW x \in Listed, x # Head(waiting) PROVE x \in Listed'
  <2>1. PICK i \in 1..Len(waiting) : waiting[i] = x
    BY <1>2, <1>4 DEF Listed
  <2>2. i # 1
    BY <1>1, <1>4, <2>1
  <2>3. (i - 1) \in 1..Len(waiting') /\ waiting'[i - 1] = x
    BY <1>1, <2>1, <2>2
  <2>4. QED
    BY <1>2, <2>3 DEF Listed
<1>5. QED
  BY <1>1, <1>2, <1>3, <1>4

-----------------------------------------------------------------------------
LEMMA SemaphoreInitIInv == SemaphoreInit => SemaphoreIInv
<1> SUFFICES ASSUME SemaphoreInit PROVE SemaphoreIInv
  OBVIOUS
<1>1. SemaphoreTypeOK
  <2>1. 0 \in 0..MaxGifts /\ 0 \in 0..MaxUpsets
    BY BoundsAssumption
  <2>2. waiting \in Seq(Threads)
    BY DEF SemaphoreInit
  <2>3. use \in [Threads -> Uses]
    BY DEF SemaphoreInit, Uses
  <2>4. valid \in BOOLEAN /\ capacity \in Capacities /\ count \in Int
    <3>1. valid \in BOOLEAN
      BY Zenon DEF SemaphoreInit
    <3>2. capacity \in Capacities /\ count \in Int
      BY DEF SemaphoreInit
    <3>3. QED
      BY <3>1, <3>2
  <2>5. gifts \in 0..MaxGifts /\ upsets \in 0..MaxUpsets
    BY <2>1 DEF SemaphoreInit
  <2>6. QED
    BY <2>2, <2>3, <2>4, <2>5 DEF SemaphoreTypeOK
<1>2. In("asleep") = {} /\ In("holding") = {}
  BY DEF SemaphoreInit, In
<1>3. QED
  BY <1>1, <1>2 DEF SemaphoreInit, SemaphoreIInv, SleepersListed, Balance, NoLostSignal, ListExact,
                     FreeSlotUnheld

LEMMA CreateIInv == ASSUME SemaphoreIInv, NEW c \in Capacities, Create(c) PROVE SemaphoreIInv'
<1>1. SemaphoreTypeOK'
  BY BoundsAssumption DEF SemaphoreIInv, SemaphoreTypeOK, Create
<1>2. In("asleep")' = {}
  BY DEF SemaphoreIInv, SleepersListed, Create, In
<1>3. In("holding")' = {}
  BY DEF SemaphoreIInv, FreeSlotUnheld, Create, In
<1>4. Cardinality(In("holding")') = 0
  BY <1>3, FS_EmptySet
<1>5. QED
  BY <1>1, <1>2, <1>3, <1>4 DEF Create, SemaphoreIInv, SleepersListed, Balance, NoLostSignal,
                                ListExact, FreeSlotUnheld

LEMMA DestroyIInv == ASSUME SemaphoreIInv, Destroy PROVE SemaphoreIInv'
<1>1. SemaphoreTypeOK'
  <2>1. \A t \in Threads : use'[t] \in Uses
    BY DEF SemaphoreIInv, SemaphoreTypeOK, Destroy, Uses
  <2>2. use' \in [Threads -> Uses]
    BY <2>1 DEF Destroy
  <2>3. waiting' \in Seq(Threads)
    BY DEF Destroy
  <2>4. QED
    BY <2>2, <2>3 DEF SemaphoreIInv, SemaphoreTypeOK, Destroy
<1>2. In("asleep")' = {} /\ In("holding")' = {}
  BY DEF SemaphoreIInv, SemaphoreTypeOK, SleepersListed, Destroy, In, Uses
<1>3. QED
  BY <1>1, <1>2 DEF Destroy, SemaphoreIInv, SleepersListed, Balance, NoLostSignal, ListExact,
                     FreeSlotUnheld

LEMMA WaitIInv == ASSUME SemaphoreIInv, NEW t \in Threads, Wait(t) PROVE SemaphoreIInv'
<1> USE DEF SemaphoreIInv
<1>1. CASE /\ count = capacity
           /\ waiting' = Append(waiting, t)
           /\ Becomes(t, "asleep")
           /\ UNCHANGED count
  <2>1. SemaphoreTypeOK'
    BY <1>1 DEF SemaphoreTypeOK, Wait, Becomes, Uses
  <2>2. /\ In("asleep")' = In("asleep") \cup {t}
        /\ In("holding")' = In("holding") \ {t}
        /\ Due' = Due \ {t}
    BY <1>1, Move DEF Uses, Due
  <2>3. t \notin In("holding") /\ t \notin Due
    BY DEF Wait, In, Due
  <2>4. Listed' = Listed \cup {t}
    BY <1>1, AppendListed
  <2>5. SleepersListed'
    BY <2>2, <2>4 DEF SleepersListed, Wait
  <2>6. Balance'
    BY <1>1, <2>2, <2>3 DEF Balance, Wait
  <2>7. NoLostSignal'
    <3>1. Due' = Due
      BY <2>2, <2>3
    <3>2. count' = capacity' /\ capacity' \in Nat
      BY <1>1, CapacitiesAssumption DEF Wait, SemaphoreTypeOK
    <3>3. count' + Cardinality(Due') >= capacity'
      BY <3>1, <3>2, DueFinite
    <3>4. QED
      BY <3>3 DEF NoLostSignal
  <2>8. ListExact'
    <3>1. /\ DOMAIN waiting = 1..Len(waiting) /\ Len(waiting) \in Nat
          /\ DOMAIN waiting' = 1..(Len(waiting) + 1)
          /\ \A i \in 1..Len(waiting) : waiting'[i] = waiting[i]
          /\ waiting'[Len(waiting) + 1] = t
      BY <1>1 DEF SemaphoreTypeOK
    <3>2. \A i \in DOMAIN waiting : upsets = 0 => waiting[i] # t
      BY DEF ListExact, Wait
    <3>3. use'[t] = "asleep" /\ \A x \in Threads : x # t => use'[x] = use[x]
      BY <1>1 DEF SemaphoreTypeOK, Becomes
    <3>4. \A i \in DOMAIN waiting : waiting[i] \in Threads
      BY DEF SemaphoreTypeOK
    <3>5. upsets' = upsets
      BY DEF Wait
    <3>6. QED
      BY <3>1, <3>2, <3>3, <3>4, <3>5 DEF ListExact
  <2>9. FreeSlotUnheld'
    BY DEF FreeSlotUnheld, Wait
  <2>10. QED
    BY <2>1, <2>5, <2>6, <2>7, <2>8, <2>9
<1>2. CASE /\ count # capacity
           /\ count' = count + 1
           /\ Becomes(t, "holding")
           /\ UNCHANGED waiting
  <2>1. SemaphoreTypeOK'
    BY <1>2 DEF SemaphoreTypeOK, Wait, Becomes, Uses
  <2>2. /\ In("asleep")' = In("asleep") \ {t}
        /\ In("holding")' = In("holding") \cup {t}
        /\ Due' = Due \ {t}
    BY <1>2, Move DEF Uses, Due
  <2>3. t \notin In("holding") /\ t \notin Due /\ t \notin In("asleep")
    BY DEF Wait, In, Due
  <2>4. Cardinality(In("holding")') = Cardinality(In("holding")) + 1
    BY <2>2, <2>3, InFinite, FS_AddElement
  <2>5. SleepersListed'
    BY <1>2, <2>2 DEF SleepersListed, Wait, Listed
  <2>6. Balance'
    BY <1>2, <2>4, InFinite DEF Balance, Wait, SemaphoreTypeOK
  <2>7. NoLostSignal'
    <3>1. Due' = Due /\ In("asleep")' = In("asleep")
      BY <2>2, <2>3
    <3>2. count' = count + 1 /\ capacity' = capacity /\ upsets' = upsets
      BY <1>2 DEF Wait
    <3>3. count \in Int /\ capacity \in Nat
      BY CapacitiesAssumption DEF SemaphoreTypeOK
    <3>4. QED
      BY <3>1, <3>2, <3>3, DueFinite DEF NoLostSignal
  <2>8. ListExact'
    BY <1>2 DEF ListExact, Wait, Becomes, SemaphoreTypeOK
  <2>9. FreeSlotUnheld'
    BY DEF FreeSlotUnheld, Wait
  <2>10. QED
    BY <2>1, <2>5, <2>6, <2>7, <2>8, <2>9
<1>3. QED
  BY <1>1, <1>2 DEF Wait

LEMMA EnterIInv == ASSUME SemaphoreIInv, NEW t \in Threads, Enter(t) PROVE SemaphoreIInv'
<1> USE DEF SemaphoreIInv
<1>1. t \in Due /\ t \notin In("asleep") /\ t \notin In("holding")
  BY DEF Enter, Due, In
<1>2. CASE valid
  <2>1. SemaphoreTypeOK'
    BY <1>2 DEF SemaphoreTypeOK, Enter, Becomes, Uses
  <2>2. /\ In("asleep")' = In("asleep")
        /\ In("holding")' = In("holding") \cup {t}
        /\ Due' = Due \ {t}
    BY <1>1, <1>2, Move DEF Uses, Due, Enter
  <2>3. /\ Cardinality(In("holding")') = Cardinality(In("holding")) + 1
        /\ Cardinality(Due') = Cardinality(Due) - 1
    <3>1. Cardinality(In("holding")') = Cardinality(In("holding")) + 1
      BY <1>1, <2>2, InFinite, FS_AddElement
    <3>2. Cardinality(Due') = Cardinality(Due) - 1
      BY <1>1, <2>2, DueFinite, FS_RemoveElement
    <3>3. QED
      BY <3>1, <3>2
  <2>4. count' = count + 1
    BY <1>2 DEF Enter
  <2>5. SleepersListed'
    BY <2>2 DEF SleepersListed, Enter, Listed
  <2>6. Balance'
    BY <2>3, <2>4, InFinite DEF Balance, Enter, SemaphoreTypeOK
  <2>7. NoLostSignal'
    BY <2>2, <2>3, <2>4, DueFinite, CapacitiesAssumption DEF NoLostSignal, Enter, SemaphoreTypeOK
  <2>8. ListExact'
    BY <1>1, <1>2 DEF ListExact, Enter, Becomes, SemaphoreTypeOK, In
  <2>9. FreeSlotUnheld'
    BY <1>2 DEF FreeSlotUnheld, Enter
  <2>10. QED
    BY <2>1, <2>5, <2>6, <2>7, <2>8, <2>9
<1>3. CASE ~valid
  <2>1. SemaphoreTypeOK'
    BY <1>3 DEF SemaphoreTypeOK, Enter, Becomes, Uses
  <2>2. In("asleep")' = {} /\ In("holding")' = {}
    BY <1>1, <1>3, Move DEF Uses, Enter, SleepersListed, FreeSlotUnheld
  <2>3. ~valid' /\ UNCHANGED <<waiting, upsets>>
    BY <1>3 DEF Enter
  <2>4. ListExact'
    BY <1>1, <1>3 DEF ListExact, Enter, Becomes, SemaphoreTypeOK, In
  <2>5. QED
    BY <2>1, <2>2, <2>3, <2>4 DEF SleepersListed, Balance, NoLostSignal, FreeSlotUnheld
<1>4. QED
  BY <1>2, <1>3

(* A signal by a thread that does not sleep and is not on its way in; gift is *)
(* 0 if it holds the semaphore.                                               *)
LEMMA SignalByIInv ==
    ASSUME SemaphoreIInv, NEW t \in Threads, NEW gift \in {0, 1}, SignalBy(t, gift),
           use[t] \in {"idle", "holding", "orphan"},
           gift = 0 <=> use[t] = "holding",
           gifts + gift <= MaxGifts
    PROVE  SemaphoreIInv'
<1> USE DEF SemaphoreIInv
<1> DEFINE left == [use EXCEPT ![t] = "idle"]
<1> DEFINE first == Head(waiting)
<1>1. /\ left \in [Threads -> Uses] /\ left[t] = "idle"
      /\ \A x \in Threads : x # t => left[x] = use[x]
  BY DEF SemaphoreTypeOK, Uses
<1>2. CASE waiting # << >> /\ left[first] = "asleep"
  <2>1. waiting' = Tail(waiting) /\ use' = [left EXCEPT ![first] = "woken"]
    BY <1>2 DEF SignalBy, WakeFirst
  <2>2. first \in Threads /\ first # t /\ use[first] = "asleep"
    BY <1>1, <1>2 DEF SemaphoreTypeOK
  <2>3. /\ first \in Listed
        /\ waiting' \in Seq(Threads)
        /\ \A i \in DOMAIN waiting' :
             i + 1 \in DOMAIN waiting /\ waiting'[i] = waiting[i + 1]
        /\ Listed \subseteq Listed' \cup {first}
    BY <1>2, <2>1, TailListed
  <2>4. /\ use'[first] = "woken" /\ use'[t] = "idle"
        /\ \A x \in Threads : x # t /\ x # first => use'[x] = use[x]
        /\ use' \in [Threads -> Uses]
    BY <1>1, <2>1, <2>2 DEF Uses
  <2>5. SemaphoreTypeOK'
    <3>1. gifts' \in 0..MaxGifts /\ count' \in Int
      BY BoundsAssumption DEF SemaphoreTypeOK, SignalBy
    <3>2. valid' \in BOOLEAN /\ capacity' \in Capacities /\ upsets' \in 0..MaxUpsets
      BY DEF SemaphoreTypeOK, SignalBy
    <3>3. QED
      BY <2>3, <2>4, <3>1, <3>2 DEF SemaphoreTypeOK
  <2>6. /\ In("asleep")' = In("asleep") \ {first}
        /\ In("holding")' = In("holding") \ {t}
        /\ Due' = Due \cup {first} /\ first \notin Due
    BY <2>2, <2>4 DEF In, Due
  <2>7. t \in In("holding") <=> gift = 0
    BY DEF In
  <2>8. Cardinality(In("holding")') = Cardinality(In("holding")) - (1 - gift)
    BY <2>6, <2>7, InFinite, FS_RemoveElement
  <2>9. Cardinality(Due') = Cardinality(Due) + 1
    BY <2>6, DueFinite, FS_AddElement
  <2>10. count' = count - 1 /\ gifts' = gifts + gift /\ UNCHANGED <<valid, capacity, upsets>>
    BY DEF SignalBy
  <2>11. SleepersListed'
    BY <2>3, <2>6, <2>10 DEF SleepersListed
  <2>12. Balance'
    BY <2>8, <2>10, InFinite DEF Balance, SemaphoreTypeOK
  <2>13. NoLostSignal'
    BY <2>6, <2>9, <2>10, DueFinite, CapacitiesAssumption DEF NoLostSignal, SemaphoreTypeOK
  <2>14. ListExact'
    <3>1. SUFFICES ASSUME upsets = 0
                   PROVE  /\ \A i \in DOMAIN waiting' : use'[waiting'[i]] = "asleep"
                          /\ \A i, j \in DOMAIN waiting' :
                                waiting'[i] = waiting'[j] => i = j
      BY <2>10 DEF ListExact
    <3>2. 1 \in DOMAIN waiting /\ first = waiting[1]
      BY <1>2 DEF SemaphoreTypeOK
    <3>3. /\ \A i \in DOMAIN waiting : use[waiting[i]] = "asleep"
          /\ \A i, j \in DOMAIN waiting : waiting[i] = waiting[j] => i = j
      BY <3>1 DEF ListExact
    <3>4. \A i \in DOMAIN waiting : waiting[i] \in Threads
      BY DEF SemaphoreTypeOK
    <3>5. \A i \in DOMAIN waiting' : i \in Nat \ {0}
      BY <2>3
    <3>6. ASSUME NEW i \in DOMAIN waiting' PROVE use'[waiting'[i]] = "asleep"
      <4>1. waiting[i + 1] # first
        BY <2>3, <3>2, <3>3, <3>5
      <4>2. use[waiting[i + 1]] = "asleep" /\ waiting[i + 1] \in Threads
        BY <2>3, <3>3, <3>4
      <4>3. waiting[i + 1] # t
        BY <4>2
      <4>4. QED
        BY <2>3, <2>4, <4>1, <4>2, <4>3
    <3>7. ASSUME NEW i \in DOMAIN waiting', NEW j \in DOMAIN waiting',
                 waiting'[i] = waiting'[j]
          PROVE  i = j
      <4>1. i + 1 = j + 1
        BY <2>3, <3>3, <3>7
      <4>2. QED
        BY <3>5, <4>1
    <3>8. QED
      BY <3>6, <3>7
  <2>15. FreeSlotUnheld'
    BY <2>10 DEF FreeSlotUnheld, SignalBy
  <2>16. QED
    BY <2>5, <2>11, <2>12, <2>13, <2>14, <2>15
<1>3. CASE ~(waiting # << >> /\ left[first] = "asleep")
  <2>1. use' = left
    BY <1>3 DEF SignalBy, WakeFirst
  <2>2. waiting' = IF waiting = << >> THEN << >> ELSE Tail(waiting)
    BY DEF SignalBy
  <2>3. waiting' \in Seq(Threads)
    BY <2>2, TailListed DEF SemaphoreTypeOK
  <2>4. SemaphoreTypeOK'
    <3>1. gifts' \in 0..MaxGifts /\ count' \in Int
      BY BoundsAssumption DEF SemaphoreTypeOK, SignalBy
    <3>2. valid' \in BOOLEAN /\ capacity' \in Capacities /\ upsets' \in 0..MaxUpsets
      BY DEF SemaphoreTypeOK, SignalBy
    <3>3. use' \in [Threads -> Uses]
      BY <1>1, <2>1
    <3>4. QED
      BY <2>3, <3>1, <3>2, <3>3 DEF SemaphoreTypeOK
  <2>5. /\ In("asleep")' = In("asleep")
        /\ In("holding")' = In("holding") \ {t}
        /\ Due' = Due
    BY <1>1, <2>1 DEF In, Due
  <2>6. t \in In("holding") <=> gift = 0
    BY DEF In
  <2>7. Cardinality(In("holding")') = Cardinality(In("holding")) - (1 - gift)
    BY <2>5, <2>6, InFinite, FS_RemoveElement
  <2>8. count' = count - 1 /\ gifts' = gifts + gift /\ UNCHANGED <<valid, capacity, upsets>>
    BY DEF SignalBy
  <2>9. SleepersListed'
    <3>1. SUFFICES ASSUME NEW x \in In("asleep") PROVE valid /\ x \in Listed'
      BY <2>5, <2>8 DEF SleepersListed
    <3>2. valid /\ x \in Listed /\ use[x] = "asleep" /\ x \in Threads
      BY DEF SleepersListed, In
    <3>3. waiting # << >>
      BY <3>2 DEF Listed
    <3>4. x # first
      BY <1>1, <1>3, <3>2, <3>3
    <3>5. QED
      BY <2>2, <3>2, <3>3, <3>4, TailListed
  <2>10. Balance'
    BY <2>7, <2>8, InFinite DEF Balance, SemaphoreTypeOK
  <2>11. waiting = << >> \/ upsets # 0
    <3>1. SUFFICES ASSUME waiting # << >>, upsets = 0 PROVE FALSE
      OBVIOUS
    <3>2. 1 \in DOMAIN waiting /\ first = waiting[1] /\ first \in Threads
      BY <3>1 DEF SemaphoreTypeOK
    <3>3. use[first] = "asleep"
      BY <3>1, <3>2 DEF ListExact
    <3>4. QED
      BY <1>1, <1>3, <3>1, <3>2, <3>3
  <2>12. NoLostSignal'
    <3>1. waiting = << >> => In("asleep") = {}
      BY DEF SleepersListed, Listed
    <3>2. QED
      BY <2>5, <2>8, <2>11, <3>1 DEF NoLostSignal
  <2>13. ListExact'
    BY <2>2, <2>8, <2>11 DEF ListExact
  <2>14. FreeSlotUnheld'
    BY <2>8 DEF FreeSlotUnheld, SignalBy
  <2>15. QED
    BY <2>4, <2>9, <2>10, <2>12, <2>13, <2>14
<1>4. QED
  BY <1>2, <1>3

LEMMA RefusedIInv == ASSUME SemaphoreIInv, NEW t \in Threads, SignalRefused(t) PROVE SemaphoreIInv'
<1> USE DEF SemaphoreIInv
<1>1. SemaphoreTypeOK'
  BY DEF SemaphoreTypeOK, SignalRefused, Becomes, Uses
<1>2. In("asleep")' = {} /\ In("holding")' = {}
  BY Move DEF Uses, SignalRefused, SleepersListed, FreeSlotUnheld
<1>3. ListExact'
  BY DEF ListExact, SignalRefused, Becomes, SemaphoreTypeOK
<1>4. QED
  BY <1>1, <1>2, <1>3 DEF SignalRefused, SleepersListed, Balance, NoLostSignal, FreeSlotUnheld

LEMMA UpsetIInv == ASSUME SemaphoreIInv, NEW t \in Threads, Upset(t) PROVE SemaphoreIInv'
<1> USE DEF SemaphoreIInv
<1>1. PICK u \in {"woken", "dead"} : Becomes(t, u)
  BY DEF Upset
<1>2. upsets' = upsets + 1 /\ upsets' # 0 /\ upsets' \in 0..MaxUpsets
  BY BoundsAssumption DEF Upset, SemaphoreTypeOK
<1>3. SemaphoreTypeOK'
  BY <1>1, <1>2 DEF SemaphoreTypeOK, Upset, Becomes, Uses
<1>4. In("asleep")' \subseteq In("asleep") /\ In("holding")' = In("holding")
  <2>1. t \notin In("holding")
    BY DEF Upset, In
  <2>2. QED
    BY <1>1, <2>1, Move DEF Uses
<1>5. QED
  BY <1>2, <1>3, <1>4 DEF Upset, SleepersListed, Listed, Balance, NoLostSignal, ListExact,
                          FreeSlotUnheld

LEMMA SemaphoreNextIInv == SemaphoreIInv /\ [SemaphoreNext]_semaphoreVars => SemaphoreIInv'
<1> SUFFICES ASSUME SemaphoreIInv, [SemaphoreNext]_semaphoreVars PROVE SemaphoreIInv'
  OBVIOUS
<1>1. ASSUME NEW t \in Threads, Signal(t) PROVE SemaphoreIInv'
  <2>1. gifts + 0 <= MaxGifts
    BY BoundsAssumption DEF SemaphoreIInv, SemaphoreTypeOK
  <2>2. QED
    BY <1>1, <2>1, SignalByIInv DEF Signal
<1>2. ASSUME NEW t \in Threads, Gift(t) PROVE SemaphoreIInv'
  <2>1. gifts + 1 <= MaxGifts
    BY <1>2, BoundsAssumption DEF SemaphoreIInv, SemaphoreTypeOK, Gift
  <2>2. QED
    BY <1>2, <2>1, SignalByIInv DEF Gift
<1>3. CASE UNCHANGED semaphoreVars
  BY <1>3 DEF semaphoreVars, SemaphoreIInv, SemaphoreTypeOK, SleepersListed, Balance, NoLostSignal, ListExact,
              FreeSlotUnheld, In, Due, Listed
<1>4. QED
  BY <1>1, <1>2, <1>3, CreateIInv, DestroyIInv, WaitIInv, EnterIInv, RefusedIInv, UpsetIInv
  DEF SemaphoreNext

LEMMA SemaphoreInvariance == SemaphoreSpec => []SemaphoreIInv
<1>1. QED
  BY SemaphoreInitIInv, SemaphoreNextIInv, PTL DEF SemaphoreSpec
-----------------------------------------------------------------------------
(* The slot's fields keep their types. *)
THEOREM SemaphoreTypeCorrect == SemaphoreSpec => []SemaphoreTypeOK
<1>1. SemaphoreIInv => SemaphoreTypeOK
  BY DEF SemaphoreIInv
<1>2. QED
  BY <1>1, SemaphoreInvariance, PTL

(* sem.c leaves no sleeper where neither signal nor destroy would find it. *)
THEOREM SleepersCanBeWoken == SemaphoreSpec => []SleepersListed
<1>1. SemaphoreIInv => SleepersListed
  BY DEF SemaphoreIInv
<1>2. QED
  BY <1>1, SemaphoreInvariance, PTL

(* The count of sem.c equals its holders less the signals of non-holders. *)
THEOREM CountExact == SemaphoreSpec => []Balance
<1>1. SemaphoreIInv => Balance
  BY DEF SemaphoreIInv
<1>2. QED
  BY <1>1, SemaphoreInvariance, PTL

(* While peers leave waiting threads alone, no signal of sem.c is lost. *)
THEOREM SignalsArrive == SemaphoreSpec => []NoLostSignal
<1>1. SemaphoreIInv => NoLostSignal
  BY DEF SemaphoreIInv
<1>2. QED
  BY <1>1, SemaphoreInvariance, PTL
-----------------------------------------------------------------------------
(* The physical pages: who asks gets pages that nobody has, and is refused  *)
(* only where there are none. What a scan finds is a function of later      *)
(* rounds, so its facts are shown from the last round down.                 *)

(* A set of numbers that is not empty has a least one. *)
LEMMA LeastIn ==
    ASSUME NEW S \in SUBSET Nat, S # {}, NEW less, IsWellFoundedOn(less, Nat),
           \A x, y \in Nat : y < x => <<y, x>> \in less
    PROVE  \E n \in S : \A m \in S : n <= m
<1>1. PICK n \in S : \A m \in S : ~(<<m, n>> \in less)
  BY WFMin
<1>2. \A m \in S : ~(m < n)
  BY <1>1
<1>3. \A m \in S : n <= m
  BY <1>2
<1>4. QED
  BY <1>3

LEMMA LeastOf ==
    ASSUME NEW S \in SUBSET Nat, S # {}
    PROVE  \E n \in S : \A m \in S : n <= m
<1>1. IsWellFoundedOn(OpToRel(<, Nat), Nat)
  BY NatLessThanWellFounded
<1>2. \A x, y \in Nat : y < x => <<y, x>> \in OpToRel(<, Nat)
  BY DEF OpToRel
<1>3. QED
  BY <1>1, <1>2, LeastIn

(* What holds of 0, and of k + 1 if of k, holds up to n. *)
LEMMA Upwards ==
    ASSUME NEW n \in Nat, NEW S, 0 \in S, \A k \in 0..(n - 1) : k \in S => k + 1 \in S
    PROVE  n \in S
<1> DEFINE C == {k \in 0..n : k \notin S}
<1>1. CASE C = {}
  BY <1>1
<1>2. CASE C # {}
  <2> C \in SUBSET Nat
    OBVIOUS
  <2>1. PICK k \in C : \A m \in C : k <= m
    <3> HIDE DEF C
    <3>1. QED
      BY <1>2, LeastOf
  <2>2. k \in 1..n /\ k - 1 \notin C
    BY <2>1
  <2>3. k - 1 \in 0..(n - 1) /\ k - 1 \in S
    BY <2>2
  <2>4. QED
    BY <2>1, <2>2, <2>3
<1>3. QED
  BY <1>1, <1>2

-----------------------------------------------------------------------------
PagesInv ==
    /\ smp \in BOOLEAN /\ freePages \in Int /\ lastPage \in 0..TotalPages
    /\ Kept \subseteq used /\ used \subseteq Pages
    /\ freePages >= Cardinality(Free) + (IF smp THEN 1 ELSE 0)
Pos(i) == (i + lastPage) % TotalPages

LEMMA Remainders ==
    ASSUME NEW x \in 0..(2 * TotalPages - 1)
    PROVE  x % TotalPages = IF x < TotalPages THEN x ELSE x - TotalPages
BY PagesAssumption

LEMMA PosFits ==
    ASSUME PagesInv, NEW i \in 0..(TotalPages - 1)
    PROVE  /\ Pos(i) \in Pages
           /\ Pos(i) = IF i + lastPage < TotalPages THEN i + lastPage ELSE i + lastPage - TotalPages
<1>1. PICK x \in 0..(2 * TotalPages - 1) : x = i + lastPage
  BY PagesAssumption DEF PagesInv
<1>2. Pos(i) = IF x < TotalPages THEN x ELSE x - TotalPages
  BY <1>1, Remainders DEF Pos
<1>3. TotalPages \in Nat \ {0} /\ x \in Int /\ lastPage \in Int
  BY PagesAssumption DEF PagesInv
<1>4. Pos(i) \in Pages
  BY <1>1, <1>2, <1>3 DEF Pages
<1>5. QED
  BY <1>1, <1>2, <1>3, <1>4

LEMMA FirstUsedFits ==
    ASSUME NEW pos \in Pages, NEW n \in Nat, UsedAt(pos, n) # {}
    PROVE  /\ FirstUsed(pos, n) \in UsedAt(pos, n) /\ FirstUsed(pos, n) \in 0..(n - 1)
           /\ \A k \in UsedAt(pos, n) : FirstUsed(pos, n) <= k
<1>1. UsedAt(pos, n) \in SUBSET Nat /\ UsedAt(pos, n) \subseteq 0..(n - 1)
  BY DEF UsedAt
<1>2. \E j \in UsedAt(pos, n) : \A k \in UsedAt(pos, n) : j <= k
  BY <1>1, LeastOf
<1>3. QED
  BY <1>1, <1>2 DEF FirstUsed

(* The scan is a function of its rounds. *)
Stops(i, n) == i >= TotalPages \/ (Pos(i) + n <= TotalPages /\ UsedAt(Pos(i), n) = {})
Later(i, n) == IF Pos(i) + n > TotalPages THEN AfterTail(i, n) ELSE AfterUsed(i, FirstUsed(Pos(i), n))

LEMMA LaterFits ==
    ASSUME PagesInv, NEW n \in 1..MaxRequest, NEW i \in Rounds, ~Stops(i, n)
    PROVE  Later(i, n) \in Rounds /\ Later(i, n) > i /\ i \in 0..(TotalPages - 1)
<1>1. TotalPages \in Nat /\ MaxRequest \in Nat /\ n \in Nat /\ i \in 0..(TotalPages - 1)
  BY PagesAssumption DEF Rounds, Stops
<1>2. Pos(i) \in Pages
  BY <1>1, PosFits
<1>3. CASE Pos(i) + n > TotalPages
  BY <1>1, <1>2, <1>3 DEF Later, AfterTail, Rounds, Pages
<1>4. CASE ~(Pos(i) + n > TotalPages)
  <2>1. UsedAt(Pos(i), n) # {}
    BY <1>1, <1>2, <1>4 DEF Stops, Pages
  <2>2. FirstUsed(Pos(i), n) \in 0..(n - 1)
    BY <1>1, <1>2, <2>1, FirstUsedFits
  <2>3. QED
    BY <1>1, <1>4, <2>2 DEF Later, AfterUsed, Rounds
<1>5. QED
  BY <1>1, <1>3, <1>4

LEMMA LookIs ==
    ASSUME PagesInv, NEW n \in 1..MaxRequest, NEW i \in Rounds, NEW g
    PROVE  Look(g, n, i) = IF Stops(i, n) THEN (IF i >= TotalPages THEN -1 ELSE Pos(i)) ELSE g[Later(i, n)]
<1>1. TotalPages \in Nat /\ n \in Nat /\ i \in Nat
  BY PagesAssumption DEF Rounds
<1>2. CASE i >= TotalPages
  BY <1>2 DEF Look, Stops
<1>3. CASE ~(i >= TotalPages)
  <2>1. Pos(i) \in Pages
    BY <1>1, <1>3, PosFits
  <2>2. Pos(i) + n > TotalPages <=> ~(Pos(i) + n <= TotalPages)
    BY <1>1, <2>1 DEF Pages
  <2> DEFINE pos == Pos(i)
  <2>3. Look(g, n, i) = IF pos + n > TotalPages THEN g[AfterTail(i, n)]
                        ELSE IF UsedAt(pos, n) = {} THEN pos ELSE g[AfterUsed(i, FirstUsed(pos, n))]
    BY <1>3 DEF Look, Pos
  <2> HIDE DEF pos
  <2>4. QED
    BY <1>3, <2>2, <2>3 DEF Stops, Later, pos
<1>4. QED
  BY <1>2, <1>3

LEMMA FoundIs ==
    ASSUME PagesInv, NEW n \in 1..MaxRequest
    PROVE  Found(n) = [i \in Rounds |-> Look(Found(n), n, i)]
<1> DEFINE top == TotalPages + MaxRequest
           R == {-1} \cup Pages
           Solved(k) == \E g \in [Rounds -> R] : \A i \in (top - k)..top : g[i] = Look(g, n, i)
           S == {k \in 0..top : Solved(k)}
<1>1. top \in Nat /\ TotalPages \in Nat /\ top > TotalPages /\ Rounds = 0..top
  BY PagesAssumption DEF Rounds
<1>2. \A i \in Rounds : ~Stops(i, n) => Later(i, n) \in Rounds /\ Later(i, n) > i
  BY LaterFits
<1>3. \A i \in Rounds : (IF i >= TotalPages THEN -1 ELSE Pos(i)) \in R
  BY <1>1, PosFits
<1>4. ASSUME NEW i \in Rounds, NEW g
      PROVE  Look(g, n, i) = IF Stops(i, n) THEN (IF i >= TotalPages THEN -1 ELSE Pos(i)) ELSE g[Later(i, n)]
  BY LookIs
<1> HIDE DEF top, R
<1>5. ASSUME NEW i \in Rounds, NEW g \in [Rounds -> R] PROVE Look(g, n, i) \in R
  BY <1>2, <1>3, <1>4
<1>6. ASSUME NEW i \in Rounds, NEW g, NEW h, \A j \in Rounds : j > i => g[j] = h[j]
      PROVE  Look(g, n, i) = Look(h, n, i)
  BY <1>2, <1>4, <1>6
<1>7. 0 \in S
  <2>1. -1 \in R /\ [i \in Rounds |-> -1] \in [Rounds -> R]
    BY DEF R
  <2>2. \A i \in (top - 0)..top : i = top /\ i >= TotalPages /\ i \in Rounds
    BY <1>1
  <2>3. \A i \in (top - 0)..top : [j \in Rounds |-> -1][i] = Look([j \in Rounds |-> -1], n, i)
    BY <1>4, <2>2 DEF Stops
  <2>4. Solved(0) /\ 0 \in 0..top
    BY <1>1, <2>1, <2>3
  <2> HIDE DEF Solved
  <2>5. QED
    BY <2>4
<1>8. ASSUME NEW k \in 0..(top - 1), k \in S PROVE k + 1 \in S
  <2>1. PICK g \in [Rounds -> R] : \A i \in (top - k)..top : g[i] = Look(g, n, i)
    BY <1>8
  <2>2. PICK m : m = top - (k + 1)
    OBVIOUS
  <2>3. m \in Rounds /\ k + 1 \in 0..top /\ Look(g, n, m) \in R
    BY <1>1, <1>5, <2>2
  <2>4. \A i \in m..top : i \in Rounds /\ (i = m \/ (i > m /\ i \in (top - k)..top))
    BY <1>1, <2>2
  <2> DEFINE h == [g EXCEPT ![m] = Look(g, n, m)]
  <2>5. h \in [Rounds -> R] /\ h[m] = Look(g, n, m) /\ \A i \in Rounds : i # m => h[i] = g[i]
    BY <2>3
  <2> HIDE DEF h
  <2>6. ASSUME NEW i \in m..top PROVE h[i] = Look(h, n, i)
    <3>1. i \in Rounds /\ m \in Int /\ i \in Int
      BY <1>1, <2>3, <2>4
    <3>2. \A j \in Rounds : j > i => g[j] = h[j]
      <4>1. \A j \in Rounds : j > i => j # m
        BY <1>1, <2>3, <2>6
      <4>2. QED
        BY <2>5, <4>1
    <3>3. Look(g, n, i) = Look(h, n, i)
      BY <1>6, <3>1, <3>2
    <3>4. h[i] = Look(g, n, i)
      BY <2>1, <2>4, <2>5, <3>1
    <3>5. QED
      BY <3>3, <3>4
  <2>7. Solved(k + 1)
    BY <2>2, <2>5, <2>6
  <2> HIDE DEF Solved
  <2>8. QED
    BY <2>3, <2>7
<1> HIDE DEF S, Solved
<1>9. top \in S
  BY <1>1, <1>7, <1>8, Upwards
<1>10. PICK g \in [Rounds -> R] : \A i \in Rounds : g[i] = Look(g, n, i)
  BY <1>1, <1>9 DEF S, Solved
<1>11. g = [i \in Rounds |-> Look(g, n, i)]
  BY <1>10
<1>12. QED
  BY <1>11, Zenon DEF Found
(* What holds of i if it holds of all that are more, holds up to n. *)
LEMMA Downwards ==
    ASSUME NEW n \in Nat, NEW S, \A i \in 0..n : (\A j \in (i + 1)..n : j \in S) => i \in S
    PROVE  \A i \in 0..n : i \in S
<1> DEFINE C == {k \in 0..n : n - k \notin S}
<1>1. CASE C = {}
  <2>1. ASSUME NEW i \in 0..n PROVE i \in S
    <3>1. n - i \in 0..n /\ n - (n - i) = i
      OBVIOUS
    <3>2. QED
      BY <1>1, <3>1
  <2>2. QED
    BY <2>1
<1>2. CASE C # {}
  <2>1. C \in SUBSET Nat
    OBVIOUS
  <2>2. PICK k \in C : \A m \in C : k <= m
    <3> HIDE DEF C
    <3>1. QED
      BY <1>2, <2>1, LeastOf
  <2>3. k \in 0..n /\ n - k \notin S /\ n - k \in 0..n
    BY <2>2
  <2>4. ASSUME NEW j \in (n - k + 1)..n PROVE j \in S
    <3>1. n - j \in 0..n /\ n - j < k /\ n - (n - j) = j
      BY <2>3
    <3>2. n - j \notin C
      BY <2>2, <3>1
    <3>3. QED
      BY <3>1, <3>2
  <2>5. QED
    BY <2>3, <2>4
<1>3. QED
  BY <1>1, <1>2

Fits(p, n) == p \in Pages /\ p + n <= TotalPages /\ Run(p, n) \subseteq Free

(* A scan gives the place of a free run, or none. *)
LEMMA ScanFits ==
    ASSUME PagesInv, NEW n \in 1..MaxRequest
    PROVE  Scan(n) = -1 \/ Fits(Scan(n), n)
<1> DEFINE top == TotalPages + MaxRequest
           S == {i \in Rounds : Found(n)[i] = -1 \/ Fits(Found(n)[i], n)}
<1>1. top \in Nat /\ Rounds = 0..top /\ 0 \in Rounds /\ TotalPages \in Nat /\ n \in Nat
  BY PagesAssumption DEF Rounds
<1> HIDE DEF top
<1>2. ASSUME NEW i \in Rounds
      PROVE  Found(n)[i] = IF Stops(i, n) THEN (IF i >= TotalPages THEN -1 ELSE Pos(i))
                           ELSE Found(n)[Later(i, n)]
  <2>1. Found(n)[i] = Look(Found(n), n, i)
    BY FoundIs
  <2>2. QED
    BY <2>1, LookIs
<1>3. ASSUME NEW i \in 0..top, \A j \in (i + 1)..top : j \in S PROVE i \in S
  <2>1. CASE Stops(i, n) /\ i >= TotalPages
    BY <1>1, <1>2, <2>1
  <2>2. CASE Stops(i, n) /\ ~(i >= TotalPages)
    <3>1. Pos(i) \in Pages /\ Pos(i) + n <= TotalPages /\ UsedAt(Pos(i), n) = {}
      BY <1>1, <2>2, PosFits DEF Stops
    <3>2. Run(Pos(i), n) \subseteq Free
      <4>1. SUFFICES ASSUME NEW q \in Run(Pos(i), n) PROVE q \in Pages /\ q \notin used
        BY DEF Free
      <4>2. q - Pos(i) \in 0..(n - 1) /\ Pos(i) + (q - Pos(i)) = q /\ q \in Pages
        BY <1>1, <3>1 DEF Run, Pages
      <4>3. QED
        BY <3>1, <4>2 DEF UsedAt
    <3>3. QED
      BY <1>1, <1>2, <2>2, <3>1, <3>2 DEF Fits
  <2>3. CASE ~Stops(i, n)
    <3>1. Later(i, n) \in (i + 1)..top
      BY <1>1, <2>3, LaterFits
    <3>2. QED
      BY <1>1, <1>2, <1>3, <2>3, <3>1
  <2>4. QED
    BY <2>1, <2>2, <2>3
<1> HIDE DEF S
<1>4. \A i \in 0..top : i \in S
  BY <1>1, <1>3, Downwards
<1>5. QED
  BY <1>1, <1>4 DEF S, Scan

(* It passes no free run by, as long as what it skips behind the end of the *)
(* map is in the first megabyte.                                             *)
LEMMA NothingSkipped ==
    ASSUME PagesInv, NEW n \in 1..MaxRequest, n <= Low + 2, NEW a \in Pages, Fits(a, n),
           NEW i \in Nat, NEW b \in 0..(TotalPages - 1), i < b, Pos(b) = a, ~Stops(i, n)
    PROVE  Later(i, n) <= b
<1>1. /\ TotalPages \in Nat \ {0} /\ n \in Nat \ {0} /\ Low \in Nat /\ lastPage \in Int
      /\ i \in 0..(TotalPages - 1) /\ i \in Rounds /\ a + n <= TotalPages
  BY PagesAssumption DEF PagesInv, Rounds, Fits
<1>2. a >= Low
  <2>1. a \in Free
    BY <1>1 DEF Fits, Run, Pages
  <2>2. a \notin 0..(Low - 1)
    BY <2>1 DEF Free, PagesInv, Kept
  <2>3. QED
    BY <1>1, <2>2 DEF Pages
<1>3. PICK p \in Pages : p = Pos(i)
  BY <1>1, PosFits
<1>4. p \in 0..(TotalPages - 1) /\ a \in 0..(TotalPages - 1)
  BY <1>3 DEF Pages
<1>5. PICK d \in Nat : d = b - i /\ d > 0
  BY <1>1
<1>6. a = IF p + d < TotalPages THEN p + d ELSE p + d - TotalPages
  <2>1. p = IF i + lastPage < TotalPages THEN i + lastPage ELSE i + lastPage - TotalPages
    BY <1>1, <1>3, PosFits
  <2>2. a = IF b + lastPage < TotalPages THEN b + lastPage ELSE b + lastPage - TotalPages
    BY PosFits
  <2>3. QED
    BY <1>1, <1>4, <1>5, <2>1, <2>2
<1>7. CASE p + n > TotalPages
  <2>1. Later(i, n) = i + n - 1
    BY <1>3, <1>7 DEF Later, AfterTail
  <2>2. ~(d < n - 1)
    BY <1>1, <1>2, <1>4, <1>5, <1>6, <1>7
  <2>3. QED
    BY <1>1, <1>5, <2>1, <2>2
<1>8. CASE ~(p + n > TotalPages)
  <2>1. UsedAt(p, n) # {}
    BY <1>1, <1>3, <1>4, <1>8 DEF Stops
  <2>2. PICK j \in 0..(n - 1) : j = FirstUsed(p, n) /\ j \in UsedAt(p, n)
    BY <1>1, <2>1, FirstUsedFits
  <2>3. Later(i, n) = i + j + 1
    BY <1>3, <1>8, <2>2 DEF Later, AfterUsed
  <2>4. ~(d <= j)
    <3>1. SUFFICES ASSUME d <= j PROVE FALSE
      OBVIOUS
    <3>2. p + j \in a..(a + n - 1)
      BY <1>1, <1>4, <1>5, <1>6, <1>8, <2>2, <3>1
    <3>3. p + j \in Free
      BY <3>2 DEF Fits, Run
    <3>4. QED
      BY <2>2, <3>3 DEF UsedAt, Free
  <2>5. QED
    BY <1>1, <1>5, <2>2, <2>3, <2>4
<1>9. QED
  BY <1>7, <1>8

LEMMA ScanFinds ==
    ASSUME PagesInv, NEW n \in 1..MaxRequest, n <= Low + 2, NEW a \in Pages, Fits(a, n)
    PROVE  Scan(n) # -1
<1>1. /\ TotalPages \in Nat \ {0} /\ n \in Nat \ {0} /\ lastPage \in 0..TotalPages
      /\ MaxRequest \in Nat /\ Rounds = 0..(TotalPages + MaxRequest) /\ a \in 0..(TotalPages - 1)
  BY PagesAssumption DEF PagesInv, Rounds, Pages
<1>2. PICK b \in 0..(TotalPages - 1) : b = IF a >= lastPage THEN a - lastPage ELSE a - lastPage + TotalPages
  <2>1. CASE a >= lastPage
    <3>1. a - lastPage \in 0..(TotalPages - 1)
      BY <1>1, <2>1
    <3>2. QED
      BY <2>1, <3>1
  <2>2. CASE ~(a >= lastPage)
    <3>1. a - lastPage + TotalPages \in 0..(TotalPages - 1)
      BY <1>1, <2>2
    <3>2. QED
      BY <2>2, <3>1
  <2>3. QED
    BY <2>1, <2>2
<1>3. Pos(b) = a
  BY <1>1, <1>2, PosFits
<1>4. Stops(b, n)
  <2>1. UsedAt(a, n) = {}
    <3>1. \A j \in 0..(n - 1) : a + j \in Run(a, n)
      BY <1>1 DEF Run
    <3>2. QED
      BY <3>1 DEF UsedAt, Fits, Free
  <2>2. QED
    BY <1>3, <2>1 DEF Stops, Fits
<1> DEFINE S == {i \in 0..b : Found(n)[i] # -1}
<1>5. ASSUME NEW i \in 0..b, \A j \in (i + 1)..b : j \in S PROVE i \in S
  <2>1. i \in Rounds /\ i \in 0..(TotalPages - 1) /\ ~(i >= TotalPages)
    BY <1>1
  <2>2. Found(n)[i] = IF Stops(i, n) THEN Pos(i) ELSE Found(n)[Later(i, n)]
    <3>1. Found(n)[i] = Look(Found(n), n, i)
      BY <2>1, FoundIs
    <3>2. QED
      BY <2>1, <3>1, LookIs
  <2>3. CASE Stops(i, n)
    <3>1. Pos(i) \in Pages /\ -1 \notin Pages
      BY <1>1, <2>1, PosFits DEF Pages
    <3>2. QED
      BY <2>2, <2>3, <3>1
  <2>4. CASE ~Stops(i, n)
    <3>1. i < b
      BY <1>4, <2>1, <2>4
    <3>2. Later(i, n) <= b
      BY <1>3, <2>1, <2>4, <3>1, NothingSkipped
    <3>3. Later(i, n) \in (i + 1)..b
      BY <1>1, <2>1, <2>4, <3>2, LaterFits
    <3>4. QED
      BY <1>5, <2>2, <2>4, <3>3
  <2>5. QED
    BY <2>3, <2>4
<1> HIDE DEF S
<1>6. \A i \in 0..b : i \in S
  BY <1>5, Downwards
<1>7. QED
  BY <1>6 DEF S, Scan
-----------------------------------------------------------------------------
LEMMA RunSize ==
    ASSUME NEW a \in Nat, NEW n \in Nat
    PROVE  IsFiniteSet(Run(a, n)) /\ Cardinality(Run(a, n)) = n
<1>1. a + n - 1 \in Int
  OBVIOUS
<1>2. QED
  BY <1>1, FS_Interval DEF Run

LEMMA PagesFinite ==
    ASSUME NEW S \in SUBSET Pages
    PROVE  IsFiniteSet(S) /\ Cardinality(S) \in Nat
<1>1. IsFiniteSet(Pages)
  BY FS_Interval, PagesAssumption DEF Pages
<1>2. QED
  BY <1>1, FS_Subset, FS_CardinalityType

(* A run of free pages lies in the map and is counted. *)
LEMMA FreeRun ==
    ASSUME PagesInv, NEW n \in 1..MaxRequest, NEW a \in Pages, Run(a, n) \subseteq Free
    PROVE  Fits(a, n) /\ Enough(n)
<1>1. TotalPages \in Nat /\ n \in Nat \ {0} /\ a \in Nat
  BY PagesAssumption DEF Pages
<1>2. a + n - 1 \in Pages
  BY <1>1 DEF Run, Free
<1>3. Fits(a, n)
  BY <1>1, <1>2 DEF Fits, Pages
<1>4. IsFiniteSet(Free) /\ Cardinality(Free) \in Nat
  BY PagesFinite DEF Free
<1>5. n <= Cardinality(Free)
  BY <1>1, <1>4, RunSize, FS_Subset
<1>6. QED
  BY <1>1, <1>3, <1>4, <1>5 DEF Enough, PagesInv

LEMMA PagesInitHolds == PagesInit => PagesInv
<1> SUFFICES ASSUME PagesInit PROVE PagesInv
  OBVIOUS
<1>1. /\ TotalPages \in Nat \ {0} /\ Low \in 2..TotalPages /\ Kernel \subseteq Pages /\ Module \subseteq Pages
      /\ Kernel # {} /\ Kernel \cap Module = {} /\ (Kernel \cup Module) \cap 0..(Low - 1) = {}
  BY PagesAssumption
<1>2. Kept \subseteq Pages /\ used = Kept \cup Module /\ Kept \cap Module = {}
  BY <1>1 DEF PagesInit, Kept, Pages
<1>3. Cardinality(Pages) = TotalPages /\ IsFiniteSet(Pages)
  BY <1>1, FS_Interval DEF Pages
<1>4. /\ IsFiniteSet(Kept) /\ IsFiniteSet(Module) /\ IsFiniteSet(Kernel) /\ IsFiniteSet(Free)
      /\ Cardinality(Kept) \in Nat /\ Cardinality(Module) \in Nat /\ Cardinality(Kernel) \in Nat
      /\ Cardinality(Free) \in Nat
  BY <1>1, <1>2, PagesFinite DEF Free
<1>5. Cardinality(Free) <= TotalPages - 3 - Cardinality(Module)
  <2>1. Cardinality(Kernel) >= 1
    BY <1>1, <1>4, FS_EmptySet
  <2>2. PICK L : L = 0..(Low - 1) /\ IsFiniteSet(L) /\ Cardinality(L) = Low
    BY <1>1, FS_Interval
  <2>3. Cardinality(Kept) = Low + Cardinality(Kernel)
    <3>1. L \cap Kernel = {} /\ Kept = L \cup Kernel
      BY <1>1, <2>2 DEF Kept
    <3>2. Cardinality(L \cup Kernel) = Cardinality(L) + Cardinality(Kernel) - Cardinality({})
      BY <1>4, <2>2, <3>1, FS_Union
    <3>3. QED
      BY <1>1, <1>4, <2>2, <3>1, <3>2, FS_EmptySet
  <2>4. Cardinality(used) = Cardinality(Kept) + Cardinality(Module)
    <3>1. Cardinality(Kept \cup Module) = Cardinality(Kept) + Cardinality(Module) - Cardinality({})
      BY <1>2, <1>4, FS_Union
    <3>2. QED
      BY <1>2, <1>4, <3>1, FS_EmptySet
  <2>5. Cardinality(Free) = TotalPages - Cardinality(used)
    <3>1. Pages \cap used = used
      BY <1>1, <1>2
    <3>2. QED
      BY <1>3, <3>1, FS_Difference DEF Free
  <2>6. QED
    BY <1>1, <1>4, <2>1, <2>3, <2>4, <2>5
<1>6. QED
  BY <1>1, <1>2, <1>4, <1>5 DEF PagesInit, PagesInv

LEMMA AllocTakes ==
    ASSUME PagesInv, NEW n \in 1..MaxRequest, Alloc(n)
    PROVE  PagesInv' /\ FR!Next
<1>1. PICK p \in Pages : p = Scan(n) /\ Fits(p, n)
  BY ScanFits DEF Alloc, Fits
<1>2. /\ granted' = Run(p, n) /\ used' = used \cup Run(p, n) /\ lastPage' = p + n /\ smp' = smp
      /\ freePages' = IF smp THEN freePages - 1 ELSE freePages - n
  BY <1>1 DEF Alloc
<1>3. TotalPages \in Nat \ {0} /\ n \in Nat \ {0} /\ p \in 0..(TotalPages - 1) /\ p + n <= TotalPages
  BY <1>1, PagesAssumption DEF Fits, Pages
<1>4. Run(p, n) \subseteq Free /\ Run(p, n) \subseteq Pages /\ Run(p, n) \cap used = {}
  BY <1>1 DEF Fits, Free
<1>5. Cardinality(Free') = Cardinality(Free) - n /\ Cardinality(Free) \in Nat
  <2>1. Free' = Free \ Run(p, n) /\ Free \cap Run(p, n) = Run(p, n)
    BY <1>2, <1>4 DEF Free
  <2>2. IsFiniteSet(Free) /\ Cardinality(Free) \in Nat
    BY PagesFinite DEF Free
  <2>3. Cardinality(Run(p, n)) = n
    BY <1>3, RunSize
  <2>4. Cardinality(Free \ Run(p, n)) = Cardinality(Free) - Cardinality(Free \cap Run(p, n))
    BY <2>2, FS_Difference
  <2>5. QED
    BY <2>1, <2>2, <2>3, <2>4
<1>6. PagesInv'
  <2>1. /\ Kept \subseteq used' /\ used' \subseteq Pages
        /\ lastPage' \in 0..TotalPages
    <3>1. Kept \subseteq used' /\ used' \subseteq Pages
      BY <1>2, <1>4 DEF PagesInv
    <3>2. p + n \in 0..TotalPages
      BY <1>3
    <3>3. QED
      BY <1>2, <3>1, <3>2
  <2>2. CASE smp
    BY <1>2, <1>3, <1>5, <2>1, <2>2 DEF PagesInv
  <2>3. CASE ~smp
    BY <1>2, <1>3, <1>5, <2>1, <2>3 DEF PagesInv
  <2>4. QED
    BY <2>2, <2>3
<1>7. Run(p, n) \in FR!Runs
  <2>1. p + n - 1 \in 0..(TotalPages - 1) /\ p \in p..(p + n - 1)
    BY <1>3
  <2>2. QED
    BY <1>3, <2>1 DEF Run, FR!Runs
<1>8. FR!Take(Run(p, n))
  BY <1>2, <1>4 DEF FR!Take
<1>9. QED
  BY <1>6, <1>7, <1>8 DEF FR!Next

LEMMA GiveBackGives ==
    ASSUME PagesInv, NEW n \in 1..MaxRequest, NEW a \in Pages, GiveBack(a, n)
    PROVE  PagesInv' /\ FR!Next
<1>1. /\ Run(a, n) \subseteq used \ Kept /\ used' = used \ Run(a, n) /\ granted' = {}
      /\ freePages' = freePages + n /\ smp' = smp /\ lastPage' = lastPage
  BY DEF GiveBack
<1>2. TotalPages \in Nat \ {0} /\ n \in Nat \ {0} /\ a \in 0..(TotalPages - 1)
  BY PagesAssumption DEF Pages
<1>3. Run(a, n) \subseteq Pages /\ Run(a, n) \cap Free = {}
  BY <1>1 DEF PagesInv, Free
<1>4. Cardinality(Free') = Cardinality(Free) + n /\ Cardinality(Free) \in Nat
  <2>1. Free' = Free \cup Run(a, n)
    BY <1>1, <1>3 DEF Free
  <2>2. IsFiniteSet(Free) /\ Cardinality(Free) \in Nat
    BY PagesFinite DEF Free
  <2>3. IsFiniteSet(Run(a, n)) /\ Cardinality(Run(a, n)) = n
    BY <1>2, RunSize
  <2>4. Free \cap Run(a, n) = {} /\ Cardinality({}) = 0
    BY <1>3, FS_EmptySet
  <2>5. QED
    BY <1>2, <2>1, <2>2, <2>3, <2>4, FS_Union
<1>5. PagesInv'
  <2>1. Kept \subseteq used' /\ used' \subseteq Pages
    BY <1>1 DEF PagesInv
  <2>2. CASE smp
    BY <1>1, <1>2, <1>4, <2>1, <2>2 DEF PagesInv
  <2>3. CASE ~smp
    BY <1>1, <1>2, <1>4, <2>1, <2>3 DEF PagesInv
  <2>4. QED
    BY <2>2, <2>3
<1>6. Run(a, n) \in FR!Runs
  <2>1. a \in Run(a, n) /\ a + n - 1 \in Run(a, n)
    BY <1>2 DEF Run
  <2>2. a + n - 1 \in 0..(TotalPages - 1)
    BY <1>3, <2>1 DEF Pages
  <2>3. QED
    BY <1>2, <2>1, <2>2 DEF Run, FR!Runs
<1>7. FR!Give(Run(a, n))
  BY <1>1 DEF FR!Give
<1>8. QED
  BY <1>5, <1>6, <1>7 DEF FR!Next

(* The allocator is Frames, and refuses a request only where no run is free, *)
(* for any number of pages and any sizes of requests.                        *)
THEOREM PagesAreFrames == PagesSpec => PagesImplement
<1>1. PagesInit => FR!Init
  <2>1. SUFFICES ASSUME PagesInit PROVE FR!Init
    OBVIOUS
  <2>2. used \subseteq Pages
    BY <2>1, PagesInitHolds DEF PagesInv
  <2>3. QED
    BY <2>1, <2>2 DEF PagesInit, FR!Init, Pages
<1>2. PagesInv /\ [PagesNext]_pageVars => PagesInv' /\ [FR!Next]_<<used, granted>>
  <2>1. SUFFICES ASSUME PagesInv, [PagesNext]_pageVars PROVE PagesInv' /\ [FR!Next]_<<used, granted>>
    OBVIOUS
  <2>2. ASSUME NEW n \in 1..MaxRequest, Alloc(n) PROVE PagesInv' /\ FR!Next
    BY <2>1, <2>2, AllocTakes
  <2>3. ASSUME NEW n \in 1..MaxRequest, NEW a \in Pages, GiveBack(a, n) PROVE PagesInv' /\ FR!Next
    BY <2>1, <2>3, GiveBackGives
  <2>4. CASE UNCHANGED pageVars
    BY <2>1, <2>4 DEF pageVars, PagesInv, Free
  <2>5. QED
    BY <2>1, <2>2, <2>3, <2>4 DEF PagesNext
<1>3. PagesInv => RequestsFound
  <2>1. SUFFICES ASSUME PagesInv, NEW n \in 1..MaxRequest, n <= Low + 2, NEW a \in Pages, Run(a, n) \subseteq Free
                 PROVE  Enough(n) /\ Scan(n) # -1
    BY DEF RequestsFound
  <2>2. QED
    BY <2>1, FreeRun, ScanFinds
<1>4. QED
  BY PagesInitHolds, <1>1, <1>2, <1>3, PTL DEF PagesSpec, PagesImplement, FR!Spec
-----------------------------------------------------------------------------
(* The pulse pages: what the pages of the chain hold, in a row, is a queue. *)
(* The row is built page by page, so its facts are shown from the first     *)
(* page on.                                                                 *)

(* Concatenation, by what is needed of it. *)
Cat(a, b) == a \o b

LEMMA CatFits ==
    ASSUME NEW T, NEW a \in Seq(T), NEW b \in Seq(T)
    PROVE  Cat(a, b) \in Seq(T) /\ Cat(<< >>, a) = a /\ Cat(a, << >>) = a
BY ConcatProperties, ConcatEmptySeq DEF Cat

LEMMA CatGroups ==
    ASSUME NEW T, NEW a \in Seq(T), NEW b \in Seq(T), NEW c \in Seq(T)
    PROVE  Cat(Cat(a, b), c) = Cat(a, Cat(b, c))
BY ConcatAssociative DEF Cat

LEMMA CatAppends ==
    ASSUME NEW T, NEW a \in Seq(T), NEW x \in T
    PROVE  Append(a, x) = Cat(a, <<x>>) /\ <<x>> \in Seq(T)
<1>1. <<x>> \in Seq(T)
  OBVIOUS
<1>2. Append(a, x) = Cat(a, <<x>>)
  BY AppendIsConcat DEF Cat
<1>3. QED
  BY <1>1, <1>2

LEMMA CatAppended ==
    ASSUME NEW T, NEW a \in Seq(T), NEW b \in Seq(T), NEW x \in T
    PROVE  Cat(a, Append(b, x)) = Append(Cat(a, b), x)
<1>1. PICK c \in Seq(T) : c = <<x>>
  BY CatAppends
<1>2. PICK d \in Seq(T) : d = Cat(a, b)
  BY CatFits
<1>3. Append(b, x) = Cat(b, c) /\ Append(d, x) = Cat(d, c)
  BY <1>1, CatAppends
<1>4. Cat(Cat(a, b), c) = Cat(a, Cat(b, c))
  BY CatGroups
<1>5. QED
  BY <1>2, <1>3, <1>4

(* What stands in front of a queue is its head. *)
LEMMA CatHead ==
    ASSUME NEW T, NEW q \in Seq(T), NEW e \in T
    PROVE  Cat(<<e>>, q) # << >> /\ Tail(Cat(<<e>>, q)) = q
<1>1. PICK c \in Seq(T) : c = Cat(<<e>>, q)
  BY CatAppends, CatFits
<1>2. Len(c) = 1 + Len(q) /\ \A i \in 1..(1 + Len(q)) : c[i] = IF i <= 1 THEN <<e>>[i] ELSE q[i - 1]
  <2>1. <<e>> \in Seq(T) /\ Len(<<e>>) = 1
    OBVIOUS
  <2>2. QED
    BY <1>1, <2>1, ConcatProperties DEF Cat
<1>3. Len(q) \in Nat /\ c # << >>
  BY <1>2, LenProperties
<1>4. Tail(c) \in Seq(T) /\ Len(Tail(c)) = Len(c) - 1 /\ \A i \in 1..Len(Tail(c)) : Tail(c)[i] = c[i + 1]
  BY <1>3, HeadTailProperties
<1>5. \A i \in 1..Len(q) : Tail(c)[i] = q[i]
  BY <1>2, <1>3, <1>4
<1>6. Tail(c) = q
  BY <1>2, <1>3, <1>4, <1>5, SeqEqual
<1>7. QED
  BY <1>1, <1>3, <1>6

(* FlattenSeq as the function its definition describes. *)
Step(f, s, i) == IF i = 1 THEN s[i] ELSE Cat(f[i - 1], s[i])
IsRow(f, s, n) == \A i \in 1..n : f[i] = Step(f, s, i)

LEMMA StepFits ==
    ASSUME NEW T, NEW s \in Seq(Seq(T)), NEW i \in 1..Len(s), NEW f,
           i # 1 => f[i - 1] \in Seq(T)
    PROVE  Step(f, s, i) \in Seq(T)
<1>1. s[i] \in Seq(T)
  BY ElementOfSeq
<1>2. QED
  BY <1>1, CatFits DEF Step

LEMMA RowExists ==
    ASSUME NEW T, NEW s \in Seq(Seq(T))
    PROVE  \E f \in [1..Len(s) -> Seq(T)] : \A i \in 1..Len(s) : f[i] = Step(f, s, i)
<1> DEFINE n == Len(s)
           Solved(k) == \E f \in [1..n -> Seq(T)] : \A i \in 1..k : f[i] = Step(f, s, i)
           S == {k \in 0..n : Solved(k)}
<1>1. n \in Nat
  BY LenProperties
<1>2. 0 \in S
  <2>1. [i \in 1..n |-> << >>] \in [1..n -> Seq(T)]
    BY EmptySeq
  <2>2. Solved(0)
    BY <2>1
  <2>3. QED
    BY <1>1, <2>2
<1>3. ASSUME NEW k \in 0..(n - 1), k \in S PROVE k + 1 \in S
  <2>1. PICK f \in [1..n -> Seq(T)] : \A i \in 1..k : f[i] = Step(f, s, i)
    BY <1>3
  <2>2. PICK m : m = k + 1
    OBVIOUS
  <2>3. m \in 1..n /\ k \in Nat /\ (m # 1 => m - 1 \in 1..n)
    BY <1>1, <2>2
  <2> HIDE DEF n
  <2>4. Step(f, s, m) \in Seq(T)
    <3>1. m # 1 => f[m - 1] \in Seq(T)
      BY <2>3
    <3>2. QED
      BY <2>3, <3>1, StepFits DEF n
  <2> DEFINE g == [f EXCEPT ![m] = Step(f, s, m)]
  <2>5. g \in [1..n -> Seq(T)] /\ g[m] = Step(f, s, m) /\ \A i \in 1..n : i # m => g[i] = f[i]
    BY <2>3, <2>4
  <2> HIDE DEF g
  <2>6. ASSUME NEW i \in 1..m PROVE g[i] = Step(g, s, i)
    <3>1. i \in 1..n /\ (i # m => i \in 1..k) /\ (i # 1 => i - 1 \in 1..n /\ i - 1 # m)
      BY <1>1, <2>2, <2>3
    <3>2. i # 1 => g[i - 1] = f[i - 1]
      BY <2>5, <3>1
    <3>3. Step(g, s, i) = Step(f, s, i)
      BY <3>2 DEF Step
    <3>4. g[i] = Step(f, s, i)
      BY <2>1, <2>5, <3>1
    <3>5. QED
      BY <3>3, <3>4
  <2>7. Solved(m)
    BY <2>5, <2>6
  <2>8. k + 1 \in 0..n
    BY <1>1
  <2> HIDE DEF Solved
  <2>9. QED
    BY <2>2, <2>7, <2>8
<1> HIDE DEF S, Solved
<1>4. n \in S
  BY <1>1, <1>2, <1>3, Upwards
<1>5. QED
  BY <1>4 DEF S, Solved

(* A function that is built in the same way is the same. *)
LEMMA RowUnique ==
    ASSUME NEW s, NEW n \in Nat, NEW f, NEW g, IsRow(f, s, n), IsRow(g, s, n)
    PROVE  \A i \in 1..n : f[i] = g[i]
<1> DEFINE S == {k \in 0..n : \A i \in 1..k : f[i] = g[i]}
<1>1. 0 \in S
  OBVIOUS
<1>2. ASSUME NEW k \in 0..(n - 1), k \in S PROVE k + 1 \in S
  <2>1. \A i \in 1..k : f[i] = g[i]
    BY <1>2
  <2>2. ASSUME NEW i \in 1..(k + 1) PROVE f[i] = g[i]
    <3>1. i \in 1..n /\ (i # 1 => i - 1 \in 1..k)
      OBVIOUS
    <3>2. Step(f, s, i) = Step(g, s, i)
      BY <2>1, <3>1 DEF Step
    <3>3. f[i] = Step(f, s, i) /\ g[i] = Step(g, s, i)
      BY <3>1 DEF IsRow
    <3>4. QED
      BY <3>2, <3>3
  <2>3. QED
    BY <2>2
<1> HIDE DEF S
<1>3. n \in S
  BY <1>1, <1>2, Upwards
<1>4. QED
  BY <1>3 DEF S

(* FlattenSeq finds the last of a row, whichever row it is. *)
LEMMA RowFound ==
    ASSUME NEW T, NEW s \in Seq(Seq(T)), NEW n \in Nat, n = Len(s), n # 0, NEW g, IsRow(g, s, n)
    PROVE  FlattenSeq(s) = g[n] /\ \A i \in 1..n : g[i] \in Seq(T)
<1> DEFINE R(f) == [i \in 1..Len(s) |-> IF i = 1 THEN s[i] ELSE f[i - 1] \o s[i]]
           row == CHOOSE f : f = R(f)
<1>1. PICK f \in [1..n -> Seq(T)] : IsRow(f, s, n)
  BY RowExists DEF IsRow
<1>2. f = R(f)
  <2>1. \A i \in 1..Len(s) : f[i] = R(f)[i]
    BY <1>1 DEF IsRow, Step, Cat
  <2>2. f = [i \in 1..Len(s) |-> f[i]]
    OBVIOUS
  <2>3. QED
    BY <2>1, <2>2
<1>3. row = R(row)
  <2> HIDE DEF R
  <2>1. QED
    BY <1>2, Zenon
<1>4. FlattenSeq(s) = row[Len(s)]
  <2>1. Len(s) # 0
    OBVIOUS
  <2>2. QED
    BY <2>1, Zenon DEF FlattenSeq
<1>5. PICK h : h = row
  OBVIOUS
<1> HIDE DEF row
<1>6. IsRow(h, s, n) /\ FlattenSeq(s) = h[n]
  BY <1>3, <1>4, <1>5 DEF IsRow, Step, Cat
<1> HIDE DEF R
<1>7. (\A i \in 1..n : h[i] = g[i]) /\ (\A i \in 1..n : f[i] = g[i])
  <2>1. \A i \in 1..n : h[i] = g[i]
    BY <1>6, RowUnique
  <2>2. PICK x : x = f
    OBVIOUS
  <2>3. \A i \in 1..n : x[i] = g[i]
    BY <1>1, <2>2, RowUnique
  <2>4. QED
    BY <2>1, <2>2, <2>3
<1>8. n \in 1..n
  OBVIOUS
<1>9. QED
  BY <1>1, <1>6, <1>7, <1>8

LEMMA RowOf ==
    ASSUME NEW T, NEW s \in Seq(Seq(T)), NEW n \in Nat, n = Len(s), n # 0
    PROVE  \E g : IsRow(g, s, n) /\ FlattenSeq(s) = g[n] /\ \A i \in 1..n : g[i] \in Seq(T)
<1>1. PICK f : IsRow(f, s, n)
  BY RowExists DEF IsRow
<1>2. FlattenSeq(s) = f[n] /\ \A i \in 1..n : f[i] \in Seq(T)
  BY <1>1, RowFound
<1>3. QED
  BY <1>1, <1>2

LEMMA RowGrows ==
    ASSUME NEW s, NEW n \in Nat, NEW f, IsRow(f, s, n), NEW i \in 1..n
    PROVE  f[i] = IF i = 1 THEN s[i] ELSE Cat(f[i - 1], s[i])
<1>1. f[i] = Step(f, s, i)
  BY DEF IsRow
<1>2. QED
  BY <1>1 DEF Step

LEMMA FlattenEmpty == FlattenSeq(<< >>) = << >>
BY EmptySeq DEF FlattenSeq

LEMMA FlattenFits ==
    ASSUME NEW T, NEW s \in Seq(Seq(T))
    PROVE  FlattenSeq(s) \in Seq(T)
<1>1. CASE s = << >>
  BY <1>1, FlattenEmpty, EmptySeq
<1>2. CASE s # << >>
  <2>1. PICK n \in Nat : n = Len(s) /\ n # 0
    BY <1>2, EmptySeq
  <2>2. PICK g : FlattenSeq(s) = g[n] /\ \A i \in 1..n : g[i] \in Seq(T)
    BY <2>1, RowOf
  <2>3. n \in 1..n
    BY <2>1
  <2>4. QED
    BY <2>2, <2>3
<1>3. QED
  BY <1>1, <1>2

(* One sequence more at the end. *)
LEMMA FlattenMore ==
    ASSUME NEW T, NEW s \in Seq(Seq(T)), NEW t \in Seq(Seq(T)), Len(t) = Len(s) + 1,
           \A i \in 1..Len(s) : t[i] = s[i]
    PROVE  FlattenSeq(t) = Cat(FlattenSeq(s), t[Len(t)])
<1>1. Len(s) \in Nat /\ Len(t) \in Nat
  BY LenProperties
<1>2. PICK n \in Nat, m \in Nat : n = Len(s) /\ m = Len(t) /\ m = n + 1 /\ m # 0
  BY <1>1
<1>3. PICK g : IsRow(g, t, m) /\ FlattenSeq(t) = g[m]
  BY <1>2, RowOf
<1>4. m \in 1..m /\ m - 1 = n
  BY <1>2
<1>5. g[m] = IF m = 1 THEN t[m] ELSE Cat(g[m - 1], t[m])
  <2>1. g[m] = Step(g, t, m)
    BY <1>3, <1>4 DEF IsRow
  <2>2. QED
    BY <2>1 DEF Step
<1>6. CASE n = 0
  <2>1. t[m] \in Seq(T)
    BY <1>2, <1>4, ElementOfSeq
  <2>2. s = << >>
    BY <1>2, <1>6, EmptySeq
  <2>3. FlattenSeq(t) = t[m]
    BY <1>2, <1>3, <1>5, <1>6
  <2>4. Cat(<< >>, t[m]) = t[m]
    BY <2>1, CatFits
  <2>5. QED
    BY <1>2, <2>2, <2>3, <2>4, FlattenEmpty
<1>7. CASE n # 0
  <2>1. IsRow(g, s, n)
    <3>1. ASSUME NEW i \in 1..n PROVE g[i] = Step(g, s, i)
      <4>1. i \in 1..m /\ t[i] = s[i]
        BY <1>2
      <4>2. g[i] = Step(g, t, i)
        BY <1>3, <4>1 DEF IsRow
      <4>3. QED
        BY <4>1, <4>2 DEF Step
    <3>2. QED
      BY <3>1 DEF IsRow
  <2>2. FlattenSeq(s) = g[n]
    BY <1>2, <1>7, <2>1, RowFound
  <2>3. QED
    BY <1>2, <1>3, <1>4, <1>5, <1>7, <2>2
<1>8. QED
  BY <1>6, <1>7

(* The last sequence is longer by one. *)
LEMMA FlattenLonger ==
    ASSUME NEW T, NEW s \in Seq(Seq(T)), NEW t \in Seq(Seq(T)), NEW x \in T,
           s # << >>, Len(t) = Len(s), \A i \in 1..(Len(s) - 1) : t[i] = s[i],
           t[Len(s)] = Append(s[Len(s)], x)
    PROVE  FlattenSeq(t) = Append(FlattenSeq(s), x)
<1>1. PICK n \in Nat : n = Len(s) /\ n # 0
  BY EmptySeq
<1>2. PICK p : p = [i \in 1..(n - 1) |-> s[i]]
  OBVIOUS
<1>3. \A i \in 1..(n - 1) : s[i] \in Seq(T)
  BY <1>1, ElementOfSeq
<1>4. p \in Seq(Seq(T)) /\ Len(p) = n - 1
  BY <1>1, <1>2, <1>3
<1>5. \A i \in 1..Len(p) : s[i] = p[i] /\ t[i] = p[i]
  BY <1>1, <1>2, <1>4
<1>6. Len(s) = Len(p) + 1 /\ Len(t) = Len(p) + 1
  BY <1>1, <1>4
<1>7. FlattenSeq(s) = Cat(FlattenSeq(p), s[n])
  BY <1>1, <1>4, <1>5, <1>6, FlattenMore
<1>8. FlattenSeq(t) = Cat(FlattenSeq(p), t[n])
  BY <1>1, <1>4, <1>5, <1>6, FlattenMore
<1>9. s[n] \in Seq(T) /\ FlattenSeq(p) \in Seq(T)
  BY <1>1, <1>4, ElementOfSeq, FlattenFits
<1>10. PICK a \in Seq(T), b \in Seq(T) : a = FlattenSeq(p) /\ b = s[n]
  BY <1>9
<1>11. Cat(a, Append(b, x)) = Append(Cat(a, b), x)
  BY CatAppended
<1>12. QED
  BY <1>1, <1>7, <1>8, <1>10, <1>11

(* The first sequence is shorter by its first element. *)
LEMMA FlattenShorter ==
    ASSUME NEW T, NEW s \in Seq(Seq(T)), NEW t \in Seq(Seq(T)), NEW e \in T,
           s # << >>, Len(t) = Len(s), \A i \in 2..Len(s) : t[i] = s[i],
           s[1] = Cat(<<e>>, t[1])
    PROVE  FlattenSeq(s) = Cat(<<e>>, FlattenSeq(t))
<1>1. PICK n \in Nat : n = Len(s) /\ n # 0 /\ n = Len(t)
  BY EmptySeq
<1>2. PICK c \in Seq(T) : c = <<e>>
  <2>1. <<e>> \in Seq(T)
    OBVIOUS
  <2>2. QED
    BY <2>1
<1>3. PICK g : IsRow(g, t, n) /\ FlattenSeq(t) = g[n] /\ \A i \in 1..n : g[i] \in Seq(T)
  BY <1>1, RowOf
<1>4. PICK f : f = [i \in 1..n |-> Cat(c, g[i])]
  OBVIOUS
<1>5. ASSUME NEW i \in 1..n PROVE f[i] = Step(f, s, i)
  <2>1. f[i] = Cat(c, g[i])
    BY <1>4
  <2>2. g[i] = IF i = 1 THEN t[i] ELSE Cat(g[i - 1], t[i])
    BY <1>3, RowGrows
  <2>3. CASE i = 1
    BY <1>2, <2>1, <2>2, <2>3 DEF Step
  <2>4. CASE i # 1
    <3>1. i - 1 \in 1..n /\ i \in 2..n
      BY <2>4
    <3>2. f[i - 1] = Cat(c, g[i - 1]) /\ g[i - 1] \in Seq(T) /\ t[i] = s[i]
      BY <1>1, <1>3, <1>4, <3>1
    <3>3. t[i] \in Seq(T)
      BY <1>1, ElementOfSeq
    <3>4. PICK a \in Seq(T), b \in Seq(T) : a = g[i - 1] /\ b = t[i]
      BY <3>2, <3>3
    <3>5. Cat(Cat(c, a), b) = Cat(c, Cat(a, b))
      BY CatGroups
    <3>6. QED
      BY <2>1, <2>2, <2>4, <3>2, <3>4, <3>5 DEF Step
  <2>5. QED
    BY <2>3, <2>4
<1>6. IsRow(f, s, n)
  BY <1>5 DEF IsRow
<1>7. FlattenSeq(s) = f[n] /\ n \in 1..n
  BY <1>1, <1>6, RowFound
<1>8. QED
  BY <1>2, <1>3, <1>4, <1>7

(* The first sequence, of one element, goes. *)
LEMMA FlattenRest ==
    ASSUME NEW T, NEW s \in Seq(Seq(T)), NEW t \in Seq(Seq(T)), NEW e \in T,
           Len(s) = Len(t) + 1, \A i \in 1..Len(t) : t[i] = s[i + 1],
           s[1] = <<e>>
    PROVE  FlattenSeq(s) = Cat(<<e>>, FlattenSeq(t))
<1>1. Len(s) \in Nat /\ Len(t) \in Nat
  BY LenProperties
<1>2. PICK n \in Nat, m \in Nat : n = Len(t) /\ m = Len(s) /\ m = n + 1 /\ m # 0
  BY <1>1
<1>3. PICK c \in Seq(T) : c = <<e>>
  <2>1. <<e>> \in Seq(T)
    OBVIOUS
  <2>2. QED
    BY <2>1
<1>4. PICK h : IsRow(h, s, m) /\ FlattenSeq(s) = h[m]
  BY <1>2, RowOf
<1>5. CASE n = 0
  <2>1. t = << >> /\ 1 \in 1..m /\ m = 1
    <3>1. t = << >>
      BY <1>2, <1>5, EmptySeq
    <3>2. QED
      BY <1>2, <1>5, <3>1
  <2>2. FlattenSeq(s) = c
    BY <1>3, <1>4, <2>1, RowGrows
  <2>3. QED
    BY <1>3, <2>1, <2>2, FlattenEmpty, CatFits
<1>6. CASE n # 0
  <2>1. PICK g : IsRow(g, t, n) /\ FlattenSeq(t) = g[n] /\ \A i \in 1..n : g[i] \in Seq(T)
    <3>1. PICK k \in Nat : k = Len(t) /\ k # 0 /\ k = n
      BY <1>2, <1>6
    <3>2. \E g : IsRow(g, t, k) /\ FlattenSeq(t) = g[k] /\ \A i \in 1..k : g[i] \in Seq(T)
      BY <3>1, RowOf
    <3>3. QED
      BY <3>1, <3>2
  <2>2. PICK f : f = [i \in 1..m |-> IF i = 1 THEN c ELSE Cat(c, g[i - 1])]
    OBVIOUS
  <2>3. ASSUME NEW i \in 1..m PROVE f[i] = Step(f, s, i)
    <3>1. f[i] = IF i = 1 THEN c ELSE Cat(c, g[i - 1])
      BY <2>2
    <3>2. CASE i = 1
      BY <1>3, <3>1, <3>2 DEF Step
    <3>3. CASE i # 1
      <4>1. PICK j \in 1..n : i = j + 1
        BY <1>2, <3>3
      <4>2. i - 1 = j /\ t[j] = s[i] /\ t[j] \in Seq(T)
        BY <1>2, <4>1, ElementOfSeq
      <4>3. g[j] = IF j = 1 THEN t[j] ELSE Cat(g[j - 1], t[j])
        BY <2>1, RowGrows
      <4>4. Step(f, s, i) = Cat(f[j], t[j])
        BY <3>3, <4>2 DEF Step
      <4>5. j \in 1..m /\ f[j] = IF j = 1 THEN c ELSE Cat(c, g[j - 1])
        BY <1>2, <2>2
      <4>6. CASE j = 1
        BY <3>1, <3>3, <4>2, <4>3, <4>4, <4>5, <4>6
      <4>7. CASE j # 1
        <5>1. g[j - 1] \in Seq(T)
          <6>1. j - 1 \in 1..n
            BY <4>7
          <6>2. QED
            BY <2>1, <6>1
        <5>2. PICK a \in Seq(T), b \in Seq(T) : a = g[j - 1] /\ b = t[j]
          BY <4>2, <5>1
        <5>3. Cat(Cat(c, a), b) = Cat(c, Cat(a, b))
          BY CatGroups
        <5>4. QED
          BY <3>1, <3>3, <4>2, <4>3, <4>4, <4>5, <4>7, <5>2, <5>3
      <4>8. QED
        BY <4>6, <4>7
    <3>4. QED
      BY <3>2, <3>3
  <2>4. IsRow(f, s, m)
    BY <2>3 DEF IsRow
  <2>5. FlattenSeq(s) = f[m] /\ m \in 1..m /\ m # 1 /\ m - 1 = n
    BY <1>2, <1>6, <2>4, RowFound
  <2>6. QED
    BY <1>3, <2>1, <2>2, <2>5
<1>7. QED
  BY <1>5, <1>6
-----------------------------------------------------------------------------
(* A page's pulses are those in the window that its header describes.       *)
Slot == Items \cup {Junk}
PageType == [first : 1..(SlotCount - 1), count : Nat, slots : [1..(SlotCount - 1) -> Slot]]
IsPage(page) == page \in PageType /\ page.first + page.count <= SlotCount
Window(page) == SubSeq(page.slots, page.first, page.first + page.count - 1)

LEMMA WindowFits ==
    ASSUME NEW page, IsPage(page)
    PROVE  /\ Window(page) \in Seq(Slot) /\ Len(Window(page)) = page.count
           /\ \A i \in 1..page.count : Window(page)[i] = page.slots[page.first + i - 1]
<1>1. PICK a \in 1..(SlotCount - 1), n \in Nat, s \in [1..(SlotCount - 1) -> Slot] :
        a = page.first /\ n = page.count /\ s = page.slots /\ a + n <= SlotCount
  BY DEF IsPage, PageType
<1>2. PICK b \in Int : b = a + n - 1
  BY SlotCountAssumption
<1>3. a \in Int /\ \A i \in a..b : s[i] \in Slot
  BY <1>1, <1>2, SlotCountAssumption
<1>4. /\ SubSeq(s, a, b) \in Seq(Slot)
      /\ Len(SubSeq(s, a, b)) = IF a <= b THEN b - a + 1 ELSE 0
      /\ \A i \in 1..(b - a + 1) : SubSeq(s, a, b)[i] = s[a + i - 1]
  BY <1>3, SubSeqProperties
<1>5. b - a + 1 = n /\ (a <= b <=> n # 0)
  BY <1>2, SlotCountAssumption
<1>6. Window(page) = SubSeq(s, a, b)
  BY <1>1, <1>2 DEF Window
<1>7. QED
  BY <1>1, <1>4, <1>5, <1>6

(* A pulse that is stored comes last. *)
LEMMA StoreAppends ==
    ASSUME NEW page, IsPage(page), ~IsFull(page), NEW x \in Items
    PROVE  IsPage(Store(page, x)) /\ Window(Store(page, x)) = Append(Window(page), x)
<1>1. PICK a \in 1..(SlotCount - 1), n \in Nat, s \in [1..(SlotCount - 1) -> Slot] :
        a = page.first /\ n = page.count /\ s = page.slots /\ a + n < SlotCount
  BY SlotCountAssumption DEF IsPage, PageType, IsFull
<1>2. PICK g : g = Store(page, x)
  OBVIOUS
<1>3. x \in Slot /\ a + n \in 1..(SlotCount - 1) /\ n + 1 \in Nat
  BY <1>1, SlotCountAssumption DEF Slot
<1>4. g \in PageType /\ g.first = a /\ g.count = n + 1 /\ g.slots = [s EXCEPT ![a + n] = x]
  BY <1>1, <1>2, <1>3 DEF Store, IsPage, PageType
<1>5. IsPage(g)
  BY <1>1, <1>4, SlotCountAssumption DEF IsPage
<1>6. PICK v \in Seq(Slot), w \in Seq(Slot) : v = Window(page) /\ w = Window(g)
  BY <1>5, WindowFits
<1>7. /\ Len(v) = n /\ \A i \in 1..n : v[i] = s[a + i - 1]
      /\ Len(w) = n + 1 /\ \A i \in 1..(n + 1) : w[i] = g.slots[a + i - 1]
  <2>1. Len(v) = n /\ \A i \in 1..n : v[i] = s[a + i - 1]
    BY <1>1, <1>6, WindowFits
  <2>2. Len(w) = n + 1 /\ \A i \in 1..(n + 1) : w[i] = g.slots[a + i - 1]
    BY <1>4, <1>5, <1>6, WindowFits
  <2>3. QED
    BY <2>1, <2>2
<1>8. ASSUME NEW i \in 1..(n + 1) PROVE w[i] = IF i = n + 1 THEN x ELSE v[i]
  <2>1. a + i - 1 \in 1..(SlotCount - 1) /\ (a + i - 1 = a + n <=> i = n + 1)
    <3>1. SlotCount \in Nat /\ a + n <= SlotCount - 1
      BY <1>1, SlotCountAssumption
    <3>2. QED
      BY <3>1
  <2>2. g.slots[a + i - 1] = IF i = n + 1 THEN x ELSE s[a + i - 1]
    BY <1>4, <2>1
  <2>3. i # n + 1 => i \in 1..n
    OBVIOUS
  <2>4. QED
    BY <1>7, <2>2, <2>3
<1>9. PICK u \in Seq(Slot) : u = Append(v, x)
  BY <1>3, AppendProperties
<1>10. Len(u) = n + 1 /\ (\A i \in 1..n : u[i] = v[i]) /\ u[n + 1] = x
  BY <1>3, <1>7, <1>9, AppendProperties
<1>11. ASSUME NEW i \in 1..Len(u) PROVE u[i] = w[i]
  <2>1. i \in 1..(n + 1) /\ (i # n + 1 => i \in 1..n)
    BY <1>10
  <2>2. w[i] = IF i = n + 1 THEN x ELSE v[i]
    BY <1>8, <2>1
  <2>3. QED
    BY <1>10, <2>1, <2>2
<1>12. u = w
  BY <1>7, <1>10, <1>11, SeqEqual
<1>13. QED
  BY <1>2, <1>5, <1>6, <1>9, <1>12

LEMMA NewPageFits == IsPage(NewPage) /\ ~IsFull(NewPage) /\ Window(NewPage) = << >>
<1>1. IsPage(NewPage) /\ ~IsFull(NewPage)
  BY SlotCountAssumption DEF NewPage, IsPage, IsFull, PageType, Slot
<1>2. Window(NewPage) \in Seq(Slot) /\ Len(Window(NewPage)) = 0
  BY <1>1, WindowFits DEF NewPage
<1>3. QED
  BY <1>1, <1>2, EmptySeq

(* A pulse that is consumed came first; what is left is on the page, unless *)
(* every slot was used.                                                     *)
LEMMA ConsumeTakes ==
    ASSUME NEW page, IsPage(page), page.count # 0
    PROVE  \E e \in Slot :
             \/ Consume(page).first = SlotCount /\ Window(page) = <<e>>
             \/ /\ Consume(page).first # SlotCount /\ IsPage(Consume(page))
                /\ Window(page) = Cat(<<e>>, Window(Consume(page)))
                /\ IsFull(page) => IsFull(Consume(page)) /\ Consume(page).count > 0
<1>1. PICK a \in 1..(SlotCount - 1), n \in Nat, s \in [1..(SlotCount - 1) -> Slot] :
        a = page.first /\ n = page.count /\ s = page.slots /\ a + n <= SlotCount /\ n # 0
  BY DEF IsPage, PageType
<1>2. PICK g : g = Consume(page)
  OBVIOUS
<1>3. PICK e \in Slot : e = s[a]
  OBVIOUS
<1>4. PICK v \in Seq(Slot) : v = Window(page)
  BY WindowFits
<1>5. Len(v) = n /\ \A i \in 1..n : v[i] = s[a + i - 1]
  BY <1>1, <1>4, WindowFits
<1>6. PICK c \in Seq(Slot) : c = <<e>>
  <2>1. <<e>> \in Seq(Slot)
    OBVIOUS
  <2>2. QED
    BY <2>1
<1>7. Len(c) = 1 /\ c[1] = e
  BY <1>6
<1>8. /\ g.slots = s /\ g.count = n - 1
      /\ g.first = IF n - 1 = 0 /\ a + 1 # SlotCount THEN 1 ELSE a + 1
      /\ g = [first |-> g.first, count |-> g.count, slots |-> s]
  BY <1>1, <1>2 DEF Consume, IsPage, PageType
<1>9. CASE g.first = SlotCount
  <2>1. n = 1
    BY <1>1, <1>8, <1>9, SlotCountAssumption
  <2>2. v[1] = e
    BY <1>3, <1>5, <2>1
  <2>3. v = c
    BY <1>5, <1>7, <2>1, <2>2, SeqEqual
  <2>4. QED
    BY <1>2, <1>4, <1>6, <1>9, <2>3
<1>10. CASE g.first # SlotCount
  <2>1. g.first \in 1..(SlotCount - 1) /\ g.count \in Nat /\ g.first + g.count <= SlotCount
    <3>1. g.count = n - 1 /\ n - 1 \in Nat /\ SlotCount \in Nat /\ SlotCount > 2
      BY <1>1, <1>8, SlotCountAssumption
    <3>2. CASE n - 1 = 0 /\ a + 1 # SlotCount
      BY <1>8, <3>1, <3>2
    <3>3. CASE ~(n - 1 = 0 /\ a + 1 # SlotCount)
      <4>1. g.first = a + 1
        BY <1>8, <3>3
      <4>2. a + 1 # SlotCount /\ a + 1 \in 1..(SlotCount - 1) /\ a + 1 + (n - 1) <= SlotCount
        <5>1. PICK N \in Nat : N = SlotCount
          BY <3>1
        <5>2. a \in Nat /\ a >= 1 /\ a <= N - 1 /\ n >= 1 /\ a + n <= N
          BY <1>1, <5>1
        <5>3. a + 1 # N
          BY <1>10, <4>1, <5>1
        <5>4. a + 1 \in 1..(N - 1) /\ a + 1 + (n - 1) <= N
          BY <5>2, <5>3
        <5>5. QED
          BY <5>1, <5>3, <5>4
      <4>3. QED
        BY <3>1, <4>1, <4>2
    <3>4. QED
      BY <3>2, <3>3
  <2>2. IsPage(g)
    BY <1>8, <2>1 DEF IsPage, PageType
  <2>3. PICK w \in Seq(Slot) : w = Window(g)
    BY <2>2, WindowFits
  <2>4. Len(w) = n - 1 /\ \A i \in 1..(n - 1) : w[i] = s[g.first + i - 1]
    BY <1>8, <2>2, <2>3, WindowFits
  <2>5. PICK u \in Seq(Slot) : u = Cat(c, w)
    BY CatFits
  <2>6. Len(u) = n /\ \A i \in 1..n : u[i] = IF i <= 1 THEN c[i] ELSE w[i - 1]
    <3>1. /\ Len(c \o w) = Len(c) + Len(w)
          /\ \A i \in 1..(Len(c) + Len(w)) : (c \o w)[i] = IF i <= Len(c) THEN c[i] ELSE w[i - Len(c)]
      BY ConcatProperties
    <3>2. Len(c) + Len(w) = n
      BY <1>7, <2>4
    <3>3. QED
      BY <1>7, <2>5, <3>1, <3>2 DEF Cat
  <2>7. ASSUME NEW i \in 1..n PROVE u[i] = v[i]
    <3>1. CASE i = 1
      BY <1>3, <1>5, <1>7, <2>6, <3>1
    <3>2. CASE i # 1
      <4>1. i - 1 \in 1..(n - 1) /\ n - 1 # 0
        BY <3>2
      <4>2. g.first = a + 1
        BY <1>8, <4>1
      <4>3. w[i - 1] = s[(a + 1) + (i - 1) - 1]
        BY <2>4, <4>1, <4>2
      <4>4. (a + 1) + (i - 1) - 1 = a + i - 1
        BY SlotCountAssumption
      <4>5. QED
        BY <1>5, <2>6, <3>2, <4>3, <4>4
    <3>3. QED
      BY <3>1, <3>2
  <2>8. u = v
    BY <1>5, <2>6, <2>7, SeqEqual
  <2>9. IsFull(page) => IsFull(g) /\ g.count > 0
    <3>1. SUFFICES ASSUME a + n = SlotCount PROVE g.first + g.count = SlotCount /\ g.count > 0
      BY <1>1 DEF IsFull
    <3>2. a + 1 # SlotCount
      BY <1>1, <1>8, <1>10, SlotCountAssumption
    <3>3. n - 1 > 0
      BY <1>1, <3>1, <3>2, SlotCountAssumption
    <3>4. g.first = a + 1 /\ g.count = n - 1
      BY <1>8, <3>3
    <3>5. (a + 1) + (n - 1) = a + n
      BY SlotCountAssumption
    <3>6. QED
      BY <3>1, <3>3, <3>4, <3>5
  <2>10. QED
    BY <1>2, <1>4, <1>6, <1>10, <2>2, <2>3, <2>5, <2>8, <2>9
<1>11. QED
  BY <1>9, <1>10
-----------------------------------------------------------------------------
(* The chain: all pages but the last are full and hold something.           *)
Windows(p) == [i \in DOMAIN p |-> Window(p[i])]
SoundPages(p) ==
    /\ p \in Seq(PageType)
    /\ \A i \in 1..Len(p) : IsPage(p[i])
    /\ \A i \in 1..(Len(p) - 1) : IsFull(p[i]) /\ p[i].count > 0
PulsesInv == SoundPages(pages) /\ last = Len(pages)

LEMMA WindowsFit ==
    ASSUME NEW p, SoundPages(p)
    PROVE  /\ Windows(p) \in Seq(Seq(Slot)) /\ Len(Windows(p)) = Len(p)
           /\ \A i \in 1..Len(p) : Windows(p)[i] = Window(p[i])
<1>1. PICK n \in Nat : n = Len(p)
  BY LenProperties DEF SoundPages
<1>2. DOMAIN p = 1..n
  BY <1>1, LenProperties DEF SoundPages
<1>3. \A i \in 1..n : Window(p[i]) \in Seq(Slot)
  BY <1>1, WindowFits DEF SoundPages
<1>4. PICK s : s = [i \in 1..n |-> Window(p[i])]
  OBVIOUS
<1>5. s \in Seq(Seq(Slot)) /\ Len(s) = n /\ \A i \in 1..n : s[i] = Window(p[i])
  BY <1>3, <1>4
<1>6. Windows(p) = s
  BY <1>2, <1>4 DEF Windows
<1>7. QED
  BY <1>1, <1>5, <1>6

LEMMA ContentsAre ==
    ASSUME NEW p, p = pages PROVE Contents = FlattenSeq(Windows(p))
BY DEF Contents, Windows, Window

(* A page that is appended to full ones. *)
LEMMA PageAppends ==
    ASSUME NEW p, SoundPages(p), NEW g, IsPage(g), NEW x \in Slot, Window(g) = <<x>>,
           p # << >> => IsFull(p[Len(p)]), NEW q, q = Append(p, g)
    PROVE  /\ SoundPages(q) /\ Len(q) = Len(p) + 1
           /\ FlattenSeq(Windows(q)) = Append(FlattenSeq(Windows(p)), x)
<1>1. PICK n \in Nat : n = Len(p)
  BY LenProperties DEF SoundPages
<1>2. /\ q \in Seq(PageType) /\ Len(q) = n + 1 /\ q[n + 1] = g
      /\ \A i \in 1..n : q[i] = p[i]
  BY <1>1, AppendProperties DEF SoundPages, IsPage
<1>3. ASSUME NEW i \in 1..(n + 1) PROVE IsPage(q[i])
  BY <1>1, <1>2 DEF SoundPages
<1>4. ASSUME NEW i \in 1..n PROVE IsFull(q[i]) /\ q[i].count > 0
  <2>1. CASE i # n
    BY <1>1, <1>2, <2>1 DEF SoundPages
  <2>2. CASE i = n
    <3>1. p # << >>
      BY <1>1, <2>2, EmptySeq
    <3>2. IsPage(p[i]) /\ IsFull(p[i])
      BY <1>1, <2>2, <3>1 DEF SoundPages
    <3>3. p[i].count > 0
      BY <3>2, SlotCountAssumption DEF IsPage, PageType, IsFull
    <3>4. QED
      BY <1>2, <3>2, <3>3
  <2>3. QED
    BY <2>1, <2>2
<1>5. SoundPages(q)
  <2>1. Len(q) - 1 = n
    BY <1>2
  <2>2. QED
    BY <1>2, <1>3, <1>4, <2>1 DEF SoundPages
<1>6. PICK s \in Seq(Seq(Slot)), t \in Seq(Seq(Slot)) : s = Windows(p) /\ t = Windows(q)
  BY <1>5, WindowsFit
<1>7. Len(s) = n /\ Len(t) = n + 1
  BY <1>1, <1>2, <1>5, <1>6, WindowsFit
<1>8. \A i \in 1..n : t[i] = s[i]
  <2>1. \A i \in 1..n : t[i] = Window(q[i])
    <3>1. \A i \in 1..Len(q) : t[i] = Window(q[i])
      BY <1>5, <1>6, WindowsFit
    <3>2. ASSUME NEW i \in 1..n PROVE i \in 1..Len(q)
      BY <1>2
    <3>3. QED
      BY <3>1, <3>2
  <2>2. \A i \in 1..n : s[i] = Window(p[i])
    BY <1>1, <1>6, WindowsFit
  <2>3. QED
    BY <1>2, <2>1, <2>2
<1>9. t[n + 1] = <<x>>
  <2>1. n + 1 \in 1..Len(q)
    BY <1>2
  <2>2. t[n + 1] = Window(q[n + 1])
    BY <1>5, <1>6, <2>1, WindowsFit
  <2>3. QED
    BY <1>2, <2>2
<1>10. FlattenSeq(t) = Cat(FlattenSeq(s), t[n + 1])
  BY <1>7, <1>8, FlattenMore
<1>11. FlattenSeq(s) \in Seq(Slot)
  BY FlattenFits
<1>12. FlattenSeq(t) = Append(FlattenSeq(s), x)
  BY <1>9, <1>10, <1>11, CatAppends
<1>13. QED
  BY <1>1, <1>2, <1>5, <1>6, <1>12

(* A pulse that is stored on the last page. *)
LEMMA PageStores ==
    ASSUME NEW p, SoundPages(p), p # << >>, NEW g, IsPage(g), NEW x \in Slot,
           Window(g) = Append(Window(p[Len(p)]), x), NEW q, q = [p EXCEPT ![Len(p)] = g]
    PROVE  /\ SoundPages(q) /\ Len(q) = Len(p)
           /\ FlattenSeq(Windows(q)) = Append(FlattenSeq(Windows(p)), x)
<1>1. PICK n \in Nat : n = Len(p) /\ n # 0
  BY EmptySeq DEF SoundPages
<1>2. n \in 1..n /\ g \in PageType
  BY <1>1 DEF IsPage
<1>3. q \in Seq(PageType) /\ Len(q) = n /\ q[n] = g /\ \A i \in 1..n : i # n => q[i] = p[i]
  BY <1>1, <1>2, ExceptSeq DEF SoundPages
<1>4. SoundPages(q)
  <2>1. \A i \in 1..n : IsPage(q[i])
    BY <1>1, <1>3 DEF SoundPages
  <2>2. \A i \in 1..(n - 1) : IsFull(q[i]) /\ q[i].count > 0
    BY <1>1, <1>3 DEF SoundPages
  <2>3. QED
    BY <1>3, <2>1, <2>2 DEF SoundPages
<1>5. PICK s \in Seq(Seq(Slot)), t \in Seq(Seq(Slot)) : s = Windows(p) /\ t = Windows(q)
  BY <1>4, WindowsFit
<1>6. Len(s) = n /\ \A i \in 1..n : s[i] = Window(p[i])
  BY <1>1, <1>5, WindowsFit
<1>7. Len(t) = n /\ \A i \in 1..n : t[i] = Window(q[i])
  BY <1>3, <1>4, <1>5, WindowsFit
<1>8. \A i \in 1..(n - 1) : t[i] = s[i]
  BY <1>3, <1>6, <1>7
<1>9. t[n] = Append(s[n], x)
  BY <1>1, <1>2, <1>3, <1>6, <1>7
<1>10. s # << >>
  BY <1>1, <1>6, EmptySeq
<1>11. FlattenSeq(t) = Append(FlattenSeq(s), x)
  <2>1. Len(t) = Len(s) /\ (\A i \in 1..(Len(s) - 1) : t[i] = s[i]) /\ t[Len(s)] = Append(s[Len(s)], x)
    BY <1>6, <1>7, <1>8, <1>9
  <2>2. QED
    BY <1>10, <2>1, FlattenLonger
<1>12. QED
  BY <1>1, <1>3, <1>4, <1>5, <1>11

(* The first page gives its last pulse, and goes, *)
LEMMA PageGoes ==
    ASSUME NEW p, SoundPages(p), p # << >>, NEW e \in Slot, Window(p[1]) = <<e>>,
           NEW q, q = Tail(p)
    PROVE  /\ SoundPages(q) /\ Len(q) = Len(p) - 1
           /\ FlattenSeq(Windows(p)) = Cat(<<e>>, FlattenSeq(Windows(q)))
<1>1. PICK m \in Nat : m = Len(p) /\ m # 0
  BY EmptySeq DEF SoundPages
<1>2. PICK n \in Nat : m = n + 1
  BY <1>1
<1>3. q \in Seq(PageType) /\ Len(q) = n /\ \A i \in 1..n : q[i] = p[i + 1]
  <2>1. q \in Seq(PageType) /\ Len(q) = Len(p) - 1 /\ \A i \in 1..Len(q) : q[i] = p[i + 1]
    BY HeadTailProperties DEF SoundPages
  <2>2. Len(q) = n
    BY <1>1, <1>2, <2>1
  <2>3. QED
    BY <2>1, <2>2
<1>4. SoundPages(q)
  <2>1. \A i \in 1..n : IsPage(q[i])
    BY <1>1, <1>2, <1>3 DEF SoundPages
  <2>2. \A i \in 1..(n - 1) : IsFull(q[i]) /\ q[i].count > 0
    BY <1>1, <1>2, <1>3 DEF SoundPages
  <2>3. QED
    BY <1>3, <2>1, <2>2 DEF SoundPages
<1>5. PICK s \in Seq(Seq(Slot)), t \in Seq(Seq(Slot)) : s = Windows(p) /\ t = Windows(q)
  BY <1>4, WindowsFit
<1>6. Len(s) = n + 1 /\ \A i \in 1..(n + 1) : s[i] = Window(p[i])
  BY <1>1, <1>2, <1>5, WindowsFit
<1>7. Len(t) = n /\ \A i \in 1..n : t[i] = Window(q[i])
  BY <1>3, <1>4, <1>5, WindowsFit
<1>8. ASSUME NEW i \in 1..n PROVE t[i] = s[i + 1]
  <2>1. i + 1 \in 1..(n + 1)
    OBVIOUS
  <2>2. t[i] = Window(q[i]) /\ q[i] = p[i + 1] /\ s[i + 1] = Window(p[i + 1])
    BY <1>3, <1>6, <1>7, <2>1
  <2>3. QED
    BY <2>2
<1>9. s[1] = <<e>>
  <2>1. 1 \in 1..(n + 1)
    OBVIOUS
  <2>2. s[1] = Window(p[1])
    BY <1>6, <2>1
  <2>3. QED
    BY <2>2
<1>10. FlattenSeq(s) = Cat(<<e>>, FlattenSeq(t))
  BY <1>6, <1>7, <1>8, <1>9, FlattenRest
<1>11. QED
  BY <1>1, <1>2, <1>3, <1>4, <1>5, <1>10

(* or stays for the others. *)
LEMMA PageStays ==
    ASSUME NEW p, SoundPages(p), p # << >>, NEW g, IsPage(g), NEW e \in Slot,
           Window(p[1]) = Cat(<<e>>, Window(g)), IsFull(p[1]) => IsFull(g) /\ g.count > 0,
           NEW q, q = <<g>> \o Tail(p)
    PROVE  /\ SoundPages(q) /\ Len(q) = Len(p)
           /\ FlattenSeq(Windows(p)) = Cat(<<e>>, FlattenSeq(Windows(q)))
<1>1. PICK n \in Nat : n = Len(p) /\ n # 0
  BY EmptySeq DEF SoundPages
<1>2. 1 \in 1..n /\ g \in PageType
  BY <1>1 DEF IsPage
<1>3. q \in Seq(PageType) /\ Len(q) = n /\ q[1] = g /\ \A i \in 1..n : i # 1 => q[i] = p[i]
  <2>1. PICK c \in Seq(PageType), r \in Seq(PageType) : c = <<g>> /\ r = Tail(p)
    <3>1. <<g>> \in Seq(PageType) /\ Tail(p) \in Seq(PageType)
      BY <1>2, HeadTailProperties DEF SoundPages
    <3>2. QED
      BY <3>1
  <2>2. Len(r) = n - 1 /\ \A i \in 1..(n - 1) : r[i] = p[i + 1]
    BY <1>1, <2>1, HeadTailProperties DEF SoundPages
  <2>3. Len(c) = 1 /\ c[1] = g
    BY <2>1
  <2>4. /\ c \o r \in Seq(PageType) /\ Len(c \o r) = n
        /\ \A i \in 1..n : (c \o r)[i] = IF i <= 1 THEN c[i] ELSE r[i - 1]
    <3>1. /\ c \o r \in Seq(PageType)
          /\ Len(c \o r) = Len(c) + Len(r)
          /\ \A i \in 1..(Len(c) + Len(r)) : (c \o r)[i] = IF i <= Len(c) THEN c[i] ELSE r[i - Len(c)]
      BY ConcatProperties
    <3>2. Len(c) + Len(r) = n
      BY <2>2, <2>3
    <3>3. QED
      BY <2>3, <3>1, <3>2
  <2>5. ASSUME NEW i \in 1..n, i # 1 PROVE r[i - 1] = p[i]
    BY <2>2, <2>5
  <2>6. QED
    BY <1>2, <2>1, <2>3, <2>4, <2>5
<1>4. SoundPages(q)
  <2>1. \A i \in 1..n : IsPage(q[i])
    BY <1>1, <1>3 DEF SoundPages
  <2>2. \A i \in 1..(n - 1) : IsFull(q[i]) /\ q[i].count > 0
    BY <1>1, <1>3 DEF SoundPages
  <2>3. QED
    BY <1>3, <2>1, <2>2 DEF SoundPages
<1>5. PICK s \in Seq(Seq(Slot)), t \in Seq(Seq(Slot)) : s = Windows(p) /\ t = Windows(q)
  BY <1>4, WindowsFit
<1>6. Len(s) = n /\ \A i \in 1..n : s[i] = Window(p[i])
  BY <1>1, <1>5, WindowsFit
<1>7. Len(t) = n /\ \A i \in 1..n : t[i] = Window(q[i])
  BY <1>3, <1>4, <1>5, WindowsFit
<1>8. ASSUME NEW i \in 2..n PROVE t[i] = s[i]
  <2>1. i \in 1..n /\ i # 1
    OBVIOUS
  <2>2. q[i] = p[i] /\ s[i] = Window(p[i]) /\ t[i] = Window(q[i])
    BY <1>3, <1>6, <1>7, <2>1
  <2>3. QED
    BY <2>2
<1>9. s[1] = Cat(<<e>>, t[1])
  BY <1>2, <1>3, <1>6, <1>7
<1>10. s # << >>
  BY <1>1, <1>6, EmptySeq
<1>11. FlattenSeq(s) = Cat(<<e>>, FlattenSeq(t))
  <2>1. Len(t) = Len(s) /\ \A i \in 2..Len(s) : t[i] = s[i]
    BY <1>6, <1>7, <1>8
  <2>2. QED
    BY <1>9, <1>10, <2>1, FlattenShorter
<1>12. QED
  BY <1>1, <1>3, <1>4, <1>5, <1>11
-----------------------------------------------------------------------------
LEMMA ContentsFit ==
    ASSUME NEW p, SoundPages(p) PROVE FlattenSeq(Windows(p)) \in Seq(Slot)
BY WindowsFit, FlattenFits

LEMMA SendPuts ==
    ASSUME PulsesInv, NEW x \in Items, Send(x)
    PROVE  PulsesInv' /\ QU!Put(x)
<1>1. PICK p, q : p = pages /\ q = pages'
  OBVIOUS
<1>2. Contents = FlattenSeq(Windows(p)) /\ Contents' = FlattenSeq(Windows(q))
  BY <1>1 DEF Contents, Windows, Window
<1>3. SoundPages(p) /\ last = Len(p) /\ x \in Slot
  BY <1>1 DEF PulsesInv, Slot
<1>4. PICK n \in Nat : n = Len(p)
  BY <1>3, LenProperties DEF SoundPages
<1>5. ASSUME SoundPages(q), last' = Len(q), FlattenSeq(Windows(q)) = Append(FlattenSeq(Windows(p)), x)
      PROVE  PulsesInv' /\ QU!Put(x)
  BY <1>1, <1>2, <1>5 DEF PulsesInv, SoundPages, QU!Put
<1>6. PICK g : g = Store(NewPage, x)
  OBVIOUS
<1>7. IsPage(g) /\ Window(g) = <<x>>
  <2>1. IsPage(g) /\ Window(g) = Append(<< >>, x)
    BY <1>6, NewPageFits, StoreAppends
  <2>2. QED
    BY <2>1
<1>8. CASE last = 0
  <2>1. p = << >>
    BY <1>3, <1>8, EmptySeq DEF SoundPages
  <2>2. q = Append(p, g) /\ last' = 1
    BY <1>1, <1>6, <1>8, <2>1 DEF Send
  <2>3. /\ SoundPages(q) /\ Len(q) = Len(p) + 1
        /\ FlattenSeq(Windows(q)) = Append(FlattenSeq(Windows(p)), x)
    BY <1>3, <1>7, <2>1, <2>2, PageAppends
  <2>4. QED
    BY <1>3, <1>5, <1>8, <2>2, <2>3
<1>9. CASE last # 0 /\ IsFull(pages[last])
  <2>1. q = SubSeq(p, 1, n) \o <<g>> /\ last' = last + 1
    BY <1>1, <1>3, <1>4, <1>6, <1>9 DEF Send
  <2>2. SubSeq(p, 1, n) = p
    BY <1>3, <1>4, SubSeqFull DEF SoundPages
  <2>3. q = Append(p, g)
    BY <1>3, <1>7, <2>1, <2>2, AppendIsConcat DEF SoundPages, IsPage
  <2>4. IsFull(p[Len(p)])
    BY <1>1, <1>3, <1>9
  <2>5. /\ SoundPages(q) /\ Len(q) = Len(p) + 1
        /\ FlattenSeq(Windows(q)) = Append(FlattenSeq(Windows(p)), x)
    BY <1>3, <1>7, <2>3, <2>4, PageAppends
  <2>6. QED
    BY <1>3, <1>5, <2>1, <2>5
<1>10. CASE last # 0 /\ ~IsFull(pages[last])
  <2>1. PICK h : h = Store(p[n], x)
    OBVIOUS
  <2>2. q = [p EXCEPT ![Len(p)] = h] /\ last' = last
    BY <1>1, <1>3, <1>4, <1>10, <2>1 DEF Send
  <2>3. n \in 1..Len(p) /\ ~IsFull(p[n])
    BY <1>1, <1>3, <1>4, <1>10
  <2>4. IsPage(p[n])
    BY <1>3, <2>3 DEF SoundPages
  <2>5. IsPage(h) /\ Window(h) = Append(Window(p[Len(p)]), x)
    BY <1>4, <2>1, <2>3, <2>4, StoreAppends
  <2>6. p # << >>
    BY <1>3, <1>10
  <2>7. /\ SoundPages(q) /\ Len(q) = Len(p)
        /\ FlattenSeq(Windows(q)) = Append(FlattenSeq(Windows(p)), x)
    BY <1>3, <2>2, <2>5, <2>6, PageStores
  <2>8. QED
    BY <1>3, <1>5, <2>2, <2>7
<1>11. QED
  BY <1>8, <1>9, <1>10

LEMMA ReceiveGets ==
    ASSUME PulsesInv, Receive
    PROVE  PulsesInv' /\ QU!Get
<1>1. PICK p, q : p = pages /\ q = pages'
  OBVIOUS
<1>2. Contents = FlattenSeq(Windows(p)) /\ Contents' = FlattenSeq(Windows(q))
  BY <1>1 DEF Contents, Windows, Window
<1>3. SoundPages(p) /\ last = Len(p) /\ p # << >>
  BY <1>1 DEF PulsesInv, Receive
<1>4. PICK n \in Nat : n = Len(p) /\ n # 0
  BY <1>3, EmptySeq DEF SoundPages
<1>5. Head(p) = p[1] /\ IsPage(p[1]) /\ p[1].count # 0
  BY <1>1, <1>3, <1>4 DEF SoundPages, Receive
<1>6. ASSUME SoundPages(q), last' = Len(q), NEW e \in Slot,
             FlattenSeq(Windows(p)) = Cat(<<e>>, FlattenSeq(Windows(q)))
      PROVE  PulsesInv' /\ QU!Get
  <2>1. FlattenSeq(Windows(q)) \in Seq(Slot)
    BY <1>6, ContentsFit
  <2>2. FlattenSeq(Windows(p)) # << >> /\ Tail(FlattenSeq(Windows(p))) = FlattenSeq(Windows(q))
    BY <1>6, <2>1, CatHead
  <2>3. PulsesInv'
    BY <1>1, <1>6 DEF PulsesInv, SoundPages
  <2>4. QED
    BY <1>2, <2>2, <2>3 DEF QU!Get
<1>7. PICK g : g = Consume(p[1])
  OBVIOUS
<1>8. PICK e \in Slot :
        \/ g.first = SlotCount /\ Window(p[1]) = <<e>>
        \/ /\ g.first # SlotCount /\ IsPage(g)
           /\ Window(p[1]) = Cat(<<e>>, Window(g))
           /\ IsFull(p[1]) => IsFull(g) /\ g.count > 0
  BY <1>5, <1>7, ConsumeTakes
<1>9. CASE g.first = SlotCount
  <2>1. q = Tail(p) /\ last' = LastAfterFree(q)
    BY <1>1, <1>5, <1>7, <1>9 DEF Receive
  <2>2. /\ SoundPages(q) /\ Len(q) = Len(p) - 1
        /\ FlattenSeq(Windows(p)) = Cat(<<e>>, FlattenSeq(Windows(q)))
    BY <1>3, <1>8, <1>9, <2>1, PageGoes
  <2>3. last' = Len(q)
    <3>1. CASE q = << >>
      BY <2>1, <3>1 DEF LastAfterFree
    <3>2. CASE q # << >>
      BY <1>3, <2>1, <2>2, <3>2 DEF LastAfterFree
    <3>3. QED
      BY <3>1, <3>2
  <2>4. QED
    BY <1>6, <2>2, <2>3
<1>10. CASE g.first # SlotCount
  <2>1. q = <<g>> \o Tail(p) /\ last' = last
    BY <1>1, <1>5, <1>7, <1>10 DEF Receive
  <2>2. /\ SoundPages(q) /\ Len(q) = Len(p)
        /\ FlattenSeq(Windows(p)) = Cat(<<e>>, FlattenSeq(Windows(q)))
    BY <1>3, <1>8, <1>10, <2>1, PageStays
  <2>3. QED
    BY <1>3, <1>6, <2>1, <2>2
<1>11. QED
  BY <1>9, <1>10

LEMMA PulsesInitHolds == PulsesInit => PulsesInv /\ QU!Init
<1> SUFFICES ASSUME PulsesInit PROVE PulsesInv /\ QU!Init
  OBVIOUS
<1>1. PICK p : p = pages /\ p = << >> /\ last = 0
  BY DEF PulsesInit
<1>2. SoundPages(p)
  BY <1>1 DEF SoundPages
<1>3. Windows(p) = << >>
  BY <1>1, <1>2, WindowsFit, EmptySeq
<1>4. Contents = << >>
  BY <1>1, <1>3, ContentsAre, FlattenEmpty
<1>5. QED
  BY <1>1, <1>2, <1>4 DEF PulsesInv, SoundPages, QU!Init

LEMMA PulsesStep ==
    PulsesInv /\ [PulsesNext]_pulseVars => PulsesInv' /\ [QU!Next]_Contents
<1> SUFFICES ASSUME PulsesInv, [PulsesNext]_pulseVars PROVE PulsesInv' /\ [QU!Next]_Contents
  OBVIOUS
<1>1. CASE Receive
  BY <1>1, ReceiveGets DEF QU!Next
<1>2. ASSUME NEW x \in Items, Send(x) PROVE PulsesInv' /\ [QU!Next]_Contents
  BY <1>2, SendPuts DEF QU!Next
<1>3. CASE UNCHANGED pulseVars
  BY <1>3 DEF pulseVars, PulsesInv, SoundPages, Contents
<1>4. QED
  BY <1>1, <1>2, <1>3 DEF PulsesNext

(* The chain of pulse.c is a queue: whatever is sent is received once and in *)
(* order, across the ends of pages and however often pages are freed.        *)
THEOREM PulsesAreQueue == PulsesSpec => PulsesImplement
BY PulsesInitHolds, PulsesStep, PTL DEF PulsesSpec, PulsesImplement, QU!Spec

(* Of pulse.c's two ends of a queue the receivers' sees every pulse, because *)
(* all pages but the last are full and hold something, and the senders' is  *)
(* the last page.                                                           *)
THEOREM EndsMeet == PulsesSpec => []ChainSound
<1>1. PulsesInv => ChainSound
  BY DEF PulsesInv, SoundPages, ChainSound
<1>2. QED
  BY <1>1, PulsesInitHolds, PulsesStep, PTL DEF PulsesSpec
-----------------------------------------------------------------------------
(* Chains of links. What is reached along them is the least set that has the *)
(* first and is closed, because a set of threads cannot grow more often than *)
(* it has members; and where the links that lead back differ a chain has an  *)
(* end, because a function that is injective on a finite set is onto it.     *)
Start(t) == {t} \ {NoOne}
Layer(g, l, t, fields, n) == IF n = 0 THEN Start(t) ELSE Further(l, g[n - 1], fields)
IsReach(g, l, t, fields) ==
    \A n \in 0..Cardinality(Family) : g[n] = Layer(g, l, t, fields, n)
LeadInside(l, fields) == \A u \in Family, f \in fields : l[u][f] \in Anyone
KeptBy(l, t, fields, S) ==
    /\ t \in S \cup {NoOne}
    /\ \A u \in S, f \in fields : l[u][f] \in S \cup {NoOne}

LEMMA FamilySize == IsFiniteSet(Family) /\ Cardinality(Family) \in Nat
BY FamilyAssumption, FS_CardinalityType

LEMMA FurtherFits ==
    ASSUME NEW l, NEW fields, LeadInside(l, fields), NEW A \in SUBSET Family
    PROVE  Further(l, A, fields) \in SUBSET Family
BY DEF Further, LeadInside, Anyone

LEMMA ReachExists ==
    ASSUME NEW l, NEW fields, NEW t \in Anyone, LeadInside(l, fields)
    PROVE  \E g \in [0..Cardinality(Family) -> SUBSET Family] : IsReach(g, l, t, fields)
<1>1. PICK n \in Nat : n = Cardinality(Family)
  BY FamilySize
<1> DEFINE Solved(k) == \E g \in [0..n -> SUBSET Family] :
                            \A i \in 0..k : g[i] = Layer(g, l, t, fields, i)
           S == {k \in 0..n : Solved(k)}
<1>2. 0 \in S
  <2> DEFINE g == [i \in 0..n |-> Start(t)]
  <2>1. g \in [0..n -> SUBSET Family]
    BY DEF Start, Anyone
  <2>2. g[0] = Start(t)
    OBVIOUS
  <2> HIDE DEF g
  <2>4. \A i \in 0..0 : g[i] = Layer(g, l, t, fields, i)
    BY <2>2 DEF Layer
  <2>3. QED
    BY <2>1, <2>4
<1>3. ASSUME NEW k \in 0..(n - 1), k \in S PROVE k + 1 \in S
  <2>1. PICK g \in [0..n -> SUBSET Family] : \A i \in 0..k : g[i] = Layer(g, l, t, fields, i)
    BY <1>3
  <2>2. PICK m : m = k + 1 /\ m \in 1..n /\ m - 1 = k /\ k \in 0..n
    OBVIOUS
  <2>3. PICK A : A = Further(l, g[k], fields)
    OBVIOUS
  <2>4. A \in SUBSET Family
    BY <2>2, <2>3, FurtherFits
  <2> DEFINE h == [g EXCEPT ![m] = A]
  <2>5. h \in [0..n -> SUBSET Family] /\ h[m] = A /\ \A i \in 0..n : i # m => h[i] = g[i]
    BY <2>2, <2>4
  <2> HIDE DEF h
  <2>6. ASSUME NEW i \in 0..m PROVE h[i] = Layer(h, l, t, fields, i)
    <3>1. i \in 0..n /\ (i # m => i \in 0..k) /\ (i # 0 => i - 1 \in 0..n /\ i - 1 # m)
      BY <2>2
    <3>2. i # 0 => h[i - 1] = g[i - 1]
      BY <2>5, <3>1
    <3>3. Layer(h, l, t, fields, i) = Layer(g, l, t, fields, i)
      BY <3>2 DEF Layer
    <3>4. CASE i = m
      BY <2>2, <2>3, <2>5, <3>3, <3>4 DEF Layer
    <3>5. CASE i # m
      BY <2>1, <2>5, <3>1, <3>3, <3>5
    <3>6. QED
      BY <3>4, <3>5
  <2>7. Solved(m)
    BY <2>5, <2>6
  <2>8. QED
    BY <2>2, <2>7
<1> HIDE DEF S
<1>4. n \in S
  BY <1>2, <1>3, Upwards
<1>5. QED
  BY <1>1, <1>4 DEF S, IsReach

LEMMA ReachedIs ==
    ASSUME NEW l, NEW fields, NEW t \in Anyone, LeadInside(l, fields)
    PROVE  \E g : IsReach(g, l, t, fields) /\ Reached(l, t, fields) = g[Cardinality(Family)]
<1> DEFINE R(f) == [n \in 0..Cardinality(Family) |->
                        IF n = 0 THEN {t} \ {NoOne} ELSE Further(l, f[n - 1], fields)]
           g == CHOOSE f : f = R(f)
<1>1. PICK f \in [0..Cardinality(Family) -> SUBSET Family] : IsReach(f, l, t, fields)
  BY ReachExists
<1>2. f = R(f)
  <2>1. \A n \in 0..Cardinality(Family) : f[n] = R(f)[n]
    BY <1>1 DEF IsReach, Layer, Start
  <2>2. f = [n \in 0..Cardinality(Family) |-> f[n]]
    OBVIOUS
  <2>3. QED
    BY <2>1, <2>2
<1>3. g = R(g)
  <2> HIDE DEF R
  <2>1. QED
    BY <1>2, Zenon
<1>4. Reached(l, t, fields) = g[Cardinality(Family)]
  BY Zenon DEF Reached
<1>5. PICK h : h = g
  OBVIOUS
<1> HIDE DEF g
<1>6. IsReach(h, l, t, fields)
  BY <1>3, <1>5 DEF IsReach, Layer, Start
<1>7. QED
  BY <1>4, <1>5, <1>6

LEMMA LayersInside ==
    ASSUME NEW l, NEW fields, NEW t \in Anyone, NEW g, IsReach(g, l, t, fields),
           NEW S, KeptBy(l, t, fields, S), NEW n \in 0..Cardinality(Family)
    PROVE  g[n] \subseteq S
<1>1. Cardinality(Family) \in Nat /\ n \in Nat
  BY FamilySize
<1> DEFINE T == {k \in 0..n : g[k] \subseteq S}
<1>2. 0 \in T
  BY <1>1 DEF IsReach, Layer, Start, KeptBy
<1>3. ASSUME NEW k \in 0..(n - 1), k \in T PROVE k + 1 \in T
  <2>1. k + 1 \in 0..Cardinality(Family) /\ k + 1 # 0 /\ (k + 1) - 1 = k /\ k + 1 \in 0..n
    BY <1>1
  <2>2. g[k + 1] = Further(l, g[k], fields)
    BY <2>1 DEF IsReach, Layer
  <2>3. g[k] \subseteq S
    BY <1>3
  <2>4. QED
    BY <2>1, <2>2, <2>3 DEF Further, KeptBy
<1> HIDE DEF T
<1>4. n \in T
  BY <1>1, <1>2, <1>3, Upwards
<1>5. QED
  BY <1>4 DEF T

LEMMA ReachStops ==
    ASSUME NEW l, NEW fields, NEW t \in Anyone, LeadInside(l, fields), NEW g,
           IsReach(g, l, t, fields), NEW n \in Nat, n = Cardinality(Family)
    PROVE  Further(l, g[n], fields) = g[n]
<1>1. ASSUME NEW k \in 0..n PROVE g[k] \subseteq Family /\ IsFiniteSet(g[k]) /\ Cardinality(g[k]) \in Nat
  <2>1. KeptBy(l, t, fields, Family)
    BY DEF KeptBy, LeadInside, Anyone
  <2>2. g[k] \subseteq Family
    BY <2>1, LayersInside
  <2>3. QED
    BY <2>2, FamilySize, FS_Subset, FS_CardinalityType
<1> DEFINE T == {k \in 0..n : Cardinality(g[k]) >= k + 1 \/ Further(l, g[k], fields) = g[k]}
<1>2. 0 \in T
  <2>1. g[0] = Start(t)
    BY DEF IsReach, Layer
  <2>2. CASE t = NoOne
    BY <2>1, <2>2 DEF Start, Further
  <2>3. CASE t # NoOne
    <3>1. g[0] = {t}
      BY <2>1, <2>3 DEF Start
    <3>2. QED
      BY <3>1, FS_Singleton
  <2>4. QED
    BY <2>2, <2>3
<1>3. ASSUME NEW k \in 0..(n - 1), k \in T PROVE k + 1 \in T
  <2>1. PICK m : m = k + 1 /\ m \in 0..n /\ k \in 0..n /\ m # 0 /\ m - 1 = k
    OBVIOUS
  <2>2. g[m] = Further(l, g[k], fields)
    BY <2>1 DEF IsReach, Layer
  <2>3. CASE Further(l, g[k], fields) = g[k]
    BY <2>1, <2>2, <2>3
  <2>4. CASE Further(l, g[k], fields) # g[k]
    <3>1. g[k] \in SUBSET g[m]
      BY <2>2 DEF Further
    <3>2. /\ IsFiniteSet(g[m]) /\ Cardinality(g[m]) \in Nat /\ Cardinality(g[k]) \in Nat
      BY <1>1, <2>1
    <3>3. Cardinality(g[k]) <= Cardinality(g[m]) /\ Cardinality(g[m]) # Cardinality(g[k])
      BY <2>2, <2>4, <3>1, <3>2, FS_Subset
    <3>4. Cardinality(g[k]) >= k + 1
      BY <1>3, <2>4
    <3>5. Cardinality(g[m]) >= m + 1
      BY <2>1, <3>2, <3>3, <3>4
    <3>6. QED
      BY <2>1, <3>5
  <2>5. QED
    BY <2>3, <2>4
<1> HIDE DEF T
<1>4. n \in T
  BY <1>2, <1>3, Upwards
<1>5. g[n] \in SUBSET Family /\ Cardinality(g[n]) \in Nat
  BY <1>1
<1>6. Cardinality(g[n]) <= n
  BY <1>5, FamilySize, FS_Subset
<1>7. ~(Cardinality(g[n]) >= n + 1)
  BY <1>5, <1>6
<1>8. QED
  BY <1>4, <1>7 DEF T

LEMMA ReachedKept ==
    ASSUME NEW l, NEW fields, NEW t \in Anyone, LeadInside(l, fields)
    PROVE  /\ Reached(l, t, fields) \in SUBSET Family
           /\ KeptBy(l, t, fields, Reached(l, t, fields))
           /\ \A S : KeptBy(l, t, fields, S) => Reached(l, t, fields) \subseteq S
<1>1. PICK n \in Nat : n = Cardinality(Family)
  BY FamilySize
<1>2. PICK g : IsReach(g, l, t, fields) /\ Reached(l, t, fields) = g[n]
  BY <1>1, ReachedIs
<1>3. \A S : KeptBy(l, t, fields, S) => \A k \in 0..n : g[k] \subseteq S
  BY <1>1, <1>2, LayersInside
<1>4. KeptBy(l, t, fields, Family)
  BY DEF KeptBy, LeadInside, Anyone
<1>5. n \in 0..n /\ 0 \in 0..n
  OBVIOUS
<1>6. g[n] \in SUBSET Family
  BY <1>3, <1>4, <1>5
<1>7. Further(l, g[n], fields) = g[n]
  BY <1>1, <1>2, ReachStops
<1>8. \A u \in g[n], f \in fields : l[u][f] \in g[n] \cup {NoOne}
  BY <1>7 DEF Further
<1>9. t \in g[n] \cup {NoOne}
  <2> DEFINE T == {k \in 0..n : Start(t) \subseteq g[k]}
  <2>1. 0 \in T
    BY <1>1, <1>2, <1>5 DEF IsReach, Layer
  <2>2. ASSUME NEW k \in 0..(n - 1), k \in T PROVE k + 1 \in T
    <3>1. k + 1 \in 0..n /\ k + 1 # 0 /\ (k + 1) - 1 = k
      OBVIOUS
    <3>2. g[k + 1] = Further(l, g[k], fields)
      BY <1>1, <1>2, <3>1 DEF IsReach, Layer
    <3>3. Start(t) \subseteq g[k]
      BY <2>2
    <3>4. QED
      BY <3>1, <3>2, <3>3 DEF Further
  <2> HIDE DEF T
  <2>3. n \in T
    BY <2>1, <2>2, Upwards
  <2>4. QED
    BY <2>3 DEF T, Start
<1>10. QED
  BY <1>2, <1>3, <1>5, <1>6, <1>8, <1>9 DEF KeptBy

LEMMA Onto ==
    ASSUME NEW S, IsFiniteSet(S), NEW f \in [S -> S],
           \A u, v \in S : f[u] = f[v] => u = v
    PROVE  \A v \in S : \E u \in S : f[u] = v
<1>1. f \in Injection(S, S)
  BY DEF Injection, IsInjective
<1>2. f \in Surjection(S, S)
  BY <1>1, FS_Injection
<1>3. QED
  BY <1>2 DEF Surjection

(* Whoever is led to is who leads back. *)
LeadBack(A, next, prev) == \A u, v \in A : next[u] = v <=> prev[v] = u
Onward(A, next, S) == \A u \in S : next[u] \in S \cup {NoOne}
EndsIn(next, S) == \E u \in S : next[u] = NoOne

(* A set without an end is led to from within. *)
LEMMA EndlessSet ==
    ASSUME NEW A \in SUBSET Family, NEW next, NEW prev, LeadBack(A, next, prev),
           NEW S \in SUBSET A, Onward(A, next, S), ~EndsIn(next, S)
    PROVE  \A v \in S : prev[v] \in S
<1>1. IsFiniteSet(S)
  BY FamilyAssumption, FS_Subset
<1> DEFINE f == [u \in S |-> next[u]]
<1>2. f \in [S -> S]
  BY DEF Onward, EndsIn
<1>3. \A u, v \in S : f[u] = f[v] => u = v
  BY <1>2 DEF LeadBack
<1>4. \A v \in S : \E u \in S : f[u] = v
  <2> HIDE DEF f
  <2>1. QED
    BY <1>1, <1>2, <1>3, Onto
<1>5. QED
  BY <1>4 DEF LeadBack

LEMMA ChainEnds ==
    ASSUME NEW A \in SUBSET Family, NEW next, NEW prev, LeadBack(A, next, prev),
           \A u \in A : next[u] \in A \cup {NoOne} /\ prev[u] \in A \cup {NoOne},
           \A S \in SUBSET A : (\A v \in A : prev[v] = NoOne => v \in S) /\ Onward(A, next, S) => S = A,
           NEW S \in SUBSET A, S # {}, Onward(A, next, S)
    PROVE  EndsIn(next, S)
<1> SUFFICES ASSUME ~EndsIn(next, S) PROVE FALSE
  OBVIOUS
<1>1. \A v \in S : prev[v] \in S
  BY EndlessSet
<1>2. NoOne \notin A
  BY FamilyAssumption
<1>3. \A v \in A : prev[v] = NoOne => v \in A \ S
  BY <1>1, <1>2
<1>4. Onward(A, next, A \ S)
  BY <1>1 DEF Onward, LeadBack
<1>5. A \ S = A
  BY <1>3, <1>4
<1>6. QED
  BY <1>5

-----------------------------------------------------------------------------
(* The threads of a process. Its root is the eldest of its main threads, as  *)
(* a thread's child is the eldest of that thread's children.                 *)
Eldest(p) == IF p = NoOne THEN root ELSE link[p].child

LEMMA FieldsAre == DOMAIN Alone = {"parent", "child", "left", "right", "before", "after"}
BY DEF Alone

LEMMA PointersInside ==
    ASSUME FamilyTypeOK, Enclosed, NEW t \in attached
    PROVE  /\ t \in Family /\ t # NoOne /\ NoOne \notin attached
           /\ link[t].parent \in attached \cup {NoOne} /\ link[t].child \in attached \cup {NoOne}
           /\ link[t].left \in attached \cup {NoOne} /\ link[t].right \in attached \cup {NoOne}
           /\ link[t].before \in attached \cup {NoOne} /\ link[t].after \in attached \cup {NoOne}
<1>1. t \in Family /\ attached \subseteq Family /\ NoOne \notin Family
  BY FamilyAssumption DEF FamilyTypeOK
<1>2. \A f \in {"parent", "child", "left", "right", "before", "after"} :
          link[t][f] \in attached \cup {NoOne}
  BY FieldsAre DEF Enclosed
<1>3. QED
  BY <1>1, <1>2

LEMMA EldestIs ==
    ASSUME FamilyTypeOK, Enclosed, Paired, Tops, NEW p \in attached \cup {NoOne}
    PROVE  /\ Eldest(p) \in attached \cup {NoOne}
           /\ \A u \in attached : Eldest(p) = u <=> link[u].parent = p /\ link[u].left = NoOne
<1>1. root \in attached \cup {NoOne}
  BY DEF Enclosed
<1>2. QED
  BY <1>1, PointersInside DEF Eldest, Paired, Tops

(* A set that has the eldest main thread, and with each thread its eldest   *)
(* child and the next of its siblings, has all.                             *)
LEMMA AllFound ==
    ASSUME FamilyTypeOK, FamilyHeld, NEW S \in SUBSET attached,
           \A p \in S \cup {NoOne} : Eldest(p) \in S \cup {NoOne},
           \A u \in S : link[u].right \in S \cup {NoOne}
    PROVE  S = attached
<1>1. NoOne \notin attached
  BY FamilyAssumption DEF FamilyTypeOK
<1>2. TreeClosed(S)
  BY <1>1 DEF TreeClosed, Eldest
<1>3. QED
  BY <1>2 DEF FamilyHeld

LEMMA RightLeads ==
    ASSUME FamilyTypeOK, Enclosed, Paired, NEW u \in attached, link[u].right # NoOne
    PROVE  /\ link[u].right \in attached
           /\ link[link[u].right].left = u /\ link[link[u].right].parent = link[u].parent
BY PointersInside DEF Paired

(* Who has a parent has an eldest sibling, and is not its own parent. *)
LEMMA HasEldest ==
    ASSUME FamilyTypeOK, FamilyHeld, NEW t \in attached
    PROVE  Eldest(link[t].parent) \in attached
<1> DEFINE p == link[t].parent
           S == {u \in attached : link[u].parent # p}
<1>1. Enclosed /\ Paired /\ Tops /\ p \in attached \cup {NoOne}
  BY PointersInside DEF FamilyHeld
<1> SUFFICES ASSUME Eldest(p) = NoOne PROVE FALSE
  BY <1>1, EldestIs
<1>2. ASSUME NEW q \in S \cup {NoOne} PROVE Eldest(q) \in S \cup {NoOne}
  <2>1. q \in attached \cup {NoOne}
    OBVIOUS
  <2>2. CASE q = p
    BY <2>2
  <2>3. CASE q # p
    BY <1>1, <2>1, <2>3, EldestIs
  <2>4. QED
    BY <2>2, <2>3
<1>3. ASSUME NEW u \in S PROVE link[u].right \in S \cup {NoOne}
  BY <1>1, RightLeads
<1>4. S = attached
  <2> HIDE DEF S
  <2>1. S \in SUBSET attached
    BY DEF S
  <2>2. QED
    BY <1>2, <1>3, <2>1, AllFound
<1>5. QED
  BY <1>4

LEMMA NotOwnParent ==
    ASSUME FamilyTypeOK, FamilyHeld, NEW t \in attached
    PROVE  link[t].parent # t
<1> DEFINE S == {u \in attached : link[u].parent # t}
<1> SUFFICES ASSUME link[t].parent = t PROVE FALSE
  OBVIOUS
<1>1. Enclosed /\ Paired /\ Tops /\ t # NoOne /\ t \notin S
  BY PointersInside DEF FamilyHeld
<1>2. ASSUME NEW q \in S \cup {NoOne} PROVE Eldest(q) \in S \cup {NoOne}
  <2>1. q \in attached \cup {NoOne} /\ q # t
    BY <1>1
  <2>2. QED
    BY <1>1, <2>1, EldestIs
<1>3. ASSUME NEW u \in S PROVE link[u].right \in S \cup {NoOne}
  BY <1>1, RightLeads
<1>4. S = attached
  <2>1. S \in SUBSET attached
    OBVIOUS
  <2> HIDE DEF S
  <2>2. QED
    BY <1>2, <1>3, <2>1, AllFound
<1>5. QED
  BY <1>4

(* Both chains end: that of siblings, and that of all threads. *)
Rights == [u \in Family |-> link[u].right]
Lefts == [u \in Family |-> link[u].left]
Afters == [u \in Family |-> link[u].after]
Befores == [u \in Family |-> link[u].before]

LEMMA SiblingsEnd ==
    ASSUME FamilyTypeOK, FamilyHeld, NEW S \in SUBSET attached, S # {}, Onward(attached, Rights, S)
    PROVE  EndsIn(Rights, S)
<1>1. attached \in SUBSET Family /\ Enclosed /\ Paired /\ Tops
  BY DEF FamilyTypeOK, FamilyHeld
<1>2. LeadBack(attached, Rights, Lefts)
  BY <1>1 DEF LeadBack, Rights, Lefts, Paired
<1>3. \A u \in attached : Rights[u] \in attached \cup {NoOne} /\ Lefts[u] \in attached \cup {NoOne}
  BY <1>1, PointersInside DEF Rights, Lefts
<1>4. ASSUME NEW T \in SUBSET attached, \A v \in attached : Lefts[v] = NoOne => v \in T,
             Onward(attached, Rights, T)
      PROVE  T = attached
  <2>1. \A p \in T \cup {NoOne} : Eldest(p) \in T \cup {NoOne}
    BY <1>1, <1>4, EldestIs DEF Lefts
  <2>2. \A u \in T : link[u].right \in T \cup {NoOne}
    BY <1>1, <1>4 DEF Onward, Rights
  <2>3. QED
    BY <2>1, <2>2, AllFound
<1>5. QED
  BY <1>1, <1>2, <1>3, <1>4, ChainEnds

LEMMA ListEnds ==
    ASSUME FamilyTypeOK, FamilyHeld, NEW S \in SUBSET attached, S # {}, Onward(attached, Afters, S)
    PROVE  EndsIn(Afters, S)
<1>1. attached \in SUBSET Family /\ Enclosed /\ Paired
  BY DEF FamilyTypeOK, FamilyHeld
<1>2. LeadBack(attached, Afters, Befores)
  BY <1>1 DEF LeadBack, Afters, Befores, Paired
<1>3. \A u \in attached : Afters[u] \in attached \cup {NoOne} /\ Befores[u] \in attached \cup {NoOne}
  BY <1>1, PointersInside DEF Afters, Befores
<1>4. ASSUME NEW T \in SUBSET attached, \A v \in attached : Befores[v] = NoOne => v \in T,
             Onward(attached, Afters, T)
      PROVE  T = attached
  <2>1. ListClosed(T)
    BY <1>1, <1>4 DEF ListClosed, IsFirst, Onward, Afters, Befores
  <2>2. QED
    BY <2>1 DEF FamilyHeld
<1>5. QED
  BY <1>1, <1>2, <1>3, <1>4, ChainEnds

(* Nobody's chain leads back to itself. *)
LEMMA NoLoop ==
    ASSUME FamilyTypeOK, FamilyHeld, NEW t \in attached
    PROVE  /\ link[t].right # t /\ link[t].left # t /\ link[t].after # t /\ link[t].before # t
           /\ link[t].child # t
<1>1. Enclosed /\ Paired /\ t \in Family /\ t # NoOne
  BY PointersInside DEF FamilyHeld
<1>2. link[t].right # t
  <2> SUFFICES ASSUME link[t].right = t PROVE FALSE
    OBVIOUS
  <2>1. Onward(attached, Rights, {t}) /\ ~EndsIn(Rights, {t})
    BY <1>1 DEF Onward, EndsIn, Rights
  <2>2. QED
    BY <2>1, SiblingsEnd
<1>3. link[t].after # t
  <2> SUFFICES ASSUME link[t].after = t PROVE FALSE
    OBVIOUS
  <2>1. Onward(attached, Afters, {t}) /\ ~EndsIn(Afters, {t})
    BY <1>1 DEF Onward, EndsIn, Afters
  <2>2. QED
    BY <2>1, ListEnds
<1>4. QED
  BY <1>1, <1>2, <1>3, NotOwnParent DEF Paired

LEMMA AloneFits == Alone \in Links /\ \A f \in DOMAIN Alone : Alone[f] = NoOne
BY DEF Alone, Links, Anyone

LEMMA FieldWritten ==
    ASSUME NEW l \in [Family -> Links], NEW t \in Family, NEW field \in DOMAIN Alone, NEW v \in Anyone
    PROVE  /\ [l EXCEPT ![t][field] = v] \in [Family -> Links]
           /\ \A u \in Family, f \in DOMAIN Alone :
                  [l EXCEPT ![t][field] = v][u][f] = IF u = t /\ f = field THEN v ELSE l[u][f]
<1>1. l[t] \in Links
  OBVIOUS
<1>2. /\ [l[t] EXCEPT ![field] = v] \in Links
      /\ \A f \in DOMAIN Alone : [l[t] EXCEPT ![field] = v][f] = IF f = field THEN v ELSE l[t][f]
  BY <1>1, FieldsAre DEF Links
<1> DEFINE k == [l EXCEPT ![t][field] = v]
<1>3. k[t] = [l[t] EXCEPT ![field] = v] /\ \A u \in Family : u # t => k[u] = l[u]
  OBVIOUS
<1>4. k \in [Family -> Links]
  BY <1>2, <1>3
<1>5. QED
  BY <1>2, <1>3, <1>4

(* Writing through a pointer changes that field of that thread only. *)
Written(k, l, t, field, v) ==
    /\ k \in [Family -> Links]
    /\ \A u \in Family, f \in DOMAIN Alone :
           k[u][f] = IF u = t /\ f = field THEN v ELSE l[u][f]

LEMMA ViaIs ==
    ASSUME NEW l \in [Family -> Links], NEW t \in Anyone, NEW field \in DOMAIN Alone, NEW v \in Anyone
    PROVE  Via(l, t, field, v) \in [Family -> Links] /\ Written(Via(l, t, field, v), l, t, field, v)
<1>1. CASE t = NoOne
  BY <1>1, FamilyAssumption DEF Via, Written
<1>2. CASE t # NoOne
  BY <1>2, FieldWritten DEF Via, Anyone, Written
<1>3. QED
  BY <1>1, <1>2

LEMMA LinksLead ==
    ASSUME NEW l \in [Family -> Links], NEW fields, fields \subseteq DOMAIN Alone
    PROVE  LeadInside(l, fields)
BY FieldsAre DEF LeadInside, Links

(* A chain's end, if it has one. *)
LEMMA EndOfIs ==
    ASSUME NEW l \in [Family -> Links], NEW t \in Anyone, NEW field \in DOMAIN Alone,
           \E u \in Reached(l, t, {field}) : l[u][field] = NoOne
    PROVE  EndOf(l, t, field) \in Reached(l, t, {field}) /\ l[EndOf(l, t, field)][field] = NoOne
BY DEF EndOf

LEMMA RootThere ==
    ASSUME FamilyTypeOK, FamilyHeld
    PROVE  /\ attached = {} <=> root = NoOne
           /\ root \in attached \cup {NoOne}
<1>1. root \in attached \cup {NoOne} /\ NoOne \notin attached
  BY FamilyAssumption DEF FamilyTypeOK, FamilyHeld, Enclosed
<1>2. ASSUME root = NoOne PROVE attached = {}
  <2>1. TreeClosed({})
    BY <1>2 DEF TreeClosed
  <2>2. QED
    BY <2>1 DEF FamilyHeld
<1>3. QED
  BY <1>1, <1>2

(* What attach_thread does to each thread's pointers. *)
LEMMA AttachEnd ==
    ASSUME FamilyTypeOK, FamilyHeld, root # NoOne
    PROVE  EndOf(link, root, "after") \in attached /\ link[EndOf(link, root, "after")].after = NoOne
<1>1. PICK R : R = Reached(link, root, {"after"})
  OBVIOUS
<1>2. root \in attached /\ link \in [Family -> Links] /\ root \in Anyone /\ Enclosed /\ attached \subseteq Family
  BY RootThere DEF FamilyTypeOK, FamilyHeld
<1>3. {"after"} \subseteq DOMAIN Alone /\ "after" \in DOMAIN Alone
  BY FieldsAre
<1>4. KeptBy(link, root, {"after"}, R) /\ \A S : KeptBy(link, root, {"after"}, S) => R \subseteq S
  BY <1>1, <1>2, <1>3, LinksLead, ReachedKept
<1>5. KeptBy(link, root, {"after"}, attached)
  BY <1>2, PointersInside DEF KeptBy
<1>6. R \in SUBSET attached /\ R # {}
  BY <1>2, <1>4, <1>5, FamilyAssumption DEF KeptBy, Anyone
<1>7. Onward(attached, Afters, R)
  BY <1>2, <1>4, <1>6 DEF Onward, Afters, KeptBy
<1>8. EndsIn(Afters, R)
  BY <1>6, <1>7, ListEnds
<1>9. \E u \in R : link[u]["after"] = NoOne
  BY <1>2, <1>6, <1>8 DEF EndsIn, Afters
<1>10. EndOf(link, root, "after") \in R /\ link[EndOf(link, root, "after")]["after"] = NoOne
  BY <1>1, <1>2, <1>3, <1>9, EndOfIs
<1>11. QED
  BY <1>6, <1>10

Joined(t, parent, end, eldest) ==
    /\ link' \in [Family -> Links]
    /\ \A u \in Family :
        /\ link'[u].parent = IF u = t THEN parent ELSE link[u].parent
        /\ link'[u].child = IF u = parent THEN t ELSE link[u].child
        /\ link'[u].left = IF u = eldest THEN t ELSE link[u].left
        /\ link'[u].right = IF u = t THEN eldest ELSE link[u].right
        /\ link'[u].before = IF u = t THEN end ELSE link[u].before
        /\ link'[u].after = IF u = end THEN t ELSE link[u].after

LEMMA AttachJoins ==
    ASSUME FamilyTypeOK, FamilyHeld, NEW t \in Family, t \notin attached,
           NEW parent \in attached \cup {NoOne}, Attach(parent, t)
    PROVE  \E end \in attached \cup {NoOne}, eldest \in attached \cup {NoOne} :
             /\ Joined(t, parent, end, eldest)
             /\ root = NoOne => end = NoOne
             /\ root # NoOne => end # NoOne /\ link[end].after = NoOne
             /\ eldest = IF parent = NoOne THEN NoOne ELSE link[parent].child
<1>0. /\ "parent" \in DOMAIN Alone /\ "child" \in DOMAIN Alone /\ "left" \in DOMAIN Alone
      /\ "right" \in DOMAIN Alone /\ "before" \in DOMAIN Alone /\ "after" \in DOMAIN Alone
  BY FieldsAre
<1>1. PICK end : end = IF root = NoOne THEN NoOne ELSE EndOf(link, root, "after")
  OBVIOUS
<1>2. PICK eldest : eldest = IF parent = NoOne THEN NoOne ELSE link[parent].child
  OBVIOUS
<1>3. attached \subseteq Family /\ link \in [Family -> Links] /\ Enclosed /\ NoOne \notin attached
      /\ t \in Anyone /\ t # NoOne /\ NoOne \notin Family
  BY FamilyAssumption DEF FamilyTypeOK, FamilyHeld, Anyone
<1>4. /\ end \in attached \cup {NoOne} /\ (root = NoOne => end = NoOne)
      /\ root # NoOne => end # NoOne /\ link[end].after = NoOne
  BY <1>1, <1>3, AttachEnd
<1>5. eldest \in attached \cup {NoOne} /\ eldest # t
  BY <1>2, <1>3, PointersInside
<1>6. end \in Anyone /\ eldest \in Anyone /\ parent \in Anyone /\ NoOne \in Anyone
  BY <1>3, <1>4, <1>5 DEF Anyone
<1> DEFINE l1 == Via(link, t, "before", end)
           l2 == Via(l1, end, "after", t)
           l3 == Via(l2, t, "parent", parent)
           l4 == Via(l3, t, "right", eldest)
           l5 == Via(l4, eldest, "left", t)
           l6 == Via(l5, parent, "child", t)
<1>7. link' = l6
  <2>1. l1 = [link EXCEPT ![t].before = end]
    BY <1>3 DEF Via
  <2>2. l4 = [l2 EXCEPT ![t].parent = parent, ![t].right = eldest]
    <3>1. l3 = [l2 EXCEPT ![t].parent = parent]
      BY <1>3 DEF Via
    <3>2. l4 = [l3 EXCEPT ![t].right = eldest]
      BY <1>3 DEF Via
    <3> HIDE DEF l2
    <3>3. QED
      BY <3>1, <3>2
  <2>3. QED
    BY <1>1, <1>2, <2>1, <2>2, Zenon DEF Attach
<1> HIDE DEF l1, l2, l3, l4, l5, l6
<1>8. l1 \in [Family -> Links] /\ Written(l1, link, t, "before", end)
  BY <1>0, <1>3, <1>6, ViaIs DEF l1
<1>9. l2 \in [Family -> Links] /\ Written(l2, l1, end, "after", t)
  BY <1>0, <1>3, <1>6, <1>8, ViaIs DEF l2
<1>10. l3 \in [Family -> Links] /\ Written(l3, l2, t, "parent", parent)
  BY <1>0, <1>3, <1>6, <1>9, ViaIs DEF l3
<1>11. l4 \in [Family -> Links] /\ Written(l4, l3, t, "right", eldest)
  BY <1>0, <1>3, <1>6, <1>10, ViaIs DEF l4
<1>12. l5 \in [Family -> Links] /\ Written(l5, l4, eldest, "left", t)
  BY <1>0, <1>3, <1>6, <1>11, ViaIs DEF l5
<1>13. l6 \in [Family -> Links] /\ Written(l6, l5, parent, "child", t)
  BY <1>0, <1>3, <1>6, <1>12, ViaIs DEF l6
<1>14. Joined(t, parent, end, eldest)
  BY <1>7, <1>8, <1>9, <1>10, <1>11, <1>12, <1>13, FieldsAre DEF Joined, Written
<1>15. QED
  BY <1>2, <1>4, <1>5, <1>14

LEMMA OutsideAlone ==
    ASSUME FamilyTypeOK, Enclosed, NEW t \in Family \ attached
    PROVE  /\ link[t].parent = NoOne /\ link[t].child = NoOne /\ link[t].left = NoOne
           /\ link[t].right = NoOne /\ link[t].before = NoOne /\ link[t].after = NoOne
BY DEF Enclosed, Alone

(* Who joins is the eldest child of its parent and the last of the list. *)
LEMMA AttachHolds ==
    ASSUME FamilyTypeOK, FamilyHeld, NEW t \in Family, t \notin attached,
           NEW parent \in attached \cup {NoOne}, parent = NoOne => attached = {},
           Attach(parent, t), orphaned' = orphaned, gone' = gone
    PROVE  FamilyTypeOK' /\ FamilyHeld'
<1>1. PICK end \in attached \cup {NoOne}, eldest \in attached \cup {NoOne} :
          /\ Joined(t, parent, end, eldest)
          /\ root = NoOne => end = NoOne
          /\ root # NoOne => end # NoOne /\ link[end].after = NoOne
          /\ eldest = IF parent = NoOne THEN NoOne ELSE link[parent].child
  BY AttachJoins
<1>2. /\ root' = (IF root = NoOne THEN t ELSE root) /\ attached' = attached \cup {t}
      /\ root \in attached \cup {NoOne} /\ (root = NoOne <=> attached = {})
  BY RootThere DEF Attach
<1>3. attached \subseteq Family /\ NoOne \notin attached /\ t # NoOne /\ Enclosed /\ Paired /\ Tops
      /\ attached' \subseteq Family
  BY <1>2, FamilyAssumption DEF FamilyTypeOK, FamilyHeld
<1>4. FamilyTypeOK'
  BY <1>1, <1>2, <1>3 DEF FamilyTypeOK, Joined, Anyone
<1>5. /\ link[t].parent = NoOne /\ link[t].child = NoOne /\ link[t].left = NoOne
      /\ link[t].right = NoOne /\ link[t].before = NoOne /\ link[t].after = NoOne
  BY <1>3, OutsideAlone
<1>6. ASSUME NEW u \in attached
      PROVE  /\ link[u].parent \in attached \cup {NoOne} /\ link[u].child \in attached \cup {NoOne}
             /\ link[u].left \in attached \cup {NoOne} /\ link[u].right \in attached \cup {NoOne}
             /\ link[u].before \in attached \cup {NoOne} /\ link[u].after \in attached \cup {NoOne}
  BY <1>3, PointersInside
<1>7. \A u \in Family :
        /\ link'[u].parent = IF u = t THEN parent ELSE link[u].parent
        /\ link'[u].child = IF u = parent THEN t ELSE link[u].child
        /\ link'[u].left = IF u = eldest THEN t ELSE link[u].left
        /\ link'[u].right = IF u = t THEN eldest ELSE link[u].right
        /\ link'[u].before = IF u = t THEN end ELSE link[u].before
        /\ link'[u].after = IF u = end THEN t ELSE link[u].after
  BY <1>1 DEF Joined
<1>8. Enclosed'
  <2>1. root' \in attached' \cup {NoOne}
    BY <1>2
  <2>2. ASSUME NEW u \in Family \ attached' PROVE link'[u] = Alone
    <3>1. u \in Family /\ u # t /\ u \notin attached /\ link'[u] \in Links
      BY <1>1, <1>2, <2>2 DEF Joined
    <3>2. /\ link'[u].parent = NoOne /\ link'[u].child = NoOne /\ link'[u].left = NoOne
          /\ link'[u].right = NoOne /\ link'[u].before = NoOne /\ link'[u].after = NoOne
      <4>1. u # NoOne /\ u # parent /\ u # eldest /\ u # end
        BY <3>1, FamilyAssumption
      <4>2. /\ link[u].parent = NoOne /\ link[u].child = NoOne /\ link[u].left = NoOne
            /\ link[u].right = NoOne /\ link[u].before = NoOne /\ link[u].after = NoOne
        BY <1>3, <3>1, OutsideAlone
      <4>3. QED
        BY <1>7, <3>1, <4>1, <4>2
    <3>3. QED
      BY <3>1, <3>2 DEF Links, Alone
  <2>3. ASSUME NEW u \in attached', NEW f \in DOMAIN Alone PROVE link'[u][f] \in attached' \cup {NoOne}
    <3>1. /\ link'[u].parent \in attached' \cup {NoOne} /\ link'[u].child \in attached' \cup {NoOne}
          /\ link'[u].left \in attached' \cup {NoOne} /\ link'[u].right \in attached' \cup {NoOne}
          /\ link'[u].before \in attached' \cup {NoOne} /\ link'[u].after \in attached' \cup {NoOne}
      BY <1>2, <1>3, <1>5, <1>6, <1>7
    <3>2. QED
      BY <3>1, FieldsAre
  <2>4. QED
    BY <2>1, <2>2, <2>3 DEF Enclosed
<1>9. Paired'
  <2>1. ASSUME NEW u \in attached', NEW v \in attached'
        PROVE  /\ link'[u].right = v <=> link'[v].left = u
               /\ link'[u].right = v => link'[v].parent = link'[u].parent
    BY <1>2, <1>3, <1>5, <1>6, <1>7, <1>1, <2>1 DEF Paired
  <2>2. ASSUME NEW u \in attached', NEW v \in attached'
        PROVE  link'[u].after = v <=> link'[v].before = u
    BY <1>2, <1>3, <1>5, <1>6, <1>7, <1>1, <2>2 DEF Paired
  <2>3. ASSUME NEW u \in attached', NEW v \in attached'
        PROVE  link'[u].child = v <=> link'[v].parent = u /\ link'[v].left = NoOne
    BY <1>2, <1>3, <1>5, <1>6, <1>7, <1>1, <2>3 DEF Paired
  <2>4. QED
    BY <2>1, <2>2, <2>3 DEF Paired
<1>10. Tops'
  BY <1>1, <1>2, <1>3, <1>5, <1>6, <1>7 DEF Tops, Paired
<1>11. ASSUME NEW S \in SUBSET attached', TreeClosed(S)' PROVE S = attached'
  <2>1. ASSUME attached # {} PROVE S \ {t} = attached
    <3>1. \A u \in S : link'[u].child \in S \cup {NoOne} /\ link'[u].right \in S \cup {NoOne}
      BY <1>11 DEF TreeClosed
    <3>2. root' \in S \cup {NoOne} /\ root' = root /\ root # t
      BY <1>2, <1>11, <2>1 DEF TreeClosed
    <3>3. S \ {t} \in SUBSET attached
      BY <1>2
    <3>4. ASSUME NEW u \in S \ {t}
          PROVE  link[u].child \in (S \ {t}) \cup {NoOne} /\ link[u].right \in (S \ {t}) \cup {NoOne}
      <4>1. u \in attached /\ u # t /\ u \in Family
        BY <1>3, <3>3
      <4>2. link[u].right = link'[u].right
        BY <1>7, <4>1
      <4>3. u # parent => link[u].child = link'[u].child
        BY <1>7, <4>1
      <4>4. u = parent => t \in S /\ link[u].child = link'[t].right
        BY <1>1, <1>3, <1>7, <3>1, <4>1
      <4>5. QED
        BY <1>3, <1>6, <3>1, <4>1, <4>2, <4>3, <4>4
    <3>5. TreeClosed(S \ {t})
      BY <3>2, <3>4 DEF TreeClosed
    <3>6. QED
      BY <3>3, <3>5 DEF FamilyHeld
  <2>2. CASE attached = {}
    BY <1>2, <1>3, <1>11, <2>2 DEF TreeClosed
  <2>3. CASE attached # {}
    <3>1. parent \in S /\ parent # NoOne
      BY <1>3, <2>1, <2>3
    <3>2. link'[parent].child = t /\ link'[parent].child \in S \cup {NoOne}
      BY <1>3, <1>7, <1>11, <3>1 DEF TreeClosed
    <3>3. QED
      BY <1>2, <1>3, <2>1, <2>3, <3>2
  <2>4. QED
    BY <2>2, <2>3
<1>12. ASSUME NEW S \in SUBSET attached', ListClosed(S)' PROVE S = attached'
  <2>1. (\A u \in attached' : link'[u].before = NoOne => u \in S)
        /\ \A u \in S : link'[u].after \in S \cup {NoOne}
    BY <1>12 DEF ListClosed, IsFirst
  <2>2. S \ {t} = attached
    <3>1. S \ {t} \in SUBSET attached
      BY <1>2
    <3>2. \A u \in attached : link[u].before = NoOne => u \in S \ {t}
      BY <1>2, <1>3, <1>7, <2>1
    <3>3. \A u \in S \ {t} : link[u].after \in (S \ {t}) \cup {NoOne}
      BY <1>1, <1>2, <1>3, <1>6, <1>7, <2>1
    <3>4. ListClosed(S \ {t})
      BY <3>2, <3>3 DEF ListClosed, IsFirst
    <3>5. QED
      BY <3>1, <3>4 DEF FamilyHeld
  <2>3. CASE end = NoOne
    BY <1>2, <1>3, <1>7, <2>1, <2>2, <2>3
  <2>4. CASE end # NoOne
    <3>1. end \in S /\ link'[end].after = t
      BY <1>1, <1>3, <1>7, <2>2, <2>4
    <3>2. QED
      BY <1>2, <1>3, <2>1, <2>2, <3>1
  <2>5. QED
    BY <2>3, <2>4
<1>13. \A u, v \in attached' : IsFirst(u)' /\ IsFirst(v)' => u = v
  <2>1. \A u, v \in attached : link[u].before = NoOne /\ link[v].before = NoOne => u = v
    BY DEF FamilyHeld, IsFirst
  <2>2. CASE attached = {}
    BY <1>2, <2>2
  <2>3. CASE attached # {}
    <3>1. end # NoOne
      BY <1>1, <1>2, <2>3
    <3>2. \A u \in attached' : link'[u].before = NoOne => u \in attached /\ link[u].before = NoOne
      BY <1>2, <1>3, <1>7, <3>1
    <3>3. QED
      BY <2>1, <3>2 DEF IsFirst
  <2>4. QED
    BY <2>2, <2>3
<1>14. ~orphaned' /\ root' # NoOne => IsFirst(root)'
  <2> SUFFICES ASSUME ~orphaned, root' # NoOne PROVE link'[root'].before = NoOne
    BY DEF IsFirst
  <2>1. root # NoOne => link[root].before = NoOne
    BY DEF FamilyHeld, IsFirst
  <2>2. QED
    BY <1>1, <1>2, <1>3, <1>7, <2>1
<1>15. QED
  BY <1>4, <1>8, <1>9, <1>10, <1>11, <1>12, <1>13, <1>14 DEF FamilyHeld

(* What detach_thread does, first half: the thread's neighbours are led past *)
(* it, in the list and among its siblings, and its parent to the next child. *)
Parted(l, t) ==
    /\ l \in [Family -> Links]
    /\ \A u \in Family :
        /\ l[u].parent = link[u].parent
        /\ l[u].child = IF u = link[t].parent /\ link[u].child = t THEN link[t].right ELSE link[u].child
        /\ l[u].left = IF u = link[t].right THEN link[t].left ELSE link[u].left
        /\ l[u].right = IF u = link[t].left THEN link[t].right ELSE link[u].right
        /\ l[u].before = IF u = link[t].after THEN link[t].before ELSE link[u].before
        /\ l[u].after = IF u = link[t].before THEN link[t].after ELSE link[u].after

LEMMA UnlinkedParts ==
    ASSUME FamilyTypeOK, FamilyHeld, NEW t \in attached
    PROVE  Parted(Unlinked(t), t)
<1>0. /\ "parent" \in DOMAIN Alone /\ "child" \in DOMAIN Alone /\ "left" \in DOMAIN Alone
      /\ "right" \in DOMAIN Alone /\ "before" \in DOMAIN Alone /\ "after" \in DOMAIN Alone
  BY FieldsAre
<1>1. link \in [Family -> Links] /\ t \in Family /\ NoOne \notin Family
  BY FamilyAssumption DEF FamilyTypeOK
<1>2. PICK parent : parent = link[t].parent
  OBVIOUS
<1>3. PICK left : left = link[t].left
  OBVIOUS
<1>4. PICK right : right = link[t].right
  OBVIOUS
<1>5. PICK before : before = link[t].before
  OBVIOUS
<1>6. PICK after : after = link[t].after
  OBVIOUS
<1>7. /\ parent \in Anyone /\ left \in Anyone /\ right \in Anyone /\ before \in Anyone /\ after \in Anyone
  BY <1>1, <1>2, <1>3, <1>4, <1>5, <1>6 DEF Links
<1> DEFINE l1 == Via(link, after, "before", before)
           l2 == Via(l1, before, "after", after)
           l3 == Via(l2, right, "left", left)
           l4 == Via(l3, left, "right", right)
           l5 == Via(l4, parent, "child", right)
<1>8. Unlinked(t) = IF parent # NoOne /\ link[parent].child = t THEN l5 ELSE l4
  BY <1>2, <1>3, <1>4, <1>5, <1>6, Zenon DEF Unlinked
<1> HIDE DEF l1, l2, l3, l4, l5
<1>9. l1 \in [Family -> Links] /\ Written(l1, link, after, "before", before)
  BY <1>0, <1>1, <1>7, ViaIs DEF l1
<1>10. l2 \in [Family -> Links] /\ Written(l2, l1, before, "after", after)
  BY <1>0, <1>7, <1>9, ViaIs DEF l2
<1>11. l3 \in [Family -> Links] /\ Written(l3, l2, right, "left", left)
  BY <1>0, <1>7, <1>10, ViaIs DEF l3
<1>12. l4 \in [Family -> Links] /\ Written(l4, l3, left, "right", right)
  BY <1>0, <1>7, <1>11, ViaIs DEF l4
<1>13. l5 \in [Family -> Links] /\ Written(l5, l4, parent, "child", right)
  BY <1>0, <1>7, <1>12, ViaIs DEF l5
<1>14. \A u \in Family :
        /\ l4[u].parent = link[u].parent /\ l4[u].child = link[u].child
        /\ l4[u].left = IF u = right THEN left ELSE link[u].left
        /\ l4[u].right = IF u = left THEN right ELSE link[u].right
        /\ l4[u].before = IF u = after THEN before ELSE link[u].before
        /\ l4[u].after = IF u = before THEN after ELSE link[u].after
  BY <1>9, <1>10, <1>11, <1>12, FieldsAre DEF Written
<1>15. \A u \in Family :
        /\ l5[u].parent = l4[u].parent /\ l5[u].child = IF u = parent THEN right ELSE l4[u].child
        /\ l5[u].left = l4[u].left /\ l5[u].right = l4[u].right
        /\ l5[u].before = l4[u].before /\ l5[u].after = l4[u].after
  BY <1>13, FieldsAre DEF Written
<1>16. CASE parent # NoOne /\ link[parent].child = t
  <2>1. Unlinked(t) = l5
    BY <1>8, <1>16
  <2> HIDE <1>8
  <2>2. QED
    BY <1>2, <1>3, <1>4, <1>5, <1>6, <1>13, <1>14, <1>15, <1>16, <2>1 DEF Parted
<1>17. CASE ~(parent # NoOne /\ link[parent].child = t)
  <2>1. Unlinked(t) = l4
    BY <1>8, <1>17
  <2>2. \A u \in Family : ~(u = parent /\ link[u].child = t)
    BY <1>1, <1>17
  <2>3. QED
    BY <1>2, <1>3, <1>4, <1>5, <1>6, <1>12, <1>14, <2>1, <2>2 DEF Parted
<1>18. QED
  BY <1>16, <1>17

(* The chain of siblings still ends without the thread, *)
LEMMA PartedEnds ==
    ASSUME FamilyTypeOK, FamilyHeld, NEW t \in attached, NEW l, Parted(l, t),
           NEW S \in SUBSET (attached \ {t}), S # {}, \A u \in S : l[u].right \in S \cup {NoOne}
    PROVE  \E u \in S : l[u].right = NoOne
<1>1. attached \subseteq Family /\ t \in Family /\ Enclosed /\ Paired /\ NoOne \notin attached
  BY FamilyAssumption DEF FamilyTypeOK, FamilyHeld
<1>2. \A u \in Family : l[u].right = IF u = link[t].left THEN link[t].right ELSE link[u].right
  BY DEF Parted
<1>3. \A u \in attached : link[u].right = t <=> link[t].left = u
  BY <1>1 DEF Paired
<1>4. link[t].right # t
  BY NoLoop
<1>5. CASE link[t].left \in S
  <2> DEFINE T == S \cup {t}
  <2>1. T \in SUBSET attached /\ T # {}
    OBVIOUS
  <2>2. link[t].right \in S \cup {NoOne}
    BY <1>1, <1>2, <1>5
  <2>3. \A u \in T : link[u].right \in T \cup {NoOne}
    BY <1>1, <1>2, <1>3, <2>2
  <2>4. Onward(attached, Rights, T)
    BY <1>1, <2>1, <2>3 DEF Onward, Rights
  <2>5. EndsIn(Rights, T)
    <3> HIDE DEF T
    <3>1. QED
      BY <2>1, <2>4, SiblingsEnd
  <2>6. PICK u \in T : link[u].right = NoOne
    BY <1>1, <2>1, <2>5 DEF EndsIn, Rights
  <2>7. CASE u = t
    BY <1>1, <1>2, <1>5, <2>6, <2>7
  <2>8. CASE u # t
    <3>1. u \in S /\ u \in Family /\ link[u].right # t
      BY <1>1, <2>6, <2>8
    <3>2. u # link[t].left
      BY <1>1, <1>3, <3>1
    <3>3. QED
      BY <1>2, <2>6, <3>1, <3>2
  <2>9. QED
    BY <2>7, <2>8
<1>6. CASE link[t].left \notin S
  <2>1. \A u \in S : u \in Family /\ link[u].right = l[u].right
    BY <1>1, <1>2, <1>6
  <2>2. S \in SUBSET attached /\ Onward(attached, Rights, S)
    BY <1>1, <2>1 DEF Onward, Rights
  <2>3. EndsIn(Rights, S)
    BY <2>2, SiblingsEnd
  <2>4. QED
    BY <2>1, <2>3 DEF EndsIn, Rights
<1>7. QED
  BY <1>5, <1>6

(* and where it does is one of the siblings. *)
LEMMA TailIs ==
    ASSUME FamilyTypeOK, FamilyHeld, NEW t \in attached, NEW l, Parted(l, t),
           NEW first \in attached \ {t}, link[first].parent = link[t].parent
    PROVE  /\ EndOf(l, first, "right") \in attached \ {t}
           /\ link[EndOf(l, first, "right")].parent = link[t].parent
           /\ l[EndOf(l, first, "right")].right = NoOne
<1> DEFINE C == {u \in attached \ {t} : link[u].parent = link[t].parent}
<1>1. PICK R : R = Reached(l, first, {"right"})
  OBVIOUS
<1>2. attached \subseteq Family /\ t \in Family /\ Enclosed /\ Paired /\ NoOne \notin Family
      /\ l \in [Family -> Links] /\ first \in Anyone /\ first # NoOne
  BY FamilyAssumption DEF FamilyTypeOK, FamilyHeld, Parted, Anyone
<1>3. {"right"} \subseteq DOMAIN Alone /\ "right" \in DOMAIN Alone
  BY FieldsAre
<1>4. KeptBy(l, first, {"right"}, R) /\ \A S : KeptBy(l, first, {"right"}, S) => R \subseteq S
  BY <1>1, <1>2, <1>3, LinksLead, ReachedKept
<1>5. ASSUME NEW u \in C PROVE l[u].right \in C \cup {NoOne}
  <2>1. u \in Family /\ u \in attached /\ l[u].right = IF u = link[t].left THEN link[t].right ELSE link[u].right
    BY <1>2 DEF Parted
  <2>2. CASE u = link[t].left
    <3>1. link[t].right # NoOne => link[t].right \in attached /\ link[link[t].right].parent = link[t].parent
      BY <1>2, RightLeads
    <3>2. link[t].right # t
      BY NoLoop
    <3>3. QED
      BY <2>1, <2>2, <3>1, <3>2
  <2>3. CASE u # link[t].left
    <3>1. link[u].right # NoOne =>
              link[u].right \in attached /\ link[link[u].right].parent = link[u].parent
      BY <1>2, <2>1, RightLeads
    <3>2. link[u].right # t
      BY <1>2, <2>1, <2>3 DEF Paired
    <3>3. QED
      BY <2>1, <2>3, <3>1, <3>2
  <2>4. QED
    BY <2>2, <2>3
<1>6. KeptBy(l, first, {"right"}, C)
  BY <1>5 DEF KeptBy
<1>7. R \subseteq C /\ first \in R
  BY <1>2, <1>4, <1>6 DEF KeptBy
<1>8. \A u \in R : l[u].right \in R \cup {NoOne}
  BY <1>4 DEF KeptBy
<1>9. PICK u \in R : l[u].right = NoOne
  BY <1>7, <1>8, PartedEnds
<1>10. \E v \in R : l[v]["right"] = NoOne
  BY <1>9
<1>11. EndOf(l, first, "right") \in R /\ l[EndOf(l, first, "right")]["right"] = NoOne
  BY <1>1, <1>2, <1>3, <1>10, EndOfIs
<1>12. QED
  BY <1>7, <1>11

(* Second half: the children, behind the eldest of their grandparent's or in *)
(* its place, and that is their parent.                                      *)
First(t) == IF Eldest(link[t].parent) = t THEN link[t].right ELSE Eldest(link[t].parent)

LEMMA FirstIs ==
    ASSUME FamilyTypeOK, FamilyHeld, NEW t \in attached
    PROVE  /\ First(t) \in (attached \ {t}) \cup {NoOne}
           /\ First(t) # NoOne => link[First(t)].parent = link[t].parent
           /\ First(t) = NoOne => Eldest(link[t].parent) = t /\ link[t].right = NoOne
<1>1. Enclosed /\ Paired /\ Tops /\ NoOne \notin attached /\ link[t].parent \in attached \cup {NoOne}
      /\ link[t].right \in attached \cup {NoOne}
  BY PointersInside DEF FamilyHeld
<1>2. Eldest(link[t].parent) \in attached
  BY HasEldest
<1>3. link[t].right # t
  BY NoLoop
<1>4. CASE Eldest(link[t].parent) = t
  <2>1. link[t].right # NoOne => link[link[t].right].parent = link[t].parent
    BY <1>1, RightLeads
  <2>2. QED
    BY <1>1, <1>3, <1>4, <2>1 DEF First
<1>5. CASE Eldest(link[t].parent) # t
  <2>1. link[Eldest(link[t].parent)].parent = link[t].parent
    BY <1>1, <1>2, EldestIs
  <2>2. QED
    BY <1>1, <1>2, <1>5, <2>1 DEF First
<1>6. QED
  BY <1>4, <1>5

(* The chain that begins with a thread's eldest child has all its children. *)
LEMMA KidsReached ==
    ASSUME FamilyTypeOK, FamilyHeld, NEW t \in attached, NEW l \in [Family -> Links],
           \A u \in attached : link[u].parent = t => l[u].right = link[u].right
    PROVE  Reached(l, link[t].child, {"right"}) = {u \in attached : link[u].parent = t}
<1> DEFINE K == {u \in attached : link[u].parent = t}
<1>1. PICK R : R = Reached(l, link[t].child, {"right"})
  OBVIOUS
<1>2. attached \subseteq Family /\ t \in Family /\ Enclosed /\ Paired /\ Tops /\ t # NoOne
      /\ NoOne \notin attached /\ link[t].child \in attached \cup {NoOne} /\ link[t].child \in Anyone
  BY PointersInside DEF FamilyTypeOK, FamilyHeld, Anyone
<1>3. {"right"} \subseteq DOMAIN Alone
  BY FieldsAre
<1>4. KeptBy(l, link[t].child, {"right"}, R) /\ \A S : KeptBy(l, link[t].child, {"right"}, S) => R \subseteq S
  BY <1>1, <1>2, <1>3, LinksLead, ReachedKept
<1>5. link[t].child \in R \cup {NoOne} /\ \A u \in R : l[u].right \in R \cup {NoOne}
  BY <1>4 DEF KeptBy
<1>6. KeptBy(l, link[t].child, {"right"}, K)
  <2>1. link[t].child \in K \cup {NoOne}
    BY <1>2 DEF Paired
  <2>2. ASSUME NEW u \in K PROVE l[u].right \in K \cup {NoOne}
    <3>1. l[u].right = link[u].right /\ u \in attached
      OBVIOUS
    <3>2. link[u].right # NoOne => link[u].right \in attached /\ link[link[u].right].parent = t
      BY <1>2, RightLeads
    <3>3. QED
      BY <3>1, <3>2
  <2>3. QED
    BY <2>1, <2>2 DEF KeptBy
<1>7. R \subseteq K
  BY <1>4, <1>6
<1> DEFINE S == {u \in attached : link[u].parent = t => u \in R}
<1>8. ASSUME NEW q \in S \cup {NoOne} PROVE Eldest(q) \in S \cup {NoOne}
  <2>1. q \in attached \cup {NoOne}
    OBVIOUS
  <2>2. Eldest(q) # NoOne => Eldest(q) \in attached /\ link[Eldest(q)].parent = q
    BY <1>2, <2>1, EldestIs
  <2>3. q = t => Eldest(q) = link[t].child
    BY <1>2 DEF Eldest
  <2>4. QED
    BY <1>5, <2>2, <2>3
<1>9. ASSUME NEW u \in S PROVE link[u].right \in S \cup {NoOne}
  <2>1. link[u].right # NoOne => link[u].right \in attached /\ link[link[u].right].parent = link[u].parent
    BY <1>2, RightLeads
  <2>2. link[u].parent = t => link[u].right \in R \cup {NoOne}
    BY <1>5
  <2>3. QED
    BY <2>1, <2>2
<1>10. S = attached
  <2>1. S \in SUBSET attached
    OBVIOUS
  <2> HIDE DEF S
  <2>2. QED
    BY <1>8, <1>9, <2>1, AllFound
<1>11. QED
  BY <1>1, <1>7, <1>10

(* Whose right pointer the children are appended to, if any. *)
TailFits(tail, t) ==
    /\ tail \in (attached \ {t}) \cup {NoOne}
    /\ tail # NoOne => /\ link[tail].parent = link[t].parent /\ link[t].child # NoOne /\ First(t) # NoOne
                       /\ IF tail = link[t].left THEN link[t].right = NoOne ELSE link[tail].right = NoOne
    /\ tail = NoOne /\ link[t].child # NoOne => First(t) = NoOne

Left(t, tail) ==
    /\ link' \in [Family -> Links] /\ link'[t] = Alone
    /\ root' = IF root # t THEN root ELSE IF link[t].right = NoOne THEN link[t].child ELSE link[t].right
    /\ \A u \in Family : u # t =>
        /\ link'[u].parent = IF link[u].parent = t THEN link[t].parent ELSE link[u].parent
        /\ link'[u].child = IF u # link[t].parent \/ link[u].child # t THEN link[u].child
                            ELSE IF link[t].right = NoOne THEN link[t].child ELSE link[t].right
        /\ link'[u].left = IF u = link[t].right THEN link[t].left
                           ELSE IF u = link[t].child THEN tail ELSE link[u].left
        /\ link'[u].right = IF u = tail THEN link[t].child
                            ELSE IF u = link[t].left THEN link[t].right ELSE link[u].right
        /\ link'[u].before = IF u = link[t].after THEN link[t].before ELSE link[u].before
        /\ link'[u].after = IF u = link[t].before THEN link[t].after ELSE link[u].after

LEMMA RootOf ==
    ASSUME FamilyTypeOK, FamilyHeld, NEW t \in attached
    PROVE  /\ link[t].parent = NoOne => RootAfter(t) = First(t)
           /\ link[t].parent # NoOne => RootAfter(t) = root /\ root # t
<1>1. Tops
  BY DEF FamilyHeld
<1>2. QED
  BY <1>1 DEF Tops, RootAfter, First, Eldest

LEMMA RaisedIs ==
    ASSUME FamilyTypeOK, FamilyHeld, NEW t \in attached, NEW l \in [Family -> Links],
           l[t].child = link[t].child, l[t].parent = link[t].parent,
           \A u \in attached : link[u].parent = t => l[u].right = link[u].right
    PROVE  /\ Raised(l, t) \in [Family -> Links]
           /\ \A u \in Family :
                /\ Raised(l, t)[u].parent = IF link[u].parent = t THEN link[t].parent ELSE l[u].parent
                /\ Raised(l, t)[u].child = l[u].child
                /\ Raised(l, t)[u].left = l[u].left /\ Raised(l, t)[u].right = l[u].right
                /\ Raised(l, t)[u].before = l[u].before /\ Raised(l, t)[u].after = l[u].after
<1> DEFINE K == {u \in attached : link[u].parent = t}
<1>1. attached \subseteq Family /\ Enclosed /\ link \in [Family -> Links] /\ t \in Family /\ t # NoOne
  BY PointersInside DEF FamilyTypeOK, FamilyHeld
<1>2. Reached(l, l[t].child, {"right"}) = K
  BY KidsReached
<1>3. \A u \in Family : u \in K <=> link[u].parent = t
  <2>1. \A u \in Family : u \notin attached => link[u].parent # t
    BY <1>1, OutsideAlone
  <2>2. QED
    BY <2>1
<1>4. link[t].parent \in Anyone
  BY <1>1 DEF Links
<1>5. PICK parent : parent = l[t].parent
  OBVIOUS
<1>6. parent = link[t].parent /\ parent \in Anyone
  BY <1>4, <1>5
<1>7. Raised(l, t) = [u \in Family |-> IF u \in K THEN [l[u] EXCEPT !.parent = parent] ELSE l[u]]
  <2> HIDE DEF K
  <2>1. QED
    BY <1>2, <1>5 DEF Raised
<1> HIDE DEF K
<1>8. \A u \in Family : /\ l[u] \in Links /\ [l[u] EXCEPT !.parent = parent] \in Links
                        /\ [l[u] EXCEPT !.parent = parent].parent = parent
                        /\ [l[u] EXCEPT !.parent = parent].child = l[u].child
                        /\ [l[u] EXCEPT !.parent = parent].left = l[u].left
                        /\ [l[u] EXCEPT !.parent = parent].right = l[u].right
                        /\ [l[u] EXCEPT !.parent = parent].before = l[u].before
                        /\ [l[u] EXCEPT !.parent = parent].after = l[u].after
  BY <1>6 DEF Links
<1>9. PICK k : k = Raised(l, t)
  OBVIOUS
<1>10. \A u \in Family : k[u] = IF u \in K THEN [l[u] EXCEPT !.parent = parent] ELSE l[u]
  BY <1>7, <1>9
<1>11. k \in [Family -> Links]
  BY <1>7, <1>8, <1>9
<1>12. ASSUME NEW u \in Family
       PROVE  /\ k[u].parent = IF link[u].parent = t THEN link[t].parent ELSE l[u].parent
              /\ k[u].child = l[u].child
              /\ k[u].left = l[u].left /\ k[u].right = l[u].right
              /\ k[u].before = l[u].before /\ k[u].after = l[u].after
  <2>1. CASE u \in K
    <3>1. k[u] = [l[u] EXCEPT !.parent = parent] /\ link[u].parent = t
      BY <1>3, <1>10, <2>1
    <3>2. QED
      BY <1>6, <1>8, <3>1
  <2>2. CASE u \notin K
    BY <1>3, <1>10, <2>2
  <2>3. QED
    BY <2>1, <2>2
<1>13. QED
  BY <1>9, <1>11, <1>12

LEMMA DetachLeaves ==
    ASSUME FamilyTypeOK, FamilyHeld, NEW t \in attached, Detach(t)
    PROVE  \E tail \in (attached \ {t}) \cup {NoOne} : TailFits(tail, t) /\ Left(t, tail)
<1>1. attached \subseteq Family /\ Enclosed /\ Paired /\ Tops /\ link \in [Family -> Links] /\ t \in Family
      /\ t # NoOne /\ NoOne \notin Family
  BY FamilyAssumption DEF FamilyTypeOK, FamilyHeld
<1>2. PICK parent : parent = link[t].parent
  OBVIOUS
<1>3. PICK child : child = link[t].child
  OBVIOUS
<1>4. PICK first : first = First(t)
  OBVIOUS
<1>5. PICK l : l = Unlinked(t)
  OBVIOUS
<1>6. Parted(l, t) /\ l \in [Family -> Links]
  BY <1>5, UnlinkedParts DEF Parted
<1>7. /\ parent \in attached \cup {NoOne} /\ child \in attached \cup {NoOne} /\ child # t /\ parent # t
      /\ parent \in Anyone /\ child \in Anyone
      /\ child # NoOne => link[child].parent = t /\ link[child].left = NoOne /\ child \in Family
  BY <1>1, <1>2, <1>3, PointersInside, NotOwnParent, NoLoop DEF Anyone, Paired
<1>8. l[t].child = child /\ l[t].parent = parent
  BY <1>1, <1>2, <1>3, <1>6, <1>7 DEF Parted
<1>9. first = IF parent = NoOne THEN RootAfter(t) ELSE l[parent].child
  <2>1. CASE parent = NoOne
    BY <1>2, <1>4, <2>1, RootOf
  <2>2. CASE parent # NoOne
    <3>1. parent \in Family
      BY <1>1, <1>7, <2>2
    <3>2. l[parent].child = IF link[parent].child = t THEN link[t].right ELSE link[parent].child
      BY <1>2, <1>6, <3>1 DEF Parted
    <3>3. QED
      BY <1>2, <1>4, <2>2, <3>2 DEF First, Eldest
  <2>3. QED
    BY <2>1, <2>2
<1>10. /\ first \in (attached \ {t}) \cup {NoOne}
       /\ first # NoOne => link[first].parent = parent
       /\ first = NoOne => Eldest(parent) = t /\ link[t].right = NoOne
  BY <1>2, <1>4, FirstIs
<1>11. root' = IF root # t THEN root ELSE IF link[t].right = NoOne THEN child ELSE link[t].right
  <2>1. root' = IF RootAfter(t) = NoOne /\ parent = NoOne THEN child ELSE RootAfter(t)
    BY <1>2, <1>3 DEF Detach
  <2>2. CASE root = t
    BY <1>1, <1>2, <2>1, <2>2 DEF RootAfter, Tops
  <2>3. CASE root # t
    <3>1. RootAfter(t) = root /\ root # NoOne
      BY <2>3, RootThere DEF RootAfter
    <3>2. QED
      BY <2>1, <2>3, <3>1
  <2>4. QED
    BY <2>2, <2>3
<1>12. PICK m : m = Adopted(l, t, RootAfter(t))
  OBVIOUS
<1>13. link' = [m EXCEPT ![t] = Alone]
  BY <1>5, <1>12 DEF Detach
<1>14. ASSUME NEW tail, TailFits(tail, t), m \in [Family -> Links],
              \A u \in Family : u # t =>
                /\ m[u].parent = IF link[u].parent = t THEN parent ELSE link[u].parent
                /\ m[u].child = IF u # parent \/ link[u].child # t THEN link[u].child
                                ELSE IF link[t].right = NoOne THEN child ELSE link[t].right
                /\ m[u].left = IF u = link[t].right THEN link[t].left
                               ELSE IF u = child THEN tail ELSE link[u].left
                /\ m[u].right = IF u = tail THEN child ELSE l[u].right
                /\ m[u].before = l[u].before /\ m[u].after = l[u].after
       PROVE  \E x \in (attached \ {t}) \cup {NoOne} : TailFits(x, t) /\ Left(t, x)
  <2>1. link' \in [Family -> Links] /\ link'[t] = Alone /\ \A u \in Family : u # t => link'[u] = m[u]
    BY <1>1, <1>13, <1>14, AloneFits
  <2>2. \A u \in Family :
            /\ l[u].right = IF u = link[t].left THEN link[t].right ELSE link[u].right
            /\ l[u].before = IF u = link[t].after THEN link[t].before ELSE link[u].before
            /\ l[u].after = IF u = link[t].before THEN link[t].after ELSE link[u].after
    BY <1>6 DEF Parted
  <2>3. Left(t, tail)
    BY <1>2, <1>3, <1>11, <1>14, <2>1, <2>2 DEF Left
  <2>4. tail \in (attached \ {t}) \cup {NoOne}
    BY <1>14 DEF TailFits
  <2>5. QED
    BY <1>14, <2>3, <2>4
<1>15. \A u \in Family :
        /\ l[u].parent = link[u].parent
        /\ l[u].child = IF u = parent /\ link[u].child = t THEN link[t].right ELSE link[u].child
        /\ l[u].left = IF u = link[t].right THEN link[t].left ELSE link[u].left
  BY <1>2, <1>6 DEF Parted
<1>16. link[t].right = NoOne \/ link[t].right # child
  BY <1>1, <1>3, <1>7, NotOwnParent, RightLeads
<1>17. CASE child = NoOne
  <2>1. m = l
    BY <1>8, <1>12, <1>17 DEF Adopted
  <2>2. TailFits(NoOne, t)
    BY <1>3, <1>17 DEF TailFits
  <2>3. ASSUME NEW u \in Family PROVE link[u].parent # t
    <3>1. CASE u \in attached
      <4>1. link[u].parent = t => Eldest(t) \in attached
        BY <3>1, HasEldest
      <4>2. QED
        BY <1>1, <1>3, <1>17, <4>1 DEF Eldest
    <3>2. CASE u \notin attached
      BY <1>1, <3>2, OutsideAlone
    <3>3. QED
      BY <3>1, <3>2
  <2>4. QED
    BY <1>1, <1>6, <1>14, <1>15, <1>17, <2>1, <2>2, <2>3
<1>18. CASE child # NoOne /\ first # NoOne
  <2>1. PICK tail : tail = EndOf(l, first, "right")
    OBVIOUS
  <2>2. tail \in attached \ {t} /\ link[tail].parent = parent /\ l[tail].right = NoOne
    BY <1>2, <1>6, <1>10, <1>18, <2>1, TailIs
  <2> DEFINE k1 == Via(l, tail, "right", child)
             k2 == Via(k1, child, "left", tail)
  <2>3. m = Raised(k2, t)
    BY <1>8, <1>9, <1>12, <1>18, <2>1 DEF Adopted, Behind
  <2> HIDE DEF k1, k2
  <2>4. tail \in Family /\ tail \in Anyone /\ tail # NoOne /\ tail # t /\ "right" \in DOMAIN Alone /\ "left" \in DOMAIN Alone
    BY <1>1, <2>2, FieldsAre DEF Anyone
  <2>5. k1 \in [Family -> Links] /\ Written(k1, l, tail, "right", child)
    BY <1>6, <1>7, <2>4, ViaIs DEF k1
  <2>6. k2 \in [Family -> Links] /\ Written(k2, k1, child, "left", tail)
    BY <1>7, <2>4, <2>5, ViaIs DEF k2
  <2>7. \A u \in Family :
            /\ k2[u].parent = l[u].parent /\ k2[u].child = l[u].child
            /\ k2[u].left = IF u = child THEN tail ELSE l[u].left
            /\ k2[u].right = IF u = tail THEN child ELSE l[u].right
            /\ k2[u].before = l[u].before /\ k2[u].after = l[u].after
    BY <2>5, <2>6, FieldsAre DEF Written
  <2>8. k2[t].child = link[t].child /\ k2[t].parent = link[t].parent
    BY <1>1, <1>2, <1>3, <1>8, <2>7
  <2>9. ASSUME NEW u \in attached, link[u].parent = t PROVE k2[u].right = link[u].right
    <3>1. u \in Family /\ u # tail
      BY <1>1, <1>7, <2>2, <2>9
    <3>2. u # link[t].left
      <4>1. u = link[t].left => link[u].right = t
        BY <1>1, <2>9 DEF Paired
      <4>2. link[u].right = t => link[t].parent = link[u].parent
        BY <1>1, <2>9 DEF Paired
      <4>3. QED
        BY <1>2, <1>7, <2>9, <4>1, <4>2
    <3>3. l[u].right = link[u].right
      BY <1>6, <3>1, <3>2 DEF Parted
    <3>4. QED
      BY <2>7, <3>1, <3>3
  <2>10. /\ m \in [Family -> Links]
         /\ \A u \in Family :
              /\ m[u].parent = IF link[u].parent = t THEN link[t].parent ELSE k2[u].parent
              /\ m[u].child = k2[u].child
              /\ m[u].left = k2[u].left /\ m[u].right = k2[u].right
              /\ m[u].before = k2[u].before /\ m[u].after = k2[u].after
    BY <2>3, <2>6, <2>8, <2>9, RaisedIs
  <2>11. link[t].right = NoOne => Eldest(parent) # t
    BY <1>2, <1>4, <1>18 DEF First
  <2>12. TailFits(tail, t)
    <3>1. l[tail].right = IF tail = link[t].left THEN link[t].right ELSE link[tail].right
      BY <1>6, <2>4 DEF Parted
    <3>2. QED
      BY <1>2, <1>3, <1>4, <1>18, <2>2, <2>4, <3>1 DEF TailFits
  <2>13. ASSUME NEW u \in Family, u # t
         PROVE  m[u].child = IF u # parent \/ link[u].child # t THEN link[u].child
                             ELSE IF link[t].right = NoOne THEN child ELSE link[t].right
    <3>1. m[u].child = IF u = parent /\ link[u].child = t THEN link[t].right ELSE link[u].child
      BY <1>15, <2>7, <2>10
    <3>2. u = parent /\ link[u].child = t => link[t].right # NoOne
      BY <1>1, <2>11, <2>13 DEF Eldest
    <3>3. QED
      BY <3>1, <3>2
  <2>14. ASSUME NEW u \in Family, u # t
         PROVE  /\ m[u].parent = IF link[u].parent = t THEN parent ELSE link[u].parent
                /\ m[u].left = IF u = link[t].right THEN link[t].left
                               ELSE IF u = child THEN tail ELSE link[u].left
                /\ m[u].right = IF u = tail THEN child ELSE l[u].right
                /\ m[u].before = l[u].before /\ m[u].after = l[u].after
    BY <1>1, <1>2, <1>15, <1>16, <2>7, <2>10, <2>14
  <2>15. QED
    BY <1>14, <2>10, <2>12, <2>13, <2>14
<1>19. CASE child # NoOne /\ first = NoOne
  <2> DEFINE k == Via(l, parent, "child", child)
  <2>1. m = Raised(k, t)
    BY <1>8, <1>9, <1>12, <1>19 DEF Adopted
  <2> HIDE DEF k
  <2>2. "child" \in DOMAIN Alone
    BY FieldsAre
  <2>3. k \in [Family -> Links] /\ Written(k, l, parent, "child", child)
    BY <1>6, <1>7, <2>2, ViaIs DEF k
  <2>4. \A u \in Family :
            /\ k[u].parent = l[u].parent /\ k[u].child = IF u = parent THEN child ELSE l[u].child
            /\ k[u].left = l[u].left /\ k[u].right = l[u].right
            /\ k[u].before = l[u].before /\ k[u].after = l[u].after
    BY <2>3, FieldsAre DEF Written
  <2>5. k[t].child = link[t].child /\ k[t].parent = link[t].parent
    BY <1>1, <1>2, <1>3, <1>7, <1>8, <2>4
  <2>6. ASSUME NEW u \in attached, link[u].parent = t PROVE k[u].right = link[u].right
    <3>1. u \in Family
      BY <1>1
    <3>2. u # link[t].left
      <4>1. u = link[t].left => link[u].right = t
        BY <1>1, <2>6 DEF Paired
      <4>2. link[u].right = t => link[t].parent = link[u].parent
        BY <1>1, <2>6 DEF Paired
      <4>3. QED
        BY <1>2, <1>7, <2>6, <4>1, <4>2
    <3>3. l[u].right = link[u].right
      BY <1>6, <3>1, <3>2 DEF Parted
    <3>4. QED
      BY <2>4, <3>1, <3>3
  <2>7. /\ m \in [Family -> Links]
        /\ \A u \in Family :
             /\ m[u].parent = IF link[u].parent = t THEN link[t].parent ELSE k[u].parent
             /\ m[u].child = k[u].child
             /\ m[u].left = k[u].left /\ m[u].right = k[u].right
             /\ m[u].before = k[u].before /\ m[u].after = k[u].after
    BY <2>1, <2>3, <2>5, <2>6, RaisedIs
  <2>8. TailFits(NoOne, t)
    BY <1>4, <1>19 DEF TailFits
  <2>9. \A u \in Family : u = parent => link[u].child = t /\ link[t].right = NoOne
    BY <1>1, <1>10, <1>19 DEF Eldest
  <2>10. ASSUME NEW u \in Family, u # t
         PROVE  /\ m[u].parent = IF link[u].parent = t THEN parent ELSE link[u].parent
                /\ m[u].child = IF u # parent \/ link[u].child # t THEN link[u].child
                                ELSE IF link[t].right = NoOne THEN child ELSE link[t].right
                /\ m[u].before = l[u].before /\ m[u].after = l[u].after
                /\ m[u].right = IF u = NoOne THEN child ELSE l[u].right
    BY <1>1, <1>2, <1>15, <2>4, <2>7, <2>9
  <2>11. ASSUME NEW u \in Family, u # t
         PROVE  m[u].left = IF u = link[t].right THEN link[t].left
                            ELSE IF u = child THEN NoOne ELSE link[u].left
    BY <1>1, <1>7, <1>15, <1>19, <2>4, <2>7
  <2>12. QED
    BY <1>14, <2>7, <2>8, <2>10, <2>11
<1>20. QED
  BY <1>17, <1>18, <1>19

(* Who is the eldest child of whom when a thread has left. *)
EldestWithout(t, q) == IF Eldest(q) # t THEN Eldest(q)
                       ELSE IF link[t].right = NoOne THEN link[t].child ELSE link[t].right

(* The pointers of a thread that stays, next to those of the one that goes. *)
Around(t) ==
    /\ link[t].parent \in (attached \ {t}) \cup {NoOne} /\ link[t].child \in (attached \ {t}) \cup {NoOne}
    /\ link[t].left \in (attached \ {t}) \cup {NoOne} /\ link[t].right \in (attached \ {t}) \cup {NoOne}
    /\ link[t].before \in (attached \ {t}) \cup {NoOne} /\ link[t].after \in (attached \ {t}) \cup {NoOne}

LEMMA AroundIs ==
    ASSUME FamilyTypeOK, FamilyHeld, NEW t \in attached
    PROVE  Around(t)
<1>1. Enclosed
  BY DEF FamilyHeld
<1>2. QED
  BY <1>1, PointersInside, NoLoop, NotOwnParent DEF Around

LEMMA LeftInside ==
    ASSUME FamilyTypeOK, FamilyHeld, NEW t \in attached, attached' = attached \ {t},
           NEW tail, TailFits(tail, t), Left(t, tail)
    PROVE  Enclosed'
<1>1. /\ attached \subseteq Family /\ t \in Family /\ Enclosed /\ Paired /\ Tops /\ NoOne \notin Family
      /\ NoOne \notin attached /\ t # NoOne
  BY FamilyAssumption DEF FamilyTypeOK, FamilyHeld
<1>2. Around(t)
  BY AroundIs
<1>3. tail \in (attached \ {t}) \cup {NoOne}
  BY DEF TailFits
<1>4. root' \in attached' \cup {NoOne}
  BY <1>1, <1>2, RootThere DEF Left, Around
<1>5. ASSUME NEW u \in Family \ attached' PROVE link'[u] = Alone
  <2>1. CASE u = t
    BY <2>1 DEF Left
  <2>2. CASE u # t
    <3>1. u \in Family /\ u \notin attached /\ link'[u] \in Links /\ u # NoOne
      BY <1>1, <1>5, <2>2 DEF Left
    <3>2. /\ link[u].parent = NoOne /\ link[u].child = NoOne /\ link[u].left = NoOne
          /\ link[u].right = NoOne /\ link[u].before = NoOne /\ link[u].after = NoOne
      BY <1>1, <3>1, OutsideAlone
    <3>3. /\ u # link[t].parent /\ u # link[t].child /\ u # link[t].left
          /\ u # link[t].right /\ u # link[t].before /\ u # link[t].after /\ u # tail
      BY <1>2, <1>3, <3>1 DEF Around
    <3>4. /\ link'[u].parent = NoOne /\ link'[u].child = NoOne /\ link'[u].left = NoOne
          /\ link'[u].right = NoOne /\ link'[u].before = NoOne /\ link'[u].after = NoOne
      BY <1>1, <2>2, <3>1, <3>2, <3>3 DEF Left
    <3>5. QED
      BY <3>1, <3>4 DEF Links, Alone
  <2>3. QED
    BY <2>1, <2>2
<1>6. ASSUME NEW u \in attached', NEW f \in DOMAIN Alone PROVE link'[u][f] \in attached' \cup {NoOne}
  <2>1. u \in attached /\ u # t /\ u \in Family
    BY <1>1
  <2>2. /\ link[u].parent \in attached \cup {NoOne} /\ link[u].child \in attached \cup {NoOne}
        /\ link[u].left \in attached \cup {NoOne} /\ link[u].right \in attached \cup {NoOne}
        /\ link[u].before \in attached \cup {NoOne} /\ link[u].after \in attached \cup {NoOne}
    BY <1>1, <2>1, PointersInside
  <2>3. /\ link[u].child = t => u = link[t].parent
        /\ link[u].left = t => u = link[t].right
        /\ link[u].right = t => u = link[t].left
        /\ link[u].before = t => u = link[t].after
        /\ link[u].after = t => u = link[t].before
    BY <1>1, <2>1 DEF Paired
  <2>4. link'[u].parent \in attached' \cup {NoOne} /\ link'[u].child \in attached' \cup {NoOne}
    BY <1>2, <2>1, <2>2, <2>3 DEF Left, Around
  <2>5. link'[u].left \in attached' \cup {NoOne} /\ link'[u].right \in attached' \cup {NoOne}
    BY <1>2, <1>3, <2>1, <2>2, <2>3 DEF Left, Around
  <2>6. link'[u].before \in attached' \cup {NoOne} /\ link'[u].after \in attached' \cup {NoOne}
    BY <1>2, <2>1, <2>2, <2>3 DEF Left, Around
  <2>7. QED
    BY <2>4, <2>5, <2>6, FieldsAre
<1>7. QED
  BY <1>4, <1>5, <1>6 DEF Enclosed

LEMMA LeftEldest ==
    ASSUME FamilyTypeOK, FamilyHeld, NEW t \in attached, attached' = attached \ {t},
           NEW tail, TailFits(tail, t), Left(t, tail),
           NEW q \in (attached \ {t}) \cup {NoOne}, NEW v \in attached \ {t}
    PROVE  EldestWithout(t, q) = v <=> link'[v].parent = q /\ link'[v].left = NoOne
<1>1. /\ attached \subseteq Family /\ t \in Family /\ Enclosed /\ Paired /\ Tops /\ NoOne \notin Family
      /\ NoOne \notin attached /\ t # NoOne /\ v \in Family /\ v # t /\ v # NoOne
  BY FamilyAssumption DEF FamilyTypeOK, FamilyHeld
<1>2. Around(t)
  BY AroundIs
<1>3. \A u \in attached : Eldest(q) = u <=> link[u].parent = q /\ link[u].left = NoOne
  BY <1>1, EldestIs
<1>4. /\ link'[v].parent = IF link[v].parent = t THEN link[t].parent ELSE link[v].parent
      /\ link'[v].left = IF v = link[t].right THEN link[t].left
                         ELSE IF v = link[t].child THEN tail ELSE link[v].left
  BY <1>1 DEF Left
<1>5. /\ v = link[t].right <=> link[v].left = t
      /\ v = link[t].right => link[v].parent = link[t].parent
      /\ v = link[t].child <=> link[v].parent = t /\ link[v].left = NoOne
  BY <1>1 DEF Paired
<1>6. (tail = NoOne /\ link[t].child # NoOne => First(t) = NoOne) /\ (tail # NoOne => First(t) # NoOne)
  BY DEF TailFits
<1>7. First(t) = NoOne <=> Eldest(link[t].parent) = t /\ link[t].right = NoOne
  BY <1>1, FirstIs DEF First
<1>8. link[t].parent # t /\ q # t
  BY <1>1, NotOwnParent
<1>9. Eldest(q) = t <=> link[t].parent = q /\ link[t].left = NoOne
  BY <1>3
<1>10. CASE Eldest(q) = t
  <2>1. q = link[t].parent /\ link[t].left = NoOne
    BY <1>9, <1>10
  <2>2. CASE link[t].right = NoOne
    <3>1. EldestWithout(t, q) = link[t].child /\ (link[t].child # NoOne => tail = NoOne)
      BY <1>6, <1>7, <1>10, <2>1, <2>2 DEF EldestWithout
    <3>2. link[v].parent = q /\ link[v].left = NoOne => v = t
      BY <1>3, <1>10
    <3>3. QED
      BY <1>1, <1>4, <1>5, <1>8, <2>1, <2>2, <3>1, <3>2
  <2>3. CASE link[t].right # NoOne
    <3>1. EldestWithout(t, q) = link[t].right
      BY <1>10, <2>3 DEF EldestWithout
    <3>2. tail = NoOne => link[t].child = NoOne
      BY <1>6, <1>7, <2>3
    <3>3. link[v].parent = q /\ link[v].left = NoOne => v = t
      BY <1>3, <1>10
    <3>4. QED
      BY <1>1, <1>4, <1>5, <1>8, <2>1, <2>3, <3>1, <3>2, <3>3
  <2>4. QED
    BY <2>2, <2>3
<1>11. CASE Eldest(q) # t
  <2>1. EldestWithout(t, q) = v <=> link[v].parent = q /\ link[v].left = NoOne
    BY <1>3, <1>11 DEF EldestWithout
  <2>2. ~(link[t].parent = q /\ link[t].left = NoOne)
    BY <1>9, <1>11
  <2>3. q = link[t].parent => (tail = NoOne => link[t].child = NoOne)
    BY <1>6, <1>7, <1>11
  <2>4. QED
    BY <1>1, <1>4, <1>5, <1>8, <2>1, <2>2, <2>3
<1>12. QED
  BY <1>10, <1>11

LEMMA LeftPaired ==
    ASSUME FamilyTypeOK, FamilyHeld, NEW t \in attached, attached' = attached \ {t},
           NEW tail, TailFits(tail, t), Left(t, tail)
    PROVE  /\ Paired' /\ Tops'
           /\ root' = EldestWithout(t, NoOne)
           /\ \A u \in attached' : link'[u].child = EldestWithout(t, u)
<1>1. /\ attached \subseteq Family /\ t \in Family /\ Enclosed /\ Paired /\ Tops /\ NoOne \notin Family
      /\ NoOne \notin attached /\ t # NoOne
  BY FamilyAssumption DEF FamilyTypeOK, FamilyHeld
<1>2. Around(t)
  BY AroundIs
<1>3. root' = EldestWithout(t, NoOne)
  BY DEF Left, EldestWithout, Eldest
<1>4. ASSUME NEW u \in attached' PROVE link'[u].child = EldestWithout(t, u)
  <2>1. u \in attached /\ u # t /\ u \in Family /\ u # NoOne
    BY <1>1
  <2>2. link[u].child = t => u = link[t].parent
    BY <1>1, <2>1 DEF Paired
  <2>3. QED
    BY <2>1, <2>2 DEF Left, EldestWithout, Eldest
<1>5. ASSUME NEW u \in attached', NEW v \in attached'
      PROVE  link'[u].child = v <=> link'[v].parent = u /\ link'[v].left = NoOne
  BY <1>4, LeftEldest
<1>6. Tops'
  <2>1. \A v \in attached' : root' = v <=> link'[v].parent = NoOne /\ link'[v].left = NoOne
    BY <1>3, LeftEldest
  <2>2. QED
    BY <2>1 DEF Tops
<1>7. ASSUME NEW u \in attached', NEW v \in attached'
      PROVE  /\ link'[u].right = v <=> link'[v].left = u
             /\ link'[u].right = v => link'[v].parent = link'[u].parent
  <2> DEFINE R(x) == IF x = link[t].left THEN link[t].right ELSE link[x].right
             L(x) == IF x = link[t].right THEN link[t].left ELSE link[x].left
  <2>1. u \in attached /\ u # t /\ u \in Family /\ v \in attached /\ v # t /\ v \in Family /\ u # NoOne /\ v # NoOne
    BY <1>1
  <2>2. /\ \A x \in {u, v} : link[x].right = t <=> link[t].left = x
        /\ \A x \in {u, v} : link[x].left = t <=> link[t].right = x
        /\ link[u].right = v <=> link[v].left = u
    BY <1>1, <2>1 DEF Paired
  <2>3. R(u) = v <=> L(v) = u
    BY <2>1, <2>2
  <2>4. R(u) = v => link[v].parent = link[u].parent
    <3>1. link[u].right = v => link[v].parent = link[u].parent
      BY <1>1, <2>1 DEF Paired
    <3>2. link[t].right = v => link[v].parent = link[t].parent
      BY <1>1, <2>1 DEF Paired
    <3>3. link[u].right = t => link[t].parent = link[u].parent
      BY <1>1, <2>1 DEF Paired
    <3>4. QED
      BY <2>2, <3>1, <3>2, <3>3
  <2>5. v = link[t].child => L(v) = NoOne /\ link[v].parent = t
    <3>1. v = link[t].child => link[v].parent = t /\ link[v].left = NoOne
      BY <1>1, <2>1 DEF Paired
    <3>2. QED
      BY <1>1, <2>2, <3>1
  <2>6. u = tail => R(u) = NoOne /\ link[u].parent = link[t].parent
    BY <2>1 DEF TailFits
  <2>7. link'[u].right = IF u = tail THEN link[t].child ELSE R(u)
    BY <2>1 DEF Left
  <2>8. link'[v].left = IF v = link[t].child THEN tail ELSE L(v)
    <3>1. v = link[t].child => v # link[t].right
      BY <1>1, <2>1, <2>2 DEF Paired
    <3>2. link'[v].left = IF v = link[t].right THEN link[t].left
                          ELSE IF v = link[t].child THEN tail ELSE link[v].left
      BY <2>1 DEF Left
    <3>3. QED
      BY <3>1, <3>2
  <2>9. /\ link'[u].parent = IF link[u].parent = t THEN link[t].parent ELSE link[u].parent
        /\ link'[v].parent = IF link[v].parent = t THEN link[t].parent ELSE link[v].parent
    BY <2>1 DEF Left
  <2>10. link[t].parent # t
    BY NotOwnParent
  <2> HIDE DEF R, L
  <2>11. link'[u].right = v <=> link'[v].left = u
    BY <2>1, <2>3, <2>5, <2>6, <2>7, <2>8
  <2>12. link'[u].right = v => link'[v].parent = link'[u].parent
    BY <2>1, <2>4, <2>5, <2>6, <2>7, <2>9, <2>10
  <2>13. QED
    BY <2>11, <2>12
<1>8. ASSUME NEW u \in attached', NEW v \in attached'
      PROVE  link'[u].after = v <=> link'[v].before = u
  <2>1. u \in attached /\ u # t /\ u \in Family /\ v \in attached /\ v # t /\ v \in Family /\ u # NoOne /\ v # NoOne
    BY <1>1
  <2>2. /\ \A x \in {u, v} : link[x].after = t <=> link[t].before = x
        /\ \A x \in {u, v} : link[x].before = t <=> link[t].after = x
        /\ link[u].after = v <=> link[v].before = u
    BY <1>1, <2>1 DEF Paired
  <2>3. /\ link'[u].after = IF u = link[t].before THEN link[t].after ELSE link[u].after
        /\ link'[v].before = IF v = link[t].after THEN link[t].before ELSE link[v].before
    BY <2>1 DEF Left
  <2>4. QED
    BY <2>1, <2>2, <2>3
<1>9. Paired'
  BY <1>5, <1>7, <1>8 DEF Paired
<1>10. QED
  BY <1>3, <1>4, <1>6, <1>9

(* Who stays is still found from the root. For a set that has the root and   *)
(* is closed has the parent of the thread that went, or it would have been   *)
(* closed, but for that parent's children, when the thread was there; so it  *)
(* has its first child and all that follow, and at their end the thread's.   *)
LEMMA LeftFound ==
    ASSUME FamilyTypeOK, FamilyHeld, NEW t \in attached, attached' = attached \ {t},
           NEW tail, TailFits(tail, t), Left(t, tail),
           NEW S \in SUBSET (attached \ {t}), TreeClosed(S)'
    PROVE  S = attached \ {t}
<1>1. /\ attached \subseteq Family /\ t \in Family /\ Enclosed /\ Paired /\ Tops /\ NoOne \notin Family
      /\ NoOne \notin attached /\ t # NoOne /\ t \notin S /\ S \subseteq attached
  BY FamilyAssumption DEF FamilyTypeOK, FamilyHeld
<1>2. Around(t)
  BY AroundIs
<1>3. PICK p : p = link[t].parent
  OBVIOUS
<1>4. p \in attached \cup {NoOne} /\ p # t
  BY <1>1, <1>2, <1>3 DEF Around
<1>5. \A q \in S \cup {NoOne} : EldestWithout(t, q) \in S \cup {NoOne}
  <2>1. root' = EldestWithout(t, NoOne) /\ \A u \in attached' : link'[u].child = EldestWithout(t, u)
    BY LeftPaired
  <2>2. root' \in S \cup {NoOne} /\ \A u \in S : link'[u].child \in S \cup {NoOne}
    BY DEF TreeClosed
  <2>3. QED
    BY <2>1, <2>2
<1>6. \A u \in S : link'[u].right \in S \cup {NoOne}
  BY DEF TreeClosed
<1>7. \A u \in S : link'[u].right = IF u = tail THEN link[t].child
                                    ELSE IF u = link[t].left THEN link[t].right ELSE link[u].right
  BY <1>1 DEF Left
<1>8. \A q \in attached \cup {NoOne} : Eldest(q) = t => q = p /\ link[t].left = NoOne
  BY <1>1, <1>3, EldestIs
<1>9. \A u \in attached : (link[u].right = t <=> link[t].left = u) /\ (link[u].left = t <=> link[t].right = u)
  BY <1>1 DEF Paired
<1>10. link[t].left # NoOne => link[link[t].left].parent = p
  BY <1>1, <1>2, <1>3 DEF Paired, Around
<1>11. tail # NoOne => link[tail].parent = p
  BY <1>3 DEF TailFits
<1>12. p \in S \cup {NoOne}
  <2> SUFFICES ASSUME p \notin S \cup {NoOne} PROVE FALSE
    OBVIOUS
  <2> DEFINE T == {u \in S : link[u].parent # p}
  <2>1. ASSUME NEW q \in T \cup {NoOne} PROVE Eldest(q) \in T \cup {NoOne}
    <3>1. q \in S \cup {NoOne} /\ q \in attached \cup {NoOne} /\ q # p
      BY <1>1
    <3>2. Eldest(q) # t
      BY <1>8, <3>1
    <3>3. Eldest(q) \in S \cup {NoOne}
      BY <1>5, <3>1, <3>2 DEF EldestWithout
    <3>4. Eldest(q) \in S => link[Eldest(q)].parent = q
      BY <1>1, <3>1, EldestIs
    <3>5. QED
      BY <3>1, <3>3, <3>4
  <2>2. ASSUME NEW u \in T PROVE link[u].right \in T \cup {NoOne}
    <3>1. u \in S /\ u \in attached /\ link[u].parent # p /\ u # NoOne
      BY <1>1
    <3>2. u # tail /\ u # link[t].left
      BY <1>10, <1>11, <3>1
    <3>3. link[u].right \in S \cup {NoOne}
      BY <1>6, <1>7, <3>1, <3>2
    <3>4. link[u].right # NoOne => link[link[u].right].parent = link[u].parent
      BY <1>1, <3>1, RightLeads
    <3>5. QED
      BY <3>1, <3>3, <3>4
  <2>3. T \in SUBSET attached /\ t \notin T
    BY <1>1
  <2> HIDE DEF T
  <2>4. T = attached
    BY <2>1, <2>2, <2>3, AllFound
  <2>5. QED
    BY <2>3, <2>4
<1>13. /\ First(t) \in S \cup {NoOne}
       /\ First(t) = NoOne => link[t].right = NoOne /\ link[t].child \in S \cup {NoOne}
  <2>1. First(t) = NoOne => Eldest(p) = t /\ link[t].right = NoOne
    BY <1>3, FirstIs
  <2>2. EldestWithout(t, p) \in S \cup {NoOne}
    BY <1>5, <1>12
  <2>3. QED
    BY <1>3, <2>1, <2>2 DEF EldestWithout, First
<1>14. ASSUME First(t) # NoOne, NEW w \in attached \ {t}, link[w].parent = p PROVE w \in S
  <2> DEFINE B == {u \in attached \ {t} : link[u].parent = p /\ u \notin S}
             A == attached \ {t}
  <2>1. PICK l : l = Unlinked(t)
    OBVIOUS
  <2>2. Parted(l, t)
    BY <2>1, UnlinkedParts
  <2> DEFINE R == [u \in Family |-> l[u].right]
             L == [u \in Family |-> l[u].left]
  <2>3. \A u \in A : /\ u \in attached /\ u # t /\ u # NoOne /\ u \in Family
                     /\ R[u] = l[u].right
                     /\ R[u] = IF u = link[t].left THEN link[t].right ELSE link[u].right
                     /\ L[u] = IF u = link[t].right THEN link[t].left ELSE link[u].left
    BY <1>1, <2>2 DEF Parted
  <2> HIDE DEF R, L
  <2>4. LeadBack(A, L, R)
    <3>1. \A u, v \in A : link[v].right = u <=> link[u].left = v
      BY <1>1, <2>3 DEF Paired
    <3>2. QED
      BY <1>9, <2>3, <3>1 DEF LeadBack
  <2>5. ASSUME NEW u \in B PROVE L[u] \in B
    <3>1. u \in A /\ link[u].parent = p /\ u \notin S
      OBVIOUS
    <3>2. L[u] # NoOne
      <4> SUFFICES ASSUME L[u] = NoOne PROVE FALSE
        OBVIOUS
      <4>1. CASE u = link[t].right
        <5>1. link[t].left = NoOne
          BY <2>3, <3>1, <4>1
        <5>2. Eldest(p) = t
          BY <1>1, <1>3, <1>4, <5>1, EldestIs
        <5>3. First(t) = u
          BY <1>3, <4>1, <5>2 DEF First
        <5>4. QED
          BY <1>13, <1>14, <3>1, <5>3
      <4>2. CASE u # link[t].right
        <5>1. link[u].left = NoOne
          BY <2>3, <3>1, <4>2
        <5>2. Eldest(p) = u
          BY <1>1, <1>4, <2>3, <3>1, <5>1, EldestIs
        <5>3. First(t) = u
          BY <1>3, <2>3, <3>1, <5>2 DEF First
        <5>4. QED
          BY <1>13, <1>14, <3>1, <5>3
      <4>3. QED
        BY <4>1, <4>2
    <3>3. PICK x : x = L[u]
      OBVIOUS
    <3>4. x \in A
      <4>1. link[u].left \in attached \cup {NoOne}
        BY <1>1, <2>3, <3>1, PointersInside
      <4>2. u # link[t].right => link[u].left # t
        BY <1>9, <2>3, <3>1
      <4>3. QED
        BY <1>2, <2>3, <3>1, <3>2, <3>3, <4>1, <4>2 DEF Around
    <3>5. R[x] = u
      BY <2>4, <3>1, <3>3, <3>4 DEF LeadBack
    <3>6. link[x].parent = p
      <4>1. link[x].right # NoOne => link[link[x].right].parent = link[x].parent
        BY <1>1, <2>3, <3>4, RightLeads
      <4>2. QED
        BY <1>10, <2>3, <3>1, <3>4, <3>5, <4>1
    <3>7. x \notin S
      <4> SUFFICES ASSUME x \in S PROVE FALSE
        OBVIOUS
      <4>1. x # tail
        BY <2>3, <3>1, <3>4, <3>5 DEF TailFits
      <4>2. link'[x].right = u
        BY <1>7, <2>3, <3>4, <3>5, <4>1
      <4>3. QED
        BY <1>6, <2>3, <3>1, <4>2
    <3>8. QED
      BY <3>3, <3>4, <3>6, <3>7
  <2>6. NoOne \notin B /\ B \in SUBSET A /\ A \in SUBSET Family
    BY <1>1
  <2>7. Onward(A, L, B) /\ ~EndsIn(L, B)
    <3> HIDE DEF B
    <3>1. QED
      BY <2>5, <2>6 DEF Onward, EndsIn
  <2>8. \A u \in B : R[u] \in B
    <3> HIDE DEF A, B
    <3>1. QED
      BY <2>4, <2>6, <2>7, EndlessSet
  <2>9. B = {}
    <3> SUFFICES ASSUME B # {} PROVE FALSE
      OBVIOUS
    <3>1. \A u \in B : l[u].right \in B \cup {NoOne}
      BY <2>3, <2>6, <2>8
    <3>2. B \in SUBSET (attached \ {t})
      BY <2>6
    <3>3. \E u \in B : l[u].right = NoOne
      <4> HIDE DEF B
      <4>1. QED
        BY <2>2, <3>1, <3>2, PartedEnds
    <3>4. QED
      BY <2>3, <2>6, <2>8, <3>3
  <2>10. QED
    BY <1>14, <2>9
<1>15. link[t].right \in S \cup {NoOne} /\ link[t].child \in S \cup {NoOne}
  <2>1. CASE First(t) = NoOne
    BY <1>13, <2>1
  <2>2. CASE First(t) # NoOne
    <3>1. link[t].right \in S \cup {NoOne}
      <4>1. link[t].right # NoOne => link[link[t].right].parent = p
        BY <1>1, <1>3, RightLeads
      <4>2. QED
        BY <1>2, <1>14, <2>2, <4>1 DEF Around
    <3>2. link[t].child # NoOne => tail \in S
      <4>1. link[t].child # NoOne => tail # NoOne /\ tail \in attached \ {t}
        BY <2>2 DEF TailFits
      <4>2. QED
        BY <1>11, <1>14, <2>2, <4>1
    <3>3. QED
      BY <1>6, <1>7, <3>1, <3>2
  <2>3. QED
    BY <2>1, <2>2
<1> DEFINE T == S \cup {t}
<1>16. ASSUME NEW q \in T \cup {NoOne} PROVE Eldest(q) \in T \cup {NoOne}
  <2>1. CASE q = t
    BY <1>1, <1>15, <2>1 DEF Eldest
  <2>2. CASE q # t
    BY <1>5, <2>2 DEF EldestWithout
  <2>3. QED
    BY <2>1, <2>2
<1>17. ASSUME NEW u \in T PROVE link[u].right \in T \cup {NoOne}
  <2>1. CASE u = t
    BY <1>15, <2>1
  <2>2. CASE u = link[t].left /\ u # t
    BY <1>1, <1>9, <2>2
  <2>3. CASE u = tail /\ u # link[t].left /\ u # t
    BY <1>1, <2>3 DEF TailFits
  <2>4. CASE u # tail /\ u # link[t].left /\ u # t
    BY <1>6, <1>7, <2>4
  <2>5. QED
    BY <2>1, <2>2, <2>3, <2>4
<1>18. T = attached
  <2>1. T \in SUBSET attached
    BY <1>1
  <2> HIDE DEF T
  <2>2. QED
    BY <1>16, <1>17, <2>1, AllFound
<1>19. QED
  BY <1>1, <1>18

(* The list is led past who left, and begins where it did or with the next. *)
LEMMA LeftListed ==
    ASSUME FamilyTypeOK, FamilyHeld, NEW t \in attached, attached' = attached \ {t},
           NEW tail, Left(t, tail)
    PROVE  /\ \A S \in SUBSET attached' : ListClosed(S)' => S = attached'
           /\ \A u, v \in attached' : IsFirst(u)' /\ IsFirst(v)' => u = v
           /\ \A u \in attached' : IsFirst(u) => IsFirst(u)'
<1>1. /\ attached \subseteq Family /\ t \in Family /\ Enclosed /\ Paired /\ NoOne \notin Family
      /\ NoOne \notin attached /\ t # NoOne
  BY FamilyAssumption DEF FamilyTypeOK, FamilyHeld
<1>2. Around(t)
  BY AroundIs
<1>3. \A u \in attached' :
        /\ u \in attached /\ u # t /\ u # NoOne
        /\ link'[u].before = IF u = link[t].after THEN link[t].before ELSE link[u].before
        /\ link'[u].after = IF u = link[t].before THEN link[t].after ELSE link[u].after
        /\ link[u].after = t <=> link[t].before = u
        /\ link[u].before = t <=> link[t].after = u
  BY <1>1 DEF Left, Paired
<1>4. \A u, v \in attached : link[u].before = NoOne /\ link[v].before = NoOne => u = v
  BY DEF FamilyHeld, IsFirst
<1>5. ASSUME NEW S \in SUBSET attached', ListClosed(S)' PROVE S = attached'
  <2>1. /\ \A u \in attached' : link'[u].before = NoOne => u \in S
        /\ \A u \in S : link'[u].after \in S \cup {NoOne}
    BY <1>5 DEF ListClosed, IsFirst
  <2>2. \A u \in S : link[u].after \in S \cup {NoOne, t}
    BY <1>3, <2>1
  <2>3. \A u \in attached : link[u].before = NoOne => u \in S \cup {t}
    BY <1>3, <2>1, <1>1
  <2>4. CASE link[t].before \in S \cup {NoOne}
    <3> DEFINE T == S \cup {t}
    <3>1. link[t].after \in S \cup {NoOne}
      <4>1. CASE link[t].before = NoOne
        BY <1>1, <1>2, <1>3, <2>1, <4>1 DEF Around
      <4>2. CASE link[t].before \in S
        BY <1>3, <2>1, <4>2
      <4>3. QED
        BY <2>4, <4>1, <4>2
    <3>2. T \in SUBSET attached
      BY <1>3
    <3>3. ListClosed(T)
      BY <2>2, <2>3, <3>1 DEF ListClosed, IsFirst
    <3>4. T = attached
      <4> HIDE DEF T
      <4>1. QED
        BY <3>2, <3>3 DEF FamilyHeld
    <3>5. QED
      BY <1>3, <3>4
  <2>5. CASE link[t].before \notin S \cup {NoOne}
    <3>1. S \in SUBSET attached /\ t \notin S
      BY <1>3
    <3>2. \A u \in S : link[u].after \in S \cup {NoOne}
      BY <1>3, <2>2, <2>5
    <3>3. \A u \in attached : link[u].before = NoOne => u \in S
      BY <2>3, <2>5
    <3>4. ListClosed(S)
      BY <3>2, <3>3 DEF ListClosed, IsFirst
    <3>5. QED
      BY <3>1, <3>4 DEF FamilyHeld
  <2>6. QED
    BY <2>4, <2>5
<1>6. \A u \in attached' : link'[u].before = NoOne =>
          link[u].before = NoOne \/ (u = link[t].after /\ link[t].before = NoOne)
  BY <1>3
<1>7. \A u, v \in attached' : link'[u].before = NoOne /\ link'[v].before = NoOne => u = v
  BY <1>3, <1>4, <1>6
<1>8. \A u \in attached' : link[u].before = NoOne => link'[u].before = NoOne
  BY <1>1, <1>3
<1>9. QED
  BY <1>5, <1>7, <1>8 DEF IsFirst

LEMMA ThreeAttached ==
    ASSUME FamilyTypeOK, NEW t \in attached, NEW u \in attached, NEW v \in attached,
           t # u, t # v, u # v
    PROVE  Cardinality(attached) > 2
<1>1. IsFiniteSet(attached) /\ Cardinality(attached) \in Nat
  BY FamilyAssumption, FS_Subset, FS_CardinalityType DEF FamilyTypeOK
<1>2. IsFiniteSet({t}) /\ Cardinality({t}) = 1
  BY FS_Singleton
<1>3. PICK S : S = {t} \cup {u}
  OBVIOUS
<1>4. IsFiniteSet(S) /\ Cardinality(S) = 2 /\ v \notin S
  BY <1>2, <1>3, FS_AddElement
<1>5. PICK R : R = S \cup {v}
  OBVIOUS
<1>6. Cardinality(R) = 3
  <2>1. Cardinality(S \cup {v}) = Cardinality(S) + 1
    BY <1>4, FS_AddElement
  <2>2. QED
    BY <1>4, <1>5, <2>1
<1>7. R \in SUBSET attached
  BY <1>3, <1>5
<1>8. Cardinality(R) <= Cardinality(attached)
  BY <1>1, <1>7, FS_Subset
<1>9. QED
  BY <1>1, <1>6, <1>8

(* Who leaves the root to one other thread leaves it the list, too. *)
LEMMA DetachHolds ==
    ASSUME FamilyTypeOK, FamilyHeld, NEW t \in attached, Detach(t), gone' \in BOOLEAN,
           orphaned' = (orphaned \/ (t = root /\ Cardinality(attached) > 2))
    PROVE  FamilyTypeOK' /\ FamilyHeld'
<1>1. attached' = attached \ {t}
  BY DEF Detach
<1>2. PICK tail \in (attached \ {t}) \cup {NoOne} : TailFits(tail, t) /\ Left(t, tail)
  BY DetachLeaves
<1>3. Enclosed'
  BY <1>1, <1>2, LeftInside
<1>4. FamilyTypeOK'
  <2>1. attached' \subseteq Family /\ root' \in attached' \cup {NoOne}
    BY <1>1, <1>3 DEF FamilyTypeOK, Enclosed
  <2>2. orphaned' \in BOOLEAN /\ link' \in [Family -> Links]
    BY <1>2 DEF Left
  <2>3. QED
    BY <2>1, <2>2 DEF FamilyTypeOK, Anyone
<1>5. Paired' /\ Tops'
  BY <1>1, <1>2, LeftPaired
<1>6. \A S \in SUBSET attached' : TreeClosed(S)' => S = attached'
  BY <1>1, <1>2, LeftFound
<1>7. /\ \A S \in SUBSET attached' : ListClosed(S)' => S = attached'
      /\ \A u, v \in attached' : IsFirst(u)' /\ IsFirst(v)' => u = v
      /\ \A u \in attached' : IsFirst(u) => IsFirst(u)'
  BY <1>1, <1>2, LeftListed
<1>8. ASSUME ~orphaned', root' # NoOne PROVE IsFirst(root)'
  <2>1. ~orphaned /\ ~(t = root /\ Cardinality(attached) > 2) /\ root' \in attached'
    BY <1>3, <1>8 DEF Enclosed
  <2>2. CASE root # t
    <3>1. root' = root /\ root \in attached' /\ IsFirst(root)
      BY <1>2, <1>8, <2>1, <2>2 DEF Left, FamilyHeld
    <3>2. QED
      BY <1>7, <3>1 DEF IsFirst
  <2>3. CASE root = t
    <3>1. \A u \in attached' : u = root'
      BY <1>1, <2>1, <2>3, ThreeAttached
    <3>2. \E u \in attached' : IsFirst(u)'
      <4> SUFFICES ASSUME \A u \in attached' : ~IsFirst(u)' PROVE FALSE
        OBVIOUS
      <4>1. ListClosed({})'
        BY DEF ListClosed
      <4>2. {} = attached'
        BY <1>7, <4>1
      <4>3. QED
        BY <2>1, <4>2
    <3>3. QED
      BY <3>1, <3>2 DEF IsFirst
  <2>4. QED
    BY <2>2, <2>3
<1>9. QED
  BY <1>3, <1>4, <1>5, <1>6, <1>7, <1>8 DEF FamilyHeld

LEMMA FamilyInitHolds == FamilyInit => FamilyIInv
<1> SUFFICES ASSUME FamilyInit PROVE FamilyIInv
  OBVIOUS
<1>1. Alone \in Links /\ \A f \in DOMAIN Alone : Alone[f] = NoOne
  BY AloneFits
<1>2. root = NoOne /\ attached = {} /\ link = [u \in Family |-> Alone] /\ gone = FALSE /\ orphaned = FALSE
  BY DEF FamilyInit
<1>3. FamilyTypeOK
  BY <1>1, <1>2 DEF FamilyTypeOK, Anyone
<1>4. Enclosed /\ Paired /\ Tops
  BY <1>2 DEF Enclosed, Paired, Tops
<1>5. FamilyHeld
  BY <1>2, <1>4 DEF FamilyHeld
<1>6. QED
  BY <1>2, <1>3, <1>5 DEF FamilyIInv

(* The walk along the list finds every thread, as long as it begins there. *)
LEMMA WalkFinds ==
    ASSUME FamilyTypeOK, FamilyHeld, ~orphaned
    PROVE  attached \subseteq Reached(link, root, {"after"})
<1>1. PICK R : R = Reached(link, root, {"after"})
  OBVIOUS
<1>2. /\ attached \subseteq Family /\ Enclosed /\ link \in [Family -> Links] /\ root \in Anyone
      /\ NoOne \notin attached
  BY FamilyAssumption DEF FamilyTypeOK, FamilyHeld
<1>3. {"after"} \subseteq DOMAIN Alone
  BY FieldsAre
<1>4. KeptBy(link, root, {"after"}, R) /\ \A S : KeptBy(link, root, {"after"}, S) => R \subseteq S
  BY <1>1, <1>2, <1>3, LinksLead, ReachedKept
<1>5. KeptBy(link, root, {"after"}, attached)
  BY <1>2, PointersInside, RootThere DEF KeptBy
<1>6. R \in SUBSET attached
  BY <1>4, <1>5
<1>7. ListClosed(R)
  <2>1. \A u \in R : link[u].after \in R \cup {NoOne}
    BY <1>4 DEF KeptBy
  <2>2. ASSUME NEW u \in attached, IsFirst(u) PROVE u \in R
    <3>1. root # NoOne /\ root \in attached
      BY RootThere
    <3>2. u = root
      BY <2>2, <3>1 DEF FamilyHeld
    <3>3. QED
      BY <1>4, <3>1, <3>2 DEF KeptBy
  <2>3. QED
    BY <2>1, <2>2 DEF ListClosed
<1>8. QED
  BY <1>1, <1>6, <1>7 DEF FamilyHeld

LEMMA FamilyStep == FamilyIInv /\ [FamilyNext]_familyVars => FamilyIInv'
<1> SUFFICES ASSUME FamilyIInv, [FamilyNext]_familyVars PROVE FamilyIInv'
  OBVIOUS
<1>1. FamilyTypeOK /\ (~gone => FamilyHeld)
  BY DEF FamilyIInv
<1>2. CASE NewThread
  <2>1. ~gone /\ UNCHANGED <<gone, orphaned>> /\ FamilyHeld
    BY <1>1, <1>2 DEF NewThread
  <2>2. PICK t \in Family : t \notin attached /\ (\/ attached = {} /\ Attach(NoOne, t)
                                                  \/ \E parent \in attached : Attach(parent, t))
    BY <1>2 DEF NewThread
  <2>3. PICK parent \in attached \cup {NoOne} : (parent = NoOne => attached = {}) /\ Attach(parent, t)
    <3>1. NoOne \notin attached
      BY <1>1, FamilyAssumption DEF FamilyTypeOK
    <3>2. QED
      BY <2>2, <3>1
  <2>4. FamilyTypeOK' /\ FamilyHeld'
    BY <1>1, <2>1, <2>2, <2>3, AttachHolds
  <2>5. QED
    BY <2>1, <2>4 DEF FamilyIInv
<1>3. CASE Collect
  <2>1. PICK t \in attached : /\ Detach(t)
                              /\ gone' = (root' = NoOne)
                              /\ orphaned' = (orphaned \/ (t = root /\ Cardinality(attached) > 2))
    BY <1>3 DEF Collect
  <2>2. ~gone /\ FamilyHeld
    BY <1>1, <1>3 DEF Collect
  <2>3. gone' \in BOOLEAN
    BY <2>1
  <2>4. FamilyTypeOK' /\ FamilyHeld'
    BY <1>1, <2>1, <2>2, <2>3, DetachHolds
  <2>5. gone' => attached' = {}
    <3> SUFFICES ASSUME root' = NoOne PROVE attached' = {}
      BY <2>1
    <3>1. TreeClosed({})'
      BY DEF TreeClosed
    <3>2. QED
      BY <2>4, <3>1 DEF FamilyHeld
  <2>6. QED
    BY <2>4, <2>5 DEF FamilyIInv
<1>4. CASE Reap
  <2>1. ~gone /\ FamilyHeld /\ gone' = TRUE /\ UNCHANGED <<root, link, orphaned>>
        /\ attached' = attached \ Reached(link, root, {"after"})
    BY <1>1, <1>4 DEF Reap
  <2>2. FamilyTypeOK'
    BY <1>1, <2>1 DEF FamilyTypeOK
  <2>3. ~orphaned' => attached' = {}
    BY <1>1, <2>1, WalkFinds
  <2>4. QED
    BY <2>1, <2>2, <2>3 DEF FamilyIInv
<1>5. CASE UNCHANGED familyVars
  <2>1. UNCHANGED <<root, link, attached, gone, orphaned>>
    BY <1>5 DEF familyVars
  <2>2. FamilyTypeOK'
    BY <1>1, <2>1 DEF FamilyTypeOK
  <2>3. FamilyHeld => FamilyHeld'
    BY <2>1 DEF FamilyHeld, Enclosed, Paired, Tops, TreeClosed, ListClosed, IsFirst
  <2>4. QED
    BY <2>1, <2>2, <2>3 DEF FamilyIInv
<1>6. QED
  BY <1>2, <1>3, <1>4, <1>5 DEF FamilyNext

LEMMA FamilySafe == FamilyIInv => NoThreadLost
<1> SUFFICES ASSUME FamilyIInv PROVE NoThreadLost
  OBVIOUS
<1>1. FamilyTypeOK /\ (~gone => FamilyHeld) /\ (gone /\ ~orphaned => attached = {})
  BY DEF FamilyIInv
<1>2. ASSUME FamilyHeld PROVE Reached(link, root, {"child", "right"}) = attached
  <2>1. PICK R : R = Reached(link, root, {"child", "right"})
    OBVIOUS
  <2>2. Enclosed /\ link \in [Family -> Links] /\ root \in Anyone
    BY <1>1, <1>2 DEF FamilyTypeOK, FamilyHeld
  <2>3. {"child", "right"} \subseteq DOMAIN Alone
    BY FieldsAre
  <2>4. /\ KeptBy(link, root, {"child", "right"}, R)
        /\ \A S : KeptBy(link, root, {"child", "right"}, S) => R \subseteq S
    BY <2>1, <2>2, <2>3, LinksLead, ReachedKept
  <2>5. KeptBy(link, root, {"child", "right"}, attached)
    BY <1>1, <1>2, <2>2, PointersInside, RootThere DEF KeptBy
  <2>6. R \in SUBSET attached
    BY <2>4, <2>5
  <2>7. TreeClosed(R)
    BY <2>4 DEF TreeClosed, KeptBy
  <2>8. QED
    BY <1>2, <2>1, <2>6, <2>7 DEF FamilyHeld
<1>3. FamilyHeld => \A t \in attached, f \in DOMAIN Alone : link[t][f] \in attached \cup {NoOne}
  BY DEF FamilyHeld, Enclosed
<1>4. QED
  BY <1>1, <1>2, <1>3 DEF NoThreadLost

(* However threads are made and collected, every thread of a process is      *)
(* found from its root, none points to one that was freed, and no process is *)
(* deleted with threads left, unless its root was left to two others.        *)
THEOREM ThreadsFound == FamilySpec => []NoThreadLost
BY FamilyInitHolds, FamilyStep, FamilySafe, PTL DEF FamilySpec
=============================================================================
