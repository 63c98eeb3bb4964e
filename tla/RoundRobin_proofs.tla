------------------------- MODULE RoundRobin_proofs -------------------------
(***************************************************************************)
(* The scheduler of the old kernel, for any processes, threads and fewer   *)
(* interrupt lines than places in the ring of requests: a thread is queued *)
(* once while it may run, who acknowledges is the oldest request, and      *)
(* masked lines and requests match.                                        *)
(***************************************************************************)
EXTENDS RoundRobin, FiniteSetTheorems, WellFoundedInduction, TLAPS

(* The entries of a thread. *)
Listed(t) == \E i \in DOMAIN queue : \E j \in DOMAIN queue[i].threads : queue[i].threads[j] = t

ListedOnce(t) ==
    \A i, k \in DOMAIN queue :
        \A j \in DOMAIN queue[i].threads, m \in DOMAIN queue[k].threads :
            queue[i].threads[j] = t /\ queue[k].threads[m] = t => i = k /\ j = m

Slot == [proc : Procs, threads : Seq(Threads)]

(* A process with queued threads has one slot, which holds threads of its   *)
(* own only.                                                                *)
SlotsFit ==
    /\ queue \in Seq(Slot)
    /\ \A i, k \in DOMAIN queue : queue[i].proc = queue[k].proc => i = k
    /\ \A i \in DOMAIN queue :
        /\ queue[i].threads # << >>
        /\ \A j \in DOMAIN queue[i].threads : Home[queue[i].threads[j]] = queue[i].proc

(* The places of the ring that hold requests not yet acknowledged. *)
Window ==
    {k \in 0 .. MaxRequests - 1 :
        IF pos <= mark THEN pos <= k /\ k < mark ELSE pos <= k \/ k < mark}

InRing(t) == \E k \in Window : requests[k] = t

(* A thread that is no driver and was never upset is queued by its state.   *)
QueuedByState ==
    \A t \in Threads : duty[t] = NoLine /\ t \notin upset =>
        /\ ListedOnce(t)
        /\ Listed(t) <=> state[t] \in Leaves

(* Only drivers handle lines, and only theirs, and are requested. *)
DriversOnly ==
    /\ \A l \in Lines, t \in Threads : handler[l] = t => duty[t] = l
    /\ \A k \in 0 .. MaxRequests - 1, t \in Threads : requests[k] = t => duty[t] # NoLine

(* The ring is filled in turn: the requests in its window are threads.      *)
RingFilled ==
    \/ \A k \in 0 .. MaxRequests - 1 : requests[k] \in Threads
    \/ pos <= mark /\ \A k \in 0 .. MaxRequests - 1 : requests[k] \in Threads <=> k < mark

(* As long as no thread was upset: no two requests are of one driver;       *)
RingFits ==
    upset = {} => \A k, m \in Window : requests[k] = requests[m] => k = m

(* a driver is off the queue, and while it is requested it runs or sleeps   *)
(* and its line is masked, else it waits for its line;                      *)
DriversFit ==
    upset = {} =>
        \A t \in Threads : duty[t] # NoLine =>
            /\ ~Listed(t)
            /\ InRing(t) => state[t] \in {"running", "asleep"} /\ masked[duty[t]]
            /\ ~InRing(t) => state[t] = "irq"

(* a line has one driver that is requested, which is its handler if it has  *)
(* one, and is masked only for it;                                          *)
LinesFit ==
    upset = {} =>
        /\ \A l \in Lines, t \in Threads : handler[l] = t /\ masked[l] => InRing(t)
        /\ \A t, u \in Threads :
              InRing(t) /\ InRing(u) /\ duty[t] = duty[u] => t = u
        /\ \A t, u \in Threads, l \in Lines :
              handler[l] = t /\ InRing(u) /\ duty[u] = l => t = u

(* who runs has the state of a thread that runs, and a driver only as the   *)
(* oldest request; and the scheduler has not halted;                        *)
RunnerFits ==
    upset = {} =>
        /\ phase # "halted"
        /\ \A t \in Threads : cur = t =>
              /\ state[t] = "running"
              /\ duty[t] # NoLine => pos # mark /\ requests[pos] = t

(* and who is to be freed was queued, and is no driver. *)
TasksFit ==
    upset = {} => \A t \in tasks : duty[t] = NoLine /\ state[t] \in Leaves

(* Beside it, on its own: as long as no thread was upset, a line is handled *)
(* by a thread that was spawned, whose number is not 0.                     *)
Spawned == upset = {} => \A l \in Lines, t \in Threads : handler[l] = t => ~IsMain(t)

IInv ==
    /\ TypeOK /\ SlotsFit /\ QueuedByState /\ DriversOnly
    /\ RingFilled /\ RingFits /\ DriversFit /\ LinesFit /\ RunnerFits /\ TasksFit
-----------------------------------------------------------------------------
(* A set of numbers that is not empty has a least one. *)
LEMMA LeastIn ==
    ASSUME NEW S \in SUBSET Nat, S # {}, NEW less, IsWellFoundedOn(less, Nat),
           \A x, y \in Nat : y < x => <<y, x>> \in less
    PROVE  Min(S) \in S
<1>1. PICK n \in S : \A m \in S : ~(<<m, n>> \in less)
  BY WFMin
<1>2. \A m \in S : ~(m < n)
  BY <1>1
<1>3. \A m \in S : n <= m
  BY <1>2
<1>4. QED
  BY <1>3 DEF Min

LEMMA LeastFound ==
    ASSUME NEW S \in SUBSET Nat, S # {}
    PROVE  Min(S) \in S
<1>1. IsWellFoundedOn(OpToRel(<, Nat), Nat)
  BY NatLessThanWellFounded
<1>2. \A x, y \in Nat : y < x => <<y, x>> \in OpToRel(<, Nat)
  BY DEF OpToRel
<1>3. QED
  BY <1>1, <1>2, LeastIn

(* Two sequences, one behind the other; a sequence without one of its       *)
(* elements.                                                                *)
LEMMA Joined ==
    ASSUME NEW S, NEW a \in Seq(S), NEW b \in Seq(S)
    PROVE  /\ a \o b \in Seq(S) /\ Len(a \o b) = Len(a) + Len(b)
           /\ \A j \in 1..(Len(a) + Len(b)) :
                 (a \o b)[j] = IF j <= Len(a) THEN a[j] ELSE b[j - Len(a)]
OBVIOUS

LEMMA RemoveAtSeq ==
    ASSUME NEW S, NEW s \in Seq(S), NEW i \in 1..Len(s)
    PROVE  /\ RemoveAt(s, i) \in Seq(S)
           /\ Len(RemoveAt(s, i)) = Len(s) - 1
           /\ \A j \in 1..(Len(s) - 1) :
                 RemoveAt(s, i)[j] = IF j < i THEN s[j] ELSE s[j + 1]
<1> DEFINE a == SubSeq(s, 1, i - 1)  b == SubSeq(s, i + 1, Len(s))
<1>1. /\ a \in Seq(S) /\ Len(a) = i - 1
      /\ \A j \in 1..(i - 1) : a[j] = s[j]
  OBVIOUS
<1>2. /\ b \in Seq(S) /\ Len(b) = Len(s) - i
      /\ \A j \in 1..(Len(s) - i) : b[j] = s[i + j]
  OBVIOUS
<1>3. RemoveAt(s, i) = a \o b
  BY DEF RemoveAt
<1> HIDE DEF a, b
<1>4. /\ a \o b \in Seq(S) /\ Len(a \o b) = Len(a) + Len(b)
      /\ \A j \in 1..(Len(a) + Len(b)) :
            (a \o b)[j] = IF j <= Len(a) THEN a[j] ELSE b[j - Len(a)]
  BY <1>1, <1>2, Joined
<1>5. Len(s) \in Nat /\ i \in 1..Len(s)
  OBVIOUS
<1>6. ASSUME NEW j \in 1..(Len(s) - 1)
      PROVE  (a \o b)[j] = IF j < i THEN s[j] ELSE s[j + 1]
  <2>1. CASE j < i
    BY <1>1, <1>2, <1>4, <1>5, <2>1
  <2>2. CASE ~(j < i)
    <3>1. /\ j - (i - 1) \in 1..(Len(s) - i) /\ i + (j - (i - 1)) = j + 1
          /\ j \in 1..(Len(a) + Len(b)) /\ ~(j <= Len(a))
      BY <1>1, <1>2, <1>5, <2>2
    <3>2. QED
      BY <1>1, <1>2, <1>4, <2>2, <3>1
  <2>3. QED
    BY <2>1, <2>2
<1>7. QED
  BY <1>1, <1>2, <1>3, <1>4, <1>5, <1>6

LEMMA EmptyLength ==
    ASSUME NEW S, NEW s \in Seq(S)
    PROVE  Len(s) \in Nat /\ DOMAIN s = 1..Len(s) /\ (s = << >> <=> Len(s) = 0)
OBVIOUS

(* SlotOf finds the slot of a process that has one. *)
LEMMA SlotFound ==
    ASSUME SlotsFit, NEW p
    PROVE  \/ SlotOf(p) = 0 /\ \A k \in DOMAIN queue : queue[k].proc # p
           \/ SlotOf(p) \in DOMAIN queue /\ queue[SlotOf(p)].proc = p
<1> DEFINE I == {i \in 1..Len(queue) : queue[i].proc = p}
<1>1. SlotOf(p) = IF I # {} THEN Min(I) ELSE 0
  BY DEF SlotOf, SelectInSeq
<1>2. DOMAIN queue = 1..Len(queue) /\ I \in SUBSET Nat
  BY EmptyLength DEF SlotsFit
<1>3. CASE I = {}
  BY <1>1, <1>2, <1>3
<1>4. CASE I # {}
  <2>1. Min(I) \in I
    BY <1>2, <1>4, LeastFound
  <2>2. QED
    BY <1>1, <1>2, <1>4, <2>1
<1>5. QED
  BY <1>3, <1>4

(* A thread's entry in its slot is found in the same way. *)
LEMMA EntryFound ==
    ASSUME NEW s \in Seq(Threads), NEW t, \E j \in DOMAIN s : s[j] = t
    PROVE  LET j == SelectInSeq(s, LAMBDA u : u = t) IN j \in DOMAIN s /\ s[j] = t
<1> DEFINE I == {i \in 1..Len(s) : s[i] = t}
<1>1. DOMAIN s = 1..Len(s) /\ I \in SUBSET Nat /\ I # {}
  BY EmptyLength
<1>2. Min(I) \in I
  BY <1>1, LeastFound
<1>3. SelectInSeq(s, LAMBDA u : u = t) = Min(I)
  BY <1>1 DEF SelectInSeq
<1>4. QED
  BY <1>1, <1>2, <1>3

LEMMA SlotTypes ==
    ASSUME NEW q \in Seq(Slot)
    PROVE  /\ DOMAIN q = 1..Len(q) /\ Len(q) \in Nat
           /\ \A i \in DOMAIN q :
                 /\ q[i] \in Slot /\ q[i].threads \in Seq(Threads)
                 /\ DOMAIN q[i].threads = 1..Len(q[i].threads)
                 /\ Len(q[i].threads) \in Nat
<1>1. DOMAIN q = 1..Len(q) /\ Len(q) \in Nat
  BY EmptyLength
<1>2. ASSUME NEW i \in DOMAIN q
      PROVE  /\ q[i] \in Slot /\ q[i].threads \in Seq(Threads)
             /\ DOMAIN q[i].threads = 1..Len(q[i].threads)
             /\ Len(q[i].threads) \in Nat
  <2>1. q[i] \in Slot
    BY <1>1
  <2>2. q[i].threads \in Seq(Threads)
    BY <2>1 DEF Slot
  <2>3. QED
    BY <2>1, <2>2, EmptyLength
<1>3. QED
  BY <1>1, <1>2

(* sched_insert adds one entry, of t; *)
LEMMA Insertion ==
    ASSUME NEW t \in Threads, SlotsFit, queue' = Inserted(t)
    PROVE  /\ SlotsFit'
           /\ Listed(t)' /\ (~Listed(t) => ListedOnce(t)')
           /\ \A x \in Threads \ {t} :
                 /\ Listed(x)' <=> Listed(x)
                 /\ ListedOnce(x) => ListedOnce(x)'
<1> DEFINE n == SlotOf(Home[t])
<1>1. queue \in Seq(Slot) /\ Home[t] \in Procs
  BY HomeAssumption DEF SlotsFit
<1>2. DOMAIN queue = 1..Len(queue) /\ Len(queue) \in Nat
  BY <1>1
<1>3. \A i \in DOMAIN queue :
         /\ queue[i] \in Slot /\ queue[i].threads \in Seq(Threads)
         /\ DOMAIN queue[i].threads = 1..Len(queue[i].threads)
         /\ Len(queue[i].threads) \in Nat
  BY <1>1, SlotTypes
<1>4. CASE n = 0
  <2> DEFINE new == [proc |-> Home[t], threads |-> <<t>>]  L == Len(queue) + 1
  <2>1. queue' = Append(queue, new) /\ \A k \in DOMAIN queue : queue[k].proc # Home[t]
    <3>1. \A k \in DOMAIN queue : queue[k].proc # Home[t]
      BY <1>2, <1>4, SlotFound
    <3>2. queue' = Append(queue, new)
      BY <1>4 DEF Inserted
    <3>3. QED
      BY <3>1, <3>2
  <2>2. new \in Slot /\ new.proc = Home[t] /\ DOMAIN new.threads = {1} /\ new.threads[1] = t
        /\ new.threads # << >>
    BY <1>1 DEF Slot
  <2> HIDE DEF new
  <2>3. /\ queue' \in Seq(Slot) /\ DOMAIN queue' = 1..L /\ queue'[L] = new
        /\ \A i \in DOMAIN queue : i \in DOMAIN queue' /\ i # L /\ queue'[i] = queue[i]
        /\ \A i \in DOMAIN queue' : i = L \/ i \in DOMAIN queue
    BY <1>1, <1>2, <2>1, <2>2
  <2> HIDE DEF L
  <2>4. L \in DOMAIN queue'
    BY <1>2, <2>3 DEF L
  <2>5. SlotsFit'
    BY <2>1, <2>2, <2>3, HomeAssumption DEF SlotsFit
  <2>6. Listed(t)' /\ (~Listed(t) => ListedOnce(t)')
    BY <2>2, <2>3, <2>4 DEF Listed, ListedOnce
  <2>7. ASSUME NEW x \in Threads \ {t}
        PROVE  (Listed(x)' <=> Listed(x)) /\ (ListedOnce(x) => ListedOnce(x)')
    BY <2>2, <2>3, <2>4 DEF Listed, ListedOnce
  <2>8. QED
    BY <2>5, <2>6, <2>7
<1>5. CASE n \in DOMAIN queue /\ queue[n].proc = Home[t]
  <2> DEFINE s == queue[n].threads  L == Len(s) + 1  w == Append(s, t)
  <2>1. queue' = [queue EXCEPT ![n].threads = Append(@, t)]
    <3>1. n # 0
      BY <1>2, <1>5
    <3>2. QED
      BY <3>1 DEF Inserted
  <2>2. /\ DOMAIN queue' = DOMAIN queue
        /\ \A i \in DOMAIN queue \ {n} : queue'[i] = queue[i]
    BY <1>1, <1>5, <2>1
  <2>3. queue'[n] \in Slot /\ queue'[n].proc = Home[t] /\ queue'[n].threads = w
    <3>1. queue[n] \in Slot /\ w \in Seq(Threads)
      BY <1>3, <1>5
    <3>2. queue'[n] = [queue[n] EXCEPT !.threads = w]
      BY <1>1, <1>5, <2>1
    <3> HIDE DEF n, s, w
    <3>3. QED
      BY <1>5, <3>1, <3>2 DEF Slot
  <2>4. s \in Seq(Threads)
    BY <1>3, <1>5
  <2>5. /\ DOMAIN w = 1..L /\ w[L] = t /\ w # << >> /\ L \in DOMAIN w
        /\ \A j \in DOMAIN s : j # L /\ j \in DOMAIN w /\ w[j] = s[j]
        /\ \A j \in DOMAIN w : j = L \/ j \in DOMAIN s
    BY <2>4
  <2>6. queue' \in Seq(Slot)
    <3>1. \A i \in DOMAIN queue : queue'[i] \in Slot
      BY <1>3, <2>2, <2>3
    <3>2. queue' \in [1..Len(queue) -> Slot]
      BY <1>2, <2>1, <2>2, <3>1
    <3>3. QED
      BY <1>2, <3>2
  <2> HIDE DEF n, s, L, w
  <2>7. SlotsFit'
    <3>1. \A i \in DOMAIN queue : queue'[i].proc = queue[i].proc
      BY <1>5, <2>2, <2>3
    <3>2. \A i, k \in DOMAIN queue' : queue'[i].proc = queue'[k].proc => i = k
      BY <2>2, <3>1 DEF SlotsFit
    <3>3. \A j \in DOMAIN s : Home[s[j]] = Home[t]
      BY <1>5 DEF SlotsFit, s
    <3>4. ASSUME NEW i \in DOMAIN queue'
          PROVE  /\ queue'[i].threads # << >>
                 /\ \A j \in DOMAIN queue'[i].threads :
                       Home[queue'[i].threads[j]] = queue'[i].proc
      <4>1. CASE i = n
        BY <2>3, <2>5, <3>3, <4>1
      <4>2. CASE i # n
        BY <2>2, <4>2 DEF SlotsFit
      <4>3. QED
        BY <4>1, <4>2
    <3>5. QED
      BY <2>6, <3>2, <3>4, HomeAssumption DEF SlotsFit
  <2>8. n \in DOMAIN queue /\ queue[n].threads = s
    BY <1>5 DEF s
  <2>9. Listed(t)'
    BY <2>2, <2>3, <2>5, <2>8 DEF Listed
  <2>10. ASSUME ~Listed(t) PROVE ListedOnce(t)'
    <3>1. \A i \in DOMAIN queue' : \A j \in DOMAIN queue'[i].threads :
             queue'[i].threads[j] = t => i = n /\ j = L
      <4>1. TAKE i \in DOMAIN queue'
      <4>2. CASE i = n
        BY <2>3, <2>5, <2>8, <2>10, <4>2 DEF Listed
      <4>3. CASE i # n
        BY <2>2, <2>10, <4>3 DEF Listed
      <4>4. QED
        BY <4>2, <4>3
    <3>2. QED
      BY <3>1 DEF ListedOnce
  <2>11. ASSUME NEW x \in Threads \ {t}
         PROVE  (Listed(x)' <=> Listed(x)) /\ (ListedOnce(x) => ListedOnce(x)')
    <3>1. ASSUME NEW i \in DOMAIN queue', NEW j \in DOMAIN queue'[i].threads,
                 queue'[i].threads[j] = x
          PROVE  i \in DOMAIN queue /\ j \in DOMAIN queue[i].threads /\ queue[i].threads[j] = x
      <4>1. CASE i = n
        BY <2>3, <2>5, <2>8, <3>1, <4>1
      <4>2. CASE i # n
        BY <2>2, <3>1, <4>2
      <4>3. QED
        BY <4>1, <4>2
    <3>2. ASSUME NEW i \in DOMAIN queue, NEW j \in DOMAIN queue[i].threads,
                 queue[i].threads[j] = x
          PROVE  i \in DOMAIN queue' /\ j \in DOMAIN queue'[i].threads /\ queue'[i].threads[j] = x
      <4>1. CASE i = n
        BY <2>2, <2>3, <2>5, <2>8, <3>2, <4>1
      <4>2. CASE i # n
        BY <2>2, <3>2, <4>2
      <4>3. QED
        BY <4>1, <4>2
    <3>3. Listed(x)' <=> Listed(x)
      BY <3>1, <3>2 DEF Listed
    <3>4. ListedOnce(x) => ListedOnce(x)'
      BY <3>1 DEF ListedOnce
    <3>5. QED
      BY <3>3, <3>4
  <2>12. QED
    BY <2>7, <2>9, <2>10, <2>11
<1>6. QED
  BY <1>4, <1>5, SlotFound

(* sched_remove takes the entry of t away, if it has one. *)
LEMMA Removal ==
    ASSUME NEW t \in Threads, SlotsFit, queue' = Removed(t)
    PROVE  /\ SlotsFit'
           /\ ListedOnce(t) => ~Listed(t)'
           /\ \A x \in Threads \ {t} :
                 /\ Listed(x)' <=> Listed(x)
                 /\ ListedOnce(x) => ListedOnce(x)'
<1> DEFINE n == SlotOf(Home[t])  s == queue[n].threads
           m == SelectInSeq(s, LAMBDA u : u = t)
<1>1. queue \in Seq(Slot) /\ Home[t] \in Procs
  BY HomeAssumption DEF SlotsFit
<1>2. DOMAIN queue = 1..Len(queue) /\ Len(queue) \in Nat
  BY <1>1
<1>3. \A i \in DOMAIN queue :
         /\ queue[i] \in Slot /\ queue[i].threads \in Seq(Threads)
         /\ DOMAIN queue[i].threads = 1..Len(queue[i].threads)
         /\ Len(queue[i].threads) \in Nat
  BY <1>1, SlotTypes
<1>4. ASSUME queue' = queue, ~Listed(t)
      PROVE  /\ SlotsFit'
             /\ ListedOnce(t) => ~Listed(t)'
             /\ \A x \in Threads \ {t} :
                   /\ Listed(x)' <=> Listed(x)
                   /\ ListedOnce(x) => ListedOnce(x)'
  BY <1>4 DEF SlotsFit, Listed, ListedOnce
<1>5. ASSUME Listed(t)
      PROVE  /\ n \in DOMAIN queue /\ queue[n].proc = Home[t]
             /\ m \in DOMAIN s /\ s[m] = t
             /\ \A i \in DOMAIN queue : i # n => \A j \in DOMAIN queue[i].threads : queue[i].threads[j] # t
  <2>1. PICK i \in DOMAIN queue : \E j \in DOMAIN queue[i].threads : queue[i].threads[j] = t
    BY <1>5 DEF Listed
  <2>2. queue[i].proc = Home[t]
    BY <2>1 DEF SlotsFit
  <2>3. n \in DOMAIN queue /\ queue[n].proc = Home[t]
    BY <2>2, SlotFound, <1>2
  <2>4. i = n
    BY <2>2, <2>3 DEF SlotsFit
  <2>5. s \in Seq(Threads) /\ \E j \in DOMAIN s : s[j] = t
    BY <1>3, <2>1, <2>4
  <2>6. m \in DOMAIN s /\ s[m] = t
    BY <2>5, EntryFound
  <2>7. \A k \in DOMAIN queue : k # n => \A j \in DOMAIN queue[k].threads : queue[k].threads[j] # t
    BY <2>3 DEF SlotsFit
  <2>8. QED
    BY <2>3, <2>6, <2>7
<1>6. CASE ~Listed(t)
  <2>1. CASE n = 0
    BY <1>4, <1>6, <2>1 DEF Removed
  <2>2. CASE n \in DOMAIN queue
    <3>1. s \in Seq(Threads) /\ \A j \in DOMAIN s : s[j] # t
      BY <1>3, <1>6, <2>2 DEF Listed
    <3>2. {j \in 1..Len(s) : s[j] = t} = {}
      BY <3>1, EmptyLength
    <3>3. m = 0
      BY <3>2 DEF SelectInSeq
    <3>4. queue' = queue
      BY <3>3 DEF Removed
    <3>5. QED
      BY <1>4, <1>6, <3>4
  <2>3. QED
    BY <2>1, <2>2, SlotFound
<1>7. CASE Listed(t) /\ Len(s) = 1
  <2>1. n \in 1..Len(queue) /\ n # 0 /\ m # 0 /\ DOMAIN s = {1} /\ m = 1
    BY <1>2, <1>3, <1>5, <1>7
  <2>2. queue' = RemoveAt(queue, n)
    BY <1>7, <2>1 DEF Removed
  <2> DEFINE old(i) == IF i < n THEN i ELSE i + 1
  <2>3. /\ queue' \in Seq(Slot) /\ DOMAIN queue' = 1..(Len(queue) - 1)
        /\ \A i \in DOMAIN queue' : queue'[i] = queue[old(i)]
    <3>1. /\ RemoveAt(queue, n) \in Seq(Slot)
          /\ Len(RemoveAt(queue, n)) = Len(queue) - 1
          /\ \A i \in 1..(Len(queue) - 1) : RemoveAt(queue, n)[i] = queue[old(i)]
      BY <1>1, <2>1, RemoveAtSeq
    <3>2. DOMAIN RemoveAt(queue, n) = 1..Len(RemoveAt(queue, n))
      BY <3>1, EmptyLength
    <3> HIDE DEF n, old
    <3>3. QED
      BY <2>2, <3>1, <3>2
  <2>4. /\ \A i \in DOMAIN queue' : old(i) \in DOMAIN queue /\ old(i) # n
        /\ \A i, k \in DOMAIN queue' : old(i) = old(k) => i = k
        /\ \A i \in DOMAIN queue : i # n => \E k \in DOMAIN queue' : old(k) = i
    <3>1. \A i \in DOMAIN queue' : old(i) \in DOMAIN queue /\ old(i) # n
      BY <1>2, <2>1, <2>3
    <3>2. \A i, k \in DOMAIN queue' : old(i) = old(k) => i = k
      BY <1>2, <2>1, <2>3
    <3>3. ASSUME NEW i \in DOMAIN queue, i # n
          PROVE  \E k \in DOMAIN queue' : old(k) = i
      <4>1. CASE i < n
        <5>1. i \in DOMAIN queue' /\ old(i) = i
          BY <1>2, <2>1, <2>3, <4>1
        <5>2. QED
          BY <5>1
      <4>2. CASE ~(i < n)
        <5>1. i - 1 \in DOMAIN queue' /\ old(i - 1) = i
          BY <1>2, <2>1, <2>3, <3>3, <4>2
        <5>2. QED
          BY <5>1
      <4>3. QED
        BY <4>1, <4>2
    <3>4. QED
      BY <3>1, <3>2, <3>3
  <2> HIDE DEF n, s, m, old
  <2>5. SlotsFit'
    <3>1. \A i, k \in DOMAIN queue' : queue'[i].proc = queue'[k].proc => i = k
      BY <2>3, <2>4 DEF SlotsFit
    <3>2. \A i \in DOMAIN queue' :
             /\ queue'[i].threads # << >>
             /\ \A j \in DOMAIN queue'[i].threads :
                   Home[queue'[i].threads[j]] = queue'[i].proc
      BY <2>3, <2>4 DEF SlotsFit
    <3>3. QED
      BY <2>3, <3>1, <3>2 DEF SlotsFit
  <2>6. ~Listed(t)'
    BY <1>5, <1>7, <2>3, <2>4 DEF Listed
  <2>7. ASSUME NEW x \in Threads \ {t}
        PROVE  (Listed(x)' <=> Listed(x)) /\ (ListedOnce(x) => ListedOnce(x)')
    <3>1. Listed(x)' => Listed(x)
      BY <2>3, <2>4 DEF Listed
    <3>2. ASSUME Listed(x) PROVE Listed(x)'
      <4>1. PICK i \in DOMAIN queue : \E j \in DOMAIN queue[i].threads : queue[i].threads[j] = x
        BY <3>2 DEF Listed
      <4>2. i # n
        BY <1>5, <1>7, <2>1, <4>1 DEF s
      <4>3. PICK k \in DOMAIN queue' : old(k) = i
        BY <2>4, <4>2
      <4>4. QED
        BY <2>3, <4>1, <4>3 DEF Listed
    <3>3. ListedOnce(x) => ListedOnce(x)'
      BY <2>3, <2>4 DEF ListedOnce
    <3>4. QED
      BY <3>1, <3>2, <3>3
  <2>8. QED
    BY <2>5, <2>6, <2>7
<1>8. CASE Listed(t) /\ Len(s) # 1
  <2>1. n \in DOMAIN queue /\ n # 0 /\ m # 0 /\ s \in Seq(Threads) /\ m \in 1..Len(s)
        /\ Len(s) \in Nat
    BY <1>2, <1>3, <1>5, <1>8
  <2> DEFINE cut == RemoveAt(s, m)  old(j) == IF j < m THEN j ELSE j + 1
  <2>2. queue' = [queue EXCEPT ![n].threads = RemoveAt(@, m)]
    BY <1>8, <2>1 DEF Removed
  <2>3. /\ cut \in Seq(Threads) /\ DOMAIN cut = 1..(Len(s) - 1) /\ cut # << >>
        /\ \A j \in DOMAIN cut : cut[j] = s[old(j)]
    <3>1. /\ cut \in Seq(Threads) /\ Len(cut) = Len(s) - 1
          /\ \A j \in 1..(Len(s) - 1) : cut[j] = s[old(j)]
      BY <2>1, RemoveAtSeq
    <3> HIDE DEF cut, s, m, old
    <3>2. QED
      BY <1>8, <2>1, <3>1, EmptyLength
  <2>4. /\ \A j \in DOMAIN cut : old(j) \in DOMAIN s /\ old(j) # m
        /\ \A i, k \in DOMAIN cut : old(i) = old(k) => i = k
        /\ \A j \in DOMAIN s : j # m => \E k \in DOMAIN cut : old(k) = j
    <3>1. \A i \in DOMAIN cut : old(i) \in DOMAIN s /\ old(i) # m
      BY <2>1, <2>3
    <3>2. \A i, k \in DOMAIN cut : old(i) = old(k) => i = k
      BY <2>1, <2>3
    <3>3. ASSUME NEW i \in DOMAIN s, i # m
          PROVE  \E k \in DOMAIN cut : old(k) = i
      <4>1. CASE i < m
        <5>1. i \in DOMAIN cut /\ old(i) = i
          BY <2>1, <2>3, <4>1
        <5>2. QED
          BY <5>1
      <4>2. CASE ~(i < m)
        <5>1. i - 1 \in DOMAIN cut /\ old(i - 1) = i
          BY <2>1, <2>3, <3>3, <4>2
        <5>2. QED
          BY <5>1
      <4>3. QED
        BY <4>1, <4>2
    <3>4. QED
      BY <3>1, <3>2, <3>3
  <2>5. /\ DOMAIN queue' = DOMAIN queue
        /\ \A i \in DOMAIN queue \ {n} : queue'[i] = queue[i]
    BY <1>1, <2>1, <2>2
  <2>6. queue'[n] \in Slot /\ queue'[n].proc = Home[t] /\ queue'[n].threads = cut
    <3>1. queue[n] \in Slot
      BY <1>3, <2>1
    <3>2. queue'[n] = [queue[n] EXCEPT !.threads = cut]
      BY <1>1, <2>1, <2>2
    <3>3. queue[n].proc = Home[t]
      BY <1>5, <1>8
    <3> HIDE DEF n, s, m, cut, old
    <3>4. QED
      BY <2>3, <3>1, <3>2, <3>3 DEF Slot
  <2>7. queue' \in Seq(Slot)
    <3>1. \A i \in DOMAIN queue : queue'[i] \in Slot
      BY <1>3, <2>5, <2>6
    <3>2. queue' \in [1..Len(queue) -> Slot]
      BY <1>2, <2>2, <2>5, <3>1
    <3>3. QED
      BY <1>2, <3>2
  <2>8. /\ queue[n].proc = Home[t] /\ queue[n].threads = s /\ m \in DOMAIN s /\ s[m] = t
        /\ \A i \in DOMAIN queue : i # n => \A j \in DOMAIN queue[i].threads : queue[i].threads[j] # t
    BY <1>5, <1>8
  <2> HIDE DEF n, s, m, cut, old
  <2>9. SlotsFit'
    <3>1. \A i \in DOMAIN queue : queue'[i].proc = queue[i].proc
      BY <2>5, <2>6, <2>8
    <3>2. \A i, k \in DOMAIN queue' : queue'[i].proc = queue'[k].proc => i = k
      BY <2>5, <3>1 DEF SlotsFit
    <3>3. \A j \in DOMAIN s : Home[s[j]] = Home[t]
      BY <2>1, <2>8 DEF SlotsFit
    <3>4. ASSUME NEW i \in DOMAIN queue'
          PROVE  /\ queue'[i].threads # << >>
                 /\ \A j \in DOMAIN queue'[i].threads :
                       Home[queue'[i].threads[j]] = queue'[i].proc
      <4>1. CASE i = n
        BY <2>3, <2>4, <2>6, <3>3, <4>1
      <4>2. CASE i # n
        BY <2>5, <4>2 DEF SlotsFit
      <4>3. QED
        BY <4>1, <4>2
    <3>5. QED
      BY <2>7, <3>2, <3>4, HomeAssumption DEF SlotsFit
  <2> DEFINE from(i, j) == IF i = n THEN old(j) ELSE j
  <2>10. ASSUME NEW i \in DOMAIN queue', NEW j \in DOMAIN queue'[i].threads
         PROVE  /\ i \in DOMAIN queue /\ from(i, j) \in DOMAIN queue[i].threads
                /\ queue'[i].threads[j] = queue[i].threads[from(i, j)]
                /\ i = n => from(i, j) # m
    <3>1. CASE i = n
      BY <2>1, <2>3, <2>4, <2>6, <2>8, <2>10, <3>1
    <3>2. CASE i # n
      BY <2>5, <2>10, <3>2
    <3>3. QED
      BY <3>1, <3>2
  <2>11. ASSUME NEW i \in DOMAIN queue', NEW j \in DOMAIN queue'[i].threads,
                NEW k \in DOMAIN queue'[i].threads, from(i, j) = from(i, k)
         PROVE  j = k
    <3>1. CASE i = n
      BY <2>4, <2>6, <2>11, <3>1
    <3>2. CASE i # n
      BY <2>11, <3>2
    <3>3. QED
      BY <3>1, <3>2
  <2>12. ASSUME NEW i \in DOMAIN queue, NEW j \in DOMAIN queue[i].threads,
                queue[i].threads[j] # t
         PROVE  /\ i \in DOMAIN queue'
                /\ \E k \in DOMAIN queue'[i].threads : queue'[i].threads[k] = queue[i].threads[j]
    <3>1. CASE i = n
      <4>1. j \in DOMAIN s /\ j # m
        BY <2>8, <2>12, <3>1
      <4>2. PICK k \in DOMAIN cut : old(k) = j
        BY <2>4, <4>1
      <4>3. cut[k] = s[j]
        BY <2>3, <4>2
      <4>4. QED
        BY <2>5, <2>6, <2>8, <3>1, <4>3
    <3>2. CASE i # n
      BY <2>5, <3>2
    <3>3. QED
      BY <3>1, <3>2
  <2> HIDE DEF from
  <2>13. ASSUME ListedOnce(t) PROVE ~Listed(t)'
    <3>1. \A j \in DOMAIN s : s[j] = t => j = m
      BY <2>1, <2>8, <2>13 DEF ListedOnce
    <3>2. ASSUME NEW i \in DOMAIN queue', NEW j \in DOMAIN queue'[i].threads
          PROVE  queue'[i].threads[j] # t
      BY <2>8, <2>10, <3>1
    <3>3. QED
      BY <3>2 DEF Listed
  <2>14. ASSUME NEW x \in Threads \ {t}
         PROVE  (Listed(x)' <=> Listed(x)) /\ (ListedOnce(x) => ListedOnce(x)')
    <3>1. Listed(x)' => Listed(x)
      BY <2>10 DEF Listed
    <3>2. ASSUME Listed(x) PROVE Listed(x)'
      <4>1. PICK i \in DOMAIN queue : \E j \in DOMAIN queue[i].threads : queue[i].threads[j] = x
        BY <3>2 DEF Listed
      <4>2. PICK j \in DOMAIN queue[i].threads : queue[i].threads[j] = x
        BY <4>1
      <4>3. QED
        BY <2>12, <4>2 DEF Listed
    <3>3. ASSUME ListedOnce(x),
                 NEW i \in DOMAIN queue', NEW j \in DOMAIN queue'[i].threads,
                 NEW k \in DOMAIN queue', NEW l \in DOMAIN queue'[k].threads,
                 queue'[i].threads[j] = x, queue'[k].threads[l] = x
          PROVE  i = k /\ j = l
      <4>1. /\ i \in DOMAIN queue /\ from(i, j) \in DOMAIN queue[i].threads
            /\ queue[i].threads[from(i, j)] = x
        BY <2>10, <3>3
      <4>2. /\ k \in DOMAIN queue /\ from(k, l) \in DOMAIN queue[k].threads
            /\ queue[k].threads[from(k, l)] = x
        BY <2>10, <3>3
      <4>3. i = k /\ from(i, j) = from(k, l)
        BY <3>3, <4>1, <4>2 DEF ListedOnce
      <4>4. QED
        BY <2>11, <4>3
    <3>4. ListedOnce(x) => ListedOnce(x)'
      BY <3>3 DEF ListedOnce
    <3>5. QED
      BY <3>1, <3>2, <3>4
  <2>15. QED
    BY <2>9, <2>13, <2>14
<1>9. QED
  BY <1>6, <1>7, <1>8

(* What set_thread_state does to the queue: it keeps t queued by its state, *)
(* unless it suspends it, and a driver off the queue that only sleeps and   *)
(* wakes.                                                                   *)
LEMMA StateSet ==
    ASSUME NEW t \in Threads, NEW s \in States, SlotsFit, state \in [Threads -> States],
           SetThreadState(t, s)
    PROVE  /\ SlotsFit' /\ state' = [state EXCEPT ![t] = s]
           /\ s # "suspended" /\ ListedOnce(t) /\ (Listed(t) <=> state[t] \in Leaves)
                 => ListedOnce(t)' /\ (Listed(t)' <=> s \in Leaves)
           /\ ~Listed(t) /\ state[t] \in Leaves /\ s \in Leaves => ~Listed(t)'
           /\ \A x \in Threads \ {t} :
                 /\ Listed(x)' <=> Listed(x)
                 /\ ListedOnce(x) => ListedOnce(x)'
<1>1. s # "suspended" => (s \in Leaves <=> s \in Joins)
  BY DEF Leaves, Joins
<1>2. s \in Leaves => s \in Joins
  BY DEF Joins
<1>3. state' = [state EXCEPT ![t] = s]
  BY DEF SetThreadState
<1>4. CASE state[t] = s \/ (state[t] \in Leaves <=> s \in Joins)
  <2>1. queue' = queue
    BY <1>4 DEF SetThreadState
  <2>2. SlotsFit' /\ \A x \in Threads : (Listed(x)' <=> Listed(x)) /\ (ListedOnce(x) => ListedOnce(x)')
    BY <2>1 DEF SlotsFit, Listed, ListedOnce
  <2>3. QED
    BY <1>1, <1>3, <1>4, <2>2
<1>5. CASE state[t] # s /\ state[t] \in Leaves /\ s \notin Joins
  <2>1. queue' = Removed(t)
    BY <1>5 DEF SetThreadState
  <2>2. ListedOnce(t) => ~Listed(t)'
    BY <2>1, Removal
  <2>3. ~Listed(t)' => ListedOnce(t)'
    BY DEF Listed, ListedOnce
  <2>4. QED
    BY <1>1, <1>2, <1>3, <1>5, <2>1, <2>2, <2>3, Removal
<1>6. CASE state[t] # s /\ state[t] \notin Leaves /\ s \in Joins
  <2>1. queue' = Inserted(t)
    BY <1>6 DEF SetThreadState
  <2>2. QED
    BY <1>1, <1>3, <1>6, <2>1, Insertion
<1>7. QED
  BY <1>4, <1>5, <1>6

LEMMA QueueSame ==
    ASSUME UNCHANGED queue
    PROVE  /\ SlotsFit => SlotsFit'
           /\ \A x \in Threads : (Listed(x)' <=> Listed(x)) /\ (ListedOnce(x) => ListedOnce(x)')
BY DEF SlotsFit, Listed, ListedOnce
-----------------------------------------------------------------------------
(* The ring.                                                                *)

Count == (mark + MaxRequests - pos) % MaxRequests
RingTypes == pos \in 0 .. MaxRequests - 1 /\ mark \in 0 .. MaxRequests - 1

(* The places of the ring are counted round it. *)
LEMMA After ==
    ASSUME NEW x \in 0 .. MaxRequests - 1
    PROVE  (x + 1) % MaxRequests = IF x + 1 < MaxRequests THEN x + 1 ELSE 0
BY RequestsAssumption

LEMMA Further ==
    ASSUME NEW x \in 0 .. MaxRequests - 1, NEW i \in 0 .. MaxRequests - 1
    PROVE  (x + i) % MaxRequests = IF x + i < MaxRequests THEN x + i ELSE x + i - MaxRequests
BY RequestsAssumption

LEMMA Between ==
    ASSUME NEW x \in 0 .. MaxRequests - 1, NEW y \in 0 .. MaxRequests - 1
    PROVE  (y + MaxRequests - x) % MaxRequests = IF x <= y THEN y - x ELSE y + MaxRequests - x
BY RequestsAssumption

LEMMA CountIs ==
    ASSUME RingTypes
    PROVE  /\ MaxRequests \in Nat \ {0}
           /\ Count = IF pos <= mark THEN mark - pos ELSE mark + MaxRequests - pos
           /\ Count \in 0 .. MaxRequests - 1
<1>1. MaxRequests \in Nat \ {0}
  BY RequestsAssumption
<1>2. Count = IF pos <= mark THEN mark - pos ELSE mark + MaxRequests - pos
  BY Between DEF Count, RingTypes
<1>3. QED
  BY <1>1, <1>2 DEF RingTypes

(* The window's places in the order of their requests. *)
LEMMA Turns ==
    ASSUME RingTypes
    PROVE  /\ \A i \in 0 .. Count - 1 : (pos + i) % MaxRequests \in Window
           /\ \A i, j \in 0 .. Count - 1 :
                 (pos + i) % MaxRequests = (pos + j) % MaxRequests => i = j
           /\ \A k \in Window : \E i \in 0 .. Count - 1 : (pos + i) % MaxRequests = k
<1>1. \A i \in 0 .. Count - 1 :
         (pos + i) % MaxRequests = IF pos + i < MaxRequests THEN pos + i ELSE pos + i - MaxRequests
  <2>1. TAKE i \in 0 .. Count - 1
  <2>2. i \in 0 .. MaxRequests - 1 /\ pos \in 0 .. MaxRequests - 1
    BY CountIs DEF RingTypes
  <2>3. QED
    BY <2>2, Further
<1>2. ASSUME NEW i \in 0 .. Count - 1
      PROVE  (pos + i) % MaxRequests \in Window
  <2> DEFINE k == IF pos + i < MaxRequests THEN pos + i ELSE pos + i - MaxRequests
  <2>1. k \in Window
    BY CountIs DEF RingTypes, Window
  <2>2. QED
    BY <1>1, <2>1
<1>3. \A i, j \in 0 .. Count - 1 : (pos + i) % MaxRequests = (pos + j) % MaxRequests => i = j
  BY <1>1, CountIs DEF RingTypes
<1>4. ASSUME NEW k \in Window
      PROVE  \E i \in 0 .. Count - 1 : (pos + i) % MaxRequests = k
  <2> DEFINE i == IF pos <= k THEN k - pos ELSE k + MaxRequests - pos
  <2>1. i \in 0 .. Count - 1 /\ (IF pos + i < MaxRequests THEN pos + i ELSE pos + i - MaxRequests) = k
    BY CountIs DEF RingTypes, Window
  <2>2. QED
    BY <1>1, <2>1
<1>5. QED
  BY <1>2, <1>3, <1>4

LEMMA PendingIs ==
    ASSUME RingTypes
    PROVE  \A t : t \in Pending <=> InRing(t)
<1>1. Pending = {requests[(pos + i) % MaxRequests] : i \in 0 .. Count - 1}
  BY DEF Pending, Count
<1>2. QED
  BY <1>1, Turns DEF InRing

LEMMA WindowGrows ==
    ASSUME RingTypes, (mark + 1) % MaxRequests # pos,
           mark' = (mark + 1) % MaxRequests, pos' = pos
    PROVE  Window' = Window \cup {mark} /\ mark \notin Window /\ RingTypes'
<1>1. mark' = IF mark + 1 < MaxRequests THEN mark + 1 ELSE 0
  BY After DEF RingTypes
<1>2. QED
  BY <1>1, CountIs DEF RingTypes, Window

LEMMA WindowShrinks ==
    ASSUME RingTypes, pos # mark, pos' = (pos + 1) % MaxRequests, mark' = mark
    PROVE  Window' = Window \ {pos} /\ pos \in Window /\ RingTypes'
<1>1. pos' = IF pos + 1 < MaxRequests THEN pos + 1 ELSE 0
  BY After DEF RingTypes
<1>2. QED
  BY <1>1, CountIs DEF RingTypes, Window

(* There are no more requests than masked lines, so that while a line is    *)
(* not masked there is room for its request.                                *)
MaskedLines == {l \in Lines : masked[l]}

LEMMA FewRequests ==
    ASSUME IInv, upset = {}
    PROVE  IsFiniteSet(MaskedLines) /\ Count <= Cardinality(MaskedLines)
<1> DEFINE RequestOf(i) == requests[(pos + i) % MaxRequests]
           f == [i \in 0 .. Count - 1 |-> duty[RequestOf(i)]]
<1>1. RingTypes
  BY DEF IInv, TypeOK, RingTypes
<1>2. IsFiniteSet(MaskedLines)
  BY RequestsAssumption, FS_Subset DEF MaskedLines
<1>3. ASSUME NEW k \in Window
      PROVE  /\ requests[k] \in Threads /\ InRing(requests[k])
             /\ duty[requests[k]] \in MaskedLines
  <2>1. k \in 0 .. MaxRequests - 1 /\ requests[k] \in Threads
    BY <1>1 DEF IInv, RingFilled, Window, RingTypes
  <2>2. InRing(requests[k]) /\ duty[requests[k]] # NoLine
    BY <2>1 DEF IInv, DriversOnly, InRing
  <2>3. duty[requests[k]] \in Lines /\ masked[duty[requests[k]]]
    BY <2>1, <2>2 DEF IInv, DriversFit, TypeOK
  <2>4. QED
    BY <2>1, <2>2, <2>3 DEF MaskedLines
<1>4. ASSUME NEW k \in Window, NEW m \in Window, duty[requests[k]] = duty[requests[m]]
      PROVE  k = m
  <2>1. requests[k] = requests[m]
    BY <1>3, <1>4 DEF IInv, LinesFit
  <2>2. QED
    BY <2>1 DEF IInv, RingFits
<1>5. \A i \in 0 .. Count - 1 : duty[RequestOf(i)] \in MaskedLines
  BY <1>1, <1>3, Turns
<1>6. \A i, j \in 0 .. Count - 1 : duty[RequestOf(i)] = duty[RequestOf(j)] => i = j
  BY <1>1, <1>4, Turns
<1> HIDE DEF RequestOf
<1>7. f \in Injection(0 .. Count - 1, MaskedLines)
  BY <1>5, <1>6 DEF Injection, IsInjective
<1>8. Cardinality(0 .. Count - 1) <= Cardinality(MaskedLines)
  BY <1>2, <1>7, FS_Injection
<1>9. Count \in 0 .. MaxRequests - 1 /\ MaxRequests \in Nat
  BY <1>1, CountIs
<1>10. Cardinality(0 .. Count - 1) = Count
  <2>1. 0 \in Int /\ Count - 1 \in Int
    BY <1>9
  <2>2. Cardinality(0 .. Count - 1) = IF 0 > Count - 1 THEN 0 ELSE Count - 1 - 0 + 1
    BY <2>1, FS_Interval
  <2>3. QED
    BY <1>9, <2>2
<1>11. QED
  BY <1>2, <1>8, <1>10

LEMMA Room ==
    ASSUME IInv, upset = {}, NEW l \in Lines, ~masked[l]
    PROVE  (mark + 1) % MaxRequests # pos
<1>1. RingTypes
  BY DEF IInv, TypeOK, RingTypes
<1>2. IsFiniteSet(Lines \ {l}) /\ Cardinality(Lines \ {l}) = Cardinality(Lines) - 1
      /\ Cardinality(Lines) \in Nat
  BY RequestsAssumption, FS_RemoveElement, FS_CardinalityType
<1>3. MaskedLines \in SUBSET (Lines \ {l})
  BY DEF MaskedLines
<1>4. Cardinality(MaskedLines) <= Cardinality(Lines \ {l}) /\ Cardinality(MaskedLines) \in Nat
  BY <1>2, <1>3, FS_Subset, FS_CardinalityType
<1>5. Count < MaxRequests - 1
  <2>1. Count \in Nat /\ Count <= Cardinality(MaskedLines)
    BY <1>1, FewRequests, CountIs
  <2>2. Cardinality(Lines) < MaxRequests /\ MaxRequests \in Nat
    BY RequestsAssumption
  <2>3. QED
    BY <1>2, <1>4, <2>1, <2>2
<1>6. (mark + 1) % MaxRequests = IF mark + 1 < MaxRequests THEN mark + 1 ELSE 0
  BY <1>1, After DEF RingTypes
<1>7. QED
  BY <1>1, <1>5, <1>6, CountIs DEF RingTypes

(* A request in the window is a thread's, and one is there unless the       *)
(* positions are equal.                                                     *)
LEMMA WindowFilled ==
    ASSUME RingTypes, RingFilled
    PROVE  /\ \A k \in Window : requests[k] \in Threads
           /\ pos # mark => pos \in Window
BY DEF RingTypes, RingFilled, Window

LEMMA RingSame ==
    ASSUME UNCHANGED ring
    PROVE  Window' = Window /\ (\A x \in Threads : InRing(x)' <=> InRing(x))
BY DEF ring, Window, InRing
-----------------------------------------------------------------------------
(* What one step after another keeps. First, a change of a thread's state   *)
(* that does what it does to the queue:                                     *)
Parts ==
    /\ SlotsFit /\ QueuedByState /\ DriversOnly
    /\ RingFilled /\ RingFits /\ DriversFit /\ LinesFit

LEMMA SetKeeps ==
    ASSUME IInv, NEW t \in Threads, NEW s \in States, SetThreadState(t, s),
           UNCHANGED <<ring, irq>>, upset \subseteq upset',
           s = "suspended" => t \in upset',
           upset' = {} /\ duty[t] # NoLine =>
              state[t] \in Leaves /\ s \in {"running", "asleep"} /\ InRing(t)
    PROVE  Parts'
<1>1. /\ SlotsFit' /\ state' = [state EXCEPT ![t] = s]
      /\ s # "suspended" /\ ListedOnce(t) /\ (Listed(t) <=> state[t] \in Leaves)
            => ListedOnce(t)' /\ (Listed(t)' <=> s \in Leaves)
      /\ ~Listed(t) /\ state[t] \in Leaves /\ s \in Leaves => ~Listed(t)'
      /\ \A x \in Threads \ {t} :
            /\ Listed(x)' <=> Listed(x)
            /\ ListedOnce(x) => ListedOnce(x)'
  BY StateSet DEF IInv, TypeOK
<1>2. state'[t] = s /\ \A x \in Threads \ {t} : state'[x] = state[x]
  BY <1>1 DEF IInv, TypeOK
<1>3. Window' = Window /\ \A x \in Threads : InRing(x)' <=> InRing(x)
  BY RingSame
<1>4. requests' = requests /\ pos' = pos /\ mark' = mark
      /\ handler' = handler /\ masked' = masked /\ duty' = duty
  BY DEF ring, irq
<1>5. QueuedByState'
  BY <1>1, <1>2, <1>4 DEF QueuedByState, IInv
<1>6. DriversOnly' /\ RingFilled' /\ RingFits'
  BY <1>3, <1>4 DEF DriversOnly, RingFilled, RingFits, IInv
<1>7. DriversFit'
  <2>1. \A x \in Threads : x = t /\ s \in {"running", "asleep"} => s \in Leaves
    BY DEF Leaves
  <2>2. QED
    BY <1>1, <1>2, <1>3, <1>4, <2>1 DEF DriversFit, IInv
<1>8. LinesFit'
  BY <1>3, <1>4 DEF LinesFit, IInv
<1>9. QED
  BY <1>1, <1>5, <1>6, <1>7, <1>8 DEF Parts

(* and one that needs to do nothing to it.                                  *)
LEMMA StillKeeps ==
    ASSUME IInv, UNCHANGED <<queue, ring, irq, upset>>,
           \A x \in Threads : state'[x] \in Leaves <=> state[x] \in Leaves,
           upset = {} => \A x \in Threads :
              duty[x] # NoLine => state'[x] = state[x] \/ (state[x] = "asleep" /\ state'[x] = "running")
    PROVE  Parts'
<1>1. SlotsFit' /\ \A x \in Threads : (Listed(x)' <=> Listed(x)) /\ (ListedOnce(x) => ListedOnce(x)')
  BY QueueSame DEF IInv
<1>2. Window' = Window /\ \A x \in Threads : InRing(x)' <=> InRing(x)
  BY RingSame
<1>3. requests' = requests /\ pos' = pos /\ mark' = mark
      /\ handler' = handler /\ masked' = masked /\ duty' = duty /\ upset' = upset
  BY DEF ring, irq
<1>4. QueuedByState'
  BY <1>1, <1>3 DEF QueuedByState, IInv
<1>5. DriversOnly' /\ RingFilled' /\ RingFits' /\ LinesFit'
  BY <1>2, <1>3 DEF DriversOnly, RingFilled, RingFits, LinesFit, IInv
<1>6. DriversFit'
  BY <1>1, <1>2, <1>3 DEF DriversFit, IInv
<1>7. QED
  BY <1>1, <1>4, <1>5, <1>6 DEF Parts

(* Who is switched to has the state to run in, and was not freed.           *)
LEMMA SwitchFits ==
    ASSUME IInv, NEW t \in Threads, NEW next \in Phases \ {"halted"}, NEW r \in BOOLEAN,
           SwitchThread(t, next, r),
           UNCHANGED <<queue, ring, irq, upset>>,
           upset = {} => IF duty[t] = NoLine THEN Listed(t) ELSE pos # mark /\ requests[pos] = t
    PROVE  /\ Parts' /\ RunnerFits' /\ TasksFit'
           /\ state' \in [Threads -> States] /\ cur' \in {t, Nobody} /\ phase' \in Phases
           /\ ran' \in BOOLEAN /\ tasks' \subseteq Threads
<1>1. requests' = requests /\ pos' = pos /\ mark' = mark /\ duty' = duty /\ upset' = upset
  BY DEF ring, irq
<1>2. /\ state \in [Threads -> States] /\ t # Nobody /\ tasks \subseteq Threads
      /\ state[t] \in States
  BY NamesAssumption DEF IInv, TypeOK
<1>3. /\ state' \in [Threads -> States]
      /\ \A x \in Threads : state'[x] = state[x] \/ (state[x] = "asleep" /\ state'[x] = "running")
  BY <1>2 DEF SwitchThread, Run, GoOn, States
<1>4. /\ cur' \in {t, Nobody} /\ phase' \in {next, "halted"} /\ ran' \in BOOLEAN
      /\ tasks' \subseteq Threads
      /\ cur' = t => state'[t] = "running"
      /\ \A x \in tasks' : x \in tasks \/ (x = t /\ state[t] = "finished")
      /\ phase' = "halted" => state[t] = "gone"
  BY <1>2 DEF SwitchThread, Run, GoOn
<1>5. Parts'
  <2>1. \A x \in Threads : state'[x] \in Leaves <=> state[x] \in Leaves
    BY <1>3 DEF Leaves
  <2>2. QED
    BY <1>3, <2>1, StillKeeps
<1>6. CASE upset = {}
  <2>1. duty[t] = NoLine => state[t] \in Leaves
    BY <1>6 DEF IInv, QueuedByState
  <2>2. duty[t] # NoLine => state[t] \in {"running", "asleep"}
    <3>1. RingTypes /\ RingFilled
      BY DEF IInv, TypeOK, RingTypes
    <3>2. duty[t] # NoLine => InRing(t)
      BY <1>6, <3>1, WindowFilled DEF InRing
    <3>3. QED
      BY <1>6, <3>2 DEF IInv, DriversFit
  <2>3. RunnerFits'
    BY <1>1, <1>2, <1>4, <1>6, <2>1, <2>2, NamesAssumption DEF RunnerFits, Leaves
  <2>4. TasksFit'
    BY <1>1, <1>3, <1>4, <1>6, <2>1, <2>2 DEF TasksFit, IInv, Leaves
  <2>5. QED
    BY <1>3, <1>4, <1>5, <2>3, <2>4 DEF Phases
<1>7. CASE upset # {}
  BY <1>1, <1>3, <1>4, <1>5, <1>7 DEF RunnerFits, TasksFit, Phases
<1>8. QED
  BY <1>6, <1>7

(* Nobody, the idle thread or the collector runs next.                      *)
LEMMA OtherFits ==
    ASSUME IInv, cur' \in {Nobody, Idle, Gc}, phase' \in Phases \ {"halted"},
           UNCHANGED <<queue, ring, irq, upset, state, tasks>>
    PROVE  Parts' /\ RunnerFits' /\ TasksFit'
<1>1. Parts'
  BY StillKeeps
<1>2. \A x \in Threads : cur' # x
  BY NamesAssumption
<1>3. RunnerFits' /\ TasksFit'
  BY <1>2 DEF RunnerFits, TasksFit, IInv, irq
<1>4. QED
  BY <1>1, <1>3

LEMMA PickKeeps ==
    ASSUME IInv, NEW sp \in Nat, NEW tp \in Nat, NEW r \in BOOLEAN, Pick(sp, tp, r),
           UNCHANGED <<queue, ring, irq, upset>>
    PROVE  IInv'
<1> DEFINE exhausted == sp < Len(queue) /\ Len(queue[sp + 1].threads) <= tp
           s == IF exhausted THEN sp + 1 ELSE sp
           i == IF exhausted THEN 0 ELSE tp
<1>1. queue \in Seq(Slot) /\ Len(queue) \in Nat /\ DOMAIN queue = 1..Len(queue)
  BY EmptyLength DEF IInv, SlotsFit
<1>2. s \in Nat /\ i \in Nat
  OBVIOUS
<1>3. slotPos' = s /\ threadPos' \in Nat
  BY <1>2 DEF Pick
<1>4. CASE s < Len(queue)
  <2> DEFINE t == queue[s + 1].threads[i + 1]
  <2>1. SwitchThread(t, "gc", r)
    BY <1>4 DEF Pick
  <2>2. s + 1 \in DOMAIN queue
    BY <1>1, <1>2, <1>4
  <2>3. queue[s + 1].threads \in Seq(Threads) /\ queue[s + 1].threads # << >>
    BY <1>1, <2>2, SlotTypes DEF IInv, SlotsFit
  <2>4. i + 1 \in DOMAIN queue[s + 1].threads
    <3>1. DOMAIN queue[s + 1].threads = 1..Len(queue[s + 1].threads)
          /\ Len(queue[s + 1].threads) \in Nat \ {0}
      BY <2>3, EmptyLength
    <3>2. CASE exhausted
      BY <3>1, <3>2
    <3>3. CASE ~exhausted
      BY <1>1, <1>4, <3>1, <3>3
    <3>4. QED
      BY <3>2, <3>3
  <2>5. t \in Threads /\ Listed(t)
    BY <2>2, <2>3, <2>4 DEF Listed
  <2> HIDE DEF t
  <2>6. upset = {} => duty[t] = NoLine
    BY <2>5 DEF IInv, DriversFit
  <2>7. /\ Parts' /\ RunnerFits' /\ TasksFit'
        /\ state' \in [Threads -> States] /\ cur' \in {t, Nobody} /\ phase' \in Phases
        /\ ran' \in BOOLEAN /\ tasks' \subseteq Threads
    BY <2>1, <2>5, <2>6, SwitchFits DEF Phases
  <2>8. TypeOK'
    BY <1>2, <1>3, <2>5, <2>7 DEF TypeOK, IInv, ring, irq
  <2>9. QED
    BY <2>7, <2>8 DEF IInv, Parts
<1>5. CASE ~(s < Len(queue))
  <2>1. UNCHANGED <<state, tasks>> /\ cur' = Nobody /\ phase' = "gc" /\ ran' = r
    BY <1>5 DEF Pick, GoOn
  <2>2. Parts' /\ RunnerFits' /\ TasksFit'
    BY <2>1, OtherFits DEF Phases
  <2>3. TypeOK'
    BY <1>2, <1>3, <2>1 DEF TypeOK, IInv, ring, irq, Phases
  <2>4. QED
    BY <2>2, <2>3 DEF IInv, Parts
<1>6. QED
  BY <1>4, <1>5

LEMMA ServeSlotsKeeps ==
    ASSUME IInv, ServeSlots, UNCHANGED <<queue, ring, irq, upset>>
    PROVE  IInv'
<1>1. slotPos \in Nat /\ threadPos \in Nat /\ ran \in BOOLEAN /\ 0 \in Nat
  BY DEF IInv, TypeOK
<1>2. CASE Pick(slotPos, threadPos, ran) \/ Pick(0, 0, FALSE)
  BY <1>1, <1>2, PickKeeps
<1>3. CASE cur' = Idle /\ phase' = "rewind" /\ UNCHANGED <<place, state, tasks>>
  <2>1. Parts' /\ RunnerFits' /\ TasksFit'
    BY <1>3, OtherFits DEF Phases
  <2>2. TypeOK'
    BY <1>3 DEF TypeOK, IInv, ring, irq, place, Phases
  <2>3. QED
    BY <2>1, <2>2 DEF IInv, Parts
<1>4. QED
  BY <1>2, <1>3 DEF ServeSlots

LEMMA ServeRequestKeeps ==
    ASSUME IInv, ServeRequest, UNCHANGED <<queue, ring, irq, upset>>
    PROVE  IInv'
<1>1. CASE pos = mark
  BY <1>1, ServeSlotsKeeps DEF ServeRequest
<1>2. CASE pos # mark
  <2> DEFINE t == requests[pos]
  <2>1. SwitchThread(t, "slot", ran) /\ UNCHANGED <<slotPos, threadPos>> /\ ran \in BOOLEAN
    BY <1>2 DEF ServeRequest, IInv, TypeOK
  <2>2. t \in Threads
    <3>1. RingTypes /\ RingFilled
      BY DEF IInv, TypeOK, RingTypes
    <3>2. QED
      BY <1>2, <3>1, WindowFilled
  <2>3. duty[t] # NoLine
    BY <2>2 DEF IInv, DriversOnly, TypeOK
  <2>4. requests[pos] = t
    OBVIOUS
  <2> HIDE DEF t
  <2>5. /\ Parts' /\ RunnerFits' /\ TasksFit'
        /\ state' \in [Threads -> States] /\ cur' \in {t, Nobody} /\ phase' \in Phases
        /\ ran' \in BOOLEAN /\ tasks' \subseteq Threads
    BY <1>2, <2>1, <2>2, <2>3, <2>4, SwitchFits DEF Phases
  <2>6. TypeOK'
    BY <2>1, <2>2, <2>5 DEF TypeOK, IInv, ring, irq
  <2>7. QED
    BY <2>5, <2>6 DEF IInv, Parts
<1>3. QED
  BY <1>1, <1>2

LEMMA ScheduleKeeps ==
    ASSUME IInv, Schedule
    PROVE  IInv'
<1>1. UNCHANGED <<queue, ring, irq, upset>>
  BY DEF Schedule
<1>2. CASE ServeRequest
  BY <1>1, <1>2, ServeRequestKeeps
<1>3. CASE ServeSlots
  BY <1>1, <1>3, ServeSlotsKeeps
<1>4. CASE Pick(0, 0, FALSE)
  BY <1>1, <1>4, PickKeeps
<1>5. CASE Run(Gc, "request") /\ UNCHANGED <<slotPos, threadPos, state, tasks>>
  <2>1. cur' = Gc /\ phase' = "request" /\ ran' = TRUE
    BY <1>5 DEF Run
  <2>2. Parts' /\ RunnerFits' /\ TasksFit'
    BY <1>1, <1>5, <2>1, OtherFits DEF Phases
  <2>3. TypeOK'
    BY <1>1, <1>5, <2>1 DEF TypeOK, IInv, ring, irq, Phases
  <2>4. QED
    BY <2>2, <2>3 DEF IInv, Parts
<1>6. QED
  BY <1>2, <1>3, <1>4, <1>5 DEF Schedule, ServeCollector

LEMMA YieldKeeps ==
    ASSUME IInv, Yield
    PROVE  IInv'
<1>1. /\ cur' = Nobody /\ phase' = phase
      /\ UNCHANGED <<queue, ring, irq, upset, state, tasks, place>>
  BY DEF Yield
<1>2. Parts'
  BY <1>1, StillKeeps
<1>3. \A x \in Threads : cur' # x
  BY <1>1, NamesAssumption
<1>4. RunnerFits' /\ TasksFit'
  BY <1>1, <1>3 DEF RunnerFits, TasksFit, IInv, irq
<1>5. TypeOK'
  BY <1>1 DEF TypeOK, IInv, ring, irq, place
<1>6. QED
  BY <1>2, <1>4, <1>5 DEF IInv, Parts

LEMMA NewThreadKeeps ==
    ASSUME IInv, NEW t \in Threads, NewThread(t)
    PROVE  IInv'
<1>1. /\ state[t] = "none" /\ state' = [state EXCEPT ![t] = "suspended"]
      /\ UNCHANGED <<queue, ring, irq, upset, tasks, place, phase, cur>>
  BY DEF NewThread
<1>2. /\ state' \in [Threads -> States] /\ state'[t] = "suspended"
      /\ \A x \in Threads \ {t} : state'[x] = state[x]
  BY <1>1 DEF IInv, TypeOK, States
<1>3. upset = {} => duty[t] = NoLine
  BY <1>1 DEF IInv, DriversFit
<1>4. Parts'
  <2>1. \A x \in Threads : state'[x] \in Leaves <=> state[x] \in Leaves
    BY <1>1, <1>2 DEF Leaves
  <2>2. QED
    BY <1>1, <1>2, <1>3, <2>1, StillKeeps
<1>5. RunnerFits'
  BY <1>1, <1>2 DEF RunnerFits, IInv, ring, irq
<1>6. TasksFit'
  BY <1>1, <1>2 DEF TasksFit, IInv, irq, Leaves
<1>7. TypeOK'
  BY <1>1, <1>2 DEF TypeOK, IInv, ring, irq, place
<1>8. QED
  BY <1>4, <1>5, <1>6, <1>7 DEF IInv, Parts

LEMMA PeerSetKeeps ==
    ASSUME IInv, NEW t \in Threads, NEW s \in {"running", "suspended", "finished"}, PeerSet(t, s)
    PROVE  IInv'
<1>1. /\ SetThreadState(t, s) /\ cur \in Threads
      /\ cur' = IF t = cur THEN Nobody ELSE cur
      /\ UNCHANGED <<ring, place, phase, irq, tasks>>
      /\ upset' = IF s = "suspended" \/ t \in Drivers THEN upset \cup {t} ELSE upset
      /\ s \in States
  BY DEF PeerSet, Upsets, States
<1>2. /\ upset \subseteq upset' /\ upset' \subseteq Threads
      /\ s = "suspended" => t \in upset'
      /\ upset' = {} => duty[t] = NoLine /\ s \in Leaves
  BY <1>1 DEF IInv, TypeOK, Drivers, Leaves
<1>3. Parts'
  BY <1>1, <1>2, SetKeeps
<1>4. state' = [state EXCEPT ![t] = s]
  BY <1>1 DEF SetThreadState
<1>5. /\ state' \in [Threads -> States] /\ state'[t] = s
      /\ \A x \in Threads \ {t} : state'[x] = state[x]
  BY <1>1, <1>4 DEF IInv, TypeOK
<1>6. RunnerFits'
  BY <1>1, <1>2, <1>5, NamesAssumption DEF RunnerFits, IInv, ring, irq
<1>7. TasksFit'
  BY <1>1, <1>2, <1>5 DEF TasksFit, IInv, irq, TypeOK
<1>8. TypeOK'
  BY <1>1, <1>2, <1>3, <1>5 DEF TypeOK, IInv, ring, irq, place, Parts, SlotsFit, Slot
<1>9. QED
  BY <1>3, <1>6, <1>7, <1>8 DEF IInv, Parts

(* A driver that runs or sleeps is requested. *)
LEMMA AwakeRequested ==
    ASSUME IInv, upset = {}, NEW t \in Threads, duty[t] # NoLine, state[t] # "irq"
    PROVE  InRing(t)
BY DEF IInv, DriversFit

LEMMA BlockKeeps ==
    ASSUME IInv, Block
    PROVE  IInv'
<1>1. PICK t \in Threads : t = cur
  BY DEF Block
<1>2. /\ SetThreadState(t, "asleep") /\ cur' = Nobody /\ "asleep" \in States
      /\ UNCHANGED <<ring, place, phase, irq, tasks, upset>>
  BY <1>1 DEF Block, States
<1>3. upset = {} => state[t] = "running"
  BY <1>1 DEF IInv, RunnerFits
<1>4. upset' = {} /\ duty[t] # NoLine =>
         state[t] \in Leaves /\ "asleep" \in {"running", "asleep"} /\ InRing(t)
  BY <1>2, <1>3, AwakeRequested DEF Leaves
<1>5. Parts'
  BY <1>2, <1>4, SetKeeps
<1>6. state' = [state EXCEPT ![t] = "asleep"]
  BY <1>2 DEF SetThreadState
<1>7. /\ state' \in [Threads -> States] /\ state'[t] = "asleep"
      /\ \A x \in Threads \ {t} : state'[x] = state[x]
  BY <1>2, <1>6 DEF IInv, TypeOK
<1>8. RunnerFits' /\ TasksFit'
  BY <1>2, <1>7, NamesAssumption DEF RunnerFits, TasksFit, IInv, irq, Leaves, TypeOK
<1>9. TypeOK'
  BY <1>2, <1>5, <1>7 DEF TypeOK, IInv, ring, irq, place, Parts, SlotsFit, Slot
<1>10. QED
  BY <1>5, <1>8, <1>9 DEF IInv, Parts

LEMMA WakeKeeps ==
    ASSUME IInv, NEW t \in Threads, Wake(t)
    PROVE  IInv'
<1>1. /\ SetThreadState(t, "running") /\ state[t] = "asleep" /\ "running" \in States
      /\ UNCHANGED <<ring, place, phase, cur, irq, tasks, upset>>
  BY DEF Wake, States
<1>2. upset' = {} /\ duty[t] # NoLine =>
         state[t] \in Leaves /\ "running" \in {"running", "asleep"} /\ InRing(t)
  BY <1>1, AwakeRequested DEF Leaves
<1>3. Parts'
  BY <1>1, <1>2, SetKeeps
<1>4. state' = [state EXCEPT ![t] = "running"]
  BY <1>1 DEF SetThreadState
<1>5. /\ state' \in [Threads -> States] /\ state'[t] = "running"
      /\ \A x \in Threads \ {t} : state'[x] = state[x]
  BY <1>1, <1>4 DEF IInv, TypeOK
<1>6. RunnerFits' /\ TasksFit'
  BY <1>1, <1>5 DEF RunnerFits, TasksFit, IInv, ring, irq, Leaves, TypeOK
<1>7. TypeOK'
  BY <1>1, <1>3, <1>5 DEF TypeOK, IInv, ring, irq, place, Parts, SlotsFit, Slot
<1>8. QED
  BY <1>3, <1>6, <1>7 DEF IInv, Parts

LEMMA ExitKeeps ==
    ASSUME IInv, Exit
    PROVE  IInv'
<1>1. PICK t \in Threads : t = cur
  BY DEF Exit
<1>2. /\ SetThreadState(t, "finished") /\ cur' = Nobody /\ "finished" \in States
      /\ UNCHANGED <<ring, place, phase, irq, tasks>>
      /\ upset' = IF t \in Drivers THEN upset \cup {t} ELSE upset
  BY <1>1 DEF Exit, States, Upsets
<1>3. /\ upset \subseteq upset' /\ upset' \subseteq Threads
      /\ upset' = {} => duty[t] = NoLine
  BY <1>2 DEF IInv, TypeOK, Drivers
<1>4. Parts'
  BY <1>2, <1>3, SetKeeps
<1>5. state' = [state EXCEPT ![t] = "finished"]
  BY <1>2 DEF SetThreadState
<1>6. /\ state' \in [Threads -> States] /\ state'[t] = "finished"
      /\ \A x \in Threads \ {t} : state'[x] = state[x]
  BY <1>2, <1>5 DEF IInv, TypeOK
<1>7. RunnerFits' /\ TasksFit'
  BY <1>2, <1>3, <1>6, NamesAssumption DEF RunnerFits, TasksFit, IInv, irq, Leaves, TypeOK
<1>8. TypeOK'
  BY <1>2, <1>3, <1>4, <1>6 DEF TypeOK, IInv, ring, irq, place, Parts, SlotsFit, Slot
<1>9. QED
  BY <1>4, <1>7, <1>8 DEF IInv, Parts

LEMMA CollectKeeps ==
    ASSUME IInv, NEW t \in Threads, Collect(t)
    PROVE  IInv'
<1>1. /\ SetThreadState(t, "gone") /\ t \in tasks /\ tasks' = tasks \ {t} /\ "gone" \in States
      /\ cur = Gc /\ UNCHANGED <<ring, place, phase, cur, irq, upset>>
  BY DEF Collect, States
<1>2. upset = {} => duty[t] = NoLine
  BY <1>1 DEF IInv, TasksFit
<1>3. Parts'
  BY <1>1, <1>2, SetKeeps
<1>4. state' = [state EXCEPT ![t] = "gone"]
  BY <1>1 DEF SetThreadState
<1>5. /\ state' \in [Threads -> States] /\ state'[t] = "gone"
      /\ \A x \in Threads \ {t} : state'[x] = state[x]
  BY <1>1, <1>4 DEF IInv, TypeOK
<1>6. RunnerFits' /\ TasksFit'
  BY <1>1, <1>5, NamesAssumption DEF RunnerFits, TasksFit, IInv, ring, irq, TypeOK
<1>7. TypeOK'
  BY <1>1, <1>3, <1>5 DEF TypeOK, IInv, ring, irq, place, Parts, SlotsFit, Slot
<1>8. QED
  BY <1>3, <1>6, <1>7 DEF IInv, Parts
-----------------------------------------------------------------------------
(* Interrupts. What holds as long as no thread was upset: *)
Calm ==
    /\ \A k, m \in Window : requests[k] = requests[m] => k = m
    /\ \A t \in Threads : duty[t] # NoLine =>
          /\ ~Listed(t)
          /\ InRing(t) => state[t] \in {"running", "asleep"} /\ masked[duty[t]]
          /\ ~InRing(t) => state[t] = "irq"
    /\ \A l \in Lines, t \in Threads : handler[l] = t /\ masked[l] => InRing(t)
    /\ \A t, u \in Threads : InRing(t) /\ InRing(u) /\ duty[t] = duty[u] => t = u
    /\ \A t, u \in Threads, l \in Lines :
          handler[l] = t /\ InRing(u) /\ duty[u] = l => t = u
    /\ phase # "halted"
    /\ \A t \in Threads : cur = t =>
          /\ state[t] = "running"
          /\ duty[t] # NoLine => pos # mark /\ requests[pos] = t
    /\ \A t \in tasks : duty[t] = NoLine /\ state[t] \in Leaves

LEMMA CalmIs ==
    (upset = {} => Calm) <=> RingFits /\ DriversFit /\ LinesFit /\ RunnerFits /\ TasksFit
BY DEF Calm, RingFits, DriversFit, LinesFit, RunnerFits, TasksFit

LEMMA CalmIsNext ==
    (upset' = {} => Calm') <=> RingFits' /\ DriversFit' /\ LinesFit' /\ RunnerFits' /\ TasksFit'
BY DEF Calm, RingFits, DriversFit, LinesFit, RunnerFits, TasksFit

LEMMA RequestIrqKeeps ==
    ASSUME IInv, NEW t \in Threads, NEW l \in Lines, RequestIrq(t, l)
    PROVE  IInv'
<1>1. /\ SetThreadState(t, "irq") /\ "irq" \in States
      /\ duty[t] = NoLine /\ handler[l] = Nobody
      /\ handler' = [handler EXCEPT ![l] = t]
      /\ duty' = [duty EXCEPT ![t] = l]
      /\ masked' = [masked EXCEPT ![l] = FALSE]
      /\ UNCHANGED <<ring, place, phase, cur, tasks>>
  BY DEF RequestIrq, States
<1>2. /\ upset' \subseteq Threads /\ upset \subseteq upset'
      /\ upset' = {} => upset = {} /\ state[t] = "suspended" /\ Pending \ Handlers = {}
  BY DEF RequestIrq, Upsets, IInv, TypeOK
<1>3. /\ SlotsFit' /\ state' = [state EXCEPT ![t] = "irq"]
      /\ ListedOnce(t) /\ (Listed(t) <=> state[t] \in Leaves) => ~Listed(t)'
      /\ \A x \in Threads \ {t} :
            /\ Listed(x)' <=> Listed(x)
            /\ ListedOnce(x) => ListedOnce(x)'
  BY <1>1, StateSet DEF IInv, TypeOK, Leaves
<1>4. /\ state'[t] = "irq" /\ \A x \in Threads \ {t} : state'[x] = state[x]
      /\ handler'[l] = t /\ \A k \in Lines \ {l} : handler'[k] = handler[k]
      /\ duty'[t] = l /\ \A x \in Threads \ {t} : duty'[x] = duty[x]
      /\ masked'[l] = FALSE /\ \A k \in Lines \ {l} : masked'[k] = masked[k]
  BY <1>1, <1>3 DEF IInv, TypeOK
<1>5. Window' = Window /\ \A x \in Threads : InRing(x)' <=> InRing(x)
  BY <1>1, RingSame
<1>6. requests' = requests /\ pos' = pos /\ mark' = mark /\ RingTypes
  BY <1>1 DEF ring, IInv, TypeOK, RingTypes
<1>7. l # NoLine /\ ~InRing(t)
  BY <1>1, NamesAssumption DEF IInv, DriversOnly, InRing, Window
<1>8. TypeOK'
  BY <1>1, <1>2, <1>3 DEF TypeOK, IInv, ring, place, SlotsFit, Slot
<1>9. QueuedByState'
  BY <1>2, <1>3, <1>4, <1>7 DEF QueuedByState, IInv
<1>10. DriversOnly'
  <2>1. \A k \in Lines, x \in Threads : handler'[k] = x => duty'[x] = k
    BY <1>1, <1>4, NamesAssumption DEF IInv, DriversOnly
  <2>2. \A k \in 0 .. MaxRequests - 1, x \in Threads : requests'[k] = x => duty'[x] # NoLine
    BY <1>4, <1>6, <1>7 DEF IInv, DriversOnly
  <2>3. QED
    BY <2>1, <2>2 DEF DriversOnly
<1>11. RingFilled'
  BY <1>6 DEF RingFilled, IInv
<1>12. ASSUME upset' = {} PROVE Calm'
  <2>1. Calm /\ upset = {} /\ state[t] = "suspended"
    BY <1>2, <1>12, CalmIs DEF IInv
  <2>2. ~Listed(t)'
    BY <1>1, <1>3, <2>1 DEF IInv, QueuedByState, TypeOK
  <2>3. ASSUME NEW x \in Threads, InRing(x) PROVE duty[x] # l /\ x # t
    <3>1. x \in Pending
      BY <1>6, <2>3, PendingIs
    <3>2. PICK k \in Lines : handler[k] = x
      BY <1>2, <1>12, <3>1 DEF Handlers
    <3>3. duty[x] = k /\ k # l
      BY <1>1, <3>2, NamesAssumption DEF IInv, DriversOnly
    <3>4. QED
      BY <1>7, <2>3, <3>3
  <2>4. t \notin tasks /\ cur # t
    BY <2>1 DEF Calm, Leaves
  <2>5. /\ \A k, m \in Window' : requests'[k] = requests'[m] => k = m
        /\ \A x \in Threads : duty'[x] # NoLine =>
              /\ ~Listed(x)'
              /\ InRing(x)' => state'[x] \in {"running", "asleep"} /\ masked'[duty'[x]]
              /\ ~InRing(x)' => state'[x] = "irq"
    <3>1. \A x \in Threads \ {t} : duty[x] # NoLine => duty[x] \in Lines
      BY DEF IInv, TypeOK
    <3>2. ASSUME NEW x \in Threads, duty'[x] # NoLine
          PROVE  /\ ~Listed(x)'
                 /\ InRing(x)' => state'[x] \in {"running", "asleep"} /\ masked'[duty'[x]]
                 /\ ~InRing(x)' => state'[x] = "irq"
      <4>1. CASE x = t
        BY <1>4, <1>5, <1>7, <2>2, <4>1
      <4>2. CASE x # t
        BY <1>3, <1>4, <1>5, <2>1, <2>3, <3>1, <3>2, <4>2 DEF Calm
      <4>3. QED
        BY <4>1, <4>2
    <3>3. QED
      BY <1>5, <1>6, <2>1, <3>2 DEF Calm
  <2>6. \A k \in Lines, x \in Threads : handler'[k] = x /\ masked'[k] => InRing(x)'
    BY <1>4, <1>5, <2>1 DEF Calm
  <2>7. \A x, u \in Threads : InRing(x)' /\ InRing(u)' /\ duty'[x] = duty'[u] => x = u
    BY <1>4, <1>5, <2>1, <2>3 DEF Calm
  <2>8. \A x, u \in Threads, k \in Lines :
           handler'[k] = x /\ InRing(u)' /\ duty'[u] = k => x = u
    BY <1>4, <1>5, <2>1, <2>3 DEF Calm
  <2>9. /\ phase' # "halted"
        /\ \A x \in Threads : cur' = x =>
              /\ state'[x] = "running"
              /\ duty'[x] # NoLine => pos' # mark' /\ requests'[pos'] = x
        /\ \A x \in tasks' : duty'[x] = NoLine /\ state'[x] \in Leaves
    BY <1>1, <1>4, <1>6, <2>1, <2>4 DEF Calm, IInv, TypeOK
  <2>10. QED
    BY <2>5, <2>6, <2>7, <2>8, <2>9 DEF Calm
<1>13. QED
  BY <1>3, <1>8, <1>9, <1>10, <1>11, <1>12, CalmIsNext DEF IInv

LEMMA ReleaseIrqKeeps ==
    ASSUME IInv, NEW l \in Lines, ReleaseIrq(l)
    PROVE  IInv'
<1>1. /\ handler' = [handler EXCEPT ![l] = Nobody]
      /\ masked' = [masked EXCEPT ![l] = TRUE]
      /\ UNCHANGED <<queue, ring, place, phase, cur, state, duty, tasks, upset>>
  BY DEF ReleaseIrq
<1>2. /\ handler'[l] = Nobody /\ \A k \in Lines \ {l} : handler'[k] = handler[k]
      /\ \A k \in Lines : masked[k] => masked'[k]
      /\ \A k \in Lines \ {l} : masked'[k] = masked[k]
      /\ \A x \in Threads : x # Nobody
  BY <1>1, NamesAssumption DEF IInv, TypeOK
<1>3. /\ SlotsFit'
      /\ \A x \in Threads : (Listed(x)' <=> Listed(x)) /\ (ListedOnce(x) => ListedOnce(x)')
  BY <1>1, QueueSame DEF IInv
<1>4. Window' = Window /\ \A x \in Threads : InRing(x)' <=> InRing(x)
  BY <1>1, RingSame
<1>5. TypeOK'
  BY <1>1 DEF TypeOK, IInv, ring, place
<1>6. QueuedByState'
  BY <1>1, <1>3 DEF QueuedByState, IInv
<1>7. DriversOnly' /\ RingFilled' /\ RingFits' /\ RunnerFits' /\ TasksFit'
  BY <1>1, <1>2, <1>4 DEF DriversOnly, RingFilled, RingFits, RunnerFits, TasksFit, ring, IInv
<1>8. DriversFit'
  BY <1>1, <1>2, <1>3, <1>4 DEF DriversFit, IInv, TypeOK
<1>9. LinesFit'
  BY <1>1, <1>2, <1>4 DEF LinesFit, IInv
<1>10. QED
  BY <1>3, <1>5, <1>6, <1>7, <1>8, <1>9 DEF IInv

LEMMA InterruptKeeps ==
    ASSUME IInv, Spawned, NEW l \in Lines, Interrupt(l)
    PROVE  IInv'
<1>1. /\ ~masked[l] /\ masked' = [masked EXCEPT ![l] = TRUE]
      /\ UNCHANGED <<queue, place, phase, handler, duty, tasks, upset>>
  BY DEF Interrupt
<1>2. /\ masked'[l] = TRUE /\ \A k \in Lines \ {l} : masked'[k] = masked[k]
      /\ \A k \in Lines : masked[k] => masked'[k]
      /\ \A x \in Threads : x # Nobody
  BY <1>1, NamesAssumption DEF IInv, TypeOK
<1>3. /\ SlotsFit'
      /\ \A x \in Threads : (Listed(x)' <=> Listed(x)) /\ (ListedOnce(x) => ListedOnce(x)')
  BY <1>1, QueueSame DEF IInv
<1>4. RingTypes /\ MaxRequests \in Nat \ {0}
  BY RequestsAssumption DEF IInv, TypeOK, RingTypes
<1>5. CASE ~Served(l) /\ UNCHANGED <<ring, cur, state>>
  <2>1. Window' = Window /\ \A x \in Threads : InRing(x)' <=> InRing(x)
    BY <1>5, RingSame
  <2>2. TypeOK'
    BY <1>1, <1>5 DEF TypeOK, IInv, ring, place
  <2>3. QueuedByState'
    BY <1>1, <1>3, <1>5 DEF QueuedByState, IInv
  <2>4. DriversOnly' /\ RingFilled' /\ RingFits' /\ RunnerFits' /\ TasksFit'
    BY <1>1, <1>5, <2>1 DEF DriversOnly, RingFilled, RingFits, RunnerFits, TasksFit, ring, IInv
  <2>5. DriversFit'
    BY <1>1, <1>2, <1>3, <1>5, <2>1 DEF DriversFit, IInv, TypeOK
  <2>6. LinesFit'
    <3>1. ASSUME upset = {}, NEW t \in Threads PROVE handler[l] # t
      BY <1>2, <1>5, <3>1 DEF Spawned, Served
    <3>2. QED
      BY <1>1, <1>2, <2>1, <3>1 DEF LinesFit, IInv
  <2>7. QED
    BY <1>3, <2>2, <2>3, <2>4, <2>5, <2>6 DEF IInv
<1>6. ASSUME Served(l), SchedRequest(handler[l]),
             state' = [state EXCEPT ![handler[l]] = IF @ = "gone" THEN @ ELSE "running"],
             cur' = Nobody
      PROVE  IInv'
  <2>1. PICK h \in Threads : h = handler[l]
    BY <1>6 DEF IInv, TypeOK, Served
  <2>2. duty[h] = l /\ l # NoLine
    BY <2>1, NamesAssumption DEF IInv, DriversOnly
  <2>3. /\ pos' = pos /\ mark' \in 0 .. MaxRequests - 1
        /\ requests' \in [0 .. MaxRequests - 1 -> Threads \cup {Nobody}]
        /\ \A k \in 0 .. MaxRequests - 1 : requests'[k] \in {requests[k], h}
    <3>1. (mark + 1) % MaxRequests \in 0 .. MaxRequests - 1
      BY <1>4 DEF RingTypes
    <3>2. QED
      BY <1>6, <2>1, <3>1 DEF SchedRequest, IInv, TypeOK
  <2>4. /\ state' \in [Threads -> States]
        /\ state'[h] = IF state[h] = "gone" THEN "gone" ELSE "running"
        /\ \A x \in Threads \ {h} : state'[x] = state[x]
    BY <1>6, <2>1 DEF IInv, TypeOK, States
  <2>5. TypeOK'
    BY <1>1, <1>6, <2>3, <2>4 DEF TypeOK, IInv, place
  <2>6. QueuedByState'
    BY <1>1, <1>3, <2>2, <2>4 DEF QueuedByState, IInv
  <2>7. DriversOnly'
    BY <1>1, <2>2, <2>3 DEF DriversOnly, IInv
  <2>8. RingFilled'
    <3>1. CASE (mark + 1) % MaxRequests = pos
      BY <1>6, <2>3, <3>1 DEF SchedRequest, RingFilled, IInv
    <3>2. CASE (mark + 1) % MaxRequests # pos
      <4>1. /\ requests' = [requests EXCEPT ![mark] = h] /\ mark' = (mark + 1) % MaxRequests
        BY <1>6, <2>1, <3>2 DEF SchedRequest
      <4>2. mark' = IF mark + 1 < MaxRequests THEN mark + 1 ELSE 0
        BY <1>4, <4>1, After DEF RingTypes
      <4>3. requests'[mark] = h
            /\ \A k \in 0 .. MaxRequests - 1 : k # mark => requests'[k] = requests[k]
        BY <1>4, <4>1 DEF RingTypes, IInv, TypeOK
      <4>4. CASE \A k \in 0 .. MaxRequests - 1 : requests[k] \in Threads
        BY <4>3, <4>4 DEF RingFilled
      <4>5. CASE pos <= mark /\ \A k \in 0 .. MaxRequests - 1 : requests[k] \in Threads <=> k < mark
        <5>1. CASE mark + 1 < MaxRequests
          BY <1>4, <2>3, <4>2, <4>3, <4>5, <5>1 DEF RingFilled, RingTypes
        <5>2. CASE ~(mark + 1 < MaxRequests)
          BY <1>4, <4>3, <4>5, <5>2 DEF RingFilled, RingTypes
        <5>3. QED
          BY <5>1, <5>2
      <4>6. QED
        BY <4>4, <4>5 DEF IInv, RingFilled
    <3>3. QED
      BY <3>1, <3>2
  <2>9. ASSUME upset' = {} PROVE Calm'
    <3>1. Calm /\ upset = {}
      BY <1>1, <2>9, CalmIs DEF IInv
    <3>2. ~InRing(h) /\ state[h] = "irq" /\ ~Listed(h)
      BY <1>1, <2>2, <3>1 DEF Calm
    <3>3. (mark + 1) % MaxRequests # pos
      BY <1>1, <3>1, Room
    <3>4. requests' = [requests EXCEPT ![mark] = h] /\ mark' = (mark + 1) % MaxRequests
      BY <1>6, <2>1, <3>3 DEF SchedRequest
    <3>5. Window' = Window \cup {mark} /\ mark \notin Window
      BY <1>4, <2>3, <3>3, <3>4, WindowGrows
    <3>6. requests'[mark] = h /\ \A k \in Window : requests'[k] = requests[k]
      BY <1>4, <3>4, <3>5 DEF RingTypes, IInv, TypeOK, Window
    <3>7. \A x \in Threads : InRing(x)' <=> InRing(x) \/ x = h
      BY <3>5, <3>6 DEF InRing
    <3>8. \A k, m \in Window' : requests'[k] = requests'[m] => k = m
      BY <3>1, <3>2, <3>5, <3>6 DEF Calm, InRing
    <3>9. ASSUME NEW x \in Threads, duty'[x] # NoLine
          PROVE  /\ ~Listed(x)'
                 /\ InRing(x)' => state'[x] \in {"running", "asleep"} /\ masked'[duty'[x]]
                 /\ ~InRing(x)' => state'[x] = "irq"
      <4>1. duty[x] = duty'[x] /\ duty[x] \in Lines
        BY <1>1, <3>9 DEF IInv, TypeOK
      <4>2. CASE x = h
        <5>1. ~Listed(x)' /\ InRing(x)'
          BY <1>3, <3>2, <3>7, <4>2
        <5>2. state'[x] = "running" /\ duty'[x] = l
          BY <2>2, <2>4, <3>2, <4>1, <4>2
        <5>3. QED
          BY <1>2, <5>1, <5>2
      <4>3. CASE x # h
        <5>1. /\ ~Listed(x)' /\ (InRing(x)' <=> InRing(x))
              /\ state'[x] = state[x] /\ duty[x] # NoLine
          BY <1>3, <2>4, <3>1, <3>7, <3>9, <4>1, <4>3 DEF Calm
        <5>2. masked[duty[x]] => masked'[duty'[x]]
          BY <1>2, <4>1
        <5>3. QED
          BY <3>1, <5>1, <5>2 DEF Calm
      <4>4. QED
        BY <4>2, <4>3
    <3>10. \A k \in Lines, x \in Threads : handler'[k] = x /\ masked'[k] => InRing(x)'
      BY <1>1, <1>2, <2>1, <3>1, <3>7 DEF Calm
    <3>11. \A x \in Threads : InRing(x) => duty[x] # l
      BY <1>1, <2>2, <3>1 DEF Calm
    <3>12. \A x, u \in Threads : InRing(x)' /\ InRing(u)' /\ duty'[x] = duty'[u] => x = u
      BY <1>1, <2>2, <3>1, <3>7, <3>11 DEF Calm
    <3>13. \A x, u \in Threads, k \in Lines :
              handler'[k] = x /\ InRing(u)' /\ duty'[u] = k => x = u
      BY <1>1, <2>1, <2>2, <3>1, <3>7 DEF Calm
    <3>14. \A x \in tasks : duty[x] = NoLine /\ state[x] \in Leaves /\ x # h /\ x \in Threads
      BY <2>2, <3>1 DEF Calm, IInv, TypeOK
    <3>15. /\ phase' # "halted"
           /\ \A x \in Threads : cur' # x
           /\ \A x \in tasks' : duty'[x] = NoLine /\ state'[x] \in Leaves
      BY <1>1, <1>2, <1>6, <2>4, <3>1, <3>14 DEF Calm
    <3>16. QED
      BY <3>8, <3>9, <3>10, <3>12, <3>13, <3>15 DEF Calm
  <2>10. QED
    BY <1>3, <2>5, <2>6, <2>7, <2>8, <2>9, CalmIsNext DEF IInv
<1>7. QED
  BY <1>5, <1>6 DEF Interrupt

LEMMA AcknowledgeKeeps ==
    ASSUME IInv, Acknowledge
    PROVE  IInv'
<1>1. PICK t \in Threads : t = cur /\ duty[t] # NoLine /\ duty[t] \in Lines
  BY DEF Acknowledge, IInv, TypeOK
<1>2. /\ cur' = Nobody
      /\ UNCHANGED <<queue, requests, mark, place, handler, duty, tasks, upset>>
  BY DEF Acknowledge
<1>3. /\ SlotsFit'
      /\ \A x \in Threads : (Listed(x)' <=> Listed(x)) /\ (ListedOnce(x) => ListedOnce(x)')
  BY <1>2, QueueSame DEF IInv
<1>4. RingTypes /\ MaxRequests \in Nat \ {0} /\ \A x \in Threads : x # Nobody
  BY RequestsAssumption, NamesAssumption DEF IInv, TypeOK, RingTypes
<1>5. upset = {} => Calm /\ pos # mark /\ requests[pos] = t
  BY <1>1, CalmIs DEF IInv, Calm
<1>6. CASE requests[pos] # cur
  <2>1. phase' = "halted" /\ UNCHANGED <<pos, state, masked>>
    BY <1>6 DEF Acknowledge
  <2>2. upset' # {}
    BY <1>1, <1>2, <1>5, <1>6
  <2>3. TypeOK'
    BY <1>2, <2>1 DEF TypeOK, IInv, place, Phases
  <2>4. QueuedByState' /\ DriversOnly' /\ RingFilled'
    BY <1>2, <1>3, <2>1 DEF QueuedByState, DriversOnly, RingFilled, IInv
  <2>5. QED
    BY <1>3, <2>2, <2>3, <2>4, CalmIsNext DEF IInv
<1>7. CASE requests[pos] = cur
  <2>1. /\ pos' = (pos + 1) % MaxRequests
        /\ state' = [state EXCEPT ![t] = "irq"]
        /\ masked' = [masked EXCEPT ![duty[t]] = FALSE]
        /\ UNCHANGED phase
    BY <1>1, <1>7 DEF Acknowledge
  <2>2. /\ state' \in [Threads -> States] /\ state'[t] = "irq"
        /\ \A x \in Threads \ {t} : state'[x] = state[x]
    BY <2>1 DEF IInv, TypeOK, States
  <2>3. /\ masked' \in [Lines -> BOOLEAN] /\ masked'[duty[t]] = FALSE
        /\ \A l \in Lines \ {duty[t]} : masked'[l] = masked[l]
    BY <1>1, <2>1 DEF IInv, TypeOK
  <2>4. pos' = IF pos + 1 < MaxRequests THEN pos + 1 ELSE 0
    BY <1>4, <2>1, After DEF RingTypes
  <2>5. TypeOK'
    <3>1. pos' \in 0 .. MaxRequests - 1
      BY <1>4, <2>4 DEF RingTypes
    <3>2. QED
      BY <1>2, <2>1, <2>2, <2>3, <3>1 DEF TypeOK, IInv, place
  <2>6. QueuedByState'
    BY <1>1, <1>2, <1>3, <2>2 DEF QueuedByState, IInv
  <2>7. DriversOnly'
    BY <1>2 DEF DriversOnly, IInv
  <2>8. RingFilled'
    <3>1. requests[pos] \in Threads
      BY <1>1, <1>7
    <3>2. QED
      BY <1>2, <1>4, <2>4, <3>1 DEF RingFilled, RingTypes, IInv
  <2>9. ASSUME upset' = {} PROVE Calm'
    <3>1. Calm /\ upset = {} /\ pos # mark /\ requests[pos] = t
      BY <1>2, <1>5, <2>9
    <3>2. Window' = Window \ {pos} /\ pos \in Window
      BY <1>2, <1>4, <2>1, <3>1, WindowShrinks
    <3>3. InRing(t) /\ \A x \in Threads : InRing(x)' <=> InRing(x) /\ x # t
      BY <1>2, <3>1, <3>2 DEF InRing, Calm
    <3>4. \A k, m \in Window' : requests'[k] = requests'[m] => k = m
      BY <1>2, <3>1, <3>2 DEF Calm
    <3>5. ASSUME NEW x \in Threads, duty'[x] # NoLine
          PROVE  /\ ~Listed(x)'
                 /\ InRing(x)' => state'[x] \in {"running", "asleep"} /\ masked'[duty'[x]]
                 /\ ~InRing(x)' => state'[x] = "irq"
      <4>1. duty[x] = duty'[x] /\ duty[x] \in Lines
        BY <1>2, <3>5 DEF IInv, TypeOK
      <4>2. CASE x = t
        BY <1>3, <2>2, <3>1, <3>3, <4>1, <4>2, <3>5 DEF Calm
      <4>3. CASE x # t
        BY <1>3, <2>2, <2>3, <3>1, <3>3, <3>5, <4>1, <4>3 DEF Calm
      <4>4. QED
        BY <4>2, <4>3
    <3>6. \A k \in Lines, x \in Threads : handler'[k] = x /\ masked'[k] => InRing(x)'
      <4>1. TAKE k \in Lines, x \in Threads
      <4>2. HAVE handler'[k] = x /\ masked'[k]
      <4>3. handler[k] = x /\ k # duty[t]
        BY <1>2, <2>3, <4>2
      <4>4. masked[k] /\ duty[x] = k
        BY <2>3, <4>2, <4>3 DEF IInv, DriversOnly
      <4>5. QED
        BY <3>1, <3>3, <4>3, <4>4 DEF Calm
    <3>7. \A x, u \in Threads : InRing(x)' /\ InRing(u)' /\ duty'[x] = duty'[u] => x = u
      BY <1>2, <3>1, <3>3 DEF Calm
    <3>8. \A x, u \in Threads, k \in Lines :
             handler'[k] = x /\ InRing(u)' /\ duty'[u] = k => x = u
      BY <1>2, <3>1, <3>3 DEF Calm
    <3>9. /\ phase' # "halted"
          /\ \A x \in Threads : cur' # x
          /\ \A x \in tasks' : duty'[x] = NoLine /\ state'[x] \in Leaves
      BY <1>1, <1>2, <1>4, <2>1, <2>2, <3>1 DEF Calm, IInv, TypeOK
    <3>10. QED
      BY <3>4, <3>5, <3>6, <3>7, <3>8, <3>9 DEF Calm
  <2>10. QED
    BY <1>3, <2>5, <2>6, <2>7, <2>8, <2>9, CalmIsNext DEF IInv
<1>8. QED
  BY <1>6, <1>7
-----------------------------------------------------------------------------
LEMMA InitFits == Init => IInv
<1> SUFFICES ASSUME Init PROVE IInv
  OBVIOUS
<1> DEFINE slot == [proc |-> Home[First], threads |-> <<First>>]
<1>1. /\ First \in Threads /\ Home[First] \in Procs /\ MaxRequests \in Nat \ {0}
      /\ \A t \in Threads : t # Nobody
  BY HomeAssumption, TidAssumption, RequestsAssumption, NamesAssumption
<1>2. queue = <<slot>>
  BY DEF Init
<1>3. /\ slot \in Slot /\ slot.proc = Home[First] /\ slot.threads # << >>
      /\ DOMAIN slot.threads = {1} /\ slot.threads[1] = First
  BY <1>1 DEF Slot
<1> HIDE DEF slot
<1>4. queue \in Seq(Slot) /\ DOMAIN queue = {1} /\ queue[1] = slot
  BY <1>2, <1>3
<1>5. SlotsFit
  BY <1>3, <1>4 DEF SlotsFit
<1>6. \A t \in Threads : ListedOnce(t) /\ (Listed(t) <=> t = First)
  BY <1>3, <1>4 DEF ListedOnce, Listed
<1>7. TypeOK
  <2>1. /\ state \in [Threads -> States] /\ handler \in [Lines -> Threads \cup {Nobody}]
        /\ masked \in [Lines -> BOOLEAN] /\ duty \in [Threads -> Lines \cup {NoLine}]
        /\ requests \in [0 .. MaxRequests - 1 -> Threads \cup {Nobody}]
    BY DEF Init, States
  <2>2. /\ pos \in 0 .. MaxRequests - 1 /\ mark \in 0 .. MaxRequests - 1
        /\ slotPos \in Nat /\ threadPos \in Nat /\ ran \in BOOLEAN /\ phase \in Phases
    <3>1. pos = 0 /\ mark = 0 /\ slotPos = 0 /\ threadPos = 0
      BY DEF Init
    <3>2. pos \in 0 .. MaxRequests - 1 /\ mark \in 0 .. MaxRequests - 1
          /\ slotPos \in Nat /\ threadPos \in Nat
      BY <1>1, <3>1
    <3>3. ran \in BOOLEAN /\ phase \in Phases
      BY DEF Init, Phases
    <3>4. QED
      BY <3>2, <3>3
  <2>3. /\ cur \in Threads \cup {Idle, Gc, Nobody} /\ tasks \subseteq Threads
        /\ upset \subseteq Threads
    BY DEF Init
  <2>4. QED
    BY <1>4, <2>1, <2>2, <2>3 DEF TypeOK, Slot
<1>8. QueuedByState
  BY <1>6 DEF Init, QueuedByState, Leaves
<1>9. /\ \A t \in Threads : duty[t] = NoLine
      /\ \A l \in Lines : handler[l] = Nobody
      /\ \A k \in 0 .. MaxRequests - 1 : requests[k] = Nobody
      /\ pos = 0 /\ mark = 0 /\ tasks = {} /\ cur = Nobody /\ phase = "gc"
  BY DEF Init
<1>10. Window = {}
  BY <1>1, <1>9 DEF Window
<1>11. DriversOnly /\ RingFilled /\ RingFits /\ DriversFit /\ LinesFit /\ RunnerFits /\ TasksFit
  BY <1>1, <1>9, <1>10
     DEF DriversOnly, RingFilled, RingFits, DriversFit, LinesFit, RunnerFits, TasksFit, InRing
<1>12. QED
  BY <1>5, <1>7, <1>8, <1>11 DEF IInv

LEMMA SpawnedKept == IInv /\ Spawned /\ [Next]_vars => Spawned'
<1> SUFFICES ASSUME IInv, Spawned, [Next]_vars PROVE Spawned'
  OBVIOUS
<1>1. ASSUME UNCHANGED handler, upset \subseteq upset' PROVE Spawned'
  BY <1>1 DEF Spawned
<1>2. CASE UNCHANGED vars
  BY <1>1, <1>2 DEF vars, irq
<1>3. CASE Turn
  BY <1>1, <1>3 DEF Turn, Schedule, Yield, irq
<1>4. ASSUME NEW t \in Threads,
             NewThread(t) \/ Wake(t) \/ Collect(t)
               \/ \E s \in {"running", "suspended", "finished"} : PeerSet(t, s)
      PROVE  Spawned'
  BY <1>1, <1>4 DEF NewThread, Wake, Collect, PeerSet, Upsets, irq
<1>5. ASSUME NEW t \in Threads, NEW l \in Lines, RequestIrq(t, l) PROVE Spawned'
  <2>1. /\ handler' = [handler EXCEPT ![l] = t]
        /\ upset' = {} => upset = {} /\ ~IsMain(t)
    BY <1>5 DEF RequestIrq, Upsets
  <2>2. QED
    BY <2>1 DEF Spawned, IInv, TypeOK
<1>6. CASE Block \/ Exit \/ Acknowledge
  BY <1>1, <1>6 DEF Block, Exit, Acknowledge, Upsets, irq
<1>7. ASSUME NEW l \in Lines, Interrupt(l) PROVE Spawned'
  BY <1>1, <1>7 DEF Interrupt
<1>8. ASSUME NEW l \in Lines, ReleaseIrq(l) PROVE Spawned'
  <2>1. handler' = [handler EXCEPT ![l] = Nobody] /\ upset' = upset
    BY <1>8 DEF ReleaseIrq
  <2>2. \A t \in Threads : t # Nobody
    BY NamesAssumption
  <2>3. QED
    BY <2>1, <2>2 DEF Spawned, IInv, TypeOK
<1>9. QED
  BY <1>2, <1>3, <1>4, <1>5, <1>6, <1>7, <1>8 DEF Next, Operation

LEMMA NextKeeps == IInv /\ Spawned /\ [Next]_vars => IInv'
<1> SUFFICES ASSUME IInv, Spawned, [Next]_vars PROVE IInv'
  OBVIOUS
<1>1. CASE UNCHANGED vars
  <2>1. UNCHANGED <<queue, ring, place, phase, cur, state, irq, tasks, upset>>
    BY <1>1 DEF vars
  <2>2. Parts'
    BY <2>1, StillKeeps
  <2>3. RunnerFits' /\ TasksFit' /\ TypeOK'
    BY <2>1 DEF RunnerFits, TasksFit, TypeOK, IInv, ring, place, irq
  <2>4. QED
    BY <2>2, <2>3 DEF IInv, Parts
<1>2. CASE Schedule
  BY <1>2, ScheduleKeeps
<1>3. CASE Yield
  BY <1>3, YieldKeeps
<1>4. ASSUME NEW t \in Threads, NewThread(t) PROVE IInv'
  BY <1>4, NewThreadKeeps
<1>5. ASSUME NEW t \in Threads, Wake(t) PROVE IInv'
  BY <1>5, WakeKeeps
<1>6. ASSUME NEW t \in Threads, Collect(t) PROVE IInv'
  BY <1>6, CollectKeeps
<1>7. ASSUME NEW t \in Threads, NEW s \in {"running", "suspended", "finished"}, PeerSet(t, s)
      PROVE  IInv'
  BY <1>7, PeerSetKeeps
<1>8. ASSUME NEW t \in Threads, NEW l \in Lines, RequestIrq(t, l) PROVE IInv'
  BY <1>8, RequestIrqKeeps
<1>9. CASE Block
  BY <1>9, BlockKeeps
<1>10. CASE Exit
  BY <1>10, ExitKeeps
<1>11. CASE Acknowledge
  BY <1>11, AcknowledgeKeeps
<1>12. ASSUME NEW l \in Lines, Interrupt(l) PROVE IInv'
  BY <1>12, InterruptKeeps
<1>13. ASSUME NEW l \in Lines, ReleaseIrq(l) PROVE IInv'
  BY <1>13, ReleaseIrqKeeps
<1>14. QED
  BY <1>1, <1>2, <1>3, <1>4, <1>5, <1>6, <1>7, <1>8, <1>9, <1>10, <1>11, <1>12, <1>13
     DEF Next, Turn, Operation

(* The inductive invariant. *)
THEOREM Invariance == Spec => []IInv
<1>1. Init => IInv /\ Spawned
  <2>1. Init => Spawned
    BY NamesAssumption DEF Init, Spawned
  <2>2. QED
    BY <2>1, InitFits
<1>2. IInv /\ Spawned /\ [Next]_vars => IInv' /\ Spawned'
  BY NextKeeps, SpawnedKept
<1>3. QED
  BY <1>1, <1>2, PTL DEF Spec

(* Every variable has its type; in particular the positions stay within the *)
(* ring of requests, and the queue holds threads only.                      *)
THEOREM TypeCorrect == Spec => []TypeOK
<1>1. IInv => TypeOK
  BY DEF IInv
<1>2. QED
  BY <1>1, Invariance, PTL

(* A thread has as many copies as entries.                                  *)
LEMMA CopiesCounted ==
    ASSUME NEW t \in Threads, ListedOnce(t)
    PROVE  Copies(t) = IF Listed(t) THEN 1 ELSE 0
<1> DEFINE E == {e \in Entries : queue[e[1]].threads[e[2]] = t}
<1>1. \A e : e \in Entries <=>
         \E i \in DOMAIN queue : \E j \in DOMAIN queue[i].threads : e = <<i, j>>
  BY DEF Entries
<1>2. CASE ~Listed(t)
  <2>1. E = {}
    BY <1>1, <1>2 DEF Listed
  <2>2. QED
    BY <1>2, <2>1, FS_EmptySet DEF Copies
<1>3. CASE Listed(t)
  <2>1. PICK i \in DOMAIN queue : \E j \in DOMAIN queue[i].threads : queue[i].threads[j] = t
    BY <1>3 DEF Listed
  <2>2. PICK j \in DOMAIN queue[i].threads : queue[i].threads[j] = t
    BY <2>1
  <2>3. <<i, j>> \in E
    BY <1>1, <2>2
  <2>4. ASSUME NEW e \in E PROVE e = <<i, j>>
    <3>1. PICK k \in DOMAIN queue : \E m \in DOMAIN queue[k].threads : e = <<k, m>>
      BY <1>1
    <3>2. PICK m \in DOMAIN queue[k].threads : e = <<k, m>>
      BY <3>1
    <3>3. queue[k].threads[m] = t
      BY <3>2
    <3>4. k = i /\ m = j
      BY <2>2, <3>3 DEF ListedOnce
    <3>5. QED
      BY <3>2, <3>4
  <2>5. E = {<<i, j>>}
    BY <2>3, <2>4
  <2>6. QED
    BY <1>3, <2>5, FS_Singleton DEF Copies
<1>4. QED
  BY <1>2, <1>3

(* A thread is queued once while it may run and not at all before, after,   *)
(* and while it handles interrupts; what was freed is not requested either, *)
(* and each process with queued threads has one slot.                       *)
THEOREM QueuedByTheirState == Spec => []QueuedOnce
<1>1. ASSUME IInv PROVE QueuedOnce
  <2>1. RingTypes
    BY <1>1 DEF IInv, TypeOK, RingTypes
  <2>2. \A t \in Threads : t \in Pending <=> InRing(t)
    BY <2>1, PendingIs
  <2>3. ASSUME NEW t \in Threads, duty[t] = NoLine
        PROVE  ~InRing(t) /\ t \notin Handlers
    BY <1>1, <2>3, NamesAssumption DEF IInv, DriversOnly, InRing, Window, Handlers
  <2>4. ASSUME NEW t \in Threads \ upset, upset = {} \/ t \notin Drivers
        PROVE  Copies(t) = IF state[t] \in Leaves /\ t \notin Pending THEN 1 ELSE 0
    <3>1. CASE duty[t] = NoLine
      <4>1. ListedOnce(t) /\ (Listed(t) <=> state[t] \in Leaves)
        BY <1>1, <3>1 DEF IInv, QueuedByState
      <4>2. t \notin Pending
        BY <2>2, <2>3, <3>1
      <4>3. QED
        BY <4>1, <4>2, CopiesCounted
    <3>2. CASE duty[t] # NoLine
      <4>1. upset = {}
        BY <2>4, <3>2 DEF Drivers
      <4>2. ~Listed(t) /\ (state[t] \in Leaves => InRing(t))
        BY <1>1, <3>2, <4>1 DEF IInv, DriversFit, Leaves
      <4>3. ListedOnce(t)
        BY <4>2 DEF Listed, ListedOnce
      <4>4. QED
        BY <2>2, <4>2, <4>3, CopiesCounted
    <3>3. QED
      BY <3>1, <3>2
  <2>5. ASSUME NEW t \in Threads, upset = {}, state[t] = "gone"
        PROVE  t \notin Handlers \cup Pending
    <3>1. duty[t] = NoLine
      BY <1>1, <2>5 DEF IInv, DriversFit
    <3>2. QED
      BY <2>2, <2>3, <3>1
  <2>6. QED
    BY <1>1, <2>4, <2>5 DEF QueuedOnce, IInv, SlotsFit
<1>2. QED
  BY <1>1, Invariance, PTL

(* The assertion of sched_ack holds: who acknowledges is the oldest request. *)
THEOREM OldestAcknowledges == Spec => []AcknowledgesHead
<1>1. IInv => AcknowledgesHead
  BY DEF IInv, RunnerFits, AcknowledgesHead
<1>2. QED
  BY <1>1, Invariance, PTL

(* No interrupt is forgotten: a line that has a handler is masked only while *)
(* its request is pending, and with fewer lines than places the ring is     *)
(* never full.                                                              *)
THEOREM RequestsFitLines == Spec => []LinesMatchRequests
<1>1. ASSUME IInv PROVE LinesMatchRequests
  <2> SUFFICES ASSUME upset = {}
               PROVE  /\ \A l \in Lines : handler[l] # Nobody /\ masked[l] => handler[l] \in Pending
                      /\ Count <= Cardinality(MaskedLines)
    BY DEF LinesMatchRequests, Count, MaskedLines
  <2>1. RingTypes
    BY <1>1 DEF IInv, TypeOK, RingTypes
  <2>2. ASSUME NEW l \in Lines, handler[l] # Nobody, masked[l]
        PROVE  handler[l] \in Pending
    <3>1. handler[l] \in Threads
      BY <1>1, <2>2 DEF IInv, TypeOK
    <3>2. InRing(handler[l])
      BY <1>1, <2>2, <3>1 DEF IInv, LinesFit
    <3>3. QED
      BY <2>1, <3>2, PendingIs
  <2>3. QED
    BY <1>1, <2>2, FewRequests
<1>2. QED
  BY <1>1, Invariance, PTL
=============================================================================
