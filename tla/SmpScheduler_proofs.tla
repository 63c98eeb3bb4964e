------------------------ MODULE SmpScheduler_proofs ------------------------
(***************************************************************************)
(* The scheduler of the multiprocessor kernel, for any number of threads,  *)
(* processors and drivers: who runs is queued, the word, the processor and *)
(* the queues agree, and a masked line has a thread that will acknowledge  *)
(* it.                                                                     *)
(***************************************************************************)
EXTENDS SmpScheduler, FiniteSetTheorems, TLAPS

(* A thread is on, or under way to, no queue but its home's, and runs       *)
(* nowhere else.                                                            *)
AtHome ==
    /\ \A c \in CPUs : \A i \in DOMAIN queue[c] : Home(queue[c][i]) = c
    /\ \A c \in CPUs : current[c] # Nobody => Home(current[c]) = c
    /\ \A t \in Threads : cpu[t] \in {Home(t), Nobody}

(* No queue holds a thread twice. *)
Once ==
    \A c \in CPUs : \A i, j \in DOMAIN queue[c] : queue[c][i] = queue[c][j] => i = j

(* Who is in a call has the process checked out, and nobody else has. *)
BusyCalls ==
    \A t \in Threads :
        pc[t] \in Changing \cup {"request", "release", "ack", "yield"} <=> busy = t

(* What a call has found of its target, and done to it, is still so. *)
TargetsFit ==
    \A t, u \in Threads : Target(t) = u =>
        /\ pc[t] \in {"unlist", "await", "unset", "list", "mark"} => u \notin Drivers
        /\ pc[t] \in {"unlist", "await"} => call[t].state = "suspended" /\ cpu[u] # Nobody
        /\ pc[t] = "unset" => call[t].state = "suspended" /\ ~Queued(u)
        /\ pc[t] = "list" => call[t].state = "running" /\ ~Queued(u) /\ cpu[u] = Home(u)
        /\ pc[t] = "mark" =>
             /\ call[t].state = "running" <=> Queued(u)
             /\ cpu[u] = Home(u) <=> Queued(u)
        /\ pc[t] = "request" => u \in Drivers

(* The handler's thread is a driver's, and between the test of its          *)
(* processor and its queueing nobody else has irq_lock.                     *)
HandlerFits ==
    /\ handler \in Drivers \cup {Nobody}
    /\ irq = "queue" =>
         /\ handler # Nobody
         /\ \A t \in Threads : handler = t => cpu[t] = Home(t) /\ ~Queued(t)
         /\ \A t \in Threads : pc[t] \notin {"request", "release", "ack"}

(* Only drivers release a line, acknowledge an interrupt and wait for one.  *)
DriversServe ==
    \A t \in Threads :
        sched[t] \/ pc[t] \in {"release", "ack", "acked", "waiting"} => t \in Drivers

(* As long as no wait was passed over, a driver stays queued until it has    *)
(* waited, the scheduler meets a wait when the thread's run ends, and who    *)
(* has acknowledged and not yet left the queue has the line unmasked, or has *)
(* refused, or the next interrupt has found it there and has halted.         *)
WaitsMet ==
    ~late =>
        /\ \A t \in Drivers : ~Queued(t) =>
              ~sched[t] /\ pc[t] \notin {"release", "ack", "acked"}
        /\ \A t \in Threads : sched[t] => pc[t] = "waiting" /\ current[Home(t)] = t
        /\ \A t \in Threads : handler = t /\ (pc[t] = "acked" \/ sched[t]) =>
              ~masked \/ refused \/ irq = "halted"

(* The properties, of each thread by its name. *)
RunnersQueued ==
    \A c \in CPUs, t \in Threads : running[c] /\ current[c] = t =>
        Queued(t) \/ (Target(t) = t /\ pc[t] \in {"unset", "mark", "yield"})

Agreed ==
    \A t \in Threads : Settled(t) =>
        /\ cpu[t] = Home(t) <=> Queued(t)
        /\ t \notin Drivers \cup {First} => (state[t] = "running" <=> Queued(t))

LineAnswered ==
    \A t \in Threads :
        masked /\ handler = t /\ irq = "none" => Queued(t) \/ refused \/ late

(* An empty queue will be read at its first place. *)
EmptyAtZero == \A c \in CPUs : queue[c] = << >> => position[c] = 0

IInv ==
    /\ TypeOK /\ AtHome /\ Once /\ EmptyAtZero /\ BusyCalls /\ TargetsFit
    /\ HandlerFits /\ DriversServe /\ WaitsMet
    /\ RunnersQueued /\ Agreed /\ LineAnswered
    /\ failed \subseteq Drivers \cup {First}
-----------------------------------------------------------------------------
(* Every thread has a processor. *)
LEMMA HomeIsCPU ==
    /\ \A t \in Threads : Home(t) \in CPUs
    /\ First \in Threads
    /\ Nobody \notin Threads /\ Nobody \notin CPUs /\ Drivers \subseteq Threads
    /\ 0 \in CPUs
<1> DEFINE n == Cardinality(CPUs)
<1>1. n \in Nat /\ n # 0 /\ Cardinality(Threads) \in Nat
  BY NamesAssumption, FS_CardinalityType, FS_EmptySet
<1> HIDE DEF n
<1>2. ASSUME NEW t \in Int PROVE (t - 1) % n \in 0..(n - 1)
  BY <1>1
<1>3. CPUs = 0..(n - 1)
  BY NamesAssumption DEF n
<1>4. \A t \in Threads : Home(t) \in CPUs
  <2>1. ASSUME NEW t \in Threads PROVE t \in Int
    BY <1>1, NamesAssumption
  <2>2. QED
    BY <1>2, <1>3, <2>1 DEF Home, n
<1>5. First \in Threads
  BY <1>1, NamesAssumption DEF First
<1>6. QED
  BY <1>1, <1>3, <1>4, <1>5, NamesAssumption

(* The position that a removal leaves lies within the rest of the queue. *)
LEMMA BackIn ==
    ASSUME NEW p \in Nat, NEW n \in Nat
    PROVE  Back(p, n) \in Nat /\ (n # 0 => Back(p, n) < n) /\ (n = 0 => Back(p, n) = 0)
<1>1. CASE n = 0
  <2>1. ~(n > 0)
    BY <1>1
  <2>2. QED
    BY SMT, <1>1, <2>1 DEF Back
<1>2. CASE n # 0 /\ p = 0
  <2>1. 65536 % n \in Nat
    BY <1>2
  <2> DEFINE k == (65536 % n) * (65536 % n) + n - 1
  <2>2. k \in Int
    BY <2>1
  <2>3. Back(p, n) = k % n
    BY <1>2 DEF Back
  <2> HIDE DEF k
  <2>4. QED
    BY <1>2, <2>2, <2>3
<1>3. CASE n # 0 /\ p # 0
  <2>1. Back(p, n) = (p - 1) % n
    BY <1>3 DEF Back
  <2>2. QED
    BY <1>3, <2>1
<1>4. QED
  BY <1>1, <1>2, <1>3

(* Two sequences, one behind the other. *)
LEMMA Joined ==
    ASSUME NEW S, NEW a \in Seq(S), NEW b \in Seq(S)
    PROVE  /\ a \o b \in Seq(S) /\ Len(a \o b) = Len(a) + Len(b)
           /\ \A j \in 1..(Len(a) + Len(b)) :
                 (a \o b)[j] = IF j <= Len(a) THEN a[j] ELSE b[j - Len(a)]
OBVIOUS

(* A queue without one of its elements. *)
LEMMA WithoutSeq ==
    ASSUME NEW S, NEW s \in Seq(S), NEW i \in 1..Len(s)
    PROVE  /\ Without(s, i) \in Seq(S)
           /\ Len(Without(s, i)) = Len(s) - 1
           /\ \A j \in 1..(Len(s) - 1) :
                 Without(s, i)[j] = IF j < i THEN s[j] ELSE s[j + 1]
<1> DEFINE a == SubSeq(s, 1, i - 1)  b == SubSeq(s, i + 1, Len(s))
<1>1. /\ a \in Seq(S) /\ Len(a) = i - 1
      /\ \A j \in 1..(i - 1) : a[j] = s[j]
  OBVIOUS
<1>2. /\ b \in Seq(S) /\ Len(b) = Len(s) - i
      /\ \A j \in 1..(Len(s) - i) : b[j] = s[i + j]
  OBVIOUS
<1>3. Without(s, i) = a \o b
  BY DEF Without
<1> HIDE DEF a, b
<1>4. /\ a \o b \in Seq(S) /\ Len(a \o b) = Len(a) + Len(b)
      /\ \A j \in 1..(Len(a) + Len(b)) :
            (a \o b)[j] = IF j <= Len(a) THEN a[j] ELSE b[j - Len(a)]
  BY <1>1, <1>2, Joined
<1>5. Len(s) \in Nat /\ i \in 1..Len(s)
  OBVIOUS
<1>6. ASSUME NEW j \in 1..(Len(s) - 1)
      PROVE  (a \o b)[j] = IF j < i THEN s[j] ELSE s[j + 1]
  <2>1. CASE j < i
    BY <1>1, <1>2, <1>4, <1>5, <2>1
  <2>2. CASE ~(j < i)
    <3>1. /\ j - (i - 1) \in 1..(Len(s) - i) /\ i + (j - (i - 1)) = j + 1
          /\ j \in 1..(Len(a) + Len(b)) /\ ~(j <= Len(a))
      BY <1>1, <1>2, <1>5, <2>2
    <3>2. QED
      BY <1>1, <1>2, <1>4, <2>2, <3>1
  <2>3. QED
    BY <2>1, <2>2
<1>7. QED
  BY <1>1, <1>2, <1>3, <1>4, <1>5, <1>6

LEMMA EmptyLength ==
    ASSUME NEW S, NEW s \in Seq(S)
    PROVE  Len(s) \in Nat /\ (s = << >> <=> Len(s) = 0)
OBVIOUS

(* What a removal from a queue, *)
LEMMA Removal ==
    ASSUME TypeOK, AtHome, Once, NEW c \in CPUs, NEW i \in 1..Len(queue[c]),
           queue' = [queue EXCEPT ![c] = Without(@, i)]
    PROVE  /\ queue' \in [CPUs -> Seq(Threads)]
           /\ Len(queue'[c]) = Len(queue[c]) - 1
           /\ \A d \in CPUs : \A j \in DOMAIN queue'[d] : Home(queue'[d][j]) = d
           /\ Once'
           /\ \A x \in Threads : Queued(x)' <=> Queued(x) /\ x # queue[c][i]
           /\ queue[c][i] \in Threads /\ Home(queue[c][i]) = c
<1> DEFINE q == queue[c]
<1>1. q \in Seq(Threads) /\ \A d \in CPUs : queue[d] \in Seq(Threads)
  BY DEF TypeOK
<1>2. /\ queue'[c] = Without(q, i)
      /\ \A d \in CPUs : d # c => queue'[d] = queue[d]
      /\ queue' = [d \in CPUs |-> IF d = c THEN Without(q, i) ELSE queue[d]]
  BY DEF TypeOK
<1>3. /\ queue'[c] \in Seq(Threads)
      /\ Len(queue'[c]) = Len(q) - 1
      /\ \A j \in 1..(Len(q) - 1) :
            queue'[c][j] = IF j < i THEN q[j] ELSE q[j + 1]
  BY <1>1, <1>2, WithoutSeq
<1>4. queue' \in [CPUs -> Seq(Threads)]
  BY <1>1, <1>2, <1>3
<1>5. /\ DOMAIN q = 1..Len(q) /\ DOMAIN queue'[c] = 1..(Len(q) - 1)
      /\ Len(q) \in Nat /\ i \in 1..Len(q)
  BY <1>1, <1>3
<1>6. q[i] \in Threads /\ Home(q[i]) = c
  BY <1>1, <1>5 DEF AtHome
<1>7. \A d \in CPUs : \A j \in DOMAIN queue'[d] : Home(queue'[d][j]) = d
  BY <1>2, <1>3, <1>5 DEF AtHome
<1>8. Once'
  <2>1. ASSUME NEW j \in DOMAIN queue'[c], NEW k \in DOMAIN queue'[c], queue'[c][j] = queue'[c][k]
        PROVE  j = k
    BY <1>3, <1>5, <2>1 DEF Once
  <2>2. ASSUME NEW d \in CPUs, d # c PROVE queue'[d] = queue[d]
    BY <1>2, <2>2
  <2>3. QED
    BY <2>1, <2>2 DEF Once
<1>9. ASSUME NEW x \in Threads PROVE Queued(x)' <=> Queued(x) /\ x # q[i]
  <2>1. CASE Home(x) = c
    <3>1. Queued(x) <=> \E j \in 1..Len(q) : q[j] = x
      BY <2>1, <1>5 DEF Queued
    <3>2. Queued(x)' <=> \E j \in 1..(Len(q) - 1) : queue'[c][j] = x
      BY <2>1, <1>5 DEF Queued
    <3>3. ASSUME NEW j \in 1..Len(q), q[j] = x, x # q[i] PROVE Queued(x)'
      <4>1. CASE j < i
        BY <4>1, <3>2, <3>3, <1>3, <1>5
      <4>2. CASE j > i
        <5>1. j - 1 \in 1..(Len(q) - 1) /\ ~(j - 1 < i) /\ (j - 1) + 1 = j
          BY <4>2, <1>5
        <5>2. queue'[c][j - 1] = x
          BY <5>1, <3>3, <1>3
        <5>3. QED
          BY <5>1, <5>2, <3>2
      <4>3. QED
        BY <4>1, <4>2, <3>3, <1>5
    <3>4. ASSUME NEW j \in 1..(Len(q) - 1), queue'[c][j] = x PROVE Queued(x) /\ x # q[i]
      <4>1. PICK k \in 1..Len(q) : q[k] = x /\ k # i
        BY <3>4, <1>3, <1>5
      <4>2. q[k] # q[i]
        BY <4>1, <1>5 DEF Once
      <4>3. QED
        BY <4>1, <4>2, <3>1
    <3>5. QED
      BY <3>1, <3>2, <3>3, <3>4
  <2>2. CASE Home(x) # c
    BY <2>2, <1>2, <1>6, HomeIsCPU DEF Queued
  <2>3. QED
    BY <2>1, <2>2
<1>10. QED
  BY <1>3, <1>4, <1>6, <1>7, <1>8, <1>9

(* and what an addition at the end of one does. *)
LEMMA Addition ==
    ASSUME TypeOK, AtHome, Once, NEW u \in Threads, ~Queued(u),
           queue' = [queue EXCEPT ![Home(u)] = Append(@, u)]
    PROVE  /\ queue' \in [CPUs -> Seq(Threads)]
           /\ \A d \in CPUs : Len(queue'[d]) >= Len(queue[d])
           /\ \A d \in CPUs : queue[d] # << >> => queue'[d] # << >>
           /\ \A d \in CPUs : \A j \in DOMAIN queue'[d] : Home(queue'[d][j]) = d
           /\ Once'
           /\ \A x \in Threads : Queued(x)' <=> Queued(x) \/ x = u
<1> DEFINE c == Home(u)  q == queue[c]
<1>0. c \in CPUs
  BY HomeIsCPU
<1>1. q \in Seq(Threads) /\ \A d \in CPUs : queue[d] \in Seq(Threads)
  BY <1>0 DEF TypeOK
<1>2. /\ queue'[c] = Append(q, u)
      /\ \A d \in CPUs : d # c => queue'[d] = queue[d]
      /\ queue' = [d \in CPUs |-> IF d = c THEN Append(q, u) ELSE queue[d]]
  BY <1>0 DEF TypeOK
<1>3. /\ queue'[c] \in Seq(Threads)
      /\ Len(queue'[c]) = Len(q) + 1
      /\ \A j \in 1..Len(q) : queue'[c][j] = q[j]
      /\ queue'[c][Len(q) + 1] = u
  BY <1>1, <1>2
<1>4. queue' \in [CPUs -> Seq(Threads)]
  BY <1>1, <1>2, <1>3
<1>5. /\ DOMAIN q = 1..Len(q) /\ DOMAIN queue'[c] = 1..(Len(q) + 1)
      /\ Len(q) \in Nat
  BY <1>1, <1>3
<1>6. \A j \in 1..Len(q) : q[j] # u
  BY <1>5 DEF Queued
<1> HIDE DEF c
<1>7. \A d \in CPUs : \A j \in DOMAIN queue'[d] : Home(queue'[d][j]) = d
  BY <1>2, <1>3, <1>5 DEF AtHome, c
<1>8. Once'
  <2>1. ASSUME NEW j \in DOMAIN queue'[c], NEW k \in DOMAIN queue'[c], queue'[c][j] = queue'[c][k]
        PROVE  j = k
    BY <1>0, <1>3, <1>5, <1>6, <2>1 DEF Once
  <2>2. ASSUME NEW d \in CPUs, d # c PROVE queue'[d] = queue[d]
    BY <1>2, <2>2
  <2>3. ASSUME NEW d \in CPUs, d # c, NEW j \in DOMAIN queue'[d], NEW k \in DOMAIN queue'[d],
               queue'[d][j] = queue'[d][k]
        PROVE  j = k
    <3>1. queue'[d] = queue[d]
      BY <2>2, <2>3
    <3>2. QED
      BY <2>3, <3>1 DEF Once
  <2>4. QED
    BY <2>1, <2>3 DEF Once
<1>9. ASSUME NEW x \in Threads PROVE Queued(x)' <=> Queued(x) \/ x = u
  <2>1. CASE Home(x) = c
    <3>1. Queued(x) <=> \E j \in 1..Len(q) : q[j] = x
      BY <2>1, <1>5 DEF Queued
    <3>2. Queued(x)' <=> \E j \in 1..(Len(q) + 1) : queue'[c][j] = x
      BY <2>1, <1>5 DEF Queued
    <3>3. QED
      BY <3>1, <3>2, <1>3, <1>5
  <2>2. CASE Home(x) # c
    BY <2>2, <1>2, HomeIsCPU DEF Queued, c
  <2>3. QED
    BY <2>1, <2>2
<1>10. \A d \in CPUs : Len(queue'[d]) >= Len(queue[d]) /\ (queue[d] # << >> => queue'[d] # << >>)
  <2>1. ASSUME NEW d \in CPUs PROVE Len(queue[d]) \in Nat
    BY <1>1
  <2>2. QED
    BY <1>1, <1>2, <1>3, <1>5, <2>1
<1>11. QED
  BY <1>3, <1>4, <1>7, <1>8, <1>9, <1>10
(* The types of all but the queues. *)
Typed ==
    /\ current \in [CPUs -> Threads \cup {Nobody}] /\ running \in [CPUs -> BOOLEAN]
    /\ state \in [Threads -> {"suspended", "running", "irq"}]
    /\ cpu \in [Threads -> CPUs \cup {Nobody}] /\ sched \in [Threads -> BOOLEAN]
    /\ pc \in [Threads -> Changing \cup {"user", "yield", "request", "release",
                                        "ack", "acked", "waiting"}]
    /\ call \in [Threads -> [target : Threads, state : {"suspended", "running"}]]
    /\ busy \in Threads \cup {Nobody} /\ handler \in Threads \cup {Nobody}

(* What one step after another keeps. *)
LEMMA LockKeeps ==
    ASSUME IInv, NEW t \in Threads, Lock(t)
    PROVE  IInv'
<1>1. TypeOK /\ AtHome /\ Once /\ BusyCalls /\ TargetsFit /\ HandlerFits
      /\ DriversServe /\ WaitsMet /\ RunnersQueued /\ Agreed /\ LineAnswered /\ EmptyAtZero
      /\ failed \subseteq Drivers \cup {First}
  BY DEF IInv
<1>2. \A x \in Threads : Queued(x)' <=> Queued(x)
  BY DEF Queued, Lock, scheduler
<1>3. Typed
  BY <1>1 DEF TypeOK, Typed
<1>4. \A x \in Threads \ {t} :
        /\ pc[x] \notin {"unlist", "await", "unset", "list", "mark", "request", "release", "ack"}
        /\ pc'[x] = pc[x] /\ call'[x] = call[x]
  BY <1>1, <1>3 DEF Lock, Goto, BusyCalls, Typed
<1>a. TypeOK'
  <2>1. Typed'
    BY <1>3 DEF Lock, Goto, scheduler, thread, line, Typed, Changing
  <2>2. QED
    BY <1>1, <2>1 DEF Lock, scheduler, line, history, TypeOK, Typed
<1>b. AtHome'
  BY <1>1 DEF Lock, scheduler, thread, AtHome
<1>c. Once'
  BY <1>1 DEF Lock, scheduler, Once
<1>d. BusyCalls'
  BY <1>1 DEF Lock, Goto, BusyCalls, Changing
<1>e. TargetsFit'
  <2>1. ASSUME NEW u \in Threads, Target(t)' = u
        PROVE  /\ pc'[t] \in {"unlist", "await", "unset", "list", "mark"} => u \notin Drivers
               /\ pc'[t] \in {"unlist", "await"} => call'[t].state = "suspended" /\ cpu'[u] # Nobody
               /\ pc'[t] = "unset" => call'[t].state = "suspended" /\ ~Queued(u)'
               /\ pc'[t] = "list" => call'[t].state = "running" /\ ~Queued(u)' /\ cpu'[u] = Home(u)
               /\ pc'[t] = "mark" =>
                    /\ call'[t].state = "running" <=> Queued(u)'
                    /\ cpu'[u] = Home(u) <=> Queued(u)'
               /\ pc'[t] = "request" => u \in Drivers
    BY <1>1, <2>1 DEF Lock, Goto, thread, TargetsFit, Target
  <2>2. QED
    BY <1>4, <2>1 DEF TargetsFit
<1>f. HandlerFits'
  BY <1>1, <1>2 DEF Lock, Goto, thread, line, HandlerFits
<1>g. DriversServe'
  BY <1>1 DEF Lock, Goto, thread, DriversServe
<1>h. WaitsMet'
  BY <1>1, <1>2, HomeIsCPU DEF Lock, Goto, scheduler, thread, line, history,
     WaitsMet
<1>i. RunnersQueued'
  BY <1>1, <1>2, <1>4 DEF Lock, scheduler, RunnersQueued, Target
<1>j. Agreed'
  BY <1>1, <1>2, <1>4 DEF Lock, thread, line, Agreed, Settled
<1>k. LineAnswered'
  BY <1>1, <1>2 DEF Lock, line, history, LineAnswered
<1>l. EmptyAtZero'
  BY <1>1 DEF Lock, scheduler, EmptyAtZero
<1>m. (failed \subseteq Drivers \cup {First})'
  BY <1>1 DEF Lock, history
<1>z. QED
  BY <1>a, <1>b, <1>c, <1>d, <1>e, <1>f, <1>g, <1>h, <1>i, <1>j, <1>k, <1>l,
     <1>m DEF IInv

LEMMA UnsetKeeps ==
    ASSUME IInv, NEW t \in Threads, Unset(t)
    PROVE  IInv'
<1>1. TypeOK /\ AtHome /\ Once /\ BusyCalls /\ TargetsFit /\ HandlerFits
      /\ DriversServe /\ WaitsMet /\ RunnersQueued /\ Agreed /\ LineAnswered /\ EmptyAtZero
      /\ failed \subseteq Drivers \cup {First}
  BY DEF IInv
<1>2. \A x \in Threads : Queued(x)' <=> Queued(x)
  BY DEF Queued, Unset, scheduler
<1>3. Typed
  BY <1>1 DEF TypeOK, Typed
<1>4. \A x \in Threads \ {t} :
        /\ pc[x] \notin {"unlist", "await", "unset", "list", "mark", "request", "release", "ack"}
        /\ pc'[x] = pc[x] /\ call'[x] = call[x]
  BY <1>1, <1>3 DEF Unset, Goto, BusyCalls, Typed
<1>a. TypeOK'
  <2>1. Typed'
    BY <1>3 DEF Unset, Goto, scheduler, line, Typed, Changing
  <2>2. QED
    BY <1>1, <2>1 DEF Unset, scheduler, line, history, TypeOK, Typed
<1>b. AtHome'
  BY <1>1 DEF Unset, scheduler, AtHome
<1>c. Once'
  BY <1>1 DEF Unset, scheduler, Once
<1>d. BusyCalls'
  BY <1>1 DEF Unset, Goto, BusyCalls, Changing
<1>e. TargetsFit'
  <2>1. ASSUME NEW u \in Threads, Target(t)' = u
        PROVE  /\ pc'[t] \in {"unlist", "await", "unset", "list", "mark"} => u \notin Drivers
               /\ pc'[t] \in {"unlist", "await"} => call'[t].state = "suspended" /\ cpu'[u] # Nobody
               /\ pc'[t] = "unset" => call'[t].state = "suspended" /\ ~Queued(u)'
               /\ pc'[t] = "list" => call'[t].state = "running" /\ ~Queued(u)' /\ cpu'[u] = Home(u)
               /\ pc'[t] = "mark" =>
                    /\ call'[t].state = "running" <=> Queued(u)'
                    /\ cpu'[u] = Home(u) <=> Queued(u)'
               /\ pc'[t] = "request" => u \in Drivers
    BY <1>1, <1>2, <1>3, <2>1, HomeIsCPU DEF Unset, Goto, TargetsFit, Target,
       Typed
  <2>2. QED
    BY <1>4, <2>1 DEF TargetsFit
<1>f. HandlerFits'
  <2>1. Target(t) \notin Drivers
    BY <1>1, <1>3 DEF Unset, TargetsFit, Target, Typed
  <2>2. \A x \in Drivers : cpu'[x] = cpu[x]
    BY <2>1 DEF Unset
  <2>3. QED
    BY <1>1, <1>2, <2>2 DEF Unset, Goto, line, HandlerFits
<1>g. DriversServe'
  BY <1>1 DEF Unset, Goto, DriversServe
<1>h. WaitsMet'
  BY <1>1, <1>2, HomeIsCPU DEF Unset, Goto, scheduler, line, history, WaitsMet
<1>i. RunnersQueued'
  BY <1>1, <1>2 DEF Unset, Goto, scheduler, RunnersQueued, Target
<1>j. Agreed'
  BY <1>1, <1>2 DEF Unset, Goto, line, Agreed, Settled, Target
<1>k. LineAnswered'
  BY <1>1, <1>2 DEF Unset, line, history, LineAnswered
<1>l. EmptyAtZero'
  BY <1>1 DEF Unset, scheduler, EmptyAtZero
<1>m. (failed \subseteq Drivers \cup {First})'
  BY <1>1 DEF Unset, history
<1>z. QED
  BY <1>a, <1>b, <1>c, <1>d, <1>e, <1>f, <1>g, <1>h, <1>i, <1>j, <1>k, <1>l,
     <1>m DEF IInv

LEMMA MarkKeeps ==
    ASSUME IInv, NEW t \in Threads, Mark(t)
    PROVE  IInv'
<1>1. TypeOK /\ AtHome /\ Once /\ BusyCalls /\ TargetsFit /\ HandlerFits
      /\ DriversServe /\ WaitsMet /\ RunnersQueued /\ Agreed /\ LineAnswered /\ EmptyAtZero
      /\ failed \subseteq Drivers \cup {First}
  BY DEF IInv
<1>2. \A x \in Threads : Queued(x)' <=> Queued(x)
  BY DEF Queued, Mark, scheduler
<1>3. Typed
  BY <1>1 DEF TypeOK, Typed
<1>4. \A x \in Threads \ {t} :
        /\ pc[x] \notin {"unlist", "await", "unset", "list", "mark", "request", "release", "ack"}
        /\ pc'[x] = pc[x] /\ call'[x] = call[x]
  BY <1>1, <1>3 DEF Mark, Goto, Forget, BusyCalls, Typed
<1>5. call[t].target \in Threads /\ call[t].state \in {"suspended", "running"}
  BY <1>3 DEF Typed
<1>a. TypeOK'
  <2>1. Typed'
    BY <1>3 DEF Mark, Goto, Forget, scheduler, line, Typed
  <2>2. QED
    BY <1>1 DEF Mark, Goto, Forget, scheduler, line, history, TypeOK
<1>b. AtHome'
  BY <1>1 DEF Mark, scheduler, AtHome
<1>c. Once'
  BY <1>1 DEF Mark, scheduler, Once
<1>d. BusyCalls'
  BY <1>1, HomeIsCPU, <1>3 DEF Mark, Goto, BusyCalls, Typed, Changing
<1>e. TargetsFit'
  <2>1. ASSUME NEW u \in Threads, Target(t)' = u
        PROVE  /\ pc'[t] \in {"unlist", "await", "unset", "list", "mark"} => u \notin Drivers
               /\ pc'[t] \in {"unlist", "await"} => call'[t].state = "suspended" /\ cpu'[u] # Nobody
               /\ pc'[t] = "unset" => call'[t].state = "suspended" /\ ~Queued(u)'
               /\ pc'[t] = "list" => call'[t].state = "running" /\ ~Queued(u)' /\ cpu'[u] = Home(u)
               /\ pc'[t] = "mark" =>
                    /\ call'[t].state = "running" <=> Queued(u)'
                    /\ cpu'[u] = Home(u) <=> Queued(u)'
               /\ pc'[t] = "request" => u \in Drivers
    BY <1>3 DEF Mark, Goto, Typed
  <2>2. QED
    BY <1>4, <2>1 DEF TargetsFit
<1>f. HandlerFits'
  BY <1>1, <1>2, <1>3 DEF Mark, Goto, line, HandlerFits, Typed
<1>g. DriversServe'
  BY <1>1, <1>3 DEF Mark, Goto, DriversServe, Typed
<1>h. WaitsMet'
  BY <1>1, <1>2, HomeIsCPU, <1>3 DEF Mark, Goto, scheduler, line, history,
     WaitsMet, Typed
<1>i. RunnersQueued'
  BY <1>1, <1>2, <1>3 DEF Mark, Goto, Forget, Target, scheduler,
     RunnersQueued, Typed
<1>j. Agreed'
  <2>1. ASSUME NEW x \in Threads, x # Target(t), Settled(x)' PROVE Settled(x)
    BY <1>4, <2>1 DEF Settled, Mark, line
  <2>2. ASSUME NEW x \in Threads, x # Target(t), Settled(x)
        PROVE  /\ cpu'[x] = Home(x) <=> Queued(x)'
               /\ x \notin Drivers \cup {First} => (state'[x] = "running" <=> Queued(x)')
    BY <1>1, <1>2, <2>2 DEF Mark, Agreed
  <2>3. ASSUME NEW x \in Threads, x = Target(t)
        PROVE  /\ cpu'[x] = Home(x) <=> Queued(x)'
               /\ state'[x] = "running" <=> Queued(x)'
    BY <1>1, <1>2, <1>3, <2>3 DEF Mark, TargetsFit, Typed
  <2>4. QED
    BY <2>1, <2>2, <2>3 DEF Agreed
<1>k. LineAnswered'
  BY <1>1, <1>2 DEF Mark, line, history, LineAnswered
<1>l. EmptyAtZero'
  BY <1>1 DEF Mark, scheduler, EmptyAtZero
<1>m. (failed \subseteq Drivers \cup {First})'
  BY <1>1 DEF Mark, history
<1>z. QED
  BY <1>a, <1>b, <1>c, <1>d, <1>e, <1>f, <1>g, <1>h, <1>i, <1>j, <1>k, <1>l,
     <1>m DEF IInv

LEMMA LockIrqKeeps ==
    ASSUME IInv, NEW t \in Threads, LockIrq(t)
    PROVE  IInv'
<1>1. TypeOK /\ AtHome /\ Once /\ BusyCalls /\ TargetsFit /\ HandlerFits
      /\ DriversServe /\ WaitsMet /\ RunnersQueued /\ Agreed /\ LineAnswered /\ EmptyAtZero
      /\ failed \subseteq Drivers \cup {First}
  BY DEF IInv
<1>2. \A x \in Threads : Queued(x)' <=> Queued(x)
  BY DEF Queued, LockIrq, scheduler
<1>3. Typed
  BY <1>1 DEF TypeOK, Typed
<1>4. \A x \in Threads \ {t} :
        /\ pc[x] \notin {"unlist", "await", "unset", "list", "mark", "request", "release", "ack"}
        /\ pc'[x] = pc[x] /\ call'[x] = call[x]
  <2>1. \A x \in Threads \ {t} : pc'[x] = pc[x] /\ call'[x] = call[x]
    BY <1>3 DEF LockIrq, Goto, Typed
  <2>2. QED
    BY <1>1, <2>1, HomeIsCPU DEF LockIrq, BusyCalls, Changing
<1>a. TypeOK'
  <2>1. Typed'
    <3>1. call' \in [Threads -> [target : Threads, state : {"suspended", "running"}]]
      <4>1. CASE UNCHANGED call
        BY <1>3, <4>1 DEF Typed
      <4>2. ASSUME NEW d \in Threads, call' = [call EXCEPT ![t].target = d]
            PROVE  call' \in [Threads -> [target : Threads, state : {"suspended", "running"}]]
        BY <1>3, <4>2 DEF Typed
      <4>3. QED
        BY <4>1, <4>2, HomeIsCPU DEF LockIrq
    <3>2. QED
      BY <1>3, <3>1 DEF LockIrq, Goto, scheduler, thread, line, Typed
  <2>2. QED
    BY <1>1, <2>1 DEF LockIrq, scheduler, line, history, TypeOK, Typed
<1>b. AtHome'
  BY <1>1 DEF LockIrq, scheduler, thread, AtHome
<1>c. Once'
  BY <1>1 DEF LockIrq, scheduler, Once
<1>d. BusyCalls'
  BY <1>1, HomeIsCPU, <1>3 DEF LockIrq, Goto, BusyCalls, Typed
<1>e. TargetsFit'
  <2>1. ASSUME NEW u \in Threads, Target(t)' = u
        PROVE  /\ pc'[t] \in {"unlist", "await", "unset", "list", "mark"} => u \notin Drivers
               /\ pc'[t] \in {"unlist", "await"} => call'[t].state = "suspended" /\ cpu'[u] # Nobody
               /\ pc'[t] = "unset" => call'[t].state = "suspended" /\ ~Queued(u)'
               /\ pc'[t] = "list" => call'[t].state = "running" /\ ~Queued(u)' /\ cpu'[u] = Home(u)
               /\ pc'[t] = "mark" =>
                    /\ call'[t].state = "running" <=> Queued(u)'
                    /\ cpu'[u] = Home(u) <=> Queued(u)'
               /\ pc'[t] = "request" => u \in Drivers
    BY <1>3, <2>1 DEF LockIrq, Goto, Target, Typed
  <2>2. QED
    BY <1>4, <2>1 DEF TargetsFit
<1>f. HandlerFits'
  BY <1>1 DEF LockIrq, IrqHeld, line, HandlerFits
<1>g. DriversServe'
  BY <1>1, <1>3 DEF LockIrq, Goto, thread, DriversServe, Typed
<1>h. WaitsMet'
  BY <1>1, <1>2, HomeIsCPU, <1>3 DEF LockIrq, Goto, scheduler, thread, line,
     history, WaitsMet, Typed, RunnersQueued, OnCPU
<1>i. RunnersQueued'
  BY <1>1, <1>2, <1>4 DEF LockIrq, scheduler, RunnersQueued, Target
<1>j. Agreed'
  BY <1>1, <1>2, <1>4 DEF LockIrq, IrqHeld, thread, Agreed, Settled
<1>k. LineAnswered'
  BY <1>1, <1>2 DEF LockIrq, line, history, LineAnswered
<1>l. EmptyAtZero'
  BY <1>1 DEF LockIrq, scheduler, EmptyAtZero
<1>m. (failed \subseteq Drivers \cup {First})'
  BY <1>1 DEF LockIrq, history
<1>z. QED
  BY <1>a, <1>b, <1>c, <1>d, <1>e, <1>f, <1>g, <1>h, <1>i, <1>j, <1>k, <1>l,
     <1>m DEF IInv

LEMMA RequestKeeps ==
    ASSUME IInv, NEW t \in Threads, Request(t)
    PROVE  IInv'
<1>1. TypeOK /\ AtHome /\ Once /\ BusyCalls /\ TargetsFit /\ HandlerFits
      /\ DriversServe /\ WaitsMet /\ RunnersQueued /\ Agreed /\ LineAnswered /\ EmptyAtZero
      /\ failed \subseteq Drivers \cup {First}
  BY DEF IInv
<1>2. \A x \in Threads : Queued(x)' <=> Queued(x)
  BY DEF Queued, Request, scheduler
<1>3. Typed
  BY <1>1 DEF TypeOK, Typed
<1>4. \A x \in Threads \ {t} :
        /\ pc[x] \notin {"unlist", "await", "unset", "list", "mark", "request", "release", "ack"}
        /\ pc'[x] = pc[x] /\ call'[x] = call[x]
  BY <1>1, <1>3 DEF Request, Goto, Forget, BusyCalls, Typed
<1>5. call[t].target \in Drivers /\ call[t].target \in Threads /\ irq # "queue"
  BY <1>1, <1>3 DEF Typed, TargetsFit, Target, Request, HandlerFits
<1>a. TypeOK'
  <2>1. Typed'
    BY <1>3 DEF Request, Goto, Forget, Target, scheduler, Typed
  <2>2. QED
    BY <1>1, <2>1 DEF Request, scheduler, history, TypeOK, Typed
<1>b. AtHome'
  BY <1>1 DEF Request, scheduler, AtHome
<1>c. Once'
  BY <1>1 DEF Request, scheduler, Once
<1>d. BusyCalls'
  BY <1>1, HomeIsCPU, <1>3 DEF Request, Goto, BusyCalls, Typed, Changing
<1>e. TargetsFit'
  <2>1. ASSUME NEW u \in Threads, Target(t)' = u
        PROVE  /\ pc'[t] \in {"unlist", "await", "unset", "list", "mark"} => u \notin Drivers
               /\ pc'[t] \in {"unlist", "await"} => call'[t].state = "suspended" /\ cpu'[u] # Nobody
               /\ pc'[t] = "unset" => call'[t].state = "suspended" /\ ~Queued(u)'
               /\ pc'[t] = "list" => call'[t].state = "running" /\ ~Queued(u)' /\ cpu'[u] = Home(u)
               /\ pc'[t] = "mark" =>
                    /\ call'[t].state = "running" <=> Queued(u)'
                    /\ cpu'[u] = Home(u) <=> Queued(u)'
               /\ pc'[t] = "request" => u \in Drivers
    BY <1>3 DEF Request, Goto, Typed
  <2>2. QED
    BY <1>4, <2>1 DEF TargetsFit
<1>f. HandlerFits'
  BY <1>1, <1>5 DEF Request, Target, HandlerFits
<1>g. DriversServe'
  BY <1>1 DEF Request, Goto, DriversServe
<1>h. WaitsMet'
  BY <1>1, <1>2, HomeIsCPU DEF Request, Goto, scheduler, history, WaitsMet
<1>i. RunnersQueued'
  BY <1>1, <1>2, <1>4 DEF Request, Target, scheduler, RunnersQueued
<1>j. Agreed'
  <2>1. ASSUME NEW x \in Threads, Settled(x)' PROVE Settled(x)
    BY <1>4, <1>5 DEF Settled, Request
  <2>2. QED
    BY <1>1, <1>2, <1>3, <1>5, <2>1 DEF Request, Agreed, Typed, Target
<1>k. LineAnswered'
  BY <1>1, <1>2 DEF Request, history, LineAnswered
<1>l. EmptyAtZero'
  BY <1>1 DEF Request, scheduler, EmptyAtZero
<1>m. (failed \subseteq Drivers \cup {First})'
  BY <1>1 DEF Request, history
<1>z. QED
  BY <1>a, <1>b, <1>c, <1>d, <1>e, <1>f, <1>g, <1>h, <1>i, <1>j, <1>k, <1>l,
     <1>m DEF IInv

LEMMA ReleaseKeeps ==
    ASSUME IInv, NEW t \in Threads, Release(t)
    PROVE  IInv'
<1>1. TypeOK /\ AtHome /\ Once /\ BusyCalls /\ TargetsFit /\ HandlerFits
      /\ DriversServe /\ WaitsMet /\ RunnersQueued /\ Agreed /\ LineAnswered /\ EmptyAtZero
      /\ failed \subseteq Drivers \cup {First}
  BY DEF IInv
<1>2. \A x \in Threads : Queued(x)' <=> Queued(x)
  BY DEF Queued, Release, scheduler
<1>3. Typed
  BY <1>1 DEF TypeOK, Typed
<1>4. \A x \in Threads \ {t} :
        /\ pc[x] \notin {"unlist", "await", "unset", "list", "mark", "request", "release", "ack"}
        /\ pc'[x] = pc[x] /\ call'[x] = call[x]
  BY <1>1, <1>3 DEF Release, Goto, BusyCalls, Typed
<1>5. irq # "queue"
  BY <1>1 DEF Release, HandlerFits
<1>a. TypeOK'
  <2>1. Typed'
    BY <1>3 DEF Release, Goto, scheduler, thread, Typed
  <2>2. QED
    BY <1>1 DEF Release, Goto, scheduler, thread, history, TypeOK
<1>b. AtHome'
  BY <1>1 DEF Release, scheduler, thread, AtHome
<1>c. Once'
  BY <1>1 DEF Release, scheduler, Once
<1>d. BusyCalls'
  BY <1>1, HomeIsCPU, <1>3 DEF Release, Goto, BusyCalls, Typed, Changing
<1>e. TargetsFit'
  <2>1. ASSUME NEW u \in Threads, Target(t)' = u
        PROVE  /\ pc'[t] \in {"unlist", "await", "unset", "list", "mark"} => u \notin Drivers
               /\ pc'[t] \in {"unlist", "await"} => call'[t].state = "suspended" /\ cpu'[u] # Nobody
               /\ pc'[t] = "unset" => call'[t].state = "suspended" /\ ~Queued(u)'
               /\ pc'[t] = "list" => call'[t].state = "running" /\ ~Queued(u)' /\ cpu'[u] = Home(u)
               /\ pc'[t] = "mark" =>
                    /\ call'[t].state = "running" <=> Queued(u)'
                    /\ cpu'[u] = Home(u) <=> Queued(u)'
               /\ pc'[t] = "request" => u \in Drivers
    BY DEF Release, Goto
  <2>2. QED
    BY <1>4, <2>1 DEF TargetsFit
<1>f. HandlerFits'
  BY <1>1 DEF Release, HandlerFits
<1>g. DriversServe'
  BY <1>1, <1>4 DEF Release, thread, DriversServe
<1>h. WaitsMet'
  BY <1>1, <1>2, HomeIsCPU, <1>4 DEF Release, scheduler, thread, history,
     WaitsMet
<1>i. RunnersQueued'
  BY <1>1, <1>2, <1>4 DEF Release, scheduler, RunnersQueued, Target
<1>j. Agreed'
  <2>1. ASSUME NEW x \in Threads, Settled(x)' PROVE Settled(x)
    BY <1>4, <1>5 DEF Settled, Release
  <2>2. QED
    BY <1>1, <1>2, <2>1 DEF Release, Agreed, thread
<1>k. LineAnswered'
  BY <1>1, <1>2, HomeIsCPU DEF Release, history, LineAnswered
<1>l. EmptyAtZero'
  BY <1>1 DEF Release, scheduler, EmptyAtZero
<1>m. (failed \subseteq Drivers \cup {First})'
  BY <1>1 DEF Release, history
<1>z. QED
  BY <1>a, <1>b, <1>c, <1>d, <1>e, <1>f, <1>g, <1>h, <1>i, <1>j, <1>k, <1>l,
     <1>m DEF IInv

LEMMA AcknowledgeKeeps ==
    ASSUME IInv, NEW t \in Threads, Acknowledge(t)
    PROVE  IInv'
<1>1. TypeOK /\ AtHome /\ Once /\ BusyCalls /\ TargetsFit /\ HandlerFits
      /\ DriversServe /\ WaitsMet /\ RunnersQueued /\ Agreed /\ LineAnswered /\ EmptyAtZero
      /\ failed \subseteq Drivers \cup {First}
  BY DEF IInv
<1>2. \A x \in Threads : Queued(x)' <=> Queued(x)
  BY DEF Queued, Acknowledge, scheduler
<1>3. Typed
  BY <1>1 DEF TypeOK, Typed
<1>4. \A x \in Threads \ {t} :
        /\ pc[x] \notin {"unlist", "await", "unset", "list", "mark", "request", "release", "ack"}
        /\ pc'[x] = pc[x] /\ call'[x] = call[x]
  BY <1>1, <1>3 DEF Acknowledge, Goto, BusyCalls, Typed
<1>a. TypeOK'
  <2>1. Typed'
    BY <1>3 DEF Acknowledge, Goto, scheduler, thread, Typed
  <2>2. QED
    BY <1>1 DEF Acknowledge, Goto, scheduler, thread, TypeOK
<1>b. AtHome'
  BY <1>1 DEF Acknowledge, scheduler, thread, AtHome
<1>c. Once'
  BY <1>1 DEF Acknowledge, scheduler, Once
<1>d. BusyCalls'
  BY <1>1, HomeIsCPU, <1>3 DEF Acknowledge, Goto, BusyCalls, Typed, Changing
<1>e. TargetsFit'
  <2>1. ASSUME NEW u \in Threads, Target(t)' = u
        PROVE  /\ pc'[t] \in {"unlist", "await", "unset", "list", "mark"} => u \notin Drivers
               /\ pc'[t] \in {"unlist", "await"} => call'[t].state = "suspended" /\ cpu'[u] # Nobody
               /\ pc'[t] = "unset" => call'[t].state = "suspended" /\ ~Queued(u)'
               /\ pc'[t] = "list" => call'[t].state = "running" /\ ~Queued(u)' /\ cpu'[u] = Home(u)
               /\ pc'[t] = "mark" =>
                    /\ call'[t].state = "running" <=> Queued(u)'
                    /\ cpu'[u] = Home(u) <=> Queued(u)'
               /\ pc'[t] = "request" => u \in Drivers
    BY DEF Acknowledge, Goto
  <2>2. QED
    BY <1>4, <2>1 DEF TargetsFit
<1>f. HandlerFits'
  BY <1>1 DEF Acknowledge, HandlerFits
<1>g. DriversServe'
  BY <1>1, <1>4 DEF Acknowledge, thread, DriversServe
<1>h. WaitsMet'
  BY <1>1, <1>2, HomeIsCPU, <1>4 DEF Acknowledge, scheduler, thread, WaitsMet
<1>i. RunnersQueued'
  BY <1>1, <1>2, <1>4 DEF Acknowledge, scheduler, RunnersQueued, Target
<1>j. Agreed'
  BY <1>1, <1>2, <1>4 DEF Acknowledge, thread, Agreed, Settled
<1>k. LineAnswered'
  BY DEF Acknowledge, LineAnswered
<1>l. EmptyAtZero'
  BY <1>1 DEF Acknowledge, scheduler, EmptyAtZero
<1>m. (failed \subseteq Drivers \cup {First})'
  BY <1>1 DEF Acknowledge
<1>z. QED
  BY <1>a, <1>b, <1>c, <1>d, <1>e, <1>f, <1>g, <1>h, <1>i, <1>j, <1>k, <1>l,
     <1>m DEF IInv

LEMMA WaitKeeps ==
    ASSUME IInv, NEW t \in Threads, Wait(t)
    PROVE  IInv'
<1>1. TypeOK /\ AtHome /\ Once /\ BusyCalls /\ TargetsFit /\ HandlerFits
      /\ DriversServe /\ WaitsMet /\ RunnersQueued /\ Agreed /\ LineAnswered /\ EmptyAtZero
      /\ failed \subseteq Drivers \cup {First}
  BY DEF IInv
<1>2. \A x \in Threads : Queued(x)' <=> Queued(x)
  BY DEF Queued, Wait, scheduler
<1>3. Typed
  BY <1>1 DEF TypeOK, Typed
<1>a. TypeOK'
  <2>1. Typed'
    BY <1>3 DEF Wait, Goto, scheduler, line, Typed
  <2>2. QED
    BY <1>1 DEF Wait, Goto, scheduler, line, history, TypeOK
<1>b. AtHome'
  BY <1>1 DEF Wait, scheduler, AtHome
<1>c. Once'
  BY <1>1 DEF Wait, scheduler, Once
<1>d. BusyCalls'
  BY <1>1 DEF Wait, Goto, BusyCalls, Changing
<1>e. TargetsFit'
  BY <1>1, <1>2 DEF Wait, Goto, TargetsFit, Target
<1>f. HandlerFits'
  BY <1>1, <1>2 DEF Wait, Goto, line, HandlerFits
<1>g. DriversServe'
  BY <1>1 DEF Wait, Goto, DriversServe
<1>h. WaitsMet'
  BY <1>1, <1>2, HomeIsCPU, <1>3 DEF Wait, Goto, OnCPU, scheduler, line,
     history, WaitsMet, Typed
<1>i. RunnersQueued'
  BY <1>1, <1>2 DEF Wait, Goto, scheduler, RunnersQueued, Target
<1>j. Agreed'
  BY <1>1, <1>2 DEF Wait, Goto, line, Agreed, Settled, Target
<1>k. LineAnswered'
  BY <1>1, <1>2 DEF Wait, line, history, LineAnswered
<1>l. EmptyAtZero'
  BY <1>1 DEF Wait, scheduler, EmptyAtZero
<1>m. (failed \subseteq Drivers \cup {First})'
  BY <1>1 DEF Wait, history
<1>z. QED
  BY <1>a, <1>b, <1>c, <1>d, <1>e, <1>f, <1>g, <1>h, <1>i, <1>j, <1>k, <1>l,
     <1>m DEF IInv

LEMMA InterruptKeeps ==
    ASSUME IInv, Interrupt
    PROVE  IInv'
<1>1. TypeOK /\ AtHome /\ Once /\ BusyCalls /\ TargetsFit /\ HandlerFits
      /\ DriversServe /\ WaitsMet /\ RunnersQueued /\ Agreed /\ LineAnswered /\ EmptyAtZero
      /\ failed \subseteq Drivers \cup {First}
  BY DEF IInv
<1>2. \A x \in Threads : Queued(x)' <=> Queued(x)
  BY DEF Queued, Interrupt, scheduler
<1>3. Typed
  BY <1>1 DEF TypeOK, Typed
<1>a. TypeOK'
  <2>1. Typed'
    BY <1>3 DEF Interrupt, scheduler, thread, Typed
  <2>2. QED
    BY <1>1 DEF Interrupt, scheduler, thread, history, TypeOK
<1>b. AtHome'
  BY <1>1 DEF Interrupt, scheduler, thread, AtHome
<1>c. Once'
  BY <1>1 DEF Interrupt, scheduler, Once
<1>d. BusyCalls'
  BY <1>1 DEF Interrupt, BusyCalls
<1>e. TargetsFit'
  BY <1>1, <1>2 DEF Interrupt, thread, TargetsFit, Target
<1>f. HandlerFits'
  BY <1>1 DEF Interrupt, HandlerFits
<1>g. DriversServe'
  BY <1>1 DEF Interrupt, thread, DriversServe
<1>h. WaitsMet'
  BY <1>1, <1>2, HomeIsCPU DEF Interrupt, scheduler, thread, history, WaitsMet
<1>i. RunnersQueued'
  BY <1>1, <1>2 DEF Interrupt, scheduler, RunnersQueued, Target
<1>j. Agreed'
  BY <1>1, <1>2 DEF Interrupt, thread, Agreed, Settled, Target
<1>k. LineAnswered'
  BY DEF Interrupt, LineAnswered
<1>l. EmptyAtZero'
  BY <1>1 DEF Interrupt, scheduler, EmptyAtZero
<1>m. (failed \subseteq Drivers \cup {First})'
  BY <1>1 DEF Interrupt, history
<1>z. QED
  BY <1>a, <1>b, <1>c, <1>d, <1>e, <1>f, <1>g, <1>h, <1>i, <1>j, <1>k, <1>l,
     <1>m DEF IInv

LEMMA HandleKeeps ==
    ASSUME IInv, Handle
    PROVE  IInv'
<1>1. TypeOK /\ AtHome /\ Once /\ BusyCalls /\ TargetsFit /\ HandlerFits
      /\ DriversServe /\ WaitsMet /\ RunnersQueued /\ Agreed /\ LineAnswered /\ EmptyAtZero
      /\ failed \subseteq Drivers \cup {First}
  BY DEF IInv
<1>2. \A x \in Threads : Queued(x)' <=> Queued(x)
  BY DEF Queued, Handle, scheduler
<1>3. Typed
  BY <1>1 DEF TypeOK, Typed
<1>5. ASSUME handler # Nobody
      PROVE  /\ handler \in Drivers /\ handler \in Threads /\ Home(handler) \in CPUs
             /\ cpu[handler] = Home(handler) <=> Queued(handler)
             /\ cpu[handler] \in {Home(handler), Nobody}
  <2>1. handler \in Drivers /\ handler \in Threads /\ Home(handler) \in CPUs
    BY <1>1, <1>5, HomeIsCPU DEF HandlerFits
  <2>2. Settled(handler)
    BY <1>1, <2>1 DEF Settled, TargetsFit, Handle
  <2>3. QED
    BY <1>1, <2>1, <2>2 DEF Agreed, AtHome
<1>6. \A x \in Threads : handler = x => (Queued(x) <=> Queued(handler))
  OBVIOUS
<1>7. \A x \in Drivers : x \in Threads
  BY HomeIsCPU
<1>a. TypeOK'
  <2>1. Typed'
    BY <1>3, HomeIsCPU DEF Handle, scheduler, Typed
  <2>2. failed' \subseteq Threads
    BY <1>1 DEF Handle, TypeOK
  <2>3. refused' \in BOOLEAN /\ masked' \in BOOLEAN /\ irq' \in {"none", "lock", "queue", "halted"}
    BY DEF Handle
  <2>4. QED
    BY <1>1, <2>1, <2>2 DEF Handle, scheduler, TypeOK, Typed
<1>b. AtHome'
  BY <1>1, <1>3 DEF Handle, scheduler, AtHome, Typed
<1>c. Once'
  BY <1>1 DEF Handle, scheduler, Once
<1>d. BusyCalls'
  BY <1>1 DEF Handle, BusyCalls
<1>e. TargetsFit'
  BY <1>1, <1>2, <1>5, <1>3 DEF Handle, TargetsFit, Typed, Target
<1>f. HandlerFits'
  BY <1>2, HomeIsCPU, <1>5, <1>3 DEF Handle, IrqHeld, HandlerFits, Typed
<1>g. DriversServe'
  BY <1>1 DEF Handle, DriversServe
<1>h. WaitsMet'
  BY <1>1, <1>2, HomeIsCPU, <1>5 DEF Handle, scheduler, WaitsMet
<1>i. RunnersQueued'
  BY <1>1, <1>2 DEF Handle, scheduler, RunnersQueued, Target
<1>j. Agreed'
  BY <1>1, <1>2, <1>3 DEF Handle, Agreed, Settled, Typed, Target
<1>k. LineAnswered'
  BY HomeIsCPU DEF Handle, LineAnswered
<1>l. EmptyAtZero'
  BY <1>1 DEF Handle, scheduler, EmptyAtZero
<1>m. (failed \subseteq Drivers \cup {First})'
  BY <1>1, <1>5 DEF Handle
<1>z. QED
  BY <1>a, <1>b, <1>c, <1>d, <1>e, <1>f, <1>g, <1>h, <1>i, <1>j, <1>k, <1>l,
     <1>m DEF IInv

LEMMA StopKeeps ==
    ASSUME IInv, NEW c \in CPUs, Stop(c)
    PROVE  IInv'
<1>1. TypeOK /\ AtHome /\ Once /\ BusyCalls /\ TargetsFit /\ HandlerFits
      /\ DriversServe /\ WaitsMet /\ RunnersQueued /\ Agreed /\ LineAnswered /\ EmptyAtZero
      /\ failed \subseteq Drivers \cup {First}
  BY DEF IInv
<1>2. \A x \in Threads : Queued(x)' <=> Queued(x)
  BY DEF Queued, Stop
<1>3. Typed
  BY <1>1 DEF TypeOK, Typed
<1>a. TypeOK'
  <2>1. Typed'
    BY <1>3 DEF Stop, thread, line, Typed
  <2>2. QED
    BY <1>1 DEF Stop, thread, line, history, TypeOK
<1>b. AtHome'
  BY <1>1 DEF Stop, thread, AtHome
<1>c. Once'
  BY <1>1 DEF Stop, Once
<1>d. BusyCalls'
  BY <1>1 DEF Stop, BusyCalls
<1>e. TargetsFit'
  BY <1>1, <1>2 DEF Stop, thread, TargetsFit, Target
<1>f. HandlerFits'
  BY <1>1, <1>2 DEF Stop, thread, line, HandlerFits
<1>g. DriversServe'
  BY <1>1 DEF Stop, thread, DriversServe
<1>h. WaitsMet'
  BY <1>1, <1>2, HomeIsCPU DEF Stop, thread, line, history, WaitsMet
<1>i. RunnersQueued'
  BY <1>1, <1>2 DEF Stop, RunnersQueued, Target
<1>j. Agreed'
  BY <1>1, <1>2 DEF Stop, thread, line, Agreed, Settled, Target
<1>k. LineAnswered'
  BY <1>1, <1>2 DEF Stop, line, history, LineAnswered
<1>l. EmptyAtZero'
  BY <1>1 DEF Stop, EmptyAtZero
<1>m. (failed \subseteq Drivers \cup {First})'
  BY <1>1 DEF Stop, history
<1>z. QED
  BY <1>a, <1>b, <1>c, <1>d, <1>e, <1>f, <1>g, <1>h, <1>i, <1>j, <1>k, <1>l,
     <1>m DEF IInv

LEMMA QueueHandlerKeeps ==
    ASSUME IInv, QueueHandler
    PROVE  IInv'
<1>1. TypeOK /\ AtHome /\ Once /\ BusyCalls /\ TargetsFit /\ HandlerFits
      /\ DriversServe /\ WaitsMet /\ RunnersQueued /\ Agreed /\ LineAnswered /\ EmptyAtZero
      /\ failed \subseteq Drivers \cup {First}
  BY DEF IInv
<1>3. Typed
  BY <1>1 DEF TypeOK, Typed
<1>4. /\ handler \in Threads /\ handler \in Drivers /\ ~Queued(handler)
      /\ cpu[handler] = Home(handler)
  <2>1. handler \in Threads /\ handler \in Drivers
    BY <1>1, HomeIsCPU DEF HandlerFits, QueueHandler
  <2>2. QED
    BY <1>1, <2>1 DEF HandlerFits, QueueHandler
<1>2. /\ queue' \in [CPUs -> Seq(Threads)]
      /\ \A d \in CPUs : Len(queue'[d]) >= Len(queue[d])
      /\ \A d \in CPUs : queue[d] # << >> => queue'[d] # << >>
      /\ \A d \in CPUs : \A j \in DOMAIN queue'[d] : Home(queue'[d][j]) = d
      /\ Once'
      /\ \A x \in Threads : Queued(x)' <=> Queued(x) \/ x = handler
  BY <1>1, <1>4, Addition DEF QueueHandler
<1>a. TypeOK'
  <2>1. Typed'
    BY <1>3 DEF QueueHandler, thread, Typed
  <2>2. /\ queue' \in [CPUs -> Seq(Threads)]
        /\ \A c \in CPUs : queue'[c] # << >> => position'[c] < Len(queue'[c])
    BY <1>1, <1>2 DEF QueueHandler, TypeOK, EmptyAtZero
  <2>3. QED
    BY <1>1, <2>2 DEF QueueHandler, thread, history, TypeOK
<1>b. AtHome'
  BY <1>1 DEF QueueHandler, thread, AtHome
<1>c. Once'
  BY <1>2
<1>d. BusyCalls'
  BY <1>1 DEF QueueHandler, BusyCalls
<1>e. TargetsFit'
  BY <1>1, <1>2, <1>4 DEF QueueHandler, thread, TargetsFit, Target
<1>f. HandlerFits'
  BY <1>1 DEF QueueHandler, HandlerFits
<1>g. DriversServe'
  BY <1>1 DEF QueueHandler, thread, DriversServe
<1>h. WaitsMet'
  BY <1>1, <1>2, HomeIsCPU DEF QueueHandler, thread, history, WaitsMet
<1>i. RunnersQueued'
  BY <1>1, <1>2 DEF QueueHandler, RunnersQueued, Target
<1>j. Agreed'
  BY <1>1, <1>2, <1>4 DEF QueueHandler, thread, Agreed, Settled, Target,
     BusyCalls, Changing
<1>k. LineAnswered'
  BY <1>2 DEF QueueHandler, LineAnswered
<1>l. EmptyAtZero'
  BY <1>1 DEF QueueHandler, EmptyAtZero
<1>m. (failed \subseteq Drivers \cup {First})'
  BY <1>1 DEF QueueHandler, history
<1>z. QED
  BY <1>a, <1>b, <1>c, <1>d, <1>e, <1>f, <1>g, <1>h, <1>i, <1>j, <1>k, <1>l,
     <1>m DEF IInv

LEMMA ListKeeps ==
    ASSUME IInv, NEW t \in Threads, List(t)
    PROVE  IInv'
<1>1. TypeOK /\ AtHome /\ Once /\ BusyCalls /\ TargetsFit /\ HandlerFits
      /\ DriversServe /\ WaitsMet /\ RunnersQueued /\ Agreed /\ LineAnswered /\ EmptyAtZero
      /\ failed \subseteq Drivers \cup {First}
  BY DEF IInv
<1>3. Typed
  BY <1>1 DEF TypeOK, Typed
<1>4. \A x \in Threads \ {t} :
        /\ pc[x] \notin {"unlist", "await", "unset", "list", "mark", "request", "release", "ack"}
        /\ pc'[x] = pc[x] /\ call'[x] = call[x]
  BY <1>1, <1>3 DEF List, Goto, BusyCalls, Typed
<1>5. /\ Target(t) \in Threads /\ ~Queued(Target(t)) /\ Target(t) \notin Drivers
      /\ cpu[Target(t)] = Home(Target(t)) /\ call[t].state = "running"
  <2>1. Target(t) \in Threads
    BY <1>3 DEF Typed, Target
  <2>2. QED
    BY <1>1, <2>1 DEF TargetsFit, List
<1>2. /\ queue' \in [CPUs -> Seq(Threads)]
      /\ \A d \in CPUs : Len(queue'[d]) >= Len(queue[d])
      /\ \A d \in CPUs : queue[d] # << >> => queue'[d] # << >>
      /\ \A d \in CPUs : \A j \in DOMAIN queue'[d] : Home(queue'[d][j]) = d
      /\ Once'
      /\ \A x \in Threads : Queued(x)' <=> Queued(x) \/ x = Target(t)
  BY <1>1, <1>5, Addition DEF List
<1>a. TypeOK'
  <2>1. Typed'
    BY <1>3 DEF List, Goto, thread, line, Typed, Changing
  <2>2. /\ queue' \in [CPUs -> Seq(Threads)]
        /\ \A c \in CPUs : queue'[c] # << >> => position'[c] < Len(queue'[c])
    BY <1>1, <1>2 DEF List, TypeOK, EmptyAtZero
  <2>3. QED
    BY <1>1, <2>1, <2>2 DEF List, line, history, TypeOK, Typed
<1>b. AtHome'
  BY <1>1 DEF List, thread, AtHome
<1>c. Once'
  BY <1>2
<1>d. BusyCalls'
  BY <1>1 DEF List, Goto, BusyCalls, Changing
<1>e. TargetsFit'
  <2>1. ASSUME NEW u \in Threads, Target(t)' = u
        PROVE  /\ pc'[t] \in {"unlist", "await", "unset", "list", "mark"} => u \notin Drivers
               /\ pc'[t] \in {"unlist", "await"} => call'[t].state = "suspended" /\ cpu'[u] # Nobody
               /\ pc'[t] = "unset" => call'[t].state = "suspended" /\ ~Queued(u)'
               /\ pc'[t] = "list" => call'[t].state = "running" /\ ~Queued(u)' /\ cpu'[u] = Home(u)
               /\ pc'[t] = "mark" =>
                    /\ call'[t].state = "running" <=> Queued(u)'
                    /\ cpu'[u] = Home(u) <=> Queued(u)'
               /\ pc'[t] = "request" => u \in Drivers
    BY <1>1, <1>2, <1>3, <2>1 DEF List, Goto, Target, thread, TargetsFit,
       Typed
  <2>2. QED
    BY <1>4, <2>1 DEF TargetsFit
<1>f. HandlerFits'
  BY <1>1, <1>2, <1>5 DEF List, Goto, thread, line, HandlerFits
<1>g. DriversServe'
  BY <1>1 DEF List, Goto, thread, DriversServe
<1>h. WaitsMet'
  BY <1>1, <1>2, HomeIsCPU DEF List, Goto, thread, line, history, WaitsMet
<1>i. RunnersQueued'
  BY <1>1, <1>2, <1>4 DEF List, Target, RunnersQueued
<1>j. Agreed'
  BY <1>1, <1>2, <1>3 DEF List, Goto, Target, thread, line, Agreed, Settled
<1>k. LineAnswered'
  BY <1>1, <1>2 DEF List, line, history, LineAnswered
<1>l. EmptyAtZero'
  BY <1>1, <1>2 DEF List, EmptyAtZero
<1>m. (failed \subseteq Drivers \cup {First})'
  BY <1>1 DEF List, history
<1>z. QED
  BY <1>a, <1>b, <1>c, <1>d, <1>e, <1>f, <1>g, <1>h, <1>i, <1>j, <1>k, <1>l,
     <1>m DEF IInv

LEMMA SetStateKeeps ==
    ASSUME IInv, NEW t \in Threads, SetState(t)
    PROVE  IInv'
<1>1. TypeOK /\ AtHome /\ Once /\ BusyCalls /\ TargetsFit /\ HandlerFits
      /\ DriversServe /\ WaitsMet /\ RunnersQueued /\ Agreed /\ LineAnswered /\ EmptyAtZero
      /\ failed \subseteq Drivers \cup {First}
  BY DEF IInv
<1>2. \A x \in Threads : Queued(x)' <=> Queued(x)
  BY DEF Queued, SetState, scheduler
<1>3. Typed
  BY <1>1 DEF TypeOK, Typed
<1>4. \A x \in Threads \ {t} :
        /\ pc[x] \notin {"unlist", "await", "unset", "list", "mark", "request", "release", "ack"}
        /\ pc'[x] = pc[x] /\ call'[x] = call[x]
  <2>1. \A x \in Threads \ {t} : pc'[x] = pc[x] /\ call'[x] = call[x]
    BY <1>3 DEF SetState, Goto, Typed
  <2>2. QED
    BY <1>1, <2>1, HomeIsCPU DEF SetState, BusyCalls, Changing
<1>5. PICK u \in Threads \ Drivers, s \in {"running", "suspended"} :
        /\ state[u] # s
        /\ call' = [call EXCEPT ![t] = [target |-> u, state |-> s]]
        /\ \/ /\ state[u] = "running"
              /\ pc' = [pc EXCEPT ![t] = IF cpu[u] = Nobody THEN "halted" ELSE "unlist"]
              /\ failed' = IF cpu[u] = Nobody THEN failed \cup {u} ELSE failed
              /\ cpu' = cpu
           \/ /\ s = "running"
              /\ pc' = [pc EXCEPT ![t] = IF cpu[u] # Nobody THEN "halted" ELSE "list"]
              /\ failed' = IF cpu[u] # Nobody THEN failed \cup {u} ELSE failed
              /\ cpu' = IF cpu[u] # Nobody THEN cpu ELSE [cpu EXCEPT ![u] = Home(u)]
  BY DEF SetState, Goto
<1>6. /\ cpu[u] = Home(u) <=> Queued(u)
      /\ u # First => (state[u] = "running" <=> Queued(u))
      /\ cpu[u] \in {Home(u), Nobody} /\ Home(u) \in CPUs /\ Home(u) # Nobody
  <2>1. Settled(u)
    BY <1>1, HomeIsCPU DEF Settled, SetState, BusyCalls, Changing, HandlerFits
  <2>2. QED
    BY <1>1, <2>1, HomeIsCPU DEF Agreed, AtHome
<1>7. pc[t] = "user" /\ busy = Nobody /\ busy' = t /\ OnCPU(t)
      /\ UNCHANGED <<scheduler, state, sched, line, refused, late>>
  BY DEF SetState
<1>a. TypeOK'
  <2>1. Typed'
    BY <1>1, <1>3, <1>5, <1>6, <1>7 DEF scheduler, line, Typed, Changing
  <2>2. QED
    BY <1>1, <1>5, <1>7, <2>1 DEF scheduler, line, TypeOK, Typed
<1>b. AtHome'
  BY <1>1, <1>5, <1>7, <1>3 DEF scheduler, AtHome, Typed
<1>c. Once'
  BY <1>1, <1>7 DEF scheduler, Once
<1>d. BusyCalls'
  BY <1>1, HomeIsCPU, <1>5, <1>7, <1>3 DEF BusyCalls, Typed, Changing
<1>e. TargetsFit'
  <2>1. ASSUME NEW x \in Threads, Target(t)' = x
        PROVE  /\ pc'[t] \in {"unlist", "await", "unset", "list", "mark"} => x \notin Drivers
               /\ pc'[t] \in {"unlist", "await"} => call'[t].state = "suspended" /\ cpu'[x] # Nobody
               /\ pc'[t] = "unset" => call'[t].state = "suspended" /\ ~Queued(x)'
               /\ pc'[t] = "list" => call'[t].state = "running" /\ ~Queued(x)' /\ cpu'[x] = Home(x)
               /\ pc'[t] = "mark" =>
                    /\ call'[t].state = "running" <=> Queued(x)'
                    /\ cpu'[x] = Home(x) <=> Queued(x)'
               /\ pc'[t] = "request" => x \in Drivers
    BY <1>2, <1>3, <1>5, <1>6, <2>1 DEF Target, Typed
  <2>2. QED
    BY <1>4, <2>1 DEF TargetsFit
<1>f. HandlerFits'
  BY <1>1, <1>2, <1>5, <1>7, <1>3 DEF line, HandlerFits, Typed
<1>g. DriversServe'
  BY <1>1, <1>5, <1>7, <1>3 DEF DriversServe, Typed
<1>h. WaitsMet'
  BY <1>1, <1>2, HomeIsCPU, <1>5, <1>7, <1>3 DEF scheduler, line, WaitsMet,
     Typed
<1>i. RunnersQueued'
  BY <1>1, <1>2, <1>7, <1>4 DEF Target, scheduler, RunnersQueued
<1>j. Agreed'
  BY <1>1, <1>2, <1>5, <1>7, <1>3, <1>4 DEF Target, line, Agreed, Settled,
     Typed
<1>k. LineAnswered'
  BY <1>1, <1>2, <1>7 DEF line, LineAnswered
<1>l. EmptyAtZero'
  BY <1>1, <1>7 DEF scheduler, EmptyAtZero
<1>m. (failed \subseteq Drivers \cup {First})'
  BY <1>1, <1>5, <1>6
<1>z. QED
  BY <1>a, <1>b, <1>c, <1>d, <1>e, <1>f, <1>g, <1>h, <1>i, <1>j, <1>k, <1>l,
     <1>m DEF IInv

LEMMA UnlistKeeps ==
    ASSUME IInv, NEW t \in Threads, Unlist(t)
    PROVE  IInv'
<1>1. TypeOK /\ AtHome /\ Once /\ BusyCalls /\ TargetsFit /\ HandlerFits
      /\ DriversServe /\ WaitsMet /\ RunnersQueued /\ Agreed /\ LineAnswered /\ EmptyAtZero
      /\ failed \subseteq Drivers \cup {First}
  BY DEF IInv
<1>3. Typed
  BY <1>1 DEF TypeOK, Typed
<1>4. \A x \in Threads \ {t} :
        /\ pc[x] \notin {"unlist", "await", "unset", "list", "mark", "request", "release", "ack"}
        /\ pc'[x] = pc[x] /\ call'[x] = call[x]
  <2>1. \A x \in Threads \ {t} : pc'[x] = pc[x] /\ call'[x] = call[x]
    BY <1>3 DEF Unlist, Removed, Goto, Typed
  <2>2. QED
    BY <1>1, <2>1 DEF Unlist, BusyCalls, Changing
<1>5. /\ Target(t) \in Threads /\ Target(t) \notin Drivers /\ Queued(Target(t))
      /\ call[t].state = "suspended" /\ Home(Target(t)) \in CPUs
  <2>1. Target(t) \in Threads
    BY <1>3 DEF Typed, Target
  <2>2. /\ Target(t) \notin Drivers /\ call[t].state = "suspended" /\ cpu[Target(t)] # Nobody
    BY <1>1, <2>1 DEF TargetsFit, Unlist
  <2>3. Settled(Target(t))
    BY <1>1, <1>4, <2>2 DEF Settled, Unlist, HandlerFits
  <2>4. QED
    BY <1>1, <2>1, <2>2, <2>3, HomeIsCPU DEF Agreed, AtHome
<1>6. /\ queue' = [queue EXCEPT ![Home(Target(t))] = Without(@, Place(Home(Target(t)), Target(t)))]
      /\ position' = [position EXCEPT ![Home(Target(t))] = Back(@, Len(queue[Home(Target(t))]) - 1)]
      /\ pc' = [pc EXCEPT ![t] = "unset"]
      /\ pc[t] = "await" /\ OnCPU(t) /\ (Home(Target(t)) # Home(t) => ~running[Home(Target(t))])
      /\ UNCHANGED <<picked, current, running, thread, call, busy, line, history>>
  BY <1>5 DEF Unlist, Removed, Goto, history
<1>7. /\ Place(Home(Target(t)), Target(t)) \in 1..Len(queue[Home(Target(t))])
      /\ queue[Home(Target(t))][Place(Home(Target(t)), Target(t))] = Target(t)
  <2>1. queue[Home(Target(t))] \in Seq(Threads)
    BY <1>1, <1>5 DEF TypeOK
  <2>2. \E i \in DOMAIN queue[Home(Target(t))] : queue[Home(Target(t))][i] = Target(t)
    BY <1>5 DEF Queued
  <2>3. QED
    BY <2>1, <2>2 DEF Place
<1>2. /\ queue' \in [CPUs -> Seq(Threads)]
      /\ Len(queue'[Home(Target(t))]) = Len(queue[Home(Target(t))]) - 1
      /\ \A d \in CPUs : \A j \in DOMAIN queue'[d] : Home(queue'[d][j]) = d
      /\ Once'
      /\ \A x \in Threads : Queued(x)' <=> Queued(x) /\ x # Target(t)
  <2> DEFINE c == Home(Target(t))  i == Place(c, Target(t))
  <2>1. c \in CPUs /\ i \in 1..Len(queue[c]) /\ queue[c][i] = Target(t)
    BY <1>5, <1>7
  <2>2. queue' = [queue EXCEPT ![c] = Without(@, i)]
    BY <1>6
  <2> HIDE DEF c, i
  <2>3. /\ queue' \in [CPUs -> Seq(Threads)]
        /\ Len(queue'[c]) = Len(queue[c]) - 1
        /\ \A d \in CPUs : \A j \in DOMAIN queue'[d] : Home(queue'[d][j]) = d
        /\ Once'
        /\ \A x \in Threads : Queued(x)' <=> Queued(x) /\ x # queue[c][i]
    BY <1>1, <2>1, <2>2, Removal
  <2>4. QED
    BY <2>1, <2>3 DEF c
<1>8. /\ position' \in [CPUs -> Nat]
      /\ \A d \in CPUs : queue'[d] # << >> => position'[d] < Len(queue'[d])
      /\ \A d \in CPUs : queue'[d] = << >> => position'[d] = 0
  <2> DEFINE c == Home(Target(t))
  <2>1. /\ queue[c] \in Seq(Threads) /\ Len(queue[c]) \in Nat /\ Len(queue[c]) # 0
        /\ position[c] \in Nat /\ position \in [CPUs -> Nat] /\ queue \in [CPUs -> Seq(Threads)]
    BY <1>1, <1>5, <1>7 DEF TypeOK
  <2>2. /\ Back(position[c], Len(queue[c]) - 1) \in Nat
        /\ Len(queue[c]) - 1 # 0 => Back(position[c], Len(queue[c]) - 1) < Len(queue[c]) - 1
        /\ Len(queue[c]) - 1 = 0 => Back(position[c], Len(queue[c]) - 1) = 0
    <3> DEFINE n == Len(queue[c]) - 1
    <3>1. n \in Nat
      BY <2>1
    <3> HIDE DEF n
    <3>2. /\ Back(position[c], n) \in Nat /\ (n # 0 => Back(position[c], n) < n)
          /\ n = 0 => Back(position[c], n) = 0
      BY <2>1, <3>1, BackIn
    <3>3. QED
      BY <3>2 DEF n
  <2>3. queue'[c] \in Seq(Threads) /\ (queue'[c] = << >> <=> Len(queue'[c]) = 0)
    <3>1. queue'[c] \in Seq(Threads)
      BY <1>2, <1>5
    <3>2. QED
      BY <3>1
  <2>4. \A d \in CPUs : d # c => queue'[d] = queue[d] /\ position'[d] = position[d]
    BY <1>6
  <2>5. position'[c] = Back(position[c], Len(queue[c]) - 1)
    BY <1>5, <1>6, <2>1
  <2> HIDE DEF c
  <2>6. ASSUME NEW d \in CPUs
        PROVE  /\ queue'[d] # << >> => position'[d] < Len(queue'[d])
               /\ queue'[d] = << >> => position'[d] = 0
    <3>1. CASE d = c
      BY <1>2, <2>2, <2>5, <3>1 DEF c
    <3>2. CASE d # c
      BY <1>1, <2>4, <3>2 DEF TypeOK, EmptyAtZero
    <3>3. QED
      BY <3>1, <3>2
  <2>7. position' \in [CPUs -> Nat]
    BY <1>6, <2>1, <2>2 DEF c
  <2>8. QED
    BY <2>6, <2>7
<1>a. TypeOK'
  <2>1. Typed'
    BY <1>3, <1>6 DEF thread, line, Typed, Changing
  <2>2. QED
    BY <1>1, <1>2, <1>6, <1>8, <2>1 DEF line, history, TypeOK, Typed
<1>b. AtHome'
  BY <1>1, <1>2, <1>6 DEF thread, line, AtHome, Typed
<1>c. Once'
  BY <1>2
<1>d. BusyCalls'
  BY <1>1, <1>6 DEF line, BusyCalls, Changing
<1>e. TargetsFit'
  <2>1. ASSUME NEW u \in Threads, Target(t)' = u
        PROVE  /\ pc'[t] \in {"unlist", "await", "unset", "list", "mark"} => u \notin Drivers
               /\ pc'[t] \in {"unlist", "await"} => call'[t].state = "suspended" /\ cpu'[u] # Nobody
               /\ pc'[t] = "unset" => call'[t].state = "suspended" /\ ~Queued(u)'
               /\ pc'[t] = "list" => call'[t].state = "running" /\ ~Queued(u)' /\ cpu'[u] = Home(u)
               /\ pc'[t] = "mark" =>
                    /\ call'[t].state = "running" <=> Queued(u)'
                    /\ cpu'[u] = Home(u) <=> Queued(u)'
               /\ pc'[t] = "request" => u \in Drivers
    BY <1>1, <1>2, <1>6, <2>1 DEF Target, thread, TargetsFit
  <2>2. QED
    BY <1>4, <2>1 DEF TargetsFit
<1>f. HandlerFits'
  BY <1>1, <1>2, <1>6 DEF thread, line, HandlerFits, Typed
<1>g. DriversServe'
  BY <1>1, <1>6 DEF thread, line, DriversServe
<1>h. WaitsMet'
  BY <1>1, <1>2, HomeIsCPU, <1>5, <1>6 DEF Unlist, Removed, thread, line,
     WaitsMet, Typed
<1>i. RunnersQueued'
  <2>1. ASSUME NEW d \in CPUs, NEW x \in Threads, running'[d], current'[d] = x
        PROVE  Queued(x)' \/ (Target(x)' = x /\ pc'[x] \in {"unset", "mark", "yield"})
    <3>1. running[d] /\ current[d] = x /\ Home(x) = d /\ Target(x)' = Target(x)
      BY <1>1, <1>6, <2>1, HomeIsCPU DEF AtHome, Target
    <3>2. Queued(x) \/ (Target(x) = x /\ pc[x] \in {"unset", "mark", "yield"})
      BY <1>1, <3>1 DEF RunnersQueued
    <3>3. CASE x = t
      <4>1. Queued(x) /\ pc'[x] = "unset"
        BY <1>3, <1>6, <3>2, <3>3 DEF Typed
      <4>2. QED
        BY <1>2, <3>1, <3>3, <4>1
    <3>4. CASE x # t
      <4>1. x # Target(t)
        BY <1>6, <3>1, <3>4 DEF OnCPU
      <4>2. QED
        BY <1>2, <1>4, <3>1, <3>2, <4>1
    <3>5. QED
      BY <3>3, <3>4
  <2>2. QED
    BY <2>1 DEF RunnersQueued
<1>j. Agreed'
  BY <1>1, <1>2, <1>6, <1>3 DEF Target, thread, line, Agreed, Settled, Typed
<1>k. LineAnswered'
  BY <1>1, <1>2, HomeIsCPU, <1>5 DEF Unlist, Removed, line, LineAnswered,
     HandlerFits
<1>l. EmptyAtZero'
  BY <1>8 DEF EmptyAtZero
<1>m. (failed \subseteq Drivers \cup {First})'
  BY <1>1, <1>2 DEF Unlist, Removed
<1>z. QED
  BY <1>a, <1>b, <1>c, <1>d, <1>e, <1>f, <1>g, <1>h, <1>i, <1>j, <1>k, <1>l,
     <1>m DEF IInv

LEMMA TurnKeeps ==
    ASSUME IInv, NEW c \in CPUs, Turn(c)
    PROVE  IInv'
<1>1. TypeOK /\ AtHome /\ Once /\ BusyCalls /\ TargetsFit /\ HandlerFits
      /\ DriversServe /\ WaitsMet /\ RunnersQueued /\ Agreed /\ LineAnswered /\ EmptyAtZero
      /\ failed \subseteq Drivers \cup {First}
  BY DEF IInv
<1>3. Typed
  BY <1>1 DEF TypeOK, Typed
<1> DEFINE t == current[c]
           k == (picked[c] % Len(queue[c])) + 1
           q == IF Leaves(c) THEN Without(queue[c], k) ELSE queue[c]
           p == IF Leaves(c) THEN Back(position[c], Len(q)) ELSE position[c]
           n == IF q = << >> THEN Nobody ELSE q[p + 1]
<1>4. /\ ~running[c]
      /\ IF Leaves(c)
         THEN /\ state' = [state EXCEPT ![t] = "irq"]
              /\ sched' = [sched EXCEPT ![t] = FALSE]
              /\ cpu' = [cpu EXCEPT ![t] = Nobody]
         ELSE UNCHANGED thread
      /\ queue' = [queue EXCEPT ![c] = q]
      /\ picked' = [picked EXCEPT ![c] = p]
      /\ position' = [position EXCEPT ![c] = IF q = << >> THEN p ELSE (p + 1) % Len(q)]
      /\ current' = [current EXCEPT ![c] = n]
      /\ running' = [running EXCEPT ![c] = TRUE]
      /\ pc' = IF n # Nobody /\ pc[n] = "waiting" THEN [pc EXCEPT ![n] = "user"] ELSE pc
      /\ late' = (late \/ (t # Nobody /\ sched'[t]))
      /\ UNCHANGED <<call, busy, line, refused, failed>>
  BY DEF Turn, TurnBy
<1>5. /\ queue \in [CPUs -> Seq(Threads)] /\ queue[c] \in Seq(Threads)
      /\ position \in [CPUs -> Nat] /\ position[c] \in Nat
      /\ picked \in [CPUs -> Nat] /\ picked[c] \in Nat
      /\ Len(queue[c]) \in Nat /\ (queue[c] = << >> <=> Len(queue[c]) = 0)
      /\ queue[c] # << >> => position[c] < Len(queue[c])
      /\ queue[c] = << >> => position[c] = 0
  BY <1>1 DEF TypeOK, EmptyAtZero
<1>6. ASSUME Leaves(c)
      PROVE  /\ k \in 1..Len(queue[c]) /\ queue[c][k] = t
             /\ t \in Threads /\ t \in Drivers /\ Home(t) = c /\ sched[t] /\ Queued(t)
  <2>1. Len(queue[c]) \in Nat /\ Len(queue[c]) > 0
    BY <1>6 DEF Leaves
  <2>2. picked[c] % Len(queue[c]) \in 0..(Len(queue[c]) - 1)
    BY <1>5, <2>1
  <2>3. k \in 1..Len(queue[c]) /\ queue[c][k] = t /\ sched[t] /\ t # Nobody
    BY <1>6, <2>2 DEF Leaves
  <2>4. t \in Threads /\ Home(t) = c
    BY <1>1, <1>3, <2>3 DEF Typed, AtHome
  <2>5. Queued(t)
    BY <2>3, <2>4 DEF Queued
  <2>6. QED
    BY <1>1, <2>3, <2>4, <2>5 DEF DriversServe
<1>2. /\ queue' \in [CPUs -> Seq(Threads)]
      /\ \A d \in CPUs : \A j \in DOMAIN queue'[d] : Home(queue'[d][j]) = d
      /\ Once'
      /\ \A x \in Threads : Queued(x)' <=> Queued(x) /\ ~(Leaves(c) /\ x = t)
      /\ queue'[c] = q
      /\ \A d \in CPUs : d # c => queue'[d] = queue[d] /\ position'[d] = position[d]
  <2>1. CASE Leaves(c)
    <3>1. queue' = [queue EXCEPT ![c] = Without(@, k)]
      BY <1>4, <2>1
    <3>2. k \in 1..Len(queue[c]) /\ queue[c][k] = t
      BY <1>6, <2>1
    <3> HIDE DEF k, q, p, n, t
    <3>3. /\ queue' \in [CPUs -> Seq(Threads)]
          /\ \A d \in CPUs : \A j \in DOMAIN queue'[d] : Home(queue'[d][j]) = d
          /\ Once'
          /\ \A x \in Threads : Queued(x)' <=> Queued(x) /\ x # queue[c][k]
      BY <1>1, <3>1, <3>2, Removal
    <3>4. QED
      BY <1>4, <2>1, <3>2, <3>3
  <2>2. CASE ~Leaves(c)
    <3>1. queue' = queue
      BY <1>4, <1>5, <2>2
    <3>2. \A x \in Threads : Queued(x)' <=> Queued(x)
      BY <3>1 DEF Queued
    <3>3. QED
      BY <1>1, <1>4, <1>5, <2>2, <3>2 DEF AtHome, Once
  <2>3. QED
    BY <2>1, <2>2
<1>7. /\ q \in Seq(Threads) /\ Len(q) \in Nat /\ (q = << >> <=> Len(q) = 0)
      /\ p \in Nat /\ (q # << >> => p < Len(q)) /\ (q = << >> => p = 0)
  <2>1. q \in Seq(Threads) /\ Len(q) \in Nat /\ (q = << >> <=> Len(q) = 0)
    <3>1. q \in Seq(Threads)
      BY <1>2
    <3> HIDE DEF q
    <3>2. QED
      BY <3>1
  <2>2. CASE Leaves(c)
    <3>1. p = Back(position[c], Len(q))
      BY <2>2
    <3> HIDE DEF q, p
    <3>2. QED
      BY <1>5, <2>1, <3>1, BackIn
  <2>3. CASE ~Leaves(c)
    BY <1>5, <2>3
  <2>4. QED
    BY <2>2, <2>3
<1>8. /\ n \in Threads \cup {Nobody}
      /\ \A x \in Threads : n = x => Home(x) = c /\ Queued(x)'
  <2> HIDE DEF q, p
  <2>1. CASE q = << >>
    BY <2>1, HomeIsCPU
  <2>2. CASE q # << >>
    <3>1. p + 1 \in 1..Len(q) /\ n = q[p + 1]
      BY <1>7, <2>2
    <3>2. DOMAIN queue'[c] = 1..Len(q) /\ queue'[c][p + 1] = n
      BY <1>2, <3>1
    <3>3. n \in Threads
      BY <1>7, <3>1
    <3> HIDE DEF n
    <3>4. ASSUME NEW x \in Threads, n = x PROVE Home(x) = c /\ Queued(x)'
      <4>1. Home(x) = c
        BY <1>2, <3>1, <3>2, <3>4
      <4>2. p + 1 \in DOMAIN queue'[Home(x)] /\ queue'[Home(x)][p + 1] = x
        BY <3>1, <3>2, <3>4, <4>1
      <4>3. QED
        BY <4>1, <4>2 DEF Queued
    <3>5. QED
      BY <3>3, <3>4
  <2>3. QED
    BY <2>1, <2>2
<1>9. /\ position' \in [CPUs -> Nat]
      /\ \A d \in CPUs : queue'[d] # << >> => position'[d] < Len(queue'[d])
      /\ \A d \in CPUs : queue'[d] = << >> => position'[d] = 0
  <2> DEFINE z == IF q = << >> THEN p ELSE (p + 1) % Len(q)
  <2> HIDE DEF q, p
  <2>1. z \in Nat /\ (q # << >> => z < Len(q)) /\ (q = << >> => z = 0)
    BY <1>7
  <2>2. position' = [position EXCEPT ![c] = z]
    BY <1>4
  <2> HIDE DEF z
  <2>3. position'[c] = z /\ position' \in [CPUs -> Nat]
    BY <1>5, <2>1, <2>2
  <2>4. ASSUME NEW d \in CPUs
        PROVE  /\ queue'[d] # << >> => position'[d] < Len(queue'[d])
               /\ queue'[d] = << >> => position'[d] = 0
    <3>1. CASE d = c
      BY <1>2, <2>1, <2>3, <3>1
    <3>2. CASE d # c
      BY <1>1, <1>2, <3>2 DEF TypeOK, EmptyAtZero
    <3>3. QED
      BY <3>1, <3>2
  <2>5. QED
    BY <2>3, <2>4
<1>10. /\ \A x \in Threads :
            IF Leaves(c) /\ x = t
            THEN state'[x] = "irq" /\ sched'[x] = FALSE /\ cpu'[x] = Nobody
            ELSE state'[x] = state[x] /\ sched'[x] = sched[x] /\ cpu'[x] = cpu[x]
       /\ state' \in [Threads -> {"suspended", "running", "irq"}]
       /\ sched' \in [Threads -> BOOLEAN] /\ cpu' \in [Threads -> CPUs \cup {Nobody}]
  <2>1. CASE Leaves(c)
    <3>1. /\ t \in Threads /\ state' = [state EXCEPT ![t] = "irq"]
          /\ sched' = [sched EXCEPT ![t] = FALSE] /\ cpu' = [cpu EXCEPT ![t] = Nobody]
      BY <1>4, <1>6, <2>1
    <3> HIDE DEF t
    <3>2. QED
      BY <1>3, <2>1, <3>1 DEF Typed
  <2>2. CASE ~Leaves(c)
    <3>1. UNCHANGED thread
      BY <1>4, <2>2
    <3>2. QED
      BY <1>3, <2>2, <3>1 DEF thread, Typed
  <2>3. QED
    BY <2>1, <2>2
<1>11. /\ \A x \in Threads : pc'[x] = IF x = n /\ pc[x] = "waiting" THEN "user" ELSE pc[x]
       /\ \A d \in CPUs :
            /\ current'[d] = IF d = c THEN n ELSE current[d]
            /\ running'[d] = IF d = c THEN TRUE ELSE running[d]
  BY <1>3, <1>4, HomeIsCPU DEF Typed
<1>12. /\ late' = (late \/ (t # Nobody /\ sched'[t]))
       /\ UNCHANGED <<call, busy, handler, masked, irq, refused, failed>>
  BY <1>4 DEF line
<1>13. Typed'
  <2>1. current' \in [CPUs -> Threads \cup {Nobody}] /\ running' \in [CPUs -> BOOLEAN]
    BY <1>3, <1>4, <1>8 DEF Typed
  <2>2. pc' \in [Threads -> Changing \cup {"user", "yield", "request", "release", "ack", "acked", "waiting"}]
    BY <1>3, <1>4 DEF Typed
  <2>3. QED
    BY <1>3, <1>10, <1>12, <2>1, <2>2 DEF Typed
<1>14. picked' \in [CPUs -> Nat] /\ late' \in BOOLEAN
  BY <1>4, <1>5, <1>7
<1> HIDE DEF k, q, p, n
<1>15. \A x \in Threads : pc'[x] = pc[x] \/ (pc[x] = "waiting" /\ pc'[x] = "user")
  BY <1>11
<1>16. /\ \A x \in Threads : x \notin Drivers \/ ~Queued(x) =>
            /\ Queued(x)' <=> Queued(x)
            /\ state'[x] = state[x] /\ sched'[x] = sched[x] /\ cpu'[x] = cpu[x]
       /\ \A x \in Threads :
            \/ /\ x # t \/ ~Leaves(c)
               /\ Queued(x)' <=> Queued(x)
               /\ state'[x] = state[x] /\ sched'[x] = sched[x] /\ cpu'[x] = cpu[x]
            \/ /\ x = t /\ Leaves(c)
               /\ ~Queued(x)' /\ cpu'[x] = Nobody /\ ~sched'[x]
               /\ sched[x] /\ x \in Drivers
  <2> HIDE DEF t
  <2>1. QED
    BY <1>2, <1>6, <1>10
<1>a. TypeOK'
  BY <1>1, <1>2, <1>9, <1>12, <1>13, <1>14 DEF TypeOK, Typed
<1>b. AtHome'
  <2>1. \A d \in CPUs : current'[d] # Nobody => Home(current'[d]) = d
    BY <1>1, <1>8, <1>11 DEF AtHome
  <2>2. \A x \in Threads : cpu'[x] \in {Home(x), Nobody}
    BY <1>1, <1>16 DEF AtHome
  <2>3. QED
    BY <1>2, <2>1, <2>2 DEF AtHome
<1>c. Once'
  BY <1>2
<1>d. BusyCalls'
  BY <1>1, <1>12, <1>15 DEF BusyCalls, Changing
<1>e. TargetsFit'
  BY <1>1, <1>12, <1>15, <1>16 DEF TargetsFit, Target
<1>f. HandlerFits'
  BY <1>1, <1>12, <1>15, <1>16 DEF HandlerFits
<1>g. DriversServe'
  BY <1>1, <1>15, <1>16 DEF DriversServe
<1>h. WaitsMet'
  <2> SUFFICES ASSUME ~late' PROVE WaitsMet'
    BY DEF WaitsMet
  <2>1. ~late /\ (t = Nobody \/ ~sched'[t])
    BY <1>12
  <2>2. ASSUME NEW x \in Drivers, ~Queued(x)'
        PROVE  ~sched'[x] /\ pc'[x] \notin {"release", "ack", "acked"}
    BY <1>1, <1>15, <1>16, <2>1, <2>2, HomeIsCPU DEF WaitsMet
  <2>3. ASSUME NEW x \in Threads, sched'[x]
        PROVE  pc'[x] = "waiting" /\ current'[Home(x)] = x
    <3>1. sched[x] /\ pc[x] = "waiting" /\ current[Home(x)] = x
      BY <1>1, <1>16, <2>1, <2>3 DEF WaitsMet
    <3>2. Home(x) # c
      BY <2>1, <2>3, <3>1, HomeIsCPU
    <3>3. x # n
      BY <1>8, <3>2
    <3>4. QED
      BY <1>11, <3>1, <3>2, <3>3, HomeIsCPU
  <2>4. ASSUME NEW x \in Threads, handler' = x, pc'[x] = "acked" \/ sched'[x]
        PROVE  ~masked' \/ refused' \/ irq' = "halted"
    BY <1>1, <1>12, <1>15, <1>16, <2>1, <2>4 DEF WaitsMet
  <2>5. QED
    BY <2>2, <2>3, <2>4 DEF WaitsMet
<1>i. RunnersQueued'
  <2>1. ASSUME NEW d \in CPUs, NEW x \in Threads, running'[d], current'[d] = x
        PROVE  Queued(x)' \/ (Target(x)' = x /\ pc'[x] \in {"unset", "mark", "yield"})
    <3>1. CASE d = c
      BY <1>8, <1>11, <2>1, <3>1
    <3>2. CASE d # c
      <4>1. running[d] /\ current[d] = x /\ Home(x) = d
        BY <1>1, <1>11, <2>1, <3>2, HomeIsCPU DEF AtHome
      <4>2. ~(x = t /\ Leaves(c))
        BY <1>6, <3>2, <4>1
      <4>3. QED
        BY <1>1, <1>12, <1>15, <1>16, <4>1, <4>2 DEF RunnersQueued, Target
    <3>3. QED
      BY <3>1, <3>2
  <2>2. QED
    BY <2>1 DEF RunnersQueued
<1>j. Agreed'
  <2>1. ASSUME NEW x \in Threads, Settled(x)'
        PROVE  /\ cpu'[x] = Home(x) <=> Queued(x)'
               /\ x \notin Drivers \cup {First} => (state'[x] = "running" <=> Queued(x)')
    <3>1. Settled(x)
      BY <1>12, <1>15, <2>1 DEF Settled, Target
    <3>2. QED
      BY <1>1, <1>16, <3>1, HomeIsCPU DEF Agreed
  <2>2. QED
    BY <2>1 DEF Agreed
<1>k. LineAnswered'
  BY <1>1, <1>12, <1>16 DEF LineAnswered, WaitsMet
<1>l. EmptyAtZero'
  BY <1>9 DEF EmptyAtZero
<1>m. (failed \subseteq Drivers \cup {First})'
  BY <1>1, <1>12
<1>z. QED
  BY <1>a, <1>b, <1>c, <1>d, <1>e, <1>f, <1>g, <1>h, <1>i, <1>j, <1>k, <1>l,
     <1>m DEF IInv

-----------------------------------------------------------------------------
LEMMA InitIInv == Init => IInv
<1> SUFFICES ASSUME Init PROVE IInv
  OBVIOUS
<1>1. \A c \in CPUs : queue[c] = IF c = Home(First) THEN <<First>> ELSE << >>
  BY DEF Init
<1>2. \A x \in Threads : Queued(x) <=> x = First
  <2>1. \A x \in Threads : queue[Home(x)] = IF Home(x) = Home(First) THEN <<First>> ELSE << >>
    BY <1>1, HomeIsCPU
  <2>2. DOMAIN <<First>> = {1} /\ <<First>>[1] = First /\ DOMAIN << >> = {}
    OBVIOUS
  <2>3. QED
    BY <2>1 DEF Queued
<1>3. TypeOK
  <2>1. queue \in [CPUs -> Seq(Threads)]
    BY HomeIsCPU DEF Init
  <2>2. \A c \in CPUs : queue[c] # << >> => position[c] < Len(queue[c])
    BY DEF Init
  <2>3. call \in [Threads -> [target : Threads, state : {"suspended", "running"}]]
    BY DEF Init
  <2>4. QED
    BY <2>1, <2>2, HomeIsCPU DEF Init, TypeOK
<1>4. AtHome /\ Once
  <2>1. \A c \in CPUs : \A i \in DOMAIN queue[c] : i = 1 /\ queue[c][i] = First /\ Home(First) = c
    BY <1>1
  <2>2. QED
    BY <2>1, HomeIsCPU DEF AtHome, Init
<1>5. EmptyAtZero /\ BusyCalls /\ HandlerFits /\ DriversServe
  BY HomeIsCPU DEF Init, EmptyAtZero, BusyCalls, HandlerFits, DriversServe,
     Changing
<1>6. TargetsFit
  BY DEF Init, TargetsFit
<1>7. WaitsMet /\ RunnersQueued /\ LineAnswered
  BY HomeIsCPU DEF Init, WaitsMet, RunnersQueued, LineAnswered
<1>8. Agreed
  BY <1>2, HomeIsCPU DEF Init, Agreed
<1>9. failed \subseteq Drivers \cup {First}
  BY DEF Init
<1>10. QED
  BY <1>3, <1>4, <1>5, <1>6, <1>7, <1>8, <1>9 DEF IInv

LEMMA StutterKeeps == IInv /\ UNCHANGED vars => IInv'
<1> SUFFICES ASSUME IInv, UNCHANGED vars PROVE IInv'
  OBVIOUS
<1> USE DEF vars, scheduler, thread, line, history
<1>1. \A x \in Threads : Queued(x)' <=> Queued(x)
  BY DEF Queued
<1>2. TypeOK' /\ AtHome' /\ Once' /\ EmptyAtZero' /\ BusyCalls'
  BY DEF IInv, TypeOK, AtHome, Once, EmptyAtZero, BusyCalls
<1>3. TargetsFit' /\ HandlerFits' /\ DriversServe'
  BY <1>1 DEF IInv, TargetsFit, HandlerFits, DriversServe, Target
<1>4. WaitsMet' /\ RunnersQueued' /\ LineAnswered'
  BY <1>1, HomeIsCPU DEF IInv, WaitsMet, RunnersQueued, LineAnswered, Target
<1>5. Agreed' /\ (failed \subseteq Drivers \cup {First})'
  BY <1>1 DEF IInv, Agreed, Settled, Target
<1>6. QED
  BY <1>2, <1>3, <1>4, <1>5 DEF IInv

LEMMA NextIInv == IInv /\ [Next]_vars => IInv'
<1> SUFFICES ASSUME IInv, [Next]_vars PROVE IInv'
  OBVIOUS
<1>1. ASSUME NEW t \in Threads, SetState(t) PROVE IInv'
  BY <1>1, SetStateKeeps
<1>2. ASSUME NEW t \in Threads, Change(t) PROVE IInv'
  BY <1>2, LockKeeps, UnlistKeeps, UnsetKeeps, ListKeeps, MarkKeeps DEF Change
<1>3. ASSUME NEW t \in Threads, LockIrq(t) PROVE IInv'
  BY <1>3, LockIrqKeeps
<1>4. ASSUME NEW t \in Threads, Finish(t) PROVE IInv'
  BY <1>4, RequestKeeps, ReleaseKeeps, AcknowledgeKeeps DEF Finish
<1>5. ASSUME NEW t \in Threads, Wait(t) PROVE IInv'
  BY <1>5, WaitKeeps
<1>6. ASSUME NEW c \in CPUs, Stop(c) \/ Turn(c) PROVE IInv'
  BY <1>6, StopKeeps, TurnKeeps
<1>7. CASE Interrupt \/ Handler
  BY <1>7, InterruptKeeps, HandleKeeps, QueueHandlerKeeps DEF Handler
<1>8. CASE UNCHANGED vars
  BY <1>8, StutterKeeps
<1>9. QED
  BY <1>1, <1>2, <1>3, <1>4, <1>5, <1>6, <1>7, <1>8 DEF Next

THEOREM Invariance == Spec => []IInv
<1>1. QED
  BY InitIInv, NextIInv, PTL DEF Spec

(* The queues, the processors and the words of the threads keep their      *)
(* types, and the position from which scheduler reads its queue without a   *)
(* test lies within it.                                                     *)
THEOREM TypeCorrect == Spec => []TypeOK
<1>1. IInv => TypeOK
  BY DEF IInv
<1>2. QED
  BY <1>1, Invariance, PTL

LEMMA AtMostOne ==
    ASSUME NEW S, \A i, j \in S : i = j
    PROVE  Cardinality(S) <= 1
<1>1. CASE S = {}
  BY <1>1, FS_EmptySet
<1>2. ASSUME NEW i \in S PROVE Cardinality(S) <= 1
  <2>1. S = {i}
    OBVIOUS
  <2>2. Cardinality(S) = 1
    BY <2>1, FS_Singleton
  <2>3. QED
    BY <2>2
<1>3. QED
  BY <1>1, <1>2

(* Who runs is queued, nobody is queued twice, the word, the processor and  *)
(* the queue of a thread agree unless a call is changing them, and no       *)
(* assertion of queue or dequeue fails but for the first module's thread    *)
(* and for those of drivers.                                                *)
THEOREM QueuesAgree == Spec => []StatesAgree
<1>1. ASSUME IInv PROVE StatesAgree
  <2>1. RunsQueued
    BY <1>1 DEF IInv, RunnersQueued, RunsQueued, TypeOK
  <2>2. ASSUME NEW t \in Threads
        PROVE  Cardinality({i \in DOMAIN queue[Home(t)] : queue[Home(t)][i] = t}) <= 1
    <3> DEFINE S == {i \in DOMAIN queue[Home(t)] : queue[Home(t)][i] = t}
    <3>1. \A i, j \in S : i = j
      BY <1>1, HomeIsCPU DEF IInv, Once
    <3> HIDE DEF S
    <3>2. Cardinality(S) <= 1
      BY <3>1, AtMostOne
    <3>3. QED
      BY <3>2 DEF S
  <2>3. QED
    BY <1>1, <2>1, <2>2 DEF IInv, Agreed, StatesAgree
<1>2. QED
  BY <1>1, Invariance, PTL

(* A line that the handler has masked has a thread on a queue that will     *)
(* acknowledge it, unless a driver refused the last interrupt or            *)
(* remove_last passed over a wait.                                          *)
THEOREM MaskedLineServed == Spec => []LineServed
<1>1. IInv => LineServed
  BY HomeIsCPU DEF IInv, LineAnswered, LineServed, HandlerFits
<1>2. QED
  BY <1>1, Invariance, PTL
=============================================================================
