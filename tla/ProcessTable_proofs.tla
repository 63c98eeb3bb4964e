------------------------- MODULE ProcessTable_proofs -------------------------
(***************************************************************************)
(* What the process table keeps for every finite set of threads and any    *)
(* processes: the counters of its locks are their holders, nobody waits    *)
(* for or holds the lock of a process that is being freed, and look-ups    *)
(* find the thread, the process and the count they were made for.          *)
(***************************************************************************)
EXTENDS ProcessTable, FiniteSetTheorems, WellFoundedInduction, TLAPS

(* One if it holds. *)
B(x) == IF x THEN 1 ELSE 0

(* Two sets that differ in one element at most. *)
LEMMA OneDiffers ==
    ASSUME NEW S, NEW T, NEW x, IsFiniteSet(S), S \ {x} = T \ {x}
    PROVE  /\ Cardinality(S) \in Nat /\ Cardinality(T) \in Nat
           /\ Cardinality(T) + B(x \in S) = Cardinality(S) + B(x \in T)
<1>1. IsFiniteSet(T)
  <2>1. IsFiniteSet(S \cup {x})
    BY FS_AddElement
  <2>2. T \subseteq S \cup {x}
    OBVIOUS
  <2>3. QED
    BY <2>1, <2>2, FS_Subset
<1>2. Cardinality(S) \in Nat /\ Cardinality(T) \in Nat
  BY <1>1, FS_CardinalityType
<1>3. CASE x \in S /\ x \in T
  <2>1. S = T
    BY <1>3
  <2>2. QED
    BY <1>2, <1>3, <2>1 DEF B
<1>4. CASE x \notin S /\ x \notin T
  <2>1. S = T
    BY <1>4
  <2>2. QED
    BY <1>2, <1>4, <2>1 DEF B
<1>5. CASE x \in S /\ x \notin T
  <2>1. S = T \cup {x}
    BY <1>5
  <2>2. Cardinality(S) = Cardinality(T) + 1
    BY <1>1, <1>5, <2>1, FS_AddElement
  <2>3. QED
    BY <1>2, <1>5, <2>2 DEF B
<1>6. CASE x \notin S /\ x \in T
  <2>1. T = S \cup {x}
    BY <1>6
  <2>2. Cardinality(T) = Cardinality(S) + 1
    BY <1>6, <2>1, FS_AddElement
  <2>3. QED
    BY <1>2, <1>6, <2>2 DEF B
<1>7. QED
  BY <1>3, <1>4, <1>5, <1>6

LEMMA AgentsFinite == IsFiniteSet(Agents) /\ Threads \subseteq Agents /\ GC \in Agents /\ GC \notin Threads
<1>1. IsFiniteSet(Threads \cup {GC})
  BY ThreadsAssumption, FS_AddElement
<1>2. QED
  BY <1>1, ThreadsAssumption DEF Agents
-----------------------------------------------------------------------------
(* A lock with a writer has no other holder. *)
Exclusive(l) == l.writers # 0 => l.writers = 1 /\ l.readers = 0

LEMMA LockSteps ==
    ASSUME NEW l \in LockType, Exclusive(l)
    PROVE  /\ ReadGranted(l) => /\ TakeRead(l) \in LockType /\ Exclusive(TakeRead(l))
                                /\ TakeRead(l).readers = l.readers + 1 /\ TakeRead(l).writers = l.writers
           /\ WriteGranted(l) => /\ TakeWrite(l) \in LockType /\ Exclusive(TakeWrite(l))
                                 /\ TakeWrite(l).readers = l.readers /\ TakeWrite(l).writers = l.writers + 1
           /\ /\ AskWrite(l) \in LockType /\ Exclusive(AskWrite(l))
              /\ AskWrite(l).readers = l.readers /\ AskWrite(l).writers = l.writers
           /\ l.writers > 0 => /\ Release(l) \in LockType /\ Exclusive(Release(l))
                               /\ Release(l).readers = l.readers /\ Release(l).writers = l.writers - 1
           /\ l.readers > 0 => /\ Release(l) \in LockType /\ Exclusive(Release(l))
                               /\ Release(l).readers = l.readers - 1 /\ Release(l).writers = l.writers
<1>1. /\ l.readers \in Int /\ l.writers \in Nat /\ l.request \in BOOLEAN
      /\ l.writers # 0 => l.writers = 1 /\ l.readers = 0
  BY DEF LockType, Exclusive
<1>3. ASSUME ReadGranted(l)
      PROVE  /\ TakeRead(l) \in LockType /\ Exclusive(TakeRead(l))
             /\ TakeRead(l).readers = l.readers + 1 /\ TakeRead(l).writers = l.writers
  <2>1. TakeRead(l) \in LockType
    BY DEF TakeRead, LockType
  <2>2. TakeRead(l).readers = l.readers + 1 /\ TakeRead(l).writers = l.writers
    BY DEF TakeRead, LockType
  <2>3. l.writers = 0
    BY <1>3 DEF ReadGranted
  <2>4. QED
    BY <2>1, <2>2, <2>3 DEF Exclusive
<1>4. ASSUME WriteGranted(l)
      PROVE  /\ TakeWrite(l) \in LockType /\ Exclusive(TakeWrite(l))
             /\ TakeWrite(l).readers = l.readers /\ TakeWrite(l).writers = l.writers + 1
  <2>1. TakeWrite(l) \in LockType
    BY DEF TakeWrite, LockType
  <2>2. TakeWrite(l).readers = l.readers /\ TakeWrite(l).writers = l.writers + 1
    BY DEF TakeWrite, LockType
  <2>3. l.writers = 0 /\ l.readers = 0
    BY <1>4 DEF WriteGranted
  <2>4. QED
    BY <2>1, <2>2, <2>3 DEF Exclusive
<1>5. /\ AskWrite(l) \in LockType /\ Exclusive(AskWrite(l))
      /\ AskWrite(l).readers = l.readers /\ AskWrite(l).writers = l.writers
  <2>1. AskWrite(l) \in LockType
    BY DEF AskWrite, LockType
  <2>2. AskWrite(l).readers = l.readers /\ AskWrite(l).writers = l.writers
    BY DEF AskWrite, LockType
  <2>3. QED
    BY <1>1, <2>1, <2>2 DEF Exclusive
<1>6. ASSUME l.writers > 0
      PROVE  /\ Release(l) \in LockType /\ Exclusive(Release(l))
             /\ Release(l).readers = l.readers /\ Release(l).writers = l.writers - 1
  <2>1. Release(l) = [readers |-> l.readers, writers |-> 0, request |-> FALSE] /\ l.writers = 1
    BY <1>1, <1>6 DEF Release
  <2>2. Release(l) \in LockType
    BY <1>1, <2>1 DEF LockType
  <2>3. Release(l).readers = l.readers /\ Release(l).writers = 0
    BY <2>1
  <2>4. QED
    BY <2>1, <2>2, <2>3 DEF Exclusive
<1>7. ASSUME l.readers > 0
      PROVE  /\ Release(l) \in LockType /\ Exclusive(Release(l))
             /\ Release(l).readers = l.readers - 1 /\ Release(l).writers = l.writers
  <2>1. l.writers = 0
    BY <1>1, <1>7
  <2>2. Release(l) = [l EXCEPT !.readers = @ - 1]
    BY <2>1 DEF Release
  <2>3. Release(l) \in LockType
    BY <2>2 DEF LockType
  <2>4. Release(l).readers = l.readers - 1 /\ Release(l).writers = l.writers
    BY <2>2 DEF LockType
  <2>5. QED
    BY <2>1, <2>3, <2>4 DEF Exclusive
<1>8. QED
  BY <1>3, <1>4, <1>5, <1>6, <1>7

ListWriters == {a \in Agents : At(a, "writing")}

(* Who works on a process: waits for its lock or holds it. *)
Touches(a, p) ==
    \/ pc[a] \in OnTarget \cup {"wantProc"} /\ Target(a) = p
    \/ pc[a] \in {"wantOwn", "cloning"} /\ a \in Threads /\ Home[a] = p

(* The child of an exec that has not reached the table is that exec's own. *)
Making(t) == pc[t] \in {"wantWrite", "writing"}
ChildrenOwn ==
    /\ \A t \in Threads : Making(t) => Op(t) = "exec" /\ proc[Target(t)] = "made"
    /\ \A t, u \in Threads : Making(t) /\ Making(u) /\ t # u => Target(t) # Target(u)

PlacesFit ==
    /\ \A a \in Agents : pc[a] \in {"wantOwn", "cloning"} => a \in Threads /\ Op(a) = "exec"
    /\ At(GC, "freeing") => proc[Target(GC)] = "detached"

WorkedOnLives == \A a \in Agents, p \in Procs : Touches(a, p) => p \in Table

LocksExclude == Exclusive(list) /\ \A p \in Procs : Exclusive(plock[p])

IInv == TypeOK /\ LocksMatchHolders /\ LocksExclude /\ PlacesFit /\ ChildrenOwn /\ WorkedOnLives

LEMMA HoldersFinite ==
    /\ IsFiniteSet(ListOnce) /\ IsFiniteSet(ListTwice) /\ IsFiniteSet(ListWriters)
    /\ \A p : IsFiniteSet(ReadersOf(p)) /\ IsFiniteSet(WritersOf(p))
<1>1. /\ ListOnce \subseteq Agents /\ ListTwice \subseteq Agents /\ ListWriters \subseteq Agents
      /\ \A p : ReadersOf(p) \subseteq Agents /\ WritersOf(p) \subseteq Agents
  BY AgentsFinite DEF ListOnce, ListTwice, ListWriters, ReadersOf, WritersOf
<1>2. QED
  BY <1>1, AgentsFinite, FS_Subset

(* Whoever holds a lock is counted there. *)
LEMMA HolderCounted ==
    ASSUME IInv
    PROVE  /\ \A a \in ListOnce \cup ListTwice : list.readers > 0 /\ list.writers = 0
           /\ \A a \in ListWriters : list.writers = 1 /\ list.readers = 0
           /\ \A p \in Procs : \A a \in ReadersOf(p) : plock[p].readers > 0 /\ plock[p].writers = 0
           /\ \A p \in Procs : \A a \in WritersOf(p) : plock[p].writers = 1 /\ plock[p].readers = 0
<1>1. ASSUME NEW S, IsFiniteSet(S), NEW x \in S PROVE Cardinality(S) \in Nat /\ Cardinality(S) > 0
  BY <1>1, FS_EmptySet, FS_CardinalityType
<1>2. /\ list.readers = Cardinality(ListOnce) + Cardinality(ListTwice)
      /\ list.writers = Cardinality(ListWriters)
      /\ \A p \in Procs : /\ plock[p].readers = Cardinality(ReadersOf(p))
                          /\ plock[p].writers = Cardinality(WritersOf(p))
  BY DEF IInv, LocksMatchHolders, ListWriters
<1>3. Cardinality(ListOnce) \in Nat /\ Cardinality(ListTwice) \in Nat
  BY HoldersFinite, FS_CardinalityType
<1>4. \A a \in ListOnce \cup ListTwice : list.readers > 0 /\ list.writers = 0
  <2>1. ASSUME NEW a \in ListOnce \cup ListTwice PROVE list.readers > 0
    <3>1. Cardinality(ListOnce) > 0 \/ Cardinality(ListTwice) > 0
      BY <1>1, HoldersFinite
    <3>2. QED
      BY <1>2, <1>3, <3>1
  <2>2. QED
    BY <2>1 DEF IInv, LocksExclude, Exclusive
<1>5. \A a \in ListWriters : list.writers = 1 /\ list.readers = 0
  <2>1. ASSUME NEW a \in ListWriters PROVE list.writers > 0
    BY <1>1, <1>2, HoldersFinite
  <2>2. QED
    BY <2>1 DEF IInv, LocksExclude, Exclusive
<1>6. \A p \in Procs : \A a \in ReadersOf(p) : plock[p].readers > 0 /\ plock[p].writers = 0
  <2>1. ASSUME NEW p \in Procs, NEW a \in ReadersOf(p) PROVE plock[p].readers > 0
    BY <1>1, <1>2, HoldersFinite
  <2>2. QED
    BY <2>1 DEF IInv, LocksExclude, Exclusive
<1>7. \A p \in Procs : \A a \in WritersOf(p) : plock[p].writers = 1 /\ plock[p].readers = 0
  <2>1. ASSUME NEW p \in Procs, NEW a \in WritersOf(p) PROVE plock[p].writers > 0
    BY <1>1, <1>2, HoldersFinite
  <2>2. QED
    BY <2>1 DEF IInv, LocksExclude, Exclusive
<1>8. QED
  BY <1>4, <1>5, <1>6, <1>7

(* The counters follow the one agent that moves. *)
OthersStay(a) == \A b \in Agents : b # a => pc'[b] = pc[b] /\ call'[b] = call[b]

CountsFollow(a) ==
    /\ list'.readers + B(a \in ListOnce) + B(a \in ListTwice)
            = list.readers + B(a \in ListOnce') + B(a \in ListTwice')
    /\ list'.writers + B(a \in ListWriters) = list.writers + B(a \in ListWriters')
    /\ \A p \in Procs :
        /\ plock'[p].readers + B(a \in ReadersOf(p)) = plock[p].readers + B(a \in ReadersOf(p)')
        /\ plock'[p].writers + B(a \in WritersOf(p)) = plock[p].writers + B(a \in WritersOf(p)')

LEMMA CountsKept ==
    ASSUME IInv, NEW a \in Agents, OthersStay(a), CountsFollow(a),
           list' \in LockType, plock' \in [Procs -> LockType]
    PROVE  LocksMatchHolders'
<1>1. ListOnce \ {a} = ListOnce' \ {a}
  BY DEF OthersStay, ListOnce
<1>2. ListTwice \ {a} = ListTwice' \ {a}
  BY AgentsFinite DEF OthersStay, ListTwice
<1>3. ListWriters \ {a} = ListWriters' \ {a}
  BY DEF OthersStay, ListWriters, At
<1>4. \A p : WritersOf(p) \ {a} = WritersOf(p)' \ {a}
  BY DEF OthersStay, WritersOf, Target, Op
<1>5. \A p : ReadersOf(p) \ {a} = ReadersOf(p)' \ {a}
  BY AgentsFinite DEF OthersStay, ReadersOf, Target, Op, At
<1>6. list'.readers = Cardinality(ListOnce') + Cardinality(ListTwice')
  <2>1. list.readers = Cardinality(ListOnce) + Cardinality(ListTwice)
    BY DEF IInv, LocksMatchHolders
  <2>2. /\ Cardinality(ListOnce) \in Nat /\ Cardinality(ListOnce') \in Nat
        /\ Cardinality(ListOnce') + B(a \in ListOnce) = Cardinality(ListOnce) + B(a \in ListOnce')
    BY <1>1, HoldersFinite, OneDiffers
  <2>3. /\ Cardinality(ListTwice) \in Nat /\ Cardinality(ListTwice') \in Nat
        /\ Cardinality(ListTwice') + B(a \in ListTwice) = Cardinality(ListTwice) + B(a \in ListTwice')
    BY <1>2, HoldersFinite, OneDiffers
  <2>4. list'.readers \in Int
    BY DEF LockType
  <2>5. QED
    BY <2>1, <2>2, <2>3, <2>4 DEF CountsFollow, B
<1>7. list'.writers = Cardinality(ListWriters')
  <2>1. list.writers = Cardinality(ListWriters)
    BY DEF IInv, LocksMatchHolders, ListWriters
  <2>2. /\ Cardinality(ListWriters) \in Nat /\ Cardinality(ListWriters') \in Nat
        /\ Cardinality(ListWriters') + B(a \in ListWriters) = Cardinality(ListWriters) + B(a \in ListWriters')
    BY <1>3, HoldersFinite, OneDiffers
  <2>3. list'.writers \in Nat
    BY DEF LockType
  <2>4. QED
    BY <2>1, <2>2, <2>3 DEF CountsFollow, B
<1>8. ASSUME NEW p \in Procs
      PROVE  plock'[p].readers = Cardinality(ReadersOf(p)') /\ plock'[p].writers = Cardinality(WritersOf(p)')
  <2>1. plock[p].readers = Cardinality(ReadersOf(p)) /\ plock[p].writers = Cardinality(WritersOf(p))
    BY DEF IInv, LocksMatchHolders
  <2>2. /\ Cardinality(ReadersOf(p)) \in Nat /\ Cardinality(ReadersOf(p)') \in Nat
        /\ Cardinality(ReadersOf(p)') + B(a \in ReadersOf(p)) = Cardinality(ReadersOf(p)) + B(a \in ReadersOf(p)')
    BY <1>5, HoldersFinite, OneDiffers
  <2>3. /\ Cardinality(WritersOf(p)) \in Nat /\ Cardinality(WritersOf(p)') \in Nat
        /\ Cardinality(WritersOf(p)') + B(a \in WritersOf(p)) = Cardinality(WritersOf(p)) + B(a \in WritersOf(p)')
    BY <1>4, HoldersFinite, OneDiffers
  <2>4. plock'[p].readers \in Int /\ plock'[p].writers \in Nat
    BY DEF LockType
  <2>5. QED
    BY <2>1, <2>2, <2>3, <2>4 DEF CountsFollow, B
<1>9. QED
  BY <1>6, <1>7, <1>8 DEF LocksMatchHolders, ListWriters

-----------------------------------------------------------------------------
(* Where one agent is counted. *)
LEMMA PlacesOf ==
    ASSUME NEW a \in Agents
    PROVE  /\ a \in ListOnce <=> pc[a] \in OnTarget \cup {"wantProc"}
           /\ a \in ListTwice <=> a \in Threads /\ pc[a] \in {"wantOwn", "cloning"}
           /\ a \in ListWriters <=> pc[a] = "writing"
           /\ \A p : a \in ReadersOf(p) <=>
                 \/ Target(a) = p /\ Op(a) = "read" /\ pc[a] \in OnTarget
                 \/ a \in Threads /\ pc[a] = "cloning" /\ Home[a] = p
           /\ \A p : a \in WritersOf(p) <=> Target(a) = p /\ Op(a) # "read" /\ pc[a] \in OnTarget
           /\ a \in ListOnce' <=> pc'[a] \in OnTarget \cup {"wantProc"}
           /\ a \in ListTwice' <=> a \in Threads /\ pc'[a] \in {"wantOwn", "cloning"}
           /\ a \in ListWriters' <=> pc'[a] = "writing"
           /\ \A p : a \in ReadersOf(p)' <=>
                 \/ Target(a)' = p /\ Op(a)' = "read" /\ pc'[a] \in OnTarget
                 \/ a \in Threads /\ pc'[a] = "cloning" /\ Home[a] = p
           /\ \A p : a \in WritersOf(p)' <=> Target(a)' = p /\ Op(a)' # "read" /\ pc'[a] \in OnTarget
BY DEF ListOnce, ListTwice, ListWriters, ReadersOf, WritersOf, At

(* A step that moves one agent, and calls nothing anew. *)
LEMMA Moved ==
    ASSUME IInv, NEW a \in Agents, NEW s \in Places, Goto(a, s), call' = call
    PROVE  /\ OthersStay(a) /\ pc'[a] = s /\ pc' \in [Agents -> Places]
           /\ Target(a)' = Target(a) /\ Op(a)' = Op(a)
           /\ call' \in [Agents -> [op : Ops, target : Procs]]
<1>1. pc \in [Agents -> Places] /\ call \in [Agents -> [op : Ops, target : Procs]]
  BY DEF IInv, TypeOK
<1>2. pc' = [pc EXCEPT ![a] = s]
  BY DEF Goto
<1>3. QED
  BY <1>1, <1>2 DEF OthersStay, Target, Op

(* Steps that leave the locks alone, and their agent where it holds what it *)
(* held.                                                                    *)
Holds(s) == s \in OnTarget \cup {"wantProc", "writing"}

LEMMA LocksAlone ==
    ASSUME IInv, NEW a \in Agents, OthersStay(a), list' = list, plock' = plock,
           \/ ~Holds(pc[a]) /\ ~Holds(pc'[a])
           \/ /\ pc[a] \in {"holding", "putProc"} /\ pc'[a] \in {"holding", "putProc"}
              /\ Target(a)' = Target(a) /\ (Op(a)' = "read" <=> Op(a) = "read")
    PROVE  LocksMatchHolders' /\ LocksExclude'
<1>1. list' \in LockType /\ plock' \in [Procs -> LockType]
  BY DEF IInv, TypeOK
<1>2. LocksExclude'
  BY DEF IInv, LocksExclude
<1>3. /\ a \in ListOnce <=> a \in ListOnce'
      /\ a \in ListTwice <=> a \in ListTwice'
      /\ a \in ListWriters <=> a \in ListWriters'
      /\ \A p : a \in ReadersOf(p) <=> a \in ReadersOf(p)'
      /\ \A p : a \in WritersOf(p) <=> a \in WritersOf(p)'
  BY PlacesOf DEF Holds, OnTarget
<1>4. CountsFollow(a)
  BY <1>3 DEF CountsFollow, B
<1>5. QED
  BY <1>1, <1>2, <1>4, CountsKept

(* What becomes of the processes in most steps. *)
TableKept ==
    \A p \in Procs : proc'[p] = proc[p] \/ (p \in Table /\ p \in Table')

LEMMA PlainMove ==
    ASSUME IInv, NEW a \in Agents, OthersStay(a), TableKept,
           pc'[a] \notin {"wantOwn", "cloning", "freeing"},
           a \in Threads => pc'[a] \notin {"wantWrite", "writing"},
           \A p \in Procs : Touches(a, p)' => Touches(a, p) \/ p \in Table
    PROVE  PlacesFit' /\ ChildrenOwn' /\ WorkedOnLives'
<1>1. \A b \in Agents : b # a => pc'[b] = pc[b] /\ Target(b)' = Target(b) /\ Op(b)' = Op(b)
  BY DEF OthersStay, Target, Op
<1>2. \A b \in Agents : Target(b) \in Procs
  BY DEF IInv, TypeOK, Target
<1>3. \A p \in Procs : p \in Table => p \in Table'
  BY DEF TableKept, Table
<1>4. \A p \in Procs : proc[p] \in {"made", "detached"} => proc'[p] = proc[p]
  BY DEF TableKept, Table, Ending
<1>5. PlacesFit'
  <2>1. \A b \in Agents : pc'[b] \in {"wantOwn", "cloning"} => b \in Threads /\ Op(b)' = "exec"
    BY <1>1 DEF IInv, PlacesFit
  <2>2. ASSUME pc'[GC] = "freeing" PROVE proc'[Target(GC)'] = "detached"
    <3>1. GC # a /\ GC \in Agents
      BY <2>2, AgentsFinite
    <3>2. proc[Target(GC)] = "detached"
      BY <1>1, <2>2, <3>1 DEF IInv, PlacesFit, At
    <3>3. QED
      BY <1>1, <1>2, <1>4, <3>1, <3>2
  <2>3. QED
    BY <2>1, <2>2 DEF PlacesFit, At
<1>6. ChildrenOwn'
  <2>1. \A t \in Threads : Making(t)' => t # a /\ Making(t) /\ Target(t)' = Target(t) /\ Op(t)' = Op(t)
    BY <1>1, AgentsFinite DEF Making
  <2>2. \A t \in Threads : Making(t)' => Op(t)' = "exec" /\ proc'[Target(t)'] = "made"
    BY <1>2, <1>4, <2>1, AgentsFinite DEF IInv, ChildrenOwn
  <2>3. QED
    BY <2>1, <2>2 DEF IInv, ChildrenOwn
<1>7. WorkedOnLives'
  <2>1. \A b \in Agents, p \in Procs : b # a /\ Touches(b, p)' => Touches(b, p)
    BY <1>1 DEF Touches
  <2>2. QED
    BY <1>3, <2>1 DEF IInv, WorkedOnLives
<1>8. QED
  BY <1>5, <1>6, <1>7

(* Steps in which nobody in the kernel moves. *)
LEMMA NobodyMoves ==
    ASSUME IInv, list' = list, plock' = plock, pc' = pc, call' = call, TableKept
    PROVE  LocksMatchHolders' /\ LocksExclude' /\ PlacesFit' /\ ChildrenOwn' /\ WorkedOnLives'
<1>1. /\ ListOnce' = ListOnce /\ ListTwice' = ListTwice
      /\ {a \in Agents : At(a, "writing")}' = {a \in Agents : At(a, "writing")}
      /\ \A p : ReadersOf(p)' = ReadersOf(p) /\ WritersOf(p)' = WritersOf(p)
  BY DEF ListOnce, ListTwice, ReadersOf, WritersOf, At, Target, Op
<1>2. LocksMatchHolders' /\ LocksExclude'
  BY <1>1 DEF IInv, LocksMatchHolders, LocksExclude
<1>3. \A p \in Procs : /\ p \in Table => p \in Table'
                       /\ proc[p] \in {"made", "detached"} => proc'[p] = proc[p]
  BY DEF TableKept, Table, Ending
<1>4. \A b \in Agents : Target(b) \in Procs /\ Target(b)' = Target(b) /\ Op(b)' = Op(b)
  BY DEF IInv, TypeOK, Target, Op
<1>5. PlacesFit'
  BY <1>3, <1>4, AgentsFinite DEF IInv, PlacesFit, At
<1>6. ChildrenOwn'
  BY <1>3, <1>4, AgentsFinite DEF IInv, ChildrenOwn, Making
<1>7. WorkedOnLives'
  BY <1>3, <1>4 DEF IInv, WorkedOnLives, Touches
<1>8. QED
  BY <1>2, <1>5, <1>6, <1>7
-----------------------------------------------------------------------------
(* The way in and out.                                                      *)
LEMMA NoCallTyped == NoCall \in [op : Ops, target : Procs]
<1>1. \E p \in Procs : TRUE
  BY HomesAssumption
<1>2. (CHOOSE p \in Procs : TRUE) \in Procs
  BY <1>1
<1>3. QED
  BY <1>2 DEF NoCall, Ops

(* A step that moves a thread outside, and nothing else that matters here. *)
LEMMA OutsideStep ==
    ASSUME IInv, NEW a \in Agents, OthersStay(a), UNCHANGED locks, TableKept,
           ~Holds(pc[a]), ~Holds(pc'[a]),
           pc'[a] \notin {"wantOwn", "cloning", "freeing"},
           a \in Threads => pc'[a] # "wantWrite"
    PROVE  LocksMatchHolders' /\ LocksExclude' /\ PlacesFit' /\ ChildrenOwn' /\ WorkedOnLives'
<1>1. list' = list /\ plock' = plock
  BY DEF locks
<1>2. LocksMatchHolders' /\ LocksExclude'
  BY <1>1, LocksAlone
<1>3. \A p \in Procs : ~Touches(a, p)'
  BY DEF Touches, Holds
<1>4. PlacesFit' /\ ChildrenOwn' /\ WorkedOnLives'
  BY <1>3, PlainMove DEF Holds
<1>5. QED
  BY <1>2, <1>4

LEMMA TrapKeeps == ASSUME IInv, NEW t \in Threads, Trap(t) PROVE IInv'
<1>1. t \in Agents /\ UNCHANGED locks /\ proc' = proc
  BY AgentsFinite DEF Trap, life
<1>2. PICK s \in {"barred", "trapped"} : Goto(t, s) /\ call' = call /\ pc[t] = "user"
  BY DEF Trap, At
<1>3. /\ OthersStay(t) /\ pc'[t] = s /\ pc' \in [Agents -> Places]
      /\ call' \in [Agents -> [op : Ops, target : Procs]]
  BY <1>1, <1>2, Moved DEF Places
<1>4. TypeOK'
  BY <1>3 DEF IInv, TypeOK, Trap, locks, life, collector
<1>5. QED
  BY <1>1, <1>2, <1>3, <1>4, OutsideStep DEF IInv, Holds, OnTarget, TableKept

LEMMA CrashKeeps == ASSUME IInv, NEW t \in Threads, Crash(t) PROVE IInv'
<1>1. t \in Agents /\ UNCHANGED locks /\ Home[t] \in Procs
  BY AgentsFinite, HomesAssumption DEF Crash
<1>2. Goto(t, "looping") /\ call' = call /\ pc[t] = "user"
  BY DEF Crash, At
<1>3. /\ OthersStay(t) /\ pc'[t] = "looping" /\ pc' \in [Agents -> Places]
      /\ call' \in [Agents -> [op : Ops, target : Procs]]
  BY <1>1, <1>2, Moved DEF Places
<1>4. proc' \in [Procs -> Lives] /\ status' \in [Threads -> Statuses]
  BY DEF IInv, TypeOK, Crash, Lives, Statuses
<1>5. TypeOK'
  BY <1>3, <1>4 DEF IInv, TypeOK, Crash, locks, collector
<1>6. TableKept
  <2>1. Home[t] \in Table
    BY <1>1 DEF Crash, Runs, Table
  <2>2. proc'[Home[t]] = "crashing" /\ \A p \in Procs : p # Home[t] => proc'[p] = proc[p]
    BY <1>1 DEF IInv, TypeOK, Crash
  <2>3. QED
    BY <2>1, <2>2 DEF TableKept, Table, Ending
<1>7. QED
  BY <1>1, <1>2, <1>3, <1>5, <1>6, OutsideStep DEF IInv, Holds, OnTarget

LEMMA LeaveKeeps == ASSUME IInv, NEW t \in Threads, Leave(t) PROVE IInv'
<1>1. t \in Agents /\ UNCHANGED locks /\ proc' = proc /\ pc[t] = "leaving"
  BY AgentsFinite DEF Leave, life, At
<1>2. /\ pc' = [pc EXCEPT ![t] = "user"] /\ call' = [call EXCEPT ![t] = NoCall]
      /\ pc \in [Agents -> Places] /\ call \in [Agents -> [op : Ops, target : Procs]]
  BY DEF Leave, Goto, IInv, TypeOK
<1>3. /\ OthersStay(t) /\ pc'[t] = "user" /\ pc' \in [Agents -> Places]
      /\ call' \in [Agents -> [op : Ops, target : Procs]]
  BY <1>1, <1>2, NoCallTyped DEF OthersStay, Places
<1>4. kernel' \in [Procs -> Int]
  <2>1. kernel' = [kernel EXCEPT ![Home[t]] = @ - 1]
    BY DEF Leave
  <2>2. kernel \in [Procs -> Int] /\ Home[t] \in Procs
    BY HomesAssumption DEF IInv, TypeOK
  <2>3. QED
    BY <2>1, <2>2
<1>5. TypeOK'
  BY <1>3, <1>4 DEF IInv, TypeOK, Leave, locks, life, collector
<1>6. QED
  BY <1>1, <1>3, <1>5, OutsideStep DEF IInv, Holds, OnTarget, TableKept

(* The ways back from a sleep. *)
LEMMA BackKeeps == ASSUME IInv, NEW t \in Threads, Resume(t) \/ Return(t) PROVE IInv'
<1>1. t \in Agents /\ UNCHANGED locks /\ proc' = proc /\ status' = status /\ pc[t] \in {"resuming", "exited"}
  BY AgentsFinite DEF Resume, Return, life, At
<1>2. Goto(t, "leaving") /\ call' = call
  BY DEF Resume, Return
<1>3. /\ OthersStay(t) /\ pc'[t] = "leaving" /\ pc' \in [Agents -> Places]
      /\ call' \in [Agents -> [op : Ops, target : Procs]]
  BY <1>1, <1>2, Moved DEF Places, Inside
<1>4. kernel' \in [Procs -> Int]
  <2>1. kernel \in [Procs -> Int] /\ Home[t] \in Procs
    BY HomesAssumption DEF IInv, TypeOK
  <2>2. CASE Resume(t)
    <3>1. kernel' = [kernel EXCEPT ![Home[t]] = @ + 1]
      BY <2>2 DEF Resume
    <3>2. QED
      BY <2>1, <3>1
  <2>3. CASE Return(t)
    BY <2>1, <2>3 DEF Return
  <2>4. QED
    BY <2>2, <2>3
<1>5. UNCHANGED <<collector, upset>>
  BY DEF Resume, Return
<1>6. TypeOK'
  BY <1>1, <1>3, <1>4, <1>5 DEF IInv, TypeOK, locks, collector
<1>7. QED
  BY <1>1, <1>3, <1>6, OutsideStep DEF IInv, Holds, OnTarget, TableKept

LEMMA EnterKeeps == ASSUME IInv, NEW t \in Threads, Enter(t) PROVE IInv'
<1>1. /\ t \in Agents /\ UNCHANGED locks /\ pc[t] = "trapped" /\ status' = status
      /\ tasks' = tasks /\ slot' = slot /\ upset' = upset
  BY AgentsFinite DEF Enter, At, collector
<1>2. pc \in [Agents -> Places] /\ call \in [Agents -> [op : Ops, target : Procs]]
  BY DEF IInv, TypeOK
<1>3. kernel' \in [Procs -> Int]
  <2>1. kernel' = [kernel EXCEPT ![Home[t]] = @ + 1]
    BY DEF Enter
  <2>2. kernel \in [Procs -> Int] /\ Home[t] \in Procs
    BY HomesAssumption DEF IInv, TypeOK
  <2>3. QED
    BY <2>1, <2>2
<1>4. ASSUME NEW op \in Ops, NEW p \in Procs, NEW s \in Places,
             call' = [call EXCEPT ![t] = [op |-> op, target |-> p]], Goto(t, s)
      PROVE  /\ OthersStay(t) /\ pc'[t] = s /\ pc' \in [Agents -> Places]
             /\ call' \in [Agents -> [op : Ops, target : Procs]]
             /\ Op(t)' = op /\ Target(t)' = p
  <2>1. pc' = [pc EXCEPT ![t] = s]
    BY <1>4 DEF Goto
  <2>2. [op |-> op, target |-> p] \in [op : Ops, target : Procs]
    OBVIOUS
  <2>3. QED
    BY <1>1, <1>2, <1>4, <2>1, <2>2 DEF OthersStay, Op, Target
<1>5. CASE \E op \in {"read", "write"}, p \in Procs :
            /\ call' = [call EXCEPT ![t] = [op |-> op, target |-> p]]
            /\ Goto(t, "wantList")
            /\ UNCHANGED proc
  <2>1. PICK op \in {"read", "write"}, p \in Procs :
            /\ call' = [call EXCEPT ![t] = [op |-> op, target |-> p]]
            /\ Goto(t, "wantList")
            /\ UNCHANGED proc
    BY <1>5
  <2>2. op \in Ops /\ "wantList" \in Places
    BY DEF Ops, Places, Inside
  <2>3. /\ OthersStay(t) /\ pc'[t] = "wantList" /\ pc' \in [Agents -> Places]
        /\ call' \in [Agents -> [op : Ops, target : Procs]]
    BY <1>4, <2>1, <2>2
  <2>4. TypeOK'
    BY <1>1, <1>3, <2>1, <2>3 DEF IInv, TypeOK, locks
  <2>5. QED
    BY <1>1, <2>1, <2>3, <2>4, OutsideStep DEF IInv, Holds, OnTarget, TableKept
<1>6. CASE \E p \in Procs :
            /\ proc[p] = "unborn"
            /\ proc' = [proc EXCEPT ![p] = "made"]
            /\ call' = [call EXCEPT ![t] = [op |-> "exec", target |-> p]]
            /\ Goto(t, "wantWrite")
  <2>1. PICK p \in Procs :
            /\ proc[p] = "unborn"
            /\ proc' = [proc EXCEPT ![p] = "made"]
            /\ call' = [call EXCEPT ![t] = [op |-> "exec", target |-> p]]
            /\ Goto(t, "wantWrite")
    BY <1>6
  <2>2. "exec" \in Ops /\ "wantWrite" \in Places
    BY DEF Ops, Places, Inside
  <2>3. /\ OthersStay(t) /\ pc'[t] = "wantWrite" /\ pc' \in [Agents -> Places]
        /\ call' \in [Agents -> [op : Ops, target : Procs]]
        /\ Op(t)' = "exec" /\ Target(t)' = p
    BY <1>4, <2>1, <2>2
  <2>4. proc' \in [Procs -> Lives] /\ proc'[p] = "made" /\ \A q \in Procs : q # p => proc'[q] = proc[q]
    BY <2>1 DEF IInv, TypeOK, Lives
  <2>5. TypeOK'
    BY <1>1, <1>3, <2>3, <2>4 DEF IInv, TypeOK, locks
  <2>6. \A b \in Agents : b # t => pc'[b] = pc[b] /\ Target(b)' = Target(b) /\ Op(b)' = Op(b)
    BY <2>3 DEF OthersStay, Target, Op
  <2>7. \A b \in Agents : Target(b) \in Procs
    BY <1>2 DEF Target
  <2>8. LocksMatchHolders' /\ LocksExclude'
    BY <1>1, <2>3, LocksAlone DEF Holds, OnTarget, locks
  <2>9. PlacesFit'
    <3>1. \A b \in Agents : pc'[b] \in {"wantOwn", "cloning"} => b \in Threads /\ Op(b)' = "exec"
      BY <2>3, <2>6 DEF IInv, PlacesFit
    <3>2. pc'[GC] = "freeing" => proc'[Target(GC)'] = "detached"
      BY <2>1, <2>4, <2>6, <2>7, AgentsFinite DEF IInv, PlacesFit, At
    <3>3. QED
      BY <3>1, <3>2 DEF PlacesFit, At
  <2>10. ChildrenOwn'
    <3>1. \A u \in Threads : u # t /\ Making(u)' =>
                /\ Making(u) /\ Op(u)' = "exec" /\ Target(u)' = Target(u)
                /\ proc[Target(u)] = "made" /\ Target(u) # p /\ proc'[Target(u)] = "made"
      BY <2>1, <2>4, <2>6, <2>7, AgentsFinite DEF IInv, ChildrenOwn, Making
    <3>2. \A u \in Threads : Making(u)' => Op(u)' = "exec" /\ proc'[Target(u)'] = "made"
      BY <2>3, <2>4, <3>1
    <3>3. \A u, v \in Threads : Making(u)' /\ Making(v)' /\ u # v => Target(u)' # Target(v)'
      BY <2>3, <3>1 DEF IInv, ChildrenOwn
    <3>4. QED
      BY <3>2, <3>3 DEF ChildrenOwn
  <2>11. WorkedOnLives'
    <3>1. \A b \in Agents, q \in Procs : Touches(b, q)' => Touches(b, q)
      BY <2>3, <2>6 DEF Touches, OnTarget
    <3>2. \A q \in Procs : q \in Table => q \in Table'
      BY <2>1, <2>4 DEF Table, Ending
    <3>3. QED
      BY <3>1, <3>2 DEF IInv, WorkedOnLives
  <2>12. QED
    BY <2>5, <2>8, <2>9, <2>10, <2>11 DEF IInv
<1>7. QED
  BY <1>5, <1>6 DEF Enter
-----------------------------------------------------------------------------
(* Checkouts and commits.                                                   *)
LEMMA CheckoutListKeeps == ASSUME IInv, NEW a \in Agents, CheckoutList(a) PROVE IInv'
<1>1. /\ plock' = plock /\ proc' = proc /\ pc[a] = "wantList" /\ call' = call
      /\ Target(a) \in Procs
  BY DEF CheckoutList, life, At, IInv, TypeOK, Target
<1>2. list \in LockType /\ Exclusive(list)
  BY DEF IInv, TypeOK, LocksExclude
<1>3. TableKept
  BY <1>1 DEF TableKept
<1>4. CASE Target(a) \in Table
  <2>1. list' = TakeRead(list) /\ Goto(a, "wantProc") /\ ReadGranted(list)
    BY <1>4 DEF CheckoutList
  <2>2. /\ OthersStay(a) /\ pc'[a] = "wantProc" /\ pc' \in [Agents -> Places]
        /\ call' \in [Agents -> [op : Ops, target : Procs]] /\ Target(a)' = Target(a)
    BY <1>1, <2>1, Moved DEF Places, Inside
  <2>3. /\ list' \in LockType /\ Exclusive(list')
        /\ list'.readers = list.readers + 1 /\ list'.writers = list.writers
    BY <1>2, <2>1, LockSteps
  <2>4. TypeOK'
    BY <2>2, <2>3 DEF IInv, TypeOK, CheckoutList, life, collector
  <2>5. CountsFollow(a)
    <3>1. /\ a \notin ListOnce /\ a \in ListOnce' /\ a \notin ListTwice /\ a \notin ListTwice'
          /\ a \notin ListWriters /\ a \notin ListWriters'
          /\ \A p : a \notin ReadersOf(p) /\ a \notin ReadersOf(p)' /\ a \notin WritersOf(p) /\ a \notin WritersOf(p)'
      BY <1>1, <2>2, PlacesOf DEF OnTarget
    <3>2. list.readers \in Int /\ list.writers \in Nat
      BY <1>2 DEF LockType
    <3>3. QED
      BY <1>1, <2>3, <3>1, <3>2 DEF CountsFollow, B
  <2>6. LocksMatchHolders' /\ LocksExclude'
    BY <1>1, <2>2, <2>3, <2>5, CountsKept DEF IInv, TypeOK, LocksExclude
  <2>7. PlacesFit' /\ ChildrenOwn' /\ WorkedOnLives'
    <3>1. \A p \in Procs : Touches(a, p)' => p \in Table
      BY <1>4, <2>2 DEF Touches
    <3>2. QED
      BY <1>3, <2>2, <3>1, PlainMove
  <2>8. QED
    BY <2>4, <2>6, <2>7 DEF IInv
<1>5. CASE Target(a) \notin Table
  <2>1. PICK s \in {"missing", "leaving"} : Goto(a, s) /\ list' = list
    BY <1>5 DEF CheckoutList
  <2>2. /\ OthersStay(a) /\ pc'[a] = s /\ pc' \in [Agents -> Places]
        /\ call' \in [Agents -> [op : Ops, target : Procs]]
    BY <1>1, <2>1, Moved DEF Places, Inside
  <2>3. TypeOK'
    BY <2>1, <2>2 DEF IInv, TypeOK, CheckoutList, life, collector
  <2>4. QED
    BY <1>1, <1>3, <2>1, <2>2, <2>3, OutsideStep DEF IInv, Holds, OnTarget, locks
<1>6. QED
  BY <1>4, <1>5

LEMMA CheckoutProcKeeps == ASSUME IInv, NEW a \in Agents, CheckoutProc(a) PROVE IInv'
<1> DEFINE p == Target(a)
<1>1. /\ list' = list /\ proc' = proc /\ pc[a] = "wantProc" /\ call' = call
      /\ p \in Procs /\ UNCHANGED <<life, kernel, collector, upset>>
  BY DEF CheckoutProc, life, At, IInv, TypeOK, Target
<1>2. plock \in [Procs -> LockType] /\ plock[p] \in LockType /\ Exclusive(plock[p])
  BY <1>1 DEF IInv, TypeOK, LocksExclude
<1>3. TableKept
  BY <1>1 DEF TableKept
<1> HIDE DEF p
<1>4. CASE Goto(a, "holding")
  <2>1. /\ OthersStay(a) /\ pc'[a] = "holding" /\ pc' \in [Agents -> Places]
        /\ call' \in [Agents -> [op : Ops, target : Procs]] /\ Target(a)' = p /\ Op(a)' = Op(a)
    BY <1>1, <1>4, Moved DEF Places, Inside, p
  <2>2. /\ \/ Op(a) = "read" /\ ReadGranted(plock[p]) /\ plock' = [plock EXCEPT ![p] = TakeRead(@)]
           \/ Op(a) # "read" /\ WriteGranted(plock[p]) /\ plock' = [plock EXCEPT ![p] = TakeWrite(@)]
    <3>1. pc'[a] # pc[a]
      BY <1>1, <2>1
    <3>2. QED
      BY <3>1 DEF CheckoutProc, p
  <2>3. /\ plock' \in [Procs -> LockType] /\ Exclusive(plock'[p])
        /\ \A q \in Procs : q # p => plock'[q] = plock[q]
        /\ plock'[p].readers = plock[p].readers + B(Op(a) = "read")
        /\ plock'[p].writers = plock[p].writers + B(Op(a) # "read")
    <3>1. /\ plock[p].readers \in Int /\ plock[p].writers \in Nat
      BY <1>2 DEF LockType
    <3>2. CASE Op(a) = "read"
      <4>1. plock' = [plock EXCEPT ![p] = TakeRead(plock[p])] /\ ReadGranted(plock[p])
        BY <2>2, <3>2
      <4>2. /\ TakeRead(plock[p]) \in LockType /\ Exclusive(TakeRead(plock[p]))
            /\ TakeRead(plock[p]).readers = plock[p].readers + 1
            /\ TakeRead(plock[p]).writers = plock[p].writers
        BY <1>2, <4>1, LockSteps
      <4>3. QED
        BY <1>1, <1>2, <3>1, <3>2, <4>1, <4>2 DEF B
    <3>3. CASE Op(a) # "read"
      <4>1. plock' = [plock EXCEPT ![p] = TakeWrite(plock[p])] /\ WriteGranted(plock[p])
        BY <2>2, <3>3
      <4>2. /\ TakeWrite(plock[p]) \in LockType /\ Exclusive(TakeWrite(plock[p]))
            /\ TakeWrite(plock[p]).writers = plock[p].writers + 1
            /\ TakeWrite(plock[p]).readers = plock[p].readers
        BY <1>2, <4>1, LockSteps
      <4>3. QED
        BY <1>1, <1>2, <3>1, <3>3, <4>1, <4>2 DEF B
    <3>4. QED
      BY <3>2, <3>3
  <2>4. TypeOK'
    BY <1>1, <2>1, <2>3 DEF IInv, TypeOK, life, collector
  <2>5. CountsFollow(a)
    <3>1. /\ a \in ListOnce /\ a \in ListOnce' /\ a \notin ListTwice /\ a \notin ListTwice'
          /\ a \notin ListWriters /\ a \notin ListWriters'
          /\ \A q : a \notin ReadersOf(q) /\ a \notin WritersOf(q)
          /\ \A q : a \in ReadersOf(q)' <=> q = p /\ Op(a) = "read"
          /\ \A q : a \in WritersOf(q)' <=> q = p /\ Op(a) # "read"
      BY <1>1, <2>1, PlacesOf DEF OnTarget
    <3>2. \A q \in Procs : plock[q].readers \in Int /\ plock[q].writers \in Nat
      BY <1>2 DEF LockType
    <3>3. list.readers \in Int /\ list.writers \in Nat
      BY DEF IInv, TypeOK, LockType
    <3>4. ASSUME NEW q \in Procs
          PROVE  /\ plock'[q].readers + B(a \in ReadersOf(q)) = plock[q].readers + B(a \in ReadersOf(q)')
                 /\ plock'[q].writers + B(a \in WritersOf(q)) = plock[q].writers + B(a \in WritersOf(q)')
      <4>1. CASE q = p
        BY <2>3, <3>1, <3>2, <4>1 DEF B
      <4>2. CASE q # p
        BY <2>3, <3>1, <3>2, <4>2 DEF B
      <4>3. QED
        BY <4>1, <4>2
    <3>5. QED
      BY <1>1, <3>1, <3>3, <3>4 DEF CountsFollow, B
  <2>6. LocksMatchHolders' /\ LocksExclude'
    <3>1. LocksExclude'
      BY <1>1, <2>3 DEF IInv, LocksExclude
    <3>2. LocksMatchHolders'
      BY <1>1, <2>1, <2>3, <2>5, CountsKept DEF IInv, TypeOK
    <3>3. QED
      BY <3>1, <3>2
  <2>7. PlacesFit' /\ ChildrenOwn' /\ WorkedOnLives'
    <3>1. \A q \in Procs : Touches(a, q)' => Touches(a, q)
      BY <1>1, <2>1 DEF Touches, p
    <3>2. QED
      BY <1>3, <2>1, <3>1, PlainMove
  <2>8. QED
    BY <2>4, <2>6, <2>7 DEF IInv
<1>5. CASE /\ plock' = [plock EXCEPT ![p] = AskWrite(@)]
           /\ UNCHANGED pc
  <2>1. /\ AskWrite(plock[p]) \in LockType /\ Exclusive(AskWrite(plock[p]))
        /\ AskWrite(plock[p]).writers = plock[p].writers
        /\ AskWrite(plock[p]).readers = plock[p].readers
    BY <1>2, LockSteps
  <2>2. /\ plock' \in [Procs -> LockType]
        /\ \A q \in Procs : plock'[q].readers = plock[q].readers /\ plock'[q].writers = plock[q].writers
        /\ \A q \in Procs : Exclusive(plock'[q])
    <3>1. plock' = [plock EXCEPT ![p] = AskWrite(plock[p])]
      BY <1>5
    <3>2. \A q \in Procs : plock'[q] = IF q = p THEN AskWrite(plock[p]) ELSE plock[q]
      BY <1>2, <3>1
    <3>3. plock' \in [Procs -> LockType]
      BY <1>2, <2>1, <3>1
    <3>4. \A q \in Procs : Exclusive(plock[q])
      BY DEF IInv, LocksExclude
    <3>5. QED
      BY <2>1, <3>2, <3>3, <3>4
  <2>3. TypeOK'
    BY <1>1, <1>5, <2>2 DEF IInv, TypeOK, life, collector
  <2>4. OthersStay(a)
    BY <1>1, <1>5 DEF OthersStay
  <2>5. CountsFollow(a)
    <3>1. /\ ListOnce' = ListOnce /\ ListTwice' = ListTwice /\ ListWriters' = ListWriters
          /\ \A q : ReadersOf(q)' = ReadersOf(q) /\ WritersOf(q)' = WritersOf(q)
      BY <1>1, <1>5 DEF ListOnce, ListTwice, ListWriters, ReadersOf, WritersOf, At, Target, Op
    <3>2. QED
      BY <1>1, <2>2, <3>1 DEF CountsFollow
  <2>6. LocksMatchHolders' /\ LocksExclude'
    BY <1>1, <2>2, <2>4, <2>5, CountsKept DEF IInv, TypeOK, LocksExclude
  <2>7. PlacesFit' /\ ChildrenOwn' /\ WorkedOnLives'
    BY <1>1, <1>5 DEF IInv, PlacesFit, ChildrenOwn, WorkedOnLives, Making, Touches, Table, At, Target, Op
  <2>8. QED
    BY <2>3, <2>6, <2>7 DEF IInv
<1>6. QED
  BY <1>4, <1>5 DEF CheckoutProc, p

(* Who gives back a process and the list: the step from holding both to    *)
(* holding neither.                                                        *)
LEMMA BothReleased ==
    ASSUME IInv, NEW a \in Agents, OthersStay(a),
           pc[a] \in {"holding", "putProc"}, ~Holds(pc'[a]), pc'[a] \notin {"wantOwn", "cloning"},
           plock' = [plock EXCEPT ![Target(a)] = Release(@)], list' = Release(list)
    PROVE  /\ list' \in LockType /\ plock' \in [Procs -> LockType]
           /\ LocksMatchHolders' /\ LocksExclude'
<1> DEFINE p == Target(a)
<1>1. p \in Procs
  BY DEF IInv, TypeOK, Target
<1>2. plock \in [Procs -> LockType] /\ plock[p] \in LockType /\ Exclusive(plock[p])
  BY <1>1 DEF IInv, TypeOK, LocksExclude
<1>3. list \in LockType /\ Exclusive(list)
  BY DEF IInv, TypeOK, LocksExclude
<1>4. plock' = [plock EXCEPT ![p] = Release(plock[p])]
  OBVIOUS
<1> HIDE DEF p
<1>5. /\ a \in ListOnce /\ a \notin ListOnce' /\ a \notin ListTwice /\ a \notin ListTwice'
      /\ a \notin ListWriters /\ a \notin ListWriters'
      /\ \A q : a \notin ReadersOf(q)' /\ a \notin WritersOf(q)'
      /\ \A q : a \in ReadersOf(q) <=> q = p /\ Op(a) = "read"
      /\ \A q : a \in WritersOf(q) <=> q = p /\ Op(a) # "read"
  BY PlacesOf DEF OnTarget, Holds, p
<1>6. /\ list' \in LockType /\ Exclusive(list')
      /\ list'.readers = list.readers - 1 /\ list'.writers = list.writers
  BY <1>3, <1>5, HolderCounted, LockSteps
<1>7. /\ Release(plock[p]) \in LockType /\ Exclusive(Release(plock[p]))
      /\ Release(plock[p]).readers = plock[p].readers - B(Op(a) = "read")
      /\ Release(plock[p]).writers = plock[p].writers - B(Op(a) # "read")
  <2>1. plock[p].readers \in Int /\ plock[p].writers \in Nat
    BY <1>2 DEF LockType
  <2>2. CASE Op(a) = "read"
    <3>1. plock[p].readers > 0
      BY <1>1, <1>5, <2>2, HolderCounted
    <3>2. QED
      BY <1>2, <2>1, <2>2, <3>1, LockSteps DEF B
  <2>3. CASE Op(a) # "read"
    <3>1. plock[p].writers > 0
      BY <1>1, <1>5, <2>3, HolderCounted
    <3>2. QED
      BY <1>2, <2>1, <2>3, <3>1, LockSteps DEF B
  <2>4. QED
    BY <2>2, <2>3
<1>8. /\ plock' \in [Procs -> LockType] /\ plock'[p] = Release(plock[p])
      /\ \A q \in Procs : q # p => plock'[q] = plock[q]
  BY <1>1, <1>2, <1>4, <1>7
<1>9. CountsFollow(a)
  <2>1. \A q \in Procs : plock[q].readers \in Int /\ plock[q].writers \in Nat
    BY <1>2 DEF LockType
  <2>2. list.readers \in Int /\ list.writers \in Nat
    BY <1>3 DEF LockType
  <2>3. ASSUME NEW q \in Procs
        PROVE  /\ plock'[q].readers + B(a \in ReadersOf(q)) = plock[q].readers + B(a \in ReadersOf(q)')
               /\ plock'[q].writers + B(a \in WritersOf(q)) = plock[q].writers + B(a \in WritersOf(q)')
    <3>1. CASE q = p
      BY <1>5, <1>7, <1>8, <2>1, <3>1 DEF B
    <3>2. CASE q # p
      BY <1>5, <1>8, <2>1, <3>2 DEF B
    <3>3. QED
      BY <3>1, <3>2
  <2>4. QED
    BY <1>5, <1>6, <2>2, <2>3 DEF CountsFollow, B
<1>10. LocksExclude'
  BY <1>6, <1>7, <1>8 DEF IInv, LocksExclude
<1>11. QED
  BY <1>6, <1>8, <1>9, <1>10, CountsKept

LEMMA CommitKeeps == ASSUME IInv, NEW a \in Agents, Commit(a) PROVE IInv'
<1>1. /\ UNCHANGED <<life, kernel, call, collector, upset>> /\ proc' = proc
      /\ pc[a] \in {"holding", "putProc"} /\ Goto(a, AfterCommit(a))
      /\ plock' = [plock EXCEPT ![Target(a)] = Release(@)] /\ list' = Release(list)
  BY DEF Commit, At, life
<1>2. /\ AfterCommit(a) \in {"leaving", "wantWrite", "done", "failed"}
      /\ a \in Threads => AfterCommit(a) = "leaving"
  <2>1. CASE a # GC
    BY <2>1 DEF AfterCommit
  <2>2. CASE a = GC /\ Op(a) = "reap"
    BY <2>2, AgentsFinite DEF AfterCommit
  <2>3. CASE a = GC /\ Op(a) = "collect"
    BY <2>3, AgentsFinite DEF AfterCommit
  <2>4. CASE a = GC /\ Op(a) \notin {"reap", "collect"}
    BY <2>4, AgentsFinite DEF AfterCommit
  <2>5. QED
    BY <2>1, <2>2, <2>3, <2>4
<1>3. /\ OthersStay(a) /\ pc'[a] = AfterCommit(a) /\ pc' \in [Agents -> Places]
      /\ call' \in [Agents -> [op : Ops, target : Procs]]
  BY <1>1, <1>2, Moved DEF Places, Inside
<1>4. /\ list' \in LockType /\ plock' \in [Procs -> LockType]
      /\ LocksMatchHolders' /\ LocksExclude'
  BY <1>1, <1>2, <1>3, BothReleased DEF Holds, OnTarget
<1>5. TypeOK'
  BY <1>1, <1>3, <1>4 DEF IInv, TypeOK, life, collector
<1>6. PlacesFit' /\ ChildrenOwn' /\ WorkedOnLives'
  <2>1. \A q \in Procs : ~Touches(a, q)'
    BY <1>2, <1>3 DEF Touches, OnTarget
  <2>2. TableKept
    BY <1>1 DEF TableKept
  <2>3. QED
    BY <1>2, <1>3, <2>1, <2>2, PlainMove
<1>7. QED
  BY <1>4, <1>5, <1>6 DEF IInv
-----------------------------------------------------------------------------
(* The list's writers. *)
LEMMA LockListKeeps == ASSUME IInv, NEW a \in Agents, LockList(a) PROVE IInv'
<1>1. /\ plock' = plock /\ proc' = proc /\ pc[a] = "wantWrite" /\ call' = call
      /\ UNCHANGED <<plock, life, kernel, call, collector, upset>>
  BY DEF LockList, At, life
<1>2. list \in LockType /\ Exclusive(list) /\ list.readers \in Int /\ list.writers \in Nat
  BY DEF IInv, TypeOK, LocksExclude, LockType
<1>3. CASE WriteGranted(list) /\ list' = TakeWrite(list) /\ Goto(a, "writing")
  <2>1. /\ OthersStay(a) /\ pc'[a] = "writing" /\ pc' \in [Agents -> Places]
        /\ call' \in [Agents -> [op : Ops, target : Procs]]
    BY <1>1, <1>3, Moved DEF Places, Inside
  <2>2. /\ list' \in LockType /\ Exclusive(list')
        /\ list'.readers = list.readers /\ list'.writers = list.writers + 1
    BY <1>2, <1>3, LockSteps
  <2>3. TypeOK'
    BY <1>1, <2>1, <2>2 DEF IInv, TypeOK, life, collector
  <2>4. CountsFollow(a)
    <3>1. /\ a \notin ListOnce /\ a \notin ListOnce' /\ a \notin ListTwice /\ a \notin ListTwice'
          /\ a \notin ListWriters /\ a \in ListWriters'
          /\ \A q : a \notin ReadersOf(q) /\ a \notin ReadersOf(q)' /\ a \notin WritersOf(q) /\ a \notin WritersOf(q)'
      BY <1>1, <2>1, PlacesOf DEF OnTarget
    <3>2. QED
      BY <1>1, <1>2, <2>2, <3>1 DEF CountsFollow, B
  <2>5. LocksMatchHolders' /\ LocksExclude'
    BY <1>1, <2>1, <2>2, <2>4, CountsKept DEF IInv, TypeOK, LocksExclude
  <2>6. \A b \in Agents : /\ b # a => pc'[b] = pc[b]
                          /\ Target(b)' = Target(b) /\ Op(b)' = Op(b)
    BY <1>1, <2>1 DEF OthersStay, Target, Op
  <2>7. PlacesFit'
    BY <1>1, <2>1, <2>6, AgentsFinite DEF IInv, PlacesFit, At
  <2>8. ChildrenOwn'
    <3>1. \A t \in Threads : Making(t)' <=> Making(t)
      BY <1>1, <2>1, <2>6, AgentsFinite DEF Making
    <3>2. QED
      BY <1>1, <2>6, <3>1, AgentsFinite DEF IInv, ChildrenOwn
  <2>9. WorkedOnLives'
    <3>1. \A b \in Agents, p \in Procs : Touches(b, p)' => Touches(b, p)
      BY <2>1, <2>6 DEF Touches, OnTarget
    <3>2. QED
      BY <1>1, <3>1 DEF IInv, WorkedOnLives, Table
  <2>10. QED
    BY <2>3, <2>5, <2>7, <2>8, <2>9 DEF IInv
<1>4. CASE list' = AskWrite(list) /\ UNCHANGED pc
  <2>1. /\ list' \in LockType /\ Exclusive(list')
        /\ list'.readers = list.readers /\ list'.writers = list.writers
    BY <1>2, <1>4, LockSteps
  <2>2. TypeOK'
    BY <1>1, <1>4, <2>1 DEF IInv, TypeOK, life, collector
  <2>3. OthersStay(a)
    BY <1>1, <1>4 DEF OthersStay
  <2>4. CountsFollow(a)
    <3>1. /\ ListOnce' = ListOnce /\ ListTwice' = ListTwice /\ ListWriters' = ListWriters
          /\ \A q : ReadersOf(q)' = ReadersOf(q) /\ WritersOf(q)' = WritersOf(q)
      BY <1>1, <1>4 DEF ListOnce, ListTwice, ListWriters, ReadersOf, WritersOf, At, Target, Op
    <3>2. QED
      BY <1>1, <2>1, <3>1 DEF CountsFollow
  <2>5. LocksMatchHolders' /\ LocksExclude'
    BY <1>1, <2>1, <2>3, <2>4, CountsKept DEF IInv, TypeOK, LocksExclude
  <2>6. PlacesFit' /\ ChildrenOwn' /\ WorkedOnLives'
    BY <1>1, <1>4 DEF IInv, PlacesFit, ChildrenOwn, WorkedOnLives, Making, Touches, Table, At, Target, Op
  <2>7. QED
    BY <2>2, <2>5, <2>6 DEF IInv
<1>5. QED
  BY <1>3, <1>4 DEF LockList

(* A writer of the list that gives it back. *)
LEMMA ListReleased ==
    ASSUME IInv, NEW a \in Agents, OthersStay(a), pc[a] = "writing",
           ~Holds(pc'[a]), pc'[a] \notin {"wantOwn", "cloning"},
           list' = Release(list), plock' = plock
    PROVE  list' \in LockType /\ LocksMatchHolders' /\ LocksExclude'
<1>1. /\ list \in LockType /\ Exclusive(list) /\ list.readers \in Int /\ list.writers \in Nat
  BY DEF IInv, TypeOK, LocksExclude, LockType
<1>2. /\ a \notin ListOnce /\ a \notin ListOnce' /\ a \notin ListTwice /\ a \notin ListTwice'
      /\ a \in ListWriters /\ a \notin ListWriters'
      /\ \A q : a \notin ReadersOf(q) /\ a \notin ReadersOf(q)' /\ a \notin WritersOf(q) /\ a \notin WritersOf(q)'
  BY PlacesOf DEF OnTarget, Holds
<1>3. list.writers = 1
  BY <1>2, HolderCounted
<1>4. /\ list' \in LockType /\ Exclusive(list')
      /\ list'.readers = list.readers /\ list'.writers = list.writers - 1
  BY <1>1, <1>3, LockSteps
<1>5. CountsFollow(a)
  BY <1>1, <1>2, <1>4 DEF CountsFollow, B
<1>6. QED
  BY <1>4, <1>5, CountsKept DEF IInv, TypeOK, LocksExclude

LEMMA InsertKeeps == ASSUME IInv, NEW t \in Threads, Insert(t) PROVE IInv'
<1> DEFINE p == Target(t)
<1>1. /\ t \in Agents /\ plock' = plock /\ pc[t] = "writing" /\ call' = call /\ list' = Release(list)
      /\ proc' = [proc EXCEPT ![p] = "live"] /\ Goto(t, "wantList") /\ p \in Procs
      /\ UNCHANGED <<plock, status, kernel, call, collector, upset>>
  BY AgentsFinite DEF Insert, At, IInv, TypeOK, Target
<1>2. proc[p] = "made"
  BY <1>1 DEF IInv, ChildrenOwn, Making
<1>3. proc' \in [Procs -> Lives] /\ proc'[p] = "live" /\ \A q \in Procs : q # p => proc'[q] = proc[q]
  BY <1>1 DEF IInv, TypeOK, Lives
<1>4. /\ OthersStay(t) /\ pc'[t] = "wantList" /\ pc' \in [Agents -> Places]
      /\ call' \in [Agents -> [op : Ops, target : Procs]] /\ Target(t)' = Target(t)
  BY <1>1, Moved DEF Places, Inside
<1>5. list' \in LockType /\ LocksMatchHolders' /\ LocksExclude'
  BY <1>1, <1>4, ListReleased DEF Holds, OnTarget
<1>6. TypeOK'
  BY <1>1, <1>3, <1>4, <1>5 DEF IInv, TypeOK, collector
<1>7. \A b \in Agents : /\ b # t => pc'[b] = pc[b]
                        /\ Target(b)' = Target(b) /\ Op(b)' = Op(b) /\ Target(b) \in Procs
  BY <1>1, <1>4 DEF OthersStay, Target, Op, IInv, TypeOK
<1> HIDE DEF p
<1>8. PlacesFit'
  <2>1. \A b \in Agents : pc'[b] \in {"wantOwn", "cloning"} => b \in Threads /\ Op(b)' = "exec"
    BY <1>4, <1>7 DEF IInv, PlacesFit
  <2>2. ASSUME pc'[GC] = "freeing" PROVE proc'[Target(GC)'] = "detached"
    <3>1. proc[Target(GC)] = "detached" /\ Target(GC)' = Target(GC) /\ Target(GC) \in Procs
      BY <1>4, <1>7, <2>2, AgentsFinite DEF IInv, PlacesFit, At
    <3>2. QED
      BY <1>2, <1>3, <3>1
  <2>3. QED
    BY <2>1, <2>2 DEF PlacesFit, At
<1>9. ChildrenOwn'
  <2>1. \A u \in Threads : Making(u)' => u # t /\ Making(u)
    BY <1>4, <1>7, AgentsFinite DEF Making
  <2>2. ASSUME NEW u \in Threads, Making(u)' PROVE Op(u)' = "exec" /\ proc'[Target(u)'] = "made"
    <3>1. Making(u) /\ u # t /\ Making(t)
      BY <1>1, <2>1, <2>2 DEF Making
    <3>2. Target(u) # p /\ proc[Target(u)] = "made" /\ Op(u) = "exec"
      BY <3>1 DEF IInv, ChildrenOwn, p
    <3>3. QED
      BY <1>3, <1>7, <3>2, AgentsFinite
  <2>3. QED
    BY <1>7, <2>1, <2>2, AgentsFinite DEF IInv, ChildrenOwn
<1>10. WorkedOnLives'
  <2>1. \A b \in Agents, q \in Procs : Touches(b, q)' => Touches(b, q)
    BY <1>4, <1>7 DEF Touches, OnTarget
  <2>2. \A q \in Procs : q \in Table => q \in Table'
    BY <1>3 DEF Table
  <2>3. QED
    BY <2>1, <2>2 DEF IInv, WorkedOnLives
<1>11. QED
  BY <1>5, <1>6, <1>8, <1>9, <1>10 DEF IInv

LEMMA DetachKeeps == ASSUME IInv, Detach PROVE IInv'
<1> DEFINE p == Target(GC)
<1>1. /\ GC \in Agents /\ plock' = plock /\ pc[GC] = "writing" /\ call' = call /\ list' = Release(list)
      /\ p \in Procs
      /\ UNCHANGED <<plock, status, kernel, call, collector, upset>>
  BY AgentsFinite DEF Detach, At, IInv, TypeOK, Target
<1>2. \/ p \in Table /\ proc' = [proc EXCEPT ![p] = "detached"] /\ Goto(GC, "freeing")
      \/ proc' = proc /\ Goto(GC, "failed")
  BY DEF Detach
<1>3. PICK s \in {"freeing", "failed"} : Goto(GC, s)
  BY <1>2
<1>4. /\ OthersStay(GC) /\ pc'[GC] = s /\ pc' \in [Agents -> Places]
      /\ call' \in [Agents -> [op : Ops, target : Procs]] /\ Target(GC)' = p
  BY <1>1, <1>3, Moved DEF Places
<1>5. list' \in LockType /\ LocksMatchHolders' /\ LocksExclude'
  BY <1>1, <1>4, ListReleased DEF Holds, OnTarget
<1>6. proc' \in [Procs -> Lives]
  BY <1>2 DEF IInv, TypeOK, Lives
<1>7. TypeOK'
  BY <1>1, <1>4, <1>5, <1>6 DEF IInv, TypeOK, collector
<1>8. \A b \in Agents : /\ b # GC => pc'[b] = pc[b]
                        /\ Target(b)' = Target(b) /\ Op(b)' = Op(b) /\ Target(b) \in Procs
  BY <1>1, <1>4 DEF OthersStay, Target, Op, IInv, TypeOK
<1>9. \A b \in Agents : pc[b] \notin OnTarget \cup {"wantProc"}
  <2>1. GC \in ListWriters
    BY <1>1, PlacesOf
  <2>2. list.readers = 0
    BY <2>1, HolderCounted
  <2>3. ASSUME NEW b \in Agents, pc[b] \in OnTarget \cup {"wantProc"} PROVE FALSE
    BY <2>2, <2>3, HolderCounted, PlacesOf
  <2>4. QED
    BY <2>3
<1> HIDE DEF p
<1>10. /\ \A q \in Procs : proc[q] = "made" => proc'[q] = "made"
       /\ s = "freeing" => proc'[p] = "detached"
  <2>1. CASE p \in Table /\ proc' = [proc EXCEPT ![p] = "detached"] /\ Goto(GC, "freeing")
    BY <1>1, <2>1 DEF IInv, TypeOK, Table, Ending
  <2>2. CASE proc' = proc /\ Goto(GC, "failed")
    <3>1. pc'[GC] = "failed"
      BY <1>1, <2>2 DEF Goto, IInv, TypeOK
    <3>2. QED
      BY <1>4, <2>2, <3>1
  <2>3. QED
    BY <1>2, <2>1, <2>2 DEF p
<1>11. PlacesFit'
  BY <1>4, <1>8, <1>10, AgentsFinite DEF IInv, PlacesFit, At
<1>12. ChildrenOwn'
  <2>1. \A t \in Threads : Making(t)' <=> Making(t)
    BY <1>8, AgentsFinite DEF Making
  <2>2. QED
    BY <1>8, <1>10, <2>1, AgentsFinite DEF IInv, ChildrenOwn
<1>13. WorkedOnLives'
  BY <1>4, <1>8, <1>9 DEF WorkedOnLives, Touches, OnTarget
<1>14. QED
  BY <1>5, <1>7, <1>11, <1>12, <1>13 DEF IInv
-----------------------------------------------------------------------------
(* What writers of a process do. *)
LEMMA PartKeeps ==
    ASSUME IInv, NEW t \in Threads, NEW s \in Statuses, NEW place \in {"resuming", "exited", "gone"},
           Part(t, s, place), TableKept, proc' \in [Procs -> Lives]
    PROVE  IInv'
<1>1. /\ t \in Agents /\ pc[t] = "holding" /\ Goto(t, place) /\ call' = call
      /\ UNCHANGED <<call, collector, upset>>
      /\ plock' = [plock EXCEPT ![Target(t)] = Release(@)] /\ list' = Release(list)
  BY AgentsFinite DEF Part, Writing, At, Own
<1>2. /\ OthersStay(t) /\ pc'[t] = place /\ pc' \in [Agents -> Places]
      /\ call' \in [Agents -> [op : Ops, target : Procs]]
  BY <1>1, Moved DEF Places
<1>3. /\ list' \in LockType /\ plock' \in [Procs -> LockType]
      /\ LocksMatchHolders' /\ LocksExclude'
  BY <1>1, <1>2, BothReleased DEF Holds, OnTarget
<1>4. kernel' \in [Procs -> Int] /\ status' \in [Threads -> Statuses]
  <2>1. kernel' = [kernel EXCEPT ![Home[t]] = @ - 1] /\ status' = [status EXCEPT ![t] = s]
    BY DEF Part
  <2>2. kernel \in [Procs -> Int] /\ Home[t] \in Procs /\ status \in [Threads -> Statuses]
    BY HomesAssumption DEF IInv, TypeOK
  <2>3. QED
    BY <2>1, <2>2
<1>5. TypeOK'
  BY <1>1, <1>2, <1>3, <1>4 DEF IInv, TypeOK, collector
<1>6. PlacesFit' /\ ChildrenOwn' /\ WorkedOnLives'
  <2>1. \A q \in Procs : ~Touches(t, q)'
    BY <1>2 DEF Touches, OnTarget
  <2>2. QED
    BY <1>1, <1>2, <2>1, PlainMove
<1>7. QED
  BY <1>3, <1>5, <1>6 DEF IInv

(* The process a writer works on is in the table. *)
LEMMA WriterAtWork ==
    ASSUME IInv, NEW t \in Threads, pc[t] \in {"holding", "putProc"}
    PROVE  t \in Agents /\ Target(t) \in Procs /\ Target(t) \in Table
<1>1. t \in Agents /\ Target(t) \in Procs
  BY AgentsFinite DEF IInv, TypeOK, Target
<1>2. Touches(t, Target(t))
  BY DEF Touches, OnTarget
<1>3. QED
  BY <1>1, <1>2 DEF IInv, WorkedOnLives

LEMMA PartingsKeep ==
    ASSUME IInv, NEW t \in Threads, Sleep(t) \/ ExitThread(t) \/ ExitProcess(t)
    PROVE  IInv'
<1>1. /\ "asleep" \in Statuses /\ "finished" \in Statuses
      /\ "resuming" \in {"resuming", "exited", "gone"}
      /\ "exited" \in {"resuming", "exited", "gone"} /\ "gone" \in {"resuming", "exited", "gone"}
  BY DEF Statuses
<1>2. proc \in [Procs -> Lives] /\ Home[t] \in Procs
  BY HomesAssumption DEF IInv, TypeOK
<1>3. CASE Sleep(t)
  BY <1>1, <1>2, <1>3, PartKeeps DEF Sleep, TableKept
<1>4. CASE ExitThread(t)
  BY <1>1, <1>2, <1>4, PartKeeps DEF ExitThread, TableKept
<1>5. CASE ExitProcess(t)
  <2>1. Part(t, "finished", "gone") /\ proc' = [proc EXCEPT ![Home[t]] = "finishing"]
    BY <1>5 DEF ExitProcess
  <2>2. Home[t] \in Table
    BY <2>1, WriterAtWork DEF Part, Writing, At, Own
  <2>3. proc' \in [Procs -> Lives] /\ TableKept
    BY <1>2, <2>1, <2>2 DEF Lives, TableKept, Table, Ending
  <2>4. QED
    BY <1>1, <2>1, <2>3, PartKeeps
<1>6. QED
  BY <1>3, <1>4, <1>5

LEMMA ChangeKeeps ==
    ASSUME IInv, NEW t \in Threads, NewThread(t) \/ SetPeer(t) \/ StartProcess(t)
    PROVE  IInv'
<1>1. /\ pc[t] = "holding" /\ Goto(t, "putProc") /\ call' = call /\ list' = list /\ plock' = plock
      /\ UNCHANGED <<locks, kernel, call, collector>>
  BY DEF NewThread, SetPeer, StartProcess, Writing, At, locks
<1>2. t \in Agents /\ Target(t) \in Procs /\ Target(t) \in Table
  BY <1>1, WriterAtWork
<1>3. /\ OthersStay(t) /\ pc'[t] = "putProc" /\ pc' \in [Agents -> Places]
      /\ call' \in [Agents -> [op : Ops, target : Procs]] /\ Target(t)' = Target(t) /\ Op(t)' = Op(t)
  BY <1>1, <1>2, Moved DEF Places, Inside
<1>4. LocksMatchHolders' /\ LocksExclude'
  BY <1>1, <1>2, <1>3, LocksAlone
<1>5. proc' \in [Procs -> Lives] /\ TableKept
  <2>1. proc \in [Procs -> Lives]
    BY DEF IInv, TypeOK
  <2>2. CASE NewThread(t) \/ SetPeer(t)
    BY <2>1, <2>2 DEF NewThread, SetPeer, TableKept
  <2>3. CASE StartProcess(t)
    <3>1. proc' = [proc EXCEPT ![Target(t)] = "live"]
      BY <2>3 DEF StartProcess
    <3>2. QED
      BY <1>2, <2>1, <3>1 DEF Lives, TableKept, Table
  <2>4. QED
    BY <2>2, <2>3
<1>6. status' \in [Threads -> Statuses] /\ upset' \subseteq Threads
  <2>1. PICK u \in Threads, s \in {"suspended", "running", "finished"} :
            /\ status' = [status EXCEPT ![u] = s]
            /\ upset' = upset \/ upset' = upset \cup {u}
    <3>1. CASE NewThread(t)
      BY <3>1 DEF NewThread
    <3>2. CASE SetPeer(t)
      BY <3>2 DEF SetPeer, SetState, Attached
    <3>3. CASE StartProcess(t)
      BY <3>3 DEF StartProcess, SetState, Attached
    <3>4. QED
      BY <3>1, <3>2, <3>3
  <2>2. QED
    BY <2>1 DEF IInv, TypeOK, Statuses
<1>7. TypeOK'
  BY <1>1, <1>3, <1>5, <1>6 DEF IInv, TypeOK, collector
<1>8. PlacesFit' /\ ChildrenOwn' /\ WorkedOnLives'
  <2>1. \A q \in Procs : Touches(t, q)' => Touches(t, q)
    BY <1>1, <1>3 DEF Touches, OnTarget
  <2>2. QED
    BY <1>2, <1>3, <1>5, <2>1, PlainMove
<1>9. QED
  BY <1>4, <1>7, <1>8 DEF IInv
-----------------------------------------------------------------------------
(* exec's checkout of the parent. *)
LEMMA CheckoutParentListKeeps == ASSUME IInv, NEW t \in Threads, CheckoutParentList(t) PROVE IInv'
<1>1. /\ t \in Agents /\ plock' = plock /\ proc' = proc /\ pc[t] = "holding" /\ call' = call
      /\ Op(t) = "exec" /\ UNCHANGED <<plock, life, kernel, call, collector, upset>>
      /\ Home[t] \in Procs
  BY AgentsFinite, HomesAssumption DEF CheckoutParentList, Nesting, At, life
<1>2. TableKept
  BY <1>1 DEF TableKept
<1>3. list \in LockType /\ Exclusive(list) /\ list.readers \in Int /\ list.writers \in Nat
  BY DEF IInv, TypeOK, LocksExclude, LockType
<1>4. CASE Home[t] \in Table
  <2>1. list' = TakeRead(list) /\ Goto(t, "wantOwn") /\ ReadGranted(list)
    BY <1>4 DEF CheckoutParentList
  <2>2. /\ OthersStay(t) /\ pc'[t] = "wantOwn" /\ pc' \in [Agents -> Places]
        /\ call' \in [Agents -> [op : Ops, target : Procs]] /\ Target(t)' = Target(t) /\ Op(t)' = "exec"
    BY <1>1, <2>1, Moved DEF Places, Inside
  <2>3. /\ list' \in LockType /\ Exclusive(list')
        /\ list'.readers = list.readers + 1 /\ list'.writers = list.writers
    BY <1>3, <2>1, LockSteps
  <2>4. TypeOK'
    BY <1>1, <2>2, <2>3 DEF IInv, TypeOK, life, collector
  <2>5. CountsFollow(t)
    <3>1. /\ t \in ListOnce /\ t \in ListOnce' /\ t \notin ListTwice /\ t \in ListTwice'
          /\ t \notin ListWriters /\ t \notin ListWriters'
          /\ \A q : t \in ReadersOf(q) <=> t \in ReadersOf(q)'
          /\ \A q : t \in WritersOf(q) <=> t \in WritersOf(q)'
      BY <1>1, <2>2, PlacesOf DEF OnTarget
    <3>2. QED
      BY <1>1, <1>3, <2>3, <3>1 DEF CountsFollow, B
  <2>6. LocksMatchHolders' /\ LocksExclude'
    BY <1>1, <2>2, <2>3, <2>5, CountsKept DEF IInv, TypeOK, LocksExclude
  <2>7. \A b \in Agents : /\ b # t => pc'[b] = pc[b]
                          /\ Target(b)' = Target(b) /\ Op(b)' = Op(b)
    BY <1>1, <2>2 DEF OthersStay, Target, Op
  <2>8. PlacesFit'
    BY <1>1, <2>2, <2>7, AgentsFinite DEF IInv, PlacesFit, At
  <2>9. ChildrenOwn'
    <3>1. \A u \in Threads : Making(u)' <=> Making(u)
      BY <1>1, <2>2, <2>7, AgentsFinite DEF Making
    <3>2. QED
      BY <1>1, <2>7, <3>1, AgentsFinite DEF IInv, ChildrenOwn
  <2>10. WorkedOnLives'
    <3>1. \A b \in Agents, q \in Procs : Touches(b, q)' => Touches(b, q) \/ q = Home[t]
      BY <1>1, <2>2, <2>7 DEF Touches, OnTarget
    <3>2. QED
      BY <1>1, <1>4, <3>1 DEF IInv, WorkedOnLives, Table
  <2>11. QED
    BY <2>4, <2>6, <2>8, <2>9, <2>10 DEF IInv
<1>5. CASE Home[t] \notin Table
  <2>1. list' = list /\ Goto(t, "putProc")
    BY <1>5 DEF CheckoutParentList
  <2>2. /\ OthersStay(t) /\ pc'[t] = "putProc" /\ pc' \in [Agents -> Places]
        /\ call' \in [Agents -> [op : Ops, target : Procs]] /\ Target(t)' = Target(t) /\ Op(t)' = Op(t)
    BY <1>1, <2>1, Moved DEF Places, Inside
  <2>3. LocksMatchHolders' /\ LocksExclude'
    BY <1>1, <2>1, <2>2, LocksAlone
  <2>4. TypeOK'
    BY <1>1, <2>1, <2>2 DEF IInv, TypeOK, life, collector
  <2>5. \A q \in Procs : Touches(t, q)' => Touches(t, q)
    BY <1>1, <2>2 DEF Touches, OnTarget
  <2>6. QED
    BY <1>1, <1>2, <2>2, <2>3, <2>4, <2>5, PlainMove DEF IInv
<1>6. QED
  BY <1>4, <1>5

LEMMA CheckoutParentKeeps == ASSUME IInv, NEW t \in Threads, CheckoutParent(t) PROVE IInv'
<1> DEFINE p == Home[t]
<1>1. /\ t \in Agents /\ list' = list /\ proc' = proc /\ pc[t] = "wantOwn" /\ call' = call
      /\ p \in Procs /\ UNCHANGED <<list, life, kernel, call, collector, upset>>
      /\ ReadGranted(plock[p]) /\ plock' = [plock EXCEPT ![p] = TakeRead(plock[p])] /\ Goto(t, "cloning")
  BY AgentsFinite, HomesAssumption DEF CheckoutParent, At, life
<1>2. Op(t) = "exec"
  BY <1>1 DEF IInv, PlacesFit
<1>3. /\ OthersStay(t) /\ pc'[t] = "cloning" /\ pc' \in [Agents -> Places]
      /\ call' \in [Agents -> [op : Ops, target : Procs]] /\ Target(t)' = Target(t) /\ Op(t)' = "exec"
  BY <1>1, <1>2, Moved DEF Places, Inside
<1>4. plock \in [Procs -> LockType] /\ plock[p] \in LockType /\ Exclusive(plock[p])
  BY <1>1 DEF IInv, TypeOK, LocksExclude
<1>5. /\ TakeRead(plock[p]) \in LockType /\ Exclusive(TakeRead(plock[p]))
      /\ TakeRead(plock[p]).readers = plock[p].readers + 1 /\ TakeRead(plock[p]).writers = plock[p].writers
  BY <1>1, <1>4, LockSteps
<1>6. /\ plock' \in [Procs -> LockType] /\ plock'[p] = TakeRead(plock[p])
      /\ \A q \in Procs : q # p => plock'[q] = plock[q]
  BY <1>1, <1>4, <1>5
<1>7. TypeOK'
  BY <1>1, <1>3, <1>6 DEF IInv, TypeOK, life, collector
<1>8. CountsFollow(t)
  <2>1. /\ t \in ListOnce /\ t \in ListOnce' /\ t \in ListTwice /\ t \in ListTwice'
        /\ t \notin ListWriters /\ t \notin ListWriters'
        /\ \A q : t \notin ReadersOf(q) /\ (t \in ReadersOf(q)' <=> q = p)
        /\ \A q : t \in WritersOf(q) <=> t \in WritersOf(q)'
    BY <1>1, <1>2, <1>3, PlacesOf DEF OnTarget
  <2>2. \A q \in Procs : plock[q].readers \in Int /\ plock[q].writers \in Nat
    BY <1>4 DEF LockType
  <2>3. list.readers \in Int /\ list.writers \in Nat
    BY DEF IInv, TypeOK, LockType
  <2> HIDE DEF p
  <2>4. ASSUME NEW q \in Procs
        PROVE  /\ plock'[q].readers + B(t \in ReadersOf(q)) = plock[q].readers + B(t \in ReadersOf(q)')
               /\ plock'[q].writers + B(t \in WritersOf(q)) = plock[q].writers + B(t \in WritersOf(q)')
    <3>1. CASE q = p
      BY <1>5, <1>6, <2>1, <2>2, <3>1 DEF B
    <3>2. CASE q # p
      BY <1>6, <2>1, <2>2, <3>2 DEF B
    <3>3. QED
      BY <3>1, <3>2
  <2>5. QED
    BY <1>1, <2>1, <2>3, <2>4 DEF CountsFollow, B
<1>9. LocksExclude'
  <2> HIDE DEF p
  <2>1. QED
    BY <1>1, <1>5, <1>6 DEF IInv, LocksExclude
<1>10. LocksMatchHolders'
  BY <1>1, <1>3, <1>6, <1>8, CountsKept DEF IInv, TypeOK
<1>11. \A b \in Agents : /\ b # t => pc'[b] = pc[b]
                        /\ Target(b)' = Target(b) /\ Op(b)' = Op(b)
  BY <1>1, <1>3 DEF OthersStay, Target, Op
<1>12. PlacesFit'
  BY <1>1, <1>3, <1>11, AgentsFinite DEF IInv, PlacesFit, At
<1>13. ChildrenOwn'
  <2>1. \A u \in Threads : Making(u)' <=> Making(u)
    BY <1>1, <1>3, <1>11, AgentsFinite DEF Making
  <2>2. QED
    BY <1>1, <1>11, <2>1, AgentsFinite DEF IInv, ChildrenOwn
<1>14. WorkedOnLives'
  <2>1. \A b \in Agents, q \in Procs : Touches(b, q)' => Touches(b, q)
    BY <1>1, <1>3, <1>11 DEF Touches, OnTarget
  <2>2. QED
    BY <1>1, <2>1 DEF IInv, WorkedOnLives, Table
<1>15. QED
  BY <1>7, <1>9, <1>10, <1>12, <1>13, <1>14 DEF IInv

LEMMA CommitParentKeeps == ASSUME IInv, NEW t \in Threads, CommitParent(t) PROVE IInv'
<1> DEFINE p == Home[t]
<1>1. /\ t \in Agents /\ list' = Release(list) /\ proc' = proc /\ pc[t] = "cloning" /\ call' = call
      /\ p \in Procs /\ UNCHANGED <<proc, kernel, call, collector, upset>>
      /\ plock' = [plock EXCEPT ![p] = Release(plock[p])] /\ Goto(t, "putProc")
      /\ status' = [status EXCEPT ![Main[Target(t)]] = "suspended"]
  BY AgentsFinite, HomesAssumption DEF CommitParent, At
<1>2. Op(t) = "exec"
  BY <1>1 DEF IInv, PlacesFit
<1>3. /\ OthersStay(t) /\ pc'[t] = "putProc" /\ pc' \in [Agents -> Places]
      /\ call' \in [Agents -> [op : Ops, target : Procs]] /\ Target(t)' = Target(t) /\ Op(t)' = "exec"
  BY <1>1, <1>2, Moved DEF Places, Inside
<1>4. /\ plock \in [Procs -> LockType] /\ plock[p] \in LockType /\ Exclusive(plock[p])
      /\ list \in LockType /\ Exclusive(list) /\ list.readers \in Int /\ list.writers \in Nat
  BY <1>1 DEF IInv, TypeOK, LocksExclude, LockType
<1>5. /\ t \in ListOnce /\ t \in ListOnce' /\ t \in ListTwice /\ t \notin ListTwice'
      /\ t \notin ListWriters /\ t \notin ListWriters'
      /\ \A q : t \notin ReadersOf(q)' /\ (t \in ReadersOf(q) <=> q = p)
      /\ \A q : t \in WritersOf(q) <=> t \in WritersOf(q)'
  BY <1>1, <1>2, <1>3, PlacesOf DEF OnTarget
<1>6. /\ Release(plock[p]) \in LockType /\ Exclusive(Release(plock[p]))
      /\ Release(plock[p]).readers = plock[p].readers - 1 /\ Release(plock[p]).writers = plock[p].writers
  <2>1. plock[p].readers > 0
    BY <1>1, <1>5, HolderCounted
  <2>2. QED
    BY <1>4, <2>1, LockSteps
<1>7. /\ list' \in LockType /\ Exclusive(list')
      /\ list'.readers = list.readers - 1 /\ list'.writers = list.writers
  <2>1. list.readers > 0
    BY <1>5, HolderCounted
  <2>2. QED
    BY <1>1, <1>4, <2>1, LockSteps
<1>8. /\ plock' \in [Procs -> LockType] /\ plock'[p] = Release(plock[p])
      /\ \A q \in Procs : q # p => plock'[q] = plock[q]
  BY <1>1, <1>4, <1>6
<1>9. TypeOK'
  <2>1. status' \in [Threads -> Statuses]
    BY <1>1 DEF IInv, TypeOK, Statuses
  <2>2. QED
    BY <1>1, <1>3, <1>7, <1>8, <2>1 DEF IInv, TypeOK, collector
<1>10. CountsFollow(t)
  <2>1. \A q \in Procs : plock[q].readers \in Int /\ plock[q].writers \in Nat
    BY <1>4 DEF LockType
  <2> HIDE DEF p
  <2>2. ASSUME NEW q \in Procs
        PROVE  /\ plock'[q].readers + B(t \in ReadersOf(q)) = plock[q].readers + B(t \in ReadersOf(q)')
               /\ plock'[q].writers + B(t \in WritersOf(q)) = plock[q].writers + B(t \in WritersOf(q)')
    <3>1. CASE q = p
      BY <1>5, <1>6, <1>8, <2>1, <3>1 DEF B
    <3>2. CASE q # p
      BY <1>5, <1>8, <2>1, <3>2 DEF B
    <3>3. QED
      BY <3>1, <3>2
  <2>3. QED
    BY <1>4, <1>5, <1>7, <2>2 DEF CountsFollow, B
<1>11. LocksExclude'
  <2> HIDE DEF p
  <2>1. QED
    BY <1>6, <1>7, <1>8 DEF IInv, LocksExclude
<1>12. LocksMatchHolders'
  BY <1>1, <1>3, <1>7, <1>8, <1>10, CountsKept
<1>13. PlacesFit' /\ ChildrenOwn' /\ WorkedOnLives'
  <2>1. \A q \in Procs : Touches(t, q)' => Touches(t, q)
    BY <1>1, <1>3 DEF Touches, OnTarget
  <2>2. TableKept
    BY <1>1 DEF TableKept
  <2>3. QED
    BY <1>1, <1>3, <2>1, <2>2, PlainMove
<1>14. QED
  BY <1>9, <1>11, <1>12, <1>13 DEF IInv
-----------------------------------------------------------------------------
(* The scheduler's turn and a sleeper's waking. *)
LEMMA TurnKeeps == ASSUME IInv, NEW t \in Threads, Wake(t) \/ Turn(t) PROVE IInv'
<1>1. /\ list' = list /\ plock' = plock /\ pc' = pc /\ call' = call /\ kernel' = kernel
      /\ slot' = slot /\ upset' = upset
  BY DEF Wake, Turn, locks, collector
<1>2. Home[t] \in Procs /\ proc \in [Procs -> Lives] /\ status \in [Threads -> Statuses]
  BY HomesAssumption DEF IInv, TypeOK
<1>3. proc' \in [Procs -> Lives] /\ TableKept
  <2>1. CASE proc' = proc
    BY <1>2, <2>1 DEF TableKept
  <2>2. CASE proc' # proc
    <3>1. PICK s \in {"finished", "crashed"} :
              proc[Home[t]] \in Ending /\ proc' = [proc EXCEPT ![Home[t]] = s]
      BY <2>2 DEF Wake, Turn, Quiet
    <3>2. proc' \in [Procs -> Lives]
      BY <1>2, <3>1 DEF Lives
    <3>3. \A p \in Procs : proc'[p] = IF p = Home[t] THEN s ELSE proc[p]
      BY <1>2, <3>1
    <3>4. TableKept
      BY <1>2, <3>1, <3>3 DEF TableKept, Table
    <3>5. QED
      BY <3>2, <3>4
  <2>3. QED
    BY <2>1, <2>2
<1>4. status' \in [Threads -> Statuses]
  BY <1>2 DEF Wake, Turn, Statuses
<1>5. tasks' \in [Slots -> (Procs \X (Threads \cup {NoThread})) \cup {NoTask}]
  <2>1. tasks \in [Slots -> (Procs \X (Threads \cup {NoThread})) \cup {NoTask}]
    BY DEF IInv, TypeOK
  <2>2. ASSUME NEW u \in Threads \cup {NoThread}, Signal(Home[t], u)
        PROVE  tasks' \in [Slots -> (Procs \X (Threads \cup {NoThread})) \cup {NoTask}]
    <3>1. PICK i : tasks' = tasks \/ tasks' = [tasks EXCEPT ![i] = <<Home[t], u>>]
      BY <2>2 DEF Signal
    <3>2. <<Home[t], u>> \in (Procs \X (Threads \cup {NoThread})) \cup {NoTask}
      BY <1>2
    <3>3. QED
      BY <2>1, <3>1, <3>2
  <2>3. CASE tasks' = tasks
    BY <2>1, <2>3
  <2>4. CASE \E u \in Threads \cup {NoThread} : Signal(Home[t], u)
    BY <2>2, <2>4
  <2>5. tasks' = tasks \/ Signal(Home[t], NoThread) \/ Signal(Home[t], t)
    BY DEF Wake, Turn, collector
  <2>6. QED
    BY <2>3, <2>4, <2>5
<1>6. TypeOK'
  BY <1>1, <1>3, <1>4, <1>5 DEF IInv, TypeOK
<1>7. QED
  BY <1>1, <1>3, <1>6, NobodyMoves DEF IInv
-----------------------------------------------------------------------------
(* The collector. *)
LEMMA PassKeeps == ASSUME IInv, Begin \/ Done PROVE IInv'
<1>1. /\ GC \in Agents /\ UNCHANGED <<locks, life, kernel, upset>> /\ slot' = slot /\ call' = call
      /\ pc[GC] \in {"idle", "done", "failed", "missing"} /\ Goto(GC, "next") /\ proc' = proc
  BY AgentsFinite DEF Begin, Done, At, collector, life
<1>2. /\ OthersStay(GC) /\ pc'[GC] = "next" /\ pc' \in [Agents -> Places]
      /\ call' \in [Agents -> [op : Ops, target : Procs]]
  BY <1>1, Moved DEF Places
<1>3. tasks' \in [Slots -> (Procs \X (Threads \cup {NoThread})) \cup {NoTask}]
  BY DEF Begin, Done, collector, IInv, TypeOK
<1>4. TypeOK'
  BY <1>1, <1>2, <1>3 DEF IInv, TypeOK, locks, life
<1>5. QED
  BY <1>1, <1>2, <1>4, AgentsFinite, OutsideStep DEF IInv, Holds, OnTarget, TableKept

LEMMA TakeKeeps == ASSUME IInv, Take PROVE IInv' /\ Op(GC)' # "read"
<1>1. /\ GC \in Agents /\ UNCHANGED <<locks, life, kernel, tasks, upset>> /\ proc' = proc /\ pc[GC] = "next"
  BY AgentsFinite DEF Take, At, life
<1>2. PICK i \in Slots, op \in {"reap", "collect"}, s \in {"wantWrite", "wantList"} :
          /\ slot' = i /\ tasks[i] # NoTask /\ Goto(GC, s)
          /\ call' = [call EXCEPT ![GC] = [op |-> op, target |-> tasks[i][1]]]
  BY DEF Take, Ahead
<1>3. tasks[i][1] \in Procs
  BY <1>2 DEF IInv, TypeOK
<1>4. pc \in [Agents -> Places] /\ call \in [Agents -> [op : Ops, target : Procs]]
  BY DEF IInv, TypeOK
<1>5. /\ OthersStay(GC) /\ pc'[GC] = s /\ pc' \in [Agents -> Places]
      /\ call' \in [Agents -> [op : Ops, target : Procs]] /\ Op(GC)' # "read"
  <2>1. pc' = [pc EXCEPT ![GC] = s]
    BY <1>2 DEF Goto
  <2>2. [op |-> op, target |-> tasks[i][1]] \in [op : Ops, target : Procs]
    BY <1>3 DEF Ops
  <2>3. s \in Places
    BY DEF Places, Inside
  <2>4. QED
    BY <1>1, <1>2, <1>4, <2>1, <2>2, <2>3 DEF OthersStay, Op
<1>6. TypeOK'
  BY <1>1, <1>2, <1>5 DEF IInv, TypeOK, locks, life
<1>7. QED
  BY <1>1, <1>5, <1>6, AgentsFinite, OutsideStep DEF IInv, Holds, OnTarget, TableKept

LEMMA EndKeeps == ASSUME IInv, End PROVE IInv' /\ Op(GC)' # "read"
<1>1. /\ GC \in Agents /\ UNCHANGED <<locks, life, kernel, tasks, upset>> /\ proc' = proc /\ pc[GC] = "next"
      /\ slot' = 0
  BY AgentsFinite DEF End, At, life
<1>2. /\ pc' = [pc EXCEPT ![GC] = "idle"] /\ call' = [call EXCEPT ![GC] = NoCall]
      /\ pc \in [Agents -> Places] /\ call \in [Agents -> [op : Ops, target : Procs]]
  BY DEF End, Goto, IInv, TypeOK
<1>3. /\ OthersStay(GC) /\ pc'[GC] = "idle" /\ pc' \in [Agents -> Places]
      /\ call' \in [Agents -> [op : Ops, target : Procs]] /\ Op(GC)' = "none"
  BY <1>1, <1>2, NoCallTyped DEF OthersStay, Places, Op, NoCall
<1>4. TypeOK'
  BY <1>1, <1>3 DEF IInv, TypeOK, locks, life
<1>5. QED
  BY <1>1, <1>3, <1>4, AgentsFinite, OutsideStep DEF IInv, Holds, OnTarget, TableKept

LEMMA CollectKeeps == ASSUME IInv, Op(GC) # "read", Collect PROVE IInv' /\ Op(GC)' # "read"
<1>1. /\ GC \in Agents /\ UNCHANGED <<locks, proc, kernel, collector, upset>> /\ pc[GC] = "holding"
      /\ list' = list /\ plock' = plock /\ pc' = [pc EXCEPT ![GC] = "putProc"]
  BY AgentsFinite DEF Collect, At, locks, Goto
<1>2. pc \in [Agents -> Places] /\ call \in [Agents -> [op : Ops, target : Procs]]
  BY DEF IInv, TypeOK
<1>3. PICK op \in {"reap", "collect", "lost"} : call' = [call EXCEPT ![GC].op = op]
  BY DEF Collect
<1>4. /\ OthersStay(GC) /\ pc'[GC] = "putProc" /\ pc' \in [Agents -> Places]
      /\ call' \in [Agents -> [op : Ops, target : Procs]]
      /\ Op(GC)' # "read" /\ Target(GC)' = Target(GC)
  <2>1. op \in Ops /\ "putProc" \in Places
    BY DEF Ops, Places, Inside
  <2>2. QED
    BY <1>1, <1>2, <1>3, <2>1 DEF OthersStay, Op, Target
<1>5. status' \in [Threads -> Statuses]
  BY DEF Collect, IInv, TypeOK, Statuses
<1>6. TypeOK'
  BY <1>1, <1>4, <1>5 DEF IInv, TypeOK, collector
<1>7. LocksMatchHolders' /\ LocksExclude'
  BY <1>1, <1>4, LocksAlone
<1>8. PlacesFit' /\ ChildrenOwn' /\ WorkedOnLives'
  <2>1. \A q \in Procs : Touches(GC, q)' => Touches(GC, q)
    BY <1>1, <1>4 DEF Touches, OnTarget
  <2>2. TableKept
    BY <1>1 DEF TableKept
  <2>3. QED
    BY <1>1, <1>4, <2>1, <2>2, AgentsFinite, PlainMove
<1>9. QED
  BY <1>4, <1>6, <1>7, <1>8 DEF IInv

LEMMA FreeKeeps == ASSUME IInv, Free PROVE IInv'
<1> DEFINE p == Target(GC)
<1>1. /\ GC \in Agents /\ UNCHANGED <<locks, kernel, call, collector, upset>> /\ pc[GC] = "freeing"
      /\ list' = list /\ plock' = plock /\ call' = call /\ Goto(GC, "done")
      /\ proc' = [proc EXCEPT ![p] = "freed"]
  BY AgentsFinite DEF Free, At, locks
<1>2. p \in Procs /\ proc[p] = "detached" /\ proc \in [Procs -> Lives]
  BY <1>1, AgentsFinite DEF IInv, TypeOK, PlacesFit, At, Target
<1>3. /\ OthersStay(GC) /\ pc'[GC] = "done" /\ pc' \in [Agents -> Places]
      /\ call' \in [Agents -> [op : Ops, target : Procs]]
  BY <1>1, Moved DEF Places
<1>4. status' \in [Threads -> Statuses]
  BY DEF Free, IInv, TypeOK, Statuses
<1>5. proc' \in [Procs -> Lives]
  BY <1>1, <1>2 DEF Lives
<1>6. TypeOK'
  BY <1>1, <1>3, <1>4, <1>5 DEF IInv, TypeOK, collector
<1>7. LocksMatchHolders' /\ LocksExclude'
  BY <1>1, <1>3, LocksAlone DEF Holds, OnTarget
<1>8. \A b \in Agents : /\ b # GC => pc'[b] = pc[b]
                        /\ Target(b)' = Target(b) /\ Op(b)' = Op(b) /\ Target(b) \in Procs
  BY <1>1, <1>3 DEF OthersStay, Target, Op, IInv, TypeOK
<1>9. /\ \A q \in Procs : proc[q] = "made" => proc'[q] = "made"
      /\ \A q \in Procs : q \in Table => q \in Table'
  <2>1. \A q \in Procs : q # p => proc'[q] = proc[q]
    BY <1>1, <1>2
  <2>2. QED
    BY <1>2, <2>1 DEF Table, Ending
<1>10. PlacesFit'
  BY <1>3, <1>8, AgentsFinite DEF IInv, PlacesFit, At
<1>11. ChildrenOwn'
  <2>1. \A t \in Threads : Making(t)' <=> Making(t)
    BY <1>8, AgentsFinite DEF Making
  <2>2. QED
    BY <1>8, <1>9, <2>1, AgentsFinite DEF IInv, ChildrenOwn
<1>12. WorkedOnLives'
  <2>1. \A b \in Agents, q \in Procs : Touches(b, q)' => Touches(b, q)
    BY <1>3, <1>8, AgentsFinite DEF Touches, OnTarget
  <2>2. QED
    BY <1>9, <2>1 DEF IInv, WorkedOnLives
<1>13. QED
  BY <1>6, <1>7, <1>10, <1>11, <1>12 DEF IInv
-----------------------------------------------------------------------------
Inductive == IInv /\ Op(GC) # "read"

LEMMA InitIInv == Init => Inductive
<1> SUFFICES ASSUME Init PROVE Inductive
  OBVIOUS
<1>1. \A a \in Agents : pc[a] \in {"idle", "user"}
  BY DEF Init
<1>2. TypeOK
  <2>1. proc \in [Procs -> Lives] /\ status \in [Threads -> Statuses]
    BY DEF Init, Lives, Statuses
  <2>2. list \in LockType /\ plock \in [Procs -> LockType] /\ kernel \in [Procs -> Int]
    BY DEF Init, FreeLock, LockType
  <2>3. pc \in [Agents -> Places] /\ call \in [Agents -> [op : Ops, target : Procs]]
    BY NoCallTyped DEF Init, Places
  <2>4. /\ tasks \in [Slots -> (Procs \X (Threads \cup {NoThread})) \cup {NoTask}]
        /\ slot \in Slots \cup {0} /\ upset \subseteq Threads
    BY DEF Init
  <2>5. QED
    BY <2>1, <2>2, <2>3, <2>4 DEF TypeOK
<1>3. LocksMatchHolders
  <2>1. /\ ListOnce = {} /\ ListTwice = {} /\ {a \in Agents : At(a, "writing")} = {}
        /\ \A p : ReadersOf(p) = {} /\ WritersOf(p) = {}
    BY <1>1, AgentsFinite DEF ListOnce, ListTwice, ReadersOf, WritersOf, At, OnTarget
  <2>2. Cardinality({}) = 0
    BY FS_EmptySet
  <2>3. /\ list.readers = 0 /\ list.writers = 0
        /\ \A p \in Procs : plock[p].readers = 0 /\ plock[p].writers = 0
    BY DEF Init, FreeLock
  <2>4. /\ Cardinality(ListOnce) = 0 /\ Cardinality(ListTwice) = 0
        /\ Cardinality({a \in Agents : At(a, "writing")}) = 0
    BY <2>1, <2>2
  <2>5. \A p \in Procs : Cardinality(ReadersOf(p)) = 0 /\ Cardinality(WritersOf(p)) = 0
    BY <2>1, <2>2
  <2>6. list.readers = Cardinality(ListOnce) + Cardinality(ListTwice)
    BY <2>3, <2>4
  <2>7. QED
    BY <2>3, <2>4, <2>5, <2>6 DEF LocksMatchHolders
<1>4. LocksExclude
  BY DEF Init, FreeLock, LocksExclude, Exclusive
<1>5. PlacesFit /\ ChildrenOwn /\ WorkedOnLives
  BY <1>1, AgentsFinite DEF PlacesFit, ChildrenOwn, WorkedOnLives, Making, Touches, At, OnTarget
<1>6. Op(GC) = "none"
  BY AgentsFinite DEF Init, Op, NoCall
<1>7. QED
  BY <1>2, <1>3, <1>4, <1>5, <1>6 DEF Inductive, IInv

(* What threads do leaves the collector's task alone. *)
LEMMA CallOfCollector ==
    ASSUME IInv, NEW t \in Threads,
           call' = call \/ \E c : call' = [call EXCEPT ![t] = c]
    PROVE  Op(GC)' = Op(GC)
BY AgentsFinite DEF IInv, TypeOK, Op

LEMMA NextIInv == Inductive /\ [Next]_vars => Inductive'
<1> SUFFICES ASSUME Inductive, [Next]_vars PROVE Inductive'
  OBVIOUS
<1> USE DEF Inductive
<1>1. CASE UNCHANGED vars
  <2>1. /\ list' = list /\ plock' = plock /\ pc' = pc /\ call' = call /\ proc' = proc
        /\ kernel' = kernel /\ status' = status /\ tasks' = tasks /\ slot' = slot /\ upset' = upset
    BY <1>1 DEF vars, locks, life, collector
  <2>2. TypeOK' /\ Op(GC)' = Op(GC)
    BY <2>1 DEF IInv, TypeOK, Op
  <2>3. QED
    BY <2>1, <2>2, NobodyMoves DEF IInv, TableKept
<1>2. CASE Collector
  <2>1. CASE Begin \/ Done
    <3>1. call' = call
      BY <2>1 DEF Begin, Done
    <3>2. QED
      BY <2>1, <3>1, PassKeeps DEF Op
  <2>2. CASE Take
    BY <2>2, TakeKeeps
  <2>3. CASE End
    BY <2>3, EndKeeps
  <2>4. CASE Collect
    BY <2>4, CollectKeeps
  <2>5. CASE Detach
    <3>1. call' = call
      BY <2>5 DEF Detach
    <3>2. QED
      BY <2>5, <3>1, DetachKeeps DEF Op
  <2>6. CASE Free
    <3>1. call' = call
      BY <2>6 DEF Free
    <3>2. QED
      BY <2>6, <3>1, FreeKeeps DEF Op
  <2>7. QED
    BY <1>2, <2>1, <2>2, <2>3, <2>4, <2>5, <2>6 DEF Collector
<1>3. ASSUME NEW a \in Agents, Checkout(a) PROVE Inductive'
  <2>1. Op(GC)' = Op(GC)
    <3>1. call' = call
      BY <1>3 DEF Checkout, CheckoutList, CheckoutProc, Commit, LockList
    <3>2. QED
      BY <3>1 DEF Op
  <2>2. QED
    BY <1>3, <2>1, CheckoutListKeeps, CheckoutProcKeeps, CommitKeeps, LockListKeeps DEF Checkout
<1>4. ASSUME NEW t \in Threads,
             Trap(t) \/ Crash(t) \/ Enter(t) \/ Leave(t) \/ Resume(t) \/ Return(t) \/ Wake(t) \/ Turn(t)
      PROVE  Inductive'
  <2>1. call' = call \/ \E c : call' = [call EXCEPT ![t] = c]
    BY <1>4 DEF Trap, Crash, Enter, Leave, Resume, Return, Wake, Turn
  <2>2. Op(GC)' = Op(GC)
    BY <2>1, CallOfCollector
  <2>3. QED
    BY <1>4, <2>2, TrapKeeps, CrashKeeps, EnterKeeps, LeaveKeeps, BackKeeps, TurnKeeps
<1>5. ASSUME NEW t \in Threads, Change(t) PROVE Inductive'
  <2>1. call' = call
    BY <1>5 DEF Change, Sleep, ExitThread, ExitProcess, Part, NewThread, SetPeer, StartProcess
  <2>2. Op(GC)' = Op(GC)
    BY <2>1 DEF Op
  <2>3. QED
    BY <1>5, <2>2, PartingsKeep, ChangeKeeps DEF Change
<1>6. ASSUME NEW t \in Threads, Exec(t) PROVE Inductive'
  <2>1. call' = call
    BY <1>6 DEF Exec, Insert, CheckoutParentList, CheckoutParent, CommitParent
  <2>2. Op(GC)' = Op(GC)
    BY <2>1 DEF Op
  <2>3. QED
    BY <1>6, <2>2, InsertKeeps, CheckoutParentListKeeps, CheckoutParentKeeps, CommitParentKeeps DEF Exec
<1>7. QED
  BY <1>1, <1>2, <1>3, <1>4, <1>5, <1>6 DEF Next

LEMMA Invariance == Spec => []Inductive
BY InitIInv, NextIInv, PTL DEF Spec
-----------------------------------------------------------------------------
(* Every variable keeps its type, for any processes and threads.            *)
THEOREM TypeCorrect == Spec => []TypeOK
<1>1. Inductive => TypeOK
  BY DEF Inductive, IInv
<1>2. QED
  BY <1>1, Invariance, PTL

(* process_rwlock and each process's lock count exactly those who hold      *)
(* them, however checkouts nest, threads sleep, exit, crash or are ended    *)
(* while they hold, and the collector comes between.                        *)
THEOREM LocksExact == Spec => []LocksMatchHolders
<1>1. Inductive => LocksMatchHolders
  BY DEF Inductive, IInv
<1>2. QED
  BY <1>1, Invariance, PTL

(* Nobody waits for or holds the lock of a process that the collector has   *)
(* taken out of the table and is freeing, or has freed.                     *)
THEOREM FreedAreUnheld == Spec => []FreedUnheld
<1>1. ASSUME Inductive PROVE FreedUnheld
  <2>1. ASSUME NEW p \in Procs, proc[p] \in {"detached", "freed"}
        PROVE  /\ ReadersOf(p) \cup WritersOf(p) = {}
               /\ \A a \in Agents : ~(At(a, "wantProc") /\ Target(a) = p)
               /\ \A t \in Threads : ~(At(t, "wantOwn") /\ Home[t] = p)
    <3>1. \A a \in Agents : ~Touches(a, p)
      BY <1>1, <2>1 DEF Inductive, IInv, WorkedOnLives, Table, Ending
    <3>2. QED
      BY <3>1, AgentsFinite DEF Touches, ReadersOf, WritersOf, At
  <2>2. QED
    BY <2>1 DEF FreedUnheld
<1>2. QED
  BY <1>1, Invariance, PTL
-----------------------------------------------------------------------------
(* Why look-ups find what they look for, as long as no peer upsets a thread *)
(* of the process. Whoever is inside the kernel runs in a process that has  *)
(* not ended,                                                               *)
InsideAlive ==
    \A t \in Threads : Calm(Home[t]) /\ pc[t] \in Inside =>
        status[t] = "running" /\ proc[Home[t]] \in Ending \cup {"live"}

(* and who has exited does not run again.                                   *)
ExitedEnded ==
    \A t \in Threads : Calm(Home[t]) /\ pc[t] = "exited" => status[t] \in {"finished", "deleted"}

(* A process is empty until the exec that makes it, and no other, puts its  *)
(* first thread there.                                                      *)
Started(p) == \E u \in Threads : Home[u] = p /\ status[u] # "none"
Execs(t, p) == Op(t) = "exec" /\ Target(t) = p
Bearing == {"wantWrite", "writing", "wantList", "wantProc", "holding", "wantOwn", "cloning"}
ExecsApart ==
    /\ \A t \in Threads : status[t] = "none" => pc[t] = "user"
    /\ \A p \in Procs : proc[p] = "unborn" => ~Started(p)
    /\ \A p \in Procs, t \in Threads : Execs(t, p) =>
         /\ proc[p] # "unborn"
         /\ \A u \in Threads : Execs(u, p) => t = u
         /\ pc[t] \in Bearing => ~Started(p)

(* The collector's tasks are different, and of processes that were started; *)
(* the threads among them have finished.                                    *)
Whom == Threads \cup {NoThread}
Task(i, p, t) == i \in Slots /\ tasks[i] = <<p, t>>
TasksFit ==
    \A p \in Procs, t \in Whom, i \in Slots : Task(i, p, t) =>
        /\ \A j \in Slots : Task(j, p, t) => i = j
        /\ Started(p)
        /\ t \in Threads => Home[t] = p /\ (Calm(p) => status[t] \in {"finished", "deleted"})

(* What it has still to do in this pass, or will do in the next, can be     *)
(* done: the thread is there, the process has finished and is the last.     *)
Ready(p, t) ==
    IF t = NoThread THEN proc[p] = "finished" ELSE status[t] = "finished" /\ p \in Table
LastOf(i, p) == \A j \in Slots, t \in Whom : j > i => ~Task(j, p, t)
TasksReady ==
    \A p \in Procs, t \in Whom, i \in Slots : Task(i, p, t) /\ i > slot /\ Calm(p) =>
        Ready(p, t) /\ (t = NoThread => LastOf(i, p))

(* Tasks of a calm process do not stay: behind the collector there are none,*)
(* and when it rests those that wait leave no slot free among them.         *)
NothingStays ==
    \A p \in Procs, t \in Whom, i \in Slots : Task(i, p, t) /\ Calm(p) =>
        /\ i >= slot /\ (At(GC, "next") => i > slot)
        /\ At(GC, "idle") => \A j \in Slots : j < i => tasks[j] # NoTask

(* The collector is at a task it can do. *)
Doing(p, t) == slot \in Slots /\ tasks[slot] = <<p, t>> /\ Target(GC) = p
Reaping == Op(GC) = "reap" /\ pc[GC] \in {"putProc", "wantWrite", "writing"}
Reapable(p) ==
    /\ p \in Table /\ Started(p) /\ LastOf(slot, p)
    /\ proc[p] = "finished" \/ Attached(p) = {}
CollectorFits ==
    /\ At(GC, "idle") => slot = 0
    /\ ~(At(GC, "idle") \/ At(GC, "next")) =>
         Op(GC) \in {"collect", "reap", "lost"} /\ \E p \in Procs, t \in Whom : Doing(p, t)
    /\ pc[GC] \in {"wantList", "wantProc", "holding"} => Op(GC) = "collect"
    /\ pc[GC] \in {"wantWrite", "writing"} => Op(GC) = "reap"
    /\ \A p \in Procs, t \in Whom : Doing(p, t) =>
         /\ pc[GC] \in {"wantList", "wantProc", "holding"} =>
              t \in Threads /\ (Calm(p) => Ready(p, t))
         /\ Reaping /\ Calm(p) => Reapable(p)
    /\ \A p \in Procs : proc[p] = "detached" => At(GC, "freeing") /\ Target(GC) = p
    /\ \A p \in Procs : Target(GC) = p /\ Calm(p) =>
         pc[GC] \notin {"failed", "missing"} /\ Op(GC) # "lost"

(* An ended process out of which all have gone has a thread that no task is *)
(* about: the collection of its threads one by one does not empty it.       *)
Rest(p) == \E u \in Attached(p) : \A i \in Slots : ~Task(i, p, u)
EndedHasRest ==
    \A p \in Procs :
        Calm(p) /\ proc[p] \in Ending \cup {"finished", "crashed"} /\ kernel[p] = 0 => Rest(p)

FindInv ==
    /\ KernelCountExact /\ InsideAlive /\ ExitedEnded /\ EndedHasRest /\ ExecsApart
    /\ TasksFit /\ TasksReady /\ NothingStays /\ CollectorFits
-----------------------------------------------------------------------------
(* What a step of t does to the life of processes and threads, when nobody  *)
(* is upset by it: nobody is deleted, those in the kernel run on, and who   *)
(* has finished stays so.                                                   *)
UpsetGrows == upset \subseteq upset'
Mild(t) ==
    /\ \A u \in Threads :
         /\ status'[u] = "deleted" <=> status[u] = "deleted"
         /\ status'[u] = "none" => status[u] = "none"
         /\ Calm(Home[u])' /\ ((u # t /\ pc[u] \in Inside) \/ status[u] = "finished") =>
                status'[u] = status[u]
    /\ \A p \in Procs :
         /\ proc'[p] = "unborn" => proc[p] = "unborn"
         /\ proc'[p] = "detached" => proc[p] = "detached"
         /\ p \in Table => p \in Table'
         /\ Calm(p)' => /\ proc[p] \in Ending \cup {"live"} => proc'[p] \in Ending \cup {"live"}
                        /\ proc[p] = "finished" => proc'[p] = "finished"
         /\ p # Home[t] => proc'[p] = proc[p] \/ proc'[p] \in {"made", "live"}

KernelFollows(t) ==
    \A p \in Procs :
        /\ p # Home[t] => kernel'[p] = kernel[p]
        /\ p = Home[t] /\ Calm(p)' =>
             kernel'[p] + B(pc[t] \in Inside) = kernel[p] + B(pc'[t] \in Inside)

LEMMA CalmEarlier == ASSUME UpsetGrows, NEW p, Calm(p)' PROVE Calm(p)
BY DEF UpsetGrows, Calm

(* The threads that the count of a process counts. *)
Counted(p) == {t \in Threads : Home[t] = p /\ pc[t] \in Inside /\ status[t] # "deleted"}

LEMMA CountedFinite == \A p : IsFiniteSet(Counted(p))
<1>1. \A p : Counted(p) \subseteq Threads
  BY DEF Counted
<1>2. QED
  BY <1>1, ThreadsAssumption, FS_Subset

LEMMA CountKept ==
    ASSUME IInv, IInv', FindInv, NEW t \in Threads, OthersStay(t), Runs(t), UpsetGrows,
           Mild(t), KernelFollows(t)
    PROVE  KernelCountExact'
<1> SUFFICES ASSUME NEW p \in Procs, Calm(p)' PROVE kernel'[p] = Cardinality(Counted(p)')
  BY DEF KernelCountExact, Counted
<1>1. kernel[p] = Cardinality(Counted(p)) /\ kernel[p] \in Int /\ kernel'[p] \in Int
  BY CalmEarlier DEF FindInv, KernelCountExact, Counted, IInv, TypeOK
<1>2. \A u \in Threads : u # t => pc'[u] = pc[u]
  BY AgentsFinite DEF OthersStay
<1>3. status[t] = "running" /\ status'[t] # "deleted"
  BY DEF Runs, Mild
<1>4. Counted(p) \ {t} = Counted(p)' \ {t}
  BY <1>2 DEF Counted, Mild
<1>5. /\ Cardinality(Counted(p)) \in Nat /\ Cardinality(Counted(p)') \in Nat
      /\ Cardinality(Counted(p)') + B(t \in Counted(p)) = Cardinality(Counted(p)) + B(t \in Counted(p)')
  BY <1>4, CountedFinite, OneDiffers
<1>6. CASE p # Home[t]
  <2>1. t \notin Counted(p) /\ t \notin Counted(p)'
    BY <1>6 DEF Counted
  <2>2. kernel'[p] = kernel[p]
    BY <1>6 DEF KernelFollows
  <2>3. QED
    BY <1>1, <1>5, <2>1, <2>2 DEF B
<1>7. CASE p = Home[t]
  <2>1. (t \in Counted(p) <=> pc[t] \in Inside) /\ (t \in Counted(p)' <=> pc'[t] \in Inside)
    BY <1>3, <1>7 DEF Counted
  <2>2. kernel'[p] + B(pc[t] \in Inside) = kernel[p] + B(pc'[t] \in Inside)
    BY <1>7 DEF KernelFollows
  <2>3. QED
    BY <1>1, <1>5, <2>1, <2>2 DEF B
<1>8. QED
  BY <1>6, <1>7

LEMMA ThreadsKept ==
    ASSUME IInv, IInv', FindInv, NEW t \in Threads, OthersStay(t), Runs(t), UpsetGrows,
           Mild(t), KernelFollows(t), tasks' = tasks, status'[t] # "none",
           Calm(Home[t])' /\ pc'[t] \in Inside =>
               status'[t] = "running" /\ proc'[Home[t]] \in Ending \cup {"live"},
           Calm(Home[t])' /\ pc'[t] = "exited" => status'[t] = "finished"
    PROVE  KernelCountExact' /\ InsideAlive' /\ ExitedEnded' /\ EndedHasRest'
<1>1. \A u \in Threads : u # t => pc'[u] = pc[u]
  BY AgentsFinite DEF OthersStay
<1>2. status[t] = "running" /\ status'[t] # "deleted" /\ Home \in [Threads -> Procs]
  BY HomesAssumption DEF Runs, Mild
<1>3. InsideAlive'
  <2> SUFFICES ASSUME NEW u \in Threads, Calm(Home[u])', pc'[u] \in Inside
               PROVE  status'[u] = "running" /\ proc'[Home[u]] \in Ending \cup {"live"}
    BY DEF InsideAlive
  <2>1. CASE u = t
    BY <2>1
  <2>2. CASE u # t
    <3>1. Calm(Home[u]) /\ pc[u] \in Inside
      BY <1>1, <2>2, CalmEarlier
    <3>2. status[u] = "running" /\ proc[Home[u]] \in Ending \cup {"live"}
      BY <3>1 DEF FindInv, InsideAlive
    <3>3. QED
      BY <1>2, <2>2, <3>1, <3>2 DEF Mild
  <2>3. QED
    BY <2>1, <2>2
<1>4. ExitedEnded'
  <2> SUFFICES ASSUME NEW u \in Threads, Calm(Home[u])', pc'[u] = "exited"
               PROVE  status'[u] \in {"finished", "deleted"}
    BY DEF ExitedEnded
  <2>1. CASE u = t
    BY <2>1
  <2>2. CASE u # t
    <3>1. status[u] \in {"finished", "deleted"}
      BY <1>1, <2>2, CalmEarlier DEF FindInv, ExitedEnded
    <3>2. QED
      BY <3>1 DEF Mild
  <2>3. QED
    BY <2>1, <2>2
<1>5. EndedHasRest'
  <2> SUFFICES ASSUME NEW p \in Procs, Calm(p)',
                      proc'[p] \in Ending \cup {"finished", "crashed"}, kernel'[p] = 0
               PROVE  Rest(p)'
    BY DEF EndedHasRest
  <2>1. CASE p = Home[t]
    <3>1. \A i \in Slots : ~Task(i, p, t)
      BY <1>2, <2>1, CalmEarlier DEF FindInv, TasksFit, Whom
    <3>2. t \in Attached(p)'
      BY <1>2, <2>1 DEF Attached
    <3>3. QED
      BY <3>1, <3>2 DEF Rest, Task
  <2>2. CASE p # Home[t]
    <3>1. proc'[p] = proc[p] /\ kernel'[p] = kernel[p]
      BY <2>2 DEF Mild, KernelFollows, Ending
    <3>2. Rest(p)
      BY <3>1, CalmEarlier DEF FindInv, EndedHasRest
    <3>3. Attached(p) \subseteq Attached(p)'
      BY DEF Attached, Mild
    <3>4. QED
      BY <3>2, <3>3 DEF Rest, Task
  <2>3. QED
    BY <2>1, <2>2
<1>6. QED
  BY <1>3, <1>4, <1>5, CountKept

(* A process gets its first thread from its exec, and from nobody else. *)
LEMMA ExecsKept ==
    ASSUME IInv, FindInv, NEW t \in Threads, OthersStay(t), Runs(t), Mild(t), status'[t] # "none",
           \A p \in Procs : Started(p)' => Started(p) \/ (Execs(t, p) /\ pc'[t] \notin Bearing),
           \A p \in Procs : Execs(t, p)' =>
               \/ Execs(t, p) /\ (pc'[t] \in Bearing => pc[t] \in Bearing)
               \/ proc[p] = "unborn" /\ proc'[p] # "unborn"
    PROVE  ExecsApart'
<1>1. \A u \in Threads : u # t => pc'[u] = pc[u] /\ (\A p : Execs(u, p)' <=> Execs(u, p))
  BY AgentsFinite DEF OthersStay, Execs, Op, Target
<1>2. \A u \in Threads : status'[u] = "none" => pc'[u] = "user"
  BY <1>1 DEF FindInv, ExecsApart, Mild
<1>3. ASSUME NEW p \in Procs, proc'[p] = "unborn" PROVE ~Started(p)'
  <2>1. proc[p] = "unborn" /\ ~Started(p)
    BY <1>3 DEF Mild, FindInv, ExecsApart
  <2>2. ~Execs(t, p)
    BY <2>1 DEF FindInv, ExecsApart
  <2>3. QED
    BY <2>1, <2>2
<1>4. ASSUME NEW p \in Procs, NEW u \in Threads, Execs(u, p)'
      PROVE  /\ proc'[p] # "unborn"
             /\ \A v \in Threads : Execs(v, p)' => u = v
             /\ pc'[u] \in Bearing => ~Started(p)'
  <2>1. CASE Execs(u, p)
    <3>1. proc[p] # "unborn" /\ (pc[u] \in Bearing => ~Started(p))
          /\ \A v \in Threads : Execs(v, p) => u = v
      BY <2>1 DEF FindInv, ExecsApart
    <3>2. \A v \in Threads : Execs(v, p)' => Execs(v, p)
      BY <1>1, <3>1
    <3>3. proc'[p] # "unborn"
      BY <3>1 DEF Mild
    <3>4. ASSUME pc'[u] \in Bearing PROVE ~Started(p)'
      <4>1. pc[u] \in Bearing
        BY <1>1, <1>4, <3>1, <3>4
      <4>2. QED
        BY <2>1, <3>1, <3>4, <4>1
    <3>5. QED
      BY <3>1, <3>2, <3>3, <3>4
  <2>2. CASE ~Execs(u, p)
    <3>1. u = t /\ proc[p] = "unborn" /\ proc'[p] # "unborn"
      BY <1>1, <1>4, <2>2
    <3>2. \A v \in Threads : ~Execs(v, p)
      BY <3>1 DEF FindInv, ExecsApart
    <3>3. ~Started(p) /\ ~Started(p)'
      BY <3>1, <3>2 DEF FindInv, ExecsApart
    <3>4. QED
      BY <1>1, <3>1, <3>2, <3>3
  <2>3. QED
    BY <2>1, <2>2
<1>5. QED
  BY <1>2, <1>3, <1>4 DEF ExecsApart

(* The collector's tasks do not notice. *)
LEMMA TasksKept ==
    ASSUME IInv, FindInv, NEW t \in Threads, UpsetGrows, Mild(t), tasks' = tasks, slot' = slot,
           pc'[GC] = pc[GC], call'[GC] = call[GC],
           \A p \in Procs : Started(p) /\ Calm(p)' /\ Attached(p) = {} => Attached(p)' = {}
    PROVE  TasksFit' /\ TasksReady' /\ NothingStays' /\ CollectorFits'
<1>1. /\ \A i, p, u : Task(i, p, u)' <=> Task(i, p, u)
      /\ \A p, u : Doing(p, u)' <=> Doing(p, u)
      /\ \A i, p : LastOf(i, p)' <=> LastOf(i, p)
      /\ Reaping' <=> Reaping
      /\ Op(GC)' = Op(GC) /\ Target(GC)' = Target(GC)
  BY DEF Task, Doing, LastOf, Reaping, Op, Target
<1>2. \A p : Started(p) => Started(p)'
  BY DEF Started, Mild
<1>3. ASSUME NEW p \in Procs, NEW u \in Whom, Ready(p, u), Calm(p)', u \in Threads => Home[u] = p
      PROVE  Ready(p, u)'
  <2>1. CASE u = NoThread
    BY <1>3, <2>1 DEF Ready, Mild
  <2>2. CASE u # NoThread
    <3>1. u \in Threads /\ status[u] = "finished" /\ p \in Table /\ Home[u] = p
      BY <1>3, <2>2 DEF Ready, Whom
    <3>2. status'[u] = "finished" /\ p \in Table'
      BY <1>3, <3>1 DEF Mild
    <3>3. QED
      BY <2>2, <3>2 DEF Ready
  <2>3. QED
    BY <2>1, <2>2
<1>4. TasksFit'
  <2> SUFFICES ASSUME NEW p \in Procs, NEW u \in Whom, NEW i \in Slots, Task(i, p, u)
               PROVE  /\ \A j \in Slots : Task(j, p, u) => i = j
                      /\ Started(p)'
                      /\ u \in Threads =>
                            Home[u] = p /\ (Calm(p)' => status'[u] \in {"finished", "deleted"})
    BY <1>1 DEF TasksFit
  <2>1. /\ \A j \in Slots : Task(j, p, u) => i = j
        /\ Started(p)
        /\ u \in Threads => Home[u] = p /\ (Calm(p) => status[u] \in {"finished", "deleted"})
    BY DEF FindInv, TasksFit
  <2>2. ASSUME u \in Threads, Calm(p)' PROVE status'[u] \in {"finished", "deleted"}
    BY <2>1, <2>2, CalmEarlier DEF Mild
  <2>3. QED
    BY <1>2, <2>1, <2>2
<1>5. TasksReady'
  <2> SUFFICES ASSUME NEW p \in Procs, NEW u \in Whom, NEW i \in Slots, Task(i, p, u), i > slot, Calm(p)'
               PROVE  Ready(p, u)' /\ (u = NoThread => LastOf(i, p))
    BY <1>1 DEF TasksReady
  <2>1. Ready(p, u) /\ (u = NoThread => LastOf(i, p)) /\ (u \in Threads => Home[u] = p)
    BY CalmEarlier DEF FindInv, TasksReady, TasksFit
  <2>2. QED
    BY <1>3, <2>1
<1>6. NothingStays'
  BY <1>1, CalmEarlier DEF FindInv, NothingStays, At
<1>7. ASSUME NEW p \in Procs, NEW u \in Whom, Doing(p, u)
      PROVE  /\ pc[GC] \in {"wantList", "wantProc", "holding"} =>
                  u \in Threads /\ (Calm(p)' => Ready(p, u)')
             /\ Reaping /\ Calm(p)' => Reapable(p)'
  <2>1. Task(slot, p, u)
    BY <1>7 DEF Doing, Task
  <2>2. u \in Threads => Home[u] = p
    BY <2>1 DEF FindInv, TasksFit, Task
  <2>3. ASSUME Reaping, Calm(p)' PROVE Reapable(p)'
    <3>1. Reapable(p)
      BY <1>7, <2>3, CalmEarlier DEF FindInv, CollectorFits
    <3>2. p \in Table' /\ Started(p)' /\ LastOf(slot, p)'
      BY <1>1, <1>2, <3>1 DEF Reapable, Mild, LastOf, Task
    <3>3. proc'[p] = "finished" \/ Attached(p)' = {}
      BY <2>3, <3>1 DEF Reapable, Mild
    <3>4. QED
      BY <3>2, <3>3 DEF Reapable
  <2>4. QED
    BY <1>3, <1>7, <2>2, <2>3, CalmEarlier DEF FindInv, CollectorFits
<1>8. \A p \in Procs : proc'[p] = "detached" => proc[p] = "detached"
  BY DEF Mild
<1>9. CollectorFits'
  <2>1. /\ At(GC, "idle") => slot = 0
        /\ ~(At(GC, "idle") \/ At(GC, "next")) =>
             Op(GC) \in {"collect", "reap", "lost"} /\ \E p \in Procs, u \in Whom : Doing(p, u)
        /\ pc[GC] \in {"wantList", "wantProc", "holding"} => Op(GC) = "collect"
        /\ pc[GC] \in {"wantWrite", "writing"} => Op(GC) = "reap"
        /\ \A p \in Procs : proc[p] = "detached" => At(GC, "freeing") /\ Target(GC) = p
        /\ \A p \in Procs : Target(GC) = p /\ Calm(p) =>
             pc[GC] \notin {"failed", "missing"} /\ Op(GC) # "lost"
    BY DEF FindInv, CollectorFits
  <2>2. \A s : At(GC, s)' <=> At(GC, s)
    BY DEF At
  <2>3. \A p \in Procs : Target(GC) = p /\ Calm(p)' =>
             pc[GC] \notin {"failed", "missing"} /\ Op(GC) # "lost"
    BY <2>1, CalmEarlier
  <2>4. QED
    BY <1>1, <1>7, <1>8, <2>1, <2>2, <2>3 DEF CollectorFits
<1>10. QED
  BY <1>4, <1>5, <1>6, <1>9

LEMMA StepKept ==
    ASSUME IInv, IInv', FindInv, NEW t \in Threads, OthersStay(t), Runs(t), UpsetGrows,
           Mild(t), KernelFollows(t), tasks' = tasks, slot' = slot, status'[t] # "none",
           Calm(Home[t])' /\ pc'[t] \in Inside =>
               status'[t] = "running" /\ proc'[Home[t]] \in Ending \cup {"live"},
           Calm(Home[t])' /\ pc'[t] = "exited" => status'[t] = "finished",
           \A p \in Procs : Started(p)' => Started(p) \/ (Execs(t, p) /\ pc'[t] \notin Bearing),
           \A p \in Procs : Execs(t, p)' =>
               \/ Execs(t, p) /\ (pc'[t] \in Bearing => pc[t] \in Bearing)
               \/ proc[p] = "unborn" /\ proc'[p] # "unborn",
           \A p \in Procs : Started(p) /\ Calm(p)' /\ Attached(p) = {} => Attached(p)' = {}
    PROVE  FindInv'
<1>1. pc'[GC] = pc[GC] /\ call'[GC] = call[GC]
  BY AgentsFinite DEF OthersStay
<1>2. KernelCountExact' /\ InsideAlive' /\ ExitedEnded' /\ EndedHasRest'
  BY ThreadsKept
<1>3. ExecsApart'
  BY ExecsKept
<1>4. TasksFit' /\ TasksReady' /\ NothingStays' /\ CollectorFits'
  BY <1>1, TasksKept
<1>5. QED
  BY <1>2, <1>3, <1>4 DEF FindInv

LEMMA MildAlone == ASSUME IInv, UNCHANGED life, NEW t PROVE Mild(t)
BY DEF Mild, life, Table, IInv, TypeOK

(* A step that changes the life of nobody. *)
LEMMA PlainStep ==
    ASSUME IInv, IInv', FindInv, NEW t \in Threads, OthersStay(t), Runs(t), UNCHANGED life,
           upset' = upset, tasks' = tasks, slot' = slot, KernelFollows(t), pc'[t] # "exited",
           \A p \in Procs : Execs(t, p)' => Execs(t, p) /\ (pc'[t] \in Bearing => pc[t] \in Bearing)
    PROVE  FindInv'
<1>1. /\ proc' = proc /\ status' = status /\ UpsetGrows
      /\ status[t] = "running" /\ proc[Home[t]] \in Ending \cup {"live"}
  BY DEF life, UpsetGrows, Runs
<1>2. Mild(t)
  BY MildAlone
<1>3. (\A p : Started(p)' <=> Started(p)) /\ (\A p : Attached(p)' = Attached(p))
  BY <1>1 DEF Started, Attached
<1>4. QED
  BY <1>1, <1>2, <1>3, StepKept

LEMMA KernelAlone ==
    ASSUME IInv, NEW t, kernel' = kernel, pc[t] \in Inside <=> pc'[t] \in Inside
    PROVE  KernelFollows(t)
BY DEF KernelFollows, IInv, TypeOK

(* One thread goes in or out, and the count with it. *)
LEMMA KernelMoves ==
    ASSUME IInv, NEW t \in Threads,
           \/ pc[t] \notin Inside /\ pc'[t] \in Inside
              /\ kernel' = [kernel EXCEPT ![Home[t]] = @ + 1]
           \/ pc[t] \in Inside /\ pc'[t] \notin Inside
              /\ kernel' = [kernel EXCEPT ![Home[t]] = @ - 1]
    PROVE  KernelFollows(t)
<1>1. kernel \in [Procs -> Int] /\ Home[t] \in Procs
  BY HomesAssumption DEF IInv, TypeOK
<1>2. QED
  BY <1>1 DEF KernelFollows, B
-----------------------------------------------------------------------------
(* Checkouts, the way in and the way out. *)
LEMMA CheckoutsFind ==
    ASSUME IInv, IInv', FindInv, NEW t \in Threads, Checkout(t)
    PROVE  FindInv'
<1>1. /\ UNCHANGED life /\ upset' = upset /\ tasks' = tasks /\ slot' = slot /\ kernel' = kernel
      /\ call' = call /\ Runs(t) /\ t \in Agents /\ t # GC
  BY AgentsFinite DEF Checkout, CheckoutList, CheckoutProc, Commit, LockList, collector, life
<1>2. PICK s \in Inside : pc' = [pc EXCEPT ![t] = s] \/ (pc' = pc /\ s = pc[t])
  BY <1>1 DEF Checkout, CheckoutList, CheckoutProc, Commit, LockList, AfterCommit, Goto, At, Inside
<1>3. pc[t] \in {"wantList", "wantProc", "putProc", "holding", "wantWrite"}
      /\ (pc[t] = "putProc" => s = "leaving")
  BY <1>1, <1>2 DEF Checkout, CheckoutList, CheckoutProc, Commit, LockList, AfterCommit, Goto, At, Inside,
      IInv, TypeOK
<1>4. pc'[t] = s /\ OthersStay(t)
  BY <1>1, <1>2 DEF OthersStay, IInv, TypeOK
<1>5. KernelFollows(t)
  BY <1>1, <1>2, <1>3, <1>4, KernelAlone DEF Inside
<1>6. s # "exited"
  BY <1>2 DEF Inside
<1>7. \A p : Execs(t, p)' <=> Execs(t, p)
  BY <1>1 DEF Execs, Op, Target
<1>8. s \in Bearing => pc[t] \in Bearing
  BY <1>3 DEF Bearing
<1>9. QED
  BY <1>1, <1>4, <1>5, <1>6, <1>7, <1>8, PlainStep

LEMMA TrapFinds == ASSUME IInv, IInv', FindInv, NEW t \in Threads, Trap(t) PROVE FindInv'
<1>1. /\ UNCHANGED life /\ upset' = upset /\ tasks' = tasks /\ slot' = slot /\ kernel' = kernel
      /\ call' = call /\ Runs(t) /\ t \in Agents /\ pc[t] = "user"
  BY AgentsFinite DEF Trap, At, collector
<1>2. PICK s \in {"barred", "trapped"} : pc' = [pc EXCEPT ![t] = s]
  BY DEF Trap, Goto
<1>3. pc'[t] = s /\ OthersStay(t)
  BY <1>1, <1>2 DEF OthersStay, IInv, TypeOK
<1>4. KernelFollows(t)
  BY <1>1, <1>3, KernelAlone DEF Inside
<1>5. \A p : Execs(t, p)' <=> Execs(t, p)
  BY <1>1 DEF Execs, Op, Target
<1>6. QED
  BY <1>1, <1>3, <1>4, <1>5, PlainStep DEF Bearing

LEMMA LeaveFinds == ASSUME IInv, IInv', FindInv, NEW t \in Threads, Leave(t) PROVE FindInv'
<1>1. /\ UNCHANGED life /\ upset' = upset /\ tasks' = tasks /\ slot' = slot
      /\ kernel' = [kernel EXCEPT ![Home[t]] = @ - 1] /\ pc' = [pc EXCEPT ![t] = "user"]
      /\ call' = [call EXCEPT ![t] = NoCall] /\ Runs(t) /\ t \in Agents /\ pc[t] = "leaving"
  BY AgentsFinite DEF Leave, At, Goto, collector
<1>2. pc'[t] = "user" /\ call'[t] = NoCall /\ OthersStay(t)
  BY <1>1 DEF OthersStay, IInv, TypeOK
<1>3. KernelFollows(t)
  BY <1>1, <1>2, KernelMoves DEF Inside
<1>4. \A p : ~Execs(t, p)'
  BY <1>2 DEF Execs, Op, NoCall
<1>5. QED
  BY <1>1, <1>2, <1>3, <1>4, PlainStep

LEMMA BackFinds ==
    ASSUME IInv, IInv', FindInv, NEW t \in Threads, Resume(t) \/ Return(t)
    PROVE  FindInv'
<1>1. /\ UNCHANGED life /\ upset' = upset /\ tasks' = tasks /\ slot' = slot
      /\ pc' = [pc EXCEPT ![t] = "leaving"]
      /\ call' = call /\ Runs(t) /\ t \in Agents /\ pc[t] \in {"resuming", "exited"}
  BY AgentsFinite DEF Resume, Return, At, Goto, collector, life
<1>2. pc'[t] = "leaving" /\ OthersStay(t)
  BY <1>1 DEF OthersStay, IInv, TypeOK
<1>3. KernelFollows(t)
  <2>1. CASE Resume(t)
    BY <1>1, <1>2, <2>1, KernelMoves DEF Resume, Inside
  <2>2. CASE Return(t)
    <3>1. kernel' = kernel /\ pc[t] = "exited" /\ status[t] = "running"
      BY <2>2 DEF Return, At, Runs
    <3>2. ~Calm(Home[t]) /\ upset' = upset
      BY <1>1, <3>1 DEF FindInv, ExitedEnded
    <3>3. ~Calm(Home[t])'
      BY <3>2 DEF Calm
    <3>4. QED
      BY <3>1, <3>3 DEF KernelFollows
  <2>3. QED
    BY <2>1, <2>2
<1>4. \A p : Execs(t, p)' <=> Execs(t, p)
  BY <1>1 DEF Execs, Op, Target
<1>5. QED
  BY <1>1, <1>2, <1>3, <1>4, PlainStep DEF Bearing

LEMMA CheckoutParentsFind ==
    ASSUME IInv, IInv', FindInv, NEW t \in Threads, CheckoutParentList(t) \/ CheckoutParent(t)
    PROVE  FindInv'
<1>1. /\ UNCHANGED life /\ upset' = upset /\ tasks' = tasks /\ slot' = slot /\ kernel' = kernel
      /\ call' = call /\ Runs(t) /\ t \in Agents /\ pc[t] \in {"holding", "wantOwn"}
  BY AgentsFinite DEF CheckoutParentList, CheckoutParent, Nesting, At, collector, life
<1>2. PICK s \in {"wantOwn", "putProc", "cloning"} : pc' = [pc EXCEPT ![t] = s]
  BY DEF CheckoutParentList, CheckoutParent, Goto
<1>3. pc'[t] = s /\ OthersStay(t)
  BY <1>1, <1>2 DEF OthersStay, IInv, TypeOK
<1>4. KernelFollows(t)
  BY <1>1, <1>3, KernelAlone DEF Inside
<1>5. \A p : Execs(t, p)' <=> Execs(t, p)
  BY <1>1 DEF Execs, Op, Target
<1>6. QED
  BY <1>1, <1>3, <1>4, <1>5, PlainStep DEF Bearing
-----------------------------------------------------------------------------
(* exec's beginning, a crash, and what calls do to threads and processes.   *)
LEMMA EnterFinds == ASSUME IInv, IInv', FindInv, NEW t \in Threads, Enter(t) PROVE FindInv'
<1>1. /\ status' = status /\ upset' = upset /\ tasks' = tasks /\ slot' = slot
      /\ kernel' = [kernel EXCEPT ![Home[t]] = @ + 1]
      /\ Runs(t) /\ t \in Agents /\ pc[t] = "trapped" /\ UpsetGrows
      /\ status[t] = "running" /\ proc[Home[t]] \in Ending \cup {"live"}
      /\ proc \in [Procs -> Lives] /\ pc \in [Agents -> Places]
      /\ call \in [Agents -> [op : Ops, target : Procs]] /\ Home[t] \in Procs
  BY AgentsFinite, HomesAssumption DEF Enter, At, collector, UpsetGrows, Runs, IInv, TypeOK
<1>2. \A u : (status'[u] = "deleted" <=> status[u] = "deleted")
  BY <1>1
<1>3. (\A p : Started(p)' <=> Started(p)) /\ (\A p : Attached(p)' = Attached(p))
  BY <1>1 DEF Started, Attached
<1>4. CASE \E op \in {"read", "write"}, p \in Procs :
             /\ call' = [call EXCEPT ![t] = [op |-> op, target |-> p]]
             /\ Goto(t, "wantList")
             /\ UNCHANGED proc
  <2>1. PICK op \in {"read", "write"}, q \in Procs :
             /\ call' = [call EXCEPT ![t] = [op |-> op, target |-> q]]
             /\ pc' = [pc EXCEPT ![t] = "wantList"] /\ proc' = proc
    BY <1>4 DEF Goto
  <2>2. OthersStay(t) /\ pc'[t] = "wantList" /\ Op(t)' = op
    BY <1>1, <2>1 DEF OthersStay, Op
  <2>3. Mild(t) /\ KernelFollows(t)
    BY <1>1, <2>1, <2>2, MildAlone, KernelMoves DEF Inside, life
  <2>4. \A p : ~Execs(t, p)'
    BY <2>2 DEF Execs
  <2>5. QED
    BY <1>1, <1>3, <2>1, <2>2, <2>3, <2>4, StepKept
<1>5. CASE \E p \in Procs :
             /\ proc[p] = "unborn"
             /\ proc' = [proc EXCEPT ![p] = "made"]
             /\ call' = [call EXCEPT ![t] = [op |-> "exec", target |-> p]]
             /\ Goto(t, "wantWrite")
  <2>1. PICK q \in Procs :
             /\ proc[q] = "unborn"
             /\ proc' = [proc EXCEPT ![q] = "made"]
             /\ call' = [call EXCEPT ![t] = [op |-> "exec", target |-> q]]
             /\ pc' = [pc EXCEPT ![t] = "wantWrite"]
    BY <1>5 DEF Goto
  <2>2. OthersStay(t) /\ pc'[t] = "wantWrite" /\ Op(t)' = "exec" /\ Target(t)' = q
    BY <1>1, <2>1 DEF OthersStay, Op, Target
  <2>3. KernelFollows(t)
    BY <1>1, <2>1, <2>2, KernelMoves DEF Inside
  <2>4. q # Home[t] /\ proc'[q] = "made" /\ \A p \in Procs : p # q => proc'[p] = proc[p]
    BY <1>1, <2>1 DEF Ending
  <2>5. Mild(t)
    BY <1>1, <2>1, <2>4 DEF Mild, Table, Ending
  <2>6. \A p : Execs(t, p)' => p = q
    BY <2>2 DEF Execs
  <2>7. proc'[Home[t]] \in Ending \cup {"live"}
    BY <1>1, <2>4
  <2>8. QED
    BY <1>1, <1>3, <2>1, <2>2, <2>3, <2>4, <2>5, <2>6, <2>7, StepKept
<1>6. QED
  BY <1>4, <1>5 DEF Enter

LEMMA CrashFinds == ASSUME IInv, IInv', FindInv, NEW t \in Threads, Crash(t) PROVE FindInv'
<1>1. /\ upset' = upset /\ tasks' = tasks /\ slot' = slot /\ kernel' = kernel /\ call' = call
      /\ Runs(t) /\ t \in Agents /\ pc[t] = "user" /\ UpsetGrows
      /\ status[t] = "running" /\ proc[Home[t]] \in Ending \cup {"live"}
      /\ proc \in [Procs -> Lives] /\ status \in [Threads -> Statuses] /\ Home[t] \in Procs
      /\ pc \in [Agents -> Places]
  BY AgentsFinite, HomesAssumption DEF Crash, At, collector, UpsetGrows, Runs, IInv, TypeOK
<1>2. /\ pc' = [pc EXCEPT ![t] = "looping"] /\ status' = [status EXCEPT ![t] = "crashed"]
      /\ proc' = [proc EXCEPT ![Home[t]] = "crashing"]
  BY DEF Crash, Goto
<1>3. /\ OthersStay(t) /\ pc'[t] = "looping" /\ status'[t] = "crashed"
      /\ proc'[Home[t]] = "crashing"
      /\ \A u \in Threads : u # t => status'[u] = status[u]
      /\ \A p \in Procs : p # Home[t] => proc'[p] = proc[p]
  BY <1>1, <1>2 DEF OthersStay
<1>4. Mild(t)
  BY <1>1, <1>3 DEF Mild, Table, Ending
<1>5. KernelFollows(t)
  BY <1>1, <1>3, KernelAlone DEF Inside
<1>6. \A p : Started(p)' => Started(p)
  BY <1>1, <1>3 DEF Started
<1>7. \A p : Attached(p) = {} => Attached(p)' = {}
  BY <1>1, <1>3 DEF Attached
<1>8. \A p : Execs(t, p)' <=> Execs(t, p)
  BY <1>1 DEF Execs, Op, Target
<1>9. QED
  BY <1>1, <1>3, <1>4, <1>5, <1>6, <1>7, <1>8, StepKept DEF Inside, Bearing

LEMMA PartingsFind ==
    ASSUME IInv, IInv', FindInv, NEW t \in Threads, Sleep(t) \/ ExitThread(t) \/ ExitProcess(t)
    PROVE  FindInv'
<1>1. PICK s \in {"asleep", "finished"}, place \in {"resuming", "exited", "gone"} :
          /\ Part(t, s, place) /\ (place = "exited" => s = "finished")
          /\ proc' = proc \/ proc' = [proc EXCEPT ![Home[t]] = "finishing"]
  BY DEF Sleep, ExitThread, ExitProcess
<1>2. /\ upset' = upset /\ tasks' = tasks /\ slot' = slot /\ call' = call
      /\ kernel' = [kernel EXCEPT ![Home[t]] = @ - 1]
      /\ Runs(t) /\ t \in Agents /\ pc[t] = "holding" /\ UpsetGrows
      /\ status[t] = "running" /\ proc[Home[t]] \in Ending \cup {"live"}
      /\ proc \in [Procs -> Lives] /\ status \in [Threads -> Statuses] /\ Home[t] \in Procs
      /\ pc \in [Agents -> Places] /\ Op(t) = "write"
  BY <1>1, AgentsFinite, HomesAssumption DEF Part, Writing, At, collector, UpsetGrows, Runs, IInv, TypeOK
<1>3. pc' = [pc EXCEPT ![t] = place] /\ status' = [status EXCEPT ![t] = s]
  BY <1>1 DEF Part, Goto
<1>4. /\ OthersStay(t) /\ pc'[t] = place /\ status'[t] = s
      /\ \A u \in Threads : u # t => status'[u] = status[u]
      /\ proc'[Home[t]] \in {proc[Home[t]], "finishing"}
      /\ \A p \in Procs : p # Home[t] => proc'[p] = proc[p]
  BY <1>1, <1>2, <1>3 DEF OthersStay
<1>5. Mild(t)
  BY <1>2, <1>4 DEF Mild, Table, Ending
<1>6. KernelFollows(t)
  BY <1>2, <1>4, KernelMoves DEF Inside
<1>7. \A p : Started(p)' => Started(p)
  BY <1>2, <1>4 DEF Started
<1>8. \A p : Attached(p) = {} => Attached(p)' = {}
  BY <1>2, <1>4 DEF Attached
<1>9. \A p : ~Execs(t, p)'
  BY <1>2 DEF Execs, Op, Target
<1>10. QED
  BY <1>1, <1>2, <1>4, <1>5, <1>6, <1>7, <1>8, <1>9, StepKept DEF Inside

LEMMA ChangesFind ==
    ASSUME IInv, IInv', FindInv, NEW t \in Threads, NewThread(t) \/ SetPeer(t) \/ StartProcess(t)
    PROVE  FindInv'
<1>1. /\ pc[t] = "holding" /\ pc' = [pc EXCEPT ![t] = "putProc"] /\ call' = call /\ kernel' = kernel
      /\ tasks' = tasks /\ slot' = slot /\ Runs(t) /\ status[t] = "running"
      /\ t \in Agents /\ Target(t) \in Procs /\ Target(t) \in Table /\ Op(t) = "write"
      /\ proc[Home[t]] \in Ending \cup {"live"} /\ Home[t] \in Procs
  BY WriterAtWork, HomesAssumption DEF NewThread, SetPeer, StartProcess, Writing, At, Goto, collector, Runs
<1>2. /\ proc \in [Procs -> Lives] /\ status \in [Threads -> Statuses] /\ pc \in [Agents -> Places]
  BY DEF IInv, TypeOK
<1>3. PICK u \in Threads, s \in {"suspended", "running", "finished"} :
          /\ status' = [status EXCEPT ![u] = s] /\ UpsetGrows
          /\ \/ status[u] = "none" /\ Home[u] = Home[t] /\ s = "suspended"
             \/ status[u] \notin {"none", "deleted"}
          /\ Calm(Home[u])' => s = status[u] \/ (pc[u] \notin Inside /\ status[u] # "finished")
                                 \/ (s = "running" /\ status[u] # "finished")
                                 \/ (s = "finished" /\ pc[u] \notin Inside)
          /\ \/ proc' = proc
             \/ /\ proc' = [proc EXCEPT ![Target(t)] = "live"]
                /\ Home[u] = Target(t) /\ (Calm(Home[u])' => proc[Target(t)] = "live")
  <2>1. CASE NewThread(t)
    <3>1. PICK u \in Threads :
              Home[u] = Home[t] /\ status[u] = "none" /\ status' = [status EXCEPT ![u] = "suspended"]
      BY <2>1 DEF NewThread
    <3>2. pc[u] \notin Inside /\ UpsetGrows /\ proc' = proc
      BY <2>1, <3>1 DEF FindInv, ExecsApart, Inside, NewThread, UpsetGrows
    <3>3. QED
      BY <3>1, <3>2
  <2>2. CASE SetPeer(t)
    <3>1. PICK u \in Attached(Home[t]) :
             \/ SetState(u, "running", status[u] = "finished")
             \/ SetState(u, "finished", pc[u] \in Inside)
             \/ SetState(u, "suspended", pc[u] \in Inside \/ status[u] = "finished")
      BY <2>2 DEF SetPeer
    <3>2. u \in Threads /\ status[u] \notin {"none", "deleted"} /\ proc' = proc
      BY <2>2, <3>1 DEF Attached, SetPeer
    <3>3. UpsetGrows /\ (u \in upset' => ~Calm(Home[u])')
      BY <3>1, <3>2 DEF SetState, UpsetGrows, Calm
    <3>4. CASE SetState(u, "running", status[u] = "finished")
      BY <3>2, <3>3, <3>4 DEF SetState
    <3>5. CASE SetState(u, "finished", pc[u] \in Inside)
      BY <3>2, <3>3, <3>5 DEF SetState
    <3>6. CASE SetState(u, "suspended", pc[u] \in Inside \/ status[u] = "finished")
      BY <3>2, <3>3, <3>6 DEF SetState
    <3>7. QED
      BY <3>1, <3>4, <3>5, <3>6
  <2>3. CASE StartProcess(t)
    <3>1. PICK u \in Attached(Target(t)) :
             SetState(u, "running", status[u] = "finished" \/ proc[Target(t)] # "live")
      BY <2>3 DEF StartProcess
    <3>2. /\ u \in Threads /\ status[u] \notin {"none", "deleted"} /\ Home[u] = Target(t)
          /\ proc' = [proc EXCEPT ![Target(t)] = "live"]
      BY <2>3, <3>1 DEF Attached, StartProcess
    <3>3. UpsetGrows /\ (u \in upset' => ~Calm(Home[u])')
      BY <3>1, <3>2 DEF SetState, UpsetGrows, Calm
    <3>4. QED
      BY <3>1, <3>2, <3>3 DEF SetState
  <2>4. QED
    BY <2>1, <2>2, <2>3
<1>4. /\ OthersStay(t) /\ pc'[t] = "putProc" /\ status'[u] = s
      /\ \A v \in Threads : v # u => status'[v] = status[v]
      /\ \A p \in Procs : p # Home[u] => proc'[p] = proc[p]
      /\ proc'[Home[u]] = proc[Home[u]]
         \/ /\ proc'[Home[u]] = "live" /\ Home[u] \in Table /\ (Calm(Home[u])' => proc[Home[u]] = "live")
      /\ Home[u] \in Procs
  BY <1>1, <1>2, <1>3, HomesAssumption DEF OthersStay
<1>5. Calm(Home[u])' /\ pc[u] \in Inside => s = "running" /\ status[u] = "running"
  <2>1. ASSUME Calm(Home[u])', pc[u] \in Inside PROVE s = "running" /\ status[u] = "running"
    <3>1. status[u] = "running"
      BY <1>3, <2>1, CalmEarlier DEF FindInv, InsideAlive
    <3>2. QED
      BY <1>3, <2>1, <3>1
  <2>2. QED
    BY <2>1
<1>6. Calm(Home[u])' /\ status[u] = "finished" => s = "finished"
  BY <1>3
<1>7. Mild(t)
  <2>1. ASSUME NEW v \in Threads
        PROVE  /\ status'[v] = "deleted" <=> status[v] = "deleted"
               /\ status'[v] = "none" => status[v] = "none"
               /\ Calm(Home[v])' /\ ((v # t /\ pc[v] \in Inside) \/ status[v] = "finished") =>
                      status'[v] = status[v]
    BY <1>3, <1>4, <1>5, <1>6
  <2>2. ASSUME NEW p \in Procs
        PROVE  /\ proc'[p] = "unborn" => proc[p] = "unborn"
               /\ proc'[p] = "detached" => proc[p] = "detached"
               /\ p \in Table => p \in Table'
               /\ Calm(p)' => /\ proc[p] \in Ending \cup {"live"} => proc'[p] \in Ending \cup {"live"}
                              /\ proc[p] = "finished" => proc'[p] = "finished"
               /\ p # Home[t] => proc'[p] = proc[p] \/ proc'[p] \in {"made", "live"}
    BY <1>4 DEF Table
  <2>3. QED
    BY <2>1, <2>2 DEF Mild
<1>8. KernelFollows(t)
  BY <1>1, <1>4, KernelAlone DEF Inside
<1>9. \A p : Started(p)' => Started(p)
  BY <1>1, <1>3, <1>4 DEF Started
<1>10. \A p : Started(p) /\ Attached(p) = {} => Attached(p)' = {}
  <2>1. u \in Attached(Home[u]) \/ t \in Attached(Home[u])
    BY <1>1, <1>3 DEF Attached
  <2>2. \A p : p # Home[u] => Attached(p)' = Attached(p)
    BY <1>4 DEF Attached
  <2>3. QED
    BY <2>1, <2>2
<1>11. \A p : ~Execs(t, p)'
  BY <1>1 DEF Execs, Op, Target
<1>12. status'[t] # "none"
  BY <1>1, <1>3, <1>4
<1>13. Calm(Home[t])' => status'[t] = "running" /\ proc'[Home[t]] \in Ending \cup {"live"}
  <2>1. pc[t] \in Inside
    BY <1>1 DEF Inside
  <2>2. QED
    BY <1>1, <1>3, <1>4, <1>5, <2>1
<1>14. UpsetGrows
  BY <1>3
<1>15. QED
  BY <1>1, <1>4, <1>7, <1>8, <1>9, <1>10, <1>11, <1>12, <1>13, <1>14, StepKept

LEMMA InsertFinds == ASSUME IInv, IInv', FindInv, NEW t \in Threads, Insert(t) PROVE FindInv'
<1> DEFINE q == Target(t)
<1>1. /\ status' = status /\ upset' = upset /\ tasks' = tasks /\ slot' = slot /\ kernel' = kernel
      /\ call' = call /\ Runs(t) /\ t \in Agents /\ pc[t] = "writing" /\ UpsetGrows
      /\ pc' = [pc EXCEPT ![t] = "wantList"] /\ proc' = [proc EXCEPT ![q] = "live"]
      /\ status[t] = "running" /\ proc[Home[t]] \in Ending \cup {"live"} /\ Home[t] \in Procs
  BY AgentsFinite, HomesAssumption DEF Insert, At, Goto, collector, UpsetGrows, Runs
<1>2. /\ proc \in [Procs -> Lives] /\ pc \in [Agents -> Places] /\ q \in Procs
      /\ proc[q] = "made" /\ q # Home[t]
  BY <1>1 DEF IInv, TypeOK, ChildrenOwn, Making, Target, Ending
<1>3. /\ OthersStay(t) /\ pc'[t] = "wantList" /\ proc'[q] = "live"
      /\ \A p \in Procs : p # q => proc'[p] = proc[p]
  BY <1>1, <1>2 DEF OthersStay
<1> HIDE DEF q
<1>4. Mild(t)
  BY <1>1, <1>2, <1>3 DEF Mild, Table, Ending
<1>5. KernelFollows(t)
  BY <1>1, <1>3, KernelAlone DEF Inside
<1>6. (\A p : Started(p)' <=> Started(p)) /\ (\A p : Attached(p)' = Attached(p))
  BY <1>1 DEF Started, Attached
<1>7. \A p : Execs(t, p)' <=> Execs(t, p)
  BY <1>1 DEF Execs, Op, Target
<1>8. proc'[Home[t]] \in Ending \cup {"live"} /\ pc[t] \in Bearing
  BY <1>1, <1>2, <1>3 DEF Bearing
<1>9. QED
  BY <1>1, <1>3, <1>4, <1>5, <1>6, <1>7, <1>8, StepKept

LEMMA CommitParentFinds == ASSUME IInv, IInv', FindInv, NEW t \in Threads, CommitParent(t) PROVE FindInv'
<1> DEFINE q == Target(t)
           m == Main[q]
<1>1. /\ proc' = proc /\ upset' = upset /\ tasks' = tasks /\ slot' = slot /\ kernel' = kernel
      /\ call' = call /\ Runs(t) /\ t \in Agents /\ pc[t] = "cloning" /\ UpsetGrows
      /\ pc' = [pc EXCEPT ![t] = "putProc"] /\ status' = [status EXCEPT ![m] = "suspended"]
      /\ status[t] = "running" /\ proc[Home[t]] \in Ending \cup {"live"} /\ Home[t] \in Procs
  BY AgentsFinite, HomesAssumption DEF CommitParent, At, Goto, collector, UpsetGrows, Runs
<1>2. /\ proc \in [Procs -> Lives] /\ pc \in [Agents -> Places] /\ status \in [Threads -> Statuses]
      /\ q \in Procs /\ m \in Threads /\ Home[m] = q
  BY <1>1, HomesAssumption DEF IInv, TypeOK, Target
<1>3. Execs(t, q)
  BY <1>1 DEF IInv, PlacesFit, Execs
<1> HIDE DEF m, q
<1>4. ~Started(q)
  BY <1>1, <1>2, <1>3 DEF FindInv, ExecsApart, Bearing
<1>5. status[m] = "none" /\ m # t /\ pc[m] = "user"
  BY <1>1, <1>2, <1>4 DEF FindInv, ExecsApart, Started
<1>6. /\ OthersStay(t) /\ pc'[t] = "putProc" /\ status'[m] = "suspended"
      /\ \A u \in Threads : u # m => status'[u] = status[u]
  BY <1>1, <1>2 DEF OthersStay
<1>7. Mild(t)
  <2>1. ASSUME NEW v \in Threads
        PROVE  /\ status'[v] = "deleted" <=> status[v] = "deleted"
               /\ status'[v] = "none" => status[v] = "none"
               /\ (v # t /\ pc[v] \in Inside) \/ status[v] = "finished" => status'[v] = status[v]
    BY <1>5, <1>6 DEF Inside
  <2>2. \A p \in Procs : proc'[p] = proc[p]
    BY <1>1
  <2>3. QED
    BY <2>1, <2>2 DEF Mild, Table
<1>8. KernelFollows(t)
  BY <1>1, <1>6, KernelAlone DEF Inside
<1>9. \A p : Started(p)' => Started(p) \/ p = q
  BY <1>2, <1>6 DEF Started
<1>10. \A p : Started(p) /\ Attached(p) = {} => Attached(p)' = {}
  <2>1. \A p : p # q => Attached(p)' = Attached(p)
    BY <1>2, <1>6 DEF Attached
  <2>2. QED
    BY <1>4, <2>1
<1>11. \A p : Execs(t, p)' <=> Execs(t, p)
  BY <1>1 DEF Execs, Op, Target
<1>12. status'[t] = "running" /\ "putProc" \notin Bearing
  BY <1>1, <1>5, <1>6 DEF Bearing
<1>13. QED
  BY <1>1, <1>3, <1>6, <1>7, <1>8, <1>9, <1>10, <1>11, <1>12, StepKept
-----------------------------------------------------------------------------
(* The scheduler's turn and the collector leave threads where they are.     *)
LEMMA StillThreads ==
    ASSUME IInv, FindInv, kernel' = kernel, upset' = upset,
           \A u \in Threads : pc'[u] = pc[u] /\ call'[u] = call[u],
           \A u \in Threads : Calm(Home[u]) /\ pc[u] \in Inside =>
               status'[u] = "running" /\ proc'[Home[u]] \in Ending \cup {"live"},
           \A u \in Threads : Calm(Home[u]) /\ status[u] \in {"finished", "deleted"} =>
               status'[u] \in {"finished", "deleted"},
           \A u \in Threads : status'[u] = "none" <=> status[u] = "none",
           \A p \in Procs : proc'[p] = "unborn" => proc[p] = "unborn"
    PROVE  KernelCountExact' /\ InsideAlive' /\ ExitedEnded' /\ ExecsApart'
<1>1. \A p : Calm(p)' <=> Calm(p)
  BY DEF Calm
<1>2. ASSUME NEW p \in Procs, Calm(p)
      PROVE  Counted(p)' = Counted(p) /\ kernel[p] = Cardinality(Counted(p))
  <2>1. \A u \in Threads : Home[u] = p /\ pc[u] \in Inside => status[u] = "running" /\ status'[u] = "running"
    BY <1>2 DEF FindInv, InsideAlive
  <2>2. Counted(p)' = Counted(p)
    BY <2>1 DEF Counted
  <2>3. QED
    BY <1>2, <2>2 DEF FindInv, KernelCountExact, Counted
<1>3. KernelCountExact'
  BY <1>1, <1>2 DEF KernelCountExact, Counted
<1>4. InsideAlive' /\ ExitedEnded'
  BY <1>1 DEF FindInv, InsideAlive, ExitedEnded
<1>5. (\A p : Started(p)' <=> Started(p)) /\ (\A u \in Threads, p \in Procs : Execs(u, p)' <=> Execs(u, p))
  BY DEF Started, Execs, Op, Target
<1>6. ExecsApart'
  BY <1>5 DEF FindInv, ExecsApart
<1>7. QED
  BY <1>3, <1>4, <1>6

(* When nobody is in the kernel for a calm process, none of its threads is. *)
LEMMA NobodyInside ==
    ASSUME IInv, FindInv, NEW p \in Procs, Calm(p), kernel[p] = 0
    PROVE  \A u \in Threads : Home[u] = p => pc[u] \notin Inside
<1>1. Cardinality(Counted(p)) = 0
  BY DEF FindInv, KernelCountExact, Counted
<1>2. Counted(p) = {}
  BY <1>1, CountedFinite, FS_EmptySet
<1>3. QED
  BY <1>2 DEF Counted, FindInv, InsideAlive

LEMMA EndedEmpty ==
    ASSUME IInv, FindInv, NEW p \in Procs, Calm(p), proc[p] \notin Ending \cup {"live"}
    PROVE  kernel[p] = 0
<1>1. Counted(p) = {}
  BY DEF Counted, FindInv, InsideAlive
<1>2. QED
  BY <1>1, FS_EmptySet DEF FindInv, KernelCountExact, Counted

LEMMA TaskOf ==
    ASSUME IInv
    PROVE  /\ \A i \in Slots : tasks[i] = NoTask \/ \E p \in Procs, u \in Whom : Task(i, p, u)
           /\ \A i, p, u : Task(i, p, u) => tasks[i] # NoTask /\ tasks[i][1] = p /\ tasks[i][2] = u
           /\ NoThread \notin Threads
BY ThreadsAssumption DEF IInv, TypeOK, Task, Whom, NoTask

LEMMA WakeFinds == ASSUME IInv, IInv', FindInv, NEW t \in Threads, Wake(t) PROVE FindInv'
<1>1. /\ status[t] = "asleep" /\ status' = [status EXCEPT ![t] = "running"]
      /\ proc' = proc /\ kernel' = kernel /\ pc' = pc /\ call' = call /\ tasks' = tasks /\ slot' = slot
      /\ upset' = upset /\ UpsetGrows /\ status \in [Threads -> Statuses]
  BY DEF Wake, collector, UpsetGrows, IInv, TypeOK
<1>2. status'[t] = "running" /\ \A u \in Threads : u # t => status'[u] = status[u]
  BY <1>1
<1>3. \A u \in Threads : Calm(Home[u]) /\ pc[u] \in Inside => status[u] = "running" /\ proc[Home[u]] \in Ending \cup {"live"}
  BY DEF FindInv, InsideAlive
<1>4. Mild(t)
  <2>1. \A u \in Threads : Calm(Home[u])' /\ pc[u] \in Inside => status'[u] = status[u]
    BY <1>1, <1>2, <1>3, CalmEarlier
  <2>2. QED
    BY <1>1, <1>2, <2>1 DEF Mild, Table
<1>5. \A p : Attached(p)' = Attached(p)
  BY <1>1, <1>2 DEF Attached
<1>6. KernelCountExact' /\ InsideAlive' /\ ExitedEnded' /\ ExecsApart'
  BY <1>1, <1>2, <1>3, StillThreads
<1>7. TasksFit' /\ TasksReady' /\ NothingStays' /\ CollectorFits'
  BY <1>1, <1>4, <1>5, TasksKept
<1>8. EndedHasRest'
  BY <1>1, <1>5 DEF FindInv, EndedHasRest, Rest, Task, Calm
<1>9. QED
  BY <1>6, <1>7, <1>8 DEF FindInv

(* A set of numbers that is not empty has a least one. *)
LEMMA LeastIn ==
    ASSUME NEW S \in SUBSET Nat, S # {}, NEW less, IsWellFoundedOn(less, Nat),
           \A x, y \in Nat : y < x => <<y, x>> \in less
    PROVE  \E n \in S : \A m \in S : n <= m
<1>1. PICK n \in S : \A m \in S : ~(<<m, n>> \in less)
  BY WFMin
<1>2. \A m \in S : ~(m < n)
  BY <1>1
<1>3. \A m \in S : n <= m
  BY <1>2
<1>4. QED
  BY <1>3

LEMMA LeastFound ==
    ASSUME NEW S \in SUBSET Nat, S # {}
    PROVE  \E n \in S : \A m \in S : n <= m
<1>1. IsWellFoundedOn(OpToRel(<, Nat), Nat)
  BY NatLessThanWellFounded
<1>2. \A x, y \in Nat : y < x => <<y, x>> \in OpToRel(<, Nat)
  BY DEF OpToRel
<1>3. QED
  BY <1>1, <1>2, LeastIn

(* signal_gc puts a task into the lowest free slot, or does nothing. *)
Added(i, p, x) ==
    /\ At(GC, "idle") /\ i \in Slots /\ tasks[i] = NoTask
    /\ \A j \in Slots : j < i => tasks[j] # NoTask
    /\ \A j \in Slots : ~Task(j, p, x)
    /\ tasks' = [tasks EXCEPT ![i] = <<p, x>>]

LEMMA SignalAdds ==
    ASSUME IInv, NEW p, NEW x, Signal(p, x)
    PROVE  tasks' = tasks \/ \E i \in Slots : Added(i, p, x)
<1> DEFINE free == {i \in Slots : tasks[i] = NoTask}
           i == CHOOSE k \in free : \A j \in free : k <= j
<1> SUFFICES ASSUME tasks' # tasks PROVE \E k \in Slots : Added(k, p, x)
  OBVIOUS
<1>1. /\ At(GC, "idle") /\ free # {} /\ \A j \in Slots : tasks[j] # <<p, x>>
      /\ tasks' = [tasks EXCEPT ![i] = <<p, x>>]
  BY DEF Signal
<1>2. free \subseteq Nat
  BY DEF Slots
<1>3. i \in free /\ \A j \in free : i <= j
  BY <1>1, <1>2, LeastFound
<1>4. \A j \in Slots : j < i => tasks[j] # NoTask
  BY <1>3 DEF Slots
<1> HIDE DEF i
<1>5. QED
  BY <1>1, <1>3, <1>4 DEF Added, Task

(* The process of a thread's turn may have ended now. *)
Turned(p) ==
    \/ proc' = proc
    \/ \E s \in {"finished", "crashed"} :
          proc[p] \in Ending /\ kernel[p] = 0 /\ proc' = [proc EXCEPT ![p] = s]

LEMMA TurnedTable ==
    ASSUME IInv, NEW p \in Procs, Turned(p)
    PROVE  /\ \A q \in Procs : (q \in Table <=> q \in Table') /\ (q # p => proc'[q] = proc[q])
           /\ \A q \in Procs : /\ proc[q] = "finished" => proc'[q] = "finished"
                               /\ proc'[q] = "detached" <=> proc[q] = "detached"
                               /\ proc'[q] = "unborn" => proc[q] = "unborn"
<1>1. proc \in [Procs -> Lives]
  BY DEF IInv, TypeOK
<1>2. QED
  BY <1>1 DEF Turned, Table, Ending

LEMMA TasksGrow ==
    ASSUME IInv, FindInv, NEW p \in Procs, NEW x \in Whom, NEW i,
           status' = status, pc' = pc, call' = call, slot' = slot, upset' = upset,
           Turned(p), tasks' = tasks \/ Added(i, p, x), Started(p),
           IF x = NoThread THEN proc'[p] = "finished" \/ tasks' = tasks
           ELSE Home[x] = p /\ status[x] = "finished" /\ p \in Table /\ proc[p] # "finished"
    PROVE  TasksFit' /\ TasksReady' /\ NothingStays' /\ CollectorFits'
<1>1. /\ \A q \in Procs : (q \in Table <=> q \in Table') /\ (q # p => proc'[q] = proc[q])
      /\ \A q \in Procs : /\ proc[q] = "finished" => proc'[q] = "finished"
                          /\ proc'[q] = "detached" <=> proc[q] = "detached"
  BY TurnedTable
<1>2. /\ (\A q : Started(q)' <=> Started(q)) /\ (\A q : Calm(q)' <=> Calm(q))
      /\ (\A q : Attached(q)' = Attached(q)) /\ (\A s : At(GC, s)' <=> At(GC, s))
      /\ Op(GC)' = Op(GC) /\ Target(GC)' = Target(GC) /\ (Reaping' <=> Reaping)
  BY DEF Started, Calm, Attached, At, Op, Target, Reaping
<1>3. \A q \in Procs, u \in Whom : Ready(q, u) => Ready(q, u)'
  BY <1>1 DEF Ready
<1>4. ASSUME tasks' = tasks
      PROVE  TasksFit' /\ TasksReady' /\ NothingStays' /\ CollectorFits'
  <2>1. /\ \A k, q, u : Task(k, q, u)' <=> Task(k, q, u)
        /\ \A q, u : Doing(q, u)' <=> Doing(q, u)
        /\ \A k, q : LastOf(k, q)' <=> LastOf(k, q)
    BY <1>2, <1>4 DEF Task, Doing, LastOf
  <2>2. \A q \in Procs : Reapable(q) => Reapable(q)'
    BY <1>1, <1>2, <1>4 DEF Reapable, LastOf, Task
  <2>3. TasksFit' /\ TasksReady'
    BY <1>2, <1>3, <2>1 DEF FindInv, TasksFit, TasksReady
  <2>4. NothingStays'
    BY <1>2, <1>4, <2>1 DEF FindInv, NothingStays
  <2>5. CollectorFits'
    BY <1>1, <1>2, <1>3, <2>1, <2>2 DEF FindInv, CollectorFits
  <2>6. QED
    BY <2>3, <2>4, <2>5
<1>5. ASSUME Added(i, p, x), x = NoThread => proc'[p] = "finished"
      PROVE  TasksFit' /\ TasksReady' /\ NothingStays' /\ CollectorFits'
  <2>1. /\ At(GC, "idle") /\ slot = 0 /\ slot \notin Slots /\ i \in Slots /\ tasks[i] = NoTask
        /\ \A j \in Slots : ~Task(j, p, x)
        /\ tasks' = [tasks EXCEPT ![i] = <<p, x>>] /\ tasks \in [Slots -> (Procs \X Whom) \cup {NoTask}]
    BY <1>5 DEF Added, FindInv, CollectorFits, Slots, IInv, TypeOK, Whom
  <2>2. \A k, q, u : Task(k, q, u)' <=> Task(k, q, u) \/ (k = i /\ q = p /\ u = x)
    <3>1. \A q, u : ~Task(i, q, u)
      BY <2>1, TaskOf
    <3>2. \A k \in Slots : tasks'[k] = IF k = i THEN <<p, x>> ELSE tasks[k]
      BY <2>1
    <3>3. ASSUME NEW q, NEW u
          PROVE  /\ Task(i, q, u)' <=> q = p /\ u = x
                 /\ \A k : k # i => (Task(k, q, u)' <=> Task(k, q, u))
      BY <2>1, <3>2 DEF Task
    <3>4. ASSUME NEW k, NEW q, NEW u
          PROVE  Task(k, q, u)' <=> Task(k, q, u) \/ (k = i /\ q = p /\ u = x)
      <4>1. CASE k = i
        BY <3>1, <3>3, <4>1
      <4>2. CASE k # i
        BY <3>3, <4>2
      <4>3. QED
        BY <4>1, <4>2
    <3>5. QED
      BY <3>4
  <2>3. \A q, u : ~Doing(q, u) /\ ~Doing(q, u)'
    BY <2>1 DEF Doing
  <2>4. TasksFit'
    <3> SUFFICES ASSUME NEW q \in Procs, NEW u \in Whom, NEW k \in Slots, Task(k, q, u)'
                 PROVE  /\ \A j \in Slots : Task(j, q, u)' => k = j
                        /\ Started(q)
                        /\ u \in Threads =>
                              Home[u] = q /\ (Calm(q) => status[u] \in {"finished", "deleted"})
      BY <1>2 DEF TasksFit
    <3>1. CASE q = p /\ u = x
      BY <2>1, <2>2, <3>1, TaskOf
    <3>2. CASE ~(q = p /\ u = x)
      BY <2>2, <3>2 DEF FindInv, TasksFit
    <3>3. QED
      BY <3>1, <3>2
  <2>5. TasksReady'
    <3> SUFFICES ASSUME NEW q \in Procs, NEW u \in Whom, NEW k \in Slots, Task(k, q, u)', Calm(q)
                 PROVE  Ready(q, u)' /\ (u = NoThread => LastOf(k, q)')
      BY <1>2 DEF TasksReady
    <3>1. CASE q = p /\ u = x
      <4>1. k = i
        BY <2>1, <2>2, <3>1
      <4>2. Ready(q, u)'
        BY <1>1, <1>5, <3>1, TaskOf DEF Ready
      <4>3. ASSUME NEW j \in Slots, NEW v \in Whom, j > i, Task(j, p, v)' PROVE FALSE
        <5>1. Task(j, p, v)
          BY <2>2, <4>3 DEF Slots
        <5>2. i < j
          BY <2>1, <4>3 DEF Slots
        <5>3. QED
          BY <2>1, <3>1, <5>1, <5>2 DEF FindInv, NothingStays
      <4>4. QED
        BY <3>1, <4>1, <4>2, <4>3 DEF LastOf
    <3>2. CASE ~(q = p /\ u = x)
      <4>1. Task(k, q, u) /\ k > slot
        BY <2>1, <2>2, <3>2 DEF Slots
      <4>2. Ready(q, u) /\ (u = NoThread => LastOf(k, q))
        BY <4>1 DEF FindInv, TasksReady
      <4>3. ASSUME u = NoThread PROVE q # p
        <5>1. proc[q] = "finished"
          BY <4>2, <4>3 DEF Ready
        <5>2. QED
          BY <3>2, <4>3, <5>1
      <4>4. QED
        BY <1>3, <2>2, <4>2, <4>3 DEF LastOf
    <3>3. QED
      BY <3>1, <3>2
  <2>6. NothingStays'
    <3> SUFFICES ASSUME NEW q \in Procs, NEW u \in Whom, NEW k \in Slots, Task(k, q, u)', Calm(q)
                 PROVE  \A j \in Slots : j < k => tasks'[j] # NoTask
      BY <1>2, <2>1 DEF NothingStays, At, Slots
    <3>1. \A j \in Slots : j < k => tasks[j] # NoTask
      BY <1>5, <2>1, <2>2 DEF FindInv, NothingStays, Added
    <3>2. <<p, x>> # NoTask
      BY DEF NoTask
    <3>3. QED
      BY <2>1, <3>1, <3>2
  <2>7. CollectorFits'
    <3>1. \A q, u : ~Doing(q, u)'
      BY <2>3
    <3>2. pc[GC] = "idle" /\ ~Reaping
      BY <2>1 DEF At, Reaping
    <3>3. QED
      BY <1>1, <1>2, <2>1, <3>1, <3>2 DEF FindInv, CollectorFits, At
  <2>8. QED
    BY <2>4, <2>5, <2>6, <2>7
<1>6. QED
  BY <1>4, <1>5

LEMMA TurnFinds == ASSUME IInv, IInv', FindInv, NEW t \in Threads, Turn(t) PROVE FindInv'
<1> DEFINE p == Home[t]
<1>1. /\ status' = status /\ kernel' = kernel /\ pc' = pc /\ call' = call /\ slot' = slot
      /\ upset' = upset /\ p \in Procs /\ proc \in [Procs -> Lives] /\ Started(p)
      /\ status[t] \notin {"none", "suspended", "deleted"}
  BY HomesAssumption DEF Turn, IInv, TypeOK, Started
<1>2. PICK x \in {t, NoThread} :
          /\ Turned(p) /\ (tasks' = tasks \/ Signal(p, x))
          /\ IF x = NoThread THEN proc'[p] \in {"finished", "detached"} \/ tasks' = tasks
             ELSE /\ status[x] = "finished" /\ proc[p] \in Ending \cup {"live"} /\ ~Quiet(p)
                  /\ proc' = proc
  <2>1. CASE Quiet(p) /\ proc[p] = "finishing" /\ proc' = [proc EXCEPT ![p] = "finished"]
             /\ Signal(p, NoThread)
    BY <1>1, <2>1 DEF Turned, Quiet
  <2>2. CASE Quiet(p) /\ proc[p] = "crashing" /\ proc' = [proc EXCEPT ![p] = "crashed"]
             /\ UNCHANGED tasks
    BY <1>1, <2>2 DEF Turned, Quiet
  <2>3. CASE proc[p] \in {"finished", "detached"} /\ Signal(p, NoThread) /\ UNCHANGED proc
    BY <2>3 DEF Turned
  <2>4. CASE ~Quiet(p) /\ proc[p] \in Ending \cup {"live"} /\ status[t] = "finished" /\ Signal(p, t)
             /\ UNCHANGED proc
    BY <2>4, TaskOf DEF Turned
  <2>5. QED
    BY <2>1, <2>2, <2>3, <2>4 DEF Turn
<1>3. PICK i : tasks' = tasks \/ Added(i, p, x)
  BY <1>2, SignalAdds
<1>4. x \in Whom /\ (x = NoThread \/ x = t)
  BY DEF Whom
<1> HIDE DEF p
<1>5. IF x = NoThread THEN proc'[p] = "finished" \/ tasks' = tasks
      ELSE Home[x] = p /\ status[x] = "finished" /\ p \in Table /\ proc[p] # "finished"
  <2>1. CASE x = NoThread
    <3>1. proc'[p] = "detached" => proc[p] = "detached"
      BY <1>1, <1>2, TurnedTable
    <3>2. proc[p] = "detached" => ~At(GC, "idle")
      BY <1>1 DEF FindInv, CollectorFits, At
    <3>3. QED
      BY <1>2, <1>3, <2>1, <3>1, <3>2 DEF Added
  <2>2. CASE x # NoThread
    BY <1>1, <1>2, <2>2 DEF p, Table, Ending
  <2>3. QED
    BY <2>1, <2>2
<1>6. TasksFit' /\ TasksReady' /\ NothingStays' /\ CollectorFits'
  BY <1>1, <1>2, <1>3, <1>4, <1>5, TasksGrow
<1>7. \A q \in Procs : (q # p => proc'[q] = proc[q]) /\ (proc'[q] = "unborn" => proc[q] = "unborn")
  BY <1>1, <1>2, TurnedTable
<1>8. KernelCountExact' /\ InsideAlive' /\ ExitedEnded' /\ ExecsApart'
  <2>1. ASSUME NEW u \in Threads, Calm(Home[u]), pc[u] \in Inside
        PROVE  status[u] = "running" /\ proc'[Home[u]] \in Ending \cup {"live"}
    <3>1. status[u] = "running" /\ proc[Home[u]] \in Ending \cup {"live"} /\ Home[u] \in Procs
      BY <2>1, HomesAssumption DEF FindInv, InsideAlive
    <3>2. Home[u] = p => kernel[p] # 0
      BY <1>1, <2>1, NobodyInside
    <3>3. proc'[Home[u]] = proc[Home[u]]
      BY <1>2, <1>7, <3>1, <3>2 DEF Turned
    <3>4. QED
      BY <3>1, <3>3
  <2>2. QED
    BY <1>1, <1>7, <2>1, StillThreads
<1>9. EndedHasRest'
  <2> SUFFICES ASSUME NEW q \in Procs, Calm(q), proc'[q] \in Ending \cup {"finished", "crashed"}, kernel[q] = 0
               PROVE  Rest(q)'
    BY <1>1 DEF EndedHasRest, Calm
  <2>1. proc[q] \in Ending \cup {"finished", "crashed"}
    BY <1>2, <1>7 DEF Turned
  <2>2. PICK u \in Attached(q) : \A k \in Slots : ~Task(k, q, u)
    BY <2>1 DEF FindInv, EndedHasRest, Rest
  <2>3. u \in Attached(q)' /\ u \in Threads
    BY <1>1 DEF Attached
  <2>4. ASSUME NEW k \in Slots, Task(k, q, u)' PROVE FALSE
    <3>1. q = p /\ u = x
      BY <1>3, <2>2, <2>4 DEF Added, Task, IInv, TypeOK
    <3>2. x # NoThread
      BY <2>3, <3>1, TaskOf
    <3>3. Quiet(p)
      BY <1>2, <2>1, <3>1, <3>2 DEF Quiet, Ending
    <3>4. QED
      BY <1>2, <3>2, <3>3
  <2>5. QED
    BY <2>3, <2>4 DEF Rest
<1>10. QED
  BY <1>6, <1>8, <1>9 DEF FindInv
-----------------------------------------------------------------------------
(* The collector's steps that only move it.                                 *)
LEMMA CollectorMoves ==
    ASSUME IInv, FindInv, kernel' = kernel, upset' = upset, status' = status, proc' = proc,
           OthersStay(GC), \A i \in Slots : tasks'[i] = tasks[i] \/ tasks'[i] = NoTask
    PROVE  /\ KernelCountExact' /\ InsideAlive' /\ ExitedEnded' /\ EndedHasRest' /\ ExecsApart'
           /\ \A i, p, u : Task(i, p, u)' => Task(i, p, u)
           /\ TasksFit'
           /\ \A p : (Calm(p)' <=> Calm(p)) /\ (Started(p)' <=> Started(p)) /\ Attached(p)' = Attached(p)
           /\ \A p, u : Ready(p, u)' <=> Ready(p, u)
<1>1. \A u \in Threads : pc'[u] = pc[u] /\ call'[u] = call[u]
  BY AgentsFinite DEF OthersStay
<1>2. KernelCountExact' /\ InsideAlive' /\ ExitedEnded' /\ ExecsApart'
  <2>1. \A u \in Threads : Calm(Home[u]) /\ pc[u] \in Inside =>
            status'[u] = "running" /\ proc'[Home[u]] \in Ending \cup {"live"}
    BY DEF FindInv, InsideAlive
  <2>2. QED
    BY <1>1, <2>1, StillThreads
<1>3. \A i, p, u : Task(i, p, u)' => Task(i, p, u)
  <2>1. \A p, u : <<p, u>> # NoTask
    BY DEF NoTask
  <2>2. QED
    BY <2>1 DEF Task
<1>4. \A p : (Calm(p)' <=> Calm(p)) /\ (Started(p)' <=> Started(p)) /\ Attached(p)' = Attached(p)
  BY DEF Calm, Started, Attached
<1>5. \A p, u : Ready(p, u)' <=> Ready(p, u)
  BY DEF Ready, Table
<1>6. TasksFit'
  <2> SUFFICES ASSUME NEW p \in Procs, NEW u \in Whom, NEW i \in Slots, Task(i, p, u)'
               PROVE  /\ \A j \in Slots : Task(j, p, u)' => i = j
                      /\ Started(p)'
                      /\ u \in Threads => Home[u] = p /\ (Calm(p)' => status'[u] \in {"finished", "deleted"})
    BY DEF TasksFit
  <2>1. Task(i, p, u) /\ \A j \in Slots : Task(j, p, u)' => Task(j, p, u)
    BY <1>3
  <2>2. QED
    BY <1>4, <2>1 DEF FindInv, TasksFit
<1>7. EndedHasRest'
  <2> SUFFICES ASSUME NEW p \in Procs, Calm(p), proc[p] \in Ending \cup {"finished", "crashed"}, kernel[p] = 0
               PROVE  Rest(p)'
    BY <1>4 DEF EndedHasRest
  <2>1. PICK u \in Attached(p) : \A i \in Slots : ~Task(i, p, u)
    BY DEF FindInv, EndedHasRest, Rest
  <2>2. \A i \in Slots : ~Task(i, p, u)'
    BY <1>3, <2>1
  <2>3. QED
    BY <1>4, <2>1, <2>2 DEF Rest
<1>8. QED
  BY <1>2, <1>3, <1>4, <1>5, <1>6, <1>7

LEMMA BeginFinds == ASSUME IInv, FindInv, Begin PROVE FindInv'
<1>1. /\ kernel' = kernel /\ upset' = upset /\ status' = status /\ proc' = proc /\ tasks' = tasks
      /\ slot' = slot /\ call' = call /\ pc' = [pc EXCEPT ![GC] = "next"] /\ pc[GC] = "idle"
  BY DEF Begin, At, Goto, life, collector
<1>2. OthersStay(GC) /\ pc'[GC] = "next" /\ slot = 0 /\ slot \notin Slots
  BY <1>1, AgentsFinite DEF OthersStay, IInv, TypeOK, FindInv, CollectorFits, At, Slots
<1>3. /\ KernelCountExact' /\ InsideAlive' /\ ExitedEnded' /\ EndedHasRest' /\ ExecsApart' /\ TasksFit'
      /\ \A p : Calm(p)' <=> Calm(p)
      /\ \A p, u : Ready(p, u)' <=> Ready(p, u)
  BY <1>1, <1>2, CollectorMoves
<1>4. (\A i, p, u : Task(i, p, u)' <=> Task(i, p, u)) /\ (\A i, p : LastOf(i, p)' <=> LastOf(i, p))
  BY <1>1 DEF Task, LastOf
<1>5. TasksReady'
  BY <1>1, <1>3, <1>4 DEF FindInv, TasksReady
<1>6. NothingStays'
  BY <1>1, <1>2 DEF NothingStays, At, Slots
<1>7. CollectorFits'
  <2>1. /\ \A p, u : ~Doing(p, u)'
        /\ ~Reaping' /\ Target(GC)' = Target(GC) /\ Op(GC)' = Op(GC)
    BY <1>1, <1>2 DEF Doing, Reaping, Target, Op
  <2>2. \A p \in Procs : proc[p] # "detached"
    BY <1>1 DEF FindInv, CollectorFits, At
  <2>3. QED
    BY <1>1, <1>2, <1>3, <2>1, <2>2 DEF FindInv, CollectorFits, At
<1>8. QED
  BY <1>3, <1>5, <1>6, <1>7 DEF FindInv

LEMMA EndFinds == ASSUME IInv, FindInv, End PROVE FindInv'
<1>1. /\ kernel' = kernel /\ upset' = upset /\ status' = status /\ proc' = proc /\ tasks' = tasks
      /\ slot' = 0 /\ call' = [call EXCEPT ![GC] = NoCall] /\ pc' = [pc EXCEPT ![GC] = "idle"]
      /\ pc[GC] = "next" /\ Ahead = {}
  BY DEF End, At, Goto, life
<1>2. OthersStay(GC) /\ pc'[GC] = "idle" /\ slot' \notin Slots /\ call'[GC] = NoCall
  BY <1>1, AgentsFinite DEF OthersStay, IInv, TypeOK, Slots
<1>3. /\ KernelCountExact' /\ InsideAlive' /\ ExitedEnded' /\ EndedHasRest' /\ ExecsApart' /\ TasksFit'
      /\ \A p : Calm(p)' <=> Calm(p)
      /\ \A i, p, u : Task(i, p, u)' => Task(i, p, u)
  BY <1>1, <1>2, CollectorMoves
<1>4. \A p \in Procs, u \in Whom, i \in Slots : Task(i, p, u) => ~Calm(p)
  BY <1>1, TaskOf DEF FindInv, NothingStays, Ahead, At
<1>5. TasksReady' /\ NothingStays'
  BY <1>3, <1>4 DEF TasksReady, NothingStays
<1>6. CollectorFits'
  <2>1. (\A p, u : ~Doing(p, u)') /\ ~Reaping' /\ Op(GC)' = "none"
    BY <1>1, <1>2 DEF Doing, Reaping, Op, NoCall
  <2>2. \A p \in Procs : proc[p] # "detached"
    BY <1>1 DEF FindInv, CollectorFits, At
  <2>3. QED
    BY <1>1, <1>2, <2>1, <2>2 DEF CollectorFits, At
<1>7. QED
  BY <1>3, <1>5, <1>6 DEF FindInv

LEMMA TakeFinds == ASSUME IInv, FindInv, Take PROVE FindInv'
<1>1. /\ kernel' = kernel /\ upset' = upset /\ status' = status /\ proc' = proc /\ tasks' = tasks
      /\ pc[GC] = "next" /\ slot \in Slots \cup {0}
  BY DEF Take, At, life, IInv, TypeOK
<1>2. PICK i \in Ahead : (\A j \in Ahead : i <= j) /\ slot' = i
        /\ \/ /\ tasks[i][2] = NoThread
              /\ call' = [call EXCEPT ![GC] = [op |-> "reap", target |-> tasks[i][1]]]
              /\ Goto(GC, "wantWrite")
           \/ /\ tasks[i][2] # NoThread
              /\ call' = [call EXCEPT ![GC] = [op |-> "collect", target |-> tasks[i][1]]]
              /\ Goto(GC, "wantList")
  BY DEF Take
<1>3. i \in Slots /\ i > slot /\ tasks[i] # NoTask
  BY <1>2 DEF Ahead
<1>4. PICK p \in Procs, x \in Whom : Task(i, p, x)
  BY <1>3, TaskOf
<1>5. tasks[i] = <<p, x>> /\ tasks[i][1] = p /\ tasks[i][2] = x
  BY <1>4, TaskOf DEF Task
<1>6. /\ OthersStay(GC) /\ Target(GC)' = p
      /\ \/ x = NoThread /\ Op(GC)' = "reap" /\ pc'[GC] = "wantWrite"
         \/ x \in Threads /\ Op(GC)' = "collect" /\ pc'[GC] = "wantList"
  <2>1. pc \in [Agents -> Places] /\ call \in [Agents -> [op : Ops, target : Procs]] /\ GC \in Agents
    BY AgentsFinite DEF IInv, TypeOK
  <2>2. QED
    BY <1>2, <1>5, <2>1 DEF OthersStay, Target, Op, Goto, Whom
<1>7. /\ KernelCountExact' /\ InsideAlive' /\ ExitedEnded' /\ EndedHasRest' /\ ExecsApart' /\ TasksFit'
      /\ \A q : (Calm(q)' <=> Calm(q)) /\ (Started(q)' <=> Started(q))
      /\ \A q, u : Ready(q, u)' <=> Ready(q, u)
  BY <1>1, <1>6, CollectorMoves
<1>8. (\A k, q, u : Task(k, q, u)' <=> Task(k, q, u)) /\ (\A k, q : LastOf(k, q)' <=> LastOf(k, q))
  BY <1>1 DEF Task, LastOf
<1>9. TasksReady'
  <2>1. \A k \in Slots : k > slot' => k > slot
    BY <1>1, <1>2, <1>3 DEF Slots
  <2>2. QED
    BY <1>7, <1>8, <2>1 DEF FindInv, TasksReady
<1>10. NothingStays'
  <2> SUFFICES ASSUME NEW q \in Procs, NEW u \in Whom, NEW k \in Slots, Task(k, q, u), Calm(q)
               PROVE  k >= i
    BY <1>2, <1>6, <1>7, <1>8 DEF NothingStays, At
  <2>1. k > slot /\ tasks[k] # NoTask
    BY <1>1, TaskOf DEF FindInv, NothingStays, At
  <2>2. i <= k
    BY <1>2, <2>1 DEF Ahead
  <2>3. QED
    BY <1>3, <2>2 DEF Slots
<1>11. Calm(p) => Ready(p, x) /\ (x = NoThread => LastOf(i, p))
  BY <1>3, <1>4 DEF FindInv, TasksReady
<1>12. Started(p)
  BY <1>3, <1>4 DEF FindInv, TasksFit
<1>13. CollectorFits'
  <2>1. /\ \A q, u : Doing(q, u)' => q = p /\ u = x
        /\ Doing(p, x)'
    BY <1>1, <1>2, <1>3, <1>5, <1>6 DEF Doing
  <2>2. ASSUME x = NoThread, Calm(p) PROVE Reapable(p)'
    <3>1. proc[p] = "finished" /\ LastOf(i, p)
      BY <1>11, <2>2 DEF Ready
    <3>2. p \in Table'
      BY <1>1, <3>1 DEF Table
    <3>3. \A j \in Slots, u \in Whom : j > i => ~Task(j, p, u)'
      BY <1>8, <3>1 DEF LastOf
    <3>4. LastOf(slot, p)'
      BY <1>2, <3>3 DEF LastOf
    <3>5. QED
      BY <1>1, <1>7, <1>12, <3>1, <3>2, <3>4 DEF Reapable
  <2>3. \A q \in Procs : proc'[q] # "detached"
    BY <1>1 DEF FindInv, CollectorFits, At
  <2>4. NoThread \notin Threads
    BY TaskOf
  <2>5. Doing(p, x)' /\ p \in Procs /\ x \in Whom
    BY <2>1
  <2>6. CASE x = NoThread
    BY <1>6, <1>7, <2>1, <2>2, <2>3, <2>4, <2>5, <2>6 DEF CollectorFits, At
  <2>7. CASE x \in Threads
    BY <1>6, <1>7, <1>11, <2>1, <2>3, <2>4, <2>5, <2>7 DEF CollectorFits, At, Reaping
  <2>8. QED
    BY <2>6, <2>7 DEF Whom
<1>14. QED
  BY <1>7, <1>9, <1>10, <1>13 DEF FindInv

LEMMA DoneFinds == ASSUME IInv, FindInv, Done PROVE FindInv'
<1>1. /\ kernel' = kernel /\ upset' = upset /\ status' = status /\ proc' = proc
      /\ slot' = slot /\ call' = call /\ pc' = [pc EXCEPT ![GC] = "next"]
      /\ pc[GC] \in {"done", "failed", "missing"}
      /\ tasks' = IF pc[GC] = "done" THEN [tasks EXCEPT ![slot] = NoTask] ELSE tasks
  BY DEF Done, At, Goto, life
<1>2. PICK p \in Procs, x \in Whom : Doing(p, x)
  BY <1>1 DEF FindInv, CollectorFits, At
<1>3. /\ OthersStay(GC) /\ pc'[GC] = "next" /\ slot \in Slots
      /\ \A i \in Slots : tasks'[i] = IF pc[GC] = "done" /\ i = slot THEN NoTask ELSE tasks[i]
  BY <1>1, <1>2, AgentsFinite DEF OthersStay, IInv, TypeOK, Doing
<1>4. /\ KernelCountExact' /\ InsideAlive' /\ ExitedEnded' /\ EndedHasRest' /\ ExecsApart' /\ TasksFit'
      /\ \A q : Calm(q)' <=> Calm(q)
      /\ \A q, u : Ready(q, u)' <=> Ready(q, u)
      /\ \A i, q, u : Task(i, q, u)' => Task(i, q, u)
  BY <1>1, <1>3, CollectorMoves
<1>5. TasksReady'
  <2> SUFFICES ASSUME NEW q \in Procs, NEW u \in Whom, NEW i \in Slots, Task(i, q, u)', i > slot, Calm(q)
               PROVE  Ready(q, u)' /\ (u = NoThread => LastOf(i, q)')
    BY <1>1, <1>4 DEF TasksReady
  <2>1. Task(i, q, u)
    BY <1>4
  <2>2. Ready(q, u) /\ (u = NoThread => LastOf(i, q))
    BY <2>1 DEF FindInv, TasksReady
  <2>3. \A j \in Slots, v \in Whom : Task(j, q, v)' => Task(j, q, v)
    BY <1>4
  <2>4. QED
    BY <1>4, <2>2, <2>3 DEF LastOf
<1>6. NothingStays'
  <2> SUFFICES ASSUME NEW q \in Procs, NEW u \in Whom, NEW i \in Slots, Task(i, q, u)', Calm(q)
               PROVE  i > slot
    BY <1>1, <1>3, <1>4 DEF NothingStays, At, Slots
  <2>1. Task(i, q, u) /\ i >= slot
    BY <1>4 DEF FindInv, NothingStays
  <2>2. ASSUME i = slot PROVE FALSE
    <3>1. tasks'[i] = <<q, u>> /\ <<q, u>> # NoTask
      BY DEF Task, NoTask
    <3>2. pc[GC] # "done"
      BY <1>3, <2>2, <3>1
    <3>3. Target(GC) = q
      BY <1>2, <2>1, <2>2 DEF Doing, Task
    <3>4. QED
      BY <1>1, <3>2, <3>3 DEF FindInv, CollectorFits
  <2>3. QED
    BY <1>3, <2>1, <2>2 DEF Slots
<1>7. CollectorFits'
  <2>1. ~Reaping' /\ Target(GC)' = Target(GC) /\ Op(GC)' = Op(GC)
    BY <1>1, <1>3 DEF Reaping, Target, Op
  <2>2. \A q \in Procs : proc[q] # "detached"
    BY <1>1 DEF FindInv, CollectorFits, At
  <2>3. QED
    BY <1>1, <1>3, <1>4, <2>1, <2>2 DEF FindInv, CollectorFits, At
<1>8. QED
  BY <1>4, <1>5, <1>6, <1>7 DEF FindInv

(* The collector's own checkouts. *)
LEMMA CollectorChecksOut == ASSUME IInv, FindInv, Checkout(GC) PROVE FindInv'
<1>1. /\ kernel' = kernel /\ upset' = upset /\ status' = status /\ proc' = proc /\ tasks' = tasks
      /\ slot' = slot /\ call' = call
  BY DEF Checkout, CheckoutList, CheckoutProc, Commit, LockList, life, collector
<1>2. PICK p \in Procs, x \in Whom : Doing(p, x)
  <2>1. ~(At(GC, "idle") \/ At(GC, "next"))
    BY DEF Checkout, CheckoutList, CheckoutProc, Commit, LockList, At
  <2>2. QED
    BY <2>1 DEF FindInv, CollectorFits
<1>3. /\ pc[GC] \in {"wantList", "wantProc", "holding"} =>
            Op(GC) = "collect" /\ x \in Threads /\ (Calm(p) => Ready(p, x))
      /\ pc[GC] \in {"wantWrite", "writing"} => Op(GC) = "reap"
      /\ Reaping /\ Calm(p) => Reapable(p)
      /\ Target(GC) = p /\ (x # NoThread <=> x \in Threads)
      /\ Calm(p) => Op(GC) # "lost"
  BY <1>2, TaskOf DEF FindInv, CollectorFits, Doing, Whom
<1>4. PICK s : pc' = [pc EXCEPT ![GC] = s] \/ (pc' = pc /\ s = pc[GC])
  BY DEF Checkout, CheckoutList, CheckoutProc, Commit, LockList, Goto
<1>5. pc'[GC] = s /\ OthersStay(GC)
  BY <1>1, <1>4, AgentsFinite DEF OthersStay, IInv, TypeOK
<1>6. \/ pc[GC] = "wantList" /\ (s = "wantProc" \/ (s = "missing" /\ ~Calm(p)))
      \/ pc[GC] = "wantProc" /\ s \in {"wantProc", "holding"}
      \/ pc[GC] = "putProc" /\ Op(GC) = "reap" /\ s = "wantWrite"
      \/ pc[GC] = "putProc" /\ Op(GC) = "collect" /\ s = "done"
      \/ pc[GC] = "putProc" /\ ~Calm(p) /\ s = "failed"
      \/ pc[GC] = "wantWrite" /\ s \in {"wantWrite", "writing"}
  <2>1. CASE CheckoutList(GC)
    <3>1. pc[GC] = "wantList" /\ pc'[GC] = IF p \in Table THEN "wantProc" ELSE "missing"
      BY <1>3, <2>1, AgentsFinite DEF CheckoutList, At, Goto, IInv, TypeOK
    <3>2. Calm(p) => p \in Table
      BY <1>3, <3>1, TaskOf DEF Ready
    <3>3. QED
      BY <1>5, <3>1, <3>2
  <2>2. CASE CheckoutProc(GC)
    BY <1>5, <2>2, AgentsFinite DEF CheckoutProc, At, Goto, IInv, TypeOK
  <2>3. CASE Commit(GC)
    <3>1. pc[GC] = "putProc"
      BY <1>3, <2>3 DEF Commit, At
    <3>2. Op(GC) \in {"collect", "reap", "lost"}
      BY <3>1 DEF FindInv, CollectorFits, At
    <3>3. pc'[GC] = IF Op(GC) = "reap" THEN "wantWrite" ELSE IF Op(GC) = "collect" THEN "done" ELSE "failed"
      BY <2>3, <3>2, AgentsFinite DEF Commit, AfterCommit, Goto, IInv, TypeOK
    <3>4. QED
      BY <1>3, <1>5, <3>1, <3>2, <3>3
  <2>4. CASE LockList(GC)
    BY <1>5, <2>4, AgentsFinite DEF LockList, At, Goto, IInv, TypeOK
  <2>5. QED
    BY <2>1, <2>2, <2>3, <2>4 DEF Checkout
<1>7. /\ KernelCountExact' /\ InsideAlive' /\ ExitedEnded' /\ EndedHasRest' /\ ExecsApart' /\ TasksFit'
      /\ \A q : (Calm(q)' <=> Calm(q)) /\ (Started(q)' <=> Started(q)) /\ Attached(q)' = Attached(q)
      /\ \A q, u : Ready(q, u)' <=> Ready(q, u)
  BY <1>1, <1>5, CollectorMoves
<1>8. /\ \A i, q, u : Task(i, q, u)' <=> Task(i, q, u)
      /\ \A i, q : LastOf(i, q)' <=> LastOf(i, q)
      /\ \A q, u : Doing(q, u)' <=> Doing(q, u)
      /\ Op(GC)' = Op(GC) /\ Target(GC)' = Target(GC)
      /\ \A q : Reapable(q)' <=> Reapable(q)
  BY <1>1, <1>7 DEF Task, LastOf, Doing, Op, Target, Reapable, Table
<1>9. TasksReady'
  BY <1>1, <1>7, <1>8 DEF FindInv, TasksReady
<1>10. NothingStays'
  BY <1>1, <1>5, <1>6, <1>7, <1>8 DEF FindInv, NothingStays, At
<1>11. CollectorFits'
  <2>1. \A q, u : Doing(q, u) => q = p /\ u = x
    BY <1>2 DEF Doing
  <2>2. \A q \in Procs : proc'[q] # "detached"
    BY <1>1, <1>6 DEF FindInv, CollectorFits, At
  <2>3. Op(GC) \in {"collect", "reap", "lost"}
    BY <1>6 DEF FindInv, CollectorFits, At
  <2>4. Reaping' /\ Calm(p) => Reapable(p)
    BY <1>3, <1>5, <1>6, <1>8 DEF Reaping
  <2>5. s \in {"wantProc", "missing", "holding", "wantWrite", "done", "failed", "writing"}
    BY <1>6
  <2>6. /\ ~At(GC, "idle")' /\ ~At(GC, "next")'
        /\ pc'[GC] \in {"wantList", "wantProc", "holding"} =>
              Op(GC) = "collect" /\ x \in Threads /\ (Calm(p) => Ready(p, x))
        /\ pc'[GC] \in {"wantWrite", "writing"} => Op(GC) = "reap"
        /\ Calm(p) => pc'[GC] \notin {"failed", "missing"} /\ Op(GC) # "lost"
    BY <1>3, <1>5, <1>6, <2>5 DEF At
  <2>7. Target(GC)' = p
    BY <1>3, <1>8
  <2>8. QED
    BY <1>2, <1>7, <1>8, <2>1, <2>2, <2>3, <2>4, <2>6, <2>7 DEF CollectorFits
<1>12. QED
  BY <1>7, <1>9, <1>10, <1>11 DEF FindInv
-----------------------------------------------------------------------------
(* A thread is collected, its process taken out of the table and freed.     *)
LEMMA CollectFinds == ASSUME IInv, IInv', FindInv, Collect PROVE FindInv'
<1>1. /\ kernel' = kernel /\ upset' = upset /\ proc' = proc /\ tasks' = tasks
      /\ slot' = slot /\ pc' = [pc EXCEPT ![GC] = "putProc"] /\ pc[GC] = "holding"
      /\ status \in [Threads -> Statuses]
  BY DEF Collect, collector, At, Goto, IInv, TypeOK
<1>2. PICK p \in Procs, x \in Whom : Doing(p, x)
  BY <1>1 DEF FindInv, CollectorFits, At
<1>3. /\ Op(GC) = "collect" /\ x \in Threads /\ (Calm(p) => status[x] = "finished" /\ p \in Table)
      /\ Target(GC) = p /\ tasks[slot] = <<p, x>> /\ slot \in Slots /\ Task(slot, p, x)
  BY <1>1, <1>2, TaskOf DEF FindInv, CollectorFits, Doing, Ready, Task
<1>4. Home[x] = p /\ Started(p) /\ \A i \in Slots : Task(i, p, x) => i = slot
  BY <1>3 DEF FindInv, TasksFit
<1>5. Calm(p) => x \in Attached(p)
  BY <1>3, <1>4 DEF Attached
<1>6. tasks[slot][2] = x
  BY <1>3
<1>7. /\ status' = IF x \in Attached(p) THEN [status EXCEPT ![x] = "deleted"] ELSE status
      /\ call' = [call EXCEPT ![GC].op = IF x \in Attached(p)
                     THEN (IF Attached(p) = {x} THEN "reap" ELSE "collect") ELSE "lost"]
  BY <1>3, <1>6 DEF Collect
<1>8. /\ OthersStay(GC) /\ pc'[GC] = "putProc" /\ Target(GC)' = p
      /\ Op(GC)' = IF x \in Attached(p)
                     THEN (IF Attached(p) = {x} THEN "reap" ELSE "collect") ELSE "lost"
  BY <1>1, <1>3, <1>7, AgentsFinite DEF OthersStay, IInv, TypeOK, Target, Op
<1>9. /\ \A u \in Threads : u # x => status'[u] = status[u]
      /\ x \in Attached(p) => status'[x] = "deleted" /\ status[x] # "none"
      /\ x \notin Attached(p) => status'[x] = status[x]
  BY <1>1, <1>3, <1>7 DEF Attached
<1>10. /\ \A q : (Calm(q)' <=> Calm(q)) /\ (Started(q)' <=> Started(q))
       /\ \A u \in Threads : status'[u] = "none" <=> status[u] = "none"
  BY <1>1, <1>9 DEF Calm, Started
<1>11. /\ \A i, q, u : Task(i, q, u)' <=> Task(i, q, u)
       /\ \A i, q : LastOf(i, q)' <=> LastOf(i, q)
       /\ \A q, u : Doing(q, u)' => q = p /\ u = x
       /\ Doing(p, x)'
  BY <1>1, <1>3, <1>8 DEF Task, LastOf, Doing
<1>12. KernelCountExact' /\ InsideAlive' /\ ExitedEnded' /\ ExecsApart'
  <2>1. \A u \in Threads : pc'[u] = pc[u] /\ call'[u] = call[u]
    BY <1>8, AgentsFinite DEF OthersStay
  <2>2. ASSUME NEW u \in Threads, Calm(Home[u]), pc[u] \in Inside
        PROVE  status'[u] = "running" /\ proc'[Home[u]] \in Ending \cup {"live"}
    <3>1. status[u] = "running" /\ proc[Home[u]] \in Ending \cup {"live"}
      BY <2>2 DEF FindInv, InsideAlive
    <3>2. u # x
      BY <1>3, <1>4, <2>2, <3>1
    <3>3. QED
      BY <1>1, <1>9, <3>1, <3>2
  <2>3. \A u \in Threads : status[u] \in {"finished", "deleted"} => status'[u] \in {"finished", "deleted"}
    BY <1>9
  <2>4. QED
    BY <1>1, <1>10, <2>1, <2>2, <2>3, StillThreads
<1>13. EndedHasRest'
  <2> SUFFICES ASSUME NEW q \in Procs, Calm(q), proc[q] \in Ending \cup {"finished", "crashed"}, kernel[q] = 0
               PROVE  Rest(q)'
    BY <1>1, <1>10 DEF EndedHasRest
  <2>1. PICK u \in Attached(q) : \A i \in Slots : ~Task(i, q, u)
    BY DEF FindInv, EndedHasRest, Rest
  <2>2. u \in Threads /\ Home[u] = q /\ status[u] \notin {"none", "deleted"}
    BY <2>1 DEF Attached
  <2>3. u # x
    BY <1>3, <1>4, <2>1, <2>2
  <2>4. u \in Attached(q)'
    BY <1>9, <2>2, <2>3 DEF Attached
  <2>5. \A i \in Slots : ~Task(i, q, u)'
    BY <1>11, <2>1
  <2>6. QED
    BY <2>4, <2>5 DEF Rest
<1>14. TasksFit'
  <2> SUFFICES ASSUME NEW q \in Procs, NEW u \in Whom, NEW i \in Slots, Task(i, q, u)
               PROVE  /\ \A j \in Slots : Task(j, q, u) => i = j
                      /\ Started(q)
                      /\ u \in Threads => Home[u] = q /\ (Calm(q) => status'[u] \in {"finished", "deleted"})
    BY <1>10, <1>11 DEF TasksFit
  <2>1. /\ \A j \in Slots : Task(j, q, u) => i = j
        /\ Started(q)
        /\ u \in Threads => Home[u] = q /\ (Calm(q) => status[u] \in {"finished", "deleted"})
    BY DEF FindInv, TasksFit
  <2>2. QED
    BY <1>9, <2>1
<1>15. TasksReady'
  <2> SUFFICES ASSUME NEW q \in Procs, NEW u \in Whom, NEW i \in Slots, Task(i, q, u), i > slot, Calm(q)
               PROVE  Ready(q, u)' /\ (u = NoThread => LastOf(i, q))
    BY <1>1, <1>10, <1>11 DEF TasksReady
  <2>1. Ready(q, u) /\ (u = NoThread => LastOf(i, q)) /\ (u \in Threads => Home[u] = q)
    BY DEF FindInv, TasksReady, TasksFit
  <2>2. u # x
    BY <1>3, <1>4, <2>1 DEF Slots
  <2>3. QED
    BY <1>1, <1>9, <2>1, <2>2 DEF Ready, Table, Whom
<1>16. NothingStays'
  BY <1>1, <1>8, <1>10, <1>11 DEF FindInv, NothingStays, At
<1>17. ASSUME Calm(p), Attached(p) = {x} PROVE Reapable(p)'
  <2>1. p \in Table /\ Started(p)
    BY <1>3, <1>4, <1>17
  <2>2. Attached(p)' = {}
    BY <1>5, <1>9, <1>17 DEF Attached
  <2>3. ASSUME NEW j \in Slots, NEW u \in Whom, j > slot, Task(j, p, u) PROVE FALSE
    <3>1. Ready(p, u)
      BY <1>17, <2>3 DEF FindInv, TasksReady
    <3>2. CASE u = NoThread
      <4>1. proc[p] = "finished"
        BY <3>1, <3>2 DEF Ready
      <4>2. kernel[p] = 0
        BY <1>17, <4>1, EndedEmpty DEF Ending
      <4>3. Rest(p)
        BY <1>17, <4>1, <4>2 DEF FindInv, EndedHasRest
      <4>4. QED
        BY <1>3, <1>17, <4>3 DEF Rest
    <3>3. CASE u # NoThread
      <4>1. u \in Threads /\ status[u] = "finished" /\ Home[u] = p
        BY <2>3, <3>1, <3>3 DEF Ready, Whom, FindInv, TasksFit
      <4>2. u = x
        BY <1>17, <4>1 DEF Attached
      <4>3. QED
        BY <1>3, <1>4, <2>3, <4>2 DEF Slots
    <3>4. QED
      BY <3>2, <3>3
  <2>4. LastOf(slot, p)'
    BY <1>1, <1>11, <2>3 DEF LastOf
  <2>5. p \in Table' /\ Started(p)'
    BY <1>1, <1>10, <2>1 DEF Table
  <2>6. QED
    BY <2>2, <2>4, <2>5 DEF Reapable
<1>18. CollectorFits'
  <2>1. \A q \in Procs : proc'[q] # "detached"
    BY <1>1 DEF FindInv, CollectorFits, At
  <2>2. Reaping' /\ Calm(p) => Reapable(p)'
    BY <1>5, <1>8, <1>17 DEF Reaping
  <2>3. Op(GC)' \in {"collect", "reap", "lost"} /\ (Calm(p) => Op(GC)' # "lost")
    BY <1>5, <1>8
  <2>4. ~At(GC, "idle")' /\ ~At(GC, "next")'
    BY <1>8 DEF At
  <2>5. QED
    BY <1>2, <1>8, <1>10, <1>11, <2>1, <2>2, <2>3, <2>4 DEF CollectorFits
<1>19. QED
  BY <1>12, <1>13, <1>14, <1>15, <1>16, <1>18 DEF FindInv

LEMMA DetachFinds == ASSUME IInv, IInv', FindInv, Detach PROVE FindInv'
<1>1. /\ kernel' = kernel /\ upset' = upset /\ status' = status /\ tasks' = tasks /\ call' = call
      /\ slot' = slot /\ pc[GC] = "writing" /\ proc \in [Procs -> Lives]
      /\ pc \in [Agents -> Places] /\ GC \in Agents
  BY AgentsFinite DEF Detach, collector, At, IInv, TypeOK
<1>2. PICK p \in Procs, x \in Whom : Doing(p, x)
  BY <1>1 DEF FindInv, CollectorFits, At
<1>3. /\ Op(GC) = "reap" /\ Target(GC) = p /\ slot \in Slots /\ (Calm(p) => Reapable(p))
      /\ \A q, u : Doing(q, u) => q = p /\ u = x
  BY <1>1, <1>2 DEF FindInv, CollectorFits, Reaping, Doing
<1>4. PICK s \in {"freeing", "failed"} :
         /\ pc' = [pc EXCEPT ![GC] = s]
         /\ proc' = IF s = "freeing" THEN [proc EXCEPT ![p] = "detached"] ELSE proc
         /\ s = "failed" => ~Calm(p)
  <2>1. CASE p \in Table
    BY <1>3, <2>1 DEF Detach, Goto
  <2>2. CASE p \notin Table
    BY <1>3, <2>2 DEF Detach, Goto, Reapable
  <2>3. QED
    BY <2>1, <2>2
<1>5. /\ OthersStay(GC) /\ pc'[GC] = s
      /\ \A q \in Procs : q # p => proc'[q] = proc[q]
      /\ s = "freeing" => proc'[p] = "detached"
      /\ s = "failed" => proc' = proc
  BY <1>1, <1>4 DEF OthersStay
<1>6. /\ \A q : (Calm(q)' <=> Calm(q)) /\ (Started(q)' <=> Started(q)) /\ Attached(q)' = Attached(q)
      /\ \A i, q, u : Task(i, q, u)' <=> Task(i, q, u)
      /\ \A i, q : LastOf(i, q)' <=> LastOf(i, q)
      /\ \A q, u : Doing(q, u)' <=> Doing(q, u)
      /\ Op(GC)' = Op(GC) /\ Target(GC)' = Target(GC)
  BY <1>1 DEF Calm, Started, Attached, Task, LastOf, Doing, Op, Target
<1>7. KernelCountExact' /\ InsideAlive' /\ ExitedEnded' /\ ExecsApart'
  <2>1. \A u \in Threads : pc'[u] = pc[u] /\ call'[u] = call[u]
    BY <1>5, AgentsFinite DEF OthersStay
  <2>2. ASSUME NEW u \in Threads, Calm(Home[u]), pc[u] \in Inside
        PROVE  status'[u] = "running" /\ proc'[Home[u]] \in Ending \cup {"live"}
    <3>1. status[u] = "running" /\ proc[Home[u]] \in Ending \cup {"live"} /\ Home[u] \in Procs
      BY <2>2, HomesAssumption DEF FindInv, InsideAlive
    <3>2. Home[u] # p
      BY <1>3, <2>2, <3>1 DEF Reapable, Attached, Ending
    <3>3. QED
      BY <1>1, <1>5, <3>1, <3>2
  <2>3. QED
    BY <1>1, <1>5, <2>1, <2>2, StillThreads
<1>8. EndedHasRest'
  <2> SUFFICES ASSUME NEW q \in Procs, Calm(q), proc'[q] \in Ending \cup {"finished", "crashed"}, kernel[q] = 0
               PROVE  Rest(q)'
    BY <1>1, <1>6 DEF EndedHasRest
  <2>1. proc'[q] = proc[q]
    BY <1>5 DEF Ending
  <2>2. Rest(q)
    BY <2>1 DEF FindInv, EndedHasRest
  <2>3. QED
    BY <1>1, <1>6, <2>2 DEF Rest, Task
<1>9. TasksFit'
  BY <1>1, <1>6 DEF FindInv, TasksFit
<1>10. TasksReady'
  <2> SUFFICES ASSUME NEW q \in Procs, NEW u \in Whom, NEW i \in Slots, Task(i, q, u), i > slot, Calm(q)
               PROVE  Ready(q, u)' /\ (u = NoThread => LastOf(i, q))
    BY <1>1, <1>6 DEF TasksReady
  <2>1. Ready(q, u) /\ (u = NoThread => LastOf(i, q))
    BY DEF FindInv, TasksReady
  <2>2. q # p
    BY <1>3 DEF Reapable, LastOf
  <2>3. QED
    BY <1>1, <1>5, <2>1, <2>2 DEF Ready, Table
<1>11. NothingStays'
  BY <1>1, <1>5, <1>6 DEF FindInv, NothingStays, At
<1>12. CollectorFits'
  <2>1. \A q \in Procs : proc[q] # "detached"
    BY <1>1 DEF FindInv, CollectorFits, At
  <2>2. \A q \in Procs : proc'[q] = "detached" => s = "freeing" /\ q = p
    BY <1>5, <2>1
  <2>3. ~Reaping' /\ ~At(GC, "idle")' /\ ~At(GC, "next")'
    BY <1>5 DEF Reaping, At
  <2>4. QED
    BY <1>2, <1>3, <1>4, <1>5, <1>6, <2>2, <2>3 DEF CollectorFits, At
<1>13. QED
  BY <1>7, <1>8, <1>9, <1>10, <1>11, <1>12 DEF FindInv

LEMMA FreeFinds == ASSUME IInv, IInv', FindInv, Free PROVE FindInv'
<1>1. /\ kernel' = kernel /\ upset' = upset /\ tasks' = tasks /\ call' = call
      /\ slot' = slot /\ pc[GC] = "freeing" /\ proc \in [Procs -> Lives]
      /\ pc \in [Agents -> Places] /\ GC \in Agents /\ pc' = [pc EXCEPT ![GC] = "done"]
      /\ status \in [Threads -> Statuses]
  BY AgentsFinite DEF Free, collector, At, Goto, IInv, TypeOK
<1>2. PICK p \in Procs, x \in Whom : Doing(p, x)
  BY <1>1 DEF FindInv, CollectorFits, At
<1>3. Target(GC) = p /\ proc[p] = "detached" /\ (\A q, u : Doing(q, u) => q = p /\ u = x)
  BY <1>1, <1>2 DEF IInv, PlacesFit, At, Doing
<1>4. /\ proc' = [proc EXCEPT ![p] = "freed"]
      /\ status' = [t \in Threads |-> IF t \in Attached(p) THEN "deleted" ELSE status[t]]
  BY <1>3 DEF Free
<1>5. /\ OthersStay(GC) /\ pc'[GC] = "done"
      /\ \A q \in Procs : q # p => proc'[q] = proc[q]
      /\ proc'[p] = "freed"
      /\ \A u \in Threads : /\ Home[u] # p => status'[u] = status[u]
                            /\ status'[u] = status[u] \/ (status[u] # "none" /\ status'[u] = "deleted")
  BY <1>1, <1>4 DEF OthersStay, Attached
<1>6. /\ \A q : (Calm(q)' <=> Calm(q)) /\ (Started(q)' <=> Started(q)) 
      /\ \A q : q # p => Attached(q)' = Attached(q)
      /\ \A i, q, u : Task(i, q, u)' <=> Task(i, q, u)
      /\ \A i, q : LastOf(i, q)' <=> LastOf(i, q)
      /\ \A q, u : Doing(q, u)' <=> Doing(q, u)
      /\ Op(GC)' = Op(GC) /\ Target(GC)' = Target(GC)
  BY <1>1, <1>5 DEF Calm, Started, Attached, Task, LastOf, Doing, Op, Target
<1>7. KernelCountExact' /\ InsideAlive' /\ ExitedEnded' /\ ExecsApart'
  <2>1. \A u \in Threads : pc'[u] = pc[u] /\ call'[u] = call[u]
    BY <1>5, AgentsFinite DEF OthersStay
  <2>2. ASSUME NEW u \in Threads, Calm(Home[u]), pc[u] \in Inside
        PROVE  status'[u] = "running" /\ proc'[Home[u]] \in Ending \cup {"live"}
    <3>1. status[u] = "running" /\ proc[Home[u]] \in Ending \cup {"live"} /\ Home[u] \in Procs
      BY <2>2, HomesAssumption DEF FindInv, InsideAlive
    <3>2. Home[u] # p
      BY <1>3, <3>1 DEF Ending
    <3>3. QED
      BY <1>5, <3>1, <3>2
  <2>3. \A u \in Threads : /\ status[u] \in {"finished", "deleted"} => status'[u] \in {"finished", "deleted"}
                           /\ status'[u] = "none" <=> status[u] = "none"
    BY <1>5
  <2>4. \A q \in Procs : proc'[q] = "unborn" => proc[q] = "unborn"
    BY <1>5
  <2>5. QED
    BY <1>1, <2>1, <2>2, <2>3, <2>4, StillThreads
<1>8. EndedHasRest'
  <2> SUFFICES ASSUME NEW q \in Procs, Calm(q), proc'[q] \in Ending \cup {"finished", "crashed"}, kernel[q] = 0
               PROVE  Rest(q)'
    BY <1>1, <1>6 DEF EndedHasRest
  <2>1. proc'[q] = proc[q] /\ q # p
    BY <1>5 DEF Ending
  <2>2. Rest(q)
    BY <2>1 DEF FindInv, EndedHasRest
  <2>3. QED
    BY <1>1, <1>6, <2>1, <2>2 DEF Rest, Task
<1>9. TasksFit'
  <2> SUFFICES ASSUME NEW q \in Procs, NEW u \in Whom, NEW i \in Slots, Task(i, q, u)
               PROVE  /\ \A j \in Slots : Task(j, q, u) => i = j
                      /\ Started(q)
                      /\ u \in Threads => Home[u] = q /\ (Calm(q) => status'[u] \in {"finished", "deleted"})
    BY <1>6 DEF TasksFit
  <2>1. /\ \A j \in Slots : Task(j, q, u) => i = j
        /\ Started(q)
        /\ u \in Threads => Home[u] = q /\ (Calm(q) => status[u] \in {"finished", "deleted"})
    BY DEF FindInv, TasksFit
  <2>2. QED
    BY <1>5, <2>1
<1>10. TasksReady'
  <2> SUFFICES ASSUME NEW q \in Procs, NEW u \in Whom, NEW i \in Slots, Task(i, q, u), i > slot, Calm(q)
               PROVE  Ready(q, u)' /\ (u = NoThread => LastOf(i, q))
    BY <1>1, <1>6 DEF TasksReady
  <2>1. Ready(q, u) /\ (u = NoThread => LastOf(i, q)) /\ (u \in Threads => Home[u] = q)
    BY DEF FindInv, TasksReady, TasksFit
  <2>2. q # p
    BY <1>3, <2>1 DEF Ready, Table, Ending
  <2>3. QED
    BY <1>5, <2>1, <2>2 DEF Ready, Table, Whom
<1>11. NothingStays'
  BY <1>1, <1>5, <1>6 DEF FindInv, NothingStays, At
<1>12. CollectorFits'
  <2>1. \A q \in Procs : proc[q] = "detached" => q = p
    BY <1>3 DEF FindInv, CollectorFits
  <2>2. \A q \in Procs : proc'[q] # "detached"
    BY <1>5, <2>1
  <2>3. ~Reaping' /\ ~At(GC, "idle")' /\ ~At(GC, "next")'
    BY <1>5 DEF Reaping, At
  <2>4. Op(GC) \in {"collect", "reap", "lost"} /\ (Calm(p) => Op(GC) # "lost")
    BY <1>1, <1>3 DEF FindInv, CollectorFits, At
  <2>5. QED
    BY <1>2, <1>3, <1>5, <1>6, <2>2, <2>3, <2>4 DEF CollectorFits, At
<1>13. QED
  BY <1>7, <1>8, <1>9, <1>10, <1>11, <1>12 DEF FindInv
-----------------------------------------------------------------------------
LEMMA InitFinds == Init => FindInv
<1> SUFFICES ASSUME Init PROVE FindInv
  OBVIOUS
<1>1. /\ \A a \in Agents : pc[a] = IF a = GC THEN "idle" ELSE "user"
      /\ call = [a \in Agents |-> NoCall] /\ slot = 0 /\ upset = {}
      /\ \A i \in Slots : tasks[i] = NoTask
      /\ \A p \in Procs : kernel[p] = 0 /\ proc[p] \in {"live", "unborn"}
      /\ \A p \in Procs : proc[p] = "unborn" <=> p \notin Booted
      /\ \A t \in Threads : status[t] # "none" => Home[t] \in Booted
      /\ GC \in Agents /\ GC \notin Threads /\ Threads \subseteq Agents
  BY AgentsFinite DEF Init
<1>2. /\ pc[GC] = "idle" /\ Op(GC) = "none" /\ \A t \in Threads : pc[t] = "user" /\ Op(t) = "none"
  BY <1>1 DEF Op, NoCall
<1>3. \A p \in Procs : Counted(p) = {}
  BY <1>2 DEF Counted, Inside
<1>4. KernelCountExact
  BY <1>1, <1>3, FS_EmptySet DEF KernelCountExact, Counted
<1>5. InsideAlive /\ ExitedEnded /\ EndedHasRest
  BY <1>1, <1>2 DEF InsideAlive, ExitedEnded, EndedHasRest, Inside, Ending
<1>6. ExecsApart
  BY <1>1, <1>2 DEF ExecsApart, Execs, Started
<1>7. \A i, p, u : ~Task(i, p, u)
  <2>1. \A p, u : <<p, u>> # NoTask
    BY DEF NoTask
  <2>2. QED
    BY <1>1, <2>1 DEF Task
<1>8. TasksFit /\ TasksReady /\ NothingStays
  BY <1>7 DEF TasksFit, TasksReady, NothingStays
<1>9. CollectorFits
  <2>1. slot \notin Slots
    BY <1>1 DEF Slots
  <2>2. QED
    BY <1>1, <1>2, <2>1 DEF CollectorFits, Doing, Reaping, At
<1>10. QED
  BY <1>4, <1>5, <1>6, <1>8, <1>9 DEF FindInv

LEMMA NextFinds == Inductive /\ Inductive' /\ FindInv /\ [Next]_vars => FindInv'
<1> SUFFICES ASSUME IInv, IInv', FindInv, [Next]_vars PROVE FindInv'
  BY DEF Inductive
<1>1. CASE UNCHANGED vars
  <2>1. /\ list' = list /\ plock' = plock /\ pc' = pc /\ call' = call /\ proc' = proc
        /\ kernel' = kernel /\ status' = status /\ tasks' = tasks /\ slot' = slot /\ upset' = upset
    BY <1>1 DEF vars, locks, life, collector
  <2>2. KernelCountExact' /\ InsideAlive' /\ ExitedEnded' /\ EndedHasRest'
    BY <2>1 DEF FindInv, KernelCountExact, InsideAlive, ExitedEnded, EndedHasRest, Rest, Task, Attached, Calm
  <2>3. ExecsApart' /\ TasksFit' /\ TasksReady' /\ NothingStays'
    BY <2>1 DEF FindInv, ExecsApart, TasksFit, TasksReady, NothingStays, Started, Execs, Op, Target,
        Task, Ready, LastOf, Calm, Table, At
  <2>4. CollectorFits'
    BY <2>1 DEF FindInv, CollectorFits, Doing, Reaping, Reapable, Op, Target, Ready, LastOf, Task, Calm, Table,
        Started, Attached, At
  <2>5. QED
    BY <2>2, <2>3, <2>4 DEF FindInv
<1>2. CASE Collector
  BY <1>2, BeginFinds, TakeFinds, EndFinds, CollectFinds, DetachFinds, FreeFinds, DoneFinds DEF Collector
<1>3. ASSUME NEW a \in Agents, Checkout(a) PROVE FindInv'
  BY <1>3, CollectorChecksOut, CheckoutsFind DEF Agents
<1>4. ASSUME NEW t \in Threads,
             Trap(t) \/ Crash(t) \/ Enter(t) \/ Leave(t) \/ Resume(t) \/ Return(t) \/ Wake(t) \/ Turn(t)
      PROVE  FindInv'
  BY <1>4, TrapFinds, CrashFinds, EnterFinds, LeaveFinds, BackFinds, WakeFinds, TurnFinds
<1>5. ASSUME NEW t \in Threads, Change(t) PROVE FindInv'
  BY <1>5, PartingsFind, ChangesFind DEF Change
<1>6. ASSUME NEW t \in Threads, Exec(t) PROVE FindInv'
  BY <1>6, InsertFinds, CheckoutParentsFind, CommitParentFinds DEF Exec
<1>7. QED
  BY <1>1, <1>2, <1>3, <1>4, <1>5, <1>6 DEF Next

(* As long as no peer upsets one of its threads: kernel_threads is the      *)
(* number of a process's threads in the kernel; a thread in the kernel      *)
(* finds its own process in the table, also as an exec's parent; and the    *)
(* collector finds each process and thread it was sent for, so that none of *)
(* its tasks fails and stays.                                               *)
THEOREM LookupsSucceed == Spec => []LookupsFind
<1>1. Inductive /\ FindInv => LookupsFind
  <2> SUFFICES ASSUME Inductive, FindInv PROVE LookupsFind
    OBVIOUS
  <2>1. \A t \in Threads : pc[t] \in Inside /\ Calm(Home[t]) => Home[t] \in Table
    BY HomesAssumption DEF FindInv, InsideAlive, Table
  <2>2. Target(GC) \in Procs
    BY AgentsFinite DEF Inductive, IInv, TypeOK, Target
  <2>3. Calm(Target(GC)) => pc[GC] \notin {"failed", "missing"} /\ Op(GC) # "lost"
    BY <2>2 DEF FindInv, CollectorFits
  <2>4. QED
    BY <2>1, <2>3 DEF FindInv, LookupsFind
<1>2. QED
  BY <1>1, InitFinds, NextFinds, Invariance, PTL DEF Spec
=============================================================================
