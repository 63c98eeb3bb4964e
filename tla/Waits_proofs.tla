---------------------------- MODULE Waits_proofs ----------------------------
(***************************************************************************)
(* What the waits of waits.c keep for every set of processes and threads:  *)
(* links are freed once, answers are true, and the collector deletes no    *)
(* thread in the kernel. The proofs follow a link from its waiter to the   *)
(* list of its target, to the collector's walk and back to its waiter.     *)
(***************************************************************************)
EXTENDS Waits, SequenceTheorems, FiniteSetTheorems, TLAPS

(* Sequences, as they are used here. *)
LEMMA PushedInFront ==
    ASSUME NEW S, NEW e \in S, NEW s \in Seq(S)
    PROVE  /\ <<e>> \o s \in Seq(S)
           /\ Len(<<e>> \o s) = Len(s) + 1
           /\ \A i \in 1..(Len(s) + 1) : (<<e>> \o s)[i] = IF i = 1 THEN e ELSE s[i - 1]
<1>1. <<e>> \in Seq(S) /\ Len(<<e>>) = 1 /\ <<e>>[1] = e
  OBVIOUS
<1>2. QED
  BY <1>1, ConcatProperties

LEMMA HeadIsFirst ==
    ASSUME NEW S, NEW s \in Seq(S), s # << >>
    PROVE  /\ Len(s) \in Nat \ {0} /\ 1 \in DOMAIN s /\ Head(s) = s[1] /\ Head(s) \in S
           /\ Tail(s) \in Seq(S) /\ Len(Tail(s)) = Len(s) - 1
           /\ \A i \in 1..Len(Tail(s)) : Tail(s)[i] = s[i + 1] /\ i + 1 \in DOMAIN s
<1>1. Len(s) \in Nat \ {0}
  BY EmptySeq
<1>2. Head(s) = s[1] /\ DOMAIN s = 1..Len(s)
  BY LenProperties
<1>3. QED
  BY <1>1, <1>2, HeadTailProperties
-----------------------------------------------------------------------------
(* A thread that begins to wait has a wait left to begin, and who waits has *)
(* a target.                                                                *)
CallsBounded ==
    \A t \in Threads : /\ pc[t] = "calling" => serial[t] < MaxWaits
                       /\ pc[t] # "user" => target[t] \in Targets

(* The collector is at a link. *)
HeadThere == gc.phase \in {"rouse", "advance"} => walk # << >>

Typed == TypeOK /\ CallsBounded /\ HeadThere

LEMMA WaitBounded ==
    ASSUME TypeOK, NEW t \in Threads,
           Cardinality({l \in Links : l[2] <= serial[l[1]]}) < MaxWaits
    PROVE  serial[t] < MaxWaits
<1> DEFINE Begun == {l \in Links : l[2] <= serial[l[1]]}
<1> SUFFICES ASSUME serial[t] = MaxWaits PROVE FALSE
  BY BoundsAssumption DEF TypeOK
<1>1. IsFiniteSet(Links)
  <2>1. IsFiniteSet(1..MaxWaits)
    BY FS_Interval, BoundsAssumption
  <2>2. QED
    BY <2>1, FS_Product, NamesAssumption DEF Links
<1>2. {t} \X (1..MaxWaits) \subseteq Begun
  BY BoundsAssumption DEF Links
<1>3. Cardinality({t} \X (1..MaxWaits)) = MaxWaits
  <2>1. IsFiniteSet({t}) /\ Cardinality({t}) = 1
    BY FS_Singleton
  <2>2. IsFiniteSet(1..MaxWaits) /\ Cardinality(1..MaxWaits) = MaxWaits
    BY FS_Interval, BoundsAssumption
  <2>3. Cardinality({t} \X (1..MaxWaits)) = Cardinality({t}) * Cardinality(1..MaxWaits)
    BY <2>1, <2>2, FS_Product
  <2>4. QED
    BY <2>1, <2>2, <2>3, BoundsAssumption
<1>4. IsFiniteSet(Begun)
  BY <1>1, FS_Subset
<1>5. Cardinality({t} \X (1..MaxWaits)) <= Cardinality(Begun)
  BY <1>2, <1>4, FS_Subset
<1>6. Cardinality(Begun) \in Nat
  BY <1>4, FS_CardinalityType
<1>7. QED
  BY <1>3, <1>5, <1>6, BoundsAssumption
-----------------------------------------------------------------------------
(* The next link of a thread that is about to enlist is a link. *)
LEMMA NextLink ==
    ASSUME Typed, NEW t \in Threads, pc[t] = "calling"
    PROVE  serial[t] + 1 \in 1..MaxWaits /\ <<t, serial[t] + 1>> \in Links
BY BoundsAssumption DEF Typed, TypeOK, CallsBounded, Links

(* A waiter has a link. *)
LEMMA HeadTyped ==
    ASSUME TypeOK, walk # << >>
    PROVE  Head(walk) \in Links /\ Waiter(Head(walk)) \in Threads /\ Tail(walk) \in Seq(Links)
<1>1. Head(walk) \in Links /\ Tail(walk) \in Seq(Links)
  BY HeadIsFirst DEF TypeOK
<1>2. QED
  BY <1>1 DEF Links, Waiter

LEMMA FreedTyped ==
    ASSUME TypeOK, NEW l
    PROVE  [frees EXCEPT ![l] = @ + 1] \in [Links -> Nat]
<1>1. CASE l \in Links
  BY <1>1 DEF TypeOK
<1>2. CASE l \notin Links
  <2>1. [frees EXCEPT ![l] = @ + 1] = frees
    BY <1>2 DEF TypeOK
  <2>2. QED
    BY <2>1 DEF TypeOK
<1>3. QED
  BY <1>1, <1>2

LEMMA MovedTyped ==
    ASSUME TypeOK, NEW s \in Phases, NEW whole \in BOOLEAN, NEW found \in BOOLEAN
    PROVE  Moved(s, whole, found) \in [phase : Phases, owner : Procs, whole : BOOLEAN, found : BOOLEAN]
BY DEF TypeOK, Moved

LEMMA IdleTyped == IdleGC \in [phase : Phases, owner : Procs, whole : BOOLEAN, found : BOOLEAN]
<1>1. (CHOOSE p \in Procs : TRUE) \in Procs
  BY NamesAssumption
<1>2. QED
  BY <1>1 DEF IdleGC, Phases

(* The steps of a thread on its way to wait and back, but for Enlist. *)
Moves(t) == Wait(t) \/ Refuse(t) \/ Park(t) \/ Resume(t) \/ Return(t)

(* What threads do that do not wait. *)
Others(t) == ExitProcess(t) \/ End(t) \/ ResumePeer(t) \/ Turn(t)

LEMMA MovesTyped ==
    ASSUME Typed, NEW t \in Threads, Moves(t)
    PROVE  Typed'
<1> USE DEF Typed, TypeOK, CallsBounded, HeadThere, Places, calls, links, history, Goto
<1>1. CASE Wait(t)
  <2>1. serial[t] < MaxWaits
    BY <1>1, WaitBounded DEF Wait
  <2>2. QED
    BY <1>1, <2>1 DEF Wait
<1>2. CASE Refuse(t)
  BY <1>2 DEF Refuse
<1>3. CASE Park(t)
  BY <1>3 DEF Park
<1>4. CASE Resume(t)
  BY <1>4 DEF Resume
<1>5. CASE Return(t)
  <2>1. frees' \in [Links -> Nat]
    BY <1>5, FreedTyped DEF Return
  <2>2. result' \in [Threads -> {"none", "refused", "failed", "died"}]
    BY <1>5 DEF Return
  <2>3. QED
    BY <1>5, <2>1, <2>2 DEF Return
<1>6. QED
  BY <1>1, <1>2, <1>3, <1>4, <1>5 DEF Moves

LEMMA OthersTyped ==
    ASSUME Typed, NEW t \in Threads, Others(t)
    PROVE  Typed'
<1> USE DEF Typed, TypeOK, CallsBounded, HeadThere, Places, calls, links, history
<1>1. CASE ExitProcess(t)
  BY <1>1, NamesAssumption DEF ExitProcess
<1>2. CASE End(t)
  BY <1>2 DEF End, Attached
<1>3. CASE ResumePeer(t)
  BY <1>3 DEF ResumePeer, Attached
<1>4. CASE Turn(t)
  BY <1>4 DEF Turn
<1>5. QED
  BY <1>1, <1>2, <1>3, <1>4 DEF Others

LEMMA EnlistTyped ==
    ASSUME Typed, NEW t \in Threads, Enlist(t)
    PROVE  Typed'
<1>1. target[t] \in Targets
  BY DEF Enlist, Typed, CallsBounded
<1>2. <<(<<t, serial[t] + 1>>)>> \o waits[target[t]] \in Seq(Links)
  BY <1>1, NextLink, PushedInFront DEF Enlist, Typed, TypeOK
<1>3. serial[t] + 1 \in 0..MaxWaits
  BY NextLink DEF Enlist
<1>4. waits' \in [Targets -> Seq(Links)] /\ serial' \in [Threads -> 0..MaxWaits]
  BY <1>2, <1>3 DEF Enlist, Typed, TypeOK
<1>5. pc' \in [Threads -> Places] /\ CallsBounded'
  BY <1>1 DEF Enlist, Goto, Typed, TypeOK, CallsBounded, Places
<1>6. QED
  BY <1>4, <1>5 DEF Enlist, Typed, TypeOK, HeadThere, history

LEMMA CollectorTyped ==
    ASSUME Typed, Collector
    PROVE  Typed'
<1> DEFINE GCs == [phase : Phases, owner : Procs, whole : BOOLEAN, found : BOOLEAN]
<1> USE DEF CallsBounded, calls, links, history
<1>1. ASSUME NEW u \in Threads, CollectThread(u) PROVE Typed'
  <2>1. gc' \in GCs
    BY <1>1, NamesAssumption DEF CollectThread, Phases
  <2>2. waits' \in [Targets -> Seq(Links)] /\ walk' \in Seq(Links)
    BY <1>1 DEF CollectThread, Typed, TypeOK, TakeWaits, Targets
  <2>3. QED
    BY <1>1, <2>1, <2>2 DEF CollectThread, Typed, TypeOK, HeadThere
<1>2. ASSUME NEW p \in Procs, CollectProcess(p) PROVE Typed'
  <2>1. gc' \in GCs
    BY <1>2 DEF CollectProcess, Phases
  <2>2. QED
    BY <1>2, <2>1 DEF CollectProcess, Typed, TypeOK, HeadThere
<1>3. CASE Mark
  <2>1. gc' \in GCs
    BY <1>3, MovedTyped DEF Mark, Typed, TypeOK, Phases
  <2>2. QED
    BY <1>3, <2>1, HeadTyped DEF Mark, Typed, TypeOK, HeadThere
<1>4. CASE Rouse
  <2>1. walk # << >> /\ Waiter(Head(walk)) \in Threads /\ Head(walk) \in Links
    BY <1>4, HeadTyped DEF Rouse, Typed, HeadThere
  <2>2. PICK found \in BOOLEAN : gc' = Moved("advance", gc.whole, found)
    BY <1>4 DEF Rouse
  <2>3. gc' \in GCs
    BY <2>2, MovedTyped DEF Typed, TypeOK, Phases
  <2>4. QED
    BY <1>4, <2>1, <2>3 DEF Rouse, Typed, TypeOK, HeadThere
<1>5. CASE Advance
  <2>1. Head(walk) \in Links /\ Tail(walk) \in Seq(Links)
    BY <1>5, HeadTyped DEF Advance, Typed, HeadThere
  <2>2. gc' \in GCs /\ gc'.phase = "mark"
    BY <1>5, MovedTyped DEF Advance, Typed, TypeOK, Phases, Moved
  <2>3. walk' \in Seq(Links)
    <3>1. walk' = Tail(walk) \/ walk' = << >>
      BY <1>5 DEF Advance
    <3>2. QED
      BY <2>1, <3>1, EmptySeq
  <2>4. torn' \subseteq Links
    BY <1>5 DEF Advance, Typed, TypeOK
  <2>5. frees' \in [Links -> Nat]
    BY <1>5, <2>1 DEF Advance, Typed, TypeOK
  <2>6. QED
    BY <1>5, <2>2, <2>3, <2>4, <2>5 DEF Advance, Typed, TypeOK, HeadThere
<1>6. CASE Done
  <2>1. gc' \in GCs /\ gc'.phase \in {"idle", "next"}
    <3>1. \/ gc' = IdleGC
          \/ gc' = Moved("next", gc.whole, gc.found)
          \/ gc' = Moved("next", TRUE, gc.found)
      BY <1>6 DEF Done
    <3>2. gc.whole \in BOOLEAN /\ gc.found \in BOOLEAN
      BY DEF Typed, TypeOK
    <3>3. TypeOK /\ "next" \in Phases /\ TRUE \in BOOLEAN
      BY DEF Typed, Phases
    <3>4. Moved("next", gc.whole, gc.found) \in GCs /\ Moved("next", TRUE, gc.found) \in GCs
      BY <3>2, <3>3, MovedTyped, Zenon
    <3>5. gc' \in GCs
      BY <3>1, <3>4, IdleTyped
    <3>6. QED
      BY <3>1, <3>5 DEF Moved, IdleGC
  <2>2. life' \in [Procs -> {"live", "finishing", "detached", "reaped", "freed"}]
    <3>1. \/ life' = life
          \/ life' = [life EXCEPT ![gc.owner] = "freed"]
          \/ life' = [life EXCEPT ![gc.owner] = "detached"]
      BY <1>6 DEF Done
    <3>2. QED
      BY <3>1 DEF Typed, TypeOK
  <2>3. QED
    BY <1>6, <2>1, <2>2 DEF Done, Typed, TypeOK, HeadThere
<1>7. CASE Proceed
  <2>1. gc' \in GCs /\ gc'.phase = "mark"
    BY <1>7, MovedTyped DEF Proceed, Typed, TypeOK, Phases, Moved
  <2>2. waits' \in [Targets -> Seq(Links)] /\ walk' \in Seq(Links)
    <3>1. PICK x \in Targets : TakeWaits(x)
      BY <1>7 DEF Proceed, Attached, Targets, Typed, TypeOK
    <3>2. QED
      BY <3>1 DEF Typed, TypeOK, TakeWaits
  <2>3. life' \in [Procs -> {"live", "finishing", "detached", "reaped", "freed"}]
        /\ status' \in [Threads -> {"running", "asleep", "finished", "deleted"}]
    BY <1>7 DEF Proceed, Typed, TypeOK, Attached
  <2>4. QED
    BY <1>7, <2>1, <2>2, <2>3 DEF Proceed, Typed, TypeOK, HeadThere
<1>8. QED
  BY <1>1, <1>2, <1>3, <1>4, <1>5, <1>6, <1>7 DEF Collector
-----------------------------------------------------------------------------
(* Links on lists.                                                          *)
In(l, s) == \E i \in DOMAIN s : s[i] = l
NoRepeats(s) == \A i, j \in DOMAIN s : s[i] = s[j] => i = j
OnList(l) == \E x \in Targets : In(l, waits[x])

(* The link is on the collector's walk and the collector has not been there. *)
ToCome(l) == In(l, IF gc.phase = "advance" THEN Tail(walk) ELSE walk)

LEMMA InNone == \A l : ~In(l, << >>) /\ NoRepeats(<< >>)
BY DEF In, NoRepeats

LEMMA InPushed ==
    ASSUME NEW S, NEW e \in S, NEW s \in Seq(S)
    PROVE  /\ \A l : In(l, <<e>> \o s) <=> l = e \/ In(l, s)
           /\ NoRepeats(s) /\ ~In(e, s) => NoRepeats(<<e>> \o s)
<1> DEFINE r == <<e>> \o s
<1>1. /\ Len(s) \in Nat /\ DOMAIN s = 1..Len(s) /\ DOMAIN r = 1..(Len(s) + 1)
      /\ r[1] = e /\ \A i \in 1..Len(s) : r[i + 1] = s[i]
      /\ \A i \in 1..(Len(s) + 1) : i # 1 => r[i] = s[i - 1]
  BY PushedInFront, LenProperties
<1> HIDE DEF r
<1>2. ASSUME NEW l PROVE In(l, r) <=> l = e \/ In(l, s)
  <2>1. ASSUME In(l, r) PROVE l = e \/ In(l, s)
    <3>1. PICK i \in 1..(Len(s) + 1) : r[i] = l
      BY <1>1, <2>1 DEF In
    <3>2. CASE i = 1
      BY <1>1, <3>1, <3>2
    <3>3. CASE i # 1
      <4>1. i - 1 \in DOMAIN s /\ s[i - 1] = l
        BY <1>1, <3>1, <3>3
      <4>2. QED
        BY <4>1 DEF In
    <3>4. QED
      BY <3>2, <3>3
  <2>2. ASSUME l = e PROVE In(l, r)
    BY <1>1, <2>2 DEF In
  <2>3. ASSUME In(l, s) PROVE In(l, r)
    <3>1. PICK i \in 1..Len(s) : s[i] = l
      BY <1>1, <2>3 DEF In
    <3>2. i + 1 \in DOMAIN r /\ r[i + 1] = l
      BY <1>1, <3>1
    <3>3. QED
      BY <3>2 DEF In
  <2>4. QED
    BY <2>1, <2>2, <2>3
<1>3. ASSUME NoRepeats(s), ~In(e, s) PROVE NoRepeats(r)
  <2>1. SUFFICES ASSUME NEW i \in 1..(Len(s) + 1), NEW j \in 1..(Len(s) + 1), r[i] = r[j]
                 PROVE  i = j
    BY <1>1 DEF NoRepeats
  <2>2. CASE i = 1 /\ j # 1
    <3>1. j - 1 \in DOMAIN s /\ s[j - 1] = e
      BY <1>1, <2>1, <2>2
    <3>2. QED
      BY <1>3, <3>1 DEF In
  <2>3. CASE i # 1 /\ j = 1
    <3>1. i - 1 \in DOMAIN s /\ s[i - 1] = e
      BY <1>1, <2>1, <2>3
    <3>2. QED
      BY <1>3, <3>1 DEF In
  <2>4. CASE i # 1 /\ j # 1
    <3>1. i - 1 \in DOMAIN s /\ j - 1 \in DOMAIN s /\ s[i - 1] = s[j - 1]
      BY <1>1, <2>1, <2>4
    <3>2. i - 1 = j - 1
      BY <1>3, <3>1 DEF NoRepeats
    <3>3. QED
      BY <3>2
  <2>5. QED
    BY <2>2, <2>3, <2>4
<1>4. QED
  BY <1>2, <1>3 DEF r

LEMMA InPopped ==
    ASSUME NEW S, NEW s \in Seq(S), s # << >>
    PROVE  /\ In(Head(s), s)
           /\ \A l : In(l, s) <=> l = Head(s) \/ In(l, Tail(s))
           /\ NoRepeats(s) => NoRepeats(Tail(s)) /\ ~In(Head(s), Tail(s))
<1> DEFINE r == Tail(s)
<1>1. /\ Len(s) \in Nat \ {0} /\ DOMAIN s = 1..Len(s) /\ DOMAIN r = 1..(Len(s) - 1)
      /\ Head(s) = s[1] /\ \A i \in 1..(Len(s) - 1) : r[i] = s[i + 1]
  BY HeadIsFirst, LenProperties
<1> HIDE DEF r
<1>2. In(Head(s), s)
  BY <1>1 DEF In
<1>3. ASSUME NEW l, In(l, s), l # Head(s) PROVE In(l, r)
  <2>1. PICK i \in 1..Len(s) : s[i] = l
    BY <1>1, <1>3 DEF In
  <2>2. i - 1 \in DOMAIN r /\ r[i - 1] = l
    BY <1>1, <1>3, <2>1
  <2>3. QED
    BY <2>2 DEF In
<1>4. ASSUME NEW l, In(l, r) PROVE In(l, s)
  <2>1. PICK i \in 1..(Len(s) - 1) : r[i] = l
    BY <1>1, <1>4 DEF In
  <2>2. i + 1 \in DOMAIN s /\ s[i + 1] = l
    BY <1>1, <2>1
  <2>3. QED
    BY <2>2 DEF In
<1>5. ASSUME NoRepeats(s) PROVE NoRepeats(r) /\ ~In(Head(s), r)
  <2>1. ASSUME NEW i \in DOMAIN r, NEW j \in DOMAIN r, r[i] = r[j] PROVE i = j
    <3>1. i + 1 \in DOMAIN s /\ j + 1 \in DOMAIN s /\ s[i + 1] = s[j + 1]
      BY <1>1, <2>1
    <3>2. i + 1 = j + 1
      BY <1>5, <3>1 DEF NoRepeats
    <3>3. QED
      BY <1>1, <3>2
  <2>2. ASSUME In(Head(s), r) PROVE FALSE
    <3>1. PICK i \in 1..(Len(s) - 1) : r[i] = Head(s)
      BY <1>1, <2>2 DEF In
    <3>2. i + 1 \in DOMAIN s /\ 1 \in DOMAIN s /\ s[i + 1] = s[1]
      BY <1>1, <3>1
    <3>3. i + 1 = 1
      BY <1>5, <3>2 DEF NoRepeats
    <3>4. QED
      BY <3>3
  <2>3. QED
    BY <2>1, <2>2 DEF NoRepeats
<1>6. QED
  BY <1>2, <1>3, <1>4, <1>5 DEF r
-----------------------------------------------------------------------------
(* The invariant.                                                           *)
Underway == {"gap", "parked", "back"}
Pending(l) == OnList(l) \/ ToCome(l)
Dead(t) == status[t] = "deleted" \/ Home[t] \notin Table

(* A link that does not exist yet is nowhere. *)
Fresh ==
    \A l \in Links : l[2] > serial[Waiter(l)] =>
        frees[l] = 0 /\ l \notin answered /\ ~OnList(l) /\ ~In(l, walk)

(* A link is in one place. *)
Unique ==
    /\ \A x \in Targets : NoRepeats(waits[x])
    /\ \A l \in Links, x, y \in Targets : In(l, waits[x]) /\ In(l, waits[y]) => x = y
    /\ NoRepeats(walk)
    /\ \A l \in Links : In(l, walk) => ~OnList(l)

(* While the collector has still to come to a link, its waiter waits by it, *)
(* unless a peer set it running.                                            *)
PendingCurrent ==
    \A l \in Links : Waiter(l) \notin resumed /\ Pending(l) =>
        /\ l = Link(Waiter(l)) /\ frees[l] = 0
        /\ \/ pc[Waiter(l)] = "gap"
           \/ pc[Waiter(l)] = "parked" /\ status[Waiter(l)] # "running"

(* The link of a wait is there for its waiter, until that can never return. *)
NotYetFreed ==
    \A t \in Threads :
        t \notin resumed /\ pc[t] \in Underway /\ ~Dead(t) => frees[Link(t)] = 0

FreedAtMostOnce ==
    \A l \in Links : Waiter(l) \notin resumed => frees[l] <= 1 /\ l \notin stray

(* The collector frees the links of waiters that can never return. *)
HeadKnown ==
    /\ gc.phase \in {"rouse", "advance"} => Head(walk) \in answered
    /\ gc.phase = "advance" /\ ~gc.found =>
        /\ Dead(Waiter(Head(walk)))
        /\ Waiter(Head(walk)) \notin resumed => frees[Head(walk)] = 0

(* The link of a wait is on the list of its target, then on the walk over   *)
(* it, then answered.                                                       *)
OwnTarget ==
    \A t \in Threads : pc[t] \in Underway =>
        /\ \A x \in Targets : In(Link(t), waits[x]) => x = target[t]
        /\ In(Link(t), walk) \/ Link(t) \in answered => Gone(target[t])

WokenAnswered ==
    \A t \in Threads :
        t \notin resumed /\ (pc[t] = "back" \/ (pc[t] = "parked" /\ status[t] = "running"))
            => Link(t) \in answered

(* Threads that have ended or whose process is detached are not in the      *)
(* kernel, unless they were ended there or the collector set them running   *)
(* after their end.                                                         *)
EndedOutside ==
    /\ \A t \in Threads : status[t] = "finished" /\ pc[t] \in Inside => t \in revived \cup cut
    /\ \A t \in due : status[t] \in {"finished", "deleted"} \/ t \in revived
    /\ \A t \in Threads :
        Home[t] \notin Table /\ status[t] # "deleted" => pc[t] \notin Inside

Freeing == PendingCurrent /\ NotYetFreed /\ FreedAtMostOnce /\ HeadKnown
Answering == OwnTarget /\ WokenAnswered /\ AnswersTrue
(* A process of which everything is collected is detached. *)
WholeDetached ==
    /\ gc.phase = "next" => gc.whole
    /\ gc.phase # "idle" /\ gc.whole => gc.owner \notin Table

Ending == EndedOutside /\ DeletedOutside /\ WholeDetached
IInv == Typed /\ Fresh /\ Unique /\ Freeing /\ Answering /\ Ending

(* A link has a waiter, and it is the waiter's own or an earlier or later.  *)
LEMMA LinkParts ==
    ASSUME TypeOK, NEW l \in Links
    PROVE  /\ Waiter(l) \in Threads /\ l[2] \in 1..MaxWaits /\ l = <<Waiter(l), l[2]>>
           /\ l = Link(Waiter(l)) <=> l[2] = serial[Waiter(l)]
<1>1. Waiter(l) \in Threads /\ l[2] \in 1..MaxWaits /\ l = <<Waiter(l), l[2]>>
  BY DEF Links, Waiter
<1>2. QED
  BY <1>1 DEF Link

(* What has gone does not come back. *)
LEMMA GoneStays ==
    ASSUME Typed, Next
    PROVE  /\ \A p \in Procs : p \in Table' => p \in Table
           /\ \A t \in Threads : status[t] = "deleted" => status'[t] = "deleted"
<1> USE DEF Table, Attached
<1>1. ASSUME NEW t \in Threads, Moves(t) \/ Enlist(t) \/ Others(t)
      PROVE  /\ \A p \in Procs : p \in Table' => p \in Table
             /\ \A u \in Threads : status[u] = "deleted" => status'[u] = "deleted"
  <2>1. CASE Moves(t)
    BY <2>1 DEF Typed, TypeOK, Moves, Wait, Refuse, Park, Resume, Return, Runs
  <2>2. CASE Enlist(t)
    BY <2>2 DEF Enlist
  <2>3. CASE ExitProcess(t)
    BY <2>3, NamesAssumption DEF Typed, TypeOK, ExitProcess, Calls, Runs
  <2>4. CASE End(t) \/ ResumePeer(t) \/ Turn(t)
    BY <2>4 DEF Typed, TypeOK, End, ResumePeer, Turn
  <2>5. QED
    BY <1>1, <2>1, <2>2, <2>3, <2>4 DEF Others
<1>2. ASSUME Collector
      PROVE  /\ \A p \in Procs : p \in Table' => p \in Table
             /\ \A u \in Threads : status[u] = "deleted" => status'[u] = "deleted"
  <2>1. CASE \E u \in Threads : CollectThread(u)
    BY <2>1 DEF Typed, TypeOK, CollectThread
  <2>2. CASE \E p \in Procs : CollectProcess(p)
    BY <2>2 DEF Typed, TypeOK, CollectProcess
  <2>3. CASE Mark \/ Advance
    BY <2>3 DEF Mark, Advance
  <2>4. CASE Rouse
    BY <2>4 DEF Typed, TypeOK, Rouse
  <2>5. CASE Done
    BY <2>5 DEF Typed, TypeOK, Done
  <2>6. CASE Proceed
    BY <2>6 DEF Typed, TypeOK, Proceed
  <2>7. QED
    BY <1>2, <2>1, <2>2, <2>3, <2>4, <2>5, <2>6 DEF Collector
<1>3. QED
  BY <1>1, <1>2 DEF Next, Waiting, Moves, Others
LEMMA GoneKept ==
    ASSUME Typed, Next
    PROVE  /\ \A x : Gone(x) => Gone(x)'
           /\ \A t \in Threads : Dead(t) => Dead(t)'
<1>1. \A x : x \in Table' => x \in Procs
  BY DEF Table
<1>2. QED
  BY <1>1, GoneStays, NamesAssumption DEF Gone, Dead
-----------------------------------------------------------------------------
(* The steps of threads that leave the lists alone.                         *)
Listless == UNCHANGED <<serial, waits, walk, answered, gc, stray>>

LEMMA FreshKept ==
    ASSUME Fresh, Listless, frees' = frees
    PROVE  Fresh'
BY DEF Fresh, Listless, OnList

LEMMA UniqueKept ==
    ASSUME Unique, Listless
    PROVE  Unique'
BY DEF Unique, Listless, OnList

LEMMA PendingKept ==
    ASSUME Listless
    PROVE  \A l : Pending(l)' <=> Pending(l)
BY DEF Listless, Pending, OnList, ToCome

LEMMA QuietMoves ==
    ASSUME IInv, NEW t \in Threads, Wait(t) \/ Refuse(t) \/ Park(t) \/ Resume(t)
    PROVE  IInv'
<1>1. Typed'
  BY MovesTyped DEF IInv, Moves
<1>2. /\ Listless /\ frees' = frees /\ resumed' = resumed /\ revived' = revived /\ cut' = cut
      /\ due' = due /\ life' = life
  BY DEF Wait, Refuse, Park, Resume, Listless, links, calls, history
<1>3. Fresh' /\ Unique'
  BY <1>2, FreshKept, UniqueKept DEF IInv
<1>4. \A u \in Threads : u # t =>
        pc'[u] = pc[u] /\ target'[u] = target[u] /\ result'[u] = result[u] /\ status'[u] = status[u]
  BY DEF Wait, Refuse, Park, Resume, Goto, IInv, Typed, TypeOK
<1>5. /\ status[t] = "running"
      /\ \/ pc[t] = "user" /\ pc'[t] = "calling" /\ status' = status
         \/ pc[t] = "calling" /\ pc'[t] = "user" /\ status' = status
         \/ pc[t] = "gap" /\ pc'[t] = "parked" /\ status'[t] = "asleep"
         \/ pc[t] = "parked" /\ pc'[t] = "back" /\ status' = status
  BY DEF Wait, Refuse, Park, Resume, Goto, Runs, IInv, Typed, TypeOK
<1>6. Home[t] \in Table
  BY DEF Wait, Refuse, Park, Resume, Runs
<1>7. PendingCurrent'
  BY <1>2, <1>4, <1>5, PendingKept, LinkParts
  DEF IInv, Freeing, PendingCurrent, Typed, Link, Listless
<1>8. NotYetFreed' /\ FreedAtMostOnce' /\ HeadKnown'
  <2>1. \A u \in Threads : Dead(u)' <=> Dead(u)
    BY <1>2, <1>4, <1>5 DEF Dead, Table
  <2>2. NotYetFreed'
    BY <1>2, <1>4, <1>5, <2>1 DEF IInv, Freeing, NotYetFreed, Underway, Link, Listless, Dead
  <2>3. FreedAtMostOnce'
    BY <1>2 DEF IInv, Freeing, FreedAtMostOnce, Listless
  <2>4. HeadKnown'
    BY <1>2, <2>1, HeadTyped DEF IInv, Typed, HeadThere, Freeing, HeadKnown, Listless
  <2>5. QED
    BY <2>2, <2>3, <2>4
<1>9. Answering'
  <2>1. \A x : Gone(x)' <=> Gone(x)
    BY <1>2, <1>4, <1>5 DEF Gone, Table
  <2>2. \A u \in Threads : pc'[u] \in Underway => pc[u] \in Underway /\ target'[u] = target[u]
    BY <1>4 DEF Wait, Refuse, Park, Resume, Goto, IInv, Typed, TypeOK, Underway
  <2>3. OwnTarget'
    BY <1>2, <2>1, <2>2 DEF IInv, Typed, CallsBounded, Answering, OwnTarget, Listless, Link, Underway
  <2>4. WokenAnswered'
    BY <1>2, <1>4, <1>5 DEF IInv, Answering, WokenAnswered, Listless, Link
  <2>5. AnswersTrue'
    <3>1. CASE Wait(t)
      BY <1>2, <1>4, <2>1, <3>1 DEF IInv, Typed, TypeOK, Answering, AnswersTrue, Wait, links
    <3>2. CASE Refuse(t)
      <4>1. ~Found(target[t]) => Gone(target[t])
        BY NamesAssumption DEF Found, Gone, Attached, IInv, Typed, TypeOK
      <4>2. QED
        BY <1>2, <1>4, <2>1, <3>2, <4>1 DEF IInv, Typed, TypeOK, Answering, AnswersTrue, Refuse
    <3>3. CASE Park(t) \/ Resume(t)
      BY <1>2, <2>1, <3>3 DEF IInv, Answering, AnswersTrue, Park, Resume
    <3>4. QED
      BY <3>1, <3>2, <3>3
  <2>6. QED
    BY <2>3, <2>4, <2>5 DEF Answering
<1>10. Ending'
  <2>1. DeletedOutside'
    BY <1>2, <1>4, <1>5 DEF IInv, Ending, DeletedOutside
  <2>2. \A u \in Threads : status'[u] = "finished" /\ pc'[u] \in Inside => u \in revived' \cup cut'
    BY <1>2, <1>4, <1>5 DEF IInv, Ending, EndedOutside
  <2>3. \A u \in due' : status'[u] \in {"finished", "deleted"} \/ u \in revived'
    BY <1>2, <1>4, <1>5 DEF IInv, Ending, EndedOutside, Typed, TypeOK
  <2>4. \A u \in Threads : Home[u] \notin Table' /\ status'[u] # "deleted" => pc'[u] \notin Inside
    BY <1>2, <1>4, <1>6 DEF IInv, Ending, EndedOutside, Table
  <2>5. QED
    BY <1>2, <2>1, <2>2, <2>3, <2>4 DEF IInv, Ending, EndedOutside, Inside, WholeDetached, Listless, Table
<1>11. QED
  BY <1>1, <1>3, <1>7, <1>8, <1>9, <1>10 DEF IInv, Freeing
LEMMA ReturnKeeps ==
    ASSUME IInv, NEW t \in Threads, Return(t)
    PROVE  IInv'
<1>1. Typed'
  BY MovesTyped DEF IInv, Moves
<1>2. /\ Listless /\ resumed' = resumed /\ revived' = revived /\ cut' = cut /\ due' = due
      /\ life' = life /\ status' = status /\ target' = target
  BY DEF Return, Listless, history
<1>3. pc[t] = "back" /\ status[t] = "running" /\ Home[t] \in Table /\ ~Dead(t)
  BY DEF Return, Runs, Dead
<1>4. pc'[t] = "user" /\ \A u \in Threads : u # t => pc'[u] = pc[u] /\ result'[u] = result[u]
  BY DEF Return, Goto, IInv, Typed, TypeOK
<1>5. /\ \A l \in Links : l # Link(t) => frees'[l] = frees[l]
      /\ Link(t) \in Links => frees'[Link(t)] = frees[Link(t)] + 1
  BY DEF Return, IInv, Typed, TypeOK
<1>6. \A l \in Links : Waiter(l) # t => l # Link(t)
  BY DEF Waiter, Link
<1>7. Fresh' /\ Unique'
  <2>1. \A l \in Links : l[2] > serial[Waiter(l)] => l # Link(t)
    BY LinkParts DEF IInv, Typed, TypeOK, Link, Waiter
  <2>2. Fresh'
    BY <1>2, <1>5, <2>1 DEF IInv, Fresh, Listless, OnList
  <2>3. QED
    BY <1>2, <2>2, UniqueKept DEF IInv
<1>8. PendingCurrent'
  <2>1. ASSUME NEW l \in Links, Waiter(l) \notin resumed, Pending(l)
        PROVE  Waiter(l) # t
    BY <1>3, <2>1 DEF IInv, Freeing, PendingCurrent
  <2>2. ASSUME NEW l \in Links, Waiter(l)' \notin resumed', Pending(l)'
        PROVE  /\ l = Link(Waiter(l))' /\ frees'[l] = frees[l] /\ frees[l] = 0
               /\ pc'[Waiter(l)] = pc[Waiter(l)] /\ status'[Waiter(l)] = status[Waiter(l)]
               /\ pc[Waiter(l)] = "gap" \/ (pc[Waiter(l)] = "parked" /\ status[Waiter(l)] # "running")
    <3>1. Waiter(l) \notin resumed /\ Pending(l) /\ Waiter(l) \in Threads
      BY <1>2, <2>2, PendingKept, LinkParts DEF IInv, Typed, Waiter
    <3>2. Waiter(l) # t
      BY <2>1, <3>1
    <3>3. QED
      BY <1>2, <1>4, <1>5, <1>6, <3>1, <3>2
      DEF IInv, Freeing, PendingCurrent, Link, Listless
  <2>3. QED
    BY <2>2 DEF PendingCurrent, Waiter
<1>9. NotYetFreed'
  <2>1. SUFFICES ASSUME NEW u \in Threads, u \notin resumed, pc'[u] \in Underway, ~Dead(u)'
                 PROVE  frees'[Link(u)] = 0
    BY <1>2 DEF NotYetFreed, Link, Listless
  <2>2. u # t /\ pc[u] \in Underway /\ ~Dead(u)
    BY <1>2, <1>4, <2>1 DEF Underway, Dead, Table
  <2>3. frees[Link(u)] = 0
    BY <2>1, <2>2 DEF IInv, Freeing, NotYetFreed
  <2>4. Link(u) # Link(t)
    BY <2>2 DEF Link
  <2>5. QED
    BY <2>3, <2>4 DEF Return, IInv, Typed, TypeOK
<1>10. FreedAtMostOnce'
  <2>1. t \notin resumed => frees[Link(t)] = 0
    BY <1>3 DEF IInv, Freeing, NotYetFreed, Underway
  <2>2. Waiter(Link(t)) = t
    BY DEF Waiter, Link
  <2>3. QED
    BY <1>2, <1>5, <2>1, <2>2 DEF IInv, Freeing, FreedAtMostOnce, Waiter, Listless
<1>11. HeadKnown'
  <2>1. \A u \in Threads : Dead(u)' <=> Dead(u)
    BY <1>2 DEF Dead, Table
  <2>2. ASSUME gc.phase = "advance", ~gc.found
        PROVE  /\ Waiter(Head(walk)) \in Threads /\ Head(walk) \in Links
               /\ Head(walk) # Link(t)
    BY <1>3, <2>2, HeadTyped DEF IInv, Typed, HeadThere, Freeing, HeadKnown, Waiter, Link
  <2>3. QED
    BY <1>2, <1>5, <2>1, <2>2 DEF IInv, Freeing, HeadKnown, Listless, Waiter
<1>12. Answering'
  <2>1. \A x : Gone(x)' <=> Gone(x)
    BY <1>2 DEF Gone, Table
  <2>2. \A u \in Threads : pc'[u] \in Underway => pc[u] \in Underway
    BY <1>4 DEF Underway
  <2>3. OwnTarget'
    BY <1>2, <2>1, <2>2 DEF IInv, Answering, OwnTarget, Listless, Link
  <2>4. WokenAnswered'
    BY <1>2, <1>4 DEF IInv, Answering, WokenAnswered, Listless, Link
  <2>5. AnswersTrue'
    <3>1. result'[t] = IF Link(t) \in answered THEN "died" ELSE "failed"
      BY DEF Return, IInv, Typed, TypeOK
    <3>2. Link(t) \in answered => Gone(target[t])
      BY <1>3 DEF IInv, Answering, OwnTarget, Underway
    <3>3. Link(t) \notin answered => t \in resumed
      BY <1>3 DEF IInv, Answering, WokenAnswered
    <3>4. QED
      BY <1>2, <1>4, <2>1, <3>1, <3>2, <3>3 DEF IInv, Answering, AnswersTrue
  <2>6. QED
    BY <2>3, <2>4, <2>5 DEF Answering
<1>13. Ending'
  <2>1. WholeDetached'
    BY <1>2 DEF IInv, Ending, WholeDetached, Listless, Table
  <2>2. EndedOutside' /\ DeletedOutside'
    BY <1>2, <1>3, <1>4 DEF IInv, Ending, EndedOutside, DeletedOutside, Table, Inside
  <2>3. QED
    BY <2>1, <2>2 DEF Ending
<1>14. QED
  BY <1>1, <1>7, <1>8, <1>9, <1>10, <1>11, <1>12, <1>13 DEF IInv, Freeing

LEMMA OthersKeep ==
    ASSUME IInv, NEW t \in Threads, Others(t)
    PROVE  IInv'
<1>1. Typed'
  BY OthersTyped DEF IInv
<1>2. /\ Listless /\ frees' = frees /\ revived' = revived /\ resumed \subseteq resumed'
      /\ cut \subseteq cut'
      /\ pc' = pc /\ target' = target /\ result' = result
  BY DEF Others, ExitProcess, End, ResumePeer, Turn, Listless, calls, links, history
<1>3. Table' = Table
  BY NamesAssumption DEF Others, ExitProcess, End, ResumePeer, Turn, Calls, Runs, Table,
     IInv, Typed, TypeOK
<1>4. /\ \A u \in Threads : status'[u] = "deleted" <=> status[u] = "deleted"
      /\ \A u \in Threads : u \notin resumed' /\ status'[u] = "running" => status[u] = "running"
      /\ \A u \in Threads : status'[u] = "finished" =>
            status[u] = "finished" \/ pc[u] \notin Inside \/ u \in cut'
      /\ \A u \in due' : status'[u] \in {"finished", "deleted"} \/ u \in revived
  <2>1. \A u \in due : status[u] \in {"finished", "deleted"} \/ u \in revived
    BY DEF IInv, Ending, EndedOutside
  <2>2. CASE ExitProcess(t)
    BY <2>1, <2>2 DEF ExitProcess, Calls, Runs, Inside, IInv, Typed, TypeOK
  <2>3. CASE End(t)
    BY <2>1, <2>3 DEF End, Inside, Attached, IInv, Typed, TypeOK
  <2>4. CASE ResumePeer(t)
    BY <2>1, <2>4 DEF ResumePeer, Attached, IInv, Typed, TypeOK
  <2>5. CASE Turn(t)
    BY <2>1, <2>5 DEF Turn
  <2>6. QED
    BY <2>2, <2>3, <2>4, <2>5 DEF Others
<1>5. Fresh' /\ Unique'
  BY <1>2, FreshKept, UniqueKept DEF IInv
<1>6. PendingCurrent'
  <2>1. ASSUME NEW l \in Links, Waiter(l) \notin resumed', Pending(l)'
        PROVE  /\ l = Link(Waiter(l)) /\ frees[l] = 0
               /\ pc[Waiter(l)] = "gap" \/ (pc[Waiter(l)] = "parked" /\ status'[Waiter(l)] # "running")
    <3>1. Waiter(l) \notin resumed /\ Pending(l) /\ Waiter(l) \in Threads
      BY <1>2, <2>1, PendingKept, LinkParts DEF IInv, Typed
    <3>2. QED
      BY <1>4, <2>1, <3>1 DEF IInv, Freeing, PendingCurrent
  <2>2. QED
    BY <1>2, <2>1 DEF PendingCurrent, Waiter, Link, Listless
<1>7. NotYetFreed' /\ FreedAtMostOnce' /\ HeadKnown'
  <2>1. \A u \in Threads : Dead(u)' <=> Dead(u)
    BY <1>3, <1>4 DEF Dead
  <2>2. NotYetFreed'
    BY <1>2, <2>1 DEF IInv, Freeing, NotYetFreed, Link, Listless
  <2>3. FreedAtMostOnce'
    BY <1>2 DEF IInv, Freeing, FreedAtMostOnce, Listless, Waiter
  <2>4. HeadKnown'
    BY <1>2, <2>1, HeadTyped DEF IInv, Typed, HeadThere, Freeing, HeadKnown, Listless
  <2>5. QED
    BY <2>2, <2>3, <2>4
<1>8. Answering'
  <2>1. \A x : Gone(x)' <=> Gone(x)
    BY <1>3, <1>4 DEF Gone
  <2>2. OwnTarget'
    BY <1>2, <2>1 DEF IInv, Answering, OwnTarget, Listless, Link
  <2>3. WokenAnswered'
    BY <1>2, <1>4 DEF IInv, Answering, WokenAnswered, Listless, Link
  <2>4. AnswersTrue'
    BY <1>2, <2>1 DEF IInv, Answering, AnswersTrue
  <2>5. QED
    BY <2>2, <2>3, <2>4 DEF Answering
<1>9. Ending'
  <2>1. WholeDetached'
    BY <1>2, <1>3 DEF IInv, Ending, WholeDetached, Listless
  <2>2. EndedOutside' /\ DeletedOutside'
    BY <1>2, <1>3, <1>4 DEF IInv, Ending, EndedOutside, DeletedOutside
  <2>3. QED
    BY <2>1, <2>2 DEF Ending
<1>10. QED
  BY <1>1, <1>5, <1>6, <1>7, <1>8, <1>9 DEF IInv, Freeing
LEMMA EnlistKeeps ==
    ASSUME IInv, NEW t \in Threads, Enlist(t)
    PROVE  IInv'
<1> DEFINE n == serial[t] + 1
           new == <<t, n>>
           x0 == target[t]
<1>1. Typed'
  BY EnlistTyped DEF IInv
<1>2. /\ walk' = walk /\ answered' = answered /\ gc' = gc /\ frees' = frees /\ stray' = stray
      /\ resumed' = resumed /\ revived' = revived /\ cut' = cut /\ due' = due /\ life' = life
      /\ status' = status /\ target' = target /\ result' = result
  BY DEF Enlist, history
<1>3. pc[t] = "calling" /\ status[t] = "running" /\ Home[t] \in Table /\ x0 \in Targets
  BY DEF Enlist, Runs, IInv, Typed, CallsBounded
<1>4. pc'[t] = "gap" /\ \A u \in Threads : u # t => pc'[u] = pc[u] /\ serial'[u] = serial[u]
  BY DEF Enlist, Goto, IInv, Typed, TypeOK
<1>5. serial'[t] = n /\ n \in Nat /\ serial[t] \in Nat /\ new \in Links
  BY <1>3, NextLink DEF Enlist, IInv, Typed, TypeOK
<1>6. /\ frees[new] = 0 /\ new \notin answered /\ ~OnList(new) /\ ~In(new, walk)
      /\ Waiter(new) = t
  <2>1. new[2] > serial[Waiter(new)] /\ Waiter(new) = t
    BY <1>5 DEF Waiter
  <2>2. QED
    BY <1>5, <2>1 DEF IInv, Fresh
<1>7. /\ \A x \in Targets : x # x0 => waits'[x] = waits[x]
      /\ waits'[x0] = <<new>> \o waits[x0] /\ waits[x0] \in Seq(Links)
  BY <1>3 DEF Enlist, IInv, Typed, TypeOK
<1>8. /\ \A l : In(l, waits'[x0]) <=> l = new \/ In(l, waits[x0])
      /\ NoRepeats(waits[x0]) /\ ~In(new, waits[x0]) => NoRepeats(waits'[x0])
  BY <1>5, <1>7, InPushed
<1> HIDE DEF new, x0, n
<1>9. \A l : OnList(l)' <=> l = new \/ OnList(l)
  BY <1>3, <1>7, <1>8 DEF OnList
<1>10. \A l : Pending(l)' <=> l = new \/ Pending(l)
  BY <1>2, <1>9 DEF Pending, ToCome
<1>11. Fresh'
  <2>1. SUFFICES ASSUME NEW l \in Links, l[2] > serial'[Waiter(l)]
                 PROVE  frees[l] = 0 /\ l \notin answered /\ ~OnList(l)' /\ ~In(l, walk)
    BY <1>2 DEF Fresh, Waiter
  <2>2. l # new /\ l[2] > serial[Waiter(l)]
    <3>1. Waiter(l) \in Threads /\ l[2] \in Nat
      BY LinkParts DEF IInv, Typed
    <3>2. CASE Waiter(l) = t
      <4>1. new[2] = n
        BY DEF new
      <4>2. l[2] > n
        BY <1>5, <2>1, <3>2
      <4>3. n > serial[t]
        BY <1>5 DEF n
      <4>4. QED
        BY <1>5, <3>1, <3>2, <4>1, <4>2, <4>3
    <3>3. CASE Waiter(l) # t
      BY <1>4, <1>6, <2>1, <3>1, <3>3
    <3>4. QED
      BY <3>2, <3>3
  <2>3. QED
    BY <1>9, <2>2 DEF IInv, Fresh
<1>12. Unique'
  <2>1. \A x \in Targets : NoRepeats(waits'[x])
    <3>1. ~In(new, waits[x0])
      BY <1>3, <1>6 DEF OnList
    <3>2. QED
      BY <1>7, <1>8, <3>1 DEF IInv, Unique
  <2>2. ASSUME NEW l \in Links, NEW x \in Targets, NEW y \in Targets,
               In(l, waits'[x]), In(l, waits'[y])
        PROVE  x = y
    <3>1. CASE l = new
      <4>1. \A z \in Targets : In(new, waits'[z]) => z = x0
        BY <1>6, <1>7 DEF OnList
      <4>2. QED
        BY <2>2, <3>1, <4>1
    <3>2. CASE l # new
      <4>1. In(l, waits[x]) /\ In(l, waits[y])
        BY <1>7, <1>8, <2>2, <3>2
      <4>2. QED
        BY <4>1 DEF IInv, Unique
    <3>3. QED
      BY <3>1, <3>2
  <2>3. NoRepeats(walk') /\ \A l \in Links : In(l, walk') => ~OnList(l)'
    BY <1>2, <1>6, <1>9 DEF IInv, Unique
  <2>4. QED
    BY <2>1, <2>2, <2>3 DEF Unique
<1>13. PendingCurrent'
  <2>1. ASSUME NEW l \in Links, Waiter(l) \notin resumed, Pending(l)'
        PROVE  /\ l = <<Waiter(l), serial'[Waiter(l)]>> /\ frees[l] = 0
               /\ pc'[Waiter(l)] = "gap" \/ (pc'[Waiter(l)] = "parked" /\ status[Waiter(l)] # "running")
    <3>1. CASE l = new
      BY <1>4, <1>5, <1>6, <3>1 DEF new
    <3>2. CASE l # new
      <4>1. Pending(l) /\ Waiter(l) \in Threads
        BY <1>10, <2>1, <3>2, LinkParts DEF IInv, Typed
      <4>2. Waiter(l) # t
        BY <1>3, <2>1, <4>1 DEF IInv, Freeing, PendingCurrent
      <4>3. QED
        BY <1>4, <2>1, <4>1, <4>2 DEF IInv, Freeing, PendingCurrent, Link
    <3>3. QED
      BY <3>1, <3>2
  <2>2. QED
    BY <1>2, <2>1 DEF PendingCurrent, Waiter, Link
<1>14. NotYetFreed' /\ FreedAtMostOnce' /\ HeadKnown'
  <2>1. \A u \in Threads : Dead(u)' <=> Dead(u)
    BY <1>2 DEF Dead, Table
  <2>2. \A u \in Threads : <<u, serial'[u]>> = IF u = t THEN new ELSE Link(u)
    BY <1>4, <1>5 DEF Link, new
  <2>3. NotYetFreed'
    BY <1>2, <1>4, <1>6, <2>1, <2>2 DEF IInv, Freeing, NotYetFreed, Link
  <2>4. FreedAtMostOnce'
    BY <1>2 DEF IInv, Freeing, FreedAtMostOnce, Waiter
  <2>5. HeadKnown'
    BY <1>2, <2>1, HeadTyped DEF IInv, Typed, HeadThere, Freeing, HeadKnown, Waiter
  <2>6. QED
    BY <2>3, <2>4, <2>5
<1>15. Answering'
  <2>1. \A x : Gone(x)' <=> Gone(x)
    BY <1>2 DEF Gone, Table
  <2>2. \A u \in Threads : u # t => <<u, serial'[u]>> = Link(u) /\ Link(u) # new
    BY <1>4 DEF Link, new
  <2>3. <<t, serial'[t]>> = new
    BY <1>5 DEF new
  <2>4. OwnTarget'
    <3>1. SUFFICES ASSUME NEW u \in Threads, pc'[u] \in Underway
                   PROVE  /\ \A x \in Targets : In(<<u, serial'[u]>>, waits'[x]) => x = target[u]
                          /\ In(<<u, serial'[u]>>, walk) \/ <<u, serial'[u]>> \in answered => Gone(target[u])
      BY <1>2, <2>1 DEF OwnTarget, Link
    <3>2. CASE u = t
      <4>1. \A x \in Targets : In(new, waits'[x]) => x = x0
        BY <1>6, <1>7 DEF OnList
      <4>2. QED
        BY <1>6, <2>3, <3>2, <4>1 DEF x0
    <3>3. CASE u # t
      <4>1. pc[u] \in Underway /\ <<u, serial'[u]>> = Link(u) /\ Link(u) # new
        BY <1>4, <2>2, <3>1, <3>3
      <4>2. \A x \in Targets : In(Link(u), waits'[x]) => In(Link(u), waits[x])
        BY <1>7, <1>8, <4>1
      <4>3. QED
        BY <4>1, <4>2 DEF IInv, Answering, OwnTarget
    <3>4. QED
      BY <3>2, <3>3
  <2>5. WokenAnswered'
    BY <1>2, <1>4, <2>2 DEF IInv, Answering, WokenAnswered, Link
  <2>6. AnswersTrue'
    BY <1>2, <2>1 DEF IInv, Answering, AnswersTrue
  <2>7. QED
    BY <2>4, <2>5, <2>6 DEF Answering
<1>16. Ending'
  <2>1. WholeDetached'
    BY <1>2 DEF IInv, Ending, WholeDetached, Listless, Table
  <2>2. EndedOutside' /\ DeletedOutside'
    BY <1>2, <1>3, <1>4 DEF IInv, Ending, EndedOutside, DeletedOutside, Table, Inside
  <2>3. QED
    BY <2>1, <2>2 DEF Ending
<1>17. QED
  BY <1>1, <1>11, <1>12, <1>13, <1>14, <1>15, <1>16 DEF IInv, Freeing
-----------------------------------------------------------------------------
(* The steps of the collector.                                              *)

(* A list is taken whose target has gone. *)
LEMMA ListTaken ==
    ASSUME IInv, Next, NEW x \in Targets, TakeWaits(x), Gone(x)', gc'.phase = "mark",
           UNCHANGED <<calls, answered, frees, stray, resumed>>,
           \A u \in Threads : status'[u] = status[u] \/ status'[u] = "deleted"
    PROVE  Fresh' /\ Unique' /\ Freeing' /\ Answering'
<1>1. /\ pc' = pc /\ target' = target /\ serial' = serial /\ result' = result
      /\ answered' = answered /\ frees' = frees /\ stray' = stray /\ resumed' = resumed
  BY DEF calls
<1>2. /\ walk' = waits[x] /\ waits'[x] = << >>
      /\ \A y \in Targets : y # x => waits'[y] = waits[y]
  BY DEF TakeWaits, IInv, Typed, TypeOK
<1>3. /\ \A l : In(l, walk') <=> In(l, waits[x])
      /\ \A l, y : y \in Targets => (In(l, waits'[y]) <=> y # x /\ In(l, waits[y]))
  BY <1>2, InNone
<1>4. /\ \A l : OnList(l)' => OnList(l)
      /\ \A l : In(l, walk') => OnList(l)
      /\ \A l : Pending(l)' => OnList(l) /\ Pending(l)
  <2>1. \A l : OnList(l)' => OnList(l)
    BY <1>3 DEF OnList
  <2>2. \A l : In(l, walk') => OnList(l)
    BY <1>3 DEF OnList
  <2>3. \A l : ToCome(l)' => In(l, walk')
    BY DEF ToCome
  <2>4. QED
    BY <2>1, <2>2, <2>3 DEF Pending
<1>5. Fresh'
  BY <1>1, <1>4 DEF IInv, Fresh, Waiter
<1>6. Unique'
  <2>1. NoRepeats(walk') /\ \A y \in Targets : NoRepeats(waits'[y])
    BY <1>2, InNone DEF IInv, Unique
  <2>2. \A l \in Links, y, z \in Targets : In(l, waits'[y]) /\ In(l, waits'[z]) => y = z
    BY <1>3 DEF IInv, Unique
  <2>3. ASSUME NEW l \in Links, In(l, walk') PROVE ~OnList(l)'
    BY <1>3, <2>3 DEF IInv, Unique, OnList
  <2>4. QED
    BY <2>1, <2>2, <2>3 DEF Unique
<1>7. Freeing'
  <2>1. ASSUME NEW l \in Links, Waiter(l) \notin resumed, Pending(l)'
        PROVE  /\ l = Link(Waiter(l)) /\ frees[l] = 0
               /\ pc[Waiter(l)] = "gap" \/ (pc[Waiter(l)] = "parked" /\ status'[Waiter(l)] # "running")
    <3>1. Pending(l) /\ Waiter(l) \in Threads
      BY <1>4, <2>1, LinkParts DEF IInv, Typed
    <3>2. QED
      BY <2>1, <3>1 DEF IInv, Freeing, PendingCurrent
  <2>2. PendingCurrent'
    BY <1>1, <2>1 DEF PendingCurrent, Waiter, Link
  <2>3. NotYetFreed'
    <3>1. \A u \in Threads : ~Dead(u)' => ~Dead(u)
      BY GoneKept DEF IInv
    <3>2. QED
      BY <1>1, <3>1 DEF IInv, Freeing, NotYetFreed, Link
  <2>4. FreedAtMostOnce'
    BY <1>1 DEF IInv, Freeing, FreedAtMostOnce, Waiter
  <2>5. HeadKnown'
    BY DEF HeadKnown
  <2>6. QED
    BY <2>2, <2>3, <2>4, <2>5 DEF Freeing
<1>8. Answering'
  <2>1. \A y : Gone(y) => Gone(y)'
    BY GoneKept DEF IInv
  <2>2. OwnTarget'
    <3>1. SUFFICES ASSUME NEW u \in Threads, pc[u] \in Underway
                   PROVE  /\ \A y \in Targets : In(Link(u), waits'[y]) => y = target[u]
                          /\ In(Link(u), walk') \/ Link(u) \in answered => Gone(target[u])'
      BY <1>1 DEF OwnTarget, Link, Gone
    <3>2. \A y \in Targets : In(Link(u), waits[y]) => y = target[u]
      BY <3>1 DEF IInv, Answering, OwnTarget
    <3>3. Link(u) \in answered => Gone(target[u])
      BY <3>1 DEF IInv, Answering, OwnTarget
    <3>4. QED
      BY <1>1, <1>3, <2>1, <3>2, <3>3
  <2>3. WokenAnswered'
    BY <1>1 DEF IInv, Answering, WokenAnswered, Link
  <2>4. AnswersTrue'
    BY <1>1, <2>1 DEF IInv, Answering, AnswersTrue
  <2>5. QED
    BY <2>2, <2>3, <2>4 DEF Answering
<1>9. QED
  BY <1>5, <1>6, <1>7, <1>8

LEMMA CollectThreadKeeps ==
    ASSUME IInv, Next, NEW u \in Threads, CollectThread(u)
    PROVE  IInv'
<1>1. Typed'
  BY CollectorTyped DEF IInv, Collector
<1>2. /\ status'[u] = "deleted" /\ \A t \in Threads : t # u => status'[t] = status[t]
      /\ life' = life /\ revived' = revived /\ cut' = cut /\ due' = due \ {u} /\ pc' = pc
      /\ gc'.phase = "mark" /\ gc'.whole = FALSE
  BY DEF CollectThread, IInv, Typed, TypeOK, history, calls
<1>3. Fresh' /\ Unique' /\ Freeing' /\ Answering'
  <2>1. u \in Targets /\ TakeWaits(u) /\ Gone(u)'
    BY <1>2 DEF CollectThread, Targets, Gone
  <2>2. UNCHANGED <<calls, answered, frees, stray, resumed>>
    BY DEF CollectThread, history
  <2>3. QED
    BY <1>2, <2>1, <2>2, ListTaken
<1>4. status[u] = "finished" \/ u \in revived
  BY DEF CollectThread, Attached, IInv, Ending, EndedOutside
<1>5. Ending'
  <2>1. DeletedOutside'
    BY <1>2, <1>4 DEF IInv, Ending, EndedOutside, DeletedOutside
  <2>2. EndedOutside'
    <3>1. due \subseteq Threads
      BY DEF IInv, Typed, TypeOK
    <3>2. Table' = Table
      BY <1>2 DEF Table
    <3>3. \A t \in Threads : status'[t] = "finished" /\ pc[t] \in Inside => t \in revived \cup cut
      BY <1>2 DEF IInv, Ending, EndedOutside
    <3>4. \A t \in due' : status'[t] \in {"finished", "deleted"} \/ t \in revived
      BY <1>2, <3>1 DEF IInv, Ending, EndedOutside
    <3>5. \A t \in Threads : Home[t] \notin Table /\ status'[t] # "deleted" => pc[t] \notin Inside
      BY <1>2 DEF IInv, Ending, EndedOutside
    <3>6. QED
      BY <1>2, <3>2, <3>3, <3>4, <3>5 DEF EndedOutside, Inside
  <2>3. WholeDetached'
    BY <1>2 DEF WholeDetached
  <2>4. QED
    BY <2>1, <2>2, <2>3 DEF Ending
<1>6. QED
  BY <1>1, <1>3, <1>5 DEF IInv

LEMMA ProceedKeeps ==
    ASSUME IInv, Next, Proceed
    PROVE  IInv'
<1>1. Typed'
  BY CollectorTyped DEF IInv, Collector
<1>2. /\ gc'.phase = "mark" /\ gc'.whole = gc.whole /\ gc'.owner = gc.owner
      /\ gc.whole /\ gc.owner \notin Table /\ gc.owner \in Procs
      /\ revived' = revived /\ cut' = cut /\ due' = due /\ pc' = pc
      /\ UNCHANGED <<calls, answered, frees, stray, resumed>>
  BY DEF Proceed, Moved, IInv, Ending, WholeDetached, Typed, TypeOK, history, calls
<1>3. CASE \E u \in Attached(gc.owner) :
             status' = [status EXCEPT ![u] = "deleted"] /\ TakeWaits(u) /\ life' = life
  <2>1. PICK u \in Attached(gc.owner) :
             status' = [status EXCEPT ![u] = "deleted"] /\ TakeWaits(u) /\ life' = life
    BY <1>3
  <2>2. /\ u \in Threads /\ Home[u] \notin Table /\ status[u] # "deleted"
        /\ status'[u] = "deleted" /\ \A t \in Threads : t # u => status'[t] = status[t]
        /\ Table' = Table
    BY <1>2, <2>1 DEF Attached, IInv, Typed, TypeOK, Table
  <2>3. Fresh' /\ Unique' /\ Freeing' /\ Answering'
    <3>1. u \in Targets /\ Gone(u)'
      BY <2>2 DEF Targets, Gone
    <3>2. \A t \in Threads : status'[t] = status[t] \/ status'[t] = "deleted"
      BY <2>2
    <3>3. QED
      BY <1>2, <2>1, <3>1, <3>2, ListTaken
  <2>4. DeletedOutside'
    BY <1>2, <2>2 DEF IInv, Ending, EndedOutside, DeletedOutside
  <2>5. EndedOutside' /\ WholeDetached'
    <3>1. due \subseteq Threads
      BY DEF IInv, Typed, TypeOK
    <3>2. \A t \in due : status'[t] \in {"finished", "deleted"} \/ t \in revived
      BY <2>2, <3>1 DEF IInv, Ending, EndedOutside
    <3>3. \A t \in Threads : status'[t] = "finished" /\ pc[t] \in Inside => t \in revived \cup cut
      BY <2>2 DEF IInv, Ending, EndedOutside
    <3>4. \A t \in Threads : Home[t] \notin Table /\ status'[t] # "deleted" => pc[t] \notin Inside
      BY <2>2 DEF IInv, Ending, EndedOutside
    <3>5. EndedOutside'
      BY <1>2, <2>2, <3>2, <3>3, <3>4 DEF EndedOutside, Inside
    <3>6. QED
      BY <1>2, <2>2, <3>5 DEF WholeDetached
  <2>6. QED
    BY <1>1, <2>3, <2>4, <2>5 DEF IInv, Ending
<1>4. CASE life' = [life EXCEPT ![gc.owner] = "reaped"] /\ TakeWaits(gc.owner) /\ status' = status
  <2>1. Table' = Table
    BY <1>2, <1>4 DEF Table, IInv, Typed, TypeOK
  <2>2. Fresh' /\ Unique' /\ Freeing' /\ Answering'
    <3>1. gc.owner \in Targets /\ Gone(gc.owner)'
      <4>1. gc.owner \notin Threads /\ gc.owner \notin Table'
        BY <1>2, <2>1, NamesAssumption
      <4>2. gc.owner \in Targets
        BY <1>2 DEF Targets
      <4>3. QED
        BY <1>2, <4>1, <4>2 DEF Gone, Table
    <3>2. TakeWaits(gc.owner) /\ \A t \in Threads : status'[t] = status[t]
      BY <1>4
    <3>3. QED
      BY <1>2, <3>1, <3>2, ListTaken
  <2>3. Ending'
    BY <1>2, <1>4, <2>1 DEF IInv, Ending, EndedOutside, DeletedOutside, WholeDetached
  <2>4. QED
    BY <1>1, <2>2, <2>3 DEF IInv
<1>5. QED
  BY <1>3, <1>4 DEF Proceed

(* The collector moves on between two lists. *)
LEMMA ListsKept ==
    ASSUME IInv, Next, UNCHANGED <<calls, waits, walk, answered, frees, stray, resumed, status>>,
           gc.phase \in {"idle", "next", "mark"}, gc'.phase \in {"idle", "next", "mark"}
    PROVE  Fresh' /\ Unique' /\ Freeing' /\ Answering'
<1>1. /\ pc' = pc /\ target' = target /\ serial' = serial /\ result' = result
      /\ waits' = waits /\ walk' = walk /\ answered' = answered /\ frees' = frees
      /\ stray' = stray /\ resumed' = resumed /\ status' = status
  BY DEF calls
<1>2. /\ \A l : OnList(l)' <=> OnList(l)
      /\ \A l : Pending(l)' <=> Pending(l)
  BY <1>1 DEF OnList, Pending, ToCome
<1>3. Fresh' /\ Unique'
  BY <1>1, <1>2 DEF IInv, Fresh, Unique, Waiter
<1>4. (\A t \in Threads : ~Dead(t)' => ~Dead(t)) /\ (\A y : Gone(y) => Gone(y)')
  BY GoneKept DEF IInv
<1>5. Freeing'
  <2>1. PendingCurrent' /\ FreedAtMostOnce'
    BY <1>1, <1>2 DEF IInv, Freeing, PendingCurrent, FreedAtMostOnce, Waiter, Link
  <2>2. NotYetFreed'
    BY <1>1, <1>4 DEF IInv, Freeing, NotYetFreed, Link
  <2>3. HeadKnown'
    BY DEF HeadKnown
  <2>4. QED
    BY <2>1, <2>2, <2>3 DEF Freeing
<1>6. Answering'
  <2>1. OwnTarget'
    BY <1>1, <1>4 DEF IInv, Answering, OwnTarget, Link
  <2>2. WokenAnswered' /\ AnswersTrue'
    BY <1>1, <1>4 DEF IInv, Answering, WokenAnswered, AnswersTrue, Link
  <2>3. QED
    BY <2>1, <2>2 DEF Answering
<1>7. QED
  BY <1>3, <1>5, <1>6

LEMMA CollectProcessKeeps ==
    ASSUME IInv, Next, NEW p \in Procs, CollectProcess(p)
    PROVE  IInv'
<1>1. Typed'
  BY CollectorTyped DEF IInv, Collector
<1>2. /\ status' = status /\ pc' = pc /\ due' = due /\ revived' = revived /\ cut' = cut
      /\ gc'.phase = "next" /\ gc'.whole /\ gc'.owner = p
      /\ UNCHANGED <<calls, waits, walk, answered, frees, stray, resumed>>
      /\ gc.phase = "idle"
  BY DEF CollectProcess, calls, links, history
<1>3. Fresh' /\ Unique' /\ Freeing' /\ Answering'
  BY <1>2, ListsKept
<1>4. Table' = Table \ {p}
  BY DEF CollectProcess, Table, IInv, Typed, TypeOK
<1>5. \A t \in Threads : Home[t] = p => pc[t] \notin Inside
  BY DEF CollectProcess, Quiet, KernelThreads
<1>6. EndedOutside'
  BY <1>2, <1>4, <1>5, NamesAssumption DEF IInv, Ending, EndedOutside
<1>7. DeletedOutside' /\ WholeDetached'
  BY <1>2, <1>4 DEF IInv, Ending, DeletedOutside, WholeDetached
<1>8. QED
  BY <1>1, <1>3, <1>6, <1>7 DEF IInv, Ending

LEMMA DoneKeeps ==
    ASSUME IInv, Next, Done
    PROVE  IInv'
<1>1. Typed'
  BY CollectorTyped DEF IInv, Collector
<1>2. /\ status' = status /\ pc' = pc /\ due' = due /\ revived' = revived /\ cut' = cut
      /\ UNCHANGED <<calls, waits, walk, answered, frees, stray, resumed>>
      /\ gc.phase = "mark" /\ gc.owner \in Procs
  BY DEF Done, calls, links, history, IInv, Typed, TypeOK
<1>3. \/ gc'.phase = "idle" /\ Table' = Table
      \/ /\ gc'.phase = "next" /\ gc'.whole /\ gc'.owner = gc.owner /\ Table' = Table
         /\ gc.whole
      \/ /\ gc'.phase = "next" /\ gc'.whole /\ gc'.owner = gc.owner
         /\ Table' = Table \ {gc.owner} /\ Attached(gc.owner) = {}
  <2> DEFINE p == gc.owner
  <2>1. CASE gc.whole /\ Attached(p) = {} /\ life[p] = "reaped"
    <3>1. gc' = IdleGC /\ life' = [life EXCEPT ![p] = "freed"]
      BY <2>1 DEF Done
    <3>2. Table' = Table
      BY <1>2, <2>1, <3>1 DEF Table, IInv, Typed, TypeOK
    <3>3. QED
      BY <3>1, <3>2 DEF IdleGC
  <2>2. CASE gc.whole /\ ~(Attached(p) = {} /\ life[p] = "reaped")
    <3>1. gc' = Moved("next", gc.whole, gc.found) /\ life' = life
      BY <2>2 DEF Done
    <3>2. QED
      BY <2>2, <3>1 DEF Moved, Table
  <2>3. CASE ~gc.whole /\ Attached(p) = {}
    <3>1. gc' = Moved("next", TRUE, gc.found) /\ life' = [life EXCEPT ![p] = "detached"]
      BY <2>3 DEF Done
    <3>2. Table' = Table \ {p}
      BY <1>2, <3>1 DEF Table, IInv, Typed, TypeOK
    <3>3. QED
      BY <2>3, <3>1, <3>2 DEF Moved
  <2>4. CASE ~gc.whole /\ Attached(p) # {}
    <3>1. gc' = IdleGC /\ life' = life
      BY <2>4 DEF Done
    <3>2. QED
      BY <3>1 DEF IdleGC, Table
  <2>5. QED
    BY <2>1, <2>2, <2>3, <2>4
<1>4. Fresh' /\ Unique' /\ Freeing' /\ Answering'
  BY <1>2, <1>3, ListsKept
<1>5. EndedOutside'
  <2>1. \A t \in Threads : Home[t] \notin Table' /\ status[t] # "deleted" => pc[t] \notin Inside
    BY <1>3, NamesAssumption DEF IInv, Ending, EndedOutside, Attached
  <2>2. QED
    BY <1>2, <2>1 DEF IInv, Ending, EndedOutside, Inside
<1>6. DeletedOutside' /\ WholeDetached'
  BY <1>2, <1>3 DEF IInv, Ending, DeletedOutside, WholeDetached
<1>7. QED
  BY <1>1, <1>4, <1>5, <1>6 DEF IInv, Ending

(* Where the collector is at a link. *)
LEMMA AtHead ==
    ASSUME IInv, walk # << >>
    PROVE  /\ Head(walk) \in Links /\ Waiter(Head(walk)) \in Threads
           /\ In(Head(walk), walk) /\ ~In(Head(walk), Tail(walk)) /\ ~OnList(Head(walk))
           /\ NoRepeats(Tail(walk)) /\ \A l : In(l, Tail(walk)) => In(l, walk)
<1>1. walk \in Seq(Links)
  BY DEF IInv, Typed, TypeOK
<1>2. Head(walk) \in Links /\ Waiter(Head(walk)) \in Threads
  BY HeadTyped DEF IInv, Typed
<1>3. QED
  BY <1>1, <1>2, InPopped DEF IInv, Unique

LEMMA MarkKeeps ==
    ASSUME IInv, Next, Mark
    PROVE  IInv'
<1> DEFINE h == Head(walk)
<1>1. Typed'
  BY CollectorTyped DEF IInv, Collector
<1>2. /\ pc' = pc /\ target' = target /\ serial' = serial /\ result' = result
      /\ waits' = waits /\ walk' = walk /\ frees' = frees /\ resumed' = resumed
      /\ status' = status /\ life' = life /\ due' = due /\ revived' = revived /\ cut' = cut
      /\ answered' = answered \cup {h} /\ stray' \subseteq stray \cup {h}
      /\ frees[h] = 0 => stray' = stray
      /\ gc.phase = "mark" /\ gc'.phase = "rouse" /\ gc'.whole = gc.whole /\ gc'.owner = gc.owner
  BY DEF Mark, Moved, calls, IInv, Typed, TypeOK
<1>3. h \in Links /\ In(h, walk) /\ ~OnList(h) /\ ToCome(h)
  BY <1>2, AtHead DEF Mark, ToCome
<1> HIDE DEF h
<1>4. (\A l : OnList(l)' <=> OnList(l)) /\ (\A l : Pending(l)' <=> Pending(l))
  BY <1>2 DEF OnList, Pending, ToCome
<1>5. Fresh'
  BY <1>2, <1>3, <1>4 DEF IInv, Fresh, Waiter
<1>6. Unique'
  BY <1>2, <1>4 DEF IInv, Unique
<1>7. Freeing'
  <2>1. PendingCurrent'
    BY <1>2, <1>4 DEF IInv, Freeing, PendingCurrent, Waiter, Link
  <2>2. NotYetFreed'
    BY <1>2 DEF IInv, Freeing, NotYetFreed, Link, Dead, Table
  <2>3. FreedAtMostOnce'
    <3>1. Waiter(h) \notin resumed => frees[h] = 0
      BY <1>3 DEF IInv, Freeing, PendingCurrent, Pending
    <3>2. QED
      BY <1>2, <3>1 DEF IInv, Freeing, FreedAtMostOnce, Waiter
  <2>4. HeadKnown'
    BY <1>2 DEF HeadKnown, h
  <2>5. QED
    BY <2>1, <2>2, <2>3, <2>4 DEF Freeing
<1>8. Answering'
  <2>1. OwnTarget'
    BY <1>2, <1>3 DEF IInv, Answering, OwnTarget, Link, Gone, Table
  <2>2. WokenAnswered' /\ AnswersTrue'
    BY <1>2 DEF IInv, Answering, WokenAnswered, AnswersTrue, Link, Gone, Table
  <2>3. QED
    BY <2>1, <2>2 DEF Answering
<1>9. Ending'
  BY <1>2 DEF IInv, Ending, EndedOutside, DeletedOutside, WholeDetached, Table
<1>10. QED
  BY <1>1, <1>5, <1>6, <1>7, <1>8, <1>9 DEF IInv

LEMMA RouseKeeps ==
    ASSUME IInv, Next, Rouse
    PROVE  IInv'
<1> DEFINE h == Head(walk)
           w == Waiter(h)
           found == w \in Attached(Home[w]) /\ (Home[w] = gc.owner \/ Home[w] \in Table)
<1>1. Typed'
  BY CollectorTyped DEF IInv, Collector
<1>2. /\ pc' = pc /\ target' = target /\ serial' = serial /\ result' = result
      /\ waits' = waits /\ walk' = walk /\ frees' = frees /\ resumed' = resumed
      /\ life' = life /\ due' = due /\ answered' = answered /\ stray' = stray /\ cut' = cut
      /\ gc.phase = "rouse" /\ gc'.phase = "advance" /\ gc'.whole = gc.whole /\ gc'.owner = gc.owner
      /\ walk # << >>
  BY DEF Rouse, Moved, calls, links, IInv, Typed, TypeOK, HeadThere
<1>3. /\ h \in Links /\ w \in Threads /\ In(h, walk) /\ ~OnList(h) /\ ToCome(h)
      /\ ~In(h, Tail(walk)) /\ \A l : In(l, Tail(walk)) => In(l, walk)
      /\ h \in answered
  BY <1>2, AtHead DEF ToCome, IInv, Freeing, HeadKnown
<1>4. gc'.found => found
  BY DEF Rouse, Moved
<1>5. \/ status' = status /\ revived' = revived
      \/ /\ status[w] # "deleted" /\ status'[w] = "running"
         /\ \A t \in Threads : t # w => status'[t] = status[t]
         /\ revived \subseteq revived'
         /\ status[w] = "finished" => w \in revived'
  BY DEF Rouse, Attached, IInv, Typed, TypeOK
<1>6. ~gc'.found => Dead(w)
  BY <1>3 DEF Rouse, Moved, Dead, Attached
<1> HIDE DEF h, w, found
<1>7. (\A l : OnList(l)' <=> OnList(l)) /\ Fresh' /\ Unique'
  BY <1>2 DEF OnList, IInv, Fresh, Unique, Waiter
<1>8. \A l : Pending(l)' => Pending(l) /\ l # h
  BY <1>2, <1>3, <1>7 DEF Pending, ToCome
<1>9. w \notin resumed => h = Link(w) /\ frees[h] = 0
  BY <1>3 DEF IInv, Freeing, PendingCurrent, Pending, w
<1>10. \A t \in Threads : status'[t] = "deleted" <=> status[t] = "deleted"
  BY <1>5
<1>11. (\A t \in Threads : Dead(t)' <=> Dead(t)) /\ (\A y : Gone(y)' <=> Gone(y))
  BY <1>2, <1>10 DEF Dead, Gone, Table
<1>12. Freeing'
  <2>1. PendingCurrent'
    <3>1. ASSUME NEW l \in Links, Waiter(l) \notin resumed, Pending(l)'
          PROVE  /\ l = Link(Waiter(l)) /\ frees[l] = 0
                 /\ pc[Waiter(l)] = "gap" \/ (pc[Waiter(l)] = "parked" /\ status'[Waiter(l)] # "running")
      <4>1. /\ l = Link(Waiter(l)) /\ frees[l] = 0 /\ Waiter(l) \in Threads
            /\ pc[Waiter(l)] = "gap" \/ (pc[Waiter(l)] = "parked" /\ status[Waiter(l)] # "running")
        BY <1>8, <3>1, LinkParts DEF IInv, Typed, Freeing, PendingCurrent
      <4>2. Waiter(l) # w
        BY <1>8, <1>9, <3>1, <4>1
      <4>3. QED
        BY <1>5, <4>1, <4>2
    <3>2. QED
      BY <1>2, <3>1 DEF PendingCurrent, Waiter, Link
  <2>2. NotYetFreed' /\ FreedAtMostOnce'
    BY <1>2, <1>11 DEF IInv, Freeing, NotYetFreed, FreedAtMostOnce, Link, Waiter
  <2>3. HeadKnown'
    BY <1>2, <1>3, <1>6, <1>9, <1>11 DEF HeadKnown, Waiter, h, w
  <2>4. QED
    BY <2>1, <2>2, <2>3 DEF Freeing
<1>13. Answering'
  <2>1. OwnTarget' /\ AnswersTrue'
    BY <1>2, <1>11 DEF IInv, Answering, OwnTarget, AnswersTrue, Link
  <2>2. WokenAnswered'
    <3>1. SUFFICES ASSUME NEW t \in Threads, t \notin resumed,
                          pc[t] = "back" \/ (pc[t] = "parked" /\ status'[t] = "running")
                   PROVE  Link(t) \in answered
      BY <1>2 DEF WokenAnswered, Link
    <3>2. CASE t = w
      BY <1>3, <1>9, <3>1, <3>2
    <3>3. CASE t # w
      BY <1>5, <3>1, <3>3 DEF IInv, Answering, WokenAnswered
    <3>4. QED
      BY <3>2, <3>3
  <2>3. QED
    BY <2>1, <2>2 DEF Answering
<1>14. Ending'
  <2>0. (\A t \in Threads : status'[t] = status[t] \/ t = w) /\ revived \subseteq revived'
        /\ (status'[w] = status[w] \/ (status'[w] = "running" /\ (status[w] = "finished" => w \in revived')))
        /\ due \subseteq Threads
    BY <1>5 DEF IInv, Typed, TypeOK
  <2>1. DeletedOutside' /\ WholeDetached'
    BY <1>2, <1>10, <2>0 DEF IInv, Ending, DeletedOutside, WholeDetached, Table
  <2>2. /\ \A t \in Threads : status'[t] = "finished" /\ pc[t] \in Inside => t \in revived' \cup cut'
        /\ \A t \in Threads : Home[t] \notin Table /\ status'[t] # "deleted" => pc[t] \notin Inside
    BY <1>2, <1>10, <2>0 DEF IInv, Ending, EndedOutside
  <2>3. \A t \in due : status'[t] \in {"finished", "deleted"} \/ t \in revived'
    BY <1>10, <2>0 DEF IInv, Ending, EndedOutside
  <2>4. QED
    BY <1>2, <2>1, <2>2, <2>3 DEF Ending, EndedOutside, Table, Inside
<1>15. QED
  BY <1>1, <1>7, <1>12, <1>13, <1>14 DEF IInv

LEMMA AdvanceKeeps ==
    ASSUME IInv, Next, Advance
    PROVE  IInv'
<1> DEFINE h == Head(walk)
<1>1. Typed'
  BY CollectorTyped DEF IInv, Collector
<1>2. /\ pc' = pc /\ target' = target /\ serial' = serial /\ result' = result
      /\ waits' = waits /\ resumed' = resumed /\ revived' = revived /\ cut' = cut /\ status' = status
      /\ life' = life /\ due' = due /\ answered' = answered /\ stray' = stray
      /\ gc.phase = "advance" /\ gc'.phase = "mark" /\ gc'.whole = gc.whole /\ gc'.owner = gc.owner
      /\ walk # << >> /\ (walk' = Tail(walk) \/ walk' = << >>)
  BY DEF Advance, Moved, calls, IInv, Typed, TypeOK, HeadThere
<1>3. /\ h \in Links /\ Waiter(h) \in Threads /\ In(h, walk) /\ ~OnList(h)
      /\ ~In(h, Tail(walk)) /\ NoRepeats(Tail(walk)) /\ \A l : In(l, Tail(walk)) => In(l, walk)
  BY <1>2, AtHead
<1>4. \/ frees' = frees
      \/ /\ ~gc.found /\ frees'[h] = frees[h] + 1
         /\ \A l \in Links : l # h => frees'[l] = frees[l]
  BY <1>3 DEF Advance, IInv, Typed, TypeOK
<1>5. ~gc.found => Dead(Waiter(h)) /\ (Waiter(h) \notin resumed => frees[h] = 0)
  BY <1>2 DEF IInv, Freeing, HeadKnown
<1> HIDE DEF h
<1>6. (\A l : OnList(l)' <=> OnList(l)) /\ (\A l : In(l, walk') => In(l, Tail(walk)))
  BY <1>2, InNone DEF OnList
<1>7. \A l : Pending(l)' => Pending(l) /\ l # h
  BY <1>2, <1>3, <1>6 DEF Pending, ToCome
<1>8. Fresh'
  <2>1. \A l \in Links : l[2] > serial[Waiter(l)] => l # h
    BY <1>3 DEF IInv, Fresh
  <2>2. \A l \in Links : l # h => frees'[l] = frees[l]
    BY <1>4
  <2>3. QED
    BY <1>2, <1>3, <1>6, <2>1, <2>2 DEF IInv, Fresh, Waiter
<1>9. Unique'
  BY <1>2, <1>3, <1>6, InNone DEF IInv, Unique
<1>10. Freeing'
  <2>1. PendingCurrent'
    BY <1>2, <1>4, <1>7 DEF IInv, Freeing, PendingCurrent, Waiter, Link
  <2>2. NotYetFreed'
    <3>1. SUFFICES ASSUME NEW t \in Threads, t \notin resumed, pc[t] \in Underway, ~Dead(t)
                   PROVE  frees'[Link(t)] = 0
      BY <1>2 DEF NotYetFreed, Link, Dead, Table
    <3>2. frees[Link(t)] = 0
      BY <3>1 DEF IInv, Freeing, NotYetFreed
    <3>3. CASE frees' = frees
      BY <3>2, <3>3
    <3>4. CASE ~gc.found
      <4>1. Link(t) # h
        BY <1>5, <3>1, <3>4 DEF Link, Waiter
      <4>2. frees' = [frees EXCEPT ![h] = @ + 1]
        BY <3>4 DEF Advance, h
      <4>3. QED
        BY <3>2, <4>1, <4>2 DEF IInv, Typed, TypeOK
    <3>5. QED
      BY <1>4, <3>3, <3>4
  <2>3. FreedAtMostOnce'
    BY <1>2, <1>4, <1>5 DEF IInv, Freeing, FreedAtMostOnce, Waiter
  <2>4. HeadKnown'
    BY <1>2 DEF HeadKnown
  <2>5. QED
    BY <2>1, <2>2, <2>3, <2>4 DEF Freeing
<1>11. Answering'
  BY <1>2, <1>3, <1>6
  DEF IInv, Answering, OwnTarget, WokenAnswered, AnswersTrue, Link, Gone, Table
<1>12. Ending'
  BY <1>2 DEF IInv, Ending, EndedOutside, DeletedOutside, WholeDetached, Table
<1>13. QED
  BY <1>1, <1>8, <1>9, <1>10, <1>11, <1>12 DEF IInv
-----------------------------------------------------------------------------
LEMMA InitIInv == Init => IInv
<1> SUFFICES ASSUME Init PROVE IInv
  OBVIOUS
<1> USE NamesAssumption, BoundsAssumption
<1>1. \A l : ~OnList(l) /\ ~In(l, walk)
  BY InNone DEF Init, OnList
<1>2. Typed
  <2>1. << >> \in Seq(Links)
    BY EmptySeq
  <2>2. gc \in [phase : Phases, owner : Procs, whole : BOOLEAN, found : BOOLEAN]
    BY IdleTyped DEF Init
  <2>3. gc.phase = "idle"
    BY DEF Init, IdleGC
  <2>4. QED
    BY <2>1, <2>2, <2>3 DEF Init, Typed, TypeOK, CallsBounded, HeadThere, Places
<1>3. Fresh /\ Unique
  BY <1>1, InNone DEF Init, Fresh, Unique, OnList
<1>4. gc.phase = "idle" /\ Table = Procs
  BY DEF Init, IdleGC, Table
<1>5. \A l : ~Pending(l)
  BY <1>1, <1>4 DEF Pending, ToCome
<1>6. Freeing
  BY <1>4, <1>5 DEF Init, Freeing, PendingCurrent, NotYetFreed, FreedAtMostOnce, HeadKnown, Underway
<1>7. Answering
  BY DEF Init, Answering, OwnTarget, WokenAnswered, AnswersTrue, Underway
<1>8. Ending
  BY <1>4 DEF Init, Ending, EndedOutside, DeletedOutside, WholeDetached, Inside
<1>9. QED
  BY <1>2, <1>3, <1>6, <1>7, <1>8 DEF IInv

LEMMA StutterIInv == IInv /\ UNCHANGED vars => IInv'
<1> SUFFICES ASSUME IInv, UNCHANGED vars PROVE IInv'
  OBVIOUS
<1>1. /\ UNCHANGED <<life, status, pc, target, serial, waits, answered, frees, result>>
      /\ UNCHANGED <<due, gc, walk, missed, resumed, stray, torn, revived, cut>>
  BY DEF vars, calls, links, history
<1>2. Typed'
  BY <1>1 DEF IInv, Typed, TypeOK, CallsBounded, HeadThere
<1>3. Fresh' /\ Unique'
  BY <1>1 DEF IInv, Fresh, Unique, OnList
<1>4. Freeing'
  BY <1>1 DEF IInv, Freeing, PendingCurrent, NotYetFreed, FreedAtMostOnce, HeadKnown, Pending,
     OnList, ToCome, Dead, Table, Link
<1>5. Answering'
  BY <1>1 DEF IInv, Answering, OwnTarget, WokenAnswered, AnswersTrue, Gone, Table, Link
<1>6. Ending'
  BY <1>1 DEF IInv, Ending, EndedOutside, DeletedOutside, WholeDetached, Table
<1>7. QED
  BY <1>2, <1>3, <1>4, <1>5, <1>6 DEF IInv

LEMMA NextIInv == IInv /\ [Next]_vars => IInv'
<1> SUFFICES ASSUME IInv, Next PROVE IInv'
  BY StutterIInv
<1>1. CASE Collector
  <2>1. ASSUME NEW u \in Threads, CollectThread(u) PROVE IInv'
    BY <2>1, CollectThreadKeeps
  <2>2. ASSUME NEW p \in Procs, CollectProcess(p) PROVE IInv'
    BY <2>2, CollectProcessKeeps
  <2>3. CASE Mark
    BY <2>3, MarkKeeps
  <2>4. CASE Rouse
    BY <2>4, RouseKeeps
  <2>5. CASE Advance
    BY <2>5, AdvanceKeeps
  <2>6. CASE Done
    BY <2>6, DoneKeeps
  <2>7. CASE Proceed
    BY <2>7, ProceedKeeps
  <2>8. QED
    BY <1>1, <2>1, <2>2, <2>3, <2>4, <2>5, <2>6, <2>7 DEF Collector
<1>2. ASSUME NEW t \in Threads, Wait(t) \/ Refuse(t) \/ Park(t) \/ Resume(t) PROVE IInv'
  BY <1>2, QuietMoves
<1>3. ASSUME NEW t \in Threads, Enlist(t) PROVE IInv'
  BY <1>3, EnlistKeeps
<1>4. ASSUME NEW t \in Threads, Return(t) PROVE IInv'
  BY <1>4, ReturnKeeps
<1>5. ASSUME NEW t \in Threads, Others(t) PROVE IInv'
  BY <1>5, OthersKeep
<1>6. QED
  BY <1>1, <1>2, <1>3, <1>4, <1>5 DEF Next, Waiting, Others

LEMMA Invariance == Spec => []IInv
BY InitIInv, NextIInv, PTL DEF Spec

(* Every variable keeps its type.                                           *)
THEOREM TypeCorrect == Spec => []TypeOK
<1>1. IInv => TypeOK
  BY DEF IInv, Typed
<1>2. QED
  BY <1>1, Invariance, PTL

(* A link is freed once, by its waiter or by the collector that found the   *)
(* waiter gone, and never while it is listed or to be answered, where no    *)
(* peer set the waiter running (waits.c:79, waits.c:216).                   *)
THEOREM LinksFreedOnce == Spec => []FreedOnce
<1>1. IInv => FreedOnce
  <2>1. SUFFICES ASSUME IInv, NEW l \in Links, Waiter(l) \notin resumed
                 PROVE  /\ frees[l] <= 1 /\ l \notin stray
                        /\ \A x \in Targets : frees[l] > 0 => ~In(l, waits[x])
    BY DEF FreedOnce, In
  <2>2. frees[l] \in Nat
    BY <2>1 DEF IInv, Typed, TypeOK
  <2>3. QED
    BY <2>1, <2>2 DEF IInv, Freeing, FreedAtMostOnce, PendingCurrent, Pending, OnList
<1>2. QED
  BY <1>1, Invariance, PTL

(* Who is told that its target died, or was not there, waited for one that  *)
(* is gone; a wait fails only for a thread that a peer set running.         *)
THEOREM AnswersAreTrue == Spec => []AnswersTrue
<1>1. IInv => AnswersTrue
  BY DEF IInv, Answering
<1>2. QED
  BY <1>1, Invariance, PTL

(* The collector deletes no thread that is in the kernel, unless a peer     *)
(* ended it there (syscalls.c:326) or the collector set it running after    *)
(* its end (waits.c:203).                                                   *)
THEOREM DeletedAreOutside == Spec => []DeletedOutside
<1>1. IInv => DeletedOutside
  BY DEF IInv, Ending
<1>2. QED
  BY <1>1, Invariance, PTL
=============================================================================
