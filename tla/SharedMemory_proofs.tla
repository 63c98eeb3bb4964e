------------------------ MODULE SharedMemory_proofs ------------------------
(***************************************************************************)
(* What shared memory promises for any processes and regions: a user who is *)
(* revoked keeps a scratch copy only, every checkout of a deletion comes    *)
(* back, and the dead leave nothing but orphans. The proofs rest on who      *)
(* owns a region that is being deleted: from the moment it leaves the table  *)
(* its infos are its deleter's alone, who finds in them whom to commit.      *)
(***************************************************************************)
EXTENDS SharedMemory, SequenceTheorems, FiniteSetTheorems, WellFoundedInduction, TLAPS

InfoType == [pid : Procs, usage : -1..MaxUsage, mapped : BOOLEAN, tmp : BOOLEAN, tmp2 : BOOLEAN]

(* Where an actor is in the kernel says what it does. *)
Deleter(a) == job[a].op = "delete"
JobsMatch ==
    \A a \in Actors :
        /\ pc[a] = "wantProc" => job[a].op # "none" /\ job[a].target \in Procs
        /\ pc[a] \in {"visit", "drop", "freed"} => Deleter(a)
        /\ pc[a] \in {"user", "out", "idle", "clean"} => job[a] = NoJob

(* A process that has ended makes no more calls. *)
EndedAreOut == \A p \in Procs : life[p] # "live" => pc[p] = "out"

(* Who deletes a region is alone with it, and stands in its list. *)
StandsIn(a) ==
    Deleter(a) =>
        /\ job[a].region \in Regions /\ region[job[a].region].status = "gone"
        /\ job[a].at \in Nat \ {0}
        /\ pc[a] = "wantProc" => job[a].at \in DOMAIN Infos(a) /\ Current(a).pid = job[a].target
DeletersStand == \A a \in Actors : StandsIn(a)
DeletersApart ==
    \A a, b \in Actors : Deleter(a) /\ Deleter(b) /\ job[a].region = job[b].region => a = b

(* A user is listed once, and marked by a deletion only. *)
ListedOnce ==
    \A r \in Regions : \A i, j \in DOMAIN infos[r] : infos[r][i].pid = infos[r][j].pid => i = j
MarkedByDeletion ==
    \A r \in Regions : region[r].status # "gone" => \A i \in DOMAIN infos[r] : ~infos[r][i].tmp

(* What is mapped is counted, but for those who released too often. *)
Miscounted(info) == info.usage < 0 \/ (info.usage = 0 /\ info.mapped)
UsageMatches ==
    \A r \in Regions : \A i \in DOMAIN infos[r] :
        Miscounted(infos[r][i]) => <<r, infos[r][i].pid>> \in overdrawn

(* A deletion has checked out whom it passed, with or without scratch area. *)
Visited(a) ==
    Deleter(a) => \A i \in DOMAIN Infos(a) :
        /\ Infos(a)[i].tmp /\ ~Infos(a)[i].tmp2 => <<job[a].region, Infos(a)[i].pid>> \in starved
        /\ /\ pc[a] \in {"visit", "wantProc"} /\ i < job[a].at
           /\ Infos(a)[i].usage > 0 /\ InTable(Infos(a)[i].pid)
           => Infos(a)[i].tmp
UsersVisited == \A a \in Actors : Visited(a)

(* Whom a deletion is going to commit it has checked out, *)
DropsOwn(a) == Deleter(a) => \A i \in ToDrop(a) : held[Infos(a)[i].pid] = a
DropsTheirs == \A a \in Actors : DropsOwn(a)

(* and whoever has been checked out is going to be committed. *)
GoesBack(p) ==
    held[p] # Nobody => Deleter(held[p]) /\ \E i \in ToDrop(held[p]) : Infos(held[p])[i].pid = p
HeldReturned == \A p \in Procs \ lost : GoesBack(p)

(* Holders and waiters are the readers of the list, which no writer keeps. *)
HeldOnes == {p \in Procs : held[p] # Nobody}
Wanting == {a \in Actors : pc[a] = "wantProc"}
ReadersCounted == list.readers = Cardinality(HeldOnes) + Cardinality(Wanting)
NoWriterStays == list.writers = 0

IInv ==
    /\ TypeOK /\ JobsMatch /\ EndedAreOut /\ DeletersStand /\ DeletersApart
    /\ ListedOnce /\ MarkedByDeletion /\ UsageMatches /\ UsersVisited
    /\ DropsTheirs /\ HeldReturned /\ ReadersCounted /\ NoWriterStays
    /\ OnlyScratchLeft /\ DeadLeaveOrphans
-----------------------------------------------------------------------------
(* Sequences, as they are used here. *)
LEMMA PushedInFront ==
    ASSUME NEW S, NEW e \in S, NEW s \in Seq(S)
    PROVE  /\ <<e>> \o s \in Seq(S) /\ DOMAIN (<<e>> \o s) = 1..(Len(s) + 1)
           /\ \A i \in DOMAIN (<<e>> \o s) :
                \/ i = 1 /\ (<<e>> \o s)[i] = e
                \/ i - 1 \in DOMAIN s /\ (<<e>> \o s)[i] = s[i - 1]
<1>1. <<e>> \in Seq(S) /\ Len(<<e>>) = 1 /\ <<e>>[1] = e
  OBVIOUS
<1>2. <<e>> \o s \in Seq(S) /\ Len(<<e>> \o s) = 1 + Len(s)
      /\ \A i \in 1..(1 + Len(s)) : (<<e>> \o s)[i] = IF i <= 1 THEN <<e>>[i] ELSE s[i - 1]
  BY <1>1, ConcatProperties
<1>3. Len(s) \in Nat /\ DOMAIN s = 1..Len(s) /\ DOMAIN (<<e>> \o s) = 1..Len(<<e>> \o s)
  BY <1>2, LenProperties
<1>4. QED
  BY <1>1, <1>2, <1>3

LEMMA TakenOut ==
    ASSUME NEW S, NEW s \in Seq(S), NEW k \in DOMAIN s
    PROVE  /\ Without(s, k) \in Seq(S) /\ DOMAIN Without(s, k) = 1..(Len(s) - 1)
           /\ \A i \in DOMAIN Without(s, k) :
                LET j == IF i < k THEN i ELSE i + 1
                IN  j \in DOMAIN s /\ j # k /\ Without(s, k)[i] = s[j]
<1> DEFINE n == Len(s)
           a == SubSeq(s, 1, k - 1)
           b == SubSeq(s, k + 1, n)
<1>1. n \in Nat /\ DOMAIN s = 1..n /\ k \in 1..n
  BY LenProperties
<1>2. a \in Seq(S) /\ Len(a) = k - 1 /\ \A i \in 1..(k - 1) : a[i] = s[i]
  BY <1>1
<1>3. b \in Seq(S) /\ Len(b) = n - k /\ \A i \in 1..(n - k) : b[i] = s[k + i]
  BY <1>1
<1> HIDE DEF n, a, b
<1>4. /\ a \o b \in Seq(S) /\ Len(a \o b) = Len(a) + Len(b)
      /\ \A i \in 1..(Len(a) + Len(b)) : (a \o b)[i] = IF i <= Len(a) THEN a[i] ELSE b[i - Len(a)]
  BY <1>2, <1>3, ConcatProperties
<1>5. Len(a) + Len(b) = n - 1
  BY <1>1, <1>2, <1>3
<1>6. DOMAIN (a \o b) = 1..(n - 1)
  BY <1>4, <1>5, LenProperties
<1>7. ASSUME NEW i \in 1..(n - 1)
      PROVE  LET j == IF i < k THEN i ELSE i + 1
             IN  j \in 1..n /\ j # k /\ (a \o b)[i] = s[j]
  <2>1. CASE i < k
    BY <1>1, <1>2, <1>4, <1>5, <2>1
  <2>2. CASE ~(i < k)
    <3>1. (a \o b)[i] = b[i - (k - 1)] /\ i - (k - 1) \in 1..(n - k)
      BY <1>1, <1>2, <1>4, <1>5, <2>2
    <3>2. b[i - (k - 1)] = s[i + 1]
      <4>1. b[i - (k - 1)] = s[k + (i - (k - 1))]
        BY <1>3, <3>1
      <4>2. k + (i - (k - 1)) = i + 1
        BY <1>1
      <4>3. QED
        BY <4>1, <4>2
    <3>3. QED
      BY <1>1, <2>2, <3>1, <3>2
  <2>3. QED
    BY <2>1, <2>2
<1>8. Without(s, k) = a \o b
  BY DEF Without, n, a, b
<1>9. QED
  BY <1>1, <1>4, <1>6, <1>7, <1>8 DEF n

LEMMA InfosTyped ==
    ASSUME TypeOK, NEW r \in Regions
    PROVE  /\ infos[r] \in Seq(InfoType) /\ Len(infos[r]) \in Nat /\ DOMAIN infos[r] = 1..Len(infos[r])
           /\ \A i \in DOMAIN infos[r] : infos[r][i] \in InfoType /\ infos[r][i].pid \in Procs
<1>1. infos[r] \in Seq(InfoType)
  BY DEF TypeOK, InfoType
<1>2. \A i \in DOMAIN infos[r] : infos[r][i] \in InfoType
  BY <1>1, ElementOfSeq, LenProperties
<1>3. QED
  BY <1>1, <1>2, LenProperties DEF InfoType

LEMMA PlaceFound ==
    ASSUME NEW r \in Regions, NEW p \in Procs, Listed(r, p)
    PROVE  Place(r, p) \in DOMAIN infos[r] /\ infos[r][Place(r, p)].pid = p
BY DEF Listed, Place

LEMMA CountsTyped ==
    ASSUME NEW info \in InfoType
    PROVE  /\ info.usage < MaxUsage =>
                /\ Used(info) \in InfoType /\ Used(info).pid = info.pid /\ Used(info).tmp = info.tmp
                /\ Used(info).usage = info.usage + 1
           /\ info.usage >= 0 =>
                /\ Returned(info) \in InfoType /\ Returned(info).pid = info.pid
                /\ Returned(info).tmp = info.tmp /\ Returned(info).usage = info.usage - 1
                /\ Returned(info).mapped = (info.mapped /\ info.usage # 1)
<1>1. info.usage \in -1..MaxUsage
  BY DEF InfoType
<1>2. info.usage < MaxUsage => info.usage + 1 \in -1..MaxUsage
  BY <1>1, BoundsAssumption
<1>3. info.usage >= 0 => info.usage - 1 \in -1..MaxUsage
  BY <1>1, BoundsAssumption
<1>4. QED
  BY <1>2, <1>3 DEF Used, Returned, InfoType

LEMMA NewInfoTyped ==
    ASSUME NEW p \in Procs
    PROVE  /\ Info(p) \in InfoType /\ Used(Info(p)) \in InfoType
           /\ \A info \in {Info(p), Used(Info(p))} :
                info.pid = p /\ ~info.tmp /\ ~Miscounted(info)
<1>1. 0 \in -1..MaxUsage /\ 0 < MaxUsage
  BY BoundsAssumption
<1>2. /\ Info(p) \in InfoType /\ Info(p).pid = p /\ ~Info(p).tmp
      /\ Info(p).usage = 0 /\ ~Info(p).mapped
  BY <1>1 DEF Info, InfoType
<1>3. /\ Used(Info(p)) \in InfoType /\ Used(Info(p)).pid = p /\ ~Used(Info(p)).tmp
      /\ Used(Info(p)).usage = 1
  BY <1>1, <1>2, CountsTyped
<1>4. QED
  BY <1>2, <1>3 DEF Miscounted

(* What a call may do to the infos of a region that is in the table: a new   *)
(* one in front, one taken out, or one of them counted.                      *)
Pushes(r, p) == \E info \in {Info(p), Used(Info(p))} :
    /\ ~Listed(r, p) /\ infos' = [infos EXCEPT ![r] = <<info>> \o @]
Drops(r, p) == Listed(r, p) /\ infos' = [infos EXCEPT ![r] = Without(@, Place(r, p))]
Counts(r, p) ==
    /\ Listed(r, p)
    /\ \/ /\ infos[r][Place(r, p)].usage < MaxUsage
          /\ infos' = [infos EXCEPT ![r][Place(r, p)] = Used(@)]
          /\ UNCHANGED overdrawn
       \/ /\ infos[r][Place(r, p)].usage >= 0
          /\ infos' = [infos EXCEPT ![r][Place(r, p)] = Returned(@)]
          /\ infos[r][Place(r, p)].usage = 0 => <<r, p>> \in overdrawn'
-----------------------------------------------------------------------------
(* The three facts about the infos of regions survive a call, and one that   *)
(* is in the table has its infos changed alone.                              *)
InfosSound == ListedOnce /\ MarkedByDeletion /\ UsageMatches
GoneStay == \A r \in Regions : region[r].status = "gone" => infos'[r] = infos[r]

Moves(r, p) == Live(r) /\ (Pushes(r, p) \/ Drops(r, p) \/ Counts(r, p))

LEMMA PushKeeps ==
    ASSUME TypeOK, InfosSound, NEW r \in Regions, NEW p \in Procs, Live(r), Pushes(r, p),
           region' = region, overdrawn \subseteq overdrawn'
    PROVE  infos' \in [Regions -> Seq(InfoType)] /\ InfosSound' /\ GoneStay
<1>1. PICK info \in {Info(p), Used(Info(p))} : ~Listed(r, p) /\ infos' = [infos EXCEPT ![r] = <<info>> \o @]
  BY DEF Pushes
<1>2. info \in InfoType /\ info.pid = p /\ ~info.tmp /\ ~Miscounted(info)
  BY <1>1, NewInfoTyped
<1> DEFINE s == infos[r]
           t == <<info>> \o s
<1>3. s \in Seq(InfoType) /\ \A i \in DOMAIN s : s[i].pid # p
  BY <1>1, InfosTyped DEF Listed
<1>4. /\ t \in Seq(InfoType) /\ DOMAIN t = 1..(Len(s) + 1)
      /\ \A i \in DOMAIN t : \/ i = 1 /\ t[i] = info
                             \/ i - 1 \in DOMAIN s /\ t[i] = s[i - 1]
  BY <1>2, <1>3, PushedInFront
<1> HIDE DEF t
<1>5. infos' = [infos EXCEPT ![r] = t] /\ infos \in [Regions -> Seq(InfoType)]
  BY <1>1 DEF t, TypeOK, InfoType
<1>6. infos'[r] = t /\ \A q \in Regions \ {r} : infos'[q] = infos[q]
  BY <1>5
<1>7. \A i, j \in DOMAIN t : t[i].pid = t[j].pid => i = j
  <2> SUFFICES ASSUME NEW i \in DOMAIN t, NEW j \in DOMAIN t, t[i].pid = t[j].pid PROVE i = j
    OBVIOUS
  <2>1. Len(s) \in Nat /\ i \in Int /\ j \in Int
    BY <1>3, <1>4, LenProperties
  <2>2. CASE i = 1 /\ t[i] = info
    BY <1>2, <1>3, <1>4, <2>2
  <2>3. CASE i - 1 \in DOMAIN s /\ t[i] = s[i - 1]
    <3>1. t[j].pid # p
      BY <1>3, <2>3
    <3>2. j - 1 \in DOMAIN s /\ t[j] = s[j - 1]
      BY <1>2, <1>4, <3>1
    <3>3. i - 1 = j - 1
      BY <2>3, <3>2 DEF InfosSound, ListedOnce
    <3>4. QED
      BY <2>1, <3>3
  <2>4. QED
    BY <1>4, <2>2, <2>3
<1>8. ListedOnce'
  BY <1>6, <1>7 DEF InfosSound, ListedOnce
<1>9. MarkedByDeletion'
  BY <1>2, <1>4, <1>6 DEF InfosSound, MarkedByDeletion, Live
<1>10. UsageMatches'
  <2>1. ASSUME NEW i \in DOMAIN t, Miscounted(t[i]) PROVE <<r, t[i].pid>> \in overdrawn'
    <3>1. i - 1 \in DOMAIN s /\ t[i] = s[i - 1]
      BY <1>2, <1>4, <2>1
    <3>2. QED
      BY <2>1, <3>1 DEF InfosSound, UsageMatches
  <2>2. \A q \in Regions \ {r} : \A i \in DOMAIN infos'[q] : Miscounted(infos'[q][i]) => <<q, infos'[q][i].pid>> \in overdrawn'
    BY <1>6 DEF InfosSound, UsageMatches
  <2>3. QED
    BY <1>6, <2>1, <2>2 DEF UsageMatches
<1>11. QED
  BY <1>4, <1>5, <1>6, <1>8, <1>9, <1>10 DEF InfosSound, GoneStay, Live

LEMMA DropKeeps ==
    ASSUME TypeOK, InfosSound, NEW r \in Regions, NEW p \in Procs, Live(r), Drops(r, p),
           region' = region, overdrawn \subseteq overdrawn'
    PROVE  infos' \in [Regions -> Seq(InfoType)] /\ InfosSound' /\ GoneStay
<1> DEFINE s == infos[r]
           k == Place(r, p)
           t == Without(s, k)
<1>1. s \in Seq(InfoType) /\ k \in DOMAIN s
  BY InfosTyped, PlaceFound DEF Drops
<1>2. /\ t \in Seq(InfoType) /\ DOMAIN t = 1..(Len(s) - 1)
      /\ \A i \in DOMAIN t : LET j == IF i < k THEN i ELSE i + 1
                             IN  j \in DOMAIN s /\ t[i] = s[j]
  BY <1>1, TakenOut
<1>3. Len(s) \in Nat /\ k \in Nat
  BY <1>1, LenProperties
<1> HIDE DEF t, k
<1>4. infos' = [infos EXCEPT ![r] = t] /\ infos \in [Regions -> Seq(InfoType)]
  BY DEF Drops, t, k, TypeOK, InfoType
<1>5. infos'[r] = t /\ \A q \in Regions \ {r} : infos'[q] = infos[q]
  BY <1>4
<1>6. \A i, j \in DOMAIN t : t[i].pid = t[j].pid => i = j
  <2> SUFFICES ASSUME NEW i \in DOMAIN t, NEW j \in DOMAIN t, t[i].pid = t[j].pid PROVE i = j
    OBVIOUS
  <2> DEFINE m == IF i < k THEN i ELSE i + 1
             n == IF j < k THEN j ELSE j + 1
  <2>1. m \in DOMAIN s /\ t[i] = s[m] /\ n \in DOMAIN s /\ t[j] = s[n]
    BY <1>2
  <2>2. m = n
    BY <2>1 DEF InfosSound, ListedOnce
  <2>3. QED
    BY <1>2, <1>3, <2>2
<1>7. ListedOnce'
  BY <1>5, <1>6 DEF InfosSound, ListedOnce
<1>8. MarkedByDeletion'
  BY <1>2, <1>5 DEF InfosSound, MarkedByDeletion, Live
<1>9. UsageMatches'
  BY <1>2, <1>5 DEF InfosSound, UsageMatches
<1>10. QED
  BY <1>2, <1>4, <1>5, <1>7, <1>8, <1>9 DEF InfosSound, GoneStay, Live

LEMMA CountKeeps ==
    ASSUME TypeOK, InfosSound, NEW r \in Regions, NEW p \in Procs, Live(r), Counts(r, p),
           region' = region, overdrawn \subseteq overdrawn'
    PROVE  infos' \in [Regions -> Seq(InfoType)] /\ InfosSound' /\ GoneStay
<1> DEFINE s == infos[r]
           k == Place(r, p)
<1>1. s \in Seq(InfoType) /\ k \in DOMAIN s /\ s[k] \in InfoType /\ s[k].pid = p
  BY InfosTyped, PlaceFound DEF Counts
<1>2. PICK info : /\ infos' = [infos EXCEPT ![r][k] = info]
                  /\ info \in InfoType /\ info.pid = p /\ info.tmp = s[k].tmp
                  /\ Miscounted(info) => <<r, p>> \in overdrawn'
  <2>1. CASE /\ s[k].usage < MaxUsage
             /\ infos' = [infos EXCEPT ![r][k] = Used(@)]
    <3>1. infos' = [infos EXCEPT ![r][k] = Used(s[k])]
      BY <2>1
    <3>2. Miscounted(Used(s[k])) => Miscounted(s[k])
      BY <1>1, <2>1, CountsTyped DEF Miscounted, InfoType
    <3>3. Miscounted(s[k]) => <<r, p>> \in overdrawn
      BY <1>1 DEF InfosSound, UsageMatches
    <3> DEFINE u == Used(s[k])
    <3>4. u \in InfoType /\ u.pid = p /\ u.tmp = s[k].tmp /\ infos' = [infos EXCEPT ![r][k] = u]
      BY <1>1, <2>1, <3>1, CountsTyped
    <3>5. Miscounted(u) => <<r, p>> \in overdrawn'
      BY <3>2, <3>3
    <3> HIDE DEF u
    <3>6. QED
      BY <3>4, <3>5
  <2>2. CASE /\ s[k].usage >= 0
             /\ infos' = [infos EXCEPT ![r][k] = Returned(@)]
             /\ s[k].usage = 0 => <<r, p>> \in overdrawn'
    <3>1. infos' = [infos EXCEPT ![r][k] = Returned(s[k])]
      BY <2>2
    <3>2. Miscounted(Returned(s[k])) => s[k].usage = 0
      BY <1>1, <2>2, CountsTyped DEF Miscounted, InfoType
    <3> DEFINE u == Returned(s[k])
    <3>3. u \in InfoType /\ u.pid = p /\ u.tmp = s[k].tmp /\ infos' = [infos EXCEPT ![r][k] = u]
      BY <1>1, <2>2, <3>1, CountsTyped
    <3>4. Miscounted(u) => <<r, p>> \in overdrawn'
      BY <2>2, <3>2
    <3> HIDE DEF u
    <3>5. QED
      BY <3>3, <3>4
  <2>3. QED
    BY <2>1, <2>2 DEF Counts
<1> DEFINE t == [s EXCEPT ![k] = info]
<1>3. t \in Seq(InfoType) /\ DOMAIN t = DOMAIN s /\ \A i \in DOMAIN t : t[i] = IF i = k THEN info ELSE s[i]
  BY <1>1, <1>2, ExceptSeq, LenProperties
<1>4. infos' = [infos EXCEPT ![r] = t] /\ infos \in [Regions -> Seq(InfoType)]
  BY <1>2 DEF TypeOK, InfoType
<1> HIDE DEF t, k
<1>5. infos'[r] = t /\ \A q \in Regions \ {r} : infos'[q] = infos[q]
  BY <1>4
<1>6. ListedOnce'
  BY <1>1, <1>2, <1>3, <1>5 DEF InfosSound, ListedOnce
<1>7. MarkedByDeletion'
  BY <1>1, <1>2, <1>3, <1>5 DEF InfosSound, MarkedByDeletion, Live
<1>8. UsageMatches'
  <2> SUFFICES ASSUME NEW q \in Regions, NEW i \in DOMAIN infos'[q], Miscounted(infos'[q][i])
               PROVE  <<q, infos'[q][i].pid>> \in overdrawn'
    BY DEF UsageMatches, Miscounted
  <2>1. CASE q = r /\ i = k
    BY <1>2, <1>3, <1>5, <2>1
  <2>2. CASE ~(q = r /\ i = k)
    <3>1. i \in DOMAIN infos[q] /\ infos'[q][i] = infos[q][i]
      BY <1>3, <1>5, <2>2
    <3>2. QED
      BY <3>1 DEF InfosSound, UsageMatches
  <2>3. QED
    BY <2>1, <2>2
<1>9. QED
  BY <1>3, <1>4, <1>5, <1>6, <1>7, <1>8 DEF InfosSound, GoneStay, Live
-----------------------------------------------------------------------------
(* A call: what processes do that delete nothing. It changes the infos of a *)
(* region in the table at most, and a caller who waited for a process gives  *)
(* the list back.                                                            *)
CallStep(a) ==
    /\ UNCHANGED <<held, life, region, starved, lost>>
    /\ reused' \subseteq Actors
    /\ overdrawn \subseteq overdrawn' /\ overdrawn' \subseteq Regions \X Procs
    /\ kept' \subseteq kept \cup overdrawn'
    /\ infos' = infos \/ \E r \in Regions, p \in Procs : Moves(r, p)
    /\ \/ UNCHANGED <<list, pc, job>>
       \/ /\ pc[a] = "wantProc" /\ job[a].op = "call"
          /\ list' = Release(list)
          /\ pc' = [pc EXCEPT ![a] = "user"] /\ job' = [job EXCEPT ![a] = NoJob]

LEMMA CommitShape ==
    ASSUME TypeOK, JobsMatch, NEW a \in Procs, Commit(a),
           User(a) \/ (pc[a] = "wantProc" /\ job[a].op = "call")
    PROVE  /\ UNCHANGED <<held, life, region>>
           /\ \/ UNCHANGED <<list, pc, job>>
              \/ /\ pc[a] = "wantProc" /\ job[a].op = "call"
                 /\ list' = Release(list)
                 /\ pc' = [pc EXCEPT ![a] = "user"] /\ job' = [job EXCEPT ![a] = NoJob]
<1>1. a \in Actors
  BY DEF Actors
<1>2. CASE User(a)
  <2>1. pc[a] = "user" /\ job[a] = NoJob
    BY <1>1, <1>2 DEF User, JobsMatch
  <2>2. pc' = pc /\ job' = job
    BY <2>1, <1>1 DEF Commit, Goto, TypeOK
  <2>3. QED
    BY <1>2, <2>2 DEF Commit
<1>3. CASE ~User(a)
  BY <1>3 DEF Commit, Goto
<1>4. QED
  BY <1>2, <1>3

LEMMA Caller ==
    ASSUME NEW a \in Procs, NEW p \in Procs, Granted(a, p)
    PROVE  User(a) \/ (pc[a] = "wantProc" /\ job[a].op = "call")
BY DEF Granted

LEMMA GrantIsCall ==
    ASSUME IInv, NEW a \in Procs, Grant(a)
    PROVE  CallStep(a)
<1>1. PICK r \in Regions, p \in Procs :
        Live(r) /\ ~Listed(r, p) /\ infos' = [infos EXCEPT ![r] = <<Info(p)>> \o @]
  BY DEF Grant
<1>2. Moves(r, p)
  BY <1>1 DEF Moves, Pushes
<1>3. reused' \subseteq Actors
  BY DEF Grant, Allocate, IInv, TypeOK
<1>4. QED
  BY <1>2, <1>3 DEF Grant, CallStep, IInv, TypeOK, history

LEMMA ServeIsCall ==
    ASSUME IInv, NEW a \in Procs, Serve(a)
    PROVE  CallStep(a)
<1> USE DEF IInv
<1>1. CASE Fail(a)
  <2>1. Commit(a) /\ pc[a] = "wantProc" /\ job[a].op = "call" /\ UNCHANGED <<infos, kept, reused, history>>
    BY <1>1 DEF Fail
  <2>2. QED
    BY <2>1, CommitShape DEF CallStep, history, TypeOK
<1>2. CASE Revoke(a)
  <2>1. PICK r \in Regions, p \in Procs :
            /\ Granted(a, p) /\ Live(r) /\ Listed(r, p)
            /\ infos' = [infos EXCEPT ![r] = Without(@, Place(r, p))]
            /\ kept' = LET info == infos[r][Place(r, p)] IN
                       IF info.mapped /\ info.usage <= 0 THEN kept \cup {<<r, p>>} ELSE kept
    BY <1>2 DEF Revoke
  <2>2. Moves(r, p)
    BY <2>1 DEF Moves, Drops
  <2>3. kept' \subseteq kept \cup overdrawn
    <3> DEFINE info == infos[r][Place(r, p)]
    <3>1. /\ Place(r, p) \in DOMAIN infos[r] /\ info.pid = p
          /\ info.usage \in Int /\ info.mapped \in BOOLEAN
      BY <2>1, PlaceFound, InfosTyped, BoundsAssumption DEF InfoType
    <3>2. info.mapped /\ info.usage <= 0 => <<r, p>> \in overdrawn
      BY <3>1 DEF UsageMatches, Miscounted
    <3>3. QED
      BY <2>1, <3>2
  <2>4. Commit(a) /\ UNCHANGED <<reused, history>>
    BY <1>2 DEF Revoke
  <2>5. QED
    BY <2>1, <2>2, <2>3, <2>4, Caller, CommitShape DEF CallStep, history, TypeOK
<1>3. CASE Request(a)
  <2>1. PICK r \in Regions :
            /\ Live(r) /\ Listed(r, a) /\ infos[r][Place(r, a)].usage < MaxUsage
            /\ infos' = [infos EXCEPT ![r][Place(r, a)] = Used(@)]
    BY <1>3 DEF Request
  <2>2. Granted(a, a) /\ Commit(a) /\ UNCHANGED <<kept, reused, history>>
    BY <1>3 DEF Request
  <2>3. Moves(r, a)
    BY <2>1, <2>2 DEF Moves, Counts, history
  <2>4. QED
    BY <2>2, <2>3, Caller, CommitShape DEF CallStep, history, TypeOK
<1>4. CASE RequestPromiscuous(a)
  <2>1. PICK r \in Regions, info \in {Info(a), Used(Info(a))} :
            Live(r) /\ ~Listed(r, a) /\ infos' = [infos EXCEPT ![r] = <<info>> \o @]
    BY <1>4 DEF RequestPromiscuous
  <2>2. Granted(a, a) /\ Commit(a) /\ Allocate /\ UNCHANGED <<kept, history>>
    BY <1>4 DEF RequestPromiscuous
  <2>3. Moves(r, a)
    BY <2>1 DEF Moves, Pushes
  <2>4. reused' \subseteq Actors
    BY <2>2 DEF Allocate, TypeOK
  <2>5. QED
    BY <2>2, <2>3, <2>4, Caller, CommitShape DEF CallStep, history, TypeOK
<1>5. CASE ReleaseRegion(a)
  <2>1. PICK r \in Regions :
            /\ Live(r) /\ Listed(r, a) /\ infos[r][Place(r, a)].usage >= 0
            /\ infos' = [infos EXCEPT ![r][Place(r, a)] = Returned(@)]
            /\ overdrawn' = IF infos[r][Place(r, a)].usage = 0
                            THEN overdrawn \cup {<<r, a>>} ELSE overdrawn
    BY <1>5 DEF ReleaseRegion
  <2>2. Granted(a, a) /\ Commit(a) /\ UNCHANGED <<kept, reused, starved, lost>>
    BY <1>5 DEF ReleaseRegion
  <2>3. Moves(r, a)
    BY <2>1 DEF Moves, Counts
  <2>4. overdrawn \subseteq overdrawn' /\ overdrawn' \subseteq Regions \X Procs
    BY <2>1 DEF TypeOK
  <2>5. QED
    BY <2>2, <2>3, <2>4, Caller, CommitShape DEF CallStep, TypeOK
<1>6. QED
  BY <1>1, <1>2, <1>3, <1>4, <1>5 DEF Serve
-----------------------------------------------------------------------------
LEMMA MoveKeeps ==
    ASSUME TypeOK, InfosSound, NEW r \in Regions, NEW p \in Procs, Moves(r, p),
           region' = region, overdrawn \subseteq overdrawn'
    PROVE  infos' \in [Regions -> Seq(InfoType)] /\ InfosSound' /\ GoneStay
BY PushKeeps, DropKeeps, CountKeeps DEF Moves

(* Where the infos stay, the facts about them do. *)
LEMMA InfosStay ==
    ASSUME InfosSound, infos' = infos, overdrawn' = overdrawn,
           \A r \in Regions : region[r].status = "gone" => region'[r].status = "gone"
    PROVE  InfosSound' /\ GoneStay
<1>1. ListedOnce' /\ MarkedByDeletion'
  BY DEF InfosSound, ListedOnce, MarkedByDeletion
<1>2. UsageMatches'
  BY DEF InfosSound, UsageMatches, Miscounted
<1>3. QED
  BY <1>1, <1>2 DEF InfosSound, GoneStay

LEMMA CountsFinite ==
    ASSUME TypeOK
    PROVE  /\ IsFiniteSet(HeldOnes) /\ Cardinality(HeldOnes) \in Nat
           /\ IsFiniteSet(Wanting) /\ Cardinality(Wanting) \in Nat
<1>1. IsFiniteSet(Actors)
  BY ActorsAssumption, FS_AddElement DEF Actors
<1>2. HeldOnes \subseteq Procs /\ Wanting \subseteq Actors
  BY DEF HeldOnes, Wanting
<1>3. QED
  BY <1>1, <1>2, ActorsAssumption, FS_Subset, FS_CardinalityType

(* A reader who leaves the list. *)
LEMMA ReaderLeaves ==
    ASSUME TypeOK, NoWriterStays
    PROVE  /\ Release(list) \in LockType /\ Release(list).writers = 0
           /\ Release(list).readers = list.readers - 1 /\ Release(list).request = list.request
<1>1. list \in LockType /\ list.writers = 0
  BY DEF TypeOK, NoWriterStays
<1>2. Release(list) = [list EXCEPT !.readers = @ - 1]
  BY <1>1 DEF Release
<1>3. [list EXCEPT !.readers = @ - 1] \in LockType
  BY <1>1 DEF LockType
<1>4. QED
  BY <1>1, <1>2, <1>3 DEF LockType

(* and one who comes. *)
LEMMA ReaderComes ==
    ASSUME TypeOK, NoWriterStays
    PROVE  /\ TakeRead(list) \in LockType /\ TakeRead(list).writers = 0
           /\ TakeRead(list).readers = list.readers + 1
<1>1. list \in LockType /\ list.writers = 0
  BY DEF TypeOK, NoWriterStays
<1>2. [list EXCEPT !.readers = @ + 1] \in LockType
  BY <1>1 DEF LockType
<1>3. QED
  BY <1>1, <1>2 DEF LockType, TakeRead

(* The jobs that a step leaves alone. *)
JobsStay(a) == \A x \in Actors \ {a} : job'[x] = job[x] /\ pc'[x] = pc[x]

(* Whoever moves leaves the other deletions to themselves: their lists are   *)
(* their own, and so are those they have checked out.                        *)
LEMMA OthersKeep ==
    ASSUME IInv, NEW a \in Actors, JobsStay(a),
           \A x \in Actors \ {a} : Deleter(x) => Infos(x)' = Infos(x),
           \A r \in Regions : region[r].status = "gone" => region'[r].status = "gone",
           \A p \in Procs : held'[p] = held[p] \/ {held[p], held'[p]} \subseteq {Nobody, a},
           lost \subseteq lost',
           \A e \in starved : e \in starved' \/ (Deleter(a) /\ e[1] = job[a].region),
           \A p \in Procs : InTable(p)' => InTable(p)
    PROVE  /\ \A x \in Actors \ {a} : StandsIn(x)' /\ Visited(x)' /\ DropsOwn(x)'
           /\ \A p \in Procs \ lost' : held'[p] # a => GoesBack(p)'
           /\ \A x, y \in Actors \ {a} :
                Deleter(x)' /\ Deleter(y)' /\ job'[x].region = job'[y].region => x = y
<1> USE DEF IInv, JobsStay
<1>1. ASSUME NEW x \in Actors \ {a}, Deleter(x)
      PROVE  /\ Deleter(x)' /\ job'[x] = job[x] /\ pc'[x] = pc[x]
             /\ Infos(x)' = Infos(x) /\ ToDrop(x)' = ToDrop(x) /\ Current(x)' = Current(x)
             /\ \A i \in DOMAIN Infos(x) : Infos(x)[i].pid \in Procs
  <2>1. Deleter(x)' /\ job'[x] = job[x] /\ pc'[x] = pc[x] /\ Infos(x)' = Infos(x)
    BY <1>1 DEF Deleter
  <2>2. ToDrop(x)' = ToDrop(x) /\ Current(x)' = Current(x)
    BY <2>1 DEF ToDrop, Current
  <2>3. \A i \in DOMAIN Infos(x) : Infos(x)[i].pid \in Procs
    BY <1>1, InfosTyped DEF DeletersStand, StandsIn, Infos
  <2>4. QED
    BY <2>1, <2>2, <2>3
<1>2. ASSUME NEW x \in Actors \ {a} PROVE Deleter(x)' => Deleter(x)
  BY <1>2 DEF Deleter
<1>3. ASSUME NEW x \in Actors \ {a} PROVE StandsIn(x)'
  BY <1>1, <1>2, <1>3 DEF DeletersStand, StandsIn
<1>4. ASSUME NEW x \in Actors \ {a} PROVE Visited(x)'
  <2> SUFFICES ASSUME Deleter(x)', NEW i \in DOMAIN (Infos(x)')
               PROVE  (/\ Infos(x)[i].tmp /\ ~Infos(x)[i].tmp2 => <<job[x].region, Infos(x)[i].pid>> \in starved
                       /\ /\ pc[x] \in {"visit", "wantProc"} /\ i < job[x].at
                          /\ Infos(x)[i].usage > 0 /\ InTable(Infos(x)[i].pid)
                          => Infos(x)[i].tmp)'
    BY DEF Visited
  <2>1. /\ Deleter(x) /\ job'[x] = job[x] /\ pc'[x] = pc[x] /\ Infos(x)' = Infos(x)
        /\ i \in DOMAIN Infos(x) /\ Infos(x)[i].pid \in Procs
    BY <1>1, <1>2
  <2>2. InTable(Infos(x)[i].pid)' => InTable(Infos(x)[i].pid)
    BY <2>1
  <2>3. <<job[x].region, Infos(x)[i].pid>> \in starved => <<job[x].region, Infos(x)[i].pid>> \in starved'
    BY <2>1 DEF DeletersApart
  <2>4. QED
    BY <2>1, <2>2, <2>3 DEF UsersVisited, Visited
<1>5. ASSUME NEW x \in Actors \ {a} PROVE DropsOwn(x)'
  <2> SUFFICES ASSUME Deleter(x)', NEW i \in ToDrop(x)' PROVE (held[Infos(x)[i].pid] = x)'
    BY DEF DropsOwn
  <2>1. /\ Deleter(x) /\ i \in ToDrop(x) /\ Infos(x)' = Infos(x) /\ Infos(x)[i].pid \in Procs
    BY <1>1, <1>2 DEF ToDrop
  <2>2. held[Infos(x)[i].pid] = x
    BY <2>1 DEF DropsTheirs, DropsOwn
  <2>3. QED
    BY <2>1, <2>2, ActorsAssumption DEF Actors
<1>6. ASSUME NEW p \in Procs \ lost', held'[p] # a PROVE GoesBack(p)'
  <2> SUFFICES ASSUME held'[p] # Nobody
               PROVE  (Deleter(held[p]) /\ \E i \in ToDrop(held[p]) : Infos(held[p])[i].pid = p)'
    BY DEF GoesBack
  <2>1. held'[p] = held[p] /\ held[p] \in Actors \ {a} /\ p \in Procs \ lost
    BY <1>6 DEF TypeOK
  <2>2. Deleter(held[p]) /\ \E i \in ToDrop(held[p]) : Infos(held[p])[i].pid = p
    BY <2>1 DEF HeldReturned, GoesBack
  <2>3. QED
    BY <1>1, <2>1, <2>2
<1>7. ASSUME NEW x \in Actors \ {a}, NEW y \in Actors \ {a},
             Deleter(x)', Deleter(y)', job'[x].region = job'[y].region
      PROVE  x = y
  BY <1>1, <1>2, <1>7 DEF DeletersApart
<1>8. QED
  BY <1>3, <1>4, <1>5, <1>6, <1>7

(* Who deletes nothing has nothing else to keep, and holds nobody but those  *)
(* it has lost.                                                              *)
LEMMA ElsewhereKeeps ==
    ASSUME IInv, GoneStay, NEW a \in Actors, JobsStay(a), ~Deleter(a), ~Deleter(a)',
           \A r \in Regions : region[r].status = "gone" => region'[r].status = "gone",
           held' = held, lost' = lost, starved \subseteq starved',
           \A p \in Procs : InTable(p)' => InTable(p)
    PROVE  DeletersStand' /\ DeletersApart' /\ UsersVisited' /\ DropsTheirs' /\ HeldReturned'
<1>1. \A x \in Actors \ {a} : Deleter(x) => Infos(x)' = Infos(x)
  BY DEF GoneStay, IInv, DeletersStand, StandsIn, JobsStay, Infos
<1>2. /\ \A x \in Actors \ {a} : StandsIn(x)' /\ Visited(x)' /\ DropsOwn(x)'
      /\ \A p \in Procs \ lost' : held'[p] # a => GoesBack(p)'
      /\ \A x, y \in Actors \ {a} :
           Deleter(x)' /\ Deleter(y)' /\ job'[x].region = job'[y].region => x = y
  BY <1>1, OthersKeep
<1>3. StandsIn(a)' /\ Visited(a)' /\ DropsOwn(a)'
  BY DEF StandsIn, Visited, DropsOwn
<1>4. \A p \in Procs \ lost' : held'[p] # a
  BY ActorsAssumption DEF IInv, HeldReturned, GoesBack, Actors
<1>5. QED
  BY <1>2, <1>3, <1>4 DEF DeletersStand, DeletersApart, UsersVisited, DropsTheirs, HeldReturned
-----------------------------------------------------------------------------
JobType == [op : {"none", "call", "delete"}, region : Nat, target : Procs \cup {Nobody}, at : Nat]

LEMMA NoJobTyped == NoJob \in JobType /\ NoJob.op = "none"
BY DEF NoJob, JobType

LEMMA CallKeeps ==
    ASSUME IInv, NEW a \in Procs, CallStep(a)
    PROVE  IInv'
<1> USE DEF IInv
<1>0. a \in Actors /\ a # GC
  BY ActorsAssumption DEF Actors
<1>1. infos' \in [Regions -> Seq(InfoType)] /\ InfosSound' /\ GoneStay
  <2>1. CASE infos' = infos
    <3>1. InfosSound' /\ GoneStay
      <4>1. ListedOnce' /\ MarkedByDeletion'
        BY <2>1 DEF CallStep, ListedOnce, MarkedByDeletion
      <4>2. UsageMatches'
        BY <2>1 DEF CallStep, UsageMatches, Miscounted
      <4>3. QED
        BY <2>1, <4>1, <4>2 DEF InfosSound, GoneStay
    <3>2. QED
      BY <2>1, <3>1 DEF TypeOK, InfoType
  <2>2. CASE \E r \in Regions, p \in Procs : Moves(r, p)
    <3>1. InfosSound /\ region' = region /\ overdrawn \subseteq overdrawn'
      BY DEF InfosSound, CallStep
    <3>2. QED
      BY <2>2, <3>1, MoveKeeps
  <2>3. QED
    BY <2>1, <2>2 DEF CallStep
<1>2. TypeOK' /\ NoWriterStays'
  <2>1. list' \in LockType /\ list'.writers = 0
    BY ReaderLeaves DEF CallStep, TypeOK, NoWriterStays
  <2>2. kept' \subseteq Regions \X Procs
    BY DEF CallStep, TypeOK
  <2>3. pc' \in [Actors -> {"user", "wantProc", "visit", "drop", "freed", "out", "idle", "clean"}]
    BY <1>0 DEF CallStep, TypeOK
  <2>4. job' \in [Actors -> JobType]
    BY <1>0, NoJobTyped DEF CallStep, TypeOK, JobType
  <2>5. QED
    BY <1>1, <2>1, <2>2, <2>3, <2>4 DEF CallStep, TypeOK, NoWriterStays, InfoType, JobType
<1>3. (JobsStay(a) /\ ~Deleter(a) /\ ~Deleter(a)') \/ UNCHANGED <<pc, job>>
  BY <1>0 DEF CallStep, TypeOK, JobsStay, Deleter, NoJob
<1>4. JobsMatch' /\ EndedAreOut'
  <2>1. CASE UNCHANGED <<pc, job>>
    BY <2>1 DEF CallStep, JobsMatch, EndedAreOut, Deleter
  <2>2. CASE /\ pc[a] = "wantProc"
             /\ pc' = [pc EXCEPT ![a] = "user"] /\ job' = [job EXCEPT ![a] = NoJob]
    <3>1. /\ pc'[a] = "user" /\ job'[a] = NoJob
          /\ \A x \in Actors \ {a} : pc'[x] = pc[x] /\ job'[x] = job[x]
      BY <1>0, <2>2 DEF TypeOK
    <3>2. JobsMatch'
      BY <3>1 DEF JobsMatch, Deleter
    <3>3. EndedAreOut'
      BY <2>2, <3>1 DEF CallStep, EndedAreOut, Actors
    <3>4. QED
      BY <3>2, <3>3
  <2>3. QED
    BY <2>1, <2>2 DEF CallStep
<1>5. DeletersStand' /\ DeletersApart' /\ UsersVisited' /\ DropsTheirs' /\ HeldReturned'
  <2>1. \A p \in Procs : InTable(p)' => InTable(p)
    BY DEF CallStep, InTable
  <2>2. UNCHANGED <<held, lost, starved, region>>
    BY DEF CallStep
  <2>3. CASE JobsStay(a) /\ ~Deleter(a) /\ ~Deleter(a)'
    BY <1>0, <1>1, <2>1, <2>2, <2>3, ElsewhereKeeps
  <2>4. CASE UNCHANGED <<pc, job>>
    <3>1. \A x \in Actors : Deleter(x) => Infos(x)' = Infos(x)
      BY <1>1, <2>4 DEF GoneStay, DeletersStand, StandsIn, Infos
    <3>2. \A x \in Actors : Deleter(x) => ToDrop(x)' = ToDrop(x) /\ Current(x)' = Current(x)
      BY <2>4, <3>1 DEF ToDrop, Current
    <3>3. \A x \in Actors : Deleter(x)' = Deleter(x)
      BY <2>4 DEF Deleter
    <3>4. DeletersStand' /\ DeletersApart'
      BY <2>2, <2>4, <3>1, <3>2, <3>3 DEF DeletersStand, StandsIn, DeletersApart
    <3>5. UsersVisited'
      <4>1. \A p \in Procs : InTable(p)' = InTable(p)
        BY DEF CallStep, InTable
      <4>2. \A x \in Actors : Deleter(x) => \A i \in DOMAIN Infos(x) : Infos(x)[i].pid \in Procs
        BY InfosTyped DEF DeletersStand, StandsIn, Infos
      <4>3. QED
        BY <2>2, <2>4, <3>1, <3>3, <4>1, <4>2 DEF UsersVisited, Visited
    <3>6. DropsTheirs'
      BY <2>2, <2>4, <3>1, <3>2, <3>3 DEF DropsTheirs, DropsOwn
    <3>7. HeldReturned'
      <4> SUFFICES ASSUME NEW p \in Procs \ lost, held[p] # Nobody
                   PROVE  (Deleter(held[p]) /\ \E i \in ToDrop(held[p]) : Infos(held[p])[i].pid = p)'
        BY <2>2 DEF HeldReturned, GoesBack
      <4>1. Deleter(held[p]) /\ \E i \in ToDrop(held[p]) : Infos(held[p])[i].pid = p
        BY DEF HeldReturned, GoesBack
      <4>2. held[p] \in Actors /\ held' = held
        BY <2>2 DEF TypeOK
      <4>3. QED
        BY <3>1, <3>2, <3>3, <4>1, <4>2
    <3>8. QED
      BY <3>4, <3>5, <3>6, <3>7
  <2>5. QED
    BY <1>3, <2>3, <2>4
<1>6. ReadersCounted'
  <2>1. HeldOnes' = HeldOnes
    BY DEF CallStep, HeldOnes
  <2>2. CASE UNCHANGED <<list, pc, job>>
    BY <2>1, <2>2 DEF ReadersCounted, Wanting
  <2>3. CASE pc[a] = "wantProc" /\ list' = Release(list) /\ pc' = [pc EXCEPT ![a] = "user"]
    <3>1. Wanting' = Wanting \ {a} /\ a \in Wanting
      BY <1>0, <2>3 DEF Wanting, TypeOK
    <3>2. Cardinality(Wanting') = Cardinality(Wanting) - 1
      BY <3>1, CountsFinite, FS_RemoveElement
    <3>3. list'.readers = list.readers - 1
      BY <2>3, ReaderLeaves
    <3>4. QED
      BY <2>1, <3>2, <3>3, CountsFinite DEF ReadersCounted
  <2>4. QED
    BY <2>2, <2>3 DEF CallStep
<1>7. OnlyScratchLeft'
  BY DEF CallStep, OnlyScratchLeft
<1>8. DeadLeaveOrphans'
  <2>1. pc'[GC] = pc[GC]
    BY <1>0, <1>3 DEF JobsStay, Actors
  <2>2. region' = region /\ life' = life
    BY DEF CallStep
  <2>3. Owned' = Owned
    BY <2>2 DEF Owned, Live
  <2>4. QED
    BY <2>1, <2>2, <2>3 DEF DeadLeaveOrphans, Immortal
<1>9. QED
  BY <1>1, <1>2, <1>4, <1>5, <1>6, <1>7, <1>8 DEF InfosSound
-----------------------------------------------------------------------------
(* What a step keeps of deletions when its actor keeps its own. *)
LEMMA StepOfOne ==
    ASSUME IInv, NEW a \in Actors, JobsStay(a),
           \A x \in Actors \ {a} : Deleter(x) => Infos(x)' = Infos(x),
           \A r \in Regions : region[r].status = "gone" => region'[r].status = "gone",
           \A p \in Procs : held'[p] = held[p] \/ {held[p], held'[p]} \subseteq {Nobody, a},
           lost \subseteq lost',
           \A e \in starved : e \in starved' \/ (Deleter(a) /\ e[1] = job[a].region),
           \A p \in Procs : InTable(p)' => InTable(p),
           StandsIn(a)', Visited(a)', DropsOwn(a)',
           \A p \in Procs \ lost' : held'[p] = a => GoesBack(p)',
           \A x \in Actors \ {a} : Deleter(x) /\ Deleter(a)' => job[x].region # job'[a].region
    PROVE  DeletersStand' /\ DeletersApart' /\ UsersVisited' /\ DropsTheirs' /\ HeldReturned'
<1>1. /\ \A x \in Actors \ {a} : StandsIn(x)' /\ Visited(x)' /\ DropsOwn(x)'
      /\ \A p \in Procs \ lost' : held'[p] # a => GoesBack(p)'
      /\ \A x, y \in Actors \ {a} :
           Deleter(x)' /\ Deleter(y)' /\ job'[x].region = job'[y].region => x = y
  BY OthersKeep
<1>2. \A x \in Actors \ {a} : Deleter(x)' /\ Deleter(a)' => job'[x].region # job'[a].region
  BY DEF JobsStay, Deleter
<1>3. DeletersApart'
  BY <1>1, <1>2 DEF DeletersApart
<1>4. QED
  BY <1>1, <1>3 DEF DeletersStand, UsersVisited, DropsTheirs, HeldReturned

(* What a step keeps of the actors' places when its actor keeps to its own. *)
LEMMA PlacesKept ==
    ASSUME IInv, NEW a \in Actors, NEW place, NEW task,
           pc' = [pc EXCEPT ![a] = place], job' = [job EXCEPT ![a] = task],
           place \in {"user", "wantProc", "visit", "drop", "freed", "out", "idle", "clean"},
           task \in JobType,
           place = "wantProc" => task.op # "none" /\ task.target \in Procs,
           place \in {"visit", "drop", "freed"} => task.op = "delete",
           place \in {"user", "out", "idle", "clean"} => task = NoJob
    PROVE  /\ pc' \in [Actors -> {"user", "wantProc", "visit", "drop", "freed", "out", "idle", "clean"}]
           /\ job' \in [Actors -> JobType] /\ JobsMatch' /\ JobsStay(a)
           /\ pc'[a] = place /\ job'[a] = task
<1>1. pc \in [Actors -> {"user", "wantProc", "visit", "drop", "freed", "out", "idle", "clean"}]
      /\ job \in [Actors -> JobType]
  BY DEF IInv, TypeOK, JobType
<1>2. JobsStay(a) /\ pc'[a] = place /\ job'[a] = task
  BY <1>1 DEF JobsStay
<1>3. JobsMatch'
  BY <1>2 DEF IInv, JobsMatch, JobsStay, Deleter
<1>4. QED
  BY <1>1, <1>2, <1>3

LEMMA CreateKeeps ==
    ASSUME IInv, NEW a \in Procs, Create(a)
    PROVE  IInv'
<1> USE DEF IInv
<1>0. a \in Actors /\ pc[a] = "user" /\ life[a] = "live"
  BY DEF Create, User, Actors, EndedAreOut
<1>1. PICK r \in Regions :
        /\ region[r].status = "none"
        /\ region' = [region EXCEPT ![r] = [status |-> "live", owner |-> a, orphan |-> FALSE]]
  BY DEF Create
<1>2. UNCHANGED <<list, held, life, infos, kept, reused, pc, job, overdrawn, starved, lost>>
  BY DEF Create, history
<1>3. /\ region' \in [Regions -> [status : {"none", "live", "gone"}, owner : Procs \cup {Nobody}, orphan : BOOLEAN]]
      /\ region'[r] = [status |-> "live", owner |-> a, orphan |-> FALSE]
      /\ \A q \in Regions \ {r} : region'[q] = region[q]
  BY <1>1 DEF TypeOK
<1>4. \A q \in Regions : region[q].status = "gone" => region'[q].status = "gone"
  BY <1>1, <1>3
<1>5. InfosSound' /\ GoneStay
  BY <1>2, <1>4, InfosStay DEF InfosSound
<1>6. TypeOK' /\ NoWriterStays' /\ OnlyScratchLeft'
  BY <1>2, <1>3 DEF TypeOK, NoWriterStays, OnlyScratchLeft
<1>7. JobsMatch' /\ EndedAreOut'
  BY <1>2 DEF JobsMatch, EndedAreOut, Deleter
<1>8. ReadersCounted'
  BY <1>2 DEF ReadersCounted, HeldOnes, Wanting
<1>9. DeletersStand' /\ DeletersApart' /\ UsersVisited' /\ DropsTheirs' /\ HeldReturned'
  <2>1. JobsStay(a) /\ ~Deleter(a) /\ ~Deleter(a)'
    BY <1>0, <1>2 DEF JobsStay, Deleter, JobsMatch, NoJob
  <2>2. \A p \in Procs : InTable(p)' => InTable(p)
    BY <1>2 DEF InTable
  <2>3. QED
    BY <1>0, <1>2, <1>4, <1>5, <2>1, <2>2, ElsewhereKeeps
<1>10. DeadLeaveOrphans'
  <2>1. Owned' \subseteq Owned \ {r}
    BY <1>0, <1>1, <1>2, <1>3 DEF Owned, Live
  <2>2. \A q \in Owned' : q \in Owned /\ region'[q] = region[q]
    BY <1>3, <2>1 DEF Owned
  <2>3. QED
    BY <1>2, <2>2 DEF DeadLeaveOrphans, Immortal
<1>11. QED
  BY <1>5, <1>6, <1>7, <1>8, <1>9, <1>10 DEF InfosSound

LEMMA AwaitKeeps ==
    ASSUME IInv, NEW a \in Procs, Await(a)
    PROVE  IInv'
<1> USE DEF IInv
<1>0. a \in Actors /\ a # GC /\ pc[a] = "user" /\ life[a] = "live" /\ job[a] = NoJob
  BY ActorsAssumption DEF Await, User, Actors, EndedAreOut, JobsMatch
<1>1. PICK p \in Procs : job' = [job EXCEPT ![a] = [NoJob EXCEPT !.op = "call", !.target = p]]
  BY DEF Await
<1>2. /\ UNCHANGED <<held, life, region, infos, kept, reused, overdrawn, starved, lost>>
      /\ pc' = [pc EXCEPT ![a] = "wantProc"] /\ list' = TakeRead(list)
  BY DEF Await, history, table, Goto
<1> DEFINE task == [NoJob EXCEPT !.op = "call", !.target = p]
<1>3. task \in JobType /\ task.op = "call" /\ task.target = p
  BY DEF NoJob, JobType
<1> HIDE DEF task
<1>4. /\ pc' \in [Actors -> {"user", "wantProc", "visit", "drop", "freed", "out", "idle", "clean"}]
      /\ job' \in [Actors -> JobType] /\ JobsMatch' /\ JobsStay(a)
      /\ pc'[a] = "wantProc" /\ job'[a] = task
  <2>1. job' = [job EXCEPT ![a] = task]
    BY <1>1 DEF task
  <2>2. QED
    BY <1>0, <1>2, <1>3, <2>1, PlacesKept
<1>5. InfosSound' /\ GoneStay
  BY <1>2, InfosStay DEF InfosSound
<1>6. TypeOK' /\ NoWriterStays' /\ OnlyScratchLeft'
  BY <1>2, <1>4, ReaderComes DEF TypeOK, NoWriterStays, OnlyScratchLeft, JobType
<1>7. EndedAreOut'
  BY <1>0, <1>2, <1>4 DEF EndedAreOut, JobsStay, Actors
<1>8. ReadersCounted'
  <2>1. HeldOnes' = HeldOnes
    BY <1>2 DEF HeldOnes
  <2>2. Wanting' = Wanting \cup {a} /\ a \notin Wanting
    BY <1>0, <1>4 DEF Wanting, JobsStay
  <2>3. Cardinality(Wanting') = Cardinality(Wanting) + 1
    BY <2>2, CountsFinite, FS_AddElement
  <2>4. list'.readers = list.readers + 1 /\ list.readers \in Int
    BY <1>2, ReaderComes DEF TypeOK, LockType
  <2>5. QED
    BY <2>1, <2>3, <2>4, CountsFinite DEF ReadersCounted
<1>9. DeletersStand' /\ DeletersApart' /\ UsersVisited' /\ DropsTheirs' /\ HeldReturned'
  <2>1. ~Deleter(a) /\ ~Deleter(a)'
    BY <1>0, <1>3, <1>4 DEF Deleter, NoJob
  <2>2. \A q \in Procs : InTable(q)' => InTable(q)
    BY <1>2 DEF InTable
  <2>3. QED
    BY <1>0, <1>2, <1>4, <1>5, <2>1, <2>2, ElsewhereKeeps
<1>10. DeadLeaveOrphans'
  <2>1. pc'[GC] = pc[GC]
    BY <1>0, <1>4 DEF JobsStay, Actors
  <2>2. Owned' = Owned
    BY <1>2 DEF Owned, Live
  <2>3. QED
    BY <1>2, <2>1, <2>2 DEF DeadLeaveOrphans, Immortal
<1>11. QED
  BY <1>4, <1>5, <1>6, <1>7, <1>8, <1>9, <1>10 DEF InfosSound

LEMMA ExitKeeps ==
    ASSUME IInv, NEW a \in Procs, Exit(a)
    PROVE  IInv'
<1> USE DEF IInv
<1>0. a \in Actors /\ a # GC /\ pc[a] = "user" /\ life[a] = "live" /\ job[a] = NoJob
  BY ActorsAssumption DEF Exit, User, Actors, EndedAreOut, JobsMatch
<1>1. /\ UNCHANGED <<list, held, region, infos, kept, reused, job, overdrawn, starved, lost>>
      /\ pc' = [pc EXCEPT ![a] = "out"] /\ life' = [life EXCEPT ![a] = "exited"]
  BY DEF Exit, history, table, Goto
<1>2. /\ pc' \in [Actors -> {"user", "wantProc", "visit", "drop", "freed", "out", "idle", "clean"}]
      /\ job' \in [Actors -> JobType] /\ JobsMatch' /\ JobsStay(a)
      /\ pc'[a] = "out" /\ job'[a] = NoJob
  <2>1. job' = [job EXCEPT ![a] = NoJob]
    BY <1>0, <1>1 DEF TypeOK
  <2>2. QED
    BY <1>0, <1>1, <2>1, NoJobTyped, PlacesKept
<1>3. /\ life' \in [Procs -> {"live", "exited", "gone"}] /\ life'[a] = "exited"
      /\ \A p \in Procs \ {a} : life'[p] = life[p]
  BY <1>1 DEF TypeOK
<1>4. InfosSound' /\ GoneStay
  BY <1>1, InfosStay DEF InfosSound
<1>5. TypeOK' /\ NoWriterStays' /\ OnlyScratchLeft'
  BY <1>1, <1>2, <1>3 DEF TypeOK, NoWriterStays, OnlyScratchLeft
<1>6. EndedAreOut'
  BY <1>2, <1>3 DEF EndedAreOut, JobsStay, Actors
<1>7. ReadersCounted'
  <2>1. HeldOnes' = HeldOnes /\ Wanting' = Wanting
    BY <1>0, <1>1, <1>2 DEF HeldOnes, Wanting, JobsStay
  <2>2. QED
    BY <1>1, <2>1 DEF ReadersCounted
<1>8. DeletersStand' /\ DeletersApart' /\ UsersVisited' /\ DropsTheirs' /\ HeldReturned'
  <2>1. ~Deleter(a) /\ ~Deleter(a)'
    BY <1>0, <1>2 DEF Deleter, NoJob
  <2>2. \A q \in Procs : InTable(q)' => InTable(q)
    BY <1>0, <1>3 DEF InTable
  <2>3. QED
    BY <1>0, <1>1, <1>2, <1>4, <2>1, <2>2, ElsewhereKeeps
<1>9. DeadLeaveOrphans'
  <2>1. pc'[GC] = pc[GC]
    BY <1>0, <1>2 DEF JobsStay, Actors
  <2>2. Owned' = Owned
    <3>1. \A p \in Procs : life'[p] = "gone" <=> life[p] = "gone"
      BY <1>0, <1>3
    <3>2. QED
      BY <1>1, <3>1 DEF Owned, Live
  <2>3. QED
    BY <1>1, <2>1, <2>2 DEF DeadLeaveOrphans, Immortal
<1>10. QED
  BY <1>2, <1>4, <1>5, <1>6, <1>7, <1>8, <1>9 DEF InfosSound

LEMMA DetachKeeps ==
    ASSUME IInv, Detach
    PROVE  IInv'
<1> USE DEF IInv
<1>0. GC \in Actors /\ GC \notin Procs /\ pc[GC] = "idle" /\ job[GC] = NoJob
  BY ActorsAssumption DEF Detach, Actors, JobsMatch
<1>1. UNCHANGED <<held, region, infos, kept, reused, job, overdrawn, starved, lost>>
  BY DEF Detach, history, table
<1>2. PICK p \in Procs :
        /\ life[p] = "exited"
        /\ IF WriteGranted(list)
           THEN /\ life' = [life EXCEPT ![p] = "gone"]
                /\ list' = Release(TakeWrite(list))
                /\ pc' = [pc EXCEPT ![GC] = "clean"]
           ELSE /\ list' = AskWrite(list)
                /\ UNCHANGED <<life, pc>>
  BY DEF Detach, Goto
<1>3. list' \in LockType /\ list'.readers = list.readers /\ list'.writers = 0
  <2>1. CASE WriteGranted(list)
    <3>1. TakeWrite(list).writers = 1 /\ TakeWrite(list).readers = list.readers
      BY DEF TakeWrite, TypeOK, LockType, NoWriterStays
    <3>2. Release(TakeWrite(list)) = [readers |-> list.readers, writers |-> 0, request |-> FALSE]
      BY <3>1 DEF Release
    <3>3. QED
      <4>1. list.readers \in Int /\ list' = [readers |-> list.readers, writers |-> 0, request |-> FALSE]
        BY <1>2, <2>1, <3>2 DEF TypeOK, LockType
      <4>2. QED
        BY <4>1 DEF LockType
  <2>2. CASE ~WriteGranted(list)
    <3>1. list' = [list EXCEPT !.request = TRUE] /\ list \in LockType /\ list.writers = 0
      BY <1>2, <2>2 DEF AskWrite, TypeOK, NoWriterStays
    <3>2. QED
      BY <3>1 DEF LockType
  <2>3. QED
    BY <2>1, <2>2
<1>4. PICK place \in {"idle", "clean"} :
        /\ pc' = [pc EXCEPT ![GC] = place]
        /\ place = "idle" => life' = life
  <2>1. pc = [pc EXCEPT ![GC] = "idle"]
    BY <1>0 DEF TypeOK
  <2>2. QED
    BY <1>2, <2>1
<1>5. /\ pc' \in [Actors -> {"user", "wantProc", "visit", "drop", "freed", "out", "idle", "clean"}]
      /\ job' \in [Actors -> JobType] /\ JobsMatch' /\ JobsStay(GC)
      /\ pc'[GC] = place /\ job'[GC] = NoJob
  <2>1. job' = [job EXCEPT ![GC] = NoJob]
    BY <1>0, <1>1 DEF TypeOK
  <2>2. QED
    BY <1>0, <1>4, <2>1, NoJobTyped, PlacesKept
<1>6. /\ life' \in [Procs -> {"live", "exited", "gone"}]
      /\ \A q \in Procs : life'[q] = life[q] \/ (life[q] = "exited" /\ life'[q] = "gone")
  BY <1>2 DEF TypeOK
<1>7. InfosSound' /\ GoneStay
  BY <1>1, InfosStay DEF InfosSound
<1>8. TypeOK' /\ NoWriterStays' /\ OnlyScratchLeft'
  BY <1>1, <1>3, <1>5, <1>6 DEF TypeOK, NoWriterStays, OnlyScratchLeft
<1>9. EndedAreOut'
  BY <1>0, <1>5, <1>6 DEF EndedAreOut, JobsStay, Actors
<1>10. ReadersCounted'
  <2>1. HeldOnes' = HeldOnes
    BY <1>1 DEF HeldOnes
  <2>2. Wanting' = Wanting
    BY <1>0, <1>5 DEF Wanting, JobsStay
  <2>3. QED
    BY <1>3, <2>1, <2>2 DEF ReadersCounted
<1>11. DeletersStand' /\ DeletersApart' /\ UsersVisited' /\ DropsTheirs' /\ HeldReturned'
  <2>1. ~Deleter(GC) /\ ~Deleter(GC)'
    BY <1>0, <1>5 DEF Deleter, NoJob
  <2>2. \A q \in Procs : InTable(q)' => InTable(q)
    BY <1>6 DEF InTable
  <2>3. QED
    BY <1>0, <1>1, <1>5, <1>7, <2>1, <2>2, ElsewhereKeeps
<1>12. DeadLeaveOrphans'
  <2>1. CASE place = "clean"
    BY <1>5, <2>1 DEF DeadLeaveOrphans
  <2>2. CASE place = "idle"
    <3>1. Owned' = Owned
      BY <1>1, <1>4, <2>2 DEF Owned, Live
    <3>2. QED
      BY <1>0, <1>1, <3>1 DEF DeadLeaveOrphans, Immortal
  <2>3. QED
    BY <2>1, <2>2
<1>13. QED
  BY <1>5, <1>7, <1>8, <1>9, <1>10, <1>11, <1>12 DEF InfosSound

(* The collector goes back to sleep when it left nothing but orphans. *)
Rest ==
    /\ pc[GC] = "clean" /\ Mortal = {}
    /\ region' = [r \in Regions |-> IF r \in Owned THEN [region[r] EXCEPT !.orphan = TRUE] ELSE region[r]]
    /\ Goto(GC, "idle")
    /\ UNCHANGED <<list, held, life, infos, kept, reused, job, history>>

LEMMA RestKeeps ==
    ASSUME IInv, Rest
    PROVE  IInv'
<1> USE DEF IInv
<1>0. GC \in Actors /\ GC \notin Procs /\ job[GC] = NoJob
  BY ActorsAssumption DEF Rest, Actors, JobsMatch
<1>1. /\ UNCHANGED <<list, held, life, infos, kept, reused, job, overdrawn, starved, lost>>
      /\ pc' = [pc EXCEPT ![GC] = "idle"]
  BY DEF Rest, history, Goto
<1>2. \A r \in Regions :
        /\ region'[r] \in [status : {"none", "live", "gone"}, owner : Procs \cup {Nobody}, orphan : BOOLEAN]
        /\ region'[r].status = region[r].status /\ region'[r].owner = region[r].owner
        /\ r \in Owned => region'[r].orphan
  <2> SUFFICES ASSUME NEW r \in Regions
               PROVE  /\ region'[r] \in [status : {"none", "live", "gone"}, owner : Procs \cup {Nobody}, orphan : BOOLEAN]
                      /\ region'[r].status = region[r].status /\ region'[r].owner = region[r].owner
                      /\ r \in Owned => region'[r].orphan
    OBVIOUS
  <2>1. region[r] \in [status : {"none", "live", "gone"}, owner : Procs \cup {Nobody}, orphan : BOOLEAN]
    BY DEF TypeOK
  <2>2. region'[r] = IF r \in Owned THEN [region[r] EXCEPT !.orphan = TRUE] ELSE region[r]
    BY DEF Rest
  <2>3. QED
    BY <2>1, <2>2
<1>3. region' \in [Regions -> [status : {"none", "live", "gone"}, owner : Procs \cup {Nobody}, orphan : BOOLEAN]]
  BY <1>2 DEF Rest
<1>4. /\ pc' \in [Actors -> {"user", "wantProc", "visit", "drop", "freed", "out", "idle", "clean"}]
      /\ job' \in [Actors -> JobType] /\ JobsMatch' /\ JobsStay(GC)
      /\ pc'[GC] = "idle" /\ job'[GC] = NoJob
  <2>1. job' = [job EXCEPT ![GC] = NoJob]
    BY <1>0, <1>1 DEF TypeOK
  <2>2. QED
    BY <1>0, <1>1, <2>1, NoJobTyped, PlacesKept
<1>5. InfosSound' /\ GoneStay
  BY <1>1, <1>2, InfosStay DEF InfosSound
<1>6. TypeOK' /\ NoWriterStays' /\ OnlyScratchLeft'
  BY <1>1, <1>3, <1>4 DEF TypeOK, NoWriterStays, OnlyScratchLeft
<1>7. EndedAreOut'
  BY <1>0, <1>1, <1>4 DEF EndedAreOut, JobsStay, Actors
<1>8. ReadersCounted'
  <2>1. HeldOnes' = HeldOnes /\ Wanting' = Wanting
    BY <1>1, <1>4 DEF HeldOnes, Wanting, JobsStay, Rest
  <2>2. QED
    BY <1>1, <2>1 DEF ReadersCounted
<1>9. DeletersStand' /\ DeletersApart' /\ UsersVisited' /\ DropsTheirs' /\ HeldReturned'
  <2>1. ~Deleter(GC) /\ ~Deleter(GC)'
    BY <1>0, <1>4 DEF Deleter, NoJob
  <2>2. \A q \in Procs : InTable(q)' => InTable(q)
    BY <1>1 DEF InTable
  <2>3. QED
    BY <1>0, <1>1, <1>2, <1>4, <1>5, <2>1, <2>2, ElsewhereKeeps
<1>10. DeadLeaveOrphans'
  <2>1. Owned' = Owned
    BY <1>1, <1>2 DEF Owned, Live
  <2>2. \A r \in Owned : Immortal(r)
    BY DEF Rest, Mortal
  <2>3. \A r \in Owned : r \in Regions
    BY DEF Owned
  <2>4. QED
    BY <1>2, <2>1, <2>2, <2>3 DEF DeadLeaveOrphans, Immortal
<1>11. QED
  BY <1>4, <1>5, <1>6, <1>7, <1>8, <1>9, <1>10 DEF InfosSound
-----------------------------------------------------------------------------
(* A deletion begins when a region leaves the table. *)
Begins(a, r) ==
    /\ Live(r) /\ job[a] = NoJob
    /\ region'[r].status = "gone" /\ \A q \in Regions \ {r} : region'[q].status = region[q].status
    /\ job' = [job EXCEPT ![a] = [op |-> "delete", region |-> r, target |-> Nobody, at |-> 1]]
    /\ Goto(a, "visit")
    /\ UNCHANGED <<list, held, life, infos, kept, reused, history>>

LEMMA BeginningKeeps ==
    ASSUME IInv, NEW a \in Actors, NEW r \in Regions, Begins(a, r),
           a \in Procs => pc[a] # "out", pc[a] # "wantProc",
           region' \in [Regions -> [status : {"none", "live", "gone"}, owner : Procs \cup {Nobody}, orphan : BOOLEAN]],
           DeadLeaveOrphans'
    PROVE  IInv'
<1> USE DEF IInv
<1> DEFINE task == [op |-> "delete", region |-> r, target |-> Nobody, at |-> 1]
<1>1. /\ UNCHANGED <<list, held, life, infos, kept, reused, overdrawn, starved, lost>>
      /\ pc' = [pc EXCEPT ![a] = "visit"] /\ job' = [job EXCEPT ![a] = task]
  BY DEF Begins, history, Goto
<1>2. task \in JobType /\ task.op = "delete" /\ task.region = r /\ task.at = 1
  BY RegionsAssumption, BoundsAssumption DEF JobType
<1> HIDE DEF task
<1>3. /\ pc' \in [Actors -> {"user", "wantProc", "visit", "drop", "freed", "out", "idle", "clean"}]
      /\ job' \in [Actors -> JobType] /\ JobsMatch' /\ JobsStay(a)
      /\ pc'[a] = "visit" /\ job'[a] = task
  BY <1>1, <1>2, PlacesKept
<1>4. /\ ~Deleter(a) /\ region[r].status = "live" /\ region'[r].status = "gone"
      /\ \A q \in Regions : region[q].status = "gone" => region'[q].status = "gone"
  BY DEF Begins, Deleter, NoJob, Live
<1>5. InfosSound' /\ GoneStay
  BY <1>1, <1>4, InfosStay DEF InfosSound
<1>6. TypeOK' /\ NoWriterStays' /\ OnlyScratchLeft'
  BY <1>1, <1>3 DEF TypeOK, NoWriterStays, OnlyScratchLeft, JobType
<1>7. EndedAreOut'
  BY <1>1, <1>3 DEF EndedAreOut, JobsStay, Actors
<1>8. ReadersCounted'
  <2>1. HeldOnes' = HeldOnes /\ Wanting' = Wanting
    BY <1>1, <1>3 DEF HeldOnes, Wanting, JobsStay
  <2>2. QED
    BY <1>1, <2>1 DEF ReadersCounted
<1>9. DeletersStand' /\ DeletersApart' /\ UsersVisited' /\ DropsTheirs' /\ HeldReturned'
  <2>1. \A x \in Actors \ {a} : Deleter(x) => Infos(x)' = Infos(x) /\ job[x].region # r
    BY <1>1, <1>3, <1>4 DEF DeletersStand, StandsIn, JobsStay, Infos
  <2>2. StandsIn(a)'
    BY <1>2, <1>3, <1>4 DEF StandsIn
  <2>3. Infos(a)' = infos[r]
    BY <1>1, <1>2, <1>3 DEF Infos
  <2>4. \A i \in DOMAIN infos[r] : ~infos[r][i].tmp /\ i \in Nat /\ i >= 1
    BY <1>4, InfosTyped DEF MarkedByDeletion
  <2>5. Visited(a)'
    BY <1>2, <1>3, <2>3, <2>4 DEF Visited
  <2>6. DropsOwn(a)'
    BY <2>3, <2>4 DEF DropsOwn, ToDrop
  <2>7. \A p \in Procs \ lost' : held'[p] # a
    BY <1>1, <1>4, ActorsAssumption DEF HeldReturned, GoesBack, Actors
  <2>8. \A p \in Procs : InTable(p)' => InTable(p)
    BY <1>1 DEF InTable
  <2>9. QED
    BY <1>1, <1>2, <1>3, <1>4, <2>1, <2>2, <2>5, <2>6, <2>7, <2>8, StepOfOne
<1>10. QED
  BY <1>3, <1>5, <1>6, <1>7, <1>8, <1>9 DEF InfosSound

LEMMA DeleteKeeps ==
    ASSUME IInv, NEW a \in Procs, Delete(a)
    PROVE  IInv'
<1>0. a \in Actors /\ a # GC /\ pc[a] = "user" /\ job[a] = NoJob
  BY ActorsAssumption DEF Delete, User, Actors, IInv, JobsMatch
<1>1. PICK r \in Regions : Unlink(a, r)
  BY DEF Delete
<1>2. /\ region \in [Regions -> [status : {"none", "live", "gone"}, owner : Procs \cup {Nobody}, orphan : BOOLEAN]]
      /\ region' = [region EXCEPT ![r].status = "gone"]
  BY <1>1 DEF IInv, TypeOK, Unlink
<1>3. /\ region' \in [Regions -> [status : {"none", "live", "gone"}, owner : Procs \cup {Nobody}, orphan : BOOLEAN]]
      /\ region'[r].status = "gone" /\ \A q \in Regions \ {r} : region'[q] = region[q]
  BY <1>2
<1>4. Begins(a, r)
  BY <1>0, <1>1, <1>3 DEF Begins, Unlink, Delete
<1>5. DeadLeaveOrphans'
  <2>1. \A q \in Owned' : q \in Owned /\ region'[q] = region[q]
    BY <1>3 DEF Delete, Owned, Live
  <2>2. pc'[GC] = pc[GC]
    BY <1>0, <1>1 DEF Unlink, Goto, IInv, TypeOK, Actors
  <2>3. QED
    BY <2>1, <2>2 DEF IInv, DeadLeaveOrphans, Immortal
<1>6. QED
  BY <1>0, <1>3, <1>4, <1>5, BeginningKeeps

(* The first region of the table to be deleted. *)
LEMMA LeastIn ==
    ASSUME NEW S \in SUBSET Nat, S # {}, NEW less, IsWellFoundedOn(less, Nat),
           \A x, y \in Nat : y < x => <<y, x>> \in less
    PROVE  (CHOOSE r \in S : \A q \in S : r <= q) \in S
<1>1. PICK n \in S : \A m \in S : ~(<<m, n>> \in less)
  BY WFMin
<1>2. \A m \in S : ~(m < n)
  BY <1>1
<1>3. \A m \in S : n <= m
  BY <1>2
<1>4. QED
  BY <1>3

LEMMA LeastFound ==
    ASSUME NEW S \in SUBSET Nat, S # {}
    PROVE  (CHOOSE r \in S : \A q \in S : r <= q) \in S
<1>1. IsWellFoundedOn(OpToRel(<, Nat), Nat)
  BY NatLessThanWellFounded
<1>2. \A x, y \in Nat : y < x => <<y, x>> \in OpToRel(<, Nat)
  BY DEF OpToRel
<1>3. QED
  BY <1>1, <1>2, LeastIn

LEMMA CleanKeeps ==
    ASSUME IInv, Clean
    PROVE  IInv'
<1>0. GC \in Actors /\ GC \notin Procs /\ pc[GC] = "clean" /\ job[GC] = NoJob
  BY ActorsAssumption DEF Clean, Actors, IInv, JobsMatch
<1>1. CASE Mortal = {}
  <2>1. Rest
    BY <1>1 DEF Clean, Rest
  <2>2. QED
    BY <2>1, RestKeeps
<1>2. CASE Mortal # {}
  <2> DEFINE first == CHOOSE r \in Mortal : \A q \in Mortal : r <= q
             orphans == {r \in Owned : r < first}
             marked == [r \in Regions |-> IF r \in orphans
                                          THEN [region[r] EXCEPT !.orphan = TRUE] ELSE region[r]]
  <2>1. /\ region' = [marked EXCEPT ![first].status = "gone"]
        /\ job' = [job EXCEPT ![GC] = [op |-> "delete", region |-> first, target |-> Nobody, at |-> 1]]
        /\ Goto(GC, "visit")
        /\ UNCHANGED <<list, held, life, infos, kept, reused, history>>
    BY <1>2 DEF Clean
  <2>2. first \in Mortal
    BY <1>2, LeastFound, BoundsAssumption DEF Mortal, Owned
  <2>3. first \in Regions /\ Live(first)
    BY <2>2 DEF Mortal, Owned
  <2> HIDE DEF first
  <2>4. \A r \in Regions :
          /\ marked[r] \in [status : {"none", "live", "gone"}, owner : Procs \cup {Nobody}, orphan : BOOLEAN]
          /\ marked[r].status = region[r].status
    <3> SUFFICES ASSUME NEW r \in Regions
                 PROVE  /\ marked[r] \in [status : {"none", "live", "gone"}, owner : Procs \cup {Nobody}, orphan : BOOLEAN]
                        /\ marked[r].status = region[r].status
      OBVIOUS
    <3>1. region[r] \in [status : {"none", "live", "gone"}, owner : Procs \cup {Nobody}, orphan : BOOLEAN]
      BY DEF IInv, TypeOK
    <3>2. marked[r] = region[r] \/ marked[r] = [region[r] EXCEPT !.orphan = TRUE]
      OBVIOUS
    <3>3. QED
      BY <3>1, <3>2
  <2>5. marked \in [Regions -> [status : {"none", "live", "gone"}, owner : Procs \cup {Nobody}, orphan : BOOLEAN]]
    BY <2>4
  <2> HIDE DEF marked
  <2>6. /\ region' \in [Regions -> [status : {"none", "live", "gone"}, owner : Procs \cup {Nobody}, orphan : BOOLEAN]]
        /\ region'[first].status = "gone" /\ \A q \in Regions \ {first} : region'[q].status = region[q].status
    BY <2>1, <2>3, <2>4, <2>5
  <2>7. Begins(GC, first)
    BY <1>0, <2>1, <2>3, <2>6 DEF Begins
  <2>8. DeadLeaveOrphans'
    BY <1>0, <2>1 DEF DeadLeaveOrphans, Goto, IInv, TypeOK
  <2>9. QED
    BY <1>0, <2>3, <2>6, <2>7, <2>8, BeginningKeeps
<1>3. QED
  BY <1>1, <1>2
-----------------------------------------------------------------------------
(* What a deletion that goes on has for itself. *)
LEMMA DeleterStands ==
    ASSUME IInv, NEW a \in Actors, pc[a] \in {"visit", "drop", "freed"} \/ Deleter(a)
    PROVE  /\ Deleter(a) /\ job[a].region \in Regions /\ region[job[a].region].status = "gone"
           /\ job[a] \in JobType /\ job[a].at \in Nat \ {0}
           /\ Infos(a) \in Seq(InfoType) /\ Len(Infos(a)) \in Nat /\ DOMAIN Infos(a) = 1..Len(Infos(a))
           /\ ~AtEnd(a) => job[a].at \in DOMAIN Infos(a)
           /\ \A i \in DOMAIN Infos(a) : Infos(a)[i] \in InfoType /\ Infos(a)[i].pid \in Procs
           /\ \A i, j \in DOMAIN Infos(a) : Infos(a)[i].pid = Infos(a)[j].pid => i = j
           /\ \A x \in Actors \ {a} : Deleter(x) => job[x].region # job[a].region
<1> USE DEF IInv
<1>1. Deleter(a)
  BY DEF JobsMatch
<1>2. /\ job[a].region \in Regions /\ region[job[a].region].status = "gone"
      /\ job[a].at \in Nat \ {0} /\ job[a] \in JobType
  BY <1>1 DEF DeletersStand, StandsIn, TypeOK, JobType
<1>3. /\ Infos(a) \in Seq(InfoType) /\ Len(Infos(a)) \in Nat /\ DOMAIN Infos(a) = 1..Len(Infos(a))
      /\ \A i \in DOMAIN Infos(a) : Infos(a)[i] \in InfoType /\ Infos(a)[i].pid \in Procs
  BY <1>2, InfosTyped DEF Infos
<1>4. ~AtEnd(a) => job[a].at \in DOMAIN Infos(a)
  BY <1>2, <1>3 DEF AtEnd
<1>5. \A i, j \in DOMAIN Infos(a) : Infos(a)[i].pid = Infos(a)[j].pid => i = j
  BY <1>2 DEF ListedOnce, Infos
<1>6. \A x \in Actors \ {a} : Deleter(x) => job[x].region # job[a].region
  BY <1>1 DEF DeletersApart
<1>7. QED
  BY <1>1, <1>2, <1>3, <1>4, <1>5, <1>6

(* An actor who was and stays in the middle of something has not ended, and  *)
(* the collector has no process to look after meanwhile.                     *)
LEMMA BusyKeeps ==
    ASSUME IInv, NEW a \in Actors, JobsStay(a), UNCHANGED <<life, region>>,
           pc[a] \notin {"out", "idle"}, pc'[a] # "idle"
    PROVE  EndedAreOut' /\ DeadLeaveOrphans'
<1>1. EndedAreOut'
  BY DEF IInv, EndedAreOut, JobsStay, Actors
<1>2. Owned' = Owned
  BY DEF Owned, Live
<1>3. pc'[GC] = "idle" => pc[GC] = "idle"
  BY DEF JobsStay, Actors
<1>4. QED
  BY <1>1, <1>2, <1>3 DEF IInv, DeadLeaveOrphans, Immortal

LEMMA SkipKeeps ==
    ASSUME IInv, NEW a \in Actors, Skip(a)
    PROVE  IInv'
<1> USE DEF IInv
<1> DEFINE task == [job[a] EXCEPT !.at = @ + 1]
<1>1. /\ UNCHANGED <<list, held, life, region, infos, kept, reused, pc, overdrawn, starved, lost>>
      /\ job' = [job EXCEPT ![a] = task] /\ pc[a] = "visit" /\ ~AtEnd(a)
      /\ Current(a).usage > 0 => ~InTable(Current(a).pid)
  BY DEF Skip, Visits, Advance, history, table, TypeOK
<1>2. /\ Deleter(a) /\ job[a].region \in Regions /\ region[job[a].region].status = "gone"
      /\ job[a] \in JobType /\ job[a].at \in Nat \ {0} /\ job[a].at \in DOMAIN Infos(a)
      /\ DOMAIN Infos(a) = 1..Len(Infos(a)) /\ Len(Infos(a)) \in Nat
      /\ \A x \in Actors \ {a} : Deleter(x) => job[x].region # job[a].region
      /\ \A i \in DOMAIN Infos(a) : Infos(a)[i].pid \in Procs
  BY <1>1, DeleterStands
<1>3. task \in JobType /\ task.op = "delete" /\ task.region = job[a].region /\ task.at = job[a].at + 1
  BY <1>2 DEF JobType, Deleter
<1> HIDE DEF task
<1>4. /\ pc' \in [Actors -> {"user", "wantProc", "visit", "drop", "freed", "out", "idle", "clean"}]
      /\ job' \in [Actors -> JobType] /\ JobsMatch' /\ JobsStay(a)
      /\ pc'[a] = "visit" /\ job'[a] = task
  <2>1. pc' = [pc EXCEPT ![a] = "visit"]
    BY <1>1 DEF TypeOK
  <2>2. QED
    BY <1>1, <1>3, <2>1, PlacesKept
<1>5. InfosSound' /\ GoneStay
  BY <1>1, InfosStay DEF InfosSound
<1>6. TypeOK' /\ NoWriterStays' /\ OnlyScratchLeft'
  BY <1>1, <1>4 DEF TypeOK, NoWriterStays, OnlyScratchLeft, JobType
<1>7. EndedAreOut' /\ DeadLeaveOrphans'
  BY <1>1, <1>4, BusyKeeps
<1>8. ReadersCounted'
  BY <1>1 DEF ReadersCounted, HeldOnes, Wanting
<1>9. DeletersStand' /\ DeletersApart' /\ UsersVisited' /\ DropsTheirs' /\ HeldReturned'
  <2>1. Infos(a)' = Infos(a) /\ \A x \in Actors \ {a} : Deleter(x) => Infos(x)' = Infos(x)
    BY <1>1, <1>3, <1>4 DEF Infos, JobsStay
  <2>2. StandsIn(a)'
    BY <1>1, <1>2, <1>3, <1>4 DEF StandsIn
  <2>3. Visited(a)'
    <3> SUFFICES ASSUME NEW i \in DOMAIN Infos(a)
                 PROVE  /\ Infos(a)[i].tmp /\ ~Infos(a)[i].tmp2 => <<job[a].region, Infos(a)[i].pid>> \in starved
                        /\ i < job[a].at + 1 /\ Infos(a)[i].usage > 0 /\ InTable(Infos(a)[i].pid) => Infos(a)[i].tmp
      BY <1>1, <1>3, <1>4, <2>1 DEF Visited, InTable
    <3>1. i = job[a].at => ~(Infos(a)[i].usage > 0 /\ InTable(Infos(a)[i].pid))
      BY <1>1 DEF Current
    <3>2. i < job[a].at + 1 => i = job[a].at \/ i < job[a].at
      BY <1>2
    <3>3. QED
      BY <1>1, <1>2, <3>1, <3>2 DEF UsersVisited, Visited
  <2>4. ToDrop(a)' = ToDrop(a)
    BY <1>1, <1>4, <2>1 DEF ToDrop
  <2>5. DropsOwn(a)'
    BY <1>1, <1>2, <2>1, <2>4 DEF DropsTheirs, DropsOwn
  <2>6. \A p \in Procs \ lost' : held'[p] = a => GoesBack(p)'
    <3> SUFFICES ASSUME NEW p \in Procs \ lost, held[p] = a
                 PROVE  (Deleter(a) /\ \E i \in ToDrop(a) : Infos(a)[i].pid = p)'
      BY <1>1 DEF GoesBack
    <3>1. \E i \in ToDrop(a) : Infos(a)[i].pid = p
      BY ActorsAssumption DEF HeldReturned, GoesBack, Actors
    <3>2. QED
      BY <1>3, <1>4, <2>1, <2>4, <3>1 DEF Deleter
  <2>7. \A p \in Procs : InTable(p)' => InTable(p)
    BY <1>1 DEF InTable
  <2>8. QED
    BY <1>1, <1>2, <1>3, <1>4, <2>1, <2>2, <2>3, <2>5, <2>6, <2>7, StepOfOne
<1>10. QED
  BY <1>4, <1>5, <1>6, <1>7, <1>8, <1>9 DEF InfosSound

LEMMA CheckoutKeeps ==
    ASSUME IInv, NEW a \in Actors, CheckoutUser(a)
    PROVE  IInv'
<1> USE DEF IInv
<1> DEFINE task == [job[a] EXCEPT !.target = Current(a).pid]
<1>1. /\ UNCHANGED <<held, life, region, infos, kept, reused, overdrawn, starved, lost>>
      /\ list' = TakeRead(list) /\ pc' = [pc EXCEPT ![a] = "wantProc"]
      /\ job' = [job EXCEPT ![a] = task] /\ pc[a] = "visit" /\ ~AtEnd(a)
  BY DEF CheckoutUser, Visits, history, table, TypeOK, Goto
<1>2. /\ Deleter(a) /\ job[a].region \in Regions /\ region[job[a].region].status = "gone"
      /\ job[a] \in JobType /\ job[a].at \in Nat \ {0} /\ job[a].at \in DOMAIN Infos(a)
      /\ DOMAIN Infos(a) = 1..Len(Infos(a)) /\ Len(Infos(a)) \in Nat
      /\ \A x \in Actors \ {a} : Deleter(x) => job[x].region # job[a].region
      /\ \A i \in DOMAIN Infos(a) : Infos(a)[i].pid \in Procs
  BY <1>1, DeleterStands
<1>3. /\ task \in JobType /\ task.op = "delete" /\ task.region = job[a].region /\ task.at = job[a].at
      /\ task.target = Current(a).pid /\ task.target \in Procs
  <2>1. Current(a).pid \in Procs
    BY <1>2 DEF Current
  <2>2. QED
    BY <1>2, <2>1 DEF JobType, Deleter
<1> HIDE DEF task
<1>4. /\ pc' \in [Actors -> {"user", "wantProc", "visit", "drop", "freed", "out", "idle", "clean"}]
      /\ job' \in [Actors -> JobType] /\ JobsMatch' /\ JobsStay(a)
      /\ pc'[a] = "wantProc" /\ job'[a] = task
  BY <1>1, <1>3, PlacesKept
<1>5. InfosSound' /\ GoneStay
  BY <1>1, InfosStay DEF InfosSound
<1>6. TypeOK' /\ NoWriterStays' /\ OnlyScratchLeft'
  BY <1>1, <1>4, ReaderComes DEF TypeOK, NoWriterStays, OnlyScratchLeft, JobType
<1>7. EndedAreOut' /\ DeadLeaveOrphans'
  BY <1>1, <1>4, BusyKeeps
<1>8. ReadersCounted'
  <2>1. HeldOnes' = HeldOnes
    BY <1>1 DEF HeldOnes
  <2>2. Wanting' = Wanting \cup {a} /\ a \notin Wanting
    BY <1>1, <1>4 DEF Wanting, JobsStay
  <2>3. Cardinality(Wanting') = Cardinality(Wanting) + 1
    BY <2>2, CountsFinite, FS_AddElement
  <2>4. list'.readers = list.readers + 1 /\ list.readers \in Int
    BY <1>1, ReaderComes DEF TypeOK, LockType
  <2>5. QED
    BY <2>1, <2>3, <2>4, CountsFinite DEF ReadersCounted
<1>9. DeletersStand' /\ DeletersApart' /\ UsersVisited' /\ DropsTheirs' /\ HeldReturned'
  <2>1. Infos(a)' = Infos(a) /\ \A x \in Actors \ {a} : Deleter(x) => Infos(x)' = Infos(x)
    BY <1>1, <1>3, <1>4 DEF Infos, JobsStay
  <2>2. StandsIn(a)'
    BY <1>1, <1>2, <1>3, <1>4, <2>1 DEF StandsIn, Current
  <2>3. Visited(a)'
    BY <1>1, <1>2, <1>3, <1>4, <2>1 DEF UsersVisited, Visited, InTable
  <2>4. ToDrop(a)' = ToDrop(a)
    BY <1>1, <1>4, <2>1 DEF ToDrop
  <2>5. DropsOwn(a)'
    BY <1>1, <1>2, <2>1, <2>4 DEF DropsTheirs, DropsOwn
  <2>6. \A p \in Procs \ lost' : held'[p] = a => GoesBack(p)'
    <3> SUFFICES ASSUME NEW p \in Procs \ lost, held[p] = a
                 PROVE  (Deleter(a) /\ \E i \in ToDrop(a) : Infos(a)[i].pid = p)'
      BY <1>1 DEF GoesBack
    <3>1. \E i \in ToDrop(a) : Infos(a)[i].pid = p
      BY ActorsAssumption DEF HeldReturned, GoesBack, Actors
    <3>2. QED
      BY <1>3, <1>4, <2>1, <2>4, <3>1 DEF Deleter
  <2>7. \A p \in Procs : InTable(p)' => InTable(p)
    BY <1>1 DEF InTable
  <2>8. QED
    BY <1>1, <1>2, <1>3, <1>4, <2>1, <2>2, <2>3, <2>5, <2>6, <2>7, StepOfOne
<1>10. QED
  BY <1>4, <1>5, <1>6, <1>7, <1>8, <1>9 DEF InfosSound

LEMMA TakeKeeps ==
    ASSUME IInv, NEW a \in Actors, Take(a)
    PROVE  IInv'
<1> USE DEF IInv
<1> DEFINE r == job[a].region
           p == job[a].target
           k == job[a].at
           task == [job[a] EXCEPT !.at = @ + 1]
<1>1. /\ UNCHANGED <<list, life, region, kept, reused, overdrawn, lost>>
      /\ held' = [held EXCEPT ![p] = a] /\ held[p] = Nobody
      /\ pc' = [pc EXCEPT ![a] = "visit"]
      /\ job' = [job EXCEPT ![a] = task] /\ pc[a] = "wantProc" /\ Deleter(a)
  BY DEF Take, Advance, Deleter, TypeOK, Goto
<1>2. PICK scratch \in BOOLEAN :
        /\ infos' = [infos EXCEPT ![r][k] = [@ EXCEPT !.tmp = TRUE, !.tmp2 = scratch]]
        /\ starved' = IF scratch THEN starved ELSE starved \cup {<<r, p>>}
  BY DEF Take
<1>3. /\ r \in Regions /\ region[r].status = "gone" /\ job[a] \in JobType /\ k \in Nat \ {0}
      /\ Infos(a) \in Seq(InfoType) /\ DOMAIN Infos(a) = 1..Len(Infos(a)) /\ Len(Infos(a)) \in Nat
      /\ \A i \in DOMAIN Infos(a) : Infos(a)[i] \in InfoType /\ Infos(a)[i].pid \in Procs
      /\ \A i, j \in DOMAIN Infos(a) : Infos(a)[i].pid = Infos(a)[j].pid => i = j
      /\ \A x \in Actors \ {a} : Deleter(x) => job[x].region # r
  BY <1>1, DeleterStands
<1>4. k \in DOMAIN Infos(a) /\ Infos(a)[k].pid = p /\ p \in Procs
  BY <1>1, <1>3 DEF DeletersStand, StandsIn, Current
<1>5. task \in JobType /\ task.op = "delete" /\ task.region = r /\ task.at = k + 1
  BY <1>1, <1>3 DEF JobType, Deleter
<1> DEFINE new == [Infos(a)[k] EXCEPT !.tmp = TRUE, !.tmp2 = scratch]
           t == [Infos(a) EXCEPT ![k] = new]
<1>6. new \in InfoType /\ new.pid = p /\ new.tmp /\ new.tmp2 = scratch
      /\ new.usage = Infos(a)[k].usage /\ new.mapped = Infos(a)[k].mapped
  BY <1>3, <1>4 DEF InfoType
<1>7. infos' = [infos EXCEPT ![r] = t] /\ infos \in [Regions -> Seq(InfoType)]
  BY <1>2 DEF TypeOK, InfoType, Infos
<1> HIDE DEF new
<1>8. t \in Seq(InfoType) /\ DOMAIN t = DOMAIN Infos(a)
      /\ \A i \in DOMAIN t : t[i] = IF i = k THEN new ELSE Infos(a)[i]
  BY <1>3, <1>4, <1>6, ExceptSeq, LenProperties
<1> HIDE DEF t, task
<1>9. infos'[r] = t /\ (\A q \in Regions \ {r} : infos'[q] = infos[q]) /\ infos' \in [Regions -> Seq(InfoType)]
  BY <1>3, <1>7, <1>8
<1>10. /\ pc' \in [Actors -> {"user", "wantProc", "visit", "drop", "freed", "out", "idle", "clean"}]
       /\ job' \in [Actors -> JobType] /\ JobsMatch' /\ JobsStay(a)
       /\ pc'[a] = "visit" /\ job'[a] = task
  BY <1>1, <1>5, PlacesKept
<1>11. held' \in [Procs -> Actors \cup {Nobody}] /\ held'[p] = a /\ \A q \in Procs \ {p} : held'[q] = held[q]
  BY <1>1, <1>4 DEF TypeOK
<1>12. starved \subseteq starved' /\ (~scratch => <<r, p>> \in starved') /\ starved' \subseteq Regions \X Procs
  BY <1>2, <1>3, <1>4 DEF TypeOK
<1>13. InfosSound'
  <2>1. ListedOnce'
    <3>1. \A i \in DOMAIN t : i \in DOMAIN Infos(a) /\ t[i].pid = Infos(a)[i].pid
      BY <1>4, <1>6, <1>8
    <3>2. \A i, j \in DOMAIN t : t[i].pid = t[j].pid => i = j
      BY <1>3, <3>1
    <3>3. QED
      BY <1>9, <3>2 DEF ListedOnce
  <2>2. MarkedByDeletion'
    BY <1>1, <1>3, <1>9 DEF MarkedByDeletion
  <2>3. UsageMatches'
    <3> SUFFICES ASSUME NEW q \in Regions, NEW i \in DOMAIN infos'[q], Miscounted(infos'[q][i])
                 PROVE  <<q, infos'[q][i].pid>> \in overdrawn
      BY <1>1 DEF UsageMatches, Miscounted
    <3>1. CASE q = r
      <4>1. i \in DOMAIN Infos(a) /\ infos'[q][i].pid = Infos(a)[i].pid /\ Miscounted(Infos(a)[i])
        BY <1>4, <1>6, <1>8, <1>9, <3>1 DEF Miscounted
      <4>2. QED
        BY <1>3, <3>1, <4>1 DEF UsageMatches, Infos
    <3>2. CASE q # r
      BY <1>9, <3>2 DEF UsageMatches
    <3>3. QED
      BY <3>1, <3>2
  <2>4. QED
    BY <2>1, <2>2, <2>3 DEF InfosSound
<1>14. TypeOK' /\ NoWriterStays' /\ OnlyScratchLeft'
  BY <1>1, <1>9, <1>10, <1>11, <1>12 DEF TypeOK, NoWriterStays, OnlyScratchLeft, JobType, InfoType
<1>15. EndedAreOut' /\ DeadLeaveOrphans'
  BY <1>1, <1>10, BusyKeeps
<1>16. ReadersCounted'
  <2>1. HeldOnes' = HeldOnes \cup {p} /\ p \notin HeldOnes
    BY <1>1, <1>4, <1>11, ActorsAssumption DEF HeldOnes, Actors
  <2>2. Wanting' = Wanting \ {a} /\ a \in Wanting
    BY <1>1, <1>10 DEF Wanting, JobsStay
  <2>3. Cardinality(HeldOnes') = Cardinality(HeldOnes) + 1
    BY <2>1, CountsFinite, FS_AddElement
  <2>4. Cardinality(Wanting') = Cardinality(Wanting) - 1
    BY <2>2, CountsFinite, FS_RemoveElement
  <2>5. QED
    BY <1>1, <2>3, <2>4, CountsFinite DEF ReadersCounted
<1>17. DeletersStand' /\ DeletersApart' /\ UsersVisited' /\ DropsTheirs' /\ HeldReturned'
  <2>1. Infos(a)' = t /\ \A x \in Actors \ {a} : Deleter(x) => Infos(x)' = Infos(x)
    BY <1>3, <1>5, <1>9, <1>10 DEF Infos, JobsStay, DeletersStand, StandsIn
  <2>2. StandsIn(a)'
    BY <1>1, <1>3, <1>5, <1>10 DEF StandsIn
  <2>3. Visited(a)'
    <3> SUFFICES ASSUME NEW i \in DOMAIN t
                 PROVE  /\ t[i].tmp /\ ~t[i].tmp2 => <<r, t[i].pid>> \in starved'
                        /\ i < k + 1 /\ t[i].usage > 0 /\ InTable(t[i].pid) => t[i].tmp
      BY <1>1, <1>5, <1>10, <2>1 DEF Visited, InTable
    <3>1. CASE i = k
      BY <1>6, <1>8, <1>12, <3>1
    <3>2. CASE i # k
      <4>1. t[i] = Infos(a)[i] /\ i \in DOMAIN Infos(a)
        BY <1>8, <3>2
      <4>2. i < k + 1 => i < k
        BY <1>3, <3>2, <4>1
      <4>3. QED
        BY <1>1, <1>12, <4>1, <4>2 DEF UsersVisited, Visited
    <3>3. QED
      BY <3>1, <3>2
  <2>4. ToDrop(a)' = ToDrop(a) \cup {k}
    <3>1. ToDrop(a)' = {i \in DOMAIN t : t[i].tmp}
      BY <1>10, <2>1 DEF ToDrop
    <3>2. ToDrop(a) = {i \in DOMAIN Infos(a) : Infos(a)[i].tmp}
      BY <1>1 DEF ToDrop
    <3>3. QED
      BY <1>4, <1>6, <1>8, <3>1, <3>2
  <2>5. \A i \in DOMAIN t : t[i].pid = Infos(a)[i].pid
    BY <1>4, <1>6, <1>8
  <2>6. DropsOwn(a)'
    <3> SUFFICES ASSUME NEW i \in ToDrop(a)' PROVE held'[t[i].pid] = a
      BY <2>1 DEF DropsOwn
    <3>1. i \in DOMAIN Infos(a) /\ t[i].pid = Infos(a)[i].pid
      BY <1>4, <1>8, <2>4, <2>5 DEF ToDrop
    <3>2. CASE i = k
      BY <1>4, <1>11, <3>1, <3>2
    <3>3. CASE i # k
      <4>1. i \in ToDrop(a) /\ Infos(a)[i].pid # p /\ Infos(a)[i].pid \in Procs
        BY <1>3, <1>4, <2>4, <3>1, <3>3
      <4>2. held[Infos(a)[i].pid] = a
        BY <1>1, <4>1 DEF DropsTheirs, DropsOwn
      <4>3. QED
        BY <1>11, <3>1, <4>1, <4>2
    <3>4. QED
      BY <3>2, <3>3
  <2>7. \A q \in Procs \ lost' : held'[q] = a => GoesBack(q)'
    <3> SUFFICES ASSUME NEW q \in Procs \ lost, held'[q] = a
                 PROVE  Deleter(a)' /\ \E i \in ToDrop(a)' : t[i].pid = q
      BY <1>1, <2>1 DEF GoesBack
    <3>1. Deleter(a)'
      BY <1>5, <1>10 DEF Deleter
    <3>2. CASE q = p
      BY <1>4, <2>4, <2>5, <1>8, <3>1, <3>2
    <3>3. CASE q # p
      <4>1. held[q] = a
        BY <1>11, <3>3
      <4>2. PICK i \in ToDrop(a) : Infos(a)[i].pid = q
        BY <4>1, ActorsAssumption DEF HeldReturned, GoesBack, Actors
      <4>3. i \in DOMAIN t
        BY <1>8, <4>2 DEF ToDrop
      <4>4. QED
        BY <2>4, <2>5, <3>1, <4>2, <4>3
    <3>4. QED
      BY <3>2, <3>3
  <2>8. \A q \in Procs : InTable(q)' => InTable(q)
    BY <1>1 DEF InTable
  <2>9. \A q \in Procs : held'[q] = held[q] \/ {held[q], held'[q]} \subseteq {Nobody, a}
    BY <1>1, <1>4, <1>11
  <2>10. QED
    BY <1>1, <1>3, <1>5, <1>10, <1>12, <2>1, <2>2, <2>3, <2>6, <2>7, <2>8, <2>9, StepOfOne
<1>18. QED
  BY <1>10, <1>13, <1>14, <1>15, <1>16, <1>17 DEF InfosSound

LEMMA CopyKeeps ==
    ASSUME IInv, NEW a \in Actors, Copy(a)
    PROVE  IInv'
<1> USE DEF IInv
<1> DEFINE r == job[a].region
           task == [job[a] EXCEPT !.at = 1, !.target = Nobody]
           Keeps(info) == info.mapped /\ InTable(info.pid) /\ ~(info.tmp /\ info.tmp2)
           left == {q \in Procs : Listed(r, q) /\ Keeps(infos[r][Place(r, q)])}
<1>1. /\ UNCHANGED <<list, held, life, region, infos, reused, overdrawn, starved, lost>>
      /\ kept' = kept \cup {<<r, q>> : q \in left}
      /\ pc' = [pc EXCEPT ![a] = "drop"]
      /\ job' = [job EXCEPT ![a] = task] /\ pc[a] = "visit" /\ AtEnd(a)
  <2>1. job' = [job EXCEPT ![a] = task]
    BY DEF Copy, TypeOK
  <2>2. QED
    BY <2>1 DEF Copy, history, Goto
<1>2. /\ Deleter(a) /\ r \in Regions /\ region[r].status = "gone"
      /\ job[a] \in JobType /\ job[a].at \in Nat \ {0}
      /\ DOMAIN Infos(a) = 1..Len(Infos(a)) /\ Len(Infos(a)) \in Nat
      /\ \A x \in Actors \ {a} : Deleter(x) => job[x].region # r
      /\ \A i \in DOMAIN Infos(a) : Infos(a)[i] \in InfoType /\ Infos(a)[i].pid \in Procs
  BY <1>1, DeleterStands
<1>3. task \in JobType /\ task.op = "delete" /\ task.region = r /\ task.at = 1
  BY <1>2 DEF JobType, Deleter
<1>4. \A q \in left : <<r, q>> \in overdrawn \cup starved
  <2> SUFFICES ASSUME NEW q \in left PROVE <<r, q>> \in overdrawn \cup starved
    OBVIOUS
  <2> DEFINE i == Place(r, q)
             info == infos[r][i]
  <2>1. q \in Procs /\ Listed(r, q) /\ info.mapped /\ InTable(info.pid) /\ ~(info.tmp /\ info.tmp2)
    OBVIOUS
  <2>2. i \in DOMAIN Infos(a) /\ info = Infos(a)[i] /\ info.pid = q
    BY <1>2, <2>1, PlaceFound DEF Infos
  <2>3. info.usage \in Int
    BY <1>2, <2>2, BoundsAssumption DEF InfoType
  <2> HIDE DEF i, info
  <2>4. CASE info.usage <= 0
    <3>1. Miscounted(Infos(a)[i])
      BY <2>1, <2>2, <2>3, <2>4 DEF Miscounted
    <3>2. QED
      BY <1>2, <2>2, <3>1 DEF UsageMatches, Infos
  <2>5. CASE info.usage > 0
    <3>1. i < job[a].at
      BY <1>1, <1>2, <2>2 DEF AtEnd
    <3>2. info.tmp
      BY <1>1, <1>2, <2>1, <2>2, <2>5, <3>1 DEF UsersVisited, Visited
    <3>3. QED
      BY <1>2, <2>1, <2>2, <3>2 DEF UsersVisited, Visited
  <2>6. QED
    BY <2>3, <2>4, <2>5
<1>5. left \subseteq Procs
  OBVIOUS
<1> HIDE DEF task, left
<1>6. /\ pc' \in [Actors -> {"user", "wantProc", "visit", "drop", "freed", "out", "idle", "clean"}]
      /\ job' \in [Actors -> JobType] /\ JobsMatch' /\ JobsStay(a)
      /\ pc'[a] = "drop" /\ job'[a] = task
  BY <1>1, <1>3, PlacesKept
<1>7. InfosSound' /\ GoneStay
  BY <1>1, InfosStay DEF InfosSound
<1>8. TypeOK' /\ NoWriterStays' /\ OnlyScratchLeft'
  <2>1. kept' \subseteq Regions \X Procs /\ kept' \subseteq overdrawn \cup starved
    BY <1>1, <1>2, <1>4, <1>5 DEF TypeOK, OnlyScratchLeft
  <2>2. QED
    BY <1>1, <1>6, <2>1 DEF TypeOK, NoWriterStays, OnlyScratchLeft, JobType
<1>9. EndedAreOut' /\ DeadLeaveOrphans'
  BY <1>1, <1>6, BusyKeeps
<1>10. ReadersCounted'
  <2>1. HeldOnes' = HeldOnes /\ Wanting' = Wanting
    BY <1>1, <1>6 DEF HeldOnes, Wanting, JobsStay
  <2>2. QED
    BY <1>1, <2>1 DEF ReadersCounted
<1>11. DeletersStand' /\ DeletersApart' /\ UsersVisited' /\ DropsTheirs' /\ HeldReturned'
  <2>1. Infos(a)' = Infos(a) /\ \A x \in Actors \ {a} : Deleter(x) => Infos(x)' = Infos(x)
    BY <1>1, <1>3, <1>6 DEF Infos, JobsStay
  <2>2. StandsIn(a)'
    BY <1>1, <1>2, <1>3, <1>6 DEF StandsIn
  <2>3. Visited(a)'
    BY <1>1, <1>2, <1>3, <1>6, <2>1 DEF UsersVisited, Visited
  <2>4. ToDrop(a)' = ToDrop(a)
    <3>1. ToDrop(a) = {i \in DOMAIN Infos(a) : Infos(a)[i].tmp}
      BY <1>1 DEF ToDrop
    <3>2. ToDrop(a)' = {i \in DOMAIN Infos(a) : Infos(a)[i].tmp /\ i >= 1}
      BY <1>3, <1>6, <2>1 DEF ToDrop
    <3>3. QED
      BY <1>2, <3>1, <3>2
  <2>5. DropsOwn(a)'
    BY <1>1, <1>2, <2>1, <2>4 DEF DropsTheirs, DropsOwn
  <2>6. \A p \in Procs \ lost' : held'[p] = a => GoesBack(p)'
    <3> SUFFICES ASSUME NEW p \in Procs \ lost, held[p] = a
                 PROVE  (Deleter(a) /\ \E i \in ToDrop(a) : Infos(a)[i].pid = p)'
      BY <1>1 DEF GoesBack
    <3>1. \E i \in ToDrop(a) : Infos(a)[i].pid = p
      BY ActorsAssumption DEF HeldReturned, GoesBack, Actors
    <3>2. QED
      BY <1>3, <1>6, <2>1, <2>4, <3>1 DEF Deleter
  <2>7. \A p \in Procs : InTable(p)' => InTable(p)
    BY <1>1 DEF InTable
  <2>8. QED
    BY <1>1, <1>2, <1>3, <1>6, <2>1, <2>2, <2>3, <2>5, <2>6, <2>7, StepOfOne
<1>12. QED
  BY <1>6, <1>7, <1>8, <1>9, <1>10, <1>11 DEF InfosSound

LEMMA DropKeepsAll ==
    ASSUME IInv, NEW a \in Actors, Drop(a)
    PROVE  IInv'
<1> USE DEF IInv
<1> DEFINE k == job[a].at
           p == Current(a).pid
<1>1. /\ UNCHANGED <<life, region, infos, kept, job, reused, overdrawn, starved, lost>>
      /\ pc' = [pc EXCEPT ![a] = "freed"] /\ pc[a] = "drop" /\ ~AtEnd(a)
      /\ IF Current(a).tmp
         THEN held' = [held EXCEPT ![p] = Nobody] /\ list' = Release(list)
         ELSE UNCHANGED <<held, list>>
  BY DEF Drop, history, table, Goto
<1>2. /\ Deleter(a) /\ job[a].region \in Regions /\ region[job[a].region].status = "gone"
      /\ job[a] \in JobType /\ k \in Nat \ {0} /\ k \in DOMAIN Infos(a)
      /\ DOMAIN Infos(a) = 1..Len(Infos(a)) /\ Len(Infos(a)) \in Nat
      /\ \A x \in Actors \ {a} : Deleter(x) => job[x].region # job[a].region
      /\ \A i \in DOMAIN Infos(a) : Infos(a)[i].pid \in Procs
      /\ \A i, j \in DOMAIN Infos(a) : Infos(a)[i].pid = Infos(a)[j].pid => i = j
  BY <1>1, DeleterStands
<1>3. p = Infos(a)[k].pid /\ p \in Procs /\ Current(a).tmp = Infos(a)[k].tmp
  BY <1>2 DEF Current
<1>4. /\ pc' \in [Actors -> {"user", "wantProc", "visit", "drop", "freed", "out", "idle", "clean"}]
      /\ job' \in [Actors -> JobType] /\ JobsMatch' /\ JobsStay(a)
      /\ pc'[a] = "freed" /\ job'[a] = job[a]
  <2>1. job' = [job EXCEPT ![a] = job[a]]
    BY <1>1 DEF TypeOK
  <2>2. QED
    BY <1>1, <1>2, <2>1, PlacesKept DEF Deleter
<1> HIDE DEF p
<1>5. Current(a).tmp => k \in ToDrop(a) /\ held[p] = a
  <2>1. Current(a).tmp => k \in ToDrop(a)
    <3>1. ToDrop(a) = {i \in DOMAIN Infos(a) : Infos(a)[i].tmp /\ i >= k}
      BY <1>1 DEF ToDrop
    <3>2. k \in DOMAIN Infos(a) /\ k >= k
      BY <1>2
    <3>3. Current(a).tmp => Infos(a)[k].tmp
      BY <1>3
    <3>4. QED
      BY <3>1, <3>2, <3>3
  <2>2. QED
    BY <1>2, <1>3, <2>1 DEF DropsTheirs, DropsOwn
<1>6. /\ held' \in [Procs -> Actors \cup {Nobody}]
      /\ Current(a).tmp => held'[p] = Nobody
      /\ ~Current(a).tmp => held'[p] = held[p]
      /\ \A q \in Procs \ {p} : held'[q] = held[q]
  BY <1>1, <1>3 DEF TypeOK
<1>7. list' \in LockType /\ list'.writers = 0
      /\ list'.readers = IF Current(a).tmp THEN list.readers - 1 ELSE list.readers
  BY <1>1, ReaderLeaves DEF TypeOK, NoWriterStays
<1>8. InfosSound' /\ GoneStay
  BY <1>1, InfosStay DEF InfosSound
<1>9. TypeOK' /\ NoWriterStays' /\ OnlyScratchLeft'
  BY <1>1, <1>4, <1>6, <1>7 DEF TypeOK, NoWriterStays, OnlyScratchLeft, JobType
<1>10. EndedAreOut' /\ DeadLeaveOrphans'
  BY <1>1, <1>4, BusyKeeps
<1>11. ReadersCounted'
  <2>1. Wanting' = Wanting
    BY <1>1, <1>4 DEF Wanting, JobsStay
  <2>2. CASE Current(a).tmp
    <3>1. HeldOnes' = HeldOnes \ {p} /\ p \in HeldOnes
      BY <1>3, <1>5, <1>6, <2>2, ActorsAssumption DEF HeldOnes, Actors
    <3>2. Cardinality(HeldOnes') = Cardinality(HeldOnes) - 1
      BY <3>1, CountsFinite, FS_RemoveElement
    <3>3. QED
      BY <1>7, <2>1, <2>2, <3>2, CountsFinite DEF ReadersCounted
  <2>3. CASE ~Current(a).tmp
    <3>1. HeldOnes' = HeldOnes
      BY <1>1, <2>3 DEF HeldOnes
    <3>2. QED
      BY <1>7, <2>1, <2>3, <3>1 DEF ReadersCounted
  <2>4. QED
    BY <2>2, <2>3
<1>12. DeletersStand' /\ DeletersApart' /\ UsersVisited' /\ DropsTheirs' /\ HeldReturned'
  <2>1. Infos(a)' = Infos(a) /\ \A x \in Actors \ {a} : Deleter(x) => Infos(x)' = Infos(x)
    BY <1>1 DEF Infos
  <2>2. StandsIn(a)'
    BY <1>1, <1>2, <1>4 DEF StandsIn
  <2>3. Visited(a)'
    BY <1>1, <1>2, <1>4, <2>1 DEF UsersVisited, Visited
  <2>4. ToDrop(a)' = ToDrop(a) \ {k}
    <3>1. ToDrop(a) = {i \in DOMAIN Infos(a) : Infos(a)[i].tmp /\ i >= k}
      BY <1>1 DEF ToDrop
    <3>2. ToDrop(a)' = {i \in DOMAIN Infos(a) : Infos(a)[i].tmp /\ i > k}
      BY <1>4, <2>1 DEF ToDrop
    <3>3. QED
      BY <1>2, <3>1, <3>2
  <2>5. DropsOwn(a)'
    <3> SUFFICES ASSUME NEW i \in ToDrop(a)' PROVE held'[Infos(a)[i].pid] = a
      BY <2>1 DEF DropsOwn
    <3>1. i \in ToDrop(a) /\ i # k /\ i \in DOMAIN Infos(a)
      BY <2>4 DEF ToDrop
    <3>2. Infos(a)[i].pid # p /\ Infos(a)[i].pid \in Procs
      BY <1>2, <1>3, <3>1
    <3>3. held[Infos(a)[i].pid] = a
      BY <1>2, <3>1 DEF DropsTheirs, DropsOwn
    <3>4. QED
      BY <1>6, <3>2, <3>3
  <2>6. \A q \in Procs \ lost' : held'[q] = a => GoesBack(q)'
    <3> SUFFICES ASSUME NEW q \in Procs \ lost, held'[q] = a
                 PROVE  Deleter(a)' /\ \E i \in ToDrop(a)' : Infos(a)[i].pid = q
      BY <1>1, <2>1 DEF GoesBack
    <3>1. held[q] = a /\ (q = p => ~Current(a).tmp)
      BY <1>6, ActorsAssumption DEF Actors
    <3>2. PICK i \in ToDrop(a) : Infos(a)[i].pid = q
      BY <3>1, ActorsAssumption DEF HeldReturned, GoesBack, Actors
    <3>3. i # k
      BY <1>3, <3>1, <3>2 DEF ToDrop
    <3>4. QED
      BY <1>2, <1>4, <2>4, <3>2, <3>3 DEF Deleter
  <2>7. \A q \in Procs : InTable(q)' => InTable(q)
    BY <1>1 DEF InTable
  <2>8. \A q \in Procs : held'[q] = held[q] \/ {held[q], held'[q]} \subseteq {Nobody, a}
    BY <1>5, <1>6
  <2>9. QED
    BY <1>1, <1>2, <1>4, <2>1, <2>2, <2>3, <2>5, <2>6, <2>7, <2>8, StepOfOne
<1>13. QED
  BY <1>4, <1>8, <1>9, <1>10, <1>11, <1>12 DEF InfosSound

LEMMA FollowKeeps ==
    ASSUME IInv, NEW a \in Actors, Follow(a)
    PROVE  IInv'
<1> USE DEF IInv
<1> DEFINE k == job[a].at
           n == Len(Infos(a))
           theirs == {p \in Procs : held[p] = a}
<1>1. /\ UNCHANGED <<list, held, life, region, infos, kept, overdrawn, starved>>
      /\ pc' = [pc EXCEPT ![a] = "drop"] /\ pc[a] = "freed" /\ reused' = reused \ {a}
  BY DEF Follow, table, Goto
<1>2. /\ Deleter(a) /\ job[a].region \in Regions /\ region[job[a].region].status = "gone"
      /\ job[a] \in JobType /\ k \in Nat \ {0}
      /\ DOMAIN Infos(a) = 1..n /\ n \in Nat
      /\ \A x \in Actors \ {a} : Deleter(x) => job[x].region # job[a].region
      /\ \A i \in DOMAIN Infos(a) : Infos(a)[i].pid \in Procs
  BY <1>1, DeleterStands
<1>3. PICK m \in Nat \ {0} :
        /\ job' = [job EXCEPT ![a] = [job[a] EXCEPT !.at = m]]
        /\ (m = k + 1 /\ lost' = lost) \/ (m = n + 1 /\ lost' = lost \cup theirs)
  <2>1. CASE Advance(a) /\ UNCHANGED lost
    <3>1. job' = [job EXCEPT ![a] = [job[a] EXCEPT !.at = k + 1]]
      BY <2>1 DEF Advance, TypeOK
    <3>2. k + 1 \in Nat \ {0}
      BY <1>2
    <3>3. QED
      BY <2>1, <3>1, <3>2
  <2>2. CASE /\ job' = [job EXCEPT ![a].at = Len(Infos(a)) + 1]
             /\ lost' = lost \cup theirs
    <3>1. job' = [job EXCEPT ![a] = [job[a] EXCEPT !.at = n + 1]]
      BY <2>2 DEF TypeOK
    <3>2. n + 1 \in Nat \ {0}
      BY <1>2
    <3>3. QED
      BY <2>2, <3>1, <3>2
  <2>3. QED
    BY <2>1, <2>2 DEF Follow
<1> DEFINE task == [job[a] EXCEPT !.at = m]
<1>4. task \in JobType /\ task.op = "delete" /\ task.region = job[a].region /\ task.at = m
  BY <1>2, <1>3 DEF JobType, Deleter
<1>5. job' = [job EXCEPT ![a] = task] /\ lost \subseteq lost' /\ lost' \subseteq Procs
  BY <1>3 DEF TypeOK
<1> HIDE DEF task
<1>6. /\ pc' \in [Actors -> {"user", "wantProc", "visit", "drop", "freed", "out", "idle", "clean"}]
      /\ job' \in [Actors -> JobType] /\ JobsMatch' /\ JobsStay(a)
      /\ pc'[a] = "drop" /\ job'[a] = task
  BY <1>1, <1>4, <1>5, PlacesKept
<1>7. InfosSound' /\ GoneStay
  BY <1>1, InfosStay DEF InfosSound
<1>8. TypeOK' /\ NoWriterStays' /\ OnlyScratchLeft'
  BY <1>1, <1>5, <1>6 DEF TypeOK, NoWriterStays, OnlyScratchLeft, JobType
<1>9. EndedAreOut' /\ DeadLeaveOrphans'
  BY <1>1, <1>6, BusyKeeps
<1>10. ReadersCounted'
  <2>1. HeldOnes' = HeldOnes /\ Wanting' = Wanting
    BY <1>1, <1>6 DEF HeldOnes, Wanting, JobsStay
  <2>2. QED
    BY <1>1, <2>1 DEF ReadersCounted
<1>11. DeletersStand' /\ DeletersApart' /\ UsersVisited' /\ DropsTheirs' /\ HeldReturned'
  <2>1. Infos(a)' = Infos(a) /\ \A x \in Actors \ {a} : Deleter(x) => Infos(x)' = Infos(x)
    BY <1>1, <1>4, <1>6 DEF Infos, JobsStay
  <2>2. StandsIn(a)'
    BY <1>1, <1>2, <1>3, <1>4, <1>6 DEF StandsIn
  <2>3. Visited(a)'
    BY <1>1, <1>2, <1>4, <1>6, <2>1 DEF UsersVisited, Visited
  <2>4. ToDrop(a) = {i \in DOMAIN Infos(a) : Infos(a)[i].tmp /\ i > k}
        /\ ToDrop(a)' = {i \in DOMAIN Infos(a) : Infos(a)[i].tmp /\ i >= m}
    BY <1>1, <1>4, <1>6, <2>1 DEF ToDrop
  <2>5. (m = k + 1 => ToDrop(a)' = ToDrop(a)) /\ (m = n + 1 => ToDrop(a)' = {})
    BY <1>2, <2>4
  <2>6. DropsOwn(a)'
    BY <1>1, <1>2, <1>3, <2>1, <2>5 DEF DropsTheirs, DropsOwn
  <2>7. \A p \in Procs \ lost' : held'[p] = a => GoesBack(p)'
    <3> SUFFICES ASSUME NEW p \in Procs \ lost', held[p] = a
                 PROVE  (Deleter(a) /\ \E i \in ToDrop(a) : Infos(a)[i].pid = p)'
      BY <1>1 DEF GoesBack
    <3>1. p \notin lost /\ m = k + 1
      BY <1>3
    <3>2. \E i \in ToDrop(a) : Infos(a)[i].pid = p
      BY <3>1, ActorsAssumption DEF HeldReturned, GoesBack, Actors
    <3>3. QED
      BY <1>4, <1>6, <2>1, <2>5, <3>1, <3>2 DEF Deleter
  <2>8. \A p \in Procs : InTable(p)' => InTable(p)
    BY <1>1 DEF InTable
  <2>9. QED
    BY <1>1, <1>2, <1>4, <1>5, <1>6, <2>1, <2>2, <2>3, <2>6, <2>7, <2>8, StepOfOne
<1>12. QED
  BY <1>6, <1>7, <1>8, <1>9, <1>10, <1>11 DEF InfosSound

LEMMA DeletedKeeps ==
    ASSUME IInv, NEW a \in Actors, Deleted(a)
    PROVE  IInv'
<1> USE DEF IInv
<1> DEFINE r == job[a].region
           place == IF a = GC THEN "clean" ELSE "user"
<1>1. /\ UNCHANGED <<list, held, life, region, reused, lost>>
      /\ pc' = [pc EXCEPT ![a] = place] /\ pc[a] = "drop" /\ AtEnd(a)
      /\ job' = [job EXCEPT ![a] = NoJob]
      /\ infos' = [infos EXCEPT ![r] = << >>]
  BY DEF Deleted, Goto
<1>2. /\ kept' = {x \in kept : x[1] # r} /\ starved' = {x \in starved : x[1] # r}
      /\ overdrawn' = {x \in overdrawn : x[1] # r}
  BY DEF Deleted
<1>3. /\ Deleter(a) /\ r \in Regions /\ region[r].status = "gone" /\ job[a].at \in Nat
      /\ DOMAIN Infos(a) = 1..Len(Infos(a)) /\ Len(Infos(a)) \in Nat
      /\ \A x \in Actors \ {a} : Deleter(x) => job[x].region # r
  BY <1>1, DeleterStands
<1>4. place \in {"user", "clean"}
  OBVIOUS
<1> HIDE DEF place
<1>5. /\ pc' \in [Actors -> {"user", "wantProc", "visit", "drop", "freed", "out", "idle", "clean"}]
      /\ job' \in [Actors -> JobType] /\ JobsMatch' /\ JobsStay(a)
      /\ pc'[a] = place /\ job'[a] = NoJob
  BY <1>1, <1>4, NoJobTyped, PlacesKept
<1>6. infos' \in [Regions -> Seq(InfoType)] /\ infos'[r] = << >> /\ \A q \in Regions \ {r} : infos'[q] = infos[q]
  <2>1. infos \in [Regions -> Seq(InfoType)]
    BY DEF TypeOK, InfoType
  <2>2. << >> \in Seq(InfoType)
    OBVIOUS
  <2>3. QED
    BY <1>1, <1>3, <2>1, <2>2
<1>7. InfosSound'
  <2>1. ListedOnce' /\ MarkedByDeletion'
    BY <1>1, <1>3, <1>6 DEF ListedOnce, MarkedByDeletion
  <2>2. UsageMatches'
    <3> SUFFICES ASSUME NEW q \in Regions, NEW i \in DOMAIN infos'[q], Miscounted(infos'[q][i])
                 PROVE  <<q, infos'[q][i].pid>> \in overdrawn'
      BY DEF UsageMatches, Miscounted
    <3>1. q # r /\ infos'[q] = infos[q]
      BY <1>6
    <3>2. <<q, infos[q][i].pid>> \in overdrawn
      BY <3>1 DEF UsageMatches
    <3>3. QED
      BY <1>2, <3>1, <3>2
  <2>3. QED
    BY <2>1, <2>2 DEF InfosSound
<1>8. TypeOK' /\ NoWriterStays' /\ OnlyScratchLeft'
  BY <1>1, <1>2, <1>5, <1>6 DEF TypeOK, NoWriterStays, OnlyScratchLeft, JobType, InfoType
<1>9. EndedAreOut' /\ DeadLeaveOrphans'
  BY <1>1, <1>4, <1>5, BusyKeeps
<1>10. ReadersCounted'
  <2>1. HeldOnes' = HeldOnes /\ Wanting' = Wanting
    BY <1>1, <1>4, <1>5 DEF HeldOnes, Wanting, JobsStay
  <2>2. QED
    BY <1>1, <2>1 DEF ReadersCounted
<1>11. DeletersStand' /\ DeletersApart' /\ UsersVisited' /\ DropsTheirs' /\ HeldReturned'
  <2>1. \A x \in Actors \ {a} : Deleter(x) => Infos(x)' = Infos(x)
    BY <1>3, <1>5, <1>6 DEF Infos, JobsStay, DeletersStand, StandsIn
  <2>2. ~Deleter(a)'
    BY <1>5, NoJobTyped DEF Deleter
  <2>3. StandsIn(a)' /\ Visited(a)' /\ DropsOwn(a)'
    BY <2>2 DEF StandsIn, Visited, DropsOwn
  <2>4. ToDrop(a) = {}
    BY <1>1, <1>3 DEF ToDrop, AtEnd
  <2>5. \A p \in Procs \ lost' : held'[p] # a
    BY <1>1, <2>4, ActorsAssumption DEF HeldReturned, GoesBack, Actors
  <2>6. \A p \in Procs : InTable(p)' => InTable(p)
    BY <1>1 DEF InTable
  <2>7. \A e \in starved : e \in starved' \/ (Deleter(a) /\ e[1] = job[a].region)
    BY <1>2, <1>3
  <2>8. QED
    BY <1>1, <1>3, <1>5, <2>1, <2>2, <2>3, <2>5, <2>6, <2>7, StepOfOne
<1>12. QED
  BY <1>5, <1>7, <1>8, <1>9, <1>10, <1>11 DEF InfosSound
-----------------------------------------------------------------------------
LEMMA Initially ==
    ASSUME Init
    PROVE  IInv
<1>1. \A a \in Actors : job[a] = NoJob /\ pc[a] \in {"user", "idle"} /\ ~Deleter(a)
  BY NoJobTyped DEF Init, Deleter
<1>2. TypeOK
  <2>1. list \in LockType /\ list.writers = 0
    BY DEF Init, FreeLock, LockType
  <2>2. region \in [Regions -> [status : {"none", "live", "gone"}, owner : Procs \cup {Nobody}, orphan : BOOLEAN]]
    BY DEF Init, NoRegion
  <2>3. infos \in [Regions -> Seq(InfoType)]
    BY DEF Init
  <2>4. job \in [Actors -> JobType]
    BY NoJobTyped DEF Init
  <2>5. QED
    BY <2>1, <2>2, <2>3, <2>4 DEF Init, TypeOK, InfoType, JobType
<1>3. JobsMatch /\ EndedAreOut /\ DeletersStand /\ DeletersApart /\ UsersVisited /\ DropsTheirs
  BY <1>1 DEF Init, JobsMatch, EndedAreOut, DeletersStand, StandsIn, DeletersApart,
              UsersVisited, Visited, DropsTheirs, DropsOwn
<1>4. ListedOnce /\ MarkedByDeletion /\ UsageMatches
  BY DEF Init, ListedOnce, MarkedByDeletion, UsageMatches
<1>5. HeldReturned /\ OnlyScratchLeft /\ NoWriterStays
  BY DEF Init, HeldReturned, GoesBack, OnlyScratchLeft, NoWriterStays, FreeLock
<1>6. ReadersCounted
  <2>1. HeldOnes = {} /\ Wanting = {}
    BY <1>1 DEF Init, HeldOnes, Wanting
  <2>2. QED
    BY <2>1, FS_EmptySet DEF Init, FreeLock, ReadersCounted
<1>7. DeadLeaveOrphans
  BY DEF Init, DeadLeaveOrphans, Owned, Live, NoRegion
<1>8. QED
  BY <1>2, <1>3, <1>4, <1>5, <1>6, <1>7 DEF IInv

LEMMA Stuttering ==
    ASSUME IInv, UNCHANGED vars
    PROVE  IInv'
<1> USE DEF IInv
<1>1. UNCHANGED <<list, held, life, region, infos, kept, reused, pc, job, overdrawn, starved, lost>>
  BY DEF vars, table, history
<1>2. TypeOK' /\ JobsMatch' /\ EndedAreOut' /\ ListedOnce' /\ MarkedByDeletion'
  BY <1>1 DEF TypeOK, JobsMatch, EndedAreOut, ListedOnce, MarkedByDeletion, Deleter
<1>3. DeletersStand' /\ DeletersApart'
  BY <1>1 DEF DeletersStand, StandsIn, DeletersApart, Deleter, Infos, Current
<1>4. UsageMatches' /\ UsersVisited'
  BY <1>1 DEF UsageMatches, Miscounted, UsersVisited, Visited, Deleter, Infos, InTable
<1>5. DropsTheirs' /\ HeldReturned'
  BY <1>1 DEF DropsTheirs, DropsOwn, HeldReturned, GoesBack, Deleter, Infos, ToDrop
<1>6. ReadersCounted' /\ NoWriterStays' /\ OnlyScratchLeft'
  BY <1>1 DEF ReadersCounted, HeldOnes, Wanting, NoWriterStays, OnlyScratchLeft
<1>7. DeadLeaveOrphans'
  BY <1>1 DEF DeadLeaveOrphans, Owned, Live, Immortal
<1>8. QED
  BY <1>2, <1>3, <1>4, <1>5, <1>6, <1>7

LEMMA Inductive == IInv /\ [Next]_vars => IInv'
<1> SUFFICES ASSUME IInv, [Next]_vars PROVE IInv'
  OBVIOUS
<1>1. ASSUME NEW a \in Actors, Deleting(a) PROVE IInv'
  BY <1>1, SkipKeeps, CheckoutKeeps, TakeKeeps, CopyKeeps, DropKeepsAll, FollowKeeps, DeletedKeeps DEF Deleting
<1>2. ASSUME NEW a \in Procs, Begin(a) PROVE IInv'
  BY <1>2, CreateKeeps, GrantIsCall, CallKeeps, AwaitKeeps, DeleteKeeps, ExitKeeps DEF Begin
<1>3. ASSUME NEW a \in Procs, Serve(a) PROVE IInv'
  BY <1>3, ServeIsCall, CallKeeps
<1>4. QED
  BY <1>1, <1>2, <1>3, DetachKeeps, CleanKeeps, Stuttering DEF Next

THEOREM Invariance == Spec => []IInv
<1>1. Init => IInv
  BY Initially
<1>2. IInv /\ [Next]_vars => IInv'
  BY Inductive
<1>3. QED
  BY <1>1, <1>2, PTL DEF Spec
-----------------------------------------------------------------------------
(* Every variable keeps its type, the counts of the lists among them: no    *)
(* release makes a count smaller than -1 (release_shmem).                   *)
THEOREM TypeCorrect == Spec => []TypeOK
<1>1. IInv => TypeOK
  BY DEF IInv
<1>2. QED
  BY <1>1, Invariance, PTL

(* Of a region that was taken away (revoke_shmem, delete_shmem) a user has  *)
(* a scratch copy at most, but for those who released too often or found no *)
(* memory for one.                                                          *)
THEOREM UsersKeepScratch == Spec => []OnlyScratchLeft
<1>1. IInv => OnlyScratchLeft
  BY DEF IInv
<1>2. QED
  BY <1>1, Invariance, PTL

(* Who is checked out is in the list of a deletion that is going to commit  *)
(* it (delete_shmem), but for those whose deletion read on from freed       *)
(* memory; and the process list has as many readers as there are checkouts  *)
(* and waiters for one.                                                     *)
THEOREM CheckoutsComeBack == Spec => []CheckoutsReturned
<1>1. IInv => CheckoutsReturned
  BY DEF IInv, CheckoutsReturned, HeldReturned, GoesBack, Deleter, ReadersCounted, HeldOnes, Wanting
<1>2. QED
  BY <1>1, Invariance, PTL

(* When the collector has cleaned up after the dead (clean_shmem), what is   *)
(* left of theirs is immortal and an orphan.                                *)
THEOREM OrphansOnly == Spec => []DeadLeaveOrphans
<1>1. IInv => DeadLeaveOrphans
  BY DEF IInv
<1>2. QED
  BY <1>1, Invariance, PTL
=============================================================================
