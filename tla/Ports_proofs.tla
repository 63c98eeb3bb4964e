---------------------------- MODULE Ports_proofs ----------------------------
(***************************************************************************)
(* What the ports of a process keep for every set of threads, ports and     *)
(* items: the two records of who handles a port agree, hints are fresh,     *)
(* nobody sleeps on mail, and messages are taken only by their handler.     *)
(***************************************************************************)
EXTENDS Ports, SequenceTheorems, TLAPS

(* Lists of ports. *)
Distinct(s) == \A i, j \in DOMAIN s : s[i] = s[j] => i = j

LEMMA ElemsAppended ==
    ASSUME NEW S, NEW s \in Seq(S), NEW e \in S
    PROVE  /\ Append(s, e) \in Seq(S) /\ Elems(Append(s, e)) = Elems(s) \cup {e}
           /\ Distinct(s) /\ e \notin Elems(s) => Distinct(Append(s, e))
<1> DEFINE r == Append(s, e)
<1>1. /\ r \in Seq(S) /\ Len(s) \in Nat /\ DOMAIN s = 1..Len(s) /\ DOMAIN r = 1..(Len(s) + 1)
      /\ r[Len(s) + 1] = e /\ \A i \in 1..Len(s) : r[i] = s[i]
  BY AppendProperties, LenProperties
<1> HIDE DEF r
<1>2. Elems(r) \subseteq Elems(s) \cup {e}
  <2>1. SUFFICES ASSUME NEW i \in 1..(Len(s) + 1) PROVE r[i] \in Elems(s) \cup {e}
    BY <1>1 DEF Elems
  <2>2. CASE i = Len(s) + 1
    BY <1>1, <2>2
  <2>3. CASE i # Len(s) + 1
    <3>1. i \in DOMAIN s /\ r[i] = s[i]
      BY <1>1, <2>3
    <3>2. QED
      BY <3>1 DEF Elems
  <2>4. QED
    BY <2>2, <2>3
<1>3. Elems(s) \cup {e} \subseteq Elems(r)
  <2>1. e \in Elems(r)
    <3>1. Len(s) + 1 \in DOMAIN r /\ r[Len(s) + 1] = e
      BY <1>1
    <3>2. QED
      BY <3>1 DEF Elems
  <2>2. ASSUME NEW i \in DOMAIN s PROVE s[i] \in Elems(r)
    <3>1. i \in DOMAIN r /\ r[i] = s[i]
      BY <1>1
    <3>2. QED
      BY <3>1 DEF Elems
  <2>3. QED
    BY <2>1, <2>2 DEF Elems
<1>4. ASSUME Distinct(s), e \notin Elems(s) PROVE Distinct(r)
  <2>1. SUFFICES ASSUME NEW i \in 1..(Len(s) + 1), NEW j \in 1..(Len(s) + 1), r[i] = r[j] PROVE i = j
    BY <1>1 DEF Distinct
  <2>2. \A k \in 1..Len(s) : r[k] # e
    BY <1>1, <1>4 DEF Elems
  <2>3. CASE i \in 1..Len(s) /\ j \in 1..Len(s)
    BY <1>1, <1>4, <2>1, <2>3 DEF Distinct
  <2>4. CASE i = Len(s) + 1 \/ j = Len(s) + 1
    BY <1>1, <2>1, <2>2, <2>4
  <2>5. QED
    BY <1>1, <2>3, <2>4
<1>5. QED
  BY <1>1, <1>2, <1>3, <1>4 DEF r

LEMMA ElemsWithout ==
    ASSUME NEW S, NEW s \in Seq(S), NEW e \in Elems(s), Distinct(s)
    PROVE  /\ Without(s, e) \in Seq(S) /\ Elems(Without(s, e)) = Elems(s) \ {e}
           /\ Distinct(Without(s, e))
<1> DEFINE at == CHOOSE i \in DOMAIN s : s[i] = e
           r == Without(s, e)
<1>1. Len(s) \in Nat /\ DOMAIN s = 1..Len(s) /\ \A i \in 1..Len(s) : s[i] \in S
  BY LenProperties, ElementOfSeq
<1>2. at \in 1..Len(s) /\ s[at] = e
  BY <1>1 DEF Elems
<1>3. r = [i \in 1..(Len(s) - 1) |-> IF i < at THEN s[i] ELSE s[i + 1]]
  BY DEF Without
<1> HIDE DEF at, r
<1>4. /\ DOMAIN r = 1..(Len(s) - 1)
      /\ \A i \in 1..(Len(s) - 1) :
            /\ i < at => r[i] = s[i] /\ i \in DOMAIN s
            /\ i >= at => r[i] = s[i + 1] /\ i + 1 \in DOMAIN s
            /\ r[i] \in S
  BY <1>1, <1>2, <1>3
<1>5. r \in Seq(S)
  <2>1. Len(s) - 1 \in Nat
    BY <1>1, <1>2
  <2>2. r \in [1..(Len(s) - 1) -> S]
    BY <1>3, <1>4
  <2>3. QED
    BY <2>1, <2>2, SeqDef
<1>6. Elems(r) \subseteq Elems(s) \ {e}
  <2>1. SUFFICES ASSUME NEW i \in 1..(Len(s) - 1) PROVE r[i] \in Elems(s) /\ r[i] # e
    BY <1>4 DEF Elems
  <2>2. CASE i < at
    <3>1. r[i] = s[i] /\ i \in DOMAIN s /\ i # at
      BY <1>2, <1>4, <2>2
    <3>2. QED
      BY <1>1, <1>2, <3>1 DEF Elems, Distinct
  <2>3. CASE ~(i < at)
    <3>1. r[i] = s[i + 1] /\ i + 1 \in DOMAIN s /\ i + 1 # at
      BY <1>1, <1>2, <1>4, <2>3
    <3>2. QED
      BY <1>1, <1>2, <3>1 DEF Elems, Distinct
  <2>4. QED
    BY <2>2, <2>3
<1>7. Elems(s) \ {e} \subseteq Elems(r)
  <2>1. SUFFICES ASSUME NEW i \in 1..Len(s), s[i] # e PROVE s[i] \in Elems(r)
    BY <1>1 DEF Elems
  <2>2. CASE i < at
    <3>1. i \in 1..(Len(s) - 1) /\ r[i] = s[i]
      BY <1>1, <1>2, <1>4, <2>2
    <3>2. QED
      BY <1>4, <3>1 DEF Elems
  <2>3. CASE ~(i < at)
    <3>1. i - 1 \in 1..(Len(s) - 1) /\ r[i - 1] = s[i]
      BY <1>1, <1>2, <1>4, <2>1, <2>3
    <3>2. QED
      BY <1>4, <3>1 DEF Elems
  <2>4. QED
    BY <2>2, <2>3
<1>8. Distinct(r)
  <2>1. SUFFICES ASSUME NEW i \in 1..(Len(s) - 1), NEW j \in 1..(Len(s) - 1), r[i] = r[j] PROVE i = j
    BY <1>4 DEF Distinct
  <2>2. CASE i < at /\ j < at
    <3>1. i \in DOMAIN s /\ j \in DOMAIN s /\ s[i] = s[j]
      BY <1>4, <2>1, <2>2
    <3>2. QED
      BY <3>1 DEF Distinct
  <2>3. CASE i >= at /\ j >= at
    <3>1. i + 1 \in DOMAIN s /\ j + 1 \in DOMAIN s /\ s[i + 1] = s[j + 1]
      BY <1>4, <2>1, <2>3
    <3>2. i + 1 = j + 1
      BY <3>1 DEF Distinct
    <3>3. QED
      BY <3>2
  <2>4. CASE i < at /\ j >= at
    <3>1. i \in DOMAIN s /\ j + 1 \in DOMAIN s /\ s[i] = s[j + 1]
      BY <1>4, <2>1, <2>4
    <3>2. i = j + 1
      BY <3>1 DEF Distinct
    <3>3. QED
      BY <1>2, <2>4, <3>2
  <2>5. CASE i >= at /\ j < at
    <3>1. i + 1 \in DOMAIN s /\ j \in DOMAIN s /\ s[i + 1] = s[j]
      BY <1>4, <2>1, <2>5
    <3>2. i + 1 = j
      BY <3>1 DEF Distinct
    <3>3. QED
      BY <1>2, <2>5, <3>2
  <2>6. QED
    BY <1>2, <2>2, <2>3, <2>4, <2>5
<1>9. QED
  BY <1>5, <1>6, <1>7, <1>8 DEF r
-----------------------------------------------------------------------------
(* Queues: what is at the head stays there when something is added.         *)
LEMMA HeadStays ==
    ASSUME NEW S, NEW s \in Seq(S), NEW e \in S
    PROVE  /\ Append(s, e) \in Seq(S) /\ Append(s, e) # << >>
           /\ Len(Append(s, e)) = Len(s) + 1
           /\ s # << >> => Head(Append(s, e)) = Head(s)
<1>1. /\ Append(s, e) \in Seq(S) /\ Len(Append(s, e)) = Len(s) + 1 /\ Len(s) \in Nat
      /\ \A i \in 1..Len(s) : Append(s, e)[i] = s[i]
  BY AppendProperties, LenProperties
<1>2. Append(s, e) # << >>
  BY <1>1, EmptySeq
<1>3. ASSUME s # << >> PROVE Head(Append(s, e)) = Head(s)
  <2>1. 1 \in 1..Len(s)
    BY <1>1, <1>3, EmptySeq
  <2>2. Head(s) = s[1] /\ Head(Append(s, e)) = Append(s, e)[1]
    BY <1>1, <1>2, <1>3, HeadTailProperties
  <2>3. QED
    BY <1>1, <2>1, <2>2
<1>4. QED
  BY <1>1, <1>2, <1>3

(* The list of a thread that is gone is not looked at. *)
GoneForgotten ==
    \A t \in Threads : state[t] = "gone" =>
        ports[t] = << >> /\ \A k \in Kinds : hint[k][t] = NoPort

(* A port that is not in use holds nothing. *)
UnownedEmpty ==
    \A p \in Ports, k \in Kinds : owner[p] = NoThread => mail[k][p] = << >>

(* Who is about to be woken is there. *)
WakeLives == wake # NoThread => state[wake] # "gone"

IInv == TypeOK /\ ListsMatchOwners /\ GoneForgotten /\ UnownedEmpty /\ WakeLives
            /\ HintFresh /\ NoSleepOnMail

LEMMA ListsOf ==
    ASSUME IInv
    PROVE  /\ \A t \in Threads, p \in Ports : state[t] # "gone" => (owner[p] = t <=> p \in Elems(ports[t]))
           /\ \A t \in Threads, p \in Ports : p \in Elems(ports[t]) => owner[p] = t
           /\ \A t \in Threads : Distinct(ports[t]) /\ ports[t] \in Seq(Ports)
           /\ \A t \in Threads : Elems(ports[t]) \subseteq Ports
<1>1. \A t \in Threads : Distinct(ports[t]) /\ ports[t] \in Seq(Ports)
  BY DEF IInv, ListsMatchOwners, Distinct, TypeOK
<1>2. Elems(<< >>) = {}
  BY DEF Elems
<1>3. \A t \in Threads : Elems(ports[t]) \subseteq Ports
  BY <1>1, ElementOfSeq, LenProperties DEF Elems
<1>4. QED
  BY <1>1, <1>2, <1>3 DEF IInv, ListsMatchOwners, GoneForgotten
-----------------------------------------------------------------------------
(* The steps.                                                               *)
LEMMA CreateKeeps ==
    ASSUME IInv, NEW t \in Threads, NEW p \in Ports, NEW o \in Threads, CreatePort(t, p, o)
    PROVE  IInv'
<1>1. /\ owner[p] = NoThread /\ state[o] # "gone" /\ p \notin Elems(ports[o])
      /\ hint' = hint /\ seen' = seen /\ state' = state /\ timer' = timer /\ inside' = inside
      /\ wake' = wake /\ late' = late \ {p}
  BY ListsOf, NoThreadAssumption DEF CreatePort, hintVars, threadVars
<1>2. /\ owner'[p] = o /\ \A q \in Ports : q # p => owner'[q] = owner[q] /\ masked'[q] = masked[q]
      /\ \A k \in Kinds : mail'[k][p] = << >> /\ \A q \in Ports : q # p => mail'[k][q] = mail[k][q]
      /\ ports'[o] = Append(ports[o], p) /\ \A u \in Threads : u # o => ports'[u] = ports[u]
  BY DEF CreatePort, IInv, TypeOK
<1>3. /\ ports'[o] \in Seq(Ports) /\ Elems(ports'[o]) = Elems(ports[o]) \cup {p}
      /\ Distinct(ports'[o])
  BY <1>1, <1>2, ListsOf, ElemsAppended
<1>4. TypeOK'
  <2>1. ports' \in [Threads -> Seq(Ports)]
    BY <1>2, <1>3 DEF CreatePort, IInv, TypeOK
  <2>2. mail' \in [Kinds -> [Ports -> Seq(Items)]]
    BY EmptySeq DEF CreatePort, IInv, TypeOK
  <2>3. owner' \in [Ports -> Threads \cup {NoThread}] /\ masked' \in [Ports -> BOOLEAN]
    BY DEF CreatePort, IInv, TypeOK
  <2>4. QED
    BY <1>1, <2>1, <2>2, <2>3 DEF IInv, TypeOK
<1>5. ListsMatchOwners'
  <2>1. \A u \in Threads : Distinct(ports'[u])
    BY <1>2, <1>3, ListsOf
  <2>2. ASSUME NEW u \in Threads, NEW q \in Ports, state[u] # "gone"
        PROVE  owner'[q] = u <=> q \in Elems(ports'[u])
    <3>1. CASE q = p
      <4>1. p \notin Elems(ports[u])
        BY <1>1, ListsOf, NoThreadAssumption
      <4>2. QED
        BY <1>2, <1>3, <3>1, <4>1
    <3>2. CASE q # p
      <4>1. q \in Elems(ports'[u]) <=> q \in Elems(ports[u])
        BY <1>2, <1>3, <3>2
      <4>2. owner[q] = u <=> q \in Elems(ports[u])
        BY <2>2, ListsOf
      <4>3. QED
        BY <1>2, <3>2, <4>1, <4>2
    <3>3. QED
      BY <3>1, <3>2
  <2>3. QED
    BY <1>1, <2>1, <2>2 DEF ListsMatchOwners, Distinct
<1>6. GoneForgotten' /\ UnownedEmpty' /\ WakeLives'
  BY <1>1, <1>2, NoThreadAssumption DEF IInv, GoneForgotten, UnownedEmpty, WakeLives
<1>7. HintFresh'
  <2>1. ASSUME NEW k \in Kinds, NEW u \in Threads, hint[k][u] # NoPort
        PROVE  hint[k][u] \in Ports /\ hint[k][u] # p
    BY <1>1, <2>1, NoThreadAssumption DEF IInv, HintFresh, TypeOK
  <2>2. QED
    BY <1>1, <1>2, <2>1 DEF IInv, HintFresh
<1>8. NoSleepOnMail'
  <2>1. \A k \in Kinds : Ready(k)' \subseteq Ready(k) \ {p}
    BY <1>2 DEF Ready
  <2>2. \A u \in Threads : Elems(ports'[u]) \subseteq Elems(ports[u]) \cup {p}
    BY <1>2, <1>3
  <2>3. QED
    BY <1>1, <2>1, <2>2 DEF IInv, NoSleepOnMail
<1>9. QED
  BY <1>4, <1>5, <1>6, <1>7, <1>8 DEF IInv

LEMMA ReleaseKeeps ==
    ASSUME IInv, NEW t \in Threads, NEW p \in Ports, ReleasePort(t, p)
    PROVE  /\ IInv'
           /\ \A q \in Ports : q # p => mail'["message"][q] = mail["message"][q]
<1> DEFINE o == owner[p]
<1>1. /\ o \in Threads /\ state' = state /\ timer' = timer /\ inside' = inside
      /\ wake' = wake /\ late' = late \ {p}
      /\ owner'[p] = NoThread /\ \A q \in Ports : q # p => owner'[q] = owner[q] /\ masked'[q] = masked[q]
  BY DEF ReleasePort, threadVars, IInv, TypeOK
<1>2. /\ owner' \in [Ports -> Threads \cup {NoThread}] /\ masked' \in [Ports -> BOOLEAN]
  BY DEF ReleasePort, IInv, TypeOK
<1>3. /\ mail' \in [Kinds -> [Ports -> Seq(Items)]]
      /\ \A k \in Kinds : mail'[k][p] = << >>
      /\ \A k \in Kinds, q \in Ports : mail'[k][q] = mail[k][q] \/ mail'[k][q] = << >>
      /\ \A k \in Kinds, q \in Ports : q # p /\ owner[q] # o => mail'[k][q] = mail[k][q]
      /\ \A q \in Ports : q # p => mail'["message"][q] = mail["message"][q]
  <2> DEFINE swept == IF o \in Threads /\ state[o] # "gone" /\ p \in Ready("pulse")
                      THEN Elems(ports[o]) ELSE {}
  <2>1. \A q \in Ports : q \in swept => owner[q] = o
    BY <1>1, ListsOf
  <2>2. mail' = [mail EXCEPT
            !["message"] = [@ EXCEPT ![p] = << >>],
            !["pulse"] = [q \in Ports |->
                IF q = p \/ q \in swept THEN << >> ELSE @[q]]]
    BY DEF ReleasePort, AfterRelease
  <2> HIDE DEF swept
  <2>3. /\ mail'["message"] = [mail["message"] EXCEPT ![p] = << >>]
        /\ mail'["pulse"] = [q \in Ports |-> IF q = p \/ q \in swept THEN << >> ELSE mail["pulse"][q]]
        /\ DOMAIN mail' = Kinds /\ mail' = [k \in Kinds |-> mail'[k]]
    BY <2>2 DEF IInv, TypeOK, Kinds
  <2>4. mail["message"] \in [Ports -> Seq(Items)] /\ mail["pulse"] \in [Ports -> Seq(Items)]
    BY DEF IInv, TypeOK, Kinds
  <2>5. << >> \in Seq(Items)
    BY EmptySeq
  <2>6. mail'["message"] \in [Ports -> Seq(Items)] /\ mail'["pulse"] \in [Ports -> Seq(Items)]
    BY <2>3, <2>4, <2>5
  <2>7. \A k \in Kinds : mail'[k] \in [Ports -> Seq(Items)]
    BY <2>6 DEF Kinds
  <2>8. mail' \in [Kinds -> [Ports -> Seq(Items)]]
    BY <2>3, <2>7
  <2>9. QED
    BY <2>1, <2>3, <2>4, <2>8 DEF Kinds
<1> HIDE DEF o
<1>4. \A k \in Kinds : Ready(k)' \subseteq Ready(k) \ {p}
  BY <1>1, <1>3 DEF Ready
<1>5. UnownedEmpty' /\ WakeLives'
  <2>1. ASSUME NEW q \in Ports, NEW k \in Kinds, owner'[q] = NoThread PROVE mail'[k][q] = << >>
    <3>1. CASE q = p
      BY <1>3, <3>1
    <3>2. CASE q # p
      <4>1. owner[q] = NoThread
        BY <1>1, <2>1, <3>2
      <4>2. mail[k][q] = << >>
        BY <4>1 DEF IInv, UnownedEmpty
      <4>3. QED
        BY <1>3, <4>2
    <3>3. QED
      BY <3>1, <3>2
  <2>2. WakeLives'
    BY <1>1 DEF IInv, WakeLives
  <2>3. QED
    BY <2>1, <2>2 DEF UnownedEmpty
<1>6. \A k \in Kinds, u \in Threads : hint[k][u] # NoPort => hint[k][u] \in Ports
  BY DEF IInv, TypeOK
<1>7. CASE state[o] = "gone"
  <2>1. ports' = ports /\ hint' = hint /\ seen' = seen
    BY <1>7 DEF ReleasePort, hintVars, o
  <2>2. TypeOK' /\ GoneForgotten'
    BY <1>1, <1>2, <1>3, <2>1 DEF IInv, TypeOK, GoneForgotten
  <2>3. ListsMatchOwners'
    BY <1>1, <1>7, <2>1, NoThreadAssumption DEF IInv, ListsMatchOwners, o
  <2>4. HintFresh'
    <3>1. ASSUME NEW k \in Kinds, NEW u \in Threads, hint[k][u] # NoPort
          PROVE  u # o /\ hint[k][u] # p /\ owner[hint[k][u]] # o
      BY <1>1, <1>7, <3>1 DEF IInv, GoneForgotten, HintFresh, o
    <3>2. ASSUME NEW k \in Kinds, NEW u \in Threads, hint[k][u] # NoPort
          PROVE  owner'[hint[k][u]] = owner[hint[k][u]] /\ mail'[k][hint[k][u]] = mail[k][hint[k][u]]
      BY <1>1, <1>3, <1>6, <3>1, <3>2
    <3>3. QED
      BY <2>1, <3>2 DEF IInv, HintFresh
  <2>5. NoSleepOnMail'
    BY <1>1, <1>4, <2>1 DEF IInv, NoSleepOnMail
  <2>6. QED
    BY <1>3, <1>5, <2>2, <2>3, <2>4, <2>5 DEF IInv
<1>8. CASE state[o] # "gone"
  <2>1. /\ ports' = [ports EXCEPT ![o] = Without(@, p)]
        /\ hint' = [k \in Kinds |-> [hint[k] EXCEPT ![o] = NoPort]]
        /\ seen' = [k \in Kinds |-> [seen[k] EXCEPT ![o] = NoItem]]
    BY <1>8 DEF ReleasePort, ForgetHints, o
  <2>2. p \in Elems(ports[o])
    BY <1>1, <1>8, ListsOf DEF o
  <2>3. /\ ports'[o] \in Seq(Ports) /\ Elems(ports'[o]) = Elems(ports[o]) \ {p} /\ Distinct(ports'[o])
        /\ \A u \in Threads : u # o => ports'[u] = ports[u]
    <3>1. ports'[o] = Without(ports[o], p) /\ \A u \in Threads : u # o => ports'[u] = ports[u]
      BY <1>1, <2>1 DEF IInv, TypeOK
    <3>2. QED
      BY <1>1, <2>2, <3>1, ListsOf, ElemsWithout
  <2>4. /\ \A k \in Kinds : hint'[k][o] = NoPort
        /\ \A k \in Kinds, u \in Threads : u # o => hint'[k][u] = hint[k][u] /\ seen'[k][u] = seen[k][u]
    BY <1>1, <2>1 DEF IInv, TypeOK
  <2>5. TypeOK'
    <3>1. ports' \in [Threads -> Seq(Ports)]
      BY <2>1, <2>3 DEF IInv, TypeOK
    <3>2. hint' \in [Kinds -> [Threads -> Ports \cup {NoPort}]]
      BY <2>1 DEF IInv, TypeOK
    <3>3. seen' \in [Kinds -> [Threads -> Items \cup {NoItem}]]
      BY <2>1 DEF IInv, TypeOK
    <3>4. QED
      BY <1>1, <1>2, <1>3, <3>1, <3>2, <3>3 DEF IInv, TypeOK
  <2>6. ListsMatchOwners'
    <3>1. \A u \in Threads : Distinct(ports'[u])
      BY <2>3, ListsOf
    <3>2. ASSUME NEW u \in Threads, NEW q \in Ports, state[u] # "gone"
          PROVE  owner'[q] = u <=> q \in Elems(ports'[u])
      <4>1. CASE q = p
        <5>1. owner'[q] # u
          BY <1>1, <4>1, NoThreadAssumption
        <5>2. CASE u = o
          BY <2>3, <4>1, <5>1, <5>2
        <5>3. CASE u # o
          BY <2>3, <4>1, <5>1, <5>3, ListsOf DEF o
        <5>4. QED
          BY <5>2, <5>3
      <4>2. CASE q # p
        BY <1>1, <2>3, <3>2, <4>2, ListsOf
      <4>3. QED
        BY <4>1, <4>2
    <3>3. QED
      BY <1>1, <3>1, <3>2 DEF ListsMatchOwners, Distinct
  <2>7. GoneForgotten'
    BY <1>1, <1>8, <2>3, <2>4 DEF IInv, GoneForgotten
  <2>8. HintFresh'
    <3>1. ASSUME NEW k \in Kinds, NEW u \in Threads, hint'[k][u] # NoPort
          PROVE  /\ u # o /\ hint[k][u] \in Ports /\ hint[k][u] # p /\ owner[hint[k][u]] # o
                 /\ hint'[k][u] = hint[k][u] /\ seen'[k][u] = seen[k][u]
      BY <1>6, <2>4, <3>1 DEF IInv, HintFresh, o
    <3>2. ASSUME NEW k \in Kinds, NEW u \in Threads, hint'[k][u] # NoPort
          PROVE  owner'[hint'[k][u]] = owner[hint[k][u]] /\ mail'[k][hint'[k][u]] = mail[k][hint[k][u]]
      BY <1>1, <1>3, <3>1, <3>2
    <3>3. QED
      BY <3>1, <3>2 DEF IInv, HintFresh
  <2>9. NoSleepOnMail'
    <3>1. \A u \in Threads : Elems(ports'[u]) \subseteq Elems(ports[u])
      BY <2>3
    <3>2. QED
      BY <1>1, <1>4, <3>1 DEF IInv, NoSleepOnMail
  <2>10. QED
    BY <1>3, <1>5, <2>5, <2>6, <2>7, <2>8, <2>9 DEF IInv
<1>9. QED
  BY <1>7, <1>8
(* Hints after some have been forgotten. *)
LEMMA ForgottenFresh ==
    ASSUME IInv, NEW t \in Threads, ForgetHints(t)
    PROVE  /\ hint' \in [Kinds -> [Threads -> Ports \cup {NoPort}]]
           /\ seen' \in [Kinds -> [Threads -> Items \cup {NoItem}]]
           /\ \A k \in Kinds : hint'[k][t] = NoPort
           /\ \A k \in Kinds, u \in Threads : u # t => hint'[k][u] = hint[k][u] /\ seen'[k][u] = seen[k][u]
           /\ owner' = owner /\ mail' = mail => HintFresh'
<1>1. /\ hint' = [k \in Kinds |-> [hint[k] EXCEPT ![t] = NoPort]]
      /\ seen' = [k \in Kinds |-> [seen[k] EXCEPT ![t] = NoItem]]
  BY DEF ForgetHints
<1>2. /\ hint' \in [Kinds -> [Threads -> Ports \cup {NoPort}]]
      /\ seen' \in [Kinds -> [Threads -> Items \cup {NoItem}]]
  BY <1>1 DEF IInv, TypeOK
<1>3. /\ \A k \in Kinds : hint'[k][t] = NoPort
      /\ \A k \in Kinds, u \in Threads : u # t => hint'[k][u] = hint[k][u] /\ seen'[k][u] = seen[k][u]
  BY <1>1 DEF IInv, TypeOK
<1>4. ASSUME owner' = owner, mail' = mail PROVE HintFresh'
  BY <1>3, <1>4 DEF IInv, HintFresh
<1>5. QED
  BY <1>2, <1>3, <1>4

LEMMA FlagsKeep ==
    ASSUME IInv, NEW t \in Threads, NEW f, DOMAIN f \subseteq Ports,
           \A p \in DOMAIN f : f[p] \in BOOLEAN, SetPortFlags(t, f)
    PROVE  IInv'
<1>1. /\ owner' = owner /\ ports' = ports /\ mail' = mail /\ state' = state /\ timer' = timer
      /\ inside' = inside /\ wake' = wake /\ ForgetHints(t)
  BY DEF SetPortFlags, threadVars
<1>2. /\ hint' \in [Kinds -> [Threads -> Ports \cup {NoPort}]]
      /\ seen' \in [Kinds -> [Threads -> Items \cup {NoItem}]]
      /\ \A k \in Kinds : hint'[k][t] = NoPort
      /\ \A k \in Kinds, u \in Threads : u # t => hint'[k][u] = hint[k][u]
      /\ HintFresh'
  BY <1>1, ForgottenFresh
<1>3. masked' \in [Ports -> BOOLEAN]
  BY DEF SetPortFlags, IInv, TypeOK
<1>4. /\ late' \subseteq Ports /\ late \subseteq late'
      /\ \A p \in DOMAIN f : masked[p] /\ ~f[p] /\ owner[p] \in Threads /\ state[owner[p]] = "dormant"
            => p \in late'
  BY DEF SetPortFlags, IInv, TypeOK
<1>5. TypeOK'
  BY <1>1, <1>2, <1>3, <1>4 DEF IInv, TypeOK
<1>6. ListsMatchOwners' /\ UnownedEmpty' /\ WakeLives'
  BY <1>1 DEF IInv, ListsMatchOwners, UnownedEmpty, WakeLives
<1>7. GoneForgotten'
  BY <1>1, <1>2 DEF IInv, GoneForgotten
<1>8. NoSleepOnMail'
  <2>1. SUFFICES ASSUME NEW u \in Threads, NEW k \in Kinds, state[u] = "dormant", wake # u,
                        NEW p \in Ports, owner[p] # NoThread, ~masked'[p], mail[k][p] # << >>,
                        p \in Elems(ports[u])
                 PROVE  p \in late'
    BY <1>1 DEF NoSleepOnMail, Ready
  <2>2. CASE ~masked[p]
    <3>1. p \in Ready(k) \cap Elems(ports[u])
      BY <2>1, <2>2 DEF Ready
    <3>2. p \in late
      BY <2>1, <3>1 DEF IInv, NoSleepOnMail
    <3>3. QED
      BY <1>4, <3>2
  <2>3. CASE masked[p]
    <3>1. p \in DOMAIN f /\ ~f[p]
      BY <2>1, <2>3 DEF SetPortFlags
    <3>2. owner[p] = u
      BY <2>1, ListsOf
    <3>3. QED
      BY <1>4, <2>1, <2>3, <3>1, <3>2
  <2>4. QED
    BY <2>2, <2>3
<1>9. QED
  BY <1>2, <1>5, <1>6, <1>7, <1>8 DEF IInv

(* Every way of setting flags. *)
LEMMA FlagStepsKeep ==
    ASSUME IInv, NEW t \in Threads,
           \/ \E p \in Ports, flag \in BOOLEAN : MaskPort(t, p, flag)
           \/ \E flag \in BOOLEAN : MaskAll(t, flag)
           \/ \E S \in SUBSET Ports : \E f \in [S -> BOOLEAN] : BulkSet(t, f)
    PROVE  IInv' /\ mail' = mail
<1>1. PICK f : /\ DOMAIN f \subseteq Ports /\ \A p \in DOMAIN f : f[p] \in BOOLEAN
               /\ SetPortFlags(t, f)
  <2>1. CASE \E p \in Ports, flag \in BOOLEAN : MaskPort(t, p, flag)
    <3>1. PICK p \in Ports, flag \in BOOLEAN : MaskPort(t, p, flag)
      BY <2>1
    <3> DEFINE f == [q \in {p} |-> flag]
    <3>2. DOMAIN f = {p} /\ f[p] = flag /\ SetPortFlags(t, f)
      BY <3>1 DEF MaskPort
    <3> HIDE DEF f
    <3>3. QED
      BY <3>2
  <2>2. CASE \E flag \in BOOLEAN : MaskAll(t, flag)
    <3>1. PICK flag \in BOOLEAN : MaskAll(t, flag)
      BY <2>2
    <3> DEFINE f == [q \in Elems(ports[t]) |-> flag]
    <3>2. DOMAIN f = Elems(ports[t]) /\ (\A q \in DOMAIN f : f[q] = flag) /\ SetPortFlags(t, f)
      BY <3>1 DEF MaskAll
    <3> HIDE DEF f
    <3>3. QED
      BY <3>2, ListsOf
  <2>3. CASE \E S \in SUBSET Ports : \E f \in [S -> BOOLEAN] : BulkSet(t, f)
    BY <2>3 DEF BulkSet
  <2>4. QED
    BY <2>1, <2>2, <2>3
<1>2. QED
  BY <1>1, FlagsKeep DEF SetPortFlags

LEMMA SendKeeps ==
    ASSUME IInv, NEW k \in Kinds, NEW p \in Ports, NEW item \in Items, Send(k, p, item)
    PROVE  /\ IInv'
           /\ \A l \in Kinds, q \in Ports : Len(mail'[l][q]) >= Len(mail[l][q])
<1> DEFINE o == owner[p]
<1>1. /\ owner' = owner /\ masked' = masked /\ ports' = ports /\ hint' = hint /\ seen' = seen
      /\ state' = state /\ timer' = timer /\ inside' = inside /\ late' = late
      /\ o \in Threads /\ state[o] # "gone" /\ wake = NoThread
      /\ wake' = IF ~masked[p] /\ state[o] = "dormant" THEN o ELSE NoThread
  BY DEF Send, portVars, hintVars, threadVars, IInv, TypeOK
<1>2. mail[k][p] \in Seq(Items)
  BY DEF IInv, TypeOK
<1>3. mail' = [mail EXCEPT ![k][p] = Append(@, item)]
  BY DEF Send
<1>4. /\ mail'[k][p] = Append(mail[k][p], item)
      /\ \A l \in Kinds, q \in Ports : l # k \/ q # p => mail'[l][q] = mail[l][q]
  BY <1>3 DEF IInv, TypeOK
<1>5. /\ mail'[k][p] \in Seq(Items) /\ mail'[k][p] # << >>
      /\ Len(mail'[k][p]) = Len(mail[k][p]) + 1
      /\ mail[k][p] # << >> => Head(mail'[k][p]) = Head(mail[k][p])
  BY <1>2, <1>4, HeadStays
<1>6. TypeOK'
  <2>1. mail' \in [Kinds -> [Ports -> Seq(Items)]]
    BY <1>3, <1>4, <1>5 DEF IInv, TypeOK
  <2>2. QED
    BY <1>1, <2>1 DEF IInv, TypeOK
<1>7. ListsMatchOwners' /\ GoneForgotten'
  BY <1>1 DEF IInv, ListsMatchOwners, GoneForgotten
<1>8. UnownedEmpty' /\ WakeLives'
  BY <1>1, <1>4, NoThreadAssumption DEF IInv, UnownedEmpty, WakeLives
<1>9. HintFresh'
  <2>1. ASSUME NEW l \in Kinds, NEW u \in Threads, hint[l][u] # NoPort
        PROVE  /\ owner'[hint[l][u]] = u /\ mail'[l][hint[l][u]] # << >>
               /\ Head(mail'[l][hint[l][u]]) = seen[l][u]
    <3>1. /\ hint[l][u] \in Ports /\ owner[hint[l][u]] = u /\ mail[l][hint[l][u]] # << >>
          /\ Head(mail[l][hint[l][u]]) = seen[l][u]
      BY <2>1 DEF IInv, TypeOK, HintFresh
    <3>2. CASE l = k /\ hint[l][u] = p
      BY <1>1, <1>5, <3>1, <3>2
    <3>3. CASE l # k \/ hint[l][u] # p
      BY <1>1, <1>4, <3>1, <3>3
    <3>4. QED
      BY <3>2, <3>3
  <2>2. QED
    BY <1>1, <2>1 DEF HintFresh
<1>10. NoSleepOnMail'
  <2>1. \A l \in Kinds : Ready(l)' \subseteq IF masked[p] THEN Ready(l) ELSE Ready(l) \cup {p}
    BY <1>1, <1>4 DEF Ready
  <2>2. SUFFICES ASSUME NEW u \in Threads, NEW l \in Kinds, state[u] = "dormant", wake' # u,
                        NEW q \in Ready(l)', q \in Elems(ports[u])
                 PROVE  q \in late
    BY <1>1 DEF NoSleepOnMail
  <2>3. owner[q] = u /\ wake # u
    BY <1>1, <2>2, ListsOf, NoThreadAssumption DEF Ready
  <2>4. q \in Ready(l)
    BY <1>1, <2>1, <2>2, <2>3
  <2>5. QED
    BY <2>2, <2>3, <2>4 DEF IInv, NoSleepOnMail
<1>11. \A l \in Kinds, q \in Ports : Len(mail'[l][q]) >= Len(mail[l][q])
  <2>1. \A l \in Kinds, q \in Ports : Len(mail[l][q]) \in Nat
    BY LenProperties DEF IInv, TypeOK
  <2>2. QED
    BY <1>4, <1>5, <2>1
<1>12. QED
  BY <1>6, <1>7, <1>8, <1>9, <1>10, <1>11 DEF IInv

(* A scan of a thread's list finds a port of that list, and at most one. *)
LEMMA SourceOwn ==
    ASSUME IInv, NEW k \in Kinds, NEW t \in Threads, NEW S \in SUBSET Filled(k), Ready(k) \subseteq S
    PROVE  \A p \in Source(k, t, S) : p \in S /\ owner[p] = t /\ mail[k][p] # << >>
<1>1. CASE hint[k][t] = NoPort
  <2>1. SUFFICES ASSUME NEW p \in FirstIn(t, S) PROVE p \in S /\ owner[p] = t /\ mail[k][p] # << >>
    BY <1>1 DEF Source
  <2>2. p \in S /\ p \in Elems(ports[t]) /\ p \in Ports /\ mail[k][p] # << >>
    BY <2>1 DEF FirstIn, Elems, Filled
  <2>3. QED
    BY <2>2, ListsOf
<1>2. CASE hint[k][t] # NoPort
  BY <1>2 DEF Source, IInv, HintFresh, Ready
<1>3. QED
  BY <1>1, <1>2

LEMMA TakeKeeps ==
    ASSUME IInv, NEW k \in Kinds, NEW t \in Threads, NEW src, Take(k, t, src),
           \A p \in src : p \in Ports /\ owner[p] = t /\ mail[k][p] # << >>
    PROVE  /\ IInv'
           /\ \A l \in Kinds, q \in Ports : l # k \/ q \notin src => mail'[l][q] = mail[l][q]
<1>1. /\ owner' = owner /\ masked' = masked /\ ports' = ports /\ state' = state /\ timer' = timer
      /\ inside' = inside /\ wake' = wake /\ late' = late
  BY DEF Take, portVars, threadVars
<1>2. /\ mail' = [mail EXCEPT ![k] = [p \in Ports |-> IF p \in src THEN Tail(@[p]) ELSE @[p]]]
      /\ hint' = [hint EXCEPT ![k] = [@ EXCEPT ![t] = NoPort]]
      /\ seen' = [seen EXCEPT ![k] = [@ EXCEPT ![t] = NoItem]]
  BY DEF Take
<1>3. \A p \in src : Tail(mail[k][p]) \in Seq(Items)
  <2>1. \A p \in src : mail[k][p] \in Seq(Items) /\ mail[k][p] # << >>
    BY DEF IInv, TypeOK
  <2>2. QED
    BY <2>1, HeadTailProperties
<1>4. mail'[k] = [p \in Ports |-> IF p \in src THEN Tail(mail[k][p]) ELSE mail[k][p]]
  BY <1>2 DEF IInv, TypeOK
<1>5. /\ \A q \in src : mail'[k][q] = Tail(mail[k][q])
      /\ \A l \in Kinds, q \in Ports : l # k \/ q \notin src => mail'[l][q] = mail[l][q]
  BY <1>2, <1>4 DEF IInv, TypeOK
<1>6. TypeOK'
  <2>1. mail'[k] \in [Ports -> Seq(Items)]
    BY <1>3, <1>4 DEF IInv, TypeOK
  <2>2. mail' \in [Kinds -> [Ports -> Seq(Items)]]
    BY <1>2, <1>4, <2>1 DEF IInv, TypeOK
  <2>3. /\ hint' \in [Kinds -> [Threads -> Ports \cup {NoPort}]]
        /\ seen' \in [Kinds -> [Threads -> Items \cup {NoItem}]]
    BY <1>2 DEF IInv, TypeOK
  <2>4. QED
    BY <1>1, <2>2, <2>3 DEF IInv, TypeOK
<1>7. /\ hint'[k][t] = NoPort
      /\ \A l \in Kinds, u \in Threads : l # k \/ u # t =>
            hint'[l][u] = hint[l][u] /\ seen'[l][u] = seen[l][u]
  BY <1>2 DEF IInv, TypeOK
<1>8. ListsMatchOwners' /\ WakeLives'
  BY <1>1 DEF IInv, ListsMatchOwners, WakeLives
<1>9. GoneForgotten'
  BY <1>1, <1>7 DEF IInv, GoneForgotten
<1>10. UnownedEmpty'
  BY <1>1, <1>5, NoThreadAssumption DEF IInv, UnownedEmpty
<1>11. HintFresh'
  <2>1. ASSUME NEW l \in Kinds, NEW u \in Threads, hint'[l][u] # NoPort
        PROVE  /\ owner'[hint'[l][u]] = u /\ mail'[l][hint'[l][u]] # << >>
               /\ Head(mail'[l][hint'[l][u]]) = seen'[l][u]
    <3>1. /\ (l # k \/ u # t) /\ hint'[l][u] = hint[l][u] /\ seen'[l][u] = seen[l][u]
      BY <1>7, <2>1
    <3>2. /\ hint[l][u] \in Ports /\ owner[hint[l][u]] = u /\ mail[l][hint[l][u]] # << >>
          /\ Head(mail[l][hint[l][u]]) = seen[l][u]
      BY <2>1, <3>1 DEF IInv, TypeOK, HintFresh
    <3>3. l # k \/ hint[l][u] \notin src
      BY <3>1, <3>2
    <3>4. mail'[l][hint[l][u]] = mail[l][hint[l][u]]
      BY <1>5, <3>2, <3>3
    <3>5. QED
      BY <1>1, <3>1, <3>2, <3>4
  <2>2. QED
    BY <2>1 DEF HintFresh
<1>12. NoSleepOnMail'
  <2>1. \A l \in Kinds : Ready(l)' \subseteq Ready(l)
    <3>1. ASSUME NEW l \in Kinds, NEW q \in Ready(l)' PROVE q \in Ready(l)
      <4>1. q \in Ports /\ owner[q] # NoThread /\ ~masked[q] /\ mail'[l][q] # << >>
        BY <1>1, <3>1 DEF Ready
      <4>2. mail[l][q] # << >>
        BY <1>5, <4>1
      <4>3. QED
        BY <4>1, <4>2 DEF Ready
    <3>2. QED
      BY <3>1
  <2>2. QED
    BY <1>1, <2>1 DEF IInv, NoSleepOnMail
<1>13. QED
  BY <1>5, <1>6, <1>8, <1>9, <1>10, <1>11, <1>12 DEF IInv

LEMMA PeekKeeps ==
    ASSUME IInv, NEW k \in Kinds, NEW t \in Threads, Peek(k, t)
    PROVE  IInv' /\ mail' = mail
<1>1. /\ owner' = owner /\ masked' = masked /\ ports' = ports /\ state' = state /\ timer' = timer
      /\ inside' = inside /\ wake' = wake /\ late' = late /\ mail' = mail
      /\ state[t] # "gone"
  BY DEF Peek, portVars, threadVars, Calls, Free
<1>2. PICK h, s :
        /\ hint' = [hint EXCEPT ![k] = [@ EXCEPT ![t] = h]]
        /\ seen' = [seen EXCEPT ![k] = [@ EXCEPT ![t] = s]]
        /\ \/ h = NoPort /\ s = NoItem
           \/ h \in FirstIn(t, Ready(k)) /\ s = Head(mail[k][h])
  BY DEF Peek
<1>3. ASSUME h # NoPort
      PROVE  /\ h \in Ports /\ owner[h] = t /\ mail[k][h] # << >> /\ s = Head(mail[k][h])
             /\ s \in Items
  <2>1. h \in FirstIn(t, Ready(k)) /\ s = Head(mail[k][h])
    BY <1>2, <1>3
  <2>2. h \in Ports /\ mail[k][h] # << >> /\ h \in Elems(ports[t])
    BY <2>1 DEF FirstIn, Ready, Elems
  <2>3. mail[k][h] \in Seq(Items)
    BY <2>2 DEF IInv, TypeOK
  <2>4. Head(mail[k][h]) \in Items
    BY <2>2, <2>3, HeadTailProperties
  <2>5. QED
    BY <2>1, <2>2, <2>4, ListsOf
<1>4. h \in Ports \cup {NoPort} /\ s \in Items \cup {NoItem}
  <2>1. CASE h # NoPort
    BY <1>3, <2>1
  <2>2. CASE h = NoPort
    <3>1. NoPort \notin FirstIn(t, Ready(k))
      BY NoPortAssumption DEF FirstIn, Ready
    <3>2. s = NoItem
      BY <1>2, <2>2, <3>1
    <3>3. QED
      BY <2>2, <3>2
  <2>3. QED
    BY <2>1, <2>2
<1>5. /\ hint' \in [Kinds -> [Threads -> Ports \cup {NoPort}]]
      /\ seen' \in [Kinds -> [Threads -> Items \cup {NoItem}]]
  BY <1>2, <1>4 DEF IInv, TypeOK
<1>6. /\ hint'[k][t] = h /\ seen'[k][t] = s
      /\ \A l \in Kinds, u \in Threads : l # k \/ u # t =>
            hint'[l][u] = hint[l][u] /\ seen'[l][u] = seen[l][u]
  BY <1>2 DEF IInv, TypeOK
<1>7. TypeOK'
  BY <1>1, <1>5 DEF IInv, TypeOK
<1>8. ListsMatchOwners' /\ UnownedEmpty' /\ WakeLives'
  BY <1>1 DEF IInv, ListsMatchOwners, UnownedEmpty, WakeLives
<1>9. GoneForgotten'
  BY <1>1, <1>6 DEF IInv, GoneForgotten
<1>10. HintFresh'
  BY <1>1, <1>3, <1>6 DEF IInv, HintFresh
<1>11. NoSleepOnMail'
  BY <1>1 DEF IInv, NoSleepOnMail, Ready
<1>12. QED
  BY <1>1, <1>7, <1>8, <1>9, <1>10, <1>11 DEF IInv

LEMMA GoDormantKeeps ==
    ASSUME IInv, NEW t \in Threads, NEW timeout \in BOOLEAN, GoDormant(t, timeout)
    PROVE  IInv' /\ mail' = mail
<1>1. /\ owner' = owner /\ masked' = masked /\ ports' = ports /\ hint' = hint /\ seen' = seen
      /\ mail' = mail /\ wake' = wake /\ wake = NoThread /\ state[t] = "running"
      /\ late' = late \ Elems(ports[t]) /\ ~MailWaits(t)
      /\ state' = [state EXCEPT ![t] = "dormant"]
  BY DEF GoDormant, portVars, hintVars, Calls, Free
<1>2. TypeOK'
  <2>1. state' \in [Threads -> ThreadStates]
    BY <1>1 DEF IInv, TypeOK, ThreadStates
  <2>2. timer' \in [Threads -> {"off", "set", "fired"}]
    BY DEF GoDormant, IInv, TypeOK
  <2>3. inside' \in [Threads -> {"no", "timed", "untimed"}]
    BY DEF GoDormant, IInv, TypeOK
  <2>4. QED
    BY <1>1, <2>1, <2>2, <2>3 DEF IInv, TypeOK
<1>3. state'[t] = "dormant" /\ \A u \in Threads : u # t => state'[u] = state[u]
  BY <1>1 DEF IInv, TypeOK
<1>4. ListsMatchOwners' /\ GoneForgotten' /\ UnownedEmpty' /\ WakeLives' /\ HintFresh'
  BY <1>1, <1>3 DEF IInv, ListsMatchOwners, GoneForgotten, UnownedEmpty, WakeLives, HintFresh
<1>5. NoSleepOnMail'
  <2>1. \A k \in Kinds : Ready(k)' = Ready(k)
    BY <1>1 DEF Ready
  <2>2. \A k \in Kinds : Ready(k) \cap Elems(ports[t]) = {}
    BY <1>1 DEF MailWaits
  <2>3. ASSUME NEW u \in Threads, NEW k \in Kinds, state'[u] = "dormant", u # t
        PROVE  Ready(k) \cap Elems(ports[u]) \subseteq late'
    <3>1. Ready(k) \cap Elems(ports[u]) \subseteq late
      BY <1>1, <1>3, <2>3, NoThreadAssumption DEF IInv, NoSleepOnMail
    <3>2. Elems(ports[u]) \cap Elems(ports[t]) = {}
      BY <2>3, ListsOf
    <3>3. QED
      BY <1>1, <3>1, <3>2
  <2>4. QED
    BY <1>1, <2>1, <2>2, <2>3 DEF NoSleepOnMail
<1>6. QED
  BY <1>1, <1>2, <1>4, <1>5 DEF IInv

(* Steps after which a thread is in a state that is neither dormant nor gone. *)
LEMMA MovesKeep ==
    ASSUME IInv, NEW t \in Threads, NEW s \in {"running", "parked", "finished"},
           state[t] # "gone", state' = [state EXCEPT ![t] = s],
           wake' = wake \/ (wake' = NoThread /\ wake = t),
           timer' \in [Threads -> {"off", "set", "fired"}], inside' = inside, late' = late,
           UNCHANGED <<portVars, mail, hintVars>>
    PROVE  IInv' /\ mail' = mail
<1>1. /\ owner' = owner /\ masked' = masked /\ ports' = ports /\ hint' = hint /\ seen' = seen
      /\ mail' = mail
  BY DEF portVars, hintVars
<1>2. TypeOK'
  BY <1>1 DEF IInv, TypeOK, ThreadStates
<1>3. state'[t] = s /\ \A u \in Threads : u # t => state'[u] = state[u]
  BY DEF IInv, TypeOK
<1>4. ListsMatchOwners' /\ GoneForgotten' /\ UnownedEmpty' /\ HintFresh'
  BY <1>1, <1>3 DEF IInv, ListsMatchOwners, GoneForgotten, UnownedEmpty, HintFresh
<1>5. WakeLives'
  BY <1>3 DEF IInv, WakeLives, TypeOK
<1>6. NoSleepOnMail'
  BY <1>1, <1>3 DEF IInv, NoSleepOnMail, Ready
<1>7. QED
  BY <1>1, <1>2, <1>4, <1>5, <1>6 DEF IInv

LEMMA ReturnKeeps ==
    ASSUME IInv, NEW t \in Threads, Return(t)
    PROVE  IInv' /\ mail' = mail
<1>1. /\ owner' = owner /\ masked' = masked /\ ports' = ports /\ hint' = hint /\ seen' = seen
      /\ mail' = mail /\ state' = state /\ timer' = timer /\ wake' = wake /\ late' = late
      /\ inside' = [inside EXCEPT ![t] = "no"]
  BY DEF Return, portVars, hintVars
<1>2. TypeOK'
  BY <1>1 DEF IInv, TypeOK
<1>3. ListsMatchOwners' /\ GoneForgotten' /\ UnownedEmpty' /\ WakeLives' /\ HintFresh'
  BY <1>1 DEF IInv, ListsMatchOwners, GoneForgotten, UnownedEmpty, WakeLives, HintFresh
<1>4. NoSleepOnMail'
  BY <1>1 DEF IInv, NoSleepOnMail, Ready
<1>5. QED
  BY <1>1, <1>2, <1>3, <1>4 DEF IInv

LEMMA CollectKeeps ==
    ASSUME IInv, NEW t \in Threads, Collect(t)
    PROVE  IInv' /\ mail' = mail
<1>1. /\ owner' = owner /\ masked' = masked /\ mail' = mail /\ timer' = timer /\ inside' = inside
      /\ wake' = wake /\ wake = NoThread /\ late' = late /\ ForgetHints(t)
      /\ state' = [state EXCEPT ![t] = "gone"] /\ ports' = [ports EXCEPT ![t] = << >>]
  BY DEF Collect
<1>2. /\ hint' \in [Kinds -> [Threads -> Ports \cup {NoPort}]]
      /\ seen' \in [Kinds -> [Threads -> Items \cup {NoItem}]]
      /\ \A k \in Kinds : hint'[k][t] = NoPort
      /\ \A k \in Kinds, u \in Threads : u # t => hint'[k][u] = hint[k][u]
      /\ HintFresh'
  BY <1>1, ForgottenFresh
<1>3. /\ state'[t] = "gone" /\ ports'[t] = << >>
      /\ \A u \in Threads : u # t => state'[u] = state[u] /\ ports'[u] = ports[u]
  BY <1>1 DEF IInv, TypeOK
<1>4. TypeOK'
  <2>1. ports' \in [Threads -> Seq(Ports)]
    BY <1>1, EmptySeq DEF IInv, TypeOK
  <2>2. state' \in [Threads -> ThreadStates]
    BY <1>1 DEF IInv, TypeOK, ThreadStates
  <2>3. QED
    BY <1>1, <1>2, <2>1, <2>2 DEF IInv, TypeOK
<1>5. GoneForgotten'
  BY <1>2, <1>3 DEF IInv, GoneForgotten
<1>6. ListsMatchOwners'
  <2>1. DOMAIN ports'[t] = {}
    BY <1>3
  <2>2. QED
    BY <1>1, <1>3, <2>1 DEF IInv, ListsMatchOwners, Elems
<1>7. UnownedEmpty' /\ WakeLives'
  BY <1>1 DEF IInv, UnownedEmpty, WakeLives
<1>8. NoSleepOnMail'
  BY <1>1, <1>3 DEF IInv, NoSleepOnMail, Ready
<1>9. QED
  BY <1>1, <1>2, <1>4, <1>5, <1>6, <1>7, <1>8 DEF IInv

LEMMA StutterKeeps ==
    ASSUME IInv, UNCHANGED vars
    PROVE  IInv' /\ mail' = mail
BY DEF vars, IInv, TypeOK, ListsMatchOwners, GoneForgotten, UnownedEmpty, WakeLives, HintFresh,
       NoSleepOnMail, Ready
-----------------------------------------------------------------------------
LEMMA InitIInv == Init => IInv
<1> SUFFICES ASSUME Init PROVE IInv
  OBVIOUS
<1>1. << >> \in Seq(Items) /\ << >> \in Seq(Ports) /\ Elems(<< >>) = {} /\ DOMAIN << >> = {}
  BY EmptySeq DEF Elems
<1>2. TypeOK
  BY <1>1 DEF Init, TypeOK, ThreadStates
<1>3. ListsMatchOwners
  BY <1>1, NoThreadAssumption DEF Init, ListsMatchOwners
<1>4. GoneForgotten /\ UnownedEmpty /\ WakeLives
  BY DEF Init, GoneForgotten, UnownedEmpty, WakeLives
<1>5. HintFresh
  BY DEF Init, HintFresh
<1>6. NoSleepOnMail
  BY DEF Init, NoSleepOnMail
<1>7. QED
  BY <1>2, <1>3, <1>4, <1>5, <1>6 DEF IInv

(* What one step does: it keeps the invariant, and a message that has left *)
(* its port was released with it or taken by the port's running handler.   *)
Takes(p) ==
    Len(mail'["message"][p]) < Len(mail["message"][p]) =>
        owner'[p] = NoThread \/ (~masked[p] /\ owner[p] \in Threads /\ Free(owner[p]))

LEMMA QuietTakes ==
    ASSUME IInv, NEW p \in Ports,
           mail'["message"][p] = mail["message"][p] \/ Len(mail'["message"][p]) >= Len(mail["message"][p]),
           mail'["message"][p] \in Seq(Items)
    PROVE  Takes(p)
<1>1. "message" \in Kinds
  BY DEF Kinds
<1>2. mail["message"][p] \in Seq(Items)
  BY <1>1 DEF IInv, TypeOK
<1>3. Len(mail["message"][p]) \in Nat /\ Len(mail'["message"][p]) \in Nat
  BY <1>2, LenProperties
<1>4. QED
  BY <1>3 DEF Takes

LEMMA StepKeeps ==
    ASSUME IInv, [Next]_vars
    PROVE  IInv' /\ \A p \in Ports : Takes(p)
<1>1. "message" \in Kinds /\ "pulse" \in Kinds /\ "message" # "pulse"
  BY DEF Kinds
<1>2. ASSUME IInv', mail' = mail PROVE IInv' /\ \A p \in Ports : Takes(p)
  <2>1. \A p \in Ports : mail'["message"][p] \in Seq(Items)
    BY <1>1, <1>2 DEF IInv, TypeOK
  <2>2. QED
    BY <1>2, <2>1, QuietTakes
<1>3. CASE UNCHANGED vars
  BY <1>2, <1>3, StutterKeeps
<1>4. CASE \E k \in Kinds, p \in Ports, item \in Items : Send(k, p, item)
  <2>1. PICK k \in Kinds, p \in Ports, item \in Items : Send(k, p, item)
    BY <1>4
  <2>2. IInv' /\ \A q \in Ports : Len(mail'["message"][q]) >= Len(mail["message"][q])
    BY <1>1, <2>1, SendKeeps
  <2>3. \A q \in Ports : mail'["message"][q] \in Seq(Items)
    BY <1>1, <2>2 DEF IInv, TypeOK
  <2>4. QED
    BY <2>2, <2>3, QuietTakes
<1>5. CASE Wake
  <2>1. /\ wake \in Threads /\ state[wake] # "gone" /\ wake' = NoThread
        /\ state' = [state EXCEPT ![wake] = "running"] /\ inside' = inside /\ late' = late
        /\ UNCHANGED <<portVars, mail, hintVars>>
        /\ timer' \in [Threads -> {"off", "set", "fired"}]
    BY <1>5 DEF Wake, IInv, TypeOK, WakeLives
  <2>2. IInv' /\ mail' = mail
    BY <2>1, MovesKeep
  <2>3. QED
    BY <1>2, <2>2
<1>6. ASSUME NEW t \in Threads, NEW p \in Ports, NEW o \in Threads, CreatePort(t, p, o)
      PROVE  IInv' /\ \A q \in Ports : Takes(q)
  <2>1. IInv'
    BY <1>6, CreateKeeps
  <2>2. owner[p] = NoThread /\ mail' = [k \in Kinds |-> [mail[k] EXCEPT ![p] = << >>]]
    BY <1>6 DEF CreatePort
  <2>3. mail["message"][p] = << >>
    BY <1>1, <2>2 DEF IInv, UnownedEmpty
  <2>4. \A q \in Ports : mail'["message"][q] = mail["message"][q]
    BY <1>1, <2>2, <2>3 DEF IInv, TypeOK
  <2>5. \A q \in Ports : mail'["message"][q] \in Seq(Items)
    BY <1>1, <2>1 DEF IInv, TypeOK
  <2>6. QED
    BY <2>1, <2>4, <2>5, QuietTakes
<1>7. ASSUME NEW t \in Threads, NEW p \in Ports, ReleasePort(t, p)
      PROVE  IInv' /\ \A q \in Ports : Takes(q)
  <2>1. IInv' /\ \A q \in Ports : q # p => mail'["message"][q] = mail["message"][q]
    BY <1>7, ReleaseKeeps
  <2>2. owner'[p] = NoThread
    BY <1>7 DEF ReleasePort, IInv, TypeOK
  <2>3. Takes(p)
    BY <2>2 DEF Takes
  <2>4. \A q \in Ports : mail'["message"][q] \in Seq(Items)
    BY <1>1, <2>1 DEF IInv, TypeOK
  <2>5. QED
    BY <2>1, <2>3, <2>4, QuietTakes
<1>8. ASSUME NEW t \in Threads, NEW k \in Kinds, Recv(k, t) \/ Drop(k, t)
      PROVE  IInv' /\ \A q \in Ports : Takes(q)
  <2>1. PICK S \in {Ready(k), Filled(k)} :
          /\ Calls(t) /\ Take(k, t, Source(k, t, S))
          /\ k = "message" => S = Ready(k)
    BY <1>1, <1>8 DEF Recv, Drop, DropScan
  <2>2. S \in SUBSET Filled(k) /\ Ready(k) \subseteq S /\ S \subseteq Ports
    BY <2>1 DEF Ready, Filled
  <2> DEFINE src == Source(k, t, S)
  <2>3. \A p \in src : p \in S /\ p \in Ports /\ owner[p] = t /\ mail[k][p] # << >>
    BY <2>2, SourceOwn
  <2>4. Take(k, t, src)
    BY <2>1
  <2> HIDE DEF src
  <2>5. IInv' /\ \A l \in Kinds, q \in Ports : l # k \/ q \notin src => mail'[l][q] = mail[l][q]
    BY <2>3, <2>4, TakeKeeps
  <2>6. \A q \in Ports : mail'["message"][q] \in Seq(Items)
    BY <1>1, <2>5 DEF IInv, TypeOK
  <2>7. ASSUME NEW q \in Ports PROVE Takes(q)
    <3>1. CASE k = "message" /\ q \in src
      <4>1. ~masked[q] /\ owner[q] = t
        BY <2>1, <2>3, <3>1 DEF Ready
      <4>2. Free(t)
        BY <2>1 DEF Calls
      <4>3. QED
        BY <4>1, <4>2 DEF Takes
    <3>2. CASE ~(k = "message" /\ q \in src)
      BY <1>1, <2>5, <2>6, <3>2, QuietTakes
    <3>3. QED
      BY <3>1, <3>2
  <2>8. QED
    BY <2>5, <2>7
<1>9. ASSUME NEW t \in Threads, NEW k \in Kinds, Peek(k, t) PROVE IInv' /\ mail' = mail
  BY <1>9, PeekKeeps
<1>10. ASSUME NEW t \in Threads, NEW s \in {"running", "parked", "finished"},
              state[t] # "gone", SetState(t, s)
       PROVE  IInv' /\ mail' = mail
  <2>1. /\ state' = [state EXCEPT ![t] = s] /\ wake' = wake /\ inside' = inside /\ late' = late
        /\ UNCHANGED <<portVars, mail, hintVars>>
        /\ timer' \in [Threads -> {"off", "set", "fired"}]
    BY <1>10 DEF SetState, IInv, TypeOK
  <2>2. QED
    BY <1>10, <2>1, MovesKeep
<1>11. ASSUME NEW t \in Threads, TimerFires(t) PROVE IInv' /\ mail' = mail
  <2>1. /\ state' = [state EXCEPT ![t] = "running"] /\ wake' = wake /\ inside' = inside
        /\ late' = late /\ state[t] # "gone"
        /\ UNCHANGED <<portVars, mail, hintVars>>
        /\ timer' \in [Threads -> {"off", "set", "fired"}]
    BY <1>11 DEF TimerFires, IInv, TypeOK
  <2>2. QED
    BY <2>1, MovesKeep
<1>12. ASSUME NEW t \in Threads, ThreadStep(t) PROVE IInv' /\ \A q \in Ports : Takes(q)
  <2>1. CASE \E p \in Ports, o \in Threads : CreatePort(t, p, o)
    BY <1>6, <2>1
  <2>2. CASE \E p \in Ports : ReleasePort(t, p)
    BY <1>7, <2>2
  <2>3. CASE \/ \E p \in Ports, flag \in BOOLEAN : MaskPort(t, p, flag)
             \/ \E flag \in BOOLEAN : MaskAll(t, flag)
             \/ \E S \in SUBSET Ports : \E f \in [S -> BOOLEAN] : BulkSet(t, f)
    <3>1. IInv' /\ mail' = mail
      BY <2>3, FlagStepsKeep
    <3>2. QED
      BY <1>2, <3>1
  <2>4. CASE \E k \in Kinds : Recv(k, t) \/ Drop(k, t) \/ Peek(k, t)
    BY <1>2, <1>8, <1>9, <2>4
  <2>5. CASE \E timeout \in BOOLEAN : GoDormant(t, timeout)
    BY <1>2, <2>5, GoDormantKeeps
  <2>6. CASE Return(t) \/ TimerFires(t) \/ Collect(t)
    BY <1>2, <1>11, <2>6, ReturnKeeps, CollectKeeps
  <2>7. CASE Park(t) \/ Unpark(t)
    <3>1. PICK s \in {"running", "parked", "finished"} : state[t] # "gone" /\ SetState(t, s)
      BY <2>7 DEF Park, Unpark, Free
    <3>2. QED
      BY <1>2, <1>10, <3>1
  <2>8. CASE \E u \in Threads : Resume(u, t) \/ Finish(u, t)
    <3>1. PICK s \in {"running", "parked", "finished"} : state[t] # "gone" /\ SetState(t, s)
      BY <2>8 DEF Resume, Finish
    <3>2. QED
      BY <1>2, <1>10, <3>1
  <2>9. QED
    BY <1>12, <2>1, <2>2, <2>3, <2>4, <2>5, <2>6, <2>7, <2>8 DEF ThreadStep
<1>13. QED
  BY <1>3, <1>4, <1>5, <1>12 DEF Next

LEMMA Invariance == Spec => []IInv
<1>1. IInv /\ [Next]_vars => IInv'
  BY StepKeeps
<1>2. QED
  BY InitIInv, <1>1, PTL DEF Spec

(* Every variable stays of its type: no list, queue or hint is ever read *)
(* outside its range, whoever creates, releases, sends and receives.     *)
THEOREM TypeCorrect == Spec => []TypeOK
<1>1. IInv => TypeOK
  BY DEF IInv
<1>2. QED
  BY Invariance, <1>1, PTL

(* The two records of who handles a port, which create_port and the       *)
(* shifting loop of release_port keep by hand, agree for every number of  *)
(* threads and ports.                                                     *)
THEOREM ListsAgree == Spec => []ListsMatchOwners
<1>1. IInv => ListsMatchOwners
  BY DEF IInv
<1>2. QED
  BY Invariance, <1>1, PTL

(* What a peek showed is what the next receive delivers: no peer's create, *)
(* release, mask or send makes a hint stale.                               *)
THEOREM HintsFresh == Spec => []HintFresh
<1>1. IInv => HintFresh
  BY DEF IInv
<1>2. QED
  BY Invariance, <1>1, PTL

(* go_dormant and the senders leave nobody asleep beside deliverable mail, *)
(* save on a port a peer opened during the sleep.                          *)
THEOREM NobodySleepsOnMail == Spec => []NoSleepOnMail
<1>1. IInv => NoSleepOnMail
  BY DEF IInv
<1>2. QED
  BY Invariance, <1>1, PTL

(* A message leaves its port only with the port, or to the port's running *)
(* handler while the port is open.                                        *)
THEOREM MessagesAreTaken == Spec => MessagesStay
<1>1. IInv /\ [Next]_vars => [\A p \in Ports :
        Len(mail'["message"][p]) < Len(mail["message"][p]) =>
            \/ owner'[p] = NoThread
            \/ ~masked[p] /\ owner[p] \in Threads /\ Free(owner[p])]_vars
  BY StepKeeps DEF Takes
<1>2. QED
  BY Invariance, <1>1, PTL DEF Spec, MessagesStay
=============================================================================
