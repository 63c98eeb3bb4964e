-------------------------- MODULE VfsServer_proofs --------------------------
(***************************************************************************)
(* The file server, for any number of clients, drivers, requests, files and *)
(* time-outs: whose answer a call takes, that the server's table holds the   *)
(* clients' files, and that a client reads the node it opened. The proofs    *)
(* follow a request from the box it is put in, to the server's hand, to the  *)
(* port its answer waits on, and a file from its OPEN to its CLOSE.          *)
(***************************************************************************)
EXTENDS VfsServer, SequenceTheorems, FiniteSetTheorems, TLAPS

Bodies ==
    [what : {"OPEN"}, node : Nodes] \cup [what : {"READ"}, fd : {2}] \cup [what : {"READ", "STAT"}]
Requests == [from : Processes, no : Nat \ {0}, to : Processes, body : Bodies]
Installs == [from : Drivers, no : {0}, to : Processes, body : [what : {"INSTALL"}]]
Messages == Requests \cup Installs
Answers == [to : Processes, no : Nat \ {0}, body : Contents]

CallTypes ==
    /\ served \subseteq Processes
    /\ box \in [Processes -> Seq(Messages)]
    /\ answers \in [Processes -> Seq(Answers)]
    /\ DOMAIN ask = Processes
    /\ sent \in [Processes -> BOOLEAN] /\ asks \in [Processes -> Nat]
    /\ reply \in Contents

(* The server has a request in its hand from the time it takes it until it  *)
(* is through with the answer.                                               *)
Busy == loop \notin {"dormant", "message"}
JobThere == Busy => job \in Requests

(* A request of p's, its k-th, is what p waits for, or p has given up that  *)
(* one or one before it.                                                     *)
GivenUp(p, k) == \E j \in 1..k : <<p, j>> \in gaveUp
Known(p, k) == k <= asks[p] /\ ((~Idle(p) /\ k = asks[p]) \/ GivenUp(p, k))

(* So it is with the requests that still go round, and with the answers.    *)
Boxed(q, i) == i \in DOMAIN box[q] /\ box[q][i].no # 0
BoxKnown == \A q \in Processes, i \in Nat : Boxed(q, i) => Known(box[q][i].from, box[q][i].no)
JobKnown == Busy => Known(job.from, job.no)
AnswersKnown ==
    \A p \in Processes : \A i \in DOMAIN answers[p] :
        answers[p][i].to = p /\ Known(p, answers[p][i].no)
AskLast == \A p \in Processes : ~Idle(p) => ask[p].no = asks[p]

(* The last request of a process is at one place: in a box, in the server's *)
(* hand, or among the answers,                                               *)
Last(m) == m.no = asks[m.from]
Same(m, n) == m.from = n.from /\ m.no = n.no
OneBox ==
    \A q, r \in Processes, i, j \in Nat :
        Boxed(q, i) /\ Boxed(r, j) /\ Last(box[q][i]) /\ Same(box[q][i], box[r][j]) => q = r /\ i = j
BoxOrJob ==
    \A q \in Processes, i \in Nat : Boxed(q, i) /\ Busy /\ Last(job) => ~Same(box[q][i], job)
Unanswerable(p) == \A i \in DOMAIN answers[p] : answers[p][i].no # asks[p]
BoxOrAnswered ==
    \A q \in Processes, i \in Nat : Boxed(q, i) /\ Last(box[q][i]) => Unanswerable(box[q][i].from)
JobOrAnswered == Busy /\ Last(job) => Unanswerable(job.from)

(* or nowhere, if it found no port. *)
Unsent(p) == ~Idle(p) /\ ~sent[p]
UnsentBox == \A q \in Processes, i \in Nat : Boxed(q, i) /\ Last(box[q][i]) => ~Unsent(box[q][i].from)
UnsentJob == Busy /\ Last(job) => ~Unsent(job.from)
UnsentAnswer == \A p \in Processes : Unsent(p) => Unanswerable(p)

BoxTokens == BoxKnown /\ OneBox /\ UnsentBox
JobTokens == JobKnown /\ BoxOrJob /\ UnsentJob
AnswerTokens == AnswersKnown /\ BoxOrAnswered /\ JobOrAnswered /\ UnsentAnswer
IInv == CallTypes /\ JobThere /\ AskLast /\ BoxTokens /\ JobTokens /\ AnswerTokens
-----------------------------------------------------------------------------
(* What happens to a box: it gets a message at its end, or loses from its   *)
(* beginning s[q] of them.                                                   *)
Shifted(s) ==
    \A q \in Processes, i \in Nat :
        Boxed(q, i)' => Boxed(q, i + s[q]) /\ box'[q][i] = box[q][i + s[q]]

LEMMA BoxItems ==
    ASSUME CallTypes, NEW q \in Processes, NEW i \in Nat, Boxed(q, i)
    PROVE  box[q][i] \in Requests /\ i >= 1
<1>1. box[q] \in Seq(Messages)
  BY DEF CallTypes
<1>2. i \in 1..Len(box[q]) /\ box[q][i] \in Messages
  BY <1>1, ElementOfSeq, LenProperties DEF Boxed
<1>3. QED
  BY <1>2 DEF Boxed, Messages, Installs

LEMMA AnswerItems ==
    ASSUME CallTypes, NEW p \in Processes, NEW i \in DOMAIN answers[p]
    PROVE  answers[p][i] \in Answers
<1>1. answers[p] \in Seq(Answers)
  BY DEF CallTypes
<1>2. QED
  BY <1>1, ElementOfSeq, LenProperties

LEMMA Appended ==
    ASSUME CallTypes, NEW x \in Processes, NEW m \in Messages,
           box' = [box EXCEPT ![x] = Append(@, m)]
    PROVE  /\ box' \in [Processes -> Seq(Messages)]
           /\ \A q \in Processes, i \in Nat : Boxed(q, i)' =>
                \/ Boxed(q, i) /\ box'[q][i] = box[q][i]
                \/ q = x /\ i = Len(box[x]) + 1 /\ box'[q][i] = m
<1> DEFINE s == box[x]  r == Append(s, m)
<1>1. s \in Seq(Messages) /\ box' = [box EXCEPT ![x] = r] /\ DOMAIN box = Processes
  BY DEF CallTypes
<1>2. /\ r \in Seq(Messages) /\ Len(s) \in Nat /\ DOMAIN s = 1..Len(s) /\ DOMAIN r = 1..(Len(s) + 1)
      /\ r[Len(s) + 1] = m /\ \A i \in 1..Len(s) : r[i] = s[i]
  BY <1>1, AppendProperties, LenProperties
<1> HIDE DEF r
<1>3. box' \in [Processes -> Seq(Messages)]
  BY <1>1, <1>2 DEF CallTypes
<1>4. box'[x] = r /\ \A q \in Processes : q # x => box'[q] = box[q]
  BY <1>1
<1>5. ASSUME NEW q \in Processes, NEW i \in Nat, Boxed(q, i)'
      PROVE  \/ Boxed(q, i) /\ box'[q][i] = box[q][i]
             \/ q = x /\ i = Len(box[x]) + 1 /\ box'[q][i] = m
  <2>1. CASE q # x
    BY <1>4, <1>5, <2>1 DEF Boxed
  <2>2. CASE q = x
    <3>1. i \in DOMAIN r /\ r[i].no # 0
      BY <1>4, <1>5, <2>2 DEF Boxed
    <3>2. i = Len(s) + 1 \/ (i \in 1..Len(s) /\ r[i] = s[i])
      BY <1>2, <3>1
    <3>3. QED
      BY <1>2, <1>4, <2>2, <3>1, <3>2 DEF Boxed
  <2>3. QED
    BY <2>1, <2>2
<1>6. QED
  BY <1>3, <1>5

LEMMA Headless ==
    ASSUME CallTypes, NEW x \in Processes, box[x] # << >>, box' = [box EXCEPT ![x] = Tail(@)]
    PROVE  /\ box' \in [Processes -> Seq(Messages)]
           /\ 1 \in DOMAIN box[x] /\ Head(box[x]) = box[x][1] /\ Head(box[x]) \in Messages
           /\ Shifted([q \in Processes |-> IF q = x THEN 1 ELSE 0])
<1> DEFINE s == box[x]  r == Tail(s)  up == [q \in Processes |-> IF q = x THEN 1 ELSE 0]
<1>1. s \in Seq(Messages) /\ s # << >> /\ box' = [box EXCEPT ![x] = r] /\ DOMAIN box = Processes
  BY DEF CallTypes
<1>2. /\ r \in Seq(Messages) /\ Len(s) \in Nat /\ DOMAIN s = 1..Len(s) /\ DOMAIN r = 1..(Len(s) - 1)
      /\ Len(s) > 0 /\ Head(s) \in Messages /\ \A i \in 1..(Len(s) - 1) : r[i] = s[i + 1]
  BY <1>1, HeadTailProperties, LenProperties, EmptySeq
<1>3. Head(s) = s[1]
  BY <1>1
<1> HIDE DEF r
<1>4. box' \in [Processes -> Seq(Messages)]
  BY <1>1, <1>2 DEF CallTypes
<1>5. box'[x] = r /\ \A q \in Processes : q # x => box'[q] = box[q]
  BY <1>1
<1>6. ASSUME NEW q \in Processes, NEW i \in Nat, Boxed(q, i)'
      PROVE  Boxed(q, i + up[q]) /\ box'[q][i] = box[q][i + up[q]]
  <2>1. CASE q # x
    <3>1. i + up[q] = i
      BY <2>1
    <3>2. QED
      BY <1>5, <1>6, <2>1, <3>1 DEF Boxed
  <2>2. CASE q = x
    <3>1. i \in DOMAIN r /\ r[i].no # 0 /\ i + up[q] = i + 1
      BY <1>5, <1>6, <2>2 DEF Boxed
    <3>2. i + 1 \in DOMAIN s /\ r[i] = s[i + 1]
      BY <1>2, <3>1
    <3>3. QED
      BY <1>5, <2>2, <3>1, <3>2 DEF Boxed
  <2>3. QED
    BY <2>1, <2>2
<1>7. Shifted(up)
  <2> HIDE DEF up
  <2>1. QED
    BY <1>6 DEF Shifted
<1>8. 1 \in DOMAIN s
  BY <1>2
<1>9. QED
  BY <1>2, <1>3, <1>4, <1>7, <1>8
-----------------------------------------------------------------------------
(* Where nobody asks or returns, boxes that only lose messages keep their   *)
(* part, *)
Quiet == UNCHANGED <<ask, asks, sent, gaveUp>>
JobStays == Busy' => Busy /\ job' = job

LEMMA BoxesLose ==
    ASSUME CallTypes, BoxTokens, Quiet, NEW s \in [Processes -> Nat], Shifted(s)
    PROVE  BoxTokens'
<1>1. ASSUME NEW q \in Processes, NEW i \in Nat, Boxed(q, i)'
      PROVE  /\ i + s[q] \in Nat /\ Boxed(q, i + s[q]) /\ box'[q][i] = box[q][i + s[q]]
             /\ box'[q][i] \in Requests
  BY <1>1, BoxItems DEF Shifted
<1>2. BoxKnown'
  BY <1>1 DEF BoxTokens, BoxKnown, Known, GivenUp, Idle, Quiet
<1>3. OneBox'
  <2>1. SUFFICES ASSUME NEW q \in Processes, NEW r \in Processes, NEW i \in Nat, NEW j \in Nat,
                        Boxed(q, i)', Boxed(r, j)', Last(box[q][i])', Same(box[q][i], box[r][j])'
                 PROVE  q = r /\ i = j
    BY DEF OneBox
  <2>2. Last(box[q][i + s[q]]) /\ Same(box[q][i + s[q]], box[r][j + s[r]])
    BY <1>1, <2>1 DEF Last, Same, Quiet
  <2>3. q = r /\ i + s[q] = j + s[r]
    BY <1>1, <2>1, <2>2 DEF BoxTokens, OneBox
  <2>4. QED
    BY <2>3
<1>4. UnsentBox'
  BY <1>1 DEF BoxTokens, UnsentBox, Unsent, Idle, Last, Quiet
<1>5. QED
  BY <1>2, <1>3, <1>4 DEF BoxTokens

(* and so does the server's hand, *)
LEMMA HandStays ==
    ASSUME CallTypes, BoxTokens, JobThere, JobTokens, Quiet, JobStays,
           NEW s \in [Processes -> Nat], Shifted(s)
    PROVE  JobTokens'
<1>1. JobKnown' /\ UnsentJob'
  BY DEF JobTokens, JobKnown, UnsentJob, Known, GivenUp, Unsent, Idle, Last, Quiet, JobStays
<1>2. BoxOrJob'
  <2>1. SUFFICES ASSUME NEW q \in Processes, NEW i \in Nat, Boxed(q, i)', Busy', Last(job)'
                 PROVE  ~Same(box[q][i], job)'
    BY DEF BoxOrJob
  <2>2. /\ i + s[q] \in Nat /\ Boxed(q, i + s[q]) /\ box'[q][i] = box[q][i + s[q]]
        /\ Busy /\ job' = job /\ Last(job)
    BY <2>1 DEF Shifted, JobStays, Last, Quiet
  <2>3. QED
    BY <2>2 DEF JobTokens, BoxOrJob, Same
<1>3. QED
  BY <1>1, <1>2 DEF JobTokens

(* or it takes the first message. *)
LEMMA HandTakes ==
    ASSUME CallTypes, BoxTokens, AnswerTokens, Quiet, UNCHANGED answers,
           box[Vfs] # << >>, box' = [box EXCEPT ![Vfs] = Tail(@)],
           job' = Head(box[Vfs]), Head(box[Vfs]) \in Requests
    PROVE  BoxTokens' /\ JobTokens' /\ AnswerTokens'
<1> DEFINE up == [q \in Processes |-> IF q = Vfs THEN 1 ELSE 0]
<1>1. /\ Vfs \in Processes /\ up \in [Processes -> Nat] /\ Shifted(up) /\ up[Vfs] = 1
      /\ Boxed(Vfs, 1) /\ job' = box[Vfs][1]
  BY Headless, ProcessesAssumption DEF Boxed, Requests
<1> HIDE DEF up
<1>2. BoxTokens'
  BY <1>1, BoxesLose
<1>3. ASSUME NEW q \in Processes, NEW i \in Nat, Boxed(q, i)'
      PROVE  /\ i + up[q] \in Nat /\ Boxed(q, i + up[q]) /\ box'[q][i] = box[q][i + up[q]]
             /\ ~(q = Vfs /\ i + up[q] = 1)
  <2>1. i + up[q] \in Nat
    <3>1. up[q] \in Nat
      BY <1>1
    <3>2. QED
      BY <3>1
  <2>2. Boxed(q, i + up[q]) /\ box'[q][i] = box[q][i + up[q]]
    BY <1>1, <1>3 DEF Shifted
  <2>3. box' \in [Processes -> Seq(Messages)]
    BY <1>1, Headless
  <2>4. i >= 1
    BY <1>3, <2>3, LenProperties DEF Boxed
  <2>5. ~(q = Vfs /\ i + up[q] = 1)
    <3>1. CASE q = Vfs
      <4>1. up[q] = 1
        BY <1>1, <3>1
      <4>2. QED
        BY <2>4, <4>1
    <3>2. QED
      BY <3>1
  <2>6. QED
    BY <2>1, <2>2, <2>5
<1>4. JobKnown' /\ UnsentJob'
  BY <1>1 DEF BoxTokens, BoxKnown, UnsentBox, JobKnown, UnsentJob, Known, GivenUp, Unsent, Idle, Last, Quiet
<1>5. BoxOrJob'
  <2>1. SUFFICES ASSUME NEW q \in Processes, NEW i \in Nat, Boxed(q, i)', Last(job)', Same(box[q][i], job)'
                 PROVE  FALSE
    BY DEF BoxOrJob
  <2>2. Last(box[Vfs][1]) /\ Same(box[Vfs][1], box[q][i + up[q]])
    BY <1>1, <1>3, <2>1 DEF Last, Same, Quiet
  <2>3. QED
    BY <1>1, <1>3, <2>1, <2>2 DEF BoxTokens, OneBox
<1>6. AnswersKnown' /\ UnsentAnswer'
  BY DEF AnswerTokens, AnswersKnown, UnsentAnswer, Unsent, Unanswerable, Known, GivenUp, Idle, Quiet
<1>7. BoxOrAnswered' /\ JobOrAnswered'
  <2>1. ASSUME NEW q \in Processes, NEW i \in Nat, Boxed(q, i)', Last(box[q][i])'
        PROVE  Unanswerable(box[q][i].from)'
    <3>1. /\ i + up[q] \in Nat /\ Boxed(q, i + up[q]) /\ box'[q][i] = box[q][i + up[q]]
          /\ Last(box[q][i + up[q]])
      BY <1>3, <2>1 DEF Last, Quiet
    <3>2. QED
      BY <3>1 DEF AnswerTokens, BoxOrAnswered, Unanswerable, Quiet
  <2>2. ASSUME Last(job)' PROVE Unanswerable(job.from)'
    BY <1>1, <2>2 DEF AnswerTokens, BoxOrAnswered, Unanswerable, Last, Quiet
  <2>3. QED
    BY <2>1, <2>2 DEF BoxOrAnswered, JobOrAnswered
<1>8. QED
  BY <1>2, <1>4, <1>5, <1>6, <1>7 DEF JobTokens, AnswerTokens

(* The answers stay as they are, *)
LEMMA AnswersStay ==
    ASSUME CallTypes, AnswerTokens, Quiet, JobStays, UNCHANGED answers,
           NEW s \in [Processes -> Nat], Shifted(s)
    PROVE  AnswerTokens'
<1>1. AnswersKnown' /\ UnsentAnswer'
  BY DEF AnswerTokens, AnswersKnown, UnsentAnswer, Unsent, Unanswerable, Known, GivenUp, Idle, Quiet
<1>2. JobOrAnswered'
  BY DEF AnswerTokens, JobOrAnswered, Unanswerable, Last, Quiet, JobStays
<1>3. BoxOrAnswered'
  <2>1. SUFFICES ASSUME NEW q \in Processes, NEW i \in Nat, Boxed(q, i)', Last(box[q][i])'
                 PROVE  Unanswerable(box[q][i].from)'
    BY DEF BoxOrAnswered
  <2>2. i + s[q] \in Nat /\ Boxed(q, i + s[q]) /\ box'[q][i] = box[q][i + s[q]]
    BY <2>1 DEF Shifted
  <2>3. QED
    BY <2>1, <2>2 DEF AnswerTokens, BoxOrAnswered, Unanswerable, Last, Quiet
<1>4. QED
  BY <1>1, <1>2, <1>3 DEF AnswerTokens

(* or one gets to a process that waits, from where the request was. *)
LEMMA AnswerComes ==
    ASSUME CallTypes, JobThere, AnswerTokens, Quiet, NEW s \in [Processes -> Nat], Shifted(s),
           NEW m \in Requests, NEW body \in Contents, SendReply(m, body), Reaches(m),
           Known(m.from, m.no), Last(m) => ~Unsent(m.from),
           \A q \in Processes, i \in Nat : Boxed(q, i)' /\ Last(m) => ~Same(box'[q][i], m),
           JobStays, Busy' /\ Last(m) => ~Same(job', m)
    PROVE  AnswerTokens' /\ answers' \in [Processes -> Seq(Answers)]
<1> DEFINE f == m.from  a == [to |-> f, no |-> m.no, body |-> body]  t == answers[f]  r == Append(t, a)
<1>1. f \in Processes /\ a \in Answers /\ a.to = f /\ a.no = m.no /\ m.no \in Nat
  BY DEF Requests, Answers
<1>2. t \in Seq(Answers) /\ answers' = [answers EXCEPT ![f] = r] /\ DOMAIN answers = Processes
  BY <1>1 DEF CallTypes, SendReply
<1> HIDE DEF a
<1>3. /\ r \in Seq(Answers) /\ Len(t) \in Nat /\ DOMAIN t = 1..Len(t) /\ DOMAIN r = 1..(Len(t) + 1)
      /\ r[Len(t) + 1] = a /\ \A i \in 1..Len(t) : r[i] = t[i]
  BY <1>1, <1>2, AppendProperties, LenProperties
<1> HIDE DEF r
<1>4. answers' \in [Processes -> Seq(Answers)]
  BY <1>2, <1>3 DEF CallTypes
<1>5. ASSUME NEW p \in Processes, NEW i \in DOMAIN answers'[p]
      PROVE  \/ i \in DOMAIN answers[p] /\ answers'[p][i] = answers[p][i]
             \/ p = f /\ answers'[p][i] = a
  <2>1. CASE p # f
    BY <1>1, <1>2, <1>5, <2>1
  <2>2. CASE p = f
    <3>1. answers'[p] = r
      BY <1>1, <1>2, <2>2
    <3>2. i = Len(t) + 1 \/ (i \in 1..Len(t) /\ r[i] = t[i])
      BY <1>3, <1>5, <3>1
    <3>3. QED
      BY <1>3, <2>2, <3>1, <3>2
  <2>3. QED
    BY <2>1, <2>2
<1>6. ASSUME NEW p \in Processes, Unanswerable(p), p # f \/ ~Last(m) PROVE Unanswerable(p)'
  BY <1>1, <1>5, <1>6 DEF Unanswerable, Last, Quiet
<1>7. AnswersKnown'
  <2>1. SUFFICES ASSUME NEW p \in Processes, NEW i \in DOMAIN answers'[p]
                 PROVE  answers'[p][i].to = p /\ Known(p, answers[p][i].no)'
    BY DEF AnswersKnown
  <2>2. answers'[p][i].to = p /\ Known(p, answers'[p][i].no)
    BY <1>1, <1>5 DEF AnswerTokens, AnswersKnown
  <2>3. QED
    BY <2>2 DEF Known, GivenUp, Idle, Quiet
<1>8. UnsentAnswer'
  BY <1>6 DEF AnswerTokens, UnsentAnswer, Unsent, Idle, Quiet
<1>9. JobOrAnswered'
  <2>1. SUFFICES ASSUME Busy', Last(job)' PROVE Unanswerable(job.from)'
    BY DEF JobOrAnswered
  <2>2. Busy /\ job' = job /\ Last(job) /\ Unanswerable(job.from)
    BY <2>1 DEF AnswerTokens, JobOrAnswered, JobStays, Last, Quiet
  <2>3. job.from # f \/ ~Last(m)
    BY <2>1, <2>2 DEF Same, Last
  <2>4. job.from \in Processes
    BY <2>2 DEF JobThere, Requests
  <2>5. Unanswerable(job.from)'
    BY <1>6, <2>2, <2>3, <2>4 DEF Unanswerable, Quiet
  <2>6. QED
    BY <2>5
<1>10. BoxOrAnswered'
  <2>1. SUFFICES ASSUME NEW q \in Processes, NEW i \in Nat, Boxed(q, i)', Last(box[q][i])'
                 PROVE  Unanswerable(box[q][i].from)'
    BY DEF BoxOrAnswered
  <2>2. i + s[q] \in Nat /\ Boxed(q, i + s[q]) /\ box'[q][i] = box[q][i + s[q]]
    BY <2>1 DEF Shifted
  <2>3. box'[q][i].from \in Processes
    BY <2>2, BoxItems DEF Requests
  <2>4. Unanswerable(box'[q][i].from)
    BY <2>1, <2>2 DEF AnswerTokens, BoxOrAnswered, Last, Quiet
  <2>5. box'[q][i].from # f \/ ~Last(m)
    BY <2>1 DEF Same, Last, Quiet
  <2>6. QED
    BY <1>6, <2>3, <2>4, <2>5
<1>11. QED
  BY <1>4, <1>7, <1>8, <1>9, <1>10 DEF AnswerTokens
-----------------------------------------------------------------------------
(* A call begins: its request has a number that nothing else has. *)
LEMMA RequestMade ==
    ASSUME NEW p, NEW n, NEW to, NEW body
    PROVE  [from |-> p, no |-> n, to |-> to, body |-> body] # Nothing
<1> DEFINE r == [from |-> p, no |-> n, to |-> to, body |-> body]
<1>1. "no" \in DOMAIN r /\ "no" \notin DOMAIN Nothing
  BY DEF Nothing
<1>2. QED
  BY <1>1

LEMMA AskKeeps ==
    ASSUME IInv, NEW p \in Processes, NEW to, NEW body \in Bodies, Ask(p, to, body),
           JobStays, reply' \in Contents
    PROVE  IInv'
<1> DEFINE request == [from |-> p, no |-> asks[p] + 1, to |-> to, body |-> body]
<1>1. /\ Idle(p) /\ asks[p] \in Nat /\ asks'[p] = asks[p] + 1 /\ \A q \in Processes : q # p => asks'[q] = asks[q]
      /\ ask'[p] = request /\ \A q \in Processes : q # p => ask'[q] = ask[q]
      /\ \A q \in Processes : q # p => sent'[q] = sent[q]
      /\ answers'[p] = << >> /\ \A q \in Processes : q # p => answers'[q] = answers[q]
      /\ gaveUp' = gaveUp /\ served' = served /\ sent'[p] = (to \in served)
      /\ asks' \in [Processes -> Nat] /\ sent' \in [Processes -> BOOLEAN]
      /\ DOMAIN ask' = Processes /\ answers' \in [Processes -> Seq(Answers)]
      /\ served \subseteq Processes
  BY EmptySeq DEF IInv, CallTypes, Ask
<1>2. request # Nothing /\ request.no = asks[p] + 1 /\ request.from = p /\ (to \in Processes => request \in Requests)
  BY <1>1, RequestMade DEF Requests
<1>3. box' = IF to \in served THEN [box EXCEPT ![to] = Append(@, request)] ELSE box
  BY DEF Ask
<1> HIDE DEF request
<1>4. /\ box' \in [Processes -> Seq(Messages)]
      /\ \A q \in Processes, i \in Nat : Boxed(q, i)' =>
            \/ Boxed(q, i) /\ box'[q][i] = box[q][i] /\ box[q][i] \in Requests
            \/ to \in served /\ q = to /\ i = Len(box[to]) + 1 /\ box'[q][i] = request
  <2>1. CASE to \in served
    <3>1. to \in Processes /\ request \in Messages /\ CallTypes /\ box' = [box EXCEPT ![to] = Append(@, request)]
      BY <1>1, <1>2, <1>3, <2>1 DEF Messages, IInv
    <3>2. /\ box' \in [Processes -> Seq(Messages)]
          /\ \A q \in Processes, i \in Nat : Boxed(q, i)' =>
                \/ Boxed(q, i) /\ box'[q][i] = box[q][i]
                \/ q = to /\ i = Len(box[to]) + 1 /\ box'[q][i] = request
      BY <3>1, Appended
    <3>3. \A q \in Processes, i \in Nat : Boxed(q, i) => box[q][i] \in Requests
      BY <3>1, BoxItems
    <3>4. QED
      BY <2>1, <3>2, <3>3
  <2>2. CASE to \notin served
    BY <1>3, <2>2, BoxItems DEF IInv, CallTypes, Boxed
  <2>3. QED
    BY <2>1, <2>2
<1> DEFINE Still(f, k) ==
        k <= asks'[f] /\ ((ask'[f] # Nothing /\ k = asks'[f]) \/ \E j \in 1..k : <<f, j>> \in gaveUp')
<1>5. ASSUME NEW f \in Processes, NEW k \in Nat, Known(f, k)
      PROVE  Still(f, k) /\ ~(f = p /\ k = asks'[p])
  <2>1. k <= asks[f] /\ ((~Idle(f) /\ k = asks[f]) \/ \E j \in 1..k : <<f, j>> \in gaveUp)
    BY <1>5 DEF Known, GivenUp
  <2>2. asks[f] \in Nat /\ asks[p] \in Nat
    BY DEF IInv, CallTypes
  <2>3. CASE f = p
    <3>1. \E j \in 1..k : <<f, j>> \in gaveUp'
      BY <1>1, <2>1, <2>3
    <3>2. k <= asks'[f] /\ k # asks'[f]
      BY <1>1, <2>1, <2>2, <2>3
    <3>3. QED
      BY <2>3, <3>1, <3>2
  <2>4. CASE f # p
    BY <1>1, <2>1, <2>2, <2>4 DEF Idle
  <2>5. QED
    BY <2>3, <2>4
<1>6. Still(p, request.no)
  BY <1>1, <1>2
<1>7. ASSUME NEW q \in Processes, NEW i \in Nat, Boxed(q, i)', box'[q][i] # request
      PROVE  /\ Boxed(q, i) /\ box'[q][i] = box[q][i] /\ box[q][i].from \in Processes
             /\ Still(box'[q][i].from, box'[q][i].no)
             /\ Last(box[q][i])' => Last(box[q][i]) /\ box'[q][i].from # p
  <2>1. Boxed(q, i) /\ box'[q][i] = box[q][i] /\ box[q][i].from \in Processes /\ box[q][i].no \in Nat
    BY <1>4, <1>7 DEF Requests
  <2>2. Known(box[q][i].from, box[q][i].no)
    BY <2>1 DEF IInv, BoxTokens, BoxKnown
  <2>3. Still(box[q][i].from, box[q][i].no) /\ ~(box[q][i].from = p /\ box[q][i].no = asks'[p])
    BY <1>5, <2>1, <2>2
  <2>4. ASSUME Last(box[q][i])' PROVE Last(box[q][i]) /\ box'[q][i].from # p
    BY <1>1, <2>1, <2>3, <2>4 DEF Last
  <2>5. QED
    BY <2>1, <2>3, <2>4
<1>8. ASSUME Busy'
      PROVE  /\ Busy /\ job' = job /\ job.from \in Processes
             /\ Still(job.from, job.no)
             /\ Last(job)' => Last(job) /\ job.from # p
  <2>1. Busy /\ job' = job /\ job.from \in Processes /\ job.no \in Nat
    BY <1>8 DEF IInv, JobStays, JobThere, Requests
  <2>2. Known(job.from, job.no)
    BY <2>1 DEF IInv, JobTokens, JobKnown
  <2>3. Still(job.from, job.no) /\ ~(job.from = p /\ job.no = asks'[p])
    BY <1>5, <2>1, <2>2
  <2>4. QED
    BY <1>1, <2>1, <2>3 DEF Last
<1>9. BoxKnown' /\ JobKnown'
  <2>1. BoxKnown'
    <3>1. SUFFICES ASSUME NEW q \in Processes, NEW i \in Nat, Boxed(q, i)'
                   PROVE  Still(box'[q][i].from, box'[q][i].no)
      BY DEF BoxKnown, Known, GivenUp, Idle
    <3>2. CASE box'[q][i] = request
      BY <1>2, <1>6, <3>2
    <3>3. CASE box'[q][i] # request
      BY <1>7, <3>1, <3>3
    <3>4. QED
      BY <3>2, <3>3
  <2>2. JobKnown'
    BY <1>8 DEF JobKnown, Known, GivenUp, Idle
  <2>3. QED
    BY <2>1, <2>2
<1>10. ASSUME NEW q \in Processes, NEW i \in Nat, box'[q][i] = request
       PROVE  ~(Boxed(q, i) /\ box'[q][i] = box[q][i])
  <2>1. SUFFICES ASSUME Boxed(q, i), box[q][i] = request PROVE FALSE
    BY <1>10
  <2>2. Known(p, asks[p] + 1)
    BY <1>2, <2>1 DEF IInv, BoxTokens, BoxKnown
  <2>3. QED
    BY <1>1, <2>2 DEF Known
<1>11. OneBox'
  <2>1. SUFFICES ASSUME NEW q \in Processes, NEW r \in Processes, NEW i \in Nat, NEW j \in Nat,
                        Boxed(q, i)', Boxed(r, j)', Last(box[q][i])', Same(box[q][i], box[r][j])'
                 PROVE  q = r /\ i = j
    BY DEF OneBox
  <2>2. Last(box[r][j])'
    BY <2>1 DEF Last, Same
  <2>3. CASE box'[q][i] = request
    <3>1. box'[r][j] = request
      BY <1>2, <1>7, <2>1, <2>2, <2>3 DEF Same
    <3>2. q = to /\ i = Len(box[to]) + 1
      <4>1. ~(Boxed(q, i) /\ box'[q][i] = box[q][i])
        BY <1>10, <2>3
      <4>2. QED
        BY <1>4, <2>1, <4>1
    <3>3. r = to /\ j = Len(box[to]) + 1
      <4>1. ~(Boxed(r, j) /\ box'[r][j] = box[r][j])
        BY <1>10, <3>1
      <4>2. QED
        BY <1>4, <2>1, <4>1
    <3>4. QED
      BY <3>2, <3>3
  <2>4. CASE box'[q][i] # request
    BY <1>2, <1>7, <2>1, <2>2, <2>4 DEF IInv, BoxTokens, OneBox, Same
  <2>5. QED
    BY <2>3, <2>4
<1>12. BoxOrJob'
  <2>1. SUFFICES ASSUME NEW q \in Processes, NEW i \in Nat, Boxed(q, i)', Busy', Last(job)', Same(box[q][i], job)'
                 PROVE  FALSE
    BY DEF BoxOrJob
  <2>2. box'[q][i] # request
    BY <1>2, <1>8, <2>1 DEF Same
  <2>3. QED
    BY <1>7, <1>8, <2>1, <2>2 DEF IInv, JobTokens, BoxOrJob, Same
<1>13. ASSUME NEW q \in Processes, q # p
       PROVE  (Unsent(q)' => Unsent(q)) /\ (Unanswerable(q) => Unanswerable(q)')
  BY <1>1, <1>13 DEF Unsent, Idle, Unanswerable
<1>14. UnsentBox'
  <2>1. SUFFICES ASSUME NEW q \in Processes, NEW i \in Nat, Boxed(q, i)', Last(box[q][i])'
                 PROVE  ~Unsent(box[q][i].from)'
    BY DEF UnsentBox
  <2>2. CASE box'[q][i] = request
    <3>1. to \in served
      BY <1>4, <1>10, <2>1, <2>2
    <3>2. QED
      BY <1>1, <1>2, <2>2, <3>1 DEF Unsent
  <2>3. CASE box'[q][i] # request
    BY <1>7, <1>13, <2>1, <2>3 DEF IInv, BoxTokens, UnsentBox
  <2>4. QED
    BY <2>2, <2>3
<1>15. UnsentJob'
  BY <1>8, <1>13 DEF IInv, JobTokens, UnsentJob
<1>16. Unanswerable(p)'
  BY <1>1 DEF Unanswerable
<1>17. UnsentAnswer'
  BY <1>13, <1>16 DEF IInv, AnswerTokens, UnsentAnswer
<1>18. JobOrAnswered'
  BY <1>8, <1>13 DEF IInv, AnswerTokens, JobOrAnswered
<1>19. BoxOrAnswered'
  <2>1. SUFFICES ASSUME NEW q \in Processes, NEW i \in Nat, Boxed(q, i)', Last(box[q][i])'
                 PROVE  Unanswerable(box[q][i].from)'
    BY DEF BoxOrAnswered
  <2>2. CASE box'[q][i] = request
    BY <1>2, <1>16, <2>2
  <2>3. CASE box'[q][i] # request
    BY <1>7, <1>13, <2>1, <2>3 DEF IInv, AnswerTokens, BoxOrAnswered
  <2>4. QED
    BY <2>2, <2>3
<1>20. AnswersKnown'
  <2>1. SUFFICES ASSUME NEW q \in Processes, NEW i \in DOMAIN answers'[q]
                 PROVE  answers'[q][i].to = q /\ Still(q, answers'[q][i].no)
    BY DEF AnswersKnown, Known, GivenUp, Idle
  <2>2. q # p /\ answers'[q] = answers[q]
    BY <1>1, <2>1
  <2>3. answers[q][i].to = q /\ Known(q, answers[q][i].no)
    BY <2>1, <2>2 DEF IInv, AnswerTokens, AnswersKnown
  <2>4. answers[q][i].no \in Nat
    BY <2>1, <2>2, AnswerItems DEF IInv, Answers
  <2>5. QED
    BY <1>5, <2>2, <2>3, <2>4
<1>21. AskLast' /\ JobThere' /\ CallTypes'
  <2>1. AskLast'
    BY <1>1, <1>2 DEF IInv, AskLast, Idle
  <2>2. JobThere'
    BY DEF IInv, JobThere, JobStays
  <2>3. QED
    BY <1>1, <1>4, <2>1, <2>2 DEF CallTypes
<1>22. QED
  BY <1>9, <1>11, <1>12, <1>14, <1>15, <1>17, <1>18, <1>19, <1>20, <1>21 DEF IInv, BoxTokens, JobTokens, AnswerTokens

(* A call ends: with its own answer, with an earlier one, or given up. *)
LEMMA ReturnKeeps ==
    ASSUME IInv, NEW p \in Processes, ~Idle(p), Leave(p), gaveUp \subseteq gaveUp', JobStays, reply' \in Contents,
           ~sent[p] \/ <<p, asks[p]>> \in gaveUp' \/ answers[p] # << >>
    PROVE  IInv'
<1>1. /\ asks[p] \in Nat /\ asks' = asks /\ box' = box /\ served' = served
      /\ ask'[p] = Nothing /\ \A q \in Processes : q # p => ask'[q] = ask[q]
      /\ \A q \in Processes : q # p => sent'[q] = sent[q]
      /\ answers'[p] = << >> /\ \A q \in Processes : q # p => answers'[q] = answers[q]
      /\ sent' \in [Processes -> BOOLEAN] /\ DOMAIN ask' = Processes /\ answers' \in [Processes -> Seq(Answers)]
  BY EmptySeq DEF IInv, CallTypes, Leave, boxVars
<1>2. ASSUME asks[p] \in Nat, NEW k \in Nat \ {0}, Known(p, k), k = asks[p] => ~Unsent(p) /\ Unanswerable(p)
      PROVE  \E j \in 1..k : <<p, j>> \in gaveUp'
  <2>1. CASE k # asks[p]
    BY <1>2, <2>1 DEF Known, GivenUp
  <2>2. CASE k = asks[p] /\ <<p, asks[p]>> \in gaveUp'
    BY <2>2
  <2>3. CASE k = asks[p] /\ answers[p] # << >>
    <3>1. 1 \in DOMAIN answers[p]
      BY <2>3, EmptySeq, LenProperties DEF IInv, CallTypes
    <3>2. answers[p][1].no \in Nat /\ answers[p][1].no # asks[p] /\ Known(p, answers[p][1].no)
      BY <1>2, <2>3, <3>1, AnswerItems DEF IInv, AnswerTokens, AnswersKnown, Unanswerable, Answers
    <3>3. PICK j \in 1..answers[p][1].no : <<p, j>> \in gaveUp
      BY <3>2 DEF Known, GivenUp
    <3>4. j \in 1..k
      BY <1>2, <2>3, <3>2, <3>3 DEF Known
    <3>5. QED
      BY <3>3, <3>4
  <2>4. CASE k = asks[p] /\ ~sent[p]
    BY <1>2, <2>4 DEF Unsent
  <2>5. QED
    BY <2>1, <2>2, <2>3, <2>4
<1> DEFINE Still(f, k) ==
        k <= asks'[f] /\ ((ask'[f] # Nothing /\ k = asks'[f]) \/ \E j \in 1..k : <<f, j>> \in gaveUp')
<1>3. ASSUME NEW f \in Processes, NEW k \in Nat \ {0}, Known(f, k),
             f = p /\ k = asks[p] => ~Unsent(p) /\ Unanswerable(p)
      PROVE  Still(f, k)
  <2>1. CASE f = p
    <3>1. \E j \in 1..k : <<p, j>> \in gaveUp'
      BY <1>1, <1>2, <1>3, <2>1
    <3>2. k <= asks'[f]
      BY <1>1, <1>3 DEF Known
    <3>3. QED
      BY <2>1, <3>1, <3>2
  <2>2. CASE f # p
    BY <1>1, <1>3, <2>2 DEF Known, GivenUp, Idle
  <2>3. QED
    BY <2>1, <2>2
<1>4. ASSUME NEW q \in Processes
      PROVE  (Unsent(q)' => Unsent(q)) /\ (Unanswerable(q) => Unanswerable(q)')
  BY <1>1 DEF Unsent, Idle, Unanswerable
<1>5. ASSUME NEW q \in Processes, NEW i \in Nat, Boxed(q, i)'
      PROVE  /\ Boxed(q, i) /\ box'[q][i] = box[q][i] /\ box[q][i].from \in Processes
             /\ Still(box[q][i].from, box[q][i].no) /\ (Last(box[q][i])' => Last(box[q][i]))
  <2>1. Boxed(q, i) /\ box'[q][i] = box[q][i] /\ (Last(box[q][i])' => Last(box[q][i]))
    BY <1>1, <1>5 DEF Boxed, Last
  <2>2. box[q][i].from \in Processes /\ box[q][i].no \in Nat \ {0}
    BY <2>1, BoxItems DEF IInv, Requests
  <2>3. Known(box[q][i].from, box[q][i].no)
    BY <2>1 DEF IInv, BoxTokens, BoxKnown
  <2>4. box[q][i].from = p /\ box[q][i].no = asks[p] => ~Unsent(p) /\ Unanswerable(p)
    BY <2>1 DEF IInv, BoxTokens, UnsentBox, AnswerTokens, BoxOrAnswered, Last
  <2>5. QED
    BY <1>3, <2>1, <2>2, <2>3, <2>4
<1>6. ASSUME Busy'
      PROVE  /\ Busy /\ job' = job /\ job.from \in Processes
             /\ Still(job.from, job.no) /\ (Last(job)' => Last(job))
  <2>1. Busy /\ job' = job /\ (Last(job)' => Last(job))
    BY <1>1, <1>6 DEF JobStays, Last
  <2>2. job.from \in Processes /\ job.no \in Nat \ {0}
    BY <2>1 DEF IInv, JobThere, Requests
  <2>3. Known(job.from, job.no)
    BY <2>1 DEF IInv, JobTokens, JobKnown
  <2>4. job.from = p /\ job.no = asks[p] => ~Unsent(p) /\ Unanswerable(p)
    BY <2>1 DEF IInv, JobTokens, UnsentJob, AnswerTokens, JobOrAnswered, Last
  <2>5. QED
    BY <1>3, <2>1, <2>2, <2>3, <2>4
<1>7. BoxTokens'
  <2>1. BoxKnown'
    BY <1>5 DEF BoxKnown, Known, GivenUp, Idle
  <2>2. OneBox'
    <3>1. SUFFICES ASSUME NEW q \in Processes, NEW r \in Processes, NEW i \in Nat, NEW j \in Nat,
                          Boxed(q, i)', Boxed(r, j)', Last(box[q][i])', Same(box[q][i], box[r][j])'
                   PROVE  q = r /\ i = j
      BY DEF OneBox
    <3>2. Boxed(q, i) /\ Boxed(r, j) /\ Last(box[q][i]) /\ Same(box[q][i], box[r][j])
      BY <1>1, <1>5, <3>1 DEF Same
    <3>3. QED
      BY <3>2 DEF IInv, BoxTokens, OneBox
  <2>3. UnsentBox'
    BY <1>4, <1>5 DEF IInv, BoxTokens, UnsentBox
  <2>4. QED
    BY <2>1, <2>2, <2>3 DEF BoxTokens
<1>8. JobTokens'
  <2>1. JobKnown'
    BY <1>6 DEF JobKnown, Known, GivenUp, Idle
  <2>2. BoxOrJob'
    BY <1>5, <1>6 DEF IInv, JobTokens, BoxOrJob, Same
  <2>3. UnsentJob'
    BY <1>4, <1>6 DEF IInv, JobTokens, UnsentJob
  <2>4. QED
    BY <2>1, <2>2, <2>3 DEF JobTokens
<1>9. AnswersKnown'
  <2>1. SUFFICES ASSUME NEW q \in Processes, NEW i \in DOMAIN answers'[q]
                 PROVE  answers'[q][i].to = q /\ Still(q, answers'[q][i].no)
    BY DEF AnswersKnown, Known, GivenUp, Idle
  <2>2. q # p /\ answers'[q] = answers[q]
    BY <1>1, <2>1
  <2>3. answers[q][i].to = q /\ Known(q, answers[q][i].no)
    BY <2>1, <2>2 DEF IInv, AnswerTokens, AnswersKnown
  <2>4. answers[q][i].no \in Nat \ {0}
    BY <2>1, <2>2, AnswerItems DEF IInv, Answers
  <2>5. QED
    BY <1>3, <2>2, <2>3, <2>4
<1>10. AnswerTokens'
  <2>1. BoxOrAnswered'
    BY <1>4, <1>5 DEF IInv, AnswerTokens, BoxOrAnswered
  <2>2. JobOrAnswered'
    BY <1>4, <1>6 DEF IInv, AnswerTokens, JobOrAnswered
  <2>3. UnsentAnswer'
    BY <1>4 DEF IInv, AnswerTokens, UnsentAnswer
  <2>4. QED
    BY <1>9, <2>1, <2>2, <2>3 DEF AnswerTokens
<1>11. AskLast' /\ JobThere' /\ CallTypes'
  <2>1. AskLast'
    BY <1>1 DEF IInv, AskLast, Idle
  <2>2. JobThere'
    BY DEF IInv, JobThere, JobStays
  <2>3. CallTypes'
    BY <1>1 DEF IInv, CallTypes
  <2>4. QED
    BY <2>1, <2>2, <2>3
<1>12. QED
  BY <1>7, <1>8, <1>10, <1>11 DEF IInv
-----------------------------------------------------------------------------
LEMMA InitHolds == Init => IInv
<1> SUFFICES ASSUME Init PROVE IInv
  OBVIOUS
<1>1. /\ \A q \in Processes : box[q] = << >> /\ answers[q] = << >>
      /\ \A q \in Processes : Idle(q)
      /\ ~Busy
  BY DEF Init, MessengersInit, Idle, Busy
<1>2. \A q \in Processes, i \in Nat : ~Boxed(q, i)
  BY <1>1 DEF Boxed
<1>3. CallTypes
  <2>1. << >> \in Seq(Messages) /\ << >> \in Seq(Answers)
    BY EmptySeq
  <2>2. Drivers \cup {Vfs} \subseteq Processes /\ Minus \in Contents
    BY ProcessesAssumption DEF Contents
  <2>3. QED
    BY <2>1, <2>2 DEF CallTypes, Init, MessengersInit
<1>4. BoxTokens
  BY <1>2 DEF BoxTokens, BoxKnown, OneBox, UnsentBox
<1>5. JobTokens /\ JobThere /\ AskLast
  BY <1>1 DEF JobTokens, JobKnown, BoxOrJob, UnsentJob, JobThere, AskLast
<1>6. AnswerTokens
  BY <1>1, <1>2 DEF AnswerTokens, AnswersKnown, BoxOrAnswered, JobOrAnswered, UnsentAnswer, Unsent
<1>7. QED
  BY <1>3, <1>4, <1>5, <1>6 DEF IInv

(* Steps in which a box loses something, or nothing moves at all, *)
LEMMA LoseKeeps ==
    ASSUME IInv, Quiet, JobStays, UNCHANGED answers, NEW s \in [Processes -> Nat], Shifted(s),
           box' \in [Processes -> Seq(Messages)], served' \subseteq Processes, reply' \in Contents
    PROVE  IInv'
<1>1. CallTypes' /\ JobThere' /\ AskLast'
  BY DEF IInv, CallTypes, JobThere, JobStays, AskLast, Idle, Quiet
<1>2. BoxTokens' /\ JobTokens' /\ AnswerTokens'
  BY BoxesLose, HandStays, AnswersStay DEF IInv
<1>3. QED
  BY <1>1, <1>2 DEF IInv

LEMMA StandsStill ==
    ASSUME IInv, Quiet, JobStays, UNCHANGED <<answers, box, served>>, reply' \in Contents
    PROVE  IInv'
<1> DEFINE s == [q \in Processes |-> 0]
<1>1. s \in [Processes -> Nat]
  OBVIOUS
<1>2. \A q \in Processes, i \in Nat : i + s[q] = i
  OBVIOUS
<1> HIDE DEF s
<1>3. Shifted(s)
  BY <1>2 DEF Shifted, Boxed
<1>4. box' \in [Processes -> Seq(Messages)] /\ served' \subseteq Processes
  BY DEF IInv, CallTypes
<1>5. QED
  BY <1>1, <1>3, <1>4, LoseKeeps

(* and in which an answer is sent. *)
LEMMA ReplyKeeps ==
    ASSUME IInv, Quiet, NEW s \in [Processes -> Nat], Shifted(s), UNCHANGED served,
           box' \in [Processes -> Seq(Messages)], reply' \in Contents,
           NEW m \in Requests, NEW body \in Contents, SendReply(m, body),
           Known(m.from, m.no), Last(m) => ~Unsent(m.from),
           \A q \in Processes, i \in Nat : Boxed(q, i)' /\ Last(m) => ~Same(box'[q][i], m),
           JobStays, Reaches(m) /\ Busy' /\ Last(m) => ~Same(job', m)
    PROVE  IInv'
<1>1. CASE ~Reaches(m)
  <2>1. UNCHANGED answers /\ served' \subseteq Processes
    BY <1>1 DEF SendReply, IInv, CallTypes
  <2>2. QED
    BY <2>1, LoseKeeps
<1>2. CASE Reaches(m)
  <2>1. AnswerTokens' /\ answers' \in [Processes -> Seq(Answers)]
    BY <1>2, AnswerComes DEF IInv
  <2>2. BoxTokens' /\ JobTokens'
    BY BoxesLose, HandStays DEF IInv
  <2>3. CallTypes' /\ JobThere' /\ AskLast'
    BY <2>1 DEF IInv, CallTypes, JobThere, JobStays, AskLast, Idle, Quiet
  <2>4. QED
    BY <2>1, <2>2, <2>3 DEF IInv
<1>3. QED
  BY <1>1, <1>2
-----------------------------------------------------------------------------
LEMMA TheServer == Vfs \in Processes /\ \A p \in Clients \cup Drivers : p \in Processes
  BY ProcessesAssumption

LEMMA TakesKeeps ==
    ASSUME IInv, NEW what \in {"OPEN", "READ"}, NEW m, Receives(what, m), Quiet,
           UNCHANGED <<answers, served>>, reply' \in Contents
    PROVE  IInv'
<1>1. /\ box[Vfs] # << >> /\ m = Head(box[Vfs]) /\ m.body.what = what /\ job' = m
      /\ box' = [box EXCEPT ![Vfs] = Tail(@)]
  BY DEF Receives
<1>2. box' \in [Processes -> Seq(Messages)] /\ Head(box[Vfs]) \in Messages
  BY <1>1, Headless, TheServer DEF IInv
<1>3. m \in Requests
  BY <1>1, <1>2 DEF Messages, Installs
<1>4. CallTypes' /\ JobThere' /\ AskLast'
  BY <1>1, <1>2, <1>3 DEF IInv, CallTypes, JobThere, AskLast, Idle, Quiet
<1>5. BoxTokens' /\ JobTokens' /\ AnswerTokens'
  BY <1>1, <1>3, HandTakes DEF IInv
<1>6. QED
  BY <1>4, <1>5 DEF IInv

LEMMA AnsweredKeeps ==
    ASSUME IInv, NEW p \in Processes, NEW body, Answered(p, body) \/ Unanswered(p),
           JobStays, reply' \in Contents
    PROVE  IInv'
<1>1. ~Idle(p) /\ Leave(p) /\ ask[p].no = asks[p]
  BY DEF Answered, Unanswered, IInv, AskLast
<1>2. CASE Answered(p, body)
  <2>1. answers[p] # << >> /\ gaveUp' = gaveUp
    BY <1>2 DEF Answered
  <2>2. QED
    BY <1>1, <2>1, ReturnKeeps
<1>3. CASE Unanswered(p)
  <2>1. gaveUp \subseteq gaveUp' /\ (~sent[p] \/ <<p, asks[p]>> \in gaveUp')
    BY <1>1, <1>3 DEF Unanswered
  <2>2. QED
    BY <1>1, <2>1, ReturnKeeps
<1>4. QED
  BY <1>2, <1>3

LEMMA RepliesKeep ==
    ASSUME IInv, Busy, SendReply(job, reply), Quiet, UNCHANGED <<box, served>>, reply' \in Contents,
           Busy' => job' = job /\ ~Reaches(job)
    PROVE  IInv'
<1> DEFINE s == [q \in Processes |-> 0]
<1>1. s \in [Processes -> Nat] /\ \A q \in Processes, i \in Nat : i + s[q] = i
  OBVIOUS
<1> HIDE DEF s
<1>2. Shifted(s)
  BY <1>1 DEF Shifted, Boxed
<1>3. /\ job \in Requests /\ reply \in Contents /\ box' \in [Processes -> Seq(Messages)]
      /\ Known(job.from, job.no) /\ (Last(job) => ~Unsent(job.from)) /\ JobStays
  BY DEF IInv, CallTypes, JobThere, JobTokens, JobKnown, UnsentJob, JobStays
<1>4. ASSUME NEW q \in Processes, NEW i \in Nat, Boxed(q, i)', Last(job) PROVE ~Same(box'[q][i], job)
  BY <1>4 DEF IInv, JobTokens, BoxOrJob, Boxed, Same
<1>5. QED
  BY <1>1, <1>2, <1>3, <1>4, ReplyKeeps

LEMMA ServerKeeps == IInv /\ Server => IInv'
<1> SUFFICES ASSUME IInv, Server PROVE IInv'
  OBVIOUS
<1> USE TheServer
<1>0. reply \in Contents /\ Minus \in Contents /\ [what |-> "fd"] \in Contents
  BY DEF IInv, CallTypes, Contents
<1>1. CASE TakePulse
  <2>1. Quiet /\ JobStays /\ UNCHANGED <<answers, box, served, reply>>
    BY <1>1 DEF TakePulse, Quiet, JobStays, Busy, callVars
  <2>2. QED
    BY <1>0, <2>1, StandsStill
<1>2. CASE NoMessage
  <2>1. Quiet /\ JobStays /\ UNCHANGED <<answers, box, served, reply>>
    BY <1>2 DEF NoMessage, Quiet, JobStays, Busy, callVars, boxVars, messengerVars
  <2>2. QED
    BY <1>0, <2>1, StandsStill
<1>3. CASE InstallDevice
  <2>1. /\ Quiet /\ JobStays /\ UNCHANGED <<answers, served, reply>>
        /\ box[Vfs] # << >> /\ box' = [box EXCEPT ![Vfs] = Tail(@)]
    BY <1>3 DEF InstallDevice, Quiet, JobStays, Busy, callVars
  <2> DEFINE up == [q \in Processes |-> IF q = Vfs THEN 1 ELSE 0]
  <2>2. box' \in [Processes -> Seq(Messages)] /\ Shifted(up) /\ up \in [Processes -> Nat]
    BY <2>1, Headless DEF IInv
  <2> HIDE DEF up
  <2>3. served' \subseteq Processes
    BY <2>1 DEF IInv, CallTypes
  <2>4. QED
    BY <1>0, <2>1, <2>2, <2>3, LoseKeeps
<1>4. CASE OpenFile
  <2>1. Quiet /\ UNCHANGED <<answers, served>> /\ reply' \in Contents /\ \E m : Receives("OPEN", m)
    BY <1>0, <1>4 DEF OpenFile, Quiet, callVars, Replies
  <2>2. QED
    BY <2>1, TakesKeeps
<1>5. CASE ReadFile
  <2>1. Quiet /\ UNCHANGED <<answers, served>> /\ reply' \in Contents /\ \E m : Receives("READ", m)
    BY <1>0, <1>5 DEF ReadFile, Quiet, callVars, Replies
  <2>2. QED
    BY <2>1, TakesKeeps
<1>6. ASSUME NEW what \in {"READ", "STAT"}, AskDevice(what), Busy PROVE IInv'
  <2>1. PICK d : Ask(Vfs, d, [what |-> what])
    BY <1>6 DEF AskDevice
  <2>2. JobStays /\ reply' \in Contents /\ [what |-> what] \in Bodies
    BY <1>0, <1>6 DEF AskDevice, JobStays, Bodies
  <2>3. QED
    BY <2>1, <2>2, AskKeeps
<1>7. CASE AskData
  BY <1>6, <1>7 DEF AskData, Busy
<1>8. CASE AskSize
  BY <1>6, <1>8 DEF AskSize, Busy
<1>9. CASE DataComes
  <2>1. PICK body : Answered(Vfs, body) \/ Unanswered(Vfs)
    BY <1>9 DEF DataComes
  <2>2. JobStays /\ reply' \in Contents
    BY <1>0, <1>9 DEF DataComes, Replies, JobStays, Busy
  <2>3. QED
    BY <2>1, <2>2, AnsweredKeeps
<1>10. CASE SizeComes
  <2>1. PICK body : Answered(Vfs, body) \/ Unanswered(Vfs)
    BY <1>10 DEF SizeComes
  <2>2. JobStays /\ reply' \in Contents
    BY <1>0, <1>10 DEF SizeComes, JobStays, Busy
  <2>3. QED
    BY <2>1, <2>2, AnsweredKeeps
<1>11. CASE Reply
  <2>1. Busy /\ SendReply(job, reply) /\ Quiet /\ UNCHANGED <<box, served>> /\ reply' \in Contents
    BY <1>0, <1>11 DEF Reply, Busy, Quiet, callVars, boxVars
  <2>2. Busy' => job' = job /\ ~Reaches(job)
    BY <1>11 DEF Reply, Done, Busy
  <2>3. QED
    BY <2>1, <2>2, RepliesKeep
<1>12. CASE ReplyAgain
  <2>1. Busy /\ SendReply(job, reply) /\ Quiet /\ UNCHANGED <<box, served>> /\ reply' \in Contents
    BY <1>0, <1>12 DEF ReplyAgain, Busy, Quiet, callVars, boxVars
  <2>2. Busy' => job' = job /\ ~Reaches(job)
    BY <1>12 DEF ReplyAgain, Done, Busy
  <2>3. QED
    BY <2>1, <2>2, RepliesKeep
<1>13. QED
  BY <1>1, <1>2, <1>3, <1>4, <1>5, <1>7, <1>8, <1>9, <1>10, <1>11, <1>12 DEF Server

LEMMA DriverKeeps ==
    ASSUME IInv, NEW d \in Drivers, Install(d) \/ Serve(d) \/ Uninstall(d) \/ Release(d)
    PROVE  IInv'
<1>1. d \in Processes /\ Vfs \in Processes /\ reply \in Contents
  BY TheServer DEF IInv, CallTypes
<1> DEFINE zero == [q \in Processes |-> 0]
<1>2. zero \in [Processes -> Nat] /\ \A q \in Processes, i \in Nat : i + zero[q] = i
  OBVIOUS
<1> HIDE DEF zero
<1>3. CASE Install(d)
  <2> DEFINE m == [from |-> d, no |-> 0, to |-> Vfs, body |-> [what |-> "INSTALL"]]
  <2>1. /\ Quiet /\ JobStays /\ UNCHANGED <<answers, served, reply>>
        /\ box' = [box EXCEPT ![Vfs] = Append(@, m)] /\ m \in Messages /\ m.no = 0
    BY <1>1, <1>3 DEF Install, Quiet, JobStays, Busy, callVars, serverVars, Messages, Installs
  <2> HIDE DEF m
  <2>2. /\ box' \in [Processes -> Seq(Messages)]
        /\ \A q \in Processes, i \in Nat : Boxed(q, i)' =>
             (Boxed(q, i) /\ box'[q][i] = box[q][i]) \/ box'[q][i] = m
    BY <1>1, <2>1, Appended DEF IInv
  <2>3. \A q \in Processes, i \in Nat : Boxed(q, i)' => Boxed(q, i) /\ box'[q][i] = box[q][i]
    <3>1. \A q \in Processes, i \in Nat : Boxed(q, i)' => box'[q][i] # m
      BY <2>1 DEF Boxed
    <3>2. QED
      BY <2>2, <3>1
  <2>4. Shifted(zero)
    BY <1>2, <2>3 DEF Shifted
  <2>5. served' \subseteq Processes
    BY <2>1 DEF IInv, CallTypes
  <2>6. QED
    BY <1>1, <1>2, <2>1, <2>2, <2>4, <2>5, LoseKeeps
<1>4. CASE Serve(d)
  <2> DEFINE m == Head(box[d])  up == [q \in Processes |-> IF q = d THEN 1 ELSE 0]
  <2>1. /\ Quiet /\ JobStays /\ UNCHANGED <<served, reply>>
        /\ box[d] # << >> /\ box' = [box EXCEPT ![d] = Tail(@)]
    BY <1>4 DEF Serve, Quiet, JobStays, Busy, callVars, serverVars
  <2>2. /\ box' \in [Processes -> Seq(Messages)] /\ Shifted(up) /\ up \in [Processes -> Nat]
        /\ m \in Messages /\ 1 \in DOMAIN box[d] /\ m = box[d][1] /\ up[d] = 1
    BY <1>1, <2>1, Headless DEF IInv
  <2>3. PICK body \in Contents : SendReply(m, body) /\ m.body.what \in {"READ", "STAT"}
    BY <1>4 DEF Serve, Contents, Nodes
  <2> HIDE DEF m, up
  <2>4. m \in Requests /\ Boxed(d, 1)
    BY <2>2, <2>3 DEF Messages, Requests, Installs, Boxed
  <2>5. Known(m.from, m.no) /\ (Last(m) => ~Unsent(m.from))
    BY <1>1, <2>2, <2>4 DEF IInv, BoxTokens, BoxKnown, UnsentBox
  <2>6. ASSUME NEW q \in Processes, NEW i \in Nat, Boxed(q, i)', Last(m), Same(box'[q][i], m) PROVE FALSE
    <3>1. i \in Nat \ {0}
      BY <2>2, <2>6, LenProperties DEF Boxed
    <3>2. i + up[q] \in Nat
      BY <2>2
    <3>3. Boxed(q, i + up[q]) /\ Same(m, box[q][i + up[q]])
      BY <2>2, <2>6 DEF Shifted, Same
    <3>4. q = d /\ i + up[q] = 1
      BY <1>1, <2>2, <2>4, <2>6, <3>2, <3>3 DEF IInv, BoxTokens, OneBox
    <3>5. QED
      BY <2>2, <3>1, <3>4
  <2>7. Busy' /\ Last(m) => ~Same(job', m)
    <3>1. SUFFICES ASSUME Busy', Last(m), Same(job', m) PROVE FALSE
      OBVIOUS
    <3>2. Busy /\ Last(job) /\ Same(box[d][1], job)
      BY <2>1, <2>2, <3>1 DEF JobStays, Last, Same
    <3>3. QED
      BY <1>1, <2>4, <3>2 DEF IInv, JobTokens, BoxOrJob
  <2>8. QED
    BY <1>1, <2>1, <2>2, <2>3, <2>4, <2>5, <2>6, <2>7, ReplyKeeps
<1>5. CASE Uninstall(d)
  <2>1. Quiet /\ JobStays /\ UNCHANGED <<answers, box, served, reply>>
    BY <1>5 DEF Uninstall, Post, Quiet, JobStays, Busy, callVars, serverVars
  <2>2. QED
    BY <1>1, <2>1, StandsStill
<1>6. CASE Release(d)
  <2>1. /\ Quiet /\ JobStays /\ UNCHANGED <<answers, reply>> /\ served' \subseteq served
        /\ box' = [box EXCEPT ![d] = << >>]
    BY <1>6 DEF Release, Quiet, JobStays, Busy, callVars, serverVars
  <2>2. box' \in [Processes -> Seq(Messages)] /\ served' \subseteq Processes
    BY <2>1, EmptySeq DEF IInv, CallTypes
  <2>3. \A q \in Processes, i \in Nat : Boxed(q, i)' => Boxed(q, i) /\ box'[q][i] = box[q][i]
    BY <2>1 DEF IInv, CallTypes, Boxed
  <2>4. Shifted(zero)
    BY <1>2, <2>3 DEF Shifted
  <2>5. QED
    BY <1>1, <1>2, <2>1, <2>2, <2>4, LoseKeeps
<1>7. QED
  BY <1>3, <1>4, <1>5, <1>6

LEMMA ClientKeeps ==
    ASSUME IInv, NEW c \in Clients, Client(c)
    PROVE  IInv'
<1>1. c \in Processes /\ Vfs \in Processes /\ reply \in Contents
  BY TheServer DEF IInv, CallTypes
<1>2. ASSUME NEW s \in 1..Slots, NEW n \in Nodes, Open(c, s, n) PROVE IInv'
  <2>1. JobStays /\ reply' = reply /\ Ask(c, Vfs, [what |-> "OPEN", node |-> n])
    BY <1>2 DEF Open, serverVars, JobStays, Busy
  <2>2. [what |-> "OPEN", node |-> n] \in Bodies
    BY DEF Bodies
  <2>3. QED
    BY <1>1, <2>1, <2>2, AskKeeps
<1>3. ASSUME NEW s \in 1..Slots, Read(c, s) PROVE IInv'
  <2>1. JobStays /\ reply' = reply /\ Ask(c, Vfs, [what |-> "READ", fd |-> UniqueFD(c)])
    BY <1>3 DEF Read, serverVars, JobStays, Busy
  <2>2. [what |-> "READ", fd |-> UniqueFD(c)] \in Bodies
    BY DEF Bodies, UniqueFD
  <2>3. QED
    BY <1>1, <2>1, <2>2, AskKeeps
<1>4. ASSUME NEW s \in 1..Slots, Close(c, s) PROVE IInv'
  <2>1. Quiet /\ JobStays /\ UNCHANGED <<answers, box, served, reply>>
    BY <1>4 DEF Close, Post, Quiet, JobStays, Busy, callVars, serverVars
  <2>2. QED
    BY <1>1, <2>1, StandsStill
<1>5. ASSUME Opened(c) \/ HasRead(c) PROVE IInv'
  <2>1. PICK body : Answered(c, body) \/ Unanswered(c)
    BY <1>5 DEF Opened, HasRead
  <2>2. JobStays /\ reply' = reply
    BY <1>5 DEF Opened, HasRead, serverVars, JobStays, Busy
  <2>3. QED
    BY <1>1, <2>1, <2>2, AnsweredKeeps
<1>6. QED
  BY <1>2, <1>3, <1>4, <1>5 DEF Client

LEMMA IInvKept == IInv /\ [Next]_vars => IInv'
<1> SUFFICES ASSUME IInv, [Next]_vars PROVE IInv'
  OBVIOUS
<1>1. CASE Server
  BY <1>1, ServerKeeps
<1>2. ASSUME NEW c \in Clients, Client(c) PROVE IInv'
  BY <1>2, ClientKeeps
<1>3. ASSUME NEW d \in Drivers, Install(d) \/ Serve(d) \/ Uninstall(d) \/ Release(d) PROVE IInv'
  BY <1>3, DriverKeeps
<1>4. CASE UNCHANGED vars
  <2>1. Quiet /\ JobStays /\ UNCHANGED <<answers, box, served, reply>>
    BY <1>4 DEF vars, messengerVars, callVars, boxVars, serverVars, Quiet, JobStays, Busy
  <2>2. reply' \in Contents
    BY <2>1 DEF IInv, CallTypes
  <2>3. QED
    BY <2>1, <2>2, StandsStill
<1>5. QED
  BY <1>1, <1>2, <1>3, <1>4 DEF Next

(* A call takes its own answer, or one to an earlier request of its process, *)
(* which had then given up that one or one before it.                        *)
THEOREM AnswersAreMine == Spec => []AnswersMine
<1>1. IInv => AnswersMine
  <2>1. SUFFICES ASSUME IInv, NEW p \in Processes, ~Idle(p), answers[p] # << >>
                 PROVE  LET a == Head(answers[p])
                        IN  /\ a.to = p
                            /\ \/ a.no = ask[p].no
                               \/ a.no < ask[p].no /\ \E k \in 1..a.no : <<p, k>> \in gaveUp
    BY DEF AnswersMine
  <2> DEFINE a == Head(answers[p])
  <2>2. 1 \in DOMAIN answers[p] /\ a = answers[p][1]
    BY <2>1, EmptySeq, LenProperties DEF IInv, CallTypes
  <2> HIDE DEF a
  <2>3. a.to = p /\ Known(p, a.no) /\ a.no \in Nat /\ ask[p].no = asks[p] /\ asks[p] \in Nat
    BY <2>1, <2>2, AnswerItems DEF IInv, AnswerTokens, AnswersKnown, AskLast, CallTypes, Answers
  <2>4. a.no = ask[p].no \/ (a.no < ask[p].no /\ \E k \in 1..a.no : <<p, k>> \in gaveUp)
    BY <2>3 DEF Known, GivenUp
  <2>5. QED
    BY <2>3, <2>4 DEF a
<1>2. QED
  BY InitHolds, IInvKept, <1>1, PTL DEF Spec
-----------------------------------------------------------------------------
(* What the server's table and the clients' files hold, and who writes to   *)
(* whom: clients to the server, the server to drivers.                      *)
Opens == [what : {"OPEN"}, node : Nodes]
Reads == [what : {"READ"}, fd : {2}]
Entries == [pid : Clients, fd : {2}, device : Drivers]
Closes == [from : Clients, body : [what : {"CLOSE"}, fd : {2}]]
Quits == [from : Drivers, body : [what : {"UNINSTALL"}]]
FileTypes ==
    /\ entities \in [1..Places -> Entries \cup {NoEntity}]
    /\ devices \in Seq(Drivers)
    /\ pulses \in [Processes -> Seq(Closes \cup Quits)]
    /\ files \in [Clients -> [1..Slots -> Nodes \cup {NoNode}]]
    /\ slot \in [Clients -> 0..Slots]
    /\ Vfs \in served
Routes ==
    /\ \A q \in Processes, i \in Nat : Boxed(q, i) =>
         /\ box[q][i].to = q
         /\ IF q = Vfs THEN box[q][i].from \in Clients /\ box[q][i].body \in Opens \cup Reads
                       ELSE box[q][i].from = Vfs
    /\ Busy => job.from \in Clients /\ job.body \in Opens \cup Reads

(* The last request of a process that waits is what it waits for. *)
BoxIsAsk ==
    \A q \in Processes, i \in Nat :
        Boxed(q, i) /\ Last(box[q][i]) /\ ~Idle(box[q][i].from) => box[q][i] = ask[box[q][i].from]
JobIsAsk == Busy /\ Last(job) /\ ~Idle(job.from) => job = ask[job.from]

(* A client waits with the File object that the call is about. *)
AsksFit ==
    \A c \in Clients : ~Idle(c) =>
        /\ slot[c] \in 1..Slots
        /\ \/ ask[c].body \in Opens /\ files[c][slot[c]] = NoNode
           \/ ask[c].body \in Reads /\ files[c][slot[c]] # NoNode

(* What the server has in its hand fits where it is. *)
LoopFits ==
    /\ loop \in {"dormant", "message", "read", "reading", "seek", "seeking", "reply", "again"}
    /\ loop \in {"read", "reading", "seek", "seeking"} => job.body \in Reads
    /\ loop \in {"seek", "seeking"} => reply.what = "data"
    /\ loop = "reply" => reply = Minus \/ reply.what = IF job.body \in Opens THEN "fd" ELSE "data"
    /\ loop = "again" => reply = Minus /\ GivenUp(job.from, job.no)

(* Nothing a process asked was given up, and none of its pulses dropped. *)
Patient(p) == \A g \in gaveUp : g[1] # p
Undropped(c) == \A p \in lost : p.from # c

(* A patient client's file is open, or its descriptor is on the way, or its *)
(* CLOSE: for each the server has an entity, and no more if no CLOSE went.   *)
OpenFiles(c) == {s \in 1..Slots : files[c][s] # NoNode}
First(p) == Head(answers[p]).body
Opening(c) ==
    \/ loop = "reply" /\ job.from = c /\ reply.what = "fd"
    \/ answers[c] # << >> /\ First(c).what = "fd"
Due(c) == Cardinality(OpenFiles(c)) + Cardinality(Closing(c)) + (IF Opening(c) THEN 1 ELSE 0)
Accounted(c) ==
    Patient(c) => Due(c) <= Cardinality(Of(c)) /\ (Undropped(c) => Due(c) = Cardinality(Of(c)))
OpeningFits(c) == Patient(c) /\ Opening(c) => ~Idle(c) /\ ask[c].body \in Opens

(* Who never opened twice at once has one entity at most, of what it opened. *)
Single(c) == c \notin overlapped => \A i, j \in Of(c) : i = j
EntityIsFile(c) ==
    Patient(c) /\ c \notin overlapped => \A i \in Of(c) :
        /\ \A s \in OpenFiles(c) : files[c][s] = NodeOf[entities[i].device]
        /\ Opening(c) => ask[c].body.node = NodeOf[entities[i].device]
ClientFits(c) == Accounted(c) /\ OpeningFits(c) /\ Single(c) /\ EntityIsFile(c)

(* What the server, patient, is answered is of the driver it asked, *)
DriverAnswers ==
    Patient(Vfs) /\ answers[Vfs] # << >> /\ First(Vfs).what = "data" =>
        First(Vfs).node = NodeOf[ask[Vfs].to]

(* and of the node that the client wants which it asked for.                *)
Sound(c) == Patient(c) /\ Patient(Vfs) /\ c \notin overlapped \cup stale
Wanted(c) == files[c][slot[c]]
JobReads ==
    /\ loop = "reading" /\ Sound(job.from) => ~Idle(Vfs) /\ NodeOf[ask[Vfs].to] = Wanted(job.from)
    /\ loop \in {"seek", "seeking", "reply"} /\ reply.what = "data" /\ Sound(job.from) =>
         reply.node = Wanted(job.from)
AnswerReads(c) ==
    Sound(c) /\ answers[c] # << >> /\ First(c).what = "data" => First(c).node = Wanted(c)

FileInv ==
    /\ FileTypes /\ Routes /\ BoxIsAsk /\ JobIsAsk /\ AsksFit /\ LoopFits
    /\ DriverAnswers /\ JobReads /\ \A c \in Clients : ClientFits(c) /\ AnswerReads(c)
-----------------------------------------------------------------------------
(* The messages of a box, and the answers on a port, that are c's. *)
Sends(t, c) == {i \in DOMAIN t : t[i].from = c}

LEMMA CountAppend ==
    ASSUME NEW S, NEW t \in Seq(S), NEW x \in S, NEW c
    PROVE  /\ IsFiniteSet(Sends(t, c)) /\ Cardinality(Sends(t, c)) \in Nat
           /\ Cardinality(Sends(Append(t, x), c)) =
                Cardinality(Sends(t, c)) + (IF x.from = c THEN 1 ELSE 0)
<1> DEFINE r == Append(t, x)
<1>1. /\ Len(t) \in Nat /\ DOMAIN t = 1..Len(t) /\ DOMAIN r = 1..(Len(t) + 1)
      /\ r[Len(t) + 1] = x /\ \A i \in 1..Len(t) : r[i] = t[i]
  BY AppendProperties, LenProperties
<1> HIDE DEF r
<1>2. IsFiniteSet(Sends(t, c)) /\ Cardinality(Sends(t, c)) \in Nat
  <2>1. IsFiniteSet(1..Len(t)) /\ Sends(t, c) \in SUBSET (1..Len(t))
    BY <1>1, FS_Interval DEF Sends
  <2>2. QED
    BY <2>1, FS_Subset, FS_CardinalityType
<1>3. Len(t) + 1 \notin Sends(t, c)
  BY <1>1 DEF Sends
<1>4. CASE x.from = c
  <2>1. Sends(r, c) = Sends(t, c) \cup {Len(t) + 1}
    BY <1>1, <1>4 DEF Sends
  <2>2. QED
    BY <1>2, <1>3, <1>4, <2>1, FS_AddElement DEF r
<1>5. CASE x.from # c
  <2>1. Sends(r, c) = Sends(t, c)
    BY <1>1, <1>5 DEF Sends
  <2>2. QED
    BY <1>2, <1>5, <2>1 DEF r
<1>6. QED
  BY <1>4, <1>5, <1>2

LEMMA CountTail ==
    ASSUME NEW S, NEW t \in Seq(S), t # << >>, NEW c
    PROVE  /\ IsFiniteSet(Sends(t, c)) /\ Cardinality(Sends(t, c)) \in Nat
           /\ Cardinality(Sends(t, c)) =
                Cardinality(Sends(Tail(t), c)) + (IF Head(t).from = c THEN 1 ELSE 0)
           /\ Cardinality(Sends(Tail(t), c)) \in Nat
<1> DEFINE r == Tail(t)
<1>1. /\ Len(t) \in Nat /\ DOMAIN t = 1..Len(t) /\ DOMAIN r = 1..(Len(t) - 1)
      /\ Len(t) > 0 /\ \A i \in 1..(Len(t) - 1) : r[i] = t[i + 1]
  BY HeadTailProperties, LenProperties, EmptySeq
<1>2. Head(t) = t[1]
  OBVIOUS
<1> HIDE DEF r
<1>3. /\ IsFiniteSet(Sends(t, c)) /\ Cardinality(Sends(t, c)) \in Nat
      /\ IsFiniteSet(Sends(r, c)) /\ Cardinality(Sends(r, c)) \in Nat
  <2>1. IsFiniteSet(1..Len(t)) /\ Sends(t, c) \in SUBSET (1..Len(t)) /\ Sends(r, c) \in SUBSET (1..Len(t))
    BY <1>1, FS_Interval DEF Sends
  <2>2. QED
    BY <2>1, FS_Subset, FS_CardinalityType
<1> DEFINE rest == Sends(t, c) \ {1}  f == [i \in Sends(r, c) |-> i + 1]
<1>4. Cardinality(rest) = Cardinality(Sends(r, c))
  <2>1. f \in [Sends(r, c) -> rest]
    BY <1>1 DEF Sends
  <2>2. \A i, j \in Sends(r, c) : f[i] = f[j] => i = j
    BY <1>1 DEF Sends
  <2>3. ASSUME NEW k \in rest PROVE \E i \in Sends(r, c) : f[i] = k
    <3>1. k - 1 \in Sends(r, c)
      BY <1>1, <2>3 DEF Sends
    <3>2. f[k - 1] = k
      BY <1>1, <3>1 DEF Sends
    <3>3. QED
      BY <3>1, <3>2
  <2> HIDE DEF f, rest
  <2>4. f \in Bijection(Sends(r, c), rest)
    BY <2>1, <2>2, <2>3 DEF Bijection, Injection, Surjection, IsInjective
  <2>5. QED
    BY <1>3, <2>4, FS_Bijection DEF ExistsBijection
<1>5. 1 \in Sends(t, c) <=> Head(t).from = c
  BY <1>1, <1>2 DEF Sends
<1>6. Cardinality(rest) = IF 1 \in Sends(t, c) THEN Cardinality(Sends(t, c)) - 1 ELSE Cardinality(Sends(t, c))
  BY <1>3, FS_RemoveElement
<1>7. QED
  BY <1>3, <1>4, <1>5, <1>6 DEF r

(* A set of numbers that is not empty has a least one. *)
LEMMA LeastIn ==
    ASSUME NEW S \in SUBSET Nat, S # {}, NEW less, IsWellFoundedOn(less, Nat),
           \A x, y \in Nat : y < x => <<y, x>> \in less
    PROVE  \E n \in S : \A m \in S : n <= m
<1>1. PICK n \in S : \A m \in S : ~(<<m, n>> \in less)
  BY WFMin
<1>2. \A m \in S : ~(m < n)
  BY <1>1
<1>3. \A m \in S : n <= m
  BY <1>2
<1>4. QED
  BY <1>3

LEMMA LeastFits ==
    ASSUME NEW S \in SUBSET Nat, S # {}
    PROVE  Least(S) \in S
<1>1. IsWellFoundedOn(OpToRel(<, Nat), Nat)
  BY NatLessThanWellFounded
<1>2. \A x, y \in Nat : y < x => <<y, x>> \in OpToRel(<, Nat)
  BY DEF OpToRel
<1>3. \E n \in S : \A m \in S : n <= m
  BY <1>1, <1>2, LeastIn
<1>4. QED
  BY <1>3 DEF Least
-----------------------------------------------------------------------------
(* Of a patient process all that goes round is of the call it waits in, and *)
(* there is no answer as long as the request goes round.                     *)
LEMMA PatientFacts ==
    ASSUME IInv, NEW p \in Processes, Patient(p)
    PROVE  /\ \A q \in Processes, i \in Nat : Boxed(q, i) /\ box[q][i].from = p =>
                ~Idle(p) /\ sent[p] /\ Last(box[q][i]) /\ answers[p] = << >>
           /\ Busy /\ job.from = p =>
                ~Idle(p) /\ sent[p] /\ Last(job) /\ answers[p] = << >>
           /\ answers[p] # << >> => ~Idle(p) /\ sent[p]
<1>1. \A k \in Nat : ~GivenUp(p, k)
  BY DEF Patient, GivenUp
<1>2. \A i \in DOMAIN answers[p] : ~Idle(p) /\ answers[p][i].no = asks[p]
  BY <1>1, AnswerItems DEF IInv, AnswerTokens, AnswersKnown, Known, Answers
<1>3. answers[p] # << >> => 1 \in DOMAIN answers[p]
  BY EmptySeq, LenProperties DEF IInv, CallTypes
<1>4. Unanswerable(p) => answers[p] = << >>
  BY <1>2, <1>3 DEF Unanswerable
<1>5. sent[p] \in BOOLEAN
  BY DEF IInv, CallTypes
<1>6. ASSUME NEW q \in Processes, NEW i \in Nat, Boxed(q, i), box[q][i].from = p
      PROVE  ~Idle(p) /\ sent[p] /\ Last(box[q][i]) /\ answers[p] = << >>
  <2>1. box[q][i].no \in Nat /\ Known(p, box[q][i].no)
    BY <1>6, BoxItems DEF IInv, BoxTokens, BoxKnown, Requests
  <2>2. ~Idle(p) /\ Last(box[q][i])
    BY <1>1, <1>6, <2>1 DEF Known, Last
  <2>3. QED
    BY <1>4, <1>5, <1>6, <2>2 DEF IInv, BoxTokens, UnsentBox, AnswerTokens, BoxOrAnswered, Unsent
<1>7. ASSUME Busy, job.from = p
      PROVE  ~Idle(p) /\ sent[p] /\ Last(job) /\ answers[p] = << >>
  <2>1. job.no \in Nat /\ Known(p, job.no)
    BY <1>7 DEF IInv, JobThere, JobTokens, JobKnown, Requests
  <2>2. ~Idle(p) /\ Last(job)
    BY <1>1, <1>7, <2>1 DEF Known, Last
  <2>3. QED
    BY <1>4, <1>5, <1>7, <2>2 DEF IInv, JobTokens, UnsentJob, AnswerTokens, JobOrAnswered, Unsent
<1>8. answers[p] # << >> => ~Idle(p) /\ sent[p]
  BY <1>2, <1>3, <1>4, <1>5 DEF IInv, AnswerTokens, UnsentAnswer, Unsent
<1>9. QED
  BY <1>6, <1>7, <1>8
-----------------------------------------------------------------------------
(* Where no request is made, those in the boxes and in the server's hand    *)
(* were in the boxes or in its hand before.                                  *)
NoneNew ==
    \A q \in Processes, i \in Nat : Boxed(q, i)' => \E j \in Nat : Boxed(q, j) /\ box'[q][i] = box[q][j]
HandOld == Busy' => \/ Busy /\ job' = job
                    \/ \E j \in Nat : Boxed(Vfs, j) /\ job' = box[Vfs][j]
RouteInv == Routes /\ BoxIsAsk /\ JobIsAsk

LEMMA QuietRoutes ==
    ASSUME RouteInv, Quiet, NoneNew, HandOld
    PROVE  RouteInv'
<1>1. Routes'
  <2>1. ASSUME NEW q \in Processes, NEW i \in Nat, Boxed(q, i)'
        PROVE  /\ box'[q][i].to = q
               /\ IF q = Vfs THEN box'[q][i].from \in Clients /\ box'[q][i].body \in Opens \cup Reads
                             ELSE box'[q][i].from = Vfs
    <3>1. PICK j \in Nat : Boxed(q, j) /\ box'[q][i] = box[q][j]
      BY <2>1 DEF NoneNew
    <3>2. QED
      BY <3>1 DEF RouteInv, Routes
  <2>2. ASSUME Busy' PROVE job'.from \in Clients /\ job'.body \in Opens \cup Reads
    <3>1. CASE Busy /\ job' = job
      BY <3>1 DEF RouteInv, Routes
    <3>2. CASE \E j \in Nat : Boxed(Vfs, j) /\ job' = box[Vfs][j]
      BY <3>2, TheServer DEF RouteInv, Routes
    <3>3. QED
      BY <2>2, <3>1, <3>2 DEF HandOld
  <2>3. QED
    BY <2>1, <2>2 DEF Routes
<1>2. ASSUME NEW q \in Processes, NEW j \in Nat, Boxed(q, j), NEW m, m = box[q][j],
             m.no = asks'[m.from], ask'[m.from] # Nothing
      PROVE  m = ask'[m.from]
  BY <1>2 DEF RouteInv, BoxIsAsk, Last, Idle, Quiet
<1>3. BoxIsAsk'
  <2>1. SUFFICES ASSUME NEW q \in Processes, NEW i \in Nat, Boxed(q, i)',
                        box'[q][i].no = asks'[box'[q][i].from], ask'[box'[q][i].from] # Nothing
                 PROVE  box'[q][i] = ask'[box'[q][i].from]
    BY DEF BoxIsAsk, Last, Idle
  <2>2. PICK j \in Nat : Boxed(q, j) /\ box'[q][i] = box[q][j]
    BY <2>1 DEF NoneNew
  <2>3. QED
    BY <1>2, <2>1, <2>2
<1>4. JobIsAsk'
  <2>1. SUFFICES ASSUME Busy', job'.no = asks'[job'.from], ask'[job'.from] # Nothing
                 PROVE  job' = ask'[job'.from]
    BY DEF JobIsAsk, Last, Idle
  <2>2. CASE Busy /\ job' = job
    BY <2>1, <2>2 DEF RouteInv, JobIsAsk, Last, Idle, Quiet
  <2>3. CASE \E j \in Nat : Boxed(Vfs, j) /\ job' = box[Vfs][j]
    BY <1>2, <2>1, <2>3, TheServer
  <2>4. QED
    BY <2>1, <2>2, <2>3 DEF HandOld
<1>5. QED
  BY <1>1, <1>3, <1>4 DEF RouteInv

(* A request goes from its sender to its box, and is then the last one. *)
LEMMA AskRoutes ==
    ASSUME IInv, RouteInv, NEW p \in Processes, NEW to, NEW body \in Bodies, Ask(p, to, body), JobStays,
           to \in Processes => IF to = Vfs THEN p \in Clients /\ body \in Opens \cup Reads ELSE p = Vfs
    PROVE  RouteInv'
<1> DEFINE request == [from |-> p, no |-> asks[p] + 1, to |-> to, body |-> body]
<1>1. /\ asks[p] \in Nat /\ asks'[p] = asks[p] + 1 /\ \A q \in Processes : q # p => asks'[q] = asks[q]
      /\ ask'[p] = request /\ \A q \in Processes : q # p => ask'[q] = ask[q]
      /\ served \subseteq Processes /\ CallTypes
      /\ box' = IF to \in served THEN [box EXCEPT ![to] = Append(@, request)] ELSE box
  BY DEF IInv, CallTypes, Ask
<1>2. /\ request.from = p /\ request.to = to /\ request.body = body
      /\ to \in Processes => request \in Messages
  BY <1>1 DEF Requests, Messages
<1> HIDE DEF request
<1>3. ASSUME NEW q \in Processes, NEW i \in Nat, Boxed(q, i)'
      PROVE  \/ Boxed(q, i) /\ box'[q][i] = box[q][i]
             \/ q = to /\ box'[q][i] = request
  <2>1. CASE to \in served
    <3>1. /\ to \in Processes /\ request \in Messages /\ CallTypes
          /\ box' = [box EXCEPT ![to] = Append(@, request)]
      BY <1>1, <1>2, <2>1
    <3>2. \A r \in Processes, j \in Nat : Boxed(r, j)' =>
            \/ Boxed(r, j) /\ box'[r][j] = box[r][j]
            \/ r = to /\ j = Len(box[to]) + 1 /\ box'[r][j] = request
      BY <3>1, Appended
    <3>3. QED
      BY <1>3, <3>2
  <2>2. CASE to \notin served
    BY <1>1, <1>3, <2>2 DEF Boxed
  <2>3. QED
    BY <2>1, <2>2
<1>4. ASSUME NEW m, m.from \in Processes, m.no \in Nat, Known(m.from, m.no),
             Last(m) /\ ~Idle(m.from) => m = ask[m.from],
             m.no = asks'[m.from], ask'[m.from] # Nothing
      PROVE  m = ask'[m.from]
  <2>1. m.from # p
    BY <1>1, <1>4 DEF Known
  <2>2. QED
    BY <1>1, <1>4, <2>1 DEF Last, Idle
<1>5. ASSUME NEW q \in Processes, NEW i \in Nat, Boxed(q, i)
      PROVE  box[q][i].from \in Processes /\ box[q][i].no \in Nat /\ Known(box[q][i].from, box[q][i].no)
  BY <1>1, <1>5, BoxItems DEF IInv, BoxTokens, BoxKnown, Requests
<1>6. Routes'
  <2>1. ASSUME NEW q \in Processes, NEW i \in Nat, Boxed(q, i)'
        PROVE  /\ box'[q][i].to = q
               /\ IF q = Vfs THEN box'[q][i].from \in Clients /\ box'[q][i].body \in Opens \cup Reads
                             ELSE box'[q][i].from = Vfs
    BY <1>2, <1>3, <2>1 DEF RouteInv, Routes
  <2>2. Busy' => job'.from \in Clients /\ job'.body \in Opens \cup Reads
    BY DEF RouteInv, Routes, JobStays
  <2>3. QED
    BY <2>1, <2>2 DEF Routes
<1>7. BoxIsAsk'
  <2>1. SUFFICES ASSUME NEW q \in Processes, NEW i \in Nat, Boxed(q, i)',
                        box'[q][i].no = asks'[box'[q][i].from], ask'[box'[q][i].from] # Nothing
                 PROVE  box'[q][i] = ask'[box'[q][i].from]
    BY DEF BoxIsAsk, Last, Idle
  <2>2. CASE Boxed(q, i) /\ box'[q][i] = box[q][i]
    BY <1>4, <1>5, <2>1, <2>2 DEF RouteInv, BoxIsAsk
  <2>3. CASE box'[q][i] = request
    BY <1>1, <1>2, <2>3
  <2>4. QED
    BY <1>3, <2>1, <2>2, <2>3
<1>8. JobIsAsk'
  <2>1. SUFFICES ASSUME Busy', job'.no = asks'[job'.from], ask'[job'.from] # Nothing
                 PROVE  job' = ask'[job'.from]
    BY DEF JobIsAsk, Last, Idle
  <2>2. /\ Busy /\ job' = job /\ job.from \in Processes /\ job.no \in Nat /\ Known(job.from, job.no)
        /\ Last(job) /\ ~Idle(job.from) => job = ask[job.from]
    BY <2>1 DEF JobStays, IInv, JobThere, Requests, JobTokens, JobKnown, RouteInv, JobIsAsk
  <2>3. QED
    BY <1>4, <2>1, <2>2
<1>9. QED
  BY <1>6, <1>7, <1>8 DEF RouteInv

(* When a call ends nobody waits for its request any more. *)
LEMMA LeaveRoutes ==
    ASSUME IInv, RouteInv, NEW p \in Processes, Leave(p), JobStays
    PROVE  RouteInv'
<1>1. /\ ask'[p] = Nothing /\ \A q \in Processes : q # p => ask'[q] = ask[q]
      /\ asks' = asks /\ box' = box /\ CallTypes
  BY DEF IInv, CallTypes, Leave, boxVars
<1>2. Routes'
  BY <1>1 DEF RouteInv, Routes, Boxed, JobStays
<1>3. BoxIsAsk'
  <2>1. SUFFICES ASSUME NEW q \in Processes, NEW i \in Nat, Boxed(q, i),
                        box[q][i].no = asks[box[q][i].from], ask'[box[q][i].from] # Nothing
                 PROVE  box[q][i] = ask'[box[q][i].from]
    BY <1>1 DEF BoxIsAsk, Boxed, Last, Idle
  <2>2. box[q][i].from \in Processes
    BY <1>1, <2>1, BoxItems DEF Requests
  <2>3. QED
    BY <1>1, <2>1, <2>2 DEF RouteInv, BoxIsAsk, Last, Idle
<1>4. JobIsAsk'
  <2>1. SUFFICES ASSUME Busy', job'.no = asks'[job'.from], ask'[job'.from] # Nothing
                 PROVE  job' = ask'[job'.from]
    BY DEF JobIsAsk, Last, Idle
  <2>2. Busy /\ job' = job /\ job.from \in Processes
    BY <2>1 DEF JobStays, IInv, JobThere, Requests
  <2>3. QED
    BY <1>1, <2>1, <2>2 DEF RouteInv, JobIsAsk, Last, Idle
<1>5. QED
  BY <1>2, <1>3, <1>4 DEF RouteInv
-----------------------------------------------------------------------------
(* What a step leaves alone. *)
LEMMA SubsetSize ==
    ASSUME NEW n \in Nat, NEW S \in SUBSET (1..n)
    PROVE  IsFiniteSet(S) /\ Cardinality(S) \in Nat
<1>1. IsFiniteSet(1..n)
  BY FS_Interval
<1>2. QED
  BY <1>1, FS_Subset, FS_CardinalityType

LEMMA SendsSize ==
    ASSUME NEW S, NEW t \in Seq(S), NEW c
    PROVE  IsFiniteSet(Sends(t, c)) /\ Cardinality(Sends(t, c)) \in Nat
<1>1. Len(t) \in Nat /\ Sends(t, c) \in SUBSET (1..Len(t))
  BY LenProperties DEF Sends
<1>2. QED
  BY <1>1, SubsetSize

Grows ==
    gaveUp \subseteq gaveUp' /\ lost \subseteq lost' /\ overlapped \subseteq overlapped' /\ stale \subseteq stale'
OfStays(c) == Of(c)' = Of(c) /\ \A i \in Of(c) : entities'[i] = entities[i]
Mailed(c) == Cardinality(Sends(pulses[Vfs], c))
Held(c) ==
    /\ files'[c] = files[c]
    /\ Mailed(c)' <= Mailed(c)
    /\ Undropped(c)' => Mailed(c)' = Mailed(c)
    /\ Opening(c)' <=> Opening(c)
    /\ Opening(c) => ask'[c] = ask[c]

LEMMA PatientBefore ==
    ASSUME Grows, NEW p
    PROVE  /\ Patient(p)' => Patient(p)
           /\ Undropped(p)' => Undropped(p)
           /\ Sound(p)' => Sound(p)
           /\ p \notin overlapped' => p \notin overlapped
BY DEF Grows, Patient, Undropped, Sound

LEMMA Counts ==
    ASSUME FileTypes, NEW c \in Clients
    PROVE  /\ Cardinality(OpenFiles(c)) \in Nat /\ Mailed(c) \in Nat /\ Cardinality(Of(c)) \in Nat
           /\ IsFiniteSet(OpenFiles(c)) /\ IsFiniteSet(Of(c)) /\ Closing(c) = Sends(pulses[Vfs], c)
<1>1. OpenFiles(c) \in SUBSET (1..Slots) /\ Of(c) \in SUBSET (1..Places) /\ Slots \in Nat /\ Places \in Nat
  BY SizesAssumption DEF OpenFiles, Of
<1>2. pulses[Vfs] \in Seq(Closes \cup Quits)
  BY TheServer DEF FileTypes
<1>3. QED
  BY <1>1, <1>2, SubsetSize, SendsSize DEF Mailed, Closing, Sends

LEMMA HeldFits ==
    ASSUME FileTypes, NEW c \in Clients, pulses'[Vfs] \in Seq(Closes \cup Quits),
           ClientFits(c), Grows, OfStays(c), Patient(c)' => Held(c)
    PROVE  ClientFits(c)'
<1>1. /\ Cardinality(OpenFiles(c)) \in Nat /\ Mailed(c) \in Nat /\ Cardinality(Of(c)) \in Nat
      /\ Closing(c) = Sends(pulses[Vfs], c)
  BY Counts
<1>2. Mailed(c)' \in Nat /\ Closing(c)' = Sends(pulses[Vfs], c)'
  BY SendsSize DEF Mailed, Closing, Sends
<1>3. Single(c)'
  BY PatientBefore DEF ClientFits, Single, OfStays
<1>4. ASSUME Patient(c)' PROVE Accounted(c)' /\ OpeningFits(c)' /\ EntityIsFile(c)'
  <2>1. Held(c) /\ Patient(c) /\ OpenFiles(c)' = OpenFiles(c)
    BY <1>4, PatientBefore DEF Held, OpenFiles
  <2>2. Accounted(c)'
    <3>1. Due(c)' <= Due(c) /\ (Undropped(c)' => Due(c)' = Due(c) /\ Undropped(c)) /\ Due(c) \in Nat /\ Due(c)' \in Nat
      BY <1>1, <1>2, <2>1, PatientBefore DEF Held, Due, Mailed
    <3>2. QED
      BY <1>1, <2>1, <3>1 DEF ClientFits, Accounted, OfStays
  <2>3. OpeningFits(c)'
    BY <2>1 DEF ClientFits, OpeningFits, Held, Idle
  <2>4. EntityIsFile(c)'
    <3>1. SUFFICES ASSUME c \notin overlapped', NEW i \in Of(c)
                   PROVE  /\ \A s \in OpenFiles(c)' : files'[c][s] = NodeOf[entities'[i].device]
                          /\ Opening(c)' => ask'[c].body.node = NodeOf[entities'[i].device]
      BY DEF EntityIsFile, OfStays
    <3>2. entities'[i] = entities[i] /\ c \notin overlapped
      BY <3>1, PatientBefore DEF OfStays
    <3>3. QED
      BY <2>1, <3>1, <3>2 DEF ClientFits, EntityIsFile, Held
  <2>5. QED
    BY <2>2, <2>3, <2>4
<1>5. QED
  BY <1>3, <1>4 DEF ClientFits, Accounted, OpeningFits, EntityIsFile

LEMMA AsksFitKept ==
    ASSUME AsksFit, \A c \in Clients : ask'[c] # Nothing =>
                        ask'[c] = ask[c] /\ files'[c] = files[c] /\ slot'[c] = slot[c]
    PROVE  AsksFit'
BY DEF AsksFit, Idle

LEMMA LoopFitsKept ==
    ASSUME LoopFits, UNCHANGED <<loop, job, reply>>, Grows
    PROVE  LoopFits'
BY DEF LoopFits, Grows, GivenUp

LEMMA DriverAnswersKept ==
    ASSUME DriverAnswers, Grows,
           Patient(Vfs)' => answers'[Vfs] = << >> \/ (answers'[Vfs] = answers[Vfs] /\ ask'[Vfs] = ask[Vfs])
    PROVE  DriverAnswers'
BY PatientBefore DEF DriverAnswers, First

LEMMA AnswerReadsKept ==
    ASSUME NEW c \in Clients, AnswerReads(c), Grows,
           Sound(c)' => \/ answers'[c] = << >>
                        \/ answers'[c] = answers[c] /\ files'[c] = files[c] /\ slot'[c] = slot[c]
    PROVE  AnswerReads(c)'
BY PatientBefore DEF AnswerReads, First, Wanted

LEMMA JobReadsKept ==
    ASSUME JobReads, Grows, UNCHANGED <<loop, job, reply>>, ask'[Vfs] = ask[Vfs],
           Busy /\ Sound(job.from)' => files'[job.from] = files[job.from] /\ slot'[job.from] = slot[job.from]
    PROVE  JobReads'
<1> DEFINE f == job.from
<1>1. Sound(f)' => Sound(f)
  BY PatientBefore
<1>2. Sound(job.from)' <=> Sound(f)'
  OBVIOUS
<1>3. Busy /\ Sound(f)' => Wanted(f)' = Wanted(f)
  BY DEF Wanted
<1>4. QED
  BY <1>1, <1>3 DEF JobReads, Idle, Busy, Wanted
-----------------------------------------------------------------------------
LEMMA ShiftedOld ==
    ASSUME NEW s \in [Processes -> Nat], Shifted(s)
    PROVE  NoneNew
<1>1. ASSUME NEW q \in Processes, NEW i \in Nat PROVE i + s[q] \in Nat
  OBVIOUS
<1>2. QED
  BY <1>1 DEF NoneNew, Shifted

LEMMA HeadOf ==
    ASSUME NEW x
    PROVE  Append(<< >>, x) # << >> /\ Head(Append(<< >>, x)) = x
<1>1. /\ Append(<< >>, x) \in Seq({x}) /\ Len(<< >>) = 0 /\ Len(Append(<< >>, x)) = 1
      /\ Append(<< >>, x)[1] = x
  BY EmptySeq, AppendProperties
<1>2. Append(<< >>, x) # << >>
  BY <1>1, EmptySeq
<1>3. QED
  BY <1>1, <1>2

(* A pulse to the server waits there. *)
LEMMA PostMails ==
    ASSUME FileTypes, NEW p, NEW body, Post(p, Vfs, body), [from |-> p, body |-> body] \in Closes \cup Quits
    PROVE  /\ pulses' \in [Processes -> Seq(Closes \cup Quits)]
           /\ \A c : Mailed(c)' = Mailed(c) + (IF p = c THEN 1 ELSE 0)
<1> DEFINE x == [from |-> p, body |-> body]  t == pulses[Vfs]  S == Closes \cup Quits
<1>1. t \in Seq(S) /\ pulses' = [pulses EXCEPT ![Vfs] = Append(t, x)] /\ x \in S /\ x.from = p
  BY TheServer DEF FileTypes, Post
<1> HIDE DEF x, S
<1>2. Append(t, x) \in Seq(S)
  BY <1>1, AppendProperties
<1>3. pulses'[Vfs] = Append(t, x) /\ pulses' \in [Processes -> Seq(S)]
  BY <1>1, <1>2, TheServer DEF FileTypes, S
<1>4. ASSUME NEW c PROVE Mailed(c)' = Mailed(c) + (IF p = c THEN 1 ELSE 0)
  <2>1. Cardinality(Sends(Append(t, x), c)) = Cardinality(Sends(t, c)) + (IF x.from = c THEN 1 ELSE 0)
    BY <1>1, CountAppend
  <2>2. QED
    BY <1>1, <1>3, <2>1 DEF Mailed
<1>5. QED
  BY <1>3, <1>4 DEF S

(* A driver's step. *)
LEMMA DriverLeaves ==
    ASSUME IInv, FileInv, Quiet, NoneNew,
           UNCHANGED <<entities, devices, loop, job, reply, files, slot, overlapped, stale, lost>>,
           pulses' \in [Processes -> Seq(Closes \cup Quits)], \A c \in Clients : Mailed(c)' = Mailed(c),
           Vfs \in served', \A c \in Clients : answers'[c] = answers[c], DriverAnswers'
    PROVE  FileInv'
<1>1. Grows /\ Clients \subseteq Processes
  BY TheServer DEF Grows, Quiet
<1>2. FileTypes'
  BY DEF FileInv, FileTypes
<1>3. Routes' /\ BoxIsAsk' /\ JobIsAsk'
  <2>1. HandOld
    BY DEF HandOld, Busy
  <2>2. QED
    BY <2>1, QuietRoutes DEF FileInv, RouteInv
<1>4. AsksFit' /\ LoopFits'
  BY <1>1, AsksFitKept, LoopFitsKept DEF FileInv, Quiet
<1>5. JobReads'
  BY <1>1, JobReadsKept DEF FileInv, Quiet
<1>6. ASSUME NEW c \in Clients PROVE ClientFits(c)' /\ AnswerReads(c)'
  <2>1. OfStays(c) /\ pulses'[Vfs] \in Seq(Closes \cup Quits)
    BY TheServer DEF OfStays, Of
  <2>2. Held(c)
    <3>1. Mailed(c) \in Nat
      BY Counts DEF FileInv
    <3>2. Opening(c)' <=> Opening(c)
      BY <1>6 DEF Opening, First
    <3>3. QED
      BY <1>6, <3>1, <3>2 DEF Held, Quiet
  <2>3. ClientFits(c)'
    BY <1>1, <2>1, <2>2, HeldFits DEF FileInv
  <2>4. AnswerReads(c)'
    BY <1>1, AnswerReadsKept DEF FileInv
  <2>5. QED
    BY <2>3, <2>4
<1>7. QED
  BY <1>2, <1>3, <1>4, <1>5, <1>6 DEF FileInv

LEMMA DriverFits ==
    ASSUME IInv, FileInv, NEW d \in Drivers, Install(d) \/ Serve(d) \/ Uninstall(d) \/ Release(d)
    PROVE  FileInv'
<1>1. /\ d \in Processes /\ Vfs \in Processes /\ d \notin Clients /\ d # Vfs /\ Vfs \notin Clients
      /\ Clients \subseteq Processes
  BY ProcessesAssumption
<1>2. /\ Quiet /\ UNCHANGED <<entities, devices, loop, job, reply, files, slot, overlapped, stale, lost>>
      /\ Grows
  BY DEF Install, Serve, Uninstall, Release, Post, Quiet, Grows, callVars, serverVars, clientVars, history
<1>3. ASSUME UNCHANGED pulses
      PROVE  pulses' \in [Processes -> Seq(Closes \cup Quits)] /\ \A c \in Clients : Mailed(c)' = Mailed(c)
  BY <1>3 DEF FileInv, FileTypes, Mailed
<1>4. ASSUME UNCHANGED answers PROVE DriverAnswers'
  BY <1>2, <1>4, DriverAnswersKept DEF FileInv, Quiet
<1> DEFINE zero == [q \in Processes |-> 0]
<1>5. zero \in [Processes -> Nat] /\ \A q \in Processes, i \in Nat : i + zero[q] = i
  OBVIOUS
<1> HIDE DEF zero
<1>6. CASE Install(d)
  <2> DEFINE m == [from |-> d, no |-> 0, to |-> Vfs, body |-> [what |-> "INSTALL"]]
  <2>1. /\ UNCHANGED <<answers, served, pulses>>
        /\ box' = [box EXCEPT ![Vfs] = Append(@, m)] /\ m \in Messages /\ m.no = 0
    BY <1>1, <1>6 DEF Install, Messages, Installs
  <2> HIDE DEF m
  <2>2. \A q \in Processes, i \in Nat : Boxed(q, i)' =>
             (Boxed(q, i) /\ box'[q][i] = box[q][i]) \/ box'[q][i] = m
    BY <1>1, <2>1, Appended DEF IInv
  <2>3. \A q \in Processes, i \in Nat : Boxed(q, i)' => box'[q][i] # m
    BY <2>1 DEF Boxed
  <2>4. NoneNew
    BY <2>2, <2>3 DEF NoneNew
  <2>5. Vfs \in served'
    BY <2>1 DEF FileInv, FileTypes
  <2>6. QED
    BY <1>2, <1>3, <1>4, <2>1, <2>4, <2>5, DriverLeaves
<1>7. CASE Serve(d)
  <2> DEFINE m == Head(box[d])  up == [q \in Processes |-> IF q = d THEN 1 ELSE 0]
  <2>1. UNCHANGED <<served, pulses>> /\ box[d] # << >> /\ box' = [box EXCEPT ![d] = Tail(@)]
    BY <1>7 DEF Serve
  <2>2. /\ Shifted(up) /\ up \in [Processes -> Nat]
        /\ m \in Messages /\ 1 \in DOMAIN box[d] /\ m = box[d][1]
    BY <1>1, <2>1, Headless DEF IInv
  <2>3. PICK body : /\ SendReply(m, body) /\ m.body.what \in {"READ", "STAT"}
                    /\ body.what = "data" => body.node = NodeOf[d]
    BY <1>7 DEF Serve, Minus
  <2> HIDE DEF m, up
  <2>4. Boxed(d, 1) /\ m.from = Vfs /\ m.to = d
    BY <1>1, <2>2, <2>3 DEF Messages, Requests, Installs, Boxed, FileInv, Routes
  <2>5. NoneNew
    BY <2>2, ShiftedOld
  <2>6. Vfs \in served'
    BY <2>1 DEF FileInv, FileTypes
  <2>7. /\ \A c \in Clients : answers'[c] = answers[c]
        /\ DOMAIN answers = Processes
        /\ answers'[Vfs] = answers[Vfs] \/ answers'[Vfs] = Append(answers[Vfs], [to |-> Vfs, no |-> m.no, body |-> body])
    BY <1>1, <2>3, <2>4 DEF SendReply, IInv, CallTypes
  <2>8. DriverAnswers'
    <3>1. SUFFICES ASSUME Patient(Vfs)', answers'[Vfs] # << >>, Head(answers'[Vfs]).body.what = "data"
                   PROVE  Head(answers'[Vfs]).body.node = NodeOf[ask'[Vfs].to]
      BY DEF DriverAnswers, First
    <3>2. ~Idle(Vfs) /\ Last(m) /\ answers[Vfs] = << >>
      BY <1>1, <1>2, <2>2, <2>4, <3>1, PatientFacts, PatientBefore
    <3>3. m = ask[Vfs] /\ ask'[Vfs].to = d
      BY <1>1, <1>2, <2>2, <2>4, <3>2 DEF FileInv, BoxIsAsk, Quiet
    <3>4. Head(answers'[Vfs]).body = body
      BY <2>7, <3>1, <3>2, HeadOf
    <3>5. QED
      BY <2>3, <3>1, <3>3, <3>4
  <2>9. QED
    BY <1>2, <1>3, <2>1, <2>5, <2>6, <2>7, <2>8, DriverLeaves
<1>8. CASE Uninstall(d)
  <2>1. UNCHANGED <<answers, box, served>> /\ Post(d, Vfs, [what |-> "UNINSTALL"])
    BY <1>8 DEF Uninstall, Post
  <2>2. [from |-> d, body |-> [what |-> "UNINSTALL"]] \in Closes \cup Quits
    BY DEF Quits
  <2>3. /\ pulses' \in [Processes -> Seq(Closes \cup Quits)]
        /\ \A c : Mailed(c)' = Mailed(c) + (IF d = c THEN 1 ELSE 0)
    BY <2>1, <2>2, PostMails DEF FileInv
  <2>4. \A c \in Clients : Mailed(c)' = Mailed(c)
    <3>1. \A c \in Clients : Mailed(c) \in Nat /\ d # c
      BY <1>1, Counts DEF FileInv
    <3>2. QED
      BY <2>3, <3>1
  <2>5. NoneNew /\ Vfs \in served'
    BY <2>1 DEF NoneNew, Boxed, FileInv, FileTypes
  <2>6. QED
    BY <1>2, <1>4, <2>1, <2>3, <2>4, <2>5, DriverLeaves
<1>9. CASE Release(d)
  <2>1. UNCHANGED <<answers, pulses>> /\ served' = served \ {d} /\ box' = [box EXCEPT ![d] = << >>]
    BY <1>9 DEF Release
  <2>2. NoneNew /\ Vfs \in served'
    BY <1>1, <2>1 DEF NoneNew, IInv, CallTypes, Boxed, FileInv, FileTypes
  <2>3. QED
    BY <1>2, <1>3, <1>4, <2>1, <2>2, DriverLeaves
<1>10. QED
  BY <1>6, <1>7, <1>8, <1>9
-----------------------------------------------------------------------------
(* A client's step. Nothing of a patient client is at the server then, and  *)
(* no answer is left.                                                        *)
ClientMoves(c) ==
    /\ UNCHANGED <<entities, devices, loop, job, reply, overlapped, stale, served>>
    /\ gaveUp \subseteq gaveUp' /\ lost \subseteq lost'
    /\ \A p \in Processes : p # c => ask'[p] = ask[p] /\ answers'[p] = answers[p]
    /\ \A x \in Clients : x # c => files'[x] = files[x] /\ slot'[x] = slot[x] /\ Mailed(x)' = Mailed(x)
    /\ Patient(c)' => answers'[c] = << >> /\ (Busy => job.from # c)
    /\ pulses' \in [Processes -> Seq(Closes \cup Quits)]
    /\ files' \in [Clients -> [1..Slots -> Nodes \cup {NoNode}]]
    /\ slot' \in [Clients -> 0..Slots]
    /\ ask'[c] # Nothing =>
         /\ slot'[c] \in 1..Slots
         /\ \/ ask'[c].body \in Opens /\ files'[c][slot'[c]] = NoNode
            \/ ask'[c].body \in Reads /\ files'[c][slot'[c]] # NoNode

LEMMA NotOpening ==
    ASSUME NEW c \in Clients, ClientMoves(c), Patient(c)'
    PROVE  Opening(c)' = FALSE
<1>1. answers'[c] = << >> /\ ~(loop' = "reply" /\ job'.from = c)
  BY DEF ClientMoves, Busy
<1>2. QED
  BY <1>1 DEF Opening

LEMMA ClientLeaves ==
    ASSUME IInv, FileInv, NEW c \in Clients, ClientMoves(c), RouteInv',
           Patient(c)' => Accounted(c)' /\ EntityIsFile(c)'
    PROVE  FileInv'
<1>1. Grows /\ Clients \subseteq Processes /\ Vfs \in Processes /\ Vfs # c /\ Vfs \notin Clients
  BY ProcessesAssumption DEF Grows, ClientMoves
<1>2. FileTypes'
  BY DEF FileInv, FileTypes, ClientMoves
<1>3. AsksFit'
  BY <1>1 DEF FileInv, AsksFit, Idle, ClientMoves
<1>4. LoopFits'
  BY <1>1, LoopFitsKept DEF FileInv, ClientMoves
<1>5. DriverAnswers'
  BY <1>1, DriverAnswersKept DEF FileInv, ClientMoves
<1>6. JobReads'
  <2>1. Busy => job.from \in Clients
    BY DEF FileInv, Routes
  <2>2. Busy /\ Sound(job.from)' => files'[job.from] = files[job.from] /\ slot'[job.from] = slot[job.from]
    <3>1. SUFFICES ASSUME Busy, NEW x, x = job.from, Sound(x)' PROVE files'[x] = files[x] /\ slot'[x] = slot[x]
      BY DEF ClientMoves
    <3>2. x # c
      BY <3>1 DEF ClientMoves, Sound
    <3>3. QED
      BY <2>1, <3>1, <3>2 DEF ClientMoves
  <2>3. QED
    BY <1>1, <2>2, JobReadsKept DEF FileInv, ClientMoves
<1>7. ASSUME NEW x \in Clients PROVE ClientFits(x)' /\ AnswerReads(x)'
  <2>1. OfStays(x) /\ pulses'[Vfs] \in Seq(Closes \cup Quits)
    BY <1>1 DEF OfStays, Of, ClientMoves
  <2>2. CASE x # c
    <3>1. Held(x)
      <4>1. Mailed(x) \in Nat
        BY Counts DEF FileInv
      <4>2. Opening(x)' <=> Opening(x)
        BY <1>1, <1>7, <2>2 DEF Opening, First, ClientMoves
      <4>3. QED
        BY <1>1, <2>2, <4>1, <4>2 DEF Held, ClientMoves
    <3>2. ClientFits(x)'
      BY <1>1, <2>1, <3>1, HeldFits DEF FileInv
    <3>3. AnswerReads(x)'
      BY <1>1, <2>2, AnswerReadsKept DEF FileInv, ClientMoves
    <3>4. QED
      BY <3>2, <3>3
  <2>3. CASE x = c
    <3>1. Single(c)'
      BY <1>1, <2>1, <2>3, PatientBefore DEF FileInv, ClientFits, Single, OfStays
    <3>2. Patient(c)' => Opening(c)' = FALSE
      BY NotOpening
    <3>3. ClientFits(c)'
      BY <3>1, <3>2 DEF ClientFits, Accounted, EntityIsFile, OpeningFits
    <3>4. AnswerReads(c)'
      BY DEF ClientMoves, AnswerReads, Sound
    <3>5. QED
      BY <2>3, <3>3, <3>4
  <2>4. QED
    BY <2>2, <2>3
<1>8. QED
  BY <1>2, <1>3, <1>4, <1>5, <1>6, <1>7 DEF FileInv, RouteInv

(* Where its files stay as they are and no descriptor came, its account does. *)
LEMMA ClientRests ==
    ASSUME IInv, FileInv, NEW c \in Clients, ClientMoves(c), RouteInv',
           Patient(c)' => files'[c] = files[c] /\ Mailed(c)' = Mailed(c) /\ ~Opening(c)
    PROVE  FileInv'
<1>1. OfStays(c) /\ pulses'[Vfs] \in Seq(Closes \cup Quits) /\ Grows
  BY TheServer DEF OfStays, Of, ClientMoves, Grows
<1>2. Patient(c)' => Held(c)
  <2>1. Mailed(c) \in Nat
    BY Counts DEF FileInv
  <2>2. SUFFICES ASSUME Patient(c)' PROVE Held(c)
    OBVIOUS
  <2>3. files'[c] = files[c] /\ Mailed(c)' = Mailed(c) /\ ~Opening(c) /\ Opening(c)' = FALSE
    BY <2>2, NotOpening
  <2>4. QED
    BY <2>1, <2>3 DEF Held
<1>3. ClientFits(c)'
  BY <1>1, <1>2, HeldFits DEF FileInv
<1>4. QED
  BY <1>3, ClientLeaves DEF ClientFits

LEMMA IdleRests ==
    ASSUME IInv, FileInv, NEW c \in Clients, Idle(c), Patient(c)
    PROVE  answers[c] = << >> /\ (Busy => job.from # c) /\ ~Opening(c)
<1>1. answers[c] = << >> /\ (Busy => job.from # c)
  BY TheServer, PatientFacts
<1>2. QED
  BY <1>1 DEF Opening, Busy

(* A call begins: Open and Read. *)
LEMMA CallsFits ==
    ASSUME IInv, FileInv, NEW c \in Clients, NEW body \in Opens \cup Reads, NEW s \in 1..Slots,
           Ask(c, Vfs, body), slot' = [slot EXCEPT ![c] = s],
           UNCHANGED <<driver, serverVars, files, history>>,
           IF body \in Opens THEN files[c][s] = NoNode ELSE files[c][s] # NoNode
    PROVE  FileInv'
<1>1. Vfs \in Processes /\ c \in Processes /\ Vfs # c /\ Vfs \notin Clients /\ Clients \subseteq Processes
  BY ProcessesAssumption
<1>2. /\ Idle(c) /\ ask'[c].body = body /\ answers'[c] = << >>
      /\ \A p \in Processes : p # c => ask'[p] = ask[p] /\ answers'[p] = answers[p]
      /\ pulses' = [pulses EXCEPT ![c] = << >>] /\ gaveUp' = gaveUp /\ lost \subseteq lost' /\ served' = served
  BY <1>1 DEF Ask, IInv, CallTypes
<1>3. Patient(c)' => Patient(c)
  BY <1>2 DEF Patient
<1>4. /\ pulses' \in [Processes -> Seq(Closes \cup Quits)] /\ pulses'[Vfs] = pulses[Vfs]
  <2>1. << >> \in Seq(Closes \cup Quits)
    BY EmptySeq
  <2>2. QED
    BY <1>1, <1>2, <2>1 DEF FileInv, FileTypes
<1>5. \A x \in Clients : Mailed(x)' = Mailed(x)
  BY <1>4 DEF Mailed
<1>6. slot' \in [Clients -> 0..Slots] /\ slot'[c] = s /\ \A x \in Clients : x # c => slot'[x] = slot[x]
  <2>1. s \in 0..Slots
    BY SizesAssumption
  <2>2. QED
    BY <2>1 DEF FileInv, FileTypes
<1>7. ClientMoves(c)
  BY <1>1, <1>2, <1>3, <1>4, <1>5, <1>6, IdleRests
     DEF ClientMoves, serverVars, history, FileInv, FileTypes
<1>8. RouteInv'
  <2>1. JobStays
    BY DEF serverVars, JobStays, Busy
  <2>2. body \in Bodies
    BY DEF Bodies, Opens, Reads
  <2>3. QED
    BY <1>1, <2>1, <2>2, AskRoutes DEF FileInv, RouteInv
<1>9. QED
  BY <1>2, <1>3, <1>5, <1>7, <1>8, IdleRests, ClientRests
(* A call ends. *)
LEMMA ReturnMoves ==
    ASSUME IInv, FileInv, NEW c \in Clients, NEW body, Answered(c, body) \/ Unanswered(c),
           slot' = [slot EXCEPT ![c] = 0], UNCHANGED <<driver, serverVars, overlapped, stale>>,
           files' \in [Clients -> [1..Slots -> Nodes \cup {NoNode}]],
           \A x \in Clients : x # c => files'[x] = files[x]
    PROVE  /\ ClientMoves(c) /\ RouteInv' /\ Mailed(c)' = Mailed(c)
           /\ Patient(c)' => /\ Patient(c) /\ (Busy => job.from # c)
                             /\ Unanswered(c) => answers[c] = << >>
                             /\ Answered(c, body) => answers[c] # << >> /\ First(c) = body
<1>1. Vfs \in Processes /\ c \in Processes /\ Vfs # c /\ Vfs \notin Clients /\ Clients \subseteq Processes
  BY ProcessesAssumption
<1>2. /\ ~Idle(c) /\ Leave(c) /\ gaveUp \subseteq gaveUp' /\ ask'[c] = Nothing /\ answers'[c] = << >>
      /\ \A p \in Processes : p # c => ask'[p] = ask[p] /\ answers'[p] = answers[p]
      /\ UNCHANGED <<pulses, lost, served, box>> /\ sent[c] \in BOOLEAN /\ ask[c].no = asks[c]
  BY <1>1 DEF Answered, Unanswered, Leave, boxVars, IInv, CallTypes, AskLast
<1>3. JobStays /\ UNCHANGED <<entities, devices, loop, job, reply>>
  BY DEF JobStays, serverVars, Busy
<1>4. ASSUME Patient(c)'
      PROVE  /\ Patient(c) /\ (Busy => job.from # c)
             /\ Unanswered(c) => answers[c] = << >>
             /\ Answered(c, body) => answers[c] # << >> /\ First(c) = body
  <2>1. Patient(c)
    BY <1>2, <1>4 DEF Patient
  <2>2. Answered(c, body) => answers[c] # << >> /\ First(c) = body
    BY DEF Answered, First
  <2>3. Unanswered(c) => ~sent[c]
    <3>1. <<c, asks[c]>>[1] = c /\ <<c, asks[c]>> \notin gaveUp'
      BY <1>4 DEF Patient
    <3>2. QED
      BY <1>2, <3>1 DEF Unanswered
  <2>4. Unanswered(c) => answers[c] = << >>
    BY <1>1, <2>1, <2>3, PatientFacts
  <2>5. Busy => job.from # c
    BY <1>1, <2>1, <2>2, <2>3, PatientFacts
  <2>6. QED
    BY <2>1, <2>2, <2>4, <2>5
<1>5. slot' \in [Clients -> 0..Slots] /\ \A x \in Clients : x # c => slot'[x] = slot[x]
  BY SizesAssumption DEF FileInv, FileTypes
<1>6. \A x \in Clients : Mailed(x)' = Mailed(x)
  BY <1>2 DEF Mailed
<1>7. ClientMoves(c)
  BY <1>1, <1>2, <1>3, <1>4, <1>5, <1>6 DEF ClientMoves, FileInv, FileTypes
<1>8. RouteInv'
  BY <1>1, <1>2, <1>3, LeaveRoutes DEF FileInv, RouteInv
<1>9. QED
  BY <1>4, <1>6, <1>7, <1>8

LEMMA HasReadFits ==
    ASSUME IInv, FileInv, NEW c \in Clients, HasRead(c)
    PROVE  FileInv'
<1>1. /\ ~Idle(c) /\ ask[c].body.what = "READ" /\ files' = files
      /\ slot' = [slot EXCEPT ![c] = 0] /\ UNCHANGED <<driver, serverVars, overlapped, stale>>
  BY DEF HasRead
<1>2. PICK body : Answered(c, body) \/ Unanswered(c)
  BY DEF HasRead
<1>3. files' \in [Clients -> [1..Slots -> Nodes \cup {NoNode}]]
  BY <1>1 DEF FileInv, FileTypes
<1>4. /\ ClientMoves(c) /\ RouteInv' /\ Mailed(c)' = Mailed(c)
      /\ Patient(c)' => Patient(c)
  BY <1>1, <1>2, <1>3, ReturnMoves
<1>5. Patient(c)' => ~Opening(c)
  BY <1>1, <1>4 DEF FileInv, ClientFits, OpeningFits, Opens
<1>6. QED
  BY <1>1, <1>4, <1>5, ClientRests

LEMMA OpenedFits ==
    ASSUME IInv, FileInv, NEW c \in Clients, Opened(c)
    PROVE  FileInv'
<1>1. /\ ~Idle(c) /\ ask[c].body.what = "OPEN"
      /\ slot' = [slot EXCEPT ![c] = 0] /\ UNCHANGED <<driver, serverVars, overlapped, stale>>
  BY DEF Opened, history
<1> DEFINE f == slot[c]  n == ask[c].body.node
<1>2. f \in 1..Slots /\ files[c][f] = NoNode /\ n \in Nodes /\ n # NoNode
  <2>1. ask[c].body \in Opens
    BY <1>1 DEF FileInv, AsksFit, Reads
  <2>2. n \in Nodes /\ n # NoNode
    BY <2>1, NodesAssumption DEF Opens, Nodes
  <2>3. QED
    BY <1>1, <2>1, <2>2 DEF FileInv, AsksFit, Reads, Opens
<1>3. PICK body : \/ /\ Answered(c, body)
                     /\ files' = IF body.what = "fd" THEN [files EXCEPT ![c][f] = n] ELSE files
                  \/ Unanswered(c) /\ files' = files
  BY DEF Opened
<1>4. /\ files' \in [Clients -> [1..Slots -> Nodes \cup {NoNode}]]
      /\ \A x \in Clients : x # c => files'[x] = files[x]
  <2>1. files \in [Clients -> [1..Slots -> Nodes \cup {NoNode}]]
    BY DEF FileInv, FileTypes
  <2> HIDE DEF f, n
  <2>2. CASE files' = files
    BY <2>1, <2>2
  <2>3. CASE files' = [files EXCEPT ![c][f] = n]
    BY <1>2, <2>1, <2>3
  <2>4. QED
    BY <1>3, <2>2, <2>3
<1>5. /\ ClientMoves(c) /\ RouteInv' /\ Mailed(c)' = Mailed(c)
      /\ Patient(c)' => /\ Patient(c) /\ (Busy => job.from # c)
                        /\ Unanswered(c) => answers[c] = << >>
                        /\ Answered(c, body) => answers[c] # << >> /\ First(c) = body
  BY <1>1, <1>3, <1>4, ReturnMoves
<1>6. CASE files' = files /\ (Unanswered(c) \/ (Answered(c, body) /\ body.what # "fd"))
  <2>1. Patient(c)' => ~Opening(c)
    BY <1>5, <1>6 DEF Opening, Busy
  <2>2. QED
    BY <1>5, <1>6, <2>1, ClientRests
<1>7. CASE Answered(c, body) /\ body.what = "fd" /\ files' = [files EXCEPT ![c][f] = n]
  <2>1. ASSUME Patient(c)' PROVE Accounted(c)' /\ EntityIsFile(c)'
    <3>1. Patient(c) /\ answers[c] # << >> /\ First(c) = body /\ Opening(c) /\ Opening(c)' = FALSE
      BY <1>5, <1>7, <2>1, NotOpening DEF Answered, Opening
    <3>2. /\ Cardinality(OpenFiles(c)) \in Nat /\ Mailed(c) \in Nat /\ Cardinality(Of(c)) \in Nat
          /\ IsFiniteSet(OpenFiles(c)) /\ Closing(c) = Sends(pulses[Vfs], c)
      BY Counts DEF FileInv
    <3>3. Closing(c)' = Sends(pulses[Vfs], c)' /\ Of(c)' = Of(c) /\ entities' = entities
      BY <1>5 DEF Closing, Sends, Of, ClientMoves
    <3>4. /\ \A s \in 1..Slots : files'[c][s] = IF s = f THEN n ELSE files[c][s]
      <4>1. files \in [Clients -> [1..Slots -> Nodes \cup {NoNode}]]
        BY DEF FileInv, FileTypes
      <4> HIDE DEF f, n
      <4>2. QED
        BY <1>2, <1>7, <4>1
    <3> HIDE DEF f, n
    <3>5. OpenFiles(c)' = OpenFiles(c) \cup {f} /\ f \notin OpenFiles(c)
      BY <1>2, <3>4 DEF OpenFiles
    <3>6. Cardinality(OpenFiles(c)') = Cardinality(OpenFiles(c)) + 1
      BY <3>2, <3>5, FS_AddElement
    <3>7. Due(c)' = Due(c)
      BY <1>5, <3>1, <3>2, <3>3, <3>6 DEF Due, Mailed
    <3>8. Accounted(c)'
      BY <1>5, <3>1, <3>3, <3>7 DEF FileInv, ClientFits, Accounted, ClientMoves, Undropped
    <3>9. EntityIsFile(c)'
      <4>1. SUFFICES ASSUME c \notin overlapped', NEW i \in Of(c), NEW s \in OpenFiles(c)'
                     PROVE  files'[c][s] = NodeOf[entities[i].device]
        BY <3>1, <3>3 DEF EntityIsFile
      <4>2. c \notin overlapped /\ s \in 1..Slots
        BY <1>5, <4>1 DEF ClientMoves, OpenFiles
      <4>3. CASE s = f
        BY <3>1, <3>4, <4>1, <4>2, <4>3 DEF FileInv, ClientFits, EntityIsFile, n
      <4>4. CASE s # f
        BY <3>1, <3>4, <3>5, <4>1, <4>2, <4>4 DEF FileInv, ClientFits, EntityIsFile
      <4>5. QED
        BY <4>3, <4>4
    <3>10. QED
      BY <3>8, <3>9
  <2>2. QED
    BY <1>5, <2>1, ClientLeaves
<1>8. QED
  BY <1>3, <1>6, <1>7
LEMMA CloseFits ==
    ASSUME IInv, FileInv, NEW c \in Clients, NEW s \in 1..Slots, Close(c, s)
    PROVE  FileInv'
<1>1. Vfs \in Processes /\ c \in Processes /\ Vfs # c /\ Vfs \notin Clients /\ Clients \subseteq Processes
  BY ProcessesAssumption
<1>2. /\ files[c][s] # NoNode /\ files' = [files EXCEPT ![c][s] = NoNode] /\ Idle(c)
      /\ Post(c, Vfs, [what |-> "CLOSE", fd |-> 2])
      /\ UNCHANGED <<callVars, answers, served, box, lost, driver, serverVars, slot, history>>
  BY DEF Close, Post, UniqueFD
<1>3. /\ files' \in [Clients -> [1..Slots -> Nodes \cup {NoNode}]]
      /\ \A x \in Clients : x # c => files'[x] = files[x]
      /\ \A r \in 1..Slots : files'[c][r] = IF r = s THEN NoNode ELSE files[c][r]
  BY <1>2 DEF FileInv, FileTypes
<1>4. [from |-> c, body |-> [what |-> "CLOSE", fd |-> 2]] \in Closes \cup Quits
  BY DEF Closes
<1>5. /\ pulses' \in [Processes -> Seq(Closes \cup Quits)]
      /\ \A x : Mailed(x)' = Mailed(x) + (IF c = x THEN 1 ELSE 0)
  BY <1>2, <1>4, PostMails DEF FileInv
<1>6. \A x \in Clients : x # c => Mailed(x)' = Mailed(x)
  <2>1. \A x \in Clients : Mailed(x) \in Nat
    BY Counts DEF FileInv
  <2>2. QED
    BY <1>5, <2>1
<1>7. ClientMoves(c)
  <2>1. Patient(c)' => answers'[c] = << >> /\ (Busy => job.from # c)
    BY <1>2, IdleRests DEF callVars, Patient
  <2>2. UNCHANGED <<entities, devices, loop, job, reply, overlapped, stale, served, ask, gaveUp, lost, answers, slot>>
    BY <1>2 DEF callVars, serverVars, history
  <2>3. ask'[c] = Nothing
    BY <1>2, <2>2 DEF Idle
  <2>4. slot' \in [Clients -> 0..Slots]
    BY <2>2 DEF FileInv, FileTypes
  <2>5. QED
    BY <1>3, <1>5, <1>6, <2>1, <2>2, <2>3, <2>4 DEF ClientMoves
<1>8. RouteInv'
  <2>1. Quiet /\ NoneNew /\ HandOld
    BY <1>2 DEF Quiet, NoneNew, HandOld, Boxed, Busy, callVars, serverVars
  <2>2. QED
    BY <2>1, QuietRoutes DEF FileInv, RouteInv
<1>9. ASSUME Patient(c)' PROVE Accounted(c)' /\ EntityIsFile(c)'
  <2>1. Patient(c) /\ ~Opening(c) /\ Opening(c)' = FALSE
    BY <1>2, <1>7, <1>9, IdleRests, NotOpening DEF Patient, callVars
  <2>2. /\ Cardinality(OpenFiles(c)) \in Nat /\ Mailed(c) \in Nat /\ Cardinality(Of(c)) \in Nat
        /\ IsFiniteSet(OpenFiles(c)) /\ Closing(c) = Sends(pulses[Vfs], c)
    BY Counts DEF FileInv
  <2>3. Closing(c)' = Sends(pulses[Vfs], c)' /\ Of(c)' = Of(c) /\ entities' = entities
    BY <1>7 DEF Closing, Sends, Of, ClientMoves
  <2>4. OpenFiles(c)' = OpenFiles(c) \ {s} /\ s \in OpenFiles(c)
    BY <1>2, <1>3 DEF OpenFiles
  <2>5. Cardinality(OpenFiles(c)') = Cardinality(OpenFiles(c)) - 1
    BY <2>2, <2>4, FS_RemoveElement
  <2>6. Due(c)' = Due(c)
    BY <1>5, <2>1, <2>2, <2>3, <2>5 DEF Due, Mailed
  <2>7. Accounted(c)'
    BY <1>7, <2>1, <2>3, <2>6 DEF FileInv, ClientFits, Accounted, ClientMoves, Undropped
  <2>8. EntityIsFile(c)'
    <3>1. SUFFICES ASSUME c \notin overlapped', NEW i \in Of(c), NEW r \in OpenFiles(c)'
                   PROVE  files'[c][r] = NodeOf[entities[i].device]
      BY <2>1, <2>3 DEF EntityIsFile
    <3>2. c \notin overlapped /\ r \in OpenFiles(c) /\ r # s /\ r \in 1..Slots
      BY <1>7, <2>4, <3>1 DEF ClientMoves, OpenFiles
    <3>3. QED
      BY <1>3, <2>1, <3>1, <3>2 DEF FileInv, ClientFits, EntityIsFile
  <2>9. QED
    BY <2>7, <2>8
<1>10. QED
  BY <1>7, <1>8, <1>9, ClientLeaves

LEMMA ClientStepFits ==
    ASSUME IInv, FileInv, NEW c \in Clients, Client(c)
    PROVE  FileInv'
<1>1. ASSUME NEW s \in 1..Slots, NEW n \in Nodes, Open(c, s, n) PROVE FileInv'
  <2> DEFINE body == [what |-> "OPEN", node |-> n]
  <2>1. body \in Opens
    BY DEF Opens
  <2> HIDE DEF body
  <2>2. /\ files[c][s] = NoNode /\ Ask(c, Vfs, body) /\ slot' = [slot EXCEPT ![c] = s]
        /\ UNCHANGED <<driver, serverVars, files, history>>
    BY <1>1 DEF Open, body
  <2>3. QED
    BY <2>1, <2>2, CallsFits
<1>2. ASSUME NEW s \in 1..Slots, Read(c, s) PROVE FileInv'
  <2> DEFINE body == [what |-> "READ", fd |-> UniqueFD(c)]
  <2>1. body \in Reads /\ body \notin Opens
    BY DEF Opens, Reads, UniqueFD
  <2> HIDE DEF body
  <2>2. /\ files[c][s] # NoNode /\ Ask(c, Vfs, body) /\ slot' = [slot EXCEPT ![c] = s]
        /\ UNCHANGED <<driver, serverVars, files, history>>
    BY <1>2 DEF Read, body
  <2>3. QED
    BY <2>1, <2>2, CallsFits
<1>3. QED
  BY <1>1, <1>2, CloseFits, OpenedFits, HasReadFits DEF Client
-----------------------------------------------------------------------------
(* A step of the server leaves the clients' files and calls alone. *)
ServerMoves ==
    /\ UNCHANGED <<files, slot, served>> /\ Grows
    /\ \A c \in Clients : ask'[c] = ask[c]
    /\ pulses' \in [Processes -> Seq(Closes \cup Quits)]

LEMMA ServerLeaves ==
    ASSUME FileInv, ServerMoves,
           entities' \in [1..Places -> Entries \cup {NoEntity}], devices' \in Seq(Drivers),
           RouteInv', LoopFits', DriverAnswers', JobReads',
           \A c \in Clients : (Sound(c)' => answers'[c] = answers[c]) \/ AnswerReads(c)',
           \A c \in Clients : (OfStays(c) /\ (Patient(c)' => Held(c))) \/ ClientFits(c)'
    PROVE  FileInv'
<1>1. FileTypes'
  BY DEF FileInv, FileTypes, ServerMoves
<1>2. AsksFit'
  BY AsksFitKept DEF FileInv, ServerMoves
<1>3. ASSUME NEW c \in Clients PROVE ClientFits(c)'
  <2>1. CASE OfStays(c) /\ (Patient(c)' => Held(c))
    <3>1. pulses'[Vfs] \in Seq(Closes \cup Quits)
      BY TheServer DEF ServerMoves
    <3>2. QED
      BY <2>1, <3>1, HeldFits DEF FileInv, ServerMoves
  <2>2. QED
    BY <2>1
<1>4. ASSUME NEW c \in Clients PROVE AnswerReads(c)'
  <2>1. CASE Sound(c)' => answers'[c] = answers[c]
    BY <2>1, AnswerReadsKept DEF FileInv, ServerMoves
  <2>2. QED
    BY <2>1
<1>5. QED
  BY <1>1, <1>2, <1>3, <1>4 DEF FileInv, RouteInv

(* Where it answers nobody and no CLOSE comes to it, the accounts stay.      *)
FdReady == loop = "reply" /\ reply.what = "fd"
LEMMA ServerHolds ==
    ASSUME ServerMoves, NEW c \in Clients, Mailed(c) \in Nat,
           ~FdReady, ~FdReady', answers'[c] = answers[c],
           Mailed(c)' <= Mailed(c), Undropped(c)' => Mailed(c)' = Mailed(c)
    PROVE  Held(c)
<1>1. Opening(c)' <=> Opening(c)
  BY DEF FdReady, Opening, First
<1>2. QED
  BY <1>1 DEF Held, ServerMoves

LEMMA NoMessageFits ==
    ASSUME IInv, FileInv, NoMessage
    PROVE  FileInv'
<1>1. /\ loop = "message" /\ loop' = "dormant"
      /\ UNCHANGED <<ask, asks, sent, gaveUp, served, box, pulses, lost, answers, entities, devices, files, slot>>
      /\ UNCHANGED <<overlapped, stale>>
  BY DEF NoMessage, messengerVars, callVars, boxVars, clientVars, history
<1>2. ServerMoves
  BY <1>1 DEF ServerMoves, Grows, FileInv, FileTypes
<1>3. RouteInv'
  <2>1. Quiet /\ NoneNew /\ HandOld
    BY <1>1 DEF Quiet, NoneNew, Boxed, HandOld, Busy
  <2>2. QED
    BY <2>1, QuietRoutes DEF FileInv, RouteInv
<1>4. LoopFits' /\ JobReads' /\ DriverAnswers'
  BY <1>1, <1>2, DriverAnswersKept DEF FileInv, LoopFits, JobReads, ServerMoves
<1>5. ASSUME NEW c \in Clients PROVE OfStays(c) /\ Held(c)
  <2>1. Mailed(c) \in Nat /\ Mailed(c)' = Mailed(c)
    BY <1>1, Counts DEF FileInv, Mailed
  <2>2. Held(c)
    BY <1>1, <1>2, <2>1, ServerHolds DEF FdReady
  <2>3. QED
    BY <1>1, <2>2 DEF OfStays, Of
<1>6. QED
  BY <1>1, <1>2, <1>3, <1>4, <1>5, ServerLeaves DEF FileInv, FileTypes

(* The server takes a message. *)
LEMMA TakenFits ==
    ASSUME IInv, box[Vfs] # << >>, box' = [box EXCEPT ![Vfs] = Tail(@)]
    PROVE  /\ NoneNew /\ Head(box[Vfs]) \in Messages
           /\ Head(box[Vfs]) \in Requests => Boxed(Vfs, 1) /\ Head(box[Vfs]) = box[Vfs][1]
<1> DEFINE up == [q \in Processes |-> IF q = Vfs THEN 1 ELSE 0]
<1>1. /\ Head(box[Vfs]) \in Messages /\ Shifted(up) /\ up \in [Processes -> Nat]
      /\ 1 \in DOMAIN box[Vfs] /\ Head(box[Vfs]) = box[Vfs][1]
  BY TheServer, Headless DEF IInv
<1> HIDE DEF up
<1>2. NoneNew
  BY <1>1, ShiftedOld
<1>3. QED
  BY <1>1, <1>2 DEF Boxed, Requests

LEMMA InstallFits ==
    ASSUME IInv, FileInv, InstallDevice
    PROVE  FileInv'
<1> DEFINE m == Head(box[Vfs])
<1>1. /\ loop = "message" /\ loop' = "dormant" /\ box[Vfs] # << >> /\ m.body.what = "INSTALL"
      /\ box' = [box EXCEPT ![Vfs] = Tail(@)] /\ devices' = Append(devices, m.from)
      /\ UNCHANGED <<ask, asks, sent, gaveUp, served, pulses, lost, answers, entities, files, slot>>
      /\ UNCHANGED <<overlapped, stale>>
  BY DEF InstallDevice, callVars, clientVars, history
<1>2. NoneNew /\ m \in Messages
  BY <1>1, TakenFits
<1> HIDE DEF m
<1>3. devices' \in Seq(Drivers)
  <2>1. m.from \in Drivers
    BY <1>1, <1>2 DEF Messages, Requests, Bodies, Installs
  <2>2. QED
    BY <1>1, <2>1, AppendProperties DEF FileInv, FileTypes
<1>4. ServerMoves
  BY <1>1 DEF ServerMoves, Grows, FileInv, FileTypes
<1>5. RouteInv'
  <2>1. Quiet /\ HandOld
    BY <1>1 DEF Quiet, HandOld, Busy
  <2>2. QED
    BY <1>2, <2>1, QuietRoutes DEF FileInv, RouteInv
<1>6. LoopFits' /\ JobReads' /\ DriverAnswers'
  BY <1>1, <1>4, DriverAnswersKept DEF FileInv, LoopFits, JobReads, ServerMoves
<1>7. ASSUME NEW c \in Clients PROVE OfStays(c) /\ Held(c)
  <2>1. Mailed(c) \in Nat /\ Mailed(c)' = Mailed(c)
    BY <1>1, Counts DEF FileInv, Mailed
  <2>2. Held(c)
    BY <1>1, <1>4, <2>1, ServerHolds DEF FdReady
  <2>3. QED
    BY <1>1, <2>2 DEF OfStays, Of
<1>8. QED
  BY <1>1, <1>3, <1>4, <1>5, <1>6, <1>7, ServerLeaves DEF FileInv, FileTypes

LEMMA ReadFileFits ==
    ASSUME IInv, FileInv, ReadFile
    PROVE  FileInv'
<1> DEFINE m == Head(box[Vfs])
<1>1. /\ loop = "message" /\ box[Vfs] # << >> /\ m.body.what = "READ"
      /\ box' = [box EXCEPT ![Vfs] = Tail(@)] /\ job' = m
      /\ (loop' = "reply" /\ reply' = Minus) \/ loop' = "read"
      /\ UNCHANGED <<ask, asks, sent, gaveUp, served, pulses, lost, answers, devices, entities, files, slot>>
      /\ UNCHANGED <<overlapped, stale>>
  BY DEF ReadFile, Receives, Replies, callVars, clientVars, history
<1>2. NoneNew /\ m \in Requests /\ Boxed(Vfs, 1) /\ job' = box[Vfs][1]
  BY <1>1, TakenFits DEF Messages, Installs
<1> HIDE DEF m
<1>3. ServerMoves
  BY <1>1 DEF ServerMoves, Grows, FileInv, FileTypes
<1>4. RouteInv'
  <2>1. Quiet /\ HandOld
    BY <1>1, <1>2 DEF Quiet, HandOld
  <2>2. QED
    BY <1>2, <2>1, QuietRoutes DEF FileInv, RouteInv
<1>5. LoopFits'
  <2>1. job'.body \in Reads
    BY <1>1, <1>2, TheServer DEF FileInv, Routes, Opens
  <2>2. QED
    BY <1>1, <2>1 DEF LoopFits
<1>6. JobReads' /\ DriverAnswers'
  BY <1>1, <1>3, DriverAnswersKept DEF FileInv, JobReads, Minus, ServerMoves
<1>7. ASSUME NEW c \in Clients PROVE OfStays(c) /\ Held(c)
  <2>1. Mailed(c) \in Nat /\ Mailed(c)' = Mailed(c)
    BY <1>1, Counts DEF FileInv, Mailed
  <2>2. Held(c)
    BY <1>1, <1>3, <2>1, ServerHolds DEF FdReady, Minus
  <2>3. QED
    BY <1>1, <2>2 DEF OfStays, Of
<1>8. QED
  BY <1>1, <1>3, <1>4, <1>5, <1>6, <1>7, ServerLeaves DEF FileInv, FileTypes
-----------------------------------------------------------------------------
(* A patient client that reads is in its call, with its file open. *)
LEMMA ReaderWaits ==
    ASSUME IInv, FileInv, Busy, Patient(job.from), job.body \in Reads
    PROVE  /\ job.from \in Clients /\ ~Idle(job.from) /\ job = ask[job.from] /\ answers[job.from] = << >>
           /\ slot[job.from] \in OpenFiles(job.from) /\ Of(job.from) # {}
<1> DEFINE c == job.from
<1>1. c \in Clients /\ c \in Processes
  BY TheServer DEF FileInv, Routes
<1>2. ~Idle(c) /\ job = ask[c] /\ answers[c] = << >>
  BY <1>1, PatientFacts DEF FileInv, JobIsAsk
<1> HIDE DEF c
<1>3. slot[c] \in OpenFiles(c)
  BY <1>1, <1>2 DEF FileInv, AsksFit, OpenFiles, Opens, Reads
<1>4. /\ Cardinality(OpenFiles(c)) \in Nat /\ Mailed(c) \in Nat /\ Cardinality(Of(c)) \in Nat
      /\ IsFiniteSet(OpenFiles(c)) /\ IsFiniteSet(Of(c)) /\ Closing(c) = Sends(pulses[Vfs], c)
  BY <1>1, Counts DEF FileInv
<1>5. Cardinality(OpenFiles(c)) >= 1
  BY <1>3, <1>4, FS_EmptySet
<1>6. Due(c) >= 1 /\ Due(c) <= Cardinality(Of(c)) /\ Due(c) \in Nat
  BY <1>1, <1>4, <1>5 DEF Due, Mailed, FileInv, ClientFits, Accounted, c
<1>7. Of(c) # {}
  BY <1>4, <1>6, FS_EmptySet
<1>8. QED
  BY <1>1, <1>2, <1>3, <1>7 DEF c

LEMMA MatchingOf ==
    ASSUME FileTypes, NEW c \in Clients
    PROVE  Matching(c, 2) = Of(c) /\ (Of(c) # {} => Least(Of(c)) \in Of(c))
<1>1. c # Nobody
  BY ProcessesAssumption
<1>2. ASSUME NEW i \in 1..Places
      PROVE  entities[i] # NoEntity /\ entities[i].pid = c /\ entities[i].fd = 2 <=> entities[i].pid = c
  <2>1. entities[i] \in Entries \cup {NoEntity}
    BY DEF FileTypes
  <2>2. QED
    BY <1>1, <2>1 DEF Entries, NoEntity
<1>3. Matching(c, 2) = Of(c)
  BY <1>2 DEF Matching, Of
<1>4. Of(c) \in SUBSET Nat
  BY SizesAssumption DEF Of
<1>5. QED
  BY <1>3, <1>4, LeastFits

(* The server asks a driver: what waited for it is dropped. *)
LEMMA DropsAll ==
    ASSUME FileInv, pulses' = [pulses EXCEPT ![Vfs] = << >>], Elems(pulses[Vfs]) \subseteq lost'
    PROVE  /\ pulses' \in [Processes -> Seq(Closes \cup Quits)]
           /\ \A c \in Clients : /\ Mailed(c) \in Nat /\ Mailed(c)' <= Mailed(c)
                                 /\ Undropped(c)' => Mailed(c)' = Mailed(c)
<1>1. << >> \in Seq(Closes \cup Quits) /\ Vfs \in Processes
  BY EmptySeq, TheServer
<1>2. pulses' \in [Processes -> Seq(Closes \cup Quits)] /\ pulses'[Vfs] = << >>
  BY <1>1 DEF FileInv, FileTypes
<1>3. ASSUME NEW c \in Clients
      PROVE  /\ Mailed(c) \in Nat /\ Mailed(c)' <= Mailed(c)
             /\ Undropped(c)' => Mailed(c)' = Mailed(c)
  <2>1. Mailed(c) \in Nat
    BY Counts DEF FileInv
  <2>2. Sends(pulses'[Vfs], c) = {}
    BY <1>2 DEF Sends
  <2>3. Mailed(c)' = 0
    BY <2>2, FS_EmptySet DEF Mailed
  <2>4. ASSUME Undropped(c)' PROVE Mailed(c) = 0
    <3>1. Sends(pulses[Vfs], c) = {}
      BY <2>4 DEF Undropped, Sends, Elems
    <3>2. QED
      BY <3>1, FS_EmptySet DEF Mailed
  <2>5. QED
    BY <2>1, <2>3, <2>4
<1>4. QED
  BY <1>2, <1>3

LEMMA AskDeviceFits ==
    ASSUME IInv, FileInv, NEW what \in {"READ", "STAT"}, AskDevice(what), Busy, loop # "reply",
           loop' # "reply", Busy', LoopFits', JobReads'
    PROVE  FileInv'
<1>1. PICK d \in Asked(Entity) : Ask(Vfs, d, [what |-> what])
  BY DEF AskDevice
<1>2. /\ Vfs \in Processes /\ Clients \subseteq Processes /\ Vfs \notin Clients
      /\ d \in Processes => d # Vfs
  BY ProcessesAssumption, ElementOfSeq, LenProperties DEF Asked, FileInv, FileTypes, Elems
<1>3. /\ \A c \in Clients : ask'[c] = ask[c] /\ answers'[c] = answers[c]
      /\ answers'[Vfs] = << >> /\ pulses' = [pulses EXCEPT ![Vfs] = << >>] /\ lost' = lost \cup Elems(pulses[Vfs])
      /\ UNCHANGED <<gaveUp, served>>
  BY <1>1, <1>2 DEF Ask, IInv, CallTypes
<1>4. /\ UNCHANGED <<devices, entities, job, reply, files, slot, overlapped>> /\ stale \subseteq stale'
  BY DEF AskDevice, clientVars
<1>5. /\ pulses' \in [Processes -> Seq(Closes \cup Quits)]
      /\ \A c \in Clients : /\ Mailed(c) \in Nat /\ Mailed(c)' <= Mailed(c)
                            /\ Undropped(c)' => Mailed(c)' = Mailed(c)
  BY <1>3, DropsAll
<1>6. ServerMoves
  BY <1>3, <1>4, <1>5 DEF ServerMoves, Grows
<1>7. RouteInv'
  <2>1. JobStays /\ [what |-> what] \in Bodies
    BY <1>4 DEF JobStays, Bodies
  <2>2. QED
    BY <1>1, <1>2, <2>1, AskRoutes DEF FileInv, RouteInv
<1>8. DriverAnswers'
  BY <1>3, <1>6, DriverAnswersKept DEF FileInv, ServerMoves
<1>9. ASSUME NEW c \in Clients PROVE OfStays(c) /\ Held(c)
  <2>1. Held(c)
    BY <1>3, <1>5, <1>6, ServerHolds DEF FdReady
  <2>2. QED
    BY <1>4, <2>1 DEF OfStays, Of
<1>10. QED
  BY <1>3, <1>4, <1>6, <1>7, <1>8, <1>9, ServerLeaves DEF FileInv, FileTypes

LEMMA AskDataFits ==
    ASSUME IInv, FileInv, AskData
    PROVE  FileInv'
<1>1. loop = "read" /\ loop' = "reading" /\ AskDevice("READ") /\ Busy /\ Busy'
  BY DEF AskData, Busy
<1>2. PICK d \in Asked(Entity) : Ask(Vfs, d, [what |-> "READ"])
  BY <1>1 DEF AskDevice
<1>3. /\ UNCHANGED <<devices, entities, job, reply, files, slot, overlapped, gaveUp>>
      /\ stale' = IF Entity.device \in Elems(devices) THEN stale ELSE stale \cup {job.from}
  BY <1>1, <1>2 DEF AskDevice, clientVars, Ask
<1>4. LoopFits'
  BY <1>1, <1>3 DEF FileInv, LoopFits
<1>5. JobReads'
  <2>1. SUFFICES ASSUME Sound(job.from)'
                 PROVE  (~Idle(Vfs))' /\ NodeOf[ask'[Vfs].to] = files'[job'.from][slot'[job'.from]]
    BY <1>1 DEF JobReads, Wanted
  <2> DEFINE c == job.from  k == Least(Of(c))
  <2>2. Patient(c) /\ c \notin overlapped /\ c \notin stale' /\ job.body \in Reads
    BY <1>1, <1>3, <2>1 DEF Sound, Patient, FileInv, LoopFits
  <2>3. c \in Clients /\ slot[c] \in OpenFiles(c) /\ Of(c) # {}
    BY <1>1, <2>2, ReaderWaits
  <2>4. Matching(c, job.body.fd) = Of(c) /\ k \in Of(c)
    BY <2>2, <2>3, MatchingOf DEF FileInv, Reads
  <2>5. Entity = entities[k]
    BY <2>4 DEF Entity
  <2>6. Entity.device \in Elems(devices)
    BY <1>3, <2>2
  <2>7. d = Entity.device
    BY <2>6 DEF Asked
  <2> HIDE DEF k
  <2>8. NodeOf[d] = files[c][slot[c]]
    BY <2>2, <2>3, <2>4, <2>5, <2>7 DEF FileInv, ClientFits, EntityIsFile
  <2>9. ask'[Vfs].to = d /\ ask'[Vfs] # Nothing
    BY <1>2, TheServer, RequestMade DEF Ask, IInv, CallTypes
  <2>10. QED
    BY <1>3, <2>8, <2>9 DEF Idle
<1>6. QED
  BY <1>1, <1>4, <1>5, AskDeviceFits

LEMMA AskSizeFits ==
    ASSUME IInv, FileInv, AskSize
    PROVE  FileInv'
<1>1. loop = "seek" /\ loop' = "seeking" /\ AskDevice("STAT") /\ Busy /\ Busy'
  BY DEF AskSize, Busy
<1>2. UNCHANGED <<job, reply, files, slot, overlapped, gaveUp>> /\ stale \subseteq stale'
  BY <1>1 DEF AskDevice, clientVars, Ask
<1>3. LoopFits'
  BY <1>1, <1>2 DEF FileInv, LoopFits
<1>4. JobReads'
  BY <1>1, <1>2 DEF FileInv, JobReads, Sound, Patient, Wanted
<1>5. QED
  BY <1>1, <1>3, <1>4, AskDeviceFits

(* The driver's answer comes, or does not. *)
LEMMA ComesFits ==
    ASSUME IInv, FileInv, NEW body, Answered(Vfs, body) \/ Unanswered(Vfs),
           UNCHANGED <<driver, devices, entities, job, clientVars, history>>,
           Busy, Busy', ~FdReady, ~FdReady', reply' \in Contents, LoopFits', JobReads'
    PROVE  FileInv'
<1>1. Vfs \in Processes /\ Clients \subseteq Processes /\ Vfs \notin Clients
  BY ProcessesAssumption
<1>2. /\ Leave(Vfs) /\ gaveUp \subseteq gaveUp' /\ answers'[Vfs] = << >>
      /\ \A c \in Clients : ask'[c] = ask[c] /\ answers'[c] = answers[c]
      /\ UNCHANGED <<pulses, lost, served>>
  BY <1>1 DEF Answered, Unanswered, Leave, boxVars, IInv, CallTypes
<1>3. ServerMoves /\ UNCHANGED <<devices, entities>>
  BY <1>2 DEF ServerMoves, Grows, clientVars, history, FileInv, FileTypes
<1>4. RouteInv'
  <2>1. JobStays
    BY DEF JobStays
  <2>2. QED
    BY <1>1, <1>2, <2>1, LeaveRoutes DEF FileInv, RouteInv
<1>5. DriverAnswers'
  BY <1>2, <1>3, DriverAnswersKept DEF FileInv, ServerMoves
<1>6. ASSUME NEW c \in Clients PROVE OfStays(c) /\ Held(c)
  <2>1. Mailed(c) \in Nat /\ Mailed(c)' = Mailed(c)
    BY <1>2, Counts DEF FileInv, Mailed
  <2>2. Held(c)
    BY <1>2, <1>3, <2>1, ServerHolds
  <2>3. QED
    BY <1>3, <2>2 DEF OfStays, Of
<1>7. QED
  BY <1>2, <1>3, <1>4, <1>5, <1>6, ServerLeaves DEF FileInv, FileTypes

LEMMA DataComesFits ==
    ASSUME IInv, FileInv, DataComes
    PROVE  FileInv'
<1>1. loop = "reading" /\ Busy /\ UNCHANGED <<driver, devices, entities, job, clientVars, history>>
  BY DEF DataComes, Busy
<1>2. PICK body \in Contents :
        \/ Answered(Vfs, body) /\ body.what = "data" /\ loop' = "seek" /\ reply' = body
        \/ (Answered(Vfs, body) \/ Unanswered(Vfs)) /\ loop' = "reply" /\ reply' = Minus
  <2>1. Minus \in Contents
    BY DEF Contents
  <2>2. QED
    BY <2>1 DEF DataComes, Replies
<1>3. gaveUp \subseteq gaveUp'
  BY <1>2 DEF Answered, Unanswered
<1>4. LoopFits'
  BY <1>1, <1>2 DEF FileInv, LoopFits
<1>5. JobReads'
  <2>1. CASE loop' = "reply" /\ reply' = Minus
    BY <2>1 DEF JobReads, Minus
  <2>2. CASE Answered(Vfs, body) /\ body.what = "data" /\ loop' = "seek" /\ reply' = body
    <3>1. SUFFICES ASSUME Sound(job.from)' PROVE body.node = files'[job'.from][slot'[job'.from]]
      BY <2>2 DEF JobReads, Wanted
    <3>2. Sound(job.from)
      BY <1>1, <1>3, <3>1 DEF Sound, Patient, history
    <3>3. NodeOf[ask[Vfs].to] = files[job.from][slot[job.from]]
      BY <1>1, <3>2 DEF FileInv, JobReads, Wanted
    <3>4. body = First(Vfs) /\ answers[Vfs] # << >>
      BY <2>2 DEF Answered, First
    <3>5. body.node = NodeOf[ask[Vfs].to]
      BY <2>2, <3>2, <3>4 DEF FileInv, DriverAnswers, Sound
    <3>6. QED
      BY <1>1, <3>3, <3>5 DEF clientVars
  <2>3. QED
    BY <1>2, <2>1, <2>2
<1>6. Busy' /\ ~FdReady /\ ~FdReady' /\ reply' \in Contents
  BY <1>1, <1>2 DEF Busy, FdReady, Minus, Contents
<1>7. QED
  BY <1>1, <1>2, <1>4, <1>5, <1>6, ComesFits

LEMMA SizeComesFits ==
    ASSUME IInv, FileInv, SizeComes
    PROVE  FileInv'
<1>1. /\ loop = "seeking" /\ loop' = "reply" /\ Busy /\ Busy'
      /\ UNCHANGED <<driver, devices, entities, job, reply, clientVars, history>>
  BY DEF SizeComes, Busy
<1>2. PICK body : Answered(Vfs, body) \/ Unanswered(Vfs)
  BY DEF SizeComes
<1>3. gaveUp \subseteq gaveUp'
  BY <1>2 DEF Answered, Unanswered
<1>4. reply.what = "data" /\ job.body \notin Opens /\ reply \in Contents
  BY <1>1 DEF FileInv, LoopFits, Opens, Reads, IInv, CallTypes
<1>5. LoopFits'
  BY <1>1, <1>4 DEF LoopFits
<1>6. JobReads'
  BY <1>1, <1>3 DEF FileInv, JobReads, LoopFits, Sound, Patient, Wanted, clientVars, history
<1>7. QED
  BY <1>1, <1>2, <1>4, <1>5, <1>6, ComesFits DEF FdReady
-----------------------------------------------------------------------------
(* The server answers: what was in its hand waits on its client's port. *)
LEMMA ReplyFits ==
    ASSUME IInv, FileInv, Reply
    PROVE  FileInv'
<1> DEFINE f == job.from
<1>1. /\ loop = "reply" /\ Busy /\ SendReply(job, reply)
      /\ \/ loop' = "dormant"
         \/ ~Reaches(job) /\ loop' = "again" /\ job' = job
      /\ reply' = Minus
      /\ UNCHANGED <<ask, asks, sent, gaveUp, served, box, pulses, lost, devices, entities, files, slot>>
      /\ UNCHANGED <<overlapped, stale>>
  BY DEF Reply, Done, Busy, callVars, boxVars, clientVars, history
<1>2. /\ Vfs \in Processes /\ Clients \subseteq Processes /\ Vfs \notin Clients /\ f \in Clients
      /\ job.body \in Opens \cup Reads /\ job.no \in Nat
  BY <1>1, ProcessesAssumption DEF FileInv, Routes, IInv, JobThere, Requests
<1>3. /\ DOMAIN answers = Processes
      /\ answers' = IF ~Idle(f)
                    THEN [answers EXCEPT ![f] = Append(@, [to |-> f, no |-> job.no, body |-> reply])]
                    ELSE answers
  BY <1>1 DEF SendReply, Reaches, IInv, CallTypes
<1>4. ServerMoves
  BY <1>1 DEF ServerMoves, Grows, FileInv, FileTypes
<1>5. RouteInv'
  <2>1. Quiet /\ NoneNew /\ HandOld
    BY <1>1 DEF Quiet, NoneNew, Boxed, HandOld, Busy
  <2>2. QED
    BY <2>1, QuietRoutes DEF FileInv, RouteInv
<1>6. LoopFits'
  <2>1. ASSUME loop' = "again" PROVE GivenUp(job.from, job.no)' /\ reply' = Minus
    BY <1>1, <2>1 DEF IInv, JobTokens, JobKnown, Known, Reaches, GivenUp
  <2>2. QED
    BY <1>1, <2>1 DEF LoopFits
<1>7. JobReads'
  BY <1>1 DEF JobReads
<1>8. answers'[Vfs] = answers[Vfs] /\ \A c \in Clients : c # f => answers'[c] = answers[c]
  BY <1>2, <1>3
<1>9. DriverAnswers'
  BY <1>1, <1>4, <1>8, DriverAnswersKept DEF FileInv, ServerMoves
<1>10. ASSUME NEW c \in Clients
       PROVE  /\ (Sound(c)' => answers'[c] = answers[c]) \/ AnswerReads(c)'
              /\ OfStays(c) /\ (Patient(c)' => Held(c))
  <2>1. OfStays(c)
    BY <1>1 DEF OfStays, Of
  <2>2. Mailed(c) \in Nat /\ Mailed(c)' = Mailed(c)
    BY <1>1, Counts DEF FileInv, Mailed
  <2>3. CASE c # f
    <3>1. Opening(c)' <=> Opening(c)
      BY <1>1, <1>8, <2>3 DEF Opening, First, Minus
    <3>2. Held(c)
      BY <1>4, <2>2, <3>1 DEF Held, ServerMoves
    <3>3. QED
      BY <1>8, <2>1, <2>3, <3>2
  <2>4. CASE c = f
    <3>1. ASSUME Patient(c)'
          PROVE  Patient(c) /\ ~Idle(c) /\ answers[c] = << >> /\ answers'[c] # << >> /\ First(c)' = reply
      <4>1. Patient(c) /\ ~Idle(c) /\ answers[c] = << >>
        BY <1>1, <1>2, <1>4, <2>4, <3>1, PatientFacts, PatientBefore DEF ServerMoves
      <4> DEFINE a == [to |-> f, no |-> job.no, body |-> reply]
      <4>2. answers'[c] = Append(<< >>, a) /\ a.body = reply
        BY <1>2, <1>3, <2>4, <4>1
      <4> HIDE DEF a
      <4>3. QED
        BY <4>1, <4>2, HeadOf DEF First
    <3>2. ASSUME Patient(c)' PROVE Held(c)
      <4>1. Opening(c)' <=> Opening(c)
        BY <1>1, <2>4, <3>1, <3>2 DEF Opening
      <4>2. QED
        BY <1>4, <2>2, <4>1 DEF Held, ServerMoves
    <3>3. AnswerReads(c)'
      <4>1. SUFFICES ASSUME Sound(c)', reply.what = "data" PROVE reply.node = Wanted(c)'
        BY <3>1 DEF AnswerReads, Sound
      <4>2. Sound(c)
        BY <1>4, <4>1, PatientBefore DEF ServerMoves
      <4>3. QED
        BY <1>1, <2>4, <4>1, <4>2 DEF FileInv, JobReads, Wanted
    <3>4. QED
      BY <2>1, <3>2, <3>3
  <2>5. QED
    BY <2>3, <2>4
<1>11. QED
  BY <1>1, <1>4, <1>5, <1>6, <1>7, <1>9, <1>10, ServerLeaves DEF FileInv, FileTypes

(* What it sends again goes to a client that has given up. *)
LEMMA ReplyAgainFits ==
    ASSUME IInv, FileInv, ReplyAgain
    PROVE  FileInv'
<1> PICK f : f = job.from
  OBVIOUS
<1>1. /\ loop = "again" /\ loop' = "dormant" /\ Busy /\ SendReply(job, reply)
      /\ UNCHANGED <<ask, asks, sent, gaveUp, served, box, pulses, lost, devices, entities, files, slot>>
      /\ UNCHANGED <<overlapped, stale>>
  BY DEF ReplyAgain, Done, Busy, callVars, boxVars, clientVars, history
<1>2. Vfs \in Processes /\ Clients \subseteq Processes /\ Vfs \notin Clients /\ f \in Clients
  BY <1>1, ProcessesAssumption DEF FileInv, Routes
<1>3. answers'[Vfs] = answers[Vfs] /\ \A c \in Clients : c # f => answers'[c] = answers[c]
  BY <1>1, <1>2 DEF SendReply, IInv, CallTypes
<1>4. ~Patient(f)'
  <2>1. GivenUp(f, job.no)
    BY <1>1 DEF FileInv, LoopFits
  <2>2. PICK j : <<f, j>> \in gaveUp
    BY <2>1 DEF GivenUp
  <2>3. <<f, j>> \in gaveUp' /\ <<f, j>>[1] = f
    BY <1>1, <2>2
  <2>4. QED
    BY <2>3 DEF Patient
<1>5. ServerMoves
  BY <1>1 DEF ServerMoves, Grows, FileInv, FileTypes
<1>6. RouteInv'
  <2>1. Quiet /\ NoneNew /\ HandOld
    BY <1>1 DEF Quiet, NoneNew, Boxed, HandOld, Busy
  <2>2. QED
    BY <2>1, QuietRoutes DEF FileInv, RouteInv
<1>7. LoopFits' /\ JobReads'
  BY <1>1 DEF LoopFits, JobReads
<1>8. DriverAnswers'
  BY <1>1, <1>3, <1>5, DriverAnswersKept DEF FileInv, ServerMoves
<1>9. ASSUME NEW c \in Clients
      PROVE  /\ Sound(c)' => answers'[c] = answers[c]
             /\ OfStays(c) /\ (Patient(c)' => Held(c))
  <2>1. OfStays(c)
    BY <1>1 DEF OfStays, Of
  <2>2. Mailed(c) \in Nat /\ Mailed(c)' = Mailed(c)
    BY <1>1, Counts DEF FileInv, Mailed
  <2>3. CASE c # f
    <3>1. Held(c)
      BY <1>1, <1>3, <1>5, <2>2, <2>3, ServerHolds DEF FdReady
    <3>2. QED
      BY <1>3, <2>1, <2>3, <3>1
  <2>4. CASE c = f
    <3>1. ~Patient(c)'
      BY <1>4, <2>4
    <3>2. QED
      BY <2>1, <3>1 DEF Sound
  <2>5. QED
    BY <2>3, <2>4
<1>10. QED
  BY <1>1, <1>5, <1>6, <1>7, <1>8, <1>9, ServerLeaves DEF FileInv, FileTypes

(* openFile: the request is its sender's last, the device is the node's that *)
(* it asks for, and the entity is put where there was none.                  *)
LEMMA OpenFileFits ==
    ASSUME IInv, FileInv, OpenFile
    PROVE  FileInv'
<1> PICK m, f, k, d : m = Head(box[Vfs]) /\ f = m.from /\ k = Least(Empty) /\ d = devices[Least(Named(m.body.node))]
  OBVIOUS
<1>1. /\ loop = "message" /\ loop' = "reply" /\ box[Vfs] # << >> /\ m.body.what = "OPEN"
      /\ box' = [box EXCEPT ![Vfs] = Tail(@)] /\ job' = m /\ Empty # {}
      /\ \/ reply' = Minus /\ UNCHANGED <<entities, overlapped>>
         \/ /\ reply' = [what |-> "fd"] /\ Named(m.body.node) # {}
            /\ entities' = [entities EXCEPT ![k] = [pid |-> f, fd |-> 2, device |-> d]]
            /\ overlapped' = IF Of(f) = {} THEN overlapped ELSE overlapped \cup {f}
      /\ UNCHANGED <<ask, asks, sent, gaveUp, served, pulses, lost, answers, devices, files, slot, stale>>
  BY DEF OpenFile, Receives, Replies, UniqueFD, callVars, clientVars
<1>2. NoneNew /\ m \in Requests /\ Boxed(Vfs, 1) /\ m = box[Vfs][1]
  BY <1>1, TakenFits DEF Messages, Installs
<1>3. /\ Vfs \in Processes /\ Clients \subseteq Processes /\ Vfs \notin Clients /\ Nobody \notin Processes
      /\ f \in Clients /\ m.body \in Opens
  BY <1>1, <1>2, ProcessesAssumption DEF FileInv, Routes, Reads
<1>4. ServerMoves
  BY <1>1 DEF ServerMoves, Grows, FileInv, FileTypes
<1>5. RouteInv'
  <2>1. Quiet /\ HandOld
    BY <1>1, <1>2 DEF Quiet, HandOld
  <2>2. QED
    BY <1>2, <2>1, QuietRoutes DEF FileInv, RouteInv
<1>6. LoopFits'
  BY <1>1, <1>3 DEF LoopFits
<1>7. JobReads' /\ DriverAnswers'
  BY <1>1, <1>4, DriverAnswersKept DEF FileInv, JobReads, Minus, ServerMoves
<1>8. k \in 1..Places /\ entities[k] = NoEntity
  <2>1. Empty \in SUBSET Nat
    BY SizesAssumption DEF Empty
  <2>2. k \in Empty
    BY <1>1, <2>1, LeastFits
  <2>3. QED
    BY <2>2 DEF Empty
<1>9. ASSUME Named(m.body.node) # {} PROVE d \in Drivers /\ NodeOf[d] = m.body.node
  <2>1. devices \in Seq(Drivers)
    BY DEF FileInv, FileTypes
  <2>2. Named(m.body.node) \in SUBSET Nat
    BY <2>1, LenProperties DEF Named
  <2>3. Least(Named(m.body.node)) \in Named(m.body.node)
    BY <1>9, <2>2, LeastFits
  <2>4. QED
    BY <2>1, <2>3, ElementOfSeq, LenProperties DEF Named
<1>10. /\ \A c \in Clients : Mailed(c) \in Nat /\ Mailed(c)' = Mailed(c)
  BY <1>1, Counts DEF FileInv, Mailed
<1>11. entities \in [1..Places -> Entries \cup {NoEntity}] /\ ~FdReady
  BY <1>1 DEF FileInv, FileTypes, FdReady
<1>12. CASE reply' = Minus /\ UNCHANGED <<entities, overlapped>>
  <2>1. ASSUME NEW c \in Clients PROVE OfStays(c) /\ Held(c)
    <3>1. Held(c)
      BY <1>1, <1>4, <1>10, <1>11, <1>12, ServerHolds DEF FdReady, Minus
    <3>2. QED
      BY <1>12, <3>1 DEF OfStays, Of
  <2>2. QED
    BY <1>1, <1>4, <1>5, <1>6, <1>7, <1>11, <1>12, <2>1, ServerLeaves DEF FileInv, FileTypes
<1>13. CASE /\ reply' = [what |-> "fd"] /\ Named(m.body.node) # {}
            /\ entities' = [entities EXCEPT ![k] = [pid |-> f, fd |-> 2, device |-> d]]
            /\ overlapped' = IF Of(f) = {} THEN overlapped ELSE overlapped \cup {f}
  <2> DEFINE e == [pid |-> f, fd |-> 2, device |-> d]
  <2>1. e \in Entries /\ e.pid = f /\ e.device = d /\ d \in Drivers /\ NodeOf[d] = m.body.node
    BY <1>3, <1>9, <1>13 DEF Entries
  <2>2. entities' = [entities EXCEPT ![k] = e]
    BY <1>13
  <2>3. job' = m /\ m.from = f /\ loop' = "reply" /\ reply'.what = "fd" /\ answers' = answers /\ ask' = ask
    BY <1>1, <1>13
  <2> HIDE DEF e
  <2>4. entities' \in [1..Places -> Entries \cup {NoEntity}]
    BY <1>8, <1>11, <2>1, <2>2
  <2>5. /\ entities'[k] = e /\ \A i \in 1..Places : i # k => entities'[i] = entities[i]
        /\ entities[k].pid = Nobody
    BY <1>8, <1>11, <2>2 DEF NoEntity
  <2>6. ASSUME NEW c \in Clients, c # f PROVE OfStays(c) /\ Held(c)
    <3>1. OfStays(c)
      BY <1>3, <2>1, <2>5, <2>6 DEF OfStays, Of
    <3>2. Opening(c)' <=> Opening(c)
      BY <1>11, <2>3, <2>6 DEF Opening, First, FdReady
    <3>3. Held(c)
      BY <1>4, <1>10, <3>2 DEF Held, ServerMoves
    <3>4. QED
      BY <3>1, <3>3
  <2>7. Of(f)' = Of(f) \cup {k} /\ k \notin Of(f)
    BY <1>3, <1>8, <2>1, <2>5 DEF Of
  <2>8. Single(f)'
    <3>1. f \notin overlapped' => Of(f) = {}
      BY <1>13
    <3>2. QED
      BY <2>7, <3>1 DEF Single
  <2>9. ASSUME Patient(f)' PROVE Accounted(f)' /\ OpeningFits(f)' /\ EntityIsFile(f)'
    <3>1. Patient(f) /\ ~Idle(f) /\ Last(m) /\ answers[f] = << >>
      BY <1>2, <1>3, <1>4, <2>9, PatientFacts, PatientBefore DEF ServerMoves
    <3>2. m = ask[f]
      BY <1>2, <1>3, <3>1 DEF FileInv, BoxIsAsk
    <3>3. ~Opening(f) /\ Opening(f)'
      BY <1>1, <2>3, <3>1 DEF Opening
    <3>4. /\ Cardinality(OpenFiles(f)) \in Nat /\ Mailed(f) \in Nat /\ Cardinality(Of(f)) \in Nat
          /\ IsFiniteSet(OpenFiles(f)) /\ IsFiniteSet(Of(f)) /\ Closing(f) = Sends(pulses[Vfs], f)
      BY <1>3, Counts DEF FileInv
    <3>5. Closing(f)' = Closing(f) /\ OpenFiles(f)' = OpenFiles(f)
      BY <1>1 DEF Closing, OpenFiles
    <3>6. Cardinality(Of(f)') = Cardinality(Of(f)) + 1
      BY <2>7, <3>4, FS_AddElement
    <3>7. Due(f)' = Due(f) + 1 /\ Due(f) \in Nat
      BY <3>3, <3>4, <3>5 DEF Due, Mailed
    <3>8. Accounted(f)'
      BY <1>1, <1>3, <3>1, <3>4, <3>6, <3>7 DEF FileInv, ClientFits, Accounted, Undropped
    <3>9. OpeningFits(f)'
      BY <1>3, <2>3, <3>1, <3>2 DEF OpeningFits, Idle
    <3>10. EntityIsFile(f)'
      <4>1. SUFFICES ASSUME f \notin overlapped', NEW i \in Of(f)'
                     PROVE  /\ \A s \in OpenFiles(f)' : files'[f][s] = NodeOf[entities'[i].device]
                            /\ ask'[f].body.node = NodeOf[entities'[i].device]
        BY DEF EntityIsFile
      <4>2. Of(f) = {} /\ i = k
        BY <1>13, <2>7, <4>1
      <4>3. Due(f) <= 0
        BY <1>3, <3>1, <4>2, FS_EmptySet DEF FileInv, ClientFits, Accounted
      <4>4. OpenFiles(f) = {}
        <5>1. Cardinality(OpenFiles(f)) = 0
          BY <3>4, <4>3 DEF Due, Mailed
        <5>2. QED
          BY <3>4, <5>1, FS_EmptySet
      <4>5. QED
        BY <2>1, <2>3, <2>5, <3>2, <3>5, <4>2, <4>4
    <3>11. QED
      BY <3>8, <3>9, <3>10
  <2>10. ClientFits(f)'
    BY <2>8, <2>9 DEF ClientFits, Accounted, OpeningFits, EntityIsFile
  <2>11. \A c \in Clients : (OfStays(c) /\ (Patient(c)' => Held(c))) \/ ClientFits(c)'
    BY <2>6, <2>10
  <2>12. devices' \in Seq(Drivers) /\ \A c \in Clients : Sound(c)' => answers'[c] = answers[c]
    BY <1>1 DEF FileInv, FileTypes
  <2>13. QED
    BY <1>4, <1>5, <1>6, <1>7, <2>4, <2>11, <2>12, ServerLeaves
<1>14. QED
  BY <1>1, <1>12, <1>13
-----------------------------------------------------------------------------
(* A pulse is taken from the server's port. *)
PulseTaken ==
    /\ loop = "dormant" /\ loop' = "message"
    /\ UNCHANGED <<ask, asks, sent, gaveUp, served, box, lost, answers, job, reply, files, slot>>
    /\ UNCHANGED <<overlapped, stale>>

LEMMA PulseLeaves ==
    ASSUME FileInv, PulseTaken, pulses' \in [Processes -> Seq(Closes \cup Quits)],
           entities' \in [1..Places -> Entries \cup {NoEntity}], devices' \in Seq(Drivers),
           \A c \in Clients : (OfStays(c) /\ (Patient(c)' => Held(c))) \/ ClientFits(c)'
    PROVE  FileInv'
<1>1. ServerMoves
  BY DEF PulseTaken, ServerMoves, Grows
<1>2. RouteInv'
  <2>1. Quiet /\ NoneNew /\ HandOld
    BY DEF PulseTaken, Quiet, NoneNew, Boxed, HandOld, Busy
  <2>2. QED
    BY <2>1, QuietRoutes DEF FileInv, RouteInv
<1>3. LoopFits' /\ JobReads' /\ DriverAnswers'
  BY <1>1, DriverAnswersKept DEF PulseTaken, FileInv, LoopFits, JobReads, ServerMoves
<1>4. \A c \in Clients : Sound(c)' => answers'[c] = answers[c]
  BY DEF PulseTaken
<1>5. QED
  BY <1>1, <1>2, <1>3, <1>4, ServerLeaves

LEMMA PulseHolds ==
    ASSUME PulseTaken, NEW c \in Clients, Mailed(c) \in Nat, Mailed(c)' = Mailed(c)
    PROVE  Held(c) /\ (Opening(c)' <=> Opening(c))
<1>1. Opening(c)' <=> Opening(c)
  BY DEF PulseTaken, Opening, First
<1>2. QED
  BY <1>1 DEF PulseTaken, Held

LEMMA PulseOff ==
    ASSUME FileTypes, pulses[Vfs] # << >>, pulses' = [pulses EXCEPT ![Vfs] = Tail(@)]
    PROVE  /\ Head(pulses[Vfs]) \in Closes \cup Quits
           /\ pulses' \in [Processes -> Seq(Closes \cup Quits)]
           /\ \A c : /\ Mailed(c)' \in Nat
                     /\ Mailed(c) = Mailed(c)' + (IF Head(pulses[Vfs]).from = c THEN 1 ELSE 0)
<1> DEFINE t == pulses[Vfs]  S == Closes \cup Quits
<1>1. t \in Seq(S) /\ t # << >>
  BY TheServer DEF FileTypes
<1> HIDE DEF S
<1>2. Head(t) \in S /\ Tail(t) \in Seq(S)
  BY <1>1, HeadTailProperties
<1>3. pulses'[Vfs] = Tail(t) /\ pulses' \in [Processes -> Seq(S)]
  BY <1>2, TheServer DEF FileTypes, S
<1>4. ASSUME NEW c PROVE /\ Mailed(c)' \in Nat
                         /\ Mailed(c) = Mailed(c)' + (IF Head(t).from = c THEN 1 ELSE 0)
  <2>1. /\ Cardinality(Sends(t, c)) = Cardinality(Sends(Tail(t), c)) + (IF Head(t).from = c THEN 1 ELSE 0)
        /\ Cardinality(Sends(Tail(t), c)) \in Nat
    BY <1>1, CountTail
  <2>2. QED
    BY <1>3, <2>1 DEF Mailed
<1>5. QED
  BY <1>2, <1>3, <1>4 DEF S

(* PulseReceived, CLOSE: the entity that goes is one of the client's. *)
LEMMA CloseTaken ==
    ASSUME FileInv, PulseTaken, pulses[Vfs] # << >>, pulses' = [pulses EXCEPT ![Vfs] = Tail(@)],
           NEW p, p = Head(pulses[Vfs]), p.body.what = "CLOSE", Closed(p)
    PROVE  FileInv'
<1>1. /\ p \in Closes \cup Quits /\ pulses' \in [Processes -> Seq(Closes \cup Quits)]
      /\ \A c : Mailed(c)' \in Nat /\ Mailed(c) = Mailed(c)' + (IF p.from = c THEN 1 ELSE 0)
  BY PulseOff DEF FileInv
<1>2. PICK x \in Clients : x = p.from /\ p.body.fd = 2
  BY <1>1 DEF Closes, Quits
<1>3. x # Nobody
  BY ProcessesAssumption
<1>4. Matching(x, 2) = Of(x) /\ (Of(x) # {} => Least(Of(x)) \in Of(x))
  BY MatchingOf DEF FileInv
<1>5. PICK k : k = Least(Of(x))
  OBVIOUS
<1>6. /\ devices' = devices
      /\ entities' = IF Of(x) = {} THEN entities ELSE [entities EXCEPT ![k] = NoEntity]
      /\ Of(x) # {} => k \in Of(x)
  BY <1>2, <1>4, <1>5 DEF Closed
<1>7. entities \in [1..Places -> Entries \cup {NoEntity}] /\ devices' \in Seq(Drivers)
  BY <1>6 DEF FileInv, FileTypes
<1>8. entities' \in [1..Places -> Entries \cup {NoEntity}]
  BY <1>6, <1>7
<1>9. /\ \A i \in 1..Places : ~(Of(x) # {} /\ i = k) => entities'[i] = entities[i]
      /\ Of(x) # {} => k \in 1..Places /\ entities'[k] = NoEntity /\ entities[k].pid = x
  BY <1>6, <1>7 DEF Of
<1>10. NoEntity.pid = Nobody /\ \A c \in Clients : c # Nobody
  BY ProcessesAssumption DEF NoEntity
<1>11. ASSUME NEW c \in Clients, c # x PROVE OfStays(c) /\ Held(c)
  <2>1. OfStays(c)
    BY <1>9, <1>10, <1>11 DEF OfStays, Of
  <2>2. Mailed(c)' = Mailed(c) /\ Mailed(c) \in Nat
    BY <1>1, <1>2, <1>11
  <2>3. QED
    BY <2>1, <2>2, PulseHolds
<1>12. /\ Of(x)' \subseteq Of(x) /\ (Of(x) # {} => Of(x)' = Of(x) \ {k})
       /\ \A i \in Of(x)' : entities'[i] = entities[i]
  BY <1>9, <1>10 DEF Of
<1>13. Single(x)'
  BY <1>12 DEF PulseTaken, FileInv, ClientFits, Single
<1>14. ASSUME Patient(x)' PROVE Accounted(x)' /\ OpeningFits(x)' /\ EntityIsFile(x)'
  <2>1. Patient(x) /\ Opening(x)' = Opening(x) /\ OpenFiles(x)' = OpenFiles(x)
    BY <1>14 DEF PulseTaken, Patient, Opening, First, OpenFiles
  <2>2. /\ Cardinality(OpenFiles(x)) \in Nat /\ Mailed(x) \in Nat /\ Cardinality(Of(x)) \in Nat
        /\ IsFiniteSet(Of(x)) /\ Closing(x) = Sends(pulses[Vfs], x)
    BY Counts DEF FileInv
  <2>3. Closing(x)' = Sends(pulses'[Vfs], x)
    BY DEF Closing, Sends
  <2>4. Mailed(x) = Mailed(x)' + 1 /\ Mailed(x)' \in Nat
    BY <1>1, <1>2
  <2>5. Due(x) = Due(x)' + 1 /\ Due(x)' \in Nat
    BY <2>1, <2>2, <2>3, <2>4 DEF Due, Mailed
  <2>6. Due(x) <= Cardinality(Of(x)) /\ (Undropped(x) => Due(x) = Cardinality(Of(x)))
    BY <2>1 DEF FileInv, ClientFits, Accounted
  <2>7. Of(x) # {}
    BY <2>2, <2>5, <2>6, FS_EmptySet
  <2>8. Cardinality(Of(x)') = Cardinality(Of(x)) - 1
    BY <1>6, <1>12, <2>2, <2>7, FS_RemoveElement
  <2>9. Undropped(x)' <=> Undropped(x)
    BY DEF PulseTaken, Undropped
  <2>10. Accounted(x)'
    BY <2>2, <2>5, <2>6, <2>8, <2>9 DEF Accounted
  <2>11. OpeningFits(x)'
    BY <2>1 DEF PulseTaken, FileInv, ClientFits, OpeningFits, Idle
  <2>12. EntityIsFile(x)'
    BY <1>12, <2>1 DEF PulseTaken, FileInv, ClientFits, EntityIsFile
  <2>13. QED
    BY <2>10, <2>11, <2>12
<1>15. ClientFits(x)'
  BY <1>13, <1>14 DEF ClientFits, Accounted, OpeningFits, EntityIsFile
<1>16. \A c \in Clients : (OfStays(c) /\ (Patient(c)' => Held(c))) \/ ClientFits(c)'
  BY <1>11, <1>15
<1>17. QED
  BY <1>1, <1>7, <1>8, <1>16, PulseLeaves

(* PulseReceived, UNINSTALL: a device goes, its entities stay. *)
LEMMA WithoutFits ==
    ASSUME NEW S, NEW s \in Seq(S), NEW i \in DOMAIN s
    PROVE  Without(s, i) \in Seq(S)
<1>1. Len(s) \in Nat /\ i \in 1..Len(s) /\ \A j \in 1..Len(s) : s[j] \in S
  BY LenProperties, ElementOfSeq
<1>2. i - 1 \in Int /\ i + 1 \in Int /\ 1 \in Int /\ Len(s) \in Int
  BY <1>1
<1>3. SubSeq(s, 1, i - 1) \in Seq(S) /\ SubSeq(s, i + 1, Len(s)) \in Seq(S)
  <2>1. \A j \in 1..(i - 1) : s[j] \in S
    BY <1>1
  <2>2. \A j \in (i + 1)..Len(s) : s[j] \in S
    BY <1>1
  <2>3. QED
    BY <1>2, <2>1, <2>2, SubSeqProperties
<1>4. QED
  BY <1>3, ConcatProperties DEF Without

LEMMA QuitTaken ==
    ASSUME FileInv, PulseTaken, pulses[Vfs] # << >>, pulses' = [pulses EXCEPT ![Vfs] = Tail(@)],
           NEW p, p = Head(pulses[Vfs]), p.body.what = "UNINSTALL", Uninstalled(p)
    PROVE  FileInv'
<1>1. /\ p \in Closes \cup Quits /\ pulses' \in [Processes -> Seq(Closes \cup Quits)]
      /\ \A c : Mailed(c)' \in Nat /\ Mailed(c) = Mailed(c)' + (IF p.from = c THEN 1 ELSE 0)
  BY PulseOff DEF FileInv
<1>2. p.from \in Drivers
  BY <1>1 DEF Closes, Quits
<1>3. PICK S, k : S = Installed(p.from) /\ k = Least(S)
  OBVIOUS
<1>4. entities' = entities /\ devices' = IF S = {} THEN devices ELSE Without(devices, k)
  BY <1>3 DEF Uninstalled
<1>5. devices \in Seq(Drivers) /\ entities \in [1..Places -> Entries \cup {NoEntity}]
  BY DEF FileInv, FileTypes
<1>6. S \in SUBSET Nat /\ S \subseteq DOMAIN devices
  BY <1>3, <1>5, LenProperties DEF Installed
<1>7. devices' \in Seq(Drivers)
  <2>1. CASE S = {}
    BY <1>4, <1>5, <2>1
  <2>2. CASE S # {}
    <3>1. k \in DOMAIN devices
      BY <1>3, <1>6, <2>2, LeastFits
    <3>2. Without(devices, k) \in Seq(Drivers)
      BY <1>5, <3>1, WithoutFits
    <3>3. QED
      BY <1>4, <2>2, <3>2
  <2>3. QED
    BY <2>1, <2>2
<1>8. ASSUME NEW c \in Clients PROVE OfStays(c) /\ Held(c)
  <2>1. p.from # c
    BY <1>2, ProcessesAssumption
  <2>2. Mailed(c)' = Mailed(c) /\ Mailed(c) \in Nat
    BY <1>1, <2>1
  <2>3. Held(c)
    BY <2>2, PulseHolds
  <2>4. QED
    BY <1>4, <2>3 DEF OfStays, Of
<1>9. QED
  BY <1>1, <1>4, <1>5, <1>7, <1>8, PulseLeaves

LEMMA TakePulseFits ==
    ASSUME FileInv, TakePulse
    PROVE  FileInv'
<1>1. PulseTaken
  BY DEF TakePulse, PulseTaken, callVars, clientVars, history
<1>2. CASE pulses[Vfs] # << >> /\ pulses' = [pulses EXCEPT ![Vfs] = Tail(@)]
  <2>1. PICK p : /\ p = Head(pulses[Vfs])
                 /\ (p.body.what = "CLOSE" /\ Closed(p)) \/ (p.body.what = "UNINSTALL" /\ Uninstalled(p))
    BY <1>2 DEF TakePulse
  <2>2. QED
    BY <1>1, <1>2, <2>1, CloseTaken, QuitTaken
<1>3. CASE pulses[Vfs] = << >> /\ UNCHANGED <<pulses, devices, entities>>
  <2>1. ASSUME NEW c \in Clients PROVE OfStays(c) /\ Held(c)
    <3>1. Mailed(c)' = Mailed(c) /\ Mailed(c) \in Nat
      BY <1>3, Counts DEF FileInv, Mailed
    <3>2. QED
      BY <1>1, <1>3, <3>1, PulseHolds DEF OfStays, Of
  <2>2. QED
    BY <1>1, <1>3, <2>1, PulseLeaves DEF FileInv, FileTypes
<1>4. QED
  BY <1>2, <1>3 DEF TakePulse
-----------------------------------------------------------------------------
LEMMA ServerStepFits ==
    ASSUME IInv, FileInv, Server
    PROVE  FileInv'
BY TakePulseFits, NoMessageFits, InstallFits, OpenFileFits, ReadFileFits, AskDataFits, DataComesFits,
   AskSizeFits, SizeComesFits, ReplyFits, ReplyAgainFits DEF Server

LEMMA StandsFits ==
    ASSUME FileInv, UNCHANGED vars
    PROVE  FileInv'
<1>1. /\ UNCHANGED <<ask, asks, sent, gaveUp, served, box, pulses, lost, answers, entities, devices>>
      /\ UNCHANGED <<loop, job, reply, files, slot, overlapped, stale>>
  BY DEF vars, messengerVars, callVars, boxVars, serverVars, clientVars, history
<1>2. ServerMoves
  BY <1>1 DEF ServerMoves, Grows, FileInv, FileTypes
<1>3. RouteInv'
  <2>1. Quiet /\ NoneNew /\ HandOld
    BY <1>1 DEF Quiet, NoneNew, Boxed, HandOld, Busy
  <2>2. QED
    BY <2>1, QuietRoutes DEF FileInv, RouteInv
<1>4. LoopFits' /\ JobReads' /\ DriverAnswers'
  <2>1. LoopFits'
    BY <1>1 DEF FileInv, LoopFits, GivenUp
  <2>2. JobReads'
    BY <1>1 DEF FileInv, JobReads, Sound, Patient, Idle, Wanted
  <2>3. DriverAnswers'
    BY <1>1, <1>2, DriverAnswersKept DEF FileInv, ServerMoves
  <2>4. QED
    BY <2>1, <2>2, <2>3
<1>5. ASSUME NEW c \in Clients PROVE OfStays(c) /\ Held(c)
  <2>1. Mailed(c) \in Nat /\ Mailed(c)' = Mailed(c)
    BY <1>1, Counts DEF FileInv, Mailed
  <2>2. Opening(c)' <=> Opening(c)
    BY <1>1 DEF Opening, First
  <2>3. QED
    BY <1>1, <2>1, <2>2 DEF OfStays, Of, Held
<1>6. QED
  BY <1>1, <1>2, <1>3, <1>4, <1>5, ServerLeaves DEF FileInv, FileTypes

LEMMA InitFiles == Init => FileInv
<1> SUFFICES ASSUME Init PROVE FileInv
  OBVIOUS
<1>1. /\ served = Drivers \cup {Vfs} /\ gaveUp = {} /\ lost = {}
      /\ \A p \in Processes : box[p] = << >> /\ pulses[p] = << >> /\ answers[p] = << >> /\ ask[p] = Nothing
      /\ pulses = [p \in Processes |-> << >>]
      /\ devices = Early /\ entities = [i \in 1..Places |-> NoEntity] /\ loop = "dormant"
      /\ files = [c \in Clients |-> [s \in 1..Slots |-> NoNode]] /\ slot = [c \in Clients |-> 0]
  BY DEF Init, MessengersInit
<1>2. FileTypes
  <2>1. << >> \in Seq(Closes \cup Quits)
    BY EmptySeq
  <2>2. pulses \in [Processes -> Seq(Closes \cup Quits)]
    BY <1>1, <2>1
  <2>3. QED
    BY <1>1, <2>2, EarlyAssumption, SizesAssumption DEF FileTypes
<1>3. ~Busy /\ \A q \in Processes, i \in Nat : ~Boxed(q, i)
  BY <1>1 DEF Busy, Boxed
<1>4. Vfs \in Processes /\ \A c \in Clients : c \in Processes /\ c # Nobody
  BY TheServer, ProcessesAssumption
<1>5. /\ Routes /\ BoxIsAsk /\ JobIsAsk /\ AsksFit /\ LoopFits /\ DriverAnswers /\ JobReads
  BY <1>1, <1>3, <1>4 DEF Routes, BoxIsAsk, JobIsAsk, AsksFit, Idle, LoopFits, DriverAnswers, JobReads
<1>6. ASSUME NEW c \in Clients PROVE ClientFits(c) /\ AnswerReads(c)
  <2>1. Of(c) = {} /\ OpenFiles(c) = {} /\ Closing(c) = {} /\ ~Opening(c) /\ answers[c] = << >>
    BY <1>1, <1>4 DEF Of, NoEntity, OpenFiles, Closing, Opening
  <2>2. Cardinality({}) = 0
    BY FS_EmptySet
  <2>3. Due(c) = 0 /\ Cardinality(Of(c)) = 0
    BY <2>1, <2>2 DEF Due
  <2>4. QED
    BY <2>1, <2>3 DEF ClientFits, Accounted, OpeningFits, Single, EntityIsFile, AnswerReads
<1>7. QED
  BY <1>2, <1>5, <1>6 DEF FileInv

LEMMA FileInvKept == IInv /\ FileInv /\ [Next]_vars => FileInv'
<1>1. ASSUME IInv, FileInv, NEW c \in Clients, Client(c) PROVE FileInv'
  BY <1>1, ClientStepFits
<1>2. ASSUME IInv, FileInv, NEW d \in Drivers, Install(d) \/ Serve(d) \/ Uninstall(d) \/ Release(d) PROVE FileInv'
  BY <1>2, DriverFits
<1>3. QED
  BY <1>1, <1>2, ServerStepFits, StandsFits DEF Next

(* The server's entities are the files that patient clients have open and    *)
(* those whose CLOSE waits: a client that does not wait for a call has no    *)
(* descriptor on the way.                                                    *)
THEOREM EntitiesAreAccounted == Spec => []EntitiesAccounted
<1>1. IInv /\ FileInv => EntitiesAccounted
  <2>1. SUFFICES ASSUME IInv, FileInv, NEW c \in Clients, Idle(c), Patient(c), Undropped(c)
                 PROVE  Cardinality(Of(c)) = Cardinality(OpenFiles(c)) + Cardinality(Closing(c))
    BY DEF EntitiesAccounted, Patient, Undropped, OpenFiles
  <2>2. ~Opening(c) /\ Due(c) = Cardinality(Of(c))
    BY <2>1, IdleRests DEF FileInv, ClientFits, Accounted
  <2>3. Cardinality(OpenFiles(c)) \in Nat /\ Mailed(c) \in Nat /\ Closing(c) = Sends(pulses[Vfs], c)
    BY <2>1, Counts DEF FileInv
  <2>4. QED
    BY <2>2, <2>3 DEF Due, Mailed
<1>2. QED
  BY InitHolds, IInvKept, InitFiles, FileInvKept, <1>1, PTL DEF Spec

(* Who has read another node than it had opened: no sound client. *)
Misreads == misread \subseteq Clients /\ \A c \in Clients : c \in misread => ~Sound(c)

LEMMA HistoryGrows ==
    ASSUME [Next]_vars
    PROVE  /\ gaveUp \subseteq gaveUp' /\ overlapped \subseteq overlapped' /\ stale \subseteq stale'
           /\ misread' # misread => \E c \in Clients : HasRead(c)
<1>1. ASSUME Server PROVE gaveUp \subseteq gaveUp' /\ overlapped \subseteq overlapped' /\ stale \subseteq stale' /\ misread' = misread
  <2>1. CASE TakePulse \/ NoMessage \/ InstallDevice \/ ReadFile \/ Reply \/ ReplyAgain
    BY <2>1 DEF TakePulse, NoMessage, InstallDevice, ReadFile, Reply, ReplyAgain, callVars, messengerVars, history
  <2>2. CASE OpenFile
    BY <2>2 DEF OpenFile, callVars
  <2>3. CASE AskData \/ AskSize
    <3>1. PICK what \in {"READ", "STAT"} : AskDevice(what)
      BY <2>3 DEF AskData, AskSize
    <3>2. gaveUp' = gaveUp
      BY <3>1 DEF AskDevice, Ask
    <3>3. QED
      BY <3>1, <3>2 DEF AskDevice
  <2>4. CASE DataComes \/ SizeComes
    <3>1. PICK body : Answered(Vfs, body) \/ Unanswered(Vfs)
      BY <2>4 DEF DataComes, SizeComes
    <3>2. gaveUp \subseteq gaveUp'
      BY <3>1 DEF Answered, Unanswered
    <3>3. QED
      BY <2>4, <3>2 DEF DataComes, SizeComes, history
  <2>5. QED
    BY <1>1, <2>1, <2>2, <2>3, <2>4 DEF Server
<1>2. ASSUME NEW c \in Clients, Client(c)
      PROVE  /\ gaveUp \subseteq gaveUp' /\ overlapped \subseteq overlapped' /\ stale \subseteq stale'
             /\ misread' # misread => HasRead(c)
  BY <1>2 DEF Client, Open, Read, Close, Opened, HasRead, Ask, Post, Answered, Unanswered, callVars, history
<1>3. ASSUME NEW d \in Drivers, Install(d) \/ Serve(d) \/ Uninstall(d) \/ Release(d)
      PROVE  gaveUp \subseteq gaveUp' /\ overlapped \subseteq overlapped' /\ stale \subseteq stale' /\ misread' = misread
  BY <1>3 DEF Install, Serve, Uninstall, Release, Post, callVars, history
<1>4. ASSUME UNCHANGED vars
      PROVE  gaveUp \subseteq gaveUp' /\ overlapped \subseteq overlapped' /\ stale \subseteq stale' /\ misread' = misread
  BY <1>4 DEF vars, messengerVars, callVars, history
<1>5. QED
  BY <1>1, <1>2, <1>3, <1>4 DEF Next

LEMMA MisreadsKept == FileInv /\ Misreads /\ [Next]_vars => Misreads'
<1> SUFFICES ASSUME FileInv, Misreads, [Next]_vars PROVE Misreads'
  OBVIOUS
<1>1. \A c \in Clients : Sound(c)' => Sound(c)
  BY HistoryGrows DEF Sound, Patient
<1>2. CASE misread' = misread
  BY <1>1, <1>2 DEF Misreads
<1>3. ASSUME NEW c \in Clients, HasRead(c) PROVE Misreads'
  <2>1. CASE misread' = misread
    BY <1>1, <2>1 DEF Misreads
  <2>2. CASE misread' # misread
    <3>1. PICK body : /\ Answered(c, body) /\ body.what = "data" /\ body.node # Wanted(c)
                      /\ misread' = misread \cup {c}
      BY <1>3, <2>2 DEF HasRead, Wanted
    <3>2. ~Sound(c)
      BY <3>1 DEF Answered, FileInv, AnswerReads, First
    <3>3. QED
      BY <1>1, <3>1, <3>2 DEF Misreads
  <2>3. QED
    BY <2>1, <2>2
<1>4. QED
  BY <1>2, <1>3, HistoryGrows

(* A client reads the node it has opened, unless it opened twice at once,    *)
(* its driver's device was deleted, or it or the server gave up a call.      *)
THEOREM ReadsAreOpened == Spec => []ReadsOpened
<1>1. Init => Misreads
  BY DEF Init, Misreads
<1>2. Misreads => ReadsOpened
  BY DEF Misreads, ReadsOpened, Sound, Patient
<1>3. QED
  BY InitHolds, IInvKept, InitFiles, FileInvKept, <1>1, MisreadsKept, <1>2, PTL DEF Spec
=============================================================================
