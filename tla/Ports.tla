------------------------------- MODULE Ports -------------------------------
(***************************************************************************)
(* The ports of one process and the mail that reaches its threads:          *)
(* old_kernel/ports.c, messages.c, pulse.c and go_dormant in threads.c.     *)
(*                                                                          *)
(* A system call checks the process out as a writer, so its handler is one  *)
(* step, with one exception. The clock needs no lock: between a send's test *)
(* for a dormant owner and its wake-up, the owner's timer may fire and the  *)
(* owner run on. A send that finds a dormant owner is therefore two steps,  *)
(* and the process is checked out from the first to the second.             *)
(***************************************************************************)
EXTENDS Naturals, Sequences

CONSTANTS
    Threads,    \* the threads of the process
    Ports,      \* the port numbers, 0..MAX_PORTS-1 in the code
    Items,      \* what a message or a pulse carries
    MaxQueue,   \* bound: items of one kind waiting on one port
    NoThread,   \* tid -1
    NoPort,     \* port -1
    NoItem      \* nothing seen

ASSUME NoThreadAssumption == NoThread \notin Threads
ASSUME NoPortAssumption == NoPort \notin Ports
ASSUME NoItemAssumption == NoItem \notin Items
ASSUME MaxQueueAssumption == MaxQueue \in Nat \ {0}

VARIABLES
    owner,      \* ipc[p].tid
    masked,     \* ipc[p].flags & IPC_MASKED
    mail,       \* ipc[p].messages and ipc[p].pulses, oldest first
    ports,      \* tr->ports, up to its first -1
    hint,       \* tr->last_port_message and tr->last_port_pulse
    state,      \* tr->state; "gone" once its struct is freed
    timer,      \* tr->sleep_seconds: 0, a time to come, 0xc007
    inside,     \* in go_dormant past its yield: with a timeout, without, not
    wake,       \* the thread a send found dormant and is about to wake
    seen,       \* history: what the peek that left the hint showed
    late        \* history: ports opened by a peer while their owner slept

portVars == <<owner, masked, ports>>
threadVars == <<state, timer, inside>>
hintVars == <<hint, seen>>
vars == <<owner, masked, mail, ports, hint, seen, state, timer, inside, wake, late>>

Kinds == {"message", "pulse"}
ThreadStates == {"running", "dormant", "parked", "finished", "gone"}

Elems(s) == {s[i] : i \in DOMAIN s}

Init ==
    /\ owner = [p \in Ports |-> NoThread]
    /\ masked = [p \in Ports |-> FALSE]
    /\ mail = [k \in Kinds |-> [p \in Ports |-> << >>]]
    /\ ports = [t \in Threads |-> << >>]
    /\ hint = [k \in Kinds |-> [t \in Threads |-> NoPort]]
    /\ state = [t \in Threads |-> "running"]
    /\ timer = [t \in Threads |-> "off"]
    /\ inside = [t \in Threads |-> "no"]
    /\ wake = NoThread
    /\ seen = [k \in Kinds |-> [t \in Threads |-> NoItem]]
    /\ late = {}

(* Faulty variants: a peer's release leaves the handler's hints; only       *)
(* messages count as mail; the wrong port is taken off the list.          *)
ForgetNothing(t) == UNCHANGED hintVars
MailWaitsForMessages(t) ==
    \E i \in DOMAIN ports[t] :
        ~masked[ports[t][i]] /\ mail["message"][ports[t][i]] # << >>
WithoutFirst(s, p) == Tail(s)

(* A thread that can make a call, and one that can check its process out. *)
Free(t) == state[t] = "running" /\ inside[t] = "no"
Calls(t) == Free(t) /\ wake = NoThread
-----------------------------------------------------------------------------
(* Ports with something for a receiver, and with anything at all. *)
Ready(k) == {p \in Ports : owner[p] # NoThread /\ ~masked[p] /\ mail[k][p] # << >>}
Filled(k) == {p \in Ports : mail[k][p] # << >>}

(* The first port of the thread's list that is in S: none or one. *)
FirstIn(t, S) ==
    {p \in S : \E i \in DOMAIN ports[t] :
        /\ ports[t][i] = p
        /\ \A j \in 1..(i - 1) : ports[t][j] \notin S}

MailWaits(t) == \E k \in Kinds : Ready(k) \cap Elems(ports[t]) # {}

(* The list without port p: the loop that closes the gap. *)
Without(s, p) ==
    LET at == CHOOSE i \in DOMAIN s : s[i] = p
    IN  [i \in 1..(Len(s) - 1) |-> IF i < at THEN s[i] ELSE s[i + 1]]

ForgetHints(t) ==
    /\ hint' = [k \in Kinds |-> [hint[k] EXCEPT ![t] = NoPort]]
    /\ seen' = [k \in Kinds |-> [seen[k] EXCEPT ![t] = NoItem]]
-----------------------------------------------------------------------------
(* create_port: any thread of the process may be made the handler. *)
CreatePort(t, p, o) ==
    /\ Calls(t)
    /\ owner[p] = NoThread
    /\ state[o] # "gone"
    /\ owner' = [owner EXCEPT ![p] = o]
    /\ masked' = [masked EXCEPT ![p] = FALSE]
    /\ mail' = [k \in Kinds |-> [mail[k] EXCEPT ![p] = << >>]]
    /\ ports' = [ports EXCEPT ![o] = Append(@, p)]
    /\ late' = late \ {p}
    /\ UNCHANGED <<hintVars, threadVars, wake>>

(* What release_port leaves of the mail. Its drop loops honour the hint for *)
(* port p once; the second drop_pulse has no hint any more and takes from   *)
(* every port of the handler, until all of them are empty.                  *)
AfterRelease(p) ==
    LET o == owner[p]
        swept == IF o \in Threads /\ state[o] # "gone" /\ p \in Ready("pulse")
                 THEN Elems(ports[o]) ELSE {}
    IN  [mail EXCEPT
            !["message"] = [@ EXCEPT ![p] = << >>],
            !["pulse"] = [q \in Ports |->
                IF q = p \/ q \in swept THEN << >> ELSE @[q]]]

(* release_port: any thread of the process may release any of its ports. The *)
(* drops spend both hints of the handler, unless it is gone.                 *)
ReleasePort(t, p) ==
    /\ Calls(t)
    /\ owner[p] # NoThread
    /\ mail' = AfterRelease(p)
    /\ IF state[owner[p]] = "gone"
       THEN UNCHANGED <<ports, hintVars>>
       ELSE /\ ports' = [ports EXCEPT ![owner[p]] = Without(@, p)]
            /\ ForgetHints(owner[p])
    /\ owner' = [owner EXCEPT ![p] = NoThread]
    /\ masked' = [masked EXCEPT ![p] = FALSE]
    /\ late' = late \ {p}
    /\ UNCHANGED <<threadVars, wake>>

(* The flags of the ports in the domain of f are set; nobody is woken. *)
SetPortFlags(t, f) ==
    /\ Calls(t)
    /\ masked' = [p \in Ports |->
            IF p \in DOMAIN f /\ owner[p] # NoThread THEN f[p] ELSE masked[p]]
    /\ ForgetHints(t)
    /\ late' = late \cup {p \in DOMAIN f :
            masked[p] /\ ~f[p] /\ owner[p] \in Threads /\ state[owner[p]] = "dormant"}
    /\ UNCHANGED <<owner, ports, mail, threadVars, wake>>

(* set_port_flags for one port, set_port_flags(-1), bulk_set_ports. *)
MaskPort(t, p, flag) == SetPortFlags(t, [q \in {p} |-> flag])
MaskAll(t, flag) == SetPortFlags(t, [q \in Elems(ports[t]) |-> flag])
BulkSet(t, f) == DOMAIN f # {} /\ SetPortFlags(t, f)
-----------------------------------------------------------------------------
(* Faulty variant: a send that wakes nobody. *)
SendSilent(k, p, item) ==
    /\ wake = NoThread
    /\ owner[p] # NoThread
    /\ state[owner[p]] # "gone"
    /\ Len(mail[k][p]) < MaxQueue
    /\ mail' = [mail EXCEPT ![k][p] = Append(@, item)]
    /\ UNCHANGED <<portVars, hintVars, threadVars, wake, late>>

(* send_message, send_pulse: refused without a living handler; delivered; *)
(* if the port is open and its handler dormant, the wake-up follows.      *)
Send(k, p, item) ==
    /\ wake = NoThread
    /\ owner[p] # NoThread
    /\ state[owner[p]] # "gone"
    /\ Len(mail[k][p]) < MaxQueue
    /\ mail' = [mail EXCEPT ![k][p] = Append(@, item)]
    /\ wake' = IF ~masked[p] /\ state[owner[p]] = "dormant" THEN owner[p] ELSE NoThread
    /\ UNCHANGED <<portVars, hintVars, threadVars, late>>

(* The rest of that send. What it wakes is no longer sure to be dormant. *)
Wake ==
    /\ wake # NoThread
    /\ timer' = [timer EXCEPT ![wake] = "off"]
    /\ state' = [state EXCEPT ![wake] = "running"]
    /\ wake' = NoThread
    /\ UNCHANGED <<portVars, mail, hintVars, inside, late>>

(* Where recv, peek and drop take from: a hint is honoured once, and alone. *)
Source(k, t, S) ==
    IF hint[k][t] = NoPort THEN FirstIn(t, S) ELSE {hint[k][t]} \cap Ready(k)

Take(k, t, src) ==
    /\ mail' = [mail EXCEPT ![k] =
            [p \in Ports |-> IF p \in src THEN Tail(@[p]) ELSE @[p]]]
    /\ hint' = [hint EXCEPT ![k] = [@ EXCEPT ![t] = NoPort]]
    /\ seen' = [seen EXCEPT ![k] = [@ EXCEPT ![t] = NoItem]]
    /\ UNCHANGED <<portVars, threadVars, wake, late>>

(* recv_message, receive_pulse. *)
Recv(k, t) == Calls(t) /\ Take(k, t, Source(k, t, Ready(k)))

(* Faulty variant: neither kind's scan looks at the masks. *)
DropScanBlind(k) == Filled(k)

(* drop_message, drop_pulse. Without a hint drop_pulse ignores the masks. *)
DropScan(k) == IF k = "pulse" THEN Filled(k) ELSE Ready(k)
Drop(k, t) == Calls(t) /\ Take(k, t, Source(k, t, DropScan(k)))

(* peek_message, preview_pulse: shows the first item and leaves the hint. *)
Peek(k, t) ==
    /\ Calls(t)
    /\ \/ \E p \in FirstIn(t, Ready(k)) :
            /\ hint' = [hint EXCEPT ![k] = [@ EXCEPT ![t] = p]]
            /\ seen' = [seen EXCEPT ![k] = [@ EXCEPT ![t] = Head(mail[k][p])]]
       \/ /\ FirstIn(t, Ready(k)) = {}
          /\ hint' = [hint EXCEPT ![k] = [@ EXCEPT ![t] = NoPort]]
          /\ seen' = [seen EXCEPT ![k] = [@ EXCEPT ![t] = NoItem]]
    /\ UNCHANGED <<portVars, mail, threadVars, wake, late>>
-----------------------------------------------------------------------------
(* Faulty variant: the timeout is not stored. *)
GoDormantUntimed(t, timeout) ==
    /\ Calls(t)
    /\ ~MailWaits(t)
    /\ state' = [state EXCEPT ![t] = "dormant"]
    /\ timer' = [timer EXCEPT ![t] = "off"]
    /\ inside' = [inside EXCEPT ![t] = IF timeout THEN "timed" ELSE "untimed"]
    /\ late' = late \ Elems(ports[t])
    /\ UNCHANGED <<portVars, mail, hintVars, wake>>

(* go_dormant, up to its yield. With mail waiting it returns 0 at once. *)
GoDormant(t, timeout) ==
    /\ Calls(t)
    /\ ~MailWaits(t)
    /\ state' = [state EXCEPT ![t] = "dormant"]
    /\ timer' = [timer EXCEPT ![t] = IF timeout THEN "set" ELSE "off"]
    /\ inside' = [inside EXCEPT ![t] = IF timeout THEN "timed" ELSE "untimed"]
    /\ late' = late \ Elems(ports[t])
    /\ UNCHANGED <<portVars, mail, hintVars, wake>>

(* go_dormant, once the thread runs again. *)
Return(t) ==
    /\ state[t] = "running"
    /\ inside[t] # "no"
    /\ inside' = [inside EXCEPT ![t] = "no"]
    /\ UNCHANGED <<portVars, mail, hintVars, state, timer, wake, late>>

(* switch_wake_thread finds the time passed. *)
TimerFires(t) ==
    /\ state[t] = "dormant"
    /\ timer[t] = "set"
    /\ state' = [state EXCEPT ![t] = "running"]
    /\ timer' = [timer EXCEPT ![t] = "fired"]
    /\ UNCHANGED <<portVars, mail, hintVars, inside, wake, late>>

SetState(t, s) ==
    /\ state' = [state EXCEPT ![t] = s]
    /\ UNCHANGED <<portVars, mail, hintVars, timer, inside, wake, late>>

(* A thread waits on a local semaphore, which takes no process lock, and *)
(* its wait ends.                                                        *)
Park(t) == Free(t) /\ SetState(t, "parked")
Unpark(t) == state[t] = "parked" /\ SetState(t, "running")

(* A peer resumes a dormant thread, or ends a thread; a thread ends itself. *)
Resume(u, t) == Calls(u) /\ state[t] = "dormant" /\ SetState(t, "running")
Finish(u, t) ==
    /\ Calls(u)
    /\ state[t] \in {"running", "dormant", "parked"}
    /\ SetState(t, "finished")

(* The collector frees a finished thread. It does not call *)
(* release_thread_ports: the ports stay with a thread that is gone. *)
Collect(t) ==
    /\ wake = NoThread
    /\ state[t] = "finished"
    /\ state' = [state EXCEPT ![t] = "gone"]
    /\ ports' = [ports EXCEPT ![t] = << >>]
    /\ ForgetHints(t)
    /\ UNCHANGED <<owner, masked, mail, timer, inside, wake, late>>

ThreadStep(t) ==
    \/ \E p \in Ports, o \in Threads : CreatePort(t, p, o)
    \/ \E p \in Ports : ReleasePort(t, p)
    \/ \E p \in Ports, flag \in BOOLEAN : MaskPort(t, p, flag)
    \/ \E flag \in BOOLEAN : MaskAll(t, flag)
    \/ \E S \in SUBSET Ports : \E f \in [S -> BOOLEAN] : BulkSet(t, f)
    \/ \E k \in Kinds : Recv(k, t) \/ Drop(k, t) \/ Peek(k, t)
    \/ \E timeout \in BOOLEAN : GoDormant(t, timeout)
    \/ Return(t) \/ TimerFires(t) \/ Park(t) \/ Unpark(t) \/ Collect(t)
    \/ \E u \in Threads : Resume(u, t) \/ Finish(u, t)

Next ==
    \/ \E t \in Threads : ThreadStep(t)
    \/ \E k \in Kinds, p \in Ports, item \in Items : Send(k, p, item)
    \/ Wake

Spec == Init /\ [][Next]_vars

(* Every thread on the run queue gets its turn again and again: a send *)
(* completes, the clock passes a set time, a running thread returns.   *)
FairSpec ==
    /\ Spec
    /\ WF_vars(Wake)
    /\ \A t \in Threads : WF_vars(TimerFires(t)) /\ WF_vars(Return(t))
-----------------------------------------------------------------------------
TypeOK ==
    /\ owner \in [Ports -> Threads \cup {NoThread}]
    /\ masked \in [Ports -> BOOLEAN]
    /\ mail \in [Kinds -> [Ports -> Seq(Items)]]
    /\ ports \in [Threads -> Seq(Ports)]
    /\ hint \in [Kinds -> [Threads -> Ports \cup {NoPort}]]
    /\ state \in [Threads -> ThreadStates]
    /\ timer \in [Threads -> {"off", "set", "fired"}]
    /\ inside \in [Threads -> {"no", "timed", "untimed"}]
    /\ wake \in Threads \cup {NoThread}
    /\ seen \in [Kinds -> [Threads -> Items \cup {NoItem}]]
    /\ late \subseteq Ports

(* The two records of who handles a port agree while the handler lives: the *)
(* thread's list holds its ports, each once. ports.c keeps them by hand in  *)
(* create_port and in the shifting loop of release_port.                    *)
ListsMatchOwners ==
    /\ \A t \in Threads, p \in Ports :
        state[t] # "gone" => (owner[p] = t <=> p \in Elems(ports[t]))
    /\ \A t \in Threads : \A i, j \in DOMAIN ports[t] :
        ports[t][i] = ports[t][j] => i = j

(* A hint left by a peek is never stale: the port is still the thread's, it *)
(* still holds mail, and its first item is the one the peek showed. So the  *)
(* size a peek returned is the size of what the next receive delivers,      *)
(* whatever peers do to the ports in between.                               *)
HintFresh ==
    \A k \in Kinds, t \in Threads :
        LET p == hint[k][t]
        IN  p # NoPort =>
                /\ owner[p] = t
                /\ mail[k][p] # << >>
                /\ Head(mail[k][p]) = seen[k][t]

(* Nobody sleeps on mail: go_dormant and the senders between them leave no  *)
(* thread dormant beside deliverable mail, unless a wake-up is on its way   *)
(* or a peer opened the port during the sleep, which wakes nobody.          *)
NoSleepOnMail ==
    \A t \in Threads, k \in Kinds :
        state[t] = "dormant" /\ wake # t => Ready(k) \cap Elems(ports[t]) \subseteq late

(* A message leaves a port only with the port's release, or taken by its    *)
(* handler, running, while the port is open. Other ports' releases and the  *)
(* drop loops of release_port do not touch it.                              *)
MessagesStay ==
    [][\A p \in Ports :
        Len(mail'["message"][p]) < Len(mail["message"][p]) =>
            \/ owner'[p] = NoThread
            \/ ~masked[p] /\ owner[p] \in Threads /\ Free(owner[p])]_vars

(* A sleep ends. A wake-up comes: a dormant thread with mail on a port that  *)
(* nobody opened late does not stay dormant. And a sleep with a timeout      *)
(* ends: go_dormant returns, unless the thread is ended first.               *)
SleepEnds ==
    \A t \in Threads :
        /\ state[t] = "dormant" /\ (\E k \in Kinds : ~(Ready(k) \cap Elems(ports[t]) \subseteq late))
               ~> state[t] # "dormant"
        /\ state[t] = "dormant" /\ inside[t] = "timed"
               ~> inside[t] = "no" \/ state[t] \in {"finished", "gone"}

(* Releasing a port leaves what waits on the other ports alone. *)
ReleaseKeepsOthers ==
    [][\A p, q \in Ports :
        owner[p] # NoThread /\ owner'[p] = NoThread /\ q # p =>
            \A k \in Kinds : mail'[k][q] = mail[k][q]]_vars
=============================================================================
