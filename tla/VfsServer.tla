------------------------------ MODULE VfsServer ------------------------------
(***************************************************************************)
(* The file server (servers/vfs_server), the drivers whose device nodes it   *)
(* knows (storage/DeviceNode.cpp) and the clients that open, read and close  *)
(* nodes (storage/File.cpp), over the calls of Messengers. The server is one *)
(* loop: a pulse, then a message; while it asks a driver it does nothing     *)
(* else. Mounts and what is on them, writes, seeks and positions are left    *)
(* out: a file here is a device node, and its data says whose it is.         *)
(***************************************************************************)
EXTENDS Messengers

CONSTANTS
    Clients,
    Drivers,
    Vfs,
    Nobody,     \* a pid that freed memory may show
    NoNode,
    NodeOf,     \* the node each driver installs
    Early,      \* bound: drivers installed before the clients begin, in order
    Mortals,    \* bound: drivers that may end
    Slots,      \* bound: File objects of a client
    Places      \* bound: places of the entity table

ASSUME ProcessesAssumption ==
    /\ Processes = Clients \cup Drivers \cup {Vfs}
    /\ Nobody \notin Processes
    /\ Vfs \notin Clients \cup Drivers /\ Clients \cap Drivers = {}
ASSUME SizesAssumption == Slots \in Nat /\ Places \in Nat
ASSUME NodesAssumption == \A d \in Drivers : NodeOf[d] # NoNode
ASSUME EarlyAssumption == Early \in Seq(Drivers)

VARIABLES
    driver,     \* each driver's thread: "new", "up", "gone"
    devices,    \* device_table: installed drivers, in their order
    entities,   \* entity_table, from the place where every probe begins
    loop,       \* where the server is: in its loop, or in which handler
    job,        \* the message it handles
    reply,      \* what it is about to answer
    files,      \* each client's File objects: the node, while _fd is not -1
    slot,       \* the File object whose call it is in, or 0
    overlapped, \* history: clients opened twice at once in the table
    stale,      \* history: clients read for through a deleted device
    misread     \* history: clients who read another node than they had opened

serverVars == <<devices, entities, loop, job, reply>>
clientVars == <<files, slot>>
history == <<overlapped, stale, misread>>
vars == <<messengerVars, driver, serverVars, clientVars, history>>

Nodes == {NodeOf[d] : d \in Drivers}
NoEntity == [pid |-> Nobody]
Minus == [what |-> "-1"]
Contents == {Minus, [what |-> "fd"], [what |-> "stat"]} \cup [what : {"data"}, node : Nodes]

Init ==
    /\ MessengersInit(Drivers \cup {Vfs})
    /\ driver = [d \in Drivers |-> IF d \in Elems(Early) THEN "up" ELSE "new"]
    /\ devices = Early
    /\ entities = [i \in 1..Places |-> NoEntity]
    /\ loop = "dormant" /\ job = Nothing /\ reply = Minus
    /\ files = [c \in Clients |-> [s \in 1..Slots |-> NoNode]]
    /\ slot = [c \in Clients |-> 0]
    /\ overlapped = {} /\ stale = {} /\ misread = {}
-----------------------------------------------------------------------------
(* FileTable::UniqueFD: the first number that a table nobody adds to does *)
(* not have. EntityTable's own getUniqueFD is never called.               *)
UniqueFD(pid) == 2

(* Faulty variant: the descriptor alone is compared. *)
MatchingAnyone(pid, fd) == {i \in 1..Places : entities[i] # NoEntity /\ entities[i].fd = fd}

(* HashTable: key % 64 is the descriptor's place, whoever the process is. *)
(* add takes the first empty place, retrieve finds the first that matches. *)
Matching(pid, fd) ==
    {i \in 1..Places : entities[i] # NoEntity /\ entities[i].pid = pid /\ entities[i].fd = fd}
Least(S) == CHOOSE i \in S : \A j \in S : i <= j
Empty == {i \in 1..Places : entities[i] = NoEntity}
Of(pid) == {i \in 1..Places : entities[i].pid = pid}

(* DeviceTable::getDevice by name: the first of that name. *)
Named(node) == {i \in DOMAIN devices : NodeOf[devices[i]] = node}

(* The process a DeviceEntity asks. A device deleted under it is memory that *)
(* may hold the old device still, another, or nobody's number.               *)
Asked(e) == IF e.device \in Elems(devices) THEN {e.device} ELSE Drivers \cup {Nobody}
-----------------------------------------------------------------------------
(* Faulty variant: every match goes. *)
ClosedAll(p) ==
    /\ entities' = [i \in 1..Places |->
            IF i \in Matching(p.from, p.body.fd) THEN NoEntity ELSE entities[i]]
    /\ UNCHANGED devices

(* PulseReceived. *)
Closed(p) ==
    LET S == Matching(p.from, p.body.fd)
    IN  /\ entities' = IF S = {} THEN entities ELSE [entities EXCEPT ![Least(S)] = NoEntity]
        /\ UNCHANGED devices
Installed(pid) == {i \in DOMAIN devices : devices[i] = pid}
Without(s, i) == SubSeq(s, 1, i - 1) \o SubSeq(s, i + 1, Len(s))
Uninstalled(p) ==
    LET S == Installed(p.from)
    IN  /\ devices' = IF S = {} THEN devices ELSE Without(devices, Least(S))
        /\ UNCHANGED entities

(* A round of Application::Run: once something waits, a pulse if there is *)
(* one, then a message if there is one.                                   *)
TakePulse ==
    /\ loop = "dormant"
    /\ pulses[Vfs] # << >> \/ box[Vfs] # << >>
    /\ loop' = "message"
    /\ \/ /\ pulses[Vfs] # << >>
          /\ LET p == Head(pulses[Vfs])
             IN  \/ p.body.what = "CLOSE" /\ Closed(p)
                 \/ p.body.what = "UNINSTALL" /\ Uninstalled(p)
          /\ pulses' = [pulses EXCEPT ![Vfs] = Tail(@)]
       \/ pulses[Vfs] = << >> /\ UNCHANGED <<pulses, devices, entities>>
    /\ UNCHANGED <<callVars, served, box, answers, lost, driver, job, reply, clientVars, history>>

NoMessage ==
    /\ loop = "message" /\ box[Vfs] = << >>
    /\ loop' = "dormant"
    /\ UNCHANGED <<messengerVars, driver, devices, entities, job, reply, clientVars, history>>

(* MessageReceived gets message m; the handler answers it with body. *)
Receives(what, m) ==
    /\ loop = "message" /\ box[Vfs] # << >>
    /\ m = Head(box[Vfs]) /\ m.body.what = what
    /\ box' = [box EXCEPT ![Vfs] = Tail(@)]
    /\ job' = m
Done == loop' = "dormant" /\ job' = Nothing
Replies(body) == loop' = "reply" /\ reply' = body

(* installDevice. What the last line of MessageReceived sends back finds    *)
(* the driver's port released.                                              *)
InstallDevice ==
    /\ loop = "message" /\ box[Vfs] # << >>
    /\ Head(box[Vfs]).body.what = "INSTALL"
    /\ devices' = Append(devices, Head(box[Vfs]).from)
    /\ box' = [box EXCEPT ![Vfs] = Tail(@)]
    /\ loop' = "dormant"
    /\ UNCHANGED <<callVars, served, pulses, answers, lost, driver, entities, job, reply, clientVars, history>>

(* openFile, open_device. *)
OpenFile ==
    /\ \E m \in Elems(box[Vfs]) :
        /\ Receives("OPEN", m)
        /\ Empty # {}
        /\ IF Named(m.body.node) = {}
           THEN Replies(Minus) /\ UNCHANGED <<entities, overlapped>>
           ELSE /\ entities' = [entities EXCEPT ![Least(Empty)] =
                        [pid |-> m.from, fd |-> UniqueFD(m.from),
                         device |-> devices[Least(Named(m.body.node))]]]
                /\ overlapped' = IF Of(m.from) = {} THEN overlapped ELSE overlapped \cup {m.from}
                /\ Replies([what |-> "fd"])
    /\ UNCHANGED <<callVars, served, pulses, answers, lost, driver, devices, clientVars, stale, misread>>

(* readFile; DeviceEntity::Read asks the driver, in a step of its own. *)
ReadFile ==
    /\ \E m \in Elems(box[Vfs]) :
        /\ Receives("READ", m)
        /\ IF Matching(m.from, m.body.fd) = {}
           THEN Replies(Minus)
           ELSE loop' = "read" /\ UNCHANGED reply
    /\ UNCHANGED <<callVars, served, pulses, answers, lost, driver, devices, entities, clientVars, history>>

Entity == entities[Least(Matching(job.from, job.body.fd))]
AskDevice(what) ==
    /\ \E d \in Asked(Entity) : Ask(Vfs, d, [what |-> what])
    /\ stale' = IF Entity.device \in Elems(devices) THEN stale ELSE stale \cup {job.from}
    /\ UNCHANGED <<driver, devices, entities, job, reply, clientVars, overlapped, misread>>

AskData == loop = "read" /\ AskDevice("READ") /\ loop' = "reading"

(* With data the position moves on, and Seek asks for the size first. *)
DataComes ==
    /\ loop = "reading"
    /\ \/ \E body \in Contents :
            /\ Answered(Vfs, body)
            /\ IF body.what = "data" THEN loop' = "seek" /\ reply' = body ELSE Replies(Minus)
       \/ Unanswered(Vfs) /\ Replies(Minus)
    /\ UNCHANGED <<driver, devices, entities, job, clientVars, history>>

AskSize == loop = "seek" /\ AskDevice("STAT") /\ loop' = "seeking"

(* Whatever Stat brings, the data are the answer. *)
SizeComes ==
    /\ loop = "seeking"
    /\ (\E body \in Contents : Answered(Vfs, body)) \/ Unanswered(Vfs)
    /\ loop' = "reply"
    /\ UNCHANGED <<driver, devices, entities, job, reply, clientVars, history>>

(* Faulty variant: a reply sent is not noted in the message. *)
ReplyUnnoted ==
    /\ loop = "reply"
    /\ SendReply(job, reply)
    /\ reply' = Minus
    /\ loop' = "again"
    /\ UNCHANGED <<job, callVars, boxVars, driver, devices, entities, clientVars, history>>

(* Message::SendReply; a reply that did not reach its client is followed by *)
(* the last line of MessageReceived, which sends -1, unless it came to the   *)
(* port that the client has for as long as it takes to send a pulse.         *)
Reply ==
    /\ loop = "reply"
    /\ SendReply(job, reply)
    /\ reply' = Minus
    /\ \/ Done
       \/ ~Reaches(job) /\ loop' = "again" /\ UNCHANGED job
    /\ UNCHANGED <<callVars, boxVars, driver, devices, entities, clientVars, history>>

ReplyAgain ==
    /\ loop = "again"
    /\ SendReply(job, reply)
    /\ Done
    /\ UNCHANGED <<callVars, boxVars, driver, devices, entities, reply, clientVars, history>>

Server ==
    \/ TakePulse \/ NoMessage \/ InstallDevice \/ OpenFile \/ ReadFile
    \/ AskData \/ DataComes \/ AskSize \/ SizeComes \/ Reply \/ ReplyAgain
-----------------------------------------------------------------------------
(* DeviceNode::Run: Install, *)
Install(d) ==
    /\ driver[d] = "new"
    /\ driver' = [driver EXCEPT ![d] = "up"]
    /\ box' = [box EXCEPT ![Vfs] =
            Append(@, [from |-> d, no |-> 0, to |-> Vfs, body |-> [what |-> "INSTALL"]])]
    /\ UNCHANGED <<callVars, served, pulses, answers, lost, serverVars, clientVars, history>>

(* the loop with its MessageReceived, *)
Serve(d) ==
    /\ driver[d] = "up"
    /\ box[d] # << >>
    /\ box' = [box EXCEPT ![d] = Tail(@)]
    /\ LET m == Head(box[d])
       IN  \/ m.body.what = "READ" /\ SendReply(m, [what |-> "data", node |-> NodeOf[d]])
           \/ m.body.what = "READ" /\ SendReply(m, Minus)
           \/ m.body.what = "STAT" /\ SendReply(m, [what |-> "stat"])
    /\ UNCHANGED <<callVars, served, pulses, lost, driver, serverVars, clientVars, history>>

(* and, told to quit, Uninstall and the release of its port. *)
Uninstall(d) ==
    /\ driver[d] = "up" /\ d \in Mortals
    /\ driver' = [driver EXCEPT ![d] = "gone"]
    /\ Post(d, Vfs, [what |-> "UNINSTALL"])
    /\ UNCHANGED <<serverVars, clientVars, history>>

Release(d) ==
    /\ driver[d] = "gone" /\ d \in served
    /\ served' = served \ {d}
    /\ box' = [box EXCEPT ![d] = << >>]
    /\ UNCHANGED <<callVars, pulses, answers, lost, driver, serverVars, clientVars, history>>
-----------------------------------------------------------------------------
(* File::Open. Who uses a File opens it when it is not open. *)
Open(c, s, n) ==
    /\ files[c][s] = NoNode
    /\ Ask(c, Vfs, [what |-> "OPEN", node |-> n])
    /\ slot' = [slot EXCEPT ![c] = s]
    /\ UNCHANGED <<driver, serverVars, files, history>>

Opened(c) ==
    /\ ~Idle(c) /\ ask[c].body.what = "OPEN"
    /\ \/ \E body \in Contents :
            /\ Answered(c, body)
            /\ files' = IF body.what = "fd"
                        THEN [files EXCEPT ![c][slot[c]] = ask[c].body.node] ELSE files
       \/ Unanswered(c) /\ UNCHANGED files
    /\ slot' = [slot EXCEPT ![c] = 0]
    /\ UNCHANGED <<driver, serverVars, history>>

(* File::Read *)
Read(c, s) ==
    /\ files[c][s] # NoNode
    /\ Ask(c, Vfs, [what |-> "READ", fd |-> UniqueFD(c)])
    /\ slot' = [slot EXCEPT ![c] = s]
    /\ UNCHANGED <<driver, serverVars, files, history>>

HasRead(c) ==
    /\ ~Idle(c) /\ ask[c].body.what = "READ"
    /\ \/ \E body \in Contents :
            /\ Answered(c, body)
            /\ misread' = IF body.what = "data" /\ body.node # files[c][slot[c]]
                          THEN misread \cup {c} ELSE misread
       \/ Unanswered(c) /\ UNCHANGED misread
    /\ slot' = [slot EXCEPT ![c] = 0]
    /\ UNCHANGED <<driver, serverVars, files, overlapped, stale>>

(* File::Close *)
Close(c, s) ==
    /\ files[c][s] # NoNode
    /\ Post(c, Vfs, [what |-> "CLOSE", fd |-> UniqueFD(c)])
    /\ files' = [files EXCEPT ![c][s] = NoNode]
    /\ UNCHANGED <<driver, serverVars, slot, history>>

Client(c) ==
    \/ \E s \in 1..Slots, n \in Nodes : Open(c, s, n)
    \/ \E s \in 1..Slots : Read(c, s) \/ Close(c, s)
    \/ Opened(c) \/ HasRead(c)

Next ==
    \/ Server
    \/ \E c \in Clients : Client(c)
    \/ \E d \in Drivers : Install(d) \/ Serve(d) \/ Uninstall(d) \/ Release(d)

Spec == Init /\ [][Next]_vars

-----------------------------------------------------------------------------
(* A client reads the node it has opened, and no other. What it takes to go *)
(* wrong: two entities of its at once in the table, which then share the     *)
(* one descriptor there is; its driver's end, whose device it still uses; or *)
(* a late answer, to itself or to the server.                                *)
ReadsOpened ==
    \A c \in misread :
        \/ c \in overlapped
        \/ c \in stale
        \/ \E g \in gaveUp : g[1] \in {c, Vfs}

(* The server's entities are the clients' open files and those whose CLOSE  *)
(* waits: none leaks and none is closed twice. For that no CLOSE may have    *)
(* been dropped by a call of the server's, and no call of the client's have  *)
(* run out of time.                                                          *)
Closing(c) == {i \in DOMAIN pulses[Vfs] : pulses[Vfs][i].from = c}
EntitiesAccounted ==
    \A c \in Clients :
        Idle(c) /\ (\A g \in gaveUp : g[1] # c) /\ (\A p \in lost : p.from # c) =>
            Cardinality(Of(c)) = Cardinality({s \in 1..Slots : files[c][s] # NoNode})
                                 + Cardinality(Closing(c))
=============================================================================
