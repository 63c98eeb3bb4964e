----------------------------- MODULE Messengers -----------------------------
(***************************************************************************)
(* How the processes of the C++ library call each other: SendReceiveMessage, *)
(* SendMessage and SendPulse (libraries/spoon/ipc/Messenger.cpp) and         *)
(* Message::SendReply. Every process here calls from one thread, so that     *)
(* smk_new_port always finds it the same number: its temporary port is open  *)
(* or not, and an answer to one call finds the port of the next.             *)
(*                                                                          *)
(* A call is two steps, the request and the return. Until the request is     *)
(* sent only the port's opening shows outside; an answer that comes between  *)
(* the opening and the drop is lost like one that comes before, and one that *)
(* comes after the drop stays like one that comes after the request. A port  *)
(* that holds what nobody takes any more is as good as a released one.       *)
(***************************************************************************)
EXTENDS Naturals, Sequences, FiniteSets

CONSTANTS
    Processes,
    MaxAsks,    \* bound: requests of each process
    MaxGiveUps  \* bound: requests that time out

ASSUME BoundsAssumption == MaxAsks \in [Processes -> Nat] /\ MaxGiveUps \in Nat

VARIABLES
    served,     \* processes whose own port is open
    box,        \* the messages waiting on that port
    pulses,     \* the pulses waiting on that port
    answers,    \* the messages waiting on the temporary port
    ask,        \* the request a process waits for an answer to, or Nothing
    sent,       \* whether that request found its port
    asks,       \* requests each process has made
    gaveUp,     \* history: requests that timed out
    lost        \* history: pulses that a call dropped

callVars == <<ask, sent, asks, gaveUp>>
boxVars == <<served, box, pulses, lost>>
messengerVars == <<callVars, boxVars, answers>>

Nothing == [from |-> "nobody"]
Elems(s) == {s[i] : i \in DOMAIN s}
Idle(p) == ask[p] = Nothing

MessengersInit(open) ==
    /\ served = open
    /\ box = [p \in Processes |-> << >>]
    /\ pulses = [p \in Processes |-> << >>]
    /\ answers = [p \in Processes |-> << >>]
    /\ ask = [p \in Processes |-> Nothing]
    /\ sent = [p \in Processes |-> FALSE]
    /\ asks = [p \in Processes |-> 0]
    /\ gaveUp = {}
    /\ lost = {}
-----------------------------------------------------------------------------
(* SendReceiveMessage up to WaitOnReply. The temporary port is made, the     *)
(* others are masked, and what waits is dropped: the masks hold for messages *)
(* and not for pulses (pulse.c:373), so the pulses on the process's own port *)
(* go. Then the request, which may find no port. "no" names it in the model: *)
(* the code's messages have no number.                                       *)
Ask(p, to, body) ==
    /\ Idle(p)
    /\ asks[p] < MaxAsks[p]
    /\ LET request == [from |-> p, no |-> asks[p] + 1, to |-> to, body |-> body]
       IN  /\ ask' = [ask EXCEPT ![p] = request]
           /\ box' = IF to \in served THEN [box EXCEPT ![to] = Append(@, request)] ELSE box
    /\ asks' = [asks EXCEPT ![p] = @ + 1]
    /\ sent' = [sent EXCEPT ![p] = to \in served]
    /\ lost' = lost \cup Elems(pulses[p])
    /\ pulses' = [pulses EXCEPT ![p] = << >>]
    /\ answers' = [answers EXCEPT ![p] = << >>]
    /\ UNCHANGED <<gaveUp, served>>

(* WaitOnReply has the first message on the port for the answer, or none:   *)
(* the request was refused, or the time is over, even if an answer came      *)
(* since. Then the masks come back and the port is released with what is     *)
(* left on it.                                                               *)
Leave(p) ==
    /\ ask' = [ask EXCEPT ![p] = Nothing]
    /\ sent' = [sent EXCEPT ![p] = FALSE]
    /\ answers' = [answers EXCEPT ![p] = << >>]
    /\ UNCHANGED <<asks, boxVars>>

Answered(p, body) ==
    /\ ~Idle(p) /\ sent[p]
    /\ answers[p] # << >>
    /\ body = Head(answers[p]).body
    /\ Leave(p)
    /\ UNCHANGED gaveUp

Unanswered(p) ==
    /\ ~Idle(p)
    /\ \/ ~sent[p] /\ UNCHANGED gaveUp
       \/ /\ sent[p]
          /\ Cardinality(gaveUp) < MaxGiveUps
          /\ gaveUp' = gaveUp \cup {<<p, ask[p].no>>}
    /\ Leave(p)

(* SendPulse, whose temporary port nobody answers to. *)
Post(p, to, body) ==
    /\ Idle(p)
    /\ pulses' = IF to \in served
                 THEN [pulses EXCEPT ![to] = Append(@, [from |-> p, body |-> body])] ELSE pulses
    /\ UNCHANGED <<callVars, answers, served, box, lost>>

(* Message::SendReply: SendMessage is refused where the port is closed. *)
Reaches(request) == ~Idle(request.from)
SendReply(request, body) ==
    answers' = IF Reaches(request)
               THEN [answers EXCEPT ![request.from] =
                        Append(@, [to |-> request.from, no |-> request.no, body |-> body])]
               ELSE answers
-----------------------------------------------------------------------------
(* What a call is about to take for its answer is an answer of its own, or  *)
(* one to an earlier request of the same process, and then the process has   *)
(* given up that one or one before it: a late answer is taken by the next    *)
(* call, whose own answer is late for the call after, and so on.             *)
AnswersMine ==
    \A p \in Processes :
        ~Idle(p) /\ sent[p] /\ answers[p] # << >> =>
            LET a == Head(answers[p])
            IN  /\ a.to = p
                /\ \/ a.no = ask[p].no
                   \/ a.no < ask[p].no /\ \E k \in 1..a.no : <<p, k>> \in gaveUp
=============================================================================
