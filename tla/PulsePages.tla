----------------------------- MODULE PulsePages -----------------------------
(***************************************************************************)
(* The pulse queue of one port (old_kernel/pulse.c): a chain of pages of    *)
(* SlotCount slots. Slot 0 of a page is its header: where its first pulse   *)
(* lies (data4), how many pulses it holds (data1) and the next page.        *)
(***************************************************************************)
EXTENDS PulseSlots, SequencesExt

VARIABLES
    pages,      \* the chain that starts at ipc[p].pulses
    last        \* the place in it of ipc[p].last_pulses; 0 is NULL

pulseVars == <<pages, last>>

NewPage == [first |-> 1, count |-> 0, slots |-> [i \in 1..(SlotCount - 1) |-> Junk]]

PulsesInit == pages = << >> /\ last = 0

(* Faulty variant: the newest pulse goes first. *)
ConsumeNewest(page) == [page EXCEPT !.count = @ - 1]

IsFull(page) == page.first + page.count = SlotCount

(* send_pulse: the last page, or a new one where there is none or no room. *)
Store(page, x) == [page EXCEPT !.slots[page.first + page.count] = x, !.count = @ + 1]

Send(x) ==
    IF last = 0
    THEN /\ pages' = <<Store(NewPage, x)>>
         /\ last' = 1
    ELSE IF IsFull(pages[last])
    THEN /\ Len(pages) < MaxPages
         /\ pages' = SubSeq(pages, 1, last) \o <<Store(NewPage, x)>>
         /\ last' = last + 1
    ELSE /\ pages' = [pages EXCEPT ![last] = Store(@, x)]
         /\ UNCHANGED last

(* One pulse less on a page; a page that runs empty starts over. *)
Consume(page) ==
    LET left == [page EXCEPT !.count = @ - 1, !.first = @ + 1]
    IN  IF left.count = 0 /\ left.first # SlotCount THEN [left EXCEPT !.first = 1] ELSE left

(* last_pulses after the first page is freed. *)
LastAfterFree(rest) == IF rest = << >> THEN 0 ELSE last - 1

(* receive_pulse, drop_pulse: from the first page, which is freed once every *)
(* slot of it has been used.                                                 *)
Receive ==
    /\ pages # << >>
    /\ Head(pages).count # 0
    /\ LET page == Consume(Head(pages))
       IN  IF page.first = SlotCount
           THEN pages' = Tail(pages) /\ last' = LastAfterFree(Tail(pages))
           ELSE pages' = <<page>> \o Tail(pages) /\ UNCHANGED last

PulsesNext == Receive \/ \E x \in Items : Send(x)

PulsesSpec == PulsesInit /\ [][PulsesNext]_pulseVars
-----------------------------------------------------------------------------
(* Receivers look at the first page only and senders at the last only. That *)
(* finds every pulse because all pages but the last are filled to the end   *)
(* and not yet empty, and last_pulses is the end of the chain; so the pulses *)
(* that pulses_waiting counts are in reach, and go_dormant, which refuses to *)
(* sleep while there are some, never spins on one that nobody can take.     *)
ChainSound ==
    /\ last = Len(pages)
    /\ \A i \in 1..(Len(pages) - 1) : IsFull(pages[i]) /\ pages[i].count > 0

(* The pulses of the chain, oldest first. *)
Contents ==
    FlattenSeq([i \in DOMAIN pages |->
        SubSeq(pages[i].slots, pages[i].first, pages[i].first + pages[i].count - 1)])

QU == INSTANCE Fifo WITH queue <- Contents

(* The chain of pages is a first-in first-out queue. *)
PulsesImplement == QU!Spec
=============================================================================
