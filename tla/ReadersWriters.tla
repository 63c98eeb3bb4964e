--------------------------- MODULE ReadersWriters ---------------------------
(***************************************************************************)
(* What rwlock.c promises its callers, and nothing of how: any number of   *)
(* readers, or one writer and no reader.                                   *)
(***************************************************************************)
CONSTANT Clients

VARIABLES reading, writing      \* the clients that hold the lock, by mode

rwvars == <<reading, writing>>

Init == reading = {} /\ writing = {}

BeginRead(c) ==
    /\ c \notin reading /\ writing = {}
    /\ reading' = reading \cup {c}
    /\ UNCHANGED writing

BeginWrite(c) ==
    /\ reading = {} /\ writing = {}
    /\ writing' = {c}
    /\ UNCHANGED reading

EndRead(c) ==
    /\ c \in reading
    /\ reading' = reading \ {c}
    /\ UNCHANGED writing

EndWrite(c) ==
    /\ c \in writing
    /\ writing' = {}
    /\ UNCHANGED reading

Next == \E c \in Clients :
            BeginRead(c) \/ BeginWrite(c) \/ EndRead(c) \/ EndWrite(c)

Spec == Init /\ [][Next]_rwvars
=============================================================================
