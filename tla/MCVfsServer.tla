---------------------------- MODULE MCVfsServer ----------------------------
(* Two clients and two drivers with a node each. *)
EXTENDS VfsServer, TLC

CONSTANTS c1, c2, d1, d2, n1, n2

MCProcesses == {c1, c2, d1, d2, Vfs}
MCNodeOf == d1 :> n1 @@ d2 :> n2
MCEarly == <<d2>>
MCMaxAsks == c1 :> 3 @@ c2 :> 2 @@ Vfs :> 8 @@ d1 :> 0 @@ d2 :> 0

(* The requests of either client, the calls that may end unanswered and the *)
(* File objects of a client that a behaviour may have.                      *)
Scenarios == {<<3,1,0,1>>, <<2,2,0,1>>, <<2,1,1,1>>, <<3,0,2,2>>}

Within == \E s \in Scenarios :
    /\ asks[c1] <= s[1] /\ asks[c2] <= s[2]
    /\ Cardinality(gaveUp) <= s[3]
    /\ \A c \in Clients :
        slot[c] <= s[4] /\ \A f \in 1..Slots : f > s[4] => files[c][f] = NoNode
=============================================================================
