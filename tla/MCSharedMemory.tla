--------------------------- MODULE MCSharedMemory ---------------------------
(* Two processes that own and use each other's regions.                    *)
EXTENDS SharedMemory, TLC

CONSTANTS p1, p2

MCFlags == [r \in Regions |-> IF r = 1 THEN {"promiscuous", "immortal"} ELSE {}]
MCCreators == [r \in Regions |-> IF r = 1 THEN {p1} ELSE Procs]
MCOdd == {<<2, p2>>}
=============================================================================
