----------------------------- MODULE PulseSlots -----------------------------
(* The pages of a port's pulse queue. *)
EXTENDS Naturals

CONSTANTS
    Items,      \* pulses
    SlotCount,  \* slots of a page: PULSE_PAGES * PAGE_SIZE / sizeof( struct pulse )
    MaxPages,   \* bound: pages of the chain
    Junk        \* what malloc leaves in a slot

ASSUME SlotCountAssumption == SlotCount \in Nat /\ SlotCount > 2
ASSUME MaxPagesAssumption == MaxPages \in Nat \ {0}
ASSUME JunkAssumption == Junk \notin Items
=============================================================================
