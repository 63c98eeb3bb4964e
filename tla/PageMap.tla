------------------------------ MODULE PageMap -------------------------------
(* The machine's memory as the allocators of physical pages find it.        *)
EXTENDS Naturals

CONSTANTS
    TotalPages,     \* MAXMAP, memory_totalPages
    Low,            \* the first megabyte: so many pages from page 0
    Kernel,         \* the pages of the kernel's image
    Module,         \* the pages of a boot module, released after it is loaded
    MaxRequest,     \* bound: pages of a request
    MaxCount        \* bound: the count of free pages

Pages == 0..(TotalPages - 1)

ASSUME PagesAssumption ==
    /\ TotalPages \in Nat \ {0} /\ MaxRequest \in Nat \ {0} /\ MaxCount \in Nat
    /\ Low \in 2..TotalPages
    /\ Kernel # {} /\ Kernel \subseteq Pages /\ Module \subseteq Pages
    /\ Kernel \cap Module = {} /\ (Kernel \cup Module) \cap 0..(Low - 1) = {}
=============================================================================
