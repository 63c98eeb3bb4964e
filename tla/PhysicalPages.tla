--------------------------- MODULE PhysicalPages ---------------------------
(***************************************************************************)
(* The allocator of physical pages in both kernels (kernel/physmem.c,       *)
(* old_kernel/memory.c): a bitmap that is scanned from the last place on,   *)
(* and a count of free pages that a request is tested against first. Every  *)
(* call runs in a critical section, or before there is a second thread.     *)
(***************************************************************************)
EXTENDS PageMap, Integers, FiniteSets

VARIABLES
    smp,        \* which kernel's: the rewrite, or the old one
    used,       \* the set bits of memory_bitmap
    freePages,  \* s_freePages, memory_freePages
    lastPage,   \* s_lastPage, memory_lastPage
    granted     \* history: what the last call granted

pageVars == <<smp, used, freePages, lastPage, granted>>

Free == Pages \ used
Kept == 0..(Low - 1) \cup Kernel
Run(a, n) == a..(a + n - 1)

(* SET is two statements, of which the rewrite's loops without braces repeat *)
(* the first only: at boot, for the first megabyte and for the kernel.       *)
PagesInit ==
    /\ smp \in BOOLEAN
    /\ used = Kept \cup Module
    /\ freePages = IF smp THEN TotalPages - 2 - Cardinality(Module) ELSE Cardinality(Free)
    /\ lastPage = 0
    /\ granted = {}

(* Faulty variants: one page more is skipped; the last page of the run is   *)
(* not looked at.                                                           *)
AfterTailTooFar(i, n) == i + n
UsedAtButLast(pos, n) == {j \in 0..(n - 2) : pos + j \in used}

(* memory_multiple_alloc: where the scan goes on behind the end of the map, *)
(* where behind a page in use, *)
AfterTail(i, n) == i + n - 1
AfterUsed(i, j) == i + j + 1

(* and the pages in use it finds in a run. *)
UsedAt(pos, n) == {j \in 0..(n - 1) : pos + j \in used}
FirstUsed(pos, n) == CHOOSE j \in UsedAt(pos, n) : \A k \in UsedAt(pos, n) : j <= k

(* A round of its loop: the place of the run that is found from i on, by a  *)
(* scan that knows this for later rounds; -1 is none.                       *)
Rounds == 0..(TotalPages + MaxRequest)
Look(scan, n, i) ==
    LET pos == (i + lastPage) % TotalPages IN
    IF i >= TotalPages THEN -1
    ELSE IF pos + n > TotalPages THEN scan[AfterTail(i, n)]
    ELSE IF UsedAt(pos, n) = {} THEN pos
    ELSE scan[AfterUsed(i, FirstUsed(pos, n))]
Found(n) == LET scan[i \in Rounds] == Look(scan, n, i) IN scan
Scan(n) == Found(n)[0]

(* memory_alloc: enough memory? *)
Enough(n) == IF smp THEN freePages > n ELSE freePages >= n

(* memory_alloc. In the rewrite it lowers the count once for all its pages. *)
Alloc(n) ==
    /\ Enough(n) /\ Scan(n) # -1
    /\ granted' = Run(Scan(n), n)
    /\ used' = used \cup granted'
    /\ lastPage' = Scan(n) + n
    /\ freePages' = IF smp THEN freePages - 1 ELSE freePages - n
    /\ UNCHANGED smp

(* memory_free, and internal_reserve and memory_internalSet for the pages   *)
(* of a loaded module: page by page.                                        *)
GiveBack(a, n) ==
    /\ Run(a, n) \subseteq used \ Kept
    /\ freePages + n <= MaxCount
    /\ used' = used \ Run(a, n)
    /\ granted' = {}
    /\ freePages' = freePages + n
    /\ UNCHANGED <<smp, lastPage>>

PagesNext ==
    \E n \in 1..MaxRequest : Alloc(n) \/ \E a \in Pages : GiveBack(a, n)

PagesSpec == PagesInit /\ [][PagesNext]_pageVars
-----------------------------------------------------------------------------
(* A request is refused only where no such run is free: the scan starts     *)
(* anywhere and leaves out pages behind the end of the map, but no more     *)
(* than lie in the first megabyte, and the count, which in the rewrite is   *)
(* not that of the free pages, never stands in the way. Of longer requests  *)
(* this is not so.                                                          *)
RequestsFound ==
    \A n \in 1..MaxRequest :
        n <= Low + 2 /\ (\E a \in Pages : Run(a, n) \subseteq Free) => Enough(n) /\ Scan(n) # -1

FR == INSTANCE Frames WITH held <- used

(* No physical page has two owners; and requests are refused only where     *)
(* nothing is free, up to a size.                                           *)
PagesImplement == FR!Spec /\ []RequestsFound
=============================================================================
