-------------------------------- MODULE Pmm --------------------------------
(***************************************************************************)
(* The physical page allocator, src/mm/pmm.c, from the memory map the boot *)
(* code bridges (src/boot/limine_boot.c) to the next-fit search over the   *)
(* bitmap.  Clients are represented by the pages they hold: they return    *)
(* only pages they were given, in runs of any length.                      *)
(*                                                                         *)
(* A memory map entry has a base and a length in units of which PageSize   *)
(* make a page.  The boot loader reports usable memory in whole pages.     *)
(***************************************************************************)
EXTENDS Integers, Sequences, FiniteSets

CONSTANTS
    MaxPages,     \* PMM_MAX_PAGES
    PageSize,     \* PMM_PAGE_SIZE
    MaxEntries,   \* how many entries bridge_memmap() copies at most
    MemoryMaps,   \* the boot loader's memory maps to consider
    MaxRun        \* bound of the model: the longest run a client asks for

MemoryType == {"USABLE", "EXECUTABLE_AND_MODULES", "RESERVED"}
MemoryMapType == Seq([base : Nat, len : Nat, type : MemoryType])

ASSUME MaxPagesAssumption == MaxPages \in Nat \ {0}
ASSUME PageSizeAssumption == PageSize \in Nat \ {0}
ASSUME MaxEntriesAssumption == MaxEntries \in Nat
ASSUME MemoryMapsAssumption == MemoryMaps \subseteq MemoryMapType
ASSUME MaxRunAssumption == MaxRun \in Nat

VARIABLES
    map,          \* the boot loader's memory map
    pos,          \* how many entries pmm_init() has gone through
    ready,        \* pmm_init() has returned
    used,         \* the pages whose bit in pmm_bitmap is set
    highest,      \* pmm_highest_page
    freeCount,    \* pmm_free_count
    hint,         \* pmm_last_hint
    held          \* the pages clients hold

vars == <<map, pos, ready, used, highest, freeCount, hint, held>>

Page == 0 .. MaxPages - 1
Run(first, n) == first .. first + n - 1

-----------------------------------------------------------------------------
(* The memory map as pmm_init() reads it. *)

Smaller(a, b) == IF a < b THEN a ELSE b

\* Limine's type as a multiboot type; 1 is usable.
cvt_memmap_type(t) == IF t \in {"USABLE", "EXECUTABLE_AND_MODULES"} THEN 1 ELSE 2

\* The number of entries bridge_memmap() leaves for pmm_init().
BridgedEntries == Smaller(Len(map), MaxEntries)

\* The pages mark_region() goes through: rounded outwards, inside the bitmap.
Covered(e) ==
    {p \in Page : /\ e.len > 0
                  /\ e.base \div PageSize <= p
                  /\ p < (e.base + e.len + PageSize - 1) \div PageSize}

\* The pages pmm_init() frees, going by the first n entries of the map.
FreedBy(n) ==
    {p \in Page : \E i \in 1 .. n :
        cvt_memmap_type(map[i].type) = 1 /\ p \in Covered(map[i])}

\* The pages that can be handed out: all of them but the NULL guard.
Pool == FreedBy(BridgedEntries) \ {0}

-----------------------------------------------------------------------------
(* Boot. *)

\* The static state pmm_init() starts from.
Init ==
    /\ map \in MemoryMaps
    /\ pos = 0
    /\ ready = FALSE
    /\ used = Page
    /\ highest = 0
    /\ freeCount = 0
    /\ hint = 0
    /\ held = {}

\* mark_region(..., 0 /* free */)
mark_free(pages) ==
    /\ used' = used \ pages
    /\ freeCount' = freeCount + Cardinality(used \cap pages)

\* One turn of the loop of pmm_init().
init_entry ==
    /\ ~ready
    /\ pos < BridgedEntries
    /\ pos' = pos + 1
    /\ LET e == map[pos + 1]
           top == (e.base + e.len) \div PageSize
       IN  IF cvt_memmap_type(e.type) = 1
           THEN /\ mark_free(Covered(e))
                /\ highest' = IF top > highest THEN top ELSE highest
           ELSE UNCHANGED <<used, freeCount, highest>>
    /\ UNCHANGED <<map, ready, hint, held>>

\* Faulty variant: page 0 is not guarded.
TakeGuardPage_Forgotten == UNCHANGED <<used, freeCount>>

\* Faulty variant: page 0 is counted even when it was reserved already.
TakeGuardPage_AlwaysCount ==
    /\ used' = used \cup {0}
    /\ freeCount' = freeCount - 1

\* Never hand out physical page 0: mark_region(0, PMM_PAGE_SIZE, 1 /* used */)
TakeGuardPage ==
    /\ used' = used \cup {0}
    /\ freeCount' = freeCount - Cardinality({0} \ used)

\* Faulty variant: the page count is not capped.
Capped_Not(n) == n

Capped(n) == Smaller(n, MaxPages)

\* The end of pmm_init().
init_done ==
    /\ ~ready
    /\ pos = BridgedEntries
    /\ ready' = TRUE
    /\ highest' = Capped(highest)
    /\ TakeGuardPage
    /\ UNCHANGED <<map, pos, hint, held>>

-----------------------------------------------------------------------------
(* The search. *)

\* Pages first .. first + n - 1 are free and lie in lo .. hi - 1.
FreeRun(lo, hi, n, first) ==
    /\ lo <= first /\ first + n <= hi
    /\ Run(first, n) \cap used = {}

\* The scan of one pass over lo .. hi - 1 stops at this run.
FirstRun(lo, hi, n, first) ==
    /\ FreeRun(lo, hi, n, first)
    /\ \A f \in Page : FreeRun(lo, hi, n, f) => first <= f

\* Faulty variant: the run counter is not reset by a used page.
Finds_NoReset(n, first) ==
    /\ first \in Page /\ first + n <= highest
    /\ first \notin used

\* Faulty variant: the second pass is missing.
Finds_OnePass(n, first) == FirstRun(hint, highest, n, first)

\* pmm_alloc_pages(n) finds the run at page first: pass 0 goes from the hint
\* to the end, pass 1 from the start to the hint.
Finds(n, first) ==
    \/ FirstRun(hint, highest, n, first)
    \/ /\ \A f \in Page : ~FreeRun(hint, highest, n, f)
       /\ FirstRun(0, hint, n, first)

HintAfterAlloc(first, n) == first + n

\* pmm_alloc_pages(n).  A search that finds nothing returns 0 and changes
\* nothing.
pmm_alloc_pages(n, first) ==
    /\ ready
    /\ highest # 0
    /\ Finds(n, first)
    /\ used' = used \cup Run(first, n)
    /\ freeCount' = freeCount - n
    /\ hint' = HintAfterAlloc(first, n)
    /\ held' = held \cup Run(first, n)
    /\ UNCHANGED <<map, pos, ready, highest>>

\* Faulty variant: one page more than asked for is freed.
FreedPages_OneMore(first, n) == {p \in first .. first + n : p < highest}

\* The pages pmm_free_pages() visits before it leaves the tracked range.
FreedPages(first, n) == {p \in Run(first, n) : p < highest}

\* pmm_free_pages(first * PMM_PAGE_SIZE, n), by a client that holds the pages.
pmm_free_pages(n, first) ==
    /\ ready
    /\ Run(first, n) \subseteq held
    /\ used' = used \ FreedPages(first, n)
    /\ freeCount' = freeCount + Cardinality(used \cap FreedPages(first, n))
    /\ hint' = IF first < hint THEN first ELSE hint
    /\ held' = held \ Run(first, n)
    /\ UNCHANGED <<map, pos, ready, highest>>

Boot == init_entry \/ init_done
Alloc == \E n \in 1 .. MaxRun, first \in Page : pmm_alloc_pages(n, first)
Free == \E n \in 1 .. MaxRun, first \in Page : pmm_free_pages(n, first)

Next == Boot \/ Alloc \/ Free

Spec == Init /\ [][Next]_vars

\* The kernel as it is today: the heap asks for pages and never returns them.
AllocOnlySpec == Init /\ [][Boot \/ Alloc]_vars

-----------------------------------------------------------------------------
(* Properties. *)

\* The types of the variables.
TypeOK ==
    /\ map \in MemoryMapType
    /\ pos \in 0 .. BridgedEntries
    /\ ready \in BOOLEAN
    /\ used \subseteq Page
    /\ highest \in Nat
    /\ freeCount \in Nat
    /\ hint \in Nat
    /\ held \subseteq Page

\* Once booted, a page is free in the bitmap exactly when it is in the pool
\* and no client holds it; what clients hold is in the pool, so it is neither
\* page 0 nor outside the regions reported usable.
BitmapExact ==
    ready => held \subseteq Pool /\ used = Page \ (Pool \ held)

\* pmm_free_count, kept by increments and decrements, is the number of clear
\* bits; in particular it never wraps below zero.
FreeCountExact == freeCount = Cardinality(Page \ used)

\* The hint stays inside the tracked pages, so pass 1 never looks beyond them.
HintInRange == ready => hint <= highest /\ highest <= MaxPages

\* pmm_used_page_count(), the difference of two counters kept separately, is
\* the number of tracked pages that are in use.
UsedCountExact ==
    ready => highest - freeCount = Cardinality({p \in used : p < highest})

\* Both counters tell the truth about the bitmap.
CountersExact == TypeOK /\ FreeCountExact /\ UsedCountExact

\* A request for n pages succeeds whenever the tracked pages contain a run of
\* n free ones.
Complete(n) ==
    ready /\ (\E f \in Page : FreeRun(0, highest, n, f)) => \E f \in Page : Finds(n, f)

\* A run that neither pass sees as a whole.
Straddles(n, f) == f < hint /\ hint < f + n

\* pmm_alloc_pages() fails only when every free run of that length lies across the
\* hint; pmm_alloc_page(), therefore, only when no page is free.
MissesOnlyStraddling ==
    \A n \in 1 .. MaxRun :
        ready /\ (\E f \in Page : FreeRun(0, highest, n, f) /\ ~Straddles(n, f)) =>
            \E f \in Page : Finds(n, f)

\* pmm_alloc_pages() fails only when no run of that length is free.
EveryRunComplete == \A n \in 1 .. MaxRun : Complete(n)

\* The bitmap with its hint implements the abstract allocator over the pool.
Abstract == INSTANCE PageAllocator WITH pool <- Pool, owned <- held
Refinement == Abstract!Spec

\* No page that holds the kernel image or a boot module is handed out.
KernelImageKept ==
    \A i \in 1 .. Len(map) :
        map[i].type = "EXECUTABLE_AND_MODULES" => Covered(map[i]) \cap held = {}

=============================================================================
