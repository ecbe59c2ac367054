----------------------------- MODULE PmmProofs -----------------------------
(***************************************************************************)
(* Proofs about Pmm for every bitmap size, page size, memory map and       *)
(* request length.  The inductive invariant describes the bitmap during    *)
(* boot as well: after n entries exactly the pages those entries report    *)
(* usable are free.                                                        *)
(***************************************************************************)
EXTENDS Pmm, FiniteSetTheorems, WellFoundedInduction, TLAPS

\* The bitmap while pmm_init() runs and afterwards.
BitmapInv ==
    /\ ~ready => used = Page \ FreedBy(pos) /\ held = {}
    /\ BitmapExact

IInv ==
    /\ TypeOK
    /\ BitmapInv
    /\ FreeCountExact
    /\ HintInRange
    /\ ~ready => hint = 0
    /\ \A p \in held : p < highest

-----------------------------------------------------------------------------
(* Lemmas. *)

\* Sets of pages are finite and their cardinalities are numbers.
LEMMA PageSets ==
    /\ 0 \in Page
    /\ Page \subseteq Nat
    /\ \A S \in SUBSET Page : IsFiniteSet(S) /\ Cardinality(S) \in Nat
<1>1. 0 \in Page /\ Page \subseteq Nat
    BY MaxPagesAssumption DEF Page
<1>2. IsFiniteSet(Page)
    BY MaxPagesAssumption, FS_Interval DEF Page
<1>3. \A S \in SUBSET Page : IsFiniteSet(S) /\ Cardinality(S) \in Nat
    BY <1>2, FS_Subset, FS_CardinalityType
<1>4. QED
    BY <1>1, <1>3

\* Clearing the bits of a set of pages adds as many free pages as it clears.
LEMMA CountCleared ==
    ASSUME NEW U \in SUBSET Page, NEW S \in SUBSET Page
    PROVE  Cardinality(Page \ (U \ S)) = Cardinality(Page \ U) + Cardinality(U \cap S)
<1>1. Page \ (U \ S) = (Page \ U) \cup (U \cap S)
    OBVIOUS
<1>2. (Page \ U) \cap (U \cap S) = {}
    OBVIOUS
<1>3. Cardinality((Page \ U) \cap (U \cap S)) = 0
    BY <1>2, FS_EmptySet
<1>4. IsFiniteSet(Page \ U) /\ IsFiniteSet(U \cap S)
    BY PageSets
<1>5. Cardinality((Page \ U) \cup (U \cap S))
        = Cardinality(Page \ U) + Cardinality(U \cap S)
          - Cardinality((Page \ U) \cap (U \cap S))
    BY <1>4, FS_Union
<1>6. Cardinality(Page \ U) \in Nat /\ Cardinality(U \cap S) \in Nat
    BY PageSets
<1>7. Cardinality(Page \ (U \ S)) = Cardinality((Page \ U) \cup (U \cap S))
    BY <1>1
<1>8. QED
    BY <1>3, <1>5, <1>6, <1>7

\* Setting the bits of free pages takes as many free pages away.
LEMMA CountSet ==
    ASSUME NEW U \in SUBSET Page, NEW S \in SUBSET Page
    PROVE  Cardinality(Page \ (U \cup S)) = Cardinality(Page \ U) - Cardinality(S \ U)
<1> DEFINE V == U \cup S
<1>1. V \in SUBSET Page
    OBVIOUS
<1>2. V \ (S \ U) = U /\ V \cap (S \ U) = S \ U
    OBVIOUS
<1>3. Cardinality(Page \ U) = Cardinality(Page \ V) + Cardinality(S \ U)
    <2>1. Cardinality(Page \ (V \ (S \ U)))
            = Cardinality(Page \ V) + Cardinality(V \cap (S \ U))
        BY <1>1, CountCleared
    <2>2. QED
        BY <1>2, <2>1
<1>4. Cardinality(Page \ V) \in Nat /\ Cardinality(S \ U) \in Nat
    BY <1>1, PageSets
<1>5. QED
    BY <1>3, <1>4

\* The number of pages of a run.
LEMMA RunSize ==
    ASSUME NEW first \in Page, NEW n \in 1 .. MaxRun
    PROVE  Cardinality(Run(first, n)) = n
<1>1. first \in Int /\ first + n - 1 \in Int /\ n \in Nat /\ ~(first > first + n - 1)
    BY PageSets, MaxRunAssumption
<1>2. QED
    BY <1>1, FS_Interval DEF Run

\* One more entry of the map frees one more region, or none.
LEMMA FreedByNext ==
    ASSUME NEW n \in Nat
    PROVE  FreedBy(n + 1) = FreedBy(n) \cup
             (IF cvt_memmap_type(map[n + 1].type) = 1 THEN Covered(map[n + 1]) ELSE {})
<1>1. \A i : i \in 1 .. n + 1 <=> i \in 1 .. n \/ i = n + 1
    OBVIOUS
<1>2. Covered(map[n + 1]) \subseteq Page
    BY DEF Covered
<1>3. QED
    BY <1>1, <1>2 DEF FreedBy

\* What a search returns: a free run inside the tracked pages.
LEMMA FoundRun ==
    ASSUME IInv, ready, NEW n \in 1 .. MaxRun, NEW first \in Page, Finds(n, first)
    PROVE  /\ Run(first, n) \subseteq Page \ used
           /\ first + n <= highest
<1>1. first + n <= highest /\ Run(first, n) \cap used = {}
    BY MaxRunAssumption, PageSets
    DEF Finds, FirstRun, FreeRun, IInv, HintInRange, TypeOK
<1>2. highest <= MaxPages /\ highest \in Nat
    BY DEF IInv, HintInRange, TypeOK
<1>3. Run(first, n) \subseteq Page
    BY <1>1, <1>2, MaxPagesAssumption, MaxRunAssumption DEF Run, Page
<1>4. QED
    BY <1>1, <1>3

\* Entries of a memory map.
LEMMA MapEntries ==
    ASSUME map \in MemoryMapType
    PROVE  /\ Len(map) \in Nat
           /\ BridgedEntries \in Nat
           /\ BridgedEntries <= Len(map)
           /\ \A i \in 1 .. Len(map) : map[i].base \in Nat /\ map[i].len \in Nat
<1> DEFINE Entry == [base : Nat, len : Nat, type : MemoryType]
<1>1. Len(map) \in Nat /\ \A i \in 1 .. Len(map) : map[i] \in Entry
    <2> HIDE DEF Entry
    <2>1. map \in Seq(Entry)
        BY DEF MemoryMapType, Entry
    <2>2. QED
        BY <2>1
<1>2. \A i \in 1 .. Len(map) : map[i].base \in Nat /\ map[i].len \in Nat
    BY <1>1
<1>3. BridgedEntries \in Nat /\ BridgedEntries <= Len(map)
    BY <1>1, MaxEntriesAssumption DEF BridgedEntries, Smaller
<1>4. QED
    BY <1>1, <1>2, <1>3

-----------------------------------------------------------------------------
(* The invariant. *)

LEMMA InvInit == Init => IInv
<1> SUFFICES ASSUME Init PROVE IInv
    OBVIOUS
<1>1. FreedBy(0) = {}
    BY DEF FreedBy
<1>2. map \in MemoryMapType
    BY MemoryMapsAssumption DEF Init
<1>3. BridgedEntries \in Nat
    BY <1>2, MapEntries
<1>4. TypeOK
    <2>1. ready \in BOOLEAN
        BY DEF Init
    <2>2. QED
        BY <1>2, <1>3, <2>1 DEF Init, TypeOK
<1>5. BitmapInv
    BY <1>1 DEF Init, BitmapInv, BitmapExact
<1>6. FreeCountExact
    BY FS_EmptySet DEF Init, FreeCountExact
<1>7. HintInRange /\ hint = 0 /\ held = {}
    BY DEF Init, HintInRange
<1>8. QED
    BY <1>4, <1>5, <1>6, <1>7 DEF IInv

LEMMA EntryStep == IInv /\ init_entry => IInv'
<1> SUFFICES ASSUME IInv, init_entry PROVE IInv'
    OBVIOUS
<1> DEFINE e == map[pos + 1]
<1>0. /\ BridgedEntries \in Nat /\ BridgedEntries <= Len(map) /\ Len(map) \in Nat
      /\ \A i \in 1 .. Len(map) : map[i].base \in Nat /\ map[i].len \in Nat
    BY MapEntries DEF IInv, TypeOK
<1>1. /\ pos \in Nat /\ pos < BridgedEntries /\ pos' = pos + 1 /\ map' = map
      /\ ready \in BOOLEAN /\ ready' = ready /\ ~ready /\ ~ready'
    BY <1>0 DEF IInv, TypeOK, init_entry
<1>2. e.base \in Nat /\ e.len \in Nat
    BY <1>0, <1>1
<1>3. Covered(e) \subseteq Page /\ used \subseteq Page
    BY DEF Covered, IInv, TypeOK
<1>4. used' \subseteq Page /\ FreeCountExact' /\ freeCount' \in Nat
    <2>1. CASE cvt_memmap_type(e.type) = 1
        <3>1. used' = used \ Covered(e)
              /\ freeCount' = freeCount + Cardinality(used \cap Covered(e))
            BY <2>1 DEF init_entry, mark_free
        <3>2. freeCount' = Cardinality(Page \ used')
            BY <1>3, <3>1, CountCleared DEF IInv, FreeCountExact
        <3>3. QED
            BY <1>3, <3>1, <3>2, PageSets DEF FreeCountExact
    <2>2. CASE cvt_memmap_type(e.type) # 1
        BY <2>2 DEF init_entry, IInv, FreeCountExact, TypeOK
    <2>3. QED
        BY <2>1, <2>2
<1>5. used' = Page \ FreedBy(pos)'
    <2>1. FreedBy(pos)' = FreedBy(pos + 1)
        BY <1>1 DEF FreedBy
    <2>2. used' = used \ (IF cvt_memmap_type(e.type) = 1 THEN Covered(e) ELSE {})
        BY DEF init_entry, mark_free
    <2>3. used = Page \ FreedBy(pos)
        BY <1>1 DEF IInv, BitmapInv
    <2>4. QED
        BY <1>1, <2>1, <2>2, <2>3, FreedByNext
<1>6. highest' \in Nat
    <2>1. (e.base + e.len) \div PageSize \in Nat
        BY <1>2, PageSizeAssumption
    <2>2. QED
        BY <2>1 DEF init_entry, IInv, TypeOK
<1>7. held' = {} /\ hint' = 0 /\ hint = 0
    BY <1>1 DEF IInv, BitmapInv, init_entry
<1>8. BridgedEntries' = BridgedEntries /\ pos' \in 0 .. BridgedEntries
    BY <1>0, <1>1 DEF BridgedEntries
<1>9. TypeOK'
    <2>1. map' \in MemoryMapType /\ ready' \in BOOLEAN
        BY <1>1 DEF IInv, TypeOK
    <2>2. pos' \in (0 .. BridgedEntries)' /\ hint' \in Nat /\ held' \subseteq Page
        BY <1>7, <1>8
    <2>3. QED
        BY <1>4, <1>6, <2>1, <2>2 DEF TypeOK
<1>10. QED
    BY <1>1, <1>4, <1>5, <1>7, <1>9
    DEF IInv, BitmapInv, BitmapExact, HintInRange

LEMMA DoneStep == IInv /\ init_done => IInv'
<1> SUFFICES ASSUME IInv, init_done PROVE IInv'
    OBVIOUS
<1>1. /\ ~ready /\ ready' = TRUE /\ map' = map /\ pos' = pos /\ held' = {} /\ hint' = 0
      /\ pos = BridgedEntries
      /\ used = Page \ FreedBy(BridgedEntries)
    BY DEF IInv, BitmapInv, init_done
<1>2. used' = used \cup {0} /\ freeCount' = freeCount - Cardinality({0} \ used)
    BY DEF init_done, TakeGuardPage
<1>3. FreedBy(BridgedEntries) \subseteq Page /\ 0 \in Page
    BY PageSets DEF FreedBy
<1>4. used' = Page \ Pool /\ used' \subseteq Page
    BY <1>1, <1>2, <1>3 DEF Pool
<1>5. Pool' = Pool /\ BridgedEntries' = BridgedEntries
    BY <1>1 DEF Pool, FreedBy, BridgedEntries
<1>6. freeCount' = Cardinality(Page \ used') /\ freeCount' \in Nat
    <2>1. used \in SUBSET Page /\ {0} \in SUBSET Page
        BY <1>3 DEF IInv, TypeOK
    <2>2. Cardinality(Page \ (used \cup {0})) = Cardinality(Page \ used) - Cardinality({0} \ used)
        BY <2>1, CountSet
    <2>3. QED
        BY <1>2, <1>4, <2>2, PageSets DEF IInv, FreeCountExact
<1>7. highest' \in Nat /\ highest' <= MaxPages
    BY MaxPagesAssumption DEF init_done, Capped, Smaller, IInv, TypeOK
<1>8. TypeOK'
    <2>1. map' \in MemoryMapType /\ ready' \in BOOLEAN /\ pos' \in (0 .. BridgedEntries)'
        BY <1>1, <1>5 DEF IInv, TypeOK
    <2>2. QED
        BY <1>1, <1>4, <1>6, <1>7, <2>1 DEF TypeOK
<1>9. BitmapInv'
    BY <1>1, <1>4, <1>5 DEF BitmapInv, BitmapExact
<1>10. QED
    BY <1>1, <1>6, <1>7, <1>8, <1>9 DEF IInv, FreeCountExact, HintInRange

LEMMA AllocStep ==
    ASSUME IInv, NEW n \in 1 .. MaxRun, NEW first \in Page, pmm_alloc_pages(n, first)
    PROVE  IInv'
<1> DEFINE run == Run(first, n)
<1>1. /\ ready /\ ready' = ready /\ map' = map /\ pos' = pos /\ highest' = highest
      /\ used' = used \cup run /\ held' = held \cup run
      /\ freeCount' = freeCount - n /\ hint' = first + n
    BY DEF pmm_alloc_pages, HintAfterAlloc, IInv, TypeOK
<1>2. run \subseteq Page \ used /\ first + n <= highest
    BY <1>1, FoundRun DEF pmm_alloc_pages
<1>3. Pool' = Pool /\ BridgedEntries' = BridgedEntries
    BY <1>1 DEF Pool, FreedBy, BridgedEntries
<1>4. held \subseteq Pool /\ used = Page \ (Pool \ held) /\ Pool \subseteq Page
    BY <1>1 DEF IInv, BitmapInv, BitmapExact, Pool, FreedBy
<1>5. freeCount' = Cardinality(Page \ used') /\ freeCount' \in Nat
    <2>1. used \in SUBSET Page /\ run \in SUBSET Page /\ run \ used = run
        BY <1>2 DEF IInv, TypeOK
    <2>2. Cardinality(Page \ (used \cup run)) = Cardinality(Page \ used) - Cardinality(run \ used)
        BY <2>1, CountSet
    <2>3. Cardinality(run \ used) = n
        BY <2>1, RunSize
    <2>4. freeCount' = Cardinality(Page \ used')
        BY <1>1, <2>2, <2>3 DEF IInv, FreeCountExact
    <2>5. QED
        BY <2>4, <1>1, <2>1, PageSets
<1>6. \A p \in held' : p < highest'
    BY <1>1, <1>2, PageSets, MaxRunAssumption DEF IInv, TypeOK, Run
<1>7. TypeOK'
    <2>1. map' \in MemoryMapType /\ ready' \in BOOLEAN /\ pos' \in (0 .. BridgedEntries)'
        BY <1>1, <1>3 DEF IInv, TypeOK
    <2>2. used' \subseteq Page /\ held' \subseteq Page
        BY <1>1, <1>2 DEF IInv, TypeOK
    <2>3. hint' \in Nat /\ highest' \in Nat
        BY <1>1, PageSets, MaxRunAssumption DEF IInv, TypeOK
    <2>4. QED
        BY <1>5, <2>1, <2>2, <2>3 DEF TypeOK
<1>8. BitmapInv'
    BY <1>1, <1>2, <1>3, <1>4 DEF BitmapInv, BitmapExact
<1>9. HintInRange'
    BY <1>1, <1>2 DEF IInv, HintInRange
<1>10. QED
    BY <1>1, <1>5, <1>6, <1>7, <1>8, <1>9 DEF IInv, FreeCountExact

LEMMA FreeStep ==
    ASSUME IInv, NEW n \in 1 .. MaxRun, NEW first \in Page, pmm_free_pages(n, first)
    PROVE  IInv'
<1> DEFINE run == Run(first, n)
<1>1. /\ ready /\ ready' = ready /\ map' = map /\ pos' = pos /\ highest' = highest
      /\ run \subseteq held
      /\ used' = used \ FreedPages(first, n) /\ held' = held \ run
      /\ freeCount' = freeCount + Cardinality(used \cap FreedPages(first, n))
      /\ hint' = IF first < hint THEN first ELSE hint
    BY DEF pmm_free_pages, IInv, TypeOK
<1>2. FreedPages(first, n) = run
    BY <1>1 DEF FreedPages, IInv
<1>3. Pool' = Pool /\ BridgedEntries' = BridgedEntries
    BY <1>1 DEF Pool, FreedBy, BridgedEntries
<1>4. held \subseteq Pool /\ used = Page \ (Pool \ held) /\ Pool \subseteq Page
    BY <1>1 DEF IInv, BitmapInv, BitmapExact, Pool, FreedBy
<1>5. freeCount' = Cardinality(Page \ used') /\ freeCount' \in Nat
    <2>1. used \in SUBSET Page /\ run \in SUBSET Page
        BY <1>1 DEF IInv, TypeOK
    <2>2. Cardinality(Page \ (used \ run)) = Cardinality(Page \ used) + Cardinality(used \cap run)
        BY <2>1, CountCleared
    <2>3. QED
        BY <1>1, <1>2, <2>1, <2>2, PageSets DEF IInv, FreeCountExact
<1>6. hint' \in Nat /\ hint' <= highest
    BY <1>1, PageSets DEF IInv, TypeOK, HintInRange
<1>7. TypeOK'
    <2>1. map' \in MemoryMapType /\ ready' \in BOOLEAN /\ pos' \in (0 .. BridgedEntries)'
        BY <1>1, <1>3 DEF IInv, TypeOK
    <2>2. used' \subseteq Page /\ held' \subseteq Page /\ highest' \in Nat
        BY <1>1 DEF IInv, TypeOK
    <2>3. QED
        BY <1>5, <1>6, <2>1, <2>2 DEF TypeOK
<1>8. BitmapInv'
    BY <1>1, <1>2, <1>3, <1>4 DEF BitmapInv, BitmapExact
<1>9. HintInRange'
    BY <1>1, <1>6 DEF IInv, HintInRange
<1>10. QED
    BY <1>1, <1>5, <1>7, <1>8, <1>9 DEF IInv, FreeCountExact

LEMMA InvStep == IInv /\ [Next]_vars => IInv'
<1>1. ASSUME IInv, UNCHANGED vars PROVE IInv'
    BY <1>1 DEF vars, IInv, TypeOK, BitmapInv, BitmapExact, FreeCountExact,
                HintInRange, Pool, FreedBy, BridgedEntries
<1>2. QED
    BY <1>1, EntryStep, DoneStep, AllocStep, FreeStep DEF Next, Boot, Alloc, Free

-----------------------------------------------------------------------------
(* The search finds what there is. *)

NatLess == {ss \in Nat \X Nat : ss[1] < ss[2]}

LEMMA NatLessWellFounded == IsWellFoundedOn(NatLess, Nat)
    BY NatLessThanWellFounded DEF OpToRel, NatLess

\* A non-empty set of naturals has a smallest element.
LEMMA Minimum ==
    ASSUME NEW S \in SUBSET Nat, S # {}
    PROVE  \E m \in S : \A x \in S : m <= x
<1>1. PICK m \in S : \A y \in S : ~(<<y, m>> \in NatLess)
    BY NatLessWellFounded, WFMin
<1>2. \A y \in S : y < m => <<y, m>> \in NatLess
    BY DEF NatLess
<1>3. \A y \in S : ~(y < m)
    BY <1>1, <1>2, Zenon
<1>4. QED
    BY <1>3

\* A pass over a range that holds a free run of the wanted length finds one.
LEMMA PassFinds ==
    ASSUME NEW lo \in Nat, NEW hi \in Nat, NEW n \in 1 .. MaxRun,
           NEW f \in Page, FreeRun(lo, hi, n, f)
    PROVE  \E g \in Page : FirstRun(lo, hi, n, g)
<1> DEFINE S == {g \in Page : FreeRun(lo, hi, n, g)}
<1>1. S \in SUBSET Nat /\ S # {}
    BY PageSets
<1>2. PICK m \in S : \A x \in S : m <= x
    BY <1>1, Minimum
<1>3. FirstRun(lo, hi, n, m)
    BY <1>2 DEF FirstRun
<1>4. QED
    BY <1>3

\* If one of the two ranges holds a run, the search succeeds.
LEMMA SearchFinds ==
    ASSUME TypeOK, NEW n \in 1 .. MaxRun, NEW f \in Page,
           FreeRun(hint, highest, n, f) \/ FreeRun(0, hint, n, f)
    PROVE  \E g \in Page : Finds(n, g)
<1>1. hint \in Nat /\ highest \in Nat /\ 0 \in Nat
    BY DEF TypeOK
<1>2. CASE \E g \in Page : FreeRun(hint, highest, n, g)
    BY <1>1, <1>2, PassFinds DEF Finds
<1>3. CASE \A g \in Page : ~FreeRun(hint, highest, n, g)
    <2>1. FreeRun(0, hint, n, f)
        BY <1>3
    <2>2. PICK g \in Page : FirstRun(0, hint, n, g)
        BY <1>1, <2>1, PassFinds
    <2>3. QED
        BY <1>3, <2>2 DEF Finds
<1>4. QED
    BY <1>2, <1>3

-----------------------------------------------------------------------------
(* The theorems. *)

\* In every reachable state the inductive invariant holds.
THEOREM InvariantHolds == Spec => []IInv
    BY InvInit, InvStep, PTL DEF Spec

\* The allocator is type correct.
THEOREM TypeCorrect == Spec => []TypeOK
<1>1. IInv => TypeOK
    BY DEF IInv
<1>2. QED
    BY <1>1, InvariantHolds, PTL

\* The bitmap describes exactly what clients hold, the counter of free pages
\* is exact and the hint stays in range, for every memory map and history.
THEOREM BookkeepingExact ==
    Spec => [](BitmapExact /\ FreeCountExact /\ HintInRange)
<1>1. IInv => BitmapExact /\ FreeCountExact /\ HintInRange
    BY DEF IInv, BitmapInv
<1>2. QED
    BY <1>1, InvariantHolds, PTL

\* Usable regions end at page boundaries.  Of one that did not, mark_region() would
\* free the last page while pmm_highest_page, rounded down, leaves it out.
WholePages ==
    \A i \in 1 .. BridgedEntries :
        cvt_memmap_type(map[i].type) = 1 => (map[i].base + map[i].len) % PageSize = 0

\* Every free page is below the highest page, so that it is counted.
FreeTracked == WholePages => \A p \in Page \ used : p < highest

LEMMA RoundedUp ==
    ASSUME NEW x \in Nat, x % PageSize = 0
    PROVE  (x + PageSize - 1) \div PageSize <= x \div PageSize
<1> DEFINE k == x \div PageSize
           y == x + PageSize - 1
           q == y \div PageSize
<1>1. PageSize \in Nat \ {0} /\ y \in Nat
    BY PageSizeAssumption
<1>2. k \in Nat /\ x = k * PageSize
    BY <1>1
<1> HIDE DEF y
<1>3. q \in Nat /\ q * PageSize <= y
    BY <1>1
<1> HIDE DEF k, q
<1>4. q <= k
    <2> SUFFICES ASSUME k + 1 <= q PROVE FALSE
        BY <1>2, <1>3
    <2>1. (k + 1) * PageSize <= q * PageSize
        BY <1>1, <1>2, <1>3
    <2>2. (k + 1) * PageSize = x + PageSize
        BY <1>1, <1>2
    <2> DEFINE z == q * PageSize
    <2>3. z \in Nat /\ z <= y /\ x + PageSize <= z
        BY <1>1, <1>3, <2>1, <2>2
    <2> HIDE DEF z
    <2> QED
        BY <1>1, <2>3 DEF y
<1> QED
    BY <1>4 DEF k, q, y

LEMMA TrackedStep == IInv /\ FreeTracked /\ [Next]_vars => FreeTracked'
<1> SUFFICES ASSUME IInv, FreeTracked, [Next]_vars, WholePages', NEW p \in (Page \ used)'
             PROVE  p < highest'
    BY DEF FreeTracked
<1>1. map' = map
    BY DEF Next, Boot, Alloc, Free, init_entry, init_done, pmm_alloc_pages, pmm_free_pages, vars
<1>2. WholePages
    BY <1>1 DEF WholePages, BridgedEntries
<1>3. \A x \in Page \ used : x < highest
    BY <1>2 DEF FreeTracked
<1>4. p \in Page /\ p \notin used' /\ p \in Nat /\ highest \in Nat
    BY PageSets DEF Page, IInv, TypeOK
<1>5. CASE init_entry
    <2> DEFINE e == map[pos + 1]
               x == e.base + e.len
               top == x \div PageSize
    <2>1. /\ pos + 1 \in 1 .. BridgedEntries /\ e.base \in Nat /\ e.len \in Nat
        BY <1>5, MapEntries DEF init_entry, IInv, TypeOK
    <2>2. CASE cvt_memmap_type(e.type) = 1
        <3>1. /\ used' = used \ Covered(e)
              /\ highest' = IF top > highest THEN top ELSE highest
            BY <1>5, <2>2 DEF init_entry, mark_free
        <3>2. x \in Nat /\ x % PageSize = 0
            BY <1>2, <2>1, <2>2 DEF WholePages
        <3>3. top \in Nat /\ (x + PageSize - 1) \div PageSize \in Nat
            BY <3>2, PageSizeAssumption
        <3>4. (x + PageSize - 1) \div PageSize <= top
            BY <3>2, RoundedUp
        <3>5. CASE p \in Covered(e)
            <4>1. p < (x + PageSize - 1) \div PageSize
                BY <3>5 DEF Covered
            <4> HIDE DEF x, top
            <4>2. p < top
                BY <1>4, <3>3, <3>4, <4>1
            <4> QED
                BY <1>4, <3>1, <3>3, <4>2
        <3>6. CASE p \notin Covered(e)
            <4>1. p < highest
                BY <1>3, <1>4, <3>1, <3>6
            <4> HIDE DEF top
            <4> QED
                BY <1>4, <3>1, <3>3, <4>1
        <3> QED
            BY <3>5, <3>6
    <2>3. CASE cvt_memmap_type(e.type) # 1
        BY <1>3, <1>4, <1>5, <2>3 DEF init_entry
    <2> QED
        BY <2>2, <2>3
<1>6. CASE init_done
    <2>1. p < highest /\ highest' = Capped(highest)
        BY <1>3, <1>4, <1>6 DEF init_done, TakeGuardPage
    <2> QED
        BY <1>4, <2>1, MaxPagesAssumption DEF Capped, Smaller, Page
<1>7. ASSUME NEW n \in 1 .. MaxRun, NEW first \in Page, pmm_alloc_pages(n, first)
      PROVE  p < highest'
    BY <1>3, <1>4, <1>7 DEF pmm_alloc_pages
<1>8. ASSUME NEW n \in 1 .. MaxRun, NEW first \in Page, pmm_free_pages(n, first)
      PROVE  p < highest'
    BY <1>3, <1>4, <1>8 DEF pmm_free_pages, FreedPages
<1>9. CASE UNCHANGED vars
    BY <1>3, <1>4, <1>9 DEF vars
<1>10. QED
    BY <1>5, <1>6, <1>7, <1>8, <1>9 DEF Next, Boot, Alloc, Free

\* Both counters tell the truth about the bitmap after every allocation and release,
\* for every memory map whose usable regions end at page boundaries.
THEOREM CountersTellTheTruth == Spec => [](WholePages => CountersExact)
<1>1. Init => FreeTracked
    BY DEF Init, FreeTracked
<1>2. ASSUME IInv, FreeTracked, WholePages PROVE CountersExact
    <2> SUFFICES ASSUME ready
                 PROVE  highest - freeCount = Cardinality({p \in used : p < highest})
        BY <1>2 DEF IInv, CountersExact, UsedCountExact
    <2> DEFINE free == Page \ used
               taken == {p \in used : p < highest}
    <2>1. used \subseteq Page /\ highest \in Nat /\ highest <= MaxPages /\ MaxPages \in Nat
        BY <1>2, MaxPagesAssumption DEF IInv, TypeOK, HintInRange
    <2>2. \A p \in free : p < highest
        BY <1>2 DEF FreeTracked
    <2>3. free \cup taken = 0 .. highest - 1
        <3>1. ASSUME NEW x \in free \cup taken PROVE x \in 0 .. highest - 1
            BY <2>1, <2>2, <3>1 DEF Page
        <3>2. ASSUME NEW x \in 0 .. highest - 1 PROVE x \in free \cup taken
            <4>1. x \in Page /\ x < highest
                BY <2>1, <3>2 DEF Page
            <4> QED
                BY <4>1
        <3> QED
            BY <3>1, <3>2
    <2>4. Cardinality(0 .. highest - 1) = highest
        BY <2>1, FS_Interval
    <2>5. free \in SUBSET Page /\ taken \in SUBSET Page /\ free \cap taken = {}
        BY <2>1
    <2> HIDE DEF free, taken
    <2>6. /\ IsFiniteSet(free) /\ IsFiniteSet(taken)
          /\ Cardinality(free) \in Nat /\ Cardinality(taken) \in Nat
        BY <2>5, PageSets
    <2>7. Cardinality(free \cup taken)
            = Cardinality(free) + Cardinality(taken) - Cardinality(free \cap taken)
        BY <2>6, FS_Union
    <2>8. Cardinality(free \cap taken) = 0
        BY <2>5, FS_EmptySet
    <2>9. freeCount = Cardinality(free)
        BY <1>2 DEF IInv, FreeCountExact, free
    <2>10. highest = Cardinality(free) + Cardinality(taken)
        <3>1. Cardinality(free \cup taken) = highest
            BY <2>3, <2>4
        <3> QED
            BY <2>6, <2>7, <2>8, <3>1
    <2>11. highest - freeCount = Cardinality(taken)
        BY <2>6, <2>9, <2>10
    <2>12. QED
        BY <2>11 DEF taken
<1>3. QED
    BY <1>1, <1>2, TrackedStep, InvariantHolds, PTL DEF Spec

\* A request is refused only when every free run of its length lies across the
\* hint: the two passes see all others.
THEOREM OnlyStraddlingRunsMissed == Spec => []MissesOnlyStraddling
<1>1. ASSUME IInv PROVE MissesOnlyStraddling
    <2> SUFFICES ASSUME NEW n \in 1 .. MaxRun, ready, NEW f \in Page,
                        FreeRun(0, highest, n, f), ~Straddles(n, f)
                 PROVE  \E g \in Page : Finds(n, g)
        BY DEF MissesOnlyStraddling
    <2>1. hint \in Nat /\ highest \in Nat /\ f \in Nat /\ n \in Nat
        BY <1>1, PageSets, MaxRunAssumption DEF IInv, TypeOK
    <2>2. hint <= f \/ f + n <= hint
        BY <2>1 DEF Straddles
    <2>3. FreeRun(hint, highest, n, f) \/ FreeRun(0, hint, n, f)
        BY <2>1, <2>2 DEF FreeRun
    <2>4. QED
        BY <1>1, <2>3, SearchFinds DEF IInv
<1>2. QED
    BY <1>1, InvariantHolds, PTL

\* No run of one page lies across the hint, so that a request for one page is
\* refused only when no tracked page is free.
THEOREM SinglePageAlwaysFound == 1 <= MaxRun => (Spec => []Complete(1))
<1> SUFFICES ASSUME 1 <= MaxRun PROVE Spec => []Complete(1)
    OBVIOUS
<1>1. ASSUME IInv, MissesOnlyStraddling PROVE Complete(1)
    <2> SUFFICES ASSUME ready, NEW f \in Page, FreeRun(0, highest, 1, f)
                 PROVE  \E g \in Page : Finds(1, g)
        BY DEF Complete
    <2>1. hint \in Nat /\ f \in Nat /\ 1 \in 1 .. MaxRun
        BY <1>1, PageSets, MaxRunAssumption DEF IInv, TypeOK
    <2>2. ~Straddles(1, f)
        BY <2>1 DEF Straddles
    <2>3. QED
        BY <1>1, <2>1, <2>2 DEF MissesOnlyStraddling
<1>2. QED
    BY <1>1, InvariantHolds, OnlyStraddlingRunsMissed, PTL

\* Without pmm_free_pages() the page before the hint is always in use...
HintBehindUsed == hint # 0 => hint - 1 \in used

LEMMA AllocOnlyInv == AllocOnlySpec => [](IInv /\ HintBehindUsed)
<1>1. Init => IInv /\ HintBehindUsed
    BY InvInit DEF Init, HintBehindUsed
<1>2. ASSUME IInv, HintBehindUsed, [Boot \/ Alloc]_vars PROVE IInv' /\ HintBehindUsed'
    <2>1. IInv'
        BY <1>2, InvStep DEF Next
    <2>2. ASSUME Boot PROVE HintBehindUsed'
        BY <1>2, <2>2 DEF Boot, init_entry, init_done, IInv, HintBehindUsed
    <2>3. ASSUME NEW n \in 1 .. MaxRun, NEW first \in Page, pmm_alloc_pages(n, first)
          PROVE  HintBehindUsed'
        <3>1. hint' = first + n /\ used' = used \cup Run(first, n)
            BY <2>3 DEF pmm_alloc_pages, HintAfterAlloc
        <3>2. first \in Nat /\ n \in Nat \ {0}
            BY PageSets, MaxRunAssumption
        <3>3. first + n - 1 \in Run(first, n)
            BY <3>2 DEF Run
        <3>4. first + n - 1 \in used'
            BY <3>1, <3>3
        <3>5. hint' - 1 \in used'
            BY <3>1, <3>2, <3>4
        <3>6. QED
            BY <3>5 DEF HintBehindUsed
    <2>4. ASSUME UNCHANGED vars PROVE HintBehindUsed'
        BY <1>2, <2>4 DEF vars, HintBehindUsed
    <2>5. QED
        BY <1>2, <2>1, <2>2, <2>3, <2>4 DEF Alloc
<1>3. QED
    BY <1>1, <1>2, PTL DEF AllocOnlySpec

\* ... so no free run straddles it: in the kernel as it is, whose heap never
\* returns pages, a request of any length fails only for want of a free run.
THEOREM AllocOnlyCompleteness == AllocOnlySpec => []EveryRunComplete
<1>1. ASSUME IInv, HintBehindUsed PROVE EveryRunComplete
    <2> SUFFICES ASSUME NEW n \in 1 .. MaxRun, ready, NEW f \in Page,
                        FreeRun(0, highest, n, f)
                 PROVE  \E g \in Page : Finds(n, g)
        BY DEF EveryRunComplete, Complete
    <2>1. hint \in Nat /\ highest \in Nat /\ f \in Nat /\ n \in Nat
        BY <1>1, PageSets, MaxRunAssumption DEF IInv, TypeOK
    <2>2. hint = 0 \/ hint - 1 \notin Run(f, n)
        BY <1>1 DEF HintBehindUsed, FreeRun
    <2>3. hint = 0 \/ f + n <= hint \/ hint <= f
        BY <2>1, <2>2 DEF Run
    <2>4. FreeRun(hint, highest, n, f) \/ FreeRun(0, hint, n, f)
        BY <2>1, <2>3 DEF FreeRun
    <2>5. QED
        BY <1>1, <2>4, SearchFinds DEF IInv
<1>2. QED
    BY <1>1, AllocOnlyInv, PTL

-----------------------------------------------------------------------------
(* Refinement. *)

\* An invariant state's step is a grant, a return or a stutter of the abstract
\* allocator.
LEMMA StepRefines ==
    ASSUME IInv, [Next]_vars PROVE [Abstract!Next]_(Abstract!vars)
<1>1. ASSUME map' = map PROVE Pool' = Pool
    BY <1>1 DEF Pool, FreedBy, BridgedEntries
<1>2. ASSUME Boot \/ UNCHANGED vars PROVE UNCHANGED Abstract!vars
    BY <1>1, <1>2 DEF Boot, init_entry, init_done, vars, Abstract!vars
<1>3. ASSUME NEW n \in 1 .. MaxRun, NEW first \in Page, pmm_alloc_pages(n, first)
      PROVE  Abstract!Next
    <2>1. ready /\ map' = map /\ held' = held \cup Run(first, n)
        BY <1>3 DEF pmm_alloc_pages
    <2>2. Run(first, n) \subseteq Page \ used
        BY <1>3, <2>1, FoundRun DEF pmm_alloc_pages
    <2>3. Run(first, n) \subseteq Pool \ held
        BY <2>1, <2>2 DEF IInv, BitmapInv, BitmapExact
    <2>4. first + n - 1 \in Page
        BY <2>2, PageSets, MaxRunAssumption DEF Run
    <2>5. Abstract!Grant(first, first + n - 1)
        BY <1>1, <2>1, <2>3 DEF Abstract!Grant, Run
    <2>6. QED
        BY <2>4, <2>5 DEF Abstract!Next
<1>4. ASSUME NEW n \in 1 .. MaxRun, NEW first \in Page, pmm_free_pages(n, first)
      PROVE  Abstract!Next
    <2>1. ready /\ map' = map /\ held' = held \ Run(first, n) /\ Run(first, n) \subseteq held
        BY <1>4 DEF pmm_free_pages
    <2>2. first + n - 1 \in Page
        BY <2>1, PageSets, MaxRunAssumption DEF Run, IInv, TypeOK
    <2>3. Abstract!Return(first, first + n - 1)
        BY <1>1, <2>1 DEF Abstract!Return, Run
    <2>4. QED
        BY <2>2, <2>3 DEF Abstract!Next
<1>5. QED
    BY <1>2, <1>3, <1>4 DEF Next, Alloc, Free

\* The bitmap allocator implements the abstract one: every run it hands out
\* is consecutive, inside the pool and held by nobody.
THEOREM ImplementsPageAllocator == Spec => Refinement
<1>1. Init => Abstract!Init
    BY DEF Init, Abstract!Init, Pool, FreedBy
<1>2. QED
    BY <1>1, StepRefines, InvariantHolds, PTL DEF Spec, Refinement, Abstract!Spec

=============================================================================
