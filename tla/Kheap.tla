------------------------------- MODULE Kheap -------------------------------
(***************************************************************************)
(* The kernel heap, src/mm/kheap.c: arenas of consecutive pages taken from *)
(* the page allocator, each cut into blocks with a header in front, first  *)
(* fit over the arenas from the newest, splitting on allocation and        *)
(* merging with both neighbours on release.  Interrupt handlers never      *)
(* allocate and tasks switch only where they yield, so a call is one step. *)
(*                                                                         *)
(* A block is named by the address of its header; its payload, the pointer *)
(* clients see, is HeaderSize further.  Physical pages are always mapped   *)
(* at a fixed offset, which is left out.  Clients release and reallocate   *)
(* only what they hold.  Sizes do not reach the end of the address space.  *)
(***************************************************************************)
EXTENDS Integers, Sequences, FiniteSets

CONSTANTS
    Page,             \* the physical page numbers
    PageSize,         \* PMM_PAGE_SIZE
    ArenaMinPages,    \* ARENA_MIN_PAGES
    ArenaHeader,      \* sizeof(arena_t)
    HeaderSize,       \* sizeof(block_header_t)
    Align,            \* what ALIGN16 rounds to
    Request           \* bound of the model: the sizes clients ask for

ASSUME PageAssumption == Page \subseteq Nat \ {0}
ASSUME PageSizeAssumption == PageSize \in Nat \ {0}
ASSUME ArenaMinPagesAssumption == ArenaMinPages \in Nat \ {0}
ASSUME HeaderAssumption == ArenaHeader \in Nat /\ HeaderSize \in Nat \ {0}
ASSUME AlignAssumption == Align \in Nat \ {0}
ASSUME RequestAssumption == Request \subseteq Nat \ {0}

\* An arena of the smallest size has room for its headers.
ASSUME ArenaAssumption == ArenaHeader + HeaderSize <= ArenaMinPages * PageSize

VARIABLES
    pool,     \* the pages the page allocator may grant
    owned,    \* the pages it has granted to the heap
    arenas,   \* arena_list, newest first
    blocks,   \* the block headers, by address
    held      \* what clients hold: the size they asked for, by block

vars == <<pool, owned, arenas, blocks, held>>

Pages == INSTANCE PageAllocator

Null == 0
Header == [size : Nat, free : BOOLEAN, next : Nat, prev : Nat]

-----------------------------------------------------------------------------
(* Arenas and blocks. *)

ALIGN16(x) == ((x + Align - 1) \div Align) * Align

ArenaStart(a) == a.first * PageSize
ArenaEnd(a) == (a.first + a.pages) * PageSize
FirstBlock(a) == ArenaStart(a) + ArenaHeader

InArena(b, i) == ArenaStart(arenas[i]) <= b /\ b < ArenaEnd(arenas[i])

\* Where block b of bs ends.
End(bs, b) == b + HeaderSize + bs[b].size

\* How many pages new_arena() needs for a payload.
PagesFor(size) == (ArenaHeader + HeaderSize + size + PageSize - 1) \div PageSize

\* The pages new_arena() asks for.
ArenaPages(size) ==
    IF PagesFor(size) < ArenaMinPages THEN ArenaMinPages ELSE PagesFor(size)

\* bs with the one free block of a new arena.
WithArena(bs, a) ==
    [b \in DOMAIN bs \cup {FirstBlock(a)} |->
        IF b = FirstBlock(a)
        THEN [size |-> a.pages * PageSize - ArenaHeader - HeaderSize,
              free |-> TRUE, next |-> Null, prev |-> Null]
        ELSE bs[b]]

-----------------------------------------------------------------------------
(* Splitting and merging, on the headers bs. *)

\* What is left of block b, when size bytes of it are used.
Rest(bs, b, size) == bs[b].size - size

\* Faulty variant: the rest is split off whenever there is one.
WorthSplitting_Always(rest) == rest > 0

\* The rest has room for a header and for more than 16 bytes.
WorthSplitting(rest) == rest > HeaderSize + Align

\* Faulty variant: the following block is not linked back to the new one.
split_block_NoBackLink(bs, b, size) ==
    LET new == b + HeaderSize + size IN
    IF ~WorthSplitting(Rest(bs, b, size)) THEN bs
    ELSE [c \in DOMAIN bs \cup {new} |->
            IF c = new
            THEN [size |-> Rest(bs, b, size) - HeaderSize, free |-> TRUE,
                  next |-> bs[b].next, prev |-> b]
            ELSE IF c = b THEN [bs[b] EXCEPT !.size = size, !.next = new]
            ELSE bs[c]]

\* Faulty variant: the header of the new block is not counted.
split_block_HeaderNotCounted(bs, b, size) ==
    LET new == b + HeaderSize + size IN
    IF ~WorthSplitting(Rest(bs, b, size)) THEN bs
    ELSE [c \in DOMAIN bs \cup {new} |->
            IF c = new
            THEN [size |-> Rest(bs, b, size), free |-> TRUE,
                  next |-> bs[b].next, prev |-> b]
            ELSE IF c = b THEN [bs[b] EXCEPT !.size = size, !.next = new]
            ELSE IF c = bs[b].next THEN [bs[c] EXCEPT !.prev = new]
            ELSE bs[c]]

split_block(bs, b, size) ==
    LET new == b + HeaderSize + size IN
    IF ~WorthSplitting(Rest(bs, b, size)) THEN bs
    ELSE [c \in DOMAIN bs \cup {new} |->
            IF c = new
            THEN [size |-> Rest(bs, b, size) - HeaderSize, free |-> TRUE,
                  next |-> bs[b].next, prev |-> b]
            ELSE IF c = b THEN [bs[b] EXCEPT !.size = size, !.next = new]
            ELSE IF c = bs[b].next THEN [bs[c] EXCEPT !.prev = new]
            ELSE bs[c]]

\* Faulty variant: the block is not marked.
Take_LeavesFree(bs, b, size) == split_block(bs, b, size)

\* kmalloc() takes block b.
Take(bs, b, size) == [split_block(bs, b, size) EXCEPT ![b].free = FALSE]

\* Block b and the next one are both free and physically adjacent.
Mergeable(bs, b) ==
    /\ b # Null /\ bs[b].free
    /\ bs[b].next # Null /\ bs[bs[b].next].free
    /\ End(bs, b) = bs[b].next

\* Block b absorbs the next one.
Absorb(bs, b) ==
    LET n == bs[b].next IN
    [c \in DOMAIN bs \ {n} |->
        IF c = b
        THEN [bs[b] EXCEPT !.size = @ + HeaderSize + bs[n].size, !.next = bs[n].next]
        ELSE IF c = bs[n].next THEN [bs[c] EXCEPT !.prev = b]
        ELSE bs[c]]

Merge(bs, b) == IF Mergeable(bs, b) THEN Absorb(bs, b) ELSE bs

\* Faulty variant: only the next block is merged.
Release_NextOnly(bs, b) == Merge([bs EXCEPT ![b].free = TRUE], b)

\* Block b becomes free and merges with the next block, then the previous.
Release(bs, b) ==
    LET merged == Merge([bs EXCEPT ![b].free = TRUE], b)
    IN  Merge(merged, merged[b].prev)

\* kfree(NULL) does nothing.
Free(bs, b) == IF b = Null THEN bs ELSE Release(bs, b)

-----------------------------------------------------------------------------
(* The operations. *)

Init ==
    /\ Pages!Init
    /\ arenas = << >>
    /\ blocks = [b \in {} |-> Null]
    /\ held = [b \in {} |-> 0]

Fits(b, size) == blocks[b].free /\ blocks[b].size >= size

\* The search comes to block b before block c.
Earlier(b, c) ==
    \E i, j \in DOMAIN arenas :
        InArena(b, i) /\ InArena(c, j) /\ (i < j \/ (i = j /\ b < c))

FirstFit(b, size) ==
    /\ Fits(b, size)
    /\ \A c \in DOMAIN blocks : Fits(c, size) => ~Earlier(c, b)

\* The blocks clients hold when b replaces old in their hands.
HeldAfter(b, size, old) ==
    [c \in (DOMAIN held \ {old}) \cup {b} |-> IF c = b THEN size ELSE held[c]]

\* kmalloc(size) returns block b of bs, then kfree(old).
Replace(bs, b, size, old) ==
    /\ blocks' = Free(Take(bs, b, ALIGN16(size)), old)
    /\ held' = HeldAfter(b, size, old)

\* The search finds a block.
FromArenas(size, old) ==
    /\ \E b \in DOMAIN blocks :
        /\ FirstFit(b, ALIGN16(size))
        /\ Replace(blocks, b, size, old)
    /\ UNCHANGED <<pool, owned, arenas>>

\* The search finds none and new_arena() gets its pages.
FromNewArena(size, old) ==
    /\ \A b \in DOMAIN blocks : ~Fits(b, ALIGN16(size))
    /\ \E first \in Page :
        LET a == [first |-> first, pages |-> ArenaPages(ALIGN16(size))] IN
        /\ Pages!Grant(first, first + a.pages - 1)
        /\ arenas' = <<a>> \o arenas
        /\ Replace(WithArena(blocks, a), FirstBlock(a), size, old)

\* kmalloc(size), and kcalloc() for a product of size.  When neither a block
\* nor pages are found it returns NULL and nothing changes.
kmalloc(size) == FromArenas(size, Null) \/ FromNewArena(size, Null)

kfree(b) ==
    /\ b \in DOMAIN held
    /\ blocks' = Free(blocks, b)
    /\ held' = [c \in DOMAIN held \ {b} |-> held[c]]
    /\ UNCHANGED <<pool, owned, arenas>>

\* Faulty variant: the size the block has is not looked at.
Suffices_Never(b, size) == FALSE

\* The block has room for the new size.
Suffices(b, size) == blocks[b].size >= size

\* krealloc(b, size) with room where it is: the block is not shrunk.
krealloc_InPlace(b, size) ==
    /\ b \in DOMAIN held
    /\ Suffices(b, size)
    /\ held' = [held EXCEPT ![b] = size]
    /\ UNCHANGED <<pool, owned, arenas, blocks>>

\* krealloc(b, size) to another block: kmalloc(size), the payload of b copied,
\* kfree(b).  Of a NULL pointer it is kmalloc(size), to size 0 it is kfree(b).
krealloc_Move(b, size) ==
    /\ b \in DOMAIN held
    /\ ~Suffices(b, size)
    /\ FromArenas(size, b) \/ FromNewArena(size, b)

Next ==
    \/ \E size \in Request : kmalloc(size)
    \/ \E b \in DOMAIN held : kfree(b)
    \/ \E b \in DOMAIN held, size \in Request : krealloc_InPlace(b, size)
    \/ \E b \in DOMAIN held, size \in Request : krealloc_Move(b, size)

Spec == Init /\ [][Next]_vars

-----------------------------------------------------------------------------
(* Properties. *)

\* The types of the variables; a client's block has a header and is in use.
TypeOK ==
    /\ pool \subseteq Page /\ owned \subseteq pool
    /\ arenas \in Seq([first : Page, pages : Nat \ {0}])
    /\ blocks \in [DOMAIN blocks -> Header] /\ DOMAIN blocks \subseteq Nat \ {0}
    /\ held \in [DOMAIN held -> Request] /\ DOMAIN held \subseteq DOMAIN blocks

\* A block is in use exactly while a client holds it, so nothing leaks and
\* nothing held is up for grabs; and it is as long as the client asked for.
FreeExact ==
    /\ \A b \in DOMAIN blocks : blocks[b].free <=> b \notin DOMAIN held
    /\ \A b \in DOMAIN held : held[b] <= blocks[b].size

\* Headers and payloads of different blocks never overlap.
BlocksDisjoint ==
    \A b, c \in DOMAIN blocks : b < c => End(blocks, b) <= c

\* The chain of the blocks follows their addresses, both ways, and covers
\* every arena from its first block to its end: no byte is lost.
Linked(b) ==
    /\ blocks[b].next # Null =>
        /\ blocks[b].next = End(blocks, b)
        /\ blocks[b].next \in DOMAIN blocks
        /\ blocks[blocks[b].next].prev = b
    /\ blocks[b].prev # Null =>
        /\ blocks[b].prev \in DOMAIN blocks
        /\ blocks[blocks[b].prev].next = b
    /\ \E i \in DOMAIN arenas :
        /\ FirstBlock(arenas[i]) <= b /\ End(blocks, b) <= ArenaEnd(arenas[i])
        /\ blocks[b].prev = Null <=> b = FirstBlock(arenas[i])
        /\ blocks[b].next = Null <=> End(blocks, b) = ArenaEnd(arenas[i])
ChainsExact == \A b \in DOMAIN blocks : Linked(b)

\* The heap is well formed: headers, payloads and links of all blocks agree with
\* each other and with what clients hold.
HeapExact == TypeOK /\ FreeExact /\ BlocksDisjoint /\ ChainsExact

\* Neighbouring blocks are never both free, so freeing leaves no hole smaller
\* than it has to be; a free arena is one block.
Coalesced ==
    \A b \in DOMAIN blocks :
        blocks[b].next # Null => ~(blocks[b].free /\ blocks[blocks[b].next].free)

\* krealloc() copies the whole payload of the old block, so the new one is
\* never shorter.
CopyFits ==
    [][\A old \in DOMAIN held \ DOMAIN held', new \in DOMAIN held' \ DOMAIN held :
            blocks[old].size <= blocks'[new].size]_vars

\* The free-list heap implements the abstract one: payloads never overlap
\* and stay where they are.
Live == [p \in {b + HeaderSize : b \in DOMAIN held} |-> held[p - HeaderSize]]
AddressSpace == {p * PageSize + o : p \in Page, o \in 0 .. PageSize - 1}
Abstract == INSTANCE Heap WITH live <- Live, Address <- AddressSpace, Size <- Request
Refinement == Abstract!Spec

=============================================================================
