-------------------------------- MODULE Malloc --------------------------------
(***************************************************************************)
(* The older allocator, src/mm/malloc.c, over one range of addresses that  *)
(* malloc_init() is given: a chain of blocks, first fit, with splitting    *)
(* and merging.  The kernel no longer calls malloc_init() and uses         *)
(* the allocator of Kheap instead, and the build does not link the file.   *)
(*                                                                         *)
(* Sizes are in units of ALIGN, so that align_up() rounds what is asked    *)
(* for to a whole number.  The chain is in the order of its links.  Once   *)
(* heap_expand() has put a header at the top of a range the chain covers   *)
(* already, the headers no longer describe the memory, and what later      *)
(* calls make of that is not modelled.                                     *)
(***************************************************************************)
EXTENDS Integers, Sequences, SequencesExt

CONSTANTS
    HeapUnits,    \* the size of the range
    HeaderUnits,  \* sizeof(block_header_t)
    Asked         \* bound of the model: the sizes asked for

ASSUME MallocAssumption == HeapUnits \in Nat /\ HeaderUnits \in 1 .. HeapUnits /\ Asked \subseteq Nat \ {0}

VARIABLES
    chain,      \* the blocks from heap_head on: [at, size, free]
    brk_ptr,    \* where heap_expand() takes the next block from, downwards
    lent        \* the sizes clients asked for, by the block they hold

mallocVars == <<chain, brk_ptr, lent>>

malloc_init ==
    /\ chain = <<[at |-> 0, size |-> HeapUnits - HeaderUnits, free |-> TRUE]>>
    /\ brk_ptr = HeapUnits
    /\ lent = [b \in {} |-> 0]

Expanded == brk_ptr # HeapUnits

BlockAt(ch, b) == CHOOSE i \in DOMAIN ch : ch[i].at = b

Fits(ch, size) == {i \in DOMAIN ch : ch[i].free /\ ch[i].size >= size}
find_fit(ch, size) == CHOOSE i \in Fits(ch, size) : \A j \in Fits(ch, size) : i <= j

\* Faulty variant: a rest that has room for a header only is split off too.
MIN_SPLIT_SIZE_Header == HeaderUnits

MIN_SPLIT_SIZE == HeaderUnits + 1

split_block(ch, i, size) ==
    IF ch[i].size < size + MIN_SPLIT_SIZE THEN ch
    ELSE InsertAt([ch EXCEPT ![i].size = size], i + 1,
                  [at |-> ch[i].at + HeaderUnits + size,
                   size |-> ch[i].size - size - HeaderUnits, free |-> TRUE])

\* Faulty variant: the header that disappears is not given to the block.
Joined_Short(ch, i) ==
    RemoveAt([ch EXCEPT ![i].size = @ + ch[i + 1].size], i + 1)

\* Block i with the one behind it.
Joined(ch, i) ==
    RemoveAt([ch EXCEPT ![i].size = @ + HeaderUnits + ch[i + 1].size], i + 1)

\* With the block before it or else with the one behind it, never with both.
coalesce(ch, i) ==
    CASE i > 1 /\ ch[i - 1].free -> Joined(ch, i - 1)
      [] ~(i > 1 /\ ch[i - 1].free) /\ i < Len(ch) /\ ch[i + 1].free -> Joined(ch, i)
      [] OTHER -> ch

Released(ch, b) ==
    LET i == BlockAt(ch, b) IN coalesce([ch EXCEPT ![i].free = TRUE], i)

\* heap_expand() and simple_morecore(): the new block comes from below brk_ptr,
\* which starts at the end of the range the first block covers.
CanExpand(size) == size + HeaderUnits <= brk_ptr

heap_expand(size) ==
    Append(chain, [at |-> brk_ptr - size - HeaderUnits, size |-> size, free |-> TRUE])

Taken(ch, i, size) ==
    LET cut == split_block(ch, i, size) IN [cut EXCEPT ![i].free = FALSE]

\* The chain malloc() looks for a block in, and what it makes of it.
Grown(size) == IF Fits(chain, size) = {} THEN heap_expand(size) ELSE chain

Slot(size) == find_fit(Grown(size), size)

Allocated(size) == Taken(Grown(size), Slot(size), size)
AllocatedAt(size) == Grown(size)[Slot(size)].at

Refused(size) == Fits(chain, size) = {} /\ ~CanExpand(size)

MovesBrk(size) ==
    brk_ptr' = IF Fits(chain, size) = {} THEN brk_ptr - size - HeaderUnits ELSE brk_ptr

Lent(b, size) == [c \in DOMAIN lent \cup {b} |-> IF c = b THEN size ELSE lent[c]]
Without(map, b) == [c \in DOMAIN map \ {b} |-> map[c]]

malloc(size) ==
    \/ Refused(size) /\ UNCHANGED mallocVars
    \/ /\ ~Refused(size)
       /\ chain' = Allocated(size) /\ lent' = Lent(AllocatedAt(size), size)
       /\ MovesBrk(size)

free(b) ==
    /\ chain' = Released(chain, b)
    /\ lent' = Without(lent, b)
    /\ UNCHANGED brk_ptr

\* What block i holds together with the n blocks behind it, and how many of
\* those are free and make it hold size.
Runs(i) ==
    LET run[n \in 0 .. Len(chain) - i] ==
          IF n = 0 THEN chain[i].size ELSE run[n - 1] + HeaderUnits + chain[i + n].size
    IN  run

Run(i, n) == Runs(i)[n]

Behind(i) ==
    {n \in 1 .. Len(chain) - i : \A k \in i + 1 .. i + n : chain[k].free}

Enough(i, size) == {n \in Behind(i) : Run(i, n) >= size}

ReallocInPlace(i, size) ==
    /\ \/ /\ size <= chain[i].size
          /\ chain' = split_block(chain, i, size)
       \/ /\ size > chain[i].size /\ Enough(i, size) # {}
          /\ LET n == CHOOSE n \in Enough(i, size) : \A m \in Enough(i, size) : n <= m
                 joined == SubSeq(chain, 1, i - 1)
                             \o <<[chain[i] EXCEPT !.size = Run(i, n)]>>
                             \o SubSeq(chain, i + n + 1, Len(chain))
             IN  chain' = split_block(joined, i, size)
    /\ lent' = Lent(chain[i].at, size)
    /\ UNCHANGED brk_ptr

ReallocMoves(i, size) ==
    /\ size > chain[i].size /\ Enough(i, size) = {}
    /\ \/ Refused(size) /\ UNCHANGED mallocVars
       \/ /\ ~Refused(size)
          /\ chain' = Released(Allocated(size), chain[i].at)
          /\ lent' = Without(Lent(AllocatedAt(size), size), chain[i].at)
          /\ MovesBrk(size)

realloc(b, size) ==
    LET i == BlockAt(chain, b) IN ReallocInPlace(i, size) \/ ReallocMoves(i, size)

MallocNext ==
    /\ ~Expanded
    /\ \/ \E size \in Asked : malloc(size)
       \/ \E b \in DOMAIN lent : free(b)
       \/ \E b \in DOMAIN lent, size \in Asked : realloc(b, size)

MallocSpec == malloc_init /\ [][MallocNext]_mallocVars

-----------------------------------------------------------------------------
(* get_kmalloc_stats(). *)

\* The values of the blocks that are free, or of those that are not, added up
\* along the chain.
Tally(values, kind) ==
    LET tally[i \in 0 .. Len(chain)] ==
          IF i = 0 THEN 0
          ELSE tally[i - 1] + IF chain[i].free = kind THEN values[i] ELSE 0
    IN  tally

Total(values, kind) == Tally(values, kind)[Len(chain)]

Payloads == [i \in DOMAIN chain |-> chain[i].size]
Ones == [i \in DOMAIN chain |-> 1]

get_kmalloc_stats ==
    [num_used |-> Total(Ones, FALSE), used_payload |-> Total(Payloads, FALSE),
     num_free |-> Total(Ones, TRUE), free_payload |-> Total(Payloads, TRUE)]

-----------------------------------------------------------------------------
(* Properties. *)

\* As long as the heap was not expanded, the chain tiles its range without gap
\* or overlap, the blocks in use are exactly those that clients hold, each with
\* at least the size that was asked for last, no block is empty unless the range has
\* room for a header only, and the statistics account for every unit.
ChainTiles ==
    ~Expanded =>
      /\ chain[1].at = 0
      /\ \A i \in DOMAIN chain :
           LET end == chain[i].at + HeaderUnits + chain[i].size
           IN  end = IF i = Len(chain) THEN HeapUnits ELSE chain[i + 1].at
      /\ {chain[i].at : i \in {j \in DOMAIN chain : ~chain[j].free}} = DOMAIN lent
      /\ \A b \in DOMAIN lent : chain[BlockAt(chain, b)].size >= lent[b]
      /\ HeapUnits > HeaderUnits => \A i \in DOMAIN chain : chain[i].size > 0
      /\ LET st == get_kmalloc_stats
         IN  /\ st.num_used + st.num_free = Len(chain)
             /\ st.used_payload + st.free_payload + HeaderUnits * Len(chain) = HeapUnits

=============================================================================
