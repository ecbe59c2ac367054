--------------------------- MODULE PageAllocator ---------------------------
(***************************************************************************)
(* What a physical page allocator promises its clients: it grants runs of  *)
(* consecutive pages of a fixed pool, never a page somebody owns, and a    *)
(* page returned may be granted again.  A request may be refused.          *)
(***************************************************************************)
EXTENDS Integers

CONSTANT Page       \* the page numbers, a set of naturals

VARIABLES
    pool,           \* the pages that may ever be granted
    owned           \* the pages clients own

vars == <<pool, owned>>

Init == pool \in SUBSET Page /\ owned = {}

Grant(first, last) ==
    /\ first .. last \subseteq pool \ owned
    /\ owned' = owned \cup (first .. last)
    /\ UNCHANGED pool

Return(first, last) ==
    /\ first .. last \subseteq owned
    /\ owned' = owned \ (first .. last)
    /\ UNCHANGED pool

Next == \E first, last \in Page : Grant(first, last) \/ Return(first, last)

Spec == Init /\ [][Next]_vars

=============================================================================
