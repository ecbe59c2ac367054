-------------------------------- MODULE Heap --------------------------------
(***************************************************************************)
(* What a heap promises its clients: an allocation is a range of addresses *)
(* that meets no other live allocation, and it stays where it is, at the   *)
(* size asked for, until its owner frees or reallocates it.  A request may *)
(* be refused.                                                             *)
(***************************************************************************)
EXTENDS Integers

CONSTANTS
    Address,    \* where an allocation may start, a set of naturals
    Size        \* the sizes clients ask for, a set of positive naturals

VARIABLE live   \* the size of each live allocation, by its address

Bytes(a, n) == a .. a + n - 1

Init == live = [a \in {} |-> 0]

\* n bytes at a meet no live allocation.
Clear(a, n) == \A b \in DOMAIN live : Bytes(a, n) \cap Bytes(b, live[b]) = {}

\* The live allocations without those in gone, and with n bytes at a.
With(gone, a, n) ==
    [b \in (DOMAIN live \ gone) \cup {a} |-> IF b = a THEN n ELSE live[b]]

Malloc(a, n) == Clear(a, n) /\ live' = With({}, a, n)

Free(a) == a \in DOMAIN live /\ live' = [b \in DOMAIN live \ {a} |-> live[b]]

\* The old bytes must stay readable until they are copied, so the new range
\* does not meet the old one either.
Move(old, a, n) == old \in DOMAIN live /\ Clear(a, n) /\ live' = With({old}, a, n)

\* Growing or shrinking in place.
Resize(a, n) ==
    /\ a \in DOMAIN live
    /\ \A b \in DOMAIN live \ {a} : Bytes(a, n) \cap Bytes(b, live[b]) = {}
    /\ live' = With({}, a, n)

Next ==
    \/ \E a \in Address, n \in Size : Malloc(a, n) \/ Resize(a, n)
    \/ \E a \in DOMAIN live : Free(a)
    \/ \E old \in DOMAIN live, a \in Address, n \in Size : Move(old, a, n)

Spec == Init /\ [][Next]_live

=============================================================================
