------------------------------- MODULE MCPmm -------------------------------
(* Small memory maps for Pmm.  PageSize is 2 units. *)
EXTENDS Pmm, TLC

Usable(page, n) == [base |-> 2 * page, len |-> 2 * n, type |-> "USABLE"]
Kernel(page, n) == [base |-> 2 * page, len |-> 2 * n, type |-> "EXECUTABLE_AND_MODULES"]
Reserved(base, len) == [base |-> base, len |-> len, type |-> "RESERVED"]

\* No map at all; one region from page 0; a hole of odd size; unsorted and
\* adjacent regions; a region beyond the bitmap; more entries than are bridged.
MCMaps == {
    << >>,
    << Usable(0, 8) >>,
    << Usable(0, 2), Reserved(5, 3), Usable(4, 5) >>,
    << Usable(4, 5), Usable(1, 3), Reserved(0, 2) >>,
    << Usable(1, 3), Usable(5, 9), Reserved(28, 2) >>,
    << Reserved(0, 2), Reserved(3, 1), Usable(2, 2), Usable(5, 2) >> }

\* Maps with the kernel's own entry, as every boot has.
MCKernelMaps == {
    << Usable(0, 3), Kernel(3, 2), Usable(5, 2) >>,
    << Reserved(0, 4), Kernel(2, 1), Usable(3, 4) >> }

=============================================================================
