------------------------------ MODULE Boundaries ------------------------------
(***************************************************************************)
(* Where the C code meets what no compiler checks against it: the          *)
(* assembly and the boot protocol (Boot), the PCI bus (Pci), and the       *)
(* registers of a system call (SystemCalls).                               *)
(***************************************************************************)
EXTENDS Boot, Pci, SystemCalls

MachineNext == BootNext \/ PciNext \/ SystemCallsNext

MachineSpec == InvocationInit /\ [][MachineNext]_invocationVars

\* What the assembly of the interrupts, the boot protocol and the bus hand over is
\* what the C code takes it for, and so is what programs hand over in system calls.
MachineExact == BootExact /\ BusExact /\ SystemCallsExact

=============================================================================
