------------------------------ MODULE Interrupts ------------------------------
(***************************************************************************)
(* Interrupt lines from the device to the handler: the start of the kernel *)
(* in src/kernel/main.c, the tables of src/kernel/descriptor_tables.c, and *)
(* irq_handler() of src/kernel/isr.c between the entry and the return of   *)
(* src/kernel/asm/interrupt.asm.  The two interrupt controllers and the    *)
(* interrupt flag of the processor are modelled from how the code programs *)
(* them: the lines are 0 .. 15, the second controller has those from 8 on  *)
(* and reports them on line 2 of the first.                                *)
(***************************************************************************)
EXTENDS Integers, FiniteSetsExt

CONSTANTS
    MousePresent,   \* whether mouse_install() finds a mouse
    MaxTicks        \* bound of the model: how often a line is raised

ASSUME InterruptsAssumption == MousePresent \in BOOLEAN /\ MaxTicks \in Nat

VARIABLES
    boot,           \* how far main() has come
    masked,         \* the lines the controllers do not pass on
    requested,      \* the lines raised and not yet taken
    in_service,     \* the lines taken and not yet ended
    handlers,       \* the lines with an entry in interrupt_handlers
    flag,           \* the interrupt flag
    cpu,            \* the handler that runs: its line and what it does next
    ticks           \* how often each line was raised

interruptVars == <<boot, masked, requested, in_service, handlers, flag, cpu, ticks>>

Timer == 0
Keys == 1
Cascade == 2
MouseLine == 12
Lines == {Timer, Keys, MouseLine}

Free == [line |-> -1, step |-> "none"]

InterruptsInit ==
    /\ boot = "main" /\ flag = FALSE
    /\ masked = 0 .. 15 /\ requested = {} /\ in_service = {} /\ handlers = {}
    /\ cpu = Free
    /\ ticks = [l \in Lines |-> 0]

-----------------------------------------------------------------------------
(* The hardware. *)

raise(l) ==
    /\ ticks[l] < MaxTicks
    /\ ticks' = [ticks EXCEPT ![l] = @ + 1]
    /\ requested' = requested \cup {l}
    /\ UNCHANGED <<boot, masked, in_service, handlers, flag, cpu>>

\* The second controller stands where its line of the first one does.
Rank(l) == IF l < Cascade THEN l ELSE IF l >= 8 THEN l - 6 ELSE l + 10

\* A line in service holds back its own rank and those below, on its controller.
HeldBack(l) ==
    \/ l < 8 /\ \E s \in in_service : s < 8 /\ s <= l
    \/ l >= 8 /\ \/ \E s \in in_service : s >= 8 /\ s <= l
                 \/ \E s \in in_service : s <= Cascade

Passed ==
    {l \in requested \ masked : ~HeldBack(l) /\ (l >= 8 => Cascade \notin masked)}

take ==
    /\ flag = TRUE /\ Passed # {}
    /\ LET l == CHOOSE l \in Passed : \A k \in Passed : Rank(l) <= Rank(k)
       IN  /\ requested' = requested \ {l}
           /\ in_service' = in_service \cup {l} \cup (IF l >= 8 THEN {Cascade} ELSE {})
           /\ cpu' = [line |-> l, step |-> "end"]
    /\ flag' = FALSE
    /\ UNCHANGED <<boot, masked, handlers, ticks>>

\* outb(0x20, 0x20) and outb(0xA0, 0x20): the highest line in service ends.
EndFirst(lines) ==
    LET mine == {l \in lines : l < 8} IN IF mine = {} THEN lines ELSE lines \ {Min(mine)}
EndSecond(lines) ==
    LET mine == {l \in lines : l >= 8} IN IF mine = {} THEN lines ELSE lines \ {Min(mine)}

-----------------------------------------------------------------------------
(* irq_handler(). *)

\* Faulty variant: a line of the second controller is ended there only.
Ended_SecondOnly(line, lines) == IF line >= 8 THEN EndSecond(lines) ELSE EndFirst(lines)

Ended(line, lines) == EndFirst(IF line >= 8 THEN EndSecond(lines) ELSE lines)

irq_end ==
    /\ cpu.step = "end"
    /\ in_service' = Ended(cpu.line, in_service)
    /\ cpu' = [cpu EXCEPT !.step = "call"]
    /\ UNCHANGED <<boot, masked, requested, handlers, flag, ticks>>

\* keyboard_callback() ends its interrupt once more.
irq_call ==
    /\ cpu.step = "call"
    /\ in_service' = IF cpu.line = Keys /\ Keys \in handlers THEN EndFirst(in_service) ELSE in_service
    /\ cpu' = [cpu EXCEPT !.step = "return"]
    /\ UNCHANGED <<boot, masked, requested, handlers, flag, ticks>>

\* sti holds back the next interrupt until iretq has run.
irq_return ==
    /\ cpu.step = "return"
    /\ cpu' = Free /\ flag' = TRUE
    /\ UNCHANGED <<boot, masked, requested, in_service, handlers, ticks>>

-----------------------------------------------------------------------------
(* main().  install_mouse stands for mouse_install(). *)

Unmasked(lines) == (0 .. 15) \ lines

stage(from, to) == boot = from /\ boot' = to /\ cpu = Free

\* init_gdt() and init_idt(), which sets the controllers up anew, then the table
\* of handlers is cleared and two lines are let through.
init_descriptor_tables ==
    /\ stage("main", "tables")
    /\ requested' = {} /\ in_service' = {} /\ handlers' = {}
    /\ masked' = Unmasked({Keys, Cascade, MouseLine})
    /\ UNCHANGED <<flag, cpu, ticks>>

\* The memory, the ramdisk and the list of its files, and then the masks again:
\* the timer is let through although it has no handler.
main_masks ==
    /\ stage("tables", "masks")
    /\ masked' = Unmasked({Timer, Keys, Cascade, MouseLine})
    /\ UNCHANGED <<requested, in_service, handlers, flag, cpu, ticks>>

init_keyboard ==
    /\ stage("masks", "keyboard")
    /\ handlers' = handlers \cup {Keys}
    /\ UNCHANGED <<masked, requested, in_service, flag, cpu, ticks>>

install_mouse ==
    /\ stage("keyboard", "mouse")
    /\ handlers' = IF MousePresent THEN handlers \cup {MouseLine} ELSE handlers
    /\ UNCHANGED <<masked, requested, in_service, flag, cpu, ticks>>

\* Faulty variant: interrupts are let in before the drivers are installed.
ReadyForInterrupts_Early == "masks"

ReadyForInterrupts == "mouse"

main_sti ==
    /\ boot = ReadyForInterrupts /\ cpu = Free /\ flag = FALSE
    /\ flag' = TRUE
    /\ boot' = IF boot = "mouse" THEN "shell" ELSE boot
    /\ UNCHANGED <<masked, requested, in_service, handlers, cpu, ticks>>

Cpu ==
    \/ take \/ irq_end \/ irq_call \/ irq_return
    \/ init_descriptor_tables \/ main_masks \/ init_keyboard \/ install_mouse \/ main_sti

InterruptsNext == Cpu \/ \E l \in Lines : raise(l)

InterruptsSpec == InterruptsInit /\ [][InterruptsNext]_interruptVars /\ WF_interruptVars(Cpu)

-----------------------------------------------------------------------------
(* Properties. *)

\* No interrupt of a device whose driver is there is answered without it, and
\* when a handler has returned no line is left in service, the second end of the
\* keyboard handler included.
DriversMeetInterrupts ==
    /\ cpu.step = "call" /\ cpu.line # Timer =>
         cpu.line \in handlers \/ (cpu.line = MouseLine /\ ~MousePresent)
    /\ cpu.step \in {"call", "return", "none"} => in_service = {}

\* A line that is raised once the tables are there reaches its handler, those
\* raised while interrupts were still off included.
InterruptsServed ==
    \A l \in Lines : (boot # "main" /\ l \in requested) ~> (cpu.line = l)

=============================================================================
