-------------------------------- MODULE Mouse --------------------------------
(***************************************************************************)
(* The mouse: the PS/2 interrupt handler and handle_mouse() of             *)
(* src/drivers/mouse.c, the poll of src/drivers/usb_hid_mouse.c, and as    *)
(* much of src/kernel/isr.c and src/drivers/keyboard.c as shares the data  *)
(* port with them.                                                         *)
(*                                                                         *)
(* Interrupts come between any two steps of the root task and not within a *)
(* handler.  mouse_dx is volatile: each reading and writing of it is a     *)
(* step of the root task.  Of the two axes one is kept.  No key is pressed *)
(* before main() enables interrupts.                                       *)
(***************************************************************************)
EXTENDS Integers, Sequences

CONSTANTS
    Delta,        \* bound of the model: the motions reports tell of
    MaxReports,   \* bound of the model: how many reports there are, in all
    MaxKeys,      \* bound of the model: how many keys are pressed
    HasUsb,       \* usb_init() has attached a mouse
    Width,        \* gfx_width()
    Edge          \* where the cursor goes beyond the right edge: 639

ASSUME MouseAssumption ==
    /\ Delta \subseteq Int /\ MaxReports \in Nat /\ MaxKeys \in Nat
    /\ HasUsb \in BOOLEAN /\ Width \in Nat \ {0} /\ Edge \in Nat

VARIABLES
    pc,             \* where the root task is in handle_mouse()
    mouse_present,
    reporting,      \* the PS/2 mouse has been told to send reports
    toSend,         \* what it has still to send of its answer or report
    reports,        \* the reports made so far
    keys,           \* the keys pressed so far
    port,           \* the byte at port 0x60
    irq,            \* the interrupts requested
    serving,        \* the interrupt being handled, or none
    cycle, packet,  \* of mouse_handler()
    mouse_dx, mouse_buttons, m_cursor_x,
    old, step,      \* mouse_dx as the USB poll has read it, and the motion to add
    moved,          \* the motion of all complete reports
    taken,          \* the motion handle_mouse() has given to the cursor
    lost,           \* the motion of reports that came in between two steps
    mixed           \* a handler took a byte of the other device

deviceVars == <<reporting, toSend, reports, keys>>
handlerVars == <<cycle, packet, mouse_buttons>>
ghostVars == <<moved, taken, lost, mixed>>
vars == <<pc, mouse_present, deviceVars, port, irq, serving, handlerVars,
          mouse_dx, m_cursor_x, old, step, ghostVars>>

None == 0
Keyboard == 1
Aux == 12
Empty == [from |-> None, val |-> 0]
Ack == -6

Larger(a, b) == IF a < b THEN b ELSE a

Init ==
    /\ pc = "install"
    /\ mouse_present = FALSE /\ reporting = FALSE
    /\ toSend = << >> /\ reports = 0 /\ keys = 0
    /\ port = Empty /\ irq = {} /\ serving = None
    /\ cycle = 0 /\ packet = <<0, 0, 0>>
    /\ mouse_dx = 0 /\ mouse_buttons = 0 /\ m_cursor_x = 0
    /\ old = 0 /\ step = 0
    /\ moved = 0 /\ taken = 0 /\ lost = 0 /\ mixed = FALSE

-----------------------------------------------------------------------------
(* The devices and the port they share. *)

MakeReport ==
    /\ reporting /\ toSend = << >> /\ reports < MaxReports
    /\ \E dx \in Delta, left \in 0 .. 1 : toSend' = <<8 + left, dx, 0>>
    /\ reports' = reports + 1
    /\ UNCHANGED <<pc, mouse_present, reporting, keys, port, irq, serving,
                   handlerVars, mouse_dx, m_cursor_x, old, step, ghostVars>>

Arrives(from, val) ==
    /\ pc # "install" /\ port = Empty
    /\ port' = [from |-> from, val |-> val]
    /\ irq' = irq \cup {from}
    /\ UNCHANGED <<pc, mouse_present, reporting, reports, serving, handlerVars,
                   mouse_dx, m_cursor_x, old, step, ghostVars>>

MouseByte ==
    /\ toSend # << >>
    /\ Arrives(Aux, Head(toSend))
    /\ toSend' = Tail(toSend) /\ UNCHANGED keys

KeyPressed ==
    /\ keys < MaxKeys
    /\ Arrives(Keyboard, 30)
    /\ keys' = keys + 1 /\ UNCHANGED toSend

-----------------------------------------------------------------------------
(* The interrupts.  irq_handler() acknowledges them before it calls the      *)
(* handler, which the processor enters with interrupts off.                  *)

irq_handler(n) ==
    /\ pc # "install" /\ serving = None
    /\ n \in irq /\ (n = Aux => Keyboard \notin irq)
    /\ serving' = n /\ irq' = irq \ {n}
    /\ UNCHANGED <<pc, mouse_present, deviceVars, port, handlerVars, mouse_dx,
                   m_cursor_x, old, step, ghostVars>>

\* keyboard_callback() reads whatever byte is there; what it does with a key
\* is its own affair.
keyboard_callback ==
    /\ serving = Keyboard
    /\ serving' = None /\ port' = Empty
    /\ mixed' = (mixed \/ port.from = Aux)
    /\ UNCHANGED <<pc, mouse_present, deviceVars, irq, handlerVars, mouse_dx,
                   m_cursor_x, old, step, moved, taken, lost>>

\* Faulty variant: mouse_handler() does not look whether there is a byte.
ByteThere_Unchecked == mouse_present

\* There is a handler, and it finds a byte.
ByteThere == mouse_present /\ port # Empty

mouse_handler_idle ==
    /\ serving = Aux /\ ~ByteThere
    /\ serving' = None
    /\ UNCHANGED <<pc, mouse_present, deviceVars, port, irq, handlerVars,
                   mouse_dx, m_cursor_x, old, step, ghostVars>>

\* The root task has read mouse_dx and will write it without reading again.
InBetween == pc \in {"store", "clear"}

mouse_handler ==
    /\ serving = Aux /\ ByteThere
    /\ serving' = None /\ port' = Empty
    /\ mixed' = (mixed \/ port.from = Keyboard)
    /\ LET got == [packet EXCEPT ![cycle + 1] = port.val]
           full == cycle = 2
       IN  /\ packet' = got
           /\ cycle' = IF full THEN 0 ELSE cycle + 1
           /\ mouse_dx' = IF full THEN mouse_dx + got[2] ELSE mouse_dx
           /\ mouse_buttons' = IF full THEN got[1] % 8 ELSE mouse_buttons
           /\ moved' = IF full THEN moved + got[2] ELSE moved
           /\ lost' = IF full /\ InBetween THEN lost + got[2] ELSE lost
    /\ UNCHANGED <<pc, mouse_present, deviceVars, irq, m_cursor_x, old, step, taken>>

-----------------------------------------------------------------------------
(* The root task. *)

\* mouse_install() reads the answers with interrupts off; the request of a
\* byte it has read may stay behind.
mouse_install ==
    /\ pc = "install"
    /\ mouse_present' = TRUE /\ reporting' = TRUE
    /\ irq' \in SUBSET {Aux}
    /\ pc' = "poll"
    /\ UNCHANGED <<toSend, reports, keys, port, serving, handlerVars, mouse_dx,
                   m_cursor_x, old, step, ghostVars>>

\* It waits in vain and returns: whatever the mouse answers later, and its
\* reports if the last command has reached it, find no handler.
mouse_install_fails ==
    /\ pc = "install"
    /\ reporting' \in BOOLEAN
    /\ toSend' \in {<< >>, <<Ack>>}
    /\ irq' \in SUBSET {Aux}
    /\ pc' = "poll"
    /\ UNCHANGED <<mouse_present, reports, keys, port, serving, handlerVars,
                   mouse_dx, m_cursor_x, old, step, ghostVars>>

At(label) == pc = label /\ serving = None

\* usb_hid_mouse_poll() without a mouse or a report.
poll_nothing ==
    /\ At("poll")
    /\ pc' = "add"
    /\ UNCHANGED <<mouse_present, deviceVars, port, irq, serving, handlerVars,
                   mouse_dx, m_cursor_x, old, step, ghostVars>>

usb_hid_mouse_poll ==
    /\ At("poll") /\ HasUsb /\ reports < MaxReports
    /\ step' \in Delta /\ old' = mouse_dx
    /\ mouse_buttons' \in 0 .. 1
    /\ reports' = reports + 1
    /\ pc' = "store"
    /\ UNCHANGED <<mouse_present, reporting, toSend, keys, port, irq, serving,
                   cycle, packet, mouse_dx, m_cursor_x, ghostVars>>

\* Faulty variant: the motion of this report replaces what was there.
Stored_Replaces == step

Stored == old + step

poll_store ==
    /\ At("store")
    /\ mouse_dx' = Stored
    /\ moved' = moved + step
    /\ old' = 0 /\ step' = 0 /\ pc' = "add"
    /\ UNCHANGED <<mouse_present, deviceVars, port, irq, serving, handlerVars,
                   m_cursor_x, taken, lost, mixed>>

\* handle_mouse() goes on only if there is a PS/2 mouse or motion, and then
\* only if there is motion.
NoMotion ==
    /\ At("add") /\ mouse_dx = 0
    /\ pc' = "poll"
    /\ UNCHANGED <<mouse_present, deviceVars, port, irq, serving, handlerVars,
                   mouse_dx, m_cursor_x, old, step, ghostVars>>

Clamped(x) == IF x < 0 THEN 0 ELSE IF x >= Width THEN Edge ELSE x

\* Also when there is only motion along the other axis.
AddToCursor ==
    /\ At("add")
    /\ m_cursor_x' = Clamped(m_cursor_x + mouse_dx)
    /\ taken' = taken + mouse_dx
    /\ pc' = "clear"
    /\ UNCHANGED <<mouse_present, deviceVars, port, irq, serving, handlerVars,
                   mouse_dx, old, step, moved, lost, mixed>>

ClearDelta ==
    /\ At("clear")
    /\ mouse_dx' = 0
    /\ pc' = "poll"
    /\ UNCHANGED <<mouse_present, deviceVars, port, irq, serving, handlerVars,
                   m_cursor_x, old, step, ghostVars>>

-----------------------------------------------------------------------------
Device == MakeReport \/ MouseByte \/ KeyPressed

Interrupt ==
    \/ \E n \in {Keyboard, Aux} : irq_handler(n)
    \/ keyboard_callback
    \/ mouse_handler_idle
    \/ mouse_handler

handle_mouse ==
    \/ poll_nothing
    \/ usb_hid_mouse_poll
    \/ poll_store
    \/ NoMotion
    \/ AddToCursor
    \/ ClearDelta

Next == mouse_install \/ mouse_install_fails \/ Device \/ Interrupt \/ handle_mouse

Spec == Init /\ [][Next]_vars

-----------------------------------------------------------------------------
(* Properties. *)

\* The types of the variables.
TypeOK ==
    /\ pc \in {"install", "poll", "store", "add", "clear"}
    /\ mouse_present \in BOOLEAN /\ reporting \in BOOLEAN /\ mixed \in BOOLEAN
    /\ toSend \in Seq(Int) /\ reports \in 0 .. MaxReports /\ keys \in 0 .. MaxKeys
    /\ port \in [from : {None, Keyboard, Aux}, val : Int]
    /\ irq \subseteq {Keyboard, Aux} /\ serving \in {None, Keyboard, Aux}
    /\ cycle \in 0 .. 2 /\ packet \in [1 .. 3 -> Int] /\ mouse_buttons \in 0 .. 7
    /\ m_cursor_x \in 0 .. Larger(Width - 1, Edge)
    /\ {mouse_dx, old, step, moved, taken, lost} \subseteq Int

\* As long as no handler took a byte of the other device, the three byte cycle
\* of mouse_handler() begins where the reports begin: no request left over from
\* the installation and no order of key and mouse bytes shifts it, and the
\* buttons are never read out of a motion byte.
Framed ==
    mouse_present /\ ~mixed =>
        /\ (cycle + Len(toSend) + (IF port.from = Aux THEN 1 ELSE 0)) % 3 = 0
        /\ mouse_buttons \in 0 .. 1

\* The motion the root task will still find in mouse_dx.
Pending ==
    CASE pc = "store" -> old
      [] pc = "clear" -> 0
      [] OTHER -> mouse_dx

\* Motion is given to the cursor once, and only reports that come in between
\* the two steps of a store or between adding and clearing are lost.
MotionKept == moved = taken + Pending + lost

=============================================================================
