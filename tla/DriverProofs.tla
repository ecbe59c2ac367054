---------------------------- MODULE DriverProofs -----------------------------
(***************************************************************************)
(* Proofs about the drivers of the mouse, the keyboard and the console,    *)
(* and about the wallpaper, the cursor and the dispatch of interrupts,     *)
(* each with the invariant it takes.                                       *)
(***************************************************************************)
EXTENDS Mouse, Keyboard, Console, Wallpaper, Cursor, Interrupts, FiniteSetTheorems,
        SequenceTheorems, TLAPS

-----------------------------------------------------------------------------
(* Mouse.  MotionKept is inductive given the types.  Framed is not: that        *)
(* buttons are read out of a buttons byte needs to know which byte of its       *)
(* report is where, in the port, in the mouse and in the packet.                *)

ButtonsByte(b) == b \in {8, 9}

\* The bytes of the report under way: those the mouse still has, one that may
\* be at the port, and those in the packet.  The mouse may have the next report
\* ready while the last byte of this one is at the port.
InPlace ==
    /\ mouse_buttons \in 0 .. 1
    /\ Len(toSend) = 3 => ButtonsByte(toSend[1])
    /\ cycle > 0 => ButtonsByte(packet[1])
    /\ port.from = Aux =>
        /\ Len(toSend) = 2 - cycle \/ (cycle = 2 /\ Len(toSend) = 3)
        /\ cycle = 0 => ButtonsByte(port.val)
    /\ port.from # Aux =>
        Len(toSend) = 3 - cycle \/ (cycle = 0 /\ Len(toSend) = 0)

\* Before the installation nothing has moved.
Quiet ==
    pc = "install" =>
        /\ toSend = << >> /\ cycle = 0 /\ port = Empty /\ mouse_buttons = 0
        /\ ~mouse_present /\ ~reporting /\ serving = None

\* No byte at the port means the value that stands for it.
NothingAtPort == port.from = None => port = Empty

IInv ==
    /\ TypeOK
    /\ NothingAtPort
    /\ Quiet
    /\ mouse_present /\ ~mixed => InPlace

-----------------------------------------------------------------------------
\* The low bits of the two buttons bytes.
LEMMA ByteRemainders == 8 % 8 = 0 /\ 9 % 8 = 1
    BY SMT

\* Any integer has buttons between 0 and 7.
LEMMA ButtonsRange == \A b \in Int : b % 8 \in 0 .. 7
    BY SMT

\* The parts of a sequence that is not empty.
LEMMA HeadTail ==
    ASSUME NEW s \in Seq(Int), s # << >>
    PROVE  /\ Head(s) \in Int /\ Head(s) = s[1]
           /\ Tail(s) \in Seq(Int)
           /\ Len(s) \in Nat \ {0} /\ Len(Tail(s)) = Len(s) - 1
<1>1. Len(s) \in Nat \ {0} /\ Head(s) = s[1]
    OBVIOUS
<1>2. Head(s) \in Int
    BY <1>1
<1>3. Tail(s) \in Seq(Int) /\ Len(Tail(s)) = Len(s) - 1
    OBVIOUS
<1>4. QED
    BY <1>1, <1>2, <1>3

\* The initial state satisfies the type invariant.
LEMMA InitTypes == Init => TypeOK
<1> SUFFICES ASSUME Init PROVE TypeOK
    OBVIOUS
<1>1. packet \in [1 .. 3 -> Int] /\ toSend \in Seq(Int)
    BY DEF Init
<1>2. m_cursor_x \in 0 .. Larger(Width - 1, Edge)
    BY MouseAssumption DEF Init, Larger
<1>3. reports \in 0 .. MaxReports /\ keys \in 0 .. MaxKeys
    BY MouseAssumption DEF Init
<1>4. port \in [from : {None, Keyboard, Aux}, val : Int]
    BY DEF Init, Empty
<1>5. mouse_present \in BOOLEAN /\ reporting \in BOOLEAN /\ mixed \in BOOLEAN
    BY DEF Init
<1>6. irq \subseteq {Keyboard, Aux} /\ serving \in {None, Keyboard, Aux}
    BY DEF Init
<1>7. {mouse_dx, old, step, moved, taken, lost} \subseteq Int
    BY DEF Init
<1>8. cycle \in 0 .. 2 /\ mouse_buttons \in 0 .. 7
    BY DEF Init
<1>9. pc \in {"install", "poll", "store", "add", "clear"}
    BY DEF Init
<1>10. QED
    BY <1>1, <1>2, <1>3, <1>4, <1>5, <1>6, <1>7, <1>8, <1>9 DEF TypeOK

\* Every step of the devices, the interrupts and the root task preserves it.
LEMMA NextTypes == TypeOK /\ [Next]_vars => TypeOK'
<1> SUFFICES ASSUME TypeOK, [Next]_vars PROVE TypeOK'
    OBVIOUS
<1>0. /\ \A dx \in Delta : dx \in Int
      /\ reports \in Nat /\ MaxReports \in Nat
      /\ mouse_dx \in Int /\ moved \in Int /\ lost \in Int
      /\ old \in Int /\ step \in Int /\ taken \in Int
    BY MouseAssumption DEF TypeOK
<1> USE MouseAssumption
<1> USE DEF TypeOK, None, Keyboard, Aux
<1>1. CASE mouse_install
    BY <1>1 DEF mouse_install, handlerVars, ghostVars
<1>2. CASE mouse_install_fails
  <2>1. toSend' \in Seq(Int)
    <3>1. Ack \in Int
        BY DEF Ack
    <3>2. << >> \in Seq(Int) /\ <<Ack>> \in Seq(Int)
        BY <3>1
    <3>3. QED
        BY <1>2, <3>2 DEF mouse_install_fails
  <2>2. QED
    BY <1>2, <2>1 DEF mouse_install_fails, handlerVars, ghostVars
<1>3. CASE MakeReport
  <2>1. toSend' \in Seq(Int) /\ reports' \in 0 .. MaxReports
    <3>1. PICK dx \in Delta, left \in 0 .. 1 : toSend' = <<8 + left, dx, 0>>
        BY <1>3 DEF MakeReport
    <3>2. dx \in Int /\ 8 + left \in Int
      <4> HIDE MouseAssumption DEF TypeOK
      <4> QED
        BY <1>0
    <3>3. toSend' \in Seq(Int)
        BY <3>1, <3>2
    <3>4. reports' \in 0 .. MaxReports
        BY <1>3 DEF MakeReport
    <3>5. QED
        BY <3>3, <3>4
  <2>2. UNCHANGED <<pc, mouse_present, reporting, keys, port, irq, serving, cycle, packet,
                    mouse_buttons, mouse_dx, m_cursor_x, old, step, moved, taken, lost, mixed>>
    BY <1>3 DEF MakeReport, handlerVars, ghostVars
  <2>3. QED
    BY <2>1, <2>2
<1>4. CASE MouseByte
  <2>1. toSend \in Seq(Int) /\ toSend # << >> /\ toSend' = Tail(toSend)
    BY <1>4 DEF MouseByte
  <2>2. toSend' \in Seq(Int) /\ Head(toSend) \in Int
    BY <2>1, HeadTail
  <2>3. QED
    BY <1>4, <2>2 DEF MouseByte, Arrives, handlerVars, ghostVars
<1>5. CASE KeyPressed
  <2>1. keys' \in 0 .. MaxKeys /\ irq' \subseteq {Keyboard, Aux}
    BY <1>5 DEF KeyPressed, Arrives
  <2>2. port' \in [from : {None, Keyboard, Aux}, val : Int]
    BY <1>5 DEF KeyPressed, Arrives
  <2>3. UNCHANGED <<pc, mouse_present, reporting, toSend, reports, serving, cycle, packet,
                    mouse_buttons, mouse_dx, m_cursor_x, old, step, moved, taken, lost, mixed>>
    BY <1>5 DEF KeyPressed, Arrives, handlerVars, ghostVars
  <2>4. QED
    BY <2>1, <2>2, <2>3
<1>6. ASSUME NEW n \in {Keyboard, Aux}, irq_handler(n) PROVE TypeOK'
    BY <1>6 DEF irq_handler, deviceVars, handlerVars, ghostVars
<1>7. CASE keyboard_callback
  <2>1. mixed' \in BOOLEAN
    BY <1>7 DEF keyboard_callback
  <2>2. QED
    BY <1>7, <2>1 DEF keyboard_callback, Empty, deviceVars, handlerVars, ghostVars
<1>8. CASE mouse_handler_idle
    BY <1>8 DEF mouse_handler_idle, deviceVars, handlerVars, ghostVars
<1>9. CASE mouse_handler
  <2>1. mixed' \in BOOLEAN
    BY <1>9 DEF mouse_handler
  <2> DEFINE got == [packet EXCEPT ![cycle + 1] = port.val]
  <2>2. got \in [1 .. 3 -> Int]
    OBVIOUS
  <2>3. packet' = got /\ cycle' \in 0 .. 2
    BY <1>9 DEF mouse_handler
  <2>4. mouse_buttons' \in 0 .. 7
    <3>1. got[1] \in Int
        BY <2>2
    <3>2. got[1] % 8 \in 0 .. 7
        BY <3>1, ButtonsRange
    <3>3. mouse_buttons' = IF cycle = 2 THEN got[1] % 8 ELSE mouse_buttons
        BY <1>9 DEF mouse_handler
    <3>4. QED
        BY <3>2, <3>3
  <2>5. {mouse_dx', moved', lost'} \subseteq Int
    <3>1. got[2] \in Int
        BY <2>2
    <3>2. /\ mouse_dx' \in {mouse_dx, mouse_dx + got[2]}
          /\ moved' \in {moved, moved + got[2]}
          /\ lost' \in {lost, lost + got[2]}
        BY <1>9 DEF mouse_handler
    <3> HIDE MouseAssumption DEF TypeOK, got
    <3>3. mouse_dx' \in Int /\ moved' \in Int /\ lost' \in Int
        BY <1>0, <3>1, <3>2
    <3>4. QED
        BY <3>3
  <2>6. /\ serving' = None /\ port' = Empty
        /\ UNCHANGED <<pc, mouse_present, reporting, toSend, reports, keys, irq,
                       m_cursor_x, old, step, taken>>
    BY <1>9 DEF mouse_handler, deviceVars
  <2>7. packet' \in [1 .. 3 -> Int] /\ cycle' \in 0 .. 2
    BY <2>2, <2>3
  <2> HIDE DEF got
  <2>8. port' \in [from : {None, Keyboard, Aux}, val : Int]
    BY <2>6 DEF Empty
  <2>9. QED
    BY <2>1, <2>4, <2>5, <2>6, <2>7, <2>8
<1>10. CASE poll_nothing
    BY <1>10 DEF poll_nothing, At, deviceVars, handlerVars, ghostVars
<1>11. CASE usb_hid_mouse_poll
  <2>1. reports' \in 0 .. MaxReports
    <3> HIDE MouseAssumption DEF TypeOK
    <3> QED
        BY <1>0, <1>11 DEF usb_hid_mouse_poll
  <2>2. old' \in Int /\ step' \in Int /\ mouse_buttons' \in 0 .. 7
    <3> HIDE MouseAssumption DEF TypeOK
    <3> QED
        BY <1>0, <1>11 DEF usb_hid_mouse_poll
  <2>3. /\ pc' = "store"
        /\ UNCHANGED <<mouse_present, reporting, toSend, keys, port, irq, serving,
                       cycle, packet, mouse_dx, m_cursor_x, moved, taken, lost, mixed>>
    BY <1>11 DEF usb_hid_mouse_poll, ghostVars
  <2>4. QED
    BY <2>1, <2>2, <2>3
<1>12. CASE poll_store
  <2>1. {mouse_dx, old, step, moved, taken, lost}' \subseteq Int
    <3> HIDE MouseAssumption DEF TypeOK
    <3>1. /\ mouse_dx' \in Int /\ old' \in Int /\ step' \in Int
          /\ moved' \in Int /\ taken' \in Int /\ lost' \in Int
        BY <1>0, <1>12 DEF poll_store, Stored
    <3>2. QED
        BY <3>1
  <2>2. /\ pc' = "add"
        /\ UNCHANGED <<mouse_present, reporting, toSend, reports, keys, port, irq, serving,
                       cycle, packet, mouse_buttons, m_cursor_x, mixed>>
    BY <1>12 DEF poll_store, deviceVars, handlerVars
  <2>3. QED
    BY <2>1, <2>2
<1>13. CASE NoMotion
    BY <1>13 DEF NoMotion, At, deviceVars, handlerVars, ghostVars
<1>14. CASE AddToCursor
  <2>1. m_cursor_x' \in 0 .. Larger(Width - 1, Edge)
    <3> DEFINE x == m_cursor_x + mouse_dx
    <3>1. m_cursor_x \in Int /\ mouse_dx \in Int
        BY DEF Larger
    <3>2. x \in Int
        BY <3>1
    <3> HIDE DEF x
    <3>3. Clamped(x) \in 0 .. Larger(Width - 1, Edge)
        BY <3>2 DEF Clamped, Larger
    <3>4. QED
        BY <1>14, <3>3 DEF AddToCursor, x
  <2>2. taken' \in Int /\ pc' = "clear"
    BY <1>14 DEF AddToCursor
  <2>3. UNCHANGED <<mouse_present, reporting, toSend, reports, keys, port, irq, serving, cycle,
                    packet, mouse_buttons, mouse_dx, old, step, moved, lost, mixed>>
    BY <1>14 DEF AddToCursor, deviceVars, handlerVars
  <2>4. QED
    BY <2>1, <2>2, <2>3
<1>15. CASE ClearDelta
    BY <1>15 DEF ClearDelta, At, deviceVars, handlerVars, ghostVars
<1>16. CASE UNCHANGED vars
    BY <1>16 DEF vars, deviceVars, handlerVars, ghostVars
<1>17. QED
    BY <1>1, <1>2, <1>3, <1>4, <1>5, <1>6, <1>7, <1>8, <1>9, <1>10, <1>11, <1>12,
       <1>13, <1>14, <1>15, <1>16
    DEF Next, Device, Interrupt, handle_mouse

-----------------------------------------------------------------------------
\* The variables have their types, whatever the devices do.
THEOREM TypeCorrect == Spec => []TypeOK
    BY InitTypes, NextTypes, PTL DEF Spec

-----------------------------------------------------------------------------
\* Both are zero at the start; a report adds to moved what it adds to
\* mouse_dx, or what is lost; the cursor takes what leaves Pending.
LEMMA NextMotion == TypeOK /\ MotionKept /\ [Next]_vars => MotionKept'
<1> SUFFICES ASSUME TypeOK, MotionKept, [Next]_vars PROVE MotionKept'
    OBVIOUS
<1> USE DEF MotionKept, Pending
<1> DEFINE Ints == /\ mouse_dx \in Int /\ old \in Int /\ step \in Int
                   /\ moved \in Int /\ taken \in Int /\ lost \in Int
<1>0. Ints
    BY DEF TypeOK
<1>1. CASE mouse_install \/ mouse_install_fails
    BY <1>1 DEF mouse_install, mouse_install_fails, ghostVars
<1>2. CASE Device
    BY <1>2 DEF Device, MakeReport, MouseByte, KeyPressed, Arrives, ghostVars
<1>3. ASSUME NEW n \in {Keyboard, Aux}, irq_handler(n) PROVE MotionKept'
    BY <1>3 DEF irq_handler, ghostVars
<1>4. CASE keyboard_callback \/ mouse_handler_idle
    BY <1>4 DEF keyboard_callback, mouse_handler_idle, ghostVars
<1>5. CASE mouse_handler
  <2> DEFINE motion == [packet EXCEPT ![cycle + 1] = port.val][2]
  <2>1. motion \in Int
    BY DEF TypeOK
  <2>2. /\ mouse_dx' = IF cycle = 2 THEN mouse_dx + motion ELSE mouse_dx
        /\ moved' = IF cycle = 2 THEN moved + motion ELSE moved
        /\ lost' = IF cycle = 2 /\ InBetween THEN lost + motion ELSE lost
        /\ UNCHANGED <<pc, old, taken>>
    BY <1>5 DEF mouse_handler
  <2> HIDE DEF motion
  <2>3. QED
    BY <1>0, <2>1, <2>2 DEF InBetween
<1>6. CASE poll_nothing \/ usb_hid_mouse_poll
    BY <1>6 DEF poll_nothing, usb_hid_mouse_poll, At, ghostVars
<1>7. CASE poll_store
    BY <1>0, <1>7 DEF poll_store, Stored, At
<1>8. CASE NoMotion
    BY <1>8 DEF NoMotion, At, ghostVars
<1>9. CASE AddToCursor
    BY <1>0, <1>9 DEF AddToCursor, At
<1>10. CASE ClearDelta
    BY <1>0, <1>10 DEF ClearDelta, At, ghostVars
<1>11. CASE UNCHANGED vars
    BY <1>11 DEF vars, ghostVars
<1>12. QED
    BY <1>1, <1>2, <1>3, <1>4, <1>5, <1>6, <1>7, <1>8, <1>9, <1>10, <1>11
    DEF Next, Interrupt, handle_mouse

\* However interrupts, USB reports and the compositor interleave, motion is
\* given to the cursor once, and only what comes in between two steps is lost.
THEOREM MotionAccounted == Spec => []MotionKept
<1>1. Init => MotionKept
    BY DEF Init, MotionKept, Pending
<1>2. QED
    BY <1>1, InitTypes, NextTypes, NextMotion, PTL DEF Spec

-----------------------------------------------------------------------------
\* The places of the bytes are kept by every step.
LEMMA NextPlaces == IInv /\ [Next]_vars => IInv'
<1> SUFFICES ASSUME IInv, [Next]_vars PROVE IInv'
    OBVIOUS
<1> USE DEF None, Keyboard, Aux, ButtonsByte
<1>1. TypeOK /\ TypeOK'
    BY NextTypes DEF IInv
<1>2. toSend \in Seq(Int) /\ cycle \in 0 .. 2 /\ port.from \in {0, 1, 12} /\ port.val \in Int
      /\ packet \in [1 .. 3 -> Int]
    BY <1>1 DEF TypeOK
<1>3. Quiet'
  <2>1. CASE mouse_install \/ mouse_install_fails
    BY <2>1 DEF mouse_install, mouse_install_fails, Quiet
  <2>2. CASE Device
    BY <2>2 DEF Device, MakeReport, MouseByte, KeyPressed, Arrives, IInv, Quiet,
                handlerVars
  <2>3. CASE Interrupt
    BY <2>3 DEF Interrupt, irq_handler, keyboard_callback, mouse_handler_idle,
                mouse_handler, IInv, Quiet, deviceVars, handlerVars
  <2>4. CASE handle_mouse
    BY <2>4 DEF handle_mouse, poll_nothing, usb_hid_mouse_poll, poll_store, NoMotion,
                AddToCursor, ClearDelta, Quiet
  <2>5. CASE UNCHANGED vars
    BY <2>5 DEF vars, deviceVars, handlerVars, IInv, Quiet
  <2>6. QED
    BY <2>1, <2>2, <2>3, <2>4, <2>5 DEF Next
<1>4. ASSUME mouse_present', ~mixed' PROVE InPlace'
  <2>1. CASE mouse_install
    BY <2>1 DEF mouse_install, IInv, Quiet, InPlace, Empty, handlerVars
  <2>2. CASE mouse_install_fails
    BY <2>2, <1>4 DEF mouse_install_fails, IInv, Quiet
  <2>3. CASE MakeReport
    <3>1. InPlace /\ toSend = << >>
        BY <1>4, <2>3 DEF MakeReport, IInv, ghostVars
    <3>2. Len(toSend') = 3 /\ toSend'[1] \in {8, 9}
      <4>1. PICK dx \in Delta, left \in 0 .. 1 : toSend' = <<8 + left, dx, 0>>
          BY <2>3 DEF MakeReport
      <4>2. QED
          BY <4>1
    <3>3. UNCHANGED <<port, cycle, packet, mouse_buttons>>
        BY <2>3 DEF MakeReport, handlerVars
    <3>4. QED
        BY <1>2, <3>1, <3>2, <3>3 DEF InPlace
  <2>4. CASE MouseByte
    <3>1. InPlace /\ toSend # << >> /\ port = Empty
        BY <1>4, <2>4 DEF MouseByte, Arrives, IInv, ghostVars
    <3>2. /\ port' = [from |-> 12, val |-> toSend[1]]
          /\ toSend' = Tail(toSend)
          /\ UNCHANGED <<cycle, packet, mouse_buttons>>
        BY <1>2, <3>1, <2>4, HeadTail DEF MouseByte, Arrives, handlerVars
    <3>3. Len(toSend) \in Nat /\ Len(toSend) # 0 /\ Len(toSend') = Len(toSend) - 1
        BY <1>2, <3>1, <3>2, HeadTail
    <3>4. port'.from = 12 /\ port'.val = toSend[1] /\ port.from = 0
        BY <3>1, <3>2 DEF Empty
    <3>5. Len(toSend) = 3 - cycle
        BY <1>2, <3>1, <3>3, <3>4 DEF InPlace
    <3>6. Len(toSend') = 2 - cycle' /\ Len(toSend') # 3
      <4>1. cycle' = cycle
          BY <3>2
      <4>2. QED
          BY <1>2, <3>3, <3>5, <4>1
    <3>7. cycle' = 0 => ButtonsByte(port'.val)
        BY <1>2, <3>1, <3>2, <3>4, <3>5 DEF InPlace
    <3>8. mouse_buttons' \in 0 .. 1 /\ (cycle' > 0 => ButtonsByte(packet'[1]))
        BY <3>1, <3>2 DEF InPlace
    <3>9. QED
        BY <3>4, <3>6, <3>7, <3>8 DEF InPlace
  <2>5. CASE KeyPressed
    <3>1. InPlace /\ port.from = 0 /\ port'.from = 1
        BY <1>4, <2>5 DEF KeyPressed, Arrives, IInv, ghostVars, Empty
    <3>2. UNCHANGED <<toSend, cycle, packet, mouse_buttons>>
        BY <2>5 DEF KeyPressed, Arrives, handlerVars
    <3>3. QED
        BY <3>1, <3>2 DEF InPlace
  <2>6. CASE keyboard_callback
    <3>1. InPlace /\ port.from # 12 /\ port'.from = 0
        BY <1>4, <2>6 DEF keyboard_callback, IInv, Empty
    <3>2. UNCHANGED <<toSend, cycle, packet, mouse_buttons>>
        BY <2>6 DEF keyboard_callback, deviceVars, handlerVars
    <3>3. QED
        BY <3>1, <3>2 DEF InPlace
  <2>7. CASE mouse_handler
    <3>1. InPlace /\ port.from # 1 /\ port # Empty
        BY <1>4, <2>7 DEF mouse_handler, ByteThere, IInv
    <3>2. port.from = 12
      <4>1. port.from = 12 \/ port.from = 0
          BY <1>2, <3>1
      <4>2. QED
          BY <1>1, <3>1, <4>1 DEF IInv, NothingAtPort, Empty
    <3>3. /\ port'.from = 0 /\ toSend' = toSend
          /\ cycle' = IF cycle = 2 THEN 0 ELSE cycle + 1
        BY <2>7 DEF mouse_handler, Empty, deviceVars
    <3>4. packet'[1] = IF cycle = 0 THEN port.val ELSE packet[1]
        BY <1>2, <2>7 DEF mouse_handler
    <3>5. mouse_buttons' = IF cycle = 2 THEN packet'[1] % 8 ELSE mouse_buttons
        BY <2>7 DEF mouse_handler
    <3>6. ButtonsByte(packet'[1])
        BY <1>2, <3>1, <3>2, <3>4 DEF InPlace
    <3>7. mouse_buttons' \in 0 .. 1
        BY <3>1, <3>5, <3>6, ByteRemainders DEF InPlace
    <3>8. Len(toSend) \in Nat
        BY <1>2
    <3>9. Len(toSend') = 3 - cycle' \/ (cycle' = 0 /\ Len(toSend') = 0)
        BY <1>2, <3>1, <3>2, <3>3, <3>8 DEF InPlace
    <3>10. Len(toSend') = 3 => ButtonsByte(toSend'[1])
        BY <3>1, <3>3 DEF InPlace
    <3>11. QED
        BY <3>3, <3>6, <3>7, <3>9, <3>10 DEF InPlace
  <2>8. CASE usb_hid_mouse_poll
    <3>1. InPlace /\ mouse_buttons' \in 0 .. 1
        BY <1>4, <2>8 DEF usb_hid_mouse_poll, IInv, ghostVars
    <3>2. UNCHANGED <<toSend, port, cycle, packet>>
        BY <2>8 DEF usb_hid_mouse_poll
    <3>3. QED
        BY <3>1, <3>2 DEF InPlace
  <2>9. CASE UNCHANGED <<mouse_present, mixed, toSend, port, cycle, packet, mouse_buttons>>
    BY <1>4, <2>9 DEF InPlace, IInv
  <2>10. QED
    BY <2>1, <2>2, <2>3, <2>4, <2>5, <2>6, <2>7, <2>8, <2>9
    DEF Next, Device, Interrupt, handle_mouse, irq_handler, mouse_handler_idle,
        poll_nothing, poll_store, NoMotion, AddToCursor, ClearDelta,
        vars, deviceVars, handlerVars, ghostVars
<1>5. NothingAtPort'
    BY DEF IInv, NothingAtPort, Next, Device, Interrupt, handle_mouse, mouse_install,
           mouse_install_fails, MakeReport, MouseByte, KeyPressed, Arrives, irq_handler,
           keyboard_callback, mouse_handler_idle, mouse_handler,
           poll_nothing, usb_hid_mouse_poll, poll_store, NoMotion, AddToCursor, ClearDelta,
           vars, deviceVars, handlerVars, ghostVars, Empty
<1>6. QED
    BY <1>1, <1>3, <1>4, <1>5 DEF IInv

\* When every byte is in its place the cycle begins where the reports begin.
LEMMA PlacesFrame == IInv => Framed
<1> SUFFICES ASSUME TypeOK, InPlace, mouse_present, ~mixed PROVE Framed
    BY DEF IInv, Framed
<1>1. cycle \in 0 .. 2 /\ Len(toSend) \in Nat
    BY DEF TypeOK
<1> DEFINE total == cycle + Len(toSend) + (IF port.from = Aux THEN 1 ELSE 0)
<1>2. total \in {0, 3, 6}
  <2>1. CASE port.from = Aux
    <3>1. Len(toSend) = 2 - cycle \/ (cycle = 2 /\ Len(toSend) = 3)
        BY <2>1 DEF InPlace
    <3>2. total = cycle + Len(toSend) + 1
        BY <2>1
    <3> HIDE DEF total
    <3>3. CASE Len(toSend) = 2 - cycle
        BY <1>1, <3>2, <3>3
    <3>4. CASE cycle = 2 /\ Len(toSend) = 3
        BY <3>2, <3>4
    <3>5. QED
        BY <3>1, <3>3, <3>4
  <2>2. CASE port.from # Aux
    BY <1>1, <2>2 DEF InPlace
  <2>3. QED
    BY <2>1, <2>2
<1>3. 0 % 3 = 0 /\ 3 % 3 = 0 /\ 6 % 3 = 0
    BY SMT
<1>4. total % 3 = 0
    BY <1>2, <1>3
<1>5. QED
    BY <1>4 DEF Framed, InPlace

\* As long as no handler takes a byte of the other device, mouse_handler() keeps
\* step with the reports, whatever request the installation leaves behind.
THEOREM FramingKept == Spec => []Framed
<1>1. Init => IInv
  <2> SUFFICES ASSUME Init PROVE IInv
    OBVIOUS
  <2>1. TypeOK
    BY InitTypes
  <2>2. Quiet /\ NothingAtPort
    BY DEF Init, Quiet, NothingAtPort
  <2>3. ~mouse_present
    BY DEF Init
  <2>4. QED
    BY <2>1, <2>2, <2>3 DEF IInv
<1>2. QED
    BY <1>1, NextPlaces, PlacesFrame, PTL DEF Spec

-----------------------------------------------------------------------------
(* Keyboard. *)

AnyKey == Characters \cup {Newline}

KeyTypes ==
    /\ reader \in {"away", "clear_tail", "clear_count", "clear_enter", "wait", "read",
                   "take", "count"}
    /\ keyboard_buffer \in [Slots -> AnyKey]
    /\ buffer_head \in Slots /\ buffer_tail \in Slots
    /\ buffer_count \in Int /\ seen \in Int
    /\ pending \in Seq(AnyKey) /\ line \in Seq(AnyKey) /\ due \in Seq(AnyKey)
    /\ taken_key \in AnyKey

\* The slot n slots on from slot t.
SlotAt(t, n) == IF t + n < BufferSize THEN t + n ELSE t + n - BufferSize

\* The ring b, from slot t up to the head h, holds the keys of s.
Holds(b, h, t, s) ==
    /\ Len(s) < BufferSize
    /\ h = SlotAt(t, Len(s))
    /\ \A i \in 1 .. Len(s) : b[SlotAt(t, i - 1)] = s[i]

\* The ring as it is does.
InRing(s) == Holds(keyboard_buffer, buffer_head, buffer_tail, s)

\* What is true of the ring at each of the reader's labels.  While a key is
\* being taken the tail is ahead of the count; while the ring is being emptied
\* its ends are not where the count says.
RingInStep ==
    /\ ~Halfway => buffer_count = Len(pending) /\ InRing(pending)
    /\ reader = "clear_tail" => buffer_head = 0
    /\ reader = "clear_count" => buffer_head = 0 /\ buffer_tail = 0
    /\ reader = "take" => /\ buffer_count = Len(pending) /\ InRing(pending)
                          /\ pending # << >> /\ seen = buffer_count
    /\ reader = "count" =>
         /\ buffer_count = Len(pending) /\ pending # << >> /\ seen = buffer_count
         /\ taken_key = Head(pending) /\ InRing(Tail(pending))

\* The line leaves a place for its zero; while a key is being taken there is one
\* for the key as well.
LineFits ==
    /\ Len(line) < LineSize
    /\ reader \in {"take", "count"} => HasRoom

KeyInv == KeyTypes /\ LineFits /\ (~crossed => RingInStep /\ line = due)

KeyboardSpec == KeyboardInit /\ [][KeyboardNext]_keyboardVars

\* The remainder of a number below the divisor, and of one a divisor above it.
LEMMA RemainderBelow ==
    ASSUME NEW b \in Nat \ {0}, NEW y \in 0 .. b - 1
    PROVE  y % b = y
BY SMT

\* A multiple of b that is not 0 lies b or more away from it.
LEMMA Multiple ==
    ASSUME NEW b \in Nat \ {0}, NEW q \in Int, q <= -1 \/ q >= 1
    PROVE  b * q <= -b \/ b * q >= b
BY SMT

\* The remainder of a number that went past b once.
LEMMA RemainderAbove ==
    ASSUME NEW b \in Nat \ {0}, NEW y \in 0 .. b - 1
    PROVE  (y + b) % b = y
<1> DEFINE q == (y + b) \div b
           r == (y + b) % b
           d == b * (q - 1)
<1>1. y + b \in Int
    OBVIOUS
<1>2. y + b = b * q + r
    BY <1>1, SMT
<1>3. r \in 0 .. b - 1 /\ q \in Int /\ q - 1 \in Int
    BY <1>1, SMT
<1> HIDE DEF q, r
<1>4. b * q = d + b /\ d \in Int
    BY <1>3, SMT
<1>5. q - 1 = 0 \/ d <= -b \/ d >= b
    BY <1>3, Multiple, SMT
<1>6. q - 1 = 0 => d = 0
    BY SMT
<1> HIDE DEF d
<1>7. d = 0
    BY <1>2, <1>3, <1>4, <1>5, <1>6, SMT
<1>8. r = y
    BY <1>2, <1>3, <1>4, <1>7, SMT
<1> QED
    BY <1>8 DEF r

\* A slot number wraps at most once.
LEMMA Wraps ==
    ASSUME NEW t \in Slots, NEW n \in 0 .. BufferSize
    PROVE  (t + n) % BufferSize = SlotAt(t, n) /\ SlotAt(t, n) \in Slots
<1> DEFINE B == BufferSize
           x == t + n
<1>1. B \in Nat \ {0} /\ t \in 0 .. B - 1 /\ n \in 0 .. B /\ x \in 0 .. 2 * B - 1
    BY RingAssumption DEF Slots
<1>2. x = t + n
    OBVIOUS
<1>3. SlotAt(t, n) = IF x < B THEN x ELSE x - B
    BY <1>1 DEF SlotAt
<1>4. Slots = 0 .. B - 1
    BY DEF Slots
<1> HIDE DEF B, x
<1>5. x % B = IF x < B THEN x ELSE x - B
  <2>1. CASE x < B
    <3>1. x \in 0 .. B - 1
        BY <1>1, <2>1
    <3> QED
        BY <1>1, <2>1, <3>1, RemainderBelow
  <2>2. CASE ~(x < B)
    <3>1. x - B \in 0 .. B - 1 /\ (x - B) + B = x
        BY <1>1, <2>2
    <3>2. ((x - B) + B) % B = x - B
        BY <1>1, <3>1, RemainderAbove
    <3> QED
        BY <1>1, <2>2, <3>1, <3>2
  <2> QED
    BY <2>1, <2>2
<1> QED
    BY <1>1, <1>2, <1>3, <1>4, <1>5 DEF B

\* A key that is put where there is room becomes the last one due.
LEMMA PutHolds ==
    ASSUME NEW b \in [Slots -> AnyKey], NEW h \in Slots, NEW t \in Slots, NEW s \in Seq(AnyKey),
           Holds(b, h, t, s), Len(s) < BufferSize - 1, NEW c \in AnyKey
    PROVE  Holds([b EXCEPT ![h] = c], (h + 1) % BufferSize, t, Append(s, c))
<1> DEFINE n == Len(s)
<1>1. n \in Nat /\ n < BufferSize - 1 /\ BufferSize \in Nat \ {0} /\ t \in 0 .. BufferSize - 1
    BY RingAssumption DEF Slots
<1>2. Len(Append(s, c)) = n + 1
    OBVIOUS
<1>3. \A i \in 1 .. n + 1 : Append(s, c)[i] = IF i = n + 1 THEN c ELSE s[i]
    OBVIOUS
<1>4. h = SlotAt(t, n) /\ \A i \in 1 .. n : b[SlotAt(t, i - 1)] = s[i]
    BY DEF Holds
<1> DEFINE new_b == [b EXCEPT ![h] = c]
           new_h == (h + 1) % BufferSize
<1>5. new_b = [b EXCEPT ![h] = c] /\ new_h = (h + 1) % BufferSize
    OBVIOUS
<1> HIDE DEF n, new_b, new_h
<1>6. new_h = SlotAt(t, n + 1)
  <2>1. (h + 1) % BufferSize = SlotAt(h, 1)
    BY <1>1, <1>5, Wraps
  <2>2. SlotAt(SlotAt(t, n), 1) = SlotAt(t, n + 1)
    BY <1>1 DEF SlotAt
  <2> QED
    BY <1>4, <1>5, <2>1, <2>2
<1>7. ASSUME NEW i \in 1 .. n + 1
      PROVE  new_b[SlotAt(t, i - 1)] = Append(s, c)[i]
  <2>1. SlotAt(t, i - 1) \in Slots
    BY <1>1, Wraps
  <2>2. CASE i = n + 1
    <3>1. i - 1 = n
        BY <1>1, <2>2
    <3>2. new_b[h] = c
        BY <1>5
    <3>3. SlotAt(t, i - 1) = h
        BY <1>4, <3>1
    <3> QED
        BY <1>3, <2>2, <3>2, <3>3
  <2>3. CASE i # n + 1
    <3>1. i \in 1 .. n
        BY <1>1, <2>3
    <3>2. SlotAt(t, i - 1) # SlotAt(t, n)
        BY <1>1, <3>1 DEF SlotAt
    <3>3. new_b[SlotAt(t, i - 1)] = b[SlotAt(t, i - 1)]
        BY <1>4, <1>5, <2>1, <3>2
    <3> QED
        BY <1>3, <1>4, <2>3, <3>1, <3>3
  <2> QED
    BY <2>2, <2>3
<1>8. Holds(new_b, new_h, t, Append(s, c))
    BY <1>1, <1>2, <1>6, <1>7 DEF Holds
<1> QED
    BY <1>8 DEF new_b, new_h

\* A key that is taken back was the last one due.
LEMMA EraseHolds ==
    ASSUME NEW b, NEW h \in Slots, NEW t \in Slots, NEW s \in Seq(AnyKey), s # << >>,
           Holds(b, h, t, s)
    PROVE  Holds(b, (h - 1 + BufferSize) % BufferSize, t, SubSeq(s, 1, Len(s) - 1))
<1> DEFINE n == Len(s)
           r == SubSeq(s, 1, n - 1)
           new_h == (h - 1 + BufferSize) % BufferSize
<1>1. n \in Nat \ {0} /\ n < BufferSize /\ BufferSize \in Nat \ {0}
      /\ t \in 0 .. BufferSize - 1 /\ h \in 0 .. BufferSize - 1
    BY RingAssumption DEF Slots, Holds
<1>2. Len(r) = n - 1 /\ \A i \in 1 .. n - 1 : r[i] = s[i]
  <2> DEFINE m == n - 1
  <2>1. m \in Nat /\ m \in Int /\ \A i \in 1 .. m : s[i] \in AnyKey
    BY <1>1
  <2> HIDE DEF m
  <2>2. Len(SubSeq(s, 1, m)) = m /\ \A i \in 1 .. m : SubSeq(s, 1, m)[i] = s[i]
    BY <2>1, SubSeqProperties, SMT
  <2> QED
    BY <2>2 DEF m
<1>3. h = SlotAt(t, n) /\ \A i \in 1 .. n : b[SlotAt(t, i - 1)] = s[i]
    BY DEF Holds
<1> HIDE DEF n, r
<1>4. new_h = SlotAt(t, n - 1)
  <2>1. h \in Slots /\ BufferSize - 1 \in 0 .. BufferSize
    BY <1>1 DEF Slots
  <2>2. (h + (BufferSize - 1)) % BufferSize = SlotAt(h, BufferSize - 1)
    BY <2>1, Wraps
  <2>3. h - 1 + BufferSize = h + (BufferSize - 1)
    BY <1>1
  <2>4. SlotAt(SlotAt(t, n), BufferSize - 1) = SlotAt(t, n - 1)
    BY <1>1 DEF SlotAt
  <2> QED
    BY <1>3, <2>2, <2>3, <2>4 DEF new_h
<1> HIDE DEF new_h
<1>5. Holds(b, new_h, t, r)
    BY <1>1, <1>2, <1>3, <1>4 DEF Holds
<1> QED
    BY <1>5 DEF n, r, new_h

\* The first key due is the one at the tail, and the others follow it.
LEMMA TailHolds ==
    ASSUME NEW b, NEW h, NEW t \in Slots, NEW s \in Seq(AnyKey), s # << >>, Holds(b, h, t, s)
    PROVE  b[t] = Head(s) /\ Holds(b, h, SlotAt(t, 1), Tail(s))
<1> DEFINE n == Len(s)
           r == Tail(s)
           u == SlotAt(t, 1)
<1>1. n \in Nat \ {0} /\ n < BufferSize /\ BufferSize \in Nat \ {0} /\ t \in 0 .. BufferSize - 1
    BY RingAssumption DEF Slots, Holds
<1>2. Len(r) = n - 1 /\ (\A i \in 1 .. n - 1 : r[i] = s[i + 1]) /\ Head(s) = s[1]
    BY <1>1
<1>3. h = SlotAt(t, n) /\ \A i \in 1 .. n : b[SlotAt(t, i - 1)] = s[i]
    BY DEF Holds
<1>4. u = SlotAt(t, 1)
    OBVIOUS
<1> HIDE DEF n, r, u
<1>5. h = SlotAt(u, n - 1)
    BY <1>1, <1>3, <1>4 DEF SlotAt
<1>6. ASSUME NEW i \in 1 .. n - 1
      PROVE  b[SlotAt(u, i - 1)] = r[i]
  <2>1. SlotAt(u, i - 1) = SlotAt(t, (i + 1) - 1)
    BY <1>1, <1>4 DEF SlotAt
  <2>2. i + 1 \in 1 .. n
    BY <1>1
  <2> QED
    BY <1>2, <1>3, <2>1, <2>2
<1>7. b[t] = Head(s)
  <2>1. SlotAt(t, 1 - 1) = t /\ 1 \in 1 .. n
    BY <1>1 DEF SlotAt
  <2> QED
    BY <1>2, <1>3, <2>1
<1>8. Holds(b, h, u, r)
    BY <1>1, <1>2, <1>5, <1>6 DEF Holds
<1> QED
    BY <1>7, <1>8 DEF n, r, u

\* An empty ring holds nothing.
LEMMA EmptyHolds ==
    ASSUME NEW b, NEW t \in Slots
    PROVE  Holds(b, t, t, << >>)
BY RingAssumption DEF Holds, SlotAt, Slots

\* The types are kept by every step, whatever is in the ring.
LEMMA KeyTypesKept ==
    ASSUME KeyTypes, [KeyboardNext]_keyboardVars
    PROVE  KeyTypes'
<1> DEFINE n == Len(pending) - 1
<1>1. BufferSize \in Nat \ {0} /\ 0 \in Slots /\ Newline \in AnyKey
    BY RingAssumption DEF Slots, AnyKey
<1>2. \A x \in Int : x % BufferSize \in Slots
    BY <1>1, SMT DEF Slots
<1>3. buffer_head \in Int /\ buffer_tail \in Int
    BY DEF KeyTypes, Slots
<1>4. pending # << >> =>
        Tail(pending) \in Seq(AnyKey) /\ Head(pending) \in AnyKey /\ SubSeq(pending, 1, n) \in Seq(AnyKey)
  <2> SUFFICES ASSUME pending # << >>
               PROVE  Tail(pending) \in Seq(AnyKey) /\ Head(pending) \in AnyKey
                      /\ SubSeq(pending, 1, n) \in Seq(AnyKey)
    OBVIOUS
  <2>1. n \in Int /\ \A i \in 1 .. n : pending[i] \in AnyKey
    BY DEF KeyTypes
  <2> HIDE DEF n
  <2>2. SubSeq(pending, 1, n) \in Seq(AnyKey)
    BY <2>1, SubSeqProperties
  <2> QED
    BY <2>2 DEF KeyTypes
<1>5. ASSUME NEW c \in AnyKey, PutKey(c), Pressed
      PROVE  KeyTypes'
  <2>1. buffer_head' \in Slots /\ keyboard_buffer' \in [Slots -> AnyKey] /\ buffer_count' \in Int
    BY <1>2, <1>3, <1>5 DEF PutKey, KeyTypes
  <2>2. pending' \in Seq(AnyKey)
    BY <1>5 DEF PutKey, KeyTypes
  <2> QED
    BY <1>5, <2>1, <2>2 DEF PutKey, Pressed, readerVars, KeyTypes
<1>6. ASSUME RingAsItIs, Pressed
      PROVE  KeyTypes'
    BY <1>6 DEF RingAsItIs, ringVars, Pressed, readerVars, KeyTypes
<1>7. CASE keyboard_press
  <2>1. CASE EnterKey
    BY <1>1, <1>5, <1>6, <2>1 DEF EnterKey
  <2>2. CASE BackspaceKey /\ Erasable
    <3>1. buffer_head' = (buffer_head - 1 + BufferSize) % BufferSize
          /\ buffer_count' = buffer_count - 1
        BY <2>2 DEF BackspaceKey
    <3>2. buffer_head - 1 + BufferSize \in Int /\ buffer_count' \in Int
        BY <1>1, <1>3, <3>1 DEF KeyTypes
    <3>3. buffer_head' \in Slots
        BY <1>2, <3>1, <3>2
    <3>4. pending' \in Seq(AnyKey)
        BY <1>4, <2>2 DEF BackspaceKey, KeyTypes
    <3> QED
        BY <2>2, <3>2, <3>3, <3>4 DEF BackspaceKey, Pressed, readerVars, KeyTypes
  <2>3. CASE BackspaceKey /\ ~Erasable
    BY <1>6, <2>3 DEF BackspaceKey
  <2>4. CASE CharacterKey
    BY <1>5, <1>6, <2>4 DEF CharacterKey, AnyKey
  <2>5. CASE IgnoredKey
    BY <1>6, <2>5 DEF IgnoredKey
  <2> QED
    BY <1>7, <2>1, <2>2, <2>3, <2>4, <2>5 DEF keyboard_press
<1>8. CASE sys_read_compat
  <2>1. CASE sys_read_starts
    BY <1>1, <2>1 DEF sys_read_starts, ReaderStep, KeyTypes
  <2>2. CASE clear_tail
    BY <1>1, <2>2 DEF clear_tail, ReaderStep, KeyTypes
  <2>3. CASE clear_count
    BY <2>3 DEF clear_count, ReaderStep, KeyTypes
  <2>4. CASE clear_enter
    BY <2>4 DEF clear_enter, ReaderStep, ringVars, KeyTypes
  <2>5. CASE wait_for_enter
    BY <2>5 DEF wait_for_enter, ReaderStep, ringVars, KeyTypes
  <2>6. CASE line_ends
    BY <2>6 DEF line_ends, ReaderStep, ringVars, KeyTypes
  <2>7. CASE key_there
    BY <2>7 DEF key_there, ReaderStep, ringVars, KeyTypes
  <2>8. CASE take_key
    BY <1>2, <1>3, <2>8 DEF take_key, ReaderStep, KeyTypes
  <2>9. CASE count_key
    <3>1. line' \in Seq(AnyKey) /\ due' \in Seq(AnyKey) /\ pending' \in Seq(AnyKey)
        BY <1>4, <2>9 DEF count_key, KeyTypes
    <3>2. buffer_count' \in Int
        BY <2>9 DEF count_key, KeyTypes
    <3> QED
        BY <2>9, <3>1, <3>2 DEF count_key, ReaderStep, KeyTypes
  <2> QED
    BY <1>8, <2>1, <2>2, <2>3, <2>4, <2>5, <2>6, <2>7, <2>8, <2>9 DEF sys_read_compat
<1>9. CASE UNCHANGED keyboardVars
    BY <1>9 DEF keyboardVars, readerVars, ringVars, KeyTypes
<1> QED
    BY <1>7, <1>8, <1>9 DEF KeyboardNext

\* A key pressed between two reads of keys leaves the ring in step.
LEMMA PressKeepsRing ==
    ASSUME KeyTypes, RingInStep, keyboard_press, ~crossed'
    PROVE  RingInStep'
<1>1. readerVars' = readerVars /\ reader' = reader
    BY DEF keyboard_press, EnterKey, BackspaceKey, CharacterKey, IgnoredKey, Pressed, readerVars
<1>2. ASSUME RingAsItIs
      PROVE  RingInStep'
    BY <1>1, <1>2 DEF RingAsItIs, ringVars, readerVars, RingInStep, Halfway, InRing
<1>3. ASSUME NEW c \in AnyKey, PutKey(c), ~is_buffer_full
      PROVE  RingInStep'
  <2>1. ~Halfway /\ ~Halfway'
    BY <1>1, <1>3 DEF PutKey, Halfway
  <2>2. buffer_count = Len(pending) /\ InRing(pending)
    BY <2>1 DEF RingInStep
  <2>3. Len(pending) < BufferSize - 1 /\ pending \in Seq(AnyKey) /\ buffer_tail \in Slots
    BY <1>3, <2>2, RingAssumption DEF is_buffer_full, KeyTypes
  <2>4. pending' = Append(pending, c) /\ buffer_tail' = buffer_tail
        /\ buffer_count' = buffer_count + 1
    BY <1>3, <2>3 DEF PutKey
  <2>5. InRing(pending)'
    BY <1>3, <2>2, <2>3, <2>4, PutHolds DEF InRing, KeyTypes, PutKey
  <2>6. buffer_count' = Len(pending')
    BY <2>2, <2>3, <2>4
  <2> QED
    BY <2>1, <2>4, <2>5, <2>6 DEF RingInStep, Halfway
<1>4. CASE BackspaceKey /\ Erasable
  <2>1. ~Halfway /\ ~Halfway'
    BY <1>1, <1>4 DEF BackspaceKey, Halfway
  <2>2. buffer_count = Len(pending) /\ InRing(pending)
    BY <2>1 DEF RingInStep
  <2>3. pending # << >> /\ pending \in Seq(AnyKey) /\ buffer_tail \in Slots
    BY <1>4, <2>2 DEF Erasable, KeyTypes
  <2>4. pending' = SubSeq(pending, 1, Len(pending) - 1) /\ buffer_tail' = buffer_tail
        /\ buffer_count' = buffer_count - 1 /\ keyboard_buffer' = keyboard_buffer
        /\ buffer_head' = (buffer_head - 1 + BufferSize) % BufferSize
    BY <1>4, <2>3 DEF BackspaceKey
  <2>5. InRing(pending)'
    BY <2>2, <2>3, <2>4, EraseHolds DEF InRing, KeyTypes
  <2>6. buffer_count' = Len(pending')
    BY <2>2, <2>3, <2>4
  <2> QED
    BY <2>1, <2>4, <2>5, <2>6 DEF RingInStep, Halfway
<1>5. Newline \in AnyKey /\ Characters \subseteq AnyKey
    BY DEF AnyKey
<1> QED
    BY <1>2, <1>3, <1>4, <1>5 DEF keyboard_press, EnterKey, BackspaceKey, CharacterKey, IgnoredKey

\* So does each step of the reader.
LEMMA ReadKeepsRing ==
    ASSUME KeyTypes, RingInStep, line = due, sys_read_compat
    PROVE  RingInStep' /\ line' = due'
<1>1. BufferSize \in Nat \ {0} /\ 0 \in Slots
    BY RingAssumption DEF Slots
<1>2. CASE sys_read_starts
    BY <1>2 DEF sys_read_starts, ReaderStep, RingInStep, Halfway
<1>3. CASE clear_tail
    BY <1>3 DEF clear_tail, ReaderStep, RingInStep, Halfway
<1>4. CASE clear_count
  <2>1. buffer_head' = buffer_tail' /\ buffer_tail' \in Slots /\ pending' = << >>
        /\ buffer_count' = 0 /\ line' = due'
    BY <1>1, <1>4 DEF clear_count, ReaderStep, RingInStep
  <2>2. InRing(pending)'
    BY <2>1, EmptyHolds DEF InRing
  <2> QED
    BY <1>4, <2>1, <2>2 DEF clear_count, ReaderStep, RingInStep, Halfway
<1>5. CASE clear_enter \/ wait_for_enter \/ line_ends \/ key_there
  <2>1. UNCHANGED ringVars /\ pending' = pending /\ line' = due' /\ ~Halfway
        /\ reader' \in {"wait", "read", "away", "take"}
    BY <1>5 DEF clear_enter, wait_for_enter, line_ends, key_there, ReaderStep, Halfway
  <2>2. buffer_count' = Len(pending') /\ InRing(pending)'
    BY <2>1 DEF RingInStep, InRing, ringVars
  <2>3. reader' = "take" => pending # << >> /\ seen' = buffer_count
    BY <1>5, <2>1 DEF clear_enter, wait_for_enter, line_ends, key_there, ReaderStep,
                      is_buffer_empty, RingInStep
  <2> QED
    BY <2>1, <2>2, <2>3 DEF RingInStep, Halfway, ringVars
<1>6. CASE take_key
  <2>1. reader = "take" /\ reader' = "count" /\ buffer_tail' = (buffer_tail + 1) % BufferSize
        /\ taken_key' = keyboard_buffer[buffer_tail]
        /\ UNCHANGED <<seen, line, due, keyboard_buffer, buffer_head, buffer_count, pending>>
    BY <1>6 DEF take_key, ReaderStep
  <2>2. buffer_count = Len(pending) /\ InRing(pending) /\ pending # << >> /\ seen = buffer_count
    BY <2>1 DEF RingInStep
  <2>3. buffer_tail' = SlotAt(buffer_tail, 1)
    BY <1>1, <2>1, Wraps DEF KeyTypes
  <2>4. taken_key' = Head(pending) /\ InRing(Tail(pending))'
    BY <2>1, <2>2, <2>3, TailHolds DEF InRing, KeyTypes
  <2> QED
    BY <2>1, <2>2, <2>4 DEF RingInStep, Halfway
<1>7. CASE count_key
  <2>1. reader = "count" /\ reader' \in {"away", "read"}
        /\ buffer_count' \in {seen - 1, buffer_count - 1}
        /\ UNCHANGED <<keyboard_buffer, buffer_head, buffer_tail>>
    BY <1>7 DEF count_key, ReaderStep
  <2>2. /\ buffer_count = Len(pending) /\ pending # << >> /\ seen = buffer_count
        /\ taken_key = Head(pending) /\ InRing(Tail(pending))
    BY <2>1 DEF RingInStep
  <2>3. pending' = Tail(pending) /\ line' = due'
    BY <1>7, <2>2 DEF count_key
  <2>4. buffer_count' = Len(pending')
    BY <2>1, <2>2, <2>3 DEF KeyTypes
  <2>5. InRing(pending)'
    BY <2>1, <2>2, <2>3 DEF InRing
  <2> QED
    BY <2>1, <2>3, <2>4, <2>5 DEF RingInStep, Halfway
<1> QED
    BY <1>2, <1>3, <1>4, <1>5, <1>6, <1>7 DEF sys_read_compat

\* The line never outgrows its buffer, whatever the interrupts do to the ring.
LEMMA LineFitsKept ==
    ASSUME KeyTypes, LineFits, [KeyboardNext]_keyboardVars
    PROVE  LineFits'
<1>1. LineSize \in Nat \ {0} /\ Len(line) \in Nat
    BY LineAssumption DEF KeyTypes
<1>2. CASE keyboard_press \/ UNCHANGED keyboardVars
  <2>1. line' = line /\ reader' = reader
    BY <1>2 DEF keyboard_press, EnterKey, BackspaceKey, CharacterKey, IgnoredKey, Pressed,
                readerVars, keyboardVars
  <2> QED
    BY <2>1 DEF LineFits, HasRoom
<1>3. CASE sys_read_starts
    BY <1>1, <1>3 DEF sys_read_starts, ReaderStep, LineFits
<1>4. CASE clear_tail \/ clear_count \/ clear_enter \/ wait_for_enter \/ line_ends
  <2>1. line' = line /\ reader' \notin {"take", "count"}
    BY <1>4 DEF clear_tail, clear_count, clear_enter, wait_for_enter, line_ends, ReaderStep
  <2> QED
    BY <2>1 DEF LineFits
<1>5. CASE key_there \/ take_key
  <2>1. line' = line /\ HasRoom
    BY <1>5 DEF key_there, take_key, ReaderStep, LineFits
  <2> QED
    BY <2>1 DEF LineFits, HasRoom
<1>6. CASE count_key
  <2>1. HasRoom /\ reader' \notin {"take", "count"}
    BY <1>6 DEF count_key, ReaderStep, LineFits
  <2>2. line' = line \/ line' = Append(line, taken_key)
    BY <1>6 DEF count_key
  <2>3. Len(line') <= Len(line) + 1
    BY <2>2 DEF KeyTypes
  <2>4. Len(line') < LineSize
    <3>1. Len(line') \in Nat
        BY <2>2 DEF KeyTypes
    <3> QED
        BY <1>1, <2>1, <2>3, <3>1 DEF HasRoom
  <2> QED
    BY <2>1, <2>4 DEF LineFits
<1> QED
    BY <1>2, <1>3, <1>4, <1>5, <1>6 DEF KeyboardNext, sys_read_compat

\* The line and the ring stay inside their buffers; unless an interrupt changed the
\* ring in the middle of a call, nothing that was due is lost, repeated or put out
\* of order, and the line is what was due: for every size of the ring and of the
\* line, set of characters and number of keys pressed.
THEOREM KeysKeepOrder == KeyboardSpec => []KeysInOrder
<1>1. KeyboardInit => KeyInv
  <2> SUFFICES ASSUME KeyboardInit
               PROVE  KeyInv
    OBVIOUS
  <2>1. 0 \in Slots /\ Newline \in AnyKey
    BY RingAssumption DEF Slots, AnyKey
  <2>2. KeyTypes
    BY <2>1 DEF KeyboardInit, KeyTypes
  <2>3. Holds(keyboard_buffer, 0, 0, << >>)
    BY <2>1, EmptyHolds
  <2>4. LineFits
    BY LineAssumption DEF KeyboardInit, LineFits
  <2> QED
    BY <2>2, <2>3, <2>4 DEF KeyboardInit, KeyInv, RingInStep, InRing, Halfway
<1>2. KeyInv /\ [KeyboardNext]_keyboardVars => KeyInv'
  <2> SUFFICES ASSUME KeyInv, [KeyboardNext]_keyboardVars
               PROVE  KeyInv'
    OBVIOUS
  <2>1. KeyTypes' /\ LineFits'
    BY KeyTypesKept, LineFitsKept DEF KeyInv
  <2>2. ASSUME ~crossed'
        PROVE  RingInStep' /\ line' = due'
    <3>1. CASE keyboard_press
      <4>1. crossed' = crossed \/ crossed' = (crossed \/ Halfway)
        BY <3>1 DEF keyboard_press, EnterKey, BackspaceKey, CharacterKey, IgnoredKey, PutKey,
                    RingAsItIs
      <4>2. ~crossed
        BY <2>2, <4>1
      <4>3. line' = line /\ due' = due
        BY <3>1 DEF keyboard_press, EnterKey, BackspaceKey, CharacterKey, IgnoredKey, Pressed,
                    readerVars
      <4> QED
        BY <2>2, <3>1, <4>2, <4>3, PressKeepsRing DEF KeyInv
    <3>2. CASE sys_read_compat
      <4>1. ~crossed
        BY <2>2, <3>2 DEF sys_read_compat, sys_read_starts, clear_tail, clear_count, clear_enter,
                          wait_for_enter, line_ends, key_there, take_key, count_key
      <4> QED
        BY <3>2, <4>1, ReadKeepsRing DEF KeyInv
    <3>3. CASE UNCHANGED keyboardVars
        BY <2>2, <3>3 DEF KeyInv, keyboardVars, readerVars, ringVars, RingInStep, InRing, Halfway
    <3> QED
        BY <3>1, <3>2, <3>3 DEF KeyboardNext
  <2> QED
    BY <2>1, <2>2 DEF KeyInv
<1>3. KeyInv => KeysInOrder
  <2> SUFFICES ASSUME KeyTypes, RingInStep, line = due, ~Halfway
               PROVE  /\ buffer_count = Len(pending) /\ buffer_count < BufferSize
                      /\ buffer_head = (buffer_tail + buffer_count) % BufferSize
                      /\ \A i \in 1 .. Len(pending) :
                           keyboard_buffer[(buffer_tail + i - 1) % BufferSize] = pending[i]
    BY DEF KeyInv, KeyTypes, LineFits, KeysInOrder
  <2> DEFINE n == Len(pending)
  <2>1. buffer_count = n /\ InRing(pending)
    BY DEF RingInStep
  <2>2. n \in Nat /\ n < BufferSize /\ BufferSize \in Nat
        /\ buffer_tail \in Slots /\ buffer_tail \in Int
    BY <2>1, RingAssumption DEF InRing, Holds, KeyTypes, Slots
  <2>3. buffer_head = SlotAt(buffer_tail, n)
        /\ \A i \in 1 .. n : keyboard_buffer[SlotAt(buffer_tail, i - 1)] = pending[i]
    BY <2>1 DEF InRing, Holds
  <2> HIDE DEF n
  <2>4. buffer_head = (buffer_tail + n) % BufferSize
    BY <2>2, <2>3, Wraps
  <2>5. ASSUME NEW i \in 1 .. n
        PROVE  keyboard_buffer[(buffer_tail + i - 1) % BufferSize] = pending[i]
    <3>1. i - 1 \in 0 .. BufferSize /\ buffer_tail + i - 1 = buffer_tail + (i - 1)
        BY <2>2
    <3>2. (buffer_tail + (i - 1)) % BufferSize = SlotAt(buffer_tail, i - 1)
        BY <2>2, <3>1, Wraps
    <3> QED
        BY <2>3, <3>1, <3>2
  <2> QED
    BY <2>1, <2>2, <2>4, <2>5 DEF n
<1> QED
    BY <1>1, <1>2, <1>3, PTL DEF KeyboardSpec

-----------------------------------------------------------------------------
(* Console. *)

TextRows == [1 .. Columns -> Marks \cup {Blank}]
Sheets == [1 .. MaxPuts + 1 -> TextRows]

Consoles == [m : [1 .. Rows -> TextRows], x : Nat, y : Nat, stray : BOOLEAN]

\* The rows of m are those of the paper p that come k further on.
Agree(m, p, k) == \A r \in 1 .. Rows : r + k \in DOMAIN p => m[r] = p[r + k]

BlankBelow(p, k) == \A q \in DOMAIN p : q > k => p[q] = BlankRow

\* The console shows the end of the sheet p with its cursor at sx, sy, but may
\* still have to scroll: then the row to come is blank.
Follows(con, p, sx, sy) ==
    /\ con.x = sx /\ con.y <= sy /\ con.y <= Rows
    /\ Agree(con.m, p, sy - con.y)
    /\ BlankBelow(p, sy + 1)
    /\ con.y = Rows => BlankBelow(p, sy)

\* Where the call of the kernel stands says what is still to be done until the
\* console follows the sheet.
InStep ==
    /\ put_at = "idle" => Follows(Console, paper, sheet_x, sheet_y)
    /\ put_at = "wrap" => Follows(Wrapped(Console), paper, sheet_x, sheet_y)
    /\ put_at = "scroll" => Follows(Console, paper, sheet_x, sheet_y)
    /\ ~stray

ConsoleTypes ==
    /\ Console \in Consoles /\ paper \in Sheets
    /\ sheet_x \in 0 .. Columns - 1 /\ sheet_y \in Nat
    /\ put_at \in {"idle", "wrap", "scroll"} /\ echoed \in BOOLEAN

Inside ==
    /\ put_at # "wrap" => cursor_x < Columns
    /\ put_at = "idle" => cursor_y < Rows

ConsoleInv == ConsoleTypes /\ Inside /\ (~echoed => InStep)

ConsoleSpec == ConsoleInit /\ [][ConsoleNext]_consoleVars


\* The sizes of the screen, as the proofs use them.
LEMMA ConsoleSizes ==
    /\ Columns \in Nat \ {0} /\ Rows \in Nat \ {0} /\ TabStop \in Nat \ {0} /\ MaxPuts \in Nat
BY ConsoleAssumption

\* A cleared console follows a blank sheet.
LEMMA BlankFollows ==
    ASSUME NEW con, con.x = 0, con.y = 0, con.m = [r \in 1 .. Rows |-> BlankRow],
           NEW p, p = [q \in 1 .. MaxPuts + 1 |-> BlankRow]
    PROVE  Follows(con, p, 0, 0)
<1>1. 0 <= Rows /\ 0 <= 0
    BY ConsoleSizes
<1>2. Agree(con.m, p, 0)
    BY DEF Agree
<1>3. BlankBelow(p, 0 + 1) /\ BlankBelow(p, 0)
    BY DEF BlankBelow
<1>4. 0 - con.y = 0
    OBVIOUS
<1> QED
    BY <1>1, <1>2, <1>3, <1>4 DEF Follows

\* A number below b is its own remainder.
LEMMA QuotientBelow ==
    ASSUME NEW b \in Nat \ {0}, NEW y \in 0 .. b - 1
    PROVE  y \div b = 0 /\ y % b = y
<1>1. y \div b = 0
    BY SMT
<1>2. y % b = y
    BY SMT
<1> QED
    BY <1>1, <1>2

\* A letter that is written is no control character.
LEMMA MarksApart ==
    ASSUME NEW c \in Marks
    PROVE  c \notin {Blank, "\n", "\r", "\t", "backspace", "other"}
BY ConsoleAssumption DEF Blank

\* Every part of monitor_put() leaves a console, whatever it found.
LEMMA WrittenTypes ==
    ASSUME NEW con \in Consoles, NEW c
    PROVE  Written(con, c) \in Consoles
<1> DEFINE row == con.y + (con.x \div Columns) + 1
           col == (con.x % Columns) + 1
<1>1. con.x \in Nat /\ con.y \in Nat /\ con.m \in [1 .. Rows -> TextRows] /\ con.stray \in BOOLEAN
      /\ Columns \in Nat \ {0} /\ Rows \in Nat \ {0} /\ TabStop \in Nat \ {0}
    BY ConsoleSizes DEF Consoles
<1>2. row \in Nat \ {0} /\ NextTab(con.x) \in Nat
  <2>1. con.x \div Columns \in Nat
    BY <1>1, SMT
  <2>2. (con.x + TabStop) \div TabStop \in Nat
    <3> DEFINE x == con.x + TabStop
    <3>1. x \in Nat /\ TabStop \in Nat \ {0}
        BY <1>1
    <3> HIDE DEF x, row, col
    <3>2. x \div TabStop \in Nat
        BY <3>1, SMT
    <3> QED
        BY <3>2 DEF x
  <2>3. \A t \in Nat : t * TabStop \in Nat
    <3>1. TabStop \in Nat
        BY <1>1
    <3> HIDE DEF row, col
    <3> QED
        BY <3>1, SMT
  <2>4. NextTab(con.x) \in Nat
    BY <2>2, <2>3 DEF NextTab
  <2> QED
    BY <1>1, <2>1, <2>4
<1> HIDE DEF row, col
<1> DEFINE past == [con EXCEPT !.x = con.x + 1]
<1>3. CASE c \in Marks
  <2>1. Written(con, c) = IF row > Rows THEN [past EXCEPT !.stray = TRUE]
                          ELSE [past EXCEPT !.m[row][col] = c]
    BY <1>3, MarksApart DEF Written, row, col
  <2>2. past \in Consoles
    <3> DEFINE x == con.x + 1
    <3>1. x \in Nat
        BY <1>1
    <3> HIDE DEF x
    <3>2. [con EXCEPT !.x = x] \in Consoles
        BY <3>1 DEF Consoles
    <3> QED
        BY <3>2 DEF x
  <2> HIDE DEF past
  <2>3. CASE row > Rows
    BY <2>1, <2>2, <2>3 DEF Consoles
  <2>4. CASE ~(row > Rows)
    <3>1. row \in 1 .. Rows
        BY <1>1, <1>2, <2>4
    <3>2. past.m \in [1 .. Rows -> TextRows] /\ past.m[row] \in TextRows
        BY <2>2, <3>1 DEF Consoles
    <3>3. [past.m[row] EXCEPT ![col] = c] \in TextRows
        BY <1>3, <3>2 DEF TextRows
    <3>4. [past.m EXCEPT ![row][col] = c] \in [1 .. Rows -> TextRows]
        BY <3>1, <3>2, <3>3
    <3> QED
        BY <2>1, <2>2, <2>4, <3>4 DEF Consoles
  <2> QED
    BY <2>3, <2>4
<1>4. CASE c \notin Marks /\ c = "backspace" /\ con.x > 0
    BY <1>1, <1>4 DEF Written, Consoles
<1>5. CASE c \notin Marks /\ c = "backspace" /\ ~(con.x > 0)
    BY <1>1, <1>5 DEF Written, Consoles
<1>6. CASE c \notin Marks /\ c = "\t"
    BY <1>1, <1>2, <1>6 DEF Written, Consoles
<1>7. CASE c \notin Marks /\ c = "\r"
    BY <1>1, <1>7 DEF Written, Consoles
<1>8. CASE c \notin Marks /\ c = "\n"
  <2> DEFINE x == 0
             y == con.y + 1
  <2>1. Written(con, c) = [con EXCEPT !.x = x, !.y = y] /\ x \in Nat /\ y \in Nat
    BY <1>1, <1>8 DEF Written
  <2> HIDE DEF x, y
  <2> QED
    BY <2>1 DEF Consoles
<1>9. CASE c \notin Marks \cup {"backspace", "\t", "\r", "\n"}
    BY <1>9 DEF Written
<1> QED
    BY <1>3, <1>4, <1>5, <1>6, <1>7, <1>8, <1>9

\* Going on in the next row leaves the cursor inside the row.
LEMMA WrappedTypes ==
    ASSUME NEW con \in Consoles
    PROVE  Wrapped(con) \in Consoles /\ Wrapped(con).x < Columns
           /\ Wrapped(con).stray = con.stray
<1>1. con.x \in Nat /\ con.y \in Nat /\ Columns \in Nat \ {0}
    BY ConsoleSizes DEF Consoles
<1>2. CASE con.x >= Columns
  <2> DEFINE x == 0
             y == con.y + 1
  <2>1. Wrapped(con) = [con EXCEPT !.x = x, !.y = y] /\ x \in Nat /\ y \in Nat
    BY <1>1, <1>2 DEF Wrapped
  <2> HIDE DEF x, y
  <2>2. Wrapped(con) \in Consoles
    BY <2>1 DEF Consoles
  <2>3. Wrapped(con).x = x /\ Wrapped(con).stray = con.stray
    BY <2>1 DEF Consoles
  <2> QED
    BY <1>1, <2>2, <2>3 DEF x
<1>3. CASE ~(con.x >= Columns)
    BY <1>1, <1>3 DEF Wrapped
<1> QED
    BY <1>2, <1>3

\* Scrolling moves the rows up and makes the last one blank.
LEMMA RowsScrolled ==
    ASSUME NEW m \in [1 .. Rows -> TextRows]
    PROVE  /\ Append(Tail(m), BlankRow) \in [1 .. Rows -> TextRows]
           /\ \A r \in 1 .. Rows :
                Append(Tail(m), BlankRow)[r] = IF r < Rows THEN m[r + 1] ELSE BlankRow
<1>1. Rows \in Nat \ {0}
    BY ConsoleSizes
<1>2. m \in Seq(TextRows) /\ Len(m) = Rows /\ m # << >>
    BY <1>1, SeqDef
<1>3. BlankRow \in TextRows
    BY DEF BlankRow, TextRows
<1>4. Tail(m) \in Seq(TextRows) /\ Len(Tail(m)) = Rows - 1
      /\ \A r \in 1 .. Rows - 1 : Tail(m)[r] = m[r + 1]
    BY <1>1, <1>2
<1> DEFINE t == Tail(m)
           a == Append(t, BlankRow)
<1>5. a \in Seq(TextRows) /\ Len(a) = Rows
      /\ \A r \in 1 .. Rows : a[r] = IF r < Rows THEN t[r] ELSE BlankRow
  <2> HIDE DEF t
  <2>1. t \in Seq(TextRows) /\ Len(t) = Rows - 1
    BY <1>4 DEF t
  <2>2. a \in Seq(TextRows) /\ Len(a) = Len(t) + 1 /\ (\A r \in 1 .. Len(t) : a[r] = t[r])
        /\ a[Len(t) + 1] = BlankRow
    BY <1>3, <2>1, AppendProperties
  <2> QED
    BY <1>1, <2>1, <2>2
<1>6. a \in [1 .. Rows -> TextRows]
  <2> HIDE DEF t, a
  <2> QED
    BY <1>5
<1> QED
    BY <1>1, <1>4, <1>5, <1>6

\* Scrolling leaves the cursor inside the screen.
LEMMA ScrolledTypes ==
    ASSUME NEW con \in Consoles
    PROVE  Scrolled(con) \in Consoles /\ Scrolled(con).x = con.x /\ Scrolled(con).y < Rows
           /\ Scrolled(con).stray = con.stray
<1>1. con.m \in [1 .. Rows -> TextRows] /\ Rows \in Nat \ {0} /\ con.y \in Nat
    BY ConsoleSizes DEF Consoles
<1>2. Append(Tail(con.m), BlankRow) \in [1 .. Rows -> TextRows]
    BY <1>1, RowsScrolled
<1>3. CASE con.y >= Rows
  <2> DEFINE m == Append(Tail(con.m), BlankRow)
  <2>1. Scrolled(con) = [con EXCEPT !.y = Rows - 1, !.m = m]
    BY <1>3 DEF Scrolled
  <2>2. m \in [1 .. Rows -> TextRows] /\ Rows - 1 \in Nat /\ Rows - 1 < Rows
    BY <1>1, <1>2
  <2> HIDE DEF m
  <2> QED
    BY <2>1, <2>2 DEF Consoles
<1>4. CASE ~(con.y >= Rows)
    BY <1>1, <1>4 DEF Scrolled
<1> QED
    BY <1>3, <1>4

\* A cursor that has moved as the sheet's has only to be wrapped.
LEMMA MovedFollows ==
    ASSUME NEW m, NEW y \in Nat, NEW p \in Sheets, NEW sy \in Nat,
           y < Rows, y <= sy, Agree(m, p, sy - y), BlankBelow(p, sy + 1),
           NEW w \in Consoles, w.m = m, NEW sx1, NEW sy1,
           \/ /\ w.y = y /\ sx1 = IF w.x >= Columns THEN 0 ELSE w.x
              /\ sy1 = IF w.x >= Columns THEN sy + 1 ELSE sy
           \/ w.y = y + 1 /\ w.x = 0 /\ sx1 = 0 /\ sy1 = sy + 1
    PROVE  Follows(Wrapped(w), p, sx1, sy1)
<1>1. w.x \in Nat /\ Columns \in Nat \ {0} /\ Rows \in Nat \ {0}
    BY ConsoleSizes DEF Consoles
<1>2. \A q \in DOMAIN p : q \in Int
    BY DEF Sheets
<1>3. BlankBelow(p, sy + 2)
    BY <1>2 DEF BlankBelow
<1>4. CASE w.y = y + 1 /\ w.x = 0 /\ sx1 = 0 /\ sy1 = sy + 1
  <2>1. Wrapped(w) = w
    BY <1>1, <1>4 DEF Wrapped
  <2>2. sy1 - w.y = sy - y /\ sy1 + 1 = sy + 2
    BY <1>4
  <2> QED
    BY <1>1, <1>3, <1>4, <2>1, <2>2 DEF Follows
<1>5. CASE w.y = y /\ w.x >= Columns /\ sx1 = 0 /\ sy1 = sy + 1
  <2>1. Wrapped(w).m = m /\ Wrapped(w).x = 0 /\ Wrapped(w).y = y + 1
    BY <1>5 DEF Wrapped, Consoles
  <2>2. sy1 - (y + 1) = sy - y /\ sy1 + 1 = sy + 2
    BY <1>5
  <2> QED
    BY <1>1, <1>3, <1>5, <2>1, <2>2 DEF Follows
<1>6. CASE w.y = y /\ ~(w.x >= Columns) /\ sx1 = w.x /\ sy1 = sy
  <2>1. Wrapped(w) = w
    BY <1>6 DEF Wrapped
  <2> QED
    BY <1>1, <1>6, <2>1 DEF Follows
<1> QED
    BY <1>4, <1>5, <1>6

\* What monitor_put() writes is what goes on the sheet.
LEMMA WriteFollows ==
    ASSUME NEW con \in Consoles, NEW p \in Sheets, NEW sx \in 0 .. Columns - 1, NEW sy \in Nat,
           Follows(con, p, sx, sy), con.y < Rows, NEW c \in Inputs, NEW x, NEW p1, NEW sx1, NEW sy1,
           x = CASE c \in Marks -> sx + 1
                 [] c = "backspace" /\ sx > 0 -> sx - 1
                 [] c = "\t" -> NextTab(sx)
                 [] c \in {"\r", "\n"} -> 0
                 [] OTHER -> sx,
           sx1 = IF x >= Columns THEN 0 ELSE x,
           sy1 = IF c = "\n" \/ x >= Columns THEN sy + 1 ELSE sy,
           p1 = IF c \in Marks THEN [p EXCEPT ![sy + 1][sx + 1] = c] ELSE p
    PROVE  /\ Follows(Wrapped(Written(con, c)), p1, sx1, sy1)
           /\ Written(con, c).stray = con.stray
           /\ p1 \in Sheets /\ sx1 \in 0 .. Columns - 1 /\ sy1 \in Nat
<1> DEFINE w == Written(con, c)
           y == con.y
<1>1. con.x = sx /\ y <= sy /\ Agree(con.m, p, sy - y) /\ BlankBelow(p, sy + 1)
    BY DEF Follows
<1>2. sx \in Nat /\ sx < Columns /\ y \in Nat /\ y < Rows /\ w \in Consoles
      /\ Columns \in Nat \ {0} /\ Rows \in Nat \ {0} /\ NextTab(sx) \in Nat
  <2>1. [con EXCEPT !.x = NextTab(sx)] \in Consoles
    <3>1. "\t" \notin Marks
        BY MarksApart
    <3>2. Written(con, "\t") = [con EXCEPT !.x = NextTab(sx)]
        BY <1>1, <3>1 DEF Written
    <3> QED
        BY <3>2, WrittenTypes
  <2>2. NextTab(sx) \in Nat
    BY <2>1 DEF Consoles
  <2>3. w \in Consoles
    BY WrittenTypes
  <2>4. sx \in Nat /\ sx < Columns /\ y \in Nat /\ y < Rows
    <3>1. con.y \in Nat /\ Columns \in Nat
        BY ConsoleSizes DEF Consoles
    <3> QED
        BY <3>1
  <2> QED
    BY <2>2, <2>3, <2>4, ConsoleSizes
<1> HIDE DEF y
<1>3. CASE c \in Marks
  <2> DEFINE m == [con.m EXCEPT ![y + 1] = [con.m[y + 1] EXCEPT ![sx + 1] = c]]
  <2>1. sx \div Columns = 0 /\ sx % Columns = sx
    BY <1>2, QuotientBelow
  <2>2. con.y + (con.x \div Columns) + 1 = y + 1 /\ ~(y + 1 > Rows)
        /\ (con.x % Columns) + 1 = sx + 1
    BY <1>1, <1>2, <2>1 DEF y
  <2>3. w = [[con EXCEPT !.x = con.x + 1] EXCEPT !.m[y + 1][sx + 1] = c]
    BY <1>3, <2>2, MarksApart DEF Written
  <2>4. w.m = m /\ w.x = sx + 1 /\ w.y = y /\ w.stray = con.stray
    <3> HIDE DEF m, w
    <3>1. w.m = [con.m EXCEPT ![y + 1][sx + 1] = c]
        BY <2>3 DEF Consoles
    <3>2. w.m = m
        BY <3>1 DEF m
    <3>3. w.x = con.x + 1 /\ w.y = con.y /\ w.stray = con.stray
        BY <2>3 DEF Consoles
    <3> QED
        BY <1>1, <3>2, <3>3 DEF y
  <2>5. x = sx + 1 /\ c # "\n" /\ p1 = [p EXCEPT ![sy + 1] = [p[sy + 1] EXCEPT ![sx + 1] = c]]
    <3>1. c \notin {"\n", "\r", "\t", "backspace"}
        BY <1>3, MarksApart
    <3>2. x = sx + 1
        BY <1>3, <3>1
    <3>3. p1 = [p EXCEPT ![sy + 1][sx + 1] = c]
        BY <1>3
    <3> QED
        BY <3>1, <3>2, <3>3
  <2>6. p1 \in Sheets
    <3>1. CASE sy + 1 \in 1 .. MaxPuts + 1
      <4>1. [p[sy + 1] EXCEPT ![sx + 1] = c] \in TextRows
        BY <1>3, <3>1 DEF Sheets, TextRows
      <4> QED
        BY <2>5, <3>1, <4>1 DEF Sheets
    <3>2. CASE sy + 1 \notin 1 .. MaxPuts + 1
        BY <2>5, <3>2 DEF Sheets
    <3> QED
        BY <3>1, <3>2
  <2>7. DOMAIN p1 = DOMAIN p /\ \A q \in DOMAIN p : q \in Int /\ (q # sy + 1 => p1[q] = p[q])
    BY <2>5 DEF Sheets
  <2>8. Agree(m, p1, sy - y)
    <3>1. ASSUME NEW r \in 1 .. Rows, r + (sy - y) \in DOMAIN p1
          PROVE  m[r] = p1[r + (sy - y)]
      <4>1. con.m[r] = p[r + (sy - y)]
        BY <1>1, <2>7, <3>1 DEF Agree
      <4>2. con.m \in [1 .. Rows -> TextRows]
        BY DEF Consoles
      <4>3. CASE r = y + 1
        <5>1. r + (sy - y) = sy + 1 /\ sy + 1 \in DOMAIN p
            BY <1>2, <2>7, <3>1, <4>3
        <5>2. p1[sy + 1] = [p[sy + 1] EXCEPT ![sx + 1] = c]
            BY <2>5, <5>1
        <5>3. m[r] = [con.m[r] EXCEPT ![sx + 1] = c]
            BY <3>1, <4>2, <4>3
        <5> QED
            BY <4>1, <5>1, <5>2, <5>3
      <4>4. CASE r # y + 1
        <5>1. r + (sy - y) # sy + 1
            BY <1>2, <4>4
        <5>2. p1[r + (sy - y)] = p[r + (sy - y)]
            BY <2>7, <3>1, <5>1
        <5>3. m[r] = con.m[r]
            BY <4>2, <4>4
        <5> QED
            BY <4>1, <5>2, <5>3
      <4> QED
        BY <4>3, <4>4
    <3> QED
        BY <3>1 DEF Agree
  <2>9. BlankBelow(p1, sy + 1)
    BY <1>1, <2>7 DEF BlankBelow
  <2> HIDE DEF m, w
  <2>10. Follows(Wrapped(w), p1, sx1, sy1)
    BY <1>1, <1>2, <2>4, <2>5, <2>6, <2>8, <2>9, MovedFollows
  <2> QED
    BY <1>2, <2>4, <2>5, <2>6, <2>10 DEF w
<1>4. CASE c \notin Marks
  <2>1. w.m = con.m /\ w.stray = con.stray
        /\ \/ w.y = y /\ w.x = x /\ c # "\n" /\ x \in Nat
           \/ w.y = y + 1 /\ w.x = 0 /\ x = 0 /\ c = "\n"
    <3>1. CASE c = "\n"
        BY <1>1, <1>2, <1>4, <3>1 DEF Written, Consoles, y
    <3>2. CASE c = "\r"
        BY <1>1, <1>2, <1>4, <3>2 DEF Written, Consoles, y
    <3>3. CASE c = "\t"
        BY <1>1, <1>2, <1>4, <3>3 DEF Written, Consoles, y
    <3>4. CASE c = "backspace" /\ sx > 0
        BY <1>1, <1>2, <1>4, <3>4 DEF Written, Consoles, y
    <3>5. CASE (c = "backspace" /\ ~(sx > 0)) \/ c = "other"
        BY <1>1, <1>2, <1>4, <3>5 DEF Written, Consoles, y
    <3> QED
        BY <1>2, <1>4, <3>1, <3>2, <3>3, <3>4, <3>5 DEF Inputs
  <2> HIDE DEF w
  <2>2. p1 = p
    BY <1>4
  <2>3. Follows(Wrapped(w), p, sx1, sy1)
    BY <1>1, <1>2, <2>1, MovedFollows
  <2>4. sx1 \in 0 .. Columns - 1 /\ sy1 \in Nat
    BY <1>2, <2>1
  <2> QED
    BY <2>1, <2>2, <2>3, <2>4 DEF w
<1> QED
    BY <1>3, <1>4

\* Scrolling brings in the row that was still blank on the sheet.
LEMMA ScrollFollows ==
    ASSUME NEW con \in Consoles, NEW p \in Sheets, NEW sx, NEW sy \in Nat, Follows(con, p, sx, sy)
    PROVE  Follows(Scrolled(con), p, sx, sy)
<1>1. con.m \in [1 .. Rows -> TextRows] /\ Rows \in Nat \ {0} /\ con.y \in Nat
    BY ConsoleSizes DEF Consoles
<1>2. con.x = sx /\ con.y <= sy /\ con.y <= Rows /\ Agree(con.m, p, sy - con.y)
      /\ BlankBelow(p, sy + 1)
    BY DEF Follows
<1>3. CASE con.y < Rows
    BY <1>1, <1>3 DEF Scrolled
<1>4. CASE ~(con.y < Rows)
  <2> DEFINE m == Append(Tail(con.m), BlankRow)
             s == Scrolled(con)
  <2>1. con.y = Rows /\ BlankBelow(p, sy)
    BY <1>1, <1>2, <1>4 DEF Follows
  <2>2. s.m = m /\ s.x = sx /\ s.y = Rows - 1
    <3> HIDE DEF m
    <3>1. s = [con EXCEPT !.y = Rows - 1, !.m = m]
        BY <1>1, <2>1 DEF Scrolled, m
    <3> QED
        BY <1>2, <3>1 DEF Consoles
  <2>3. \A r \in 1 .. Rows : m[r] = IF r < Rows THEN con.m[r + 1] ELSE BlankRow
    BY <1>1, RowsScrolled
  <2> HIDE DEF m, s
  <2>4. Agree(m, p, sy - (Rows - 1))
    <3>1. ASSUME NEW r \in 1 .. Rows, r + (sy - (Rows - 1)) \in DOMAIN p
          PROVE  m[r] = p[r + (sy - (Rows - 1))]
      <4>1. CASE r < Rows
        <5>1. (r + 1) + (sy - Rows) = r + (sy - (Rows - 1)) /\ r + 1 \in 1 .. Rows
            BY <1>1, <4>1
        <5> QED
            BY <1>2, <2>1, <2>3, <3>1, <4>1, <5>1 DEF Agree
      <4>2. CASE ~(r < Rows)
        <5>1. r + (sy - (Rows - 1)) = sy + 1
            BY <1>1, <4>2
        <5> QED
            BY <2>1, <2>3, <3>1, <4>2, <5>1 DEF BlankBelow
      <4> QED
        BY <4>1, <4>2
    <3> QED
        BY <3>1 DEF Agree
  <2> QED
    BY <1>1, <1>2, <2>1, <2>2, <2>4 DEF Follows, s
<1> QED
    BY <1>3, <1>4

\* A character that is put on a console that may still have to scroll, and
\* wraps and scrolls in one go, leaves the cursor on the screen.
LEMMA EchoTypes ==
    ASSUME NEW con \in Consoles, NEW c
    PROVE  /\ Scrolled(Wrapped(Written(con, c))) \in Consoles
           /\ Scrolled(Wrapped(Written(con, c))).x < Columns
           /\ Scrolled(Wrapped(Written(con, c))).y < Rows
           /\ Scrolled(Wrapped(Written(con, c))).stray = Written(con, c).stray
<1> DEFINE w == Written(con, c)
           v == Wrapped(w)
<1>1. w \in Consoles
    BY WrittenTypes
<1> HIDE DEF w
<1>2. v \in Consoles /\ v.x < Columns /\ v.stray = w.stray
    BY <1>1, WrappedTypes
<1> HIDE DEF v
<1>3. Scrolled(v) \in Consoles /\ Scrolled(v).x = v.x /\ Scrolled(v).y < Rows
      /\ Scrolled(v).stray = v.stray
    BY <1>2, ScrolledTypes
<1> QED
    BY <1>2, <1>3 DEF v, w

\* What the sheet becomes is a sheet again, whoever writes.
LEMMA NoteTypes ==
    ASSUME ConsoleTypes, NEW c, note(c)
    PROVE  paper' \in Sheets /\ sheet_x' \in 0 .. Columns - 1 /\ sheet_y' \in Nat
<1> DEFINE x == CASE c \in Marks -> sheet_x + 1
                  [] c = "backspace" /\ sheet_x > 0 -> sheet_x - 1
                  [] c = "\t" -> NextTab(sheet_x)
                  [] c \in {"\r", "\n"} -> 0
                  [] OTHER -> sheet_x
<1>1. Columns \in Nat \ {0} /\ TabStop \in Nat \ {0} /\ sheet_x \in 0 .. Columns - 1
      /\ sheet_y \in Nat /\ paper \in Sheets
    BY ConsoleSizes DEF ConsoleTypes
<1>2. NextTab(sheet_x) \in Nat
  <2>1. (sheet_x + TabStop) \div TabStop \in Nat
    BY <1>1, SMT
  <2>2. \A t \in Nat : t * TabStop \in Nat
    BY <1>1, SMT
  <2> QED
    BY <2>1, <2>2 DEF NextTab
<1>3. x \in Nat
  <2>1. CASE c \in Marks
    BY <1>1, <2>1, MarksApart
  <2>2. CASE c \notin Marks
    BY <1>1, <1>2, <2>2
  <2> QED
    BY <2>1, <2>2
<1>4. sheet_x' = (IF x >= Columns THEN 0 ELSE x)
      /\ sheet_y' = (IF c = "\n" \/ x >= Columns THEN sheet_y + 1 ELSE sheet_y)
      /\ paper' = (IF c \in Marks THEN [paper EXCEPT ![sheet_y + 1][sheet_x + 1] = c] ELSE paper)
    BY DEF note
<1> HIDE DEF x
<1>5. sheet_x' \in 0 .. Columns - 1 /\ sheet_y' \in Nat
    BY <1>1, <1>3, <1>4
<1>6. paper' \in Sheets
  <2>1. CASE c \in Marks /\ sheet_y + 1 \in 1 .. MaxPuts + 1
    <3>1. [paper[sheet_y + 1] EXCEPT ![sheet_x + 1] = c] \in TextRows
        BY <1>1, <2>1 DEF Sheets, TextRows
    <3> QED
        BY <1>1, <1>4, <2>1, <3>1 DEF Sheets
  <2>2. CASE c \in Marks /\ sheet_y + 1 \notin 1 .. MaxPuts + 1
    BY <1>1, <1>4, <2>2 DEF Sheets
  <2>3. CASE c \notin Marks
    BY <1>1, <1>4, <2>3
  <2> QED
    BY <2>1, <2>2, <2>3
<1> QED
    BY <1>5, <1>6

\* The console is what the variables make of it.
LEMMA BecomesIs ==
    ASSUME NEW con \in Consoles, Becomes(con)
    PROVE  Console' = con /\ cursor_x' = con.x /\ cursor_y' = con.y /\ stray' = con.stray
BY DEF Becomes, Console, Consoles

\* What the types and the place of the cursor come to in every step.
LEMMA ConsoleTypesKept ==
    ASSUME ConsoleTypes, Inside, ConsoleNext
    PROVE  ConsoleTypes' /\ Inside'
<1>1. Console \in Consoles /\ cursor_x = Console.x /\ cursor_y = Console.y
    BY DEF ConsoleTypes, Console
<1>2. ASSUME NEW c \in Inputs, put_writes(c)
      PROVE  ConsoleTypes' /\ Inside'
  <2>1. Written(Console, c) \in Consoles
    BY <1>1, WrittenTypes
  <2>2. Console' \in Consoles
    BY <1>2, <2>1, BecomesIs DEF put_writes
  <2>3. paper' \in Sheets /\ sheet_x' \in 0 .. Columns - 1 /\ sheet_y' \in Nat
    BY <1>2, NoteTypes DEF put_writes
  <2> QED
    BY <1>2, <2>2, <2>3 DEF put_writes, ConsoleTypes, Inside
<1>3. ASSUME NEW c, echo(c)
      PROVE  ConsoleTypes' /\ Inside'
  <2> DEFINE con == Scrolled(Wrapped(Written(Console, c)))
  <2>1. con \in Consoles /\ con.x < Columns /\ con.y < Rows
    BY <1>1, EchoTypes
  <2>2. Becomes(con)
    BY <1>3 DEF echo
  <2> HIDE DEF con
  <2>3. Console' \in Consoles /\ cursor_x' < Columns /\ cursor_y' < Rows
    BY <2>1, <2>2, BecomesIs
  <2>4. paper' \in Sheets /\ sheet_x' \in 0 .. Columns - 1 /\ sheet_y' \in Nat
    BY <1>3, NoteTypes DEF echo
  <2>5. put_at' = put_at /\ echoed' \in BOOLEAN
    BY <1>3 DEF echo, ConsoleTypes
  <2> QED
    BY <2>3, <2>4, <2>5 DEF ConsoleTypes, Inside
<1>4. CASE put_wraps
  <2>1. Wrapped(Console) \in Consoles /\ Wrapped(Console).x < Columns
    BY <1>1, WrappedTypes
  <2>2. Console' \in Consoles /\ cursor_x' < Columns
    BY <1>4, <2>1, BecomesIs DEF put_wraps
  <2> QED
    BY <1>4, <2>2 DEF put_wraps, ConsoleTypes, Inside
<1>5. CASE put_scrolls
  <2>1. Scrolled(Console) \in Consoles /\ Scrolled(Console).x = Console.x /\ Scrolled(Console).y < Rows
    BY <1>1, ScrolledTypes
  <2>2. Console' \in Consoles /\ cursor_x' = cursor_x /\ cursor_y' < Rows
    BY <1>1, <1>5, <2>1, BecomesIs DEF put_scrolls
  <2> QED
    BY <1>5, <2>2 DEF put_scrolls, ConsoleTypes, Inside
<1>6. CASE monitor_clear
  <2> DEFINE con == [m |-> [r \in 1 .. Rows |-> BlankRow], x |-> 0, y |-> 0, stray |-> stray]
  <2>1. con \in Consoles /\ con.x = 0 /\ con.y = 0
    BY DEF ConsoleTypes, Console, Consoles, BlankRow, TextRows
  <2>2. Becomes(con)
    BY <1>6 DEF monitor_clear
  <2> HIDE DEF con
  <2>3. Console' \in Consoles /\ cursor_x' = 0 /\ cursor_y' = 0
    BY <2>1, <2>2, BecomesIs
  <2>4. paper' \in Sheets /\ sheet_x' = 0 /\ sheet_y' = 0 /\ put_at' = put_at /\ echoed' = echoed
    BY <1>6 DEF monitor_clear, ConsoleTypes, Sheets, BlankRow, TextRows
  <2>5. 0 \in 0 .. Columns - 1 /\ 0 < Columns /\ 0 < Rows
    BY ConsoleSizes
  <2>6. Inside'
    BY <2>3, <2>5 DEF Inside
  <2> QED
    BY <2>3, <2>4, <2>5, <2>6 DEF ConsoleTypes
<1> QED
    BY <1>2, <1>3, <1>4, <1>5, <1>6 DEF ConsoleNext

\* Without an echo in the middle of a call every step brings the console nearer
\* to the sheet.
LEMMA StepKeepsInStep ==
    ASSUME ConsoleTypes, Inside, InStep, ~echoed, ~echoed', ConsoleNext
    PROVE  InStep'
<1>1. Console \in Consoles /\ cursor_x = Console.x /\ cursor_y = Console.y /\ stray = Console.stray
      /\ paper \in Sheets /\ sheet_x \in 0 .. Columns - 1 /\ sheet_y \in Nat
    BY DEF ConsoleTypes, Console
<1>2. ASSUME NEW c \in Inputs, put_at = "idle", note(c)
      PROVE  /\ Follows(Wrapped(Written(Console, c)), paper', sheet_x', sheet_y')
             /\ Written(Console, c).stray = stray
  <2> DEFINE x == CASE c \in Marks -> sheet_x + 1
                    [] c = "backspace" /\ sheet_x > 0 -> sheet_x - 1
                    [] c = "\t" -> NextTab(sheet_x)
                    [] c \in {"\r", "\n"} -> 0
                    [] OTHER -> sheet_x
  <2>1. Follows(Console, paper, sheet_x, sheet_y) /\ Console.y < Rows
    BY <1>1, <1>2 DEF InStep, Inside
  <2>2. sheet_x' = (IF x >= Columns THEN 0 ELSE x)
        /\ sheet_y' = (IF c = "\n" \/ x >= Columns THEN sheet_y + 1 ELSE sheet_y)
        /\ paper' = (IF c \in Marks THEN [paper EXCEPT ![sheet_y + 1][sheet_x + 1] = c] ELSE paper)
    BY <1>2 DEF note
  <2>3. x = CASE c \in Marks -> sheet_x + 1
              [] c = "backspace" /\ sheet_x > 0 -> sheet_x - 1
              [] c = "\t" -> NextTab(sheet_x)
              [] c \in {"\r", "\n"} -> 0
              [] OTHER -> sheet_x
    OBVIOUS
  <2> HIDE DEF x
  <2> QED
    BY <1>1, <1>2, <2>1, <2>2, <2>3, WriteFollows
<1>3. ASSUME NEW c \in Inputs, put_writes(c)
      PROVE  InStep'
  <2>1. Written(Console, c) \in Consoles
    BY <1>1, WrittenTypes
  <2>2. Console' = Written(Console, c) /\ stray' = Written(Console, c).stray
    BY <1>3, <2>1, BecomesIs DEF put_writes
  <2>3. Follows(Wrapped(Written(Console, c)), paper', sheet_x', sheet_y') /\ stray' = stray
    BY <1>2, <1>3, <2>2 DEF put_writes
  <2>4. put_at' = "wrap"
    BY <1>3 DEF put_writes
  <2> QED
    BY <2>2, <2>3, <2>4 DEF InStep
<1>4. ASSUME NEW c \in Inputs, echo(c)
      PROVE  InStep'
  <2> DEFINE w == Written(Console, c)
  <2>1. put_at = "idle" /\ put_at' = "idle"
    <3>1. echoed' = (echoed \/ put_at # "idle") /\ put_at' = put_at
        BY <1>4 DEF echo
    <3> QED
        BY <3>1
  <2>2. Follows(Wrapped(w), paper', sheet_x', sheet_y') /\ w.stray = stray
    BY <1>2, <1>4, <2>1 DEF echo
  <2>3. w \in Consoles
    BY <1>1, WrittenTypes
  <2>4. Scrolled(Wrapped(w)) \in Consoles /\ Scrolled(Wrapped(w)).stray = w.stray
    BY <1>1, EchoTypes
  <2>5. Becomes(Scrolled(Wrapped(w)))
    BY <1>4 DEF echo
  <2> HIDE DEF w
  <2>6. Console' = Scrolled(Wrapped(w)) /\ stray' = stray
    BY <2>2, <2>4, <2>5, BecomesIs
  <2>7. Wrapped(w) \in Consoles /\ sheet_y' \in Nat /\ paper' \in Sheets
    BY <1>4, <2>3, WrappedTypes, NoteTypes DEF echo
  <2>8. Follows(Scrolled(Wrapped(w)), paper', sheet_x', sheet_y')
    BY <2>2, <2>7, ScrollFollows
  <2> QED
    BY <2>1, <2>6, <2>8 DEF InStep
<1>5. CASE put_wraps
  <2>1. Wrapped(Console) \in Consoles /\ Wrapped(Console).stray = Console.stray
    BY <1>1, WrappedTypes
  <2>2. Console' = Wrapped(Console) /\ stray' = stray
    BY <1>1, <1>5, <2>1, BecomesIs DEF put_wraps
  <2>3. put_at = "wrap" /\ put_at' = "scroll" /\ UNCHANGED <<paper, sheet_x, sheet_y>>
    BY <1>5 DEF put_wraps
  <2> QED
    BY <2>2, <2>3 DEF InStep
<1>6. CASE put_scrolls
  <2>1. Scrolled(Console) \in Consoles /\ Scrolled(Console).stray = Console.stray
    BY <1>1, ScrolledTypes
  <2>2. Console' = Scrolled(Console) /\ stray' = stray
    BY <1>1, <1>6, <2>1, BecomesIs DEF put_scrolls
  <2>3. put_at = "scroll" /\ put_at' = "idle" /\ UNCHANGED <<paper, sheet_x, sheet_y>>
    BY <1>6 DEF put_scrolls
  <2>4. Follows(Scrolled(Console), paper, sheet_x, sheet_y)
    BY <1>1, <2>3, ScrollFollows DEF InStep
  <2> QED
    BY <2>2, <2>3, <2>4 DEF InStep
<1>7. CASE monitor_clear
  <2> DEFINE con == [m |-> [r \in 1 .. Rows |-> BlankRow], x |-> 0, y |-> 0, stray |-> stray]
  <2>1. con \in Consoles
    BY DEF ConsoleTypes, Console, Consoles, BlankRow, TextRows
  <2>2. con.x = 0 /\ con.y = 0 /\ con.stray = stray /\ con.m = [r \in 1 .. Rows |-> BlankRow]
    OBVIOUS
  <2>3. Becomes(con) /\ put_at = "idle" /\ put_at' = "idle" /\ sheet_x' = 0 /\ sheet_y' = 0
        /\ paper' = [r \in DOMAIN paper |-> BlankRow]
    BY <1>7 DEF monitor_clear
  <2> HIDE DEF con
  <2>4. Console' = con /\ stray' = stray
    BY <2>1, <2>2, <2>3, BecomesIs
  <2>5. Follows(con, paper', 0, 0)
    <3>1. paper' = [q \in 1 .. MaxPuts + 1 |-> BlankRow]
        BY <1>1, <2>3 DEF Sheets
    <3> QED
        BY <2>2, <3>1, BlankFollows
  <2> QED
    BY <2>3, <2>4, <2>5 DEF InStep
<1>8. Marks \cup {"backspace"} \subseteq Inputs
    BY DEF Inputs
<1> QED
    BY <1>3, <1>4, <1>5, <1>6, <1>7, <1>8 DEF ConsoleNext

\* The screen shows the end of what was written, and the cursor is where the
\* next character goes, for every size of the screen and stops of its tabs: for
\* ever if no echo comes in the middle of a call.  With one the cursor is still
\* on the screen whenever no call is under way.
THEOREM ConsoleShows == ConsoleSpec => []ConsoleTrue
<1>1. ConsoleInit => ConsoleInv
  <2> SUFFICES ASSUME ConsoleInit
               PROVE  ConsoleInv
    OBVIOUS
  <2>1. Console \in Consoles /\ Console.x = 0 /\ Console.y = 0
        /\ Console.m = [r \in 1 .. Rows |-> BlankRow]
    BY DEF ConsoleInit, Console, Consoles, BlankRow, TextRows
  <2>2. paper \in Sheets /\ sheet_x = 0 /\ sheet_y = 0 /\ paper = [r \in 1 .. MaxPuts + 1 |-> BlankRow]
    BY DEF ConsoleInit, Sheets, BlankRow, TextRows
  <2>3. 0 \in 0 .. Columns - 1 /\ 0 < Columns /\ 0 < Rows
    BY ConsoleSizes
  <2>4. Follows(Console, paper, 0, 0)
    BY <2>1, <2>2, BlankFollows
  <2>5. ConsoleTypes /\ Inside
    <3>1. cursor_x = 0 /\ cursor_y = 0 /\ put_at = "idle" /\ echoed = FALSE
        BY DEF ConsoleInit
    <3>2. Inside
        BY <2>3, <3>1 DEF Inside
    <3> QED
        BY <2>1, <2>2, <2>3, <3>1, <3>2 DEF ConsoleTypes
  <2> QED
    BY <2>2, <2>4, <2>5 DEF ConsoleInit, ConsoleInv, InStep
<1>2. ConsoleInv /\ [ConsoleNext]_consoleVars => ConsoleInv'
  <2> SUFFICES ASSUME ConsoleInv, [ConsoleNext]_consoleVars
               PROVE  ConsoleInv'
    OBVIOUS
  <2>1. CASE ConsoleNext
    <3>1. ConsoleTypes' /\ Inside'
        BY <2>1, ConsoleTypesKept DEF ConsoleInv
    <3>2. echoed => echoed'
      <4>1. echoed' = echoed \/ echoed' = (echoed \/ put_at # "idle")
        BY <2>1 DEF ConsoleNext, put_writes, echo, put_wraps, put_scrolls, monitor_clear
      <4> QED
        BY <4>1
    <3>3. ~echoed' => InStep'
        BY <2>1, <3>2, StepKeepsInStep DEF ConsoleInv
    <3> QED
        BY <3>1, <3>3 DEF ConsoleInv
  <2>2. CASE UNCHANGED consoleVars
    <3>1. UNCHANGED <<screen, cursor_x, cursor_y, put_at, stray, echoed, paper, sheet_x, sheet_y>>
        BY <2>2 DEF consoleVars
    <3>2. Console' = Console
        BY <3>1 DEF Console
    <3> QED
        BY <3>1, <3>2 DEF ConsoleInv, ConsoleTypes, Inside, InStep
  <2> QED
    BY <2>1, <2>2
<1>3. ConsoleInv => ConsoleTrue
  <2> SUFFICES ASSUME ConsoleInv
               PROVE  ConsoleTrue
    OBVIOUS
  <2>1. Console \in Consoles /\ cursor_x = Console.x /\ cursor_y = Console.y /\ screen = Console.m
    BY DEF ConsoleInv, ConsoleTypes, Console
  <2>2. cursor_x \in Nat /\ cursor_y \in Nat /\ sheet_y \in Nat
    BY <2>1 DEF ConsoleInv, ConsoleTypes, Consoles
  <2>3. CursorInside
    <3>1. put_at = "idle" => cursor_x \in 0 .. Columns - 1 /\ cursor_y \in 0 .. Rows - 1
        BY <2>2, ConsoleSizes DEF ConsoleInv, Inside
    <3>2. stray => echoed
        BY DEF ConsoleInv, InStep
    <3> QED
        BY <3>1, <3>2 DEF CursorInside
  <2>4. ASSUME put_at = "idle", ~echoed
        PROVE  /\ cursor_x = sheet_x /\ cursor_y <= sheet_y
               /\ \A r \in 1 .. Rows : r + sheet_y - cursor_y \in DOMAIN paper =>
                    screen[r] = paper[r + sheet_y - cursor_y]
    <3>1. cursor_x = sheet_x /\ cursor_y <= sheet_y /\ Agree(screen, paper, sheet_y - cursor_y)
        BY <2>1, <2>4 DEF ConsoleInv, InStep, Follows
    <3>2. \A r \in 1 .. Rows : r + sheet_y - cursor_y = r + (sheet_y - cursor_y)
        BY <2>2
    <3> QED
        BY <3>1, <3>2 DEF Agree
  <2> QED
    BY <2>3, <2>4 DEF ConsoleTrue, ScreenIsTail
<1> QED
    BY <1>1, <1>2, <1>3, PTL DEF ConsoleSpec

-----------------------------------------------------------------------------
(* Wallpaper. *)

Walls == [mode : {"gradient", "photo", "slideshow"}, index : Nat, photo : Nat, fade : Nat,
          fading : BOOLEAN, counter : Nat]

\* A mode is left at pictures only while there are pictures, and the picture is
\* one of them.
WallRight(w) ==
    /\ w \in Walls
    /\ w.mode # "gradient" => photo_count > 0
    /\ photo_count > 0 => w.photo < photo_count

PhotosRight == photo_count \in Nat /\ photos = 0 .. photo_count - 1

MenusRight ==
    /\ open_menu \in Menus \cup {NoMenu} /\ ctx_menu_open \in BOOLEAN
    /\ menus_open = IF open_menu = NoMenu THEN {} ELSE {open_menu}
    /\ ~(ctx_menu_open /\ open_menu # NoMenu)

WallpaperInv == PhotosRight /\ WallRight(wall) /\ MenusRight

\* The photos are counted by their numbers.
LEMMA PhotosCounted ==
    ASSUME NEW n \in Nat
    PROVE  Cardinality(0 .. n - 1) = n
BY FS_Interval

\* The photo after another is one that there is.
LEMMA NextPhotoRight ==
    ASSUME photo_count \in Nat, NEW n \in Nat
    PROVE  NextPhoto(n) \in Nat /\ (photo_count > 0 => NextPhoto(n) < photo_count)
<1> DEFINE count == photo_count
<1>1. count \in Nat
    OBVIOUS
<1>2. NextPhoto(n) = (n + 1) % (IF count > 0 THEN count ELSE 1)
    BY DEF NextPhoto
<1>3. \A k \in Nat \ {0} : (n + 1) % k \in 0 .. k - 1
    BY SMT
<1> HIDE DEF count
<1>4. NextPhoto(n) \in Nat /\ (count > 0 => NextPhoto(n) < count)
  <2>1. CASE count > 0
    BY <2>1, <1>1, <1>2, <1>3
  <2>2. CASE ~(count > 0)
    BY <2>2, <1>1, <1>2, <1>3
  <2> QED
    BY <2>1, <2>2
<1> QED
    BY <1>4 DEF count

\* What a row of a menu makes of the wallpaper.
LEMMA RowsRight ==
    ASSUME PhotosRight, WallRight(wall), NEW w \in ViewRows(wall) \cup ContextRows(wall)
    PROVE  WallRight(w)
<1> USE WallpaperAssumption DEF WallRight, Walls
<1>0. photo_count \in Nat /\ wall \in Walls
    BY DEF PhotosRight
<1>1. WallRight([wall EXCEPT !.mode = "gradient"])
    OBVIOUS
<1>2. ASSUME NEW mode \in {"photo", "slideshow"}, NEW needed \in Nat \ {0}
      PROVE  WallRight(Moded(wall, mode, needed))
    BY <1>0, <1>2 DEF Moded
<1>3. WallRight(next_wallpaper(wall))
  <2> DEFINE i == (wall.index + 1) % WALLPAPER_COUNT
             next == ax_set_wallpaper(wall, i)
  <2>1. i \in Nat
    <3>1. \A a \in Nat, k \in Nat \ {0} : (a + 1) % k \in Nat
        BY SMT
    <3> QED
        BY <1>0, <3>1
  <2>2. WallRight(next)
    <3> HIDE DEF i
    <3> QED
        BY <1>0, <2>1 DEF ax_set_wallpaper
  <2>3. next_wallpaper(wall) = IF wall.mode = "gradient" THEN next
                              ELSE [next EXCEPT !.photo = NextPhoto(@)]
    BY DEF next_wallpaper
  <2>4. next.photo \in Nat
    BY <2>2
  <2>5. NextPhoto(next.photo) \in Nat /\ (photo_count > 0 => NextPhoto(next.photo) < photo_count)
    BY <1>0, <2>4, NextPhotoRight
  <2> HIDE DEF next
  <2> QED
    BY <2>2, <2>3, <2>5
<1> QED
    BY <1>1, <1>2, <1>3 DEF ViewRows, ContextRows

\* A tick of the wallpaper shows no photo that is not there.
LEMMA TickRight ==
    ASSUME PhotosRight, NEW w, WallRight(w)
    PROVE  WallRight(wallpaper_tick(w))
<1> USE WallpaperAssumption DEF WallRight, Walls
<1> DEFINE f == Faded(w)
<1>1. WallRight(f)
  <2>1. w.fade \in Nat /\ w.fade + FadeStep \in Nat
    OBVIOUS
  <2>2. CASE ~w.fading
    BY <2>2 DEF Faded
  <2>3. CASE w.fading /\ w.fade + FadeStep >= 256
    <3> DEFINE full == 256
    <3>1. f = [w EXCEPT !.fade = full, !.fading = FALSE] /\ full \in Nat
        BY <2>3 DEF Faded
    <3> HIDE DEF f, full
    <3> HIDE WallpaperAssumption
    <3> QED
        BY <3>1
  <2>4. CASE w.fading /\ ~(w.fade + FadeStep >= 256)
    <3>1. f = [w EXCEPT !.fade = w.fade + FadeStep]
        BY <2>4 DEF Faded
    <3> HIDE DEF f
    <3> QED
        BY <2>1, <3>1
  <2> QED
    BY <2>2, <2>3, <2>4
<1>2. photo_count \in Nat /\ f.photo \in Nat
    BY <1>1 DEF PhotosRight
<1> HIDE DEF f
<1>3. NextPhoto(f.photo) \in Nat /\ (photo_count > 0 => NextPhoto(f.photo) < photo_count)
    BY <1>2, NextPhotoRight
<1> DEFINE shows == f.mode = "slideshow" /\ photo_count > 1
           t == Turned(f)
<1>4. WallRight(t)
  <2>1. f.counter \in Nat /\ f.counter + 1 \in Nat
    BY <1>1
  <2>2. CASE ~shows
    BY <1>1, <2>2 DEF Turned
  <2>3. CASE shows /\ f.counter + 1 < SLIDESHOW_INTERVAL
    <3>1. t = [f EXCEPT !.counter = f.counter + 1]
        BY <2>3 DEF Turned
    <3> HIDE DEF t
    <3> QED
        BY <1>1, <2>1, <3>1
  <2>4. CASE shows /\ ~(f.counter + 1 < SLIDESHOW_INTERVAL)
    <3>1. t = [f EXCEPT !.counter = 0, !.photo = NextPhoto(f.photo), !.fade = 0, !.fading = TRUE]
        BY <2>4 DEF Turned
    <3> HIDE DEF t
    <3> QED
        BY <1>1, <1>3, <3>1
  <2> QED
    BY <2>2, <2>3, <2>4
<1> QED
    BY <1>4 DEF wallpaper_tick, f

\* The step of a frame that every frame ends with.
LEMMA ComposedRight ==
    ASSUME PhotosRight, NEW w, WallRight(w), Composed(w)
    PROVE  PhotosRight' /\ WallRight(wall)'
<1>1. PhotosRight' /\ photos' = photos
    BY DEF Composed, PhotosRight, photo_count
<1>2. WallRight(wallpaper_tick(w))
    BY TickRight
<1>3. wall' = wallpaper_tick(w)
    BY DEF Composed
<1>4. photo_count' = photo_count
    BY <1>1 DEF photo_count
<1>5. WallRight(wall)' <=> WallRight(wall')
    BY <1>4 DEF WallRight
<1> QED
    BY <1>1, <1>2, <1>3, <1>5

\* In every frame the menu that is drawn open is the one that takes the next click,
\* and a mode that shows pictures shows one that was loaded: menus and wallpaper of
\* src/kernel/axshell.c, for any number of pictures and wallpapers.
THEOREM WallpaperRight == WallpaperSpec => []MenusAndPhotos
<1>1. WallpaperInit => WallpaperInv
  <2> SUFFICES ASSUME WallpaperInit PROVE WallpaperInv
    OBVIOUS
  <2>1. PICK n \in 0 .. MAX_PHOTOS : photos = 0 .. n - 1
    BY DEF WallpaperInit
  <2>2. n \in Nat
    BY WallpaperAssumption
  <2>3. photo_count = n
    BY <2>1, <2>2, PhotosCounted DEF photo_count
  <2>4. PhotosRight
    BY <2>1, <2>2, <2>3 DEF PhotosRight
  <2>5. WallRight(wall)
    BY <2>2, <2>3 DEF WallpaperInit, WallRight, Walls
  <2> QED
    BY <2>4, <2>5 DEF WallpaperInit, WallpaperInv, MenusRight, NoMenu
<1>2. WallpaperInv /\ [WallpaperFrame]_wallpaperVars => WallpaperInv'
  <2> SUFFICES ASSUME WallpaperInv, [WallpaperFrame]_wallpaperVars PROVE WallpaperInv'
    OBVIOUS
  <2>1. PhotosRight /\ WallRight(wall) /\ MenusRight
    BY DEF WallpaperInv
  <2> USE DEF MenusRight, NoMenu, Menus
  <2>2. CASE NoClick
    BY <2>1, <2>2, ComposedRight DEF NoClick, WallpaperInv
  <2>3. CASE RightClick
    BY <2>1, <2>3, ComposedRight DEF RightClick, WallpaperInv
  <2>4. CASE context_menu_click
    <3>1. PICK w \in ContextRows(wall) : Composed(w)
        BY <2>4 DEF context_menu_click
    <3>2. PhotosRight' /\ WallRight(wall)'
        BY <2>1, <3>1, RowsRight, ComposedRight
    <3> QED
        BY <2>1, <2>4, <3>2 DEF context_menu_click, WallpaperInv
  <2>5. CASE menu_click
    <3>1. PICK w \in (IF open_menu = 3 THEN ViewRows(wall) ELSE {wall}) : Composed(w)
        BY <2>5 DEF menu_click
    <3>2. WallRight(w)
        BY <2>1, <3>1, RowsRight
    <3>3. PhotosRight' /\ WallRight(wall)'
        BY <2>1, <3>1, <3>2, ComposedRight
    <3> QED
        BY <2>1, <2>5, <3>3 DEF menu_click, WallpaperInv
  <2>6. CASE logo_click
    BY <2>1, <2>6, ComposedRight DEF logo_click, WallpaperInv
  <2>7. CASE bar_click
    BY <2>1, <2>7, ComposedRight DEF bar_click, WallpaperInv
  <2>8. ASSUME NEW i \in Menus, title_click(i) PROVE WallpaperInv'
    <3>1. PhotosRight' /\ WallRight(wall)'
        BY <2>1, <2>8, ComposedRight DEF title_click
    <3>2. MenusRight'
        BY <2>1, <2>8 DEF title_click
    <3> QED
        BY <3>1, <3>2 DEF WallpaperInv
  <2>9. CASE UNCHANGED wallpaperVars
    BY <2>1, <2>9 DEF wallpaperVars, WallpaperInv, PhotosRight, WallRight, photo_count
  <2> QED
    BY <2>2, <2>3, <2>4, <2>5, <2>6, <2>7, <2>8, <2>9 DEF WallpaperFrame
<1>3. WallpaperInv => MenusAndPhotos
    BY DEF WallpaperInv, MenusRight, MenusAndPhotos, PhotosRight, WallRight, Walls,
           draw_wallpaper
<1> QED
    BY <1>1, <1>2, <1>3, PTL DEF WallpaperSpec

-----------------------------------------------------------------------------
(* Cursor. *)

\* The box that will be put back is the one the pointer was last drawn in.
CursorInv ==
    /\ buffer \in [Screen -> Int] /\ scene \in [Screen -> Int]
    /\ cursor_old_x = placed
    /\ placed \in Screen \cup {Nowhere} /\ before \in Screen \cup {Nowhere}
    /\ StaleAtPointer

\* Drawing on the back buffer and on the screen alike.
LEMMA CommitKeeps ==
    ASSUME CursorInv, placed # Nowhere,
           NEW cells \in SUBSET Screen, NEW shade \in Shades, commit(cells, shade)
    PROVE  CursorInv'
<1> USE DEF CursorInv, commit
<1>1. buffer' \in [Screen -> Int] /\ scene' \in [Screen -> Int]
    BY DEF Shades
<1>2. ASSUME NEW c \in Screen, buffer'[c] # scene'[c]
      PROVE  c \notin cells /\ buffer'[c] = buffer[c] /\ scene'[c] = scene[c]
    BY <1>2
<1>3. StaleAtPointer'
    BY <1>2 DEF StaleAtPointer, BoxAt
<1> QED
    BY <1>1, <1>3

\* A frame that draws the desktop anew.
LEMMA ComposeKeeps ==
    ASSUME CursorInv, NEW x \in Screen, NEW hasWindows \in BOOLEAN, NEW drawn \in Scenes,
           cursor_bg \in [0 .. CursorSide - 1 -> Int], compose(x, hasWindows, drawn)
    PROVE  CursorInv' /\ cursor_bg' \in [0 .. CursorSide - 1 -> Int]
<1> USE CursorAssumption
<1> DEFINE at == PlacedAt(x)
           put_back == IF hasWindows THEN Restored(drawn) ELSE drawn
<1>1. at \in Screen /\ \A i \in 0 .. CursorSide - 1 : at + i \in Screen
    BY DEF PlacedAt, Screen
<1>2. drawn \in [Screen -> Int]
    BY DEF Scenes, Shades
<1>3. \A c \in Screen : c \notin BoxAt(cursor_old_x) => Restored(drawn)[c] = drawn[c]
    BY DEF Restored
<1>4. Restored(drawn) \in [Screen -> Int]
  <2>1. ASSUME NEW c \in Screen, c \in BoxAt(cursor_old_x)
        PROVE  cursor_bg[c - cursor_old_x] \in Int
    BY <2>1 DEF BoxAt, Screen, CursorInv, Nowhere
  <2> QED
    BY <1>2, <2>1 DEF Restored
<1>5. put_back \in [Screen -> Int]
    BY <1>2, <1>4
<1>6. /\ scene' = drawn /\ placed' = at /\ cursor_old_x' = at
      /\ before' = IF hasWindows THEN placed ELSE Nowhere
      /\ buffer' = Pointed(put_back, at)
      /\ cursor_bg' = [i \in 0 .. CursorSide - 1 |-> put_back[at + i]]
    BY DEF compose, OldX
<1> HIDE DEF at, put_back
<1>7. buffer' \in [Screen -> Int]
    BY <1>5, <1>6 DEF Pointed, Arrow
<1>8. cursor_bg' \in [0 .. CursorSide - 1 -> Int]
    BY <1>1, <1>5, <1>6
<1>9. ASSUME NEW c \in Screen, buffer'[c] # scene'[c]
      PROVE  \/ buffer'[c] = Arrow /\ c \in at .. at + ArrowSide - 1
             \/ c \in BoxAt(before')
  <2>1. CASE c \in at .. at + ArrowSide - 1
    BY <2>1, <1>6 DEF Pointed
  <2>2. CASE c \notin at .. at + ArrowSide - 1
    <3>1. buffer'[c] = put_back[c]
        BY <2>2, <1>6 DEF Pointed
    <3>2. hasWindows /\ Restored(drawn)[c] # drawn[c]
        BY <3>1, <1>6, <1>9 DEF put_back
    <3>3. c \in BoxAt(placed)
        BY <3>2, <1>3 DEF CursorInv
    <3> QED
        BY <3>2, <3>3, <1>6
  <2> QED
    BY <2>1, <2>2
<1>10. StaleAtPointer'
    BY <1>6, <1>9 DEF StaleAtPointer, BoxAt
<1> QED
    BY <1>1, <1>2, <1>6, <1>7, <1>8, <1>10 DEF CursorInv

\* What the screen shows beside the desktop is the arrow where the pointer is, and
\* what is left of it in the box it was in before: draw_cursor() of
\* src/kernel/axshell.c puts back what compose() has drawn over, and no more.
THEOREM StaleOnlyAtPointer == CursorSpec => []StaleAtPointer
<1> DEFINE Inv == CursorInv /\ cursor_bg \in [0 .. CursorSide - 1 -> Int]
<1>1. CursorInit => Inv
    BY CursorAssumption DEF CursorInit, CursorInv, StaleAtPointer, Scenes, Shades
<1>2. Inv /\ [CursorNext]_cursorVars => Inv'
  <2> SUFFICES ASSUME Inv, [CursorNext]_cursorVars PROVE Inv'
    OBVIOUS
  <2>1. ASSUME NEW x \in Screen, NEW hasWindows \in BOOLEAN, NEW drawn \in Scenes,
               compose(x, hasWindows, drawn)
        PROVE  Inv'
    BY <2>1, ComposeKeeps
  <2>2. ASSUME placed # Nowhere, NEW from \in Screen, NEW shade \in Shades,
               commit(from .. Cells - 1, shade)
        PROVE  Inv'
    <3>1. from .. Cells - 1 \in SUBSET Screen
        BY CursorAssumption DEF Screen
    <3>2. CursorInv'
        BY <2>2, <3>1, CommitKeeps
    <3> QED
        BY <2>2, <3>2 DEF commit
  <2>3. CASE UNCHANGED cursorVars
    BY <2>3 DEF cursorVars, CursorInv, StaleAtPointer, BoxAt
  <2> QED
    BY <2>1, <2>2, <2>3 DEF CursorNext
<1>3. Inv => StaleAtPointer
    BY DEF CursorInv
<1> QED
    BY <1>1, <1>2, <1>3, PTL DEF CursorSpec

-----------------------------------------------------------------------------
(* Interrupts. *)

BootStages == {"main", "tables", "masks", "keyboard", "mouse", "shell"}

\* The lines a handler of line l has in service until it ends them.
Taken(l) == {l} \cup (IF l >= 8 THEN {Cascade} ELSE {})

\* Interrupts are let in when all that main() does is done, and while one is
\* answered no other is; what is in service is what the handler that runs has
\* not ended yet.
InterruptsInv ==
    /\ flag \in BOOLEAN /\ boot \in BootStages
    /\ requested \subseteq Lines
    /\ flag = TRUE => boot = "shell" /\ cpu = Free
    /\ boot \in {"keyboard", "mouse", "shell"} => Keys \in handlers
    /\ boot \in {"mouse", "shell"} /\ MousePresent => MouseLine \in handlers
    /\ \/ cpu = Free
       \/ /\ boot = "shell"
          /\ \E l \in Lines, s \in {"end", "call", "return"} : cpu = [line |-> l, step |-> s]
    /\ in_service = IF cpu.step = "end" THEN Taken(cpu.line) ELSE {}

\* The least of one number.
LEMMA MinOfOne ==
    ASSUME NEW n \in Int
    PROVE  Min({n}) = n
BY SMT DEF Min

\* The two writes to the controllers end what the line has taken.
LEMMA EndedAll ==
    ASSUME NEW l \in Lines
    PROVE  Ended(l, Taken(l)) = {}
<1> USE DEF Lines, Timer, Keys, MouseLine, Cascade
<1>1. EndFirst({}) = {}
    BY DEF EndFirst
<1>2. ASSUME NEW n \in {0, 1, 2} PROVE EndFirst({n}) = {}
  <2>1. {k \in {n} : k < 8} = {n}
    OBVIOUS
  <2> QED
    BY <2>1, MinOfOne DEF EndFirst
<1>3. EndSecond({12, 2}) = {2}
  <2>1. {k \in {12, 2} : k >= 8} = {12}
    OBVIOUS
  <2>2. Min({12}) = 12
    BY MinOfOne
  <2> QED
    BY <2>1, <2>2 DEF EndSecond
<1>4. CASE l = 12
  <2>1. Taken(l) = {12, 2}
    BY <1>4 DEF Taken
  <2> QED
    BY <2>1, <1>2, <1>3, <1>4 DEF Ended
<1>5. CASE l \in {0, 1}
  <2>1. Taken(l) = {l}
    BY <1>5 DEF Taken
  <2> QED
    BY <2>1, <1>2, <1>5 DEF Ended
<1> QED
    BY <1>4, <1>5

\* The processor takes an interrupt.
LEMMA TakeKeeps ==
    ASSUME InterruptsInv, take
    PROVE  InterruptsInv'
<1> USE DEF InterruptsInv
<1>1. boot = "shell" /\ cpu = Free /\ in_service = {}
    BY DEF take, Free
<1> DEFINE first == CHOOSE l \in Passed : \A k \in Passed : Rank(l) <= Rank(k)
<1>2. first \in Passed
  <2>1. Passed \subseteq Lines /\ Passed # {}
    BY DEF take, Passed
  <2>2. \A l \in Lines : Rank(l) \in Int
    BY DEF Rank, Lines, Timer, Keys, MouseLine, Cascade
  <2>3. \E l \in Passed : \A k \in Passed : Rank(l) <= Rank(k)
    BY <2>1, <2>2 DEF Lines
  <2> QED
    BY <2>3
<1>3. first \in Lines
    BY <1>2 DEF Passed
<1> HIDE DEF first
<1>4. /\ cpu' = [line |-> first, step |-> "end"]
      /\ in_service' = Taken(first)
      /\ requested' = requested \ {first} /\ flag' = FALSE
      /\ UNCHANGED <<boot, masked, handlers>>
    BY <1>1 DEF take, first, Taken
<1> QED
    BY <1>1, <1>3, <1>4

\* An interrupt of a device whose driver is there is answered by it, and when a
\* handler has returned no line is left in service: the order in which main()
\* prepares, and the ends of interrupts of isr.c and keyboard.c.
THEOREM InterruptsMeetDrivers == InterruptsSpec => []DriversMeetInterrupts
<1>1. InterruptsInit => InterruptsInv
  <2> SUFFICES ASSUME InterruptsInit PROVE InterruptsInv
    OBVIOUS
  <2>1. flag = FALSE /\ boot = "main" /\ requested = {} /\ in_service = {} /\ cpu = Free
    BY DEF InterruptsInit
  <2>2. cpu.step = "none"
    BY <2>1 DEF Free
  <2> QED
    BY <2>1, <2>2 DEF InterruptsInv, BootStages
<1>2. InterruptsInv /\ [InterruptsNext]_interruptVars => InterruptsInv'
  <2> SUFFICES ASSUME InterruptsInv, [InterruptsNext]_interruptVars PROVE InterruptsInv'
    OBVIOUS
  <2> USE DEF InterruptsInv
  <2>1. CASE take
    BY <2>1, TakeKeeps
  <2>2. CASE irq_end
    <3>1. PICK l \in Lines : cpu = [line |-> l, step |-> "end"]
        BY <2>2 DEF irq_end, Free
    <3>2. in_service' = {} /\ cpu' = [line |-> l, step |-> "call"]
        BY <2>2, <3>1, EndedAll DEF irq_end
    <3> QED
        BY <2>2, <3>1, <3>2 DEF irq_end, Free
  <2>3. CASE irq_call
    <3>1. PICK l \in Lines : cpu = [line |-> l, step |-> "call"]
        BY <2>3 DEF irq_call, Free
    <3>2. in_service' = {} /\ cpu' = [line |-> l, step |-> "return"]
        BY <2>3, <3>1 DEF irq_call, EndFirst
    <3> QED
        BY <2>3, <3>1, <3>2 DEF irq_call, Free
  <2>4. CASE irq_return
    BY <2>4 DEF irq_return, Free
  <2>5. CASE init_descriptor_tables
    BY <2>5 DEF init_descriptor_tables, stage, Free, BootStages
  <2>6. CASE main_masks \/ init_keyboard \/ install_mouse
    BY <2>6 DEF main_masks, init_keyboard, install_mouse, stage, BootStages
  <2>7. CASE main_sti
    BY <2>7 DEF main_sti, ReadyForInterrupts, BootStages
  <2>8. CASE \E l \in Lines : raise(l)
    BY <2>8 DEF raise
  <2>9. CASE UNCHANGED interruptVars
    BY <2>9 DEF interruptVars
  <2> QED
    BY <2>1, <2>2, <2>3, <2>4, <2>5, <2>6, <2>7, <2>8, <2>9 DEF InterruptsNext, Cpu
<1>3. InterruptsInv => DriversMeetInterrupts
    BY DEF InterruptsInv, DriversMeetInterrupts, Free, Lines, Timer, Keys, MouseLine
<1> QED
    BY <1>1, <1>2, <1>3, PTL DEF InterruptsSpec

=============================================================================
