------------------------------ MODULE Windows ------------------------------
(***************************************************************************)
(* The window manager of the compositor, src/kernel/axshell.c: the table   *)
(* of surfaces, one frame of the main loop from update_mouse() to the      *)
(* focus repair of compose(), and the system calls of applications.        *)
(*                                                                         *)
(* Every system call and every frame is one step: tasks switch only where  *)
(* they yield, and interrupts only move the mouse that update_mouse()      *)
(* reads.  Geometry is left out: which windows lie under the cursor, and   *)
(* which part of the front one, is chosen anew in every frame.  Every      *)
(* window in use is visible.  Canvas addresses differ in their lower       *)
(* halves, which is what ax_syscall_poll() compares.                       *)
(***************************************************************************)
EXTENDS Integers, Sequences, FiniteSets

CONSTANTS
    MaxWindows,   \* AX_MAX_WINDOWS
    QueueSlots,   \* the slots of ev_queue; one stays empty
    Canvas,       \* the heap blocks a canvas may be
    NoCanvas      \* a NULL canvas

ASSUME MaxWindowsAssumption == MaxWindows \in Nat \ {0}
ASSUME QueueSlotsAssumption == QueueSlots \in Nat \ {0, 1}
ASSUME CanvasAssumption == NoCanvas \notin Canvas

VARIABLES
    wm,        \* the surfaces, active_surface and the blocks the heap has
    about,     \* about_open
    ctx,       \* ctx_menu_open
    menu,      \* open_menu
    widget,    \* dragging_widget is not -1
    left,      \* mouse.left, which is mouse.prev_left to the next frame
    right      \* mouse.right, likewise

vars == <<wm, about, ctx, menu, widget, left, right>>
screenVars == <<about, ctx, menu, widget>>

Window == 0 .. MaxWindows - 1
NoWindow == -1
Event == {"MOUSE", "CLOSE", "RESIZE"}
Menu == {"Logo", "File", "Other"}
NoMenu == "None"     \* Other stands for Edit and View, which close no window

\* The surface table: sets of the windows that have a flag; who is behind
\* whom by z; the canvas and the queued events of each.
Surfaces == [
    used : SUBSET Window, focused : SUBSET Window,
    minimized : SUBSET Window, maximized : SUBSET Window,
    dragging : SUBSET Window, resizing : SUBSET Window,
    behind : SUBSET (Window \X Window),
    active : Window \cup {NoWindow},
    canvas : [Window -> Canvas \cup {NoCanvas}],
    queue : [Window -> Seq(Event)],
    free : SUBSET Canvas ]

-----------------------------------------------------------------------------
(* Operations on a surface table d. *)

Lowest(S) == CHOOSE w \in S : \A v \in S : w <= v

Shown(d) == d.used \ d.minimized

\* surf_at(): w is the front one of the windows shown under the cursor.
surf_at(d, under, w) ==
    /\ w \in Shown(d) \cap under
    /\ \A v \in (Shown(d) \cap under) \ {w} : <<v, w>> \in d.behind

\* Faulty variant: the window does not come to the front.
surf_focus_NoRaise(d, w) ==
    [d EXCEPT !.focused = {w}, !.active = w]

surf_focus(d, w) ==
    [d EXCEPT !.focused = {w}, !.active = w,
              !.behind = {p \in @ : p[1] # w} \cup ((d.used \ {w}) \X {w})]

\* Faulty variant: a full queue is not noticed.
surf_push_event_Unbounded(d, w, e) ==
    IF w \notin d.used THEN d ELSE [d EXCEPT !.queue[w] = Append(@, e)]

\* An event for a full queue is dropped.
surf_push_event(d, w, e) ==
    IF w \notin d.used \/ Len(d.queue[w]) = QueueSlots - 1 THEN d
    ELSE [d EXCEPT !.queue[w] = Append(@, e)]

\* Faulty variant: the canvas is not freed.
Release_Leak(d, w) ==
    [d EXCEPT !.used = @ \ {w}, !.canvas[w] = NoCanvas,
              !.behind = {p \in @ : p[1] # w /\ p[2] # w}]

\* Window w goes: its canvas is freed and its slot may be reused.
Release(d, w) ==
    [d EXCEPT !.used = @ \ {w},
              !.free = @ \cup {d.canvas[w]},
              !.canvas[w] = NoCanvas,
              !.behind = {p \in @ : p[1] # w /\ p[2] # w}]

\* toggle_maximize()
toggle_maximize(d, w) ==
    surf_push_event(
        [d EXCEPT !.maximized = IF w \in @ THEN @ \ {w} ELSE @ \cup {w}], w, "RESIZE")

\* The close button of w: the focus goes to the used window of lowest index.
CloseButton(d, w) ==
    LET closed == Release(surf_push_event(d, w, "CLOSE"), w) IN
    IF closed.used = {} THEN [closed EXCEPT !.active = NoWindow]
    ELSE surf_focus(closed, Lowest(closed.used))

\* Menu item Close Window: the focus goes to the front window shown.
CloseActive(d) ==
    IF d.active \notin Shown(d) THEN d
    ELSE LET w == d.active
             released == Release(surf_push_event(d, w, "CLOSE"), w)
             closed == [released EXCEPT !.focused = @ \ {w}]
         IN  IF Shown(closed) = {} THEN [closed EXCEPT !.active = NoWindow]
             ELSE surf_focus(closed, CHOOSE v \in Window : surf_at(closed, Window, v))

\* Menu item Quit: every window is told and released.
CloseAll(d) ==
    [d EXCEPT !.used = {},
              !.free = @ \cup {d.canvas[w] : w \in d.used},
              !.canvas = [w \in Window |-> IF w \in d.used THEN NoCanvas ELSE @[w]],
              !.queue = [w \in Window |-> surf_push_event(d, w, "CLOSE").queue[w]],
              !.behind = {},
              !.active = NoWindow]

\* Faulty variant: the focus is not repaired.
Repaired_Not(d) == d

\* compose(): no window shown has no active one; with none active, the first.
Repaired(d) ==
    IF Shown(d) = {} THEN [d EXCEPT !.active = NoWindow]
    ELSE IF d.active = NoWindow THEN surf_focus(d, Lowest(Shown(d)))
    ELSE d

-----------------------------------------------------------------------------
(* A frame: one action for each way through process_input().  The buttons  *)
(* are l and r; the last conjunct of each is the rest of the frame.        *)

Clicked(l) == l /\ ~left
Released(l) == ~l /\ left
RightClicked(r) == r /\ ~right

Compose(d, l, r) == wm' = Repaired(d) /\ left' = l /\ right' = r

\* A click inside the About box closes it.
about_click(l, r) ==
    /\ about /\ Clicked(l)
    /\ about' = FALSE
    /\ Compose(wm, l, r) /\ UNCHANGED <<ctx, menu, widget>>

context_menu_open(l, r) ==
    /\ RightClicked(r)
    /\ ctx' = TRUE /\ menu' = NoMenu
    /\ Compose(wm, l, r) /\ UNCHANGED <<about, widget>>

\* While the context menu is open a frame without a click does nothing.
context_menu_idle(l, r) ==
    /\ ctx /\ ~RightClicked(r) /\ ~Clicked(l)
    /\ Compose(wm, l, r) /\ UNCHANGED screenVars

\* Item About, another item, or a click outside.
context_menu_click(l, r) ==
    /\ ctx /\ ~RightClicked(r) /\ Clicked(l)
    /\ ctx' = FALSE /\ about' \in {about, TRUE}
    /\ Compose(wm, l, r) /\ UNCHANGED <<menu, widget>>

\* The frame goes on to the menus and windows.
Proceeds(r) == ~RightClicked(r) /\ ~ctx

menubar_click(l, r) ==
    /\ Proceeds(r) /\ Clicked(l)
    /\ menu' \in {m \in Menu : m # menu \/ m = "Other"} \cup {NoMenu}
    /\ Compose(wm, l, r) /\ UNCHANGED <<about, ctx, widget>>

\* Any item, or a click outside, closes the menu.  The items that are not
\* here change the wallpaper, launch an application or stop the machine.
menu_click(l, r) ==
    /\ Proceeds(r) /\ Clicked(l) /\ menu # NoMenu
    /\ menu' = NoMenu
    /\ \/ Compose(wm, l, r) /\ UNCHANGED about
       \/ menu = "Logo" /\ Compose(wm, l, r) /\ about' = TRUE
       \/ menu = "File" /\ Compose(CloseActive(wm), l, r) /\ UNCHANGED about
       \/ menu = "File" /\ Compose(CloseAll(wm), l, r) /\ UNCHANGED about
    /\ UNCHANGED <<ctx, widget>>

Presses(l, r) == Proceeds(r) /\ Clicked(l) /\ menu = NoMenu

\* Item About; the others launch an application.
dock_click(l, r) ==
    /\ Presses(l, r)
    /\ about' \in {about, TRUE}
    /\ Compose(wm, l, r) /\ UNCHANGED <<ctx, menu, widget>>

widget_press(l, r) ==
    /\ Presses(l, r)
    /\ widget' = TRUE
    /\ Compose(wm, l, r) /\ UNCHANGED <<about, ctx, menu>>

\* A press on the front window under the cursor that ends the frame.
press_close(l, r, w) ==
    /\ Presses(l, r)
    /\ Compose(CloseButton(surf_focus(wm, w), w), l, r)
    /\ UNCHANGED screenVars

press_minimize(l, r, w) ==
    /\ Presses(l, r)
    /\ Compose([surf_focus(wm, w) EXCEPT !.minimized = @ \cup {w}], l, r)
    /\ UNCHANGED screenVars

\* The green button of the title bar, which starts a drag as well.
press_green(l, r, w) ==
    /\ Presses(l, r)
    /\ LET d == surf_focus(wm, w)
       IN  Compose(toggle_maximize([d EXCEPT !.dragging = @ \cup {w}], w), l, r)
    /\ UNCHANGED screenVars

\* The column of the green button, but inside the window.
press_below_green(l, r, w) ==
    /\ Presses(l, r)
    /\ LET d == surf_push_event(surf_focus(wm, w), w, "MOUSE")
       IN  Compose(toggle_maximize(d, w), l, r)
    /\ UNCHANGED screenVars

\* A press on the desktop or on the window w that goes on: on the resize grip,
\* the title bar or the content.
Pressed(d, w, part) ==
    IF w = NoWindow THEN d
    ELSE LET f == surf_focus(d, w) IN
         CASE part = "grip"    -> [f EXCEPT !.resizing = @ \cup {w}]
           [] part = "title"   -> [f EXCEPT !.dragging = @ \cup {w}]
           [] part = "content" -> surf_push_event(f, w, "MOUSE")

\* Windows that are being resized hear of it in every frame.
Dragged(d) ==
    [d EXCEPT !.queue = [w \in Window |->
        IF w \in d.resizing THEN surf_push_event(d, w, "RESIZE").queue[w] ELSE @[w]]]

\* Faulty variant: a window that was being resized still is.
Dropped_KeepsResizing(d) == [d EXCEPT !.dragging = {}]

Dropped(d) == [d EXCEPT !.dragging = {}, !.resizing = {}]

\* The mouse event of the frame goes to the front window under the cursor.
MouseSent(d, under) ==
    IF Shown(d) \cap under # {}
    THEN surf_push_event(d, CHOOSE w \in Window : surf_at(d, under, w), "MOUSE")
    ELSE IF d.active # NoWindow /\ d.used \cap d.focused = {}
         THEN [d EXCEPT !.active = NoWindow]
         ELSE d

\* The end of a frame that is not cut short: windows follow the mouse, or are
\* dropped, and whatever the mouse did is reported to the window it is over.
Tracked(d, l, moved, under) ==
    LET dragged == IF l THEN Dragged(d) ELSE d
        dropped == IF Released(l) THEN Dropped(dragged) ELSE dragged
    IN  IF moved \/ l # left THEN MouseSent(dropped, under) ELSE dropped

\* Without a press.
track(l, r, moved, under) ==
    /\ Proceeds(r) /\ ~Clicked(l)
    /\ Compose(Tracked(wm, l, moved, under), l, r)
    /\ widget' = (widget /\ ~Released(l))
    /\ UNCHANGED <<about, ctx, menu>>

\* With a press that does not end the frame.  A window that starts to follow
\* the mouse may no longer be under it when the event is sent.
press_track(l, r, under, w, part, underAfter) ==
    /\ Presses(l, r)
    /\ underAfter # under => w # NoWindow /\ part \in {"grip", "title"}
    /\ Compose(Tracked(Pressed(wm, w, part), l, TRUE, underAfter), l, r)
    /\ UNCHANGED screenVars

-----------------------------------------------------------------------------
(* The system calls. *)

\* Faulty variant: the slot keeps the events of the window it had before.
Fresh_KeepsQueue(d, w, c) ==
    [d EXCEPT !.used = @ \cup {w}, !.focused = @ \ {w},
              !.minimized = @ \ {w}, !.maximized = @ \ {w},
              !.dragging = @ \ {w}, !.resizing = @ \ {w},
              !.canvas[w] = c, !.free = @ \ {c}]

\* Slot w is cleared and becomes a window with canvas c.
Fresh(d, w, c) ==
    [d EXCEPT !.used = @ \cup {w}, !.focused = @ \ {w},
              !.minimized = @ \ {w}, !.maximized = @ \ {w},
              !.dragging = @ \ {w}, !.resizing = @ \ {w},
              !.canvas[w] = c, !.free = @ \ {c}, !.queue[w] = << >>]

\* An application opens a window.  Without a slot or memory nothing changes
\* that anybody reads.
ax_syscall_surface(c) ==
    /\ wm.used # Window
    /\ c \in wm.free
    /\ LET w == Lowest(Window \ wm.used)
       IN  wm' = surf_focus(Fresh(wm, w, c), w)
    /\ UNCHANGED <<screenVars, left, right>>

\* An application takes the oldest event of the window with canvas c.  When
\* there is none, or no such window, nothing changes.
ax_syscall_poll(c) ==
    /\ \E w \in wm.used :
        /\ wm.canvas[w] = c /\ wm.queue[w] # << >>
        /\ wm' = [wm EXCEPT !.queue[w] = Tail(@)]
    /\ UNCHANGED <<screenVars, left, right>>

-----------------------------------------------------------------------------
Init ==
    /\ wm = [used |-> {}, focused |-> {}, minimized |-> {}, maximized |-> {},
             dragging |-> {}, resizing |-> {}, behind |-> {}, active |-> NoWindow,
             canvas |-> [w \in Window |-> NoCanvas],
             queue |-> [w \in Window |-> << >>], free |-> Canvas]
    /\ about = TRUE
    /\ ctx = FALSE
    /\ menu = NoMenu
    /\ widget = FALSE
    /\ left = FALSE
    /\ right = FALSE

Frame ==
    \E l, r \in BOOLEAN :
        \/ about_click(l, r)
        \/ context_menu_open(l, r)
        \/ context_menu_idle(l, r)
        \/ context_menu_click(l, r)
        \/ menubar_click(l, r)
        \/ menu_click(l, r)
        \/ dock_click(l, r)
        \/ widget_press(l, r)
        \/ \E under \in SUBSET Window :
            \/ \E w \in Window : surf_at(wm, under, w) /\ press_close(l, r, w)
            \/ \E w \in Window : surf_at(wm, under, w) /\ press_minimize(l, r, w)
            \/ \E w \in Window : surf_at(wm, under, w) /\ press_green(l, r, w)
            \/ \E w \in Window : surf_at(wm, under, w) /\ press_below_green(l, r, w)
            \/ \E moved \in BOOLEAN : track(l, r, moved, under)
            \/ \E w \in Window \cup {NoWindow}, part \in {"grip", "title", "content"},
                  underAfter \in SUBSET Window :
                /\ IF Shown(wm) \cap under = {} THEN w = NoWindow ELSE surf_at(wm, under, w)
                /\ press_track(l, r, under, w, part, underAfter)

Call == \E c \in Canvas : ax_syscall_surface(c) \/ ax_syscall_poll(c)

Next == Frame \/ Call

Spec == Init /\ [][Next]_vars

-----------------------------------------------------------------------------
(* Properties. *)

\* The types of the variables; a queue never outgrows its ring.
TypeOK ==
    /\ wm \in Surfaces
    /\ \A w \in Window : Len(wm.queue[w]) < QueueSlots
    /\ {about, ctx, widget, left, right} \subseteq BOOLEAN
    /\ menu \in Menu \cup {NoMenu}

\* Every window has a canvas of its own, and every other block is back in the
\* heap: each way to close a window frees its canvas exactly once.
CanvasesExact ==
    /\ \A w \in Window : wm.canvas[w] # NoCanvas <=> w \in wm.used
    /\ \A v, w \in wm.used : wm.canvas[v] = wm.canvas[w] => v = w
    /\ wm.free = Canvas \ {wm.canvas[w] : w \in wm.used}

\* The windows in use are stacked in one order, so surf_at() and the menu's
\* search for the highest z have one answer.
StackingTotal ==
    /\ wm.behind \subseteq wm.used \X wm.used
    /\ \A v, w \in wm.used : v # w => (<<v, w>> \in wm.behind <=> <<w, v>> \notin wm.behind)
    /\ \A u, v, w \in wm.used :
        <<u, v>> \in wm.behind /\ <<v, w>> \in wm.behind => <<u, w>> \in wm.behind

\* There is an active window exactly when one is on the screen.  It is in use,
\* the only one that believes it has the focus, and in front of all others.
FocusExact ==
    /\ wm.active = NoWindow <=> Shown(wm) = {}
    /\ wm.active # NoWindow =>
        /\ wm.active \in wm.used
        /\ wm.focused \cap wm.used = {wm.active}
        /\ \A v \in wm.used \ {wm.active} : <<v, wm.active>> \in wm.behind

\* Closing, minimizing, opening and raising windows in any order leaves one order
\* of windows, with the active one in front.
FrontExact == TypeOK /\ StackingTotal /\ FocusExact

\* At most one thing follows the mouse, and with the button up none does,
\* except behind an open context menu, which swallows the release.
Following == wm.used \cap (wm.dragging \cup wm.resizing)
GesturesEnd ==
    /\ Cardinality(Following) <= IF widget THEN 0 ELSE 1
    /\ widget \/ Following # {} => left \/ ctx

\* The surface table implements the abstract window server.
Inbox == [c \in {wm.canvas[w] : w \in wm.used} |->
            wm.queue[CHOOSE w \in wm.used : wm.canvas[w] = c]]
Abstract == INSTANCE WindowServer WITH inbox <- Inbox
Refinement == Abstract!Spec

=============================================================================
