-------------------------------- MODULE Layout --------------------------------
(***************************************************************************)
(* What of the desktop is drawn where, and what a click there does:        *)
(* src/kernel/axshell.c computes the two apart, once in a draw_ routine    *)
(* and once in a _click routine.  With them the calendar and the pictures  *)
(* of the wallpaper.  Numbers of items and rows count from 0, as in the    *)
(* code; nothing hit is None.  Everything is drawn with the routines of    *)
(* Gfx, which are here by the boxes they fill.                             *)
(***************************************************************************)
EXTENDS Integers, FiniteSetsExt, Gfx

CONSTANTS
    scr_w, scr_h,     \* the size of the screen
    ProbeXs, ProbeYs, \* bound of the model: where clicks are tried, see Points
    BmpData,          \* the size of databuf: 65536
    BmpSides          \* bound of the model: widths and heights of pictures

\* The widest menu and the context menu have room on the screen.
ASSUME LayoutAssumption ==
    /\ scr_w \in Nat /\ scr_w >= 386 /\ scr_h \in Nat /\ scr_h >= 166
    /\ ProbeXs \subseteq Int /\ ProbeYs \subseteq Int
    /\ BmpData \in Nat /\ BmpSides \subseteq Int

None == -1

\* All of some columns and of some rows of the screen.
Points == (ProbeXs \X (0 .. scr_h - 1)) \cup ((0 .. scr_w - 1) \X ProbeYs)

InBoxAt(p, box) ==
    /\ p[1] \in box.x .. box.x + box.w - 1
    /\ p[2] \in box.y .. box.y + box.h - 1

Box(x, y, w, h) == [x |-> x, y |-> y, w |-> w, h |-> h]

BoxInside(a, b) ==
    /\ b.x <= a.x /\ a.x + a.w <= b.x + b.w
    /\ b.y <= a.y /\ a.y + a.h <= b.y + b.h

\* The item of 0 .. n - 1 that the test is true of first.
FirstItem(n, test(_)) ==
    LET hit == {i \in 0 .. n - 1 : test(i)} IN IF hit = {} THEN None ELSE Min(hit)

\* C divides towards zero.
CDiv(a, b) == IF a < 0 THEN -((-a) \div b) ELSE a \div b

-----------------------------------------------------------------------------
(* The dock: DOCK_COUNT places for the five items of dock_items. *)

DOCK_COUNT == 6
DOCK_ICON == 40
AX_DOCK_H == 56
DockItems == 5

dock_total == DOCK_COUNT * (DOCK_ICON + 14) + 14
dock_x0 == scr_w \div 2 - dock_total \div 2
dock_y0 == scr_h - AX_DOCK_H - 4

IconX(i) == dock_x0 + 14 + i * (DOCK_ICON + 14)

\* Where draw_dock() takes the mouse to be over an icon, and the box it then
\* fills with the larger icon.
IconHovered(p, i) == InBoxAt(p, Box(IconX(i), dock_y0 + 8, DOCK_ICON, DOCK_ICON))
IconDrawn(i) == Box(IconX(i) - 2, dock_y0 + 4, DOCK_ICON + 4, DOCK_ICON + 4)

DockPicked(p) ==
    IF p[2] < dock_y0 + 4 \/ p[2] > dock_y0 + AX_DOCK_H THEN None
    ELSE FirstItem(DOCK_COUNT, LAMBDA i :
           /\ p[1] >= IconX(i) - 2 /\ p[1] < IconX(i) + DOCK_ICON + 4
           /\ p[2] >= dock_y0 + 4 /\ p[2] < dock_y0 + 8 + DOCK_ICON + 4)

-----------------------------------------------------------------------------
(* The menus of the menu bar and the context menu. *)

AX_MENUBAR_H == 24
MenuXs == <<12, 130, 180, 230>>
MenuItems == <<6, 3, 4, 5>>

MenuBox(m) == Box(MenuXs[m] - 4, AX_MENUBAR_H, 160, MenuItems[m] * 22 + 8)

CTX_COUNT == 6
CTX_W == 160
CTX_ITEM_H == 26

\* The context menu opened at c moves back onto the screen.
ContextBox(c) ==
    LET h == CTX_COUNT * CTX_ITEM_H + 8
    IN  Box(IF c[1] + CTX_W > scr_w THEN scr_w - CTX_W - 2 ELSE c[1],
            IF c[2] + h > scr_h THEN scr_h - h - 2 ELSE c[2], CTX_W, h)

RowLit(p, box, rowH, j) == InBoxAt(p, Box(box.x, box.y + 4 + j * rowH, box.w, rowH))
RowsLit(p, box, rows, rowH) == {j \in 0 .. rows - 1 : RowLit(p, box, rowH, j)}

\* Faulty variant: the space above the first row is forgotten.
RowPicked_NoGap(p, box, rowH) == IF ~InBoxAt(p, box) THEN None ELSE CDiv(p[2] - box.y, rowH)

\* menu_click() and context_menu_click(); what is no item does nothing.
RowPicked(p, box, rowH) == IF ~InBoxAt(p, box) THEN None ELSE CDiv(p[2] - box.y - 4, rowH)

-----------------------------------------------------------------------------
(* A window: its frame at x, y, the inner size w, h. *)

AX_TITLEBAR_H == 28
AX_RESIZE_GRIP == 14

\* The circles of draw_titlebar() and the columns process_input() takes for them.
ButtonCentres == [close |-> 16, minimize |-> 36, green |-> 56]
ButtonColumns == [close |-> 10 .. 22, minimize |-> 30 .. 42, green |-> 50 .. 62]

ButtonCells(b) ==
    {<<ButtonCentres[b] + d[1], AX_TITLEBAR_H \div 2 + d[2]>> :
        d \in {e \in (-6 .. 6) \X (-6 .. 6) : e[1] * e[1] + e[2] * e[2] <= 36}}

in_resize_grip(w, p) ==
    InBoxAt(p, Box(w.x + w.w - AX_RESIZE_GRIP, w.y + AX_TITLEBAR_H + w.h - AX_RESIZE_GRIP,
                 AX_RESIZE_GRIP, AX_RESIZE_GRIP))

\* The ends of the two lines draw_surface() marks the grip with.
GripEnds(w) ==
    LET right == w.x + w.w
        bottom == w.y + AX_TITLEBAR_H + w.h
    IN  {<<right - 14, bottom - 2>>, <<right - 2, bottom - 14>>,
         <<right - 9, bottom - 2>>, <<right - 2, bottom - 9>>}

\* draw_titlebar() centres the title, eight columns a letter, on one line of the
\* bar, whether or not it fits there.
TitleBox(w) == Box(w.x + w.w \div 2 - 4 * w.letters, w.y + 10, 8 * w.letters, 8)

\* Shadow, canvas, title bar and title.  A canvas of the size of the window is
\* copied as it is, two cells to the right and down, any other is made to fit.
draw_surface(w) ==
    [frame |-> {Box(w.x + 4, w.y + AX_TITLEBAR_H + 4, w.w, w.h),
                IF w.canvas_w = w.w /\ w.canvas_h = w.h
                THEN Box(w.x + 2, w.y + AX_TITLEBAR_H + 2, w.w, w.h)
                ELSE Box(w.x + 2, w.y + AX_TITLEBAR_H + 2, w.w - 4, w.h - 4),
                Box(w.x, w.y, w.w, AX_TITLEBAR_H)},
     title |-> TitleBox(w)]

\* What surf_at() takes for the window.
WindowBox(w) == Box(w.x, w.y, w.w, w.h + AX_TITLEBAR_H)

-----------------------------------------------------------------------------
(* The pointer. *)

Clamp(n, limit) == IF n < 0 THEN 0 ELSE IF n >= limit THEN limit - 1 ELSE n

update_mouse(m) == <<Clamp(m[1], scr_w), Clamp(m[2], scr_h)>>

CursorBox(p) ==
    Box(IF p[1] + 16 > scr_w THEN scr_w - 16 ELSE p[1],
        IF p[2] + 16 > scr_h THEN scr_h - 16 ELSE p[2], 16, 16)

-----------------------------------------------------------------------------
(* The calendar. *)

Leap(y) == (y % 4 = 0 /\ y % 100 # 0) \/ y % 400 = 0

days_in_month(m, y) ==
    IF m = 2 /\ Leap(y) THEN 29
    ELSE IF m \in 1 .. 12 THEN <<31, 28, 31, 30, 31, 30, 31, 31, 30, 31, 30, 31>>[m]
    ELSE 30

day_of_week(d, m, y) ==
    LET t == <<0, 3, 2, 5, 0, 3, 5, 1, 4, 6, 2, 4>>
        from == IF m < 3 THEN y - 1 ELSE y
    IN  (from + from \div 4 - from \div 100 + from \div 400 + t[m] + d) % 7

\* Where the calendar writes a day, from its corner.
DayBox(d, first) ==
    LET cell == first + d - 1
    IN  Box(10 + (cell % 7) * 22, 42 + (cell \div 7) * 16, IF d < 10 THEN 8 ELSE 16, 8)

-----------------------------------------------------------------------------
(* Pictures. *)

RowBytes(w, bytes) == ((w * bytes + 3) \div 4) * 4

\* load_bmp_from_fs(), within its limit of 640 by 480: where in the data of the file the pixel at x, y comes from.
PixelFrom(x, y, w, h, bytes) == (h - 1 - y) * RowBytes(w, bytes) + x * bytes

\* What a pixel is made of: bytes of the file, zeros where the file or what is
\* read of it ends, or whatever lies behind databuf.
PixelRead(at, file) ==
    IF at + 2 >= BmpData THEN "behind" ELSE IF at + 2 >= file THEN "zero" ELSE "file"

load_bmp(w, h, bytes, file) ==
    IF w <= 0 \/ h <= 0 \/ bytes \notin {3, 4} THEN [ok |-> FALSE]
    ELSE [ok |-> TRUE,
          pixels |-> [c \in (0 .. w - 1) \X (0 .. h - 1) |->
                        LET at == PixelFrom(c[1], c[2], w, h, bytes)
                        IN  [at |-> at, read |-> PixelRead(at, file)]]]

-----------------------------------------------------------------------------
(* The calls. *)

DockClick ==
    \E p \in Points :
      Invoked([fn |-> "dock", p |-> p],
              [lit |-> {i \in 0 .. DOCK_COUNT - 1 : IconHovered(p, i)}, picked |-> DockPicked(p)])

MenuClick ==
    \E m \in DOMAIN MenuXs, p \in Points :
      Invoked([fn |-> "menu", p |-> p, box |-> MenuBox(m), rows |-> MenuItems[m], rowH |-> 22],
              [lit |-> RowsLit(p, MenuBox(m), MenuItems[m], 22),
               picked |-> RowPicked(p, MenuBox(m), 22)])

ContextClick ==
    \E c \in {<<0, 0>>, <<scr_w \div 2, scr_h \div 2>>, <<scr_w - 1, scr_h - 1>>}, p \in Points :
      LET box == ContextBox(c)
      IN  Invoked([fn |-> "menu", p |-> p, box |-> box, rows |-> CTX_COUNT, rowH |-> CTX_ITEM_H],
                  [lit |-> RowsLit(p, box, CTX_COUNT, CTX_ITEM_H),
                   picked |-> RowPicked(p, box, CTX_ITEM_H)])

DrawWindow ==
    \E w \in {160, 161, 400}, h \in {100, 101}, letters \in {1, 20, 47}, fits \in BOOLEAN :
      LET win == [x |-> 7, y |-> 30, w |-> w, h |-> h, letters |-> letters,
                  canvas_w |-> IF fits THEN w ELSE 160, canvas_h |-> h]
      IN  Invoked([fn |-> "window", win |-> win], draw_surface(win))

MovePointer ==
    \E x \in {-3, 0, scr_w - 16, scr_w - 1, scr_w + 9}, y \in {-3, 5, scr_h - 15, scr_h} :
      Invoked([fn |-> "pointer"], [at |-> update_mouse(<<x, y>>),
                                   box |-> CursorBox(update_mouse(<<x, y>>))])

DrawMonth ==
    \E m \in 1 .. 12, y \in 2000 .. 2099 :
      Invoked([fn |-> "month", m |-> m, y |-> y],
              [first |-> day_of_week(1, m, y), days |-> days_in_month(m, y)])

LoadPicture ==
    \E w, h \in BmpSides, bytes \in {1, 3, 4}, file \in {0, BmpData \div 2, 2 * BmpData} :
      Invoked([fn |-> "bmp", w |-> w, h |-> h, bytes |-> bytes, file |-> file],
              load_bmp(w, h, bytes, file))

LayoutNext ==
    \/ DockClick \/ MenuClick \/ ContextClick \/ DrawWindow
    \/ MovePointer \/ DrawMonth \/ LoadPicture

-----------------------------------------------------------------------------
(* Properties. *)

Screen == Box(0, 0, scr_w, scr_h)

\* The icon that grows under the mouse is the one a click launches, and a click
\* launches nothing from outside the dock.  The sixth place has no item.
DockTrue ==
    Called("dock") =>
        /\ answer.lit \subseteq {answer.picked}
        /\ answer.picked # None =>
             /\ InBoxAt(call.p, Box(dock_x0, dock_y0, dock_total, AX_DOCK_H))
             /\ \A i \in (0 .. DOCK_COUNT - 1) \ {answer.picked} : ~InBoxAt(call.p, IconDrawn(i))

\* The row that is lit is the one a click picks; a click that picks a row that is
\* not lit is in the four cells above the first row.
MenusTrue ==
    Called("menu") =>
        /\ BoxInside(call.box, Screen)
        /\ answer.lit \subseteq {answer.picked}
        /\ answer.picked \in 0 .. call.rows - 1 /\ answer.lit = {} =>
             answer.picked = 0 /\ call.p[2] < call.box.y + 4

\* A window is drawn over what surf_at() takes for it and at most four cells
\* beyond, its title, when that is not wider, in the bar; a click on a button or
\* on the marks of the grip is taken for one.
WindowsTrue ==
    Called("window") =>
        LET box == WindowBox(call.win)
            bar == Box(box.x, box.y, box.w, AX_TITLEBAR_H)
        IN  /\ \A b \in answer.frame : BoxInside(b, Box(box.x, box.y, box.w + 4, box.h + 4))
            /\ 8 * call.win.letters <= call.win.w => BoxInside(answer.title, bar)
            /\ \A e \in GripEnds(call.win) : in_resize_grip(call.win, e)
            /\ \A b, k \in DOMAIN ButtonCentres : \A c \in ButtonCells(b) :
                 c[1] \in ButtonColumns[k] <=> k = b

PointerTrue ==
    Called("pointer") =>
        /\ BoxInside(answer.box, Screen)
        /\ InBoxAt(answer.at, answer.box)

\* Each month begins on the day after the last of the month before, the first
\* of 2000 was a Saturday, and all days of a month fit into the widget.
CalendarTrue ==
    Called("month") =>
        LET m == call.m
            y == call.y
        IN  /\ IF m = 1 /\ y = 2000 THEN answer.first = 6
               ELSE LET pm == IF m = 1 THEN 12 ELSE m - 1
                        py == IF m = 1 THEN y - 1 ELSE y
                    IN  answer.first = (day_of_week(1, pm, py) + days_in_month(pm, py)) % 7
            /\ \A d \in 1 .. answer.days : BoxInside(DayBox(d, answer.first), Box(0, 0, 168, 150))

\* A picture stands upright, each pixel comes from a place of its own, and what
\* lies behind the buffer is read only for pictures larger than the buffer.
PicturesTrue ==
    Called("bmp") /\ answer.ok =>
        LET p == answer.pixels
        IN  /\ \A c, d \in DOMAIN p : c[2] < d[2] => p[c].at > p[d].at
            /\ \A c, d \in DOMAIN p : c[2] = d[2] /\ c[1] < d[1] => p[d].at - p[c].at >= call.bytes
            /\ \A c \in DOMAIN p : p[c].read = "behind" => call.h * RowBytes(call.w, call.bytes) > BmpData

\* What is drawn and what a click does agree everywhere on the desktop.
DesktopTrue ==
    DockTrue /\ MenusTrue /\ WindowsTrue /\ PointerTrue /\ CalendarTrue /\ PicturesTrue

PicturesNext == GfxNext \/ LayoutNext

PicturesSpec == InvocationInit /\ [][PicturesNext]_invocationVars

\* What is drawn is what was asked for, in colours between those asked for, and
\* a click finds what is drawn below it.
PicturesExact == DrawingExact /\ ColoursBetween /\ DesktopTrue

=============================================================================
