-------------------------------- MODULE Cursor --------------------------------
(***************************************************************************)
(* The mouse pointer on the desktop, draw_cursor() of                      *)
(* src/kernel/axshell.c: it keeps what was below it and puts that back     *)
(* when it is drawn again, although compose() has drawn the whole desktop  *)
(* anew before.  A screen of one row stands for all; shades stand for what *)
(* the desktop shows at a cell.                                            *)
(***************************************************************************)
EXTENDS Integers

CONSTANTS
    Cells,        \* the width of the screen
    CursorSide,   \* the side of the pointer's box: 16
    ArrowSide     \* how much of the box the arrow covers: 11

ASSUME CursorAssumption ==
    /\ Cells \in Nat /\ CursorSide \in 1 .. Cells /\ ArrowSide \in 1 .. CursorSide

VARIABLES
    scene,        \* what the desktop looks like without a pointer
    buffer,       \* the back buffer
    cursor_bg, cursor_old_x,
    before,       \* where the pointer was in the frame before
    placed        \* where it is

cursorVars == <<scene, buffer, cursor_bg, cursor_old_x, before, placed>>

Screen == 0 .. Cells - 1
Shades == 0 .. 1
Scenes == [Screen -> Shades]
Arrow == 2
Nowhere == -1

BoxAt(x) == IF x = Nowhere THEN {} ELSE x .. x + CursorSide - 1

CursorInit ==
    /\ scene \in Scenes /\ buffer = [c \in Screen |-> 0]
    /\ cursor_bg = [i \in 0 .. CursorSide - 1 |-> 0] /\ cursor_old_x = Nowhere
    /\ before = Nowhere /\ placed = Nowhere

Restored(b) == [c \in Screen |-> IF c \in BoxAt(cursor_old_x) THEN cursor_bg[c - cursor_old_x] ELSE b[c]]

Pointed(b, x) == [c \in Screen |-> IF c \in x .. x + ArrowSide - 1 THEN Arrow ELSE b[c]]

PlacedAt(x) == IF x + CursorSide > Cells THEN Cells - CursorSide ELSE x

\* Faulty variant: the place is remembered only the first time.
OldX_First(x) == IF cursor_old_x = Nowhere THEN PlacedAt(x) ELSE cursor_old_x

OldX(x) == PlacedAt(x)

\* compose() with the mouse at x, where hasWindows says whether a window is shown.
compose(x, hasWindows, drawn) ==
    LET put_back == IF hasWindows THEN Restored(drawn) ELSE drawn
        at == PlacedAt(x)
    IN  /\ scene' = drawn
        /\ cursor_bg' = [i \in 0 .. CursorSide - 1 |-> put_back[at + i]]
        /\ buffer' = Pointed(put_back, at)
        /\ cursor_old_x' = OldX(x)
        /\ before' = (IF hasWindows THEN placed ELSE Nowhere) /\ placed' = at

\* ax_syscall_commit() of another task, between two frames: a window is drawn
\* with a new shade, over the pointer too.
commit(cells, shade) ==
    /\ scene' = [c \in Screen |-> IF c \in cells THEN shade ELSE scene[c]]
    /\ buffer' = [c \in Screen |-> IF c \in cells THEN shade ELSE buffer[c]]
    /\ UNCHANGED <<cursor_bg, cursor_old_x, before, placed>>

CursorNext ==
    \/ \E x \in Screen, hasWindows \in BOOLEAN, drawn \in Scenes : compose(x, hasWindows, drawn)
    \/ placed # Nowhere /\ \E from \in Screen, shade \in Shades : commit(from .. Cells - 1, shade)

CursorSpec == CursorInit /\ [][CursorNext]_cursorVars

-----------------------------------------------------------------------------
(* Properties. *)

\* What the screen shows beside the desktop is the arrow, below it, and what was
\* there before: in the box the pointer was in when it was last drawn, and in the
\* one it is in, when the two overlap.  Where no window is shown nothing is old.
StaleAtPointer ==
    placed # Nowhere =>
        \A c \in Screen : buffer[c] # scene[c] =>
            \/ buffer[c] = Arrow /\ c \in placed .. placed + ArrowSide - 1
            \/ c \in BoxAt(before)

=============================================================================
