------------------------------- MODULE Wallpaper ------------------------------
(***************************************************************************)
(* The menus and the wallpaper of the desktop, src/kernel/axshell.c: which *)
(* menu is open, what its rows change, and what draw_wallpaper() shows.    *)
(* A frame takes at most one click, draws, and then lets wallpaper_tick()  *)
(* go on.  Where a click goes is in Layout, what becomes of the windows in *)
(* Windows.                                                                *)
(***************************************************************************)
EXTENDS Integers, FiniteSets

CONSTANTS
    MAX_PHOTOS,          \* 8
    SLIDESHOW_INTERVAL,  \* 600
    WALLPAPER_COUNT,     \* 5
    FadeStep,            \* 16, of 256
    MaxClicks            \* bound of the model: the clicks there are

ASSUME WallpaperAssumption ==
    /\ MAX_PHOTOS \in Nat /\ SLIDESHOW_INTERVAL \in Nat /\ WALLPAPER_COUNT \in Nat \ {0}
    /\ FadeStep \in 1 .. 256 /\ MaxClicks \in Nat

VARIABLES
    menus_open,     \* the menus whose open flag is set
    open_menu, ctx_menu_open,
    photos,         \* the pictures that were loaded, photo_count of them
    wall,           \* mode, index, photo, fade, fading, counter
    shown,          \* what draw_wallpaper() has drawn
    clicks          \* how many clicks there were

wallpaperVars == <<menus_open, open_menu, ctx_menu_open, photos, wall, shown, clicks>>

NoMenu == -1
Menus == 0 .. 3
photo_count == Cardinality(photos)

\* scan_photos(): any of the files may be missing or not be a picture, and those
\* that load close ranks.
WallpaperInit ==
    /\ menus_open = {} /\ open_menu = NoMenu /\ ctx_menu_open = FALSE
    /\ \E n \in 0 .. MAX_PHOTOS : photos = 0 .. n - 1
    /\ wall = [mode |-> "gradient", index |-> 0, photo |-> 0,
               fade |-> 256, fading |-> FALSE, counter |-> 0]
    /\ shown = [what |-> "nothing"] /\ clicks = 0

-----------------------------------------------------------------------------
(* What the rows of the menus do to the wallpaper. *)

Moded(w, mode, needed) == IF photo_count >= needed THEN [w EXCEPT !.mode = mode] ELSE w

ax_set_wallpaper(w, index) ==
    IF index = w.index THEN w
    ELSE [w EXCEPT !.index = index, !.fade = 0, !.fading = TRUE]

\* Faulty variant: the next picture is looked for among the places of photos.
NextPhoto_OfAll(n) == (n + 1) % MAX_PHOTOS

NextPhoto(n) == (n + 1) % (IF photo_count > 0 THEN photo_count ELSE 1)

next_wallpaper(w) ==
    LET next == ax_set_wallpaper(w, (w.index + 1) % WALLPAPER_COUNT)
    IN  IF w.mode = "gradient" THEN next ELSE [next EXCEPT !.photo = NextPhoto(@)]

\* The rows of the View menu and of the context menu; the others do not touch
\* the wallpaper.
ViewRows(w) == {w, [w EXCEPT !.mode = "gradient"], Moded(w, "photo", 1), Moded(w, "slideshow", 2)}
ContextRows(w) == {w, next_wallpaper(w), Moded(w, "photo", 1), Moded(w, "slideshow", 2)}

-----------------------------------------------------------------------------
(* compose(): the wallpaper is drawn and then advanced. *)

draw_wallpaper(w) ==
    IF w.mode = "gradient" \/ photo_count = 0 \/ w.photo \notin photos
    THEN [what |-> "gradient", index |-> w.index]
    ELSE [what |-> "photo", photo |-> w.photo, dark |-> w.fading /\ w.fade < 256]

Faded(w) ==
    IF ~w.fading THEN w
    ELSE IF w.fade + FadeStep >= 256 THEN [w EXCEPT !.fade = 256, !.fading = FALSE]
    ELSE [w EXCEPT !.fade = @ + FadeStep]

\* Faulty variant: every frame begins a new picture's fade.
Turned_Always(w) ==
    IF w.mode = "slideshow" /\ photo_count > 1
    THEN [w EXCEPT !.counter = 0, !.photo = NextPhoto(@), !.fade = 0, !.fading = TRUE]
    ELSE w

Turned(w) ==
    IF ~(w.mode = "slideshow" /\ photo_count > 1) THEN w
    ELSE IF w.counter + 1 < SLIDESHOW_INTERVAL THEN [w EXCEPT !.counter = @ + 1]
    ELSE [w EXCEPT !.counter = 0, !.photo = NextPhoto(@), !.fade = 0, !.fading = TRUE]

wallpaper_tick(w) == Turned(Faded(w))

Composed(w) == shown' = draw_wallpaper(w) /\ wall' = wallpaper_tick(w) /\ UNCHANGED photos

-----------------------------------------------------------------------------
(* process_input(). *)

NoClick == Composed(wall) /\ UNCHANGED <<menus_open, open_menu, ctx_menu_open, clicks>>

Clicked == clicks < MaxClicks /\ clicks' = clicks + 1

RightClick ==
    /\ Clicked /\ Composed(wall)
    /\ ctx_menu_open' = TRUE /\ menus_open' = {} /\ open_menu' = NoMenu

\* Of the context menu any row is picked or none; either closes it.
context_menu_click ==
    /\ ctx_menu_open /\ Clicked
    /\ \E w \in ContextRows(wall) : Composed(w)
    /\ ctx_menu_open' = FALSE /\ UNCHANGED <<menus_open, open_menu>>

\* The logo closes every menu first.
logo_click ==
    /\ ~ctx_menu_open /\ Clicked /\ Composed(wall)
    /\ menus_open' = IF 0 \in menus_open THEN {} ELSE {0}
    /\ open_menu' = IF 0 \in menus_open THEN NoMenu ELSE 0
    /\ UNCHANGED ctx_menu_open

\* The loop over the menus closes those up to the one that is hit, and all others
\* only where that one opens.
title_click(i) ==
    /\ ~ctx_menu_open /\ Clicked /\ Composed(wall)
    /\ menus_open' = IF i \in menus_open THEN {j \in menus_open : j > i} ELSE {i}
    /\ open_menu' = IF i \in menus_open THEN NoMenu ELSE i
    /\ UNCHANGED ctx_menu_open

bar_click ==
    /\ ~ctx_menu_open /\ Clicked /\ Composed(wall)
    /\ menus_open' = {} /\ open_menu' = NoMenu /\ UNCHANGED ctx_menu_open

\* A click below the bar with a menu open: on a row of it or outside.
menu_click ==
    /\ ~ctx_menu_open /\ open_menu # NoMenu /\ Clicked
    /\ \E w \in (IF open_menu = 3 THEN ViewRows(wall) ELSE {wall}) : Composed(w)
    /\ menus_open' = menus_open \ {open_menu} /\ open_menu' = NoMenu
    /\ UNCHANGED ctx_menu_open

WallpaperFrame ==
    \/ NoClick \/ RightClick \/ context_menu_click \/ menu_click
    \/ logo_click \/ bar_click \/ \E i \in Menus : title_click(i)

WallpaperSpec == WallpaperInit /\ [][WallpaperFrame]_wallpaperVars /\ WF_wallpaperVars(WallpaperFrame)

-----------------------------------------------------------------------------
(* Properties. *)

\* The menu that is drawn open is the one that takes the next click, and a mode
\* that shows pictures shows one that was loaded, never the gradient instead.
MenusAndPhotos ==
    /\ menus_open = (IF open_menu = NoMenu THEN {} ELSE {open_menu})
    /\ ~(ctx_menu_open /\ open_menu # NoMenu)
    /\ wall.mode # "gradient" => draw_wallpaper(wall).what = "photo"

\* When there are no more clicks every picture comes out of the dark again, however
\* often the pictures change by themselves.
FadeEnds == []<>(wall.fade = 256)

=============================================================================
