-------------------------------- MODULE Console -------------------------------
(***************************************************************************)
(* The text screen, src/drivers/monitor.c.  The kernel writes character by *)
(* character, and the keyboard handler echoes keys with the same routine,  *)
(* at any point of a call of the kernel.                                   *)
(*                                                                         *)
(* paper is what the text would look like on a sheet without end: the rows *)
(* below which nothing is scrolled away.                                   *)
(***************************************************************************)
EXTENDS Integers, SequencesExt

CONSTANTS
    Columns, Rows,    \* 80 and 25
    TabStop,          \* 8
    Marks,            \* bound of the model: the printable characters
    MaxPuts           \* bound of the model: the characters written

ASSUME ConsoleAssumption ==
    /\ Columns \in Nat \ {0} /\ Rows \in Nat \ {0} /\ TabStop \in Nat \ {0}
    /\ Columns % TabStop = 0
    /\ Marks \cap {" ", "\n", "\r", "\t", "backspace", "other"} = {}
    /\ MaxPuts \in Nat

VARIABLES
    screen,           \* the video memory, row by row, numbered from 1
    cursor_x, cursor_y,
    put_at,           \* where the call of the kernel stands
    stray,            \* a character was written behind the video memory
    echoed,          \* a key was echoed in the middle of a call
    puts_left,        \* what is left of MaxPuts
    paper, sheet_x, sheet_y

consoleVars ==
    <<screen, cursor_x, cursor_y, put_at, stray, echoed, puts_left, paper, sheet_x, sheet_y>>

Blank == " "
BlankRow == [c \in 1 .. Columns |-> Blank]
Inputs == Marks \cup {"\n", "\r", "\t", "backspace", "other"}

ConsoleInit ==
    /\ screen = [r \in 1 .. Rows |-> BlankRow]
    /\ cursor_x = 0 /\ cursor_y = 0
    /\ put_at = "idle" /\ stray = FALSE /\ echoed = FALSE /\ puts_left = MaxPuts
    /\ paper = [r \in 1 .. MaxPuts + 1 |-> BlankRow] /\ sheet_x = 0 /\ sheet_y = 0

-----------------------------------------------------------------------------
(* One character, on a console of memory m with the cursor at x, y. *)

NextTab(x) == ((x + TabStop) \div TabStop) * TabStop

\* The first part of monitor_put(): the cursor may come to stand behind the end
\* of its row, and a character written from there is the first of the next row.
Written(con, c) ==
    LET row == con.y + (con.x \div Columns) + 1
        col == (con.x % Columns) + 1
        past == [con EXCEPT !.x = @ + 1]
    IN  CASE c \in Marks -> IF row > Rows THEN [past EXCEPT !.stray = TRUE]
                            ELSE [past EXCEPT !.m[row][col] = c]
          [] c = "backspace" /\ con.x > 0 -> [con EXCEPT !.x = @ - 1]
          [] c = "\t" -> [con EXCEPT !.x = NextTab(@)]
          [] c = "\r" -> [con EXCEPT !.x = 0]
          [] c = "\n" -> [con EXCEPT !.x = 0, !.y = @ + 1]
          [] OTHER -> con

\* Faulty variant: wraps one character late.
Wrapped_Late(con) == IF con.x > Columns THEN [con EXCEPT !.x = 0, !.y = @ + 1] ELSE con

Wrapped(con) == IF con.x >= Columns THEN [con EXCEPT !.x = 0, !.y = @ + 1] ELSE con

\* Faulty variant: the row that becomes free keeps what it held.
Scrolled_Stale(con) ==
    IF con.y >= Rows
    THEN [con EXCEPT !.y = Rows - 1, !.m = Append(Tail(@), Last(@))] ELSE con

Scrolled(con) ==
    IF con.y >= Rows
    THEN [con EXCEPT !.y = Rows - 1, !.m = Append(Tail(@), BlankRow)] ELSE con

Console == [m |-> screen, x |-> cursor_x, y |-> cursor_y, stray |-> stray]

Becomes(con) == screen' = con.m /\ cursor_x' = con.x /\ cursor_y' = con.y /\ stray' = con.stray

-----------------------------------------------------------------------------
(* The same character on the sheet. *)

note(c) ==
    LET x == CASE c \in Marks -> sheet_x + 1
               [] c = "backspace" /\ sheet_x > 0 -> sheet_x - 1
               [] c = "\t" -> NextTab(sheet_x)
               [] c \in {"\r", "\n"} -> 0
               [] OTHER -> sheet_x
    IN  /\ sheet_x' = IF x >= Columns THEN 0 ELSE x
        /\ sheet_y' = IF c = "\n" \/ x >= Columns THEN sheet_y + 1 ELSE sheet_y
        /\ paper' = IF c \in Marks THEN [paper EXCEPT ![sheet_y + 1][sheet_x + 1] = c] ELSE paper

-----------------------------------------------------------------------------
(* The calls. *)

spend == puts_left > 0 /\ puts_left' = puts_left - 1

put_writes(c) ==
    /\ put_at = "idle" /\ spend
    /\ Becomes(Written(Console, c)) /\ note(c)
    /\ put_at' = "wrap"
    /\ UNCHANGED echoed

put_wraps ==
    /\ put_at = "wrap" /\ Becomes(Wrapped(Console)) /\ put_at' = "scroll"
    /\ UNCHANGED <<echoed, puts_left, paper, sheet_x, sheet_y>>

put_scrolls ==
    /\ put_at = "scroll" /\ Becomes(Scrolled(Console)) /\ put_at' = "idle"
    /\ UNCHANGED <<echoed, puts_left, paper, sheet_x, sheet_y>>

\* The handler of the keyboard: a whole monitor_put().
echo(c) ==
    /\ spend
    /\ Becomes(Scrolled(Wrapped(Written(Console, c)))) /\ note(c)
    /\ echoed' = (echoed \/ put_at # "idle")
    /\ UNCHANGED put_at

monitor_clear ==
    /\ put_at = "idle" /\ spend
    /\ Becomes([m |-> [r \in 1 .. Rows |-> BlankRow], x |-> 0, y |-> 0, stray |-> stray])
    /\ paper' = [r \in DOMAIN paper |-> BlankRow] /\ sheet_x' = 0 /\ sheet_y' = 0
    /\ UNCHANGED <<put_at, echoed>>

ConsoleNext ==
    \/ \E c \in Inputs : put_writes(c)
    \/ \E c \in Marks \cup {"backspace"} : echo(c)
    \/ put_wraps \/ put_scrolls \/ monitor_clear

-----------------------------------------------------------------------------
(* Properties. *)

\* The screen shows the last rows of the sheet, with the cursor at the same
\* place of the text, as long as no echo came in the middle of a call.
ScreenIsTail ==
    put_at = "idle" /\ ~echoed =>
      /\ cursor_x = sheet_x /\ cursor_y <= sheet_y
      /\ \A r \in 1 .. Rows : r + sheet_y - cursor_y \in DOMAIN paper =>
           screen[r] = paper[r + sheet_y - cursor_y]

\* An echo in the middle of a call may spoil the text and even write behind the
\* video memory, but never leaves the cursor outside the screen, and without one
\* nothing is written there.
CursorInside ==
    /\ put_at = "idle" => cursor_x \in 0 .. Columns - 1 /\ cursor_y \in 0 .. Rows - 1
    /\ stray => echoed

\* The console shows what was put, as far as echoes let it.
ConsoleTrue == ScreenIsTail /\ CursorInside

=============================================================================
