----------------------------- MODULE Applications -----------------------------
(***************************************************************************)
(* What the programs of src/apps make of the events they are given: the    *)
(* calculator, the notes, the shell xsh and the file window.  How they     *)
(* come to run and to end is in Desktop.  Keys are those of AX_EV_KEY,     *)
(* which the window server of this build never pushes: what is said about  *)
(* keys holds of the programs, whoever sends them.                         *)
(***************************************************************************)
EXTENDS Printing, Layout

CONSTANTS
    Typings,       \* bound of the model: what is typed into notes and xsh
    KeyLists,      \* bound of the model: the keys pressed on the calculator
    NotesSize,     \* sizeof(buffer) of notes
    NotesColumns,  \* how many characters fit a line of notes
    LINE_LEN,      \* those of xsh
    MAX_LINES,
    MAX_ARGS,      \* the 8 of parse_args()
    RowsShown      \* how many lines fit above the bottom of xsh's window

ASSUME ApplicationsAssumption ==
    /\ NotesSize \in Nat \ {0} /\ NotesColumns \in Nat \ {0} /\ MAX_ARGS \in Nat \ {0}
    /\ LINE_LEN \in Nat /\ LINE_LEN > 3 /\ RowsShown < MAX_LINES

-----------------------------------------------------------------------------
(* The calculator. *)

DigitKeys == {"0", "1", "2", "3", "4", "5", "6", "7", "8", "9"}
OperatorKeys == {"+", "-", "*", "/"}

KeyRows == <<<<"7", "8", "9", "/">>, <<"4", "5", "6", "*">>,
             <<"1", "2", "3", "-">>, <<"0", "C", "=", "+">>>>

\* Where a key is drawn and where it is hit.
KeyBox(r, c) == Box(14 + (c - 1) * 68, 76 + (r - 1) * 38, 62, 32)

\* A long has LongWidth bits.
SignedLong(n) ==
    LET u == n % 2 ^ LongWidth IN IF u < 2 ^ (LongWidth - 1) THEN u ELSE u - 2 ^ LongWidth

putnum(n) == IF n < 0 THEN <<"-">> \o Digits(-n, 10) ELSE Digits(n, 10)

Operated(opn, acc, rx) ==
    CASE opn = "+" -> SignedLong(acc + rx)
      [] opn = "-" -> SignedLong(acc - rx)
      [] opn = "*" -> SignedLong(acc * rx)
      [] opn = "/" -> IF rx = 0 THEN 0 ELSE CDiv(acc, rx)
      [] opn = "none" -> rx

Cleared == [rx |-> 0, acc |-> 0, opn |-> "none", disp |-> putnum(0)]

\* Faulty variant: an operator forgets the one that was waiting.
press_Forgets(calc, k) ==
    IF k \in OperatorKeys THEN [rx |-> 0, acc |-> calc.rx, opn |-> k, disp |-> putnum(calc.rx)]
    ELSE calc

\* press().  The number that is typed is an int.
press(calc, k) ==
    LET value == Operated(calc.opn, calc.acc, calc.rx)
        rx == Signed(calc.rx * 10 + DigitValue(k))
    IN  CASE k \in DigitKeys -> [calc EXCEPT !.rx = rx, !.disp = putnum(rx)]
          [] k = "C" -> Cleared
          [] k = "=" -> [rx |-> 0, acc |-> value, opn |-> "none", disp |-> putnum(value)]
          [] k \in OperatorKeys -> [rx |-> 0, acc |-> value, opn |-> k, disp |-> putnum(value)]

\* A mouse event of whatever kind presses the keys it lies on.
KeysAt(p) == {KeyRows[rc[1]][rc[2]] : rc \in {rc \in (1 .. 4) \X (1 .. 4) : InBoxAt(p, KeyBox(rc[1], rc[2]))}}

-----------------------------------------------------------------------------
(* The notes: the text, and the place of each character and of the cursor. *)

NotesKey(buffer, k) ==
    IF k = "backspace" THEN (IF buffer = <<>> THEN buffer ELSE Front(buffer))
    ELSE IF Len(buffer) < NotesSize - 1 THEN Append(buffer, k) ELSE buffer

\* Faulty variant: the line wraps one character late.
NextPlace_Late(place, c) ==
    IF c = "newline" THEN [x |-> 0, y |-> place.y + 1]
    ELSE IF place.x > NotesColumns THEN [x |-> 0, y |-> place.y + 1]
    ELSE [place EXCEPT !.x = @ + 1]

\* Where the character behind c goes.
NextPlace(place, c) ==
    IF c = "newline" \/ place.x + 1 >= NotesColumns THEN [x |-> 0, y |-> place.y + 1]
    ELSE [place EXCEPT !.x = @ + 1]

NotesPlaces(buffer) ==
    FoldLeft(LAMBDA places, c : Append(places, NextPlace(Last(places), c)),
             <<[x |-> 0, y |-> 0]>>, buffer)

-----------------------------------------------------------------------------
(* The shell.  Its commands have names of one letter here, and the lines it *)
(* answers with are one mark.                                               *)

Cut(s, n) == SubSeq(s, 1, Min({n, Len(s)}))

push_line(scrollback, s) ==
    LET line == Cut(s, LINE_LEN - 1)
    IN  IF Len(scrollback) >= MAX_LINES THEN Append(Tail(scrollback), line)
        ELSE Append(scrollback, line)

\* Faulty variant: parse_args() takes up every blank as an argument of its own.
TakeIn_Blank(words, c) == IF c = " " THEN Append(words, <<>>) ELSE Append(Front(words), Append(Last(words), c))

\* One more character for parse_args(); the last word is still open.
TakeIn(words, c) ==
    IF c # " " THEN Append(Front(words), Append(Last(words), c))
    ELSE IF Last(words) = <<>> THEN words ELSE Append(words, <<>>)

parse_args(cmd) ==
    LET words == FoldLeft(TakeIn, <<<<>>>>, cmd)
        whole == IF Last(words) = <<>> THEN Front(words) ELSE words
    IN  Cut(whole, MAX_ARGS)

\* The arguments of echo, with a blank between two of them, cut to the line.
Joined(words) ==
    Cut(FlattenSeq([i \in DOMAIN words |-> IF i > 1 THEN <<" ">> \o words[i] ELSE words[i]]),
        LINE_LEN - 1)

run_cmd(scrollback, cmd) ==
    LET argv == parse_args(cmd)
    IN  CASE argv = <<>> -> scrollback
          [] argv # <<>> /\ argv[1] = <<"c">> -> <<>>
          [] argv # <<>> /\ argv[1] = <<"e">> -> push_line(scrollback, Joined(Tail(argv)))
          [] OTHER -> push_line(scrollback, <<"message">>)

\* Enter: the line after "$ ", then what the command answers.
XshKey(xsh, k) ==
    CASE k = "newline" ->
           [cmdline |-> <<>>,
            scrollback |-> run_cmd(push_line(xsh.scrollback,
                                             <<"$", " ">> \o Cut(xsh.cmdline, LINE_LEN - 3)),
                                   xsh.cmdline)]
      [] k = "backspace" -> [xsh EXCEPT !.cmdline = IF @ = <<>> THEN @ ELSE Front(@)]
      [] OTHER -> [xsh EXCEPT !.cmdline = IF Len(@) < LINE_LEN - 1 THEN Append(@, k) ELSE @]

\* render() begins with the oldest line and ends where the window does; the
\* command line is below.
XshShown(scrollback) == Cut(scrollback, RowsShown)

-----------------------------------------------------------------------------
(* The file window: eight files in rows of three. *)

NFILES == 8
FileIcon(i) == Box(150 + (i % 3) * 100 + 14, 34 + (i \div 3) * 84, 48, 40)
FileMark(i) == Box(150 + (i % 3) * 100 - 6, 34 + (i \div 3) * 84 - 6, 92, 78)

\* The last one that is hit is selected.
FileHit(p) ==
    LET hit == {i \in 0 .. NFILES - 1 : InBoxAt(p, FileMark(i))}
    IN  IF hit = {} THEN None ELSE Max(hit)

-----------------------------------------------------------------------------
(* The calls. *)

Calculator ==
    \E keys \in KeyLists : Invoked([fn |-> "calc", keys |-> keys], FoldLeft(press, Cleared, keys))

CalculatorClick ==
    \E p \in ((0 .. 299) \X {75, 76, 107, 108, 190, 221, 222})
           \cup ({13, 14, 75, 76, 217, 218} \X (0 .. 219)) :
      Invoked([fn |-> "calc_click", p |-> p], KeysAt(p))

Notes ==
    \E keys \in Typings :
      LET buffer == FoldLeft(NotesKey, <<>>, keys)
      IN  Invoked([fn |-> "notes", keys |-> keys],
                  [buffer |-> buffer, places |-> NotesPlaces(buffer)])

\* A line is typed into a shell that shows some lines already.
Xsh ==
    \E n \in 0 .. MAX_LINES, keys \in Typings :
      LET before == [i \in 1 .. n |-> <<i>>]
          after == FoldLeft(XshKey, [cmdline |-> <<>>, scrollback |-> before], keys)
      IN  Invoked([fn |-> "xsh", before |-> before, keys |-> keys],
                  [scrollback |-> after.scrollback, cmdline |-> after.cmdline,
                   shown |-> XshShown(after.scrollback)])

FilesClick ==
    \E p \in ((0 .. 459) \X {27, 28, 105, 106, 150})
           \cup ({143, 144, 150, 235, 236, 244} \X (0 .. 299)) :
      Invoked([fn |-> "files_click", p |-> p], FileHit(p))

ApplicationsNext == Calculator \/ CalculatorClick \/ Notes \/ Xsh \/ FilesClick

-----------------------------------------------------------------------------
(* Properties. *)

\* The keys that count: those behind the last "C" or "=" but for a last "=".
Counting(keys) ==
    LET last == IF keys # <<>> /\ Last(keys) = "=" THEN Len(keys) - 1 ELSE Len(keys)
        stops == {i \in 1 .. last : keys[i] \in {"C", "="}}
    IN  SubSeq(keys, (IF stops = {} THEN 0 ELSE Max(stops)) + 1, last)

\* The number that is typed between two positions; none is 0.
Typed(keys, from, to) ==
    FoldLeft(LAMBDA n, k : n * 10 + DigitValue(k), 0, SubSeq(keys, from, to))

\* The value of keys up to position i, read from the left: the operator at i - 1
\* and before, each with the number behind it.
LeftToRight(keys) ==
    LET ops == SetToSortSeq({i \in DOMAIN keys : keys[i] \in OperatorKeys}, <)
        number(j) == Typed(keys, ops[j] + 1, IF j = Len(ops) THEN Len(keys) ELSE ops[j + 1] - 1)
    IN  IF ops = <<>> THEN Typed(keys, 1, Len(keys))
        ELSE FoldLeft(LAMBDA v, j : Operated(keys[ops[j]], v, number(j)),
                      Typed(keys, 1, ops[1] - 1), [j \in DOMAIN ops |-> j])

NumbersFit(keys) ==
    \A i \in DOMAIN keys : \A j \in i .. Len(keys) :
      (\A k \in i .. j : keys[k] \in DigitKeys) => Typed(keys, i, j) < 2 ^ (Width - 1)

\* Keys of numbers and operators show what they come to from left to right, at
\* "=" and at every operator; a number starts from 0 behind "=" and "C", and so
\* does an operator: the result before it is not carried on.
CalculatorExact ==
    /\ Called("calc") /\ NumbersFit(call.keys) =>
         LET s == Counting(call.keys)
             last == IF call.keys = <<>> THEN "C" ELSE Last(call.keys)
         IN  CASE last = "C" -> answer = Cleared
               [] last = "=" -> answer.disp = putnum(LeftToRight(s))
               [] last \in OperatorKeys -> answer.disp = putnum(LeftToRight(Front(s)))
               [] OTHER -> answer.disp = putnum(
                    LET ops == {i \in DOMAIN s : s[i] \in OperatorKeys}
                    IN  Typed(s, (IF ops = {} THEN 0 ELSE Max(ops)) + 1, Len(s)))
    /\ Called("calc_click") => Cardinality(answer) <= 1

\* What backspaces leave of what was typed where that fits.
Kept(keys) ==
    FoldLeft(LAMBDA text, k : IF k # "backspace" THEN Append(text, k)
                              ELSE IF text = <<>> THEN text ELSE Front(text), <<>>, keys)

\* Notes keep what was typed and show no two characters, nor the cursor, in one
\* place or outside a line.
NotesExact ==
    Called("notes") =>
        /\ Len(answer.buffer) < NotesSize
        /\ Len(call.keys) < NotesSize => answer.buffer = Kept(call.keys)
        /\ \A i, j \in DOMAIN answer.places : i # j => answer.places[i] # answer.places[j]
        /\ \A i \in DOMAIN answer.places : answer.places[i].x \in 0 .. NotesColumns - 1

\* The words of a line: the longest runs without a blank, in order.
WordsOf(line) ==
    LET runs == {r \in (DOMAIN line) \X (DOMAIN line) :
                   /\ r[1] <= r[2] /\ \A i \in r[1] .. r[2] : line[i] # " "
                   /\ r[1] > 1 => line[r[1] - 1] = " "
                   /\ r[2] < Len(line) => line[r[2] + 1] = " "}
        sorted == SetToSortSeq(runs, LAMBDA a, b : a[1] < b[1])
    IN  [i \in DOMAIN sorted |-> SubSeq(line, sorted[i][1], sorted[i][2])]

Fits(line) == Len(line) <= LINE_LEN - 3

\* What a short line typed into xsh adds to its lines.
Added(line) ==
    LET words == WordsOf(line)
    IN  <<<<"$", " ">> \o line>> \o
        (IF words = <<>> THEN <<>>
         ELSE IF words[1] = <<"e">> THEN <<Joined(Tail(Cut(words, MAX_ARGS)))>>
         ELSE <<<<"message">>>>)

\* A line that is entered stands below the earlier ones with its answer, of all
\* the last MAX_LINES are kept, and the newest is in the window while no more
\* than RowsShown are there: then the window goes on showing the oldest.
XshExact ==
    Called("xsh") =>
        LET typed == Kept(Front(call.keys))
            words == WordsOf(typed)
            all == call.before \o Added(typed)
        IN  /\ Len(answer.scrollback) <= MAX_LINES
            /\ \A i \in DOMAIN answer.scrollback : Len(answer.scrollback[i]) < LINE_LEN
            /\ call.keys # <<>> /\ Last(call.keys) = "newline" /\ "newline" \notin Range(Front(call.keys))
                 /\ Fits(Front(call.keys)) =>
                 /\ answer.cmdline = <<>>
                 /\ IF words # <<>> /\ words[1] = <<"c">> THEN answer.scrollback = <<>>
                    ELSE answer.scrollback =
                           SubSeq(all, Max({1, Len(all) - MAX_LINES + 1}), Len(all))
            /\ answer.scrollback # <<>> /\ Len(answer.scrollback) <= RowsShown =>
                 Last(answer.shown) = Last(answer.scrollback)

\* What is selected is below the pointer, and a pointer on an icon selects it.
FilesExact ==
    Called("files_click") =>
        /\ answer # None => InBoxAt(call.p, FileMark(answer))
        /\ \A i \in 0 .. NFILES - 1 : InBoxAt(call.p, FileIcon(i)) => answer = i

ApplicationsExact == CalculatorExact /\ NotesExact /\ XshExact /\ FilesExact

=============================================================================
