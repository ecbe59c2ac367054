------------------------------- MODULE Printing -------------------------------
(***************************************************************************)
(* The text of numbers and of printf(): src/lib/libc.c, and the two        *)
(* routines of src/drivers/monitor.c for numbers.  Words have Width bits   *)
(* instead of 32 and long words LongWidth instead of 64.                   *)
(***************************************************************************)
EXTENDS Integers, Sequences, SequencesExt, FiniteSetsExt, Invocation

CONSTANTS
    Width, LongWidth,   \* bounds of the model: the bits of an int and of a long
    Numbers,            \* bound of the model: the numbers that are printed
    MaxPieces           \* bound of the model: the pieces of a format

ASSUME PrintingAssumption == Width \in 2 .. LongWidth /\ LongWidth \in Nat

Marks == <<"0", "1", "2", "3", "4", "5", "6", "7", "8", "9", "a", "b", "c", "d", "e", "f">>

Unsigned(n) == n % 2 ^ Width
Signed(n) == LET u == Unsigned(n) IN IF u < 2 ^ (Width - 1) THEN u ELSE u - 2 ^ Width
LeastInt == -(2 ^ (Width - 1))

\* Faulty variant: the first digit of a number that fills its digits is lost.
DigitCount_Short(n, base) == CHOOSE k \in 1 .. LongWidth : n <= base ^ k /\ (k > 1 => n > base ^ (k - 1))

DigitCount(n, base) == CHOOSE k \in 1 .. LongWidth : n < base ^ k /\ (k > 1 => n >= base ^ (k - 1))

\* print_uint() and print_uint64(): the digits come out last one first and are
\* printed from the end of the buffer.
Digits(n, base) ==
    LET last == DigitCount(n, base)
    IN  [i \in 1 .. last |-> Marks[((n \div base ^ (last - i)) % base) + 1]]

\* The texts print_int() may print.  The least number has no counterpart: what
\* becomes of it is up to the compiler.
IntTexts(num) ==
    CASE num = LeastInt -> {<<"-">>, <<"-">> \o Digits(-num, 10)}
      [] num < 0 -> {<<"-">> \o Digits(-num, 10)}
      [] OTHER -> {Digits(num, 10)}

\* monitor_write_hex() leaves out the zeros in front, but never the last digit.
Nibble(n, i) == (n \div 16 ^ i) % 16

WriteHex(n) ==
    LET shown == {i \in 1 .. (Width + 3) \div 4 - 1 : \E j \in i .. (Width + 3) \div 4 - 1 : Nibble(n, j) # 0}
        top == IF shown = {} THEN 0 ELSE Max(shown)
    IN  <<"0", "x">> \o [i \in 1 .. top + 1 |-> Marks[Nibble(n, top + 1 - i) + 1]]

\* monitor_write_dec() works on a signed copy: large numbers leave no digit.
WriteDec(n) == IF n = 0 THEN <<"0">> ELSE IF Signed(n) > 0 THEN Digits(Signed(n), 10) ELSE <<>>

-----------------------------------------------------------------------------
(* Formats.  The scanner reads one character after the other; its mode is   *)
(* what it has read of a directive.  The character behind the last one ends *)
(* the string, and a scanner that steps over it reads on behind the format. *)

Name == <<"n", "a">>
NullString == <<"no string">>

ScanNext(scan, mode, text, taken) ==
    [scan EXCEPT !.mode = mode, !.text = @ \o text, !.args = IF taken THEN Tail(@) ELSE @]

Pointer(n) == IF n = 0 THEN <<"(nil)">> ELSE <<"0x">> \o Digits(n, 16)

Text(string) == IF string = NullString THEN <<"(null)">> ELSE string

LongDirective(scan, c) ==
    CASE c \in {"d", "i"} -> {ScanNext(scan, "text", t, TRUE) : t \in IntTexts(Signed(Head(scan.args).num))}
      [] c = "u" -> {ScanNext(scan, "text", Digits(Unsigned(Head(scan.args).num), 10), TRUE)}
      [] c = "x" -> {ScanNext(scan, "text", Digits(Unsigned(Head(scan.args).num), 16), TRUE)}
      [] c = "l" /\ scan.mode = "l" -> {ScanNext(scan, "ll", <<>>, FALSE)}
      [] OTHER -> {ScanNext(scan, "text", <<>>, FALSE)}

Directive(scan, c) ==
    CASE c \in {"d", "i"} -> {ScanNext(scan, "text", t, TRUE) : t \in IntTexts(Signed(Head(scan.args).num))}
      [] c = "u" -> {ScanNext(scan, "text", Digits(Unsigned(Head(scan.args).num), 10), TRUE)}
      [] c \in {"x", "X"} -> {ScanNext(scan, "text", Digits(Unsigned(Head(scan.args).num), 16), TRUE)}
      [] c = "o" -> {ScanNext(scan, "text", Digits(Unsigned(Head(scan.args).num), 8), TRUE)}
      [] c = "s" -> {ScanNext(scan, "text", Text(Head(scan.args).str), TRUE)}
      [] c = "c" -> {ScanNext(scan, "text", Head(scan.args).str, TRUE)}
      [] c = "p" -> {ScanNext(scan, "text", Pointer(Head(scan.args).num), TRUE)}
      [] c \in {"l", "z"} -> {ScanNext(scan, c, <<>>, FALSE)}
      [] c = "%" -> {ScanNext(scan, "text", <<"%">>, FALSE)}
      [] OTHER -> {ScanNext(scan, "text", <<"%", c>>, FALSE)}

\* After %z only u and x are known, after %l and %ll also d and i.
ScanStep(scan, c) ==
    CASE scan.mode = "text" ->
           {IF c = "%" THEN [scan EXCEPT !.mode = "%"] ELSE ScanNext(scan, "text", <<c>>, FALSE)}
      [] scan.mode = "%" -> Directive(scan, c)
      [] scan.mode = "z" /\ c \in {"d", "i"} -> {ScanNext(scan, "text", <<>>, FALSE)}
      [] OTHER -> LongDirective(scan, c)

vprintf(format, args) ==
    FoldLeft(LAMBDA scans, c : UNION {ScanStep(s, c) : s \in scans},
             {[mode |-> "text", text |-> <<>>, args |-> args]}, format)

\* Where the format ends within a directive the end is stepped over.
StepsOver(scan) == scan.mode # "text"

-----------------------------------------------------------------------------
(* The calls.  A format is put together from pieces: its characters and the *)
(* arguments that go with them.                                             *)

Piece(chars, args) == [chars |-> chars, args |-> args]
NumberArg(n) == <<[num |-> n, str |-> <<>>]>>
TextArg(s) == <<[num |-> 0, str |-> s]>>

Pieces ==
    {Piece(<<"a">>, <<>>), Piece(<<"%", "%">>, <<>>), Piece(<<"%", "q">>, <<>>),
     Piece(<<"%", "s">>, TextArg(Name)), Piece(<<"%", "s">>, TextArg(NullString)),
     Piece(<<"%", "c">>, TextArg(<<"c">>)), Piece(<<"%">>, <<>>), Piece(<<"%", "l", "q">>, <<>>)}
    \cup {Piece(<<"%">> \o d, NumberArg(n)) :
            d \in {<<"d">>, <<"u">>, <<"X">>, <<"o">>, <<"p">>, <<"l", "i">>, <<"l", "u">>,
                   <<"l", "l", "d">>, <<"l", "l", "x">>, <<"z", "u">>},
            n \in Numbers}

printf ==
    \E k \in 0 .. MaxPieces : \E pieces \in [1 .. k -> Pieces] :
      LET format == FlattenSeq([i \in 1 .. k |-> pieces[i].chars])
          args == FlattenSeq([i \in 1 .. k |-> pieces[i].args])
      IN  /\ \A i \in 1 .. k - 1 : Len(pieces[i].chars) > 1 \/ pieces[i].chars = <<"a">>
          /\ \E scan \in vprintf(format, args) :
               Invoked([fn |-> "printf", pieces |-> pieces],
                       [text |-> scan.text, left |-> scan.args, over |-> StepsOver(scan)])

puts == \E s \in {<<>>, Name} : Invoked([fn |-> "puts", s |-> s], s \o <<"newline">>)

monitor_write_hex ==
    \E n \in 0 .. 2 ^ Width - 1 : Invoked([fn |-> "hex", n |-> n], WriteHex(n))

monitor_write_dec ==
    \E n \in 0 .. 2 ^ Width - 1 : Invoked([fn |-> "dec", n |-> n], WriteDec(n))

\* The stub prints nowhere: the buffer is an empty string.
sprintf == \E n \in Numbers : Invoked([fn |-> "sprintf", n |-> n], <<>>)

PrintingNext == printf \/ sprintf \/ puts \/ monitor_write_hex \/ monitor_write_dec

-----------------------------------------------------------------------------
(* Properties. *)

DigitValue(mark) == CHOOSE d \in 0 .. 15 : Marks[d + 1] = mark

Value(digits, base) == FoldLeft(LAMBDA v, d : v * base + DigitValue(d), 0, digits)

Numeral(digits, base, n) ==
    /\ digits # <<>> /\ \A i \in DOMAIN digits : digits[i] \in Range(SubSeq(Marks, 1, base))
    /\ Value(digits, base) = n
    /\ Len(digits) > 1 => digits[1] # "0"

\* A directive that names a length takes a long or a size_t, of which print_int()
\* and print_uint() get an int: libc.c calls an l 64 bits wide and so contradicts
\* itself where the number does not fit.
NamesLength(piece) == Len(piece.chars) > 2
FitsInt(n) == n < 2 ^ (Width - 1)

\* What a piece is to be printed as: a number in its base, read as an int or as
\* an unsigned int.  Of a number that is longer than its int nothing but that
\* something is printed is said where the directive names a length.
Printed(piece, text) ==
    LET directive == Last(piece.chars)
        n == piece.args[1].num
        s == piece.args[1].str
    IN  CASE directive \in {"d", "i", "u", "x"} /\ NamesLength(piece) /\ ~FitsInt(n) -> text # <<>>
          [] directive \in {"d", "i"} ->
               IF Signed(n) < 0
                 THEN /\ text # <<>> /\ text[1] = "-"
                      /\ Signed(n) # LeastInt => Numeral(Tail(text), 10, -Signed(n))
                 ELSE Numeral(text, 10, Signed(n))
          [] directive = "u" -> Numeral(text, 10, Unsigned(n))
          [] directive \in {"x", "X"} -> Numeral(text, 16, Unsigned(n))
          [] directive = "o" -> Numeral(text, 8, Unsigned(n))
          [] directive = "p" -> IF n = 0 THEN text = <<"(nil)">>
                                ELSE text # <<>> /\ text[1] = "0x" /\ Numeral(Tail(text), 16, n)
          [] directive = "s" -> text = IF s = NullString THEN <<"(null)">> ELSE s
          [] directive = "c" -> text = s
          [] directive = "q" -> text = IF Len(piece.chars) = 2 THEN piece.chars ELSE <<>>
          [] OTHER -> text = <<directive>>

\* The text falls into one part for every piece, each what its piece stands for.
RECURSIVE FallsInto(_, _)
FallsInto(text, pieces) ==
    IF pieces = <<>> THEN text = <<>>
    ELSE \E k \in 0 .. Len(text) :
           /\ Printed(Head(pieces), SubSeq(text, 1, k))
           /\ FallsInto(SubSeq(text, k + 1, Len(text)), Tail(pieces))

\* printf() prints its pieces in order, takes one argument for every directive
\* that has one, and stays within the format unless that ends in the middle of
\* a directive.  The two routines of the monitor print numbers that read back,
\* the decimal one those that are not negative as an int.
PrintsExact ==
    /\ Called("printf") =>
         LET open == call.pieces # <<>> /\ Last(call.pieces).chars = <<"%">>
         IN  /\ answer.left = <<>>
             /\ answer.over = open
             /\ ~open => FallsInto(answer.text, call.pieces)
    /\ Called("hex") =>
         /\ SubSeq(answer, 1, 2) = <<"0", "x">>
         /\ Numeral(SubSeq(answer, 3, Len(answer)), 16, call.n)
    /\ Called("dec") /\ Signed(call.n) >= 0 => Numeral(answer, 10, call.n)

=============================================================================
