-------------------------------- MODULE Strings -------------------------------
(***************************************************************************)
(* The memory and string functions of src/lib/libc.c, over a small memory  *)
(* whose last byte ends every string that nothing ended before.            *)
(***************************************************************************)
EXTENDS Integers, Sequences, SequencesExt, FiniteSetsExt, Invocation

CONSTANTS
    LastByte,     \* bound of the model: the memory is 0 .. LastByte
    Letters       \* bound of the model: the bytes a string is made of

ASSUME StringsAssumption == LastByte \in Nat /\ Letters \subseteq 1 .. 127

NUL == 0
Cells == 0 .. LastByte
Memories == {m \in [Cells -> Letters \cup {NUL}] : m[LastByte] = NUL}

-----------------------------------------------------------------------------
(* Blocks of bytes. *)

Byte(m, d, s, i) == [m EXCEPT ![d + i] = m[s + i]]

\* One byte after the other, from the first or from the last: where the two
\* ranges overlap, a byte that was written may be read again.
CopyUp(m, d, s, n) == FoldLeft(LAMBDA now, i : Byte(now, d, s, i - 1), m, [i \in 1 .. n |-> i])
CopyDown(m, d, s, n) == FoldLeft(LAMBDA now, i : Byte(now, d, s, n - i), m, [i \in 1 .. n |-> i])

\* Faulty variant: the copy runs upwards whatever the overlap.
Moved_Up(m, d, s, n) == CopyUp(m, d, s, n)

MovedBytes(m, d, s, n) ==
    CASE d = s -> m
      [] d < s \/ d >= s + n -> CopyUp(m, d, s, n)
      [] OTHER -> CopyDown(m, d, s, n)

Filled(m, d, val, n) == [c \in Cells |-> IF c \in d .. d + n - 1 THEN val ELSE m[c]]

Difference(m, a, b, n) ==
    LET unequal == {i \in 0 .. n - 1 : m[a + i] # m[b + i]}
    IN  IF unequal = {} THEN 0 ELSE m[a + Min(unequal)] - m[b + Min(unequal)]

-----------------------------------------------------------------------------
(* Strings. *)

Length(m, s) == Min({i \in 0 .. LastByte - s : m[s + i] = NUL})

Str(m, s) == [i \in 1 .. Length(m, s) |-> m[s + i - 1]]

\* 1 for every difference: the order the comment of strcmp() speaks of is lost.
Unequal(m, a, b) ==
    LET stop == Min({i \in 0 .. LastByte - Max({a, b}) :
                       m[a + i] = NUL \/ m[b + i] = NUL \/ m[a + i] # m[b + i]})
    IN  IF m[a + stop] # m[b + stop] THEN 1 ELSE 0

\* How many bytes strcpy() copies: it looks for the end only behind the byte it
\* has just copied.  The end itself is never copied.
CopyLen(m, s) == Min({i \in 1 .. LastByte - s : m[s + i] = NUL})

\* The bytes behind the end of the string are zeros.
Padded(m, d, s, n) ==
    [c \in Cells |-> IF c \in d .. d + n - 1
                       THEN IF c - d < Length(m, s) THEN m[s + c - d] ELSE NUL
                       ELSE m[c]]

Number(text) == FoldLeft(LAMBDA k, c : 10 * k + (c - 48), 0, text)

-----------------------------------------------------------------------------
(* strtok().  Its static pointer is "backup"; 0 stands for the null pointer *)
(* of its argument and of its answer, and strings start at 1 or above.      *)

is_delim(c, delim) == c \in delim

Strtok(tok, start, delim) ==
    LET m == tok.memory
        from == IF start = 0 THEN tok.backup ELSE start
        token == Min({c \in from .. LastByte : ~is_delim(m[c], delim)})
        stop == Min({c \in token .. LastByte : m[c] = NUL \/ is_delim(m[c], delim)})
    IN  CASE from = 0 \/ m[token] = NUL -> [tok EXCEPT !.found = 0]
          [] m[stop] = NUL -> [tok EXCEPT !.found = token, !.backup = stop]
          [] OTHER -> [memory |-> [m EXCEPT ![stop] = NUL], found |-> token, backup |-> stop + 1]

\* As ksh.c takes a line apart: the string once, then the null pointer until
\* there is nothing more.
LineWords(m, s, delim) ==
    LET first == Strtok([memory |-> m, backup |-> 0, found |-> 0], s, delim)
        add(acc, i) ==
            LET tok == Strtok(acc.tok, 0, delim)
            IN  IF acc.tok.found = 0 THEN acc
                ELSE [tok |-> tok,
                      words |-> IF tok.found = 0 THEN acc.words ELSE Append(acc.words, tok.found)]
        all == FoldLeft(add,
                        [tok |-> first, words |-> IF first.found = 0 THEN <<>> ELSE <<first.found>>],
                        [i \in 1 .. LastByte + 1 |-> i])
    IN  [memory |-> all.tok.memory, words |-> all.words]

-----------------------------------------------------------------------------
(* The calls. *)

Ranges(n) == 0 .. LastByte + 1 - n

memcpy ==
    \E m \in Memories, n \in 0 .. 3 : \E d, s \in Ranges(n) :
      Invoked([fn |-> "memcpy", m |-> m, d |-> d, s |-> s, n |-> n], CopyUp(m, d, s, n))

memmove ==
    \E m \in Memories, n \in 0 .. 3 : \E d, s \in Ranges(n) :
      Invoked([fn |-> "memmove", m |-> m, d |-> d, s |-> s, n |-> n], MovedBytes(m, d, s, n))

memset ==
    \E m \in Memories, n \in 0 .. 3, val \in Letters : \E d \in Ranges(n) :
      Invoked([fn |-> "memset", m |-> m, d |-> d, val |-> val, n |-> n], Filled(m, d, val, n))

memcmp ==
    \E m \in Memories, n \in 0 .. 3 : \E a, b \in Ranges(n) :
      Invoked([fn |-> "memcmp", m |-> m, a |-> a, b |-> b, n |-> n], Difference(m, a, b, n))

strlen == \E m \in Memories, s \in Cells : Invoked([fn |-> "strlen", m |-> m, s |-> s], Length(m, s))

strcmp ==
    \E m \in Memories, a, b \in Cells :
      Invoked([fn |-> "strcmp", m |-> m, a |-> a, b |-> b], Unequal(m, a, b))

\* The destination is a buffer of its own below the string.
strcpy ==
    \E m \in Memories : \E s \in 1 .. LastByte - 1 : \E d \in 0 .. s - 1 :
      /\ d + CopyLen(m, s) < s
      /\ Invoked([fn |-> "strcpy", m |-> m, d |-> d, s |-> s], CopyUp(m, d, s, CopyLen(m, s)))

strncpy ==
    \E m \in Memories, n \in 0 .. 2 : \E s \in n .. LastByte : \E d \in 0 .. s - n :
      Invoked([fn |-> "strncpy", m |-> m, d |-> d, s |-> s, n |-> n], Padded(m, d, s, n))

strtok ==
    \E m \in Memories, s \in 1 .. LastByte, delim \in SUBSET Letters \ {{}} :
      Invoked([fn |-> "strtok", m |-> m, s |-> s, delim |-> delim], LineWords(m, s, delim))

atoi ==
    \E text \in UNION {[1 .. k -> {48, 49, 57}] : k \in 0 .. 4} :
      Invoked([fn |-> "atoi", text |-> text], Number(text))

StringsNext ==
    memcpy \/ memmove \/ memset \/ memcmp \/ strlen \/ strcmp \/ strcpy \/ strncpy \/ strtok \/ atoi

-----------------------------------------------------------------------------
(* Properties. *)

Slice(m, s, n) == [i \in 1 .. n |-> m[s + i - 1]]
SameElsewhere(m, now, d, n) == \A c \in Cells \ (d .. d + n - 1) : now[c] = m[c]
Apart(d, s, n) == d + n <= s \/ s + n <= d

\* The copies write exactly their range; memmove() delivers the bytes that were
\* there whatever the overlap, memcpy() when the ranges are apart or the
\* destination is the lower one; memset() does the same with one byte.
BlocksExact ==
    /\ Called("memmove") \/ Called("memcpy") =>
         SameElsewhere(call.m, answer, call.d, call.n)
    /\ Called("memmove") \/ (Called("memcpy") /\ (Apart(call.d, call.s, call.n) \/ call.d <= call.s)) =>
         Slice(answer, call.d, call.n) = Slice(call.m, call.s, call.n)
    /\ Called("memset") =>
         /\ SameElsewhere(call.m, answer, call.d, call.n)
         /\ \A i \in 1 .. call.n : answer[call.d + i - 1] = call.val

\* strcmp() and memcmp() say 0 exactly of equal strings and ranges, and the sign
\* of memcmp() swaps with its arguments.
ComparesExact ==
    /\ Called("strcmp") => (answer = 0) = (Str(call.m, call.a) = Str(call.m, call.b))
    /\ Called("memcmp") =>
         /\ (answer = 0) = (Slice(call.m, call.a, call.n) = Slice(call.m, call.b, call.n))
         /\ answer = -Difference(call.m, call.b, call.a, call.n)

\* strcpy() delivers the bytes of its string and touches no byte behind the place
\* of its end; the string arrives where that place held a zero.  Elsewhere it is
\* against its comment, which speaks of a terminated string, and initrd.c puts a zero
\* behind the names it copies.  The empty string is left out: what follows it is copied
\* too.  strncpy() fills its buffer and no more.
CopiesExact ==
    /\ Called("strcpy") /\ Length(call.m, call.s) > 0 =>
         LET n == Length(call.m, call.s)
         IN  /\ SameElsewhere(call.m, answer, call.d, n + 1)
             /\ Slice(answer, call.d, n) = Slice(call.m, call.s, n)
             /\ call.m[call.d + n] = NUL => Str(answer, call.d) = Str(call.m, call.s)
    /\ Called("strncpy") =>
         /\ SameElsewhere(call.m, answer, call.d, call.n)
         /\ Length(call.m, call.s) < call.n => Str(answer, call.d) = Str(call.m, call.s)

\* The words of a line: where a letter that is not a delimiter follows the start
\* of the line or a delimiter, in order; each ends where it did, and only
\* delimiters were overwritten.
WordsExact ==
    Called("strtok") =>
        LET m == call.m
            line == call.s .. call.s + Length(m, call.s) - 1
            letter(c) == c \in line /\ m[c] \notin call.delim
            starts == {c \in line : letter(c) /\ ~letter(c - 1)}
        IN  /\ answer.words = SetToSortSeq(starts, <)
            /\ \A c \in starts, e \in line :
                 (\A x \in c .. e : letter(x)) => Length(answer.memory, c) >= e - c + 1
            /\ \A c \in starts : ~letter(c + Length(answer.memory, c))
            /\ \A c \in Cells : answer.memory[c] # m[c] => c \in line /\ m[c] \in call.delim

\* A numeral is the number it stands for: the last digit counts once, and what
\* stands before it ten times.
NumbersExact ==
    Called("atoi") /\ call.text # <<>> =>
        answer = 10 * Number(Front(call.text)) + (Last(call.text) - 48)

StringsExact == BlocksExact /\ ComparesExact /\ CopiesExact /\ WordsExact /\ NumbersExact

=============================================================================
