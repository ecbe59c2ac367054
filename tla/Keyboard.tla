------------------------------- MODULE Keyboard -------------------------------
(***************************************************************************)
(* The ring of keys, src/drivers/keyboard.c: keyboard_callback() fills it  *)
(* from interrupts, and the read of src/kernel/compat.c, its only reader,  *)
(* drains it when Enter has been pressed.                                  *)
(*                                                                         *)
(* Interrupts come between any two steps of the reader.  keyboard_read()   *)
(* loads buffer_count once to test it and, as gcc -O2 may keep the value   *)
(* in a register, the decrement stores either that value or the one in     *)
(* memory, less one.  The echo on the screen is Console's.                 *)
(***************************************************************************)
EXTENDS Integers, Sequences

CONSTANTS
    BufferSize,   \* BUFFER_SIZE
    Characters,   \* what keyboard_map has for the keys
    LineSize,     \* len, the size of the caller's buffer: with none read() returns at once
    MaxPresses    \* bound of the model: how many keys are pressed

ASSUME RingAssumption == BufferSize \in Nat \ {0}
ASSUME LineAssumption == LineSize \in Nat \ {0}

VARIABLES
    reader,             \* where the reader is
    seen,               \* buffer_count as keyboard_read() has loaded it
    taken_key,          \* c
    line,               \* buf[0 .. i-1]
    keyboard_buffer, buffer_head, buffer_tail, buffer_count,
    is_enter_pressed,
    presses,            \* the keys pressed so far
    pending,            \* the keys that are due to be read, in order
    due,                \* the keys that should be in the line
    crossed             \* an interrupt changed the ring between two steps

ringVars == <<keyboard_buffer, buffer_head, buffer_tail, buffer_count>>
readerVars == <<reader, seen, taken_key, line, due>>
keyboardVars == <<readerVars, ringVars, is_enter_pressed, presses, pending, crossed>>

Newline == "newline"
Slots == 0 .. BufferSize - 1

KeyboardInit ==
    /\ reader = "away" /\ seen = 0 /\ taken_key = Newline
    /\ line = << >> /\ due = << >>
    /\ keyboard_buffer = [s \in Slots |-> Newline]
    /\ buffer_head = 0 /\ buffer_tail = 0 /\ buffer_count = 0
    /\ is_enter_pressed = FALSE
    /\ presses = 0 /\ pending = << >> /\ crossed = FALSE

-----------------------------------------------------------------------------
(* keyboard_callback() *)

\* Faulty variant: every slot may be used.
is_buffer_full_Never == buffer_count > BufferSize

is_buffer_full == buffer_count >= BufferSize - 1

is_buffer_empty == buffer_count = 0

\* Where the reader is halfway through what it does to the ring.
Halfway == reader \in {"clear_tail", "clear_count", "take", "count"}

PutKey(c) ==
    /\ keyboard_buffer' = [keyboard_buffer EXCEPT ![buffer_head] = c]
    /\ buffer_head' = (buffer_head + 1) % BufferSize
    /\ buffer_count' = buffer_count + 1
    /\ pending' = IF Len(pending) < BufferSize - 1 THEN Append(pending, c) ELSE pending
    /\ crossed' = (crossed \/ Halfway)
    /\ UNCHANGED buffer_tail

RingAsItIs == UNCHANGED <<ringVars, pending, crossed>>

Pressed ==
    /\ presses < MaxPresses
    /\ presses' = presses + 1
    /\ UNCHANGED readerVars

EnterKey ==
    /\ Pressed
    /\ IF is_buffer_full THEN RingAsItIs ELSE PutKey(Newline)
    /\ is_enter_pressed' = TRUE

\* Faulty variant: there is always something to take back.
Erasable_Always == TRUE

Erasable == buffer_count > 0

BackspaceKey ==
    /\ Pressed
    /\ UNCHANGED is_enter_pressed
    /\ IF ~Erasable THEN RingAsItIs
       ELSE /\ buffer_head' = (buffer_head - 1 + BufferSize) % BufferSize
            /\ buffer_count' = buffer_count - 1
            /\ pending' = IF pending = << >> THEN pending
                          ELSE SubSeq(pending, 1, Len(pending) - 1)
            /\ crossed' = (crossed \/ Halfway)
            /\ UNCHANGED <<keyboard_buffer, buffer_tail>>

CharacterKey ==
    /\ Pressed
    /\ UNCHANGED is_enter_pressed
    /\ \E c \in Characters : IF is_buffer_full THEN RingAsItIs ELSE PutKey(c)

\* A key that is released, has no character, or is not there at all.
IgnoredKey ==
    /\ Pressed
    /\ RingAsItIs /\ UNCHANGED is_enter_pressed

keyboard_press == EnterKey \/ BackspaceKey \/ CharacterKey \/ IgnoredKey

-----------------------------------------------------------------------------
(* The reader: sys_read_compat() with keyboard_clear_buffer() and            *)
(* keyboard_read().                                                          *)

\* From one label to the next; what the step does to the ring is said with it.
ReaderStep(from, to) ==
    /\ reader = from /\ reader' = to
    /\ UNCHANGED presses

sys_read_starts ==
    /\ ReaderStep("away", "clear_tail")
    /\ buffer_head' = 0
    /\ line' = << >> /\ due' = << >>
    /\ UNCHANGED <<seen, taken_key, keyboard_buffer, buffer_tail, buffer_count,
                   is_enter_pressed, pending, crossed>>

clear_tail ==
    /\ ReaderStep("clear_tail", "clear_count")
    /\ buffer_tail' = 0
    /\ UNCHANGED <<seen, taken_key, line, due, keyboard_buffer, buffer_head,
                   buffer_count, is_enter_pressed, pending, crossed>>

clear_count ==
    /\ ReaderStep("clear_count", "clear_enter")
    /\ buffer_count' = 0 /\ pending' = << >>
    /\ UNCHANGED <<seen, taken_key, line, due, keyboard_buffer, buffer_head,
                   buffer_tail, is_enter_pressed, crossed>>

clear_enter ==
    /\ ReaderStep("clear_enter", "wait")
    /\ is_enter_pressed' = FALSE
    /\ UNCHANGED <<seen, taken_key, line, due, ringVars, pending, crossed>>

\* Faulty variant: the zero at the end is forgotten.
HasRoom_Late == Len(line) < LineSize

HasRoom == Len(line) < LineSize - 1

\* Out of while (i < len - 1), or on to the keys when Enter was pressed.
wait_for_enter ==
    /\ ReaderStep("wait", IF HasRoom THEN "read" ELSE "away")
    /\ HasRoom => is_enter_pressed
    /\ UNCHANGED <<seen, taken_key, line, due, ringVars, is_enter_pressed, pending,
                   crossed>>

\* The ring is empty or the line is full: the line ends here if Enter was
\* pressed.  It was, since nothing but this reader clears the flag.
line_ends ==
    /\ ReaderStep("read", "away")
    /\ is_buffer_empty \/ ~HasRoom
    /\ is_enter_pressed' = FALSE
    /\ UNCHANGED <<seen, taken_key, line, due, ringVars, pending, crossed>>

key_there ==
    /\ ReaderStep("read", "take")
    /\ ~is_buffer_empty /\ HasRoom
    /\ seen' = buffer_count
    /\ UNCHANGED <<taken_key, line, due, ringVars, is_enter_pressed, pending, crossed>>

take_key ==
    /\ ReaderStep("take", "count")
    /\ taken_key' = keyboard_buffer[buffer_tail]
    /\ buffer_tail' = (buffer_tail + 1) % BufferSize
    /\ UNCHANGED <<seen, line, due, keyboard_buffer, buffer_head, buffer_count,
                   is_enter_pressed, pending, crossed>>

\* A newline ends the line; every other key is added to it.
count_key ==
    /\ ReaderStep("count", IF taken_key = Newline THEN "away" ELSE "read")
    /\ buffer_count' \in {seen - 1, buffer_count - 1}
    /\ line' = IF taken_key = Newline THEN line ELSE Append(line, taken_key)
    /\ due' = IF pending # << >> /\ Head(pending) # Newline
              THEN Append(due, Head(pending)) ELSE due
    /\ pending' = IF pending = << >> THEN pending ELSE Tail(pending)
    /\ is_enter_pressed' = (is_enter_pressed /\ taken_key # Newline)
    /\ UNCHANGED <<seen, taken_key, keyboard_buffer, buffer_head, buffer_tail, crossed>>

sys_read_compat ==
    \/ sys_read_starts \/ clear_tail \/ clear_count \/ clear_enter
    \/ wait_for_enter \/ line_ends \/ key_there \/ take_key \/ count_key

KeyboardNext == keyboard_press \/ sys_read_compat

-----------------------------------------------------------------------------
(* Properties. *)

\* Whatever the interrupts do, the handler writes and the reader takes inside the
\* ring, and the line leaves a place for the zero that read() puts behind it.  As
\* long as no interrupt changed the ring in the middle of keyboard_read() or
\* keyboard_clear_buffer(), and between two reads of keys, the ring holds the
\* keys that are due and nothing else, in order and with a slot to spare, and
\* the line is made of the keys that were due.
KeysInOrder ==
    /\ buffer_head \in Slots /\ buffer_tail \in Slots
    /\ Len(line) < LineSize
    /\ ~crossed /\ ~Halfway =>
         /\ buffer_count = Len(pending) /\ buffer_count < BufferSize
         /\ buffer_head = (buffer_tail + buffer_count) % BufferSize
         /\ \A i \in 1 .. Len(pending) :
              keyboard_buffer[(buffer_tail + i - 1) % BufferSize] = pending[i]
         /\ line = due

=============================================================================
