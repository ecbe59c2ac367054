----------------------------- MODULE SystemCalls -----------------------------
(***************************************************************************)
(* How a system call gets from a program to the function that answers it:  *)
(* the wrappers of src/lib/unistd.h and src/lib/libax.h, the tables of     *)
(* src/lib/syscalls.c and src/kernel/compat.c, and what is worked out on   *)
(* the way.  The functions themselves are in Files, Scheduler, Windows and *)
(* Keyboard; here they are their names.  The handlers of the Linux and the *)
(* Darwin calls are registered by init_shell() only, which nobody calls.   *)
(***************************************************************************)
EXTENDS Integers, Sequences, SequencesExt, FiniteSetsExt, Invocation

CONSTANTS
    BrkBlock,      \* 0x100000, the size of the block of the program break
    BrkRequests,   \* bound of the model: how many requests in a row
    Bytes,         \* bound of the model: the bytes there are, besides "newline"
    ReadRoom,      \* bound of the model: the numbers of bytes asked for
    MaxFound,      \* bound of the model: how often the kernel finds bytes
    MaxChunk       \* bound of the model: how many at once

ASSUME SystemCallsAssumption ==
    /\ BrkBlock \in Nat \ {0} /\ BrkRequests \in Nat
    /\ ReadRoom \subseteq Nat /\ MaxFound \in Nat /\ MaxChunk \in Nat

-----------------------------------------------------------------------------
(* The native calls.  A parameter is an int, a pointer, or a pointer cut to *)
(* its lower 32 bits.                                                       *)

Entry(number, params) == [number |-> number, params |-> params]

\* What the wrappers put into rax and into rdi, rsi and rdx: those of unistd.h,
\* then those of the windows.
Wrappers ==
    [read |-> Entry(3, <<"int", "pointer", "int">>),
     write |-> Entry(4, <<"int", "pointer", "int">>),
     open |-> Entry(5, <<"pointer", "int", "int">>),
     unlink |-> Entry(10, <<"pointer">>),
     exec |-> Entry(11, <<"pointer">>),
     ioctl |-> Entry(54, <<"int", "int", "pointer">>),
     getdents |-> Entry(141, <<"int", "pointer", "int">>),
     ipc_call |-> Entry(150, <<"int", "pointer">>),
     exit |-> Entry(1, <<"int">>),
     yield |-> Entry(151, <<>>),
     compat_exec |-> Entry(170, <<"pointer">>),
     ax_surface |-> Entry(160, <<"pointer", "int", "int">>),
     ax_poll |-> Entry(161, <<"pointer", "pointer">>),
     ax_commit |-> Entry(162, <<"pointer">>),
     ax_time |-> Entry(163, <<"pointer">>),
     ax_screen |-> Entry(164, <<"pointer">>)]

Goes(fn, params) == [fn |-> fn, params |-> params]

\* The function of a number, with the types of its parameters; no other number
\* has one.
syscall_handler(number) ==
    CASE number = 1 -> Goes("exit", <<"int">>)
      [] number = 3 -> Goes("read", <<"int", "pointer", "int">>)
      [] number = 4 -> Goes("write", <<"int", "pointer", "int">>)
      [] number = 5 -> Goes("open", <<"pointer", "int", "int">>)
      [] number = 10 -> Goes("unlink", <<"pointer">>)
      [] number = 11 -> Goes("exec", <<"pointer">>)
      [] number = 54 -> Goes("ioctl", <<"int", "int", "pointer">>)
      [] number = 141 -> Goes("getdents", <<"int", "pointer", "int">>)
      [] number = 150 -> Goes("ipc_call", <<"int", "pointer">>)
      [] number = 151 -> Goes("yield", <<>>)
      [] number = 160 -> Goes("ax_surface", <<"pointer", "int", "int">>)
      [] number = 161 -> Goes("ax_poll", <<"cut", "pointer">>)
      [] number = 162 -> Goes("ax_commit", <<"cut">>)
      [] number = 163 -> Goes("ax_time", <<"pointer">>)
      [] number = 164 -> Goes("ax_screen", <<"pointer">>)
      [] OTHER -> Goes("none", <<>>)

\* What is left in rax where no function answers: the number itself of 170, an
\* error of any other.
Unanswered(number) == IF number = 170 THEN 170 ELSE -1

-----------------------------------------------------------------------------
(* The calls of Linux and of Darwin.  "zero" answers 0 and does nothing,    *)
(* "spin" never answers: the task yields for ever.                          *)

linux_syscall_handler(number) ==
    CASE number = 0 -> "read"
      [] number = 1 -> "write"
      [] number = 2 -> "open"
      [] number = 3 -> "close"
      [] number = 9 -> "mmap"
      [] number = 11 -> "munmap"
      [] number = 12 -> "brk"
      [] number \in {60, 231} -> "spin"
      [] number \in {39, 158, 218, 17, 35, 78, 79, 80, 81, 82, 102, 202} -> "zero"
      [] OTHER -> "-38"

\* Numbers of Darwin have their class in the upper byte: 0 and 2 are the same.
darwin_syscall_handler(class, number) ==
    CASE class \notin {0, 2} -> "-90"
      [] class \in {0, 2} /\ number = 1 -> "spin"
      [] class \in {0, 2} /\ number = 3 -> "read"
      [] class \in {0, 2} /\ number = 4 -> "write"
      [] class \in {0, 2} /\ number = 5 -> "open"
      [] class \in {0, 2} /\ number = 6 -> "close"
      [] class \in {0, 2} /\ number \in {32, 54} -> "zero"
      [] class \in {0, 2} /\ number = 73 -> "brk"
      [] class \in {0, 2} /\ number = 197 -> "mmap"
      [] OTHER -> "-90"

\* Writing to the screen stops at a zero byte and goes to 1 and 2 only.
sys_write_compat(fd, text) ==
    IF fd \notin {1, 2} THEN [n |-> -1, shown |-> <<>>]
    ELSE LET shown == SelectInSeq(text \o <<"NUL">>, LAMBDA b : b = "NUL") - 1
         IN  [n |-> shown, shown |-> SubSeq(text, 1, shown)]

\* Faulty variant: the limit is not tested.
brk_Unlimited(cur, target) == IF target > cur THEN target ELSE cur

\* The program break, in units from the block's beginning; no request is 0.  The
\* limit moves along with the break.
brk(cur, target) == IF target > cur /\ target < cur + BrkBlock THEN target ELSE cur

sys_brk_compat(requests) ==
    LET cur_brk[i \in 0 .. Len(requests)] ==
          IF i = 0 THEN 0 ELSE brk(cur_brk[i - 1], requests[i])
    IN  [i \in 1 .. Len(requests) + 1 |-> cur_brk[i - 1]]

\* mmap() gives zeroed memory of its own; munmap() frees what is not NULL.
sys_mmap_compat(length) == [i \in 1 .. length |-> 0]
sys_munmap_compat(null) == IF null THEN -1 ELSE 0

-----------------------------------------------------------------------------
(* read() of unistd.h asks until it has all it was asked for, a newline at  *)
(* the end of what it got, or an error.  A source is what each call in the  *)
(* kernel finds; a file is one piece, and nothing follows.                  *)

KernelRead(source, n) ==
    IF source = <<>> THEN <<>> ELSE SubSeq(Head(source), 1, Min({n, Len(Head(source))}))

\* What is left of a source when that is taken.
Rest(source, n) ==
    IF source = <<>> THEN <<>>
    ELSE IF n < Len(Head(source))
         THEN <<SubSeq(Head(source), n + 1, Len(Head(source)))>> \o Tail(source)
         ELSE Tail(source)

\* Faulty variant: every call asks for the whole amount again.
Wanted_All(count, total) == count

Wanted(count, total) == count - total

\* One turn of the loop, with what it got so far.
ReadTurn(loop, count) ==
    LET n == Wanted(count, Len(loop.got))
        ret == KernelRead(loop.source, n)
    IN  CASE loop.ends -> loop
          [] ~loop.ends /\ Len(loop.got) >= count -> [loop EXCEPT !.ends = TRUE]
          [] OTHER -> [source |-> Rest(loop.source, n), got |-> loop.got \o ret,
                       ends |-> ret # <<>> /\ Last(ret) = "newline"]

\* Each turn ends the loop, or gets all that is wanted, or takes what the kernel
\* found at once; after as many turns as it found bytes, and one, it has ended or
\* goes on without getting anything.
ReadLoop(source, count) ==
    LET turn[k \in 0 .. Len(source) + 1] ==
          IF k = 0 THEN [source |-> source, got |-> <<>>, ends |-> FALSE]
          ELSE ReadTurn(turn[k - 1], count)
    IN  turn[Len(source) + 1]

\* Of a directory, or of a descriptor that is not open, there is an error at once.
unistd_read(source, count, fails) ==
    IF fails /\ count > 0 THEN [ends |-> TRUE, got |-> <<>>, ret |-> -1]
    ELSE LET loop == ReadLoop(source, count)
         IN  [ends |-> loop.ends, got |-> loop.got, ret |-> Len(loop.got)]

-----------------------------------------------------------------------------
(* The calls. *)

NativeCall == \E fn \in DOMAIN Wrappers :
    Invoked([fn |-> "syscall", name |-> fn], syscall_handler(Wrappers[fn].number))

NoCallThere == \E number \in {-1, 0, 2, 170} :
    Invoked([fn |-> "unknown", number |-> number], Unanswered(number))

PersonalityCall == \E class \in {0, 1, 2}, number \in 0 .. 255 :
    Invoked([fn |-> "personality", class |-> class, number |-> number],
            [linux |-> linux_syscall_handler(number), darwin |-> darwin_syscall_handler(class, number)])

Chunks == UNION {[1 .. n -> Bytes \cup {"newline"}] : n \in 0 .. MaxChunk}

WriteText == \E fd \in 0 .. 3, text \in UNION {[1 .. n -> Bytes \cup {"NUL"}] : n \in 0 .. 3} :
    Invoked([fn |-> "write", fd |-> fd, text |-> text], sys_write_compat(fd, text))

MoveBreak == \E requests \in [1 .. BrkRequests -> 0 .. 2 * BrkBlock] :
    Invoked([fn |-> "brk", requests |-> requests], sys_brk_compat(requests))

MapMemory == \E length \in 0 .. 3, null \in BOOLEAN :
    Invoked([fn |-> "map", length |-> length, null |-> null],
            [memory |-> sys_mmap_compat(length), unmap |-> sys_munmap_compat(null)])

ReadText == \E source \in UNION {[1 .. n -> Chunks] : n \in 0 .. MaxFound}, count \in ReadRoom,
               fails \in BOOLEAN :
    Invoked([fn |-> "read", source |-> source, count |-> count, fails |-> fails],
            unistd_read(source, count, fails))

SystemCallsNext ==
    NativeCall \/ NoCallThere \/ PersonalityCall \/ WriteText \/ MoveBreak \/ MapMemory \/ ReadText

-----------------------------------------------------------------------------
(* Properties. *)

\* A wrapper reaches the function of its name with every parameter where the
\* function expects it.  Two things are lost: compat_exec(), which nobody
\* answers, and the upper half of a canvas address.
CallsArrive ==
    /\ Called("syscall") =>
         LET w == Wrappers[call.name]
         IN  IF call.name = "compat_exec" THEN answer.fn = "none"
             ELSE /\ answer.fn = call.name
                  /\ Len(answer.params) = Len(w.params)
                  /\ \A i \in DOMAIN w.params :
                       \/ answer.params[i] = w.params[i]
                       \/ call.name \in {"ax_poll", "ax_commit"} /\ i = 1 /\ answer.params[i] = "cut"
    /\ Called("unknown") => (answer < 0) = (call.number # 170)

\* The numbers the two systems give to the calls that both tables serve.
LinuxNumber == [read |-> 0, write |-> 1, open |-> 2, close |-> 3, mmap |-> 9, munmap |-> 11, brk |-> 12]
DarwinNumber == [read |-> 3, write |-> 4, open |-> 5, close |-> 6, mmap |-> 197, munmap |-> 73]

\* A call of Linux or of Darwin by its number gets to that call, but for Darwin's
\* munmap(), in whose place brk() is called.
PersonalitiesTrue ==
    Called("personality") =>
        /\ \A op \in DOMAIN LinuxNumber : call.number = LinuxNumber[op] => answer.linux = op
        /\ \A op \in DOMAIN DarwinNumber :
             call.number = DarwinNumber[op] /\ call.class # 1 =>
               answer.darwin = IF op = "munmap" THEN "brk" ELSE op

\* The break never moves back, and a request that is served is served as asked;
\* the first one stays inside the block, later ones need not.
BreakMoves ==
    Called("brk") => \A i \in DOMAIN call.requests :
        /\ answer[i + 1] >= answer[i]
        /\ answer[i + 1] \in {answer[i], call.requests[i]}
        /\ answer[i] = 0 => answer[i + 1] < BrkBlock

\* read() hands over what comes first, never more than was asked for; it comes
\* back early only with a whole line, and waits for ever where the source ends
\* within one.
ReadsInOrder ==
    Called("read") /\ answer.ret >= 0 =>
        LET all == FlattenSeq(call.source)
        IN  /\ IsPrefix(answer.got, all)
            /\ Len(answer.got) <= call.count
            /\ answer.ends => Len(answer.got) = call.count \/ Last(answer.got) = "newline"
            /\ ~answer.ends => answer.got = all /\ Len(all) < call.count

SystemCallsExact == CallsArrive /\ PersonalitiesTrue /\ BreakMoves /\ ReadsInOrder

=============================================================================
