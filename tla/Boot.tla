--------------------------------- MODULE Boot ---------------------------------
(***************************************************************************)
(* What the machine code and the C code of the kernel agree on without a   *)
(* compiler that checks it: the frame of an interrupt                      *)
(* (src/kernel/asm/interrupt.asm and registers_t), the thunks that call    *)
(* programs, the boot information (src/boot/itdo.asm and multiboot.h),     *)
(* which limine_boot.c fills in, the splash of itdo.asm, and the page      *)
(* tables of the older src/boot/boot.asm, which the build does not use.    *)
(***************************************************************************)
EXTENDS Integers, SequencesExt, FiniteSetsExt, Invocation

CONSTANTS
    MaxMods,       \* the modules that are bridged: 250
    ModRoom,       \* the records itdo_mod_storage holds: 8192 \div 32
    ModLists,      \* bound of the model: the lists of modules of the loader
    Modes          \* bound of the model: width, height, and bytes of a line; on a smaller
                   \* screen the splash leaves it

ASSUME BootAssumption ==
    /\ MaxMods \in Nat /\ ModRoom \in Nat /\ MaxMods <= ModRoom
    /\ \A list \in ModLists : list \in Seq(Nat)
    /\ Modes \subseteq [w : Nat, h : Nat, pitch : Nat]
    /\ \A m \in Modes : m.w >= 402 /\ m.h >= 168 /\ m.pitch >= 4 * m.w

-----------------------------------------------------------------------------
(* Interrupts.  A stack is a sequence whose first element is the top. *)

PushAll(stack, items) == Reverse(items) \o stack

\* What the processor pushes, external: an error code for some vectors only.
WithError == {8, 10, 11, 12, 13, 14}
Frame(vector) ==
    LET stack == PushAll(<< >>, <<"ss", "rsp", "rflags", "cs", "rip">>)
    IN  IF vector \in WithError THEN PushAll(stack, <<"err_code">>) ELSE stack

\* Faulty variant: the double fault is taken for a vector without error code.
ISR_ERRCODE_NotDouble == {10, 11, 12, 13, 14}

\* The vectors whose stub does not push an error code of its own.
ISR_ERRCODE == {8, 10, 11, 12, 13, 14}

Saved == <<"rax", "rbx", "rcx", "rdx", "rbp", "rsi", "rdi", "r8", "r9", "r10",
           "r11", "r12", "r13", "r14", "r15">>
Restored == <<"r15", "r14", "r13", "r12", "r11", "r10", "r9", "r8", "rdi", "rsi",
              "rbp", "rdx", "rcx", "rbx", "rax">>

\* isr_common_stub and irq_common_stub: what the handler finds at its argument.
common_stub(vector) ==
    LET own == IF vector \in ISR_ERRCODE THEN << >> ELSE <<"err_code">>
    IN  PushAll(PushAll(Frame(vector), own \o <<"int_no">>), Saved)

registers_t ==
    <<"r15", "r14", "r13", "r12", "r11", "r10", "r9", "r8", "rdi", "rsi", "rbp", "rdx",
      "rcx", "rbx", "rax", "int_no", "err_code", "rip", "cs", "rflags", "rsp", "ss">>

\* Popping the registers, two words more, and iretq: what each register gets.
stub_returns(stack) ==
    [r \in ToSet(Restored) |-> stack[CHOOSE i \in DOMAIN Restored : Restored[i] = r]]

AfterStub(stack) == SubSeq(stack, Len(Restored) + 3, Len(stack))

-----------------------------------------------------------------------------
(* The thunks.  Depths are in words below the return address of the thunk.   *)
(* skew is 1 where the caller has not aligned the stack as it should have.   *)

Callee == <<"rbp", "rbx", "r12", "r13", "r14", "r15">>
Aligned(depth, skew) == IF (depth + skew) % 2 = 0 THEN depth + 1 ELSE depth

\* Where the stack pointer stands after the call, when the saved registers are
\* taken from there: above its place the words go on with the caller's.
call_elf32_thunk(skew) ==
    LET pushed == Len(Callee) + 3
    IN  Aligned(pushed, skew) - 3

\* The other thunk goes back to where rbp was saved instead.
call_compat64_thunk == 1

\* What is popped from a depth: the registers saved there, the return address at
\* depth 0, and words of the caller.
WordAt(depth) ==
    IF depth \in 1 .. Len(Callee) THEN Callee[depth]
    ELSE IF depth = 0 THEN "return" ELSE "other"

thunk_returns(depth) ==
    [registers |-> [i \in 1 .. Len(Callee) |-> WordAt(depth - Len(Callee) + i)],
     to |-> WordAt(depth - Len(Callee))]

-----------------------------------------------------------------------------
(* The boot information. *)

Field(name, size) == [name |-> name, size |-> size]
Dwords(names) == [i \in DOMAIN names |-> Field(names[i], 4)]

\* struct multiboot, and the labels of mbi in itdo.asm under the same names.
multiboot ==
    Dwords(<<"flags", "mem_lower", "mem_upper", "boot_device", "cmdline", "mods_count">>)
      \o <<Field("mods_addr", 8)>> \o Dwords(<<"num", "size", "addr", "shndx", "mmap_length">>)
      \o <<Field("mmap_addr", 8)>>
      \o Dwords(<<"drives_length", "drives_addr", "config_table", "boot_loader_name",
                 "apm_table", "vbe_control_info", "vbe_mode_info">>)
      \o <<Field("vbe", 8), Field("framebuffer_addr", 8)>>
      \o Dwords(<<"framebuffer_pitch", "framebuffer_width", "framebuffer_height">>)
      \o <<Field("framebuffer_bpp", 1), Field("framebuffer_type", 1), Field("color_info", 6)>>

mbi ==
    Dwords(<<"flags", "mem_lower", "mem_upper", "boot_device", "cmdline", "mods_count">>)
      \o <<Field("mods_addr", 8), Field("syms", 16)>> \o Dwords(<<"mmap_length">>)
      \o <<Field("mmap_addr", 8)>>
      \o Dwords(<<"drives_length", "drives_addr", "config_table", "boot_loader_name",
                 "apm_table", "vbe_control_info", "vbe_mode_info">>)
      \o <<Field("vbe", 8), Field("framebuffer_addr", 8)>>
      \o Dwords(<<"framebuffer_pitch", "framebuffer_width", "framebuffer_height">>)
      \o <<Field("framebuffer_bpp", 1), Field("framebuffer_type", 1), Field("color_info", 6)>>

\* What some fields from the first on take up, and where a field begins.
SizeOf(layout, fields) ==
    LET size[n \in 0 .. fields] == IF n = 0 THEN 0 ELSE size[n - 1] + layout[n].size
    IN  size[fields]

OffsetOf(layout, name) ==
    SizeOf(layout, (CHOOSE i \in DOMAIN layout : layout[i].name = name) - 1)

\* bridge_framebuffer(): what main() and the splash know of the screen.
bridge_framebuffer(resp) ==
    IF resp.count = 0 \/ ~resp.address THEN [addr |-> 0, flag |-> FALSE, bpp |-> 0, mbi_bpp |-> 0]
    ELSE [addr |-> 1, flag |-> TRUE, bpp |-> resp.bpp, mbi_bpp |-> resp.bpp % 256]

Null == 0

\* bridge_modules(): the modules of the loader in front, without the gaps.
bridge_modules(list) ==
    LET count == Min({Len(list), MaxMods})
        mods[n \in 0 .. count] ==
          IF n = 0 THEN << >>
          ELSE IF list[n] = Null THEN mods[n - 1] ELSE Append(mods[n - 1], list[n])
    IN  mods[count]

\* main() stops without a module and takes the first for the ramdisk.
initrd_location(mods) == IF mods = << >> THEN Null ELSE mods[1]

-----------------------------------------------------------------------------
(* The splash: runs of cells of four bytes, from a byte of the framebuffer. *)

Run(m, x, y, n) == [at |-> y * m.pitch + x * 4, cells |-> n]

BoxX(m) == (m.w - 400) \div 2
BoxY(m) == (m.h - 160) \div 2

Segment(i) == (i * 300) \div 8
BarX(m, i) == (m.w - 300) \div 2 + Segment(i)

boot_splash(m) ==
    {Run(m, 0, y, m.w) : y \in 0 .. m.h - 1}
      \cup {Run(m, BoxX(m) + 1, BoxY(m) + 4 + y, 400) : y \in 0 .. 159}
      \cup {Run(m, BoxX(m), BoxY(m) + y, 400) : y \in 0 .. 159}
      \cup {Run(m, BoxX(m) + 160 + 9 * c, BoxY(m) + 72 + y, 8) : c \in 0 .. 9, y \in 0 .. 15}
      \cup {Run(m, BarX(m, i), m.h - 28 + y, Segment(i + 1) - Segment(i)) :
              i \in 0 .. 7, y \in 0 .. 12}

\* fb_fill() of main.c.
fb_fill(m) == {Run(m, 0, y, m.w) : y \in 0 .. m.h - 1}

-----------------------------------------------------------------------------
(* The page tables of boot.asm, in units of their pages of 2 MiB: one entry  *)
(* at the top, four tables, 2048 pages.                                      *)

PdPerTable == 512
TablePages == 0 .. 2047
link_pd == [i \in 0 .. 3 |-> i]
map_2mb == [k \in TablePages |-> k]

\* How the processor walks them, external: the tables lie one behind the other.
Translated(page) ==
    map_2mb[link_pd[page \div PdPerTable] * PdPerTable + (page % PdPerTable)]

-----------------------------------------------------------------------------
(* The calls. *)

Vectors == (0 .. 47) \ {17, 21, 29, 30}

Interrupt ==
    \E v \in Vectors :
      LET stack == common_stub(v)
      IN  Invoked([fn |-> "interrupt"],
                  [seen |-> stack, registers |-> stub_returns(stack), left |-> AfterStub(stack)])

CallElf32 == \E skew \in 0 .. 1 :
    Invoked([fn |-> "elf32", skew |-> skew], thunk_returns(call_elf32_thunk(skew)))

CallCompat64 == Invoked([fn |-> "compat64"], thunk_returns(call_compat64_thunk))

limine_boot_init ==
    \E count \in 0 .. 1, address \in BOOLEAN, bpp \in {16, 24, 32}, list \in ModLists :
      Invoked([fn |-> "bridge", list |-> list],
              [fb |-> bridge_framebuffer([count |-> count, address |-> address, bpp |-> bpp]),
               mods |-> bridge_modules(list),
               initrd |-> initrd_location(bridge_modules(list))])

Splash == \E m \in Modes : Invoked([fn |-> "splash", mode |-> m], boot_splash(m) \cup fb_fill(m))

Walk == \E page \in TablePages : Invoked([fn |-> "walk", page |-> page], Translated(page))

BootNext == Interrupt \/ CallElf32 \/ CallCompat64 \/ limine_boot_init \/ Splash \/ Walk

-----------------------------------------------------------------------------
(* Properties. *)

\* A handler finds every register where registers_t says, whether or not the
\* processor has pushed an error code, and the interrupted code goes on with
\* its own registers at the place it was interrupted.
FramesExact ==
    Called("interrupt") =>
        /\ answer.seen = registers_t
        /\ \A r \in DOMAIN answer.registers : answer.registers[r] = r
        /\ answer.left = <<"rip", "cs", "rflags", "rsp", "ss">>

\* The thunk of ELF programs gives its caller back what it has saved if the
\* caller keeps the stack aligned.  call_compat64_thunk never does: it returns
\* into the words above its own frame.
ThunksReturn ==
    Called("elf32") /\ call.skew = 0 => answer.registers = Callee /\ answer.to = "return"

\* The kernel finds the boot information where the boot code has left room for
\* it, the first module is the ramdisk unless there is none, and no module is
\* written behind the room for them.
BootInformed ==
    Called("bridge") =>
        /\ SizeOf(mbi, Len(mbi)) = SizeOf(multiboot, Len(multiboot))
        /\ \A f \in ToSet(multiboot) :
             f.name \notin {"num", "size", "addr", "shndx"} =>
               OffsetOf(mbi, f.name) = OffsetOf(multiboot, f.name)
        /\ answer.fb.flag <=> answer.fb.addr # 0
        /\ answer.fb.bpp = answer.fb.mbi_bpp
        /\ Len(answer.mods) <= ModRoom
        /\ answer.initrd = Null <=>
             \A i \in 1 .. Min({Len(call.list), MaxMods}) : call.list[i] = Null

\* The splash writes within the framebuffer, and its bar has no gaps.
SplashInside ==
    Called("splash") =>
        LET m == call.mode
        IN  /\ \A r \in answer : r.at >= 0 /\ r.at + 4 * r.cells <= m.h * m.pitch
            /\ \A i \in 0 .. 6 : BarX(m, i) + (Segment(i + 1) - Segment(i)) = BarX(m, i + 1)

\* The older boot code maps each of the first 4 GiB to itself.
IdentityMapped == Called("walk") => answer = call.page

BootExact == FramesExact /\ ThunksReturn /\ BootInformed /\ SplashInside /\ IdentityMapped

=============================================================================
