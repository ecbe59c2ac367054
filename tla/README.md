# Formal models of ArtyomX64

TLA+ models of the ArtyomX64 kernel (`src/`): a hobby x86-64 kernel booted by
Limine, with a cooperative task scheduler, a page allocator, a heap, a ramdisk,
PS/2 and USB input, loaders for three program formats and a windowing desktop whose
compositor is the root task. Every definition is translated from the C and assembly
code; line numbers below refer to it. `PROJECT.json` maps each definition to its
lines.

1. [The system](#1-the-system)
2. [The modules](#2-the-modules)
3. [The runs](#3-the-runs)
4. [Fairness](#4-fairness)
5. [The proofs](#5-the-proofs)
6. [Disagreements with comments and headers](#6-disagreements-with-comments-and-headers)
7. [Met while modelling](#7-met-while-modelling)
8. [Not modelled](#8-not-modelled)
9. [Plan](#9-plan)

## 1. The system

`kernel/main.c` is a straight line: descriptor tables, USB, system calls, page
allocator, heap, ramdisk, interrupts, `initTasking()`, and then `axshell_main()`,
which never returns. From there on the machine is driven by three things: the
tasks, of which one runs at a time and gives up the CPU only in `yield()` and
`task_exit()`; the interrupt handlers of keyboard and mouse, which run between
any two instructions but touch only their own buffers and the text screen; and the
USB host controller, which reads and writes descriptors in memory by itself.

| component | state | operations | interacts with |
|---|---|---|---|
| task scheduler, `fs/task.c`, `fs/switch.S` | `tasks[16]`, ring of live tasks, `runningTask`, `task_count`, `next_pid` | `task_spawn`, `yield`, `task_exit`, `initTasking` | takes stacks from the heap; called by the compositor and through `int 0x80` |
| page allocator, `mm/pmm.c` | bitmap, `pmm_highest_page`, `pmm_free_count`, `pmm_last_hint` | `pmm_init`, `pmm_alloc_pages`, `pmm_free_pages` | reads the bridged memory map; its only client is the heap |
| boot bridge, `boot/limine_boot.c`, `boot/itdo.asm` | the boot information | bridges of the memory map, the modules and the framebuffer; the splash | page allocator, ramdisk, graphics |
| heap, `mm/kheap.c` | list of arenas, chains of block headers | `kmalloc`, `kfree`, `kcalloc`, `krealloc` | takes arenas from the page allocator; used by everything else |
| window manager, `kernel/axshell.c` | table of surfaces, focus, stacking (`z`), event rings, menus, mouse buttons, wallpaper, clock, saved background of the pointer | one frame of the main loop; `ax_syscall_surface`, `_poll`, `_commit` | canvases from the heap, mouse from the drivers, events to applications |
| desktop, `kernel/axshell.c`, `apps/` | `app_entry_ptr`, the programs and where the root task is | launch, frame, event loops | scheduler and window manager |
| applications, `apps/` | what was typed and clicked | calculator, notes, shell, file window | window system calls |
| system calls, `lib/syscalls.c`, `lib/unistd.h`, `lib/libax.h` | `files[16384]`, `current_fd` | `open`, `read`, `write`, `getdents`, `unlink`, `exec`; wrappers and tables | file system switch, ramdisk, scheduler, window manager |
| ramdisk, `fs/initrd.c`, `fs/fs.c` | nodes and file headers | lookup, read, readdir, remove, move | descriptors, launcher |
| loaders, `fs/loader.c`, `kernel/compat.c` | the buffer of the program | ELF of 32 and 64 bits, Mach-O, relocations, patching | heap, ramdisk, launcher |
| personalities, `kernel/compat.c`, `kernel/asm/` | program break | tables of Linux and Darwin calls, thunks | heap, keyboard |
| interrupts, `kernel/descriptor_tables.c`, `kernel/isr.c`, `kernel/asm/interrupt.asm` | tables, masks, handlers | entry, dispatch, end of interrupt | every driver |
| keyboard, `drivers/keyboard.c` | ring of 256 keys and its counter | interrupt handler, `keyboard_read` | blocking read of `kernel/compat.c` |
| mouse, `drivers/mouse.c` | packet under assembly, deltas, cursor | interrupt handler, `handle_mouse` | compositor; shares the deltas with USB |
| USB, `drivers/usb/`, `drivers/usb_hid_mouse.c` | descriptor pools, queue heads, data toggles, devices, mouse endpoint | port reset, enumeration, control and interrupt transfers, polling | host controller (hardware), mouse deltas |
| PCI, `drivers/pci.c` | configuration space (hardware) | reads, writes, search for a class | USB |
| text screen, `drivers/monitor.c` | video memory, cursor | put, backspace, scroll | kernel messages and the keyboard echo |
| graphics, `lib/gfxlib.c`, `drivers/framebuffer.c` | back buffer, framebuffer | drawing routines, presentation | compositor |
| C library, `lib/libc.c` | | strings, memory, numbers, `printf` | everything |
| device table, `fs/dev.c`; legacy heap, `mm/malloc.c` | table of devices; chain of blocks | register, unregister, find; `malloc`, `free`, `realloc` | neither is linked at this commit |

What makes each part hard, and what correctness means there:

* **Scheduler.** The exiting task frees the stack it still runs on; slots are
  reused; `task_exit()` jumps into a context without saving its own; the scan for
  the next task must not starve anybody. Correct: contexts are never mixed up, the
  table, ring and counter agree, stacks neither leak nor are shared, pids are not
  reused, every READY task runs within a bounded number of switches.
* **Page allocator.** Regions are rounded, unsorted, overlapping, of odd size or
  beyond the bitmap; two counters are kept apart from the bitmap; the search is a
  next-fit in two passes around a hint. Correct: a page is clear exactly when it
  is usable and nobody holds it, counters are exact, no page is granted twice, and
  a search fails only when there is nothing to find.
* **Heap.** Splitting and merging over several arenas; `krealloc` holds two blocks
  at once. Correct: payloads never overlap, chains cover the arenas in both
  directions, no two free neighbours, nothing leaks.
* **Window manager.** Three ways to close a window with code of their own; focus
  repaired in a different function; gestures that a menu may swallow; bounded event
  rings; slots reused; a clock read while it ticks; a fade that three menus may
  restart. Correct: canvases are freed once, there is one stacking order, the focus
  is where the screen says, gestures end with the button, events reach the window
  they were meant for, in order; a click picks what is drawn there.
* **Desktop.** A program is launched through a global variable that the new task
  reads when it first runs; programs may or may not yield; windows die before
  their programs. Correct: the program asked for is the one that starts; the
  compositor keeps getting the CPU.
* **Descriptors and ramdisk.** One table for all programs, numbering that starts anew
  with every `exec()`, nodes erased in place under open files. Correct: an open file is
  never overwritten, a descriptor gives its program the whole file once, the end is
  reported at the end.
* **Loaders.** The buffer is sized from the segments while they are placed from a
  rounded address; the Mach-O buffer grows while it is filled. Correct: every byte of
  the file lands where the image wants it, nothing outside the buffer is written.
* **Mouse and keyboard.** Two interrupt handlers share a data port; the mouse's
  deltas are written by a handler, by the USB poll and by their reader; the ring of
  keys has a counter beside its indices that both sides change. Correct: the packet
  cycle keeps step with the reports, motion is counted once, keys arrive in order.
* **USB.** The host controller works on descriptors in memory while the driver times
  out, unlinks and reuses them. Correct: the stages of a transfer have descriptors of
  their own, no queue points at a freed one, the toggles of both ends agree, addresses
  are unique, the polled endpoint is the mouse's.
* **Interrupts.** They are raised while the tables are still being filled, and ended
  twice by one handler. Correct: each reaches its handler, no line stays in service.
* **What a compiler does not check.** Frames of interrupts, boot information, numbers
  and parameters of system calls, halves of PCI registers: assembly, hardware and C
  agree by convention only.

The list of hazards, each with the line where it bites and the property that
covers it, is in `PROJECT.json` under `hazards`.

## 2. The modules

Modules with a state of their own:

| module | models | abstract specification |
|---|---|---|
| `Scheduler` | `fs/task.c`, `fs/switch.S` | |
| `Pmm` | `mm/pmm.c`, memory map of `boot/limine_boot.c` | implements `PageAllocator` |
| `Kheap` | `mm/kheap.c` | implements `Heap`; takes pages by the actions of `PageAllocator` |
| `Windows` | window manager of `kernel/axshell.c` | implements `WindowServer` |
| `Wallpaper`, `Cursor`, `Clock` | menus and wallpaper, pointer, clock of `kernel/axshell.c` | |
| `Desktop` | main loop and launcher of `kernel/axshell.c`, event loops of `apps/` | composed with `Scheduler` (INSTANCE) |
| `Files` | `lib/syscalls.c`, `fs/fs.c`, `fs/initrd.c` | |
| `Mouse` | `drivers/mouse.c`, poll of `drivers/usb_hid_mouse.c`, port and interrupts shared with the keyboard | |
| `Keyboard` | `drivers/keyboard.c`, `sys_read_compat()` of `kernel/compat.c` | |
| `HostController` | transfers of `drivers/usb/uhci.c` and `ehci.c`, with the controller as an actor | |
| `UsbCore` | `drivers/usb/usb_core.c`, attachment in `drivers/usb_hid_mouse.c` | |
| `Interrupts` | `kernel/main.c`, `kernel/descriptor_tables.c`, `irq_handler()`, with the two interrupt controllers | |
| `Console` | `drivers/monitor.c` | |
| `Malloc` | `mm/malloc.c` | |
| `Dev` | `fs/dev.c` | |

Functions that keep nothing between calls: `Invocation` has one variable, the call
that was made with its answer, and each of these modules an action per function:

| module | models |
|---|---|
| `Gfx` | `lib/gfxlib.c`, `drivers/framebuffer.c`: cells written; colours, gradients, blur, sines |
| `Strings`, `Printing` | `lib/libc.c` and the numbers of `drivers/monitor.c` |
| `Loader` | `fs/loader.c`, Mach-O and patching of `kernel/compat.c` |
| `Layout` | where `kernel/axshell.c` draws and where it takes clicks; calendar; pictures |
| `Boot` | frames of `kernel/asm/interrupt.asm`, thunks of `kernel/asm/`, bridges of `boot/limine_boot.c`, splash of `boot/itdo.asm`, page tables of `boot/boot.asm` |
| `Pci` | `drivers/pci.c` |
| `SystemCalls` | wrappers of `lib/unistd.h` and `lib/libax.h` against the tables of `lib/syscalls.c` and `kernel/compat.c`; `write`, `brk` and `mmap` of the personalities; the loop of `read()` |
| `Boundaries` | `Boot`, `Pci` and `SystemCalls` together: what the C code meets that no compiler checks against it |
| `Applications` | `apps/calc.c`, `notes.c`, `xsh.c`, `files.c` (extends `Printing` and `Layout`) |

`SchedulerProofs`, `PmmProofs`, `KheapProofs` and `WindowsProofs` hold the theorems of
one module each. `DesktopProofs` is about `Desktop` and about the pictures of `Gfx` and
`Layout`. `FilesProofs` is about `Files` and `Loader`, which are
what `src/fs/` does with files; `DriverProofs` about `Mouse`, `Keyboard`, `Console`,
`Wallpaper`, `Cursor` and `Interrupts`; `DevicesProofs` about `HostController`,
`UsbCore`, `Clock`, `Dev` and `Malloc`, and holds the lemmas these share. The `MC*`
modules are the small instances.

Operators whose comment starts with *Faulty variant* are wrong on purpose: put in
place of the definition whose name they extend, they break one of the properties,
which shows that the property depends on that piece of code. No specification
uses them.

**Scheduler.** A slot's fields are functions over `Slot`. A register file is
abstracted to the pid of the task whose execution it would resume, so
`switchTask(old, new)` is `SwitchFrom`: the outgoing slot gets what the processor
holds, the processor gets what the incoming slot holds. A stack is the heap block
it lives in. `Picks` states what `pick_next_ready()` returns by the distance of the
scan; `task_exit` is one step from the release of the stack to the switch, because
nothing can run in between that allocates.

**Pmm.** `init_entry` is one turn of the loop of `pmm_init()`, `init_done` its end.
`Covered` and `highest` round the way the code does, outwards and downwards, which
is why the exactness of the counters is not obvious. `Finds` states the result of
both passes of the search. Clients are the set of pages they hold.

**Kheap.** Blocks are headers at addresses; `split_block`, `Absorb`, `Merge`,
`Release` are functions on the header map in the order of the code (next block
first, then previous). `krealloc_Move` allocates, copies and frees in one step.
The page allocator is abstract: any run of pages of the right length may be
granted, none need be.

**Windows.** The surface table is one record so that the steps of a frame compose
as functions on it. A frame is one action per way through `process_input()`,
including the early returns; every one ends with `Compose`, the repair of the
focus, and with the button state the next frame compares with. Geometry is
abstracted to the set of windows under the cursor, chosen anew in every frame; the
geometry itself is in `Layout`, the title included, which `draw_titlebar()` centres
whether it fits or not.

**Wallpaper, Cursor, Clock.** A frame of `Wallpaper` takes at most one click on a
menu, draws, and ticks. `Cursor` keeps what `draw_cursor()` saved beside a scene that
`compose()` may have changed. `Clock` reads register by register while seconds pass.

**Desktop.** The root task goes through `input`, `launch` and the two yields of a
frame. A task runs a wrapper that reads `app_entry_ptr` (launch from the dock) or
its program directly (`exec`). What may be asked for is of four kinds: an event loop
that yields (`notes.c`), one that does not (`calc.c`, `files.c`), a program that ends
(`hello.c`), and a file that is no ELF image. `hello.c` can only end once descriptor 0 can
be read, which nothing opens at this commit; a program that ends is an
over-approximation. A file that is no image stops the machine: `is_image_valid()` asserts
(`fs/loader.c:18-21`), and `panic_assert()` turns interrupts off and loops for ever
(`halted`, as after a `task_exit()` with nobody to switch to). A file that is missing,
empty, or an image without memory for its segments makes the launch return.

**Files.** One table of open files for all programs. Calls run to their end before
another task gets the CPU, so each is one step; what interleaves is calls of
different programs. `mine`, `wiped`, `ended` and `cramped` are history: what each
program got through each descriptor, which descriptors `exec()` cleared, which last calls
reported the end, and which had no room for anything: 0 bytes for `read()`, less than one
entry for `getdents()`, which both answer with 0, as at the end. `files[fd]` being `NULL`
is `NotOpen`; `getdents_fault` is the dereference `getdents()` makes of it, and
`exec_panics` the assertion a file that is no image fails. Nothing happens after either
(`faulted`). `unlink` removes every node of the name that the loop of `initrd_remove()`
reaches while the list it goes through gets shorter (`Removed`).

**Mouse.** The root task is split where it reads and writes `mouse_dx`; an interrupt
may come between any two of these steps and runs to its end, but bytes may reach the
port between the entry of a handler and its look at the port. `irq` holds requests,
which outlive the byte that made them: `mouse_install()` reads two answers with
interrupts off and may leave a request behind. `mixed` records that a handler took a
byte of the other device, which the code does not prevent (it does not look at bit 5
of the status); `lost` is the motion of reports that complete while the root task is
about to overwrite `mouse_dx`. The other axis is left out; what the keyboard does
with a key is in `Keyboard`.

**Keyboard.** `keyboard_read()` is split at each of its accesses to the ring, and so is
`sys_read_compat()` around it; a key may come between any two steps. The decrement of
`buffer_count` may or may not see the handler's increment, as the compiler decides.
`crossed` records that an interrupt changed the ring in the middle of a call, after
which the counter may be wrong for ever.

**HostController.** A transfer takes descriptors, fills them, queues them, looks a
bounded number of times, judges and frees; between any two of these steps the
controller may fetch the head of the queue, or write the outcome of what it has
fetched. `running.stale` marks a descriptor the driver has given up in between,
`lateWritten` those written all the same. UHCI and EHCI differ in what they do when the
device has no data.

**UsbCore.** Each request succeeds, or fails with or without the device having
followed it; configurations are all short sequences of descriptors that differ for
the parser.

**Interrupts.** `main()` in stages; a line is raised at any time, passes mask,
priority and flag, and its handler runs from the end of interrupt to the return.

**Console, Malloc, Dev.** The screen is compared with a sheet without end; the chain
of the legacy heap with the range it has to tile; the listing of the devices with
what a look-up finds.

## 3. The runs

| run | specification | bounds | shows |
|---|---|---|---|
| `scheduler` | fair | 4 slots, 3 stacks, pids to 8 | `ContextsExact`, `TableExact`, `NoResurrection`, `EverCloser`, and `Scheduled`: every READY task runs |
| `pmm` | | 9 pages of 2 units, 6 maps, runs to 3 pages | `BitmapExact`, `CountersExact`, `MissesOnlyStraddling`, and `Refinement` of `PageAllocator` |
| `kheap` | | 2 pages of 26 units, requests of 1, 7, 22 | `HeapExact`, `Coalesced`, `CopyFits`, and `Refinement` of `Heap` |
| `windows` | | 2 windows, rings of 3 slots, 2 canvases | `CanvasesExact`, `FrontExact`, `GesturesEnd`, and `Refinement` of `WindowServer` |
| `desktop` | fair | 4 slots, 3 stacks, 3 canvases, pids to 4, a program of each kind | `LaunchedAsAsked`, and `InputServed`: the compositor gets the CPU |
| `files` | | 2 programs, 4 files, two of one name, 6 slots, 3 descriptors held; requests of 0, 1 and 3 bytes and of 0 and 2 entries | `TableDense`, `OwnDescriptors`, `EndMeansAll` |
| `devices` | fair | one of eleven machines at a time, see below | the drivers and the parts of the desktop with a state |
| `library` | | each function called once on each of its bounded inputs | `PicturesExact`, `TextExact`, `LoadsExact`, `MachineExact` |
| `pmm_kernel_image` | | 7 pages, 2 maps with a kernel entry | violation: pages of the kernel image are handed out |
| `desktop_canvas` | | 3 slots, 2 canvases | violation: programs draw in canvases that were freed |
| `files_exec` | | as `files` | violation: `exec()` clears the descriptors of the programs that run |
| `usb_setup` | | as `devices` | violation: the stages of a control transfer share one descriptor |

`devices` chooses in its initial state which machine runs. The machines share no
variable, so that their product would show nothing more:

| machine | bounds | properties |
|---|---|---|
| mouse | 3 reports of motion -1 or 2, 1 key, a screen of 4 | `Framed`, `MotionKept` |
| keyboard | 5 presses of 2 characters, backspace or Enter; a ring of 3; lines of 4 | `KeysInOrder` |
| host | 3 descriptors, 2 looks, both controllers and none | `UsbExact` (its half `TransfersExact`), `TransfersReturn` |
| core | 3 ports, configurations of up to 3 descriptors | `UsbExact` (its half `EnumerationRight`) |
| interrupts | each line raised twice | `DriversMeetInterrupts`, `InterruptsServed` |
| malloc | 16 units, headers of 2, sizes of 1 to 15 | `ChainTiles` |
| console | a screen of 4 by 2, 6 characters | `ConsoleTrue` |
| clock | from second 150 on for 40 seconds, registers that overflow at 12, 2, 2, 2, 2, 3 | `NeverBehind` |
| cursor | a screen of 4, a pointer of 2 with an arrow of 1 | `StaleAtPointer` |
| wallpaper | 3 photos, a show of 4 frames, fades of 3 steps, 4 clicks | `MenusAndPhotos`, `FadeEnds` |
| devices | 3 devices, two of the same name, in a table of 2 | `ListedIsFound` |

`library` compares each answer with what is wanted of it: the cells drawn with the
figure asked for and the screen, a channel with the two it is mixed from, memory after
a copy with the bytes before it, digits with the number, the memory of a loaded
program with its segments, what a click picks with what is drawn below it, the frame
an interrupt leaves with the structure the C code reads, the parameters a system call
arrives with with those its function takes, the number on the calculator with
arithmetic, the scrollback of the shell with the words of the line. Its inputs are
small memories and lists taken whole (all memories of 5 bytes over two letters, all
lists of up to 4 keys, up to 4 modules) and numbers on both sides of each boundary of
the code (-1, 0, one, the last, one beyond). One call reaches each state, since there
is nothing a second call could find changed. Where the code is known to differ from what
a comment says of it, the property claims only what both agree on, and the difference is
named in section 6: of `strcpy()` the bytes it copies, and the string only where a zero was
there before; of a directive with a length the numbers that fit an int; of `strcmp()` that
0 means equal, not the sign.

Why the bounds are enough. Four slots let a table be full, let a slot in the middle
of the ring be freed and reused, and put two tasks between the running one and a
waiting one; three stacks fill it exactly. Pids to 8 allow five reuses. The page
maps cover no map at all, page 0 in a region, odd holes, unsorted and adjacent
regions, a region beyond the bitmap and more entries than are bridged; nine pages
with runs of three fragment in every way a first fit can. Two heap pages may be
two arenas or one arena of two pages, adjacent or not; a page of 26 units holds
three blocks with a rest too small to split. Two windows are enough for stacking,
focus change, and a close that leaves one window; with three the states grow by a
factor of several hundred. The files are `txt`, a program, `pts`, which `exec()` opens
if it is there, another `txt`, which is found when the first is gone and removed with it,
and `hi`, which a removal of another file cuts off; asked for as a program, `pts` stops
the machine. Three descriptors let two programs hold two of them before an
`exec()` and one after, under the same number or another. Three mouse reports
let a PS/2 packet follow another and a USB report fall in between; a motion of 2 on a
screen of 4 leaves it on both sides. A ring of 3 holds two events or keys, so it can be
empty, partly full and full. Of three transfer descriptors late answers may
spoil some, or all, while others are free. Three ports let a
failed enumeration leave its device behind for the next one to collide with and a third
to follow. A screen of 4 by 2 wraps, scrolls and has a tab stop inside. Sixteen heap
units hold three blocks and the header of an expansion. Limits that are not the
program's own are marked *bound of the model* where they are declared.

## 4. Fairness

Tasks are cooperative: nothing preempts them. `Scheduler!FairSpec` assumes weak
fairness of "the running task yields or exits", which is the rule `fs/task.c:20-25`
imposes on every task; without it nothing is scheduled and the code promises
nothing. `Desktop!FairSpec` does not assume that rule. It assumes that the root task
goes on (`axshell_main()` is an endless loop, and `hlt` ends with the next
interrupt), and that each program gets on with its own loop; whether a program
yields is given by its kind, taken from its source. `InputServed` is therefore
conditional: the compositor takes its input again and again *if* no program that
never yields gets the CPU and the machine is never halted, which a request for a file
that is no ELF image does. Such programs exist: `calc.c:92-111` and
`files.c:49-67`.

`DevicesSpec` assumes weak fairness of three things. The driver of the host controller
takes its next step while a transfer is under way: it polls in a loop on the only
processor. Nothing is assumed of the controller, which may never answer:
`TransfersReturn` rests on the bounded number of looks. The processor takes its next
step in `main()` or in a handler, and takes a request that it lets in:
`InterruptsServed`. The compositor draws frame after frame: `FadeEnds`, that a fade is
over again and again however the menus are clicked, which holds because the clicks of
the model end.

## 5. The proofs

`tlapm` checks all of it for every value of the constants that satisfies the
assumptions stated in the modules.

**SchedulerProofs.** The properties are not inductive as they stand. `RingInOrder`
relates links, pids and liveness; that it survives an insertion needs that the new
pid is larger than all live ones, and a removal needs that neighbours are live. The
inductive invariant is the conjunction `TypeOK`, `OneRunning`, `CountIsLive`,
`PidsUnique`, `ContextOwned`, `StacksOwned`, `RingInOrder`; each action has a step
for each conjunct it can disturb. From it follow `NoResurrection` and `EverCloser`
as action properties: the scan distance from the CPU to a waiting task strictly
decreases with every switch that does not choose it, and is less than the number of
slots.

**PmmProofs.** The inductive invariant ties bitmap, pool and clients together while
booting as well (`used` after `pos` entries is what the first `pos` entries free),
and bounds the hint by `highest`. Single page completeness needs a minimum of a set
of pages, taken from well-foundedness of the naturals. `AllocOnlyCompleteness` uses
a further invariant of a heap that never returns pages: nothing free lies before the
hint that a request could have used. The refinement maps every step of the bitmap to
a grant, a return or a stutter. `CountersTellTheTruth` has a condition the runs meet
and the code does not check: every usable region ends at a page boundary
(`WholePages`). Otherwise `mark_region()` frees a last page that `pmm_highest_page`,
rounded down, leaves out, and the free page lies beyond what is counted.

**KheapProofs.** That the headers are right is stated of any table of blocks and any
set of arenas (`Right(bs, ar)`): every block ends where the next one begins, and
neighbours name each other. `split_block()`, the used mark, the merge in `kfree()` and
a new arena each keep it, as lemmas about a table; that each of the allocator's
calls, which are several of these in a row, keeps it follows. A new arena is apart from
the others because the page allocator never grants a page twice. The inductive
invariant adds that no two free blocks are neighbours (`Packed`), that every holder has
a used block of its own, long enough for what it asked for (`HeldRight`), and that the
arenas are within the granted pages (`Placed`). `CopyFits` follows from `HeldRight`. The
refinement maps the used blocks to the live payloads of `Heap`: a split, a merge and a
mark together give or take exactly one of them.

**WindowsProofs.** Most steps apply several operations to the surface table in a row,
so the properties are stated of a table `d`, and every operation is shown to keep
`Sound(d)`: the types, one canvas per window, one order of stacking, the active window
in front. Between two operations the active window may be missing or minimized;
`compose()` repairs it, and that there is a front window to choose is shown by counting
the windows behind. `GesturesEnd` is inductive, as nothing new follows the mouse but
by a press. For the refinement an operation only closes windows or appends to queues
(`Grown`), and the inbox of a window is found by its canvas, which it keeps.

**DesktopProofs.** `LaunchedAsAsked` is about the order of the scan. A task that has
not started was launched in this frame, with `app_entry_ptr` as it still is, and the
CPU is at the root task or at a slot not above it (`InTurn`). The scan goes up the
table, so whoever gives up the CPU hands it to a slot between its own and that task's,
and never to the root task, which alone sets the pointer. What is needed of the
scheduler (one task runs, the root task lives, `task_count` is right) is shown again
for the actions of `Desktop`, because the assumptions of an instantiated module are
not at hand.

`PicturesAreExact` is about calls: `PicturesSpec` makes any call of `Gfx` and `Layout`
with any of its inputs, and `PicturesExact` must hold of the call and its answer. There
is one lemma per routine and one step per action; after a call the conjuncts about the
others have nothing to say (`Quiet`). What is filled, the glass, the text and the blits come down
to one fact about a length that is cut at both ends of the screen (`ClippedIs`) and one about
words: that of a cell on the screen lies in the buffer (`WordOnScreen`). The words a
text writes are found from the line breaks before each character (`Column`), because the
loop that places them is a recursion. A line is a walk of as many steps as its longer
side has. Its error says how far it is from the exact line and stays below that side
(`WalkStays`), which after the last step leaves only one place: the end that was asked
for (`WalkIsLine`), where no earlier step has been (`LineEnds`). So the loop ends after as
many points as the line has, and no point is off the exact line by more than half a cell
(`LineIsExact`). A mixture is a weighted mean rounded down, and lies between what was mixed
(`BlendBetween`, `LerpBetween`); the rows of a gradient move towards the lower colour
because their weights grow (`GradientOnwards`). The identities of the sines hold of the
91 entries of the table and of the four quarters it is turned to. The first day of a
month follows from the one before it by the lengths of the months and the days of a year
(`MonthsFollow`), for all of 2000 to 2099. In the dock and the menus, what is picked by dividing
is what is lit by comparing; the difference, a click just above the first row, is part of the
property (`RowsRight`).

**FilesProofs.** `TableDense` is inductive with the types. `OwnDescriptors` needs what
the table cannot tell: each program holds records of what it got, under numbers of the
table (`History`). The descriptors of others are disturbed only by a call that uses the
same number, and who is alone after a step was alone before it, because nobody gives a
descriptor up. For `EndMeansAll` one must add that a listing never goes beyond the end
of a list from which nothing was removed (`ListRight`), and that no call speaks for a
descriptor `exec()` has cleared. The property is about calls that had room for something
(`ended \ cramped`): a buffer too small for the next record gets 0 with entries left, and
so the theorem needs no assumption on what programs ask for. Of `Loader` the state says nothing but with what a call
was made and what it answered (`LoaderInv`), so `LoadsExact` is about what the loops
compute. Of the loop over the segments it is shown turn by turn that the segments seen
so far are in place and everything else is as it was (`RightAfter`): a later segment
does not disturb an earlier one because their areas are apart, and none reaches outside
the buffer because its size has a page for what the load address was rounded down by
(`BufferIsLarge`). For Mach-O the base stays unset until the first segment that is kept,
and while segments ascend all that a larger buffer must take over lies below the one it
is needed for (`MachRight`). The theorem holds for images of any number of segments of
any size, and for a relocation of any type anywhere in its segment; it says no more than
`LoadsExact` does. ELF64 segments must not overlap, those of an ELF32 image must lie in
the size of its file, Mach-O segments must ascend; a relocation is shown to touch its own
word only, and to be right when it is relative in an image that starts at 0. A PC64 is
the distance to where its symbol stands in the file, not in memory.

`MachineTrue` is about `Boundaries`, and again of one call at a time: `MachineInv` keeps
with what inputs it was made and that its answer is that of the function. What the
loops leave is followed turn by turn: the modules that are bridged lie one after the
other in the table of the boot information, and the offset of a field is the sum of the
sizes before it (`SizeOf`); the walk through the page tables finds for every address the
table and the entry that `map_2mb()` filled for it, with `TablePages` entries in each;
after every turn of `read()` what has been got and what is left of the source make up
the source, and as many turns as the kernel finds bytes, and one, are enough for the loop to
end or to go on for nothing; the break moves up with each request. A PCI register is
taken as two halves, or as four bytes, of which `pci_write16()` changes one and leaves
the other: the digits of a number in the base of `ByteValues`. Every slot, number of
functions and kind of device is covered by the search for a class, every number and class by
the tables of the calls.

**DriverProofs.** Six small machines, each with the invariant it takes. `Mouse`:
`MotionKept` is inductive with the types; `Framed` is not, and the invariant says of
every byte of the report under way whether it is still in the mouse, at the port or in
the packet, and that the first of them is a buttons byte wherever it is.
`Keyboard` (`KeyInv`): the counter and the two indices of the ring are never changed
together, so what is true of them depends on where the reader is. `RingInStep` says
it label by label: with a key under way the tail is ahead of the counter by one, and
while the ring is emptied its ends are not where the counter says. All of that stands
under `~crossed`; once an interrupt has changed the ring in the middle of a call the order
and the counter are lost, as they are in the code. What is left, and proved of every
interleaving, is that both indices stay in the ring and that the line keeps a place for its
zero (`LineFits`), which holds because the room for a key is tested before it is taken
and nobody else adds to the line. `Console` (`ConsoleInv`): the
screen agrees with an endless sheet shifted by the rows that were scrolled off. In the
middle of a call it is not the screen that follows the sheet but what `Wrapped` would make of
it, and the row that a scroll will bring up must already be blank (`BlankBelow`), which is
what makes it inductive. `Wallpaper`: a mode of pictures is entered only when there are
some, and the index stays below their number. `Cursor`: the box that will be put back is
the one the arrow was last drawn in. `Interrupts`: they are let in when `main()` has
done everything else, and what is in service is what the running handler has not yet
ended.

**DevicesProofs.** `HostController` (`HostInv`): the stages of a transfer share one
descriptor, so no descriptor ever leads to another; every descriptor that is not free
is that of the transfer under way or was written late. The toggles of driver and device
differ only between the device's step and the driver's look, or after a late
completion. `UsbCore` (`CoreInv`): the addresses in use are below
`next_free_address`; while a port is being enumerated its device alone is at address
0; and the devices recorded so far are on ports already left. That the parser finds the first
endpoint of a mouse interface (`ParsedIsFirst`) is a property of the loop over any sequence of
descriptors. `UsbIsExact` joins the two; `UsbCore` extends `HostController` so that it can.
`Clock` (`ClockInv`) counts what a reading would come to if the clock stood still from
now on (`ComesTo`): a second that passes can only raise that, and reading the next
register does not change it. The year register must not wrap around between the start and the
end (`CenturyAssumption`): `ax_time_now()` reads two digits of the year and cannot tell
1999 from 2099. `Dev` (`DevInv`): the names in the table are pairwise different, and its nodes
are those that were registered. `Malloc` (`MallocInv`): the blocks are listed in the order
of their addresses and each ends where the next begins (`Tiled`), and the blocks in use are
those that clients hold (`Held`), as long as the heap was not expanded. A split, a merge with the
block before or behind, and the merge of a whole run in `realloc()` are one lemma: a stretch
of the chain is replaced by blocks that cover the same units (`IsSpliced`). A range that
has room for the first header only begins with an empty block, which is why that part of
`ChainTiles` speaks of larger ranges.

*Loops.* The loops of the parser, the clock, the statistics and `realloc()` are
functions defined by recursion on the number of turns. The induction theorems of the library
take an operator, which the provers cannot instantiate; `UpTo` states induction over
`0 .. n` with a *set* of numbers instead, and `LoopExists` that such a function
exists, for any table of steps. Both rest on the well-foundedness of the naturals.

*Assumptions.* Those beyond the types of the constants are `CenturyAssumption` above;
that a screen has room for the widest menu (`LayoutAssumption`: 386 by 166, where the
smallest buffer is 640 by 480); that no more modules
are bridged than their storage has room for (`BootAssumption`: 250 of 256), that
there is at least one port (`CoreAssumption`), that lines are a whole number of tab
stops (`ConsoleAssumption`), that a header is not larger than the
heap (`MallocAssumption`), and that the ring has room for a key, a line for its zero and
the screen for a character (`RingAssumption`, `LineAssumption`, `ConsoleAssumption`);
`sys_read_compat()` returns at once when it gets no buffer. The constants of the code satisfy
them: 2 ports, a range of megabytes, 256 keys, 80 by 25 characters, 8 to a tab stop.

Out of the prover's reach and only model-checked: liveness (`Scheduled`,
`InputServed`, `TransfersReturn`, `InterruptsServed`, `FadeEnds`), and what a recursive
operator computes: `Printing` declares one, which `Applications` uses, so that
`TextExact` cannot be stated in a module with proofs.

## 6. Disagreements with comments and headers

* The memory map bridge reports `EXECUTABLE_AND_MODULES` as usable
  (`boot/limine_boot.c:75`), so the allocator hands out the pages of the kernel and
  of the ramdisk (`pmm_kernel_image`).
* A window's canvas is freed at the click on its close button, while its program
  goes on drawing in it (`desktop_canvas`); `fs/task.h:69-72` says that is what
  `task_is_alive()` is there to avoid, and nothing calls it.
* `exec()` clears the one table of files all programs share (`files_exec`), where
  `lib/syscalls.c:218-219` speaks of the table of the new process.
* The stages of a control transfer are taken from the pool before any of them is
  marked, so that all are the same descriptor and the SETUP packet is overwritten
  (`usb_setup`).

Three differences of `lib/libc.c` show in a single call and have no run; `TextExact`
claims nothing on either side of them:

* `strcpy()` stops before the zero that ends its source, so what was in the destination
  goes on behind the copy, and it returns nothing; `libc.c:80-81` says that it copies the
  terminated string and returns `dest`.
* `vprintf()` hands the long arguments of `%l` and `%ll` directives, and the `size_t` of
  `%z`, to functions that take an int; the comment at `libc.c:362` says 64 bits.
* `strcmp()` returns 0 or 1 only; `libc.c:58-59` promises -1 as well.

`pmm_alloc_pages()` misses a free run across the hint, although `mm/pmm.c:144` says
"out of memory" of that return. `MissesOnlyStraddling` states exactly this: a request
fails only when every run that is long enough lies across the hint. It is harmless
today: the heap is the only client and never returns pages, and for such clients the
search is proved complete.

## 7. Met while modelling

Plain from the code, so not the subject of a run.

*Tasks and windows.* `calc.c` and `files.c` never yield against the rule of
`fs/task.c:24`; they take the -1 of `ax_poll()` for a closed window as an event.
`term.c:280` loops while `ax_poll() < -1`, which is never true: its commands cannot be
reached. `AX_EV_CLOSE` is pushed to a slot that is released in the same frame and never
arrives; `AX_EV_KEY` is never pushed. Programs of closed windows never end. A minimized
window cannot be shown again. A press below the green button of a window, inside its
content, toggles its size (`kernel/axshell.c:1440`). A click on a window's content
queues two MOUSE events and one for the release; the calculator enters a digit for
each. A title that is wider than its window is drawn beyond both its edges
(`kernel/axshell.c:235`). `DOCK_COUNT` is one larger than the array of dock items. `ax_poll()` and
`ax_commit()` compare the lower 32 bits of canvas addresses. `draw_cursor()` puts back
a background that `compose()` has already replaced. The clock is read without waiting
for its update, and a reading may be ahead by a carry.

*Input.* On a screen wider than 640 pixels the cursor that leaves it on the right goes
to column 639 (`drivers/mouse.c:116`). Coinciding USB descriptors leave a control
transfer without a data stage. A failing enumeration leaves its port enabled at
address 0. Writing half of the PCI command register writes the status register back and
clears its write-one-to-clear bits (`uhci.c:141`, `ehci.c:182`). A slot without a
function 0 is skipped. `if (!tries)` of the EHCI handoff is never true.

*Files.* `files` has 16384 slots, nothing closes one, and `open()` tests neither that
number nor what `malloc()` returns (`lib/syscalls.c:160-166`): enough calls write beyond
the table. `getdents()` answers a buffer too small for the next record with 0, as it does
at the end of the list (`lib/syscalls.c:96`). Asked for a program that is no ELF image,
`exec()` and the launcher halt the machine with an assertion (`fs/loader.c:18`) where they
are written to return an error.

*Boundaries.* Vectors 17, 21, 29 and 30 push an error code the stubs do not expect.
`isr_handler()` says that it returns to the shell and returns to the instruction that
faulted. `call_compat64_thunk` never returns correctly (`compat.asm:24`);
`call_elf32_thunk` does with an aligned stack only. The splash leaves the framebuffer
on screens smaller than 402 by 168. The second and the third attempt of `gfx_init()`
ask for the same 640 by 480, and a partial success leaks a buffer; as the third asks for
what has just been refused, it cannot end with one of its two buffers. `init_timer()` is
never called and `sleep()` never ends.

*Programs and the library.* The buffer of an ELF32 image has the size of its file, and a segment beyond that is
written outside it (`fs/loader.c:259`, `286-287`). `R_X86_64_RELATIVE` is off when the image does
not begin at 0; `R_64` and `GLOB_DAT` are not relocated. `macho_load64()` may copy
beyond the old buffer when it grows it. `compat_exec_buf()` frees the entry point, not
the buffer. `brk` moves its limit along with the break; Darwin's 73 reaches `brk`; the
wrapper `compat_exec` (170) is answered by nobody. `read()` of `unistd.h` waits for
ever at the end of a shorter file without a final newline. `print_int(INT_MIN)` is up
to the compiler. `heap_expand()` of `malloc.c` hands out memory the chain covers
already. Inode numbers repeat after `dev_unregister()`. xsh shows the oldest 25 of its
28 lines; the result of `=` is not carried on to a following operator.

## 8. Not modelled

* Third-party: `limine-binary/`, `boot/limine.h`, the font tables.
* `bridge_misc()` of `boot/limine_boot.c` copies addresses nobody reads.
* The registers that start the USB controllers and reset their ports, but for port
  numbers; `drivers/vga.c`, linked and called by nobody; `common.c`, port input and
  output.
* `write()` on files: no node of the ramdisk has a write callback. `ioctl` and
  `ipc_call` are stubs. `open` and `close` of the personalities and
  `initrd_move()` are reachable only from `kernel/ksh.c`, which nothing starts; of
  that shell the splitting of a line is modelled.
* Of the window manager: icons, labels and the made-up numbers of the system monitor.
  Of the applications: what they draw; `prefs.c` and `test.c` do nothing else.
* The null, zero and random devices of `fs/dev.c`.
* Mach-O images with a segment below an earlier one: its distance from the base would
  wrap around in 64 bits.
* Weak memory and caches: there is one processor, and interrupts are ordered with the
  instructions around them.

## 9. Plan

Done: every component with a state of its own has a module, every module a run, and
every safety property of those runs a theorem; of the functions without a state the
loaders, the machine and the pictures have theirs. What is left is proof about the text,
`TextExact`: its numbers are printed by a recursive operator, which would have to become
a function over the digits first.
