------------------------------ MODULE Desktop ------------------------------
(***************************************************************************)
(* Applications, the compositor's main loop and the scheduler together:    *)
(* how src/kernel/axshell.c launches applications as tasks, what happens   *)
(* to a task when its window closes, and who gets the CPU when.            *)
(*                                                                         *)
(* The root task runs the loop of axshell_main(); every other task runs an *)
(* application, a program of one of the kinds found in src/apps.  Of the   *)
(* windows only which canvases are on the screen is kept: the table of     *)
(* surfaces is in Windows.  A frame pushes AX_EV_CLOSE only to a window it *)
(* releases at once and never pushes AX_EV_KEY, so no application's event  *)
(* loop ever ends.                                                         *)
(***************************************************************************)
EXTENDS Integers, FiniteSets

CONSTANTS
    MaxTasks, Stacks, NoStack, MaxPid,     \* those of Scheduler
    App,          \* the files that may be asked for as programs
    Program,      \* what kind of program each is
    NoApp,        \* no program
    Canvas,       \* the heap blocks a canvas may be
    NoCanvas      \* a NULL canvas

\* A window and an endless event loop that yields; one that does not; a
\* program without a window that ends once it has read its input; a file that
\* is no ELF image at all.
Kind == {"yielding", "hogging", "finishing", "no image"}

ASSUME SlotsAssumption == MaxTasks \in Nat \ {0}
ASSUME AppAssumption == NoApp \notin App /\ Program \in [App -> Kind]
ASSUME CanvasAssumption ==
    NoCanvas \notin Canvas /\ IsFiniteSet(Canvas) /\ Cardinality(Canvas) >= MaxTasks - 1

VARIABLES
    state, pid, regs, stack, nxt, prv, head, running, count, nextPid,
    freeStacks, cpu, halted,               \* those of Scheduler; a panic halts too
    at,           \* where the root task is in its loop
    entry,        \* app_entry_ptr
    launched,     \* the program each task was spawned for
    prog,         \* the program each task runs, once it has started
    ptr,          \* the canvas each task draws in
    open          \* the canvases of the windows

tableVars == <<state, pid, regs, stack, nxt, prv, head, running, count, nextPid,
               freeStacks, cpu>>
schedVars == <<tableVars, halted>>
appVars == <<launched, prog, ptr>>
vars == <<schedVars, at, entry, appVars, open>>

S == INSTANCE Scheduler

Task == S!Slot \ {S!Root}
Place == {"input", "launch", "yield in compose", "yield in loop"}

IsImage(a) == Program[a] # "no image"

\* is_image_valid() asserts that the file is an ELF image, and a failed
\* assertion is the end: interrupts off, an endless loop, nobody runs again.
panic_assert ==
    /\ halted' = TRUE
    /\ UNCHANGED <<tableVars, at, entry, appVars, open>>

-----------------------------------------------------------------------------
(* The root task. *)

InRoot(place) == running = S!Root /\ at = place /\ ~halted

\* update_mouse() and process_input() close some windows, free their canvases
\* and perhaps request a launch.
process_input(closed, next) ==
    /\ InRoot("input")
    /\ open' = open \ closed
    /\ at' = next
    /\ UNCHANGED <<schedVars, entry, appVars>>

\* Slot t gets a task for program a, which starts in the wrapper or in a.
Spawns(t, s, a, start) ==
    /\ S!task_spawn(t, s)
    /\ launched' = [launched EXCEPT ![t] = a]
    /\ prog' = [prog EXCEPT ![t] = start]
    /\ ptr' = [ptr EXCEPT ![t] = NoCanvas]

\* Faulty variant: several requests are served in one frame.
app_trampoline_Queued(a) ==
    /\ InRoot("launch") /\ IsImage(a)
    /\ entry' = a
    /\ \/ \E t \in Task, s \in Stacks : Spawns(t, s, a, NoApp)
       \/ UNCHANGED <<schedVars, appVars>>
    /\ at' \in {"launch", "yield in compose"}
    /\ UNCHANGED open

\* compose() calls app_trampoline(), which may find the task table full or
\* memory exhausted, after it has set app_entry_ptr.
app_trampoline(a) ==
    /\ InRoot("launch") /\ IsImage(a)
    /\ entry' = a
    /\ \/ \E t \in Task, s \in Stacks : Spawns(t, s, a, NoApp)
       \/ UNCHANGED <<schedVars, appVars>>
    /\ at' = "yield in compose"
    /\ UNCHANGED open

\* The file is not found or empty, or there is no memory for its segments.
launch_fails ==
    /\ InRoot("launch")
    /\ at' = "yield in compose"
    /\ UNCHANGED <<schedVars, entry, appVars, open>>

\* The file is none of these and no ELF image either.
app_trampoline_panics(a) ==
    /\ InRoot("launch") /\ ~IsImage(a)
    /\ panic_assert

\* The caller gives up the CPU, or keeps it when nobody else is ready.
GivesWay ==
    \/ \E next \in S!Slot : S!yield(next)
    \/ S!PicksNone /\ UNCHANGED schedVars

\* The yield() at the end of compose().
yield_in_compose ==
    /\ InRoot("yield in compose")
    /\ GivesWay
    /\ at' = "yield in loop"
    /\ UNCHANGED <<entry, appVars, open>>

\* The yield() of axshell_main() and the hlt that the next interrupt ends.
yield_in_loop ==
    /\ InRoot("yield in loop")
    /\ GivesWay
    /\ at' = "input"
    /\ UNCHANGED <<entry, appVars, open>>

-----------------------------------------------------------------------------
(* The other tasks. *)

Runs(t, kind) ==
    /\ running = t /\ ~halted
    /\ prog[t] # NoApp /\ Program[prog[t]] \in kind

\* The wrapper calls the program app_entry_ptr points to at that moment.
app_task_wrapper(t) ==
    /\ running = t /\ ~halted
    /\ prog[t] = NoApp
    /\ prog' = [prog EXCEPT ![t] = entry]
    /\ UNCHANGED <<schedVars, at, entry, launched, ptr, open>>

\* The program opens its window.  There is a slot and memory for it: a closed
\* window gives both back, and there are at least as many of them as tasks.
ax_surface(t, c) ==
    /\ Runs(t, {"yielding", "hogging"})
    /\ ptr[t] = NoCanvas
    /\ c \in Canvas \ open
    /\ ptr' = [ptr EXCEPT ![t] = c]
    /\ open' = open \cup {c}
    /\ UNCHANGED <<schedVars, at, entry, launched, prog>>

\* One turn of the event loop: the queue is drained, the canvas drawn, and the
\* CPU given up.  A window that is gone answers as an empty queue does.  A
\* program without a window waits for its input by yielding.
event_loop(t) ==
    /\ \/ Runs(t, {"yielding"}) /\ ptr[t] # NoCanvas
       \/ Runs(t, {"finishing"})
    /\ GivesWay
    /\ UNCHANGED <<at, entry, appVars, open>>

\* One turn of an event loop that never gives up the CPU.
busy_loop(t) ==
    /\ Runs(t, {"hogging"})
    /\ ptr[t] # NoCanvas
    /\ UNCHANGED vars

\* The program spawns another one, which starts without a wrapper.  A file that
\* is missing or does not load changes nothing here.
exec(t, u, s, a) ==
    /\ Runs(t, {"yielding"}) /\ IsImage(a)
    /\ ptr[t] # NoCanvas
    /\ Spawns(u, s, a, a)
    /\ UNCHANGED <<at, entry, open>>

\* The program asks for a file that is no ELF image.
exec_panics(t, a) ==
    /\ Runs(t, {"yielding"}) /\ ~IsImage(a)
    /\ ptr[t] # NoCanvas
    /\ panic_assert

\* The program ends.
exit(t) ==
    /\ Runs(t, {"finishing"})
    /\ \E next \in S!Slot : S!task_exit(next)
    /\ UNCHANGED <<at, entry, appVars, open>>

-----------------------------------------------------------------------------
Init ==
    /\ S!Init
    /\ at = "input"
    /\ entry = NoApp
    /\ launched = [t \in Task |-> NoApp]
    /\ prog = [t \in Task |-> NoApp]
    /\ ptr = [t \in Task |-> NoCanvas]
    /\ open = {}

RootStep ==
    \/ \E closed \in SUBSET open, next \in {"launch", "yield in compose"} :
        process_input(closed, next)
    \/ \E a \in App : app_trampoline(a)
    \/ launch_fails
    \/ \E a \in App : app_trampoline_panics(a)
    \/ yield_in_compose
    \/ yield_in_loop

TaskStep(t) ==
    \/ app_task_wrapper(t)
    \/ \E c \in Canvas : ax_surface(t, c)
    \/ event_loop(t)
    \/ busy_loop(t)
    \/ \E u \in Task, s \in Stacks, a \in App : exec(t, u, s, a)
    \/ \E a \in App : exec_panics(t, a)
    \/ exit(t)

\* What is left after a panic.
halt_loop == halted /\ UNCHANGED vars

Next == RootStep \/ (\E t \in Task : TaskStep(t)) \/ halt_loop

Spec == Init /\ [][Next]_vars

\* The processor keeps executing: the root task finishes its frame, and a task
\* gets on with its program; it does not call exec() for ever.
Proceeds(t) ==
    \/ app_task_wrapper(t)
    \/ \E c \in Canvas : ax_surface(t, c)
    \/ event_loop(t)
    \/ exit(t)

FairSpec ==
    /\ Spec
    /\ WF_vars(RootStep)
    /\ \A t \in Task : WF_vars(Proceeds(t))

-----------------------------------------------------------------------------
(* Properties. *)

Live == S!Live \ {S!Root}

\* The types of the variables of this module.  While another task runs, the
\* root task is suspended in one of its two yields.
TypeOK ==
    /\ at \in Place
    /\ running # S!Root => at \in {"yield in loop", "input"}
    /\ entry \in App \cup {NoApp}
    /\ launched \in [Task -> App \cup {NoApp}]
    /\ prog \in [Task -> App \cup {NoApp}]
    /\ ptr \in [Task -> Canvas \cup {NoCanvas}]
    /\ open \subseteq Canvas

\* A task runs the program it was spawned for, although the wrapper reads a
\* global variable long after app_trampoline() set it: nobody launches another
\* program before every task launched earlier has started.
LaunchedAsAsked ==
    /\ TypeOK
    /\ \A t \in Live : prog[t] # NoApp => prog[t] = launched[t]

\* When the root task takes its input every task has started.
AllStarted ==
    running = S!Root /\ at = "input" => \A t \in Live : prog[t] # NoApp

\* The canvas a live task draws in belongs to a window, and no other task
\* draws in it.
DrawsInOwnCanvas ==
    \A t \in Live : ptr[t] # NoCanvas =>
        /\ ptr[t] \in open
        /\ \A u \in Live : ptr[u] = ptr[t] => u = t

\* The compositor takes its input again and again, unless a program that never
\* gives up the CPU gets it, or somebody asks for a file that is no ELF image.
InputServed ==
    (\A t \in Task : []~Runs(t, {"hogging"})) /\ []~halted
        => []<>(running = S!Root /\ at = "input")

=============================================================================
