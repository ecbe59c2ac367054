----------------------------- MODULE Scheduler -----------------------------
(***************************************************************************)
(* The cooperative task scheduler of the kernel, src/fs/task.c.            *)
(*                                                                         *)
(* A fixed table of MAX_TASKS slots holds every task.  Slot 0 is the root  *)
(* task: the compositor loop that called initTasking().  A task keeps the  *)
(* CPU until it calls yield() or task_exit(); interrupt handlers never     *)
(* touch the table, so each of the three calls is one step.                *)
(*                                                                         *)
(* A register file (Task.regs) is represented by the pid of the task whose *)
(* execution it would resume, a stack by the heap block it lives in.       *)
(***************************************************************************)
EXTENDS Integers, FiniteSets

CONSTANTS
    MaxTasks,   \* MAX_TASKS, the number of slots
    Stacks,     \* the heap blocks of STACK_SIZE bytes kmalloc() can return
    NoStack,    \* a NULL stack pointer
    MaxPid      \* bound of the model: task_spawn() hands out no larger pid

ASSUME MaxTasksAssumption == MaxTasks \in Nat \ {0}
ASSUME StacksAssumption == IsFiniteSet(Stacks) /\ NoStack \notin Stacks
ASSUME MaxPidAssumption == MaxPid \in Nat

VARIABLES
    state,       \* tasks[t].state
    pid,         \* tasks[t].pid; a terminated slot keeps its last one
    regs,        \* tasks[t].regs: whose execution the saved registers resume
    stack,       \* tasks[t].stack
    nxt, prv,    \* tasks[t].next, tasks[t].prev
    head,        \* taskListHead
    running,     \* runningTask
    count,       \* task_count
    nextPid,     \* next_pid
    freeStacks,  \* the blocks of Stacks the heap has not handed out
    cpu,         \* whose execution the processor's own registers are in
    halted       \* the root task reached the cli; hlt loop of task_exit()

listVars == <<nxt, prv, head>>
taskVars == <<state, pid, regs, stack, running, count, nextPid, freeStacks>>
vars == <<taskVars, listVars, cpu, halted>>

Slot == 0 .. MaxTasks - 1
Root == 0
RootPid == 1
NoSlot == -1

Live == {t \in Slot : state[t] # "TERMINATED"}
Ready == {t \in Slot : state[t] = "READY"}

-----------------------------------------------------------------------------
(* The list of live tasks. *)

\* Faulty variant: the removed task's successor keeps pointing back at it.
task_list_remove_OneSided(t) ==
    /\ nxt' = [nxt EXCEPT ![prv[t]] = nxt[t]]
    /\ head' = IF head = t THEN nxt[t] ELSE head
    /\ UNCHANGED prv

task_list_insert(t) ==
    IF head = NoSlot
    THEN /\ head' = t
         /\ nxt' = [nxt EXCEPT ![t] = t]
         /\ prv' = [prv EXCEPT ![t] = t]
    ELSE /\ nxt' = [nxt EXCEPT ![prv[head]] = t, ![t] = head]
         /\ prv' = [prv EXCEPT ![t] = prv[head], ![head] = t]
         /\ UNCHANGED head

task_list_remove(t) ==
    IF nxt[t] = t
    THEN head' = NoSlot /\ UNCHANGED <<nxt, prv>>
    ELSE /\ nxt' = [nxt EXCEPT ![prv[t]] = nxt[t]]
         /\ prv' = [prv EXCEPT ![nxt[t]] = prv[t]]
         /\ head' = IF head = t THEN nxt[t] ELSE head

-----------------------------------------------------------------------------
(* Choosing the next task. *)

\* How far the scan that starts after slot a goes before it looks at slot b;
\* slot a itself is looked at last.
Distance(a, b) == IF b > a THEN b - a ELSE b - a + MaxTasks

\* Faulty variant: the scan starts at index 0 every time.
Picks_FromZero(t) ==
    /\ count > 1
    /\ t \in Ready
    /\ \A u \in Ready : t <= u

\* Faulty variant: the root task is excluded from the search.
Picks_NoRoot(t) ==
    /\ count > 1
    /\ t \in Ready \ {Root}
    /\ \A u \in Ready \ {Root} : Distance(running, t) <= Distance(running, u)

\* pick_next_ready() returns slot t.  The running task is never Ready: it is
\* RUNNING when yield() asks and TERMINATED when task_exit() does.
Picks(t) ==
    /\ count > 1
    /\ t \in Ready
    /\ \A u \in Ready : Distance(running, t) <= Distance(running, u)

\* pick_next_ready() returns NULL.
PicksNone == count <= 1 \/ Ready = {}

-----------------------------------------------------------------------------
(* The parts of task_spawn() and task_exit(). *)

\* Faulty variant: any slot that is not on the CPU counts as free.
FirstFree_NotRunning(t) ==
    /\ state[t] # "RUNNING"
    /\ \A u \in Slot : u < t => state[u] = "RUNNING"

FirstFree(t) ==
    /\ state[t] = "TERMINATED"
    /\ \A u \in Slot : u < t => state[u] # "TERMINATED"

\* Faulty variant: ++next_pid for next_pid++.
AssignPid_PreIncrement(t) ==
    /\ pid' = [pid EXCEPT ![t] = nextPid + 1]
    /\ regs' = [regs EXCEPT ![t] = nextPid + 1]
    /\ nextPid' = nextPid + 1

\* Faulty variant: the pid is derived from the number of live tasks.
AssignPid_FromCount(t) ==
    /\ pid' = [pid EXCEPT ![t] = count + 1]
    /\ regs' = [regs EXCEPT ![t] = count + 1]
    /\ nextPid' = nextPid + 1

\* The new task's identity and the register file that starts its execution.
AssignPid(t) ==
    /\ pid' = [pid EXCEPT ![t] = nextPid]
    /\ regs' = [regs EXCEPT ![t] = nextPid]
    /\ nextPid' = nextPid + 1

\* Faulty variant: the pointer is cleared but the block is not freed.
FreeStack_Leak(t) ==
    /\ stack' = [stack EXCEPT ![t] = NoStack]
    /\ UNCHANGED freeStacks

FreeStack(t) ==
    /\ stack' = [stack EXCEPT ![t] = NoStack]
    /\ freeStacks' = freeStacks \cup ({stack[t]} \ {NoStack})

\* Faulty variant: the outgoing task's registers are not saved.
SwitchFrom_NoSave(old, next) ==
    /\ UNCHANGED regs
    /\ cpu' = regs[next]

\* switchTask(&old->regs, &next->regs)
SwitchFrom(old, next) ==
    /\ regs' = [regs EXCEPT ![old] = cpu]
    /\ cpu' = regs[next]

-----------------------------------------------------------------------------
(* The operations. *)

\* The state initTasking() leaves behind.
Init ==
    /\ state = [t \in Slot |-> IF t = Root THEN "RUNNING" ELSE "TERMINATED"]
    /\ pid = [t \in Slot |-> IF t = Root THEN RootPid ELSE 0]
    /\ regs = [t \in Slot |-> 0]
    /\ stack = [t \in Slot |-> NoStack]
    /\ nxt = [t \in Slot |-> IF t = Root THEN Root ELSE NoSlot]
    /\ prv = [t \in Slot |-> IF t = Root THEN Root ELSE NoSlot]
    /\ head = Root
    /\ running = Root
    /\ count = 1
    /\ nextPid = RootPid + 1
    /\ freeStacks = Stacks
    /\ cpu = RootPid
    /\ halted = FALSE

\* The running task spawns a task into slot t with stack s.  The failing
\* returns of task_spawn() (no entry, table full, no memory) change nothing.
task_spawn(t, s) ==
    /\ ~halted
    /\ nextPid <= MaxPid
    /\ count < MaxTasks
    /\ FirstFree(t)
    /\ s \in freeStacks
    /\ freeStacks' = freeStacks \ {s}
    /\ stack' = [stack EXCEPT ![t] = s]
    /\ AssignPid(t)
    /\ state' = [state EXCEPT ![t] = "READY"]
    /\ task_list_insert(t)
    /\ count' = count + 1
    /\ UNCHANGED <<running, cpu, halted>>

\* The running task gives the CPU to slot next.  With nothing else ready
\* yield() returns without a change.
yield(next) ==
    /\ ~halted
    /\ Picks(next)
    /\ state' = [state EXCEPT ![running] = "READY", ![next] = "RUNNING"]
    /\ running' = next
    /\ SwitchFrom(running, next)
    /\ UNCHANGED <<pid, stack, count, nextPid, freeStacks, listVars, halted>>

\* The running task ends and the CPU goes to slot next: the picked task, or
\* the root task when none is ready.
task_exit(next) ==
    /\ ~halted
    /\ pid[running] # RootPid
    /\ Picks(next) \/ (PicksNone /\ next = Root)
    /\ FreeStack(running)
    /\ task_list_remove(running)
    /\ count' = count - 1
    /\ state' = [state EXCEPT ![running] = "TERMINATED", ![next] = "RUNNING"]
    /\ running' = next
    /\ cpu' = regs[next]
    /\ UNCHANGED <<pid, regs, nextPid, halted>>

\* The root task must never be torn down: task_exit() halts the machine.
root_exit ==
    /\ ~halted
    /\ pid[running] = RootPid
    /\ halted' = TRUE
    /\ UNCHANGED <<taskVars, listVars, cpu>>

\* for (;;) cli; hlt
HaltLoop == halted /\ UNCHANGED vars

Next ==
    \/ \E t \in Slot, s \in Stacks : task_spawn(t, s)
    \/ \E next \in Slot : yield(next)
    \/ \E next \in Slot : task_exit(next)
    \/ root_exit
    \/ HaltLoop

Spec == Init /\ [][Next]_vars

\* Every task's event loop yields or ends: the rule the file header imposes on
\* all code that runs as a task.
GivesUpCpu == \E next \in Slot : yield(next) \/ task_exit(next)

FairSpec == Spec /\ WF_vars(GivesUpCpu)

-----------------------------------------------------------------------------
(* Properties. *)

\* The types of the variables; pids handed out are all below next_pid.
TypeOK ==
    /\ state \in [Slot -> {"TERMINATED", "READY", "RUNNING"}]
    /\ nextPid \in Nat \ {0}
    /\ pid \in [Slot -> 0 .. nextPid - 1]
    /\ regs \in [Slot -> 0 .. nextPid - 1]
    /\ stack \in [Slot -> Stacks \cup {NoStack}]
    /\ nxt \in [Slot -> Slot \cup {NoSlot}]
    /\ prv \in [Slot -> Slot \cup {NoSlot}]
    /\ head \in Slot \cup {NoSlot}
    /\ running \in Slot
    /\ count \in 0 .. MaxTasks
    /\ freeStacks \subseteq Stacks
    /\ cpu \in 0 .. nextPid - 1
    /\ halted \in BOOLEAN

\* Exactly the task runningTask points at is RUNNING, and the root task is
\* alive with its own pid, so whenever another task runs root is READY: the
\* fall-back to tasks[0] in task_exit() always resumes a valid context.
OneRunning ==
    /\ \A t \in Slot : state[t] = "RUNNING" <=> t = running
    /\ Root \in Live
    /\ \A t \in Live : pid[t] = RootPid <=> t = Root

\* task_count is the number of live tasks, so the "no free slot" branch behind
\* the count test of task_spawn() is never taken.
CountIsLive == count = Cardinality(Live)

\* Live tasks have positive pids and no two share one, so task_is_alive()
\* answers for one task.
PidsUnique ==
    /\ \A t \in Live : pid[t] > 0
    /\ \A t, u \in Live : pid[t] = pid[u] => t = u

\* The processor executes the task the table says is running, and every READY
\* task's saved registers resume that same task: no task continues in another
\* one's context or in the context of a task that has ended.
ContextOwned ==
    /\ cpu = pid[running]
    /\ \A t \in Ready : regs[t] = pid[t]

\* Each live task but root owns a heap block of its own, no block the heap
\* considers free is some task's stack, and no block is lost.
StacksOwned ==
    /\ \A t \in Slot : stack[t] = NoStack <=> t \notin Live \ {Root}
    /\ \A t, u \in Slot : stack[t] = stack[u] /\ stack[t] # NoStack => t = u
    /\ freeStacks = Stacks \ {stack[t] : t \in Slot}

\* The circular list links exactly the live tasks in the order they were
\* spawned, root first, in both directions.
RingInOrder ==
    /\ head = Root
    /\ \A t \in Live :
        /\ nxt[t] \in Live
        /\ prv[t] \in Live
        /\ prv[nxt[t]] = t
        /\ nxt[prv[t]] = t
        /\ \/ /\ nxt[t] = Root
              /\ \A u \in Live : pid[u] <= pid[t]
           \/ /\ pid[nxt[t]] > pid[t]
              /\ \A u \in Live : pid[u] <= pid[t] \/ pid[u] >= pid[nxt[t]]

\* One task runs, in its own context and on its own stack, and every other live
\* task waits in a context and on a stack of its own.
ContextsExact == OneRunning /\ ContextOwned /\ StacksOwned

\* After any sequence of spawns and ends the table, task_count, the pids and the
\* ring say the same of which tasks live and in which order they came.
TableExact == TypeOK /\ CountIsLive /\ PidsUnique /\ RingInOrder

\* A pid belongs to one task for ever: a task comes alive only with a pid that
\* next_pid had not passed and now has, so a pid whose task ended stays dead.
LivePids == {pid[t] : t \in Live}
NoResurrection ==
    [][/\ nextPid <= nextPid'
       /\ \A p \in LivePids' \ LivePids : nextPid <= p /\ p < nextPid']_vars

\* Bounded waiting: whenever the CPU changes hands, it moves strictly closer
\* in scan order to every task that was READY and is not the one chosen.  So a
\* READY task is overtaken at most MAX_TASKS - 1 times, whatever is spawned or
\* ends meanwhile, and no pair of tasks can keep the CPU between themselves.
EverCloser ==
    [][running' # running =>
         \A t \in Ready : \/ t = running'
                          \/ Distance(running', t) < Distance(running, t)]_vars

\* Every READY task, root and the most recently spawned one included, gets the
\* CPU, as long as the tasks that run give it up.
Scheduled ==
    \A t \in Slot : state[t] = "READY" ~> (state[t] = "RUNNING" \/ halted)

=============================================================================
