--------------------------- MODULE DesktopProofs ---------------------------
(***************************************************************************)
(* Proofs about Desktop, for every table size, set of programs, stacks and *)
(* canvases, and about the pictures of Gfx and Layout, for every size of   *)
(* the screen, every place and every colour.                               *)
(*                                                                         *)
(* The argument for LaunchedAsAsked is about the order in which the table  *)
(* is scanned.  A task that has not started was launched in this frame,    *)
(* and the scan that starts at the root task goes up the table: from the   *)
(* slot that runs it meets the task that has not started before it comes   *)
(* round to the root task again, so nobody sets app_entry_ptr meanwhile.   *)
(*                                                                         *)
(* What the scheduler promises is shown once more for the actions of this  *)
(* module: the little of it the argument needs.                            *)
(*                                                                         *)
(* The argument for PicturesExact is about one call at a time: what is     *)
(* drawn is clipped before it is written, what is mixed lies between what  *)
(* it is mixed from, and what is picked is what is lit.  A line is a walk  *)
(* whose error says how far it is off, which is why it ends where asked.   *)
(***************************************************************************)
EXTENDS Desktop, Layout, FiniteSetTheorems, NaturalsInduction, WellFoundedInduction, TLAPS

Root == S!Root
Slot == S!Slot

\* One task runs, the root task lives, and task_count is right.
Scheduled ==
    /\ state \in [Slot -> {"TERMINATED", "READY", "RUNNING"}]
    /\ running \in Slot
    /\ \A t \in Slot : state[t] = "RUNNING" <=> t = running
    /\ state[Root] # "TERMINATED"
    /\ count = Cardinality(S!Live)

\* The tasks that are still in front of the wrapper's call.
Unstarted == {t \in Live : prog[t] = NoApp}

\* Since a task was launched app_entry_ptr has not changed, and the CPU has not
\* gone past its slot.
InTurn ==
    \A t \in Unstarted :
        /\ launched[t] = entry
        /\ \/ running = Root /\ at = "yield in compose"
           \/ running # Root /\ running <= t /\ at = "yield in loop"

IInv == Scheduled /\ LaunchedAsAsked /\ InTurn

-----------------------------------------------------------------------------
(* The scheduler's part. *)

\* The slots are numbers below MAX_TASKS, and their sets are finite.
LEMMA SlotFacts ==
    /\ Slot = 0 .. MaxTasks - 1
    /\ Root = 0 /\ Root \in Slot
    /\ MaxTasks \in Nat
    /\ Task = Slot \ {Root}
    /\ Live \subseteq Task
    /\ \A T \in SUBSET Slot : IsFiniteSet(T) /\ Cardinality(T) \in Nat
<1>1. Slot = 0 .. MaxTasks - 1 /\ Root = 0 /\ MaxTasks \in Nat /\ Root \in Slot
    BY SlotsAssumption DEF Slot, Root, S!Slot, S!Root
<1>2. Task = Slot \ {Root} /\ Live \subseteq Task
    BY DEF Task, Live, Slot, Root, S!Live
<1>3. IsFiniteSet(Slot)
    BY <1>1, FS_Interval
<1>4. \A T \in SUBSET Slot : IsFiniteSet(T) /\ Cardinality(T) \in Nat
    BY <1>3, FS_Subset, FS_CardinalityType
<1>5. QED
    BY <1>1, <1>2, <1>4

\* With two tasks alive somebody is READY, and pick_next_ready() looks for it.
LEMMA SomebodyReady ==
    ASSUME Scheduled, NEW t \in S!Live, t # running
    PROVE  t \in S!Ready /\ running \in S!Live /\ ~S!PicksNone /\ ~(count <= 1)
<1>1. t \in Slot /\ S!Live \in SUBSET Slot
    BY DEF S!Live, Slot
<1>2. t \in S!Ready
    BY <1>1 DEF Scheduled, S!Live, S!Ready, Slot
<1>3. running \in S!Live
    BY DEF Scheduled, S!Live, Slot
<1>4. Cardinality(S!Live) # 0 /\ Cardinality(S!Live) # 1
    BY <1>1, <1>3, SlotFacts, FS_EmptySet, FS_Singleton
<1>5. ~(count <= 1)
    BY <1>1, <1>4, SlotFacts DEF Scheduled
<1>6. QED
    BY <1>2, <1>3, <1>5 DEF S!PicksNone

\* A task that ends hands the CPU to a READY task: the root task is one.
LEMMA ExitPicks ==
    ASSUME Scheduled, NEW next \in Slot, S!task_exit(next), running # Root
    PROVE  S!Picks(next)
<1>1. Root \in S!Live
    BY SlotFacts DEF Scheduled, S!Live, Slot
<1>2. ~S!PicksNone
    BY <1>1, SomebodyReady
<1>3. QED
    BY <1>2 DEF S!task_exit

\* initTasking() leaves the root task running.
LEMMA ScheduledInit == Init => Scheduled
<1> SUFFICES ASSUME Init PROVE Scheduled
    OBVIOUS
<1>1. state = [t \in Slot |-> IF t = Root THEN "RUNNING" ELSE "TERMINATED"]
      /\ running = Root /\ count = 1
    BY DEF Init, S!Init, Slot, Root
<1>2. S!Live = {Root}
    BY <1>1, SlotFacts DEF S!Live, Slot
<1>3. Cardinality(S!Live) = 1
    BY <1>2, FS_Singleton
<1>4. QED
    BY <1>1, <1>3, SlotFacts DEF Scheduled

\* A spawn adds one live task and leaves the CPU where it is.
LEMMA SpawnScheduled ==
    ASSUME Scheduled, NEW t \in Slot, NEW s \in Stacks, S!task_spawn(t, s)
    PROVE  /\ Scheduled'
           /\ S!Live' = S!Live \cup {t}
           /\ t \notin S!Live
           /\ running' = running
<1>1. state[t] = "TERMINATED" /\ state' = [state EXCEPT ![t] = "READY"]
      /\ count' = count + 1 /\ running' = running
    BY DEF S!task_spawn, S!FirstFree
<1>2. t # running /\ t # Root
    BY <1>1 DEF Scheduled
<1>3. S!Live' = S!Live \cup {t} /\ t \notin S!Live
    BY <1>1 DEF Scheduled, S!Live, Slot
<1>4. Cardinality(S!Live') = Cardinality(S!Live) + 1
    <2>1. IsFiniteSet(S!Live)
        BY SlotFacts DEF S!Live, Slot
    <2>2. QED
        BY <1>3, <2>1, FS_AddElement
<1>5. /\ state' \in [Slot -> {"TERMINATED", "READY", "RUNNING"}]
      /\ running' \in Slot
      /\ \A u \in Slot : state'[u] = "RUNNING" <=> u = running'
      /\ state'[Root] # "TERMINATED"
    BY <1>1, <1>2, SlotFacts DEF Scheduled
<1>6. count' = Cardinality(S!Live')
    BY <1>1, <1>4 DEF Scheduled
<1>7. QED
    BY <1>1, <1>3, <1>5, <1>6 DEF Scheduled

\* A yield changes nothing but who runs.
LEMMA YieldScheduled ==
    ASSUME Scheduled, NEW next \in Slot, S!yield(next)
    PROVE  /\ Scheduled'
           /\ S!Live' = S!Live
           /\ running' = next
           /\ S!Picks(next)
<1>1. S!Picks(next) /\ state' = [state EXCEPT ![running] = "READY", ![next] = "RUNNING"]
      /\ count' = count /\ running' = next
    BY DEF S!yield
<1>2. state[next] = "READY" /\ next # running
    BY <1>1 DEF S!Picks, S!Ready, Scheduled
<1>3. S!Live' = S!Live
    BY <1>1, <1>2 DEF Scheduled, S!Live, Slot
<1>4. /\ state' \in [Slot -> {"TERMINATED", "READY", "RUNNING"}]
      /\ running' \in Slot
      /\ \A u \in Slot : state'[u] = "RUNNING" <=> u = running'
      /\ state'[Root] # "TERMINATED"
    BY <1>1, <1>2, SlotFacts DEF Scheduled
<1>5. QED
    BY <1>1, <1>3, <1>4 DEF Scheduled

\* An end takes one task away and gives the CPU to the picked one.
LEMMA ExitScheduled ==
    ASSUME Scheduled, NEW next \in Slot, S!task_exit(next), running # Root
    PROVE  /\ Scheduled'
           /\ S!Live' = S!Live \ {running}
           /\ running' = next
           /\ S!Picks(next)
<1>1. S!Picks(next)
    BY ExitPicks
<1>2. state' = [state EXCEPT ![running] = "TERMINATED", ![next] = "RUNNING"]
      /\ count' = count - 1 /\ running' = next
    BY DEF S!task_exit
<1>3. state[next] = "READY" /\ next # running
    BY <1>1 DEF S!Picks, S!Ready, Scheduled
<1>4. S!Live' = S!Live \ {running} /\ running \in S!Live
    BY <1>2, <1>3 DEF Scheduled, S!Live, Slot
<1>5. Cardinality(S!Live') = Cardinality(S!Live) - 1
    <2>1. IsFiniteSet(S!Live)
        BY SlotFacts DEF S!Live, Slot
    <2>2. QED
        BY <1>4, <2>1, FS_RemoveElement
<1>6. /\ state' \in [Slot -> {"TERMINATED", "READY", "RUNNING"}]
      /\ running' \in Slot
      /\ \A u \in Slot : state'[u] = "RUNNING" <=> u = running'
      /\ state'[Root] # "TERMINATED"
    BY <1>2, <1>3, SlotFacts DEF Scheduled
<1>7. count' = Cardinality(S!Live')
    BY <1>2, <1>5 DEF Scheduled
<1>8. QED
    BY <1>1, <1>2, <1>4, <1>6, <1>7 DEF Scheduled

\* The scan meets a live task further up the table before it comes round: the
\* task it picks lies between the one that gives up the CPU and that task.
LEMMA PicksUpwards ==
    ASSUME Scheduled, NEW next \in Slot, S!Picks(next),
           NEW t \in S!Live, running < t
    PROVE  running < next /\ next <= t
<1>1. t \in Slot /\ running \in Slot
    BY DEF Scheduled, S!Live, Slot
<1>2. t # running
    BY <1>1, SlotFacts
<1>3. t \in S!Ready
    BY <1>2, SomebodyReady
<1>4. S!Distance(running, next) <= S!Distance(running, t)
    BY <1>3 DEF S!Picks
<1>5. S!Distance(running, t) = t - running
    BY DEF S!Distance
<1>6. next > running
    BY <1>1, <1>4, <1>5, SlotFacts DEF S!Distance
<1>7. QED
    BY <1>1, <1>4, <1>5, <1>6, SlotFacts DEF S!Distance

-----------------------------------------------------------------------------
(* What a change of the CPU does to the tasks that have not started. *)

\* A slot above another is neither that one nor the root slot.
LEMMA Higher == \A a, b \in Slot : a < b => a # b /\ b # Root
    BY SlotFacts

\* The caller has started, and gives up the CPU or keeps it.
LEMMA GivesWayUpwards ==
    ASSUME IInv, GivesWay, UNCHANGED <<entry, appVars>>,
           \A t \in Unstarted : running < t,
           \/ running = Root /\ at' = "yield in loop"
           \/ running # Root /\ at' = at
           \/ Unstarted = {}
    PROVE  /\ Scheduled'
           /\ Live' = Live
           /\ InTurn'
<1>1. CASE S!PicksNone /\ UNCHANGED schedVars
    <2>1. Scheduled' /\ Live' = Live /\ running' = running
        BY <1>1 DEF IInv, Scheduled, schedVars, tableVars, Live, S!Live
    <2>2. Unstarted' = Unstarted
        BY <2>1 DEF Unstarted, appVars
    <2>3. Unstarted = {}
        <3>1. SUFFICES ASSUME NEW t \in Unstarted PROVE FALSE
            OBVIOUS
        <3>2. t \in S!Live /\ t \in Slot
            BY <3>1, SlotFacts DEF Unstarted, Live
        <3>3. t # running
            BY <3>1, <3>2, Higher DEF IInv, Scheduled
        <3>4. QED
            BY <1>1, <3>2, <3>3, SomebodyReady DEF IInv
    <2>4. QED
        BY <2>1, <2>2, <2>3 DEF InTurn
<1>2. ASSUME NEW next \in Slot, S!yield(next)
      PROVE  Scheduled' /\ Live' = Live /\ InTurn'
    <2>1. Scheduled' /\ S!Live' = S!Live /\ running' = next /\ S!Picks(next)
        BY <1>2, YieldScheduled DEF IInv
    <2>2. Live' = Live
        BY <2>1 DEF Live
    <2>3. Unstarted' = Unstarted
        BY <2>2 DEF Unstarted, appVars
    <2>4. ASSUME NEW t \in Unstarted
          PROVE  /\ launched'[t] = entry'
                 /\ running' # Root /\ running' <= t /\ at' = "yield in loop"
        <3>1. t \in S!Live /\ running < t
            BY <2>4 DEF Unstarted, Live
        <3>2. running < next /\ next <= t
            BY <2>1, <3>1, PicksUpwards DEF IInv
        <3>3. next # Root
            BY <3>2, Higher DEF IInv, Scheduled
        <3>4. at' = "yield in loop"
            BY <2>4 DEF IInv, InTurn
        <3>5. launched'[t] = entry'
            BY <2>4 DEF IInv, InTurn, appVars
        <3>6. QED
            BY <2>1, <3>2, <3>3, <3>4, <3>5
    <2>5. QED
        BY <2>1, <2>2, <2>3, <2>4 DEF InTurn
<1>3. QED
    BY <1>1, <1>2 DEF GivesWay, Slot

\* A started task other than the root task has every unstarted one above it.
LEMMA StartedBelow ==
    ASSUME IInv, running # Root, prog[running] # NoApp
    PROVE  \A t \in Unstarted : running < t
<1>1. SUFFICES ASSUME NEW t \in Unstarted PROVE running < t
    OBVIOUS
<1>2. running <= t
    BY DEF IInv, InTurn
<1>3. t # running
    BY DEF Unstarted
<1>4. t \in Slot /\ running \in Slot
    BY SlotFacts DEF Unstarted, IInv, Scheduled
<1>5. QED
    BY <1>2, <1>3, <1>4, SlotFacts

\* With the root task running every unstarted task is above it.
LEMMA RootBelow ==
    ASSUME IInv, running = Root
    PROVE  \A t \in Unstarted : running < t
    BY SlotFacts DEF Unstarted

\* In the other places of the root task's loop nobody waits to start.
LEMMA NobodyWaits ==
    ASSUME IInv, running = Root, at # "yield in compose"
    PROVE  Unstarted = {}
    BY DEF IInv, InTurn

-----------------------------------------------------------------------------
(* The root task's steps. *)

\* Started tasks run what they were spawned for, as long as the tasks and what
\* is known of them stay the same.
LEMMA SameTasks ==
    ASSUME LaunchedAsAsked, Live' \subseteq Live, UNCHANGED <<prog, launched>>
    PROVE  (\A t \in Live : prog[t] # NoApp => prog[t] = launched[t])'
    BY DEF LaunchedAsAsked

\* Input and closed windows: no task has still to start.
LEMMA InputStep ==
    ASSUME IInv, NEW closed \in SUBSET open,
           NEW next \in {"launch", "yield in compose"}, process_input(closed, next)
    PROVE  IInv'
<1>1. UNCHANGED schedVars /\ UNCHANGED <<entry, launched, prog, ptr>> /\ running = Root
      /\ at = "input" /\ at' = next /\ open' = open \ closed
    BY DEF process_input, InRoot, appVars, Root
<1>2. Scheduled' /\ Live' = Live /\ running' = Root
    BY <1>1 DEF IInv, Scheduled, schedVars, tableVars, Live, S!Live
<1>3. Unstarted' = {}
    BY <1>1, <1>2, NobodyWaits DEF Unstarted
<1>4. TypeOK'
    BY <1>1, <1>2 DEF IInv, LaunchedAsAsked, TypeOK, Place, Root
<1>5. QED
    BY <1>1, <1>2, <1>3, <1>4, SameTasks DEF IInv, InTurn, LaunchedAsAsked

\* A launch: app_entry_ptr is set while no task has still to start.
LEMMA LaunchStep ==
    ASSUME IInv, NEW a \in App, app_trampoline(a)
    PROVE  IInv'
<1>1. running = Root /\ at = "launch" /\ entry' = a /\ at' = "yield in compose"
      /\ open' = open
    BY DEF app_trampoline, InRoot, Root
<1>2. Unstarted = {}
    BY <1>1, NobodyWaits
<1>3. CASE UNCHANGED <<schedVars, appVars>>
    <2>1. Scheduled' /\ Live' = Live /\ running' = Root
        BY <1>1, <1>3 DEF IInv, Scheduled, schedVars, tableVars, Live, S!Live
    <2>2. UNCHANGED <<launched, prog, ptr>>
        BY <1>3 DEF appVars
    <2>3. Unstarted' = {}
        BY <1>2, <2>1, <2>2 DEF Unstarted
    <2>4. TypeOK'
        BY <1>1, <2>1, <2>2 DEF IInv, LaunchedAsAsked, TypeOK, Place, Root
    <2>5. QED
        BY <2>1, <2>2, <2>3, <2>4, SameTasks DEF IInv, InTurn, LaunchedAsAsked
<1>4. ASSUME NEW t \in Task, NEW s \in Stacks, Spawns(t, s, a, NoApp)
      PROVE  IInv'
    <2>1. S!task_spawn(t, s) /\ t \in Slot
          /\ launched' = [launched EXCEPT ![t] = a]
          /\ prog' = [prog EXCEPT ![t] = NoApp]
          /\ ptr' = [ptr EXCEPT ![t] = NoCanvas]
        BY <1>4, SlotFacts DEF Spawns
    <2>2. Scheduled' /\ S!Live' = S!Live \cup {t} /\ running' = Root
        BY <1>1, <2>1, SpawnScheduled DEF IInv
    <2>3. Live' = Live \cup {t}
        BY <2>2, <1>4, SlotFacts DEF Live, Root
    <2>4. TypeOK'
        BY <1>1, <2>1, <2>2 DEF IInv, LaunchedAsAsked, TypeOK, Place, Root
    <2>5. \A u \in Live' :
            /\ prog'[u] # NoApp => prog'[u] = launched'[u]
            /\ prog'[u] = NoApp => u = t
        BY <1>2, <1>4, <2>1, <2>3, SlotFacts DEF IInv, LaunchedAsAsked, TypeOK, Unstarted
    <2>6. launched'[t] = a
        BY <1>4, <2>1 DEF IInv, LaunchedAsAsked, TypeOK
    <2>7. InTurn'
        BY <1>1, <2>2, <2>5, <2>6 DEF InTurn, Unstarted
    <2>8. QED
        BY <2>2, <2>4, <2>5, <2>7 DEF IInv, LaunchedAsAsked
<1>5. QED
    BY <1>3, <1>4 DEF app_trampoline

\* A launch that fails before app_entry_ptr is set.
LEMMA FailedLaunchStep ==
    ASSUME IInv, launch_fails
    PROVE  IInv'
<1>1. UNCHANGED <<schedVars, entry, launched, prog, ptr, open>> /\ running = Root
      /\ at = "launch" /\ at' = "yield in compose"
    BY DEF launch_fails, InRoot, appVars, Root
<1>2. Scheduled' /\ Live' = Live /\ running' = Root
    BY <1>1 DEF IInv, Scheduled, schedVars, tableVars, Live, S!Live
<1>3. Unstarted' = {}
    BY <1>1, <1>2, NobodyWaits DEF Unstarted
<1>4. TypeOK'
    BY <1>1, <1>2 DEF IInv, LaunchedAsAsked, TypeOK, Place, Root
<1>5. QED
    BY <1>1, <1>2, <1>3, <1>4, SameTasks DEF IInv, InTurn, LaunchedAsAsked

\* A panic changes nothing but that the machine stands still.
LEMMA PanicStep ==
    ASSUME IInv, panic_assert
    PROVE  IInv'
<1>1. UNCHANGED <<tableVars, at, entry, launched, prog, ptr, open>>
    BY DEF panic_assert, appVars
<1>2. Scheduled' /\ Live' = Live /\ running' = running
    BY <1>1 DEF IInv, Scheduled, tableVars, Live, S!Live
<1>3. TypeOK'
    BY <1>1, <1>2 DEF IInv, LaunchedAsAsked, TypeOK
<1>4. InTurn'
    BY <1>1, <1>2 DEF IInv, InTurn, Unstarted
<1>5. QED
    BY <1>1, <1>2, <1>3, <1>4, SameTasks DEF IInv, LaunchedAsAsked

\* The root task gives up the CPU, which goes up the table.
LEMMA RootYieldStep ==
    ASSUME IInv, yield_in_compose \/ yield_in_loop
    PROVE  IInv'
<1>1. running = Root /\ GivesWay /\ UNCHANGED <<entry, appVars>> /\ open' = open
      /\ \/ at = "yield in compose" /\ at' = "yield in loop"
         \/ at = "yield in loop" /\ at' = "input"
    BY DEF yield_in_compose, yield_in_loop, InRoot, Root
<1>2. UNCHANGED <<launched, prog, ptr>>
    BY <1>1 DEF appVars
<1>3. at' = "yield in loop" \/ Unstarted = {}
    BY <1>1, NobodyWaits
<1>4. Scheduled' /\ Live' = Live /\ InTurn'
    BY <1>1, <1>3, RootBelow, GivesWayUpwards
<1>5. TypeOK'
    BY <1>1, <1>2 DEF IInv, LaunchedAsAsked, TypeOK, Place
<1>6. QED
    BY <1>2, <1>4, <1>5, SameTasks DEF IInv, LaunchedAsAsked

-----------------------------------------------------------------------------
(* The other tasks' steps. *)

\* The wrapper reads app_entry_ptr, which is still the one of its launch.
LEMMA WrapperStep ==
    ASSUME IInv, NEW t \in Task, app_task_wrapper(t)
    PROVE  IInv'
<1>1. running = t /\ prog[t] = NoApp /\ prog' = [prog EXCEPT ![t] = entry]
      /\ UNCHANGED <<schedVars, at, entry, launched, ptr, open>>
    BY DEF app_task_wrapper
<1>2. Scheduled' /\ Live' = Live /\ running' = running
    BY <1>1 DEF IInv, Scheduled, schedVars, tableVars, Live, S!Live
<1>3. t \in Live
    BY <1>1, SlotFacts DEF IInv, Scheduled, Live, S!Live, Slot, Root
<1>4. launched[t] = entry
    BY <1>1, <1>3 DEF IInv, InTurn, Unstarted
<1>5. TypeOK'
    BY <1>1, <1>2 DEF IInv, LaunchedAsAsked, TypeOK
<1>6. \A u \in Live : prog'[u] = IF u = t THEN entry ELSE prog[u]
    BY <1>1, SlotFacts DEF IInv, LaunchedAsAsked, TypeOK
<1>7. LaunchedAsAsked'
    BY <1>1, <1>2, <1>4, <1>5, <1>6 DEF IInv, LaunchedAsAsked
<1>8. Unstarted' \subseteq Unstarted
    BY <1>1, <1>2, <1>6 DEF Unstarted
<1>9. InTurn'
    BY <1>1, <1>2, <1>8 DEF IInv, InTurn
<1>10. QED
    BY <1>2, <1>7, <1>9 DEF IInv

\* A window is opened: no task starts or ends.
LEMMA SurfaceStep ==
    ASSUME IInv, NEW t \in Task, NEW c \in Canvas, ax_surface(t, c)
    PROVE  IInv'
<1>1. UNCHANGED <<schedVars, at, entry, launched, prog>>
      /\ ptr' = [ptr EXCEPT ![t] = c] /\ open' = open \cup {c}
    BY DEF ax_surface
<1>2. Scheduled' /\ Live' = Live /\ running' = running
    BY <1>1 DEF IInv, Scheduled, schedVars, tableVars, Live, S!Live
<1>3. TypeOK'
    BY <1>1, <1>2 DEF IInv, LaunchedAsAsked, TypeOK
<1>4. InTurn'
    BY <1>1, <1>2 DEF IInv, InTurn, Unstarted
<1>5. QED
    BY <1>1, <1>2, <1>3, <1>4, SameTasks DEF IInv, LaunchedAsAsked

\* A started task gives up the CPU, which goes up the table.
LEMMA LoopStep ==
    ASSUME IInv, NEW t \in Task, event_loop(t)
    PROVE  IInv'
<1>1. running = t /\ prog[t] # NoApp /\ GivesWay
      /\ UNCHANGED <<at, entry, appVars, open>>
    BY DEF event_loop, Runs
<1>2. running # Root
    BY <1>1, SlotFacts
<1>3. Scheduled' /\ Live' = Live /\ InTurn'
    BY <1>1, <1>2, StartedBelow, GivesWayUpwards
<1>4. UNCHANGED <<at, entry, launched, prog, ptr, open>>
    BY <1>1 DEF appVars
<1>5. TypeOK'
    BY <1>2, <1>4 DEF IInv, LaunchedAsAsked, TypeOK, Root
<1>6. QED
    BY <1>3, <1>4, <1>5, SameTasks DEF IInv, LaunchedAsAsked

\* exec() starts its program without the wrapper.
LEMMA ExecStep ==
    ASSUME IInv, NEW t \in Task, NEW u \in Task, NEW s \in Stacks, NEW a \in App,
           exec(t, u, s, a)
    PROVE  IInv'
<1>1. UNCHANGED <<at, entry, open>> /\ u \in Slot /\ S!task_spawn(u, s)
      /\ launched' = [launched EXCEPT ![u] = a]
      /\ prog' = [prog EXCEPT ![u] = a]
      /\ ptr' = [ptr EXCEPT ![u] = NoCanvas]
    BY SlotFacts DEF exec, Spawns
<1>2. Scheduled' /\ S!Live' = S!Live \cup {u} /\ running' = running
    BY <1>1, SpawnScheduled DEF IInv
<1>3. Live' = Live \cup {u}
    BY <1>2, SlotFacts DEF Live, Root
<1>4. TypeOK'
    BY <1>1, <1>2 DEF IInv, LaunchedAsAsked, TypeOK
<1>5. \A v \in Live' :
        /\ prog'[v] = IF v = u THEN a ELSE prog[v]
        /\ launched'[v] = IF v = u THEN a ELSE launched[v]
    BY <1>1, <1>3, SlotFacts DEF IInv, LaunchedAsAsked, TypeOK
<1>6. LaunchedAsAsked'
    BY <1>3, <1>4, <1>5 DEF IInv, LaunchedAsAsked
<1>7. Unstarted' \subseteq Unstarted /\ u \notin Unstarted'
    BY <1>3, <1>5, AppAssumption DEF Unstarted
<1>8. InTurn'
    BY <1>1, <1>2, <1>3, <1>5, <1>7 DEF IInv, InTurn, Unstarted
<1>9. QED
    BY <1>2, <1>6, <1>8 DEF IInv

\* A task ends, and the CPU goes up the table.
LEMMA ExitStep ==
    ASSUME IInv, NEW t \in Task, exit(t)
    PROVE  IInv'
<1>1. running = t /\ prog[t] # NoApp /\ UNCHANGED <<at, entry, appVars, open>>
    BY DEF exit, Runs
<1>2. running # Root
    BY <1>1, SlotFacts
<1>3. UNCHANGED <<at, entry, launched, prog, ptr, open>>
    BY <1>1 DEF appVars
<1>4. PICK next \in Slot : S!task_exit(next)
    BY DEF exit, Slot
<1>5. Scheduled' /\ S!Live' = S!Live \ {running} /\ running' = next /\ S!Picks(next)
    BY <1>2, <1>4, ExitScheduled DEF IInv
<1>6. Live' \subseteq Live
    BY <1>5 DEF Live
<1>7. Unstarted' \subseteq Unstarted
    BY <1>3, <1>6 DEF Unstarted
<1>8. ASSUME NEW u \in Unstarted
      PROVE  /\ launched[u] = entry
             /\ running' # Root /\ running' <= u /\ at = "yield in loop"
    <2>1. u \in S!Live /\ running < u
        BY <1>1, <1>2, StartedBelow DEF Unstarted, Live
    <2>2. running < next /\ next <= u
        BY <1>5, <2>1, PicksUpwards DEF IInv
    <2>3. next # Root
        BY <2>2, SlotFacts DEF IInv, Scheduled
    <2>4. launched[u] = entry /\ at = "yield in loop"
        BY <1>2 DEF IInv, InTurn
    <2>5. QED
        BY <1>5, <2>2, <2>3, <2>4
<1>9. InTurn'
    BY <1>3, <1>7, <1>8 DEF InTurn
<1>10. TypeOK'
    BY <1>2, <1>3 DEF IInv, LaunchedAsAsked, TypeOK, Root
<1>11. QED
    BY <1>3, <1>5, <1>6, <1>9, <1>10, SameTasks DEF IInv, LaunchedAsAsked

\* Nothing changes.
LEMMA StutterStep ==
    ASSUME IInv, UNCHANGED vars
    PROVE  IInv'
<1>1. UNCHANGED <<schedVars, at, entry, launched, prog, ptr, open>>
    BY DEF vars, appVars
<1>2. Scheduled' /\ Live' = Live /\ running' = running
    BY <1>1 DEF IInv, Scheduled, schedVars, tableVars, Live, S!Live
<1>3. TypeOK'
    BY <1>1, <1>2 DEF IInv, LaunchedAsAsked, TypeOK
<1>4. InTurn'
    BY <1>1, <1>2 DEF IInv, InTurn, Unstarted
<1>5. QED
    BY <1>1, <1>2, <1>3, <1>4, SameTasks DEF IInv, LaunchedAsAsked

-----------------------------------------------------------------------------
\* The invariant holds at the start.
LEMMA InvInit == Init => IInv
<1> SUFFICES ASSUME Init PROVE IInv
    OBVIOUS
<1>1. Scheduled
    BY ScheduledInit
<1>2. Live = {}
    BY SlotFacts DEF Init, S!Init, Live, S!Live, Slot, Root
<1>3. running = Root
    BY DEF Init, S!Init, Root
<1>4. TypeOK
    BY <1>3 DEF Init, TypeOK, Place, Root
<1>5. QED
    BY <1>1, <1>2, <1>4 DEF IInv, LaunchedAsAsked, InTurn, Unstarted

\* Every step keeps the invariant.
LEMMA InvStep == IInv /\ [Next]_vars => IInv'
<1> SUFFICES ASSUME IInv, [Next]_vars PROVE IInv'
    OBVIOUS
<1>1. CASE RootStep
    <2>1. ASSUME NEW a \in App, app_trampoline_panics(a) PROVE IInv'
        BY <2>1, PanicStep DEF app_trampoline_panics
    <2>2. QED
        BY <1>1, <2>1, InputStep, LaunchStep, FailedLaunchStep, RootYieldStep DEF RootStep
<1>2. ASSUME NEW t \in Task, TaskStep(t) PROVE IInv'
    <2>1. CASE busy_loop(t)
        BY <2>1, StutterStep DEF busy_loop
    <2>2. ASSUME NEW a \in App, exec_panics(t, a) PROVE IInv'
        BY <2>2, PanicStep DEF exec_panics
    <2>3. QED
        BY <1>2, <2>1, <2>2, WrapperStep, SurfaceStep, LoopStep, ExecStep, ExitStep DEF TaskStep
<1>3. CASE UNCHANGED vars
    BY <1>3, StutterStep
<1>4. QED
    BY <1>1, <1>2, <1>3 DEF Next, halt_loop

\* The invariant holds in every state.
LEMMA InvariantHolds == Spec => []IInv
<1>1. QED
    BY InvInit, InvStep, PTL DEF Spec

\* Every task runs the program it was spawned for: between app_trampoline(),
\* which sets app_entry_ptr, and the wrapper that reads it, the root task gets
\* no chance to set it again.
THEOREM EveryoneRunsWhatWasAsked == Spec => []LaunchedAsAsked
<1>1. IInv => LaunchedAsAsked
    BY DEF IInv
<1>2. QED
    BY <1>1, InvariantHolds, PTL

\* When the compositor takes its input again, every task launched before it has
\* started.
THEOREM AllStartedAtInput == Spec => []AllStarted
<1>1. IInv => AllStarted
    BY NobodyWaits DEF AllStarted, Unstarted, Root
<1>2. QED
    BY <1>1, InvariantHolds, PTL

-----------------------------------------------------------------------------
(* The pictures. *)

\* The columns and the lines of the buffer.
Columns == 0 .. ScreenW - 1
Lines == 0 .. ScreenH - 1

\* A product of numbers that are not negative, and one factor that grows.
LEMMA ProductGrows ==
    ASSUME NEW a \in Int, NEW b \in Int, NEW c \in Nat, a <= b
    PROVE  a * c <= b * c /\ a * c \in Int /\ b * c \in Int
<1> DEFINE d == b - a
<1>1. d \in Nat /\ b = a + d
    OBVIOUS
<1> HIDE DEF d
<1>2. d * c \in Nat /\ a * c \in Int
    BY <1>1
<1>3. (a + d) * c = a * c + d * c
    BY <1>1
<1> QED
    BY <1>1, <1>2, <1>3

\* The word of a cell of the screen is one of the buffer.
LEMMA WordOnScreen ==
    ASSUME NEW x \in Columns, NEW y \in Lines
    PROVE  Word(x, y) \in Words
<1>1. ScreenW \in Nat /\ ScreenH \in Nat /\ ScreenH - 1 \in Nat
    BY GfxAssumption
<1>2. x \in Nat /\ y \in Nat /\ x <= ScreenW - 1 /\ y <= ScreenH - 1
    BY <1>1 DEF Columns, Lines
<1>3. y * ScreenW <= (ScreenH - 1) * ScreenW /\ y * ScreenW \in Int
    BY <1>1, <1>2, ProductGrows
<1>4. (ScreenH - 1) * ScreenW = ScreenW * ScreenH - ScreenW
    BY <1>1
<1>5. y * ScreenW \in Nat /\ ScreenW * ScreenH \in Int
    BY <1>1, <1>2
<1> QED
    BY <1>1, <1>2, <1>3, <1>4, <1>5 DEF Word, Words

\* A cell with whole coordinates is on the screen when its column and its line
\* are.
LEMMA OnScreenIs ==
    ASSUME NEW x \in Int, NEW y \in Int
    PROVE  OnScreen(x, y) <=> x \in Columns /\ y \in Lines
BY GfxAssumption DEF OnScreen, Beyond, Columns, Lines

\* What is looked at cell by cell is drawn on the screen only.
LEMMA DrawnIs ==
    ASSUME NEW cells \in SUBSET (Int \X Int)
    PROVE  /\ Drawn(cells) = {Word(c[1], c[2]) : c \in {d \in Columns \X Lines : d \in cells}}
           /\ Drawn(cells) \subseteq Words
<1>1. ASSUME NEW v \in Drawn(cells)
      PROVE  v \in {Word(c[1], c[2]) : c \in {d \in Columns \X Lines : d \in cells}}
  <2>1. PICK c \in cells : v \in gfx_pixel(c[1], c[2])
    BY <1>1 DEF Drawn
  <2>2. c[1] \in Int /\ c[2] \in Int /\ c = <<c[1], c[2]>>
    OBVIOUS
  <2>3. OnScreen(c[1], c[2]) /\ v = Word(c[1], c[2])
    BY <2>1 DEF gfx_pixel
  <2>4. c \in {d \in Columns \X Lines : d \in cells}
    BY <2>2, <2>3, OnScreenIs
  <2> QED
    BY <2>3, <2>4
<1>2. ASSUME NEW c \in Columns \X Lines, c \in cells
      PROVE  Word(c[1], c[2]) \in Drawn(cells)
  <2>1. c[1] \in Int /\ c[2] \in Int /\ c[1] \in Columns /\ c[2] \in Lines
    BY DEF Columns, Lines
  <2>2. gfx_pixel(c[1], c[2]) = {Word(c[1], c[2])}
    BY <2>1, OnScreenIs DEF gfx_pixel
  <2> QED
    BY <1>2, <2>2 DEF Drawn
<1>3. \A c \in Columns \X Lines : Word(c[1], c[2]) \in Words
    BY WordOnScreen
<1> QED
    BY <1>1, <1>2, <1>3

\* The cells of a box.
Cells(x, y, w, h) ==
    {d \in Int \X Int : x <= d[1] /\ d[1] < x + w /\ y <= d[2] /\ d[2] < y + h}

\* What is drawn of a box is what Within() says.
LEMMA BoxDrawn ==
    ASSUME NEW x \in Int, NEW y \in Int, NEW w \in Int, NEW h \in Int
    PROVE  Drawn(Cells(x, y, w, h)) = Within(x, y, w, h)
<1> DEFINE on == {d \in Columns \X Lines : d \in Cells(x, y, w, h)}
           in == {d \in (0 .. ScreenW - 1) \X (0 .. ScreenH - 1) :
                    /\ x <= d[1] /\ d[1] < x + w
                    /\ y <= d[2] /\ d[2] < y + h}
<1>1. Columns \X Lines \subseteq Int \X Int
    BY DEF Columns, Lines
<1>2. on = in
    BY <1>1 DEF Cells, Columns, Lines
<1>3. Within(x, y, w, h) = {Word(c[1], c[2]) : c \in in}
    BY DEF Within
<1>4. Cells(x, y, w, h) \in SUBSET (Int \X Int)
    BY DEF Cells
<1>5. Drawn(Cells(x, y, w, h)) = {Word(c[1], c[2]) : c \in on}
    BY <1>4, DrawnIs
<1> HIDE DEF on, in
<1> QED
    BY <1>2, <1>3, <1>5

\* Within() stays in the buffer, and is larger for a larger box.
LEMMA WithinGrows ==
    ASSUME NEW cells \in SUBSET (Int \X Int),
           NEW x \in Int, NEW y \in Int, NEW w \in Int, NEW h \in Int,
           cells \subseteq Cells(x, y, w, h)
    PROVE  Drawn(cells) \subseteq Within(x, y, w, h)
<1>1. Cells(x, y, w, h) \in SUBSET (Int \X Int)
    BY DEF Cells
<1>2. Drawn(cells) \subseteq Drawn(Cells(x, y, w, h))
    BY DEF Drawn
<1> QED
    BY <1>2, BoxDrawn

\* The part of a length on the screen.
LEMMA ClippedIs ==
    ASSUME NEW v \in Int, NEW len \in Int, NEW limit \in Nat
    PROVE  /\ ClippedStart(v) \in Nat /\ ClippedLen(v, len, limit) \in Int
           /\ ClippedStart(v) + ClippedLen(v, len, limit) <= limit
           /\ v + len >= 0 =>
                \A c \in Int : (ClippedStart(v) <= c /\ c < ClippedStart(v) + ClippedLen(v, len, limit))
                                  <=> (c \in 0 .. limit - 1 /\ v <= c /\ c < v + len)
BY DEF ClippedStart, ClippedLen, Beyond

\* A filled rectangle paints what of it lies on the screen.
LEMMA FillExact ==
    ASSUME NEW x \in Int, NEW y \in Int, NEW w \in Int, NEW h \in Int
    PROVE  /\ fill_rect(x, y, w, h) \subseteq Words
           /\ ~EndsBefore(x, y, w, h) => fill_rect(x, y, w, h) = Within(x, y, w, h)
<1> DEFINE sx == ClippedStart(x)
           sy == ClippedStart(y)
           cw == ClippedLen(x, w, ScreenW)
           ch == ClippedLen(y, h, ScreenH)
           in == {d \in (0 .. ScreenW - 1) \X (0 .. ScreenH - 1) :
                    /\ x <= d[1] /\ d[1] < x + w
                    /\ y <= d[2] /\ d[2] < y + h}
           block == {<<sx + i, sy + j>> : i \in 0 .. cw - 1, j \in 0 .. ch - 1}
<1>0. ScreenW \in Nat /\ ScreenH \in Nat
    BY GfxAssumption
<1>1. /\ sx \in Nat /\ cw \in Int /\ sx + cw <= ScreenW
      /\ x + w >= 0 => \A c \in Int : (sx <= c /\ c < sx + cw)
                                        <=> (c \in 0 .. ScreenW - 1 /\ x <= c /\ c < x + w)
    BY <1>0, ClippedIs
<1>2. /\ sy \in Nat /\ ch \in Int /\ sy + ch <= ScreenH
      /\ y + h >= 0 => \A c \in Int : (sy <= c /\ c < sy + ch)
                                        <=> (c \in 0 .. ScreenH - 1 /\ y <= c /\ c < y + h)
    BY <1>0, ClippedIs
<1>3. fill_rect(x, y, w, h) = {Word(c[1], c[2]) : c \in block}
    BY DEF fill_rect, Written, Block
<1> HIDE DEF sx, sy, cw, ch
<1>4. \A c \in block : c[1] \in Columns /\ c[2] \in Lines
    BY <1>0, <1>1, <1>2 DEF Columns, Lines
<1>5. {Word(c[1], c[2]) : c \in block} \subseteq Words
    BY <1>4, WordOnScreen
<1>6. ASSUME ~EndsBefore(x, y, w, h)
      PROVE  block = in
  <2>1. x + w >= 0 /\ y + h >= 0
    BY <1>6 DEF EndsBefore
  <2>2. ASSUME NEW c \in block
        PROVE  c \in in
    <3>1. PICK i \in 0 .. cw - 1, j \in 0 .. ch - 1 : c = <<sx + i, sy + j>>
        OBVIOUS
    <3>2. sx + i \in Int /\ sx <= sx + i /\ sx + i < sx + cw
        BY <1>1, <3>1
    <3>3. sy + j \in Int /\ sy <= sy + j /\ sy + j < sy + ch
        BY <1>2, <3>1
    <3>4. sx + i \in 0 .. ScreenW - 1 /\ x <= sx + i /\ sx + i < x + w
        BY <1>1, <2>1, <3>2
    <3>5. sy + j \in 0 .. ScreenH - 1 /\ y <= sy + j /\ sy + j < y + h
        BY <1>2, <2>1, <3>3
    <3> QED
        BY <3>1, <3>4, <3>5
  <2>3. ASSUME NEW c \in in
        PROVE  c \in block
    <3>1. c = <<c[1], c[2]>> /\ c[1] \in 0 .. ScreenW - 1 /\ c[2] \in 0 .. ScreenH - 1
          /\ x <= c[1] /\ c[1] < x + w /\ y <= c[2] /\ c[2] < y + h
        OBVIOUS
    <3>2. sx <= c[1] /\ c[1] < sx + cw /\ c[1] \in Int
        BY <1>1, <2>1, <3>1
    <3>3. sy <= c[2] /\ c[2] < sy + ch /\ c[2] \in Int
        BY <1>2, <2>1, <3>1
    <3> DEFINE i == c[1] - sx
               j == c[2] - sy
    <3>4. i \in 0 .. cw - 1 /\ j \in 0 .. ch - 1 /\ sx + i = c[1] /\ sy + j = c[2]
        BY <1>1, <1>2, <3>2, <3>3
    <3> HIDE DEF i, j
    <3> QED
        BY <3>1, <3>4
  <2> QED
    BY <2>2, <2>3
<1> HIDE DEF block, in
<1>7. Within(x, y, w, h) = {Word(c[1], c[2]) : c \in in}
    BY DEF Within, in
<1> QED
    BY <1>3, <1>5, <1>6, <1>7

\* A radius that is used leaves the corners apart.
LEMMA RadiusFits ==
    ASSUME NEW w \in Nat, NEW h \in Nat, NEW radius \in Nat
    PROVE  /\ Radius(radius, w, h) \in Nat
           /\ 2 * Radius(radius, w, h) <= w /\ 2 * Radius(radius, w, h) <= h
<1>1. w \div 2 \in Nat /\ 2 * (w \div 2) <= w
    OBVIOUS
<1>2. h \div 2 \in Nat /\ 2 * (h \div 2) <= h
    OBVIOUS
<1> DEFINE hw == w \div 2
           hh == h \div 2
           byWidth == IF radius * 2 > w THEN hw ELSE radius
<1>3. Radius(radius, w, h) = IF byWidth * 2 > h THEN hh ELSE byWidth
    BY DEF Radius
<1> HIDE DEF hw, hh
<1>4. hw \in Nat /\ 2 * hw <= w /\ hh \in Nat /\ 2 * hh <= h
    BY <1>1, <1>2 DEF hw, hh
<1> QED
    BY <1>3, <1>4

\* How far a column is beyond the corners' centres, as in_rounded() has it.
Off(p, len, r) == p - (IF p < r THEN r ELSE len - 1 - r)

\* Seen from the other side it is as far.
LEMMA OffMirrored ==
    ASSUME NEW len \in Nat, NEW r \in Nat, 2 * r <= len, NEW p \in 0 .. len - 1
    PROVE  /\ len - 1 - p \in 0 .. len - 1 /\ Off(p, len, r) \in Int
           /\ (len - 1 - p >= r /\ len - 1 - p < len - r) <=> (p >= r /\ p < len - r)
           /\ ~(p >= r /\ p < len - r) => Off(len - 1 - p, len, r) = -Off(p, len, r)
BY DEF Off

\* The corners are alike.
LEMMA RoundedMirrored ==
    ASSUME NEW w \in Nat, NEW h \in Nat, NEW r \in Nat, 2 * r <= w, 2 * r <= h,
           NEW px \in 0 .. w - 1, NEW py \in 0 .. h - 1, in_rounded(px, py, w, h, r)
    PROVE  in_rounded(w - 1 - px, py, w, h, r) /\ in_rounded(px, h - 1 - py, w, h, r)
<1> DEFINE inX(p) == p >= r /\ p < w - r
           inY(p) == p >= r /\ p < h - r
           near(dx, dy) == dx * dx + dy * dy <= r * r
<1>1. \A p, q : in_rounded(p, q, w, h, r) <=> inX(p) \/ inY(q) \/ near(Off(p, w, r), Off(q, h, r))
    BY DEF in_rounded, Off
<1>2. Off(px, w, r) \in Int /\ (inX(w - 1 - px) <=> inX(px))
      /\ (~inX(px) => Off(w - 1 - px, w, r) = -Off(px, w, r))
    BY OffMirrored
<1>3. Off(py, h, r) \in Int /\ (inY(h - 1 - py) <=> inY(py))
      /\ (~inY(py) => Off(h - 1 - py, h, r) = -Off(py, h, r))
    BY OffMirrored
<1>4. \A a \in Int : (-a) * (-a) = a * a
    OBVIOUS
<1>5. \A a, b \in Int : near(-a, b) <=> near(a, b)
    BY <1>4
<1>6. \A a, b \in Int : near(a, -b) <=> near(a, b)
    BY <1>4
<1> HIDE DEF inX, inY, near
<1> QED
    BY <1>1, <1>2, <1>3, <1>5, <1>6

\* Cells that are moved into a box are drawn within it.
LEMMA MovedWithin ==
    ASSUME NEW cells \in SUBSET (Int \X Int), NEW x \in Int, NEW y \in Int,
           NEW x0 \in Int, NEW y0 \in Int, NEW w \in Int, NEW h \in Int,
           \A c \in cells : x0 <= c[1] + x /\ c[1] + x < x0 + w /\ y0 <= c[2] + y /\ c[2] + y < y0 + h
    PROVE  Drawn(Moved(cells, x, y)) \subseteq Within(x0, y0, w, h)
<1> DEFINE moved == Moved(cells, x, y)
<1>1. \A c \in cells : c[1] \in Int /\ c[2] \in Int
    OBVIOUS
<1>2. moved \in SUBSET (Int \X Int) /\ moved \subseteq Cells(x0, y0, w, h)
    BY <1>1 DEF Moved, Cells
<1> HIDE DEF moved
<1>3. Drawn(moved) \subseteq Within(x0, y0, w, h)
    BY <1>2, WithinGrows
<1> QED
    BY <1>3 DEF moved

\* The rounded rectangle stays in its box and looks the same from all sides.
LEMMA RoundedExact ==
    ASSUME NEW x \in Int, NEW y \in Int, NEW w \in Nat, NEW h \in Nat, NEW radius \in Nat
    PROVE  /\ Drawn(rounded_rect(x, y, w, h, radius)) \subseteq Within(x, y, w, h)
           /\ \A c \in Rounded(w, h, radius) : /\ <<w - 1 - c[1], c[2]>> \in Rounded(w, h, radius)
                                               /\ <<c[1], h - 1 - c[2]>> \in Rounded(w, h, radius)
<1> DEFINE cells == Rounded(w, h, radius)
           r == Radius(radius, w, h)
<1>0. r \in Nat /\ 2 * r <= w /\ 2 * r <= h
    BY RadiusFits
<1>1. cells = {c \in Inner(w, h) : in_rounded(c[1], c[2], w, h, r)}
    BY DEF Rounded
<1> HIDE DEF r
<1>2. cells \in SUBSET (Int \X Int)
    BY <1>1 DEF Inner
<1>3. \A c \in cells : x <= c[1] + x /\ c[1] + x < x + w /\ y <= c[2] + y /\ c[2] + y < y + h
    BY <1>1 DEF Inner
<1>4. Drawn(rounded_rect(x, y, w, h, radius)) \subseteq Within(x, y, w, h)
  <2> HIDE DEF cells
  <2>1. w \in Int /\ h \in Int
    OBVIOUS
  <2>2. Drawn(Moved(cells, x, y)) \subseteq Within(x, y, w, h)
    BY <1>2, <1>3, <2>1, MovedWithin
  <2> QED
    BY <2>2 DEF rounded_rect, cells
<1>5. ASSUME NEW c \in cells
      PROVE  <<w - 1 - c[1], c[2]>> \in cells /\ <<c[1], h - 1 - c[2]>> \in cells
  <2>1. c[1] \in 0 .. w - 1 /\ c[2] \in 0 .. h - 1 /\ in_rounded(c[1], c[2], w, h, r)
    BY <1>1 DEF Inner
  <2>2. in_rounded(w - 1 - c[1], c[2], w, h, r) /\ in_rounded(c[1], h - 1 - c[2], w, h, r)
    BY <1>0, <2>1, RoundedMirrored
  <2>3. w - 1 - c[1] \in 0 .. w - 1 /\ h - 1 - c[2] \in 0 .. h - 1
    BY <2>1
  <2> HIDE DEF cells
  <2> QED
    BY <1>1, <2>1, <2>2, <2>3 DEF Inner
<1> QED
    BY <1>4, <1>5

\* The outline is what of it touches the outside.
LEMMA OutlineExact ==
    ASSUME NEW x \in Int, NEW y \in Int, NEW w \in Nat, NEW h \in Nat, NEW radius \in Nat
    PROVE  /\ rounded_outline(x, y, w, h, radius) =
                Moved({c \in Rounded(w, h, radius) : ~(Neighbours(c) \subseteq Rounded(w, h, radius))}, x, y)
           /\ Drawn(rounded_outline(x, y, w, h, radius)) \subseteq Within(x, y, w, h)
<1> DEFINE cells == Rounded(w, h, radius)
           r == Radius(radius, w, h)
           in(c) == in_rounded(c[1], c[2], w, h, r)
           inner(c) == /\ c[1] \in 1 .. w - 2 /\ c[2] \in 1 .. h - 2
                       /\ in(c) /\ \A n \in Neighbours(c) : in(n)
           edge == {c \in cells : ~(Neighbours(c) \subseteq cells)}
           outer == {c \in Inner(w, h) : in(c) /\ ~inner(c)}
<1>1. cells = {c \in Inner(w, h) : in(c)}
    BY DEF Rounded
<1>2. rounded_outline(x, y, w, h, radius) = Moved(outer, x, y)
    BY DEF rounded_outline
<1> HIDE DEF cells, in
<1>3. ASSUME NEW c \in Inner(w, h), in(c)
      PROVE  inner(c) <=> Neighbours(c) \subseteq cells
  <2>1. c[1] \in 0 .. w - 1 /\ c[2] \in 0 .. h - 1
    BY DEF Inner
  <2>2. (\A n \in Neighbours(c) : n \in Inner(w, h)) <=> c[1] \in 1 .. w - 2 /\ c[2] \in 1 .. h - 2
    BY <2>1 DEF Neighbours, Inner
  <2> QED
    BY <1>1, <1>3, <2>2
<1>4. outer = edge
  <2> HIDE DEF inner
  <2> QED
    BY <1>1, <1>3
<1>5. edge \in SUBSET (Int \X Int)
    BY <1>1 DEF Inner
<1>6. \A c \in edge : x <= c[1] + x /\ c[1] + x < x + w /\ y <= c[2] + y /\ c[2] + y < y + h
    BY <1>1 DEF Inner
<1> HIDE DEF edge, outer
<1>7. w \in Int /\ h \in Int
    OBVIOUS
<1>8. Drawn(Moved(edge, x, y)) \subseteq Within(x, y, w, h)
    BY <1>5, <1>6, <1>7, MovedWithin
<1> QED
    BY <1>2, <1>4, <1>8 DEF edge, cells

\* Whatever lies within a box lies in the buffer, and within a larger box.
LEMMA WithinLarger ==
    ASSUME NEW x \in Int, NEW y \in Int, NEW w \in Int, NEW h \in Int,
           NEW x0 \in Int, NEW y0 \in Int, NEW w0 \in Int, NEW h0 \in Int,
           x0 <= x, x + w <= x0 + w0, y0 <= y, y + h <= y0 + h0
    PROVE  Within(x, y, w, h) \subseteq Within(x0, y0, w0, h0)
<1> DEFINE a == {d \in (0 .. ScreenW - 1) \X (0 .. ScreenH - 1) :
                   /\ x <= d[1] /\ d[1] < x + w
                   /\ y <= d[2] /\ d[2] < y + h}
           b == {d \in (0 .. ScreenW - 1) \X (0 .. ScreenH - 1) :
                   /\ x0 <= d[1] /\ d[1] < x0 + w0
                   /\ y0 <= d[2] /\ d[2] < y0 + h0}
<1>1. ASSUME NEW d \in a
      PROVE  d \in b
  <2>1. d[1] \in Int /\ d[2] \in Int
    OBVIOUS
  <2> QED
    BY <1>1, <2>1
<1> HIDE DEF a, b
<1>2. Within(x, y, w, h) = {Word(c[1], c[2]) : c \in a}
    BY DEF Within, a
<1>3. Within(x0, y0, w0, h0) = {Word(c[1], c[2]) : c \in b}
    BY DEF Within, b
<1> QED
    BY <1>1, <1>2, <1>3

\* Nothing within a box lies outside the buffer.
LEMMA WithinWords ==
    ASSUME NEW x \in Int, NEW y \in Int, NEW w \in Int, NEW h \in Int
    PROVE  Within(x, y, w, h) \subseteq Words
BY WordOnScreen DEF Within, Columns, Lines

\* What is drawn of cells that are moved lies in the buffer.
LEMMA MovedWords ==
    ASSUME NEW cells \in SUBSET (Int \X Int), NEW x \in Int, NEW y \in Int
    PROVE  Moved(cells, x, y) \in SUBSET (Int \X Int) /\ Drawn(Moved(cells, x, y)) \subseteq Words
<1> DEFINE moved == Moved(cells, x, y)
<1>1. \A c \in cells : c[1] \in Int /\ c[2] \in Int
    OBVIOUS
<1>2. moved \in SUBSET (Int \X Int)
    BY <1>1 DEF Moved
<1> HIDE DEF moved
<1>3. Drawn(moved) \subseteq Words
    BY <1>2, DrawnIs
<1> QED
    BY <1>2, <1>3 DEF moved

\* The highlight stays in its box.
LEMMA HighlightWithin ==
    ASSUME NEW x \in Int, NEW y \in Int, NEW w \in Nat, NEW h \in Nat, NEW radius \in Nat
    PROVE  Drawn(glass_highlight(x, y, w, h, radius)) \subseteq Within(x, y, w, h)
<1> DEFINE r == AtLeast(Radius(radius, w, h), 1)
           rows == AtLeast(h \div 3, 2)
           cells == {c \in Inner(w, h) : c[2] < rows /\ in_rounded(c[1], c[2], w, h, r)}
<1>1. glass_highlight(x, y, w, h, radius) = Moved(cells, x, y)
    BY DEF glass_highlight
<1> HIDE DEF r, rows
<1>2. cells \in SUBSET (Int \X Int)
    BY DEF Inner
<1>3. \A c \in cells : x <= c[1] + x /\ c[1] + x < x + w /\ y <= c[2] + y /\ c[2] + y < y + h
    BY DEF Inner
<1>4. w \in Int /\ h \in Int
    OBVIOUS
<1> HIDE DEF cells
<1> QED
    BY <1>1, <1>2, <1>3, <1>4, MovedWithin

\* The spot fits a box of 8 by 8 or more.
LEMMA SpotFits ==
    ASSUME NEW w \in Nat, NEW m \in Nat, m <= w
    PROVE  /\ AtLeast(m \div 6, 2) \in Nat /\ w \div 4 \in Nat
           /\ w >= 8 => /\ w \div 4 - AtLeast(m \div 6, 2) >= 0
                        /\ w \div 4 + AtLeast(m \div 6, 2) < w
<1>1. m \div 6 \in Nat /\ 6 * (m \div 6) <= m
    OBVIOUS
<1>2. w \div 4 \in Nat /\ 4 * (w \div 4) <= w /\ w < 4 * (w \div 4) + 4
    OBVIOUS
<1> DEFINE s == m \div 6
           q == w \div 4
<1> HIDE DEF s, q
<1>3. s \in Nat /\ 6 * s <= m /\ q \in Nat /\ 4 * q <= w /\ w < 4 * q + 4
    BY <1>1, <1>2 DEF s, q
<1>4. AtLeast(s, 2) \in Nat /\ (w >= 8 => q - AtLeast(s, 2) >= 0 /\ q + AtLeast(s, 2) < w)
    BY <1>3 DEF AtLeast
<1> QED
    BY <1>3, <1>4 DEF s, q

\* The spot stays in its box, if that is of 8 by 8 or more.
LEMMA SpecularWithin ==
    ASSUME NEW x \in Int, NEW y \in Int, NEW w \in Nat, NEW h \in Nat, NEW radius \in Nat
    PROVE  /\ Drawn(glass_specular(x, y, w, h, radius)) \subseteq Words
           /\ w >= 8 /\ h >= 8 =>
                Drawn(glass_specular(x, y, w, h, radius)) \subseteq Within(x, y, w, h)
<1> DEFINE r == AtLeast(Radius(radius, w, h), 1)
           m == IF w < h THEN w ELSE h
           sr == AtLeast(m \div 6, 2)
           qw == w \div 4
           qh == h \div 4
           spot == {<<qw + i, qh + j>> : i \in -sr .. sr, j \in -sr .. sr}
           near(c) == (c[1] - qw) * (c[1] - qw) + (c[2] - qh) * (c[2] - qh) <= sr * sr
           cells == {c \in spot : near(c) /\ in_rounded(c[1], c[2], w, h, r)}
<1>1. glass_specular(x, y, w, h, radius) = Moved(cells, x, y)
    BY DEF glass_specular
<1>2. m \in Nat /\ m <= w /\ m <= h
    OBVIOUS
<1> HIDE DEF m
<1>3. sr \in Nat /\ qw \in Nat /\ (w >= 8 => qw - sr >= 0 /\ qw + sr < w)
    BY <1>2, SpotFits
<1>4. qh \in Nat /\ (h >= 8 => qh - sr >= 0 /\ qh + sr < h)
    BY <1>2, SpotFits
<1> HIDE DEF r, sr, qw, qh, near
<1>5. cells \in SUBSET (Int \X Int)
    BY <1>3, <1>4
<1>6. \A c \in cells : c[1] \in qw - sr .. qw + sr /\ c[2] \in qh - sr .. qh + sr
    BY <1>3, <1>4
<1> HIDE DEF cells
<1>7. Drawn(Moved(cells, x, y)) \subseteq Words
    BY <1>5, MovedWords
<1>8. ASSUME w >= 8 /\ h >= 8
      PROVE  Drawn(Moved(cells, x, y)) \subseteq Within(x, y, w, h)
  <2>1. \A c \in cells : x <= c[1] + x /\ c[1] + x < x + w /\ y <= c[2] + y /\ c[2] + y < y + h
    BY <1>3, <1>4, <1>6, <1>8
  <2>2. w \in Int /\ h \in Int
    OBVIOUS
  <2> QED
    BY <1>5, <2>1, <2>2, MovedWithin
<1> QED
    BY <1>1, <1>7, <1>8

\* Glass paints its box and its shadow.
LEMMA GlassExact ==
    ASSUME NEW x \in Int, NEW y \in Int, NEW w \in Nat, NEW h \in Nat, NEW radius \in Nat
    PROVE  /\ liquid_glass(x, y, w, h, radius) \subseteq Words
           /\ w >= 8 /\ h >= 8 /\ ~EndsBefore(x, y, w, h) =>
                liquid_glass(x, y, w, h, radius) \subseteq Within(x, y, w + 3, h + 3)
<1> DEFINE a == fill_rect(x + 3, y + 3, w, h)
           b == fill_rect(x, y, w, h)
           c == Drawn(rounded_rect(x + 3, y + 3, w, h, radius))
           d == Drawn(rounded_rect(x, y, w, h, radius))
           e == Drawn(rounded_outline(x, y, w, h, radius))
           f == Drawn(glass_highlight(x, y, w, h, radius))
           g == Drawn(glass_specular(x, y, w, h, radius))
           big == Within(x, y, w + 3, h + 3)
           box == Within(x, y, w, h)
           shade == Within(x + 3, y + 3, w, h)
<1>1. liquid_glass(x, y, w, h, radius) = a \cup b \cup c \cup d \cup e \cup f \cup g
    BY DEF liquid_glass
<1>2. w \in Int /\ h \in Int /\ x + 3 \in Int /\ y + 3 \in Int
    OBVIOUS
<1>3. box \subseteq big /\ shade \subseteq big
  <2>1. w + 3 \in Int /\ h + 3 \in Int /\ x <= x + 3 /\ y <= y + 3
        /\ x <= x /\ y <= y /\ x + w <= x + (w + 3) /\ y + h <= y + (h + 3)
        /\ (x + 3) + w <= x + (w + 3) /\ (y + 3) + h <= y + (h + 3)
    OBVIOUS
  <2> QED
    BY <1>2, <2>1, WithinLarger
<1>4. box \subseteq Words /\ shade \subseteq Words
    BY <1>2, WithinWords
<1>5. a \subseteq Words /\ (~EndsBefore(x + 3, y + 3, w, h) => a = shade)
    BY <1>2, FillExact
<1>6. b \subseteq Words /\ (~EndsBefore(x, y, w, h) => b = box)
    BY <1>2, FillExact
<1>7. ~EndsBefore(x, y, w, h) => ~EndsBefore(x + 3, y + 3, w, h)
    BY DEF EndsBefore
<1>8. c \subseteq shade
    BY <1>2, RoundedExact
<1>9. d \subseteq box
    BY RoundedExact
<1>10. e \subseteq box
    BY OutlineExact
<1>11. f \subseteq box
    BY HighlightWithin
<1>12. g \subseteq Words /\ (w >= 8 /\ h >= 8 => g \subseteq box)
    BY SpecularWithin
<1> HIDE DEF a, b, c, d, e, f, g, box, shade, big
<1> QED
    BY <1>1, <1>3, <1>4, <1>5, <1>6, <1>7, <1>8, <1>9, <1>10, <1>11, <1>12 DEF big

\* The pairs in order, along which a recursion that closes in on a pair goes.
Below == {ss \in Nat \X Nat : ss[1] < ss[2]}

\* There is no endless descent among the naturals.
LEMMA BelowWellFounded == IsWellFoundedOn(Below, Nat)
BY NatLessThanWellFounded DEF OpToRel, Below

\* Min() of a set of naturals that is not empty is the least of them.
LEMMA LeastThere ==
    ASSUME NEW V \in SUBSET Nat, V # {}
    PROVE  Min(V) \in V /\ \A i \in V : Min(V) <= i
<1> DEFINE Least(x) == x \in V /\ \A y \in V : x <= y
<1>1. PICK m \in V : \A k \in V : ~(<<k, m>> \in Below)
    BY BelowWellFounded, WFMin
<1>2. Least(m)
  <2> SUFFICES ASSUME NEW k \in V
               PROVE  m <= k
    OBVIOUS
  <2>1. k \in Nat /\ m \in Nat /\ ~(<<k, m>> \in Below)
    BY <1>1
  <2> QED
    BY <2>1 DEF Below
<1>3. Min(V) = CHOOSE x : Least(x)
    BY DEF Min
<1> QED
    BY <1>2, <1>3

\* Max() of a set of naturals that is not empty and has a bound is the greatest.
LEMMA GreatestThere ==
    ASSUME NEW n \in Nat, NEW V \in SUBSET (0 .. n), V # {}
    PROVE  Max(V) \in V /\ \A i \in V : Max(V) >= i
<1> DEFINE T == {n - i : i \in V}
           Greatest(x) == x \in V /\ \A y \in V : x >= y
<1>1. T \in SUBSET Nat /\ T # {}
  <2>1. \A i \in V : n - i \in Nat
    OBVIOUS
  <2> QED
    BY <2>1
<1>2. Min(T) \in T /\ \A i \in T : Min(T) <= i
  <2> HIDE DEF T
  <2> QED
    BY <1>1, LeastThere
<1> DEFINE t == Min(T)
<1> HIDE DEF t
<1>3. t \in T /\ \A i \in V : t <= n - i
    BY <1>2 DEF t
<1>4. PICK m \in V : t = n - m
    BY <1>3
<1>5. Greatest(m)
    BY <1>3, <1>4
<1>6. Max(V) = CHOOSE x : Greatest(x)
    BY DEF Max
<1> QED
    BY <1>5, <1>6

\* The larger of two numbers.
LEMMA MaxOfTwo ==
    ASSUME NEW a \in Int, NEW b \in Int
    PROVE  Max({a, b}) = IF a < b THEN b ELSE a
<1> DEFINE Greatest(x) == x \in {a, b} /\ \A y \in {a, b} : x >= y
           m == IF a < b THEN b ELSE a
<1>1. Greatest(m) /\ \A x : Greatest(x) => x = m
    OBVIOUS
<1>2. Max({a, b}) = CHOOSE x : Greatest(x)
    BY DEF Max
<1> HIDE DEF m, Greatest
<1>3. (CHOOSE x : Greatest(x)) = m
    BY <1>1
<1> QED
    BY <1>2, <1>3 DEF m

\* The smaller of two numbers.
LEMMA MinOfTwo ==
    ASSUME NEW a \in Int, NEW b \in Int
    PROVE  Min({a, b}) = IF a <= b THEN a ELSE b
<1> DEFINE Least(x) == x \in {a, b} /\ \A y \in {a, b} : x <= y
           m == IF a <= b THEN a ELSE b
<1>1. Least(m) /\ \A x : Least(x) => x = m
    OBVIOUS
<1>2. Min({a, b}) = CHOOSE x : Least(x)
    BY DEF Min
<1> HIDE DEF m, Least
<1>3. (CHOOSE x : Least(x)) = m
    BY <1>1
<1> QED
    BY <1>2, <1>3 DEF m

\* Division with a remainder.
LEMMA Divides ==
    ASSUME NEW v \in Nat, NEW q \in Nat \ {0}
    PROVE  v \div q \in Nat /\ v % q \in 0 .. q - 1 /\ v = (v \div q) * q + (v % q)
OBVIOUS

\* What is less than so many times the divisor.
LEMMA QuotientBelow ==
    ASSUME NEW v \in Nat, NEW q \in Nat \ {0}, NEW k \in Int, v < k * q
    PROVE  v \div q \in Nat /\ v \div q < k
<1> DEFINE d == v \div q
           r == v % q
<1>1. d \in Nat /\ r \in Nat /\ v = d * q + r
    BY Divides
<1> HIDE DEF d, r
<1>2. d * q < k * q
    BY <1>1
<1>3. ~(k <= d)
  <2> SUFFICES ASSUME k <= d
               PROVE  FALSE
    OBVIOUS
  <2>1. k * q <= d * q /\ k * q \in Int /\ d * q \in Int
    BY <1>1, ProductGrows
  <2> QED
    BY <1>2, <2>1
<1> QED
    BY <1>1, <1>3 DEF d

\* The other shapes are made of whole cells.
LEMMA ShapesWhole ==
    ASSUME NEW x \in Int, NEW y \in Int, NEW w \in Int, NEW h \in Int
    PROVE  /\ rect_outline(x, y, w, h) \in SUBSET (Int \X Int)
           /\ circle(x, y, w) \in SUBSET (Int \X Int)
           /\ gfx_pixel(x, y) \subseteq Words
<1>1. rect_outline(x, y, w, h) \in SUBSET (Int \X Int)
  <2>1. \A a, b, n \in Int : hline(a, b, n) \in SUBSET (Int \X Int) /\ vline(a, b, n) \in SUBSET (Int \X Int)
    BY DEF hline, vline
  <2> QED
    BY <2>1 DEF rect_outline
<1>2. circle(x, y, w) \in SUBSET (Int \X Int)
  <2> DEFINE disk == {e \in (-w .. w) \X (-w .. w) : e[1] * e[1] + e[2] * e[2] <= w * w}
  <2>1. \A d \in disk : x + d[1] \in Int /\ y + d[2] \in Int
    OBVIOUS
  <2>2. circle(x, y, w) = {<<x + d[1], y + d[2]>> : d \in disk}
    BY DEF circle
  <2> HIDE DEF disk
  <2> QED
    BY <2>1, <2>2
<1>3. gfx_pixel(x, y) \subseteq Words
    BY OnScreenIs, WordOnScreen DEF gfx_pixel
<1> QED
    BY <1>1, <1>2, <1>3

-----------------------------------------------------------------------------
(* Text. *)

\* The line breaks before a place of a text, and the column the place is in.
Breaks(s, k) == {i \in 1 .. k - 1 : s[i] = "newline"}
Column(s, k) == k - 1 - (IF Breaks(s, k) = {} THEN 0 ELSE Max(Breaks(s, k)))

\* The places of a text that show a character.
Shown(s) == {i \in 1 .. Len(s) : s[i] # "newline"}

\* The line and the column of a character are numbers.
LEMMA ColumnWhole ==
    ASSUME NEW s \in Seq(STRING), NEW k \in 1 .. Len(s)
    PROVE  Column(s, k) \in Int /\ Cardinality(Breaks(s, k)) \in Nat
<1>1. k \in Nat /\ k - 1 \in Nat
    OBVIOUS
<1>2. Breaks(s, k) \subseteq 1 .. k - 1 /\ Breaks(s, k) \in SUBSET (0 .. k - 1)
    BY <1>1 DEF Breaks
<1>3. Cardinality(Breaks(s, k)) \in Nat
  <2>1. IsFiniteSet(1 .. k - 1)
    BY <1>1, FS_Interval
  <2>2. IsFiniteSet(Breaks(s, k))
    BY <1>2, <2>1, FS_Subset
  <2> QED
    BY <2>2, FS_CardinalityType
<1>4. Breaks(s, k) # {} => Max(Breaks(s, k)) \in Int
  <2>1. Breaks(s, k) # {} => Max(Breaks(s, k)) \in Breaks(s, k)
    BY <1>1, <1>2, GreatestThere
  <2> QED
    BY <1>2, <2>1
<1> QED
    BY <1>1, <1>3, <1>4 DEF Column

\* Characters are put at whole cells, by both libraries.
LEMMA PlacesWhole ==
    ASSUME NEW s \in Seq(STRING), NEW x \in Int, NEW y \in Int, NEW scale \in Int
    PROVE  /\ CharPlaces(s, x, y, scale) \in SUBSET (Int \X Int)
           /\ fb_places(s, x, y) \in SUBSET (Int \X Int)
<1>0. Glyph \in Int
    BY GfxAssumption
<1>1. CharPlaces(s, x, y, scale) =
        {<<x + Column(s, k) * Glyph * scale, y + Cardinality(Breaks(s, k)) * (Glyph + 1) * scale>> : k \in Shown(s)}
    BY DEF CharPlaces, Column, Breaks, Shown
<1>2. fb_places(s, x, y) =
        {<<x + Column(s, k) * (Glyph + 1), y + Cardinality(Breaks(s, k)) * (Glyph + 2)>> : k \in Shown(s)}
    BY DEF fb_places, Column, Breaks, Shown
<1>3. \A k \in Shown(s) : Column(s, k) \in Int /\ Cardinality(Breaks(s, k)) \in Int
    BY ColumnWhole DEF Shown
<1>4. \A a, b \in Int : a * b \in Int
    OBVIOUS
<1>5. \A k \in Shown(s) : /\ x + Column(s, k) * Glyph * scale \in Int
                          /\ y + Cardinality(Breaks(s, k)) * (Glyph + 1) * scale \in Int
                          /\ x + Column(s, k) * (Glyph + 1) \in Int
                          /\ y + Cardinality(Breaks(s, k)) * (Glyph + 2) \in Int
  <2> SUFFICES ASSUME NEW k \in Shown(s)
               PROVE  /\ x + Column(s, k) * Glyph * scale \in Int
                      /\ y + Cardinality(Breaks(s, k)) * (Glyph + 1) * scale \in Int
                      /\ x + Column(s, k) * (Glyph + 1) \in Int
                      /\ y + Cardinality(Breaks(s, k)) * (Glyph + 2) \in Int
    OBVIOUS
  <2> DEFINE a == Column(s, k)
             b == Cardinality(Breaks(s, k))
  <2>1. a \in Int /\ b \in Int
    BY <1>3
  <2> HIDE DEF a, b
  <2>2. a * Glyph \in Int /\ b * (Glyph + 1) \in Int /\ a * (Glyph + 1) \in Int /\ b * (Glyph + 2) \in Int
    BY <1>0, <2>1
  <2>3. a * Glyph * scale \in Int /\ b * (Glyph + 1) * scale \in Int
    BY <1>4, <2>2
  <2> QED
    BY <2>2, <2>3 DEF a, b
<1> QED
    BY <1>1, <1>2, <1>5

\* A union of characters that are moved is drawn on the screen.
LEMMA CharactersWords ==
    ASSUME NEW places \in SUBSET (Int \X Int)
    PROVE  LET cells == UNION {Moved(Inner(Glyph, Glyph), p[1], p[2]) : p \in places}
           IN  cells \in SUBSET (Int \X Int) /\ Drawn(cells) \subseteq Words
<1> DEFINE cells == UNION {Moved(Inner(Glyph, Glyph), p[1], p[2]) : p \in places}
<1>1. Inner(Glyph, Glyph) \in SUBSET (Int \X Int)
    BY GfxAssumption DEF Inner
<1>2. \A p \in places : Moved(Inner(Glyph, Glyph), p[1], p[2]) \in SUBSET (Int \X Int)
    BY <1>1, MovedWords
<1>3. cells \in SUBSET (Int \X Int)
    BY <1>2
<1> HIDE DEF cells
<1>4. Drawn(cells) \subseteq Words
    BY <1>3, DrawnIs
<1> QED
    BY <1>3, <1>4 DEF cells

\* A text without a newline fills a box of its width, one character high.
LEMMA LineOfText ==
    ASSUME NEW s \in Seq(STRING), NEW x \in Int, NEW y \in Int, "newline" \notin ToSet(s)
    PROVE  text_cells(s, x, y) = Cells(x, y, Len(s) * Glyph, Glyph)
<1> DEFINE G == Glyph
           n == Len(s)
           places == {<<x + (k - 1) * G, y>> : k \in 1 .. n}
<1>0. G \in Nat \ {0} /\ n \in Nat
    BY GfxAssumption
<1>1. \A i \in 1 .. n : s[i] # "newline"
    BY DEF ToSet
<1>2. CharPlaces(s, x, y, 1) = places
  <2>1. Shown(s) = 1 .. n
    BY <1>1 DEF Shown
  <2>2. \A k \in 1 .. n : Breaks(s, k) = {}
    BY <1>0, <1>1 DEF Breaks
  <2>3. Cardinality({}) = 0
    BY FS_EmptySet
  <2>4. CharPlaces(s, x, y, 1) =
          {<<x + Column(s, k) * G * 1, y + Cardinality(Breaks(s, k)) * (G + 1) * 1>> : k \in Shown(s)}
    BY DEF CharPlaces, Column, Breaks, Shown
  <2>5. \A k \in 1 .. n : x + Column(s, k) * G * 1 = x + (k - 1) * G
    <3> SUFFICES ASSUME NEW k \in 1 .. n
                 PROVE  x + Column(s, k) * G * 1 = x + (k - 1) * G
        OBVIOUS
    <3>1. Column(s, k) = k - 1 /\ k - 1 \in Int
        BY <1>0, <2>2 DEF Column
    <3>2. (k - 1) * G \in Int
        BY <1>0, <3>1
    <3> QED
        BY <3>1, <3>2
  <2>6. \A k \in 1 .. n : y + Cardinality(Breaks(s, k)) * (G + 1) * 1 = y
    <3> SUFFICES ASSUME NEW k \in 1 .. n
                 PROVE  y + Cardinality(Breaks(s, k)) * (G + 1) * 1 = y
        OBVIOUS
    <3>1. Cardinality(Breaks(s, k)) = 0
        BY <2>2, <2>3
    <3>2. 0 * (G + 1) * 1 = 0
        BY <1>0
    <3> QED
        BY <3>1, <3>2
  <2> HIDE DEF n, G
  <2> QED
    BY <2>1, <2>4, <2>5, <2>6
<1> HIDE DEF G, n
<1>3. Inner(G, G) = (0 .. G - 1) \X (0 .. G - 1)
    BY DEF Inner
<1>4. ASSUME NEW c \in text_cells(s, x, y)
      PROVE  c \in Cells(x, y, n * G, G)
  <2>1. PICK p \in places : c \in Moved(Inner(G, G), p[1], p[2])
    BY <1>2 DEF text_cells, G
  <2>2. PICK k \in 1 .. n : p = <<x + (k - 1) * G, y>>
    BY <2>1
  <2>3. PICK d \in (0 .. G - 1) \X (0 .. G - 1) : c = <<d[1] + p[1], d[2] + p[2]>>
    BY <1>3, <2>1 DEF Moved
  <2> DEFINE m == (k - 1) * G
  <2>4. m \in Nat /\ m + G <= n * G /\ n * G \in Int
    <3>1. k - 1 \in Nat /\ k \in Int /\ k <= n
        BY <1>0
    <3>2. k * G <= n * G /\ k * G \in Int /\ n * G \in Int
        BY <1>0, <3>1, ProductGrows
    <3>3. (k - 1) * G + G = k * G /\ (k - 1) * G \in Nat
        BY <1>0, <3>1
    <3> QED
        BY <3>2, <3>3
  <2>5. c = <<d[1] + (x + m), d[2] + y>> /\ d[1] \in 0 .. G - 1 /\ d[2] \in 0 .. G - 1
    BY <2>2, <2>3
  <2> HIDE DEF m
  <2> QED
    BY <1>0, <2>4, <2>5 DEF Cells
<1>5. ASSUME NEW c \in Cells(x, y, n * G, G)
      PROVE  c \in text_cells(s, x, y)
  <2>1. c = <<c[1], c[2]>> /\ c[1] \in Int /\ c[2] \in Int /\ x <= c[1] /\ c[1] < x + n * G
        /\ y <= c[2] /\ c[2] < y + G
    BY DEF Cells
  <2> DEFINE v == c[1] - x
             q == v \div G
             r == v % G
  <2>2. v \in Nat /\ v < n * G
    <3>1. n * G \in Int
        BY <1>0
    <3> QED
        BY <2>1, <3>1
  <2> HIDE DEF v
  <2>3. q \in Nat /\ q < n
    BY <1>0, <2>2, QuotientBelow
  <2>4. r \in 0 .. G - 1 /\ v = q * G + r
    BY <1>0, <2>2, Divides
  <2> HIDE DEF q, r
  <2> DEFINE k == q + 1
             p == <<x + (k - 1) * G, y>>
  <2>5. k \in 1 .. n /\ p \in places
    BY <1>0, <2>3
  <2>6. p = <<x + q * G, y>>
    BY <2>3
  <2>7. c[1] = r + p[1] /\ c[2] - y \in 0 .. G - 1 /\ c[2] = (c[2] - y) + p[2]
    <3>1. q * G \in Int /\ c[1] = x + v
        BY <1>0, <2>1, <2>3 DEF v
    <3> QED
        BY <1>0, <2>1, <2>4, <2>6, <3>1
  <2> HIDE DEF p
  <2>8. c \in Moved(Inner(G, G), p[1], p[2])
    <3> DEFINE d == <<r, c[2] - y>>
    <3>1. d \in Inner(G, G) /\ c = <<d[1] + p[1], d[2] + p[2]>>
        BY <1>3, <2>1, <2>4, <2>7
    <3> HIDE DEF d
    <3> QED
        BY <3>1 DEF Moved
  <2> HIDE DEF places
  <2> QED
    BY <1>2, <2>5, <2>8 DEF text_cells, G
<1> QED
    BY <1>4, <1>5 DEF n, G

\* A text is drawn on the screen, and one of one line within its width.
LEMMA TextExactly ==
    ASSUME NEW s \in Seq(STRING), NEW x \in Int, NEW y \in Int
    PROVE  /\ Drawn(text_cells(s, x, y)) \subseteq Words
           /\ "newline" \notin ToSet(s) =>
                Drawn(text_cells(s, x, y)) = Within(x, y, (gfx_text_width(s) \div 8) * Glyph, Glyph)
<1>1. Drawn(text_cells(s, x, y)) \subseteq Words
  <2>1. CharPlaces(s, x, y, 1) \in SUBSET (Int \X Int)
    BY PlacesWhole
  <2> QED
    BY <2>1, CharactersWords DEF text_cells
<1>2. ASSUME "newline" \notin ToSet(s)
      PROVE  Drawn(text_cells(s, x, y)) = Within(x, y, (gfx_text_width(s) \div 8) * Glyph, Glyph)
  <2>1. Len(s) \in Nat
    OBVIOUS
  <2>2. gfx_text_width(s) \div 8 = Len(s)
    BY <2>1 DEF gfx_text_width
  <2>3. Len(s) * Glyph \in Int /\ Glyph \in Int
    BY <2>1, GfxAssumption
  <2> QED
    BY <1>2, <2>2, <2>3, LineOfText, BoxDrawn
<1> QED
    BY <1>1, <1>2

\* Enlarged characters are filled rectangles.
LEMMA ScaledWords ==
    ASSUME NEW s \in Seq(STRING), NEW x \in Int, NEW y \in Int, NEW scale \in Nat
    PROVE  text_scaled(s, x, y, scale) \subseteq Words
<1>1. CharPlaces(s, x, y, scale) \in SUBSET (Int \X Int)
    BY PlacesWhole
<1>2. ASSUME NEW p \in CharPlaces(s, x, y, scale), NEW i \in 0 .. Glyph - 1, NEW j \in 0 .. Glyph - 1
      PROVE  fill_rect(p[1] + i * scale, p[2] + j * scale, scale, scale) \subseteq Words
  <2>1. p[1] \in Int /\ p[2] \in Int
    BY <1>1
  <2>2. i * scale \in Int /\ j * scale \in Int /\ scale \in Int
    BY GfxAssumption
  <2>3. p[1] + i * scale \in Int /\ p[2] + j * scale \in Int
    BY <2>1, <2>2
  <2> QED
    BY <2>2, <2>3, FillExact
<1> QED
    BY <1>2 DEF text_scaled

\* A number below a product, from a digit and a number below the one factor.
LEMMA TwoDigits ==
    ASSUME NEW p \in Nat \ {0}, NEW b \in Nat \ {0}, NEW t \in 0 .. b - 1, NEW r \in 0 .. p - 1
    PROVE  t * p + r \in 0 .. b * p - 1
<1>1. t \in Int /\ b - 1 \in Int /\ t <= b - 1 /\ p \in Nat
    OBVIOUS
<1>2. t * p <= (b - 1) * p /\ t * p \in Int /\ (b - 1) * p \in Int
    BY <1>1, ProductGrows
<1>3. (b - 1) * p = b * p - p /\ t * p \in Nat /\ b * p \in Int
    BY <1>1
<1> QED
    BY <1>2, <1>3

\* The word of a picture that a cell shows is one of the picture.
LEMMA SourceInside ==
    ASSUME NEW sw \in Nat \ {0}, NEW sh \in Nat \ {0}, NEW dw \in Nat \ {0}, NEW dh \in Nat \ {0},
           NEW i \in 0 .. dw - 1, NEW j \in 0 .. dh - 1
    PROVE  SourceWord(i, j, sw, sh, dw, dh) \in 0 .. sw * sh - 1
<1> DEFINE row == (j * sh) \div dh
           column == (i * sw) \div dw
<1>1. \A a, b \in Nat \ {0} : \A k \in 0 .. b - 1 : k * a \in Nat /\ k * a < a * b
  <2> SUFFICES ASSUME NEW a \in Nat \ {0}, NEW b \in Nat \ {0}, NEW k \in 0 .. b - 1
               PROVE  k * a \in Nat /\ k * a < a * b
    OBVIOUS
  <2>1. k + 1 \in Int /\ b \in Int /\ k + 1 <= b /\ a \in Nat
    OBVIOUS
  <2>2. (k + 1) * a <= b * a /\ b * a \in Int
    BY <2>1, ProductGrows
  <2>3. (k + 1) * a = k * a + a /\ k * a \in Nat /\ b * a = a * b
    OBVIOUS
  <2> QED
    BY <2>2, <2>3
<1>2. row \in Nat /\ row < sh
  <2>1. j * sh \in Nat /\ j * sh < sh * dh /\ sh \in Int
    BY <1>1
  <2> QED
    BY <2>1, QuotientBelow
<1>3. column \in Nat /\ column < sw
  <2>1. i * sw \in Nat /\ i * sw < sw * dw /\ sw \in Int
    BY <1>1
  <2> QED
    BY <2>1, QuotientBelow
<1> HIDE DEF row, column
<1>4. row * sw + column \in 0 .. sh * sw - 1
    BY <1>2, <1>3, TwoDigits
<1>5. sh * sw = sw * sh
    OBVIOUS
<1> QED
    BY <1>4, <1>5 DEF SourceWord, row, column

\* A blit reads within its picture, and writes what of its box is on the screen.
BlitRight(pixels, sw, sh, x, y, w, h) ==
    /\ \A p \in pixels : p.from \in 0 .. sw * sh - 1
    /\ sw > 0 /\ sh > 0 => {p.word : p \in pixels} = Within(x, y, w, h)

\* A picture is read within its bounds and fills its box.
LEMMA BlitExact ==
    ASSUME NEW sw \in Nat, NEW sh \in Nat, NEW x \in Int, NEW y \in Int, NEW w \in Nat, NEW h \in Nat
    PROVE  BlitRight(blit_scaled(sw, sh, x, y, w, h), sw, sh, x, y, w, h)
<1> DEFINE pixels == blit_scaled(sw, sh, x, y, w, h)
           on == {d \in Inner(w, h) : OnScreen(x + d[1], y + d[2])}
           pixel(c) == [word |-> Word(x + c[1], y + c[2]), from |-> SourceWord(c[1], c[2], sw, sh, w, h)]
           in == {d \in (0 .. ScreenW - 1) \X (0 .. ScreenH - 1) :
                    /\ x <= d[1] /\ d[1] < x + w
                    /\ y <= d[2] /\ d[2] < y + h}
           words == {Word(c[1], c[2]) : c \in in}
<1>1. Within(x, y, w, h) = words
    BY DEF Within
<1>2. CASE w <= 0 \/ h <= 0 \/ sw <= 0 \/ sh <= 0
  <2>1. pixels = {}
    BY <1>2 DEF blit_scaled
  <2>2. w = 0 \/ h = 0 \/ sw = 0 \/ sh = 0
    BY <1>2
  <2>3. w = 0 \/ h = 0 => in = {}
    OBVIOUS
  <2> HIDE DEF pixels, in
  <2> QED
    BY <1>1, <2>1, <2>2, <2>3 DEF BlitRight, pixels
<1>3. CASE ~(w <= 0 \/ h <= 0 \/ sw <= 0 \/ sh <= 0)
  <2>1. pixels = {pixel(c) : c \in on}
    BY <1>3 DEF blit_scaled
  <2>2. w \in Nat \ {0} /\ h \in Nat \ {0} /\ sw \in Nat \ {0} /\ sh \in Nat \ {0}
    BY <1>3
  <2>3. \A c \in on : c[1] \in 0 .. w - 1 /\ c[2] \in 0 .. h - 1 /\ c = <<c[1], c[2]>>
                      /\ x + c[1] \in Columns /\ y + c[2] \in Lines
    <3> SUFFICES ASSUME NEW c \in on
                 PROVE  c[1] \in 0 .. w - 1 /\ c[2] \in 0 .. h - 1 /\ c = <<c[1], c[2]>>
                        /\ x + c[1] \in Columns /\ y + c[2] \in Lines
        OBVIOUS
    <3>1. c[1] \in 0 .. w - 1 /\ c[2] \in 0 .. h - 1 /\ c = <<c[1], c[2]>> /\ OnScreen(x + c[1], y + c[2])
        BY DEF Inner
    <3>2. x + c[1] \in Int /\ y + c[2] \in Int
        BY <3>1
    <3> QED
        BY <3>1, <3>2, OnScreenIs
  <2>4. \A c \in on : SourceWord(c[1], c[2], sw, sh, w, h) \in 0 .. sw * sh - 1
    BY <2>2, <2>3, SourceInside
  <2>5. \A c \in on : pixel(c).from = SourceWord(c[1], c[2], sw, sh, w, h)
                      /\ pixel(c).word = Word(x + c[1], y + c[2])
    OBVIOUS
  <2>6. ASSUME NEW c \in on
        PROVE  pixel(c).word \in words
    <3> DEFINE d == <<x + c[1], y + c[2]>>
    <3>1. d \in in
        BY <2>3 DEF Columns, Lines
    <3>2. Word(d[1], d[2]) = pixel(c).word
        BY <2>5
    <3> HIDE DEF d, in
    <3> QED
        BY <3>1, <3>2
  <2>7. ASSUME NEW d \in in
        PROVE  \E c \in on : pixel(c).word = Word(d[1], d[2])
    <3> DEFINE c == <<d[1] - x, d[2] - y>>
    <3>1. d[1] \in Columns /\ d[2] \in Lines /\ d[1] \in Int /\ d[2] \in Int
          /\ x <= d[1] /\ d[1] < x + w /\ y <= d[2] /\ d[2] < y + h
        BY DEF Columns, Lines
    <3>2. c \in Inner(w, h) /\ x + c[1] = d[1] /\ y + c[2] = d[2]
        BY <3>1 DEF Inner
    <3>3. OnScreen(d[1], d[2])
        BY <3>1, OnScreenIs
    <3>4. c \in on
        BY <3>2, <3>3
    <3>5. pixel(c).word = Word(d[1], d[2])
        BY <2>5, <3>2, <3>4
    <3> HIDE DEF c, on, pixel
    <3> QED
        BY <3>4, <3>5
  <2> HIDE DEF pixels, on, pixel, in
  <2>8. \A p \in pixels : p.from \in 0 .. sw * sh - 1
    BY <2>1, <2>4, <2>5
  <2>9. {p.word : p \in pixels} = words
    BY <2>1, <2>6, <2>7
  <2>10. BlitRight(pixels, sw, sh, x, y, w, h)
    BY <1>1, <2>8, <2>9 DEF BlitRight
  <2> QED
    BY <2>10 DEF pixels
<1> QED
    BY <1>2, <1>3

\* The routines of the framebuffer look at each cell.
LEMMA FramebufferIs ==
    ASSUME NEW cells \in SUBSET (Int \X Int)
    PROVE  fb_draw(cells) = Drawn(cells)
<1>1. \A c \in cells : fb_get_pixel_ptr(c[1], c[2]) = gfx_pixel(c[1], c[2])
  <2> SUFFICES ASSUME NEW c \in cells
               PROVE  fb_get_pixel_ptr(c[1], c[2]) = gfx_pixel(c[1], c[2])
    OBVIOUS
  <2>1. c[1] \in Int /\ c[2] \in Int
    OBVIOUS
  <2> QED
    BY <2>1 DEF fb_get_pixel_ptr, gfx_pixel, OnScreen, Beyond
<1> QED
    BY <1>1 DEF fb_draw, Drawn

\* A rectangle there is what of it lies on the screen.
LEMMA FramebufferBox ==
    ASSUME NEW x \in Int, NEW y \in Int, NEW w \in Nat, NEW h \in Nat
    PROVE  fb_draw(fb_cells(x, y, w, h)) = Within(x, y, w, h)
<1> DEFINE cells == {<<x + i, y + j>> : i \in 0 .. w - 1, j \in 0 .. h - 1}
<1>1. cells = Cells(x, y, w, h)
  <2>1. ASSUME NEW c \in cells
        PROVE  c \in Cells(x, y, w, h)
    BY DEF Cells
  <2>2. ASSUME NEW c \in Cells(x, y, w, h)
        PROVE  c \in cells
    <3>1. c = <<c[1], c[2]>> /\ c[1] \in Int /\ c[2] \in Int /\ x <= c[1] /\ c[1] < x + w
          /\ y <= c[2] /\ c[2] < y + h
        BY DEF Cells
    <3> DEFINE i == c[1] - x
               j == c[2] - y
    <3>2. i \in 0 .. w - 1 /\ j \in 0 .. h - 1 /\ c[1] = x + i /\ c[2] = y + j
        BY <3>1
    <3> HIDE DEF i, j
    <3> QED
        BY <3>1, <3>2
  <2> QED
    BY <2>1, <2>2
<1>2. Cells(x, y, w, h) \in SUBSET (Int \X Int) /\ w \in Int /\ h \in Int
    BY DEF Cells
<1> HIDE DEF cells
<1>3. fb_draw(cells) = Within(x, y, w, h)
    BY <1>1, <1>2, FramebufferIs, BoxDrawn
<1>4. fb_cells(x, y, w, h) = cells
    BY DEF fb_cells, cells
<1> QED
    BY <1>3, <1>4

\* A string there is drawn on the screen.
LEMMA FramebufferText ==
    ASSUME NEW s \in Seq(STRING), NEW x \in Int, NEW y \in Int
    PROVE  fb_draw(UNION {Moved(Inner(Glyph, Glyph), p[1], p[2]) : p \in fb_places(s, x, y)}) \subseteq Words
<1> DEFINE cells == UNION {Moved(Inner(Glyph, Glyph), p[1], p[2]) : p \in fb_places(s, x, y)}
<1>1. fb_places(s, x, y) \in SUBSET (Int \X Int)
    BY PlacesWhole
<1>2. cells \in SUBSET (Int \X Int) /\ Drawn(cells) \subseteq Words
    BY <1>1, CharactersWords
<1> HIDE DEF cells
<1>3. fb_draw(cells) \subseteq Words
    BY <1>2, FramebufferIs
<1> QED
    BY <1>3 DEF cells

\* What is shown of the buffer that was settled for.
LEMMA PresentFits ==
    ASSUME NEW w \in Nat, NEW h \in Nat, w >= 640,
           NEW memory \in Nat, gfx_init_size(w, h, memory).there
    PROVE  LET init == gfx_init_size(w, h, memory)
           IN  present_last(init, w * 4) < h * w * 4 \/ init.size.h > h
<1> DEFINE sizes == SizesTried(w, h)
           Buffers == [w : Nat, h : Nat]
           Good(s) == s \in [size : Buffers, there : BOOLEAN, left : Int] /\ s.size.w <= w
           start == [size |-> [w |-> 0, h |-> 0], there |-> FALSE, left |-> memory]
<1>1. Len(sizes) = 3 /\ \A i \in 1 .. 3 : sizes[i] \in Buffers /\ sizes[i].w <= w
    BY DEF SizesTried
<1>2. ASSUME NEW s, Good(s), NEW size \in Buffers, size.w <= w
      PROVE  Good(Tried(s, size))
  <2>1. size.w \in Nat /\ size.h \in Nat /\ s.left \in Int
    BY <1>2
  <2>2. size.w * size.h \in Nat
    BY <2>1
  <2> DEFINE settled == [s EXCEPT !.size = size, !.there = TRUE]
             less == IF size.w * size.h <= s.left THEN s.left - size.w * size.h ELSE s.left
             lost == [s EXCEPT !.size = size, !.left = less]
  <2>3. less \in Int
    BY <2>1, <2>2
  <2> HIDE DEF less
  <2>4. Good(settled)
    BY <1>2
  <2>5. Good(lost)
    BY <1>2, <2>3
  <2>6. Tried(s, size) \in {s, settled, lost}
    <3> HIDE DEF Good
    <3>1. CASE s.there
        BY <3>1 DEF Tried
    <3>2. CASE ~s.there /\ 2 * size.w * size.h <= s.left
        BY <3>2 DEF Tried
    <3>3. CASE ~s.there /\ ~(2 * size.w * size.h <= s.left)
        BY <3>3 DEF Tried, less
    <3> QED
        BY <3>1, <3>2, <3>3
  <2> HIDE DEF Good, settled, lost
  <2> QED
    BY <1>2, <2>4, <2>5, <2>6
<1>3. Good(start)
    OBVIOUS
<1>4. gfx_init_size(w, h, memory) = Tried(Tried(Tried(start, sizes[1]), sizes[2]), sizes[3])
    BY DEF gfx_init_size
<1>5. Good(gfx_init_size(w, h, memory))
  <2> HIDE DEF Good, start, sizes
  <2>1. Good(Tried(start, sizes[1]))
    BY <1>1, <1>2, <1>3
  <2>2. Good(Tried(Tried(start, sizes[1]), sizes[2]))
    BY <1>1, <1>2, <2>1
  <2>3. Good(Tried(Tried(Tried(start, sizes[1]), sizes[2]), sizes[3]))
    BY <1>1, <1>2, <2>2
  <2> QED
    BY <1>4, <2>3
<1> DEFINE init == gfx_init_size(w, h, memory)
           iw == init.size.w
           ih == init.size.h
<1>6. iw \in Nat /\ ih \in Nat /\ iw <= w /\ init.there
    BY <1>5
<1> HIDE DEF init, iw, ih
<1>7. present_last(init, w * 4) = (ih - 1) * (w * 4) + iw * 4 - 1
    BY <1>6 DEF present_last, iw, ih
<1>8. ASSUME ih <= h
      PROVE  (ih - 1) * (w * 4) + iw * 4 - 1 < h * w * 4
  <2> DEFINE p == w * 4
  <2>1. p \in Nat /\ iw * 4 <= p
    BY <1>6
  <2>2. ih * p <= h * p /\ ih * p \in Int /\ h * p \in Int
    BY <1>6, <1>8, <2>1, ProductGrows
  <2>3. (ih - 1) * p = ih * p - p
    BY <1>6, <2>1
  <2>4. h * w * 4 = h * p
    OBVIOUS
  <2> HIDE DEF p
  <2> QED
    BY <1>6, <2>1, <2>2, <2>3, <2>4 DEF p
<1>9. present_last(init, w * 4) < h * w * 4 \/ ih > h
    BY <1>6, <1>7, <1>8
<1> QED
    BY <1>9 DEF init, ih

\* Induction up to n, with the set of the numbers it has reached as data.
LEMMA UpTo ==
    ASSUME NEW n \in Nat, NEW T, 0 \in T, \A i \in 1 .. n : i - 1 \in T => i \in T
    PROVE  \A i \in 0 .. n : i \in T
<1> DEFINE bad == {i \in 0 .. n : i \notin T}
<1>1. SUFFICES ASSUME bad # {}
               PROVE  FALSE
    OBVIOUS
<1>2. PICK m \in bad : \A k \in bad : ~(<<k, m>> \in Below)
  <2>1. bad \subseteq Nat
    OBVIOUS
  <2> HIDE DEF bad
  <2> QED
    BY <1>1, <2>1, BelowWellFounded, WFMin
<1>3. m \in 0 .. n /\ m \notin T /\ m # 0
    BY <1>2
<1>4. m - 1 \in Nat /\ m - 1 \in 0 .. n /\ m \in 1 .. n /\ m \in Nat
    BY <1>3
<1>5. m - 1 \notin bad
  <2>1. <<m - 1, m>> \in Below
    <3> HIDE DEF bad
    <3>1. m - 1 < m
        BY <1>4
    <3> QED
        BY <1>4, <3>1 DEF Below
  <2> HIDE DEF bad
  <2> QED
    BY <1>2, <2>1, Zenon
<1> QED
    BY <1>3, <1>4, <1>5

\* The values f[i] of a loop of n steps: each step is a function of the value
\* before it.
IsLoop(f, n, V, base, step) ==
    /\ f \in [0 .. n -> V] /\ f[0] = base
    /\ \A i \in 1 .. n : f[i] = step[i][f[i - 1]]

\* Every loop has its values.
LEMMA LoopExists ==
    ASSUME NEW n \in Nat, NEW V, NEW base \in V, NEW step \in [1 .. n -> [V -> V]]
    PROVE  \E f : IsLoop(f, n, V, base, step)
<1> DEFINE Good(f, m) == f \in [0 .. m -> V] /\ f[0] = base
                         /\ \A i \in 1 .. m : f[i] = step[i][f[i - 1]]
           T == {m \in 0 .. n : \E f \in [0 .. m -> V] : Good(f, m)}
<1>1. 0 \in T
  <2> DEFINE f == [i \in 0 .. 0 |-> base]
  <2>1. Good(f, 0)
    OBVIOUS
  <2>2. f \in [0 .. 0 -> V] /\ 0 \in 0 .. n
    OBVIOUS
  <2> HIDE DEF f
  <2> QED
    BY <2>1, <2>2
<1>2. ASSUME NEW m \in 1 .. n, m - 1 \in T
      PROVE  m \in T
  <2>1. PICK f \in [0 .. m - 1 -> V] : Good(f, m - 1)
    BY <1>2
  <2> DEFINE v == step[m][f[m - 1]]
             g == [i \in 0 .. m |-> IF i = m THEN v ELSE f[i]]
  <2>2. m - 1 \in 0 .. m - 1 /\ m \in 1 .. n /\ m \in Nat \ {0}
    OBVIOUS
  <2>3. f[m - 1] \in V
    BY <2>1, <2>2
  <2>4. v \in V
    BY <2>2, <2>3
  <2> HIDE DEF v
  <2>5. g \in [0 .. m -> V] /\ g[0] = base
    BY <2>1, <2>2, <2>4
  <2>6. \A i \in 0 .. m - 1 : g[i] = f[i]
    BY <2>2
  <2>7. ASSUME NEW i \in 1 .. m
        PROVE  g[i] = step[i][g[i - 1]]
    <3>1. i - 1 \in 0 .. m - 1
        BY <2>2
    <3>2. CASE i = m
        BY <2>2, <2>6, <3>1, <3>2 DEF v
    <3>3. CASE i # m
      <4>1. i \in 1 .. m - 1 /\ i \in 0 .. m - 1
        BY <2>2, <3>3
      <4> QED
        BY <2>1, <2>6, <3>1, <4>1
    <3> QED
        BY <3>2, <3>3
  <2> HIDE DEF g
  <2>8. Good(g, m)
    BY <2>5, <2>7
  <2>9. \E h \in [0 .. m -> V] : Good(h, m)
    BY <2>5, <2>8, Zenon
  <2> QED
    BY <2>9
<1> HIDE DEF T
<1>3. \A m \in 0 .. n : m \in T
  <2>1. \A m \in 1 .. n : m - 1 \in T => m \in T
    BY <1>2
  <2> QED
    BY <1>1, <2>1, UpTo
<1> QED
    BY <1>3 DEF T, IsLoop

\* The walk along a line of m steps on the longer side and n on the shorter: how
\* many steps it has made on the shorter one, and the error that decides of the
\* next.
Steered(q, m, n) == IF q.d < n THEN [k |-> q.k + 1, d |-> q.d - n + m] ELSE [k |-> q.k, d |-> q.d - n]

\* The walk of m steps along a line, n of which move to the side.
IsWalk(w, m, n) ==
    /\ w \in [0 .. m -> [k : Int, d : Int]]
    /\ w[0] = [k |-> 0, d |-> m \div 2]
    /\ \A i \in 1 .. m : w[i] = Steered(w[i - 1], m, n)

\* The error says how far the walk is off, and stays below the longer side.
LEMMA WalkStays ==
    ASSUME NEW m \in Nat, NEW n \in 0 .. m, NEW w, IsWalk(w, m, n)
    PROVE  \A i \in 0 .. m : /\ w[i].d = m \div 2 - i * n + w[i].k * m
                             /\ w[i].d \in Nat /\ (m > 0 => w[i].d < m)
                             /\ w[i].k \in Int
<1> DEFINE e == m \div 2
           Right(i) == /\ w[i].d = e - i * n + w[i].k * m
                       /\ w[i].d \in Nat /\ (m > 0 => w[i].d < m)
                       /\ w[i].k \in Int
           T == {i \in 0 .. m : Right(i)}
<1>0. e \in Nat /\ (m > 0 => e < m)
    OBVIOUS
<1> HIDE DEF e
<1>1. w[0] = [k |-> 0, d |-> e] /\ \A i \in 1 .. m : w[i] = Steered(w[i - 1], m, n)
    BY DEF IsWalk, e
<1>2. 0 \in T
  <2>1. 0 * n = 0 /\ 0 * m = 0
    OBVIOUS
  <2> QED
    BY <1>0, <1>1, <2>1
<1>3. ASSUME NEW i \in 1 .. m, i - 1 \in T
      PROVE  i \in T
  <2> DEFINE q == w[i - 1]
  <2>1. w[i] = Steered(q, m, n) /\ m > 0 /\ n \in Nat /\ n <= m
    BY <1>1
  <2>2. q.d = e - (i - 1) * n + q.k * m /\ q.d \in Nat /\ q.d < m /\ q.k \in Int
    BY <1>3, <2>1
  <2> HIDE DEF q
  <2>3. (i - 1) * n = i * n - n /\ (q.k + 1) * m = q.k * m + m /\ i * n \in Int /\ q.k * m \in Int
    BY <2>1, <2>2
  <2> DEFINE a == i * n
             b == q.k * m
             c == (q.k + 1) * m
  <2>4. q.d = e - a + n + b /\ c = b + m /\ a \in Int /\ b \in Int
    BY <1>0, <2>1, <2>2, <2>3
  <2> HIDE DEF a, b, c
  <2>5. CASE q.d < n
    <3>1. w[i].k = q.k + 1 /\ w[i].d = q.d - n + m
        BY <2>1, <2>5 DEF Steered
    <3>2. q.d - n + m = e - a + c /\ q.d - n + m \in Nat /\ q.d - n + m < m
        BY <1>0, <2>1, <2>2, <2>4, <2>5
    <3>3. Right(i)
        BY <2>2, <3>1, <3>2 DEF a, c
    <3> QED
        BY <3>3
  <2>6. CASE ~(q.d < n)
    <3>1. w[i].k = q.k /\ w[i].d = q.d - n
        BY <2>1, <2>6 DEF Steered
    <3>2. q.d - n = e - a + b /\ q.d - n \in Nat /\ q.d - n < m
        BY <1>0, <2>1, <2>2, <2>4, <2>6
    <3>3. Right(i)
        BY <2>2, <3>1, <3>2 DEF a, b
    <3> QED
        BY <3>3
  <2> QED
    BY <2>5, <2>6
<1> HIDE DEF T
<1>4. \A i \in 0 .. m : i \in T
    BY <1>2, <1>3, UpTo
<1> QED
    BY <1>4 DEF T, e

\* The walk is never off by more than half a point, and ends at the other end.
LEMMA WalkIsClose ==
    ASSUME NEW m \in Nat, NEW n \in 0 .. m, NEW w, IsWalk(w, m, n)
    PROVE  /\ \A i \in 0 .. m : /\ 2 * (i * n - w[i].k * m) <= m /\ 2 * (w[i].k * m - i * n) <= m
                                /\ w[i].k \in Int
           /\ w[m].k = n
<1> DEFINE e == m \div 2
<1>0. e \in Nat /\ 2 * e <= m /\ m <= 2 * e + 1
    OBVIOUS
<1> HIDE DEF e
<1>1. ASSUME NEW i \in 0 .. m
      PROVE  2 * (i * n - w[i].k * m) <= m /\ 2 * (w[i].k * m - i * n) <= m /\ w[i].k \in Int
  <2>1. w[i].d = e - i * n + w[i].k * m /\ w[i].d \in Nat /\ (m > 0 => w[i].d < m) /\ w[i].k \in Int
    BY WalkStays DEF e
  <2> DEFINE a == i * n
             b == w[i].k * m
             d == w[i].d
  <2>2. a \in Int /\ b \in Int /\ d = e - a + b /\ d \in Nat /\ (m > 0 => d < m)
    BY <2>1
  <2>3. m = 0 => a = 0 /\ b = 0
    BY <2>1
  <2> HIDE DEF a, b, d
  <2>4. 2 * (a - b) <= m /\ 2 * (b - a) <= m
    BY <1>0, <2>2, <2>3
  <2> QED
    BY <2>1, <2>4 DEF a, b
<1>2. w[m].k = n
  <2> DEFINE k == w[m].k
  <2>1. 2 * (m * n - k * m) <= m /\ 2 * (k * m - m * n) <= m /\ k \in Int
    BY <1>1
  <2> HIDE DEF k
  <2>2. CASE m = 0
    <3>1. n = 0 /\ w[0].k = 0
        BY <2>2 DEF IsWalk
    <3> QED
        BY <2>2, <3>1
  <2>3. CASE m > 0
    <3>1. n \in Nat
        OBVIOUS
    <3>2. ~(k < n)
      <4> SUFFICES ASSUME k + 1 <= n
                   PROVE  FALSE
          BY <2>1, <3>1
      <4>1. (k + 1) * m <= n * m /\ (k + 1) * m = k * m + m /\ n * m = m * n /\ k * m \in Int /\ n * m \in Int
          BY <2>1, <3>1, ProductGrows
      <4> QED
          BY <2>1, <2>3, <4>1
    <3>3. ~(n < k)
      <4> SUFFICES ASSUME n + 1 <= k
                   PROVE  FALSE
          BY <2>1, <3>1
      <4>1. (n + 1) * m <= k * m /\ (n + 1) * m = n * m + m /\ n * m = m * n /\ k * m \in Int /\ n * m \in Int
          BY <2>1, <3>1, ProductGrows
      <4> QED
          BY <2>1, <2>3, <4>1
    <3>4. k = n
        BY <2>1, <3>1, <3>2, <3>3
    <3> QED
        BY <3>4, Zenon DEF k
  <2> QED
    BY <2>2, <2>3
<1> QED
    BY <1>1, <1>2

\* There is such a walk.
LEMMA WalkExists ==
    ASSUME NEW m \in Nat, NEW n \in 0 .. m
    PROVE  \E w : IsWalk(w, m, n)
<1> DEFINE V == [k : Int, d : Int]
           base == [k |-> 0, d |-> m \div 2]
           step == [i \in 1 .. m |-> [q \in V |-> Steered(q, m, n)]]
<1>1. base \in V
    OBVIOUS
<1>2. \A q \in V : Steered(q, m, n) \in V
    BY DEF Steered
<1>3. step \in [1 .. m -> [V -> V]]
    BY <1>2
<1> HIDE DEF V, base
<1>4. \A i \in 1 .. m : \A q \in V : step[i][q] = Steered(q, m, n)
    OBVIOUS
<1> HIDE DEF step
<1>5. PICK w : IsLoop(w, m, V, base, step)
    BY <1>1, <1>3, LoopExists
<1>6. w \in [0 .. m -> V] /\ w[0] = base /\ \A i \in 1 .. m : w[i] = step[i][w[i - 1]]
    BY <1>5 DEF IsLoop
<1>7. \A i \in 1 .. m : i - 1 \in 0 .. m
    OBVIOUS
<1>8. \A i \in 1 .. m : w[i] = Steered(w[i - 1], m, n)
    BY <1>4, <1>6, <1>7
<1> QED
    BY <1>6, <1>8 DEF IsWalk, V, base

\* One step along a line, and the point it begins with.
LineStep(p, adx, ady, sx, sy) ==
    LET s == Steps(p.err, adx, ady)
    IN  [x |-> IF s[1] THEN p.x + sx ELSE p.x,
         y |-> IF s[2] THEN p.y + sy ELSE p.y,
         err |-> p.err - (IF s[1] THEN ady ELSE 0) + (IF s[2] THEN adx ELSE 0)]

\* The point a line begins at, with the error it begins with.
LineFirst(x0, y0, adx, ady) ==
    [x |-> x0, y |-> y0, err |-> IF adx > ady THEN adx \div 2 ELSE -(ady \div 2)]

\* The points that the steps make.
LinePoint == [x : Int, y : Int, err : Int]

\* A line of m steps from one end to the other.
IsLine(p, m, x0, y0, x1, y1) ==
    LET adx == Abs(x1 - x0)
        ady == Abs(y1 - y0)
        sx == IF x1 < x0 THEN -1 ELSE 1
        sy == IF y1 < y0 THEN -1 ELSE 1
    IN  /\ p \in [0 .. m -> LinePoint]
        /\ p[0] = LineFirst(x0, y0, adx, ady)
        /\ \A i \in 1 .. m : p[i] = LineStep(p[i - 1], adx, ady, sx, sy)
        /\ p[m].x = x1 /\ p[m].y = y1
        /\ \A i \in 0 .. m - 1 : ~(p[i].x = x1 /\ p[i].y = y1)

\* The first points as a sequence.
FirstPoints(p, k) == [i \in 1 .. k |-> p[i - 1]]

\* A point of a line is added at a time, and those before it stay.
LEMMA PointsGrow ==
    ASSUME NEW m \in Nat, NEW V, NEW p \in [0 .. m -> V], NEW k \in 1 .. m + 1
    PROVE  /\ Len(FirstPoints(p, k)) = k /\ FirstPoints(p, k)[k] = p[k - 1]
           /\ k <= m => Append(FirstPoints(p, k), p[k]) = FirstPoints(p, k + 1)
<1> DEFINE q == FirstPoints(p, k)
<1>1. q \in [1 .. k -> V]
    BY DEF FirstPoints
<1>2. q \in Seq(V) /\ Len(q) = k
    BY <1>1
<1>3. q[k] = p[k - 1]
    BY DEF FirstPoints
<1>4. ASSUME k <= m
      PROVE  Append(q, p[k]) = FirstPoints(p, k + 1)
  <2> DEFINE a == Append(q, p[k])
             b == FirstPoints(p, k + 1)
  <2>1. p[k] \in V /\ k \in Nat
    BY <1>4
  <2>2. a \in Seq(V) /\ Len(a) = k + 1 /\ \A i \in 1 .. k + 1 : a[i] = IF i = k + 1 THEN p[k] ELSE q[i]
    BY <1>2, <2>1
  <2>3. \A i \in 1 .. k + 1 : a[i] = p[i - 1]
    BY <2>2, <2>1 DEF FirstPoints
  <2>4. b \in [1 .. k + 1 -> V] /\ \A i \in 1 .. k + 1 : b[i] = p[i - 1]
    BY <1>4 DEF FirstPoints
  <2>5. b \in Seq(V) /\ Len(b) = k + 1
    BY <2>1, <2>4
  <2> HIDE DEF a, b
  <2>6. a = b
    BY <2>2, <2>3, <2>4, <2>5
  <2> QED
    BY <2>6 DEF a, b
<1> QED
    BY <1>2, <1>3, <1>4

\* The sequences the routine grows, one for each number of points.
IsPath(f, n, x0, y0, x1, y1) ==
    LET adx == Abs(x1 - x0)
        ady == Abs(y1 - y0)
        sx == IF x1 < x0 THEN -1 ELSE 1
        sy == IF y1 < y0 THEN -1 ELSE 1
    IN  f = [k \in 1 .. n |->
              IF k = 1 THEN <<LineFirst(x0, y0, adx, ady)>>
              ELSE LET end == f[k - 1][Len(f[k - 1])]
                   IN  IF end.x = x1 /\ end.y = y1 THEN f[k - 1]
                       ELSE Append(f[k - 1], LineStep(end, adx, ady, sx, sy))]

\* What a path is, in its own words: every step follows the one before it.
LEMMA PathIs ==
    ASSUME NEW x0 \in Int, NEW y0 \in Int, NEW x1 \in Int, NEW y1 \in Int, NEW n
    PROVE  line_points(x0, y0, x1, y1, n) = (CHOOSE f : IsPath(f, n, x0, y0, x1, y1))[n]
BY Zenon DEF line_points, IsPath, LineStep, LineFirst

\* A path step by step.
LEMMA PathFollows ==
    ASSUME NEW x0 \in Int, NEW y0 \in Int, NEW x1 \in Int, NEW y1 \in Int,
           NEW m \in Nat, NEW p, IsLine(p, m, x0, y0, x1, y1)
    PROVE  line_points(x0, y0, x1, y1, m + 2) = FirstPoints(p, m + 1)
<1> DEFINE adx == Abs(x1 - x0)
           ady == Abs(y1 - y0)
           sx == IF x1 < x0 THEN -1 ELSE 1
           sy == IF y1 < y0 THEN -1 ELSE 1
           first == LineFirst(x0, y0, adx, ady)
           step(q) == LineStep(q, adx, ady, sx, sy)
           there(q) == q.x = x1 /\ q.y = y1
           upto(k) == IF k <= m + 1 THEN k ELSE m + 1
           E == [k \in 1 .. m + 2 |-> FirstPoints(p, upto(k))]
           Grown(f, k) == IF there(f[k - 1][Len(f[k - 1])]) THEN f[k - 1]
                          ELSE Append(f[k - 1], step(f[k - 1][Len(f[k - 1])]))
<1>1. /\ p \in [0 .. m -> LinePoint] /\ p[0] = first
      /\ \A i \in 1 .. m : p[i] = step(p[i - 1])
      /\ there(p[m]) /\ \A i \in 0 .. m - 1 : ~there(p[i])
    BY DEF IsLine
<1>2. \A f : IsPath(f, m + 2, x0, y0, x1, y1)
               <=> f = [k \in 1 .. m + 2 |-> IF k = 1 THEN <<first>> ELSE Grown(f, k)]
    BY DEF IsPath
<1> HIDE DEF first, step, there
<1>3. ASSUME NEW k \in 2 .. m + 2
      PROVE  Grown(E, k) = E[k]
  <2> DEFINE j == upto(k - 1)
             end == E[k - 1][Len(E[k - 1])]
  <2>1. j \in 1 .. m + 1 /\ E[k - 1] = FirstPoints(p, j) /\ E[k] = FirstPoints(p, upto(k))
    OBVIOUS
  <2>8. Len(FirstPoints(p, j)) = j /\ FirstPoints(p, j)[j] = p[j - 1]
        /\ (j <= m => Append(FirstPoints(p, j), p[j]) = FirstPoints(p, j + 1))
    <3> HIDE DEF j
    <3> QED
        BY <1>1, <2>1, PointsGrow
  <2>2. end = p[j - 1]
    <3> HIDE DEF j, E
    <3> QED
        BY <2>1, <2>8
  <2>3. CASE k = m + 2
    <3>1. j = m + 1 /\ upto(k) = m + 1
        BY <2>3
    <3>2. there(end)
        BY <1>1, <2>2, <3>1
    <3> QED
        BY <2>1, <3>1, <3>2
  <2>4. CASE k # m + 2
    <3>1. j = k - 1 /\ upto(k) = k /\ k - 1 \in 1 .. m /\ k - 2 \in 0 .. m - 1 /\ j - 1 = k - 2 /\ j + 1 = k
        BY <2>4
    <3>2. ~there(end) /\ step(end) = p[k - 1]
        BY <1>1, <2>2, <3>1
    <3>3. Append(FirstPoints(p, j), p[j]) = FirstPoints(p, j + 1)
      <4>1. j <= m
          BY <3>1
      <4> HIDE DEF j
      <4> QED
          BY <2>8, <4>1, Zenon
    <3> HIDE DEF E
    <3> QED
        BY <2>1, <3>1, <3>2, <3>3
  <2> QED
    BY <2>3, <2>4
<1>4. E[1] = <<first>>
  <2>1. E[1] = FirstPoints(p, 1)
    OBVIOUS
  <2>2. FirstPoints(p, 1) = [i \in 1 .. 1 |-> first]
    BY <1>1 DEF FirstPoints
  <2> QED
    BY <2>1, <2>2
<1>5. E = [k \in 1 .. m + 2 |-> IF k = 1 THEN <<first>> ELSE Grown(E, k)]
  <2>1. \A k \in 1 .. m + 2 : E[k] = IF k = 1 THEN <<first>> ELSE Grown(E, k)
    <3> HIDE DEF E, Grown
    <3>1. \A k \in 1 .. m + 2 : k # 1 => k \in 2 .. m + 2
        OBVIOUS
    <3> QED
        BY <1>3, <1>4, <3>1
  <2>2. E = [k \in 1 .. m + 2 |-> E[k]]
    OBVIOUS
  <2> HIDE DEF E, Grown
  <2> QED
    BY <2>1, <2>2
<1>6. \E f : IsPath(f, m + 2, x0, y0, x1, y1)
    BY <1>2, <1>5
<1> DEFINE g == CHOOSE f : IsPath(f, m + 2, x0, y0, x1, y1)
<1>7. g = [k \in 1 .. m + 2 |-> IF k = 1 THEN <<first>> ELSE Grown(g, k)]
  <2>1. IsPath(g, m + 2, x0, y0, x1, y1)
    BY <1>6
  <2> QED
    BY <1>2, <2>1
<1> HIDE DEF g, E
<1>8. \A i \in 0 .. m + 1 : i \in {j \in 0 .. m + 1 : g[j + 1] = E[j + 1]}
  <2> DEFINE T == {j \in 0 .. m + 1 : g[j + 1] = E[j + 1]}
  <2>1. 0 \in T
    <3>1. g[1] = <<first>>
        BY <1>7
    <3>2. 0 + 1 = 1 /\ 0 \in 0 .. m + 1
        OBVIOUS
    <3> QED
        BY <1>4, <3>1, <3>2
  <2>2. ASSUME NEW i \in 1 .. m + 1, i - 1 \in T
        PROVE  i \in T
    <3>1. g[i] = E[i]
        BY <2>2
    <3>2. i + 1 \in 2 .. m + 2 /\ i + 1 \in 1 .. m + 2 /\ i + 1 # 1 /\ (i + 1) - 1 = i
        OBVIOUS
    <3>3. g[i + 1] = Grown(g, i + 1) /\ E[i + 1] = Grown(E, i + 1)
        BY <1>3, <1>7, <3>2
    <3>4. Grown(g, i + 1) = Grown(E, i + 1)
        BY <3>1, <3>2
    <3> HIDE DEF Grown
    <3> QED
        BY <3>3, <3>4
  <2>3. m + 1 \in Nat
    OBVIOUS
  <2> HIDE DEF T
  <2> QED
    BY <2>1, <2>2, <2>3, UpTo DEF T
<1>9. g[m + 2] = E[m + 2]
  <2>1. m + 1 \in 0 .. m + 1 /\ (m + 1) + 1 = m + 2
    OBVIOUS
  <2> QED
    BY <1>8, <2>1
<1>10. E[m + 2] = FirstPoints(p, m + 1)
    BY DEF E
<1> QED
    BY <1>9, <1>10, PathIs DEF g

\* The points of a walk: along the columns or along the lines.
WalkPoints(w, m, adx, ady, x0, y0, sx, sy) ==
    [i \in 0 .. m |->
       IF adx > ady THEN [x |-> x0 + sx * i, y |-> y0 + sy * w[i].k, err |-> w[i].d]
       ELSE [x |-> x0 + sx * w[i].k, y |-> y0 + sy * i, err |-> -w[i].d]]

\* A step along the columns.
LEMMA FlatStep ==
    ASSUME NEW m \in Nat, NEW n \in Nat, n < m, NEW sx \in Int, NEW sy \in Int,
           NEW p \in LinePoint, NEW v \in [k : Int, d : Int], p.err = v.d, v.d \in Nat
    PROVE  LET q == Steered(v, m, n)
           IN  LineStep(p, m, n, sx, sy)
                 = [x |-> p.x + sx, y |-> IF q.k = v.k THEN p.y ELSE p.y + sy, err |-> q.d]
<1> DEFINE d == v.d
<1>1. d \in Nat /\ v.k \in Int /\ p.err = d /\ d > -m
    OBVIOUS
<1> HIDE DEF d
<1>2. LineStep(p, m, n, sx, sy)
        = [x |-> p.x + sx, y |-> IF d < n THEN p.y + sy ELSE p.y,
           err |-> d - n + (IF d < n THEN m ELSE 0)]
    BY <1>1 DEF LineStep, Steps
<1>3. CASE d < n
    BY <1>1, <1>2, <1>3 DEF Steered, d
<1>4. CASE ~(d < n)
    BY <1>1, <1>2, <1>4 DEF Steered, d
<1> QED
    BY <1>3, <1>4

\* A step along the lines.
LEMMA SteepStep ==
    ASSUME NEW m \in Nat \ {0}, NEW n \in Nat, n <= m, NEW sx \in Int, NEW sy \in Int,
           NEW p \in LinePoint, NEW v \in [k : Int, d : Int], p.err = -v.d, v.d \in Nat
    PROVE  LET q == Steered(v, m, n)
           IN  LineStep(p, n, m, sx, sy)
                 = [x |-> IF q.k = v.k THEN p.x ELSE p.x + sx, y |-> p.y + sy, err |-> -q.d]
<1> DEFINE d == v.d
<1>1. d \in Nat /\ v.k \in Int /\ p.err = -d /\ -d < m /\ (-d > -n <=> d < n)
    OBVIOUS
<1> HIDE DEF d
<1>2. LineStep(p, n, m, sx, sy)
        = [x |-> IF d < n THEN p.x + sx ELSE p.x, y |-> p.y + sy,
           err |-> -d - (IF d < n THEN m ELSE 0) + n]
    BY <1>1 DEF LineStep, Steps
<1>3. CASE d < n
    BY <1>1, <1>2, <1>3 DEF Steered, d
<1>4. CASE ~(d < n)
    BY <1>1, <1>2, <1>4 DEF Steered, d
<1> QED
    BY <1>3, <1>4

\* The two ends of a line, by its sides and its directions.
LEMMA LineEnds ==
    ASSUME NEW x0 \in Int, NEW x1 \in Int
    PROVE  LET s == IF x1 < x0 THEN -1 ELSE 1
           IN  /\ Abs(x1 - x0) \in Nat /\ x1 = x0 + s * Abs(x1 - x0)
               /\ \A i \in Int : i # Abs(x1 - x0) => x0 + s * i # x1
BY DEF Abs

\* The points of the walk are a line.
LEMMA WalkIsLine ==
    ASSUME NEW x0 \in Int, NEW y0 \in Int, NEW x1 \in Int, NEW y1 \in Int, NEW w,
           NEW adx \in Nat, NEW ady \in Nat, adx = Abs(x1 - x0), ady = Abs(y1 - y0),
           NEW m \in Nat, NEW n \in Nat,
           m = IF adx > ady THEN adx ELSE ady, n = IF adx > ady THEN ady ELSE adx,
           IsWalk(w, m, n)
    PROVE  IsLine(WalkPoints(w, m, adx, ady, x0, y0, IF x1 < x0 THEN -1 ELSE 1, IF y1 < y0 THEN -1 ELSE 1),
                  m, x0, y0, x1, y1)
<1> DEFINE sx == IF x1 < x0 THEN -1 ELSE 1
           sy == IF y1 < y0 THEN -1 ELSE 1
           p == WalkPoints(w, m, adx, ady, x0, y0, sx, sy)
           first == LineFirst(x0, y0, adx, ady)
           flat == adx > ady
<1>1. sx \in {-1, 1} /\ sy \in {-1, 1}
    OBVIOUS
<1>2. /\ x1 = x0 + sx * adx /\ \A i \in Int : i # adx => x0 + sx * i # x1
      /\ y1 = y0 + sy * ady /\ \A i \in Int : i # ady => y0 + sy * i # y1
    BY LineEnds
<1>3. /\ n \in 0 .. m
      /\ flat => m = adx /\ n = ady /\ n < m
      /\ ~flat => m = ady /\ n = adx
    OBVIOUS
<1>4. \A i \in 0 .. m : w[i].d \in Nat /\ w[i].k \in Int
    BY <1>3, WalkStays
<1>5. w[m].k = n
    BY <1>3, WalkIsClose
<1>6. /\ w \in [0 .. m -> [k : Int, d : Int]] /\ w[0] = [k |-> 0, d |-> m \div 2]
      /\ \A i \in 1 .. m : w[i] = Steered(w[i - 1], m, n)
    BY DEF IsWalk
<1>7. IsLine(p, m, x0, y0, x1, y1)
        <=> /\ p \in [0 .. m -> LinePoint] /\ p[0] = first
            /\ \A i \in 1 .. m : p[i] = LineStep(p[i - 1], adx, ady, sx, sy)
            /\ p[m].x = x1 /\ p[m].y = y1
            /\ \A i \in 0 .. m - 1 : ~(p[i].x = x1 /\ p[i].y = y1)
    BY DEF IsLine
<1> DEFINE X(i) == x0 + sx * i
           Y(i) == y0 + sy * i
<1>8. \A i \in 0 .. m :
        /\ flat => p[i] = [x |-> X(i), y |-> Y(w[i].k), err |-> w[i].d]
        /\ ~flat => p[i] = [x |-> X(w[i].k), y |-> Y(i), err |-> -w[i].d]
    BY DEF WalkPoints
<1>9. DOMAIN p = 0 .. m /\ p = [i \in 0 .. m |-> p[i]]
    BY DEF WalkPoints
<1>10. /\ flat => first = [x |-> x0, y |-> y0, err |-> m \div 2]
       /\ ~flat => first = [x |-> x0, y |-> y0, err |-> -(m \div 2)]
    BY <1>3 DEF LineFirst
<1>11. /\ \A i \in Int : X(i) \in Int /\ Y(i) \in Int
       /\ \A i \in Int : X(i) = X(i - 1) + sx /\ Y(i) = Y(i - 1) + sy
       /\ X(0) = x0 /\ Y(0) = y0
       /\ x1 = X(adx) /\ y1 = Y(ady)
       /\ \A i \in Int : (i # adx => X(i) # x1) /\ (i # ady => Y(i) # y1)
  <2>1. sx = 1 \/ sx = -1
    BY <1>1
  <2>2. sy = 1 \/ sy = -1
    BY <1>1
  <2> QED
    BY <1>2, <2>1, <2>2
<1> HIDE DEF sx, sy, p, first, flat, X, Y
<1>12. p \in [0 .. m -> LinePoint]
  <2>1. ASSUME NEW i \in 0 .. m
        PROVE  p[i] \in LinePoint
    <3>1. i \in Int /\ w[i].d \in Int /\ w[i].k \in Int /\ -w[i].d \in Int
        BY <1>4
    <3>2. X(i) \in Int /\ Y(i) \in Int /\ X(w[i].k) \in Int /\ Y(w[i].k) \in Int
        BY <1>11, <3>1
    <3>3. CASE flat
      <4>1. p[i] = [x |-> X(i), y |-> Y(w[i].k), err |-> w[i].d]
        BY <1>8, <3>3, Zenon
      <4> QED
        BY <3>1, <3>2, <4>1 DEF LinePoint
    <3>4. CASE ~flat
      <4>1. p[i] = [x |-> X(w[i].k), y |-> Y(i), err |-> -w[i].d]
        BY <1>8, <3>4, Zenon
      <4> QED
        BY <3>1, <3>2, <4>1 DEF LinePoint
    <3> QED
        BY <3>3, <3>4
  <2> QED
    BY <1>9, <2>1
<1>13. p[0] = first
  <2>1. w[0].k = 0 /\ w[0].d = m \div 2 /\ 0 \in 0 .. m
    BY <1>6
  <2>2. X(0) = x0 /\ Y(0) = y0
    BY <1>11
  <2>3. CASE flat
    BY <1>8, <1>10, <2>1, <2>2, <2>3, Zenon
  <2>4. CASE ~flat
    BY <1>8, <1>10, <2>1, <2>2, <2>4, Zenon
  <2> QED
    BY <2>3, <2>4
<1>14. ASSUME NEW i \in 1 .. m
       PROVE  p[i] = LineStep(p[i - 1], adx, ady, sx, sy)
  <2> DEFINE k == w[i - 1].k
             d == w[i - 1].d
  <2>1. i - 1 \in 0 .. m /\ i \in 0 .. m /\ i \in Int /\ m \in Nat \ {0}
    OBVIOUS
  <2>2. k \in Int /\ d \in Nat /\ w[i - 1] = [k |-> k, d |-> d]
    BY <1>4, <1>6, <2>1
  <2>3. w[i] = Steered([k |-> k, d |-> d], m, n)
    BY <1>6, <2>2
  <2>4. /\ flat => p[i - 1] = [x |-> X(i - 1), y |-> Y(k), err |-> d]
        /\ ~flat => p[i - 1] = [x |-> X(k), y |-> Y(i - 1), err |-> -d]
    BY <1>8, <2>1
  <2> DEFINE v == w[i - 1]
             q == Steered(v, m, n)
  <2>5. q.k = k \/ q.k = k + 1
    BY DEF Steered
  <2>6. p[i - 1] \in LinePoint /\ v \in [k : Int, d : Int] /\ v.d = d /\ v.k = k
    BY <1>6, <1>12, <2>1
  <2>7. w[i] = q
    BY <1>6
  <2> HIDE DEF k, d, v, q
  <2>8. /\ X(i) = X(i - 1) + sx /\ Y(i) = Y(i - 1) + sy
        /\ X(q.k) = (IF q.k = k THEN X(k) ELSE X(k) + sx)
        /\ Y(q.k) = (IF q.k = k THEN Y(k) ELSE Y(k) + sy)
    <3>1. i - 1 \in Int /\ k + 1 \in Int /\ (k + 1) - 1 = k
        BY <2>1, <2>2
    <3>2. X(k + 1) = X(k) + sx /\ Y(k + 1) = Y(k) + sy
        BY <1>11, <3>1
    <3> QED
        BY <1>11, <2>1, <2>2, <2>5, <3>1, <3>2
  <2>9. CASE flat
    <3>1. n < m /\ n \in Nat /\ m \in Nat /\ sx \in Int /\ sy \in Int /\ adx = m /\ ady = n
        BY <1>1, <1>3, <2>9
    <3>2. p[i] = [x |-> X(i), y |-> Y(q.k), err |-> q.d]
        BY <1>8, <2>1, <2>7, <2>9
    <3>3. p[i - 1] = [x |-> X(i - 1), y |-> Y(k), err |-> d]
        BY <2>4, <2>9
    <3> DEFINE b == p[i - 1]
    <3>4. b.x = X(i - 1) /\ b.y = Y(k) /\ b.err = d /\ b \in LinePoint
        BY <2>6, <3>3
    <3> HIDE DEF b
    <3>5. LineStep(b, m, n, sx, sy)
             = [x |-> b.x + sx, y |-> IF q.k = k THEN b.y ELSE b.y + sy, err |-> q.d]
        BY <2>2, <2>6, <3>1, <3>4, FlatStep DEF q
    <3> QED
        BY <2>8, <3>1, <3>2, <3>4, <3>5 DEF b
  <2>10. CASE ~flat
    <3>1. n <= m /\ n \in Nat /\ m \in Nat \ {0} /\ sx \in Int /\ sy \in Int /\ adx = n /\ ady = m
        BY <1>1, <1>3, <2>1, <2>10
    <3>2. p[i] = [x |-> X(q.k), y |-> Y(i), err |-> -q.d]
        BY <1>8, <2>1, <2>7, <2>10
    <3>3. p[i - 1] = [x |-> X(k), y |-> Y(i - 1), err |-> -d]
        BY <2>4, <2>10
    <3> DEFINE b == p[i - 1]
    <3>4. b.x = X(k) /\ b.y = Y(i - 1) /\ b.err = -d /\ b \in LinePoint
        BY <2>6, <3>3
    <3> HIDE DEF b
    <3>5. LineStep(b, n, m, sx, sy)
             = [x |-> IF q.k = k THEN b.x ELSE b.x + sx, y |-> b.y + sy, err |-> -q.d]
        BY <2>2, <2>6, <3>1, <3>4, SteepStep DEF q
    <3> QED
        BY <2>8, <3>1, <3>2, <3>4, <3>5 DEF b
  <2> QED
    BY <2>9, <2>10
<1>15. p[m].x = x1 /\ p[m].y = y1
  <2>1. m \in 0 .. m
    OBVIOUS
  <2>2. CASE flat
    <3>1. p[m] = [x |-> X(m), y |-> Y(w[m].k), err |-> w[m].d]
        BY <1>8, <2>1, <2>2
    <3>2. adx = m /\ ady = n
        BY <1>3, <2>2
    <3> QED
        BY <1>11, <1>5, <3>1, <3>2
  <2>3. CASE ~flat
    <3>1. p[m] = [x |-> X(w[m].k), y |-> Y(m), err |-> -w[m].d]
        BY <1>8, <2>1, <2>3
    <3>2. adx = n /\ ady = m
        BY <1>3, <2>3
    <3> QED
        BY <1>11, <1>5, <3>1, <3>2
  <2> QED
    BY <2>2, <2>3
<1>16. ASSUME NEW i \in 0 .. m - 1
       PROVE  ~(p[i].x = x1 /\ p[i].y = y1)
  <2>1. i \in 0 .. m /\ i \in Int /\ i # m
    OBVIOUS
  <2>2. CASE flat
    <3>1. p[i] = [x |-> X(i), y |-> Y(w[i].k), err |-> w[i].d] /\ adx = m
        BY <1>3, <1>8, <2>1, <2>2, Zenon
    <3> QED
        BY <1>11, <2>1, <3>1
  <2>3. CASE ~flat
    <3>1. p[i] = [x |-> X(w[i].k), y |-> Y(i), err |-> -w[i].d] /\ ady = m
        BY <1>3, <1>8, <2>1, <2>3, Zenon
    <3> QED
        BY <1>11, <2>1, <3>1
  <2> QED
    BY <2>2, <2>3
<1> QED
    BY <1>7, <1>12, <1>13, <1>14, <1>15, <1>16 DEF p, sx, sy, first

\* How far a point of a walk is off, as LineExactly says it.
LEMMA OffBy ==
    ASSUME NEW m \in Nat, NEW n \in Nat, NEW i \in Int, NEW k \in Int,
           NEW sx \in {-1, 1}, NEW sy \in {-1, 1},
           2 * (i * n - k * m) <= m, 2 * (k * m - i * n) <= m
    PROVE  /\ 2 * Abs((sx * i) * (sy * n) - (sy * k) * (sx * m)) <= m
           /\ 2 * Abs((sx * k) * (sy * m) - (sy * i) * (sx * n)) <= m
<1> DEFINE a == i * n
           b == k * m
<1>1. a \in Int /\ b \in Int /\ 2 * (a - b) <= m /\ 2 * (b - a) <= m
    OBVIOUS
<1>2. sx = 1 \/ sx = -1
    OBVIOUS
<1>3. sy = 1 \/ sy = -1
    OBVIOUS
<1>4. \/ /\ (sx * i) * (sy * n) = a /\ (sy * k) * (sx * m) = b
         /\ (sx * k) * (sy * m) = b /\ (sy * i) * (sx * n) = a
      \/ /\ (sx * i) * (sy * n) = -a /\ (sy * k) * (sx * m) = -b
         /\ (sx * k) * (sy * m) = -b /\ (sy * i) * (sx * n) = -a
  <2>1. (-i) * n = -a /\ i * (-n) = -a /\ (-i) * (-n) = a
        /\ (-k) * m = -b /\ k * (-m) = -b /\ (-k) * (-m) = b
        /\ 1 * i = i /\ (-1) * i = -i /\ 1 * n = n /\ (-1) * n = -n
        /\ 1 * k = k /\ (-1) * k = -k /\ 1 * m = m /\ (-1) * m = -m
    OBVIOUS
  <2> HIDE DEF a, b
  <2>2. CASE sx = 1 /\ sy = 1
    BY <2>1, <2>2 DEF a, b
  <2>3. CASE sx = 1 /\ sy = -1
    BY <2>1, <2>3 DEF a, b
  <2>4. CASE sx = -1 /\ sy = 1
    BY <2>1, <2>4 DEF a, b
  <2>5. CASE sx = -1 /\ sy = -1
    BY <2>1, <2>5 DEF a, b
  <2> QED
    BY <1>2, <1>3, <2>2, <2>3, <2>4, <2>5
<1> DEFINE c == (sx * i) * (sy * n)
           d == (sy * k) * (sx * m)
           e == (sx * k) * (sy * m)
           f == (sy * i) * (sx * n)
<1> HIDE DEF a, b, c, d, e, f
<1>5. 2 * Abs(c - d) <= m /\ 2 * Abs(e - f) <= m
  <2>1. (c = a /\ d = b /\ e = b /\ f = a) \/ (c = -a /\ d = -b /\ e = -b /\ f = -a)
    BY <1>4 DEF a, b, c, d, e, f
  <2> QED
    BY <1>1, <2>1 DEF Abs
<1> QED
    BY <1>5 DEF c, d, e, f

\* A line ends at its other end, in as many points as its longer side has, with
\* no gaps and within half a point of the true line.
LEMMA LineIsExact ==
    ASSUME NEW x0 \in Int, NEW y0 \in Int, NEW x1 \in Int, NEW y1 \in Int
    PROVE  LET adx == Abs(x1 - x0)
               ady == Abs(y1 - y0)
               longer == Max({adx, ady})
               points == line_points(x0, y0, x1, y1, longer + 2)
               off(p) == (p.x - x0) * (y1 - y0) - (p.y - y0) * (x1 - x0)
           IN  /\ Len(points) = longer + 1
               /\ Last(points).x = x1 /\ Last(points).y = y1
               /\ \A i \in 1 .. Len(points) - 1 :
                    /\ Abs(points[i + 1].x - points[i].x) <= 1
                    /\ Abs(points[i + 1].y - points[i].y) <= 1
               /\ \A i \in 1 .. Len(points) : 2 * Abs(off(points[i])) <= longer
<1> DEFINE adx == Abs(x1 - x0)
           ady == Abs(y1 - y0)
           sx == IF x1 < x0 THEN -1 ELSE 1
           sy == IF y1 < y0 THEN -1 ELSE 1
           m == IF adx > ady THEN adx ELSE ady
           n == IF adx > ady THEN ady ELSE adx
           off(p) == (p.x - x0) * (y1 - y0) - (p.y - y0) * (x1 - x0)
<1>1. sx \in {-1, 1} /\ sy \in {-1, 1} /\ adx \in Nat /\ ady \in Nat
    BY DEF Abs
<1>2. x1 = x0 + sx * adx /\ y1 = y0 + sy * ady
    BY LineEnds
<1>3. m \in Nat /\ n \in Nat /\ n \in 0 .. m
    BY <1>1
<1>4. Max({adx, ady}) = m
    BY <1>1, MaxOfTwo
<1>5. PICK w : IsWalk(w, m, n)
  <2> HIDE DEF m, n
  <2> QED
    BY <1>3, WalkExists
<1> DEFINE p == WalkPoints(w, m, adx, ady, x0, y0, sx, sy)
           points == line_points(x0, y0, x1, y1, m + 2)
<1>6. IsLine(p, m, x0, y0, x1, y1)
    BY <1>1, <1>3, <1>5, WalkIsLine
<1>7. points = FirstPoints(p, m + 1)
  <2> HIDE DEF m, p
  <2> QED
    BY <1>3, <1>6, PathFollows
<1>8. p \in [0 .. m -> LinePoint] /\ p[m].x = x1 /\ p[m].y = y1
    BY <1>6 DEF IsLine
<1>9. \A i \in 0 .. m : /\ 2 * (i * n - w[i].k * m) <= m /\ 2 * (w[i].k * m - i * n) <= m
                        /\ w[i].k \in Int
    BY <1>3, <1>5, WalkIsClose
<1>10. \A i \in 1 .. m : w[i].k = w[i - 1].k \/ w[i].k = w[i - 1].k + 1
  <2>1. \A i \in 1 .. m : w[i] = Steered(w[i - 1], m, n)
    BY <1>5 DEF IsWalk
  <2> HIDE DEF m, n
  <2>2. \A q : Steered(q, m, n).k = q.k \/ Steered(q, m, n).k = q.k + 1
    BY DEF Steered
  <2> QED
    BY <2>1, <2>2
<1> DEFINE flat == adx > ady
<1>11. /\ flat => m = adx /\ n = ady
       /\ ~flat => m = ady /\ n = adx
    OBVIOUS
<1>12. \A i \in 0 .. m :
         /\ flat => p[i].x = x0 + sx * i /\ p[i].y = y0 + sy * w[i].k
         /\ ~flat => p[i].x = x0 + sx * w[i].k /\ p[i].y = y0 + sy * i
    BY DEF WalkPoints
<1> HIDE DEF adx, ady, m, n, sx, sy, p, points, flat
<1>13. /\ Len(points) = m + 1 /\ Last(points) = p[m]
       /\ \A i \in 1 .. m + 1 : points[i] = p[i - 1]
  <2>1. m + 1 \in 1 .. m + 1 /\ (m + 1) - 1 = m
    BY <1>3
  <2>2. Len(points) = m + 1 /\ points[m + 1] = p[m]
    <3> DEFINE k == m + 1
    <3>1. k \in 1 .. m + 1 /\ k - 1 = m
        BY <2>1
    <3> HIDE DEF k
    <3>2. Len(FirstPoints(p, k)) = k /\ FirstPoints(p, k)[k] = p[k - 1]
      <4>1. m \in Nat /\ p \in [0 .. m -> LinePoint] /\ k \in 1 .. m + 1
        BY <1>3, <1>8, <3>1
      <4> QED
        BY <4>1, PointsGrow, Zenon
    <3> QED
        BY <1>7, <3>1, <3>2 DEF k
  <2>3. \A i \in 1 .. m + 1 : points[i] = p[i - 1]
    BY <1>7 DEF FirstPoints
  <2> QED
    BY <2>2, <2>3 DEF Last
<1>14. ASSUME NEW i \in 1 .. m
       PROVE  Abs(p[i].x - p[i - 1].x) <= 1 /\ Abs(p[i].y - p[i - 1].y) <= 1
  <2> DEFINE k == w[i].k
             l == w[i - 1].k
  <2>1. i \in 0 .. m /\ i - 1 \in 0 .. m /\ i \in Int /\ i - 1 \in Int
    BY <1>3
  <2>2. k \in Int /\ l \in Int /\ (k = l \/ k = l + 1)
    BY <1>9, <1>10, <2>1
  <2>3. sx = 1 \/ sx = -1
    BY <1>1
  <2>4. sy = 1 \/ sy = -1
    BY <1>1
  <2>5. CASE flat
    <3>1. p[i].x = x0 + sx * i /\ p[i].y = y0 + sy * k /\ p[i - 1].x = x0 + sx * (i - 1) /\ p[i - 1].y = y0 + sy * l
        BY <1>12, <2>1, <2>5
    <3> HIDE DEF k, l
    <3> QED
        BY <2>1, <2>2, <2>3, <2>4, <3>1 DEF Abs
  <2>6. CASE ~flat
    <3>1. p[i].x = x0 + sx * k /\ p[i].y = y0 + sy * i /\ p[i - 1].x = x0 + sx * l /\ p[i - 1].y = y0 + sy * (i - 1)
        BY <1>12, <2>1, <2>6
    <3> HIDE DEF k, l
    <3> QED
        BY <2>1, <2>2, <2>3, <2>4, <3>1 DEF Abs
  <2> QED
    BY <2>5, <2>6
<1>15. ASSUME NEW i \in 0 .. m
       PROVE  2 * Abs(off(p[i])) <= m
  <2> DEFINE k == w[i].k
  <2>1. i \in Int /\ k \in Int /\ 2 * (i * n - k * m) <= m /\ 2 * (k * m - i * n) <= m
    BY <1>3, <1>9
  <2> HIDE DEF k
  <2>2. /\ 2 * Abs((sx * i) * (sy * n) - (sy * k) * (sx * m)) <= m
        /\ 2 * Abs((sx * k) * (sy * m) - (sy * i) * (sx * n)) <= m
    BY <1>1, <1>3, <2>1, OffBy
  <2>3. sx * i \in Int /\ sy * k \in Int /\ sx * k \in Int /\ sy * i \in Int
        /\ sx * adx \in Int /\ sy * ady \in Int
    BY <1>1, <2>1
  <2>4. CASE flat
    <3>1. p[i].x = x0 + sx * i /\ p[i].y = y0 + sy * k /\ m = adx /\ n = ady
        BY <1>11, <1>12, <2>4 DEF k
    <3>2. p[i].x - x0 = sx * i /\ p[i].y - y0 = sy * k /\ x1 - x0 = sx * m /\ y1 - y0 = sy * n
        BY <1>2, <2>3, <3>1
    <3> QED
        BY <2>2, <3>2, Zenon
  <2>5. CASE ~flat
    <3>1. p[i].x = x0 + sx * k /\ p[i].y = y0 + sy * i /\ m = ady /\ n = adx
        BY <1>11, <1>12, <2>5 DEF k
    <3>2. p[i].x - x0 = sx * k /\ p[i].y - y0 = sy * i /\ x1 - x0 = sx * n /\ y1 - y0 = sy * m
        BY <1>2, <2>3, <3>1
    <3> QED
        BY <2>2, <3>2, Zenon
  <2> QED
    BY <2>4, <2>5
<1>16. /\ Len(points) = m + 1
       /\ Last(points).x = x1 /\ Last(points).y = y1
       /\ \A i \in 1 .. Len(points) - 1 :
            /\ Abs(points[i + 1].x - points[i].x) <= 1
            /\ Abs(points[i + 1].y - points[i].y) <= 1
       /\ \A i \in 1 .. Len(points) : 2 * Abs(off(points[i])) <= m
  <2> HIDE DEF off
  <2>1. ASSUME NEW i \in 1 .. m
        PROVE  /\ Abs(points[i + 1].x - points[i].x) <= 1
               /\ Abs(points[i + 1].y - points[i].y) <= 1
    <3>1. i \in 1 .. m + 1 /\ i + 1 \in 1 .. m + 1 /\ (i + 1) - 1 = i
        BY <1>3
    <3>2. points[i] = p[i - 1] /\ points[i + 1] = p[i]
        BY <1>13, <3>1
    <3> QED
        BY <1>14, <3>2, Zenon
  <2>2. ASSUME NEW i \in 1 .. m + 1
        PROVE  2 * Abs(off(points[i])) <= m
    <3>1. i - 1 \in 0 .. m /\ points[i] = p[i - 1]
        BY <1>3, <1>13
    <3> QED
        BY <1>15, <3>1, Zenon
  <2>3. (m + 1) - 1 = m
    BY <1>3
  <2> QED
    BY <1>8, <1>13, <2>1, <2>2, <2>3
<1> QED
    BY <1>4, <1>16, Zenon DEF adx, ady, points

\* Between two numbers, whichever of them is smaller.
LEMMA BetweenIs ==
    ASSUME NEW a \in Int, NEW b \in Int, NEW n \in Int
    PROVE  Between(n, a, b) <=> (a <= n /\ n <= b) \/ (b <= n /\ n <= a)
BY MinOfTwo, MaxOfTwo DEF Between

\* A quotient lies where the number divided lies.
LEMMA QuotientBetween ==
    ASSUME NEW v \in Nat, NEW q \in Nat \ {0}, NEW lo \in Nat, NEW hi \in Nat,
           lo * q <= v, v <= hi * q
    PROVE  v \div q \in Nat /\ lo <= v \div q /\ v \div q <= hi
<1> DEFINE d == v \div q
           r == v % q
<1>1. d \in Nat /\ r \in 0 .. q - 1 /\ v = d * q + r
    BY Divides
<1> HIDE DEF d, r
<1>2. ~(d < lo)
  <2> SUFFICES ASSUME d + 1 <= lo
               PROVE  FALSE
    BY <1>1
  <2>1. (d + 1) * q <= lo * q /\ (d + 1) * q = d * q + q /\ lo * q \in Int /\ d * q \in Int
    BY <1>1, ProductGrows
  <2> QED
    BY <1>1, <2>1
<1>3. ~(hi < d)
  <2> SUFFICES ASSUME hi + 1 <= d
               PROVE  FALSE
    BY <1>1
  <2>1. (hi + 1) * q <= d * q /\ (hi + 1) * q = hi * q + q /\ hi * q \in Int /\ d * q \in Int
    BY <1>1, ProductGrows
  <2> QED
    BY <1>1, <2>1
<1> QED
    BY <1>1, <1>2, <1>3 DEF d

\* A larger number has the larger quotient.
LEMMA QuotientGrows ==
    ASSUME NEW u \in Nat, NEW v \in Nat, u <= v, NEW q \in Nat \ {0}
    PROVE  u \div q <= v \div q /\ u \div q \in Nat /\ v \div q \in Nat
<1> DEFINE d == u \div q
           e == v \div q
           s == v % q
           r == u % q
<1>1. d \in Nat /\ r \in 0 .. q - 1 /\ u = d * q + r
    BY Divides
<1>2. e \in Nat /\ s \in 0 .. q - 1 /\ v = e * q + s
    BY Divides
<1> HIDE DEF d, e, r, s
<1>3. ~(e < d)
  <2> SUFFICES ASSUME e + 1 <= d
               PROVE  FALSE
    BY <1>1, <1>2
  <2>1. (e + 1) * q <= d * q /\ (e + 1) * q = e * q + q /\ e * q \in Int /\ d * q \in Int
    BY <1>1, <1>2, ProductGrows
  <2> QED
    BY <1>1, <1>2, <2>1
<1> QED
    BY <1>1, <1>2, <1>3 DEF d, e

\* t parts of u and the rest of v make something between the two.
LEMMA PartsBetween ==
    ASSUME NEW q \in Nat \ {0}, NEW t \in 0 .. q, NEW u \in Nat, NEW v \in Nat
    PROVE  /\ (u * t + v * (q - t)) \div q \in Nat
           /\ Between((u * t + v * (q - t)) \div q, v, u)
<1> DEFINE s == q - t
           n == u * t + v * s
<1>1. t \in Nat /\ s \in Nat /\ t + s = q
    OBVIOUS
<1>2. n \in Nat
  <2> HIDE DEF s
  <2>1. u * t \in Nat /\ v * s \in Nat
    BY <1>1
  <2> QED
    BY <2>1
<1> HIDE DEF s
<1>3. \A w \in Nat : w * t + w * s = w * q /\ w * t \in Int /\ w * s \in Int
    BY <1>1
<1>4. CASE u <= v
  <2>1. u * s <= v * s /\ u * t <= v * t /\ u * s \in Int /\ v * s \in Int /\ u * t \in Int /\ v * t \in Int
    BY <1>1, <1>4, ProductGrows
  <2>2. u * t + u * s = u * q /\ v * t + v * s = v * q
    BY <1>3
  <2>3. u * q <= n /\ n <= v * q
    BY <2>1, <2>2
  <2> HIDE DEF n
  <2>4. n \div q \in Nat /\ u <= n \div q /\ n \div q <= v
    BY <1>2, <2>3, QuotientBetween
  <2>5. Between(n \div q, v, u)
    BY <2>4, BetweenIs
  <2> QED
    BY <2>4, <2>5 DEF n, s
<1>5. CASE v <= u
  <2>1. v * s <= u * s /\ v * t <= u * t /\ u * s \in Int /\ v * s \in Int /\ u * t \in Int /\ v * t \in Int
    BY <1>1, <1>5, ProductGrows
  <2>2. u * t + u * s = u * q /\ v * t + v * s = v * q
    BY <1>3
  <2>3. v * q <= n /\ n <= u * q
    BY <2>1, <2>2
  <2> HIDE DEF n
  <2>4. n \div q \in Nat /\ v <= n \div q /\ n \div q <= u
    BY <1>2, <2>3, QuotientBetween
  <2>5. Between(n \div q, v, u)
    BY <2>4, BetweenIs
  <2> QED
    BY <2>4, <2>5 DEF n, s
<1> QED
    BY <1>4, <1>5

\* A mixture lies between the two colours.
LEMMA BlendBetween ==
    ASSUME NEW dst \in 0 .. 255, NEW src \in 0 .. 255, NEW a \in 0 .. 255
    PROVE  Between(Blended(dst, src, a), dst, src)
<1>1. dst \in Nat /\ src \in Nat
    OBVIOUS
<1>2. Between(dst, dst, src) /\ Between(src, dst, src)
    BY <1>1, BetweenIs
<1>3. Between(Mixed(dst, src, a), dst, src)
  <2> DEFINE q == 255
  <2>1. q \in Nat \ {0} /\ a \in 0 .. q
    OBVIOUS
  <2> HIDE DEF q
  <2>2. Between((src * a + dst * (q - a)) \div q, dst, src)
    BY <1>1, <2>1, PartsBetween
  <2>3. Mixed(dst, src, a) = (src * a + dst * (q - a)) \div q
    BY DEF Mixed, q
  <2> QED
    BY <2>2, <2>3
<1> QED
    BY <1>2, <1>3 DEF Blended

\* How far from one colour to the other, from 0 to 256.
Parted(a, b, t) == (a * (256 - t) + b * t) \div 256

\* A number that is split by parts lies between the ends.
LEMMA PartedBetween ==
    ASSUME NEW a \in Nat, NEW b \in Nat, NEW t \in 0 .. 256
    PROVE  Parted(a, b, t) \in Nat /\ Between(Parted(a, b, t), a, b)
<1> DEFINE q == 256
<1>1. q \in Nat \ {0} /\ t \in 0 .. q
    OBVIOUS
<1>2. Parted(a, b, t) = (a * (q - t) + b * t) \div q
    BY DEF Parted
<1> HIDE DEF q
<1>3. (b * t + a * (q - t)) \div q \in Nat /\ Between((b * t + a * (q - t)) \div q, a, b)
    BY <1>1, PartsBetween
<1>4. a * (q - t) + b * t = b * t + a * (q - t)
  <2>1. a * (q - t) \in Int /\ b * t \in Int
    BY <1>1
  <2> QED
    BY <2>1
<1> QED
    BY <1>2, <1>3, <1>4

\* At either end nothing of the other end is left.
LEMMA PartedEnds ==
    ASSUME NEW a \in Nat, NEW b \in Nat
    PROVE  Parted(a, b, 0) = a /\ Parted(a, b, 256) = b
BY DEF Parted

\* The further, the nearer to the other colour.
LEMMA PartedOnwards ==
    ASSUME NEW a \in Nat, NEW b \in Nat, NEW t \in 0 .. 256, NEW u \in 0 .. 256, t <= u
    PROVE  Between(Parted(a, b, u), Parted(a, b, t), b)
<1> DEFINE m(s) == a * (256 - s) + b * s
<1>1. \A s \in 0 .. 256 : m(s) \in Nat
  <2> SUFFICES ASSUME NEW s \in 0 .. 256
               PROVE  m(s) \in Nat
    OBVIOUS
  <2>1. 256 - s \in Nat /\ s \in Nat
    OBVIOUS
  <2>2. a * (256 - s) \in Nat /\ b * s \in Nat
    BY <2>1
  <2> QED
    BY <2>2
<1>2. (a <= b => m(t) <= m(u)) /\ (b <= a => m(u) <= m(t))
  <2> DEFINE d == u - t
             r == 256 - u
  <2>1. d \in Nat /\ t \in Nat /\ r \in Nat /\ u = t + d /\ 256 - u = r /\ 256 - t = r + d
    OBVIOUS
  <2> HIDE DEF d, r
  <2>2. m(t) = a * r + a * d + b * t /\ m(u) = a * r + b * t + b * d
        /\ a * r \in Int /\ a * d \in Int /\ b * t \in Int /\ b * d \in Int
    BY <2>1
  <2>3. (a <= b => a * d <= b * d) /\ (b <= a => b * d <= a * d)
    BY <2>1, ProductGrows
  <2> HIDE DEF m
  <2> DEFINE e == a * r
             f == a * d
             g == b * t
             h == b * d
  <2>4. m(t) = e + f + g /\ m(u) = e + g + h /\ e \in Int /\ f \in Int /\ g \in Int /\ h \in Int
        /\ (a <= b => f <= h) /\ (b <= a => h <= f)
    BY <2>2, <2>3
  <2> HIDE DEF e, f, g, h
  <2> QED
    BY <2>4
<1>3. \A s : Parted(a, b, s) = m(s) \div 256
    BY DEF Parted
<1> HIDE DEF m
<1>4. (a <= b => Parted(a, b, t) <= Parted(a, b, u)) /\ (b <= a => Parted(a, b, u) <= Parted(a, b, t))
  <2> DEFINE q == 256
             v == m(t)
             w == m(u)
  <2>1. q \in Nat \ {0} /\ v \in Nat /\ w \in Nat
    BY <1>1
  <2>2. Parted(a, b, t) = v \div q /\ Parted(a, b, u) = w \div q /\ (a <= b => v <= w) /\ (b <= a => w <= v)
    BY <1>2, <1>3
  <2> HIDE DEF q, v, w
  <2>3. (v <= w => v \div q <= w \div q) /\ (w <= v => w \div q <= v \div q)
    BY <2>1, QuotientGrows
  <2> QED
    BY <2>2, <2>3
<1>5. /\ Parted(a, b, t) \in Nat /\ Parted(a, b, u) \in Nat
      /\ Between(Parted(a, b, t), a, b) /\ Between(Parted(a, b, u), a, b)
    BY PartedBetween
<1> DEFINE p == Parted(a, b, t)
           q == Parted(a, b, u)
<1> HIDE DEF p, q
<1>6. p \in Nat /\ q \in Nat /\ (a <= b => p <= q) /\ (b <= a => q <= p)
    BY <1>4, <1>5 DEF p, q
<1>7. ((a <= q /\ q <= b) \/ (b <= q /\ q <= a)) /\ ((a <= p /\ p <= b) \/ (b <= p /\ p <= a))
    BY <1>5, <1>6, BetweenIs DEF p, q
<1>8. Between(q, p, b)
  <2>1. (p <= q /\ q <= b) \/ (b <= q /\ q <= p)
    BY <1>6, <1>7
  <2> QED
    BY <1>6, <2>1, BetweenIs
<1> QED
    BY <1>8 DEF p, q

\* What lies between is between, and the ends are the ends.
LEMMA LerpBetween ==
    ASSUME NEW a \in Nat, NEW b \in Nat, NEW t \in Int
    PROVE  /\ Between(Lerp(a, b, t), a, b)
           /\ t <= 0 => Lerp(a, b, t) = a
           /\ t >= 256 => Lerp(a, b, t) = b
<1> DEFINE part == IF t < 0 THEN 0 ELSE IF t > 256 THEN 256 ELSE t
<1>1. part \in 0 .. 256 /\ (t <= 0 => part = 0) /\ (t >= 256 => part = 256)
    OBVIOUS
<1>2. Lerp(a, b, t) = Parted(a, b, part)
    BY DEF Lerp, Parted
<1> HIDE DEF part
<1>3. Between(Parted(a, b, part), a, b)
    BY <1>1, PartedBetween
<1>4. Parted(a, b, 0) = a /\ Parted(a, b, 256) = b
    BY PartedEnds
<1> QED
    BY <1>1, <1>2, <1>3, <1>4, Zenon

\* A gradient goes from the one colour to the other and never back.
LEMMA GradientOnwards ==
    ASSUME NEW top \in Nat, NEW bottom \in Nat, NEW h \in Nat, h > 1
    PROVE  /\ GradientRow(top, bottom, h, 0) = top
           /\ GradientRow(top, bottom, h, h - 1) = bottom
           /\ \A j \in 1 .. h - 1 :
                Between(GradientRow(top, bottom, h, j), GradientRow(top, bottom, h, j - 1), bottom)
<1> DEFINE q == h - 1
           part(j) == (j * 256) \div q
<1>1. q \in Nat \ {0}
    OBVIOUS
<1>2. \A j \in 0 .. q : part(j) \in 0 .. 256
  <2> HIDE DEF q
  <2> SUFFICES ASSUME NEW j \in 0 .. q
               PROVE  part(j) \in 0 .. 256
    OBVIOUS
  <2>1. j \in Nat /\ j * 256 \in Nat /\ 0 * q <= j * 256 /\ j * 256 <= 256 * q
    BY <1>1
  <2>2. part(j) \in Nat /\ part(j) <= 256
    BY <1>1, <2>1, QuotientBetween
  <2> QED
    BY <2>2
<1>3. part(0) = 0 /\ part(q) = 256
  <2> HIDE DEF q
  <2>1. 0 * 256 = 0 /\ 0 \div q = 0
    BY <1>1
  <2>2. q * 256 \in Nat /\ 256 * q <= q * 256 /\ q * 256 <= 256 * q
    BY <1>1
  <2>3. part(q) \in Nat /\ 256 <= part(q) /\ part(q) <= 256
    BY <1>1, <2>2, QuotientBetween
  <2> QED
    BY <2>1, <2>3
<1>4. \A j \in 1 .. q : part(j - 1) <= part(j)
  <2> HIDE DEF q
  <2> SUFFICES ASSUME NEW j \in 1 .. q
               PROVE  part(j - 1) <= part(j)
    OBVIOUS
  <2>1. (j - 1) * 256 \in Nat /\ j * 256 \in Nat /\ (j - 1) * 256 <= j * 256
    BY <1>1
  <2> QED
    BY <1>1, <2>1, QuotientGrows
<1>5. \A j \in 0 .. q : GradientRow(top, bottom, h, j) = Lerp(top, bottom, part(j))
    BY DEF GradientRow
<1>6. \A t \in 0 .. 256 : Lerp(top, bottom, t) = Parted(top, bottom, t)
    BY DEF Lerp, Parted
<1> HIDE DEF q, part
<1>7. \A j \in 0 .. q : GradientRow(top, bottom, h, j) = Parted(top, bottom, part(j))
    BY <1>2, <1>5, <1>6
<1>8. 0 \in 0 .. q /\ q \in 0 .. q
    BY <1>1
<1>9. GradientRow(top, bottom, h, 0) = top /\ GradientRow(top, bottom, h, q) = bottom
    BY <1>3, <1>7, <1>8, PartedEnds
<1>10. ASSUME NEW j \in 1 .. q
       PROVE  Between(GradientRow(top, bottom, h, j), GradientRow(top, bottom, h, j - 1), bottom)
  <2>1. j \in 0 .. q /\ j - 1 \in 0 .. q
    BY <1>1
  <2>2. part(j) \in 0 .. 256 /\ part(j - 1) \in 0 .. 256 /\ part(j - 1) <= part(j)
    BY <1>2, <1>4, <2>1
  <2>3. Between(Parted(top, bottom, part(j)), Parted(top, bottom, part(j - 1)), bottom)
    BY <2>2, PartedOnwards
  <2> QED
    BY <1>7, <2>1, <2>3
<1> QED
    BY <1>9, <1>10 DEF q

\* The table, entry by entry.
LEMMA SinTable ==
           /\ sin_table \in [1 .. 91 -> Int]
           /\ sin_table[1] = 0 /\ sin_table[2] = 17 /\ sin_table[3] = 35 /\ sin_table[4] = 52 /\ sin_table[5] = 70
           /\ sin_table[6] = 87 /\ sin_table[7] = 105 /\ sin_table[8] = 122 /\ sin_table[9] = 139 /\ sin_table[10] = 156
           /\ sin_table[11] = 174 /\ sin_table[12] = 191 /\ sin_table[13] = 208 /\ sin_table[14] = 225 /\ sin_table[15] = 242
           /\ sin_table[16] = 259 /\ sin_table[17] = 276 /\ sin_table[18] = 292 /\ sin_table[19] = 309 /\ sin_table[20] = 326
           /\ sin_table[21] = 342 /\ sin_table[22] = 358 /\ sin_table[23] = 375 /\ sin_table[24] = 391 /\ sin_table[25] = 407
           /\ sin_table[26] = 423 /\ sin_table[27] = 438 /\ sin_table[28] = 454 /\ sin_table[29] = 469 /\ sin_table[30] = 485
           /\ sin_table[31] = 500 /\ sin_table[32] = 515 /\ sin_table[33] = 530 /\ sin_table[34] = 545 /\ sin_table[35] = 559
           /\ sin_table[36] = 574 /\ sin_table[37] = 588 /\ sin_table[38] = 602 /\ sin_table[39] = 616 /\ sin_table[40] = 629
           /\ sin_table[41] = 643 /\ sin_table[42] = 656 /\ sin_table[43] = 669 /\ sin_table[44] = 682 /\ sin_table[45] = 695
           /\ sin_table[46] = 707 /\ sin_table[47] = 719 /\ sin_table[48] = 731 /\ sin_table[49] = 743 /\ sin_table[50] = 755
           /\ sin_table[51] = 766 /\ sin_table[52] = 777 /\ sin_table[53] = 788 /\ sin_table[54] = 799 /\ sin_table[55] = 809
           /\ sin_table[56] = 819 /\ sin_table[57] = 829 /\ sin_table[58] = 839 /\ sin_table[59] = 848 /\ sin_table[60] = 857
           /\ sin_table[61] = 866 /\ sin_table[62] = 875 /\ sin_table[63] = 883 /\ sin_table[64] = 891 /\ sin_table[65] = 899
           /\ sin_table[66] = 906 /\ sin_table[67] = 914 /\ sin_table[68] = 921 /\ sin_table[69] = 927 /\ sin_table[70] = 934
           /\ sin_table[71] = 940 /\ sin_table[72] = 946 /\ sin_table[73] = 951 /\ sin_table[74] = 956 /\ sin_table[75] = 961
           /\ sin_table[76] = 966 /\ sin_table[77] = 970 /\ sin_table[78] = 974 /\ sin_table[79] = 978 /\ sin_table[80] = 982
           /\ sin_table[81] = 985 /\ sin_table[82] = 988 /\ sin_table[83] = 990 /\ sin_table[84] = 993 /\ sin_table[85] = 995
           /\ sin_table[86] = 996 /\ sin_table[87] = 998 /\ sin_table[88] = 999 /\ sin_table[89] = 999 /\ sin_table[90] = 1000
           /\ sin_table[91] = 1000
BY DEF sin_table

\* An angle between 0 and 90 degrees is one of 91.
LEMMA QuarterOf ==
    ASSUME NEW k \in 0 .. 90
    PROVE
       \/ k = 0 \/ k = 1 \/ k = 2 \/ k = 3 \/ k = 4 \/ k = 5 \/ k = 6 \/ k = 7 \/ k = 8 \/ k = 9 \/ k = 10 \/ k = 11 \/ k = 12
       \/ k = 13 \/ k = 14 \/ k = 15 \/ k = 16 \/ k = 17 \/ k = 18 \/ k = 19 \/ k = 20 \/ k = 21 \/ k = 22 \/ k = 23 \/ k = 24 \/ k = 25
       \/ k = 26 \/ k = 27 \/ k = 28 \/ k = 29 \/ k = 30 \/ k = 31 \/ k = 32 \/ k = 33 \/ k = 34 \/ k = 35 \/ k = 36 \/ k = 37 \/ k = 38
       \/ k = 39 \/ k = 40 \/ k = 41 \/ k = 42 \/ k = 43 \/ k = 44 \/ k = 45 \/ k = 46 \/ k = 47 \/ k = 48 \/ k = 49 \/ k = 50 \/ k = 51
       \/ k = 52 \/ k = 53 \/ k = 54 \/ k = 55 \/ k = 56 \/ k = 57 \/ k = 58 \/ k = 59 \/ k = 60 \/ k = 61 \/ k = 62 \/ k = 63 \/ k = 64
       \/ k = 65 \/ k = 66 \/ k = 67 \/ k = 68 \/ k = 69 \/ k = 70 \/ k = 71 \/ k = 72 \/ k = 73 \/ k = 74 \/ k = 75 \/ k = 76 \/ k = 77
       \/ k = 78 \/ k = 79 \/ k = 80 \/ k = 81 \/ k = 82 \/ k = 83 \/ k = 84 \/ k = 85 \/ k = 86 \/ k = 87 \/ k = 88 \/ k = 89 \/ k = 90
OBVIOUS

\* The square of the radius, within the last digit of the table.
Near(n) == 998000 <= n /\ n <= 1002000

\* The squares of an entry and of the one as far from the other end.
Squares(k) == sin_table[k + 1] * sin_table[k + 1] + sin_table[91 - k] * sin_table[91 - k]

\* The entries of the table lie on the circle.
LEMMA TableOnCircle ==
    ASSUME NEW k \in 0 .. 90
    PROVE  Near(Squares(k))
BY SMT, QuarterOf, SinTable DEF Near, Squares

\* Sine by the angle within a turn.
SinOf(d) ==
    IF d <= 90 THEN sin_table[d + 1]
    ELSE IF d <= 180 THEN sin_table[181 - d]
    ELSE IF d <= 270 THEN -sin_table[d - 179]
    ELSE -sin_table[361 - d]

\* An angle within a turn, half a turn on, mirrored, and a quarter on.
LEMMA TurnedBy ==
    ASSUME NEW deg \in Int
    PROVE  LET d == deg % 360
           IN  /\ d \in 0 .. 359
               /\ (deg + 180) % 360 = (IF d < 180 THEN d + 180 ELSE d - 180)
               /\ (180 - deg) % 360 = (IF d <= 180 THEN 180 - d ELSE 540 - d)
               /\ (deg + 90) % 360 = (IF d < 270 THEN d + 90 ELSE d - 270)
OBVIOUS

\* Sine and cosine of angles within a turn.
LEMMA SinWithinTurn ==
    ASSUME NEW d \in 0 .. 359
    PROVE  /\ SinOf(d) = -SinOf(IF d < 180 THEN d + 180 ELSE d - 180)
           /\ SinOf(d) = SinOf(IF d <= 180 THEN 180 - d ELSE 540 - d)
<1> DEFINE T == sin_table
<1>1. T \in [1 .. 91 -> Int] /\ T[1] = 0
    BY SinTable
<1> HIDE DEF T
<1>2. \A e \in 0 .. 359 :
        /\ e <= 90 => SinOf(e) = T[e + 1] /\ T[e + 1] \in Int
        /\ 90 < e /\ e <= 180 => SinOf(e) = T[181 - e] /\ T[181 - e] \in Int
        /\ 180 < e /\ e <= 270 => SinOf(e) = -T[e - 179] /\ T[e - 179] \in Int
        /\ 270 < e => SinOf(e) = -T[361 - e] /\ T[361 - e] \in Int
  <2> SUFFICES ASSUME NEW e \in 0 .. 359
               PROVE  /\ e <= 90 => SinOf(e) = T[e + 1] /\ T[e + 1] \in Int
                      /\ 90 < e /\ e <= 180 => SinOf(e) = T[181 - e] /\ T[181 - e] \in Int
                      /\ 180 < e /\ e <= 270 => SinOf(e) = -T[e - 179] /\ T[e - 179] \in Int
                      /\ 270 < e => SinOf(e) = -T[361 - e] /\ T[361 - e] \in Int
    OBVIOUS
  <2>1. CASE e <= 90
    BY <1>1, <2>1 DEF SinOf, T
  <2>2. CASE 90 < e /\ e <= 180
    BY <1>1, <2>2 DEF SinOf, T
  <2>3. CASE 180 < e /\ e <= 270
    BY <1>1, <2>3 DEF SinOf, T
  <2>4. CASE 270 < e
    BY <1>1, <2>4 DEF SinOf, T
  <2> QED
    BY <2>1, <2>2, <2>3, <2>4
<1>3. CASE d <= 90
    BY <1>1, <1>2, <1>3
<1>4. CASE 90 < d /\ d < 180
    BY <1>1, <1>2, <1>4
<1>5. CASE d = 180
    BY <1>1, <1>2, <1>5
<1>6. CASE 180 < d /\ d <= 270
    BY <1>1, <1>2, <1>6
<1>7. CASE 270 < d
    BY <1>1, <1>2, <1>7
<1> QED
    BY <1>3, <1>4, <1>5, <1>6, <1>7

\* Sine and cosine are those of a point of the circle.
LEMMA CircleWithinTurn ==
    ASSUME NEW d \in 0 .. 359
    PROVE  LET c == SinOf(IF d < 270 THEN d + 90 ELSE d - 270)
           IN  SinOf(d) * SinOf(d) + c * c \in Int
               /\ Near(SinOf(d) * SinOf(d) + c * c)
<1> DEFINE T == sin_table
           e == IF d < 270 THEN d + 90 ELSE d - 270
<1>1. T \in [1 .. 91 -> Int]
    BY SinTable
<1>2. \E k \in 0 .. 90 :
        \/ (SinOf(d) = T[k + 1] \/ SinOf(d) = -T[k + 1]) /\ (SinOf(e) = T[91 - k] \/ SinOf(e) = -T[91 - k])
        \/ (SinOf(d) = T[91 - k] \/ SinOf(d) = -T[91 - k]) /\ (SinOf(e) = T[k + 1] \/ SinOf(e) = -T[k + 1])
  <2>1. CASE d <= 90
    <3>1. SinOf(d) = T[d + 1]
        BY <2>1 DEF SinOf
    <3>2. SinOf(e) = T[91 - d]
        BY <2>1 DEF SinOf
    <3> QED
        BY <2>1, <3>1, <3>2
  <2>2. CASE 90 < d /\ d <= 180
    <3> DEFINE k == d - 90
    <3>1. SinOf(d) = T[91 - k]
        BY <2>2 DEF SinOf
    <3>2. SinOf(e) = -T[k + 1]
        BY <2>2 DEF SinOf
    <3>3. k \in 0 .. 90
        BY <2>2
    <3> HIDE DEF k, T, e
    <3> QED
        BY <3>1, <3>2, <3>3
  <2>3. CASE 180 < d /\ d <= 270
    <3> DEFINE k == d - 180
    <3>1. SinOf(d) = -T[k + 1]
        BY <2>3 DEF SinOf
    <3>2. SinOf(e) = -T[91 - k] \/ SinOf(e) = T[91 - k]
        BY <2>3 DEF SinOf
    <3>3. k \in 0 .. 90
        BY <2>3
    <3> HIDE DEF k, T, e
    <3> QED
        BY <3>1, <3>2, <3>3
  <2>4. CASE 270 < d
    <3> DEFINE k == d - 270
    <3>1. SinOf(d) = -T[91 - k]
        BY <2>4 DEF SinOf
    <3>2. SinOf(e) = T[k + 1]
        BY <2>4 DEF SinOf
    <3>3. k \in 0 .. 90
        BY <2>4
    <3> HIDE DEF k, T, e
    <3> QED
        BY <3>1, <3>2, <3>3
  <2> QED
    BY <2>1, <2>2, <2>3, <2>4
<1>3. PICK k \in 0 .. 90 :
        \/ (SinOf(d) = T[k + 1] \/ SinOf(d) = -T[k + 1]) /\ (SinOf(e) = T[91 - k] \/ SinOf(e) = -T[91 - k])
        \/ (SinOf(d) = T[91 - k] \/ SinOf(d) = -T[91 - k]) /\ (SinOf(e) = T[k + 1] \/ SinOf(e) = -T[k + 1])
    BY <1>2
<1> DEFINE a == T[k + 1]
           b == T[91 - k]
           s == SinOf(d)
           c == SinOf(e)
<1>4. a \in Int /\ b \in Int /\ Near(a * a + b * b)
  <2>1. Squares(k) = a * a + b * b
    BY DEF Squares
  <2>2. Near(Squares(k))
    BY TableOnCircle
  <2>3. a \in Int /\ b \in Int
    BY <1>1
  <2> HIDE DEF a, b
  <2> QED
    BY <2>1, <2>2, <2>3, Zenon
<1>5. \/ (s = a \/ s = -a) /\ (c = b \/ c = -b)
      \/ (s = b \/ s = -b) /\ (c = a \/ c = -a)
    BY <1>3
<1> HIDE DEF a, b, s, c, T, e
<1>6. (-a) * (-a) = a * a /\ (-b) * (-b) = b * b /\ a * a \in Int /\ b * b \in Int
    BY <1>4
<1>7. (s * s = a * a /\ c * c = b * b) \/ (s * s = b * b /\ c * c = a * a)
    BY <1>5, <1>6
<1>8. s * s + c * c \in Int /\ Near(s * s + c * c)
  <2> DEFINE A == a * a
             B == b * b
             V == s * s
             C == c * c
  <2>1. A \in Int /\ B \in Int /\ Near(A + B)
    BY <1>4, <1>6
  <2>2. (V = A /\ C = B) \/ (V = B /\ C = A)
    BY <1>7
  <2> HIDE DEF A, B, V, C
  <2>3. V + C \in Int /\ Near(V + C)
    BY <2>1, <2>2
  <2> QED
    BY <2>3 DEF V, C
<1> QED
    BY <1>8 DEF s, c, e

\* What is near the square of the radius is on the circle.
LEMMA NearCircle ==
    ASSUME NEW n \in Int, Near(n)
    PROVE  OnCircle(n)
BY SMT, BetweenIs DEF Near, OnCircle

\* The identities that the run checks, for every angle.
LEMMA SinExact ==
    ASSUME NEW deg \in Int
    PROVE  /\ SinDeg(deg) = -SinDeg(deg + 180) /\ SinDeg(deg) = SinDeg(180 - deg)
           /\ OnCircle(SinDeg(deg) * SinDeg(deg) + CosDeg(deg) * CosDeg(deg))
           /\ CosDeg(deg) = CosDeg(-deg)
<1>1. \A e \in Int : SinDeg(e) = SinOf(e % 360)
    BY DEF SinDeg, SinOf
<1>2. ASSUME NEW e \in Int
      PROVE  SinDeg(e) = -SinDeg(e + 180) /\ SinDeg(e) = SinDeg(180 - e)
  <2> DEFINE d == e % 360
  <2>1. /\ d \in 0 .. 359
        /\ (e + 180) % 360 = (IF d < 180 THEN d + 180 ELSE d - 180)
        /\ (180 - e) % 360 = (IF d <= 180 THEN 180 - d ELSE 540 - d)
    BY TurnedBy
  <2>2. e + 180 \in Int /\ 180 - e \in Int
    OBVIOUS
  <2>3. SinDeg(e) = SinOf(d) /\ SinDeg(e + 180) = SinOf((e + 180) % 360)
        /\ SinDeg(180 - e) = SinOf((180 - e) % 360)
    BY <1>1, <2>2
  <2> HIDE DEF d
  <2>4. /\ SinOf(d) = -SinOf(IF d < 180 THEN d + 180 ELSE d - 180)
        /\ SinOf(d) = SinOf(IF d <= 180 THEN 180 - d ELSE 540 - d)
    BY <2>1, SinWithinTurn
  <2> DEFINE f == IF d < 180 THEN d + 180 ELSE d - 180
             g == IF d <= 180 THEN 180 - d ELSE 540 - d
  <2>5. SinDeg(e + 180) = SinOf(f) /\ SinDeg(180 - e) = SinOf(g) /\ SinOf(d) = -SinOf(f) /\ SinOf(d) = SinOf(g)
    BY <2>1, <2>3, <2>4
  <2> HIDE DEF f, g
  <2> QED
    BY <2>3, <2>5
<1>3. CosDeg(deg) = CosDeg(-deg)
  <2> DEFINE e == deg + 90
  <2>1. e \in Int /\ 180 - e = -deg + 90
    OBVIOUS
  <2> HIDE DEF e
  <2>2. SinDeg(e) = SinDeg(180 - e)
    BY <1>2, <2>1
  <2> QED
    BY <2>1, <2>2 DEF CosDeg, e
<1>4. OnCircle(SinDeg(deg) * SinDeg(deg) + CosDeg(deg) * CosDeg(deg))
  <2> DEFINE d == deg % 360
             c == SinOf(IF d < 270 THEN d + 90 ELSE d - 270)
             s == SinOf(d) * SinOf(d) + c * c
  <2>1. d \in 0 .. 359 /\ (deg + 90) % 360 = (IF d < 270 THEN d + 90 ELSE d - 270)
    BY TurnedBy
  <2>2. deg + 90 \in Int
    OBVIOUS
  <2>3. SinDeg(deg) = SinOf(d) /\ CosDeg(deg) = c
    BY <1>1, <2>1, <2>2 DEF CosDeg
  <2>4. s \in Int /\ Near(s)
    <3> HIDE DEF d
    <3> QED
        BY <2>1, CircleWithinTurn
  <2>5. SinDeg(deg) * SinDeg(deg) + CosDeg(deg) * CosDeg(deg) = s
    <3> HIDE DEF d, c
    <3> QED
        BY <2>3
  <2> HIDE DEF s
  <2>6. OnCircle(s)
    BY <2>4, NearCircle
  <2> QED
    BY <2>5, <2>6, Zenon
<1>5. SinDeg(deg) = -SinDeg(deg + 180) /\ SinDeg(deg) = SinDeg(180 - deg)
    BY <1>2
<1> QED
    BY <1>3, <1>4, <1>5

\* A set of shades that is not empty lies between its least and its greatest.
LEMMA ShadesBetween ==
    ASSUME NEW V \in SUBSET (0 .. 255), V # {}, NEW n \in Int,
           \E a, b \in V : a <= n /\ n <= b
    PROVE  Between(n, Min(V), Max(V))
<1>1. V \in SUBSET Nat
    OBVIOUS
<1>2. Min(V) \in V /\ \A i \in V : Min(V) <= i
    BY <1>1, LeastThere
<1> DEFINE top == 255
<1>3. top \in Nat /\ V \in SUBSET (0 .. top)
    OBVIOUS
<1> HIDE DEF top
<1>4. Max(V) \in V /\ \A i \in V : Max(V) >= i
    BY <1>3, GreatestThere
<1> DEFINE lo == Min(V)
           hi == Max(V)
<1> HIDE DEF lo, hi
<1>5. lo \in V /\ hi \in V /\ \A i \in V : lo <= i /\ i <= hi
    BY <1>2, <1>4 DEF lo, hi
<1>7. lo \in Nat /\ hi \in Nat /\ lo <= n /\ n <= hi
  <2>1. PICK a \in V, b \in V : a <= n /\ n <= b
    OBVIOUS
  <2>2. a \in Nat /\ b \in Nat /\ lo <= a /\ b <= hi /\ lo \in Nat /\ hi \in Nat
    BY <1>1, <1>5
  <2> QED
    BY <2>1, <2>2
<1>6. Between(n, lo, hi)
    BY <1>7, BetweenIs
<1> QED
    BY <1>6 DEF lo, hi

\* The average of six values that lie between two.
LEMMA AverageBetween ==
    ASSUME NEW V \in SUBSET (0 .. 255), NEW a \in V, NEW b \in V, NEW c \in V, NEW d \in V, NEW e \in V
    PROVE  Between((a * 2 + b + c + d + e) \div 6, Min(V), Max(V))
<1> DEFINE n == (a * 2 + b + c + d + e) \div 6
<1>1. n \in Int /\ (a <= n \/ b <= n \/ c <= n \/ d <= n \/ e <= n)
              /\ (n <= a \/ n <= b \/ n <= c \/ n <= d \/ n <= e)
  <2>1. a \in Nat /\ b \in Nat /\ c \in Nat /\ d \in Nat /\ e \in Nat
    OBVIOUS
  <2> QED
    BY <2>1
<1> HIDE DEF n
<1>2. \E x, y \in V : x <= n /\ n <= y
    BY <1>1
<1>3. V # {}
    OBVIOUS
<1> QED
    BY <1>1, <1>2, <1>3, ShadesBetween DEF n

\* A blur stays between the darkest and the brightest word of its box, and leaves
\* the rest alone.
LEMMA BlurBetween ==
    ASSUME NEW picture \in [Square -> 0 .. 255],
           NEW x \in 0 .. 1, NEW y \in 0 .. 1, NEW w \in 1 .. Side - 1, NEW h \in 1 .. Side - 1
    PROVE  BlurredWithin(picture, BlurPass(picture, x, y, w, h), x, y, w, h)
<1> DEFINE inBox(c) == c[1] \in x .. x + w - 1 /\ c[2] \in y .. y + h - 1
           box == {c \in Square : inBox(c)}
           values == {picture[c] : c \in box}
           near(c, n) == IF inBox(n) THEN picture[n] ELSE picture[c]
           sum(c) == picture[c] * 2 + near(c, <<c[1] - 1, c[2]>>) + near(c, <<c[1] + 1, c[2]>>)
                       + near(c, <<c[1], c[2] - 1>>) + near(c, <<c[1], c[2] + 1>>)
<1>1. BlurPass(picture, x, y, w, h)
        = [c \in DOMAIN picture |-> IF inBox(c) THEN sum(c) \div 6 ELSE picture[c]]
    BY DEF BlurPass
<1>2. DOMAIN picture = Square
    OBVIOUS
<1>3. values \in SUBSET (0 .. 255)
    OBVIOUS
<1>4. ASSUME NEW c \in Square, c \in box
      PROVE  Between(sum(c) \div 6, Min(values), Max(values))
  <2>1. \A i, j : inBox(<<i, j>>) => <<i, j>> \in box
    BY GfxAssumption DEF Square
  <2>2. picture[c] \in values
    BY <1>4
  <2>3. \A i, j : near(c, <<i, j>>) \in values
    <3> SUFFICES ASSUME NEW i, NEW j
                 PROVE  near(c, <<i, j>>) \in values
        OBVIOUS
    <3>1. CASE inBox(<<i, j>>)
        BY <2>1, <3>1
    <3>2. CASE ~inBox(<<i, j>>)
        BY <2>2, <3>2
    <3> QED
        BY <3>1, <3>2
  <2> DEFINE a == picture[c]
             b == near(c, <<c[1] - 1, c[2]>>)
             d == near(c, <<c[1] + 1, c[2]>>)
             e == near(c, <<c[1], c[2] - 1>>)
             f == near(c, <<c[1], c[2] + 1>>)
  <2>4. sum(c) = a * 2 + b + d + e + f
    OBVIOUS
  <2>5. a \in values /\ b \in values /\ d \in values /\ e \in values /\ f \in values
    <3> HIDE DEF near, values
    <3> QED
        BY <2>2, <2>3
  <2> HIDE DEF a, b, d, e, f, near, values, sum
  <2> QED
    BY <1>3, <2>4, <2>5, AverageBetween
<1>5. ASSUME NEW c \in Square
      PROVE  IF c \in box THEN Between(BlurPass(picture, x, y, w, h)[c], Min(values), Max(values))
             ELSE BlurPass(picture, x, y, w, h)[c] = picture[c]
  <2>1. BlurPass(picture, x, y, w, h)[c] = IF inBox(c) THEN sum(c) \div 6 ELSE picture[c]
    BY <1>1, <1>2
  <2>2. c \in box <=> inBox(c)
    OBVIOUS
  <2> HIDE DEF inBox, sum, values, box
  <2> QED
    BY <1>4, <2>1, <2>2, Zenon
<1> DEFINE blurred == BlurPass(picture, x, y, w, h)
<1>6. \A c \in Square : IF c \in box THEN Between(blurred[c], Min(values), Max(values))
                        ELSE blurred[c] = picture[c]
    BY <1>5
<1> HIDE DEF blurred
<1>7. BlurredWithin(picture, blurred, x, y, w, h)
    BY <1>6 DEF BlurredWithin
<1> QED
    BY <1>7 DEF blurred

\* A point of the desktop has whole coordinates.
LEMMA PointsWhole ==
    ASSUME NEW p \in Points
    PROVE  p[1] \in Int /\ p[2] \in Int
<1> DEFINE lines == 0 .. scr_h - 1
           columns == 0 .. scr_w - 1
<1>1. ProbeXs \subseteq Int /\ ProbeYs \subseteq Int
    BY LayoutAssumption
<1>2. lines \subseteq Int /\ columns \subseteq Int
    OBVIOUS
<1>3. p \in ProbeXs \X lines \/ p \in columns \X ProbeYs
    BY DEF Points
<1> HIDE DEF lines, columns
<1> QED
    BY <1>1, <1>2, <1>3

\* The numbers of the dock.
LEMMA DockSizes ==
    /\ dock_x0 \in Int /\ dock_y0 \in Int /\ dock_total = 338
    /\ \A i \in Int : IconX(i) = dock_x0 + 14 + i * 54 /\ IconX(i) \in Int
<1>1. dock_total = 338
    BY DEF dock_total, DOCK_COUNT, DOCK_ICON
<1>2. dock_x0 \in Int /\ dock_y0 \in Int
    BY <1>1, LayoutAssumption DEF dock_x0, dock_y0, AX_DOCK_H
<1> QED
    BY <1>1, <1>2 DEF IconX, DOCK_ICON

\* The icon that grows is the one a click launches.
LEMMA DockExact ==
    ASSUME NEW p, p[1] \in Int, p[2] \in Int
    PROVE  LET lit == {i \in 0 .. DOCK_COUNT - 1 : IconHovered(p, i)}
               picked == DockPicked(p)
           IN  /\ lit \subseteq {picked}
               /\ picked # None =>
                    /\ InBoxAt(p, Box(dock_x0, dock_y0, dock_total, AX_DOCK_H))
                    /\ \A i \in (0 .. DOCK_COUNT - 1) \ {picked} : ~InBoxAt(p, IconDrawn(i))
<1> DEFINE x == p[1]
           y == p[2]
           X == dock_x0
           Y == dock_y0
           hit == {i \in 0 .. 5 : /\ x >= IconX(i) - 2 /\ x < IconX(i) + 44
                                  /\ y >= Y + 4 /\ y < Y + 52}
           picked == DockPicked(p)
<1>1. x \in Int /\ y \in Int /\ X \in Int /\ Y \in Int /\ \A i \in Int : IconX(i) = X + 14 + i * 54
    BY DockSizes
<1>2. picked = IF y < Y + 4 \/ y > Y + 56 THEN None ELSE IF hit = {} THEN None ELSE Min(hit)
  <2>1. \A i \in 0 .. 5 :
          /\ IconX(i) + 44 = IconX(i) + DOCK_ICON + 4
          /\ Y + 52 = Y + 8 + DOCK_ICON + 4
    BY <1>1 DEF DOCK_ICON
  <2>2. DOCK_COUNT - 1 = 5 /\ AX_DOCK_H = 56
    BY DEF DOCK_COUNT, AX_DOCK_H
  <2>3. {i \in 0 .. DOCK_COUNT - 1 :
           /\ x >= IconX(i) - 2 /\ x < IconX(i) + DOCK_ICON + 4
           /\ y >= Y + 4 /\ y < Y + 8 + DOCK_ICON + 4} = hit
    <3> HIDE DEF x, y, Y
    <3> QED
        BY <2>1, <2>2
  <2> HIDE DEF hit
  <2> QED
    BY <2>2, <2>3 DEF DockPicked, FirstItem
<1> HIDE DEF x, y, X, Y
<1>3. \A i, j \in hit : i = j
    BY <1>1
<1>4. ASSUME NEW i \in 0 .. 5, IconHovered(p, i)
      PROVE  i \in hit /\ ~(y < Y + 4 \/ y > Y + 56)
  <2>1. IconX(i) \in Int /\ x \in IconX(i) .. IconX(i) + 40 - 1 /\ y \in Y + 8 .. Y + 8 + 40 - 1
    BY <1>1, <1>4 DEF IconHovered, InBoxAt, Box, DOCK_ICON, x, y, Y
  <2> QED
    BY <1>1, <2>1
<1>5. ASSUME NEW i \in 0 .. 5, InBoxAt(p, IconDrawn(i))
      PROVE  i \in hit
  <2>1. IconX(i) \in Int /\ x \in IconX(i) - 2 .. IconX(i) - 2 + 44 - 1 /\ y \in Y + 4 .. Y + 4 + 44 - 1
    BY <1>1, <1>5 DEF IconDrawn, InBoxAt, Box, DOCK_ICON, x, y, Y
  <2> QED
    BY <1>1, <2>1
<1>6. hit # {} => Min(hit) \in hit
  <2>1. hit \in SUBSET Nat
    OBVIOUS
  <2> HIDE DEF hit
  <2> QED
    BY <2>1, LeastThere
<1>7. DOCK_COUNT - 1 = 5
    BY DEF DOCK_COUNT
<1>8. ASSUME NEW i \in 0 .. 5, IconHovered(p, i)
      PROVE  i = picked
  <2>1. i \in hit /\ ~(y < Y + 4 \/ y > Y + 56)
    BY <1>4, <1>8
  <2>2. picked = Min(hit)
    <3> HIDE DEF picked, hit
    <3> QED
        BY <1>2, <2>1
  <2> HIDE DEF picked, hit
  <2> QED
    BY <1>3, <1>6, <2>1, <2>2
<1>9. picked # None => picked \in hit
  <2> HIDE DEF picked, hit
  <2> QED
    BY <1>2, <1>6
<1>10. picked \in hit => InBoxAt(p, Box(dock_x0, dock_y0, dock_total, AX_DOCK_H))
  <2> SUFFICES ASSUME NEW i \in hit
               PROVE  x \in X .. X + 338 - 1 /\ y \in Y .. Y + 56 - 1
    BY DockSizes DEF InBoxAt, Box, AX_DOCK_H, x, y, X, Y
  <2> QED
    BY <1>1
<1> HIDE DEF picked, hit
<1> QED
    BY <1>3, <1>5, <1>7, <1>8, <1>9, <1>10 DEF picked

\* At most the row that is picked is lit, and the first row is picked without
\* being lit only above it.
RowsRight(p, box, y, rows, rowH) ==
    /\ RowsLit(p, box, rows, rowH) \subseteq {RowPicked(p, box, rowH)}
    /\ RowPicked(p, box, rowH) \in 0 .. rows - 1 /\ RowsLit(p, box, rows, rowH) = {} =>
         RowPicked(p, box, rowH) = 0 /\ p[2] < y + 4

\* The rows of a menu, by the height of a row.
LEMMA RowsExact ==
    ASSUME NEW p, p[1] \in Int, p[2] \in Int, NEW x \in Int, NEW y \in Int, NEW w \in Int,
           NEW rows \in Nat, NEW rowH \in Nat, rowH = 22 \/ rowH = 26,
           NEW box, box = Box(x, y, w, rows * rowH + 8)
    PROVE  RowsRight(p, box, y, rows, rowH)
<1> DEFINE px == p[1]
           py == p[2]
           v == py - y - 4
           h == rows * rowH + 8
           q == CDiv(v, rowH)
           lit == RowsLit(p, box, rows, rowH)
           picked == RowPicked(p, box, rowH)
<1>1. px \in Int /\ py \in Int /\ v \in Int /\ h \in Int /\ (rowH = 22 \/ rowH = 26)
    OBVIOUS
<1>2. picked = IF px \in x .. x + w - 1 /\ py \in y .. y + h - 1 THEN q ELSE None
    BY DEF RowPicked, InBoxAt, Box
<1>3. \A j : j \in lit <=> /\ j \in 0 .. rows - 1 /\ px \in x .. x + w - 1
                           /\ py \in y + 4 + j * rowH .. y + 4 + j * rowH + rowH - 1
    BY DEF RowsLit, RowLit, InBoxAt, Box
<1> HIDE DEF lit, picked, px, py
<1>4. ASSUME NEW j \in lit
      PROVE  j = picked
  <2>1. /\ j \in 0 .. rows - 1 /\ px \in x .. x + w - 1
        /\ py \in y + 4 + j * rowH .. y + 4 + j * rowH + rowH - 1
    BY <1>3
  <2>2. py \in y .. y + h - 1 /\ q = j
    BY <1>1, <2>1 DEF CDiv
  <2> HIDE DEF q, h
  <2> QED
    BY <1>2, <2>1, <2>2
<1>5. ASSUME picked \in 0 .. rows - 1, lit = {}
      PROVE  picked = 0 /\ py < y + 4
  <2>1. picked = q /\ px \in x .. x + w - 1 /\ py \in y .. y + h - 1
    <3> HIDE DEF q, h
    <3> QED
        BY <1>2, <1>5 DEF None
  <2>2. py < y + 4
    <3> SUFFICES ASSUME py >= y + 4
                 PROVE  FALSE
        BY <1>1
    <3>1. q \in Nat /\ py \in y + 4 + q * rowH .. y + 4 + q * rowH + rowH - 1
        BY <1>1 DEF CDiv
    <3> HIDE DEF q
    <3>2. q \in lit
        BY <1>3, <1>5, <2>1, <3>1
    <3> QED
        BY <1>5, <3>2
  <2>3. q = 0
    BY <1>1, <2>1, <2>2 DEF CDiv
  <2> QED
    BY <2>1, <2>2, <2>3
<1> QED
    BY <1>4, <1>5 DEF RowsRight, lit, picked, py

\* The menus are on the screen.
LEMMA MenusInside ==
    ASSUME NEW m \in DOMAIN MenuXs
    PROVE  /\ BoxInside(MenuBox(m), Screen)
           /\ MenuItems[m] \in Nat
           /\ MenuBox(m) = Box(MenuXs[m] - 4, AX_MENUBAR_H, 160, MenuItems[m] * 22 + 8)
           /\ MenuXs[m] \in Int /\ AX_MENUBAR_H \in Int
<1>1. m = 1 \/ m = 2 \/ m = 3 \/ m = 4
    BY DEF MenuXs
<1>2. /\ MenuXs[m] \in Int /\ MenuXs[m] - 4 >= 0 /\ MenuXs[m] <= 230
      /\ MenuItems[m] \in Nat /\ MenuItems[m] <= 6
    BY <1>1 DEF MenuXs, MenuItems
<1> DEFINE x == MenuXs[m]
           n == MenuItems[m]
<1> HIDE DEF x, n
<1>3. BoxInside(Box(x - 4, 24, 160, n * 22 + 8), Box(0, 0, scr_w, scr_h))
    BY <1>2, LayoutAssumption DEF x, n, BoxInside, Box
<1> QED
    BY <1>2, <1>3 DEF x, n, MenuBox, AX_MENUBAR_H, Screen

\* The context menu is on the screen wherever it is asked for.
LEMMA ContextInside ==
    ASSUME NEW c, c[1] \in 0 .. scr_w - 1, c[2] \in 0 .. scr_h - 1
    PROVE  \E x, y \in Int : /\ ContextBox(c) = Box(x, y, 160, CTX_COUNT * CTX_ITEM_H + 8)
                             /\ BoxInside(ContextBox(c), Screen)
<1> DEFINE x == IF c[1] + 160 > scr_w THEN scr_w - 160 - 2 ELSE c[1]
           y == IF c[2] + 164 > scr_h THEN scr_h - 164 - 2 ELSE c[2]
<1>1. x \in Nat /\ y \in Nat /\ x + 160 <= scr_w /\ y + 164 <= scr_h
    BY LayoutAssumption
<1>2. ContextBox(c) = Box(x, y, 160, 164) /\ CTX_COUNT * CTX_ITEM_H + 8 = 164
    BY DEF ContextBox, CTX_COUNT, CTX_ITEM_H, CTX_W
<1> HIDE DEF x, y
<1>3. BoxInside(Box(x, y, 160, 164), Box(0, 0, scr_w, scr_h))
    BY <1>1, LayoutAssumption DEF BoxInside, Box
<1> QED
    BY <1>1, <1>2, <1>3 DEF Screen

\* The pointer is on the screen and in the box of its picture.
LEMMA PointerExact ==
    ASSUME NEW x \in Int, NEW y \in Int
    PROVE  LET spot == update_mouse(<<x, y>>)
           IN  BoxInside(CursorBox(spot), Screen) /\ InBoxAt(spot, CursorBox(spot))
<1> DEFINE a == Clamp(x, scr_w)
           b == Clamp(y, scr_h)
           u == IF a + 16 > scr_w THEN scr_w - 16 ELSE a
           v == IF b + 16 > scr_h THEN scr_h - 16 ELSE b
<1>1. a \in 0 .. scr_w - 1 /\ b \in 0 .. scr_h - 1
    BY LayoutAssumption DEF Clamp
<1> HIDE DEF a, b
<1>2. u \in Nat /\ v \in Nat /\ u + 16 <= scr_w /\ v + 16 <= scr_h /\ a \in u .. u + 15 /\ b \in v .. v + 15
    BY <1>1, LayoutAssumption
<1>3. CursorBox(<<a, b>>) = Box(u, v, 16, 16) /\ update_mouse(<<x, y>>) = <<a, b>>
    BY DEF CursorBox, update_mouse, a, b
<1> HIDE DEF u, v
<1>4. BoxInside(Box(u, v, 16, 16), Box(0, 0, scr_w, scr_h)) /\ InBoxAt(<<a, b>>, Box(u, v, 16, 16))
    BY <1>1, <1>2, LayoutAssumption DEF BoxInside, InBoxAt, Box
<1> QED
    BY <1>3, <1>4 DEF Screen

\* The numbers of a window's box and of the boxes it is drawn with.
LEMMA SurfaceInside ==
    ASSUME NEW win, win.x = 7, win.y = 30, win.w \in {160, 161, 400}, win.h \in {100, 101},
           win.letters \in Nat, win.canvas_w \in Int, win.canvas_h \in Int,
           NEW box, box = WindowBox(win)
    PROVE  /\ \A b \in draw_surface(win).frame :
                 BoxInside(b, Box(box.x, box.y, box.w + 4, box.h + 4))
           /\ 8 * win.letters <= win.w =>
                 BoxInside(draw_surface(win).title, Box(box.x, box.y, box.w, AX_TITLEBAR_H))
           /\ \A e \in GripEnds(win) : in_resize_grip(win, e)
<1> DEFINE w == win.w
           h == win.h
           letters == win.letters
           cw == win.canvas_w
           ch == win.canvas_h
           bar == Box(box.x, box.y, box.w, AX_TITLEBAR_H)
           inner == IF cw = w /\ ch = h THEN Box(9, 60, w, h) ELSE Box(9, 60, w - 4, h - 4)
<1>1. w \in Nat /\ h \in Nat /\ win.x = 7 /\ win.y = 30 /\ win.w = w /\ win.h = h
      /\ win.canvas_w = cw /\ win.canvas_h = ch /\ win.letters = letters
    OBVIOUS
<1> HIDE DEF w, h, letters, cw, ch
<1>2. box = Box(7, 30, w, h + 28) /\ box.x = 7 /\ box.y = 30 /\ box.w = w /\ box.h = h + 28
    BY <1>1 DEF WindowBox, Box, AX_TITLEBAR_H
<1>3. /\ draw_surface(win).frame = {Box(11, 62, w, h), inner, Box(7, 30, w, 28)}
      /\ draw_surface(win).title = Box(7 + w \div 2 - 4 * letters, 40, 8 * letters, 8)
    BY <1>1 DEF draw_surface, TitleBox, AX_TITLEBAR_H, Box
<1>4. ASSUME NEW b \in draw_surface(win).frame
      PROVE  BoxInside(b, Box(7, 30, w + 4, h + 32))
  <2>1. b = Box(11, 62, w, h) \/ b = Box(9, 60, w, h) \/ b = Box(9, 60, w - 4, h - 4) \/ b = Box(7, 30, w, 28)
    BY <1>3
  <2> QED
    BY <1>1, <2>1 DEF BoxInside, Box
<1>5. GripEnds(win) = {<<w - 7, h + 56>>, <<w + 5, h + 44>>, <<w - 2, h + 56>>, <<w + 5, h + 49>>}
    BY <1>1 DEF GripEnds, AX_TITLEBAR_H
<1>6. \A e : in_resize_grip(win, e) <=> e[1] \in w - 7 .. w + 6 /\ e[2] \in h + 44 .. h + 57
    BY <1>1 DEF in_resize_grip, InBoxAt, Box, AX_TITLEBAR_H, AX_RESIZE_GRIP
<1>7. \A e \in GripEnds(win) : in_resize_grip(win, e)
  <2> SUFFICES ASSUME NEW e \in GripEnds(win)
               PROVE  e[1] \in w - 7 .. w + 6 /\ e[2] \in h + 44 .. h + 57
    BY <1>6
  <2>1. \/ e = <<w - 7, h + 56>> \/ e = <<w + 5, h + 44>>
        \/ e = <<w - 2, h + 56>> \/ e = <<w + 5, h + 49>>
    BY <1>5
  <2>2. \/ (e[1] = w - 7 /\ e[2] = h + 56) \/ (e[1] = w + 5 /\ e[2] = h + 44)
        \/ (e[1] = w - 2 /\ e[2] = h + 56) \/ (e[1] = w + 5 /\ e[2] = h + 49)
    BY <2>1
  <2> QED
    BY <1>1, <2>2
<1>8. w + 4 = box.w + 4 /\ h + 32 = box.h + 4 /\ bar = Box(7, 30, w, 28)
    BY <1>1, <1>2 DEF AX_TITLEBAR_H
<1>9. 8 * letters <= w => BoxInside(draw_surface(win).title, Box(7, 30, w, 28))
    BY <1>1, <1>3 DEF BoxInside, Box
<1> HIDE DEF bar
<1>10. \A b \in draw_surface(win).frame : BoxInside(b, Box(box.x, box.y, box.w + 4, box.h + 4))
    BY <1>2, <1>4, <1>8
<1> QED
    BY <1>1, <1>7, <1>8, <1>9, <1>10 DEF bar

\* The columns of a button are those of its circle and of no other.
LEMMA ButtonsApart ==
    \A b, k \in DOMAIN ButtonCentres : \A c \in ButtonCells(b) : c[1] \in ButtonColumns[k] <=> k = b
<1> SUFFICES ASSUME NEW b \in DOMAIN ButtonCentres, NEW k \in DOMAIN ButtonCentres, NEW c \in ButtonCells(b)
             PROVE  c[1] \in ButtonColumns[k] <=> k = b
    OBVIOUS
<1>1. DOMAIN ButtonCentres = {"close", "minimize", "green"}
    BY DEF ButtonCentres
<1>2. /\ ButtonCentres["close"] = 16 /\ ButtonCentres["minimize"] = 36 /\ ButtonCentres["green"] = 56
      /\ ButtonColumns["close"] = 10 .. 22 /\ ButtonColumns["minimize"] = 30 .. 42
      /\ ButtonColumns["green"] = 50 .. 62
    BY DEF ButtonCentres, ButtonColumns
<1>3. ButtonCentres[b] \in Int
    BY <1>1, <1>2
<1>4. \E i \in -6 .. 6 : c[1] = ButtonCentres[b] + i
    BY DEF ButtonCells
<1>5. c[1] \in ButtonCentres[b] - 6 .. ButtonCentres[b] + 6
    BY <1>3, <1>4
<1>6. CASE b = "close"
    BY <1>1, <1>2, <1>5, <1>6
<1>7. CASE b = "minimize"
    BY <1>1, <1>2, <1>5, <1>7
<1>8. CASE b = "green"
    BY <1>1, <1>2, <1>5, <1>8
<1> QED
    BY <1>1, <1>6, <1>7, <1>8

\* The days before the first of a month, and those of it, in this century.
LEMMA MonthSizes ==
    ASSUME NEW m \in 1 .. 12, NEW y \in 1999 .. 2099
    PROVE  LET from == IF m < 3 THEN y - 1 ELSE y
           IN  /\ \E t \in 0 .. 6 : /\ t = (IF m = 1 \/ m = 5 THEN 0 ELSE IF m = 2 \/ m = 6 THEN 3
                                            ELSE IF m = 3 THEN 2 ELSE IF m = 4 \/ m = 7 THEN 5
                                            ELSE IF m = 8 THEN 1 ELSE IF m = 9 \/ m = 12 THEN 4
                                            ELSE IF m = 10 THEN 6 ELSE 2)
                                    /\ day_of_week(1, m, y)
                                         = (from + from \div 4 - from \div 100 + from \div 400 + t + 1) % 7
               /\ days_in_month(m, y) = IF m = 2 THEN 28 + (IF Leap(y) THEN 1 ELSE 0)
                                        ELSE IF m \in {4, 6, 9, 11} THEN 30 ELSE 31
<1>1. \/ m = 1 \/ m = 2 \/ m = 3 \/ m = 4 \/ m = 5 \/ m = 6
      \/ m = 7 \/ m = 8 \/ m = 9 \/ m = 10 \/ m = 11 \/ m = 12
    OBVIOUS
<1> DEFINE t == <<0, 3, 2, 5, 0, 3, 5, 1, 4, 6, 2, 4>>
<1>2. t[m] \in 0 .. 6
      /\ t[m] = (IF m = 1 \/ m = 5 THEN 0 ELSE IF m = 2 \/ m = 6 THEN 3
                 ELSE IF m = 3 THEN 2 ELSE IF m = 4 \/ m = 7 THEN 5
                 ELSE IF m = 8 THEN 1 ELSE IF m = 9 \/ m = 12 THEN 4
                 ELSE IF m = 10 THEN 6 ELSE 2)
    BY <1>1
<1>3. day_of_week(1, m, y) = LET from == IF m < 3 THEN y - 1 ELSE y
                             IN  (from + from \div 4 - from \div 100 + from \div 400 + t[m] + 1) % 7
    BY DEF day_of_week
<1> HIDE DEF t
<1>4. days_in_month(m, y) = IF m = 2 THEN 28 + (IF Leap(y) THEN 1 ELSE 0)
                            ELSE IF m \in {4, 6, 9, 11} THEN 30 ELSE 31
  <2>1. CASE Leap(y)
    BY <1>1, <2>1 DEF days_in_month
  <2>2. CASE ~Leap(y)
    BY <1>1, <2>2 DEF days_in_month
  <2> QED
    BY <2>1, <2>2
<1> QED
    BY <1>2, <1>3, <1>4

\* The centuries weigh the same from 1999 to 2099.
LEMMA YearSizes ==
    /\ \A y \in 1999 .. 2099 : y \div 100 - y \div 400 = 15
    /\ \A y \in 2000 .. 2099 : Leap(y) <=> y % 4 = 0
<1>1. ASSUME NEW y \in 1999 .. 2099
      PROVE  y \div 100 - y \div 400 = 15
  <2>1. CASE y = 1999
    BY <2>1
  <2>2. CASE y \in 2000 .. 2099
    <3>1. y \div 100 = 20 /\ y \div 400 = 5
        BY <2>2
    <3> QED
        BY <3>1
  <2> QED
    BY <2>1, <2>2
<1>2. ASSUME NEW y \in 2000 .. 2099
      PROVE  Leap(y) <=> y % 4 = 0
  <2>1. CASE y = 2000
    BY <2>1 DEF Leap
  <2>2. CASE y \in 2001 .. 2099
    <3>1. y % 100 # 0 /\ y % 400 # 0
        BY <2>2
    <3> QED
        BY <3>1 DEF Leap
  <2> QED
    BY <2>1, <2>2
<1> QED
    BY <1>1, <1>2

\* A month begins on the day after the last of the month before.
LEMMA MonthsFollow ==
    ASSUME NEW m \in 1 .. 12, NEW y \in 2000 .. 2099, ~(m = 1 /\ y = 2000)
    PROVE  LET pm == IF m = 1 THEN 12 ELSE m - 1
               py == IF m = 1 THEN y - 1 ELSE y
           IN  day_of_week(1, m, y) = (day_of_week(1, pm, py) + days_in_month(pm, py)) % 7
<1> DEFINE pm == IF m = 1 THEN 12 ELSE m - 1
           py == IF m = 1 THEN y - 1 ELSE y
           Sum(from, t) == from + from \div 4 - 15 + t + 1
           From(k, z) == IF k < 3 THEN z - 1 ELSE z
           Start(k) == IF k = 1 \/ k = 5 THEN 0 ELSE IF k = 2 \/ k = 6 THEN 3
                       ELSE IF k = 3 THEN 2 ELSE IF k = 4 \/ k = 7 THEN 5
                       ELSE IF k = 8 THEN 1 ELSE IF k = 9 \/ k = 12 THEN 4
                       ELSE IF k = 10 THEN 6 ELSE 2
           Days(k, z) == IF k = 2 THEN 28 + (IF z % 4 = 0 THEN 1 ELSE 0)
                         ELSE IF k \in {4, 6, 9, 11} THEN 30 ELSE 31
<1>1. pm \in 1 .. 12 /\ py \in 2000 .. 2099
    OBVIOUS
<1>2. ASSUME NEW k \in 1 .. 12, NEW z \in 2000 .. 2099
      PROVE  /\ day_of_week(1, k, z) = Sum(From(k, z), Start(k)) % 7
             /\ days_in_month(k, z) = Days(k, z)
  <2> DEFINE from == From(k, z)
             t == Start(k)
  <2>1. from \in 1999 .. 2099 /\ z \in 1999 .. 2099 /\ t \in 0 .. 6
    OBVIOUS
  <2>2. /\ day_of_week(1, k, z) = (from + from \div 4 - from \div 100 + from \div 400 + t + 1) % 7
        /\ days_in_month(k, z) = IF k = 2 THEN 28 + (IF Leap(z) THEN 1 ELSE 0)
                                 ELSE IF k \in {4, 6, 9, 11} THEN 30 ELSE 31
    BY <2>1, MonthSizes
  <2>3. Leap(z) <=> z % 4 = 0
    BY YearSizes
  <2>4. days_in_month(k, z) = Days(k, z)
    BY <2>2, <2>3
  <2> HIDE DEF from, t
  <2>5. from \div 100 - from \div 400 = 15
    BY <2>1, YearSizes
  <2>6. from + from \div 4 - from \div 100 + from \div 400 + t + 1 = Sum(from, t)
    BY <2>1, <2>5
  <2> QED
    BY <2>2, <2>4, <2>6 DEF from, t
<1>3. Sum(From(m, y), Start(m)) % 7 = ((Sum(From(pm, py), Start(pm)) % 7) + Days(pm, py)) % 7
  <2>1. \/ m = 1 \/ m = 2 \/ m = 3 \/ m = 4 \/ m = 5 \/ m = 6
        \/ m = 7 \/ m = 8 \/ m = 9 \/ m = 10 \/ m = 11 \/ m = 12
    OBVIOUS
  <2> DEFINE a == Sum(From(m, y), Start(m))
             b == Sum(From(pm, py), Start(pm))
             d == Days(pm, py)
  <2>2. \E k \in 0 .. 1 : a = b + d - 7 * (4 + k)
    OBVIOUS
  <2>3. a \in Int /\ b \in Int /\ d \in Int
    OBVIOUS
  <2> HIDE DEF a, b, d
  <2> QED
    BY <2>2, <2>3 DEF a, b, d
<1> HIDE DEF Sum, From, Start, Days
<1> QED
    BY <1>1, <1>2, <1>3

\* The calendar's first month begins on a Saturday.
LEMMA FirstIsSaturday == day_of_week(1, 1, 2000) = 6
    BY DEF day_of_week

\* Every day of a month has room in the calendar.
LEMMA DaysFit ==
    ASSUME NEW m \in Nat, NEW y \in Nat, NEW d \in Nat,
           m \in 1 .. 12, y \in 2000 .. 2099, d \in 1 .. days_in_month(m, y)
    PROVE  BoxInside(DayBox(d, day_of_week(1, m, y)), Box(0, 0, 168, 150))
<1> DEFINE first == day_of_week(1, m, y)
<1>1. y \in 1999 .. 2099
  OBVIOUS
<1>2. days_in_month(m, y) \in 28 .. 31
  <2>1. days_in_month(m, y) = IF m = 2 THEN 28 + (IF Leap(y) THEN 1 ELSE 0)
                              ELSE IF m \in {4, 6, 9, 11} THEN 30 ELSE 31
      BY <1>1, MonthSizes
  <2> QED
      BY <2>1
<1>3. first \in 0 .. 6
  <2> DEFINE from == IF m < 3 THEN y - 1 ELSE y
  <2>1. PICK t \in 0 .. 6 : first = (from + from \div 4 - from \div 100 + from \div 400 + t + 1) % 7
      BY <1>1, MonthSizes
  <2> DEFINE s == from + from \div 4 - from \div 100 + from \div 400 + t + 1
  <2>2. s \in Int
      OBVIOUS
  <2> HIDE DEF s, first
  <2>3. s % 7 \in 0 .. 6
      BY <2>2
  <2> QED
      BY <2>1, <2>3 DEF s
<1>4. d \in 1 .. 31
  BY <1>2
<1> HIDE DEF first
<1> DEFINE cell == first + d - 1
           column == cell % 7
           row == cell \div 7
<1>5. column \in 0 .. 6 /\ row \in 0 .. 5
  BY <1>3, <1>4
<1>6. DayBox(d, first) = Box(10 + column * 22, 42 + row * 16, IF d < 10 THEN 8 ELSE 16, 8)
  BY DEF DayBox
<1> HIDE DEF column, row
<1> QED
  BY <1>4, <1>5, <1>6 DEF BoxInside, Box, first

\* A row of a picture has room for its pixels.
LEMMA RowHasRoom ==
    ASSUME NEW w \in Nat, NEW bytes \in {3, 4}
    PROVE  RowBytes(w, bytes) \in Nat /\ RowBytes(w, bytes) >= w * bytes
<1>1. CASE bytes = 3
    BY <1>1 DEF RowBytes
<1>2. CASE bytes = 4
    BY <1>2 DEF RowBytes
<1> QED
    BY <1>1, <1>2

\* A picture stands upright, each pixel comes from a place of its own, and what
\* lies behind the buffer is read only for pictures larger than it.
LEMMA PictureExact ==
    ASSUME NEW w \in Int, NEW h \in Int, NEW bytes, NEW file, load_bmp(w, h, bytes, file).ok
    PROVE  LET p == load_bmp(w, h, bytes, file).pixels
           IN  /\ \A c, d \in DOMAIN p : c[2] < d[2] => p[c].at > p[d].at
               /\ \A c, d \in DOMAIN p : c[2] = d[2] /\ c[1] < d[1] => p[d].at - p[c].at >= bytes
               /\ \A c \in DOMAIN p : p[c].read = "behind" => h * RowBytes(w, bytes) > BmpData
<1> DEFINE p == load_bmp(w, h, bytes, file).pixels
           cells == (0 .. w - 1) \X (0 .. h - 1)
           R == RowBytes(w, bytes)
           row(c) == (h - 1 - c[2]) * R
           from(c) == row(c) + c[1] * bytes
<1>1. w > 0 /\ h > 0 /\ bytes \in {3, 4} /\ w \in Nat /\ h \in Nat
    BY DEF load_bmp
<1>2. p = [c \in cells |-> [at |-> from(c), read |-> PixelRead(from(c), file)]]
    BY <1>1 DEF load_bmp, PixelFrom
<1>3. R \in Nat /\ R >= w * bytes
    BY <1>1, RowHasRoom
<1>4. bytes = 3 \/ bytes = 4
    BY <1>1
<1>5. DOMAIN p = cells /\ \A c \in cells : p[c].at = from(c) /\ p[c].read = PixelRead(from(c), file)
    BY <1>2
<1>6. ASSUME NEW c \in cells
      PROVE  /\ c[1] \in 0 .. w - 1 /\ c[2] \in 0 .. h - 1
             /\ row(c) \in Nat /\ row(c) + R <= h * R
             /\ c[1] * bytes \in Nat /\ c[1] * bytes + bytes <= w * bytes /\ from(c) \in Nat
  <2>1. c[1] \in 0 .. w - 1 /\ c[2] \in 0 .. h - 1
    OBVIOUS
  <2> DEFINE k == h - 1 - c[2]
  <2>2. k \in Nat /\ k + 1 <= h
    BY <1>1, <2>1
  <2> HIDE DEF k, R
  <2>3. k * R \in Nat /\ (k + 1) * R = k * R + R /\ (k + 1) * R <= h * R
    BY <1>1, <1>3, <2>2, ProductGrows
  <2>4. c[1] * bytes \in Nat /\ c[1] * bytes + bytes <= w * bytes
    BY <1>1, <1>4, <2>1
  <2>5. row(c) = k * R
    BY DEF k
  <2> HIDE DEF row
  <2> QED
    BY <1>3, <2>1, <2>3, <2>4, <2>5
<1>7. ASSUME NEW c \in cells, NEW d \in cells, c[2] < d[2]
      PROVE  from(c) > from(d)
  <2> DEFINE k == h - 1 - c[2]
             l == h - 1 - d[2]
  <2>1. k \in Nat /\ l \in Nat /\ l + 1 <= k
    BY <1>1, <1>6, <1>7
  <2> HIDE DEF k, l, R
  <2>2. (l + 1) * R = l * R + R /\ (l + 1) * R <= k * R /\ l * R \in Nat /\ k * R \in Nat
    BY <1>3, <2>1, ProductGrows
  <2>3. row(c) = k * R /\ row(d) = l * R
    BY DEF k, l
  <2> DEFINE rc == row(c)
             rd == row(d)
             xc == c[1] * bytes
             xd == d[1] * bytes
             wb == w * bytes
  <2>4. rd + R <= rc /\ rc \in Nat /\ rd \in Nat
    BY <2>2, <2>3
  <2>5. xc \in Nat /\ xd \in Nat /\ xd + bytes <= wb /\ wb <= R /\ wb \in Int
    BY <1>1, <1>3, <1>4, <1>6
  <2> HIDE DEF rc, rd, xc, xd, wb
  <2>6. rc + xc > rd + xd
    BY <1>3, <1>4, <2>4, <2>5
  <2> QED
    BY <2>6 DEF rc, rd, xc, xd
<1>8. ASSUME NEW c \in cells, NEW d \in cells, c[2] = d[2], c[1] < d[1]
      PROVE  from(d) - from(c) >= bytes
  <2>1. row(c) = row(d)
    BY <1>8
  <2>2. c[1] * bytes \in Nat /\ d[1] * bytes \in Nat /\ c[1] * bytes + bytes <= d[1] * bytes
    BY <1>4, <1>6, <1>8
  <2>3. row(c) \in Nat
    BY <1>6
  <2> DEFINE r == row(c)
             xc == c[1] * bytes
             xd == d[1] * bytes
  <2>4. from(c) = r + xc /\ from(d) = r + xd
    BY <2>1
  <2> HIDE DEF from, row, r, xc, xd
  <2>5. r \in Nat /\ xc \in Nat /\ xd \in Nat /\ xc + bytes <= xd
    BY <2>2, <2>3 DEF r, xc, xd
  <2> QED
    BY <1>4, <2>4, <2>5
<1>9. ASSUME NEW c \in cells, PixelRead(from(c), file) = "behind"
      PROVE  h * R > BmpData
  <2>1. from(c) + 2 >= BmpData
    BY <1>9 DEF PixelRead
  <2> DEFINE r == row(c)
             x == c[1] * bytes
             wb == w * bytes
             all == h * R
  <2>2. r \in Nat /\ r + R <= all /\ x \in Nat /\ x + bytes <= wb /\ wb <= R /\ wb \in Int /\ all \in Int
    BY <1>1, <1>3, <1>4, <1>6
  <2>3. from(c) = r + x
    OBVIOUS
  <2> HIDE DEF from, row, r, x, wb, all
  <2>4. all > BmpData
    BY <1>3, <1>4, <2>1, <2>2, <2>3, LayoutAssumption
  <2> QED
    BY <2>4 DEF all
<1> HIDE DEF p, cells, from, row
<1>10. \A c, d \in DOMAIN p : c[2] < d[2] => p[c].at > p[d].at
    BY <1>5, <1>7
<1>11. \A c, d \in DOMAIN p : c[2] = d[2] /\ c[1] < d[1] => p[d].at - p[c].at >= bytes
    BY <1>5, <1>8
<1>12. \A c \in DOMAIN p : p[c].read = "behind" => h * R > BmpData
    BY <1>5, <1>9
<1> QED
    BY <1>10, <1>11, <1>12 DEF p

\* The calls of each part of PicturesExact.
ColourCalls == {"blend", "lerp", "gradient", "blur", "sin", "cos"}
DesktopCalls == {"dock", "menu", "window", "pointer", "month", "bmp"}
PlainCalls == {"clear", "pixel", "outline", "circle", "text_scaled"}

\* Each property is about the calls it names.
LEMMA Quiet ==
    ASSUME NEW f, call'.fn = f
    PROVE  /\ f # "fill" => FillsExactly'
           /\ f \notin {"rounded", "rounded_outline"} => RoundedExactly'
           /\ f # "glass" => GlassWithin'
           /\ f # "line" => LineExactly'
           /\ f # "text" => TextWithin'
           /\ f # "blit" => PictureRead'
           /\ f # "init" => PresentedWithin'
           /\ f \notin {"fb_rect", "fb_string"} => FramebufferWithin'
           /\ f \notin ColourCalls => ColoursBetween'
           /\ f \notin DesktopCalls => DesktopTrue'
<1>1. /\ f # "fill" => FillsExactly'
      /\ f \notin {"rounded", "rounded_outline"} => RoundedExactly'
      /\ f # "glass" => GlassWithin'
    BY DEF Called, FillsExactly, RoundedExactly, GlassWithin
<1>2. /\ f # "line" => LineExactly'
      /\ f # "text" => TextWithin'
      /\ f # "blit" => PictureRead'
      /\ f # "init" => PresentedWithin'
    BY DEF Called, LineExactly, TextWithin, PictureRead, PresentedWithin
<1>3. f \notin {"fb_rect", "fb_string"} => FramebufferWithin'
    BY DEF Called, FramebufferWithin
<1>4. f \notin ColourCalls => ColoursBetween'
    BY DEF Called, ColoursBetween, ColourCalls
<1>5. f \notin DesktopCalls => DesktopTrue'
    BY DEF Called, DesktopTrue, DockTrue, MenusTrue, WindowsTrue, PointerTrue, CalendarTrue, PicturesTrue,
           DesktopCalls
<1> QED
    BY <1>1, <1>2, <1>3, <1>4, <1>5

\* Of a call that only draws, that it stays in the buffer.
LEMMA PlainExact ==
    ASSUME NEW f \in PlainCalls, call'.fn = f, answer' \subseteq Words
    PROVE  PicturesExact'
<1>1. /\ FillsExactly' /\ RoundedExactly' /\ GlassWithin' /\ LineExactly' /\ TextWithin'
      /\ PictureRead' /\ PresentedWithin' /\ FramebufferWithin' /\ ColoursBetween' /\ DesktopTrue'
    BY Quiet DEF PlainCalls, ColourCalls, DesktopCalls
<1>2. DrawingExact'
    BY <1>1 DEF DrawingExact
<1> QED
    BY <1>1, <1>2 DEF PicturesExact

\* After a call about colours the rest of PicturesExact has nothing to say.
LEMMA ColoursExact ==
    ASSUME NEW f \in ColourCalls, call'.fn = f, ColoursBetween'
    PROVE  PicturesExact'
<1>1. /\ FillsExactly' /\ RoundedExactly' /\ GlassWithin' /\ LineExactly' /\ TextWithin'
      /\ PictureRead' /\ PresentedWithin' /\ FramebufferWithin' /\ DesktopTrue'
    BY Quiet DEF ColourCalls, DesktopCalls
<1>2. DrawingExact'
    BY <1>1 DEF DrawingExact, ColourCalls
<1> QED
    BY <1>1, <1>2 DEF PicturesExact

\* After a call about the desktop the rest of PicturesExact has nothing to say.
LEMMA DesktopExact ==
    ASSUME NEW f \in DesktopCalls, call'.fn = f, DesktopTrue'
    PROVE  PicturesExact'
<1>1. /\ FillsExactly' /\ RoundedExactly' /\ GlassWithin' /\ LineExactly' /\ TextWithin'
      /\ PictureRead' /\ PresentedWithin' /\ FramebufferWithin' /\ ColoursBetween'
    BY Quiet DEF ColourCalls, DesktopCalls
<1>2. DrawingExact'
    BY <1>1 DEF DrawingExact, DesktopCalls
<1> QED
    BY <1>1, <1>2 DEF PicturesExact

\* gfx_clear_rgb(), gfx_put_pixel(), gfx_rect_outline(), gfx_circle() and
\* gfx_text_scaled(): what they write lies in the buffer.
LEMMA PlainSteps ==
    ASSUME gfx_clear_rgb \/ gfx_put_pixel \/ gfx_rect_outline \/ gfx_circle \/ gfx_text_scaled
    PROVE  PicturesExact'
<1>1. CASE gfx_clear_rgb
  <2>1. call'.fn = "clear" /\ answer' = Words
    BY <1>1 DEF gfx_clear_rgb, Invoked
  <2> QED
    BY <2>1, PlainExact DEF PlainCalls
<1>2. CASE gfx_put_pixel
  <2>1. PICK x \in Places, y \in Places : Invoked([fn |-> "pixel", x |-> x, y |-> y], gfx_pixel(x, y))
    BY <1>2 DEF gfx_put_pixel
  <2>2. call'.fn = "pixel" /\ answer' = gfx_pixel(x, y)
    BY <2>1 DEF Invoked
  <2>3. gfx_pixel(x, y) \subseteq Words
    BY ShapesWhole, GfxAssumption
  <2> QED
    BY <2>2, <2>3, PlainExact DEF PlainCalls
<1>3. CASE gfx_rect_outline
  <2>1. PICK x \in Places, y \in Places, w \in Sizes, h \in Sizes :
          Invoked([fn |-> "outline", x |-> x, y |-> y, w |-> w, h |-> h], Drawn(rect_outline(x, y, w, h)))
    BY <1>3 DEF gfx_rect_outline, InBox
  <2>2. call'.fn = "outline" /\ answer' = Drawn(rect_outline(x, y, w, h))
    BY <2>1 DEF Invoked
  <2>3. x \in Int /\ y \in Int /\ w \in Int /\ h \in Int
    BY GfxAssumption
  <2>4. rect_outline(x, y, w, h) \in SUBSET (Int \X Int)
    BY <2>3, ShapesWhole
  <2>5. Drawn(rect_outline(x, y, w, h)) \subseteq Words
    BY <2>4, DrawnIs
  <2> QED
    BY <2>2, <2>5, PlainExact DEF PlainCalls
<1>4. CASE gfx_circle
  <2>1. PICK x \in Places, y \in Places, r \in Sizes :
          Invoked([fn |-> "circle", x |-> x, y |-> y, r |-> r], Drawn(circle(x, y, r)))
    BY <1>4 DEF gfx_circle
  <2>2. call'.fn = "circle" /\ answer' = Drawn(circle(x, y, r))
    BY <2>1 DEF Invoked
  <2>3. x \in Int /\ y \in Int /\ r \in Int
    BY GfxAssumption
  <2>4. circle(x, y, r) \in SUBSET (Int \X Int)
    BY <2>3, ShapesWhole
  <2>5. Drawn(circle(x, y, r)) \subseteq Words
    BY <2>4, DrawnIs
  <2> QED
    BY <2>2, <2>5, PlainExact DEF PlainCalls
<1>5. CASE gfx_text_scaled
  <2>1. PICK s \in Texts, x \in Places, y \in Places, scale \in 1 .. 2 :
          Invoked([fn |-> "text_scaled", s |-> s, x |-> x, y |-> y, scale |-> scale],
                  text_scaled(s, x, y, scale))
    BY <1>5 DEF gfx_text_scaled
  <2>2. call'.fn = "text_scaled" /\ answer' = text_scaled(s, x, y, scale)
    BY <2>1 DEF Invoked
  <2>3. s \in Seq(STRING) /\ x \in Int /\ y \in Int /\ scale \in Nat
    BY GfxAssumption
  <2>4. text_scaled(s, x, y, scale) \subseteq Words
    BY <2>3, ScaledWords
  <2> QED
    BY <2>2, <2>4, PlainExact DEF PlainCalls
<1> QED
    BY <1>1, <1>2, <1>3, <1>4, <1>5

\* The names that DrawingExact splits into, but for the plain calls.
DrawingCalls == {"fill", "rounded", "rounded_outline", "glass", "line", "text", "blit", "init",
                 "fb_rect", "fb_string"}

\* After a call that draws, its part of DrawingExact is all there is to show.
LEMMA DrawingsExact ==
    ASSUME NEW f \in DrawingCalls, call'.fn = f,
           f = "fill" => FillsExactly',
           f \in {"rounded", "rounded_outline"} => RoundedExactly',
           f = "glass" => GlassWithin',
           f = "line" => LineExactly',
           f = "text" => TextWithin',
           f = "blit" => PictureRead',
           f = "init" => PresentedWithin',
           f \in {"fb_rect", "fb_string"} => FramebufferWithin'
    PROVE  PicturesExact'
<1>1. ColoursBetween' /\ DesktopTrue' /\ f \notin PlainCalls
    BY Quiet DEF DrawingCalls, ColourCalls, DesktopCalls, PlainCalls
<1>2. /\ FillsExactly' /\ RoundedExactly' /\ GlassWithin' /\ LineExactly' /\ TextWithin'
      /\ PictureRead' /\ PresentedWithin' /\ FramebufferWithin'
    BY Quiet DEF DrawingCalls
<1>3. DrawingExact'
    BY <1>1, <1>2 DEF DrawingExact, PlainCalls
<1> QED
    BY <1>1, <1>3 DEF PicturesExact

\* gfx_fill_rect() fills exactly the rectangle that is asked for.
LEMMA FillStep ==
    ASSUME gfx_fill_rect
    PROVE  PicturesExact'
<1>1. PICK x \in Places, y \in Places, w \in Sizes, h \in Sizes :
        Invoked([fn |-> "fill", x |-> x, y |-> y, w |-> w, h |-> h], fill_rect(x, y, w, h))
    BY DEF gfx_fill_rect, InBox
<1>2. /\ call'.fn = "fill" /\ call'.x = x /\ call'.y = y /\ call'.w = w /\ call'.h = h
      /\ answer' = fill_rect(x, y, w, h)
    BY <1>1 DEF Invoked
<1>3. x \in Int /\ y \in Int /\ w \in Int /\ h \in Int
    BY GfxAssumption
<1>4. FillsExactly'
    BY <1>2, <1>3, FillExact DEF FillsExactly
<1> QED
    BY <1>2, <1>4, DrawingsExact DEF DrawingCalls

\* The rounded rectangles and the glass write what lies in their box and in the buffer.
LEMMA RoundedSteps ==
    ASSUME gfx_rounded_rect \/ gfx_rounded_outline \/ gfx_liquid_glass
    PROVE  PicturesExact'
<1>0. \A x \in Places, w \in Sizes : x \in Int /\ w \in Nat
    BY GfxAssumption
<1>1. CASE gfx_rounded_rect
  <2>1. PICK x \in Places, y \in Places, w \in Sizes, h \in Sizes, r \in {0, 1, 3} :
          Invoked([fn |-> "rounded", x |-> x, y |-> y, w |-> w, h |-> h, radius |-> r],
                  Drawn(rounded_rect(x, y, w, h, r)))
    BY <1>1 DEF gfx_rounded_rect, InRoundedBox
  <2>2. /\ call'.fn = "rounded" /\ call'.x = x /\ call'.y = y /\ call'.w = w /\ call'.h = h
        /\ call'.radius = r /\ answer' = Drawn(rounded_rect(x, y, w, h, r))
    BY <2>1 DEF Invoked
  <2>3. x \in Int /\ y \in Int /\ w \in Nat /\ h \in Nat /\ r \in Nat
    BY <1>0
  <2>4. RoundedExactly'
    BY <2>2, <2>3, RoundedExact DEF RoundedExactly, Called
  <2> QED
    BY <2>2, <2>4, DrawingsExact DEF DrawingCalls
<1>2. CASE gfx_rounded_outline
  <2>1. PICK x \in Places, y \in Places, w \in Sizes, h \in Sizes, r \in {0, 1, 3} :
          Invoked([fn |-> "rounded_outline", x |-> x, y |-> y, w |-> w, h |-> h, radius |-> r],
                  Drawn(rounded_outline(x, y, w, h, r)))
    BY <1>2 DEF gfx_rounded_outline, InRoundedBox
  <2>2. /\ call'.fn = "rounded_outline" /\ call'.x = x /\ call'.y = y /\ call'.w = w /\ call'.h = h
        /\ call'.radius = r /\ answer' = Drawn(rounded_outline(x, y, w, h, r))
    BY <2>1 DEF Invoked
  <2>3. x \in Int /\ y \in Int /\ w \in Nat /\ h \in Nat /\ r \in Nat
    BY <1>0
  <2>4. RoundedExactly'
    BY <2>2, <2>3, OutlineExact DEF RoundedExactly, Called
  <2> QED
    BY <2>2, <2>4, DrawingsExact DEF DrawingCalls
<1>3. CASE gfx_liquid_glass
  <2>1. PICK x \in Places, y \in Places, w \in Sizes, h \in Sizes, r \in {0, 1, 3} :
          Invoked([fn |-> "glass", x |-> x, y |-> y, w |-> w, h |-> h, radius |-> r],
                  liquid_glass(x, y, w, h, r))
    BY <1>3 DEF gfx_liquid_glass, InRoundedBox
  <2>2. /\ call'.fn = "glass" /\ call'.x = x /\ call'.y = y /\ call'.w = w /\ call'.h = h
        /\ call'.radius = r /\ answer' = liquid_glass(x, y, w, h, r)
    BY <2>1 DEF Invoked
  <2>3. x \in Int /\ y \in Int /\ w \in Nat /\ h \in Nat /\ r \in Nat
    BY <1>0
  <2>4. GlassWithin'
    BY <2>2, <2>3, GlassExact DEF GlassWithin
  <2> QED
    BY <2>2, <2>4, DrawingsExact DEF DrawingCalls
<1> QED
    BY <1>1, <1>2, <1>3

\* gfx_line() draws a line from one end to the other.
LEMMA LineStepExact ==
    ASSUME gfx_line
    PROVE  PicturesExact'
<1>1. PICK x0 \in Places, y0 \in Places, x1 \in Places, y1 \in Places :
        Invoked([fn |-> "line", x0 |-> x0, y0 |-> y0, x1 |-> x1, y1 |-> y1],
                line_points(x0, y0, x1, y1, Max({Abs(x1 - x0), Abs(y1 - y0)}) + 2))
    BY DEF gfx_line
<1>2. /\ call'.fn = "line" /\ call'.x0 = x0 /\ call'.y0 = y0 /\ call'.x1 = x1 /\ call'.y1 = y1
      /\ answer' = line_points(x0, y0, x1, y1, Max({Abs(x1 - x0), Abs(y1 - y0)}) + 2)
    BY <1>1 DEF Invoked
<1>3. x0 \in Int /\ y0 \in Int /\ x1 \in Int /\ y1 \in Int
    BY GfxAssumption
<1> DEFINE adx == Abs(x1 - x0)
           ady == Abs(y1 - y0)
           longer == Max({adx, ady})
           points == line_points(x0, y0, x1, y1, longer + 2)
           off(p) == (p.x - x0) * (y1 - y0) - (p.y - y0) * (x1 - x0)
<1>5. /\ Len(points) = longer + 1
      /\ Last(points).x = x1 /\ Last(points).y = y1
      /\ \A i \in 1 .. Len(points) - 1 :
           /\ Abs(points[i + 1].x - points[i].x) <= 1
           /\ Abs(points[i + 1].y - points[i].y) <= 1
      /\ \A i \in 1 .. Len(points) : 2 * Abs(off(points[i])) <= longer
    BY <1>3, LineIsExact, Zenon
<1>6. answer' = points
    BY <1>2
<1> HIDE DEF points
<1>4. LineExactly'
  <2>1. LineExactly' <=>
          (call'.fn = "line" =>
             LET adx1 == Abs(call'.x1 - call'.x0)
                 ady1 == Abs(call'.y1 - call'.y0)
                 longer1 == Max({adx1, ady1})
                 off1(p) == (p.x - call'.x0) * (call'.y1 - call'.y0) - (p.y - call'.y0) * (call'.x1 - call'.x0)
             IN  /\ Len(answer') = longer1 + 1
                 /\ Last(answer').x = call'.x1 /\ Last(answer').y = call'.y1
                 /\ \A i \in 1 .. Len(answer') - 1 :
                      /\ Abs(answer'[i + 1].x - answer'[i].x) <= 1
                      /\ Abs(answer'[i + 1].y - answer'[i].y) <= 1
                 /\ \A i \in 1 .. Len(answer') : 2 * Abs(off1(answer'[i])) <= longer1)
    BY Zenon DEF LineExactly, Called
  <2> QED
    BY <1>2, <1>5, <1>6, <2>1
<1> QED
    BY <1>2, <1>4, DrawingsExact DEF DrawingCalls

\* gfx_text() and fb_put_string() write in the lines of the text, and in the buffer.
LEMMA TextSteps ==
    ASSUME gfx_text \/ fb_put_string
    PROVE  PicturesExact'
<1>0. \A s \in Texts, x \in Places : s \in Seq(STRING) /\ x \in Int
    BY GfxAssumption
<1>1. CASE gfx_text
  <2>1. PICK s \in Texts, x \in Places, y \in Places :
          Invoked([fn |-> "text", s |-> s, x |-> x, y |-> y], Drawn(text_cells(s, x, y)))
    BY <1>1 DEF gfx_text
  <2>2. /\ call'.fn = "text" /\ call'.s = s /\ call'.x = x /\ call'.y = y
        /\ answer' = Drawn(text_cells(s, x, y))
    BY <2>1 DEF Invoked
  <2>3. s \in Seq(STRING) /\ x \in Int /\ y \in Int
    BY <1>0
  <2>4. TextWithin'
    BY <2>2, <2>3, TextExactly DEF TextWithin
  <2> QED
    BY <2>2, <2>4, DrawingsExact DEF DrawingCalls
<1>2. CASE fb_put_string
  <2> DEFINE written(s, x, y) ==
               fb_draw(UNION {Moved(Inner(Glyph, Glyph), p[1], p[2]) : p \in fb_places(s, x, y)})
  <2>1. PICK s \in Texts, x \in Places, y \in Places :
          Invoked([fn |-> "fb_string", s |-> s, x |-> x, y |-> y], written(s, x, y))
    BY <1>2 DEF fb_put_string
  <2>2. call'.fn = "fb_string" /\ answer' = written(s, x, y)
    BY <2>1 DEF Invoked
  <2>3. written(s, x, y) \subseteq Words
    BY <1>0, FramebufferText
  <2> HIDE DEF written
  <2>4. FramebufferWithin'
    BY <2>2, <2>3 DEF FramebufferWithin, Called
  <2> QED
    BY <2>2, <2>4, DrawingsExact DEF DrawingCalls
<1> QED
    BY <1>1, <1>2

\* The blits read the picture where it is and nowhere else.
LEMMA BlitSteps ==
    ASSUME gfx_blit_argb \/ gfx_blit_argb_scaled
    PROVE  PicturesExact'
<1>0. \A x \in Places, w \in Sizes : x \in Int /\ w \in Nat
    BY GfxAssumption
<1>1. \E x \in Places, y \in Places, w \in Sizes, h \in Sizes, sw \in Sizes, sh \in Sizes :
        Invoked([fn |-> "blit", x |-> x, y |-> y, sw |-> sw, sh |-> sh, w |-> w, h |-> h],
                blit_scaled(sw, sh, x, y, w, h))
    BY DEF gfx_blit_argb, gfx_blit_argb_scaled
<1>2. PICK x \in Places, y \in Places, w \in Sizes, h \in Sizes, sw \in Sizes, sh \in Sizes :
        Invoked([fn |-> "blit", x |-> x, y |-> y, sw |-> sw, sh |-> sh, w |-> w, h |-> h],
                blit_scaled(sw, sh, x, y, w, h))
    BY <1>1
<1>3. /\ call'.fn = "blit" /\ call'.x = x /\ call'.y = y /\ call'.w = w /\ call'.h = h
      /\ call'.sw = sw /\ call'.sh = sh /\ answer' = blit_scaled(sw, sh, x, y, w, h)
    BY <1>2 DEF Invoked
<1>4. x \in Int /\ y \in Int /\ w \in Nat /\ h \in Nat /\ sw \in Nat /\ sh \in Nat
    BY <1>0
<1> DEFINE pixels == blit_scaled(sw, sh, x, y, w, h)
<1>5. BlitRight(pixels, sw, sh, x, y, w, h)
    BY <1>4, BlitExact
<1>6. answer' = pixels
    BY <1>3
<1> HIDE DEF pixels
<1>7. PictureRead'
    BY <1>3, <1>5, <1>6 DEF BlitRight, PictureRead
<1> QED
    BY <1>3, <1>7, DrawingsExact DEF DrawingCalls

\* gfx_init() sets up a buffer that a present copies from within.
LEMMA PresentStep ==
    ASSUME gfx_init_present
    PROVE  PicturesExact'
<1>1. PICK mode \in ScreenSizes, memory \in WordsLeft :
        Invoked([fn |-> "init", w |-> mode[1], h |-> mode[2], memory |-> memory],
                gfx_init_size(mode[1], mode[2], memory))
    BY DEF gfx_init_present
<1> DEFINE w == mode[1]
           h == mode[2]
<1>2. w \in Nat /\ h \in Nat /\ w >= 640 /\ memory \in Nat
    BY SMT DEF ScreenSizes, WordsLeft
<1>3. /\ call'.fn = "init" /\ call'.w = w /\ call'.h = h
      /\ answer' = gfx_init_size(w, h, memory)
    BY <1>1 DEF Invoked
<1> HIDE DEF w, h
<1>4. PresentedWithin'
  <2> SUFFICES ASSUME gfx_init_size(w, h, memory).there
               PROVE  LET init == gfx_init_size(w, h, memory)
                      IN  present_last(init, w * 4) < h * w * 4 \/ init.size.h > h
    BY <1>3 DEF PresentedWithin
  <2> QED
    BY <1>2, PresentFits
<1> QED
    BY <1>3, <1>4, DrawingsExact DEF DrawingCalls

\* fb_draw_rect() writes the part of its rectangle that is on the screen.
LEMMA FramebufferStep ==
    ASSUME fb_draw_rect
    PROVE  PicturesExact'
<1> DEFINE drawn(x, y, w, h) == fb_draw(fb_cells(x, y, w, h))
<1>1. PICK x \in Places, y \in Places, w \in Sizes, h \in Sizes :
        Invoked([fn |-> "fb_rect", x |-> x, y |-> y, w |-> w, h |-> h], drawn(x, y, w, h))
    BY Zenon DEF fb_draw_rect, InBox
<1>2. /\ call'.fn = "fb_rect" /\ call'.x = x /\ call'.y = y /\ call'.w = w /\ call'.h = h
      /\ answer' = drawn(x, y, w, h)
    BY <1>1 DEF Invoked
<1>3. x \in Int /\ y \in Int /\ w \in Nat /\ h \in Nat
    BY GfxAssumption
<1>4. drawn(x, y, w, h) = Within(x, y, w, h)
    BY <1>3, FramebufferBox, Zenon
<1> HIDE DEF drawn
<1>5. FramebufferWithin'
    BY <1>2, <1>4 DEF FramebufferWithin, Called
<1> QED
    BY <1>2, <1>5, DrawingsExact DEF DrawingCalls

\* A blend, an interpolation and a gradient lie between their two colours.
LEMMA BlendSteps ==
    ASSUME gfx_blend \/ gfx_lerp_color \/ gfx_vgradient
    PROVE  PicturesExact'
<1>1. CASE gfx_blend
  <2>1. PICK dst \in Shades, src \in Shades, a \in Shades :
          Invoked([fn |-> "blend", dst |-> dst, src |-> src, a |-> a], Blended(dst, src, a))
    BY <1>1 DEF gfx_blend
  <2>2. /\ call'.fn = "blend" /\ call'.dst = dst /\ call'.src = src
        /\ answer' = Blended(dst, src, a)
    BY <2>1 DEF Invoked
  <2>3. Between(Blended(dst, src, a), dst, src)
    BY BlendBetween, GfxAssumption
  <2>4. ColoursBetween'
    BY <2>2, <2>3 DEF ColoursBetween, Called
  <2> QED
    BY <2>2, <2>4, ColoursExact DEF ColourCalls
<1>2. CASE gfx_lerp_color
  <2>1. PICK a \in Shades, b \in Shades, t \in Parts :
          Invoked([fn |-> "lerp", a |-> a, b |-> b, t |-> t], Lerp(a, b, t))
    BY <1>2 DEF gfx_lerp_color
  <2>2. /\ call'.fn = "lerp" /\ call'.a = a /\ call'.b = b /\ call'.t = t /\ answer' = Lerp(a, b, t)
    BY <2>1 DEF Invoked
  <2>3. a \in Nat /\ b \in Nat /\ t \in Int
    BY GfxAssumption
  <2>4. /\ Between(Lerp(a, b, t), a, b)
        /\ t <= 0 => Lerp(a, b, t) = a
        /\ t >= 256 => Lerp(a, b, t) = b
    BY <2>3, LerpBetween
  <2>5. ColoursBetween'
    BY <2>2, <2>4 DEF ColoursBetween, Called
  <2> QED
    BY <2>2, <2>5, ColoursExact DEF ColourCalls
<1>3. CASE gfx_vgradient
  <2> DEFINE rows(top, bottom, h) == [j \in 1 .. h |-> GradientRow(top, bottom, h, j - 1)]
  <2>1. PICK top \in Shades, bottom \in Shades, h \in Rows :
          Invoked([fn |-> "gradient", top |-> top, bottom |-> bottom, h |-> h], rows(top, bottom, h))
    BY <1>3 DEF gfx_vgradient
  <2>2. /\ call'.fn = "gradient" /\ call'.top = top /\ call'.bottom = bottom /\ call'.h = h
        /\ answer' = rows(top, bottom, h)
    BY <2>1 DEF Invoked
  <2>3. top \in Nat /\ bottom \in Nat /\ h \in Nat
    BY GfxAssumption
  <2> DEFINE R == rows(top, bottom, h)
             G(j) == GradientRow(top, bottom, h, j)
  <2>4. \A j \in 1 .. h : R[j] = G(j - 1)
    OBVIOUS
  <2>5. ASSUME h > 1
        PROVE  /\ R[1] = top /\ R[h] = bottom
               /\ \A j \in 1 .. h - 1 : Between(R[j + 1], R[j], bottom)
    <3>1. G(0) = top /\ G(h - 1) = bottom /\ \A j \in 1 .. h - 1 : Between(G(j), G(j - 1), bottom)
        BY <2>3, <2>5, GradientOnwards
    <3>2. 1 \in 1 .. h /\ h \in 1 .. h /\ 1 - 1 = 0
        BY <2>3, <2>5
    <3>3. \A j \in 1 .. h - 1 : j \in 1 .. h /\ j + 1 \in 1 .. h /\ (j + 1) - 1 = j
        BY <2>3
    <3> HIDE DEF R, G
    <3>4. ASSUME NEW j \in 1 .. h - 1
          PROVE  Between(R[j + 1], R[j], bottom)
      <4>1. R[j + 1] = G(j) /\ R[j] = G(j - 1)
        BY <2>4, <3>3
      <4> QED
        BY <3>1, <4>1
    <3>5. R[1] = top /\ R[h] = bottom
        BY <2>4, <3>1, <3>2
    <3> QED
        BY <3>4, <3>5
  <2>6. answer' = R
    BY <2>2
  <2> HIDE DEF R, rows
  <2>7. ColoursBetween'
    BY <2>2, <2>5, <2>6 DEF ColoursBetween, Called
  <2> QED
    BY <2>2, <2>7, ColoursExact DEF ColourCalls
<1> QED
    BY <1>1, <1>2, <1>3

\* gfx_blur_region() stays between the extremes of its box.
LEMMA BlurStep ==
    ASSUME gfx_blur_region
    PROVE  PicturesExact'
<1> DEFINE painted(spot, u, v) == [c \in Square |-> IF c = spot THEN u ELSE v]
<1>1. PICK spot \in Square, u \in {0, 7, 255}, v \in {0, 7, 255}, x \in 0 .. 1, y \in 0 .. 1,
           w \in 1 .. Side - 1, h \in 1 .. Side - 1 :
        Invoked([fn |-> "blur", picture |-> painted(spot, u, v), x |-> x, y |-> y, w |-> w, h |-> h],
                BlurPass(painted(spot, u, v), x, y, w, h))
    BY DEF gfx_blur_region
<1> DEFINE picture == painted(spot, u, v)
<1>2. picture \in [Square -> 0 .. 255]
    OBVIOUS
<1> HIDE DEF picture
<1>3. /\ call'.fn = "blur" /\ call'.picture = picture /\ call'.x = x /\ call'.y = y
      /\ call'.w = w /\ call'.h = h /\ answer' = BlurPass(picture, x, y, w, h)
    BY <1>1 DEF Invoked, picture
<1>4. BlurredWithin(picture, BlurPass(picture, x, y, w, h), x, y, w, h)
    BY <1>2, BlurBetween
<1>5. ColoursBetween'
    BY <1>3, <1>4 DEF ColoursBetween, Called
<1> QED
    BY <1>3, <1>5, ColoursExact DEF ColourCalls

\* gfx_sin_deg() and gfx_cos_deg() lie on the circle.
LEMMA SinSteps ==
    ASSUME gfx_sin_deg \/ gfx_cos_deg
    PROVE  PicturesExact'
<1>0. \A deg \in -360 .. 720 : deg \in Int
    OBVIOUS
<1>1. CASE gfx_sin_deg
  <2>1. PICK deg \in -360 .. 720 : Invoked([fn |-> "sin", deg |-> deg], SinDeg(deg))
    BY <1>1 DEF gfx_sin_deg
  <2>2. call'.fn = "sin" /\ call'.deg = deg /\ answer' = SinDeg(deg)
    BY <2>1 DEF Invoked
  <2>3. deg \in Int
    OBVIOUS
  <2>4. /\ SinDeg(deg) = -SinDeg(deg + 180) /\ SinDeg(deg) = SinDeg(180 - deg)
        /\ OnCircle(SinDeg(deg) * SinDeg(deg) + CosDeg(deg) * CosDeg(deg))
    BY <2>3, SinExact
  <2>5. ColoursBetween'
    BY <2>2, <2>4 DEF ColoursBetween, Called
  <2> QED
    BY <2>2, <2>5, ColoursExact DEF ColourCalls
<1>2. CASE gfx_cos_deg
  <2>1. PICK deg \in -360 .. 720 : Invoked([fn |-> "cos", deg |-> deg], CosDeg(deg))
    BY <1>2 DEF gfx_cos_deg
  <2>2. call'.fn = "cos" /\ call'.deg = deg /\ answer' = CosDeg(deg)
    BY <2>1 DEF Invoked
  <2>3. deg \in Int
    OBVIOUS
  <2>4. CosDeg(deg) = CosDeg(-deg)
    BY <2>3, SinExact
  <2>5. ColoursBetween'
    BY <2>2, <2>4 DEF ColoursBetween, Called
  <2> QED
    BY <2>2, <2>5, ColoursExact DEF ColourCalls
<1> QED
    BY <1>1, <1>2

\* The conjuncts of DesktopTrue that a call is not about.
LEMMA DesktopQuiet ==
    ASSUME NEW f, call'.fn = f
    PROVE  /\ f # "dock" => DockTrue'
           /\ f # "menu" => MenusTrue'
           /\ f # "window" => WindowsTrue'
           /\ f # "pointer" => PointerTrue'
           /\ f # "month" => CalendarTrue'
           /\ f # "bmp" => PicturesTrue'
BY DEF Called, DockTrue, MenusTrue, WindowsTrue, PointerTrue, CalendarTrue, PicturesTrue

\* A call about the desktop, by the one conjunct that speaks of it.
LEMMA DesktopBy ==
    ASSUME NEW f \in DesktopCalls, call'.fn = f,
           f = "dock" => DockTrue', f = "menu" => MenusTrue', f = "window" => WindowsTrue',
           f = "pointer" => PointerTrue', f = "month" => CalendarTrue', f = "bmp" => PicturesTrue'
    PROVE  PicturesExact'
<1>1. DesktopTrue'
    BY DesktopQuiet DEF DesktopTrue, DesktopCalls
<1> QED
    BY <1>1, DesktopExact

\* The dock picks the icon that is lit.
LEMMA DockStep ==
    ASSUME DockClick
    PROVE  PicturesExact'
<1> DEFINE lit(p) == {i \in 0 .. DOCK_COUNT - 1 : IconHovered(p, i)}
<1>1. PICK p \in Points :
        Invoked([fn |-> "dock", p |-> p], [lit |-> lit(p), picked |-> DockPicked(p)])
    BY DEF DockClick
<1>2. /\ call'.fn = "dock" /\ call'.p = p /\ answer'.lit = lit(p) /\ answer'.picked = DockPicked(p)
    BY <1>1 DEF Invoked
<1>3. /\ lit(p) \subseteq {DockPicked(p)}
      /\ DockPicked(p) # None =>
           /\ InBoxAt(p, Box(dock_x0, dock_y0, dock_total, AX_DOCK_H))
           /\ \A i \in (0 .. DOCK_COUNT - 1) \ {DockPicked(p)} : ~InBoxAt(p, IconDrawn(i))
    BY PointsWhole, DockExact
<1> HIDE DEF lit
<1>4. DockTrue'
    BY <1>2, <1>3 DEF DockTrue
<1> QED
    BY <1>2, <1>4, DesktopBy DEF DesktopCalls

\* What the run checks of a menu, for a box on the screen.
LEMMA MenuBy ==
    ASSUME NEW p \in Points, NEW x \in Int, NEW y \in Int, NEW w \in Int,
           NEW rows \in Nat, NEW rowH \in {22, 26},
           NEW box, box = Box(x, y, w, rows * rowH + 8), BoxInside(box, Screen),
           Invoked([fn |-> "menu", p |-> p, box |-> box, rows |-> rows, rowH |-> rowH],
                   [lit |-> RowsLit(p, box, rows, rowH), picked |-> RowPicked(p, box, rowH)])
    PROVE  PicturesExact'
<1>1. /\ call'.fn = "menu" /\ call'.p = p /\ call'.box = box /\ call'.rows = rows
      /\ answer'.lit = RowsLit(p, box, rows, rowH) /\ answer'.picked = RowPicked(p, box, rowH)
    BY DEF Invoked
<1>2. box.y = y
    BY DEF Box
<1>3. RowsRight(p, box, y, rows, rowH)
  <2>1. p[1] \in Int /\ p[2] \in Int /\ rowH \in Nat /\ (rowH = 22 \/ rowH = 26)
    BY PointsWhole
  <2> QED
    BY <2>1, RowsExact
<1>4. MenusTrue'
    BY <1>1, <1>2, <1>3 DEF RowsRight, MenusTrue
<1> QED
    BY <1>1, <1>4, DesktopBy DEF DesktopCalls

\* The menus of the bar and the context menu pick the row that is lit.
LEMMA MenuSteps ==
    ASSUME MenuClick \/ ContextClick
    PROVE  PicturesExact'
<1>1. CASE MenuClick
  <2>1. PICK m \in DOMAIN MenuXs, p \in Points :
          Invoked([fn |-> "menu", p |-> p, box |-> MenuBox(m), rows |-> MenuItems[m], rowH |-> 22],
                  [lit |-> RowsLit(p, MenuBox(m), MenuItems[m], 22),
                   picked |-> RowPicked(p, MenuBox(m), 22)])
    BY <1>1 DEF MenuClick
  <2> DEFINE box == MenuBox(m)
             n == MenuItems[m]
             x == MenuXs[m] - 4
  <2>2. BoxInside(box, Screen) /\ n \in Nat /\ x \in Int /\ AX_MENUBAR_H \in Int
        /\ box = Box(x, AX_MENUBAR_H, 160, n * 22 + 8)
    BY MenusInside
  <2> HIDE DEF box, n, x
  <2>3. Invoked([fn |-> "menu", p |-> p, box |-> box, rows |-> n, rowH |-> 22],
                [lit |-> RowsLit(p, box, n, 22), picked |-> RowPicked(p, box, 22)])
    BY <2>1 DEF box, n
  <2>4. 22 \in {22, 26} /\ 160 \in Int
    OBVIOUS
  <2> QED
    BY <2>2, <2>3, <2>4, MenuBy
<1>2. CASE ContextClick
  <2>1. PICK c \in {<<0, 0>>, <<scr_w \div 2, scr_h \div 2>>, <<scr_w - 1, scr_h - 1>>}, p \in Points :
          Invoked([fn |-> "menu", p |-> p, box |-> ContextBox(c), rows |-> CTX_COUNT, rowH |-> CTX_ITEM_H],
                  [lit |-> RowsLit(p, ContextBox(c), CTX_COUNT, CTX_ITEM_H),
                   picked |-> RowPicked(p, ContextBox(c), CTX_ITEM_H)])
    BY <1>2 DEF ContextClick
  <2>2. c[1] \in 0 .. scr_w - 1 /\ c[2] \in 0 .. scr_h - 1
    BY LayoutAssumption
  <2> DEFINE box == ContextBox(c)
             n == CTX_COUNT
             r == CTX_ITEM_H
  <2>3. PICK x \in Int, y \in Int : box = Box(x, y, 160, n * r + 8) /\ BoxInside(box, Screen)
    BY <2>2, ContextInside
  <2>4. n \in Nat /\ r \in {22, 26} /\ 160 \in Int
    BY DEF CTX_COUNT, CTX_ITEM_H
  <2> HIDE DEF box, n, r
  <2>5. Invoked([fn |-> "menu", p |-> p, box |-> box, rows |-> n, rowH |-> r],
                [lit |-> RowsLit(p, box, n, r), picked |-> RowPicked(p, box, r)])
    BY <2>1 DEF box, n, r
  <2> QED
    BY <2>3, <2>4, <2>5, MenuBy
<1> QED
    BY <1>1, <1>2

\* A window keeps its parts inside and its buttons apart.
LEMMA WindowStep ==
    ASSUME DrawWindow
    PROVE  PicturesExact'
<1> DEFINE window(w, h, letters, cw) ==
             [x |-> 7, y |-> 30, w |-> w, h |-> h, letters |-> letters,
              canvas_w |-> cw, canvas_h |-> h]
<1>1. PICK w \in {160, 161, 400}, h \in {100, 101}, letters \in {1, 20, 47}, fits \in BOOLEAN :
        Invoked([fn |-> "window", win |-> window(w, h, letters, IF fits THEN w ELSE 160)],
                draw_surface(window(w, h, letters, IF fits THEN w ELSE 160)))
    BY DEF DrawWindow
<1> DEFINE cw == IF fits THEN w ELSE 160
           win == window(w, h, letters, cw)
           box == WindowBox(win)
<1> HIDE DEF cw
<1>2. cw \in Int
    BY DEF cw
<1>3. /\ win.x = 7 /\ win.y = 30 /\ win.w \in {160, 161, 400} /\ win.h \in {100, 101}
      /\ win.letters \in Nat /\ win.canvas_w \in Int /\ win.canvas_h \in Int
    BY <1>2
<1> HIDE DEF win
<1>4. box = WindowBox(win)
    OBVIOUS
<1> HIDE DEF box
<1>5. /\ \A b \in draw_surface(win).frame :
           BoxInside(b, Box(box.x, box.y, box.w + 4, box.h + 4))
      /\ 8 * win.letters <= win.w =>
           BoxInside(draw_surface(win).title, Box(box.x, box.y, box.w, AX_TITLEBAR_H))
      /\ \A e \in GripEnds(win) : in_resize_grip(win, e)
    BY <1>3, <1>4, SurfaceInside
<1>6. call'.fn = "window" /\ call'.win = win /\ answer' = draw_surface(win)
    BY <1>1 DEF Invoked, win, cw
<1>7. WindowsTrue'
    BY <1>5, <1>6, ButtonsApart DEF WindowsTrue, box
<1> QED
    BY <1>6, <1>7, DesktopBy DEF DesktopCalls

\* The pointer stays on the screen.
LEMMA PointerStep ==
    ASSUME MovePointer
    PROVE  PicturesExact'
<1>1. PICK x \in {-3, 0, scr_w - 16, scr_w - 1, scr_w + 9}, y \in {-3, 5, scr_h - 15, scr_h} :
        Invoked([fn |-> "pointer"], [at |-> update_mouse(<<x, y>>),
                                     box |-> CursorBox(update_mouse(<<x, y>>))])
    BY DEF MovePointer
<1>2. x \in Int /\ y \in Int
    BY LayoutAssumption
<1> DEFINE spot == update_mouse(<<x, y>>)
<1>3. BoxInside(CursorBox(spot), Screen) /\ InBoxAt(spot, CursorBox(spot))
    BY <1>2, PointerExact
<1> HIDE DEF spot
<1>4. call'.fn = "pointer" /\ answer'.at = spot /\ answer'.box = CursorBox(spot)
    BY <1>1 DEF Invoked, spot
<1>5. PointerTrue'
    BY <1>3, <1>4 DEF PointerTrue
<1> QED
    BY <1>4, <1>5, DesktopBy DEF DesktopCalls

\* The calendar follows the month before it.
LEMMA MonthStep ==
    ASSUME DrawMonth
    PROVE  PicturesExact'
<1>1. PICK m \in 1 .. 12, y \in 2000 .. 2099 :
        Invoked([fn |-> "month", m |-> m, y |-> y],
                [first |-> day_of_week(1, m, y), days |-> days_in_month(m, y)])
    BY DEF DrawMonth
<1>2. /\ call'.fn = "month" /\ call'.m = m /\ call'.y = y
      /\ answer'.first = day_of_week(1, m, y) /\ answer'.days = days_in_month(m, y)
    BY <1>1 DEF Invoked
<1> DEFINE pm == IF m = 1 THEN 12 ELSE m - 1
           py == IF m = 1 THEN y - 1 ELSE y
           follows == day_of_week(1, m, y) = (day_of_week(1, pm, py) + days_in_month(pm, py)) % 7
<1>3. IF m = 1 /\ y = 2000 THEN day_of_week(1, m, y) = 6 ELSE follows
  <2>1. CASE m = 1 /\ y = 2000
    <3>1. day_of_week(1, m, y) = 6
        BY <2>1, FirstIsSaturday
    <3> QED
        BY <2>1, <3>1
  <2>2. CASE ~(m = 1 /\ y = 2000)
    <3>1. follows
        BY <2>2, MonthsFollow
    <3> QED
        BY <2>2, <3>1
  <2> QED
    BY <2>1, <2>2
<1>4. \A d \in 1 .. days_in_month(m, y) : BoxInside(DayBox(d, day_of_week(1, m, y)), Box(0, 0, 168, 150))
  <2> SUFFICES ASSUME NEW d \in 1 .. days_in_month(m, y)
               PROVE  BoxInside(DayBox(d, day_of_week(1, m, y)), Box(0, 0, 168, 150))
    OBVIOUS
  <2>1. days_in_month(m, y) \in 28 .. 31
    BY MonthSizes
  <2>2. m \in Nat /\ y \in Nat /\ d \in Nat
    BY <2>1
  <2> QED
    BY <2>2, DaysFit
<1>5. CalendarTrue'
    BY <1>2, <1>3, <1>4 DEF CalendarTrue
<1> QED
    BY <1>2, <1>5, DesktopBy DEF DesktopCalls

\* A picture is read as it was stored.
LEMMA LoadStep ==
    ASSUME LoadPicture
    PROVE  PicturesExact'
<1>1. PICK w \in BmpSides, h \in BmpSides, bytes \in {1, 3, 4}, file \in {0, BmpData \div 2, 2 * BmpData} :
        Invoked([fn |-> "bmp", w |-> w, h |-> h, bytes |-> bytes, file |-> file],
                load_bmp(w, h, bytes, file))
    BY DEF LoadPicture
<1>2. /\ call'.fn = "bmp" /\ call'.w = w /\ call'.h = h /\ call'.bytes = bytes
      /\ answer' = load_bmp(w, h, bytes, file)
    BY <1>1 DEF Invoked
<1>3. w \in Int /\ h \in Int
    BY LayoutAssumption
<1> DEFINE a == load_bmp(w, h, bytes, file)
<1>4. a.ok => /\ \A c, d \in DOMAIN a.pixels : c[2] < d[2] => a.pixels[c].at > a.pixels[d].at
              /\ \A c, d \in DOMAIN a.pixels :
                   c[2] = d[2] /\ c[1] < d[1] => a.pixels[d].at - a.pixels[c].at >= bytes
              /\ \A c \in DOMAIN a.pixels :
                   a.pixels[c].read = "behind" => h * RowBytes(w, bytes) > BmpData
    BY <1>3, PictureExact
<1> HIDE DEF a
<1>5. answer' = a
    BY <1>2 DEF a
<1>6. PicturesTrue'
    BY <1>2, <1>4, <1>5 DEF PicturesTrue
<1> QED
    BY <1>2, <1>6, DesktopBy DEF DesktopCalls

THEOREM PicturesAreExact == PicturesSpec => []PicturesExact
<1>1. InvocationInit => PicturesExact
  <2> SUFFICES ASSUME InvocationInit
               PROVE  PicturesExact
    OBVIOUS
  <2>1. call.fn = "none"
    BY DEF InvocationInit, NoCall
  <2>2. DrawingExact
    BY <2>1 DEF DrawingExact, FillsExactly, RoundedExactly, GlassWithin, LineExactly, TextWithin,
                PictureRead, PresentedWithin, FramebufferWithin, Called
  <2>3. ColoursBetween
    BY <2>1 DEF ColoursBetween, Called
  <2>4. DesktopTrue
    BY <2>1 DEF DesktopTrue, DockTrue, MenusTrue, WindowsTrue, PointerTrue, CalendarTrue, PicturesTrue, Called
  <2> QED
    BY <2>2, <2>3, <2>4 DEF PicturesExact
<1>2. PicturesExact /\ [PicturesNext]_invocationVars => PicturesExact'
  <2> SUFFICES ASSUME PicturesExact, [PicturesNext]_invocationVars
               PROVE  PicturesExact'
    OBVIOUS
  <2>1. CASE ColourNext
    BY <2>1, BlendSteps, BlurStep, SinSteps DEF ColourNext
  <2>2. CASE GfxNext /\ ~ColourNext
    BY <2>2, PlainSteps, FillStep, RoundedSteps, LineStepExact, TextSteps, BlitSteps, PresentStep,
       FramebufferStep DEF GfxNext
  <2>3. CASE LayoutNext
    BY <2>3, DockStep, MenuSteps, WindowStep, PointerStep, MonthStep, LoadStep DEF LayoutNext
  <2>4. CASE UNCHANGED invocationVars
    <3>1. call' = call /\ answer' = answer
        BY <2>4 DEF invocationVars
    <3>2. PicturesExact' = PicturesExact
        BY <3>1 DEF PicturesExact, DrawingExact, ColoursBetween, DesktopTrue,
           FillsExactly, RoundedExactly, GlassWithin, LineExactly, TextWithin,
           PictureRead, PresentedWithin, FramebufferWithin, Called,
           DockTrue, MenusTrue, WindowsTrue, PointerTrue, CalendarTrue, PicturesTrue
    <3> QED
        BY <3>2
  <2> QED
    BY <2>1, <2>2, <2>3, <2>4 DEF PicturesNext
<1> QED
    BY <1>1, <1>2, PTL DEF PicturesSpec

=============================================================================
