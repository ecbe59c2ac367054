-------------------------- MODULE SchedulerProofs --------------------------
(***************************************************************************)
(* Proofs about Scheduler, for every table size, set of stacks and pid     *)
(* bound.                                                                  *)
(*                                                                         *)
(* The inductive invariant is the conjunction of the properties: the ring  *)
(* order needs unique pids, the fall-back to root needs OneRunning and     *)
(* CountIsLive, and each of them needs the types.                          *)
(***************************************************************************)
EXTENDS Scheduler, FiniteSetTheorems, TLAPS

IInv ==
    /\ TypeOK
    /\ OneRunning
    /\ CountIsLive
    /\ PidsUnique
    /\ ContextOwned
    /\ StacksOwned
    /\ RingInOrder

-----------------------------------------------------------------------------
(* Lemmas about the pieces. *)

\* Slot 0 exists, and the sets of slots are finite.
LEMMA SlotFacts ==
    /\ Root \in Slot
    /\ NoSlot \notin Slot
    /\ IsFiniteSet(Slot)
    /\ \A S \in SUBSET Slot : IsFiniteSet(S) /\ Cardinality(S) \in Nat
<1>1. Root \in Slot /\ NoSlot \notin Slot
    BY MaxTasksAssumption DEF Root, Slot, NoSlot
<1>2. IsFiniteSet(Slot)
    BY MaxTasksAssumption, FS_Interval DEF Slot
<1>3. \A S \in SUBSET Slot : IsFiniteSet(S) /\ Cardinality(S) \in Nat
    BY <1>2, FS_Subset, FS_CardinalityType
<1>4. QED
    BY <1>1, <1>2, <1>3

\* Distances between slots lie between 1 and the table size.
LEMMA DistanceType ==
    \A a, b \in Slot : Distance(a, b) \in 1 .. MaxTasks
    BY MaxTasksAssumption DEF Distance, Slot

\* When a task other than root runs, root is READY too, and the count test of
\* pick_next_ready() passes.
LEMMA ExitCount ==
    ASSUME IInv, NEW next \in Slot, task_exit(next)
    PROVE  /\ running # Root
           /\ running \in Live
           /\ Root \in Ready
           /\ ~(count <= 1)
<1>1. running # Root /\ running \in Live
    BY SlotFacts DEF IInv, TypeOK, OneRunning, task_exit, Live
<1>2. Root \in Ready
    BY <1>1, SlotFacts DEF IInv, TypeOK, OneRunning, Live, Ready
<1>3. Live \in SUBSET Slot /\ Root \in Live
    BY DEF Live, IInv, OneRunning
<1>4. Cardinality(Live) # 0 /\ Cardinality(Live) # 1
    BY <1>1, <1>3, SlotFacts, FS_EmptySet, FS_Singleton
<1>5. ~(count <= 1)
    BY <1>3, <1>4, SlotFacts DEF IInv, CountIsLive
<1>6. QED
    BY <1>1, <1>2, <1>5

\* A non-root task that gives up the CPU hands it to a READY slot other than
\* its own: the fall-back to the root task is never needed.
LEMMA ExitTarget ==
    ASSUME IInv, NEW next \in Slot, task_exit(next)
    PROVE  /\ running # Root
           /\ running \in Live
           /\ next \in Ready
           /\ next # running
<1>1. next \in Ready
    BY ExitCount DEF task_exit, Picks, PicksNone
<1>2. next # running
    BY <1>1 DEF IInv, OneRunning, TypeOK, Ready
<1>3. QED
    BY <1>1, <1>2, ExitCount

-----------------------------------------------------------------------------
(* Type correctness. *)

LEMMA TypeInit == Init => TypeOK
<1> SUFFICES ASSUME Init PROVE TypeOK
    OBVIOUS
<1>1. nextPid = 2 /\ count = 1 /\ cpu = 1
    BY DEF Init, RootPid
<1>2. /\ nextPid \in Nat \ {0}
      /\ cpu \in 0 .. nextPid - 1
      /\ count \in 0 .. MaxTasks
      /\ freeStacks \subseteq Stacks
      /\ halted \in BOOLEAN
    <2>1. freeStacks \subseteq Stacks /\ halted \in BOOLEAN
        BY DEF Init
    <2>2. /\ nextPid \in Nat \ {0}
          /\ cpu \in 0 .. nextPid - 1
          /\ count \in 0 .. MaxTasks
        BY <1>1, MaxTasksAssumption
    <2>3. QED
        BY <2>1, <2>2
<1>3. /\ pid \in [Slot -> 0 .. nextPid - 1]
      /\ regs \in [Slot -> 0 .. nextPid - 1]
    BY <1>1 DEF Init, RootPid
<1>4. /\ state \in [Slot -> {"TERMINATED", "READY", "RUNNING"}]
      /\ stack \in [Slot -> Stacks \cup {NoStack}]
      /\ nxt \in [Slot -> Slot \cup {NoSlot}]
      /\ prv \in [Slot -> Slot \cup {NoSlot}]
      /\ head \in Slot \cup {NoSlot}
      /\ running \in Slot
    BY SlotFacts DEF Init
<1>5. QED
    BY <1>2, <1>3, <1>4 DEF TypeOK

LEMMA TypeStep == IInv /\ [Next]_vars => TypeOK'
<1> SUFFICES ASSUME IInv, [Next]_vars PROVE TypeOK'
    OBVIOUS
<1> USE SlotFacts
<1>1. ASSUME NEW t \in Slot, NEW s \in Stacks, task_spawn(t, s) PROVE TypeOK'
    <2>1. head \in Slot /\ prv[head] \in Slot
        BY DEF IInv, RingInOrder, OneRunning, Live
    <2>2. /\ nextPid' \in Nat \ {0}
          /\ pid' \in [Slot -> 0 .. nextPid' - 1]
          /\ regs' \in [Slot -> 0 .. nextPid' - 1]
          /\ cpu' \in 0 .. nextPid' - 1
        BY <1>1 DEF IInv, TypeOK, task_spawn, AssignPid
    <2>3. nxt' \in [Slot -> Slot \cup {NoSlot}] /\ prv' \in [Slot -> Slot \cup {NoSlot}]
          /\ head' \in Slot \cup {NoSlot}
        BY <1>1, <2>1 DEF IInv, TypeOK, task_spawn, task_list_insert
    <2>4. /\ state' \in [Slot -> {"TERMINATED", "READY", "RUNNING"}]
          /\ stack' \in [Slot -> Stacks \cup {NoStack}]
          /\ freeStacks' \subseteq Stacks
          /\ running' \in Slot
          /\ halted' \in BOOLEAN
        BY <1>1 DEF IInv, TypeOK, task_spawn
    <2>5. count' \in 0 .. MaxTasks
        BY <1>1, MaxTasksAssumption DEF IInv, TypeOK, task_spawn
    <2>6. QED
        BY <2>2, <2>3, <2>4, <2>5 DEF TypeOK
<1>2. ASSUME NEW next \in Slot, yield(next) PROVE TypeOK'
    BY <1>2 DEF IInv, TypeOK, yield, SwitchFrom, listVars
<1>3. ASSUME NEW next \in Slot, task_exit(next) PROVE TypeOK'
    <2>1. running \in Live /\ nxt[running] \in Slot /\ prv[running] \in Slot
        BY <1>3, ExitTarget DEF IInv, RingInOrder, Live
    <2>2. nxt' \in [Slot -> Slot \cup {NoSlot}] /\ prv' \in [Slot -> Slot \cup {NoSlot}]
          /\ head' \in Slot \cup {NoSlot}
        BY <1>3, <2>1 DEF IInv, TypeOK, task_exit, task_list_remove
    <2>3. /\ stack' \in [Slot -> Stacks \cup {NoStack}]
          /\ freeStacks' \subseteq Stacks
        BY <1>3 DEF IInv, TypeOK, task_exit, FreeStack
    <2>4. count' \in 0 .. MaxTasks
        <3>1. count # 0
            BY <2>1, FS_EmptySet, SlotFacts DEF IInv, CountIsLive, Live
        <3>2. QED
            BY <1>3, <3>1, MaxTasksAssumption DEF IInv, TypeOK, task_exit
    <2>5. /\ state' \in [Slot -> {"TERMINATED", "READY", "RUNNING"}]
          /\ nextPid' \in Nat \ {0}
          /\ pid' \in [Slot -> 0 .. nextPid' - 1]
          /\ regs' \in [Slot -> 0 .. nextPid' - 1]
          /\ running' \in Slot
          /\ cpu' \in 0 .. nextPid' - 1
          /\ halted' \in BOOLEAN
        BY <1>3 DEF IInv, TypeOK, task_exit
    <2>6. QED
        BY <2>2, <2>3, <2>4, <2>5 DEF TypeOK
<1>4. ASSUME root_exit PROVE TypeOK'
    BY <1>4 DEF IInv, TypeOK, root_exit, taskVars, listVars
<1>5. ASSUME UNCHANGED vars PROVE TypeOK'
    BY <1>5 DEF IInv, TypeOK, vars, taskVars, listVars
<1>6. QED
    BY <1>1, <1>2, <1>3, <1>4, <1>5 DEF Next, HaltLoop

-----------------------------------------------------------------------------
(* One lemma per property: a step from a state of the invariant keeps it.  *)

\* The fallback is to a live root, and one task runs.
LEMMA OneRunningStep == IInv /\ [Next]_vars => OneRunning'
<1> SUFFICES ASSUME IInv, [Next]_vars PROVE OneRunning'
    OBVIOUS
<1> USE SlotFacts
<1>1. ASSUME NEW t \in Slot, NEW s \in Stacks, task_spawn(t, s) PROVE OneRunning'
    <2>1. t # running /\ t # Root /\ state[t] = "TERMINATED"
        BY <1>1 DEF IInv, OneRunning, TypeOK, Live, task_spawn, FirstFree
    <2>2. \A u \in Slot : state'[u] = IF u = t THEN "READY" ELSE state[u]
        BY <1>1 DEF task_spawn, IInv, TypeOK
    <2>3. \A u \in Slot : pid'[u] = IF u = t THEN nextPid ELSE pid[u]
        BY <1>1 DEF task_spawn, AssignPid, IInv, TypeOK
    <2>4. nextPid # RootPid
        BY DEF IInv, TypeOK, OneRunning, Live, RootPid
    <2>5. running' = running
        BY <1>1 DEF task_spawn
    <2>6. QED
        BY <2>1, <2>2, <2>3, <2>4, <2>5 DEF IInv, OneRunning, Live
<1>2. ASSUME NEW next \in Slot, yield(next) PROVE OneRunning'
    BY <1>2 DEF IInv, OneRunning, TypeOK, Live, yield, Picks, Ready
<1>3. ASSUME NEW next \in Slot, task_exit(next) PROVE OneRunning'
    BY <1>3, ExitTarget DEF IInv, OneRunning, TypeOK, Live, Ready, task_exit
<1>4. ASSUME root_exit PROVE OneRunning'
    BY <1>4 DEF IInv, OneRunning, Live, root_exit, taskVars
<1>5. ASSUME UNCHANGED vars PROVE OneRunning'
    BY <1>5 DEF IInv, OneRunning, Live, vars, taskVars
<1>6. QED
    BY <1>1, <1>2, <1>3, <1>4, <1>5 DEF Next, HaltLoop

\* What each operation does to the set of live tasks.
LEMMA LiveAfter ==
    ASSUME IInv
    PROVE  /\ \A t \in Slot, s \in Stacks :
                task_spawn(t, s) => t \notin Live /\ Live' = Live \cup {t}
           /\ \A next \in Slot : yield(next) => Live' = Live
           /\ \A next \in Slot :
                task_exit(next) => running \in Live /\ Live' = Live \ {running}
<1>1. ASSUME NEW t \in Slot, NEW s \in Stacks, task_spawn(t, s)
      PROVE  t \notin Live /\ Live' = Live \cup {t}
    BY <1>1 DEF IInv, TypeOK, Live, task_spawn, FirstFree
<1>2. ASSUME NEW next \in Slot, yield(next) PROVE Live' = Live
    BY <1>2 DEF IInv, OneRunning, TypeOK, Live, Ready, Picks, yield
<1>3. ASSUME NEW next \in Slot, task_exit(next)
      PROVE  running \in Live /\ Live' = Live \ {running}
    BY <1>3, ExitTarget DEF IInv, TypeOK, Live, Ready, task_exit
<1>4. QED
    BY <1>1, <1>2, <1>3

LEMMA CountStep == IInv /\ [Next]_vars => CountIsLive'
<1> SUFFICES ASSUME IInv, [Next]_vars PROVE CountIsLive'
    OBVIOUS
<1>1. IsFiniteSet(Live)
    BY SlotFacts DEF Live
<1>2. ASSUME NEW t \in Slot, NEW s \in Stacks, task_spawn(t, s) PROVE CountIsLive'
    BY <1>1, <1>2, LiveAfter, FS_AddElement DEF IInv, CountIsLive, task_spawn
<1>3. ASSUME NEW next \in Slot, yield(next) PROVE CountIsLive'
    BY <1>3, LiveAfter DEF IInv, CountIsLive, yield
<1>4. ASSUME NEW next \in Slot, task_exit(next) PROVE CountIsLive'
    BY <1>1, <1>4, LiveAfter, FS_RemoveElement DEF IInv, CountIsLive, task_exit
<1>5. ASSUME root_exit \/ UNCHANGED vars PROVE CountIsLive'
    BY <1>5 DEF IInv, CountIsLive, Live, root_exit, vars, taskVars
<1>6. QED
    BY <1>2, <1>3, <1>4, <1>5 DEF Next, HaltLoop

LEMMA PidsStep == IInv /\ [Next]_vars => PidsUnique'
<1> SUFFICES ASSUME IInv, [Next]_vars PROVE PidsUnique'
    OBVIOUS
<1>1. ASSUME NEW t \in Slot, NEW s \in Stacks, task_spawn(t, s) PROVE PidsUnique'
    <2>1. \A u \in Slot : pid'[u] = IF u = t THEN nextPid ELSE pid[u]
        BY <1>1 DEF task_spawn, AssignPid, IInv, TypeOK
    <2>2. \A u \in Slot : pid[u] < nextPid /\ pid[u] \in Nat /\ nextPid \in Nat /\ nextPid > 0
        BY DEF IInv, TypeOK
    <2>3. Live' = Live \cup {t} /\ Live \subseteq Slot
        BY <1>1, LiveAfter DEF Live
    <2>4. QED
        BY <2>1, <2>2, <2>3 DEF IInv, PidsUnique
<1>2. ASSUME NEW next \in Slot, yield(next) PROVE PidsUnique'
    BY <1>2, LiveAfter DEF IInv, PidsUnique, yield
<1>3. ASSUME NEW next \in Slot, task_exit(next) PROVE PidsUnique'
    BY <1>3, LiveAfter DEF IInv, PidsUnique, task_exit
<1>4. ASSUME root_exit \/ UNCHANGED vars PROVE PidsUnique'
    BY <1>4 DEF IInv, PidsUnique, Live, root_exit, vars, taskVars
<1>5. QED
    BY <1>1, <1>2, <1>3, <1>4 DEF Next, HaltLoop

LEMMA ContextStep == IInv /\ [Next]_vars => ContextOwned'
<1> SUFFICES ASSUME IInv, [Next]_vars PROVE ContextOwned'
    OBVIOUS
<1> USE SlotFacts
<1>1. ASSUME NEW t \in Slot, NEW s \in Stacks, task_spawn(t, s) PROVE ContextOwned'
    <2>1. t # running
        BY <1>1, LiveAfter DEF IInv, OneRunning, TypeOK, Live
    <2>2. QED
        BY <1>1, <2>1 DEF IInv, TypeOK, ContextOwned, Ready, task_spawn, AssignPid
<1>2. ASSUME NEW next \in Slot, yield(next) PROVE ContextOwned'
    BY <1>2 DEF IInv, TypeOK, ContextOwned, Ready, yield, SwitchFrom, Picks
<1>3. ASSUME NEW next \in Slot, task_exit(next) PROVE ContextOwned'
    BY <1>3, ExitTarget DEF IInv, TypeOK, ContextOwned, Ready, task_exit
<1>4. ASSUME root_exit \/ UNCHANGED vars PROVE ContextOwned'
    BY <1>4 DEF IInv, ContextOwned, Ready, root_exit, vars, taskVars
<1>5. QED
    BY <1>1, <1>2, <1>3, <1>4 DEF Next, HaltLoop

LEMMA StacksStep == IInv /\ [Next]_vars => StacksOwned'
<1> SUFFICES ASSUME IInv, [Next]_vars PROVE StacksOwned'
    OBVIOUS
<1> USE SlotFacts, StacksAssumption
<1>1. ASSUME NEW t \in Slot, NEW s \in Stacks, task_spawn(t, s) PROVE StacksOwned'
    <2>1. t \notin Live /\ Live' = Live \cup {t} /\ t # Root /\ stack[t] = NoStack
        BY <1>1, LiveAfter DEF IInv, OneRunning, StacksOwned
    <2>2. \A u \in Slot : stack'[u] = IF u = t THEN s ELSE stack[u]
        BY <1>1 DEF task_spawn, IInv, TypeOK
    <2>3. freeStacks' = freeStacks \ {s} /\ s \in freeStacks /\ s # NoStack
        BY <1>1 DEF task_spawn
    <2>4. \A u \in Slot : stack[u] # s
        BY <2>3 DEF IInv, StacksOwned
    <2>5. freeStacks' = Stacks \ {stack'[u] : u \in Slot}
        BY <2>1, <2>2, <2>3 DEF IInv, StacksOwned
    <2>6. QED
        BY <2>1, <2>2, <2>3, <2>4, <2>5 DEF IInv, StacksOwned
<1>2. ASSUME NEW next \in Slot, yield(next) PROVE StacksOwned'
    BY <1>2, LiveAfter DEF IInv, StacksOwned, yield
<1>3. ASSUME NEW next \in Slot, task_exit(next) PROVE StacksOwned'
    <2>1. running # Root /\ running \in Live /\ Live' = Live \ {running}
        BY <1>3, LiveAfter, ExitTarget
    <2>2. running \in Slot /\ stack[running] \in Stacks /\ stack[running] # NoStack
        BY <2>1 DEF IInv, StacksOwned, TypeOK
    <2>3. \A u \in Slot : stack'[u] = IF u = running THEN NoStack ELSE stack[u]
        BY <1>3 DEF task_exit, FreeStack, IInv, TypeOK
    <2>4. freeStacks' = freeStacks \cup {stack[running]}
        BY <1>3, <2>2 DEF task_exit, FreeStack
    <2>5. freeStacks' = Stacks \ {stack'[u] : u \in Slot}
        BY <2>2, <2>3, <2>4 DEF IInv, StacksOwned
    <2>6. QED
        BY <2>1, <2>2, <2>3, <2>5 DEF IInv, StacksOwned
<1>4. ASSUME root_exit \/ UNCHANGED vars PROVE StacksOwned'
    BY <1>4 DEF IInv, StacksOwned, Live, root_exit, vars, taskVars
<1>5. QED
    BY <1>1, <1>2, <1>3, <1>4 DEF Next, HaltLoop


\* Inserting at the tail keeps the list in spawn order: the new pid is the
\* largest one.
LEMMA RingSpawn ==
    ASSUME IInv, NEW t \in Slot, NEW s \in Stacks, task_spawn(t, s)
    PROVE  RingInOrder'
<1> DEFINE last == prv[Root]
<1>1. t \notin Live /\ Live' = Live \cup {t} /\ Live \subseteq Slot /\ Root \in Live
    BY LiveAfter DEF IInv, OneRunning, Live
<1>2. last \in Live /\ nxt[last] = Root /\ last # t /\ t # Root
    BY <1>1 DEF IInv, RingInOrder
<1>3. head' = Root
      /\ nxt' = [nxt EXCEPT ![last] = t, ![t] = Root]
      /\ prv' = [prv EXCEPT ![t] = last, ![Root] = t]
    BY SlotFacts DEF task_spawn, task_list_insert, IInv, RingInOrder
<1>4. /\ \A u \in Slot : nxt'[u] = IF u = t THEN Root ELSE IF u = last THEN t ELSE nxt[u]
      /\ \A u \in Slot : prv'[u] = IF u = Root THEN t ELSE IF u = t THEN last ELSE prv[u]
    BY <1>1, <1>2, <1>3 DEF IInv, TypeOK
<1>5. \A u \in Slot : pid'[u] = IF u = t THEN nextPid ELSE pid[u]
    BY DEF task_spawn, AssignPid, IInv, TypeOK
<1>6. \A u \in Live : pid[u] \in Nat /\ pid[u] > 0 /\ pid[u] < nextPid
    BY <1>1 DEF IInv, TypeOK, PidsUnique
<1>7. nextPid \in Nat /\ pid[Root] = 1
    BY <1>1 DEF IInv, TypeOK, OneRunning, RootPid
<1>8. \A u \in Live : pid[u] <= pid[last]
    BY <1>2, <1>6, <1>7 DEF IInv, RingInOrder
<1>9. \A u \in Live : nxt[u] = Root => u = last
    BY <1>1 DEF IInv, RingInOrder
<1>10. \A u \in Live : nxt[u] \in Live /\ prv[u] \in Live /\ prv[nxt[u]] = u /\ nxt[prv[u]] = u
    BY DEF IInv, RingInOrder
<1>11. ASSUME NEW u \in Live'
       PROVE  /\ nxt'[u] \in Live' /\ prv'[u] \in Live'
              /\ prv'[nxt'[u]] = u /\ nxt'[prv'[u]] = u
    BY <1>1, <1>2, <1>4, <1>9, <1>10
<1>12. ASSUME NEW u \in Live'
       PROVE  \/ /\ nxt'[u] = Root
                 /\ \A v \in Live' : pid'[v] <= pid'[u]
              \/ /\ pid'[nxt'[u]] > pid'[u]
                 /\ \A v \in Live' : pid'[v] <= pid'[u] \/ pid'[v] >= pid'[nxt'[u]]
    <2>1. CASE u = t
        BY <1>1, <1>4, <1>5, <1>6, <1>7, <2>1
    <2>2. CASE u = last
        BY <1>1, <1>2, <1>4, <1>5, <1>6, <1>7, <1>8, <2>2
    <2>3. CASE u # t /\ u # last
        <3>1. u \in Live /\ nxt'[u] = nxt[u] /\ nxt[u] \in Live /\ nxt[u] # Root /\ nxt[u] # t
            BY <1>1, <1>4, <1>9, <1>10, <2>3
        <3>2. /\ pid[nxt[u]] > pid[u]
              /\ \A v \in Live : pid[v] <= pid[u] \/ pid[v] >= pid[nxt[u]]
            BY <3>1 DEF IInv, RingInOrder
        <3>3. pid'[u] = pid[u] /\ pid'[nxt[u]] = pid[nxt[u]] /\ pid'[t] = nextPid
            BY <1>1, <1>5, <2>3, <3>1
        <3>4. \A v \in Live' : pid'[v] <= pid'[u] \/ pid'[v] >= pid'[nxt[u]]
            BY <1>1, <1>5, <1>6, <1>7, <3>1, <3>2, <3>3
        <3>5. QED
            BY <3>1, <3>2, <3>3, <3>4
    <2>4. QED
        BY <2>1, <2>2, <2>3
<1>13. QED
    BY <1>3, <1>11, <1>12 DEF RingInOrder

\* Unlinking a task other than root joins its neighbours, which are
\* consecutive in spawn order once it is gone.
LEMMA RingExit ==
    ASSUME IInv, NEW next \in Slot, task_exit(next)
    PROVE  RingInOrder'
<1> DEFINE t == running
           p == prv[running]
           n == nxt[running]
<1>1. t # Root /\ t \in Live /\ Live' = Live \ {t} /\ Live \subseteq Slot /\ Root \in Live
    BY ExitTarget, LiveAfter DEF IInv, OneRunning, Live
<1>2. \A u \in Live : nxt[u] \in Live /\ prv[u] \in Live /\ prv[nxt[u]] = u /\ nxt[prv[u]] = u
    BY DEF IInv, RingInOrder
<1>3. \A u \in Live : pid[u] \in Nat
    BY <1>1 DEF IInv, TypeOK
<1>4. \A u \in Live : \/ /\ nxt[u] = Root
                         /\ \A v \in Live : pid[v] <= pid[u]
                      \/ /\ pid[nxt[u]] > pid[u]
                         /\ \A v \in Live : pid[v] <= pid[u] \/ pid[v] >= pid[nxt[u]]
    BY DEF IInv, RingInOrder
<1>5. n # t /\ p # t
    BY <1>1, <1>2, <1>3, <1>4
<1>6. head' = Root
      /\ nxt' = [nxt EXCEPT ![p] = n]
      /\ prv' = [prv EXCEPT ![n] = p]
    BY <1>1, <1>5 DEF task_exit, task_list_remove, IInv, RingInOrder
<1>7. /\ \A u \in Slot : nxt'[u] = IF u = p THEN n ELSE nxt[u]
      /\ \A u \in Slot : prv'[u] = IF u = n THEN p ELSE prv[u]
    BY <1>1, <1>2, <1>6 DEF IInv, TypeOK
<1>8. pid' = pid
    BY DEF task_exit
<1>9. ASSUME NEW u \in Live'
      PROVE  /\ nxt'[u] \in Live' /\ prv'[u] \in Live'
             /\ prv'[nxt'[u]] = u /\ nxt'[prv'[u]] = u
    BY <1>1, <1>2, <1>5, <1>7
<1>10. ASSUME NEW u \in Live'
       PROVE  \/ /\ nxt'[u] = Root
                 /\ \A v \in Live' : pid'[v] <= pid'[u]
              \/ /\ pid'[nxt'[u]] > pid'[u]
                 /\ \A v \in Live' : pid'[v] <= pid'[u] \/ pid'[v] >= pid'[nxt'[u]]
    <2>1. CASE u # p
        BY <1>1, <1>4, <1>7, <1>8, <2>1
    <2>2. CASE u = p
        <3>1. pid[t] > pid[p] /\ \A v \in Live : pid[v] <= pid[p] \/ pid[v] >= pid[t]
            BY <1>1, <1>2, <1>4
        <3>2. \A v \in Live' : pid[v] # pid[t]
            BY <1>1 DEF IInv, PidsUnique
        <3>3. CASE n = Root /\ \A v \in Live : pid[v] <= pid[t]
            BY <1>1, <1>2, <1>3, <1>7, <1>8, <2>2, <3>1, <3>2, <3>3
        <3>4. CASE /\ pid[n] > pid[t]
                   /\ \A v \in Live : pid[v] <= pid[t] \/ pid[v] >= pid[n]
            BY <1>1, <1>2, <1>3, <1>7, <1>8, <2>2, <3>1, <3>2, <3>4
        <3>5. QED
            BY <1>1, <1>4, <3>3, <3>4
    <2>3. QED
        BY <2>1, <2>2
<1>11. QED
    BY <1>6, <1>9, <1>10 DEF RingInOrder

LEMMA RingStep == IInv /\ [Next]_vars => RingInOrder'
<1> SUFFICES ASSUME IInv, [Next]_vars PROVE RingInOrder'
    OBVIOUS
<1>1. ASSUME NEW next \in Slot, yield(next) PROVE RingInOrder'
    BY <1>1, LiveAfter DEF IInv, RingInOrder, yield, listVars
<1>2. ASSUME root_exit \/ UNCHANGED vars PROVE RingInOrder'
    BY <1>2 DEF IInv, RingInOrder, Live, root_exit, vars, taskVars, listVars
<1>3. QED
    BY <1>1, <1>2, RingSpawn, RingExit DEF Next, HaltLoop

-----------------------------------------------------------------------------
(* The theorems. *)

LEMMA InvInit == Init => IInv
<1> SUFFICES ASSUME Init PROVE IInv
    OBVIOUS
<1> USE SlotFacts, TypeInit
<1>1. Live = {Root} /\ Ready = {}
    BY DEF Init, Live, Ready
<1>2. OneRunning
    BY <1>1 DEF Init, OneRunning
<1>3. CountIsLive
    BY <1>1, FS_Singleton DEF Init, CountIsLive
<1>4. PidsUnique
    BY <1>1 DEF Init, PidsUnique, RootPid
<1>5. ContextOwned
    BY <1>1 DEF Init, ContextOwned
<1>6. StacksOwned
    BY <1>1, StacksAssumption DEF Init, StacksOwned
<1>7. RingInOrder
    BY <1>1 DEF Init, RingInOrder, RootPid
<1>8. QED
    BY <1>2, <1>3, <1>4, <1>5, <1>6, <1>7 DEF IInv

LEMMA InvStep == IInv /\ [Next]_vars => IInv'
    BY TypeStep, OneRunningStep, CountStep, PidsStep, ContextStep, StacksStep,
       RingStep DEF IInv

\* In every reachable state all the invariants of the scheduler hold.
THEOREM InvariantHolds == Spec => []IInv
    BY InvInit, InvStep, PTL DEF Spec

\* The scheduler is type correct.
THEOREM TypeCorrect == Spec => []TypeOK
<1>1. IInv => TypeOK
    BY DEF IInv
<1>2. QED
    BY <1>1, InvariantHolds, PTL

\* The processor always executes the task the table names, with the registers
\* and the stack of that task, and no stack is lost or shared.
THEOREM ContextAndStackSafety ==
    Spec => []ContextsExact
<1>1. IInv => ContextsExact
    BY DEF IInv, ContextsExact
<1>2. QED
    BY <1>1, InvariantHolds, PTL

\* task_count, the pids and the list agree with the table.
THEOREM TableConsistent ==
    Spec => []TableExact
<1>1. IInv => TableExact
    BY DEF IInv, TableExact
<1>2. QED
    BY <1>1, InvariantHolds, PTL

\* A pid that is not alive comes alive only by being handed out as next_pid.
THEOREM PidsNeverReturn == Spec => NoResurrection
<1> DEFINE A == /\ nextPid <= nextPid'
                /\ \A p \in LivePids' \ LivePids : nextPid <= p /\ p < nextPid'
<1>1. ASSUME IInv, [Next]_vars PROVE [A]_vars
    <2>1. ASSUME NEW t \in Slot, NEW s \in Stacks, task_spawn(t, s) PROVE A
        <3>1. nextPid \in Nat /\ nextPid' = nextPid + 1
            BY <1>1, <2>1 DEF IInv, TypeOK, task_spawn, AssignPid
        <3>2. \A u \in Slot : pid'[u] = IF u = t THEN nextPid ELSE pid[u]
            BY <1>1, <2>1 DEF task_spawn, AssignPid, IInv, TypeOK
        <3>3. Live' = Live \cup {t} /\ Live \subseteq Slot
            BY <1>1, <2>1, LiveAfter DEF Live
        <3>4. LivePids' \subseteq LivePids \cup {nextPid}
            BY <3>2, <3>3 DEF LivePids
        <3>5. QED
            BY <3>1, <3>4
    <2>2. ASSUME NEW next \in Slot, yield(next) \/ task_exit(next) PROVE A
        <3>1. Live' \subseteq Live /\ pid' = pid /\ nextPid' = nextPid /\ nextPid \in Nat
            BY <1>1, <2>2, LiveAfter DEF IInv, TypeOK, yield, task_exit
        <3>2. QED
            BY <3>1 DEF LivePids
    <2>3. ASSUME root_exit PROVE A
        BY <1>1, <2>3 DEF IInv, TypeOK, root_exit, taskVars, LivePids, Live
    <2>4. QED
        BY <1>1, <2>1, <2>2, <2>3 DEF Next, HaltLoop
<1>2. QED
    BY <1>1, InvariantHolds, PTL DEF Spec, NoResurrection

\* Every hand-over of the CPU moves it strictly closer to each READY task it
\* passes over: bounded waiting for any number of tasks.
THEOREM BoundedWaiting == Spec => EverCloser
<1> DEFINE A == running' # running =>
                  \A t \in Ready : \/ t = running'
                                   \/ Distance(running', t) < Distance(running, t)
<1>1. ASSUME IInv, [Next]_vars PROVE [A]_vars
    <2>1. ASSUME NEW next \in Slot, Picks(next), running' = next PROVE A
        <3> SUFFICES ASSUME NEW t \in Ready, t # next
                     PROVE  Distance(next, t) < Distance(running, t)
            BY <2>1
        <3>1. t \in Slot /\ next \in Slot /\ running \in Slot /\ t # running /\ next # running
            BY <1>1, <2>1 DEF IInv, TypeOK, OneRunning, Ready, Picks
        <3>2. Distance(running, next) <= Distance(running, t)
            BY <2>1 DEF Picks
        <3>3. QED
            BY <3>1, <3>2, MaxTasksAssumption DEF Distance, Slot
    <2>2. ASSUME NEW next \in Slot, yield(next) PROVE A
        BY <2>1, <2>2 DEF yield
    <2>3. ASSUME NEW next \in Slot, task_exit(next) PROVE A
        <3>1. Picks(next)
            <4>1. Ready # {} /\ ~(count <= 1)
                BY <1>1, <2>3, ExitTarget, ExitCount
            <4>2. QED
                BY <2>3, <4>1 DEF task_exit, PicksNone
        <3>2. QED
            BY <2>1, <2>3, <3>1 DEF task_exit
    <2>4. ASSUME (\E t \in Slot, s \in Stacks : task_spawn(t, s)) \/ root_exit PROVE A
        BY <2>4 DEF task_spawn, root_exit, taskVars
    <2>5. QED
        BY <1>1, <2>2, <2>3, <2>4 DEF Next, HaltLoop
<1>2. QED
    BY <1>1, InvariantHolds, PTL DEF Spec, EverCloser

=============================================================================
