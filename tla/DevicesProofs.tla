---------------------------- MODULE DevicesProofs ----------------------------
(***************************************************************************)
(* Proofs about the drivers of the USB host controllers and the            *)
(* enumeration above them, the clock, the device file system and the       *)
(* free-list allocator, each with the invariant it takes.                  *)
(*                                                                         *)
(* Induction over numbers is done with sets and functions as data: UpTo    *)
(* has the set of the numbers that were reached, LoopExists the values of  *)
(* a loop, which a recursive function of the models is then equal to.      *)
(***************************************************************************)
EXTENDS UsbCore, Clock, Dev, Malloc, FiniteSetTheorems, SequenceTheorems,
        WellFoundedInduction, TLAPS

-----------------------------------------------------------------------------
(* Induction, loops and sequences. *)

Below == {ss \in Nat \X Nat : ss[1] < ss[2]}

\* There is no endless descent among the naturals.
LEMMA BelowWellFounded == IsWellFoundedOn(Below, Nat)
BY NatLessThanWellFounded DEF Below, OpToRel

\* Induction up to n, with the set of the numbers it has reached as data.
LEMMA UpTo ==
    ASSUME NEW n \in Nat, NEW T, 0 \in T, \A i \in 1 .. n : i - 1 \in T => i \in T
    PROVE  \A i \in 0 .. n : i \in T
<1> DEFINE bad == {i \in 0 .. n : i \notin T}
<1>1. SUFFICES ASSUME bad # {}
               PROVE  FALSE
    OBVIOUS
<1>2. PICK m \in bad : \A k \in bad : ~(<<k, m>> \in Below)
  <2>1. bad \subseteq Nat
    OBVIOUS
  <2> HIDE DEF bad
  <2> QED
    BY <1>1, <2>1, BelowWellFounded, WFMin
<1>3. m \in 0 .. n /\ m \notin T /\ m # 0
    BY <1>2
<1>4. m - 1 \in Nat /\ m - 1 \in 0 .. n /\ m \in 1 .. n /\ m \in Nat
    BY <1>3
<1>5. m - 1 \notin bad
  <2>1. <<m - 1, m>> \in Below
    <3> HIDE DEF bad
    <3>1. m - 1 < m
        BY <1>4
    <3> QED
        BY <1>4, <3>1 DEF Below
  <2> HIDE DEF bad
  <2> QED
    BY <1>2, <2>1, Zenon
<1> QED
    BY <1>3, <1>4, <1>5

\* The values f[i] of a loop of n steps: each step is a function of the value
\* before it.
IsLoop(f, n, S, base, step) ==
    /\ f \in [0 .. n -> S] /\ f[0] = base
    /\ \A i \in 1 .. n : f[i] = step[i][f[i - 1]]

\* Every loop has its values.
LEMMA LoopExists ==
    ASSUME NEW n \in Nat, NEW S, NEW base \in S, NEW step \in [1 .. n -> [S -> S]]
    PROVE  \E f : IsLoop(f, n, S, base, step)
<1> DEFINE Good(f, m) == f \in [0 .. m -> S] /\ f[0] = base
                         /\ \A i \in 1 .. m : f[i] = step[i][f[i - 1]]
           T == {m \in 0 .. n : \E f \in [0 .. m -> S] : Good(f, m)}
<1>1. 0 \in T
  <2> DEFINE f == [i \in 0 .. 0 |-> base]
  <2>1. Good(f, 0)
    OBVIOUS
  <2>2. f \in [0 .. 0 -> S] /\ 0 \in 0 .. n
    OBVIOUS
  <2> HIDE DEF f
  <2> QED
    BY <2>1, <2>2
<1>2. ASSUME NEW m \in 1 .. n, m - 1 \in T
      PROVE  m \in T
  <2>1. PICK f \in [0 .. m - 1 -> S] : Good(f, m - 1)
    BY <1>2
  <2> DEFINE v == step[m][f[m - 1]]
             g == [i \in 0 .. m |-> IF i = m THEN v ELSE f[i]]
  <2>2. m - 1 \in 0 .. m - 1 /\ m \in 1 .. n /\ m \in Nat \ {0}
    OBVIOUS
  <2>3. f[m - 1] \in S
    BY <2>1, <2>2
  <2>4. v \in S
    BY <2>2, <2>3
  <2> HIDE DEF v
  <2>5. g \in [0 .. m -> S] /\ g[0] = base
    BY <2>1, <2>2, <2>4
  <2>6. \A i \in 0 .. m - 1 : g[i] = f[i]
    BY <2>2
  <2>7. ASSUME NEW i \in 1 .. m
        PROVE  g[i] = step[i][g[i - 1]]
    <3>1. i - 1 \in 0 .. m - 1
        BY <2>2
    <3>2. CASE i = m
        BY <2>2, <2>6, <3>1, <3>2 DEF v
    <3>3. CASE i # m
      <4>1. i \in 1 .. m - 1 /\ i \in 0 .. m - 1
        BY <2>2, <3>3
      <4> QED
        BY <2>1, <2>6, <3>1, <4>1
    <3> QED
        BY <3>2, <3>3
  <2> HIDE DEF g
  <2>8. Good(g, m)
    BY <2>5, <2>7
  <2>9. \E h \in [0 .. m -> S] : Good(h, m)
    BY <2>5, <2>8, Zenon
  <2> QED
    BY <2>9
<1> HIDE DEF T
<1>3. \A m \in 0 .. n : m \in T
  <2>1. \A m \in 1 .. n : m - 1 \in T => m \in T
    BY <1>2
  <2> QED
    BY <1>1, <2>1, UpTo
<1> QED
    BY <1>3 DEF T, IsLoop

\* A set of naturals that is not empty has a least element.
LEMMA LeastIsThere ==
    ASSUME NEW S \in SUBSET Nat, S # {}
    PROVE  \E m \in S : \A y \in S : m <= y
<1>1. PICK m \in S : \A y \in S : ~(<<y, m>> \in Below)
    BY BelowWellFounded, WFMin
<1>2. \A y \in S : y < m => <<y, m>> \in Below
    BY DEF Below
<1>3. \A y \in S : ~(y < m)
    BY <1>1, <1>2, Zenon
<1>4. \A y \in S : m <= y
    BY <1>3
<1> QED
    BY <1>4

\* The entries from i to j - 1 replaced by one.
Spliced(s, i, j, e) == SubSeq(s, 1, i - 1) \o <<e>> \o SubSeq(s, j, Len(s))

IsSpliced(r, S, s, i, j, e) ==
    /\ r \in Seq(S) /\ Len(r) = i + (Len(s) + 1 - j)
    /\ \A k \in 1 .. i + (Len(s) + 1 - j) :
         r[k] = IF k < i THEN s[k] ELSE IF k = i THEN e ELSE s[k - i - 1 + j]

\* What each entry of a sequence spliced that way is.
LEMMA SpliceMoves ==
    ASSUME NEW S, NEW s \in Seq(S), NEW i \in 1 .. Len(s) + 1, NEW j \in i .. Len(s) + 1,
           NEW e \in S
    PROVE  IsSpliced(Spliced(s, i, j, e), S, s, i, j, e)
<1> DEFINE n == Len(s)
           a == SubSeq(s, 1, i - 1)
           b == SubSeq(s, j, n)
           c == a \o <<e>>
           r == c \o b
<1>1. /\ n \in Nat /\ i \in Nat /\ j \in Nat /\ 1 <= i /\ i <= j /\ j <= n + 1
      /\ \A k \in 1 .. n : s[k] \in S
    OBVIOUS
<1>2. a \in Seq(S) /\ Len(a) = i - 1 /\ \A k \in 1 .. i - 1 : a[k] = s[k]
  <2> HIDE DEF n
  <2>1. i - 1 \in Int /\ \A k \in 1 .. i - 1 : s[k] \in S
    BY <1>1
  <2> QED
    BY <1>1, <2>1, SubSeqProperties, SMT
<1>3. b \in Seq(S) /\ Len(b) = n + 1 - j /\ \A k \in 1 .. n + 1 - j : b[k] = s[k + j - 1]
  <2> HIDE DEF n
  <2>1. \A k \in j .. n : s[k] \in S
    BY <1>1
  <2>2. b \in Seq(S)
    BY <1>1, <2>1, SubSeqProperties
  <2>3. Len(b) = IF j <= n THEN n - j + 1 ELSE 0
    BY <1>1, <2>1, SubSeqProperties
  <2>4. \A k \in 1 .. n - j + 1 : b[k] = s[j + k - 1]
    BY <1>1, <2>1, SubSeqProperties
  <2> HIDE DEF b
  <2> QED
    BY <1>1, <2>2, <2>3, <2>4
<1> HIDE DEF n, a, b
<1>4. /\ c \in Seq(S) /\ Len(c) = i
      /\ \A k \in 1 .. i : c[k] = IF k < i THEN s[k] ELSE e
  <2>1. <<e>> \in Seq(S) /\ Len(<<e>>) = 1 /\ <<e>>[1] = e
    OBVIOUS
  <2> DEFINE one == <<e>>
  <2> HIDE DEF one
  <2>2. one \in Seq(S) /\ Len(one) = 1 /\ one[1] = e
    BY <2>1 DEF one
  <2>3. /\ a \o one \in Seq(S) /\ Len(a \o one) = Len(a) + Len(one)
        /\ \A k \in 1 .. Len(a) + Len(one) :
             (a \o one)[k] = IF k <= Len(a) THEN a[k] ELSE one[k - Len(a)]
    BY <1>2, <2>2, ConcatProperties
  <2>4. c = a \o one
    BY DEF one
  <2> HIDE DEF c
  <2>5. Len(c) = i
    BY <1>1, <1>2, <2>2, <2>3, <2>4
  <2>6. ASSUME NEW k \in 1 .. i
        PROVE  c[k] = IF k < i THEN s[k] ELSE e
    <3>1. c[k] = IF k <= i - 1 THEN a[k] ELSE one[k - (i - 1)]
        BY <1>1, <1>2, <2>2, <2>3, <2>4
    <3>2. CASE k < i
        BY <1>1, <1>2, <3>1, <3>2
    <3>3. CASE ~(k < i)
      <4>1. ~(k <= i - 1) /\ k - (i - 1) = 1
        BY <1>1, <3>3
      <4> QED
        BY <2>2, <3>1, <3>3, <4>1
    <3> QED
        BY <3>2, <3>3
  <2> QED
    BY <2>3, <2>4, <2>5, <2>6
<1> HIDE DEF c
<1>5. /\ r \in Seq(S) /\ Len(r) = Len(c) + Len(b)
      /\ \A k \in 1 .. Len(c) + Len(b) : r[k] = IF k <= Len(c) THEN c[k] ELSE b[k - Len(c)]
    BY <1>3, <1>4, ConcatProperties
<1> HIDE DEF r
<1>6. Len(r) = i + (n + 1 - j)
    BY <1>1, <1>3, <1>4, <1>5
<1>7. ASSUME NEW k \in 1 .. i + (n + 1 - j)
      PROVE  r[k] = IF k < i THEN s[k] ELSE IF k = i THEN e ELSE s[k - i - 1 + j]
  <2>1. r[k] = IF k <= i THEN c[k] ELSE b[k - i]
    BY <1>1, <1>3, <1>4, <1>5
  <2>2. CASE k <= i
    BY <1>1, <1>4, <2>1, <2>2
  <2>3. CASE ~(k <= i)
    <3>1. k - i \in 1 .. n + 1 - j /\ (k - i) + j - 1 = k - i - 1 + j /\ ~(k < i) /\ k # i
        BY <1>1, <2>3
    <3> QED
        BY <1>3, <2>1, <2>3, <3>1
  <2> QED
    BY <2>2, <2>3
<1> QED
    BY <1>5, <1>6, <1>7 DEF Spliced, IsSpliced, r, c, a, b, n

\* Taking the entry out of a sequence moves those after it down by one.
LEMMA RemoveAtMoves ==
    ASSUME NEW S, NEW s \in Seq(S), NEW i \in 1 .. Len(s)
    PROVE  /\ RemoveAt(s, i) \in Seq(S) /\ Len(RemoveAt(s, i)) = Len(s) - 1
           /\ \A k \in 1 .. Len(s) - 1 : RemoveAt(s, i)[k] = s[IF k < i THEN k ELSE k + 1]
<1> DEFINE n == Len(s)
           a == SubSeq(s, 1, i - 1)
           b == SubSeq(s, i + 1, n)
           r == RemoveAt(s, i)
<1>1. n \in Nat /\ i \in Nat /\ 1 <= i /\ i <= n /\ \A k \in 1 .. n : s[k] \in S
    OBVIOUS
<1>2. r = a \o b
    BY DEF RemoveAt
<1>3. a \in Seq(S) /\ Len(a) = i - 1 /\ \A k \in 1 .. i - 1 : a[k] = s[k]
  <2> HIDE DEF n
  <2>1. i - 1 \in Int /\ \A k \in 1 .. i - 1 : s[k] \in S
    BY <1>1
  <2> QED
    BY <1>1, <2>1, SubSeqProperties, SMT
<1>4. b \in Seq(S) /\ Len(b) = n - i /\ \A k \in 1 .. n - i : b[k] = s[i + k]
  <2> HIDE DEF n
  <2>1. i + 1 \in Int /\ \A k \in i + 1 .. n : s[k] \in S
    BY <1>1
  <2>2. b \in Seq(S)
    BY <1>1, <2>1, SubSeqProperties
  <2>3. Len(b) = IF i + 1 <= n THEN n - (i + 1) + 1 ELSE 0
    BY <1>1, <2>1, SubSeqProperties
  <2>4. \A k \in 1 .. n - (i + 1) + 1 : b[k] = s[(i + 1) + k - 1]
    BY <1>1, <2>1, SubSeqProperties
  <2> HIDE DEF b
  <2> QED
    BY <1>1, <2>2, <2>3, <2>4
<1> HIDE DEF n, a, b, r
<1>5. r \in Seq(S) /\ Len(r) = n - 1
  <2>1. a \o b \in Seq(S) /\ Len(a \o b) = Len(a) + Len(b)
    BY <1>3, <1>4, ConcatProperties
  <2> QED
    BY <1>1, <1>2, <1>3, <1>4, <2>1
<1>6. ASSUME NEW k \in 1 .. n - 1
      PROVE  r[k] = s[IF k < i THEN k ELSE k + 1]
  <2>1. \A m \in 1 .. Len(a) + Len(b) : (a \o b)[m] = IF m <= Len(a) THEN a[m] ELSE b[m - Len(a)]
    BY <1>3, <1>4
  <2>2. r[k] = IF k <= i - 1 THEN a[k] ELSE b[k - (i - 1)]
    BY <1>1, <1>2, <1>3, <1>4, <2>1
  <2>3. CASE k < i
    BY <1>1, <1>3, <2>2, <2>3
  <2>4. CASE ~(k < i)
    <3>1. k - (i - 1) \in 1 .. n - i /\ i + (k - (i - 1)) = k + 1 /\ ~(k <= i - 1)
        BY <1>1, <2>4
    <3> QED
        BY <1>4, <2>2, <2>4, <3>1
  <2> QED
    BY <2>3, <2>4
<1> QED
    BY <1>5, <1>6 DEF n, r

-----------------------------------------------------------------------------
(* HostController. *)

Pids == {"none", "setup", "data", "status", "endpoint"}
Statuses == {"zero", "active", "ok", "error", "nak"}
Tds == [pid : Pids, toggle : 0 .. 1, next : {0}, status : Statuses]
Fetched == [td : 0 .. PoolSize, link : {0}, pid : Pids, stale : BOOLEAN]

\* Where the driver is between the taking and the freeing of its descriptors.
Busy == {"build", "queue", "wait", "judge", "close", "free"}
Polling == {"wait", "judge", "close"}

\* All the stages of a transfer share this one.
Mine == tds["status"]

\* No descriptor leads to another, because the stages share one.
HostTypes ==
    /\ hc_kind \in {"none", "uhci", "ehci"}
    /\ hc_pc \in {"off", "idle"} \cup Busy
    /\ pool \in [Descriptors -> Tds] /\ tds \in [Stages -> 0 .. PoolSize]
    /\ queue \in 0 .. PoolSize /\ running \in Fetched
    /\ timeout \in Int /\ toggle \in 0 .. 1 /\ devToggle \in 0 .. 1
    /\ lateWritten \subseteq Descriptors

CallRight ==
    IF hc_pc \in Busy
    THEN /\ Mine \in Descriptors /\ tds[First] = Mine
         /\ \A s \in Stages : tds[s] \in {0, Mine}
         /\ call.op \in {"control", "transfer"}
         /\ call.op = "control" /\ call.data => tds["data"] = Mine
    ELSE tds = NoTds

\* A descriptor that is not zero is that of the transfer, or was written late.
PoolRight ==
    /\ \A d \in Descriptors : pool[d] # Unused => d \in lateWritten \/ (hc_pc \in Busy /\ d = Mine)
    /\ hc_pc = "off" => pool = [d \in Descriptors |-> Unused]
    /\ \A d \in Descriptors : pool[d].status = "nak" => hc_kind = "uhci"
    /\ hc_pc \in Busy \ {"build"} =>
         pool[Mine].status # "zero" /\ (pool[Mine].pid = "endpoint" <=> call.op = "transfer")

\* The queue and the controller are at the descriptor of the transfer, or the
\* controller is at one that was given up.
QueueRight ==
    /\ queue # 0 => hc_pc \in Polling /\ queue = Mine
    /\ running.td = 0 \/ hc_pc = "off" => running = Resting
    /\ running.td # 0 /\ ~running.stale =>
         /\ hc_pc \in Polling /\ running.td = Mine
         /\ pool[Mine].status = "active" /\ running.pid = pool[Mine].pid

\* The device is ahead of the driver while the driver has not yet seen that the
\* report has come.
TogglesRight ==
    /\ hc_pc = "judge" /\ timeout > 0 => pool[Mine].status # "active"
    /\ ~raced =>
         devToggle = IF /\ hc_pc \in {"queue", "wait", "judge"} /\ call.op = "transfer"
                        /\ pool[Mine].status = "ok"
                     THEN 1 - toggle ELSE toggle

HostInv == HostTypes /\ CallRight /\ PoolRight /\ QueueRight /\ TogglesRight

\* Min() of a set of naturals that is not empty is the least of them.
LEMMA MinIsThere ==
    ASSUME NEW S \in SUBSET Nat, S # {}
    PROVE  Min(S) \in S
<1>1. \E m \in S : \A y \in S : m <= y
    BY LeastIsThere
<1> QED
    BY <1>1 DEF Min

\* A descriptor is found that is zero, or none.
LEMMA AllocRight ==
    ASSUME HostTypes
    PROVE  alloc_td = 0 \/ (alloc_td \in Descriptors /\ pool[alloc_td] = Unused)
<1> DEFINE zero == {d \in Descriptors : pool[d] = Unused}
<1>1. zero \in SUBSET Nat
    BY HostAssumption DEF Descriptors
<1>2. CASE zero = {}
    BY <1>2 DEF alloc_td
<1>3. CASE zero # {}
    BY <1>1, <1>3, MinIsThere DEF alloc_td
<1> QED
    BY <1>2, <1>3

\* A caller begins a transfer.
LEMMA BeginKeeps ==
    ASSUME HostInv, NEW op \in {"control", "transfer"}, NEW data \in BOOLEAN, Begin(op, data),
           hc_kind # "none"
    PROVE  HostInv'
<1> USE DEF HostInv
<1> DEFINE stages == CASE op = "transfer" -> {"status"}
                       [] data            -> Stages
                       [] OTHER           -> {"setup", "status"}
           got == [s \in Stages |-> IF s \in stages THEN alloc_td ELSE 0]
           short == \E s \in stages : got[s] = 0
<1>0. /\ stages \subseteq Stages /\ "status" \in stages
      /\ op = "control" => "setup" \in stages
      /\ op = "control" /\ data => "data" \in stages
    BY DEF Stages
<1> HIDE DEF stages
<1>1. hc_pc = "idle" /\ tds = NoTds /\ UNCHANGED <<hc_kind, pool, queue, timeout, toggle, running,
                                                   devToggle, lateWritten, raced>>
    BY DEF Begin, CallRight, Busy, hcVars
<1>2. /\ call' = IF short THEN NoCall ELSE [op |-> op, data |-> data]
      /\ tds' = IF short THEN NoTds ELSE got
      /\ hc_pc' = IF short THEN "idle" ELSE "build"
    BY DEF Begin, stages
<1>3. queue = 0 /\ (running.td # 0 => running.stale) /\ (~raced => devToggle = toggle)
    BY <1>1 DEF QueueRight, TogglesRight, Polling
<1>4. CASE short
  <2>1. tds' = NoTds /\ hc_pc' = "idle"
    BY <1>2, <1>4
  <2> QED
    BY <1>1, <1>3, <2>1 DEF HostTypes, CallRight, PoolRight, QueueRight, TogglesRight, Busy,
                            Polling, NoTds
<1>5. CASE ~short
  <2>1. tds' = got /\ hc_pc' = "build" /\ call' = [op |-> op, data |-> data]
    BY <1>2, <1>5
  <2>2. alloc_td # 0
    BY <1>0, <1>5
  <2>3. alloc_td \in Descriptors /\ alloc_td \in 0 .. PoolSize
    BY <2>2, AllocRight DEF Descriptors
  <2>4. Mine' = alloc_td /\ \A s \in Stages : tds'[s] \in {0, alloc_td}
    BY <1>0, <2>1 DEF Mine
  <2>5. CallRight'
    BY <1>0, <2>1, <2>3, <2>4 DEF CallRight, First, Busy
  <2>6. HostTypes'
    <3>1. got \in [Stages -> 0 .. PoolSize]
        BY <2>3, HostAssumption
    <3> HIDE DEF got
    <3> QED
        BY <1>1, <2>1, <3>1 DEF HostTypes, Busy
  <2> QED
    BY <1>1, <1>3, <2>1, <2>5, <2>6 DEF PoolRight, QueueRight, TogglesRight, Busy, Polling
<1> QED
    BY <1>4, <1>5

\* The words of the one descriptor are those of the last stage.
LEMMA BuildKeeps ==
    ASSUME HostInv, Build
    PROVE  HostInv'
<1> USE DEF HostInv
<1>1. /\ hc_pc = "build" /\ hc_pc' = "queue"
      /\ UNCHANGED <<hc_kind, call, tds, queue, timeout, toggle, running, devToggle,
                     lateWritten, raced>>
    BY DEF Build, callVars, hcVars
<1>2. /\ Mine \in Descriptors /\ tds[First] = Mine
      /\ call.op \in {"control", "transfer"}
      /\ call.op = "control" => tds["setup"] = Mine
      /\ call.op = "control" /\ call.data => tds["data"] = Mine
    BY <1>1 DEF CallRight, Busy, First
<1> DEFINE r == IF call.op = "transfer" THEN build_td("endpoint", toggle, 0)
                ELSE build_td("status", 1, 0)
<1>3. pool' = [pool EXCEPT ![Mine] = r]
  <2>1. CASE call.op = "transfer"
    BY <2>1 DEF Build, Mine
  <2>2. CASE call.op = "control" /\ call.data
    BY <1>2, <2>2 DEF Build, Mine, HostTypes
  <2>3. CASE call.op = "control" /\ ~call.data
    BY <1>2, <2>3 DEF Build, Mine, HostTypes
  <2> QED
    BY <1>2, <2>1, <2>2, <2>3
<1>4. /\ r \in Tds /\ r.status = "active" /\ (r.pid = "endpoint" <=> call.op = "transfer")
    BY DEF build_td, Tds, Pids, Statuses, HostTypes
<1> HIDE DEF r
<1>5. Mine' = Mine /\ First' = First
    BY <1>1 DEF Mine, First
<1>6. HostTypes'
    BY <1>1, <1>2, <1>3, <1>4 DEF HostTypes, Busy
<1>7. CallRight'
    BY <1>1, <1>5 DEF CallRight, Busy
<1>8. pool'[Mine] = r /\ \A d \in Descriptors \ {Mine} : pool'[d] = pool[d]
    BY <1>2, <1>3 DEF HostTypes
<1>9. PoolRight'
    BY <1>1, <1>2, <1>4, <1>5, <1>8 DEF PoolRight, Busy
<1>10. QueueRight'
    BY <1>1, <1>5 DEF QueueRight, Polling
<1>11. TogglesRight'
    BY <1>1, <1>4, <1>5, <1>8 DEF TogglesRight
<1> QED
    BY <1>6, <1>7, <1>9, <1>10, <1>11

\* Queueing, looking and judging write no descriptor.
LEMMA LookingKeeps ==
    ASSUME HostInv, Queue \/ Look \/ Judge
    PROVE  HostInv'
<1> USE DEF HostInv
<1>1. UNCHANGED <<hc_kind, call, tds, pool, running, devToggle, lateWritten>>
    BY DEF Queue, Look, Judge, callVars, hcVars
<1>2. hc_pc \in Busy /\ hc_pc' \in Busy /\ hc_pc # "build" /\ hc_pc' # "build"
    BY DEF Queue, Look, Judge, Busy
<1>3. Mine' = Mine /\ First' = First /\ Mine \in Descriptors /\ tds[First] = Mine
    BY <1>1, <1>2 DEF Mine, First, CallRight
<1>4. CallRight'
    BY <1>1, <1>2, <1>3 DEF CallRight
<1>5. PoolRight'
    BY <1>1, <1>2, <1>3 DEF PoolRight, Busy
<1>6. CASE Queue
  <2>1. hc_pc = "queue" /\ hc_pc' = "wait" /\ queue' = Mine /\ timeout' = Looks
        /\ UNCHANGED <<toggle, raced>>
    BY <1>3, <1>6 DEF Queue
  <2>2. HostTypes'
    BY <1>1, <1>2, <1>3, <2>1, HostAssumption DEF HostTypes, Descriptors
  <2>3. QueueRight' /\ TogglesRight'
    BY <1>1, <1>3, <2>1 DEF QueueRight, TogglesRight, Polling
  <2> QED
    BY <1>4, <1>5, <2>2, <2>3
<1>7. CASE Look
  <2>1. /\ hc_pc = "wait" /\ hc_pc' \in {"wait", "judge"} /\ timeout' = timeout - 1
        /\ hc_pc' = "judge" => timeout = 0 \/ pool[Mine].status # "active"
        /\ UNCHANGED <<queue, toggle, raced>>
    BY <1>7 DEF Look, Spent, Status, Mine
  <2>2. HostTypes'
    BY <1>1, <1>2, <2>1 DEF HostTypes
  <2>3. hc_pc' = "judge" /\ timeout' > 0 => pool[Mine].status # "active"
    BY <2>1 DEF HostTypes
  <2>4. QueueRight' /\ TogglesRight'
    BY <1>1, <1>3, <2>1, <2>3 DEF QueueRight, TogglesRight, Polling
  <2> QED
    BY <1>4, <1>5, <2>2, <2>4
<1>8. CASE Judge
  <2>1. /\ hc_pc = "judge" /\ hc_pc' = "close"
        /\ toggle' = IF call.op = "transfer" THEN Toggled(Verdict) ELSE toggle
        /\ raced' = (raced \/ (call.op = "transfer" /\ ~InTime /\ pool[Mine].status = "ok"))
        /\ UNCHANGED <<queue, timeout>>
    BY <1>8 DEF Judge, Status, Mine
  <2>2. HostTypes'
    BY <1>1, <1>2, <2>1 DEF HostTypes, Toggled
  <2>3. QueueRight'
    BY <1>1, <1>3, <2>1 DEF QueueRight, Polling
  <2>4. ASSUME ~raced', call.op = "transfer", pool[Mine].status = "ok"
        PROVE  Verdict = 0
    BY <2>1, <2>4 DEF Verdict, uhci_verdict, ehci_verdict, InTime, Status, Mine
  <2>5. ASSUME ~raced', call.op = "transfer", pool[Mine].status # "ok"
        PROVE  Verdict # 0
    <3>1. pool[Mine].status \in {"active", "error", "nak"}
        BY <1>2, <1>3, <2>5 DEF PoolRight, HostTypes, Tds, Statuses
    <3>2. pool[Mine].status = "nak" => hc_kind = "uhci"
        BY <1>3 DEF PoolRight
    <3>3. pool[Mine].status = "active" => ~InTime
        BY <2>1 DEF TogglesRight, InTime
    <3> QED
        BY <2>5, <3>1, <3>2, <3>3 DEF Verdict, uhci_verdict, ehci_verdict, Status, Mine
  <2>6. TogglesRight'
    BY <1>1, <2>1, <2>4, <2>5 DEF TogglesRight, Toggled
  <2> QED
    BY <1>4, <1>5, <2>2, <2>3, <2>6
<1> QED
    BY <1>6, <1>7, <1>8

\* The driver takes the queue away and gives the descriptors back.
LEMMA ClosingKeeps ==
    ASSUME HostInv, Close \/ free_td
    PROVE  HostInv'
<1> USE DEF HostInv
<1>1. UNCHANGED <<hc_kind, timeout, toggle, devToggle, lateWritten, raced>>
    BY DEF Close, free_td, hcVars
<1>2. CASE Close
  <2>1. /\ hc_pc = "close" /\ hc_pc' = "free" /\ queue' = 0
        /\ running' = [running EXCEPT !.stale = running.td # 0]
        /\ UNCHANGED <<call, tds, pool>>
    BY <1>2 DEF Close, AfterJudging, callVars
  <2>2. running' \in Fetched
    BY <2>1 DEF HostTypes, Fetched
  <2>3. Mine' = Mine /\ First' = First
    BY <2>1 DEF Mine, First
  <2>4. HostTypes' /\ CallRight'
    BY <1>1, <2>1, <2>2, <2>3, HostAssumption DEF HostTypes, CallRight, Busy
  <2>5. PoolRight' /\ TogglesRight'
    BY <1>1, <2>1, <2>3 DEF PoolRight, TogglesRight, Busy
  <2>6. running'.td = running.td /\ running'.stale = (running.td # 0)
    BY <2>1 DEF HostTypes, Fetched
  <2>7. running.td = 0 => running' = Resting
    <3>1. SUFFICES ASSUME running.td = 0 PROVE running' = Resting
        OBVIOUS
    <3>2. running = Resting
        BY <3>1 DEF QueueRight
    <3> QED
        BY <2>1, <3>2 DEF Resting
  <2>8. QueueRight'
    BY <2>1, <2>6, <2>7 DEF QueueRight
  <2> QED
    BY <2>4, <2>5, <2>8
<1>3. CASE free_td
  <2>1. /\ hc_pc = "free" /\ hc_pc' = "idle" /\ tds' = NoTds
        /\ pool' = [d \in Descriptors |-> IF \E s \in Stages : tds[s] = d THEN Unused ELSE pool[d]]
        /\ UNCHANGED <<queue, running>>
    BY <1>3 DEF free_td, hcVars
  <2>2. Mine \in Descriptors /\ \E s \in Stages : tds[s] = Mine
    BY <2>1 DEF CallRight, Busy, Mine, Stages
  <2>3. \A d \in Descriptors : pool'[d] = Unused \/ (d # Mine /\ pool'[d] = pool[d])
    BY <2>1, <2>2
  <2>4. Unused \in Tds /\ Unused.status = "zero"
    BY DEF Unused, Tds, Pids, Statuses
  <2>5. HostTypes'
    BY <1>1, <2>1, <2>4, HostAssumption DEF HostTypes, NoTds, Busy
  <2>6. CallRight'
    BY <2>1 DEF CallRight, Busy
  <2>7. PoolRight'
    BY <1>1, <2>1, <2>3, <2>4 DEF PoolRight, Busy
  <2>8. QueueRight' /\ TogglesRight'
    BY <1>1, <2>1 DEF QueueRight, TogglesRight, Polling
  <2> QED
    BY <2>5, <2>6, <2>7, <2>8
<1> QED
    BY <1>2, <1>3

\* The controller fetches the descriptor at the head of the queue.
LEMMA FetchKeeps ==
    ASSUME HostInv, Fetch
    PROVE  HostInv'
<1> USE DEF HostInv
<1>1. /\ queue # 0 /\ pool[queue].status = "active"
      /\ running' = [td |-> queue, link |-> pool[queue].next, pid |-> pool[queue].pid,
                     stale |-> FALSE]
      /\ UNCHANGED <<hc_kind, hc_pc, call, tds, pool, queue, timeout, toggle, devToggle,
                     lateWritten, raced>>
    BY DEF Fetch, callVars
<1>2. hc_pc \in Polling /\ queue = Mine /\ Mine \in Descriptors
    BY <1>1 DEF QueueRight, CallRight, Polling, Busy
<1>3. pool[queue] \in Tds
    BY <1>2 DEF HostTypes
<1>4. running' \in Fetched
    BY <1>1, <1>3 DEF HostTypes, Fetched, Tds
<1>5. Mine' = Mine /\ First' = First
    BY <1>1 DEF Mine, First
<1>6. HostTypes' /\ CallRight'
    BY <1>1, <1>4, <1>5 DEF HostTypes, CallRight
<1>7. PoolRight' /\ TogglesRight'
    BY <1>1, <1>5 DEF PoolRight, TogglesRight
<1>8. QueueRight'
  <2>1. running'.td = Mine /\ running'.pid = pool[Mine].pid /\ Mine # 0 /\ hc_pc # "off"
    BY <1>1, <1>2, HostAssumption DEF Descriptors, Polling
  <2> QED
    BY <1>1, <1>2, <1>5, <2>1 DEF QueueRight
<1> QED
    BY <1>6, <1>7, <1>8

\* Of what was given up the outcome is written all the same; the toggle of the
\* device follows only what was completed in time.
LEMMA RetireKeeps ==
    ASSUME HostInv, NEW outcome \in Outcomes, Retire(outcome)
    PROVE  HostInv'
<1> USE DEF HostInv
<1> DEFINE moved == outcome = "ok" /\ running.pid = "endpoint"
<1>1. /\ running # Resting /\ running' = Resting
      /\ pool' = [pool EXCEPT ![running.td].status = outcome]
      /\ queue' = IF outcome = "ok" THEN running.link ELSE queue
      /\ devToggle' = IF moved THEN 1 - devToggle ELSE devToggle
      /\ lateWritten' = IF running.stale THEN lateWritten \cup {running.td} ELSE lateWritten
      /\ raced' = (raced \/ running.stale \/ (moved /\ hc_pc = "close"))
      /\ UNCHANGED <<hc_kind, hc_pc, call, tds, timeout, toggle>>
    BY DEF Retire, callVars
<1>2. running.td \in Descriptors /\ running.link = 0 /\ running.stale \in BOOLEAN
    BY <1>1 DEF HostTypes, QueueRight, Fetched, Descriptors
<1>3. /\ outcome \in Statuses \ {"zero", "active"}
      /\ outcome = "nak" => hc_kind = "uhci"
    BY DEF Outcomes, Statuses
<1>4. Mine' = Mine /\ First' = First
    BY <1>1 DEF Mine, First
<1>5. /\ pool' \in [Descriptors -> Tds]
      /\ \A d \in Descriptors \ {running.td} : pool'[d] = pool[d]
      /\ pool'[running.td].status = outcome /\ pool'[running.td].pid = pool[running.td].pid
    BY <1>1, <1>2, <1>3 DEF HostTypes, Tds
<1>6. ~running.stale => /\ hc_pc \in Polling /\ running.td = Mine
                        /\ pool[Mine].status = "active" /\ running.pid = pool[Mine].pid
    BY <1>2 DEF QueueRight, Descriptors
<1>7. hc_pc \in Busy => Mine \in Descriptors
    BY DEF CallRight
<1>8. HostTypes'
  <2>1. Resting \in Fetched
    BY HostAssumption DEF Resting, Fetched, Pids
  <2>2. lateWritten' \subseteq Descriptors
    BY <1>1, <1>2 DEF HostTypes
  <2>3. queue' \in 0 .. PoolSize /\ devToggle' \in 0 .. 1
    BY <1>1, <1>2, HostAssumption DEF HostTypes
  <2> QED
    BY <1>1, <1>5, <2>1, <2>2, <2>3 DEF HostTypes
<1>9. CallRight'
    BY <1>1, <1>4 DEF CallRight
<1>10. hc_pc # "off"
    BY <1>1 DEF QueueRight
<1>11. PoolRight'
  <2>1. \A d \in Descriptors : pool'[d] # Unused => d \in lateWritten' \/ (hc_pc' \in Busy /\ d = Mine')
    BY <1>1, <1>2, <1>4, <1>5, <1>6 DEF PoolRight, Polling, Busy
  <2>2. \A d \in Descriptors : pool'[d].status = "nak" => hc_kind' = "uhci"
    BY <1>1, <1>3, <1>5 DEF PoolRight
  <2>3. hc_pc' \in Busy \ {"build"} =>
          pool'[Mine'].status # "zero" /\ (pool'[Mine'].pid = "endpoint" <=> call'.op = "transfer")
    BY <1>1, <1>2, <1>3, <1>4, <1>5, <1>7 DEF PoolRight
  <2> QED
    BY <1>1, <1>10, <2>1, <2>2, <2>3 DEF PoolRight
<1>12. QueueRight'
    BY <1>1, <1>2, <1>4 DEF QueueRight, Resting
<1>13. TogglesRight'
  <2>1. hc_pc' = "judge" /\ timeout' > 0 => pool'[Mine'].status # "active"
    BY <1>1, <1>3, <1>4, <1>5, <1>7 DEF TogglesRight, Busy
  <2>2. ASSUME ~raced'
        PROVE  /\ ~raced /\ hc_pc \in Polling /\ Mine \in Descriptors
               /\ pool[Mine].status = "active" /\ pool'[Mine].status = outcome
               /\ running.pid = pool[Mine].pid /\ ~(moved /\ hc_pc = "close")
    BY <2>2, <1>1, <1>2, <1>5, <1>6, <1>7 DEF Polling, Busy
  <2>3. ASSUME ~raced'
        PROVE  /\ devToggle = toggle
               /\ moved <=> outcome = "ok" /\ call.op = "transfer"
    BY <2>2, <2>3 DEF TogglesRight, PoolRight, Polling, Busy
  <2>4. ASSUME ~raced'
        PROVE  devToggle' = IF /\ hc_pc' \in {"queue", "wait", "judge"} /\ call'.op = "transfer"
                               /\ pool'[Mine'].status = "ok"
                            THEN 1 - toggle' ELSE toggle'
    BY <2>2, <2>3, <2>4, <1>1, <1>4 DEF Polling
  <2> QED
    BY <2>1, <2>4 DEF TogglesRight
<1> QED
    BY <1>8, <1>9, <1>11, <1>12, <1>13

\* Between transfers every descriptor is free again but for those written late, the
\* queue leads to no free one, and as long as nothing was completed late the toggles
\* of driver and device agree: uhci.c and ehci.c with any number of descriptors and
\* of looks.
THEOREM TransfersKeepOrder == HostSpec => []TransfersExact
<1>1. HostInit => HostInv
  <2> SUFFICES ASSUME HostInit PROVE HostInv
    OBVIOUS
  <2>1. Unused \in Tds /\ Resting \in Fetched
    BY HostAssumption DEF Unused, Tds, Pids, Statuses, Resting, Fetched
  <2>2. HostTypes
    BY <2>1, HostAssumption DEF HostInit, HostTypes, NoTds
  <2>3. hc_pc = "off" /\ pool = [d \in Descriptors |-> Unused] /\ Unused.status = "zero"
    BY DEF HostInit, Unused
  <2>4. PoolRight
    BY <2>3 DEF PoolRight, Busy
  <2>5. CallRight /\ QueueRight /\ TogglesRight
    BY DEF HostInit, CallRight, QueueRight, TogglesRight, Busy, Resting
  <2> QED
    BY <2>2, <2>4, <2>5 DEF HostInv
<1>2. HostInv /\ [HostNext]_hostVars => HostInv'
  <2> SUFFICES ASSUME HostInv, [HostNext]_hostVars PROVE HostInv'
    OBVIOUS
  <2>1. ASSUME NEW kind \in {"none", "uhci", "ehci"}, Started(kind) PROVE HostInv'
    <3>1. /\ hc_pc = "off" /\ hc_pc' = "idle" /\ hc_kind' = kind
          /\ UNCHANGED <<call, tds, pool, queue, timeout, toggle, running, devToggle,
                         lateWritten, raced>>
        BY <2>1 DEF Started, callVars, hcVars
    <3>2. pool = [d \in Descriptors |-> Unused]
        BY <3>1 DEF HostInv, PoolRight
    <3>3. \A d \in Descriptors : pool[d].status = "zero"
        BY <3>2 DEF Unused
    <3> QED
        BY <2>1, <3>1, <3>3 DEF HostInv, HostTypes, CallRight, PoolRight, QueueRight,
                               TogglesRight, Busy, Polling
  <2>2. CASE uhci_init \/ ehci_init \/ no_controller
    BY <2>1, <2>2 DEF uhci_init, ehci_init, no_controller
  <2>3. CASE Build
    BY <2>3, BuildKeeps
  <2>4. CASE Queue \/ Look \/ Judge
    BY <2>4, LookingKeeps
  <2>5. CASE Close \/ free_td
    BY <2>5, ClosingKeeps
  <2>6. CASE uhci_control_transfer \/ ehci_control_transfer
    BY <2>6, BeginKeeps DEF uhci_control_transfer, ehci_control_transfer
  <2>7. CASE uhci_transfer \/ ehci_transfer
    BY <2>7, BeginKeeps DEF uhci_transfer, ehci_transfer
  <2>8. CASE no_transfer \/ UNCHANGED hostVars
    <3>1. UNCHANGED <<hc_kind, hc_pc, call, tds, pool, queue, timeout, toggle, running,
                      devToggle, lateWritten, raced>>
        BY <2>8 DEF no_transfer, hostVars, callVars, hcVars
    <3> QED
        BY <3>1 DEF HostInv, HostTypes, CallRight, PoolRight, QueueRight, TogglesRight, Mine, First
  <2>9. CASE Fetch
    BY <2>9, FetchKeeps
  <2>10. CASE \E outcome \in Outcomes : Retire(outcome)
    BY <2>10, RetireKeeps
  <2> QED
    BY <2>2, <2>3, <2>4, <2>5, <2>6, <2>7, <2>8, <2>9, <2>10
       DEF HostNext, Driver, Calls, Controller
<1>3. HostInv => TransfersExact
  <2> SUFFICES ASSUME HostInv PROVE TransfersExact
    OBVIOUS
  <2> USE DEF HostInv
  <2>1. queue # 0 => pool[queue] # Unused
    <3>1. SUFFICES ASSUME queue # 0 PROVE pool[queue].status # "zero"
        BY DEF Unused
    <3> QED
        BY <3>1 DEF QueueRight, PoolRight, Polling, Busy
  <2>2. hc_pc = "idle" => \A d \in Descriptors : pool[d] # Unused => d \in lateWritten
    BY DEF PoolRight, Busy
  <2>3. TogglesAgree
    BY DEF TogglesAgree, TogglesRight, HostTypes
  <2> QED
    BY <2>1, <2>2, <2>3 DEF TransfersExact, PoolExact
<1> QED
    BY <1>1, <1>2, <1>3, PTL DEF HostSpec

-----------------------------------------------------------------------------
(* UsbCore. *)

Scans == [inTarget : BOOLEAN, ep : Nat, ended : BOOLEAN]

\* One step of the loop over a configuration.
LEMMA PastDescriptorTypes ==
    ASSUME NEW was \in Scans, NEW d \in AnyDescriptor
    PROVE  PastDescriptor(was, d) \in Scans
<1>1. CASE was.ended \/ d.type = "bad"
    BY <1>1 DEF PastDescriptor, Scans
<1>2. CASE ~(was.ended \/ d.type = "bad")
  <2>1. InTarget(was.inTarget, d) \in BOOLEAN
    BY DEF InTarget, Scans, AnyDescriptor
  <2>2. (IF was.ep = 0 /\ was.inTarget /\ Reports(d) THEN d.num ELSE was.ep) \in Nat
    BY DEF Scans, AnyDescriptor
  <2> QED
    BY <1>2, <2>1, <2>2 DEF PastDescriptor, Scans
<1> QED
    BY <1>1, <1>2

\* The loop over the descriptors takes them one by one.
LEMMA ScanSteps ==
    ASSUME NEW cfg \in Seq(AnyDescriptor)
    PROVE  /\ Scan(cfg) \in [0 .. Len(cfg) -> Scans]
           /\ Scan(cfg)[0] = NotYet
           /\ \A i \in 1 .. Len(cfg) : Scan(cfg)[i] = PastDescriptor(Scan(cfg)[i - 1], cfg[i])
<1> DEFINE n == Len(cfg)
           step == [i \in 1 .. n |-> [was \in Scans |-> PastDescriptor(was, cfg[i])]]
           s == Scan(cfg)
<1>1. n \in Nat /\ NotYet \in Scans /\ \A i \in 1 .. n : cfg[i] \in AnyDescriptor
    BY DEF NotYet, Scans
<1> HIDE DEF n
<1>2. step \in [1 .. n -> [Scans -> Scans]]
    BY <1>1, PastDescriptorTypes
<1>3. \A i \in 1 .. n, was \in Scans : step[i][was] = PastDescriptor(was, cfg[i])
    OBVIOUS
<1> HIDE DEF step
<1>4. PICK f : /\ f \in [0 .. n -> Scans] /\ f[0] = NotYet
               /\ \A i \in 1 .. n : f[i] = step[i][f[i - 1]]
  <2>1. \E f : IsLoop(f, n, Scans, NotYet, step)
    BY <1>1, <1>2, LoopExists
  <2> QED
    BY <2>1 DEF IsLoop
<1>5. f = [i \in 0 .. n |-> IF i = 0 THEN NotYet ELSE PastDescriptor(f[i - 1], cfg[i])]
  <2>1. ASSUME NEW i \in 0 .. n
        PROVE  f[i] = IF i = 0 THEN NotYet ELSE PastDescriptor(f[i - 1], cfg[i])
    <3>1. CASE i = 0
        BY <1>4, <3>1
    <3>2. CASE i # 0
      <4>1. i \in 1 .. n /\ i - 1 \in 0 .. n
        BY <1>1, <3>2
      <4> QED
        BY <1>3, <1>4, <3>2, <4>1
    <3> QED
        BY <3>1, <3>2
  <2> QED
    BY <1>4, <2>1
<1>6. s = [i \in 0 .. n |-> IF i = 0 THEN NotYet ELSE PastDescriptor(s[i - 1], cfg[i])]
  <2>1. s = CHOOSE g :
              g = [i \in 0 .. n |-> IF i = 0 THEN NotYet ELSE PastDescriptor(g[i - 1], cfg[i])]
    BY DEF Scan, n
  <2> HIDE DEF s
  <2> QED
    BY <1>5, <2>1
<1> HIDE DEF s
<1>7. s[0] = NotYet
    BY <1>1, <1>6
<1>8. \A i \in 1 .. n : s[i] = PastDescriptor(s[i - 1], cfg[i])
    BY <1>1, <1>6
<1>9. \A i \in 0 .. n : s[i] \in Scans
  <2> DEFINE T == {i \in 0 .. n : s[i] \in Scans}
  <2>1. 0 \in T
    BY <1>1, <1>7
  <2>2. \A i \in 1 .. n : i - 1 \in T => i \in T
    BY <1>1, <1>8, PastDescriptorTypes
  <2> HIDE DEF T
  <2>3. \A i \in 0 .. n : i \in T
    BY <1>1, <2>1, <2>2, UpTo
  <2> QED
    BY <2>3 DEF T
<1> QED
    BY <1>6, <1>7, <1>8, <1>9 DEF s, n

\* What the loop knows when i descriptors are behind it.
LoopKnows(cfg, i, st) ==
    /\ st.ended <=> \E k \in 1 .. i : cfg[k].type = "bad"
    /\ ~st.ended => (st.inTarget <=> OfMouse(cfg, i + 1))
    /\ st.ep = 0 => \A j \in 1 .. i : ~Serves(cfg, j)
    /\ st.ep # 0 => \E j \in 1 .. i : /\ Serves(cfg, j) /\ cfg[j].num = st.ep
                                      /\ \A l \in 1 .. j - 1 : ~Serves(cfg, l)

\* What the loop knows after a descriptor, from what it knew before.
LEMMA LoopLearns ==
    ASSUME NEW cfg \in Seq(AnyDescriptor), NEW i \in 1 .. Len(cfg), NEW was \in Scans,
           LoopKnows(cfg, i - 1, was)
    PROVE  LoopKnows(cfg, i, PastDescriptor(was, cfg[i]))
<1> DEFINE d == cfg[i]
           st == PastDescriptor(was, d)
<1>1. i \in Nat \ {0} /\ i - 1 \in Nat /\ d \in AnyDescriptor /\ st \in Scans
    BY PastDescriptorTypes
<1>2. 1 .. i = (1 .. i - 1) \cup {i}
    BY <1>1
<1>3. CASE was.ended \/ d.type = "bad"
  <2>1. st.ended /\ st.ep = was.ep
    BY <1>3 DEF PastDescriptor, Scans
  <2>2. \E k \in 1 .. i : cfg[k].type = "bad"
    BY <1>2, <1>3 DEF LoopKnows
  <2>3. ~Serves(cfg, i)
    BY <2>2 DEF Serves
  <2> HIDE DEF d, st
  <2>4. st.ep = 0 => \A j \in 1 .. i : ~Serves(cfg, j)
    BY <1>2, <2>1, <2>3 DEF LoopKnows
  <2>5. st.ep # 0 => \E j \in 1 .. i : /\ Serves(cfg, j) /\ cfg[j].num = st.ep
                                       /\ \A l \in 1 .. j - 1 : ~Serves(cfg, l)
    BY <1>2, <2>1 DEF LoopKnows
  <2>6. LoopKnows(cfg, i, st)
    BY <2>1, <2>2, <2>4, <2>5 DEF LoopKnows
  <2> QED
    BY <2>6 DEF d, st
<1>4. CASE ~was.ended /\ d.type # "bad"
  <2>1. st = [inTarget |-> InTarget(was.inTarget, d),
              ep |-> IF was.ep = 0 /\ was.inTarget /\ Reports(d) THEN d.num ELSE was.ep,
              ended |-> FALSE]
    BY <1>4 DEF PastDescriptor
  <2>2. ~st.ended /\ st.inTarget = InTarget(was.inTarget, d)
        /\ st.ep = IF was.ep = 0 /\ was.inTarget /\ Reports(d) THEN d.num ELSE was.ep
    BY <2>1
  <2>3. \A k \in 1 .. i : cfg[k].type # "bad"
    BY <1>2, <1>4 DEF LoopKnows
  <2>4. was.inTarget <=> OfMouse(cfg, i)
    BY <1>1, <1>4 DEF LoopKnows
  <2>5. Serves(cfg, i) <=> was.inTarget /\ Reports(d)
    BY <2>3, <2>4 DEF Serves
  <2>6. st.inTarget <=> OfMouse(cfg, i + 1)
    <3>1. CASE IsInterface(d)
      <4>1. st.inTarget = d.mouse
        BY <2>2, <3>1 DEF InTarget
      <4>2. d.mouse => OfMouse(cfg, i + 1)
        <5>1. i \in 1 .. i + 1 - 1 /\ \A j \in i + 1 .. i + 1 - 1 : FALSE
            BY <1>1
        <5> QED
            BY <3>1, <5>1 DEF OfMouse
      <4>3. OfMouse(cfg, i + 1) => d.mouse
        <5> SUFFICES ASSUME OfMouse(cfg, i + 1)
                     PROVE  d.mouse
            OBVIOUS
        <5>1. PICK k \in 1 .. i + 1 - 1 : /\ IsInterface(cfg[k]) /\ cfg[k].mouse
                                          /\ \A j \in k + 1 .. i + 1 - 1 : ~IsInterface(cfg[j])
            BY DEF OfMouse
        <5>2. k # i => i \in k + 1 .. i + 1 - 1
            BY <1>1
        <5> QED
            BY <3>1, <5>1, <5>2
      <4> QED
        BY <4>1, <4>2, <4>3
    <3>2. CASE ~IsInterface(d)
      <4>1. st.inTarget = was.inTarget
        BY <2>2, <3>2 DEF InTarget
      <4>2. OfMouse(cfg, i) => OfMouse(cfg, i + 1)
        <5> SUFFICES ASSUME OfMouse(cfg, i)
                     PROVE  OfMouse(cfg, i + 1)
            OBVIOUS
        <5>1. PICK k \in 1 .. i - 1 : /\ IsInterface(cfg[k]) /\ cfg[k].mouse
                                      /\ \A j \in k + 1 .. i - 1 : ~IsInterface(cfg[j])
            BY DEF OfMouse
        <5>2. k \in 1 .. i + 1 - 1
            BY <1>1
        <5>3. \A j \in k + 1 .. i + 1 - 1 : j = i \/ j \in k + 1 .. i - 1
            BY <1>1
        <5> QED
            BY <3>2, <5>1, <5>2, <5>3 DEF OfMouse
      <4>3. OfMouse(cfg, i + 1) => OfMouse(cfg, i)
        <5> SUFFICES ASSUME OfMouse(cfg, i + 1)
                     PROVE  OfMouse(cfg, i)
            OBVIOUS
        <5>1. PICK k \in 1 .. i + 1 - 1 : /\ IsInterface(cfg[k]) /\ cfg[k].mouse
                                          /\ \A j \in k + 1 .. i + 1 - 1 : ~IsInterface(cfg[j])
            BY DEF OfMouse
        <5>2. k # i
            BY <3>2, <5>1
        <5>3. k \in 1 .. i - 1 /\ \A j \in k + 1 .. i - 1 : j \in k + 1 .. i + 1 - 1
            BY <1>1, <5>2
        <5> QED
            BY <5>1, <5>3 DEF OfMouse
      <4> QED
        BY <2>4, <4>1, <4>2, <4>3
    <3> QED
        BY <3>1, <3>2
  <2>7. Reports(d) => d.num # 0
    BY DEF Reports
  <2>8. (st.ended <=> \E k \in 1 .. i : cfg[k].type = "bad")
    BY <2>2, <2>3
  <2>9. st.ep = 0 => \A j \in 1 .. i : ~Serves(cfg, j)
    <3> HIDE DEF st
    <3> QED
        BY <1>2, <2>2, <2>5, <2>7 DEF LoopKnows
  <2>10. st.ep # 0 => \E j \in 1 .. i : /\ Serves(cfg, j) /\ cfg[j].num = st.ep
                                        /\ \A l \in 1 .. j - 1 : ~Serves(cfg, l)
    <3> HIDE DEF st
    <3>1. CASE was.ep = 0 /\ was.inTarget /\ Reports(d)
      <4>1. \A l \in 1 .. i - 1 : ~Serves(cfg, l)
        BY <3>1 DEF LoopKnows
      <4> QED
        BY <1>2, <2>2, <2>5, <3>1, <4>1
    <3>2. CASE ~(was.ep = 0 /\ was.inTarget /\ Reports(d))
      <4>1. st.ep = was.ep
        BY <2>2, <3>2
      <4> QED
        BY <1>2, <4>1 DEF LoopKnows
    <3> QED
        BY <3>1, <3>2
  <2> HIDE DEF st
  <2> QED
    BY <2>6, <2>8, <2>9, <2>10 DEF LoopKnows, st
<1> QED
    BY <1>3, <1>4

\* The endpoint that is found is the first one that serves the mouse.
LEMMA ParsedIsFirst ==
    ASSUME NEW cfg \in Seq(AnyDescriptor), Parsed(cfg) # 0
    PROVE  \E i \in 1 .. Len(cfg) : /\ Serves(cfg, i) /\ cfg[i].num = Parsed(cfg)
                                    /\ \A j \in 1 .. i - 1 : ~Serves(cfg, j)
<1> DEFINE n == Len(cfg)
           s == Scan(cfg)
           T == {i \in 0 .. n : LoopKnows(cfg, i, s[i])}
<1>1. n \in Nat
    OBVIOUS
<1>2. s[0] = NotYet /\ \A i \in 0 .. n : s[i] \in Scans
    BY ScanSteps
<1>3. \A i \in 1 .. n : s[i] = PastDescriptor(s[i - 1], cfg[i])
    BY ScanSteps
<1> HIDE DEF s
<1>4. 0 \in T
  <2>1. ~OfMouse(cfg, 0 + 1)
    BY DEF OfMouse
  <2>2. LoopKnows(cfg, 0, NotYet)
    BY <2>1 DEF LoopKnows, NotYet
  <2> QED
    BY <1>1, <1>2, <2>2
<1>5. ASSUME NEW i \in 1 .. n, i - 1 \in T
      PROVE  i \in T
  <2>1. LoopKnows(cfg, i - 1, s[i - 1]) /\ s[i - 1] \in Scans
    BY <1>2, <1>5
  <2>2. LoopKnows(cfg, i, PastDescriptor(s[i - 1], cfg[i]))
    BY <2>1, LoopLearns
  <2> QED
    BY <1>3, <2>2
<1> HIDE DEF T
<1>6. \A i \in 0 .. n : i \in T
  <2>1. \A i \in 1 .. n : i - 1 \in T => i \in T
    BY <1>5
  <2> QED
    BY <1>1, <1>4, <2>1, UpTo
<1>7. LoopKnows(cfg, n, s[n]) /\ s[n].ep = Parsed(cfg)
    BY <1>1, <1>6 DEF T, s, Parsed
<1> QED
    BY <1>7 DEF LoopKnows

Requests == {"port", "device8", "address", "device18", "config", "parse", "record", "done"}

Entry == [address : Nat, port : 0 .. Ports - 1]

PortState == [there : BOOLEAN, enabled : BOOLEAN, address : Nat]

CoreTypes ==
    /\ request \in Requests
    /\ usb_port \in Nat /\ (request # "done" => usb_port \in 0 .. Ports - 1)
    /\ addr \in Nat /\ next_free_address \in Nat \ {0}
    /\ usb_devices \in Seq(Entry)
    /\ mouse \in [attached : BOOLEAN, addr : Nat, ep : Nat, cfg : Seq(AnyDescriptor)]
    /\ cfgbuf \in Seq(AnyDescriptor)
    /\ bus \in [0 .. Ports - 1 -> PortState]
    /\ shared \in BOOLEAN

MouseKnown ==
    mouse.attached => /\ mouse.addr \in 1 .. next_free_address - 1
                      /\ mouse.ep = Parsed(mouse.cfg) /\ mouse.ep # 0

Addressed == {"device18", "config", "parse", "record"}

AddrGiven == request \in Addressed => addr \in 1 .. next_free_address - 1

Apart ==
    /\ \A p \in 0 .. Ports - 1 : bus[p].address < next_free_address
    /\ \A p, q \in 0 .. Ports - 1 :
         bus[p].address # 0 /\ bus[p].address = bus[q].address => p = q

OneAtDefault ==
    /\ AtDefault \subseteq (IF request \in {"device8", "address"} THEN {usb_port} ELSE {})
    /\ request \in {"device8", "address"} => bus[usb_port].enabled /\ bus[usb_port].address = 0
    /\ request \in Addressed => bus[usb_port].address = addr

Recorded ==
    \A i \in 1 .. Len(usb_devices) :
        /\ usb_devices[i].port < usb_port
        /\ bus[usb_devices[i].port].address = usb_devices[i].address

CoreInv ==
    /\ CoreTypes /\ MouseKnown /\ AddrGiven
    /\ ~shared => Apart /\ OneAtDefault /\ Recorded

\* Before the first request it holds.
LEMMA CoreStarts == CoreInit => CoreInv
<1> SUFFICES ASSUME CoreInit
             PROVE  CoreInv
    OBVIOUS
<1> USE DEF CoreInit
<1>1. CoreTypes
  <2>1. 0 \in 0 .. Ports - 1
    BY CoreAssumption
  <2>2. mouse \in [attached : BOOLEAN, addr : Nat, ep : Nat, cfg : Seq(AnyDescriptor)]
    BY DEF NoMouse
  <2>3. bus \in [0 .. Ports - 1 -> PortState]
    <3>1. ASSUME NEW t \in BOOLEAN
          PROVE  [there |-> t, enabled |-> FALSE, address |-> 0] \in PortState
        BY DEF PortState
    <3>2. bus \in [0 .. Ports - 1 ->
                     {[there |-> t, enabled |-> FALSE, address |-> 0] : t \in BOOLEAN}]
        OBVIOUS
    <3> QED
        BY ONLY <3>1, <3>2
  <2>4. usb_devices \in Seq(Entry) /\ cfgbuf \in Seq(AnyDescriptor)
    OBVIOUS
  <2>5. request = "port" /\ usb_port = 0 /\ addr = 0 /\ next_free_address = 1 /\ shared = FALSE
    OBVIOUS
  <2>6. request \in Requests /\ (request # "done" => usb_port \in 0 .. Ports - 1)
    BY <2>1, <2>5 DEF Requests
  <2>7. usb_port \in Nat /\ addr \in Nat /\ next_free_address \in Nat \ {0} /\ shared \in BOOLEAN
    <3> HIDE DEF CoreInit
    <3>1. usb_port \in Nat /\ addr \in Nat /\ next_free_address \in Nat \ {0}
        BY <2>5
    <3>2. shared \in BOOLEAN
        BY <2>5
    <3> QED
        BY <3>1, <3>2
  <2> QED
    BY ONLY <2>2, <2>3, <2>4, <2>6, <2>7 DEF CoreTypes
<1>2. \A p \in 0 .. Ports - 1 : bus[p].address = 0 /\ ~bus[p].enabled
    OBVIOUS
<1>3. Apart /\ OneAtDefault /\ Recorded
    BY <1>2 DEF Apart, OneAtDefault, Recorded, AtDefault, Addressed
<1>4. MouseKnown /\ AddrGiven
    BY DEF MouseKnown, NoMouse, AddrGiven, Addressed
<1> QED
    BY <1>1, <1>3, <1>4 DEF CoreInv

\* What setting the address of a port that is alone at address 0 does to the bus.
LEMMA SetAddressKeeps ==
    ASSUME CoreTypes, NEW a \in Nat
    PROVE  /\ SetAddress(a, bus) \in
                [0 .. Ports - 1 -> PortState]
           /\ \A p \in 0 .. Ports - 1 :
                /\ SetAddress(a, bus)[p].address = IF p \in AtDefault THEN a ELSE bus[p].address
                /\ SetAddress(a, bus)[p].enabled = bus[p].enabled
<1>1. DOMAIN bus = 0 .. Ports - 1
    BY DEF CoreTypes
<1>2. ASSUME NEW p \in 0 .. Ports - 1
      PROVE  /\ SetAddress(a, bus)[p] \in PortState
             /\ SetAddress(a, bus)[p].address = IF p \in AtDefault THEN a ELSE bus[p].address
             /\ SetAddress(a, bus)[p].enabled = bus[p].enabled
  <2>1. bus[p] \in PortState
    BY DEF CoreTypes
  <2>2. SetAddress(a, bus)[p] = IF p \in AtDefault THEN [bus[p] EXCEPT !.address = a] ELSE bus[p]
    BY <1>1 DEF SetAddress
  <2>3. CASE p \in AtDefault
    BY <2>1, <2>2, <2>3 DEF PortState
  <2>4. CASE p \notin AtDefault
    BY <2>1, <2>2, <2>4
  <2> QED
    BY <2>3, <2>4
<1> QED
    BY <1>1, <1>2 DEF SetAddress

\* The types, when the next port comes or the enumeration ends.
LEMMA NextPortTypes ==
    ASSUME CoreTypes, request # "done", NextPort
    PROVE  /\ request' \in {"port", "done"} /\ usb_port' = usb_port + 1 /\ usb_port' \in Nat
           /\ request' # "done" => usb_port' \in 0 .. Ports - 1
           /\ addr' \in Nat /\ cfgbuf' \in Seq(AnyDescriptor)
    BY CoreAssumption DEF CoreTypes, NextPort

\* Every request that succeeds or fails preserves it.
LEMMA CoreSteps ==
    ASSUME CoreInv, [CoreNext]_coreVars
    PROVE  CoreInv'
<1> DEFINE Bus == [0 .. Ports - 1 -> PortState]
<1>0. /\ CoreTypes /\ MouseKnown /\ AddrGiven
      /\ ~shared => Apart /\ OneAtDefault /\ Recorded
    BY DEF CoreInv
<1>1. ASSUME UNCHANGED coreVars
      PROVE  CoreInv'
    BY <1>0, <1>1 DEF coreVars, CoreInv, CoreTypes, MouseKnown, AddrGiven, Apart, OneAtDefault,
                      Recorded, AtDefault
\* What is recorded of the ports before this one stays true when they keep
\* their addresses.
<1>9. ASSUME ~shared, UNCHANGED usb_devices,
             \A p \in 0 .. Ports - 1 : p # usb_port => bus'[p].address = bus[p].address,
             usb_port' \in {usb_port, usb_port + 1}
      PROVE  Recorded'
  <2> SUFFICES ASSUME NEW i \in 1 .. Len(usb_devices)
               PROVE  /\ usb_devices[i].port < usb_port'
                      /\ bus'[usb_devices[i].port].address = usb_devices[i].address
    BY <1>9 DEF Recorded
  <2>1. usb_devices[i] \in Entry /\ usb_port \in Nat
    BY <1>0 DEF CoreTypes
  <2>2. usb_devices[i].port \in 0 .. Ports - 1
    BY <2>1 DEF Entry
  <2>3. usb_devices[i].port < usb_port
        /\ bus[usb_devices[i].port].address = usb_devices[i].address
    BY <1>0, <1>9 DEF Recorded
  <2> DEFINE q == usb_devices[i].port
  <2>4. q \in Nat /\ q < usb_port
    BY <2>2, <2>3
  <2> HIDE DEF q
  <2>5. q # usb_port /\ q < usb_port'
    BY <1>9, <2>1, <2>4
  <2> QED
    BY <1>9, <2>2, <2>3, <2>5 DEF q
\* A step to the next port that leaves the bus and the devices alone.
<1>2. ASSUME request \in {"port", "record"}, request # "done", NextPort,
             UNCHANGED <<next_free_address, mouse, bus, shared>>,
             usb_devices' \in Seq(Entry),
             ~shared => Recorded'
      PROVE  CoreInv'
  <2>1. CoreTypes'
    BY <1>0, <1>2, NextPortTypes DEF CoreTypes, Requests
  <2>2. MouseKnown'
    BY <1>0, <1>2 DEF MouseKnown
  <2>3. request' \notin Addressed /\ request' \notin {"device8", "address"}
    BY <1>0, <1>2, NextPortTypes DEF Addressed
  <2>4. ~shared => Apart'
    BY <1>0, <1>2 DEF Apart
  <2>5. ~shared => OneAtDefault'
    BY <1>0, <1>2, <2>3 DEF OneAtDefault, AtDefault
  <2> QED
    BY <1>2, <2>1, <2>2, <2>3, <2>4, <2>5 DEF CoreInv, AddrGiven
<1>3. ASSUME port_unusable
      PROVE  CoreInv'
  <2>1. ~shared => Recorded'
    BY <1>9, <1>3 DEF port_unusable, NextPort
  <2> QED
    BY <1>0, <1>2, <1>3, <2>1 DEF port_unusable, CoreTypes
<1>4. ASSUME hc_port_reset
      PROVE  CoreInv'
  <2>1. usb_port \in 0 .. Ports - 1 /\ bus[usb_port] \in PortState
    BY <1>0, <1>4 DEF hc_port_reset, CoreTypes
  <2> DEFINE b == [bus[usb_port] EXCEPT !.enabled = TRUE, !.address = 0]
  <2>2. b \in PortState /\ b.enabled /\ b.address = 0
    BY <2>1 DEF PortState
  <2>3. bus' = [bus EXCEPT ![usb_port] = b]
    BY <1>4 DEF hc_port_reset
  <2> HIDE DEF b
  <2>4. bus' \in Bus /\ \A p \in 0 .. Ports - 1 : bus'[p] = IF p = usb_port THEN b ELSE bus[p]
    BY <1>0, <2>1, <2>2, <2>3 DEF CoreTypes
  <2>5. CoreTypes'
    BY <1>0, <1>4, <2>4 DEF CoreTypes, Requests, hc_port_reset
  <2>6. MouseKnown' /\ AddrGiven'
    BY <1>0, <1>4 DEF MouseKnown, AddrGiven, Addressed, hc_port_reset
  <2>7. ASSUME ~shared
        PROVE  Apart' /\ OneAtDefault' /\ Recorded'
    <3>1. Apart'
        BY <1>0, <1>4, <2>2, <2>4, <2>7 DEF Apart, hc_port_reset, CoreTypes
    <3>2. AtDefault' \subseteq {usb_port}
        BY <1>0, <1>4, <2>4, <2>7 DEF OneAtDefault, AtDefault, hc_port_reset
    <3>3. OneAtDefault'
        BY <1>4, <2>1, <2>2, <2>4, <3>2 DEF OneAtDefault, Addressed, hc_port_reset
    <3>4. Recorded'
        BY <1>4, <1>9, <2>4, <2>7 DEF hc_port_reset
    <3> QED
        BY <3>1, <3>3, <3>4
  <2>8. shared' = shared
    BY <1>4 DEF hc_port_reset
  <2> QED
    BY <2>5, <2>6, <2>7, <2>8 DEF CoreInv
\* The ports at address 0, when a device has been spoken to.
<1>5. ASSUME ~shared, request \in {"device8", "address", "device18"}
      PROVE  AtDefault \subseteq {usb_port} /\ (bus[usb_port].address # 0 => AtDefault = {})
    BY <1>0, <1>5 DEF OneAtDefault, AtDefault
\* enumerate_port() gives up, the bus as it was.
<1>6. ASSUME request \in {"device8", "address", "device18"}, GiveUp(bus),
             next_free_address' \in {next_free_address, next_free_address + 1}
      PROVE  CoreInv'
  <2>1. CoreTypes'
    BY <1>0, <1>6, NextPortTypes DEF CoreTypes, Requests, GiveUp
  <2>2. MouseKnown' /\ request' \notin Addressed /\ request' \notin {"device8", "address"}
    BY <1>0, <1>6, NextPortTypes DEF MouseKnown, GiveUp, CoreTypes, Addressed
  <2>3. ASSUME ~shared'
        PROVE  Apart' /\ OneAtDefault' /\ Recorded'
    <3>1. ~shared /\ bus[usb_port].address # 0
        BY <1>0, <1>6, <2>3 DEF GiveUp, CoreTypes
    <3>2. Apart'
      <4>1. Apart /\ bus' = bus
        BY <1>0, <1>6, <3>1 DEF GiveUp
      <4>2. next_free_address' >= next_free_address /\ next_free_address \in Nat
            /\ next_free_address' \in Nat
        BY <1>0, <1>6 DEF CoreTypes
      <4>3. \A p \in 0 .. Ports - 1 : bus[p].address \in Nat
        BY <1>0 DEF CoreTypes, PortState
      <4> QED
        BY <4>1, <4>2, <4>3 DEF Apart
    <3>3. OneAtDefault'
        BY <1>5, <1>6, <2>2, <3>1 DEF OneAtDefault, GiveUp, AtDefault
    <3>4. Recorded'
        BY <1>6, <1>9, <3>1 DEF GiveUp, NextPort
    <3> QED
        BY <3>2, <3>3, <3>4
  <2> QED
    BY <2>1, <2>2, <2>3 DEF CoreInv, AddrGiven
\* The bus when the device takes the address that is asked of it.
<1>7. ASSUME request = "address"
      PROVE  /\ SetAddress(next_free_address, bus) \in Bus
             /\ \A p \in 0 .. Ports - 1 :
                  /\ SetAddress(next_free_address, bus)[p].address =
                       IF p \in AtDefault THEN next_free_address ELSE bus[p].address
                  /\ SetAddress(next_free_address, bus)[p].enabled = bus[p].enabled
    BY <1>0, SetAddressKeeps DEF CoreTypes
<1>8. ASSUME request = "address", bus' = SetAddress(next_free_address, bus),
             next_free_address' = next_free_address + 1, ~shared
      PROVE  /\ Apart' /\ AtDefault' = {} /\ usb_port \in 0 .. Ports - 1
             /\ bus'[usb_port].address = next_free_address
             /\ \A p \in 0 .. Ports - 1 : p # usb_port => bus'[p].address = bus[p].address
  <2>1. /\ bus' \in Bus
        /\ \A p \in 0 .. Ports - 1 :
             /\ bus'[p].address = IF p \in AtDefault THEN next_free_address ELSE bus[p].address
             /\ bus'[p].enabled = bus[p].enabled
    BY <1>7, <1>8
  <2>2. usb_port \in 0 .. Ports - 1 /\ next_free_address \in Nat \ {0}
    BY <1>0, <1>8 DEF CoreTypes
  <2>3. AtDefault = {usb_port}
    BY <1>0, <1>8, <2>2 DEF OneAtDefault, AtDefault
  <2>4. \A p \in 0 .. Ports - 1 :
          bus'[p].address = IF p = usb_port THEN next_free_address ELSE bus[p].address
    BY <2>1, <2>3
  <2>5. Apart
    BY <1>0, <1>8
  <2>6. Apart'
    <3>1. \A p \in 0 .. Ports - 1 : bus[p].address \in Nat /\ bus[p].address < next_free_address
        BY <1>0, <2>5 DEF Apart, CoreTypes, PortState
    <3>2. \A p \in 0 .. Ports - 1 : bus'[p].address < next_free_address'
        BY <1>8, <2>2, <2>4, <3>1
    <3>3. \A p, q \in 0 .. Ports - 1 :
            bus'[p].address # 0 /\ bus'[p].address = bus'[q].address => p = q
        BY <2>2, <2>4, <2>5, <3>1 DEF Apart
    <3> QED
        BY <3>2, <3>3 DEF Apart
  <2>7. AtDefault' = {}
    <3> SUFFICES ASSUME NEW p \in 0 .. Ports - 1, bus'[p].enabled, bus'[p].address = 0
                 PROVE  FALSE
        BY DEF AtDefault
    <3>1. p # usb_port
        BY <2>2, <2>4
    <3>2. p \in AtDefault
        BY <2>1, <2>4, <3>1 DEF AtDefault
    <3> QED
        BY <2>3, <3>1, <3>2
  <2> QED
    BY <2>2, <2>4, <2>6, <2>7
<1>10. ASSUME GetDevice8
       PROVE  CoreInv'
  <2>1. CASE GiveUp(bus)
    BY <1>6, <1>10, <2>1 DEF GetDevice8
  <2>2. CASE request' = "address"
             /\ UNCHANGED <<usb_port, addr, usb_devices, mouse, cfgbuf, bus, shared>>
    <3>1. request = "device8" /\ UNCHANGED next_free_address
        BY <1>10 DEF GetDevice8
    <3>2. CoreTypes' /\ MouseKnown' /\ AddrGiven'
        BY <1>0, <2>2, <3>1 DEF CoreTypes, MouseKnown, AddrGiven, Requests, Addressed
    <3>3. ~shared => Apart' /\ Recorded'
        BY <1>0, <2>2, <3>1 DEF Apart, Recorded
    <3>4. ~shared => OneAtDefault'
        BY <1>0, <2>2, <3>1 DEF OneAtDefault, AtDefault, Addressed
    <3> QED
        BY <2>2, <3>2, <3>3, <3>4 DEF CoreInv
  <2> QED
    BY <1>10, <2>1, <2>2 DEF GetDevice8
<1>11. ASSUME SetAddressOk
       PROVE  CoreInv'
  <2>1. /\ request = "address" /\ bus' = SetAddress(next_free_address, bus)
        /\ next_free_address' = next_free_address + 1 /\ request' = "device18"
        /\ addr' = next_free_address
        /\ UNCHANGED <<usb_port, usb_devices, mouse, cfgbuf, shared>>
    BY <1>11 DEF SetAddressOk, AfterAsking
  <2>2. CoreTypes'
    BY <1>0, <1>7, <2>1 DEF CoreTypes, Requests
  <2>3. MouseKnown' /\ AddrGiven'
    BY <1>0, <2>1 DEF CoreTypes, MouseKnown, AddrGiven
  <2>4. ASSUME ~shared
        PROVE  Apart' /\ OneAtDefault' /\ Recorded'
    <3>1. /\ Apart' /\ AtDefault' = {} /\ bus'[usb_port].address = next_free_address
          /\ \A p \in 0 .. Ports - 1 : p # usb_port => bus'[p].address = bus[p].address
        BY <1>8, <2>1, <2>4
    <3>2. Recorded'
        BY <1>9, <2>1, <2>4, <3>1
    <3>3. OneAtDefault'
        BY <2>1, <3>1 DEF OneAtDefault
    <3> QED
        BY <3>1, <3>2, <3>3
  <2> QED
    BY <2>1, <2>2, <2>3, <2>4 DEF CoreInv
<1>12. ASSUME SetAddressFails
       PROVE  CoreInv'
  <2>1. request = "address" /\ next_free_address' = next_free_address + 1
    BY <1>12 DEF SetAddressFails, AfterAsking
  <2>2. CASE GiveUp(bus)
    BY <1>6, <2>1, <2>2
  <2>3. CASE GiveUp(SetAddress(next_free_address, bus))
    <3>1. NextPort /\ bus' = SetAddress(next_free_address, bus)
          /\ UNCHANGED <<usb_devices, mouse>>
          /\ shared' = (shared \/ SetAddress(next_free_address, bus)[usb_port].address = 0)
        BY <2>3 DEF GiveUp
    <3>2. CoreTypes'
        BY <1>0, <1>7, <2>1, <3>1, NextPortTypes DEF CoreTypes, Requests
    <3>3. MouseKnown' /\ request' \notin Addressed /\ request' \notin {"device8", "address"}
        BY <1>0, <2>1, <3>1, NextPortTypes DEF MouseKnown, CoreTypes, Addressed
    <3>4. ASSUME ~shared'
          PROVE  Apart' /\ OneAtDefault' /\ Recorded'
      <4>1. ~shared
        BY <1>0, <3>1, <3>4 DEF CoreTypes
      <4>2. /\ Apart' /\ AtDefault' = {}
            /\ \A p \in 0 .. Ports - 1 : p # usb_port => bus'[p].address = bus[p].address
        BY <1>8, <2>1, <3>1, <4>1
      <4>3. Recorded'
        BY <1>9, <2>1, <3>1, <4>1, <4>2 DEF NextPort
      <4>4. OneAtDefault'
        BY <3>3, <4>2 DEF OneAtDefault
      <4> QED
        BY <4>2, <4>3, <4>4
    <3> QED
        BY <3>2, <3>3, <3>4 DEF CoreInv, AddrGiven
  <2> QED
    BY <1>12, <2>2, <2>3 DEF SetAddressFails
\* The requests after it: the bus, the ports and the devices stay as they are.
<1>13. ASSUME request \in Addressed, request' \in Addressed,
              cfgbuf' \in Seq(AnyDescriptor), mouse' \in
                [attached : BOOLEAN, addr : Nat, ep : Nat, cfg : Seq(AnyDescriptor)],
              MouseKnown',
              UNCHANGED <<usb_port, addr, next_free_address, usb_devices, bus, shared>>
       PROVE  CoreInv'
  <2>1. request # "done" /\ request' \in Requests
    BY <1>13 DEF Addressed, Requests
  <2>2. CoreTypes'
    BY <1>0, <1>13, <2>1 DEF CoreTypes
  <2>3. AddrGiven'
    BY <1>0, <1>13 DEF AddrGiven
  <2>4. ~shared => Apart' /\ Recorded'
    BY <1>0, <1>13 DEF Apart, Recorded
  <2>5. ~shared => OneAtDefault'
    BY <1>0, <1>13 DEF OneAtDefault, AtDefault, Addressed
  <2> QED
    BY <1>13, <2>2, <2>3, <2>4, <2>5 DEF CoreInv
<1>14. ASSUME UNCHANGED <<mouse, next_free_address>>
       PROVE  /\ mouse' \in [attached : BOOLEAN, addr : Nat, ep : Nat, cfg : Seq(AnyDescriptor)]
              /\ MouseKnown'
    BY <1>0, <1>14 DEF MouseKnown, CoreTypes
<1>15. cfgbuf \in Seq(AnyDescriptor)
    BY <1>0 DEF CoreTypes
<1>16. ASSUME GetDevice18
       PROVE  CoreInv'
  <2>1. request = "device18" /\ UNCHANGED next_free_address
    BY <1>16 DEF GetDevice18
  <2>2. CASE GiveUp(bus)
    BY <1>6, <2>1, <2>2
  <2>3. CASE /\ request' = IF mouse.attached THEN "record" ELSE "config"
             /\ UNCHANGED <<usb_port, addr, usb_devices, mouse, cfgbuf, bus, shared>>
    <3>1. request \in Addressed /\ request' \in Addressed
        BY <2>1, <2>3 DEF Addressed
    <3> QED
        BY <1>13, <1>14, <1>15, <2>1, <2>3, <3>1
  <2> QED
    BY <1>16, <2>2, <2>3 DEF GetDevice18
<1>17. ASSUME Record
       PROVE  CoreInv'
  <2> DEFINE new == [address |-> addr, port |-> usb_port]
  <2>1. new \in Entry /\ new.port = usb_port
        /\ new.address = addr
    BY <1>0, <1>17 DEF CoreTypes, Record, Entry
  <2>2. usb_devices \in Seq(Entry)
    BY <1>0 DEF CoreTypes
  <2>3. usb_devices' = usb_devices \/ usb_devices' = Append(usb_devices, new)
    BY <1>17 DEF Record
  <2>4. /\ request = "record" /\ NextPort
        /\ UNCHANGED <<next_free_address, mouse, bus, shared>>
    BY <1>17 DEF Record
  <2> HIDE DEF new
  <2>5. usb_devices' \in Seq(Entry)
    BY <2>1, <2>2, <2>3
  <2>6. ASSUME ~shared
        PROVE  Recorded'
    <3> SUFFICES ASSUME NEW i \in 1 .. Len(usb_devices')
                 PROVE  /\ usb_devices'[i].port < usb_port'
                        /\ bus'[usb_devices'[i].port].address = usb_devices'[i].address
        BY DEF Recorded
    <3>1. usb_port \in Nat /\ usb_port' = usb_port + 1
        BY <1>0, <2>4 DEF CoreTypes, NextPort
    <3>2. CASE i \in 1 .. Len(usb_devices) /\ usb_devices'[i] = usb_devices[i]
      <4>1. usb_devices[i].port \in Nat
        <5>1. usb_devices[i] \in Entry
            BY <2>2, <3>2
        <5> QED
            BY <5>1 DEF Entry
      <4>2. usb_devices[i].port < usb_port
            /\ bus[usb_devices[i].port].address = usb_devices[i].address
        BY <1>0, <2>6, <3>2 DEF Recorded
      <4>3. usb_devices[i].port < usb_port'
        BY <3>1, <4>1, <4>2
      <4> QED
        BY <2>4, <3>2, <4>2, <4>3
    <3>3. CASE usb_devices'[i] = new
        BY <1>0, <2>1, <2>4, <2>6, <3>1, <3>3 DEF OneAtDefault, Addressed
    <3> QED
        BY <2>1, <2>2, <2>3, <3>2, <3>3, AppendProperties
  <2> QED
    BY <1>2, <2>4, <2>5, <2>6
<1>18. ASSUME fetch_config_descriptor_fails \/ parse_nothing_found \/ SetConfigurationFails
       PROVE  CoreInv'
  <2>1. /\ request \in {"config", "parse"} /\ request' = "record"
        /\ UNCHANGED <<usb_port, addr, next_free_address, usb_devices, mouse, cfgbuf, bus, shared>>
    BY <1>18 DEF fetch_config_descriptor_fails, parse_nothing_found, SetConfigurationFails
  <2>2. request \in Addressed /\ request' \in Addressed
    BY <2>1 DEF Addressed
  <2> QED
    BY <1>13, <1>14, <1>15, <2>1, <2>2
<1>19. ASSUME fetch_config_descriptor
       PROVE  CoreInv'
  <2>1. request \in Addressed /\ request' \in Addressed
    BY <1>19 DEF fetch_config_descriptor, Addressed
  <2>2. cfgbuf' \in Seq(AnyDescriptor)
    BY <1>19, CoreAssumption DEF fetch_config_descriptor
  <2> QED
    BY <1>13, <1>14, <1>19, <2>1, <2>2 DEF fetch_config_descriptor
<1>20. ASSUME Attach
       PROVE  CoreInv'
  <2>1. /\ request \in Addressed /\ request' \in Addressed
        /\ UNCHANGED <<usb_port, addr, next_free_address, usb_devices, cfgbuf, bus, shared>>
    BY <1>20 DEF Attach, Addressed
  <2>2. Parsed(cfgbuf) \in Nat /\ Parsed(cfgbuf) # 0
    <3>1. Scan(cfgbuf)[Len(cfgbuf)] \in Scans
      <4>1. Len(cfgbuf) \in 0 .. Len(cfgbuf)
        BY <1>15
      <4> QED
        BY <1>15, <4>1, ScanSteps
    <3> QED
        BY <1>20, <3>1 DEF Attach, Parsed, Scans
  <2>3. addr \in 1 .. next_free_address - 1 /\ addr \in Nat
    BY <1>0, <2>1 DEF AddrGiven, CoreTypes
  <2> DEFINE e == Parsed(cfgbuf)
  <2>4. mouse' = [attached |-> TRUE, addr |-> addr, ep |-> e, cfg |-> cfgbuf]
    BY <1>20 DEF Attach
  <2>5. e \in Nat /\ e # 0
    BY <2>2
  <2>6. MouseKnown'
    <3>1. mouse'.addr = addr /\ mouse'.ep = e /\ mouse'.cfg = cfgbuf
        BY <2>4
    <3>2. mouse'.ep = Parsed(mouse'.cfg)
        BY <3>1
    <3> QED
        BY <2>1, <2>3, <2>5, <3>1, <3>2 DEF MouseKnown
  <2> HIDE DEF e
  <2>7. mouse' \in [attached : BOOLEAN, addr : Nat, ep : Nat, cfg : Seq(AnyDescriptor)]
    BY <1>15, <2>3, <2>4, <2>5
  <2> QED
    BY <1>13, <1>15, <2>1, <2>6, <2>7
<1> QED
    BY <1>1, <1>3, <1>4, <1>10, <1>11, <1>12, <1>16, <1>17, <1>18, <1>19, <1>20
    DEF CoreNext, enumerate_port, usb_hid_mouse_try_attach

\* It says what the enumeration leaves behind.
LEMMA CoreIsRight == CoreInv => EnumerationRight
<1> SUFFICES ASSUME CoreInv
             PROVE  EnumerationRight
    OBVIOUS
<1>1. AddressesUnique
    BY DEF CoreInv, AddressesUnique, Apart, Recorded
<1>2. EndpointRight
  <2> SUFFICES ASSUME mouse.attached
               PROVE  /\ mouse.addr \in 1 .. next_free_address - 1
                      /\ \E i \in 1 .. Len(mouse.cfg) :
                           /\ Serves(mouse.cfg, i) /\ mouse.cfg[i].num = mouse.ep
                           /\ \A j \in 1 .. i - 1 : ~Serves(mouse.cfg, j)
    BY DEF EndpointRight
  <2>1. mouse.cfg \in Seq(AnyDescriptor) /\ Parsed(mouse.cfg) = mouse.ep /\ mouse.ep # 0
        /\ mouse.addr \in 1 .. next_free_address - 1
    BY DEF CoreInv, MouseKnown, CoreTypes
  <2>2. \E i \in 1 .. Len(mouse.cfg) :
          /\ Serves(mouse.cfg, i) /\ mouse.cfg[i].num = Parsed(mouse.cfg)
          /\ \A j \in 1 .. i - 1 : ~Serves(mouse.cfg, j)
    BY <2>1, ParsedIsFirst
  <2> QED
    BY <2>1, <2>2
<1> QED
    BY <1>1, <1>2 DEF EnumerationRight

\* The inductive invariant of the enumeration.
THEOREM CoreKeepsInv == CoreSpec => []CoreInv
<1>1. CoreInv /\ [CoreNext]_coreVars => CoreInv'
    BY CoreSteps
<1> QED
    BY CoreStarts, <1>1, PTL DEF CoreSpec

\* Whatever devices there are, with whatever configurations, and whichever requests
\* fail: addresses are unique, and the mouse is polled where it reports.
THEOREM EnumerationIsRight == CoreSpec => []EnumerationRight
BY CoreKeepsInv, CoreIsRight, PTL

\* So the drivers of the controllers and the enumeration above them keep their
\* promises at once.
THEOREM UsbIsExact == HostSpec /\ CoreSpec => []UsbExact
BY TransfersKeepOrder, EnumerationIsRight, PTL DEF UsbExact

-----------------------------------------------------------------------------
(* Clock. *)

\* The registers, as the proofs use them.
LEMMA RadixSizes ==
    /\ Len(Radix) \in Nat /\ Len(Radix) >= 2
    /\ \A r \in 1 .. Len(Radix) : Radix[r] \in Nat \ {0}
    /\ StartTime \in Nat /\ MaxSeconds \in Nat
<1> DEFINE S == 1 .. 99
<1>1. Radix \in Seq(S) /\ Len(Radix) >= 2
    BY ClockAssumption
<1>3. \A x \in S : x \in Nat \ {0}
    OBVIOUS
<1> HIDE DEF S
<1>2. \A r \in 1 .. Len(Radix) : Radix[r] \in S
    BY <1>1
<1>4. Len(Radix) \in Nat /\ StartTime \in Nat /\ MaxSeconds \in Nat
    BY <1>1, ClockAssumption
<1> QED
    BY <1>1, <1>2, <1>3, <1>4

\* Each register is worth as many of the one before it as that one counts.
LEMMA WorthsStep ==
    /\ Worths \in [0 .. Len(Radix) -> Nat \ {0}] /\ Worths[0] = 1
    /\ \A r \in 1 .. Len(Radix) : Worths[r] = Worths[r - 1] * Radix[r]
<1> DEFINE n == Len(Radix)
           S == Nat \ {0}
           step == [r \in 1 .. n |-> [w \in S |-> w * Radix[r]]]
<1>1. n \in Nat /\ 1 \in S /\ \A r \in 1 .. n : Radix[r] \in S
    BY RadixSizes
<1> HIDE DEF n
<1>2. \A w, x \in S : w * x \in S
    OBVIOUS
<1>3. step \in [1 .. n -> [S -> S]]
    BY <1>1, <1>2
<1>4. \A r \in 1 .. n, w \in S : step[r][w] = w * Radix[r]
    OBVIOUS
<1> HIDE DEF step, S
<1>5. PICK f : f \in [0 .. n -> S] /\ f[0] = 1 /\ \A r \in 1 .. n : f[r] = step[r][f[r - 1]]
  <2>1. \E f : IsLoop(f, n, S, 1, step)
    BY <1>1, <1>3, LoopExists
  <2> QED
    BY <2>1 DEF IsLoop
<1>6. f = [r \in 0 .. n |-> IF r = 0 THEN 1 ELSE f[r - 1] * Radix[r]]
  <2>1. ASSUME NEW r \in 0 .. n
        PROVE  f[r] = IF r = 0 THEN 1 ELSE f[r - 1] * Radix[r]
    <3>1. CASE r = 0
        BY <1>5, <3>1
    <3>2. CASE r # 0
      <4>1. r \in 1 .. n /\ r - 1 \in 0 .. n
        BY <1>1, <3>2
      <4> QED
        BY <1>4, <1>5, <3>2, <4>1
    <3> QED
        BY <3>1, <3>2
  <2> QED
    BY <1>5, <2>1
<1>7. Worths = [r \in 0 .. n |-> IF r = 0 THEN 1 ELSE Worths[r - 1] * Radix[r]]
  <2>1. Worths = CHOOSE g : g = [r \in 0 .. n |-> IF r = 0 THEN 1 ELSE g[r - 1] * Radix[r]]
    BY DEF Worths, n
  <2> QED
    BY <1>6, <2>1
<1>8. Worths[0] = 1 /\ \A r \in 1 .. n : Worths[r] = Worths[r - 1] * Radix[r]
    BY <1>1, <1>7
<1>9. \A r \in 0 .. n : Worths[r] \in S
  <2> DEFINE T == {r \in 0 .. n : Worths[r] \in S}
  <2>1. 0 \in T
    BY <1>1, <1>8
  <2>2. \A r \in 1 .. n : r - 1 \in T => r \in T
    BY <1>1, <1>2, <1>8
  <2> HIDE DEF T
  <2>3. \A r \in 0 .. n : r \in T
    BY <1>1, <2>1, <2>2, UpTo
  <2> QED
    BY <2>3 DEF T
<1> QED
    BY <1>7, <1>8, <1>9 DEF n, S

\* The registers are added up one by one.
LEMMA SumsStep ==
    ASSUME NEW fields \in [Registers -> Nat]
    PROVE  /\ Sums(fields) \in [0 .. Len(Radix) -> Nat] /\ Sums(fields)[0] = 0
           /\ \A r \in 1 .. Len(Radix) :
                Sums(fields)[r] = Sums(fields)[r - 1] + fields[r] * Worth(r)
<1> DEFINE n == Len(Radix)
           part == [r \in 1 .. n |-> fields[r] * Worth(r)]
           step == [r \in 1 .. n |-> [s \in Nat |-> s + part[r]]]
           s == Sums(fields)
<1>0. n \in Nat
    BY RadixSizes
<1>1. \A r \in 1 .. n : fields[r] * Worth(r) \in Nat
  <2> SUFFICES ASSUME NEW r \in 1 .. n
               PROVE  fields[r] * Worth(r) \in Nat
    OBVIOUS
  <2>1. fields[r] \in Nat
    BY ClockAssumption DEF Registers
  <2>2. Worth(r) \in Nat
    BY <1>0, WorthsStep DEF Worth
  <2> QED
    BY <2>1, <2>2
<1> HIDE DEF n
<1>2. \A r \in 1 .. n : part[r] \in Nat /\ part[r] = fields[r] * Worth(r)
    BY <1>1
<1> HIDE DEF part
<1>3. step \in [1 .. n -> [Nat -> Nat]]
    BY <1>2
<1>4. \A r \in 1 .. n, x \in Nat : step[r][x] = x + part[r]
    OBVIOUS
<1> HIDE DEF step
<1>5. PICK f : f \in [0 .. n -> Nat] /\ f[0] = 0 /\ \A r \in 1 .. n : f[r] = step[r][f[r - 1]]
  <2>1. \E f : IsLoop(f, n, Nat, 0, step)
    BY <1>0, <1>3, LoopExists
  <2> QED
    BY <2>1 DEF IsLoop
<1>6. f = [r \in 0 .. n |-> IF r = 0 THEN 0 ELSE f[r - 1] + fields[r] * Worth(r)]
  <2>1. ASSUME NEW r \in 0 .. n
        PROVE  f[r] = IF r = 0 THEN 0 ELSE f[r - 1] + fields[r] * Worth(r)
    <3>1. CASE r = 0
        BY <1>5, <3>1
    <3>2. CASE r # 0
      <4>1. r \in 1 .. n /\ r - 1 \in 0 .. n
        BY <1>0, <3>2
      <4>2. f[r] = step[r][f[r - 1]] /\ f[r - 1] \in Nat
        BY <1>5, <4>1
      <4>3. f[r] = f[r - 1] + part[r]
        BY <1>4, <4>1, <4>2
      <4>4. part[r] = fields[r] * Worth(r)
        BY <1>2, <4>1
      <4> QED
        BY <3>2, <4>3, <4>4, Zenon
    <3> QED
        BY <3>1, <3>2
  <2> QED
    BY <1>5, <2>1
<1>7. s = [r \in 0 .. n |-> IF r = 0 THEN 0 ELSE s[r - 1] + fields[r] * Worth(r)]
  <2>1. s = CHOOSE g :
              g = [r \in 0 .. n |-> IF r = 0 THEN 0 ELSE g[r - 1] + fields[r] * Worth(r)]
    BY DEF Sums, n
  <2> HIDE DEF s
  <2> QED
    BY <1>6, <2>1
<1> HIDE DEF s
<1>8. s[0] = 0 /\ \A r \in 1 .. n : s[r] = s[r - 1] + fields[r] * Worth(r)
    BY <1>0, <1>7
<1>9. \A r \in 0 .. n : s[r] \in Nat
  <2> DEFINE T == {r \in 0 .. n : s[r] \in Nat}
  <2>1. 0 \in T
    BY <1>0, <1>8
  <2>2. \A r \in 1 .. n : r - 1 \in T => r \in T
    BY <1>0, <1>1, <1>8
  <2> HIDE DEF T
  <2>3. \A r \in 0 .. n : r \in T
    BY <1>0, <2>1, <2>2, UpTo
  <2> QED
    BY <2>3 DEF T
<1> QED
    BY <1>7, <1>8, <1>9 DEF s, n

\* The sum up to a register does not look at those behind it.
LEMMA SumsAgree ==
    ASSUME NEW f \in [Registers -> Nat], NEW g \in [Registers -> Nat],
           NEW k \in 0 .. Len(Radix), \A r \in 1 .. k : f[r] = g[r]
    PROVE  Sums(f)[k] = Sums(g)[k]
<1> DEFINE s == Sums(f)
           t == Sums(g)
           T == {r \in 0 .. k : s[r] = t[r]}
<1>1. k \in Nat /\ \A r \in 1 .. k : r \in 1 .. Len(Radix)
    BY RadixSizes
<1>2. s[0] = t[0] /\ \A r \in 1 .. k : /\ s[r] = s[r - 1] + f[r] * Worth(r)
                                       /\ t[r] = t[r - 1] + g[r] * Worth(r)
    BY <1>1, SumsStep
<1> HIDE DEF s, t
<1>3. 0 \in T
    BY <1>1, <1>2
<1>4. \A r \in 1 .. k : r - 1 \in T => r \in T
    BY <1>1, <1>2
<1> HIDE DEF T
<1>5. \A r \in 0 .. k : r \in T
    BY <1>1, <1>3, <1>4, UpTo
<1> QED
    BY <1>1, <1>5 DEF T, s, t

\* A number has one quotient and one remainder.
LEMMA QuotientIs ==
    ASSUME NEW d \in Nat \ {0}, NEW q \in Nat, NEW r \in 0 .. d - 1
    PROVE  (d * q + r) \div d = q
<1> DEFINE a == d * q + r
           p == a \div d
           m == a % d
<1>1. a \in Nat
    OBVIOUS
<1>2. a = d * p + m /\ m \in 0 .. d - 1 /\ p \in Nat
  <2> HIDE DEF a
  <2> QED
    BY <1>1, SMT
<1>3. d * q + r = d * p + m
    BY <1>2
<1> HIDE DEF p, m
<1>4. p - q \in Int /\ d * (p - q) = r - m
    BY <1>2, <1>3, SMT
<1>5. ~(p - q <= -1 \/ p - q >= 1)
  <2> DEFINE e == p - q
  <2> HIDE DEF e
  <2>1. ASSUME NEW x \in Int, x <= -1 \/ x >= 1
        PROVE  d * x <= -d \/ d * x >= d
    BY <2>1, SMT
  <2> QED
    BY <1>2, <1>4, <2>1 DEF e
<1> QED
    BY <1>2, <1>4, <1>5 DEF p

DividesTwice(a, b, c) ==
    /\ b * c \in Nat \ {0} /\ (a \div b) \div c = a \div (b * c)
    /\ (a \div b) * b = ((a \div b) % c) * b + (a \div (b * c)) * (b * c)

\* Dividing in two steps is dividing at once.
LEMMA QuotientTwice ==
    ASSUME NEW a \in Nat, NEW b \in Nat \ {0}, NEW c \in Nat \ {0}
    PROVE  DividesTwice(a, b, c)
<1> DEFINE q == a \div b
           r == a % b
           p == q \div c
           m == q % c
<1>1. q \in Nat /\ r \in 0 .. b - 1 /\ a = b * q + r
    BY SMT
<1> HIDE DEF q, r
<1>2. p \in Nat /\ m \in 0 .. c - 1 /\ q = c * p + m
    BY <1>1, SMT
<1> HIDE DEF p, m
<1>3. b * c \in Nat \ {0}
    BY SMT
<1>4. b * (c * p + m) = (b * c) * p + b * m
    BY <1>2, SMT
<1>5. b * m \in Nat /\ b * m <= b * c - b
  <2>1. b * m >= 0 /\ b * (c - 1 - m) >= 0
    BY <1>2, SMT
  <2>2. b * (c - 1 - m) = b * c - b - b * m
    BY <1>2, SMT
  <2>3. b * m \in Int /\ b * c \in Int
    BY <1>2
  <2> QED
    BY <2>1, <2>2, <2>3
<1> DEFINE d == b * c
           bm == b * m
           rest == bm + r
<1>6. rest \in 0 .. d - 1
  <2> HIDE DEF d, bm
  <2> QED
    BY <1>1, <1>3, <1>5 DEF d, bm
<1>7. a = d * p + rest
  <2>1. a = b * (c * p + m) + r
    BY <1>1, <1>2
  <2>2. d * p \in Int /\ bm \in Int /\ r \in Int
    BY <1>1, <1>2, <1>3, <1>5
  <2>3. b * (c * p + m) = d * p + bm
    BY <1>4
  <2> DEFINE dp == d * p
             all == b * (c * p + m)
  <2> HIDE DEF dp, bm, all
  <2>4. a = all + r /\ all = dp + bm /\ dp \in Int /\ bm \in Int
    BY <2>1, <2>2, <2>3 DEF dp, bm, all
  <2>5. a = dp + (bm + r)
    BY <2>2, <2>4
  <2> QED
    BY <2>5 DEF dp
<1> HIDE DEF d, rest
<1>8. a \div d = p
    BY <1>2, <1>3, <1>6, <1>7, QuotientIs DEF d
<1>9. q * b = m * b + p * d
  <2>1. q * b = b * (c * p + m) /\ m * b = b * m
    BY <1>1, <1>2
  <2>2. p * d = (b * c) * p
    BY <1>2, <1>3 DEF d
  <2>3. (b * c) * p \in Int /\ b * m \in Int
    BY <1>2, <1>3
  <2> QED
    BY <1>4, <2>1, <2>2, <2>3
<1> QED
    BY <1>3, <1>8, <1>9 DEF d, q, p, m, DividesTwice

\* What comes later has no smaller quotient.
LEMMA QuotientGrows ==
    ASSUME NEW a \in Nat, NEW b \in Nat, a <= b, NEW d \in Nat \ {0}
    PROVE  a \div d \in Nat /\ b \div d \in Nat /\ a \div d <= b \div d
<1> DEFINE q == a \div d
           p == b \div d
<1>1. q \in Nat /\ p \in Nat
    BY SMT
<1>2. d * q <= a /\ b < d * (p + 1)
    BY SMT
<1> HIDE DEF q, p
<1>3. d * q < d * (p + 1)
  <2>1. d * q \in Int /\ d * (p + 1) \in Int
    BY <1>1
  <2> QED
    BY <1>2, <2>1
<1>4. ~(q >= p + 1)
  <2> SUFFICES ASSUME q >= p + 1
               PROVE  FALSE
    OBVIOUS
  <2>1. d * (q - (p + 1)) >= 0
    BY <1>1, SMT
  <2>2. d * (q - (p + 1)) = d * q - d * (p + 1)
    BY <1>1, SMT
  <2>3. d * q \in Int /\ d * (p + 1) \in Int
    BY <1>1
  <2> QED
    BY <1>3, <2>1, <2>2, <2>3
<1> QED
    BY <1>1, <1>4 DEF q, p

\* A number below b holds b not once.
LEMMA QuotientSmall ==
    ASSUME NEW b \in Nat \ {0}, NEW y \in 0 .. b - 1
    PROVE  y \div b = 0
BY SMT

\* The codes of the clock are undone.
LEMMA DigitsUndone ==
    ASSUME NEW v \in Nat
    PROVE  bcd2bin(Digits(v)) = v
<1> DEFINE q == v \div 10
           r == v % 10
<1>1. q \in Nat /\ r \in 0 .. 9 /\ v = 10 * q + r
    BY SMT
<1> HIDE DEF q, r
<1>2. (q * 16 + r) \div 16 = q /\ (q * 16 + r) % 16 = r
    BY <1>1, SMT
<1>3. bcd2bin(q * 16 + r) = r + q * 10
    BY <1>2 DEF bcd2bin
<1>4. Digits(v) = q * 16 + r
    BY DEF Digits, q, r
<1> QED
    BY <1>1, <1>3, <1>4

\* The same, for the prover that does no arithmetic.
LEMMA QuotientsOfAll ==
    /\ \A a \in Nat, b \in Nat \ {0}, c \in Nat \ {0} : (a \div b) \div c = a \div (b * c)
    /\ \A a \in Nat, b \in Nat, d \in Nat \ {0} :
         a <= b => a \div d \in Nat /\ b \div d \in Nat /\ a \div d <= b \div d
<1>1. \A a \in Nat, b \in Nat \ {0}, c \in Nat \ {0} : (a \div b) \div c = a \div (b * c)
  <2> SUFFICES ASSUME NEW a \in Nat, NEW b \in Nat \ {0}, NEW c \in Nat \ {0}
               PROVE  (a \div b) \div c = a \div (b * c)
    OBVIOUS
  <2>1. DividesTwice(a, b, c)
    BY QuotientTwice
  <2> QED
    BY <2>1, Zenon DEF DividesTwice
<1>2. \A a \in Nat, b \in Nat, d \in Nat \ {0} :
        a <= b => a \div d \in Nat /\ b \div d \in Nat /\ a \div d <= b \div d
    BY QuotientGrows, Zenon
<1> QED
    BY <1>1, <1>2, Zenon

\* Two times that agree in the minute agree in all that is slower.
LEMMA SlowTogether ==
    ASSUME NEW a \in Nat, NEW b \in Nat, a \div Worth(2) = b \div Worth(2),
           NEW k \in 1 .. Len(Radix)
    PROVE  a \div Worth(k + 1) = b \div Worth(k + 1)
<1> DEFINE n == Len(Radix)
           T == {r \in 0 .. n : r >= 1 => a \div Worths[r] = b \div Worths[r]}
<1>1. n \in Nat /\ n >= 2
    BY RadixSizes
<1>2. a \div Worths[1] = b \div Worths[1]
    BY DEF Worth
<1>3. 0 \in T
    BY <1>1
<1>4. ASSUME NEW r \in 1 .. n, r - 1 \in T
      PROVE  r \in T
  <2>1. CASE r = 1
    BY <1>1, <1>2, <2>1
  <2>2. CASE r # 1
    <3>1. r - 1 >= 1 /\ r - 1 \in 0 .. n
        BY <1>1, <2>2
    <3>2. a \div Worths[r - 1] = b \div Worths[r - 1]
        BY <1>4, <3>1
    <3>3. Worths[r] = Worths[r - 1] * Radix[r] /\ Worths[r - 1] \in Nat \ {0}
          /\ Radix[r] \in Nat \ {0}
        BY <3>1, WorthsStep, RadixSizes
    <3>4. a \div Worths[r] = b \div Worths[r]
      <4> DEFINE w == Worths[r - 1]
                 x == Radix[r]
      <4>1. w \in Nat \ {0} /\ x \in Nat \ {0} /\ Worths[r] = w * x
        BY <3>3
      <4>2. a \div w = b \div w
        BY <3>2
      <4> HIDE DEF w, x
      <4>3. a \in Nat /\ b \in Nat /\ w \in Nat \ {0} /\ x \in Nat \ {0}
        BY <4>1
      <4>4. (a \div w) \div x = a \div (w * x)
        BY <4>3, QuotientsOfAll, Zenon
      <4>5. (b \div w) \div x = b \div (w * x)
        BY <4>3, QuotientsOfAll, Zenon
      <4> QED
        BY <4>1, <4>2, <4>4, <4>5
    <3> QED
        BY <1>1, <3>4
  <2> QED
    BY <2>1, <2>2
<1> HIDE DEF T
<1>5. \A r \in 0 .. n : r \in T
  <2>1. \A r \in 1 .. n : r - 1 \in T => r \in T
    BY <1>4
  <2> QED
    BY <1>1, <1>3, <2>1, UpTo
<1>6. k \in 0 .. n /\ k >= 1 /\ k + 1 - 1 = k
    BY <1>1
<1>7. a \div Worths[k] = b \div Worths[k]
    BY <1>5, <1>6 DEF T
<1> QED
    BY <1>6, <1>7 DEF Worth

\* The registers that have been read, and 0 for the others.
Filled(rd) == [r \in Registers |-> IF r <= Len(rd) THEN rd[r].val ELSE 0]

\* What the reading comes to if the clock stands still from time t on.
ComesTo(rd, t) ==
    Sums(Filled(rd))[Len(rd)] + (t \div Worth(Len(rd) + 1)) * Worth(Len(rd) + 1)

RegisterRead == [reg : Nat, val : Nat]
Readings == Seq(RegisterRead)

ClockTypes ==
    /\ now \in Nat /\ now <= StartTime + Worth(3) + MaxSeconds
    /\ began \in Nat /\ began <= now
    /\ reading \in Readings /\ Len(reading) <= Len(Radix)
    /\ \A i \in 1 .. Len(reading) : reading[i].reg = i

\* A reading comes to a time that is not before it began; and to that moment
\* itself when the minute it began in is not over.
ClockInv ==
    /\ ClockTypes
    /\ ComesTo(reading, now) >= began
    /\ Len(reading) >= 1 /\ began \div Worth(2) = now \div Worth(2) =>
         ComesTo(reading, now) = began

\* The values read so far, and 0 for the registers that were not read.
LEMMA FilledTypes ==
    ASSUME NEW rd \in Readings
    PROVE  /\ Filled(rd) \in [Registers -> Nat]
           /\ \A r \in Registers : r <= Len(rd) => Filled(rd)[r] = rd[r].val
<1>1. Registers = 1 .. Len(Radix)
    BY ClockAssumption DEF Registers
<1>2. \A r \in 1 .. Len(rd) : rd[r].val \in Nat
  <2>1. \A r \in 1 .. Len(rd) : rd[r] \in RegisterRead
    BY DEF Readings
  <2> QED
    BY <2>1 DEF RegisterRead
<1> QED
    BY <1>1, <1>2, RadixSizes DEF Filled, Readings

\* One register more changes nothing of what the reading comes to.
LEMMA ReadingOn ==
    ASSUME NEW rd \in Readings, Len(rd) < Len(Radix), NEW t \in Nat,
           NEW more \in RegisterRead,
           more.val = (t \div Worth(Len(rd) + 1)) % Radix[Len(rd) + 1]
    PROVE  /\ Append(rd, more) \in Readings /\ Len(Append(rd, more)) = Len(rd) + 1
           /\ ComesTo(Append(rd, more), t) = ComesTo(rd, t)
<1> DEFINE k == Len(rd)
           rd2 == Append(rd, more)
           w == Worths[k]
           x == Radix[k + 1]
           s == Sums(Filled(rd))[k]
           s2 == Sums(Filled(rd2))
           v == more.val
<1>1. /\ rd2 \in Readings /\ Len(rd2) = k + 1 /\ rd2[k + 1] = more
      /\ \A i \in 1 .. k : rd2[i] = rd[i]
    BY AppendProperties DEF Readings
<1>2. k \in Nat /\ k + 1 \in 1 .. Len(Radix) /\ k \in 0 .. Len(Radix)
    BY RadixSizes DEF Readings
<1>3. w \in Nat \ {0} /\ x \in Nat \ {0} /\ Worths[k + 1] = w * x /\ k + 1 - 1 = k
    BY <1>2, WorthsStep, RadixSizes
<1>4. Worth(k + 1) = w /\ Worth(Len(rd2) + 1) = w * x
  <2>1. k + 1 + 1 - 1 = k + 1
    BY <1>2
  <2> QED
    BY <1>1, <1>3, <2>1 DEF Worth
<1>5. Registers = 1 .. Len(Radix)
    BY ClockAssumption DEF Registers
<1> HIDE DEF rd2
<1>6. Filled(rd) \in [Registers -> Nat] /\ Filled(rd2) \in [Registers -> Nat]
    BY <1>1, FilledTypes
<1>7. \A r \in 1 .. k : Filled(rd)[r] = Filled(rd2)[r]
  <2> SUFFICES ASSUME NEW r \in 1 .. k
               PROVE  Filled(rd)[r] = Filled(rd2)[r]
    OBVIOUS
  <2>1. r \in Registers /\ r <= k /\ r <= k + 1
    BY <1>2, <1>5
  <2> QED
    BY <1>1, <2>1, FilledTypes
<1>8. Filled(rd2)[k + 1] = v
    BY <1>1, <1>2, <1>5, FilledTypes
<1>9. s2[k] = s
    BY <1>2, <1>6, <1>7, SumsAgree
<1>10. s2[k + 1] = s2[k] + Filled(rd2)[k + 1] * Worth(k + 1)
  <2>1. \A r \in 1 .. Len(Radix) : s2[r] = s2[r - 1] + Filled(rd2)[r] * Worth(r)
    BY <1>6, SumsStep
  <2>2. s2[k + 1] = s2[k + 1 - 1] + Filled(rd2)[k + 1] * Worth(k + 1)
    BY <1>2, <2>1
  <2> HIDE DEF s2, k
  <2> QED
    BY <1>3, <2>2
<1>11. s \in Nat
    BY <1>2, <1>6, SumsStep
<1>12. v = (t \div w) % x
    BY <1>4
<1>13. ComesTo(rd, t) = s + (t \div w) * w
    BY <1>4 DEF ComesTo
<1>14. ComesTo(rd2, t) = s2[k + 1] + (t \div (w * x)) * (w * x)
    BY <1>1, <1>4 DEF ComesTo
<1> HIDE DEF k, w, x, s, s2, v
<1>15. /\ (t \div w) * w = v * w + (t \div (w * x)) * (w * x)
       /\ w * x \in Nat \ {0}
  <2>1. DividesTwice(t, w, x)
    BY <1>3, QuotientTwice
  <2> QED
    BY <1>12, <2>1, Zenon DEF DividesTwice
<1>16. v * w \in Nat /\ (t \div (w * x)) * (w * x) \in Nat
  <2>1. w * x \in Nat \ {0}
    BY <1>15
  <2>2. \A d \in Nat \ {0} : t \div d \in Nat /\ (t \div d) * d \in Nat
    BY SMT
  <2>3. t \div w \in Nat
    BY <1>3, <2>2
  <2>4. v \in Nat
    BY <1>3, <1>12, <2>3, SMT
  <2> QED
    BY <1>3, <2>1, <2>2, <2>4
<1> DEFINE vw == v * w
           slow == (t \div (w * x)) * (w * x)
<1> HIDE DEF vw, slow
<1>17. ComesTo(rd2, t) = (s + vw) + slow
    BY <1>4, <1>8, <1>9, <1>10, <1>14 DEF vw, slow
<1>18. ComesTo(rd, t) = s + (vw + slow)
    BY <1>13, <1>15 DEF vw, slow
<1>19. ComesTo(rd2, t) = ComesTo(rd, t)
    BY <1>11, <1>16, <1>17, <1>18 DEF vw, slow
<1> QED
    BY <1>1, <1>19 DEF k, rd2

\* Before it has begun a reading comes to the time there is.
LEMMA NothingRead ==
    ASSUME NEW t \in Nat
    PROVE  ComesTo(<< >>, t) = t
<1>1. << >> \in Readings /\ Len(<< >>) = 0
    BY DEF Readings
<1>2. Sums(Filled(<< >>))[0] = 0
  <2>1. Filled(<< >>) \in [Registers -> Nat]
    BY <1>1, FilledTypes
  <2> QED
    BY <2>1, SumsStep
<1>3. Worth(0 + 1) = 1
    BY WorthsStep DEF Worth
<1>4. (t \div 1) * 1 = t
    BY SMT
<1> QED
    BY <1>1, <1>2, <1>3, <1>4 DEF ComesTo

\* A register is worth a number of seconds.
LEMMA WorthTypes ==
    ASSUME NEW r \in 1 .. Len(Radix) + 1
    PROVE  Worth(r) \in Nat \ {0}
<1>1. r - 1 \in 0 .. Len(Radix)
    BY RadixSizes
<1> QED
    BY <1>1, WorthsStep DEF Worth

\* What a reading comes to is a time.
LEMMA ComesToTypes ==
    ASSUME NEW rd \in Readings, Len(rd) <= Len(Radix), NEW t \in Nat
    PROVE  ComesTo(rd, t) \in Nat
<1> DEFINE k == Len(rd)
           w == Worth(k + 1)
           s == Sums(Filled(rd))[k]
<1>1. k \in Nat /\ k \in 0 .. Len(Radix) /\ k + 1 \in 1 .. Len(Radix) + 1
    BY RadixSizes DEF Readings
<1>2. s \in Nat
    BY <1>1, FilledTypes, SumsStep
<1>3. w \in Nat \ {0}
    BY <1>1, WorthTypes
<1>4. ComesTo(rd, t) = s + (t \div w) * w
    BY DEF ComesTo
<1> HIDE DEF s, w
<1>5. (t \div w) * w \in Nat
    BY <1>3, SMT
<1> QED
    BY <1>2, <1>4, <1>5

\* Before anything is read it holds.
LEMMA ClockStarts == ClockInit => ClockInv
<1> SUFFICES ASSUME ClockInit
             PROVE  ClockInv
    OBVIOUS
<1>1. Worth(3) \in Nat
    BY WorthTypes, RadixSizes
<1>2. now \in Nat /\ now <= StartTime + Worth(3) + MaxSeconds /\ began = now /\ reading = << >>
    BY <1>1, RadixSizes DEF ClockInit
<1>3. ComesTo(reading, now) = now
    BY <1>2, NothingRead
<1>4. reading \in Readings /\ Len(reading) = 0
    BY <1>2 DEF Readings
<1> QED
    BY <1>2, <1>3, <1>4, RadixSizes DEF ClockInv, ClockTypes

\* A second that passes and a register that is read preserve it.
LEMMA ClockSteps ==
    ASSUME ClockInv, [ClockNext]_clockVars
    PROVE  ClockInv'
<1>0. /\ now \in Nat /\ began \in Nat /\ began <= now
      /\ reading \in Readings /\ Len(reading) <= Len(Radix) /\ Len(reading) \in Nat
    BY DEF ClockInv, ClockTypes, Readings
<1>1. ASSUME UNCHANGED clockVars
      PROVE  ClockInv'
    BY <1>1 DEF ClockInv, ClockTypes, clockVars
<1>2. ASSUME second
      PROVE  ClockInv'
  <2> DEFINE w == Worth(Len(reading) + 1)
             s == Sums(Filled(reading))[Len(reading)]
  <2>1. /\ now < StartTime + MaxSeconds /\ now' = now + 1 /\ reading' = reading
        /\ began' = began
    BY <1>2 DEF second
  <2>2. Worth(3) \in Nat
    BY WorthTypes, RadixSizes
  <2>3. ClockTypes'
    BY <1>0, <2>1, <2>2, RadixSizes DEF ClockInv, ClockTypes
  <2>4. w \in Nat \ {0} /\ Worth(2) \in Nat \ {0} /\ s \in Nat
    <3>1. Len(reading) + 1 \in 1 .. Len(Radix) + 1 /\ 2 \in 1 .. Len(Radix) + 1
          /\ Len(reading) \in 0 .. Len(Radix)
        BY <1>0, RadixSizes
    <3> QED
        BY <1>0, <3>1, WorthTypes, FilledTypes, SumsStep
  <2>5. ComesTo(reading, now) = s + (now \div w) * w
        /\ ComesTo(reading', now') = s + ((now + 1) \div w) * w
    BY <2>1 DEF ComesTo
  <2> DEFINE a == now \div w
             b == (now + 1) \div w
  <2>6. a \in Nat /\ b \in Nat /\ a <= b
    <3>1. now \in Nat /\ now + 1 \in Nat /\ now <= now + 1 /\ w \in Nat \ {0}
        BY <1>0, <2>4
    <3> HIDE DEF w
    <3> QED
        BY <3>1, QuotientsOfAll, Zenon
  <2>7. ComesTo(reading', now') >= began'
    <3> HIDE DEF a, b, w, s
    <3>1. a * w \in Nat /\ b * w \in Nat /\ a * w <= b * w
      <4>1. (b - a) * w >= 0 /\ (b - a) * w = b * w - a * w
        BY <2>4, <2>6, SMT
      <4>2. a * w \in Nat /\ b * w \in Nat
        BY <2>4, <2>6
      <4> QED
        BY <4>1, <4>2
    <3>2. ComesTo(reading, now) = s + a * w /\ ComesTo(reading', now') = s + b * w
        BY <2>5 DEF a, b
    <3>3. s + a * w >= began
        BY <3>2 DEF ClockInv
    <3>4. s + b * w >= began
      <4> DEFINE aw == a * w
                 bw == b * w
      <4> HIDE DEF aw, bw
      <4>1. aw \in Nat /\ bw \in Nat /\ aw <= bw /\ s + aw >= began
        BY <3>1, <3>3 DEF aw, bw
      <4>2. s + bw >= began
        BY <1>0, <2>4, <4>1
      <4> QED
        BY <4>2 DEF bw
    <3> QED
        BY <2>1, <3>2, <3>4
  <2>8. ASSUME Len(reading') >= 1, began' \div Worth(2) = now' \div Worth(2)
        PROVE  ComesTo(reading', now') = began'
    <3>1. began \div Worth(2) <= now \div Worth(2)
          /\ now \div Worth(2) <= (now + 1) \div Worth(2)
          /\ began \div Worth(2) \in Nat /\ now \div Worth(2) \in Nat
          /\ (now + 1) \div Worth(2) \in Nat
      <4>1. now \in Nat /\ now + 1 \in Nat /\ now <= now + 1 /\ began \in Nat /\ began <= now
            /\ Worth(2) \in Nat \ {0}
        BY <1>0, <2>4
      <4> QED
        BY <4>1, QuotientsOfAll, Zenon
    <3>2. began \div Worth(2) = now \div Worth(2)
          /\ now \div Worth(2) = (now + 1) \div Worth(2)
        BY <2>1, <2>8, <3>1
    <3>3. now \div w = (now + 1) \div w
      <4>1. Len(reading) \in 1 .. Len(Radix)
        BY <1>0, <2>1, <2>8, RadixSizes
      <4>2. now + 1 \in Nat
        BY <1>0
      <4> QED
        BY <1>0, <3>2, <4>1, <4>2, SlowTogether
    <3>4. ComesTo(reading, now) = began
        BY <2>1, <2>8, <3>2 DEF ClockInv
    <3> QED
        BY <2>1, <2>5, <3>3, <3>4
  <2> QED
    BY <2>3, <2>7, <2>8 DEF ClockInv
<1>3. ASSUME rtc_read
      PROVE  ClockInv'
  <2> DEFINE r == Len(reading) + 1
             v == (now \div Worth(r)) % Radix[r]
             more == [reg |-> r, val |-> v]
  <2>1. Len(reading) < Len(Radix) /\ r \in 1 .. Len(Radix) /\ r \in 1 .. Len(Radix) + 1
        /\ r \in Nat
    BY <1>0, <1>3, RadixSizes DEF rtc_read
  <2>2. v \in Nat
    <3>1. Worth(r) \in Nat \ {0} /\ Radix[r] \in Nat \ {0}
        BY <2>1, WorthTypes, RadixSizes
    <3>2. now \div Worth(r) \in Nat
        BY <1>0, <3>1, QuotientGrows
    <3> HIDE DEF r
    <3> QED
        BY <3>1, <3>2, SMT
  <2>3. reading' = Append(reading, [reg |-> r, val |-> bcd2bin(Digits(v))])
    BY <1>3 DEF rtc_read, NextRegister, rtc
  <2> HIDE DEF v
  <2>4. reading' = Append(reading, more)
    BY <2>2, <2>3, DigitsUndone
  <2>5. more \in RegisterRead /\ more.val = v /\ more.reg = r
    BY <2>1, <2>2 DEF RegisterRead
  <2>6. now' = now /\ began' = IF reading = << >> THEN now ELSE began
    BY <1>3 DEF rtc_read
  <2> HIDE DEF more
  <2>7. /\ reading' \in Readings /\ Len(reading') = Len(reading) + 1
        /\ ComesTo(reading', now) = ComesTo(reading, now)
    BY <1>0, <2>1, <2>4, <2>5, ReadingOn DEF v
  <2>8. ClockTypes'
    <3>1. \A i \in 1 .. Len(reading') : reading'[i].reg = i
      <4> SUFFICES ASSUME NEW i \in 1 .. Len(reading')
                   PROVE  reading'[i].reg = i
        OBVIOUS
      <4>1. CASE i = Len(reading) + 1
        BY <1>0, <2>4, <2>5, <4>1, AppendProperties DEF Readings
      <4>2. CASE i # Len(reading) + 1
        <5>1. i \in 1 .. Len(reading)
            BY <1>0, <2>7, <4>2
        <5>2. reading'[i] = reading[i]
            BY <1>0, <2>4, <2>5, <5>1, AppendProperties DEF Readings
        <5> QED
            BY <5>1, <5>2 DEF ClockInv, ClockTypes
      <4> QED
        BY <4>1, <4>2
    <3>2. Len(reading') <= Len(Radix)
        BY <1>0, <2>1, <2>7, RadixSizes
    <3>3. began' \in Nat /\ began' <= now'
        BY <1>0, <2>6
    <3> QED
        BY <2>6, <2>7, <3>1, <3>2, <3>3 DEF ClockInv, ClockTypes
  <2>9. CASE reading = << >>
    <3>1. ComesTo(reading, now) = now
        BY <1>0, <2>9, NothingRead
    <3>2. ComesTo(reading', now') = began'
        BY <2>6, <2>7, <2>9, <3>1
    <3> QED
        BY <1>0, <2>6, <2>8, <2>9, <3>2 DEF ClockInv
  <2>10. CASE reading # << >>
    <3>1. Len(reading) >= 1
        BY <1>0, <2>10, EmptySeq DEF Readings
    <3> QED
        BY <2>6, <2>7, <2>8, <2>10, <3>1 DEF ClockInv
  <2> QED
    BY <2>9, <2>10
<1>4. ASSUME ax_time_now
      PROVE  ClockInv'
  <2>1. reading' = << >> /\ now' = now /\ began' = began
    BY <1>4 DEF ax_time_now
  <2>2. ComesTo(reading', now') = now
    BY <1>0, <2>1, NothingRead
  <2>3. reading' \in Readings /\ Len(reading') = 0
    BY <2>1 DEF Readings
  <2> QED
    BY <1>0, <2>1, <2>2, <2>3, RadixSizes DEF ClockInv, ClockTypes
<1> QED
    BY <1>1, <1>2, <1>3, <1>4 DEF ClockNext

\* When all registers are read it says what the value is worth.
LEMMA ClockIsRight == ClockInv => NeverBehind
<1> SUFFICES ASSUME ClockInv, Len(reading) = Len(Radix)
             PROVE  /\ Value(Fields) >= began
                    /\ began \div Worth(2) = now \div Worth(2) => Value(Fields) <= now
    BY DEF NeverBehind
<1> DEFINE n == Len(Radix)
<1>0. /\ now \in Nat /\ began \in Nat /\ began <= now
      /\ now <= StartTime + Worth(3) + MaxSeconds
      /\ reading \in Readings /\ n \in Nat /\ n >= 2
    BY RadixSizes DEF ClockInv, ClockTypes
<1>1. Registers = 1 .. n
    BY ClockAssumption DEF Registers
<1>2. Fields = Filled(reading)
  <2>1. ASSUME NEW r \in 1 .. n
        PROVE  (CHOOSE f \in ToSet(reading) : f.reg = r) = reading[r]
    <3>1. ToSet(reading) = {reading[i] : i \in 1 .. n}
        BY <1>0 DEF ToSet, Readings
    <3>2. \A i \in 1 .. n : reading[i].reg = i
        BY DEF ClockInv, ClockTypes
    <3>3. reading[r] \in ToSet(reading) /\ reading[r].reg = r
        BY <3>1, <3>2
    <3>4. \A f \in ToSet(reading) : f.reg = r => f = reading[r]
        BY <3>1, <3>2
    <3> QED
        BY <3>3, <3>4
  <2>2. \A r \in 1 .. n : r <= Len(reading)
    BY <1>0
  <2>3. \A r \in Registers : (CHOOSE f \in ToSet(reading) : f.reg = r).val
                             = IF r <= Len(reading) THEN reading[r].val ELSE 0
    <3> SUFFICES ASSUME NEW r \in Registers
                 PROVE  (CHOOSE f \in ToSet(reading) : f.reg = r).val
                          = IF r <= Len(reading) THEN reading[r].val ELSE 0
        OBVIOUS
    <3>1. r \in 1 .. n /\ r <= Len(reading)
        BY <1>1, <2>2
    <3> DEFINE c == CHOOSE f \in ToSet(reading) : f.reg = r
    <3>2. c = reading[r]
        BY <2>1, <3>1
    <3> HIDE DEF c
    <3>3. c.val = IF r <= Len(reading) THEN reading[r].val ELSE 0
        BY <3>1, <3>2
    <3> QED
        BY <3>3 DEF c
  <2> QED
    BY <2>3, Zenon DEF Fields, Filled
<1>3. Worth(n + 1) \in Nat \ {0} /\ Worth(3) \in Nat
    BY <1>0, WorthTypes
<1>4. now \in 0 .. Worth(n + 1) - 1
    BY <1>0, <1>3, CenturyAssumption, RadixSizes
<1>5. now \div Worth(n + 1) = 0
    BY <1>3, <1>4, QuotientSmall
<1>6. Value(Fields) \in Nat
    BY <1>0, <1>2, FilledTypes, SumsStep DEF Value
<1>7. ComesTo(reading, now) = Value(Fields)
  <2>1. ComesTo(reading, now) = Value(Fields) + 0 * Worth(n + 1)
    BY <1>2, <1>5 DEF ComesTo, Value
  <2> QED
    BY <1>3, <1>6, <2>1
<1> QED
    BY <1>0, <1>6, <1>7 DEF ClockInv

\* However long the reading takes, and wherever a carry comes in between: the time
\* that is read is not before the reading began, and within a minute not ahead.
THEOREM ClockNeverBehind == ClockSpec => []NeverBehind
<1>1. ClockInv /\ [ClockNext]_clockVars => ClockInv'
    BY ClockSteps
<1>2. ClockSpec => []ClockInv
    BY ClockStarts, <1>1, PTL DEF ClockSpec
<1> QED
    BY <1>2, ClockIsRight, PTL

-----------------------------------------------------------------------------
(* Dev. *)

DevTypes ==
    /\ devices \in Seq(DeviceSet) /\ num_devices <= MAX_DEVICES
    /\ inode \in [DeviceSet -> Nat]

\* Each registered device is there once, has its node, and shares its name with
\* no other; its node's inode is its place as long as none was removed.
NamedApart ==
    \A i, j \in 1 .. num_devices : SameName(devices[i], devices[j]) => i = j

NodesThere ==
    \A i \in 1 .. num_devices :
        devices[i] \notin freed /\ (~removed => inode[devices[i]] = i)

DevInv == DevTypes /\ NamedApart /\ NodesThere

DevSpec == DevInit /\ [][DevNext]_devVars

\* What is listed is found, whatever the devices are called and whichever names
\* end: a name in the directory leads to the device that is listed under it.
THEOREM DevicesAreFound == DevSpec => []ListedIsFound
<1>1. DevInit => DevInv
    BY DevAssumption DEF DevInit, DevInv, DevTypes, NamedApart, NodesThere, num_devices
<1>2. DevInv /\ [DevNext]_devVars => DevInv'
  <2> SUFFICES ASSUME DevInv, [DevNext]_devVars
               PROVE  DevInv'
    OBVIOUS
  <2>1. CASE UNCHANGED <<devices, inode, freed, removed, ended>>
    BY <2>1 DEF DevInv, DevTypes, NamedApart, NodesThere, num_devices, SameName
  <2>2. ASSUME NEW d \in DeviceSet, ended' = ended, num_devices < MAX_DEVICES, ~NameTaken(d),
               devices' = Append(devices, d), inode' = [inode EXCEPT ![d] = num_devices + 1],
               freed' = freed \ {d}, removed' = removed
        PROVE  DevInv'
    <3> DEFINE n == num_devices
    <3>1. n \in Nat /\ n = Len(devices) /\ devices \in Seq(DeviceSet)
        BY DEF DevInv, DevTypes, num_devices
    <3>2. Len(devices') = n + 1 /\ devices' \in Seq(DeviceSet)
          /\ \A i \in 1 .. n + 1 : devices'[i] = IF i = n + 1 THEN d ELSE devices[i]
        BY <2>2, <3>1
    <3>3. \A i \in 1 .. n : ~SameName(d, devices[i]) /\ ~SameName(devices[i], d) /\ devices[i] # d
        BY <2>2, <3>1 DEF NameTaken, Registered, ToSet, SameName
    <3>4. DevTypes'
        BY <2>2, <3>1, <3>2, DevAssumption DEF DevInv, DevTypes, num_devices
    <3>5. NamedApart'
      <4>1. ASSUME NEW i \in 1 .. n + 1, NEW j \in 1 .. n + 1,
                   SameName(devices'[i], devices'[j])
            PROVE  i = j
        <5>1. CASE i = n + 1 \/ j = n + 1
            BY <3>1, <3>2, <3>3, <4>1, <5>1
        <5>2. CASE i # n + 1 /\ j # n + 1
          <6>1. i \in 1 .. n /\ j \in 1 .. n
            BY <3>1, <5>2
          <6> QED
            BY <3>2, <4>1, <5>2, <6>1 DEF DevInv, NamedApart
        <5> QED
            BY <5>1, <5>2
      <4> QED
        BY <2>2, <3>2, <4>1 DEF NamedApart, num_devices, SameName
    <3>6. NodesThere'
      <4>1. ASSUME NEW i \in 1 .. n + 1
            PROVE  devices'[i] \notin freed' /\ (~removed' => inode'[devices'[i]] = i)
        <5>1. CASE i = n + 1
            BY <2>2, <3>1, <3>2, <5>1 DEF DevInv, DevTypes
        <5>2. CASE i # n + 1
          <6>1. i \in 1 .. n
            BY <3>1, <5>2
          <6>2. devices'[i] = devices[i] /\ devices[i] # d
            BY <3>2, <3>3, <5>2, <6>1
          <6> QED
            BY <2>2, <6>1, <6>2 DEF DevInv, DevTypes, NodesThere
        <5> QED
            BY <5>1, <5>2
      <4> QED
        BY <3>2, <4>1 DEF NodesThere, num_devices
    <3> QED
        BY <3>4, <3>5, <3>6 DEF DevInv
  <2>3. ASSUME NEW d \in DeviceSet, ended' = ended, NEW i \in 1 .. num_devices, devices[i] = d,
               devices' = RemoveAt(devices, i), freed' = freed \cup {d}, removed' = TRUE,
               inode' = inode
        PROVE  DevInv'
    <3> DEFINE n == num_devices
               old(k) == IF k < i THEN k ELSE k + 1
    <3>1. n \in Nat /\ n = Len(devices) /\ devices \in Seq(DeviceSet) /\ i \in 1 .. Len(devices)
        BY DEF DevInv, DevTypes, num_devices
    <3>2. Len(devices') = n - 1 /\ devices' \in Seq(DeviceSet)
          /\ \A k \in 1 .. n - 1 : devices'[k] = devices[old(k)]
        BY <2>3, <3>1, RemoveAtMoves
    <3>3. \A k \in 1 .. n - 1 : old(k) \in 1 .. n /\ old(k) # i
        BY <3>1
    <3>4. \A k, l \in 1 .. n - 1 : old(k) = old(l) => k = l
        BY <3>1
    <3>5. DevTypes'
        BY <2>3, <3>1, <3>2, DevAssumption DEF DevInv, DevTypes, num_devices
    <3> HIDE DEF old
    <3>6. NamedApart'
      <4>1. ASSUME NEW k \in 1 .. n - 1, NEW l \in 1 .. n - 1,
                   SameName(devices'[k], devices'[l])
            PROVE  k = l
        <5>1. old(k) = old(l)
            BY <3>2, <3>3, <4>1 DEF DevInv, NamedApart
        <5> QED
            BY <3>4, <5>1
      <4> QED
        BY <2>3, <3>2, <4>1 DEF NamedApart, num_devices, SameName
    <3>7. NodesThere'
      <4>1. ASSUME NEW k \in 1 .. n - 1
            PROVE  devices'[k] \notin freed'
        <5>1. devices[old(k)] # d
            BY <2>3, <3>3 DEF DevInv, NamedApart, SameName
        <5> QED
            BY <2>3, <3>2, <3>3, <5>1 DEF DevInv, NodesThere
      <4> QED
        BY <2>3, <3>2, <4>1 DEF NodesThere, num_devices
    <3> QED
        BY <3>5, <3>6, <3>7 DEF DevInv
  <2>4. CASE DevNext
    <3>1. PICK d \in DeviceSet : (dev_register(d) \/ dev_unregister(d)) /\ UNCHANGED ended
        BY <2>4 DEF DevNext
    <3>2. CASE dev_register(d)
        BY <2>1, <2>2, <3>1, <3>2 DEF dev_register
    <3>3. CASE dev_unregister(d)
        BY <2>1, <2>3, <3>1, <3>3 DEF dev_unregister
    <3> QED
        BY <3>1, <3>2, <3>3
  <2>5. CASE UNCHANGED devVars
    BY <2>1, <2>5 DEF devVars
  <2> QED
    BY <2>4, <2>5
<1>3. DevInv => ListedIsFound
  <2> SUFFICES ASSUME DevInv
               PROVE  ListedIsFound
    OBVIOUS
  <2>1. num_devices \in Nat /\ DOMAIN devices = 1 .. num_devices /\ num_devices <= MAX_DEVICES
    BY DEF DevInv, DevTypes, num_devices
  <2>2. IsInjective(devices)
    BY <2>1 DEF IsInjective, DevInv, NamedApart, SameName
  <2>3. ASSUME NEW i \in 0 .. num_devices - 1
        PROVE  LET d == devices[i + 1]
               IN  /\ d \notin freed
                   /\ d \in ended => dev_find(devfs_readdir(i).name) = <<d>>
                   /\ ~removed => inode[d] = devfs_readdir(i).ino
    <3> DEFINE d == devices[i + 1]
               name == DeviceName[d]
               named == {k \in 1 .. num_devices :
                           devices[k] \in ended /\ DeviceName[devices[k]] = name}
               first == CHOOSE k \in named : \A j \in named : k <= j
    <3>1. i + 1 \in 1 .. num_devices
        BY <2>1
    <3>2. devfs_readdir(i).name = name /\ devfs_readdir(i).ino = i + 1
        BY DEF devfs_readdir
    <3>3. d \notin freed /\ (~removed => inode[d] = i + 1)
        BY <3>1 DEF DevInv, NodesThere
    <3>4. ASSUME d \in ended
          PROVE  dev_find(name) = <<d>>
      <4>1. i + 1 \in named
        BY <3>1, <3>4
      <4>2. \A k \in named : k = i + 1
        BY <3>1, <3>4 DEF DevInv, NamedApart, SameName
      <4>3. first = i + 1
        BY <2>1, <3>1, <4>1, <4>2
      <4>4. dev_find(name) = IF named = {} THEN << >> ELSE <<devices[first]>>
        BY DEF dev_find
      <4> QED
        BY <4>1, <4>3, <4>4
    <3> QED
        BY <3>2, <3>3, <3>4
  <2> QED
    BY <2>1, <2>2, <2>3 DEF ListedIsFound
<1> QED
    BY <1>1, <1>2, <1>3, PTL DEF DevSpec

-----------------------------------------------------------------------------
(* Malloc. *)

Block == [at : Nat, size : Nat, free : BOOLEAN]

EndOf(b) == b.at + HeaderUnits + b.size

\* The blocks cut the range from 0 to HeapUnits.
Tiled(ch) ==
    /\ ch \in Seq(Block) /\ Len(ch) >= 1 /\ ch[1].at = 0
    /\ \A i \in 1 .. Len(ch) : EndOf(ch[i]) = IF i = Len(ch) THEN HeapUnits ELSE ch[i + 1].at
    /\ HeapUnits > HeaderUnits => \A i \in 1 .. Len(ch) : ch[i].size > 0

\* The blocks in use, and those beside block i.
Taking(ch) == {ch[j] : j \in {k \in 1 .. Len(ch) : ~ch[k].free}}
Others(ch, i) == {ch[j] : j \in {k \in 1 .. Len(ch) : k # i /\ ~ch[k].free}}

\* The blocks in use are those that clients hold, and are as large as they asked.
Held(ch, ln) ==
    /\ {b.at : b \in Taking(ch)} = DOMAIN ln
    /\ \A b \in Taking(ch) : b.size >= ln[b.at]

MallocInv == ~Expanded => Tiled(chain) /\ Held(chain, lent)

\* The sizes of the range and of a header, as the proofs use them.
LEMMA UnitsTypes == HeapUnits \in Nat /\ HeaderUnits \in Nat \ {0} /\ HeaderUnits <= HeapUnits
BY MallocAssumption

\* The fields of a block.
LEMMA BlockTypes ==
    ASSUME NEW ch \in Seq(Block), NEW i \in 1 .. Len(ch)
    PROVE  /\ ch[i] \in Block /\ ch[i].at \in Nat /\ ch[i].size \in Nat /\ ch[i].free \in BOOLEAN
           /\ Len(ch) \in Nat /\ DOMAIN ch = 1 .. Len(ch)
<1>1. ch[i] \in Block
    OBVIOUS
<1> QED
    BY <1>1 DEF Block

\* A block ends behind where it begins.
LEMMA EndTypes ==
    ASSUME NEW b \in Block
    PROVE  EndOf(b) \in Nat /\ b.at \in Nat /\ b.at < EndOf(b)
<1> DEFINE x == b.at
           y == b.size
<1>1. x \in Nat /\ y \in Nat
    BY DEF Block
<1>2. EndOf(b) = x + HeaderUnits + y
    BY DEF EndOf
<1> HIDE DEF x, y
<1>3. EndOf(b) \in Nat /\ x < EndOf(b)
    BY <1>1, <1>2, UnitsTypes
<1> QED
    BY <1>1, <1>3 DEF x

\* Blocks lie in the order of the chain.
LEMMA TiledAscends ==
    ASSUME NEW ch, Tiled(ch), NEW i \in 1 .. Len(ch), NEW j \in 1 .. Len(ch), i < j
    PROVE  EndOf(ch[i]) <= ch[j].at /\ ch[i].at < ch[j].at
<1> DEFINE n == Len(ch)
           T == {k \in 0 .. n : k > i => EndOf(ch[i]) <= ch[k].at}
<1>1. n \in Nat /\ ch \in Seq(Block)
    BY DEF Tiled
<1>2. 0 \in T
    BY <1>1
<1>3. ASSUME NEW k \in 1 .. n, k - 1 \in T
      PROVE  k \in T
  <2> SUFFICES ASSUME k > i
               PROVE  EndOf(ch[i]) <= ch[k].at
    BY <1>1
  <2>1. k - 1 \in 1 .. n /\ k - 1 # n /\ k - 1 + 1 = k
    BY <1>1
  <2>2. EndOf(ch[k - 1]) = ch[k].at
    BY <2>1 DEF Tiled
  <2>3. CASE k - 1 = i
    <3>1. EndOf(ch[i]) = ch[k].at /\ ch[k].at \in Nat
        BY <1>1, <2>2, <2>3, BlockTypes
    <3> QED
        BY <3>1
  <2>4. CASE k - 1 # i
    <3>1. EndOf(ch[i]) <= ch[k - 1].at
        BY <1>1, <1>3, <2>1, <2>4
    <3>2. EndOf(ch[i]) \in Nat /\ ch[k - 1].at \in Nat /\ EndOf(ch[k - 1]) \in Nat
          /\ ch[k - 1].at < EndOf(ch[k - 1])
        BY <1>1, <2>1, BlockTypes, EndTypes
    <3> QED
        BY <2>2, <3>1, <3>2
  <2> QED
    BY <2>3, <2>4
<1> HIDE DEF T
<1>4. \A k \in 0 .. n : k \in T
  <2>1. \A k \in 1 .. n : k - 1 \in T => k \in T
    BY <1>3
  <2> QED
    BY <1>1, <1>2, <2>1, UpTo
<1>5. EndOf(ch[i]) <= ch[j].at
    BY <1>1, <1>4 DEF T
<1>6. EndOf(ch[i]) \in Nat /\ ch[i].at \in Nat /\ ch[i].at < EndOf(ch[i]) /\ ch[j].at \in Nat
    BY <1>1, BlockTypes, EndTypes
<1> QED
    BY <1>5, <1>6

\* So a block is known by where it lies.
LEMMA TiledApart ==
    ASSUME NEW ch, Tiled(ch), NEW i \in 1 .. Len(ch), NEW j \in 1 .. Len(ch),
           ch[i].at = ch[j].at
    PROVE  i = j
<1>1. ch[i].at \in Nat
    BY BlockTypes DEF Tiled
<1>2. ~(i < j)
    BY <1>1, TiledAscends
<1>3. ~(j < i)
    BY <1>1, TiledAscends
<1>4. i \in Nat /\ j \in Nat
    BY DEF Tiled
<1> QED
    BY <1>2, <1>3, <1>4

\* The address of a block finds it.
LEMMA BlockAtIs ==
    ASSUME NEW ch, Tiled(ch), NEW i \in 1 .. Len(ch)
    PROVE  BlockAt(ch, ch[i].at) = i
<1>1. DOMAIN ch = 1 .. Len(ch)
    BY DEF Tiled
<1>2. \A j \in DOMAIN ch : ch[j].at = ch[i].at => j = i
    BY <1>1, TiledApart
<1> QED
    BY <1>1, <1>2 DEF BlockAt

\* Block i and the n behind it are one: ch2 is what ch becomes.
Joins(ch, ch2, i, n, b) ==
    /\ ch2 \in Seq(Block) /\ Len(ch2) = Len(ch) - n
    /\ \A j \in 1 .. Len(ch) - n :
         ch2[j] = IF j < i THEN ch[j] ELSE IF j = i THEN b ELSE ch[j + n]

\* Blocks made one cut the range as well as before.
LEMMA JoinTiles ==
    ASSUME NEW ch, Tiled(ch), NEW i \in 1 .. Len(ch), NEW n \in 0 .. Len(ch) - i, NEW b \in Block,
           b.at = ch[i].at, b.size >= ch[i].size, EndOf(b) = EndOf(ch[i + n]),
           NEW ch2, Joins(ch, ch2, i, n, b)
    PROVE  Tiled(ch2) /\ i \in 1 .. Len(ch2) /\ ch2[i] = b
<1>1. /\ ch \in Seq(Block) /\ Len(ch) \in Nat /\ i + n \in 1 .. Len(ch) /\ n \in Nat
      /\ ch2 \in Seq(Block) /\ Len(ch2) = Len(ch) - n /\ i \in 1 .. Len(ch2)
      /\ Len(ch2) \in Nat /\ Len(ch2) >= 1 /\ 1 \in 1 .. Len(ch2)
    BY DEF Tiled, Joins
<1>2. \A j \in 1 .. Len(ch2) : ch2[j] = IF j < i THEN ch[j] ELSE IF j = i THEN b ELSE ch[j + n]
    BY <1>1 DEF Joins
<1>3. ch2[1].at = 0
  <2>1. ch[1].at = 0
    BY DEF Tiled
  <2>2. CASE i = 1
    BY <1>1, <1>2, <2>1, <2>2
  <2>3. CASE i # 1
    BY <1>1, <1>2, <2>1, <2>3
  <2> QED
    BY <2>2, <2>3
<1>4. ASSUME NEW j \in 1 .. Len(ch2)
      PROVE  EndOf(ch2[j]) = IF j = Len(ch2) THEN HeapUnits ELSE ch2[j + 1].at
  <2>1. CASE j < i
    <3>1. j \in 1 .. Len(ch) /\ j # Len(ch) /\ j # Len(ch2) /\ j + 1 \in 1 .. Len(ch2)
        BY <1>1, <2>1
    <3>2. EndOf(ch[j]) = ch[j + 1].at
        BY <3>1 DEF Tiled
    <3>3. ch2[j] = ch[j]
        BY <1>2, <2>1
    <3>4. ch2[j + 1].at = ch[j + 1].at
      <4>1. CASE j + 1 = i
        BY <1>2, <3>1, <4>1
      <4>2. CASE j + 1 # i
        <5>1. j + 1 < i
            BY <1>1, <2>1, <4>2
        <5> QED
            BY <1>2, <3>1, <5>1
      <4> QED
        BY <4>1, <4>2
    <3> QED
        BY <3>1, <3>2, <3>3, <3>4
  <2>2. CASE j >= i
    <3>1. j + n \in 1 .. Len(ch) /\ (j = Len(ch2) <=> j + n = Len(ch)) /\ ~(j < i)
          /\ (j # Len(ch2) => /\ j + 1 \in 1 .. Len(ch2) /\ ~(j + 1 < i) /\ j + 1 # i
                              /\ j + 1 + n = j + n + 1)
      <4> DEFINE l == Len(ch)
                 l2 == Len(ch2)
      <4>1. l \in Nat /\ l2 \in Nat /\ l2 = l - n /\ n \in Nat /\ i \in Nat /\ 1 <= i /\ j \in 1 .. l2
            /\ j >= i
        BY <1>1, <2>2
      <4> HIDE DEF l, l2
      <4>2. j + n \in 1 .. l /\ (j = l2 <=> j + n = l) /\ ~(j < i)
        BY <4>1
      <4>3. j # l2 => j + 1 \in 1 .. l2 /\ ~(j + 1 < i) /\ j + 1 # i /\ j + 1 + n = j + n + 1
        BY <4>1
      <4> QED
        BY <4>2, <4>3 DEF l, l2
    <3>2. EndOf(ch[j + n]) = IF j + n = Len(ch) THEN HeapUnits ELSE ch[j + n + 1].at
        BY <3>1 DEF Tiled
    <3>3. EndOf(ch2[j]) = EndOf(ch[j + n])
      <4>1. CASE j = i
        BY <1>2, <3>1, <4>1
      <4>2. CASE j # i
        BY <1>2, <3>1, <4>2
      <4> QED
        BY <4>1, <4>2
    <3>4. j # Len(ch2) => ch2[j + 1] = ch[j + n + 1]
        BY <1>2, <3>1
    <3> QED
        BY <3>1, <3>2, <3>3, <3>4
  <2>3. j \in Nat /\ i \in Nat
    BY <1>1
  <2> QED
    BY <2>1, <2>2, <2>3
<1>5. ASSUME HeapUnits > HeaderUnits, NEW j \in 1 .. Len(ch2)
      PROVE  ch2[j].size > 0
  <2>1. \A k \in 1 .. Len(ch) : ch[k].size > 0 /\ ch[k].size \in Nat
    BY <1>1, <1>5, BlockTypes DEF Tiled
  <2>2. CASE j < i
    BY <1>1, <1>2, <2>1, <2>2
  <2>3. CASE j = i
    <3>1. ch2[j] = b /\ b.size \in Nat /\ ch[i].size > 0 /\ ch[i].size \in Nat
        BY <1>2, <2>1, <2>3 DEF Block
    <3> QED
        BY <3>1
  <2>4. CASE ~(j < i) /\ j # i
    <3>1. j + n \in 1 .. Len(ch)
        BY <1>1, <2>4
    <3> QED
        BY <1>2, <2>1, <2>4, <3>1
  <2> QED
    BY <2>2, <2>3, <2>4
<1> QED
    BY <1>1, <1>2, <1>3, <1>4, <1>5 DEF Tiled

\* If those behind are free, the other blocks in use stay what they are.
LEMMA JoinOthers ==
    ASSUME NEW ch, Tiled(ch), NEW i \in 1 .. Len(ch), NEW n \in 0 .. Len(ch) - i, NEW b,
           NEW ch2, Joins(ch, ch2, i, n, b), \A k \in i + 1 .. i + n : ch[k].free
    PROVE  Others(ch2, i) = Others(ch, i)
<1>1. /\ Len(ch) \in Nat /\ i \in Nat /\ n \in Nat /\ Len(ch2) = Len(ch) - n /\ Len(ch2) \in Nat
      /\ Len(ch2) >= i
    BY DEF Tiled, Joins
<1>2. \A j \in 1 .. Len(ch2) : ch2[j] = IF j < i THEN ch[j] ELSE IF j = i THEN b ELSE ch[j + n]
    BY <1>1 DEF Joins
<1>3. ASSUME NEW j \in 1 .. Len(ch2), j # i, ~ch2[j].free
      PROVE  \E k \in 1 .. Len(ch) : k # i /\ ~ch[k].free /\ ch[k] = ch2[j]
  <2>1. CASE j < i
    <3>1. j \in 1 .. Len(ch) /\ ch2[j] = ch[j]
        BY <1>1, <1>2, <2>1
    <3> QED
        BY <1>3, <3>1
  <2>2. CASE ~(j < i)
    <3>1. j + n \in 1 .. Len(ch) /\ j + n # i /\ ch2[j] = ch[j + n]
        BY <1>1, <1>2, <1>3, <2>2
    <3> QED
        BY <1>3, <3>1
  <2> QED
    BY <2>1, <2>2
<1>4. ASSUME NEW k \in 1 .. Len(ch), k # i, ~ch[k].free
      PROVE  \E j \in 1 .. Len(ch2) : j # i /\ ~ch2[j].free /\ ch2[j] = ch[k]
  <2>1. CASE k < i
    <3>1. k \in 1 .. Len(ch2) /\ ch2[k] = ch[k]
        BY <1>1, <1>2, <2>1
    <3> QED
        BY <1>4, <3>1
  <2>2. CASE ~(k < i)
    <3>1. k \notin i + 1 .. i + n
        BY <1>4
    <3>2. k - n \in 1 .. Len(ch2) /\ ~(k - n < i) /\ k - n # i /\ k - n + n = k
        BY <1>1, <1>4, <2>2, <3>1
    <3>3. ch2[k - n] = ch[k]
        BY <1>2, <3>2
    <3> QED
        BY <1>4, <3>2, <3>3
  <2> QED
    BY <2>1, <2>2
<1>5. Others(ch2, i) \subseteq Others(ch, i)
  <2> SUFFICES ASSUME NEW x \in Others(ch2, i)
               PROVE  x \in Others(ch, i)
    OBVIOUS
  <2>1. PICK j \in 1 .. Len(ch2) : j # i /\ ~ch2[j].free /\ x = ch2[j]
    BY DEF Others
  <2>2. PICK k \in 1 .. Len(ch) : k # i /\ ~ch[k].free /\ ch[k] = ch2[j]
    BY <1>3, <2>1
  <2> QED
    BY <2>1, <2>2 DEF Others
<1>6. Others(ch, i) \subseteq Others(ch2, i)
  <2> SUFFICES ASSUME NEW x \in Others(ch, i)
               PROVE  x \in Others(ch2, i)
    OBVIOUS
  <2>1. PICK j \in 1 .. Len(ch) : j # i /\ ~ch[j].free /\ x = ch[j]
    BY DEF Others
  <2>2. PICK k \in 1 .. Len(ch2) : k # i /\ ~ch2[k].free /\ ch2[k] = ch[j]
    BY <1>4, <2>1
  <2> QED
    BY <2>1, <2>2 DEF Others
<1> QED
    BY <1>5, <1>6

MarkedAs(ch, ch2, i, f) ==
    /\ Tiled(ch2) /\ Len(ch2) = Len(ch) /\ Others(ch2, i) = Others(ch, i)
    /\ ch2[i].at = ch[i].at /\ ch2[i].size = ch[i].size /\ ch2[i].free = f

\* A block that changes only in its flag.
LEMMA MarkKeeps ==
    ASSUME NEW ch, Tiled(ch), NEW i \in 1 .. Len(ch), NEW f \in BOOLEAN
    PROVE  MarkedAs(ch, [ch EXCEPT ![i].free = f], i, f)
<1> DEFINE b == [ch[i] EXCEPT !.free = f]
           ch2 == [ch EXCEPT ![i].free = f]
<1>1. ch \in Seq(Block) /\ ch[i] \in Block
    BY BlockTypes DEF Tiled
<1>2. b \in Block /\ b.at = ch[i].at /\ b.size = ch[i].size /\ b.free = f
    BY <1>1 DEF Block
<1>3. ch2 = [ch EXCEPT ![i] = b]
    OBVIOUS
<1> HIDE DEF b, ch2
<1>4. /\ ch2 \in Seq(Block) /\ Len(ch2) = Len(ch)
      /\ \A j \in 1 .. Len(ch) : ch2[j] = IF j = i THEN b ELSE ch[j]
    BY <1>1, <1>2, <1>3, ExceptSeq
<1>5. Len(ch) \in Nat
    BY <1>1
<1>6. Joins(ch, ch2, i, 0, b)
  <2>1. \A j \in 1 .. Len(ch) : ch[j + 0] = ch[j]
    BY <1>5
  <2>2. Len(ch2) = Len(ch) - 0 /\ Len(ch) - 0 = Len(ch)
    BY <1>4, <1>5
  <2> QED
    BY <1>4, <2>1, <2>2 DEF Joins
<1>7. 0 \in 0 .. Len(ch) - i /\ i + 0 = i
    BY <1>5
<1>8. EndOf(b) = EndOf(ch[i + 0]) /\ b.size >= ch[i].size
    BY <1>1, <1>2, <1>7, BlockTypes DEF EndOf
<1>9. Tiled(ch2)
    BY <1>2, <1>6, <1>7, <1>8, JoinTiles
<1>10. Others(ch2, i) = Others(ch, i)
  <2>1. \A k \in i + 1 .. i + 0 : ch[k].free
    BY <1>7
  <2> QED
    BY <1>6, <1>7, <2>1, JoinOthers
<1> QED
    BY <1>2, <1>4, <1>9, <1>10 DEF ch2, MarkedAs

\* Block i takes over the free block behind it.
LEMMA JoinedKeeps ==
    ASSUME NEW ch, Tiled(ch), NEW i \in 1 .. Len(ch), i < Len(ch), ch[i + 1].free
    PROVE  /\ Tiled(Joined(ch, i)) /\ Others(Joined(ch, i), i) = Others(ch, i)
           /\ i \in 1 .. Len(Joined(ch, i)) /\ Joined(ch, i)[i].at = ch[i].at
           /\ Joined(ch, i)[i].free = ch[i].free
<1> DEFINE s == ch[i].size + HeaderUnits + ch[i + 1].size
           b == [ch[i] EXCEPT !.size = s]
           mid == [ch EXCEPT ![i] = b]
           ch2 == RemoveAt(mid, i + 1)
<1>1. /\ ch \in Seq(Block) /\ Len(ch) \in Nat /\ i + 1 \in 1 .. Len(ch) /\ i \in Nat
      /\ ch[i] \in Block /\ ch[i].at \in Nat /\ ch[i].size \in Nat
      /\ ch[i + 1].at \in Nat /\ ch[i + 1].size \in Nat
  <2>1. ch \in Seq(Block) /\ Len(ch) \in Nat
    BY DEF Tiled
  <2>2. i + 1 \in 1 .. Len(ch) /\ i \in Nat
    BY <2>1
  <2> QED
    BY <2>1, <2>2, BlockTypes
<1>2. s \in Nat /\ s >= ch[i].size
  <2> DEFINE s1 == ch[i].size
             s2 == ch[i + 1].size
  <2>1. s1 \in Nat /\ s2 \in Nat /\ s = s1 + HeaderUnits + s2
    BY <1>1
  <2> HIDE DEF s1, s2, s
  <2>2. s \in Nat /\ s >= s1
    BY <2>1, UnitsTypes
  <2> QED
    BY <2>2 DEF s1
<1>3. EndOf(ch[i]) = ch[i + 1].at
    BY <1>1 DEF Tiled
<1>4. Joined(ch, i) = RemoveAt([ch EXCEPT ![i].size = s], i + 1)
    BY DEF Joined
<1>5. ch[i].at + HeaderUnits + s = EndOf(ch[i + 1])
  <2> DEFINE a1 == ch[i].at
             s1 == ch[i].size
             s2 == ch[i + 1].size
             a2 == ch[i + 1].at
  <2>1. a1 + HeaderUnits + s1 = a2 /\ EndOf(ch[i + 1]) = a2 + HeaderUnits + s2
        /\ s = s1 + HeaderUnits + s2
    BY <1>3 DEF EndOf
  <2>2. a1 \in Nat /\ s1 \in Nat /\ s2 \in Nat /\ a2 \in Nat
    BY <1>1
  <2> HIDE DEF a1, s1, s2, a2, s
  <2>3. a1 + HeaderUnits + s = EndOf(ch[i + 1])
    BY <2>1, <2>2, UnitsTypes
  <2> QED
    BY <2>3 DEF a1
<1> HIDE DEF s
<1>6. b \in Block /\ b.at = ch[i].at /\ b.size = s /\ b.free = ch[i].free
    BY <1>1, <1>2 DEF Block
<1>7. Joined(ch, i) = ch2
    BY <1>4
<1> HIDE DEF b
<1>8. /\ mid \in Seq(Block) /\ Len(mid) = Len(ch)
      /\ \A j \in 1 .. Len(ch) : mid[j] = IF j = i THEN b ELSE ch[j]
    BY <1>1, <1>6, ExceptSeq
<1> HIDE DEF mid
<1>9. /\ ch2 \in Seq(Block) /\ Len(ch2) = Len(ch) - 1
      /\ \A j \in 1 .. Len(ch) - 1 : ch2[j] = mid[IF j < i + 1 THEN j ELSE j + 1]
    BY <1>1, <1>8, RemoveAtMoves
<1> HIDE DEF ch2
<1>10. Joins(ch, ch2, i, 1, b)
  <2> SUFFICES ASSUME NEW j \in 1 .. Len(ch) - 1
               PROVE  ch2[j] = IF j < i THEN ch[j] ELSE IF j = i THEN b ELSE ch[j + 1]
    BY <1>9 DEF Joins
  <2>1. j \in 1 .. Len(ch) /\ j + 1 \in 1 .. Len(ch)
    BY <1>1
  <2>2. CASE j < i
    BY <1>1, <1>8, <1>9, <2>1, <2>2
  <2>3. CASE j = i
    BY <1>1, <1>8, <1>9, <2>1, <2>3
  <2>4. CASE ~(j < i) /\ j # i
    <3>1. ~(j < i + 1) /\ j + 1 # i
        BY <1>1, <2>4
    <3> QED
        BY <1>8, <1>9, <2>1, <2>4, <3>1
  <2> QED
    BY <2>2, <2>3, <2>4
<1>11. 1 \in 0 .. Len(ch) - i
    BY <1>1
<1>12. EndOf(b) = EndOf(ch[i + 1]) /\ b.size >= ch[i].size
    BY <1>2, <1>5, <1>6 DEF EndOf
<1>13. Tiled(ch2) /\ i \in 1 .. Len(ch2) /\ ch2[i] = b
    BY <1>6, <1>10, <1>11, <1>12, JoinTiles
<1>14. Others(ch2, i) = Others(ch, i)
  <2>1. \A k \in i + 1 .. i + 1 : ch[k].free
    BY <1>1
  <2> QED
    BY <1>10, <1>11, <2>1, JoinOthers
<1> QED
    BY <1>6, <1>7, <1>13, <1>14

\* Block i gives up what is more than size, if that makes a block.
LEMMA SplitKeeps ==
    ASSUME NEW ch, Tiled(ch), NEW i \in 1 .. Len(ch), NEW size \in Nat \ {0},
           size <= ch[i].size
    PROVE  LET ch2 == split_block(ch, i, size)
           IN  /\ Tiled(ch2) /\ i \in 1 .. Len(ch2) /\ Others(ch2, i) = Others(ch, i)
               /\ ch2[i].at = ch[i].at /\ ch2[i].free = ch[i].free
               /\ ch2[i].size \in Nat /\ ch2[i].size >= size
<1>0. /\ ch \in Seq(Block) /\ Len(ch) \in Nat /\ i \in Nat
      /\ ch[i] \in Block /\ ch[i].at \in Nat /\ ch[i].size \in Nat
    BY BlockTypes DEF Tiled
<1>1. CASE ch[i].size < size + MIN_SPLIT_SIZE
  <2>1. split_block(ch, i, size) = ch
    BY <1>1 DEF split_block
  <2> QED
    BY <1>0, <2>1
<1>2. CASE ~(ch[i].size < size + MIN_SPLIT_SIZE)
  <2> DEFINE m == ch[i].size
             rest == m - size - HeaderUnits
             at2 == ch[i].at + HeaderUnits + size
             b == [ch[i] EXCEPT !.size = size]
             new == [at |-> at2, size |-> rest, free |-> TRUE]
             mid == [ch EXCEPT ![i] = b]
             ch2 == InsertAt(mid, i + 1, new)
  <2>1. split_block(ch, i, size) = ch2
    BY <1>2 DEF split_block
  <2>2. rest \in Nat /\ rest > 0 /\ at2 \in Nat /\ at2 + HeaderUnits + rest = EndOf(ch[i])
    <3>1. m \in Nat /\ m >= size + (HeaderUnits + 1)
        BY <1>0, <1>2, UnitsTypes DEF MIN_SPLIT_SIZE
    <3>2. EndOf(ch[i]) = ch[i].at + HeaderUnits + m
        BY DEF EndOf
    <3> DEFINE a == ch[i].at
    <3>3. a \in Nat /\ EndOf(ch[i]) = a + HeaderUnits + m /\ at2 = a + HeaderUnits + size
          /\ rest = m - size - HeaderUnits
        BY <1>0, <3>2
    <3> HIDE DEF m, a, at2, rest
    <3>4. rest \in Nat /\ rest > 0
        BY <3>1, <3>3, UnitsTypes
    <3>5. at2 \in Nat /\ at2 + HeaderUnits + rest = EndOf(ch[i])
        BY <3>1, <3>3, UnitsTypes
    <3> QED
        BY <3>4, <3>5
  <2> HIDE DEF rest, at2
  <2>3. b \in Block /\ b.at = ch[i].at /\ b.size = size /\ b.free = ch[i].free
    BY <1>0 DEF Block
  <2>4. new \in Block /\ new.at = at2 /\ new.size = rest /\ new.free
    BY <2>2 DEF Block
  <2> HIDE DEF b, new
  <2>5. /\ mid \in Seq(Block) /\ Len(mid) = Len(ch)
        /\ \A j \in 1 .. Len(ch) : mid[j] = IF j = i THEN b ELSE ch[j]
    BY <1>0, <2>3, ExceptSeq
  <2> HIDE DEF mid
  <2>6. /\ ch2 \in Seq(Block) /\ Len(ch2) = i + 1 + (Len(ch) + 1 - (i + 1))
        /\ \A k \in 1 .. i + 1 + (Len(ch) + 1 - (i + 1)) :
             ch2[k] = IF k < i + 1 THEN mid[k]
                      ELSE IF k = i + 1 THEN new ELSE mid[k - (i + 1) - 1 + (i + 1)]
    <3>1. i + 1 \in 1 .. Len(mid) + 1 /\ i + 1 \in i + 1 .. Len(mid) + 1 /\ (i + 1) - 1 = i
        BY <1>0, <2>5
    <3>2. ch2 = SubSeq(mid, 1, (i + 1) - 1) \o <<new>> \o SubSeq(mid, i + 1, Len(mid))
        BY DEF InsertAt
    <3> DEFINE p == i + 1
    <3>3. p \in 1 .. Len(mid) + 1 /\ p \in p .. Len(mid) + 1
          /\ ch2 = Spliced(mid, p, p, new)
        BY <3>1, <3>2 DEF Spliced
    <3> HIDE DEF p, ch2
    <3>4. /\ ch2 \in Seq(Block) /\ Len(ch2) = p + (Len(mid) + 1 - p)
          /\ \A k \in 1 .. p + (Len(mid) + 1 - p) :
               ch2[k] = IF k < p THEN mid[k] ELSE IF k = p THEN new ELSE mid[k - p - 1 + p]
      <4>1. mid \in Seq(Block) /\ new \in Block
        BY <2>4, <2>5
      <4>2. IsSpliced(Spliced(mid, p, p, new), Block, mid, p, p, new)
        BY <3>3, <4>1, SpliceMoves
      <4> QED
        BY <3>3, <4>2 DEF IsSpliced
    <3> QED
        BY <2>5, <3>4 DEF p
  <2> HIDE DEF ch2
  <2>7. /\ Len(ch2) = Len(ch) + 1 /\ Len(ch2) \in Nat /\ i \in 1 .. Len(ch2)
        /\ 1 \in 1 .. Len(ch2) /\ Len(ch2) >= 1
    BY <1>0, <2>6
  <2>8. ASSUME NEW k \in 1 .. Len(ch2)
        PROVE  ch2[k] = IF k < i THEN ch[k] ELSE IF k = i THEN b
                        ELSE IF k = i + 1 THEN new ELSE ch[k - 1]
    <3>1. k \in 1 .. i + 1 + (Len(ch) + 1 - (i + 1)) /\ k - (i + 1) - 1 + (i + 1) = k - 1
          /\ k \in Nat
        BY <1>0, <2>7
    <3>2. ch2[k] = IF k < i + 1 THEN mid[k] ELSE IF k = i + 1 THEN new ELSE mid[k - 1]
        BY <2>6, <3>1
    <3>3. CASE k < i + 1
        BY <1>0, <2>5, <3>1, <3>2, <3>3
    <3>4. CASE k = i + 1
        BY <1>0, <3>2, <3>4
    <3>5. CASE k > i + 1
      <4>1. k - 1 \in 1 .. Len(ch) /\ k - 1 # i
        BY <1>0, <2>7, <3>5
      <4> QED
        BY <1>0, <2>5, <3>1, <3>2, <3>5, <4>1
    <3> QED
        BY <1>0, <3>1, <3>3, <3>4, <3>5
  <2>9. ch2[i] = b
    BY <1>0, <2>7, <2>8
  <2>10. ch2[1].at = 0
    <3>1. ch[1].at = 0
        BY DEF Tiled
    <3>2. CASE i = 1
        BY <2>3, <2>9, <3>1, <3>2
    <3>3. CASE i # 1
        BY <1>0, <2>7, <2>8, <3>1, <3>3
    <3> QED
        BY <3>2, <3>3
  <2>11. ASSUME NEW j \in 1 .. Len(ch2)
         PROVE  EndOf(ch2[j]) = IF j = Len(ch2) THEN HeapUnits ELSE ch2[j + 1].at
    <3>0. \A k \in 1 .. Len(ch) : EndOf(ch[k]) = IF k = Len(ch) THEN HeapUnits ELSE ch[k + 1].at
        BY DEF Tiled
    <3>1. CASE j < i
      <4>1. j \in 1 .. Len(ch) /\ j # Len(ch) /\ j # Len(ch2) /\ j + 1 \in 1 .. Len(ch2)
            /\ (j + 1 # i => j + 1 < i)
        BY <1>0, <2>7, <3>1
      <4>2. ch2[j] = ch[j] /\ ch2[j + 1].at = ch[j + 1].at
        <5>1. ch2[j] = ch[j]
            BY <2>8, <3>1
        <5>2. CASE j + 1 = i
            BY <2>3, <2>9, <5>1, <5>2
        <5>3. CASE j + 1 # i
            BY <2>8, <4>1, <5>1, <5>3
        <5> QED
            BY <5>2, <5>3
      <4> QED
        BY <3>0, <4>1, <4>2
    <3>2. CASE j = i
      <4>1. j # Len(ch2) /\ j + 1 \in 1 .. Len(ch2) /\ ~(j + 1 < i) /\ j + 1 # i
        BY <1>0, <2>7, <3>2
      <4>2. ch2[j + 1] = new
        BY <2>8, <3>2, <4>1
      <4>3. EndOf(b) = at2
        BY <2>3 DEF EndOf, at2
      <4> QED
        BY <2>4, <2>9, <3>2, <4>1, <4>2, <4>3
    <3>3. CASE j > i
      <4>1. /\ j - 1 \in 1 .. Len(ch) /\ (j - 1 = Len(ch) <=> j = Len(ch2)) /\ ~(j < i) /\ j # i
            /\ j - 1 + 1 = j /\ j + 1 - 1 = j
            /\ (j # Len(ch2) => /\ j + 1 \in 1 .. Len(ch2) /\ ~(j + 1 < i) /\ j + 1 # i
                                /\ j + 1 # i + 1)
        BY <1>0, <2>7, <3>3
      <4>2. EndOf(ch2[j]) = EndOf(ch[j - 1])
        <5>1. CASE j = i + 1
          <6>1. ch2[j] = new /\ j - 1 = i
            BY <1>0, <2>8, <4>1, <5>1
          <6>2. EndOf(new) = EndOf(ch[i])
            BY <2>2, <2>4 DEF EndOf
          <6> QED
            BY <6>1, <6>2
        <5>2. CASE j # i + 1
            BY <2>8, <4>1, <5>2
        <5> QED
            BY <5>1, <5>2
      <4>3. j # Len(ch2) => ch2[j + 1] = ch[j]
        BY <2>8, <4>1
      <4> QED
        BY <3>0, <4>1, <4>2, <4>3
    <3>4. j \in Nat
        BY <2>7
    <3> QED
        BY <1>0, <3>1, <3>2, <3>3, <3>4
  <2>12. ASSUME HeapUnits > HeaderUnits, NEW j \in 1 .. Len(ch2)
         PROVE  ch2[j].size > 0
    <3>1. \A k \in 1 .. Len(ch) : ch[k].size > 0
        BY <2>12 DEF Tiled
    <3>2. CASE j < i
        BY <1>0, <2>8, <3>1, <3>2
    <3>3. CASE j = i
        BY <2>3, <2>9, <3>3
    <3>4. CASE j = i + 1
      <4>1. ch2[j] = new
        BY <1>0, <2>8, <3>4
      <4> QED
        BY <2>2, <2>4, <4>1
    <3>5. CASE ~(j < i) /\ j # i /\ j # i + 1
      <4>1. j - 1 \in 1 .. Len(ch)
        BY <1>0, <2>7, <3>5
      <4> QED
        BY <2>8, <3>1, <3>5, <4>1
    <3> QED
        BY <3>2, <3>3, <3>4, <3>5
  <2>13. Tiled(ch2)
    BY <2>6, <2>7, <2>10, <2>11, <2>12 DEF Tiled
  <2>14. Others(ch2, i) = Others(ch, i)
    <3>1. ASSUME NEW j \in 1 .. Len(ch2), j # i, ~ch2[j].free
          PROVE  \E k \in 1 .. Len(ch) : k # i /\ ~ch[k].free /\ ch[k] = ch2[j]
      <4>1. CASE j < i
        <5>1. j \in 1 .. Len(ch) /\ ch2[j] = ch[j]
            BY <1>0, <2>8, <4>1
        <5> QED
            BY <3>1, <5>1
      <4>2. CASE ~(j < i)
        <5>1. j # i + 1
          <6>1. j = i + 1 => ch2[j] = new
            BY <1>0, <2>8
          <6> QED
            BY <2>4, <3>1, <6>1
        <5>2. j - 1 \in 1 .. Len(ch) /\ j - 1 # i /\ ch2[j] = ch[j - 1]
          <6>1. j - 1 \in 1 .. Len(ch) /\ j - 1 # i
            BY <1>0, <2>7, <3>1, <4>2, <5>1
          <6> QED
            BY <2>8, <3>1, <4>2, <5>1, <6>1
        <5> QED
            BY <3>1, <5>2
      <4> QED
        BY <4>1, <4>2
    <3>2. ASSUME NEW k \in 1 .. Len(ch), k # i, ~ch[k].free
          PROVE  \E j \in 1 .. Len(ch2) : j # i /\ ~ch2[j].free /\ ch2[j] = ch[k]
      <4>1. CASE k < i
        <5>1. k \in 1 .. Len(ch2) /\ ch2[k] = ch[k]
          <6>1. k \in 1 .. Len(ch2)
            BY <1>0, <2>7
          <6> QED
            BY <2>8, <4>1, <6>1
        <5> QED
            BY <3>2, <5>1
      <4>2. CASE ~(k < i)
        <5>1. k + 1 \in 1 .. Len(ch2) /\ ~(k + 1 < i) /\ k + 1 # i /\ k + 1 # i + 1
              /\ k + 1 - 1 = k
            BY <1>0, <2>7, <3>2, <4>2
        <5>2. ch2[k + 1] = ch[k]
            BY <2>8, <5>1
        <5> QED
            BY <3>2, <5>1, <5>2
      <4> QED
        BY <4>1, <4>2
    <3>3. ASSUME NEW x \in Others(ch2, i)
          PROVE  x \in Others(ch, i)
      <4>1. PICK j \in 1 .. Len(ch2) : j # i /\ ~ch2[j].free /\ x = ch2[j]
        BY <3>3 DEF Others
      <4>2. PICK k \in 1 .. Len(ch) : k # i /\ ~ch[k].free /\ ch[k] = ch2[j]
        BY <3>1, <4>1
      <4> QED
        BY <4>1, <4>2 DEF Others
    <3>4. ASSUME NEW x \in Others(ch, i)
          PROVE  x \in Others(ch2, i)
      <4>1. PICK j \in 1 .. Len(ch) : j # i /\ ~ch[j].free /\ x = ch[j]
        BY <3>4 DEF Others
      <4>2. PICK k \in 1 .. Len(ch2) : k # i /\ ~ch2[k].free /\ ch2[k] = ch[j]
        BY <3>2, <4>1
      <4> QED
        BY <4>1, <4>2 DEF Others
    <3> QED
        BY <3>3, <3>4
  <2> QED
    BY <2>1, <2>3, <2>7, <2>9, <2>13, <2>14
<1> QED
    BY <1>1, <1>2

\* The blocks in use are block i, if it is, and the others, which lie elsewhere.
LEMMA TakingIs ==
    ASSUME NEW ch, Tiled(ch), NEW i \in 1 .. Len(ch)
    PROVE  /\ \A b \in Others(ch, i) : b \in Taking(ch) /\ b.at # ch[i].at
           /\ \A b \in Taking(ch) : b \in Others(ch, i) \/ (b = ch[i] /\ ~ch[i].free)
           /\ ~ch[i].free => ch[i] \in Taking(ch)
<1>1. ASSUME NEW b \in Others(ch, i)
      PROVE  b \in Taking(ch) /\ b.at # ch[i].at
  <2>1. PICK j \in 1 .. Len(ch) : j # i /\ ~ch[j].free /\ b = ch[j]
    BY DEF Others
  <2>2. b \in Taking(ch)
    BY <2>1 DEF Taking
  <2>3. b.at # ch[i].at
    BY <2>1, TiledApart
  <2> QED
    BY <2>2, <2>3
<1>2. ASSUME NEW b \in Taking(ch)
      PROVE  b \in Others(ch, i) \/ (b = ch[i] /\ ~ch[i].free)
  <2>1. PICK j \in 1 .. Len(ch) : ~ch[j].free /\ b = ch[j]
    BY DEF Taking
  <2>2. CASE j = i
    BY <2>1, <2>2
  <2>3. CASE j # i
    BY <2>1, <2>3 DEF Others
  <2> QED
    BY <2>2, <2>3
<1>3. ~ch[i].free => ch[i] \in Taking(ch)
    BY DEF Taking
<1> QED
    BY <1>1, <1>2, <1>3

\* What a client holds lies at the block that starts there, which is in use.
LEMMA HeldIsTaken ==
    ASSUME NEW ch, Tiled(ch), NEW ln, Held(ch, ln), NEW b \in DOMAIN ln
    PROVE  \E i \in 1 .. Len(ch) : ch[i].at = b /\ ~ch[i].free /\ BlockAt(ch, b) = i
<1>1. PICK x \in Taking(ch) : x.at = b
    BY DEF Held
<1>2. PICK i \in 1 .. Len(ch) : ~ch[i].free /\ x = ch[i]
    BY <1>1 DEF Taking
<1>3. BlockAt(ch, ch[i].at) = i
    BY BlockAtIs
<1> QED
    BY <1>1, <1>2, <1>3

\* Block k of ch2 is what became of block i of ch, and nothing else in use changed.
Becomes(ch, i, ch2, k) ==
    /\ Tiled(ch) /\ i \in 1 .. Len(ch) /\ Tiled(ch2) /\ k \in 1 .. Len(ch2)
    /\ Others(ch2, k) = Others(ch, i)

\* Lent, for a map that is given.
Lending(ln, b, size) == [c \in DOMAIN ln \cup {b} |-> IF c = b THEN size ELSE ln[c]]

\* A client takes the block.
LEMMA HeldTake ==
    ASSUME NEW ch, NEW i, NEW ch2, NEW k, Becomes(ch, i, ch2, k), NEW ln, Held(ch, ln),
           NEW size, ch2[k].at = ch[i].at, ~ch2[k].free, ch2[k].size >= size
    PROVE  Held(ch2, Lending(ln, ch[i].at, size))
<1> DEFINE at == ch[i].at
           new == Lending(ln, at, size)
<1>1. /\ Tiled(ch) /\ i \in 1 .. Len(ch) /\ Tiled(ch2) /\ k \in 1 .. Len(ch2)
      /\ Others(ch2, k) = Others(ch, i)
    BY DEF Becomes
<1>2. /\ \A b \in Others(ch, i) : b \in Taking(ch) /\ b.at # at
      /\ \A b \in Taking(ch) : b \in Others(ch, i) \/ b = ch[i]
    BY <1>1, TakingIs
<1>3. /\ \A b \in Others(ch, i) : b \in Taking(ch2)
      /\ \A b \in Taking(ch2) : b \in Others(ch, i) \/ b = ch2[k]
      /\ ch2[k] \in Taking(ch2)
    BY <1>1, TakingIs
<1>4. /\ \A b \in Taking(ch) : b.at \in DOMAIN ln /\ b.size >= ln[b.at]
      /\ \A c \in DOMAIN ln : \E b \in Taking(ch) : b.at = c
    BY DEF Held
<1>5. DOMAIN new = DOMAIN ln \cup {at} /\ new[at] = size
      /\ \A c \in DOMAIN ln : c # at => new[c] = ln[c]
    BY DEF Lending
<1> HIDE DEF new
<1>6. ASSUME NEW b \in Taking(ch2)
      PROVE  b.at \in DOMAIN new /\ b.size >= new[b.at]
  <2>1. CASE b \in Others(ch, i)
    <3>1. b \in Taking(ch) /\ b.at # at
        BY <1>2, <2>1
    <3>2. b.at \in DOMAIN ln /\ b.size >= ln[b.at]
        BY <1>4, <3>1
    <3>3. new[b.at] = ln[b.at]
        BY <1>5, <3>1, <3>2
    <3> QED
        BY <1>5, <3>2, <3>3
  <2>2. CASE b = ch2[k]
    <3>1. b.at = at
        BY <2>2
    <3> QED
        BY <1>5, <2>2, <3>1
  <2> QED
    BY <1>3, <2>1, <2>2
<1>7. ASSUME NEW c \in DOMAIN new
      PROVE  \E b \in Taking(ch2) : b.at = c
  <2>1. CASE c = at
    BY <1>3, <2>1
  <2>2. CASE c # at
    <3>1. c \in DOMAIN ln
        BY <1>5, <2>2
    <3>2. PICK b \in Taking(ch) : b.at = c
        BY <1>4, <3>1
    <3>3. b \in Others(ch, i)
        BY <1>2, <2>2, <3>2
    <3> QED
        BY <1>3, <3>2, <3>3
  <2> QED
    BY <2>1, <2>2
<1>8. Held(ch2, new)
    BY <1>6, <1>7 DEF Held
<1> QED
    BY <1>8 DEF new

\* A client gives the block back.
LEMMA HeldDrop ==
    ASSUME NEW ch, NEW i, NEW ch2, NEW k, Becomes(ch, i, ch2, k), NEW ln, Held(ch, ln),
           ch2[k].free
    PROVE  Held(ch2, Without(ln, ch[i].at))
<1> DEFINE at == ch[i].at
           new == Without(ln, at)
<1>1. /\ Tiled(ch) /\ i \in 1 .. Len(ch) /\ Tiled(ch2) /\ k \in 1 .. Len(ch2)
      /\ Others(ch2, k) = Others(ch, i)
    BY DEF Becomes
<1>2. /\ \A b \in Others(ch, i) : b \in Taking(ch) /\ b.at # at
      /\ \A b \in Taking(ch) : b \in Others(ch, i) \/ b = ch[i]
    BY <1>1, TakingIs
<1>3. /\ \A b \in Others(ch, i) : b \in Taking(ch2)
      /\ \A b \in Taking(ch2) : b \in Others(ch, i)
    BY <1>1, TakingIs
<1>4. /\ \A b \in Taking(ch) : b.at \in DOMAIN ln /\ b.size >= ln[b.at]
      /\ \A c \in DOMAIN ln : \E b \in Taking(ch) : b.at = c
    BY DEF Held
<1>5. DOMAIN new = DOMAIN ln \ {at} /\ \A c \in DOMAIN new : new[c] = ln[c]
    BY DEF Without
<1> HIDE DEF new
<1>6. ASSUME NEW b \in Taking(ch2)
      PROVE  b.at \in DOMAIN new /\ b.size >= new[b.at]
  <2>1. b \in Taking(ch) /\ b.at # at
    BY <1>2, <1>3
  <2>2. b.at \in DOMAIN ln /\ b.size >= ln[b.at]
    BY <1>4, <2>1
  <2>3. b.at \in DOMAIN new
    BY <1>5, <2>1, <2>2
  <2> QED
    BY <1>5, <2>2, <2>3
<1>7. ASSUME NEW c \in DOMAIN new
      PROVE  \E b \in Taking(ch2) : b.at = c
  <2>1. c \in DOMAIN ln /\ c # at
    BY <1>5
  <2>2. PICK b \in Taking(ch) : b.at = c
    BY <1>4, <2>1
  <2>3. b \in Others(ch, i)
    BY <1>2, <2>1, <2>2
  <2> QED
    BY <1>3, <2>2, <2>3
<1>8. Held(ch2, new)
    BY <1>6, <1>7 DEF Held
<1> QED
    BY <1>8 DEF new

\* A block that no client holds stays so.
LEMMA HeldSame ==
    ASSUME NEW ch, NEW i, NEW ch2, NEW k, Becomes(ch, i, ch2, k), NEW ln, Held(ch, ln),
           ch[i].free, ch2[k].free
    PROVE  Held(ch2, ln)
<1>1. /\ Tiled(ch) /\ i \in 1 .. Len(ch) /\ Tiled(ch2) /\ k \in 1 .. Len(ch2)
      /\ Others(ch2, k) = Others(ch, i)
    BY DEF Becomes
<1>2. \A b : b \in Taking(ch) <=> b \in Others(ch, i)
    BY <1>1, TakingIs
<1>3. \A b : b \in Taking(ch2) <=> b \in Others(ch, i)
    BY <1>1, TakingIs
<1>4. Taking(ch) = Taking(ch2)
    BY <1>2, <1>3
<1> QED
    BY <1>4 DEF Held

\* Merging a free block with a neighbour changes nothing for the clients.
LEMMA CoalesceKeeps ==
    ASSUME NEW ch, Tiled(ch), NEW i \in 1 .. Len(ch), ch[i].free, NEW ln, Held(ch, ln)
    PROVE  Tiled(coalesce(ch, i)) /\ Held(coalesce(ch, i), ln)
<1>0. Len(ch) \in Nat /\ i \in Nat
    BY DEF Tiled
<1>1. CASE i > 1 /\ ch[i - 1].free
  <2>1. i - 1 \in 1 .. Len(ch) /\ i - 1 < Len(ch) /\ (i - 1) + 1 = i
    BY <1>0, <1>1
  <2> DEFINE h == i - 1
             ch2 == Joined(ch, h)
  <2>2. coalesce(ch, i) = ch2
    BY <1>1 DEF coalesce
  <2>3. h \in 1 .. Len(ch) /\ h < Len(ch) /\ ch[h + 1].free /\ ch[h].free
    BY <1>1, <2>1
  <2> HIDE DEF h
  <2>4. Tiled(ch2) /\ Others(ch2, h) = Others(ch, h) /\ h \in 1 .. Len(ch2) /\ ch2[h].free
    BY <2>3, JoinedKeeps
  <2> HIDE DEF ch2
  <2>5. Becomes(ch, h, ch2, h)
    BY <2>3, <2>4 DEF Becomes
  <2> QED
    BY <2>2, <2>3, <2>4, <2>5, HeldSame
<1>2. CASE ~(i > 1 /\ ch[i - 1].free) /\ i < Len(ch) /\ ch[i + 1].free
  <2> DEFINE ch2 == Joined(ch, i)
  <2>1. coalesce(ch, i) = ch2
    BY <1>2 DEF coalesce
  <2>2. Tiled(ch2) /\ Others(ch2, i) = Others(ch, i) /\ i \in 1 .. Len(ch2) /\ ch2[i].free
    BY <1>2, JoinedKeeps
  <2> HIDE DEF ch2
  <2>3. Becomes(ch, i, ch2, i)
    BY <2>2 DEF Becomes
  <2> QED
    BY <2>1, <2>2, <2>3, HeldSame
<1>3. CASE ~(i > 1 /\ ch[i - 1].free) /\ ~(i < Len(ch) /\ ch[i + 1].free)
  <2>1. coalesce(ch, i) = ch
    BY <1>3 DEF coalesce
  <2> QED
    BY <2>1
<1> QED
    BY <1>1, <1>2, <1>3

\* free() of the block i.
LEMMA ReleasedKeeps ==
    ASSUME NEW ch, Tiled(ch), NEW i \in 1 .. Len(ch), NEW ln, Held(ch, ln)
    PROVE  /\ Tiled(Released(ch, ch[i].at))
           /\ Held(Released(ch, ch[i].at), Without(ln, ch[i].at))
<1> DEFINE ch2 == [ch EXCEPT ![i].free = TRUE]
<1>1. Released(ch, ch[i].at) = coalesce(ch2, i)
  <2>1. BlockAt(ch, ch[i].at) = i
    BY BlockAtIs
  <2> QED
    BY <2>1 DEF Released
<1>2. Tiled(ch2) /\ Len(ch2) = Len(ch) /\ Others(ch2, i) = Others(ch, i) /\ ch2[i].free
  <2>1. MarkedAs(ch, ch2, i, TRUE)
    BY MarkKeeps
  <2> QED
    BY <2>1 DEF MarkedAs
<1> HIDE DEF ch2
<1>3. i \in 1 .. Len(ch2)
    BY <1>2
<1>4. Becomes(ch, i, ch2, i)
    BY <1>2, <1>3 DEF Becomes
<1>5. Held(ch2, Without(ln, ch[i].at))
    BY <1>2, <1>4, HeldDrop
<1> QED
    BY <1>1, <1>2, <1>3, <1>5, CoalesceKeeps

\* The part of the block i that a client is given.
LEMMA TakenKeeps ==
    ASSUME NEW ch, Tiled(ch), NEW i \in 1 .. Len(ch), NEW ln, Held(ch, ln),
           NEW size \in Nat \ {0}, size <= ch[i].size
    PROVE  /\ Tiled(Taken(ch, i, size)) /\ Others(Taken(ch, i, size), i) = Others(ch, i)
           /\ Held(Taken(ch, i, size), Lending(ln, ch[i].at, size))
<1> DEFINE cut == split_block(ch, i, size)
           ch2 == [cut EXCEPT ![i].free = FALSE]
<1>1. Taken(ch, i, size) = ch2
    BY DEF Taken
<1>2. /\ Tiled(cut) /\ i \in 1 .. Len(cut) /\ Others(cut, i) = Others(ch, i)
      /\ cut[i].at = ch[i].at /\ cut[i].size >= size
    BY SplitKeeps
<1> HIDE DEF cut
<1>3. /\ Tiled(ch2) /\ Len(ch2) = Len(cut) /\ Others(ch2, i) = Others(cut, i)
      /\ ch2[i].at = cut[i].at /\ ch2[i].size = cut[i].size /\ ~ch2[i].free
  <2>1. MarkedAs(cut, ch2, i, FALSE)
    BY <1>2, MarkKeeps
  <2> QED
    BY <2>1 DEF MarkedAs
<1> HIDE DEF ch2
<1>4. Becomes(ch, i, ch2, i)
    BY <1>2, <1>3 DEF Becomes
<1>5. Held(ch2, Lending(ln, ch[i].at, size))
  <2>1. ch2[i].at = ch[i].at /\ ~ch2[i].free /\ ch2[i].size >= size
    BY <1>2, <1>3
  <2> QED
    BY <1>4, <2>1, HeldTake
<1> QED
    BY <1>1, <1>2, <1>3, <1>5

\* Block i and the n behind it hold what lies between its header and the next block.
LEMMA RunIs ==
    ASSUME Tiled(chain), NEW i \in 1 .. Len(chain), NEW n \in 0 .. Len(chain) - i
    PROVE  Run(i, n) \in Nat /\ EndOf(chain[i + n]) = chain[i].at + HeaderUnits + Run(i, n)
<1> DEFINE m == Len(chain) - i
           base == chain[i].size
           part == [k \in 1 .. m |-> chain[i + k].size]
           step == [k \in 1 .. m |-> [x \in Nat |-> x + HeaderUnits + part[k]]]
           s == Runs(i)
<1>0. /\ m \in Nat /\ chain \in Seq(Block) /\ i \in Nat /\ chain[i].at \in Nat /\ base \in Nat
      /\ HeaderUnits \in Nat /\ n \in 0 .. m /\ Len(chain) \in Nat
    BY BlockTypes, UnitsTypes DEF Tiled
<1>1. \A k \in 1 .. m : /\ i + k \in 1 .. Len(chain) /\ chain[i + k].size \in Nat
                        /\ chain[i + k].at \in Nat /\ i + (k - 1) \in 1 .. Len(chain)
                        /\ i + (k - 1) # Len(chain) /\ (i + (k - 1)) + 1 = i + k
  <2> SUFFICES ASSUME NEW k \in 1 .. m
               PROVE  /\ i + k \in 1 .. Len(chain) /\ chain[i + k].size \in Nat
                      /\ chain[i + k].at \in Nat /\ i + (k - 1) \in 1 .. Len(chain)
                      /\ i + (k - 1) # Len(chain) /\ (i + (k - 1)) + 1 = i + k
    OBVIOUS
  <2>1. /\ i + k \in 1 .. Len(chain) /\ i + (k - 1) \in 1 .. Len(chain)
        /\ i + (k - 1) # Len(chain) /\ (i + (k - 1)) + 1 = i + k
    BY <1>0
  <2> QED
    BY <1>0, <2>1, BlockTypes
<1>11. \A k \in 1 .. m : part[k] \in Nat /\ part[k] = chain[i + k].size
    BY <1>1
<1> HIDE DEF part
<1>2. step \in [1 .. m -> [Nat -> Nat]]
    BY <1>0, <1>11
<1>3. \A k \in 1 .. m, x \in Nat : step[k][x] = x + HeaderUnits + chain[i + k].size
    BY <1>11
<1> HIDE DEF step
<1>4. PICK f : f \in [0 .. m -> Nat] /\ f[0] = base /\ \A k \in 1 .. m : f[k] = step[k][f[k - 1]]
  <2>1. \E f : IsLoop(f, m, Nat, base, step)
    BY <1>0, <1>2, LoopExists
  <2> QED
    BY <2>1 DEF IsLoop
<1> HIDE DEF m
<1>5. f = [k \in 0 .. m |-> IF k = 0 THEN chain[i].size
                            ELSE f[k - 1] + HeaderUnits + chain[i + k].size]
  <2>1. ASSUME NEW k \in 0 .. m
        PROVE  f[k] = IF k = 0 THEN chain[i].size
                      ELSE f[k - 1] + HeaderUnits + chain[i + k].size
    <3>1. CASE k = 0
        BY <1>4, <3>1
    <3>2. CASE k # 0
      <4>1. k \in 1 .. m /\ k - 1 \in 0 .. m
        BY <1>0, <3>2
      <4> QED
        BY <1>3, <1>4, <3>2, <4>1
    <3> QED
        BY <3>1, <3>2
  <2> QED
    BY <1>4, <2>1
<1>6. s = [k \in 0 .. m |-> IF k = 0 THEN chain[i].size
                            ELSE s[k - 1] + HeaderUnits + chain[i + k].size]
  <2>1. s = CHOOSE g :
              g = [k \in 0 .. m |-> IF k = 0 THEN chain[i].size
                                    ELSE g[k - 1] + HeaderUnits + chain[i + k].size]
    BY DEF Runs, m
  <2> HIDE DEF s
  <2> QED
    BY <1>5, <2>1
<1> HIDE DEF s, base
<1>7. s[0] = chain[i].size /\ \A k \in 1 .. m : s[k] = s[k - 1] + HeaderUnits + chain[i + k].size
    BY <1>0, <1>6
<1> DEFINE T == {k \in 0 .. m : /\ s[k] \in Nat
                                /\ EndOf(chain[i + k]) = chain[i].at + HeaderUnits + s[k]}
<1>8. 0 \in T
  <2>1. 0 \in 0 .. m /\ i + 0 = i
    BY <1>0
  <2> QED
    BY <1>0, <1>7, <2>1 DEF EndOf, base
<1>9. ASSUME NEW k \in 1 .. m, k - 1 \in T
      PROVE  k \in T
  <2>1. s[k - 1] \in Nat /\ EndOf(chain[i + (k - 1)]) = chain[i].at + HeaderUnits + s[k - 1]
    BY <1>9
  <2>2. EndOf(chain[i + (k - 1)]) = chain[i + k].at
    BY <1>1 DEF Tiled
  <2> DEFINE a == chain[i].at
             a2 == chain[i + k].at
             z == chain[i + k].size
             t == s[k - 1]
  <2>3. a \in Nat /\ a2 \in Nat /\ z \in Nat /\ t \in Nat /\ a2 = a + HeaderUnits + t
    BY <1>0, <1>1, <2>1, <2>2
  <2>4. s[k] = t + HeaderUnits + z /\ EndOf(chain[i + k]) = a2 + HeaderUnits + z
    BY <1>7 DEF EndOf
  <2> HIDE DEF a, a2, z, t
  <2>5. s[k] \in Nat
    BY <2>3, <2>4, UnitsTypes
  <2>6. EndOf(chain[i + k]) = a + HeaderUnits + s[k]
    BY <2>3, <2>4, UnitsTypes
  <2>7. k \in 0 .. m
    BY <1>0
  <2> QED
    BY <2>5, <2>6, <2>7 DEF a
<1> HIDE DEF T
<1>10. n \in T
  <2>1. \A k \in 1 .. m : k - 1 \in T => k \in T
    BY <1>9
  <2>2. \A k \in 0 .. m : k \in T
    BY <1>0, <1>8, <2>1, UpTo
  <2> QED
    BY <1>0, <2>2
<1> QED
    BY <1>10 DEF T, s, Run

\* First fit finds a free block that is large enough.
LEMMA FitIsFree ==
    ASSUME NEW ch, Tiled(ch), NEW size, Fits(ch, size) # {}
    PROVE  LET i == find_fit(ch, size) IN i \in 1 .. Len(ch) /\ ch[i].free /\ ch[i].size >= size
<1>1. DOMAIN ch = 1 .. Len(ch)
    BY DEF Tiled
<1>2. Fits(ch, size) \in SUBSET Nat
    BY <1>1 DEF Fits
<1>3. \E i \in Fits(ch, size) : \A j \in Fits(ch, size) : i <= j
    BY <1>2, LeastIsThere
<1>4. find_fit(ch, size) \in Fits(ch, size)
    BY <1>3 DEF find_fit
<1> QED
    BY <1>1, <1>4 DEF Fits

\* A request for which the heap does not grow is served from a block that was free.
LEMMA AllocatedKeeps ==
    ASSUME Tiled(chain), Held(chain, lent), NEW size \in Nat \ {0}, Fits(chain, size) # {}
    PROVE  /\ Tiled(Allocated(size))
           /\ Held(Allocated(size), Lent(AllocatedAt(size), size))
           /\ \A i \in 1 .. Len(chain) : ~chain[i].free =>
                \E k \in 1 .. Len(Allocated(size)) : Allocated(size)[k] = chain[i]
<1> DEFINE i == find_fit(chain, size)
           ch2 == Taken(chain, i, size)
<1>1. i \in 1 .. Len(chain) /\ chain[i].free /\ chain[i].size >= size
    BY FitIsFree
<1>2. Allocated(size) = ch2 /\ AllocatedAt(size) = chain[i].at
    BY DEF Allocated, AllocatedAt, Slot, Grown
<1>3. Lent(AllocatedAt(size), size) = Lending(lent, chain[i].at, size)
    BY <1>2 DEF Lent, Lending
<1> HIDE DEF i
<1>4. chain[i].size \in Nat /\ size <= chain[i].size
    BY <1>1, BlockTypes DEF Tiled
<1>5. /\ Tiled(ch2) /\ Others(ch2, i) = Others(chain, i)
      /\ Held(ch2, Lending(lent, chain[i].at, size))
    BY <1>1, <1>4, TakenKeeps
<1> HIDE DEF ch2
<1>6. ASSUME NEW j \in 1 .. Len(chain), ~chain[j].free
      PROVE  \E k \in 1 .. Len(ch2) : ch2[k] = chain[j]
  <2>1. chain[j] \in Others(chain, i)
    BY <1>1, <1>6 DEF Others
  <2> QED
    BY <1>5, <2>1 DEF Others
<1> QED
    BY <1>2, <1>3, <1>5, <1>6

\* A heap that grows is expanded.
LEMMA FitsUnlessGrows ==
    ASSUME ~Expanded, NEW size \in Nat \ {0}, MovesBrk(size), ~(Expanded')
    PROVE  Fits(chain, size) # {}
<1>1. brk_ptr = HeapUnits /\ brk_ptr' = HeapUnits
    BY DEF Expanded
<1>2. HeapUnits - size - HeaderUnits # HeapUnits
    BY UnitsTypes
<1> QED
    BY <1>1, <1>2 DEF MovesBrk

\* malloc() preserves the invariant.
LEMMA MallocKeeps ==
    ASSUME MallocInv, ~Expanded, NEW size \in Nat \ {0}, malloc(size)
    PROVE  MallocInv'
<1> SUFFICES ASSUME ~(Expanded')
             PROVE  Tiled(chain') /\ Held(chain', lent')
    BY DEF MallocInv
<1>1. Tiled(chain) /\ Held(chain, lent)
    BY DEF MallocInv
<1>2. CASE UNCHANGED mallocVars
    BY <1>1, <1>2 DEF mallocVars
<1>3. CASE /\ chain' = Allocated(size) /\ lent' = Lent(AllocatedAt(size), size)
           /\ MovesBrk(size)
  <2>1. Fits(chain, size) # {}
    BY <1>3, FitsUnlessGrows
  <2> QED
    BY <1>1, <1>3, <2>1, AllocatedKeeps
<1> QED
    BY <1>2, <1>3 DEF malloc

\* free() preserves the invariant.
LEMMA FreeKeeps ==
    ASSUME MallocInv, ~Expanded, NEW b \in DOMAIN lent, free(b)
    PROVE  MallocInv'
<1>1. Tiled(chain) /\ Held(chain, lent)
    BY DEF MallocInv
<1>2. PICK i \in 1 .. Len(chain) : chain[i].at = b
    BY <1>1, HeldIsTaken
<1>3. Tiled(Released(chain, b)) /\ Held(Released(chain, b), Without(lent, b))
    BY <1>1, <1>2, ReleasedKeeps
<1> QED
    BY <1>3 DEF free, MallocInv

\* realloc() takes as few of the free blocks behind as make it enough.
LEMMA EnoughIsLeast ==
    ASSUME Tiled(chain), NEW i \in 1 .. Len(chain), NEW size, Enough(i, size) # {}
    PROVE  (CHOOSE n \in Enough(i, size) : \A m \in Enough(i, size) : n <= m) \in Enough(i, size)
<1>1. Enough(i, size) \in SUBSET Nat
    BY DEF Enough, Behind
<1>2. \E n \in Enough(i, size) : \A m \in Enough(i, size) : n <= m
    BY <1>1, LeastIsThere
<1> QED
    BY <1>2

\* Block i with the n free blocks behind it made one.
LEMMA MergedKeeps ==
    ASSUME Tiled(chain), NEW i \in 1 .. Len(chain), NEW n \in Behind(i)
    PROVE  LET b == [chain[i] EXCEPT !.size = Run(i, n)]
               joined == Spliced(chain, i, i + n + 1, b)
           IN  /\ Tiled(joined) /\ i \in 1 .. Len(joined) /\ joined[i] = b
               /\ b.at = chain[i].at /\ b.free = chain[i].free /\ b.size = Run(i, n)
               /\ Others(joined, i) = Others(chain, i)
<1> DEFINE z == Run(i, n)
           b == [chain[i] EXCEPT !.size = z]
           j == i + n + 1
           joined == Spliced(chain, i, j, b)
<1>1. /\ n \in 1 .. Len(chain) - i /\ \A k \in i + 1 .. i + n : chain[k].free
      /\ chain \in Seq(Block) /\ Len(chain) \in Nat /\ i \in Nat
    BY DEF Behind, Tiled
<1>2. /\ n \in 0 .. Len(chain) - i /\ n \in Nat /\ n > 0 /\ i + n \in 1 .. Len(chain)
      /\ i < i + n /\ j \in i .. Len(chain) + 1 /\ j \in Nat /\ i \in 1 .. Len(chain) + 1
      /\ i + (Len(chain) + 1 - j) = Len(chain) - n
    BY <1>1
<1>3. z \in Nat /\ EndOf(chain[i + n]) = chain[i].at + HeaderUnits + z
    BY <1>2, RunIs
<1>4. EndOf(chain[i]) <= chain[i + n].at
    BY <1>2, TiledAscends
<1>5. /\ chain[i] \in Block /\ chain[i].at \in Nat /\ chain[i].size \in Nat
      /\ chain[i + n].at \in Nat /\ chain[i + n].size \in Nat
    BY <1>1, <1>2, BlockTypes
<1>6. z \in Nat /\ z >= chain[i].size
  <2> DEFINE a1 == chain[i].at
             a2 == chain[i + n].at
             s1 == chain[i].size
             s2 == chain[i + n].size
  <2>1. a1 \in Nat /\ a2 \in Nat /\ s1 \in Nat /\ s2 \in Nat
    BY <1>5
  <2>2. a1 + HeaderUnits + s1 <= a2 /\ a2 + HeaderUnits + s2 = a1 + HeaderUnits + z
    BY <1>3, <1>4 DEF EndOf
  <2>3. z \in Nat
    BY <1>3
  <2> HIDE DEF a1, a2, s1, s2, z
  <2>4. z \in Nat /\ z >= s1
    BY <2>1, <2>2, <2>3, UnitsTypes
  <2> QED
    BY <2>4 DEF s1
<1> HIDE DEF z
<1>7. b \in Block /\ b.at = chain[i].at /\ b.free = chain[i].free /\ b.size = z
    BY <1>5, <1>6 DEF Block
<1>8. EndOf(b) = EndOf(chain[i + n])
    BY <1>3, <1>7 DEF EndOf
<1> HIDE DEF b, j
<1>9. IsSpliced(joined, Block, chain, i, j, b)
    BY <1>1, <1>2, <1>7, SpliceMoves
<1> HIDE DEF joined
<1>10. Joins(chain, joined, i, n, b)
  <2>1. /\ joined \in Seq(Block) /\ Len(joined) = Len(chain) - n
        /\ \A k \in 1 .. Len(chain) - n :
             joined[k] = IF k < i THEN chain[k] ELSE IF k = i THEN b ELSE chain[k - i - 1 + j]
    BY <1>2, <1>9 DEF IsSpliced
  <2>2. \A k \in 1 .. Len(chain) - n : k - i - 1 + j = k + n
    BY <1>1, <1>2 DEF j
  <2> QED
    BY <2>1, <2>2 DEF Joins
<1>11. Tiled(joined) /\ i \in 1 .. Len(joined) /\ joined[i] = b
  <2>1. b.size >= chain[i].size
    BY <1>6, <1>7
  <2>2. b.at = chain[i].at /\ b \in Block
    BY <1>7
  <2> QED
    BY <1>2, <1>8, <1>10, <2>1, <2>2, JoinTiles
<1>12. Others(joined, i) = Others(chain, i)
    BY <1>1, <1>2, <1>10, JoinOthers
<1> QED
    BY <1>7, <1>11, <1>12 DEF joined, b, j, z

\* realloc() of a block that shrinks, or grows into those behind it.
LEMMA ReallocInPlaceKeeps ==
    ASSUME MallocInv, ~Expanded, NEW i \in 1 .. Len(chain), ~chain[i].free,
           NEW size \in Nat \ {0}, ReallocInPlace(i, size)
    PROVE  MallocInv'
<1>1. Tiled(chain) /\ Held(chain, lent)
    BY DEF MallocInv
<1>2. chain[i].size \in Nat /\ chain[i].at \in Nat
    BY <1>1, BlockTypes DEF Tiled
<1>3. lent' = Lending(lent, chain[i].at, size)
    BY DEF ReallocInPlace, Lent, Lending
<1>4. ASSUME NEW ch, Tiled(ch), i \in 1 .. Len(ch), Others(ch, i) = Others(chain, i),
             ch[i].at = chain[i].at, ~ch[i].free, size <= ch[i].size,
             chain' = split_block(ch, i, size)
      PROVE  Tiled(chain') /\ Held(chain', lent')
  <2> DEFINE ch2 == split_block(ch, i, size)
  <2>1. /\ Tiled(ch2) /\ i \in 1 .. Len(ch2) /\ Others(ch2, i) = Others(ch, i)
        /\ ch2[i].at = ch[i].at /\ ch2[i].free = ch[i].free /\ ch2[i].size >= size
    BY <1>4, SplitKeeps
  <2>2. chain' = ch2
    BY <1>4
  <2> HIDE DEF ch2
  <2>3. Becomes(chain, i, ch2, i)
    BY <1>1, <1>4, <2>1 DEF Becomes
  <2>4. ch2[i].at = chain[i].at /\ ~ch2[i].free
    BY <1>4, <2>1
  <2>5. Held(ch2, Lending(lent, chain[i].at, size))
    BY <1>1, <2>1, <2>3, <2>4, HeldTake
  <2> QED
    BY <1>3, <2>1, <2>2, <2>5
<1>5. CASE size <= chain[i].size /\ chain' = split_block(chain, i, size)
  <2>1. Tiled(chain') /\ Held(chain', lent')
    BY <1>1, <1>4, <1>5
  <2> QED
    BY <2>1 DEF MallocInv
<1>6. CASE ~(size <= chain[i].size /\ chain' = split_block(chain, i, size))
  <2> DEFINE n == CHOOSE n \in Enough(i, size) : \A m \in Enough(i, size) : n <= m
             b == [chain[i] EXCEPT !.size = Run(i, n)]
             joined == Spliced(chain, i, i + n + 1, b)
  <2>1. Enough(i, size) # {} /\ chain' = split_block(joined, i, size)
    BY <1>6 DEF ReallocInPlace, Spliced
  <2>2. n \in Enough(i, size)
    BY <1>1, <2>1, EnoughIsLeast
  <2> HIDE DEF n
  <2>3. n \in Behind(i) /\ Run(i, n) >= size
    BY <2>2 DEF Enough
  <2>4. /\ Tiled(joined) /\ i \in 1 .. Len(joined) /\ joined[i] = b
        /\ b.at = chain[i].at /\ b.free = chain[i].free /\ b.size = Run(i, n)
        /\ Others(joined, i) = Others(chain, i)
    BY <1>1, <2>3, MergedKeeps
  <2>5. Run(i, n) \in Nat
    <3>1. joined[i].size \in Nat
        BY <2>4, BlockTypes DEF Tiled
    <3> QED
        BY <2>4, <3>1
  <2> HIDE DEF joined, b
  <2>6. size <= joined[i].size
    BY <2>3, <2>4, <2>5
  <2>7. Tiled(chain') /\ Held(chain', lent')
    BY <1>4, <2>1, <2>4, <2>6
  <2> QED
    BY <2>7 DEF MallocInv
<1> QED
    BY <1>5, <1>6

\* realloc() of a block that cannot grow where it is: a new one, then free().
LEMMA ReallocMovesKeeps ==
    ASSUME MallocInv, ~Expanded, NEW i \in 1 .. Len(chain), ~chain[i].free,
           NEW size \in Nat \ {0}, ReallocMoves(i, size)
    PROVE  MallocInv'
<1> SUFFICES ASSUME ~(Expanded')
             PROVE  Tiled(chain') /\ Held(chain', lent')
    BY DEF MallocInv
<1>1. Tiled(chain) /\ Held(chain, lent)
    BY DEF MallocInv
<1>2. CASE UNCHANGED mallocVars
    BY <1>1, <1>2 DEF mallocVars
<1>3. CASE /\ chain' = Released(Allocated(size), chain[i].at)
           /\ lent' = Without(Lent(AllocatedAt(size), size), chain[i].at)
           /\ MovesBrk(size)
  <2> DEFINE ch == Allocated(size)
             ln == Lent(AllocatedAt(size), size)
  <2>1. Fits(chain, size) # {}
    BY <1>3, FitsUnlessGrows
  <2>2. Tiled(ch) /\ Held(ch, ln) /\ \E k \in 1 .. Len(ch) : ch[k] = chain[i]
    BY <1>1, <2>1, AllocatedKeeps
  <2>3. chain' = Released(ch, chain[i].at) /\ lent' = Without(ln, chain[i].at)
    BY <1>3
  <2> HIDE DEF ch, ln
  <2>4. PICK k \in 1 .. Len(ch) : ch[k] = chain[i]
    BY <2>2
  <2>5. /\ Tiled(Released(ch, ch[k].at))
        /\ Held(Released(ch, ch[k].at), Without(ln, ch[k].at))
    BY <2>2, ReleasedKeeps
  <2> QED
    BY <2>3, <2>4, <2>5
<1> QED
    BY <1>2, <1>3 DEF ReallocMoves

\* Every call preserves the invariant.
LEMMA MallocSteps ==
    ASSUME MallocInv, [MallocNext]_mallocVars
    PROVE  MallocInv'
<1>1. CASE UNCHANGED mallocVars
    BY <1>1 DEF mallocVars, MallocInv, Expanded
<1>2. CASE MallocNext
  <2>1. ~Expanded /\ Tiled(chain) /\ Held(chain, lent)
    BY <1>2 DEF MallocNext, MallocInv
  <2>2. Asked \subseteq Nat \ {0}
    BY MallocAssumption
  <2>3. CASE \E size \in Asked : malloc(size)
    BY <2>1, <2>2, <2>3, MallocKeeps
  <2>4. CASE \E b \in DOMAIN lent : free(b)
    BY <2>1, <2>4, FreeKeeps
  <2>5. CASE \E b \in DOMAIN lent, size \in Asked : realloc(b, size)
    <3>1. PICK b \in DOMAIN lent, size \in Asked : realloc(b, size)
        BY <2>5
    <3>2. PICK i \in 1 .. Len(chain) : ~chain[i].free /\ BlockAt(chain, b) = i
        BY <2>1, HeldIsTaken
    <3>3. ReallocInPlace(i, size) \/ ReallocMoves(i, size)
        BY <3>1, <3>2 DEF realloc
    <3>4. size \in Nat \ {0}
        BY <2>2
    <3>5. CASE ReallocInPlace(i, size)
        BY <2>1, <3>2, <3>4, <3>5, ReallocInPlaceKeeps
    <3>6. CASE ReallocMoves(i, size)
        BY <2>1, <3>2, <3>4, <3>6, ReallocMovesKeeps
    <3> QED
        BY <3>3, <3>5, <3>6
  <2> QED
    BY <1>2, <2>3, <2>4, <2>5 DEF MallocNext
<1> QED
    BY <1>1, <1>2

\* malloc_init() establishes it.
LEMMA MallocStarts == malloc_init => MallocInv
<1> SUFFICES ASSUME malloc_init
             PROVE  MallocInv
    OBVIOUS
<1> DEFINE m == HeapUnits - HeaderUnits
           b == [at |-> 0, size |-> m, free |-> TRUE]
<1>1. m \in Nat /\ HeaderUnits + m = HeapUnits /\ (HeapUnits > HeaderUnits => m > 0)
    BY UnitsTypes
<1>2. chain = <<b>> /\ lent = [c \in {} |-> 0]
    BY DEF malloc_init
<1> HIDE DEF m
<1>3. b \in Block /\ b.at = 0 /\ b.size = m /\ b.free
    BY <1>1 DEF Block
<1>4. EndOf(b) = HeapUnits
    BY <1>1, <1>3, UnitsTypes DEF EndOf
<1> HIDE DEF b
<1>5. chain \in Seq(Block) /\ Len(chain) = 1 /\ chain[1] = b
    BY <1>2, <1>3
<1>6. \A i \in 1 .. Len(chain) : i = 1
    BY <1>5
<1>7. Tiled(chain)
    BY <1>1, <1>3, <1>4, <1>5, <1>6 DEF Tiled
<1>8. Taking(chain) = {}
    BY <1>3, <1>5, <1>6 DEF Taking
<1>9. DOMAIN lent = {}
    BY <1>2
<1>10. Held(chain, lent)
    BY <1>8, <1>9 DEF Held
<1> QED
    BY <1>7, <1>10 DEF MallocInv

\* The sums of get_kmalloc_stats() along the chain.
LEMMA TallySteps ==
    ASSUME NEW values \in [DOMAIN chain -> Nat], NEW kind \in BOOLEAN, chain \in Seq(Block)
    PROVE  /\ Tally(values, kind) \in [0 .. Len(chain) -> Nat] /\ Tally(values, kind)[0] = 0
           /\ \A i \in 1 .. Len(chain) :
                Tally(values, kind)[i] =
                  Tally(values, kind)[i - 1] + IF chain[i].free = kind THEN values[i] ELSE 0
<1> DEFINE m == Len(chain)
           part == [k \in 1 .. m |-> IF chain[k].free = kind THEN values[k] ELSE 0]
           step == [k \in 1 .. m |-> [x \in Nat |-> x + part[k]]]
           s == Tally(values, kind)
<1>0. m \in Nat
    OBVIOUS
<1>1. \A k \in 1 .. m :
        part[k] \in Nat /\ part[k] = IF chain[k].free = kind THEN values[k] ELSE 0
    OBVIOUS
<1> HIDE DEF part
<1>2. step \in [1 .. m -> [Nat -> Nat]]
    BY <1>1
<1>3. \A k \in 1 .. m, x \in Nat : step[k][x] = x + part[k]
    OBVIOUS
<1> HIDE DEF step
<1>4. PICK f : f \in [0 .. m -> Nat] /\ f[0] = 0 /\ \A k \in 1 .. m : f[k] = step[k][f[k - 1]]
  <2>1. \E f : IsLoop(f, m, Nat, 0, step)
    BY <1>0, <1>2, LoopExists
  <2> QED
    BY <2>1 DEF IsLoop
<1> HIDE DEF m
<1>5. f = [k \in 0 .. m |->
             IF k = 0 THEN 0 ELSE f[k - 1] + IF chain[k].free = kind THEN values[k] ELSE 0]
  <2>1. ASSUME NEW k \in 0 .. m
        PROVE  f[k] = IF k = 0 THEN 0
                      ELSE f[k - 1] + IF chain[k].free = kind THEN values[k] ELSE 0
    <3>1. CASE k = 0
        BY <1>4, <3>1
    <3>2. CASE k # 0
      <4>1. k \in 1 .. m /\ k - 1 \in 0 .. m
        BY <1>0, <3>2
      <4> QED
        BY <1>1, <1>3, <1>4, <3>2, <4>1
    <3> QED
        BY <3>1, <3>2
  <2> QED
    BY <1>4, <2>1
<1>6. s = [k \in 0 .. m |->
             IF k = 0 THEN 0 ELSE s[k - 1] + IF chain[k].free = kind THEN values[k] ELSE 0]
  <2>1. s = CHOOSE g :
              g = [k \in 0 .. m |->
                     IF k = 0 THEN 0
                     ELSE g[k - 1] + IF chain[k].free = kind THEN values[k] ELSE 0]
    BY DEF Tally, m
  <2> HIDE DEF s
  <2> QED
    BY <1>5, <2>1
<1> HIDE DEF s
<1>7. s[0] = 0 /\ \A k \in 1 .. m :
                    s[k] = s[k - 1] + IF chain[k].free = kind THEN values[k] ELSE 0
    BY <1>0, <1>6
<1>8. \A k \in 0 .. m : s[k] \in Nat
  <2> DEFINE T == {k \in 0 .. m : s[k] \in Nat}
  <2>1. 0 \in T
    BY <1>0, <1>7
  <2>2. \A k \in 1 .. m : k - 1 \in T => k \in T
    <3> SUFFICES ASSUME NEW k \in 1 .. m, k - 1 \in T
                 PROVE  s[k] \in Nat
        BY <1>0
    <3>1. s[k] = s[k - 1] + part[k] /\ s[k - 1] \in Nat /\ part[k] \in Nat
        BY <1>1, <1>7
    <3> QED
        BY <3>1
  <2> HIDE DEF T
  <2>3. \A k \in 0 .. m : k \in T
    BY <1>0, <2>1, <2>2, UpTo
  <2> QED
    BY <2>3 DEF T
<1> QED
    BY <1>6, <1>7, <1>8 DEF s, m

\* Free or in use, every block is counted once.
LEMMA EachCounted ==
    ASSUME Tiled(chain)
    PROVE  Total(Ones, FALSE) + Total(Ones, TRUE) = Len(chain)
<1> DEFINE u == Tally(Ones, FALSE)
           v == Tally(Ones, TRUE)
           m == Len(chain)
           T == {k \in 0 .. m : u[k] + v[k] = k}
<1>0. m \in Nat /\ chain \in Seq(Block) /\ DOMAIN chain = 1 .. m
    BY DEF Tiled
<1>1. Ones \in [DOMAIN chain -> Nat] /\ \A k \in 1 .. m : Ones[k] = 1
    BY <1>0 DEF Ones
<1>2. /\ u \in [0 .. m -> Nat] /\ u[0] = 0
      /\ \A k \in 1 .. m : u[k] = u[k - 1] + IF chain[k].free = FALSE THEN Ones[k] ELSE 0
    BY <1>0, <1>1, TallySteps
<1>3. /\ v \in [0 .. m -> Nat] /\ v[0] = 0
      /\ \A k \in 1 .. m : v[k] = v[k - 1] + IF chain[k].free = TRUE THEN Ones[k] ELSE 0
    BY <1>0, <1>1, TallySteps
<1> HIDE DEF u, v
<1>4. 0 \in T
    BY <1>0, <1>2, <1>3
<1>5. ASSUME NEW k \in 1 .. m, k - 1 \in T
      PROVE  k \in T
  <2>1. u[k - 1] + v[k - 1] = k - 1 /\ k - 1 \in 0 .. m /\ k \in 0 .. m
    BY <1>0, <1>5
  <2>2. u[k - 1] \in Nat /\ v[k - 1] \in Nat
    BY <1>2, <1>3, <2>1
  <2>3. chain[k].free \in BOOLEAN
    BY <1>0, BlockTypes
  <2>4. CASE chain[k].free
    <3>1. u[k] = u[k - 1] + 0 /\ v[k] = v[k - 1] + 1
        BY <1>1, <1>2, <1>3, <2>3, <2>4
    <3> QED
        BY <2>1, <2>2, <3>1
  <2>5. CASE ~chain[k].free
    <3>1. u[k] = u[k - 1] + 1 /\ v[k] = v[k - 1] + 0
        BY <1>1, <1>2, <1>3, <2>3, <2>5
    <3> QED
        BY <2>1, <2>2, <3>1
  <2> QED
    BY <2>4, <2>5
<1> HIDE DEF T
<1>6. m \in T
  <2>1. \A k \in 1 .. m : k - 1 \in T => k \in T
    BY <1>5
  <2>2. \A k \in 0 .. m : k \in T
    BY <1>0, <1>4, <2>1, UpTo
  <2> QED
    BY <1>0, <2>2
<1> QED
    BY <1>6 DEF Total, T, u, v, m

\* What the blocks hold and their headers make up the range.
LEMMA EveryUnitCounted ==
    ASSUME Tiled(chain)
    PROVE  Total(Payloads, FALSE) + Total(Payloads, TRUE) + HeaderUnits * Len(chain) = HeapUnits
<1> DEFINE u == Tally(Payloads, FALSE)
           v == Tally(Payloads, TRUE)
           m == Len(chain)
           T == {k \in 0 .. m : k > 0 => u[k] + v[k] + HeaderUnits * k = EndOf(chain[k])}
<1>0. m \in Nat /\ chain \in Seq(Block) /\ DOMAIN chain = 1 .. m /\ m >= 1 /\ m \in 1 .. m
    BY DEF Tiled
<1>1. Payloads \in [DOMAIN chain -> Nat] /\ \A k \in 1 .. m : Payloads[k] = chain[k].size
  <2>1. \A k \in 1 .. m : chain[k].size \in Nat
    BY <1>0, BlockTypes
  <2> QED
    BY <1>0, <2>1 DEF Payloads
<1>2. /\ u \in [0 .. m -> Nat] /\ u[0] = 0
      /\ \A k \in 1 .. m : u[k] = u[k - 1] + IF chain[k].free = FALSE THEN Payloads[k] ELSE 0
    BY <1>0, <1>1, TallySteps
<1>3. /\ v \in [0 .. m -> Nat] /\ v[0] = 0
      /\ \A k \in 1 .. m : v[k] = v[k - 1] + IF chain[k].free = TRUE THEN Payloads[k] ELSE 0
    BY <1>0, <1>1, TallySteps
<1> HIDE DEF u, v
<1>4. 0 \in T
    BY <1>0
<1>5. ASSUME NEW k \in 1 .. m, k - 1 \in T
      PROVE  k \in T
  <2> DEFINE a == chain[k].at
             z == chain[k].size
             x == u[k - 1]
             y == v[k - 1]
             e == HeaderUnits * (k - 1)
  <2>1. k - 1 \in 0 .. m /\ k \in 0 .. m
    BY <1>0
  <2>2. x \in Nat /\ y \in Nat /\ a \in Nat /\ z \in Nat /\ chain[k].free \in BOOLEAN
    BY <1>0, <1>2, <1>3, <2>1, BlockTypes
  <2>3. EndOf(chain[k]) = a + HeaderUnits + z
    BY DEF EndOf
  <2>4. u[k] + v[k] = x + y + z
    <3>1. CASE chain[k].free
      <4>1. u[k] = x + 0 /\ v[k] = y + z
        BY <1>1, <1>2, <1>3, <2>2, <3>1
      <4> HIDE DEF x, y, z
      <4> QED
        BY <2>2, <4>1
    <3>2. CASE ~chain[k].free
      <4>1. u[k] = x + z /\ v[k] = y + 0
        BY <1>1, <1>2, <1>3, <2>2, <3>2
      <4> HIDE DEF x, y, z
      <4> QED
        BY <2>2, <4>1
    <3> QED
        BY <3>1, <3>2
  <2>5. x + y + e = a
    <3>1. CASE k = 1
      <4>1. a = 0
        BY <3>1 DEF Tiled
      <4>2. x = 0 /\ y = 0
        BY <1>2, <1>3, <3>1
      <4>3. e = 0
        BY <3>1, UnitsTypes
      <4> QED
        BY <4>1, <4>2, <4>3
    <3>2. CASE k # 1
      <4>1. k - 1 > 0 /\ k - 1 \in 1 .. m /\ k - 1 # m /\ k - 1 + 1 = k
        BY <1>0, <3>2
      <4>2. EndOf(chain[k - 1]) = a
        BY <4>1 DEF Tiled
      <4>3. x + y + e = EndOf(chain[k - 1])
        BY <1>5, <4>1
      <4> QED
        BY <4>2, <4>3
    <3> QED
        BY <3>1, <3>2
  <2>6. HeaderUnits * k = e + HeaderUnits /\ e \in Nat
    BY <1>0, UnitsTypes
  <2> DEFINE h == HeaderUnits * k
  <2>7. h = e + HeaderUnits
    BY <2>6
  <2> HIDE DEF a, z, x, y, e, h
  <2>8. u[k] + v[k] + h = EndOf(chain[k])
    BY <2>2, <2>3, <2>4, <2>5, <2>6, <2>7, UnitsTypes
  <2> QED
    BY <2>1, <2>8 DEF h
<1> HIDE DEF T
<1>6. m \in T
  <2>1. \A k \in 1 .. m : k - 1 \in T => k \in T
    BY <1>5
  <2>2. \A k \in 0 .. m : k \in T
    BY <1>0, <1>4, <2>1, UpTo
  <2> QED
    BY <1>0, <2>2
<1>7. EndOf(chain[m]) = HeapUnits
    BY <1>0 DEF Tiled
<1>8. u[m] + v[m] + HeaderUnits * m = EndOf(chain[m])
    BY <1>0, <1>6 DEF T
<1>9. u[m] = Total(Payloads, FALSE) /\ v[m] = Total(Payloads, TRUE)
    BY DEF Total, u, v, m
<1> QED
    BY <1>7, <1>8, <1>9 DEF m

\* It is what ChainTiles says, statistics included.
LEMMA ChainIsRight == MallocInv => ChainTiles
<1> SUFFICES ASSUME ~Expanded, Tiled(chain), Held(chain, lent)
             PROVE  ChainTiles
    BY DEF MallocInv, ChainTiles
<1>1. DOMAIN chain = 1 .. Len(chain) /\ chain[1].at = 0
    BY DEF Tiled
<1>2. \A i \in DOMAIN chain :
        chain[i].at + HeaderUnits + chain[i].size = IF i = Len(chain) THEN HeapUnits
                                                    ELSE chain[i + 1].at
    BY <1>1 DEF Tiled, EndOf
<1>3. {chain[i].at : i \in {j \in DOMAIN chain : ~chain[j].free}} = DOMAIN lent
  <2>1. {chain[i].at : i \in {j \in DOMAIN chain : ~chain[j].free}} = {b.at : b \in Taking(chain)}
    BY <1>1 DEF Taking
  <2> QED
    BY <2>1 DEF Held
<1>4. ASSUME NEW b \in DOMAIN lent
      PROVE  chain[BlockAt(chain, b)].size >= lent[b]
  <2>1. PICK i \in 1 .. Len(chain) : chain[i].at = b /\ ~chain[i].free /\ BlockAt(chain, b) = i
    BY HeldIsTaken
  <2>2. chain[i] \in Taking(chain)
    BY <2>1 DEF Taking
  <2> QED
    BY <2>1, <2>2 DEF Held
<1>5. HeapUnits > HeaderUnits => \A i \in DOMAIN chain : chain[i].size > 0
    BY <1>1 DEF Tiled
<1>6. Total(Ones, FALSE) + Total(Ones, TRUE) = Len(chain)
    BY EachCounted
<1>7. Total(Payloads, FALSE) + Total(Payloads, TRUE) + HeaderUnits * Len(chain) = HeapUnits
    BY EveryUnitCounted
<1>8. LET st == get_kmalloc_stats
      IN  /\ st.num_used + st.num_free = Len(chain)
          /\ st.used_payload + st.free_payload + HeaderUnits * Len(chain) = HeapUnits
    BY <1>6, <1>7 DEF get_kmalloc_stats
<1> QED
    BY <1>1, <1>2, <1>3, <1>4, <1>5, <1>8 DEF ChainTiles

\* For every size of the range and of a header, and for whatever sizes clients ask
\* for: free-list and clients agree on every block, until the heap expands.
THEOREM ChainStaysTiled == MallocSpec => []ChainTiles
<1>1. malloc_init => MallocInv
    BY MallocStarts
<1>2. MallocInv /\ [MallocNext]_mallocVars => MallocInv'
    BY MallocSteps
<1>3. MallocInv => ChainTiles
    BY ChainIsRight
<1> QED
    BY <1>1, <1>2, <1>3, PTL DEF MallocSpec

=============================================================================
