----------------------------- MODULE FilesProofs -----------------------------
(***************************************************************************)
(* Proofs about Files, for any programs, files, and sizes of the table,    *)
(* about Loader, for any images, and about Boundaries, for any boot        *)
(* information, registers, devices and texts.                              *)
(*                                                                         *)
(* TableDense is inductive.  OwnDescriptors needs in addition what is kept *)
(* of the history: what a program got through a descriptor is a sequence,  *)
(* and every descriptor that is held has a number below the table's size.  *)
(*                                                                         *)
(* Of a call of the loader LoaderInv keeps with what it was made and that  *)
(* the answer is the loader's; the rest is about the loops of the loader,  *)
(* which LoopExists and UpTo follow turn by turn.  MachineInv does the     *)
(* same for the calls of Boundaries.                                       *)
(***************************************************************************)
EXTENDS Files, Loader, Boundaries, FiniteSetTheorems, SequenceTheorems,
        WellFoundedInduction, TLAPS

Record == [node : Node, got : Seq(Int)]

\* What is kept of each descriptor a program holds.
History ==
    /\ mine \in [Program -> UNION {[S -> Record] : S \in SUBSET Fd}]
    /\ \A p \in Program : DOMAIN mine[p] \subseteq Fd
    /\ \A p \in Program : \A fd \in DOMAIN mine[p] : mine[p][fd] \in Record

IInv == TableDense /\ History /\ OwnDescriptors

-----------------------------------------------------------------------------
(* Induction over numbers, with sets and functions as data. *)

Below == {ss \in Nat \X Nat : ss[1] < ss[2]}

\* There is no endless descent among the naturals.
LEMMA BelowWellFounded == IsWellFoundedOn(Below, Nat)
BY NatLessThanWellFounded DEF OpToRel, Below

\* Induction up to n, with the set of the numbers it has reached as data.
LEMMA UpTo ==
    ASSUME NEW n \in Nat, NEW T, 0 \in T, \A i \in 1 .. n : i - 1 \in T => i \in T
    PROVE  \A i \in 0 .. n : i \in T
<1> DEFINE bad == {i \in 0 .. n : i \notin T}
<1>1. SUFFICES ASSUME bad # {}
               PROVE  FALSE
    OBVIOUS
<1>2. PICK m \in bad : \A k \in bad : ~(<<k, m>> \in Below)
  <2>1. bad \subseteq Nat
    OBVIOUS
  <2> HIDE DEF bad
  <2> QED
    BY <1>1, <2>1, BelowWellFounded, WFMin
<1>3. m \in 0 .. n /\ m \notin T /\ m # 0
    BY <1>2
<1>4. m - 1 \in Nat /\ m - 1 \in 0 .. n /\ m \in 1 .. n /\ m \in Nat
    BY <1>3
<1>5. m - 1 \notin bad
  <2>1. <<m - 1, m>> \in Below
    <3> HIDE DEF bad
    <3>1. m - 1 < m
        BY <1>4
    <3> QED
        BY <1>4, <3>1 DEF Below
  <2> HIDE DEF bad
  <2> QED
    BY <1>2, <2>1, Zenon
<1> QED
    BY <1>3, <1>4, <1>5

\* The values f[i] of a loop of n steps: each step is a function of the value
\* before it.
IsLoop(f, n, S, base, step) ==
    /\ f \in [0 .. n -> S] /\ f[0] = base
    /\ \A i \in 1 .. n : f[i] = step[i][f[i - 1]]

\* Every loop has its values.
LEMMA LoopExists ==
    ASSUME NEW n \in Nat, NEW S, NEW base \in S, NEW step \in [1 .. n -> [S -> S]]
    PROVE  \E f : IsLoop(f, n, S, base, step)
<1> DEFINE Good(f, m) == f \in [0 .. m -> S] /\ f[0] = base
                         /\ \A i \in 1 .. m : f[i] = step[i][f[i - 1]]
           T == {m \in 0 .. n : \E f \in [0 .. m -> S] : Good(f, m)}
<1>1. 0 \in T
  <2> DEFINE f == [i \in 0 .. 0 |-> base]
  <2>1. Good(f, 0)
    OBVIOUS
  <2>2. f \in [0 .. 0 -> S] /\ 0 \in 0 .. n
    OBVIOUS
  <2> HIDE DEF f
  <2> QED
    BY <2>1, <2>2
<1>2. ASSUME NEW m \in 1 .. n, m - 1 \in T
      PROVE  m \in T
  <2>1. PICK f \in [0 .. m - 1 -> S] : Good(f, m - 1)
    BY <1>2
  <2> DEFINE v == step[m][f[m - 1]]
             g == [i \in 0 .. m |-> IF i = m THEN v ELSE f[i]]
  <2>2. m - 1 \in 0 .. m - 1 /\ m \in 1 .. n /\ m \in Nat \ {0}
    OBVIOUS
  <2>3. f[m - 1] \in S
    BY <2>1, <2>2
  <2>4. v \in S
    BY <2>2, <2>3
  <2> HIDE DEF v
  <2>5. g \in [0 .. m -> S] /\ g[0] = base
    BY <2>1, <2>2, <2>4
  <2>6. \A i \in 0 .. m - 1 : g[i] = f[i]
    BY <2>2
  <2>7. ASSUME NEW i \in 1 .. m
        PROVE  g[i] = step[i][g[i - 1]]
    <3>1. i - 1 \in 0 .. m - 1
        BY <2>2
    <3>2. CASE i = m
        BY <2>2, <2>6, <3>1, <3>2 DEF v
    <3>3. CASE i # m
      <4>1. i \in 1 .. m - 1 /\ i \in 0 .. m - 1
        BY <2>2, <3>3
      <4> QED
        BY <2>1, <2>6, <3>1, <4>1
    <3> QED
        BY <3>2, <3>3
  <2> HIDE DEF g
  <2>8. Good(g, m)
    BY <2>5, <2>7
  <2>9. \E h \in [0 .. m -> S] : Good(h, m)
    BY <2>5, <2>8, Zenon
  <2> QED
    BY <2>9
<1> HIDE DEF T
<1>3. \A m \in 0 .. n : m \in T
  <2>1. \A m \in 1 .. n : m - 1 \in T => m \in T
    BY <1>2
  <2> QED
    BY <1>1, <2>1, UpTo
<1> QED
    BY <1>3 DEF T, IsLoop

\* A set of naturals that is not empty has a least element.
LEMMA LeastIsThere ==
    ASSUME NEW S \in SUBSET Nat, S # {}
    PROVE  \E m \in S : \A y \in S : m <= y
<1>1. PICK m \in S : \A y \in S : ~(<<y, m>> \in Below)
    BY BelowWellFounded, WFMin
<1>2. \A y \in S : y < m => <<y, m>> \in Below
    BY DEF Below
<1>3. \A y \in S : ~(y < m)
    BY <1>1, <1>2, Zenon
<1>4. \A y \in S : m <= y
    BY <1>3
<1> QED
    BY <1>4

-----------------------------------------------------------------------------
(* The ramdisk. *)

LEMMA Lengths == Len(FileName) \in Nat /\ \A i \in Inode : Length(i) \in Nat
<1>1. Len(FileLength) \in Nat /\ \A i \in 1 .. Len(FileLength) : FileLength[i] \in Nat
    BY FilesAssumption
<1>2. Len(FileName) \in Nat
    BY <1>1, FilesAssumption
<1> QED
    BY <1>1, <1>2, FilesAssumption DEF Inode, Length

\* A set of files that is not empty has a first one.
LEMMA LeastInode ==
    ASSUME NEW S \in SUBSET Inode, S # {}
    PROVE  \E i \in S : \A j \in S : i <= j
<1>1. S \in SUBSET Nat
    BY Lengths DEF Inode
<1> QED
    BY <1>1, LeastIsThere

\* A name leads to a node or nowhere, and to a file only while the list has one.
LEMMA NameLeads ==
    ASSUME TypeOK, NEW name
    PROVE  /\ finddir(name) \in Node \cup {NotFound}
           /\ finddir(name) \in Inode => finddir(name) < nroot_nodes
<1> DEFINE hits == Hits(name)
           first == CHOOSE i \in hits : \A j \in hits : i <= j
<1>0. hits \in SUBSET Inode /\ \A i \in hits : i < nroot_nodes
    BY DEF Hits
<1> HIDE DEF hits
<1>1. ASSUME hits # {} PROVE first \in hits
  <2>1. \E i \in hits : \A j \in hits : i <= j
    BY <1>0, <1>1, LeastInode
  <2> QED
    BY <2>1
<1>2. Inode \cap {Root, Dev, NotFound} = {}
    BY Lengths DEF Inode, Root, Dev, NotFound
<1>3. finddir(name) = IF name = "dev" THEN Dev ELSE IF name = "initrd" THEN Root
                      ELSE IF hits = {} THEN NotFound ELSE first
    BY DEF finddir, hits
<1> HIDE DEF first
<1> QED
    BY <1>0, <1>1, <1>2, <1>3 DEF Node

\* A read stays within the file.
LEMMA ReadWithin ==
    ASSUME NEW i \in Inode, NEW offset \in Nat, offset <= Length(i), NEW size \in ReadSize
    PROVE  initrd_read(i, offset, size) \in Nat /\ offset + initrd_read(i, offset, size) <= Length(i)
BY Lengths, SizesAssumption DEF initrd_read

-----------------------------------------------------------------------------
(* The calls. *)

\* What was got before, and n items from position "first" on.
LEMMA Extended ==
    ASSUME NEW s \in Seq(Int), NEW first \in Nat, NEW n \in Nat,
           Len(s) = first, \A i \in 1 .. Len(s) : s[i] = i - 1
    PROVE  LET t == s \o [i \in 1 .. n |-> first + i - 1]
           IN  /\ t \in Seq(Int) /\ Len(t) = first + n
               /\ \A i \in 1 .. Len(t) : t[i] = i - 1
<1> DEFINE new == [i \in 1 .. n |-> first + i - 1]
<1>1. new \in Seq(Int) /\ Len(new) = n /\ \A i \in 1 .. n : new[i] = first + i - 1
    OBVIOUS
<1> HIDE DEF new
<1>2. /\ s \o new \in Seq(Int) /\ Len(s \o new) = first + n
      /\ \A i \in 1 .. first + n : (s \o new)[i] = IF i <= first THEN s[i] ELSE new[i - first]
    BY <1>1, ConcatProperties
<1>3. ASSUME NEW i \in 1 .. first + n PROVE (s \o new)[i] = i - 1
  <2>1. CASE i <= first
    BY <2>1, <1>2
  <2>2. CASE ~(i <= first)
    <3>1. i - first \in 1 .. n
        BY <2>2
    <3> QED
        BY <2>2, <3>1, <1>1, <1>2
  <2> QED
    BY <2>1, <2>2
<1>4. /\ s \o new \in Seq(Int) /\ Len(s \o new) = first + n
      /\ \A i \in 1 .. Len(s \o new) : (s \o new)[i] = i - 1
    BY <1>2, <1>3
<1> QED
    BY <1>4 DEF new

LEMMA AppendedInts ==
    ASSUME NEW s \in Seq(Int), NEW first \in Int, NEW n \in Nat
    PROVE  s \o [i \in 1 .. n |-> first + i - 1] \in Seq(Int)
OBVIOUS

LEMMA OpenKeeps ==
    ASSUME IInv, NEW p \in Program, NEW name, open(p, name)
    PROVE  IInv'
<1> USE TableAssumption
<1>0. TypeOK /\ TableDense /\ History /\ OwnDescriptors
    BY DEF IInv, TableDense
<1> DEFINE n == finddir(name)
           fd0 == current_fd
<1>1. n \in Node
    BY <1>0, NameLeads DEF open
<1>2. fd0 \in Fd /\ fd0 \in 2 .. TableSize - 1
    BY <1>0 DEF open, TypeOK, Fd
<1>3. /\ files' = [files EXCEPT ![fd0] = [node |-> n, pos |-> 0]]
      /\ mine' = [mine EXCEPT ![p] = [fd \in DOMAIN mine[p] \cup {fd0} |->
                    IF fd = fd0 THEN [node |-> n, got |-> << >>] ELSE mine[p][fd]]]
      /\ current_fd' = fd0 + 1
      /\ wiped' = wiped \ {<<p, fd0>>} /\ ended' = ended \ {<<p, fd0>>}
      /\ cramped' = cramped \ {<<p, fd0>>}
      /\ UNCHANGED <<erased, nroot_nodes, faulted>>
    BY DEF open, NextFd, diskVars
<1> HIDE DEF n
<1>4. /\ \A q \in Program \ {p} : mine'[q] = mine[q]
      /\ DOMAIN mine'[p] = DOMAIN mine[p] \cup {fd0}
      /\ mine'[p][fd0] = [node |-> n, got |-> << >>]
      /\ \A fd \in DOMAIN mine[p] : fd # fd0 => mine'[p][fd] = mine[p][fd]
    BY <1>0, <1>3 DEF History
<1>5. [node |-> n, pos |-> 0] # NotOpen /\ [node |-> n, pos |-> 0].node \notin {NotFound}
    BY <1>1, Lengths DEF NotOpen, Node, Inode, NotFound, Root, Dev
<1>6. TypeOK'
  <2>1. files' \in [Fd -> [node : Node, pos : Nat] \cup {NotOpen}]
    BY <1>0, <1>1, <1>2, <1>3 DEF TypeOK
  <2>2. \A fd \in Fd : files'[fd].node \in Inode => files'[fd].pos <= Length(files'[fd].node)
    BY <1>0, <1>2, <1>3, Lengths DEF TypeOK
  <2>3. \A q \in Program : DOMAIN mine'[q] \subseteq Fd
    BY <1>0, <1>2, <1>4 DEF TypeOK
  <2> QED
    BY <1>0, <1>2, <1>3, <2>1, <2>2, <2>3 DEF TypeOK
<1>7. TableDense'
  <2>1. \A fd \in Fd : files'[fd] # NotOpen <=> fd \in 2 .. fd0
    BY <1>0, <1>2, <1>3, <1>5 DEF TableDense, TypeOK, Fd
  <2> QED
    BY <1>2, <1>3, <1>6, <2>1 DEF TableDense
<1>8. History'
  <2>1. [node |-> n, got |-> << >>] \in Record
    BY <1>1 DEF Record
  <2>2. \A q \in Program : \A fd \in DOMAIN mine'[q] : mine'[q][fd] \in Record
    BY <1>0, <1>4, <2>1 DEF History
  <2>3. mine' \in [Program -> UNION {[S -> Record] : S \in SUBSET Fd}]
    <3>1. [fd \in DOMAIN mine[p] \cup {fd0} |->
             IF fd = fd0 THEN [node |-> n, got |-> << >>] ELSE mine[p][fd]]
            \in [DOMAIN mine[p] \cup {fd0} -> Record]
        BY <1>0, <2>1 DEF History
    <3>2. DOMAIN mine[p] \cup {fd0} \in SUBSET Fd
        BY <1>0, <1>2 DEF History
    <3> QED
        BY <1>0, <1>3, <3>1, <3>2 DEF History
  <2> QED
    BY <1>6, <2>2, <2>3 DEF History, TypeOK
<1>9. OwnDescriptors'
  <2> SUFFICES ASSUME NEW q \in Program, NEW fd \in DOMAIN mine'[q],
                      <<q, fd>> \notin wiped', Alone(q, fd)'
               PROVE  Faithful(q, fd)'
    BY DEF OwnDescriptors
  <2>1. \A r \in Program : fd \in DOMAIN mine'[r] => r = q
    BY DEF Alone, Holds
  <2>2. CASE fd = fd0
    <3>1. q = p
        BY <1>4, <2>1, <2>2
    <3> QED
        BY <1>0, <1>2, <1>3, <1>4, <2>2, <3>1 DEF Faithful, TypeOK
  <2>3. CASE fd # fd0
    <3>1. fd \in DOMAIN mine[q] /\ mine'[q][fd] = mine[q][fd] /\ <<q, fd>> \notin wiped
        BY <1>3, <1>4, <2>3
    <3>2. Alone(q, fd)
        BY <1>4, <2>1 DEF Alone, Holds
    <3>3. fd \in Fd /\ files'[fd] = files[fd]
        BY <1>0, <1>3, <2>3, <3>1 DEF TypeOK
    <3> QED
        BY <1>0, <3>1, <3>2, <3>3 DEF OwnDescriptors, Faithful
  <2> QED
    BY <2>2, <2>3
<1> QED
    BY <1>7, <1>8, <1>9 DEF IInv

\* What read() and getdents() have in common: n more items of what fd stands for.
LEMMA TakingKeeps ==
    ASSUME IInv, NEW p \in Program, NEW fd \in Fd, Holds(p, fd), files[fd] # NotOpen,
           NEW n \in Nat, NEW end \in BOOLEAN, NEW none \in BOOLEAN,
           files[fd].node \in Inode => files[fd].pos + n <= Length(files[fd].node),
           Gets(p, fd, files[fd].pos, n), Advance(fd, n, n), EndSeen(p, fd, end, none),
           UNCHANGED <<diskVars, current_fd, faulted, wiped>>
    PROVE  IInv'
<1>0. TypeOK /\ TableDense /\ History /\ OwnDescriptors
    BY DEF IInv, TableDense
<1> DEFINE f == files[fd]
           g == [f EXCEPT !.pos = f.pos + n]
<1>1. f \in [node : Node, pos : Nat]
    BY <1>0 DEF TypeOK
<1>2. files' = [files EXCEPT ![fd] = g]
    BY DEF Advance
<1>3. g \in [node : Node, pos : Nat] /\ g.node = f.node /\ g.pos = f.pos + n /\ g # NotOpen
  <2>1. g \in [node : Node, pos : Nat] /\ g.node = f.node /\ g.pos = f.pos + n
    BY <1>1
  <2>2. NotFound \notin Node
    BY Lengths DEF Node, Inode, NotFound, Root, Dev
  <2> QED
    BY <2>1, <2>2 DEF NotOpen
<1>4. UNCHANGED <<erased, nroot_nodes, current_fd, faulted, wiped>>
    BY DEF diskVars
<1> HIDE DEF g
<1>5. files' \in [Fd -> [node : Node, pos : Nat] \cup {NotOpen}]
    BY <1>0, <1>2, <1>3 DEF TypeOK
<1>6. \A d \in Fd : files'[d].node \in Inode => files'[d].pos <= Length(files'[d].node)
    BY <1>0, <1>2, <1>3 DEF TypeOK
<1>7. fd \in DOMAIN mine[p] /\ mine[p][fd] \in Record
    BY <1>0 DEF Holds, History
<1> DEFINE more == [i \in 1 .. n |-> f.pos + i - 1]
           m == [mine[p][fd] EXCEPT !.got = @ \o more]
<1>8. m \in Record /\ m.node = mine[p][fd].node /\ m.got = mine[p][fd].got \o more
  <2>1. mine[p][fd].got \o more \in Seq(Int)
    BY <1>1, <1>7, AppendedInts DEF Record
  <2> HIDE DEF more
  <2> QED
    BY <1>7, <2>1 DEF Record
<1>9. \/ <<p, fd>> \in wiped /\ mine' = mine
      \/ <<p, fd>> \notin wiped /\ mine' = [mine EXCEPT ![p][fd] = m]
    BY DEF Gets
<1> HIDE DEF m, more
<1>10. /\ \A q \in Program : DOMAIN mine'[q] = DOMAIN mine[q]
       /\ \A q \in Program : \A d \in DOMAIN mine[q] :
            mine'[q][d] = IF q = p /\ d = fd /\ <<p, fd>> \notin wiped THEN m ELSE mine[q][d]
    BY <1>0, <1>9 DEF History
<1>11. TypeOK'
  <2>1. ended' \cup cramped' \subseteq Program \X Fd
    BY <1>0 DEF EndSeen, TypeOK
  <2>2. \A q \in Program : DOMAIN mine'[q] \subseteq Fd
    BY <1>0, <1>10 DEF TypeOK
  <2> QED
    BY <1>0, <1>4, <1>5, <1>6, <2>1, <2>2 DEF TypeOK
<1>12. TableDense'
  <2>1. \A d \in Fd : files'[d] # NotOpen <=> files[d] # NotOpen
    BY <1>0, <1>2, <1>3 DEF TypeOK
  <2> QED
    BY <1>0, <1>4, <1>11, <2>1 DEF TableDense
<1>13. History'
  <2>1. \A q \in Program : \A d \in DOMAIN mine'[q] : mine'[q][d] \in Record
    BY <1>0, <1>8, <1>10 DEF History
  <2>2. mine' \in [Program -> UNION {[S -> Record] : S \in SUBSET Fd}]
    <3>1. CASE mine' = mine
        BY <1>0, <3>1 DEF History
    <3>2. CASE mine' = [mine EXCEPT ![p][fd] = m]
      <4>1. PICK S \in SUBSET Fd : mine[p] \in [S -> Record]
        BY <1>0 DEF History
      <4>2. [mine[p] EXCEPT ![fd] = m] \in [S -> Record]
        BY <4>1, <1>8
      <4>3. mine' = [mine EXCEPT ![p] = [mine[p] EXCEPT ![fd] = m]]
        BY <3>2
      <4> QED
        BY <1>0, <4>2, <4>3 DEF History
    <3> QED
        BY <1>9, <3>1, <3>2
  <2> QED
    BY <1>11, <2>1, <2>2 DEF History, TypeOK
<1>14. OwnDescriptors'
  <2> SUFFICES ASSUME NEW q \in Program, NEW d \in DOMAIN mine'[q],
                      <<q, d>> \notin wiped', Alone(q, d)'
               PROVE  Faithful(q, d)'
    BY DEF OwnDescriptors
  <2>1. d \in DOMAIN mine[q] /\ <<q, d>> \notin wiped /\ d \in Fd
    BY <1>0, <1>4, <1>10 DEF TypeOK
  <2>2. Alone(q, d)
    BY <1>10 DEF Alone, Holds
  <2>3. Faithful(q, d)
    BY <1>0, <2>1, <2>2 DEF OwnDescriptors
  <2>4. CASE d # fd
    <3>1. mine'[q][d] = mine[q][d] /\ files'[d] = files[d]
        BY <1>0, <1>2, <1>10, <2>1, <2>4 DEF TypeOK
    <3> QED
        BY <2>3, <3>1 DEF Faithful
  <2>5. CASE d = fd
    <3>1. q = p
        BY <2>2, <2>5 DEF Alone
    <3>2. mine'[q][d] = m /\ files'[d] = g
        BY <1>0, <1>2, <1>10, <2>1, <2>5, <3>1 DEF TypeOK
    <3>3. /\ f.node = mine[p][fd].node /\ f.pos = Len(mine[p][fd].got)
          /\ \A i \in 1 .. Len(mine[p][fd].got) : mine[p][fd].got[i] = i - 1
        BY <2>3, <2>5, <3>1 DEF Faithful
    <3>4. /\ Len(m.got) = f.pos + n
          /\ \A i \in 1 .. Len(m.got) : m.got[i] = i - 1
        BY <1>1, <1>7, <1>8, <3>3, Extended DEF Record, more
    <3> QED
        BY <1>3, <1>8, <3>2, <3>3, <3>4 DEF Faithful
  <2> QED
    BY <2>4, <2>5
<1> QED
    BY <1>12, <1>13, <1>14 DEF IInv

LEMMA ReadKeeps ==
    ASSUME IInv, NEW p \in Program, NEW fd \in Fd, NEW nbytes \in ReadSize, read(p, fd, nbytes)
    PROVE  IInv'
<1> DEFINE f == files[fd]
           ret == initrd_read(f.node, f.pos, nbytes)
<1>1. /\ Holds(p, fd) /\ f # NotOpen /\ ~IsDirectory(f.node)
      /\ Gets(p, fd, f.pos, ret) /\ Advance(fd, nbytes, ret)
      /\ EndSeen(p, fd, ret = 0, nbytes = 0)
      /\ UNCHANGED <<diskVars, current_fd, faulted, wiped>>
    BY DEF read
<1>2. TypeOK
    BY DEF IInv, TableDense
<1>3. f \in [node : Node, pos : Nat] /\ f.node \in Inode /\ f.pos <= Length(f.node)
    BY <1>1, <1>2 DEF TypeOK, IsDirectory, Node
<1>4. ret \in Nat /\ f.pos + ret <= Length(f.node)
    BY <1>3, ReadWithin
<1> HIDE DEF ret
<1>5. Advance(fd, ret, ret)
    BY <1>1 DEF Advance
<1>6. (ret = 0) \in BOOLEAN /\ (nbytes = 0) \in BOOLEAN
    OBVIOUS
<1> QED
    BY <1>1, <1>4, <1>5, <1>6, TakingKeeps

LEMMA GetdentsKeeps ==
    ASSUME IInv, NEW p \in Program, NEW fd \in Fd, NEW room \in DirRoom, getdents(p, fd, room)
    PROVE  IInv'
<1> DEFINE f == files[fd]
           there == {k \in 0 .. room - 1 : \A i \in 0 .. k : readdir(f.node, f.pos + i)}
           n == Cardinality(there)
<1>1. /\ Holds(p, fd) /\ f # NotOpen /\ IsDirectory(f.node)
      /\ Gets(p, fd, f.pos, n) /\ files' = [files EXCEPT ![fd].pos = @ + n]
      /\ EndSeen(p, fd, n = 0, room = 0)
      /\ UNCHANGED <<diskVars, current_fd, faulted, wiped>>
    BY DEF getdents
<1>2. n \in Nat
  <2>1. room \in Nat
    BY SizesAssumption
  <2>2. IsFiniteSet(0 .. room - 1) /\ there \subseteq 0 .. room - 1
    BY <2>1, FS_Interval
  <2>3. IsFiniteSet(there)
    BY <2>2, FS_Subset
  <2> QED
    BY <2>3, FS_CardinalityType
<1> HIDE DEF n, there
<1>3. f.node \notin Inode
    BY <1>1, Lengths DEF IsDirectory, Inode, Root, Dev
<1>4. Advance(fd, n, n)
    BY <1>1 DEF Advance
<1>5. (n = 0) \in BOOLEAN /\ (room = 0) \in BOOLEAN
    OBVIOUS
<1> QED
    BY <1>1, <1>2, <1>3, <1>4, <1>5, TakingKeeps

\* A removal leaves the table alone.
LEMMA UnlinkKeeps ==
    ASSUME IInv, NEW name, unlink(name)
    PROVE  IInv'
<1>0. TypeOK /\ TableDense /\ History /\ OwnDescriptors
    BY DEF IInv, TableDense
<1> DEFINE gone == Removed(name)
<1>1. /\ erased' = erased \cup gone
      /\ nroot_nodes' = nroot_nodes - Cardinality(gone)
      /\ UNCHANGED <<files, current_fd, faulted, mine, wiped, ended, cramped>>
    BY DEF unlink, histVars
<1>2. nroot_nodes \in Nat /\ nroot_nodes <= Len(FileName)
    BY <1>0, Lengths DEF TypeOK
<1>3. gone \subseteq Inode /\ gone \subseteq 0 .. nroot_nodes - 1
    BY <1>2, Lengths DEF Removed, Hits, Inode
<1> HIDE DEF gone
<1>4. Cardinality(gone) \in Nat /\ Cardinality(gone) <= nroot_nodes
  <2>1. IsFiniteSet(0 .. nroot_nodes - 1) /\ Cardinality(0 .. nroot_nodes - 1) = nroot_nodes
    BY <1>2, FS_Interval
  <2> QED
    BY <1>3, <2>1, FS_Subset, FS_CardinalityType
<1>5. nroot_nodes' \in 0 .. Len(FileName)
    BY <1>1, <1>2, <1>4, Lengths
<1>6. TypeOK'
    BY <1>0, <1>1, <1>3, <1>5 DEF TypeOK
<1> QED
    BY <1>0, <1>1, <1>6 DEF IInv, TableDense, History, OwnDescriptors, Alone, Holds, Faithful

\* A system call from which the machine does not come back.
LEMMA FaultKeeps ==
    ASSUME IInv, faulted' = TRUE, UNCHANGED <<diskVars, files, current_fd, histVars>>
    PROVE  IInv'
<1>1. /\ faulted' \in BOOLEAN
      /\ UNCHANGED <<erased, nroot_nodes, files, current_fd, mine, wiped, ended, cramped>>
    BY DEF diskVars, histVars
<1> QED
    BY <1>1 DEF IInv, TableDense, TypeOK, History, OwnDescriptors, Alone, Holds, Faithful

\* What exec() leaves is dense again, and nothing that is held is vouched for.
LEMMA ExecKeeps ==
    ASSUME IInv, NEW name, exec(name)
    PROVE  IInv'
<1> USE TableAssumption
<1>0. TypeOK /\ TableDense /\ History /\ OwnDescriptors
    BY DEF IInv, TableDense
<1> DEFINE pts == finddir("pts")
<1>1. /\ files' = Cleared(pts) /\ current_fd' = IF pts = NotFound THEN 2 ELSE 5
      /\ wiped' = Held /\ ended' = {} /\ cramped' = {}
      /\ UNCHANGED <<erased, nroot_nodes, faulted, mine>>
    BY DEF exec, diskVars
<1>2. pts \in Node \cup {NotFound}
    BY <1>0, NameLeads
<1> HIDE DEF pts
<1>3. NotOpen.node \notin Inode /\ NotFound \notin Node
    BY Lengths DEF NotOpen, NotFound, Inode, Node, Root, Dev
<1>4. \A fd \in Fd : files'[fd] = IF pts # NotFound /\ fd \in 2 .. 4
                                  THEN [node |-> pts, pos |-> 0] ELSE NotOpen
    BY <1>1 DEF Cleared
<1>5. files' \in [Fd -> [node : Node, pos : Nat] \cup {NotOpen}]
    BY <1>1, <1>2 DEF Cleared
<1>6. \A fd \in Fd : files'[fd].node \in Inode => files'[fd].pos <= Length(files'[fd].node)
    BY <1>3, <1>4, Lengths
<1>7. Held \subseteq Program \X Fd
    BY <1>0 DEF Held, TypeOK
<1>8. TypeOK'
    BY <1>0, <1>1, <1>5, <1>6, <1>7 DEF TypeOK
<1>9. \A fd \in Fd : files'[fd] # NotOpen <=> fd \in 2 .. current_fd' - 1
  <2>1. pts # NotFound => [node |-> pts, pos |-> 0] # NotOpen
    BY DEF NotOpen
  <2> QED
    BY <1>1, <1>4, <2>1 DEF Fd
<1>10. History'
    BY <1>0, <1>1 DEF History
<1>11. OwnDescriptors'
  <2>1. \A p \in Program : \A fd \in DOMAIN mine[p] : <<p, fd>> \in Held
    BY DEF Held
  <2> QED
    BY <1>1, <2>1 DEF OwnDescriptors
<1> QED
    BY <1>8, <1>9, <1>10, <1>11 DEF IInv, TableDense

-----------------------------------------------------------------------------
LEMMA InvInit == Init => IInv
<1> SUFFICES ASSUME Init PROVE IInv
    OBVIOUS
<1> USE TableAssumption
<1>1. /\ erased = {} /\ nroot_nodes = Len(FileName) /\ files = [fd \in Fd |-> NotOpen]
      /\ current_fd = 2 /\ faulted = FALSE /\ wiped = {} /\ ended = {} /\ cramped = {}
      /\ mine = [p \in Program |-> [fd \in {} |-> NotOpen]]
    BY DEF Init
<1>2. \A p \in Program : DOMAIN mine[p] = {}
    BY <1>1
<1>3. TypeOK
  <2>1. NotOpen.node \notin Inode
    BY Lengths DEF NotOpen, NotFound, Inode
  <2>2. faulted \in BOOLEAN
    BY <1>1
  <2>3. \A fd \in Fd : files[fd] = NotOpen
    BY <1>1
  <2> QED
    BY <1>1, <1>2, <2>1, <2>2, <2>3, Lengths DEF TypeOK
<1>4. TableDense
    BY <1>1, <1>3 DEF TableDense
<1>5. [fd \in {} |-> NotOpen] \in [{} -> Record]
    OBVIOUS
<1>6. mine \in [Program -> UNION {[S -> Record] : S \in SUBSET Fd}]
    BY <1>1, <1>5
<1>7. History /\ OwnDescriptors
    BY <1>2, <1>6 DEF History, OwnDescriptors
<1> QED
    BY <1>4, <1>7 DEF IInv

LEMMA InvStep == IInv /\ [Next]_vars => IInv'
<1> SUFFICES ASSUME IInv, [Next]_vars PROVE IInv'
    OBVIOUS
<1>1. ASSUME NEW p \in Program, NEW name \in Path, open(p, name) PROVE IInv'
    BY <1>1, OpenKeeps
<1>2. ASSUME NEW p \in Program, NEW fd \in Fd, NEW nbytes \in ReadSize, read(p, fd, nbytes)
      PROVE  IInv'
    BY <1>2, ReadKeeps
<1>3. ASSUME NEW p \in Program, NEW fd \in Fd, NEW room \in DirRoom, getdents(p, fd, room)
      PROVE  IInv'
    BY <1>3, GetdentsKeeps
<1>4. ASSUME NEW p \in Program, NEW fd \in Fd, getdents_fault(p, fd) PROVE IInv'
    BY <1>4, FaultKeeps DEF getdents_fault
<1>5. ASSUME NEW name \in Path, unlink(name) PROVE IInv'
    BY <1>5, UnlinkKeeps
<1>6. ASSUME NEW name \in Path, exec(name) PROVE IInv'
    BY <1>6, ExecKeeps
<1>7. ASSUME NEW name \in Path, exec_panics(name) PROVE IInv'
    BY <1>7, FaultKeeps DEF exec_panics
<1>8. CASE UNCHANGED vars
    BY <1>8 DEF vars, IInv, TableDense, TypeOK, History, OwnDescriptors, Alone, Holds, Faithful
<1> QED
    BY <1>1, <1>2, <1>3, <1>4, <1>5, <1>6, <1>7, <1>8 DEF Next, Call

\* open() never overwrites an open file: those below current_fd are open and no
\* others, through every clearing of the table by exec() (lib/syscalls.c).
THEOREM TableStaysDense == Spec => []TableDense
<1>1. IInv => TableDense
    BY DEF IInv
<1> QED
    BY <1>1, InvInit, InvStep, PTL DEF Spec

\* A descriptor that exec() has not cleared, and whose number no other program holds,
\* gives its program the file it opened, from the beginning, nothing twice and nothing
\* skipped, however the calls of the programs interleave (lib/syscalls.c, fs/initrd.c).
THEOREM DescriptorsOwned == Spec => []OwnDescriptors
<1>1. IInv => OwnDescriptors
    BY DEF IInv
<1> QED
    BY <1>1, InvInit, InvStep, PTL DEF Spec

-----------------------------------------------------------------------------
(* The end of a file. *)

\* Of a list of files nobody is past the end, as long as nothing was removed.
ListRight ==
    erased = {} =>
        /\ nroot_nodes = Len(FileName)
        /\ \A fd \in Fd : files[fd].node = Root => files[fd].pos <= nroot_nodes + 1

EndInv ==
    /\ ListRight
    /\ ended \cap wiped = {}
    /\ EndMeansAll

\* How far a listing gets: all entries it returns are there, and it returns none
\* only at the end or without room for one.
LEMMA ListedWithin ==
    ASSUME NEW pos \in Nat, NEW room \in DirRoom, nroot_nodes \in Nat, pos <= nroot_nodes + 1
    PROVE  LET there == {k \in 0 .. room - 1 : \A i \in 0 .. k : readdir(Root, pos + i)}
               n == Cardinality(there)
           IN  /\ n \in Nat /\ pos + n <= nroot_nodes + 1
               /\ n = 0 => room = 0 \/ pos = nroot_nodes + 1
<1> DEFINE there == {k \in 0 .. room - 1 : \A i \in 0 .. k : readdir(Root, pos + i)}
           rest == 0 .. nroot_nodes - pos
           n == Cardinality(there)
<1>1. room \in Nat
    BY SizesAssumption
<1>2. there \subseteq rest
  <2>1. ASSUME NEW k \in there PROVE k \in rest
    <3>1. k \in Nat /\ readdir(Root, pos + k)
        BY <1>1
    <3>2. pos + k <= nroot_nodes
        BY <3>1 DEF readdir
    <3> QED
        BY <3>1, <3>2
  <2> QED
    BY <2>1
<1>3. IsFiniteSet(rest) /\ Cardinality(rest) = nroot_nodes - pos + 1
  <2>1. CASE pos = nroot_nodes + 1
    <3>1. rest = {}
        BY <2>1
    <3> QED
        BY <2>1, <3>1, FS_EmptySet
  <2>2. CASE pos <= nroot_nodes
    <3>1. nroot_nodes - pos \in Nat
        BY <2>2
    <3> QED
        BY <3>1, FS_Interval
  <2> QED
    BY <2>1, <2>2
<1>4. IsFiniteSet(there) /\ n <= nroot_nodes - pos + 1
    BY <1>2, <1>3, FS_Subset
<1>5. n \in Nat
    BY <1>4, FS_CardinalityType
<1>6. ASSUME n = 0, room # 0 PROVE pos = nroot_nodes + 1
  <2>1. there = {}
    BY <1>4, <1>6, FS_EmptySet
  <2>2. 0 \notin there
    BY <2>1
  <2>3. ~readdir(Root, pos)
    BY <1>1, <1>6, <2>2
  <2> QED
    BY <2>3 DEF readdir, Root
<1> HIDE DEF n
<1>7. pos + n <= nroot_nodes + 1
    BY <1>4, <1>5
<1> QED
    BY <1>5, <1>6, <1>7 DEF n

\* There is no more behind what m has got, when the nodes "gone" were removed.
Over(m, gone) ==
    \/ m.node = Root /\ (gone # {} \/ Len(m.got) = Len(FileName) + 1)
    \/ m.node = Dev
    \/ m.node \in Inode /\ (m.node \in gone \/ Len(m.got) = Length(m.node))

\* A call of read() or getdents() speaks of one descriptor, and only of what that
\* has got.
LEMMA EndTaken ==
    ASSUME EndInv, History, NEW p \in Program, NEW fd \in Fd, Holds(p, fd),
           NEW first, NEW n, NEW end \in BOOLEAN, NEW none \in BOOLEAN,
           Gets(p, fd, first, n), EndSeen(p, fd, end, none), UNCHANGED <<erased, wiped>>,
           end /\ ~none /\ <<p, fd>> \notin wiped /\ Alone(p, fd)'
               => Over(mine'[p][fd], erased)
    PROVE  EndMeansAll' /\ (ended \cap wiped = {})'
<1>1. ended \cap wiped = {} /\ EndMeansAll
    BY DEF EndInv
<1>2. (ended \cap wiped = {})'
    BY <1>1 DEF EndSeen
<1>3. /\ \A q \in Program : DOMAIN mine'[q] = DOMAIN mine[q]
      /\ \A q \in Program : \A d \in DOMAIN mine[q] :
            <<q, d>> # <<p, fd>> => mine'[q][d] = mine[q][d]
  <2>1. CASE mine' = mine
    BY <2>1
  <2>2. CASE mine' = [mine EXCEPT ![p][fd].got = @ \o [i \in 1 .. n |-> first + i - 1]]
    BY <2>2 DEF History
  <2> QED
    BY <2>1, <2>2 DEF Gets
<1>4. SUFFICES ASSUME NEW q \in Program, NEW d \in DOMAIN mine'[q],
                      <<q, d>> \in ended', <<q, d>> \notin cramped', Alone(q, d)'
               PROVE  Over(mine'[q][d], erased')
    BY <1>2 DEF EndMeansAll, Over
<1>5. CASE <<q, d>> = <<p, fd>>
  <2>1. q = p /\ d = fd
    BY <1>5
  <2>2. end /\ ~none /\ <<p, fd>> \notin wiped
    BY <1>2, <1>4, <2>1 DEF EndSeen
  <2>3. Over(mine'[p][fd], erased)
    BY <1>4, <2>1, <2>2
  <2> QED
    BY <2>1, <2>3 DEF Over
<1>6. CASE ~(<<q, d>> = <<p, fd>>)
  <2>1. d \in DOMAIN mine[q] /\ mine'[q][d] = mine[q][d]
    BY <1>3, <1>6
  <2>2. <<q, d>> \in ended \ cramped
    BY <1>4, <1>6 DEF EndSeen
  <2>3. Alone(q, d)
    BY <1>3, <1>4 DEF Alone, Holds
  <2>4. Over(mine[q][d], erased)
    BY <1>1, <2>1, <2>2, <2>3 DEF EndMeansAll, Over
  <2> QED
    BY <2>1, <2>4 DEF Over
<1> QED
    BY <1>5, <1>6

LEMMA OpenEnds ==
    ASSUME IInv, EndInv, NEW p \in Program, NEW name, open(p, name)
    PROVE  EndInv'
<1> USE TableAssumption
<1> DEFINE fd0 == current_fd
           n == finddir(name)
<1>0. TypeOK /\ History /\ ListRight /\ ended \cap wiped = {} /\ EndMeansAll
    BY DEF IInv, TableDense, EndInv
<1>1. fd0 \in Fd
    BY <1>0 DEF open, TypeOK, Fd
<1>2. /\ files' = [files EXCEPT ![fd0] = [node |-> n, pos |-> 0]]
      /\ mine' = [mine EXCEPT ![p] = [fd \in DOMAIN mine[p] \cup {fd0} |->
                    IF fd = fd0 THEN [node |-> n, got |-> << >>] ELSE mine[p][fd]]]
      /\ wiped' = wiped \ {<<p, fd0>>} /\ ended' = ended \ {<<p, fd0>>}
      /\ cramped' = cramped \ {<<p, fd0>>}
      /\ UNCHANGED <<erased, nroot_nodes>>
    BY DEF open, diskVars
<1> HIDE DEF n
<1>3. ListRight'
  <2>1. nroot_nodes \in Nat
    BY <1>0, Lengths DEF TypeOK
  <2> QED
    BY <1>0, <1>1, <1>2, <2>1 DEF ListRight, TypeOK
<1>4. (ended \cap wiped = {})'
    BY <1>0, <1>2
<1>5. /\ \A q \in Program \ {p} : mine'[q] = mine[q]
      /\ DOMAIN mine'[p] = DOMAIN mine[p] \cup {fd0}
      /\ \A fd \in DOMAIN mine[p] : fd # fd0 => mine'[p][fd] = mine[p][fd]
    BY <1>0, <1>2 DEF History
<1>6. EndMeansAll'
  <2> SUFFICES ASSUME NEW q \in Program, NEW d \in DOMAIN mine'[q],
                      <<q, d>> \in ended', <<q, d>> \notin cramped', Alone(q, d)'
               PROVE  Over(mine'[q][d], erased')
    BY DEF EndMeansAll, Over
  <2>1. d # fd0
    <3>1. CASE d = fd0
      <4>1. q = p
        BY <1>5, <3>1 DEF Alone, Holds
      <4> QED
        BY <1>2, <3>1, <4>1
    <3> QED
        BY <3>1
  <2>2. d \in DOMAIN mine[q] /\ mine'[q][d] = mine[q][d] /\ <<q, d>> \in ended \ cramped
    BY <1>2, <1>5, <2>1
  <2>3. Alone(q, d)
    BY <1>5 DEF Alone, Holds
  <2>4. Over(mine[q][d], erased)
    BY <1>0, <2>2, <2>3 DEF EndMeansAll, Over
  <2> QED
    BY <1>2, <2>2, <2>4 DEF Over
<1> QED
    BY <1>3, <1>4, <1>6 DEF EndInv

LEMMA ReadEnds ==
    ASSUME IInv, EndInv, IInv',
           NEW p \in Program, NEW fd \in Fd, NEW nbytes \in ReadSize, read(p, fd, nbytes)
    PROVE  EndInv'
<1> DEFINE f == files[fd]
           ret == initrd_read(f.node, f.pos, nbytes)
<1>0. TypeOK /\ History /\ ListRight /\ OwnDescriptors'
    BY DEF IInv, TableDense, EndInv
<1>1. /\ Holds(p, fd) /\ f # NotOpen /\ ~IsDirectory(f.node)
      /\ Gets(p, fd, f.pos, ret) /\ EndSeen(p, fd, ret = 0, nbytes = 0)
      /\ files' = [files EXCEPT ![fd].pos = f.pos + ret]
      /\ UNCHANGED <<erased, nroot_nodes, wiped>>
    BY DEF read, Advance, diskVars
<1>2. f \in [node : Node, pos : Nat] /\ f.node \in Inode /\ f.pos <= Length(f.node)
    BY <1>0, <1>1 DEF TypeOK, IsDirectory, Node
<1>3. ASSUME ret = 0, nbytes # 0 PROVE f.node \in erased \/ f.pos = Length(f.node)
    BY <1>2, <1>3, Lengths, SizesAssumption DEF initrd_read
<1> HIDE DEF ret
<1>4. f.node # Root
    BY <1>1 DEF IsDirectory
<1>5. ListRight'
  <2>1. \A d \in Fd : files'[d].node = Root => files'[d] = files[d]
    BY <1>0, <1>1, <1>2, <1>4 DEF TypeOK
  <2> QED
    BY <1>0, <1>1, <2>1 DEF ListRight
<1>6. ASSUME ret = 0, nbytes # 0, <<p, fd>> \notin wiped, Alone(p, fd)'
      PROVE  Over(mine'[p][fd], erased)
  <2>1. fd \in DOMAIN mine'[p]
    BY <1>0, <1>1 DEF Gets, Holds, History
  <2>2. Faithful(p, fd)'
    BY <1>0, <1>1, <1>6, <2>1 DEF OwnDescriptors
  <2>3. files'[fd].node = f.node /\ files'[fd].pos = f.pos
    BY <1>0, <1>1, <1>2, <1>6 DEF TypeOK
  <2>4. mine'[p][fd].node = f.node /\ Len(mine'[p][fd].got) = f.pos
    BY <2>2, <2>3 DEF Faithful
  <2> QED
    BY <1>2, <1>3, <1>6, <2>4 DEF Over
<1>7. (ret = 0) \in BOOLEAN /\ (nbytes = 0) \in BOOLEAN
    OBVIOUS
<1>8. EndMeansAll' /\ (ended \cap wiped = {})'
    BY <1>0, <1>1, <1>6, <1>7, EndTaken
<1> QED
    BY <1>5, <1>8 DEF EndInv

LEMMA GetdentsEnds ==
    ASSUME IInv, EndInv, IInv',
           NEW p \in Program, NEW fd \in Fd, NEW room \in DirRoom, getdents(p, fd, room)
    PROVE  EndInv'
<1> DEFINE f == files[fd]
           there == {k \in 0 .. room - 1 : \A i \in 0 .. k : readdir(f.node, f.pos + i)}
           n == Cardinality(there)
<1>0. TypeOK /\ History /\ ListRight /\ OwnDescriptors'
    BY DEF IInv, TableDense, EndInv
<1>1. /\ Holds(p, fd) /\ f # NotOpen /\ f.node \in {Root, Dev}
      /\ Gets(p, fd, f.pos, n) /\ EndSeen(p, fd, n = 0, room = 0)
      /\ files' = [files EXCEPT ![fd].pos = f.pos + n]
      /\ UNCHANGED <<erased, nroot_nodes, wiped>>
    BY DEF getdents, IsDirectory, diskVars
<1>2. f \in [node : Node, pos : Nat]
    BY <1>0, <1>1 DEF TypeOK
<1>3. nroot_nodes \in Nat
    BY <1>0, Lengths DEF TypeOK
<1>4. ASSUME f.node = Root, erased = {}
      PROVE  /\ n \in Nat /\ f.pos + n <= nroot_nodes + 1
             /\ n = 0 => room = 0 \/ f.pos = nroot_nodes + 1
  <2>1. f.pos <= nroot_nodes + 1
    BY <1>0, <1>4 DEF ListRight
  <2>2. n = Cardinality({k \in 0 .. room - 1 : \A i \in 0 .. k : readdir(Root, f.pos + i)})
    BY <1>4
  <2> HIDE DEF n
  <2> QED
    BY <1>2, <1>3, <2>1, <2>2, ListedWithin
<1> HIDE DEF n, there
<1>5. ListRight'
  <2> SUFFICES ASSUME erased' = {}, NEW d \in Fd, files'[d].node = Root
               PROVE  files'[d].pos <= nroot_nodes + 1
    BY <1>0, <1>1 DEF ListRight
  <2>1. CASE d # fd
    BY <1>0, <1>1, <2>1 DEF ListRight, TypeOK
  <2>2. CASE d = fd
    <3>1. files'[d].node = f.node /\ files'[d].pos = f.pos + n
        BY <1>0, <1>1, <1>2, <2>2 DEF TypeOK
    <3> QED
        BY <1>1, <1>4, <3>1
  <2> QED
    BY <2>1, <2>2
<1>6. ASSUME n = 0, room # 0, <<p, fd>> \notin wiped, Alone(p, fd)'
      PROVE  Over(mine'[p][fd], erased)
  <2>1. fd \in DOMAIN mine'[p]
    BY <1>0, <1>1 DEF Gets, Holds, History
  <2>2. Faithful(p, fd)'
    BY <1>0, <1>1, <1>6, <2>1 DEF OwnDescriptors
  <2>3. files'[fd].node = f.node /\ files'[fd].pos = f.pos
    BY <1>0, <1>1, <1>2, <1>6 DEF TypeOK
  <2>4. mine'[p][fd].node = f.node /\ Len(mine'[p][fd].got) = f.pos
    BY <2>2, <2>3 DEF Faithful
  <2>5. erased = {} /\ f.node = Root => f.pos = Len(FileName) + 1
    BY <1>0, <1>4, <1>6 DEF ListRight
  <2> QED
    BY <1>1, <2>4, <2>5 DEF Over
<1>7. (n = 0) \in BOOLEAN /\ (room = 0) \in BOOLEAN
    OBVIOUS
<1>8. EndMeansAll' /\ (ended \cap wiped = {})'
    BY <1>0, <1>1, <1>6, <1>7, EndTaken
<1> QED
    BY <1>5, <1>8 DEF EndInv

LEMMA FaultEnds ==
    ASSUME EndInv, UNCHANGED <<diskVars, files, current_fd, histVars>>
    PROVE  EndInv'
BY DEF diskVars, histVars, EndInv, ListRight, EndMeansAll, Alone, Holds

LEMMA EndStep == IInv /\ IInv' /\ EndInv /\ [Next]_vars => EndInv'
<1> SUFFICES ASSUME IInv, IInv', EndInv, [Next]_vars PROVE EndInv'
    OBVIOUS
<1>1. ASSUME NEW p \in Program, NEW name \in Path, open(p, name) PROVE EndInv'
    BY <1>1, OpenEnds
<1>2. ASSUME NEW p \in Program, NEW fd \in Fd, NEW nbytes \in ReadSize, read(p, fd, nbytes)
      PROVE  EndInv'
    BY <1>2, ReadEnds
<1>3. ASSUME NEW p \in Program, NEW fd \in Fd, NEW room \in DirRoom, getdents(p, fd, room)
      PROVE  EndInv'
    BY <1>3, GetdentsEnds
<1>4. ASSUME NEW p \in Program, NEW fd \in Fd, getdents_fault(p, fd) PROVE EndInv'
    BY <1>4, FaultEnds DEF getdents_fault
<1>5. ASSUME NEW name \in Path, unlink(name) PROVE EndInv'
  <2>1. /\ erased' # {} /\ erased \subseteq erased'
        /\ UNCHANGED <<files, mine, wiped, ended, cramped>>
    BY <1>5 DEF unlink, histVars
  <2>2. ended \cap wiped = {} /\ EndMeansAll
    BY DEF EndInv
  <2>3. EndMeansAll'
    BY <2>1, <2>2 DEF EndMeansAll, Alone, Holds
  <2> QED
    BY <2>1, <2>2, <2>3 DEF EndInv, ListRight
<1>6. ASSUME NEW name \in Path, exec(name) PROVE EndInv'
  <2>1. /\ ended' = {} /\ files' = Cleared(finddir("pts"))
        /\ UNCHANGED <<erased, nroot_nodes>>
    BY <1>6 DEF exec, diskVars
  <2>2. \A fd \in Fd : files'[fd].pos = 0
    BY <2>1 DEF Cleared, NotOpen
  <2>3. nroot_nodes \in Nat
    BY Lengths DEF IInv, TableDense, TypeOK
  <2> QED
    BY <2>1, <2>2, <2>3 DEF EndInv, ListRight, EndMeansAll
<1>7. ASSUME NEW name \in Path, exec_panics(name) PROVE EndInv'
    BY <1>7, FaultEnds DEF exec_panics
<1>8. CASE UNCHANGED vars
    BY <1>8 DEF vars, EndInv, ListRight, EndMeansAll, Alone, Holds
<1> QED
    BY <1>1, <1>2, <1>3, <1>4, <1>5, <1>6, <1>7, <1>8 DEF Next, Call

LEMMA EndInit == Init => EndInv
<1> SUFFICES ASSUME Init PROVE EndInv
    OBVIOUS
<1>1. /\ nroot_nodes = Len(FileName) /\ files = [fd \in Fd |-> NotOpen] /\ ended = {}
    BY DEF Init
<1>2. \A fd \in Fd : files[fd].pos = 0
    BY <1>1 DEF NotOpen
<1> QED
    BY <1>1, <1>2, Lengths DEF EndInv, ListRight, EndMeansAll

\* When read() or getdents() returns 0 although it had room for something, the
\* program has got the whole file or the whole list, unless a file was removed in
\* between (lib/syscalls.c, fs/initrd.c).
THEOREM EndIsComplete == Spec => []EndMeansAll
<1>1. EndInv => EndMeansAll
    BY DEF EndInv
<1> QED
    BY <1>1, InvInit, InvStep, EndInit, EndStep, PTL DEF Spec

-----------------------------------------------------------------------------
(* Images and the loops of the loader. *)

\* Segments and tables of segments of any size.
AnySegment == [load : BOOLEAN, vaddr : Nat, off : Nat, filesz : Nat, memsz : Nat]

Tables == {list \in Seq(AnySegment) : Loads(list) # {}}

\* The fields of a segment.
LEMMA SegmentTypes ==
    ASSUME NEW s \in AnySegment
    PROVE  /\ s.load \in BOOLEAN /\ s.vaddr \in Nat /\ s.off \in Nat
           /\ s.filesz \in Nat /\ s.memsz \in Nat
BY DEF AnySegment

\* The table of segments of an image.
LEMMA ListTypes ==
    ASSUME NEW list \in Tables
    PROVE  /\ Len(list) \in Nat \ {0} /\ list \in [1 .. Len(list) -> AnySegment]
           /\ DOMAIN list = 1 .. Len(list)
           /\ Loads(list) \subseteq 1 .. Len(list) /\ Loads(list) # {}
<1>1. list \in Seq(AnySegment) /\ Loads(list) # {}
    BY DEF Tables
<1> HIDE DEF Tables, AnySegment
<1>2. /\ Len(list) \in Nat /\ list \in [1 .. Len(list) -> AnySegment]
      /\ DOMAIN list = 1 .. Len(list)
    BY <1>1
<1>3. Loads(list) \subseteq DOMAIN list
    BY DEF Loads
<1>4. Len(list) # 0
    BY <1>1, <1>2, <1>3
<1> QED
    BY <1>1, <1>2, <1>3, <1>4

\* The tables of the model are among them.
LEMMA TablesOfCalls == Lists \subseteq Tables
<1> SUFFICES ASSUME NEW list \in Lists
             PROVE  list \in Tables
    OBVIOUS
<1>1. PICK n \in 1 .. MaxSegments : list \in [1 .. n -> Segments]
    BY DEF Lists
<1>2. Segments \subseteq AnySegment
  <2>1. /\ VAddrs \subseteq Nat /\ FileOffsets \subseteq Nat
        /\ FileSizes \subseteq Nat /\ MemSizes \subseteq Nat
    BY LoaderAssumption
  <2> QED
    BY <2>1 DEF Segments, AnySegment
<1>3. n \in Nat
    BY LoaderAssumption
<1>4. list \in [1 .. n -> AnySegment]
    BY <1>1, <1>2
<1>5. list \in Seq(AnySegment)
  <2> HIDE DEF AnySegment
  <2> QED
    BY <1>3, <1>4
<1>6. Loads(list) # {}
    BY DEF Lists
<1> QED
    BY <1>5, <1>6 DEF Tables

\* What a turn of the loop writes: the file part of the segment, zeros in the rest
\* of its area, and nothing else.
Lays(was, then, s, area, base, D) ==
    \A c \in D :
        then[c] = IF c + base \in FilePart(s) THEN FileCell(s.off + c + base - s.vaddr)
                  ELSE IF c + base \in area THEN 0 ELSE was[c]

\* Where a cell is right after m turns.
RightAfter(memory, list, kept, base, size, m, c) ==
    /\ c \notin 0 .. size - 1 => memory[c] = Other
    /\ \A i \in kept : i <= m /\ c + base \in FilePart(list[i]) =>
         memory[c] = FileCell(list[i].off + c + base - list[i].vaddr)
    /\ c \in 0 .. size - 1 /\ (\A i \in kept : i <= m => c + base \notin FilePart(list[i])) =>
         memory[c] = 0

\* The memory f[m] after each turn of a loop that lays out the kept segments of a
\* list in areas that are apart and inside the buffer.
IsLaying(f, n, list, kept, area, base, size, D) ==
    /\ f \in [0 .. n -> [D -> Int]]
    /\ \A c \in D : f[0][c] = IF c \in 0 .. size - 1 THEN 0 ELSE Other
    /\ \A i \in 1 .. n : i \notin kept => f[i] = f[i - 1]
    /\ \A i \in kept : Lays(f[i - 1], f[i], list[i], area[i], base, D)
    /\ \A i \in kept : FilePart(list[i]) \subseteq area[i]
    /\ \A i \in kept, c \in D : c + base \in area[i] => c \in 0 .. size - 1
    /\ \A i, j \in kept : i # j => area[i] \cap area[j] = {}

\* Then all of them lie there in the end.
LEMMA AllAreLaid ==
    ASSUME NEW n \in Nat, NEW list \in [1 .. n -> AnySegment], NEW kept \in SUBSET (1 .. n),
           NEW area, NEW base \in Int, NEW size \in Nat, NEW D \in SUBSET Int, NEW f,
           IsLaying(f, n, list, kept, area, base, size, D)
    PROVE  LaidOut(f[n], list, kept, base, size)
<1>0. /\ f \in [0 .. n -> [D -> Int]]
      /\ \A c \in D : f[0][c] = IF c \in 0 .. size - 1 THEN 0 ELSE Other
      /\ \A i \in 1 .. n : i \notin kept => f[i] = f[i - 1]
      /\ \A i \in kept : Lays(f[i - 1], f[i], list[i], area[i], base, D)
      /\ \A i \in kept : FilePart(list[i]) \subseteq area[i]
      /\ \A i \in kept, c \in D : c + base \in area[i] => c \in 0 .. size - 1
      /\ \A i, j \in kept : i # j => area[i] \cap area[j] = {}
    BY DEF IsLaying
<1> DEFINE Right(m, c) == RightAfter(f[m], list, kept, base, size, m, c)
           T == {m \in 0 .. n : \A c \in D : Right(m, c)}
<1>1. 0 \in T
  <2>1. ASSUME NEW c \in D
        PROVE  Right(0, c)
    <3>1. \A i \in kept : ~(i <= 0)
        OBVIOUS
    <3> QED
        BY <1>0, <2>1, <3>1 DEF RightAfter
  <2> QED
    BY <2>1
<1>2. ASSUME NEW m \in 1 .. n, m - 1 \in T
      PROVE  m \in T
  <2>1. ASSUME NEW c \in D
        PROVE  Right(m, c)
    <3>1. Right(m - 1, c)
        BY <1>2, <2>1
    <3>2. \A i \in kept : i <= m <=> (i <= m - 1 \/ i = m)
        OBVIOUS
    <3>3. CASE m \notin kept
      <4>1. f[m] = f[m - 1]
        BY <1>0, <3>3
      <4>2. \A i \in kept : i <= m <=> i <= m - 1
        BY <3>2, <3>3
      <4> QED
        BY <3>1, <4>1, <4>2 DEF RightAfter
    <3>4. CASE m \in kept
      <4> DEFINE s == list[m]
                 now == f[m][c]
                 was == f[m - 1][c]
      <4>1. now = IF c + base \in FilePart(s) THEN FileCell(s.off + c + base - s.vaddr)
                  ELSE IF c + base \in area[m] THEN 0 ELSE was
        BY <1>0, <2>1, <3>4 DEF Lays
      <4>2. /\ FilePart(s) \subseteq area[m]
            /\ c + base \in area[m] => c \in 0 .. size - 1
            /\ \A i \in kept : FilePart(list[i]) \subseteq area[i]
            /\ \A i \in kept : i # m => area[i] \cap area[m] = {}
        BY <1>0, <2>1, <3>4
      <4>3. /\ c \notin 0 .. size - 1 => was = Other
            /\ \A i \in kept : i <= m - 1 /\ c + base \in FilePart(list[i]) =>
                 was = FileCell(list[i].off + c + base - list[i].vaddr)
            /\ c \in 0 .. size - 1
               /\ (\A i \in kept : i <= m - 1 => c + base \notin FilePart(list[i])) => was = 0
        BY <3>1 DEF RightAfter
      <4>4. c \notin 0 .. size - 1 => now = Other
        BY <4>1, <4>2, <4>3
      <4>5. ASSUME NEW i \in kept, i <= m, c + base \in FilePart(list[i])
            PROVE  now = FileCell(list[i].off + c + base - list[i].vaddr)
        <5>1. CASE i = m
            BY <4>1, <4>5, <5>1
        <5>2. CASE i # m
          <6>1. c + base \notin area[m] /\ i <= m - 1
            BY <3>2, <4>2, <4>5, <5>2
          <6>2. now = was
            BY <4>1, <4>2, <6>1
          <6> QED
            BY <4>3, <4>5, <6>1, <6>2
        <5> QED
            BY <5>1, <5>2
      <4>6. ASSUME c \in 0 .. size - 1, \A i \in kept : i <= m => c + base \notin FilePart(list[i])
            PROVE  now = 0
        <5>1. c + base \notin FilePart(s)
          <6>1. m <= m
            OBVIOUS
          <6> QED
            BY <3>4, <4>6, <6>1
        <5>2. \A i \in kept : i <= m - 1 => c + base \notin FilePart(list[i])
            BY <3>2, <4>6
        <5> QED
            BY <4>1, <4>3, <4>6, <5>1, <5>2
      <4> QED
        BY <4>4, <4>5, <4>6 DEF RightAfter
    <3> QED
        BY <3>3, <3>4
  <2> QED
    BY <2>1
<1> HIDE DEF T
<1>3. \A m \in 0 .. n : m \in T
  <2>1. \A m \in 1 .. n : m - 1 \in T => m \in T
    BY <1>2
  <2> QED
    BY <1>1, <2>1, UpTo
<1>4. \A c \in D : Right(n, c)
  <2>1. n \in 0 .. n
    OBVIOUS
  <2> QED
    BY <1>3, <2>1 DEF T
<1>5. DOMAIN f[n] = D /\ \A i \in kept : i <= n
    BY <1>0
<1> QED
    BY <1>4, <1>5 DEF RightAfter, LaidOut

\* The cells from Reach below a buffer up to Reach behind it.
Cells(size) == -Reach .. size + Reach

\* A new buffer has them.
LEMMA CellsTypes ==
    ASSUME NEW size \in Int
    PROVE  /\ Cells(size) \in SUBSET Int
           /\ Allocated(size) \in [Cells(size) -> Int]
           /\ \A c \in Cells(size) :
                Allocated(size)[c] = IF c \in 0 .. size - 1 THEN 0 ELSE Other
BY LoaderAssumption DEF Cells, Allocated, Other

\* What copying makes of memory.
LEMMA CopyTypes ==
    ASSUME NEW D \in SUBSET Int, NEW memory \in [D -> Int],
           NEW at \in Int, NEW from \in Int, NEW n \in Int
    PROVE  /\ FromFile(memory, at, from, n) \in [D -> Int]
           /\ \A c \in D : FromFile(memory, at, from, n)[c] =
                IF c \in at .. at + n - 1 THEN FileCell(from + c - at) ELSE memory[c]
BY DEF FromFile, FileCell

\* And clearing.
LEMMA ClearTypes ==
    ASSUME NEW D \in SUBSET Int, NEW memory \in [D -> Int], NEW at \in Int, NEW n \in Int
    PROVE  /\ Zeroed(memory, at, n) \in [D -> Int]
           /\ \A c \in D : Zeroed(memory, at, n)[c] = IF c \in at .. at + n - 1 THEN 0 ELSE memory[c]
BY DEF Zeroed

\* One segment of either class.
LEMMA SegmentsLay ==
    ASSUME NEW D \in SUBSET Int, NEW memory \in [D -> Int], NEW s \in AnySegment, NEW base \in Int
    PROVE  /\ Segment64(memory, s, base) \in [D -> Int]
           /\ s.filesz <= s.memsz => Lays(memory, Segment64(memory, s, base), s, Extent(s), base, D)
           /\ Segment32(memory, s) \in [D -> Int]
           /\ Lays(memory, Segment32(memory, s), s, FilePart(s), 0, D)
<1> DEFINE at == s.vaddr - base
           copied == FromFile(memory, at, s.off, s.filesz)
           cleared == Zeroed(copied, at + s.filesz, s.memsz - s.filesz)
           placed == FromFile(memory, s.vaddr, s.off, s.filesz)
<1>1. /\ s.vaddr \in Nat /\ s.off \in Nat /\ s.filesz \in Nat /\ s.memsz \in Nat
      /\ at \in Int /\ at + s.filesz \in Int /\ s.memsz - s.filesz \in Int
    BY SegmentTypes
<1>2. /\ copied \in [D -> Int]
      /\ \A c \in D : copied[c] =
           IF c \in at .. at + s.filesz - 1 THEN FileCell(s.off + c - at) ELSE memory[c]
    BY <1>1, CopyTypes
<1>3. /\ cleared \in [D -> Int]
      /\ \A c \in D : cleared[c] =
           IF c \in at + s.filesz .. at + s.filesz + (s.memsz - s.filesz) - 1 THEN 0 ELSE copied[c]
  <2> DEFINE p == at + s.filesz
             q == s.memsz - s.filesz
  <2>1. p \in Int /\ q \in Int /\ 0 \in Int
    BY <1>1
  <2> HIDE DEF p, q, copied
  <2>2. /\ Zeroed(copied, p, q) \in [D -> Int]
        /\ \A c \in D : Zeroed(copied, p, q)[c] = IF c \in p .. p + q - 1 THEN 0 ELSE copied[c]
    BY <1>2, <2>1, ClearTypes
  <2> QED
    BY <2>2 DEF p, q
<1>4. /\ placed \in [D -> Int]
      /\ \A c \in D : placed[c] =
           IF c \in s.vaddr .. s.vaddr + s.filesz - 1 THEN FileCell(s.off + c - s.vaddr) ELSE memory[c]
    BY <1>1, CopyTypes
<1>5. Segment64(memory, s, base) = cleared /\ Segment32(memory, s) = placed
    BY DEF Segment64, Segment32
<1>6. ASSUME s.filesz <= s.memsz, NEW c \in D
      PROVE  cleared[c] = IF c + base \in FilePart(s) THEN FileCell(s.off + c + base - s.vaddr)
                          ELSE IF c + base \in Extent(s) THEN 0 ELSE memory[c]
  <2>1. c \in Int /\ s.off + c - at = s.off + c + base - s.vaddr
    BY <1>1
  <2>2. c \in at .. at + s.filesz - 1 <=> c + base \in FilePart(s)
    BY <1>1, <2>1 DEF FilePart
  <2>3. c \in at + s.filesz .. at + s.filesz + (s.memsz - s.filesz) - 1
        <=> c + base \in Extent(s) /\ c + base \notin FilePart(s)
    BY <1>1, <1>6, <2>1 DEF FilePart, Extent
  <2> HIDE DEF copied, cleared, at
  <2> QED
    BY <1>2, <1>3, <1>6, <2>1, <2>2, <2>3
<1>7. ASSUME NEW c \in D
      PROVE  placed[c] = IF c + 0 \in FilePart(s) THEN FileCell(s.off + c + 0 - s.vaddr)
                         ELSE IF c + 0 \in FilePart(s) THEN 0 ELSE memory[c]
  <2>1. c + 0 = c /\ s.off + c + 0 - s.vaddr = s.off + c - s.vaddr
    BY <1>1
  <2>2. FilePart(s) = s.vaddr .. s.vaddr + s.filesz - 1
    BY DEF FilePart
  <2>3. placed[c] = IF c \in FilePart(s) THEN FileCell(s.off + c - s.vaddr) ELSE memory[c]
    BY <1>4, <1>7, <2>2
  <2> HIDE DEF placed
  <2> QED
    BY <2>1, <2>3
<1> HIDE DEF copied, cleared, placed, at
<1> QED
    BY <1>3, <1>4, <1>5, <1>6, <1>7 DEF Lays

\* The memory of image_load() after each turn.
LEMMA LoadingSteps ==
    ASSUME NEW list \in Tables, NEW class \in {32, 64}, NEW base \in Int, NEW size \in Nat
    PROVE  /\ Loading(class, list, base, size) \in [0 .. Len(list) -> [Cells(size) -> Int]]
           /\ Loading(class, list, base, size)[0] = Allocated(size)
           /\ \A i \in 1 .. Len(list) : Loading(class, list, base, size)[i] =
                IF i \notin Loads(list) THEN Loading(class, list, base, size)[i - 1]
                ELSE IF class = 64 THEN Segment64(Loading(class, list, base, size)[i - 1], list[i], base)
                ELSE Segment32(Loading(class, list, base, size)[i - 1], list[i])
<1> DEFINE n == Len(list)
           D == Cells(size)
           S == [D -> Int]
           Turn(i, m) == IF i \notin Loads(list) THEN m
                         ELSE IF class = 64 THEN Segment64(m, list[i], base)
                         ELSE Segment32(m, list[i])
           step == [i \in 1 .. n |-> [m \in S |-> Turn(i, m)]]
           s == Loading(class, list, base, size)
<1>1. n \in Nat /\ Allocated(size) \in S /\ D \in SUBSET Int /\ \A i \in 1 .. n : list[i] \in AnySegment
  <2>1. size \in Int
    OBVIOUS
  <2>2. Allocated(size) \in [Cells(size) -> Int] /\ Cells(size) \in SUBSET Int
    BY <2>1, CellsTypes
  <2> QED
    BY <2>2, ListTypes
<1> HIDE DEF n, D
<1>2. \A i \in 1 .. n, m \in S : Turn(i, m) \in S
    BY <1>1, SegmentsLay
<1> HIDE DEF Turn
<1>3. step \in [1 .. n -> [S -> S]]
    BY <1>2
<1>4. \A i \in 1 .. n, m \in S : step[i][m] = Turn(i, m)
    OBVIOUS
<1> HIDE DEF S, step
<1>5. PICK f : /\ f \in [0 .. n -> S] /\ f[0] = Allocated(size)
               /\ \A i \in 1 .. n : f[i] = step[i][f[i - 1]]
  <2>1. \E f : IsLoop(f, n, S, Allocated(size), step)
    BY <1>1, <1>3, LoopExists
  <2> QED
    BY <2>1 DEF IsLoop
<1>6. f = [i \in 0 .. n |-> IF i = 0 THEN Allocated(size) ELSE Turn(i, f[i - 1])]
  <2>1. ASSUME NEW i \in 0 .. n
        PROVE  f[i] = IF i = 0 THEN Allocated(size) ELSE Turn(i, f[i - 1])
    <3>1. CASE i = 0
        BY <1>5, <3>1
    <3>2. CASE i # 0
      <4>1. i \in 1 .. n /\ i - 1 \in 0 .. n
        BY <1>1, <3>2
      <4> QED
        BY <1>4, <1>5, <3>2, <4>1
    <3> QED
        BY <3>1, <3>2
  <2> QED
    BY <1>5, <2>1
<1>7. s = [i \in 0 .. n |-> IF i = 0 THEN Allocated(size) ELSE Turn(i, s[i - 1])]
  <2>1. s = CHOOSE g : g = [i \in 0 .. n |-> IF i = 0 THEN Allocated(size) ELSE Turn(i, g[i - 1])]
    BY DEF Loading, Turn, n
  <2>2. \E g : g = [i \in 0 .. n |-> IF i = 0 THEN Allocated(size) ELSE Turn(i, g[i - 1])]
    BY <1>6
  <2> HIDE DEF s
  <2> QED
    BY <2>1, <2>2
<1> HIDE DEF s
<1>8. s[0] = Allocated(size) /\ \A i \in 1 .. n : s[i] = Turn(i, s[i - 1])
    BY <1>1, <1>7
<1> DEFINE T == {i \in 0 .. n : s[i] \in S}
<1>9. 0 \in T
    BY <1>1, <1>8
<1>10. ASSUME NEW i \in 1 .. n, i - 1 \in T
       PROVE  i \in T
    BY <1>2, <1>8, <1>10
<1> HIDE DEF T
<1>11. \A i \in 0 .. n : i \in T
  <2>1. \A i \in 1 .. n : i - 1 \in T => i \in T
    BY <1>10
  <2> QED
    BY <1>1, <1>9, <2>1, UpTo
<1>12. s \in [0 .. n -> S]
  <2>1. \A i \in 0 .. n : s[i] \in S
    BY <1>11 DEF T
  <2> QED
    BY <1>7, <2>1
<1> QED
    BY <1>8, <1>12 DEF s, S, D, n, Turn

\* Rounding down and up to a multiple.
LEMMA Rounding ==
    ASSUME NEW a \in Nat, NEW d \in Nat \ {0}
    PROVE  /\ (a \div d) * d \in Nat /\ (a \div d) * d <= a /\ a < (a \div d) * d + d
           /\ ((a + d - 1) \div d) * d \in Nat /\ a <= ((a + d - 1) \div d) * d
<1>1. /\ (a \div d) * d \in Nat /\ (a \div d) * d <= a /\ a < (a \div d) * d + d
    BY SMT
<1> DEFINE b == a + d - 1
<1>2. b \in Nat
    OBVIOUS
<1>3. b = a + d - 1
    OBVIOUS
<1> HIDE DEF b
<1>4. (b \div d) * d \in Nat /\ b < (b \div d) * d + d
    BY <1>2, SMT
<1> DEFINE r == (b \div d) * d
<1> HIDE DEF r
<1>5. r \in Nat /\ b < r + d
    BY <1>4 DEF r
<1>6. a <= r
    BY <1>3, <1>5
<1> QED
    BY <1>1, <1>5, <1>6 DEF b, r

\* A segment that is loaded lies between the lowest and the highest address.
LEMMA LowAndHigh ==
    ASSUME NEW list \in Tables
    PROVE  /\ LowAddr(list) \in Nat /\ HighAddr(list) \in Nat
           /\ \A i \in Loads(list) : /\ LowAddr(list) <= list[i].vaddr
                                     /\ list[i].vaddr + list[i].memsz <= HighAddr(list)
<1> DEFINE n == Len(list)
           low == {list[i].vaddr : i \in Loads(list)}
           high == {list[i].vaddr + list[i].memsz : i \in Loads(list)}
<1>1. /\ n \in Nat /\ Loads(list) \subseteq 1 .. n /\ Loads(list) # {}
      /\ \A i \in Loads(list) : list[i].vaddr \in Nat /\ list[i].memsz \in Nat
    BY ListTypes, SegmentTypes
<1> HIDE DEF n
<1>2. low \in SUBSET Nat /\ low # {} /\ high \in SUBSET Nat /\ high # {}
    BY <1>1
<1>3. LowAddr(list) \in low /\ \A x \in low : LowAddr(list) <= x
  <2>1. \E x \in low : \A y \in low : x <= y
    BY <1>2, LeastIsThere
  <2>2. LowAddr(list) = CHOOSE x \in low : \A y \in low : x <= y
    BY DEF LowAddr, Min
  <2> HIDE DEF low
  <2> QED
    BY <2>1, <2>2
<1>4. \E x \in high : \A y \in high : x >= y
  <2> DEFINE Upto(m) == {i \in Loads(list) : i <= m}
             Ends(m) == {list[i].vaddr + list[i].memsz : i \in Upto(m)}
             T == {m \in 0 .. n : Upto(m) # {} => \E x \in Ends(m) : \A y \in Ends(m) : x >= y}
  <2>1. 0 \in T
    <3>1. Upto(0) = {}
        BY <1>1
    <3> QED
        BY <1>1, <3>1
  <2>2. ASSUME NEW m \in 1 .. n, m - 1 \in T
        PROVE  m \in T
    <3>1. CASE m \notin Loads(list)
      <4>1. Upto(m) = Upto(m - 1)
        BY <1>1, <3>1
      <4> QED
        BY <2>2, <4>1
    <3>2. CASE m \in Loads(list)
      <4> DEFINE e == list[m].vaddr + list[m].memsz
      <4>1. Upto(m) = Upto(m - 1) \cup {m}
        BY <1>1, <3>2
      <4>2. Ends(m) = Ends(m - 1) \cup {e}
        BY <4>1
      <4>3. e \in Nat /\ Ends(m - 1) \subseteq Nat
        BY <1>1, <3>2
      <4>4. Upto(m - 1) = {} => Ends(m - 1) = {}
        OBVIOUS
      <4>5. Upto(m - 1) # {} => \E x \in Ends(m - 1) : \A y \in Ends(m - 1) : x >= y
        BY <2>2
      <4> DEFINE before == Ends(m - 1)
                 now == Ends(m)
      <4>6. \E x \in now : \A y \in now : x >= y
        <5>1. before = {} \/ \E x \in before : \A y \in before : x >= y
            BY <4>4, <4>5
        <5>2. now = before \cup {e} /\ e \in Nat /\ before \subseteq Nat
            BY <4>2, <4>3
        <5> HIDE DEF before, now, e
        <5>3. CASE before = {}
            BY <5>2, <5>3
        <5>4. CASE \E x \in before : \A y \in before : x >= y
          <6>1. PICK x \in before : \A y \in before : x >= y
            BY <5>4
          <6>2. CASE x >= e
            BY <5>2, <6>1, <6>2
          <6>3. CASE ~(x >= e)
            BY <5>2, <6>1, <6>3
          <6> QED
            BY <6>2, <6>3
        <5> QED
            BY <5>1, <5>3, <5>4
      <4> QED
        BY <4>6
    <3> QED
        BY <3>1, <3>2
  <2> HIDE DEF T
  <2>3. \A m \in 0 .. n : m \in T
    <3>1. \A m \in 1 .. n : m - 1 \in T => m \in T
        BY <2>2
    <3> QED
        BY <1>1, <2>1, <3>1, UpTo
  <2>4. n \in T /\ Upto(n) = Loads(list)
    BY <1>1, <2>3
  <2> QED
    BY <1>1, <2>4 DEF T
<1>5. HighAddr(list) \in high /\ \A x \in high : HighAddr(list) >= x
  <2>1. HighAddr(list) = CHOOSE x \in high : \A y \in high : x >= y
    BY DEF HighAddr, Max
  <2> HIDE DEF high
  <2> QED
    BY <1>4, <2>1
<1>6. LowAddr(list) \in Nat /\ HighAddr(list) \in Nat
    BY <1>2, <1>3, <1>5
<1> QED
    BY <1>1, <1>3, <1>5, <1>6

\* So the buffer has room for every segment at its distance from the base.
LEMMA BufferIsLarge ==
    ASSUME NEW list \in Tables
    PROVE  /\ load_addr(list) \in Nat /\ BufferSize64(list) \in Nat
           /\ \A i \in Loads(list) : \A c \in Int :
                c + load_addr(list) \in Extent(list[i]) => c \in 0 .. BufferSize64(list) - 1
<1> DEFINE low == LowAddr(list)
           high == HighAddr(list)
           base == load_addr(list)
           room == RoundUp(high - low)
<1>1. /\ low \in Nat /\ high \in Nat /\ low <= high
      /\ \A i \in Loads(list) : /\ list[i].vaddr \in Nat /\ list[i].memsz \in Nat
                                /\ low <= list[i].vaddr /\ list[i].vaddr + list[i].memsz <= high
  <2>1. /\ low \in Nat /\ high \in Nat
        /\ \A i \in Loads(list) : /\ list[i].vaddr \in Nat /\ list[i].memsz \in Nat
                                  /\ low <= list[i].vaddr /\ list[i].vaddr + list[i].memsz <= high
    BY ListTypes, LowAndHigh, SegmentTypes
  <2>2. PICK i \in Loads(list) : TRUE
    BY ListTypes
  <2> HIDE DEF low, high
  <2> QED
    BY <2>1, <2>2
<1>2. Page \in Nat \ {0}
    BY LoaderAssumption
<1> HIDE DEF low, high
<1>3. base \in Nat /\ base <= low /\ low < base + Page
    BY <1>1, <1>2, Rounding DEF load_addr, low
<1>4. room \in Nat /\ high - low <= room
  <2>1. high - low \in Nat
    BY <1>1
  <2> QED
    BY <1>2, <2>1, Rounding DEF RoundUp
<1>5. BufferSize64(list) = room + Page
    BY DEF BufferSize64, low, high
<1> HIDE DEF base, room
<1>6. ASSUME NEW i \in Loads(list), NEW c \in Int, c + base \in Extent(list[i])
      PROVE  c \in 0 .. room + Page - 1
  <2> DEFINE v == list[i].vaddr
             m == list[i].memsz
  <2>1. v \in Nat /\ m \in Nat /\ low <= v /\ v + m <= high
    BY <1>1
  <2>2. c + base \in v .. v + m - 1
    BY <1>6 DEF Extent
  <2> HIDE DEF v, m
  <2> QED
    BY <1>1, <1>2, <1>3, <1>4, <2>1, <2>2
<1> QED
    BY <1>2, <1>3, <1>4, <1>5, <1>6 DEF base

\* Memory after the loop over the segments.
LEMMA LoadedTypes ==
    ASSUME NEW list \in Tables, NEW class \in {32, 64}, NEW base \in Int, NEW size \in Nat
    PROVE  Loaded(class, list, base, size) \in [Cells(size) -> Int]
<1>1. Len(list) \in 0 .. Len(list)
    BY ListTypes
<1>2. Loading(class, list, base, size) \in [0 .. Len(list) -> [Cells(size) -> Int]]
    BY LoadingSteps
<1> QED
    BY <1>1, <1>2 DEF Loaded

\* A 64-bit image whose segments are good and apart.
LEMMA Laid64 ==
    ASSUME NEW list \in Tables, ~Oversize(list),
           Disjoint([i \in Loads(list) |-> Extent(list[i])])
    PROVE  LaidOut(Loaded(64, list, load_addr(list), BufferSize64(list)), list, Loads(list),
                   load_addr(list), BufferSize64(list))
<1> DEFINE n == Len(list)
           base == load_addr(list)
           size == BufferSize64(list)
           f == Loading(64, list, base, size)
           D == Cells(size)
           kept == Loads(list)
           area == [i \in kept |-> Extent(list[i])]
<1>1. /\ n \in Nat /\ list \in [1 .. n -> AnySegment] /\ kept \in SUBSET (1 .. n)
      /\ base \in Nat /\ size \in Nat /\ base \in Int /\ size \in Int
      /\ \A i \in kept, c \in Int : c + base \in Extent(list[i]) => c \in 0 .. size - 1
    BY BufferIsLarge, ListTypes
<1> HIDE DEF n, base, size
<1>2. /\ D \in SUBSET Int
      /\ \A c \in D : Allocated(size)[c] = IF c \in 0 .. size - 1 THEN 0 ELSE Other
    BY <1>1, CellsTypes
<1>3. /\ f \in [0 .. n -> [D -> Int]] /\ f[0] = Allocated(size)
      /\ \A i \in 1 .. n : f[i] = IF i \notin kept THEN f[i - 1]
                                  ELSE IF 64 = 64 THEN Segment64(f[i - 1], list[i], base)
                                  ELSE Segment32(f[i - 1], list[i])
    BY <1>1, LoadingSteps DEF n
<1> HIDE DEF f, D
<1>4. \A i \in 1 .. n : i \notin kept => f[i] = f[i - 1]
    BY <1>3
<1>5. ASSUME NEW i \in kept
      PROVE  Lays(f[i - 1], f[i], list[i], area[i], base, D)
  <2>1. i \in 1 .. n /\ i - 1 \in 0 .. n /\ list[i] \in AnySegment /\ area[i] = Extent(list[i])
    BY <1>1
  <2>2. f[i] = Segment64(f[i - 1], list[i], base) /\ f[i - 1] \in [D -> Int]
    BY <1>3, <2>1
  <2>3. list[i].filesz <= list[i].memsz
    BY <2>1, SegmentTypes DEF Oversize
  <2> DEFINE m == f[i - 1]
             s == list[i]
  <2>4. m \in [D -> Int] /\ s \in AnySegment /\ s.filesz <= s.memsz
    BY <2>1, <2>2, <2>3
  <2> HIDE DEF m, s
  <2>5. Lays(m, Segment64(m, s, base), s, Extent(s), base, D)
    BY <1>1, <1>2, <2>4, SegmentsLay
  <2> QED
    BY <2>1, <2>2, <2>5 DEF m, s
<1>6. ASSUME NEW i \in kept
      PROVE  FilePart(list[i]) \subseteq area[i]
  <2>1. list[i].filesz <= list[i].memsz /\ list[i] \in AnySegment /\ area[i] = Extent(list[i])
    BY <1>1, SegmentTypes DEF Oversize
  <2> QED
    BY <2>1, SegmentTypes DEF FilePart, Extent
<1>7. \A i \in kept, c \in D : c + base \in area[i] => c \in 0 .. size - 1
    BY <1>1, <1>2
<1>8. \A i, j \in kept : i # j => area[i] \cap area[j] = {}
    BY DEF Disjoint
<1>9. \A c \in D : f[0][c] = IF c \in 0 .. size - 1 THEN 0 ELSE Other
    BY <1>2, <1>3
<1> HIDE DEF kept, area
<1>10. IsLaying(f, n, list, kept, area, base, size, D)
    BY <1>3, <1>4, <1>5, <1>6, <1>7, <1>8, <1>9 DEF IsLaying
<1>11. LaidOut(f[n], list, kept, base, size)
    BY <1>1, <1>2, <1>10, AllAreLaid
<1> QED
    BY <1>11 DEF Loaded, n, f, kept, base, size

\* A 32-bit image of segments that are apart and inside the buffer.
LEMMA Laid32 ==
    ASSUME NEW list \in Tables,
           \A i \in Loads(list) : list[i].vaddr + list[i].filesz <= FileSize,
           Disjoint([i \in Loads(list) |-> FilePart(list[i])])
    PROVE  LaidOut(Loaded(32, list, 0, FileSize), list, Loads(list), 0, FileSize)
<1> DEFINE n == Len(list)
           f == Loading(32, list, 0, FileSize)
           D == Cells(FileSize)
           kept == Loads(list)
           area == [i \in kept |-> FilePart(list[i])]
<1>1. /\ n \in Nat /\ list \in [1 .. n -> AnySegment] /\ kept \in SUBSET (1 .. n)
      /\ FileSize \in Nat /\ FileSize \in Int
    BY ListTypes, LoaderAssumption
<1> HIDE DEF n
<1>2. /\ D \in SUBSET Int
      /\ \A c \in D : Allocated(FileSize)[c] = IF c \in 0 .. FileSize - 1 THEN 0 ELSE Other
    BY <1>1, CellsTypes
<1>3. /\ f \in [0 .. n -> [D -> Int]] /\ f[0] = Allocated(FileSize)
      /\ \A i \in 1 .. n : f[i] = IF i \notin kept THEN f[i - 1]
                                  ELSE Segment32(f[i - 1], list[i])
  <2> DEFINE class == 32
             g == Loading(class, list, 0, FileSize)
  <2>1. class \in {32, 64} /\ class # 64 /\ 0 \in Int
    OBVIOUS
  <2>2. f = g
    OBVIOUS
  <2> HIDE DEF class, f
  <2>3. /\ g \in [0 .. n -> [D -> Int]] /\ g[0] = Allocated(FileSize)
        /\ \A i \in 1 .. n : g[i] = IF i \notin kept THEN g[i - 1]
                                    ELSE IF class = 64 THEN Segment64(g[i - 1], list[i], 0)
                                    ELSE Segment32(g[i - 1], list[i])
    BY <1>1, <2>1, LoadingSteps DEF n
  <2> HIDE DEF g, D
  <2> QED
    BY <2>1, <2>2, <2>3
<1> HIDE DEF f, D
<1>4. \A i \in 1 .. n : i \notin kept => f[i] = f[i - 1]
    BY <1>3
<1>5. ASSUME NEW i \in kept
      PROVE  Lays(f[i - 1], f[i], list[i], area[i], 0, D)
  <2>1. i \in 1 .. n /\ i - 1 \in 0 .. n /\ list[i] \in AnySegment /\ area[i] = FilePart(list[i])
    BY <1>1
  <2>2. f[i] = Segment32(f[i - 1], list[i]) /\ f[i - 1] \in [D -> Int] /\ 0 \in Int
    BY <1>3, <2>1
  <2> DEFINE m == f[i - 1]
             s == list[i]
  <2>3. m \in [D -> Int] /\ s \in AnySegment
    BY <2>1, <2>2
  <2> HIDE DEF m, s
  <2>4. Lays(m, Segment32(m, s), s, FilePart(s), 0, D)
    BY <1>2, <2>2, <2>3, SegmentsLay
  <2> QED
    BY <2>1, <2>2, <2>4 DEF m, s
<1>6. ASSUME NEW i \in kept
      PROVE  FilePart(list[i]) \subseteq area[i]
    OBVIOUS
<1>7. ASSUME NEW i \in kept, NEW c \in D, c + 0 \in area[i]
      PROVE  c \in 0 .. FileSize - 1
  <2>1. /\ list[i].vaddr \in Nat /\ list[i].filesz \in Nat
        /\ list[i].vaddr + list[i].filesz <= FileSize /\ c \in Int
    BY <1>1, <1>2, <1>7, SegmentTypes
  <2>2. c + 0 \in list[i].vaddr .. list[i].vaddr + list[i].filesz - 1
    BY <1>7 DEF FilePart
  <2> QED
    BY <1>1, <2>1, <2>2
<1>8. \A i, j \in kept : i # j => area[i] \cap area[j] = {}
    BY DEF Disjoint
<1>9. \A c \in D : f[0][c] = IF c \in 0 .. FileSize - 1 THEN 0 ELSE Other
    BY <1>2, <1>3
<1>10. \A i \in kept, c \in D : c + 0 \in area[i] => c \in 0 .. FileSize - 1
    BY <1>7
<1>11. 0 \in Int
    OBVIOUS
<1> HIDE DEF kept, area
<1>12. IsLaying(f, n, list, kept, area, 0, FileSize, D)
    BY <1>3, <1>4, <1>5, <1>6, <1>8, <1>9, <1>10 DEF IsLaying
<1>13. LaidOut(f[n], list, kept, 0, FileSize)
    BY <1>1, <1>2, <1>11, <1>12, AllAreLaid
<1> QED
    BY <1>13 DEF Loaded, n, f, kept

\* Any relocation.
Links == {"dynsym", "symtab", "neither"}

AnyReloc == Relocs(RelocTypes, Links)

\* Its fields.
LEMMA RelocFields ==
    ASSUME NEW r \in AnyReloc
    PROVE  r.off \in Nat /\ r.addend \in Nat /\ r.sym \in Nat /\ r.type \in RelocTypes
<1>1. /\ r.off \in VAddrs /\ r.addend \in VAddrs /\ r.sym \in {0, 2} /\ r.type \in RelocTypes
    BY DEF AnyReloc, Relocs
<1>2. VAddrs \subseteq Nat
    BY LoaderAssumption
<1>3. r.off \in Nat /\ r.addend \in Nat
    BY <1>1, <1>2
<1>4. r.sym \in Nat
    BY <1>1
<1> QED
    BY <1>1, <1>3, <1>4

\* And memory stays of numbers.
LEMMA RelocTypes64 ==
    ASSUME NEW r \in AnyReloc, NEW base \in Int, NEW D \in SUBSET Int, NEW memory \in [D -> Int]
    PROVE  Relocate64(memory, r, base) \in [D -> Int]
<1>1. r.off \in Nat /\ r.addend \in Nat /\ r.sym \in Nat /\ r.type \in RelocTypes
    BY RelocFields
<1>2. SymValue(r) \in Nat
    BY <1>1 DEF SymValue
<1>3. r.type \notin {"NONE", "unknown"} => Relocated(r, base) \in Int
    BY <1>1, <1>2, LoaderAssumption DEF Relocated, RelocTypes
<1> QED
    BY <1>1, <1>3 DEF Relocate64

\* The memory after each relocation.
IsRelocating(f, memory, relocs, base) ==
    f[0] = memory /\ \A i \in 1 .. Len(relocs) : f[i] = Relocate64(f[i - 1], relocs[i], base)

LEMMA RelocatingSteps ==
    ASSUME NEW relocs \in Seq(AnyReloc), NEW base \in Int, NEW memory,
           memory \in [DOMAIN memory -> Int], DOMAIN memory \in SUBSET Int
    PROVE  IsRelocating(Relocating(memory, relocs, base), memory, relocs, base)
<1> DEFINE n == Len(relocs)
           D == DOMAIN memory
           S == [D -> Int]
           Turn(i, m) == Relocate64(m, relocs[i], base)
           step == [i \in 1 .. n |-> [m \in S |-> Turn(i, m)]]
           s == Relocating(memory, relocs, base)
<1>1. n \in Nat /\ \A i \in 1 .. n : relocs[i] \in AnyReloc
  <2> HIDE DEF AnyReloc
  <2> QED
    OBVIOUS
<1>0. memory \in [D -> Int] /\ D \in SUBSET Int
    OBVIOUS
<1> HIDE DEF n, D
<1>2. \A i \in 1 .. n, m \in S : Turn(i, m) \in S
    BY <1>0, <1>1, RelocTypes64
<1> HIDE DEF Turn
<1>3. step \in [1 .. n -> [S -> S]]
    BY <1>2
<1>4. \A i \in 1 .. n, m \in S : step[i][m] = Turn(i, m)
    OBVIOUS
<1>5. memory \in S
    BY <1>0
<1> HIDE DEF S, step
<1>6. PICK f : /\ f \in [0 .. n -> S] /\ f[0] = memory
               /\ \A i \in 1 .. n : f[i] = step[i][f[i - 1]]
  <2>1. \E f : IsLoop(f, n, S, memory, step)
    BY <1>1, <1>3, <1>5, LoopExists
  <2> QED
    BY <2>1 DEF IsLoop
<1>7. f = [i \in 0 .. n |-> IF i = 0 THEN memory ELSE Turn(i, f[i - 1])]
  <2>1. ASSUME NEW i \in 0 .. n
        PROVE  f[i] = IF i = 0 THEN memory ELSE Turn(i, f[i - 1])
    <3>1. CASE i = 0
        BY <1>6, <3>1
    <3>2. CASE i # 0
      <4>1. i \in 1 .. n /\ i - 1 \in 0 .. n
        BY <1>1, <3>2
      <4> QED
        BY <1>4, <1>6, <3>2, <4>1
    <3> QED
        BY <3>1, <3>2
  <2> QED
    BY <1>6, <2>1
<1>8. s = [i \in 0 .. n |-> IF i = 0 THEN memory ELSE Turn(i, s[i - 1])]
  <2>1. s = CHOOSE g : g = [i \in 0 .. n |-> IF i = 0 THEN memory ELSE Turn(i, g[i - 1])]
    BY DEF Relocating, Turn, n
  <2>2. \E g : g = [i \in 0 .. n |-> IF i = 0 THEN memory ELSE Turn(i, g[i - 1])]
    BY <1>7
  <2> HIDE DEF s
  <2> QED
    BY <2>1, <2>2
<1> HIDE DEF s
<1>9. s[0] = memory /\ \A i \in 1 .. n : s[i] = Turn(i, s[i - 1])
  <2>1. 0 \in 0 .. n /\ \A i \in 1 .. n : i \in 0 .. n /\ i # 0
    BY <1>1
  <2>2. s[0] = memory
    BY <1>8, <2>1
  <2>3. \A i \in 1 .. n : s[i] = Turn(i, s[i - 1])
    BY <1>8, <2>1
  <2> QED
    BY <2>2, <2>3
<1> QED
    BY <1>9 DEF s, n, Turn, IsRelocating

\* What image_load() answers for an image of either class.
LEMMA Loads64 ==
    ASSUME NEW image, image.class = 64, image.magic, image.segments \in Tables,
           image.relocs = << >>
    PROVE  /\ Oversize(image.segments) => Load(image) = [Nothing EXCEPT !.freed = TRUE]
           /\ ~Oversize(image.segments) =>
                Load(image) = [result |-> "loaded", entry |-> image.entry - load_addr(image.segments),
                               freed |-> FALSE,
                               memory |-> Loaded(64, image.segments, load_addr(image.segments),
                                                 BufferSize64(image.segments))]
<1> DEFINE list == image.segments
           base == load_addr(list)
           size == BufferSize64(list)
           memory == Loaded(64, list, base, size)
<1>1. base \in Nat /\ size \in Nat
    BY BufferIsLarge
<1> HIDE DEF base, size
<1>2. memory \in [Cells(size) -> Int] /\ Cells(size) \in SUBSET Int
  <2>1. base \in Int /\ size \in Int /\ 64 \in {32, 64}
    BY <1>1
  <2> HIDE DEF list
  <2> QED
    BY <1>1, <2>1, CellsTypes, LoadedTypes DEF list
<1> HIDE DEF memory
<1>3. Relocating(memory, << >>, base)[0] = memory
  <2>1. << >> \in Seq(AnyReloc) /\ base \in Int
    BY <1>1
  <2>2. memory \in [DOMAIN memory -> Int] /\ DOMAIN memory \in SUBSET Int
    BY <1>2
  <2> HIDE DEF AnyReloc
  <2>3. IsRelocating(Relocating(memory, << >>, base), memory, << >>, base)
    BY <2>1, <2>2, RelocatingSteps
  <2> QED
    BY <2>3 DEF IsRelocating
<1>4. Len(image.relocs) = 0
    OBVIOUS
<1> QED
    BY <1>3, <1>4 DEF Load, Load64, memory, base, size

\* The same for 32 bits.
LEMMA Loads32 ==
    ASSUME NEW image, image.class = 32, image.magic
    PROVE  Load(image) = IF Oversize(image.segments) THEN [Nothing EXCEPT !.freed = TRUE]
                         ELSE IF image.start = "none" THEN Nothing
                         ELSE [result |-> "loaded", entry |-> image.entry, freed |-> FALSE,
                               memory |-> Loaded(32, image.segments, 0, FileSize)]
<1>1. image.class # 64
    OBVIOUS
<1> QED
    BY <1>1 DEF Load, Load32

\* The images that image_load() is called with.
ElfImage(class, magic, start, list) ==
    [class |-> class, magic |-> magic, start |-> start, relocs |-> << >>,
     segments |-> list, entry |-> list[1].vaddr]

ElfCalled ==
    \E class \in {32, 64}, magic \in BOOLEAN, start \in {"_start", "none"}, list \in Lists :
      LET image == ElfImage(class, magic, start, list)
      IN  call = [fn |-> "image_load", image |-> image] /\ answer = Load(image)

\* What is promised of ELF images holds after such a call.
LEMMA ElfIsPlaced == ElfCalled => LoadsExact
<1>0. SUFFICES ASSUME NEW class \in {32, 64}, NEW magic \in BOOLEAN,
                    NEW start \in {"_start", "none"}, NEW list \in Tables, NEW image,
                    image = [class |-> class, magic |-> magic, start |-> start, relocs |-> << >>,
                             segments |-> list, entry |-> list[1].vaddr],
                    call = [fn |-> "image_load", image |-> image], answer = Load(image)
             PROVE  LoadsExact
    BY TablesOfCalls DEF ElfCalled, ElfImage
<1>1. /\ image.class = class /\ image.magic = magic /\ image.start = start
      /\ image.relocs = << >> /\ image.segments = list /\ image.entry = list[1].vaddr
    BY <1>0
<1>2. call.fn = "image_load" /\ call.image = image
    BY <1>0
<1>3. RelocationsExact /\ MachPlaced /\ PatchExact
    BY <1>2 DEF RelocationsExact, MachPlaced, PatchExact, Called
<1>4. Elf64Placed
  <2>0. SUFFICES ASSUME class = 64, magic
               PROVE  LET base == load_addr(list)
                      IN  /\ (answer.result = "loaded")
                             = (\A i \in Loads(list) : list[i].filesz <= list[i].memsz)
                          /\ answer.result = "null" => answer.freed
                          /\ answer.result = "loaded"
                             /\ Disjoint([i \in Loads(list) |-> Extent(list[i])]) =>
                               /\ LaidOut(answer.memory, list, Loads(list), base, BufferSize64(list))
                               /\ answer.entry + base = list[1].vaddr
    BY <1>1, <1>2 DEF Elf64Placed
  <2> DEFINE base == load_addr(list)
             size == BufferSize64(list)
             memory == Loaded(64, list, base, size)
  <2>1. /\ Oversize(list) => answer = [Nothing EXCEPT !.freed = TRUE]
        /\ ~Oversize(list) => answer = [result |-> "loaded", entry |-> list[1].vaddr - base,
                                        freed |-> FALSE, memory |-> memory]
    <3>1. /\ image.class = 64 /\ image.magic /\ image.segments \in Tables
          /\ image.relocs = << >> /\ image.segments = list /\ image.entry = list[1].vaddr
        BY <1>1, <2>0
    <3> HIDE DEF base, size, memory
    <3>2. /\ Oversize(image.segments) => Load(image) = [Nothing EXCEPT !.freed = TRUE]
          /\ ~Oversize(image.segments) =>
               Load(image) = [result |-> "loaded", entry |-> image.entry - load_addr(image.segments),
                              freed |-> FALSE,
                              memory |-> Loaded(64, image.segments, load_addr(image.segments),
                                                BufferSize64(image.segments))]
        BY <3>1, Loads64
    <3>3. answer = Load(image)
        BY <1>0
    <3> QED
        BY <3>1, <3>2, <3>3, Zenon DEF base, size, memory
  <2>2. Oversize(list) <=> ~(\A i \in Loads(list) : list[i].filesz <= list[i].memsz)
    <3>1. \A i \in Loads(list) : list[i].filesz \in Nat /\ list[i].memsz \in Nat
        BY ListTypes, SegmentTypes
    <3> QED
        BY <3>1 DEF Oversize
  <2>3. base \in Nat /\ list[1].vaddr \in Nat
    <3>1. base \in Nat
        BY BufferIsLarge
    <3>2. list[1] \in AnySegment
      <4>1. 1 \in 1 .. Len(list)
        BY ListTypes
      <4> QED
        BY <4>1, ListTypes
    <3> QED
        BY <3>1, <3>2, SegmentTypes
  <2>4. CASE Oversize(list)
    <3>1. answer.result = "null" /\ answer.freed
        BY <2>1, <2>4 DEF Nothing
    <3> QED
        BY <2>2, <2>4, <3>1
  <2>5. CASE ~Oversize(list)
    <3>1. /\ answer.result = "loaded" /\ answer.memory = memory
          /\ answer.entry = list[1].vaddr - base
        BY <2>1, <2>5
    <3>2. Disjoint([i \in Loads(list) |-> Extent(list[i])]) =>
            LaidOut(memory, list, Loads(list), base, size)
        BY <2>5, Laid64
    <3>3. answer.entry + base = list[1].vaddr
        BY <2>3, <3>1
    <3> HIDE DEF memory, base, size
    <3> QED
        BY <2>2, <2>5, <3>1, <3>2, <3>3 DEF base, size
  <2> QED
    BY <2>4, <2>5
<1>5. Elf32Placed
  <2>0. SUFFICES ASSUME class = 32, answer.result = "loaded",
                      \A i \in Loads(list) : list[i].vaddr + list[i].filesz <= FileSize,
                      Disjoint([i \in Loads(list) |-> FilePart(list[i])])
               PROVE  LaidOut(answer.memory, list, Loads(list), 0, FileSize)
    BY <1>1, <1>2 DEF Elf32Placed
  <2>1. CASE ~magic
    <3>1. Load(image).result = "panic"
        BY <1>1, <2>1 DEF Load, Nothing
    <3> QED
        BY <1>0, <2>0, <3>1
  <2>2. CASE magic
    <3>1. answer = IF Oversize(list) THEN [Nothing EXCEPT !.freed = TRUE]
                   ELSE IF start = "none" THEN Nothing
                   ELSE [result |-> "loaded", entry |-> list[1].vaddr, freed |-> FALSE,
                         memory |-> Loaded(32, list, 0, FileSize)]
      <4>1. image.class = 32 /\ image.magic
        BY <1>1, <2>0, <2>2
      <4>2. Load(image) = IF Oversize(image.segments) THEN [Nothing EXCEPT !.freed = TRUE]
                          ELSE IF image.start = "none" THEN Nothing
                          ELSE [result |-> "loaded", entry |-> image.entry, freed |-> FALSE,
                                memory |-> Loaded(32, image.segments, 0, FileSize)]
        BY <4>1, Loads32
      <4>3. answer = Load(image)
        BY <1>0
      <4> QED
        BY <1>1, <4>2, <4>3, Zenon
    <3>2. answer.memory = Loaded(32, list, 0, FileSize)
        BY <2>0, <3>1 DEF Nothing
    <3>3. LaidOut(Loaded(32, list, 0, FileSize), list, Loads(list), 0, FileSize)
        BY <2>0, Laid32
    <3> QED
        BY <3>2, <3>3
  <2> QED
    BY <2>1, <2>2
<1> QED
    BY <1>3, <1>4, <1>5 DEF LoadsExact


\* What one relocation makes of memory.
LEMMA RelocWrites ==
    ASSUME NEW r \in AnyReloc, NEW base \in Int, NEW D \in SUBSET Int, NEW memory \in [D -> Int],
           r.off - base \in D
    PROVE  /\ \A c \in D : c # r.off - base => Relocate64(memory, r, base)[c] = memory[c]
           /\ r.type \in {"NONE", "unknown"} => Relocate64(memory, r, base) = memory
           /\ r.type = "relative" => Relocate64(memory, r, base)[r.off - base] = Buffer + r.addend
           /\ r.type = "PC64" /\ r.sym # 0 /\ r.link # "neither" =>
                Relocate64(memory, r, base)[r.off - base] = r.sym + r.addend - (Buffer + r.off - base)
<1> DEFINE at == r.off - base
           word == Relocated(r, base)
<1>1. r.type \notin {"NONE", "unknown"} => Relocate64(memory, r, base) = [memory EXCEPT ![at] = word]
    BY DEF Relocate64
<1>2. r.type \in {"NONE", "unknown"} => Relocate64(memory, r, base) = memory
    BY DEF Relocate64
<1>3. r.type = "relative" => word = Buffer + r.addend
    BY DEF Relocated
<1>4. r.type = "PC64" /\ r.sym # 0 /\ r.link # "neither" =>
        word = r.sym + r.addend - (Buffer + r.off - base)
  <2>1. r.sym # 0 /\ r.link # "neither" => SymValue(r) = r.sym
    BY DEF SymValue
  <2>2. r.type = "PC64" => word = SymValue(r) + r.addend - (Buffer + r.off - base)
    BY DEF Relocated
  <2> QED
    BY <2>1, <2>2
<1>5. at \in D
    OBVIOUS
<1> HIDE DEF word, at
<1>6. [memory EXCEPT ![at] = word][at] = word
    BY <1>5
<1>7. \A c \in D : c # at => [memory EXCEPT ![at] = word][c] = memory[c]
    OBVIOUS
<1>8. \A c \in D : c # at => Relocate64(memory, r, base)[c] = memory[c]
    BY <1>1, <1>2, <1>7
<1>9. r.type = "relative" \/ r.type = "PC64" => Relocate64(memory, r, base)[at] = word
    BY <1>1, <1>6
<1> QED
    BY <1>2, <1>3, <1>4, <1>8, <1>9 DEF at

\* An image of one segment with one relocation inside it.
RelocSegment(vaddr) ==
    [load |-> TRUE, vaddr |-> vaddr, off |-> 0, filesz |-> FileSize, memsz |-> FileSize + 2]

RelocImage(vaddr, r) ==
    [class |-> 64, magic |-> TRUE, start |-> "none", relocs |-> <<r>>,
     segments |-> <<RelocSegment(vaddr)>>, entry |-> vaddr]

RelocCalled ==
    \E vaddr \in VAddrs, types \in RelocTypes, links \in Links : \E r \in Relocs({types}, {links}) :
      LET image == RelocImage(vaddr, r)
      IN  /\ r.off \in Extent(RelocSegment(vaddr))
          /\ call = [fn |-> "relocated", image |-> image] /\ answer = Load(image)

\* What is promised of relocations holds after such a call.
LEMMA RelocIsPlaced == RelocCalled => LoadsExact
<1>0. SUFFICES ASSUME NEW vaddr \in VAddrs, NEW types \in RelocTypes, NEW links \in Links,
                      NEW r \in Relocs({types}, {links}), NEW s, NEW image,
                      s = [load |-> TRUE, vaddr |-> vaddr, off |-> 0, filesz |-> FileSize,
                           memsz |-> FileSize + 2],
                      image = [class |-> 64, magic |-> TRUE, start |-> "none", relocs |-> <<r>>,
                               segments |-> <<s>>, entry |-> vaddr],
                      r.off \in Extent(s),
                      call = [fn |-> "relocated", image |-> image], answer = Load(image)
               PROVE  LoadsExact
    BY DEF RelocCalled, RelocImage, RelocSegment
<1> DEFINE list == <<s>>
           bare == [image EXCEPT !.relocs = << >>]
           base == load_addr(list)
           size == BufferSize64(list)
           memory == Loaded(64, list, base, size)
           D == Cells(size)
<1>1. /\ image.class = 64 /\ image.magic /\ image.relocs = <<r>>
      /\ image.segments = list /\ image.entry = vaddr
    BY <1>0
<1>2. /\ bare.class = 64 /\ bare.magic /\ bare.relocs = << >>
      /\ bare.segments = list /\ bare.entry = vaddr
    BY <1>0
<1>3. call.fn = "relocated" /\ call.image = image
    BY <1>0
<1>4. r \in AnyReloc
    BY DEF AnyReloc, Relocs
<1>5. s \in AnySegment /\ s.load /\ s.filesz = FileSize /\ s.memsz = FileSize + 2
  <2>1. vaddr \in Nat /\ FileSize \in Nat /\ FileSize + 2 \in Nat /\ 0 \in Nat
    BY LoaderAssumption
  <2> QED
    BY <1>0, <2>1 DEF AnySegment
<1>6. Loads(list) = {1} /\ list[1] = s /\ list \in Tables
  <2>1. DOMAIN list = {1} /\ list[1] = s
    OBVIOUS
  <2>2. Loads(list) = {1}
    BY <1>5, <2>1 DEF Loads
  <2>3. list \in Seq(AnySegment)
    BY <1>5
  <2> HIDE DEF list
  <2> QED
    BY <2>1, <2>2, <2>3 DEF Tables
<1>7. ~Oversize(list)
    BY <1>5, <1>6, LoaderAssumption DEF Oversize
<1> HIDE DEF list, bare
<1>8. base \in Nat /\ size \in Nat /\ r.off - base \in 0 .. size - 1
  <2>1. base \in Nat /\ size \in Nat
    BY <1>6, BufferIsLarge
  <2>2. \A c \in Int : c + base \in Extent(list[1]) => c \in 0 .. size - 1
    BY <1>6, BufferIsLarge
  <2>3. r.off \in Nat
    BY LoaderAssumption DEF Relocs
  <2> HIDE DEF base, size
  <2>4. r.off - base \in Int /\ r.off - base + base = r.off
    BY <2>1, <2>3
  <2> QED
    BY <1>0, <1>6, <2>1, <2>2, <2>4
<1> HIDE DEF base, size
<1>9. memory \in [D -> Int] /\ D \in SUBSET Int /\ r.off - base \in D
  <2>1. base \in Int /\ size \in Int /\ 64 \in {32, 64}
    BY <1>8
  <2>2. memory \in [D -> Int] /\ D \in SUBSET Int
    BY <1>6, <1>8, <2>1, CellsTypes, LoadedTypes
  <2>3. r.off - base \in -Reach .. size + Reach
    BY <1>8, LoaderAssumption
  <2> QED
    BY <2>2, <2>3 DEF Cells
<1> HIDE DEF D, memory
<1>10. Load64(bare).memory = memory
  <2>1. Load(bare) = [result |-> "loaded", entry |-> bare.entry - load_addr(bare.segments),
                      freed |-> FALSE,
                      memory |-> Loaded(64, bare.segments, load_addr(bare.segments),
                                        BufferSize64(bare.segments))]
    BY <1>2, <1>6, <1>7, Loads64
  <2>2. Load(bare) = Load64(bare)
    BY <1>2 DEF Load
  <2> QED
    BY <1>2, <2>1, <2>2 DEF memory, base, size
<1>11. answer.memory = Relocate64(memory, r, base)
  <2> DEFINE relocs == <<r>>
  <2>1. relocs \in Seq(AnyReloc) /\ Len(relocs) = 1 /\ relocs[1] = r
    <3> HIDE DEF AnyReloc
    <3> QED
        BY <1>4
  <2> HIDE DEF relocs
  <2>2. base \in Int /\ 1 \in 1 .. Len(relocs) /\ 1 - 1 = 0
    BY <1>8, <2>1
  <2>3. Relocating(memory, relocs, base)[1] = Relocate64(memory, r, base)
    <3> DEFINE after == Relocating(memory, relocs, base)
    <3>1. after[0] = memory /\ \A i \in 1 .. Len(relocs) : after[i] = Relocate64(after[i - 1], relocs[i], base)
      <4>1. memory \in [DOMAIN memory -> Int] /\ DOMAIN memory \in SUBSET Int
        BY <1>9
      <4> HIDE DEF AnyReloc, after
      <4>2. IsRelocating(Relocating(memory, relocs, base), memory, relocs, base)
        BY <2>1, <2>2, <4>1, RelocatingSteps
      <4> QED
        BY <4>2 DEF IsRelocating, after
    <3> HIDE DEF after
    <3>2. after[1] = Relocate64(after[0], relocs[1], base)
        BY <2>2, <3>1
    <3> QED
        BY <2>1, <3>1, <3>2 DEF after
  <2>4. Load(image) = Load64(image)
    BY <1>1 DEF Load
  <2>5. Load64(image).memory = Relocating(memory, relocs, base)[1]
    BY <1>1, <1>7, <2>1 DEF Load64, memory, base, size, relocs
  <2>6. answer = Load(image)
    BY <1>0
  <2> QED
    BY <2>3, <2>4, <2>5, <2>6
<1>12. RelocationsExact
  <2> DEFINE after == Relocate64(memory, r, base)
  <2>1. /\ \A c \in D : c # r.off - base => after[c] = memory[c]
        /\ r.type \in {"NONE", "unknown"} => after = memory
        /\ r.type = "relative" => after[r.off - base] = Buffer + r.addend
        /\ r.type = "PC64" /\ r.sym # 0 /\ r.link # "neither" =>
             after[r.off - base] = r.sym + r.addend - (Buffer + r.off - base)
    BY <1>4, <1>8, <1>9, RelocWrites
  <2>2. r.off \in Int /\ r.addend \in Int /\ r.sym \in Int /\ Buffer \in Int
    <3>1. r.off \in Nat /\ r.addend \in Nat /\ r.sym \in Nat
        BY <1>4, RelocFields
    <3> QED
        BY <3>1, LoaderAssumption
  <2> HIDE DEF after
  <2>3. r.type = "relative" => after[r.off - base] - Buffer = r.addend
    BY <2>1, <2>2
  <2>4. r.type = "PC64" /\ r.sym # 0 /\ r.link # "neither" =>
          after[r.off - base] + Buffer + r.off - base = r.sym + r.addend
    BY <1>8, <2>1, <2>2
  <2>5. DOMAIN memory = D
    BY <1>9
  <2>6. call.image.relocs[1] = r /\ load_addr(call.image.segments) = base
    BY <1>1, <1>3 DEF base
  <2>7. Load64([call.image EXCEPT !.relocs = << >>]).memory = memory
    BY <1>3, <1>10 DEF bare
  <2> QED
    BY <1>11, <2>1, <2>3, <2>4, <2>5, <2>6, <2>7 DEF RelocationsExact, after
<1>13. Elf64Placed /\ Elf32Placed /\ MachPlaced /\ PatchExact
    BY <1>3 DEF Elf64Placed, Elf32Placed, MachPlaced, PatchExact, Called
<1> QED
    BY <1>12, <1>13 DEF LoadsExact

\* The states of the loop of macho_load64(): memory has the cells of its size.
MachLoads ==
    {l \in [memory : UNION {[Cells(k) -> Int] : k \in Nat}, size : Nat, base : Int] :
       l.memory \in [Cells(l.size) -> Int]}

\* And their fields.
LEMMA MachLoadTypes ==
    ASSUME NEW l \in MachLoads
    PROVE  /\ l.size \in Nat /\ l.base \in Int /\ l.memory \in [Cells(l.size) -> Int]
           /\ Cells(l.size) \in SUBSET Int /\ \A c \in 0 .. l.size - 1 : c \in Cells(l.size)
<1>1. l.size \in Nat /\ l.base \in Int /\ l.memory \in [Cells(l.size) -> Int]
    BY DEF MachLoads
<1>2. Cells(l.size) \in SUBSET Int /\ \A c \in 0 .. l.size - 1 : c \in Cells(l.size)
    BY <1>1, LoaderAssumption DEF Cells
<1> QED
    BY <1>1, <1>2

\* A record of such parts is one.
LEMMA MachLoadMade ==
    ASSUME NEW size \in Nat, NEW base \in Int, NEW memory \in [Cells(size) -> Int], NEW l,
           l = [memory |-> memory, size |-> size, base |-> base]
    PROVE  l \in MachLoads
<1>1. memory \in UNION {[Cells(k) -> Int] : k \in Nat}
    OBVIOUS
<1>2. l.memory = memory /\ l.size = size
    OBVIOUS
<1>3. l \in [memory : UNION {[Cells(k) -> Int] : k \in Nat}, size : Nat, base : Int]
    BY <1>1
<1> QED
    BY <1>2, <1>3 DEF MachLoads

\* A larger buffer and what it takes over.
LEMMA GrownTypes ==
    ASSUME NEW size \in Nat, NEW newSize \in Nat, NEW memory \in [Cells(size) -> Int], NEW n \in Int
    PROVE  /\ Grown(memory, newSize, n) \in [Cells(newSize) -> Int]
           /\ \A c \in 0 .. n - 1 : c < size /\ c < newSize => Grown(memory, newSize, n)[c] = memory[c]
<1> DEFINE fresh == Allocated(newSize)
           D == Cells(newSize)
           E == Cells(size)
           grown == [c \in D |-> IF c \in 0 .. n - 1 /\ c \in E THEN memory[c] ELSE fresh[c]]
<1>1. fresh \in [D -> Int] /\ DOMAIN memory = E
  <2>1. newSize \in Int
    OBVIOUS
  <2> QED
    BY <2>1, CellsTypes
<1> HIDE DEF fresh, D, E
<1>2. Grown(memory, newSize, n) = grown
    BY <1>1 DEF Grown, fresh
<1>3. grown \in [D -> Int]
    BY <1>1 DEF E
<1>4. ASSUME NEW c \in 0 .. n - 1, c < size, c < newSize
      PROVE  grown[c] = memory[c]
  <2>1. c \in E /\ c \in D
    BY <1>4, LoaderAssumption DEF D, E, Cells
  <2> QED
    BY <1>4, <2>1
<1> QED
    BY <1>2, <1>3, <1>4 DEF D

\* One turn of the loop.
LEMMA MachTurn ==
    ASSUME NEW l \in MachLoads, NEW s \in AnySegment
    PROVE  /\ SegmentMach(l, s) \in MachLoads
           /\ ~Copied(s) => SegmentMach(l, s) = l
           /\ Copied(s) =>
                LET base == IF l.base = -1 THEN s.vaddr ELSE l.base
                    at == s.vaddr - base
                    end == at + s.filesz
                    after == SegmentMach(l, s)
                IN  /\ after.base = base /\ after.size >= l.size /\ after.size >= end
                    /\ \A c \in 0 .. at - 1 : c < l.size => after.memory[c] = l.memory[c]
                    /\ at >= 0 => \A c \in at .. end - 1 : after.memory[c] = FileCell(s.off + c - at)
<1>1. CASE ~Copied(s)
    BY <1>1 DEF SegmentMach
<1>2. CASE Copied(s)
  <2> DEFINE base == IF l.base = -1 THEN s.vaddr ELSE l.base
             at == s.vaddr - base
             end == at + s.filesz
             grow == end > l.size
             size == IF grow THEN end + Page ELSE l.size
             memory == IF grow THEN Grown(l.memory, end + Page, at) ELSE l.memory
             copied == FromFile(memory, at, s.off, s.filesz)
             after == SegmentMach(l, s)
             D == Cells(size)
  <2>1. /\ s.vaddr \in Nat /\ s.off \in Nat /\ s.filesz \in Nat /\ l.size \in Nat /\ l.base \in Int
        /\ l.memory \in [Cells(l.size) -> Int] /\ Page \in Nat
    BY SegmentTypes, MachLoadTypes, LoaderAssumption
  <2>2. base \in Int
    BY <2>1
  <2>3. after = [memory |-> copied, size |-> size, base |-> base]
    <3>1. after = [l EXCEPT !.base = base, !.size = size, !.memory = copied]
        BY <1>2 DEF SegmentMach
    <3>2. l \in [memory : UNION {[Cells(k) -> Int] : k \in Nat}, size : Nat, base : Int]
        BY DEF MachLoads
    <3> HIDE DEF after, copied, size, base
    <3> QED
        BY <3>1, <3>2
  <2> HIDE DEF base, after, copied
  <2>4. at \in Int /\ end \in Int /\ end = at + s.filesz
    BY <2>1, <2>2
  <2> HIDE DEF at, end
  <2>5. size \in Nat /\ size >= l.size /\ size >= end
    BY <2>1, <2>4
  <2>6. /\ memory \in [D -> Int]
        /\ \A c \in 0 .. at - 1 : c < l.size => memory[c] = l.memory[c]
    <3>1. CASE grow
      <4>1. size = end + Page /\ size \in Nat /\ memory = Grown(l.memory, size, at)
        BY <2>5, <3>1
      <4> DEFINE old == l.memory
                 k == l.size
      <4>0. k \in Nat /\ size \in Nat /\ old \in [Cells(k) -> Int] /\ at \in Int
        BY <2>1, <2>4, <4>1
      <4> HIDE DEF size, memory, grow, old, k
      <4>2. /\ Grown(old, size, at) \in [Cells(size) -> Int]
            /\ \A c \in 0 .. at - 1 : c < k /\ c < size => Grown(old, size, at)[c] = old[c]
        BY <4>0, GrownTypes
      <4>3. \A c \in 0 .. at - 1 : c < k => c < size
        BY <2>5, <4>0 DEF k
      <4> QED
        BY <4>1, <4>2, <4>3 DEF old, k
    <3>2. CASE ~grow
      <4>1. size = l.size /\ memory = l.memory
        BY <3>2
      <4> QED
        BY <2>1, <4>1
    <3> QED
        BY <3>1, <3>2
  <2> HIDE DEF size, memory, grow
  <2>7. /\ copied \in [D -> Int]
        /\ \A c \in D : copied[c] =
             IF c \in at .. at + s.filesz - 1 THEN FileCell(s.off + c - at) ELSE memory[c]
    <3>1. D \in SUBSET Int
        BY <2>5, CellsTypes
    <3> HIDE DEF D
    <3> QED
        BY <2>1, <2>4, <2>6, <3>1, CopyTypes DEF copied
  <2>8. after \in MachLoads
    BY <2>2, <2>3, <2>5, <2>7, MachLoadMade
  <2>9. after.base = base /\ after.size = size /\ after.memory = copied
    BY <2>3
  <2>10. ASSUME NEW c \in 0 .. at - 1, c < l.size
         PROVE  copied[c] = l.memory[c]
    <3>1. c \in 0 .. size - 1 /\ c \notin at .. at + s.filesz - 1
        BY <2>1, <2>4, <2>5, <2>10
    <3>2. c \in D
        BY <2>5, <3>1, LoaderAssumption DEF Cells
    <3> QED
        BY <2>6, <2>7, <2>10, <3>1, <3>2
  <2>11. ASSUME at >= 0, NEW c \in at .. end - 1
         PROVE  copied[c] = FileCell(s.off + c - at)
    <3>1. c \in 0 .. size - 1 /\ c \in at .. at + s.filesz - 1
        BY <2>1, <2>4, <2>5, <2>11
    <3>2. c \in D
        BY <2>5, <3>1, LoaderAssumption DEF Cells
    <3> QED
        BY <2>7, <3>1, <3>2
  <2> HIDE DEF D
  <2> QED
    BY <1>2, <2>5, <2>8, <2>9, <2>10, <2>11 DEF base, at, end, after
<1> QED
    BY <1>1, <1>2

\* The state after each turn of the loop.
LEMMA LoadingMachSteps ==
    ASSUME NEW list \in Tables
    PROVE  /\ LoadingMach(list) \in [0 .. Len(list) -> MachLoads]
           /\ LoadingMach(list)[0].base = -1
           /\ \A i \in 1 .. Len(list) :
                LoadingMach(list)[i] = SegmentMach(LoadingMach(list)[i - 1], list[i])
<1> DEFINE n == Len(list)
           S == MachLoads
           empty == [memory |-> Allocated(MachSize), size |-> MachSize, base |-> -1]
           Turn(i, l) == SegmentMach(l, list[i])
           step == [i \in 1 .. n |-> [l \in S |-> Turn(i, l)]]
           s == LoadingMach(list)
<1>1. n \in Nat /\ \A i \in 1 .. n : list[i] \in AnySegment
    BY ListTypes
<1> HIDE DEF n
<1>2. empty \in S /\ empty.base = -1
  <2>1. MachSize \in Nat /\ MachSize \in Int /\ -1 \in Int
    BY LoaderAssumption DEF MachSize
  <2>2. Allocated(MachSize) \in [Cells(MachSize) -> Int]
    BY <2>1, CellsTypes
  <2> QED
    BY <2>1, <2>2, MachLoadMade
<1> HIDE DEF empty
<1>3. \A i \in 1 .. n, l \in S : Turn(i, l) \in S
    BY <1>1, MachTurn
<1> HIDE DEF Turn
<1>4. step \in [1 .. n -> [S -> S]]
    BY <1>3
<1>5. \A i \in 1 .. n, l \in S : step[i][l] = Turn(i, l)
    OBVIOUS
<1> HIDE DEF S, step
<1>6. PICK f : f \in [0 .. n -> S] /\ f[0] = empty /\ \A i \in 1 .. n : f[i] = step[i][f[i - 1]]
  <2>1. \E f : IsLoop(f, n, S, empty, step)
    BY <1>1, <1>2, <1>4, LoopExists
  <2> QED
    BY <2>1 DEF IsLoop
<1>7. f = [i \in 0 .. n |-> IF i = 0 THEN empty ELSE Turn(i, f[i - 1])]
  <2>1. ASSUME NEW i \in 0 .. n
        PROVE  f[i] = IF i = 0 THEN empty ELSE Turn(i, f[i - 1])
    <3>1. CASE i = 0
        BY <1>6, <3>1
    <3>2. CASE i # 0
      <4>1. i \in 1 .. n /\ i - 1 \in 0 .. n
        BY <1>1, <3>2
      <4> QED
        BY <1>5, <1>6, <3>2, <4>1
    <3> QED
        BY <3>1, <3>2
  <2> QED
    BY <1>6, <2>1
<1>8. s = [i \in 0 .. n |-> IF i = 0 THEN empty ELSE Turn(i, s[i - 1])]
  <2>1. s = CHOOSE g : g = [i \in 0 .. n |-> IF i = 0 THEN empty ELSE Turn(i, g[i - 1])]
    BY DEF LoadingMach, Turn, n, empty
  <2>2. \E g : g = [i \in 0 .. n |-> IF i = 0 THEN empty ELSE Turn(i, g[i - 1])]
    BY <1>7
  <2> HIDE DEF s
  <2> QED
    BY <2>1, <2>2
<1> HIDE DEF s
<1>9. s[0] = empty /\ \A i \in 1 .. n : s[i] = Turn(i, s[i - 1])
    BY <1>1, <1>8
<1> DEFINE T == {i \in 0 .. n : s[i] \in S}
<1>10. 0 \in T
    BY <1>1, <1>2, <1>9
<1>11. ASSUME NEW i \in 1 .. n, i - 1 \in T
       PROVE  i \in T
    BY <1>3, <1>9, <1>11
<1> HIDE DEF T
<1>12. \A i \in 0 .. n : i \in T
  <2>1. \A i \in 1 .. n : i - 1 \in T => i \in T
    BY <1>11
  <2> QED
    BY <1>1, <1>10, <2>1, UpTo
<1>13. s \in [0 .. n -> S]
  <2>1. \A i \in 0 .. n : s[i] \in S
    BY <1>12 DEF T
  <2> QED
    BY <1>8, <2>1
<1> QED
    BY <1>2, <1>9, <1>13 DEF s, S, n, Turn

\* After m turns the file parts of the kept segments lie at their distance from v,
\* the address of the first of them.
MachRight(l, list, kept, first, v, m) ==
    /\ m < first => l.base = -1
    /\ m >= first => l.base = v
    /\ \A i \in kept : i <= m =>
         /\ list[i].vaddr + list[i].filesz - v <= l.size
         /\ \A c \in FilePart(list[i]) : l.memory[c - v] = FileCell(list[i].off + c - list[i].vaddr)

\* An address inside a segment, counted from v instead.
LEMMA Inside ==
    ASSUME NEW v \in Nat, NEW a \in Nat, NEW z \in Nat, NEW c \in Int,
           v <= a, a <= c, c <= a + z - 1
    PROVE  a - v >= 0 /\ c - v \in a - v .. (a - v) + z - 1
OBVIOUS

\* And one of a segment p below the segment a.
LEMMA Lower ==
    ASSUME NEW v \in Nat, NEW p \in Nat, NEW z \in Nat, NEW a \in Nat, NEW size \in Nat, NEW c \in Int,
           v <= p, p <= c, c <= p + z - 1, p + z <= a, p + z - v <= size
    PROVE  c - v \in 0 .. (a - v) - 1 /\ c - v < size
OBVIOUS

\* One turn keeps that.
LEMMA MachStaysRight ==
    ASSUME NEW list \in Tables, NEW kept \in SUBSET (1 .. Len(list)),
           kept = {i \in DOMAIN list : Copied(list[i])},
           \A i, j \in kept : i < j => list[i].vaddr + list[i].filesz <= list[j].vaddr,
           NEW first \in kept, \A k \in kept : first <= k,
           NEW m \in 1 .. Len(list), NEW l \in MachLoads,
           MachRight(l, list, kept, first, list[first].vaddr, m - 1)
    PROVE  MachRight(SegmentMach(l, list[m]), list, kept, first, list[first].vaddr, m)
<1> DEFINE s == list[m]
           v == list[first].vaddr
           after == SegmentMach(l, s)
<1>1. /\ \A i \in 1 .. Len(list) : /\ list[i] \in AnySegment /\ list[i].vaddr \in Nat
                                   /\ list[i].off \in Nat /\ list[i].filesz \in Nat
      /\ Len(list) \in Nat /\ DOMAIN list = 1 .. Len(list)
    BY ListTypes, SegmentTypes
<1>2. v \in Nat /\ s \in AnySegment /\ l.size \in Nat /\ m \in Nat /\ first \in Nat
    BY <1>1, MachLoadTypes
<1> HIDE DEF v
<1>3. /\ m - 1 < first => l.base = -1
      /\ m - 1 >= first => l.base = v
      /\ \A i \in kept : i <= m - 1 =>
           /\ list[i].vaddr + list[i].filesz - v <= l.size
           /\ \A c \in FilePart(list[i]) : l.memory[c - v] = FileCell(list[i].off + c - list[i].vaddr)
    BY DEF MachRight, v
<1>4. CASE m \notin kept
  <2>1. ~Copied(s)
    BY <1>1, <1>4
  <2>2. after = l
    BY <1>2, <2>1, MachTurn
  <2>3. m # first /\ (m < first => m - 1 < first) /\ (m >= first => m - 1 >= first)
    BY <1>2, <1>4
  <2>4. \A i \in kept : i <= m => i <= m - 1
    BY <1>2, <1>4
  <2> HIDE DEF after
  <2>5. MachRight(after, list, kept, first, v, m)
    BY <1>3, <2>2, <2>3, <2>4 DEF MachRight
  <2> QED
    BY <2>5 DEF after, v
<1>5. CASE m \in kept
  <2> DEFINE base == IF l.base = -1 THEN s.vaddr ELSE l.base
             at == s.vaddr - v
             end == at + s.filesz
  <2>1. Copied(s) /\ s.vaddr \in Nat /\ s.off \in Nat /\ s.filesz \in Nat /\ first <= m
    BY <1>1, <1>5
  <2>2. base = v
    <3>1. CASE m = first
      <4>1. m - 1 < first
        BY <1>2, <3>1
      <4> QED
        BY <1>3, <3>1, <4>1 DEF v
    <3>2. CASE m # first
      <4>1. m - 1 >= first
        BY <1>2, <2>1, <3>2
      <4>2. l.base = v /\ v # -1
        BY <1>2, <1>3, <4>1
      <4> QED
        BY <4>2
    <3> QED
        BY <3>1, <3>2
  <2>3. v <= s.vaddr
    <3>1. CASE m = first
        BY <1>2, <3>1 DEF v
    <3>2. CASE m # first
      <4>1. first < m
        BY <1>2, <2>1, <3>2
      <4> DEFINE w == list[first].filesz
      <4>2. v + w <= s.vaddr
        BY <1>5, <4>1 DEF v
      <4>3. w \in Nat
        BY <1>1
      <4> HIDE DEF w, s
      <4> QED
        BY <1>2, <2>1, <4>2, <4>3
    <3> QED
        BY <3>1, <3>2
  <2>4. /\ after.base = v /\ after.size >= l.size /\ after.size >= end
        /\ \A c \in 0 .. at - 1 : c < l.size => after.memory[c] = l.memory[c]
        /\ at >= 0 => \A c \in at .. end - 1 : after.memory[c] = FileCell(s.off + c - at)
    <3>1. LET b == IF l.base = -1 THEN s.vaddr ELSE l.base
              a == s.vaddr - b
              e == a + s.filesz
          IN  /\ after.base = b /\ after.size >= l.size /\ after.size >= e
              /\ \A c \in 0 .. a - 1 : c < l.size => after.memory[c] = l.memory[c]
              /\ a >= 0 => \A c \in a .. e - 1 : after.memory[c] = FileCell(s.off + c - a)
        BY <1>2, <2>1, MachTurn
    <3> HIDE DEF after
    <3> QED
        BY <2>2, <3>1
  <2>5. after.size \in Nat
    BY <1>2, MachTurn, MachLoadTypes
  <2> HIDE DEF after
  <2>6. ASSUME NEW i \in kept, i <= m
        PROVE  /\ list[i].vaddr + list[i].filesz - v <= after.size
               /\ \A c \in FilePart(list[i]) :
                    after.memory[c - v] = FileCell(list[i].off + c - list[i].vaddr)
    <3>1. CASE i = m
      <4>1. list[i] = s
        BY <3>1
      <4>2. s.vaddr + s.filesz - v <= after.size
        BY <1>2, <2>1, <2>4, <2>5
      <4>3. ASSUME NEW c \in FilePart(s)
            PROVE  after.memory[c - v] = FileCell(s.off + c - s.vaddr)
        <5> DEFINE d == c - v
        <5>1. c \in Int /\ s.vaddr <= c /\ c <= s.vaddr + s.filesz - 1
            BY <2>1, <4>3 DEF FilePart
        <5> HIDE DEF s
        <5>2. at >= 0 /\ d \in at .. end - 1 /\ s.off + d - at = s.off + c - s.vaddr
          <6>1. at >= 0 /\ d \in at .. end - 1
            <7> DEFINE a == s.vaddr
                       z == s.filesz
            <7>1. /\ v \in Nat /\ a \in Nat /\ z \in Nat /\ c \in Int
                  /\ v <= a /\ a <= c /\ c <= a + z - 1
                BY <1>2, <2>1, <2>3, <5>1
            <7> HIDE DEF a, z
            <7>2. a - v >= 0 /\ c - v \in a - v .. (a - v) + z - 1
                BY <7>1, Inside
            <7>3. at = a - v /\ end = (a - v) + z /\ d = c - v
                BY DEF a, z
            <7> HIDE DEF at, end, d
            <7> QED
                BY <7>1, <7>2, <7>3
          <6>2. s.off + d - at = s.off + c - s.vaddr
            <7> DEFINE o == s.off
                       a == s.vaddr
            <7>1. o \in Int /\ a \in Int /\ c \in Int /\ v \in Int
                BY <1>2, <2>1, <5>1
            <7> HIDE DEF o, a, v
            <7>2. o + (c - v) - (a - v) = o + c - a
                BY <7>1
            <7> QED
                BY <7>2 DEF o, a
          <6> QED
            BY <6>1, <6>2
        <5> HIDE DEF d, at, end
        <5>3. after.memory[d] = FileCell(s.off + d - at)
            BY <2>4, <5>2
        <5> QED
            BY <5>2, <5>3 DEF d
      <4> HIDE DEF s
      <4> QED
        BY <4>1, <4>2, <4>3
    <3>2. CASE i # m
      <4> DEFINE p == list[i]
      <4>1. i < m /\ i <= m - 1
        BY <1>2, <2>6, <3>2
      <4>2. p.vaddr \in Nat /\ p.filesz \in Nat /\ p.vaddr + p.filesz <= s.vaddr
        BY <1>1, <1>5, <4>1
      <4>3. v <= p.vaddr
        <5>1. CASE i = first
            BY <4>2, <5>1 DEF v
        <5>2. CASE i # first
          <6>1. first < i
            BY <1>2, <5>2
          <6>2. list[first].vaddr + list[first].filesz <= p.vaddr
            BY <6>1
          <6>3. list[first].filesz \in Nat
            BY <1>1
          <6> QED
            BY <1>2, <4>2, <6>2, <6>3 DEF v
        <5> QED
            BY <5>1, <5>2
      <4>4. p.vaddr + p.filesz - v <= l.size
        BY <1>3, <4>1
      <4>5. \A c \in FilePart(p) : l.memory[c - v] = FileCell(p.off + c - p.vaddr)
        BY <1>3, <4>1
      <4>6. p.vaddr + p.filesz - v <= after.size
        <5> DEFINE e == p.vaddr + p.filesz - v
        <5>1. e \in Int /\ e <= l.size
            BY <1>2, <4>2, <4>4
        <5> HIDE DEF e
        <5>2. e <= after.size
            BY <1>2, <2>4, <2>5, <5>1
        <5> QED
            BY <5>2 DEF e
      <4>7. ASSUME NEW c \in FilePart(p)
            PROVE  after.memory[c - v] = FileCell(p.off + c - p.vaddr)
        <5>1. c \in Int /\ p.vaddr <= c /\ c <= p.vaddr + p.filesz - 1
            BY <4>2, <4>7 DEF FilePart
        <5> HIDE DEF p, s
        <5>2. c - v \in 0 .. at - 1 /\ c - v < l.size
            BY <1>2, <2>1, <4>2, <4>3, <4>4, <5>1, Lower
        <5>3. after.memory[c - v] = l.memory[c - v]
            BY <2>4, <5>2
        <5> QED
            BY <4>5, <4>7, <5>3 DEF p
      <4> QED
        BY <4>6, <4>7
    <3> QED
        BY <3>1, <3>2
  <2>7. ~(m < first) /\ after.base = v
    BY <1>2, <2>1, <2>4
  <2>8. MachRight(after, list, kept, first, v, m)
    BY <2>6, <2>7 DEF MachRight
  <2> QED
    BY <2>8 DEF after, v
<1> QED
    BY <1>4, <1>5

\* The Mach-O images.
MachImage(list, thread) ==
    [segments |-> list, thread |-> thread, entry |-> IF thread THEN list[1].vaddr ELSE 1]

MachCalled ==
    \E list \in Lists, thread \in BOOLEAN :
      LET image == MachImage(list, thread)
      IN  call = [fn |-> "macho", image |-> image] /\ answer = LoadMach(image)

\* What is promised of them holds after such a call.
LEMMA MachIsPlaced == MachCalled => LoadsExact
<1>0. SUFFICES ASSUME NEW list \in Tables, NEW thread \in BOOLEAN, NEW image,
                      image = [segments |-> list, thread |-> thread,
                               entry |-> IF thread THEN list[1].vaddr ELSE 1],
                      call = [fn |-> "macho", image |-> image], answer = LoadMach(image)
               PROVE  LoadsExact
    BY TablesOfCalls DEF MachCalled, MachImage
<1> DEFINE n == Len(list)
           kept == {i \in DOMAIN list : Copied(list[i])}
           f == LoadingMach(list)
<1>1. call.fn = "macho" /\ call.image.segments = list
    BY <1>0
<1>2. answer.memory = f[n].memory
  <2>1. image.segments = list
    BY <1>0
  <2> HIDE DEF f
  <2> QED
    BY <1>0, <2>1 DEF LoadMach, f
<1>3. MachPlaced
  <2>0. SUFFICES ASSUME \A i, j \in kept : i < j => list[i].vaddr + list[i].filesz <= list[j].vaddr,
                        NEW first \in kept, NEW i \in kept, \A k \in kept : first <= k,
                        NEW c \in FilePart(list[i])
                 PROVE  f[n].memory[c - list[first].vaddr] = FileCell(list[i].off + c - list[i].vaddr)
    BY <1>1, <1>2 DEF MachPlaced
  <2>1. /\ n \in Nat /\ kept \in SUBSET (1 .. n) /\ DOMAIN list = 1 .. n
    BY ListTypes
  <2>2. /\ f \in [0 .. n -> MachLoads] /\ f[0].base = -1
        /\ \A m \in 1 .. n : f[m] = SegmentMach(f[m - 1], list[m])
    BY LoadingMachSteps
  <2> HIDE DEF f, kept
  <2> DEFINE v == list[first].vaddr
             T == {m \in 0 .. n : MachRight(f[m], list, kept, first, v, m)}
  <2>3. 0 \in T
    <3>1. \A k \in kept : ~(k <= 0)
        BY <2>1
    <3>2. 0 < first /\ ~(0 >= first)
        BY <2>1
    <3>3. MachRight(f[0], list, kept, first, v, 0)
        BY <2>2, <3>1, <3>2 DEF MachRight
    <3> QED
        BY <2>1, <3>3
  <2>4. ASSUME NEW m \in 1 .. n, m - 1 \in T
        PROVE  m \in T
    <3> DEFINE l == f[m - 1]
    <3>1. l \in MachLoads /\ MachRight(l, list, kept, first, v, m - 1) /\ f[m] = SegmentMach(l, list[m])
        BY <2>1, <2>2, <2>4
    <3> HIDE DEF l
    <3>2. MachRight(SegmentMach(l, list[m]), list, kept, first, v, m)
        BY <2>0, <2>1, <3>1, MachStaysRight DEF kept
    <3> QED
        BY <2>1, <3>1, <3>2
  <2> HIDE DEF T
  <2>5. \A m \in 0 .. n : m \in T
    <3>1. \A m \in 1 .. n : m - 1 \in T => m \in T
        BY <2>4
    <3> QED
        BY <2>1, <2>3, <3>1, UpTo
  <2>6. MachRight(f[n], list, kept, first, v, n)
    BY <2>1, <2>5 DEF T
  <2>7. i \in kept /\ i <= n
    BY <2>1
  <2> QED
    BY <2>0, <2>6, <2>7 DEF MachRight
<1>4. Elf64Placed /\ Elf32Placed /\ RelocationsExact /\ PatchExact
    BY <1>1 DEF Elf64Placed, Elf32Placed, RelocationsExact, PatchExact, Called
<1> QED
    BY <1>3, <1>4 DEF LoadsExact

\* What compat_patch_syscalls() leaves of one byte.
LEMMA PatchedByte ==
    ASSUME NEW n \in Nat, NEW code \in [1 .. n -> {5, 15, 129}], NEW i \in 1 .. n
    PROVE  /\ Patched(code, 129) \in [1 .. n -> {5, 15, 129, 205}]
           /\ Patched(code, 129)[i] =
                IF i < n /\ code[i] = 15 /\ code[i + 1] = 5 THEN 205
                ELSE IF i > 1 /\ code[i - 1] = 15 /\ code[i] = 5 THEN 129
                ELSE code[i]
<1> DEFINE First(k) == k < n /\ code[k] = 15 /\ code[k + 1] = 5
           Second(k) == k > 1 /\ code[k - 1] = 15 /\ code[k] = 5
<1>1. DOMAIN code = 1 .. n /\ Len(code) = n
    OBVIOUS
<1>2. ASSUME NEW k \in 1 .. n
      PROVE  (IsSyscall(code, k) <=> First(k)) /\ (IsSyscall(code, k - 1) <=> Second(k))
  <2>1. k \in 1 .. n - 1 <=> k < n
    OBVIOUS
  <2>2. k - 1 \in 1 .. n - 1 <=> k > 1
    OBVIOUS
  <2>3. k - 1 + 1 = k
    OBVIOUS
  <2>4. IsSyscall(code, k) <=> k \in 1 .. n - 1 /\ code[k] = 15 /\ code[k + 1] = 5
    BY <1>1 DEF IsSyscall, SYSCALL
  <2>5. IsSyscall(code, k - 1) <=> k - 1 \in 1 .. n - 1 /\ code[k - 1] = 15 /\ code[k - 1 + 1] = 5
    BY <1>1 DEF IsSyscall, SYSCALL
  <2> QED
    BY <2>1, <2>2, <2>3, <2>4, <2>5
<1>3. \A k \in 1 .. n : ~(First(k) /\ Second(k))
    OBVIOUS
<1>4. Patched(code, 129) = [k \in 1 .. n |-> CASE IsSyscall(code, k) -> 205
                                               [] IsSyscall(code, k - 1) -> 129
                                               [] OTHER -> code[k]]
    BY <1>1 DEF Patched
<1>5. ASSUME NEW k \in 1 .. n
      PROVE  Patched(code, 129)[k] = IF First(k) THEN 205 ELSE IF Second(k) THEN 129 ELSE code[k]
  <2>1. Patched(code, 129)[k] = CASE IsSyscall(code, k) -> 205
                                  [] IsSyscall(code, k - 1) -> 129
                                  [] OTHER -> code[k]
    BY <1>4
  <2> HIDE DEF First, Second
  <2> QED
    BY <1>2, <1>3, <2>1
<1> HIDE DEF First, Second
<1>6. Patched(code, 129) \in [1 .. n -> {5, 15, 129, 205}]
  <2>1. \A k \in 1 .. n : Patched(code, 129)[k] \in {5, 15, 129, 205}
    BY <1>5
  <2> QED
    BY <1>4, <2>1
<1> QED
    BY <1>5, <1>6 DEF First, Second

\* Files whose format is asked for and code that is patched.
FormatCalled ==
    \E file \in [short : BOOLEAN, magic : {"macho", "elf", "none"}, class : {0, 32, 64}] :
      call = [fn |-> "format", file |-> file] /\ answer = Format(file)

PatchCalled ==
    \E code \in UNION {[1 .. n -> {5, 15, 129}] : n \in 0 .. MaxCode} :
      call = [fn |-> "patch", code |-> code] /\ answer = Patched(code, 129)

\* What is promised of them holds after such a call.
LEMMA FormatIsExact == FormatCalled => LoadsExact
<1>0. SUFFICES ASSUME NEW file \in [short : BOOLEAN, magic : {"macho", "elf", "none"}, class : {0, 32, 64}],
                      call = [fn |-> "format", file |-> file], answer = Format(file)
               PROVE  LoadsExact
    BY DEF FormatCalled
<1>1. call.fn = "format" /\ call.file = file
    BY <1>0
<1>2. /\ file.short \in BOOLEAN /\ file.magic \in {"macho", "elf", "none"}
      /\ file.class \in {0, 32, 64}
    OBVIOUS
<1>3. (answer = "native")
        = (file.short \/ file.magic = "none" \/ (file.magic = "elf" /\ file.class = 0))
  <2>1. CASE file.short
    BY <1>0, <2>1 DEF Format
  <2>2. CASE ~file.short /\ file.magic = "macho"
    BY <1>0, <2>2 DEF Format
  <2>3. CASE ~file.short /\ file.magic = "none"
    BY <1>0, <2>3 DEF Format
  <2>4. CASE ~file.short /\ file.magic = "elf" /\ file.class = 0
    BY <1>0, <2>4 DEF Format
  <2>5. CASE ~file.short /\ file.magic = "elf" /\ file.class # 0
    BY <1>0, <1>2, <2>5 DEF Format
  <2> QED
    BY <1>2, <2>1, <2>2, <2>3, <2>4, <2>5
<1> QED
    BY <1>1, <1>3 DEF LoadsExact, Elf64Placed, Elf32Placed, RelocationsExact, MachPlaced,
                      PatchExact, Called

\* And after one of these.
LEMMA PatchIsExact == PatchCalled => LoadsExact
<1>0. SUFFICES ASSUME NEW n \in 0 .. MaxCode, NEW code \in [1 .. n -> {5, 15, 129}],
                      call = [fn |-> "patch", code |-> code], answer = Patched(code, 129)
               PROVE  LoadsExact
    BY DEF PatchCalled
<1>1. call.fn = "patch" /\ call.code = code
    BY <1>0
<1>2. n \in Nat /\ Len(code) = n
    BY LoaderAssumption
<1>3. \A i \in 1 .. n :
        answer[i] = IF i < n /\ code[i] = 15 /\ code[i + 1] = 5 THEN 205
                    ELSE IF i > 1 /\ code[i - 1] = 15 /\ code[i] = 5 THEN 129
                    ELSE code[i]
    BY <1>0, <1>2, PatchedByte
<1>4. n # 0 => Len(answer) = n
    BY <1>0, <1>2, PatchedByte
<1>5. ASSUME NEW i \in 1 .. n
      PROVE  /\ ~IsSyscall(answer, i)
             /\ answer[i] # code[i] => <<code[i], answer[i]>> \in {<<15, 205>>, <<5, 129>>}
             /\ answer[i] = 205 => answer[i + 1] = 129
  <2>1. code[i] \in {5, 15, 129}
    OBVIOUS
  <2>2. answer[i] = IF i < n /\ code[i] = 15 /\ code[i + 1] = 5 THEN 205
                    ELSE IF i > 1 /\ code[i - 1] = 15 /\ code[i] = 5 THEN 129
                    ELSE code[i]
    BY <1>3
  <2>3. i < n => answer[i + 1] = IF i + 1 < n /\ code[i + 1] = 15 /\ code[i + 1 + 1] = 5 THEN 205
                                 ELSE IF code[i] = 15 /\ code[i + 1] = 5 THEN 129
                                 ELSE code[i + 1]
    <3> SUFFICES ASSUME i < n
                 PROVE  answer[i + 1] =
                          IF i + 1 < n /\ code[i + 1] = 15 /\ code[i + 1 + 1] = 5 THEN 205
                          ELSE IF code[i] = 15 /\ code[i + 1] = 5 THEN 129
                          ELSE code[i + 1]
        OBVIOUS
    <3>1. i + 1 \in 1 .. n /\ i + 1 > 1 /\ i + 1 - 1 = i
        BY <1>2
    <3> QED
        BY <1>3, <3>1
  <2>4. ~IsSyscall(answer, i)
    <3>1. IsSyscall(answer, i) => i < n /\ answer[i] = 15 /\ answer[i + 1] = 5
        BY <1>2, <1>4 DEF IsSyscall, SYSCALL
    <3> QED
        BY <2>1, <2>2, <2>3, <3>1
  <2>5. answer[i] # code[i] => (code[i] = 15 /\ answer[i] = 205) \/ (code[i] = 5 /\ answer[i] = 129)
    BY <2>2
  <2>6. answer[i] = 205 => answer[i + 1] = 129
    BY <2>1, <2>2, <2>3
  <2> QED
    BY <2>4, <2>5, <2>6
<1> QED
    BY <1>1, <1>2, <1>5 DEF LoadsExact, Elf64Placed, Elf32Placed, RelocationsExact, MachPlaced,
                            PatchExact, Called

\* Every call of the model is one of those.
LoaderInv ==
    call = NoCall \/ ElfCalled \/ RelocCalled \/ MachCalled \/ FormatCalled \/ PatchCalled

\* For every size of files, segments and code: an ELF64 image whose segments do not
\* overlap, and an ELF32 image whose segments lie in the size of its file as well,
\* lies in its buffer as it lies in its address space, and nothing outside is
\* written; a relocation touches its own word only, and the relative one of an
\* image that starts at 0 is right; a Mach-O buffer that grows while ascending
\* segments are placed loses nothing; the patch leaves no SYSCALL (image_load(),
\* macho_load64(), compat_detect_format(), compat_patch_syscalls()).
THEOREM ProgramsAreLoaded == LoaderSpec => []LoadsExact
<1>1. InvocationInit => LoaderInv
    BY DEF InvocationInit, LoaderInv
<1>2. LoaderInv /\ [LoaderNext]_invocationVars => LoaderInv'
  <2> SUFFICES ASSUME LoaderInv, [LoaderNext]_invocationVars
               PROVE  LoaderInv'
    OBVIOUS
  <2>1. CASE image_load
    <3>1. PICK class \in {32, 64}, magic \in BOOLEAN, start \in {"_start", "none"}, list \in Lists :
            LET image == [class |-> class, magic |-> magic, start |-> start, relocs |-> << >>,
                          segments |-> list, entry |-> list[1].vaddr]
            IN  Invoked([fn |-> "image_load", image |-> image], Load(image))
        BY <2>1 DEF image_load
    <3> DEFINE image == ElfImage(class, magic, start, list)
    <3>2. call' = [fn |-> "image_load", image |-> image] /\ answer' = Load(image)
        BY <3>1 DEF Invoked, ElfImage
    <3>3. ElfCalled'
        BY <3>2 DEF ElfCalled
    <3> QED
        BY <3>3 DEF LoaderInv
  <2>2. CASE image_load_relocated
    <3>1. PICK vaddr \in VAddrs, types \in RelocTypes, links \in Links :
            \E r \in Relocs({types}, {links}) :
              LET s == [load |-> TRUE, vaddr |-> vaddr, off |-> 0, filesz |-> FileSize,
                        memsz |-> FileSize + 2]
                  image == [class |-> 64, magic |-> TRUE, start |-> "none", relocs |-> <<r>>,
                            segments |-> <<s>>, entry |-> vaddr]
              IN  /\ r.off \in Extent(s)
                  /\ Invoked([fn |-> "relocated", image |-> image], Load(image))
        BY <2>2 DEF image_load_relocated, Links
    <3>2. PICK r \in Relocs({types}, {links}) :
            /\ r.off \in Extent(RelocSegment(vaddr))
            /\ Invoked([fn |-> "relocated", image |-> RelocImage(vaddr, r)], Load(RelocImage(vaddr, r)))
        BY <3>1 DEF RelocSegment, RelocImage
    <3> DEFINE image == RelocImage(vaddr, r)
    <3>3. call' = [fn |-> "relocated", image |-> image] /\ answer' = Load(image)
        BY <3>2 DEF Invoked
    <3>4. RelocCalled'
        BY <3>2, <3>3 DEF RelocCalled
    <3> QED
        BY <3>4 DEF LoaderInv
  <2>3. CASE macho_load64
    <3>1. MachCalled'
        BY <2>3 DEF macho_load64, MachCalled, MachImage, Invoked
    <3> QED
        BY <3>1 DEF LoaderInv
  <2>4. CASE compat_detect_format
    <3>1. FormatCalled'
        BY <2>4 DEF compat_detect_format, FormatCalled, Invoked
    <3> QED
        BY <3>1 DEF LoaderInv
  <2>5. CASE compat_patch_syscalls
    <3>1. PatchCalled'
        BY <2>5 DEF compat_patch_syscalls, PatchCalled, Invoked
    <3> QED
        BY <3>1 DEF LoaderInv
  <2>6. CASE UNCHANGED invocationVars
    <3>1. call' = call /\ answer' = answer
        BY <2>6 DEF invocationVars
    <3>2. ElfCalled => ElfCalled'
        BY <3>1, Zenon DEF ElfCalled
    <3>3. RelocCalled => RelocCalled'
        BY <3>1, Zenon DEF RelocCalled
    <3>4. MachCalled => MachCalled'
        BY <3>1, Zenon DEF MachCalled
    <3>5. FormatCalled => FormatCalled'
        BY <3>1, Zenon DEF FormatCalled
    <3>6. PatchCalled => PatchCalled'
        BY <3>1, Zenon DEF PatchCalled
    <3> QED
        BY <3>1, <3>2, <3>3, <3>4, <3>5, <3>6 DEF LoaderInv
  <2> QED
    BY <2>1, <2>2, <2>3, <2>4, <2>5, <2>6 DEF LoaderNext
<1>3. LoaderInv => LoadsExact
  <2>1. call = NoCall => LoadsExact
    BY DEF NoCall, LoadsExact, Elf64Placed, Elf32Placed, RelocationsExact, MachPlaced,
           PatchExact, Called
  <2> QED
    BY <2>1, ElfIsPlaced, RelocIsPlaced, MachIsPlaced, FormatIsExact, PatchIsExact DEF LoaderInv
<1> QED
    BY <1>1, <1>2, <1>3, PTL DEF LoaderSpec

-----------------------------------------------------------------------------
(* The frame of an interrupt. *)

\* The words of a frame, and what the stub and the processor push before the registers.
Names == {"rax", "rbx", "rcx", "rdx", "rbp", "rsi", "rdi", "r8", "r9", "r10", "r11", "r12", "r13",
          "r14", "r15", "int_no", "err_code", "rip", "cs", "rflags", "rsp", "ss"}
Pushed == <<"int_no", "err_code", "rip", "cs", "rflags", "rsp", "ss">>

Parts(u, s, t) ==
    /\ s \in Seq(Names) /\ t \in Seq(Names) /\ u \in Seq(Names)
    /\ Len(u) = Len(s) + Len(t)
    /\ \A i \in 1 .. Len(s) : u[i] = s[i]
    /\ \A i \in 1 .. Len(t) : u[Len(s) + i] = t[i]

\* A sequence of words is its parts, one behind the other.
LEMMA PutTogether ==
    ASSUME NEW s, NEW t, NEW u, Parts(u, s, t)
    PROVE  s \o t = u
<1>0. /\ s \in Seq(Names) /\ t \in Seq(Names) /\ u \in Seq(Names)
      /\ Len(u) = Len(s) + Len(t)
      /\ \A i \in 1 .. Len(s) : u[i] = s[i]
      /\ \A i \in 1 .. Len(t) : u[Len(s) + i] = t[i]
    BY DEF Parts
<1>1. s \o t \in Seq(Names) /\ Len(s \o t) = Len(s) + Len(t)
    BY <1>0
<1>2. ASSUME NEW i \in 1 .. Len(s \o t)
      PROVE  (s \o t)[i] = u[i]
  <2>1. CASE i <= Len(s)
    BY <1>0, <1>1, <2>1
  <2>2. CASE i > Len(s)
    <3>1. i - Len(s) \in 1 .. Len(t) /\ Len(s) + (i - Len(s)) = i
        BY <1>0, <1>1, <2>2
    <3>2. (s \o t)[i] = t[i - Len(s)]
        BY <1>0, <1>1, <2>2
    <3> QED
        BY <1>0, <3>1, <3>2
  <2> QED
    BY <1>0, <1>1, <2>1, <2>2
<1> QED
    BY <1>0, <1>1, <1>2, SeqEqual

\* Every vector has its number and an error code on the stack.
LEMMA FrameOfVector ==
    ASSUME NEW v \in Vectors
    PROVE  PushAll(Frame(v), (IF v \in ISR_ERRCODE THEN << >> ELSE <<"err_code">>) \o <<"int_no">>)
             = Pushed
<1> DEFINE five == <<"rip", "cs", "rflags", "rsp", "ss">>
           six == <<"err_code", "rip", "cs", "rflags", "rsp", "ss">>
           own == IF v \in ISR_ERRCODE THEN << >> ELSE <<"err_code">>
<1>1. PushAll(<< >>, <<"ss", "rsp", "rflags", "cs", "rip">>) = five
  <2>1. Reverse(<<"ss", "rsp", "rflags", "cs", "rip">>) = five
    BY DEF Reverse
  <2>2. Parts(five, five, << >>)
    BY DEF Parts, Names
  <2> QED
    BY <2>1, <2>2, PutTogether DEF PushAll
<1>2. CASE v \in ISR_ERRCODE
  <2>1. Frame(v) = PushAll(five, <<"err_code">>)
    BY <1>1, <1>2 DEF Frame, ISR_ERRCODE, WithError
  <2>2. Reverse(<<"err_code">>) = <<"err_code">> /\ Reverse(<<"int_no">>) = <<"int_no">>
    BY DEF Reverse
  <2>3. Parts(six, <<"err_code">>, five)
    BY DEF Parts, Names
  <2>4. Parts(<<"int_no">>, << >>, <<"int_no">>)
    BY DEF Parts, Names
  <2>5. Parts(Pushed, <<"int_no">>, six)
    BY DEF Parts, Names, Pushed
  <2>6. own \o <<"int_no">> = <<"int_no">>
    BY <1>2, <2>4, PutTogether, Zenon
  <2>7. Frame(v) = six
    BY <2>1, <2>2, <2>3, PutTogether, Zenon DEF PushAll
  <2> HIDE DEF six, own
  <2> QED
    BY <2>2, <2>5, <2>6, <2>7, PutTogether, Zenon DEF PushAll, own
<1>3. CASE v \notin ISR_ERRCODE
  <2>1. Frame(v) = five
    BY <1>1, <1>3 DEF Frame, ISR_ERRCODE, WithError
  <2>2. Reverse(<<"err_code", "int_no">>) = <<"int_no", "err_code">>
    BY DEF Reverse
  <2>3. Parts(<<"err_code", "int_no">>, <<"err_code">>, <<"int_no">>)
    BY DEF Parts, Names
  <2>4. Parts(Pushed, <<"int_no", "err_code">>, five)
    BY DEF Parts, Names, Pushed
  <2>5. own \o <<"int_no">> = <<"err_code", "int_no">>
    BY <1>3, <2>3, PutTogether, Zenon
  <2> HIDE DEF five, own
  <2> QED
    BY <2>1, <2>2, <2>4, <2>5, PutTogether, Zenon DEF PushAll, own
<1> QED
    BY <1>2, <1>3

\* The handler of every vector finds the registers where it looks for them.
LEMMA FrameSeen ==
    ASSUME NEW v \in Vectors
    PROVE  common_stub(v) = registers_t
<1>1. Reverse(Saved) = Restored
    BY DEF Reverse, Saved, Restored
<1>2. common_stub(v) = Restored \o Pushed
    BY <1>1, FrameOfVector DEF common_stub, PushAll
<1>3. Parts(registers_t, Restored, Pushed)
    BY DEF Parts, Restored, Pushed, registers_t, Names
<1> QED
    BY <1>2, <1>3, PutTogether, Zenon

\* The interrupted code gets its registers and its place back.
LEMMA StubReturns ==
    /\ \A r \in ToSet(Restored) : stub_returns(registers_t)[r] = r
    /\ AfterStub(registers_t) = <<"rip", "cs", "rflags", "rsp", "ss">>
<1>1. ASSUME NEW r \in ToSet(Restored)
      PROVE  stub_returns(registers_t)[r] = r
  <2> DEFINE at == CHOOSE i \in DOMAIN Restored : Restored[i] = r
  <2>1. at \in DOMAIN Restored /\ Restored[at] = r
    BY <1>1 DEF ToSet
  <2>2. \A k \in DOMAIN Restored : registers_t[k] = Restored[k]
    BY DEF Restored, registers_t
  <2>3. stub_returns(registers_t)[r] = registers_t[at]
    BY DEF stub_returns
  <2> HIDE DEF at
  <2> QED
    BY <2>1, <2>2, <2>3
<1>2. Len(Restored) = 15 /\ Len(registers_t) = 22 /\ registers_t \in Seq(Names)
    BY DEF Restored, registers_t, Names
<1>3. AfterStub(registers_t) = SubSeq(registers_t, 18, 22)
    BY <1>2 DEF AfterStub
<1>4. SubSeq(registers_t, 18, 22) = <<"rip", "cs", "rflags", "rsp", "ss">>
  <2>1. /\ registers_t[18] = "rip" /\ registers_t[19] = "cs" /\ registers_t[20] = "rflags"
        /\ registers_t[21] = "rsp" /\ registers_t[22] = "ss"
    BY DEF registers_t
  <2>2. SubSeq(registers_t, 18, 22) = [i \in 1 .. 5 |-> registers_t[17 + i]]
    BY <1>2
  <2>3. [i \in 1 .. 5 |-> registers_t[17 + i]] = <<"rip", "cs", "rflags", "rsp", "ss">>
    BY <2>1
  <2> QED
    BY <2>2, <2>3
<1> QED
    BY <1>1, <1>3, <1>4

-----------------------------------------------------------------------------
(* The layouts of the boot information. *)

\* Two ways to count the same sizes agree.
LEMMA SizesGrow ==
    ASSUME NEW layout, NEW N \in Nat, \A i \in 1 .. N : layout[i].size \in Nat
    PROVE  /\ SizeOf(layout, 0) = 0
           /\ \A n \in 1 .. N : SizeOf(layout, n) = SizeOf(layout, n - 1) + layout[n].size
           /\ \A n \in 0 .. N : SizeOf(layout, n) \in Nat
<1> DEFINE step == [i \in 1 .. N |-> [x \in Nat |-> x + layout[i].size]]
           Sum(n) == [k \in 0 .. n |-> k]
<1>1. PICK f : IsLoop(f, N, Nat, 0, step)
  <2>1. step \in [1 .. N -> [Nat -> Nat]]
    OBVIOUS
  <2> HIDE DEF step
  <2> QED
    BY <2>1, LoopExists
<1>2. f[0] = 0 /\ (\A k \in 0 .. N : f[k] \in Nat)
      /\ \A k \in 1 .. N : f[k] = f[k - 1] + layout[k].size
  <2>1. f \in [0 .. N -> Nat] /\ f[0] = 0 /\ \A k \in 1 .. N : f[k] = step[k][f[k - 1]]
    BY <1>1 DEF IsLoop
  <2>2. \A k \in 1 .. N : f[k - 1] \in Nat
    BY <2>1
  <2> QED
    BY <2>1, <2>2
<1>3. ASSUME NEW n \in 0 .. N
      PROVE  SizeOf(layout, n) = f[n]
  <2> DEFINE IsSum(g) == g = [k \in 0 .. n |-> IF k = 0 THEN 0 ELSE g[k - 1] + layout[k].size]
             size == CHOOSE g : IsSum(g)
  <2>1. \E g : IsSum(g)
    <3> DEFINE g == [k \in 0 .. n |-> f[k]]
    <3>1. \A k \in 1 .. n : g[k - 1] = f[k - 1] /\ k \in 1 .. N
        OBVIOUS
    <3>2. \A k \in 0 .. n : f[k] = IF k = 0 THEN 0 ELSE g[k - 1] + layout[k].size
        BY <1>2, <3>1
    <3>3. IsSum(g)
        BY <3>2
    <3> QED
        BY <3>3
  <2>2. IsSum(size)
    BY <2>1
  <2>3. SizeOf(layout, n) = size[n]
    BY DEF SizeOf
  <2> HIDE DEF size
  <2> DEFINE same == {k \in 0 .. n : size[k] = f[k]}
  <2>4. size[0] = 0 /\ \A k \in 1 .. n : size[k] = size[k - 1] + layout[k].size
    BY <2>2
  <2>5. 0 \in same
    BY <1>2, <2>4
  <2>6. \A k \in 1 .. n : k - 1 \in same => k \in same
    BY <1>2, <2>4
  <2>7. \A k \in 0 .. n : k \in same
    <3> HIDE DEF same
    <3> QED
        BY <2>5, <2>6, UpTo
  <2> QED
    BY <2>3, <2>7
<1> HIDE DEF step
<1>4. \A n \in 1 .. N : n - 1 \in 0 .. N /\ n \in 0 .. N
    OBVIOUS
<1>5. 0 \in 0 .. N
    OBVIOUS
<1> QED
    BY <1>2, <1>3, <1>4, <1>5

\* The fields of the two layouts: the first seven are the same, and so are those
\* behind the section table, which itdo.asm lays out as one field.
LEMMA Fields ==
    /\ Len(multiboot) = 28 /\ DOMAIN multiboot = 1 .. 28 /\ Len(mbi) = 25 /\ DOMAIN mbi = 1 .. 25
    /\ \A i \in 1 .. 28 : multiboot[i].size \in Nat
    /\ \A i \in 1 .. 25 : mbi[i].size \in Nat
    /\ \A i \in 1 .. 7 : mbi[i] = multiboot[i]
    /\ \A i \in 9 .. 25 : mbi[i] = multiboot[i + 3]
    /\ mbi[8].size = 16
    /\ multiboot[8].size = 4 /\ multiboot[9].size = 4 /\ multiboot[10].size = 4 /\ multiboot[11].size = 4
<1>1. Len(multiboot) = 28 /\ DOMAIN multiboot = 1 .. 28
    BY DEF multiboot, Dwords
<1>2. Len(mbi) = 25 /\ DOMAIN mbi = 1 .. 25
    BY DEF mbi, Dwords
<1>3. \A i \in 1 .. 28 : multiboot[i].size \in Nat
    BY DEF multiboot, Dwords, Field
<1>4. \A i \in 1 .. 25 : mbi[i].size \in Nat
    BY DEF mbi, Dwords, Field
<1>5. mbi[8].size = 16
    BY DEF mbi, Dwords, Field
<1>6. multiboot[8].size = 4 /\ multiboot[9].size = 4 /\ multiboot[10].size = 4 /\ multiboot[11].size = 4
    BY DEF multiboot, Dwords, Field
<1>7. \A i \in 1 .. 7 : mbi[i] = multiboot[i]
    BY DEF multiboot, mbi, Dwords
<1>8. \A i \in 9 .. 25 : mbi[i] = multiboot[i + 3]
    BY DEF multiboot, mbi, Dwords
<1> QED
    BY <1>1, <1>2, <1>3, <1>4, <1>5, <1>6, <1>7, <1>8

\* No two fields of a layout have one name.
LEMMA NamesDiffer ==
    /\ \A i, j \in 1 .. 28 : multiboot[i].name = multiboot[j].name => i = j
    /\ \A i, j \in 1 .. 25 : mbi[i].name = mbi[j].name => i = j
    /\ \A i \in 1 .. 28 : multiboot[i].name \notin {"num", "size", "addr", "shndx"} => i \notin 8 .. 11
<1>1. \A i, j \in 1 .. 28 : multiboot[i].name = multiboot[j].name => i = j
    BY DEF multiboot, Dwords, Field
<1>2. \A i, j \in 1 .. 25 : mbi[i].name = mbi[j].name => i = j
    BY DEF mbi, Dwords, Field
<1>3. \A i \in 1 .. 28 : multiboot[i].name \notin {"num", "size", "addr", "shndx"} => i \notin 8 .. 11
    BY DEF multiboot, Dwords, Field
<1> QED
    BY <1>1, <1>2, <1>3

Distinct(layout) ==
    \A j, k \in DOMAIN layout : layout[j].name = layout[k].name => j = k

\* Where a field begins: where those before it end.
LEMMA OffsetOfField ==
    ASSUME NEW layout, Distinct(layout), NEW i \in DOMAIN layout
    PROVE  OffsetOf(layout, layout[i].name) = SizeOf(layout, i - 1)
<1> DEFINE at == CHOOSE k \in DOMAIN layout : layout[k].name = layout[i].name
<1>1. at \in DOMAIN layout /\ layout[at].name = layout[i].name
    OBVIOUS
<1>2. OffsetOf(layout, layout[i].name) = SizeOf(layout, at - 1)
    BY DEF OffsetOf
<1> HIDE DEF at
<1>3. at = i
    BY <1>1 DEF Distinct
<1> QED
    BY <1>2, <1>3

\* Up to a field the two layouts are equally long, whatever lies between.
LEMMA SizesAgree ==
    /\ \A i \in 0 .. 7 : SizeOf(mbi, i) = SizeOf(multiboot, i)
    /\ \A i \in 8 .. 25 : SizeOf(mbi, i) = SizeOf(multiboot, i + 3)
<1> DEFINE b(i) == SizeOf(mbi, i)
           m(i) == SizeOf(multiboot, i)
<1>1. /\ b(0) = 0 /\ m(0) = 0
      /\ \A n \in 1 .. 25 : b(n) = b(n - 1) + mbi[n].size
      /\ \A n \in 1 .. 28 : m(n) = m(n - 1) + multiboot[n].size
      /\ \A n \in 0 .. 25 : b(n) \in Nat
      /\ \A n \in 0 .. 28 : m(n) \in Nat
    BY Fields, SizesGrow
<1> DEFINE front == {i \in 0 .. 7 : b(i) = m(i)}
           back == {i \in 0 .. 17 : b(i + 8) = m(i + 11)}
<1> HIDE DEF b, m
<1>2. \A i \in 0 .. 7 : i \in front
  <2>1. 0 \in front
    BY <1>1
  <2>2. \A i \in 1 .. 7 : i - 1 \in front => i \in front
    BY <1>1, Fields
  <2> HIDE DEF front
  <2> QED
    BY <2>1, <2>2, UpTo
<1>3. b(7) = m(7)
    BY <1>2
<1>4. b(8) = b(7) + 16 /\ m(11) = m(7) + 16
  <2>1. b(8) = b(7) + mbi[8].size
    BY <1>1
  <2>2. /\ m(8) = m(7) + multiboot[8].size /\ m(9) = m(8) + multiboot[9].size
        /\ m(10) = m(9) + multiboot[10].size /\ m(11) = m(10) + multiboot[11].size
    BY <1>1
  <2>3. b(7) \in Nat /\ m(7) \in Nat
    BY <1>1
  <2> QED
    BY <2>1, <2>2, <2>3, Fields
<1>5. \A i \in 0 .. 17 : i \in back
  <2>1. 0 \in back
    BY <1>3, <1>4
  <2>2. ASSUME NEW i \in 1 .. 17, i - 1 \in back
        PROVE  i \in back
    <3>1. b(i + 8) = b(i + 7) + mbi[i + 8].size
        BY <1>1
    <3>2. m(i + 11) = m(i + 10) + multiboot[i + 11].size
        BY <1>1
    <3>3. mbi[i + 8] = multiboot[i + 11]
        BY Fields
    <3>4. b(i + 7) = m(i + 10)
        BY <2>2
    <3> QED
        BY <3>1, <3>2, <3>3, <3>4
  <2> HIDE DEF back
  <2> QED
    BY <2>1, <2>2, UpTo
<1>6. ASSUME NEW i \in 8 .. 25
      PROVE  b(i) = m(i + 3)
  <2>1. i - 8 \in 0 .. 17 /\ (i - 8) + 8 = i /\ (i - 8) + 11 = i + 3
    OBVIOUS
  <2> QED
    BY <1>5, <2>1
<1>7. \A i \in 0 .. 7 : b(i) = m(i)
    BY <1>2
<1> QED
    BY <1>6, <1>7 DEF b, m

\* The C code finds every field where the assembly has it, but for those of the
\* section table, and the two are equally long.
LEMMA LayoutsAgree ==
    /\ SizeOf(mbi, Len(mbi)) = SizeOf(multiboot, Len(multiboot))
    /\ \A f \in ToSet(multiboot) :
         f.name \notin {"num", "size", "addr", "shndx"} =>
           OffsetOf(mbi, f.name) = OffsetOf(multiboot, f.name)
<1>1. SizeOf(mbi, 25) = SizeOf(multiboot, 28)
    BY SizesAgree
<1>0. Distinct(multiboot) /\ Distinct(mbi)
    BY Fields, NamesDiffer DEF Distinct
<1>2. ASSUME NEW f \in ToSet(multiboot), f.name \notin {"num", "size", "addr", "shndx"}
      PROVE  OffsetOf(mbi, f.name) = OffsetOf(multiboot, f.name)
  <2>1. PICK i \in 1 .. 28 : f = multiboot[i]
    BY Fields DEF ToSet
  <2>2. i \notin 8 .. 11
    BY <1>2, <2>1, NamesDiffer
  <2>6. i \in DOMAIN multiboot
    BY <2>1, Fields
  <2>3. OffsetOf(multiboot, f.name) = SizeOf(multiboot, i - 1)
    BY <1>0, <2>1, <2>6, OffsetOfField
  <2>4. CASE i \in 1 .. 7
    <3>1. f = mbi[i] /\ i \in 1 .. 25 /\ i - 1 \in 0 .. 7
        BY <2>1, <2>4, Fields
    <3>4. i \in DOMAIN mbi
        BY <3>1, Fields
    <3>2. OffsetOf(mbi, f.name) = SizeOf(mbi, i - 1)
        BY <1>0, <3>1, <3>4, OffsetOfField
    <3> QED
        BY <2>3, <3>1, <3>2, SizesAgree
  <2>5. CASE i \in 12 .. 28
    <3>1. i - 3 \in 9 .. 25 /\ (i - 3) + 3 = i /\ i - 3 \in 1 .. 25 /\ (i - 3) - 1 \in 8 .. 25
          /\ ((i - 3) - 1) + 3 = i - 1
        BY <2>5
    <3>2. f = mbi[i - 3]
        BY <2>1, <3>1, Fields
    <3>4. i - 3 \in DOMAIN mbi
        BY <3>1, Fields
    <3>3. OffsetOf(mbi, f.name) = SizeOf(mbi, (i - 3) - 1)
        BY <1>0, <3>2, <3>4, OffsetOfField
    <3> QED
        BY <2>3, <3>1, <3>3, SizesAgree
  <2> QED
    BY <2>2, <2>4, <2>5
<1> QED
    BY <1>1, <1>2, Fields

-----------------------------------------------------------------------------
(* The modules of the boot loader. *)

\* The smaller of two numbers.
LEMMA MinOfTwo ==
    ASSUME NEW m \in Nat, NEW n \in Nat
    PROVE  Min({m, n}) = IF m <= n THEN m ELSE n
<1> DEFINE small == IF m <= n THEN m ELSE n
           Least(x) == x \in {m, n} /\ \A y \in {m, n} : x <= y
<1>1. Least(small)
    OBVIOUS
<1>2. \A x : Least(x) => x = small
    OBVIOUS
<1>3. Min({m, n}) = CHOOSE x : Least(x)
    BY DEF Min
<1> HIDE DEF small, Least
<1>4. Least(CHOOSE x : Least(x))
    BY <1>1
<1>5. (CHOOSE x : Least(x)) = small
    BY <1>2, <1>4
<1> QED
    BY <1>3, <1>5 DEF small

\* What bridge_modules() has written: no more than it has looked at, and nothing
\* only where there was nothing.
LEMMA ModulesBridged ==
    ASSUME NEW list \in ModLists
    PROVE  LET n == Min({Len(list), MaxMods})
           IN  /\ n \in Nat /\ n <= MaxMods
               /\ bridge_modules(list) \in Seq(Nat)
               /\ Len(bridge_modules(list)) <= n
               /\ bridge_modules(list) = << >> <=> \A i \in 1 .. n : list[i] = Null
               /\ bridge_modules(list) # << >> => bridge_modules(list)[1] # Null
<1> DEFINE n == Min({Len(list), MaxMods})
           empty == << >>
           Taken(k, x) == IF list[k] = Null THEN x ELSE Append(x, list[k])
           step == [i \in 1 .. n |-> [x \in Seq(Nat) |-> Taken(i, x)]]
           IsBridge(g) == g = [k \in 0 .. n |-> IF k = 0 THEN empty ELSE Taken(k, g[k - 1])]
           mods == CHOOSE g : IsBridge(g)
<1>1. list \in Seq(Nat) /\ Len(list) \in Nat /\ MaxMods \in Nat
    BY BootAssumption
<1>2. n \in Nat /\ n <= MaxMods /\ n <= Len(list)
    BY <1>1, MinOfTwo
<1>3. bridge_modules(list) = mods[n]
    BY DEF bridge_modules
<1> HIDE DEF n
<1>4. \A i \in 1 .. n : list[i] \in Nat
    BY <1>1, <1>2
<1>5. PICK f : IsLoop(f, n, Seq(Nat), << >>, step)
  <2>1. step \in [1 .. n -> [Seq(Nat) -> Seq(Nat)]]
    BY <1>4
  <2>2. << >> \in Seq(Nat)
    OBVIOUS
  <2> HIDE DEF step
  <2> QED
    BY <1>2, <2>1, <2>2, LoopExists
<1> HIDE DEF Taken, empty
<1>6. f[0] = empty /\ f = [k \in 0 .. n |-> f[k]] /\ \A k \in 1 .. n : f[k] = Taken(k, f[k - 1])
  <2>1. f \in [0 .. n -> Seq(Nat)] /\ f[0] = empty /\ \A k \in 1 .. n : f[k] = step[k][f[k - 1]]
    BY <1>5 DEF IsLoop, empty
  <2>2. \A k \in 1 .. n : f[k - 1] \in Seq(Nat)
    BY <1>2, <2>1
  <2> QED
    BY <2>1, <2>2
<1> HIDE DEF step
<1>7. \E g : IsBridge(g)
  <2>1. \A k \in 0 .. n : f[k] = IF k = 0 THEN empty ELSE Taken(k, f[k - 1])
    <3> SUFFICES ASSUME NEW k \in 0 .. n
                 PROVE  f[k] = IF k = 0 THEN empty ELSE Taken(k, f[k - 1])
        OBVIOUS
    <3>1. k # 0 => k \in 1 .. n
        BY <1>2
    <3> QED
        BY <1>6, <3>1, Zenon
  <2>2. IsBridge(f)
    BY <1>6, <2>1
  <2> QED
    BY <2>2
<1>8. IsBridge(mods)
    BY <1>7
<1> HIDE DEF mods
<1>9. mods[0] = empty /\ \A k \in 1 .. n : mods[k] = Taken(k, mods[k - 1])
    BY <1>2, <1>8
<1>13. mods[0] = << >>
    BY <1>9 DEF empty
<1> DEFINE Good(k) == /\ mods[k] \in Seq(Nat) /\ Len(mods[k]) <= k
                      /\ mods[k] = << >> <=> \A i \in 1 .. k : list[i] = Null
                      /\ mods[k] # << >> => mods[k][1] # Null
           good == {k \in 0 .. n : Good(k)}
<1>10. 0 \in good
  <2>1. \A i \in 1 .. 0 : list[i] = Null
    OBVIOUS
  <2>2. mods[0] \in Seq(Nat) /\ Len(mods[0]) = 0
    BY <1>13
  <2>3. Good(0)
    BY <1>13, <2>1, <2>2
  <2> HIDE DEF Good
  <2> QED
    BY <1>2, <2>3
<1>11. ASSUME NEW k \in 1 .. n, k - 1 \in good
       PROVE  k \in good
  <2>1. Good(k - 1) /\ k \in Nat \ {0}
    BY <1>2, <1>11
  <2> DEFINE before == mods[k - 1]
             now == mods[k]
  <2>2. now = IF list[k] = Null THEN before ELSE Append(before, list[k])
    BY <1>9 DEF Taken
  <2>3. before \in Seq(Nat) /\ Len(before) <= k - 1 /\ Len(before) \in Nat
    BY <2>1
  <2>4. (\A i \in 1 .. k : list[i] = Null) <=> list[k] = Null /\ \A i \in 1 .. k - 1 : list[i] = Null
    BY <2>1
  <2>5. CASE list[k] = Null
    <3>1. mods[k] = mods[k - 1]
        BY <2>2, <2>5
    <3> QED
        BY <2>1, <2>3, <2>4, <2>5, <3>1
  <2>6. CASE list[k] # Null
    <3>1. now = Append(before, list[k]) /\ list[k] \in Nat
        BY <1>4, <2>2, <2>6
    <3> HIDE DEF before, now
    <3>2. now \in Seq(Nat) /\ Len(now) = Len(before) + 1 /\ now # << >>
        BY <2>3, <3>1
    <3>3. now[1] = IF Len(before) = 0 THEN list[k] ELSE before[1]
        BY <2>3, <3>1
    <3>4. Len(before) # 0 => before # << >>
        OBVIOUS
    <3>5. before # << >> => before[1] # Null
        BY <2>1 DEF before
    <3>6. now[1] # Null
        BY <2>3, <2>6, <3>3, <3>4, <3>5
    <3>7. Len(now) <= k
        BY <2>1, <2>3, <3>2
    <3>8. ~\A i \in 1 .. k : list[i] = Null
        BY <2>4, <2>6
    <3> QED
        BY <3>2, <3>6, <3>7, <3>8 DEF now
  <2> QED
    BY <2>5, <2>6
<1>12. Good(n)
  <2>1. \A k \in 0 .. n : k \in good
    <3> HIDE DEF good
    <3> QED
        BY <1>2, <1>10, <1>11, UpTo
  <2> QED
    BY <1>2, <2>1
<1> QED
    BY <1>2, <1>3, <1>12 DEF n

-----------------------------------------------------------------------------
(* The splash, the thunks and the page tables. *)

\* A run of cells that ends within its line ends within the framebuffer.
LEMMA LineInside ==
    ASSUME NEW y \in Nat, NEW h \in Nat, NEW p \in Nat, NEW b \in Nat, y < h, b <= p
    PROVE  y * p \in Nat /\ y * p + b <= h * p
<1>1. PICK d \in Nat : h = y + 1 + d
  <2>1. h - y - 1 \in Nat /\ h = y + 1 + (h - y - 1)
    OBVIOUS
  <2> QED
    BY <2>1
<1>2. h * p = y * p + p + d * p
    BY <1>1
<1>3. d * p >= 0 /\ d * p \in Nat /\ y * p \in Nat
    BY <1>1
<1> QED
    BY <1>2, <1>3

\* So does a run within the width of its line.
LEMMA RunInside ==
    ASSUME NEW m \in Modes, NEW x \in Nat, NEW y \in Nat, NEW n \in Nat, y < m.h, 4 * (x + n) <= m.pitch
    PROVE  /\ Run(m, x, y, n).at >= 0
           /\ Run(m, x, y, n).at + 4 * Run(m, x, y, n).cells <= m.h * m.pitch
<1> DEFINE h == m.h
           p == m.pitch
<1>1. h \in Nat /\ p \in Nat
    BY BootAssumption
<1>2. Run(m, x, y, n) = [at |-> y * p + x * 4, cells |-> n]
    BY DEF Run
<1>3. y < h /\ x * 4 + 4 * n <= p
    BY <1>1
<1> HIDE DEF h, p
<1>4. x * 4 + 4 * n \in Nat /\ x * 4 \in Nat
    OBVIOUS
<1>5. y * p \in Nat /\ y * p + (x * 4 + 4 * n) <= h * p
    BY <1>1, <1>3, <1>4, LineInside
<1>6. y * p + x * 4 >= 0 /\ (y * p + x * 4) + 4 * n <= h * p
  <2> DEFINE a == y * p
             b == h * p
  <2>1. a \in Nat /\ b \in Int /\ a + (x * 4 + 4 * n) <= b
    BY <1>1, <1>5
  <2> HIDE DEF a, b
  <2>2. a + x * 4 >= 0 /\ (a + x * 4) + 4 * n <= b
    BY <2>1
  <2> QED
    BY <2>2 DEF a, b
<1> QED
    BY <1>2, <1>6 DEF h, p

\* The parts of the bar.
LEMMA BarSegments ==
    /\ Segment(0) = 0 /\ Segment(8) = 300
    /\ \A i \in 0 .. 7 : Segment(i) \in Nat /\ Segment(i + 1) \in Nat
                         /\ Segment(i) <= Segment(i + 1) /\ Segment(i + 1) <= 300
<1>1. ASSUME NEW i \in 0 .. 8
      PROVE  Segment(i) \in Nat /\ Segment(i) <= 300
    BY DEF Segment
<1>2. ASSUME NEW i \in 0 .. 7
      PROVE  Segment(i) <= Segment(i + 1)
    BY DEF Segment
<1>3. Segment(0) = 0 /\ Segment(8) = 300
    BY DEF Segment
<1> QED
    BY <1>1, <1>2, <1>3

\* Where the box and the bar lie on the screen.
LEMMA BoxOnScreen ==
    ASSUME NEW m \in Modes
    PROVE  /\ m.w \in Nat /\ m.h \in Nat /\ m.pitch \in Nat /\ 4 * m.w <= m.pitch /\ m.h >= 168
           /\ BoxX(m) \in Nat /\ BoxX(m) + 1 + 400 <= m.w
           /\ BoxY(m) \in Nat /\ BoxY(m) + 4 + 159 < m.h
           /\ (m.w - 300) \div 2 \in Nat /\ (m.w - 300) \div 2 + 300 <= m.w
<1> DEFINE w == m.w
           h == m.h
<1>1. /\ m.w \in Nat /\ m.h \in Nat /\ m.pitch \in Nat /\ 4 * m.w <= m.pitch
      /\ w \in Nat /\ h \in Nat /\ w >= 402 /\ h >= 168
    BY BootAssumption
<1> HIDE DEF w, h
<1>2. (w - 400) \div 2 \in Nat /\ (w - 400) \div 2 + 401 <= w
    BY <1>1
<1>3. (h - 160) \div 2 \in Nat /\ (h - 160) \div 2 + 4 + 159 < h
    BY <1>1
<1>4. (w - 300) \div 2 \in Nat /\ (w - 300) \div 2 + 300 <= w
    BY <1>1
<1> QED
    BY <1>1, <1>2, <1>3, <1>4 DEF w, h, BoxX, BoxY

\* The splash stays within the framebuffer.
LEMMA SplashStays ==
    ASSUME NEW m \in Modes
    PROVE  /\ \A r \in boot_splash(m) \cup fb_fill(m) :
                r.at >= 0 /\ r.at + 4 * r.cells <= m.h * m.pitch
           /\ \A i \in 0 .. 6 : BarX(m, i) + (Segment(i + 1) - Segment(i)) = BarX(m, i + 1)
<1> DEFINE In(r) == r.at >= 0 /\ r.at + 4 * r.cells <= m.h * m.pitch
           w == m.w
           h == m.h
           p == m.pitch
           bx == BoxX(m)
           by == BoxY(m)
           bar == (m.w - 300) \div 2
<1>1. /\ w \in Nat /\ h \in Nat /\ p \in Nat /\ 4 * w <= p /\ h >= 168
      /\ bx \in Nat /\ bx + 1 + 400 <= w /\ by \in Nat /\ by + 4 + 159 < h
      /\ bar \in Nat /\ bar + 300 <= w
    BY BoxOnScreen
<1>2. \A x, y, n \in Nat : y < h /\ 4 * (x + n) <= p => In(Run(m, x, y, n))
    BY RunInside
<1>3. \A i \in 0 .. 7 : BarX(m, i) = bar + Segment(i)
    BY DEF BarX
<1>4. BarX(m, 8 - 1) = bar + Segment(7)
    BY <1>3
<1> HIDE DEF In, w, h, p, bx, by, bar
<1>5. ASSUME NEW y \in 0 .. h - 1
      PROVE  In(Run(m, 0, y, w))
    BY <1>1, <1>2
<1>6. ASSUME NEW y \in 0 .. 159
      PROVE  In(Run(m, bx + 1, by + 4 + y, 400)) /\ In(Run(m, bx, by + y, 400))
  <2>1. by + 4 + y \in Nat /\ by + 4 + y < h /\ by + y \in Nat /\ by + y < h /\ bx + 1 \in Nat
        /\ 4 * (bx + 1 + 400) <= p /\ 4 * (bx + 400) <= p
    BY <1>1
  <2> QED
    BY <1>1, <1>2, <2>1
<1>7. ASSUME NEW c \in 0 .. 9, NEW y \in 0 .. 15
      PROVE  In(Run(m, bx + 160 + 9 * c, by + 72 + y, 8))
  <2>1. bx + 160 + 9 * c \in Nat /\ by + 72 + y \in Nat /\ by + 72 + y < h
        /\ 4 * ((bx + 160 + 9 * c) + 8) <= p
    BY <1>1
  <2> QED
    BY <1>2, <2>1
<1>8. ASSUME NEW i \in 0 .. 7, NEW y \in 0 .. 12
      PROVE  In(Run(m, BarX(m, i), h - 28 + y, Segment(i + 1) - Segment(i)))
  <2> DEFINE s == Segment(i)
             t == Segment(i + 1)
  <2>1. s \in Nat /\ t \in Nat /\ s <= t /\ t <= 300 /\ BarX(m, i) = bar + s
    BY <1>3, BarSegments
  <2> HIDE DEF s, t
  <2>2. bar + s \in Nat /\ h - 28 + y \in Nat /\ h - 28 + y < h /\ t - s \in Nat
        /\ 4 * ((bar + s) + (t - s)) <= p
    BY <1>1, <2>1
  <2>3. In(Run(m, bar + s, h - 28 + y, t - s))
    BY <1>2, <2>2
  <2> QED
    BY <2>1, <2>3 DEF s, t
<1>9. \A r \in boot_splash(m) \cup fb_fill(m) : In(r)
  <2>1. ASSUME NEW r \in fb_fill(m)
        PROVE  In(r)
    BY <1>5, <2>1 DEF fb_fill, h, w
  <2>2. ASSUME NEW r \in boot_splash(m)
        PROVE  In(r)
    <3>1. CASE r \in {Run(m, 0, y, m.w) : y \in 0 .. m.h - 1}
        BY <1>5, <3>1 DEF h, w
    <3>2. CASE r \in {Run(m, BoxX(m) + 1, BoxY(m) + 4 + y, 400) : y \in 0 .. 159}
        BY <1>6, <3>2 DEF bx, by
    <3>3. CASE r \in {Run(m, BoxX(m), BoxY(m) + y, 400) : y \in 0 .. 159}
        BY <1>6, <3>3 DEF bx, by
    <3>4. CASE r \in {Run(m, BoxX(m) + 160 + 9 * c, BoxY(m) + 72 + y, 8) : c \in 0 .. 9, y \in 0 .. 15}
        BY <1>7, <3>4 DEF bx, by
    <3>5. CASE r \in {Run(m, BarX(m, i), m.h - 28 + y, Segment(i + 1) - Segment(i)) :
                        i \in 0 .. 7, y \in 0 .. 12}
        BY <1>8, <3>5 DEF h
    <3> QED
        BY <2>2, <3>1, <3>2, <3>3, <3>4, <3>5 DEF boot_splash
  <2> QED
    BY <2>1, <2>2
<1>10. ASSUME NEW i \in 0 .. 6
       PROVE  BarX(m, i) + (Segment(i + 1) - Segment(i)) = BarX(m, i + 1)
  <2> DEFINE s == Segment(i)
             t == Segment(i + 1)
  <2>1. s \in Nat /\ t \in Nat /\ BarX(m, i) = bar + s /\ BarX(m, i + 1) = bar + t
    BY <1>3, BarSegments
  <2> HIDE DEF s, t
  <2>2. bar + s + (t - s) = bar + t
    BY <1>1, <2>1
  <2> QED
    BY <2>1, <2>2 DEF s, t
<1> QED
    BY <1>9, <1>10 DEF In

\* What the thunk gives back, and what it does not know.
LEMMA ThunkReturns ==
    thunk_returns(call_elf32_thunk(0)).registers = Callee
    /\ thunk_returns(call_elf32_thunk(0)).to = "return"
<1>1. Len(Callee) = 6
    BY DEF Callee
<1>2. call_elf32_thunk(0) = 6
    BY <1>1 DEF call_elf32_thunk, Aligned
<1>3. \A i \in 1 .. 6 : WordAt(6 - 6 + i) = Callee[i]
    BY <1>1 DEF WordAt
<1>4. WordAt(6 - 6) = "return"
    BY <1>1 DEF WordAt
<1>5. [i \in 1 .. 6 |-> WordAt(6 - 6 + i)] = [i \in 1 .. 6 |-> Callee[i]]
    BY <1>3
<1>6. [i \in 1 .. 6 |-> Callee[i]] = Callee
    BY DEF Callee
<1> QED
    BY <1>1, <1>2, <1>4, <1>5, <1>6 DEF thunk_returns

\* The older tables map a page to itself.
LEMMA PageTranslated == \A page \in TablePages : Translated(page) = page
<1> SUFFICES ASSUME NEW page \in TablePages
             PROVE  Translated(page) = page
    OBVIOUS
<1>0. page \in 0 .. 2047
    BY DEF TablePages
<1> DEFINE table == page \div 512
           rest == page % 512
<1>1. table \in 0 .. 3 /\ rest \in 0 .. 511 /\ table * 512 + rest = page
    BY <1>0
<1>2. Translated(page) = map_2mb[link_pd[table] * 512 + rest]
    BY DEF Translated, PdPerTable
<1> HIDE DEF table, rest
<1>3. link_pd[table] = table
    BY <1>1 DEF link_pd
<1>4. map_2mb[page] = page
    BY DEF map_2mb
<1> QED
    BY <1>1, <1>2, <1>3, <1>4

-----------------------------------------------------------------------------
(* The calls of the boot code. *)

\* The calls with which nothing is asked of the boot code, of the bus, or of
\* system calls.
LEMMA BootQuiet ==
    call.fn \notin {"interrupt", "elf32", "bridge", "splash", "walk"} => BootExact
BY DEF BootExact, FramesExact, ThunksReturn, BootInformed, SplashInside, IdentityMapped, Called

\* Of the bus.
LEMMA BusQuiet == call.fn \notin {"pci_write16", "pci_read", "pci_find_class"} => BusExact
BY DEF BusExact, HalvesKept, BytesOfHalves, FirstFound, Called

\* Of system calls.
LEMMA SystemCallsQuiet ==
    call.fn \notin {"syscall", "unknown", "personality", "brk", "read"} => SystemCallsExact
BY DEF SystemCallsExact, CallsArrive, PersonalitiesTrue, BreakMoves, ReadsInOrder, Called

\* An interrupt.
InterruptCalled == \E v \in Vectors :
    /\ call = [fn |-> "interrupt"]
    /\ answer = [seen |-> common_stub(v), registers |-> stub_returns(common_stub(v)),
                 left |-> AfterStub(common_stub(v))]

\* The handler and the interrupted code find what they expect.
LEMMA InterruptIsExact == InterruptCalled => MachineExact
<1>0. SUFFICES ASSUME NEW v \in Vectors,
                      call = [fn |-> "interrupt"],
                      answer = [seen |-> common_stub(v), registers |-> stub_returns(common_stub(v)),
                                left |-> AfterStub(common_stub(v))]
               PROVE  MachineExact
    BY DEF InterruptCalled
<1>1. call.fn = "interrupt"
    BY <1>0
<1>2. answer.seen = registers_t /\ answer.registers = stub_returns(registers_t)
      /\ answer.left = AfterStub(registers_t)
    BY <1>0, FrameSeen
<1>3. DOMAIN stub_returns(registers_t) = ToSet(Restored)
    BY DEF stub_returns
<1>4. FramesExact
    BY <1>2, <1>3, StubReturns DEF FramesExact
<1>5. BootExact
    BY <1>1, <1>4 DEF BootExact, ThunksReturn, BootInformed, SplashInside, IdentityMapped, Called
<1> QED
    BY <1>1, <1>5, BusQuiet, SystemCallsQuiet DEF MachineExact

\* A program called through the thunk of ELF programs.
ElfThunkCalled == \E skew \in 0 .. 1 :
    call = [fn |-> "elf32", skew |-> skew] /\ answer = thunk_returns(call_elf32_thunk(skew))

\* The thunk returns what it saved to where it was called.
LEMMA ElfThunkIsExact == ElfThunkCalled => MachineExact
<1>0. SUFFICES ASSUME NEW skew \in 0 .. 1,
                      call = [fn |-> "elf32", skew |-> skew],
                      answer = thunk_returns(call_elf32_thunk(skew))
               PROVE  MachineExact
    BY DEF ElfThunkCalled
<1>1. call.fn = "elf32" /\ call.skew = skew
    BY <1>0
<1>2. ThunksReturn
    BY <1>0, <1>1, ThunkReturns DEF ThunksReturn
<1>3. BootExact
    BY <1>1, <1>2 DEF BootExact, FramesExact, BootInformed, SplashInside, IdentityMapped, Called
<1> QED
    BY <1>1, <1>3, BusQuiet, SystemCallsQuiet DEF MachineExact

\* What the boot protocol hands over.
Screens == [count : 0 .. 1, address : BOOLEAN, bpp : {16, 24, 32}]
BridgeCalled == \E resp \in Screens, list \in ModLists :
    /\ call = [fn |-> "bridge", list |-> list]
    /\ answer = [fb |-> bridge_framebuffer(resp), mods |-> bridge_modules(list),
                 initrd |-> initrd_location(bridge_modules(list))]

\* The fields about the screen agree.
LEMMA FramebufferBridged ==
    ASSUME NEW resp \in Screens
    PROVE  /\ bridge_framebuffer(resp).flag <=> bridge_framebuffer(resp).addr # 0
           /\ bridge_framebuffer(resp).bpp = bridge_framebuffer(resp).mbi_bpp
<1>1. CASE resp.count = 0 \/ ~resp.address
    BY <1>1 DEF bridge_framebuffer
<1>2. CASE ~(resp.count = 0 \/ ~resp.address)
  <2>1. bridge_framebuffer(resp) = [addr |-> 1, flag |-> TRUE, bpp |-> resp.bpp, mbi_bpp |-> resp.bpp % 256]
    BY <1>2 DEF bridge_framebuffer
  <2>2. resp.bpp \in {16, 24, 32}
    BY DEF Screens
  <2>3. resp.bpp % 256 = resp.bpp
    BY <2>2
  <2> QED
    BY <2>1, <2>3
<1> QED
    BY <1>1, <1>2

\* The kernel finds in the boot information what the loader has given.
LEMMA BridgeIsExact == BridgeCalled => MachineExact
<1>0. SUFFICES ASSUME NEW resp \in Screens, NEW list \in ModLists,
                      call = [fn |-> "bridge", list |-> list],
                      answer = [fb |-> bridge_framebuffer(resp), mods |-> bridge_modules(list),
                                initrd |-> initrd_location(bridge_modules(list))]
               PROVE  MachineExact
    BY DEF BridgeCalled
<1> DEFINE mods == bridge_modules(list)
           n == Min({Len(list), MaxMods})
           fb == bridge_framebuffer(resp)
           gaps == \A i \in 1 .. n : list[i] = Null
<1>1. call.fn = "bridge" /\ call.list = list /\ answer.fb = fb /\ answer.mods = mods
      /\ answer.initrd = initrd_location(mods)
    BY <1>0
<1>2. (fb.flag <=> fb.addr # 0) /\ fb.bpp = fb.mbi_bpp
    BY FramebufferBridged
<1>3. /\ n \in Nat /\ n <= MaxMods /\ Len(mods) <= n /\ mods \in Seq(Nat)
      /\ mods = << >> <=> gaps
      /\ mods # << >> => mods[1] # Null
    BY ModulesBridged
<1> HIDE DEF mods, fb
<1>4. Len(mods) <= ModRoom
  <2>1. Len(mods) \in Nat /\ MaxMods <= ModRoom /\ MaxMods \in Nat /\ ModRoom \in Nat
    BY <1>3, BootAssumption
  <2> HIDE DEF n
  <2> QED
    BY <1>3, <2>1
<1>5. initrd_location(mods) = Null <=> gaps
  <2> HIDE DEF gaps
  <2> QED
    BY <1>3 DEF initrd_location
<1>6. answer.initrd = Null <=> \A i \in 1 .. Min({Len(call.list), MaxMods}) : call.list[i] = Null
    BY <1>1, <1>5
<1> HIDE DEF gaps, n
<1>7. BootInformed
    BY <1>1, <1>2, <1>4, <1>6, LayoutsAgree DEF BootInformed
<1>8. BootExact
    BY <1>1, <1>7 DEF BootExact, FramesExact, ThunksReturn, SplashInside, IdentityMapped, Called
<1> QED
    BY <1>1, <1>8, BusQuiet, SystemCallsQuiet DEF MachineExact

\* The splash is drawn.
SplashCalled == \E m \in Modes :
    call = [fn |-> "splash", mode |-> m] /\ answer = boot_splash(m) \cup fb_fill(m)

\* The splash stays within the screen.
LEMMA SplashIsExact == SplashCalled => MachineExact
<1>0. SUFFICES ASSUME NEW m \in Modes,
                      call = [fn |-> "splash", mode |-> m],
                      answer = boot_splash(m) \cup fb_fill(m)
               PROVE  MachineExact
    BY DEF SplashCalled
<1>1. call.fn = "splash" /\ call.mode = m
    BY <1>0
<1>2. SplashInside
    BY <1>0, <1>1, SplashStays DEF SplashInside
<1>3. BootExact
    BY <1>1, <1>2 DEF BootExact, FramesExact, ThunksReturn, BootInformed, IdentityMapped, Called
<1> QED
    BY <1>1, <1>3, BusQuiet, SystemCallsQuiet DEF MachineExact

\* The older tables translate a page.
WalkCalled == \E page \in TablePages :
    call = [fn |-> "walk", page |-> page] /\ answer = Translated(page)

\* Each page is mapped to itself.
LEMMA WalkIsExact == WalkCalled => MachineExact
<1> SUFFICES ASSUME WalkCalled
             PROVE  MachineExact
    OBVIOUS
<1>0. PICK page \in TablePages : call = [fn |-> "walk", page |-> page] /\ answer = Translated(page)
    BY DEF WalkCalled
<1>1. call.fn = "walk" /\ call.page = page
    BY <1>0
<1>2. IdentityMapped
    BY <1>0, <1>1, PageTranslated DEF IdentityMapped
<1>3. BootExact
    BY <1>1, <1>2 DEF BootExact, FramesExact, ThunksReturn, BootInformed, SplashInside, Called
<1> QED
    BY <1>1, <1>3, BusQuiet, SystemCallsQuiet DEF MachineExact

-----------------------------------------------------------------------------
(* The registers of the PCI bus, and the search for a device. *)

\* Division with a remainder.
LEMMA Divides ==
    ASSUME NEW v \in Nat, NEW q \in Nat \ {0}
    PROVE  v \div q \in Nat /\ v % q \in 0 .. q - 1 /\ v = (v \div q) * q + (v % q)
OBVIOUS

\* Its result is the only one.
LEMMA Quotient ==
    ASSUME NEW k \in Nat, NEW q \in Nat \ {0}, NEW r \in 0 .. q - 1
    PROVE  (k * q + r) \div q = k /\ (k * q + r) % q = r
OBVIOUS

\* A number below a product, from a digit and a number below the one factor.
LEMMA TwoDigits ==
    ASSUME NEW p \in Nat \ {0}, NEW b \in Nat \ {0}, NEW t \in 0 .. b - 1, NEW r \in 0 .. p - 1
    PROVE  t * p + r \in 0 .. b * p - 1
<1>1. PICK d \in Nat : b = t + 1 + d
  <2>1. b - t - 1 \in Nat /\ b = t + 1 + (b - t - 1)
    OBVIOUS
  <2> QED
    BY <2>1
<1>2. b * p = t * p + p + d * p
    BY <1>1
<1>3. d * p >= 0 /\ d * p \in Nat /\ t * p \in Nat
    BY <1>1
<1>4. t * p + r >= 0 /\ t * p + r <= b * p - 1
  <2> DEFINE x == t * p
             y == d * p
             z == b * p
  <2>1. x \in Nat /\ y \in Nat /\ z = x + p + y
    BY <1>2, <1>3
  <2> HIDE DEF x, y, z
  <2> QED
    BY <2>1 DEF x, z
<1> QED
    BY <1>3, <1>4

\* To divide by a product is to divide twice; what remains are two digits.
LEMMA DividesTwice ==
    ASSUME NEW v \in Nat, NEW p \in Nat \ {0}, NEW b \in Nat \ {0}
    PROVE  /\ v \div (b * p) = (v \div p) \div b
           /\ v % (b * p) = ((v \div p) % b) * p + (v % p)
<1> DEFINE k == v \div p
           r == v % p
           j == k \div b
           t == k % b
           q == b * p
<1>1. k \in Nat /\ r \in 0 .. p - 1 /\ v = k * p + r
    BY Divides
<1> HIDE DEF k, r
<1>2. j \in Nat /\ t \in 0 .. b - 1 /\ k = j * b + t
    BY <1>1, Divides
<1> HIDE DEF j, t
<1>3. v = j * (b * p) + (t * p + r)
  <2>1. (j * b + t) * p = j * (b * p) + t * p
    BY <1>2
  <2> QED
    BY <1>1, <1>2, <2>1
<1>4. t * p + r \in 0 .. q - 1 /\ q \in Nat \ {0}
  <2>1. t * p + r \in 0 .. b * p - 1
    BY <1>1, <1>2, TwoDigits
  <2>2. b * p \in Nat
    OBVIOUS
  <2> QED
    BY <2>1, <2>2
<1>5. v = j * q + (t * p + r)
    BY <1>3
<1> DEFINE s == t * p + r
<1> HIDE DEF q, s
<1>6. s \in 0 .. q - 1 /\ v = j * q + s
    BY <1>4, <1>5 DEF s
<1>7. v \div q = j /\ v % q = s
    BY <1>2, <1>4, <1>6, Quotient
<1> QED
    BY <1>7 DEF q, s, j, t, k, r

\* Half a register is written.
LEMMA LowerWritten ==
    ASSUME NEW h \in Nat \ {0}, NEW v \in 0 .. h * h - 1, NEW value \in 0 .. h - 1
    PROVE  LET w == v - (v % h) + value
           IN  w % h = value /\ w \div h = v \div h /\ w \in Nat
<1> DEFINE q == v \div h
           r == v % h
<1>0. v \in Nat
    OBVIOUS
<1>1. q \in Nat /\ r \in 0 .. h - 1 /\ v = q * h + r
    BY <1>0, Divides
<1> HIDE DEF q, r
<1>2. v - r + value = q * h + value
  <2> DEFINE x == q * h
  <2>1. x \in Nat /\ v = x + r
    BY <1>1
  <2> HIDE DEF x
  <2>2. v - r + value = x + value
    BY <1>1, <2>1
  <2> QED
    BY <2>2 DEF x
<1>3. (q * h + value) \div h = q /\ (q * h + value) % h = value
    BY <1>1, Quotient
<1>4. q * h + value \in Nat
    BY <1>1
<1> QED
    BY <1>2, <1>3, <1>4 DEF q, r

\* The same for the upper half.
LEMMA UpperWritten ==
    ASSUME NEW h \in Nat \ {0}, NEW v \in 0 .. h * h - 1, NEW value \in 0 .. h - 1
    PROVE  LET w == v - ((v \div h) % h) * h + value * h
           IN  w \div h = value /\ w % h = v % h /\ w \in Nat
<1> DEFINE q == v \div h
           r == v % h
<1>0. v \in Nat
    OBVIOUS
<1>1. q \in Nat /\ r \in 0 .. h - 1 /\ v = q * h + r
    BY <1>0, Divides
<1> HIDE DEF q, r
<1>2. q \in 0 .. h - 1
  <2> SUFFICES ASSUME q >= h
               PROVE  FALSE
    BY <1>1
  <2>1. PICK d \in Nat : q = h + d
    <3>1. q - h \in Nat /\ q = h + (q - h)
        BY <1>1
    <3> QED
        BY <3>1
  <2>2. q * h = h * h + d * h /\ d * h >= 0 /\ d * h \in Nat /\ h * h \in Nat
    BY <2>1
  <2>3. v = h * h + d * h + r
    BY <1>1, <2>2
  <2> DEFINE x == h * h
             y == d * h
  <2>4. x \in Nat /\ y \in Nat /\ v = x + y + r /\ v <= x - 1
    BY <2>2, <2>3
  <2> HIDE DEF x, y
  <2> QED
    BY <1>1, <2>4
<1>3. q % h = q
    BY <1>2
<1>4. v - q * h + value * h = value * h + r
  <2> DEFINE x == q * h
             y == value * h
  <2>1. x \in Nat /\ y \in Nat /\ v = x + r
    BY <1>1
  <2> HIDE DEF x, y
  <2>2. v - x + y = y + r
    BY <1>1, <2>1
  <2> QED
    BY <2>2 DEF x, y
<1>5. (value * h + r) \div h = value /\ (value * h + r) % h = r
    BY <1>1, Quotient
<1>6. value * h + r \in Nat
    BY <1>1
<1> QED
    BY <1>3, <1>4, <1>5, <1>6 DEF q, r

\* The units of a register.
LEMMA Units ==
    /\ ByteValues \in Nat \ {0} /\ HalfValues \in Nat \ {0} /\ HalfValues = ByteValues * ByteValues
    /\ Shift(0) = 1 /\ Shift(1) = ByteValues /\ Shift(2) = HalfValues
    /\ Shift(3) = HalfValues * ByteValues /\ Shift(4) = HalfValues * HalfValues
    /\ \A v \in Registers : v \in 0 .. HalfValues * HalfValues - 1
    /\ \A value \in Halves : value \in 0 .. HalfValues - 1
<1>1. ByteValues \in Nat \ {0}
    BY PciAssumption
<1>2. ByteValues * ByteValues \in Nat \ {0}
    BY <1>1
<1>3. HalfValues = ByteValues * ByteValues
    BY DEF HalfValues
<1>4. /\ Shift(0) = 1 /\ Shift(1) = ByteValues /\ Shift(2) = HalfValues
      /\ Shift(3) = HalfValues * ByteValues /\ Shift(4) = HalfValues * HalfValues
    BY DEF Shift
<1>5. Registers \subseteq 0 .. HalfValues * HalfValues - 1 /\ Halves \subseteq 0 .. HalfValues - 1
    BY <1>4, PciAssumption
<1> QED
    BY <1>1, <1>2, <1>3, <1>4, <1>5

\* pci_write16() leaves the other half as it was.
WriteCalled == \E v \in Registers, offset \in Offsets, value \in Halves :
    /\ call = [fn |-> "pci_write16", v |-> v, offset |-> offset, value |-> value]
    /\ answer = WrittenHalf(v, offset, value)

\* A write of half a register leaves the other half as it is.
LEMMA WriteIsExact == WriteCalled => MachineExact
<1> SUFFICES ASSUME WriteCalled
             PROVE  MachineExact
    OBVIOUS
<1>0. PICK v \in Registers, offset \in Offsets, value \in Halves :
        /\ call = [fn |-> "pci_write16", v |-> v, offset |-> offset, value |-> value]
        /\ answer = WrittenHalf(v, offset, value)
    BY DEF WriteCalled
<1>1. call.fn = "pci_write16" /\ call.v = v /\ call.offset = offset /\ call.value = value
    BY <1>0
<1> DEFINE h == HalfValues
           half == (offset \div 2) * 2
           w == answer
<1>2. h \in Nat \ {0} /\ v \in 0 .. h * h - 1 /\ value \in 0 .. h - 1 /\ v \in Nat /\ v \div 1 = v
  <2>1. h \in Nat \ {0} /\ v \in 0 .. h * h - 1 /\ value \in 0 .. h - 1
    BY Units
  <2>2. v \in Nat
    BY <2>1
  <2>3. v \div 1 = v
    BY <2>2
  <2> QED
    BY <2>1, <2>2, <2>3
<1>3. half \in {0, 2} /\ (offset = 0 => half = 0)
    BY DEF Offsets
<1>4. Shift(0) = 1 /\ Shift(2) = h
    BY Units
<1>5. w = v - ((v \div Shift(half)) % h) * Shift(half) + value * Shift(half)
    BY <1>0, <1>4 DEF WrittenHalf
<1> HIDE DEF h, w
<1> DEFINE other == 2 - half
           Kept == /\ (w \div Shift(half)) % h = value
                   /\ (w \div Shift(other)) % h = (v \div Shift(other)) % h
                   /\ half = 0 => w % h = value /\ w \div h = v \div h
<1>6. ASSUME half = 0
      PROVE  Kept
  <2>1. w = v - (v % h) + value
    <3>1. w = v - (v % h) * 1 + value * 1
        BY <1>2, <1>4, <1>5, <1>6
    <3>2. v % h \in Int /\ value \in Int
        BY <1>2
    <3> QED
        BY <3>1, <3>2
  <2>2. w % h = value /\ w \div h = v \div h /\ w \in Nat
    BY <1>2, <2>1, LowerWritten
  <2>3. w \div 1 = w
    BY <2>2
  <2>4. other = 2
    BY <1>6
  <2> HIDE DEF half, other
  <2> QED
    BY <1>4, <1>6, <2>2, <2>3, <2>4
<1>7. ASSUME half = 2
      PROVE  Kept
  <2>1. w = v - ((v \div h) % h) * h + value * h
    BY <1>4, <1>5, <1>7
  <2>2. w \div h = value /\ w % h = v % h /\ w \in Nat
    BY <1>2, <2>1, UpperWritten
  <2>3. w \div 1 = w /\ value % h = value
    BY <1>2, <2>2
  <2>4. other = 0
    BY <1>7
  <2> HIDE DEF half, other
  <2> QED
    BY <1>2, <1>4, <1>7, <2>2, <2>3, <2>4
<1>8. Kept
    BY <1>3, <1>6, <1>7
<1>9. other \in {0, 2} /\ (other \div 2) * 2 = other
    BY <1>3
<1> HIDE DEF Kept
<1>10. /\ pci_read16(w, offset) = (w \div Shift(half)) % h
       /\ pci_read16(w, other) = (w \div Shift(other)) % h
       /\ pci_read16(v, other) = (v \div Shift(other)) % h
    BY <1>4, <1>9 DEF pci_read16
<1>11. offset = 0 => StatusHeld(v, w) = [command |-> value, status |-> 0]
  <2> SUFFICES ASSUME offset = 0
               PROVE  StatusHeld(v, w) = [command |-> value, status |-> 0]
    OBVIOUS
  <2>1. w % h = value /\ w \div h = v \div h
    BY <1>3, <1>8 DEF Kept
  <2>2. StatusHeld(v, w) = [command |-> w % h, status |-> IF w \div h # 0 THEN 0 ELSE v \div h]
    BY <1>4 DEF StatusHeld
  <2> QED
    BY <2>1, <2>2
<1>12. HalvesKept
  <2>1. pci_read16(w, offset) = value /\ pci_read16(w, other) = pci_read16(v, other)
    BY <1>8, <1>10 DEF Kept
  <2> QED
    BY <1>1, <1>11, <2>1 DEF HalvesKept, w
<1>13. BusExact
    BY <1>1, <1>12 DEF BusExact, BytesOfHalves, FirstFound, Called
<1> QED
    BY <1>1, <1>13, BootQuiet, SystemCallsQuiet DEF MachineExact

\* pci_read16() and pci_read8() find the same bytes.
ReadCalled == \E v \in Registers, offset \in Offsets :
    /\ call = [fn |-> "pci_read", v |-> v, offset |-> offset]
    /\ answer = [half |-> pci_read16(v, offset), byte |-> pci_read8(v, offset)]

\* A half is its two bytes.
LEMMA ReadIsExact == ReadCalled => MachineExact
<1> SUFFICES ASSUME ReadCalled
             PROVE  MachineExact
    OBVIOUS
<1>0. PICK v \in Registers, offset \in Offsets :
        /\ call = [fn |-> "pci_read", v |-> v, offset |-> offset]
        /\ answer = [half |-> pci_read16(v, offset), byte |-> pci_read8(v, offset)]
    BY DEF ReadCalled
<1>1. call.fn = "pci_read" /\ call.v = v /\ call.offset = offset
      /\ answer.half = pci_read16(v, offset)
    BY <1>0
<1> DEFINE b == ByteValues
           h == HalfValues
           half == (offset \div 2) * 2
<1>2. /\ b \in Nat \ {0} /\ h \in Nat \ {0} /\ h = b * b /\ v \in Nat
      /\ Shift(0) = 1 /\ Shift(1) = b /\ Shift(2) = h /\ Shift(3) = h * b
  <2>1. v \in 0 .. h * h - 1
    BY Units
  <2>2. h * h \in Nat
    BY Units
  <2> HIDE DEF h, b
  <2>3. v \in Nat
    BY <2>1, <2>2
  <2> QED
    BY <2>3, Units DEF h, b
<1>3. half \in {0, 2}
    BY DEF Offsets
<1>4. /\ pci_read16(v, offset) = (v \div Shift(half)) % h
      /\ pci_read8(v, half) = (v \div Shift(half)) % b
      /\ pci_read8(v, half + 1) = (v \div Shift(half + 1)) % b
    BY <1>2 DEF pci_read16, pci_read8
<1> HIDE DEF b, h, half
<1> DEFINE Same == pci_read16(v, offset) = pci_read8(v, half) + pci_read8(v, half + 1) * b
<1>5. ASSUME half = 0
      PROVE  Same
  <2>1. v \div 1 = v
    BY <1>2
  <2>2. v % (b * b) = ((v \div b) % b) * b + (v % b)
    BY <1>2, DividesTwice
  <2>3. ((v \div b) % b) * b \in Int /\ v % b \in Int
    BY <1>2
  <2>4. v % h = (v % b) + ((v \div b) % b) * b
    BY <1>2, <2>2, <2>3
  <2>5. /\ pci_read16(v, offset) = v % h /\ pci_read8(v, half) = v % b
        /\ pci_read8(v, half + 1) = (v \div b) % b
    BY <1>2, <1>4, <1>5, <2>1
  <2>6. pci_read16(v, offset) = pci_read8(v, half) + pci_read8(v, half + 1) * b
    BY <2>4, <2>5
  <2> QED
    BY <2>6
<1>6. ASSUME half = 2
      PROVE  Same
  <2> DEFINE u == v \div h
  <2>1. u \in Nat
    BY <1>2, Divides
  <2>2. v \div (b * h) = u \div b
    BY <1>2, DividesTwice
  <2>3. h * b = b * h
    BY <1>2
  <2> HIDE DEF u
  <2>4. u % (b * b) = ((u \div b) % b) * b + (u % b)
    BY <1>2, <2>1, DividesTwice
  <2>5. ((u \div b) % b) * b \in Int /\ u % b \in Int
    BY <1>2, <2>1
  <2>6. u % h = (u % b) + ((u \div b) % b) * b
    BY <1>2, <2>4, <2>5
  <2>7. half + 1 = 3
    BY <1>6
  <2>8. /\ pci_read16(v, offset) = u % h /\ pci_read8(v, half) = u % b
        /\ pci_read8(v, half + 1) = (u \div b) % b
    BY <1>2, <1>4, <1>6, <2>2, <2>3, <2>7 DEF u
  <2> QED
    BY <2>6, <2>8
<1>7. pci_read16(v, offset) = pci_read8(v, half) + pci_read8(v, half + 1) * b
    BY <1>3, <1>5, <1>6
<1>8. BytesOfHalves
    BY <1>1, <1>7 DEF BytesOfHalves, half, b
<1>9. BusExact
    BY <1>1, <1>8 DEF BusExact, HalvesKept, FirstFound, Called
<1> QED
    BY <1>1, <1>9, BootQuiet, SystemCallsQuiet DEF MachineExact

\* Places of devices come in an order with a first.
LEMMA FirstPlace ==
    ASSUME NEW m, m # {}, m \subseteq (1 .. Slots) \X (0 .. 1)
    PROVE  \E p \in m : \A q \in m : Before(p, q)
<1>0. Slots \in Nat
    BY PciAssumption
<1> DEFINE rows == {r \in 1 .. Slots : \E c \in 0 .. 1 : <<r, c>> \in m}
<1>1. \A q \in m : q[1] \in 1 .. Slots /\ q[2] \in 0 .. 1 /\ q = <<q[1], q[2]>>
    OBVIOUS
<1>2. rows \in SUBSET Nat /\ rows # {}
    BY <1>0, <1>1
<1>3. \A q \in m : q[1] \in rows
    BY <1>1
<1> HIDE DEF rows
<1>4. PICK r \in rows : \A y \in rows : r <= y
    BY <1>2, LeastIsThere
<1> DEFINE cols == {c \in 0 .. 1 : <<r, c>> \in m}
<1>5. cols \in SUBSET Nat /\ cols # {}
  <2>1. \E c \in 0 .. 1 : <<r, c>> \in m
    BY DEF rows
  <2>2. cols # {}
    BY <2>1
  <2>3. \A c \in cols : c \in Nat
    OBVIOUS
  <2> QED
    BY <2>2, <2>3
<1>6. \A q \in m : q[1] = r => q[2] \in cols
    BY <1>1
<1>7. \A c \in cols : <<r, c>> \in m
    OBVIOUS
<1> HIDE DEF cols
<1>8. PICK c \in cols : \A y \in cols : c <= y
    BY <1>5, LeastIsThere
<1>9. ASSUME NEW q \in m
      PROVE  Before(<<r, c>>, q)
  <2>1. r <= q[1] /\ (q[1] = r => c <= q[2]) /\ r \in Nat /\ q[1] \in Nat
    BY <1>2, <1>3, <1>4, <1>6, <1>8
  <2> QED
    BY <2>1 DEF Before
<1> QED
    BY <1>7, <1>8, <1>9

\* The search of the bus ends with the first that matches.
FindCalled == \E space \in Space, any \in BOOLEAN :
    /\ call = [fn |-> "pci_find_class", space |-> space, any |-> any]
    /\ answer = Found(space, any)

\* The device that is found is the first one that can be driven.
LEMMA FindIsExact == FindCalled => MachineExact
<1> SUFFICES ASSUME FindCalled
             PROVE  MachineExact
    OBVIOUS
<1>0. PICK space \in Space, any \in BOOLEAN :
        /\ call = [fn |-> "pci_find_class", space |-> space, any |-> any]
        /\ answer = Found(space, any)
    BY DEF FindCalled
<1>1. call.fn = "pci_find_class" /\ call.space = space /\ call.any = any
    BY <1>0
<1> DEFINE m == Matching(space, any)
           places == (1 .. Slots) \X (0 .. 1)
           kind(p) == call.space[p[1]].func[p[2]]
           usable(p) == /\ call.space[p[1]].func[0] # "absent"
                        /\ kind(p) = "wanted" \/ (call.any /\ kind(p) = "otherInterface")
                        /\ p[2] = 0 \/ call.space[p[1]].many
<1>2. m = {p \in places : /\ space[p[1]].func[0] # "absent" /\ p[2] \in Funcs(space[p[1]])
                          /\ Matches(space[p[1]].func[p[2]], any)}
    BY DEF Matching
<1>3. ASSUME NEW p \in places
      PROVE  p \in m <=> usable(p)
  <2>1. p[2] \in 0 .. 1
    OBVIOUS
  <2>2. p[2] \in Funcs(space[p[1]]) <=> p[2] = 0 \/ space[p[1]].many
    BY <2>1 DEF Funcs
  <2>3. Matches(space[p[1]].func[p[2]], any) <=> kind(p) = "wanted" \/ (any /\ kind(p) = "otherInterface")
    BY <1>1 DEF Matches
  <2> HIDE DEF kind
  <2> QED
    BY <1>1, <1>2, <2>2, <2>3, Zenon
<1>4. m \subseteq places
    BY <1>2
<1> DEFINE first == CHOOSE p \in m : \A q \in m : Before(p, q)
<1>5. answer = IF m = {} THEN << >> ELSE first
    BY <1>0 DEF Found
<1> HIDE DEF m, usable
<1>6. m # {} => first \in m /\ \A q \in m : Before(first, q)
  <2> SUFFICES ASSUME m # {}
               PROVE  first \in m /\ \A q \in m : Before(first, q)
    OBVIOUS
  <2>1. \E p \in m : \A q \in m : Before(p, q)
    BY <1>4, FirstPlace
  <2> QED
    BY <2>1, Zenon
<1> HIDE DEF first
<1>7. IF answer = << >> THEN \A p \in places : ~usable(p)
      ELSE usable(answer) /\ \A p \in places : usable(p) => Before(answer, p)
  <2>1. CASE m = {}
    BY <1>3, <1>5, <2>1
  <2>2. CASE m # {}
    <3>1. answer = first /\ first \in places
        BY <1>4, <1>5, <1>6, <2>2
    <3>2. answer # << >>
        BY <3>1
    <3>3. usable(answer)
        BY <1>3, <1>6, <2>2, <3>1
    <3>4. \A p \in places : usable(p) => Before(answer, p)
        BY <1>3, <1>6, <2>2, <3>1, Zenon
    <3> QED
        BY <3>2, <3>3, <3>4
  <2> QED
    BY <2>1, <2>2
<1>8. FirstFound
    BY <1>7 DEF FirstFound, usable
<1>9. BusExact
    BY <1>1, <1>8 DEF BusExact, HalvesKept, BytesOfHalves, Called
<1> QED
    BY <1>1, <1>9, BootQuiet, SystemCallsQuiet DEF MachineExact

-----------------------------------------------------------------------------
(* System calls by their numbers, and the program break. *)

\* Where the call of a wrapper gets to.
Arrives(fn, w, a) ==
    IF fn = "compat_exec" THEN a.fn = "none"
    ELSE /\ a.fn = fn
         /\ Len(a.params) = Len(w.params)
         /\ \A i \in DOMAIN w.params :
              \/ a.params[i] = w.params[i]
              \/ fn \in {"ax_poll", "ax_commit"} /\ i = 1 /\ a.params[i] = "cut"

\* A wrapper sends its parameters as its function takes them.
Direct(fn, number, params) ==
    Wrappers[fn] = Entry(number, params) /\ syscall_handler(number) = Goes(fn, params)

\* Each wrapper reaches its function.
LEMMA WrappersArrive ==
    ASSUME NEW fn \in DOMAIN Wrappers
    PROVE  Arrives(fn, Wrappers[fn], syscall_handler(Wrappers[fn].number))
<1>1. DOMAIN Wrappers = {"read", "write", "open", "unlink", "exec", "ioctl", "getdents", "ipc_call",
                         "exit", "yield", "compat_exec", "ax_surface", "ax_poll", "ax_commit",
                         "ax_time", "ax_screen"}
    BY DEF Wrappers
<1>2. /\ Direct("read", 3, <<"int", "pointer", "int">>)
      /\ Direct("write", 4, <<"int", "pointer", "int">>)
      /\ Direct("open", 5, <<"pointer", "int", "int">>)
      /\ Direct("unlink", 10, <<"pointer">>)
      /\ Direct("exec", 11, <<"pointer">>)
      /\ Direct("ioctl", 54, <<"int", "int", "pointer">>)
      /\ Direct("getdents", 141, <<"int", "pointer", "int">>)
      /\ Direct("ipc_call", 150, <<"int", "pointer">>)
      /\ Direct("exit", 1, <<"int">>)
      /\ Direct("yield", 151, << >>)
      /\ Direct("ax_surface", 160, <<"pointer", "int", "int">>)
      /\ Direct("ax_time", 163, <<"pointer">>)
      /\ Direct("ax_screen", 164, <<"pointer">>)
    BY DEF Direct, Wrappers, Entry, syscall_handler, Goes
<1>3. ASSUME NEW number, NEW params, Direct(fn, number, params), fn # "compat_exec"
      PROVE  Arrives(fn, Wrappers[fn], syscall_handler(Wrappers[fn].number))
  <2>1. Wrappers[fn].number = number /\ Wrappers[fn].params = params
    BY <1>3 DEF Direct, Entry
  <2>2. syscall_handler(number).fn = fn /\ syscall_handler(number).params = params
    BY <1>3 DEF Direct, Goes
  <2> QED
    BY <1>3, <2>1, <2>2 DEF Arrives
<1>4. CASE fn \notin {"compat_exec", "ax_poll", "ax_commit"}
  <2>1. \E number, params : Direct(fn, number, params)
    BY <1>1, <1>2, <1>4
  <2> QED
    BY <1>3, <1>4, <2>1
<1>5. CASE fn = "compat_exec"
    BY <1>5 DEF Wrappers, Entry, syscall_handler, Goes, Arrives
<1>6. CASE fn = "ax_poll"
  <2>1. Wrappers[fn].number = 161 /\ Wrappers[fn].params = <<"pointer", "pointer">>
    BY <1>6 DEF Wrappers, Entry
  <2>2. syscall_handler(161).fn = "ax_poll" /\ syscall_handler(161).params = <<"cut", "pointer">>
    BY DEF syscall_handler, Goes
  <2> DEFINE p == Wrappers[fn].params
             q == syscall_handler(161).params
  <2>3. /\ Len(p) = 2 /\ Len(q) = 2 /\ DOMAIN p = {1, 2}
        /\ q[1] = "cut" /\ p[2] = "pointer" /\ q[2] = "pointer"
    BY <2>1, <2>2
  <2> HIDE DEF p, q
  <2>4. \A i \in DOMAIN p : q[i] = p[i] \/ (i = 1 /\ q[i] = "cut")
    BY <2>3
  <2> QED
    BY <1>6, <2>1, <2>2, <2>3, <2>4 DEF Arrives, p, q
<1>7. CASE fn = "ax_commit"
  <2>1. Wrappers[fn].number = 162 /\ Wrappers[fn].params = <<"pointer">>
    BY <1>7 DEF Wrappers, Entry
  <2>2. syscall_handler(162).fn = "ax_commit" /\ syscall_handler(162).params = <<"cut">>
    BY DEF syscall_handler, Goes
  <2> DEFINE p == Wrappers[fn].params
             q == syscall_handler(162).params
  <2>3. Len(p) = 1 /\ Len(q) = 1 /\ DOMAIN p = {1} /\ q[1] = "cut"
    BY <2>1, <2>2
  <2> HIDE DEF p, q
  <2>4. \A i \in DOMAIN p : i = 1 /\ q[i] = "cut"
    BY <2>3
  <2> QED
    BY <1>7, <2>1, <2>2, <2>3, <2>4 DEF Arrives, p, q
<1> QED
    BY <1>1, <1>4, <1>5, <1>6, <1>7

\* Each number of Linux and of Darwin reaches its call.
LEMMA NumbersTrue ==
    ASSUME NEW number \in 0 .. 255, NEW class \in {0, 1, 2}
    PROVE  /\ \A op \in DOMAIN LinuxNumber : number = LinuxNumber[op] => linux_syscall_handler(number) = op
           /\ \A op \in DOMAIN DarwinNumber :
                number = DarwinNumber[op] /\ class # 1 =>
                  darwin_syscall_handler(class, number) = IF op = "munmap" THEN "brk" ELSE op
<1>1. \A op \in DOMAIN LinuxNumber : linux_syscall_handler(LinuxNumber[op]) = op
    BY DEF LinuxNumber, linux_syscall_handler
<1>2. \A op \in DOMAIN DarwinNumber : class # 1 =>
        darwin_syscall_handler(class, DarwinNumber[op]) = IF op = "munmap" THEN "brk" ELSE op
    BY DEF DarwinNumber, darwin_syscall_handler
<1> QED
    BY <1>1, <1>2

\* A native call, by its wrapper.
NativeCalled == \E fn \in DOMAIN Wrappers :
    call = [fn |-> "syscall", name |-> fn] /\ answer = syscall_handler(Wrappers[fn].number)

\* What arrives is what was called.
LEMMA NativeIsExact == NativeCalled => MachineExact
<1> SUFFICES ASSUME NativeCalled
             PROVE  MachineExact
    OBVIOUS
<1>0. PICK fn \in DOMAIN Wrappers :
        call = [fn |-> "syscall", name |-> fn] /\ answer = syscall_handler(Wrappers[fn].number)
    BY DEF NativeCalled
<1>1. call.fn = "syscall" /\ call.name = fn
    BY <1>0
<1>2. Arrives(call.name, Wrappers[call.name], answer)
    BY <1>0, <1>1, WrappersArrive
<1>3. CallsArrive
    BY <1>1, <1>2 DEF CallsArrive, Arrives, Called
<1>4. SystemCallsExact
    BY <1>1, <1>3 DEF SystemCallsExact, PersonalitiesTrue, BreakMoves, ReadsInOrder, Called
<1> QED
    BY <1>1, <1>4, BootQuiet, BusQuiet DEF MachineExact

\* A native call that nobody answers.
UnknownCalled == \E number \in {-1, 0, 2, 170} :
    call = [fn |-> "unknown", number |-> number] /\ answer = Unanswered(number)

\* Only 170 does not look like an error.
LEMMA UnknownIsExact == UnknownCalled => MachineExact
<1> SUFFICES ASSUME UnknownCalled
             PROVE  MachineExact
    OBVIOUS
<1>0. PICK number \in {-1, 0, 2, 170} :
        call = [fn |-> "unknown", number |-> number] /\ answer = Unanswered(number)
    BY DEF UnknownCalled
<1>1. call.fn = "unknown" /\ call.number = number
    BY <1>0
<1>2. Unanswered(number) < 0 <=> number # 170
    BY DEF Unanswered
<1>3. (answer < 0) = (call.number # 170)
    BY <1>0, <1>1, <1>2
<1>4. CallsArrive
    BY <1>1, <1>3 DEF CallsArrive, Called
<1>5. SystemCallsExact
    BY <1>1, <1>4 DEF SystemCallsExact, PersonalitiesTrue, BreakMoves, ReadsInOrder, Called
<1> QED
    BY <1>1, <1>5, BootQuiet, BusQuiet DEF MachineExact

\* A call of another system.
PersonalityCalled == \E class \in {0, 1, 2}, number \in 0 .. 255 :
    /\ call = [fn |-> "personality", class |-> class, number |-> number]
    /\ answer = [linux |-> linux_syscall_handler(number), darwin |-> darwin_syscall_handler(class, number)]

\* The calls of other systems are those of the same name.
LEMMA PersonalityIsExact == PersonalityCalled => MachineExact
<1> SUFFICES ASSUME PersonalityCalled
             PROVE  MachineExact
    OBVIOUS
<1>0. PICK class \in {0, 1, 2}, number \in 0 .. 255 :
        /\ call = [fn |-> "personality", class |-> class, number |-> number]
        /\ answer = [linux |-> linux_syscall_handler(number), darwin |-> darwin_syscall_handler(class, number)]
    BY DEF PersonalityCalled
<1>1. /\ call.fn = "personality" /\ call.class = class /\ call.number = number
      /\ answer.linux = linux_syscall_handler(number)
      /\ answer.darwin = darwin_syscall_handler(class, number)
    BY <1>0
<1>2. PersonalitiesTrue
    BY <1>1, NumbersTrue DEF PersonalitiesTrue
<1>3. SystemCallsExact
    BY <1>1, <1>2 DEF SystemCallsExact, CallsArrive, BreakMoves, ReadsInOrder, Called
<1> QED
    BY <1>1, <1>3, BootQuiet, BusQuiet DEF MachineExact

\* The values of the break, one request after the other.
LEMMA BreakSteps ==
    ASSUME NEW n \in Nat, NEW requests \in [1 .. n -> 0 .. 2 * BrkBlock]
    PROVE  LET cur == sys_brk_compat(requests)
           IN  /\ cur[1] = 0
               /\ \A i \in 1 .. n : cur[i] \in Nat /\ cur[i + 1] = brk(cur[i], requests[i])
<1> DEFINE Moved(k, x) == brk(x, requests[k])
           step == [i \in 1 .. n |-> [x \in Nat |-> Moved(i, x)]]
           IsBreak(g) == g = [k \in 0 .. n |-> IF k = 0 THEN 0 ELSE Moved(k, g[k - 1])]
           at == CHOOSE g : IsBreak(g)
<1>1. Len(requests) = n
    OBVIOUS
<1>2. sys_brk_compat(requests) = [i \in 1 .. n + 1 |-> at[i - 1]]
    BY <1>1 DEF sys_brk_compat
<1>3. \A k \in 1 .. n : requests[k] \in Nat
    BY SystemCallsAssumption
<1>4. ASSUME NEW k \in 1 .. n, NEW x \in Nat
      PROVE  Moved(k, x) \in Nat
    BY <1>3 DEF brk
<1> HIDE DEF Moved
<1>5. PICK f : IsLoop(f, n, Nat, 0, step)
  <2>1. step \in [1 .. n -> [Nat -> Nat]]
    BY <1>4
  <2> HIDE DEF step
  <2> QED
    BY <2>1, LoopExists
<1>6. /\ f \in [0 .. n -> Nat] /\ f[0] = 0 /\ f = [k \in 0 .. n |-> f[k]]
      /\ \A k \in 1 .. n : f[k] = Moved(k, f[k - 1])
  <2>1. f \in [0 .. n -> Nat] /\ f[0] = 0 /\ \A k \in 1 .. n : f[k] = step[k][f[k - 1]]
    BY <1>5 DEF IsLoop
  <2>2. \A k \in 1 .. n : f[k - 1] \in Nat
    BY <2>1
  <2> QED
    BY <2>1, <2>2
<1> HIDE DEF step
<1>7. \E g : IsBreak(g)
  <2>1. \A k \in 0 .. n : f[k] = IF k = 0 THEN 0 ELSE Moved(k, f[k - 1])
    <3> SUFFICES ASSUME NEW k \in 0 .. n
                 PROVE  f[k] = IF k = 0 THEN 0 ELSE Moved(k, f[k - 1])
        OBVIOUS
    <3>1. k # 0 => k \in 1 .. n
        OBVIOUS
    <3> QED
        BY <1>6, <3>1, Zenon
  <2>2. IsBreak(f)
    BY <1>6, <2>1
  <2> QED
    BY <2>2
<1>8. IsBreak(at)
    BY <1>7
<1> HIDE DEF at
<1>9. at[0] = 0 /\ \A k \in 1 .. n : at[k] = Moved(k, at[k - 1])
    BY <1>8
<1> DEFINE T == {k \in 0 .. n : at[k] \in Nat}
<1>10. \A k \in 0 .. n : k \in T
  <2>1. 0 \in T
    BY <1>9
  <2>2. ASSUME NEW k \in 1 .. n, k - 1 \in T
        PROVE  k \in T
    <3>1. at[k - 1] \in Nat /\ k \in 0 .. n
        BY <2>2
    <3>2. at[k] \in Nat
        BY <1>4, <1>9, <3>1
    <3> QED
        BY <3>1, <3>2
  <2> HIDE DEF T
  <2> QED
    BY <2>1, <2>2, UpTo
<1> DEFINE cur == [i \in 1 .. n + 1 |-> at[i - 1]]
<1>11. cur[1] = 0
    BY <1>9
<1>12. ASSUME NEW i \in 1 .. n
       PROVE  cur[i] \in Nat /\ cur[i + 1] = brk(cur[i], requests[i])
  <2>1. cur[i] = at[i - 1] /\ cur[i + 1] = at[i]
    OBVIOUS
  <2>2. i - 1 \in T
    BY <1>10
  <2> QED
    BY <1>9, <2>1, <2>2 DEF Moved
<1> QED
    BY <1>2, <1>11, <1>12

\* A program moves its break.
BreakCalled == \E requests \in [1 .. BrkRequests -> 0 .. 2 * BrkBlock] :
    call = [fn |-> "brk", requests |-> requests] /\ answer = sys_brk_compat(requests)

\* The break moves forward and where it was asked to.
LEMMA BreakIsExact == BreakCalled => MachineExact
<1> SUFFICES ASSUME BreakCalled
             PROVE  MachineExact
    OBVIOUS
<1>0. PICK requests \in [1 .. BrkRequests -> 0 .. 2 * BrkBlock] :
        call = [fn |-> "brk", requests |-> requests] /\ answer = sys_brk_compat(requests)
    BY DEF BreakCalled
<1>1. call.fn = "brk" /\ call.requests = requests
    BY <1>0
<1>2. BrkRequests \in Nat /\ BrkBlock \in Nat \ {0}
    BY SystemCallsAssumption
<1>3. ASSUME NEW i \in DOMAIN call.requests
      PROVE  /\ answer[i + 1] >= answer[i]
             /\ answer[i + 1] \in {answer[i], call.requests[i]}
             /\ answer[i] = 0 => answer[i + 1] < BrkBlock
  <2>1. i \in 1 .. BrkRequests
    BY <1>1
  <2>2. answer[i] \in Nat /\ answer[i + 1] = brk(answer[i], requests[i])
    BY <1>0, <1>2, <2>1, BreakSteps
  <2>3. requests[i] \in Nat
    BY <1>2, <2>1
  <2> DEFINE x == answer[i]
             y == answer[i + 1]
  <2>4. y >= x /\ y \in {x, requests[i]} /\ (x = 0 => y < BrkBlock)
    <3> HIDE DEF x, y
    <3>1. x \in Nat /\ y = brk(x, requests[i])
        BY <2>2 DEF x, y
    <3> QED
        BY <1>2, <2>3, <3>1 DEF brk
  <2> QED
    BY <1>1, <2>4
<1>4. BreakMoves
    BY <1>3 DEF BreakMoves
<1>5. SystemCallsExact
    BY <1>1, <1>4 DEF SystemCallsExact, CallsArrive, PersonalitiesTrue, ReadsInOrder, Called
<1> QED
    BY <1>1, <1>5, BootQuiet, BusQuiet DEF MachineExact

-----------------------------------------------------------------------------
(* read(): what it has got after each turn of its loop. *)

\* What a program reads is made of these.
Text == Bytes \cup {"newline"}

\* A text that another begins with.
Begins(s, t) == Len(s) <= Len(t) /\ \A i \in 1 .. Len(s) : s[i] = t[i]

\* That is what IsPrefix() says.
LEMMA BeginsIsPrefix ==
    ASSUME NEW s \in Seq(Text), NEW t \in Seq(Text), Begins(s, t)
    PROVE  IsPrefix(s, t)
<1>1. Len(s) <= Len(t) /\ \A i \in 1 .. Len(s) : s[i] = t[i]
    BY DEF Begins
<1>2. SubSeq(s, 1, Len(s)) = [i \in 1 .. Len(s) |-> s[i]]
    OBVIOUS
<1>3. SubSeq(t, 1, Len(s)) = [i \in 1 .. Len(s) |-> t[i]]
    BY <1>1
<1> QED
    BY <1>1, <1>2, <1>3 DEF IsPrefix

\* It stays so behind the same text.
LEMMA BeginsMore ==
    ASSUME NEW s \in Seq(Text), NEW t \in Seq(Text), NEW u \in Seq(Text), Begins(u, t)
    PROVE  Begins(s \o u, s \o t) /\ Begins(s, s \o t)
<1> DEFINE v == s \o u
           w == s \o t
<1>1. Len(u) <= Len(t) /\ Len(u) \in Nat /\ Len(t) \in Nat /\ Len(s) \in Nat
      /\ \A i \in 1 .. Len(u) : u[i] = t[i]
    BY DEF Begins
<1>2. /\ Len(v) = Len(s) + Len(u) /\ Len(w) = Len(s) + Len(t)
      /\ \A i \in 1 .. Len(s) + Len(u) : v[i] = IF i <= Len(s) THEN s[i] ELSE u[i - Len(s)]
      /\ \A i \in 1 .. Len(s) + Len(t) : w[i] = IF i <= Len(s) THEN s[i] ELSE t[i - Len(s)]
    BY ConcatProperties
<1> HIDE DEF v, w
<1>3. ASSUME NEW i \in 1 .. Len(v)
      PROVE  v[i] = w[i]
  <2>1. i > Len(s) => i - Len(s) \in 1 .. Len(u)
    BY <1>1, <1>2
  <2>2. i \in 1 .. Len(s) + Len(u) /\ i \in 1 .. Len(s) + Len(t)
    BY <1>1, <1>2
  <2>3. CASE i <= Len(s)
    BY <1>2, <2>2, <2>3
  <2>4. CASE i > Len(s)
    <3> DEFINE j == i - Len(s)
    <3>1. v[i] = u[j] /\ w[i] = t[j]
        BY <1>1, <1>2, <2>2, <2>4
    <3>2. j \in 1 .. Len(u)
        BY <2>1, <2>4
    <3> HIDE DEF j
    <3> QED
        BY <1>1, <3>1, <3>2
  <2> QED
    BY <1>1, <2>2, <2>3, <2>4
<1>4. ASSUME NEW i \in 1 .. Len(s)
      PROVE  s[i] = w[i]
    BY <1>1, <1>2
<1> QED
    BY <1>1, <1>2, <1>3, <1>4 DEF Begins, v, w

\* It goes from text to text.
LEMMA BeginsThrough ==
    ASSUME NEW s \in Seq(Text), NEW t \in Seq(Text), NEW u \in Seq(Text), Begins(s, t), Begins(t, u)
    PROVE  Begins(s, u)
<1>1. Len(s) \in Nat /\ Len(t) \in Nat /\ Len(u) \in Nat
    OBVIOUS
<1> QED
    BY <1>1 DEF Begins

\* The texts of the first pieces of a source, one after the other.
Joined(at, source) ==
    /\ at \in [0 .. Len(source) -> Seq(Text)] /\ at[0] = << >>
    /\ \A k \in 1 .. Len(source) : at[k] = at[k - 1] \o source[k]

\* Every source has them.
LEMMA JoinedIsThere ==
    ASSUME NEW source \in Seq(Seq(Text))
    PROVE  \E at : Joined(at, source)
<1> DEFINE n == Len(source)
           step == [i \in 1 .. n |-> [x \in Seq(Text) |-> x \o source[i]]]
<1>1. n \in Nat /\ \A i \in 1 .. n : source[i] \in Seq(Text)
    OBVIOUS
<1>2. PICK f : IsLoop(f, n, Seq(Text), << >>, step)
  <2> HIDE DEF n
  <2>1. ASSUME NEW i \in 1 .. n, NEW x \in Seq(Text)
        PROVE  x \o source[i] \in Seq(Text)
    BY <1>1
  <2>2. step \in [1 .. n -> [Seq(Text) -> Seq(Text)]]
    BY <2>1
  <2>3. << >> \in Seq(Text)
    OBVIOUS
  <2> HIDE DEF step
  <2> QED
    BY <1>1, <2>2, <2>3, LoopExists
<1>3. f \in [0 .. n -> Seq(Text)] /\ f[0] = << >> /\ \A k \in 1 .. n : f[k] = step[k][f[k - 1]]
    BY <1>2 DEF IsLoop
<1>4. \A k \in 1 .. n : f[k - 1] \in Seq(Text)
  <2> HIDE DEF n
  <2>1. \A k \in 1 .. n : k - 1 \in 0 .. n
    BY <1>1
  <2> QED
    BY <1>3, <2>1
<1>5. \A k \in 1 .. n : f[k] = f[k - 1] \o source[k]
    BY <1>3, <1>4
<1> QED
    BY <1>3, <1>5 DEF Joined

\* Together they are what FlattenSeq() makes of the source.
LEMMA JoinedIsAll ==
    ASSUME NEW source \in Seq(Seq(Text)), NEW at, Joined(at, source)
    PROVE  FlattenSeq(source) = at[Len(source)]
<1> DEFINE n == Len(source)
           After(k, x) == x \o source[k]
           IsFlat(g) == g = [i \in 1 .. n |-> IF i = 1 THEN source[i] ELSE After(i, g[i - 1])]
           flat == CHOOSE g : IsFlat(g)
<1>1. n \in Nat /\ \A k \in 1 .. n : source[k] \in Seq(Text)
    OBVIOUS
<1>2. at[0] = << >> /\ \A k \in 1 .. n : at[k] = After(k, at[k - 1])
    BY DEF Joined
<1>3. CASE n = 0
  <2>1. source = << >>
    BY <1>3
  <2> QED
    BY <1>2, <1>3, <2>1 DEF FlattenSeq
<1>4. CASE n # 0
  <2>1. FlattenSeq(source) = flat[n]
    BY <1>4 DEF FlattenSeq
  <2> HIDE DEF n
  <2>2. at[1] = source[1]
    <3>1. 1 \in 1 .. n /\ 1 - 1 = 0
        BY <1>1, <1>4
    <3>2. at[1] = << >> \o source[1] /\ source[1] \in Seq(Text)
        BY <1>1, <1>2, <3>1
    <3> QED
        BY <3>2
  <2> HIDE DEF After
  <2> DEFINE g0 == [i \in 1 .. n |-> at[i]]
  <2>3. IsFlat(g0)
    <3>1. ASSUME NEW i \in 1 .. n
          PROVE  at[i] = IF i = 1 THEN source[i] ELSE After(i, g0[i - 1])
      <4>1. CASE i = 1
          BY <2>2, <4>1
      <4>2. CASE i # 1
        <5>1. i - 1 \in 1 .. n
            BY <1>1, <4>2
        <5>2. g0[i - 1] = at[i - 1]
            BY <5>1
        <5> HIDE DEF g0
        <5> QED
            BY <1>2, <4>2, <5>2
      <4> QED
          BY <4>1, <4>2
    <3> QED
        BY <3>1
  <2> HIDE DEF g0
  <2>4. IsFlat(flat)
    <3>1. \E g : IsFlat(g)
        BY <2>3
    <3> QED
        BY <3>1
  <2> HIDE DEF flat
  <2>5. \A i \in 1 .. n : flat[i] = IF i = 1 THEN source[i] ELSE After(i, flat[i - 1])
    BY <2>4
  <2> DEFINE T == {k \in 0 .. n : k = 0 \/ flat[k] = at[k]}
  <2>6. 0 \in T
    BY <1>1
  <2>7. ASSUME NEW k \in 1 .. n, k - 1 \in T
        PROVE  k \in T
    <3>1. CASE k = 1
      <4>1. flat[1] = source[1]
          BY <2>5, <3>1
      <4> QED
          BY <1>1, <2>2, <3>1, <4>1
    <3>2. CASE k # 1
      <4>1. flat[k - 1] = at[k - 1]
          BY <1>1, <2>7, <3>2
      <4>2. flat[k] = After(k, flat[k - 1])
          BY <2>5, <3>2
      <4>3. at[k] = After(k, at[k - 1])
          BY <1>2
      <4> QED
          BY <1>1, <4>1, <4>2, <4>3
    <3> QED
        BY <3>1, <3>2
  <2>8. \A k \in 0 .. n : k \in T
    <3> HIDE DEF T
    <3> QED
        BY <1>1, <2>6, <2>7, UpTo
  <2>9. flat[n] = at[n]
    BY <1>1, <1>4, <2>8
  <2> QED
    BY <2>1, <2>9 DEF n
<1> QED
    BY <1>3, <1>4

\* Each of them begins the whole.
LEMMA JoinedBegins ==
    ASSUME NEW source \in Seq(Seq(Text)), NEW at, Joined(at, source), NEW k \in 0 .. Len(source)
    PROVE  Begins(at[k], at[Len(source)])
<1> DEFINE n == Len(source)
           T == {d \in 0 .. n : Begins(at[n - d], at[n])}
<1>1. n \in Nat /\ \A i \in 1 .. n : source[i] \in Seq(Text)
    OBVIOUS
<1>2. /\ \A i \in 0 .. n : at[i] \in Seq(Text)
      /\ \A i \in 1 .. n : at[i] = at[i - 1] \o source[i]
    BY DEF Joined
<1> HIDE DEF n
<1>3. 0 \in T
  <2>1. Begins(at[n], at[n])
    BY DEF Begins
  <2> QED
    BY <1>1, <2>1
<1>4. ASSUME NEW d \in 1 .. n, d - 1 \in T
      PROVE  d \in T
  <2> DEFINE i == n - d
  <2>1. i \in 0 .. n /\ i + 1 \in 1 .. n /\ n - (d - 1) = i + 1 /\ i + 1 - 1 = i /\ i + 1 \in 0 .. n
    BY <1>1
  <2>2. Begins(at[n - (d - 1)], at[n])
    BY <1>4
  <2> HIDE DEF i
  <2>3. at[i + 1] = at[i] \o source[i + 1] /\ at[i] \in Seq(Text) /\ source[i + 1] \in Seq(Text)
        /\ at[i + 1] \in Seq(Text) /\ at[n] \in Seq(Text)
    <3>1. at[i + 1] = at[i] \o source[i + 1]
      <4> DEFINE j == i + 1
      <4>1. j \in 1 .. n /\ j - 1 = i
          BY <2>1
      <4> HIDE DEF j
      <4>2. at[j] = at[j - 1] \o source[j]
          BY <1>2, <4>1
      <4>3. at[j] = at[i] \o source[j]
          BY <4>1, <4>2, Zenon
      <4> QED
          BY <4>3 DEF j
    <3>2. n \in 0 .. n
        BY <1>1
    <3> QED
        BY <1>1, <1>2, <2>1, <3>1, <3>2
  <2>4. Begins(at[i], at[i + 1])
    <3>1. Begins(source[i + 1], source[i + 1])
        BY DEF Begins
    <3> QED
        BY <2>3, <3>1, BeginsMore
  <2>5. Begins(at[i], at[n])
    BY <2>1, <2>2, <2>3, <2>4, BeginsThrough
  <2> QED
    BY <1>1, <2>5 DEF i
<1>5. \A d \in 0 .. n : d \in T
  <2> HIDE DEF T
  <2> QED
    BY <1>1, <1>3, <1>4, UpTo
<1>6. n - k \in 0 .. n /\ n - (n - k) = k
    BY <1>1 DEF n
<1>7. Begins(at[n - (n - k)], at[n])
    BY <1>5, <1>6
<1> QED
    BY <1>6, <1>7 DEF n

\* What one call in the kernel takes of a source that has something.
LEMMA PieceTaken ==
    ASSUME NEW source \in Seq(Seq(Text)), source # << >>, NEW n \in Nat \ {0}
    PROVE  LET ret == KernelRead(source, n)
               rest == Rest(source, n)
           IN  /\ ret \in Seq(Text) /\ Len(ret) <= n /\ Begins(ret, source[1])
               /\ rest \in Seq(Seq(Text))
               /\ Len(ret) = n \/ (ret = source[1] /\ rest = Tail(source))
<1> DEFINE piece == source[1]
           ret == KernelRead(source, n)
           rest == Rest(source, n)
<1>1. /\ piece \in Seq(Text) /\ Len(piece) \in Nat /\ Head(source) = piece
      /\ Tail(source) \in Seq(Seq(Text))
    BY HeadTailProperties
<1>2. ret = SubSeq(piece, 1, IF n <= Len(piece) THEN n ELSE Len(piece))
    BY <1>1, MinOfTwo DEF KernelRead
<1>3. rest = IF n < Len(piece) THEN <<SubSeq(piece, n + 1, Len(piece))>> \o Tail(source)
             ELSE Tail(source)
    BY <1>1 DEF Rest
<1> HIDE DEF ret, rest
<1>4. CASE n < Len(piece)
  <2> HIDE DEF piece
  <2>1. ret = SubSeq(piece, 1, n)
    BY <1>1, <1>2, <1>4
  <2>2. ret \in Seq(Text) /\ Len(ret) = n /\ \A i \in 1 .. n : ret[i] = piece[i]
    BY <1>1, <1>4, <2>1
  <2>3. SubSeq(piece, n + 1, Len(piece)) \in Seq(Text)
    BY <1>1, <1>4, SubSeqProperties
  <2>4. rest \in Seq(Seq(Text))
    <3> DEFINE cut == SubSeq(piece, n + 1, Len(piece))
               left == Tail(source)
    <3>1. cut \in Seq(Text) /\ left \in Seq(Seq(Text)) /\ rest = <<cut>> \o left
        BY <1>1, <1>3, <1>4, <2>3
    <3> HIDE DEF cut, left
    <3>2. <<cut>> \in Seq(Seq(Text))
        BY <3>1
    <3> QED
        BY <3>1, <3>2, ConcatProperties
  <2> QED
    BY <1>1, <1>4, <2>2, <2>4 DEF Begins, piece, ret, rest
<1>5. CASE ~(n < Len(piece))
  <2>1. ret = SubSeq(piece, 1, Len(piece)) /\ rest = Tail(source)
    BY <1>1, <1>2, <1>3, <1>5
  <2>2. SubSeq(piece, 1, Len(piece)) = piece
    BY <1>1, SubSeqFull
  <2>3. ret = piece
    BY <2>1, <2>2
  <2> HIDE DEF piece
  <2>4. Len(piece) <= n
    BY <1>1, <1>5
  <2> QED
    BY <1>1, <2>1, <2>3, <2>4 DEF Begins, piece, ret, rest
<1> QED
    BY <1>4, <1>5

\* A source that has nothing gives nothing.
LEMMA NothingTaken ==
    ASSUME NEW n
    PROVE  KernelRead(<< >>, n) = << >> /\ Rest(<< >>, n) = << >>
BY DEF KernelRead, Rest

\* The states of the loop of read().
Loops == [source : Seq(Seq(Text)), got : Seq(Text), ends : BOOLEAN]

\* A turn that asks the kernel.
More(loop, count) ==
    LET n == count - Len(loop.got)
        ret == KernelRead(loop.source, n)
    IN  [source |-> Rest(loop.source, n), got |-> loop.got \o ret,
         ends |-> ret # << >> /\ Last(ret) = "newline"]

\* The three cases of a turn.
LEMMA TurnIs ==
    ASSUME NEW loop \in Loops, NEW count \in Nat
    PROVE  /\ loop.ends => ReadTurn(loop, count) = loop
           /\ ~loop.ends /\ Len(loop.got) >= count =>
                ReadTurn(loop, count) = [loop EXCEPT !.ends = TRUE]
           /\ ~loop.ends /\ Len(loop.got) < count => ReadTurn(loop, count) = More(loop, count)
<1>0. Len(loop.got) \in Nat
    BY DEF Loops
<1>1. CASE loop.ends
    BY <1>1 DEF ReadTurn
<1>2. CASE ~loop.ends /\ Len(loop.got) >= count
  <2>1. ReadTurn(loop, count) = [loop EXCEPT !.ends = TRUE]
    BY <1>2 DEF ReadTurn
  <2>2. ~(Len(loop.got) < count)
    BY <1>0, <1>2
  <2> QED
    BY <1>2, <2>1, <2>2
<1>3. CASE ~loop.ends /\ Len(loop.got) < count
  <2>1. ~(~loop.ends /\ Len(loop.got) >= count)
    BY <1>0, <1>3
  <2>2. ReadTurn(loop, count) = More(loop, count)
    BY <1>3, <2>1 DEF ReadTurn, More, Wanted
  <2> QED
    BY <1>0, <1>3, <2>2
<1> QED
    BY <1>0, <1>1, <1>2, <1>3

\* A turn leads from state to state.
LEMMA TurnTyped ==
    ASSUME NEW loop \in Loops, NEW count \in Nat
    PROVE  ReadTurn(loop, count) \in Loops
<1>0. /\ loop.source \in Seq(Seq(Text)) /\ loop.got \in Seq(Text) /\ Len(loop.got) \in Nat
      /\ loop.ends \in BOOLEAN /\ loop = [source |-> loop.source, got |-> loop.got, ends |-> loop.ends]
    BY DEF Loops
<1>1. CASE loop.ends
  <2>1. ReadTurn(loop, count) = loop
    BY <1>1, TurnIs
  <2> QED
    BY <2>1
<1>2. CASE ~loop.ends /\ Len(loop.got) >= count
  <2>1. ReadTurn(loop, count) = [loop EXCEPT !.ends = TRUE]
    BY <1>2, TurnIs
  <2> QED
    BY <1>0, <2>1 DEF Loops
<1>3. CASE ~loop.ends /\ Len(loop.got) < count
  <2> DEFINE n == count - Len(loop.got)
             ret == KernelRead(loop.source, n)
             rest == Rest(loop.source, n)
             got == loop.got \o ret
             ends == ret # << >> /\ Last(ret) = "newline"
  <2>1. ReadTurn(loop, count) = [source |-> rest, got |-> got, ends |-> ends]
    BY <1>3, TurnIs DEF More
  <2>2. n \in Nat \ {0}
    BY <1>0, <1>3
  <2>3. ret \in Seq(Text) /\ rest \in Seq(Seq(Text))
    <3>1. CASE loop.source = << >>
      <4>1. ret = << >> /\ rest = << >>
          BY <3>1, NothingTaken, Zenon
      <4>2. << >> \in Seq(Text) /\ << >> \in Seq(Seq(Text))
          OBVIOUS
      <4> QED
          BY <4>1, <4>2, Zenon
    <3>2. CASE loop.source # << >>
        BY <1>0, <2>2, <3>2, PieceTaken
    <3> QED
        BY <3>1, <3>2
  <2> HIDE DEF ret, rest
  <2>4. got \in Seq(Text)
    BY <1>0, <2>3, ConcatProperties
  <2>5. ends \in BOOLEAN
    OBVIOUS
  <2> HIDE DEF got, ends
  <2> QED
    BY <2>1, <2>3, <2>4, <2>5 DEF Loops
<1> QED
    BY <1>0, <1>1, <1>2, <1>3

\* The turns of the loop.
Turns(turn, source, count) ==
    /\ turn \in [0 .. Len(source) + 1 -> Loops]
    /\ turn[0] = [source |-> source, got |-> << >>, ends |-> FALSE]
    /\ \A k \in 1 .. Len(source) + 1 : turn[k] = ReadTurn(turn[k - 1], count)

\* ReadLoop() is the state after the last turn.
LEMMA TurnsAreThere ==
    ASSUME NEW source \in Seq(Seq(Text)), NEW count \in Nat
    PROVE  \E turn : Turns(turn, source, count) /\ ReadLoop(source, count) = turn[Len(source) + 1]
<1> DEFINE n == Len(source) + 1
           start == [source |-> source, got |-> << >>, ends |-> FALSE]
           After(x) == ReadTurn(x, count)
           step == [i \in 1 .. n |-> [x \in Loops |-> After(x)]]
           IsTurn(g) == g = [k \in 0 .. n |-> IF k = 0 THEN start ELSE After(g[k - 1])]
           turn == CHOOSE g : IsTurn(g)
<1>1. n \in Nat /\ n - 1 = Len(source)
    OBVIOUS
<1>2. start \in Loops
    BY DEF Loops
<1>3. \A x \in Loops : After(x) \in Loops
    BY TurnTyped
<1>4. ReadLoop(source, count) = turn[n]
    BY DEF ReadLoop
<1> HIDE DEF n, start, After
<1>5. PICK f : IsLoop(f, n, Loops, start, step)
  <2>1. step \in [1 .. n -> [Loops -> Loops]]
    BY <1>3
  <2> HIDE DEF step
  <2> QED
    BY <1>1, <1>2, <2>1, LoopExists
<1>6. /\ f \in [0 .. n -> Loops] /\ f[0] = start /\ f = [k \in 0 .. n |-> f[k]]
      /\ \A k \in 1 .. n : f[k] = After(f[k - 1])
  <2>1. f \in [0 .. n -> Loops] /\ f[0] = start /\ \A k \in 1 .. n : f[k] = step[k][f[k - 1]]
    BY <1>5 DEF IsLoop
  <2>2. \A k \in 1 .. n : k - 1 \in 0 .. n
    BY <1>1
  <2>3. \A k \in 1 .. n : f[k - 1] \in Loops
    BY <2>1, <2>2
  <2> QED
    BY <2>1, <2>3
<1> HIDE DEF step
<1>7. \E g : IsTurn(g)
  <2>1. \A k \in 0 .. n : f[k] = IF k = 0 THEN start ELSE After(f[k - 1])
    <3> SUFFICES ASSUME NEW k \in 0 .. n
                 PROVE  f[k] = IF k = 0 THEN start ELSE After(f[k - 1])
        OBVIOUS
    <3>1. k # 0 => k \in 1 .. n
        BY <1>1
    <3> QED
        BY <1>6, <3>1, Zenon
  <2>2. IsTurn(f)
    BY <1>6, <2>1
  <2> QED
    BY <2>2
<1>8. IsTurn(turn)
    BY <1>7
<1> HIDE DEF turn
<1>9. turn[0] = start /\ (\A k \in 1 .. n : turn[k] = After(turn[k - 1])) /\ DOMAIN turn = 0 .. n
      /\ turn = [k \in 0 .. n |-> turn[k]]
  <2>1. turn[0] = start
    BY <1>1, <1>8
  <2>2. ASSUME NEW k \in 1 .. n
        PROVE  turn[k] = After(turn[k - 1])
    <3>1. k \in 0 .. n /\ k # 0
        BY <1>1
    <3> QED
        BY <1>8, <3>1, Zenon
  <2>3. DOMAIN turn = 0 .. n /\ turn = [k \in 0 .. n |-> turn[k]]
    BY <1>8
  <2> QED
    BY <2>1, <2>2, <2>3
<1> DEFINE T == {k \in 0 .. n : turn[k] \in Loops}
<1>10. \A k \in 0 .. n : k \in T
  <2>1. 0 \in T
    BY <1>1, <1>2, <1>9
  <2>2. ASSUME NEW k \in 1 .. n, k - 1 \in T
        PROVE  k \in T
    <3>1. turn[k - 1] \in Loops /\ k \in 0 .. n
        BY <1>1, <2>2
    <3>2. turn[k] \in Loops
        BY <1>3, <1>9, <3>1
    <3> QED
        BY <3>1, <3>2
  <2> HIDE DEF T
  <2> QED
    BY <1>1, <2>1, <2>2, UpTo
<1>11. turn \in [0 .. n -> Loops]
    BY <1>9, <1>10
<1>12. Turns(turn, source, count)
    BY <1>9, <1>11 DEF Turns, After, start, n
<1> QED
    BY <1>4, <1>12 DEF n

\* What holds after a turn, of what has been got of the whole: the loop has ended,
\* or it has all it wants, or it has taken each piece so far and the others are left.
Ended(loop, count) == loop.ends /\ (Len(loop.got) = count \/ Last(loop.got) = "newline")
Full(loop, count) == ~loop.ends /\ Len(loop.got) = count
Fresh(loop, source, at, k) ==
    ~loop.ends /\ loop.source = SubSeq(source, k + 1, Len(source)) /\ loop.got = at[k]

Reads(loop, source, count, at, k) ==
    /\ Begins(loop.got, at[Len(source)]) /\ Len(loop.got) <= count
    /\ Ended(loop, count) \/ Full(loop, count) \/ Fresh(loop, source, at, k)

\* A turn that takes something.
LEMMA TurnReads ==
    ASSUME NEW source \in Seq(Seq(Text)), NEW count \in Nat, NEW at, Joined(at, source),
           NEW k \in 1 .. Len(source), NEW loop \in Loops, Reads(loop, source, count, at, k - 1)
    PROVE  Reads(ReadTurn(loop, count), source, count, at, k)
<1> DEFINE n == Len(source)
           now == ReadTurn(loop, count)
           all == at[n]
<1>0. /\ n \in Nat /\ k \in 1 .. n /\ k \in 0 .. n /\ k - 1 \in 0 .. n /\ n \in 0 .. n
      /\ loop.source \in Seq(Seq(Text)) /\ loop.got \in Seq(Text)
      /\ Len(loop.got) \in Nat
    BY DEF Loops
<1>1. Begins(loop.got, all) /\ Len(loop.got) <= count
    BY DEF Reads
<1>2. CASE Ended(loop, count)
  <2>1. now = loop
    BY <1>2, TurnIs DEF Ended
  <2> QED
    BY <1>1, <1>2, <2>1 DEF Reads
<1>3. CASE ~loop.ends /\ Len(loop.got) >= count
  <2>1. now = [loop EXCEPT !.ends = TRUE]
    BY <1>3, TurnIs
  <2>2. now.ends /\ now.got = loop.got
    BY <2>1 DEF Loops
  <2>3. Len(loop.got) = count
    BY <1>0, <1>1, <1>3
  <2>4. Ended(now, count)
    BY <2>2, <2>3 DEF Ended
  <2> QED
    BY <1>1, <2>2, <2>4 DEF Reads
<1>4. CASE ~loop.ends /\ Len(loop.got) < count
  <2>1. loop.source = SubSeq(source, k, n) /\ loop.got = at[k - 1]
    <3>1. ~Ended(loop, count)
        BY <1>4 DEF Ended
    <3>2. ~Full(loop, count)
        BY <1>0, <1>4 DEF Full
    <3>3. Fresh(loop, source, at, k - 1)
        BY <3>1, <3>2 DEF Reads
    <3>4. k - 1 + 1 = k
        BY <1>0
    <3> QED
        BY <3>3, <3>4 DEF Fresh
  <2>2. /\ loop.source # << >> /\ loop.source[1] = source[k]
        /\ Tail(loop.source) = SubSeq(source, k + 1, n)
    <3> HIDE DEF n
    <3>1. Len(loop.source) = n - k + 1 /\ loop.source[1] = source[k]
        BY <1>0, <2>1 DEF n
    <3>2. Tail(SubSeq(source, k, n)) = SubSeq(source, k + 1, n)
        BY <1>0, HeadTailOfSubSeq DEF n
    <3>3. loop.source # << >>
      <4> DEFINE left == loop.source
      <4>1. Len(left) # 0
          BY <1>0, <3>1
      <4> HIDE DEF left
      <4>2. left # << >>
          BY <4>1
      <4> QED
          BY <4>2 DEF left
    <3> QED
        BY <2>1, <3>1, <3>2, <3>3
  <2> DEFINE m == count - Len(loop.got)
             ret == KernelRead(loop.source, m)
             rest == Rest(loop.source, m)
             got == loop.got \o ret
             ends == ret # << >> /\ Last(ret) = "newline"
  <2>3. now = [source |-> rest, got |-> got, ends |-> ends]
    BY <1>4, TurnIs DEF More
  <2>4. m \in Nat \ {0} /\ Len(loop.got) + m = count
    BY <1>0, <1>4
  <2>5. /\ ret \in Seq(Text) /\ Len(ret) <= m /\ Begins(ret, source[k]) /\ rest \in Seq(Seq(Text))
        /\ Len(ret) = m \/ (ret = source[k] /\ rest = SubSeq(source, k + 1, n))
    BY <1>0, <2>2, <2>4, PieceTaken
  <2>6. at[k] = at[k - 1] \o source[k] /\ at[k] \in Seq(Text) /\ all \in Seq(Text)
        /\ source[k] \in Seq(Text) /\ Begins(at[k], all)
    <3>1. at[k] = at[k - 1] \o source[k] /\ at \in [0 .. n -> Seq(Text)]
        BY <1>0 DEF Joined
    <3>2. Begins(at[k], all)
        BY <1>0, JoinedBegins
    <3>3. source[k] \in Seq(Text)
        BY <1>0
    <3> QED
        BY <1>0, <3>1, <3>2, <3>3
  <2> HIDE DEF m, ret, rest, n, all, now
  <2>7. got \in Seq(Text) /\ Len(got) = Len(loop.got) + Len(ret)
        /\ (ret # << >> => Last(got) = Last(ret))
    <3>1. Len(ret) \in Nat
        BY <2>5
    <3>2. got \in Seq(Text) /\ Len(got) = Len(loop.got) + Len(ret)
        BY <1>0, <2>5, ConcatProperties
    <3>3. ret # << >> => got[Len(loop.got) + Len(ret)] = ret[Len(ret)]
        BY <1>0, <2>5, <3>1
    <3> QED
        BY <3>2, <3>3 DEF Last
  <2>8. Begins(got, all)
    <3>1. Begins(got, at[k])
        BY <1>0, <2>1, <2>5, <2>6, BeginsMore
    <3> QED
        BY <2>6, <2>7, <3>1, BeginsThrough
  <2>9. Len(got) <= count
    <3>1. Len(ret) \in Nat
        BY <2>5
    <3> QED
        BY <1>0, <2>4, <2>5, <2>7, <3>1
  <2> HIDE DEF got, ends
  <2>10. now.source = rest /\ now.got = got /\ now.ends = ends
    BY <2>3
  <2>11. CASE ends
    <3>1. Last(got) = "newline"
        BY <2>7, <2>11 DEF ends
    <3>2. Ended(now, count)
        BY <2>10, <2>11, <3>1 DEF Ended
    <3> QED
        BY <2>8, <2>9, <2>10, <3>2 DEF Reads, all, n, now
  <2>12. CASE ~ends
    <3>1. CASE Len(ret) = m
      <4>1. Len(got) = count
          BY <2>4, <2>7, <3>1
      <4>2. Full(now, count)
          BY <2>10, <2>12, <4>1 DEF Full
      <4> QED
          BY <2>8, <2>9, <2>10, <4>2 DEF Reads, all, n, now
    <3>2. CASE ret = source[k] /\ rest = SubSeq(source, k + 1, n)
      <4>1. got = at[k]
          BY <2>1, <2>6, <3>2 DEF got
      <4>2. Fresh(now, source, at, k)
          BY <2>10, <2>12, <3>2, <4>1 DEF Fresh, n
      <4> QED
          BY <2>8, <2>9, <2>10, <4>2 DEF Reads, all, n, now
    <3> QED
        BY <2>5, <3>1, <3>2
  <2> QED
    BY <2>11, <2>12 DEF now
<1>5. ~Ended(loop, count) => ~loop.ends
    BY DEF Reads, Ended, Full, Fresh
<1>6. Len(loop.got) >= count \/ Len(loop.got) < count
    BY <1>0
<1> QED
    BY <1>2, <1>3, <1>4, <1>5, <1>6

\* read() in its own loop, of any source.
LEMMA LoopReads ==
    ASSUME NEW source \in Seq(Seq(Text)), NEW count \in Nat
    PROVE  LET loop == ReadLoop(source, count)
               all == FlattenSeq(source)
           IN  /\ loop.got \in Seq(Text) /\ IsPrefix(loop.got, all) /\ Len(loop.got) <= count
               /\ loop.ends => Len(loop.got) = count \/ Last(loop.got) = "newline"
               /\ ~loop.ends => loop.got = all /\ Len(all) < count
<1> DEFINE n == Len(source)
           all == FlattenSeq(source)
<1>0. n \in Nat /\ n + 1 \in 1 .. n + 1 /\ n + 1 - 1 = n /\ n \in 0 .. n /\ 0 \in 0 .. n
    OBVIOUS
<1>1. PICK at : Joined(at, source)
    BY JoinedIsThere
<1>2. all = at[n] /\ all \in Seq(Text)
  <2>1. all = at[n]
    BY <1>1, JoinedIsAll
  <2>2. at \in [0 .. n -> Seq(Text)]
    BY <1>1 DEF Joined
  <2> QED
    BY <1>0, <2>1, <2>2
<1>3. PICK turn : Turns(turn, source, count) /\ ReadLoop(source, count) = turn[n + 1]
    BY TurnsAreThere
<1>4. /\ turn \in [0 .. n + 1 -> Loops]
      /\ turn[0] = [source |-> source, got |-> << >>, ends |-> FALSE]
      /\ \A k \in 1 .. n + 1 : turn[k] = ReadTurn(turn[k - 1], count)
    BY <1>3 DEF Turns
<1> DEFINE T == {k \in 0 .. n : Reads(turn[k], source, count, at, k)}
<1>5. 0 \in T
  <2> DEFINE loop == turn[0]
  <2>1. loop.source = source /\ loop.got = << >> /\ ~loop.ends
    BY <1>4
  <2>2. SubSeq(source, 1, Len(source)) = source
    BY SubSeqFull
  <2>3. at[0] = << >> /\ 0 + 1 = 1
    BY <1>1 DEF Joined
  <2>4. Fresh(loop, source, at, 0)
    BY <2>1, <2>2, <2>3 DEF Fresh
  <2>5. Begins(<< >>, at[n])
    <3>1. Begins(at[0], at[n])
        BY <1>0, <1>1, JoinedBegins
    <3> QED
        BY <2>3, <3>1
  <2> HIDE DEF loop
  <2>6. Len(loop.got) <= count
    BY <2>1
  <2>7. Reads(loop, source, count, at, 0)
    BY <2>1, <2>4, <2>5, <2>6 DEF Reads
  <2> QED
    BY <1>0, <2>7 DEF loop
<1>6. ASSUME NEW k \in 1 .. n, k - 1 \in T
      PROVE  k \in T
  <2>1. k \in 0 .. n /\ k - 1 \in 0 .. n + 1 /\ k \in 1 .. n + 1
    BY <1>0
  <2>2. turn[k - 1] \in Loops /\ turn[k] = ReadTurn(turn[k - 1], count)
    BY <1>4, <2>1
  <2>3. Reads(turn[k - 1], source, count, at, k - 1)
    BY <1>6
  <2>4. Reads(ReadTurn(turn[k - 1], count), source, count, at, k)
    BY <1>1, <2>2, <2>3, TurnReads
  <2>5. Reads(turn[k], source, count, at, k)
    BY <2>2, <2>4
  <2> QED
    BY <2>1, <2>5
<1>7. \A k \in 0 .. n : k \in T
  <2> HIDE DEF T, n
  <2> QED
    BY <1>0, <1>5, <1>6, UpTo
<1> DEFINE loop == turn[n]
           end == turn[n + 1]
<1>8. Reads(loop, source, count, at, n) /\ loop \in Loops /\ end = ReadTurn(loop, count)
  <2>1. n \in T
    BY <1>0, <1>7
  <2>2. n \in 0 .. n + 1
    BY <1>0
  <2>3. turn[n + 1] = ReadTurn(turn[n + 1 - 1], count)
    BY <1>0, <1>4
  <2> QED
    BY <1>0, <1>4, <2>1, <2>2, <2>3
<1> HIDE DEF T, loop, end
<1>9. /\ loop.got \in Seq(Text) /\ Len(loop.got) \in Nat /\ loop.source \in Seq(Seq(Text))
      /\ Begins(loop.got, all) /\ Len(loop.got) <= count
      /\ Ended(loop, count) \/ Full(loop, count) \/ Fresh(loop, source, at, n)
    BY <1>2, <1>8 DEF Reads, Loops
<1> DEFINE Good(x) == /\ x.got \in Seq(Text) /\ IsPrefix(x.got, all) /\ Len(x.got) <= count
                      /\ x.ends => Len(x.got) = count \/ Last(x.got) = "newline"
                      /\ ~x.ends => x.got = all /\ Len(all) < count
<1> HIDE DEF all
<1>10. IsPrefix(loop.got, all)
    BY <1>2, <1>9, BeginsIsPrefix
<1>11. CASE Ended(loop, count)
  <2>1. end = loop
    BY <1>8, <1>11, TurnIs DEF Ended
  <2> QED
    BY <1>3, <1>9, <1>10, <1>11, <2>1 DEF Ended, end, all
<1>12. CASE ~loop.ends /\ Len(loop.got) >= count
  <2>1. end = [loop EXCEPT !.ends = TRUE]
    BY <1>8, <1>12, TurnIs
  <2>2. end.ends /\ end.got = loop.got
    BY <1>8, <2>1 DEF Loops
  <2>3. Len(loop.got) = count
    BY <1>9, <1>12
  <2> QED
    BY <1>3, <1>9, <1>10, <2>2, <2>3 DEF end, all
<1>13. CASE ~loop.ends /\ Len(loop.got) < count
  <2>1. loop.source = SubSeq(source, n + 1, n) /\ loop.got = all
    <3>1. ~Ended(loop, count) /\ ~Full(loop, count)
        BY <1>9, <1>13 DEF Ended, Full
    <3> QED
        BY <1>2, <1>9, <3>1 DEF Fresh
  <2>2. loop.source = << >>
    BY <2>1
  <2>3. end = More(loop, count)
    BY <1>8, <1>13, TurnIs
  <2> DEFINE m == count - Len(loop.got)
             ret == KernelRead(loop.source, m)
             got == loop.got \o ret
             ends == ret # << >> /\ Last(ret) = "newline"
             rest == Rest(loop.source, m)
  <2>4. end = [source |-> rest, got |-> got, ends |-> ends]
    BY <2>3 DEF More
  <2>5. ret = << >>
    BY <2>2, NothingTaken, Zenon
  <2> HIDE DEF ret, rest, m
  <2>6. got = loop.got
    BY <1>9, <2>5
  <2>7. ~ends
    BY <2>5
  <2> HIDE DEF got, ends
  <2>8. end.got = got /\ end.ends = ends
    BY <2>4
  <2> QED
    BY <1>3, <1>9, <1>10, <1>13, <2>1, <2>6, <2>7, <2>8 DEF end, all
<1> QED
    BY <1>9, <1>11, <1>12, <1>13 DEF Ended, Full, Fresh

\* A program reads.
Sources == UNION {[1 .. n -> Chunks] : n \in 0 .. MaxFound}

ReadTextCalled == \E source \in Sources, count \in ReadRoom, fails \in BOOLEAN :
    /\ call = [fn |-> "read", source |-> source, count |-> count, fails |-> fails]
    /\ answer = unistd_read(source, count, fails)

\* It gets the beginning of what there is to read.
LEMMA ReadTextIsExact == ReadTextCalled => MachineExact
<1> SUFFICES ASSUME ReadTextCalled
             PROVE  MachineExact
    OBVIOUS
<1>0. PICK source \in Sources, count \in ReadRoom, fails \in BOOLEAN :
        /\ call = [fn |-> "read", source |-> source, count |-> count, fails |-> fails]
        /\ answer = unistd_read(source, count, fails)
    BY DEF ReadTextCalled
<1>1. call.fn = "read" /\ call.source = source /\ call.count = count
    BY <1>0
<1>2. source \in Seq(Seq(Text)) /\ count \in Nat
  <2>1. MaxFound \in Nat /\ MaxChunk \in Nat /\ count \in Nat
    BY SystemCallsAssumption
  <2>2. \A c \in Chunks : c \in Seq(Text)
    BY <2>1 DEF Chunks, Text
  <2>3. PICK n \in 0 .. MaxFound : source \in [1 .. n -> Chunks]
    BY DEF Sources
  <2>4. n \in Nat
    BY <2>1
  <2>5. source \in [1 .. n -> Seq(Text)]
    BY <2>2, <2>3
  <2> QED
    BY <2>1, <2>4, <2>5
<1> DEFINE loop == ReadLoop(source, count)
           all == FlattenSeq(source)
<1>3. answer = IF fails /\ count > 0 THEN [ends |-> TRUE, got |-> << >>, ret |-> -1]
               ELSE [ends |-> loop.ends, got |-> loop.got, ret |-> Len(loop.got)]
    BY <1>0 DEF unistd_read
<1>4. /\ IsPrefix(loop.got, all) /\ Len(loop.got) <= count
      /\ loop.ends => Len(loop.got) = count \/ Last(loop.got) = "newline"
      /\ ~loop.ends => loop.got = all /\ Len(all) < count
    BY <1>2, LoopReads
<1> HIDE DEF loop, all
<1>5. ReadsInOrder
  <2>1. CASE fails /\ count > 0
    <3>1. answer.ret = -1
        BY <1>3, <2>1
    <3>2. ~(answer.ret >= 0)
        BY <3>1
    <3> QED
        BY <3>2 DEF ReadsInOrder
  <2>2. CASE ~(fails /\ count > 0)
    <3>1. answer.ends = loop.ends /\ answer.got = loop.got
        BY <1>3, <2>2
    <3> QED
        BY <1>1, <1>4, <3>1 DEF ReadsInOrder, all
  <2> QED
    BY <2>1, <2>2
<1>6. SystemCallsExact
    BY <1>1, <1>5 DEF SystemCallsExact, CallsArrive, PersonalitiesTrue, BreakMoves, Called
<1> QED
    BY <1>1, <1>6, BootQuiet, BusQuiet DEF MachineExact

\* Calls about which nothing is said: compat64, writing, mapping.
OtherCalled == call.fn \in {"compat64", "write", "map"}

\* Nothing is to be shown for them.
LEMMA OtherIsExact == OtherCalled => MachineExact
BY BootQuiet, BusQuiet, SystemCallsQuiet DEF OtherCalled, MachineExact

\* Every call of the model is one of those.
MachineInv ==
    \/ call = NoCall \/ OtherCalled
    \/ InterruptCalled \/ ElfThunkCalled \/ BridgeCalled \/ SplashCalled \/ WalkCalled
    \/ WriteCalled \/ ReadCalled \/ FindCalled
    \/ NativeCalled \/ UnknownCalled \/ PersonalityCalled \/ BreakCalled \/ ReadTextCalled

\* For any modules of the boot loader, screen, registers and devices on the bus, and
\* any text that a program reads: an interrupt handler finds the frame it expects,
\* the kernel the boot information and the first device of a class, half a register is
\* written without the other, and a system call reaches its function with its
\* parameters and gets what comes first (interrupt.asm, itdo.asm, limine_boot.c,
\* pci.c, syscalls.c, compat.c, unistd.h).
THEOREM MachineTrue == MachineSpec => []MachineExact
<1>1. InvocationInit => MachineInv
    BY DEF InvocationInit, MachineInv
<1>2. MachineInv /\ [MachineNext]_invocationVars => MachineInv'
  <2> SUFFICES ASSUME MachineInv, [MachineNext]_invocationVars
               PROVE  MachineInv'
    OBVIOUS
  <2>1. BootNext => MachineInv'
    <3>1. Interrupt => InterruptCalled'
        BY DEF Interrupt, InterruptCalled, Invoked
    <3>2. CallElf32 => ElfThunkCalled'
        BY DEF CallElf32, ElfThunkCalled, Invoked
    <3>3. CallCompat64 => OtherCalled'
        BY DEF CallCompat64, OtherCalled, Invoked
    <3>4. limine_boot_init => BridgeCalled'
      <4> SUFFICES ASSUME limine_boot_init
                   PROVE  BridgeCalled'
          OBVIOUS
      <4>1. PICK count \in 0 .. 1, address \in BOOLEAN, bpp \in {16, 24, 32}, list \in ModLists :
              Invoked([fn |-> "bridge", list |-> list],
                      [fb |-> bridge_framebuffer([count |-> count, address |-> address, bpp |-> bpp]),
                       mods |-> bridge_modules(list),
                       initrd |-> initrd_location(bridge_modules(list))])
          BY DEF limine_boot_init
      <4> DEFINE resp == [count |-> count, address |-> address, bpp |-> bpp]
      <4>2. resp \in Screens
          BY DEF Screens
      <4> HIDE DEF resp
      <4> QED
          BY <4>1, <4>2 DEF BridgeCalled, Invoked, resp
    <3>5. Splash => SplashCalled'
        BY DEF Splash, SplashCalled, Invoked
    <3>6. Walk => WalkCalled'
        BY DEF Walk, WalkCalled, Invoked
    <3> QED
        BY <3>1, <3>2, <3>3, <3>4, <3>5, <3>6 DEF BootNext, MachineInv
  <2>2. PciNext => MachineInv'
    <3>1. pci_read => ReadCalled'
        BY DEF pci_read, ReadCalled, Invoked
    <3>2. pci_write16 => WriteCalled'
        BY DEF pci_write16, WriteCalled, Invoked
    <3>3. pci_find_class => FindCalled'
        BY DEF pci_find_class, FindCalled, Invoked
    <3> QED
        BY <3>1, <3>2, <3>3 DEF PciNext, MachineInv
  <2>3. SystemCallsNext => MachineInv'
    <3>1. NativeCall => NativeCalled'
        BY DEF NativeCall, NativeCalled, Invoked
    <3>2. NoCallThere => UnknownCalled'
        BY DEF NoCallThere, UnknownCalled, Invoked
    <3>3. PersonalityCall => PersonalityCalled'
        BY DEF PersonalityCall, PersonalityCalled, Invoked
    <3>4. WriteText => OtherCalled'
        BY DEF WriteText, OtherCalled, Invoked
    <3>5. MoveBreak => BreakCalled'
        BY DEF MoveBreak, BreakCalled, Invoked
    <3>6. MapMemory => OtherCalled'
        BY DEF MapMemory, OtherCalled, Invoked
    <3>7. ReadText => ReadTextCalled'
        BY DEF ReadText, ReadTextCalled, Sources, Invoked
    <3> QED
        BY <3>1, <3>2, <3>3, <3>4, <3>5, <3>6, <3>7 DEF SystemCallsNext, MachineInv
  <2>4. CASE UNCHANGED invocationVars
    <3>1. call' = call /\ answer' = answer
        BY <2>4 DEF invocationVars
    <3>2. /\ (call = NoCall => (call = NoCall)') /\ (OtherCalled => OtherCalled')
          /\ (InterruptCalled => InterruptCalled') /\ (ElfThunkCalled => ElfThunkCalled')
          /\ (BridgeCalled => BridgeCalled') /\ (SplashCalled => SplashCalled')
        BY <3>1, Zenon DEF OtherCalled, InterruptCalled, ElfThunkCalled, BridgeCalled, SplashCalled
    <3>3. /\ (WriteCalled => WriteCalled') /\ (ReadCalled => ReadCalled') /\ (FindCalled => FindCalled')
        BY <3>1, Zenon DEF WriteCalled, ReadCalled, FindCalled
    <3>4. /\ (NativeCalled => NativeCalled') /\ (UnknownCalled => UnknownCalled')
          /\ (PersonalityCalled => PersonalityCalled') /\ (BreakCalled => BreakCalled')
          /\ (ReadTextCalled => ReadTextCalled')
        BY <3>1, Zenon DEF NativeCalled, UnknownCalled, PersonalityCalled, BreakCalled, ReadTextCalled
    <3>5. WalkCalled => WalkCalled'
        BY <3>1, Zenon DEF WalkCalled
    <3> QED
        BY <3>2, <3>3, <3>4, <3>5, Zenon DEF MachineInv
  <2> QED
    BY <2>1, <2>2, <2>3, <2>4 DEF MachineNext
<1>3. MachineInv => MachineExact
  <2>1. call = NoCall => MachineExact
    BY BootQuiet, BusQuiet, SystemCallsQuiet DEF NoCall, MachineExact
  <2> QED
    BY <2>1, OtherIsExact, InterruptIsExact, ElfThunkIsExact, BridgeIsExact, SplashIsExact, WalkIsExact,
       WriteIsExact, ReadIsExact, FindIsExact, NativeIsExact, UnknownIsExact, PersonalityIsExact,
       BreakIsExact, ReadTextIsExact DEF MachineInv
<1> QED
    BY <1>1, <1>2, <1>3, PTL DEF MachineSpec

=============================================================================
