-------------------------------- MODULE Files --------------------------------
(***************************************************************************)
(* The file system calls, src/lib/syscalls.c, over the switch of           *)
(* src/fs/fs.c and the ramdisk of src/fs/initrd.c.                         *)
(*                                                                         *)
(* There is one table of open files for all programs.  A program passes    *)
(* the descriptors open() returned to it and names that are not empty; it  *)
(* cannot close.  A call is one step: it runs with the caller's task on    *)
(* the CPU and does not yield.  Of the data only positions are kept: byte  *)
(* i of a file, entry i of a directory.  No node has a write callback.     *)
(* The names of root_nodes end where those of the headers do: strcpy()     *)
(* writes no terminator, the fresh memory of the nodes must hold zeros.    *)
(* Two limits of open() are not tested by the code and not reached here:   *)
(* files has 16384 slots and nothing closes one, and malloc() may fail.    *)
(***************************************************************************)
EXTENDS Integers, Sequences, FiniteSets

CONSTANTS
    Program,      \* the programs that make calls
    FileName,     \* the names in the ramdisk's headers, in order
    FileLength,   \* the lengths in the headers
    Path,         \* the names programs ask for
    Image,        \* the files that are ELF images, by inode
    TableSize,    \* the slots of files; bound of the model: never exceeded
    MaxHeld,      \* bound of the model: descriptors programs hold, in all
    ReadSize,     \* bound of the model: the numbers of bytes asked for
    DirRoom       \* bound of the model: how many entries fit a getdents() buffer

ASSUME FilesAssumption ==
    /\ FileLength \in Seq(Nat) /\ Len(FileName) = Len(FileLength)
    /\ Image \subseteq 0 .. Len(FileName) - 1
ASSUME TableAssumption == TableSize \in Nat /\ TableSize > 5 /\ MaxHeld \in Nat
ASSUME SizesAssumption == ReadSize \subseteq Nat /\ DirRoom \subseteq Nat

VARIABLES
    erased,       \* the nodes of root_nodes that initrd_remove() zeroed
    nroot_nodes,
    files,        \* the node and position of each open file
    current_fd,
    faulted,      \* a system call went through a NULL pointer or panicked
    mine,         \* what each program got through each descriptor it holds
    wiped,        \* the descriptors programs hold that exec() has cleared
    ended,        \* the others whose last call said there is no more
    cramped       \* those of them whose last call had no room for anything

vars == <<erased, nroot_nodes, files, current_fd, faulted, mine, wiped,
          ended, cramped>>
histVars == <<mine, wiped, ended, cramped>>
diskVars == <<erased, nroot_nodes>>

Inode == 0 .. Len(FileName) - 1
Root == -1
Dev == -2
Node == Inode \cup {Root, Dev}
Fd == 0 .. TableSize - 1
NotFound == -3
NotOpen == [node |-> NotFound, pos |-> 0]

-----------------------------------------------------------------------------
(* The ramdisk. *)

IsDirectory(n) == n \in {Root, Dev}
Length(i) == FileLength[i + 1]

\* The nodes of that name.
Hits(name) == {i \in Inode : i < nroot_nodes /\ i \notin erased /\ FileName[i + 1] = name}

\* initrd_finddir() of the root directory.
finddir(name) ==
    IF name = "dev" THEN Dev
    ELSE IF name = "initrd" THEN Root
    ELSE IF Hits(name) = {} THEN NotFound
    ELSE CHOOSE i \in Hits(name) : \A j \in Hits(name) : i <= j

\* Faulty variant: the request is not cut at the end of the file.
initrd_read_Uncut(i, offset, size) ==
    IF i \in erased \/ offset > Length(i) THEN 0 ELSE size

\* How many bytes initrd_read() copies; an erased node has no callback.
initrd_read(i, offset, size) ==
    IF i \in erased \/ offset > Length(i) THEN 0
    ELSE IF offset + size > Length(i) THEN Length(i) - offset
    ELSE size

\* Faulty variant: the entry for /dev is not counted.
readdir_LastMissing(n, index) == n = Root /\ (index = 0 \/ index < nroot_nodes)

\* initrd_readdir() has an entry at index.  In /dev, index - 1 wraps around at
\* the very first entry.
readdir(n, index) ==
    \/ n = Root /\ index = 0
    \/ index > 0 /\ index - 1 < nroot_nodes

-----------------------------------------------------------------------------
(* The calls. *)

Holds(p, fd) == fd \in DOMAIN mine[p]

\* Program p gets the items first .. first + n - 1 through fd; what it gets
\* through a descriptor that was cleared is not kept.
Gets(p, fd, first, n) ==
    IF <<p, fd>> \in wiped THEN UNCHANGED mine
    ELSE mine' = [mine EXCEPT ![p][fd].got = @ \o [i \in 1 .. n |-> first + i - 1]]

\* The call returned 0, and there was no room for as much as one item.
EndSeen(p, fd, end, none) ==
    /\ ended' = IF end THEN ended \cup ({<<p, fd>>} \ wiped) ELSE ended \ {<<p, fd>>}
    /\ cramped' = IF none THEN cramped \cup ({<<p, fd>>} \ wiped) ELSE cramped \ {<<p, fd>>}

Held == UNION {{<<p, fd>> : fd \in DOMAIN mine[p]} : p \in Program}

\* Faulty variant: the descriptor is not used up.
NextFd_Same == UNCHANGED current_fd

NextFd == current_fd' = current_fd + 1

open(p, name) ==
    /\ current_fd < TableSize /\ Cardinality(Held) < MaxHeld
    /\ finddir(name) # NotFound
    /\ files' = [files EXCEPT ![current_fd] = [node |-> finddir(name), pos |-> 0]]
    /\ mine' = [mine EXCEPT ![p] =
            [fd \in DOMAIN @ \cup {current_fd} |->
                IF fd = current_fd THEN [node |-> finddir(name), got |-> << >>] ELSE @[fd]]]
    /\ NextFd
    /\ wiped' = wiped \ {<<p, current_fd>>}
    /\ ended' = ended \ {<<p, current_fd>>}
    /\ cramped' = cramped \ {<<p, current_fd>>}
    /\ UNCHANGED <<diskVars, faulted>>

\* Faulty variant: the position moves by what was asked for.
Advance_Asked(fd, asked, ret) == files' = [files EXCEPT ![fd].pos = @ + asked]

Advance(fd, asked, ret) == files' = [files EXCEPT ![fd].pos = @ + ret]

\* read() of a file.  Of a cleared descriptor or of a directory it returns -1.
\* Asked for nothing, it returns 0 as it does at the end.
read(p, fd, nbytes) ==
    /\ Holds(p, fd)
    /\ files[fd] # NotOpen /\ ~IsDirectory(files[fd].node)
    /\ LET f == files[fd]
           ret == initrd_read(f.node, f.pos, nbytes)
       IN  /\ Gets(p, fd, f.pos, ret)
           /\ Advance(fd, nbytes, ret)
           /\ EndSeen(p, fd, ret = 0, nbytes = 0)
    /\ UNCHANGED <<diskVars, current_fd, faulted, wiped>>

\* getdents() into a buffer with room for so many entries.  Without room for
\* one it returns 0 as it does at the end.  Of a file it returns -2.
getdents(p, fd, room) ==
    /\ Holds(p, fd)
    /\ files[fd] # NotOpen /\ IsDirectory(files[fd].node)
    /\ LET f == files[fd]
           there == {k \in 0 .. room - 1 : \A i \in 0 .. k : readdir(f.node, f.pos + i)}
           n == Cardinality(there)
       IN  /\ Gets(p, fd, f.pos, n)
           /\ files' = [files EXCEPT ![fd].pos = @ + n]
           /\ EndSeen(p, fd, n = 0, room = 0)
    /\ UNCHANGED <<diskVars, current_fd, faulted, wiped>>

\* getdents() does not test the descriptor: the fault returns to the same
\* instruction for ever.
getdents_fault(p, fd) ==
    /\ Holds(p, fd)
    /\ files[fd] = NotOpen
    /\ faulted' = TRUE
    /\ UNCHANGED <<diskVars, files, current_fd, histVars>>

\* The nodes initrd_remove() reaches: the list it goes through gets shorter
\* with each node of that name it has met.
Removed(name) ==
    {i \in Hits(name) : i + Cardinality({j \in Hits(name) : j < i}) < nroot_nodes}

\* unlink(): the nodes are zeroed and the list is shortened, whose last nodes
\* can no longer be reached.  It reports failure in any case.
unlink(name) ==
    /\ Removed(name) # {}
    /\ erased' = erased \cup Removed(name)
    /\ nroot_nodes' = nroot_nodes - Cardinality(Removed(name))
    /\ UNCHANGED <<files, current_fd, faulted, histVars>>

\* Faulty variant: only the counter starts anew.
Cleared_Not(pts) == files

\* The table after exec(): empty, but for three descriptors of pts if the
\* ramdisk has such a file.
Cleared(pts) ==
    [fd \in Fd |-> IF pts # NotFound /\ fd \in 2 .. 4
                   THEN [node |-> pts, pos |-> 0] ELSE NotOpen]

\* exec() of a file that loads, whether or not the scheduler has a slot for
\* the new task.  When the file is missing, or is an image but there is no
\* memory for its segments, nothing changes.
exec(name) ==
    /\ finddir(name) \in Image
    /\ LET pts == finddir("pts")
       IN  /\ files' = Cleared(pts)
           /\ current_fd' = IF pts = NotFound THEN 2 ELSE 5
    /\ wiped' = Held
    /\ ended' = {} /\ cramped' = {}
    /\ UNCHANGED <<diskVars, faulted, mine>>

\* exec() of anything else: is_image_valid() asserts, and the machine stops.
exec_panics(name) ==
    /\ finddir(name) \in Node \ Image
    /\ faulted' = TRUE
    /\ UNCHANGED <<diskVars, files, current_fd, histVars>>

-----------------------------------------------------------------------------
Init ==
    /\ erased = {}
    /\ nroot_nodes = Len(FileName)
    /\ files = [fd \in Fd |-> NotOpen]
    /\ current_fd = 2
    /\ faulted = FALSE
    /\ mine = [p \in Program |-> [fd \in {} |-> NotOpen]]
    /\ wiped = {}
    /\ ended = {}
    /\ cramped = {}

Call(p) ==
    \/ \E name \in Path : open(p, name)
    \/ \E fd \in Fd, nbytes \in ReadSize : read(p, fd, nbytes)
    \/ \E fd \in Fd, room \in DirRoom : getdents(p, fd, room)
    \/ \E fd \in Fd : getdents_fault(p, fd)
    \/ \E name \in Path : unlink(name)
    \/ \E name \in Path : exec(name)
    \/ \E name \in Path : exec_panics(name)

Next == ~faulted /\ \E p \in Program : Call(p)

Spec == Init /\ [][Next]_vars

-----------------------------------------------------------------------------
(* Properties. *)

\* The types of the variables; no position is beyond the end of its file.
TypeOK ==
    /\ erased \subseteq Inode
    /\ nroot_nodes \in 0 .. Len(FileName)
    /\ files \in [Fd -> [node : Node, pos : Nat] \cup {NotOpen}]
    /\ \A fd \in Fd : files[fd].node \in Inode => files[fd].pos <= Length(files[fd].node)
    /\ current_fd \in 2 .. TableSize
    /\ faulted \in BOOLEAN
    /\ \A p \in Program : DOMAIN mine[p] \subseteq Fd
    /\ wiped \cup ended \cup cramped \subseteq Program \X Fd

\* The descriptors below current_fd are open, the others are not, through
\* every clearing of the table: open() never overwrites an open file.
TableDense ==
    /\ TypeOK
    /\ \A fd \in Fd : files[fd] # NotOpen <=> fd \in 2 .. current_fd - 1

\* Descriptor fd stands for what p opened, and p got all of it up to the
\* current position: nothing twice, nothing skipped, nothing of another file.
Faithful(p, fd) ==
    /\ files[fd].node = mine[p][fd].node
    /\ files[fd].pos = Len(mine[p][fd].got)
    /\ \A i \in 1 .. Len(mine[p][fd].got) : mine[p][fd].got[i] = i - 1

Alone(p, fd) == \A q \in Program : Holds(q, fd) => q = p

\* A descriptor is faithful while exec() has not cleared it and no other
\* program holds the same number from before a call of exec().
OwnDescriptors ==
    \A p \in Program : \A fd \in DOMAIN mine[p] :
        <<p, fd>> \notin wiped /\ Alone(p, fd) => Faithful(p, fd)

\* When a call that had room for something says there is no more, the program
\* has got the whole file, or the list of all files, unless something was
\* removed.
EndMeansAll ==
    \A p \in Program : \A fd \in DOMAIN mine[p] :
        LET m == mine[p][fd] IN
        <<p, fd>> \in ended \ cramped /\ Alone(p, fd) =>
            \/ m.node = Root /\ (erased # {} \/ Len(m.got) = Len(FileName) + 1)
            \/ m.node = Dev
            \/ m.node \in Inode /\ (m.node \in erased \/ Len(m.got) = Length(m.node))

\* exec() clears the table of the new program: every descriptor a program has
\* opened goes on standing for the file it was opened for.
DescriptorsKept == \A p \in Program : \A fd \in DOMAIN mine[p] : Faithful(p, fd)

=============================================================================
