-------------------------------- MODULE Loader --------------------------------
(***************************************************************************)
(* Programs on their way into memory: src/fs/loader.c for ELF images and   *)
(* the Mach-O part of src/kernel/compat.c.                                 *)
(*                                                                         *)
(* Memory is counted in cells, and the buffer of the program begins at 0:  *)
(* a cell below or behind the buffer belongs to somebody else and holds    *)
(* Other.  A file is not empty anywhere: its cell at offset o holds o + 1. *)
(* Buffer is the address of the buffer, for the words a relocation writes. *)
(***************************************************************************)
EXTENDS Integers, Sequences, FiniteSetsExt, Invocation

CONSTANTS
    Page,          \* 0x1000, in cells
    Buffer,        \* the address malloc() gave
    Reach,         \* bound of the model: how far behind the buffer is looked
    VAddrs,        \* bound of the model: the addresses of segments
    FileSize,      \* bound of the model: the size of the file
    Slack,         \* 0x10000 of macho_load64(), in cells
    FileOffsets,   \* bounds of the model: the places and sizes of segments in
    FileSizes,     \* the file, their sizes in memory, the number of segments of
    MemSizes,      \* an image, and the length of code that is patched
    MaxSegments,
    MaxCode

ASSUME LoaderAssumption ==
    /\ Page \in Nat \ {0} /\ Buffer \in Int /\ Reach \in Nat
    /\ FileSize \in Nat /\ Slack \in Nat
    /\ VAddrs \subseteq Nat /\ FileOffsets \subseteq Nat
    /\ FileSizes \subseteq Nat /\ MemSizes \subseteq Nat
    /\ MaxSegments \in Nat /\ MaxCode \in Nat

Other == -1
Nothing == [result |-> "null", entry |-> 0, memory |-> <<>>, freed |-> FALSE]

FileCell(o) == o + 1

\* What malloc() and memset() leave.
Allocated(size) == [c \in -Reach .. size + Reach |-> IF c \in 0 .. size - 1 THEN 0 ELSE Other]

\* n cells of the file from offset "from", written at "at".
FromFile(memory, at, from, n) ==
    [c \in DOMAIN memory |->
       IF c \in at .. at + n - 1 THEN FileCell(from + c - at) ELSE memory[c]]

Zeroed(memory, at, n) ==
    [c \in DOMAIN memory |-> IF c \in at .. at + n - 1 THEN 0 ELSE memory[c]]

-----------------------------------------------------------------------------
(* ELF, 64 bits. *)

\* The entries of the table of segments that the loops do not skip.
Loads(segments) == {i \in DOMAIN segments : segments[i].load}

LowAddr(segments) == Min({segments[i].vaddr : i \in Loads(segments)})
HighAddr(segments) == Max({segments[i].vaddr + segments[i].memsz : i \in Loads(segments)})

load_addr(segments) == (LowAddr(segments) \div Page) * Page

RoundUp(n) == ((n + Page - 1) \div Page) * Page

\* Faulty variant: without the page for what the rounding down of the load
\* address adds.
BufferSize64_Tight(segments) == RoundUp(HighAddr(segments) - LowAddr(segments))

BufferSize64(segments) == RoundUp(HighAddr(segments) - LowAddr(segments)) + Page

Oversize(segments) == \E i \in Loads(segments) : segments[i].filesz > segments[i].memsz

\* A segment of the file, and zeros behind it.
Segment64(memory, s, base) ==
    Zeroed(FromFile(memory, s.vaddr - base, s.off, s.filesz),
           s.vaddr - base + s.filesz, s.memsz - s.filesz)

\* The same for 32 bits, where the buffer begins at address 0 and is zero already.
Segment32(memory, s) == FromFile(memory, s.vaddr, s.off, s.filesz)

\* The memory after each turn of the loop over the segments.
Loading(class, segments, base, size) ==
    LET memory[i \in 0 .. Len(segments)] ==
          IF i = 0 THEN Allocated(size)
          ELSE IF i \notin Loads(segments) THEN memory[i - 1]
          ELSE IF class = 64 THEN Segment64(memory[i - 1], segments[i], base)
          ELSE Segment32(memory[i - 1], segments[i])
    IN  memory

Loaded(class, segments, base, size) == Loading(class, segments, base, size)[Len(segments)]

\* The value of the symbol of a relocation: 0 when it names none, or its section
\* is linked to neither of the two tables.
SymValue(r) == IF r.sym = 0 \/ r.link = "neither" THEN 0 ELSE r.sym

\* The word a relocation writes; a type that is not known writes nothing.
Relocated(r, base) ==
    LET place == Buffer + r.off - base
    IN  CASE r.type = "relative" -> Buffer + r.addend
          [] r.type = "64" -> IF SymValue(r) = 0 THEN r.addend ELSE SymValue(r) + r.addend
          [] r.type \in {"32", "32S"} -> SymValue(r) + r.addend
          [] r.type \in {"PC32", "PC64"} -> SymValue(r) + r.addend - place
          [] r.type \in {"GLOB_DAT", "JUMP_SLOT"} ->
               IF SymValue(r) = 0 THEN r.addend ELSE SymValue(r)

Relocate64(memory, r, base) ==
    IF r.type \in {"NONE", "unknown"} THEN memory
    ELSE [memory EXCEPT ![r.off - base] = Relocated(r, base)]

\* And after each turn of the loop over the relocations.
Relocating(memory, relocs, base) ==
    LET after[i \in 0 .. Len(relocs)] ==
          IF i = 0 THEN memory ELSE Relocate64(after[i - 1], relocs[i], base)
    IN  after

Load64(image) ==
    LET base == load_addr(image.segments)
        loaded == Loaded(64, image.segments, base, BufferSize64(image.segments))
    IN  IF Oversize(image.segments) THEN [Nothing EXCEPT !.freed = TRUE]
        ELSE [result |-> "loaded", entry |-> image.entry - base, freed |-> FALSE,
              memory |-> Relocating(loaded, image.relocs, base)[Len(image.relocs)]]

-----------------------------------------------------------------------------
(* ELF, 32 bits.  The buffer is as long as the file; relocate32() changes   *)
(* nothing; the entry is the symbol _start.                                 *)

Load32(image) ==
    IF Oversize(image.segments) THEN [Nothing EXCEPT !.freed = TRUE]
    ELSE IF image.start = "none" THEN Nothing
    ELSE [result |-> "loaded", entry |-> image.entry, freed |-> FALSE,
          memory |-> Loaded(32, image.segments, 0, FileSize)]

\* An image without the four bytes of the magic stops the kernel: the ASSERTs of
\* is_image_valid() come before every test of its answer.
Load(image) ==
    IF ~image.magic THEN [Nothing EXCEPT !.result = "panic"]
    ELSE IF image.class = 64 THEN Load64(image)
    ELSE Load32(image)

-----------------------------------------------------------------------------
(* Mach-O. *)

Copied(s) == s.filesz > 0 /\ s.off + s.filesz <= FileSize

\* Faulty variant: a larger buffer starts without what was loaded.
Grown_Empty(memory, newSize, n) == Allocated(newSize)

\* A larger buffer takes over what lies below the segment it was needed for.
Grown(memory, newSize, n) ==
    LET fresh == Allocated(newSize)
    IN  [c \in DOMAIN fresh |-> IF c \in 0 .. n - 1 /\ c \in DOMAIN memory THEN memory[c] ELSE fresh[c]]

SegmentMach(load, s) ==
    LET base == IF load.base = -1 THEN s.vaddr ELSE load.base
        at == s.vaddr - base
        end == at + s.filesz
        grow == end > load.size
        memory == IF grow THEN Grown(load.memory, end + Page, at) ELSE load.memory
    IN  IF ~Copied(s) THEN load
        ELSE [load EXCEPT !.base = base, !.size = IF grow THEN end + Page ELSE @,
                          !.memory = FromFile(memory, at, s.off, s.filesz)]

MachSize == FileSize * 2 + Slack

\* The loop over the load commands.
LoadingMach(segments) ==
    LET load[i \in 0 .. Len(segments)] ==
          IF i = 0 THEN [memory |-> Allocated(MachSize), size |-> MachSize, base |-> -1]
          ELSE SegmentMach(load[i - 1], segments[i])
    IN  load

\* The entry is an offset from LC_MAIN, or the address in a thread state less the
\* base as it is known by then.
LoadMach(image) ==
    LET all == LoadingMach(image.segments)[Len(image.segments)]
        base == IF image.thread /\ all.base # -1 THEN all.base ELSE 0
    IN  [result |-> "loaded", entry |-> image.entry - base, freed |-> FALSE,
         memory |-> all.memory]

\* compat_detect_format().
Format(file) ==
    IF file.short THEN "native"
    ELSE CASE file.magic = "macho" -> "darwin"
           [] file.magic = "elf" /\ file.class = 64 -> "linux64"
           [] file.magic = "elf" /\ file.class = 32 -> "linux32"
           [] OTHER -> "native"

\* compat_patch_syscalls() turns every SYSCALL of the range into a software
\* interrupt, code and data alike.
SYSCALL == <<15, 5>>

IsSyscall(code, i) == i \in 1 .. Len(code) - 1 /\ <<code[i], code[i + 1]>> = SYSCALL

Patched(code, number) ==
    [i \in DOMAIN code |->
       CASE IsSyscall(code, i) -> 205
         [] IsSyscall(code, i - 1) -> number
         [] OTHER -> code[i]]

-----------------------------------------------------------------------------
(* The calls. *)

Segments ==
    {s \in [load : BOOLEAN, vaddr : VAddrs, off : FileOffsets, filesz : FileSizes,
            memsz : MemSizes] : s.off + s.filesz <= FileSize}

Lists ==
    {list \in UNION {[1 .. n -> Segments] : n \in 1 .. MaxSegments} : Loads(list) # {}}

Relocs(types, links) ==
    [off : VAddrs, type : types, addend : VAddrs, sym : {0, 2}, link : links]

RelocTypes ==
    {"NONE", "64", "PC32", "PC64", "32", "32S", "GLOB_DAT", "JUMP_SLOT", "relative", "unknown"}

\* The addresses of a segment.
Extent(s) == s.vaddr .. s.vaddr + s.memsz - 1

image_load ==
    \E class \in {32, 64}, magic \in BOOLEAN, start \in {"_start", "none"}, segments \in Lists :
      LET image == [class |-> class, magic |-> magic, start |-> start, relocs |-> <<>>,
                    segments |-> segments, entry |-> segments[1].vaddr]
      IN  Invoked([fn |-> "image_load", image |-> image], Load(image))

\* One segment, with relocations inside it.
image_load_relocated ==
    \E vaddr \in VAddrs, types \in RelocTypes, links \in {"dynsym", "symtab", "neither"} :
    \E r \in Relocs({types}, {links}) :
      LET s == [load |-> TRUE, vaddr |-> vaddr, off |-> 0, filesz |-> FileSize, memsz |-> FileSize + 2]
          image == [class |-> 64, magic |-> TRUE, start |-> "none", relocs |-> <<r>>,
                    segments |-> <<s>>, entry |-> vaddr]
      IN  /\ r.off \in Extent(s)
          /\ Invoked([fn |-> "relocated", image |-> image], Load(image))

\* Bound of the model: no segment lies below one before it, so that the distance
\* from the base does not wrap.
macho_load64 ==
    \E segments \in Lists, thread \in BOOLEAN :
      LET image == [segments |-> segments, thread |-> thread,
                    entry |-> IF thread THEN segments[1].vaddr ELSE 1]
      IN  /\ \A i, j \in DOMAIN segments : i < j => segments[i].vaddr <= segments[j].vaddr
          /\ Invoked([fn |-> "macho", image |-> image], LoadMach(image))

compat_detect_format ==
    \E file \in [short : BOOLEAN, magic : {"macho", "elf", "none"}, class : {0, 32, 64}] :
      Invoked([fn |-> "format", file |-> file], Format(file))

compat_patch_syscalls ==
    \E code \in UNION {[1 .. n -> {5, 15, 129}] : n \in 0 .. MaxCode} :
      Invoked([fn |-> "patch", code |-> code], Patched(code, 129))

LoaderNext ==
    \/ image_load \/ image_load_relocated \/ macho_load64
    \/ compat_detect_format \/ compat_patch_syscalls

LoaderSpec == InvocationInit /\ [][LoaderNext]_invocationVars

-----------------------------------------------------------------------------
(* Properties. *)

FilePart(s) == s.vaddr .. s.vaddr + s.filesz - 1

Disjoint(parts) == \A i, j \in DOMAIN parts : i # j => parts[i] \cap parts[j] = {}

\* Memory has the file parts of those segments at their distance from the base,
\* zeros elsewhere in the buffer, and Other around it.
LaidOut(memory, segments, kept, base, size) ==
    \A c \in DOMAIN memory :
        /\ c \notin 0 .. size - 1 => memory[c] = Other
        /\ \A i \in kept : c + base \in FilePart(segments[i]) =>
             memory[c] = FileCell(segments[i].off + c + base - segments[i].vaddr)
        /\ c \in 0 .. size - 1 /\ (\A i \in kept : c + base \notin FilePart(segments[i])) =>
             memory[c] = 0

\* An ELF64 image whose segments do not overlap lies in its buffer as it lies in
\* its address space, whatever its base is, and nothing outside is written; of a
\* bad segment nothing is left allocated.
Elf64Placed ==
    Called("image_load") /\ call.image.class = 64 /\ call.image.magic =>
        LET list == call.image.segments
            base == load_addr(list)
        IN  /\ (answer.result = "loaded") = (\A i \in Loads(list) : list[i].filesz <= list[i].memsz)
            /\ answer.result = "null" => answer.freed
            /\ answer.result = "loaded" /\ Disjoint([i \in Loads(list) |-> Extent(list[i])]) =>
                 /\ LaidOut(answer.memory, list, Loads(list), base, BufferSize64(list))
                 /\ answer.entry + base = list[1].vaddr

\* The same of an ELF32 image whose segments lie in the size of its file: the
\* buffer has that size and is not looked at again, so a segment that goes beyond
\* it is written beyond the buffer.
Elf32Placed ==
    Called("image_load") /\ call.image.class = 32 /\ answer.result = "loaded" =>
        LET list == call.image.segments
        IN  /\ \A i \in Loads(list) : list[i].vaddr + list[i].filesz <= FileSize
            /\ Disjoint([i \in Loads(list) |-> FilePart(list[i])])
            => LaidOut(answer.memory, list, Loads(list), 0, FileSize)

\* A relocation touches its own word only, one without effect or of an unknown type
\* nothing; a relative one of an image that starts at 0 refers to the cell the
\* linker meant, and a PC64 whose symbol is found is the distance to where the
\* symbol stands in the file.
RelocationsExact ==
    Called("relocated") =>
        LET r == call.image.relocs[1]
            base == load_addr(call.image.segments)
            before == Load64([call.image EXCEPT !.relocs = <<>>]).memory
        IN  /\ \A c \in DOMAIN before : c # r.off - base => answer.memory[c] = before[c]
            /\ r.type \in {"NONE", "unknown"} => answer.memory = before
            /\ r.type = "relative" /\ base = 0 => answer.memory[r.off - base] - Buffer = r.addend
            /\ r.type = "PC64" /\ r.sym # 0 /\ r.link # "neither" =>
                 answer.memory[r.off - base] + Buffer + r.off - base = r.sym + r.addend

\* Mach-O segments that ascend and do not overlap are all there in the end, the
\* ones loaded before the buffer had to grow included.
MachPlaced ==
    Called("macho") =>
        LET list == call.image.segments
            kept == {i \in DOMAIN list : Copied(list[i])}
        IN  (\A i, j \in kept : i < j => list[i].vaddr + list[i].filesz <= list[j].vaddr) =>
              \A first, i \in kept : (\A k \in kept : first <= k) =>
                \A c \in FilePart(list[i]) :
                  answer.memory[c - list[first].vaddr] = FileCell(list[i].off + c - list[i].vaddr)

\* After the patch no SYSCALL is left, and every other byte is what it was.
PatchExact ==
    /\ Called("patch") =>
         \A i \in 1 .. Len(call.code) :
           /\ ~IsSyscall(answer, i)
           /\ answer[i] # call.code[i] => <<call.code[i], answer[i]>> \in {<<15, 205>>, <<5, 129>>}
           /\ answer[i] = 205 => answer[i + 1] = 129
    /\ Called("format") => (answer = "native") =
         (call.file.short \/ call.file.magic = "none" \/ (call.file.magic = "elf" /\ call.file.class = 0))

LoadsExact == Elf64Placed /\ Elf32Placed /\ RelocationsExact /\ MachPlaced /\ PatchExact

=============================================================================
