---------------------------------- MODULE Pci ----------------------------------
(***************************************************************************)
(* src/drivers/pci.c: the configuration space of the PCI bus, and the      *)
(* search for a device of a class.  The ports are external: a register of  *)
(* four bytes is read and written as a whole, and reads as ones where      *)
(* there is no device.                                                     *)
(***************************************************************************)
EXTENDS Integers, Sequences, FiniteSetsExt, Invocation

CONSTANTS
    ByteValues,   \* how many values a byte has: 256
    Registers,    \* bound of the model: what a register may hold
    Halves,       \* bound of the model: what is written to half of one
    Slots         \* bound of the model: the slots of all buses, in their order

\* By how much a number grows that is shifted by some bytes.
HalfValues == ByteValues * ByteValues
Shift(bytes) == <<1, ByteValues, HalfValues, HalfValues * ByteValues, HalfValues * HalfValues>>[bytes + 1]

ASSUME PciAssumption ==
    /\ ByteValues \in Nat \ {0, 1} /\ Slots \in Nat
    /\ Registers \subseteq 0 .. Shift(4) - 1 /\ Halves \subseteq 0 .. Shift(2) - 1

Offsets == 0 .. 3

pci_read16(v, offset) == (v \div Shift((offset \div 2) * 2)) % Shift(2)
pci_read8(v, offset) == (v \div Shift(offset)) % Shift(1)

\* Faulty variant: the half that is written is not cleared first, where the two
\* add up instead.
WrittenHalf_Added(v, offset, value) ==
    (v + value * Shift((offset \div 2) * 2)) % Shift(4)

\* What pci_write16() writes to the whole register, the other half as it was read.
WrittenHalf(v, offset, value) ==
    LET shift == Shift((offset \div 2) * 2)
    IN  v - ((v \div shift) % Shift(2)) * shift + value * shift

\* The status half of register 4 clears those of its bits that are written as
\* ones.  A half is one bit here: the upper one, set or not.
StatusHeld(before, written) ==
    LET upper(v) == v \div Shift(2)
    IN  [command |-> written % Shift(2), status |-> IF upper(written) # 0 THEN 0 ELSE upper(before)]

-----------------------------------------------------------------------------
(* pci_find_class().  A slot is what its functions 0 and 1 are, and whether     *)
(* the header says that there are several.                                     *)

Kinds == {"absent", "wanted", "otherInterface", "other"}

Space == [1 .. Slots -> [func : [0 .. 1 -> Kinds], many : BOOLEAN]]

Funcs(slot) == IF slot.many THEN 0 .. 1 ELSE {0}

Matches(kind, anyInterface) == kind = "wanted" \/ (anyInterface /\ kind = "otherInterface")

\* Faulty variant: the interface is not compared.
Matching_Any(space, anyInterface) ==
    {p \in (1 .. Slots) \X (0 .. 1) :
       /\ space[p[1]].func[0] # "absent" /\ p[2] \in Funcs(space[p[1]])
       /\ Matches(space[p[1]].func[p[2]], TRUE)}

\* A slot without a function 0 is passed over.
Matching(space, anyInterface) ==
    {p \in (1 .. Slots) \X (0 .. 1) :
       /\ space[p[1]].func[0] # "absent" /\ p[2] \in Funcs(space[p[1]])
       /\ Matches(space[p[1]].func[p[2]], anyInterface)}

Before(p, q) == p[1] < q[1] \/ (p[1] = q[1] /\ p[2] <= q[2])

\* The first that matches in the order of the loops.
Found(space, anyInterface) ==
    LET m == Matching(space, anyInterface)
    IN  IF m = {} THEN << >> ELSE CHOOSE p \in m : \A q \in m : Before(p, q)

-----------------------------------------------------------------------------
(* The calls. *)

pci_read ==
    \E v \in Registers, offset \in Offsets :
      Invoked([fn |-> "pci_read", v |-> v, offset |-> offset],
              [half |-> pci_read16(v, offset), byte |-> pci_read8(v, offset)])

pci_write16 ==
    \E v \in Registers, offset \in Offsets, value \in Halves :
      Invoked([fn |-> "pci_write16", v |-> v, offset |-> offset, value |-> value],
              WrittenHalf(v, offset, value))

pci_find_class ==
    \E space \in Space, anyInterface \in BOOLEAN :
      Invoked([fn |-> "pci_find_class", space |-> space, any |-> anyInterface],
              Found(space, anyInterface))

PciNext == pci_read \/ pci_write16 \/ pci_find_class

-----------------------------------------------------------------------------
(* Properties. *)

\* Half a register is written, and the other half is written back as it was: but
\* with the command of a device its status, whose bits that clears.
HalvesKept ==
    Called("pci_write16") =>
        /\ pci_read16(answer, call.offset) = call.value
        /\ pci_read16(answer, 2 - (call.offset \div 2) * 2)
             = pci_read16(call.v, 2 - (call.offset \div 2) * 2)
        /\ call.offset = 0 => StatusHeld(call.v, answer) = [command |-> call.value, status |-> 0]

\* The bytes of a register are those of its halves.
BytesOfHalves ==
    Called("pci_read") =>
        answer.half = pci_read8(call.v, (call.offset \div 2) * 2)
                        + pci_read8(call.v, (call.offset \div 2) * 2 + 1) * ByteValues

\* The driver gets the first device it can drive, never one of another interface,
\* and none only if no slot with a function 0 has one.
FirstFound ==
    Called("pci_find_class") =>
        LET kind(p) == call.space[p[1]].func[p[2]]
            usable(p) == /\ call.space[p[1]].func[0] # "absent"
                         /\ kind(p) = "wanted" \/ (call.any /\ kind(p) = "otherInterface")
                         /\ p[2] = 0 \/ call.space[p[1]].many
            places == (1 .. Slots) \X (0 .. 1)
        IN  IF answer = << >> THEN \A p \in places : ~usable(p)
            ELSE usable(answer) /\ \A p \in places : usable(p) => Before(answer, p)

BusExact == HalvesKept /\ BytesOfHalves /\ FirstFound

=============================================================================
