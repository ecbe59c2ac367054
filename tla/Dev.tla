---------------------------------- MODULE Dev ----------------------------------
(***************************************************************************)
(* The devices of src/fs/dev.c: a table of registered devices, each with a *)
(* node of the file system of its own.  The driver of a device makes the   *)
(* device, name included; strcpy() leaves the end of a name to what the    *)
(* memory held before, so that a name may go on beyond what was meant.     *)
(***************************************************************************)
EXTENDS Integers, SequencesExt

CONSTANTS
    DeviceSet,    \* the devices there are
    DeviceName,   \* DeviceName[d]: what device d is called
    MAX_DEVICES   \* 64

ASSUME DevAssumption == MAX_DEVICES \in Nat

VARIABLES
    devices,      \* those registered, num_devices of them
    inode,        \* inode[d]: of the node that dev->node points to, or 0
    ended,        \* the devices whose name ends where it should
    freed,        \* the devices whose dev->node has been freed
    removed,      \* a device has ever been removed
    dev_result    \* what the last call returned

devVars == <<devices, inode, ended, freed, removed, dev_result>>

num_devices == Len(devices)
Registered == ToSet(devices)

\* A name without its end equals no other.
SameName(d, e) == d = e \/ (DeviceName[d] = DeviceName[e] /\ d \in ended /\ e \in ended)

DevInit ==
    /\ devices = << >> /\ inode = [d \in DeviceSet |-> 0]
    /\ ended \in SUBSET DeviceSet /\ freed = {}
    /\ removed = FALSE /\ dev_result = 0

-----------------------------------------------------------------------------

Answered(r) == dev_result' = r

\* Faulty variant: whoever asks again under another device is let in.
NameTaken_SameDevice(d) == d \in Registered

NameTaken(d) == \E e \in Registered : SameName(d, e)

dev_register(d) ==
    \/ /\ num_devices >= MAX_DEVICES
       /\ Answered(-1) /\ UNCHANGED <<devices, inode, freed, removed>>
    \/ /\ num_devices < MAX_DEVICES /\ NameTaken(d)
       /\ Answered(-2) /\ UNCHANGED <<devices, inode, freed, removed>>
    \/ /\ num_devices < MAX_DEVICES /\ ~NameTaken(d)   \* malloc() fails
       /\ Answered(-3) /\ UNCHANGED <<devices, inode, freed, removed>>
    \/ /\ num_devices < MAX_DEVICES /\ ~NameTaken(d)
       /\ devices' = Append(devices, d)
       /\ inode' = [inode EXCEPT ![d] = num_devices + 1]
       /\ freed' = freed \ {d} /\ Answered(0) /\ UNCHANGED removed

\* The others close ranks; the device keeps its pointer to the node.
dev_unregister(d) ==
    \/ d \notin Registered /\ Answered(-1) /\ UNCHANGED <<devices, inode, freed, removed>>
    \/ /\ d \in Registered
       /\ \E i \in 1 .. num_devices :
            /\ devices[i] = d /\ \A j \in 1 .. i - 1 : devices[j] # d
            /\ devices' = RemoveAt(devices, i)
       /\ freed' = freed \cup {d} /\ removed' = TRUE
       /\ Answered(0) /\ UNCHANGED inode

DevNext == \E d \in DeviceSet : (dev_register(d) \/ dev_unregister(d)) /\ UNCHANGED ended

\* dev_find() and devfs_finddir(): the first of that name, or none.
dev_find(name) ==
    LET named == {i \in 1 .. num_devices :
                    devices[i] \in ended /\ DeviceName[devices[i]] = name}
    IN  IF named = {} THEN << >>
        ELSE <<devices[CHOOSE i \in named : \A j \in named : i <= j]>>

\* devfs_readdir(): it ends the name itself.
devfs_readdir(index) == [name |-> DeviceName[devices[index + 1]], ino |-> index + 1]

-----------------------------------------------------------------------------
(* Properties. *)

\* What the directory lists can be looked up: a name that is ended leads to one
\* device, whose node is there, and as long as no device was ever removed to the
\* inode the directory says.
ListedIsFound ==
    /\ IsInjective(devices) /\ num_devices <= MAX_DEVICES
    /\ \A i \in 0 .. num_devices - 1 :
         LET d == devices[i + 1]
         IN  /\ d \notin freed
             /\ d \in ended => dev_find(devfs_readdir(i).name) = <<d>>
             /\ ~removed => inode[d] = devfs_readdir(i).ino

=============================================================================
