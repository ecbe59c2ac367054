------------------------------ MODULE MCDevices ------------------------------
(* The drivers of the devices for TLC.  They share no state but what Mouse     *)
(* models: one of them runs, the others stay where they begin.                 *)
EXTENDS Mouse, Keyboard, HostController, UsbCore, Interrupts, Malloc, Console,
        Wallpaper, Cursor, Clock, Dev

VARIABLE machine

MCDelta == {-1, 2}
MCMarks == {"a", "b"}
MCCharacters == {"a", "b"}

\* The descriptors that differ for the parser: two interfaces, three endpoints
\* that report and three that do not, and one with a length below 2.
Descriptor(type, isMouse, num, in, interrupt) ==
    [type |-> type, mouse |-> isMouse, num |-> num, in |-> in,
     interrupt |-> interrupt, whole |-> TRUE]

Interface(isMouse) == Descriptor("interface", isMouse, 0, FALSE, FALSE)

MCDescriptors ==
    {Interface(TRUE), Interface(FALSE),
     [Interface(FALSE) EXCEPT !.whole = FALSE],
     Descriptor("endpoint", FALSE, 1, TRUE, TRUE),
     Descriptor("endpoint", FALSE, 2, TRUE, TRUE),
     Descriptor("endpoint", FALSE, 0, TRUE, TRUE),
     Descriptor("endpoint", FALSE, 3, TRUE, FALSE),
     Descriptor("bad", FALSE, 0, FALSE, FALSE)}

\* The longest begin with an interface, as those of devices do.
MCConfigurations ==
    UNION {[1 .. n -> MCDescriptors] : n \in 0 .. 2}
      \cup {c \in [1 .. 3 -> MCDescriptors] : c[1].type = "interface"}

MCRadix == <<12, 2, 2, 2, 2, 3>>

MCDeviceSet == {"null", "zero", "null2"}
MCDeviceName == [d \in MCDeviceSet |-> IF d = "null2" THEN "null" ELSE d]

DevicesInit ==
    /\ machine \in {"mouse", "keyboard", "host", "core", "interrupts", "malloc", "console",
                   "wallpaper", "cursor", "clock", "devices"}
    /\ Init /\ KeyboardInit /\ HostInit /\ CoreInit
    /\ InterruptsInit /\ malloc_init /\ ConsoleInit
    /\ WallpaperInit /\ CursorInit /\ ClockInit /\ DevInit
    \* Of a machine that does not run one state will do.
    /\ machine # "core" => \A p \in DOMAIN bus : ~bus[p].there
    /\ machine # "wallpaper" => photos = {}
    /\ machine # "cursor" => scene = [c \in Screen |-> 0]
    /\ machine # "clock" => now = StartTime
    /\ machine # "devices" => ended = {}

\* Of all the machines only the one that runs takes steps.
OthersRest ==
    /\ machine # "mouse" => UNCHANGED vars
    /\ machine # "keyboard" => UNCHANGED keyboardVars
    /\ machine # "host" => UNCHANGED hostVars
    /\ machine # "core" => UNCHANGED coreVars
    /\ machine # "interrupts" => UNCHANGED interruptVars
    /\ machine # "malloc" => UNCHANGED mallocVars
    /\ machine # "console" => UNCHANGED consoleVars
    /\ machine # "wallpaper" => UNCHANGED wallpaperVars
    /\ machine # "cursor" => UNCHANGED cursorVars
    /\ machine # "clock" => UNCHANGED clockVars
    /\ machine # "devices" => UNCHANGED devVars
    /\ UNCHANGED machine

DevicesNext ==
    \/ machine = "mouse" /\ Next /\ OthersRest
    \/ machine = "keyboard" /\ KeyboardNext /\ OthersRest
    \/ machine = "host" /\ HostNext /\ OthersRest
    \/ machine = "core" /\ CoreNext /\ OthersRest
    \/ machine = "interrupts" /\ InterruptsNext /\ OthersRest
    \/ machine = "malloc" /\ MallocNext /\ OthersRest
    \/ machine = "console" /\ ConsoleNext /\ OthersRest
    \/ machine = "wallpaper" /\ WallpaperFrame /\ OthersRest
    \/ machine = "cursor" /\ CursorNext /\ OthersRest
    \/ machine = "clock" /\ ClockNext /\ OthersRest
    \/ machine = "devices" /\ DevNext /\ OthersRest

machineVars ==
    <<machine, vars, keyboardVars, hostVars, coreVars, interruptVars, mallocVars, consoleVars,
      wallpaperVars, cursorVars, clockVars, devVars>>

\* The driver of the host controller runs as long as a transfer is under way,
\* the processor as long as it is on, and the desktop draws for ever.
DevicesSpec ==
    /\ DevicesInit /\ [][DevicesNext]_machineVars
    /\ WF_machineVars(machine = "host" /\ Driver /\ OthersRest)
    /\ WF_machineVars(machine = "interrupts" /\ Cpu /\ OthersRest)
    /\ WF_machineVars(machine = "wallpaper" /\ WallpaperFrame /\ OthersRest)

=============================================================================
