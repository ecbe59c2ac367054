------------------------------- MODULE UsbCore --------------------------------
(***************************************************************************)
(* The enumeration of USB devices, src/drivers/usb/usb_core.c, and the     *)
(* attaching of a boot mouse, src/drivers/usb_hid_mouse.c.                 *)
(*                                                                         *)
(* A request either succeeds, and then the device has done what it asks,   *)
(* or fails, and then the device may have done it all the same.  Requests  *)
(* to address 0 reach every enabled device that has no address yet.  A     *)
(* configuration is the sequence of its descriptors; the last may be cut   *)
(* off by wTotalLength.                                                    *)
(*                                                                         *)
(* The driver that makes a request is HostController's.  A request here    *)
(* stands for whole transfers there, and the two share no variable.        *)
(***************************************************************************)
EXTENDS HostController, Naturals, Sequences

CONSTANTS
    Ports,          \* number of root ports
    MaxAddress,     \* 127
    MaxDevices,     \* USB_MAX_DEVICES
    Configurations  \* what devices answer to GET_DESCRIPTOR(CONFIGURATION)

AnyDescriptor ==
    [type : STRING, mouse : BOOLEAN, num : 0 .. 15, in : BOOLEAN, interrupt : BOOLEAN,
     whole : BOOLEAN]

ASSUME CoreAssumption ==
    /\ Ports \in Nat \ {0} /\ MaxAddress \in Nat /\ MaxDevices \in Nat
    /\ Configurations \subseteq Seq(AnyDescriptor)

VARIABLES
    request,        \* the request to be made next
    usb_port,
    addr,
    next_free_address,
    usb_devices,
    mouse,          \* mouse_attached, mouse_addr, mouse_ep
    cfgbuf,
    bus,            \* the devices, by port
    shared          \* a device was left enabled at address 0

coreVars == <<request, usb_port, addr, next_free_address, usb_devices, mouse, cfgbuf,
              bus, shared>>

NoMouse == [attached |-> FALSE, addr |-> 0, ep |-> 0, cfg |-> << >>]

CoreInit ==
    /\ request = "port" /\ usb_port = 0 /\ addr = 0
    /\ next_free_address = 1
    /\ usb_devices = << >> /\ mouse = NoMouse /\ cfgbuf = << >>
    /\ bus \in [0 .. Ports - 1 ->
                 {[there |-> t, enabled |-> FALSE, address |-> 0] : t \in BOOLEAN}]
    /\ shared = FALSE

-----------------------------------------------------------------------------
(* usb_core.c *)

AtDefault == {p \in 0 .. Ports - 1 : bus[p].enabled /\ bus[p].address = 0}

NextPort ==
    /\ request' = IF usb_port + 1 < Ports THEN "port" ELSE "done"
    /\ usb_port' = usb_port + 1
    /\ addr' = 0 /\ cfgbuf' = << >>

\* Nothing is connected, or the device does not come out of the reset: gone,
\* or handed to a companion controller that has no driver.
port_unusable ==
    /\ request = "port"
    /\ NextPort
    /\ UNCHANGED <<next_free_address, usb_devices, mouse, bus, shared>>

hc_port_reset ==
    /\ request = "port" /\ bus[usb_port].there
    /\ bus' = [bus EXCEPT ![usb_port].enabled = TRUE, ![usb_port].address = 0]
    /\ request' = "device8"
    /\ UNCHANGED <<usb_port, addr, next_free_address, usb_devices, mouse, cfgbuf, shared>>

\* enumerate_port() gives up and leaves the port as it is.
GiveUp(devices) ==
    /\ NextPort
    /\ bus' = devices
    /\ shared' = (shared \/ devices[usb_port].address = 0)
    /\ UNCHANGED <<usb_devices, mouse>>

GetDevice8 ==
    /\ request = "device8"
    /\ UNCHANGED next_free_address
    /\ \/ /\ request' = "address"
          /\ UNCHANGED <<usb_port, addr, usb_devices, mouse, cfgbuf, bus, shared>>
       \/ GiveUp(bus)

\* Faulty variant: an address that was not taken is offered again.
AfterAsking_Reuse(ok) == IF ok THEN next_free_address + 1 ELSE next_free_address

AfterAsking(ok) == next_free_address + 1

SetAddress(a, devices) ==
    [p \in DOMAIN devices |->
        IF p \in AtDefault THEN [devices[p] EXCEPT !.address = a] ELSE devices[p]]

SetAddressOk ==
    /\ request = "address" /\ next_free_address <= MaxAddress
    /\ addr' = next_free_address
    /\ next_free_address' = AfterAsking(TRUE)
    /\ bus' = SetAddress(next_free_address, bus)
    /\ request' = "device18"
    /\ UNCHANGED <<usb_port, usb_devices, mouse, cfgbuf, shared>>

SetAddressFails ==
    /\ request = "address"
    /\ next_free_address' = AfterAsking(FALSE)
    /\ GiveUp(bus) \/ (next_free_address <= MaxAddress
                         /\ GiveUp(SetAddress(next_free_address, bus)))

GetDevice18 ==
    /\ request = "device18"
    /\ UNCHANGED next_free_address
    /\ \/ /\ request' = IF mouse.attached THEN "record" ELSE "config"
          /\ UNCHANGED <<usb_port, addr, usb_devices, mouse, cfgbuf, bus, shared>>
       \/ GiveUp(bus)

\* The first free slot of usb_devices, if there is one.
Record ==
    /\ request = "record"
    /\ usb_devices' = IF Len(usb_devices) < MaxDevices
                      THEN Append(usb_devices, [address |-> addr, port |-> usb_port])
                      ELSE usb_devices
    /\ NextPort
    /\ UNCHANGED <<next_free_address, mouse, bus, shared>>

-----------------------------------------------------------------------------
(* usb_hid_mouse.c *)

\* Either of the two requests fails, or the header is too short: no mouse.
fetch_config_descriptor_fails ==
    /\ request = "config"
    /\ request' = "record"
    /\ UNCHANGED <<usb_port, addr, next_free_address, usb_devices, mouse, cfgbuf, bus, shared>>

fetch_config_descriptor ==
    /\ request = "config"
    /\ cfgbuf' \in Configurations
    /\ request' = "parse"
    /\ UNCHANGED <<usb_port, addr, next_free_address, usb_devices, mouse, bus, shared>>

IsInterface(d) == d.type = "interface" /\ d.whole

\* An endpoint that reports mouse motion: IN, interrupt, and not number 0.
Reports(d) == d.type = "endpoint" /\ d.whole /\ d.in /\ d.interrupt /\ d.num # 0

\* Faulty variant: the next interface is not looked at.
InTarget_Sticky(before, d) ==
    IF IsInterface(d) THEN before \/ d.mouse ELSE before

InTarget(before, d) == IF IsInterface(d) THEN d.mouse ELSE before

NotYet == [inTarget |-> FALSE, ep |-> 0, ended |-> FALSE]

\* The first endpoint of the interface is taken; a length below 2 ends the loop.
PastDescriptor(was, d) ==
    IF was.ended \/ d.type = "bad" THEN [was EXCEPT !.ended = TRUE]
    ELSE [inTarget |-> InTarget(was.inTarget, d),
          ep |-> IF was.ep = 0 /\ was.inTarget /\ Reports(d) THEN d.num ELSE was.ep,
          ended |-> FALSE]

\* The loop over the descriptors, by how many are behind it.
Scan(cfg) ==
    LET scan[i \in 0 .. Len(cfg)] ==
          IF i = 0 THEN NotYet ELSE PastDescriptor(scan[i - 1], cfg[i])
    IN  scan

Parsed(cfg) == Scan(cfg)[Len(cfg)].ep

parse_nothing_found ==
    /\ request = "parse" /\ Parsed(cfgbuf) = 0
    /\ request' = "record"
    /\ UNCHANGED <<usb_port, addr, next_free_address, usb_devices, mouse, cfgbuf, bus, shared>>

SetConfigurationFails ==
    /\ request = "parse" /\ Parsed(cfgbuf) # 0
    /\ request' = "record"
    /\ UNCHANGED <<usb_port, addr, next_free_address, usb_devices, mouse, cfgbuf, bus, shared>>

\* SET_PROTOCOL and SET_IDLE may fail.
Attach ==
    /\ request = "parse" /\ Parsed(cfgbuf) # 0
    /\ mouse' = [attached |-> TRUE, addr |-> addr, ep |-> Parsed(cfgbuf), cfg |-> cfgbuf]
    /\ request' = "record"
    /\ UNCHANGED <<usb_port, addr, next_free_address, usb_devices, cfgbuf, bus, shared>>

-----------------------------------------------------------------------------
usb_hid_mouse_try_attach ==
    \/ fetch_config_descriptor_fails \/ fetch_config_descriptor
    \/ parse_nothing_found \/ SetConfigurationFails \/ Attach

enumerate_port ==
    \/ port_unusable \/ hc_port_reset
    \/ GetDevice8 \/ SetAddressOk \/ SetAddressFails \/ GetDevice18 \/ Record

CoreNext == enumerate_port \/ usb_hid_mouse_try_attach

CoreSpec == CoreInit /\ [][CoreNext]_coreVars

-----------------------------------------------------------------------------
(* Properties. *)

\* No two devices answer to the same address, whichever requests fail and
\* whether or not the device has followed them: unless an enumeration that
\* failed has left a device at address 0, which then hears what is meant for
\* the next one.
AddressesUnique ==
    ~shared =>
        /\ \A p, q \in 0 .. Ports - 1 :
             bus[p].address # 0 /\ bus[p].address = bus[q].address => p = q
        /\ \A i \in 1 .. Len(usb_devices) :
             bus[usb_devices[i].port].address = usb_devices[i].address

\* Descriptor i of a configuration belongs to an interface that is a boot mouse.
OfMouse(cfg, i) ==
    \E k \in 1 .. i - 1 :
        /\ IsInterface(cfg[k]) /\ cfg[k].mouse
        /\ \A j \in k + 1 .. i - 1 : ~IsInterface(cfg[j])

\* It is an endpoint of that interface, and the loop gets to it.
Serves(cfg, i) ==
    Reports(cfg[i]) /\ OfMouse(cfg, i) /\ \A j \in 1 .. i : cfg[j].type # "bad"

\* The mouse is polled at the first interrupt endpoint of an interface that is
\* a boot mouse, and of no other interface; and there is one mouse, at an
\* address that was given out.
EndpointRight ==
    mouse.attached =>
        /\ mouse.addr \in 1 .. next_free_address - 1
        /\ \E i \in 1 .. Len(mouse.cfg) :
             /\ Serves(mouse.cfg, i) /\ mouse.cfg[i].num = mouse.ep
             /\ \A j \in 1 .. i - 1 : ~Serves(mouse.cfg, j)

\* What the enumeration leaves behind, whatever devices there are.
EnumerationRight == AddressesUnique /\ EndpointRight

\* The host controller's driver and the enumeration above it, whatever the
\* controller, the devices and their configurations do: no descriptor is lost,
\* toggles and addresses agree with those of the devices, and the mouse is
\* polled where it reports.
UsbExact == TransfersExact /\ EnumerationRight

=============================================================================
