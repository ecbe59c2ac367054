---------------------------- MODULE HostController ----------------------------
(***************************************************************************)
(* The drivers of the USB host controllers, src/drivers/usb/uhci.c and     *)
(* src/drivers/usb/ehci.c: the pool of transfer descriptors, the one queue *)
(* the controller walks, and the transfers that poll it.                   *)
(*                                                                         *)
(* The controller runs beside the driver.  It fetches the descriptor at    *)
(* the head of the queue and, some time later, writes its outcome back and *)
(* moves the queue on to the link it has fetched, whatever the driver has  *)
(* done in the meantime.  Of a descriptor the model keeps what it is for,  *)
(* its toggle, its link and its status.  The endpoint is that of the       *)
(* mouse: the caller keeps one toggle, the device the other.               *)
(***************************************************************************)
EXTENDS Integers, FiniteSets, FiniteSetsExt

CONSTANTS
    PoolSize,     \* UHCI_MAX_TD, EHCI_MAX_QTD
    Looks         \* how often a transfer looks before it gives up

ASSUME HostAssumption == PoolSize \in Nat /\ Looks \in Nat

VARIABLES
    hc_kind,
    hc_pc,
    call,         \* the transfer being made: its kind, whether it has data
    tds,          \* its descriptors, by stage; 0 is none
    pool,
    queue,        \* the descriptor at the head of the queue; 0 is TERM
    timeout,
    result,       \* 0, 1 (no data yet) or -1
    toggle,       \* mouse_toggle
    running,      \* what the controller has fetched; stale once it was given up
    devToggle,    \* the toggle of the endpoint, in the device
    lateWritten,  \* the descriptors written after they were given up
    raced         \* the controller completed what the driver had given up

callVars == <<call, tds>>
hcVars == <<running, devToggle, lateWritten>>
hostVars == <<hc_kind, hc_pc, callVars, pool, queue, timeout, result, toggle,
              hcVars, raced>>

Descriptors == 1 .. PoolSize
Stages == {"setup", "data", "status"}
NoTds == [s \in Stages |-> 0]
Unused == [pid |-> "none", toggle |-> 0, next |-> 0, status |-> "zero"]
Resting == [td |-> 0, link |-> 0, pid |-> "none", stale |-> FALSE]
NoCall == [op |-> "none", data |-> FALSE]

HostInit ==
    /\ hc_kind = "none" /\ hc_pc = "off"
    /\ call = NoCall /\ tds = NoTds
    /\ pool = [d \in Descriptors |-> Unused]
    /\ queue = 0 /\ timeout = 0 /\ result = 0
    /\ toggle = 0 /\ devToggle = 0
    /\ running = Resting /\ lateWritten = {} /\ raced = FALSE

-----------------------------------------------------------------------------
(* Bringing the controller up.  The registers are the controller's; what the *)
(* driver learns from them is whether there is one and whether it runs.      *)

Started(kind) ==
    /\ hc_pc = "off"
    /\ hc_kind' = kind /\ hc_pc' = "idle"
    /\ UNCHANGED <<callVars, pool, queue, timeout, result, toggle, hcVars, raced>>

uhci_init == Started("uhci")

\* usb_init() tries it when uhci_init() has found nothing that runs.
ehci_init == Started("ehci")

\* With no controller every transfer returns -1 at once.
no_controller == Started("none")

-----------------------------------------------------------------------------
(* The transfers. *)

\* The first that is all zero, or none.  Nothing is written to it yet, so that
\* the next one asked for is the same.
alloc_td ==
    LET zero == {d \in Descriptors : pool[d] = Unused}
    IN  IF zero = {} THEN 0 ELSE Min(zero)

Begin(op, data) ==
    LET stages == CASE op = "transfer" -> {"status"}
                    [] data            -> Stages
                    [] OTHER           -> {"setup", "status"}
        got == [s \in Stages |-> IF s \in stages THEN alloc_td ELSE 0]
        short == \E s \in stages : got[s] = 0
    IN  /\ hc_pc = "idle"
        /\ call' = IF short THEN NoCall ELSE [op |-> op, data |-> data]
        /\ tds' = IF short THEN NoTds ELSE got
        /\ result' = IF short THEN -1 ELSE 0
        /\ hc_pc' = IF short THEN "idle" ELSE "build"
        /\ UNCHANGED <<hc_kind, pool, queue, timeout, toggle, hcVars, raced>>

uhci_control_transfer == hc_kind = "uhci" /\ \E data \in BOOLEAN : Begin("control", data)
ehci_control_transfer == hc_kind = "ehci" /\ \E data \in BOOLEAN : Begin("control", data)
uhci_transfer == hc_kind = "uhci" /\ Begin("transfer", TRUE)
ehci_transfer == hc_kind = "ehci" /\ Begin("transfer", TRUE)

\* usb_transfer() and usb_control_transfer() without a controller.
no_transfer ==
    /\ hc_pc = "idle" /\ hc_kind = "none"
    /\ result' = -1
    /\ UNCHANGED <<hc_kind, hc_pc, callVars, pool, queue, timeout, toggle, hcVars, raced>>

build_td(pid, tog, next) ==
    [pid |-> pid, toggle |-> tog, next |-> next, status |-> "active"]

\* setup, data and status, in this order.
Build ==
    /\ hc_pc = "build"
    /\ pool' =
         CASE call.op = "transfer" ->
                [pool EXCEPT ![tds["status"]] = build_td("endpoint", toggle, 0)]
           [] call.op = "control" /\ call.data ->
                [pool EXCEPT ![tds["setup"]]  = build_td("setup", 0, tds["data"]),
                             ![tds["data"]]   = build_td("data", 1, tds["status"]),
                             ![tds["status"]] = build_td("status", 1, 0)]
           [] OTHER ->
                [pool EXCEPT ![tds["setup"]]  = build_td("setup", 0, tds["status"]),
                             ![tds["status"]] = build_td("status", 1, 0)]
    /\ hc_pc' = "queue"
    /\ UNCHANGED <<hc_kind, callVars, queue, timeout, result, toggle, hcVars, raced>>

First == IF call.op = "control" THEN "setup" ELSE "status"

Queue ==
    /\ hc_pc = "queue"
    /\ queue' = tds[First]
    /\ timeout' = Looks /\ hc_pc' = "wait"
    /\ UNCHANGED <<hc_kind, callVars, pool, result, toggle, hcVars, raced>>

Status(s) == pool[tds[s]].status

\* Faulty variant: the loop has no budget.
Spent_Never(t) == t

Spent(t) == t - 1

\* One turn of while (timeout--): it ends when the last stage is no longer
\* active, or with -1.
Look ==
    /\ hc_pc = "wait"
    /\ timeout' = Spent(timeout)
    /\ hc_pc' = IF timeout = 0 \/ Status("status") # "active" THEN "judge" ELSE "wait"
    /\ UNCHANGED <<hc_kind, callVars, pool, queue, result, toggle, hcVars, raced>>

InTime == timeout > 0

Failed(s) == tds[s] # 0 /\ Status(s) \notin {"ok", "active"}

control_verdict ==
    IF InTime /\ \A s \in Stages : ~Failed(s) THEN 0 ELSE -1

uhci_verdict ==
    CASE ~InTime                    -> 1
      [] Status("status") = "error" -> -1
      [] Status("status") = "nak"   -> 1
      [] OTHER                      -> 0

ehci_verdict ==
    CASE ~InTime                    -> 1
      [] Status("status") = "error" -> -1
      [] OTHER                      -> 0

Verdict ==
    CASE call.op = "control" -> control_verdict
      [] hc_kind = "uhci"    -> uhci_verdict
      [] OTHER               -> ehci_verdict

\* Faulty variant: the toggle also follows a transfer that failed.
Toggled_Always(r) == IF r # 1 THEN 1 - toggle ELSE toggle

Toggled(r) == IF r = 0 THEN 1 - toggle ELSE toggle

\* A completion seen by the last look counts as a timeout.
Judge ==
    /\ hc_pc = "judge"
    /\ result' = Verdict
    /\ toggle' = IF call.op = "transfer" THEN Toggled(Verdict) ELSE toggle
    /\ raced' = (raced \/ (call.op = "transfer" /\ ~InTime /\ Status("status") = "ok"))
    /\ hc_pc' = "close"
    /\ UNCHANGED <<hc_kind, callVars, pool, queue, timeout, hcVars>>

\* Faulty variant: a transfer that failed is returned from at once.
AfterJudging_Return == IF result = 0 THEN "free" ELSE "idle"

AfterJudging == "free"

\* The queue is emptied before the descriptors are.
Close ==
    /\ hc_pc = "close"
    /\ queue' = 0
    /\ running' = [running EXCEPT !.stale = running.td # 0]
    /\ hc_pc' = AfterJudging
    /\ UNCHANGED <<hc_kind, callVars, pool, timeout, result, toggle, devToggle,
                   lateWritten, raced>>

free_td ==
    /\ hc_pc = "free"
    /\ pool' = [d \in Descriptors |->
                  IF \E s \in Stages : tds[s] = d THEN Unused ELSE pool[d]]
    /\ call' = NoCall /\ tds' = NoTds /\ hc_pc' = "idle"
    /\ UNCHANGED <<hc_kind, queue, timeout, result, toggle, hcVars, raced>>

-----------------------------------------------------------------------------
(* The controller. *)

Fetch ==
    /\ running = Resting /\ queue # 0
    /\ pool[queue].status = "active"
    /\ running' = [td |-> queue, link |-> pool[queue].next,
                   pid |-> pool[queue].pid, stale |-> FALSE]
    /\ UNCHANGED <<hc_kind, hc_pc, callVars, pool, queue, timeout, result, toggle,
                   devToggle, lateWritten, raced>>

\* A device that has no data makes the controller try again, until the
\* descriptor is given up.
Retire(outcome) ==
    LET moved == outcome = "ok" /\ running.pid = "endpoint"
    IN  /\ running # Resting
        /\ pool' = [pool EXCEPT ![running.td].status = outcome]
        /\ queue' = IF outcome = "ok" THEN running.link ELSE queue
        /\ devToggle' = IF moved THEN 1 - devToggle ELSE devToggle
        /\ lateWritten' = IF running.stale THEN lateWritten \cup {running.td}
                          ELSE lateWritten
        /\ raced' = (raced \/ running.stale \/ (moved /\ hc_pc = "close"))
        /\ running' = Resting
        /\ UNCHANGED <<hc_kind, hc_pc, callVars, timeout, result, toggle>>

Outcomes == IF hc_kind = "uhci" THEN {"ok", "error", "nak"} ELSE {"ok", "error"}

-----------------------------------------------------------------------------
Driver ==
    \/ uhci_init \/ ehci_init \/ no_controller
    \/ Build \/ Queue \/ Look \/ Judge \/ Close \/ free_td

Calls ==
    \/ uhci_control_transfer \/ ehci_control_transfer
    \/ uhci_transfer \/ ehci_transfer \/ no_transfer

Controller == Fetch \/ \E outcome \in Outcomes : Retire(outcome)

HostNext == Driver \/ Calls \/ Controller

HostSpec == HostInit /\ [][HostNext]_hostVars /\ WF_hostVars(Driver)

-----------------------------------------------------------------------------
(* Properties. *)

\* Between transfers every descriptor is free again, except those the
\* controller has written to after the driver had given them up; and the queue
\* never leads the controller to a descriptor that is free.
PoolExact ==
    /\ hc_pc = "idle" => {d \in Descriptors : pool[d] # Unused} \subseteq lateWritten
    /\ queue # 0 => pool[queue] # Unused

\* As long as the controller completed nothing the driver had given up, the
\* mouse and the driver agree on the toggle of the next report.
TogglesAgree == hc_pc = "idle" /\ ~raced => toggle = devToggle

\* What a transfer leaves behind, however it ends.
TransfersExact == PoolExact /\ TogglesAgree

\* Every transfer returns, whatever the controller and the device do.
TransfersReturn == (hc_pc \notin {"off", "idle"}) ~> (hc_pc = "idle")

\* A control transfer begins with a SETUP packet.
SetupFirst ==
    hc_pc = "queue" /\ call.op = "control" => pool[tds["setup"]].pid = "setup"

=============================================================================
