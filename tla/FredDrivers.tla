---------------------------- MODULE FredDrivers ----------------------------
(***************************************************************************)
(* The drivers of hw_support/ under the FRED scheduler: the registers of    *)
(* the accelerators (slot_drv_master.c, slot_drv_null.c), of their          *)
(* decouplers (decoup_drv_xil.c) and their UIO devices (uio_drv.c), and the *)
(* sysfs attributes of the FPGA manager (devcfg_drv_fpga_mgr.c).            *)
(*                                                                         *)
(* The module is laid over FredScheduler. Each handler of the scheduler is  *)
(* taken together with the driver calls it makes, in the order it makes     *)
(* them, and an event handler runs when the driver's file descriptor is     *)
(* ready, no longer when the abstract fabric `hw` and `devcfg.drv` say so.  *)
(***************************************************************************)
EXTENDS FredScheduler

CONSTANTS
    SlotDrivers     \* the slot drivers the system may be configured with

ASSUME SlotDriversOK == SlotDrivers \subseteq {"master", "null"}

VARIABLES
    driver,       \* hw_config: which slot driver the system uses
    dev,          \* per slot: accelerator registers, decoupler, UIO device
    mgr           \* the attributes of /sys/class/fpga_manager/fpga0

dvars == <<vars, driver, dev, mgr>>

\* `present`: the region holds a whole module. start: AP_CTRL bit 0; ier, gie, isr:
\* the interrupt registers. `event`: the file descriptor of the driver is readable
\* (master: a UIO interrupt; null: the byte start_compute wrote). `masked`: the
\* kernel holds the interrupt off at the GIC. `fault`: an accelerator register was
\* accessed while nothing behind the bus could answer.
DeviceRecord == [present : BOOLEAN, start : BOOLEAN, ier : BOOLEAN, gie : BOOLEAN,
                 isr : BOOLEAN, decoupled : BOOLEAN, event : BOOLEAN,
                 masked : BOOLEAN, fault : BOOLEAN]

Bitstreams == (Slots \X HwTasks) \cup {NULL}

ManagerRecord == [addr : Bitstreams, size : Bitstreams, loading : BOOLEAN,
                  notified : BOOLEAN]

-----------------------------------------------------------------------------
(* The kernel and the IP cores, as the drivers use them. *)

\* An attribute that was opened and never read polls as changed.
Opened == [addr |-> NULL, size |-> NULL, loading |-> FALSE, notified |-> TRUE]

Line(d) == d.isr /\ d.ier /\ d.gie /\ ~d.decoupled

\* The UIO driver answers an interrupt: it masks the line and counts an event.
Settle(d) ==
    IF Line(d) /\ ~d.masked THEN [d EXCEPT !.event = TRUE, !.masked = TRUE] ELSE d

\* A register access that leaves the accelerator in state v.
Access(d, v) ==
    IF d.decoupled \/ ~d.present THEN [d EXCEPT !.fault = TRUE] ELSE Settle(v)

\* The accelerator is done.
Finish(d) == Settle([d EXCEPT !.start = FALSE, !.isr = TRUE])

\* A freshly loaded module comes out of reset.
Loaded(d) == [d EXCEPT !.present = TRUE, !.start = FALSE, !.ier = FALSE,
                       !.gie = FALSE, !.isr = FALSE]

-----------------------------------------------------------------------------
(* Slips: variants with a bug a maintainer could write, used by no action.  *)

SlipSwapClears(d) ==                              \* GIC re-enabled before ISR is cleared
    LET r == Settle([d EXCEPT !.event = FALSE, !.masked = FALSE])
    IN Access(r, [r EXCEPT !.isr = FALSE])
SlipNoGie(kind, d) ==                             \* global interrupt enable forgotten
    IF kind = "master" THEN Access(d, [d EXCEPT !.ier = TRUE]) ELSE d
SlipReinitOrder(kind, d) ==                       \* registers written, then coupled
    LET v == IF kind = "master"
             THEN Access(d, [d EXCEPT !.ier = TRUE, !.gie = TRUE]) ELSE d
    IN Settle([v EXCEPT !.decoupled = FALSE])
SlipNoByteRead(d) == d                            \* null driver: byte left in the socket

-----------------------------------------------------------------------------
(* slot_drv_master.c and uio_drv.c. *)

UioReadForIrq(d) == [d EXCEPT !.event = FALSE]

UioClearGic(d) == Settle([d EXCEPT !.masked = FALSE])

\* Enables the interrupt of the module that was just loaded.
MasterAfterRcfg(d) == Access(d, [d EXCEPT !.ier = TRUE, !.gie = TRUE])

MasterStart(d) == Access(d, [d EXCEPT !.start = TRUE])

\* UIO event, interrupt status register, then the GIC.
MasterAfterCompute(d) ==
    LET r == UioReadForIrq(d) IN UioClearGic(Access(r, [r EXCEPT !.isr = FALSE]))

(* slot_drv_null.c: a socket pair stands for the accelerator. *)

NullStart(d) == [d EXCEPT !.event = TRUE]

NullAfterCompute(d) == [d EXCEPT !.event = FALSE]

(* slot_drv.h: the driver of the configured kind. *)

DrvAfterRcfg(kind, d) == IF kind = "master" THEN MasterAfterRcfg(d) ELSE d

DrvStart(kind, d) == IF kind = "master" THEN MasterStart(d) ELSE NullStart(d)

DrvAfterCompute(kind, d) ==
    IF kind = "master" THEN MasterAfterCompute(d) ELSE NullAfterCompute(d)

(* decoup_drv_xil.c. *)

DecoupleReg(d) == [d EXCEPT !.decoupled = TRUE]

CoupleReg(d) == Settle([d EXCEPT !.decoupled = FALSE])

(* devcfg_drv_fpga_mgr.c. *)

\* The address and the size of the bitstream, then the start attribute.
StartRcfg(m, bit) == [m EXCEPT !.addr = bit, !.size = bit, !.loading = TRUE]

\* Reading rcfg_done acknowledges its notification.
ReadRcfgDone(m) == [m EXCEPT !.notified = FALSE]

-----------------------------------------------------------------------------
(* The driver calls of a handler. *)

\* slot_reinit_after_rcfg.
ReinitAfterRcfg(kind, d) == DrvAfterRcfg(kind, CoupleReg(d))

\* What the serving of the FRI queue does to slot s: start_compute if it begins to
\* execute, decouple and the overwriting of its module if it is to be programmed.
ServedDevice(d, s) ==
    IF slot'[s].state = "EXEC" /\ slot[s].state # "EXEC" THEN DrvStart(driver, d)
    ELSE IF slot'[s].state = "RCFG" /\ slot[s].state # "RCFG"
    THEN [DecoupleReg(d) EXCEPT !.present = FALSE]
    ELSE d

Programs == \E s \in Slots : slot'[s].state = "RCFG" /\ slot[s].state # "RCFG"

\* d and m: the devices after the calls the handler makes before it serves the FRI
\* queue. The registers of a server that has stopped are not followed.
DriverCalls(d, m) ==
    IF status' = "up"
    THEN /\ dev' = [s \in Slots |-> ServedDevice(d[s], s)]
         /\ mgr' = IF Programs
                   THEN LET r == devcfg'.current_rcfg_req
                        IN StartRcfg(m, <<req'[r].slot, req'[r].hw_task>>)
                   ELSE m
         /\ UNCHANGED driver
    ELSE UNCHANGED <<driver, dev, mgr>>

HandleRun(r, t) == Run(r, t) /\ DriverCalls(dev, mgr)

HandleRunBanned(r, t) == RunBanned(r, t) /\ UNCHANGED <<driver, dev, mgr>>

HandleRcfgComplete ==
    /\ mgr.notified
    /\ RcfgComplete
    /\ DriverCalls([dev EXCEPT ![req[devcfg.current_rcfg_req].slot] =
                        ReinitAfterRcfg(driver, @)],
                   ReadRcfgDone(mgr))

\* An interrupt or a byte of slot s. The driver call is on the slot that the
\* request of slot s is bound to.
HandleSlotComplete(s, delivered) ==
    /\ dev[s].event
    /\ SlotComplete(s, delivered)
    /\ DriverCalls([dev EXCEPT ![req[slot[s].exec_req].slot] =
                        DrvAfterCompute(driver, @)], mgr)

HandleSlotTimeout(s, delivered) ==
    /\ SlotTimeout(s, delivered)
    /\ DriverCalls([dev EXCEPT ![req[timer[s].exec_req].slot] = DecoupleReg(@)], mgr)

-----------------------------------------------------------------------------
(* The hardware. *)

\* The accelerator of slot s ends its computation. The null driver has none: its
\* byte was written by start_compute.
ModuleDone(s) ==
    /\ AccelDone(s)
    /\ dev' = [dev EXCEPT ![s] = IF driver = "master" THEN Finish(@) ELSE @]
    /\ UNCHANGED <<driver, mgr>>

\* A runaway behind a closed decoupler may still finish: nobody sees it.
RunawayDone(s) ==
    /\ status = "up"
    /\ dev[s].decoupled /\ dev[s].present /\ dev[s].start
    /\ dev' = [dev EXCEPT ![s] = Finish(@)]
    /\ UNCHANGED <<vars, driver, mgr>>

\* RaceFree: a completion that can be read already keeps the watchdog from firing.
WatchdogExpires(s) ==
    /\ RaceFree => ~dev[s].event
    /\ TimerExpire(s)
    /\ UNCHANGED <<driver, dev, mgr>>

\* The FPGA manager loads what its attributes name and notifies rcfg_done.
BitstreamLoaded ==
    /\ mgr.loading
    /\ RcfgDone
    /\ dev' = [dev EXCEPT ![mgr.addr[1]] = Loaded(@)]
    /\ mgr' = [mgr EXCEPT !.loading = FALSE, !.notified = TRUE]
    /\ UNCHANGED driver

-----------------------------------------------------------------------------

\* Every register is 0 at reset and no region holds a module the server knows of.
\* devcfg_drv_fpga_mgr_init ends with a dummy read of rcfg_done.
DriversInit ==
    /\ Init
    /\ driver \in SlotDrivers
    /\ dev = [s \in Slots |->
                [present |-> FALSE, start |-> FALSE, ier |-> FALSE, gie |-> FALSE,
                 isr |-> FALSE, decoupled |-> FALSE, event |-> FALSE,
                 masked |-> FALSE, fault |-> FALSE]]
    /\ mgr = ReadRcfgDone(Opened)

\* The steps of the fabric, the timers and the FPGA manager.
Hardware ==
    \/ \E s \in Slots : ModuleDone(s)
    \/ \E s \in Slots : RunawayDone(s)
    \/ \E s \in Slots : WatchdogExpires(s)
    \/ BitstreamLoaded

\* A server that has stopped takes no more steps.
DriversNext ==
    \/ \E r \in Requests, t \in HwTasks : HandleRun(r, t) \/ HandleRunBanned(r, t)
    \/ HandleRcfgComplete
    \/ \E s \in Slots, delivered \in Outcomes("notify") :
            HandleSlotComplete(s, delivered)
    \/ \E s \in Slots, delivered \in Outcomes("notify") :
            HandleSlotTimeout(s, delivered)
    \/ Hardware

DriversSpec == DriversInit /\ [][DriversNext]_dvars

\* As FredScheduler's Fairness: the reactor serves every ready descriptor, timers
\* expire, a reconfiguration ends. An accelerator may compute for ever.
DriversFairness ==
    /\ WF_dvars(HandleRcfgComplete)
    /\ WF_dvars(BitstreamLoaded)
    /\ \A s \in Slots :
        /\ WF_dvars(HandleSlotComplete(s, TRUE))
        /\ WF_dvars(HandleSlotTimeout(s, TRUE))
        /\ WF_dvars(WatchdogExpires(s))

DriversFairSpec == DriversSpec /\ DriversFairness
=============================================================================
