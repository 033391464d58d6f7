------------------------- MODULE FredDriversProofs -------------------------
(***************************************************************************)
(* The drivers under the scheduler: every step of theirs is one of the      *)
(* scheduler, and the fabric the scheduler reasons about is the one the     *)
(* registers of the accelerators, decouplers and FPGA manager describe.     *)
(***************************************************************************)
EXTENDS FredDriversInv, FredSchedulerService

-----------------------------------------------------------------------------
(* The drivers take the scheduler's steps. *)

LEMMA DriversStep == [DriversNext]_dvars => [Next]_vars
<1> SUFFICES ASSUME [DriversNext]_dvars PROVE [Next]_vars
  OBVIOUS
<1>1. ASSUME NEW r \in Requests, NEW t \in HwTasks,
             HandleRun(r, t) \/ HandleRunBanned(r, t)
      PROVE  Next
  BY <1>1 DEF HandleRun, HandleRunBanned, Next
<1>2. CASE HandleRcfgComplete
  BY <1>2 DEF HandleRcfgComplete, Next
<1>3. ASSUME NEW s \in Slots, NEW d \in Outcomes("notify"), HandleSlotComplete(s, d)
      PROVE  Next
  BY <1>3 DEF HandleSlotComplete, Next
<1>4. ASSUME NEW s \in Slots, NEW d \in Outcomes("notify"), HandleSlotTimeout(s, d)
      PROVE  Next
  BY <1>4 DEF HandleSlotTimeout, Next
<1>5. CASE Hardware
  BY <1>5 DEF Hardware, ModuleDone, RunawayDone, WatchdogExpires, BitstreamLoaded, Next
<1>6. CASE UNCHANGED dvars
  BY <1>6 DEF dvars
<1> QED BY <1>1, <1>2, <1>3, <1>4, <1>5, <1>6 DEF DriversNext

\* FredDrivers takes the scheduler's actions as they are, so what is proved of
\* FredScheduler carries over.
LEMMA DriversRefineScheduler == DriversSpec => Spec
<1>1. DriversInit => Init
  BY DEF DriversInit
<1> QED BY <1>1, DriversStep, PTL DEF DriversSpec, Spec

-----------------------------------------------------------------------------
(* The inductive invariant. *)

\* The registers of a region and its decoupler, as the abstract fabric h sees them. An
\* interrupt is masked exactly while its event is pending, and none pends behind a
\* closed decoupler, whose accelerator may be in any state.
MasterAgrees(d, h) ==
    /\ d.decoupled = ~h.coupled
    /\ d.present = (h.fabric # NULL)
    /\ d.event = h.irq
    /\ d.masked = d.event
    /\ h.coupled => /\ d.start = h.busy /\ d.isr = h.irq
                    /\ h.fabric # NULL => d.ier /\ d.gie
    /\ ~d.fault

\* With the null driver the byte written at the start is there until it is read, and
\* nothing computes behind a closed decoupler.
NullAgrees(d, h) ==
    /\ d.decoupled = ~h.coupled
    /\ d.present = (h.fabric # NULL)
    /\ d.event = (h.busy \/ h.irq)
    /\ h.busy => h.coupled
    /\ ~d.start /\ ~d.isr /\ ~d.masked
    /\ ~d.fault

DeviceAgrees(d, h) ==
    IF driver = "master" THEN MasterAgrees(d, h) ELSE NullAgrees(d, h)

\* The FPGA manager loads and notifies what devcfg has under way.
ManagerAgrees(m, dv) ==
    /\ m.loading = (dv.drv = "loading")
    /\ m.notified = (dv.drv = "done")
    /\ m.loading => m.addr = <<dv.bit_slot, dv.bit_task>> /\ m.size = m.addr

\* The slot being programmed is cut off, and the module loaded into it is fresh.
Detached ==
    devcfg.drv # "quiet" =>
        /\ ~hw[devcfg.bit_slot].coupled
        /\ devcfg.drv = "done" => ~dev[devcfg.bit_slot].start /\ ~dev[devcfg.bit_slot].isr

\* The null driver's byte is always read before a watchdog can expire.
NoNullTimeout == driver # "master" => \A s \in Slots : timer[s].state # "expired"

DevicesTyped == dev \in [Slots -> DeviceRecord] /\ mgr \in ManagerRecord

DriversOwned ==
    /\ DevicesTyped
    /\ \A s \in Slots : ~dev[s].fault
    /\ Up => /\ \A s \in Slots : DeviceAgrees(dev[s], hw[s])
             /\ ManagerAgrees(mgr, devcfg)
             /\ Detached
             /\ NoNullTimeout

-----------------------------------------------------------------------------
(* The driver calls, one register block at a time. *)

\* The registers after an access or an interrupt are registers.
LEMMA RegistersTyped ==
    ASSUME NEW d \in DeviceRecord
    PROVE  /\ Settle(d) \in DeviceRecord
           /\ \A v \in DeviceRecord : Access(d, v) \in DeviceRecord
           /\ Finish(d) \in DeviceRecord /\ Loaded(d) \in DeviceRecord
           /\ DecoupleReg(d) \in DeviceRecord /\ CoupleReg(d) \in DeviceRecord
<1>1. \A e \in DeviceRecord : Settle(e) \in DeviceRecord
  <2>1. \A e \in DeviceRecord : [e EXCEPT !.event = TRUE, !.masked = TRUE] \in DeviceRecord
    BY DEF DeviceRecord
  <2> QED BY Zenon, <2>1 DEF Settle
<1>2. \A v \in DeviceRecord : Access(d, v) \in DeviceRecord
  <2>1. [d EXCEPT !.fault = TRUE] \in DeviceRecord
    BY DEF DeviceRecord
  <2> QED BY <1>1, <2>1 DEF Access
<1>3. [d EXCEPT !.start = FALSE, !.isr = TRUE] \in DeviceRecord
  BY DEF DeviceRecord
<1>4. Loaded(d) \in DeviceRecord /\ DecoupleReg(d) \in DeviceRecord
  BY DEF DeviceRecord, Loaded, DecoupleReg
<1>5. [d EXCEPT !.decoupled = FALSE] \in DeviceRecord
  BY DEF DeviceRecord
<1> QED BY <1>1, <1>2, <1>3, <1>4, <1>5 DEF Finish, CoupleReg

\* A coupled module without an interrupt is started.
LEMMA StartAgrees ==
    ASSUME NEW d \in DeviceRecord, NEW h \in HwRecord, DeviceAgrees(d, h),
           h.coupled, h.fabric # NULL, ~h.irq,
           NEW nh, nh = [h EXCEPT !.busy = TRUE]
    PROVE  DrvStart(driver, d) \in DeviceRecord /\ DeviceAgrees(DrvStart(driver, d), nh)
<1>1. nh \in HwRecord /\ nh.busy /\ nh.coupled = h.coupled /\ nh.irq = h.irq
      /\ nh.fabric = h.fabric
  BY DEF HwRecord
<1>2. CASE driver = "master"
  <2> DEFINE v == [d EXCEPT !.start = TRUE]
  <2>1. v \in DeviceRecord /\ v.start /\ v.present = d.present /\ v.ier = d.ier
        /\ v.gie = d.gie /\ v.isr = d.isr /\ v.decoupled = d.decoupled /\ v.event = d.event
        /\ v.masked = d.masked /\ v.fault = d.fault
    BY DEF DeviceRecord
  <2> HIDE DEF v
  <2>2. ~d.decoupled /\ d.present /\ ~v.isr
    BY <1>2, <2>1 DEF DeviceAgrees, MasterAgrees
  <2>3. DrvStart(driver, d) = v
    BY <1>2, <2>2 DEF DrvStart, MasterStart, Access, Settle, Line, v
  <2> QED BY <1>1, <1>2, <2>1, <2>3 DEF DeviceAgrees, MasterAgrees
<1>3. CASE driver # "master"
  <2> DEFINE v == [d EXCEPT !.event = TRUE]
  <2>1. v \in DeviceRecord /\ v.start = d.start /\ v.present = d.present /\ v.isr = d.isr
        /\ v.decoupled = d.decoupled /\ v.event /\ v.masked = d.masked /\ v.fault = d.fault
    BY DEF DeviceRecord
  <2> HIDE DEF v
  <2>2. DrvStart(driver, d) = v
    BY <1>3 DEF DrvStart, NullStart, v
  <2> QED BY <1>1, <1>3, <2>1, <2>2 DEF DeviceAgrees, NullAgrees
<1> QED BY <1>2, <1>3

\* A region is cut off and its module overwritten.
LEMMA CutAgrees ==
    ASSUME NEW d \in DeviceRecord, NEW h \in HwRecord, DeviceAgrees(d, h),
           driver # "master" => ~h.busy,
           NEW nh, nh = [h EXCEPT !.coupled = FALSE, !.fabric = NULL],
           NEW v, v = [DecoupleReg(d) EXCEPT !.present = FALSE]
    PROVE  v \in DeviceRecord /\ DeviceAgrees(v, nh)
<1>1. nh \in HwRecord /\ ~nh.coupled /\ nh.irq = h.irq /\ nh.busy = h.busy
      /\ nh.fabric = NULL
  BY DEF HwRecord
<1>2. v \in DeviceRecord /\ v.start = d.start /\ ~v.present /\ v.isr = d.isr /\ v.decoupled
      /\ v.event = d.event /\ v.masked = d.masked /\ v.fault = d.fault
  BY DEF DeviceRecord, DecoupleReg
<1>3. DeviceAgrees(v, nh)
  <2>1. CASE driver = "master"
    BY <1>1, <1>2, <2>1 DEF DeviceAgrees, MasterAgrees, DeviceRecord, HwRecord
  <2>2. CASE driver # "master"
    BY <1>1, <1>2, <2>2 DEF DeviceAgrees, NullAgrees, DeviceRecord, HwRecord
  <2> QED BY <2>1, <2>2
<1> QED BY <1>2, <1>3

\* A runaway is cut off.
LEMMA DecoupledAgrees ==
    ASSUME NEW d \in DeviceRecord, NEW h \in HwRecord, DeviceAgrees(d, h), driver = "master",
           NEW nh, nh = [h EXCEPT !.coupled = FALSE]
    PROVE  DecoupleReg(d) \in DeviceRecord /\ DeviceAgrees(DecoupleReg(d), nh)
<1>1. ~nh.coupled /\ nh.irq = h.irq /\ nh.busy = h.busy /\ nh.fabric = h.fabric
  BY DEF HwRecord
<1> DEFINE v == DecoupleReg(d)
<1>2. v \in DeviceRecord /\ v.present = d.present /\ v.decoupled
      /\ v.event = d.event /\ v.masked = d.masked /\ v.fault = d.fault
  BY DEF DeviceRecord, DecoupleReg
<1> HIDE DEF v
<1>3. DeviceAgrees(v, nh)
  BY <1>1, <1>2 DEF DeviceAgrees, MasterAgrees
<1> QED BY <1>2, <1>3 DEF v

\* A completion is consumed: the event, the status register and the mask.
LEMMA AfterComputeAgrees ==
    ASSUME NEW d \in DeviceRecord, NEW h \in HwRecord, DeviceAgrees(d, h),
           h.coupled, h.fabric # NULL, h.irq, ~h.busy,
           NEW nh, nh = [h EXCEPT !.irq = FALSE]
    PROVE  /\ DrvAfterCompute(driver, d) \in DeviceRecord
           /\ DeviceAgrees(DrvAfterCompute(driver, d), nh)
<1>1. nh \in HwRecord /\ nh.busy = h.busy /\ nh.coupled = h.coupled /\ ~nh.irq
      /\ nh.fabric = h.fabric
  BY DEF HwRecord
<1>2. CASE driver = "master"
  <2> DEFINE e == UioReadForIrq(d)
             v == [e EXCEPT !.isr = FALSE]
             w == [v EXCEPT !.masked = FALSE]
  <2>1. e \in DeviceRecord /\ e.decoupled = d.decoupled /\ e.present = d.present
    BY DEF DeviceRecord, UioReadForIrq
  <2>2. v \in DeviceRecord /\ ~v.isr
    BY <2>1 DEF DeviceRecord
  <2>3. w \in DeviceRecord /\ w.start = d.start /\ w.present = d.present /\ w.ier = d.ier
        /\ w.gie = d.gie /\ ~w.isr /\ w.decoupled = d.decoupled /\ ~w.event
        /\ ~w.masked /\ w.fault = d.fault
    BY DEF DeviceRecord, UioReadForIrq
  <2> HIDE DEF e, v, w
  <2>4. ~d.decoupled /\ d.present
    BY <1>2 DEF DeviceAgrees, MasterAgrees
  <2>5. Access(e, v) = v
    BY <2>1, <2>2, <2>4 DEF Access, Settle, Line
  <2>6. DrvAfterCompute(driver, d) = w
    <3>1. DrvAfterCompute(driver, d) = UioClearGic(v)
      BY <1>2, <2>5 DEF DrvAfterCompute, MasterAfterCompute, e, v
    <3> QED BY <2>3, <3>1 DEF UioClearGic, Settle, Line, w
  <2> QED BY <1>1, <1>2, <2>3, <2>6
       DEF DeviceAgrees, MasterAgrees, DeviceRecord, HwRecord
<1>3. CASE driver # "master"
  <2> DEFINE v == [d EXCEPT !.event = FALSE]
  <2>1. v \in DeviceRecord /\ v.start = d.start /\ v.present = d.present /\ v.isr = d.isr
        /\ v.decoupled = d.decoupled /\ ~v.event /\ v.masked = d.masked /\ v.fault = d.fault
    BY DEF DeviceRecord
  <2> HIDE DEF v
  <2>2. DrvAfterCompute(driver, d) = v
    BY <1>3 DEF DrvAfterCompute, NullAfterCompute, v
  <2> QED BY <1>1, <1>3, <2>1, <2>2
       DEF DeviceAgrees, NullAgrees, DeviceRecord, HwRecord
<1> QED BY <1>2, <1>3

\* A fresh module is coupled, and only then are its interrupts enabled.
LEMMA ReinitAgrees ==
    ASSUME NEW d \in DeviceRecord, NEW h \in HwRecord, DeviceAgrees(d, h),
           h.fabric # NULL, ~h.irq, ~h.busy, ~d.start, ~d.isr,
           NEW nh, nh = [h EXCEPT !.coupled = TRUE]
    PROVE  /\ ReinitAfterRcfg(driver, d) \in DeviceRecord
           /\ DeviceAgrees(ReinitAfterRcfg(driver, d), nh)
<1>1. nh \in HwRecord /\ nh.busy = h.busy /\ nh.coupled /\ nh.irq = h.irq
      /\ nh.fabric = h.fabric
  BY DEF HwRecord
<1> DEFINE c == [d EXCEPT !.decoupled = FALSE]
<1>2. c \in DeviceRecord /\ c.start = d.start /\ c.present = d.present /\ c.ier = d.ier
      /\ c.gie = d.gie /\ c.isr = d.isr /\ ~c.decoupled /\ c.event = d.event
      /\ c.masked = d.masked /\ c.fault = d.fault
  BY DEF DeviceRecord
<1> HIDE DEF c
<1>3. CoupleReg(d) = c
  BY <1>2 DEF CoupleReg, Settle, Line, c
<1>4. CASE driver = "master"
  <2> DEFINE v == [c EXCEPT !.ier = TRUE, !.gie = TRUE]
  <2>1. v \in DeviceRecord /\ v.start = c.start /\ v.present = c.present /\ v.ier
        /\ v.gie /\ v.isr = c.isr /\ v.decoupled = c.decoupled /\ v.event = c.event
        /\ v.masked = c.masked /\ v.fault = c.fault
    BY <1>2 DEF DeviceRecord
  <2> HIDE DEF v
  <2>2. c.present
    BY <1>2, <1>4 DEF DeviceAgrees, MasterAgrees
  <2>3. ReinitAfterRcfg(driver, d) = v
    BY <1>2, <1>3, <1>4, <2>1, <2>2
       DEF ReinitAfterRcfg, DrvAfterRcfg, MasterAfterRcfg, Access, Settle, Line, v
  <2> QED BY <1>1, <1>2, <1>4, <2>1, <2>3
       DEF DeviceAgrees, MasterAgrees, DeviceRecord, HwRecord
<1>5. CASE driver # "master"
  <2>1. ReinitAfterRcfg(driver, d) = c
    BY <1>3, <1>5 DEF ReinitAfterRcfg, DrvAfterRcfg
  <2> QED BY <1>1, <1>2, <1>5, <2>1
       DEF DeviceAgrees, NullAgrees, DeviceRecord, HwRecord
<1> QED BY <1>4, <1>5

\* An accelerator finishes: its event becomes readable and its interrupt is masked.
LEMMA FinishVisible ==
    ASSUME NEW d \in DeviceRecord, NEW h \in HwRecord, driver = "master", DeviceAgrees(d, h),
           h.coupled, h.fabric # NULL, ~h.irq
    PROVE  /\ Finish(d) = [d EXCEPT !.start = FALSE, !.isr = TRUE, !.event = TRUE,
                                    !.masked = TRUE]
           /\ Finish(d).event
<1> DEFINE v == [d EXCEPT !.start = FALSE, !.isr = TRUE]
<1>1. v.ier = d.ier /\ v.gie = d.gie /\ v.isr /\ v.decoupled = d.decoupled
      /\ v.masked = d.masked /\ v \in DeviceRecord
  BY DEF DeviceRecord
<1>2. d.ier /\ d.gie /\ ~d.decoupled /\ ~d.masked
  BY DEF DeviceAgrees, MasterAgrees
<1> HIDE DEF v
<1>3. Finish(d) = [v EXCEPT !.event = TRUE, !.masked = TRUE]
  BY <1>1, <1>2 DEF Finish, Settle, Line, v
<1>4. [v EXCEPT !.event = TRUE, !.masked = TRUE].event
  BY <1>1 DEF DeviceRecord
<1>5. [v EXCEPT !.event = TRUE, !.masked = TRUE]
        = [d EXCEPT !.start = FALSE, !.isr = TRUE, !.event = TRUE, !.masked = TRUE]
  BY DEF v
<1> QED BY <1>3, <1>4, <1>5

LEMMA FinishAgrees ==
    ASSUME NEW d \in DeviceRecord, NEW h \in HwRecord, driver = "master", DeviceAgrees(d, h),
           h.coupled, h.fabric # NULL, ~h.irq,
           NEW nh, nh = [h EXCEPT !.busy = FALSE, !.irq = TRUE]
    PROVE  Finish(d) \in DeviceRecord /\ DeviceAgrees(Finish(d), nh)
<1>1. nh \in HwRecord /\ ~nh.busy /\ nh.coupled = h.coupled /\ nh.irq
      /\ nh.fabric = h.fabric
  BY DEF HwRecord
<1> DEFINE v == [d EXCEPT !.start = FALSE, !.isr = TRUE, !.event = TRUE, !.masked = TRUE]
<1>2. v \in DeviceRecord /\ ~v.start /\ v.present = d.present /\ v.ier = d.ier
      /\ v.gie = d.gie /\ v.isr /\ v.decoupled = d.decoupled /\ v.event
      /\ v.masked /\ v.fault = d.fault
  BY DEF DeviceRecord
<1>3. Finish(d) = v
  BY FinishVisible
<1> HIDE DEF v
<1> QED BY <1>1, <1>2, <1>3
       DEF DeviceAgrees, MasterAgrees, DeviceRecord, HwRecord

\* A runaway that finishes behind its decoupler raises nothing.
LEMMA RunawayAgrees ==
    ASSUME NEW d \in DeviceRecord, NEW h \in HwRecord, DeviceAgrees(d, h), d.decoupled, d.start
    PROVE  Finish(d) \in DeviceRecord /\ DeviceAgrees(Finish(d), h)
<1> DEFINE v == [d EXCEPT !.start = FALSE, !.isr = TRUE]
<1>1. v \in DeviceRecord /\ v.present = d.present /\ v.decoupled /\ v.event = d.event
      /\ v.masked = d.masked /\ v.fault = d.fault
  BY DEF DeviceRecord
<1> HIDE DEF v
<1>2. Finish(d) = v
  BY <1>1 DEF Finish, Settle, Line, v
<1>3. driver = "master" /\ ~h.coupled
  BY DEF DeviceAgrees, MasterAgrees, NullAgrees, HwRecord, DeviceRecord
<1> QED BY <1>1, <1>2, <1>3
       DEF DeviceAgrees, MasterAgrees, DeviceRecord, HwRecord

\* A bitstream is loaded into a region that is cut off.
LEMMA LoadedAgrees ==
    ASSUME NEW d \in DeviceRecord, NEW h \in HwRecord, DeviceAgrees(d, h), ~h.coupled,
           NEW t, t # NULL, NEW nh, nh = [h EXCEPT !.fabric = t, !.busy = FALSE]
    PROVE  /\ Loaded(d) \in DeviceRecord /\ DeviceAgrees(Loaded(d), nh)
           /\ ~Loaded(d).start /\ ~Loaded(d).isr
<1>1. ~nh.busy /\ nh.coupled = h.coupled /\ nh.irq = h.irq /\ nh.fabric = t
  BY DEF HwRecord
<1> DEFINE v == Loaded(d)
<1>2. v \in DeviceRecord /\ ~v.start /\ v.present /\ ~v.isr /\ v.decoupled = d.decoupled
      /\ v.event = d.event /\ v.masked = d.masked /\ v.fault = d.fault
  BY DEF DeviceRecord, Loaded
<1> HIDE DEF v
<1>3. DeviceAgrees(v, nh)
  <2>1. CASE driver = "master"
    BY <1>1, <1>2, <2>1 DEF DeviceAgrees, MasterAgrees
  <2>2. CASE driver # "master"
    BY <1>1, <1>2, <2>2 DEF DeviceAgrees, NullAgrees
  <2> QED BY <2>1, <2>2
<1> QED BY <1>2, <1>3 DEF v

-----------------------------------------------------------------------------
(* A handler with its driver calls. *)

\* The slots, fabric and devices with which a handler comes to serve the FRI queue.
Prepared(sl, h, dv, d, m) ==
    /\ sl \in [Slots -> SlotRecord] /\ h \in [Slots -> HwRecord]
    /\ d \in [Slots -> DeviceRecord] /\ m \in ManagerRecord
    /\ \A s \in Slots : DeviceAgrees(d[s], h[s])
    /\ ManagerAgrees(m, dv)
    /\ dv.state = "IDLE" => dv.drv = "quiet"
    /\ dv.drv # "quiet" => dv = devcfg
    /\ \A s \in Slots :
         /\ sl[s].state = "EXEC" => slot[s].state = "EXEC"
         /\ sl[s].state = "RCFG" => slot[s].state = "RCFG" /\ h[s] = hw[s] /\ d[s] = dev[s]
         /\ sl[s].state = "RSRV" => slot[s].state # "RCFG" /\ (driver # "master" => ~h[s].busy)
         /\ Starts(s, sl, h) => slot[s].state # "EXEC"

\* The module of a slot that executes can be reached, and computes or has an interrupt.
Executes(s) == hw[s].coupled /\ hw[s].fabric # NULL /\ hw[s].busy # hw[s].irq

LEMMA ExecutingModule ==
    IInv /\ Owned /\ Up => \A s \in Slots : slot[s].state = "EXEC" => Executes(s)
<1> SUFFICES ASSUME IInv, Owned, Up, NEW s \in Slots, slot[s].state = "EXEC"
             PROVE  Executes(s)
  OBVIOUS
<1>1. SlotAgrees(slot[s], timer[s], hw[s], devcfg)
  BY DEF Owned, Agreed
<1>2. slot[s].exec_req \in Waiters /\ req[slot[s].exec_req].slot = s /\ s # NULL
  BY ExecutingOwner, ConstantsOK
<1>3. /\ InItsPlace(slot[s].exec_req, slot, devcfg, req, part_queues, fri_queue)
      /\ TaskAgrees(slot[s].exec_req, slot, hw, req)
  BY <1>2 DEF Owned, Placed, Agreed
<1>4. slot[s].hw_task # NULL
  BY <1>2, <1>3 DEF InItsPlace, TaskAgrees
<1> QED BY <1>1, <1>4 DEF SlotAgrees, Executes

LEMMA ExecutesNext ==
    IInv' /\ Owned' /\ Up' => (\A s \in Slots : slot[s].state = "EXEC" => Executes(s))'
BY ExecutingModule, PTL

\* Each slot's registers follow what the handler does to the slot.
LEMMA ServedAgrees ==
    ASSUME IInv', Owned', Up', NEW sl, NEW h, NEW dv, NEW d, NEW m, Prepared(sl, h, dv, d, m),
           NEW s \in Slots, Slotwise(s, sl, h)
    PROVE  /\ ServedDevice(d[s], s) \in DeviceRecord
           /\ DeviceAgrees(ServedDevice(d[s], s), hw'[s])
<1>1. /\ sl[s] \in SlotRecord /\ h[s] \in HwRecord /\ d[s] \in DeviceRecord
      /\ DeviceAgrees(d[s], h[s])
      /\ sl[s].state = "EXEC" => slot[s].state = "EXEC"
      /\ sl[s].state = "RCFG" => slot[s].state = "RCFG"
      /\ sl[s].state = "RSRV" => slot[s].state # "RCFG" /\ (driver # "master" => ~h[s].busy)
      /\ Starts(s, sl, h) => slot[s].state # "EXEC"
  BY DEF Prepared
<1>2. CASE Starts(s, sl, h)
  <2>1. slot'[s].state = "EXEC" /\ slot[s].state # "EXEC" /\ hw'[s] = [h[s] EXCEPT !.busy = TRUE]
    BY <1>1, <1>2 DEF Starts
  <2>2. hw'[s].coupled /\ hw'[s].fabric # NULL /\ hw'[s].busy # hw'[s].irq
    BY <2>1, ExecutesNext DEF Executes
  <2>3. h[s].coupled /\ h[s].fabric # NULL /\ ~h[s].irq
    BY <1>1, <2>1, <2>2 DEF HwRecord
  <2>4. ServedDevice(d[s], s) = DrvStart(driver, d[s])
    BY <2>1 DEF ServedDevice
  <2> QED BY <1>1, <2>1, <2>3, <2>4, StartAgrees
<1>3. CASE Programming(s, sl, h)
  <2>1. /\ slot'[s].state = "RCFG" /\ slot[s].state # "RCFG"
        /\ hw'[s] = [h[s] EXCEPT !.coupled = FALSE, !.fabric = NULL]
        /\ driver # "master" => ~h[s].busy
    BY <1>1, <1>3 DEF Programming
  <2>2. ServedDevice(d[s], s) = [DecoupleReg(d[s]) EXCEPT !.present = FALSE]
    BY <2>1 DEF ServedDevice
  <2> QED BY <1>1, <2>1, <2>2, CutAgrees
<1>4. CASE Same(s, sl, h)
  <2>1. slot'[s] = sl[s] /\ hw'[s] = h[s]
    BY <1>4 DEF Same
  <2>2. ServedDevice(d[s], s) = d[s]
    BY <1>1, <2>1 DEF ServedDevice
  <2> QED BY <1>1, <2>1, <2>2
<1> QED BY <1>2, <1>3, <1>4 DEF Slotwise

\* A handler, whatever slots and devices it has prepared, leaves all devices in agreement.
LEMMA HandlerKeepsDevices ==
    ASSUME IInv, IInv', Owned', Up', DriversOwned, Up,
           NEW sl, NEW tm, NEW h, NEW dv, NEW W \in SUBSET Requests,
           Moves(sl, tm, h, dv, req', W), NEW d, NEW m, Prepared(sl, h, dv, d, m),
           driver # "master" => \A s \in Slots : tm[s].state # "expired",
           DriverCalls(d, m)
    PROVE  DriversOwned'
<1> USE ConstantsOK
<1>1. /\ dev' = [s \in Slots |-> ServedDevice(d[s], s)] /\ driver' = driver
      /\ mgr' = IF Programs
                THEN StartRcfg(m, <<req'[devcfg'.current_rcfg_req].slot,
                                    req'[devcfg'.current_rcfg_req].hw_task>>)
                ELSE m
  BY DEF DriverCalls, Up
<1>2. /\ \A s \in Slots : Slotwise(s, sl, h)
      /\ DeviceMoves(sl, h, dv, req', W)
      /\ \A s \in Slots : timer'[s] = tm[s] \/ timer'[s].state = "armed"
  BY DEF Moves
<1>3. /\ dev' \in [Slots -> DeviceRecord]
      /\ \A s \in Slots : DeviceAgrees(dev'[s], hw'[s])
  BY <1>1, <1>2, ServedAgrees
<1>4. \A s \in Slots : ~dev'[s].fault
  BY <1>3 DEF DeviceAgrees, MasterAgrees, NullAgrees
<1>5. \A s \in Slots : DeviceAgrees(dev[s], hw[s])'
  BY <1>1, <1>3 DEF DeviceAgrees, MasterAgrees, NullAgrees
<1>6. NoNullTimeout'
  BY <1>1, <1>2 DEF NoNullTimeout
<1>7. DeviceHolds(slot', devcfg', req', Waiters') /\ Waiters' \subseteq Requests
  BY DEF Owned, Placed, Waiters
<1>8. mgr' \in ManagerRecord /\ ManagerAgrees(mgr', devcfg') /\ Detached'
  <2>1. CASE devcfg' = dv /\ \A s \in Slots : ~Programming(s, sl, h)
    <3>1. ~Programs
      <4>1. SUFFICES ASSUME NEW s \in Slots, slot'[s].state = "RCFG", slot[s].state # "RCFG"
                     PROVE  FALSE
        BY DEF Programs
      <4>2. Same(s, sl, h)
        BY <1>2, <2>1, <4>1 DEF Slotwise, Starts
      <4> QED BY <4>1, <4>2 DEF Same, Prepared
    <3>2. mgr' = m
      BY <1>1, <3>1
    <3>3. Detached'
      <4>1. SUFFICES ASSUME devcfg'.drv # "quiet"
                     PROVE  /\ ~hw'[devcfg'.bit_slot].coupled
                            /\ devcfg'.drv = "done" => ~dev'[devcfg'.bit_slot].start
                                                      /\ ~dev'[devcfg'.bit_slot].isr
        BY DEF Detached
      <4> DEFINE u == devcfg'.bit_slot
      <4>2. devcfg' = devcfg
        BY <2>1, <4>1 DEF Prepared
      <4>3. slot'[u].state = "RCFG" /\ u \in Slots
        <5>1. devcfg'.state = "PROG" /\ u = req'[devcfg'.current_rcfg_req].slot /\ u # NULL
              /\ devcfg'.current_rcfg_req \in Requests /\ slot'[u].state = "RCFG"
          BY <1>7, <4>1 DEF DeviceHolds
        <5>2. req'[devcfg'.current_rcfg_req] \in RequestRecord
          BY <5>1 DEF IInv, TypeOK
        <5> QED BY <5>1, <5>2 DEF RequestRecord
      <4>4. Same(u, sl, h)
        BY <1>2, <2>1, <4>3 DEF Slotwise, Starts
      <4>5. hw'[u] = hw[u] /\ d[u] = dev[u] /\ slot[u].state = "RCFG"
        BY <4>3, <4>4 DEF Same, Prepared
      <4>6. dev'[u] = dev[u]
        BY <1>1, <4>3, <4>5 DEF ServedDevice
      <4>7. Detached /\ devcfg.bit_slot = u
        BY <4>2 DEF DriversOwned
      <4> QED BY <4>1, <4>2, <4>5, <4>6, <4>7 DEF Detached
    <3> QED BY <2>1, <3>2, <3>3 DEF Prepared
  <2>2. CASE \E r \in W : /\ sl[req'[r].slot].state = "RSRV" /\ dv.state = "IDLE"
                          /\ devcfg' = [state |-> "PROG", current_rcfg_req |-> r,
                                        drv |-> "loading", bit_slot |-> req'[r].slot,
                                        bit_task |-> req'[r].hw_task]
    <3>1. PICK r \in W : /\ sl[req'[r].slot].state = "RSRV" /\ dv.state = "IDLE"
                         /\ devcfg' = [state |-> "PROG", current_rcfg_req |-> r,
                                       drv |-> "loading", bit_slot |-> req'[r].slot,
                                       bit_task |-> req'[r].hw_task]
      BY <2>2
    <3> DEFINE u == req'[r].slot
               t == req'[r].hw_task
    <3>2. /\ devcfg'.state = "PROG" /\ devcfg'.current_rcfg_req = r /\ devcfg'.drv = "loading"
          /\ devcfg'.bit_slot = u /\ devcfg'.bit_task = t
      BY <3>1
    <3>3. r \in Waiters' /\ slot'[u].state = "RCFG" /\ u # NULL
      BY <1>7, <3>2 DEF DeviceHolds
    <3>4. u \in Slots /\ t \in HwTasks
      <4>1. req'[r] \in RequestRecord
        BY DEF IInv, TypeOK
      <4>2. InItsPlace(r, slot', devcfg', req', part_queues', fri_queue')
        BY <3>3 DEF Owned, Placed
      <4> QED BY <3>3, <4>1, <4>2 DEF RequestRecord, InItsPlace
    <3>5. slot[u].state # "RCFG"
      BY <3>1, <3>4 DEF Prepared
    <3>6. Programs
      BY <3>3, <3>4, <3>5 DEF Programs
    <3>7. mgr' = [m EXCEPT !.addr = <<u, t>>, !.size = <<u, t>>, !.loading = TRUE]
      BY <1>1, <3>2, <3>6 DEF StartRcfg
    <3>8. <<u, t>> \in Bitstreams
      BY <3>4 DEF Bitstreams
    <3>9. m \in ManagerRecord /\ ManagerAgrees(m, dv) /\ dv.drv = "quiet"
      BY <3>1 DEF Prepared
    <3> HIDE DEF u, t
    <3>10. mgr' \in ManagerRecord /\ mgr'.addr = <<u, t>> /\ mgr'.size = <<u, t>>
           /\ mgr'.loading /\ mgr'.notified = m.notified
      BY <3>7, <3>8, <3>9 DEF ManagerRecord
    <3>11. ManagerAgrees(mgr', devcfg')
      BY <3>2, <3>9, <3>10 DEF ManagerAgrees, ManagerRecord
    <3>12. ~hw'[u].coupled
      <4>1. Programming(u, sl, h)
        <5>1. Slotwise(u, sl, h) /\ sl[u].state = "RSRV"
          BY <1>2, <3>1, <3>4 DEF u
        <5> QED BY <3>3, <5>1 DEF Slotwise, Starts, Same, u
      <4>2. h[u] \in HwRecord
        BY <3>4 DEF Prepared
      <4> QED BY <4>1, <4>2 DEF Programming, HwRecord
    <3>13. Detached'
      BY <3>2, <3>12 DEF Detached
    <3> QED BY <3>10, <3>11, <3>13
  <2> QED BY <1>2, <2>1, <2>2 DEF DeviceMoves
<1> QED BY <1>3, <1>4, <1>5, <1>6, <1>8 DEF DriversOwned, DevicesTyped, ManagerAgrees

\* A server that stops leaves its registers as they are.
LEMMA StoppedKeepsDevices ==
    ASSUME DriversOwned, ~Up', UNCHANGED <<driver, dev, mgr>>
    PROVE  DriversOwned'
BY DEF DriversOwned, DevicesTyped

\* The driver calls of a handler that stops the server.
LEMMA StoppingKeepsDevices ==
    ASSUME DriversOwned, ~Up', NEW d, NEW m, DriverCalls(d, m)
    PROVE  DriversOwned'
BY StoppedKeepsDevices DEF DriverCalls, Up

\* In every state: an accelerator computes behind an open decoupler only in a slot that
\* executes, and the device is quiet while it is idle.
LEMMA QuietOutside ==
    ASSUME IInv, Owned, Up, DriversOwned
    PROVE  /\ \A s \in Slots : slot[s].state # "EXEC" /\ driver # "master" => ~hw[s].busy
           /\ devcfg.state = "IDLE" => devcfg.drv = "quiet"
<1>1. ASSUME NEW s \in Slots, slot[s].state # "EXEC", driver # "master" PROVE ~hw[s].busy
  <2>1. SlotAgrees(slot[s], timer[s], hw[s], devcfg)
    BY DEF Owned, Agreed
  <2>2. NullAgrees(dev[s], hw[s])
    BY <1>1 DEF DriversOwned, DeviceAgrees
  <2> QED BY <1>1, <2>1, <2>2 DEF SlotAgrees, NullAgrees
<1>2. DeviceHolds(slot, devcfg, req, Waiters)
  BY DEF Owned, Placed
<1> QED BY <1>1, <1>2 DEF DeviceHolds

\* A client's request.
LEMMA HandleRunKeepsDevices ==
    ASSUME IInv, Owned, IInv', Owned', DriversOwned, NEW r \in Requests, NEW t \in HwTasks,
           HandleRun(r, t)
    PROVE  DriversOwned'
<1>1. Up /\ Run(r, t) /\ DriverCalls(dev, mgr)
  BY DEF HandleRun, Run, Up
<1>2. CASE ~Up'
  BY <1>1, <1>2, StoppingKeepsDevices
<1>3. CASE Up'
  <2>1. PICK sl \in [Slots -> SlotRecord] :
          /\ Moves(sl, timer, hw, devcfg, req', Requests)
          /\ \A u \in Slots : sl[u] = slot[u] \/ ( /\ sl[u].state = "RSRV"
                                                  /\ slot[u].state \in {"IDLE", "BLANK"})
    BY <1>1, <1>3, RunMoves
  <2>2. Prepared(sl, hw, devcfg, dev, mgr)
    <3>1. hw \in [Slots -> HwRecord]
      BY DEF IInv, TypeOK
    <3>2. ASSUME NEW s \in Slots
          PROVE  /\ sl[s].state = "EXEC" => slot[s].state = "EXEC"
                 /\ sl[s].state = "RCFG" => slot[s].state = "RCFG"
                 /\ sl[s].state = "RSRV" => /\ slot[s].state # "RCFG"
                                            /\ driver # "master" => ~hw[s].busy
                 /\ Starts(s, sl, hw) => slot[s].state # "EXEC"
      BY <1>1, <2>1, QuietOutside DEF Starts
    <3> QED BY <1>1, <2>1, <3>1, <3>2, QuietOutside DEF Prepared, DriversOwned, DevicesTyped
  <2>3. driver # "master" => \A s \in Slots : timer[s].state # "expired"
    BY <1>1 DEF DriversOwned, NoNullTimeout
  <2> QED BY <1>1, <1>3, <2>1, <2>2, <2>3, HandlerKeepsDevices
<1> QED BY <1>2, <1>3

\* Slot s, which executes request r, is freed and handed on in state st, with watchdogs tm,
\* fabric h and registers e.
HandsOn(s, r, st, tm, h, e) ==
    /\ req[r].slot = s /\ slot[s].state = "EXEC"
    /\ \A u \in Slots : u # s => h[u] = hw[u]
    /\ Pull(WithState(slot, s, st), tm, h, s, SlotPartition[s])
    /\ e \in DeviceRecord /\ DeviceAgrees(e, h[s])
    /\ driver # "master" => ~h[s].busy /\ \A u \in Slots : tm[u].state # "expired"

\* An execution ends and its slot is handed on. Nobody can start on it at once: the
\* request that gets it has to have it programmed.
LEMMA FreeingKeepsDevices ==
    ASSUME IInv, Owned, IInv', Owned', Up, Up', DriversOwned,
           NEW s \in Slots, NEW r \in Waiters, NEW st \in {"IDLE", "BLANK"}, NEW tm,
           NEW h \in [Slots -> HwRecord], NEW e, HandsOn(s, r, st, tm, h, e),
           NEW d, d = [dev EXCEPT ![s] = e], DriverCalls(d, mgr)
    PROVE  DriversOwned'
<1> USE ConstantsOK
<1> DEFINE V == Waiters \ {r}
           sl == WithState(slot, s, st)
<1>0. /\ req[r].slot = s /\ slot[s].state = "EXEC" /\ Pull(sl, tm, h, s, SlotPartition[s])
      /\ \A u \in Slots : u # s => h[u] = hw[u]
      /\ e \in DeviceRecord /\ DeviceAgrees(e, h[s])
      /\ driver # "master" => ~h[s].busy /\ \A u \in Slots : tm[u].state # "expired"
  BY DEF HandsOn
<1>1. /\ slot \in [Slots -> SlotRecord] /\ st \in SlotStates
      /\ SlotPartition[s] \in Partitions /\ V \in SUBSET Requests
  BY DEF IInv, TypeOK, SlotStates, Waiters
<1>2. /\ sl \in [Slots -> SlotRecord] /\ sl[s].state = st
      /\ \A u \in Slots : u # s => sl[u] = slot[u]
  BY <1>1, WithStateAt
<1>3. Placed(sl, devcfg, req, part_queues, fri_queue, V)
  <2>1. Placed(slot, devcfg, req, part_queues, fri_queue, Waiters)
    BY DEF Owned
  <2> QED BY <1>0, <1>1, <2>1, ReleasedPlaced
<1>4. fri_queue \in Seq(V) /\ part_queues[SlotPartition[s]] \in Seq(V)
  BY <1>1, <1>3 DEF Placed, FriHolds, PartitionsHold
<1> HIDE DEF sl, V
<1>6. PICK nsl \in [Slots -> SlotRecord] :
        /\ nsl = sl \/ nsl = WithState(sl, s, "RSRV")
        /\ Moves(nsl, tm, h, devcfg, req', V)
        /\ \A u \in Requests : /\ req'[u].hw_task = req[u].hw_task
                               /\ req'[u].skip_rcfg = req[u].skip_rcfg
                               /\ req[u].slot # NULL => req'[u].slot = req[u].slot
  BY SMTT(30), <1>0, <1>1, <1>2, <1>4, Refilled
<1>7. nsl[s].state \in {st, "RSRV"} /\ \A u \in Slots : u # s => nsl[u] = slot[u]
  <2> DEFINE rsl == WithState(sl, s, "RSRV")
  <2>1. "RSRV" \in SlotStates
    BY DEF SlotStates
  <2>2. rsl[s].state = "RSRV" /\ \A u \in Slots : u # s => rsl[u] = sl[u]
    BY <1>2, <2>1, WithStateAt
  <2>3. nsl = sl \/ nsl = rsl
    BY <1>6
  <2> HIDE DEF rsl
  <2> QED BY <1>2, <2>2, <2>3
<1>8. ~Starts(s, nsl, h)
  <2>1. SUFFICES ASSUME Starts(s, nsl, h) PROVE FALSE
    OBVIOUS
  <2>2. PICK x \in V : req'[x].slot = s /\ (req'[x].skip_rcfg \/ nsl[s].state = "READY")
    BY <1>6, <2>1 DEF Moves, MayStartOn
  <2>3. x \in Waiters /\ x # r /\ x \in Requests
    BY <1>1, <2>2 DEF V
  <2>4. req[x].skip_rcfg
    BY <1>6, <1>7, <2>2, <2>3
  <2>5. InItsPlace(x, slot, devcfg, req, part_queues, fri_queue)
        /\ SlotsMatched(slot, req, Waiters)
    BY <2>3 DEF Owned, Placed
  <2>6. req[x].slot # NULL
    BY <2>4, <2>5 DEF InItsPlace
  <2>7. req[x].slot = s
    BY <1>6, <2>2, <2>3, <2>6
  <2> QED BY <1>0, <2>3, <2>5, <2>6, <2>7 DEF SlotsMatched
<1>9. /\ d \in [Slots -> DeviceRecord] /\ d[s] = e
      /\ \A u \in Slots : u # s => d[u] = dev[u]
  BY <1>0 DEF DriversOwned, DevicesTyped
<1>10. Prepared(nsl, h, devcfg, d, mgr)
  <2>1. ASSUME NEW u \in Slots
        PROVE  /\ nsl[u].state = "EXEC" => slot[u].state = "EXEC"
               /\ nsl[u].state = "RCFG" => slot[u].state = "RCFG" /\ h[u] = hw[u] /\ d[u] = dev[u]
               /\ nsl[u].state = "RSRV" => /\ slot[u].state # "RCFG"
                                           /\ driver # "master" => ~h[u].busy
               /\ Starts(u, nsl, h) => slot[u].state # "EXEC"
               /\ DeviceAgrees(d[u], h[u])
    <3>1. CASE u = s
      BY <1>0, <1>7, <1>8, <1>9, <3>1
    <3>2. CASE u # s
      <4>1. nsl[u] = slot[u] /\ h[u] = hw[u] /\ d[u] = dev[u] /\ DeviceAgrees(dev[u], hw[u])
        BY <1>0, <1>7, <1>9, <3>2 DEF DriversOwned
      <4> QED BY <4>1, QuietOutside DEF Starts
    <3> QED BY <3>1, <3>2
  <2>2. ManagerAgrees(mgr, devcfg) /\ mgr \in ManagerRecord
    BY DEF DriversOwned, DevicesTyped
  <2> QED BY <1>6, <1>9, <2>1, <2>2, QuietOutside DEF Prepared
<1> QED BY <1>0, <1>1, <1>6, <1>10, HandlerKeepsDevices

\* An interrupt, or the null driver's byte.
LEMMA SlotCompleteKeepsDevices ==
    ASSUME IInv, Owned, IInv', Owned', DriversOwned, NEW s \in Slots,
           NEW delivered \in Outcomes("notify"), HandleSlotComplete(s, delivered)
    PROVE  DriversOwned'
<1> DEFINE r == slot[s].exec_req
           z == req[r].slot
           p == TaskPartition[req[r].hw_task]
           sl == ClearAfterCompute(slot, z)
           tm == Disarm(timer, z)
           h == ConsumeIrq(hw, z)
           d == [dev EXCEPT ![z] = DrvAfterCompute(driver, @)]
<1>1. Up /\ hw[s].irq /\ SlotComplete(s, delivered) /\ DriverCalls(d, mgr)
  BY DEF HandleSlotComplete, SlotComplete, SlotHandler, Up
<1>2. CASE ~Up'
  BY <1>1, <1>2, StoppingKeepsDevices
<1>3. CASE Up'
  <2>1. SlotAgrees(slot[s], timer[s], hw[s], devcfg)
    BY <1>1 DEF Owned, Agreed
  <2>2. slot[s].state = "EXEC"
    BY <1>1, <2>1 DEF SlotAgrees
  <2>3. r \in Waiters /\ z = s /\ p = SlotPartition[s] /\ z # NULL
    BY <1>1, <2>2, ExecutingOwner, ConstantsOK
  <2>4. /\ slot \in [Slots -> SlotRecord] /\ hw \in [Slots -> HwRecord]
        /\ timer \in [Slots -> TimerRecord] /\ dev \in [Slots -> DeviceRecord]
    BY DEF IInv, TypeOK, DriversOwned, DevicesTyped
  <2>5. sl = WithState(slot, s, "IDLE")
    BY <2>3 DEF ClearAfterCompute, WithState
  <2>6. tm[s].state = "off" /\ \A u \in Slots : u # s => tm[u] = timer[u]
    BY <2>3, <2>4 DEF Disarm
  <2>7. /\ h[s] = [hw[s] EXCEPT !.irq = FALSE]
        /\ \A u \in Slots : u # s => h[u] = hw[u]
        /\ h = [u \in Slots |-> h[u]]
    BY <2>3, <2>4 DEF ConsumeIrq
  <2>8. d = [dev EXCEPT ![s] = DrvAfterCompute(driver, dev[s])]
    BY <2>3, <2>4
  <2>9. Pull(sl, tm, h, z, p)
    <3>1. slot[z].state = "EXEC" /\ hw[z].irq
      BY <1>1, <2>2, <2>3
    <3>2. status' = "up"
      BY <1>3 DEF Up
    <3>3. SlotComplete(s, delivered)
      BY <1>1
    <3> HIDE DEF r, z, p, sl, tm, h
    <3> QED BY Zenon, <2>3, <3>1, <3>2, <3>3 DEF SlotComplete, SlotHandler, r, z, p, sl, tm, h
  <2> HIDE DEF p, sl, tm, h, d
  <2>10. h[s] \in HwRecord /\ h[s].busy = hw[s].busy
    <3>1. hw[s] \in HwRecord
      BY <2>4
    <3> QED BY <2>7, <3>1 DEF HwRecord
  <2>11. h \in [Slots -> HwRecord]
    BY <2>4, <2>7, <2>10
  <2>12. hw[s].coupled /\ hw[s].fabric # NULL /\ ~hw[s].busy
    <3>1. hw[s] \in HwRecord /\ Executes(s)
      BY <1>1, <2>2, <2>4, ExecutingModule
    <3> QED BY <1>1, <3>1 DEF Executes, HwRecord
  <2>13. /\ DrvAfterCompute(driver, dev[s]) \in DeviceRecord
         /\ DeviceAgrees(DrvAfterCompute(driver, dev[s]), h[s])
    <3>1. dev[s] \in DeviceRecord /\ hw[s] \in HwRecord /\ DeviceAgrees(dev[s], hw[s])
      BY <1>1, <2>4 DEF DriversOwned
    <3> QED BY <1>1, <2>7, <2>12, <3>1, AfterComputeAgrees
  <2>14. driver # "master" => \A u \in Slots : tm[u].state # "expired"
    <3>1. driver # "master" => \A u \in Slots : timer[u].state # "expired"
      BY <1>1 DEF DriversOwned, NoNullTimeout
    <3> QED BY <2>6, <3>1
  <2>15. Pull(WithState(slot, s, "IDLE"), tm, h, s, SlotPartition[s])
    BY <2>3, <2>5, <2>9
  <2>16. req[r].slot = s /\ ~h[s].busy
    BY <2>3, <2>10, <2>12
  <2> HIDE DEF r, z
  <2>17. HandsOn(s, r, "IDLE", tm, h, DrvAfterCompute(driver, dev[s]))
    BY <2>2, <2>7, <2>13, <2>14, <2>15, <2>16 DEF HandsOn
  <2> QED BY <1>1, <1>3, <2>3, <2>8, <2>11, <2>17, FreeingKeepsDevices
<1> QED BY <1>2, <1>3

\* A watchdog, which only the master driver's slots see expire.
LEMMA SlotTimeoutKeepsDevices ==
    ASSUME IInv, Owned, IInv', Owned', DriversOwned, NEW s \in Slots,
           NEW delivered \in Outcomes("notify"), HandleSlotTimeout(s, delivered)
    PROVE  DriversOwned'
<1> DEFINE r == timer[s].exec_req
           z == req[r].slot
           p == TaskPartition[req[r].hw_task]
           tm == [timer EXCEPT ![s].state = "off"]
           sl == DisableAfterTimeout(slot, z)
           h == Decouple(hw, z)
           d == [dev EXCEPT ![z] = DecoupleReg(@)]
<1>1. Up /\ timer[s].state = "expired" /\ SlotTimeout(s, delivered) /\ DriverCalls(d, mgr)
  BY DEF HandleSlotTimeout, SlotTimeout, Up
<1>2. CASE ~Up'
  BY <1>1, <1>2, StoppingKeepsDevices
<1>3. CASE Up'
  <2>1. SlotAgrees(slot[s], timer[s], hw[s], devcfg)
    BY <1>1 DEF Owned, Agreed
  <2>2. slot[s].state = "EXEC"
    BY <1>1, <2>1 DEF SlotAgrees
  <2>3. r \in Waiters /\ z = s /\ p = SlotPartition[s] /\ z # NULL
    BY <1>1, <2>2, ExecutingOwner, ConstantsOK
  <2>4. /\ slot \in [Slots -> SlotRecord] /\ hw \in [Slots -> HwRecord]
        /\ dev \in [Slots -> DeviceRecord]
    BY DEF IInv, TypeOK, DriversOwned, DevicesTyped
  <2>5. sl = WithState(slot, s, "BLANK")
    BY <2>3 DEF DisableAfterTimeout, WithState
  <2>6. driver = "master"
    BY <1>1 DEF DriversOwned, NoNullTimeout
  <2>7. /\ h[s] = [hw[s] EXCEPT !.coupled = FALSE]
        /\ \A u \in Slots : u # s => h[u] = hw[u]
        /\ h = [u \in Slots |-> h[u]]
    BY <2>3, <2>4 DEF Decouple
  <2>8. d = [dev EXCEPT ![s] = DecoupleReg(dev[s])]
    BY <2>3, <2>4
  <2>9. Pull(sl, tm, h, z, p)
    <3>1. slot[z].state = "EXEC"
      BY <2>2, <2>3
    <3>2. status' = "up"
      BY <1>3 DEF Up
    <3>3. SlotTimeout(s, delivered)
      BY <1>1
    <3> HIDE DEF r, z, p, sl, tm, h
    <3> QED BY Zenon, <2>3, <3>1, <3>2, <3>3 DEF SlotTimeout, r, z, p, sl, tm, h
  <2> HIDE DEF p, sl, tm, h, d
  <2>10. h \in [Slots -> HwRecord]
    <3>1. hw[s] \in HwRecord
      BY <2>4
    <3>2. h[s] \in HwRecord
      BY <2>7, <3>1 DEF HwRecord
    <3> QED BY <2>4, <2>7, <3>2
  <2>11. DecoupleReg(dev[s]) \in DeviceRecord /\ DeviceAgrees(DecoupleReg(dev[s]), h[s])
    <3>1. dev[s] \in DeviceRecord /\ hw[s] \in HwRecord /\ DeviceAgrees(dev[s], hw[s])
      BY <1>1, <2>4 DEF DriversOwned
    <3> QED BY <2>6, <2>7, <3>1, DecoupledAgrees
  <2>12. Pull(WithState(slot, s, "BLANK"), tm, h, s, SlotPartition[s])
    BY <2>3, <2>5, <2>9
  <2>13. req[r].slot = s
    BY <2>3
  <2> HIDE DEF r, z
  <2>14. HandsOn(s, r, "BLANK", tm, h, DecoupleReg(dev[s]))
    BY <2>2, <2>6, <2>7, <2>11, <2>12, <2>13 DEF HandsOn
  <2> QED BY <1>1, <1>3, <2>3, <2>8, <2>10, <2>14, FreeingKeepsDevices
<1> QED BY <1>2, <1>3

\* The end of a reconfiguration: the slot that was cut off holds a fresh module.
LEMMA RcfgCompleteKeepsDevices ==
    ASSUME IInv, Owned, IInv', Owned', DriversOwned, HandleRcfgComplete
    PROVE  DriversOwned'
<1> USE ConstantsOK
<1> DEFINE r == devcfg.current_rcfg_req
           s == req[r].slot
           dv == [devcfg EXCEPT !.state = "IDLE", !.drv = "quiet"]
           sl == [slot EXCEPT ![s].state = "READY"]
           h == Couple(hw, s)
           run == <<r>> \o fri_queue
           d == [dev EXCEPT ![s] = ReinitAfterRcfg(driver, @)]
           m == ReadRcfgDone(mgr)
<1>1. Up /\ devcfg.drv = "done" /\ RcfgComplete /\ DriverCalls(d, m)
  BY DEF HandleRcfgComplete, RcfgComplete, Up
<1>2. CASE ~Up'
  BY <1>1, <1>2, StoppingKeepsDevices
<1>3. CASE Up'
  <2>1. /\ slot \in [Slots -> SlotRecord] /\ hw \in [Slots -> HwRecord]
        /\ req \in [Requests -> RequestRecord] /\ fri_queue \in Seq(Requests)
        /\ devcfg \in DevcfgRecord /\ dev \in [Slots -> DeviceRecord]
        /\ mgr \in ManagerRecord
    BY DEF IInv, TypeOK, DriversOwned, DevicesTyped
  <2>2. /\ devcfg.state = "PROG" /\ r \in Waiters /\ r \in Requests /\ s # NULL
        /\ slot[s].state = "RCFG" /\ s \in Slots /\ devcfg.bit_slot = s
    <3>1. DeviceHolds(slot, devcfg, req, Waiters)
      BY <1>1 DEF Owned, Placed
    <3>2. /\ devcfg.state = "PROG" /\ r \in Waiters /\ r \in Requests /\ s # NULL
          /\ slot[s].state = "RCFG" /\ devcfg.bit_slot = s
      BY <1>1, <3>1 DEF DeviceHolds, Waiters
    <3> QED BY <2>1, <3>2 DEF RequestRecord
  <2>3. Serve(sl, timer, h, dv, req, run, r) /\ req' = req
    <3>1. status' = "up" /\ RcfgComplete
      BY <1>1, <1>3 DEF Up
    <3> HIDE DEF r, s, dv, sl, h, run
    <3> QED BY Zenon, <2>2, <3>1 DEF RcfgComplete, r, s, dv, sl, h, run
  <2>4. run \in Seq(Requests)
    BY <2>1, <2>2
  <2>5. sl = WithState(slot, s, "READY") /\ "READY" \in SlotStates
    BY DEF WithState, SlotStates
  <2>6. dv.state = "IDLE" /\ dv.drv = "quiet"
    BY <2>1 DEF DevcfgRecord
  <2>7. /\ h[s] = [hw[s] EXCEPT !.coupled = TRUE]
        /\ \A u \in Slots : u # s => h[u] = hw[u]
        /\ h = [u \in Slots |-> h[u]]
    BY <2>1, <2>2 DEF Couple
  <2>8. /\ d[s] = ReinitAfterRcfg(driver, dev[s])
        /\ \A u \in Slots : u # s => d[u] = dev[u]
        /\ d = [u \in Slots |-> d[u]]
    BY <2>1, <2>2
  <2> HIDE DEF r, s, dv, sl, h, run, d
  <2>9. /\ sl \in [Slots -> SlotRecord] /\ sl[s].state = "READY"
        /\ \A u \in Slots : u # s => sl[u] = slot[u]
    BY <2>1, <2>2, <2>5, WithStateAt
  <2>10. h \in [Slots -> HwRecord]
    <3>1. hw[s] \in HwRecord
      BY <2>1, <2>2
    <3>2. h[s] \in HwRecord
      BY <2>7, <3>1 DEF HwRecord
    <3> QED BY <2>1, <2>7, <3>2
  <2>11. d[s] \in DeviceRecord /\ DeviceAgrees(d[s], h[s])
    <3>1. SlotAgrees(slot[s], timer[s], hw[s], devcfg)
      BY <1>1, <2>2 DEF Owned, Agreed
    <3>2. hw[s].fabric = slot[s].hw_task /\ ~hw[s].busy /\ ~hw[s].irq
      BY <1>1, <2>2, <3>1 DEF SlotAgrees
    <3>3. slot[s].hw_task # NULL
      <4>1. TaskAgrees(r, slot, hw, req) /\ req[r].hw_task # NULL
        BY <1>1, <2>2 DEF Owned, Agreed, Placed, InItsPlace
      <4> QED BY <2>2, <4>1 DEF TaskAgrees, s
    <3>4. ~dev[s].start /\ ~dev[s].isr /\ DeviceAgrees(dev[s], hw[s])
      BY <1>1, <2>2 DEF DriversOwned, Detached
    <3>5. dev[s] \in DeviceRecord /\ hw[s] \in HwRecord
      BY <2>1, <2>2
    <3> QED BY <2>7, <2>8, <3>2, <3>3, <3>4, <3>5, ReinitAgrees
  <2>12. d \in [Slots -> DeviceRecord]
    BY <2>1, <2>8, <2>11
  <2>13. m \in ManagerRecord /\ ManagerAgrees(m, dv)
    <3>1. ManagerAgrees(mgr, devcfg)
      BY <1>1 DEF DriversOwned
    <3>2. m \in ManagerRecord /\ m.loading = mgr.loading /\ ~m.notified
      BY <2>1 DEF ReadRcfgDone, ManagerRecord
    <3>3. ~mgr.loading
      BY <1>1, <3>1 DEF ManagerAgrees
    <3> HIDE DEF m
    <3> QED BY <2>6, <3>2, <3>3 DEF ManagerAgrees, ManagerRecord
  <2> HIDE DEF m
  <2>14. Moves(sl, timer, h, dv, req, Requests)
    <3>1. r # NULL => sl[req[r].slot].state = "READY"
      BY <2>9 DEF s
    <3>2. status' = "up" /\ Requests \in SUBSET Requests
      BY <1>3 DEF Up
    <3> QED BY <2>3, <2>4, <2>9, <3>1, <3>2, ServeMoves
  <2>15. Prepared(sl, h, dv, d, m)
    <3>1. ASSUME NEW u \in Slots
          PROVE  /\ sl[u].state = "EXEC" => slot[u].state = "EXEC"
                 /\ sl[u].state = "RCFG" => /\ slot[u].state = "RCFG" /\ h[u] = hw[u]
                                            /\ d[u] = dev[u]
                 /\ sl[u].state = "RSRV" => /\ slot[u].state # "RCFG"
                                            /\ driver # "master" => ~h[u].busy
                 /\ Starts(u, sl, h) => slot[u].state # "EXEC"
                 /\ DeviceAgrees(d[u], h[u])
      <4>1. CASE u = s
        BY <2>2, <2>9, <2>11, <4>1
      <4>2. CASE u # s
        <5>1. /\ sl[u] = slot[u] /\ h[u] = hw[u] /\ d[u] = dev[u]
              /\ DeviceAgrees(dev[u], hw[u])
          BY <1>1, <2>7, <2>8, <2>9, <4>2 DEF DriversOwned
        <5> QED BY <1>1, <5>1, QuietOutside DEF Starts
      <4> QED BY <4>1, <4>2
    <3> QED BY <2>6, <2>9, <2>10, <2>12, <2>13, <3>1 DEF Prepared
  <2>16. driver # "master" => \A u \in Slots : timer[u].state # "expired"
    BY <1>1 DEF DriversOwned, NoNullTimeout
  <2>17. Moves(sl, timer, h, dv, req', Requests)
    BY <2>3, <2>14
  <2> QED BY <1>1, <1>3, <2>15, <2>16, <2>17, HandlerKeepsDevices
<1> QED BY <1>2, <1>3

-----------------------------------------------------------------------------
(* The hardware. *)

\* The slot the device programs.
LEMMA DeviceSlot ==
    ASSUME IInv, Owned, Up, devcfg.drv # "quiet"
    PROVE  devcfg.bit_slot \in Slots /\ devcfg.bit_task \in HwTasks
<1>1. DeviceHolds(slot, devcfg, req, Waiters)
  BY DEF Owned, Placed
<1>2. /\ devcfg.current_rcfg_req \in Waiters
      /\ devcfg.bit_slot = req[devcfg.current_rcfg_req].slot /\ devcfg.bit_slot # NULL
      /\ devcfg.bit_task = req[devcfg.current_rcfg_req].hw_task
  BY <1>1 DEF DeviceHolds
<1>3. /\ req[devcfg.current_rcfg_req] \in RequestRecord
      /\ req[devcfg.current_rcfg_req].hw_task # NULL
  BY <1>2 DEF IInv, TypeOK, Waiters, Owned, Placed, InItsPlace
<1> QED BY <1>2, <1>3 DEF RequestRecord

\* The registers of one slot change, not the device.
LEMMA OneDeviceKeeps ==
    ASSUME IInv, Owned, DriversOwned, Up, Up', NEW s \in Slots, NEW e \in DeviceRecord,
           dev' = [dev EXCEPT ![s] = e], DeviceAgrees(e, hw'[s]),
           \A u \in Slots : u # s => hw'[u] = hw[u], hw'[s].coupled = hw[s].coupled,
           devcfg.drv = "done" => devcfg.bit_slot # s,
           UNCHANGED <<timer, devcfg, driver, mgr>>
    PROVE  DriversOwned'
<1>1. /\ dev'[s] = e /\ dev' \in [Slots -> DeviceRecord]
      /\ \A u \in Slots : u # s => dev'[u] = dev[u]
  BY DEF DriversOwned, DevicesTyped
<1>2. \A u \in Slots : DeviceAgrees(dev'[u], hw'[u])
  <2>1. \A u \in Slots : u # s => DeviceAgrees(dev'[u], hw'[u])
    BY <1>1 DEF DriversOwned
  <2> QED BY <1>1, <2>1
<1>3. \A u \in Slots : ~dev'[u].fault
  BY <1>2 DEF DeviceAgrees, MasterAgrees, NullAgrees
<1>4. \A u \in Slots : DeviceAgrees(dev[u], hw[u])'
  BY <1>2 DEF DeviceAgrees
<1>5. Detached'
  <2>1. devcfg.drv # "quiet" => devcfg.bit_slot \in Slots
    BY DeviceSlot
  <2>2. \A u \in Slots : hw'[u].coupled = hw[u].coupled
    OBVIOUS
  <2>3. Detached
    BY DEF DriversOwned
  <2> QED BY <1>1, <2>1, <2>2, <2>3 DEF Detached
<1>6. NoNullTimeout' /\ ManagerAgrees(mgr, devcfg)' /\ (mgr \in ManagerRecord)'
  BY DEF DriversOwned, NoNullTimeout, ManagerAgrees, DevicesTyped
<1> QED BY <1>1, <1>3, <1>4, <1>5, <1>6 DEF DriversOwned, DevicesTyped

\* An accelerator ends its computation.
LEMMA ModuleDoneKeepsDevices ==
    ASSUME IInv, Owned, IInv', Owned', DriversOwned, NEW s \in Slots, ModuleDone(s)
    PROVE  DriversOwned'
<1>1. /\ Up /\ Up' /\ hw[s].busy /\ hw[s].coupled
      /\ hw' = [hw EXCEPT ![s].busy = FALSE, ![s].irq = TRUE]
      /\ dev' = [dev EXCEPT ![s] = IF driver = "master" THEN Finish(@) ELSE @]
      /\ UNCHANGED <<timer, slot, devcfg, driver, mgr>>
  BY DEF ModuleDone, AccelDone, Up
<1>2. /\ hw \in [Slots -> HwRecord] /\ dev \in [Slots -> DeviceRecord]
      /\ dev[s] \in DeviceRecord /\ hw[s] \in HwRecord /\ DeviceAgrees(dev[s], hw[s])
  BY <1>1 DEF IInv, TypeOK, DriversOwned, DevicesTyped
<1>3. /\ hw'[s] = [hw[s] EXCEPT !.busy = FALSE, !.irq = TRUE]
      /\ \A u \in Slots : u # s => hw'[u] = hw[u]
  BY <1>1, <1>2
<1>4. ~hw'[s].busy /\ hw'[s].irq /\ hw'[s].coupled = hw[s].coupled /\ hw'[s].fabric = hw[s].fabric
  BY <1>2, <1>3 DEF HwRecord
<1>5. devcfg.drv = "done" => devcfg.bit_slot # s
  BY <1>1 DEF DriversOwned, Detached
<1>6. CASE driver = "master"
  <2>1. ~hw[s].irq /\ hw[s].fabric # NULL
    <3>1. SlotAgrees(slot[s], timer[s], hw[s], devcfg)
      BY <1>1 DEF Owned, Agreed
    <3>2. slot[s].state = "EXEC" /\ hw[s].busy # hw[s].irq
      BY <1>1, <3>1 DEF SlotAgrees
    <3>3. hw[s].fabric # NULL
      BY <1>1, <3>2, ExecutingModule DEF Executes
    <3> QED BY <1>1, <1>2, <3>2, <3>3 DEF HwRecord
  <2>2. Finish(dev[s]) \in DeviceRecord /\ DeviceAgrees(Finish(dev[s]), hw'[s])
    BY <1>1, <1>2, <1>3, <1>6, <2>1, FinishAgrees
  <2>3. dev' = [dev EXCEPT ![s] = Finish(dev[s])]
    BY <1>1, <1>6
  <2> QED BY <1>1, <1>3, <1>4, <1>5, <2>2, <2>3, OneDeviceKeeps
<1>7. CASE driver # "master"
  <2>1. dev' = [dev EXCEPT ![s] = dev[s]]
    BY <1>1, <1>7
  <2>2. DeviceAgrees(dev[s], hw'[s])
    BY <1>1, <1>2, <1>4, <1>7 DEF DeviceAgrees, NullAgrees
  <2> QED BY <1>1, <1>2, <1>3, <1>4, <1>5, <2>1, <2>2, OneDeviceKeeps
<1> QED BY <1>6, <1>7

\* A runaway behind a closed decoupler finishes.
LEMMA RunawayDoneKeepsDevices ==
    ASSUME IInv, Owned, DriversOwned, NEW s \in Slots, RunawayDone(s)
    PROVE  DriversOwned'
<1>1. /\ Up /\ Up' /\ dev[s].decoupled /\ dev[s].start /\ dev' = [dev EXCEPT ![s] = Finish(@)]
      /\ UNCHANGED <<timer, hw, devcfg, driver, mgr>>
  BY DEF RunawayDone, Up, vars
<1>2. dev[s] \in DeviceRecord /\ hw[s] \in HwRecord /\ DeviceAgrees(dev[s], hw[s])
  BY <1>1 DEF IInv, TypeOK, DriversOwned, DevicesTyped
<1>3. Finish(dev[s]) \in DeviceRecord /\ DeviceAgrees(Finish(dev[s]), hw[s])
  BY <1>1, <1>2, RunawayAgrees
<1>4. devcfg.drv = "done" => devcfg.bit_slot # s
  BY <1>1 DEF DriversOwned, Detached
<1>5. dev' = [dev EXCEPT ![s] = Finish(dev[s])]
  BY <1>1
<1> QED BY <1>1, <1>3, <1>4, <1>5, OneDeviceKeeps

\* A watchdog expires, but not while the null driver's byte can be read.
LEMMA WatchdogKeepsDevices ==
    ASSUME RaceFree, IInv, Owned, DriversOwned, NEW s \in Slots, WatchdogExpires(s)
    PROVE  DriversOwned'
<1>1. /\ Up /\ Up' /\ timer[s].state = "armed" /\ ~hw[s].irq /\ ~dev[s].event
      /\ timer' = [timer EXCEPT ![s].state = "expired"]
      /\ UNCHANGED <<hw, devcfg, driver, dev, mgr>>
  BY DEF WatchdogExpires, TimerExpire, Up
<1>2. driver = "master"
  <2>1. SlotAgrees(slot[s], timer[s], hw[s], devcfg) /\ hw[s] \in HwRecord
    BY <1>1 DEF Owned, Agreed, IInv, TypeOK
  <2>2. hw[s].busy
    BY <1>1, <2>1 DEF SlotAgrees, HwRecord
  <2>3. DeviceAgrees(dev[s], hw[s])
    BY <1>1 DEF DriversOwned
  <2> QED BY <1>1, <2>2, <2>3 DEF DeviceAgrees, NullAgrees
<1>3. \A u \in Slots : DeviceAgrees(dev[u], hw[u])'
  BY <1>1 DEF DriversOwned, DeviceAgrees, MasterAgrees, NullAgrees
<1> QED BY <1>1, <1>2, <1>3
     DEF DriversOwned, DevicesTyped, ManagerAgrees, Detached, NoNullTimeout

\* A bitstream is loaded into the slot the FPGA manager was told.
LEMMA BitstreamKeepsDevices ==
    ASSUME IInv, Owned, DriversOwned, BitstreamLoaded
    PROVE  DriversOwned'
<1> USE ConstantsOK
<1> DEFINE s == devcfg.bit_slot
<1>1. /\ Up /\ Up' /\ devcfg.drv = "loading" /\ devcfg' = [devcfg EXCEPT !.drv = "done"]
      /\ hw' = [hw EXCEPT ![s].fabric = devcfg.bit_task, ![s].busy = FALSE]
      /\ dev' = [dev EXCEPT ![mgr.addr[1]] = Loaded(@)] /\ mgr.loading
      /\ mgr' = [mgr EXCEPT !.loading = FALSE, !.notified = TRUE]
      /\ UNCHANGED <<timer, driver>>
  BY DEF BitstreamLoaded, RcfgDone, Up
<1>2. s \in Slots /\ devcfg.bit_task # NULL /\ mgr.addr[1] = s
  <2>1. s \in Slots /\ devcfg.bit_task \in HwTasks
    BY <1>1, DeviceSlot
  <2>2. mgr.addr = <<s, devcfg.bit_task>>
    BY <1>1 DEF DriversOwned, ManagerAgrees
  <2> QED BY <2>1, <2>2
<1>3. /\ devcfg'.drv = "done" /\ devcfg'.bit_slot = s
  BY <1>1 DEF IInv, TypeOK, DevcfgRecord
<1> HIDE DEF s
<1>4. /\ hw \in [Slots -> HwRecord] /\ dev \in [Slots -> DeviceRecord]
      /\ dev[s] \in DeviceRecord /\ hw[s] \in HwRecord /\ DeviceAgrees(dev[s], hw[s])
      /\ ~hw[s].coupled
  BY <1>1, <1>2 DEF IInv, TypeOK, DriversOwned, DevicesTyped, Detached, s
<1>5. /\ hw'[s] = [hw[s] EXCEPT !.fabric = devcfg.bit_task, !.busy = FALSE]
      /\ \A u \in Slots : u # s => hw'[u] = hw[u]
  BY <1>1, <1>2, <1>4
<1>6. /\ dev'[s] = Loaded(dev[s]) /\ dev' = [u \in Slots |-> dev'[u]]
      /\ \A u \in Slots : u # s => dev'[u] = dev[u]
  BY <1>1, <1>2, <1>4
<1>7. /\ dev'[s] \in DeviceRecord /\ DeviceAgrees(dev'[s], hw'[s])
      /\ ~dev'[s].start /\ ~dev'[s].isr
  <2> DEFINE t == devcfg.bit_task
             g == hw'[s]
  <2>1. g = [hw[s] EXCEPT !.fabric = t, !.busy = FALSE]
    BY <1>5
  <2> HIDE DEF t, g
  <2>2. /\ Loaded(dev[s]) \in DeviceRecord /\ DeviceAgrees(Loaded(dev[s]), g)
        /\ ~Loaded(dev[s]).start /\ ~Loaded(dev[s]).isr
    BY <1>2, <1>4, <2>1, LoadedAgrees DEF t
  <2> QED BY <1>6, <2>2 DEF g
<1>8. ~hw'[s].coupled
  BY <1>4, <1>5 DEF HwRecord
<1>9. Detached'
  BY <1>3, <1>7, <1>8 DEF Detached
<1>10. dev' \in [Slots -> DeviceRecord] /\ \A u \in Slots : DeviceAgrees(dev'[u], hw'[u])
  <2>1. \A u \in Slots : u # s => DeviceAgrees(dev'[u], hw'[u]) /\ dev'[u] \in DeviceRecord
    BY <1>1, <1>4, <1>5, <1>6 DEF DriversOwned
  <2> QED BY <1>6, <1>7, <2>1
<1>11. \A u \in Slots : DeviceAgrees(dev[u], hw[u])' /\ ~dev'[u].fault
  BY <1>1, <1>10 DEF DeviceAgrees, MasterAgrees, NullAgrees
<1>12. mgr' \in ManagerRecord /\ ManagerAgrees(mgr, devcfg)'
  <2>1. mgr \in ManagerRecord
    BY DEF DriversOwned, DevicesTyped
  <2>2. mgr' \in ManagerRecord /\ ~mgr'.loading /\ mgr'.notified
    BY <1>1, <2>1 DEF ManagerRecord
  <2> QED BY <1>3, <2>2 DEF ManagerAgrees, ManagerRecord
<1>13. NoNullTimeout'
  BY <1>1 DEF DriversOwned, NoNullTimeout
<1> QED BY <1>9, <1>10, <1>11, <1>12, <1>13 DEF DriversOwned, DevicesTyped

-----------------------------------------------------------------------------
(* The invariant. *)

\* Before the first request every register is 0 and every slot behind an open decoupler
\* is empty.
LEMMA InitDevices == DriversInit => DriversOwned
<1> SUFFICES ASSUME DriversInit PROVE DriversOwned
  OBVIOUS
<1>1. /\ dev = [s \in Slots |->
                  [present |-> FALSE, start |-> FALSE, ier |-> FALSE, gie |-> FALSE,
                   isr |-> FALSE, decoupled |-> FALSE, event |-> FALSE,
                   masked |-> FALSE, fault |-> FALSE]]
      /\ hw = [s \in Slots |-> [busy |-> FALSE, irq |-> FALSE, coupled |-> TRUE,
                                fabric |-> NULL]]
      /\ devcfg = [state |-> "IDLE", current_rcfg_req |-> NULL, drv |-> "quiet",
                   bit_slot |-> NULL, bit_task |-> NULL]
      /\ timer = [s \in Slots |-> [state |-> "off", exec_req |-> NULL]]
      /\ mgr = [[addr |-> NULL, size |-> NULL, loading |-> FALSE, notified |-> TRUE]
                  EXCEPT !.notified = FALSE]
  BY DEF DriversInit, Init, ReadRcfgDone, Opened
<1>2. dev \in [Slots -> DeviceRecord]
  BY <1>1 DEF DeviceRecord
<1>3. /\ mgr \in ManagerRecord /\ mgr.loading = FALSE /\ mgr.notified = FALSE
  BY <1>1 DEF ManagerRecord, Bitstreams
<1>4. ASSUME NEW s \in Slots PROVE DeviceAgrees(dev[s], hw[s]) /\ ~dev[s].fault
  BY <1>1 DEF DeviceAgrees, MasterAgrees, NullAgrees
<1>5. ManagerAgrees(mgr, devcfg) /\ Detached /\ NoNullTimeout
  BY <1>1, <1>3 DEF ManagerAgrees, Detached, NoNullTimeout
<1> QED BY <1>2, <1>3, <1>4, <1>5 DEF DriversOwned, DevicesTyped

LEMMA StepKeepsDevices ==
    ASSUME RaceFree, IInv, Owned, IInv', Owned', DriversOwned, [DriversNext]_dvars
    PROVE  DriversOwned'
<1>1. ASSUME NEW r \in Requests, NEW t \in HwTasks, HandleRun(r, t) PROVE DriversOwned'
  BY <1>1, HandleRunKeepsDevices
<1>2. ASSUME UNCHANGED <<timer, hw, devcfg, status, driver, dev, mgr>> PROVE DriversOwned'
  <2>1. (Up' <=> Up) /\ \A s \in Slots : DeviceAgrees(dev[s], hw[s])' <=> DeviceAgrees(dev[s], hw[s])
    BY <1>2 DEF DeviceAgrees, MasterAgrees, NullAgrees, Up
  <2> QED BY <1>2, <2>1 DEF DriversOwned, DevicesTyped, ManagerAgrees, Detached, NoNullTimeout
<1>3. ASSUME NEW r \in Requests, NEW t \in HwTasks, HandleRunBanned(r, t)
      PROVE  DriversOwned'
  BY <1>2, <1>3 DEF HandleRunBanned, RunBanned
<1>4. ASSUME NEW s \in Slots, NEW d \in Outcomes("notify"),
             HandleSlotComplete(s, d) \/ HandleSlotTimeout(s, d)
      PROVE  DriversOwned'
  BY <1>4, SlotCompleteKeepsDevices, SlotTimeoutKeepsDevices
<1>5. CASE Hardware
  BY <1>5, ModuleDoneKeepsDevices, RunawayDoneKeepsDevices, WatchdogKeepsDevices,
     BitstreamKeepsDevices DEF Hardware
<1>6. CASE UNCHANGED dvars
  BY <1>2, <1>6 DEF dvars, vars
<1> QED BY <1>1, <1>3, <1>4, <1>5, <1>6, RcfgCompleteKeepsDevices DEF DriversNext

\* Under every driver, and whatever drivers and peers fail, the registers are those the
\* scheduler's abstract fabric stands for.
THEOREM DevicesInvariant == ASSUME RaceFree PROVE DriversSpec => []DriversOwned
<1>1. DriversInit => DriversOwned
  BY InitDevices
<1>2. /\ IInv /\ Owned /\ IInv' /\ Owned' /\ DriversOwned /\ [DriversNext]_dvars
      => DriversOwned'
  BY StepKeepsDevices
<1>3. DriversSpec => []IInv /\ []Owned
  BY DriversRefineScheduler, Invariance, Ownership, PTL
<1> QED BY <1>1, <1>2, <1>3, PTL DEF DriversSpec

-----------------------------------------------------------------------------
(* What it shows. *)

\* The decouplers follow the slot states, the descriptors of the accelerators are
\* readable exactly when the scheduler's model says so, and the FPGA manager loads and
\* notifies what devcfg has under way: no completion handler runs for a stale event.
THEOREM RegistersAgree == ASSUME RaceFree PROVE DriversSpec => []DriversAgree
<1>1. DriversOwned => DriversAgree
  BY DEF DriversOwned, DriversAgree, DeviceAgrees, MasterAgrees, NullAgrees, ManagerAgrees
<1> QED BY <1>1, DevicesInvariant, PTL

\* Whenever an executing accelerator ends, its interrupt reaches the event loop.
THEOREM CompletionsAreSeen == ASSUME RaceFree PROVE DriversSpec => []CompletionVisible
<1>1. ASSUME IInv, Owned, DriversOwned PROVE CompletionVisible
  <2>1. SUFFICES ASSUME Up, driver = "master", NEW s \in Slots, slot[s].state = "EXEC",
                        dev[s].start
                 PROVE  Finish(dev[s]).event
    BY DEF CompletionVisible
  <2>2. dev[s] \in DeviceRecord /\ hw[s] \in HwRecord /\ DeviceAgrees(dev[s], hw[s])
    BY <1>1, <2>1 DEF IInv, TypeOK, DriversOwned, DevicesTyped
  <2>3. Executes(s)
    BY <1>1, <2>1, ExecutingModule
  <2>4. hw[s].coupled /\ hw[s].fabric # NULL /\ ~hw[s].irq
    BY <2>1, <2>2, <2>3 DEF Executes, DeviceAgrees, MasterAgrees, HwRecord, DeviceRecord
  <2> QED BY <2>1, <2>2, <2>4, FinishVisible
<1>2. DriversSpec => []IInv /\ []Owned
  BY DriversRefineScheduler, Invariance, Ownership, PTL
<1> QED BY <1>1, <1>2, DevicesInvariant, PTL

\* No handler touches the registers of an accelerator whose region is cut off or holds
\* no module.
THEOREM NoBusFault == ASSUME RaceFree PROVE DriversSpec => []AccessOnlyCoupled
<1>1. DriversOwned => AccessOnlyCoupled
  BY DEF DriversOwned, AccessOnlyCoupled
<1> QED BY <1>1, DevicesInvariant, PTL

\* With its drivers too the scheduler keeps its promise to the clients.
THEOREM DriversServe ==
    ASSUME RaceFree, Faults = {} PROVE DriversSpec => ImplementsService
BY DriversRefineScheduler, ServiceImplemented, PTL
====
