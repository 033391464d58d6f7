--------------------------- MODULE FredDriversInv ---------------------------
(***************************************************************************)
(* What the drivers owe the scheduler: that the fabric FredScheduler        *)
(* reasons about is the one the registers describe.                         *)
(***************************************************************************)
EXTENDS FredDrivers, FredSchedulerInv

\* The abstract fabric is what the registers say: the decoupler follows the slot
\* states, behind an open decoupler the accelerator computes and its event is
\* pending exactly when the scheduler's model of it says so, and the FPGA manager
\* loads and notifies exactly the reconfiguration devcfg has under way. A stale
\* event or notification would run a completion handler for nothing
\* (slot_drv_master_after_compute_, devcfg_drv_fpga_mgr_init).
DriversAgree ==
    Up =>
    /\ \A s \in Slots :
        /\ dev[s].decoupled = ~hw[s].coupled
        /\ dev[s].present = (hw[s].fabric # NULL)
        /\ hw[s].coupled =>
              IF driver = "master"
              THEN dev[s].start = hw[s].busy /\ dev[s].event = hw[s].irq
              ELSE dev[s].event = (hw[s].busy \/ hw[s].irq)
    /\ mgr.loading = (devcfg.drv = "loading")
    /\ mgr.notified = (devcfg.drv = "done")
    /\ mgr.loading => /\ mgr.addr = <<devcfg.bit_slot, devcfg.bit_task>>
                      /\ mgr.size = mgr.addr

\* No completion goes unseen: whenever an executing accelerator ends, its descriptor
\* becomes readable. This needs its interrupt enabled at the module, the module
\* coupled, the status register clear and the line unmasked at the GIC, all of
\* which earlier executions and reconfigurations of the slot have touched.
CompletionVisible ==
    Up /\ driver = "master" =>
        \A s \in Slots :
            slot[s].state = "EXEC" /\ dev[s].start => Finish(dev[s]).event

\* The handlers touch the registers of an accelerator only while its region holds a
\* module and its decoupler is open: slot_reinit_after_rcfg couples before it
\* enables interrupts, a timed-out slot is left alone until it is reprogrammed.
AccessOnlyCoupled == \A s \in Slots : ~dev[s].fault
=============================================================================
