--------------------------- MODULE MCFredDrivers ---------------------------
(***************************************************************************)
(* FredDrivers on the instances of MCFredScheduler.                         *)
(***************************************************************************)
EXTENDS FredDriversInv, MCFredScheduler

\* The attributes of the FPGA manager keep their last values; only those of a
\* bitstream that is being loaded are read again.
DriversView ==
    <<LiveStateAndReplies, driver, dev, mgr.loading, mgr.notified,
      IF mgr.loading THEN <<mgr.addr, mgr.size>> ELSE NULL>>
=============================================================================
