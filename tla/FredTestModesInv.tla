-------------------------- MODULE FredTestModesInv --------------------------
(***************************************************************************)
(* What the two test modes are meant to do: run every hw-task, in turn, for *)
(* ever, each time freshly configured.                                      *)
(***************************************************************************)
EXTENDS FredTestModes, FredDriversInv

\* The one request is triggered again only after it was answered: there is a byte in
\* the client's socket pair or the request is with the scheduler, never both (the
\* embedded accel_req would be queued twice) and never neither (the test would end).
TokenConserved ==
    Up => client.trigger + PlacesOf(ClientReq) = 1

\* A single request never finds its partition full: both queues stay empty, so a
\* slot that any sequence of completions and timeouts leaked would show here.
NeverQueued ==
    Up => fri_queue = <<>> /\ \A p \in Partitions : part_queues[p] = <<>>

\* The hw-task next_hw_task has just moved past.
LastRequested ==
    TaskOrder[IF client.next = 1 THEN Len(TaskOrder) ELSE client.next - 1]

\* "never skip reconfiguration" (scheduler_fred_rand.c): what starts executing is the
\* hw-task whose turn it is, on the slot that was just programmed with it.
InTurnAndFresh ==
    [][\A s \in Slots :
        slot'[s].state = "EXEC" /\ slot[s].state # "EXEC" =>
            /\ slot[s].state = "RCFG"
            /\ devcfg.bit_slot = s
            /\ devcfg.bit_task = LastRequested]_tvars

\* Every hw-task keeps being tested, also after it timed out and was banned, and
\* although accelerators may compute for ever.
EveryTaskTested ==
    \A t \in HwTasks :
        []<>(\E s \in Slots : slot[s].state = "EXEC" /\ req[ClientReq].hw_task = t)
=============================================================================
