-------------------------- MODULE MCFredScheduler --------------------------
(***************************************************************************)
(* Small instances of FredScheduler: partition p1 with slots 1 and 2 and    *)
(* hw-tasks ta and tb, partition p2 with slot 3 and hw-task tc.              *)
(***************************************************************************)
EXTENDS FredSchedulerInv

CONSTANTS ta, tb, tc, p1, p2, r1, r2, r3, r4

MCHwTasks == {ta, tb, tc}
MCPartitions == {p1, p2}
MCRequests == {r1, r2, r3}

\* Two slots and two hw-tasks in p1, one of each in p2.
MCSlots == {1, 2, 3}
MCTaskPartition == (ta :> p1) @@ (tb :> p1) @@ (tc :> p2)
MCSlotPartition == (1 :> p1) @@ (2 :> p1) @@ (3 :> p2)

\* One slot in each partition: the partition queues fill up.
MCTightSlots == {1, 3}
MCTightSlotPartition == (1 :> p1) @@ (3 :> p2)

MCFourRequests == {r1, r2, r3, r4}
MCTwoHwTasks == {ta, tc}
MCTwoTaskPartition == (ta :> p1) @@ (tc :> p2)

ClientSymmetry == Permutations(Requests)

\* What the next step and the state invariants depend on. A request whose client is
\* not waiting is rewritten by Run before anything reads it, as is the exec_req of
\* a slot that is not executing and of a timer that is off; which answer a client
\* got last changes nothing in the scheduler.
LiveState ==
    << [s \in Slots |-> IF slot[s].state = "EXEC" THEN slot[s]
                        ELSE [slot[s] EXCEPT !.exec_req = NULL]],
       [s \in Slots |-> IF timer[s].state = "off" THEN NULL ELSE timer[s].exec_req],
       [s \in Slots |-> timer[s].state],
       hw, devcfg.state, devcfg.drv,
       IF devcfg.state = "PROG" THEN devcfg.current_rcfg_req ELSE NULL,
       [r \in Requests |-> IF Waiting(r) THEN req[r] ELSE [hw_task |-> NULL]],
       part_queues, fri_queue, banned, clock, status >>

\* For properties that also look at the answers.
LiveStateAndReplies == <<LiveState, reply>>
=============================================================================
