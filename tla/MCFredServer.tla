--------------------------- MODULE MCFredServer ---------------------------
(***************************************************************************)
(* Small instances of FredServer: one slot in each of two partitions, two   *)
(* clients, hw-task ta of p1 with one data buffer and tc of p2 with two.    *)
(***************************************************************************)
EXTENDS FredServerInv

CONSTANTS ta, tc, p1, p2, r1, r2

MCHwTasks == {ta, tc}
MCPartitions == {p1, p2}
MCRequests == {r1, r2}
MCSlots == {1, 2}
MCTaskPartition == (ta :> p1) @@ (tc :> p2)
MCSlotPartition == (1 :> p1) @@ (2 :> p2)
MCBufferCounts == (ta :> 1) @@ (tc :> 2)

\* A single partition with one slot and one hw-task: both clients compete.
MCOneHwTask == {ta}
MCOnePartition == {p1}
MCOneSlot == {1}
MCOneTaskPartition == (ta :> p1)
MCOneSlotPartition == (1 :> p1)
MCOneBufferCounts == (ta :> 1)

ClientSymmetry == Permutations(Requests)

\* A message that is answered without any other effect counts as one, whatever it is:
\* an unknown one, one that names no hw-task, or FRED_MSG_INIT to a client that is READY.
Meaning(c, m) ==
    IF m.head = "JUNK" \/ (m.head # "INIT" /\ m.task = NULL)
       \/ (m.head = "INIT" /\ c.state = "READY")
    THEN NULL ELSE m

ClientView ==
    [r \in Requests |->
        [client[r] EXCEPT !.inbox = [i \in DOMAIN @ |-> Meaning(client[r], @[i])]]]

\* See LiveState in MCFredScheduler.
LiveServerState ==
    << [s \in Slots |-> IF slot[s].state = "EXEC" THEN slot[s]
                        ELSE [slot[s] EXCEPT !.exec_req = NULL]],
       [s \in Slots |-> IF timer[s].state = "off" THEN NULL ELSE timer[s].exec_req],
       [s \in Slots |-> timer[s].state],
       hw, devcfg.state, devcfg.drv,
       IF devcfg.state = "PROG" THEN devcfg.current_rcfg_req ELSE NULL,
       [r \in Requests |-> IF Waiting(r) THEN req[r] ELSE [hw_task |-> NULL]],
       part_queues, fri_queue, banned, clock, status, ClientView, backlog, batch >>

\* The same when a completion may race its watchdog, so that a stale exec_req of a
\* slot and the request it names are read. A server that has stopped only stutters,
\* and the properties checked with this view say nothing of it, nor of buffers, which no
\* action looks at.
RacingServerState ==
    IF ~Running THEN <<status>> ELSE
    << slot, [s \in Slots |-> timer[s].state],
       [s \in Slots |-> IF timer[s].state = "off" THEN NULL ELSE timer[s].exec_req],
       hw, devcfg.state, devcfg.drv,
       IF devcfg.state = "PROG" THEN devcfg.current_rcfg_req ELSE NULL,
       req, {r \in Requests : Waiting(r)},
       part_queues, fri_queue, banned, clock, status,
       [r \in Requests |-> [ClientView[r] EXCEPT !.buffers = {}]], backlog, batch >>
=============================================================================
