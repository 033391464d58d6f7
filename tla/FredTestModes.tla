--------------------------- MODULE FredTestModes ---------------------------
(***************************************************************************)
(* The reconfiguration test mode and the hw-tasks test mode of fred-linux:  *)
(* no software tasks, but the cyclic client (srv_core_mocks/                *)
(* cyclic_client.c), which runs every hw-task in turn, and the random       *)
(* scheduler (srv_core_mocks/scheduler_fred_rand.c), a copy of the FRED     *)
(* scheduler that picks any free slot and always reconfigures it. The       *)
(* reconfiguration test puts null drivers in the slots, the hw-tasks test   *)
(* the real ones.                                                          *)
(***************************************************************************)
EXTENDS FredDrivers

CONSTANTS
    TaskOrder       \* sys_layout_get_hw_tasks: the hw-tasks, in layout order

ASSUME TestModesOK ==
    /\ IsFiniteSet(Requests) /\ Cardinality(Requests) = 1
    /\ TaskOrder \in Seq(HwTasks) /\ TaskOrder # <<>>

VARIABLES
    client        \* the bytes in the client's socket pair, and next_hw_task

tvars == <<dvars, client>>

\* The client owns a single accel_req.
ClientReq == CHOOSE r \in Requests : TRUE

ClientRecord == [trigger : Nat, next : 1..Len(TaskOrder)]

\* cyclic_sw_tasks_client_init writes the first byte itself.
TestInit ==
    /\ DriversInit
    /\ client = [trigger |-> 1, next |-> 1]

-----------------------------------------------------------------------------
(* Slips: variants with a bug a maintainer could write, used by no action.  *)

SlipRandSkips(r, t, s, now) ==                    \* as the FRED scheduler does it
    [Unbound(r, t, now) EXCEPT !.slot = s, !.skip_rcfg = MatchesTask(s, t)]
SlipNotConsumed(c) == c                           \* trigger byte not read
SlipNotifyDoneOnly(c) ==                          \* no next request after an overrun
    IF reply'[ClientReq] = "DONE" THEN [c EXCEPT !.trigger = @ + 1] ELSE c

-----------------------------------------------------------------------------
(* The random scheduler. *)

\* A request for t that got slot s: reconfiguration is never skipped.
RandPlaced(r, t, s, now) == [Unbound(r, t, now) EXCEPT !.slot = s]

\* partition_search_random_slot returns any free slot of the partition.
RandPushAccelReq(r, t) ==
    \E now \in clock..(clock + 1) :
        LET p == TaskPartition[t] IN
        /\ now <= MaxClock
        /\ clock' = now
        /\ \/ /\ AvailableSlots(p) = {}
              /\ req' = [req EXCEPT ![r] = Unbound(r, t, now)]
              /\ part_queues' = [part_queues EXCEPT ![p] = Enqueue(@, r)]
              /\ UNCHANGED <<slot, timer, hw, devcfg, fri_queue, status>>
           \/ \E s \in AvailableSlots(p) :
                LET rq == [req EXCEPT ![r] = RandPlaced(r, t, s, now)] IN
                /\ req' = rq
                /\ UNCHANGED part_queues
                /\ PushFri(SetReserved(slot, s), timer, hw, rq, r)

-----------------------------------------------------------------------------
(* The cyclic client. *)

Consumed(c) == [c EXCEPT !.trigger = @ - 1]

\* cyclic_client_notify_action_, whatever the message.
Triggered(c) == [c EXCEPT !.trigger = @ + 1]

\* The counter moves on unless the scheduler failed.
Advanced(c) ==
    IF status' = "up" THEN [c EXCEPT !.next = (@ % Len(TaskOrder)) + 1] ELSE c

\* handle_event_: the next hw-task is requested, even if it is banned.
CyclicHandleEvent ==
    /\ status = "up"
    /\ client.trigger > 0
    /\ RandPushAccelReq(ClientReq, TaskOrder[client.next])
    /\ reply' = [reply EXCEPT ![ClientReq] = "wait"]
    /\ UNCHANGED banned
    /\ DriverCalls(dev, mgr)
    /\ client' = Advanced(Consumed(client))

\* A handler that told the client the outcome of its request wrote a byte.
NotifyClient ==
    client' = IF reply[ClientReq] = "wait" /\ reply'[ClientReq] # "wait"
              THEN Triggered(client) ELSE client

\* The three event handlers are the FRED scheduler's, line by line.
RandRcfgComplete == HandleRcfgComplete /\ NotifyClient

RandSlotComplete(s, delivered) == HandleSlotComplete(s, delivered) /\ NotifyClient

RandSlotTimeout(s, delivered) == HandleSlotTimeout(s, delivered) /\ NotifyClient

-----------------------------------------------------------------------------

TestNext ==
    \/ CyclicHandleEvent
    \/ RandRcfgComplete
    \/ \E s \in Slots, delivered \in Outcomes("notify") : RandSlotComplete(s, delivered)
    \/ \E s \in Slots, delivered \in Outcomes("notify") : RandSlotTimeout(s, delivered)
    \/ Hardware /\ UNCHANGED client

TestSpec == TestInit /\ [][TestNext]_tvars

\* The reactor serves the client too. Accelerators may compute for ever, the byte of
\* a null driver is there at once.
TestFairness ==
    /\ WF_tvars(CyclicHandleEvent)
    /\ WF_tvars(RandRcfgComplete)
    /\ WF_tvars(BitstreamLoaded /\ UNCHANGED client)
    /\ \A s \in Slots :
        /\ WF_tvars(RandSlotComplete(s, TRUE))
        /\ WF_tvars(RandSlotTimeout(s, TRUE))
        /\ WF_tvars(WatchdogExpires(s) /\ UNCHANGED client)
        /\ WF_tvars(driver = "null" /\ ModuleDone(s) /\ UNCHANGED client)

TestFairSpec == TestSpec /\ TestFairness
=============================================================================
