------------------------- MODULE FredSchedulerInv -------------------------
(***************************************************************************)
(* What the FRED scheduler is meant to guarantee: the state invariants, the *)
(* action properties and the liveness property of FredScheduler.            *)
(***************************************************************************)
EXTENDS FredScheduler, SequencesExt

Up == status = "up"
Waiting(r) == reply[r] = "wait"

Executing(r) == {s \in Slots : slot[s].state = "EXEC" /\ slot[s].exec_req = r}
IsProgramming(r) == devcfg.state = "PROG" /\ devcfg.current_rcfg_req = r

\* Type correctness of every variable of the scheduler and of the hardware it
\* drives; SLOT_READY is only passed through inside a handler.
TypeOK ==
    /\ slot \in [Slots -> SlotRecord]
    /\ \A s \in Slots : slot[s].state # "READY"
    /\ timer \in [Slots -> TimerRecord]
    /\ hw \in [Slots -> HwRecord]
    /\ devcfg \in DevcfgRecord
    /\ req \in [Requests -> RequestRecord]
    /\ part_queues \in [Partitions -> Seq(Requests)]
    /\ fri_queue \in Seq(Requests)
    /\ banned \subseteq HwTasks
    /\ clock \in 0..MaxClock
    /\ reply \in [Requests -> Replies]
    /\ status \in Statuses

\* How often the scheduler's data structures hold request r.
PlacesOf(r) ==
      Cardinality({i \in 1..Len(fri_queue) : fri_queue[i] = r})
    + Cardinality(UNION {{p} \X {i \in 1..Len(part_queues[p]) : part_queues[p][i] = r} :
                         p \in Partitions})
    + (IF IsProgramming(r) THEN 1 ELSE 0)
    + Cardinality(Executing(r))

\* No request is lost or duplicated: one whose client waits is in exactly one of
\* its partition's queue, the FRI queue, the device or an executing slot, and one
\* whose client has its answer is in none of them (TAILQ nodes are embedded in
\* the request, so a second membership would corrupt both lists).
OnePlace == Up => \A r \in Requests : PlacesOf(r) = IF Waiting(r) THEN 1 ELSE 0

\* The requests a slot has been given to.
OwnersOf(s) == {r \in Requests : Waiting(r) /\ req[r].slot = s}

\* No slot is leaked or shared: a slot that is not available belongs to exactly one
\* waiting request of its own partition, an available one to none, and a request
\* in a partition queue has no slot.
SlotsOwned ==
    Up => \A s \in Slots :
            /\ Cardinality(OwnersOf(s)) = IF IsAvailable(s) THEN 0 ELSE 1
            /\ \A r \in OwnersOf(s) :
                  /\ TaskPartition[req[r].hw_task] = SlotPartition[s]
                  /\ r \notin ToSet(part_queues[SlotPartition[s]])

\* No handler leaves a reconfiguration undone that could start: while the device is
\* idle, the FRI queue is empty (push_req_fri_queue_ and start_slot_after_rcfg_ are the
\* only places that serve it).
DevcfgNotIdle == Up /\ devcfg.state = "IDLE" => fri_queue = <<>>

\* No slot stays free while a request of its partition waits for one.
WorkConserving ==
    Up => \A p \in Partitions : part_queues[p] # <<>> => AvailableSlots(p) = {}

\* An executing slot runs the right module for the right request: the fabric holds
\* the hw-task the request asked for (whether it was programmed or skipped), the
\* decoupler is open, and the watchdog is running for that same request. A slot
\* that is not executing has no watchdog.
ExecutionSound ==
    Up => \A s \in Slots :
            IF slot[s].state = "EXEC"
            THEN /\ slot[s].exec_req # NULL
                 /\ hw[s].fabric = req[slot[s].exec_req].hw_task
                 /\ hw[s].coupled
                 /\ timer[s].state # "off"
                 /\ timer[s].exec_req = slot[s].exec_req
                 /\ hw[s].busy # hw[s].irq
            ELSE timer[s].state = "off"

\* "Currently configured Hw-task. Consistent when in SLOT_IDLE state" (slot.h): an
\* idle slot, or one reserved to a request that skips reconfiguration, still holds
\* the hw-task the slot record names, coupled and not computing.
SkipSound ==
    Up => \A s \in Slots :
            slot[s].state = "IDLE" \/
            (slot[s].state = "RSRV" /\ \E r \in OwnersOf(s) : req[r].skip_rcfg)
              => /\ hw[s].fabric = slot[s].hw_task
                 /\ hw[s].coupled /\ ~hw[s].busy /\ ~hw[s].irq

\* The FRI queue is served oldest request first, also for requests that were pulled
\* late from a partition queue.
FriOrdered ==
    Up => \A i, j \in 1..Len(fri_queue) :
            i < j => req[fri_queue[i]].tstamp <= req[fri_queue[j]].tstamp

\* No overtaking inside a partition: whoever holds a slot of the partition, or is
\* ahead in its queue, asked no later than the requests behind.
PartitionFifo ==
    Up => \A p \in Partitions : \A i \in 1..Len(part_queues[p]) :
            LET r == part_queues[p][i] IN
            /\ \A j \in 1..(i - 1) : req[part_queues[p][j]].tstamp <= req[r].tstamp
            /\ \A o \in Requests :
                 Waiting(o) /\ req[o].slot # NULL /\ TaskPartition[req[o].hw_task] = p
                   => req[o].tstamp <= req[r].tstamp

\* Without failing drivers or peers the server neither stops, aborts nor blocks: no
\* assert of the slot and devcfg state machines can fire, and no accelerator is
\* started while its predecessor still runs.
StaysUp == status = "up"

\* Failing drivers and unreachable peers stop the server, but never through an assert
\* of its own state machines and never by blocking its only thread.
FailsCleanly == status \in {"up", "down"}

\* In SCHED_FRED_ALWAYS_RCFG mode every execution follows a reconfiguration of its
\* slot, made for the request that executes.
AlwaysReconfigured ==
    [][AlwaysRcfg =>
        \A s \in Slots :
            slot'[s].state = "EXEC" /\ slot[s].state # "EXEC"
              => /\ slot[s].state = "RCFG"
                 /\ devcfg.current_rcfg_req = slot'[s].exec_req]_vars

\* Every accepted request is answered, DONE or OVERRUN, although accelerators may
\* never finish: the watchdog, the two queues and the device keep moving.
EveryRequestAnswered == \A r \in Requests : Waiting(r) ~> ~Waiting(r)

-----------------------------------------------------------------------------
(* The scheduler implements AccelService: a request runs while it is the    *)
(* exec_req of an executing slot, and has computed once the interrupt of    *)
(* that slot is pending.                                                    *)

PhaseOf(r) ==
    IF ~Waiting(r) THEN "idle"
    ELSE IF Executing(r) = {} THEN "accepted"
    ELSE IF \E s \in Executing(r) : hw[s].irq THEN "computed" ELSE "running"

Service == INSTANCE AccelService WITH
    phase <- [r \in Requests |-> PhaseOf(r)],
    task <- [r \in Requests |-> IF Waiting(r) THEN req[r].hw_task ELSE NULL],
    place <- [r \in Requests |->
                IF Waiting(r) /\ Executing(r) # {}
                THEN CHOOSE s \in Executing(r) : TRUE ELSE NULL],
    answer <- reply

\* Every step of the scheduler, with its queues, device and watchdogs, is a step of
\* the service or changes nothing a client can see: in particular DONE is only sent
\* for a computation that finished, and no request runs twice.
ImplementsService == Service!Spec

-----------------------------------------------------------------------------
(* What documents and messages of the repository say and the code does not do. *)

\* "Permanently disabling offending hw-task" (scheduler_fred.c): no slot starts
\* executing, or being configured with, a hw-task after it was banned.
BannedNeverStarts ==
    [][\A s \in Slots :
        slot'[s].state \in {"RCFG", "EXEC"} /\ slot[s].state \notin {"RCFG", "EXEC"}
          => req'[IF slot'[s].state = "EXEC" THEN slot'[s].exec_req
                  ELSE devcfg'.current_rcfg_req].hw_task \notin banned]_vars

\* The asserts of the slot state machine (slot.h) hold.
AssertsHold == status # "aborted"
=============================================================================
