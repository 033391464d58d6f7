--------------------------- MODULE FredScheduler ---------------------------
(***************************************************************************)
(* The FRED scheduler of fred-linux (srv_core/scheduler_fred.c) with the   *)
(* objects its handlers act on: the slots (slot.h, slot.c), the slot       *)
(* watchdogs (slot_timer.[ch], fd_timer.c), the reconfiguration device     *)
(* (devcfg.c), the acceleration requests (accel_req.h) and the FPGA fabric *)
(* behind the drivers of hw_support/.                                      *)
(*                                                                         *)
(* The server is one thread: a reactor that calls one event handler at a   *)
(* time.  Every handler is therefore one action here.  Between two         *)
(* handlers the hardware and the kernel timers move on their own.          *)
(***************************************************************************)
EXTENDS Integers, Sequences, FiniteSets

CONSTANTS
    Requests,       \* the accel_req embedded in each sw-task client (one per client)
    HwTasks,
    Partitions,
    Slots,          \* numbered; the order inside a partition is partition->slots[]
    TaskPartition,  \* hw_task->partition
    SlotPartition,  \* the partition a slot was added to
    AlwaysRcfg,     \* scheduler mode SCHED_FRED_ALWAYS_RCFG
    MaxClock,       \* bound: the largest CLOCK_MONOTONIC reading in a behaviour
    Faults,         \* which of FaultKinds may happen
    RaceFree,       \* TRUE: completion and timeout of one execution never both pend
    NULL

FaultKinds == {"rcfg_start", "rcfg_read", "notify"}

ASSUME ConstantsOK ==
    /\ Slots \subseteq Nat /\ IsFiniteSet(Slots)
    /\ TaskPartition \in [HwTasks -> Partitions]
    /\ SlotPartition \in [Slots -> Partitions]
    /\ AlwaysRcfg \in BOOLEAN
    /\ RaceFree \in BOOLEAN
    /\ MaxClock \in Nat
    /\ Faults \subseteq FaultKinds
    /\ NULL \notin Requests \cup HwTasks \cup Slots

VARIABLES
    slot,         \* struct slot of every slot
    timer,        \* struct slot_timer of every slot, with its timerfd
    hw,           \* the fabric region behind a slot: accelerator, irq, decoupler
    devcfg,       \* struct devcfg and the FPGA manager behind it
    req,          \* struct accel_req of every client
    part_queues,  \* self->part_queues_heads, one FIFO per partition
    fri_queue,    \* self->fri_queue_head
    banned,       \* the hw-tasks whose banned flag is set
    clock,        \* CLOCK_MONOTONIC
    reply,        \* what each client was last told, "wait" while it is owed an answer
    status        \* of the server process

vars == <<slot, timer, hw, devcfg, req, part_queues, fri_queue, banned, clock,
          reply, status>>

-----------------------------------------------------------------------------
(* Types. SLOT_READY exists only inside a handler, so no state shows it.    *)

SlotStates == {"BLANK", "RSRV", "RCFG", "READY", "EXEC", "IDLE"}
Replies == {"none", "wait", "DONE", "OVERRUN", "ERROR"}

\* "down": a handler returned -1 and the reactor left its loop. "aborted": an
\* assert() failed. "blocked": the only thread sits in a blocking read().
Statuses == {"up", "down", "aborted", "blocked"}

SlotRecord == [state : SlotStates, hw_task : HwTasks \cup {NULL},
               exec_req : Requests \cup {NULL}]
TimerRecord == [state : {"off", "armed", "expired"}, exec_req : Requests \cup {NULL}]
HwRecord == [busy : BOOLEAN, irq : BOOLEAN, coupled : BOOLEAN,
             fabric : HwTasks \cup {NULL}]
DevcfgRecord == [state : {"IDLE", "PROG"}, current_rcfg_req : Requests \cup {NULL},
                 drv : {"quiet", "loading", "done"},
                 bit_slot : Slots \cup {NULL}, bit_task : HwTasks \cup {NULL}]
RequestRecord == [hw_task : HwTasks \cup {NULL}, slot : Slots \cup {NULL},
                  skip_rcfg : BOOLEAN, tstamp : 0..MaxClock]

Init ==
    /\ slot = [s \in Slots |-> [state |-> "BLANK", hw_task |-> NULL, exec_req |-> NULL]]
    /\ timer = [s \in Slots |-> [state |-> "off", exec_req |-> NULL]]
    /\ hw = [s \in Slots |-> [busy |-> FALSE, irq |-> FALSE, coupled |-> TRUE,
                              fabric |-> NULL]]
    /\ devcfg = [state |-> "IDLE", current_rcfg_req |-> NULL, drv |-> "quiet",
                 bit_slot |-> NULL, bit_task |-> NULL]
    /\ req = [r \in Requests |-> [hw_task |-> NULL, slot |-> NULL,
                                  skip_rcfg |-> FALSE, tstamp |-> 0]]
    /\ part_queues = [p \in Partitions |-> <<>>]
    /\ fri_queue = <<>>
    /\ banned = {}
    /\ clock = 0
    /\ reply = [r \in Requests |-> "none"]
    /\ status = "up"

-----------------------------------------------------------------------------
(* Outcomes shared by the handlers. *)

\* The values an operation that may fail can report.
Outcomes(kind) == IF kind \in Faults THEN BOOLEAN ELSE {TRUE}

\* assert() ends the process: what the handler did before is lost with it.
Abort ==
    /\ status' = "aborted"
    /\ UNCHANGED <<slot, timer, hw, devcfg, req, part_queues, fri_queue, banned,
                   clock, reply>>

-----------------------------------------------------------------------------
(* Slips: variants of definitions below with a bug a maintainer could       *)
(* write. The specification uses none of them; PROJECT.json pairs each with *)
(* the property that notices it.                                            *)

SlipMatchAnyIdle(s, t) == slot[s].state = "IDLE"                  \* hw-task not compared
SlipStillExec(sl, s) == sl                                        \* SLOT_EXEC never left
SlipReadyIsIdle(sl, s) == [sl EXCEPT ![s].state = "READY"]        \* wrong state constant
SlipIdleAfterTimeout(sl, s) == [sl EXCEPT ![s].state = "IDLE"]    \* as the diagram draws it
SlipNoDecouple(h, s) == h                                         \* runaway left coupled
SlipDecoupleAcks(h, s) ==                                 \* interrupt acknowledged as well
    [h EXCEPT ![s].coupled = FALSE, ![s].irq = FALSE]
SlipIrqNotRead(h, s) == h                                         \* UIO event not consumed
SlipKeepSkip(r, t, now) ==                                        \* unbind keeps skip_rcfg
    [hw_task |-> t, slot |-> NULL, skip_rcfg |-> req[r].skip_rcfg, tstamp |-> now]
SlipSkipInEveryMode(s, t) == slot[s].state = "IDLE" /\ slot[s].hw_task = t
SlipLifo(q, r) == <<r>> \o q                                      \* INSERT_HEAD for INSERT_TAIL
SlipInsertLast(q, rq, r) == {Len(q)}                              \* no ordering
SlipInsertDrops(q, k, r) == SubSeq(q, 1, k) \o <<r>>              \* tail of the list lost
SlipNoNextRcfg(h, rq, run, n) ==                                  \* queue not served after a start
    IF n > 0 \/ n = Len(run) THEN NULL ELSE run[n + 1]
SlipNoPull(sl, tm, h, s, p) ==                                    \* freed slot not handed on
    /\ slot' = sl /\ timer' = tm /\ hw' = h
    /\ UNCHANGED <<devcfg, req, part_queues, fri_queue, status>>
SlipNotArmed(tm, h, rq, run, n) == tm                             \* watchdog never armed

-----------------------------------------------------------------------------
(* Slots and the slot search of a partition. *)

IsAvailable(s) == slot[s].state \in {"IDLE", "BLANK"}

MatchesTask(s, t) == slot[s].state = "IDLE" /\ slot[s].hw_task = t

AvailableSlots(p) == {s \in Slots : SlotPartition[s] = p /\ IsAvailable(s)}

\* The slot the search loop ends on: the first available slot that holds the
\* hw-task (break), else the last available one. Empty: every slot is taken.
SearchSlot(p, t) ==
    LET matching == {s \in AvailableSlots(p) : MatchesTask(s, t)}
    IN IF matching # {}
       THEN {s \in matching : \A u \in matching : s <= u}
       ELSE {s \in AvailableSlots(p) : \A u \in AvailableSlots(p) : s >= u}

\* slot_set_reserved, slot_clear_after_compute and slot_disable_after_timeout.
SetReserved(sl, s) == [sl EXCEPT ![s].state = "RSRV"]

ClearAfterCompute(sl, s) == [sl EXCEPT ![s].state = "IDLE"]

DisableAfterTimeout(sl, s) == [sl EXCEPT ![s].state = "BLANK"]

-----------------------------------------------------------------------------
(* Drivers. *)

\* Closing the decoupler cuts the accelerator of slot s off.
Decouple(h, s) == [h EXCEPT ![s].coupled = FALSE]

Couple(h, s) == [h EXCEPT ![s].coupled = TRUE]

\* slot_drv_after_compute: the pending UIO event is read.
ConsumeIrq(h, s) == [h EXCEPT ![s].irq = FALSE]

\* slot_timer_disarm: also cancels an expiration nobody has read.
Disarm(tm, s) == [tm EXCEPT ![s] = [state |-> "off", exec_req |-> NULL]]

-----------------------------------------------------------------------------
(* Requests. *)

\* accel_req_unbind, accel_req_set_hw_task and accel_req_stamp_timestamp.
Unbound(r, t, now) ==
    [hw_task |-> t, slot |-> NULL, skip_rcfg |-> FALSE, tstamp |-> now]

\* Whether a request for t that got slot s may skip reconfiguration.
MaySkip(s, t) == MatchesTask(s, t) /\ ~AlwaysRcfg

\* A partition queue is first in, first out.
Enqueue(q, r) == Append(q, r)

-----------------------------------------------------------------------------
(* The FRI queue, ordered by time stamp. *)

\* Ordered insertion: in front of the first request with a strictly later stamp.
InsertPositions(q, rq, r) ==
    {k \in 0..Len(q) :
        /\ \A i \in 1..k : rq[q[i]].tstamp <= rq[r].tstamp
        /\ k < Len(q) => rq[q[k + 1]].tstamp > rq[r].tstamp}

InsertedAfter(q, k, r) == SubSeq(q, 1, k) \o <<r>> \o SubSeq(q, k + 1, Len(q))

-----------------------------------------------------------------------------
(* Serving the FRI queue. start_rcfg_ and start_slot_after_rcfg_ call each  *)
(* other: a request whose slot is ready (just reconfigured, or skipping     *)
(* reconfiguration) starts executing and the next request of the queue is   *)
(* taken, until one has to be programmed or the queue is empty. In `run`,   *)
(* the requests in the order they are taken, the first n are started and    *)
(* the next one, if any, is programmed.                                     *)

\* The slot of the i-th request of a run needs no programming.
NeedsNoRcfg(rq, run, ready, i) == run[i] = ready \/ rq[run[i]].skip_rcfg

\* The accelerator of the n-th request still has AP_CTRL.start set: the driver
\* refuses to start it and every caller returns -1.
StartFails(h, rq, run, n) == n > 0 /\ h[rq[run[n]].slot].busy

\* The number of requests one handler starts.
StartCounts(h, rq, run, ready) ==
    {n \in 0..Len(run) :
        /\ \A i \in 1..n : NeedsNoRcfg(rq, run, ready, i)
        /\ \A i \in 1..(n - 1) : ~StartFails(h, rq, run, i)
        /\ \/ StartFails(h, rq, run, n)
           \/ n = Len(run)
           \/ ~NeedsNoRcfg(rq, run, ready, n + 1)}

\* The request handed to the reconfiguration device after n starts.
Programmed(h, rq, run, n) ==
    IF StartFails(h, rq, run, n) \/ n = Len(run) THEN NULL ELSE run[n + 1]

\* The started request of slot s, if there is one.
StartedOn(rq, run, n, s) == {i \in 1..n : rq[run[i]].slot = s}

\* slot_start_compute for the started requests; slot_prepare_for_rcfg and
\* slot_set_hw_task for the programmed one.
ServedSlots(sl, rq, run, n, prog) ==
    [s \in Slots |->
        IF StartedOn(rq, run, n, s) # {}
        THEN [sl[s] EXCEPT !.state = "EXEC",
                           !.exec_req = run[CHOOSE i \in StartedOn(rq, run, n, s) : TRUE]]
        ELSE IF prog # NULL /\ rq[prog].slot = s
        THEN [sl[s] EXCEPT !.state = "RCFG", !.hw_task = rq[prog].hw_task]
        ELSE sl[s]]

\* slot_timer_arm, once the accelerator has been started.
ServedTimers(tm, h, rq, run, n) ==
    [s \in Slots |->
        IF \E i \in StartedOn(rq, run, n, s) : ~StartFails(h, rq, run, i)
        THEN [state |-> "armed",
              exec_req |-> run[CHOOSE i \in StartedOn(rq, run, n, s) : TRUE]]
        ELSE tm[s]]

\* AP_CTRL.start of the started accelerators; the decoupler of the programmed
\* slot, whose region holds no whole module while a bitstream is loaded.
ServedHw(h, rq, run, n, prog, accepted) ==
    [s \in Slots |->
        IF StartedOn(rq, run, n, s) # {} THEN [h[s] EXCEPT !.busy = TRUE]
        ELSE IF prog # NULL /\ rq[prog].slot = s
        THEN [h[s] EXCEPT !.coupled = FALSE,
                          !.fabric = IF accepted THEN NULL ELSE @]
        ELSE h[s]]

\* devcfg_start_prog: the request and the bitstream of (hw-task, slot).
StartProg(dv, rq, prog, accepted) ==
    IF prog = NULL THEN dv
    ELSE [state |-> "PROG", current_rcfg_req |-> prog,
          drv |-> IF accepted THEN "loading" ELSE dv.drv,
          bit_slot |-> rq[prog].slot, bit_task |-> rq[prog].hw_task]

\* slot_start_compute, slot_prepare_for_rcfg and devcfg_start_prog assert these.
ServeAsserts(sl, dv, rq, run, n, prog) ==
    /\ \A i \in 1..n : sl[rq[run[i]].slot].state \in {"READY", "RSRV"}
    /\ prog # NULL => sl[rq[prog].slot].state = "RSRV" /\ dv.state = "IDLE"

\* The tail of every handler: serve `run`, given what the handler made of the
\* slots, timers, fabric, devcfg and requests before.
Serve(sl, tm, h, dv, rq, run, ready) ==
    \E n \in StartCounts(h, rq, run, ready), accepted \in Outcomes("rcfg_start") :
        LET prog == Programmed(h, rq, run, n) IN
        /\ slot' = ServedSlots(sl, rq, run, n, prog)
        /\ timer' = ServedTimers(tm, h, rq, run, n)
        /\ hw' = ServedHw(h, rq, run, n, prog, accepted)
        /\ devcfg' = StartProg(dv, rq, prog, accepted)
        /\ fri_queue' = SubSeq(run, IF prog = NULL THEN n + 1 ELSE n + 2, Len(run))
        /\ status' = IF ~ServeAsserts(sl, dv, rq, run, n, prog) THEN "aborted"
                     ELSE IF StartFails(h, rq, run, n) \/ (prog # NULL /\ ~accepted)
                     THEN "down" ELSE "up"

\* push_req_fri_queue_: insert r; serve it at once when it is on top of the
\* queue and the device is idle.
PushFri(sl, tm, h, rq, r) ==
    \E k \in InsertPositions(fri_queue, rq, r) :
        LET q == InsertedAfter(fri_queue, k, r) IN
        IF devcfg.state = "IDLE" /\ Head(q) = r
        THEN Serve(sl, tm, h, devcfg, rq, q, NULL)
        ELSE /\ fri_queue' = q
             /\ slot' = sl /\ timer' = tm /\ hw' = h
             /\ UNCHANGED <<devcfg, status>>

\* pull_req_partition_queue_: hand the freed slot s to the head of the queue of
\* partition p. The pulled request keeps the time stamp of its arrival.
Pull(sl, tm, h, s, p) ==
    IF part_queues[p] = <<>>
    THEN /\ slot' = sl /\ timer' = tm /\ hw' = h
         /\ UNCHANGED <<devcfg, req, part_queues, fri_queue, status>>
    ELSE LET r == Head(part_queues[p])
             rq == [req EXCEPT ![r].slot = s]
         IN /\ part_queues' = [part_queues EXCEPT ![p] = Tail(@)]
            /\ req' = rq
            /\ PushFri(SetReserved(sl, s), tm, h, rq, r)

-----------------------------------------------------------------------------
(* The scheduler interface, called by the event handlers. *)

\* process_msg_ (FRED_MSG_RUN) binds the request to the hw-task,
\* sched_fred_push_accel_req_ stamps it and finds it a slot or a queue.
PushAccelReq(r, t) ==
    \E now \in clock..(clock + 1) :
        LET p == TaskPartition[t]
            fresh == Unbound(r, t, now)
        IN /\ now <= MaxClock
           /\ clock' = now
           /\ \/ /\ SearchSlot(p, t) = {}
                 /\ req' = [req EXCEPT ![r] = fresh]
                 /\ part_queues' = [part_queues EXCEPT ![p] = Enqueue(@, r)]
                 /\ UNCHANGED <<slot, timer, hw, devcfg, fri_queue, status>>
              \/ \E s \in SearchSlot(p, t) :
                    LET rq == [req EXCEPT ![r] =
                                [fresh EXCEPT !.slot = s,
                                              !.skip_rcfg = @ \/ MaySkip(s, t)]]
                    IN /\ req' = rq
                       /\ UNCHANGED part_queues
                       /\ PushFri(SetReserved(slot, s), timer, hw, rq, r)

\* The client of r waits for the outcome of its request.
Push(r, t) ==
    /\ PushAccelReq(r, t)
    /\ reply' = [reply EXCEPT ![r] = "wait"]
    /\ UNCHANGED banned

\* A client that is owed no answer runs hw-task t.
Run(r, t) ==
    /\ status = "up"
    /\ reply[r] # "wait"
    /\ t \notin banned
    /\ Push(r, t)

\* A banned hw-task is refused with FRED_MSG_ERROR.
RunBanned(r, t) ==
    /\ status = "up"
    /\ reply[r] # "wait"
    /\ t \in banned
    /\ reply' = [reply EXCEPT ![r] = "ERROR"]
    /\ UNCHANGED <<slot, timer, hw, devcfg, req, part_queues, fri_queue, banned,
                   clock, status>>

\* sched_fred_rcfg_complete_: the reconfigured slot is coupled again and its
\* request started, then the FRI queue is served. A failed or zero read of the
\* reconfiguration time shuts the server down.
RcfgComplete ==
    /\ status = "up"
    /\ devcfg.drv = "done"
    /\ LET r == devcfg.current_rcfg_req
           s == req[r].slot
           dv == [devcfg EXCEPT !.state = "IDLE", !.drv = "quiet"]
       IN IF s = NULL \/ devcfg.state # "PROG" THEN Abort
          ELSE \/ /\ "rcfg_read" \in Faults
                  /\ devcfg' = dv
                  /\ status' = "down"
                  /\ UNCHANGED <<slot, timer, hw, req, part_queues, fri_queue,
                                 banned, clock, reply>>
               \/ IF slot[s].state # "RCFG" THEN Abort
                  ELSE /\ Serve([slot EXCEPT ![s].state = "READY"], timer,
                                Couple(hw, s), dv, req,
                                <<r>> \o fri_queue, r)
                       /\ UNCHANGED <<req, part_queues, banned, clock, reply>>

\* sched_fred_slot_complete_, called for slot s. The handler passes
\* slot->exec_req on and works on the slot that request is bound to: it disarms
\* the watchdog, consumes the interrupt, notifies the client (`delivered`: the
\* write reached its socket) and refills the slot.
SlotHandler(s, delivered) ==
    /\ status = "up"
    /\ LET r == slot[s].exec_req
           z == req[r].slot
           p == TaskPartition[req[r].hw_task]
       IN IF z = NULL THEN Abort
          ELSE IF slot[z].state # "EXEC" THEN Abort
          ELSE LET tm == Disarm(timer, z) IN
               \/ /\ ~hw[z].irq
                  /\ timer' = tm
                  /\ status' = "blocked"
                  /\ UNCHANGED <<slot, hw, devcfg, req, part_queues, fri_queue,
                                 banned, clock, reply>>
               \/ LET sl == ClearAfterCompute(slot, z)
                      h == ConsumeIrq(hw, z)
                  IN /\ hw[z].irq
                     /\ UNCHANGED <<banned, clock>>
                     /\ \/ /\ ~delivered
                           /\ slot' = sl /\ timer' = tm /\ hw' = h
                           /\ status' = "down"
                           /\ UNCHANGED <<devcfg, req, part_queues, fri_queue, reply>>
                        \/ /\ delivered
                           /\ reply' = [reply EXCEPT ![r] = "DONE"]
                           /\ Pull(sl, tm, h, z, p)

\* The interrupt of slot s.
SlotComplete(s, delivered) == hw[s].irq /\ SlotHandler(s, delivered)

\* sched_fred_slot_timeout_, on the expiry of the watchdog of slot s: ban the
\* hw-task, decouple and blank the slot, notify the client, refill the slot.
SlotTimeout(s, delivered) ==
    /\ status = "up"
    /\ timer[s].state = "expired"
    /\ LET r == timer[s].exec_req
           z == req[r].slot
           p == TaskPartition[req[r].hw_task]
           tm == [timer EXCEPT ![s].state = "off"]
       IN IF z = NULL THEN Abort
          ELSE IF slot[z].state # "EXEC" THEN Abort
          ELSE LET sl == DisableAfterTimeout(slot, z)
                   h == Decouple(hw, z)
               IN /\ banned' = banned \cup {req[r].hw_task}
                  /\ UNCHANGED clock
                  /\ \/ /\ ~delivered
                        /\ slot' = sl /\ timer' = tm /\ hw' = h
                        /\ status' = "down"
                        /\ UNCHANGED <<devcfg, req, part_queues, fri_queue, reply>>
                     \/ /\ delivered
                        /\ reply' = [reply EXCEPT ![r] = "OVERRUN"]
                        /\ Pull(sl, tm, h, z, p)

-----------------------------------------------------------------------------
(* The hardware and the kernel, which nobody schedules. RaceFree keeps an   *)
(* accelerator from finishing after its watchdog fired but before the       *)
(* server handled it, and the other way round.                              *)

\* The accelerator of slot s finishes and raises its interrupt. Behind a closed
\* decoupler it can do neither.
AccelDone(s) ==
    /\ status = "up"
    /\ hw[s].busy /\ hw[s].coupled
    /\ RaceFree => timer[s].state # "expired"
    /\ hw' = [hw EXCEPT ![s].busy = FALSE, ![s].irq = TRUE]
    /\ UNCHANGED <<slot, timer, devcfg, req, part_queues, fri_queue, banned, clock,
                   reply, status>>

\* The timerfd of slot s expires.
TimerExpire(s) ==
    /\ status = "up"
    /\ timer[s].state = "armed"
    /\ RaceFree => ~hw[s].irq
    /\ timer' = [timer EXCEPT ![s].state = "expired"]
    /\ UNCHANGED <<slot, hw, devcfg, req, part_queues, fri_queue, banned, clock,
                   reply, status>>

\* The FPGA manager has loaded the bitstream: a fresh, idle module is in place.
RcfgDone ==
    /\ status = "up"
    /\ devcfg.drv = "loading"
    /\ devcfg' = [devcfg EXCEPT !.drv = "done"]
    /\ hw' = [hw EXCEPT ![devcfg.bit_slot].fabric = devcfg.bit_task,
                        ![devcfg.bit_slot].busy = FALSE]
    /\ UNCHANGED <<slot, timer, req, part_queues, fri_queue, banned, clock, reply,
                   status>>

\* A process that is gone, or blocked, does nothing more.
Stopped == status # "up" /\ UNCHANGED vars

-----------------------------------------------------------------------------

Next ==
    \/ \E r \in Requests, t \in HwTasks : Run(r, t) \/ RunBanned(r, t)
    \/ RcfgComplete
    \/ \E s \in Slots, delivered \in Outcomes("notify") : SlotComplete(s, delivered)
    \/ \E s \in Slots, delivered \in Outcomes("notify") : SlotTimeout(s, delivered)
    \/ \E s \in Slots : AccelDone(s)
    \/ \E s \in Slots : TimerExpire(s)
    \/ RcfgDone
    \/ Stopped

Spec == Init /\ [][Next]_vars

\* The reactor serves every ready source; timers expire; the FPGA manager ends a
\* reconfiguration. An accelerator may compute for ever.
Fairness ==
    /\ WF_vars(RcfgComplete)
    /\ WF_vars(RcfgDone)
    /\ \A s \in Slots :
        /\ WF_vars(SlotComplete(s, TRUE))
        /\ WF_vars(SlotTimeout(s, TRUE))
        /\ WF_vars(TimerExpire(s))

FairSpec == Spec /\ Fairness
=============================================================================
