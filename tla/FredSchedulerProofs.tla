------------------------ MODULE FredSchedulerProofs ------------------------
(***************************************************************************)
(* Proofs about FredScheduler, for every value of its constants, with or    *)
(* without faults and races between completion and watchdog.                *)
(***************************************************************************)
EXTENDS FredSchedulerInv, SequenceTheorems, TLAPS

-----------------------------------------------------------------------------
(* The inductive invariant. Types alone are not inductive: a handler follows *)
(* the pointers slot->exec_req, timer->exec_req and current_rcfg_req, and    *)
(* what it finds there must be a request that was bound to a hw-task.        *)

\* The requests that have been bound to a hw-task.
Bound == {r \in Requests : req[r].hw_task # NULL}

\* The slots, timers, fabric and device refer to requests of B only, and whatever
\* can raise an event names the request it will be handled for.
Typed(B, sl, tm, h, dv) ==
    /\ sl \in [Slots -> SlotRecord]
    /\ tm \in [Slots -> TimerRecord]
    /\ h \in [Slots -> HwRecord]
    /\ dv \in DevcfgRecord
    /\ \A s \in Slots : sl[s].exec_req \in B \cup {NULL} /\ tm[s].exec_req \in B \cup {NULL}
    /\ \A s \in Slots : h[s].busy \/ h[s].irq => sl[s].exec_req # NULL
    /\ \A s \in Slots : tm[s].state # "off" => tm[s].exec_req # NULL
    /\ dv.drv # "quiet" => dv.current_rcfg_req \in B

NoneReady(sl) == \A s \in Slots : sl[s].state # "READY"

Pointers ==
    /\ Typed(Bound, slot, timer, hw, devcfg)
    /\ part_queues \in [Partitions -> Seq(Bound)]
    /\ fri_queue \in Seq(Bound)

IInv == TypeOK /\ Pointers

-----------------------------------------------------------------------------
(* Serving a run of requests. *)

\* The requests a handler starts, and the one it programs, are requests of the run.
LEMMA ServedAreOfRun ==
    ASSUME NEW B, NULL \notin B, NEW h, NEW rq, NEW run \in Seq(B), NEW ready,
           NEW n \in StartCounts(h, rq, run, ready)
    PROVE  /\ n \in 0..Len(run)
           /\ \A s \in Slots : StartedOn(rq, run, n, s) # {}
                 => run[CHOOSE i \in StartedOn(rq, run, n, s) : TRUE] \in B
           /\ Programmed(h, rq, run, n) \in B \cup {NULL}
           /\ Programmed(h, rq, run, n) = NULL => StartFails(h, rq, run, n) \/ n = Len(run)
<1>1. n \in 0..Len(run) /\ Len(run) \in Nat
  BY LenProperties DEF StartCounts
<1>2. \A i \in 1..Len(run) : run[i] \in B
  BY ElementOfSeq
<1>3. ASSUME NEW s \in Slots, StartedOn(rq, run, n, s) # {}
      PROVE  run[CHOOSE i \in StartedOn(rq, run, n, s) : TRUE] \in B
  <2>1. (CHOOSE i \in StartedOn(rq, run, n, s) : TRUE) \in StartedOn(rq, run, n, s)
    BY <1>3
  <2>2. StartedOn(rq, run, n, s) \subseteq 1..Len(run)
    BY <1>1 DEF StartedOn
  <2> QED BY <2>1, <2>2, <1>2
<1>4. n # Len(run) => run[n + 1] \in B
  BY <1>1, <1>2
<1> QED BY <1>1, <1>3, <1>4 DEF Programmed

\* Serving a run of bound requests leaves every pointer pointing to bound requests.
LEMMA ServeTyped ==
    ASSUME NEW B \in SUBSET Requests, NEW sl, NEW tm, NEW h, NEW dv, NEW rq,
           Typed(B, sl, tm, h, dv), rq \in [Requests -> RequestRecord],
           NEW run \in Seq(B), NEW ready,
           Serve(sl, tm, h, dv, rq, run, ready)
    PROVE  /\ Typed(B, slot', timer', hw', devcfg')
           /\ fri_queue' \in Seq(B)
           /\ status' \in Statuses
<1> USE ConstantsOK
<1>0. NULL \notin B
  OBVIOUS
<1>1. PICK n \in StartCounts(h, rq, run, ready), accepted \in Outcomes("rcfg_start") :
        /\ slot' = ServedSlots(sl, rq, run, n, Programmed(h, rq, run, n))
        /\ timer' = ServedTimers(tm, h, rq, run, n)
        /\ hw' = ServedHw(h, rq, run, n, Programmed(h, rq, run, n), accepted)
        /\ devcfg' = StartProg(dv, rq, Programmed(h, rq, run, n), accepted)
        /\ fri_queue' = SubSeq(run, IF Programmed(h, rq, run, n) = NULL THEN n + 1 ELSE n + 2,
                               Len(run))
        /\ status' = IF ~ServeAsserts(sl, dv, rq, run, n, Programmed(h, rq, run, n))
                     THEN "aborted"
                     ELSE IF StartFails(h, rq, run, n)
                             \/ (Programmed(h, rq, run, n) # NULL /\ ~accepted)
                     THEN "down" ELSE "up"
  BY Zenon DEF Serve
<1> DEFINE prog == Programmed(h, rq, run, n)
           first(s) == run[CHOOSE i \in StartedOn(rq, run, n, s) : TRUE]
<1>2. /\ n \in 0..Len(run)
      /\ \A s \in Slots : StartedOn(rq, run, n, s) # {} => first(s) \in B
      /\ prog \in B \cup {NULL}
  BY <1>0, ServedAreOfRun
<1>3. /\ slot' \in [Slots -> SlotRecord]
      /\ \A s \in Slots : slot'[s].exec_req \in B \cup {NULL}
      /\ \A s \in Slots : slot'[s].exec_req =
            IF StartedOn(rq, run, n, s) # {} THEN first(s) ELSE sl[s].exec_req
  <2>1. prog # NULL => rq[prog].hw_task \in HwTasks \cup {NULL}
    BY <1>2 DEF RequestRecord
  <2> HIDE DEF prog, first
  <2>2. \A s \in Slots : sl[s] \in SlotRecord /\ sl[s].exec_req \in B \cup {NULL}
    BY DEF Typed
  <2>3. ASSUME NEW s \in Slots
        PROVE  /\ slot'[s] \in SlotRecord
               /\ slot'[s].exec_req =
                    IF StartedOn(rq, run, n, s) # {} THEN first(s) ELSE sl[s].exec_req
    <3>1. slot'[s] =
            IF StartedOn(rq, run, n, s) # {}
            THEN [sl[s] EXCEPT !.state = "EXEC", !.exec_req = first(s)]
            ELSE IF prog # NULL /\ rq[prog].slot = s
            THEN [sl[s] EXCEPT !.state = "RCFG", !.hw_task = rq[prog].hw_task]
            ELSE sl[s]
      BY <1>1 DEF ServedSlots, prog, first
    <3>2. CASE StartedOn(rq, run, n, s) # {}
      <4>1. slot'[s] = [sl[s] EXCEPT !.state = "EXEC", !.exec_req = first(s)]
        BY <3>1, <3>2
      <4>2. first(s) \in Requests
        BY <1>2, <3>2
      <4> QED BY <4>1, <4>2, <2>2, <3>2 DEF SlotRecord, SlotStates
    <3>3. CASE StartedOn(rq, run, n, s) = {} /\ prog # NULL /\ rq[prog].slot = s
      <4>1. slot'[s] = [sl[s] EXCEPT !.state = "RCFG", !.hw_task = rq[prog].hw_task]
        BY <3>1, <3>3
      <4> QED BY <4>1, <2>1, <2>2, <3>3 DEF SlotRecord, SlotStates
    <3>4. CASE StartedOn(rq, run, n, s) = {} /\ ~(prog # NULL /\ rq[prog].slot = s)
      BY <3>1, <2>2, <3>4
    <3> QED BY <3>2, <3>3, <3>4
  <2>4. slot' \in [Slots -> SlotRecord]
    BY <1>1, <2>3 DEF ServedSlots
  <2> QED BY <2>2, <2>3, <2>4, <1>2
<1>4. /\ timer' \in [Slots -> TimerRecord]
      /\ \A s \in Slots : timer'[s].exec_req \in B \cup {NULL}
      /\ \A s \in Slots : timer'[s].state # "off" => timer'[s].exec_req # NULL
  <2>1. ASSUME NEW s \in Slots
        PROVE  /\ timer'[s] \in TimerRecord
               /\ timer'[s].exec_req \in B \cup {NULL}
               /\ timer'[s].state # "off" => timer'[s].exec_req # NULL
    <3>1. /\ tm[s] \in TimerRecord
          /\ tm[s].exec_req \in B \cup {NULL}
          /\ tm[s].state # "off" => tm[s].exec_req # NULL
      BY DEF Typed
    <3> HIDE DEF prog
    <3>2. CASE \E i \in StartedOn(rq, run, n, s) : ~StartFails(h, rq, run, i)
      <4>1. first(s) \in B
        BY <3>2, <1>2
      <4>2. timer'[s] = [state |-> "armed", exec_req |-> first(s)]
        BY <3>2, <1>1 DEF ServedTimers
      <4> HIDE DEF first
      <4> QED BY <4>1, <4>2, <1>0 DEF TimerRecord
    <3>3. CASE ~ \E i \in StartedOn(rq, run, n, s) : ~StartFails(h, rq, run, i)
      <4>1. timer'[s] = tm[s]
        BY <3>3, <1>1 DEF ServedTimers
      <4> QED BY <4>1, <3>1
    <3> QED BY <3>2, <3>3
  <2>2. timer' = [s \in Slots |-> timer'[s]]
    BY <1>1 DEF ServedTimers
  <2> QED BY <2>1, <2>2
<1>5. /\ hw' \in [Slots -> HwRecord]
      /\ \A s \in Slots : hw'[s].busy \/ hw'[s].irq => slot'[s].exec_req # NULL
  <2> HIDE DEF prog, first
  <2>1. ASSUME NEW s \in Slots
        PROVE  /\ hw'[s] \in HwRecord
               /\ hw'[s].busy \/ hw'[s].irq => slot'[s].exec_req # NULL
    <3>1. h[s] \in HwRecord /\ (h[s].busy \/ h[s].irq => sl[s].exec_req # NULL)
      BY DEF Typed
    <3>2. CASE StartedOn(rq, run, n, s) # {}
      <4>1. hw'[s] = [h[s] EXCEPT !.busy = TRUE]
        BY <3>2, <1>1 DEF ServedHw
      <4>2. slot'[s].exec_req # NULL
        BY <3>2, <1>2, <1>3, <1>0
      <4> QED BY <4>1, <4>2, <3>1 DEF HwRecord
    <3>3. CASE StartedOn(rq, run, n, s) = {} /\ prog # NULL /\ rq[prog].slot = s
      <4>1. hw'[s] = [h[s] EXCEPT !.coupled = FALSE,
                                  !.fabric = IF accepted THEN NULL ELSE @]
        BY <3>3, <1>1 DEF ServedHw, prog
      <4>2. hw'[s] \in HwRecord /\ hw'[s].busy = h[s].busy /\ hw'[s].irq = h[s].irq
        BY <4>1, <3>1 DEF HwRecord
      <4> QED BY <4>2, <3>1, <3>3, <1>3
    <3>4. CASE StartedOn(rq, run, n, s) = {} /\ ~(prog # NULL /\ rq[prog].slot = s)
      <4>1. hw'[s] = h[s]
        BY <3>4, <1>1 DEF ServedHw, prog
      <4> QED BY <4>1, <3>1, <3>4, <1>3
    <3> QED BY <3>2, <3>3, <3>4
  <2>2. hw' = [s \in Slots |-> hw'[s]]
    BY <1>1 DEF ServedHw
  <2> QED BY <2>1, <2>2
<1>6. devcfg' \in DevcfgRecord /\ (devcfg'.drv # "quiet" => devcfg'.current_rcfg_req \in B)
  <2>1. prog # NULL => rq[prog].hw_task \in HwTasks \cup {NULL}
                       /\ rq[prog].slot \in Slots \cup {NULL}
    BY <1>2 DEF RequestRecord
  <2>2. dv \in DevcfgRecord /\ (dv.drv # "quiet" => dv.current_rcfg_req \in B)
    BY DEF Typed
  <2>3. devcfg' = IF prog = NULL THEN dv
                  ELSE [state |-> "PROG", current_rcfg_req |-> prog,
                        drv |-> IF accepted THEN "loading" ELSE dv.drv,
                        bit_slot |-> rq[prog].slot, bit_task |-> rq[prog].hw_task]
    BY <1>1 DEF StartProg
  <2> HIDE DEF prog
  <2> QED BY <2>1, <2>2, <2>3, <1>2 DEF DevcfgRecord
<1>7. fri_queue' \in Seq(B)
  <2>1. Len(run) \in Nat /\ \A i \in 1..Len(run) : run[i] \in B
    BY LenProperties, ElementOfSeq
  <2>2. \A m \in 1..(Len(run) + 2) : SubSeq(run, m, Len(run)) \in Seq(B)
    <3> TAKE m \in 1..(Len(run) + 2)
    <3>1. \A i \in m..Len(run) : run[i] \in B
      BY <2>1
    <3> QED BY <3>1, <2>1, SubSeqProperties
  <2> HIDE DEF prog
  <2> QED BY <1>1, <1>2, <2>1, <2>2 DEF prog
<1>8. status' \in Statuses
  BY <1>1 DEF Statuses
<1> QED BY <1>3, <1>4, <1>5, <1>6, <1>7, <1>8 DEF Typed

\* A request whose slot is READY when it is served has that slot executing afterwards.
LEMMA ServeNoneReady ==
    ASSUME NEW B \in SUBSET Requests, NEW sl \in [Slots -> SlotRecord], NEW tm, NEW h,
           NEW dv, NEW rq, NEW run \in Seq(B), NEW ready,
           \A s \in Slots : sl[s].state = "READY" =>
                run # <<>> /\ run[1] = ready /\ rq[ready].slot = s,
           Serve(sl, tm, h, dv, rq, run, ready)
    PROVE  NoneReady(slot')
<1> USE ConstantsOK
<1>1. PICK n \in StartCounts(h, rq, run, ready) :
        slot' = ServedSlots(sl, rq, run, n, Programmed(h, rq, run, n))
  BY Zenon DEF Serve
<1>2. SUFFICES ASSUME NEW s \in Slots, slot'[s].state = "READY"
               PROVE  FALSE
  BY DEF NoneReady
<1>3. StartedOn(rq, run, n, s) = {} /\ sl[s].state = "READY"
  <2>1. sl[s] \in SlotRecord
    OBVIOUS
  <2> QED BY <2>1, <1>1, <1>2 DEF ServedSlots, SlotRecord
<1>4. run # <<>> /\ run[1] = ready /\ rq[ready].slot = s
  BY <1>3
<1>5. Len(run) \in Nat /\ Len(run) # 0
  BY <1>4, EmptySeq, LenProperties
<1>6. n >= 1
  <2>1. n \in 0..Len(run)
    BY DEF StartCounts
  <2>2. SUFFICES ASSUME n = 0 PROVE FALSE
    BY <2>1, <1>5
  <2>3. ~StartFails(h, rq, run, n)
    BY <2>2 DEF StartFails
  <2>4. NeedsNoRcfg(rq, run, ready, n + 1)
    BY <2>2, <1>4 DEF NeedsNoRcfg
  <2> QED BY <2>2, <2>3, <2>4, <1>5 DEF StartCounts
<1>7. 1 \in StartedOn(rq, run, n, s)
  BY <1>4, <1>5, <1>6 DEF StartCounts, StartedOn
<1> QED BY <1>3, <1>7

-----------------------------------------------------------------------------
(* Queueing and pulling requests. *)

\* Inserting a request into the FRI queue adds that request and no other.
LEMMA InsertTyped ==
    ASSUME NEW B, NEW q \in Seq(B), NEW r \in B, NEW k \in 0..Len(q)
    PROVE  InsertedAfter(q, k, r) \in Seq(B)
<1>1. Len(q) \in Nat /\ \A i \in 1..Len(q) : q[i] \in B
  BY LenProperties, ElementOfSeq
<1>2. SubSeq(q, 1, k) \in Seq(B)
  BY <1>1, SubSeqProperties
<1>3. SubSeq(q, k + 1, Len(q)) \in Seq(B)
  <2>1. \A i \in (k + 1)..Len(q) : q[i] \in B
    BY <1>1
  <2> QED BY <2>1, <1>1, SubSeqProperties
<1>4. <<r>> \in Seq(B)
  OBVIOUS
<1> HIDE DEF InsertedAfter
<1>5. SubSeq(q, 1, k) \o <<r>> \in Seq(B)
  BY <1>2, <1>4, ConcatProperties
<1> QED BY <1>3, <1>5, ConcatProperties DEF InsertedAfter

\* Pushing a bound request to the FRI queue, served at once or not.
LEMMA PushFriTyped ==
    ASSUME NEW B \in SUBSET Requests, NEW sl, NEW tm, NEW h, NEW rq,
           Typed(B, sl, tm, h, devcfg), NoneReady(sl),
           rq \in [Requests -> RequestRecord],
           fri_queue \in Seq(B), status \in Statuses, NEW r \in B,
           PushFri(sl, tm, h, rq, r)
    PROVE  /\ Typed(B, slot', timer', hw', devcfg')
           /\ NoneReady(slot')
           /\ fri_queue' \in Seq(B)
           /\ status' \in Statuses
<1>1. PICK k \in InsertPositions(fri_queue, rq, r) :
        IF devcfg.state = "IDLE" /\ Head(InsertedAfter(fri_queue, k, r)) = r
        THEN Serve(sl, tm, h, devcfg, rq, InsertedAfter(fri_queue, k, r), NULL)
        ELSE /\ fri_queue' = InsertedAfter(fri_queue, k, r)
             /\ slot' = sl /\ timer' = tm /\ hw' = h
             /\ UNCHANGED <<devcfg, status>>
  BY Zenon DEF PushFri
<1> DEFINE q == InsertedAfter(fri_queue, k, r)
<1>2. q \in Seq(B)
  BY InsertTyped DEF InsertPositions
<1> HIDE DEF q
<1>3. CASE Serve(sl, tm, h, devcfg, rq, q, NULL)
  <2>1. NoneReady(slot')
    <3>1. sl \in [Slots -> SlotRecord] /\ \A s \in Slots : sl[s].state # "READY"
      BY DEF Typed, NoneReady
    <3> QED BY <3>1, <1>2, <1>3, ServeNoneReady
  <2> QED BY <2>1, <1>2, <1>3, ServeTyped
<1>4. CASE /\ fri_queue' = q
           /\ slot' = sl /\ timer' = tm /\ hw' = h
           /\ UNCHANGED <<devcfg, status>>
  BY <1>2, <1>4 DEF Typed, NoneReady
<1> QED BY <1>1, <1>3, <1>4 DEF q

\* A handler may move a slot to any state.
WithState(sl, s, st) == [sl EXCEPT ![s].state = st]

LEMMA SlotStateTyped ==
    ASSUME NEW B, NEW sl, NEW tm, NEW h, NEW dv, NEW s, NEW st \in SlotStates,
           Typed(B, sl, tm, h, dv)
    PROVE  /\ Typed(B, WithState(sl, s, st), tm, h, dv)
           /\ \A u \in Slots : WithState(sl, s, st)[u].state =
                                 IF u = s THEN st ELSE sl[u].state
<1> DEFINE sr == WithState(sl, s, st)
<1>1. ASSUME NEW u \in Slots
      PROVE  /\ sr[u] \in SlotRecord /\ sr[u].exec_req = sl[u].exec_req
             /\ sr[u].state = IF u = s THEN st ELSE sl[u].state
  <2>1. sl \in [Slots -> SlotRecord] /\ sl[u] \in SlotRecord
    BY DEF Typed
  <2>2. sr[u] = IF u = s THEN [sl[u] EXCEPT !.state = st] ELSE sl[u]
    BY <2>1 DEF WithState
  <2> HIDE DEF sr
  <2> QED BY <2>1, <2>2 DEF SlotRecord
<1>2. sr \in [Slots -> SlotRecord]
  BY <1>1 DEF Typed, WithState
<1> HIDE DEF sr
<1>3. /\ Typed(B, sr, tm, h, dv)
      /\ \A u \in Slots : sr[u].state = IF u = s THEN st ELSE sl[u].state
  BY <1>1, <1>2 DEF Typed
<1> QED BY <1>3 DEF sr

\* Reserving a slot.
LEMMA ReservedTyped ==
    ASSUME NEW B, NEW sl, NEW tm, NEW h, NEW dv, NEW s \in Slots,
           Typed(B, sl, tm, h, dv), NoneReady(sl)
    PROVE  Typed(B, SetReserved(sl, s), tm, h, dv) /\ NoneReady(SetReserved(sl, s))
<1>1. "RSRV" \in SlotStates /\ SetReserved(sl, s) = WithState(sl, s, "RSRV")
  BY DEF SlotStates, SetReserved, WithState
<1> QED BY <1>1, SlotStateTyped DEF NoneReady

\* The decouplers, and reading an interrupt, leave no accelerator without a request.
LEMMA DriversTyped ==
    ASSUME NEW B, NEW sl, NEW tm, NEW h, NEW dv, NEW s, Typed(B, sl, tm, h, dv)
    PROVE  /\ Typed(B, sl, tm, Couple(h, s), dv)
           /\ Typed(B, sl, tm, Decouple(h, s), dv)
           /\ Typed(B, sl, tm, ConsumeIrq(h, s), dv)
<1>1. ASSUME NEW g, g \in {Couple(h, s), Decouple(h, s), ConsumeIrq(h, s)}
      PROVE  Typed(B, sl, tm, g, dv)
  <2>1. ASSUME NEW u \in Slots
        PROVE  g[u] \in HwRecord /\ g[u].busy = h[u].busy /\ (g[u].irq => h[u].irq)
    <3>1. h \in [Slots -> HwRecord] /\ h[u] \in HwRecord
      BY DEF Typed
    <3>2. g[u] \in {h[u], [h[u] EXCEPT !.coupled = TRUE], [h[u] EXCEPT !.coupled = FALSE],
                    [h[u] EXCEPT !.irq = FALSE]}
      BY <1>1, <3>1 DEF Couple, Decouple, ConsumeIrq
    <3> QED BY <3>1, <3>2 DEF HwRecord
  <2>2. g \in [Slots -> HwRecord]
    BY <1>1, <2>1 DEF Typed, Couple, Decouple, ConsumeIrq
  <2> QED BY <2>1, <2>2 DEF Typed
<1> QED BY <1>1

\* Stopping a watchdog, whether its expiry is cancelled or read.
LEMMA TimerOffTyped ==
    ASSUME NEW B, NEW sl, NEW tm, NEW h, NEW dv, NEW s, Typed(B, sl, tm, h, dv)
    PROVE  /\ Typed(B, sl, Disarm(tm, s), h, dv)
           /\ Typed(B, sl, [tm EXCEPT ![s].state = "off"], h, dv)
<1>1. ASSUME NEW g, g \in {Disarm(tm, s), [tm EXCEPT ![s].state = "off"]}
      PROVE  Typed(B, sl, g, h, dv)
  <2>1. ASSUME NEW u \in Slots
        PROVE  /\ g[u] \in TimerRecord /\ g[u].exec_req \in B \cup {NULL}
               /\ g[u].state # "off" => g[u].exec_req # NULL
    <3>1. /\ tm \in [Slots -> TimerRecord] /\ tm[u] \in TimerRecord
          /\ tm[u].exec_req \in B \cup {NULL}
          /\ tm[u].state # "off" => tm[u].exec_req # NULL
      BY DEF Typed
    <3>2. g[u] \in {tm[u], [state |-> "off", exec_req |-> NULL],
                    [tm[u] EXCEPT !.state = "off"]}
      BY <1>1, <3>1 DEF Disarm
    <3> QED BY <3>1, <3>2 DEF TimerRecord
  <2>2. g \in [Slots -> TimerRecord]
    BY <1>1, <2>1 DEF Typed, Disarm
  <2> QED BY <2>1, <2>2 DEF Typed
<1> QED BY <1>1

\* Handing the freed slot s to the next request of its partition.
LEMMA PullTyped ==
    ASSUME IInv, NEW sl, NEW tm, NEW h, Typed(Bound, sl, tm, h, devcfg), NoneReady(sl),
           NEW s \in Slots, NEW p \in Partitions, Pull(sl, tm, h, s, p)
    PROVE  /\ Typed(Bound, slot', timer', hw', devcfg')
           /\ NoneReady(slot')
           /\ fri_queue' \in Seq(Bound)
           /\ status' \in Statuses
           /\ req' \in [Requests -> RequestRecord]
           /\ part_queues' \in [Partitions -> Seq(Bound)]
           /\ Bound' = Bound
<1>1. /\ fri_queue \in Seq(Bound) /\ status \in Statuses
      /\ req \in [Requests -> RequestRecord]
      /\ part_queues \in [Partitions -> Seq(Bound)]
  BY DEF IInv, TypeOK, Pointers
<1>2. CASE part_queues[p] = <<>>
  BY <1>1, <1>2 DEF Pull, Typed, NoneReady, Bound
<1>3. CASE part_queues[p] # <<>>
  <2> DEFINE r == Head(part_queues[p])
             rq == [req EXCEPT ![r].slot = s]
             sr == SetReserved(sl, s)
  <2>1. r \in Bound /\ Tail(part_queues[p]) \in Seq(Bound)
    BY <1>1, <1>3, HeadTailProperties
  <2>2. /\ part_queues' = [part_queues EXCEPT ![p] = Tail(@)]
        /\ req' = rq
        /\ PushFri(sr, tm, h, rq, r)
    BY <1>3 DEF Pull
  <2>3. rq \in [Requests -> RequestRecord]
    BY <1>1 DEF RequestRecord
  <2>4. \A u \in Requests : rq[u].hw_task = req[u].hw_task
    BY <1>1 DEF RequestRecord
  <2>5. Typed(Bound, sr, tm, h, devcfg) /\ NoneReady(sr)
    BY ReservedTyped
  <2>6. Bound' = Bound
    BY <2>2, <2>4 DEF Bound
  <2>7. Bound \in SUBSET Requests
    BY DEF Bound
  <2> HIDE DEF r, rq, sr
  <2>8. /\ Typed(Bound, slot', timer', hw', devcfg') /\ NoneReady(slot')
        /\ fri_queue' \in Seq(Bound) /\ status' \in Statuses
    BY <1>1, <2>1, <2>2, <2>3, <2>5, <2>7, PushFriTyped
  <2>9. part_queues' \in [Partitions -> Seq(Bound)]
    BY <1>1, <2>1, <2>2
  <2> QED BY <2>2, <2>3, <2>6, <2>8, <2>9
<1> QED BY <1>2, <1>3

-----------------------------------------------------------------------------
(* Every step keeps the inductive invariant. *)

\* Binding one more request keeps what refers to bound requests well typed.
LEMMA TypedMonotonic ==
    ASSUME NEW B, NEW C, B \subseteq C, NEW sl, NEW tm, NEW h, NEW dv,
           Typed(B, sl, tm, h, dv)
    PROVE  Typed(C, sl, tm, h, dv)
BY DEF Typed

\* The parts of the inductive invariant, collected after a step.
LEMMA IInvParts ==
    ASSUME Typed(Bound', slot', timer', hw', devcfg'), NoneReady(slot'),
           req' \in [Requests -> RequestRecord],
           part_queues' \in [Partitions -> Seq(Bound')], fri_queue' \in Seq(Bound'),
           banned' \subseteq HwTasks, clock' \in 0..MaxClock,
           reply' \in [Requests -> Replies], status' \in Statuses
    PROVE  IInv'
<1>1. Bound' \subseteq Requests
  BY DEF Bound
<1>2. fri_queue' \in Seq(Requests)
  BY <1>1, SeqMonotonic
<1>3. part_queues' \in [Partitions -> Seq(Requests)]
  <2>1. ASSUME NEW p \in Partitions PROVE part_queues'[p] \in Seq(Requests)
    <3>1. part_queues'[p] \in Seq(Bound')
      OBVIOUS
    <3> QED BY <3>1, <1>1, SeqMonotonic
  <2> QED BY <2>1
<1>4. TypeOK'
  BY <1>2, <1>3 DEF TypeOK, Typed, NoneReady
<1>5. Pointers'
  BY DEF Pointers, Typed, Bound
<1> QED BY <1>4, <1>5 DEF IInv

\* Nothing is bound, armed or computing when the server comes up.
LEMMA InitIInv == Init => IInv
<1> SUFFICES ASSUME Init PROVE IInv
  OBVIOUS
<1> USE ConstantsOK
<1>1. Bound = {}
  BY DEF Init, Bound
<1>2. /\ slot \in [Slots -> SlotRecord] /\ timer \in [Slots -> TimerRecord]
      /\ hw \in [Slots -> HwRecord] /\ devcfg \in DevcfgRecord
      /\ req \in [Requests -> RequestRecord]
  BY DEF Init, SlotRecord, SlotStates, TimerRecord, HwRecord, DevcfgRecord, RequestRecord
<1>3. TypeOK
  <2>1. \A s \in Slots : slot[s].state # "READY"
    BY DEF Init
  <2>2. part_queues \in [Partitions -> Seq(Requests)] /\ fri_queue \in Seq(Requests)
    BY DEF Init
  <2>3. banned \subseteq HwTasks /\ clock \in 0..MaxClock
    BY DEF Init
  <2>4. reply \in [Requests -> Replies] /\ status \in Statuses
    BY DEF Init, Replies, Statuses
  <2> QED BY <1>2, <2>1, <2>2, <2>3, <2>4 DEF TypeOK
<1>4. Typed(Bound, slot, timer, hw, devcfg)
  BY <1>2 DEF Typed, Init
<1>5. part_queues \in [Partitions -> Seq(Bound)] /\ fri_queue \in Seq(Bound)
  BY DEF Init
<1> QED BY <1>3, <1>4, <1>5 DEF IInv, Pointers

\* A client's request: bound to its hw-task, it joins the requests the queues, slots
\* and the device may refer to.
LEMMA RunKeepsIInv ==
    ASSUME IInv, NEW r \in Requests, NEW t \in HwTasks, Run(r, t)
    PROVE  IInv'
<1> USE ConstantsOK
<1> DEFINE B == Bound \cup {r}
           p == TaskPartition[t]
<1>1. /\ req \in [Requests -> RequestRecord] /\ clock \in 0..MaxClock
      /\ part_queues \in [Partitions -> Seq(Bound)] /\ fri_queue \in Seq(Bound)
      /\ status \in Statuses /\ NoneReady(slot) /\ p \in Partitions
      /\ Typed(Bound, slot, timer, hw, devcfg) /\ banned \subseteq HwTasks
      /\ reply \in [Requests -> Replies]
  BY DEF IInv, TypeOK, Pointers, NoneReady
<1>2. Bound \subseteq B /\ B \in SUBSET Requests /\ r \in B
  BY DEF Bound
<1> HIDE DEF B
<1>3. Typed(B, slot, timer, hw, devcfg) /\ fri_queue \in Seq(B)
  BY <1>1, <1>2, TypedMonotonic, SeqMonotonic
<1>4. part_queues \in [Partitions -> Seq(B)]
  <2>1. ASSUME NEW u \in Partitions PROVE part_queues[u] \in Seq(B)
    <3>1. part_queues[u] \in Seq(Bound)
      BY <1>1
    <3> QED BY <3>1, <1>2, SeqMonotonic
  <2> QED BY <2>1, <1>1
<1>5. banned' \subseteq HwTasks /\ reply' \in [Requests -> Replies]
  BY <1>1 DEF Run, Push, Replies
<1>6. PICK now \in clock..(clock + 1) :
        LET fresh == Unbound(r, t, now)
        IN /\ now <= MaxClock
           /\ clock' = now
           /\ \/ /\ SearchSlot(p, t) = {}
                 /\ req' = [req EXCEPT ![r] = fresh]
                 /\ part_queues' = [part_queues EXCEPT ![p] = Enqueue(@, r)]
                 /\ UNCHANGED <<slot, timer, hw, devcfg, fri_queue, status>>
              \/ \E s \in SearchSlot(p, t) :
                    LET rq == [req EXCEPT ![r] =
                                [fresh EXCEPT !.slot = s,
                                              !.skip_rcfg = @ \/ MaySkip(s, t)]]
                    IN /\ req' = rq
                       /\ UNCHANGED part_queues
                       /\ PushFri(SetReserved(slot, s), timer, hw, rq, r)
  BY Zenon DEF Run, Push, PushAccelReq
<1> DEFINE fresh == Unbound(r, t, now)
<1>7. clock' \in 0..MaxClock /\ now \in 0..MaxClock
  <2>1. now <= MaxClock /\ clock' = now
    BY Zenon, <1>6
  <2> QED BY <1>1, <2>1
<1>8. fresh \in RequestRecord /\ fresh.hw_task = t
  BY <1>7 DEF Unbound, RequestRecord
<1>9. CASE /\ req' = [req EXCEPT ![r] = fresh]
           /\ part_queues' = [part_queues EXCEPT ![p] = Enqueue(@, r)]
           /\ UNCHANGED <<slot, timer, hw, devcfg, fri_queue, status>>
  <2> HIDE DEF fresh
  <2>1. req' \in [Requests -> RequestRecord]
    BY <1>1, <1>8, <1>9
  <2>2. Bound' = B
    BY <1>1, <1>8, <1>9 DEF Bound, B
  <2>3. part_queues' \in [Partitions -> Seq(B)]
    BY <1>1, <1>2, <1>4, <1>9 DEF Enqueue
  <2> QED BY <1>1, <1>3, <1>5, <1>7, <1>9, <2>1, <2>2, <2>3, IInvParts
<1>10. ASSUME NEW s \in SearchSlot(p, t),
              req' = [req EXCEPT ![r] = [fresh EXCEPT !.slot = s,
                                           !.skip_rcfg = @ \/ MaySkip(s, t)]],
              UNCHANGED part_queues,
              PushFri(SetReserved(slot, s), timer, hw,
                      [req EXCEPT ![r] = [fresh EXCEPT !.slot = s,
                                            !.skip_rcfg = @ \/ MaySkip(s, t)]], r)
       PROVE  IInv'
  <2> DEFINE bound == [fresh EXCEPT !.slot = s, !.skip_rcfg = @ \/ MaySkip(s, t)]
             rq == [req EXCEPT ![r] = bound]
             sr == SetReserved(slot, s)
  <2>1. s \in Slots
    BY DEF SearchSlot, AvailableSlots
  <2>2. bound \in RequestRecord /\ bound.hw_task = t
    BY <1>7, <2>1 DEF Unbound, RequestRecord, MaySkip
  <2>3. rq \in [Requests -> RequestRecord]
    BY <1>1, <2>2
  <2>4. Bound' = B
    <3> HIDE DEF bound
    <3> QED BY <1>1, <1>10, <2>2 DEF Bound, B, bound
  <2>5. Typed(B, sr, timer, hw, devcfg) /\ NoneReady(sr)
    BY <1>1, <1>3, <2>1, ReservedTyped
  <2> HIDE DEF bound, rq, sr
  <2>6. /\ Typed(B, slot', timer', hw', devcfg') /\ NoneReady(slot')
        /\ fri_queue' \in Seq(B) /\ status' \in Statuses
    <3>1. PushFri(sr, timer, hw, rq, r)
      BY <1>10 DEF sr, rq, bound
    <3> QED BY <3>1, <1>1, <1>2, <1>3, <2>3, <2>5, PushFriTyped
  <2>7. req' \in [Requests -> RequestRecord] /\ part_queues' \in [Partitions -> Seq(B)]
    BY <1>4, <1>10, <2>3 DEF rq, bound
  <2> QED BY <1>5, <1>7, <2>4, <2>6, <2>7, IInvParts
<1> QED BY <1>6, <1>9, <1>10

\* A handler that changes no request record and no partition queue.
LEMMA SameRequests ==
    ASSUME UNCHANGED <<req, part_queues>>, IInv
    PROVE  /\ Bound' = Bound
           /\ req' \in [Requests -> RequestRecord]
           /\ part_queues' \in [Partitions -> Seq(Bound')]
BY DEF IInv, TypeOK, Pointers, Bound

\* A failed assert leaves everything but the process as it was.
LEMMA AbortKeepsIInv == ASSUME IInv, Abort PROVE IInv'
<1>1. Bound' = Bound
  BY DEF Abort, Bound
<1>2. TypeOK'
  BY DEF IInv, TypeOK, Abort, Statuses
<1>3. Pointers'
  BY <1>1 DEF IInv, Pointers, Typed, Abort
<1> QED BY <1>2, <1>3 DEF IInv

\* The end of a reconfiguration: only the slot of the reconfigured request is READY
\* when the run is served, and that request is the first of the run.
LEMMA RcfgCompleteKeepsIInv == ASSUME IInv, RcfgComplete PROVE IInv'
<1> USE ConstantsOK
<1> DEFINE r == devcfg.current_rcfg_req
           s == req[r].slot
           dv == [devcfg EXCEPT !.state = "IDLE", !.drv = "quiet"]
           sl == [slot EXCEPT ![s].state = "READY"]
           h == Couple(hw, s)
<1>1. /\ req \in [Requests -> RequestRecord] /\ clock \in 0..MaxClock
      /\ fri_queue \in Seq(Bound) /\ status \in Statuses /\ NoneReady(slot)
      /\ Typed(Bound, slot, timer, hw, devcfg)
      /\ banned \subseteq HwTasks /\ reply \in [Requests -> Replies]
  BY DEF IInv, TypeOK, Pointers, NoneReady
<1>2. r \in Bound /\ Bound \in SUBSET Requests
  BY <1>1 DEF RcfgComplete, Typed, Bound
<1>3. CASE Abort
  BY <1>3, AbortKeepsIInv
<1>4. CASE /\ s # NULL
           /\ devcfg' = dv /\ status' = "down"
           /\ UNCHANGED <<slot, timer, hw, req, part_queues, fri_queue, banned, clock, reply>>
  <2>1. Typed(Bound, slot', timer', hw', devcfg') /\ NoneReady(slot')
    BY <1>1, <1>4 DEF Typed, DevcfgRecord, NoneReady
  <2> QED BY <1>1, <1>4, <2>1, SameRequests, IInvParts DEF Statuses
<1>5. CASE /\ s # NULL
           /\ Serve(sl, timer, h, dv, req, <<r>> \o fri_queue, r)
           /\ UNCHANGED <<req, part_queues, banned, clock, reply>>
  <2>1. s \in Slots
    BY <1>1, <1>2, <1>5 DEF RequestRecord
  <2> HIDE DEF r, s
  <2>2. Typed(Bound, slot, timer, hw, dv)
    BY <1>1 DEF Typed, DevcfgRecord
  <2>3. Typed(Bound, sl, timer, h, dv) /\ \A u \in Slots : sl[u].state = "READY" => u = s
    <3>1. "READY" \in SlotStates /\ sl = WithState(slot, s, "READY")
      BY DEF SlotStates, WithState
    <3>2. Typed(Bound, slot, timer, h, dv)
      BY <2>2, DriversTyped
    <3> HIDE DEF sl, h, dv
    <3> QED BY <1>1, <3>1, <3>2, SlotStateTyped DEF NoneReady
  <2>4. /\ <<r>> \o fri_queue \in Seq(Bound) /\ <<r>> \o fri_queue # <<>>
        /\ (<<r>> \o fri_queue)[1] = r
    <3>1. <<r>> \in Seq(Bound) /\ Len(<<r>>) = 1 /\ <<r>>[1] = r
      BY <1>2
    <3>2. /\ <<r>> \o fri_queue \in Seq(Bound)
          /\ Len(<<r>> \o fri_queue) = 1 + Len(fri_queue)
          /\ \A i \in 1..(1 + Len(fri_queue)) : (<<r>> \o fri_queue)[i] =
                IF i <= 1 THEN <<r>>[i] ELSE fri_queue[i - 1]
      BY <1>1, <3>1, ConcatProperties
    <3>3. Len(fri_queue) \in Nat
      BY <1>1, LenProperties
    <3> QED BY <3>1, <3>2, <3>3, EmptySeq
  <2>5. req[r].slot = s
    BY DEF s
  <2>6. sl \in [Slots -> SlotRecord]
    BY <2>3 DEF Typed
  <2> DEFINE run == <<r>> \o fri_queue
  <2> HIDE DEF sl, h, dv, run
  <2>7. NoneReady(slot')
    <3>1. \A u \in Slots : sl[u].state = "READY" =>
             run # <<>> /\ run[1] = r /\ req[r].slot = u
      BY <2>3, <2>4, <2>5 DEF run
    <3>2. Serve(sl, timer, h, dv, req, run, r) /\ run \in Seq(Bound)
      BY <1>5, <2>4 DEF run
    <3> QED BY <1>2, <2>6, <3>1, <3>2, ServeNoneReady
  <2>8. /\ Typed(Bound, slot', timer', hw', devcfg')
        /\ fri_queue' \in Seq(Bound) /\ status' \in Statuses
    BY <1>1, <1>2, <1>5, <2>3, <2>4, ServeTyped
  <2> QED BY <1>1, <1>5, <2>7, <2>8, SameRequests, IInvParts
<1> QED BY Zenon, <1>3, <1>4, <1>5 DEF RcfgComplete

\* The interrupt of a slot, handled for the request the slot executes.
LEMMA SlotCompleteKeepsIInv ==
    ASSUME IInv, NEW s \in Slots, NEW delivered, SlotComplete(s, delivered)
    PROVE  IInv'
<1> USE ConstantsOK
<1> DEFINE r == slot[s].exec_req
           z == req[r].slot
           p == TaskPartition[req[r].hw_task]
           tm == Disarm(timer, z)
           sl == ClearAfterCompute(slot, z)
           h == ConsumeIrq(hw, z)
<1>1. /\ req \in [Requests -> RequestRecord] /\ clock \in 0..MaxClock
      /\ fri_queue \in Seq(Bound) /\ status \in Statuses /\ NoneReady(slot)
      /\ Typed(Bound, slot, timer, hw, devcfg)
      /\ banned \subseteq HwTasks /\ reply \in [Requests -> Replies]
  BY DEF IInv, TypeOK, Pointers, NoneReady
<1>2. r \in Bound /\ Bound \in SUBSET Requests
  BY <1>1 DEF SlotComplete, Typed, Bound
<1>3. p \in Partitions
  BY <1>1, <1>2 DEF Bound, RequestRecord
<1>4. Typed(Bound, slot, tm, hw, devcfg)
  BY <1>1, TimerOffTyped
<1>5. Typed(Bound, sl, tm, h, devcfg) /\ NoneReady(sl)
  <2>1. "IDLE" \in SlotStates /\ sl = WithState(slot, z, "IDLE")
    BY DEF SlotStates, ClearAfterCompute, WithState
  <2>2. Typed(Bound, slot, tm, h, devcfg)
    BY <1>4, DriversTyped
  <2> HIDE DEF z, tm, h, sl
  <2> QED BY <1>1, <2>1, <2>2, SlotStateTyped DEF NoneReady
<1>6. CASE Abort
  BY <1>6, AbortKeepsIInv
<1>7. CASE /\ timer' = tm /\ status' = "blocked"
           /\ UNCHANGED <<slot, hw, devcfg, req, part_queues, fri_queue, banned, clock,
                          reply>>
  <2> HIDE DEF tm
  <2> QED BY <1>1, <1>4, <1>7, SameRequests, IInvParts DEF Statuses
<1>8. CASE /\ slot' = sl /\ timer' = tm /\ hw' = h /\ status' = "down"
           /\ UNCHANGED <<devcfg, req, part_queues, fri_queue, reply, banned, clock>>
  <2> HIDE DEF sl, tm, h
  <2> QED BY <1>1, <1>5, <1>8, SameRequests, IInvParts DEF Statuses
<1>9. CASE /\ z \in Slots
           /\ reply' = [reply EXCEPT ![r] = "DONE"]
           /\ UNCHANGED <<banned, clock>>
           /\ Pull(sl, tm, h, z, p)
  <2>1. reply' \in [Requests -> Replies]
    BY <1>1, <1>9 DEF Replies
  <2> HIDE DEF r, z, p, sl, tm, h
  <2> QED BY <1>1, <1>3, <1>5, <1>9, <2>1, PullTyped, IInvParts
<1>10. z \in Slots \cup {NULL}
  BY <1>1, <1>2 DEF RequestRecord
<1> QED
  <2> HIDE DEF r, p, sl, tm, h
  <2> QED BY Zenon, <1>6, <1>7, <1>8, <1>9, <1>10
            DEF SlotComplete, SlotHandler, r, p, sl, tm, h

\* The expiry of a watchdog, handled for the request it was armed for.
LEMMA SlotTimeoutKeepsIInv ==
    ASSUME IInv, NEW s \in Slots, NEW delivered, SlotTimeout(s, delivered)
    PROVE  IInv'
<1> USE ConstantsOK
<1> DEFINE r == timer[s].exec_req
           z == req[r].slot
           p == TaskPartition[req[r].hw_task]
           tm == [timer EXCEPT ![s].state = "off"]
           sl == DisableAfterTimeout(slot, z)
           h == Decouple(hw, z)
<1>1. /\ req \in [Requests -> RequestRecord] /\ clock \in 0..MaxClock
      /\ fri_queue \in Seq(Bound) /\ status \in Statuses /\ NoneReady(slot)
      /\ Typed(Bound, slot, timer, hw, devcfg)
      /\ banned \subseteq HwTasks /\ reply \in [Requests -> Replies]
  BY DEF IInv, TypeOK, Pointers, NoneReady
<1>2. r \in Bound /\ Bound \in SUBSET Requests
  BY <1>1 DEF SlotTimeout, Typed, Bound
<1>3. p \in Partitions /\ banned \cup {req[r].hw_task} \subseteq HwTasks
  BY <1>1, <1>2 DEF Bound, RequestRecord
<1>4. Typed(Bound, sl, tm, h, devcfg) /\ NoneReady(sl)
  <2>1. "BLANK" \in SlotStates /\ sl = WithState(slot, z, "BLANK")
    BY DEF SlotStates, DisableAfterTimeout, WithState
  <2>2. Typed(Bound, slot, tm, hw, devcfg)
    BY <1>1, TimerOffTyped
  <2> HIDE DEF z, tm, h, sl
  <2>3. Typed(Bound, slot, tm, h, devcfg)
    BY <2>2, DriversTyped DEF h
  <2> QED BY <1>1, <2>1, <2>3, SlotStateTyped DEF NoneReady
<1>5. CASE Abort
  BY <1>5, AbortKeepsIInv
<1>6. CASE /\ slot' = sl /\ timer' = tm /\ hw' = h /\ status' = "down"
           /\ banned' = banned \cup {req[r].hw_task}
           /\ UNCHANGED <<devcfg, req, part_queues, fri_queue, reply, clock>>
  <2> HIDE DEF r, sl, tm, h
  <2> QED BY <1>1, <1>3, <1>4, <1>6, SameRequests, IInvParts DEF Statuses
<1>7. CASE /\ z \in Slots
           /\ reply' = [reply EXCEPT ![r] = "OVERRUN"]
           /\ banned' = banned \cup {req[r].hw_task}
           /\ UNCHANGED clock
           /\ Pull(sl, tm, h, z, p)
  <2>1. reply' \in [Requests -> Replies]
    BY <1>1, <1>7 DEF Replies
  <2> HIDE DEF r, z, p, sl, tm, h
  <2> QED BY <1>1, <1>3, <1>4, <1>7, <2>1, PullTyped, IInvParts
<1>8. z \in Slots \cup {NULL}
  BY <1>1, <1>2 DEF RequestRecord
<1> QED
  <2> HIDE DEF r, p, sl, tm, h
  <2> QED BY Zenon, <1>5, <1>6, <1>7, <1>8 DEF SlotTimeout, r, p, sl, tm, h

\* The accelerators, the kernel timers and the FPGA manager.
LEMMA HardwareKeepsIInv ==
    ASSUME IInv,
           RcfgDone \/ (\E s \in Slots : AccelDone(s)) \/ (\E s \in Slots : TimerExpire(s))
    PROVE  IInv'
<1>1. /\ req \in [Requests -> RequestRecord] /\ clock \in 0..MaxClock
      /\ fri_queue \in Seq(Bound) /\ status \in Statuses /\ NoneReady(slot)
      /\ Typed(Bound, slot, timer, hw, devcfg)
      /\ banned \subseteq HwTasks /\ reply \in [Requests -> Replies]
  BY DEF IInv, TypeOK, Pointers, NoneReady
<1>2. SUFFICES /\ Typed(Bound, slot', timer', hw', devcfg') /\ slot' = slot
               /\ UNCHANGED <<req, part_queues, fri_queue, banned, clock, reply, status>>
  BY <1>1, SameRequests, IInvParts
<1>3. CASE RcfgDone
  <2>1. devcfg' \in DevcfgRecord
        /\ (devcfg'.drv # "quiet" => devcfg'.current_rcfg_req \in Bound)
    BY <1>1, <1>3 DEF RcfgDone, Typed, DevcfgRecord
  <2>2. ASSUME NEW u \in Slots
        PROVE  hw'[u] \in HwRecord /\ (hw'[u].busy => hw[u].busy) /\ hw'[u].irq = hw[u].irq
    <3>1. hw[u] \in HwRecord /\ devcfg.bit_task \in HwTasks \cup {NULL}
      BY <1>1 DEF Typed, DevcfgRecord
    <3>2. hw'[u] \in {hw[u], [hw[u] EXCEPT !.fabric = devcfg.bit_task, !.busy = FALSE]}
      BY <1>1, <1>3 DEF RcfgDone, Typed
    <3> QED BY <3>1, <3>2 DEF HwRecord
  <2>3. hw' \in [Slots -> HwRecord]
    BY <1>1, <1>3, <2>2 DEF RcfgDone, Typed
  <2>4. UNCHANGED <<slot, timer, req, part_queues, fri_queue, banned, clock, reply, status>>
    BY <1>3 DEF RcfgDone
  <2> QED BY <1>1, <2>1, <2>2, <2>3, <2>4 DEF Typed
<1>4. ASSUME NEW s \in Slots, AccelDone(s)
      PROVE  /\ Typed(Bound, slot', timer', hw', devcfg') /\ slot' = slot
             /\ UNCHANGED <<req, part_queues, fri_queue, banned, clock, reply, status>>
  <2>1. ASSUME NEW u \in Slots
        PROVE  /\ hw'[u] \in HwRecord
               /\ hw'[u].busy \/ hw'[u].irq => slot[u].exec_req # NULL
    <3>1. hw[u] \in HwRecord /\ (hw[u].busy \/ hw[u].irq => slot[u].exec_req # NULL)
      BY <1>1 DEF Typed
    <3>2. hw'[u] = IF u = s THEN [hw[u] EXCEPT !.busy = FALSE, !.irq = TRUE] ELSE hw[u]
      BY <1>1, <1>4 DEF AccelDone, Typed
    <3>3. hw[s].busy
      BY <1>4 DEF AccelDone
    <3> QED BY <3>1, <3>2, <3>3 DEF HwRecord
  <2>2. hw' \in [Slots -> HwRecord]
    BY <1>1, <1>4, <2>1 DEF AccelDone, Typed
  <2>3. UNCHANGED <<slot, timer, devcfg, req, part_queues, fri_queue, banned, clock, reply,
                    status>>
    BY <1>4 DEF AccelDone
  <2> QED BY <1>1, <2>1, <2>2, <2>3 DEF Typed
<1>5. ASSUME NEW s \in Slots, TimerExpire(s)
      PROVE  /\ Typed(Bound, slot', timer', hw', devcfg') /\ slot' = slot
             /\ UNCHANGED <<req, part_queues, fri_queue, banned, clock, reply, status>>
  <2>1. ASSUME NEW u \in Slots
        PROVE  /\ timer'[u] \in TimerRecord /\ timer'[u].exec_req = timer[u].exec_req
               /\ timer'[u].state # "off" => timer[u].state # "off"
    <3>1. timer[u] \in TimerRecord
      BY <1>1 DEF Typed
    <3>2. timer'[u] = IF u = s THEN [timer[u] EXCEPT !.state = "expired"] ELSE timer[u]
      BY <1>1, <1>5 DEF TimerExpire, Typed
    <3>3. timer[s].state = "armed"
      BY <1>5 DEF TimerExpire
    <3> QED BY <3>1, <3>2, <3>3 DEF TimerRecord
  <2>2. timer' \in [Slots -> TimerRecord]
    BY <1>1, <1>5, <2>1 DEF TimerExpire, Typed
  <2>3. UNCHANGED <<slot, hw, devcfg, req, part_queues, fri_queue, banned, clock, reply,
                    status>>
    BY <1>5 DEF TimerExpire
  <2> QED BY <1>1, <2>1, <2>2, <2>3 DEF Typed
<1> QED BY <1>3, <1>4, <1>5

\* A refusal, or nothing at all.
LEMMA QuietKeepsIInv ==
    ASSUME IInv,
           UNCHANGED vars \/ (\E r \in Requests, t \in HwTasks : RunBanned(r, t))
    PROVE  IInv'
<1>1. /\ UNCHANGED <<slot, timer, hw, devcfg, req, part_queues, fri_queue, banned, clock,
                     status>>
      /\ reply' \in [Requests -> Replies]
  BY DEF IInv, TypeOK, RunBanned, vars, Replies
<1>2. /\ clock \in 0..MaxClock /\ fri_queue \in Seq(Bound) /\ status \in Statuses
      /\ NoneReady(slot) /\ Typed(Bound, slot, timer, hw, devcfg) /\ banned \subseteq HwTasks
  BY DEF IInv, TypeOK, Pointers, NoneReady
<1> QED BY <1>1, <1>2, SameRequests, IInvParts

\* One step, by cases on the actions of Next.
LEMMA NextKeepsIInv == IInv /\ [Next]_vars => IInv'
<1> SUFFICES ASSUME IInv, [Next]_vars PROVE IInv'
  OBVIOUS
<1>1. CASE \E r \in Requests, t \in HwTasks : Run(r, t)
  BY <1>1, RunKeepsIInv
<1>2. CASE UNCHANGED vars \/ \E r \in Requests, t \in HwTasks : RunBanned(r, t)
  BY <1>2, QuietKeepsIInv
<1>3. CASE RcfgComplete
  BY <1>3, RcfgCompleteKeepsIInv
<1>4. CASE \E s \in Slots, delivered \in Outcomes("notify") : SlotComplete(s, delivered)
  BY <1>4, SlotCompleteKeepsIInv
<1>5. CASE \E s \in Slots, delivered \in Outcomes("notify") : SlotTimeout(s, delivered)
  BY <1>5, SlotTimeoutKeepsIInv
<1>6. CASE \/ RcfgDone \/ (\E s \in Slots : AccelDone(s)) \/ (\E s \in Slots : TimerExpire(s))
  BY <1>6, HardwareKeepsIInv
<1>7. CASE Stopped
  BY <1>2, <1>7 DEF Stopped
<1> QED BY <1>1, <1>2, <1>3, <1>4, <1>5, <1>6, <1>7 DEF Next

\* Every event a slot, a watchdog or the device raises finds a request bound to a
\* hw-task behind the pointer its handler follows.
THEOREM Invariance == Spec => []IInv
BY InitIInv, NextKeepsIInv, PTL DEF Spec

\* Type correctness of the scheduler, with or without faults and races: no handler
\* ever follows a pointer that is not a request bound to a hw-task, and none leaves a
\* slot in the passing state SLOT_READY.
THEOREM TypeCorrect == Spec => []TypeOK
<1>1. IInv => TypeOK
  BY DEF IInv
<1> QED BY <1>1, Invariance, PTL

-----------------------------------------------------------------------------
(* The reconfiguration device is never left idle while requests wait for it. *)
(* DevcfgNotIdle is inductive relative to IInv.                              *)

\* Serving ends with the device busy or the queue empty, unless the server stops.
LEMMA ServeKeepsBusy ==
    ASSUME NEW B \in SUBSET Requests, NEW sl, NEW tm, NEW h, NEW dv, NEW rq,
           NEW run \in Seq(B), NEW ready,
           Serve(sl, tm, h, dv, rq, run, ready),
           status' = "up", devcfg'.state = "IDLE"
    PROVE  fri_queue' = <<>>
<1> USE ConstantsOK
<1>1. PICK n \in StartCounts(h, rq, run, ready), accepted \in Outcomes("rcfg_start") :
        /\ devcfg' = StartProg(dv, rq, Programmed(h, rq, run, n), accepted)
        /\ fri_queue' = SubSeq(run, IF Programmed(h, rq, run, n) = NULL THEN n + 1 ELSE n + 2,
                               Len(run))
        /\ status' = IF ~ServeAsserts(sl, dv, rq, run, n, Programmed(h, rq, run, n))
                     THEN "aborted"
                     ELSE IF StartFails(h, rq, run, n)
                             \/ (Programmed(h, rq, run, n) # NULL /\ ~accepted)
                     THEN "down" ELSE "up"
  BY Zenon DEF Serve
<1>2. Programmed(h, rq, run, n) = NULL
  BY <1>1 DEF StartProg
<1>3. n = Len(run) /\ Len(run) \in Nat
  <2>1. ~StartFails(h, rq, run, n)
    BY <1>1
  <2>2. StartFails(h, rq, run, n) \/ n = Len(run)
    <3>1. NULL \notin B
      OBVIOUS
    <3>2. Programmed(h, rq, run, n) = NULL => StartFails(h, rq, run, n) \/ n = Len(run)
      BY Zenon, <3>1, ServedAreOfRun
    <3> QED BY <1>2, <3>2
  <2> QED BY <2>1, <2>2, LenProperties
<1>4. fri_queue' = SubSeq(run, n + 1, Len(run))
  BY <1>1, <1>2
<1> QED BY <1>3, <1>4, SubSeqEmpty

\* A request that is pushed is either served at once or finds the device busy.
LEMMA PushFriKeepsBusy ==
    ASSUME NEW B \in SUBSET Requests, NEW sl, NEW tm, NEW h, NEW rq,
           fri_queue \in Seq(B), DevcfgNotIdle, NEW r \in B,
           PushFri(sl, tm, h, rq, r)
    PROVE  DevcfgNotIdle'
<1> SUFFICES ASSUME status' = "up", devcfg'.state = "IDLE" PROVE fri_queue' = <<>>
  BY DEF DevcfgNotIdle, Up
<1>1. PICK k \in InsertPositions(fri_queue, rq, r) :
        IF devcfg.state = "IDLE" /\ Head(InsertedAfter(fri_queue, k, r)) = r
        THEN Serve(sl, tm, h, devcfg, rq, InsertedAfter(fri_queue, k, r), NULL)
        ELSE /\ fri_queue' = InsertedAfter(fri_queue, k, r)
             /\ slot' = sl /\ timer' = tm /\ hw' = h
             /\ UNCHANGED <<devcfg, status>>
  BY Zenon DEF PushFri
<1> DEFINE q == InsertedAfter(fri_queue, k, r)
<1>2. k \in 0..Len(fri_queue) /\ q \in Seq(B)
  BY InsertTyped DEF InsertPositions
<1>3. CASE Serve(sl, tm, h, devcfg, rq, q, NULL)
  <2> HIDE DEF q
  <2> QED BY <1>2, <1>3, ServeKeepsBusy
<1>4. CASE UNCHANGED <<devcfg, status>> /\ ~(devcfg.state = "IDLE" /\ Head(q) = r)
  <2>1. fri_queue = <<>>
    BY <1>4 DEF DevcfgNotIdle, Up
  <2>2. k = 0 /\ Len(fri_queue) = 0
    BY <1>2, <2>1
  <2>3. q = <<r>>
    <3>1. SubSeq(fri_queue, 1, k) = <<>> /\ SubSeq(fri_queue, k + 1, Len(fri_queue)) = <<>>
      BY <2>2, SubSeqEmpty
    <3>2. <<r>> \in Seq(B)
      OBVIOUS
    <3>3. q = <<>> \o <<r>> \o <<>>
      BY <3>1 DEF InsertedAfter
    <3> HIDE DEF q
    <3> QED BY <3>2, <3>3, ConcatEmptySeq
  <2>4. Head(q) = r
    BY <2>3
  <2> QED BY <1>4, <2>4
<1> QED BY <1>1, <1>3, <1>4

\* Handing a freed slot on serves the queue in the same way.
LEMMA PullKeepsBusy ==
    ASSUME IInv, DevcfgNotIdle, NEW sl, NEW tm, NEW h, NEW s, NEW p \in Partitions,
           Pull(sl, tm, h, s, p)
    PROVE  DevcfgNotIdle'
<1>1. CASE part_queues[p] = <<>>
  BY <1>1 DEF Pull, DevcfgNotIdle, Up
<1>2. CASE part_queues[p] # <<>>
  <2>1. Head(part_queues[p]) \in Requests /\ fri_queue \in Seq(Requests)
    BY <1>2, HeadTailProperties DEF IInv, TypeOK
  <2>2. \E rq : PushFri(SetReserved(sl, s), tm, h, rq, Head(part_queues[p]))
    BY <1>2 DEF Pull
  <2> QED BY <2>1, <2>2, PushFriKeepsBusy
<1> QED BY <1>1, <1>2

\* Every step keeps the device busy.
LEMMA NextKeepsBusy == IInv /\ DevcfgNotIdle /\ [Next]_vars => DevcfgNotIdle'
<1> SUFFICES ASSUME IInv, DevcfgNotIdle, [Next]_vars PROVE DevcfgNotIdle'
  OBVIOUS
<1> USE ConstantsOK
<1>1. fri_queue \in Seq(Requests) /\ req \in [Requests -> RequestRecord]
  BY DEF IInv, TypeOK
<1>2. ASSUME NEW r \in Requests, NEW t \in HwTasks, Run(r, t) PROVE DevcfgNotIdle'
  <2>1. \/ UNCHANGED <<devcfg, fri_queue, status>>
        \/ \E s, rq : PushFri(SetReserved(slot, s), timer, hw, rq, r)
    BY Zenon, <1>2 DEF Run, Push, PushAccelReq
  <2> QED BY <1>1, <2>1, PushFriKeepsBusy DEF DevcfgNotIdle, Up
<1>3. CASE UNCHANGED <<devcfg, fri_queue, status>>
  BY <1>3 DEF DevcfgNotIdle, Up
<1>4. CASE status' # "up"
  BY <1>4 DEF DevcfgNotIdle, Up
<1>5. ASSUME RcfgComplete PROVE DevcfgNotIdle'
  <2> DEFINE r == devcfg.current_rcfg_req
             dv == [devcfg EXCEPT !.state = "IDLE", !.drv = "quiet"]
             sl == [slot EXCEPT ![req[r].slot].state = "READY"]
             h == Couple(hw, req[r].slot)
             run == <<r>> \o fri_queue
  <2>1. status' # "up" \/ Serve(sl, timer, h, dv, req, run, r)
    <3> HIDE DEF r, dv, sl, h
    <3> QED BY Zenon, <1>5 DEF RcfgComplete, Abort, r, dv, sl, h
  <2>2. run \in Seq(Requests)
    <3>1. r \in Requests
      BY <1>5 DEF IInv, Pointers, Typed, RcfgComplete, Bound
    <3> HIDE DEF r
    <3>2. <<r>> \in Seq(Requests)
      BY <3>1
    <3> QED BY <1>1, <3>2, ConcatProperties
  <2> HIDE DEF r, dv, sl, h, run
  <2> QED BY <1>4, <2>1, <2>2, ServeKeepsBusy DEF DevcfgNotIdle, Up
<1>6. ASSUME NEW s \in Slots, NEW d, SlotComplete(s, d) \/ SlotTimeout(s, d)
      PROVE  DevcfgNotIdle'
  <2>1. \/ status' # "up"
        \/ \E r \in Bound : \E sl, tm, h, z :
              Pull(sl, tm, h, z, TaskPartition[req[r].hw_task])
    <3>1. CASE SlotComplete(s, d)
      <4>1. slot[s].exec_req \in Bound
        BY <3>1 DEF IInv, Pointers, Typed, SlotComplete
      <4> DEFINE r == slot[s].exec_req
                 z == req[r].slot
                 sl == ClearAfterCompute(slot, z)
                 tm == Disarm(timer, z)
                 h == ConsumeIrq(hw, z)
      <4> HIDE DEF r, z, sl, tm, h
      <4>2. status' # "up" \/ Pull(sl, tm, h, z, TaskPartition[req[r].hw_task])
        BY Zenon, <3>1 DEF SlotComplete, SlotHandler, Abort, r, z, sl, tm, h
      <4> QED BY <4>1, <4>2 DEF r
    <3>2. CASE SlotTimeout(s, d)
      <4>1. timer[s].exec_req \in Bound
        BY <3>2 DEF IInv, Pointers, Typed, SlotTimeout
      <4> DEFINE r == timer[s].exec_req
                 z == req[r].slot
                 sl == DisableAfterTimeout(slot, z)
                 tm == [timer EXCEPT ![s].state = "off"]
                 h == Decouple(hw, z)
      <4> HIDE DEF r, z, sl, tm, h
      <4>2. status' # "up" \/ Pull(sl, tm, h, z, TaskPartition[req[r].hw_task])
        BY Zenon, <3>2 DEF SlotTimeout, Abort, r, z, sl, tm, h
      <4> QED BY <4>1, <4>2 DEF r
    <3> QED BY <1>6, <3>1, <3>2
  <2>2. \A r \in Bound : TaskPartition[req[r].hw_task] \in Partitions
    BY <1>1 DEF Bound, RequestRecord
  <2> QED BY <1>4, <2>1, <2>2, PullKeepsBusy
<1>7. CASE RcfgDone
  BY <1>7 DEF RcfgDone, DevcfgNotIdle, Up, IInv, TypeOK, DevcfgRecord
<1>8. CASE \/ \E r \in Requests, t \in HwTasks : RunBanned(r, t)
           \/ \E s \in Slots : AccelDone(s) \/ TimerExpire(s)
           \/ Stopped \/ UNCHANGED vars
  BY <1>3, <1>8 DEF RunBanned, AccelDone, TimerExpire, Stopped, vars
<1> QED BY <1>2, <1>5, <1>6, <1>7, <1>8 DEF Next

\* With or without faults and races, while the server is up: whenever the device is
\* idle no request waits in the FRI queue, in any number of slots and partitions.
THEOREM DeviceNeverIdlesOnWork == Spec => []DevcfgNotIdle
<1>1. Init => DevcfgNotIdle
  BY DEF Init, DevcfgNotIdle
<1> QED BY <1>1, Invariance, NextKeepsBusy, PTL DEF Spec

-----------------------------------------------------------------------------
(* SCHED_FRED_ALWAYS_RCFG. No request is ever allowed to skip its            *)
(* reconfiguration, so the only slot a handler starts is that of the request *)
(* whose reconfiguration has just ended.                                     *)

NoneSkips(B, rq) == \A r \in B : rq[r].skip_rcfg = FALSE

NoSkips == AlwaysRcfg => NoneSkips(Requests, req)

\* When no request skips, serving a run starts nothing but the request it begins with.
LEMMA ServeStarts ==
    ASSUME NEW B \in SUBSET Requests, NEW sl, NEW tm, NEW h, NEW dv, NEW rq,
           NEW run \in Seq(B), NEW ready, NoneSkips(B, rq),
           Serve(sl, tm, h, dv, rq, run, ready), sl \in [Slots -> SlotRecord]
    PROVE  \A u \in Slots : slot'[u].state = "EXEC" =>
              \/ sl[u].state = "EXEC"
              \/ ready \in B /\ rq[ready].slot = u /\ slot'[u].exec_req = ready
<1> USE ConstantsOK
<1> SUFFICES ASSUME NEW u \in Slots, slot'[u].state = "EXEC"
             PROVE  \/ sl[u].state = "EXEC"
                    \/ ready \in B /\ rq[ready].slot = u /\ slot'[u].exec_req = ready
  OBVIOUS
<1>1. PICK n \in StartCounts(h, rq, run, ready) :
        slot' = ServedSlots(sl, rq, run, n, Programmed(h, rq, run, n))
  BY Zenon DEF Serve
<1>2. CASE StartedOn(rq, run, n, u) = {}
  <2>1. slot'[u] \in {sl[u], [sl[u] EXCEPT !.state = "RCFG",
                                          !.hw_task = rq[Programmed(h, rq, run, n)].hw_task]}
    BY <1>1, <1>2 DEF ServedSlots
  <2>2. sl[u] \in SlotRecord
    OBVIOUS
  <2> QED BY <2>1, <2>2 DEF SlotRecord
<1>3. CASE StartedOn(rq, run, n, u) # {}
  <2> DEFINE i == CHOOSE j \in StartedOn(rq, run, n, u) : TRUE
  <2>1. i \in StartedOn(rq, run, n, u)
    BY <1>3
  <2>2. slot'[u] = [sl[u] EXCEPT !.state = "EXEC", !.exec_req = run[i]]
    BY <1>1, <1>3 DEF ServedSlots
  <2> HIDE DEF i
  <2>3. i \in 1..n /\ rq[run[i]].slot = u
    BY <2>1 DEF StartedOn
  <2>4. n \in 0..Len(run) /\ NeedsNoRcfg(rq, run, ready, i) /\ Len(run) \in Nat
    BY <2>3, LenProperties DEF StartCounts
  <2>5. run[i] \in B
    BY <2>3, <2>4, ElementOfSeq
  <2>6. run[i] = ready
    BY <2>4, <2>5 DEF NeedsNoRcfg, NoneSkips
  <2>7. slot'[u].exec_req = run[i]
    BY <2>2 DEF SlotRecord
  <2> QED BY <2>3, <2>5, <2>6, <2>7
<1> QED BY <1>2, <1>3

\* Pushing a request to the FRI queue starts no slot.
LEMMA PushFriStartsNothing ==
    ASSUME NEW B \in SUBSET Requests, NEW sl, NEW tm, NEW h, NEW rq,
           fri_queue \in Seq(B), NEW r \in B, NoneSkips(B, rq),
           PushFri(sl, tm, h, rq, r), sl \in [Slots -> SlotRecord]
    PROVE  \A u \in Slots : slot'[u].state = "EXEC" => sl[u].state = "EXEC"
<1> USE ConstantsOK
<1>1. PICK k \in InsertPositions(fri_queue, rq, r) :
        \/ Serve(sl, tm, h, devcfg, rq, InsertedAfter(fri_queue, k, r), NULL)
        \/ slot' = sl
  BY Zenon DEF PushFri
<1>2. InsertedAfter(fri_queue, k, r) \in Seq(B)
  BY InsertTyped DEF InsertPositions
<1>3. NULL \notin B
  OBVIOUS
<1> DEFINE q == InsertedAfter(fri_queue, k, r)
<1> HIDE DEF q
<1>4. CASE Serve(sl, tm, h, devcfg, rq, q, NULL)
  <2>1. q \in Seq(B)
    BY <1>2 DEF q
  <2>2. \A u \in Slots : slot'[u].state = "EXEC" =>
           \/ sl[u].state = "EXEC"
           \/ NULL \in B /\ rq[NULL].slot = u /\ slot'[u].exec_req = NULL
    BY <1>4, <2>1, ServeStarts
  <2> QED BY <2>2, <1>3
<1> QED BY <1>1, <1>4 DEF q

\* Reserving a slot does not start it.
LEMMA ReservedNotStarted ==
    ASSUME NEW sl \in [Slots -> SlotRecord], NEW s, NEW u \in Slots,
           SetReserved(sl, s)[u].state = "EXEC"
    PROVE  sl[u].state = "EXEC"
<1>1. sl[u] \in SlotRecord
  OBVIOUS
<1>2. SetReserved(sl, s)[u] = IF u = s THEN [sl[u] EXCEPT !.state = "RSRV"] ELSE sl[u]
  BY DEF SetReserved
<1> QED BY <1>1, <1>2 DEF SlotRecord

\* Nor does handing a freed slot on.
LEMMA PullStartsNothing ==
    ASSUME IInv, NoneSkips(Requests, req), NEW sl \in [Slots -> SlotRecord], NEW tm, NEW h,
           NEW s \in Slots, NEW p \in Partitions, Pull(sl, tm, h, s, p),
           \A u \in Slots : sl[u].state = "EXEC" => slot[u].state = "EXEC"
    PROVE  /\ NoneSkips(Requests, req)'
           /\ \A u \in Slots : slot'[u].state = "EXEC" => slot[u].state = "EXEC"
<1>1. /\ req \in [Requests -> RequestRecord] /\ fri_queue \in Seq(Requests)
      /\ part_queues \in [Partitions -> Seq(Requests)]
  BY DEF IInv, TypeOK
<1>2. CASE part_queues[p] = <<>>
  BY <1>2 DEF Pull, NoneSkips
<1>3. CASE part_queues[p] # <<>>
  <2> DEFINE r == Head(part_queues[p])
             rq == [req EXCEPT ![r].slot = s]
             sr == SetReserved(sl, s)
  <2>1. req' = rq /\ PushFri(sr, tm, h, rq, r)
    BY <1>3 DEF Pull
  <2>2. r \in Requests
    BY <1>1, <1>3, HeadTailProperties
  <2>3. NoneSkips(Requests, rq)
    BY <1>1 DEF NoneSkips, RequestRecord
  <2>4. sr \in [Slots -> SlotRecord]
    <3>1. ASSUME NEW u \in Slots PROVE sr[u] \in SlotRecord
      BY DEF SetReserved, SlotRecord, SlotStates
    <3> QED BY <3>1 DEF SetReserved
  <2> HIDE DEF r, rq, sr
  <2>5. \A u \in Slots : slot'[u].state = "EXEC" => sr[u].state = "EXEC"
    BY <1>1, <2>1, <2>2, <2>3, <2>4, PushFriStartsNothing
  <2>6. ASSUME NEW u \in Slots, slot'[u].state = "EXEC" PROVE slot[u].state = "EXEC"
    BY <2>5, <2>6, ReservedNotStarted DEF sr
  <2> QED BY <2>1, <2>3, <2>6 DEF NoneSkips
<1> QED BY <1>2, <1>3

\* Handlers reconfigure before they start: no completion or watchdog leaves a request
\* skipping, and a slot that starts had just been reconfigured for the request it starts.
StartsFresh ==
    \A u \in Slots :
        slot'[u].state = "EXEC" /\ slot[u].state # "EXEC"
          => slot[u].state = "RCFG" /\ devcfg.current_rcfg_req = slot'[u].exec_req

LEMMA HandlersReconfigure ==
    ASSUME IInv, NoneSkips(Requests, req),
           \/ RcfgComplete
           \/ \E s \in Slots, d \in Outcomes("notify") : SlotComplete(s, d) \/ SlotTimeout(s, d)
           \/ UNCHANGED <<slot, req>>
    PROVE  NoneSkips(Requests, req)' /\ StartsFresh
<1> USE ConstantsOK
<1> DEFINE Quiet == \A u \in Slots : slot'[u].state = "EXEC" => slot[u].state = "EXEC"
           Fresh == StartsFresh
<1>1. /\ req \in [Requests -> RequestRecord] /\ fri_queue \in Seq(Requests)
      /\ slot \in [Slots -> SlotRecord]
  BY DEF IInv, TypeOK
<1>2. SUFFICES NoneSkips(Requests, req)' /\ (Quiet \/ Fresh)
  BY DEF StartsFresh
<1>3. CASE UNCHANGED <<slot, req>>
  BY <1>3 DEF NoneSkips
<1>4. ASSUME RcfgComplete PROVE NoneSkips(Requests, req)' /\ Fresh
  <2> DEFINE r == devcfg.current_rcfg_req
             s == req[r].slot
             dv == [devcfg EXCEPT !.state = "IDLE", !.drv = "quiet"]
             sl == [slot EXCEPT ![s].state = "READY"]
             h == Couple(hw, s)
             run == <<r>> \o fri_queue
  <2>1. req' = req
    BY Zenon, <1>4 DEF RcfgComplete, Abort
  <2>2. \/ slot' = slot
        \/ slot[s].state = "RCFG" /\ Serve(sl, timer, h, dv, req, run, r)
    <3> HIDE DEF r, s, dv, sl, h
    <3> QED BY Zenon, <1>4 DEF RcfgComplete, Abort, r, s, dv, sl, h
  <2>3. ASSUME Serve(sl, timer, h, dv, req, run, r), slot[s].state = "RCFG",
               NEW u \in Slots, slot'[u].state = "EXEC", slot[u].state # "EXEC"
        PROVE  slot[u].state = "RCFG" /\ r = slot'[u].exec_req
    <3>1. run \in Seq(Requests)
      <4>1. r \in Requests
        BY <1>4 DEF IInv, Pointers, Typed, RcfgComplete, Bound
      <4> HIDE DEF r
      <4>2. <<r>> \in Seq(Requests)
        BY <4>1
      <4> QED BY <1>1, <4>2, ConcatProperties
    <3>2. \A v \in Slots : /\ sl[v] \in SlotRecord
                           /\ sl[v].state = "EXEC" => slot[v].state = "EXEC"
      <4> HIDE DEF r, s
      <4>1. \A v \in Slots : slot[v] \in SlotRecord
        BY <1>1
      <4>2. \A v \in Slots : v # s => sl[v] = slot[v]
        BY <1>1
      <4>3. s \in Slots => sl[s] = [slot[s] EXCEPT !.state = "READY"]
        BY <1>1
      <4>4. s \in Slots => sl[s] \in SlotRecord /\ sl[s].state = "READY"
        BY <4>1, <4>3 DEF SlotRecord, SlotStates
      <4> QED BY <4>1, <4>2, <4>4
    <3>3. sl \in [Slots -> SlotRecord]
      BY <1>1, <3>2
    <3>4. req[r].slot = s
      OBVIOUS
    <3> HIDE DEF r, s, dv, sl, h, run
    <3>5. \A v \in Slots : slot'[v].state = "EXEC" =>
             \/ sl[v].state = "EXEC"
             \/ r \in Requests /\ req[r].slot = v /\ slot'[v].exec_req = r
      BY <2>3, <3>1, <3>3, ServeStarts
    <3> QED BY <2>3, <3>2, <3>4, <3>5
  <2> QED BY <2>1, <2>2, <2>3 DEF NoneSkips, StartsFresh
<1>5. ASSUME NEW i \in Slots, NEW d, SlotComplete(i, d) PROVE NoneSkips(Requests, req)' /\ Quiet
  <2> DEFINE r == slot[i].exec_req
             z == req[r].slot
             p == TaskPartition[req[r].hw_task]
             sl == ClearAfterCompute(slot, z)
             tm == Disarm(timer, z)
             h == ConsumeIrq(hw, z)
  <2>1. r \in Bound
    BY <1>5 DEF IInv, Pointers, Typed, SlotComplete
  <2>2. p \in Partitions /\ z \in Slots \cup {NULL}
    BY <1>1, <2>1 DEF Bound, RequestRecord
  <2>3. /\ sl \in [Slots -> SlotRecord]
        /\ \A u \in Slots : sl[u].state = "EXEC" => slot[u].state = "EXEC"
    <3>1. ASSUME NEW u \in Slots
          PROVE  sl[u] \in SlotRecord /\ (sl[u].state = "EXEC" => slot[u].state = "EXEC")
      <4>1. sl[u] \in {slot[u], [slot[u] EXCEPT !.state = "IDLE"]} /\ slot[u] \in SlotRecord
        BY <1>1 DEF ClearAfterCompute
      <4> HIDE DEF sl
      <4> QED BY <4>1 DEF SlotRecord, SlotStates
    <3> QED BY <1>1, <3>1 DEF ClearAfterCompute
  <2> HIDE DEF r, z, p, sl, tm, h
  <2>4. \/ slot' = slot /\ req' = req
        \/ slot' = sl /\ req' = req
        \/ z # NULL /\ Pull(sl, tm, h, z, p)
    BY Zenon, <1>5 DEF SlotComplete, SlotHandler, Abort, r, z, p, sl, tm, h
  <2> QED BY <2>2, <2>3, <2>4, PullStartsNothing DEF NoneSkips
<1>6. ASSUME NEW i \in Slots, NEW d, SlotTimeout(i, d) PROVE NoneSkips(Requests, req)' /\ Quiet
  <2> DEFINE r == timer[i].exec_req
             z == req[r].slot
             p == TaskPartition[req[r].hw_task]
             sl == DisableAfterTimeout(slot, z)
             tm == [timer EXCEPT ![i].state = "off"]
             h == Decouple(hw, z)
  <2>1. r \in Bound
    BY <1>6 DEF IInv, Pointers, Typed, SlotTimeout
  <2>2. p \in Partitions /\ z \in Slots \cup {NULL}
    BY <1>1, <2>1 DEF Bound, RequestRecord
  <2>3. /\ sl \in [Slots -> SlotRecord]
        /\ \A u \in Slots : sl[u].state = "EXEC" => slot[u].state = "EXEC"
    <3>1. ASSUME NEW u \in Slots
          PROVE  sl[u] \in SlotRecord /\ (sl[u].state = "EXEC" => slot[u].state = "EXEC")
      <4>1. sl[u] \in {slot[u], [slot[u] EXCEPT !.state = "BLANK"]} /\ slot[u] \in SlotRecord
        BY <1>1 DEF DisableAfterTimeout
      <4> HIDE DEF sl
      <4> QED BY <4>1 DEF SlotRecord, SlotStates
    <3> QED BY <1>1, <3>1 DEF DisableAfterTimeout
  <2> HIDE DEF r, z, p, sl, tm, h
  <2>4. \/ slot' = slot /\ req' = req
        \/ slot' = sl /\ req' = req
        \/ z # NULL /\ Pull(sl, tm, h, z, p)
    BY Zenon, <1>6 DEF SlotTimeout, Abort, r, z, p, sl, tm, h
  <2> QED BY <2>2, <2>3, <2>4, PullStartsNothing DEF NoneSkips
<1> HIDE DEF Quiet, Fresh
<1> QED BY <1>3, <1>4, <1>5, <1>6

\* What one step does in this mode.
LEMMA NextReconfigures ==
    ASSUME IInv, NoSkips, AlwaysRcfg, [Next]_vars
    PROVE  NoSkips' /\ StartsFresh
<1> USE ConstantsOK
<1> DEFINE Quiet == \A u \in Slots : slot'[u].state = "EXEC" => slot[u].state = "EXEC"
<1>1. /\ req \in [Requests -> RequestRecord] /\ fri_queue \in Seq(Requests)
      /\ slot \in [Slots -> SlotRecord]
  BY DEF IInv, TypeOK
<1>2. NoneSkips(Requests, req)
  BY DEF NoSkips
<1>3. CASE \/ RcfgComplete
           \/ \E s \in Slots, d \in Outcomes("notify") : SlotComplete(s, d) \/ SlotTimeout(s, d)
           \/ UNCHANGED <<slot, req>>
  BY <1>2, <1>3, HandlersReconfigure DEF NoSkips, NoneSkips
<1>4. ASSUME NEW r \in Requests, NEW t \in HwTasks, Run(r, t) PROVE NoSkips' /\ Quiet
  <2>1. CASE UNCHANGED slot /\ \E now : req' = [req EXCEPT ![r] = Unbound(r, t, now)]
    BY <1>1, <2>1 DEF NoSkips, NoneSkips, Unbound
  <2>2. ASSUME NEW s \in Slots, NEW now, NEW rq,
               rq = [req EXCEPT ![r] = [Unbound(r, t, now) EXCEPT !.slot = s,
                                          !.skip_rcfg = @ \/ MaySkip(s, t)]],
               req' = rq, PushFri(SetReserved(slot, s), timer, hw, rq, r)
        PROVE  NoSkips' /\ Quiet
    <3>1. NoneSkips(Requests, rq)
      BY <1>1, <2>2 DEF NoSkips, NoneSkips, Unbound, MaySkip
    <3>2. SetReserved(slot, s) \in [Slots -> SlotRecord]
      <4>1. ASSUME NEW u \in Slots PROVE SetReserved(slot, s)[u] \in SlotRecord
        BY <1>1 DEF SetReserved, SlotRecord, SlotStates
      <4> QED BY <1>1, <4>1 DEF SetReserved
    <3>3. \A u \in Slots : slot'[u].state = "EXEC" => SetReserved(slot, s)[u].state = "EXEC"
      BY <1>1, <2>2, <3>1, <3>2, PushFriStartsNothing
    <3>4. Quiet
      BY <1>1, <3>3, ReservedNotStarted
    <3> QED BY <2>2, <3>1, <3>4 DEF NoSkips, NoneSkips
  <2>3. \/ UNCHANGED slot /\ \E now : req' = [req EXCEPT ![r] = Unbound(r, t, now)]
        \/ \E s \in Slots : \E now, rq :
              /\ rq = [req EXCEPT ![r] = [Unbound(r, t, now) EXCEPT !.slot = s,
                                            !.skip_rcfg = @ \/ MaySkip(s, t)]]
              /\ req' = rq /\ PushFri(SetReserved(slot, s), timer, hw, rq, r)
    <3>1. \A p, s : s \in SearchSlot(p, t) => s \in Slots
      BY DEF SearchSlot, AvailableSlots
    <3> QED BY Zenon, <1>4, <3>1 DEF Run, Push, PushAccelReq
  <2> QED BY <2>1, <2>2, <2>3
<1>5. CASE \/ \E r \in Requests, t \in HwTasks : RunBanned(r, t)
           \/ RcfgDone
           \/ \E s \in Slots : AccelDone(s) \/ TimerExpire(s)
           \/ Stopped \/ UNCHANGED vars
  BY <1>3, <1>5 DEF RunBanned, RcfgDone, AccelDone, TimerExpire, Stopped, vars
<1>6. ASSUME NEW r \in Requests, NEW t \in HwTasks, Run(r, t) PROVE NoSkips' /\ StartsFresh
  BY <1>4, <1>6 DEF StartsFresh
<1> QED BY <1>3, <1>5, <1>6 DEF Next

\* In SCHED_FRED_ALWAYS_RCFG mode no slot ever starts executing a request but right
\* after its own reconfiguration for that request, whatever fails or races.
THEOREM AlwaysReconfiguredFirst == Spec => AlwaysReconfigured
<1>1. Init => NoSkips
  BY DEF Init, NoSkips, NoneSkips
<1>2. IInv /\ NoSkips /\ [Next]_vars => NoSkips'
  <2>1. CASE AlwaysRcfg
    BY <2>1, NextReconfigures
  <2>2. CASE ~AlwaysRcfg
    BY <2>2 DEF NoSkips
  <2> QED BY <2>1, <2>2
<1>3. IInv /\ NoSkips /\ [Next]_vars =>
        [AlwaysRcfg =>
          \A s \in Slots :
            slot'[s].state = "EXEC" /\ slot[s].state # "EXEC"
              => /\ slot[s].state = "RCFG"
                 /\ devcfg.current_rcfg_req = slot'[s].exec_req]_vars
  BY NextReconfigures DEF StartsFresh
<1> QED BY <1>1, <1>2, <1>3, Invariance, PTL DEF Spec, AlwaysReconfigured
=============================================================================
