------------------------- MODULE FredServerProofs -------------------------
(***************************************************************************)
(* The server around the scheduler: the proof that every message is         *)
(* answered once and that clients that follow the protocol neither stop the *)
(* server nor make it do anything but steps of FredScheduler.               *)
(***************************************************************************)
EXTENDS FredServerInv, FredSchedulerService

-----------------------------------------------------------------------------
(* The inductive invariant of a server without races, where every source    *)
(* of a batch stays ready. What it says of a client that keeps to the      *)
(* protocol is claimed only where all do, what it says of buffers only      *)
(* where no bind fails; the rest whatever clients and system do.            *)

ClientsTyped(cl, b) ==
    /\ cl \in [Requests -> ClientRecord]
    /\ \A r \in Requests : Len(cl[r].tasks) <= MaxBind /\ Len(cl[r].inbox) <= MaxInbox
    /\ \A r \in Requests : cl[r].conn = "backlog" <=> Member(r, b)

ServerTyped ==
    /\ ClientsTyped(client, backlog)
    /\ batch \subseteq Sources
    /\ backlog \in Seq(Requests) /\ Distinct(backlog)

\* The answer the scheduler owes a client.
Due(r) == IF Waiting(r) THEN 1 ELSE 0

\* A client that waits for each answer, and leaves only when it has read the last.
Polite(c) ==
    /\ c.peer # "reset" /\ c.owed <= 1
    /\ c.peer = "closed" => c.owed = 0 /\ ~c.unread

\* A bind cannot fail with buffers allocated: no buffer is refused, no reply unwritten.
BindsSucceed == "alloc" \notin ServerFaults /\ "pipelining" \notin ClientFaults

Accounted(r) ==
    /\ client[r].pushed = Due(r)
    /\ client[r].conn # "open" => client[r].tasks = <<>>
    /\ client[r].conn # "absent" => client[r].owed = Len(client[r].inbox) + Due(r)
    /\ client[r].conn # "absent" /\ ClientFaults = {} => Polite(client[r])
    /\ BindsSucceed => client[r].buffers = BuffersOf(client[r].tasks)
    /\ Waiting(r) => req[r].hw_task \in ToSet(client[r].tasks)

Serving ==
    /\ IInv /\ Owned
    /\ batch \subseteq ReadySources
    /\ \A r \in Requests : Accounted(r)

ServerOwned == ServerTyped /\ (Running => Serving)

\* What a step of the running server has to show.
Serves == Running' => [Next]_vars /\ batch' \subseteq ReadySources' /\ \A r \in Requests : Accounted(r)'

-----------------------------------------------------------------------------
(* Batches. *)

\* Source y, being handled, is the only one whose event a step may take.
Calls(r) == client[r].conn = "open" /\ (client[r].inbox # <<>> \/ client[r].peer # "alive")

SlotKept(s) ==
    /\ hw[s].irq => hw'[s].irq
    /\ timer[s].state = "expired" => timer'[s].state = "expired"

Untouched(y) ==
    /\ \A s \in Slots : y \notin {SlotSrc(s), TimerSrc(s)} => SlotKept(s)
    /\ y # DevcfgSrc /\ devcfg.drv = "done" => devcfg'.drv = "done"
    /\ \A r \in Requests : y # ClientSrc(r) /\ Calls(r) => Calls(r)'
    /\ y # ListenerSrc /\ backlog # <<>> => backlog' # <<>>

\* Completion and expiry of one execution are never both pending.
LEMMA OneEventPerSlot ==
    ASSUME Owned, Up, NEW s \in Slots
    PROVE  ~(hw[s].irq /\ timer[s].state = "expired")
<1>1. SlotAgrees(slot[s], timer[s], hw[s], devcfg)
  BY DEF Owned, Agreed
<1> QED BY <1>1 DEF SlotAgrees

\* The rest of the batch stays ready: the two sources of one slot are never both in it.
LEMMA BatchStays ==
    ASSUME Owned, Running, batch \subseteq ReadySources,
           NEW y, Untouched(y), batch' = batch \ {y},
           y \in ReadySources \/ y = SignalSrc
    PROVE  batch' \subseteq ReadySources'
<1> SUFFICES ASSUME NEW x \in batch, x # y PROVE x \in ReadySources'
  OBVIOUS
<1>1. x \in ReadySources
  OBVIOUS
<1>2. ASSUME NEW s \in Slots, x = SlotSrc(s), hw[s].irq PROVE hw'[s].irq
  <2>1. timer[s].state # "expired"
    BY <1>2, OneEventPerSlot DEF Running, Up
  <2>2. y \notin {SlotSrc(s), TimerSrc(s)}
    BY <1>2, <2>1 DEF ReadySources, SlotSrc, TimerSrc, ClientSrc, DevcfgSrc, ListenerSrc, SignalSrc
  <2> QED BY <1>2, <2>2 DEF Untouched, SlotKept
<1>3. ASSUME NEW s \in Slots, x = TimerSrc(s), timer[s].state = "expired"
      PROVE  timer'[s].state = "expired"
  <2>1. ~hw[s].irq
    BY <1>3, OneEventPerSlot DEF Running, Up
  <2>2. y \notin {SlotSrc(s), TimerSrc(s)}
    BY <1>3, <2>1 DEF ReadySources, SlotSrc, TimerSrc, ClientSrc, DevcfgSrc, ListenerSrc, SignalSrc
  <2> QED BY <1>3, <2>2 DEF Untouched, SlotKept
<1>4. ASSUME NEW r \in Requests, x = ClientSrc(r), Calls(r) PROVE Calls(r)'
  BY <1>4 DEF Untouched
<1>5. CASE x = DevcfgSrc /\ devcfg.drv = "done"
  BY <1>5 DEF Untouched, ReadySources
<1>6. CASE x = ListenerSrc /\ backlog # <<>>
  BY <1>6 DEF Untouched, ReadySources
<1>7. CASE \E s \in Slots : x = SlotSrc(s) /\ hw[s].irq
  BY <1>2, <1>7 DEF ReadySources
<1>8. CASE \E s \in Slots : x = TimerSrc(s) /\ timer[s].state = "expired"
  BY <1>3, <1>8 DEF ReadySources
<1>9. CASE \E r \in Requests : x = ClientSrc(r) /\ Calls(r)
  BY <1>4, <1>9 DEF ReadySources, Calls
<1> QED BY <1>1, <1>5, <1>6, <1>7, <1>8, <1>9 DEF ReadySources, Calls

-----------------------------------------------------------------------------
(* What the scheduler's handlers leave alone. *)

TasksKept == \A u \in Requests : req'[u].hw_task = req[u].hw_task

\* Serving a queue takes no event from a slot that executes, nor from the device.
LEMMA MovesKeep ==
    ASSUME IInv, Owned, Up, NEW sl, NEW tm, NEW h, NEW dv, NEW rq, NEW W,
           Moves(sl, tm, h, dv, rq, W)
    PROVE  /\ \A s \in Slots : sl[s] = slot[s] /\ tm[s] = timer[s] /\ h[s] = hw[s] => SlotKept(s)
           /\ dv = devcfg /\ devcfg.drv = "done" => devcfg'.drv = "done"
<1>1. ASSUME NEW s \in Slots, sl[s] = slot[s], tm[s] = timer[s], h[s] = hw[s]
      PROVE  SlotKept(s)
  <2>1. Slotwise(s, sl, h) /\ (timer'[s] = tm[s] \/ Starts(s, sl, h))
    BY DEF Moves
  <2>2. hw[s] \in HwRecord
    BY DEF IInv, TypeOK
  <2>3. hw'[s].irq = hw[s].irq
    BY <1>1, <2>1, <2>2 DEF Slotwise, Starts, Programming, Same, HwRecord
  <2>4. timer[s].state = "expired" => slot[s].state = "EXEC"
    <3>1. SlotAgrees(slot[s], timer[s], hw[s], devcfg)
      BY DEF Owned, Agreed
    <3> QED BY <3>1 DEF SlotAgrees
  <2>5. timer[s].state = "expired" => timer'[s].state = "expired"
    BY <1>1, <2>1, <2>4 DEF Starts
  <2> QED BY <2>3, <2>5 DEF SlotKept
<1>2. ASSUME dv = devcfg, devcfg.drv = "done" PROVE devcfg'.drv = "done"
  <2>1. devcfg.state # "IDLE"
    <3>1. DeviceHolds(slot, devcfg, req, Waiters)
      BY DEF Owned, Placed
    <3> QED BY <1>2, <3>1 DEF DeviceHolds
  <2>2. devcfg' = devcfg
    BY <1>2, <2>1 DEF Moves, DeviceMoves
  <2> QED BY <1>2, <2>2
<1> QED BY <1>1, <1>2

\* Freeing slot s and handing it on leaves the other slots' events.
LEMMA FreeingKeeps ==
    ASSUME IInv, Owned, Up, Up', NEW s \in Slots, NEW st \in {"IDLE", "BLANK"},
           NEW tm, NEW h, \A u \in Slots : u # s => tm[u] = timer[u] /\ h[u] = hw[u],
           Pull(WithState(slot, s, st), tm, h, s, SlotPartition[s])
    PROVE  /\ \A u \in Slots : u # s => SlotKept(u)
           /\ devcfg.drv = "done" => devcfg'.drv = "done"
           /\ TasksKept
<1> USE ConstantsOK
<1> DEFINE sl == WithState(slot, s, st)
<1>1. /\ sl \in [Slots -> SlotRecord]
      /\ \A u \in Slots : u # s => sl[u] = slot[u]
  <2>1. slot \in [Slots -> SlotRecord] /\ st \in SlotStates
    BY DEF IInv, TypeOK, SlotStates
  <2> QED BY <2>1, WithStateAt
<1>2. /\ SlotPartition[s] \in Partitions
      /\ fri_queue \in Seq(Requests) /\ part_queues[SlotPartition[s]] \in Seq(Requests)
  BY DEF IInv, TypeOK
<1> HIDE DEF sl
<1>3. PICK nsl \in [Slots -> SlotRecord] :
        /\ nsl = sl \/ nsl = WithState(sl, s, "RSRV")
        /\ Moves(nsl, tm, h, devcfg, req', Requests)
        /\ \A u \in Requests : req'[u].hw_task = req[u].hw_task
  BY <1>1, <1>2, Refilled DEF sl
<1>4. \A u \in Slots : u # s => nsl[u] = slot[u]
  <2> DEFINE rsl == WithState(sl, s, "RSRV")
  <2>1. "RSRV" \in SlotStates
    BY DEF SlotStates
  <2>2. rsl[s].state = "RSRV" /\ \A u \in Slots : u # s => rsl[u] = sl[u]
    BY <1>1, <2>1, WithStateAt
  <2>3. nsl = sl \/ nsl = rsl
    BY <1>3
  <2> HIDE DEF rsl
  <2> QED BY <1>1, <2>2, <2>3
<1> QED BY <1>3, <1>4, MovesKeep DEF TasksKept

\* An answer to request x, which waited, in the handler of source y.
Answers(x, a, y) ==
    /\ reply' = [reply EXCEPT ![x] = a]
    /\ \A s \in Slots : y \notin {SlotSrc(s), TimerSrc(s)} => SlotKept(s)
    /\ devcfg.drv = "done" => devcfg'.drv = "done"
    /\ TasksKept

\* The request of an interrupt that is really there waits, and is answered if the
\* server goes on.
LEMMA SlotAnswers ==
    ASSUME IInv, Owned, Up, NEW s \in Slots, hw[s].irq, NEW d, SlotHandler(s, d)
    PROVE  \E x \in Waiters :
             /\ x = slot[s].exec_req
             /\ reply' = reply \/ reply' = [reply EXCEPT ![x] = "DONE"]
             /\ Up' => d /\ Answers(x, "DONE", SlotSrc(s))
<1> DEFINE r == slot[s].exec_req
           z == req[r].slot
           p == TaskPartition[req[r].hw_task]
           sl == ClearAfterCompute(slot, z)
           tm == Disarm(timer, z)
           h == ConsumeIrq(hw, z)
<1>1. slot[s].state = "EXEC"
  BY DEF Owned, Agreed, SlotAgrees
<1>2. r \in Waiters /\ z = s /\ p = SlotPartition[s] /\ z # NULL
  BY <1>1, ExecutingOwner, ConstantsOK
<1>3. slot \in [Slots -> SlotRecord] /\ hw \in [Slots -> HwRecord] /\ timer \in [Slots -> TimerRecord]
  BY DEF IInv, TypeOK
<1>4. sl = WithState(slot, s, "IDLE")
  BY <1>2 DEF ClearAfterCompute, WithState
<1>5. \A u \in Slots : u # s => tm[u] = timer[u] /\ h[u] = hw[u]
  BY <1>2, <1>3 DEF ConsumeIrq, Disarm
<1>6. \/ reply' = reply /\ ~Up'
      \/ d /\ reply' = [reply EXCEPT ![r] = "DONE"] /\ Pull(sl, tm, h, z, p)
  <2>1. slot[z].state = "EXEC" /\ hw[z].irq
    BY <1>1, <1>2
  <2>2. \/ reply' = reply /\ status' = "down"
        \/ d /\ reply' = [reply EXCEPT ![r] = "DONE"] /\ Pull(sl, tm, h, z, p)
    <3> HIDE DEF r, z, p, sl, tm, h
    <3> QED BY Zenon, <1>2, <2>1 DEF SlotHandler, r, z, p, sl, tm, h
  <2> QED BY <2>2 DEF Up
<1> HIDE DEF p, sl, tm, h
<1>7. ASSUME Up' PROVE d /\ Answers(r, "DONE", SlotSrc(s))
  <2>1. Pull(WithState(slot, s, "IDLE"), tm, h, s, SlotPartition[s])
    BY <1>2, <1>4, <1>6, <1>7
  <2>2. /\ \A u \in Slots : u # s => SlotKept(u)
        /\ devcfg.drv = "done" => devcfg'.drv = "done"
        /\ TasksKept
    BY <1>5, <1>7, <2>1, FreeingKeeps
  <2>3. d /\ reply' = [reply EXCEPT ![r] = "DONE"]
    BY <1>6, <1>7
  <2> HIDE DEF r, z
  <2> QED BY <2>2, <2>3 DEF Answers
<1> QED BY <1>2, <1>6, <1>7

\* Likewise that of a watchdog that has really expired.
LEMMA TimerAnswers ==
    ASSUME IInv, Owned, Up, NEW s \in Slots, NEW d, SlotTimeout(s, d)
    PROVE  \E x \in Waiters :
             /\ x = timer[s].exec_req
             /\ reply' = reply \/ reply' = [reply EXCEPT ![x] = "OVERRUN"]
             /\ Up' => d /\ Answers(x, "OVERRUN", TimerSrc(s))
<1> DEFINE r == timer[s].exec_req
           z == req[r].slot
           p == TaskPartition[req[r].hw_task]
           tm == [timer EXCEPT ![s].state = "off"]
           sl == DisableAfterTimeout(slot, z)
           h == Decouple(hw, z)
<1>0. timer[s].state = "expired"
  BY DEF SlotTimeout
<1>1. slot[s].state = "EXEC"
  <2>1. SlotAgrees(slot[s], timer[s], hw[s], devcfg)
    BY DEF Owned, Agreed
  <2> QED BY <1>0, <2>1 DEF SlotAgrees
<1>2. r \in Waiters /\ z = s /\ p = SlotPartition[s] /\ z # NULL
  BY <1>1, ExecutingOwner, ConstantsOK
<1>3. slot \in [Slots -> SlotRecord] /\ hw \in [Slots -> HwRecord] /\ timer \in [Slots -> TimerRecord]
  BY DEF IInv, TypeOK
<1>4. sl = WithState(slot, s, "BLANK")
  BY <1>2 DEF DisableAfterTimeout, WithState
<1>5. \A u \in Slots : u # s => tm[u] = timer[u] /\ h[u] = hw[u]
  BY <1>2, <1>3 DEF Decouple
<1>6. \/ reply' = reply /\ ~Up'
      \/ d /\ reply' = [reply EXCEPT ![r] = "OVERRUN"] /\ Pull(sl, tm, h, z, p)
  <2>1. slot[z].state = "EXEC"
    BY <1>1, <1>2
  <2>2. \/ reply' = reply /\ status' = "down"
        \/ d /\ reply' = [reply EXCEPT ![r] = "OVERRUN"] /\ Pull(sl, tm, h, z, p)
    <3> HIDE DEF r, z, p, sl, tm, h
    <3> QED BY Zenon, <1>2, <2>1 DEF SlotTimeout, r, z, p, sl, tm, h
  <2> QED BY <2>2 DEF Up
<1> HIDE DEF p, sl, tm, h
<1>7. ASSUME Up' PROVE d /\ Answers(r, "OVERRUN", TimerSrc(s))
  <2>1. Pull(WithState(slot, s, "BLANK"), tm, h, s, SlotPartition[s])
    BY <1>2, <1>4, <1>6, <1>7
  <2>2. /\ \A u \in Slots : u # s => SlotKept(u)
        /\ devcfg.drv = "done" => devcfg'.drv = "done"
        /\ TasksKept
    BY <1>5, <1>7, <2>1, FreeingKeeps
  <2>3. d /\ reply' = [reply EXCEPT ![r] = "OVERRUN"]
    BY <1>6, <1>7
  <2> HIDE DEF r, z
  <2> QED BY <2>2, <2>3 DEF Answers
<1> QED BY <1>2, <1>6, <1>7

\* The end of a reconfiguration takes no event from any slot.
LEMMA RcfgKeeps ==
    ASSUME IInv, Owned, Up, Up', RcfgComplete
    PROVE  (\A s \in Slots : SlotKept(s)) /\ req' = req /\ reply' = reply
<1> USE ConstantsOK
<1> DEFINE r == devcfg.current_rcfg_req
           s == req[r].slot
           dv == [devcfg EXCEPT !.state = "IDLE", !.drv = "quiet"]
           sl == [slot EXCEPT ![s].state = "READY"]
           h == Couple(hw, s)
           run == <<r>> \o fri_queue
<1>1. /\ slot \in [Slots -> SlotRecord] /\ hw \in [Slots -> HwRecord]
      /\ req \in [Requests -> RequestRecord] /\ fri_queue \in Seq(Requests)
      /\ timer \in [Slots -> TimerRecord]
  BY DEF IInv, TypeOK
<1>2. /\ r \in Waiters /\ s \in Slots /\ slot[s].state = "RCFG"
      /\ run \in Seq(Requests)
  <2>1. devcfg.drv = "done" /\ DeviceHolds(slot, devcfg, req, Waiters)
    BY DEF RcfgComplete, Owned, Placed
  <2>2. r \in Waiters /\ req[r].slot # NULL /\ slot[req[r].slot].state = "RCFG"
    BY <2>1 DEF DeviceHolds
  <2>3. r \in Requests /\ req[r] \in RequestRecord
    BY <1>1, <2>2 DEF Waiters
  <2>4. s \in Slots
    BY <2>2, <2>3 DEF RequestRecord
  <2> QED BY <1>1, <2>2, <2>3, <2>4
<1> HIDE DEF r, s, dv, sl, h, run
<1>3. Serve(sl, timer, h, dv, req, run, r) /\ req' = req /\ reply' = reply
  <2>1. status' = "up"
    BY DEF Up
  <2> QED BY Zenon, <2>1 DEF RcfgComplete, Abort, r, s, sl, h, run, dv
<1>4. /\ sl \in [Slots -> SlotRecord] /\ sl[s].state = "READY"
      /\ \A u \in Slots : u # s => sl[u] = slot[u]
  <2>1. sl = WithState(slot, s, "READY") /\ "READY" \in SlotStates
    BY DEF sl, WithState, SlotStates
  <2> QED BY <1>1, <1>2, <2>1, WithStateAt
<1>5. Moves(sl, timer, h, dv, req, Requests)
  <2>1. r # NULL => sl[req[r].slot].state = "READY"
    BY <1>4 DEF s
  <2> QED BY <1>2, <1>3, <1>4, <2>1, ServeMoves DEF Up
<1>6. /\ \A u \in Slots : u # s => h[u] = hw[u]
      /\ h[s] \in HwRecord /\ h[s].irq = hw[s].irq
  <2>1. /\ h[s] = [hw[s] EXCEPT !.coupled = TRUE]
        /\ \A u \in Slots : u # s => h[u] = hw[u]
    BY <1>1, <1>2 DEF h, Couple
  <2>2. hw[s] \in HwRecord
    BY <1>1, <1>2
  <2> QED BY <2>1, <2>2 DEF HwRecord
<1>7. ASSUME NEW u \in Slots PROVE SlotKept(u)
  <2>1. CASE u # s
    BY <1>4, <1>5, <1>6, <2>1, MovesKeep
  <2>2. CASE u = s
    <3>1. Slotwise(s, sl, h)
      BY <1>2, <1>5 DEF Moves
    <3>2. hw'[s].irq = hw[s].irq
      BY <1>6, <3>1 DEF Slotwise, Starts, Programming, Same, HwRecord
    <3>3. timer[s].state # "expired"
      <4>1. SlotAgrees(slot[s], timer[s], hw[s], devcfg)
        BY <1>2 DEF Owned, Agreed
      <4> QED BY <1>2, <4>1 DEF SlotAgrees
    <3> QED BY <2>2, <3>2, <3>3 DEF SlotKept
  <2> QED BY <2>1, <2>2
<1> QED BY <1>3, <1>7

\* A request that arrives takes no event.
LEMMA RunKeeps ==
    ASSUME IInv, Owned, Up, Up', NEW r \in Requests, NEW t \in HwTasks, Run(r, t)
    PROVE  /\ \A s \in Slots : SlotKept(s)
           /\ devcfg.drv = "done" => devcfg'.drv = "done"
           /\ req'[r].hw_task = t /\ \A u \in Waiters : req'[u] = req[u]
           /\ reply' = [reply EXCEPT ![r] = "wait"]
<1>1. PICK sl \in [Slots -> SlotRecord] :
        /\ Moves(sl, timer, hw, devcfg, req', Requests)
        /\ \A u \in Slots : sl[u] = slot[u] \/ ( /\ sl[u].state = "RSRV"
                                                /\ slot[u].state \in {"IDLE", "BLANK"})
        /\ req'[r].hw_task = t /\ \A u \in Waiters : req'[u] = req[u]
  BY RunMoves
<1>2. ASSUME NEW s \in Slots PROVE SlotKept(s)
  <2>1. CASE sl[s] = slot[s]
    BY <1>1, <2>1, MovesKeep
  <2>2. CASE slot[s].state \in {"IDLE", "BLANK"}
    <3>1. SlotAgrees(slot[s], timer[s], hw[s], devcfg)
      BY DEF Owned, Agreed
    <3> QED BY <2>2, <3>1 DEF SlotAgrees, SlotKept
  <2> QED BY <1>1, <2>1, <2>2
<1>3. devcfg.drv = "done" => devcfg'.drv = "done"
  BY <1>1, MovesKeep
<1>4. reply' = [reply EXCEPT ![r] = "wait"]
  BY DEF Run, Push
<1> QED BY <1>1, <1>2, <1>3, <1>4

-----------------------------------------------------------------------------
(* Clients. *)

LEMMA FreeTyped ==
    ASSUME NEW c \in ClientRecord
    PROVE  /\ FreeClient(c) \in ClientRecord
           /\ FreeClient(c).conn = "absent"
           /\ FreeClient(c).tasks = <<>> /\ FreeClient(c).inbox = <<>>
           /\ FreeClient(c).pushed = c.pushed
           /\ FreeClient(c).buffers = LeftBuffers(c)
<1>1. LeftBuffers(c) \in SUBSET (Nat \X Nat) /\ c.owed \in Nat /\ c.pushed \in Nat
  BY DEF LeftBuffers, ClientRecord
<1>2. <<>> \in Seq(HwTasks) /\ <<>> \in Seq(Messages)
  OBVIOUS
<1> HIDE DEF LeftBuffers, Messages
<1> DEFINE n == NoClient(LeftBuffers(c))
<1>3. /\ n \in ClientRecord
      /\ n.conn = "absent" /\ n.tasks = <<>> /\ n.inbox = <<>> /\ n.buffers = LeftBuffers(c)
  BY <1>1, <1>2 DEF NoClient, ClientRecord
<1>4. FreeClient(c) = [n EXCEPT !.owed = c.owed, !.pushed = c.pushed]
  BY DEF FreeClient
<1> HIDE DEF n
<1> QED BY <1>1, <1>3, <1>4 DEF ClientRecord

LEMMA UpdateTyped ==
    ASSUME NEW cl, NEW b, ClientsTyped(cl, b), NEW r \in Requests, NEW c \in ClientRecord,
           Len(c.tasks) <= MaxBind, Len(c.inbox) <= MaxInbox,
           c.conn = "backlog" <=> cl[r].conn = "backlog"
    PROVE  /\ ClientsTyped([cl EXCEPT ![r] = c], b)
           /\ [cl EXCEPT ![r] = c][r] = c
           /\ \A u \in Requests : u # r => [cl EXCEPT ![r] = c][u] = cl[u]
<1> DEFINE n == [cl EXCEPT ![r] = c]
<1>1. /\ cl \in [Requests -> ClientRecord]
      /\ \A u \in Requests : Len(cl[u].tasks) <= MaxBind /\ Len(cl[u].inbox) <= MaxInbox
      /\ \A u \in Requests : cl[u].conn = "backlog" <=> Member(u, b)
  BY DEF ClientsTyped
<1> HIDE DEF ClientRecord
<1>2. n \in [Requests -> ClientRecord] /\ n[r] = c /\ \A u \in Requests : u # r => n[u] = cl[u]
  BY <1>1
<1> HIDE DEF n
<1>3. ClientsTyped(n, b)
  BY <1>1, <1>2 DEF ClientsTyped
<1> QED BY <1>2, <1>3 DEF n

\* Whatever a handler makes of the clients, what the event loop leaves is well typed.
LEMMA AfterTyped ==
    ASSUME NEW cl, NEW b, ClientsTyped(cl, b), AfterHandler(cl)
    PROVE  ClientsTyped(client', b) /\ (Up' => client' = cl)
<1>1. /\ cl \in [Requests -> ClientRecord]
      /\ \A u \in Requests : Len(cl[u].tasks) <= MaxBind /\ Len(cl[u].inbox) <= MaxInbox
      /\ \A u \in Requests : cl[u].conn = "backlog" <=> Member(u, b)
  BY DEF ClientsTyped
<1> HIDE DEF ClientRecord
<1>2. CASE status' # "down"
  BY <1>2 DEF AfterHandler, Up
<1>3. CASE status' = "down"
  <2>1. client' = [r \in Requests |-> IF cl[r].conn = "open" THEN FreeClient(cl[r]) ELSE cl[r]]
    BY <1>3 DEF AfterHandler
  <2>2. ASSUME NEW u \in Requests
        PROVE  /\ client'[u] \in ClientRecord
               /\ Len(client'[u].tasks) <= MaxBind /\ Len(client'[u].inbox) <= MaxInbox
               /\ client'[u].conn = "backlog" <=> Member(u, b)
    <3>1. CASE cl[u].conn = "open"
      <4>1. client'[u] = FreeClient(cl[u])
        BY <2>1, <3>1
      <4>2. /\ client'[u] \in ClientRecord /\ client'[u].conn = "absent"
            /\ client'[u].tasks = <<>> /\ client'[u].inbox = <<>>
        BY <1>1, <4>1, FreeTyped
      <4>3. Len(<<>>) = 0 /\ 0 <= MaxBind /\ 0 <= MaxInbox
        BY ServerConstantsOK
      <4> QED BY <1>1, <3>1, <4>2, <4>3
    <3>2. CASE cl[u].conn # "open"
      BY <1>1, <2>1, <3>2
    <3> QED BY <3>1, <3>2
  <2>3. client' \in [Requests -> ClientRecord]
    BY <2>1, <2>2
  <2> QED BY <1>3, <2>2, <2>3 DEF ClientsTyped, Up
<1> QED BY <1>2, <1>3

\* An untouched client is accounted for as before.
LEMMA AccountedStays ==
    ASSUME NEW u \in Requests, Accounted(u), client'[u] = client[u],
           Waiting(u)' <=> Waiting(u), Waiting(u) => req'[u].hw_task = req[u].hw_task
    PROVE  Accounted(u)'
BY DEF Accounted, Due

\* What the handler of client r, which runs on a message or a hang-up, may rely on.
LEMMA ClientHandled ==
    ASSUME ServerOwned, NEW r \in Requests, Handle(ClientSrc(r))
    PROVE  /\ Running /\ Up /\ Serving
           /\ client \in [Requests -> ClientRecord] /\ client[r] \in ClientRecord
           /\ client[r].conn = "open" /\ Accounted(r)
           /\ ClientsTyped(client, backlog)
           /\ client[r].owed = Len(client[r].inbox) + Due(r)
           /\ backlog' = backlog
           /\ ClientSrc(r) \in ReadySources /\ batch' = batch \ {ClientSrc(r)}
<1>1. Running /\ Up /\ Serving /\ ClientSrc(r) \in batch /\ backlog' = backlog
      /\ batch' = batch \ {ClientSrc(r)}
  BY DEF ServerOwned, Handle, Takes, Running, Up
<1>2. ClientSrc(r) \in ReadySources /\ Accounted(r)
  BY <1>1 DEF Serving
<1>3. client[r].conn = "open"
  BY <1>2 DEF ReadySources, ClientSrc, SlotSrc, TimerSrc, DevcfgSrc, ListenerSrc
<1>4. ClientsTyped(client, backlog) /\ client \in [Requests -> ClientRecord]
  BY DEF ServerOwned, ServerTyped, ClientsTyped
<1> QED BY <1>1, <1>2, <1>3, <1>4 DEF Accounted

\* A step that only changes client r, in its own handler.
LEMMA OnlyClient ==
    ASSUME ServerOwned, NEW r \in Requests, Handle(ClientSrc(r)), UNCHANGED vars,
           \A u \in Requests : u # r => client'[u] = client[u],
           Running' => Accounted(r)'
    PROVE  Serves
<1> SUFFICES ASSUME Running'
             PROVE  /\ batch' \subseteq ReadySources'
                    /\ \A u \in Requests : Accounted(u)'
  BY DEF Serves
<1>1. /\ Running /\ Serving /\ backlog' = backlog
      /\ ClientSrc(r) \in ReadySources /\ batch' = batch \ {ClientSrc(r)}
  BY ClientHandled
<1>2. Untouched(ClientSrc(r))
  BY <1>1 DEF Untouched, vars, SlotKept, ClientSrc, Calls
<1>3. batch' \subseteq ReadySources'
  BY <1>1, <1>2, BatchStays DEF Serving
<1>4. ASSUME NEW u \in Requests PROVE Accounted(u)'
  <2>1. (Waiting(u)' <=> Waiting(u)) /\ req' = req
    BY DEF vars, Waiting
  <2> QED BY <1>1, <2>1, AccountedStays DEF Serving
<1> QED BY <1>3, <1>4

-----------------------------------------------------------------------------
(* The handlers of a client. *)

\* Record c is client r after its next message was taken, before it is answered.
Took(r, c) ==
    /\ c \in ClientRecord /\ Len(c.tasks) <= MaxBind
    /\ c.conn = client[r].conn /\ c.peer = client[r].peer
    /\ c.owed = client[r].owed /\ c.pushed = client[r].pushed
    /\ c.inbox = Tail(client[r].inbox)
    /\ ToSet(client[r].tasks) \subseteq ToSet(c.tasks)

Matches(c) == BindsSucceed => c.buffers = BuffersOf(c.tasks)

LEMMA AnsweredTyped ==
    ASSUME NEW c \in ClientRecord, c.owed > 0
    PROVE  /\ Answered(c) \in ClientRecord
           /\ Answered(c).owed = c.owed - 1
           /\ Answered(c).conn = c.conn /\ Answered(c).peer = c.peer
           /\ Answered(c).tasks = c.tasks /\ Answered(c).inbox = c.inbox
           /\ Answered(c).pushed = c.pushed /\ Answered(c).buffers = c.buffers
<1>1. c.owed - 1 \in Nat
  BY DEF ClientRecord
<1> QED BY <1>1 DEF Answered, ClientRecord

\* A client's inbox holds messages, within its bound.
LEMMA InboxTyped ==
    ASSUME ServerTyped, NEW r \in Requests, client[r].inbox # <<>>
    PROVE  /\ client[r].inbox \in Seq(Messages) /\ Message(r) \in Messages
           /\ Tail(client[r].inbox) \in Seq(Messages)
           /\ Len(client[r].inbox) \in Nat \ {0} /\ Len(client[r].inbox) <= MaxInbox
           /\ Len(Tail(client[r].inbox)) = Len(client[r].inbox) - 1
<1>1. client[r] \in ClientRecord /\ Len(client[r].inbox) <= MaxInbox
  BY DEF ServerTyped, ClientsTyped
<1> DEFINE q == client[r].inbox
<1>2. q \in Seq(Messages)
  BY <1>1 DEF ClientRecord
<1> HIDE DEF Messages
<1>3. Len(q) \in Nat /\ Len(q) # 0
  BY <1>2, LenProperties, EmptySeq
<1>4. Tail(q) \in Seq(Messages) /\ Len(Tail(q)) = Len(q) - 1 /\ Head(q) \in Messages
  BY <1>2, <1>3, HeadTailProperties
<1> QED BY <1>1, <1>2, <1>3, <1>4 DEF Message

\* A handler that answers its client's message.
LEMMA ReplyServes ==
    ASSUME ServerOwned, NEW r \in Requests, Handle(ClientSrc(r)), client[r].inbox # <<>>,
           NEW c, Took(r, c), Reachable(r) => Matches(c), Reply(r, c)
    PROVE  ServerTyped' /\ Serves
<1> HIDE DEF ClientRecord, Messages
<1> DEFINE n == Answered(c)
           cl == [client EXCEPT ![r] = n]
<1>1. /\ Running /\ Up /\ Serving
      /\ client \in [Requests -> ClientRecord] /\ client[r] \in ClientRecord
      /\ client[r].conn = "open" /\ Accounted(r)
      /\ ClientsTyped(client, backlog)
      /\ client[r].owed = Len(client[r].inbox) + Due(r)
      /\ backlog' = backlog
      /\ batch' = batch \ {ClientSrc(r)}
  BY ClientHandled
<1>2. /\ Len(client[r].inbox) \in Nat \ {0} /\ Len(client[r].inbox) <= MaxInbox
      /\ Len(Tail(client[r].inbox)) = Len(client[r].inbox) - 1
  BY InboxTyped DEF ServerOwned
<1>3. MaxInbox \in Nat /\ MaxBind \in Nat /\ Due(r) \in 0..1
  BY ServerConstantsOK DEF Due
<1>4. c \in ClientRecord /\ c.owed = client[r].owed /\ c.owed > 0
  BY <1>1, <1>2, <1>3 DEF Took
<1>5. /\ n \in ClientRecord /\ n.owed = c.owed - 1
      /\ n.conn = c.conn /\ n.peer = c.peer /\ n.tasks = c.tasks /\ n.inbox = c.inbox
      /\ n.pushed = c.pushed /\ n.buffers = c.buffers
  BY <1>4, AnsweredTyped
<1> HIDE DEF n
<1>6. Len(n.tasks) <= MaxBind /\ Len(n.inbox) <= MaxInbox /\ n.conn = client[r].conn
  BY <1>2, <1>3, <1>5 DEF Took
<1>7. /\ ClientsTyped(cl, backlog) /\ cl[r] = n
      /\ \A u \in Requests : u # r => cl[u] = client[u]
  BY <1>1, <1>5, <1>6, UpdateTyped
<1>8. /\ AfterHandler(cl)
      /\ status' = IF Reachable(r) THEN "up" ELSE "down"
      /\ UNCHANGED <<slot, timer, hw, devcfg, req, part_queues, fri_queue, banned,
                     clock, reply>>
  BY DEF Reply, n
<1> HIDE DEF cl
<1>9. ClientsTyped(client', backlog) /\ (Up' => client' = cl)
  BY <1>7, <1>8, AfterTyped
<1>10. ServerTyped'
  BY <1>1, <1>9 DEF ServerOwned, ServerTyped
<1>11. ASSUME Running' PROVE Serves
  <2>1. Up' /\ Reachable(r) /\ UNCHANGED vars /\ client' = cl
    BY <1>1, <1>8, <1>9, <1>11 DEF Running, Up, vars
  <2>2. Accounted(r)'
    <3>1. Due(r)' = Due(r)
      BY <2>1 DEF Due, Waiting, vars
    <3>2. client'[r] = n /\ req' = req /\ (Waiting(r)' <=> Waiting(r))
      BY <1>7, <2>1 DEF vars, Waiting
    <3>3. n.pushed = Due(r) /\ n.owed = Len(n.inbox) + Due(r) /\ n.conn = "open"
      BY <1>1, <1>2, <1>3, <1>5 DEF Took, Accounted
    <3>4. ClientFaults = {} => Polite(n)
      <4>1. n.peer = "alive" /\ n.owed <= client[r].owed /\ client[r].owed \in Nat
        BY <1>1, <1>2, <1>3, <1>5, <2>1 DEF Took, Reachable
      <4> QED BY <1>1, <1>2, <1>3, <1>5, <4>1 DEF Took, Accounted, Polite
    <3>5. BindsSucceed => n.buffers = BuffersOf(n.tasks)
      BY <1>5, <2>1 DEF Matches
    <3>6. Waiting(r) => req[r].hw_task \in ToSet(n.tasks)
      BY <1>1, <1>5 DEF Took, Accounted
    <3> HIDE DEF Due
    <3> QED BY <3>1, <3>2, <3>3, <3>4, <3>5, <3>6 DEF Accounted
  <2> QED BY <1>7, <2>1, <2>2, OnlyClient
<1> QED BY <1>10, <1>11 DEF Serves

\* Taking a message from the socket changes nothing else.
LEMMA ConsumedFields ==
    ASSUME ServerOwned, NEW r \in Requests, client[r].inbox # <<>>
    PROVE  /\ Consumed(r) \in ClientRecord
           /\ Consumed(r).conn = client[r].conn /\ Consumed(r).peer = client[r].peer
           /\ Consumed(r).tasks = client[r].tasks /\ Consumed(r).owed = client[r].owed
           /\ Consumed(r).pushed = client[r].pushed
           /\ Consumed(r).buffers = client[r].buffers
           /\ Consumed(r).inbox = Tail(client[r].inbox)
           /\ Consumed(r).unread = client[r].unread
           /\ Len(Consumed(r).tasks) <= MaxBind
<1>1. /\ client[r] \in ClientRecord /\ Len(client[r].tasks) <= MaxBind
      /\ Tail(client[r].inbox) \in Seq(Messages)
  BY InboxTyped DEF ServerOwned, ServerTyped, ClientsTyped
<1> HIDE DEF Messages
<1> QED BY <1>1 DEF Consumed, ClientRecord

LEMMA ConsumedTook ==
    ASSUME ServerOwned, NEW r \in Requests, Accounted(r), client[r].inbox # <<>>
    PROVE  Took(r, Consumed(r)) /\ Matches(Consumed(r))
BY ConsumedFields DEF Took, Matches, Accounted

\* A handler that detaches its client: freed with its buffers, unless it was being bound.
LEMMA DetachServes ==
    ASSUME ServerOwned, NEW r \in Requests, Handle(ClientSrc(r)), NEW c \in ClientRecord,
           c.pushed = client[r].pushed, Matches(c), Detach(r, c)
    PROVE  ServerTyped' /\ Serves
<1> DEFINE n == FreeClient(c)
           cl == [client EXCEPT ![r] = n]
<1>1. /\ Running /\ Up /\ Serving
      /\ client[r].conn = "open" /\ Accounted(r)
      /\ ClientsTyped(client, backlog)
      /\ backlog' = backlog /\ batch' = batch \ {ClientSrc(r)}
  BY ClientHandled
<1>2. /\ n \in ClientRecord /\ n.conn = "absent" /\ n.tasks = <<>> /\ n.inbox = <<>>
      /\ n.pushed = c.pushed /\ n.buffers = LeftBuffers(c)
  BY FreeTyped
<1>3. client' = cl /\ UNCHANGED vars
  BY DEF Detach
<1> HIDE DEF n, ClientRecord
<1>4. Len(n.tasks) <= MaxBind /\ Len(n.inbox) <= MaxInbox
  <2>1. Len(<<>>) = 0 /\ 0 <= MaxBind /\ 0 <= MaxInbox
    BY ServerConstantsOK
  <2> QED BY <1>2, <2>1
<1>5. /\ ClientsTyped(cl, backlog) /\ cl[r] = n
      /\ \A u \in Requests : u # r => cl[u] = client[u]
  BY <1>1, <1>2, <1>4, UpdateTyped
<1> HIDE DEF cl
<1>6. ServerTyped'
  BY <1>1, <1>3, <1>5 DEF ServerOwned, ServerTyped
<1>7. ASSUME Running' PROVE Accounted(r)'
  <2>1. client'[r] = n /\ ~Waiting(r)' /\ (Waiting(r)' <=> Waiting(r))
    <3>1. client'[r] = n
      BY <1>3, <1>5
    <3> QED BY <1>2, <1>3, <1>7, <3>1 DEF Running, Corrupt, vars, Waiting
  <2>2. n.pushed = Due(r)'
    BY <1>1, <1>2, <2>1 DEF Accounted, Due
  <2>3. BindsSucceed => n.buffers = BuffersOf(n.tasks)
    <3>1. SUFFICES ASSUME BindsSucceed PROVE n.buffers = {} /\ BuffersOf(<<>>) = {}
      BY <1>2
    <3>2. BuffersOf(<<>>) = {}
      BY DEF BuffersOf
    <3>3. ASSUME NEW b \in n.buffers PROVE FALSE
      <4>1. b \in BuffersOf(c.tasks) /\ b[1] > Len(c.tasks)
        BY <1>2, <3>1, <3>3 DEF LeftBuffers, Matches
      <4>2. PICK i \in 1..Len(c.tasks) : \E j \in 1..BufferCounts[c.tasks[i]] : b = <<i, j>>
        BY <4>1 DEF BuffersOf
      <4>3. Len(c.tasks) \in Nat
        BY DEF ClientRecord
      <4> QED BY <4>1, <4>2, <4>3
    <3> QED BY <3>2, <3>3
  <2> QED BY <1>2, <2>1, <2>2, <2>3 DEF Accounted
<1>8. \A u \in Requests : u # r => client'[u] = client[u]
  BY <1>3, <1>5
<1>9. Serves
  BY <1>3, <1>7, <1>8, OnlyClient
<1> QED BY <1>6, <1>9

LEMMA UnwrittenServes ==
    ASSUME ServerOwned, NEW r \in Requests, Handle(ClientSrc(r)), NEW c, Took(r, c),
           Unwritten(r, c)
    PROVE  ServerTyped' /\ Serves
<1>1. Detach(r, c) /\ Matches(c)
  BY DEF Unwritten, Full, Matches, BindsSucceed
<1>2. c \in ClientRecord /\ c.pushed = client[r].pushed
  BY DEF Took
<1> QED BY <1>1, <1>2, DetachServes

LEMMA HandleInitServes ==
    ASSUME ServerOwned, NEW r \in Requests, HandleInit(r)
    PROVE  ServerTyped' /\ Serves
<1> DEFINE c == Consumed(r)
           d == [c EXCEPT !.state = "READY"]
<1>1. Handle(ClientSrc(r)) /\ client[r].inbox # <<>> /\ (Reply(r, d) \/ Unwritten(r, d))
  BY Zenon DEF HandleInit, Receives
<1>2. Took(r, c) /\ Matches(c)
  BY <1>1, ClientHandled, ConsumedTook
<1> HIDE DEF c
<1>3. c \in ClientRecord
  BY <1>2 DEF Took
<1>4. Took(r, d) /\ Matches(d)
  BY <1>2, <1>3 DEF Took, Matches, ClientRecord
<1> HIDE DEF d
<1> QED BY <1>1, <1>4, ReplyServes, UnwrittenServes

LEMMA HandleRefusedServes ==
    ASSUME ServerOwned, NEW r \in Requests, HandleRefused(r)
    PROVE  ServerTyped' /\ Serves
<1>1. /\ Handle(ClientSrc(r)) /\ client[r].inbox # <<>>
      /\ Reply(r, Consumed(r)) \/ Unwritten(r, Consumed(r))
  BY DEF HandleRefused, Receives
<1>2. Took(r, Consumed(r)) /\ Matches(Consumed(r))
  BY <1>1, ClientHandled, ConsumedTook
<1> QED BY <1>1, <1>2, ReplyServes, UnwrittenServes

\* A client that hangs up is freed, one whose socket failed ends the loop.
LEMMA HandleHangupServes ==
    ASSUME ServerOwned, NEW r \in Requests, HandleHangup(r)
    PROVE  ServerTyped' /\ Serves
<1>1. Handle(ClientSrc(r)) /\ client[r] \in ClientRecord /\ Accounted(r)
      /\ ClientsTyped(client, backlog) /\ backlog' = backlog /\ batch' = batch \ {ClientSrc(r)}
  BY ClientHandled DEF HandleHangup
<1>2. CASE Detach(r, client[r])
  BY <1>1, <1>2, DetachServes DEF Matches, Accounted
<1>3. CASE status' = "down" /\ AfterHandler(client)
  <2>1. ClientsTyped(client', backlog) /\ ~Running'
    BY <1>1, <1>3, AfterTyped DEF Running
  <2> QED BY <1>1, <2>1 DEF ServerOwned, ServerTyped, Serves
<1> QED BY <1>2, <1>3 DEF HandleHangup

\* Binding one more hw-task adds its buffers.
LEMMA BuffersAppend ==
    ASSUME NEW q \in Seq(HwTasks), NEW t \in HwTasks
    PROVE  BuffersOf(Append(q, t)) = BuffersOf(q) \cup {<<Len(q) + 1, j>> : j \in 1..BufferCounts[t]}
<1> DEFINE a == Append(q, t)
           more == {<<Len(q) + 1, j>> : j \in 1..BufferCounts[t]}
           at(p, i) == {<<i, j>> : j \in 1..BufferCounts[p[i]]}
<1>1. /\ Len(a) = Len(q) + 1 /\ Len(q) \in Nat
      /\ \A i \in 1..Len(q) : a[i] = q[i]
      /\ a[Len(q) + 1] = t
  BY AppendProperties, LenProperties
<1> HIDE DEF a
<1>2. (\A i \in 1..Len(q) : at(a, i) = at(q, i)) /\ at(a, Len(q) + 1) = more
  BY <1>1
<1>3. BuffersOf(q) = UNION {at(q, i) : i \in 1..Len(q)}
      /\ BuffersOf(a) = UNION {at(a, i) : i \in 1..Len(a)}
  BY DEF BuffersOf
<1> HIDE DEF at, more
<1>4. ASSUME NEW b PROVE b \in BuffersOf(a) <=> b \in BuffersOf(q) \/ b \in more
  <2>1. b \in BuffersOf(a) <=> \E i \in 1..Len(a) : b \in at(a, i)
    BY <1>3
  <2>2. b \in BuffersOf(q) <=> \E i \in 1..Len(q) : b \in at(q, i)
    BY <1>3
  <2>3. \A i \in 1..Len(a) : i \in 1..Len(q) \/ i = Len(q) + 1
    BY <1>1
  <2>4. 1..Len(q) \subseteq 1..Len(a) /\ Len(q) + 1 \in 1..Len(a)
    BY <1>1
  <2> QED BY <1>2, <2>1, <2>2, <2>3, <2>4
<1> QED BY <1>4 DEF a, more

LEMMA HandleBindServes ==
    ASSUME ServerOwned, NEW r \in Requests, HandleBind(r)
    PROVE  ServerTyped' /\ Serves
<1> DEFINE c == Consumed(r)
           t == Message(r).task
           b == [c EXCEPT !.buffers = @ \cup Allocated(c, BufferCounts[t])]
           d == IF Reachable(r) THEN [b EXCEPT !.tasks = Append(@, t)] ELSE b
<1>1. Handle(ClientSrc(r)) /\ client[r].inbox # <<>> /\ MayBind(client[r], t)
  BY DEF HandleBind, Receives
<1>2. Accounted(r) /\ ServerTyped
  BY <1>1, ClientHandled DEF ServerOwned
<1>3. /\ c \in ClientRecord /\ c.conn = client[r].conn /\ c.peer = client[r].peer
      /\ c.tasks = client[r].tasks /\ c.owed = client[r].owed
      /\ c.pushed = client[r].pushed /\ c.buffers = client[r].buffers
      /\ c.inbox = Tail(client[r].inbox) /\ Len(c.tasks) <= MaxBind
  BY <1>1, ConsumedFields
<1>4. t \in HwTasks
  <2>1. Message(r) \in Messages
    BY <1>1, <1>2, InboxTyped
  <2> QED BY <1>1, <2>1 DEF Messages, MayBind
<1>5. Len(c.tasks) < MaxBind /\ c.tasks \in Seq(HwTasks) /\ Len(c.tasks) \in Nat
      /\ BufferCounts[t] \in Nat /\ MaxBind \in Nat
  BY <1>1, <1>3, <1>4, ServerConstantsOK DEF MayBind, ClientRecord
<1> HIDE DEF c, t
<1>6. \A n \in Nat : Allocated(c, n) \in SUBSET (Nat \X Nat)
  BY <1>5 DEF Allocated
<1>7. \A n \in Nat : [c EXCEPT !.buffers = @ \cup Allocated(c, n)] \in ClientRecord
                     /\ [c EXCEPT !.buffers = @ \cup Allocated(c, n)].pushed = c.pushed
  <2>1. SUFFICES ASSUME NEW n \in Nat, NEW x, x = [c EXCEPT !.buffers = @ \cup Allocated(c, n)]
                 PROVE  x \in ClientRecord /\ x.pushed = c.pushed
    OBVIOUS
  <2>2. Allocated(c, n) \in SUBSET (Nat \X Nat)
    BY <1>6
  <2> HIDE DEF Allocated
  <2> QED BY <1>3, <2>1, <2>2 DEF ClientRecord
<1>8. CASE Reply(r, d)
  <2> DEFINE q == Append(c.tasks, t)
  <2>1. /\ b \in ClientRecord /\ b.tasks = c.tasks
        /\ b.buffers = c.buffers \cup Allocated(c, BufferCounts[t])
        /\ b.conn = c.conn /\ b.peer = c.peer /\ b.owed = c.owed
        /\ b.pushed = c.pushed /\ b.inbox = c.inbox
    <3>1. b \in ClientRecord
      BY <1>5, <1>7
    <3> HIDE DEF Allocated
    <3> QED BY <1>3, <3>1 DEF ClientRecord
  <2>2. q \in Seq(HwTasks) /\ Len(q) = Len(c.tasks) + 1
        /\ \A x \in ToSet(c.tasks) : x \in ToSet(q)
    <3>1. /\ q \in Seq(HwTasks) /\ Len(q) = Len(c.tasks) + 1
          /\ \A i \in 1..Len(c.tasks) : q[i] = c.tasks[i]
      BY <1>4, <1>5, AppendProperties
    <3> HIDE DEF q
    <3> QED BY <1>5, <3>1 DEF ToSet
  <2> HIDE DEF b, q
  <2>3. CASE Reachable(r)
    <3>1. d = [b EXCEPT !.tasks = q]
      BY <2>1, <2>3 DEF q
    <3> HIDE DEF d
    <3>2. /\ d \in ClientRecord /\ d.tasks = q /\ d.buffers = b.buffers
          /\ d.conn = b.conn /\ d.peer = b.peer /\ d.owed = b.owed
          /\ d.pushed = b.pushed /\ d.inbox = b.inbox
      BY <2>1, <2>2, <3>1 DEF ClientRecord
    <3>3. Took(r, d)
      BY <1>3, <1>5, <2>1, <2>2, <3>2 DEF Took
    <3>4. Matches(d)
      <4>1. SUFFICES ASSUME BindsSucceed PROVE d.buffers = BuffersOf(q)
        BY <3>2 DEF Matches
      <4>2. c.buffers = BuffersOf(c.tasks)
        BY <1>2, <1>3, <4>1 DEF Accounted
      <4>3. BuffersOf(q) = BuffersOf(c.tasks) \cup Allocated(c, BufferCounts[t])
        BY <1>4, <1>5, BuffersAppend DEF q, Allocated
      <4> QED BY <2>1, <3>2, <4>2, <4>3
    <3> QED BY <1>1, <1>8, <3>3, <3>4, ReplyServes
  <2>4. CASE ~Reachable(r)
    <3>1. d = b
      BY <2>4
    <3> HIDE DEF d
    <3>2. Took(r, d)
      BY <1>3, <2>1, <3>1 DEF Took
    <3> QED BY <1>1, <1>8, <2>4, <3>2, ReplyServes
  <2> QED BY <2>3, <2>4
<1>9. ASSUME "alloc" \in ServerFaults, NEW n \in 0..(BufferCounts[t] - 1),
             Detach(r, [c EXCEPT !.buffers = @ \cup Allocated(c, n)])
      PROVE  ServerTyped' /\ Serves
  <2> DEFINE x == [c EXCEPT !.buffers = @ \cup Allocated(c, n)]
  <2>1. n \in Nat
    BY <1>5
  <2>2. x \in ClientRecord /\ x.pushed = client[r].pushed
    BY <1>3, <1>7, <2>1
  <2> HIDE DEF x
  <2>3. Matches(x)
    BY <1>9 DEF Matches, BindsSucceed
  <2> QED BY <1>1, <1>9, <2>2, <2>3, DetachServes DEF x
<1>10. CASE Unwritten(r, b)
  <2>1. b \in ClientRecord
    BY <1>5, <1>7
  <2>2. b.tasks = c.tasks /\ b.conn = c.conn /\ b.peer = c.peer /\ b.owed = c.owed
        /\ b.pushed = c.pushed /\ b.inbox = c.inbox
    BY <1>3 DEF ClientRecord
  <2> HIDE DEF b
  <2>3. Took(r, b)
    BY <1>3, <2>1, <2>2 DEF Took
  <2> QED BY <1>1, <1>10, <2>3, UnwrittenServes
<1> QED BY Zenon, <1>8, <1>9, <1>10 DEF HandleBind, c, t

\* A request reaches the scheduler. When the last one is still there, the lists are
\* corrupt from here on; else its client is owed one more answer by the scheduler.
LEMMA HandleRunServes ==
    ASSUME ServerOwned, NEW r \in Requests, HandleRun(r)
    PROVE  ServerTyped' /\ Serves
<1> HIDE DEF ClientRecord, Messages
<1> DEFINE c == Consumed(r)
           t == Message(r).task
           n == [c EXCEPT !.pushed = @ + 1]
           cl == [client EXCEPT ![r] = n]
<1>1. Handle(ClientSrc(r)) /\ client[r].inbox # <<>> /\ MayRun(client[r], t)
  BY DEF HandleRun, Receives
<1>2. /\ Running /\ Up /\ Serving
      /\ client[r] \in ClientRecord
      /\ client[r].conn = "open" /\ Accounted(r)
      /\ ClientsTyped(client, backlog)
      /\ client[r].owed = Len(client[r].inbox) + Due(r)
      /\ backlog' = backlog
      /\ ClientSrc(r) \in ReadySources /\ batch' = batch \ {ClientSrc(r)}
  BY <1>1, ClientHandled
<1>3. /\ Len(client[r].inbox) \in Nat \ {0} /\ Len(client[r].inbox) <= MaxInbox
      /\ Len(Tail(client[r].inbox)) = Len(client[r].inbox) - 1
  BY <1>1, InboxTyped DEF ServerOwned
<1>4. /\ c \in ClientRecord /\ c.conn = client[r].conn /\ c.peer = client[r].peer
      /\ c.tasks = client[r].tasks /\ c.owed = client[r].owed
      /\ c.pushed = client[r].pushed /\ c.buffers = client[r].buffers
      /\ c.unread = client[r].unread
      /\ c.inbox = Tail(client[r].inbox) /\ Len(c.tasks) <= MaxBind
  BY <1>1, ConsumedFields
<1> HIDE DEF c
<1>5. /\ n \in ClientRecord /\ n.conn = c.conn /\ n.peer = c.peer /\ n.tasks = c.tasks
      /\ n.owed = c.owed /\ n.pushed = c.pushed + 1 /\ n.buffers = c.buffers
      /\ n.inbox = c.inbox /\ n.unread = c.unread
  <2>1. c.pushed + 1 \in Nat
    BY <1>4 DEF ClientRecord
  <2> QED BY <1>4, <2>1 DEF ClientRecord
<1> HIDE DEF n
<1>6. MaxInbox \in Nat /\ Due(r) \in 0..1
  BY ServerConstantsOK DEF Due
<1>7. /\ ClientsTyped(cl, backlog) /\ cl[r] = n
      /\ \A u \in Requests : u # r => cl[u] = client[u]
  <2>1. Len(n.tasks) <= MaxBind /\ Len(n.inbox) <= MaxInbox /\ n.conn = client[r].conn
    BY <1>3, <1>4, <1>5, <1>6
  <2> QED BY <1>2, <1>5, <2>1, UpdateTyped
<1> HIDE DEF cl
<1>8. CASE Waiting(r) /\ client' = cl /\ UNCHANGED vars
  <2>1. ServerTyped'
    BY <1>2, <1>7, <1>8 DEF ServerOwned, ServerTyped
  <2>2. client'[r].pushed > 1
    BY <1>2, <1>4, <1>5, <1>7, <1>8 DEF Accounted, Due
  <2> QED BY <2>1, <2>2 DEF Serves, Running, Corrupt
<1>9. CASE ~Waiting(r) /\ Push(r, t) /\ AfterHandler(cl)
  <2>1. ClientsTyped(client', backlog) /\ (Up' => client' = cl)
    BY <1>7, <1>9, AfterTyped
  <2>2. ServerTyped'
    BY <1>2, <2>1 DEF ServerOwned, ServerTyped
  <2>3. ASSUME Running' PROVE Serves
    <3>0. Up' /\ client' = cl
      BY <2>1, <2>3 DEF Running, Up
    <3>1. t \in HwTasks
      <4>1. Message(r) \in Messages
        BY <1>1, InboxTyped DEF ServerOwned
      <4>2. t # NULL \/ t \in HwTasks
        <5>1. client[r].tasks \in Seq(HwTasks) /\ t \in ToSet(client[r].tasks)
          BY <1>1, <1>2 DEF MayRun, ClientRecord
        <5> QED BY <5>1 DEF ToSet
      <4> QED BY <4>1, <4>2 DEF Messages
    <3>2. Run(r, t)
      BY <1>1, <1>2, <1>9 DEF Run, MayRun, Waiting, Up
    <3>3. Next
      BY <3>1, <3>2 DEF Next
    <3> HIDE DEF t
    <3>4. /\ \A s \in Slots : SlotKept(s)
          /\ devcfg.drv = "done" => devcfg'.drv = "done"
          /\ req'[r].hw_task = t /\ \A u \in Waiters : req'[u] = req[u]
          /\ reply' = [reply EXCEPT ![r] = "wait"]
      BY <1>2, <3>0, <3>1, <3>2, RunKeeps DEF Serving
    <3>5. reply \in [Requests -> Replies]
      BY <1>2 DEF Serving, IInv, TypeOK
    <3>6. Untouched(ClientSrc(r))
      BY <1>2, <1>7, <3>0, <3>4 DEF Untouched, Calls, ClientSrc
    <3>7. batch' \subseteq ReadySources'
      BY <1>2, <3>6, BatchStays DEF Serving
    <3>8. ASSUME NEW u \in Requests PROVE Accounted(u)'
      <4>1. CASE u = r
        <5>1. client'[r] = n /\ Waiting(r)' /\ Due(r)' = 1 /\ Due(r) = 0
          BY <1>7, <1>9, <3>0, <3>4, <3>5 DEF Due, Waiting
        <5>2. n.pushed = 1 /\ n.owed = Len(n.inbox) + 1 /\ n.conn = "open"
          BY <1>2, <1>3, <1>4, <1>5, <5>1 DEF Accounted
        <5>3. ClientFaults = {} => Polite(n)
          BY <1>2, <1>4, <1>5 DEF Accounted, Polite
        <5>4. BindsSucceed => n.buffers = BuffersOf(n.tasks)
          BY <1>2, <1>4, <1>5 DEF Accounted
        <5>5. req'[r].hw_task \in ToSet(n.tasks)
          BY <1>1, <1>4, <1>5, <3>4 DEF MayRun, t
        <5> HIDE DEF Due
        <5> QED BY <4>1, <5>1, <5>2, <5>3, <5>4, <5>5 DEF Accounted
      <4>2. CASE u # r
        <5>1. client'[u] = client[u] /\ (Waiting(u)' <=> Waiting(u))
              /\ (Waiting(u) => req'[u].hw_task = req[u].hw_task)
          BY <1>7, <3>0, <3>4, <3>5, <4>2 DEF Waiting, Waiters
        <5> QED BY <1>2, <5>1, AccountedStays DEF Serving
      <4> QED BY <4>1, <4>2
    <3> QED BY <3>3, <3>7, <3>8 DEF Serves
  <2> QED BY <2>2, <2>3 DEF Serves
<1> QED BY Zenon, <1>8, <1>9 DEF HandleRun, c, t, n, cl

-----------------------------------------------------------------------------
(* The scheduler's handlers, called by the event loop. *)

\* The client whose request the scheduler answers is owed the answer.
LEMMA ToldTyped ==
    ASSUME ServerTyped, NEW x \in Waiters, Accounted(x), client[x].conn = "open",
           NEW a, reply' = reply \/ reply' = [reply EXCEPT ![x] = a]
    PROVE  /\ ClientsTyped(Told(x), backlog)
           /\ \A u \in Requests : u # x => Told(x)[u] = client[u]
           /\ \A u \in Requests : Told(x)[u].conn = client[u].conn
           /\ \A u \in Requests : Told(x)[u].inbox = client[u].inbox
           /\ \A u \in Requests : Told(x)[u].peer = client[u].peer
           /\ \A u \in Requests : Told(x)[u].tasks = client[u].tasks
           /\ \A u \in Requests : Told(x)[u].buffers = client[u].buffers
           /\ reply'[x] # reply[x] =>
                /\ Told(x)[x].owed = client[x].owed - 1 /\ Told(x)[x].pushed = 0
<1> HIDE DEF ClientRecord, Messages
<1>1. x \in Requests /\ Due(x) = 1
  BY DEF Waiters, Due
<1>2. /\ ClientsTyped(client, backlog) /\ client[x] \in ClientRecord
      /\ client[x].tasks \in Seq(HwTasks) /\ client[x].inbox \in Seq(Messages)
      /\ Len(client[x].tasks) <= MaxBind /\ Len(client[x].inbox) <= MaxInbox
  BY <1>1 DEF ServerTyped, ClientsTyped, ClientRecord
<1>3. /\ client[x].pushed = 1 /\ client[x].owed = Len(client[x].inbox) + 1
      /\ Len(client[x].inbox) \in Nat
  BY <1>1, <1>2, LenProperties DEF Accounted
<1> DEFINE m == Answered(client[x])
           n == [m EXCEPT !.pushed = @ - 1]
           cl == [client EXCEPT ![x] = n]
<1>4. /\ m \in ClientRecord
      /\ m.owed = client[x].owed - 1 /\ m.conn = client[x].conn /\ m.peer = client[x].peer
      /\ m.tasks = client[x].tasks /\ m.inbox = client[x].inbox
      /\ m.pushed = client[x].pushed /\ m.buffers = client[x].buffers
  BY <1>2, <1>3, AnsweredTyped
<1>5. Told(x) = IF reply'[x] # reply[x] THEN cl ELSE client
  BY <1>1, <1>2 DEF Told, ClientsTyped
<1> HIDE DEF m
<1>6. /\ n \in ClientRecord
      /\ n.owed = m.owed /\ n.conn = m.conn /\ n.peer = m.peer
      /\ n.tasks = m.tasks /\ n.inbox = m.inbox
      /\ n.pushed = 0 /\ n.buffers = m.buffers
  <2>1. n = [m EXCEPT !.pushed = 0]
    BY <1>3, <1>4
  <2> HIDE DEF n
  <2> QED BY <1>4, <2>1 DEF ClientRecord
<1> HIDE DEF n
<1>7. /\ ClientsTyped(cl, backlog) /\ cl[x] = n
      /\ \A u \in Requests : u # x => cl[u] = client[u]
  BY <1>1, <1>2, <1>4, <1>6, UpdateTyped
<1> HIDE DEF cl
<1>8. CASE reply'[x] = reply[x]
  BY <1>2, <1>5, <1>8
<1>9. CASE reply'[x] # reply[x]
  BY <1>4, <1>5, <1>6, <1>7, <1>9
<1> QED BY <1>8, <1>9

\* The handler of source y answers request x: its client is told, nobody else.
LEMMA AnswerServes ==
    ASSUME ServerOwned, NEW y, Handle(y), NEW s \in Slots, y \in {SlotSrc(s), TimerSrc(s)},
           NEW x \in Waiters, NEW a \in {"DONE", "OVERRUN"},
           reply' = reply \/ reply' = [reply EXCEPT ![x] = a],
           AfterHandler(Told(x)), Up' => Answers(x, a, y) /\ [Next]_vars
    PROVE  ServerTyped' /\ Serves
<1> HIDE DEF ClientRecord, Messages
<1>1. /\ Running /\ Up /\ Serving /\ ServerTyped /\ x \in Requests /\ Waiting(x)
      /\ y \in batch /\ batch' = batch \ {y} /\ backlog' = backlog
  BY DEF ServerOwned, Handle, Takes, Running, Up, Waiters
<1>2. Accounted(x) /\ client[x].conn = "open"
  BY <1>1 DEF Serving, Running, Corrupt
<1>3. /\ ClientsTyped(Told(x), backlog)
      /\ \A u \in Requests : u # x => Told(x)[u] = client[u]
      /\ \A u \in Requests : Told(x)[u].conn = client[u].conn
      /\ \A u \in Requests : Told(x)[u].inbox = client[u].inbox
      /\ \A u \in Requests : Told(x)[u].peer = client[u].peer
      /\ \A u \in Requests : Told(x)[u].tasks = client[u].tasks
      /\ \A u \in Requests : Told(x)[u].buffers = client[u].buffers
      /\ reply'[x] # reply[x] =>
           /\ Told(x)[x].owed = client[x].owed - 1 /\ Told(x)[x].pushed = 0
  BY <1>1, <1>2, ToldTyped
<1> HIDE DEF Told
<1>4. ClientsTyped(client', backlog) /\ (Up' => client' = Told(x))
  BY <1>3, AfterTyped
<1>5. ServerTyped'
  BY <1>1, <1>4 DEF ServerTyped
<1>6. ASSUME Running' PROVE Serves
  <2>1. Up' /\ client' = Told(x) /\ Answers(x, a, y) /\ [Next]_vars
    BY <1>4, <1>6 DEF Running, Up
  <2>2. reply \in [Requests -> Replies]
    BY <1>1 DEF Serving, IInv, TypeOK
  <2>3. /\ reply' = [reply EXCEPT ![x] = a] /\ reply'[x] = a /\ reply[x] = "wait"
        /\ ~Waiting(x)' /\ \A u \in Requests : u # x => (Waiting(u)' <=> Waiting(u))
    BY <1>1, <2>1, <2>2 DEF Answers, Waiting
  <2>4. Untouched(y)
    BY <1>1, <1>3, <2>1 DEF Untouched, Answers, Calls
  <2>5. batch' \subseteq ReadySources'
    BY <1>1, <2>4, BatchStays DEF Serving
  <2>6. ASSUME NEW u \in Requests PROVE Accounted(u)'
    <3>1. CASE u = x
      <4>0. reply'[x] # reply[x]
        BY <2>3
      <4>1. client'[x].owed = client[x].owed - 1 /\ client'[x].pushed = 0
            /\ client'[x].inbox = client[x].inbox /\ client'[x].peer = client[x].peer
            /\ client'[x].tasks = client[x].tasks /\ client'[x].buffers = client[x].buffers
            /\ client'[x].conn = "open"
        BY <1>1, <1>2, <1>3, <2>1, <4>0
      <4>2. Due(x) = 1 /\ Due(x)' = 0
        BY <1>1, <2>3 DEF Due
      <4>3. Len(client[x].inbox) \in Nat /\ client[x].owed = Len(client[x].inbox) + 1
        <5>1. client[x].inbox \in Seq(Messages)
          BY <1>1 DEF ServerTyped, ClientsTyped, ClientRecord
        <5> QED BY <1>2, <4>2, <5>1, LenProperties DEF Accounted
      <4>4. ClientFaults = {} => Polite(client'[x])
        BY <1>2, <4>1, <4>3 DEF Accounted, Polite
      <4>5. BindsSucceed => client'[x].buffers = BuffersOf(client'[x].tasks)
        BY <1>2, <4>1 DEF Accounted
      <4> HIDE DEF Due
      <4> QED BY <2>3, <3>1, <4>1, <4>2, <4>3, <4>4, <4>5 DEF Accounted
    <3>2. CASE u # x
      <4>1. client'[u] = client[u] /\ (Waiting(u)' <=> Waiting(u))
            /\ req'[u].hw_task = req[u].hw_task
        BY <1>3, <2>1, <2>3, <3>2 DEF Answers, TasksKept
      <4> QED BY <1>1, <4>1, AccountedStays DEF Serving
    <3> QED BY <3>1, <3>2
  <2> QED BY <2>1, <2>5, <2>6 DEF Serves
<1> QED BY <1>5, <1>6 DEF Serves

LEMMA DeliveriesAre ==
    ASSUME NEW r
    PROVE  /\ Deliveries(r) \subseteq BOOLEAN
           /\ ClientFaults = {} => Deliveries(r) = {Reachable(r)}
BY DEF Deliveries, Full, Reachable

\* The interrupt of a slot in the batch is really there.
LEMMA HandleSlotServes ==
    ASSUME ServerOwned, NEW s \in Slots, HandleSlot(s)
    PROVE  ServerTyped' /\ Serves
<1> DEFINE r == slot[s].exec_req
<1>0. PICK d \in Deliveries(r) : SlotHandler(s, d)
  BY DEF HandleSlot
<1>1. /\ Handle(SlotSrc(s)) /\ SlotHandler(s, d) /\ AfterHandler(Told(r))
      /\ Running /\ Up /\ Serving /\ SlotSrc(s) \in ReadySources /\ d \in BOOLEAN
  BY <1>0, DeliveriesAre DEF HandleSlot, Handle, Takes, ServerOwned, Serving, Running, Up
<1>2. hw[s].irq
  BY <1>1 DEF ReadySources, ClientSrc, SlotSrc, TimerSrc, DevcfgSrc, ListenerSrc
<1>3. /\ r \in Waiters
      /\ reply' = reply \/ reply' = [reply EXCEPT ![r] = "DONE"]
      /\ Up' => d /\ Answers(r, "DONE", SlotSrc(s))
  BY <1>1, <1>2, SlotAnswers DEF Serving
<1>4. Up' => Next
  <2>1. ASSUME Up' PROVE SlotComplete(s, TRUE)
    <3>1. d = TRUE
      BY <1>1, <1>3, <2>1
    <3> QED BY <1>1, <1>2, <3>1 DEF SlotComplete
  <2>2. TRUE \in Outcomes("notify")
    BY DEF Outcomes
  <2> QED BY <2>1, <2>2 DEF Next
<1> HIDE DEF r
<1>5. PICK x \in Waiters : x = r
  BY <1>3
<1>6. SlotSrc(s) \in {SlotSrc(s), TimerSrc(s)}
  OBVIOUS
<1> QED BY <1>1, <1>3, <1>4, <1>5, <1>6, AnswerServes

\* A watchdog that was disarmed after it expired ends the loop; no other does.
LEMMA HandleTimerServes ==
    ASSUME ServerOwned, NEW s \in Slots, HandleTimer(s)
    PROVE  ServerTyped' /\ Serves
<1> DEFINE r == timer[s].exec_req
<1>1. /\ Handle(TimerSrc(s)) /\ Running /\ Up /\ Serving /\ ServerTyped
      /\ backlog' = backlog /\ batch' \subseteq batch
  BY DEF HandleTimer, Handle, Takes, ServerOwned, Running, Up
<1>2. ASSUME NEW d \in Deliveries(r), SlotTimeout(s, d), AfterHandler(Told(r))
      PROVE  ServerTyped' /\ Serves
  <2>0. d \in BOOLEAN
    BY DeliveriesAre
  <2>1. /\ r \in Waiters
        /\ reply' = reply \/ reply' = [reply EXCEPT ![r] = "OVERRUN"]
        /\ Up' => d /\ Answers(r, "OVERRUN", TimerSrc(s))
    BY <1>1, <1>2, <2>0, TimerAnswers DEF Serving
  <2>2. Up' => Next
    <3>1. ASSUME Up' PROVE SlotTimeout(s, TRUE)
      <4>1. d = TRUE
        BY <2>0, <2>1, <3>1
      <4> QED BY <1>2, <4>1
    <3>2. TRUE \in Outcomes("notify")
      BY DEF Outcomes
    <3> QED BY <3>1, <3>2 DEF Next
  <2> HIDE DEF r
  <2>3. PICK x \in Waiters : x = r
    BY <2>1
  <2>4. TimerSrc(s) \in {SlotSrc(s), TimerSrc(s)}
    OBVIOUS
  <2> QED BY <1>1, <1>2, <2>1, <2>2, <2>3, <2>4, AnswerServes
<1>3. CASE status' = "down" /\ AfterHandler(client)
  <2>1. ClientsTyped(client', backlog) /\ ~Running'
    BY <1>1, <1>3, AfterTyped DEF Running, ServerTyped
  <2> QED BY <1>1, <2>1 DEF ServerTyped, Serves
<1> QED BY <1>2, <1>3 DEF HandleTimer

\* A step that changes no client and no event but y's.
LEMMA NoClientServes ==
    ASSUME ServerOwned, NEW y, Takes(y), Up' => client' = client /\ [Next]_vars /\ Untouched(y),
           Up' => reply' = reply /\ TasksKept
    PROVE  Serves
<1> SUFFICES ASSUME Running'
             PROVE  /\ batch' \subseteq ReadySources'
                    /\ \A u \in Requests : Accounted(u)'
  BY DEF Serves, Running, Up
<1>1. /\ Running /\ Serving /\ y \in ReadySources /\ batch' = batch \ {y}
      /\ client' = client /\ Untouched(y) /\ reply' = reply /\ TasksKept
  BY DEF ServerOwned, Takes, Serving, Running, Up
<1>2. batch' \subseteq ReadySources'
  BY <1>1, BatchStays DEF Serving
<1>3. ASSUME NEW u \in Requests PROVE Accounted(u)'
  <2>1. client'[u] = client[u] /\ (Waiting(u)' <=> Waiting(u))
        /\ req'[u].hw_task = req[u].hw_task
    BY <1>1 DEF Waiting, TasksKept
  <2> QED BY <1>1, <2>1, AccountedStays DEF Serving
<1> QED BY <1>2, <1>3

LEMMA HandleDevcfgServes ==
    ASSUME ServerOwned, HandleDevcfg
    PROVE  ServerTyped' /\ Serves
<1>1. /\ Takes(DevcfgSrc) /\ backlog' = backlog /\ RcfgComplete /\ AfterHandler(client)
      /\ Running /\ Up /\ Serving /\ ServerTyped /\ batch' \subseteq batch
  BY DEF HandleDevcfg, Handle, Takes, ServerOwned, Running, Up
<1>2. ClientsTyped(client', backlog) /\ (Up' => client' = client)
  BY <1>1, AfterTyped DEF ServerTyped
<1>3. ServerTyped'
  BY <1>1, <1>2 DEF ServerTyped
<1>4. ASSUME Up'
      PROVE  /\ client' = client /\ [Next]_vars /\ Untouched(DevcfgSrc)
             /\ reply' = reply /\ TasksKept
  <2>1. (\A s \in Slots : SlotKept(s)) /\ req' = req /\ reply' = reply
    BY <1>1, <1>4, RcfgKeeps DEF Serving
  <2>2. Untouched(DevcfgSrc)
    BY <1>1, <1>2, <1>4, <2>1 DEF Untouched, Calls
  <2> QED BY <1>1, <1>2, <1>4, <2>1, <2>2 DEF TasksKept, Next
<1> QED BY <1>1, <1>3, <1>4, NoClientServes

\* The listener accepts the oldest connection, or aborts.
LEMMA HandleListenerServes ==
    ASSUME ServerOwned, HandleListener
    PROVE  ServerTyped' /\ Serves
<1> HIDE DEF ClientRecord
<1>1. /\ Takes(ListenerSrc) /\ Running /\ Up /\ Serving /\ ServerTyped
      /\ ListenerSrc \in ReadySources /\ batch' = batch \ {ListenerSrc}
  BY DEF HandleListener, Takes, ServerOwned, Serving, Running, Up
<1>2. /\ client \in [Requests -> ClientRecord]
      /\ \A u \in Requests : Len(client[u].tasks) <= MaxBind /\ Len(client[u].inbox) <= MaxInbox
      /\ \A u \in Requests : client[u].conn = "backlog" <=> Member(u, backlog)
      /\ backlog \in Seq(Requests) /\ Distinct(backlog) /\ batch \subseteq Sources
  BY <1>1 DEF ServerTyped, ClientsTyped
<1>3. CASE /\ client' = [client EXCEPT ![Head(backlog)].conn = "open"]
           /\ backlog' = Tail(backlog)
           /\ UNCHANGED vars
  <2>1. backlog # <<>>
    BY <1>1 DEF ReadySources, ClientSrc, SlotSrc, TimerSrc, DevcfgSrc, ListenerSrc
  <2> DEFINE r == Head(backlog)
  <2>2. /\ r \in Requests /\ Member(r, backlog)
        /\ Len(backlog) \in Nat /\ 1 \in 1..Len(backlog) /\ r = backlog[1]
    <3>1. Len(backlog) \in Nat /\ Len(backlog) # 0 /\ r = backlog[1] /\ r \in Requests
      BY <1>2, <2>1, HeadTailProperties, LenProperties, EmptySeq
    <3> QED BY <3>1 DEF Member
  <2>3. /\ backlog' \in Seq(Requests \ {r}) /\ Distinct(backlog')
        /\ Len(backlog') = Len(backlog) - 1
        /\ \A i \in 1..Len(backlog') : backlog'[i] = backlog[i + 1]
        /\ \A u : Member(u, backlog) /\ u # r => Member(u, backlog')
    BY <1>2, <1>3, <2>1, HeadOff
  <2>4. client[r].conn = "backlog" /\ client[r] \in ClientRecord
    BY <1>2, <2>2
  <2>5. client' = [client EXCEPT ![r] = [client[r] EXCEPT !.conn = "open"]]
    BY <1>2, <1>3, <2>2
  <2> DEFINE n == [client[r] EXCEPT !.conn = "open"]
  <2>6. /\ n \in ClientRecord /\ n.conn = "open" /\ n.peer = client[r].peer
        /\ n.tasks = client[r].tasks /\ n.inbox = client[r].inbox /\ n.owed = client[r].owed
        /\ n.pushed = client[r].pushed /\ n.buffers = client[r].buffers
        /\ n.unread = client[r].unread
    BY <2>4 DEF ClientRecord
  <2>7. /\ client' \in [Requests -> ClientRecord] /\ client'[r] = n
        /\ \A u \in Requests : u # r => client'[u] = client[u]
    <3> HIDE DEF n, r
    <3> QED BY <1>2, <2>2, <2>5, <2>6 DEF n
  <2> HIDE DEF r, n
  <2>8. ASSUME NEW u \in Requests
        PROVE  /\ Len(client'[u].tasks) <= MaxBind /\ Len(client'[u].inbox) <= MaxInbox
               /\ client'[u].conn = "backlog" <=> Member(u, backlog')
    <3>1. CASE u = r
      <4>1. ~Member(r, backlog')
        <5>1. \A i \in 1..Len(backlog') : backlog'[i] # r
          BY <2>3
        <5> QED BY <5>1 DEF Member
      <4> QED BY <1>2, <2>6, <2>7, <3>1, <4>1
    <3>2. CASE u # r
      <4>1. Member(u, backlog') => Member(u, backlog)
        <5>1. \A i \in 1..Len(backlog') : i + 1 \in 1..Len(backlog)
          BY <2>2, <2>3
        <5> QED BY <2>3, <5>1 DEF Member
      <4> QED BY <1>2, <2>3, <2>7, <3>2, <4>1
    <3> QED BY <3>1, <3>2
  <2>9. ServerTyped'
    <3>1. backlog' \in Seq(Requests)
      BY <1>2, <1>3, <2>1, HeadTailProperties
    <3> QED BY <1>1, <1>2, <2>3, <2>7, <2>8, <3>1 DEF ServerTyped, ClientsTyped
  <2>10. ASSUME Running' PROVE Serves
    <3>1. Untouched(ListenerSrc)
      <4>1. \A u \in Requests : Calls(u) => Calls(u)'
        BY <2>4, <2>7 DEF Calls
      <4> QED BY <1>3, <4>1 DEF Untouched, SlotKept, vars, ListenerSrc, DevcfgSrc
    <3>2. batch' \subseteq ReadySources'
      BY <1>1, <3>1, BatchStays DEF Serving
    <3>3. ASSUME NEW u \in Requests PROVE Accounted(u)'
      <4>1. Accounted(u) /\ reply' = reply /\ req' = req
        BY <1>1, <1>3 DEF Serving, vars
      <4>2. CASE u = r
        BY <2>4, <2>6, <2>7, <4>1, <4>2 DEF Accounted, Polite, Due, Waiting
      <4>3. CASE u # r
        <5>1. client'[u] = client[u] /\ (Waiting(u)' <=> Waiting(u))
          BY <2>7, <4>1, <4>3 DEF Waiting
        <5> QED BY <4>1, <5>1, AccountedStays
      <4> QED BY <4>2, <4>3
    <3> QED BY <1>3, <3>2, <3>3 DEF Serves
  <2> QED BY <2>9, <2>10 DEF Serves
<1>4. CASE Abort /\ UNCHANGED <<client, backlog>>
  BY <1>1, <1>4 DEF Abort, ServerTyped, ClientsTyped, Serves, Running
<1> QED BY <1>3, <1>4 DEF HandleListener

\* A signal ends the event loop.
LEMMA HandleSignalServes ==
    ASSUME ServerOwned, HandleSignal
    PROVE  ServerTyped' /\ Serves
<1>1. ClientsTyped(client', backlog)
  BY AfterTyped DEF HandleSignal, ServerOwned, ServerTyped
<1> QED BY <1>1 DEF HandleSignal, ServerOwned, ServerTyped, Serves, Running

LEMMA PollServes == ASSUME ServerOwned, Poll PROVE ServerTyped' /\ Serves
<1>1. ReadySources \subseteq Sources
  BY DEF ReadySources, Sources
<1>2. Serving /\ UNCHANGED vars /\ client' = client /\ backlog' = backlog /\ batch' = ReadySources
  BY DEF Poll, ServerOwned
<1>3. batch' = ReadySources'
  BY <1>2 DEF ReadySources, vars
<1>4. ServerTyped'
  BY <1>1, <1>2 DEF ServerOwned, ServerTyped, ClientsTyped
<1>5. ASSUME NEW u \in Requests PROVE Accounted(u)'
  <2>1. client'[u] = client[u] /\ (Waiting(u)' <=> Waiting(u)) /\ req' = req
    BY <1>2 DEF Waiting, vars
  <2> QED BY <1>2, <2>1, AccountedStays DEF Serving
<1> QED BY <1>2, <1>3, <1>4, <1>5 DEF Serves

-----------------------------------------------------------------------------
(* The client processes and the hardware. *)

\* What a client does makes no source less ready.
LEMMA ClientServes ==
    ASSUME ServerOwned, NEW r \in Requests, NEW c, c \in ClientRecord, ClientStep(r, c),
           Calls(r) => c.conn = "open" /\ (c.inbox # <<>> \/ c.peer # "alive"),
           backlog # <<>> => backlog' # <<>>, Running' => Accounted(r)'
    PROVE  Serves
<1> SUFFICES ASSUME Running' PROVE Serves
  BY DEF Serves
<1>1. /\ Running /\ Serving /\ ServerTyped /\ client \in [Requests -> ClientRecord]
      /\ client' = [client EXCEPT ![r] = c] /\ UNCHANGED vars /\ batch' = batch
  BY DEF ClientStep, ServerOwned, ServerTyped, ClientsTyped
<1>2. client'[r] = c /\ \A u \in Requests : u # r => client'[u] = client[u]
  BY <1>1
<1>3. Untouched(SignalSrc)
  <2>1. \A u \in Requests : Calls(u) => Calls(u)'
    BY <1>2 DEF Calls
  <2> QED BY <1>1, <2>1 DEF Untouched, SlotKept, vars
<1>4. batch' = batch \ {SignalSrc}
  BY <1>1 DEF ServerTyped, Sources, SlotSrc, TimerSrc, ClientSrc, DevcfgSrc, ListenerSrc, SignalSrc
<1>5. batch' \subseteq ReadySources'
  BY <1>1, <1>3, <1>4, BatchStays DEF Serving
<1>6. ASSUME NEW u \in Requests PROVE Accounted(u)'
  <2>1. (Waiting(u)' <=> Waiting(u)) /\ req' = req
    BY <1>1 DEF vars, Waiting
  <2> QED BY <1>1, <1>2, <2>1, AccountedStays DEF Serving
<1> QED BY <1>1, <1>5, <1>6 DEF Serves

\* A connection is queued for the listener.
LEMMA ConnectServes ==
    ASSUME ServerOwned, NEW r \in Requests, Connect(r)
    PROVE  ServerTyped' /\ Serves
<1> HIDE DEF ClientRecord, Messages
<1> DEFINE n == NoClient(client[r].buffers)
           c == [n EXCEPT !.conn = "backlog"]
<1>1. /\ ClientStep(r, c) /\ backlog' = Append(backlog, r) /\ client[r].conn = "absent"
      /\ Running /\ Serving /\ ServerTyped /\ Accounted(r)
      /\ client' = [client EXCEPT ![r] = c] /\ UNCHANGED vars /\ batch' = batch
  BY DEF Connect, ClientStep, ServerOwned, Serving
<1>2. /\ client \in [Requests -> ClientRecord]
      /\ \A u \in Requests : Len(client[u].tasks) <= MaxBind /\ Len(client[u].inbox) <= MaxInbox
      /\ \A u \in Requests : client[u].conn = "backlog" <=> Member(u, backlog)
      /\ backlog \in Seq(Requests) /\ Distinct(backlog) /\ batch \subseteq Sources
  BY <1>1 DEF ServerTyped, ClientsTyped
<1>3. /\ n \in ClientRecord /\ n.peer = "alive" /\ n.tasks = <<>> /\ n.inbox = <<>>
      /\ n.owed = 0 /\ n.pushed = 0 /\ n.buffers = client[r].buffers /\ ~n.unread
  <2>1. client[r].buffers \in SUBSET (Nat \X Nat)
    BY <1>2 DEF ClientRecord
  <2> QED BY <2>1 DEF NoClient, ClientRecord
<1> HIDE DEF n
<1>4. /\ c \in ClientRecord /\ c.conn = "backlog" /\ c.peer = "alive" /\ c.tasks = <<>>
      /\ c.inbox = <<>> /\ c.owed = 0 /\ c.pushed = 0 /\ c.buffers = client[r].buffers
      /\ ~c.unread
  BY <1>3 DEF ClientRecord
<1> HIDE DEF c
<1>5. /\ client' \in [Requests -> ClientRecord] /\ client'[r] = c
      /\ \A u \in Requests : u # r => client'[u] = client[u]
  BY <1>1, <1>2, <1>4
<1>6. /\ backlog' \in Seq(Requests) /\ Len(backlog') = Len(backlog) + 1 /\ Len(backlog) \in Nat
      /\ \A i \in 1..Len(backlog) : backlog'[i] = backlog[i]
      /\ backlog'[Len(backlog) + 1] = r
  BY <1>1, <1>2, AppendProperties, LenProperties
<1>7. \A u \in Requests : Member(u, backlog') <=> (Member(u, backlog) \/ u = r)
  BY <1>6 DEF Member
<1>8. Distinct(backlog')
  <2>1. \A i \in 1..Len(backlog) : backlog[i] # r
    BY <1>1, <1>2 DEF Member
  <2>2. \A i \in 1..Len(backlog') : i \in 1..Len(backlog) \/ i = Len(backlog) + 1
    BY <1>6
  <2>3. \A i, j \in 1..Len(backlog) : backlog'[i] = backlog'[j] => i = j
    BY <1>2, <1>6 DEF Distinct
  <2>4. \A i \in 1..Len(backlog) : backlog'[i] # r
    BY <1>6, <2>1
  <2> QED BY <1>6, <2>2, <2>3, <2>4 DEF Distinct
<1>9. ASSUME NEW u \in Requests
      PROVE  /\ Len(client'[u].tasks) <= MaxBind /\ Len(client'[u].inbox) <= MaxInbox
             /\ client'[u].conn = "backlog" <=> Member(u, backlog')
  <2>1. Len(<<>>) = 0 /\ 0 <= MaxBind /\ 0 <= MaxInbox
    BY ServerConstantsOK
  <2> QED BY <1>2, <1>4, <1>5, <1>7, <2>1
<1>10. ServerTyped'
  BY <1>1, <1>2, <1>5, <1>6, <1>8, <1>9 DEF ServerTyped, ClientsTyped
<1>11. ASSUME Running' PROVE Accounted(r)'
  <2>1. ~Waiting(r)
    BY <1>1 DEF Running, Corrupt
  <2>2. Len(<<>>) = 0
    OBVIOUS
  <2>3. client[r].tasks = <<>>
    BY <1>1 DEF Accounted
  <2> QED BY <1>1, <1>4, <1>5, <2>1, <2>2, <2>3 DEF Accounted, Due, Waiting, vars, Polite
<1>12. backlog' # <<>>
  BY <1>6
<1>13. ~Calls(r)
  BY <1>1 DEF Calls
<1> QED BY <1>1, <1>4, <1>10, <1>11, <1>12, <1>13, ClientServes

\* The other client steps leave the backlog alone.
LEMMA ClientStepServes ==
    ASSUME ServerOwned, NEW r \in Requests, NEW c, c \in ClientRecord, ClientStep(r, c),
           UNCHANGED backlog, c.conn = client[r].conn, c.tasks = client[r].tasks,
           c.pushed = client[r].pushed, c.buffers = client[r].buffers,
           Len(c.inbox) <= MaxInbox, client[r].inbox # <<>> => c.inbox # <<>>,
           client[r].peer # "alive" => c.peer # "alive",
           client[r].conn # "absent" /\ Accounted(r) => c.owed = Len(c.inbox) + Due(r),
           client[r].conn # "absent" /\ Accounted(r) /\ ClientFaults = {} => Polite(c)
    PROVE  ServerTyped' /\ Serves
<1> HIDE DEF ClientRecord
<1>1. /\ Running /\ Serving /\ ServerTyped /\ Accounted(r) /\ ClientsTyped(client, backlog)
      /\ client' = [client EXCEPT ![r] = c] /\ UNCHANGED vars /\ batch' = batch
      /\ backlog' = backlog
  BY DEF ClientStep, ServerOwned, Serving, ServerTyped
<1>2. Len(c.tasks) <= MaxBind
  BY <1>1 DEF ClientsTyped
<1>3. ClientsTyped(client', backlog) /\ client'[r] = c
  <2> DEFINE cl == [client EXCEPT ![r] = c]
  <2>1. ClientsTyped(cl, backlog) /\ cl[r] = c
    <3>1. c.conn = "backlog" <=> client[r].conn = "backlog"
      OBVIOUS
    <3>2. Len(c.inbox) <= MaxInbox /\ c \in ClientRecord /\ ClientsTyped(client, backlog)
      BY <1>1
    <3> HIDE DEF Due, Polite
    <3> QED BY <1>2, <3>1, <3>2, UpdateTyped
  <2> HIDE DEF cl
  <2>2. client' = cl
    BY <1>1 DEF cl
  <2> QED BY <2>1, <2>2
<1>4. ServerTyped'
  BY <1>1, <1>3 DEF ServerTyped
<1>5. Accounted(r)'
  <2>1. (Waiting(r)' <=> Waiting(r)) /\ Due(r)' = Due(r) /\ req' = req
    BY <1>1 DEF Waiting, Due, vars
  <2> HIDE DEF Due
  <2> QED BY <1>1, <1>3, <2>1 DEF Accounted
<1>6. Serves
  BY <1>1, <1>5, ClientServes DEF Calls
<1> QED BY <1>4, <1>6

\* One more message sent is one more answer owed.
LEMMA SendServes ==
    ASSUME ServerOwned, NEW r \in Requests, NEW m \in Messages, Send(r, m)
    PROVE  ServerTyped' /\ Serves
<1> HIDE DEF ClientRecord, Messages
<1> DEFINE q == Append(client[r].inbox, m)
           c == [client[r] EXCEPT !.inbox = q, !.owed = @ + 1]
<1>1. /\ ClientStep(r, c) /\ UNCHANGED backlog
      /\ client[r].conn # "absent" /\ client[r].peer = "alive"
      /\ Len(client[r].inbox) < MaxInbox
      /\ "pipelining" \in ClientFaults \/ (client[r].owed = 0 /\ ~client[r].unread)
  BY DEF Send
<1>2. client[r] \in ClientRecord
  BY DEF ServerOwned, ServerTyped, ClientsTyped
<1>3. client[r].inbox \in Seq(Messages) /\ client[r].owed \in Nat
  BY <1>2 DEF ClientRecord
<1>4. /\ q \in Seq(Messages) /\ Len(q) = Len(client[r].inbox) + 1
      /\ Len(client[r].inbox) \in Nat /\ q # <<>>
  BY <1>3, AppendProperties, LenProperties
<1> HIDE DEF q
<1>5. /\ c \in ClientRecord /\ c.conn = client[r].conn /\ c.peer = client[r].peer
      /\ c.tasks = client[r].tasks /\ c.pushed = client[r].pushed
      /\ c.buffers = client[r].buffers /\ c.inbox = q /\ c.owed = client[r].owed + 1
      /\ c.unread = client[r].unread
  <2>1. client[r].owed + 1 \in Nat
    BY <1>3
  <2> QED BY <1>2, <1>4, <2>1 DEF ClientRecord
<1> HIDE DEF c
<1>6. MaxInbox \in Nat /\ Due(r) \in 0..1
  BY ServerConstantsOK DEF Due
<1> HIDE DEF Due
<1>7. Accounted(r) => c.owed = Len(c.inbox) + Due(r)
  BY <1>1, <1>3, <1>4, <1>5, <1>6 DEF Accounted
<1>8. ClientFaults = {} => Polite(c)
  BY <1>1, <1>5 DEF Polite
<1>9. Len(c.inbox) <= MaxInbox
  BY <1>1, <1>4, <1>5, <1>6
<1> QED BY <1>1, <1>4, <1>5, <1>7, <1>8, <1>9, ClientStepServes

LEMMA ReadReplyServes ==
    ASSUME ServerOwned, NEW r \in Requests, ReadReply(r)
    PROVE  ServerTyped' /\ Serves
<1> HIDE DEF Messages
<1> DEFINE c == [client[r] EXCEPT !.unread = FALSE]
<1>1. ClientStep(r, c) /\ UNCHANGED backlog
  BY DEF ReadReply
<1>2. client[r] \in ClientRecord /\ Len(client[r].inbox) <= MaxInbox
  BY DEF ServerOwned, ServerTyped, ClientsTyped
<1>3. /\ c \in ClientRecord /\ c.conn = client[r].conn /\ c.peer = client[r].peer
      /\ c.tasks = client[r].tasks /\ c.pushed = client[r].pushed
      /\ c.buffers = client[r].buffers /\ c.inbox = client[r].inbox
      /\ c.owed = client[r].owed /\ ~c.unread
  BY <1>2 DEF ClientRecord
<1> HIDE DEF c, ClientRecord
<1>4. client[r].conn # "absent" /\ Accounted(r) /\ ClientFaults = {} => Polite(c)
  BY <1>3 DEF Accounted, Polite
<1> QED BY <1>1, <1>2, <1>3, <1>4, ClientStepServes DEF Accounted

LEMMA DisconnectServes ==
    ASSUME ServerOwned, NEW r \in Requests, Disconnect(r)
    PROVE  ServerTyped' /\ Serves
<1> HIDE DEF Messages
<1> DEFINE p == IF client[r].unread THEN "reset" ELSE "closed"
           c == [client[r] EXCEPT !.peer = p]
<1>1. /\ ClientStep(r, c) /\ UNCHANGED backlog
      /\ "crash" \in ClientFaults \/ (client[r].owed = 0 /\ ~client[r].unread)
  BY DEF Disconnect
<1>2. client[r] \in ClientRecord /\ Len(client[r].inbox) <= MaxInbox
  BY DEF ServerOwned, ServerTyped, ClientsTyped
<1>3. /\ c \in ClientRecord /\ c.conn = client[r].conn /\ c.peer = p
      /\ c.tasks = client[r].tasks /\ c.pushed = client[r].pushed
      /\ c.buffers = client[r].buffers /\ c.inbox = client[r].inbox
      /\ c.owed = client[r].owed /\ c.unread = client[r].unread
  BY <1>2 DEF ClientRecord
<1>4. p # "alive" /\ (~client[r].unread => p = "closed")
  OBVIOUS
<1> HIDE DEF c, p, ClientRecord
<1>5. ClientFaults = {} => Polite(c)
  BY <1>1, <1>3, <1>4 DEF Polite
<1> QED BY <1>1, <1>2, <1>3, <1>4, <1>5, ClientStepServes DEF Accounted

\* The hardware and the timers only add events.
LEMMA EnvironmentServes ==
    ASSUME ServerOwned, Environment
    PROVE  ServerTyped' /\ Serves
<1>1. /\ Running /\ Up /\ Serving /\ ServerTyped /\ IInv
      /\ client' = client /\ backlog' = backlog /\ batch' = batch
  BY DEF Environment, serverVars, ServerOwned, Serving, Running, Up
<1>2. ServerTyped'
  BY <1>1 DEF ServerTyped, ClientsTyped
<1>3. hw \in [Slots -> HwRecord] /\ timer \in [Slots -> TimerRecord]
  BY <1>1 DEF IInv, TypeOK
<1>4. /\ Next /\ reply' = reply /\ req' = req
      /\ \A s \in Slots : SlotKept(s)
      /\ devcfg.drv = "done" => devcfg'.drv = "done"
  <2>1. ASSUME NEW s \in Slots, AccelDone(s)
        PROVE  /\ Next /\ reply' = reply /\ req' = req
               /\ \A u \in Slots : SlotKept(u)
               /\ devcfg.drv = "done" => devcfg'.drv = "done"
    <3>1. \A u \in Slots : hw[u].irq => hw'[u].irq
      BY <1>3, <2>1 DEF AccelDone, HwRecord
    <3> QED BY <2>1, <3>1 DEF AccelDone, SlotKept, Next
  <2>2. ASSUME NEW s \in Slots, TimerExpire(s)
        PROVE  /\ Next /\ reply' = reply /\ req' = req
               /\ \A u \in Slots : SlotKept(u)
               /\ devcfg.drv = "done" => devcfg'.drv = "done"
    <3>1. \A u \in Slots : timer[u].state = "expired" => timer'[u].state = "expired"
      BY <1>3, <2>2 DEF TimerExpire, TimerRecord
    <3> QED BY <2>2, <3>1 DEF TimerExpire, SlotKept, Next
  <2>3. CASE RcfgDone
    <3>1. \A u \in Slots : hw[u].irq => hw'[u].irq
      BY <1>3, <2>3 DEF RcfgDone, HwRecord
    <3> QED BY <2>3, <3>1 DEF RcfgDone, SlotKept, Next
  <2> QED BY <2>1, <2>2, <2>3 DEF Environment
<1>5. ASSUME Running' PROVE Serves
  <2>1. Untouched(SignalSrc)
    BY <1>1, <1>4 DEF Untouched, Calls
  <2>2. batch' = batch \ {SignalSrc}
    BY <1>1 DEF ServerTyped, Sources, SlotSrc, TimerSrc, ClientSrc, DevcfgSrc, ListenerSrc, SignalSrc
  <2>3. batch' \subseteq ReadySources'
    BY <1>1, <2>1, <2>2, BatchStays DEF Serving
  <2>4. ASSUME NEW u \in Requests PROVE Accounted(u)'
    <3>1. client'[u] = client[u] /\ (Waiting(u)' <=> Waiting(u))
      BY <1>1, <1>4 DEF Waiting
    <3> QED BY <1>1, <1>4, <3>1, AccountedStays DEF Serving
  <2> QED BY <1>4, <2>3, <2>4 DEF Serves
<1> QED BY <1>2, <1>5 DEF Serves

-----------------------------------------------------------------------------
(* Every step, and the theorems.                                            *)

LEMMA ServerStep ==
    ASSUME ServerOwned, ServerNext
    PROVE  ServerTyped' /\ (Running => Serves)
<1>1. ASSUME NEW s \in Slots, HandleSlot(s) \/ HandleTimer(s) PROVE ServerTyped' /\ Serves
  BY <1>1, HandleSlotServes, HandleTimerServes
<1>2. ASSUME NEW r \in Requests,
             HandleInit(r) \/ HandleRefused(r) \/ HandleBind(r) \/ HandleRun(r) \/ HandleHangup(r)
      PROVE  ServerTyped' /\ Serves
  BY <1>2, HandleInitServes, HandleRefusedServes, HandleBindServes, HandleRunServes,
     HandleHangupServes
<1>3. ASSUME NEW r \in Requests, Connect(r) \/ ReadReply(r) \/ Disconnect(r)
      PROVE  ServerTyped' /\ Serves
  BY <1>3, ConnectServes, ReadReplyServes, DisconnectServes
<1>4. ASSUME NEW r \in Requests, NEW m \in Messages, Send(r, m) PROVE ServerTyped' /\ Serves
  BY <1>4, SendServes
<1>5. CASE Ended
  BY <1>5 DEF Ended, allVars, ServerOwned, ServerTyped, ClientsTyped
<1> QED BY <1>1, <1>2, <1>3, <1>4, <1>5, PollServes, HandleDevcfgServes, HandleListenerServes,
           HandleSignalServes, EnvironmentServes DEF ServerNext

\* A server that has stopped, or whose lists are corrupt, does nothing more.
LEMMA StoppedStays == ASSUME ServerNext, ~Running PROVE UNCHANGED allVars
BY DEF ServerNext, Poll, HandleSlot, HandleTimer, HandleDevcfg, HandleListener, HandleSignal,
       HandleInit, HandleRefused, HandleBind, HandleRun, HandleHangup, Receives, Handle, Takes,
       Connect, ReadReply, Disconnect, Send, ClientStep, Environment, Ended

LEMMA ServerKeeps ==
    ASSUME RaceFree, ServerOwned, [ServerNext]_allVars
    PROVE  ServerOwned'
<1>1. CASE UNCHANGED allVars
  <2>1. UNCHANGED vars /\ client' = client /\ backlog' = backlog /\ batch' = batch
    BY <1>1 DEF allVars
  <2>2. ServerTyped' /\ (Running' <=> Running)
    BY <2>1 DEF ServerOwned, ServerTyped, ClientsTyped, Running, Corrupt, Waiting, vars
  <2>3. ASSUME Running PROVE Serving'
    <3>1. Serving
      BY <2>3 DEF ServerOwned
    <3>2. IInv' /\ Owned'
      BY <2>1, <3>1, NextKeepsIInv, NextKeepsOwned DEF Serving
    <3>3. batch' \subseteq ReadySources'
      BY <2>1, <3>1 DEF Serving, ReadySources, vars
    <3>4. ASSUME NEW u \in Requests PROVE Accounted(u)'
      <4>1. client'[u] = client[u] /\ (Waiting(u)' <=> Waiting(u)) /\ req' = req
        BY <2>1 DEF Waiting, vars
      <4> QED BY <3>1, <4>1, AccountedStays DEF Serving
    <3> QED BY <3>2, <3>3, <3>4 DEF Serving
  <2> QED BY <2>2, <2>3 DEF ServerOwned
<1>2. CASE ServerNext /\ Running
  <2>1. ServerTyped' /\ Serves /\ Serving
    BY <1>2, ServerStep DEF ServerOwned
  <2>2. ASSUME Running' PROVE Serving'
    <3>1. [Next]_vars /\ batch' \subseteq ReadySources' /\ \A r \in Requests : Accounted(r)'
      BY <2>1, <2>2 DEF Serves
    <3>2. IInv' /\ Owned'
      BY <2>1, <3>1, NextKeepsIInv, NextKeepsOwned DEF Serving
    <3> QED BY <3>1, <3>2 DEF Serving
  <2> QED BY <2>1, <2>2 DEF ServerOwned
<1> QED BY <1>1, <1>2, StoppedStays

LEMMA ServerInitOwned == ServerInit => ServerOwned
<1> SUFFICES ASSUME ServerInit PROVE ServerOwned
  OBVIOUS
<1>1. Init /\ client = [r \in Requests |-> NoClient({})] /\ backlog = <<>> /\ batch = {}
  BY DEF ServerInit
<1>2. IInv /\ Owned
  BY <1>1, InitIInv, InitOwned
<1> DEFINE n == NoClient({})
<1>3. /\ n \in ClientRecord /\ n.conn = "absent" /\ n.tasks = <<>> /\ n.inbox = <<>>
      /\ n.pushed = 0 /\ n.buffers = {}
  <2>1. <<>> \in Seq(HwTasks) /\ <<>> \in Seq(Messages) /\ {} \in SUBSET (Nat \X Nat)
    OBVIOUS
  <2> HIDE DEF Messages
  <2> QED BY <2>1 DEF NoClient, ClientRecord
<1> HIDE DEF n, ClientRecord
<1>4. client = [r \in Requests |-> n]
  BY <1>1 DEF n
<1>5. ServerTyped
  <2>1. Len(<<>>) = 0 /\ 0 <= MaxBind /\ 0 <= MaxInbox /\ <<>> \in Seq(Requests)
    BY ServerConstantsOK
  <2>2. Distinct(<<>>) /\ \A r \in Requests : ~Member(r, <<>>)
    BY DEF Distinct, Member
  <2>3. ClientsTyped(client, <<>>)
    BY <1>3, <1>4, <2>1, <2>2 DEF ClientsTyped
  <2> QED BY <1>1, <2>1, <2>2, <2>3 DEF ServerTyped
<1>6. ASSUME NEW r \in Requests PROVE Accounted(r)
  <2>1. ~Waiting(r) /\ client[r] = n
    BY <1>1, <1>4 DEF Init, Waiting
  <2>2. BuffersOf(<<>>) = {}
    BY DEF BuffersOf
  <2> QED BY <1>3, <2>1, <2>2 DEF Accounted, Due
<1> QED BY <1>1, <1>2, <1>5, <1>6 DEF ServerOwned, Serving

\* Whatever clients and system do, as long as no completion meets the expiry of its
\* watchdog, the server is ServerOwned.
THEOREM ServerInvariant == ASSUME RaceFree PROVE ServerSpec => []ServerOwned
<1>1. ServerOwned /\ [ServerNext]_allVars => ServerOwned'
  BY ServerKeeps
<1> QED BY <1>1, ServerInitOwned, PTL DEF ServerSpec

\* Type correctness of the server: sessions, sockets, the listener's backlog and the
\* reactor's batch, also once the server has stopped.
THEOREM ServerTypes == ASSUME RaceFree PROVE ServerSpec => []ServerTypeOK
<1>1. ASSUME ServerOwned PROVE ServerTypeOK
  <2>1. ASSUME NEW r \in Requests PROVE Member(r, backlog) <=> r \in ToSet(backlog)
    <3>1. backlog \in Seq(Requests) /\ DOMAIN backlog = 1..Len(backlog)
      BY <1>1 DEF ServerOwned, ServerTyped
    <3> QED BY <3>1 DEF Member, ToSet
  <2> HIDE DEF ClientRecord
  <2> QED BY <1>1, <2>1 DEF ServerOwned, ServerTyped, ClientsTyped, ServerTypeOK
<1> QED BY <1>1, ServerInvariant, PTL

\* No message is lost or answered twice by process_msg_ or the scheduler's notifications,
\* not even those of clients that pipeline or crash.
THEOREM AnsweredOnce == ASSUME RaceFree PROVE ServerSpec => []OneReplyPerMessage
<1>1. ServerOwned => OneReplyPerMessage
  BY DEF ServerOwned, Serving, Accounted, Due, OneReplyPerMessage
<1> QED BY <1>1, ServerInvariant, PTL

\* While no bind fails, no data buffer leaks when a client goes and none is freed
\* under a request that runs on it.
THEOREM NoBufferLeaks ==
    ASSUME RaceFree, BindsSucceed
    PROVE  ServerSpec => []BuffersOwned
<1>1. ServerOwned => BuffersOwned
  BY DEF ServerOwned, Serving, Accounted, BuffersOwned
<1> QED BY <1>1, ServerInvariant, PTL

-----------------------------------------------------------------------------
(* Clients that follow the protocol. Then nothing stops the server, and it  *)
(* does nothing but steps of FredScheduler.                                 *)

Cooperative ==
    /\ RaceFree /\ Faults = {}
    /\ ClientFaults = {} /\ ServerFaults \subseteq {"alloc"}

\* A client the server owes something still reads its socket, and one with a message
\* in it has no request in the scheduler.
LEMMA ClientsListen ==
    ASSUME Cooperative, ServerOwned, Running, NEW r \in Requests
    PROVE  /\ client[r].conn = "open" /\ client[r].inbox # <<>> => Reachable(r) /\ ~Waiting(r)
           /\ Waiting(r) => client[r].conn = "open" /\ Reachable(r)
           /\ client[r].conn = "open" => client[r].peer # "reset"
           /\ client[r].conn = "open" /\ client[r].peer = "closed" => ~Waiting(r)
           /\ client[r].pushed = Due(r)
<1>1. /\ client[r] \in ClientRecord /\ Accounted(r) /\ ServerTyped
      /\ Waiting(r) => client[r].conn = "open"
  BY DEF ServerOwned, ServerTyped, ClientsTyped, Serving, Running, Corrupt
<1>2. client[r].inbox \in Seq(Messages) /\ client[r].peer \in {"alive", "closed", "reset"}
  BY <1>1 DEF ClientRecord
<1> HIDE DEF Messages
<1>3. /\ Len(client[r].inbox) \in Nat
      /\ client[r].inbox # <<>> => Len(client[r].inbox) > 0
  BY <1>2, LenProperties, EmptySeq
<1>4. ASSUME client[r].conn = "open"
      PROVE  /\ client[r].owed = Len(client[r].inbox) + Due(r)
             /\ client[r].peer # "reset" /\ client[r].owed <= 1
             /\ client[r].peer = "closed" => client[r].owed = 0
  BY <1>1, <1>4 DEF Accounted, Polite, Cooperative
<1>5. (Waiting(r) => Due(r) = 1) /\ (~Waiting(r) => Due(r) = 0)
  BY DEF Due
<1> HIDE DEF Due
<1> QED BY <1>1, <1>2, <1>3, <1>4, <1>5 DEF Reachable, Accounted

\* The scheduler's own steps do not stop it, and a client the scheduler knows stays.
LEMMA RunningStays ==
    ASSUME Cooperative, ServerOwned, Running, Up' \/ [Next]_vars,
           Up' => \A u \in Requests : /\ Waiting(u)' => client'[u].conn = "open"
                                      /\ client'[u].pushed \in 0..1
    PROVE  Running'
<1>1. Up'
  <2>1. CASE [Next]_vars
    <3>1. Owned'
      BY <2>1, NextKeepsOwned DEF ServerOwned, Serving, Cooperative
    <3> QED BY <3>1 DEF Owned, Cooperative
  <2> QED BY <2>1
<1>2. ~Corrupt'
  <2>1. ASSUME NEW u \in Requests
        PROVE  /\ ~(Waiting(u)' /\ client'[u].conn # "open")
               /\ ~(client'[u].pushed > 1)
    BY <1>1
  <2> QED BY <2>1 DEF Corrupt
<1>3. status' = "up"
  BY <1>1 DEF Up
<1> QED BY <1>2, <1>3 DEF Running

LEMMA HandlersRunOn ==
    ASSUME Cooperative, ServerOwned, Running, NEW s \in Slots,
           HandleSlot(s) \/ HandleTimer(s)
    PROVE  Running'
<1>1. /\ Up /\ IInv /\ Owned /\ ServerTyped /\ batch \subseteq ReadySources
      /\ \A u \in Requests : Accounted(u)
  BY DEF ServerOwned, Serving, Running, Up
<1>2. ASSUME NEW x \in Waiters, NEW a \in {"DONE", "OVERRUN"},
             reply' = reply \/ reply' = [reply EXCEPT ![x] = a],
             AfterHandler(Told(x)), Up'
      PROVE  \A u \in Requests : /\ Waiting(u)' => client'[u].conn = "open"
                                 /\ client'[u].pushed \in 0..1
  <2>0. x \in Requests /\ Waiting(x) /\ Accounted(x) /\ client[x].conn = "open"
    BY <1>1, <1>2, ClientsListen DEF Waiters
  <2>1. /\ ClientsTyped(Told(x), backlog)
        /\ \A u \in Requests : u # x => Told(x)[u] = client[u]
        /\ \A u \in Requests : Told(x)[u].conn = client[u].conn
        /\ reply'[x] # reply[x] => Told(x)[x].pushed = 0
    BY <1>1, <1>2, <2>0, ToldTyped
  <2>2. client' = Told(x)
    BY <1>2, <2>1, AfterTyped
  <2>3. Told(x)[x].pushed \in 0..1
    <3>1. reply'[x] = reply[x] => Told(x) = client
      BY DEF Told
    <3>2. client[x].pushed \in 0..1
      BY <2>0, ClientsListen DEF Due
    <3> QED BY <2>1, <3>1, <3>2
  <2> HIDE DEF Told
  <2>4. ASSUME NEW u \in Requests PROVE client'[u].pushed \in 0..1
    <3>1. client[u].pushed \in 0..1
      BY ClientsListen DEF Due
    <3> QED BY <2>1, <2>2, <2>3, <3>1
  <2>5. ASSUME NEW u \in Requests, Waiting(u)' PROVE client'[u].conn = "open"
    <3>1. Waiting(u)
      <4>1. reply \in [Requests -> Replies]
        BY <1>1 DEF IInv, TypeOK
      <4> QED BY <1>2, <2>0, <2>5, <4>1 DEF Waiting
    <3>2. client[u].conn = "open"
      BY <3>1, ClientsListen
    <3> QED BY <2>1, <2>2, <3>2
  <2> QED BY <2>4, <2>5
<1>3. CASE HandleSlot(s)
  <2> DEFINE r == slot[s].exec_req
             d == Reachable(r)
  <2>1. /\ SlotSrc(s) \in ReadySources /\ SlotHandler(s, d) /\ AfterHandler(Told(r))
        /\ d \in BOOLEAN
    <3>1. Deliveries(r) = {d}
      BY DeliveriesAre DEF Cooperative
    <3>2. \E x \in Deliveries(r) : SlotHandler(s, x)
      BY <1>3 DEF HandleSlot
    <3>3. SlotHandler(s, d)
      BY <3>1, <3>2
    <3> QED BY <1>1, <1>3, <3>3 DEF HandleSlot, Handle, Takes, Reachable
  <2>2. hw[s].irq
    BY <2>1 DEF ReadySources, ClientSrc, SlotSrc, TimerSrc, DevcfgSrc, ListenerSrc
  <2> HIDE DEF d
  <2>3. r \in Waiters /\ (reply' = reply \/ reply' = [reply EXCEPT ![r] = "DONE"])
    BY <1>1, <2>1, <2>2, SlotAnswers
  <2>4. d = TRUE
    BY <2>1, <2>3, ClientsListen DEF Waiters, d
  <2>5. Next
    <3>1. SlotComplete(s, TRUE) /\ TRUE \in Outcomes("notify")
      BY <2>1, <2>2, <2>4 DEF SlotComplete, Outcomes
    <3> QED BY <3>1 DEF Next
  <2> HIDE DEF r
  <2>6. PICK x \in Waiters : x = r
    BY <2>3
  <2> QED BY <1>2, <2>1, <2>3, <2>5, <2>6, RunningStays
<1>4. CASE HandleTimer(s)
  <2> DEFINE r == timer[s].exec_req
             d == Reachable(r)
  <2>1. TimerSrc(s) \in ReadySources /\ d \in BOOLEAN
    BY <1>1, <1>4 DEF HandleTimer, Handle, Takes, Reachable
  <2>2. timer[s].state = "expired"
    BY <2>1 DEF ReadySources, ClientSrc, SlotSrc, TimerSrc, DevcfgSrc, ListenerSrc
  <2>3. SlotTimeout(s, d) /\ AfterHandler(Told(r))
    <3>1. Deliveries(r) = {d}
      BY DeliveriesAre DEF Cooperative
    <3>2. (\E x \in Deliveries(r) : SlotTimeout(s, x)) /\ AfterHandler(Told(r))
      BY <1>4, <2>2 DEF HandleTimer
    <3> QED BY <3>1, <3>2
  <2> HIDE DEF d
  <2>4. r \in Waiters /\ (reply' = reply \/ reply' = [reply EXCEPT ![r] = "OVERRUN"])
    BY <1>1, <2>3, TimerAnswers
  <2>5. d = TRUE
    BY <2>1, <2>4, ClientsListen DEF Waiters, d
  <2>6. Next
    <3>1. SlotTimeout(s, TRUE) /\ TRUE \in Outcomes("notify")
      BY <2>3, <2>5 DEF Outcomes
    <3> QED BY <3>1 DEF Next
  <2> HIDE DEF r
  <2>7. PICK x \in Waiters : x = r
    BY <2>4
  <2> QED BY <1>2, <2>3, <2>4, <2>6, <2>7, RunningStays
<1> QED BY <1>3, <1>4

LEMMA ReplyRunsOn ==
    ASSUME Cooperative, ServerOwned, Running, NEW r \in Requests, Handle(ClientSrc(r)),
           client[r].inbox # <<>>, NEW c, Took(r, c), Reply(r, c)
    PROVE  Running'
<1> HIDE DEF ClientRecord, Messages
<1> DEFINE n == Answered(c)
           cl == [client EXCEPT ![r] = n]
<1>0. /\ client \in [Requests -> ClientRecord] /\ client[r].conn = "open"
      /\ client[r].owed = Len(client[r].inbox) + Due(r)
  BY ClientHandled
<1>1. Reachable(r) /\ ~Waiting(r) /\ client[r].pushed = 0 /\ Due(r) = 0
  <2>1. Reachable(r) /\ ~Waiting(r) /\ client[r].pushed = Due(r)
    BY <1>0, ClientsListen
  <2> QED BY <2>1 DEF Due
<1> HIDE DEF Due
<1>2. /\ status' = "up" /\ UNCHANGED vars /\ client' = cl
  BY <1>0, <1>1 DEF Reply, AfterHandler, vars, Running
<1>3. n.conn = "open" /\ n.pushed = client[r].pushed
  <2>1. c \in ClientRecord /\ c.conn = "open" /\ c.pushed = client[r].pushed /\ c.owed > 0
    <3>1. Len(client[r].inbox) \in Nat \ {0}
      BY InboxTyped DEF ServerOwned
    <3> QED BY <1>0, <1>1, <3>1 DEF Took
  <2> QED BY <2>1, AnsweredTyped
<1> HIDE DEF n
<1>4. client'[r] = n /\ \A u \in Requests : u # r => client'[u] = client[u]
  BY <1>0, <1>2
<1>5. ASSUME NEW u \in Requests
      PROVE  (Waiting(u)' => client'[u].conn = "open") /\ client'[u].pushed \in 0..1
  <2>1. /\ Waiting(u)' <=> Waiting(u)
        /\ Waiting(u) => client[u].conn = "open"
        /\ client[u].pushed \in 0..1
    BY <1>2, ClientsListen DEF Waiting, vars, Due
  <2> QED BY <1>1, <1>3, <1>4, <2>1
<1> QED BY <1>2, <1>5, RunningStays

\* A client without a request in the scheduler may change as it likes.
LEMMA ClientRunsOn ==
    ASSUME Cooperative, ServerOwned, Running, UNCHANGED vars, NEW r \in Requests,
           \A u \in Requests : u # r => client'[u] = client[u],
           Waiting(r) => client'[r].conn = client[r].conn,
           client'[r].pushed = client[r].pushed \/ client'[r].pushed = 0
    PROVE  Running'
<1>1. ASSUME NEW u \in Requests
      PROVE  (Waiting(u)' => client'[u].conn = "open") /\ client'[u].pushed \in 0..1
  <2>1. /\ Waiting(u)' <=> Waiting(u)
        /\ Waiting(u) => client[u].conn = "open"
        /\ client[u].pushed \in 0..1
    BY ClientsListen DEF Waiting, vars, Due
  <2> QED BY <2>1
<1> QED BY <1>1, RunningStays

LEMMA MessagesRunOn ==
    ASSUME Cooperative, ServerOwned, Running, NEW r \in Requests,
           HandleInit(r) \/ HandleRefused(r) \/ HandleBind(r)
    PROVE  Running'
<1> DEFINE c == Consumed(r)
           t == Message(r).task
           b == [c EXCEPT !.buffers = @ \cup Allocated(c, BufferCounts[t])]
<1>1. /\ Handle(ClientSrc(r)) /\ client[r].inbox # <<>>
      /\ HandleBind(r) => MayBind(client[r], t)
  BY DEF HandleInit, HandleRefused, HandleBind, Receives
<1>2. Accounted(r) /\ client[r].conn = "open" /\ ServerTyped
  BY <1>1, ClientHandled DEF ServerOwned
<1>3. ~Waiting(r)
  BY <1>1, <1>2, ClientsListen
<1>4. Took(r, c) /\ c \in ClientRecord
  BY <1>1, <1>2, ConsumedTook DEF Took
<1>0. ASSUME NEW x, Unwritten(r, x) PROVE FALSE
  BY <1>0 DEF Unwritten, Full, Cooperative
<1>5. CASE HandleRefused(r)
  BY <1>0, <1>1, <1>4, <1>5, ReplyRunsOn DEF HandleRefused
<1> HIDE DEF c
<1>6. CASE HandleInit(r)
  <2> DEFINE d == [c EXCEPT !.state = "READY"]
  <2>1. Reply(r, d)
    BY Zenon, <1>0, <1>6 DEF HandleInit, c
  <2>2. Took(r, d)
    BY <1>4 DEF Took, ClientRecord
  <2> HIDE DEF d
  <2> QED BY <1>1, <2>1, <2>2, ReplyRunsOn
<1>7. CASE HandleBind(r)
  <2>1. t \in HwTasks
    <3>1. Message(r) \in Messages
      BY <1>1, <1>2, InboxTyped
    <3> QED BY <1>1, <1>7, <3>1 DEF Messages, MayBind
  <2>2. c.tasks \in Seq(HwTasks) /\ Len(c.tasks) \in Nat /\ Len(c.tasks) < MaxBind
        /\ BufferCounts[t] \in Nat /\ MaxBind \in Nat
    <3>1. c.tasks = client[r].tasks
      BY <1>1, ConsumedFields DEF c
    <3> QED BY <1>1, <1>4, <1>7, <2>1, <3>1, ServerConstantsOK DEF MayBind, ClientRecord
  <2> HIDE DEF t
  <2>3. \A n \in Nat : Allocated(c, n) \in SUBSET (Nat \X Nat)
    BY <2>2 DEF Allocated
  <2>4. CASE Reply(r, IF Reachable(r) THEN [b EXCEPT !.tasks = Append(@, t)] ELSE b)
    <3>1. Reachable(r)
      BY <1>1, <1>2, ClientsListen
    <3> DEFINE q == Append(c.tasks, t)
               d == [b EXCEPT !.tasks = q]
    <3>2. /\ b \in ClientRecord /\ b.tasks = c.tasks /\ b.conn = c.conn /\ b.peer = c.peer
          /\ b.owed = c.owed /\ b.pushed = c.pushed /\ b.inbox = c.inbox
      <4>1. Allocated(c, BufferCounts[t]) \in SUBSET (Nat \X Nat)
        BY <2>2, <2>3
      <4> HIDE DEF Allocated
      <4> QED BY <1>4, <4>1 DEF ClientRecord
    <3>3. /\ q \in Seq(HwTasks) /\ Len(q) = Len(c.tasks) + 1
          /\ \A i \in 1..Len(c.tasks) : q[i] = c.tasks[i]
      BY <2>1, <2>2, AppendProperties
    <3>4. ToSet(c.tasks) \subseteq ToSet(q)
      <4> HIDE DEF q
      <4> QED BY <2>2, <3>3 DEF ToSet
    <3>5. Reply(r, d)
      BY <2>4, <3>1, <3>2
    <3> HIDE DEF b, q
    <3>6. /\ d \in ClientRecord /\ d.tasks = q /\ d.conn = c.conn /\ d.peer = c.peer
          /\ d.owed = c.owed /\ d.pushed = c.pushed /\ d.inbox = c.inbox
      BY <3>2, <3>3 DEF ClientRecord
    <3> HIDE DEF d
    <3>7. Took(r, d)
      BY <1>4, <2>2, <3>3, <3>4, <3>6 DEF Took
    <3> QED BY <1>1, <3>5, <3>7, ReplyRunsOn
  <2>5. ASSUME NEW n \in 0..(BufferCounts[t] - 1),
               Detach(r, [c EXCEPT !.buffers = @ \cup Allocated(c, n)])
        PROVE  Running'
    <3> DEFINE x == [c EXCEPT !.buffers = @ \cup Allocated(c, n)]
    <3>1. x \in ClientRecord /\ x.pushed = c.pushed
      <4>1. Allocated(c, n) \in SUBSET (Nat \X Nat)
        BY <2>2, <2>3
      <4> HIDE DEF Allocated
      <4> QED BY <1>4, <4>1 DEF ClientRecord
    <3> HIDE DEF x
    <3>2. FreeClient(x).pushed = client[r].pushed
      BY <1>4, <3>1, FreeTyped DEF Took
    <3>3. UNCHANGED vars /\ client' = [client EXCEPT ![r] = FreeClient(x)]
      BY <2>5 DEF Detach, x
    <3>4. client'[r] = FreeClient(x) /\ \A u \in Requests : u # r => client'[u] = client[u]
      BY <1>2, <3>3 DEF ServerTyped, ClientsTyped
    <3> QED BY <1>3, <3>2, <3>3, <3>4, ClientRunsOn
  <2> QED BY Zenon, <1>0, <1>7, <2>4, <2>5 DEF HandleBind, c, t
<1> QED BY <1>5, <1>6, <1>7

LEMMA HandleRunRunsOn ==
    ASSUME Cooperative, ServerOwned, Running, NEW r \in Requests, HandleRun(r)
    PROVE  Running'
<1> HIDE DEF Messages
<1> DEFINE c == Consumed(r)
           t == Message(r).task
           n == [c EXCEPT !.pushed = @ + 1]
           cl == [client EXCEPT ![r] = n]
<1>1. Handle(ClientSrc(r)) /\ client[r].inbox # <<>> /\ MayRun(client[r], t)
  BY DEF HandleRun, Receives
<1>2. /\ Up /\ Serving /\ client \in [Requests -> ClientRecord] /\ client[r].conn = "open"
      /\ ServerTyped
  BY <1>1, ClientHandled DEF ServerOwned
<1>3. ~Waiting(r) /\ client[r].pushed = 0
  BY <1>1, <1>2, ClientsListen DEF Due
<1>4. c \in ClientRecord /\ c.conn = "open" /\ c.pushed = 0
  BY <1>1, <1>2, <1>3, ConsumedFields
<1> HIDE DEF c
<1>5. n.conn = "open" /\ n.pushed = 1
  BY <1>4 DEF ClientRecord
<1> HIDE DEF n
<1>6. Push(r, t) /\ AfterHandler(cl)
  <2> HIDE DEF cl
  <2> QED BY Zenon, <1>3 DEF HandleRun, c, t, n, cl
<1>7. t \in HwTasks
  <2>1. client[r] \in ClientRecord
    BY <1>2
  <2>2. client[r].tasks \in Seq(HwTasks) /\ t \in ToSet(client[r].tasks)
    BY <1>1, <2>1 DEF MayRun, ClientRecord
  <2> QED BY <2>2 DEF ToSet
<1>8. Next
  <2>1. Run(r, t)
    BY <1>1, <1>2, <1>3, <1>6 DEF Run, MayRun, Waiting, Up
  <2> QED BY <1>7, <2>1 DEF Next
<1>9. reply' = [reply EXCEPT ![r] = "wait"] /\ reply \in [Requests -> Replies]
  BY <1>2, <1>6 DEF Push, Serving, IInv, TypeOK
<1> HIDE DEF t
<1>10. ASSUME Up', NEW u \in Requests
       PROVE  (Waiting(u)' => client'[u].conn = "open") /\ client'[u].pushed \in 0..1
  <2>1. client' = cl
    BY <1>6, <1>10 DEF AfterHandler, Up
  <2>2. client'[r] = n /\ (u # r => client'[u] = client[u])
    BY <1>2, <2>1
  <2>3. /\ u # r => (Waiting(u)' <=> Waiting(u))
        /\ Waiting(u) => client[u].conn = "open"
        /\ client[u].pushed \in 0..1
    BY <1>9, ClientsListen DEF Waiting, Due
  <2> QED BY <1>5, <2>2, <2>3
<1> QED BY <1>8, <1>10, RunningStays

\* Every step of a server whose clients follow the protocol leaves it running.
LEMMA ServerRunsOn ==
    ASSUME Cooperative, ServerOwned, Running, ServerNext
    PROVE  Running'
<1>1. /\ Up /\ Serving /\ ServerTyped /\ client \in [Requests -> ClientRecord]
      /\ batch \subseteq ReadySources
  BY DEF ServerOwned, Serving, ServerTyped, ClientsTyped, Running, Up
<1>2. CASE Poll
  BY <1>2 DEF Poll, Running, Corrupt, Waiting, vars
<1>3. ASSUME NEW s \in Slots, HandleSlot(s) \/ HandleTimer(s) PROVE Running'
  BY <1>3, HandlersRunOn
<1>4. CASE HandleDevcfg
  <2>1. RcfgComplete /\ AfterHandler(client) /\ Next
    BY <1>4 DEF HandleDevcfg, Next
  <2>2. ASSUME Up', NEW u \in Requests
        PROVE  (Waiting(u)' => client'[u].conn = "open") /\ client'[u].pushed \in 0..1
    <3>1. client' = client /\ reply' = reply
      BY <1>1, <2>1, <2>2, RcfgKeeps DEF AfterHandler, Up, Serving
    <3> QED BY <3>1, ClientsListen DEF Waiting, Due
  <2> QED BY <2>1, <2>2, RunningStays
<1>5. CASE HandleListener
  <2>1. UNCHANGED vars /\ client' = [client EXCEPT ![Head(backlog)].conn = "open"]
    BY <1>5 DEF HandleListener, Cooperative
  <2>2. ASSUME NEW u \in Requests
        PROVE  (Waiting(u)' => client'[u].conn = "open") /\ client'[u].pushed \in 0..1
    <3>1. client[u] \in ClientRecord
      BY <1>1
    <3>2. client'[u].pushed = client[u].pushed
          /\ (client'[u].conn = "open" \/ client'[u].conn = client[u].conn)
      BY <1>1, <2>1, <3>1 DEF ClientRecord
    <3>3. Waiting(u)' <=> Waiting(u)
      BY <2>1 DEF Waiting, vars
    <3> QED BY <3>2, <3>3, ClientsListen DEF Due
  <2> QED BY <2>1, <2>2, RunningStays
<1>6. CASE HandleSignal
  BY <1>6 DEF HandleSignal, Cooperative
<1>7. ASSUME NEW r \in Requests, HandleInit(r) \/ HandleRefused(r) \/ HandleBind(r) \/ HandleRun(r)
      PROVE  Running'
  BY <1>7, MessagesRunOn, HandleRunRunsOn
<1>8. ASSUME NEW r \in Requests, HandleHangup(r) PROVE Running'
  <2>1. ClientSrc(r) \in ReadySources
    BY <1>1, <1>8 DEF HandleHangup, Handle, Takes
  <2>2. client[r].conn = "open" /\ client[r] \in ClientRecord
    BY <1>1, <2>1 DEF ReadySources, ClientSrc, SlotSrc, TimerSrc, DevcfgSrc, ListenerSrc
  <2>3. client[r].peer = "closed" /\ Detach(r, client[r])
    BY <1>8, <2>2, ClientsListen DEF HandleHangup
  <2>4. ~Waiting(r) /\ FreeClient(client[r]).pushed = client[r].pushed
    BY <2>2, <2>3, ClientsListen, FreeTyped
  <2>5. /\ UNCHANGED vars /\ client'[r] = FreeClient(client[r])
        /\ \A u \in Requests : u # r => client'[u] = client[u]
    BY <1>1, <2>3 DEF Detach
  <2> QED BY <2>4, <2>5, ClientRunsOn
<1>9. ASSUME NEW r \in Requests, Connect(r) PROVE Running'
  <2>1. ~Waiting(r)
    BY <1>9, ClientsListen DEF Connect
  <2>2. [NoClient(client[r].buffers) EXCEPT !.conn = "backlog"].pushed = 0
    BY DEF NoClient
  <2>3. /\ UNCHANGED vars /\ client'[r].pushed = 0
        /\ \A u \in Requests : u # r => client'[u] = client[u]
    BY <1>1, <1>9, <2>2 DEF Connect, ClientStep
  <2> QED BY <2>1, <2>3, ClientRunsOn
<1>10. ASSUME NEW r \in Requests,
              ReadReply(r) \/ Disconnect(r) \/ \E m \in Messages : Send(r, m)
       PROVE  Running'
  <2>1. client[r] \in ClientRecord
    BY <1>1
  <2>2. ASSUME NEW c, ClientStep(r, c), c.pushed = client[r].pushed, c.conn = client[r].conn
        PROVE  Running'
    <3>1. /\ UNCHANGED vars /\ client'[r] = c
          /\ \A u \in Requests : u # r => client'[u] = client[u]
      BY <1>1, <2>2 DEF ClientStep
    <3> QED BY <2>2, <3>1, ClientRunsOn
  <2>3. CASE ReadReply(r)
    BY <2>1, <2>2, <2>3 DEF ReadReply, ClientRecord
  <2>4. CASE Disconnect(r)
    <3> DEFINE c == [client[r] EXCEPT !.peer = IF client[r].unread THEN "reset" ELSE "closed"]
    <3>1. ClientStep(r, c)
      BY <2>4 DEF Disconnect
    <3>2. c.pushed = client[r].pushed /\ c.conn = client[r].conn
      BY <2>1 DEF ClientRecord
    <3> HIDE DEF c
    <3> QED BY <2>2, <3>1, <3>2
  <2>5. ASSUME NEW m \in Messages, Send(r, m) PROVE Running'
    <3> DEFINE c == [client[r] EXCEPT !.inbox = Append(@, m), !.owed = @ + 1]
    <3>1. ClientStep(r, c)
      BY <2>5 DEF Send
    <3>2. c.pushed = client[r].pushed /\ c.conn = client[r].conn
      BY <2>1 DEF ClientRecord
    <3> HIDE DEF c
    <3> QED BY <2>2, <3>1, <3>2
  <2> QED BY <1>10, <2>3, <2>4, <2>5
<1>11. CASE Environment
  <2>1. Next /\ client' = client /\ reply' = reply
    BY <1>11 DEF Environment, serverVars, Next, AccelDone, TimerExpire, RcfgDone
  <2> QED BY <2>1, ClientsListen, RunningStays DEF Waiting, Due
<1>12. CASE Ended
  BY <1>12 DEF Ended
<1> QED BY <1>2, <1>3, <1>4, <1>5, <1>6, <1>7, <1>8, <1>9, <1>10, <1>11, <1>12 DEF ServerNext

\* Clients that follow the protocol, whatever they ask for and whenever they come and go,
\* never bring the server down nor make it corrupt its lists, and allocations that fail
\* do not either: each such client is just dropped.
LEMMA CooperativeRuns == ASSUME Cooperative PROVE ServerSpec => []Running
<1>1. ServerInit => Running
  BY DEF ServerInit, Init, Running, Corrupt, Waiting, NoClient
<1>2. ServerOwned /\ Running /\ [ServerNext]_allVars => Running'
  BY ServerRunsOn DEF allVars, vars, Running, Corrupt, Waiting
<1>3. ServerSpec => []ServerOwned
  BY ServerInvariant DEF Cooperative
<1> QED BY <1>1, <1>2, <1>3, PTL DEF ServerSpec

THEOREM ProtocolKeepsServerUp == ASSUME Cooperative PROVE ServerSpec => []ServerStaysUp
<1>1. Running => ServerStaysUp
  BY DEF Running, ServerStaysUp
<1> QED BY <1>1, CooperativeRuns, PTL

\* When a client's memory is freed, neither the queues, the device nor a slot points into
\* it: the accel_req embedded in it is never reached again.
THEOREM NoUseAfterFree == ASSUME Cooperative PROVE ServerSpec => []FreedNotReferenced
<1>1. ASSUME ServerOwned, Running PROVE FreedNotReferenced
  <2>1. SUFFICES ASSUME NEW r \in Requests, client[r].conn # "open" PROVE PlacesOf(r) = 0
    BY DEF FreedNotReferenced
  <2>2. IInv /\ Owned /\ Up /\ ~Waiting(r)
    BY <1>1, <2>1 DEF ServerOwned, Serving, Running, Corrupt, Up
  <2> QED BY <2>2, CountPlaces
<1>2. ServerSpec => []ServerOwned
  BY ServerInvariant DEF Cooperative
<1> QED BY <1>1, <1>2, CooperativeRuns, PTL

\* The server, with its batches, sessions, sockets and connections, implements the
\* scheduler that was proved above: it drives it through no other steps.
THEOREM ServerImplementsScheduler == ASSUME Cooperative PROVE ServerSpec => RefinesScheduler
<1>1. ServerInit => Init
  BY DEF ServerInit
<1>2. ServerOwned /\ Running /\ Running' /\ [ServerNext]_allVars => [Next]_vars
  <2>1. ASSUME ServerOwned, Running, Running', ServerNext PROVE [Next]_vars
    BY <2>1, ServerStep DEF Serves
  <2>2. UNCHANGED allVars => UNCHANGED vars
    BY DEF allVars
  <2> QED BY <2>1, <2>2
<1>3. ServerSpec => []ServerOwned
  BY ServerInvariant DEF Cooperative
<1> QED BY <1>1, <1>2, <1>3, CooperativeRuns, PTL DEF ServerSpec, RefinesScheduler, Spec

\* So the whole server gives its clients the service of AccelService.
THEOREM ServerServes == ASSUME Cooperative PROVE ServerSpec => ImplementsService
<1>1. Spec => ImplementsService
  BY ServiceImplemented DEF Cooperative
<1> QED BY <1>1, ServerImplementsScheduler, PTL DEF RefinesScheduler
=============================================================================
