------------------------ MODULE FredTestModesProofs ------------------------
(***************************************************************************)
(* The two test modes: the cyclic client's single request and the byte in   *)
(* its socket pair are one token that is never lost or doubled, no queue is *)
(* ever used, and every hw-task is tested in turn on a slot just programmed *)
(* with it.                                                                 *)
(***************************************************************************)
EXTENDS FredTestModesInv, FredDriversProofs

-----------------------------------------------------------------------------
(* The inductive invariant. *)

\* The client's byte is in its socket pair exactly while its request is not with the
\* scheduler, and a request under way is for the hw-task next_hw_task has moved past.
ClientOwned ==
    /\ client \in ClientRecord
    /\ Up => /\ client.trigger = IF Waiting(ClientReq) THEN 0 ELSE 1
             /\ Waiting(ClientReq) => req[ClientReq].hw_task = LastRequested

TestOwned ==
    /\ IInv /\ Owned /\ DevcfgNotIdle /\ DriversOwned
    /\ NoneSkips(Requests, req)
    /\ ClientOwned

LEMMA OneRequest == Requests = {ClientReq}
<1>1. PICK r : Requests = {r}
  BY TestModesOK, FS_Singleton
<1> QED BY <1>1 DEF ClientReq

LEMMA TasksInTurn == \A i \in 1..Len(TaskOrder) : TaskOrder[i] \in HwTasks
BY TestModesOK, ElementOfSeq

-----------------------------------------------------------------------------
(* The random push. *)

\* The hw-task whose turn it is, and its partition.
NextTask == TaskOrder[client.next]
NextPartition == TaskPartition[NextTask]

RandQueues(r, now) ==
    /\ AvailableSlots(NextPartition) = {}
    /\ req' = [req EXCEPT ![r] = Unbound(r, NextTask, now)]
    /\ part_queues' = [part_queues EXCEPT ![NextPartition] = Enqueue(@, r)]
    /\ UNCHANGED <<slot, timer, hw, devcfg, fri_queue, status>>

RandReserves(r, s, now) ==
    /\ s \in AvailableSlots(NextPartition)
    /\ req' = [req EXCEPT ![r] = RandPlaced(r, NextTask, s, now)]
    /\ UNCHANGED part_queues
    /\ PushFri(SetReserved(slot, s), timer, hw, req', r)

\* What the client's handler finds and what it has the scheduler do.
LEMMA CyclicPush ==
    ASSUME TestOwned, CyclicHandleEvent
    PROVE  /\ Up /\ ~Waiting(ClientReq) /\ ClientReq \in Requests
           /\ client \in ClientRecord /\ client.trigger = 1
           /\ NextTask \in HwTasks /\ NextPartition \in Partitions
           /\ reply' = [reply EXCEPT ![ClientReq] = "wait"] /\ UNCHANGED banned
           /\ Waiters' = Waiters \cup {ClientReq}
           /\ DriverCalls(dev, mgr)
           /\ \E now \in 0..MaxClock :
                 /\ clock' = now
                 /\ \/ RandQueues(ClientReq, now)
                    \/ \E s \in Slots : RandReserves(ClientReq, s, now)
<1> USE ConstantsOK
<1>1. /\ Up /\ client.trigger > 0 /\ reply' = [reply EXCEPT ![ClientReq] = "wait"]
      /\ UNCHANGED banned /\ DriverCalls(dev, mgr)
      /\ RandPushAccelReq(ClientReq, NextTask)
  BY DEF CyclicHandleEvent, NextTask, Up
<1>2. client \in ClientRecord /\ client.trigger = 1 /\ ~Waiting(ClientReq)
  BY <1>1 DEF TestOwned, ClientOwned
<1>3. ClientReq \in Requests
  BY OneRequest
<1>4. NextTask \in HwTasks /\ NextPartition \in Partitions
  <2>1. client.next \in 1..Len(TaskOrder)
    BY <1>2 DEF ClientRecord
  <2>2. NextTask \in HwTasks
    BY <2>1, TasksInTurn DEF NextTask
  <2> QED BY <2>2 DEF NextPartition
<1>5. Waiters' = Waiters \cup {ClientReq}
  BY <1>1, <1>3, WaitersAfter DEF TestOwned
<1>6. \E now \in 0..MaxClock :
         /\ clock' = now
         /\ RandQueues(ClientReq, now) \/ \E s \in Slots : RandReserves(ClientReq, s, now)
  <2>1. PICK now \in clock..(clock + 1) :
          /\ now <= MaxClock
          /\ clock' = now
          /\ \/ RandQueues(ClientReq, now)
             \/ \E s \in AvailableSlots(NextPartition) :
                   LET rq == [req EXCEPT ![ClientReq] = RandPlaced(ClientReq, NextTask, s, now)] IN
                   /\ req' = rq
                   /\ UNCHANGED part_queues
                   /\ PushFri(SetReserved(slot, s), timer, hw, rq, ClientReq)
    BY Zenon, <1>1 DEF RandPushAccelReq, RandQueues, NextPartition
  <2>2. clock \in 0..MaxClock
    BY DEF TestOwned, IInv, TypeOK
  <2>3. now \in 0..MaxClock
    BY <2>1, <2>2
  <2>4. AvailableSlots(NextPartition) \subseteq Slots
    BY DEF AvailableSlots
  <2>5. RandQueues(ClientReq, now) \/ \E s \in Slots : RandReserves(ClientReq, s, now)
    BY Zenon, <2>1, <2>4 DEF RandReserves
  <2> QED BY <2>1, <2>3, <2>5
<1> QED BY <1>1, <1>2, <1>3, <1>4, <1>5, <1>6

\* The request as it is bound: to the hw-task whose turn it is, never skipping.
LEMMA RandBinds ==
    ASSUME TestOwned, NEW r \in Requests, NEW now \in 0..MaxClock, NextTask \in HwTasks,
           RandQueues(r, now) \/ \E s \in Slots : RandReserves(r, s, now)
    PROVE  /\ req' \in [Requests -> RequestRecord]
           /\ req'[r].hw_task = NextTask /\ req'[r].skip_rcfg = FALSE
           /\ RandQueues(r, now) => req'[r].slot = NULL
           /\ \A s \in Slots : RandReserves(r, s, now) => req'[r].slot = s
           /\ \A u \in Requests : u # r => req'[u] = req[u]
           /\ NoneSkips(Requests, req)'
<1> USE ConstantsOK
<1> DEFINE fresh == Unbound(r, NextTask, now)
<1>1. req \in [Requests -> RequestRecord] /\ NoneSkips(Requests, req)
  BY DEF TestOwned, IInv, TypeOK
<1>2. fresh \in RequestRecord /\ fresh.hw_task = NextTask /\ fresh.skip_rcfg = FALSE
      /\ fresh.slot = NULL
  BY DEF Unbound, RequestRecord
<1> HIDE DEF fresh
<1>3. \A s \in Slots : LET b == [fresh EXCEPT !.slot = s] IN
         /\ b \in RequestRecord /\ b.hw_task = NextTask /\ b.skip_rcfg = FALSE /\ b.slot = s
  BY <1>2 DEF RequestRecord
<1>4. ASSUME NEW b \in RequestRecord, b.hw_task = NextTask, b.skip_rcfg = FALSE,
             req' = [req EXCEPT ![r] = b]
      PROVE  /\ req' \in [Requests -> RequestRecord] /\ req'[r] = b
             /\ \A u \in Requests : u # r => req'[u] = req[u]
             /\ NoneSkips(Requests, req)'
  BY <1>1, <1>4 DEF NoneSkips
<1>5. CASE RandQueues(r, now)
  <2>1. req' = [req EXCEPT ![r] = fresh]
    BY <1>5 DEF RandQueues, fresh
  <2>2. req'[r] = fresh
    BY <1>1, <2>1
  <2>3. \A s \in Slots : ~RandReserves(r, s, now)
    BY <1>5 DEF RandQueues, RandReserves
  <2> QED BY <1>2, <1>4, <2>1, <2>2, <2>3
<1>6. ASSUME NEW s \in Slots, RandReserves(r, s, now)
      PROVE  /\ req' \in [Requests -> RequestRecord]
             /\ req'[r].hw_task = NextTask /\ req'[r].skip_rcfg = FALSE /\ req'[r].slot = s
             /\ \A u \in Requests : u # r => req'[u] = req[u]
             /\ NoneSkips(Requests, req)'
  <2> DEFINE b == [fresh EXCEPT !.slot = s]
  <2>1. b \in RequestRecord /\ b.hw_task = NextTask /\ b.skip_rcfg = FALSE /\ b.slot = s
    BY <1>3
  <2>2. req' = [req EXCEPT ![r] = b]
    BY <1>6 DEF RandReserves, RandPlaced, fresh
  <2> HIDE DEF b
  <2> QED BY <1>4, <2>1, <2>2
<1>7. ASSUME NEW s \in Slots, RandReserves(r, s, now) PROVE ~RandQueues(r, now)
  BY <1>7 DEF RandQueues, RandReserves
<1> QED BY <1>2, <1>5, <1>6, <1>7

-----------------------------------------------------------------------------
(* The push keeps the invariants of the scheduler. *)

\* The request it binds joins those that queues, slots and the device may refer to.
LEMMA CyclicKeepsIInv ==
    ASSUME TestOwned, CyclicHandleEvent
    PROVE  IInv'
<1> USE ConstantsOK
<1> DEFINE r == ClientReq
           B == Bound \cup {r}
<1>1. /\ part_queues \in [Partitions -> Seq(Bound)] /\ fri_queue \in Seq(Bound)
      /\ status \in Statuses /\ NoneReady(slot) /\ req \in [Requests -> RequestRecord]
      /\ Typed(Bound, slot, timer, hw, devcfg)
      /\ banned \subseteq HwTasks /\ reply \in [Requests -> Replies]
  BY DEF TestOwned, IInv, TypeOK, Pointers, NoneReady
<1>2. /\ r \in Requests /\ NextTask \in HwTasks /\ NextPartition \in Partitions
      /\ reply' = [reply EXCEPT ![r] = "wait"] /\ UNCHANGED banned
  BY CyclicPush
<1>3. PICK now \in 0..MaxClock :
         /\ clock' = now
         /\ RandQueues(r, now) \/ \E s \in Slots : RandReserves(r, s, now)
  BY CyclicPush
<1> HIDE DEF r
<1>4. /\ req' \in [Requests -> RequestRecord] /\ req'[r].hw_task = NextTask
      /\ \A u \in Requests : u # r => req'[u] = req[u]
  BY <1>2, <1>3, RandBinds
<1>5. Bound' = B /\ Bound \subseteq B /\ B \in SUBSET Requests /\ r \in B
  BY <1>2, <1>4 DEF Bound
<1> HIDE DEF B
<1>6. Typed(B, slot, timer, hw, devcfg) /\ fri_queue \in Seq(B)
  BY <1>1, <1>5, TypedMonotonic, SeqMonotonic
<1>7. part_queues \in [Partitions -> Seq(B)]
  <2>1. ASSUME NEW u \in Partitions PROVE part_queues[u] \in Seq(B)
    <3>1. part_queues[u] \in Seq(Bound)
      BY <1>1
    <3> QED BY <3>1, <1>5, SeqMonotonic
  <2> QED BY <2>1, <1>1
<1>8. banned' \subseteq HwTasks /\ reply' \in [Requests -> Replies] /\ clock' \in 0..MaxClock
  BY <1>1, <1>2, <1>3 DEF Replies
<1>9. CASE RandQueues(r, now)
  <2>1. part_queues' \in [Partitions -> Seq(B)]
    BY <1>2, <1>5, <1>7, <1>9 DEF RandQueues, Enqueue
  <2>2. UNCHANGED <<slot, timer, hw, devcfg, fri_queue, status>>
    BY <1>9 DEF RandQueues
  <2> QED BY <1>1, <1>4, <1>5, <1>6, <1>8, <2>1, <2>2, IInvParts
<1>10. ASSUME NEW s \in Slots, RandReserves(r, s, now) PROVE IInv'
  <2> DEFINE sr == SetReserved(slot, s)
  <2>1. PushFri(sr, timer, hw, req', r) /\ part_queues' = part_queues
    BY <1>10 DEF RandReserves
  <2>2. Typed(B, sr, timer, hw, devcfg) /\ NoneReady(sr)
    BY <1>1, <1>6, ReservedTyped
  <2> HIDE DEF sr
  <2>3. /\ Typed(B, slot', timer', hw', devcfg') /\ NoneReady(slot')
        /\ fri_queue' \in Seq(B) /\ status' \in Statuses
    BY <1>1, <1>4, <1>5, <1>6, <2>1, <2>2, PushFriTyped
  <2> QED BY <1>4, <1>5, <1>7, <1>8, <2>1, <2>3, IInvParts
<1> QED BY <1>3, <1>9, <1>10

\* The request is given the slot, or its place behind a partition without a free one.
LEMMA CyclicKeepsOwned ==
    ASSUME TestOwned, CyclicHandleEvent
    PROVE  Owned'
<1> USE ConstantsOK
<1> DEFINE r == ClientReq
           W == Waiters
           p == NextPartition
<1>1. /\ req \in [Requests -> RequestRecord] /\ devcfg \in DevcfgRecord
      /\ part_queues \in [Partitions -> Seq(Requests)]
      /\ slot \in [Slots -> SlotRecord] /\ Shaped(slot, timer, hw, req)
      /\ NoneReady(slot)
  BY DEF TestOwned, IInv, TypeOK, Shaped, NoneReady
<1>2. /\ Up /\ r \notin W /\ r \in Requests /\ W \in SUBSET Requests /\ Waiters' = W \cup {r}
      /\ NextTask \in HwTasks /\ p \in Partitions /\ p = TaskPartition[NextTask]
  BY CyclicPush DEF Waiters, NextPartition
<1>3. /\ Placed(slot, devcfg, req, part_queues, fri_queue, W)
      /\ Agreed(slot, timer, hw, devcfg, req, W)
      /\ Conserving(slot, part_queues)
  BY <1>2 DEF TestOwned, Owned
<1>4. PICK now \in 0..MaxClock :
         /\ clock' = now
         /\ RandQueues(r, now) \/ \E s \in Slots : RandReserves(r, s, now)
  BY CyclicPush
<1> HIDE DEF r
<1>5. /\ req' \in [Requests -> RequestRecord]
      /\ req'[r].hw_task = NextTask /\ req'[r].skip_rcfg = FALSE
      /\ RandQueues(r, now) => req'[r].slot = NULL
      /\ \A s \in Slots : RandReserves(r, s, now) => req'[r].slot = s
      /\ \A u \in Requests : u # r => req'[u] = req[u]
  BY <1>2, <1>4, RandBinds
<1>6. \A u \in W : req'[u] = req[u]
  BY <1>2, <1>5
<1> HIDE DEF W, p
<1>7. CASE RandQueues(r, now)
  <2>1. /\ AvailableSlots(p) = {} /\ part_queues' = [part_queues EXCEPT ![p] = Enqueue(@, r)]
        /\ UNCHANGED <<slot, timer, hw, devcfg, fri_queue, status>>
    BY <1>7 DEF RandQueues, p
  <2>2. Enlists(r, p, req, req', W)
    BY <1>2, <1>5, <1>6, <1>7 DEF Enlists
  <2>3. Placed(slot, devcfg, req', part_queues', fri_queue, W \cup {r})
    BY <1>1, <1>2, <1>3, <2>1, <2>2, EnqueuedPlaced
  <2>4. Agreed(slot, timer, hw, devcfg, req', W \cup {r})
    BY <1>3, <1>5, <1>6, <1>7, SlotlessAgreed
  <2>5. Conserving(slot, part_queues')
    <3>1. ASSUME NEW u \in Slots, part_queues'[SlotPartition[u]] # <<>>
          PROVE  slot[u].state \in Taken
      <4>1. CASE SlotPartition[u] = p
        <5>1. u \notin AvailableSlots(p)
          BY <2>1
        <5>2. slot[u].state \in SlotStates /\ slot[u].state # "READY"
          BY <1>1 DEF SlotRecord, NoneReady
        <5> QED BY <4>1, <5>1, <5>2 DEF AvailableSlots, IsAvailable, SlotStates, Taken
      <4>2. CASE SlotPartition[u] # p
        <5>1. part_queues'[SlotPartition[u]] = part_queues[SlotPartition[u]]
          BY <1>1, <2>1, <4>2
        <5> QED BY <1>3, <3>1, <5>1 DEF Conserving
      <4> QED BY <4>1, <4>2
    <3> QED BY <3>1 DEF Conserving
  <2> QED BY <1>2, <2>1, <2>3, <2>4, <2>5, OwnedParts DEF Up
<1>8. ASSUME NEW s \in Slots, RandReserves(r, s, now) PROVE Owned'
  <2>1. /\ s \in Slots /\ SlotPartition[s] = p /\ slot[s].state \in {"IDLE", "BLANK"}
        /\ PushFri(SetReserved(slot, s), timer, hw, req', r) /\ part_queues' = part_queues
    BY <1>8 DEF RandReserves, AvailableSlots, IsAvailable, p
  <2>2. Grants(r, s, slot, req, req', W)
    BY <1>2, <1>5, <1>6, <1>8, <2>1 DEF Grants
  <2>3. /\ status' \in {"up", "down"} /\ (Faults = {} => status' = "up")
        /\ status' = "up" =>
             /\ Placed(slot', devcfg', req', part_queues, fri_queue', W \cup {r})
             /\ Agreed(slot', timer', hw', devcfg', req', W \cup {r})
        /\ \A u \in Slots : slot[u].state \in Taken \/ u = s => slot'[u].state \in Taken
    BY <1>1, <1>2, <1>3, <1>5, <2>1, <2>2, PushKeepsOwned
  <2>4. Conserving(slot', part_queues')
    BY <1>3, <2>1, <2>3 DEF Conserving
  <2>5. Waiters' = W \cup {r} /\ (Up' <=> status' = "up")
    BY <1>2 DEF Up
  <2> QED BY <2>1, <2>3, <2>4, <2>5, OwnedParts
<1> QED BY <1>4, <1>7, <1>8

\* What the push does to the slots before the FRI queue is served: it reserves one at most.
LEMMA RandMoves ==
    ASSUME TestOwned, CyclicHandleEvent, Up'
    PROVE  \E sl \in [Slots -> SlotRecord] :
             /\ Moves(sl, timer, hw, devcfg, req', Requests)
             /\ \A u \in Slots : sl[u] = slot[u] \/ ( /\ sl[u].state = "RSRV"
                                                     /\ slot[u].state \in {"IDLE", "BLANK"})
<1> USE ConstantsOK
<1>1. /\ req \in [Requests -> RequestRecord] /\ fri_queue \in Seq(Requests)
      /\ slot \in [Slots -> SlotRecord]
  BY DEF TestOwned, IInv, TypeOK
<1>2. PICK now \in 0..MaxClock :
         RandQueues(ClientReq, now) \/ \E s \in Slots : RandReserves(ClientReq, s, now)
  BY CyclicPush
<1>3. CASE RandQueues(ClientReq, now)
  <2>1. UNCHANGED <<slot, timer, hw, devcfg>>
    BY <1>3 DEF RandQueues
  <2>2. \A u \in Slots : /\ Same(u, slot, hw) /\ ~Starts(u, slot, hw)
                          /\ ~Programming(u, slot, hw)
    BY <2>1 DEF Same, Starts, Programming
  <2>3. Moves(slot, timer, hw, devcfg, req', Requests)
    BY <2>1, <2>2 DEF Moves, DeviceMoves, Slotwise
  <2> QED BY <1>1, <2>3
<1>4. ASSUME NEW s \in Slots, RandReserves(ClientReq, s, now)
      PROVE  \E sl \in [Slots -> SlotRecord] :
               /\ Moves(sl, timer, hw, devcfg, req', Requests)
               /\ \A u \in Slots : sl[u] = slot[u] \/
                                     (sl[u].state = "RSRV" /\ slot[u].state \in {"IDLE", "BLANK"})
  <2> DEFINE sl == SetReserved(slot, s)
  <2>1. PushFri(sl, timer, hw, req', ClientReq) /\ slot[s].state \in {"IDLE", "BLANK"}
    BY <1>4 DEF RandReserves, AvailableSlots, IsAvailable
  <2>2. /\ sl \in [Slots -> SlotRecord] /\ sl[s].state = "RSRV"
        /\ \A u \in Slots : u # s => sl[u] = slot[u]
    <3>1. sl = WithState(slot, s, "RSRV") /\ "RSRV" \in SlotStates
      BY DEF SetReserved, WithState, SlotStates
    <3> QED BY <1>1, <3>1, WithStateAt
  <2>3. ClientReq \in Requests /\ Up
    BY CyclicPush
  <2> HIDE DEF sl
  <2>4. Moves(sl, timer, hw, devcfg, req', Requests)
    BY <1>1, <2>1, <2>2, <2>3, PushMoves DEF Up
  <2> QED BY <2>1, <2>2, <2>4
<1> QED BY <1>2, <1>3, <1>4

\* The drivers see no more than a request being programmed.
LEMMA CyclicKeepsDevices ==
    ASSUME TestOwned, CyclicHandleEvent, IInv', Owned'
    PROVE  DriversOwned'
<1>1. Up /\ DriverCalls(dev, mgr) /\ IInv /\ Owned /\ DriversOwned
  BY CyclicPush DEF TestOwned
<1>2. CASE ~Up'
  BY <1>1, <1>2, StoppingKeepsDevices
<1>3. CASE Up'
  <2>1. PICK sl \in [Slots -> SlotRecord] :
          /\ Moves(sl, timer, hw, devcfg, req', Requests)
          /\ \A u \in Slots : sl[u] = slot[u] \/ ( /\ sl[u].state = "RSRV"
                                                  /\ slot[u].state \in {"IDLE", "BLANK"})
    BY <1>3, RandMoves
  <2>2. Prepared(sl, hw, devcfg, dev, mgr)
    <3>1. hw \in [Slots -> HwRecord]
      BY <1>1 DEF IInv, TypeOK
    <3>2. ASSUME NEW s \in Slots
          PROVE  /\ sl[s].state = "EXEC" => slot[s].state = "EXEC"
                 /\ sl[s].state = "RCFG" => slot[s].state = "RCFG"
                 /\ sl[s].state = "RSRV" => /\ slot[s].state # "RCFG"
                                            /\ driver # "master" => ~hw[s].busy
                 /\ Starts(s, sl, hw) => slot[s].state # "EXEC"
      BY <1>1, <2>1, QuietOutside DEF Starts
    <3> QED BY <1>1, <2>1, <3>1, <3>2, QuietOutside DEF Prepared, DriversOwned, DevicesTyped
  <2>3. driver # "master" => \A s \in Slots : timer[s].state # "expired"
    BY <1>1 DEF DriversOwned, NoNullTimeout
  <2> QED BY <1>1, <1>3, <2>1, <2>2, <2>3, HandlerKeepsDevices
<1> QED BY <1>2, <1>3

\* The device gets the request or is busy, and no slot starts.
LEMMA CyclicStartsNothing ==
    ASSUME TestOwned, CyclicHandleEvent
    PROVE  /\ DevcfgNotIdle' /\ NoneSkips(Requests, req)'
           /\ \A u \in Slots : slot'[u].state = "EXEC" => slot[u].state = "EXEC"
<1> USE ConstantsOK
<1>1. /\ fri_queue \in Seq(Requests) /\ slot \in [Slots -> SlotRecord] /\ DevcfgNotIdle
  BY DEF TestOwned, IInv, TypeOK
<1>2. ClientReq \in Requests /\ NextTask \in HwTasks
  BY CyclicPush
<1>3. PICK now \in 0..MaxClock :
         RandQueues(ClientReq, now) \/ \E s \in Slots : RandReserves(ClientReq, s, now)
  BY CyclicPush
<1>4. NoneSkips(Requests, req')
  BY <1>2, <1>3, RandBinds DEF NoneSkips
<1>5. CASE RandQueues(ClientReq, now)
  BY <1>1, <1>4, <1>5 DEF RandQueues, DevcfgNotIdle, Up, NoneSkips
<1>6. ASSUME NEW s \in Slots, RandReserves(ClientReq, s, now)
      PROVE  /\ DevcfgNotIdle'
             /\ \A u \in Slots : slot'[u].state = "EXEC" => slot[u].state = "EXEC"
  <2> DEFINE sl == SetReserved(slot, s)
  <2>1. PushFri(sl, timer, hw, req', ClientReq)
    BY <1>6 DEF RandReserves
  <2>2. sl \in [Slots -> SlotRecord]
    <3>1. sl = WithState(slot, s, "RSRV") /\ "RSRV" \in SlotStates
      BY DEF SetReserved, WithState, SlotStates
    <3> QED BY <1>1, <3>1, WithStateAt
  <2> HIDE DEF sl
  <2>3. DevcfgNotIdle'
    BY <1>1, <1>2, <2>1, PushFriKeepsBusy
  <2>4. \A u \in Slots : slot'[u].state = "EXEC" => sl[u].state = "EXEC"
    BY <1>1, <1>2, <1>4, <2>1, <2>2, PushFriStartsNothing
  <2> QED BY <1>1, <2>3, <2>4, ReservedNotStarted DEF sl
<1> QED BY <1>3, <1>4, <1>5, <1>6 DEF NoneSkips

\* The byte has been read, and the counter moved past the hw-task that was requested.
LEMMA CyclicKeepsClient ==
    ASSUME TestOwned, CyclicHandleEvent, IInv'
    PROVE  ClientOwned'
<1> DEFINE n == Len(TaskOrder)
<1>1. /\ client \in ClientRecord /\ client.trigger = 1 /\ ClientReq \in Requests
      /\ NextTask \in HwTasks /\ reply' = [reply EXCEPT ![ClientReq] = "wait"]
      /\ reply \in [Requests -> Replies]
  BY CyclicPush DEF TestOwned, IInv, TypeOK
<1>2. req'[ClientReq].hw_task = NextTask
  BY <1>1, CyclicPush, RandBinds
<1>3. Waiting(ClientReq)'
  BY <1>1 DEF Waiting
<1>4. client' = Advanced(Consumed(client)) /\ client.next \in 1..n /\ n \in Nat
  BY <1>1, TestModesOK, LenProperties DEF CyclicHandleEvent, ClientRecord
<1>5. /\ Consumed(client) \in ClientRecord /\ Consumed(client).trigger = 0
      /\ Consumed(client).next = client.next
  BY <1>1 DEF Consumed, ClientRecord
<1> DEFINE m == (client.next % n) + 1
<1>6. m \in 1..n /\ client.next = IF m = 1 THEN n ELSE m - 1
  <2>1. client.next < n => client.next % n = client.next
    BY <1>4
  <2>2. n > 0 => n % n = 0
    BY <1>4
  <2>3. CASE client.next < n
    <3>1. m = client.next + 1
      BY <2>1, <2>3
    <3> QED BY <1>4, <2>3, <3>1
  <2>4. CASE client.next = n
    <3>1. m = 1
      BY <1>4, <2>2, <2>4
    <3> QED BY <1>4, <2>4, <3>1
  <2> QED BY <1>4, <2>3, <2>4
<1>7. CASE ~Up'
  <2>1. client' = Consumed(client)
    BY <1>4, <1>7 DEF Advanced, Up
  <2> QED BY <1>5, <1>7, <2>1 DEF ClientOwned
<1>8. CASE Up'
  <2>1. client' = [Consumed(client) EXCEPT !.next = m]
    BY <1>4, <1>5, <1>8 DEF Advanced, Up
  <2> HIDE DEF m
  <2>2. client' \in ClientRecord /\ client'.trigger = 0 /\ client'.next = m
    BY <1>5, <1>6, <2>1 DEF ClientRecord
  <2>3. LastRequested' = NextTask
    BY <1>6, <2>2 DEF LastRequested, NextTask
  <2> QED BY <1>2, <1>3, <2>2, <2>3 DEF ClientOwned
<1> QED BY <1>7, <1>8

-----------------------------------------------------------------------------
(* The other steps. *)

\* The event handlers and the hardware answer requests, but make none and rebind none.
LEMMA HandlersAnswer ==
    ASSUME IInv,
           \/ RcfgComplete
           \/ \E s \in Slots, d \in Outcomes("notify") : SlotComplete(s, d) \/ SlotTimeout(s, d)
           \/ UNCHANGED <<req, reply>>,
           NEW r \in Requests
    PROVE  /\ req'[r].hw_task = req[r].hw_task
           /\ Waiting(r)' => Waiting(r)
<1>1. req \in [Requests -> RequestRecord] /\ reply \in [Requests -> Replies]
  BY DEF IInv, TypeOK
<1>2. ASSUME NEW u, NEW s, req' = [req EXCEPT ![u].slot = s] PROVE req'[r].hw_task = req[r].hw_task
  <2>1. req[r] \in RequestRecord /\ req'[r] \in {req[r], [req[r] EXCEPT !.slot = s]}
    BY <1>1, <1>2
  <2> QED BY <2>1 DEF RequestRecord
<1>3. ASSUME NEW u, NEW a \in {"DONE", "OVERRUN"}, reply' = [reply EXCEPT ![u] = a]
      PROVE  Waiting(r)' => Waiting(r)
  BY <1>1, <1>3 DEF Waiting
<1>4. CASE UNCHANGED <<req, reply>>
  BY <1>4 DEF Waiting
<1>5. CASE RcfgComplete
  <2>1. UNCHANGED <<req, reply>>
    BY Zenon, <1>5 DEF RcfgComplete, Abort
  <2> QED BY <1>4, <2>1
<1>6. ASSUME NEW s \in Slots, NEW d, SlotComplete(s, d) \/ SlotTimeout(s, d)
      PROVE  /\ req' = req \/ \E u, z : req' = [req EXCEPT ![u].slot = z]
             /\ reply' = reply \/ \E u : \E a \in {"DONE", "OVERRUN"} : reply' = [reply EXCEPT ![u] = a]
  <2>1. \A sl, tm, h, z, p : Pull(sl, tm, h, z, p) =>
           req' = req \/ \E u, y : req' = [req EXCEPT ![u].slot = y]
    BY Zenon DEF Pull
  <2>2. CASE SlotComplete(s, d)
    <3>1. req' = req \/ \E sl, tm, h, z, p : Pull(sl, tm, h, z, p)
      BY Zenon, <2>2 DEF SlotComplete, SlotHandler, Abort
    <3>2. reply' = reply \/ \E u : reply' = [reply EXCEPT ![u] = "DONE"]
      BY Zenon, <2>2 DEF SlotComplete, SlotHandler, Abort
    <3> QED BY Zenon, <2>1, <3>1, <3>2
  <2>3. CASE SlotTimeout(s, d)
    <3>1. req' = req \/ \E sl, tm, h, z, p : Pull(sl, tm, h, z, p)
      BY Zenon, <2>3 DEF SlotTimeout, Abort
    <3>2. reply' = reply \/ \E u : reply' = [reply EXCEPT ![u] = "OVERRUN"]
      BY Zenon, <2>3 DEF SlotTimeout, Abort
    <3> QED BY Zenon, <2>1, <3>1, <3>2
  <2> QED BY <1>6, <2>2, <2>3
<1>7. ASSUME NEW s \in Slots, NEW d, SlotComplete(s, d) \/ SlotTimeout(s, d)
      PROVE  req'[r].hw_task = req[r].hw_task /\ (Waiting(r)' => Waiting(r))
  BY <1>2, <1>3, <1>6, <1>7 DEF Waiting
<1> QED BY <1>4, <1>5, <1>7

\* A step of the random scheduler's event handlers or of the hardware.
Reacts ==
    \/ RandRcfgComplete
    \/ \E s \in Slots, d \in Outcomes("notify") : RandSlotComplete(s, d) \/ RandSlotTimeout(s, d)
    \/ Hardware /\ UNCHANGED client

\* What all of them have in common.
LEMMA ReactsAsDrivers ==
    ASSUME Reacts
    PROVE  /\ DriversNext /\ Up
           /\ \/ RcfgComplete
              \/ \E s \in Slots, d \in Outcomes("notify") : SlotComplete(s, d) \/ SlotTimeout(s, d)
              \/ UNCHANGED <<slot, req, reply>>
           /\ NotifyClient
<1>1. CASE RandRcfgComplete
  BY <1>1 DEF RandRcfgComplete, HandleRcfgComplete, RcfgComplete, DriversNext, Up
<1>2. ASSUME NEW s \in Slots, NEW d \in Outcomes("notify"), RandSlotComplete(s, d)
      PROVE  DriversNext /\ Up /\ SlotComplete(s, d) /\ NotifyClient
  BY <1>2 DEF RandSlotComplete, HandleSlotComplete, SlotComplete, SlotHandler, DriversNext, Up
<1>3. ASSUME NEW s \in Slots, NEW d \in Outcomes("notify"), RandSlotTimeout(s, d)
      PROVE  DriversNext /\ Up /\ SlotTimeout(s, d) /\ NotifyClient
  BY <1>3 DEF RandSlotTimeout, HandleSlotTimeout, SlotTimeout, DriversNext, Up
<1>4. CASE Hardware /\ UNCHANGED client
  <2>1. Up /\ UNCHANGED <<slot, req, reply>>
    BY <1>4 DEF Hardware, ModuleDone, RunawayDone, WatchdogExpires, BitstreamLoaded,
                AccelDone, TimerExpire, RcfgDone, vars, Up
  <2> QED BY <1>4, <2>1 DEF DriversNext, NotifyClient
<1> QED BY <1>1, <1>2, <1>3, <1>4 DEF Reacts

\* The client gets its byte back exactly when its request is answered.
LEMMA ReactsKeepsClient ==
    ASSUME TestOwned, Reacts
    PROVE  ClientOwned'
<1>1. client \in ClientRecord /\ ClientReq \in Requests /\ IInv
      /\ client.trigger = (IF Waiting(ClientReq) THEN 0 ELSE 1)
      /\ (Waiting(ClientReq) => req[ClientReq].hw_task = LastRequested)
  BY OneRequest, ReactsAsDrivers DEF TestOwned, ClientOwned
<1>2. NotifyClient
  BY ReactsAsDrivers
<1>3. /\ req'[ClientReq].hw_task = req[ClientReq].hw_task
      /\ Waiting(ClientReq)' => Waiting(ClientReq)
  <2>1. \/ RcfgComplete
        \/ \E s \in Slots, d \in Outcomes("notify") : SlotComplete(s, d) \/ SlotTimeout(s, d)
        \/ UNCHANGED <<req, reply>>
    BY ReactsAsDrivers
  <2> QED BY <1>1, <2>1, HandlersAnswer
<1>4. CASE Waiting(ClientReq) /\ ~Waiting(ClientReq)'
  <2>1. client' = [client EXCEPT !.trigger = @ + 1]
    BY <1>2, <1>4 DEF NotifyClient, Triggered, Waiting
  <2>2. client' \in ClientRecord /\ client'.trigger = 1
    BY <1>1, <1>4, <2>1 DEF ClientRecord
  <2> QED BY <1>4, <2>2 DEF ClientOwned
<1>5. CASE Waiting(ClientReq)' <=> Waiting(ClientReq)
  <2>1. client' = client
    BY <1>2, <1>5 DEF NotifyClient, Waiting
  <2>2. LastRequested' = LastRequested
    BY <2>1 DEF LastRequested
  <2> QED BY <1>1, <1>3, <1>5, <2>1, <2>2 DEF ClientOwned
<1> QED BY <1>3, <1>4, <1>5

-----------------------------------------------------------------------------
(* The invariant. *)

LEMMA InitTestOwned == TestInit => TestOwned
<1> SUFFICES ASSUME TestInit PROVE TestOwned
  OBVIOUS
<1>1. DriversInit /\ Init /\ client = [trigger |-> 1, next |-> 1]
  BY DEF TestInit, DriversInit
<1>2. IInv /\ Owned /\ DriversOwned
  BY <1>1, InitIInv, InitOwned, InitDevices
<1>3. DevcfgNotIdle /\ NoneSkips(Requests, req)
  BY <1>1 DEF Init, DevcfgNotIdle, NoneSkips
<1>4. ClientOwned
  <2>1. Len(TaskOrder) \in Nat /\ Len(TaskOrder) # 0
    BY TestModesOK, EmptySeq, LenProperties
  <2>2. client \in ClientRecord /\ client.trigger = 1
    BY <1>1, <2>1 DEF ClientRecord
  <2>3. ~Waiting(ClientReq)
    BY <1>1, OneRequest DEF Init, Waiting
  <2> QED BY <2>2, <2>3 DEF ClientOwned
<1> QED BY <1>2, <1>3, <1>4 DEF TestOwned

LEMMA TestSteps ==
    [TestNext]_tvars <=> CyclicHandleEvent \/ Reacts \/ UNCHANGED tvars
BY DEF TestNext, Reacts

LEMMA StepKeepsTestOwned ==
    ASSUME RaceFree, TestOwned, [TestNext]_tvars
    PROVE  TestOwned' /\ StartsFresh
<1>1. CASE CyclicHandleEvent
  <2>1. IInv' /\ Owned'
    BY <1>1, CyclicKeepsIInv, CyclicKeepsOwned
  <2>2. DriversOwned' /\ ClientOwned'
    BY <1>1, <2>1, CyclicKeepsDevices, CyclicKeepsClient
  <2>3. /\ DevcfgNotIdle' /\ NoneSkips(Requests, req)'
        /\ \A u \in Slots : slot'[u].state = "EXEC" => slot[u].state = "EXEC"
    BY <1>1, CyclicStartsNothing
  <2> QED BY <2>1, <2>2, <2>3 DEF TestOwned, StartsFresh
<1>2. CASE Reacts
  <2>1. [DriversNext]_dvars /\ [Next]_vars
    BY <1>2, ReactsAsDrivers, DriversStep
  <2>2. IInv' /\ Owned' /\ DevcfgNotIdle'
    BY <2>1, NextKeepsIInv, NextKeepsOwned, NextKeepsBusy DEF TestOwned
  <2>3. DriversOwned' /\ ClientOwned'
    BY <1>2, <2>1, <2>2, StepKeepsDevices, ReactsKeepsClient DEF TestOwned
  <2>4. NoneSkips(Requests, req)' /\ StartsFresh
    <3>1. \/ RcfgComplete
          \/ \E s \in Slots, d \in Outcomes("notify") : SlotComplete(s, d) \/ SlotTimeout(s, d)
          \/ UNCHANGED <<slot, req>>
      BY <1>2, ReactsAsDrivers
    <3> QED BY <3>1, HandlersReconfigure DEF TestOwned
  <2> QED BY <2>2, <2>3, <2>4 DEF TestOwned
<1>3. CASE UNCHANGED tvars
  <2>1. UNCHANGED dvars /\ UNCHANGED vars /\ UNCHANGED client /\ UNCHANGED <<slot, req, reply>>
    BY <1>3 DEF tvars, dvars, vars
  <2>2. IInv' /\ Owned' /\ DevcfgNotIdle'
    BY <2>1, NextKeepsIInv, NextKeepsOwned, NextKeepsBusy DEF TestOwned
  <2>3. DriversOwned'
    BY <2>1, <2>2, StepKeepsDevices DEF TestOwned
  <2>4. NoneSkips(Requests, req)' /\ StartsFresh
    BY <2>1 DEF TestOwned, NoneSkips, StartsFresh
  <2>5. ClientOwned'
    BY <2>1 DEF TestOwned, ClientOwned, Waiting, LastRequested, Up, vars
  <2> QED BY <2>2, <2>3, <2>4, <2>5 DEF TestOwned
<1> QED BY <1>1, <1>2, <1>3, TestSteps

\* In both test modes and under every driver the random scheduler keeps what the FRED
\* scheduler keeps, and the client's byte and its request are one token.
THEOREM TestInvariant == ASSUME RaceFree PROVE TestSpec => []TestOwned
<1>1. TestInit => TestOwned
  BY InitTestOwned
<1>2. TestOwned /\ [TestNext]_tvars => TestOwned'
  BY StepKeepsTestOwned
<1> QED BY <1>1, <1>2, PTL DEF TestSpec

-----------------------------------------------------------------------------
(* What it shows. *)

\* The one request is triggered again only after it was answered, and always then:
\* the embedded accel_req is never queued twice and the test never dies out.
THEOREM TokenNeverLost == ASSUME RaceFree PROVE TestSpec => []TokenConserved
<1>1. TestOwned => TokenConserved
  BY OneRequest, CountPlaces DEF TestOwned, ClientOwned, TokenConserved, ClientRecord
<1> QED BY <1>1, TestInvariant, PTL

\* The registers agree with the scheduler's model of the fabric in the test modes too.
THEOREM TestRegistersAgree == ASSUME RaceFree PROVE TestSpec => []DriversAgree
<1>1. TestOwned => DriversAgree
  BY DEF TestOwned, DriversOwned, DriversAgree, DeviceAgrees, MasterAgrees, NullAgrees,
         ManagerAgrees
<1> QED BY <1>1, TestInvariant, PTL

\* What starts executing is the hw-task whose turn it is, on the slot that was just
\* programmed with it, whatever was left behind there by a time-out.
THEOREM TestedInTurn == ASSUME RaceFree PROVE TestSpec => InTurnAndFresh
<1> USE ConstantsOK
<1>1. ASSUME RaceFree, TestOwned, [TestNext]_tvars
      PROVE  [\A s \in Slots :
                slot'[s].state = "EXEC" /\ slot[s].state # "EXEC" =>
                    /\ slot[s].state = "RCFG"
                    /\ devcfg.bit_slot = s
                    /\ devcfg.bit_task = LastRequested]_tvars
  <2>1. CASE UNCHANGED tvars
    BY <2>1
  <2>2. CASE Up
    <3>1. SUFFICES ASSUME NEW s \in Slots, slot'[s].state = "EXEC", slot[s].state # "EXEC"
                   PROVE  /\ slot[s].state = "RCFG" /\ devcfg.bit_slot = s
                          /\ devcfg.bit_task = LastRequested
      OBVIOUS
    <3>2. slot[s].state = "RCFG"
      BY <1>1, <3>1, StepKeepsTestOwned DEF StartsFresh
    <3>3. Placed(slot, devcfg, req, part_queues, fri_queue, Waiters)
      BY <1>1, <2>2 DEF TestOwned, Owned
    <3>4. PICK o \in Waiters : req[o].slot = s
      BY <3>2, <3>3 DEF Placed, SlotsMatched, Taken
    <3>5. o = ClientReq /\ Waiting(o) /\ s # NULL
      BY <3>4, OneRequest DEF Waiters
    <3>6. devcfg.state = "PROG" /\ devcfg.current_rcfg_req = o
      BY <3>2, <3>3, <3>4, <3>5 DEF Placed, InItsPlace
    <3>7. devcfg.bit_slot = s /\ devcfg.bit_task = req[o].hw_task
      BY <3>3, <3>4, <3>6 DEF Placed, DeviceHolds
    <3>8. req[o].hw_task = LastRequested
      BY <1>1, <2>2, <3>5 DEF TestOwned, ClientOwned
    <3> QED BY <3>2, <3>7, <3>8
  <2>3. UNCHANGED tvars \/ Up
    BY <1>1, TestSteps, CyclicPush, ReactsAsDrivers
  <2> QED BY <2>1, <2>2, <2>3
<1> QED BY <1>1, TestInvariant, PTL DEF TestSpec, InTurnAndFresh

\* When every hw-task's partition has a slot, a single request never finds it taken: no
\* sequence of completions, overruns and reconfigurations leaks one.
THEOREM SlotAlwaysFree ==
    ASSUME RaceFree, \A t \in HwTasks : \E s \in Slots : SlotPartition[s] = TaskPartition[t]
    PROVE  TestSpec => []NeverQueued
<1> USE ConstantsOK
<1>1. ASSUME TestOwned PROVE NeverQueued
  <2>1. SUFFICES ASSUME Up
                 PROVE  fri_queue = <<>> /\ \A p \in Partitions : part_queues[p] = <<>>
    BY DEF NeverQueued
  <2>2. /\ Placed(slot, devcfg, req, part_queues, fri_queue, Waiters)
        /\ Conserving(slot, part_queues) /\ DevcfgNotIdle /\ devcfg \in DevcfgRecord
        /\ req \in [Requests -> RequestRecord]
    BY <1>1, <2>1 DEF TestOwned, Owned, IInv, TypeOK
  <2>3. \A o \in Waiters : o = ClientReq /\ o \in Requests
    BY OneRequest DEF Waiters
  <2>4. ASSUME NEW q \in Seq(Waiters), q # <<>>
        PROVE  q[1] = ClientReq /\ ClientReq \in Waiters /\ 1 \in 1..Len(q)
    <3>1. 1 \in 1..Len(q)
      BY <2>4, EmptySeq, LenProperties
    <3>2. q[1] \in Waiters
      BY <3>1, ElementOfSeq
    <3> QED BY <2>3, <3>1, <3>2
  <2>5. ASSUME fri_queue # <<>> PROVE FALSE
    <3>1. fri_queue \in Seq(Waiters)
      BY <2>2 DEF Placed, FriHolds
    <3>2. slot[req[ClientReq].slot].state \in {"RSRV", "READY"}
      BY <2>2, <2>4, <2>5, <3>1 DEF Placed, FriHolds
    <3>3. devcfg.state = "PROG"
      BY <2>1, <2>2, <2>5 DEF DevcfgNotIdle, DevcfgRecord
    <3>4. slot[req[ClientReq].slot].state = "RCFG"
      BY <2>2, <2>3, <3>3 DEF Placed, DeviceHolds
    <3> QED BY <3>2, <3>4
  <2>6. ASSUME NEW p \in Partitions, part_queues[p] # <<>> PROVE FALSE
    <3>1. part_queues[p] \in Seq(Waiters)
      BY <2>2 DEF Placed, PartitionsHold
    <3>2. /\ req[ClientReq].slot = NULL /\ TaskPartition[req[ClientReq].hw_task] = p
          /\ ClientReq \in Waiters
      BY <2>2, <2>4, <2>6, <3>1 DEF Placed, PartitionsHold
    <3>3. req[ClientReq].hw_task \in HwTasks
      BY <2>2, <2>3, <3>2 DEF Placed, InItsPlace, RequestRecord
    <3>4. PICK s \in Slots : SlotPartition[s] = p
      BY <3>2, <3>3
    <3>5. slot[s].state \in Taken
      BY <2>2, <2>6, <3>4 DEF Conserving
    <3>6. PICK o \in Waiters : req[o].slot = s
      BY <2>2, <3>5 DEF Placed, SlotsMatched
    <3> QED BY <2>3, <3>2, <3>6
  <2> QED BY <2>5, <2>6
<1> QED BY <1>1, TestInvariant, PTL
=============================================================================
