----------------------- MODULE FredSchedulerService -----------------------
(***************************************************************************)
(* What the scheduler promises its clients.  First who is served first: the *)
(* FRI queue is ordered by the time stamps of the requests, although a      *)
(* request freed from a partition's queue joins it late, and no request     *)
(* overtakes another inside a partition, because one that gets a slot at    *)
(* once finds its partition's queue empty.  Then AccelService, which the    *)
(* scheduler implements step by step: what a client can see of the queues,  *)
(* the device and the watchdogs is that its request is accepted, runs at    *)
(* most once on a slot of its own, and is answered once.                    *)
(***************************************************************************)
EXTENDS FredSchedulerOwned

-----------------------------------------------------------------------------
(* The order of the queues: the inductive invariant. *)

\* Queue q, from its m-th element on, is ordered by the time stamps.
OrderedFrom(m, q, rq) ==
    \A i, j \in m..Len(q) : i < j => rq[q[i]].tstamp <= rq[q[j]].tstamp
Ordered(q, rq) == OrderedFrom(1, q, rq)

\* No waiting request was stamped in the future.
StampsPast(rq, W, now) == \A r \in W : rq[r].tstamp <= now

\* Each partition's queue is ordered, and behind those who have a slot of the partition.
OldestFirst(rq, pq, W) ==
    \A p \in Partitions :
        /\ Ordered(pq[p], rq)
        /\ \A i \in 1..Len(pq[p]) : \A o \in W :
             rq[o].slot # NULL /\ TaskPartition[rq[o].hw_task] = p
               => rq[o].tstamp <= rq[pq[p][i]].tstamp

InOrder ==
    Up => /\ StampsPast(req, Waiters, clock)
          /\ Ordered(fri_queue, req)
          /\ OldestFirst(req, part_queues, Waiters)

Stamped(rq) == \A r \in Requests : rq[r].tstamp \in Int

-----------------------------------------------------------------------------
(* Queues. *)

\* What is left of an ordered queue is ordered.
LEMMA SuffixOrdered ==
    ASSUME NEW B, NEW q \in Seq(B), NEW rq, NEW m \in 1..(Len(q) + 1), OrderedFrom(m, q, rq)
    PROVE  Ordered(SubSeq(q, m, Len(q)), rq)
<1> DEFINE a == SubSeq(q, m, Len(q))
<1>1. /\ Len(a) = Len(q) - m + 1 /\ Len(q) \in Nat
      /\ \A i \in 1..(Len(q) - m + 1) : a[i] = q[m + i - 1] /\ m + i - 1 \in m..Len(q)
  BY SuffixAt, LenProperties
<1> HIDE DEF a
<1>2. ASSUME NEW i \in 1..Len(a), NEW j \in 1..Len(a), i < j
      PROVE  rq[a[i]].tstamp <= rq[a[j]].tstamp
  <2> DEFINE x == m + i - 1
             y == m + j - 1
  <2>1. x \in m..Len(q) /\ y \in m..Len(q) /\ x < y /\ a[i] = q[x] /\ a[j] = q[y]
    BY <1>1, <1>2
  <2> HIDE DEF x, y
  <2> QED BY <2>1 DEF OrderedFrom
<1> QED BY <1>2 DEF Ordered, OrderedFrom, a

\* Inserting in front of the first strictly later request keeps the order.
LEMMA InsertOrdered ==
    ASSUME NEW q \in Seq(Requests), NEW r \in Requests, NEW rq, Stamped(rq),
           Ordered(q, rq), NEW k \in InsertPositions(q, rq, r)
    PROVE  Ordered(InsertedAfter(q, k, r), rq)
<1> DEFINE a == InsertedAfter(q, k, r)
           t(u) == rq[u].tstamp
<1>1. /\ k \in 0..Len(q) /\ Len(q) \in Nat
      /\ \A i \in 1..k : t(q[i]) <= t(r)
      /\ k < Len(q) => t(q[k + 1]) > t(r)
  BY LenProperties DEF InsertPositions
<1>2. /\ Len(a) = Len(q) + 1
      /\ \A i \in 1..k : a[i] = q[i]
      /\ a[k + 1] = r
      /\ \A i \in (k + 2)..(Len(q) + 1) : a[i] = q[i - 1]
  <2>1. Inserts(a, q, k, r)
    BY <1>1, InsertedAt
  <2> QED BY <2>1 DEF Inserts
<1> HIDE DEF a
<1>3. /\ t(r) \in Int /\ \A i \in 1..Len(q) : t(q[i]) \in Int
      /\ \A i, j \in 1..Len(q) : i <= j => t(q[i]) <= t(q[j])
  <2>1. \A i \in 1..Len(q) : q[i] \in Requests
    BY ElementOfSeq
  <2>2. t(r) \in Int /\ \A i \in 1..Len(q) : t(q[i]) \in Int
    BY <2>1 DEF Stamped
  <2>3. ASSUME NEW i \in 1..Len(q), NEW j \in 1..Len(q), i <= j PROVE t(q[i]) <= t(q[j])
    <3>1. CASE i = j
      BY <2>2, <3>1
    <3>2. CASE i < j
      BY <3>2 DEF Ordered, OrderedFrom
    <3> QED BY <2>3, <3>1, <3>2
  <2> QED BY <2>2, <2>3
<1> HIDE DEF t
<1>4. \A i \in (k + 1)..Len(q) : t(r) <= t(q[i])
  <2>1. ASSUME NEW i \in (k + 1)..Len(q) PROVE t(r) <= t(q[i])
    <3>1. k + 1 \in 1..Len(q) /\ i \in 1..Len(q) /\ k + 1 <= i /\ k < Len(q)
      BY <1>1
    <3>2. t(q[k + 1]) <= t(q[i]) /\ t(r) < t(q[k + 1])
      BY <1>1, <1>3, <3>1
    <3> QED BY <1>3, <3>1, <3>2
  <2> QED BY <2>1
<1>5. ASSUME NEW i \in 1..Len(a), NEW j \in 1..Len(a), i < j
      PROVE  t(a[i]) <= t(a[j])
  <2>1. CASE j <= k
    <3>1. a[i] = q[i] /\ a[j] = q[j] /\ i \in 1..Len(q) /\ j \in 1..Len(q)
      BY <1>1, <1>2, <1>5, <2>1
    <3> QED BY <1>3, <1>5, <3>1
  <2>2. CASE j = k + 1
    <3>1. a[i] = q[i] /\ i \in 1..k /\ a[j] = r
      BY <1>1, <1>2, <1>5, <2>2
    <3> QED BY <1>1, <3>1
  <2>3. CASE j > k + 1
    <3> DEFINE y == j - 1
    <3>1. a[j] = q[y] /\ y \in (k + 1)..Len(q) /\ y \in 1..Len(q)
      BY <1>1, <1>2, <2>3
    <3>2. CASE i <= k
      <4>1. a[i] = q[i] /\ i \in 1..Len(q) /\ i <= y
        BY <1>1, <1>2, <2>3, <3>2
      <4> QED BY <1>3, <3>1, <4>1
    <3>3. CASE i = k + 1
      <4>1. a[i] = r
        BY <1>2, <3>3
      <4> QED BY <1>4, <3>1, <4>1
    <3>4. CASE i > k + 1
      <4> DEFINE x == i - 1
      <4>1. a[i] = q[x] /\ x \in 1..Len(q) /\ x <= y
        BY <1>1, <1>2, <1>5, <3>4
      <4> HIDE DEF x, y
      <4> QED BY <1>3, <3>1, <4>1
    <3> QED BY <1>1, <3>2, <3>3, <3>4
  <2> QED BY <1>1, <2>1, <2>2, <2>3
<1> QED BY <1>5 DEF Ordered, OrderedFrom, a, t

\* Serving a run leaves a suffix of it, without the request that was just reconfigured.
LEMMA ServeLeavesSuffix ==
    ASSUME NEW B, NULL \notin B, NEW sl, NEW tm, NEW h, NEW dv, NEW rq,
           NEW run \in Seq(B), NEW ready, Serve(sl, tm, h, dv, rq, run, ready)
    PROVE  \E m \in 1..(Len(run) + 1) :
              /\ fri_queue' = SubSeq(run, m, Len(run))
              /\ run # <<>> /\ run[1] = ready => m # 1
<1>1. PICK n \in StartCounts(h, rq, run, ready) :
        fri_queue' = SubSeq(run, IF Programmed(h, rq, run, n) = NULL THEN n + 1 ELSE n + 2,
                            Len(run))
  BY Zenon DEF Serve
<1> DEFINE m == IF Programmed(h, rq, run, n) = NULL THEN n + 1 ELSE n + 2
<1>2. n \in 0..Len(run) /\ Len(run) \in Nat
  BY LenProperties DEF StartCounts
<1>3. Programmed(h, rq, run, n) # NULL => n # Len(run)
  BY DEF Programmed
<1>4. m \in 1..(Len(run) + 1)
  BY <1>2, <1>3
<1>5. run # <<>> /\ run[1] = ready => m # 1
  <2>1. ASSUME run # <<>>, run[1] = ready PROVE n # 0
    <3>1. Len(run) # 0 /\ ~(0 > 0)
      BY <2>1, EmptySeq
    <3>2. NeedsNoRcfg(rq, run, ready, 1)
      BY <2>1 DEF NeedsNoRcfg
    <3> QED BY <3>1, <3>2 DEF StartCounts, StartFails
  <2> QED BY <1>2, <2>1
<1> HIDE DEF m
<1>6. fri_queue' = SubSeq(run, m, Len(run))
  BY <1>1 DEF m
<1> QED BY <1>4, <1>5, <1>6

\* A request pushed to the FRI queue, served or not, keeps it ordered.
LEMMA PushOrdered ==
    ASSUME fri_queue \in Seq(Requests), NEW sl, NEW tm, NEW h, NEW rq, Stamped(rq),
           Ordered(fri_queue, rq), NEW r \in Requests, PushFri(sl, tm, h, rq, r)
    PROVE  Ordered(fri_queue', rq)
<1>1. PICK k \in InsertPositions(fri_queue, rq, r) :
        \/ Serve(sl, tm, h, devcfg, rq, InsertedAfter(fri_queue, k, r), NULL)
        \/ fri_queue' = InsertedAfter(fri_queue, k, r)
  BY Zenon DEF PushFri
<1> DEFINE q == InsertedAfter(fri_queue, k, r)
<1>2. q \in Seq(Requests)
  BY InsertTyped DEF InsertPositions
<1>3. Ordered(q, rq)
  BY InsertOrdered
<1> HIDE DEF q
<1>4. CASE Serve(sl, tm, h, devcfg, rq, q, NULL)
  <2>1. NULL \notin Requests
    BY ConstantsOK
  <2>2. PICK m \in 1..(Len(q) + 1) : fri_queue' = SubSeq(q, m, Len(q))
    BY <1>2, <1>4, <2>1, ServeLeavesSuffix
  <2>3. OrderedFrom(m, q, rq)
    BY <1>3 DEF Ordered, OrderedFrom
  <2> QED BY <1>2, <2>2, <2>3, SuffixOrdered
<1>5. CASE fri_queue' = q
  BY <1>3, <1>5
<1> QED BY <1>1, <1>4, <1>5 DEF q

\* A freed slot goes to the oldest request of its partition's queue.
LEMMA PullOrdered ==
    ASSUME IInv, NEW sl, NEW tm, NEW h, NEW s, NEW p \in Partitions,
           PartitionsHold(req, part_queues, Waiters),
           Ordered(fri_queue, req), OldestFirst(req, part_queues, Waiters),
           NEW V \in SUBSET Waiters, Pull(sl, tm, h, s, p)
    PROVE  /\ Ordered(fri_queue', req')
           /\ OldestFirst(req', part_queues', V)
           /\ \A u \in Requests : req'[u].tstamp = req[u].tstamp
<1>1. /\ req \in [Requests -> RequestRecord] /\ fri_queue \in Seq(Requests)
      /\ part_queues \in [Partitions -> Seq(Requests)]
  BY DEF IInv, TypeOK
<1>2. CASE part_queues[p] = <<>>
  <2>1. UNCHANGED <<req, part_queues, fri_queue>>
    BY <1>2 DEF Pull
  <2>2. OldestFirst(req, part_queues, V)
    BY DEF OldestFirst
  <2> QED BY <2>1, <2>2
<1>3. CASE part_queues[p] # <<>>
  <2> DEFINE r == Head(part_queues[p])
             rq == [req EXCEPT ![r].slot = s]
             npq == [part_queues EXCEPT ![p] = Tail(@)]
  <2>1. /\ part_queues' = npq /\ req' = rq
        /\ PushFri(SetReserved(sl, s), tm, h, rq, r)
    BY <1>3 DEF Pull
  <2>2. /\ part_queues[p] \in Seq(Waiters) /\ Distinct(part_queues[p])
        /\ Waiters \in SUBSET Requests
    BY DEF PartitionsHold, Waiters
  <2>3. r \in Requests /\ TaskPartition[req[r].hw_task] = p
    <3>1. WantsSlotOf(r, p, req, Waiters)
      BY <1>3, HeadWants
    <3> HIDE DEF r
    <3> QED BY <2>2, <3>1 DEF WantsSlotOf
  <2>4. /\ Len(npq[p]) = Len(part_queues[p]) - 1 /\ Len(part_queues[p]) \in Nat
        /\ \A i \in 1..Len(npq[p]) : npq[p][i] = part_queues[p][i + 1]
        /\ part_queues[p][1] = r
        /\ \A u \in Partitions : u # p => npq[u] = part_queues[u]
    <3>1. /\ Len(Tail(part_queues[p])) = Len(part_queues[p]) - 1
          /\ Len(part_queues[p]) \in Nat
          /\ \A i \in 1..Len(Tail(part_queues[p])) :
               Tail(part_queues[p])[i] = part_queues[p][i + 1]
      BY <1>3, <2>2, HeadOff, LenProperties
    <3>2. npq[p] = Tail(part_queues[p]) /\ \A u \in Partitions : u # p => npq[u] = part_queues[u]
      BY <1>1
    <3>3. part_queues[p][1] = r
      OBVIOUS
    <3> HIDE DEF r, npq
    <3> QED BY <3>1, <3>2, <3>3
  <2> HIDE DEF r, npq
  <2>5. \A u \in Requests : /\ rq[u].tstamp = req[u].tstamp /\ rq[u].hw_task = req[u].hw_task
                            /\ rq[u].tstamp \in Int
                            /\ u # r => rq[u] = req[u]
    <3>1. ASSUME NEW u \in Requests, u # r PROVE rq[u] = req[u]
      BY <1>1, <3>1
    <3>2. /\ rq[r].tstamp = req[r].tstamp /\ rq[r].hw_task = req[r].hw_task
      <4>1. rq[r] = [req[r] EXCEPT !.slot = s] /\ req[r] \in RequestRecord
        BY <1>1, <2>3
      <4> HIDE DEF rq
      <4> QED BY <4>1 DEF RequestRecord
    <3>3. \A u \in Requests : req[u].tstamp \in Int
      BY <1>1, ConstantsOK DEF RequestRecord
    <3> HIDE DEF rq
    <3> QED BY <3>1, <3>2, <3>3
  <2> HIDE DEF rq
  <2>6. Ordered(fri_queue, rq)
    <3>1. \A i \in 1..Len(fri_queue) : fri_queue[i] \in Requests
      BY <1>1, ElementOfSeq
    <3> QED BY <2>5, <3>1 DEF Ordered, OrderedFrom
  <2>7. Ordered(fri_queue', rq)
    BY <1>1, <2>1, <2>3, <2>5, <2>6, PushOrdered DEF Stamped
  <2>8. \A u \in Partitions : \A i \in 1..Len(part_queues[u]) : part_queues[u][i] \in Requests
    BY <1>1, ElementOfSeq
  <2>9. ASSUME NEW u \in Partitions
        PROVE  /\ Ordered(npq[u], rq)
               /\ \A i \in 1..Len(npq[u]) : \A o \in V :
                    rq[o].slot # NULL /\ TaskPartition[rq[o].hw_task] = u
                      => rq[o].tstamp <= rq[npq[u][i]].tstamp
    <3>1. /\ \A i, j \in 1..Len(part_queues[u]) : i < j =>
               req[part_queues[u][i]].tstamp <= req[part_queues[u][j]].tstamp
          /\ \A i \in 1..Len(part_queues[u]) : \A o \in V :
               req[o].slot # NULL /\ TaskPartition[req[o].hw_task] = u
                 => req[o].tstamp <= req[part_queues[u][i]].tstamp
      BY DEF OldestFirst, Ordered, OrderedFrom
    <3>2. CASE u # p
      <4>1. npq[u] = part_queues[u]
        BY <2>4, <3>2
      <4>2. Ordered(npq[u], rq)
        BY <2>5, <2>8, <3>1, <4>1 DEF Ordered, OrderedFrom
      <4>3. ASSUME NEW i \in 1..Len(npq[u]), NEW o \in V,
                   rq[o].slot # NULL, TaskPartition[rq[o].hw_task] = u
            PROVE  rq[o].tstamp <= rq[npq[u][i]].tstamp
        <5>1. o \in Requests /\ npq[u][i] \in Requests
          BY <2>2, <2>8, <4>1
        <5>2. o # r
          BY <2>3, <2>5, <3>2, <4>3
        <5> QED BY <2>5, <3>1, <4>1, <4>3, <5>1, <5>2
      <4> QED BY <4>2, <4>3
    <3>3. CASE u = p
      <4>1. \A i \in 1..Len(npq[p]) : /\ i + 1 \in 1..Len(part_queues[p])
                                      /\ npq[p][i] = part_queues[p][i + 1]
                                      /\ npq[p][i] \in Requests
        BY <2>4, <2>8
      <4>2. Ordered(npq[p], rq)
        <5>1. ASSUME NEW i \in 1..Len(npq[p]), NEW j \in 1..Len(npq[p]), i < j
              PROVE  rq[npq[p][i]].tstamp <= rq[npq[p][j]].tstamp
          <6> DEFINE x == i + 1
                     y == j + 1
          <6>1. x \in 1..Len(part_queues[p]) /\ y \in 1..Len(part_queues[p]) /\ x < y
            BY <4>1, <5>1
          <6>2. npq[p][i] = part_queues[p][x] /\ npq[p][j] = part_queues[p][y]
            BY <4>1
          <6> HIDE DEF x, y
          <6>3. req[npq[p][i]].tstamp <= req[npq[p][j]].tstamp
            BY <3>1, <3>3, <6>1, <6>2
          <6> QED BY <2>5, <4>1, <6>3
        <5> QED BY <5>1 DEF Ordered, OrderedFrom
      <4>3. ASSUME NEW i \in 1..Len(npq[p]), NEW o \in V,
                   rq[o].slot # NULL, TaskPartition[rq[o].hw_task] = p
            PROVE  rq[o].tstamp <= rq[npq[p][i]].tstamp
        <5> DEFINE x == i + 1
        <5>1. /\ x \in 1..Len(part_queues[p]) /\ 1 \in 1..Len(part_queues[p]) /\ 1 < x
              /\ npq[p][i] = part_queues[p][x] /\ npq[p][i] \in Requests /\ o \in Requests
          BY <2>2, <2>4, <4>1
        <5> HIDE DEF x
        <5>2. CASE o = r
          <6>1. req[part_queues[p][1]].tstamp <= req[part_queues[p][x]].tstamp
            BY <3>1, <3>3, <5>1
          <6> QED BY <2>4, <2>5, <5>1, <5>2, <6>1
        <5>3. CASE o # r
          <6>1. rq[o] = req[o]
            BY <2>5, <5>1, <5>3
          <6>2. req[o].tstamp <= req[part_queues[p][x]].tstamp
            BY <3>1, <3>3, <4>3, <5>1, <6>1
          <6> QED BY <2>5, <5>1, <6>2
        <5> QED BY <5>2, <5>3
      <4> QED BY <3>3, <4>2, <4>3
    <3> QED BY <3>2, <3>3
  <2>10. OldestFirst(rq, npq, V)
    BY <2>9 DEF OldestFirst
  <2> QED BY <2>1, <2>5, <2>7, <2>10
<1> QED BY <1>2, <1>3

-----------------------------------------------------------------------------
(* Every step keeps the order. *)

\* A step that rewrites no request, no queue and no clock, and makes nobody wait.
LEMMA QuietKeepsOrder ==
    ASSUME Up, InOrder, UNCHANGED <<req, part_queues, fri_queue, clock>>,
           Waiters' \subseteq Waiters
    PROVE  InOrder'
<1>1. /\ StampsPast(req, Waiters, clock) /\ Ordered(fri_queue, req)
      /\ OldestFirst(req, part_queues, Waiters)
  BY DEF InOrder
<1>2. StampsPast(req, Waiters', clock) /\ OldestFirst(req, part_queues, Waiters')
  BY <1>1 DEF StampsPast, OldestFirst
<1>3. StampsPast(req', Waiters', clock') /\ OldestFirst(req', part_queues', Waiters')
  BY <1>2
<1>4. Ordered(fri_queue', req')
  BY <1>1
<1> QED BY <1>3, <1>4 DEF InOrder

\* A new request is the youngest: it may go last, and gets a slot of its partition at
\* once only when nobody waits there.
LEMMA RunKeepsOrder ==
    ASSUME IInv, Owned, InOrder, NEW r \in Requests, NEW t \in HwTasks, Run(r, t)
    PROVE  InOrder'
<1> USE ConstantsOK
<1> DEFINE p == TaskPartition[t]
           W == Waiters
           V == W \cup {r}
<1>1. /\ req \in [Requests -> RequestRecord] /\ clock \in Int
      /\ part_queues \in [Partitions -> Seq(Requests)] /\ fri_queue \in Seq(Requests)
      /\ p \in Partitions /\ \A u \in Requests : req[u].tstamp \in Int
  BY DEF IInv, TypeOK, RequestRecord
<1>2. /\ Up /\ r \notin W /\ W \in SUBSET Requests /\ Waiters' = V
  <2>1. Up /\ reply[r] # "wait" /\ reply' = [reply EXCEPT ![r] = "wait"]
    BY DEF Run, Push, Up
  <2> QED BY <2>1, WaitersAfter DEF Waiters, Waiting
<1>3. /\ PartitionsHold(req, part_queues, W) /\ fri_queue \in Seq(W)
      /\ Conserving(slot, part_queues)
  BY <1>2 DEF Owned, Placed, FriHolds
<1>4. /\ \A u \in W : req[u].tstamp <= clock
      /\ Ordered(fri_queue, req) /\ OldestFirst(req, part_queues, W)
  BY <1>2 DEF InOrder, StampsPast
<1>5. PICK now \in clock..(clock + 1) :
        LET fresh == Unbound(r, t, now)
        IN /\ now <= MaxClock
           /\ clock' = now
           /\ \/ /\ SearchSlot(p, t) = {}
                 /\ req' = [req EXCEPT ![r] = fresh]
                 /\ part_queues' = [part_queues EXCEPT ![p] = Enqueue(@, r)]
                 /\ UNCHANGED <<slot, timer, hw, devcfg, fri_queue, status>>
              \/ \E s \in SearchSlot(p, t) :
                    LET rq == [req EXCEPT ![r] =
                                [fresh EXCEPT !.slot = s,
                                              !.skip_rcfg = @ \/ MaySkip(s, t)]]
                    IN /\ req' = rq
                       /\ UNCHANGED part_queues
                       /\ PushFri(SetReserved(slot, s), timer, hw, rq, r)
  BY Zenon DEF Run, Push, PushAccelReq
<1> DEFINE fresh == Unbound(r, t, now)
<1>6. now \in Int /\ clock' = now /\ clock <= now
  <2>1. clock' = now
    BY Zenon, <1>5
  <2> QED BY <1>1, <2>1
<1>7. fresh.hw_task = t /\ fresh.slot = NULL /\ fresh.tstamp = now
  BY DEF Unbound
<1> HIDE DEF W, fresh
<1>8. \A u \in Partitions : \A i \in 1..Len(part_queues[u]) :
         part_queues[u][i] \in W /\ part_queues[u][i] \in Requests
  BY <1>2, <1>3, ElementOfSeq DEF PartitionsHold
<1>9. \A i \in 1..Len(fri_queue) : fri_queue[i] \in W
  BY <1>3, ElementOfSeq
<1>10. ASSUME NEW rq, \A u \in W : rq[u] = req[u], rq[r].tstamp = now
       PROVE  /\ StampsPast(rq, V, now) /\ Ordered(fri_queue, rq)
              /\ \A u \in Partitions : Ordered(part_queues[u], rq)
  <2>1. StampsPast(rq, V, now)
    BY <1>1, <1>2, <1>4, <1>6, <1>10 DEF StampsPast
  <2>2. Ordered(fri_queue, rq)
    BY <1>4, <1>9, <1>10 DEF Ordered, OrderedFrom
  <2>3. \A u \in Partitions : Ordered(part_queues[u], rq)
    BY <1>4, <1>8, <1>10 DEF OldestFirst, Ordered, OrderedFrom
  <2> QED BY <2>1, <2>2, <2>3
<1>11. CASE /\ req' = [req EXCEPT ![r] = fresh]
            /\ part_queues' = [part_queues EXCEPT ![p] = Enqueue(@, r)]
            /\ UNCHANGED <<slot, timer, hw, devcfg, fri_queue, status>>
  <2> DEFINE rq == [req EXCEPT ![r] = fresh]
             npq == [part_queues EXCEPT ![p] = Enqueue(@, r)]
  <2>1. rq[r] = fresh /\ \A u \in W : rq[u] = req[u]
    BY <1>1, <1>2
  <2>2. /\ \A u \in Partitions : u # p => npq[u] = part_queues[u]
        /\ Len(npq[p]) = Len(part_queues[p]) + 1 /\ Len(part_queues[p]) \in Nat
        /\ \A i \in 1..Len(part_queues[p]) : npq[p][i] = part_queues[p][i]
        /\ npq[p][Len(part_queues[p]) + 1] = r
    <3>1. npq[p] = Append(part_queues[p], r) /\ part_queues[p] \in Seq(Requests)
      BY <1>1 DEF Enqueue
    <3>2. \A u \in Partitions : u # p => npq[u] = part_queues[u]
      BY <1>1
    <3> HIDE DEF npq, p
    <3> QED BY <3>1, <3>2, AppendProperties, LenProperties
  <2> HIDE DEF rq, npq
  <2>3. /\ StampsPast(rq, V, now) /\ Ordered(fri_queue, rq)
        /\ \A u \in Partitions : Ordered(part_queues[u], rq)
    BY <1>7, <1>10, <2>1
  <2>4. \A o \in V : rq[o].slot # NULL => o \in W
    BY <1>7, <2>1
  <2>5. \A u \in V : rq[u].tstamp <= now
    BY <2>3 DEF StampsPast
  <2>6. ASSUME NEW u \in Partitions
        PROVE  /\ Ordered(npq[u], rq)
               /\ \A i \in 1..Len(npq[u]) : \A o \in V :
                    rq[o].slot # NULL /\ TaskPartition[rq[o].hw_task] = u
                      => rq[o].tstamp <= rq[npq[u][i]].tstamp
    <3>1. \A i \in 1..Len(part_queues[u]) : \A o \in V :
             rq[o].slot # NULL /\ TaskPartition[rq[o].hw_task] = u
               => rq[o].tstamp <= rq[part_queues[u][i]].tstamp
      BY <1>4, <1>8, <2>1, <2>4 DEF OldestFirst
    <3>2. CASE u # p
      <4> HIDE DEF p, V
      <4> QED BY <2>2, <2>3, <3>1, <3>2
    <3>3. CASE u = p
      <4> DEFINE last == Len(part_queues[p]) + 1
      <4>1. npq[p][last] = r /\ \A i \in 1..Len(npq[p]) : i # last =>
               i \in 1..Len(part_queues[p]) /\ npq[p][i] = part_queues[p][i]
        BY <2>2
      <4>2. rq[r].tstamp = now
        BY <1>7, <2>1
      <4>3. \A i, j \in 1..Len(npq[p]) : i < j => i # last
        BY <2>2
      <4> HIDE DEF last
      <4>4. Ordered(npq[p], rq)
        <5>1. ASSUME NEW i \in 1..Len(npq[p]), NEW j \in 1..Len(npq[p]), i < j
              PROVE  rq[npq[p][i]].tstamp <= rq[npq[p][j]].tstamp
          <6>1. i \in 1..Len(part_queues[p]) /\ npq[p][i] = part_queues[p][i]
            BY <4>1, <4>3, <5>1
          <6>2. CASE j = last
            <7>1. part_queues[p][i] \in V
              BY <1>1, <1>8, <6>1
            <7> QED BY <2>5, <4>1, <4>2, <6>1, <6>2, <7>1
          <6>3. CASE j # last
            <7>1. j \in 1..Len(part_queues[p]) /\ npq[p][j] = part_queues[p][j]
              BY <4>1, <6>3
            <7>2. Ordered(part_queues[p], rq)
              BY <1>1, <2>3
            <7> QED BY <5>1, <6>1, <7>1, <7>2 DEF Ordered, OrderedFrom
          <6> QED BY <6>2, <6>3
        <5> QED BY <5>1 DEF Ordered, OrderedFrom
      <4>5. ASSUME NEW i \in 1..Len(npq[p]), NEW o \in V,
                   rq[o].slot # NULL, TaskPartition[rq[o].hw_task] = p
            PROVE  rq[o].tstamp <= rq[npq[p][i]].tstamp
        <5>1. CASE i = last
          BY <2>5, <4>1, <4>2, <5>1
        <5>2. CASE i # last
          BY <3>1, <3>3, <4>1, <4>5, <5>2
        <5> QED BY <5>1, <5>2
      <4> QED BY <3>3, <4>4, <4>5
    <3> QED BY <3>2, <3>3
  <2>7. OldestFirst(rq, npq, V)
    BY <2>6 DEF OldestFirst
  <2>8. req' = rq /\ part_queues' = npq /\ fri_queue' = fri_queue
    BY <1>11 DEF rq, npq
  <2> QED BY <1>2, <1>6, <2>3, <2>7, <2>8 DEF InOrder
<1>12. ASSUME NEW s \in SearchSlot(p, t),
              req' = [req EXCEPT ![r] = [fresh EXCEPT !.slot = s,
                                           !.skip_rcfg = @ \/ MaySkip(s, t)]],
              UNCHANGED part_queues,
              PushFri(SetReserved(slot, s), timer, hw,
                      [req EXCEPT ![r] = [fresh EXCEPT !.slot = s,
                                            !.skip_rcfg = @ \/ MaySkip(s, t)]], r)
       PROVE  InOrder'
  <2> DEFINE bound == [fresh EXCEPT !.slot = s, !.skip_rcfg = @ \/ MaySkip(s, t)]
             rq == [req EXCEPT ![r] = bound]
  <2>1. /\ s \in Slots /\ SlotPartition[s] = p /\ slot[s].state \in {"IDLE", "BLANK"}
    BY SearchFinds DEF AvailableSlots, IsAvailable
  <2>2. part_queues[p] = <<>>
    BY <1>3, <2>1 DEF Conserving, Taken
  <2>3. bound.hw_task = t /\ bound.tstamp = now
    BY DEF Unbound, fresh
  <2> HIDE DEF bound
  <2>4. rq[r] = bound /\ \A u \in Requests : u # r => rq[u] = req[u]
    BY <1>1
  <2> HIDE DEF rq
  <2>5. Stamped(rq) /\ \A u \in W : rq[u] = req[u]
    BY <1>1, <1>2, <1>6, <2>3, <2>4 DEF Stamped
  <2>6. /\ StampsPast(rq, V, now) /\ Ordered(fri_queue, rq)
        /\ \A u \in Partitions : Ordered(part_queues[u], rq)
    BY <1>10, <2>3, <2>4, <2>5
  <2>7. Ordered(fri_queue', rq)
    <3>1. PushFri(SetReserved(slot, s), timer, hw, rq, r)
      BY <1>12 DEF rq, bound
    <3> QED BY <1>1, <2>5, <2>6, <3>1, PushOrdered
  <2>8. OldestFirst(rq, part_queues, V)
    <3>1. ASSUME NEW u \in Partitions, NEW i \in 1..Len(part_queues[u]), NEW o \in V,
                 rq[o].slot # NULL, TaskPartition[rq[o].hw_task] = u
          PROVE  rq[o].tstamp <= rq[part_queues[u][i]].tstamp
      <4>1. u # p
        BY <2>2, <3>1, EmptySeq
      <4>2. o # r
        BY <2>3, <2>4, <3>1, <4>1
      <4>3. o \in W /\ part_queues[u][i] \in W
        BY <1>8, <4>2
      <4> QED BY <1>4, <2>5, <3>1, <4>3 DEF OldestFirst
    <3> QED BY <2>6, <3>1 DEF OldestFirst
  <2>9. req' = rq /\ part_queues' = part_queues
    BY <1>12 DEF rq, bound
  <2> QED BY <1>2, <1>6, <2>6, <2>7, <2>8, <2>9 DEF InOrder
<1> QED BY <1>5, <1>11, <1>12 DEF fresh

\* A reconfigured request leaves the device, the queue behind it stays in order.
LEMMA RcfgCompleteKeepsOrder ==
    ASSUME IInv, InOrder, RcfgComplete
    PROVE  InOrder'
<1> SUFFICES ASSUME Up' PROVE InOrder'
  BY DEF InOrder
<1> DEFINE r == devcfg.current_rcfg_req
           s == req[r].slot
           dv == [devcfg EXCEPT !.state = "IDLE", !.drv = "quiet"]
           sl == [slot EXCEPT ![s].state = "READY"]
           h == Couple(hw, s)
           run == <<r>> \o fri_queue
<1>1. Up /\ r \in Requests
  BY DEF IInv, Pointers, Typed, RcfgComplete, Bound, Up
<1>2. /\ StampsPast(req, Waiters, clock) /\ Ordered(fri_queue, req)
      /\ OldestFirst(req, part_queues, Waiters)
  BY <1>1 DEF InOrder
<1>3. fri_queue \in Seq(Requests) /\ Len(fri_queue) \in Nat
  BY LenProperties DEF IInv, TypeOK
<1>4. status' = "up"
  BY DEF Up
<1> HIDE DEF r, s, dv, sl, h
<1>5. Serve(sl, timer, h, dv, req, run, r) /\ UNCHANGED <<req, part_queues, clock, reply>>
  <2> HIDE DEF run
  <2>1. \/ status' # "up"
        \/ Serve(sl, timer, h, dv, req, run, r) /\ UNCHANGED <<req, part_queues, clock, reply>>
    BY Zenon DEF RcfgComplete, Abort, r, s, dv, sl, h, run
  <2> QED BY <1>4, <2>1
<1>6. /\ run \in Seq(Requests) /\ Len(run) = Len(fri_queue) + 1 /\ run[1] = r
      /\ \A i \in 2..Len(run) : run[i] = fri_queue[i - 1]
  <2>1. <<r>> \in Seq(Requests) /\ Len(<<r>>) = 1 /\ <<r>>[1] = r
    BY <1>1
  <2>2. /\ run \in Seq(Requests) /\ Len(run) = 1 + Len(fri_queue)
        /\ \A i \in 1..(1 + Len(fri_queue)) : run[i] =
              IF i <= 1 THEN <<r>>[i] ELSE fri_queue[i - 1]
    BY <1>3, <2>1, ConcatProperties
  <2> HIDE DEF run
  <2> QED BY <1>3, <2>1, <2>2
<1> HIDE DEF run
<1>7. PICK m \in 1..(Len(run) + 1) :
        /\ fri_queue' = SubSeq(run, m, Len(run))
        /\ run # <<>> /\ run[1] = r => m # 1
  <2>1. NULL \notin Requests
    BY ConstantsOK
  <2> QED BY <1>5, <1>6, <2>1, ServeLeavesSuffix
<1>8. OrderedFrom(m, run, req)
  <2>1. m # 1
    BY <1>3, <1>6, <1>7, EmptySeq
  <2>2. ASSUME NEW i \in m..Len(run), NEW j \in m..Len(run), i < j
        PROVE  req[run[i]].tstamp <= req[run[j]].tstamp
    <3> DEFINE x == i - 1
               y == j - 1
    <3>1. /\ x \in 1..Len(fri_queue) /\ y \in 1..Len(fri_queue) /\ x < y
          /\ run[i] = fri_queue[x] /\ run[j] = fri_queue[y]
      BY <1>3, <1>6, <2>1, <2>2
    <3> HIDE DEF x, y
    <3> QED BY <1>2, <3>1 DEF Ordered, OrderedFrom
  <2> QED BY <2>2 DEF OrderedFrom
<1>9. Ordered(fri_queue', req)
  BY <1>6, <1>7, <1>8, SuffixOrdered
<1>10. Waiters' = Waiters
  BY <1>5 DEF Waiters, Waiting
<1> QED BY <1>2, <1>5, <1>9, <1>10 DEF InOrder

\* Whoever is answered, the freed slot is handed on in order.
LEMMA HandlersKeepOrder ==
    ASSUME IInv, Owned, InOrder, NEW i \in Slots, NEW d,
           SlotComplete(i, d) \/ SlotTimeout(i, d)
    PROVE  InOrder'
<1> SUFFICES ASSUME status' = "up" PROVE InOrder'
  BY DEF InOrder, Up
<1>1. Up
  BY DEF SlotComplete, SlotHandler, SlotTimeout, Up
<1>2. /\ StampsPast(req, Waiters, clock) /\ Ordered(fri_queue, req)
      /\ OldestFirst(req, part_queues, Waiters)
      /\ PartitionsHold(req, part_queues, Waiters)
  BY <1>1 DEF InOrder, Owned, Placed
<1>3. \E r \in Bound, a \in {"DONE", "OVERRUN"} : \E sl, tm, h, z :
         /\ reply' = [reply EXCEPT ![r] = a] /\ UNCHANGED clock
         /\ Pull(sl, tm, h, z, TaskPartition[req[r].hw_task])
  <2>1. CASE SlotComplete(i, d)
    <3> DEFINE r == slot[i].exec_req
               z == req[r].slot
               sl == ClearAfterCompute(slot, z)
               tm == Disarm(timer, z)
               h == ConsumeIrq(hw, z)
    <3>1. r \in Bound
      BY <2>1 DEF IInv, Pointers, Typed, SlotComplete
    <3> HIDE DEF r, z, sl, tm, h
    <3>2. \/ status' # "up"
          \/ /\ reply' = [reply EXCEPT ![r] = "DONE"] /\ UNCHANGED clock
             /\ Pull(sl, tm, h, z, TaskPartition[req[r].hw_task])
      BY Zenon, <2>1 DEF SlotComplete, SlotHandler, Abort, r, z, sl, tm, h
    <3> QED BY <3>1, <3>2
  <2>2. CASE SlotTimeout(i, d)
    <3> DEFINE r == timer[i].exec_req
               z == req[r].slot
               tm == [timer EXCEPT ![i].state = "off"]
               sl == DisableAfterTimeout(slot, z)
               h == Decouple(hw, z)
    <3>1. r \in Bound
      BY <2>2 DEF IInv, Pointers, Typed, SlotTimeout
    <3> HIDE DEF r, z, sl, tm, h
    <3>2. \/ status' # "up"
          \/ /\ reply' = [reply EXCEPT ![r] = "OVERRUN"] /\ UNCHANGED clock
             /\ Pull(sl, tm, h, z, TaskPartition[req[r].hw_task])
      BY Zenon, <2>2 DEF SlotTimeout, Abort, r, z, sl, tm, h
    <3> QED BY <3>1, <3>2
  <2> QED BY <2>1, <2>2
<1>4. PICK r \in Bound, a \in {"DONE", "OVERRUN"} :
        /\ reply' = [reply EXCEPT ![r] = a] /\ UNCHANGED clock
        /\ \E sl, tm, h, z : Pull(sl, tm, h, z, TaskPartition[req[r].hw_task])
  BY <1>3
<1> DEFINE p == TaskPartition[req[r].hw_task]
<1>5. r \in Requests /\ p \in Partitions
  BY ConstantsOK DEF IInv, TypeOK, RequestRecord, Bound
<1>6. Waiters' \subseteq Waiters
  BY <1>4, <1>5, WaitersAfter
<1> HIDE DEF p
<1>7. /\ Ordered(fri_queue', req') /\ OldestFirst(req', part_queues', Waiters')
      /\ \A u \in Requests : req'[u].tstamp = req[u].tstamp
  <2>1. PICK sl, tm, h, z : Pull(sl, tm, h, z, p)
    BY <1>4 DEF p
  <2> QED BY <1>2, <1>5, <1>6, <2>1, PullOrdered
<1>8. StampsPast(req', Waiters', clock')
  BY <1>2, <1>4, <1>6, <1>7 DEF StampsPast, Waiters
<1> QED BY <1>7, <1>8 DEF InOrder

\* One step, by cases on the actions of Next.
LEMMA NextKeepsOrder ==
    ASSUME IInv, Owned, InOrder, [Next]_vars
    PROVE  InOrder'
<1>1. CASE ~Up
  <2>1. UNCHANGED vars
    BY <1>1 DEF Next, Run, RunBanned, RcfgComplete, SlotComplete, SlotHandler, SlotTimeout,
                AccelDone, TimerExpire, RcfgDone, Stopped, Up
  <2> QED BY <1>1, <2>1 DEF InOrder, Up, vars
<1>2. ASSUME NEW r \in Requests, NEW t \in HwTasks, Run(r, t) PROVE InOrder'
  BY <1>2, RunKeepsOrder
<1>3. ASSUME Up, NEW r \in Requests, NEW t \in HwTasks, RunBanned(r, t) PROVE InOrder'
  <2>1. /\ reply[r] # "wait" /\ reply' = [reply EXCEPT ![r] = "ERROR"]
        /\ UNCHANGED <<req, part_queues, fri_queue, clock>>
    BY <1>3 DEF RunBanned
  <2>2. Waiters' = Waiters
    BY <2>1, WaitersAfter DEF Waiters, Waiting
  <2> QED BY <1>3, <2>1, <2>2, QuietKeepsOrder
<1>4. ASSUME NEW s \in Slots, NEW d, SlotComplete(s, d) \/ SlotTimeout(s, d)
      PROVE  InOrder'
  BY <1>4, HandlersKeepOrder
<1>5. ASSUME Up,
             UNCHANGED vars \/ Stopped \/ RcfgDone
               \/ \E s \in Slots : AccelDone(s) \/ TimerExpire(s)
      PROVE  InOrder'
  <2>1. UNCHANGED <<req, part_queues, fri_queue, clock, reply>>
    BY <1>5 DEF vars, Stopped, RcfgDone, AccelDone, TimerExpire
  <2>2. Waiters' \subseteq Waiters
    BY <2>1 DEF Waiters, Waiting
  <2> QED BY <1>5, <2>1, <2>2, QuietKeepsOrder
<1> QED BY <1>1, <1>2, <1>3, <1>4, <1>5, RcfgCompleteKeepsOrder DEF Next

-----------------------------------------------------------------------------
(* What the order shows. *)

\* In every race-free behaviour the queues are ordered by the time stamps of the requests,
\* and no stamp lies ahead of the clock: InOrder is inductive, given Owned.
THEOREM Ordering == ASSUME RaceFree PROVE Spec => []InOrder
<1>1. Init => InOrder
  <2> SUFFICES ASSUME Init PROVE InOrder
    OBVIOUS
  <2>1. /\ Waiters = {} /\ fri_queue = <<>>
        /\ \A p \in Partitions : part_queues[p] = <<>>
    BY DEF Init, Waiters, Waiting
  <2>2. Len(<<>>) = 0 /\ \A i \in 1..0 : FALSE
    BY EmptySeq
  <2> QED BY <2>1, <2>2 DEF InOrder, StampsPast, Ordered, OrderedFrom, OldestFirst
<1>2. IInv /\ Owned /\ InOrder /\ [Next]_vars => InOrder'
  BY NextKeepsOrder
<1> QED BY <1>1, <1>2, Invariance, Ownership, PTL DEF Spec

\* The FRI queue is served oldest request first, those pulled late from a partition's
\* queue included, in every race-free behaviour.
THEOREM FriIsOrdered == ASSUME RaceFree PROVE Spec => []FriOrdered
<1>1. InOrder => FriOrdered
  BY DEF InOrder, FriOrdered, Ordered, OrderedFrom
<1> QED BY <1>1, Ordering, PTL

\* No request overtakes another inside a partition.
THEOREM PartitionsAreFifo == ASSUME RaceFree PROVE Spec => []PartitionFifo
<1>1. ASSUME IInv, InOrder PROVE PartitionFifo
  <2>1. SUFFICES ASSUME Up, NEW p \in Partitions, NEW i \in 1..Len(part_queues[p])
                 PROVE  /\ \A j \in 1..(i - 1) :
                             req[part_queues[p][j]].tstamp <= req[part_queues[p][i]].tstamp
                        /\ \A o \in Requests :
                             Waiting(o) /\ req[o].slot # NULL
                                 /\ TaskPartition[req[o].hw_task] = p
                               => req[o].tstamp <= req[part_queues[p][i]].tstamp
    BY DEF PartitionFifo
  <2>2. OldestFirst(req, part_queues, Waiters)
    BY <1>1, <2>1 DEF InOrder
  <2>3. Len(part_queues[p]) \in Nat
    BY <1>1, LenProperties DEF IInv, TypeOK
  <2>4. ASSUME NEW j \in 1..(i - 1)
        PROVE  req[part_queues[p][j]].tstamp <= req[part_queues[p][i]].tstamp
    <3>1. j \in 1..Len(part_queues[p]) /\ j < i
      BY <2>3
    <3> QED BY <2>2, <3>1 DEF OldestFirst, Ordered, OrderedFrom
  <2>5. ASSUME NEW o \in Requests, Waiting(o), req[o].slot # NULL,
               TaskPartition[req[o].hw_task] = p
        PROVE  req[o].tstamp <= req[part_queues[p][i]].tstamp
    BY <2>2, <2>5 DEF OldestFirst, Waiters
  <2> QED BY <2>4, <2>5
<1> QED BY <1>1, Invariance, Ordering, PTL

-----------------------------------------------------------------------------
(* What a handler does to each slot. *)

\* A handler that goes on starts the accelerator of slot s, has s programmed, or leaves
\* s alone, where sl and h are the slots and the fabric it serves the queue with.
Starts(s, sl, h) ==
    /\ sl[s].state \in {"RSRV", "READY"} /\ slot'[s].state = "EXEC"
    /\ hw'[s] = [h[s] EXCEPT !.busy = TRUE]
Programming(s, sl, h) ==
    /\ sl[s].state = "RSRV" /\ slot'[s].state = "RCFG"
    /\ hw'[s] = [h[s] EXCEPT !.coupled = FALSE, !.fabric = NULL]
Same(s, sl, h) == slot'[s] = sl[s] /\ hw'[s] = h[s]

Slotwise(s, sl, h) == Starts(s, sl, h) \/ Programming(s, sl, h) \/ Same(s, sl, h)

\* The idle device is started for a request of W whose slot is reserved, or it is left
\* as it was.
DeviceMoves(sl, h, dv, rq, W) ==
    \/ devcfg' = dv /\ \A s \in Slots : ~Programming(s, sl, h)
    \/ \E r \in W : /\ sl[rq[r].slot].state = "RSRV" /\ dv.state = "IDLE"
                    /\ devcfg' = [state |-> "PROG", current_rcfg_req |-> r,
                                  drv |-> "loading", bit_slot |-> rq[r].slot,
                                  bit_task |-> rq[r].hw_task]

\* Only a request of W whose slot is READY, or that skips reconfiguration, starts.
MayStartOn(s, sl, rq, W) ==
    \E r \in W : rq[r].slot = s /\ (rq[r].skip_rcfg \/ sl[s].state = "READY")

Moves(sl, tm, h, dv, rq, W) ==
    /\ \A s \in Slots : Slotwise(s, sl, h)
    /\ \A s \in Slots : Starts(s, sl, h) => MayStartOn(s, sl, rq, W)
    /\ \A s \in Slots : timer'[s] = tm[s] \/ (timer'[s].state = "armed" /\ Starts(s, sl, h))
    /\ DeviceMoves(sl, h, dv, rq, W)

\* Serving, unless it ends the server, takes each slot in one of the three ways, and
\* programs one only by starting the device.
LEMMA ServeMoves ==
    ASSUME NEW sl \in [Slots -> SlotRecord], NEW h, NEW tm, NEW dv, NEW rq,
           NEW W \in SUBSET Requests, NEW run \in Seq(W), NEW ready,
           Serve(sl, tm, h, dv, rq, run, ready), status' = "up",
           ready # NULL => sl[rq[ready].slot].state = "READY"
    PROVE  Moves(sl, tm, h, dv, rq, W)
<1> USE ConstantsOK
<1>1. PICK n \in StartCounts(h, rq, run, ready), accepted \in Outcomes("rcfg_start") :
        /\ slot' = ServedSlots(sl, rq, run, n, Programmed(h, rq, run, n))
        /\ timer' = ServedTimers(tm, h, rq, run, n)
        /\ hw' = ServedHw(h, rq, run, n, Programmed(h, rq, run, n), accepted)
        /\ devcfg' = StartProg(dv, rq, Programmed(h, rq, run, n), accepted)
        /\ status' = IF ~ServeAsserts(sl, dv, rq, run, n, Programmed(h, rq, run, n))
                     THEN "aborted"
                     ELSE IF StartFails(h, rq, run, n)
                             \/ (Programmed(h, rq, run, n) # NULL /\ ~accepted)
                     THEN "down" ELSE "up"
  BY Zenon DEF Serve
<1> DEFINE prog == Programmed(h, rq, run, n)
<1>2. /\ ServeAsserts(sl, dv, rq, run, n, prog)
      /\ prog # NULL => accepted
  BY <1>1
<1>3. prog \in W \cup {NULL}
  BY ServedAreOfRun
<1>4. /\ n \in 0..Len(run)
      /\ accepted \in BOOLEAN
  BY DEF StartCounts, Outcomes
<1> HIDE DEF prog
<1>5. ASSUME NEW s \in Slots
      PROVE  /\ StartedOn(rq, run, n, s) # {} =>
                  Starts(s, sl, h) /\ MayStartOn(s, sl, rq, W)
             /\ StartedOn(rq, run, n, s) = {} /\ prog # NULL /\ rq[prog].slot = s
                  => Programming(s, sl, h)
             /\ StartedOn(rq, run, n, s) = {} /\ ~(prog # NULL /\ rq[prog].slot = s)
                  => Same(s, sl, h)
  <2>0. sl[s] \in SlotRecord
    OBVIOUS
  <2>1. CASE StartedOn(rq, run, n, s) # {}
    <3>1. PICK i \in 1..n : rq[run[i]].slot = s
      BY <2>1 DEF StartedOn
    <3>2. sl[s].state \in {"RSRV", "READY"}
      BY <1>2, <3>1 DEF ServeAsserts
    <3>3. slot'[s] = [sl[s] EXCEPT !.state = "EXEC",
                        !.exec_req = run[CHOOSE j \in StartedOn(rq, run, n, s) : TRUE]]
      BY <1>1, <2>1 DEF ServedSlots
    <3>4. slot'[s].state = "EXEC"
      BY <2>0, <3>3 DEF SlotRecord
    <3>5. hw'[s] = [h[s] EXCEPT !.busy = TRUE]
      BY <1>1, <2>1 DEF ServedHw
    <3>6. MayStartOn(s, sl, rq, W)
      <4>1. i \in 1..Len(run) /\ NeedsNoRcfg(rq, run, ready, i)
        BY <1>4 DEF StartCounts
      <4>2. run[i] \in W
        BY <4>1, ElementOfSeq
      <4>3. run[i] # NULL
        BY <4>2
      <4> QED BY <3>1, <4>1, <4>2, <4>3 DEF NeedsNoRcfg, MayStartOn
    <3> QED BY <3>2, <3>4, <3>5, <3>6, <2>1 DEF Starts
  <2>2. CASE StartedOn(rq, run, n, s) = {} /\ prog # NULL /\ rq[prog].slot = s
    <3>1. sl[s].state = "RSRV"
      BY <1>2, <2>2 DEF ServeAsserts
    <3>2. slot'[s] = [sl[s] EXCEPT !.state = "RCFG", !.hw_task = rq[prog].hw_task]
      BY <1>1, <2>2 DEF ServedSlots, prog
    <3>3. slot'[s].state = "RCFG"
      BY <2>0, <3>2 DEF SlotRecord
    <3>4. hw'[s] = [h[s] EXCEPT !.coupled = FALSE, !.fabric = NULL]
      BY <1>1, <1>2, <2>2 DEF ServedHw, prog
    <3> QED BY <2>2, <3>1, <3>3, <3>4 DEF Programming
  <2>3. CASE StartedOn(rq, run, n, s) = {} /\ ~(prog # NULL /\ rq[prog].slot = s)
    BY <1>1, <2>3 DEF ServedSlots, ServedHw, Same, prog
  <2> QED BY <2>1, <2>2, <2>3
<1>6. /\ \A s \in Slots : Slotwise(s, sl, h)
      /\ \A s \in Slots : Starts(s, sl, h) => MayStartOn(s, sl, rq, W)
      /\ \A s \in Slots : timer'[s] = tm[s] \/ (timer'[s].state = "armed" /\ Starts(s, sl, h))
  <2>1. ASSUME NEW s \in Slots
        PROVE  timer'[s] = tm[s] \/ (timer'[s].state = "armed" /\ Starts(s, sl, h))
    <3>1. CASE StartedOn(rq, run, n, s) # {}
      <4>1. timer'[s] = tm[s] \/ timer'[s].state = "armed"
        BY <1>1 DEF ServedTimers
      <4> QED BY <1>5, <3>1, <4>1
    <3>2. CASE StartedOn(rq, run, n, s) = {}
      BY <1>1, <3>2 DEF ServedTimers
    <3> QED BY <3>1, <3>2
  <2>2. ASSUME NEW s \in Slots, Starts(s, sl, h), StartedOn(rq, run, n, s) = {} PROVE FALSE
    BY <1>5, <2>2 DEF Starts, Programming, Same
  <2> QED BY <1>5, <2>1, <2>2 DEF Slotwise
<1>7. CASE prog = NULL
  <2>1. devcfg' = dv
    BY <1>1, <1>7 DEF StartProg, prog
  <2>2. \A s \in Slots : ~Programming(s, sl, h)
    BY <1>5, <1>7 DEF Starts, Same, Programming
  <2> QED BY <1>6, <2>1, <2>2 DEF Moves, DeviceMoves
<1>8. CASE prog # NULL
  <2>1. devcfg' = [state |-> "PROG", current_rcfg_req |-> prog, drv |-> "loading",
                   bit_slot |-> rq[prog].slot, bit_task |-> rq[prog].hw_task]
    BY <1>1, <1>2, <1>8 DEF StartProg, prog
  <2>2. sl[rq[prog].slot].state = "RSRV" /\ dv.state = "IDLE"
    BY <1>2, <1>8 DEF ServeAsserts
  <2> QED BY <1>3, <1>6, <1>8, <2>1, <2>2 DEF Moves, DeviceMoves
<1> QED BY <1>7, <1>8

\* Pushing a request to the FRI queue, served at once or not.
LEMMA PushMoves ==
    ASSUME Up, NEW sl \in [Slots -> SlotRecord], NEW h, NEW tm, NEW rq,
           NEW W \in SUBSET Requests, fri_queue \in Seq(W), NEW r \in W,
           PushFri(sl, tm, h, rq, r), status' = "up"
    PROVE  Moves(sl, tm, h, devcfg, rq, W)
<1>1. PICK k \in InsertPositions(fri_queue, rq, r) :
        IF devcfg.state = "IDLE" /\ Head(InsertedAfter(fri_queue, k, r)) = r
        THEN Serve(sl, tm, h, devcfg, rq, InsertedAfter(fri_queue, k, r), NULL)
        ELSE /\ fri_queue' = InsertedAfter(fri_queue, k, r)
             /\ slot' = sl /\ timer' = tm /\ hw' = h
             /\ UNCHANGED <<devcfg, status>>
  BY Zenon DEF PushFri
<1> DEFINE q == InsertedAfter(fri_queue, k, r)
<1>2. q \in Seq(W)
  BY InsertTyped DEF InsertPositions
<1> HIDE DEF q
<1>3. CASE Serve(sl, tm, h, devcfg, rq, q, NULL)
  BY <1>2, <1>3, ServeMoves
<1>4. CASE slot' = sl /\ timer' = tm /\ hw' = h /\ devcfg' = devcfg
  <2>1. \A s \in Slots : Same(s, sl, h) /\ ~Programming(s, sl, h) /\ ~Starts(s, sl, h)
    BY <1>4 DEF Same, Programming, Starts
  <2> QED BY <1>4, <2>1 DEF Moves, DeviceMoves, Slotwise
<1> QED BY <1>1, <1>3, <1>4 DEF q

\* Handing a freed slot on: the head of the partition's queue gets it, reserved.
Refills(s, p, sl, tm, h, W) ==
    IF part_queues[p] = <<>>
    THEN req' = req /\ Moves(sl, tm, h, devcfg, req, W)
    ELSE /\ req' = [req EXCEPT ![Head(part_queues[p])].slot = s]
         /\ Moves(SetReserved(sl, s), tm, h, devcfg, req', W)

LEMMA PullMoves ==
    ASSUME Up, IInv, NEW sl \in [Slots -> SlotRecord], NEW h, NEW tm, NEW s \in Slots,
           NEW p \in Partitions, Pull(sl, tm, h, s, p), status' = "up",
           NEW W \in SUBSET Requests, fri_queue \in Seq(W), part_queues[p] \in Seq(W)
    PROVE  Refills(s, p, sl, tm, h, W)
<1>2. CASE part_queues[p] = <<>>
  <2>1. slot' = sl /\ timer' = tm /\ hw' = h /\ devcfg' = devcfg /\ req' = req
    BY <1>2 DEF Pull
  <2>2. \A u \in Slots : Same(u, sl, h) /\ ~Programming(u, sl, h) /\ ~Starts(u, sl, h)
    BY <2>1 DEF Same, Programming, Starts
  <2> QED BY <1>2, <2>1, <2>2 DEF Moves, DeviceMoves, Slotwise, Refills
<1>3. CASE part_queues[p] # <<>>
  <2> DEFINE r == Head(part_queues[p])
             rq == [req EXCEPT ![r].slot = s]
  <2>1. req' = rq /\ PushFri(SetReserved(sl, s), tm, h, rq, r)
    BY <1>3 DEF Pull
  <2>2. r \in W
    BY <1>3, HeadTailProperties
  <2>3. SetReserved(sl, s) \in [Slots -> SlotRecord]
    <3>1. SetReserved(sl, s) = WithState(sl, s, "RSRV") /\ "RSRV" \in SlotStates
      BY DEF SetReserved, WithState, SlotStates
    <3> QED BY <3>1, WithStateAt
  <2> HIDE DEF rq, r
  <2>4. Moves(SetReserved(sl, s), tm, h, devcfg, rq, W)
    BY <2>1, <2>2, <2>3, PushMoves
  <2> QED BY <1>3, <2>1, <2>4 DEF Refills, rq, r
<1> QED BY <1>2, <1>3

-----------------------------------------------------------------------------
(* What the service sees of a state. *)

\* Request r has its slot and the slot executes.
Runs(r) == req[r].slot # NULL /\ slot[req[r].slot].state = "EXEC"

Seen(r) ==
    /\ PhaseOf(r) = IF ~Waiting(r) THEN "idle"
                    ELSE IF ~Runs(r) THEN "accepted"
                    ELSE IF hw[req[r].slot].irq THEN "computed" ELSE "running"
    /\ (IF Waiting(r) /\ Executing(r) # {} THEN CHOOSE s \in Executing(r) : TRUE ELSE NULL)
         = IF Waiting(r) /\ Runs(r) THEN req[r].slot ELSE NULL
AllSeen == \A r \in Requests : Seen(r)

\* A waiting request executes on its own slot or on none.
LEMMA WhatIsSeen == IInv /\ Owned /\ Up => AllSeen
<1> SUFFICES ASSUME IInv, Owned, Up, NEW r \in Requests PROVE Seen(r)
  BY DEF AllSeen
<1> USE ConstantsOK
<1>1. CASE Waiting(r)
  <2>1. r \in Waiters /\ req[r].slot \in Slots \cup {NULL}
    <3>1. req[r] \in RequestRecord
      BY DEF IInv, TypeOK
    <3> QED BY <1>1, <3>1 DEF Waiters, RequestRecord
  <2>2. InItsPlace(r, slot, devcfg, req, part_queues, fri_queue)
    BY <2>1 DEF Owned, Placed
  <2>3. Executing(r) = IF Runs(r) THEN {req[r].slot} ELSE {}
    <3>1. ASSUME NEW s \in Executing(r) PROVE Runs(r) /\ s = req[r].slot
      <4>1. s \in Slots /\ slot[s].state = "EXEC" /\ slot[s].exec_req = r
        BY DEF Executing
      <4>2. req[r].slot = s
        BY <4>1, ExecutingOwner
      <4> QED BY <4>1, <4>2 DEF Runs
    <3>2. Runs(r) => req[r].slot \in Executing(r)
      BY <2>1, <2>2 DEF InItsPlace, Runs, Executing
    <3> QED BY <3>1, <3>2
  <2>4. CASE Runs(r)
    <3>1. \A A : A = {req[r].slot} => (CHOOSE s \in A : TRUE) = req[r].slot
      OBVIOUS
    <3> HIDE DEF Executing
    <3> QED BY <1>1, <2>3, <2>4, <3>1 DEF Seen, PhaseOf
  <2>5. CASE ~Runs(r)
    BY <1>1, <2>3, <2>5 DEF Seen, PhaseOf
  <2> QED BY <2>4, <2>5
<1>2. CASE ~Waiting(r)
  BY <1>2 DEF Seen, PhaseOf
<1> QED BY <1>1, <1>2

\* The same, after a step.
LEMMA WhatIsSeenNext == IInv' /\ Owned' /\ Up' => AllSeen'
BY WhatIsSeen, PTL

-----------------------------------------------------------------------------
(* Starting requests. *)

\* Phases ph, tasks tk and places pl are those after the step, but for accepted
\* requests that have since been started.
UpToStarts(ph, tk, pl) ==
    /\ ph = [r \in Requests |-> ph[r]]
    /\ tk = [r \in Requests |-> tk[r]]
    /\ pl = [r \in Requests |-> pl[r]]
    /\ \A r \in Requests :
         IF ~Waiting(r)' THEN ph[r] = "idle" /\ tk[r] = NULL /\ pl[r] = NULL
         ELSE /\ tk[r] = req'[r].hw_task
              /\ \/ /\ ph[r] = "accepted" /\ pl[r] = NULL
                    /\ Runs(r)' => ~hw'[req'[r].slot].irq
                 \/ /\ Runs(r)' /\ pl[r] = req'[r].slot
                    /\ ph[r] = IF hw'[req'[r].slot].irq THEN "computed" ELSE "running"

\* Those requests have slots of their own, in their own partition: the service may
\* start them too.
LEMMA ServiceStarts ==
    ASSUME IInv', Owned', Up', NEW ph, NEW tk, NEW pl, UpToStarts(ph, tk, pl)
    PROVE  Service!MayStart(ph, tk, pl)
<1> USE ConstantsOK
<1>1. \A r \in Requests : Seen(r)'
  BY WhatIsSeenNext DEF AllSeen
<1>2. \A r \in Requests : Waiting(r)' /\ Runs(r)' =>
        /\ req'[r].slot \in Slots
        /\ SlotPartition[req'[r].slot] = TaskPartition[req'[r].hw_task]
  <2>1. SUFFICES ASSUME NEW r \in Requests, Waiting(r)', Runs(r)'
                 PROVE  /\ req'[r].slot \in Slots
                        /\ SlotPartition[req'[r].slot] = TaskPartition[req'[r].hw_task]
    OBVIOUS
  <2>2. r \in Waiters' /\ req'[r] \in RequestRecord /\ req'[r].slot # NULL
    BY <2>1 DEF IInv, TypeOK, Waiters, Runs
  <2>3. InItsPlace(r, slot', devcfg', req', part_queues', fri_queue')
    BY <2>2 DEF Owned, Placed
  <2> QED BY <2>2, <2>3 DEF InItsPlace, RequestRecord
<1>3. \A r, u \in Requests :
        Waiting(r)' /\ Waiting(u)' /\ Runs(r)' /\ req'[r].slot = req'[u].slot => r = u
  <2>1. SUFFICES ASSUME NEW r \in Requests, NEW u \in Requests, Waiting(r)', Waiting(u)',
                        Runs(r)', req'[r].slot = req'[u].slot
                 PROVE  r = u
    OBVIOUS
  <2>2. r \in Waiters' /\ u \in Waiters' /\ req'[r].slot # NULL
    BY <2>1 DEF Waiters, Runs
  <2> QED BY <2>1, <2>2 DEF Owned, Placed, SlotsMatched
<1> DEFINE R == {r \in Requests : ph[r] = "accepted" /\ Waiting(r)' /\ Runs(r)'}
           f == [r \in R |-> req'[r].slot]
<1>4. R \in SUBSET {r \in Requests : ph[r] = "accepted"}
  OBVIOUS
<1>5. f \in [R -> Slots \ {pl[r] : r \in Requests}]
  <2>1. ASSUME NEW r \in R, NEW u \in Requests, pl[u] = req'[r].slot PROVE FALSE
    <3>1. req'[r].slot # NULL /\ Waiting(r)' /\ Runs(r)' /\ ph[r] = "accepted"
      BY <1>2
    <3>2. Waiting(u)' /\ Runs(u)' /\ pl[u] = req'[u].slot /\ ph[u] # "accepted"
      BY <2>1, <3>1 DEF UpToStarts
    <3> QED BY <1>3, <2>1, <3>1, <3>2
  <2> QED BY <1>2, <2>1
<1>6. Service!IsInjective(f)
  BY <1>3 DEF Service!IsInjective
<1>7. \A r \in R : SlotPartition[f[r]] = TaskPartition[tk[r]]
  BY <1>2 DEF UpToStarts
<1>8. [r \in Requests |-> PhaseOf(r)]' = [r \in Requests |-> IF r \in R THEN "running" ELSE ph[r]]
  <2>1. ASSUME NEW r \in Requests
        PROVE  PhaseOf(r)' = IF r \in R THEN "running" ELSE ph[r]
    BY <1>1 DEF UpToStarts, Seen
  <2> QED BY <2>1
<1>9. [r \in Requests |->
         IF Waiting(r) /\ Executing(r) # {} THEN CHOOSE s \in Executing(r) : TRUE ELSE NULL]'
        = [r \in Requests |-> IF r \in R THEN f[r] ELSE pl[r]]
  <2>1. ASSUME NEW r \in Requests
        PROVE  (IF Waiting(r) /\ Executing(r) # {} THEN CHOOSE s \in Executing(r) : TRUE
                ELSE NULL)' = IF r \in R THEN f[r] ELSE pl[r]
    BY <1>1 DEF UpToStarts, Seen
  <2> QED BY <2>1
<1>10. [r \in Requests |-> IF Waiting(r) THEN req[r].hw_task ELSE NULL]' = tk
  BY DEF UpToStarts
<1> HIDE DEF R, f
<1> QED BY Zenon, <1>4, <1>5, <1>6, <1>7, <1>8, <1>9, <1>10 DEF Service!MayStart

-----------------------------------------------------------------------------
(* A handler, seen by the service. *)

\* The requests of V wait through the handler; only their slots execute while it serves
\* the queue, given slots sl and fabric h, and no other slot has an interrupt.
Onward(sl, h, V) ==
    /\ V \subseteq Waiters \cap Waiters'
    /\ \A r \in V : /\ req'[r].hw_task = req[r].hw_task
                    /\ req[r].slot # NULL => req'[r].slot = req[r].slot
    /\ \A s \in Slots : Slotwise(s, sl, h)
    /\ \A r \in V : Runs(r) => sl[req[r].slot].state = "EXEC"
    /\ \A s \in Slots : sl[s].state = "EXEC" =>
          h[s].irq = hw[s].irq /\ \E r \in V : Runs(r) /\ req[r].slot = s
    /\ \A s \in Slots : sl[s].state # "EXEC" => ~h[s].irq

\* Who runs goes on, with its interrupt or without; who starts has none.
LEMMA RunsOn ==
    ASSUME IInv, Owned, IInv', Owned', Up, Up', NEW sl, NEW h \in [Slots -> HwRecord],
           NEW V, Onward(sl, h, V), NEW r \in Requests, Waiting(r)'
    PROVE  IF r \in V /\ Runs(r)
           THEN Runs(r)' /\ req'[r].slot = req[r].slot /\ hw'[req[r].slot].irq = hw[req[r].slot].irq
           ELSE Runs(r)' => ~hw'[req'[r].slot].irq
<1> USE ConstantsOK
<1>0. /\ \A s \in Slots : hw'[s].irq = h[s].irq
      /\ \A s \in Slots : sl[s].state = "EXEC" => slot'[s].state = "EXEC"
  <2>1. SUFFICES ASSUME NEW s \in Slots
                 PROVE  hw'[s].irq = h[s].irq /\ (sl[s].state = "EXEC" => slot'[s].state = "EXEC")
    OBVIOUS
  <2>2. h[s] \in HwRecord /\ Slotwise(s, sl, h)
    BY DEF Onward
  <2> QED BY <2>2 DEF Slotwise, Starts, Programming, Same, HwRecord
<1>1. r \in Waiters'
  BY DEF Waiters
<1>2. req'[r].slot \in Slots \cup {NULL} /\ req[r].slot \in Slots \cup {NULL}
  <2>1. req'[r] \in RequestRecord /\ req[r] \in RequestRecord
    BY DEF IInv, TypeOK
  <2> QED BY <2>1 DEF RequestRecord
<1>3. CASE r \in V /\ Runs(r)
  <2> DEFINE s == req[r].slot
  <2>1. s \in Slots /\ req'[r].slot = s /\ sl[s].state = "EXEC" /\ s # NULL
    BY <1>2, <1>3 DEF Runs, Onward
  <2>2. slot'[s].state = "EXEC" /\ hw'[s].irq = hw[s].irq
    BY <1>0, <2>1 DEF Onward
  <2> QED BY <1>3, <2>1, <2>2 DEF Runs
<1>4. CASE ~(r \in V /\ Runs(r)) /\ Runs(r)'
  <2> DEFINE s == req'[r].slot
  <2>1. s \in Slots /\ slot'[s].state = "EXEC" /\ s # NULL
    BY <1>2, <1>4 DEF Runs
  <2>2. SUFFICES ASSUME sl[s].state = "EXEC" PROVE FALSE
    BY <1>0, <1>4, <2>1 DEF Onward
  <2>3. PICK u \in V : Runs(u) /\ req[u].slot = s
    BY <2>1, <2>2 DEF Onward
  <2>4. u \in Waiters /\ u \in Waiters' /\ req'[u].slot = s
    BY <2>1, <2>3 DEF Onward
  <2>5. u = r
    BY <1>1, <2>1, <2>4 DEF Owned, Placed, SlotsMatched
  <2> QED BY <1>4, <2>3, <2>5
<1> QED BY <1>3, <1>4

\* The service's variables, as the refinement mapping gives them.
Phases == [r \in Requests |-> PhaseOf(r)]
Tasks == [r \in Requests |-> IF Waiting(r) THEN req[r].hw_task ELSE NULL]
Places == [r \in Requests |->
             IF Waiting(r) /\ Executing(r) # {} THEN CHOOSE s \in Executing(r) : TRUE ELSE NULL]

LEMMA BarFunctions ==
    /\ Phases = [r \in Requests |-> Phases[r]]
    /\ Tasks = [r \in Requests |-> Tasks[r]]
    /\ Places = [r \in Requests |-> Places[r]]
BY DEF Phases, Tasks, Places

\* A request that waits throughout, one that does not wait any more, and a new one.
LEMMA SeenUpToStarts ==
    ASSUME IInv, Owned, IInv', Owned', Up, Up', NEW sl, NEW h \in [Slots -> HwRecord],
           NEW V, Onward(sl, h, V), NEW r \in Requests
    PROVE  /\ r \in V =>
                /\ Waiting(r)' /\ Tasks[r] = req'[r].hw_task
                /\ \/ /\ Phases[r] = "accepted" /\ Places[r] = NULL
                      /\ Runs(r)' => ~hw'[req'[r].slot].irq
                   \/ /\ Runs(r)' /\ Places[r] = req'[r].slot
                      /\ Phases[r] = IF hw'[req'[r].slot].irq THEN "computed" ELSE "running"
           /\ r \notin Waiters => Phases[r] = "idle" /\ Tasks[r] = NULL /\ Places[r] = NULL
           /\ r \notin V /\ Waiting(r)' => (Runs(r)' => ~hw'[req'[r].slot].irq)
<1>1. Seen(r)
  BY WhatIsSeen DEF AllSeen
<1>2. CASE r \in V
  <2>1. Waiting(r) /\ Waiting(r)' /\ req'[r].hw_task = req[r].hw_task
    BY <1>2 DEF Onward, Waiters
  <2>2. IF Runs(r)
        THEN Runs(r)' /\ req'[r].slot = req[r].slot /\ hw'[req[r].slot].irq = hw[req[r].slot].irq
        ELSE Runs(r)' => ~hw'[req'[r].slot].irq
    BY <1>2, <2>1, RunsOn
  <2>3. Waiting(r) /\ r \in Waiters
    BY <2>1 DEF Waiters
  <2> QED BY <1>1, <1>2, <2>1, <2>2, <2>3 DEF Seen, Phases, Tasks, Places
<1>3. CASE r \notin V
  <2>1. Waiting(r)' => (Runs(r)' => ~hw'[req'[r].slot].irq)
    BY <1>3, RunsOn
  <2> QED BY <1>1, <1>3, <2>1 DEF Seen, Waiters, Phases, Tasks, Places
<1> QED BY <1>2, <1>3

\* A handler of the device: requests may start, nothing else changes.
LEMMA OnlyStarts ==
    ASSUME IInv, Owned, IInv', Owned', Up, Up', NEW sl, NEW h \in [Slots -> HwRecord],
           Onward(sl, h, Waiters), Waiters' = Waiters
    PROVE  Service!MayStart(Phases, Tasks, Places)
<1>1. UpToStarts(Phases, Tasks, Places)
  <2>1. ASSUME NEW r \in Requests
        PROVE  IF ~Waiting(r)'
               THEN Phases[r] = "idle" /\ Tasks[r] = NULL /\ Places[r] = NULL
               ELSE /\ Tasks[r] = req'[r].hw_task
                    /\ \/ /\ Phases[r] = "accepted" /\ Places[r] = NULL
                          /\ Runs(r)' => ~hw'[req'[r].slot].irq
                       \/ /\ Runs(r)' /\ Places[r] = req'[r].slot
                          /\ Phases[r] = IF hw'[req'[r].slot].irq THEN "computed"
                                         ELSE "running"
    <3>1. Waiting(r)' <=> r \in Waiters
      BY DEF Waiters
    <3> QED BY <3>1, SeenUpToStarts
  <2> QED BY <2>1, BarFunctions DEF UpToStarts
<1> QED BY Zenon, <1>1, ServiceStarts DEF Service!MayStart

\* A client's request is accepted, and may start at once.
LEMMA Accepts ==
    ASSUME IInv, Owned, IInv', Owned', Up, Up', NEW sl, NEW h \in [Slots -> HwRecord],
           Onward(sl, h, Waiters), NEW x \in Requests \ Waiters, Waiters' = Waiters \cup {x},
           NEW t, req'[x].hw_task = t
    PROVE  Service!MayStart([Phases EXCEPT ![x] = "accepted"], [Tasks EXCEPT ![x] = t], Places)
<1> DEFINE ph == [Phases EXCEPT ![x] = "accepted"]
           tk == [Tasks EXCEPT ![x] = t]
<1>1. /\ ph = [r \in Requests |-> IF r = x THEN "accepted" ELSE Phases[r]]
      /\ tk = [r \in Requests |-> IF r = x THEN t ELSE Tasks[r]]
      /\ Places = [r \in Requests |-> Places[r]]
  BY BarFunctions
<1> HIDE DEF ph, tk
<1>2. UpToStarts(ph, tk, Places)
  <2>1. ASSUME NEW r \in Requests
        PROVE  IF ~Waiting(r)'
               THEN ph[r] = "idle" /\ tk[r] = NULL /\ Places[r] = NULL
               ELSE /\ tk[r] = req'[r].hw_task
                    /\ \/ /\ ph[r] = "accepted" /\ Places[r] = NULL
                          /\ Runs(r)' => ~hw'[req'[r].slot].irq
                       \/ /\ Runs(r)' /\ Places[r] = req'[r].slot
                          /\ ph[r] = IF hw'[req'[r].slot].irq THEN "computed" ELSE "running"
    <3>1. Waiting(r)' <=> r \in Waiters \cup {x}
      BY DEF Waiters
    <3>2. CASE r = x
      BY <1>1, <3>1, <3>2, SeenUpToStarts
    <3>3. CASE r # x
      <4>1. ph[r] = Phases[r] /\ tk[r] = Tasks[r]
        BY <1>1, <3>3
      <4>2. Waiting(r)' <=> r \in Waiters
        BY <3>1, <3>3
      <4> QED BY <4>1, <4>2, SeenUpToStarts
    <3> QED BY <3>2, <3>3
  <2>2. /\ ph = [r \in Requests |-> ph[r]] /\ tk = [r \in Requests |-> tk[r]]
    BY <1>1
  <2> QED BY <1>1, <2>1, <2>2 DEF UpToStarts
<1>3. Service!MayStart(ph, tk, Places)
  BY Zenon, <1>2, ServiceStarts DEF Service!MayStart
<1> QED BY Zenon, <1>3 DEF Service!MayStart, ph, tk

\* A client is answered: its slot is free, and others may start.
Freed(x) == Service!MayStart([Phases EXCEPT ![x] = "idle"], [Tasks EXCEPT ![x] = NULL],
                             [Places EXCEPT ![x] = NULL])

LEMMA Releasing ==
    ASSUME IInv, Owned, IInv', Owned', Up, Up', NEW sl, NEW h \in [Slots -> HwRecord],
           NEW x \in Waiters, Onward(sl, h, Waiters \ {x}), Waiters' = Waiters \ {x}
    PROVE  Freed(x)
<1> DEFINE ph == [Phases EXCEPT ![x] = "idle"]
           tk == [Tasks EXCEPT ![x] = NULL]
           pl == [Places EXCEPT ![x] = NULL]
<1>0. x \in Requests
  BY DEF Waiters
<1>1. /\ ph = [r \in Requests |-> IF r = x THEN "idle" ELSE Phases[r]]
      /\ tk = [r \in Requests |-> IF r = x THEN NULL ELSE Tasks[r]]
      /\ pl = [r \in Requests |-> IF r = x THEN NULL ELSE Places[r]]
  BY <1>0, BarFunctions
<1> HIDE DEF ph, tk, pl
<1>2. UpToStarts(ph, tk, pl)
  <2>1. ASSUME NEW r \in Requests
        PROVE  IF ~Waiting(r)'
               THEN ph[r] = "idle" /\ tk[r] = NULL /\ pl[r] = NULL
               ELSE /\ tk[r] = req'[r].hw_task
                    /\ \/ /\ ph[r] = "accepted" /\ pl[r] = NULL
                          /\ Runs(r)' => ~hw'[req'[r].slot].irq
                       \/ /\ Runs(r)' /\ pl[r] = req'[r].slot
                          /\ ph[r] = IF hw'[req'[r].slot].irq THEN "computed" ELSE "running"
    <3>1. Waiting(r)' <=> r \in Waiters \ {x}
      BY DEF Waiters
    <3>2. CASE r = x
      BY <1>1, <3>1, <3>2
    <3>3. CASE r # x
      <4>1. ph[r] = Phases[r] /\ tk[r] = Tasks[r] /\ pl[r] = Places[r]
        BY <1>1, <3>3
      <4>2. (Waiting(r)' <=> r \in Waiters) /\ (r \in Waiters => r \in Waiters \ {x})
        BY <3>1, <3>3
      <4> QED BY <4>1, <4>2, SeenUpToStarts
    <3> QED BY <3>2, <3>3
  <2>2. /\ ph = [r \in Requests |-> ph[r]] /\ tk = [r \in Requests |-> tk[r]]
        /\ pl = [r \in Requests |-> pl[r]]
    BY <1>1
  <2> QED BY <2>1, <2>2 DEF UpToStarts
<1> QED BY Zenon, <1>2, ServiceStarts DEF Service!MayStart, Freed, ph, tk, pl

-----------------------------------------------------------------------------
(* The handlers, one by one. *)

\* What a handler has to show: it leaves the executions of V alone, and an interrupt it
\* neither finds nor makes; the others' executions it has ended.
LEMMA Onwards ==
    ASSUME IInv, Owned, Up, NEW sl, NEW h, NEW V,
           V \subseteq Waiters \cap Waiters',
           \A r \in V : req'[r].hw_task = req[r].hw_task,
           \A r \in V : req[r].slot # NULL => req'[r].slot = req[r].slot,
           \A s \in Slots : Slotwise(s, sl, h),
           \A s \in Slots : sl[s].state = "EXEC" <=>
                              slot[s].state = "EXEC" /\ slot[s].exec_req \in V,
           \A s \in Slots : h[s].irq = hw[s].irq \/ (~h[s].irq /\ sl[s].state # "EXEC"),
           \A s \in Slots : slot[s].state = "EXEC" /\ slot[s].exec_req \notin V => ~h[s].irq
    PROVE  Onward(sl, h, V)
<1> USE ConstantsOK
<1>1. ASSUME NEW r \in V, Runs(r) PROVE sl[req[r].slot].state = "EXEC"
  <2>1. r \in Waiters /\ req[r] \in RequestRecord
    BY DEF Waiters, IInv, TypeOK
  <2>2. InItsPlace(r, slot, devcfg, req, part_queues, fri_queue)
    BY <2>1 DEF Owned, Placed
  <2>3. req[r].slot \in Slots
    BY <1>1, <2>1 DEF Runs, RequestRecord
  <2> QED BY <1>1, <2>2, <2>3 DEF Runs, InItsPlace
<1>2. ASSUME NEW s \in Slots, sl[s].state = "EXEC"
      PROVE  h[s].irq = hw[s].irq /\ \E r \in V : Runs(r) /\ req[r].slot = s
  <2>1. slot[s].state = "EXEC" /\ slot[s].exec_req \in V
    BY <1>2
  <2>2. req[slot[s].exec_req].slot = s
    BY <2>1, ExecutingOwner
  <2> QED BY <1>2, <2>1, <2>2 DEF Runs
<1>3. ASSUME NEW s \in Slots, sl[s].state # "EXEC" PROVE ~h[s].irq
  <2>1. SlotAgrees(slot[s], timer[s], hw[s], devcfg)
    BY DEF Owned, Agreed
  <2> QED BY <1>3, <2>1 DEF SlotAgrees
<1> QED BY <1>1, <1>2, <1>3 DEF Onward

\* The owner of an executing slot waits.
LEMMA ExecutorsWait ==
    ASSUME IInv, Owned, Up
    PROVE  \A s \in Slots : slot[s].state = "EXEC" => slot[s].exec_req \in Waiters
BY ExecutingOwner

\* A reconfiguration ends: the service may start requests.
LEMMA RcfgCompleteStarts ==
    ASSUME IInv, Owned, IInv', Owned', Up, Up', Faults = {}, RcfgComplete
    PROVE  Service!Start
<1> USE ConstantsOK
<1> DEFINE r == devcfg.current_rcfg_req
           s == req[r].slot
           dv == [devcfg EXCEPT !.state = "IDLE", !.drv = "quiet"]
           sl == [slot EXCEPT ![s].state = "READY"]
           h == Couple(hw, s)
           run == <<r>> \o fri_queue
<1>1. /\ slot \in [Slots -> SlotRecord] /\ hw \in [Slots -> HwRecord]
      /\ req \in [Requests -> RequestRecord] /\ fri_queue \in Seq(Requests)
  BY DEF IInv, TypeOK
<1>2. /\ devcfg.state = "PROG" /\ r \in Requests /\ s # NULL /\ slot[s].state = "RCFG"
      /\ s \in Slots
  <2>1. devcfg.drv = "done" /\ DeviceHolds(slot, devcfg, req, Waiters)
    BY DEF RcfgComplete, Owned, Placed
  <2>2. devcfg.state = "PROG" /\ r \in Requests /\ s # NULL /\ slot[s].state = "RCFG"
    BY <2>1 DEF DeviceHolds, Waiters
  <2> QED BY <1>1, <2>2 DEF RequestRecord
<1>3. Serve(sl, timer, h, dv, req, run, r) /\ UNCHANGED <<req, banned, reply>>
  <2> HIDE DEF r, s, dv, sl, h, run
  <2>1. "rcfg_read" \notin Faults
    OBVIOUS
  <2> QED BY Zenon, <1>2, <2>1 DEF RcfgComplete, r, s, dv, sl, h, run
<1>4. run \in Seq(Requests)
  BY <1>1, <1>2
<1>5. sl = WithState(slot, s, "READY") /\ "READY" \in SlotStates
  BY DEF WithState, SlotStates
<1> HIDE DEF r, s, dv, sl, run
<1>6. /\ sl \in [Slots -> SlotRecord] /\ sl[s].state = "READY"
      /\ \A u \in Slots : u # s => sl[u] = slot[u]
  BY <1>1, <1>2, <1>5, WithStateAt
<1>7. h \in [Slots -> HwRecord] /\ \A u \in Slots : h[u].irq = hw[u].irq
  <2>1. /\ h[s] = [hw[s] EXCEPT !.coupled = TRUE]
        /\ \A u \in Slots : u # s => h[u] = hw[u]
        /\ h = [u \in Slots |-> h[u]]
    BY <1>1, <1>2 DEF Couple
  <2> HIDE DEF h
  <2>2. h[s] \in HwRecord /\ h[s].irq = hw[s].irq
    <3>1. hw[s] \in HwRecord
      BY <1>1, <1>2
    <3> QED BY <2>1, <3>1 DEF HwRecord
  <2> QED BY <1>1, <1>2, <2>1, <2>2
<1> HIDE DEF h
<1>8. Waiters' = Waiters
  BY <1>3 DEF Waiters, Waiting
<1>9. \A u \in Slots : Slotwise(u, sl, h)
  <2>1. r # NULL => sl[req[r].slot].state = "READY"
    BY <1>6 DEF s
  <2> QED BY <1>3, <1>4, <1>6, <2>1, ServeMoves DEF Moves, Up
<1>10. Onward(sl, h, Waiters)
  <2>1. \A u \in Slots : sl[u].state = "EXEC" <=>
                           slot[u].state = "EXEC" /\ slot[u].exec_req \in Waiters
    BY <1>2, <1>6, ExecutorsWait
  <2>2. \A u \in Slots : slot[u].state = "EXEC" /\ slot[u].exec_req \notin Waiters => ~h[u].irq
    BY ExecutorsWait
  <2> QED BY <1>3, <1>7, <1>8, <1>9, <2>1, <2>2, Onwards
<1>11. Service!MayStart(Phases, Tasks, Places)
  BY <1>7, <1>8, <1>10, OnlyStarts
<1> QED BY <1>3, <1>11 DEF Service!Start, Service!MayStart, Phases, Tasks, Places

\* The service takes in a request whose slots and fabric were sl and hw when the queue
\* was served: at most a free slot has been reserved.
LEMMA Submitted ==
    ASSUME IInv, Owned, IInv', Owned', Up, Up', NEW r \in Requests, NEW t \in HwTasks,
           Run(r, t), NEW sl, \A u \in Slots : Slotwise(u, sl, hw),
           \A u \in Slots : sl[u].state = "EXEC" <=> slot[u].state = "EXEC",
           req'[r].hw_task = t, \A u \in Waiters : req'[u] = req[u]
    PROVE  Service!Submit(r, t)
<1>1. /\ reply[r] # "wait" /\ t \notin banned /\ UNCHANGED banned
      /\ reply' = [reply EXCEPT ![r] = "wait"]
  BY DEF Run, Push
<1>2. r \in Requests \ Waiters /\ Waiters' = Waiters \cup {r}
  BY <1>1, WaitersAfter DEF Waiters, Waiting
<1>3. Onward(sl, hw, Waiters)
  BY <1>2, ExecutorsWait, Onwards
<1>4. hw \in [Slots -> HwRecord]
  BY DEF IInv, TypeOK
<1>5. Service!MayStart([Phases EXCEPT ![r] = "accepted"], [Tasks EXCEPT ![r] = t], Places)
  BY <1>2, <1>3, <1>4, Accepts
<1>6. Phases[r] = "idle"
  BY <1>1, WhatIsSeen DEF AllSeen, Seen, Waiting, Phases
<1> QED BY Zenon, <1>1, <1>5, <1>6 DEF Service!Submit, Service!MayStart, Phases, Tasks, Places

\* A client's request is queued, or a free slot is reserved to it and the FRI queue served.
LEMMA RunMoves ==
    ASSUME IInv, Up, Up', NEW r \in Requests, NEW t \in HwTasks, Run(r, t)
    PROVE  \E sl \in [Slots -> SlotRecord] :
             /\ Moves(sl, timer, hw, devcfg, req', Requests)
             /\ \A u \in Slots : sl[u] = slot[u] \/ ( /\ sl[u].state = "RSRV"
                                                     /\ slot[u].state \in {"IDLE", "BLANK"})
             /\ req'[r].hw_task = t /\ \A u \in Waiters : req'[u] = req[u]
<1> USE ConstantsOK
<1> DEFINE p == TaskPartition[t]
<1>1. /\ req \in [Requests -> RequestRecord] /\ clock \in 0..MaxClock
      /\ slot \in [Slots -> SlotRecord] /\ fri_queue \in Seq(Requests)
  BY DEF IInv, TypeOK
<1>2. r \notin Waiters
  BY DEF Run, Waiters, Waiting
<1>3. PICK now \in clock..(clock + 1) :
        LET fresh == Unbound(r, t, now)
        IN /\ now <= MaxClock
           /\ clock' = now
           /\ \/ /\ SearchSlot(p, t) = {}
                 /\ req' = [req EXCEPT ![r] = fresh]
                 /\ part_queues' = [part_queues EXCEPT ![p] = Enqueue(@, r)]
                 /\ UNCHANGED <<slot, timer, hw, devcfg, fri_queue, status>>
              \/ \E s \in SearchSlot(p, t) :
                    LET rq == [req EXCEPT ![r] =
                                [fresh EXCEPT !.slot = s,
                                              !.skip_rcfg = @ \/ MaySkip(s, t)]]
                    IN /\ req' = rq
                       /\ UNCHANGED part_queues
                       /\ PushFri(SetReserved(slot, s), timer, hw, rq, r)
  BY Zenon DEF Run, Push, PushAccelReq
<1> DEFINE fresh == Unbound(r, t, now)
<1>4. now \in 0..MaxClock
  <2>1. now <= MaxClock
    BY Zenon, <1>3
  <2> QED BY <1>1, <2>1
<1>5. fresh.hw_task = t /\ fresh.skip_rcfg = FALSE /\ fresh \in RequestRecord
  BY <1>4 DEF Unbound, RequestRecord
<1> HIDE DEF fresh
<1>6. CASE req' = [req EXCEPT ![r] = fresh] /\ UNCHANGED <<slot, timer, hw, devcfg>>
  <2>1. req'[r] = fresh /\ \A u \in Waiters : req'[u] = req[u]
    BY <1>1, <1>2, <1>6 DEF Waiters
  <2>2. \A u \in Slots : /\ Same(u, slot, hw) /\ ~Starts(u, slot, hw)
                          /\ ~Programming(u, slot, hw)
    BY <1>6 DEF Same, Starts, Programming
  <2>3. Moves(slot, timer, hw, devcfg, req', Requests)
    BY <1>6, <2>2 DEF Moves, DeviceMoves, Slotwise
  <2> QED BY <1>1, <1>5, <2>1, <2>3
<1>7. ASSUME NEW s \in SearchSlot(p, t),
             req' = [req EXCEPT ![r] = [fresh EXCEPT !.slot = s,
                                          !.skip_rcfg = @ \/ MaySkip(s, t)]],
             PushFri(SetReserved(slot, s), timer, hw,
                     [req EXCEPT ![r] = [fresh EXCEPT !.slot = s,
                                           !.skip_rcfg = @ \/ MaySkip(s, t)]], r)
      PROVE  \E sl \in [Slots -> SlotRecord] :
               /\ Moves(sl, timer, hw, devcfg, req', Requests)
               /\ \A u \in Slots : sl[u] = slot[u] \/
                                      (sl[u].state = "RSRV" /\ slot[u].state \in {"IDLE", "BLANK"})
               /\ req'[r].hw_task = t /\ \A u \in Waiters : req'[u] = req[u]
  <2> DEFINE bound == [fresh EXCEPT !.slot = s, !.skip_rcfg = @ \/ MaySkip(s, t)]
             sl == SetReserved(slot, s)
  <2>1. bound.hw_task = t
    BY <1>5 DEF RequestRecord
  <2> HIDE DEF bound
  <2>2. PushFri(sl, timer, hw, req', r) /\ req'[r] = bound
    BY <1>1, <1>7 DEF bound
  <2>3. \A u \in Waiters : req'[u] = req[u]
    BY <1>1, <1>2, <1>7 DEF Waiters
  <2>4. s \in Slots /\ slot[s].state \in {"IDLE", "BLANK"}
    BY SearchFinds DEF AvailableSlots, IsAvailable
  <2>5. /\ sl \in [Slots -> SlotRecord] /\ sl[s].state = "RSRV"
        /\ \A u \in Slots : u # s => sl[u] = slot[u]
    <3>1. sl = WithState(slot, s, "RSRV") /\ "RSRV" \in SlotStates
      BY DEF SetReserved, WithState, SlotStates
    <3> QED BY <1>1, <2>4, <3>1, WithStateAt
  <2> HIDE DEF sl
  <2>6. Moves(sl, timer, hw, devcfg, req', Requests)
    BY <1>1, <2>2, <2>5, PushMoves DEF Up
  <2> QED BY <2>1, <2>2, <2>3, <2>4, <2>5, <2>6
<1> QED BY <1>3, <1>6, <1>7 DEF fresh

\* The service takes it in, and may start it at once.
LEMMA RunSubmits ==
    ASSUME IInv, Owned, IInv', Owned', Up, Up', NEW r \in Requests, NEW t \in HwTasks,
           Run(r, t)
    PROVE  Service!Submit(r, t)
<1>1. PICK sl \in [Slots -> SlotRecord] :
        /\ Moves(sl, timer, hw, devcfg, req', Requests)
        /\ \A u \in Slots : sl[u] = slot[u] \/ ( /\ sl[u].state = "RSRV"
                                                /\ slot[u].state \in {"IDLE", "BLANK"})
        /\ req'[r].hw_task = t /\ \A u \in Waiters : req'[u] = req[u]
  BY RunMoves
<1>2. \A u \in Slots : sl[u].state = "EXEC" <=> slot[u].state = "EXEC"
  BY <1>1
<1>3. \A u \in Slots : Slotwise(u, sl, hw)
  BY <1>1 DEF Moves
<1> QED BY <1>1, <1>2, <1>3, Submitted

\* A freed slot stays free or is reserved to the head of its partition's queue; nothing
\* else about the requests changes.
LEMMA Refilled ==
    ASSUME IInv, Owned, Up, Up', NEW s \in Slots, NEW sl \in [Slots -> SlotRecord],
           NEW h, NEW tm, NEW p \in Partitions, Pull(sl, tm, h, s, p),
           NEW W \in SUBSET Requests, fri_queue \in Seq(W), part_queues[p] \in Seq(W)
    PROVE  \E nsl \in [Slots -> SlotRecord] :
             /\ nsl = sl \/ nsl = WithState(sl, s, "RSRV")
             /\ Moves(nsl, tm, h, devcfg, req', W)
             /\ \A u \in Requests : /\ req'[u].hw_task = req[u].hw_task
                                    /\ req'[u].skip_rcfg = req[u].skip_rcfg
                                    /\ req[u].slot # NULL => req'[u].slot = req[u].slot
<1>1. Refills(s, p, sl, tm, h, W)
  BY PullMoves DEF Up
<1>2. CASE part_queues[p] = <<>>
  BY <1>1, <1>2 DEF Refills
<1>3. CASE part_queues[p] # <<>>
  <2> DEFINE r == Head(part_queues[p])
             nsl == SetReserved(sl, s)
  <2>1. req' = [req EXCEPT ![r].slot = s] /\ Moves(nsl, tm, h, devcfg, req', W)
    BY <1>1, <1>3 DEF Refills
  <2>2. r \in Waiters /\ req[r].slot = NULL
    <3>1. PartitionsHold(req, part_queues, Waiters)
      BY DEF Owned, Placed
    <3>2. WantsSlotOf(r, p, req, Waiters)
      BY <1>3, <3>1, HeadWants
    <3> QED BY <3>2 DEF WantsSlotOf
  <2>3. nsl = WithState(sl, s, "RSRV") /\ "RSRV" \in SlotStates
    BY DEF SetReserved, WithState, SlotStates
  <2> HIDE DEF r, nsl
  <2>4. nsl \in [Slots -> SlotRecord]
    BY <2>3, WithStateAt
  <2>5. ASSUME NEW u \in Requests
        PROVE  /\ req'[u].hw_task = req[u].hw_task
               /\ req'[u].skip_rcfg = req[u].skip_rcfg
               /\ req[u].slot # NULL => req'[u].slot = req[u].slot
    <3>1. req \in [Requests -> RequestRecord] /\ r \in Requests
      BY <2>2 DEF IInv, TypeOK, Waiters
    <3>2. CASE u = r
      <4>1. req'[r] = [req[r] EXCEPT !.slot = s] /\ req[r] \in RequestRecord
        BY <2>1, <3>1
      <4>2. req'[r].hw_task = req[r].hw_task /\ req'[r].skip_rcfg = req[r].skip_rcfg
        BY <4>1 DEF RequestRecord
      <4> QED BY <2>2, <3>2, <4>2
    <3>3. CASE u # r
      BY <2>1, <3>1, <3>3
    <3> QED BY <3>2, <3>3
  <2> QED BY <2>1, <2>3, <2>4, <2>5
<1> QED BY <1>2, <1>3

\* The requests other than r wait on after r has been answered.
LEMMA Released ==
    ASSUME IInv, Owned, IInv', Owned', Up, Up',
           NEW s \in Slots, NEW r \in Waiters, req[r].slot = s, slot[s].state = "EXEC",
           NEW st \in {"IDLE", "BLANK"}, NEW tm, NEW h \in [Slots -> HwRecord],
           \A u \in Slots : u # s => h[u] = hw[u], ~h[s].irq,
           NEW a, a # "wait", reply' = [reply EXCEPT ![r] = a],
           Pull(WithState(slot, s, st), tm, h, s, SlotPartition[s])
    PROVE  Freed(r)
<1> USE ConstantsOK
<1> DEFINE V == Waiters \ {r}
           sl == WithState(slot, s, st)
<1>1. Waiters' = V /\ V \subseteq Requests
  BY WaitersAfter DEF Waiters
<1>2. /\ sl \in [Slots -> SlotRecord] /\ sl[s].state = st
      /\ \A u \in Slots : u # s => sl[u] = slot[u]
  <2>1. slot \in [Slots -> SlotRecord] /\ st \in SlotStates
    BY DEF IInv, TypeOK, SlotStates
  <2> QED BY <2>1, WithStateAt
<1>3. /\ SlotPartition[s] \in Partitions
      /\ fri_queue \in Seq(Requests) /\ part_queues[SlotPartition[s]] \in Seq(Requests)
  BY DEF IInv, TypeOK
<1> HIDE DEF sl, V
<1>4. PICK nsl \in [Slots -> SlotRecord] :
        /\ nsl = sl \/ nsl = WithState(sl, s, "RSRV")
        /\ Moves(nsl, tm, h, devcfg, req', Requests)
        /\ \A u \in Requests : /\ req'[u].hw_task = req[u].hw_task
                               /\ req[u].slot # NULL => req'[u].slot = req[u].slot
  BY <1>2, <1>3, Refilled DEF sl
<1>5. nsl[s].state # "EXEC" /\ \A u \in Slots : u # s => nsl[u] = slot[u]
  <2> DEFINE rsl == WithState(sl, s, "RSRV")
  <2>1. "RSRV" \in SlotStates /\ sl \in [Slots -> SlotRecord]
    BY <1>2 DEF SlotStates
  <2>2. rsl[s].state = "RSRV" /\ \A u \in Slots : u # s => rsl[u] = sl[u]
    BY ONLY <2>1, s \in Slots, WithStateAt
  <2>3. nsl = sl \/ nsl = rsl
    BY <1>4
  <2> HIDE DEF rsl
  <2> QED BY <1>2, <2>2, <2>3
<1>6. \A u \in Slots : slot[u].state = "EXEC" =>
         slot[u].exec_req \in Waiters /\ (slot[u].exec_req = r <=> u = s)
  <2>1. ASSUME NEW u \in Slots, slot[u].state = "EXEC"
        PROVE  slot[u].exec_req \in Waiters /\ (slot[u].exec_req = r <=> u = s)
    <3>1. slot[u].exec_req \in Waiters /\ req[slot[u].exec_req].slot = u
      BY <2>1, ExecutingOwner
    <3>2. SlotsMatched(slot, req, Waiters) /\ s # NULL
      BY DEF Owned, Placed
    <3> QED BY <3>1, <3>2 DEF SlotsMatched
  <2> QED BY <2>1
<1>7. Onward(nsl, h, V)
  <2>1. \A u \in Slots : nsl[u].state = "EXEC" <=>
                           slot[u].state = "EXEC" /\ slot[u].exec_req \in V
    BY <1>5, <1>6 DEF V
  <2>2. \A u \in Slots : h[u].irq = hw[u].irq \/ (~h[u].irq /\ nsl[u].state # "EXEC")
    BY <1>5
  <2>3. \A u \in Slots : slot[u].state = "EXEC" /\ slot[u].exec_req \notin V => ~h[u].irq
    BY <1>6 DEF V
  <2>4. V \subseteq Waiters \cap Waiters'
    BY <1>1 DEF V
  <2>5. \A u \in Slots : Slotwise(u, nsl, h)
    BY <1>4 DEF Moves
  <2>6. /\ \A u \in V : req'[u].hw_task = req[u].hw_task
        /\ \A u \in V : req[u].slot # NULL => req'[u].slot = req[u].slot
    BY <1>1, <1>4
  <2> QED BY <2>1, <2>2, <2>3, <2>4, <2>5, <2>6, Onwards
<1> QED BY <1>1, <1>7, Releasing DEF V

\* An interrupt: the request has computed, and is answered DONE.
LEMMA SlotCompleteAnswers ==
    ASSUME IInv, Owned, IInv', Owned', Up', NEW s \in Slots,
           NEW delivered \in Outcomes("notify"), Faults = {}, SlotComplete(s, delivered)
    PROVE  \E r \in Requests : Service!AnswerDone(r)
<1> DEFINE r == slot[s].exec_req
           z == req[r].slot
           p == TaskPartition[req[r].hw_task]
           sl == ClearAfterCompute(slot, z)
           tm == Disarm(timer, z)
           h == ConsumeIrq(hw, z)
<1>1. Up /\ hw[s].irq /\ delivered
  BY DEF SlotComplete, SlotHandler, Up, Outcomes
<1>2. slot[s].state = "EXEC"
  BY <1>1 DEF Owned, Agreed, SlotAgrees
<1>3. r \in Waiters /\ z = s /\ p = SlotPartition[s] /\ z # NULL
  BY <1>1, <1>2, ExecutingOwner, ConstantsOK
<1>4. slot \in [Slots -> SlotRecord] /\ hw \in [Slots -> HwRecord]
  BY DEF IInv, TypeOK
<1>5. sl = WithState(slot, s, "IDLE")
  BY <1>3 DEF ClearAfterCompute, WithState
<1>6. /\ h[s] = [hw[s] EXCEPT !.irq = FALSE]
      /\ \A u \in Slots : u # s => h[u] = hw[u]
      /\ h = [u \in Slots |-> h[u]]
  BY <1>3, <1>4 DEF ConsumeIrq
<1>7. /\ reply' = [reply EXCEPT ![r] = "DONE"] /\ Pull(sl, tm, h, z, p)
      /\ UNCHANGED banned
  <2>1. slot[z].state = "EXEC" /\ hw[z].irq
    BY <1>1, <1>2, <1>3
  <2> HIDE DEF r, z, p, sl, tm, h
  <2> QED BY Zenon, <1>1, <1>3, <2>1 DEF SlotComplete, SlotHandler, r, z, p, sl, tm, h
<1> HIDE DEF p, sl, tm, h
<1>8. h[s] \in HwRecord /\ h[s].irq = FALSE
  <2>1. hw[s] \in HwRecord
    BY <1>4
  <2> QED BY <1>6, <2>1 DEF HwRecord
<1>9. h \in [Slots -> HwRecord]
  BY <1>4, <1>6, <1>8
<1>10. PICK x \in Waiters : x = r
  BY <1>3
<1>11. Freed(x)
  <2>1. Pull(WithState(slot, s, "IDLE"), tm, h, s, SlotPartition[s])
    BY <1>3, <1>5, <1>7
  <2>2. req[x].slot = s /\ reply' = [reply EXCEPT ![x] = "DONE"]
    BY <1>3, <1>7, <1>10
  <2> HIDE DEF r, z
  <2> QED BY <1>1, <1>2, <1>6, <1>8, <1>9, <2>1, <2>2, Released
<1>12. Phases[x] = "computed" /\ x \in Requests
  <2>1. Seen(x) /\ Waiting(x) /\ x \in Requests /\ req[x].slot = s
    BY <1>1, <1>3, <1>10, WhatIsSeen DEF AllSeen, Waiters
  <2> QED BY <1>1, <1>2, <1>3, <2>1 DEF Seen, Runs, Phases
<1>13. reply' = [reply EXCEPT ![x] = "DONE"]
  BY <1>7, <1>10
<1>14. Service!AnswerDone(x)
  BY Zenon, <1>7, <1>11, <1>12, <1>13
     DEF Service!AnswerDone, Service!Release, Service!MayStart, Freed, Phases, Tasks, Places
<1> QED BY <1>12, <1>14

\* A watchdog: the request is still running, and is answered OVERRUN.
LEMMA SlotTimeoutAnswers ==
    ASSUME IInv, Owned, IInv', Owned', Up', NEW s \in Slots,
           NEW delivered \in Outcomes("notify"), Faults = {}, SlotTimeout(s, delivered)
    PROVE  \E r \in Requests : Service!AnswerOverrun(r)
<1> DEFINE r == timer[s].exec_req
           z == req[r].slot
           p == TaskPartition[req[r].hw_task]
           tm == [timer EXCEPT ![s].state = "off"]
           sl == DisableAfterTimeout(slot, z)
           h == Decouple(hw, z)
<1>1. Up /\ timer[s].state = "expired" /\ delivered
  BY DEF SlotTimeout, Up, Outcomes
<1>2. slot[s].state = "EXEC" /\ ~hw[s].irq
  <2>1. SlotAgrees(slot[s], timer[s], hw[s], devcfg)
    BY <1>1 DEF Owned, Agreed
  <2> QED BY <1>1, <2>1 DEF SlotAgrees
<1>3. r \in Waiters /\ z = s /\ p = SlotPartition[s] /\ z # NULL
  BY <1>1, <1>2, ExecutingOwner, ConstantsOK
<1>4. slot \in [Slots -> SlotRecord] /\ hw \in [Slots -> HwRecord]
  BY DEF IInv, TypeOK
<1>5. sl = WithState(slot, s, "BLANK")
  BY <1>3 DEF DisableAfterTimeout, WithState
<1>6. /\ h[s] = [hw[s] EXCEPT !.coupled = FALSE]
      /\ \A u \in Slots : u # s => h[u] = hw[u]
      /\ h = [u \in Slots |-> h[u]]
  BY <1>3, <1>4 DEF Decouple
<1>7. /\ reply' = [reply EXCEPT ![r] = "OVERRUN"] /\ Pull(sl, tm, h, z, p)
      /\ banned' = banned \cup {req[r].hw_task}
  <2>1. slot[z].state = "EXEC"
    BY <1>2, <1>3
  <2> HIDE DEF r, z, p, sl, tm, h
  <2> QED BY Zenon, <1>1, <1>3, <2>1 DEF SlotTimeout, r, z, p, sl, tm, h
<1> HIDE DEF p, sl, tm, h
<1>8. h[s] \in HwRecord /\ ~h[s].irq
  <2>1. hw[s] \in HwRecord
    BY <1>4
  <2> QED BY <1>2, <1>6, <2>1 DEF HwRecord
<1>9. h \in [Slots -> HwRecord]
  BY <1>4, <1>6, <1>8
<1>10. PICK x \in Waiters : x = r
  BY <1>3
<1>11. Freed(x)
  <2>1. Pull(WithState(slot, s, "BLANK"), tm, h, s, SlotPartition[s])
    BY <1>3, <1>5, <1>7
  <2>2. req[x].slot = s /\ reply' = [reply EXCEPT ![x] = "OVERRUN"]
    BY <1>3, <1>7, <1>10
  <2> HIDE DEF r, z
  <2> QED BY <1>1, <1>2, <1>6, <1>8, <1>9, <2>1, <2>2, Released
<1>12. Phases[x] = "running" /\ Tasks[x] = req[x].hw_task /\ x \in Requests
  <2>1. Seen(x) /\ Waiting(x) /\ x \in Requests /\ req[x].slot = s
    BY <1>1, <1>3, <1>10, WhatIsSeen DEF AllSeen, Waiters
  <2> QED BY <1>2, <1>3, <2>1 DEF Seen, Runs, Phases, Tasks
<1>13. reply' = [reply EXCEPT ![x] = "OVERRUN"] /\ banned' = banned \cup {Tasks[x]}
  BY <1>7, <1>10, <1>12
<1>14. Service!AnswerOverrun(x)
  BY Zenon, <1>11, <1>12, <1>13
     DEF Service!AnswerOverrun, Service!Release, Service!MayStart, Freed, Phases, Tasks, Places
<1> QED BY <1>12, <1>14

\* A banned hw-task is refused.
LEMMA RunBannedRefuses ==
    ASSUME IInv, Owned, Up, NEW r \in Requests, NEW t \in HwTasks, RunBanned(r, t)
    PROVE  Service!Refuse(r)
<1>1. /\ reply[r] # "wait" /\ t \in banned
      /\ reply' = [reply EXCEPT ![r] = "ERROR"]
      /\ UNCHANGED <<slot, hw, req, banned>>
  BY DEF RunBanned
<1>2. Phases[r] = "idle"
  BY <1>1, WhatIsSeen DEF AllSeen, Seen, Waiting, Phases
<1>3. \A u \in Requests : Waiting(u)' <=> Waiting(u)
  BY <1>1 DEF IInv, TypeOK, Waiting
<1>4. Phases' = Phases /\ Tasks' = Tasks /\ Places' = Places
  BY <1>1, <1>3 DEF Phases, Tasks, Places, PhaseOf, Executing
<1> QED BY Zenon, <1>1, <1>2, <1>4 DEF Service!Refuse, Phases, Tasks, Places

\* What moves neither requests nor interrupts cannot be seen.
LEMMA Unseen ==
    ASSUME UNCHANGED <<slot, req, reply, banned>>, \A s \in Slots : hw'[s].irq = hw[s].irq
    PROVE  UNCHANGED Service!absvars
<1>1. \A r \in Requests : (Waiting(r)' <=> Waiting(r)) /\ Executing(r)' = Executing(r)
  BY DEF Waiting, Executing
<1>2. \A r \in Requests : PhaseOf(r)' = PhaseOf(r)
  <2>1. SUFFICES ASSUME NEW r \in Requests PROVE PhaseOf(r)' = PhaseOf(r)
    OBVIOUS
  <2>2. \A s \in Executing(r) : hw'[s].irq = hw[s].irq
    BY DEF Executing
  <2> HIDE DEF Executing
  <2> QED BY <1>1, <2>2 DEF PhaseOf
<1>3. Phases' = Phases
  BY <1>2 DEF Phases
<1>4. Tasks' = Tasks
  BY <1>1 DEF Tasks
<1>5. Places' = Places
  BY DEF Places, Waiting, Executing
<1> QED BY Zenon, <1>3, <1>4, <1>5 DEF Service!absvars, Phases, Tasks, Places

\* An accelerator finishes: its request has computed.
LEMMA AccelDoneComputes ==
    ASSUME RaceFree, IInv, Owned, IInv', Owned', NEW s \in Slots, AccelDone(s)
    PROVE  \E r \in Requests : Service!Compute(r)
<1> USE ConstantsOK
<1>1. /\ Up /\ Up' /\ hw[s].busy /\ hw[s].coupled
      /\ hw' = [hw EXCEPT ![s].busy = FALSE, ![s].irq = TRUE]
      /\ UNCHANGED <<slot, req, reply, banned>>
  BY DEF AccelDone, Up
<1>2. hw \in [Slots -> HwRecord]
  BY DEF IInv, TypeOK
<1>3. slot[s].state = "EXEC" /\ ~hw[s].irq
  <2>1. SlotAgrees(slot[s], timer[s], hw[s], devcfg)
    BY <1>1 DEF Owned, Agreed
  <2>2. hw[s] \in HwRecord
    BY <1>2
  <2> QED BY <1>1, <2>1, <2>2 DEF SlotAgrees, HwRecord
<1>4. PICK r \in Requests : slot[s].exec_req = r /\ Waiting(r) /\ req[r].slot = s
  BY <1>1, <1>3, ExecutingOwner DEF Waiters
<1>5. hw'[s].irq /\ \A u \in Slots : u # s => hw'[u].irq = hw[u].irq
  <2>1. hw'[s] = [hw[s] EXCEPT !.busy = FALSE, !.irq = TRUE] /\ hw[s] \in HwRecord
    BY <1>1, <1>2
  <2>2. hw'[s].irq
    BY <2>1 DEF HwRecord
  <2> QED BY <1>1, <1>2, <2>2
<1>6. \A u \in Requests : (Waiting(u)' <=> Waiting(u)) /\ (Runs(u)' <=> Runs(u))
  BY <1>1 DEF Waiting, Runs
<1>7. \A u \in Requests : Seen(u) /\ Seen(u)'
  BY <1>1, WhatIsSeen, WhatIsSeenNext DEF AllSeen
<1>8. ASSUME NEW u \in Requests PROVE PhaseOf(u)' = IF u = r THEN "computed" ELSE PhaseOf(u)
  <2>1. CASE u = r
    BY <1>1, <1>3, <1>4, <1>5, <1>6, <1>7, <2>1 DEF Seen, Runs
  <2>2. CASE u # r /\ Waiting(u) /\ Runs(u)
    <3>1. req[u].slot \in Slots /\ req[u].slot # s
      <4>1. req[u] \in RequestRecord /\ req[u].slot # NULL
        BY <2>2 DEF IInv, TypeOK, Runs
      <4>2. SlotsMatched(slot, req, Waiters)
        BY <1>1 DEF Owned, Placed
      <4>3. req[u].slot # s
        BY <1>4, <2>2, <4>1, <4>2 DEF SlotsMatched, Waiters
      <4> QED BY <4>1, <4>3 DEF RequestRecord
    <3>2. req'[u] = req[u] /\ hw'[req[u].slot].irq = hw[req[u].slot].irq
      BY <1>1, <1>5, <3>1
    <3>3. Seen(u) /\ Seen(u)' /\ Waiting(u)' /\ Runs(u)'
      BY <1>6, <1>7, <2>2
    <3> QED BY <2>2, <3>2, <3>3 DEF Seen
  <2>3. CASE u # r /\ ~(Waiting(u) /\ Runs(u))
    BY <1>6, <1>7, <2>3 DEF Seen
  <2> QED BY <2>1, <2>2, <2>3
<1>9. /\ Phases' = [Phases EXCEPT ![r] = "computed"] /\ Phases[r] = "running"
      /\ Tasks' = Tasks /\ Places' = Places
  <2>1. Phases' = [Phases EXCEPT ![r] = "computed"]
    BY <1>8 DEF Phases
  <2>2. Phases[r] = "running"
    BY <1>1, <1>3, <1>4, <1>7 DEF Phases, Seen, Runs
  <2>3. Tasks' = Tasks /\ Places' = Places
    BY <1>1, <1>6 DEF Tasks, Places, Executing
  <2> QED BY <2>1, <2>2, <2>3
<1>10. Service!Compute(r)
  BY Zenon, <1>1, <1>9 DEF Service!Compute, Phases, Tasks, Places
<1> QED BY <1>10

\* One step of the scheduler is one of the service, or none.
LEMMA StepServes ==
    ASSUME RaceFree, Faults = {}, IInv, Owned, IInv', Owned', [Next]_vars
    PROVE  [Service!Next]_Service!absvars
<1>0. Up /\ Up'
  BY DEF Owned
<1>1. ASSUME NEW r \in Requests, NEW t \in HwTasks, Run(r, t) PROVE Service!Next
  <2>1. Service!Submit(r, t)
    BY <1>0, <1>1, RunSubmits
  <2> QED BY <2>1 DEF Service!Next
<1>2. ASSUME NEW r \in Requests, NEW t \in HwTasks, RunBanned(r, t) PROVE Service!Next
  <2>1. Service!Refuse(r)
    BY <1>0, <1>2, RunBannedRefuses
  <2> QED BY <2>1 DEF Service!Next
<1>3. CASE RcfgComplete
  BY <1>0, <1>3, RcfgCompleteStarts DEF Service!Next
<1>4. ASSUME NEW s \in Slots, NEW d \in Outcomes("notify"), SlotComplete(s, d)
      PROVE  Service!Next
  BY <1>0, <1>4, SlotCompleteAnswers DEF Service!Next
<1>5. ASSUME NEW s \in Slots, NEW d \in Outcomes("notify"), SlotTimeout(s, d)
      PROVE  Service!Next
  BY <1>0, <1>5, SlotTimeoutAnswers DEF Service!Next
<1>6. ASSUME NEW s \in Slots, AccelDone(s) PROVE Service!Next
  BY <1>6, AccelDoneComputes DEF Service!Next
<1>7. ASSUME NEW s \in Slots, TimerExpire(s) PROVE UNCHANGED Service!absvars
  BY <1>7, Unseen DEF TimerExpire
<1>8. CASE RcfgDone
  <2>1. hw' = [hw EXCEPT ![devcfg.bit_slot].fabric = devcfg.bit_task,
                         ![devcfg.bit_slot].busy = FALSE]
    BY <1>8 DEF RcfgDone
  <2>2. hw \in [Slots -> HwRecord]
    BY DEF IInv, TypeOK
  <2>3. ASSUME NEW s \in Slots PROVE hw'[s].irq = hw[s].irq
    <3>1. hw[s] \in HwRecord /\ (s # devcfg.bit_slot => hw'[s] = hw[s])
      BY <2>1, <2>2
    <3>2. CASE s = devcfg.bit_slot
      <4>1. hw'[s] = [hw[s] EXCEPT !.fabric = devcfg.bit_task, !.busy = FALSE]
        BY <2>1, <2>2, <3>2
      <4> QED BY <3>1, <4>1 DEF HwRecord
    <3> QED BY <3>1, <3>2
  <2> QED BY <1>8, <2>3, Unseen DEF RcfgDone
<1>9. CASE Stopped \/ UNCHANGED vars
  <2>1. UNCHANGED vars
    BY <1>9 DEF Stopped
  <2> QED BY <2>1, Unseen DEF vars
<1> QED BY Zenon, <1>1, <1>2, <1>3, <1>4, <1>5, <1>6, <1>7, <1>8, <1>9 DEF Next

\* Before the first request the service is idle too.
LEMMA InitServes == Init => Service!Init
<1> SUFFICES ASSUME Init PROVE Service!Init
  OBVIOUS
<1>1. \A r \in Requests : ~Waiting(r)
  BY DEF Init, Waiting
<1>2. /\ Phases = [r \in Requests |-> "idle"]
      /\ Tasks = [r \in Requests |-> NULL] /\ Places = [r \in Requests |-> NULL]
  BY <1>1 DEF Phases, Tasks, Places, PhaseOf
<1>3. reply = [r \in Requests |-> "none"] /\ banned = {}
  BY DEF Init
<1> QED BY Zenon, <1>2, <1>3 DEF Service!Init, Phases, Tasks, Places

-----------------------------------------------------------------------------

\* The scheduler implements the service it promises its clients: each of its steps, with
\* its queues, device and watchdogs, accepts, starts, computes, answers or refuses
\* requests as AccelService allows, or is not seen. This needs a notification that
\* arrives: when the write to a client fails the slot is freed and nobody answered.
THEOREM ServiceImplemented == ASSUME RaceFree, Faults = {} PROVE Spec => ImplementsService
<1>1. Init => Service!Init
  BY InitServes
<1>2. IInv /\ Owned /\ IInv' /\ Owned' /\ [Next]_vars => [Service!Next]_Service!absvars
  BY StepServes
<1> QED BY <1>1, <1>2, Invariance, Ownership, PTL DEF Spec, ImplementsService, Service!Spec
=============================================================================
