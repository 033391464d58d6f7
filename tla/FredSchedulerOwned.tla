------------------------ MODULE FredSchedulerOwned ------------------------
(***************************************************************************)
(* Who owns what: the proof that every waiting request is in exactly one    *)
(* place and every slot that is not available belongs to exactly one        *)
(* request, and what follows from it for the executing accelerators and the *)
(* asserts of the state machines.                                           *)
(*                                                                         *)
(* All of it is proved for RaceFree behaviours, in which no completion and  *)
(* watchdog expiry of one execution are both pending; run "race" shows that *)
(* it fails in others.                                                      *)
(***************************************************************************)
EXTENDS FredSchedulerProofs, FiniteSetTheorems, WellFoundedInduction

-----------------------------------------------------------------------------
(* The inductive invariant. It is stated about arguments, not variables,    *)
(* because a handler passes through configurations no state shows: a slot   *)
(* freed whose request is answered and whose successor is not chosen yet, a *)
(* slot READY to be served.                                                 *)

\* The slot states in which a request owns the slot.
Taken == {"RSRV", "READY", "RCFG", "EXEC"}

Distinct(q) == \A i, j \in 1..Len(q) : q[i] = q[j] => i = j
Member(r, q) == \E i \in 1..Len(q) : q[i] = r

\* A waiting request is where its slot says: in its partition's queue while it has
\* none, else in the FRI queue, at the device or executing, by the slot's state.
InItsPlace(r, sl, dv, rq, pq, q) ==
    LET s == rq[r].slot
        p == TaskPartition[rq[r].hw_task]
    IN /\ rq[r].hw_task # NULL
       /\ s = NULL => Member(r, pq[p]) /\ ~rq[r].skip_rcfg
       /\ s # NULL =>
            /\ SlotPartition[s] = p
            /\ sl[s].state \in Taken
            /\ sl[s].state \in {"RSRV", "READY"} => Member(r, q)
            /\ sl[s].state = "RCFG" => dv.state = "PROG" /\ dv.current_rcfg_req = r
            /\ sl[s].state = "EXEC" => sl[s].exec_req = r

\* No two waiting requests share a slot, and no taken slot is without a request.
SlotsMatched(sl, rq, W) ==
    /\ \A r, u \in W : rq[r].slot # NULL /\ rq[r].slot = rq[u].slot => r = u
    /\ \A s \in Slots : sl[s].state \in Taken => \E r \in W : rq[r].slot = s

\* The FRI queue holds waiting requests whose slot is reserved, each once.
FriHolds(sl, rq, q, W) ==
    /\ q \in Seq(W)
    /\ Distinct(q)
    /\ \A i \in 1..Len(q) :
         rq[q[i]].slot # NULL /\ sl[rq[q[i]].slot].state \in {"RSRV", "READY"}

\* A partition's queue holds waiting requests of its own that have no slot, each once.
PartitionsHold(rq, pq, W) ==
    \A p \in Partitions :
        /\ pq[p] \in Seq(W)
        /\ Distinct(pq[p])
        /\ \A i \in 1..Len(pq[p]) :
             rq[pq[p][i]].slot = NULL /\ TaskPartition[rq[pq[p][i]].hw_task] = p

\* The device programs the slot and the hw-task of its current request.
DeviceHolds(sl, dv, rq, W) ==
    LET r == dv.current_rcfg_req IN
    IF dv.state = "PROG"
    THEN /\ r \in W /\ rq[r].slot # NULL
         /\ sl[rq[r].slot].state = "RCFG"
         /\ dv.drv # "quiet"
         /\ dv.bit_slot = rq[r].slot /\ dv.bit_task = rq[r].hw_task
    ELSE dv.drv = "quiet"

\* The requests of W, which wait, are each in one place.
Placed(sl, dv, rq, pq, q, W) ==
    /\ \A r \in W : InItsPlace(r, sl, dv, rq, pq, q)
    /\ SlotsMatched(sl, rq, W)
    /\ FriHolds(sl, rq, q, W)
    /\ PartitionsHold(rq, pq, W)
    /\ DeviceHolds(sl, dv, rq, W)

\* The module in the fabric of a slot is the one the slot record names, and stands
\* still behind an open decoupler.
HoldsModule(sr, hr) == hr.fabric = sr.hw_task /\ hr.coupled /\ ~hr.busy

\* The hardware and the watchdog of a slot agree with its state. The accelerator of
\* a slot that does not execute may still run after an overrun: then it is decoupled.
SlotAgrees(sr, tr, hr, dv) ==
    /\ sr.state # "EXEC" => tr.state = "off" /\ ~hr.irq /\ (hr.busy => ~hr.coupled)
    /\ sr.state = "EXEC" =>
         /\ hr.fabric = sr.hw_task /\ hr.coupled
         /\ tr.state # "off" /\ tr.exec_req = sr.exec_req
         /\ hr.busy # hr.irq
         /\ hr.irq => tr.state = "armed"
    /\ sr.state \in {"IDLE", "READY"} => HoldsModule(sr, hr)
    /\ sr.state = "RCFG" /\ dv.drv = "done" => hr.fabric = sr.hw_task /\ ~hr.busy

\* The slot of request r holds, or is being given, the hw-task r asked for.
TaskAgrees(r, sl, h, rq) ==
    LET s == rq[r].slot IN
    s # NULL =>
        /\ sl[s].state \in {"READY", "RCFG", "EXEC"} => sl[s].hw_task = rq[r].hw_task
        /\ sl[s].state = "RSRV" /\ rq[r].skip_rcfg =>
             sl[s].hw_task = rq[r].hw_task /\ HoldsModule(sl[s], h[s])

Agreed(sl, tm, h, dv, rq, W) ==
    /\ \A s \in Slots : SlotAgrees(sl[s], tm[s], h[s], dv)
    /\ \A r \in W : TaskAgrees(r, sl, h, rq)

\* No slot of a partition is available while a request waits in its queue.
Conserving(sl, pq) ==
    \A s \in Slots : pq[SlotPartition[s]] # <<>> => sl[s].state \in Taken

Waiters == {r \in Requests : Waiting(r)}

Owned ==
    /\ status \in {"up", "down"}
    /\ Faults = {} => Up
    /\ Up => /\ Placed(slot, devcfg, req, part_queues, fri_queue, Waiters)
             /\ Agreed(slot, timer, hw, devcfg, req, Waiters)
             /\ Conserving(slot, part_queues)

-----------------------------------------------------------------------------
(* Members of sequences. *)

\* Taking the head off a queue without repetitions leaves the other members.
LEMMA HeadOff ==
    ASSUME NEW B, NEW q \in Seq(B), q # <<>>, Distinct(q)
    PROVE  /\ Tail(q) \in Seq(B \ {Head(q)})
           /\ Distinct(Tail(q))
           /\ Len(Tail(q)) = Len(q) - 1
           /\ \A i \in 1..Len(Tail(q)) : Tail(q)[i] = q[i + 1]
           /\ \A u : Member(u, q) /\ u # Head(q) => Member(u, Tail(q))
<1>1. /\ Tail(q) \in Seq(B) /\ Len(Tail(q)) = Len(q) - 1
      /\ \A i \in 1..Len(Tail(q)) : Tail(q)[i] = q[i + 1]
      /\ Len(q) \in Nat /\ Len(q) # 0
  BY HeadTailProperties, LenProperties, EmptySeq
<1>2. Head(q) = q[1]
  OBVIOUS
<1>3. Distinct(Tail(q))
  BY <1>1 DEF Distinct
<1>4. ASSUME NEW u, Member(u, q), u # Head(q) PROVE Member(u, Tail(q))
  <2>1. PICK i \in 1..Len(q) : q[i] = u
    BY <1>4 DEF Member
  <2>2. i # 1
    BY <1>2, <1>4, <2>1
  <2>3. i - 1 \in 1..Len(Tail(q)) /\ Tail(q)[i - 1] = u
    BY <1>1, <2>1, <2>2
  <2> QED BY <2>3 DEF Member
<1>5. Tail(q) \in Seq(B \ {Head(q)})
  <2>1. ASSUME NEW i \in 1..Len(Tail(q)) PROVE Tail(q)[i] \in B \ {Head(q)}
    <3>1. Tail(q)[i] = q[i + 1] /\ i + 1 \in 1..Len(q) /\ 1 \in 1..Len(q) /\ i + 1 # 1
      BY <1>1
    <3>2. q[i + 1] # q[1]
      BY <3>1 DEF Distinct
    <3> QED BY <1>2, <3>1, <3>2, ElementOfSeq
  <2>2. \A i \in 2..Len(q) : q[i] \in B \ {Head(q)}
    <3>1. ASSUME NEW i \in 2..Len(q) PROVE q[i] \in B \ {Head(q)}
      <4>1. i - 1 \in 1..Len(Tail(q)) /\ i - 1 + 1 = i
        BY <1>1
      <4> QED BY <1>1, <2>1, <4>1
    <3> QED BY <3>1
  <2>3. Tail(q) = SubSeq(q, 2, Len(q))
    BY TailIsSubSeq
  <2> DEFINE C == B \ {Head(q)}
  <2> HIDE DEF C
  <2>4. SubSeq(q, 2, Len(q)) \in Seq(C)
    <3>1. \A i \in 2..Len(q) : q[i] \in C
      BY <2>2 DEF C
    <3> QED BY <1>1, <3>1, SubSeqProperties
  <2> QED BY <2>3, <2>4 DEF C
<1> QED BY <1>1, <1>3, <1>4, <1>5

\* Queue a is q with r behind the k-th element.
Inserts(a, q, k, r) ==
    /\ Len(a) = Len(q) + 1
    /\ \A i \in 1..k : a[i] = q[i]
    /\ a[k + 1] = r
    /\ \A i \in (k + 2)..(Len(q) + 1) : a[i] = q[i - 1]

\* What is where after an insertion behind the k-th element.
LEMMA InsertedAt ==
    ASSUME NEW B, NEW q \in Seq(B), NEW r, NEW k \in 0..Len(q)
    PROVE  /\ InsertedAfter(q, k, r) \in Seq(B \cup {r})
           /\ Inserts(InsertedAfter(q, k, r), q, k, r)
<1> DEFINE C == B \cup {r}
           front == SubSeq(q, 1, k)
           back == SubSeq(q, k + 1, Len(q))
<1>1. q \in Seq(C) /\ Len(q) \in Nat /\ \A i \in 1..Len(q) : q[i] \in C
  BY SeqMonotonic, LenProperties, ElementOfSeq
<1>2. front \in Seq(C) /\ Len(front) = k /\ \A i \in 1..k : front[i] = q[i]
  <2>1. \A i \in 1..k : q[i] \in C
    BY <1>1
  <2>2. /\ front \in Seq(C) /\ Len(front) = IF 1 <= k THEN k - 1 + 1 ELSE 0
        /\ \A i \in 1..(k - 1 + 1) : front[i] = q[1 + i - 1]
    BY <1>1, <2>1, SubSeqProperties
  <2> HIDE DEF front
  <2> QED BY <1>1, <2>2
<1>3. /\ back \in Seq(C) /\ Len(back) = Len(q) - k
      /\ \A i \in 1..(Len(q) - k) : back[i] = q[k + i]
  <2>1. \A i \in (k + 1)..Len(q) : q[i] \in C
    BY <1>1
  <2>2. /\ back \in Seq(C)
        /\ Len(back) = IF k + 1 <= Len(q) THEN Len(q) - (k + 1) + 1 ELSE 0
        /\ \A i \in 1..(Len(q) - (k + 1) + 1) : back[i] = q[(k + 1) + i - 1]
    BY <1>1, <2>1, SubSeqProperties
  <2> HIDE DEF back
  <2> QED BY <1>1, <2>2
<1>4. <<r>> \in Seq(C) /\ Len(<<r>>) = 1 /\ <<r>>[1] = r
  OBVIOUS
<1> HIDE DEF front, back, C
<1>5. /\ front \o <<r>> \in Seq(C) /\ Len(front \o <<r>>) = k + 1
      /\ \A i \in 1..(k + 1) : (front \o <<r>>)[i] = IF i <= k THEN q[i] ELSE r
  <2>1. /\ front \o <<r>> \in Seq(C)
        /\ Len(front \o <<r>>) = Len(front) + Len(<<r>>)
        /\ \A i \in 1..(Len(front) + Len(<<r>>)) : (front \o <<r>>)[i] =
              IF i <= Len(front) THEN front[i] ELSE <<r>>[i - Len(front)]
    BY <1>2, <1>4, ConcatProperties
  <2> QED BY <1>2, <1>4, <2>1
<1> DEFINE fr == front \o <<r>>
           a == fr \o back
<1>6. /\ a \in Seq(C) /\ Len(a) = Len(fr) + Len(back)
      /\ \A i \in 1..(Len(fr) + Len(back)) : a[i] =
            IF i <= Len(fr) THEN fr[i] ELSE back[i - Len(fr)]
  <2> HIDE DEF fr
  <2> QED BY <1>3, <1>5, ConcatProperties DEF fr
<1> HIDE DEF fr, a
<1>7. /\ Len(fr) = k + 1
      /\ \A i \in 1..(k + 1) : fr[i] = IF i <= k THEN q[i] ELSE r
  BY <1>5 DEF fr
<1>8. Len(a) = Len(q) + 1
  BY <1>1, <1>3, <1>6, <1>7
<1>9. ASSUME NEW i \in 1..Len(a)
      PROVE  a[i] = IF i <= k THEN q[i] ELSE IF i = k + 1 THEN r ELSE q[i - 1]
  <2>1. CASE i <= k + 1
    BY <1>1, <1>3, <1>6, <1>7, <1>8, <2>1
  <2>2. CASE i > k + 1
    <3>1. a[i] = back[i - (k + 1)] /\ i - (k + 1) \in 1..(Len(q) - k)
      BY <1>1, <1>3, <1>6, <1>7, <1>8, <2>2
    <3>2. back[i - (k + 1)] = q[k + (i - (k + 1))]
      BY <1>3, <3>1
    <3>3. k + (i - (k + 1)) = i - 1
      OBVIOUS
    <3> QED BY <2>2, <3>1, <3>2, <3>3
  <2> QED BY <1>1, <1>8, <2>1, <2>2
<1>10. a = InsertedAfter(q, k, r)
  BY DEF a, fr, front, back, InsertedAfter
<1>11. Inserts(a, q, k, r)
  BY <1>1, <1>8, <1>9 DEF Inserts
<1> QED BY <1>6, <1>8, <1>10, <1>11 DEF C

\* Inserting a request that is not in a queue without repetitions.
LEMMA InsertedMembers ==
    ASSUME NEW B, NEW q \in Seq(B), Distinct(q), NEW r, r \notin B, NEW k \in 0..Len(q)
    PROVE  /\ InsertedAfter(q, k, r) \in Seq(B \cup {r})
           /\ Distinct(InsertedAfter(q, k, r))
           /\ Member(r, InsertedAfter(q, k, r))
           /\ \A u : Member(u, q) => Member(u, InsertedAfter(q, k, r))
<1> DEFINE a == InsertedAfter(q, k, r)
<1>0. a \in Seq(B \cup {r}) /\ Inserts(a, q, k, r)
  BY InsertedAt
<1> HIDE DEF a
<1>1. /\ a \in Seq(B \cup {r}) /\ Len(a) = Len(q) + 1
      /\ \A i \in 1..k : a[i] = q[i]
      /\ a[k + 1] = r
      /\ \A i \in (k + 2)..(Len(q) + 1) : a[i] = q[i - 1]
  BY <1>0 DEF Inserts
<1>2. Len(q) \in Nat /\ \A i \in 1..Len(q) : q[i] \in B
  BY LenProperties, ElementOfSeq
<1>3. Member(r, a)
  <2>1. k + 1 \in 1..Len(a) /\ a[k + 1] = r
    BY <1>1, <1>2
  <2> QED BY <2>1 DEF Member
<1>4. ASSUME NEW u, Member(u, q) PROVE Member(u, a)
  <2>1. PICK i \in 1..Len(q) : q[i] = u
    BY <1>4 DEF Member
  <2>2. CASE i <= k
    <3>1. i \in 1..Len(a) /\ a[i] = u
      BY <1>1, <1>2, <2>1, <2>2
    <3> QED BY <3>1 DEF Member
  <2>3. CASE i > k
    <3>1. i + 1 \in 1..Len(a) /\ a[i + 1] = q[i + 1 - 1]
      BY <1>1, <1>2, <2>1, <2>3
    <3>2. a[i + 1] = u
      BY <2>1, <3>1
    <3> QED BY <3>1, <3>2 DEF Member
  <2> QED BY <1>2, <2>1, <2>2, <2>3
<1>5. Distinct(a)
  <2>1. SUFFICES ASSUME NEW i \in 1..Len(a), NEW j \in 1..Len(a), a[i] = a[j]
                 PROVE  i = j
    BY DEF Distinct
  <2> DEFINE at(m) == IF m <= k THEN m ELSE m - 1
  <2>2. \A m \in 1..Len(a) : m # k + 1 => /\ at(m) \in 1..Len(q) /\ a[m] = q[at(m)]
                                          /\ a[m] # r
    <3>1. ASSUME NEW m \in 1..Len(a), m # k + 1
          PROVE  at(m) \in 1..Len(q) /\ a[m] = q[at(m)] /\ a[m] # r
      <4>1. at(m) \in 1..Len(q)
        BY <1>1, <1>2, <3>1
      <4>2. a[m] = q[at(m)]
        BY <1>1, <3>1
      <4> QED BY <1>2, <4>1, <4>2
    <3> QED BY <3>1
  <2>3. a[k + 1] = r
    BY <1>1, <1>2
  <2>4. CASE i = k + 1 \/ j = k + 1
    BY <2>1, <2>2, <2>3, <2>4
  <2>5. CASE i # k + 1 /\ j # k + 1
    <3>1. /\ at(i) \in 1..Len(q) /\ at(j) \in 1..Len(q) /\ q[at(i)] = q[at(j)]
      BY <2>1, <2>2, <2>5
    <3>2. at(i) = at(j)
      BY <3>1 DEF Distinct
    <3> QED BY <1>1, <1>2, <2>5, <3>2
  <2> QED BY <2>4, <2>5
<1> QED BY <1>1, <1>3, <1>4, <1>5 DEF a

\* Serving a queue leaves a suffix of it.
LEMMA SuffixAt ==
    ASSUME NEW B, NEW q \in Seq(B), NEW m \in 1..(Len(q) + 1)
    PROVE  /\ SubSeq(q, m, Len(q)) \in Seq(B)
           /\ Len(SubSeq(q, m, Len(q))) = Len(q) - m + 1
           /\ \A i \in 1..(Len(q) - m + 1) : /\ SubSeq(q, m, Len(q))[i] = q[m + i - 1]
                                            /\ m + i - 1 \in m..Len(q)
           /\ \A i \in m..Len(q) : Member(q[i], SubSeq(q, m, Len(q)))
<1> DEFINE a == SubSeq(q, m, Len(q))
<1>1. Len(q) \in Nat /\ \A i \in m..Len(q) : q[i] \in B
  BY LenProperties, ElementOfSeq
<1>2. /\ a \in Seq(B) /\ Len(a) = IF m <= Len(q) THEN Len(q) - m + 1 ELSE 0
      /\ \A i \in 1..(Len(q) - m + 1) : a[i] = q[m + i - 1]
  BY <1>1, SubSeqProperties
<1> HIDE DEF a
<1>3. Len(a) = Len(q) - m + 1
  BY <1>1, <1>2
<1>4. \A i \in 1..Len(a) : a[i] = q[m + i - 1] /\ m + i - 1 \in m..Len(q)
  BY <1>1, <1>2, <1>3
<1>5. ASSUME NEW i \in m..Len(q) PROVE Member(q[i], a)
  <2>1. i - m + 1 \in 1..Len(a) /\ m + (i - m + 1) - 1 = i
    BY <1>1, <1>3
  <2>2. a[i - m + 1] = q[i]
    BY <1>4, <2>1
  <2> QED BY <2>1, <2>2 DEF Member
<1> QED BY <1>2, <1>3, <1>4, <1>5 DEF a

-----------------------------------------------------------------------------
(* Serving the FRI queue, slot by slot. *)

\* What a handler that serves a run of requests does to one slot: it starts the
\* accelerator for r, has the slot programmed for r, or leaves it alone.
StartsFor(r, s, sl, tm, h) ==
    /\ slot'[s] = [sl[s] EXCEPT !.state = "EXEC", !.exec_req = r]
    /\ timer'[s] = [state |-> "armed", exec_req |-> r]
    /\ hw'[s] = [h[s] EXCEPT !.busy = TRUE]

ProgramsFor(r, s, sl, tm, h, rq, accepted) ==
    /\ slot'[s] = [sl[s] EXCEPT !.state = "RCFG", !.hw_task = rq[r].hw_task]
    /\ timer'[s] = tm[s]
    /\ hw'[s] = [h[s] EXCEPT !.coupled = FALSE, !.fabric = IF accepted THEN NULL ELSE @]

LeavesAlone(s, sl, tm, h) == slot'[s] = sl[s] /\ timer'[s] = tm[s] /\ hw'[s] = h[s]

\* The first n requests of the run are started and the next one is programmed.
Served(n, accepted, sl, tm, h, dv, rq, run, ready) ==
    /\ \A i \in 1..n : NeedsNoRcfg(rq, run, ready, i)
    /\ n # Len(run) => ~NeedsNoRcfg(rq, run, ready, n + 1)
    /\ \A i \in 1..n : StartsFor(run[i], rq[run[i]].slot, sl, tm, h)
    /\ n # Len(run) =>
         ProgramsFor(run[n + 1], rq[run[n + 1]].slot, sl, tm, h, rq, accepted)
    /\ \A s \in Slots :
         \/ \E i \in 1..n : rq[run[i]].slot = s
         \/ n # Len(run) /\ rq[run[n + 1]].slot = s
         \/ LeavesAlone(s, sl, tm, h)
    /\ n = Len(run) => devcfg' = dv /\ fri_queue' = SubSeq(run, n + 1, Len(run))
    /\ n # Len(run) =>
         /\ devcfg' = [state |-> "PROG", current_rcfg_req |-> run[n + 1],
                       drv |-> IF accepted THEN "loading" ELSE dv.drv,
                       bit_slot |-> rq[run[n + 1]].slot, bit_task |-> rq[run[n + 1]].hw_task]
         /\ fri_queue' = SubSeq(run, n + 2, Len(run))
    /\ \/ ~ServeAsserts(sl, dv, rq, run, n, IF n = Len(run) THEN NULL ELSE run[n + 1])
       \/ status' = IF n # Len(run) /\ ~accepted THEN "down" ELSE "up"

\* When the requests of a run have slots of their own and none that needs no
\* programming finds its accelerator busy, serving it goes slot by slot as above.
LEMMA ServeBySlot ==
    ASSUME NEW W \in SUBSET Requests, NEW sl, NEW tm, NEW h, NEW dv, NEW rq,
           NEW run \in Seq(W), NEW ready,
           \A i \in 1..Len(run) : rq[run[i]].slot \in Slots,
           \A i, j \in 1..Len(run) : rq[run[i]].slot = rq[run[j]].slot => i = j,
           \A i \in 1..Len(run) :
              NeedsNoRcfg(rq, run, ready, i) => ~h[rq[run[i]].slot].busy,
           Serve(sl, tm, h, dv, rq, run, ready)
    PROVE  \E n \in 0..Len(run), accepted \in Outcomes("rcfg_start") :
              Served(n, accepted, sl, tm, h, dv, rq, run, ready)
<1> USE ConstantsOK
<1>1. PICK n \in StartCounts(h, rq, run, ready), accepted \in Outcomes("rcfg_start") :
        /\ slot' = ServedSlots(sl, rq, run, n, Programmed(h, rq, run, n))
        /\ timer' = ServedTimers(tm, h, rq, run, n)
        /\ hw' = ServedHw(h, rq, run, n, Programmed(h, rq, run, n), accepted)
        /\ devcfg' = StartProg(dv, rq, Programmed(h, rq, run, n), accepted)
        /\ fri_queue' = SubSeq(run, IF Programmed(h, rq, run, n) = NULL THEN n + 1 ELSE n + 2,
                               Len(run))
        /\ status' = IF ~ServeAsserts(sl, dv, rq, run, n, Programmed(h, rq, run, n))
                     THEN "aborted"
                     ELSE IF StartFails(h, rq, run, n)
                             \/ (Programmed(h, rq, run, n) # NULL /\ ~accepted)
                     THEN "down" ELSE "up"
  BY Zenon DEF Serve
<1>2. /\ n \in 0..Len(run) /\ Len(run) \in Nat
      /\ \A i \in 1..Len(run) : run[i] \in W /\ run[i] # NULL
  BY LenProperties, ElementOfSeq DEF StartCounts
<1>3. \A i \in 1..n : NeedsNoRcfg(rq, run, ready, i)
  BY DEF StartCounts
<1>4. \A i \in 1..n : i \in 1..Len(run) /\ ~StartFails(h, rq, run, i)
  BY <1>2, <1>3 DEF StartFails
<1>5. ~StartFails(h, rq, run, n)
  <2>1. CASE n = 0
    BY <2>1 DEF StartFails
  <2>2. CASE n # 0
    BY <1>2, <1>4, <2>2
  <2> QED BY <2>1, <2>2
<1>6. n # Len(run) => ~NeedsNoRcfg(rq, run, ready, n + 1)
  BY <1>5 DEF StartCounts
<1>7. Programmed(h, rq, run, n) = IF n = Len(run) THEN NULL ELSE run[n + 1]
  BY <1>5 DEF Programmed
<1> DEFINE prog == IF n = Len(run) THEN NULL ELSE run[n + 1]
<1>8. n # Len(run) => n + 1 \in 1..Len(run) /\ prog = run[n + 1] /\ prog # NULL
  BY <1>2
<1>9. ASSUME NEW i \in 1..n
      PROVE  /\ StartedOn(rq, run, n, rq[run[i]].slot) = {i}
             /\ (CHOOSE j \in StartedOn(rq, run, n, rq[run[i]].slot) : TRUE) = i
  <2>1. StartedOn(rq, run, n, rq[run[i]].slot) = {i}
    BY <1>4 DEF StartedOn
  <2> QED BY <2>1
<1>10. ASSUME NEW i \in 1..n
       PROVE  StartsFor(run[i], rq[run[i]].slot, sl, tm, h)
  <2> DEFINE s == rq[run[i]].slot
  <2>1. s \in Slots
    BY <1>4
  <2>2. StartedOn(rq, run, n, s) = {i} /\ (CHOOSE j \in StartedOn(rq, run, n, s) : TRUE) = i
    BY <1>9
  <2> HIDE DEF s
  <2>3. slot'[s] = [sl[s] EXCEPT !.state = "EXEC", !.exec_req = run[i]]
    BY <1>1, <2>1, <2>2 DEF ServedSlots
  <2>4. timer'[s] = [state |-> "armed", exec_req |-> run[i]]
    BY <1>1, <1>4, <2>1, <2>2 DEF ServedTimers
  <2>5. hw'[s] = [h[s] EXCEPT !.busy = TRUE]
    BY <1>1, <2>1, <2>2 DEF ServedHw
  <2> QED BY <2>3, <2>4, <2>5 DEF StartsFor, s
<1>11. n # Len(run) =>
         ProgramsFor(run[n + 1], rq[run[n + 1]].slot, sl, tm, h, rq, accepted)
  <2> SUFFICES ASSUME n # Len(run)
               PROVE  ProgramsFor(run[n + 1], rq[run[n + 1]].slot, sl, tm, h, rq, accepted)
    OBVIOUS
  <2> DEFINE s == rq[prog].slot
  <2>1. s \in Slots
    BY <1>8
  <2>2. StartedOn(rq, run, n, s) = {}
    BY <1>2, <1>8 DEF StartedOn
  <2>3. Programmed(h, rq, run, n) = prog /\ prog # NULL /\ prog = run[n + 1]
    BY <1>7, <1>8
  <2> HIDE DEF s, prog
  <2>4. slot'[s] = [sl[s] EXCEPT !.state = "RCFG", !.hw_task = rq[prog].hw_task]
    BY <1>1, <2>1, <2>2, <2>3 DEF ServedSlots, s
  <2>5. timer'[s] = tm[s]
    BY <1>1, <2>1, <2>2 DEF ServedTimers
  <2>6. hw'[s] = [h[s] EXCEPT !.coupled = FALSE, !.fabric = IF accepted THEN NULL ELSE @]
    BY <1>1, <2>1, <2>2, <2>3 DEF ServedHw, s
  <2> QED BY <2>3, <2>4, <2>5, <2>6 DEF ProgramsFor, s
<1>12. ASSUME NEW s \in Slots,
              ~ \E i \in 1..n : rq[run[i]].slot = s,
              ~ (n # Len(run) /\ rq[run[n + 1]].slot = s)
       PROVE  LeavesAlone(s, sl, tm, h)
  <2>1. StartedOn(rq, run, n, s) = {}
    BY <1>12 DEF StartedOn
  <2>2. ~ (Programmed(h, rq, run, n) # NULL /\ rq[Programmed(h, rq, run, n)].slot = s)
    BY <1>7, <1>12
  <2>3. slot'[s] = sl[s]
    BY <1>1, <2>1, <2>2 DEF ServedSlots
  <2>4. timer'[s] = tm[s]
    BY <1>1, <2>1 DEF ServedTimers
  <2>5. hw'[s] = h[s]
    BY <1>1, <2>1, <2>2 DEF ServedHw
  <2> QED BY <2>3, <2>4, <2>5 DEF LeavesAlone
<1>13. n = Len(run) => devcfg' = dv /\ fri_queue' = SubSeq(run, n + 1, Len(run))
  BY <1>1, <1>7 DEF StartProg
<1>14. n # Len(run) =>
         /\ devcfg' = [state |-> "PROG", current_rcfg_req |-> run[n + 1],
                       drv |-> IF accepted THEN "loading" ELSE dv.drv,
                       bit_slot |-> rq[run[n + 1]].slot, bit_task |-> rq[run[n + 1]].hw_task]
         /\ fri_queue' = SubSeq(run, n + 2, Len(run))
  BY <1>1, <1>7, <1>8 DEF StartProg
<1>15. \/ ~ServeAsserts(sl, dv, rq, run, n, prog)
       \/ status' = IF n # Len(run) /\ ~accepted THEN "down" ELSE "up"
  <2> HIDE DEF prog
  <2>1. Programmed(h, rq, run, n) = prog
    BY <1>7 DEF prog
  <2>2. prog # NULL <=> n # Len(run)
    BY <1>8 DEF prog
  <2> QED BY <1>1, <1>5, <2>1, <2>2
<1>16. Served(n, accepted, sl, tm, h, dv, rq, run, ready)
  <2> HIDE DEF prog
  <2> QED BY <1>3, <1>6, <1>10, <1>11, <1>12, <1>13, <1>14, <1>15 DEF Served, prog
<1> QED BY <1>2, <1>16

-----------------------------------------------------------------------------
(* Serving keeps every request in its place. *)

Shaped(sl, tm, h, rq) ==
    /\ sl \in [Slots -> SlotRecord]
    /\ tm \in [Slots -> TimerRecord]
    /\ h \in [Slots -> HwRecord]
    /\ rq \in [Requests -> RequestRecord]

\* The request that was just reconfigured, if any, is served first, and its slot is
\* the only one that is READY.
ReadyFirst(sl, rq, run, ready) ==
    /\ \A s \in Slots : sl[s].state = "READY" =>
          run # <<>> /\ run[1] = ready /\ rq[ready].slot = s
    /\ \A i \in 1..Len(run) : run[i] = ready => sl[rq[run[i]].slot].state = "READY"

\* The configuration a handler hands on to be served.
Servable(sl, tm, h, dv, rq, pq, run, W, ready) ==
    /\ W \in SUBSET Requests
    /\ Shaped(sl, tm, h, rq)
    /\ Placed(sl, dv, rq, pq, run, W)
    /\ Agreed(sl, tm, h, dv, rq, W)
    /\ dv.state = "IDLE"
    /\ ReadyFirst(sl, rq, run, ready)

\* The requests of a run, one by one.
LEMMA RunFacts ==
    ASSUME NEW sl, NEW tm, NEW h, NEW dv, NEW rq, NEW pq, NEW run, NEW W, NEW ready,
           Servable(sl, tm, h, dv, rq, pq, run, W, ready)
    PROVE  /\ run \in Seq(W) /\ Len(run) \in Nat
           /\ \A i \in 1..Len(run) :
                /\ run[i] \in W /\ run[i] \in Requests /\ rq[run[i]].slot \in Slots
                /\ sl[rq[run[i]].slot].state \in {"RSRV", "READY"}
           /\ \A i, j \in 1..Len(run) : rq[run[i]].slot = rq[run[j]].slot => i = j
           /\ \A i \in 1..Len(run) : NeedsNoRcfg(rq, run, ready, i) =>
                 /\ HoldsModule(sl[rq[run[i]].slot], h[rq[run[i]].slot])
                 /\ sl[rq[run[i]].slot].hw_task = rq[run[i]].hw_task
<1> USE ConstantsOK DEF Servable
<1>1. run \in Seq(W) /\ Len(run) \in Nat /\ \A i \in 1..Len(run) : run[i] \in W
  BY LenProperties, ElementOfSeq DEF Placed, FriHolds
<1>2. ASSUME NEW i \in 1..Len(run)
      PROVE  /\ run[i] \in Requests /\ rq[run[i]].slot \in Slots
             /\ sl[rq[run[i]].slot].state \in {"RSRV", "READY"}
  <2>1. rq[run[i]].slot # NULL /\ sl[rq[run[i]].slot].state \in {"RSRV", "READY"}
    BY DEF Placed, FriHolds
  <2>2. rq[run[i]] \in RequestRecord /\ run[i] \in Requests
    BY <1>1 DEF Shaped
  <2> QED BY <2>1, <2>2 DEF RequestRecord
<1>3. ASSUME NEW i \in 1..Len(run), NEW j \in 1..Len(run), rq[run[i]].slot = rq[run[j]].slot
      PROVE  i = j
  <2>1. run[i] = run[j]
    BY <1>1, <1>2, <1>3 DEF Placed, SlotsMatched
  <2> QED BY <2>1 DEF Placed, FriHolds, Distinct
<1>4. ASSUME NEW i \in 1..Len(run), NeedsNoRcfg(rq, run, ready, i)
      PROVE  /\ HoldsModule(sl[rq[run[i]].slot], h[rq[run[i]].slot])
             /\ sl[rq[run[i]].slot].hw_task = rq[run[i]].hw_task
  <2> DEFINE s == rq[run[i]].slot
  <2>1. /\ s \in Slots /\ run[i] \in W
        /\ sl[s].state = "READY" \/ (sl[s].state = "RSRV" /\ rq[run[i]].skip_rcfg)
    BY <1>1, <1>2, <1>4 DEF NeedsNoRcfg, ReadyFirst
  <2>2. SlotAgrees(sl[s], tm[s], h[s], dv) /\ TaskAgrees(run[i], sl, h, rq)
    BY <2>1 DEF Agreed
  <2>3. s # NULL
    BY <2>1
  <2> QED BY <2>1, <2>2, <2>3 DEF SlotAgrees, TaskAgrees
<1> QED BY <1>1, <1>2, <1>3, <1>4

\* What serving a configuration does to it.
LEMMA ServeServable ==
    ASSUME NEW sl, NEW tm, NEW h, NEW dv, NEW rq, NEW pq, NEW run, NEW W, NEW ready,
           Servable(sl, tm, h, dv, rq, pq, run, W, ready),
           Serve(sl, tm, h, dv, rq, run, ready)
    PROVE  \E n \in 0..Len(run), accepted \in Outcomes("rcfg_start") :
              /\ Served(n, accepted, sl, tm, h, dv, rq, run, ready)
              /\ status' = IF n # Len(run) /\ ~accepted THEN "down" ELSE "up"
              /\ n # Len(run) => sl[rq[run[n + 1]].slot].state = "RSRV"
<1>1. W \in SUBSET Requests /\ dv.state = "IDLE" /\ ReadyFirst(sl, rq, run, ready)
  BY DEF Servable
<1>2. /\ run \in Seq(W) /\ Len(run) \in Nat
      /\ \A i \in 1..Len(run) :
           /\ run[i] \in W /\ run[i] \in Requests /\ rq[run[i]].slot \in Slots
           /\ sl[rq[run[i]].slot].state \in {"RSRV", "READY"}
      /\ \A i, j \in 1..Len(run) : rq[run[i]].slot = rq[run[j]].slot => i = j
      /\ \A i \in 1..Len(run) : NeedsNoRcfg(rq, run, ready, i) =>
            HoldsModule(sl[rq[run[i]].slot], h[rq[run[i]].slot])
  BY RunFacts
<1>3. PICK n \in 0..Len(run), accepted \in Outcomes("rcfg_start") :
        Served(n, accepted, sl, tm, h, dv, rq, run, ready)
  <2>1. \A i \in 1..Len(run) :
           NeedsNoRcfg(rq, run, ready, i) => ~h[rq[run[i]].slot].busy
    BY <1>2 DEF HoldsModule
  <2> QED BY <1>1, <1>2, <2>1, ServeBySlot
<1>4. n # Len(run) => sl[rq[run[n + 1]].slot].state = "RSRV"
  <2> SUFFICES ASSUME n # Len(run), sl[rq[run[n + 1]].slot].state = "READY" PROVE FALSE
    BY <1>2
  <2>1. n + 1 \in 1..Len(run) /\ 1 \in 1..Len(run)
    BY <1>2
  <2>2. run[1] = ready /\ rq[ready].slot = rq[run[n + 1]].slot
    BY <1>1, <1>2, <2>1 DEF ReadyFirst
  <2>3. n + 1 = 1
    BY <1>2, <2>1, <2>2
  <2>4. NeedsNoRcfg(rq, run, ready, n + 1)
    BY <2>2, <2>3 DEF NeedsNoRcfg
  <2> QED BY <1>3, <2>4 DEF Served
<1>5. ServeAsserts(sl, dv, rq, run, n, IF n = Len(run) THEN NULL ELSE run[n + 1])
  <2>1. \A i \in 1..n : sl[rq[run[i]].slot].state \in {"READY", "RSRV"}
    BY <1>2
  <2> QED BY <1>1, <1>4, <2>1 DEF ServeAsserts
<1> QED BY <1>3, <1>4, <1>5 DEF Served

\* After serving, the started slots execute, the programmed one is in reconfiguration
\* and the queue holds the rest of the run: every request is again in its place.
LEMMA ServedPlaced ==
    ASSUME NEW sl, NEW tm, NEW h, NEW dv, NEW rq, NEW pq, NEW run, NEW W, NEW ready,
           Servable(sl, tm, h, dv, rq, pq, run, W, ready),
           NEW n \in 0..Len(run),
           Served(n, TRUE, sl, tm, h, dv, rq, run, ready)
    PROVE  Placed(slot', devcfg', rq, pq, fri_queue', W)
<1> USE ConstantsOK
<1> DEFINE at(i) == rq[run[i]].slot
           rest == IF n = Len(run) THEN n + 1 ELSE n + 2
<1>1. /\ run \in Seq(W) /\ Len(run) \in Nat
      /\ \A i \in 1..Len(run) : /\ run[i] \in W /\ run[i] \in Requests /\ at(i) \in Slots
                                /\ sl[at(i)].state \in {"RSRV", "READY"}
      /\ \A i, j \in 1..Len(run) : at(i) = at(j) => i = j
  BY RunFacts
<1>2. /\ sl \in [Slots -> SlotRecord] /\ rq \in [Requests -> RequestRecord]
      /\ Placed(sl, dv, rq, pq, run, W) /\ dv.state = "IDLE" /\ W \in SUBSET Requests
  BY DEF Servable, Shaped
<1>3. \A i \in 1..n : i \in 1..Len(run) /\ slot'[at(i)].state = "EXEC"
                      /\ slot'[at(i)].exec_req = run[i]
  <2> TAKE i \in 1..n
  <2>1. i \in 1..Len(run) /\ sl[at(i)] \in SlotRecord
    <3>1. i \in 1..Len(run)
      BY <1>1
    <3>2. at(i) \in Slots
      BY <1>1, <3>1
    <3> HIDE DEF at
    <3> QED BY <1>2, <3>1, <3>2
  <2>2. slot'[at(i)] = [sl[at(i)] EXCEPT !.state = "EXEC", !.exec_req = run[i]]
    BY DEF Served, StartsFor
  <2> HIDE DEF at
  <2> QED BY <2>1, <2>2 DEF SlotRecord
<1>4. n # Len(run) =>
         /\ n + 1 \in 1..Len(run) /\ slot'[at(n + 1)].state = "RCFG"
         /\ devcfg'.state = "PROG" /\ devcfg'.current_rcfg_req = run[n + 1]
         /\ devcfg'.drv = "loading" /\ devcfg'.bit_slot = at(n + 1)
         /\ devcfg'.bit_task = rq[run[n + 1]].hw_task
  <2> SUFFICES ASSUME n # Len(run)
               PROVE  /\ n + 1 \in 1..Len(run) /\ slot'[at(n + 1)].state = "RCFG"
                      /\ devcfg'.state = "PROG" /\ devcfg'.current_rcfg_req = run[n + 1]
                      /\ devcfg'.drv = "loading" /\ devcfg'.bit_slot = at(n + 1)
                      /\ devcfg'.bit_task = rq[run[n + 1]].hw_task
    OBVIOUS
  <2>1. n + 1 \in 1..Len(run) /\ sl[at(n + 1)] \in SlotRecord
    <3>1. n + 1 \in 1..Len(run)
      BY <1>1
    <3>2. at(n + 1) \in Slots
      BY <1>1, <3>1
    <3> HIDE DEF at
    <3> QED BY <1>2, <3>1, <3>2
  <2>2. slot'[at(n + 1)] = [sl[at(n + 1)] EXCEPT !.state = "RCFG",
                                                 !.hw_task = rq[run[n + 1]].hw_task]
    BY DEF Served, ProgramsFor
  <2>3. devcfg' = [state |-> "PROG", current_rcfg_req |-> run[n + 1], drv |-> "loading",
                   bit_slot |-> at(n + 1), bit_task |-> rq[run[n + 1]].hw_task]
    BY DEF Served
  <2> HIDE DEF at
  <2> QED BY <2>1, <2>2, <2>3 DEF SlotRecord
<1>5. n = Len(run) => devcfg' = dv
  BY DEF Served
<1>6. ASSUME NEW s \in Slots
      PROVE  \/ \E i \in 1..n : at(i) = s
             \/ n # Len(run) /\ at(n + 1) = s
             \/ slot'[s] = sl[s]
  BY DEF Served, LeavesAlone
<1>7. \A i \in 1..Len(run) : i >= rest => slot'[at(i)] = sl[at(i)]
  <2> SUFFICES ASSUME NEW i \in 1..Len(run), i >= rest PROVE slot'[at(i)] = sl[at(i)]
    OBVIOUS
  <2>1. at(i) \in Slots
    BY <1>1
  <2>2. ~ \E j \in 1..n : at(j) = at(i)
    BY <1>1
  <2>3. ~ (n # Len(run) /\ at(n + 1) = at(i))
    BY <1>1
  <2> QED BY <1>6, <2>1, <2>2, <2>3
<1>8. rest \in 1..(Len(run) + 1) /\ fri_queue' = SubSeq(run, rest, Len(run))
  BY <1>1 DEF Served
<1>9. /\ fri_queue' \in Seq(W) /\ Len(fri_queue') = Len(run) - rest + 1
      /\ \A i \in 1..Len(fri_queue') :
           fri_queue'[i] = run[rest + i - 1] /\ rest + i - 1 \in rest..Len(run)
      /\ \A i \in rest..Len(run) : Member(run[i], fri_queue')
  <2> HIDE DEF rest
  <2>1. /\ fri_queue' \in Seq(W) /\ Len(fri_queue') = Len(run) - rest + 1
        /\ \A i \in 1..(Len(run) - rest + 1) :
             fri_queue'[i] = run[rest + i - 1] /\ rest + i - 1 \in rest..Len(run)
        /\ \A i \in rest..Len(run) : Member(run[i], fri_queue')
    BY <1>1, <1>8, SuffixAt
  <2> QED BY <2>1
<1> HIDE DEF at
<1>10. ASSUME NEW r \in W
       PROVE  InItsPlace(r, slot', devcfg', rq, pq, fri_queue')
  <2> DEFINE s == rq[r].slot
  <2>1. InItsPlace(r, sl, dv, rq, pq, run)
    BY <1>2 DEF Placed
  <2>2. CASE s = NULL
    BY <2>1, <2>2 DEF InItsPlace
  <2>3. CASE s # NULL
    <3>1. s \in Slots /\ rq[r] \in RequestRecord
      BY <1>2, <2>3 DEF RequestRecord
    <3>2. \A i \in 1..Len(run) : at(i) = s => run[i] = r
      BY <1>1, <1>2, <2>3 DEF Placed, SlotsMatched, at
    <3>3. CASE \E i \in 1..n : at(i) = s
      <4>1. slot'[s].state = "EXEC" /\ slot'[s].exec_req = r
        BY <1>3, <3>2, <3>3
      <4> QED BY <2>1, <2>3, <4>1 DEF InItsPlace, Taken
    <3>4. CASE n # Len(run) /\ at(n + 1) = s
      <4>1. slot'[s].state = "RCFG" /\ devcfg'.state = "PROG" /\ devcfg'.current_rcfg_req = r
        BY <1>4, <3>2, <3>4
      <4> QED BY <2>1, <2>3, <4>1 DEF InItsPlace, Taken
    <3>5. CASE /\ slot'[s] = sl[s] /\ ~ (n # Len(run) /\ at(n + 1) = s)
               /\ ~ \E i \in 1..n : at(i) = s
      <4>1. sl[s].state # "RCFG"
        BY <1>2, <2>1, <2>3 DEF InItsPlace
      <4>2. sl[s].state \in {"RSRV", "READY"} => Member(r, fri_queue')
        <5> SUFFICES ASSUME sl[s].state \in {"RSRV", "READY"} PROVE Member(r, fri_queue')
          OBVIOUS
        <5>1. PICK i \in 1..Len(run) : run[i] = r
          BY <2>1, <2>3 DEF InItsPlace, Member
        <5>2. at(i) = s
          BY <5>1 DEF at
        <5>3. i \in rest..Len(run)
          BY <1>1, <3>5, <5>1, <5>2
        <5> HIDE DEF rest
        <5> QED BY <1>9, <5>1, <5>3
      <4> QED BY <2>1, <2>3, <3>5, <4>1, <4>2 DEF InItsPlace
    <3> QED BY <1>6, <3>1, <3>3, <3>4, <3>5
  <2> QED BY <2>2, <2>3
<1>11. SlotsMatched(slot', rq, W)
  <2>1. SlotsMatched(sl, rq, W)
    BY <1>2 DEF Placed
  <2>2. ASSUME NEW s \in Slots, slot'[s].state \in Taken
        PROVE  \E r \in W : rq[r].slot = s
    <3>1. CASE \E i \in 1..n : at(i) = s
      BY <1>1, <1>3, <3>1 DEF at
    <3>2. CASE n # Len(run) /\ at(n + 1) = s
      BY <1>1, <1>4, <3>2 DEF at
    <3>3. CASE slot'[s] = sl[s]
      BY <2>1, <2>2, <3>3 DEF SlotsMatched
    <3> QED BY <1>6, <3>1, <3>2, <3>3
  <2> QED BY <2>1, <2>2 DEF SlotsMatched
<1>12. FriHolds(slot', rq, fri_queue', W)
  <2> HIDE DEF rest
  <2>1. ASSUME NEW i \in 1..Len(fri_queue'), NEW j \in 1..Len(fri_queue'),
               fri_queue'[i] = fri_queue'[j]
        PROVE  i = j
    <3>1. /\ rest + i - 1 \in rest..Len(run) /\ rest + j - 1 \in rest..Len(run)
          /\ run[rest + i - 1] = run[rest + j - 1]
      BY <1>9, <2>1
    <3> DEFINE a == rest + i - 1
               b == rest + j - 1
    <3>2. a \in 1..Len(run) /\ b \in 1..Len(run) /\ at(a) = at(b)
      BY <1>1, <1>8, <3>1 DEF at
    <3> HIDE DEF a, b
    <3>3. a = b
      BY <1>1, <3>2
    <3> QED BY <1>8, <3>3 DEF a, b
  <2>2. ASSUME NEW i \in 1..Len(fri_queue')
        PROVE  /\ rq[fri_queue'[i]].slot # NULL
               /\ slot'[rq[fri_queue'[i]].slot].state \in {"RSRV", "READY"}
    <3>1. rest + i - 1 \in 1..Len(run) /\ rest + i - 1 >= rest
          /\ fri_queue'[i] = run[rest + i - 1]
      BY <1>1, <1>8, <1>9
    <3>2. rq[fri_queue'[i]].slot = at(rest + i - 1)
      BY <3>1 DEF at
    <3> QED BY <1>1, <1>7, <3>1, <3>2
  <2> QED BY <1>9, <2>1, <2>2 DEF FriHolds, Distinct
<1>13. PartitionsHold(rq, pq, W)
  BY <1>2 DEF Placed
<1>14. DeviceHolds(slot', devcfg', rq, W)
  <2>1. CASE n = Len(run)
    BY <1>2, <1>5, <2>1 DEF DeviceHolds, Placed
  <2>2. CASE n # Len(run)
    <3>1. run[n + 1] \in W /\ at(n + 1) # NULL
      BY <1>1, <1>4, <2>2
    <3> QED BY <1>4, <2>2, <3>1 DEF DeviceHolds, at
  <2> QED BY <2>1, <2>2
<1> QED BY <1>10, <1>11, <1>12, <1>13, <1>14 DEF Placed

\* After serving, the started accelerators run the module their request asked for under
\* a watchdog of their own, and the slot being programmed is decoupled.
LEMMA ServedAgreed ==
    ASSUME NEW sl, NEW tm, NEW h, NEW dv, NEW rq, NEW pq, NEW run, NEW W, NEW ready,
           Servable(sl, tm, h, dv, rq, pq, run, W, ready),
           NEW n \in 0..Len(run),
           Served(n, TRUE, sl, tm, h, dv, rq, run, ready),
           n # Len(run) => sl[rq[run[n + 1]].slot].state = "RSRV"
    PROVE  Agreed(slot', timer', hw', devcfg', rq, W)
<1> USE ConstantsOK
<1> DEFINE at(i) == rq[run[i]].slot
<1>1. /\ Len(run) \in Nat
      /\ \A i \in 1..Len(run) : /\ run[i] \in W /\ at(i) \in Slots
                                /\ sl[at(i)].state \in {"RSRV", "READY"}
      /\ \A i \in 1..Len(run) : NeedsNoRcfg(rq, run, ready, i) =>
            HoldsModule(sl[at(i)], h[at(i)]) /\ sl[at(i)].hw_task = rq[run[i]].hw_task
  BY RunFacts
<1>2. /\ sl \in [Slots -> SlotRecord] /\ tm \in [Slots -> TimerRecord]
      /\ h \in [Slots -> HwRecord] /\ rq \in [Requests -> RequestRecord]
      /\ Placed(sl, dv, rq, pq, run, W) /\ Agreed(sl, tm, h, dv, rq, W)
      /\ dv.state = "IDLE" /\ W \in SUBSET Requests
  BY DEF Servable, Shaped
<1>3. ASSUME NEW i \in 1..n
      PROVE  /\ slot'[at(i)].state = "EXEC" /\ slot'[at(i)].hw_task = rq[run[i]].hw_task
             /\ SlotAgrees(slot'[at(i)], timer'[at(i)], hw'[at(i)], devcfg')
  <2> DEFINE s == at(i)
  <2>1. /\ i \in 1..Len(run) /\ NeedsNoRcfg(rq, run, ready, i)
        /\ StartsFor(run[i], s, sl, tm, h)
    BY <1>1 DEF Served
  <2>2. /\ s \in Slots /\ sl[s].state \in {"RSRV", "READY"}
        /\ HoldsModule(sl[s], h[s]) /\ sl[s].hw_task = rq[run[i]].hw_task
    BY <1>1, <2>1
  <2> HIDE DEF s, at
  <2>3. sl[s] \in SlotRecord /\ h[s] \in HwRecord /\ SlotAgrees(sl[s], tm[s], h[s], dv)
    BY <1>2, <2>2 DEF Agreed
  <2>4. slot'[s].state = "EXEC" /\ slot'[s].exec_req = run[i] /\ slot'[s].hw_task = sl[s].hw_task
    BY <2>1, <2>3 DEF StartsFor, SlotRecord
  <2>5. timer'[s].state = "armed" /\ timer'[s].exec_req = run[i]
    BY <2>1 DEF StartsFor
  <2>6. /\ hw'[s].busy /\ hw'[s].irq = h[s].irq /\ hw'[s].coupled = h[s].coupled
        /\ hw'[s].fabric = h[s].fabric
    BY <2>1, <2>3 DEF StartsFor, HwRecord
  <2>7. ~h[s].irq
    BY <2>2, <2>3 DEF SlotAgrees
  <2>8. SlotAgrees(slot'[s], timer'[s], hw'[s], devcfg')
    BY <2>2, <2>4, <2>5, <2>6, <2>7 DEF SlotAgrees, HoldsModule
  <2> QED BY <2>2, <2>4, <2>8 DEF s
<1>4. ASSUME n # Len(run)
      PROVE  /\ slot'[at(n + 1)].state = "RCFG"
             /\ slot'[at(n + 1)].hw_task = rq[run[n + 1]].hw_task
             /\ SlotAgrees(slot'[at(n + 1)], timer'[at(n + 1)], hw'[at(n + 1)], devcfg')
  <2> DEFINE s == at(n + 1)
  <2>1. /\ n + 1 \in 1..Len(run) /\ ProgramsFor(run[n + 1], s, sl, tm, h, rq, TRUE)
        /\ devcfg'.drv = "loading"
    <3>1. n + 1 \in 1..Len(run)
      BY <1>1, <1>4
    <3>2. ProgramsFor(run[n + 1], s, sl, tm, h, rq, TRUE)
      BY <1>4 DEF Served
    <3>3. devcfg' = [state |-> "PROG", current_rcfg_req |-> run[n + 1], drv |-> "loading",
                     bit_slot |-> s, bit_task |-> rq[run[n + 1]].hw_task]
      BY <1>4 DEF Served
    <3> QED BY <3>1, <3>2, <3>3
  <2>2. s \in Slots /\ sl[s].state = "RSRV"
    BY <1>1, <1>4, <2>1
  <2> HIDE DEF s, at
  <2>3. sl[s] \in SlotRecord /\ h[s] \in HwRecord /\ SlotAgrees(sl[s], tm[s], h[s], dv)
    BY <1>2, <2>2 DEF Agreed
  <2>4. slot'[s].state = "RCFG" /\ slot'[s].hw_task = rq[run[n + 1]].hw_task
    BY <2>1, <2>3 DEF ProgramsFor, SlotRecord
  <2>5. timer'[s] = tm[s]
    BY <2>1 DEF ProgramsFor
  <2>6. hw'[s].irq = h[s].irq /\ ~hw'[s].coupled
    BY <2>1, <2>3 DEF ProgramsFor, HwRecord
  <2>7. SlotAgrees(slot'[s], timer'[s], hw'[s], devcfg')
    BY <2>1, <2>2, <2>3, <2>4, <2>5, <2>6 DEF SlotAgrees
  <2> QED BY <2>4, <2>7 DEF s
<1>5. ASSUME NEW s \in Slots, LeavesAlone(s, sl, tm, h)
      PROVE  SlotAgrees(slot'[s], timer'[s], hw'[s], devcfg')
  <2>1. sl[s].state # "RCFG"
    <3> SUFFICES ASSUME sl[s].state = "RCFG" PROVE FALSE
      OBVIOUS
    <3>1. PICK r \in W : rq[r].slot = s
      BY <1>2 DEF Placed, SlotsMatched, Taken
    <3>2. InItsPlace(r, sl, dv, rq, pq, run) /\ s # NULL
      BY <1>2 DEF Placed
    <3> QED BY <1>2, <3>1, <3>2 DEF InItsPlace
  <2>2. SlotAgrees(sl[s], tm[s], h[s], dv)
    BY <1>2 DEF Agreed
  <2> QED BY <1>5, <2>1, <2>2 DEF SlotAgrees, LeavesAlone
<1>6. ASSUME NEW s \in Slots
      PROVE  \/ \E i \in 1..n : at(i) = s
             \/ n # Len(run) /\ at(n + 1) = s
             \/ LeavesAlone(s, sl, tm, h)
  BY DEF Served
<1> HIDE DEF at
<1>7. ASSUME NEW s \in Slots PROVE SlotAgrees(slot'[s], timer'[s], hw'[s], devcfg')
  BY <1>3, <1>4, <1>5, <1>6
<1>8. ASSUME NEW r \in W PROVE TaskAgrees(r, slot', hw', rq)
  <2> DEFINE s == rq[r].slot
  <2>1. TaskAgrees(r, sl, h, rq)
    BY <1>2 DEF Agreed
  <2>2. SUFFICES ASSUME s # NULL PROVE TaskAgrees(r, slot', hw', rq)
    BY DEF TaskAgrees
  <2>3. s \in Slots /\ rq[r] \in RequestRecord
    BY <1>2, <2>2 DEF RequestRecord
  <2>4. \A i \in 1..Len(run) : at(i) = s => run[i] = r
    BY <1>1, <1>2, <2>2 DEF Placed, SlotsMatched, at
  <2>5. CASE \E i \in 1..n : at(i) = s
    <3>1. PICK i \in 1..n : at(i) = s
      BY <2>5
    <3>2. i \in 1..Len(run)
      BY <1>1
    <3>3. slot'[s].state = "EXEC" /\ slot'[s].hw_task = rq[r].hw_task
      BY <1>3, <2>4, <3>1, <3>2
    <3> QED BY <3>3 DEF TaskAgrees
  <2>6. CASE n # Len(run) /\ at(n + 1) = s
    <3>1. n + 1 \in 1..Len(run)
      BY <1>1, <2>6
    <3>2. slot'[s].state = "RCFG" /\ slot'[s].hw_task = rq[r].hw_task
      BY <1>4, <2>4, <2>6, <3>1
    <3> QED BY <3>2 DEF TaskAgrees
  <2>7. CASE LeavesAlone(s, sl, tm, h)
    BY <2>1, <2>7 DEF TaskAgrees, LeavesAlone
  <2> QED BY <1>6, <2>3, <2>5, <2>6, <2>7
<1> QED BY <1>7, <1>8 DEF Agreed

\* Serving: no assert fails, no accelerator refuses to start, and if the device takes
\* the bitstream everything is in its place again.
LEMMA ServeKeepsOwned ==
    ASSUME NEW sl, NEW tm, NEW h, NEW dv, NEW rq, NEW pq, NEW run, NEW W, NEW ready,
           Servable(sl, tm, h, dv, rq, pq, run, W, ready),
           Serve(sl, tm, h, dv, rq, run, ready)
    PROVE  /\ status' \in {"up", "down"}
           /\ Faults = {} => status' = "up"
           /\ status' = "up" =>
                /\ Placed(slot', devcfg', rq, pq, fri_queue', W)
                /\ Agreed(slot', timer', hw', devcfg', rq, W)
<1>1. PICK n \in 0..Len(run), accepted \in Outcomes("rcfg_start") :
        /\ Served(n, accepted, sl, tm, h, dv, rq, run, ready)
        /\ status' = IF n # Len(run) /\ ~accepted THEN "down" ELSE "up"
        /\ n # Len(run) => sl[rq[run[n + 1]].slot].state = "RSRV"
  BY ServeServable
<1>2. Faults = {} => accepted
  BY <1>1 DEF Outcomes
<1>3. accepted \in BOOLEAN
  BY DEF Outcomes
<1>4. CASE accepted
  <2>1. Served(n, TRUE, sl, tm, h, dv, rq, run, ready)
    <3>1. accepted = TRUE
      BY <1>3, <1>4
    <3> QED BY <1>1, <3>1
  <2> QED BY <1>1, <1>4, <2>1, ServedPlaced, ServedAgreed
<1>5. CASE ~accepted /\ n # Len(run)
  BY <1>1, <1>2, <1>5
<1>6. CASE ~accepted /\ n = Len(run)
  <2>1. Served(n, TRUE, sl, tm, h, dv, rq, run, ready)
    BY <1>1, <1>6 DEF Served
  <2> QED BY <1>1, <1>6, <2>1, ServedPlaced, ServedAgreed
<1> QED BY <1>4, <1>5, <1>6

-----------------------------------------------------------------------------
(* Giving a slot to a request, and taking it back. *)

\* A sequence is one over any set that has all its elements.
LEMMA SeqOver ==
    ASSUME NEW B, NEW q \in Seq(B), NEW C, \A i \in 1..Len(q) : q[i] \in C
    PROVE  q \in Seq(C)
<1>1. Len(q) \in Nat
  BY LenProperties
<1> DEFINE a == SubSeq(q, 1, Len(q))
<1>2. a \in Seq(C) /\ Len(a) = Len(q) /\ \A i \in 1..Len(q) : a[i] = q[i]
  <2>1. /\ a \in Seq(C) /\ Len(a) = IF 1 <= Len(q) THEN Len(q) - 1 + 1 ELSE 0
        /\ \A i \in 1..(Len(q) - 1 + 1) : a[i] = q[1 + i - 1]
    BY <1>1, SubSeqProperties
  <2> HIDE DEF a
  <2> QED BY <1>1, <2>1
<1> HIDE DEF a
<1> DEFINE D == B \cup C
<1>3. a \in Seq(D) /\ q \in Seq(D)
  <2>1. B \subseteq D /\ C \subseteq D
    OBVIOUS
  <2> HIDE DEF D
  <2> QED BY <1>2, <2>1, SeqMonotonic
<1>4. a = q
  <2> HIDE DEF D
  <2> QED BY <1>2, <1>3, SeqEqual
<1> QED BY <1>2, <1>4

\* A handler that moves one slot to another state.
LEMMA WithStateAt ==
    ASSUME NEW sl \in [Slots -> SlotRecord], NEW s \in Slots, NEW st \in SlotStates
    PROVE  /\ WithState(sl, s, st) \in [Slots -> SlotRecord]
           /\ WithState(sl, s, st)[s].state = st
           /\ WithState(sl, s, st)[s].hw_task = sl[s].hw_task
           /\ WithState(sl, s, st)[s].exec_req = sl[s].exec_req
           /\ \A u \in Slots : u # s => WithState(sl, s, st)[u] = sl[u]
<1> DEFINE sr == WithState(sl, s, st)
<1>1. sl[s] \in SlotRecord
  OBVIOUS
<1>2. sr[s] = [sl[s] EXCEPT !.state = st] /\ \A u \in Slots : u # s => sr[u] = sl[u]
  BY DEF WithState
<1>3. sr[s] \in SlotRecord /\ sr[s].state = st
      /\ sr[s].hw_task = sl[s].hw_task /\ sr[s].exec_req = sl[s].exec_req
  <2> HIDE DEF sr
  <2> QED BY <1>1, <1>2 DEF SlotRecord
<1>4. sr \in [Slots -> SlotRecord]
  BY <1>2, <1>3 DEF WithState
<1> QED BY <1>2, <1>3, <1>4

\* Request r, which had no place among those of V, is given the free slot s of its
\* partition, and may skip reconfiguration only if s holds its hw-task.
Grants(r, s, sl, rq, nrq, V) ==
    /\ r \in Requests \ V
    /\ s \in Slots /\ sl[s].state \in {"IDLE", "BLANK"}
    /\ \A u \in V : nrq[u] = rq[u]
    /\ nrq[r].slot = s /\ nrq[r].hw_task # NULL
    /\ TaskPartition[nrq[r].hw_task] = SlotPartition[s]
    /\ nrq[r].skip_rcfg => sl[s].state = "IDLE" /\ sl[s].hw_task = nrq[r].hw_task

\* The request joins the FRI queue with its slot.
LEMMA GivenPlaced ==
    ASSUME NEW sl \in [Slots -> SlotRecord], NEW dv, NEW rq, NEW pq, NEW q,
           NEW V \in SUBSET Requests, Placed(sl, dv, rq, pq, q, V),
           NEW r, NEW s, NEW nrq, Grants(r, s, sl, rq, nrq, V),
           NEW k \in 0..Len(q)
    PROVE  Placed(SetReserved(sl, s), dv, nrq, pq, InsertedAfter(q, k, r), V \cup {r})
<1> USE ConstantsOK DEF Grants
<1> DEFINE sr == SetReserved(sl, s)
           a == InsertedAfter(q, k, r)
           W == V \cup {r}
<1>1. sr[s].state = "RSRV" /\ \A u \in Slots : u # s => sr[u] = sl[u]
  <2>1. sr = WithState(sl, s, "RSRV") /\ "RSRV" \in SlotStates
    BY DEF SetReserved, WithState, SlotStates
  <2> QED BY <2>1, WithStateAt
<1>2. /\ \A u \in V : InItsPlace(u, sl, dv, rq, pq, q)
      /\ SlotsMatched(sl, rq, V) /\ FriHolds(sl, rq, q, V)
      /\ PartitionsHold(rq, pq, V) /\ DeviceHolds(sl, dv, rq, V)
  BY DEF Placed
<1>3. /\ a \in Seq(W) /\ Distinct(a) /\ Member(r, a)
      /\ \A u : Member(u, q) => Member(u, a)
  BY <1>2, InsertedMembers DEF FriHolds
<1>4. Inserts(a, q, k, r)
  BY <1>2, InsertedAt DEF FriHolds
<1> HIDE DEF sr, a
<1>5. \A u \in V : rq[u].slot # s /\ (rq[u].slot # NULL => sl[rq[u].slot].state \in Taken)
  <2> TAKE u \in V
  <2>1. InItsPlace(u, sl, dv, rq, pq, q)
    BY <1>2
  <2> QED BY <2>1 DEF InItsPlace, Taken
<1>6. ASSUME NEW u \in V, rq[u].slot # NULL, rq[u].slot \in Slots
      PROVE  sr[rq[u].slot] = sl[rq[u].slot]
  BY <1>1, <1>5, <1>6
<1>7. ASSUME NEW u \in W PROVE InItsPlace(u, sr, dv, nrq, pq, a)
  <2>1. CASE u = r
    BY <1>1, <1>3, <2>1 DEF InItsPlace, Taken
  <2>2. CASE u \in V
    <3>1. InItsPlace(u, sl, dv, rq, pq, q) /\ nrq[u] = rq[u] /\ rq[u].slot # s
      BY <1>2, <1>5, <2>2
    <3>2. rq[u].slot # NULL => sr[rq[u].slot] = sl[rq[u].slot]
      BY <1>1, <3>1 DEF sr, SetReserved
    <3> QED BY <1>3, <3>1, <3>2 DEF InItsPlace
  <2> QED BY <2>1, <2>2
<1>8. SlotsMatched(sr, nrq, W)
  <2>1. ASSUME NEW u \in W, NEW v \in W, nrq[u].slot # NULL, nrq[u].slot = nrq[v].slot
        PROVE  u = v
    BY <1>2, <1>5, <2>1 DEF SlotsMatched
  <2>2. ASSUME NEW z \in Slots, sr[z].state \in Taken PROVE \E u \in W : nrq[u].slot = z
    <3>1. CASE z = s
      BY <3>1
    <3>2. CASE z # s
      BY <1>1, <1>2, <2>2, <3>2 DEF SlotsMatched
    <3> QED BY <3>1, <3>2
  <2> QED BY <2>1, <2>2 DEF SlotsMatched
<1>9. FriHolds(sr, nrq, a, W)
  <2>1. ASSUME NEW i \in 1..Len(a)
        PROVE  nrq[a[i]].slot # NULL /\ sr[nrq[a[i]].slot].state \in {"RSRV", "READY"}
    <3>1. a[i] \in W
      BY <1>3, ElementOfSeq
    <3>2. CASE a[i] = r
      BY <1>1, <3>2
    <3>3. CASE a[i] # r
      <4>1. PICK j \in 1..Len(q) : q[j] = a[i]
        <5>1. Len(q) \in Nat
          BY <1>2, LenProperties DEF FriHolds
        <5>2. i \in 1..(Len(q) + 1) /\ i # k + 1
          BY <1>4, <3>3 DEF Inserts
        <5>3. CASE i \in 1..k
          BY <1>4, <5>1, <5>3 DEF Inserts
        <5>4. CASE i \in (k + 2)..(Len(q) + 1)
          <6>1. i - 1 \in 1..Len(q) /\ a[i] = q[i - 1]
            BY <1>4, <5>1, <5>4 DEF Inserts
          <6> QED BY <6>1
        <5> QED BY <5>1, <5>2, <5>3, <5>4
      <4>2. rq[a[i]].slot # NULL /\ sl[rq[a[i]].slot].state \in {"RSRV", "READY"}
        BY <1>2, <4>1 DEF FriHolds
      <4>3. a[i] \in V /\ nrq[a[i]] = rq[a[i]] /\ rq[a[i]].slot # s
        BY <1>5, <3>1, <3>3
      <4>4. sr[rq[a[i]].slot] = sl[rq[a[i]].slot]
        BY <4>3 DEF sr, SetReserved
      <4> QED BY <4>2, <4>3, <4>4
    <3> QED BY <3>2, <3>3
  <2> QED BY <1>3, <2>1 DEF FriHolds
<1>10. PartitionsHold(nrq, pq, W)
  <2>1. ASSUME NEW p \in Partitions
        PROVE  /\ pq[p] \in Seq(W) /\ Distinct(pq[p])
               /\ \A i \in 1..Len(pq[p]) :
                    nrq[pq[p][i]].slot = NULL /\ TaskPartition[nrq[pq[p][i]].hw_task] = p
    <3>1. pq[p] \in Seq(V) /\ Distinct(pq[p])
      BY <1>2 DEF PartitionsHold
    <3>2. pq[p] \in Seq(W)
      BY <3>1, SeqMonotonic
    <3>3. ASSUME NEW i \in 1..Len(pq[p])
          PROVE  nrq[pq[p][i]].slot = NULL /\ TaskPartition[nrq[pq[p][i]].hw_task] = p
      <4>1. pq[p][i] \in V
        BY <3>1, ElementOfSeq
      <4> QED BY <1>2, <4>1 DEF PartitionsHold
    <3> QED BY <3>1, <3>2, <3>3
  <2> QED BY <2>1 DEF PartitionsHold
<1>11. DeviceHolds(sr, dv, nrq, W)
  <2> DEFINE c == dv.current_rcfg_req
  <2>1. CASE dv.state = "PROG"
    <3>1. c \in V /\ rq[c].slot # NULL /\ sl[rq[c].slot].state = "RCFG" /\ rq[c].slot # s
      BY <1>2, <1>5, <2>1 DEF DeviceHolds
    <3>2. sr[rq[c].slot] = sl[rq[c].slot] /\ nrq[c] = rq[c]
      BY <3>1 DEF sr, SetReserved
    <3> QED BY <1>2, <2>1, <3>1, <3>2 DEF DeviceHolds
  <2>2. CASE dv.state # "PROG"
    BY <1>2, <2>2 DEF DeviceHolds
  <2> QED BY <2>1, <2>2
<1> QED BY <1>7, <1>8, <1>9, <1>10, <1>11 DEF Placed, sr, a

\* The slot a request takes holds the hw-task it asks for, if it may skip
\* reconfiguration.
LEMMA GivenAgreed ==
    ASSUME NEW sl \in [Slots -> SlotRecord], NEW tm, NEW h, NEW dv, NEW rq, NEW pq, NEW q,
           NEW V \in SUBSET Requests, Placed(sl, dv, rq, pq, q, V),
           Agreed(sl, tm, h, dv, rq, V),
           NEW r, NEW s, NEW nrq, Grants(r, s, sl, rq, nrq, V)
    PROVE  Agreed(SetReserved(sl, s), tm, h, dv, nrq, V \cup {r})
<1> USE ConstantsOK DEF Grants
<1> DEFINE sr == SetReserved(sl, s)
<1>1. /\ sr[s].state = "RSRV" /\ sr[s].hw_task = sl[s].hw_task
      /\ \A u \in Slots : u # s => sr[u] = sl[u]
  <2>1. sr = WithState(sl, s, "RSRV") /\ "RSRV" \in SlotStates
    BY DEF SetReserved, WithState, SlotStates
  <2> QED BY <2>1, WithStateAt
<1>2. \A u \in Slots : SlotAgrees(sl[u], tm[u], h[u], dv)
  BY DEF Agreed
<1> HIDE DEF sr
<1>3. ASSUME NEW u \in Slots PROVE SlotAgrees(sr[u], tm[u], h[u], dv)
  <2>1. CASE u = s
    <3>1. SlotAgrees(sl[s], tm[s], h[s], dv)
      BY <1>2
    <3> QED BY <1>1, <2>1, <3>1 DEF SlotAgrees
  <2>2. CASE u # s
    BY <1>1, <1>2, <2>2
  <2> QED BY <2>1, <2>2
<1>4. ASSUME NEW u \in V \cup {r} PROVE TaskAgrees(u, sr, h, nrq)
  <2>1. CASE u = r
    <3>1. SlotAgrees(sl[s], tm[s], h[s], dv)
      BY <1>2
    <3>2. nrq[r].skip_rcfg => sr[s].hw_task = nrq[r].hw_task /\ HoldsModule(sr[s], h[s])
      BY <1>1, <3>1 DEF SlotAgrees, HoldsModule
    <3> QED BY <1>1, <2>1, <3>2 DEF TaskAgrees
  <2>2. CASE u \in V
    <3>1. TaskAgrees(u, sl, h, rq) /\ nrq[u] = rq[u]
      BY <2>2 DEF Agreed
    <3>2. InItsPlace(u, sl, dv, rq, pq, q)
      BY <2>2 DEF Placed
    <3>3. rq[u].slot # NULL => rq[u].slot # s
      BY <3>2 DEF InItsPlace, Taken
    <3>4. rq[u].slot # NULL => sr[rq[u].slot] = sl[rq[u].slot]
      BY <3>3 DEF sr, SetReserved
    <3> QED BY <3>1, <3>4 DEF TaskAgrees
  <2> QED BY <2>1, <2>2
<1> QED BY <1>3, <1>4 DEF Agreed, sr

\* Request r has its answer: its slot s is free, and the others stay where they are.
LEMMA ReleasedPlaced ==
    ASSUME NEW sl \in [Slots -> SlotRecord], NEW dv, NEW rq, NEW pq, NEW q,
           NEW W, Placed(sl, dv, rq, pq, q, W),
           NEW r \in W, NEW s \in Slots, rq[r].slot = s, sl[s].state = "EXEC",
           NEW st \in {"IDLE", "BLANK"}
    PROVE  Placed(WithState(sl, s, st), dv, rq, pq, q, W \ {r})
<1> USE ConstantsOK
<1> DEFINE sr == WithState(sl, s, st)
           V == W \ {r}
<1>1. sr[s].state = st /\ \A u \in Slots : u # s => sr[u] = sl[u]
  <2>1. st \in SlotStates
    BY DEF SlotStates
  <2> QED BY <2>1, WithStateAt
<1>2. /\ \A u \in W : InItsPlace(u, sl, dv, rq, pq, q)
      /\ SlotsMatched(sl, rq, W) /\ FriHolds(sl, rq, q, W)
      /\ PartitionsHold(rq, pq, W) /\ DeviceHolds(sl, dv, rq, W)
  BY DEF Placed
<1> HIDE DEF sr
<1>3. \A u \in V : rq[u].slot # s
  BY <1>2 DEF SlotsMatched
<1>4. \A z : z # s => sr[z] = sl[z]
  BY DEF sr, WithState
<1>5. ASSUME NEW u \in V PROVE InItsPlace(u, sr, dv, rq, pq, q)
  <2>1. InItsPlace(u, sl, dv, rq, pq, q) /\ sr[rq[u].slot] = sl[rq[u].slot]
    BY <1>2, <1>3, <1>4
  <2> QED BY <2>1 DEF InItsPlace
<1>6. SlotsMatched(sr, rq, V)
  <2>1. ASSUME NEW z \in Slots, sr[z].state \in Taken PROVE \E u \in V : rq[u].slot = z
    <3>1. z # s
      BY <1>1, <2>1 DEF Taken
    <3>2. PICK u \in W : rq[u].slot = z
      BY <1>2, <1>4, <2>1, <3>1 DEF SlotsMatched
    <3> QED BY <3>1, <3>2
  <2> QED BY <1>2, <2>1 DEF SlotsMatched
<1>7. FriHolds(sr, rq, q, V)
  <2>1. q \in Seq(W) /\ Distinct(q)
    BY <1>2 DEF FriHolds
  <2>2. ASSUME NEW i \in 1..Len(q)
        PROVE  /\ q[i] \in V /\ rq[q[i]].slot # NULL
               /\ sr[rq[q[i]].slot].state \in {"RSRV", "READY"}
    <3>1. q[i] \in W
      BY <2>1, ElementOfSeq
    <3>2. rq[q[i]].slot # NULL /\ sl[rq[q[i]].slot].state \in {"RSRV", "READY"}
      BY <1>2 DEF FriHolds
    <3> QED BY <1>4, <3>1, <3>2
  <2>3. q \in Seq(V)
    BY <2>1, <2>2, SeqOver
  <2> QED BY <2>1, <2>2, <2>3 DEF FriHolds
<1>8. PartitionsHold(rq, pq, V)
  <2>1. ASSUME NEW p \in Partitions PROVE pq[p] \in Seq(V)
    <3>1. pq[p] \in Seq(W)
      BY <1>2 DEF PartitionsHold
    <3>2. ASSUME NEW i \in 1..Len(pq[p]) PROVE pq[p][i] \in V
      <4>1. pq[p][i] \in W
        BY <3>1, ElementOfSeq
      <4>2. rq[pq[p][i]].slot = NULL
        BY <1>2 DEF PartitionsHold
      <4> QED BY <4>1, <4>2
    <3> QED BY <3>1, <3>2, SeqOver
  <2> QED BY <1>2, <2>1 DEF PartitionsHold
<1>9. DeviceHolds(sr, dv, rq, V)
  BY <1>2, <1>4 DEF DeviceHolds
<1> QED BY <1>5, <1>6, <1>7, <1>8, <1>9 DEF Placed, sr

\* Slot s is left in state st, with its watchdog and its hardware as they then must be.
Releases(s, st, ntm, nh) ==
    /\ \A u \in Slots : u # s => ntm[u] = timer[u] /\ nh[u] = hw[u]
    /\ SlotAgrees(WithState(slot, s, st)[s], ntm[s], nh[s], devcfg)

\* The freed slot of an answered request agrees with its hardware again.
LEMMA ReleasedAgreed ==
    ASSUME slot \in [Slots -> SlotRecord], req \in [Requests -> RequestRecord],
           NEW W \in SUBSET Requests, SlotsMatched(slot, req, W),
           Agreed(slot, timer, hw, devcfg, req, W),
           NEW r \in W, NEW s \in Slots, req[r].slot = s,
           NEW st \in {"IDLE", "BLANK"}, NEW ntm, NEW nh, Releases(s, st, ntm, nh)
    PROVE  Agreed(WithState(slot, s, st), ntm, nh, devcfg, req, W \ {r})
<1> USE ConstantsOK DEF Releases
<1> DEFINE sr == WithState(slot, s, st)
<1>1. \A z : z # s => sr[z] = slot[z]
  BY DEF WithState
<1> HIDE DEF sr
<1>2. ASSUME NEW u \in Slots PROVE SlotAgrees(sr[u], ntm[u], nh[u], devcfg)
  BY <1>1 DEF Agreed, sr
<1>3. ASSUME NEW u \in W \ {r} PROVE TaskAgrees(u, sr, nh, req)
  <2>1. TaskAgrees(u, slot, hw, req)
    BY DEF Agreed
  <2>2. req[u].slot # s
    BY DEF SlotsMatched
  <2>3. sr[req[u].slot] = slot[req[u].slot]
    BY <1>1, <2>2
  <2>4. CASE req[u].slot \in Slots
    <3>1. nh[req[u].slot] = hw[req[u].slot]
      BY <2>2, <2>4
    <3> QED BY <2>1, <2>3, <3>1 DEF TaskAgrees
  <2>5. CASE req[u].slot = NULL
    BY <2>5 DEF TaskAgrees
  <2>6. req[u].slot \in Slots \cup {NULL}
    BY DEF RequestRecord
  <2> QED BY <2>4, <2>5, <2>6
<1> QED BY <1>2, <1>3 DEF Agreed, sr

\* A waiting request that has no slot and wants one of partition p.
WantsSlotOf(r, p, rq, W) ==
    r \in W /\ rq[r].slot = NULL /\ TaskPartition[rq[r].hw_task] = p

LEMMA HeadWants ==
    ASSUME NEW rq, NEW pq, NEW W, PartitionsHold(rq, pq, W),
           NEW p \in Partitions, pq[p] # <<>>
    PROVE  WantsSlotOf(Head(pq[p]), p, rq, W)
<1>1. pq[p] \in Seq(W)
  BY DEF PartitionsHold
<1>2. 1 \in 1..Len(pq[p]) /\ pq[p][1] = Head(pq[p])
  BY <1>1, LenProperties, EmptySeq
<1>3. pq[p][1] \in W
  BY <1>1, <1>2, ElementOfSeq
<1>4. rq[pq[p][1]].slot = NULL /\ TaskPartition[rq[pq[p][1]].hw_task] = p
  BY <1>2 DEF PartitionsHold
<1> QED BY <1>2, <1>3, <1>4 DEF WantsSlotOf

\* The head of a partition's queue is in no other place.
LEMMA HeadTakenPlaced ==
    ASSUME NEW sl, NEW dv, NEW rq, NEW pq \in [Partitions -> Seq(Requests)], NEW q, NEW W,
           Placed(sl, dv, rq, pq, q, W), NEW p \in Partitions, pq[p] # <<>>
    PROVE  Placed(sl, dv, rq, [pq EXCEPT ![p] = Tail(@)], q, W \ {Head(pq[p])})
<1> DEFINE r == Head(pq[p])
           V == W \ {r}
           npq == [pq EXCEPT ![p] = Tail(@)]
<1>1. /\ \A u \in W : InItsPlace(u, sl, dv, rq, pq, q)
      /\ SlotsMatched(sl, rq, W) /\ FriHolds(sl, rq, q, W)
      /\ PartitionsHold(rq, pq, W) /\ DeviceHolds(sl, dv, rq, W)
  BY DEF Placed
<1>2. pq[p] \in Seq(W) /\ Distinct(pq[p])
  BY <1>1 DEF PartitionsHold
<1>3. /\ Tail(pq[p]) \in Seq(V) /\ Distinct(Tail(pq[p]))
      /\ Len(Tail(pq[p])) = Len(pq[p]) - 1
      /\ \A i \in 1..Len(Tail(pq[p])) : Tail(pq[p])[i] = pq[p][i + 1]
      /\ \A u : Member(u, pq[p]) /\ u # r => Member(u, Tail(pq[p]))
  BY <1>2, HeadOff
<1>4. 1 \in 1..Len(pq[p]) /\ Len(pq[p]) \in Nat /\ pq[p][1] = r
  BY <1>2, LenProperties, EmptySeq
<1>5. r \in W /\ rq[r].slot = NULL /\ TaskPartition[rq[r].hw_task] = p
  BY <1>1, HeadWants DEF WantsSlotOf
<1>6. npq[p] = Tail(pq[p]) /\ \A u \in Partitions : u # p => npq[u] = pq[u]
  OBVIOUS
<1> HIDE DEF r, npq
<1>7. ASSUME NEW u \in V PROVE InItsPlace(u, sl, dv, rq, npq, q)
  <2> DEFINE d == TaskPartition[rq[u].hw_task]
  <2>1. InItsPlace(u, sl, dv, rq, pq, q) /\ u # r
    BY <1>1
  <2>2. Member(u, pq[d]) => Member(u, npq[d])
    <3>1. CASE d = p
      BY <1>3, <1>6, <2>1, <3>1
    <3>2. CASE d # p
      <4>1. npq[d] = pq[d]
        BY <3>2 DEF npq
      <4> QED BY <4>1
    <3> QED BY <3>1, <3>2
  <2> QED BY <2>1, <2>2 DEF InItsPlace
<1>8. SlotsMatched(sl, rq, V)
  <2> USE ConstantsOK
  <2>1. ASSUME NEW z \in Slots, sl[z].state \in Taken PROVE \E u \in V : rq[u].slot = z
    <3>1. PICK u \in W : rq[u].slot = z
      BY <1>1, <2>1 DEF SlotsMatched
    <3> QED BY <1>5, <3>1
  <2> QED BY <1>1, <2>1 DEF SlotsMatched
<1>9. FriHolds(sl, rq, q, V)
  <2>1. q \in Seq(W) /\ Distinct(q)
    BY <1>1 DEF FriHolds
  <2>2. ASSUME NEW i \in 1..Len(q) PROVE q[i] \in V
    <3>1. q[i] \in W /\ rq[q[i]].slot # NULL
      BY <1>1, <2>1, ElementOfSeq DEF FriHolds
    <3> QED BY <1>5, <3>1
  <2>3. q \in Seq(V)
    BY <2>1, <2>2, SeqOver
  <2> QED BY <1>1, <2>1, <2>3 DEF FriHolds
<1>10. PartitionsHold(rq, npq, V)
  <2>1. ASSUME NEW u \in Partitions
        PROVE  /\ npq[u] \in Seq(V) /\ Distinct(npq[u])
               /\ \A i \in 1..Len(npq[u]) :
                    rq[npq[u][i]].slot = NULL /\ TaskPartition[rq[npq[u][i]].hw_task] = u
    <3>1. CASE u = p
      <4>1. ASSUME NEW i \in 1..Len(npq[p])
            PROVE  rq[npq[p][i]].slot = NULL /\ TaskPartition[rq[npq[p][i]].hw_task] = p
        <5>1. i + 1 \in 1..Len(pq[p]) /\ npq[p][i] = pq[p][i + 1]
          BY <1>3, <1>4, <1>6
        <5> QED BY <1>1, <5>1 DEF PartitionsHold
      <4> QED BY <1>3, <1>6, <3>1, <4>1
    <3>2. CASE u # p
      <4>1. npq[u] = pq[u] /\ pq[u] \in Seq(W)
        BY <1>1, <1>6, <3>2 DEF PartitionsHold
      <4>2. ASSUME NEW i \in 1..Len(pq[u]) PROVE pq[u][i] \in V
        <5>1. pq[u][i] \in W
          BY <4>1, ElementOfSeq
        <5>2. TaskPartition[rq[pq[u][i]].hw_task] = u
          BY <1>1 DEF PartitionsHold
        <5> QED BY <1>5, <3>2, <5>1, <5>2
      <4>3. pq[u] \in Seq(V)
        BY <4>1, <4>2, SeqOver
      <4> QED BY <1>1, <4>1, <4>3 DEF PartitionsHold
    <3> QED BY <3>1, <3>2
  <2> QED BY <2>1 DEF PartitionsHold
<1>11. DeviceHolds(sl, dv, rq, V)
  <2>1. DeviceHolds(sl, dv, rq, W)
    BY <1>1
  <2> QED BY <1>5, <2>1 DEF DeviceHolds
<1>12. Placed(sl, dv, rq, npq, q, V)
  BY <1>7, <1>8, <1>9, <1>10, <1>11 DEF Placed
<1> QED BY <1>12 DEF r, npq

\* Fewer requests agree with the same hardware.
LEMMA AgreedSubset ==
    ASSUME NEW sl, NEW tm, NEW h, NEW dv, NEW rq, NEW W, Agreed(sl, tm, h, dv, rq, W),
           NEW V \in SUBSET W
    PROVE  Agreed(sl, tm, h, dv, rq, V)
BY DEF Agreed

-----------------------------------------------------------------------------
(* Pushing to the FRI queue and pulling from a partition's queue. *)

\* Serving frees no slot.
LEMMA ServeKeepsTaken ==
    ASSUME NEW sl \in [Slots -> SlotRecord], NEW tm, NEW h, NEW dv, NEW rq, NEW run, NEW ready,
           Serve(sl, tm, h, dv, rq, run, ready)
    PROVE  \A s \in Slots : sl[s].state \in Taken => slot'[s].state \in Taken
<1>1. PICK n \in StartCounts(h, rq, run, ready) :
        slot' = ServedSlots(sl, rq, run, n, Programmed(h, rq, run, n))
  BY Zenon DEF Serve
<1>2. ASSUME NEW s \in Slots, sl[s].state \in Taken PROVE slot'[s].state \in Taken
  <2>1. sl[s] \in SlotRecord
    OBVIOUS
  <2> QED BY <1>1, <1>2, <2>1 DEF ServedSlots, SlotRecord, Taken
<1> QED BY <1>2

\* Request r, in no place yet, gets the free slot s and is pushed to the FRI queue.
LEMMA PushKeepsOwned ==
    ASSUME Up, NEW sl, NEW tm, NEW h, NEW rq, NEW pq,
           NEW V \in SUBSET Requests, Shaped(sl, tm, h, rq), NoneReady(sl),
           Placed(sl, devcfg, rq, pq, fri_queue, V), Agreed(sl, tm, h, devcfg, rq, V),
           devcfg \in DevcfgRecord,
           NEW r, NEW s, NEW nrq \in [Requests -> RequestRecord],
           Grants(r, s, sl, rq, nrq, V),
           PushFri(SetReserved(sl, s), tm, h, nrq, r)
    PROVE  /\ status' \in {"up", "down"}
           /\ Faults = {} => status' = "up"
           /\ status' = "up" =>
                /\ Placed(slot', devcfg', nrq, pq, fri_queue', V \cup {r})
                /\ Agreed(slot', timer', hw', devcfg', nrq, V \cup {r})
           /\ \A u \in Slots : sl[u].state \in Taken \/ u = s => slot'[u].state \in Taken
<1> USE ConstantsOK
<1> DEFINE sr == SetReserved(sl, s)
           W == V \cup {r}
<1>1. PICK k \in InsertPositions(fri_queue, nrq, r) :
        IF devcfg.state = "IDLE" /\ Head(InsertedAfter(fri_queue, k, r)) = r
        THEN Serve(sr, tm, h, devcfg, nrq, InsertedAfter(fri_queue, k, r), NULL)
        ELSE /\ fri_queue' = InsertedAfter(fri_queue, k, r)
             /\ slot' = sr /\ timer' = tm /\ hw' = h
             /\ UNCHANGED <<devcfg, status>>
  BY Zenon DEF PushFri
<1> DEFINE q == InsertedAfter(fri_queue, k, r)
<1>2. k \in 0..Len(fri_queue)
  BY DEF InsertPositions
<1>3. /\ sl \in [Slots -> SlotRecord] /\ tm \in [Slots -> TimerRecord]
      /\ h \in [Slots -> HwRecord]
  BY DEF Shaped
<1>4. r \in Requests /\ s \in Slots
  BY DEF Grants
<1>5. Placed(sr, devcfg, nrq, pq, q, W)
  BY <1>2, <1>3, GivenPlaced
<1>6. Agreed(sr, tm, h, devcfg, nrq, W)
  BY <1>3, GivenAgreed
<1>7. /\ sr \in [Slots -> SlotRecord] /\ sr[s].state = "RSRV"
      /\ \A u \in Slots : u # s => sr[u] = sl[u]
  <2>1. sr = WithState(sl, s, "RSRV") /\ "RSRV" \in SlotStates
    BY DEF SetReserved, WithState, SlotStates
  <2> QED BY <1>3, <1>4, <2>1, WithStateAt
<1>8. \A u \in Slots : sl[u].state \in Taken \/ u = s => sr[u].state \in Taken
  BY <1>7 DEF Taken
<1>9. W \in SUBSET Requests
  BY <1>4
<1> HIDE DEF sr, q, W
<1>10. CASE devcfg.state = "IDLE" /\ Serve(sr, tm, h, devcfg, nrq, q, NULL)
  <2>1. ReadyFirst(sr, nrq, q, NULL)
    <3>1. \A u \in Slots : sr[u].state # "READY"
      BY <1>7 DEF NoneReady
    <3>2. q \in Seq(W)
      BY <1>5 DEF Placed, FriHolds
    <3>3. \A i \in 1..Len(q) : q[i] # NULL
      BY <1>9, <3>2, ElementOfSeq
    <3> QED BY <3>1, <3>3 DEF ReadyFirst
  <2>2. Shaped(sr, tm, h, nrq)
    BY <1>3, <1>7 DEF Shaped
  <2>3. Servable(sr, tm, h, devcfg, nrq, pq, q, W, NULL)
    BY <1>5, <1>6, <1>9, <1>10, <2>1, <2>2 DEF Servable
  <2>4. \A u \in Slots : sr[u].state \in Taken => slot'[u].state \in Taken
    BY <1>7, <1>10, ServeKeepsTaken
  <2>5. /\ status' \in {"up", "down"}
        /\ Faults = {} => status' = "up"
        /\ status' = "up" =>
             /\ Placed(slot', devcfg', nrq, pq, fri_queue', W)
             /\ Agreed(slot', timer', hw', devcfg', nrq, W)
    BY <1>10, <2>3, ServeKeepsOwned
  <2> QED BY <1>8, <2>4, <2>5 DEF W
<1>11. CASE /\ fri_queue' = q /\ slot' = sr /\ timer' = tm /\ hw' = h
            /\ UNCHANGED <<devcfg, status>>
  BY <1>5, <1>6, <1>8, <1>11 DEF Up, W
<1> QED BY <1>1, <1>10, <1>11 DEF q, sr

\* The freed slot s goes to the head of its partition's queue, if there is one.
LEMMA PullKeepsOwned ==
    ASSUME Up, NEW sl, NEW tm, NEW h,
           NEW V \in SUBSET Requests, Shaped(sl, tm, h, req), NoneReady(sl),
           Placed(sl, devcfg, req, part_queues, fri_queue, V),
           Agreed(sl, tm, h, devcfg, req, V),
           devcfg \in DevcfgRecord, part_queues \in [Partitions -> Seq(Requests)],
           NEW s \in Slots, sl[s].state \in {"IDLE", "BLANK"},
           \A u \in Slots : u # s /\ part_queues[SlotPartition[u]] # <<>>
                              => sl[u].state \in Taken,
           Pull(sl, tm, h, s, SlotPartition[s])
    PROVE  /\ status' \in {"up", "down"}
           /\ Faults = {} => status' = "up"
           /\ status' = "up" =>
                /\ Placed(slot', devcfg', req', part_queues', fri_queue', V)
                /\ Agreed(slot', timer', hw', devcfg', req', V)
                /\ Conserving(slot', part_queues')
<1> USE ConstantsOK
<1> DEFINE p == SlotPartition[s]
<1>1. p \in Partitions /\ req \in [Requests -> RequestRecord]
  BY DEF Shaped
<1>2. CASE part_queues[p] = <<>>
  <2>1. /\ slot' = sl /\ timer' = tm /\ hw' = h
        /\ UNCHANGED <<devcfg, req, part_queues, fri_queue, status>>
    BY <1>2 DEF Pull
  <2>2. Conserving(slot', part_queues')
    BY <1>2, <2>1 DEF Conserving
  <2> QED BY <2>1, <2>2 DEF Up
<1>3. CASE part_queues[p] # <<>>
  <2> DEFINE r == Head(part_queues[p])
             rq == [req EXCEPT ![r].slot = s]
             npq == [part_queues EXCEPT ![p] = Tail(@)]
             U == V \ {r}
  <2>1. /\ r \in V /\ req[r].slot = NULL /\ TaskPartition[req[r].hw_task] = p
        /\ Placed(sl, devcfg, req, npq, fri_queue, U)
    <3> HIDE DEF p, r, npq, U
    <3>1. r \in V /\ req[r].slot = NULL /\ TaskPartition[req[r].hw_task] = p
      <4>1. PartitionsHold(req, part_queues, V)
        BY DEF Placed
      <4>2. WantsSlotOf(r, p, req, V)
        BY <1>1, <1>3, <4>1, HeadWants DEF r
      <4> QED BY <4>2 DEF WantsSlotOf
    <3>2. Placed(sl, devcfg, req, npq, fri_queue, U)
      BY <1>1, <1>3, HeadTakenPlaced DEF r, npq, U
    <3> QED BY <3>1, <3>2
  <2>2. /\ part_queues' = npq /\ req' = rq
        /\ PushFri(SetReserved(sl, s), tm, h, rq, r)
    BY <1>3 DEF Pull
  <2>3. Agreed(sl, tm, h, devcfg, req, U)
    BY AgreedSubset
  <2>4. InItsPlace(r, sl, devcfg, req, part_queues, fri_queue)
    BY <2>1 DEF Placed
  <2>5. /\ rq \in [Requests -> RequestRecord] /\ \A u \in U : rq[u] = req[u]
        /\ rq[r].slot = s /\ rq[r].hw_task = req[r].hw_task
        /\ rq[r].skip_rcfg = req[r].skip_rcfg
    <3> HIDE DEF r, p
    <3>1. r \in Requests /\ req[r] \in RequestRecord
      BY <1>1, <2>1
    <3>2. rq[r] = [req[r] EXCEPT !.slot = s] /\ \A u \in U : rq[u] = req[u]
      BY <1>1, <3>1
    <3>3. /\ [req[r] EXCEPT !.slot = s] \in RequestRecord
          /\ rq[r].slot = s /\ rq[r].hw_task = req[r].hw_task
          /\ rq[r].skip_rcfg = req[r].skip_rcfg
      <4> HIDE DEF rq
      <4> QED BY <3>1, <3>2 DEF RequestRecord
    <3>4. rq \in [Requests -> RequestRecord]
      BY <1>1, <3>1, <3>3
    <3> QED BY <3>2, <3>3, <3>4
  <2>6. Grants(r, s, sl, req, rq, U)
    <3> HIDE DEF rq
    <3> QED BY <2>1, <2>4, <2>5 DEF Grants, InItsPlace
  <2>7. \A u \in Slots : npq[SlotPartition[u]] # <<>> => sl[u].state \in Taken \/ u = s
    <3>1. SUFFICES ASSUME NEW u \in Slots, npq[SlotPartition[u]] # <<>>, u # s
                   PROVE  sl[u].state \in Taken
      OBVIOUS
    <3>2. part_queues[SlotPartition[u]] # <<>>
      BY <1>3, <3>1
    <3> QED BY <3>1, <3>2
  <2>8. U \cup {r} = V /\ U \in SUBSET Requests
    BY <2>1
  <2> HIDE DEF r, rq, npq, U
  <2>9. /\ status' \in {"up", "down"}
        /\ Faults = {} => status' = "up"
        /\ status' = "up" =>
             /\ Placed(slot', devcfg', rq, npq, fri_queue', U \cup {r})
             /\ Agreed(slot', timer', hw', devcfg', rq, U \cup {r})
        /\ \A u \in Slots : sl[u].state \in Taken \/ u = s => slot'[u].state \in Taken
    BY <2>1, <2>2, <2>3, <2>5, <2>6, <2>8, PushKeepsOwned
  <2>10. Conserving(slot', part_queues')
    BY <2>2, <2>7, <2>9 DEF Conserving
  <2> QED BY <2>2, <2>8, <2>9, <2>10
<1> QED BY <1>2, <1>3

-----------------------------------------------------------------------------
(* The slot search. *)

\* A set of natural numbers has a least element, and a greatest one if it is finite.
LEMMA LeastNat ==
    ASSUME NEW S \in SUBSET Nat, S # {}
    PROVE  \E x \in S : \A y \in S : x <= y
<1>1. PICK x \in S : \A y \in S : <<y, x>> \notin OpToRel(<, Nat)
  BY NatLessThanWellFounded, WFMin
<1>2. \A y \in S : ~ (y < x)
  BY <1>1 DEF OpToRel
<1> QED BY <1>2

LEMMA GreatestNat ==
    ASSUME NEW S \in SUBSET Nat, IsFiniteSet(S), S # {}
    PROVE  \E x \in S : \A y \in S : x >= y
<1> DEFINE above(x) == {y \in S : y > x}
           sizes == {Cardinality(above(x)) : x \in S}
<1>1. \A x \in S : above(x) \in SUBSET S /\ IsFiniteSet(above(x))
  BY FS_Subset
<1>2. \A x \in S : Cardinality(above(x)) \in Nat
  BY <1>1, FS_CardinalityType
<1>3. PICK x \in S : \A y \in S : Cardinality(above(x)) <= Cardinality(above(y))
  <2>1. sizes \in SUBSET Nat /\ sizes # {}
    BY <1>2
  <2>2. PICK m \in sizes : \A n \in sizes : m <= n
    BY <2>1, LeastNat
  <2> QED BY <2>2
<1>4. SUFFICES ASSUME NEW y \in S, y > x PROVE FALSE
  OBVIOUS
<1>5. above(y) \subseteq above(x) /\ y \in above(x) /\ y \notin above(y)
  <2> HIDE DEF sizes
  <2>1. \A z \in S : z \in Nat
    OBVIOUS
  <2>2. \A z \in S : z > y => z > x
    BY <1>4, <2>1
  <2>3. ~ (y > y)
    BY <2>1
  <2> QED BY <1>4, <2>2, <2>3
<1> HIDE DEF above
<1>6. Cardinality(above(y)) <= Cardinality(above(x)) /\ above(y) # above(x)
  BY <1>1, <1>5, FS_Subset
<1>7. Cardinality(above(y)) # Cardinality(above(x))
  BY <1>1, <1>5, <1>6, FS_Subset
<1> QED BY <1>2, <1>3, <1>6, <1>7

\* The search finds an available slot of the partition if there is one.
LEMMA SearchFinds ==
    ASSUME NEW p, NEW t
    PROVE  /\ SearchSlot(p, t) \subseteq AvailableSlots(p)
           /\ SearchSlot(p, t) = {} => AvailableSlots(p) = {}
<1> DEFINE A == AvailableSlots(p)
           M == {s \in A : MatchesTask(s, t)}
<1>1. A \in SUBSET Nat /\ IsFiniteSet(A) /\ M \in SUBSET Nat
  <2>1. A \in SUBSET Slots /\ M \in SUBSET A
    BY DEF AvailableSlots
  <2> HIDE DEF A, M
  <2> QED BY <2>1, ConstantsOK, FS_Subset
<1>2. SearchSlot(p, t) = IF M # {} THEN {s \in M : \A u \in M : s <= u}
                         ELSE {s \in A : \A u \in A : s >= u}
  BY DEF SearchSlot
<1>3. M \subseteq A
  OBVIOUS
<1> HIDE DEF A, M
<1>4. M # {} => \E s \in M : \A u \in M : s <= u
  BY <1>1, LeastNat
<1>5. A # {} => \E s \in A : \A u \in A : s >= u
  BY <1>1, GreatestNat
<1>6. SearchSlot(p, t) \subseteq A /\ (SearchSlot(p, t) = {} => A = {})
  BY <1>2, <1>3, <1>4, <1>5
<1> QED BY <1>6 DEF A

-----------------------------------------------------------------------------
(* Every step keeps the ownership. *)

\* Request r, which had no place among those of V, has no slot and wants one of p.
Enlists(r, p, rq, nrq, V) ==
    /\ r \in Requests \ V
    /\ \A u \in V : nrq[u] = rq[u]
    /\ nrq[r].slot = NULL /\ ~nrq[r].skip_rcfg /\ nrq[r].hw_task # NULL
    /\ TaskPartition[nrq[r].hw_task] = p

\* A request that found no slot joins its partition's queue.
LEMMA EnqueuedPlaced ==
    ASSUME NEW sl, NEW dv, NEW rq, NEW pq \in [Partitions -> Seq(Requests)], NEW q,
           NEW V \in SUBSET Requests, Placed(sl, dv, rq, pq, q, V),
           NEW r, NEW p \in Partitions, NEW nrq, Enlists(r, p, rq, nrq, V)
    PROVE  Placed(sl, dv, nrq, [pq EXCEPT ![p] = Enqueue(@, r)], q, V \cup {r})
<1> USE DEF Enlists
<1> DEFINE W == V \cup {r}
           npq == [pq EXCEPT ![p] = Enqueue(@, r)]
<1>1. /\ \A u \in V : InItsPlace(u, sl, dv, rq, pq, q)
      /\ SlotsMatched(sl, rq, V) /\ FriHolds(sl, rq, q, V)
      /\ PartitionsHold(rq, pq, V) /\ DeviceHolds(sl, dv, rq, V)
  BY DEF Placed
<1>2. npq[p] = Append(pq[p], r) /\ \A u : u # p => npq[u] = pq[u]
  BY DEF Enqueue
<1>3. \A u \in Partitions : pq[u] \in Seq(V) /\ pq[u] \in Seq(W) /\ Distinct(pq[u])
  BY <1>1, SeqMonotonic DEF PartitionsHold
<1>4. /\ Append(pq[p], r) \in Seq(W) /\ Len(pq[p]) \in Nat
      /\ Len(Append(pq[p], r)) = Len(pq[p]) + 1
      /\ \A i \in 1..Len(pq[p]) : Append(pq[p], r)[i] = pq[p][i]
      /\ Append(pq[p], r)[Len(pq[p]) + 1] = r
  BY <1>3, AppendProperties, LenProperties
<1> HIDE DEF npq
<1>5. \A i \in 1..Len(pq[p]) : pq[p][i] # r
  BY <1>3, ElementOfSeq
<1>6. ASSUME NEW u \in W PROVE InItsPlace(u, sl, dv, nrq, npq, q)
  <2>1. CASE u = r
    <3>1. Len(pq[p]) + 1 \in 1..Len(npq[p]) /\ npq[p][Len(pq[p]) + 1] = r
      BY <1>2, <1>4
    <3>2. Member(r, npq[p])
      BY <3>1 DEF Member
    <3> QED BY <2>1, <3>2 DEF InItsPlace
  <2>2. CASE u \in V
    <3> DEFINE d == TaskPartition[rq[u].hw_task]
    <3>1. InItsPlace(u, sl, dv, rq, pq, q) /\ nrq[u] = rq[u]
      BY <1>1, <2>2
    <3>2. Member(u, pq[d]) => Member(u, npq[d])
      <4>1. CASE d = p
        <5>1. ASSUME NEW i \in 1..Len(pq[p]), pq[p][i] = u
              PROVE  i \in 1..Len(npq[p]) /\ npq[p][i] = u
          BY <1>2, <1>4, <5>1
        <5> QED BY <4>1, <5>1 DEF Member
      <4>2. CASE d # p
        BY <1>2, <4>2
      <4> QED BY <4>1, <4>2
    <3> QED BY <3>1, <3>2 DEF InItsPlace
  <2> QED BY <2>1, <2>2
<1>7. SlotsMatched(sl, nrq, W)
  <2>1. ASSUME NEW z \in Slots, sl[z].state \in Taken PROVE \E u \in W : nrq[u].slot = z
    BY <1>1, <2>1 DEF SlotsMatched
  <2>2. ASSUME NEW u \in W, NEW v \in W, nrq[u].slot # NULL, nrq[u].slot = nrq[v].slot
        PROVE  u = v
    BY <1>1, <2>2 DEF SlotsMatched
  <2> QED BY <2>1, <2>2 DEF SlotsMatched
<1>8. FriHolds(sl, nrq, q, W)
  <2>1. q \in Seq(V) /\ q \in Seq(W) /\ Distinct(q)
    BY <1>1, SeqMonotonic DEF FriHolds
  <2>2. \A i \in 1..Len(q) : q[i] \in V
    BY <2>1, ElementOfSeq
  <2> QED BY <1>1, <2>1, <2>2 DEF FriHolds
<1>9. PartitionsHold(nrq, npq, W)
  <2>1. ASSUME NEW u \in Partitions
        PROVE  /\ npq[u] \in Seq(W) /\ Distinct(npq[u])
               /\ \A i \in 1..Len(npq[u]) :
                    nrq[npq[u][i]].slot = NULL /\ TaskPartition[nrq[npq[u][i]].hw_task] = u
    <3>1. ASSUME NEW i \in 1..Len(pq[u])
          PROVE  nrq[pq[u][i]].slot = NULL /\ TaskPartition[nrq[pq[u][i]].hw_task] = u
      <4>1. pq[u][i] \in V
        BY <1>3, ElementOfSeq
      <4> QED BY <1>1, <4>1 DEF PartitionsHold
    <3>2. CASE u # p
      BY <1>2, <1>3, <3>1, <3>2
    <3>3. CASE u = p
      <4>1. ASSUME NEW i \in 1..Len(npq[p])
            PROVE  nrq[npq[p][i]].slot = NULL /\ TaskPartition[nrq[npq[p][i]].hw_task] = p
        <5>1. i \in 1..Len(pq[p]) \/ i = Len(pq[p]) + 1
          BY <1>2, <1>4
        <5>2. CASE i \in 1..Len(pq[p])
          <6>1. npq[p][i] = pq[p][i]
            BY <1>2, <1>4, <5>2
          <6> QED BY <3>1, <3>3, <5>2, <6>1
        <5>3. CASE i = Len(pq[p]) + 1
          BY <1>2, <1>4, <5>3
        <5> QED BY <5>1, <5>2, <5>3
      <4>2. Distinct(npq[p])
        BY <1>2, <1>3, <1>4, <1>5 DEF Distinct
      <4> QED BY <1>2, <1>4, <3>3, <4>1, <4>2
    <3> QED BY <3>2, <3>3
  <2> QED BY <2>1 DEF PartitionsHold
<1>10. DeviceHolds(sl, dv, nrq, W)
  BY <1>1 DEF DeviceHolds
<1> QED BY <1>6, <1>7, <1>8, <1>9, <1>10 DEF Placed, npq

\* The ownership part of the state, collected after a step.
LEMMA OwnedParts ==
    ASSUME NEW W, Waiters' = W, status' \in {"up", "down"}, Faults = {} => status' = "up",
           status' = "up" =>
                /\ Placed(slot', devcfg', req', part_queues', fri_queue', W)
                /\ Agreed(slot', timer', hw', devcfg', req', W)
                /\ Conserving(slot', part_queues')
    PROVE  Owned'
BY DEF Owned, Up

\* Who waits after a client is told something.
LEMMA WaitersAfter ==
    ASSUME IInv, NEW r \in Requests, NEW a, reply' = [reply EXCEPT ![r] = a]
    PROVE  Waiters' = IF a = "wait" THEN Waiters \cup {r} ELSE Waiters \ {r}
BY DEF IInv, TypeOK, Waiters, Waiting

\* A step that changes nothing the invariant is about.
LEMMA QuietKeepsOwned ==
    ASSUME Owned, Waiters' = Waiters,
           UNCHANGED <<slot, timer, hw, devcfg, req, part_queues, fri_queue, status>>
    PROVE  Owned'
BY DEF Owned, Up

\* No request waits when the server starts.
LEMMA InitOwned == Init => Owned
<1> SUFFICES ASSUME Init PROVE Owned
  OBVIOUS
<1> USE ConstantsOK
<1>1. Waiters = {} /\ status = "up"
  BY DEF Init, Waiters, Waiting
<1>2. /\ \A s \in Slots : /\ slot[s].state = "BLANK" /\ timer[s].state = "off"
                          /\ ~hw[s].irq /\ ~hw[s].busy
      /\ devcfg.state = "IDLE" /\ devcfg.drv = "quiet" /\ fri_queue = <<>>
      /\ \A p \in Partitions : part_queues[p] = <<>>
  BY DEF Init
<1>3. /\ <<>> \in Seq({}) /\ Distinct(<<>>)
      /\ \A i \in 1..Len(<<>>) : FALSE
  <2>1. <<>> \in Seq({}) /\ Len(<<>>) = 0
    BY EmptySeq
  <2> QED BY <2>1 DEF Distinct
<1>4. SlotsMatched(slot, req, {})
  BY <1>2 DEF SlotsMatched, Taken
<1>5. FriHolds(slot, req, fri_queue, {}) /\ PartitionsHold(req, part_queues, {})
  BY <1>2, <1>3 DEF FriHolds, PartitionsHold
<1>6. DeviceHolds(slot, devcfg, req, {})
  BY <1>2 DEF DeviceHolds
<1>7. Agreed(slot, timer, hw, devcfg, req, {})
  BY <1>2 DEF Agreed, SlotAgrees
<1>8. Conserving(slot, part_queues)
  BY <1>2 DEF Conserving
<1> QED BY <1>1, <1>4, <1>5, <1>6, <1>7, <1>8 DEF Owned, Up, Placed

\* A hardware event changes no slot record: who owns what stays.
LEMMA HardwareKeepsOwned ==
    ASSUME Owned, Up, UNCHANGED <<slot, req, part_queues, fri_queue, reply, status>>,
           devcfg'.state = devcfg.state, devcfg'.current_rcfg_req = devcfg.current_rcfg_req,
           devcfg'.bit_slot = devcfg.bit_slot, devcfg'.bit_task = devcfg.bit_task,
           devcfg'.drv = "quiet" <=> devcfg.drv = "quiet",
           Agreed(slot, timer', hw', devcfg', req, Waiters)
    PROVE  Owned'
<1>1. Waiters' = Waiters
  BY DEF Waiters, Waiting
<1>2. /\ Placed(slot, devcfg, req, part_queues, fri_queue, Waiters)
      /\ Conserving(slot, part_queues) /\ status' = "up"
  BY DEF Owned, Up
<1>3. Placed(slot, devcfg', req, part_queues, fri_queue, Waiters)
  BY <1>2 DEF Placed, InItsPlace, DeviceHolds
<1>4. /\ Placed(slot', devcfg', req', part_queues', fri_queue', Waiters)
      /\ Agreed(slot', timer', hw', devcfg', req', Waiters)
      /\ Conserving(slot', part_queues')
  BY <1>2, <1>3
<1> QED BY <1>1, <1>2, <1>4, OwnedParts

\* The accelerator of a slot finishes: only an executing one can.
LEMMA AccelDoneKeepsOwned ==
    ASSUME RaceFree, IInv, Owned, NEW s \in Slots, AccelDone(s)
    PROVE  Owned'
<1>1. /\ Up /\ hw[s].busy /\ hw[s].coupled /\ timer[s].state # "expired"
      /\ hw' = [hw EXCEPT ![s].busy = FALSE, ![s].irq = TRUE]
      /\ UNCHANGED <<slot, timer, devcfg, req, part_queues, fri_queue, reply, status>>
  BY DEF AccelDone, Up
<1>2. Agreed(slot, timer, hw, devcfg, req, Waiters)
  BY <1>1 DEF Owned
<1>3. hw[s] \in HwRecord /\ timer[s] \in TimerRecord /\ slot[s] \in SlotRecord
  BY DEF IInv, TypeOK
<1>4. slot[s].state = "EXEC" /\ timer[s].state = "armed"
  <2>1. SlotAgrees(slot[s], timer[s], hw[s], devcfg)
    BY <1>2 DEF Agreed
  <2>2. slot[s].state = "EXEC"
    BY <1>1, <2>1 DEF SlotAgrees
  <2> QED BY <1>1, <1>3, <2>1, <2>2 DEF SlotAgrees, TimerRecord
<1>5. /\ hw'[s] = [hw[s] EXCEPT !.busy = FALSE, !.irq = TRUE]
      /\ \A u \in Slots : u # s => hw'[u] = hw[u]
  BY <1>1 DEF IInv, TypeOK
<1>6. ASSUME NEW u \in Slots PROVE SlotAgrees(slot[u], timer'[u], hw'[u], devcfg')
  <2>1. SlotAgrees(slot[u], timer[u], hw[u], devcfg)
    BY <1>2 DEF Agreed
  <2>2. CASE u = s
    <3>1. /\ hw'[s].fabric = hw[s].fabric /\ hw'[s].coupled = hw[s].coupled
          /\ hw'[s].busy = FALSE /\ hw'[s].irq = TRUE
      BY <1>3, <1>5 DEF HwRecord
    <3> QED BY <1>1, <1>4, <2>1, <2>2, <3>1 DEF SlotAgrees
  <2>3. CASE u # s
    BY <1>1, <1>5, <2>1, <2>3
  <2> QED BY <2>2, <2>3
<1>7. ASSUME NEW r \in Waiters PROVE TaskAgrees(r, slot, hw', req)
  <2>1. TaskAgrees(r, slot, hw, req) /\ r \in Requests
    BY <1>2 DEF Agreed, Waiters
  <2>2. req[r].slot \in Slots \cup {NULL}
    BY <2>1 DEF IInv, TypeOK, RequestRecord
  <2> QED BY <1>4, <1>5, <2>1, <2>2 DEF TaskAgrees
<1>8. Agreed(slot, timer', hw', devcfg', req, Waiters)
  BY <1>6, <1>7 DEF Agreed
<1> QED BY <1>1, <1>8, HardwareKeepsOwned

\* The watchdog of a slot expires: only that of an executing one is armed.
LEMMA TimerExpireKeepsOwned ==
    ASSUME RaceFree, IInv, Owned, NEW s \in Slots, TimerExpire(s)
    PROVE  Owned'
<1>1. /\ Up /\ timer[s].state = "armed" /\ ~hw[s].irq
      /\ timer' = [timer EXCEPT ![s].state = "expired"]
      /\ UNCHANGED <<slot, hw, devcfg, req, part_queues, fri_queue, reply, status>>
  BY DEF TimerExpire, Up
<1>2. Agreed(slot, timer, hw, devcfg, req, Waiters)
  BY <1>1 DEF Owned
<1>3. timer[s] \in TimerRecord
  BY DEF IInv, TypeOK
<1>4. /\ timer'[s] = [timer[s] EXCEPT !.state = "expired"]
      /\ \A u \in Slots : u # s => timer'[u] = timer[u]
  BY <1>1 DEF IInv, TypeOK
<1>5. timer'[s].state = "expired" /\ timer'[s].exec_req = timer[s].exec_req
  BY <1>3, <1>4 DEF TimerRecord
<1>6. ASSUME NEW u \in Slots PROVE SlotAgrees(slot[u], timer'[u], hw'[u], devcfg')
  <2>1. SlotAgrees(slot[u], timer[u], hw[u], devcfg)
    BY <1>2 DEF Agreed
  <2>2. CASE u = s
    BY <1>1, <1>5, <2>1, <2>2 DEF SlotAgrees
  <2>3. CASE u # s
    BY <1>1, <1>4, <2>1, <2>3
  <2> QED BY <2>2, <2>3
<1>7. Agreed(slot, timer', hw', devcfg', req, Waiters)
  BY <1>1, <1>2, <1>6 DEF Agreed
<1> QED BY <1>1, <1>7, HardwareKeepsOwned

\* The bitstream is loaded into the slot of the device's current request.
LEMMA RcfgDoneKeepsOwned ==
    ASSUME IInv, Owned, RcfgDone
    PROVE  Owned'
<1> DEFINE r == devcfg.current_rcfg_req
           s == req[r].slot
<1>1. /\ Up /\ devcfg.drv = "loading"
      /\ devcfg' = [devcfg EXCEPT !.drv = "done"]
      /\ hw' = [hw EXCEPT ![devcfg.bit_slot].fabric = devcfg.bit_task,
                          ![devcfg.bit_slot].busy = FALSE]
      /\ UNCHANGED <<slot, timer, req, part_queues, fri_queue, reply, status>>
  BY DEF RcfgDone, Up
<1>2. /\ Agreed(slot, timer, hw, devcfg, req, Waiters)
      /\ Placed(slot, devcfg, req, part_queues, fri_queue, Waiters)
  BY <1>1 DEF Owned
<1>3. /\ r \in Waiters /\ s # NULL /\ slot[s].state = "RCFG"
      /\ devcfg.bit_slot = s /\ devcfg.bit_task = req[r].hw_task
  BY <1>1, <1>2 DEF Placed, DeviceHolds
<1>4. s \in Slots
  BY <1>3 DEF IInv, TypeOK, RequestRecord, Waiters
<1>5. slot[s].hw_task = req[r].hw_task
  <2>1. TaskAgrees(r, slot, hw, req)
    BY <1>2, <1>3 DEF Agreed
  <2> QED BY <1>3, <2>1 DEF TaskAgrees
<1>6. hw \in [Slots -> HwRecord] /\ devcfg \in DevcfgRecord
  BY DEF IInv, TypeOK
<1>7. /\ devcfg'.state = devcfg.state /\ devcfg'.current_rcfg_req = devcfg.current_rcfg_req
      /\ devcfg'.bit_slot = devcfg.bit_slot /\ devcfg'.bit_task = devcfg.bit_task
      /\ devcfg'.drv = "done"
  BY <1>1, <1>6 DEF DevcfgRecord
<1> HIDE DEF r, s
<1>8. /\ hw'[s] = [hw[s] EXCEPT !.fabric = req[r].hw_task, !.busy = FALSE]
      /\ \A u \in Slots : u # s => hw'[u] = hw[u]
  BY <1>1, <1>3, <1>4, <1>6
<1>9. /\ hw'[s].fabric = req[r].hw_task /\ hw'[s].busy = FALSE
      /\ hw'[s].irq = hw[s].irq
  BY <1>4, <1>6, <1>8 DEF HwRecord
<1>10. ASSUME NEW u \in Slots PROVE SlotAgrees(slot[u], timer'[u], hw'[u], devcfg')
  <2>1. SlotAgrees(slot[u], timer[u], hw[u], devcfg)
    BY <1>2 DEF Agreed
  <2>2. CASE u = s
    BY <1>1, <1>3, <1>5, <1>9, <2>1, <2>2 DEF SlotAgrees
  <2>3. CASE u # s
    <3>1. slot[u].state # "RCFG"
      <4>1. ASSUME slot[u].state = "RCFG" PROVE FALSE
        <5>1. PICK o \in Waiters : req[o].slot = u
          BY <1>2, <4>1 DEF Placed, SlotsMatched, Taken
        <5>2. u # NULL
          BY ConstantsOK
        <5>3. devcfg.current_rcfg_req = o
          BY <1>2, <4>1, <5>1, <5>2 DEF Placed, InItsPlace
        <5> QED BY <2>3, <5>1, <5>3 DEF r, s
      <4> QED BY <4>1
    <3> QED BY <1>1, <1>8, <2>1, <2>3, <3>1 DEF SlotAgrees
  <2> QED BY <2>2, <2>3
<1>11. ASSUME NEW u \in Waiters PROVE TaskAgrees(u, slot, hw', req)
  <2>1. TaskAgrees(u, slot, hw, req) /\ u \in Requests
    BY <1>2 DEF Agreed, Waiters
  <2>2. req[u].slot \in Slots \cup {NULL}
    BY <2>1 DEF IInv, TypeOK, RequestRecord
  <2> QED BY <1>3, <1>8, <2>1, <2>2 DEF TaskAgrees
<1>12. Agreed(slot, timer', hw', devcfg', req, Waiters)
  BY <1>10, <1>11 DEF Agreed
<1> QED BY <1>1, <1>7, <1>12, HardwareKeepsOwned

\* A request without a slot asks nothing of the slots.
LEMMA SlotlessAgreed ==
    ASSUME NEW sl, NEW tm, NEW h, NEW dv, NEW rq, NEW V, Agreed(sl, tm, h, dv, rq, V),
           NEW nrq, \A u \in V : nrq[u] = rq[u], NEW r, nrq[r].slot = NULL
    PROVE  Agreed(sl, tm, h, dv, nrq, V \cup {r})
BY DEF Agreed, TaskAgrees

\* A client's request is given a slot or a place in its partition's queue.
LEMMA RunKeepsOwned ==
    ASSUME IInv, Owned, NEW r \in Requests, NEW t \in HwTasks, Run(r, t)
    PROVE  Owned'
<1> USE ConstantsOK
<1> DEFINE p == TaskPartition[t]
           W == Waiters
<1>1. /\ req \in [Requests -> RequestRecord] /\ clock \in 0..MaxClock
      /\ part_queues \in [Partitions -> Seq(Requests)] /\ devcfg \in DevcfgRecord
      /\ slot \in [Slots -> SlotRecord] /\ Shaped(slot, timer, hw, req)
      /\ NoneReady(slot) /\ p \in Partitions
  BY DEF IInv, TypeOK, Shaped, NoneReady
<1>2. /\ Up /\ r \notin W /\ W \in SUBSET Requests /\ Waiters' = W \cup {r}
  <2>1. Up /\ reply[r] # "wait" /\ reply' = [reply EXCEPT ![r] = "wait"]
    BY DEF Run, Push, Up
  <2> QED BY <2>1, WaitersAfter DEF Waiters, Waiting
<1>3. /\ Placed(slot, devcfg, req, part_queues, fri_queue, W)
      /\ Agreed(slot, timer, hw, devcfg, req, W)
      /\ Conserving(slot, part_queues)
  BY <1>2 DEF Owned
<1>4. PICK now \in clock..(clock + 1) :
        LET fresh == Unbound(r, t, now)
        IN /\ now <= MaxClock
           /\ clock' = now
           /\ \/ /\ SearchSlot(p, t) = {}
                 /\ req' = [req EXCEPT ![r] = fresh]
                 /\ part_queues' = [part_queues EXCEPT ![p] = Enqueue(@, r)]
                 /\ UNCHANGED <<slot, timer, hw, devcfg, fri_queue, status>>
              \/ \E s \in SearchSlot(p, t) :
                    LET rq == [req EXCEPT ![r] =
                                [fresh EXCEPT !.slot = s,
                                              !.skip_rcfg = @ \/ MaySkip(s, t)]]
                    IN /\ req' = rq
                       /\ UNCHANGED part_queues
                       /\ PushFri(SetReserved(slot, s), timer, hw, rq, r)
  BY Zenon DEF Run, Push, PushAccelReq
<1> DEFINE fresh == Unbound(r, t, now)
<1>5. now \in 0..MaxClock
  <2>1. now <= MaxClock
    BY Zenon, <1>4
  <2> QED BY <1>1, <2>1
<1>6. /\ fresh.hw_task = t /\ fresh.slot = NULL /\ fresh.skip_rcfg = FALSE
      /\ fresh \in RequestRecord
  BY <1>5 DEF Unbound, RequestRecord
<1> HIDE DEF W, fresh
<1>7. CASE /\ SearchSlot(p, t) = {}
           /\ req' = [req EXCEPT ![r] = fresh]
           /\ part_queues' = [part_queues EXCEPT ![p] = Enqueue(@, r)]
           /\ UNCHANGED <<slot, timer, hw, devcfg, fri_queue, status>>
  <2> DEFINE nrq == [req EXCEPT ![r] = fresh]
  <2>1. req' = nrq /\ nrq[r] = fresh /\ \A u \in W : nrq[u] = req[u]
    BY <1>1, <1>2, <1>7
  <2> HIDE DEF nrq
  <2>2. Placed(slot, devcfg, req', part_queues', fri_queue, W \cup {r})
    <3> HIDE DEF p
    <3>1. /\ nrq[r].slot = NULL /\ ~nrq[r].skip_rcfg /\ nrq[r].hw_task # NULL
          /\ TaskPartition[nrq[r].hw_task] = p
      BY <1>6, <2>1 DEF p
    <3>2. Enlists(r, p, req, nrq, W)
      BY <1>2, <2>1, <3>1 DEF Enlists
    <3>3. Placed(slot, devcfg, nrq, [part_queues EXCEPT ![p] = Enqueue(@, r)], fri_queue,
                 W \cup {r})
      BY <1>1, <1>2, <1>3, <3>2, EnqueuedPlaced
    <3> QED BY <1>7, <2>1, <3>3
  <2>3. Agreed(slot, timer, hw, devcfg, req', W \cup {r})
    BY <1>3, <1>6, <2>1, SlotlessAgreed
  <2>4. Conserving(slot, part_queues')
    <3>1. ASSUME NEW u \in Slots, part_queues'[SlotPartition[u]] # <<>>
          PROVE  slot[u].state \in Taken
      <4>1. CASE SlotPartition[u] = p
        <5>1. u \notin AvailableSlots(p)
          BY <1>7, SearchFinds
        <5>2. slot[u].state \in SlotStates /\ slot[u].state # "READY"
          BY <1>1 DEF SlotRecord, NoneReady
        <5> QED BY <4>1, <5>1, <5>2 DEF AvailableSlots, IsAvailable, SlotStates, Taken
      <4>2. CASE SlotPartition[u] # p
        <5>1. part_queues'[SlotPartition[u]] = part_queues[SlotPartition[u]]
          BY <1>1, <1>7, <4>2
        <5> QED BY <1>3, <3>1, <5>1 DEF Conserving
      <4> QED BY <4>1, <4>2
    <3> QED BY <3>1 DEF Conserving
  <2> QED BY <1>2, <1>7, <2>2, <2>3, <2>4, OwnedParts DEF Up
<1>8. ASSUME NEW s \in SearchSlot(p, t),
             req' = [req EXCEPT ![r] = [fresh EXCEPT !.slot = s,
                                          !.skip_rcfg = @ \/ MaySkip(s, t)]],
             UNCHANGED part_queues,
             PushFri(SetReserved(slot, s), timer, hw,
                     [req EXCEPT ![r] = [fresh EXCEPT !.slot = s,
                                           !.skip_rcfg = @ \/ MaySkip(s, t)]], r)
      PROVE  Owned'
  <2> DEFINE bound == [fresh EXCEPT !.slot = s, !.skip_rcfg = @ \/ MaySkip(s, t)]
             rq == [req EXCEPT ![r] = bound]
  <2>1. /\ s \in Slots /\ SlotPartition[s] = p /\ slot[s].state \in {"IDLE", "BLANK"}
    BY SearchFinds DEF AvailableSlots, IsAvailable
  <2>2. /\ bound \in RequestRecord /\ bound.hw_task = t /\ bound.slot = s
        /\ bound.skip_rcfg => MaySkip(s, t)
    BY <1>6, <2>1 DEF RequestRecord, MaySkip
  <2> HIDE DEF bound
  <2>3. rq[r] = bound /\ rq \in [Requests -> RequestRecord] /\ \A u \in W : rq[u] = req[u]
    BY <1>1, <1>2, <2>2
  <2> HIDE DEF rq
  <2>4. Grants(r, s, slot, req, rq, W)
    BY <1>2, <2>1, <2>2, <2>3 DEF Grants, MaySkip, MatchesTask
  <2>5. PushFri(SetReserved(slot, s), timer, hw, rq, r) /\ req' = rq
    BY <1>8 DEF rq, bound
  <2>6. /\ status' \in {"up", "down"}
        /\ Faults = {} => status' = "up"
        /\ status' = "up" =>
             /\ Placed(slot', devcfg', rq, part_queues, fri_queue', W \cup {r})
             /\ Agreed(slot', timer', hw', devcfg', rq, W \cup {r})
        /\ \A u \in Slots : slot[u].state \in Taken \/ u = s => slot'[u].state \in Taken
    BY <1>1, <1>2, <1>3, <2>3, <2>4, <2>5, PushKeepsOwned
  <2>7. Conserving(slot', part_queues')
    BY <1>3, <1>8, <2>6 DEF Conserving
  <2>8. part_queues' = part_queues /\ Waiters' = W \cup {r} /\ (Up' <=> status' = "up")
    BY <1>2, <1>8 DEF Up
  <2> QED BY Zenon, <2>5, <2>6, <2>7, <2>8, OwnedParts
<1> QED BY <1>4, <1>7, <1>8 DEF fresh

\* The request behind an executing slot, its watchdog and its interrupt.
LEMMA ExecutingOwner ==
    ASSUME IInv, Owned, Up, NEW s \in Slots, slot[s].state = "EXEC"
    PROVE  /\ slot[s].exec_req \in Waiters
           /\ req[slot[s].exec_req].slot = s
           /\ TaskPartition[req[slot[s].exec_req].hw_task] = SlotPartition[s]
           /\ timer[s].exec_req = slot[s].exec_req
<1> USE ConstantsOK
<1>1. /\ Placed(slot, devcfg, req, part_queues, fri_queue, Waiters)
      /\ Agreed(slot, timer, hw, devcfg, req, Waiters)
  BY DEF Owned
<1>2. PICK o \in Waiters : req[o].slot = s
  BY <1>1 DEF Placed, SlotsMatched, Taken
<1>3. InItsPlace(o, slot, devcfg, req, part_queues, fri_queue) /\ s # NULL
  BY <1>1 DEF Placed
<1>4. slot[s].exec_req = o /\ TaskPartition[req[o].hw_task] = SlotPartition[s]
  BY <1>2, <1>3 DEF InItsPlace
<1>5. timer[s].exec_req = slot[s].exec_req
  BY <1>1 DEF Agreed, SlotAgrees
<1> QED BY <1>2, <1>4, <1>5

\* An execution ends: its client is told, its slot becomes available and is handed on.
LEMMA FreedKeepsOwned ==
    ASSUME IInv, Owned, Up, NEW s \in Slots, NEW r \in Waiters, req[r].slot = s,
           slot[s].state = "EXEC", TaskPartition[req[r].hw_task] = SlotPartition[s],
           NEW st \in {"IDLE", "BLANK"},
           NEW tm \in [Slots -> TimerRecord], NEW h \in [Slots -> HwRecord],
           Releases(s, st, tm, h),
           NEW a, a # "wait", reply' = [reply EXCEPT ![r] = a],
           Pull(WithState(slot, s, st), tm, h, s, TaskPartition[req[r].hw_task])
    PROVE  Owned'
<1> DEFINE sl == WithState(slot, s, st)
           V == Waiters \ {r}
<1>1. /\ req \in [Requests -> RequestRecord] /\ slot \in [Slots -> SlotRecord]
      /\ part_queues \in [Partitions -> Seq(Requests)] /\ devcfg \in DevcfgRecord
      /\ NoneReady(slot)
  BY DEF IInv, TypeOK, NoneReady
<1>2. /\ Placed(slot, devcfg, req, part_queues, fri_queue, Waiters)
      /\ Agreed(slot, timer, hw, devcfg, req, Waiters)
      /\ Conserving(slot, part_queues)
  BY DEF Owned
<1>3. Waiters \in SUBSET Requests /\ V \in SUBSET Requests /\ Waiters' = V
  <2>1. r \in Requests /\ Waiters \in SUBSET Requests
    BY DEF Waiters
  <2> QED BY <2>1, WaitersAfter
<1>4. /\ sl \in [Slots -> SlotRecord] /\ sl[s].state = st
      /\ \A u \in Slots : u # s => sl[u] = slot[u]
  <2>1. st \in SlotStates
    BY DEF SlotStates
  <2> QED BY <1>1, <2>1, WithStateAt
<1>5. Placed(sl, devcfg, req, part_queues, fri_queue, V)
  BY <1>1, <1>2, ReleasedPlaced
<1>6. Agreed(sl, tm, h, devcfg, req, V)
  <2>1. SlotsMatched(slot, req, Waiters)
    BY <1>2 DEF Placed
  <2> QED BY <1>1, <1>2, <1>3, <2>1, ReleasedAgreed
<1> HIDE DEF sl, V
<1>7. Shaped(sl, tm, h, req) /\ NoneReady(sl)
  BY <1>1, <1>4 DEF Shaped, NoneReady
<1>8. \A u \in Slots : u # s /\ part_queues[SlotPartition[u]] # <<>>
                          => sl[u].state \in Taken
  BY <1>2, <1>4 DEF Conserving
<1>9. Pull(sl, tm, h, s, SlotPartition[s]) /\ sl[s].state \in {"IDLE", "BLANK"}
  BY <1>4 DEF sl
<1>10. /\ status' \in {"up", "down"}
       /\ Faults = {} => status' = "up"
       /\ status' = "up" =>
            /\ Placed(slot', devcfg', req', part_queues', fri_queue', V)
            /\ Agreed(slot', timer', hw', devcfg', req', V)
            /\ Conserving(slot', part_queues')
  BY <1>1, <1>3, <1>5, <1>6, <1>7, <1>8, <1>9, PullKeepsOwned
<1> QED BY <1>3, <1>10, OwnedParts

\* A server that stops for a fault keeps the invariant; without faults it does not.
LEMMA StopKeepsOwned ==
    ASSUME status' = "down", Faults # {}
    PROVE  Owned'
BY DEF Owned, Up

\* An interrupt: the slot executes, and the request it is handled for is its owner.
LEMMA SlotCompleteKeepsOwned ==
    ASSUME IInv, Owned, NEW s \in Slots, NEW delivered \in Outcomes("notify"),
           SlotComplete(s, delivered)
    PROVE  Owned'
<1> DEFINE r == slot[s].exec_req
           z == req[r].slot
           p == TaskPartition[req[r].hw_task]
           sl == ClearAfterCompute(slot, z)
           tm == Disarm(timer, z)
           h == ConsumeIrq(hw, z)
<1>1. Up /\ hw[s].irq
  BY DEF SlotComplete, SlotHandler, Up
<1>2. SlotAgrees(slot[s], timer[s], hw[s], devcfg)
  BY <1>1 DEF Owned, Agreed
<1>3. slot[s].state = "EXEC"
  BY <1>1, <1>2 DEF SlotAgrees
<1>4. r \in Waiters /\ z = s /\ p = SlotPartition[s]
  BY <1>1, <1>3, ExecutingOwner
<1>5. /\ timer \in [Slots -> TimerRecord] /\ hw \in [Slots -> HwRecord]
      /\ slot \in [Slots -> SlotRecord]
  BY DEF IInv, TypeOK
<1>6. sl = WithState(slot, s, "IDLE") /\ "IDLE" \in SlotStates
  BY <1>4 DEF ClearAfterCompute, WithState, SlotStates
<1>7. /\ tm \in [Slots -> TimerRecord] /\ tm[s].state = "off"
      /\ \A u \in Slots : u # s => tm[u] = timer[u]
  BY <1>4, <1>5 DEF Disarm, TimerRecord
<1>8. /\ h[s] = [hw[s] EXCEPT !.irq = FALSE]
      /\ \A u \in Slots : u # s => h[u] = hw[u]
      /\ h = [u \in Slots |-> h[u]]
  BY <1>4, <1>5 DEF ConsumeIrq
<1>9. z # NULL
  BY <1>4, ConstantsOK
<1>10. \/ ~delivered /\ status' = "down"
       \/ reply' = [reply EXCEPT ![r] = "DONE"] /\ Pull(sl, tm, h, z, p)
  <2>1. slot[z].state = "EXEC" /\ hw[z].irq
    BY <1>1, <1>3, <1>4
  <2> HIDE DEF r, z, p, sl, tm, h
  <2> QED BY Zenon, <1>9, <2>1 DEF SlotComplete, SlotHandler, r, z, p, sl, tm, h
<1> HIDE DEF r, z, p, sl, tm, h
<1>11. /\ h[s].busy = hw[s].busy /\ h[s].coupled = hw[s].coupled
       /\ h[s].fabric = hw[s].fabric /\ h[s].irq = FALSE /\ h[s] \in HwRecord
  BY <1>5, <1>8 DEF HwRecord
<1>12. h \in [Slots -> HwRecord]
  BY <1>5, <1>8, <1>11
<1>13. SlotAgrees(WithState(slot, s, "IDLE")[s], tm[s], h[s], devcfg)
  <2> DEFINE sr == WithState(slot, s, "IDLE")[s]
  <2>1. sr.state = "IDLE" /\ sr.hw_task = slot[s].hw_task
    BY <1>5, <1>6, WithStateAt
  <2> HIDE DEF sr
  <2>2. hw[s].fabric = slot[s].hw_task /\ hw[s].coupled /\ ~hw[s].busy
    <3>1. hw[s] \in HwRecord
      BY <1>5
    <3> QED BY <1>1, <1>2, <1>3, <3>1 DEF SlotAgrees, HwRecord
  <2>3. SlotAgrees(sr, tm[s], h[s], devcfg)
    BY <1>7, <1>11, <2>1, <2>2 DEF SlotAgrees, HoldsModule
  <2> QED BY <2>3 DEF sr
<1>14. CASE ~delivered /\ status' = "down"
  BY <1>14, StopKeepsOwned DEF Outcomes
<1>15. CASE reply' = [reply EXCEPT ![r] = "DONE"] /\ Pull(sl, tm, h, z, p)
  <2>1. req[r].slot = s /\ TaskPartition[req[r].hw_task] = SlotPartition[s]
    BY <1>4 DEF z, p
  <2>2. Pull(WithState(slot, s, "IDLE"), tm, h, s, TaskPartition[req[r].hw_task])
    BY <1>4, <1>6, <1>15, <2>1
  <2>3. Releases(s, "IDLE", tm, h)
    BY <1>7, <1>8, <1>13 DEF Releases
  <2> QED BY <1>1, <1>3, <1>4, <1>7, <1>12, <1>15, <2>1, <2>2, <2>3, FreedKeepsOwned
<1> QED BY <1>10, <1>14, <1>15

\* A watchdog: the slot executes the request it was armed for, and is computing.
LEMMA SlotTimeoutKeepsOwned ==
    ASSUME IInv, Owned, NEW s \in Slots, NEW delivered \in Outcomes("notify"),
           SlotTimeout(s, delivered)
    PROVE  Owned'
<1> DEFINE r == timer[s].exec_req
           z == req[r].slot
           p == TaskPartition[req[r].hw_task]
           tm == [timer EXCEPT ![s].state = "off"]
           sl == DisableAfterTimeout(slot, z)
           h == Decouple(hw, z)
<1>1. Up /\ timer[s].state = "expired"
  BY DEF SlotTimeout, Up
<1>2. SlotAgrees(slot[s], timer[s], hw[s], devcfg)
  BY <1>1 DEF Owned, Agreed
<1>3. slot[s].state = "EXEC" /\ ~hw[s].irq
  BY <1>1, <1>2 DEF SlotAgrees
<1>4. r \in Waiters /\ z = s /\ p = SlotPartition[s]
  BY <1>1, <1>3, ExecutingOwner
<1>5. /\ timer \in [Slots -> TimerRecord] /\ hw \in [Slots -> HwRecord]
      /\ slot \in [Slots -> SlotRecord]
  BY DEF IInv, TypeOK
<1>6. sl = WithState(slot, s, "BLANK") /\ "BLANK" \in SlotStates
  BY <1>4 DEF DisableAfterTimeout, WithState, SlotStates
<1>7. /\ tm[s] = [timer[s] EXCEPT !.state = "off"]
      /\ \A u \in Slots : u # s => tm[u] = timer[u]
      /\ tm = [u \in Slots |-> tm[u]]
  BY <1>5
<1>8. /\ h[s] = [hw[s] EXCEPT !.coupled = FALSE]
      /\ \A u \in Slots : u # s => h[u] = hw[u]
      /\ h = [u \in Slots |-> h[u]]
  BY <1>4, <1>5 DEF Decouple
<1>9. z # NULL
  BY <1>4, ConstantsOK
<1>10. \/ ~delivered /\ status' = "down"
       \/ reply' = [reply EXCEPT ![r] = "OVERRUN"] /\ Pull(sl, tm, h, z, p)
  <2>1. slot[z].state = "EXEC"
    BY <1>3, <1>4
  <2> HIDE DEF r, z, p, sl, tm, h
  <2> QED BY Zenon, <1>9, <2>1 DEF SlotTimeout, r, z, p, sl, tm, h
<1> HIDE DEF r, z, p, sl, tm, h
<1>11. /\ h[s].coupled = FALSE /\ h[s].irq = hw[s].irq /\ h[s] \in HwRecord
       /\ tm[s].state = "off" /\ tm[s] \in TimerRecord
  <2>1. hw[s] \in HwRecord /\ timer[s] \in TimerRecord
    BY <1>5
  <2>2. h[s].coupled = FALSE /\ h[s].irq = hw[s].irq /\ h[s] \in HwRecord
    BY <1>8, <2>1 DEF HwRecord
  <2>3. tm[s].state = "off" /\ tm[s] \in TimerRecord
    BY <1>7, <2>1 DEF TimerRecord
  <2> QED BY <2>2, <2>3
<1>12. h \in [Slots -> HwRecord] /\ tm \in [Slots -> TimerRecord]
  BY <1>5, <1>7, <1>8, <1>11
<1>13. SlotAgrees(WithState(slot, s, "BLANK")[s], tm[s], h[s], devcfg)
  <2> DEFINE sr == WithState(slot, s, "BLANK")[s]
  <2>1. sr.state = "BLANK"
    BY <1>5, <1>6, WithStateAt
  <2> HIDE DEF sr
  <2>2. SlotAgrees(sr, tm[s], h[s], devcfg)
    BY <1>3, <1>11, <2>1 DEF SlotAgrees
  <2> QED BY <2>2 DEF sr
<1>14. CASE ~delivered /\ status' = "down"
  BY <1>14, StopKeepsOwned DEF Outcomes
<1>15. CASE reply' = [reply EXCEPT ![r] = "OVERRUN"] /\ Pull(sl, tm, h, z, p)
  <2>1. req[r].slot = s /\ TaskPartition[req[r].hw_task] = SlotPartition[s]
    BY <1>4 DEF z, p
  <2>2. Pull(WithState(slot, s, "BLANK"), tm, h, s, TaskPartition[req[r].hw_task])
    BY <1>4, <1>6, <1>15, <2>1
  <2>3. Releases(s, "BLANK", tm, h)
    BY <1>7, <1>8, <1>13 DEF Releases
  <2> QED BY <1>1, <1>3, <1>4, <1>7, <1>12, <1>15, <2>1, <2>2, <2>3, FreedKeepsOwned
<1> QED BY <1>10, <1>14, <1>15

\* A queue with one more request in front.
LEMMA InFront ==
    ASSUME NEW B, NEW q \in Seq(B), Distinct(q), NEW r \in B, ~Member(r, q)
    PROVE  /\ <<r>> \o q \in Seq(B)
           /\ Distinct(<<r>> \o q)
           /\ Len(<<r>> \o q) = Len(q) + 1
           /\ (<<r>> \o q)[1] = r
           /\ \A i \in 2..(Len(q) + 1) : (<<r>> \o q)[i] = q[i - 1]
           /\ \A u : Member(u, q) => Member(u, <<r>> \o q)
           /\ Member(r, <<r>> \o q)
<1> DEFINE a == <<r>> \o q
<1>1. <<r>> \in Seq(B) /\ Len(<<r>>) = 1 /\ <<r>>[1] = r /\ Len(q) \in Nat
  BY LenProperties
<1>2. /\ a \in Seq(B) /\ Len(a) = 1 + Len(q)
      /\ \A i \in 1..(1 + Len(q)) : a[i] = IF i <= 1 THEN <<r>>[i] ELSE q[i - 1]
  BY <1>1, ConcatProperties
<1> HIDE DEF a
<1>3. a[1] = r /\ \A i \in 2..(Len(q) + 1) : a[i] = q[i - 1]
  BY <1>1, <1>2
<1>4. Distinct(a)
  <2>1. SUFFICES ASSUME NEW i \in 1..Len(a), NEW j \in 1..Len(a), a[i] = a[j]
                 PROVE  i = j
    BY DEF Distinct
  <2>2. \A m \in 1..Len(a) : m # 1 => /\ m - 1 \in 1..Len(q) /\ a[m] = q[m - 1]
                                      /\ a[m] # r
    <3>1. ASSUME NEW m \in 1..Len(a), m # 1
          PROVE  m - 1 \in 1..Len(q) /\ a[m] = q[m - 1] /\ a[m] # r
      <4>1. m - 1 \in 1..Len(q) /\ a[m] = q[m - 1]
        BY <1>1, <1>2, <1>3, <3>1
      <4> QED BY <4>1 DEF Member
    <3> QED BY <3>1
  <2>3. CASE i = 1 \/ j = 1
    BY <1>3, <2>1, <2>2, <2>3
  <2>4. CASE i # 1 /\ j # 1
    <3>1. i - 1 \in 1..Len(q) /\ j - 1 \in 1..Len(q) /\ q[i - 1] = q[j - 1]
      BY <2>1, <2>2, <2>4
    <3>2. i - 1 = j - 1
      BY <3>1 DEF Distinct
    <3> QED BY <1>1, <1>2, <3>2
  <2> QED BY <2>3, <2>4
<1>5. ASSUME NEW u, Member(u, q) PROVE Member(u, a)
  <2>1. PICK i \in 1..Len(q) : q[i] = u
    BY <1>5 DEF Member
  <2>2. i + 1 \in 1..Len(a) /\ i + 1 \in 2..(Len(q) + 1) /\ i + 1 - 1 = i
    BY <1>1, <1>2
  <2>3. a[i + 1] = u
    BY <1>3, <2>1, <2>2
  <2> QED BY <2>2, <2>3 DEF Member
<1>6. Member(r, a)
  <2>1. 1 \in 1..Len(a)
    BY <1>1, <1>2
  <2> QED BY <1>3, <2>1 DEF Member
<1> QED BY <1>1, <1>2, <1>3, <1>4, <1>5, <1>6 DEF a

\* The device has finished: its request is READY to be served before the queue.
LEMMA ReadiedPlaced ==
    ASSUME slot \in [Slots -> SlotRecord], req \in [Requests -> RequestRecord],
           NEW W \in SUBSET Requests, NoneReady(slot),
           Placed(slot, devcfg, req, part_queues, fri_queue, W),
           devcfg.state = "PROG", NEW r, r = devcfg.current_rcfg_req,
           NEW s \in Slots, s = req[r].slot,
           NEW dv, dv.state = "IDLE", dv.drv = "quiet"
    PROVE  /\ Placed(WithState(slot, s, "READY"), dv, req, part_queues,
                     <<r>> \o fri_queue, W)
           /\ ReadyFirst(WithState(slot, s, "READY"), req, <<r>> \o fri_queue, r)
<1> USE ConstantsOK
<1> DEFINE sr == WithState(slot, s, "READY")
           run == <<r>> \o fri_queue
<1>1. /\ \A u \in W : InItsPlace(u, slot, devcfg, req, part_queues, fri_queue)
      /\ SlotsMatched(slot, req, W) /\ FriHolds(slot, req, fri_queue, W)
      /\ PartitionsHold(req, part_queues, W) /\ DeviceHolds(slot, devcfg, req, W)
  BY DEF Placed
<1>2. r \in W /\ slot[s].state = "RCFG" /\ s # NULL
  BY <1>1 DEF DeviceHolds
<1>3. /\ sr[s].state = "READY"
      /\ \A u \in Slots : u # s => sr[u] = slot[u]
  <2>1. "READY" \in SlotStates
    BY DEF SlotStates
  <2> QED BY <2>1, WithStateAt
<1>4. fri_queue \in Seq(W) /\ Distinct(fri_queue) /\ Len(fri_queue) \in Nat
  BY <1>1, LenProperties DEF FriHolds
<1>5. ~Member(r, fri_queue)
  <2>1. \A i \in 1..Len(fri_queue) : slot[req[fri_queue[i]].slot].state \in {"RSRV", "READY"}
    BY <1>1 DEF FriHolds
  <2> QED BY <1>2, <2>1 DEF Member
<1>6. /\ run \in Seq(W) /\ Distinct(run) /\ Len(run) = Len(fri_queue) + 1 /\ run[1] = r
      /\ \A i \in 2..(Len(fri_queue) + 1) : run[i] = fri_queue[i - 1]
      /\ \A u : Member(u, fri_queue) => Member(u, run)
      /\ Member(r, run)
  BY <1>2, <1>4, <1>5, InFront
<1> HIDE DEF sr, run
<1>7. \A u \in W : u # r => req[u].slot # s
  BY <1>1, <1>2 DEF SlotsMatched
<1>8. \A u \in W : req[u].slot \in Slots \cup {NULL}
  BY DEF RequestRecord
<1>9. ASSUME NEW u \in W PROVE InItsPlace(u, sr, dv, req, part_queues, run)
  <2>1. InItsPlace(u, slot, devcfg, req, part_queues, fri_queue)
    BY <1>1
  <2>2. CASE u = r
    BY <1>2, <1>3, <1>6, <2>1, <2>2 DEF InItsPlace, Taken
  <2>3. CASE u # r
    <3>1. CASE req[u].slot = NULL
      BY <2>1, <3>1 DEF InItsPlace
    <3>2. CASE req[u].slot \in Slots
      <4>1. sr[req[u].slot] = slot[req[u].slot]
        BY <1>3, <1>7, <2>3, <3>2
      <4>2. slot[req[u].slot].state # "RCFG"
        BY <2>1, <2>3, <3>2 DEF InItsPlace
      <4> QED BY <1>6, <2>1, <3>2, <4>1, <4>2 DEF InItsPlace
    <3> QED BY <1>8, <3>1, <3>2
  <2> QED BY <2>2, <2>3
<1>10. SlotsMatched(sr, req, W)
  <2>1. \A u \in Slots : sr[u].state \in Taken => slot[u].state \in Taken
    BY <1>2, <1>3 DEF Taken
  <2> QED BY <1>1, <2>1 DEF SlotsMatched
<1>11. FriHolds(sr, req, run, W)
  <2>1. ASSUME NEW i \in 1..Len(run)
        PROVE  req[run[i]].slot # NULL /\ sr[req[run[i]].slot].state \in {"RSRV", "READY"}
    <3>1. CASE i = 1
      BY <1>2, <1>3, <1>6, <3>1
    <3>2. CASE i # 1
      <4>1. i - 1 \in 1..Len(fri_queue) /\ run[i] = fri_queue[i - 1]
        BY <1>4, <1>6, <3>2
      <4>2. /\ req[run[i]].slot # NULL /\ slot[req[run[i]].slot].state \in {"RSRV", "READY"}
            /\ run[i] \in W
        BY <1>1, <1>4, <4>1, ElementOfSeq DEF FriHolds
      <4>3. req[run[i]].slot \in Slots /\ req[run[i]].slot # s
        BY <1>2, <1>8, <4>2
      <4> QED BY <1>3, <4>2, <4>3
    <3> QED BY <3>1, <3>2
  <2> QED BY <1>6, <2>1 DEF FriHolds
<1>12. DeviceHolds(sr, dv, req, W)
  BY DEF DeviceHolds
<1>13. ReadyFirst(sr, req, run, r)
  <2>1. \A u \in Slots : sr[u].state = "READY" => u = s
    BY <1>3 DEF NoneReady
  <2>2. run # <<>>
    BY <1>4, <1>6, EmptySeq
  <2> QED BY <1>3, <1>6, <2>1, <2>2 DEF ReadyFirst
<1> QED BY <1>1, <1>9, <1>10, <1>11, <1>12, <1>13 DEF Placed, sr, run

\* The end of a reconfiguration.
LEMMA RcfgCompleteKeepsOwned ==
    ASSUME IInv, Owned, RcfgComplete
    PROVE  Owned'
<1> USE ConstantsOK
<1> DEFINE r == devcfg.current_rcfg_req
           s == req[r].slot
           dv == [devcfg EXCEPT !.state = "IDLE", !.drv = "quiet"]
           sl == [slot EXCEPT ![s].state = "READY"]
           h == Couple(hw, s)
           run == <<r>> \o fri_queue
<1>1. Up /\ devcfg.drv = "done"
  BY DEF RcfgComplete, Up
<1>2. /\ Placed(slot, devcfg, req, part_queues, fri_queue, Waiters)
      /\ Agreed(slot, timer, hw, devcfg, req, Waiters)
      /\ Conserving(slot, part_queues) /\ Waiters \in SUBSET Requests
  BY <1>1 DEF Owned, Waiters
<1>3. /\ devcfg.state = "PROG" /\ r \in Waiters /\ s # NULL /\ slot[s].state = "RCFG"
  BY <1>1, <1>2 DEF Placed, DeviceHolds
<1>4. Shaped(slot, timer, hw, req) /\ devcfg \in DevcfgRecord /\ NoneReady(slot)
  BY DEF IInv, TypeOK, Shaped, NoneReady
<1>5. s \in Slots
  BY <1>2, <1>3, <1>4 DEF Shaped, RequestRecord
<1>6. dv.state = "IDLE" /\ dv.drv = "quiet"
  BY <1>4 DEF DevcfgRecord
<1>7. sl = WithState(slot, s, "READY") /\ "READY" \in SlotStates
  BY DEF WithState, SlotStates
<1>8. \/ "rcfg_read" \in Faults /\ status' = "down"
      \/ /\ Serve(sl, timer, h, dv, req, run, r)
         /\ UNCHANGED <<req, part_queues, reply>>
  <2> HIDE DEF r, s, dv, sl, h, run
  <2> QED BY Zenon, <1>3 DEF RcfgComplete, r, s, dv, sl, h, run
<1>9. /\ h[s] = [hw[s] EXCEPT !.coupled = TRUE]
      /\ \A u \in Slots : u # s => h[u] = hw[u]
      /\ h = [u \in Slots |-> h[u]]
  BY <1>4, <1>5 DEF Shaped, Couple
<1> HIDE DEF r, s, dv, sl, h, run
<1>10. /\ h[s] \in HwRecord /\ h[s].coupled = TRUE /\ h[s].fabric = hw[s].fabric
       /\ h[s].busy = hw[s].busy /\ h[s].irq = hw[s].irq
  <2>1. hw[s] \in HwRecord
    BY <1>4, <1>5 DEF Shaped
  <2> QED BY <1>9, <2>1 DEF HwRecord
<1>11. /\ sl \in [Slots -> SlotRecord] /\ sl[s].state = "READY"
       /\ sl[s].hw_task = slot[s].hw_task
       /\ \A u \in Slots : u # s => sl[u] = slot[u]
  BY <1>4, <1>5, <1>7, WithStateAt DEF Shaped
<1>12. Shaped(sl, timer, h, req)
  <2>1. h \in [Slots -> HwRecord]
    BY <1>4, <1>9, <1>10 DEF Shaped
  <2> QED BY <1>4, <1>11, <2>1 DEF Shaped
<1>13. Agreed(sl, timer, h, dv, req, Waiters)
  <2>1. SlotAgrees(slot[s], timer[s], hw[s], devcfg)
    BY <1>2, <1>5 DEF Agreed
  <2>2. SlotAgrees(sl[s], timer[s], h[s], dv)
    <3>1. hw[s].fabric = slot[s].hw_task /\ ~hw[s].busy /\ ~hw[s].irq /\ timer[s].state = "off"
      BY <1>1, <1>3, <2>1 DEF SlotAgrees
    <3> QED BY <1>10, <1>11, <3>1 DEF SlotAgrees, HoldsModule
  <2>3. ASSUME NEW u \in Slots PROVE SlotAgrees(sl[u], timer[u], h[u], dv)
    <3>1. SlotAgrees(slot[u], timer[u], hw[u], devcfg)
      BY <1>2 DEF Agreed
    <3>2. CASE u # s
      BY <1>6, <1>9, <1>11, <3>1, <3>2 DEF SlotAgrees
    <3> QED BY <2>2, <3>2
  <2>4. ASSUME NEW u \in Waiters PROVE TaskAgrees(u, sl, h, req)
    <3>1. TaskAgrees(u, slot, hw, req)
      BY <1>2 DEF Agreed
    <3>2. CASE req[u].slot = s
      BY <1>3, <1>11, <3>1, <3>2 DEF TaskAgrees
    <3>3. CASE req[u].slot # s
      <4>1. req[u].slot \in Slots \cup {NULL}
        BY <1>2, <1>4 DEF Shaped, RequestRecord
      <4> QED BY <1>9, <1>11, <3>1, <3>3, <4>1 DEF TaskAgrees
    <3> QED BY <3>2, <3>3
  <2> QED BY <2>3, <2>4 DEF Agreed
<1>14. Placed(sl, dv, req, part_queues, run, Waiters) /\ ReadyFirst(sl, req, run, r)
  <2>1. r = devcfg.current_rcfg_req /\ s = req[r].slot
    BY DEF r, s
  <2>2. slot \in [Slots -> SlotRecord] /\ req \in [Requests -> RequestRecord]
    BY <1>4 DEF Shaped
  <2> QED BY <1>2, <1>3, <1>4, <1>5, <1>6, <1>7, <2>1, <2>2, ReadiedPlaced DEF run
<1>15. CASE "rcfg_read" \in Faults /\ status' = "down"
  BY <1>15, StopKeepsOwned
<1>16. CASE /\ Serve(sl, timer, h, dv, req, run, r)
            /\ UNCHANGED <<req, part_queues, reply>>
  <2>1. Servable(sl, timer, h, dv, req, part_queues, run, Waiters, r)
    BY <1>2, <1>6, <1>12, <1>13, <1>14 DEF Servable
  <2>2. /\ status' \in {"up", "down"}
        /\ Faults = {} => status' = "up"
        /\ status' = "up" =>
             /\ Placed(slot', devcfg', req, part_queues, fri_queue', Waiters)
             /\ Agreed(slot', timer', hw', devcfg', req, Waiters)
    BY <1>16, <2>1, ServeKeepsOwned
  <2>3. \A u \in Slots : sl[u].state \in Taken => slot'[u].state \in Taken
    BY <1>11, <1>16, ServeKeepsTaken
  <2>4. Conserving(slot', part_queues')
    <3>1. \A u \in Slots : slot[u].state \in Taken => sl[u].state \in Taken
      BY <1>11 DEF Taken
    <3> QED BY <1>2, <1>16, <2>3, <3>1 DEF Conserving
  <2>5. Waiters' = Waiters
    BY <1>16 DEF Waiters, Waiting
  <2> QED BY <1>16, <2>2, <2>4, <2>5, OwnedParts
<1> QED BY <1>8, <1>15, <1>16

\* One step, by cases on the actions of Next.
LEMMA NextKeepsOwned ==
    ASSUME RaceFree, IInv, Owned, [Next]_vars
    PROVE  Owned'
<1>1. ASSUME NEW r \in Requests, NEW t \in HwTasks, Run(r, t) PROVE Owned'
  BY <1>1, RunKeepsOwned
<1>2. ASSUME NEW r \in Requests, NEW t \in HwTasks, RunBanned(r, t) PROVE Owned'
  <2>1. /\ reply[r] # "wait" /\ reply' = [reply EXCEPT ![r] = "ERROR"]
        /\ UNCHANGED <<slot, timer, hw, devcfg, req, part_queues, fri_queue, status>>
    BY <1>2 DEF RunBanned
  <2>2. Waiters' = Waiters
    BY <2>1, WaitersAfter DEF Waiters, Waiting
  <2> QED BY <2>1, <2>2, QuietKeepsOwned
<1>3. ASSUME NEW s \in Slots, NEW d \in Outcomes("notify"),
             SlotComplete(s, d) \/ SlotTimeout(s, d)
      PROVE  Owned'
  BY <1>3, SlotCompleteKeepsOwned, SlotTimeoutKeepsOwned
<1>4. ASSUME NEW s \in Slots, AccelDone(s) \/ TimerExpire(s) PROVE Owned'
  BY <1>4, AccelDoneKeepsOwned, TimerExpireKeepsOwned
<1>5. CASE Stopped \/ UNCHANGED vars
  <2>1. UNCHANGED vars
    BY <1>5 DEF Stopped
  <2>2. Waiters' = Waiters
    BY <2>1 DEF vars, Waiters, Waiting
  <2> QED BY <2>1, <2>2, QuietKeepsOwned DEF vars
<1> QED BY <1>1, <1>2, <1>3, <1>4, <1>5, RcfgCompleteKeepsOwned, RcfgDoneKeepsOwned DEF Next

-----------------------------------------------------------------------------
(* What it shows. *)

\* In every race-free behaviour, whatever drivers and peers fail, each waiting request
\* is in its place, each slot in agreement with its hardware and no slot held back.
THEOREM Ownership == ASSUME RaceFree PROVE Spec => []Owned
<1>1. Init => Owned
  BY InitOwned
<1>2. IInv /\ Owned /\ [Next]_vars => Owned'
  BY NextKeepsOwned
<1> QED BY <1>1, <1>2, Invariance, PTL DEF Spec

\* Without faults the server stays up: no assert of the slot and device state machines
\* fires, no handler blocks in a read and no accelerator is started while one still runs.
THEOREM SchedulerStaysUp == ASSUME RaceFree, Faults = {} PROVE Spec => []StaysUp
<1>1. Owned => StaysUp
  BY DEF Owned, StaysUp, Up
<1> QED BY <1>1, Ownership, PTL

\* With faults it may stop, but in no other way than by leaving its event loop.
THEOREM SchedulerFailsCleanly == ASSUME RaceFree PROVE Spec => []FailsCleanly
<1>1. Owned => FailsCleanly
  BY DEF Owned, FailsCleanly
<1> QED BY <1>1, Ownership, PTL

\* No slot is shared, leaked or given to a request of another partition.
THEOREM SlotsNeverShared == ASSUME RaceFree PROVE Spec => []SlotsOwned
<1> USE ConstantsOK
<1>1. ASSUME IInv, Owned PROVE SlotsOwned
  <2>1. SUFFICES ASSUME Up, NEW s \in Slots
                 PROVE  /\ Cardinality(OwnersOf(s)) = IF IsAvailable(s) THEN 0 ELSE 1
                        /\ \A r \in OwnersOf(s) :
                             /\ TaskPartition[req[r].hw_task] = SlotPartition[s]
                             /\ r \notin ToSet(part_queues[SlotPartition[s]])
    BY DEF SlotsOwned
  <2>2. Placed(slot, devcfg, req, part_queues, fri_queue, Waiters)
    BY <1>1, <2>1 DEF Owned
  <2>3. OwnersOf(s) = {r \in Waiters : req[r].slot = s} /\ s # NULL
    BY DEF OwnersOf, Waiters
  <2>4. IsAvailable(s) <=> slot[s].state \notin Taken
    <3>1. slot[s].state \in SlotStates /\ slot[s].state # "READY"
      BY <1>1 DEF IInv, TypeOK, SlotRecord
    <3> QED BY <3>1 DEF SlotStates, IsAvailable, Taken
  <2>5. \A r \in OwnersOf(s) :
           slot[s].state \in Taken /\ TaskPartition[req[r].hw_task] = SlotPartition[s]
    BY <2>2, <2>3 DEF Placed, InItsPlace
  <2>6. CASE IsAvailable(s)
    <3>1. OwnersOf(s) = {}
      BY <2>4, <2>5, <2>6
    <3> QED BY <2>6, <3>1, FS_EmptySet
  <2>7. CASE ~IsAvailable(s)
    <3>1. PICK r \in Waiters : req[r].slot = s
      BY <2>2, <2>4, <2>7 DEF Placed, SlotsMatched
    <3>2. OwnersOf(s) = {r}
      BY <2>2, <2>3, <3>1 DEF Placed, SlotsMatched
    <3>3. Cardinality({r}) = 1
      BY FS_Singleton
    <3>4. r \notin ToSet(part_queues[SlotPartition[s]])
      <4>1. SlotPartition[s] \in Partitions
        OBVIOUS
      <4>2. \A i \in 1..Len(part_queues[SlotPartition[s]]) :
               req[part_queues[SlotPartition[s]][i]].slot = NULL
        BY <2>2, <4>1 DEF Placed, PartitionsHold
      <4>3. DOMAIN part_queues[SlotPartition[s]] = 1..Len(part_queues[SlotPartition[s]])
        BY <1>1, <4>1 DEF IInv, TypeOK
      <4> QED BY <2>3, <3>1, <4>2, <4>3 DEF ToSet
    <3> QED BY <2>5, <2>7, <3>2, <3>3, <3>4
  <2> QED BY <2>6, <2>7
<1> QED BY <1>1, Invariance, Ownership, PTL

\* A slot that executes runs the module its request asked for, coupled and watched.
THEOREM ExecutionIsSound == ASSUME RaceFree PROVE Spec => []ExecutionSound
<1> USE ConstantsOK
<1>1. ASSUME IInv, Owned PROVE ExecutionSound
  <2>1. SUFFICES ASSUME Up, NEW s \in Slots
                 PROVE  IF slot[s].state = "EXEC"
                        THEN /\ slot[s].exec_req # NULL
                             /\ hw[s].fabric = req[slot[s].exec_req].hw_task
                             /\ hw[s].coupled
                             /\ timer[s].state # "off"
                             /\ timer[s].exec_req = slot[s].exec_req
                             /\ hw[s].busy # hw[s].irq
                        ELSE timer[s].state = "off"
    BY DEF ExecutionSound
  <2>2. Agreed(slot, timer, hw, devcfg, req, Waiters)
    BY <1>1, <2>1 DEF Owned
  <2>3. SlotAgrees(slot[s], timer[s], hw[s], devcfg)
    BY <2>2 DEF Agreed
  <2>4. CASE slot[s].state = "EXEC"
    <3> DEFINE r == slot[s].exec_req
    <3>1. r \in Waiters /\ req[r].slot = s
      BY <1>1, <2>1, <2>4, ExecutingOwner
    <3>2. r # NULL /\ s # NULL
      BY <3>1 DEF Waiters
    <3>3. slot[s].hw_task = req[r].hw_task
      <4>1. TaskAgrees(r, slot, hw, req)
        BY <2>2, <3>1 DEF Agreed
      <4> QED BY <2>4, <3>1, <3>2, <4>1 DEF TaskAgrees
    <3> QED BY <2>3, <2>4, <3>2, <3>3 DEF SlotAgrees
  <2>5. CASE slot[s].state # "EXEC"
    BY <2>3, <2>5 DEF SlotAgrees
  <2> QED BY <2>4, <2>5
<1> QED BY <1>1, Invariance, Ownership, PTL

\* Skipping a reconfiguration is safe: an idle slot, or one reserved to a request that
\* skips, holds the module its record names, standing still behind an open decoupler.
THEOREM SkippingIsSound == ASSUME RaceFree PROVE Spec => []SkipSound
<1>1. ASSUME IInv, Owned PROVE SkipSound
  <2>1. SUFFICES ASSUME Up, NEW s \in Slots,
                        slot[s].state = "IDLE" \/
                        (slot[s].state = "RSRV" /\ \E r \in OwnersOf(s) : req[r].skip_rcfg)
                 PROVE  HoldsModule(slot[s], hw[s]) /\ ~hw[s].irq
    BY DEF SkipSound, HoldsModule
  <2>2. Agreed(slot, timer, hw, devcfg, req, Waiters)
    BY <1>1, <2>1 DEF Owned
  <2>3. SlotAgrees(slot[s], timer[s], hw[s], devcfg)
    BY <2>2 DEF Agreed
  <2>4. ~hw[s].irq
    BY <2>1, <2>3 DEF SlotAgrees
  <2>5. CASE slot[s].state = "IDLE"
    BY <2>3, <2>4, <2>5 DEF SlotAgrees
  <2>6. CASE slot[s].state = "RSRV" /\ \E r \in OwnersOf(s) : req[r].skip_rcfg
    <3>1. PICK r \in Waiters : req[r].slot = s /\ req[r].skip_rcfg
      BY <2>6 DEF OwnersOf, Waiters
    <3>2. TaskAgrees(r, slot, hw, req) /\ s # NULL
      BY <2>2, ConstantsOK DEF Agreed
    <3> QED BY <2>4, <2>6, <3>1, <3>2 DEF TaskAgrees
  <2> QED BY <2>1, <2>5, <2>6
<1> QED BY <1>1, Invariance, Ownership, PTL

\* No slot of a partition stays free while a request waits in its queue.
THEOREM NoSlotWasted == ASSUME RaceFree PROVE Spec => []WorkConserving
<1>1. ASSUME IInv, Owned PROVE WorkConserving
  <2>1. SUFFICES ASSUME Up, NEW p \in Partitions, part_queues[p] # <<>>,
                        NEW s \in AvailableSlots(p)
                 PROVE  FALSE
    BY DEF WorkConserving
  <2>2. Conserving(slot, part_queues)
    BY <1>1, <2>1 DEF Owned
  <2> QED BY <2>1, <2>2 DEF AvailableSlots, IsAvailable, Conserving, Taken
<1> QED BY <1>1, Invariance, Ownership, PTL

\* How often a queue without repetitions holds r.
LEMMA CountInQueue ==
    ASSUME NEW B, NEW q \in Seq(B), Distinct(q), NEW r
    PROVE  Cardinality({i \in 1..Len(q) : q[i] = r}) = IF Member(r, q) THEN 1 ELSE 0
<1> DEFINE S == {i \in 1..Len(q) : q[i] = r}
<1>1. CASE Member(r, q)
  <2>1. PICK i \in 1..Len(q) : q[i] = r
    BY <1>1 DEF Member
  <2>2. S = {i}
    BY <2>1 DEF Distinct
  <2>3. Cardinality({i}) = 1
    BY FS_Singleton
  <2> QED BY <1>1, <2>2, <2>3
<1>2. CASE ~Member(r, q)
  <2>1. S = {}
    BY <1>2 DEF Member
  <2> QED BY <1>2, <2>1, FS_EmptySet
<1> QED BY <1>1, <1>2

\* The places of one request, term by term.
LEMMA CountPlaces ==
    ASSUME IInv, Owned, Up, NEW r \in Requests
    PROVE  PlacesOf(r) = IF Waiting(r) THEN 1 ELSE 0
<1> USE ConstantsOK
<1> DEFINE inPartition == UNION {{p} \X {i \in 1..Len(part_queues[p]) : part_queues[p][i] = r} :
                                   p \in Partitions}
           s == req[r].slot
           d == TaskPartition[req[r].hw_task]
<1>1. Placed(slot, devcfg, req, part_queues, fri_queue, Waiters)
  BY DEF Owned
<1>2. /\ fri_queue \in Seq(Waiters) /\ Distinct(fri_queue)
      /\ \A i \in 1..Len(fri_queue) : req[fri_queue[i]].slot # NULL
           /\ slot[req[fri_queue[i]].slot].state \in {"RSRV", "READY"}
  BY <1>1 DEF Placed, FriHolds
<1>3. Cardinality({i \in 1..Len(fri_queue) : fri_queue[i] = r})
        = IF Member(r, fri_queue) THEN 1 ELSE 0
  BY <1>2, CountInQueue
<1>4. \A p \in Partitions :
         /\ part_queues[p] \in Seq(Waiters) /\ Distinct(part_queues[p])
         /\ \A i \in 1..Len(part_queues[p]) : req[part_queues[p][i]].slot = NULL
              /\ TaskPartition[req[part_queues[p][i]].hw_task] = p
  BY <1>1 DEF Placed, PartitionsHold
<1>5. IsProgramming(r) => Waiting(r) /\ s # NULL /\ slot[s].state = "RCFG"
  BY <1>1 DEF Placed, DeviceHolds, IsProgramming, Waiters
<1>6. \A u \in Executing(r) : Waiting(r) /\ u = s /\ slot[s].state = "EXEC" /\ u \in Slots
  BY ExecutingOwner DEF Executing, Waiters
<1>7. Member(r, fri_queue) =>
         Waiting(r) /\ s # NULL /\ slot[s].state \in {"RSRV", "READY"}
  <2>1. ASSUME NEW i \in 1..Len(fri_queue), fri_queue[i] = r PROVE Waiting(r)
    BY <1>2, <2>1, ElementOfSeq DEF Waiters
  <2> QED BY <1>2, <2>1 DEF Member
<1>8. \A p \in Partitions : Member(r, part_queues[p]) => Waiting(r) /\ s = NULL /\ d = p
  <2>1. ASSUME NEW p \in Partitions, NEW i \in 1..Len(part_queues[p]), part_queues[p][i] = r
        PROVE  Waiting(r)
    <3>1. part_queues[p][i] \in Waiters
      BY <1>4, ElementOfSeq
    <3> QED BY <2>1, <3>1 DEF Waiters
  <2> QED BY <1>4, <2>1 DEF Member
<1>9. Cardinality(inPartition) = IF \E p \in Partitions : Member(r, part_queues[p]) THEN 1 ELSE 0
  <2>1. CASE \E p \in Partitions : Member(r, part_queues[p])
    <3>1. PICK p \in Partitions : Member(r, part_queues[p])
      BY <2>1
    <3>2. PICK i \in 1..Len(part_queues[p]) : part_queues[p][i] = r
      BY <3>1 DEF Member
    <3>3. \A u \in Partitions : \A j \in 1..Len(part_queues[u]) :
             part_queues[u][j] = r => u = p /\ j = i
      <4>1. ASSUME NEW u \in Partitions, NEW j \in 1..Len(part_queues[u]), part_queues[u][j] = r
            PROVE  u = p /\ j = i
        <5>1. Member(r, part_queues[u])
          BY <4>1 DEF Member
        <5>2. u = p
          BY <1>8, <3>1, <5>1
        <5> QED BY <1>4, <3>2, <4>1, <5>2 DEF Distinct
      <4> QED BY <4>1
    <3>4. inPartition = {<<p, i>>}
      BY <3>2, <3>3
    <3>5. Cardinality({<<p, i>>}) = 1
      BY FS_Singleton
    <3> QED BY <2>1, <3>4, <3>5
  <2>2. CASE ~\E p \in Partitions : Member(r, part_queues[p])
    <3>1. inPartition = {}
      BY <2>2 DEF Member
    <3> QED BY <2>2, <3>1, FS_EmptySet
  <2> QED BY <2>1, <2>2
<1>10. Cardinality(Executing(r)) = IF Executing(r) # {} THEN 1 ELSE 0
  <2>1. CASE Executing(r) # {}
    <3>1. Executing(r) = {s}
      BY <1>6, <2>1
    <3>2. Cardinality({s}) = 1
      BY FS_Singleton
    <3> QED BY <2>1, <3>1, <3>2
  <2> QED BY <2>1, FS_EmptySet
<1>11. PlacesOf(r) = (IF Member(r, fri_queue) THEN 1 ELSE 0)
                   + (IF \E p \in Partitions : Member(r, part_queues[p]) THEN 1 ELSE 0)
                   + (IF IsProgramming(r) THEN 1 ELSE 0)
                   + (IF Executing(r) # {} THEN 1 ELSE 0)
  BY <1>3, <1>9, <1>10 DEF PlacesOf
<1>12. CASE ~Waiting(r)
  BY <1>5, <1>6, <1>7, <1>8, <1>11, <1>12
<1>13. CASE Waiting(r)
  <2>1. InItsPlace(r, slot, devcfg, req, part_queues, fri_queue)
    BY <1>1, <1>13 DEF Placed, Waiters
  <2>2. CASE s = NULL
    <3>1. Member(r, part_queues[d]) /\ d \in Partitions
      BY <2>1, <2>2 DEF InItsPlace, IInv, TypeOK, RequestRecord
    <3>2. NULL \notin Slots
      OBVIOUS
    <3> QED BY <1>5, <1>6, <1>7, <1>11, <1>13, <2>2, <3>1, <3>2
  <2>3. CASE s # NULL
    <3>1. s \in Slots /\ slot[s].state \in Taken /\ slot[s].state # "READY"
      BY <2>1, <2>3 DEF InItsPlace, IInv, TypeOK, RequestRecord
    <3>2. CASE slot[s].state = "RSRV"
      <4>1. Member(r, fri_queue)
        BY <2>1, <2>3, <3>2 DEF InItsPlace
      <4> QED BY <1>5, <1>6, <1>8, <1>11, <1>13, <2>3, <3>2, <4>1
    <3>3. CASE slot[s].state = "RCFG"
      <4>1. IsProgramming(r)
        BY <2>1, <2>3, <3>3 DEF InItsPlace, IsProgramming
      <4> QED BY <1>6, <1>7, <1>8, <1>11, <1>13, <2>3, <3>3, <4>1
    <3>4. CASE slot[s].state = "EXEC"
      <4>1. s \in Executing(r)
        BY <2>1, <2>3, <3>1, <3>4 DEF InItsPlace, Executing
      <4> QED BY <1>5, <1>7, <1>8, <1>11, <1>13, <2>3, <3>4, <4>1
    <3> QED BY <3>1, <3>2, <3>3, <3>4 DEF Taken
  <2> QED BY <2>2, <2>3
<1> QED BY <1>12, <1>13

\* No request is lost or held twice: one whose client waits is in exactly one of its
\* partition's queue, the FRI queue, the device and an executing slot, others in none.
THEOREM RequestsInOnePlace == ASSUME RaceFree PROVE Spec => []OnePlace
<1>1. IInv /\ Owned => OnePlace
  BY CountPlaces DEF OnePlace
<1> QED BY <1>1, Invariance, Ownership, PTL
=============================================================================
