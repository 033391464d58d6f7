-------------------------- MODULE FredStartupFrees --------------------------
(***************************************************************************)
(* The server while it goes down, by a failed step of start-up or by a     *)
(* shutdown: the proofs that no free needs what an earlier one took and    *)
(* that nothing is left, but for what the code is known to lose. They rest *)
(* on the chain of frees still to be done: every live object is in it or   *)
(* excused, and each of its elements may be freed before all that follow.  *)
(***************************************************************************)
EXTENDS FredStartupProofs

-----------------------------------------------------------------------------
(* The ways down. Once the server frees, every live object is in the chain  *)
(* or excused, and the chain is in an order that is safe.                   *)

\* The front end is in the table when the error chain frees it as well.
Twice(table) == \E k \in DOMAIN table : table[k].handler = FrontEnd

\* The pairs whose first may be freed before the second; with the front end in the
\* table, whatever it is made of may be freed twice.
OrderIn(table) == SafeOrder \cup (IF Twice(table) THEN FrontOnly \X FrontOnly ELSE {})

\* Freed, or about to be: the objects of a destructor under way.
GoingIn(m, c, y) == m[y] = "freed" \/ (y \in ToSet(c) /\ m[y] = "live")
AllOrNoneIn(m, xs) == (\A x \in xs : m[x] # "none") \/ (\A x \in xs : m[x] = "none")

LastLoadIn(m, i, s) ==
    /\ m[HwTask(i)] # "none"
    /\ \A r \in SlotNumbers : r # s => (m[Bits(i, r)] = "none" <=> r > s)
    /\ \A j \in Lines(TaskFiles) : j > i => m[HwTask(j)] = "none"
    /\ m[FrontEnd] = "none"

\* What the frees under way leave (see NothingLeft): with memory m, when c is to be freed.
Excused(m, c, x) ==
    LET y == Root(x) IN
    \/ y[1] \in {"slot", "timer"} /\ y[3] > MaxSlots - 1
    \/ y[1] = "slot" /\ m[y] = "live" /\ y \notin ToSet(c) /\ m[Timer(y[2], y[3])] = "none"
    \/ /\ mode = "rcfg_test" /\ y[1] = "slot" /\ x = Sockets(Driver(y))
       /\ GoingIn(m, c, y) /\ ~InPartition(y[2], y[3])
    \/ y = FrontEnd /\ x # y /\ GoingIn(m, c, y) /\ m[Signals] = "none"
    \/ /\ x[1] = "client"
       /\ Len(Registrations) + x[2] > MaxSources
       /\ \A k \in (x[2] + 1)..MaxClients : m[Client(k)] = "none"
    \/ x = ArchTokens /\ AllOrNoneIn(m, ArchObjects)
    \/ x = TaskTokens /\ AllOrNoneIn(m, TaskObjects)
    \/ x[1] = "file" /\ LastLoadIn(m, x[2], x[3])
    \/ /\ x[1] = "mapping" /\ LastLoadIn(m, x[2], x[3])
       /\ GoingIn(m, c, Bits(x[2], x[3]))

\* With memory m the chain c frees, in a safe order, every object that is not excused, and
\* only what may follow those freed already.
WayDown(m, c, table) ==
    /\ c \in Seq(Objects)
    /\ \A x \in Objects : m[x] = "live" => x \in ToSet(c) \/ Excused(m, c, x)
    /\ Pairwise(c, OrderIn(table))
    /\ \A a \in Objects : m[a] = "freed" => \A b \in ToSet(c) : <<a, b>> \in OrderIn(table)
    /\ \A i \in Lines(TaskFiles) : HwTask(i) \in ToSet(c) => task_partition[i] # 0

\* The invariant of a server that goes down.
DownInv ==
    /\ chain \in Seq(Objects)
    /\ step[1] \in {"freeing", "exited"} => WayDown(mem, chain, sources)
    /\ step[1] = "exited" => chain = <<>>
    /\ FreesAreSafe

-----------------------------------------------------------------------------
(* Chains of whole objects: a chain frees everything that the roots R       *)
(* acquired.                                                               *)

\* Objects that are no part of another.
Roots == {r \in Objects : r \notin Parts}
BuffCtl == <<"buffctl">>
Family(R) == UNION {ToSet(Acquired(r)) : r \in R}

\* All that a has acquired may be freed before what b has.
RootBefore(a, b, table) ==
    \/ /\ a # b
       /\ a = BuffCtl => b[1] \notin {"bits", "client", "front"}
       /\ b[1] = "bits" => a # HwTask(b[2])
    \/ Twice(table) /\ a \in {BuffCtl, FrontEnd} /\ b = FrontEnd

Before(Q, R, table) == \A a \in Q : \A b \in R : RootBefore(a, b, table)

LEMMA FamilyIs ==
    ASSUME NEW r \in Roots
    PROVE  /\ ListsOK(r) /\ r \in ToSet(Acquired(r)) /\ Root(r) = r
           /\ \A x \in ToSet(Acquired(r)) : x \in Objects /\ Root(x) = r /\ (x = r \/ x \in Parts)
<1>1. ListsOK(r)
  BY Families DEF Roots
<1>2. \A x \in ToSet(Acquired(r)) : x \in Objects /\ Root(x) = r
  BY <1>1 DEF ListsOK, IsList, ToSet
<1>3. \A x \in ToSet(Acquired(r)) : x = r \/ x \in Parts
  BY <1>2, RootIs
<1>4. Root(r) = r
  BY RootIs DEF Roots
<1> QED
  BY <1>1, <1>2, <1>3, <1>4 DEF ListsOK

LEMMA FrontIs ==
    /\ FrontEnd \in Roots /\ BuffCtl \in Roots /\ FrontEnd # BuffCtl
    /\ ToSet(Acquired(FrontEnd)) \subseteq FrontOnly
    /\ Root(FrontData) = FrontEnd /\ Root(Fd(BuffCtl)) = BuffCtl
    /\ Fd(BuffCtl) \in FrontOnly
    /\ ToSet(Acquired(BuffCtl)) = {BuffCtl, Fd(BuffCtl)}
<1>1. FrontEnd[1] = "front" /\ BuffCtl[1] = "buffctl" /\ FrontEnd \in Objects /\ BuffCtl \in Objects
  BY WholeObjects, KindIs DEF BuffCtl, OneOfAKind
<1>2. FrontEnd \in Roots /\ BuffCtl \in Roots
  BY <1>1, RootIs DEF Roots
<1>3. Acquired(FrontEnd) = <<FrontEnd>> \o FrontAcquired
  BY <1>1 DEF Acquired
<1>4. FrontAcquired \in {<<Fd(FrontEnd)>>, <<FrontData, Sockets(FrontEnd)>>}
  BY DEF FrontAcquired
<1>5. ToSet(Acquired(FrontEnd)) \subseteq FrontOnly
  <2> DEFINE F == Fd(FrontEnd)
             D == FrontData
             S == Sockets(FrontEnd)
             r == FrontEnd
  <2>1. {r, F, D, S} \subseteq FrontOnly
    BY DEF FrontOnly
  <2>2. Acquired(r) = <<r>> \o <<F>> \/ Acquired(r) = <<r>> \o <<D, S>>
    BY <1>3, <1>4
  <2> HIDE DEF r, F, D, S
  <2>3. ToSet(<<r>> \o <<F>>) = ToSet(<<r>>) \cup ToSet(<<F>>)
        /\ ToSet(<<r>> \o <<D, S>>) = ToSet(<<r>>) \cup ToSet(<<D, S>>)
    <3>1. <<r>> \in Seq({r, F, D, S}) /\ <<F>> \in Seq({r, F, D, S}) /\ <<D, S>> \in Seq({r, F, D, S})
      OBVIOUS
    <3> QED
      BY <3>1, ConcatSet, ZenonT(40)
  <2>4. ToSet(<<r>>) = {r} /\ ToSet(<<F>>) = {F} /\ ToSet(<<D, S>>) = {D, S}
    BY DEF ToSet
  <2>5. ToSet(Acquired(r)) \subseteq FrontOnly
    BY <2>1, <2>2, <2>3, <2>4
  <2> QED
    BY <2>5 DEF r
<1>6. FrontData \in Parts /\ FrontData[2] = FrontEnd /\ Fd(BuffCtl) \in Parts /\ Fd(BuffCtl)[2] = BuffCtl
  BY PartIs DEF Parts, FrontData, Fd, BuffCtl
<1>7. Root(FrontData) = FrontEnd /\ Root(Fd(BuffCtl)) = BuffCtl
  BY <1>2, <1>6, PartOf, FamilyIs
<1>8. BuffCtl \in FdOwners
  BY DEF FdOwners, BuffCtl
<1>9. ToSet(Acquired(BuffCtl)) = {BuffCtl, Fd(BuffCtl)}
  BY <1>1, <1>8, WithFdLists
<1> QED
  BY <1>1, <1>2, <1>5, <1>7, <1>9 DEF FrontOnly, BuffCtl

LEMMA FamiliesBefore ==
    ASSUME NEW a \in Roots, NEW b \in Roots, NEW table, RootBefore(a, b, table),
           NEW x \in ToSet(Acquired(a)), NEW y \in ToSet(Acquired(b))
    PROVE  <<x, y>> \in OrderIn(table)
<1>1. x \in Objects /\ Root(x) = a /\ (x = a \/ x \in Parts)
      /\ y \in Objects /\ Root(y) = b /\ (y = b \/ y \in Parts)
  BY FamilyIs
<1>2. y \in Parts => y[1] = "part"
  BY <1>1, RootIs
<1>3. x \in Parts => x[1] = "part"
  BY <1>1, RootIs
<1>4. ReadsBuffctl(y) => b[1] \in {"bits", "client", "front"}
  BY <1>1, <1>2, FrontIs, KindIs DEF ReadsBuffctl
<1>5. x = Fd(<<"buffctl">>) => a = BuffCtl
  BY <1>1, FrontIs DEF BuffCtl
<1>6. y[1] = "bits" => y = b
  BY <1>1, <1>2
<1>7. x[1] = "task" => x = a
  BY <1>1, <1>3
<1>8. CASE /\ a # b
           /\ a = BuffCtl => b[1] \notin {"bits", "client", "front"}
           /\ b[1] = "bits" => a # HwTask(b[2])
  <2>1. x = Fd(<<"buffctl">>) => ~ReadsBuffctl(y)
    BY <1>4, <1>5, <1>8
  <2>2. y[1] = "bits" => x # HwTask(y[2])
    BY <1>6, <1>7, <1>8, KindIs
  <2>3. <<x, y>> \in SafeOrder
    BY <1>1, <1>8, <2>1, <2>2, Apart
  <2> QED
    BY <2>3 DEF OrderIn
<1>9. CASE Twice(table) /\ a \in {BuffCtl, FrontEnd} /\ b = FrontEnd
  <2>1. y \in FrontOnly
    BY <1>9, FrontIs
  <2>2. x \in FrontOnly \/ x = BuffCtl
    BY <1>9, FrontIs
  <2>3. CASE x \in FrontOnly
    BY <1>9, <2>1, <2>3 DEF OrderIn
  <2>4. CASE x = BuffCtl
    <3>1. x # Fd(<<"buffctl">>) /\ a = x
      BY <1>1, <1>3, <2>4, FrontIs, KindIs, PartIs, FamilyIs DEF BuffCtl, Fd
    <3>2. y[1] # "bits" /\ a # b
      BY <1>6, <1>9, <2>4, <3>1, FrontIs, KindIs
    <3>3. <<x, y>> \in SafeOrder
      BY <1>1, <3>1, <3>2, Apart
    <3> QED
      BY <3>3 DEF OrderIn
  <2> QED
    BY <2>2, <2>3, <2>4
<1> QED
  BY <1>8, <1>9 DEF RootBefore

\* A chain of all that the roots R acquired.
IsWay(c, R, table) == R \in SUBSET Roots /\ IsList(c, Family(R), OrderIn(table))

LEMMA SafeLists ==
    ASSUME NEW s, NEW S, NEW table, IsList(s, S, SafeOrder)
    PROVE  IsList(s, S, OrderIn(table))
<1>1. SafeOrder \subseteq OrderIn(table)
  BY DEF OrderIn
<1> QED
  BY <1>1 DEF IsList, Pairwise

LEMMA FamilyOf ==
    ASSUME NEW Q \in SUBSET Roots, NEW R \in SUBSET Roots
    PROVE  /\ Family(Q \cup R) = Family(Q) \cup Family(R)
           /\ Family({}) = {}
           /\ \A r \in Roots : Family({r}) = ToSet(Acquired(r))
           /\ \A x : x \in Family(R) <=> \E r \in R : x \in ToSet(Acquired(r))
  BY DEF Family

LEMMA FamilyHas ==
    ASSUME NEW R \in SUBSET Roots, NEW x \in Objects
    PROVE  /\ x \in Family(R) <=> Root(x) \in R /\ x \in ToSet(Acquired(Root(x)))
           /\ x \in Roots => (x \in Family(R) <=> x \in R)
<1>1. x \in Family(R) <=> \E r \in R : x \in ToSet(Acquired(r))
  BY DEF Family
<1>2. \A r \in R : x \in ToSet(Acquired(r)) => Root(x) = r
  BY FamilyIs
<1>3. x \in Roots => Root(x) = x /\ x \in ToSet(Acquired(x))
  BY FamilyIs
<1> QED
  BY <1>1, <1>2, <1>3

LEMMA JoinedLists ==
    ASSUME NEW table, NEW Q \in SUBSET Roots, NEW R \in SUBSET Roots, Before(Q, R, table),
           NEW s, NEW S, IsList(s, S, OrderIn(table)), S \subseteq Family(Q),
           NEW t, NEW T, IsList(t, T, OrderIn(table)), T \subseteq Family(R)
    PROVE  IsList(s \o t, S \cup T, OrderIn(table))
<1>1. ASSUME NEW x \in S, NEW y \in T PROVE <<x, y>> \in OrderIn(table)
  <2>1. PICK a \in Q : x \in ToSet(Acquired(a))
    BY FamilyOf
  <2>2. PICK b \in R : y \in ToSet(Acquired(b))
    BY FamilyOf
  <2>3. a \in Roots /\ b \in Roots /\ RootBefore(a, b, table)
    BY DEF Before
  <2> QED
    BY <2>1, <2>2, <2>3, FamiliesBefore
<1> QED
  BY <1>1, ConcatList

LEMMA NoWay ==
    ASSUME NEW table
    PROVE  IsWay(<<>>, {}, table)
<1>1. Family({}) = {}
  BY DEF Family
<1> QED
  BY <1>1, EmptyList DEF IsWay

LEMMA OneWay ==
    ASSUME NEW table, NEW r \in Roots
    PROVE  IsWay(Frees(r), {r}, table)
<1>1. IsList(Frees(r), ToSet(Acquired(r)), SafeOrder)
  BY FamilyIs DEF ListsOK
<1>2. Family({r}) = ToSet(Acquired(r))
  BY FamilyOf
<1> QED
  BY <1>1, <1>2, SafeLists DEF IsWay

\* Roots that acquire nothing else.
Alone(r) == r \in Roots /\ r \notin Slots /\ r \notin FdOwners /\ r # <<"devcfg">>

LEMMA AloneWay ==
    ASSUME NEW table, NEW r, Alone(r)
    PROVE  IsWay(<<r>>, {r}, table) /\ r \in Roots /\ ToSet(Acquired(r)) = {r}
<1>1. r \in Objects /\ r \notin Parts /\ r \in Roots
  BY DEF Alone, Roots
<1>2. Frees(r) = <<r>> /\ Acquired(r) = <<r>>
  BY <1>1, AloneLists DEF Alone
<1>3. ToSet(<<r>>) = {r}
  BY DEF ToSet
<1> QED
  BY <1>1, <1>2, <1>3, OneWay

LEMMA JoinedWays ==
    ASSUME NEW table, NEW s, NEW Q, IsWay(s, Q, table), NEW t, NEW R, IsWay(t, R, table),
           Before(Q, R, table)
    PROVE  IsWay(s \o t, Q \cup R, table)
<1>1. Q \in SUBSET Roots /\ R \in SUBSET Roots
      /\ IsList(s, Family(Q), OrderIn(table)) /\ IsList(t, Family(R), OrderIn(table))
  BY DEF IsWay
<1>2. IsList(s \o t, Family(Q) \cup Family(R), OrderIn(table))
  BY <1>1, JoinedLists
<1>3. Family(Q \cup R) = Family(Q) \cup Family(R)
  BY <1>1, FamilyOf
<1> QED
  BY <1>1, <1>2, <1>3 DEF IsWay

LEMMA FlattenWays ==
    ASSUME NEW table, NEW n \in Nat, NEW ss, DOMAIN ss = 1..n, ss = [i \in 1..n |-> ss[i]], NEW RR,
           \A i \in 1..n : IsWay(ss[i], RR[i], table),
           \A i, j \in 1..n : i < j => Before(RR[i], RR[j], table)
    PROVE  IsWay(FlattenSeq(ss), UNION {RR[i] : i \in 1..n}, table)
<1> DEFINE O == OrderIn(table)
           U == UNION {RR[i] : i \in 1..n}
<1>1. \A i \in 1..n : /\ RR[i] \in SUBSET Roots
                      /\ ss[i] \in Seq(Objects) /\ ToSet(ss[i]) = Family(RR[i]) /\ Pairwise(ss[i], O)
  BY DEF IsWay, IsList
<1>2. ss \in Seq(Seq(Objects)) /\ Len(ss) = n
  <2>1. ss \in [1..n -> Seq(Objects)]
    BY <1>1
  <2> QED
    BY <2>1, SeqDef
<1>3. \A i, j \in 1..Len(ss) : i < j => \A a \in ToSet(ss[i]), b \in ToSet(ss[j]) : <<a, b>> \in O
  <2> SUFFICES ASSUME NEW i \in 1..n, NEW j \in 1..n, i < j, NEW x \in Family(RR[i]),
                      NEW y \in Family(RR[j])
               PROVE  <<x, y>> \in O
    BY <1>1, <1>2
  <2>1. PICK a \in RR[i] : x \in ToSet(Acquired(a))
    BY <1>1, FamilyOf
  <2>2. PICK b \in RR[j] : y \in ToSet(Acquired(b))
    BY <1>1, FamilyOf
  <2>3. a \in Roots /\ b \in Roots /\ RootBefore(a, b, table)
    BY <1>1 DEF Before
  <2> QED
    BY <2>1, <2>2, <2>3, FamiliesBefore
<1>4. FlattenSeq(ss) \in Seq(Objects) /\ ToSet(FlattenSeq(ss)) = UNION {ToSet(ss[i]) : i \in 1..Len(ss)}
  BY <1>2, FlattenHolds
<1>5. Pairwise(FlattenSeq(ss), O)
  <2>1. \A i \in 1..Len(ss) : Pairwise(ss[i], O)
    BY <1>1, <1>2
  <2> HIDE DEF O
  <2> QED
    BY <1>2, <1>3, <2>1, FlattenPairwise
<1>6. U \in SUBSET Roots
  BY <1>1
<1>7. UNION {ToSet(ss[i]) : i \in 1..Len(ss)} = Family(U)
  <2>1. ASSUME NEW i \in 1..n, NEW x \in ToSet(ss[i]) PROVE x \in Family(U)
    <3>1. PICK r \in RR[i] : x \in ToSet(Acquired(r))
      BY <1>1, FamilyOf, SMTT(30)
    <3>2. r \in U
      OBVIOUS
    <3> QED
      BY <3>1, <3>2 DEF Family
  <2>2. ASSUME NEW x \in Family(U) PROVE \E i \in 1..n : x \in ToSet(ss[i])
    <3>1. PICK r \in U : x \in ToSet(Acquired(r))
      BY DEF Family
    <3>2. PICK i \in 1..n : r \in RR[i]
      OBVIOUS
    <3>3. x \in Family(RR[i])
      BY <3>1, <3>2 DEF Family
    <3> QED
      BY <1>1, <3>3
  <2> HIDE DEF U
  <2> QED
    BY <1>2, <2>1, <2>2
<1> QED
  BY <1>4, <1>5, <1>6, <1>7 DEF IsWay, IsList

-----------------------------------------------------------------------------
(* The segments of the chains. *)

LEMMA EasilyBefore ==
    ASSUME NEW a, NEW b, NEW table, a # b, a # BuffCtl, b[1] # "bits"
    PROVE  RootBefore(a, b, table)
  BY DEF RootBefore

\* Roots that acquire nothing else, one after the other.
LEMMA AloneWays ==
    ASSUME NEW table, NEW n \in Nat, NEW s, DOMAIN s = 1..n, s = [i \in 1..n |-> s[i]],
           \A i \in 1..n : Alone(s[i]),
           \A i, j \in 1..n : i < j => RootBefore(s[i], s[j], table)
    PROVE  IsWay(s, {s[i] : i \in 1..n}, table)
<1> DEFINE U == {s[i] : i \in 1..n}
<1>1. \A i \in 1..n : s[i] \in Roots /\ ToSet(Acquired(s[i])) = {s[i]} /\ s[i] \in Objects
  BY AloneWay DEF Roots
<1>2. s \in Seq(Objects) /\ Len(s) = n
  <2>1. s \in [1..n -> Objects]
    BY <1>1
  <2> QED
    BY <2>1, SeqDef
<1>3. ToSet(s) = U
  BY <1>2 DEF ToSet
<1>4. Pairwise(s, OrderIn(table))
  <2>1. ASSUME NEW i \in 1..n, NEW j \in 1..n, i < j PROVE <<s[i], s[j]>> \in OrderIn(table)
    BY <1>1, <2>1, FamiliesBefore
  <2> QED
    BY <1>2, <2>1 DEF Pairwise
<1>5. U \in SUBSET Roots /\ \A r \in U : ToSet(Acquired(r)) = {r}
  BY <1>1
<1>6. Family(U) = U
  <2> HIDE DEF U
  <2> QED
    BY <1>5 DEF Family
<1> QED
  BY <1>2, <1>3, <1>4, <1>5, <1>6 DEF IsWay, IsList

LayoutTyped ==
    /\ FilesGiven /\ CountedUp /\ PlacedWell
    /\ slots_count \in [Lines(ArchFiles) -> 0..(MaxSlots - 1)]
    /\ task_partition \in [Lines(TaskFiles) -> 0..Len(ArchLines)]

SlotPair(p, s) == {Slot(p, s), Timer(p, s)}
PartitionRoots(p) == (UNION {SlotPair(p, s) : s \in 1..slots_count[p]}) \cup {Partition(p)}
TaskRoots(i) == IF task_partition[i] = 0 THEN {} ELSE {Bits(i, s) : s \in SlotsOf(i)} \cup {HwTask(i)}
LayoutRoots ==
    ((UNION {PartitionRoots(p) : p \in PartitionNumbers}) \cup (UNION {TaskRoots(i) : i \in TaskNumbers}))
    \cup {<<"layout">>}

LEMMA LayoutCounts ==
    ASSUME LayoutTyped
    PROVE  /\ \A p \in PartitionNumbers :
                /\ slots_count[p] \in Nat /\ slots_count[p] <= SlotsWanted(p) /\ SlotsWanted(p) \in Nat
                /\ 1..slots_count[p] \subseteq SlotNumbers
                /\ 1..slots_count[p] \subseteq 1..SlotsWanted(p)
           /\ \A i \in Lines(TaskFiles) : task_partition[i] # 0 =>
                /\ task_partition[i] \in PartitionNumbers /\ i \in TaskNumbers
                /\ SlotsOf(i) \subseteq SlotNumbers /\ slots_count[task_partition[i]] \in Nat
           /\ Len(ArchLines) \in Nat /\ Len(TaskLines) \in Nat
           /\ PartitionNumbers \subseteq Lines(ArchFiles) /\ TaskNumbers \subseteq Lines(TaskFiles)
<1>1. /\ Len(ArchLines) \in Nat /\ Len(TaskLines) \in Nat
      /\ PartitionNumbers \subseteq Lines(ArchFiles) /\ TaskNumbers \subseteq Lines(TaskFiles)
  BY FileFacts DEF LayoutTyped
<1>2. ASSUME NEW p \in PartitionNumbers
      PROVE  /\ slots_count[p] \in Nat /\ slots_count[p] <= SlotsWanted(p) /\ SlotsWanted(p) \in Nat
             /\ 1..slots_count[p] \subseteq SlotNumbers
             /\ 1..slots_count[p] \subseteq 1..SlotsWanted(p)
  <2>1. SlotsWanted(p) \in Nat /\ 1..SlotsWanted(p) \subseteq SlotNumbers
    BY FileFacts DEF LayoutTyped
  <2>2. slots_count[p] \in 0..(MaxSlots - 1) /\ slots_count[p] <= SlotsWanted(p) /\ MaxSlots \in Nat
    BY <1>1, StartupConstantsOK DEF LayoutTyped, CountedUp
  <2>3. slots_count[p] \in Nat /\ 1..slots_count[p] \subseteq 1..SlotsWanted(p)
    BY <2>1, <2>2
  <2> QED
    BY <2>1, <2>2, <2>3
<1>3. ASSUME NEW i \in Lines(TaskFiles), task_partition[i] # 0
      PROVE  /\ task_partition[i] \in PartitionNumbers /\ i \in TaskNumbers
             /\ SlotsOf(i) \subseteq SlotNumbers /\ slots_count[task_partition[i]] \in Nat
  <2>1. i \in TaskNumbers
    BY <1>3 DEF LayoutTyped, PlacedWell
  <2>2. task_partition[i] \in 0..Len(ArchLines)
    BY DEF LayoutTyped
  <2>3. task_partition[i] \in PartitionNumbers
    BY <1>1, <1>3, <2>2 DEF PartitionNumbers
  <2> QED
    BY <1>2, <2>1, <2>3 DEF SlotsOf
<1> QED
  BY <1>1, <1>2, <1>3

LEMMA RootsMade ==
    ASSUME FilesGiven
    PROVE  /\ \A p \in Lines(ArchFiles) :
                /\ Alone(Partition(p))
                /\ \A s \in SlotNumbers : Slot(p, s) \in Roots /\ Timer(p, s) \in Roots
           /\ \A i \in Lines(TaskFiles) :
                Alone(HwTask(i)) /\ \A s \in SlotNumbers : Alone(Bits(i, s))
           /\ \A k \in {"scheduler", "logger", "layout"} : Alone(<<k>>)
           /\ \A k \in OneOfAKind : <<k>> \in Roots
           /\ Alone(ArchTokens) /\ Alone(TaskTokens)
           /\ FrontEnd \in Roots /\ Signals \in Roots
           /\ \A k \in 1..MaxClients : Alone(Client(k))
<1>1. \A x \in Objects : x[1] # "part" => x \in Roots
  BY RootIs DEF Roots
<1>2. \A x \in Objects :
      x[1] \in {"partition", "task", "bits", "scheduler", "logger", "layout", "tokens", "client"}
         => Alone(x)
  <2>1. ASSUME NEW x \in Objects,
               x[1] \in {"partition", "task", "bits", "scheduler", "logger", "layout", "tokens", "client"}
        PROVE  Alone(x)
    <3>1. x \in Roots
      BY <1>1, <2>1
    <3>2. x \notin Slots /\ x \notin FdOwners /\ x # <<"devcfg">>
      BY <2>1, OwnerKinds
    <3> QED
      BY <3>1, <3>2 DEF Alone
  <2> QED
    BY <2>1
<1>3. \A k \in {"scheduler", "logger", "layout"} : Alone(<<k>>)
  BY <1>2, WholeObjects, KindIs DEF OneOfAKind
<1>4. \A k \in OneOfAKind : <<k>> \in Roots
  BY <1>1, WholeObjects, KindIs DEF OneOfAKind
<1> QED
  BY <1>1, <1>2, <1>3, <1>4, WholeObjects, KindIs

LEMMA PartitionWay ==
    ASSUME LayoutTyped, NEW p \in PartitionNumbers, NEW table
    PROVE  IsWay(PartitionFrees(p), PartitionRoots(p), table)
<1> DEFINE n == slots_count[p]
           ss == [s \in 1..n |-> Frees(Slot(p, s)) \o Frees(Timer(p, s))]
           RR == [s \in 1..n |-> SlotPair(p, s)]
<1>1. n \in Nat /\ 1..n \subseteq SlotNumbers /\ p \in Lines(ArchFiles)
  BY LayoutCounts
<1>2. \A s \in 1..n : Slot(p, s) \in Roots /\ Timer(p, s) \in Roots
  BY <1>1, RootsMade DEF LayoutTyped
<1>3. ASSUME NEW s \in 1..n PROVE IsWay(ss[s], RR[s], table)
  <2>1. PICK a, b : a = Slot(p, s) /\ b = Timer(p, s)
    OBVIOUS
  <2>2. a \in Roots /\ b \in Roots /\ a[1] = "slot" /\ b[1] = "timer"
    BY <1>2, <2>1, KindIs
  <2>3. RootBefore(a, b, table)
    BY <2>2, EasilyBefore, KindIs DEF BuffCtl
  <2>4. IsWay(Frees(a) \o Frees(b), {a} \cup {b}, table)
    BY <2>2, <2>3, OneWay, JoinedWays DEF Before
  <2>5. ss[s] = Frees(a) \o Frees(b) /\ RR[s] = {a} \cup {b}
    BY <2>1 DEF SlotPair
  <2> QED
    BY <2>4, <2>5
<1>4. ASSUME NEW i \in 1..n, NEW j \in 1..n, i < j PROVE Before(RR[i], RR[j], table)
  <2> SUFFICES ASSUME NEW a \in SlotPair(p, i), NEW b \in SlotPair(p, j) PROVE RootBefore(a, b, table)
    BY DEF Before
  <2>1. a[1] \in {"slot", "timer"} /\ b[1] \in {"slot", "timer"} /\ a[3] = i /\ b[3] = j
    BY KindIs DEF SlotPair
  <2> QED
    BY <1>4, <2>1, EasilyBefore, KindIs DEF BuffCtl
<1>5. DOMAIN ss = 1..n /\ ss = [s \in 1..n |-> ss[s]]
  OBVIOUS
<1>6. UNION {RR[s] : s \in 1..n} = UNION {SlotPair(p, s) : s \in 1..n}
  OBVIOUS
<1>7. IsWay(FlattenSeq(ss), UNION {RR[s] : s \in 1..n}, table)
  <2> HIDE DEF ss, RR, n
  <2> QED
    BY <1>1, <1>3, <1>4, <1>5, FlattenWays
<1>8. PICK f, Q : f = FlattenSeq(ss) /\ Q = UNION {SlotPair(p, s) : s \in 1..n}
  OBVIOUS
<1>9. PartitionFrees(p) = f \o <<Partition(p)>> /\ PartitionRoots(p) = Q \cup {Partition(p)}
  BY <1>8 DEF PartitionFrees, PartitionRoots
<1>10. Before(Q, {Partition(p)}, table)
  <2>1. \A a \in Q : a[1] \in {"slot", "timer"}
    BY <1>8, KindIs DEF SlotPair
  <2>2. \A a \in Q : RootBefore(a, Partition(p), table)
    BY <2>1, EasilyBefore, KindIs DEF BuffCtl
  <2> QED
    BY <2>2 DEF Before
<1>11. IsWay(f, Q, table)
  BY <1>6, <1>7, <1>8
<1>12. IsWay(<<Partition(p)>>, {Partition(p)}, table)
  BY <1>1, RootsMade, AloneWay DEF LayoutTyped
<1> QED
  BY <1>9, <1>10, <1>11, <1>12, JoinedWays

LEMMA TaskWay ==
    ASSUME LayoutTyped, NEW i \in TaskNumbers, NEW table
    PROVE  IsWay(HwTaskFrees(i), TaskRoots(i), table)
<1>1. CASE task_partition[i] = 0
  BY <1>1, NoWay DEF HwTaskFrees, TaskRoots
<1>2. CASE task_partition[i] # 0
  <2> DEFINE n == slots_count[task_partition[i]]
             b == [s \in 1..n |-> Bits(i, s)]
  <2>1. n \in Nat /\ 1..n \subseteq SlotNumbers /\ i \in Lines(TaskFiles) /\ SlotsOf(i) = 1..n
    BY <1>2, LayoutCounts DEF SlotsOf
  <2>2. \A s \in 1..n : Alone(b[s]) /\ b[s] = Bits(i, s)
    BY <2>1, RootsMade DEF LayoutTyped
  <2>3. ASSUME NEW j \in 1..n, NEW k \in 1..n, j < k PROVE RootBefore(b[j], b[k], table)
    BY <2>3, KindIs DEF RootBefore, BuffCtl
  <2>4. DOMAIN b = 1..n /\ b = [s \in 1..n |-> b[s]]
    OBVIOUS
  <2>5. {b[s] : s \in 1..n} = {Bits(i, s) : s \in SlotsOf(i)}
    BY <2>1
  <2>6. IsWay(b, {b[s] : s \in 1..n}, table)
    <3> HIDE DEF b, n
    <3> QED
      BY <2>1, <2>2, <2>3, <2>4, AloneWays
  <2>7. PICK c, Q : c = b /\ Q = {Bits(i, s) : s \in SlotsOf(i)}
    OBVIOUS
  <2>8. HwTaskFrees(i) = c \o <<HwTask(i)>> /\ TaskRoots(i) = Q \cup {HwTask(i)}
    BY <1>2, <2>7 DEF HwTaskFrees, TaskRoots
  <2>9. Before(Q, {HwTask(i)}, table)
    <3>1. \A a \in Q : a[1] = "bits"
      BY <2>7, KindIs
    <3>2. \A a \in Q : RootBefore(a, HwTask(i), table)
      BY <3>1, EasilyBefore, KindIs DEF BuffCtl
    <3> QED
      BY <3>2 DEF Before
  <2>10. IsWay(c, Q, table)
    BY <2>5, <2>6, <2>7
  <2>11. IsWay(<<HwTask(i)>>, {HwTask(i)}, table)
    BY <2>1, RootsMade, AloneWay DEF LayoutTyped
  <2> QED
    BY <2>8, <2>9, <2>10, <2>11, JoinedWays
<1> QED
  BY <1>1, <1>2

LEMMA RootKinds ==
    /\ \A p \in PartitionNumbers : \A a \in PartitionRoots(p) :
         a[1] \in {"partition", "slot", "timer"} /\ a[2] = p
    /\ \A i \in TaskNumbers : \A a \in TaskRoots(i) : a[1] \in {"task", "bits"} /\ a[2] = i
    /\ \A a \in LayoutRoots : a[1] \in {"partition", "slot", "timer", "task", "bits", "layout"}
<1>1. \A p \in PartitionNumbers : \A a \in PartitionRoots(p) :
         a[1] \in {"partition", "slot", "timer"} /\ a[2] = p
  BY KindIs DEF PartitionRoots, SlotPair
<1>2. \A i \in TaskNumbers : \A a \in TaskRoots(i) : a[1] \in {"task", "bits"} /\ a[2] = i
  BY KindIs DEF TaskRoots
<1> QED
  BY <1>1, <1>2, KindIs DEF LayoutRoots

LEMMA LayoutWay ==
    ASSUME LayoutTyped, NEW table
    PROVE  IsWay(LayoutFrees, LayoutRoots, table)
<1> DEFINE m == Len(ArchLines)
           n == Len(TaskLines)
           ps == [p \in 1..m |-> PartitionFrees(p)]
           PR == [p \in 1..m |-> PartitionRoots(p)]
           ts == [i \in 1..n |-> HwTaskFrees(i)]
           TR == [i \in 1..n |-> TaskRoots(i)]
<1>1. m \in Nat /\ n \in Nat /\ PartitionNumbers = 1..m /\ TaskNumbers = 1..n
  BY LayoutCounts DEF PartitionNumbers, TaskNumbers
<1>2. \A p \in 1..m : IsWay(ps[p], PR[p], table)
  BY <1>1, PartitionWay
<1>3. ASSUME NEW p \in 1..m, NEW q \in 1..m, p < q PROVE Before(PR[p], PR[q], table)
  <2> SUFFICES ASSUME NEW a \in PartitionRoots(p),
                      NEW b \in PartitionRoots(q) PROVE RootBefore(a, b, table)
    BY DEF Before
  <2>1. a[2] = p /\ b[2] = q /\ a[1] \in {"partition", "slot", "timer"}
        /\ b[1] \in {"partition", "slot", "timer"}
    BY <1>1, RootKinds
  <2> QED
    BY <1>3, <2>1, EasilyBefore, KindIs DEF BuffCtl
<1>4. \A i \in 1..n : IsWay(ts[i], TR[i], table)
  BY <1>1, TaskWay
<1>5. ASSUME NEW i \in 1..n, NEW j \in 1..n, i < j PROVE Before(TR[i], TR[j], table)
  <2> SUFFICES ASSUME NEW a \in TaskRoots(i), NEW b \in TaskRoots(j) PROVE RootBefore(a, b, table)
    BY DEF Before
  <2>1. a[2] = i /\ b[2] = j /\ a[1] \in {"task", "bits"} /\ b[1] \in {"task", "bits"}
    BY <1>1, RootKinds
  <2>2. a # b /\ a # HwTask(b[2]) /\ a # BuffCtl
    BY <1>5, <2>1, KindIs DEF BuffCtl
  <2> QED
    BY <2>2 DEF RootBefore
<1>6. DOMAIN ps = 1..m /\ ps = [p \in 1..m |-> ps[p]] /\ DOMAIN ts = 1..n /\ ts = [i \in 1..n |-> ts[i]]
  OBVIOUS
<1>7. UNION {PR[p] : p \in 1..m} = UNION {PartitionRoots(p) : p \in 1..m}
      /\ UNION {TR[i] : i \in 1..n} = UNION {TaskRoots(i) : i \in 1..n}
  OBVIOUS
<1>8. /\ IsWay(FlattenSeq(ps), UNION {PR[p] : p \in 1..m}, table)
      /\ IsWay(FlattenSeq(ts), UNION {TR[i] : i \in 1..n}, table)
  <2>1. \A i, j \in 1..m : i < j => Before(PR[i], PR[j], table)
    BY <1>3
  <2>2. \A i, j \in 1..n : i < j => Before(TR[i], TR[j], table)
    BY <1>5
  <2> HIDE DEF ps, PR, ts, TR, m, n
  <2>3. IsWay(FlattenSeq(ps), UNION {PR[p] : p \in 1..m}, table)
    BY <1>1, <1>2, <1>6, <2>1, FlattenWays
  <2>4. IsWay(FlattenSeq(ts), UNION {TR[i] : i \in 1..n}, table)
    BY <1>1, <1>4, <1>6, <2>2, FlattenWays, ZenonT(40)
  <2> QED
    BY <2>3, <2>4
<1>9. PICK f, P, g, T : /\ f = FlattenSeq(ps) /\ P = UNION {PartitionRoots(p) : p \in 1..m}
                        /\ g = FlattenSeq(ts) /\ T = UNION {TaskRoots(i) : i \in 1..n}
  OBVIOUS
<1>10. LayoutFrees = (f \o g) \o << <<"layout">> >> /\ LayoutRoots = (P \cup T) \cup {<<"layout">>}
  BY <1>1, <1>9 DEF LayoutFrees, LayoutRoots
<1>11. IsWay(f, P, table) /\ IsWay(g, T, table)
  BY <1>7, <1>8, <1>9
<1>12. /\ \A a \in P : a[1] \in {"partition", "slot", "timer"}
       /\ \A b \in T : b[1] \in {"task", "bits"}
  BY <1>1, <1>9, RootKinds
<1>13. Before(P, T, table)
  <2>1. \A a \in P, b \in T : a # b /\ a # BuffCtl /\ a # HwTask(b[2])
    BY <1>12, KindIs DEF BuffCtl
  <2> QED
    BY <2>1 DEF Before, RootBefore
<1>14. IsWay(f \o g, P \cup T, table)
  BY <1>11, <1>13, JoinedWays
<1>15. IsWay(<< <<"layout">> >>, {<<"layout">>}, table)
  BY RootsMade, AloneWay DEF LayoutTyped
<1>16. Before(P \cup T, {<<"layout">>}, table)
  <2>1. \A a \in P \cup T : RootBefore(a, <<"layout">>, table)
    BY <1>12, EasilyBefore, KindIs DEF BuffCtl
  <2> QED
    BY <2>1 DEF Before
<1>17. PICK h, H : h = f \o g /\ H = P \cup T
  OBVIOUS
<1> QED
  BY <1>10, <1>14, <1>15, <1>16, <1>17, JoinedWays

LEMMA KindsBefore ==
    ASSUME NEW Q, NEW R, NEW table, NEW K, NEW L,
           \A a \in Q : a[1] \in K, \A b \in R : b[1] \in L, K \cap L = {},
           "task" \notin K \/ "bits" \notin L,
           "buffctl" \notin K \/ (L \cap {"bits", "client", "front"} = {})
    PROVE  Before(Q, R, table)
<1> SUFFICES ASSUME NEW a \in Q, NEW b \in R PROVE RootBefore(a, b, table)
  BY DEF Before
<1>1. a[1] \in K /\ b[1] \in L /\ a # b
  OBVIOUS
<1>2. a = BuffCtl => a[1] = "buffctl"
  BY KindIs DEF BuffCtl
<1>3. a = HwTask(b[2]) => a[1] = "task"
  BY KindIs
<1> QED
  BY <1>1, <1>2, <1>3 DEF RootBefore

-----------------------------------------------------------------------------
(* What the reactor frees. *)

OwnedAt(table) == {k \in 1..MaxSources : table[k].owned}
Owners(table) == {table[k].handler : k \in OwnedAt(table)}

\* No handler is owned twice.
OwnedWell(table) ==
    /\ DOMAIN table = 1..MaxSources
    /\ \A k \in OwnedAt(table) : table[k].handler \in {Signals, FrontEnd} \cup Clients
    /\ \A j, k \in OwnedAt(table) : j # k => table[j].handler # table[k].handler

LEMMA OwnerIs ==
    ASSUME NEW r \in {Signals, FrontEnd} \cup Clients
    PROVE  r \in Roots /\ r[1] \in {"signals", "front", "client"} /\ r # BuffCtl
<1>1. CASE r \in Clients
  <2>1. PICK k \in 1..MaxClients : r = Client(k)
    BY <1>1 DEF Clients
  <2>2. r \in Objects /\ r[1] = "client"
    BY <2>1, WholeObjects, KindIs
  <2> QED
    BY <2>2, RootIs, KindIs DEF Roots, BuffCtl
<1>2. CASE r \in {Signals, FrontEnd}
  <2>1. r \in Objects /\ r[1] \in {"signals", "front"}
    BY <1>2, WholeObjects, KindIs
  <2> QED
    BY <2>1, RootIs, KindIs DEF Roots, BuffCtl
<1> QED
  BY <1>1, <1>2

LEMMA OwnedWay ==
    ASSUME NEW table, NEW other, OwnedWell(table)
    PROVE  IsWay(OwnedFrees(table), Owners(table), other)
<1> DEFINE n == MaxSources
           ss == [k \in 1..n |-> IF table[k].owned THEN Frees(table[k].handler) ELSE <<>>]
           RR == [k \in 1..n |-> IF table[k].owned THEN {table[k].handler} ELSE {}]
<1>1. n \in Nat
  BY StartupConstantsOK
<1>2. ASSUME NEW k \in 1..n PROVE IsWay(ss[k], RR[k], other)
  <2>1. CASE table[k].owned
    <3>1. table[k].handler \in Roots
      BY <2>1, OwnerIs DEF OwnedWell, OwnedAt
    <3>2. IsWay(Frees(table[k].handler), {table[k].handler}, other)
      BY <3>1, OneWay
    <3> QED
      BY <2>1, <3>2
  <2>2. CASE ~table[k].owned
    BY <2>2, NoWay
  <2> QED
    BY <2>1, <2>2
<1>3. ASSUME NEW j \in 1..n, NEW k \in 1..n, j < k PROVE Before(RR[j], RR[k], other)
  <2> SUFFICES ASSUME NEW a \in RR[j], NEW b \in RR[k] PROVE RootBefore(a, b, other)
    BY DEF Before
  <2>1. j \in OwnedAt(table) /\ k \in OwnedAt(table) /\ a = table[j].handler /\ b = table[k].handler
    BY DEF OwnedAt
  <2>2. a # b /\ a \in {Signals, FrontEnd} \cup Clients /\ b \in {Signals, FrontEnd} \cup Clients
    BY <1>3, <2>1 DEF OwnedWell
  <2>3. a # BuffCtl /\ b[1] # "bits"
    BY <2>2, OwnerIs
  <2> QED
    BY <2>2, <2>3, EasilyBefore
<1>4. \A j, k \in 1..n : j < k => Before(RR[j], RR[k], other)
  BY <1>3
<1>5. DOMAIN ss = 1..n /\ ss = [k \in 1..n |-> ss[k]]
  OBVIOUS
<1>6. UNION {RR[k] : k \in 1..n} = Owners(table)
  <2>1. ASSUME NEW x \in Owners(table) PROVE \E k \in 1..n : x \in RR[k]
    BY DEF Owners, OwnedAt
  <2>2. ASSUME NEW k \in 1..n, NEW x \in RR[k] PROVE x \in Owners(table)
    BY DEF Owners, OwnedAt
  <2> HIDE DEF RR
  <2> QED
    BY <2>1, <2>2
<1>7. IsWay(FlattenSeq(ss), UNION {RR[k] : k \in 1..n}, other)
  <2> HIDE DEF ss, RR, n
  <2> QED
    BY <1>1, <1>2, <1>4, <1>5, FlattenWays
<1> QED
  BY <1>6, <1>7 DEF OwnedFrees

ReactorRoots(table) == Owners(table) \cup {<<"reactor">>}
HeadRoots == {<<"scheduler">>} \cup {<<"devcfg">>}

LEMMA SegmentWays ==
    ASSUME NEW table, NEW other, OwnedWell(table), FilesGiven
    PROVE  /\ IsWay(ReactorFrees(table), ReactorRoots(table), other)
           /\ IsWay(BuffctlFrees, {BuffCtl}, other)
           /\ IsWay(LoggerFrees, {<<"logger">>}, other)
           /\ IsWay(<< <<"scheduler">> >>, {<<"scheduler">>}, other)
           /\ IsWay(Frees(<<"devcfg">>), {<<"devcfg">>}, other)
           /\ IsWay(HeadFrees, HeadRoots, other)
           /\ IsWay(FrontFrees, {FrontEnd}, other)
           /\ \A a \in ReactorRoots(table) : a[1] \in {"signals", "front", "client", "reactor"}
           /\ \A a \in HeadRoots : a[1] \in {"scheduler", "devcfg"}
<1>1. /\ IsWay(BuffctlFrees, {BuffCtl}, other)
      /\ IsWay(Frees(<<"devcfg">>), {<<"devcfg">>}, other)
      /\ IsWay(Frees(<<"reactor">>), {<<"reactor">>}, other)
      /\ IsWay(Frees(FrontEnd), {FrontEnd}, other)
  BY RootsMade, OneWay DEF BuffctlFrees, BuffCtl, OneOfAKind
<1>2. IsWay(LoggerFrees, {<<"logger">>}, other) /\ IsWay(<< <<"scheduler">> >>, {<<"scheduler">>}, other)
  BY RootsMade, AloneWay DEF LoggerFrees
<1>3. Frees(FrontEnd) = FrontFrees
  BY KindIs DEF Frees
<1>4. \A a \in Owners(table) : a[1] \in {"signals", "front", "client"}
  BY OwnerIs DEF OwnedWell, Owners
<1>5. <<"reactor">>[1] = "reactor" /\ <<"scheduler">>[1] = "scheduler" /\ <<"devcfg">>[1] = "devcfg"
  BY KindIs
<1>6. Before(Owners(table), {<<"reactor">>}, other)
  <2> DEFINE K == {"signals", "front", "client"}
             L == {"reactor"}
  <2>1. (\A a \in Owners(table) : a[1] \in K) /\ (\A b \in {<<"reactor">>} : b[1] \in L)
        /\ K \cap L = {} /\ "task" \notin K /\ "buffctl" \notin K
    BY <1>4, <1>5
  <2> HIDE DEF K, L
  <2> QED
    BY <2>1, KindsBefore
<1>7. Before({<<"scheduler">>}, {<<"devcfg">>}, other)
  BY <1>5, EasilyBefore, KindIs DEF Before, BuffCtl
<1>8. PICK f : f = OwnedFrees(table)
  OBVIOUS
<1>9. IsWay(f \o Frees(<<"reactor">>), Owners(table) \cup {<<"reactor">>}, other)
  BY <1>1, <1>6, <1>8, OwnedWay, JoinedWays
<1>10. IsWay(<< <<"scheduler">> >> \o Frees(<<"devcfg">>), {<<"scheduler">>} \cup {<<"devcfg">>}, other)
  BY <1>1, <1>2, <1>7, JoinedWays
<1> QED
  BY <1>1, <1>2, <1>3, <1>4, <1>5, <1>8, <1>9, <1>10 DEF ReactorFrees, ReactorRoots, HeadFrees, HeadRoots

-----------------------------------------------------------------------------
(* The chains. *)

\* A table with which start-up fails: registration adds the signal receiver and the front
\* end, and nothing else that the reactor owns.
StartTable(table) ==
    /\ OwnedWell(table)
    /\ Owners(table) \subseteq {Signals, FrontEnd}
    /\ Phase(step) <= 12 => Owners(table) = {}

\* What is freed when a step of start-up fails.
ErrorRoots(table) ==
    (IF Phase(step) > 11 THEN {FrontEnd} ELSE {})
    \cup ((IF Phase(step) > 6 THEN LayoutRoots ELSE {})
    \cup ((IF Phase(step) > 5 THEN {BuffCtl} ELSE {})
    \cup ((IF Phase(step) > 4 THEN ReactorRoots(table) ELSE {})
    \cup ((IF Phase(step) > 3 THEN {<<"logger">>} ELSE {})
    \cup ((IF Phase(step) > 2 THEN {<<"scheduler">>} ELSE {})
    \cup (IF Phase(step) > 1 THEN {<<"devcfg">>} ELSE {}))))))

LEMMA TwiceIf ==
    ASSUME NEW table, OwnedWell(table), FrontEnd \in Owners(table)
    PROVE  Twice(table)
  BY DEF Owners, OwnedAt, OwnedWell, Twice

LEMMA ReactorKinds ==
    ASSUME NEW table, Owners(table) \subseteq {Signals, FrontEnd}
    PROVE  \A b \in ReactorRoots(table) : b \in {Signals, FrontEnd, <<"reactor">>}
  BY DEF ReactorRoots

\* The order of the segments.
LEMMA SegmentsBefore ==
    ASSUME NEW table, StartTable(table)
    PROVE  /\ Before(LayoutRoots, {BuffCtl}, table)
           /\ Before(LayoutRoots \cup {BuffCtl}, ReactorRoots(table), table)
           /\ Before({BuffCtl}, ReactorRoots(table) \cup {<<"logger">>}, table)
           /\ Before(LayoutRoots \cup {BuffCtl}, ReactorRoots(table) \cup {<<"logger">>}, table)
           /\ Before(ReactorRoots(table), {<<"logger">>}, table)
           /\ Before((LayoutRoots \cup {BuffCtl}) \cup ReactorRoots(table), {<<"logger">>}, table)
           /\ Before({FrontEnd}, ((LayoutRoots \cup {BuffCtl}) \cup ReactorRoots(table)) \cup {<<"logger">>}, table)
           /\ Before({FrontEnd} \cup (((LayoutRoots \cup {BuffCtl}) \cup ReactorRoots(table)) \cup {<<"logger">>}), HeadRoots, table)
<1>1. \A b \in ReactorRoots(table) : b \in {Signals, FrontEnd, <<"reactor">>}
  BY ReactorKinds DEF StartTable
<1>2. FrontEnd \in ReactorRoots(table) => Twice(table)
  BY TwiceIf, KindIs DEF ReactorRoots, StartTable
<1>3. \A a \in LayoutRoots : a[1] \in {"partition", "slot", "timer", "task", "bits", "layout"}
  BY RootKinds
<1>4. /\ FrontEnd[1] = "front" /\ Signals[1] = "signals" /\ BuffCtl[1] = "buffctl"
      /\ <<"reactor">>[1] = "reactor" /\ <<"logger">>[1] = "logger"
      /\ \A h \in HeadRoots : h[1] \in {"scheduler", "devcfg"}
  BY KindIs DEF BuffCtl, HeadRoots
<1>5. \A a \in LayoutRoots :
      \A b : b[1] \in {"buffctl", "signals", "front", "reactor", "logger", "scheduler", "devcfg"} =>
      RootBefore(a, b, table)
  BY <1>3, <1>4, EasilyBefore
<1>6. \A b : b[1] \in {"signals", "reactor", "logger", "scheduler", "devcfg"} =>
      RootBefore(BuffCtl, b, table)
  BY <1>4, KindIs DEF RootBefore
<1>7. Twice(table) => RootBefore(BuffCtl, FrontEnd, table) /\ RootBefore(FrontEnd, FrontEnd, table)
  BY DEF RootBefore
<1>8. \A b : b # FrontEnd => RootBefore(FrontEnd, b, table)
  BY <1>4, KindIs DEF RootBefore
<1>9. \A a \in {Signals, FrontEnd, <<"reactor">>, <<"logger">>} :
        \A b : b[1] \in {"logger", "scheduler", "devcfg"} /\ a # b => RootBefore(a, b, table)
  BY <1>4, KindIs DEF RootBefore
<1>10. \A b \in ReactorRoots(table) : RootBefore(BuffCtl, b, table) /\ RootBefore(FrontEnd, b, table)
  BY <1>1, <1>2, <1>4, <1>6, <1>7, <1>8
<1>11. \A a \in LayoutRoots : \A b \in ReactorRoots(table) : RootBefore(a, b, table)
  BY <1>1, <1>4, <1>5
<1>12. \A a \in LayoutRoots : RootBefore(a, BuffCtl, table) /\ RootBefore(a, <<"logger">>, table)
  BY <1>4, <1>5
<1>13. \A a \in ReactorRoots(table) : RootBefore(a, <<"logger">>, table)
  BY <1>1, <1>4, <1>9
<1>14. RootBefore(BuffCtl, <<"logger">>, table) /\ RootBefore(FrontEnd, <<"logger">>, table)
  BY <1>4, <1>6, <1>8
<1>15. \A b \in LayoutRoots \cup {BuffCtl} : RootBefore(FrontEnd, b, table)
  BY <1>3, <1>4, <1>8
<1>16. \A h \in HeadRoots : /\ \A a \in LayoutRoots : RootBefore(a, h, table)
                            /\ \A a \in ReactorRoots(table) : RootBefore(a, h, table)
                            /\ RootBefore(BuffCtl, h, table) /\ RootBefore(<<"logger">>, h, table)
                            /\ RootBefore(FrontEnd, h, table)
  BY <1>1, <1>4, <1>5, <1>6, <1>9
<1> QED
  BY <1>10, <1>11, <1>12, <1>13, <1>14, <1>15, <1>16 DEF Before

LEMMA ErrorWay ==
    ASSUME LayoutTyped, NEW table, StartTable(table), Phase(step) <= 13
    PROVE  IsWay(ErrorChain(table), ErrorRoots(table), table)
<1> DEFINE L == LayoutRoots
           R == ReactorRoots(table)
           G == {<<"logger">>}
           B == {BuffCtl}
           H == HeadRoots
           F == {FrontEnd}
           reactor == ReactorFrees(table) \o LoggerFrees
           down == L \cup B
           base == (down \cup R) \cup G
<1>1. /\ IsWay(ReactorFrees(table), R, table) /\ IsWay(BuffctlFrees, B, table)
      /\ IsWay(LoggerFrees, G, table) /\ IsWay(HeadFrees, H, table)
      /\ IsWay(FrontFrees, F, table) /\ IsWay(Frees(<<"devcfg">>), {<<"devcfg">>}, table)
  BY SegmentWays DEF StartTable, LayoutTyped
<1>2. IsWay(LayoutFrees, L, table)
  BY LayoutWay
<1>3. /\ Before(L, B, table) /\ Before(down, R, table) /\ Before(B, R \cup G, table)
      /\ Before(down, R \cup G, table) /\ Before(R, G, table) /\ Before(down \cup R, G, table)
      /\ Before(F, base, table) /\ Before(F \cup base, H, table)
  BY SegmentsBefore
<1>4. Before(G, H, table) /\ Before(R \cup G, H, table) /\ Before(B \cup (R \cup G), H, table)
      /\ Before(down \cup (R \cup G), H, table) /\ Before(base, H, table)
  BY <1>3 DEF Before
<1>5. IsWay(reactor, R \cup G, table)
  BY <1>1, <1>3, JoinedWays
<1>6. IsWay(BuffctlFrees \o reactor, B \cup (R \cup G), table)
  <2> HIDE DEF reactor, R, G, B
  <2> QED
    BY <1>1, <1>3, <1>5, JoinedWays
<1>7. IsWay(LayoutFrees \o BuffctlFrees, down, table)
  BY <1>1, <1>2, <1>3, JoinedWays
<1>8. IsWay(LayoutFrees \o BuffctlFrees \o reactor, down \cup (R \cup G), table)
  <2> HIDE DEF reactor, R, G, down
  <2> QED
    BY <1>3, <1>5, <1>7, JoinedWays
<1>9. IsWay(LayoutFrees \o BuffctlFrees \o ReactorFrees(table), down \cup R, table)
  <2> HIDE DEF R, G, down
  <2> QED
    BY <1>1, <1>3, <1>7, JoinedWays
<1>10. IsWay(BaseFrees(table), base, table)
  <2> HIDE DEF R, G, down
  <2> QED
    BY <1>1, <1>3, <1>9, JoinedWays DEF BaseFrees
<1>11. IsWay(FrontFrees \o BaseFrees(table), F \cup base, table)
  <2> HIDE DEF F, base
  <2> QED
    BY <1>1, <1>3, <1>10, JoinedWays
<1>12. /\ IsWay(BaseFrees(table) \o HeadFrees, base \cup H, table)
       /\ IsWay(FrontFrees \o BaseFrees(table) \o HeadFrees, (F \cup base) \cup H, table)
  <2> HIDE DEF F, base, H
  <2> QED
    BY <1>1, <1>3, <1>4, <1>10, <1>11, JoinedWays
<1>13. /\ IsWay(LoggerFrees \o HeadFrees, G \cup H, table)
       /\ IsWay(reactor \o HeadFrees, (R \cup G) \cup H, table)
       /\ IsWay(BuffctlFrees \o reactor \o HeadFrees, (B \cup (R \cup G)) \cup H, table)
       /\ IsWay(LayoutFrees \o BuffctlFrees \o reactor \o HeadFrees, (down \cup (R \cup G)) \cup H, table)
  <2> HIDE DEF reactor, R, G, B, H, down
  <2> QED
    BY <1>1, <1>4, <1>5, <1>6, <1>8, JoinedWays
<1>14. IsWay(<<>> \o HeadFrees, {} \cup H, table)
  <2>1. IsWay(<<>>, {}, table)
    BY NoWay
  <2>2. Before({}, H, table)
    BY DEF Before
  <2> HIDE DEF H
  <2> QED
    BY <1>1, <2>1, <2>2, JoinedWays
<1>15. H = {<<"scheduler">>} \cup {<<"devcfg">>}
  BY DEF HeadRoots
<1> HIDE DEF L, R, G, B, H, F
<1>16. CASE step[1] = "devcfg"
  <2>1. Phase(step) = 1
    BY <1>16, PhaseIs
  <2>2. ErrorChain(table) = <<>> /\ ErrorRoots(table) = {}
    BY <1>16, <2>1 DEF ErrorChain, ErrorRoots
  <2> QED
    BY <2>2, NoWay
<1>17. CASE step[1] = "scheduler"
  <2>1. Phase(step) = 2
    BY <1>17, PhaseIs
  <2>2. ErrorChain(table) = Frees(<<"devcfg">>) /\ ErrorRoots(table) = {<<"devcfg">>}
    BY <1>17, <2>1 DEF ErrorChain, ErrorRoots
  <2> QED
    BY <1>1, <2>2
<1>18. CASE step[1] = "front"
  <2>1. Phase(step) = 11
    BY <1>18, PhaseIs
  <2>2. ErrorChain(table) = BaseFrees(table) \o HeadFrees
    BY <1>18 DEF ErrorChain
  <2>3. ErrorRoots(table) = base \cup H
    BY <1>15, <2>1 DEF ErrorRoots, L, B, R, G
  <2> QED
    BY <1>12, <2>2, <2>3
<1>19. CASE step[1] \in {"signals", "register"}
  <2>1. Phase(step) \in {12, 13}
    BY <1>19, PhaseIs
  <2>2. ErrorChain(table) = FrontFrees \o BaseFrees(table) \o HeadFrees
    BY <1>19 DEF ErrorChain
  <2>3. ErrorRoots(table) = (F \cup base) \cup H
    BY <1>15, <2>1 DEF ErrorRoots, L, B, R, G, F
  <2> QED
    BY <1>12, <2>2, <2>3
<1>20. CASE step[1] = "logger"
  <2>1. Phase(step) = 3
    BY <1>20, PhaseIs
  <2>2. ErrorChain(table) = <<>> \o HeadFrees
    BY <1>20 DEF ErrorChain, BaseErrorChain
  <2>3. ErrorRoots(table) = {} \cup H
    BY <1>15, <2>1 DEF ErrorRoots
  <2> QED
    BY <1>14, <2>2, <2>3
<1>21. CASE step[1] = "reactor"
  <2>1. Phase(step) = 4
    BY <1>21, PhaseIs
  <2>2. ErrorChain(table) = LoggerFrees \o HeadFrees
    BY <1>21 DEF ErrorChain, BaseErrorChain
  <2>3. ErrorRoots(table) = G \cup H
    BY <1>15, <2>1 DEF ErrorRoots, G
  <2> QED
    BY <1>13, <2>2, <2>3
<1>22. CASE step[1] = "buffctl"
  <2>1. Phase(step) = 5
    BY <1>22, PhaseIs
  <2>2. ErrorChain(table) = reactor \o HeadFrees
    BY <1>22 DEF ErrorChain, BaseErrorChain
  <2>3. ErrorRoots(table) = (R \cup G) \cup H
    BY <1>15, <2>1 DEF ErrorRoots, G, R
  <2> QED
    BY <1>13, <2>2, <2>3
<1>23. CASE step[1] = "layout"
  <2>1. Phase(step) = 6
    BY <1>23, PhaseIs
  <2>2. ErrorChain(table) = BuffctlFrees \o reactor \o HeadFrees
    BY <1>23 DEF ErrorChain, BaseErrorChain
  <2>3. ErrorRoots(table) = (B \cup (R \cup G)) \cup H
    BY <1>15, <2>1 DEF ErrorRoots, G, R, B
  <2> QED
    BY <1>13, <2>2, <2>3
<1>24. CASE step[1] \notin {"devcfg", "scheduler", "front", "signals", "register", "logger", "reactor", "buffctl", "layout"}
  <2>1. Phase(step) \in 7..10
    BY <1>24, PhaseIs
  <2>2. ErrorChain(table) = LayoutFrees \o BuffctlFrees \o reactor \o HeadFrees
    BY <1>24 DEF ErrorChain, BaseErrorChain
  <2>3. ErrorRoots(table) = (down \cup (R \cup G)) \cup H
    BY <1>15, <2>1 DEF ErrorRoots, G, R, B, L
  <2> QED
    BY <1>13, <2>2, <2>3
<1> QED
  BY <1>16, <1>17, <1>18, <1>19, <1>20, <1>21, <1>22, <1>23, <1>24

\* What is made is live, and nothing else is.
LEMMA MadeLive ==
    ASSUME StartInv, Phase(step) <= 14, NEW r \in Whole
    PROVE  mem[r] = IF Made(step, r) THEN "live" ELSE "none"
<1>1. r \in Objects /\ r \notin Parts /\ r[1] # "client"
  BY DEF Whole
<1>2. Root(r) = r /\ r \in ToSet(Acquired(r))
  BY <1>1, FamilyIs DEF Roots
<1> QED
  BY <1>1, <1>2 DEF StartInv, StartsOK, MemoryNow

LEMMA WholeRoots ==
    ASSUME NEW r \in Whole
    PROVE  r \in Roots /\ r \in Objects /\ r \in ToSet(Acquired(r)) /\ Root(r) = r
<1>1. r \in Roots
  BY DEF Whole, Roots
<1> QED
  BY <1>1, FamilyIs DEF Roots

LEMMA StartLayout ==
    ASSUME StartInv
    PROVE  LayoutTyped /\ FilesGiven
  BY DEF StartInv, LayoutTyped, TypesOK

\* What is made is freed when a step of start-up fails, but for the tokens and for slots
\* that their partition does not hold.
LEMMA MadeCovered ==
    ASSUME StartInv, Phase(step) <= 13, NEW table,
           Phase(step) = 13 => Signals \in Owners(table),
           NEW r \in Whole, Made(step, r)
    PROVE  \/ r \in ErrorRoots(table)
           \/ r \in {ArchTokens, TaskTokens}
           \/ r[1] \in {"slot", "timer"} /\ r[3] > MaxSlots - 1
           \/ r[1] = "slot" /\ step = Timer(r[2], r[3])
<1>1. LayoutTyped /\ FilesGiven /\ CountedNow /\ PlacedNow /\ StepOK
  <2>1. LayoutTyped /\ FilesGiven
    BY StartLayout
  <2>2. Phase(step) <= 14
    BY PhaseIs
  <2> QED
    BY <2>1, <2>2 DEF StartInv, StartsOK
<1>2. Phase(step) \in 1..15 /\ MaxSlots \in Nat
  BY PhaseIs, StartupConstantsOK
<1>3. CASE \E k \in BaseKinds : r = <<k>>
  <2>1. PICK k \in BaseKinds : r = <<k>>
    BY <1>3
  <2>2. Phase(<<k>>) < Phase(step) /\ <<k>>[1] = k
    BY <2>1, MadeIs, KindIs
  <2>3. CASE k = "devcfg"
    BY <1>2, <2>1, <2>2, <2>3, PhaseIs DEF ErrorRoots
  <2>4. CASE k = "scheduler"
    <3>1. Phase(<<k>>) = 2
      BY <2>2, <2>4, PhaseIs
    <3> QED
      BY <1>2, <2>1, <2>2, <2>4, <3>1 DEF ErrorRoots
  <2>5. CASE k = "logger"
    <3>1. Phase(<<k>>) = 3
      BY <2>2, <2>5, PhaseIs
    <3> QED
      BY <1>2, <2>1, <2>2, <2>5, <3>1 DEF ErrorRoots
  <2>6. CASE k = "reactor"
    <3>1. Phase(<<k>>) = 4
      BY <2>2, <2>6, PhaseIs
    <3> QED
      BY <1>2, <2>1, <2>2, <2>6, <3>1 DEF ErrorRoots, ReactorRoots
  <2>7. CASE k = "buffctl"
    <3>1. Phase(<<k>>) = 5
      BY <2>2, <2>7, PhaseIs
    <3> QED
      BY <1>2, <2>1, <2>2, <2>7, <3>1 DEF ErrorRoots, BuffCtl
  <2>8. CASE k = "layout"
    <3>1. Phase(<<k>>) = 6
      BY <2>2, <2>8, PhaseIs
    <3> QED
      BY <1>2, <2>1, <2>2, <2>8, <3>1 DEF ErrorRoots, LayoutRoots
  <2>9. CASE k = "front"
    <3>1. Phase(<<k>>) = 11
      BY <2>2, <2>9, PhaseIs
    <3> QED
      BY <1>2, <2>1, <2>2, <2>9, <3>1 DEF ErrorRoots, FrontEnd
  <2>10. CASE k = "signals"
    <3>1. Phase(<<k>>) = 12
      BY <2>2, <2>10, PhaseIs
    <3> QED
      BY <1>2, <2>1, <2>2, <2>10, <3>1 DEF ErrorRoots, ReactorRoots, Signals
  <2> QED
    BY <2>3, <2>4, <2>5, <2>6, <2>7, <2>8, <2>9, <2>10 DEF BaseKinds
<1>4. LayoutRoots \subseteq ErrorRoots(table) \/ Phase(step) <= 6
  BY <1>2 DEF ErrorRoots
<1>5. CASE \E p \in Lines(ArchFiles) : r = Partition(p)
  <2>1. PICK p \in Lines(ArchFiles) : r = Partition(p)
    BY <1>5
  <2>2. p \in PartitionNumbers /\ PartitionMade(step, p)
    BY <2>1, MadeIs
  <2>3. Phase(step) >= 8
    BY <1>2, <2>2 DEF PartitionMade
  <2>4. r \in PartitionRoots(p)
    BY <2>1 DEF PartitionRoots
  <2> QED
    BY <1>2, <1>4, <2>2, <2>3, <2>4 DEF LayoutRoots
<1>6. ASSUME NEW p, NEW s, r \in {Slot(p, s), Timer(p, s)}
      PROVE  \/ r \in ErrorRoots(table)
             \/ r[1] \in {"slot", "timer"} /\ r[3] > MaxSlots - 1
             \/ r[1] = "slot" /\ step = Timer(r[2], r[3])
  <2>1. /\ p \in PartitionNumbers /\ s \in 1..SlotsWanted(p)
        /\ SlotMade(step, p, s) \/ TimerMade(step, p, s)
        /\ r = Timer(p, s) => TimerMade(step, p, s)
        /\ r = Slot(p, s) => SlotMade(step, p, s)
    BY <1>6, MadeIs, KindIs
  <2>2. Phase(step) >= 8
    BY <1>2, <2>1 DEF SlotMade, TimerMade
  <2>3. slots_count[p] \in Nat /\ SlotsWanted(p) \in Nat /\ s \in Nat
    BY <1>1, <2>1, LayoutCounts
  <2>4. CASE s <= slots_count[p]
    <3>1. r \in PartitionRoots(p)
      BY <1>6, <2>1, <2>3, <2>4 DEF PartitionRoots, SlotPair
    <3> QED
      BY <1>2, <1>4, <2>1, <2>2, <3>1 DEF LayoutRoots
  <2>5. CASE s > slots_count[p]
    <3>1. r[1] \in {"slot", "timer"} /\ r[2] = p /\ r[3] = s
      BY <1>6, KindIs
    <3>2. slots_count[p] = Lesser(TimersMade(step, p), MaxSlots - 1)
      BY <1>1, <2>1 DEF CountedNow
    <3>3. CASE s > MaxSlots - 1
      BY <3>1, <3>3
    <3>4. CASE s <= MaxSlots - 1
      <4>1. ~(s <= TimersMade(step, p)) \/ TimersMade(step, p) \notin Int
        BY <1>2, <2>3, <2>5, <3>2, <3>4 DEF Lesser
      <4>2. CASE Phase(step) > 8
        <5>1. TimersMade(step, p) = SlotsWanted(p)
          BY <4>2 DEF TimersMade
        <5> QED
          BY <2>1, <2>3, <4>1, <5>1
      <4>3. CASE Phase(step) = 8
        <5>1. step[1] \in {"partition", "slot", "timer"}
          BY <4>3, PhaseIs
        <5>2. CASE p < step[2]
          <6>1. TimersMade(step, p) = SlotsWanted(p)
            BY <4>3, <5>2 DEF TimersMade
          <6> QED
            BY <2>1, <2>3, <4>1, <6>1
        <5>3. CASE ~(p < step[2])
          <6>1. p = step[2] /\ step[1] # "partition"
            BY <2>1, <4>3, <5>1, <5>3 DEF SlotMade, TimerMade
          <6>2. TimersMade(step, p) = step[3] - 1
            BY <4>3, <5>3, <6>1 DEF TimersMade
          <6>3. PICK q \in PartitionNumbers : \E k \in 1..SlotsWanted(q) : step = Slot(q, k)
                     \/ step = Timer(q, k)
            BY <1>1, <5>1, <6>1, StepIs
          <6>4. step[3] \in Nat
            BY <1>1, <6>3, KindIs, FileFacts
          <6>5. s > step[3] - 1
            BY <2>3, <4>1, <6>2, <6>4
          <6>6. ~TimerMade(step, p, s)
            BY <2>3, <4>3, <5>3, <6>4, <6>5 DEF TimerMade
          <6>7. r = Slot(p, s) /\ SlotMade(step, p, s)
            BY <1>6, <2>1, <6>6
          <6>8. step[1] = "timer" /\ s = step[3]
            BY <2>3, <4>3, <5>1, <5>3, <6>1, <6>4, <6>5, <6>7 DEF SlotMade
          <6>9. step = Timer(p, s)
            BY <6>1, <6>3, <6>8, KindIs
          <6> QED
            BY <3>1, <6>7, <6>9, KindIs
        <5> QED
          BY <5>2, <5>3
      <4> QED
        BY <1>2, <2>2, <4>2, <4>3
    <3> QED
      BY <1>2, <2>3, <3>3, <3>4
  <2> QED
    BY <2>3, <2>4, <2>5
<1>7. CASE \E p \in Lines(ArchFiles), s \in SlotNumbers : r = Slot(p, s) \/ r = Timer(p, s)
  <2>1. PICK p \in Lines(ArchFiles), s \in SlotNumbers : r = Slot(p, s) \/ r = Timer(p, s)
    BY <1>7
  <2>2. r \in {Slot(p, s), Timer(p, s)}
    BY <2>1
  <2> QED
    BY <1>6, <2>2
<1>8. CASE \E i \in Lines(TaskFiles) : r = HwTask(i)
  <2>1. PICK i \in Lines(TaskFiles) : r = HwTask(i)
    BY <1>8
  <2>2. i \in TaskNumbers /\ TaskMade(step, i)
    BY <2>1, MadeIs
  <2>3. Phase(step) >= 10
    BY <1>2, <2>2 DEF TaskMade
  <2>4. task_partition[i] # 0
    BY <1>1, <2>2 DEF PlacedNow
  <2>5. r \in TaskRoots(i)
    BY <2>1, <2>4 DEF TaskRoots
  <2> QED
    BY <1>2, <1>4, <2>2, <2>3, <2>5 DEF LayoutRoots
<1>9. CASE \E i \in Lines(TaskFiles), s \in SlotNumbers : r = Bits(i, s)
  <2>1. PICK i \in Lines(TaskFiles), s \in SlotNumbers : r = Bits(i, s)
    BY <1>9
  <2>2. i \in TaskNumbers /\ task_partition[i] # 0 /\ s \in SlotsOf(i) /\ BitsMade(step, i, s)
    BY <2>1, MadeIs
  <2>3. Phase(step) >= 10
    BY <1>2, <2>2 DEF BitsMade
  <2>5. r \in TaskRoots(i)
    BY <2>1, <2>2 DEF TaskRoots
  <2> QED
    BY <1>2, <1>4, <2>2, <2>3, <2>5 DEF LayoutRoots
<1> QED
  BY <1>3, <1>5, <1>7, <1>8, <1>9, WholeKinds

LEMMA ErrorLists ==
    ASSUME StartInv, Phase(step) <= 13, NEW table, StartTable(table)
    PROVE  /\ ErrorRoots(table) \in SUBSET Roots
           /\ IsList(ErrorChain(table), Family(ErrorRoots(table)), OrderIn(table))
           /\ \A i \in Lines(TaskFiles) : HwTask(i) \in ErrorRoots(table) => task_partition[i] # 0
<1>1. IsWay(ErrorChain(table), ErrorRoots(table), table)
  BY StartLayout, ErrorWay
<1>2. ASSUME NEW i \in Lines(TaskFiles), HwTask(i) \in ErrorRoots(table) PROVE task_partition[i] # 0
  <2>1. HwTask(i)[1] = "task" /\ HwTask(i)[2] = i
    BY KindIs
  <2>2. \A b \in ReactorRoots(table) : b[1] \in {"signals", "front", "reactor"}
    BY ReactorKinds, KindIs DEF StartTable
  <2>3. HwTask(i) \in LayoutRoots
    BY <1>2, <2>1, <2>2, KindIs DEF ErrorRoots, BuffCtl
  <2>4. ASSUME NEW j \in TaskNumbers, HwTask(i) \in TaskRoots(j) PROVE task_partition[i] # 0
    <3>1. i = j
      BY <2>1, <2>4, RootKinds
    <3> QED
      BY <2>4, <3>1 DEF TaskRoots
  <2>5. ASSUME NEW p \in PartitionNumbers PROVE HwTask(i) \notin PartitionRoots(p)
    BY <2>1, RootKinds
  <2> QED
    BY <2>1, <2>3, <2>4, <2>5, KindIs DEF LayoutRoots
<1> QED
  BY <1>1, <1>2 DEF IsWay

\* The lines of arch.csv, or of hw_tasks.csv, have been built.
LEMMA AllMade ==
    ASSUME StartInv, Phase(step) <= 14
    PROVE  /\ Phase(step) >= 9 => \A y \in ArchObjects : y \in Objects /\ mem[y] = "live"
           /\ Phase(step) >= 11 => \A y \in TaskObjects : y \in Objects /\ mem[y] = "live"
           /\ Phase(step) <= 7 => \A y \in ArchObjects : y \in Objects /\ mem[y] = "none"
           /\ Phase(step) <= 9 => \A y \in TaskObjects : y \in Objects /\ mem[y] = "none"
<1>1. FilesGiven /\ Phase(step) \in 1..15 /\ LayoutTyped
  BY StartLayout, PhaseIs
<1>2. ASSUME NEW y \in ArchObjects
      PROVE  /\ y \in Whole
             /\ Phase(step) >= 9 => Made(step, y)
             /\ Phase(step) <= 7 => ~Made(step, y)
  <2>1. PICK p \in PartitionNumbers :
              y = Partition(p) \/ \E s \in 1..SlotsWanted(p) : y = Slot(p, s) \/ y = Timer(p, s)
    BY <1>2 DEF ArchObjects, PartitionNumbers
  <2>2. CASE y = Partition(p)
    <3>1. y \in Whole
      BY <1>1, <2>2, MadeObjects
    <3>2. Made(step, y) <=> PartitionMade(step, p)
      BY <2>2, MadeIs
    <3> QED
      BY <1>1, <3>1, <3>2 DEF PartitionMade
  <2>3. CASE \E s \in 1..SlotsWanted(p) : y = Slot(p, s) \/ y = Timer(p, s)
    <3>1. PICK s \in 1..SlotsWanted(p) : y = Slot(p, s) \/ y = Timer(p, s)
      BY <2>3
    <3>2. y \in Whole
      BY <1>1, <3>1, MadeObjects
    <3>3. /\ y = Slot(p, s) => (Made(step, y) <=> SlotMade(step, p, s))
          /\ y = Timer(p, s) => (Made(step, y) <=> TimerMade(step, p, s))
      BY MadeIs
    <3> QED
      BY <1>1, <3>1, <3>2, <3>3 DEF SlotMade, TimerMade
  <2> QED
    BY <2>1, <2>2, <2>3
<1>3. ASSUME NEW y \in TaskObjects
      PROVE  /\ y \in Whole
             /\ Phase(step) >= 11 => Made(step, y)
             /\ Phase(step) <= 9 => ~Made(step, y)
  <2>1. CASE \E i \in TaskNumbers : y = HwTask(i)
    <3>1. PICK i \in TaskNumbers : y = HwTask(i)
      BY <2>1
    <3>2. y \in Whole
      BY <1>1, <3>1, MadeObjects
    <3>3. Made(step, y) <=> TaskMade(step, i)
      BY <3>1, MadeIs
    <3> QED
      BY <1>1, <3>2, <3>3 DEF TaskMade
  <2>2. CASE \E i \in TaskNumbers : task_partition[i] # 0 /\ \E s \in SlotsOf(i) : y = Bits(i, s)
    <3>1. PICK i \in TaskNumbers : task_partition[i] # 0 /\ \E s \in SlotsOf(i) : y = Bits(i, s)
      BY <2>2
    <3>2. PICK s \in SlotsOf(i) : y = Bits(i, s)
      BY <3>1
    <3>3. s \in SlotNumbers
      BY <1>1, <3>1, LayoutCounts
    <3>4. y \in Whole
      BY <1>1, <3>2, <3>3, MadeObjects
    <3>5. Made(step, y) <=> BitsMade(step, i, s)
      BY <3>1, <3>2, MadeIs
    <3> QED
      BY <1>1, <3>4, <3>5 DEF BitsMade
  <2> QED
    BY <1>3, <2>1, <2>2 DEF TaskObjects, TaskNumbers, SlotsOf
<1>4. \A y \in ArchObjects \cup TaskObjects : y \in Objects
      /\ mem[y] = IF Made(step, y) THEN "live" ELSE "none"
  BY <1>2, <1>3, MadeLive DEF Whole
<1> QED
  BY <1>2, <1>3, <1>4

\* A failing step frees `own`, which holds T, of the roots Q, and then the error chain.
OwnFrees(own, T, Q, table) ==
    /\ Q \in SUBSET Roots
    /\ IsList(own, T, OrderIn(table))
    /\ T \subseteq Family(Q)
    /\ Before(Q, ErrorRoots(table), table)
    /\ \A i \in Lines(TaskFiles) : HwTask(i) \notin T

\* The memory m of a failing step: nothing is lost that was made before.
KeepsMemory(m) == \A x \in Objects : m[x] \in {"none", "live"} /\ (mem[x] = "live" => m[x] = "live")

\* When the chain c is to be freed, what is new is in T, or in the error chain, or excused.
NewCovered(m, c, T, table) ==
    \A x \in Objects : m[x] = "live" =>
        mem[x] = "live" \/ x \in T \/ x \in ErrorRoots(table) \/ Excused(m, c, x)

LEMMA MadeWayDown ==
    ASSUME StartInv, Phase(step) <= 13, NEW table, StartTable(table),
           Phase(step) = 13 => Signals \in Owners(table),
           NEW c, NEW T, ToSet(c) = T \cup Family(ErrorRoots(table)),
           NEW m, KeepsMemory(m),
           Phase(step) = 8 => ArchTokens \in T,
           Phase(step) = 10 => TaskTokens \in T,
           step[1] = "timer" => m[step] = "none" /\ Slot(step[2], step[3]) \notin T,
           NEW x \in Objects, mem[x] = "live"
    PROVE  x \in ToSet(c) \/ Excused(m, c, x)
<1> DEFINE r == Root(x)
<1>1. NoClients /\ MemoryNow /\ Phase(step) \in 1..15 /\ Phase(step) <= 14
  <2>1. Phase(step) \in 1..15
    BY PhaseIs
  <2>2. Phase(step) <= 14
    BY <2>1
  <2>3. StartsOK
    BY DEF StartInv
  <2>4. Phase(step) < 14 => NoClients
    BY <2>2, <2>3 DEF StartsOK
  <2> QED
    BY <2>1, <2>2, <2>3, <2>4 DEF StartsOK
<1>2. x[1] # "client"
  <2>1. ASSUME x \in Clients PROVE FALSE
    <3>1. PICK k \in 1..MaxClients : x = Client(k)
      BY <2>1 DEF Clients
    <3> QED
      BY <1>1, <3>1 DEF NoClients
  <2> QED
    BY <2>1, ClientIs
<1>3. Made(step, r) /\ x \in ToSet(Acquired(r))
  BY <1>1, <1>2 DEF MemoryNow
<1>4. r \in Whole /\ r \in Objects /\ r \in Roots
  <2>1. r \in Whole
    BY <1>2, <1>3, HeldIs, RootWhole
  <2> QED
    BY <2>1, WholeRoots
<1>5. mem[r] = "live" /\ m[r] = "live"
  BY <1>1, <1>3, <1>4, MadeLive DEF KeepsMemory
<1>6. ErrorRoots(table) \in SUBSET Roots
  BY ErrorLists
<1>7. CASE r \in ErrorRoots(table)
  <2>1. x \in Family(ErrorRoots(table))
    BY <1>3, <1>7 DEF Family
  <2> QED
    BY <2>1
<1>8. CASE r = ArchTokens
  <2>1. x = ArchTokens
    BY <1>3, <1>8, TokenLists
  <2>2. Phase(step) > 7
    BY <1>3, <1>8, MadeIs
  <2>3. CASE Phase(step) = 8
    BY <2>1, <2>3
  <2>4. CASE Phase(step) # 8
    <3>1. \A y \in ArchObjects : y \in Objects /\ mem[y] = "live"
      BY <1>1, <2>2, <2>4, AllMade
    <3>2. AllOrNoneIn(m, ArchObjects)
      BY <3>1 DEF AllOrNoneIn, KeepsMemory
    <3> QED
      BY <2>1, <3>2 DEF Excused
  <2> QED
    BY <2>3, <2>4
<1>9. CASE r = TaskTokens
  <2>1. x = TaskTokens
    BY <1>3, <1>9, TokenLists
  <2>2. Phase(step) > 9
    BY <1>3, <1>9, MadeIs
  <2>3. CASE Phase(step) = 10
    BY <2>1, <2>3
  <2>4. CASE Phase(step) # 10
    <3>1. \A y \in TaskObjects : y \in Objects /\ mem[y] = "live"
      BY <1>1, <2>2, <2>4, AllMade
    <3>2. AllOrNoneIn(m, TaskObjects)
      BY <3>1 DEF AllOrNoneIn, KeepsMemory
    <3> QED
      BY <2>1, <3>2 DEF Excused
  <2> QED
    BY <2>3, <2>4
<1>10. CASE r[1] \in {"slot", "timer"} /\ r[3] > MaxSlots - 1
  BY <1>10 DEF Excused
<1>11. CASE r \notin ErrorRoots(table) /\ r[1] = "slot" /\ step = Timer(r[2], r[3])
  <2>1. PICK p, s : r = Slot(p, s)
    <3>1. \E p \in Lines(ArchFiles), s \in SlotNumbers : r = Slot(p, s)
      BY <1>4, <1>11, WholeKinds, KindIs DEF BaseKinds
    <3> QED
      BY <3>1
  <2>2. step[1] = "timer" /\ step[2] = p /\ step[3] = s /\ r[2] = p /\ r[3] = s
    BY <1>11, <2>1, KindIs
  <2>3. m[Timer(r[2], r[3])] = "none" /\ r \notin T
    BY <1>11, <2>1, <2>2
  <2>4. r \notin Family(ErrorRoots(table))
    BY <1>4, <1>6, <1>11, FamilyHas
  <2>5. r \notin ToSet(c)
    BY <2>3, <2>4
  <2> QED
    BY <1>5, <1>11, <2>3, <2>5 DEF Excused
<1>12. \/ r \in ErrorRoots(table)
       \/ r \in {ArchTokens, TaskTokens}
       \/ r[1] \in {"slot", "timer"} /\ r[3] > MaxSlots - 1
       \/ r[1] = "slot" /\ step = Timer(r[2], r[3])
  BY <1>3, <1>4, MadeCovered
<1> QED
  BY <1>7, <1>8, <1>9, <1>10, <1>11, <1>12

LEMMA FailsWay ==
    ASSUME StartInv, Phase(step) <= 13, NEW table, StartTable(table),
           Phase(step) = 13 => Signals \in Owners(table),
           NEW own, NEW T, NEW Q, OwnFrees(own, T, Q, table),
           NEW c, c = own \o ErrorChain(table),
           NEW m, KeepsMemory(m), NewCovered(m, c, T, table),
           Phase(step) = 8 => ArchTokens \in T,
           Phase(step) = 10 => TaskTokens \in T,
           step[1] = "timer" => m[step] = "none" /\ Slot(step[2], step[3]) \notin T
    PROVE  WayDown(m, c, table)
<1> DEFINE E == ErrorRoots(table)
<1>1. /\ E \in SUBSET Roots
      /\ IsList(ErrorChain(table), Family(E), OrderIn(table))
      /\ \A i \in Lines(TaskFiles) : HwTask(i) \in E => task_partition[i] # 0
  BY ErrorLists
<1>2. IsList(c, T \cup Family(E), OrderIn(table))
  <2>1. PICK e : e = ErrorChain(table)
    OBVIOUS
  <2>2. Family(E) \subseteq Family(E)
    OBVIOUS
  <2> HIDE DEF E
  <2>3. Q \in SUBSET Roots /\ T \subseteq Family(Q) /\ IsList(own, T, OrderIn(table))
        /\ Before(Q, E, table)
    BY DEF OwnFrees, E
  <2>4. IsList(own \o e, T \cup Family(E), OrderIn(table))
    BY <1>1, <2>1, <2>2, <2>3, JoinedLists
  <2> QED
    BY <2>1, <2>4
<1>3. c \in Seq(Objects) /\ ToSet(c) = T \cup Family(E) /\ Pairwise(c, OrderIn(table))
  BY <1>2 DEF IsList
<1>4. ASSUME NEW x \in Objects, m[x] = "live" PROVE x \in ToSet(c) \/ Excused(m, c, x)
  <2>1. CASE mem[x] = "live"
    BY <1>3, <2>1, MadeWayDown
  <2>2. CASE x \in T
    BY <1>3, <2>2
  <2>3. CASE x \in ErrorRoots(table)
    <3>1. x \in Roots
      BY <1>1, <2>3
    <3>2. x \in Family(E)
      BY <1>1, <2>3, <3>1, FamilyHas
    <3> QED
      BY <1>3, <3>2
  <2> QED
    BY <1>4, <2>1, <2>2, <2>3 DEF NewCovered
<1>5. ASSUME NEW i \in Lines(TaskFiles), HwTask(i) \in ToSet(c) PROVE task_partition[i] # 0
  <2>1. HwTask(i) \in Family(E)
    BY <1>3, <1>5 DEF OwnFrees
  <2>2. HwTask(i) \in Objects /\ HwTask(i) \in Roots
    <3>1. FilesGiven
      BY StartLayout
    <3>2. Alone(HwTask(i))
      BY <3>1, RootsMade
    <3> QED
      BY <3>2 DEF Alone, Roots
  <2> QED
    BY <1>1, <2>1, <2>2, FamilyHas
<1>6. \A a \in Objects : m[a] # "freed"
  BY DEF KeepsMemory
<1> QED
  BY <1>3, <1>4, <1>5, <1>6 DEF WayDown

\* The way down, said of the next state.
LEMMA ExcusedNext ==
    ASSUME UNCHANGED files, slots_count' = slots_count, task_partition' = task_partition,
           NEW x
    PROVE  (Excused(mem, chain, x))' <=> Excused(mem', chain', x)
<1>1. Registrations' = Registrations
  BY SameRegistrations
<1>2. ArchObjects' = ArchObjects /\ TaskObjects' = TaskObjects
  <2>1. ArchLines' = ArchLines /\ TaskLines' = TaskLines /\ \A p : SlotsWanted(p)' = SlotsWanted(p)
    BY SameFiles
  <2>2. ArchObjects' = ArchObjects
    BY <2>1 DEF ArchObjects
  <2>3. TaskObjects' = TaskObjects
    BY <2>1 DEF TaskObjects
  <2> QED
    BY <2>2, <2>3
<1>3. mode' = mode
  BY DEF files
<1> QED
  BY <1>1, <1>2, <1>3 DEF Excused, GoingIn, AllOrNoneIn, InPartition, LastLoadIn

LEMMA OrderNext ==
    ASSUME task_partition' = task_partition
    PROVE  OrderIn(sources)' = OrderIn(sources')
<1>1. \A x : Reads(x)' = Reads(x)
  BY DEF Reads
<1>2. \A a, b : SafeAfter(a, b)' <=> SafeAfter(a, b)
  BY <1>1 DEF SafeAfter
<1>3. SafeOrder' = SafeOrder
  BY <1>2 DEF SafeOrder
<1> QED
  BY <1>3 DEF OrderIn, Twice

LEMMA WayDownNext ==
    ASSUME UNCHANGED files, slots_count' = slots_count, task_partition' = task_partition,
           WayDown(mem', chain', sources')
    PROVE  (WayDown(mem, chain, sources))'
  BY ExcusedNext, OrderNext DEF WayDown, Pairwise

\* Nothing was misused as long as the server starts or runs.
LEMMA NoMisuse ==
    ASSUME StartInv, Phase(step) <= 14
    PROVE  misuse = {} /\ chain = <<>> /\ MemoryNow
  BY DEF StartInv, StartsOK, MemoryNow

LEMMA EarlyTable ==
    ASSUME StartInv, Phase(step) <= 12
    PROVE  StartTable(sources)
<1>1. Phase(step) \in 1..15 /\ Phase(step) <= 14 /\ Phase(step) < 14
  BY PhaseIs
<1>2. TableNow /\ TypesOK
  BY <1>1 DEF StartInv, StartsOK
<1>3. Filled = 0
  BY <1>1, PhaseIs DEF Filled
<1>4. \A n \in 1..MaxSources : sources[n] = Inactive
  BY <1>1, <1>2, <1>3 DEF TableNow
<1>5. OwnedAt(sources) = {}
  BY <1>4 DEF OwnedAt, Inactive
<1> QED
  BY <1>2, <1>5 DEF StartTable, OwnedWell, Owners, TypesOK

\* The timer being created is not there yet.
LEMMA TimerNotYet ==
    ASSUME StartInv, step[1] = "timer"
    PROVE  step \in Objects /\ mem[step] = "none" /\ step = Timer(step[2], step[3])
           /\ step[2] \in PartitionNumbers /\ step[3] \in 1..SlotsWanted(step[2])
<1>1. FilesGiven /\ StepOK /\ Phase(step) = 8
  BY PhaseIs, StartLayout DEF StartInv
<1>2. PICK p \in PartitionNumbers : \E s \in 1..SlotsWanted(p) : step = Timer(p, s)
  BY <1>1, StepIs
<1>3. PICK s \in 1..SlotsWanted(p) : step = Timer(p, s)
  BY <1>2
<1>4. step[2] = p /\ step[3] = s
  BY <1>3, KindIs
<1>5. Timer(p, s) \in Whole
  BY <1>1, MadeObjects
<1>6. p \in Nat /\ s \in Nat
  BY <1>1, FileFacts
<1>7. ~TimerMade(step, p, s)
  BY <1>1, <1>4, <1>6 DEF TimerMade
<1>8. ~Made(step, Timer(p, s))
  BY <1>7, MadeIs
<1>9. mem[step] = "none"
  BY <1>1, <1>3, <1>5, <1>8, MadeLive
<1> QED
  BY <1>3, <1>4, <1>5, <1>9 DEF Whole

LEMMA FailsDown ==
    ASSUME StartInv, Phase(step) <= 12, NEW xs, NEW own, FailsFreeing(xs, own),
           slots_count' = slots_count, task_partition' = task_partition,
           NEW T, NEW Q, OwnFrees(own, T, Q, sources),
           \A x \in Objects : x \in xs =>
               x \in T \/ x \in ErrorRoots(sources) \/ Excused(mem', chain', x),
           Phase(step) = 8 => ArchTokens \in T,
           Phase(step) = 10 => TaskTokens \in T,
           step[1] = "timer" => step \notin xs /\ Slot(step[2], step[3]) \notin T
    PROVE  DownInv'
<1>1. /\ step' = <<"freeing">> /\ chain' = own \o ErrorChain(sources) /\ sources' = sources
      /\ mem' = [x \in Objects |-> IF x \in xs THEN "live" ELSE mem[x]]
      /\ UNCHANGED files /\ misuse' = misuse
  BY DEF FailsFreeing, StartFreeing
<1>2. Phase(step) \in 1..15 /\ Phase(step) <= 13 /\ Phase(step) <= 14 /\ Phase(step) # 13
  BY PhaseIs
<1>3. misuse = {} /\ MemoryNow /\ TypesOK /\ NoClients
  <2>1. Phase(step) < 14
    BY <1>2
  <2> QED
    BY <1>2, <2>1, NoMisuse DEF StartInv, StartsOK
<1>4. KeepsMemory(mem')
  <2>1. \A x \in Objects : mem[x] \in {"none", "live"}
    BY <1>3, ClientIs DEF MemoryNow, NoClients, Clients
  <2> QED
    BY <1>1, <2>1 DEF KeepsMemory
<1>5. NewCovered(mem', chain', T, sources)
  BY <1>1 DEF NewCovered
<1>6. step[1] = "timer" => mem'[step] = "none" /\ Slot(step[2], step[3]) \notin T
  BY <1>1, TimerNotYet
<1>7. WayDown(mem', chain', sources)
  <2>1. StartTable(sources)
    BY EarlyTable
  <2> QED
    BY <1>1, <1>2, <1>4, <1>5, <1>6, <2>1, FailsWay
<1>8. (WayDown(mem, chain, sources))'
  BY <1>1, <1>7, WayDownNext
<1>9. FreesAreSafe'
  BY <1>1, <1>3 DEF FreesAreSafe
<1>10. chain' \in Seq(Objects)
  BY <1>7 DEF WayDown
<1> QED
  BY <1>1, <1>8, <1>9, <1>10 DEF DownInv

-----------------------------------------------------------------------------
(* One more free. *)

LEMMA FileObjects ==
    ASSUME LayoutTyped
    PROVE  ArchObjects \subseteq Objects /\ TaskObjects \subseteq Objects
<1>1. FilesGiven
  BY DEF LayoutTyped
<1>2. ASSUME NEW y \in ArchObjects PROVE y \in Whole
  <2>1. PICK p \in PartitionNumbers :
              y = Partition(p) \/ \E s \in 1..SlotsWanted(p) : y = Slot(p, s) \/ y = Timer(p, s)
    BY <1>2 DEF ArchObjects, PartitionNumbers
  <2> QED
    BY <1>1, <2>1, MadeObjects
<1>3. ASSUME NEW y \in TaskObjects PROVE y \in Whole
  <2>1. CASE \E i \in TaskNumbers : y = HwTask(i)
    BY <1>1, <2>1, MadeObjects
  <2>2. CASE \E i \in TaskNumbers : task_partition[i] # 0 /\ \E s \in SlotsOf(i) : y = Bits(i, s)
    <3>1. PICK i \in TaskNumbers : task_partition[i] # 0 /\ \E s \in SlotsOf(i) : y = Bits(i, s)
      BY <2>2
    <3>2. PICK s \in SlotsOf(i) : y = Bits(i, s)
      BY <3>1
    <3>3. s \in SlotNumbers
      BY <1>1, <3>1, LayoutCounts
    <3> QED
      BY <1>1, <3>2, <3>3, MadeObjects
  <2> QED
    BY <1>3, <2>1, <2>2 DEF TaskObjects, TaskNumbers, SlotsOf
<1> QED
  BY <1>2, <1>3 DEF Whole

\* Every slot has its timer's place.
LEMMA SlotTimer ==
    ASSUME NEW y \in Objects, Root(y)[1] = "slot"
    PROVE  Timer(Root(y)[2], Root(y)[3]) \in Objects
<1> DEFINE r == Root(y)
<1>1. r \in Whole
  BY RootIs DEF Whole
<1>2. PICK p \in Lines(ArchFiles), s \in SlotNumbers : r = Slot(p, s)
  BY <1>1, WholeKinds, KindIs DEF BaseKinds
<1>3. r[2] = p /\ r[3] = s
  BY <1>2, KindIs
<1> QED
  BY <1>3, WholeObjects

\* From memory m to n, no object comes or is gone, and those that are freed were in the
\* chain c, of which d is what remains.
OnlyFrees(m, n, c, d) ==
    \A z \in Objects : /\ m[z] = "none" <=> n[z] = "none"
                       /\ m[z] = "freed" => n[z] = "freed"
                       /\ m[z] = "live" /\ z \notin ToSet(c) => n[z] = "live"
                       /\ m[z] = "live" /\ z \in ToSet(c) => n[z] = "freed"
                          \/ (n[z] = "live" /\ z \in ToSet(d))

\* What is excused stays so.
LEMMA ExcusedStays ==
    ASSUME LayoutTyped, NEW m, NEW n, NEW c, NEW d, OnlyFrees(m, n, c, d),
           ToSet(d) \subseteq ToSet(c), NEW y \in Objects, Excused(m, c, y)
    PROVE  Excused(n, d, y)
<1> DEFINE r == Root(y)
<1>1. \A z \in Objects : m[z] = "none" <=> n[z] = "none"
  BY DEF OnlyFrees
<1>2. r \in Objects
  BY RootIs
<1>3. GoingIn(m, c, r) => GoingIn(n, d, r)
  BY <1>2 DEF GoingIn, OnlyFrees
<1>4. m[r] = "live" /\ r \notin ToSet(c) => n[r] = "live" /\ r \notin ToSet(d)
  BY <1>2 DEF OnlyFrees
<1>5. \A S \in SUBSET Objects : AllOrNoneIn(m, S) => AllOrNoneIn(n, S)
  BY <1>1 DEF AllOrNoneIn
<1>6. Signals \in Objects /\ \A k \in 1..MaxClients : Client(k) \in Objects
  BY WholeObjects
<1>7. CASE r[1] \in {"slot", "timer"} /\ r[3] > MaxSlots - 1
  BY <1>7 DEF Excused
<1>8. CASE r[1] = "slot" /\ m[r] = "live" /\ r \notin ToSet(c) /\ m[Timer(r[2], r[3])] = "none"
  BY <1>1, <1>4, <1>8, SlotTimer DEF Excused
<1>9. CASE /\ mode = "rcfg_test" /\ r[1] = "slot" /\ y = Sockets(Driver(r))
           /\ GoingIn(m, c, r) /\ ~InPartition(r[2], r[3])
  BY <1>3, <1>9 DEF Excused
<1>10. CASE r = FrontEnd /\ y # r /\ GoingIn(m, c, r) /\ m[Signals] = "none"
  BY <1>1, <1>3, <1>6, <1>10 DEF Excused
<1>11. CASE /\ y[1] = "client" /\ Len(Registrations) + y[2] > MaxSources
            /\ \A k \in (y[2] + 1)..MaxClients : m[Client(k)] = "none"
  <2>1. \E k \in 1..MaxClients : y = Client(k)
    BY <1>11, ClientIs DEF Clients
  <2>2. y[2] \in Nat /\ MaxClients \in Nat
    BY <2>1, KindIs, StartupConstantsOK
  <2>3. (y[2] + 1)..MaxClients \subseteq 1..MaxClients
    BY <2>2
  <2>4. \A k \in (y[2] + 1)..MaxClients : n[Client(k)] = "none"
    BY <1>1, <1>6, <1>11, <2>3
  <2> QED
    BY <1>11, <2>4 DEF Excused
<1>12. CASE y = ArchTokens /\ AllOrNoneIn(m, ArchObjects)
  BY <1>5, <1>12, FileObjects DEF Excused
<1>13. CASE y = TaskTokens /\ AllOrNoneIn(m, TaskObjects)
  BY <1>5, <1>13, FileObjects DEF Excused
<1>14. ASSUME y[1] \in {"file", "mapping"}
       PROVE  /\ y[2] \in Lines(TaskFiles) /\ y[3] \in SlotNumbers /\ Bits(y[2], y[3]) \in Objects
              /\ LastLoadIn(m, y[2], y[3]) => LastLoadIn(n, y[2], y[3])
  <2>1. PICK i \in Lines(TaskFiles), s \in SlotNumbers : y = BitsFile(i, s) \/ y = BitsMapping(i, s)
    BY <1>14, HeldIs
  <2>2. y[2] = i /\ y[3] = s
    BY <2>1, KindIs
  <2>3. /\ FrontEnd \in Objects
        /\ \A j \in Lines(TaskFiles) : HwTask(j) \in Objects
        /\ \A q \in SlotNumbers : Bits(i, q) \in Objects
    BY WholeObjects
  <2>4. LastLoadIn(m, i, s) => LastLoadIn(n, i, s)
    BY <1>1, <2>3 DEF LastLoadIn
  <2> QED
    BY <2>2, <2>3, <2>4
<1>15. CASE y[1] = "file" /\ LastLoadIn(m, y[2], y[3])
  BY <1>14, <1>15 DEF Excused
<1>16. CASE /\ y[1] = "mapping" /\ LastLoadIn(m, y[2], y[3])
            /\ GoingIn(m, c, Bits(y[2], y[3]))
  <2>1. GoingIn(n, d, Bits(y[2], y[3]))
    BY <1>14, <1>16 DEF GoingIn, OnlyFrees
  <2> QED
    BY <1>14, <1>16, <2>1 DEF Excused
<1> QED
  BY <1>7, <1>8, <1>9, <1>10, <1>11, <1>12, <1>13, <1>15, <1>16 DEF Excused

\* Whether what a free reads, or frees, is gone, is known to FreesAreSafe.
LEMMA MisuseKnown ==
    ASSUME StartInv, WayDown(mem, chain, sources), NEW x \in ToSet(chain), NEW y,
           mem[y] = "freed", NEW k, (k = <<"twice">> /\ y = x) \/ (k = x /\ y \in Reads(x))
    PROVE  \/ k \in {HwTask(i) : i \in 1..Len(TaskLines)} /\ y = Partition(task_partition[k[2]])
           \/ /\ k \in FrontOnly \cup {<<"twice">>} /\ y \in FrontOnly
              /\ Occurrences(FrontEnd) # {}
<1>1. x \in Objects /\ TypesOK /\ PlacedWell /\ FilesGiven
  BY StartLayout DEF WayDown, StartInv, ToSet
<1>2. x[1] = "task" => /\ x \in {HwTask(i) : i \in 1..Len(TaskLines)} /\ x = HwTask(x[2])
                       /\ Partition(task_partition[x[2]]) \in Objects
  <2> SUFFICES ASSUME x[1] = "task" PROVE /\ x \in {HwTask(i) : i \in 1..Len(TaskLines)}
                      /\ x = HwTask(x[2])
                                         /\ Partition(task_partition[x[2]]) \in Objects
    OBVIOUS
  <2>1. x \notin Parts
    BY <1>1, RootIs
  <2>2. PICK i \in Lines(TaskFiles) : x = HwTask(i)
    <3>1. x \in Whole
      BY <1>1, <2>1 DEF Whole
    <3> QED
      BY <3>1, WholeKinds, KindIs DEF BaseKinds
  <2>3. task_partition[i] # 0
    BY <2>2 DEF WayDown
  <2>4. i \in TaskNumbers /\ task_partition[i] \in PartitionNumbers
    BY <1>1, <2>3, StartLayout, LayoutCounts
  <2>5. Partition(task_partition[i]) \in Objects
    BY <1>1, <2>4, FileFacts, WholeObjects
  <2> QED
    BY <2>2, <2>4, <2>5, KindIs DEF TaskNumbers
<1>3. Reads(x) \subseteq Objects
  <2>1. CASE x \in Parts /\ x # FrontData
    BY <1>1, <2>1, ReadsAre, PartOf
  <2>2. CASE x = FrontData
    BY <1>1, <2>2, ReadsAre, FrontIs, WholeObjects, PartObjects DEF FdOwners
  <2>3. CASE x[1] = "task"
    BY <1>1, <1>2, <2>3, ReadsAre
  <2>4. CASE x[1] = "bits"
    <3>1. x \notin Parts
      BY <1>1, <2>4, RootIs
    <3>2. PICK i \in Lines(TaskFiles), s \in SlotNumbers : x = Bits(i, s)
      <4>1. x \in Whole
        BY <1>1, <2>4, <3>1 DEF Whole
      <4> QED
        BY <2>4, <4>1, WholeKinds, KindIs DEF BaseKinds
    <3>3. HwTask(x[2]) \in Objects
      BY <3>2, KindIs, WholeObjects
    <3>4. Fd(<<"buffctl">>) \in Objects
      BY PartObjects DEF FdOwners
    <3> QED
      BY <1>1, <2>4, <3>3, <3>4, ReadsAre
  <2>5. CASE x[1] = "client"
    <3>1. Fd(<<"buffctl">>) \in Objects
      BY PartObjects DEF FdOwners
    <3> QED
      BY <1>1, <2>5, <3>1, ReadsAre
  <2>6. CASE x[1] \notin {"part", "task", "bits", "client"}
    BY <1>1, <2>6, ReadsAre
  <2>7. x[1] = "part" => x \in Parts
    BY <1>1, RootIs
  <2> QED
    BY <2>1, <2>2, <2>3, <2>4, <2>5, <2>6, <2>7
<1>4. y \in Objects
  BY <1>1, <1>3
<1>5. <<y, x>> \in OrderIn(sources)
  BY <1>4 DEF WayDown
<1>6. CASE <<y, x>> \in SafeOrder
  <2>1. SafeAfter(y, x)
    BY <1>6, SafePairs
  <2>2. CASE y # x /\ y \notin Reads(x)
    BY <2>2
  <2>3. CASE x[1] = "task" /\ y = Partition(task_partition[x[2]])
    <3>1. y # x
      BY <2>3, KindIs
    <3>2. k = x
      BY <3>1
    <3> QED
      BY <1>2, <2>3, <3>2
  <2> QED
    BY <2>1, <2>2, <2>3 DEF SafeAfter
<1>7. CASE Twice(sources) /\ <<y, x>> \in FrontOnly \X FrontOnly
  <2>1. Occurrences(FrontEnd) # {}
    BY <1>7 DEF Twice, Occurrences
  <2> QED
    BY <1>7, <2>1
<1> QED
  BY <1>5, <1>6, <1>7 DEF OrderIn

LEMMA FreeNextDown ==
    ASSUME StartInv, DownInv, FreeNext
    PROVE  DownInv'
<1> DEFINE x == Head(chain)
           d == Tail(chain)
<1>1. /\ step = <<"freeing">> /\ step' = step /\ chain # <<>> /\ chain' = d
      /\ UNCHANGED <<files, layout, sources>>
      /\ mem[x] = "none" => mem' = mem /\ misuse' = misuse
      /\ mem[x] # "none" =>
           /\ mem' = [mem EXCEPT ![x] = "freed"]
           /\ misuse' = misuse \cup {<<<<"twice">>, y>> : y \in FreedOf({x})}
                               \cup {<<x, y>> : y \in FreedOf(Reads(x))}
  BY DEF FreeNext
<1>2. WayDown(mem, chain, sources) /\ chain \in Seq(Objects) /\ FreesAreSafe
  BY <1>1 DEF DownInv
<1>3. /\ d \in Seq(Objects) /\ x \in Objects /\ Len(chain) \in Nat /\ Len(chain) >= 1
      /\ Len(d) = Len(chain) - 1 /\ x = chain[1] /\ \A i \in 1..Len(d) : d[i] = chain[i + 1]
  BY <1>1, <1>2
<1>4. /\ x \in ToSet(chain) /\ ToSet(d) \subseteq ToSet(chain) /\ ToSet(chain) \subseteq ToSet(d) \cup {x}
  <2>1. x \in ToSet(chain)
    BY <1>2, <1>3 DEF ToSet
  <2>2. ASSUME NEW y \in ToSet(d) PROVE y \in ToSet(chain)
    <3>1. PICK i \in 1..Len(d) : y = d[i]
      BY <1>3 DEF ToSet
    <3>2. i + 1 \in 1..Len(chain) /\ y = chain[i + 1]
      BY <1>3, <3>1
    <3> QED
      BY <1>2, <3>2 DEF ToSet
  <2>3. ASSUME NEW y \in ToSet(chain), y # x PROVE y \in ToSet(d)
    <3>1. PICK i \in 1..Len(chain) : y = chain[i]
      BY <1>2 DEF ToSet
    <3>2. i # 1 /\ i - 1 \in 1..Len(d)
      BY <1>3, <2>3, <3>1
    <3>3. y = d[i - 1] /\ DOMAIN d = 1..Len(d)
      BY <1>3, <3>1, <3>2
    <3> HIDE DEF d
    <3> QED
      BY <3>2, <3>3 DEF ToSet
  <2> QED
    BY <2>1, <2>2, <2>3
<1>5. DOMAIN mem = Objects
  BY DEF StartInv, TypesOK
<1>6. ASSUME NEW y \in Objects, mem'[y] = "live" PROVE y \in ToSet(d) \/ Excused(mem', d, y)
  <2>1. mem[y] = "live" /\ y # x
    BY <1>1, <1>3, <1>5, <1>6
  <2>2. y \in ToSet(chain) \/ Excused(mem, chain, y)
    BY <1>2, <2>1 DEF WayDown
  <2>3. CASE y \in ToSet(chain)
    BY <1>4, <2>1, <2>3
  <2>4. CASE Excused(mem, chain, y)
    <3>1. OnlyFrees(mem, mem', chain, d)
      <4>1. \A z \in Objects : mem'[z] = IF z = x /\ mem[x] # "none" THEN "freed" ELSE mem[z]
        BY <1>1, <1>3, <1>5
      <4> HIDE DEF x, d
      <4> QED
        BY <1>4, <4>1 DEF OnlyFrees
    <3>2. LayoutTyped
      BY StartLayout
    <3> HIDE DEF x, d
    <3> QED
      BY <1>4, <2>4, <3>1, <3>2, ExcusedStays
  <2> QED
    BY <2>2, <2>3, <2>4
<1>7. Pairwise(d, OrderIn(sources)) /\ \A b \in ToSet(d) : <<x, b>> \in OrderIn(sources)
  <2>1. Pairwise(chain, OrderIn(sources))
    BY <1>2 DEF WayDown
  <2>2. ASSUME NEW i \in 1..Len(d), NEW j \in 1..Len(d), i < j PROVE <<d[i], d[j]>> \in OrderIn(sources)
    <3>1. i + 1 \in 1..Len(chain) /\ j + 1 \in 1..Len(chain) /\ i + 1 < j + 1
      BY <1>3, <2>2
    <3> QED
      BY <1>3, <2>1, <3>1 DEF Pairwise
  <2>3. ASSUME NEW b \in ToSet(d) PROVE <<x, b>> \in OrderIn(sources)
    <3>1. PICK j \in 1..Len(d) : b = d[j]
      BY <1>3, <2>3 DEF ToSet
    <3>2. 1 \in 1..Len(chain) /\ j + 1 \in 1..Len(chain) /\ 1 < j + 1
      BY <1>3, <3>1
    <3> QED
      BY <1>3, <2>1, <3>1, <3>2 DEF Pairwise
  <2> QED
    BY <2>2, <2>3 DEF Pairwise
<1>8. ASSUME NEW a \in Objects, mem'[a] = "freed", NEW b \in ToSet(d) PROVE <<a, b>> \in OrderIn(sources)
  <2>1. CASE a = x
    BY <1>7, <1>8, <2>1
  <2>2. CASE a # x
    <3>1. mem[a] = "freed"
      BY <1>1, <1>3, <1>5, <1>8, <2>2
    <3>2. b \in ToSet(chain)
      BY <1>4
    <3> QED
      BY <1>2, <3>1, <3>2 DEF WayDown
  <2> QED
    BY <2>1, <2>2
<1>9. WayDown(mem', d, sources)
  BY <1>2, <1>3, <1>4, <1>6, <1>7, <1>8 DEF WayDown
<1>10. (WayDown(mem, chain, sources))'
  <2>1. UNCHANGED files /\ slots_count' = slots_count /\ task_partition' = task_partition
        /\ sources' = sources
    BY <1>1 DEF layout
  <2> QED
    BY <1>1, <1>9, <2>1, WayDownNext
<1>11. FreesAreSafe'
  <2>1. TaskLines' = TaskLines /\ task_partition' = task_partition
        /\ Occurrences(FrontEnd)' = Occurrences(FrontEnd)
    BY <1>1, SameFiles DEF layout, Occurrences
  <2>2. ASSUME NEW n \in misuse'
        PROVE  \/ n[1] \in {HwTask(i) : i \in 1..Len(TaskLines)}
                  /\ n[2] = Partition(task_partition[n[1][2]])
               \/ /\ n[1] \in FrontOnly \cup {<<"twice">>} /\ n[2] \in FrontOnly
                  /\ Occurrences(FrontEnd) # {}
    <3>1. CASE n \in misuse
      BY <1>2, <3>1 DEF FreesAreSafe
    <3>2. CASE n \notin misuse
      <4>1. \/ n \in {<<<<"twice">>, y>> : y \in FreedOf({x})}
            \/ n \in {<<x, y>> : y \in FreedOf(Reads(x))}
        BY <1>1, <2>2, <3>2
      <4>2. \E k, y : /\ n = <<k, y>> /\ mem[y] = "freed"
                      /\ (k = <<"twice">> /\ y = x) \/ (k = x /\ y \in Reads(x))
        BY <4>1 DEF FreedOf
      <4>3. PICK k, y : /\ n = <<k, y>> /\ mem[y] = "freed"
                        /\ (k = <<"twice">> /\ y = x) \/ (k = x /\ y \in Reads(x))
        BY <4>2
      <4>4. n[1] = k /\ n[2] = y
        BY <4>3
      <4> HIDE DEF x
      <4> QED
        BY <1>2, <1>4, <4>3, <4>4, MisuseKnown
    <3> QED
      BY <3>1, <3>2
  <2> QED
    BY <2>1, <2>2 DEF FreesAreSafe
<1> QED
  BY <1>1, <1>3, <1>10, <1>11 DEF DownInv

LEMMA ExitDown ==
    ASSUME DownInv, Exit
    PROVE  DownInv'
<1>1. /\ step = <<"freeing">> /\ chain = <<>> /\ UNCHANGED <<files, mem, layout, sources, chain, misuse>>
  BY DEF Exit
<1>2. WayDown(mem, chain, sources) /\ chain \in Seq(Objects) /\ FreesAreSafe
  BY <1>1 DEF DownInv
<1>3. UNCHANGED files /\ slots_count' = slots_count /\ task_partition' = task_partition
      /\ sources' = sources
      /\ mem' = mem /\ chain' = chain /\ misuse' = misuse
  BY <1>1 DEF layout
<1>4. (WayDown(mem, chain, sources))'
  BY <1>2, <1>3, WayDownNext
<1>5. FreesAreSafe'
  <2>1. TaskLines' = TaskLines /\ Occurrences(FrontEnd)' = Occurrences(FrontEnd)
    BY <1>3, SameFiles DEF Occurrences
  <2> QED
    BY <1>2, <1>3, <2>1 DEF FreesAreSafe
<1> QED
  BY <1>1, <1>2, <1>3, <1>4, <1>5 DEF DownInv

LEMMA StutterDown ==
    ASSUME DownInv, UNCHANGED startupVars
    PROVE  DownInv'
<1>1. UNCHANGED files /\ slots_count' = slots_count /\ task_partition' = task_partition
      /\ sources' = sources
      /\ mem' = mem /\ chain' = chain /\ misuse' = misuse /\ step' = step
  BY DEF startupVars, layout
<1>2. step[1] \in {"freeing", "exited"} => (WayDown(mem, chain, sources))'
  BY <1>1, WayDownNext DEF DownInv
<1>3. FreesAreSafe'
  <2>1. TaskLines' = TaskLines /\ Occurrences(FrontEnd)' = Occurrences(FrontEnd)
    BY <1>1, SameFiles DEF Occurrences
  <2> QED
    BY <1>1, <2>1 DEF FreesAreSafe, DownInv
<1> QED
  BY <1>1, <1>2, <1>3 DEF DownInv

-----------------------------------------------------------------------------
(* The error paths of constructors. *)

Tokens == {ArchTokens, TaskTokens}

LEMMA TokenWay ==
    ASSUME NEW table
    PROVE  /\ Tokens \subseteq Roots
           /\ \A t \in Tokens : t[1] = "tokens" /\ ToSet(Acquired(t)) = {t} /\ t \in Objects
           /\ \A Y \in SUBSET Tokens : Family(Y) = Y
           /\ IsList(<<ArchTokens>>, {ArchTokens}, OrderIn(table))
           /\ IsList(<<TaskTokens>>, {TaskTokens}, OrderIn(table))
<1>1. ArchTokens \in Roots /\ TaskTokens \in Roots /\ ArchTokens \in Objects /\ TaskTokens \in Objects
  BY TokenLists, WholeRoots
<1>2. \A t \in Tokens : t[1] = "tokens" /\ ToSet(Acquired(t)) = {t}
  BY TokenLists, KindIs DEF Tokens
<1>3. \A Y \in SUBSET Tokens : Family(Y) = Y
  BY <1>2 DEF Family
<1>4. \A t \in Objects : IsList(<<t>>, {t}, OrderIn(table))
  BY OneList
<1> QED
  BY <1>1, <1>2, <1>3, <1>4 DEF Tokens

\* What error paths free after the constructor's own: the tokens Y of the file.
ThenFrees(then, Y) ==
    /\ \/ then = <<>> /\ Y = {}
       \/ then = <<ArchTokens>> /\ Y = {ArchTokens}
       \/ then = <<TaskTokens>> /\ Y = {TaskTokens}
    /\ Phase(step) = 8 => ArchTokens \in Y
    /\ Phase(step) = 10 => TaskTokens \in Y

LEMMA PathDown ==
    ASSUME StartInv, Phase(step) <= 12, NEW xs, NEW path, NEW then, FailsFreeing(xs, path \o then),
           slots_count' = slots_count, task_partition' = task_partition,
           NEW P, NEW Q \in SUBSET Roots, IsList(path, P, SafeOrder), P \subseteq Family(Q),
           Before(Q, ErrorRoots(sources), sources),
           \A q \in Q : q[1] \notin {"tokens", "task"},
           NEW Y, ThenFrees(then, Y),
           \A x \in Objects : x \in xs =>
               x \in P \/ x \in Y \/ x \in ErrorRoots(sources) \/ Excused(mem', chain', x),
           step[1] = "timer" => step \notin xs /\ Q = {}
    PROVE  DownInv'
<1>1. Y \in SUBSET Tokens /\ Y \in SUBSET Roots /\ IsList(then, Y, OrderIn(sources)) /\ Family(Y) = Y
  <2>1. Y \in SUBSET Tokens
    BY DEF ThenFrees, Tokens
  <2>2. IsList(then, Y, OrderIn(sources))
    BY TokenWay, EmptyList, ZenonT(40) DEF ThenFrees
  <2> QED
    BY <2>1, <2>2, TokenWay
<1>2. \A t \in Tokens : t[1] = "tokens"
  BY TokenWay
<1>3. Before(Q, Y, sources)
  BY <1>1, <1>2, KindIs DEF Before, RootBefore
<1>4. IsList(path, P, OrderIn(sources))
  BY SafeLists
<1>5. IsList(path \o then, P \cup Y, OrderIn(sources))
  BY <1>1, <1>3, <1>4, JoinedLists
<1>6. P \cup Y \subseteq Family(Q \cup Y)
  BY <1>1, FamilyOf
<1>7. StartTable(sources)
  BY EarlyTable
<1>8. Before(Q \cup Y, ErrorRoots(sources), sources)
  <2>1. ASSUME NEW t \in Y, NEW b \in ErrorRoots(sources) PROVE RootBefore(t, b, sources)
    <3>1. t[1] = "tokens" /\ t # BuffCtl /\ \A i : t # HwTask(i)
      BY <1>1, <1>2, KindIs DEF BuffCtl
    <3>2. \A c \in ReactorRoots(sources) : c[1] \in {"signals", "front", "reactor"}
      BY <1>7, ReactorKinds, KindIs DEF StartTable
    <3>3. b[1] # "tokens"
      BY <3>2, RootKinds, KindIs DEF ErrorRoots, BuffCtl
    <3> QED
      BY <3>1, <3>3 DEF RootBefore
  <2> QED
    BY <2>1 DEF Before
<1>9. ASSUME NEW i \in Lines(TaskFiles) PROVE HwTask(i) \notin P \cup Y
  <2>1. HwTask(i)[1] = "task" /\ HwTask(i) \in Roots /\ HwTask(i) \in Objects
    <3>1. Alone(HwTask(i))
      BY StartLayout, RootsMade
    <3> QED
      BY <3>1, KindIs DEF Alone, Roots
  <2>2. HwTask(i) \notin Y
    BY <1>1, <1>2, <2>1
  <2>3. HwTask(i) \notin Q
    BY <2>1
  <2> QED
    BY <2>1, <2>2, <2>3, FamilyHas
<1>10. OwnFrees(path \o then, P \cup Y, Q \cup Y, sources)
  BY <1>1, <1>5, <1>6, <1>8, <1>9 DEF OwnFrees
<1>11. step[1] = "timer" => Slot(step[2], step[3]) \notin P \cup Y
  <2> SUFFICES ASSUME step[1] = "timer" PROVE Slot(step[2], step[3]) \notin P \cup Y
    OBVIOUS
  <2>1. P = {}
    <3>1. Family({}) = {}
      BY DEF Family
    <3> QED
      BY <3>1
  <2>2. Slot(step[2], step[3])[1] = "slot"
    BY KindIs
  <2> QED
    BY <1>1, <1>2, <2>1, <2>2
<1>12. \A x \in Objects : x \in xs =>
           x \in P \cup Y \/ x \in ErrorRoots(sources) \/ Excused(mem', chain', x)
  OBVIOUS
<1>13. (Phase(step) = 8 => ArchTokens \in P \cup Y) /\ (Phase(step) = 10 => TaskTokens \in P \cup Y)
  BY DEF ThenFrees
<1> QED
  BY <1>10, <1>11, <1>12, <1>13, FailsDown

\* A constructor gives back its first k acquisitions.
LEMMA ReversedDown ==
    ASSUME StartInv, Phase(step) <= 12, NEW x \in Whole, NEW k \in 0..Len(Acquired(x)), NEW then,
           FailsFreeing(ToSet(SubSeq(Acquired(x), 1, k)), Reverse(SubSeq(Acquired(x), 1, k)) \o then),
           slots_count' = slots_count, task_partition' = task_partition,
           k = 0 \/ (Before({x}, ErrorRoots(sources), sources) /\ x[1] \notin {"tokens", "task"} /\ step[1] # "timer"),
           NEW Y, ThenFrees(then, Y)
    PROVE  DownInv'
<1> DEFINE xs == ToSet(SubSeq(Acquired(x), 1, k))
           path == Reverse(SubSeq(Acquired(x), 1, k))
<1>1. x \in Roots /\ x \in Objects
  BY WholeRoots
<1>2. Acquired(x) \in Seq(Objects) /\ Pairwise(Acquired(x), BackOrder)
  BY <1>1, FamilyIs DEF ListsOK, IsList
<1>3. IsList(path, xs, SafeOrder) /\ xs \subseteq ToSet(Acquired(x))
  BY <1>2, ReversedPrefix DEF IsList
<1>4. Family({x}) = ToSet(Acquired(x)) /\ Family({}) = {}
  BY <1>1, FamilyOf
<1>5. CASE k = 0
  <2>1. SubSeq(Acquired(x), 1, 0) = <<>>
    BY <1>2
  <2>2. xs = {}
    BY <1>5, <2>1 DEF ToSet
  <2>3. Before({}, ErrorRoots(sources), sources)
    BY DEF Before
  <2> HIDE DEF xs, path
  <2> QED
    BY <1>3, <1>4, <2>2, <2>3, PathDown DEF xs, path
<1>6. CASE k # 0
  <2>1. {x} \in SUBSET Roots /\ xs \subseteq Family({x})
        /\ (\A q \in {x} : q[1] \notin {"tokens", "task"})
        /\ Before({x}, ErrorRoots(sources), sources) /\ step[1] # "timer"
    BY <1>1, <1>3, <1>4, <1>6
  <2>2. FailsFreeing(xs, path \o then)
    OBVIOUS
  <2> HIDE DEF xs, path
  <2>3. \A z \in Objects : z \in xs =>
            z \in xs \/ z \in Y \/ z \in ErrorRoots(sources) \/ Excused(mem', chain', z)
    OBVIOUS
  <2>4. step[1] = "timer" => step \notin xs /\ {x} = {}
    BY <2>1
  <2>5. PICK q : q = {x}
    OBVIOUS
  <2>6. /\ q \in SUBSET Roots /\ xs \subseteq Family(q) /\ Before(q, ErrorRoots(sources), sources)
        /\ \A r \in q : r[1] \notin {"tokens", "task"}
        /\ step[1] = "timer" => step \notin xs /\ q = {}
    BY <2>1, <2>4, <2>5
  <2>7. IsList(path, xs, SafeOrder)
    BY <1>3
  <2> QED
    BY <2>2, <2>3, <2>6, <2>7, PathDown
<1> QED
  BY <1>5, <1>6

LEMMA EarlyOwners ==
    ASSUME StartInv, Phase(step) <= 12
    PROVE  \A b \in ReactorRoots(sources) : b = <<"reactor">>
<1>1. Owners(sources) = {}
  BY EarlyTable DEF StartTable
<1> QED
  BY <1>1 DEF ReactorRoots

\* The slot under construction is not in its partition.
LEMMA SlotNotYet ==
    ASSUME StartInv, step[1] = "slot"
    PROVE  /\ step \in Slots /\ step \in Whole /\ step = Slot(step[2], step[3])
           /\ step[2] \in PartitionNumbers /\ ~InPartition(step[2], step[3])
           /\ step \notin LayoutRoots /\ Phase(step) = 8
<1>1. FilesGiven /\ LayoutTyped /\ StepOK /\ Phase(step) = 8
  BY PhaseIs, StartLayout DEF StartInv
<1>2. PICK p \in PartitionNumbers : \E s \in 1..SlotsWanted(p) : step = Slot(p, s)
  BY <1>1, StepIs
<1>3. PICK s \in 1..SlotsWanted(p) : step = Slot(p, s)
  BY <1>2
<1>4. step[2] = p /\ step[3] = s
  BY <1>3, KindIs
<1>5. Slot(p, s) \in Whole /\ Slot(p, s) \in Slots
  BY <1>1, MadeObjects
<1>6. p \in Nat /\ s \in Nat /\ slots_count[p] \in Nat
  BY <1>1, FileFacts, LayoutCounts
<1>7. TimersMade(step, p) = s - 1
  BY <1>1, <1>3, <1>4, <1>6, KindIs DEF TimersMade
<1>8. slots_count[p] = Lesser(s - 1, MaxSlots - 1)
  BY <1>1, <1>7 DEF StartInv, StartsOK, CountedNow
<1>9. ~(s <= slots_count[p])
  BY <1>6, <1>8, StartupConstantsOK DEF Lesser
<1>10. step \notin LayoutRoots
  <2>1. ASSUME NEW q \in PartitionNumbers, step \in PartitionRoots(q) PROVE FALSE
    <3>1. q = p
      BY <1>4, <2>1, RootKinds
    <3>2. PICK n \in 1..slots_count[p] : step \in SlotPair(p, n)
      BY <1>3, <2>1, <3>1, KindIs DEF PartitionRoots
    <3>3. n = s
      BY <1>3, <3>2, KindIs DEF SlotPair
    <3> QED
      BY <1>6, <1>9, <3>2, <3>3
  <2>2. \A i \in TaskNumbers : step \notin TaskRoots(i)
    BY <1>3, RootKinds, KindIs
  <2>3. step # <<"layout">>
    BY <1>3, KindIs
  <2> QED
    BY <2>1, <2>2, <2>3 DEF LayoutRoots
<1> QED
  BY <1>1, <1>3, <1>4, <1>5, <1>9, <1>10 DEF InPartition

LEMMA StepBefore ==
    ASSUME StartInv, step[1] \in {"devcfg", "reactor", "buffctl", "slot", "front", "signals"}
    PROVE  Before({step}, ErrorRoots(sources), sources)
<1>1. Phase(step) <= 12 /\ Phase(step) \in 1..15
  BY PhaseIs
<1>2. \A b \in ReactorRoots(sources) : b = <<"reactor">>
  BY <1>1, EarlyOwners
<1>3. \A a \in LayoutRoots : a[1] \in {"partition", "slot", "timer", "task", "bits", "layout"}
  BY RootKinds
<1>4. step # HwTask(step[2]) /\ \A i : step # HwTask(i)
  BY KindIs
<1> SUFFICES ASSUME NEW b \in ErrorRoots(sources) PROVE RootBefore(step, b, sources)
  BY DEF Before
<1>5. \/ b = FrontEnd /\ Phase(step) > 11
      \/ b \in LayoutRoots /\ Phase(step) > 6
      \/ b = BuffCtl /\ Phase(step) > 5
      \/ b = <<"reactor">> /\ Phase(step) > 4
      \/ b = <<"logger">> /\ Phase(step) > 3
      \/ b = <<"scheduler">> /\ Phase(step) > 2
      \/ b = <<"devcfg">> /\ Phase(step) > 1
  BY <1>2 DEF ErrorRoots
<1>6. step # b
  <2>1. CASE step[1] = "slot"
    BY <1>5, <2>1, SlotNotYet, KindIs DEF BuffCtl
  <2>2. CASE step[1] = "devcfg"
    <3>1. Phase(step) = 1
      BY <2>2, PhaseIs
    <3> QED
      BY <1>5, <3>1
  <2>3. CASE step[1] = "reactor"
    <3>1. Phase(step) = 4
      BY <2>3, PhaseIs
    <3> QED
      BY <1>5, <2>3, <3>1, KindIs
  <2>4. CASE step[1] = "buffctl"
    <3>1. Phase(step) = 5
      BY <2>4, PhaseIs
    <3> QED
      BY <1>5, <2>4, <3>1, KindIs
  <2>5. CASE step[1] = "front"
    <3>1. Phase(step) = 11
      BY <2>5, PhaseIs
    <3> QED
      BY <1>3, <1>5, <2>5, <3>1, KindIs DEF BuffCtl
  <2>6. CASE step[1] = "signals"
    BY <1>3, <1>5, <2>6, KindIs DEF BuffCtl
  <2> QED
    BY <2>1, <2>2, <2>3, <2>4, <2>5, <2>6
<1>7. step = BuffCtl => b[1] \notin {"bits", "client", "front"}
  <2> SUFFICES ASSUME step = BuffCtl PROVE b[1] \notin {"bits", "client", "front"}
    OBVIOUS
  <2>1. step[1] = "buffctl"
    BY KindIs DEF BuffCtl
  <2>2. Phase(step) = 5
    BY <2>1, PhaseIs
  <2> QED
    BY <1>5, <2>2, KindIs
<1> QED
  BY <1>4, <1>6, <1>7 DEF RootBefore

\* What a slot has acquired when its null driver's sockets cannot be configured.
LEMMA NullPath ==
    ASSUME mode = "rcfg_test", NEW r \in Slots
    PROVE  /\ ToSet(SubSeq(Acquired(r), 1, 3)) = {r, Driver(r), Sockets(Driver(r))}
           /\ IsList(<<Driver(r), r>>, {Driver(r), r}, SafeOrder)
           /\ {Driver(r), r} \subseteq ToSet(Acquired(r))
<1>1. r[1] = "slot" /\ r \in Objects /\ r \notin Parts
  BY OwnerKinds, RootIs
<1> DEFINE d == Driver(r)
           e == Sockets(Driver(r))
<1>2. d \in Objects /\ e \in Objects /\ d # r /\ d[2] = r /\ d \in Parts /\ d # FrontData
  BY DriverFacts DEF DriverSet
<1>3. Acquired(r) = <<r>> \o (NullDriver(d) \o XilDecoupler(Decoupler(r)))
  BY <1>1, KindIs DEF Acquired, SlotAcquired
<1>4. NullDriver(d) = <<d, e>>
  BY DEF NullDriver
<1>5. PICK x : x = XilDecoupler(Decoupler(r))
  OBVIOUS
<1>6. x \in Seq(Objects)
  <2>1. Acquired(r) \in Seq(Objects)
    BY <1>1, Families DEF ListsOK, IsList
  <2>2. XilDecoupler(Decoupler(r)) = MasterDriver(Decoupler(r))
    BY DEF XilDecoupler, MasterDriver
  <2>3. MasterDriver(Decoupler(r)) \in Seq(Objects)
    BY DriverLists DEF PartListsOK, IsList
  <2> QED
    BY <1>5, <2>2, <2>3
<1>7. Acquired(r) = <<r>> \o (<<d, e>> \o x)
  BY <1>3, <1>4, <1>5
<1> HIDE DEF d, e
<1>8. /\ Acquired(r) \in Seq(Objects) /\ Len(Acquired(r)) >= 3
      /\ Acquired(r)[1] = r /\ Acquired(r)[2] = d /\ Acquired(r)[3] = e
  BY <1>1, <1>2, <1>6, <1>7
<1>9. ToSet(SubSeq(Acquired(r), 1, 3)) = {r, d, e} /\ {d, r} \subseteq ToSet(Acquired(r))
  <2>1. PICK s : s = SubSeq(Acquired(r), 1, 3)
    OBVIOUS
  <2>2. DOMAIN s = 1..3 /\ s[1] = r /\ s[2] = d /\ s[3] = e
    BY <1>8, <2>1
  <2>3. ToSet(s) = {r, d, e}
    BY <2>2 DEF ToSet
  <2>4. {d, r} \subseteq ToSet(Acquired(r))
    BY <1>8 DEF ToSet
  <2> QED
    BY <2>1, <2>3, <2>4
<1>10. <<d, r>> \in SafeOrder
  BY <1>1, <1>2, Within
<1>11. IsList(<<d, r>>, {d, r}, SafeOrder)
  BY <1>1, <1>2, <1>10, TwoList
<1> QED
  BY <1>9, <1>11 DEF d, e

LEMMA NoBefore ==
    ASSUME NEW table
    PROVE  Before({}, ErrorRoots(table), table) /\ Family({}) = {} /\ IsList(<<>>, {}, SafeOrder)
  BY EmptyList DEF Before, Family

\* What the error path frees is in the chain.
LEMMA PathIn ==
    ASSUME StartInv, Phase(step) <= 12, NEW path, NEW P, IsList(path, P, SafeOrder), NEW x \in P,
           NEW then, NEW Y, ThenFrees(then, Y)
    PROVE  x \in ToSet((path \o then) \o ErrorChain(sources))
<1>1. Phase(step) <= 13
  BY PhaseIs
<1>2. IsList(ErrorChain(sources), Family(ErrorRoots(sources)), OrderIn(sources))
  BY <1>1, EarlyTable, ErrorLists
<1>3. PICK e : e = ErrorChain(sources)
  OBVIOUS
<1>4. e \in Seq(Objects) /\ path \in Seq(Objects) /\ x \in ToSet(path)
  BY <1>2, <1>3 DEF IsList
<1>5. PICK t : t = then
  OBVIOUS
<1>6. t \in Seq(Objects)
  <2>1. ArchTokens \in Objects /\ TaskTokens \in Objects
    BY WholeObjects
  <2>2. <<ArchTokens>> \in Seq(Objects) /\ <<TaskTokens>> \in Seq(Objects) /\ <<>> \in Seq(Objects)
    BY <2>1
  <2> QED
    BY <1>5, <2>2 DEF ThenFrees
<1>7. PICK u : u = path \o t
  OBVIOUS
<1>8. u \in Seq(Objects) /\ x \in ToSet(u)
  BY <1>4, <1>6, <1>7, ConcatSet
<1>9. ToSet(u \o e) = ToSet(u) \cup ToSet(e)
  BY <1>4, <1>8, ConcatSet
<1> QED
  BY <1>3, <1>5, <1>7, <1>8, <1>9

\* A constructor's first acquisition is its object.
LEMMA FirstIs ==
    ASSUME NEW x, Acquired(x) \in Seq(Objects), NEW t \in Seq(Objects), Acquired(x) = <<x>> \o t,
           NEW k \in 1..Len(Acquired(x))
    PROVE  x \in ToSet(SubSeq(Acquired(x), 1, k))
<1>1. Acquired(x)[1] = x
  <2>1. (<<x>> \o t)[1] = x
    OBVIOUS
  <2> QED
    BY <2>1
<1>2. PICK s : s = SubSeq(Acquired(x), 1, k)
  OBVIOUS
<1>3. DOMAIN s = 1..k /\ 1 \in 1..k /\ s[1] = Acquired(x)[1]
  BY <1>2
<1> QED
  BY <1>1, <1>2, <1>3 DEF ToSet

\* A constructor fails, whichever its error path.
LEMMA ConstructDown ==
    ASSUME StartInv, Phase(step) <= 12, step \in Whole,
           NEW then, NEW k \in 0..Len(Acquired(step)), NEW path \in ErrorPaths(step, k),
           FailsFreeing(ToSet(SubSeq(Acquired(step), 1, k)), path \o then),
           slots_count' = slots_count, task_partition' = task_partition,
           NEW Y, ThenFrees(then, Y)
    PROVE  DownInv'
<1> DEFINE xs == ToSet(SubSeq(Acquired(step), 1, k))
           E == ErrorRoots(sources)
<1>1. step \in Roots /\ step \in Objects /\ step \notin Parts
  BY WholeRoots DEF Whole
<1>2. Acquired(step) \in Seq(Objects) /\ Pairwise(Acquired(step), BackOrder)
      /\ IsList(Frees(step), ToSet(Acquired(step)), SafeOrder)
  BY <1>1, FamilyIs DEF ListsOK, IsList
<1>3. xs \subseteq ToSet(Acquired(step)) /\ (k = 0 => xs = {})
  <2>1. xs \subseteq ToSet(Acquired(step))
    BY <1>2, ReversedPrefix
  <2>2. SubSeq(Acquired(step), 1, 0) = <<>>
    BY <1>2
  <2>3. ToSet(<<>>) = {}
    BY DEF ToSet
  <2> QED
    BY <2>1, <2>2, <2>3
<1>4. Family({step}) = ToSet(Acquired(step)) /\ Family({}) = {}
  BY <1>1, FamilyOf
<1>5. PICK q : q = {step}
  OBVIOUS
<1>6. q \in SUBSET Roots /\ Family(q) = ToSet(Acquired(step))
  BY <1>1, <1>4, <1>5
<1>7. FailsFreeing(xs, path \o then)
  OBVIOUS
<1>8. CASE step[1] = "devcfg"
  <2>1. step = <<"devcfg">>
    BY <1>8, WholeKinds, KindIs DEF BaseKinds
  <2>2. path = Frees(step)
    <3>0. step # FrontEnd
      BY <1>8, KindIs
    <3>1. ErrorPaths(step, k) = {DevcfgFrees(step)}
      BY <1>8, <3>0 DEF ErrorPaths
    <3>2. Frees(step) = DevcfgFrees(step)
      BY <1>8, <3>0 DEF Frees
    <3> QED
      BY <3>1, <3>2
  <2>3. IsList(path, ToSet(Acquired(step)), SafeOrder)
    BY <1>2, <2>2
  <2>4. Before(q, E, sources) /\ (\A r \in q : r[1] \notin {"tokens", "task"}) /\ step[1] # "timer"
    BY <1>5, <1>8, StepBefore
  <2>5. \A x \in Objects : x \in xs => x \in ToSet(Acquired(step)) \/ x \in Y \/ x \in E
        \/ Excused(mem', chain', x)
    BY <1>3
  <2> HIDE DEF xs
  <2> QED
    BY <1>6, <1>7, <2>3, <2>4, <2>5, PathDown
<1>9. CASE step[1] = "front"
  <2>1. step = FrontEnd
    BY <1>9, WholeKinds, KindIs DEF BaseKinds, FrontEnd
  <2>2. path = IF k = 0 THEN <<>> ELSE <<FrontEnd>>
    BY <1>9, <2>1 DEF ErrorPaths, FrontErrorPath
  <2>3. CASE k = 0
    <3>1. IsList(path, {}, SafeOrder) /\ Before({}, E, sources) /\ Family({}) = {}
      BY <2>2, <2>3, NoBefore
    <3>2. \A x \in Objects : x \in xs => x \in {} \/ x \in Y \/ x \in E \/ Excused(mem', chain', x)
      BY <1>3, <2>3
    <3>3. step[1] # "timer"
      BY <1>9
    <3> HIDE DEF xs
    <3> QED
      BY <1>7, <3>1, <3>2, <3>3, PathDown
  <2>4. CASE k # 0
    <3>1. IsList(path, {step}, SafeOrder)
      BY <1>1, <2>1, <2>2, <2>4, OneList
    <3>2. {step} \subseteq Family(q)
      BY <1>1, <1>6, FamilyIs
    <3>3. Before(q, E, sources) /\ (\A r \in q : r[1] \notin {"tokens", "task"}) /\ step[1] # "timer"
      BY <1>5, <1>9, StepBefore
    <3>4. ASSUME NEW x \in Objects, x \in xs, x # step PROVE Excused(mem', chain', x)
      <4>1. Root(x) = FrontEnd /\ x # FrontEnd
        BY <1>1, <1>3, <2>1, <3>4, FamilyIs
      <4>2. /\ mem' = [z \in Objects |-> IF z \in xs THEN "live" ELSE mem[z]]
            /\ chain' = (path \o then) \o ErrorChain(sources)
        BY <1>7 DEF FailsFreeing, StartFreeing
      <4>3. mem'[Signals] = "none"
        <5>1. Phase(step) = 11
          BY <1>9, PhaseIs
        <5>2. ~Made(step, Signals)
          <6>1. Phase(<<"signals">>) = 12
            BY PhaseIs, KindIs
          <6> QED
            BY <5>1, <6>1, MadeIs DEF BaseKinds, Signals
        <5>3. Signals \in Whole
          BY StartLayout, MadeObjects
        <5>4. mem[Signals] = "none"
          BY <5>1, <5>2, <5>3, MadeLive
        <5>5. Signals \in Objects /\ Root(Signals) = Signals
          BY <5>3, WholeRoots
        <5>6. Signals \notin xs
          BY <1>1, <1>3, <2>1, <5>5, FamilyIs, KindIs
        <5> QED
          BY <4>2, <5>4, <5>5, <5>6
      <4>4. FrontEnd \in ToSet(chain')
        BY <2>1, <3>1, <4>2, PathIn
      <4>5. mem'[FrontEnd] = "live"
        <5>1. PICK f : f = FrontAcquired
          OBVIOUS
        <5>2. Acquired(step) = <<step>> \o f
          BY <2>1, <5>1, KindIs DEF Acquired
        <5>3. f \in Seq(Objects)
          <6>1. f = <<Fd(FrontEnd)>> \/ f = <<FrontData, Sockets(FrontEnd)>>
            BY <5>1 DEF FrontAcquired
          <6>2. Fd(FrontEnd) \in Objects /\ FrontData \in Objects /\ Sockets(FrontEnd) \in Objects
            BY PartObjects DEF FdOwners
          <6>3. PICK a, b, c : a = Fd(FrontEnd) /\ b = FrontData /\ c = Sockets(FrontEnd)
            OBVIOUS
          <6>4. <<a>> \in Seq(Objects) /\ <<b, c>> \in Seq(Objects)
            BY <6>2, <6>3
          <6> QED
            BY <6>1, <6>3, <6>4
        <5>4. k \in 1..Len(Acquired(step))
          BY <1>2, <2>4
        <5>5. step \in xs
          BY <1>2, <5>2, <5>3, <5>4, FirstIs
        <5> QED
          BY <1>1, <2>1, <4>2, <5>5
      <4> QED
        BY <4>1, <4>3, <4>4, <4>5 DEF Excused, GoingIn
    <3>5. \A x \in Objects : x \in xs => x \in {step} \/ x \in Y \/ x \in E \/ Excused(mem', chain', x)
      BY <3>4
    <3> HIDE DEF xs
    <3>6. PICK p : p = {step}
      OBVIOUS
    <3>7. IsList(path, p, SafeOrder) /\ p \subseteq Family(q)
          /\ \A x \in Objects : x \in xs => x \in p \/ x \in Y \/ x \in E \/ Excused(mem', chain', x)
      BY <3>1, <3>2, <3>5, <3>6
    <3> QED
      BY <1>6, <1>7, <3>3, <3>7, PathDown
  <2> QED
    BY <2>3, <2>4
<1>10. CASE step[1] = "timer"
  <2>1. step # FrontEnd
    BY <1>10, KindIs
  <2>2. k = 0 /\ path = <<>>
    BY <1>10, <2>1 DEF ErrorPaths
  <2>3. IsList(path, {}, SafeOrder) /\ Before({}, E, sources) /\ Family({}) = {}
    BY <2>2, NoBefore
  <2>4. xs = {}
    BY <1>3, <2>2
  <2>5. \A x \in Objects : x \in xs => x \in {} \/ x \in Y \/ x \in E \/ Excused(mem', chain', x)
    BY <2>4
  <2>6. step \notin xs
    BY <2>4
  <2> HIDE DEF xs
  <2> QED
    BY <1>7, <2>3, <2>5, <2>6, PathDown
<1>11. CASE step[1] = "slot" /\ path # Reverse(SubSeq(Acquired(step), 1, k))
  <2>1. step # FrontEnd
    BY <1>11, KindIs
  <2>2. mode = "rcfg_test" /\ k = 3 /\ path = <<Driver(step), step>>
    BY <1>11, <2>1 DEF ErrorPaths, NullErrorPaths
  <2>3. step \in Slots /\ ~InPartition(step[2], step[3])
    BY <1>11, SlotNotYet
  <2>4. /\ xs = {step, Driver(step), Sockets(Driver(step))}
        /\ IsList(path, {Driver(step), step}, SafeOrder)
        /\ {Driver(step), step} \subseteq ToSet(Acquired(step))
    BY <2>2, <2>3, NullPath
  <2>5. Before(q, E, sources) /\ (\A r \in q : r[1] \notin {"tokens", "task"}) /\ step[1] # "timer"
    BY <1>5, <1>11, StepBefore
  <2>6. ASSUME NEW x \in Objects, x = Sockets(Driver(step)) PROVE Excused(mem', chain', x)
    <3>1. Root(x) = step
      BY <2>3, <2>6, DriverFacts DEF DriverSet
    <3>2. /\ mem' = [z \in Objects |-> IF z \in xs THEN "live" ELSE mem[z]]
          /\ chain' = (path \o then) \o ErrorChain(sources)
      BY <1>7 DEF FailsFreeing, StartFreeing
    <3>3. mem'[step] = "live"
      BY <1>1, <2>4, <3>2
    <3>4. step \in ToSet(chain')
      BY <2>4, <3>2, PathIn
    <3> QED
      BY <1>11, <2>2, <2>3, <2>6, <3>1, <3>3, <3>4 DEF Excused, GoingIn
  <2>7. PICK p : p = {Driver(step), step}
    OBVIOUS
  <2>8. \A x \in Objects : x \in xs => x \in p \/ x \in Y \/ x \in E \/ Excused(mem', chain', x)
    BY <2>4, <2>6, <2>7
  <2>9. IsList(path, p, SafeOrder) /\ p \subseteq Family(q)
    BY <1>6, <2>4, <2>7
  <2> HIDE DEF xs
  <2> QED
    BY <1>6, <1>7, <2>5, <2>8, <2>9, PathDown
<1>12. CASE path = Reverse(SubSeq(Acquired(step), 1, k)) /\ step[1] \notin {"devcfg", "front", "timer"}
  <2>1. step # FrontEnd
    BY <1>12, KindIs
  <2>2. k # Len(Acquired(step))
    BY <1>12, <2>1 DEF ErrorPaths
  <2>3. CASE step[1] \in {"reactor", "buffctl", "slot", "signals"}
    <3>1. Before({step}, ErrorRoots(sources), sources) /\ step[1] \notin {"tokens", "task"}
          /\ step[1] # "timer"
      BY <2>3, StepBefore
    <3> HIDE DEF xs
    <3> QED
      BY <1>12, <3>1, ReversedDown
  <2>4. CASE step[1] \notin {"reactor", "buffctl", "slot", "signals"}
    <3>1. step \notin Slots /\ step \notin FdOwners /\ step # <<"devcfg">>
      BY <1>12, <2>4, OwnerKinds
    <3>2. Acquired(step) = <<step>>
      BY <1>1, <3>1, AloneLists
    <3>3. k = 0
      BY <2>2, <3>2
    <3> QED
      BY <1>12, <3>3, ReversedDown
  <2> QED
    BY <2>3, <2>4
<1>13. step[1] \notin {"devcfg", "front", "timer", "slot"} => path = Reverse(SubSeq(Acquired(step), 1, k))
  <2> SUFFICES ASSUME step[1] \notin {"devcfg", "front", "timer", "slot"}
               PROVE  path = Reverse(SubSeq(Acquired(step), 1, k))
    OBVIOUS
  <2>1. step # FrontEnd
    BY KindIs
  <2> QED
    BY <2>1 DEF ErrorPaths
<1> QED
  BY <1>8, <1>9, <1>10, <1>11, <1>12, <1>13

-----------------------------------------------------------------------------
(* The steps of start-up. *)

LEMMA StillUp ==
    ASSUME StartInv', Phase(step') <= 14
    PROVE  DownInv'
<1>1. Phase(step)' = Phase(step')
  BY DEF Phase
<1>2. chain' = <<>> /\ misuse' = {}
  BY <1>1 DEF StartInv, StartsOK, MemoryNow
<1>3. step'[1] \notin {"freeing", "exited"}
  BY PhaseIs
<1>4. chain' \in Seq(Objects)
  BY <1>2
<1>5. FreesAreSafe'
  BY <1>2 DEF FreesAreSafe
<1> QED
  BY <1>3, <1>4, <1>5 DEF DownInv

LEMMA ConstructsDown ==
    ASSUME StartInv, StartInv', Phase(step) <= 12, step \in Whole,
           NEW then, NEW next, Constructs(step, then, next), Phase(next) <= 14,
           slots_count' = slots_count
           \/ (step[1] = "timer" /\ (mem'[Fd(step)] # "live" => slots_count' = slots_count)),
           task_partition' = task_partition,
           NEW Y, ThenFrees(then, Y)
    PROVE  DownInv'
<1>1. CASE Creates(ToSet(Acquired(step)), next)
  <2>1. step' = next
    BY <1>1 DEF Creates
  <2> QED
    BY <2>1, StillUp
<1>2. ASSUME NEW k \in 0..Len(Acquired(step)), NEW path \in ErrorPaths(step, k),
             FailsFreeing(ToSet(SubSeq(Acquired(step), 1, k)), path \o then)
      PROVE  DownInv'
  <2>1. CASE slots_count' = slots_count
    BY <1>2, <2>1, ConstructDown
  <2>2. CASE step[1] = "timer" /\ slots_count' # slots_count
    <3>1. step # FrontEnd
      BY <2>2, KindIs
    <3>2. k = 0
      BY <2>2, <3>1 DEF ErrorPaths
    <3>3. Acquired(step) \in Seq(Objects)
      <4>1. step \in Roots
        BY WholeRoots
      <4> QED
        BY <4>1, FamilyIs DEF ListsOK, IsList
    <3>4. SubSeq(Acquired(step), 1, 0) = <<>>
      BY <3>3
    <3>5. ToSet(SubSeq(Acquired(step), 1, k)) = {}
      BY <3>2, <3>4 DEF ToSet
    <3>6. mem' = [z \in Objects |-> IF z \in ToSet(SubSeq(Acquired(step), 1, k)) THEN "live" ELSE mem[z]]
      BY <1>2 DEF FailsFreeing, StartFreeing
    <3>7. step \in Timers
      BY <2>2, WholeKinds, KindIs, WholeObjects DEF BaseKinds
    <3>8. Fd(step) \in Objects /\ Fd(step) \in Parts /\ Fd(step)[2] = step
      BY <3>7, PartIs DEF Parts, Objects, Fd
    <3>9. Root(Fd(step)) = step
      <4>1. Root(step) = step
        BY WholeRoots
      <4> QED
        BY <3>8, <4>1, PartOf
    <3>10. ~Made(step, step)
      <4>1. mem[step] = "none"
        BY <2>2, TimerNotYet
      <4>2. Phase(step) <= 14
        BY PhaseIs
      <4> QED
        BY <4>1, <4>2, MadeLive
    <3>11. mem[Fd(step)] = "none"
      <4>1. Fd(step)[1] # "client"
        BY <3>8, RootIs
      <4>2. Phase(step) <= 14
        BY PhaseIs
      <4>3. MemoryNow
        BY <4>2, NoMisuse
      <4> QED
        BY <3>8, <3>9, <3>10, <4>1, <4>3 DEF MemoryNow
    <3>12. mem'[Fd(step)] # "live"
      BY <3>5, <3>6, <3>8, <3>11
    <3> QED
      BY <2>2, <3>12
  <2> QED
    BY <2>1, <2>2
<1> QED
  BY <1>1, <1>2 DEF Constructs

\* A failure outside the constructors.
LEMMA TokensDown ==
    ASSUME StartInv, Phase(step) <= 12, NEW xs, NEW then, FailsFreeing(xs, then),
           slots_count' = slots_count, task_partition' = task_partition,
           NEW Y, ThenFrees(then, Y), step[1] # "timer",
           \A x \in Objects : x \in xs => x \in Y \/ x \in ErrorRoots(sources) \/ Excused(mem', chain', x)
    PROVE  DownInv'
<1>1. PICK t : t = then
  OBVIOUS
<1>2. t \in Seq(Objects)
  <2>1. ArchTokens \in Objects /\ TaskTokens \in Objects
    BY WholeObjects
  <2>2. <<ArchTokens>> \in Seq(Objects) /\ <<TaskTokens>> \in Seq(Objects) /\ <<>> \in Seq(Objects)
    BY <2>1
  <2> QED
    BY <1>1, <2>2 DEF ThenFrees
<1>3. <<>> \o t = t
  BY <1>2
<1>4. FailsFreeing(xs, <<>> \o t) /\ ThenFrees(t, Y)
  BY <1>1, <1>3
<1>5. IsList(<<>>, {}, SafeOrder) /\ Before({}, ErrorRoots(sources), sources) /\ Family({}) = {}
  BY NoBefore
<1> QED
  BY <1>4, <1>5, PathDown

LEMMA NextPhases ==
    /\ \A p, s : Phase(SlotStep(p, s)) <= 14
    /\ \A i : Phase(TaskStep(i)) <= 14
    /\ \A i, s, c : Phase(BitsStep(i, s, c)) <= 14
    /\ \A p, s : Phase(Timer(p, s)) <= 14 /\ Phase(Partition(p)) <= 14
    /\ Phase(Signals) <= 14 /\ Phase(FrontEnd) <= 14 /\ Phase(<<"hw_tasks">>) <= 14
    /\ \A n : Phase(<<"register", n>>) <= 14
<1>1. \A p, s : SlotStep(p, s)[1] \in {"slot", "partition", "hw_tasks"}
  BY KindIs DEF SlotStep
<1>2. \A i : TaskStep(i)[1] \in {"task", "front"}
  BY KindIs DEF TaskStep
<1>3. \A i, s, c : BitsStep(i, s, c)[1] \in {"bits", "config"}
  BY KindIs DEF BitsStep
<1>4. \A n : <<"register", n>>[1] = "register"
  OBVIOUS
<1> QED
  BY <1>1, <1>2, <1>3, <1>4, KindIs, PhaseIs

LEMMA CreateBaseDown ==
    ASSUME StartInv, StartInv', CreateBase
    PROVE  DownInv'
<1>1. PICK k \in 1..6 : step = BaseSteps[k] /\ Constructs(step, <<>>, BaseSteps[k + 1])
  BY BasePhases DEF CreateBase
<1>2. step \in Whole /\ Phase(step) = k /\ Phase(BaseSteps[k + 1]) = k + 1
  BY <1>1, BasePhases
<1>3. slots_count' = slots_count /\ task_partition' = task_partition
  BY DEF CreateBase, layout
<1>4. ThenFrees(<<>>, {})
  BY <1>2 DEF ThenFrees
<1> QED
  BY <1>1, <1>2, <1>3, <1>4, ConstructsDown

LEMMA CreatePartsDown ==
    ASSUME StartInv, StartInv', CreatePartition \/ CreateSlot \/ CreateTimer
    PROVE  DownInv'
<1>1. step[1] \in {"partition", "slot", "timer"}
  BY DEF CreatePartition, CreateSlot, CreateTimer
<1>2. Phase(step) = 8
  BY <1>1, PhaseIs
<1>3. step \in Whole
  BY <1>1, StepIs, StartLayout, MadeObjects DEF StartInv
<1>4. ThenFrees(<<ArchTokens>>, {ArchTokens})
  BY <1>2 DEF ThenFrees
<1>5. PICK next : Constructs(step, <<ArchTokens>>, next) /\ Phase(next) <= 14
  BY NextPhases DEF CreatePartition, CreateSlot, CreateTimer
<1>6. task_partition' = task_partition
  BY DEF CreatePartition, CreateSlot, CreateTimer, layout
<1>7. slots_count' = slots_count
      \/ (step[1] = "timer" /\ (mem'[Fd(step)] # "live" => slots_count' = slots_count))
  BY DEF CreatePartition, CreateSlot, CreateTimer, layout
<1> QED
  BY <1>2, <1>3, <1>4, <1>5, <1>6, <1>7, ConstructsDown

LEMMA CreateLateDown ==
    ASSUME StartInv, StartInv', CreateListener \/ CreateCyclicClient \/ CreateSignals
    PROVE  DownInv'
<1>1. step \in {FrontEnd, Signals} /\ slots_count' = slots_count /\ task_partition' = task_partition
  BY DEF CreateListener, CreateCyclicClient, CreateSignals, layout
<1>2. step[1] \in {"front", "signals"} /\ Phase(step) \in {11, 12} /\ step \in Whole
  BY <1>1, KindIs, PhaseIs, StartLayout, MadeObjects
<1>3. ThenFrees(<<>>, {})
  BY <1>2 DEF ThenFrees
<1>4. CASE \E next : Constructs(step, <<>>, next) /\ Phase(next) <= 14
  BY <1>1, <1>2, <1>3, <1>4, ConstructsDown
<1>5. CASE Fails({})
  BY <1>1, <1>2, <1>3, <1>5, FailsIs, TokensDown
<1>6. CASE step = FrontEnd /\ FailsFreeing({FrontEnd}, <<FrontEnd>>)
  <2>1. FrontEnd \in Objects /\ FrontEnd[1] = "front"
    BY <1>2, <1>6, WholeRoots, KindIs
  <2>2. PICK q : q = {FrontEnd}
    OBVIOUS
  <2>3. PICK path : path = <<FrontEnd>>
    OBVIOUS
  <2>4. path \in Seq(Objects)
    BY <2>1, <2>3
  <2>5. FailsFreeing(q, path \o <<>>)
    BY <1>6, <2>2, <2>3, <2>4
  <2>6. IsList(path, q, SafeOrder)
    BY <2>1, <2>2, <2>3, OneList
  <2>7. q \in SUBSET Roots /\ q \subseteq Family(q)
    <3>1. FrontEnd \in Roots
      BY FrontIs
    <3> QED
      BY <2>2, <3>1, FamilyIs, FamilyOf
  <2>8. Before(q, ErrorRoots(sources), sources) /\ (\A r \in q : r[1] \notin {"tokens", "task"})
        /\ step[1] # "timer"
    BY <1>6, <2>1, <2>2, StepBefore
  <2>9. \A x \in Objects : x \in q =>
            x \in q \/ x \in {} \/ x \in ErrorRoots(sources) \/ Excused(mem', chain', x)
    OBVIOUS
  <2>10. Phase(step) <= 12
    BY <1>2
  <2> QED
    BY <1>1, <1>3, <2>5, <2>6, <2>7, <2>8, <2>9, <2>10, PathDown, ZenonT(40)
<1> QED
  BY <1>4, <1>5, <1>6, NextPhases DEF CreateListener, CreateCyclicClient, CreateSignals

LEMMA ReadDown ==
    ASSUME StartInv, StartInv', ReadArch \/ ReadTasks
    PROVE  DownInv'
<1>1. slots_count' = slots_count /\ task_partition' = task_partition
  BY DEF ReadArch, ReadTasks, layout
<1>2. CASE ReadArch
  <2>1. step = <<"arch">> /\ Phase(step) = 7 /\ step[1] # "timer"
    BY <1>2, KindIs, PhaseIs DEF ReadArch
  <2>2. PICK fits, next : Tokenizes(ArchTokens, fits, next) /\ Phase(next) <= 14
    BY <1>2, NextPhases DEF ReadArch
  <2>3. ThenFrees(<<>>, {}) /\ ThenFrees(<<ArchTokens>>, {ArchTokens})
    BY <2>1 DEF ThenFrees
  <2>4. CASE Creates({ArchTokens}, next)
    <3>1. step' = next
      BY <2>4 DEF Creates
    <3> QED
      BY <2>2, <3>1, StillUp
  <2>5. CASE Fails({})
    BY <1>1, <2>1, <2>3, <2>5, FailsIs, TokensDown
  <2>6. CASE FailsFreeing({ArchTokens}, <<ArchTokens>>)
    <3>1. PICK q : q = {ArchTokens}
      OBVIOUS
    <3>2. \A x \in Objects : x \in q => x \in q \/ x \in ErrorRoots(sources) \/ Excused(mem', chain', x)
      OBVIOUS
    <3> QED
      BY <1>1, <2>1, <2>3, <2>6, <3>1, <3>2, TokensDown
  <2>7. CASE Fails({ArchTokens})
    <3>1. FailsFreeing({ArchTokens}, <<>>)
      BY <2>7, FailsIs
    <3>2. mem' = [z \in Objects |-> IF z \in {ArchTokens} THEN "live" ELSE mem[z]]
      BY <3>1 DEF FailsFreeing, StartFreeing
    <3>3. \A y \in ArchObjects : y \in Objects /\ mem[y] = "none"
      BY <2>1, AllMade
    <3>4. \A y \in ArchObjects : y # ArchTokens
      BY KindIs DEF ArchObjects
    <3>5. AllOrNoneIn(mem', ArchObjects)
      BY <3>2, <3>3, <3>4 DEF AllOrNoneIn
    <3>6. Excused(mem', chain', ArchTokens)
      BY <3>5 DEF Excused
    <3> QED
      BY <1>1, <2>1, <2>3, <3>1, <3>6, TokensDown
  <2> QED
    BY <2>2, <2>4, <2>5, <2>6, <2>7 DEF Tokenizes
<1>3. CASE ReadTasks
  <2>1. step = <<"hw_tasks">> /\ Phase(step) = 9 /\ step[1] # "timer"
    BY <1>3, KindIs, PhaseIs DEF ReadTasks
  <2>2. PICK fits, next : Tokenizes(TaskTokens, fits, next) /\ Phase(next) <= 14
    BY <1>3, NextPhases DEF ReadTasks
  <2>3. ThenFrees(<<>>, {}) /\ ThenFrees(<<TaskTokens>>, {TaskTokens})
    BY <2>1 DEF ThenFrees
  <2>4. CASE Creates({TaskTokens}, next)
    <3>1. step' = next
      BY <2>4 DEF Creates
    <3> QED
      BY <2>2, <3>1, StillUp
  <2>5. CASE Fails({})
    BY <1>1, <2>1, <2>3, <2>5, FailsIs, TokensDown
  <2>6. CASE FailsFreeing({TaskTokens}, <<TaskTokens>>)
    <3>1. PICK q : q = {TaskTokens}
      OBVIOUS
    <3>2. \A x \in Objects : x \in q => x \in q \/ x \in ErrorRoots(sources) \/ Excused(mem', chain', x)
      OBVIOUS
    <3> QED
      BY <1>1, <2>1, <2>3, <2>6, <3>1, <3>2, TokensDown
  <2>7. CASE Fails({TaskTokens})
    <3>1. FailsFreeing({TaskTokens}, <<>>)
      BY <2>7, FailsIs
    <3>2. mem' = [z \in Objects |-> IF z \in {TaskTokens} THEN "live" ELSE mem[z]]
      BY <3>1 DEF FailsFreeing, StartFreeing
    <3>3. \A y \in TaskObjects : y \in Objects /\ mem[y] = "none"
      BY <2>1, AllMade
    <3>4. \A y \in TaskObjects : y # TaskTokens
      BY KindIs DEF TaskObjects
    <3>5. AllOrNoneIn(mem', TaskObjects)
      BY <3>2, <3>3, <3>4 DEF AllOrNoneIn
    <3>6. Excused(mem', chain', TaskTokens)
      BY <3>5 DEF Excused
    <3> QED
      BY <1>1, <2>1, <2>3, <3>1, <3>6, TokensDown
  <2> QED
    BY <2>2, <2>4, <2>5, <2>6, <2>7 DEF Tokenizes
<1> QED
  BY <1>2, <1>3

\* What a failed load holds is freed with its hw-task, or excused.
LEMMA LoadExcused ==
    ASSUME StartInv, step[1] = "bits",
           NEW left \in FailedLoads(step[2], step[3]), FailsFreeing(left, <<TaskTokens>>)
    PROVE  \A x \in left : x \in ErrorRoots(sources) \/ Excused(mem', chain', x)
<1> PICK i \in TaskNumbers : task_partition[i] # 0 /\ \E s \in SlotsOf(i) : step = Bits(i, s)
  BY StepIs DEF StartInv, StartsOK
<1>1. PICK s \in SlotsOf(i) : task_partition[i] # 0 /\ step = Bits(i, s)
  OBVIOUS
<1>2. step[2] = i /\ step[3] = s
  BY <1>1, KindIs
<1>3. FilesGiven /\ SlotsOf(i) \subseteq SlotNumbers /\ slots_count[task_partition[i]] \in Nat
      /\ TaskNumbers \subseteq Lines(TaskFiles) /\ SlotNumbers \subseteq Nat \ {0}
      /\ Lines(TaskFiles) \subseteq Nat \ {0}
  BY <1>1, StartLayout, LayoutCounts, FileFacts
<1>4. s \in SlotNumbers /\ i \in Lines(TaskFiles) /\ i \in Nat /\ s \in Nat \ {0}
  BY <1>1, <1>3
<1>5. Phase(step) = 10 /\ TasksUpTo(step, i, i + 1, s)
  BY <1>1, <1>3, <1>4, AtTasks
<1>6. Bits(i, s) \in ErrorRoots(sources)
  <2>1. Bits(i, s) \in TaskRoots(i)
    BY <1>1 DEF TaskRoots
  <2> QED
    BY <1>1, <1>5, <2>1 DEF ErrorRoots, LayoutRoots
<1>7. /\ FrontEnd \in Whole /\ FrontEnd[1] = "front"
      /\ \A j \in Lines(TaskFiles) : HwTask(j) \in Whole /\ HwTask(j)[1] = "task"
      /\ \A r \in SlotNumbers : Bits(i, r) \in Whole /\ (Bits(i, r) = Bits(i, s) <=> r = s)
  <2>1. \A x \in Objects : x[1] \in {"front", "task", "bits"} => x \in Whole
    BY RootIs DEF Whole
  <2> QED
    BY <1>4, <2>1, WholeObjects, KindIs
<1>8. /\ \A x \in Objects : x \in left => mem'[x] = "live"
      /\ \A x \in Objects : x \notin left => mem'[x] = mem[x]
      /\ chain' = <<TaskTokens>> \o ErrorChain(sources)
  BY DEF FailsFreeing, StartFreeing
<1>9. /\ left \subseteq {BitsFile(i, s), Bits(i, s), BitsMapping(i, s)}
      /\ BitsMapping(i, s) \in left => Bits(i, s) \in left
  BY <1>2, KindIs DEF FailedLoads
<1>10. \A r \in Whole : r # Bits(i, s) => mem'[r] = IF Made(step, r) THEN "live" ELSE "none"
  <2>1. \A r \in Whole : r \in Objects /\ r # BitsFile(i, s) /\ r # BitsMapping(i, s)
    BY KindIs DEF Whole
  <2> QED
    BY <1>5, <1>8, <1>9, <2>1, MadeLive
<1>11. LastLoadIn(mem', i, s)
  <2>1. /\ Made(step, HwTask(i)) /\ \A j \in Lines(TaskFiles) : j > i => ~Made(step, HwTask(j))
        /\ \A j : HwTask(j) # Bits(i, s)
    BY <1>1, <1>3, <1>4, <1>5, MadeIs, KindIs DEF TasksUpTo
  <2>2. mem'[HwTask(i)] # "none" /\ \A j \in Lines(TaskFiles) : j > i => mem'[HwTask(j)] = "none"
    BY <1>4, <1>7, <1>10, <2>1
  <2>3. ASSUME NEW r \in SlotNumbers, r # s PROVE mem'[Bits(i, r)] = "none" <=> r > s
    <3>1. Made(step, Bits(i, r)) <=> r \in SlotsOf(i) /\ BitsMade(step, i, r)
      BY <1>1, MadeIs
    <3>2. Made(step, Bits(i, r)) <=> r \in SlotsOf(i) /\ r < s
      BY <1>1, <1>4, <1>5, <3>1 DEF TasksUpTo
    <3>3. r \in SlotsOf(i) /\ r < s <=> ~(r > s)
      BY <1>1, <1>3, <1>4, <2>3 DEF SlotsOf
    <3> QED
      BY <1>7, <1>10, <2>3, <3>2, <3>3
  <2>4. mem'[FrontEnd] = "none"
    <3>1. ~Made(step, FrontEnd)
      BY <1>5, MadeIs, PhaseIs DEF BaseKinds, FrontEnd
    <3> QED
      BY <1>7, <1>10, <3>1, KindIs
  <2> QED
    BY <2>2, <2>3, <2>4 DEF LastLoadIn
<1>12. BitsMapping(i, s) \in left => GoingIn(mem', chain', Bits(i, s))
  <2>1. Bits(i, s) \in Objects /\ Bits(i, s) \in ToSet(Acquired(Bits(i, s)))
    BY <1>4, <1>7, WholeRoots
  <2>2. /\ ErrorChain(sources) \in Seq(Objects)
        /\ ToSet(ErrorChain(sources)) = Family(ErrorRoots(sources))
    BY <1>5, ErrorLists, EarlyTable DEF IsList
  <2>3. Bits(i, s) \in ToSet(ErrorChain(sources))
    BY <1>6, <2>1, <2>2 DEF Family
  <2>4. TaskTokens \in Objects
    BY WholeObjects
  <2>5. <<TaskTokens>> \in Seq(Objects)
    BY <2>4
  <2>6. PICK u, e : u = <<TaskTokens>> /\ e = ErrorChain(sources)
    OBVIOUS
  <2>7. ToSet(u \o e) = ToSet(u) \cup ToSet(e)
    <3>1. u \in Seq(Objects) /\ e \in Seq(Objects)
      BY <2>2, <2>5, <2>6
    <3> QED
      BY <3>1, ConcatSet
  <2>8. Bits(i, s) \in ToSet(chain')
    BY <1>8, <2>3, <2>6, <2>7
  <2> QED
    BY <1>8, <1>9, <2>1, <2>8 DEF GoingIn
<1>13. ASSUME NEW x \in left PROVE x \in ErrorRoots(sources) \/ Excused(mem', chain', x)
  <2>1. CASE x = Bits(i, s)
    BY <1>6, <2>1
  <2>2. CASE x = BitsFile(i, s)
    BY <1>11, <2>2, KindIs DEF Excused
  <2>3. CASE x = BitsMapping(i, s)
    BY <1>11, <1>12, <1>13, <2>3, KindIs DEF Excused
  <2> QED
    BY <1>9, <1>13, <2>1, <2>2, <2>3
<1> QED
  BY <1>13

LEMMA TasksDown ==
    ASSUME StartInv, StartInv', CreateTask \/ LoadBits \/ ConfigureTask
    PROVE  DownInv'
<1>1. step[1] \in {"task", "bits", "config"}
  BY DEF CreateTask, LoadBits, ConfigureTask
<1>2. Phase(step) = 10 /\ step[1] # "timer"
  BY <1>1, PhaseIs
<1>3. ThenFrees(<<TaskTokens>>, {TaskTokens})
  BY <1>2 DEF ThenFrees
<1>4. CASE Phase(step') <= 14
  BY <1>4, StillUp
<1>5. ASSUME CreateTask, ~(Phase(step') <= 14) PROVE DownInv'
  <2>1. FailsFreeing({}, <<TaskTokens>>) /\ slots_count' = slots_count /\ task_partition' = task_partition
    BY <1>5, NextPhases DEF CreateTask, Creates
  <2> QED
    BY <1>2, <1>3, <2>1, TokensDown
<1>6. ASSUME LoadBits, ~(Phase(step') <= 14) PROVE DownInv'
  <2>1. slots_count' = slots_count /\ task_partition' = task_partition
    BY <1>6 DEF LoadBits, layout
  <2>2. \/ FailsFreeing({}, <<TaskTokens>>)
        \/ \E left \in FailedLoads(step[2], step[3]) : FailsFreeing(left, <<TaskTokens>>)
    BY <1>6, NextPhases DEF LoadBits, Creates
  <2>3. CASE FailsFreeing({}, <<TaskTokens>>)
    BY <1>2, <1>3, <2>1, <2>3, TokensDown
  <2>4. ASSUME NEW left \in FailedLoads(step[2], step[3]), FailsFreeing(left, <<TaskTokens>>)
        PROVE  DownInv'
    <3>1. \A x \in Objects : x \in left =>
              x \in {TaskTokens} \/ x \in ErrorRoots(sources) \/ Excused(mem', chain', x)
      BY <1>6, <2>4, LoadExcused DEF LoadBits
    <3> QED
      BY <1>2, <1>3, <2>1, <2>4, <3>1, TokensDown
  <2> QED
    BY <2>2, <2>3, <2>4
<1>7. ASSUME ConfigureTask PROVE Phase(step') <= 14
  BY <1>7, NextPhases DEF ConfigureTask
<1> QED
  BY <1>4, <1>5, <1>6, <1>7

-----------------------------------------------------------------------------
(* Registration fails. *)

\* Owned registrations have different handlers.
LEMMA RegistrationsDiffer ==
    ASSUME TypesOK, CountedUp, NEW j \in 1..Len(Registrations), NEW k \in 1..Len(Registrations), j # k
    PROVE  Registrations[j].handler # Registrations[k].handler
<1>1. Pairwise(Registrations, Differ) /\ Len(Registrations) \in Nat
  BY RegistrationsAre DEF AreEntries
<1>2. \A a, b : <<a, b>> \in Differ => a.handler # b.handler
  BY DEF Differ
<1>3. CASE j < k
  BY <1>1, <1>2, <1>3 DEF Pairwise
<1>4. CASE k < j
  BY <1>1, <1>2, <1>4 DEF Pairwise
<1> QED
  BY <1>1, <1>3, <1>4

LEMMA RegisteredTable ==
    ASSUME StartInv, Phase(step) = 13, NEW t, t \in [1..MaxSources -> {Inactive} \cup Entries],
           NEW n \in 0..Len(Registrations),
           \A k \in 1..MaxSources : t[k] = IF k <= n THEN Registrations[k] ELSE Inactive
    PROVE  StartTable(t) /\ (n # 0 => Signals \in Owners(t))
<1>1. TypesOK /\ CountedUp /\ Len(Registrations) \in Nat \ {0} /\ MaxSources \in Nat \ {0}
      /\ Registrations[1] = Source(Signals, TRUE)
  BY RegistrationsAre, StartupConstantsOK DEF StartInv
<1>2. \A k \in OwnedAt(t) : k \in 1..MaxSources /\ k \in 1..Len(Registrations)
      /\ t[k] = Registrations[k] /\ t[k].owned
  BY <1>1, NoneIsNoObject DEF OwnedAt
<1>3. \A k \in OwnedAt(t) : t[k].handler \in {Signals, FrontEnd}
  BY <1>1, <1>2, RegistrationIs, EntryKinds
<1>4. \A j, k \in OwnedAt(t) : j # k => t[j].handler # t[k].handler
  BY <1>1, <1>2, RegistrationsDiffer
<1>5. OwnedWell(t)
  BY <1>3, <1>4 DEF OwnedWell
<1>6. Owners(t) \subseteq {Signals, FrontEnd}
  BY <1>3 DEF Owners
<1>7. n # 0 => Signals \in Owners(t)
  <2> SUFFICES ASSUME n # 0 PROVE Signals \in Owners(t)
    OBVIOUS
  <2>1. n \in Nat /\ 1 <= n
    BY <1>1
  <2>2. 1 \in 1..MaxSources
    BY <1>1
  <2>3. t[1] = Registrations[1]
    BY <2>1, <2>2
  <2>4. t[1] = Source(Signals, TRUE)
    BY <1>1, <2>3
  <2>5. 1 \in OwnedAt(t) /\ t[1].handler = Signals
    BY <2>2, <2>4 DEF OwnedAt, Source
  <2> QED
    BY <2>5 DEF Owners
<1> QED
  BY <1>5, <1>6, <1>7 DEF StartTable

LEMMA RegisterFails ==
    ASSUME StartInv, step[1] = "register", NEW t, StartTable(t), Signals \in Owners(t),
           step' = <<"freeing">>, UNCHANGED <<files, layout, misuse>>, sources' = t,
           \A x \in Objects : mem'[x] = mem[x],
           chain' = ErrorChain(t) \/ chain' = <<>> \o ErrorChain(t)
    PROVE  DownInv'
<1>1. Phase(step) = 13 /\ Phase(step) <= 13 /\ Phase(step) <= 14 /\ Phase(step) < 14
  BY PhaseIs
<1>2. misuse = {} /\ MemoryNow /\ NoClients
  BY <1>1, NoMisuse DEF StartInv, StartsOK
<1>3. KeepsMemory(mem')
  <2>1. \A x \in Objects : mem[x] \in {"none", "live"}
    BY <1>2, ClientIs DEF MemoryNow, NoClients, Clients
  <2> QED
    BY <2>1 DEF KeepsMemory
<1>4. NewCovered(mem', chain', {}, t)
  BY DEF NewCovered
<1>5. OwnFrees(<<>>, {}, {}, t)
  BY NoBefore, SafeLists, EmptyList DEF OwnFrees
<1>6. chain' = <<>> \o ErrorChain(t)
  <2>1. ErrorChain(t) \in Seq(Objects)
    BY <1>1, ErrorLists DEF IsList
  <2>2. PICK e : e = ErrorChain(t)
    OBVIOUS
  <2>3. <<>> \o e = e
    BY <2>1, <2>2
  <2> QED
    BY <2>2, <2>3
<1>7. WayDown(mem', chain', t)
  <2>1. PICK m, c : m = mem' /\ c = chain'
    OBVIOUS
  <2>2. step[1] # "timer" /\ Phase(step) # 8 /\ Phase(step) # 10
    BY <1>1
  <2>3. WayDown(m, c, t)
    BY <1>1, <1>3, <1>4, <1>5, <1>6, <2>1, <2>2, FailsWay
  <2> QED
    BY <2>1, <2>3
<1>8. (WayDown(mem, chain, sources))'
  BY <1>7, WayDownNext DEF layout
<1>9. FreesAreSafe'
  BY <1>2 DEF FreesAreSafe
<1> QED
  BY <1>7, <1>8, <1>9 DEF DownInv, WayDown

LEMMA RegisterDown ==
    ASSUME StartInv, StartInv', Register
    PROVE  DownInv'
<1>1. step[1] = "register" /\ StepOK /\ TypesOK /\ CountedUp /\ UNCHANGED layout
  BY DEF Register, StartInv
<1>2. PICK n \in 1..Len(Registrations) : step = <<"register", n>>
  BY <1>1, StepIs
<1>3. step[2] = n
  BY <1>2
<1>4. Phase(step) = 13 /\ Phase(step) <= 14
  BY <1>1, PhaseIs
<1>5. Len(Registrations) \in Nat
  BY <1>1, RegistrationsAre
<1>6. CASE InactiveEntries # {} /\ sources' = Added(Registrations[n])
           /\ StartFreeing(mem, ErrorChain(sources'))
  <2>1. PICK t : t = sources'
    OBVIOUS
  <2>2. t \in [1..MaxSources -> {Inactive} \cup Entries]
        /\ \A k \in 1..MaxSources : t[k] = IF k <= n THEN Registrations[k] ELSE Inactive
    BY <1>2, <1>6, <2>1, RegisterTakes
  <2>3. n \in 0..Len(Registrations) /\ n # 0
    BY <1>5
  <2>4. StartTable(t) /\ Signals \in Owners(t)
    BY <1>4, <2>2, <2>3, RegisteredTable
  <2>5. step' = <<"freeing">> /\ UNCHANGED <<files, misuse>> /\ mem' = mem /\ chain' = ErrorChain(t)
    BY <1>6, <2>1 DEF StartFreeing
  <2> QED
    BY <1>1, <2>1, <2>4, <2>5, RegisterFails
<1>7. CASE InactiveEntries = {} /\ Fails({})
  <2>1. TableNow /\ Filled = n - 1 /\ Phase(step) < 14
    BY <1>2, <1>3, <1>4 DEF StartInv, StartsOK, Filled
  <2>2. \A k \in 1..MaxSources : sources[k] = IF k <= n - 1 THEN Registrations[k] ELSE Inactive
    BY <1>5, <2>1, StartupConstantsOK DEF TableNow
  <2>3. MaxSources \in Nat \ {0} /\ DOMAIN sources = 1..MaxSources
        /\ sources \in [1..MaxSources -> {Inactive} \cup Entries]
    BY <1>1, StartupConstantsOK DEF TypesOK, Entries
  <2>4. sources[1] # Inactive
    BY <1>7, <2>3 DEF InactiveEntries
  <2>5. n - 1 \in 0..Len(Registrations) /\ n - 1 # 0
    BY <1>5, <2>2, <2>3, <2>4
  <2>6. StartTable(sources) /\ Signals \in Owners(sources)
    BY <1>4, <2>2, <2>3, <2>5, RegisteredTable
  <2>7. FailsFreeing({}, <<>>)
    BY <1>7, FailsIs
  <2>8. /\ step' = <<"freeing">> /\ UNCHANGED <<files, misuse>> /\ sources' = sources
        /\ \A x \in Objects : mem'[x] = mem[x]
        /\ chain' = <<>> \o ErrorChain(sources)
    BY <2>7 DEF FailsFreeing, StartFreeing
  <2>9. PICK t : t = sources
    OBVIOUS
  <2> QED
    BY <1>1, <2>6, <2>8, <2>9, RegisterFails
<1>8. CASE Phase(step') <= 14
  BY <1>8, StillUp
<1>9. (step' = <<"register", n + 1>> \/ step' = <<"running">>) => Phase(step') <= 14
  BY NextPhases, PhaseIs, KindIs
<1>10. \/ step' = <<"register", n + 1>> \/ step' = <<"running">>
       \/ InactiveEntries # {} /\ sources' = Added(Registrations[n])
          /\ StartFreeing(mem, ErrorChain(sources'))
       \/ InactiveEntries = {} /\ Fails({})
  BY <1>3 DEF Register
<1> QED
  BY <1>6, <1>7, <1>8, <1>9, <1>10

-----------------------------------------------------------------------------
(* Shutdown. *)

ShutdownRoots(table) ==
    ((((ReactorRoots(table) \cup {<<"scheduler">>}) \cup LayoutRoots) \cup {<<"devcfg">>})
     \cup {BuffCtl}) \cup {<<"logger">>}

LEMMA ShutdownWay ==
    ASSUME LayoutTyped, NEW table, NEW other, OwnedWell(table)
    PROVE  IsWay(ShutdownChain(table), ShutdownRoots(table), other)
<1> DEFINE R == ReactorRoots(table)
           S == {<<"scheduler">>}
           L == LayoutRoots
           D == {<<"devcfg">>}
           B == {BuffCtl}
           G == {<<"logger">>}
           KR == {"signals", "front", "client", "reactor"}
           KS == KR \cup {"scheduler"}
           KL == {"partition", "slot", "timer", "task", "bits", "layout"}
<1>1. /\ IsWay(ReactorFrees(table), R, other) /\ IsWay(BuffctlFrees, B, other)
      /\ IsWay(LoggerFrees, G, other) /\ IsWay(<< <<"scheduler">> >>, S, other)
      /\ IsWay(Frees(<<"devcfg">>), D, other)
      /\ \A a \in R : a[1] \in KR
  BY SegmentWays DEF LayoutTyped
<1>2. IsWay(LayoutFrees, L, other)
  BY LayoutWay
<1>3. \A a \in L : a[1] \in KL
  BY RootKinds
<1>4. BuffCtl[1] = "buffctl"
  BY KindIs DEF BuffCtl
<1>5. Before(R, S, other)
  <2>1. \A b \in S : b[1] \in {"scheduler"}
    OBVIOUS
  <2> HIDE DEF R, S
  <2> QED
    BY <1>1, <2>1, KindsBefore
<1>6. Before(R \cup S, L, other)
  <2>1. \A a \in R \cup S : a[1] \in KS
    BY <1>1
  <2>2. KS \cap KL = {} /\ "task" \notin KS /\ "buffctl" \notin KS
    OBVIOUS
  <2> HIDE DEF R, S, L, KR, KS, KL
  <2> QED
    BY <1>3, <2>1, <2>2, KindsBefore
<1>7. Before((R \cup S) \cup L, D, other)
  <2> DEFINE K == KS \cup KL
             M == {"devcfg"}
  <2>1. (\A a \in (R \cup S) \cup L : a[1] \in K) /\ (\A b \in D : b[1] \in M)
    BY <1>1, <1>3
  <2>2. K \cap M = {} /\ "bits" \notin M /\ "buffctl" \notin K
    OBVIOUS
  <2> HIDE DEF R, S, L, D, K, M
  <2> QED
    BY <2>1, <2>2, KindsBefore
<1>8. Before(((R \cup S) \cup L) \cup D, B, other)
  <2> DEFINE K == (KS \cup KL) \cup {"devcfg"}
             M == {"buffctl"}
  <2>1. (\A a \in ((R \cup S) \cup L) \cup D : a[1] \in K) /\ (\A b \in B : b[1] \in M)
    BY <1>1, <1>3, <1>4
  <2>2. K \cap M = {} /\ "bits" \notin M /\ "buffctl" \notin K
    OBVIOUS
  <2> HIDE DEF R, S, L, D, B, K, M
  <2> QED
    BY <2>1, <2>2, KindsBefore
<1>9. Before((((R \cup S) \cup L) \cup D) \cup B, G, other)
  <2> DEFINE K == ((KS \cup KL) \cup {"devcfg"}) \cup {"buffctl"}
             M == {"logger"}
  <2>1. (\A a \in (((R \cup S) \cup L) \cup D) \cup B : a[1] \in K) /\ (\A b \in G : b[1] \in M)
    BY <1>1, <1>3, <1>4
  <2>2. K \cap M = {} /\ "bits" \notin M /\ M \cap {"bits", "client", "front"} = {}
    OBVIOUS
  <2> HIDE DEF R, S, L, D, B, G, K, M
  <2> QED
    BY <2>1, <2>2, KindsBefore
<1>10. PICK r, s, l, d, b, g :
          /\ r = ReactorFrees(table) /\ s = << <<"scheduler">> >> /\ l = LayoutFrees
          /\ d = Frees(<<"devcfg">>) /\ b = BuffctlFrees /\ g = LoggerFrees
  OBVIOUS
<1>11. /\ IsWay(r, R, other) /\ IsWay(s, S, other) /\ IsWay(l, L, other)
       /\ IsWay(d, D, other) /\ IsWay(b, B, other) /\ IsWay(g, G, other)
  BY <1>1, <1>2, <1>10
<1>12. ShutdownChain(table) = r \o s \o l \o d \o b \o g
  BY <1>10 DEF ShutdownChain
<1>13. ShutdownRoots(table) = ((((R \cup S) \cup L) \cup D) \cup B) \cup G
  BY DEF ShutdownRoots
<1> HIDE DEF R, S, L, D, B, G
<1>14. IsWay(r \o s, R \cup S, other)
  BY <1>5, <1>11, JoinedWays
<1>15. IsWay(r \o s \o l, (R \cup S) \cup L, other)
  BY <1>6, <1>11, <1>14, JoinedWays
<1>16. IsWay(r \o s \o l \o d, ((R \cup S) \cup L) \cup D, other)
  BY <1>7, <1>11, <1>15, JoinedWays
<1>17. IsWay(r \o s \o l \o d \o b, (((R \cup S) \cup L) \cup D) \cup B, other)
  BY <1>8, <1>11, <1>16, JoinedWays
<1>18. IsWay(r \o s \o l \o d \o b \o g, ((((R \cup S) \cup L) \cup D) \cup B) \cup G, other)
  BY <1>9, <1>11, <1>17, JoinedWays
<1> QED
  BY <1>12, <1>13, <1>18

\* What a running server consists of is freed, but for the tokens and for slots that their
\* partition does not hold.
LEMMA RunningCovered ==
    ASSUME StartInv, step = <<"running">>, NEW table,
           Signals \in Owners(table), FrontEnd \in Owners(table),
           NEW r \in Whole, Made(step, r)
    PROVE  \/ r \in ShutdownRoots(table)
           \/ r \in {ArchTokens, TaskTokens}
           \/ r[1] \in {"slot", "timer"} /\ r[3] > MaxSlots - 1
<1>1. LayoutTyped /\ FilesGiven /\ CountedNow /\ PlacedNow /\ Phase(step) = 14 /\ MaxSlots \in Nat
  <2>1. LayoutTyped /\ FilesGiven
    BY StartLayout
  <2>2. Phase(step) = 14 /\ Phase(step) <= 14
    BY ClientEntries
  <2> QED
    BY <2>1, <2>2, StartupConstantsOK DEF StartInv, StartsOK
<1>2. CASE \E k \in BaseKinds : r = <<k>>
  <2>1. PICK k \in BaseKinds : r = <<k>>
    BY <1>2
  <2>2. r \in {<<"devcfg">>, <<"scheduler">>, <<"logger">>, <<"reactor">>, BuffCtl, <<"layout">>, FrontEnd, Signals}
    BY <2>1 DEF BaseKinds, BuffCtl, FrontEnd, Signals
  <2> QED
    BY <2>2 DEF ShutdownRoots, ReactorRoots, LayoutRoots
<1>3. LayoutRoots \subseteq ShutdownRoots(table)
  BY DEF ShutdownRoots
<1>4. CASE \E p \in Lines(ArchFiles) : r = Partition(p)
  <2>1. PICK p \in Lines(ArchFiles) : r = Partition(p)
    BY <1>4
  <2>2. p \in PartitionNumbers
    BY <2>1, MadeIs
  <2>3. r \in PartitionRoots(p)
    BY <2>1 DEF PartitionRoots
  <2> QED
    BY <1>3, <2>2, <2>3 DEF LayoutRoots
<1>5. CASE \E p \in Lines(ArchFiles), s \in SlotNumbers : r = Slot(p, s) \/ r = Timer(p, s)
  <2>1. PICK p \in Lines(ArchFiles), s \in SlotNumbers : r = Slot(p, s) \/ r = Timer(p, s)
    BY <1>5
  <2>2. p \in PartitionNumbers /\ s \in 1..SlotsWanted(p)
    BY <2>1, MadeIs
  <2>3. slots_count[p] \in Nat /\ SlotsWanted(p) \in Nat /\ s \in Nat
    BY <1>1, <2>2, LayoutCounts
  <2>4. CASE s <= slots_count[p]
    <3>1. r \in PartitionRoots(p)
      BY <2>1, <2>2, <2>3, <2>4 DEF PartitionRoots, SlotPair
    <3> QED
      BY <1>3, <2>2, <3>1 DEF LayoutRoots
  <2>5. CASE s > slots_count[p]
    <3>1. r[1] \in {"slot", "timer"} /\ r[3] = s
      BY <2>1, KindIs
    <3>2. TimersMade(step, p) = SlotsWanted(p)
      BY <1>1 DEF TimersMade
    <3>3. slots_count[p] = Lesser(SlotsWanted(p), MaxSlots - 1)
      BY <1>1, <2>2, <3>2 DEF CountedNow
    <3>4. s > MaxSlots - 1
      BY <1>1, <2>2, <2>3, <2>5, <3>3 DEF Lesser
    <3> QED
      BY <3>1, <3>4
  <2> QED
    BY <2>3, <2>4, <2>5
<1>6. CASE \E i \in Lines(TaskFiles) : r = HwTask(i)
  <2>1. PICK i \in Lines(TaskFiles) : r = HwTask(i)
    BY <1>6
  <2>2. i \in TaskNumbers /\ TaskMade(step, i)
    BY <2>1, MadeIs
  <2>3. task_partition[i] # 0
    BY <1>1, <2>2 DEF PlacedNow
  <2>4. r \in TaskRoots(i)
    BY <2>1, <2>3 DEF TaskRoots
  <2> QED
    BY <1>3, <2>2, <2>4 DEF LayoutRoots
<1>7. CASE \E i \in Lines(TaskFiles), s \in SlotNumbers : r = Bits(i, s)
  <2>1. PICK i \in Lines(TaskFiles), s \in SlotNumbers : r = Bits(i, s)
    BY <1>7
  <2>2. i \in TaskNumbers /\ task_partition[i] # 0 /\ s \in SlotsOf(i)
    BY <2>1, MadeIs
  <2>3. r \in TaskRoots(i)
    BY <2>1, <2>2 DEF TaskRoots
  <2> QED
    BY <1>3, <2>2, <2>3 DEF LayoutRoots
<1> QED
  BY <1>2, <1>4, <1>5, <1>6, <1>7, WholeKinds

\* What the reactor owns while the loop runs.
LEMMA RunningTable ==
    ASSUME StartInv, step = <<"running">>
    PROVE  /\ OwnedWell(sources) /\ Signals \in Owners(sources) /\ FrontEnd \in Owners(sources)
           /\ \A x \in Clients : mem[x] = "live" <=> x \in Owners(sources)
<1>1. /\ Len(Registrations) \in Nat /\ TypesOK /\ CountedUp /\ TableNow /\ ClientsKept
      /\ step[1] = "running" /\ Filled = Len(Registrations)
      /\ sources \in [1..MaxSources -> {Inactive} \cup Entries]
  BY ClientEntries
<1>2. /\ \A n \in 1..MaxSources : n <= Len(Registrations) => sources[n] = Registrations[n]
      /\ \A n \in 1..MaxSources : n > Len(Registrations) =>
            sources[n] = Inactive \/ (sources[n].owned /\ sources[n].handler \in Clients)
      /\ Len(Registrations) <= MaxSources /\ MaxSources \in Nat
  BY <1>1, StartupConstantsOK DEF TableNow
<1>3. \A k \in OwnedAt(sources) : sources[k].handler \in {Signals, FrontEnd} \cup Clients
  <2> SUFFICES ASSUME NEW k \in OwnedAt(sources)
               PROVE  sources[k].handler \in {Signals, FrontEnd} \cup Clients
    OBVIOUS
  <2>1. k \in 1..MaxSources /\ sources[k].owned /\ sources[k] # Inactive
    BY NoneIsNoObject DEF OwnedAt
  <2>2. CASE k <= Len(Registrations)
    <3>1. k \in 1..Len(Registrations) /\ sources[k] = Registrations[k]
      BY <1>1, <1>2, <2>1, <2>2
    <3> QED
      BY <1>1, <2>1, <3>1, RegistrationIs, EntryKinds
  <2>3. CASE k > Len(Registrations)
    BY <1>2, <2>1, <2>3
  <2> QED
    BY <1>1, <2>1, <2>2, <2>3
<1>4. \A j, k \in OwnedAt(sources) : j # k => sources[j].handler # sources[k].handler
  <2> SUFFICES ASSUME NEW j \in OwnedAt(sources), NEW k \in OwnedAt(sources),
                      sources[j].handler = sources[k].handler
               PROVE  j = k
    OBVIOUS
  <2>1. j \in DOMAIN sources /\ k \in DOMAIN sources /\ sources[j] # Inactive /\ sources[k] # Inactive
    BY <1>1, NoneIsNoObject DEF OwnedAt
  <2>2. Occurrences(sources[j].handler) = {j} /\ Occurrences(sources[k].handler) = {k}
    BY <2>1, RunsLive DEF SourcesLive
  <2> QED
    BY <2>2
<1>5. OwnedWell(sources)
  BY <1>1, <1>3, <1>4 DEF OwnedWell
<1>6. Signals \in Owners(sources) /\ FrontEnd \in Owners(sources)
  <2>1. /\ Registrations[1] = Source(Signals, TRUE)
        /\ Registrations[Len(Registrations)] = Source(FrontEnd, TRUE)
        /\ Len(Registrations) # 0
    BY <1>1, RegistrationsAre
  <2>2. 1 \in 1..MaxSources /\ 1 <= Len(Registrations) /\ Len(Registrations) \in 1..MaxSources
    BY <1>1, <1>2, <2>1
  <2>3. sources[1] = Source(Signals, TRUE) /\ sources[Len(Registrations)] = Source(FrontEnd, TRUE)
    <3>1. sources[1] = Registrations[1]
      BY <1>2, <2>2
    <3>2. Len(Registrations) <= Len(Registrations)
      BY <1>1
    <3>3. sources[Len(Registrations)] = Registrations[Len(Registrations)]
      BY <1>2, <2>2, <3>2
    <3> QED
      BY <2>1, <3>1, <3>3
  <2>4. \A x : Source(x, TRUE).owned /\ Source(x, TRUE).handler = x
    BY DEF Source
  <2>5. /\ 1 \in OwnedAt(sources) /\ sources[1].handler = Signals
        /\ Len(Registrations) \in OwnedAt(sources) /\ sources[Len(Registrations)].handler = FrontEnd
    BY <2>2, <2>3, <2>4 DEF OwnedAt
  <2> QED
    BY <2>5 DEF Owners
<1>7. ASSUME NEW x \in Clients PROVE mem[x] = "live" <=> x \in Owners(sources)
  <2>1. DOMAIN sources = 1..MaxSources
    BY <1>1
  <2>2. ASSUME mem[x] = "live" PROVE x \in Owners(sources)
    <3>1. PICK k \in 1..MaxClients : x = Client(k)
      BY DEF Clients
    <3>2. Occurrences(Client(k)) # {}
      BY <1>1, <2>2, <3>1 DEF ClientsKept
    <3>3. PICK n \in 1..MaxSources : sources[n].handler = x
      BY <2>1, <3>1, <3>2 DEF Occurrences
    <3>4. sources[n].owned
      <4>1. sources[n] # Inactive
        BY <3>3, NoneIsNoObject, WholeObjects DEF Clients
      <4>2. ~(n <= Len(Registrations))
        BY <3>3, ClientEntries
      <4> QED
        BY <1>1, <1>2, <4>1, <4>2
    <3> QED
      BY <3>3, <3>4 DEF Owners, OwnedAt
  <2>3. ASSUME x \in Owners(sources) PROVE mem[x] = "live"
    BY <1>1, <2>3 DEF Owners, OwnedAt, ClientsKept
  <2> QED
    BY <2>2, <2>3
<1> QED
  BY <1>5, <1>6, <1>7

LEMMA LeavesDown ==
    ASSUME StartInv, step = <<"running">>, NEW m, NEW t, Leaves(m, t), UNCHANGED layout,
           OwnedWell(t), Signals \in Owners(t), FrontEnd \in Owners(t),
           \A x \in Objects : x \notin Clients => m[x] = mem[x],
           \A x \in Objects : mem[x] # "none" => m[x] # "none",
           \A x \in Clients : m[x] = "live" =>
              \/ x \in Owners(t)
              \/ /\ Len(Registrations) + x[2] > MaxSources
                 /\ \A k \in (x[2] + 1)..MaxClients : m[Client(k)] = "none",
           \A x \in Clients : m[x] = "freed" => x \notin Owners(t)
    PROVE  DownInv'
<1>1. /\ step' = <<"freeing">> /\ mem' = m /\ chain' = ShutdownChain(t) /\ UNCHANGED <<files, misuse>>
  BY DEF Leaves, StartFreeing
<1>2. Phase(step) = 14 /\ Phase(step) <= 14 /\ TypesOK /\ LayoutTyped /\ FilesGiven /\ MemoryNow
      /\ misuse = {}
  <2>1. Phase(step) = 14 /\ TypesOK
    BY ClientEntries
  <2>2. Phase(step) <= 14
    BY <2>1
  <2> QED
    BY <2>1, <2>2, NoMisuse, StartLayout
<1>3. PICK c, S : c = chain' /\ S = ShutdownRoots(t)
  OBVIOUS
<1>4. IsWay(c, S, sources')
  <2>1. PICK o : o = sources'
    OBVIOUS
  <2>2. IsWay(ShutdownChain(t), ShutdownRoots(t), o)
    BY <1>2, ShutdownWay
  <2> QED
    BY <1>1, <1>3, <2>1, <2>2
<1>5. S \in SUBSET Roots /\ c \in Seq(Objects) /\ ToSet(c) = Family(S) /\ Pairwise(c, OrderIn(sources'))
  BY <1>4 DEF IsWay, IsList
<1>6. \A x \in Clients : x \in Roots /\ x \in Objects /\ x[1] = "client" /\ (x \in S <=> x \in Owners(t))
  <2> SUFFICES ASSUME NEW x \in Clients
               PROVE  x \in Roots /\ x \in Objects /\ x[1] = "client" /\ (x \in S <=> x \in Owners(t))
    OBVIOUS
  <2>1. x \in Objects /\ x \in Roots /\ x[1] = "client"
    BY OwnerIs, ClientIs DEF Roots
  <2>2. x \notin LayoutRoots
        /\ x \notin {<<"reactor">>, <<"scheduler">>, <<"devcfg">>, BuffCtl, <<"logger">>}
    BY <2>1, RootKinds, KindIs DEF BuffCtl
  <2> QED
    BY <1>3, <2>1, <2>2 DEF ShutdownRoots, ReactorRoots
<1>7. ASSUME NEW x \in Objects, m[x] = "live" PROVE x \in ToSet(c) \/ Excused(m, c, x)
  <2>1. CASE x \in Clients
    <3>1. CASE x \in Owners(t)
      BY <1>5, <1>6, <2>1, <3>1, FamilyHas
    <3>2. CASE x \notin Owners(t)
      BY <1>6, <1>7, <2>1, <3>2 DEF Excused
    <3> QED
      BY <3>1, <3>2
  <2>2. CASE x \notin Clients
    <3> DEFINE r == Root(x)
    <3>1. mem[x] = "live" /\ x[1] # "client"
      BY <1>7, <2>2, ClientIs
    <3>2. Made(step, r) /\ x \in ToSet(Acquired(r)) /\ r \in Whole
      <4>1. Made(step, r) /\ x \in ToSet(Acquired(r))
        BY <1>2, <3>1 DEF MemoryNow
      <4> QED
        BY <3>1, <4>1, HeldIs, RootWhole
    <3>3. CASE r \in S
      BY <1>5, <3>2, <3>3 DEF Family
    <3>4. CASE r = ArchTokens
      <4>1. x = ArchTokens
        BY <3>2, <3>4, TokenLists
      <4>2. \A y \in ArchObjects : y \in Objects /\ mem[y] = "live"
        <5>1. Phase(step) >= 9
          BY <1>2
        <5> QED
          BY <1>2, <5>1, AllMade
      <4>3. AllOrNoneIn(m, ArchObjects)
        BY <4>2 DEF AllOrNoneIn
      <4> QED
        BY <4>1, <4>3 DEF Excused
    <3>5. CASE r = TaskTokens
      <4>1. x = TaskTokens
        BY <3>2, <3>5, TokenLists
      <4>2. \A y \in TaskObjects : y \in Objects /\ mem[y] = "live"
        <5>1. Phase(step) >= 11
          BY <1>2
        <5> QED
          BY <1>2, <5>1, AllMade
      <4>3. AllOrNoneIn(m, TaskObjects)
        BY <4>2 DEF AllOrNoneIn
      <4> QED
        BY <4>1, <4>3 DEF Excused
    <3>6. CASE r[1] \in {"slot", "timer"} /\ r[3] > MaxSlots - 1
      BY <3>6 DEF Excused
    <3>7. \/ r \in S \/ r \in {ArchTokens, TaskTokens}
          \/ r[1] \in {"slot", "timer"} /\ r[3] > MaxSlots - 1
      BY <1>3, <3>2, RunningCovered
    <3> QED
      BY <3>3, <3>4, <3>5, <3>6, <3>7
  <2> QED
    BY <2>1, <2>2
<1>8. ASSUME NEW a \in Objects, m[a] = "freed", NEW b \in ToSet(c)
      PROVE  <<a, b>> \in OrderIn(sources')
  <2>1. a \in Clients
    <3>1. CASE a \notin Clients
      <4>1. a[1] # "client" /\ mem[a] = "freed"
        BY <1>8, <3>1, ClientIs
      <4> QED
        BY <1>2, <4>1 DEF MemoryNow
    <3> QED
      BY <3>1
  <2>2. a \in Roots /\ a[1] = "client" /\ a \notin S
    BY <1>6, <1>8, <2>1
  <2>3. PICK r \in S : b \in ToSet(Acquired(r))
    BY <1>5 DEF Family
  <2>4. r \in Roots /\ a # r /\ a # BuffCtl /\ a # HwTask(r[2])
    BY <1>5, <2>2, KindIs DEF BuffCtl
  <2>5. PICK o : o = sources'
    OBVIOUS
  <2>6. RootBefore(a, r, o)
    BY <2>4 DEF RootBefore
  <2>7. a \in ToSet(Acquired(a))
    BY <2>2, FamilyIs
  <2> QED
    BY <2>2, <2>3, <2>4, <2>5, <2>6, <2>7, FamiliesBefore
<1>9. ASSUME NEW i \in Lines(TaskFiles), HwTask(i) \in ToSet(c) PROVE task_partition[i] # 0
  <2>1. HwTask(i) \in Roots /\ HwTask(i) \in Objects /\ HwTask(i)[1] = "task" /\ HwTask(i)[2] = i
    BY <1>2, RootsMade, KindIs DEF Alone, Roots
  <2>2. HwTask(i) \in S
    BY <1>5, <1>9, <2>1, FamilyHas
  <2>3. \A b \in ReactorRoots(t) : b[1] \in {"signals", "front", "client", "reactor"}
    BY OwnerIs DEF ReactorRoots, OwnedWell, Owners
  <2>4. HwTask(i) \in LayoutRoots
    BY <1>3, <2>1, <2>2, <2>3, KindIs DEF ShutdownRoots, BuffCtl
  <2>5. ASSUME NEW j \in TaskNumbers, HwTask(i) \in TaskRoots(j) PROVE task_partition[i] # 0
    <3>1. i = j
      BY <2>1, <2>5, RootKinds
    <3> QED
      BY <2>5, <3>1 DEF TaskRoots
  <2>6. ASSUME NEW p \in PartitionNumbers PROVE HwTask(i) \notin PartitionRoots(p)
    BY <2>1, RootKinds
  <2> QED
    BY <2>1, <2>4, <2>5, <2>6, KindIs DEF LayoutRoots
<1>10. WayDown(m, c, sources')
  BY <1>5, <1>7, <1>8, <1>9 DEF WayDown
<1>11. (WayDown(mem, chain, sources))'
  <2>1. slots_count' = slots_count /\ task_partition' = task_partition
    BY DEF layout
  <2> QED
    BY <1>1, <1>3, <1>10, <2>1, WayDownNext
<1>12. FreesAreSafe'
  BY <1>1, <1>2 DEF FreesAreSafe
<1> QED
  BY <1>1, <1>3, <1>5, <1>11, <1>12 DEF DownInv

LEMMA ShutdownDown ==
    ASSUME StartInv, Shutdown
    PROVE  DownInv'
<1>1. step = <<"running">> /\ Leaves(mem, sources) /\ UNCHANGED layout
  BY DEF Shutdown
<1>2. /\ OwnedWell(sources) /\ Signals \in Owners(sources) /\ FrontEnd \in Owners(sources)
      /\ \A x \in Clients : mem[x] = "live" <=> x \in Owners(sources)
  BY <1>1, RunningTable
<1>3. \A x \in Clients : mem[x] = "freed" => x \notin Owners(sources)
  BY <1>2
<1> QED
  BY <1>1, <1>2, <1>3, LeavesDown

\* A full table: the clients in it are as many as the entries that registration left.
LEMMA FullTable ==
    ASSUME StartInv, step = <<"running">>, InactiveEntries = {}, NEW k \in 1..MaxClients,
           \A j \in 1..MaxClients : mem[Client(j)] = "none" <=> j >= k
    PROVE  Len(Registrations) + k > MaxSources
<1> DEFINE N == Len(Registrations)
           S == (N + 1)..MaxSources
           T == 1..(k - 1)
           f == [n \in S |-> sources[n].handler[2]]
<1>1. N \in Nat /\ N <= MaxSources /\ MaxSources \in Nat /\ k \in Nat /\ ClientsKept
      /\ step[1] = "running"
      /\ DOMAIN sources = 1..MaxSources
  BY ClientEntries, TableRuns, StartupConstantsOK
<1>2. ASSUME NEW n \in S
      PROVE  /\ n \in 1..MaxSources /\ sources[n] # Inactive
             /\ \E j \in T : sources[n].handler = Client(j) /\ f[n] = j
  <2>1. n \in 1..MaxSources /\ n > N
    BY <1>1
  <2>2. sources[n] # Inactive
    BY <1>1, <2>1 DEF InactiveEntries
  <2>3. sources[n].handler \in Clients
    BY <2>1, <2>2, TableRuns
  <2>4. PICK j \in 1..MaxClients : sources[n].handler = Client(j)
    BY <2>3 DEF Clients
  <2>5. mem[Client(j)] = "live"
    BY <1>1, <2>1, <2>3, <2>4 DEF ClientsKept
  <2>6. j \in T
    BY <1>1, <2>5, StartupConstantsOK
  <2>7. f[n] = j
    BY <2>4, KindIs
  <2> QED
    BY <2>1, <2>2, <2>4, <2>6, <2>7
<1>3. f \in [S -> T]
  <2>1. \A n \in S : f[n] \in T
    BY <1>2
  <2> QED
    BY <2>1
<1>4. \A a, b \in S : f[a] = f[b] => a = b
  <2> SUFFICES ASSUME NEW a \in S, NEW b \in S, f[a] = f[b] PROVE a = b
    OBVIOUS
  <2>1. a \in DOMAIN sources /\ b \in DOMAIN sources /\ sources[a] # Inactive /\ sources[b] # Inactive
    BY <1>1, <1>2
  <2>2. sources[a].handler = sources[b].handler
    <3>1. PICK j \in T : sources[a].handler = Client(j) /\ f[a] = j
      BY <1>2
    <3>2. PICK i \in T : sources[b].handler = Client(i) /\ f[b] = i
      BY <1>2
    <3> QED
      BY <3>1, <3>2
  <2>3. Occurrences(sources[a].handler) = {a} /\ Occurrences(sources[b].handler) = {b}
    BY <2>1, RunsLive DEF SourcesLive
  <2> QED
    BY <2>2, <2>3
<1>5. IsFiniteSet(S) /\ Cardinality(S) = MaxSources - N
  <2>1. N + 1 \in Int /\ MaxSources \in Int
    BY <1>1
  <2>2. IsFiniteSet(S) /\ Cardinality(S) = IF N + 1 > MaxSources THEN 0 ELSE MaxSources - (N + 1) + 1
    BY <2>1, FS_Interval
  <2> QED
    BY <1>1, <2>2
<1>6. IsFiniteSet(T) /\ Cardinality(T) = k - 1
  <2>1. 1 \in Int /\ k - 1 \in Int
    BY <1>1
  <2>2. IsFiniteSet(T) /\ Cardinality(T) = IF 1 > k - 1 THEN 0 ELSE (k - 1) - 1 + 1
    BY <2>1, FS_Interval
  <2> QED
    BY <1>1, <2>2
<1>7. Cardinality(S) <= Cardinality(T)
  <2> SUFFICES ASSUME Cardinality(T) < Cardinality(S) PROVE FALSE
    BY <1>1, <1>5, <1>6
  <2>1. \E a, b \in S : a # b /\ f[a] = f[b]
    <3> HIDE DEF f, S, T
    <3> QED
      BY <1>3, <1>5, <1>6, FS_PigeonHole
  <2> HIDE DEF f, S, T
  <2> QED
    BY <1>4, <2>1
<1> QED
  BY <1>1, <1>5, <1>6, <1>7

LEMMA ConnectDown ==
    ASSUME StartInv, StartInv', Connect
    PROVE  DownInv'
<1>1. step = <<"running">> /\ UNCHANGED layout
  BY DEF Connect
<1>2. PICK k \in 1..MaxClients :
          /\ \A j \in 1..MaxClients : mem[Client(j)] = "none" <=> j >= k
          /\ \/ /\ InactiveEntries # {}
                /\ UNCHANGED step
             \/ /\ InactiveEntries # {}
                /\ Leaves([mem EXCEPT ![Client(k)] = "live"], Added(Source(Client(k), TRUE)))
             \/ /\ InactiveEntries = {}
                /\ Leaves([mem EXCEPT ![Client(k)] = "live"], sources)
  BY DEF Connect
<1>3. PICK c, e, m : c = Client(k) /\ e = Source(c, TRUE) /\ m = [mem EXCEPT ![c] = "live"]
  OBVIOUS
<1>4. /\ Len(Registrations) \in Nat /\ TypesOK /\ Phase(step) = 14
      /\ \A n \in 1..MaxSources : n <= Len(Registrations) => sources[n] # Inactive
  BY <1>1, ClientEntries
<1>5. c \in Objects /\ c \in Clients /\ c[2] = k /\ e \in Entries /\ e.handler = c /\ e.owned
  BY <1>3, WholeObjects, KindIs, SourceIs DEF Clients
<1>6. m[c] = "live" /\ \A x \in Objects : x # c => m[x] = mem[x]
  BY <1>3, <1>4, <1>5 DEF TypesOK
<1>7. mem[c] = "none"
  BY <1>2, <1>3
<1>8. /\ OwnedWell(sources) /\ Signals \in Owners(sources) /\ FrontEnd \in Owners(sources)
      /\ \A x \in Clients : mem[x] = "live" <=> x \in Owners(sources)
  BY <1>1, RunningTable
<1>9. /\ \A x \in Objects : x \notin Clients => m[x] = mem[x]
      /\ \A x \in Objects : mem[x] # "none" => m[x] # "none"
  BY <1>5, <1>6
<1>10. \A x \in Clients : x \in Objects
  BY WholeObjects DEF Clients
<1>11. CASE UNCHANGED step
  <2>1. Phase(step') <= 14
    BY <1>4, <1>11
  <2> QED
    BY <2>1, StillUp
<1>12. CASE InactiveEntries # {} /\ Leaves(m, Added(e))
  <2>1. PICK t : t = Added(e)
    OBVIOUS
  <2>2. PICK q \in 1..MaxSources :
              /\ sources[q] = Inactive
              /\ t \in [1..MaxSources -> {Inactive} \cup Entries]
              /\ t[q] = e /\ \A n \in 1..MaxSources : n # q => t[n] = sources[n]
    BY <1>4, <1>5, <1>12, <2>1, AddedIs
  <2>3. q \notin OwnedAt(sources)
    BY <2>2, NoneIsNoObject DEF OwnedAt
  <2>4. OwnedAt(t) = OwnedAt(sources) \cup {q}
    <3>1. \A n \in 1..MaxSources : t[n].owned <=> sources[n].owned \/ n = q
      BY <1>5, <2>2
    <3> QED
      BY <3>1 DEF OwnedAt
  <2>5. \A n \in OwnedAt(sources) : n \in 1..MaxSources /\ n # q /\ t[n] = sources[n]
    BY <2>2, <2>3 DEF OwnedAt
  <2>6. Owners(t) = Owners(sources) \cup {c}
    BY <1>5, <2>2, <2>4, <2>5 DEF Owners
  <2>7. c \notin Owners(sources)
    BY <1>5, <1>7, <1>8
  <2>8. \A n \in OwnedAt(sources) : sources[n].handler # c
    BY <2>7 DEF Owners
  <2>9. OwnedWell(t)
    <3>1. DOMAIN t = 1..MaxSources
      BY <2>2
    <3>2. \A n \in OwnedAt(t) : t[n].handler \in {Signals, FrontEnd} \cup Clients
      BY <1>5, <1>8, <2>2, <2>4, <2>5 DEF OwnedWell
    <3>3. ASSUME NEW i \in OwnedAt(t), NEW j \in OwnedAt(t), i # j PROVE t[i].handler # t[j].handler
      <4>1. CASE i # q /\ j # q
        BY <1>8, <2>4, <2>5, <3>3, <4>1 DEF OwnedWell
      <4>2. CASE i = q
        BY <1>5, <2>2, <2>4, <2>5, <2>8, <3>3, <4>2
      <4>3. CASE j = q
        BY <1>5, <2>2, <2>4, <2>5, <2>8, <3>3, <4>3
      <4> QED
        BY <4>1, <4>2, <4>3
    <3> QED
      BY <3>1, <3>2, <3>3 DEF OwnedWell
  <2>10. /\ \A x \in Clients : m[x] = "live" => x \in Owners(t)
         /\ \A x \in Clients : m[x] = "freed" => x \notin Owners(t)
    BY <1>6, <1>8, <1>10, <2>6
  <2> QED
    BY <1>1, <1>8, <1>9, <1>12, <2>1, <2>6, <2>9, <2>10, LeavesDown
<1>13. CASE InactiveEntries = {} /\ Leaves(m, sources)
  <2>1. Len(Registrations) + k > MaxSources
    BY <1>1, <1>2, <1>13, FullTable
  <2>2. \A j \in (k + 1)..MaxClients : m[Client(j)] = "none"
    <3> SUFFICES ASSUME NEW j \in (k + 1)..MaxClients PROVE m[Client(j)] = "none"
      OBVIOUS
    <3>1. j \in 1..MaxClients /\ j >= k /\ j # k
      BY StartupConstantsOK
    <3>2. Client(j) \in Objects /\ Client(j) # c
      BY <1>3, <3>1, ClientsDiffer, WholeObjects
    <3> QED
      BY <1>2, <1>6, <3>1, <3>2
  <2>3. ASSUME NEW x \in Clients, m[x] = "live"
        PROVE  \/ x \in Owners(sources)
               \/ /\ Len(Registrations) + x[2] > MaxSources
                  /\ \A j \in (x[2] + 1)..MaxClients : m[Client(j)] = "none"
    <3>1. CASE x = c
      BY <1>5, <2>1, <2>2, <3>1
    <3>2. CASE x # c
      BY <1>6, <1>8, <1>10, <2>3, <3>2
    <3> QED
      BY <3>1, <3>2
  <2>4. \A x \in Clients : m[x] = "freed" => x \notin Owners(sources)
    BY <1>6, <1>8, <1>10
  <2> QED
    BY <1>1, <1>8, <1>9, <1>13, <2>3, <2>4, LeavesDown
<1> QED
  BY <1>2, <1>3, <1>11, <1>12, <1>13

-----------------------------------------------------------------------------
(* Every step keeps the ways down. *)

LEMMA InitDown ==
    ASSUME StartupInit
    PROVE  DownInv
<1>1. step[1] = "devcfg" /\ chain = <<>> /\ misuse = {}
  BY BasePhases, KindIs DEF StartupInit, BaseSteps
<1>2. chain \in Seq(Objects)
  BY <1>1
<1>3. FreesAreSafe
  BY <1>1 DEF FreesAreSafe
<1> QED
  BY <1>1, <1>2, <1>3 DEF DownInv

\* A server that dies frees nothing.
LEMMA DiesDown ==
    ASSUME StartInv, Phase(step) <= 14, UNCHANGED <<chain, misuse>>,
           step'[1] \in {"crashed", "aborted"}
    PROVE  DownInv'
<1>1. chain' = <<>> /\ misuse' = {}
  BY NoMisuse
<1>2. chain' \in Seq(Objects)
  BY <1>1
<1>3. FreesAreSafe'
  BY <1>1 DEF FreesAreSafe
<1> QED
  BY <1>2, <1>3 DEF DownInv

LEMMA CrashesDown ==
    ASSUME StartInv, TimerfdFails \/ CrashOnTask \/ LoadUnmapped \/ ConnectFails
    PROVE  DownInv'
<1>1. step[1] \in {"timer", "task", "bits", "running"}
  BY KindIs DEF TimerfdFails, CrashOnTask, LoadUnmapped, ConnectFails
<1>2. Phase(step) \in {8, 10, 14}
  BY <1>1, PhaseIs
<1>3. Phase(step) <= 14
  BY <1>2
<1>4. step'[1] \in {"crashed", "aborted"} /\ UNCHANGED <<chain, misuse>>
  BY DEF TimerfdFails, CrashOnTask, LoadUnmapped, ConnectFails, Crashes
<1> QED
  BY <1>3, <1>4, DiesDown

LEMMA DetachDown ==
    ASSUME StartInv, StartInv', Detach
    PROVE  DownInv'
<1>1. step' = <<"running">>
  BY DEF Detach
<1>2. Phase(step') = 14
  BY <1>1, PhaseIs, KindIs
<1>3. Phase(step') <= 14
  BY <1>2
<1> QED
  BY <1>3, StillUp

LEMMA NextDown ==
    ASSUME StartInv, StartInv', DownInv, [StartupNext]_startupVars
    PROVE  DownInv'
<1>1. CASE CreateBase \/ CreatePartition \/ CreateSlot \/ CreateTimer
  BY <1>1, CreateBaseDown, CreatePartsDown
<1>2. CASE ReadArch \/ ReadTasks \/ CreateTask \/ LoadBits \/ ConfigureTask
  BY <1>2, ReadDown, TasksDown
<1>3. CASE TimerfdFails \/ CrashOnTask \/ LoadUnmapped \/ ConnectFails
  BY <1>3, CrashesDown
<1>4. CASE CreateListener \/ CreateCyclicClient \/ CreateSignals \/ Register
  BY <1>4, CreateLateDown, RegisterDown
<1>5. CASE Connect \/ Detach \/ Shutdown
  BY <1>5, ConnectDown, DetachDown, ShutdownDown
<1>6. CASE FreeNext \/ Exit
  BY <1>6, FreeNextDown, ExitDown
<1>7. CASE Gone \/ UNCHANGED startupVars
  BY <1>7, StutterDown DEF Gone
<1> QED
  BY <1>1, <1>2, <1>3, <1>4, <1>5, <1>6, <1>7 DEF StartupNext

\* Whatever step of start-up failed, and however a running server was shut down, the frees
\* still to be done cover all that is live and needed, in a safe order.
THEOREM DownInvariant == StartupSpec => []DownInv
<1>1. StartupInit => DownInv
  BY InitDown
<1>2. StartInv /\ StartInv' /\ DownInv /\ [StartupNext]_startupVars => DownInv'
  BY NextDown
<1> QED
  BY <1>1, <1>2, StartsInvariant, PTL DEF StartupSpec

\* StartupTypeOK: in particular no partition's slot_count exceeds what its array holds.
THEOREM StartupTypes == StartupSpec => []StartupTypeOK
<1>1. StartInv /\ DownInv => StartupTypeOK
  <2> SUFFICES ASSUME StartInv, DownInv PROVE StartupTypeOK
    OBVIOUS
  <2>1. TypesOK /\ FilesGiven
    BY DEF StartInv, TypesOK
  <2>2. \A k \in DOMAIN sources : sources[k] = Inactive \/ sources[k].handler \in Objects
    BY <2>1 DEF TypesOK
  <2>3. ToSet(chain) \subseteq Objects
    <3>1. chain \in Seq(Objects)
      BY DEF DownInv
    <3> QED
      BY <3>1 DEF ToSet
  <2> QED
    BY <2>1, <2>2, <2>3 DEF StartupTypeOK, TypesOK, FilesGiven
<1> QED
  BY <1>1, StartsInvariant, DownInvariant, PTL

\* FreesAreSafe: for every pair of files and every failure, no destructor reads or frees
\* what is gone, but for the slot count a hw-task reads and the front end freed twice.
THEOREM FreesStaySafe == StartupSpec => []FreesAreSafe
<1>1. DownInv => FreesAreSafe
  BY DEF DownInv
<1> QED
  BY <1>1, DownInvariant, PTL

\* NothingLeft: when main_function_ returns, everything that was acquired has been given
\* back, but for the objects the code loses hold of.
THEOREM NothingIsLeft == StartupSpec => []NothingLeft
<1>1. DownInv => NothingLeft
  <2> SUFFICES ASSUME DownInv, step = <<"exited">>, NEW x \in Objects, mem[x] = "live"
               PROVE  LET y == Root(x) IN
                      \/ y[1] \in {"slot", "timer"} /\ y[3] > MaxSlots - 1
                      \/ y[1] = "slot" /\ mem[y] = "live" /\ mem[Timer(y[2], y[3])] = "none"
                      \/ /\ mode = "rcfg_test" /\ y[1] = "slot" /\ x = Sockets(Driver(y))
                         /\ mem[y] = "freed" /\ ~InPartition(y[2], y[3])
                      \/ y = FrontEnd /\ x # y /\ mem[y] = "freed" /\ mem[Signals] = "none"
                      \/ /\ x[1] = "client"
                         /\ Len(Registrations) + x[2] > MaxSources
                         /\ \A k \in (x[2] + 1)..MaxClients : mem[Client(k)] = "none"
                      \/ x = ArchTokens /\ AllOrNone(ArchObjects)
                      \/ x = TaskTokens /\ AllOrNone(TaskObjects)
                      \/ x[1] = "file" /\ LastLoad(x[2], x[3])
                      \/ /\ x[1] = "mapping" /\ LastLoad(x[2], x[3])
                         /\ mem[Bits(x[2], x[3])] = "freed"
    BY DEF NothingLeft
  <2>1. chain = <<>> /\ WayDown(mem, chain, sources)
    BY KindIs DEF DownInv
  <2>2. ToSet(chain) = {}
    BY <2>1, EmptyList DEF IsList
  <2>3. Excused(mem, chain, x)
    BY <2>1, <2>2 DEF WayDown
  <2>4. \A y : GoingIn(mem, chain, y) => mem[y] = "freed"
    BY <2>2 DEF GoingIn
  <2>5. \A S : AllOrNoneIn(mem, S) => AllOrNone(S)
    BY DEF AllOrNoneIn, AllOrNone
  <2>6. \A i, s : LastLoadIn(mem, i, s) => LastLoad(i, s)
    BY DEF LastLoadIn, LastLoad
  <2> QED
    BY <2>3, <2>4, <2>5, <2>6 DEF Excused
<1> QED
  BY <1>1, DownInvariant, PTL
=============================================================================
