------------------------- MODULE FredStartupProofs --------------------------
(***************************************************************************)
(* The server while it starts and runs: the proofs that its event loop     *)
(* only calls handlers on live objects, that a server that runs is         *)
(* complete, that its hw-tasks have the configuration of their lines, and  *)
(* that only a line without a partition's name can crash it. They rest on  *)
(* one invariant: the step of start-up determines which objects are live,  *)
(* how many slots each partition has, which hw-tasks have a partition and  *)
(* how far the reactor's table is filled.                                  *)
(***************************************************************************)
EXTENDS FredStartupInv, SequenceTheorems, FiniteSetTheorems, WellFoundedInduction, TLAPS

-----------------------------------------------------------------------------
(* Sequences of sequences. FlattenSeq is a recursive function; what it      *)
(* returns follows by the least counterexample, a natural number.           *)

\* A non-empty set of natural numbers has a least element.
LEMMA LeastNatural ==
    ASSUME NEW S \in SUBSET Nat, S # {}
    PROVE  \E n \in S : \A m \in S : n <= m
<1>1. PICK n \in S : \A m \in S : <<m, n>> \notin OpToRel(<, Nat)
  BY NatLessThanWellFounded, WFMin
<1>2. \A m \in S : ~ (m < n)
  BY <1>1 DEF OpToRel
<1> QED
  BY <1>2

\* Induction over 1..n.
LEMMA UpTo ==
    ASSUME NEW n \in Nat, NEW G,
           \A i \in 1..n : (i = 1 \/ i - 1 \in G) => i \in G
    PROVE  \A i \in 1..n : i \in G
<1> DEFINE S == {i \in 1..n : i \notin G}
<1> SUFFICES ASSUME S # {} PROVE FALSE
  OBVIOUS
<1>1. PICK m \in S : \A k \in S : m <= k
  <2>1. S \in SUBSET Nat
    OBVIOUS
  <2> HIDE DEF S
  <2> QED BY <2>1, LeastNatural
<1>2. m # 1 => m - 1 \in 1..n /\ m - 1 \notin S
  BY <1>1
<1> QED
  BY <1>1, <1>2

\* The first of any two elements of s is related to the second.
Pairwise(s, R) == \A i, j \in 1..Len(s) : i < j => <<s[i], s[j]>> \in R

Flattens(f, ss, n) ==
    f = [i \in 1..n |-> IF i = 1 THEN ss[i] ELSE f[i - 1] \o ss[i]]

LEMMA FlattenExists ==
    ASSUME NEW ss, NEW n \in Nat
    PROVE  \E f : Flattens(f, ss, n)
<1> DEFINE S == {m \in Nat : ~\E f : Flattens(f, ss, m)}
<1> SUFFICES ASSUME S # {} PROVE FALSE
  OBVIOUS
<1>1. PICK m \in S : \A k \in S : m <= k
  BY LeastNatural
<1>2. CASE m = 0
  <2>1. Flattens([i \in 1..0 |-> 0], ss, 0)
    BY DEF Flattens
  <2> QED
    BY <1>2, <2>1
<1>3. CASE m # 0
  <2>1. m - 1 \in Nat /\ m - 1 \notin S
    BY <1>1, <1>3
  <2>2. PICK g : Flattens(g, ss, m - 1)
    BY <2>1
  <2> DEFINE f == [i \in 1..m |-> IF i < m THEN g[i]
                                  ELSE IF m = 1 THEN ss[m] ELSE g[m - 1] \o ss[m]]
  <2>3. \A i \in 1..(m - 1) : g[i] = IF i = 1 THEN ss[i] ELSE g[i - 1] \o ss[i]
    BY <2>2 DEF Flattens
  <2>4. \A i \in 1..m : f[i] = IF i = 1 THEN ss[i] ELSE f[i - 1] \o ss[i]
    <3> SUFFICES ASSUME NEW i \in 1..m
                 PROVE  f[i] = IF i = 1 THEN ss[i] ELSE f[i - 1] \o ss[i]
      OBVIOUS
    <3>1. CASE i < m
      <4>1. f[i] = g[i]
        BY <3>1
      <4>2. i # 1 => f[i - 1] = g[i - 1]
        BY <3>1
      <4> QED
        BY <3>1, <4>1, <4>2, <2>3
    <3>2. CASE i = m
      <4>1. i # 1 => f[i - 1] = g[i - 1]
        BY <3>2
      <4> QED
        BY <3>2, <4>1
    <3> QED
      BY <3>1, <3>2
  <2>5. Flattens(f, ss, m)
    BY <2>4 DEF Flattens
  <2> QED
    BY <2>5
<1> QED
  BY <1>2, <1>3

LEMMA FlattenDefined ==
    ASSUME NEW ss, Len(ss) \in Nat, Len(ss) # 0
    PROVE  \E f : Flattens(f, ss, Len(ss)) /\ FlattenSeq(ss) = f[Len(ss)]
<1>1. \E f : Flattens(f, ss, Len(ss))
  BY FlattenExists
<1>2. \E f : f = [i \in 1..Len(ss) |-> IF i = 1 THEN ss[i] ELSE f[i - 1] \o ss[i]]
  BY <1>1 DEF Flattens
<1> DEFINE g == CHOOSE f : f = [i \in 1..Len(ss) |-> IF i = 1 THEN ss[i] ELSE f[i - 1] \o ss[i]]
<1>3. g = [i \in 1..Len(ss) |-> IF i = 1 THEN ss[i] ELSE g[i - 1] \o ss[i]]
  BY <1>2
<1>4. FlattenSeq(ss) = g[Len(ss)]
  BY Zenon DEF FlattenSeq
<1> QED
  BY <1>3, <1>4 DEF Flattens

LEMMA ConcatSet ==
    ASSUME NEW X, NEW s \in Seq(X), NEW t \in Seq(X)
    PROVE  /\ s \o t \in Seq(X)
           /\ ToSet(s \o t) = ToSet(s) \cup ToSet(t)
<1>1. /\ s \o t \in Seq(X) /\ Len(s \o t) = Len(s) + Len(t)
      /\ \A i \in 1..Len(s) : (s \o t)[i] = s[i]
      /\ \A i \in 1..Len(t) : (s \o t)[Len(s) + i] = t[i]
  OBVIOUS
<1>2. Len(s) \in Nat /\ Len(t) \in Nat
      /\ DOMAIN s = 1..Len(s) /\ DOMAIN t = 1..Len(t) /\ DOMAIN (s \o t) = 1..(Len(s) + Len(t))
  BY <1>1
<1>3. \A x \in ToSet(s) : x \in ToSet(s \o t)
  BY <1>1, <1>2 DEF ToSet
<1>4. ASSUME NEW x \in ToSet(t) PROVE x \in ToSet(s \o t)
  <2>1. PICK i \in 1..Len(t) : x = t[i]
    BY <1>2 DEF ToSet
  <2>2. Len(s) + i \in 1..(Len(s) + Len(t)) /\ x = (s \o t)[Len(s) + i]
    BY <1>1, <1>2, <2>1
  <2> QED
    BY <1>2, <2>2 DEF ToSet
<1>5. ASSUME NEW x \in ToSet(s \o t) PROVE x \in ToSet(s) \cup ToSet(t)
  <2>1. PICK i \in 1..(Len(s) + Len(t)) : x = (s \o t)[i]
    BY <1>2 DEF ToSet
  <2>2. CASE i <= Len(s)
    BY <1>1, <1>2, <2>1, <2>2 DEF ToSet
  <2>3. CASE i > Len(s)
    <3>1. i - Len(s) \in 1..Len(t) /\ i = Len(s) + (i - Len(s))
      BY <1>2, <2>3
    <3>2. x = t[i - Len(s)]
      BY <1>1, <2>1, <3>1
    <3> QED
      BY <1>2, <3>1, <3>2 DEF ToSet
  <2> QED
    BY <1>2, <2>2, <2>3
<1> QED
  BY <1>1, <1>3, <1>4, <1>5

LEMMA ConcatPairwise ==
    ASSUME NEW X, NEW s \in Seq(X), NEW t \in Seq(X), NEW R,
           Pairwise(s, R), Pairwise(t, R),
           \A a \in ToSet(s), b \in ToSet(t) : <<a, b>> \in R
    PROVE  Pairwise(s \o t, R)
<1>1. /\ Len(s \o t) = Len(s) + Len(t)
      /\ \A i \in 1..Len(s) : (s \o t)[i] = s[i]
      /\ \A i \in 1..Len(t) : (s \o t)[Len(s) + i] = t[i]
      /\ Len(s) \in Nat /\ Len(t) \in Nat /\ DOMAIN s = 1..Len(s) /\ DOMAIN t = 1..Len(t)
  OBVIOUS
<1> SUFFICES ASSUME NEW i \in 1..(Len(s) + Len(t)), NEW j \in 1..(Len(s) + Len(t)), i < j
             PROVE  <<(s \o t)[i], (s \o t)[j]>> \in R
  BY <1>1 DEF Pairwise
<1>2. CASE j <= Len(s)
  BY <1>1, <1>2 DEF Pairwise
<1>3. CASE i > Len(s)
  <2>1. /\ i - Len(s) \in 1..Len(t) /\ j - Len(s) \in 1..Len(t)
        /\ i = Len(s) + (i - Len(s)) /\ j = Len(s) + (j - Len(s))
    BY <1>1, <1>3
  <2>2. (s \o t)[i] = t[i - Len(s)] /\ (s \o t)[j] = t[j - Len(s)]
    BY <1>1, <2>1
  <2> QED
    BY <2>1, <2>2, <1>1 DEF Pairwise
<1>4. CASE i <= Len(s) /\ j > Len(s)
  <2>1. i \in 1..Len(s) /\ j - Len(s) \in 1..Len(t) /\ j = Len(s) + (j - Len(s))
    BY <1>1, <1>4
  <2>2. (s \o t)[i] = s[i] /\ (s \o t)[j] = t[j - Len(s)]
    BY <1>1, <2>1
  <2>3. (s \o t)[i] \in ToSet(s) /\ (s \o t)[j] \in ToSet(t)
    BY <1>1, <2>1, <2>2 DEF ToSet
  <2> QED
    BY <2>3
<1>5. j <= Len(s) \/ i > Len(s) \/ (i <= Len(s) /\ j > Len(s))
  BY <1>1
<1> QED
  BY <1>2, <1>3, <1>4, <1>5

\* What a flattened sequence holds.
LEMMA FlattenHolds ==
    ASSUME NEW X, NEW ss \in Seq(Seq(X))
    PROVE  /\ FlattenSeq(ss) \in Seq(X)
           /\ ToSet(FlattenSeq(ss)) = UNION {ToSet(ss[i]) : i \in 1..Len(ss)}
<1>1. CASE Len(ss) = 0
  <2>1. FlattenSeq(ss) = <<>> /\ 1..Len(ss) = {}
    BY <1>1 DEF FlattenSeq
  <2>2. UNION {ToSet(ss[i]) : i \in 1..Len(ss)} = {}
    BY <2>1
  <2>3. ToSet(<<>>) = {}
    BY DEF ToSet
  <2> QED
    BY <2>1, <2>2, <2>3
<1>2. CASE Len(ss) # 0
  <2>1. PICK f : Flattens(f, ss, Len(ss)) /\ FlattenSeq(ss) = f[Len(ss)]
    BY <1>2, FlattenDefined
  <2>2. \A i \in 1..Len(ss) : f[i] = IF i = 1 THEN ss[i] ELSE f[i - 1] \o ss[i]
    BY <2>1 DEF Flattens
  <2> DEFINE Good(n) == f[n] \in Seq(X) /\ ToSet(f[n]) = UNION {ToSet(ss[i]) : i \in 1..n}
             G == {n \in 1..Len(ss) : Good(n)}
  <2>3. ASSUME NEW n \in 1..Len(ss), n = 1 \/ n - 1 \in G PROVE Good(n)
    <3>1. CASE n = 1
      <4>1. f[1] = ss[1] /\ 1..1 = {1}
        BY <2>2, <3>1
      <4> QED
        BY <1>2, <3>1, <4>1
    <3>2. CASE n # 1
      <4>1. Good(n - 1)
        BY <2>3, <3>2
      <4>2. f[n] = f[n - 1] \o ss[n] /\ ss[n] \in Seq(X)
        <5>1. f[n] = f[n - 1] \o ss[n]
          BY <2>2, <3>2
        <5> QED BY <5>1
      <4>3. f[n] \in Seq(X) /\ ToSet(f[n]) = ToSet(f[n - 1]) \cup ToSet(ss[n])
        BY <4>1, <4>2, ConcatSet
      <4>4. 1..n = 1..(n - 1) \cup {n}
        BY <3>2
      <4> QED
        BY <4>1, <4>3, <4>4
    <3> QED
      BY <3>1, <3>2
  <2>4. \A n \in 1..Len(ss) : (n = 1 \/ n - 1 \in G) => n \in G
    BY <2>3
  <2>5. \A n \in 1..Len(ss) : n \in G
    <3> HIDE DEF G
    <3>1. Len(ss) \in Nat
      OBVIOUS
    <3> QED BY <2>4, <3>1, UpTo
  <2>6. Len(ss) \in 1..Len(ss)
    BY <1>2
  <2>7. Good(Len(ss))
    BY <2>5, <2>6
  <2> QED
    BY <2>1, <2>7
<1> QED
  BY <1>1, <1>2

\* Its parts are pairwise related, and the elements of one part to those of a later one.
LEMMA FlattenPairwise ==
    ASSUME NEW X, NEW ss \in Seq(Seq(X)), NEW R,
           \A i \in 1..Len(ss) : Pairwise(ss[i], R),
           \A i, j \in 1..Len(ss) : i < j =>
               \A a \in ToSet(ss[i]), b \in ToSet(ss[j]) : <<a, b>> \in R
    PROVE  Pairwise(FlattenSeq(ss), R)
<1>1. CASE Len(ss) = 0
  <2>1. FlattenSeq(ss) = <<>>
    BY <1>1 DEF FlattenSeq
  <2> QED
    BY <1>1, <2>1 DEF Pairwise
<1>2. CASE Len(ss) # 0
  <2>1. PICK f : Flattens(f, ss, Len(ss)) /\ FlattenSeq(ss) = f[Len(ss)]
    BY <1>2, FlattenDefined
  <2>2. \A i \in 1..Len(ss) : f[i] = IF i = 1 THEN ss[i] ELSE f[i - 1] \o ss[i]
    BY <2>1 DEF Flattens
  <2> DEFINE Good(n) == /\ f[n] \in Seq(X) /\ Pairwise(f[n], R)
                        /\ \A a \in ToSet(f[n]) : \E i \in 1..n : a \in ToSet(ss[i])
             G == {n \in 1..Len(ss) : Good(n)}
  <2>3. ASSUME NEW n \in 1..Len(ss), n = 1 \/ n - 1 \in G PROVE Good(n)
    <3>1. CASE n = 1
      <4>1. f[1] = ss[1] /\ 1 \in 1..1
        BY <2>2, <3>1
      <4> QED
        BY <1>2, <3>1, <4>1
    <3>2. CASE n # 1
      <4>1. Good(n - 1)
        BY <2>3, <3>2
      <4>2. f[n] = f[n - 1] \o ss[n] /\ ss[n] \in Seq(X)
        <5>1. f[n] = f[n - 1] \o ss[n]
          BY <2>2, <3>2
        <5> QED BY <5>1
      <4>8. Pairwise(ss[n], R)
        OBVIOUS
      <4>3. f[n] \in Seq(X) /\ ToSet(f[n]) = ToSet(f[n - 1]) \cup ToSet(ss[n])
        BY <4>1, <4>2, ConcatSet
      <4>4. 1..n = 1..(n - 1) \cup {n} /\ n \in 1..n
        BY <3>2
      <4>5. ASSUME NEW a \in ToSet(f[n - 1]), NEW b \in ToSet(ss[n]) PROVE <<a, b>> \in R
        <5>1. PICK i \in 1..(n - 1) : a \in ToSet(ss[i])
          BY <4>1
        <5>2. i \in 1..Len(ss) /\ n \in 1..Len(ss) /\ i < n
          OBVIOUS
        <5> QED
          BY <5>1, <5>2
      <4>6. Pairwise(f[n], R)
        BY <4>1, <4>2, <4>5, <4>8, ConcatPairwise
      <4>7. \A a \in ToSet(f[n]) : \E i \in 1..n : a \in ToSet(ss[i])
        BY <4>1, <4>3, <4>4
      <4> QED
        BY <4>3, <4>6, <4>7
    <3> QED
      BY <3>1, <3>2
  <2>4. \A n \in 1..Len(ss) : (n = 1 \/ n - 1 \in G) => n \in G
    BY <2>3
  <2>5. \A n \in 1..Len(ss) : n \in G
    <3> HIDE DEF G
    <3>1. Len(ss) \in Nat
      OBVIOUS
    <3> QED BY <2>4, <3>1, UpTo
  <2> QED
    BY <1>2, <2>1, <2>5
<1> QED
  BY <1>1, <1>2

-----------------------------------------------------------------------------
(* What the step of start-up determines, and the order of frees.            *)

\* The order of the steps.
Phase(st) ==
    CASE st[1] = "devcfg"    -> 1
      [] st[1] = "scheduler" -> 2
      [] st[1] = "logger"    -> 3
      [] st[1] = "reactor"   -> 4
      [] st[1] = "buffctl"   -> 5
      [] st[1] = "layout"    -> 6
      [] st[1] = "arch"      -> 7
      [] st[1] \in {"partition", "slot", "timer"} -> 8
      [] st[1] = "hw_tasks"  -> 9
      [] st[1] \in {"task", "bits", "config"} -> 10
      [] st[1] = "front"     -> 11
      [] st[1] = "signals"   -> 12
      [] st[1] = "register"  -> 13
      [] st[1] = "running"   -> 14
      [] OTHER               -> 15

PartitionNumbers == 1..Len(ArchLines)
TaskNumbers == 1..Len(TaskLines)
SlotsOf(i) == 1..slots_count[task_partition[i]]   \* of the partition of hw-task i

\* The slots of partition p, and the bitstreams of hw-task i, that are made before step st.
SlotMade(st, p, s) ==
    \/ Phase(st) > 8
    \/ /\ Phase(st) = 8
       /\ \/ p < st[2]
          \/ p = st[2] /\ st[1] = "timer" /\ s <= st[3]
          \/ p = st[2] /\ st[1] = "slot" /\ s < st[3]
TimerMade(st, p, s) ==
    \/ Phase(st) > 8
    \/ /\ Phase(st) = 8
       /\ p < st[2] \/ (p = st[2] /\ st[1] # "partition" /\ s < st[3])
PartitionMade(st, p) ==
    \/ Phase(st) > 8
    \/ /\ Phase(st) = 8
       /\ p < st[2] \/ (p = st[2] /\ st[1] # "partition")
TaskMade(st, i) ==
    \/ Phase(st) > 10
    \/ /\ Phase(st) = 10
       /\ i < st[2] \/ (i = st[2] /\ st[1] # "task")
BitsMade(st, i, s) ==
    \/ Phase(st) > 10
    \/ /\ Phase(st) = 10
       /\ \/ i < st[2]
          \/ i = st[2] /\ st[1] = "config"
          \/ i = st[2] /\ st[1] = "bits" /\ s < st[3]

BaseKinds == {"devcfg", "scheduler", "logger", "reactor", "buffctl", "layout", "front", "signals"}

\* The object x, which is no part of another, is made before step st.
Made(st, x) ==
    \/ x[1] \in BaseKinds /\ Phase(x) < Phase(st)
    \/ x = ArchTokens /\ Phase(st) > 7
    \/ x = TaskTokens /\ Phase(st) > 9
    \/ x[1] = "partition" /\ x[2] \in PartitionNumbers /\ PartitionMade(st, x[2])
    \/ /\ x[1] = "slot" /\ x[2] \in PartitionNumbers /\ x[3] \in 1..SlotsWanted(x[2])
       /\ SlotMade(st, x[2], x[3])
    \/ /\ x[1] = "timer" /\ x[2] \in PartitionNumbers /\ x[3] \in 1..SlotsWanted(x[2])
       /\ TimerMade(st, x[2], x[3])
    \/ x[1] = "task" /\ x[2] \in TaskNumbers /\ TaskMade(st, x[2])
    \/ /\ x[1] = "bits" /\ x[2] \in TaskNumbers /\ task_partition[x[2]] # 0
       /\ x[3] \in SlotsOf(x[2]) /\ BitsMade(st, x[2], x[3])

StepOK ==
    \/ step \in ToSet(BaseSteps)
    \/ step \in {<<"hw_tasks">>, FrontEnd, Signals}
    \/ step[1] = "partition" /\ step \in {Partition(p) : p \in PartitionNumbers}
    \/ \E p \in PartitionNumbers : \E s \in 1..SlotsWanted(p) : step \in {Slot(p, s), Timer(p, s)}
    \/ \E i \in TaskNumbers : step = HwTask(i)
    \/ \E i \in TaskNumbers :
          /\ task_partition[i] # 0
          /\ step = <<"config", i>> \/ (\E s \in SlotsOf(i) : step = Bits(i, s))
    \/ \E n \in 1..Len(Registrations) : step = <<"register", n>>
    \/ step \in {<<"running">>, <<"freeing">>, <<"exited">>, <<"aborted">>}
    \/ step \in {<<"crashed", c>> : c \in {"timerfd", "name", "unmapped"}}

Lesser(a, b) == IF a < b THEN a ELSE b

\* The slots of partition p that are made, with their timers, before step st.
TimersMade(st, p) ==
    IF Phase(st) > 8 \/ (Phase(st) = 8 /\ p < st[2]) THEN SlotsWanted(p)
    ELSE IF Phase(st) = 8 /\ p = st[2] /\ st[1] # "partition" THEN st[3] - 1
    ELSE 0

\* The entries of the table that registration has filled.
Filled == IF step[1] = "register" THEN step[2] - 1
          ELSE IF step[1] = "running" THEN Len(Registrations) ELSE 0

Clients == {Client(k) : k \in 1..MaxClients}

\* The clients of a running server: the live ones are in the table, once.
ClientsKept ==
    step[1] = "running" =>
        /\ \A j, k \in 1..MaxClients : mem[Client(k)] # "none" /\ j < k => mem[Client(j)] # "none"
        /\ \A k \in 1..MaxClients : mem[Client(k)] = "live" => Occurrences(Client(k)) # {}
        /\ \A n \in 1..MaxSources : sources[n].handler \in Clients =>
              mem[sources[n].handler] = "live" /\ Occurrences(sources[n].handler) = {n}

\* Freeing b after a is safe, or the case of FreesAreSafe that all ways down have.
SafeAfter(a, b) ==
    \/ a # b /\ a \notin Reads(b)
    \/ b[1] = "task" /\ a = Partition(task_partition[b[2]])

SafeOrder == {ab \in Objects \X Objects : SafeAfter(ab[1], ab[2])}

-----------------------------------------------------------------------------
(* Objects, their parts, and what freeing them reads. *)

LEMMA PartIs ==
    ASSUME NEW x, NEW n
    PROVE  /\ Part(x, n)[1] = "part" /\ Part(x, n)[2] = x /\ Part(x, n)[3] = n
           /\ Owner(Part(x, n)) = x
  BY DEF Part, Owner

LEMMA PartsDiffer ==
    ASSUME NEW x, NEW n, NEW y, NEW m, Part(x, n) = Part(y, m)
    PROVE  x = y /\ n = m
  BY DEF Part

\* The kinds of the objects that are no parts.
LEMMA KindIs ==
    /\ \A p, s : /\ Partition(p)[1] = "partition" /\ Partition(p)[2] = p
                 /\ Slot(p, s)[1] = "slot" /\ Slot(p, s)[2] = p /\ Slot(p, s)[3] = s
                 /\ Timer(p, s)[1] = "timer" /\ Timer(p, s)[2] = p /\ Timer(p, s)[3] = s
                 /\ Bits(p, s)[1] = "bits" /\ Bits(p, s)[2] = p /\ Bits(p, s)[3] = s
                 /\ HwTask(p)[1] = "task" /\ HwTask(p)[2] = p
                 /\ Client(p)[1] = "client" /\ Client(p)[2] = p
                 /\ BitsFile(p, s)[1] = "file" /\ BitsFile(p, s)[2] = p /\ BitsFile(p, s)[3] = s
                 /\ BitsMapping(p, s)[1] = "mapping" /\ BitsMapping(p, s)[2] = p
                 /\ BitsMapping(p, s)[3] = s
    /\ FrontEnd[1] = "front" /\ Signals[1] = "signals"
    /\ ArchTokens[1] = "tokens" /\ TaskTokens[1] = "tokens" /\ ArchTokens # TaskTokens
    /\ \A n : <<n>>[1] = n
  BY DEF Partition, Slot, Timer, Bits, HwTask, Client, BitsFile, BitsMapping, FrontEnd, Signals,
         ArchTokens, TaskTokens

OneOfAKind == {"devcfg", "scheduler", "logger", "reactor", "buffctl", "layout", "front", "signals"}

LEMMA BaseStepsAre ==
    ToSet(BaseSteps) = {<<"devcfg">>, <<"scheduler">>, <<"logger">>, <<"reactor">>,
                        <<"buffctl">>, <<"layout">>, <<"arch">>}
  BY DEF ToSet, BaseSteps

\* An object that is no part.
LEMMA WholeCases ==
    ASSUME NEW x \in Objects, x \notin Parts
    PROVE  \/ x \in {<<k>> : k \in OneOfAKind}
           \/ x \in {ArchTokens, TaskTokens}
           \/ \E p \in Lines(ArchFiles) : x = Partition(p)
           \/ \E p \in Lines(ArchFiles), s \in SlotNumbers : x = Slot(p, s) \/ x = Timer(p, s)
           \/ \E i \in Lines(TaskFiles) : x = HwTask(i)
           \/ \E i \in Lines(TaskFiles), s \in SlotNumbers : x = Bits(i, s)
           \/ \E k \in 1..MaxClients : x = Client(k)
           \/ \E i \in Lines(TaskFiles), s \in SlotNumbers : x = BitsFile(i, s) \/ x = BitsMapping(i, s)
  BY BaseStepsAre DEF Objects, Slots, Timers, OneOfAKind, FrontEnd, Signals

LEMMA WholeObjects ==
    /\ \A k \in OneOfAKind : <<k>> \in Objects
    /\ FrontEnd \in Objects /\ Signals \in Objects
    /\ ArchTokens \in Objects /\ TaskTokens \in Objects
    /\ \A p \in Lines(ArchFiles) : Partition(p) \in Objects
    /\ \A p \in Lines(ArchFiles), s \in SlotNumbers :
         Slot(p, s) \in Objects /\ Timer(p, s) \in Objects /\ Slot(p, s) \in Slots
         /\ Timer(p, s) \in Timers
    /\ \A i \in Lines(TaskFiles) : HwTask(i) \in Objects
    /\ \A i \in Lines(TaskFiles), s \in SlotNumbers : Bits(i, s) \in Objects
    /\ \A k \in 1..MaxClients : Client(k) \in Objects
    /\ \A i \in Lines(TaskFiles), s \in SlotNumbers :
         BitsFile(i, s) \in Objects /\ BitsMapping(i, s) \in Objects
  BY BaseStepsAre DEF Objects, Slots, Timers, OneOfAKind, FrontEnd, Signals

\* The objects whose only part is a descriptor.
FdOwners == Timers \cup {<<"reactor">>, <<"buffctl">>, FrontEnd, Signals}
Attrs == {"done", "start", "addr", "size"}

LEMMA PartCases ==
    ASSUME NEW x \in Parts
    PROVE  \/ \E r \in Slots : \E d \in {Driver(r), Decoupler(r)} :
                 x \in {d, Uio(d), Fd(Uio(d)), Sockets(d)}
           \/ \E r \in FdOwners : x = Fd(r)
           \/ x = Driver(<<"devcfg">>)
           \/ \E a \in Attrs : x = Part(Driver(<<"devcfg">>), a)
           \/ x \in {FrontData, Sockets(FrontEnd)}
<1>1. ToSet(AttrsOpened) = Attrs
  BY DEF ToSet, AttrsOpened, Attrs
<1> QED
  BY <1>1 DEF Parts, DriverParts, FdOwners

LEMMA PartObjects ==
    /\ Parts \subseteq Objects
    /\ \A r \in Slots : \A d \in {Driver(r), Decoupler(r)} :
         {d, Uio(d), Fd(Uio(d)), Sockets(d)} \subseteq Objects
    /\ \A r \in FdOwners : Fd(r) \in Objects
    /\ Driver(<<"devcfg">>) \in Objects
    /\ \A a \in Attrs : Part(Driver(<<"devcfg">>), a) \in Objects
    /\ FrontData \in Objects /\ Sockets(FrontEnd) \in Objects
<1>1. ToSet(AttrsOpened) = Attrs
  BY DEF ToSet, AttrsOpened, Attrs
<1>2. Parts \subseteq Objects
  BY DEF Objects
<1> QED
  BY <1>1, <1>2 DEF Parts, DriverParts, FdOwners

LEMMA OwnerKinds ==
    /\ \A r \in Slots : r \in Objects /\ r[1] = "slot" /\ r = Slot(r[2], r[3])
                        /\ r[2] \in Lines(ArchFiles) /\ r[3] \in SlotNumbers
    /\ \A r \in FdOwners : r \in Objects /\ r[1] \in {"timer", "reactor", "buffctl", "front", "signals"}
    /\ <<"devcfg">> \in Objects /\ <<"devcfg">>[1] = "devcfg"
<1>1. ASSUME NEW r \in Slots
      PROVE  r \in Objects /\ r[1] = "slot" /\ r = Slot(r[2], r[3])
             /\ r[2] \in Lines(ArchFiles) /\ r[3] \in SlotNumbers
  <2>1. PICK p \in Lines(ArchFiles), s \in SlotNumbers : r = Slot(p, s)
    BY DEF Slots
  <2> QED
    BY <2>1, WholeObjects, KindIs
<1>2. ASSUME NEW r \in Timers PROVE r \in Objects /\ r[1] = "timer"
  <2>1. PICK p \in Lines(ArchFiles), s \in SlotNumbers : r = Timer(p, s)
    BY DEF Timers
  <2> QED
    BY <2>1, WholeObjects, KindIs
<1>3. \A r \in {<<"reactor">>, <<"buffctl">>, FrontEnd, Signals, <<"devcfg">>} :
         r \in Objects /\ r[1] \in {"reactor", "buffctl", "front", "signals", "devcfg"}
  BY WholeObjects, KindIs DEF OneOfAKind
<1>4. ASSUME NEW r \in FdOwners
      PROVE  r \in Objects /\ r[1] \in {"timer", "reactor", "buffctl", "front", "signals"}
  BY <1>2, WholeObjects, KindIs DEF FdOwners, OneOfAKind
<1> QED
  BY <1>1, <1>3, <1>4, KindIs

\* What an object that is no part is, in one disjunction on its kind.
LEMMA WholeIs ==
    ASSUME NEW x \in Objects, x \notin Parts
    PROVE  /\ x[1] # "part"
           /\ Root(x) = x /\ Owner(x) = x
<1>1. x[1] \in OneOfAKind \cup {"tokens", "partition", "slot", "timer", "task", "bits", "client",
                          "file", "mapping"}
  BY WholeCases, KindIs
<1>2. x[1] # "part"
  BY <1>1 DEF OneOfAKind
<1> QED
  BY <1>2 DEF Root, Owner

\* A part's owner is an object of the same root, itself no deeper than two.
LEMMA PartOf ==
    ASSUME NEW x \in Parts
    PROVE  /\ x[1] = "part"
           /\ x[2] \in Objects /\ x # x[2]
           /\ Root(x) = Root(x[2])
           /\ Root(x) \in Slots \cup FdOwners \cup {<<"devcfg">>}
<1> USE PartIs, PartObjects, WholeObjects, KindIs
<1>1. CASE \E r \in Slots : \E d \in {Driver(r), Decoupler(r)} :
                 x \in {d, Uio(d), Fd(Uio(d)), Sockets(d)}
  <2>1. PICK r \in Slots : \E d \in {Driver(r), Decoupler(r)} :
                 x \in {d, Uio(d), Fd(Uio(d)), Sockets(d)}
    BY <1>1
  <2>2. PICK d \in {Driver(r), Decoupler(r)} : x \in {d, Uio(d), Fd(Uio(d)), Sockets(d)}
    BY <2>1
  <2>3. r \in Objects /\ r[1] = "slot"
    BY OwnerKinds
  <2>4. Owner(r) = r /\ d[1] = "part" /\ d[2] = r /\ Owner(d) = r /\ d \in Objects
    BY <2>2, <2>3 DEF Owner, Driver, Decoupler
  <2>5. /\ Owner(Uio(d)) = d /\ Owner(Fd(Uio(d))) = Uio(d) /\ Owner(Sockets(d)) = d
        /\ Uio(d) \in Objects
    BY <2>2 DEF Uio, Fd, Sockets
  <2>6. x[1] = "part" /\ x[2] = Owner(x) /\ Owner(x) \in {r, d, Uio(d)}
    BY <2>2, <2>4, <2>5 DEF Uio, Fd, Sockets
  <2>7. Root(x) = r /\ Root(x[2]) = r
    BY <2>2, <2>4, <2>5, <2>6 DEF Root
  <2>8. Part(r, "uio") # r /\ r[1] # "part"
    BY <2>3
  <2>9. x # x[2]
    <3>1. x = d => x # x[2]
      BY <2>4, <2>3
    <3>2. x = Uio(d) => x # x[2]
      BY <2>2, PartsDiffer DEF Uio, Driver, Decoupler
    <3>3. x = Fd(Uio(d)) => x # x[2]
      BY PartsDiffer DEF Uio, Fd
    <3>4. x = Sockets(d) => x # x[2]
      BY <2>2, PartsDiffer DEF Sockets, Driver, Decoupler
    <3> QED
      BY <2>2, <3>1, <3>2, <3>3, <3>4
  <2> QED
    BY <2>3, <2>4, <2>5, <2>6, <2>7, <2>9
<1>2. CASE \E r \in FdOwners : x = Fd(r)
  <2>1. PICK r \in FdOwners : x = Fd(r)
    BY <1>2
  <2>2. r[1] # "part" /\ r \in Objects
    BY OwnerKinds
  <2>3. Owner(r) = r /\ Owner(x) = r /\ x[1] = "part" /\ x[2] = r
    BY <2>1, <2>2 DEF Fd, Owner
  <2> QED
    BY <2>1, <2>2, <2>3 DEF Root
<1>3. CASE x = Driver(<<"devcfg">>)
  <2>1. Owner(<<"devcfg">>) = <<"devcfg">> /\ Owner(x) = <<"devcfg">> /\ x[1] = "part"
        /\ x[2] = <<"devcfg">>
        /\ <<"devcfg">>[1] = "devcfg"
    BY <1>3 DEF Driver, Owner
  <2> QED
    BY <2>1 DEF Root, OneOfAKind
<1>4. CASE \E a \in Attrs : x = Part(Driver(<<"devcfg">>), a)
  <2>1. PICK a \in Attrs : x = Part(Driver(<<"devcfg">>), a)
    BY <1>4
  <2>2. Owner(<<"devcfg">>) = <<"devcfg">> /\ Owner(x) = Driver(<<"devcfg">>) /\ x[1] = "part"
        /\ x[2] = Driver(<<"devcfg">>) /\ Owner(Driver(<<"devcfg">>)) = <<"devcfg">>
        /\ <<"devcfg">>[1] = "devcfg"
    BY <2>1 DEF Driver, Owner
  <2>3. x # x[2]
    BY <2>1, PartsDiffer DEF Driver, Attrs
  <2> QED
    BY <2>2, <2>3 DEF Root, OneOfAKind
<1>5. CASE x \in {FrontData, Sockets(FrontEnd)}
  <2>1. Owner(FrontEnd) = FrontEnd /\ Owner(x) = FrontEnd /\ x[1] = "part" /\ x[2] = FrontEnd
    BY <1>5 DEF FrontData, Sockets, Owner
  <2> QED
    BY <2>1 DEF Root, FdOwners
<1> QED
  BY PartCases, <1>1, <1>2, <1>3, <1>4, <1>5

\* Every object has a root, an object that is no part.
LEMMA RootIs ==
    ASSUME NEW x \in Objects
    PROVE  /\ Root(x) \in Objects /\ Root(x) \notin Parts /\ Root(x)[1] # "part"
           /\ x[1] = "part" <=> x \in Parts
           /\ x[1] # "part" => Root(x) = x
<1>1. CASE x \in Parts
  <2>1. Root(x) \in Slots \cup FdOwners \cup {<<"devcfg">>} /\ x[1] = "part"
    BY <1>1, PartOf
  <2>2. Root(x) \in Objects /\ Root(x)[1] # "part"
    BY <2>1, OwnerKinds
  <2>3. Root(x) \notin Parts
    BY <2>2, PartOf
  <2> QED
    BY <1>1, <2>1, <2>2, <2>3
<1> QED
  BY <1>1, WholeIs

LEMMA ReadsAre ==
    ASSUME NEW x \in Objects
    PROVE  /\ x \in Parts /\ x # FrontData => Reads(x) = {x[2]}
           /\ x = FrontData => Reads(x) = {Fd(<<"buffctl">>), FrontEnd}
           /\ x[1] = "task" => Reads(x) = {Partition(task_partition[x[2]])}
           /\ x[1] = "bits" => Reads(x) = {Fd(<<"buffctl">>), HwTask(x[2])}
           /\ x[1] = "client" => Reads(x) = {Fd(<<"buffctl">>)}
           /\ x[1] \notin {"part", "task", "bits", "client"} => Reads(x) = {}
<1>1. FrontData[1] = "part"
  BY PartIs DEF FrontData
<1>2. x[1] = "part" <=> x \in Parts
  BY RootIs
<1> QED
  BY <1>1, <1>2 DEF Reads

\* What is freed may be neither the same object nor one that is read.
LEMMA SafeIf ==
    ASSUME NEW a \in Objects, NEW b \in Objects, a # b, a \notin Reads(b)
    PROVE  <<a, b>> \in SafeOrder
  BY DEF SafeOrder, SafeAfter

ReadsBuffctl(b) == b[1] \in {"bits", "client"} \/ b = FrontData

\* Objects of different roots, but for two cases, are freed in any order.
LEMMA Apart ==
    ASSUME NEW a \in Objects, NEW b \in Objects, Root(a) # Root(b),
           a = Fd(<<"buffctl">>) => ~ReadsBuffctl(b),
           b[1] = "bits" => a # HwTask(b[2])
    PROVE  <<a, b>> \in SafeOrder
<1>1. a # b
  OBVIOUS
<1>2. CASE b[1] = "task"
  <2>1. <<a, b>> \in Objects \X Objects
    OBVIOUS
  <2>2. SafeAfter(a, b)
    BY <1>1, <1>2, ReadsAre DEF SafeAfter
  <2> QED
    BY <2>1, <2>2 DEF SafeOrder
<1>3. CASE b \in Parts /\ b # FrontData
  BY <1>1, <1>3, ReadsAre, PartOf, SafeIf
<1>4. CASE b = FrontData
  <2>1. Root(FrontEnd) = FrontEnd /\ FrontData \in Parts /\ FrontData[2] = FrontEnd
    BY WholeObjects, OwnerKinds, RootIs, PartIs, KindIs DEF Parts, FrontData
  <2>2. Root(b) = FrontEnd
    BY <1>4, <2>1, PartOf
  <2>3. a # FrontEnd
    BY <2>1, <2>2
  <2> QED
    BY <1>1, <1>4, <2>3, ReadsAre, SafeIf DEF ReadsBuffctl
<1>5. CASE b[1] \in {"bits", "client"}
  <2>1. a # HwTask(b[2]) \/ b[1] = "client"
    BY <1>5, KindIs
  <2> QED
    BY <1>1, <1>5, <2>1, ReadsAre, SafeIf DEF ReadsBuffctl
<1>6. CASE b[1] \notin {"part", "task", "bits", "client"}
  BY <1>1, <1>6, ReadsAre, SafeIf
<1> QED
  BY <1>2, <1>3, <1>4, <1>5, <1>6, RootIs

\* An object and the part of another, or one that reads nothing, of the same family.
LEMMA Within ==
    ASSUME NEW a \in Objects, NEW b \in Objects, a # b,
           \/ b \in Parts /\ b # FrontData /\ a # b[2]
           \/ b[1] \notin {"part", "task", "bits", "client"}
    PROVE  <<a, b>> \in SafeOrder
  BY ReadsAre, SafeIf

LEMMA SafePairs ==
    ASSUME NEW a, NEW b, <<a, b>> \in SafeOrder
    PROVE  a \in Objects /\ b \in Objects /\ SafeAfter(a, b)
  BY DEF SafeOrder

-----------------------------------------------------------------------------
(* What constructors acquire and destructors free. *)

BackOrder == {ab \in Objects \X Objects : <<ab[2], ab[1]>> \in SafeOrder}

LEMMA BackIf ==
    ASSUME NEW a \in Objects, NEW b \in Objects, <<b, a>> \in SafeOrder
    PROVE  <<a, b>> \in BackOrder
  BY DEF BackOrder

\* The elements of s are S, and each is related to all that follow it.
IsList(s, S, R) == s \in Seq(Objects) /\ ToSet(s) = S /\ Pairwise(s, R)

LEMMA EmptyList ==
    ASSUME NEW R
    PROVE  IsList(<<>>, {}, R)
  BY DEF IsList, ToSet, Pairwise

LEMMA OneList ==
    ASSUME NEW a \in Objects, NEW R
    PROVE  IsList(<<a>>, {a}, R)
<1>1. <<a>> \in Seq(Objects) /\ ToSet(<<a>>) = {a}
  BY DEF ToSet
<1>2. Pairwise(<<a>>, R)
  BY DEF Pairwise
<1> QED
  BY <1>1, <1>2 DEF IsList

LEMMA TwoList ==
    ASSUME NEW a \in Objects, NEW b \in Objects, NEW R, <<a, b>> \in R
    PROVE  IsList(<<a, b>>, {a, b}, R)
<1>1. <<a, b>> \in Seq(Objects) /\ ToSet(<<a, b>>) = {a, b}
  BY DEF ToSet
<1>2. Pairwise(<<a, b>>, R)
  BY DEF Pairwise
<1> QED
  BY <1>1, <1>2 DEF IsList

LEMMA ConcatList ==
    ASSUME NEW s, NEW t, NEW S, NEW T, NEW R, IsList(s, S, R), IsList(t, T, R),
           \A a \in S, b \in T : <<a, b>> \in R
    PROVE  IsList(s \o t, S \cup T, R)
<1>1. /\ s \in Seq(Objects) /\ ToSet(s) = S /\ Pairwise(s, R)
      /\ t \in Seq(Objects) /\ ToSet(t) = T /\ Pairwise(t, R)
  BY DEF IsList
<1>2. s \o t \in Seq(Objects) /\ ToSet(s \o t) = ToSet(s) \cup ToSet(t)
  BY <1>1, ConcatSet
<1>3. Pairwise(s \o t, R)
  BY <1>1, ConcatPairwise
<1> QED
  BY <1>1, <1>2, <1>3 DEF IsList

\* The reverse of the first k elements.
LEMMA ReversedPrefix ==
    ASSUME NEW s \in Seq(Objects), NEW k \in 0..Len(s), Pairwise(s, BackOrder)
    PROVE  /\ SubSeq(s, 1, k) \in Seq(Objects) /\ ToSet(SubSeq(s, 1, k)) \subseteq ToSet(s)
           /\ k = Len(s) => SubSeq(s, 1, k) = s
           /\ Reverse(SubSeq(s, 1, k)) \in Seq(Objects)
           /\ ToSet(Reverse(SubSeq(s, 1, k))) = ToSet(SubSeq(s, 1, k))
           /\ Pairwise(Reverse(SubSeq(s, 1, k)), SafeOrder)
<1> DEFINE t == SubSeq(s, 1, k)
           r == Reverse(t)
<1>1. /\ t \in Seq(Objects) /\ Len(t) = k /\ DOMAIN t = 1..k
      /\ \A i \in 1..k : t[i] = s[i] /\ i \in 1..Len(s)
      /\ DOMAIN s = 1..Len(s)
  OBVIOUS
<1>2. ToSet(t) \subseteq ToSet(s)
  BY <1>1 DEF ToSet
<1>3. k = Len(s) => t = s
  BY <1>1
<1>4. r = [i \in 1..k |-> t[(k - i) + 1]]
  BY <1>1 DEF Reverse
<1> HIDE DEF t, r
<1>5. \A i \in 1..k : (k - i) + 1 \in 1..k /\ (k - ((k - i) + 1)) + 1 = i
  OBVIOUS
<1>6. r \in Seq(Objects) /\ Len(r) = k /\ DOMAIN r = 1..k
  BY <1>1, <1>4, <1>5
<1>7. ToSet(r) = ToSet(t)
  <2>1. ASSUME NEW i \in 1..k PROVE t[i] \in ToSet(r)
    <3>1. r[(k - i) + 1] = t[i]
      BY <1>4, <1>5
    <3> QED
      BY <3>1, <1>5, <1>6 DEF ToSet
  <2>2. ASSUME NEW i \in 1..k PROVE r[i] \in ToSet(t)
    BY <1>1, <1>4, <1>5 DEF ToSet
  <2> QED
    BY <1>1, <1>6, <2>1, <2>2 DEF ToSet
<1>8. ASSUME NEW i \in 1..k, NEW j \in 1..k, i < j PROVE <<r[i], r[j]>> \in SafeOrder
  <2>1. (k - j) + 1 \in 1..Len(s) /\ (k - i) + 1 \in 1..Len(s) /\ (k - j) + 1 < (k - i) + 1
    BY <1>1, <1>8
  <2>2. <<s[(k - j) + 1], s[(k - i) + 1]>> \in BackOrder
    BY <2>1 DEF Pairwise
  <2>3. s[(k - j) + 1] = r[j] /\ s[(k - i) + 1] = r[i]
    BY <1>1, <1>4, <1>5
  <2> QED
    BY <2>2, <2>3 DEF BackOrder
<1>9. Pairwise(r, SafeOrder)
  BY <1>6, <1>8 DEF Pairwise
<1> QED
  BY <1>1, <1>2, <1>3, <1>6, <1>7, <1>9 DEF r, t

\* The lists of object r hold r and its parts, and free a part before its owner.
ListsOK(r) ==
    /\ IsList(Acquired(r), ToSet(Acquired(r)), BackOrder)
    /\ IsList(Frees(r), ToSet(Acquired(r)), SafeOrder)
    /\ r \in ToSet(Acquired(r))
    /\ \A x \in ToSet(Acquired(r)) : Root(x) = r

\* Reverse lists.
LEMMA ReversedLists ==
    ASSUME NEW r \in Objects, NEW S, IsList(Acquired(r), S, BackOrder),
           Frees(r) = Reverse(Acquired(r))
    PROVE  IsList(Frees(r), S, SafeOrder)
<1>1. Len(Acquired(r)) \in 0..Len(Acquired(r))
  BY DEF IsList
<1> QED
  BY <1>1, ReversedPrefix DEF IsList

LEMMA WithFdLists ==
    ASSUME NEW r \in FdOwners, r # FrontEnd
    PROVE  ListsOK(r) /\ ToSet(Acquired(r)) = {r, Fd(r)}
<1>1. r[1] \in {"timer", "reactor", "buffctl", "signals"} /\ r \in Objects /\ r # FrontEnd
  BY OwnerKinds, KindIs DEF FdOwners, Timers
<1>2. Acquired(r) = <<r>> \o <<Fd(r)>>
  BY <1>1 DEF Acquired
<1>3. Frees(r) = Reverse(Acquired(r))
  BY <1>1 DEF Frees
<1>4. Fd(r) \in Objects /\ Fd(r) \in Parts /\ Fd(r)[2] = r /\ Fd(r)[3] = "fd"
  BY PartObjects, PartIs DEF Parts, FdOwners, Fd
<1>5. Root(Fd(r)) = r /\ Root(r) = r /\ Fd(r) # r
  BY <1>1, <1>4, PartOf, RootIs
<1>6. <<Fd(r), r>> \in SafeOrder
  BY <1>1, <1>4, <1>5, Within
<1>7. <<r, Fd(r)>> \in BackOrder
  BY <1>1, <1>4, <1>6, BackIf
<1>8. IsList(<<r>>, {r}, BackOrder) /\ IsList(<<Fd(r)>>, {Fd(r)}, BackOrder)
  BY <1>1, <1>4, OneList
<1>9. IsList(Acquired(r), {r} \cup {Fd(r)}, BackOrder)
  BY <1>2, <1>7, <1>8, ConcatList
<1>10. ToSet(Acquired(r)) = {r, Fd(r)}
  BY <1>9 DEF IsList
<1>11. IsList(Frees(r), {r} \cup {Fd(r)}, SafeOrder)
  BY <1>1, <1>3, <1>9, ReversedLists
<1> QED
  BY <1>5, <1>9, <1>10, <1>11 DEF ListsOK

\* The objects that are their own and only list.
LEMMA AloneLists ==
    ASSUME NEW r \in Objects, r \notin Parts, r \notin Slots, r \notin FdOwners, r # <<"devcfg">>
    PROVE  ListsOK(r) /\ Acquired(r) = <<r>> /\ Frees(r) = <<r>>
<1>1. r[1] \notin {"devcfg", "slot", "timer", "reactor", "buffctl", "signals"} /\ r # FrontEnd
  BY WholeCases, KindIs DEF OneOfAKind, FdOwners, Timers, Slots, Signals, FrontEnd
<1>2. Acquired(r) = <<r>> \o <<>>
  BY <1>1 DEF Acquired
<1>3. Acquired(r) = <<r>>
  BY <1>2
<1>4. Frees(r) = Reverse(<<r>>)
  BY <1>1, <1>3 DEF Frees
<1>5. Reverse(<<r>>) = <<r>>
  BY DEF Reverse
<1>6. IsList(<<r>>, {r}, BackOrder) /\ IsList(<<r>>, {r}, SafeOrder)
  BY OneList
<1>7. ToSet(<<r>>) = {r} /\ Root(r) = r
  BY <1>6, RootIs DEF IsList
<1> QED
  BY <1>3, <1>4, <1>5, <1>6, <1>7 DEF ListsOK

DriverSet(d) == {d, Uio(d), Fd(Uio(d)), Sockets(d)}

LEMMA DriverFacts ==
    ASSUME NEW r \in Slots, NEW d \in {Driver(r), Decoupler(r)}
    PROVE  /\ DriverSet(d) \subseteq Objects /\ DriverSet(d) \subseteq Parts
           /\ \A x \in DriverSet(d) : Root(x) = r /\ x # FrontData /\ x # r
           /\ d[2] = r /\ Uio(d)[2] = d /\ Fd(Uio(d))[2] = Uio(d) /\ Sockets(d)[2] = d
           /\ d[3] \in {"drv", "decoup"} /\ Uio(d)[3] = "uio" /\ Fd(Uio(d))[3] = "fd"
           /\ Sockets(d)[3] = "sockets"
<1>1. DriverSet(d) \subseteq Parts /\ Parts \subseteq Objects
  BY PartObjects DEF Parts, DriverParts, DriverSet
<1>2. r \in Objects /\ Root(r) = r /\ r[1] = "slot" /\ r # FrontEnd
  BY OwnerKinds, RootIs, KindIs
<1>3. d[2] = r /\ d[3] \in {"drv", "decoup"}
  BY PartIs DEF Driver, Decoupler
<1>4. /\ Uio(d)[2] = d /\ Fd(Uio(d))[2] = Uio(d) /\ Sockets(d)[2] = d
      /\ Uio(d)[3] = "uio" /\ Fd(Uio(d))[3] = "fd" /\ Sockets(d)[3] = "sockets"
  BY PartIs DEF Uio, Fd, Sockets
<1>5. Root(d) = r /\ Root(Uio(d)) = r /\ Root(Fd(Uio(d))) = r /\ Root(Sockets(d)) = r
  BY <1>1, <1>2, <1>3, <1>4, PartOf DEF DriverSet
<1>6. Root(FrontData) = FrontEnd
  <2>1. FrontData \in Parts /\ FrontData[2] = FrontEnd
    BY PartIs DEF Parts, FrontData
  <2> QED
    BY <2>1, PartOf, RootIs, WholeObjects, KindIs
<1>7. \A x \in DriverSet(d) : x[1] = "part"
  BY <1>1, PartOf
<1> QED
  BY <1>1, <1>2, <1>3, <1>4, <1>5, <1>6, <1>7 DEF DriverSet

\* Parts of the driver and of the decoupler of a slot have nothing to do with each other.
LEMMA DriversApart ==
    ASSUME NEW r \in Slots, NEW a \in DriverSet(Driver(r)), NEW b \in DriverSet(Decoupler(r))
    PROVE  a # b /\ a # b[2] /\ b # a[2]
<1>1. Driver(r) # Decoupler(r) /\ Driver(r)[3] = "drv" /\ Decoupler(r)[3] = "decoup"
  BY PartsDiffer, PartIs DEF Driver, Decoupler
<1>2. Uio(Driver(r)) # Uio(Decoupler(r))
  BY <1>1, PartsDiffer DEF Uio
<1>3. Fd(Uio(Driver(r))) # Fd(Uio(Decoupler(r))) /\ Sockets(Driver(r)) # Sockets(Decoupler(r))
  BY <1>1, <1>2, PartsDiffer DEF Fd, Sockets
<1> DEFINE D == Driver(r)
           C == Decoupler(r)
<1>4. /\ \A x \in DriverSet(D) : x # r
      /\ D[2] = r /\ Uio(D)[2] = D /\ Fd(Uio(D))[2] = Uio(D) /\ Sockets(D)[2] = D
      /\ Uio(D)[3] = "uio" /\ Fd(Uio(D))[3] = "fd" /\ Sockets(D)[3] = "sockets"
  BY DriverFacts
<1>5. /\ \A x \in DriverSet(C) : x # r
      /\ C[2] = r /\ Uio(C)[2] = C /\ Fd(Uio(C))[2] = Uio(C) /\ Sockets(C)[2] = C
      /\ Uio(C)[3] = "uio" /\ Fd(Uio(C))[3] = "fd" /\ Sockets(C)[3] = "sockets"
  BY DriverFacts
<1>6. a # b
  BY <1>1, <1>2, <1>3, <1>4, <1>5 DEF DriverSet
<1>7. b[2] \in {r, C, Uio(C)} /\ a[2] \in {r, D, Uio(D)}
  BY <1>4, <1>5 DEF DriverSet
<1>8. a \notin {r, C, Uio(C)} /\ b \notin {r, D, Uio(D)}
  BY <1>1, <1>2, <1>4, <1>5 DEF DriverSet
<1> QED
  BY <1>6, <1>7, <1>8

\* The lists acq and fr of parts, what they acquire and how they free it.
PartListsOK(acq, fr, S) ==
    \E T \in SUBSET S : IsList(acq, T, BackOrder) /\ IsList(fr, T, SafeOrder)

LEMMA DriverLists ==
    ASSUME NEW r \in Slots, NEW d \in {Driver(r), Decoupler(r)}
    PROVE  /\ PartListsOK(MasterDriver(d), MasterFrees(d), DriverSet(d))
           /\ PartListsOK(NullDriver(d), NullFrees(d), DriverSet(d))
<1> DEFINE U == Uio(d)
           F == Fd(Uio(d))
           S == Sockets(d)
<1>1. /\ {d, U, F, S} \subseteq Objects /\ {d, U, F, S} \subseteq Parts
      /\ d[2] = r /\ U[2] = d /\ F[2] = U /\ S[2] = d
      /\ d # U /\ d # F /\ d # S /\ U # F
      /\ \A x \in {d, U, F, S} : x # FrontData /\ x # r
  BY DriverFacts DEF DriverSet
<1> HIDE DEF U, F, S
<1>2. <<U, d>> \in SafeOrder /\ <<F, d>> \in SafeOrder /\ <<F, U>> \in SafeOrder /\ <<S, d>> \in SafeOrder
  BY <1>1, Within
<1>3. <<d, U>> \in BackOrder /\ <<d, F>> \in BackOrder /\ <<U, F>> \in BackOrder /\ <<d, S>> \in BackOrder
  BY <1>1, <1>2, BackIf
<1>4. IsList(<<d>>, {d}, BackOrder) /\ IsList(<<d>>, {d}, SafeOrder)
  BY <1>1, OneList
<1>5. IsList(<<U, F>>, {U, F}, BackOrder) /\ IsList(<<F, U>>, {F, U}, SafeOrder)
  BY <1>1, <1>2, <1>3, TwoList
<1>6. IsList(<<d, S>>, {d, S}, BackOrder) /\ IsList(<<S, d>>, {S, d}, SafeOrder)
  BY <1>1, <1>2, <1>3, TwoList
<1>7. IsList(<<d>> \o <<U, F>>, {d} \cup {U, F}, BackOrder)
  BY <1>3, <1>4, <1>5, ConcatList
<1>8. IsList(<<F, U>> \o <<d>>, {F, U} \cup {d}, SafeOrder)
  BY <1>2, <1>4, <1>5, ConcatList
<1>9. MasterDriver(d) = <<d>> \o <<U, F>> /\ MasterFrees(d) = <<F, U>> \o <<d>>
  BY DEF MasterDriver, MasterFrees, UioDevice, UioFrees, U, F
<1>10. NullDriver(d) = <<d, S>> /\ NullFrees(d) = <<S, d>> /\ DriverSet(d) = {d, U, F, S}
  BY DEF NullDriver, NullFrees, S, U, F, DriverSet
<1>11. PartListsOK(MasterDriver(d), MasterFrees(d), DriverSet(d))
  <2>1. {d} \cup {U, F} = {F, U} \cup {d} /\ {d} \cup {U, F} \in SUBSET {d, U, F, S}
    OBVIOUS
  <2> QED
    BY <1>7, <1>8, <1>9, <1>10, <2>1 DEF PartListsOK
<1>12. PartListsOK(NullDriver(d), NullFrees(d), DriverSet(d))
  <2>1. {d, S} = {S, d} /\ {d, S} \in SUBSET {d, U, F, S}
    OBVIOUS
  <2> QED
    BY <1>6, <1>10, <2>1 DEF PartListsOK
<1> QED
  BY <1>11, <1>12

LEMMA SlotLists ==
    ASSUME NEW r \in Slots
    PROVE  ListsOK(r) /\ ToSet(Acquired(r)) \subseteq {r} \cup DriverSet(Driver(r))
           \cup DriverSet(Decoupler(r))
<1> DEFINE D == Driver(r)
           C == Decoupler(r)
<1>1. PICK A, F : /\ A = IF mode = "rcfg_test" THEN NullDriver(D) ELSE MasterDriver(D)
                  /\ F = IF mode = "rcfg_test" THEN NullFrees(D) ELSE MasterFrees(D)
  OBVIOUS
<1>2. PICK T \in SUBSET DriverSet(D) : IsList(A, T, BackOrder) /\ IsList(F, T, SafeOrder)
  BY <1>1, DriverLists DEF PartListsOK
<1>3. PICK B, G : B = XilDecoupler(C) /\ G = XilFrees(C)
  OBVIOUS
<1>4. B = MasterDriver(C) /\ G = MasterFrees(C)
  BY <1>3 DEF XilDecoupler, XilFrees, MasterDriver, MasterFrees
<1>5. PICK V \in SUBSET DriverSet(C) : IsList(B, V, BackOrder) /\ IsList(G, V, SafeOrder)
  BY <1>4, DriverLists DEF PartListsOK
<1>6. r[1] = "slot" /\ r \in Objects /\ r # FrontEnd /\ Root(r) = r
  BY OwnerKinds, KindIs, RootIs
<1>7. Acquired(r) = <<r>> \o (A \o B)
  BY <1>1, <1>3, <1>6 DEF Acquired, SlotAcquired
<1>8. Frees(r) = (F \o G) \o <<r>>
  BY <1>1, <1>3, <1>6 DEF Frees, SlotFrees
<1>9. \A x \in DriverSet(D) \cup DriverSet(C) : x \in Objects /\ x \in Parts /\ Root(x) = r /\ x # r
      /\ x # FrontData
  BY DriverFacts
<1>10. ASSUME NEW a \in DriverSet(D), NEW b \in DriverSet(C)
      PROVE  <<a, b>> \in SafeOrder /\ <<a, b>> \in BackOrder
  <2>1. a # b /\ a # b[2] /\ b # a[2]
    BY DriversApart
  <2>2. <<a, b>> \in SafeOrder /\ <<b, a>> \in SafeOrder
    BY <1>9, <2>1, Within
  <2> QED
    BY <1>9, <2>2, BackIf
<1>11. ASSUME NEW a \in DriverSet(D) \cup DriverSet(C)
       PROVE  <<a, r>> \in SafeOrder /\ <<r, a>> \in BackOrder
  BY <1>6, <1>9, Within, BackIf
<1> HIDE DEF D, C
<1>12. IsList(A \o B, T \cup V, BackOrder) /\ IsList(F \o G, T \cup V, SafeOrder)
  BY <1>2, <1>5, <1>10, ConcatList
<1>13. IsList(<<r>>, {r}, BackOrder) /\ IsList(<<r>>, {r}, SafeOrder)
  BY <1>6, OneList
<1>14. IsList(Acquired(r), {r} \cup (T \cup V), BackOrder)
  <2>1. \A a \in {r}, b \in T \cup V : <<a, b>> \in BackOrder
    BY <1>11
  <2>2. PICK L, W : L = A \o B /\ W = T \cup V
    OBVIOUS
  <2>3. IsList(<<r>> \o L, {r} \cup W, BackOrder)
    BY <1>12, <1>13, <2>1, <2>2, ConcatList
  <2> QED
    BY <1>7, <2>2, <2>3
<1>15. IsList(Frees(r), (T \cup V) \cup {r}, SafeOrder)
  <2>1. \A a \in T \cup V, b \in {r} : <<a, b>> \in SafeOrder
    BY <1>11
  <2>2. PICK L, W : L = F \o G /\ W = T \cup V
    OBVIOUS
  <2>3. IsList(L \o <<r>>, W \cup {r}, SafeOrder)
    BY <1>12, <1>13, <2>1, <2>2, ConcatList
  <2> QED
    BY <1>8, <2>2, <2>3
<1>16. ToSet(Acquired(r)) = {r} \cup (T \cup V) /\ (T \cup V) \cup {r} = {r} \cup (T \cup V)
  BY <1>14 DEF IsList
<1>17. ListsOK(r)
  BY <1>6, <1>9, <1>14, <1>15, <1>16 DEF ListsOK
<1> QED
  BY <1>16, <1>17 DEF D, C

\* The device and its attributes.
LEMMA DevcfgLists ==
    ListsOK(<<"devcfg">>)
<1> DEFINE r == <<"devcfg">>
           D == Driver(r)
           O == [k \in 1..4 |-> Part(D, AttrsOpened[k])]
           C == [k \in 1..4 |-> Part(D, AttrsClosed[k])]
           P == {Part(D, a) : a \in Attrs}
<1>1. r[1] = "devcfg" /\ r \in Objects /\ r # FrontEnd /\ Root(r) = r
  BY OwnerKinds, KindIs, RootIs
<1>2. D \in Objects /\ D \in Parts /\ D[2] = r /\ D # r /\ Root(D) = r /\ D # FrontData
  <2>1. D \in Objects /\ D \in Parts /\ D[2] = r
    BY PartObjects, PartIs DEF Parts, Driver
  <2>2. FrontData[2] = FrontEnd
    BY PartIs DEF FrontData
  <2> QED
    BY <1>1, <2>1, <2>2, PartOf
<1>3. ASSUME NEW x \in P
      PROVE  x \in Objects /\ x \in Parts /\ x[2] = D /\ x # D /\ Root(x) = r /\ x # FrontData /\ x # r
  <2>1. PICK a \in Attrs : x = Part(D, a)
    OBVIOUS
  <2>2. x \in Objects /\ x \in Parts /\ x[2] = D
    <3>1. ToSet(AttrsOpened) = Attrs
      BY DEF ToSet, AttrsOpened, Attrs
    <3> QED
      BY <2>1, <3>1, PartObjects, PartIs DEF Parts
  <2>3. FrontData[2] = FrontEnd /\ x[1] = "part"
    BY <2>1, PartIs DEF FrontData
  <2>4. D # FrontEnd
    BY <1>2, PartOf, KindIs
  <2> QED
    BY <1>1, <1>2, <2>2, <2>3, <2>4, PartOf
<1>4. /\ \A k \in 1..4 : AttrsOpened[k] \in Attrs /\ AttrsClosed[k] \in Attrs
      /\ \A a \in Attrs : (\E k \in 1..4 : AttrsOpened[k] = a) /\ (\E k \in 1..4 : AttrsClosed[k] = a)
      /\ \A j, k \in 1..4 : j < k => AttrsOpened[j] # AttrsOpened[k] /\ AttrsClosed[j] # AttrsClosed[k]
  BY DEF AttrsOpened, AttrsClosed, Attrs
<1> HIDE DEF r, D
<1>5. /\ \A k \in 1..4 : O[k] \in P /\ C[k] \in P
      /\ \A x \in P : (\E k \in 1..4 : O[k] = x) /\ (\E k \in 1..4 : C[k] = x)
  BY <1>4
<1>6. \A j, k \in 1..4 : j < k => O[j] # O[k] /\ C[j] # C[k]
  BY <1>4, PartsDiffer
<1>7. O \in [1..4 -> P] /\ C \in [1..4 -> P]
  BY <1>5
<1> HIDE DEF O, C, P
<1>8. ASSUME NEW x \in P, NEW y \in P, x # y PROVE <<x, y>> \in SafeOrder
  BY <1>3, <1>8, Within
<1>9. ASSUME NEW R, NEW s \in [1..4 -> P], \A x \in P : \E k \in 1..4 : s[k] = x,
             \A j, k \in 1..4 : j < k => <<s[j], s[k]>> \in R
      PROVE  IsList(s, P, R)
  <2>1. s \in Seq(Objects) /\ Len(s) = 4 /\ DOMAIN s = 1..4
    <3>1. P \subseteq Objects
      BY <1>3
    <3>2. s \in [1..4 -> Objects] /\ 4 \in Nat
      BY <3>1
    <3>3. s \in Seq(Objects)
      BY <3>2, SeqDef
    <3> QED
      BY <3>2, <3>3
  <2>2. ToSet(s) = P
    BY <1>9, <2>1 DEF ToSet
  <2>3. Pairwise(s, R)
    BY <1>9, <2>1 DEF Pairwise
  <2> QED
    BY <2>1, <2>2, <2>3 DEF IsList
<1>10. IsList(O, P, BackOrder)
  <2>1. \A j, k \in 1..4 : j < k => <<O[j], O[k]>> \in BackOrder
    BY <1>3, <1>5, <1>6, <1>8, BackIf
  <2> QED
    BY <1>5, <1>7, <1>9, <2>1
<1>11. IsList(C, P, SafeOrder)
  <2>1. \A j, k \in 1..4 : j < k => <<C[j], C[k]>> \in SafeOrder
    BY <1>5, <1>6, <1>8
  <2> QED
    BY <1>5, <1>7, <1>9, <2>1
<1>12. <<D, r>> \in SafeOrder /\ <<r, D>> \in BackOrder
  BY <1>1, <1>2, Within, BackIf
<1>13. ASSUME NEW x \in P
       PROVE  <<x, D>> \in SafeOrder /\ <<x, r>> \in SafeOrder /\ <<D, x>> \in BackOrder
              /\ <<r, x>> \in BackOrder
  <2>1. x \in Objects /\ x # D /\ x # r /\ r # x[2] /\ D[2] # x
    BY <1>2, <1>3
  <2>2. <<x, D>> \in SafeOrder /\ <<x, r>> \in SafeOrder
    BY <1>1, <1>2, <2>1, Within
  <2> QED
    BY <1>1, <1>2, <2>1, <2>2, BackIf
<1>14. IsList(<<r>>, {r}, BackOrder) /\ IsList(<<D>>, {D}, BackOrder)
       /\ IsList(<<D, r>>, {D, r}, SafeOrder)
  BY <1>1, <1>2, <1>12, OneList, TwoList
<1>15. IsList(<<D>> \o O, {D} \cup P, BackOrder)
  <2>1. \A a \in {D}, b \in P : <<a, b>> \in BackOrder
    BY <1>13
  <2> QED
    BY <1>10, <1>14, <2>1, ConcatList
<1>16. IsList(<<r>> \o (<<D>> \o O), {r} \cup ({D} \cup P), BackOrder)
  <2>1. \A a \in {r}, b \in {D} \cup P : <<a, b>> \in BackOrder
    BY <1>12, <1>13
  <2>2. PICK L, W : L = <<D>> \o O /\ W = {D} \cup P
    OBVIOUS
  <2> QED
    BY <1>14, <1>15, <2>1, <2>2, ConcatList
<1>17. IsList(C \o <<D, r>>, P \cup {D, r}, SafeOrder)
  <2>1. \A a \in P, b \in {D, r} : <<a, b>> \in SafeOrder
    BY <1>13
  <2> QED
    BY <1>11, <1>14, <2>1, ConcatList
<1>18. Acquired(r) = <<r>> \o (<<D>> \o O) /\ Frees(r) = C \o <<D, r>>
  BY <1>1 DEF Acquired, Frees, DevcfgAcquired, DevcfgFrees, O, C, D
<1>19. ToSet(Acquired(r)) = {r} \cup ({D} \cup P) /\ {r} \cup ({D} \cup P) = P \cup {D, r}
  BY <1>16, <1>18 DEF IsList
<1>20. ListsOK(r)
  BY <1>1, <1>2, <1>3, <1>16, <1>17, <1>18, <1>19 DEF ListsOK
<1> QED
  BY <1>20 DEF r

\* The listener or the cyclic client.
LEMMA FrontLists ==
    ListsOK(FrontEnd)
<1> DEFINE r == FrontEnd
           F == Fd(r)
           D == FrontData
           S == Sockets(r)
<1>1. r[1] = "front" /\ r \in Objects /\ Root(r) = r /\ r \in FdOwners
  BY OwnerKinds, KindIs, RootIs DEF FdOwners
<1>2. /\ {F, D, S} \subseteq Objects /\ {F, D, S} \subseteq Parts
      /\ \A x \in {F, D, S} : x[2] = r
      /\ F[3] = "fd" /\ D[3] = "data" /\ S[3] = "sockets"
  BY <1>1, PartObjects, PartIs DEF Parts, FrontData, Fd, Sockets, FdOwners
<1>3. \A x \in {F, D, S} : x # r /\ Root(x) = r /\ x[1] = "part"
  BY <1>1, <1>2, PartOf
<1>4. D # Fd(<<"buffctl">>) /\ S # Fd(<<"buffctl">>)
  BY <1>2, PartIs DEF Fd
<1> HIDE DEF r, F, D, S
<1>5. D = FrontData /\ r = FrontEnd
  BY DEF D, r
<1>6. <<F, r>> \in SafeOrder /\ <<S, r>> \in SafeOrder /\ <<D, r>> \in SafeOrder
  BY <1>1, <1>2, <1>3, Within
<1>7. <<S, D>> \in SafeOrder
  <2>1. S \notin Reads(D) /\ S # D
    BY <1>2, <1>3, <1>4, <1>5, ReadsAre
  <2> QED
    BY <1>2, <2>1, SafeIf
<1>8. <<r, F>> \in BackOrder /\ <<r, S>> \in BackOrder /\ <<r, D>> \in BackOrder /\ <<D, S>> \in BackOrder
  BY <1>1, <1>2, <1>6, <1>7, BackIf
<1>9. /\ IsList(<<r>>, {r}, BackOrder) /\ IsList(<<r>>, {r}, SafeOrder)
      /\ IsList(<<F>>, {F}, BackOrder) /\ IsList(<<D, S>>, {D, S}, BackOrder)
      /\ IsList(<<F, r>>, {F, r}, SafeOrder) /\ IsList(<<S, D>>, {S, D}, SafeOrder)
  BY <1>1, <1>2, <1>6, <1>7, <1>8, OneList, TwoList
<1>10. Acquired(r) = <<r>> \o FrontAcquired /\ Frees(r) = FrontFrees
  BY <1>1, <1>5 DEF Acquired, Frees
<1>11. CASE mode = "normal"
  <2>1. Acquired(r) = <<r>> \o <<F>> /\ Frees(r) = <<F, r>>
    BY <1>10, <1>11 DEF FrontAcquired, FrontFrees, F, r
  <2>2. IsList(<<r>> \o <<F>>, {r} \cup {F}, BackOrder)
    BY <1>8, <1>9, ConcatList
  <2>3. ToSet(Acquired(r)) = {r} \cup {F} /\ {r} \cup {F} = {F, r}
    BY <2>1, <2>2 DEF IsList
  <2> QED
    BY <1>1, <1>3, <1>5, <1>9, <2>1, <2>2, <2>3 DEF ListsOK
<1>12. CASE mode # "normal"
  <2>1. Acquired(r) = <<r>> \o <<D, S>> /\ Frees(r) = <<S, D, r>>
    BY <1>10, <1>12 DEF FrontAcquired, FrontFrees, S, D, r
  <2>2. IsList(<<r>> \o <<D, S>>, {r} \cup {D, S}, BackOrder)
    BY <1>8, <1>9, ConcatList
  <2>3. IsList(<<S, D, r>>, {S, D} \cup {r}, SafeOrder)
    <3>1. <<S, D, r>> \in Seq(Objects) /\ ToSet(<<S, D, r>>) = {S, D} \cup {r}
      BY <1>1, <1>2 DEF ToSet
    <3>2. Pairwise(<<S, D, r>>, SafeOrder)
      BY <1>6, <1>7 DEF Pairwise
    <3> QED
      BY <3>1, <3>2 DEF IsList
  <2>5. ToSet(Acquired(r)) = {r} \cup {D, S} /\ {r} \cup {D, S} = {S, D} \cup {r}
    BY <2>1, <2>2 DEF IsList
  <2> QED
    BY <1>1, <1>3, <1>5, <2>1, <2>2, <2>3, <2>5 DEF ListsOK
<1> QED
  BY <1>5, <1>11, <1>12

LEMMA Families ==
    ASSUME NEW r \in Objects, r \notin Parts
    PROVE  ListsOK(r)
<1>1. CASE r \in Slots
  BY <1>1, SlotLists
<1>2. CASE r \in FdOwners /\ r # FrontEnd
  BY <1>2, WithFdLists
<1> QED
  BY <1>1, <1>2, DevcfgLists, FrontLists, AloneLists

-----------------------------------------------------------------------------
(* What the two files give. *)

IsKept(line) == line # <<>> /\ line[1] # "#"
KeptOf(f) == {f[i] : i \in {j \in DOMAIN f : IsKept(f[j])}}

LEMMA ParsedIs ==
    ASSUME NEW f, IsSequence(f)
    PROVE  /\ Parsed(f) \in Seq(KeptOf(f))
           /\ ToSet(Parsed(f)) = KeptOf(f)
<1> DEFINE K == KeptOf(f)
           ss == [i \in DOMAIN f |-> IF IsKept(f[i]) THEN <<f[i]>> ELSE <<>>]
<1>1. Len(f) \in Nat /\ DOMAIN f = 1..Len(f)
  BY DEF IsSequence
<1>2. ASSUME NEW i \in DOMAIN f PROVE ss[i] \in Seq(K)
             /\ ToSet(ss[i]) = IF IsKept(f[i]) THEN {f[i]} ELSE {}
  <2>1. CASE IsKept(f[i])
    <3>1. f[i] \in K /\ ss[i] = <<f[i]>>
      BY <2>1 DEF KeptOf
    <3> QED
      BY <2>1, <3>1 DEF ToSet
  <2>2. CASE ~IsKept(f[i])
    <3>1. ss[i] = <<>>
      BY <2>2
    <3> QED
      BY <2>2, <3>1 DEF ToSet
  <2> QED
    BY <2>1, <2>2
<1>3. ss \in Seq(Seq(K)) /\ Len(ss) = Len(f) /\ DOMAIN ss = 1..Len(f)
  <2>1. ss \in [1..Len(f) -> Seq(K)]
    BY <1>1, <1>2
  <2> HIDE DEF ss
  <2>2. ss \in Seq(Seq(K))
    BY <1>1, <2>1, SeqDef
  <2> QED
    BY <1>1, <2>1, <2>2
<1>4. Parsed(f) = FlattenSeq(ss)
  BY DEF Parsed, IsKept
<1>5. FlattenSeq(ss) \in Seq(K) /\ ToSet(FlattenSeq(ss)) = UNION {ToSet(ss[i]) : i \in 1..Len(ss)}
  <2> HIDE DEF ss, K
  <2> QED BY <1>3, FlattenHolds
<1>6. UNION {ToSet(ss[i]) : i \in 1..Len(ss)} = K
  <2>1. ASSUME NEW x \in K PROVE \E i \in 1..Len(ss) : x \in ToSet(ss[i])
    <3>1. PICK i \in DOMAIN f : IsKept(f[i]) /\ x = f[i]
      BY DEF KeptOf
    <3> QED
      BY <1>1, <1>2, <1>3, <3>1
  <2>2. ASSUME NEW i \in 1..Len(ss), NEW x \in ToSet(ss[i]) PROVE x \in K
    <3>1. IsKept(f[i]) /\ x = f[i] /\ i \in DOMAIN f
      BY <1>1, <1>2, <1>3
    <3> QED
      BY <3>1 DEF KeptOf
  <2> HIDE DEF ss, K
  <2> QED
    BY <2>1, <2>2
<1> QED
  BY <1>4, <1>5, <1>6

LEMMA ModRange ==
    ASSUME NEW a \in Nat, NEW w \in Nat, w # 0
    PROVE  a % w \in 0..(w - 1)
  BY SMT

\* A token that is read as a number is one.
LEMMA NumberIs ==
    ASSUME NEW f, NEW numeric, IsFile(f, numeric), NEW line \in KeptOf(f),
           NEW n \in numeric, n \in Nat \ {0}
    PROVE  Number(Token(line, n)) \in 0..(Word - 1)
<1>1. PICK i \in DOMAIN f : IsKept(f[i]) /\ line = f[i]
  BY DEF KeptOf
<1>2. IsSequence(line) /\ \A k \in DOMAIN line : k \in numeric => line[k] \in Nat
  BY <1>1 DEF IsFile, IsKept
<1>3. n <= Len(line) => n \in DOMAIN line
  BY <1>2 DEF IsSequence
<1>4. Token(line, n) # NULL => Token(line, n) \in Nat
  BY <1>2, <1>3 DEF Token
<1>5. Word \in Nat \ {0}
  BY StartupConstantsOK
<1> QED
  BY <1>4, <1>5, ModRange DEF Number

LEMMA CountIs ==
    ASSUME NEW f, IsFile(f, {2}), NEW line \in KeptOf(f)
    PROVE  SlotCount(line) \in Nat
<1>1. Number(Token(line, 2)) \in 0..(Word - 1)
  BY NumberIs
<1> QED
  BY <1>1, StartupConstantsOK DEF SlotCount

LEMMA LinesOf ==
    ASSUME NEW fs, NEW f \in fs, IsSequence(f)
    PROVE  /\ Len(Parsed(f)) \in Nat
           /\ 1..Len(Parsed(f)) \subseteq Lines(fs)
           /\ \A i \in 1..Len(Parsed(f)) : Parsed(f)[i] \in KeptOf(f)
  BY ParsedIs DEF Lines

FilesGiven == mode \in Modes /\ arch \in ArchFiles /\ tasks \in TaskFiles

LEMMA FileFacts ==
    ASSUME FilesGiven
    PROVE  /\ Len(ArchLines) \in Nat /\ Len(TaskLines) \in Nat
           /\ PartitionNumbers \subseteq Lines(ArchFiles) /\ TaskNumbers \subseteq Lines(TaskFiles)
           /\ Lines(ArchFiles) \subseteq Nat \ {0} /\ Lines(TaskFiles) \subseteq Nat \ {0}
           /\ \A p \in PartitionNumbers :
                SlotsWanted(p) \in Nat /\ 1..SlotsWanted(p) \subseteq SlotNumbers
           /\ SlotNumbers \subseteq Nat \ {0}
<1>1. IsFile(arch, {2}) /\ IsFile(tasks, {3} \cup 6..(5 + MaxDataBuffs + 1))
  BY FilesOK DEF FilesGiven
<1>2. IsSequence(arch) /\ IsSequence(tasks)
  BY <1>1 DEF IsFile
<1>3. Len(ArchLines) \in Nat /\ PartitionNumbers \subseteq Lines(ArchFiles)
      /\ \A i \in PartitionNumbers : ArchLines[i] \in KeptOf(arch)
  BY <1>2, LinesOf DEF FilesGiven, ArchLines, PartitionNumbers
<1>4. Len(TaskLines) \in Nat /\ TaskNumbers \subseteq Lines(TaskFiles)
  BY <1>2, LinesOf DEF FilesGiven, TaskLines, TaskNumbers
<1>5. Lines(ArchFiles) \subseteq Nat \ {0} /\ Lines(TaskFiles) \subseteq Nat \ {0}
  <2>1. ASSUME NEW fs \in {ArchFiles, TaskFiles}, NEW x \in Lines(fs) PROVE x \in Nat \ {0}
    <3>1. PICK f \in fs : x \in 1..Len(Parsed(f))
      BY DEF Lines
    <3>2. IsSequence(f)
      BY FilesOK DEF IsFile
    <3>3. Len(Parsed(f)) \in Nat
      BY <3>2, LinesOf
    <3> QED
      BY <3>1, <3>3
  <2> QED
    BY <2>1
<1>6. ASSUME NEW p \in PartitionNumbers
      PROVE  SlotsWanted(p) \in Nat /\ 1..SlotsWanted(p) \subseteq SlotNumbers
  <2>1. ArchLines[p] \in KeptOf(arch)
    BY <1>3
  <2>2. SlotsWanted(p) \in Nat
    BY <1>1, <2>1, CountIs DEF SlotsWanted
  <2>3. ArchLines[p] \in ToSet(Parsed(arch))
    BY <1>2, <2>1, ParsedIs
  <2>4. ArchLines[p] \in UNION {ToSet(Parsed(f)) : f \in ArchFiles}
    BY <2>3 DEF FilesGiven
  <2> QED
    BY <2>2, <2>4 DEF SlotNumbers, SlotsWanted
<1>7. ASSUME NEW s \in SlotNumbers PROVE s \in Nat \ {0}
  <2>1. PICK line \in UNION {ToSet(Parsed(f)) : f \in ArchFiles} : s \in 1..SlotCount(line)
    BY DEF SlotNumbers
  <2>2. PICK f \in ArchFiles : line \in ToSet(Parsed(f))
    BY <2>1
  <2>3. IsFile(f, {2}) /\ IsSequence(f)
    BY FilesOK DEF IsFile
  <2>4. line \in KeptOf(f)
    BY <2>2, <2>3, ParsedIs
  <2>5. SlotCount(line) \in Nat
    BY <2>3, <2>4, CountIs
  <2> QED
    BY <2>1, <2>5
<1> QED
  BY <1>3, <1>4, <1>5, <1>6, <1>7

-----------------------------------------------------------------------------
(* What is made before each step. *)

LEMMA PhaseIs ==
    ASSUME NEW st
    PROVE  /\ Phase(st) \in 1..15
           /\ Phase(st) = 1 <=> st[1] = "devcfg"
           /\ Phase(st) = 2 <=> st[1] = "scheduler"
           /\ Phase(st) = 3 <=> st[1] = "logger"
           /\ Phase(st) = 4 <=> st[1] = "reactor"
           /\ Phase(st) = 5 <=> st[1] = "buffctl"
           /\ Phase(st) = 6 <=> st[1] = "layout"
           /\ Phase(st) = 7 <=> st[1] = "arch"
           /\ Phase(st) = 8 <=> st[1] \in {"partition", "slot", "timer"}
           /\ Phase(st) = 9 <=> st[1] = "hw_tasks"
           /\ Phase(st) = 10 <=> st[1] \in {"task", "bits", "config"}
           /\ Phase(st) = 11 <=> st[1] = "front"
           /\ Phase(st) = 12 <=> st[1] = "signals"
           /\ Phase(st) = 13 <=> st[1] = "register"
           /\ Phase(st) = 14 <=> st[1] = "running"
  BY DEF Phase

\* Made, by the kind of the object.
LEMMA MadeIs ==
    ASSUME NEW st
    PROVE  /\ \A k \in BaseKinds : Made(st, <<k>>) <=> Phase(<<k>>) < Phase(st)
           /\ Made(st, ArchTokens) <=> Phase(st) > 7
           /\ Made(st, TaskTokens) <=> Phase(st) > 9
           /\ \A p : Made(st, Partition(p)) <=> p \in PartitionNumbers /\ PartitionMade(st, p)
           /\ \A p, s : Made(st, Slot(p, s)) <=>
                 p \in PartitionNumbers /\ s \in 1..SlotsWanted(p) /\ SlotMade(st, p, s)
           /\ \A p, s : Made(st, Timer(p, s)) <=>
                 p \in PartitionNumbers /\ s \in 1..SlotsWanted(p) /\ TimerMade(st, p, s)
           /\ \A i : Made(st, HwTask(i)) <=> i \in TaskNumbers /\ TaskMade(st, i)
           /\ \A i, s : Made(st, Bits(i, s)) <=>
                 i \in TaskNumbers /\ task_partition[i] # 0 /\ s \in SlotsOf(i) /\ BitsMade(st, i, s)
<1>1. \A k \in BaseKinds : Made(st, <<k>>) <=> Phase(<<k>>) < Phase(st)
  BY KindIs DEF Made, BaseKinds, ArchTokens, TaskTokens
<1>2. (Made(st, ArchTokens) <=> Phase(st) > 7) /\ (Made(st, TaskTokens) <=> Phase(st) > 9)
  BY KindIs DEF Made, BaseKinds
<1>3. ASSUME NEW p, NEW s
      PROVE  /\ Made(st, Partition(p)) <=> p \in PartitionNumbers /\ PartitionMade(st, p)
             /\ Made(st, Slot(p, s)) <=>
                 p \in PartitionNumbers /\ s \in 1..SlotsWanted(p) /\ SlotMade(st, p, s)
             /\ Made(st, Timer(p, s)) <=>
                 p \in PartitionNumbers /\ s \in 1..SlotsWanted(p) /\ TimerMade(st, p, s)
             /\ Made(st, HwTask(p)) <=> p \in TaskNumbers /\ TaskMade(st, p)
             /\ Made(st, Bits(p, s)) <=>
                 p \in TaskNumbers /\ task_partition[p] # 0 /\ s \in SlotsOf(p) /\ BitsMade(st, p, s)
  <2>1. Made(st, Partition(p)) <=> p \in PartitionNumbers /\ PartitionMade(st, p)
    BY KindIs DEF Made, BaseKinds
  <2>2. Made(st, Slot(p, s)) <=>
                 p \in PartitionNumbers /\ s \in 1..SlotsWanted(p) /\ SlotMade(st, p, s)
    BY KindIs DEF Made, BaseKinds
  <2>3. Made(st, Timer(p, s)) <=>
                 p \in PartitionNumbers /\ s \in 1..SlotsWanted(p) /\ TimerMade(st, p, s)
    BY KindIs DEF Made, BaseKinds
  <2>4. Made(st, HwTask(p)) <=> p \in TaskNumbers /\ TaskMade(st, p)
    BY KindIs DEF Made, BaseKinds
  <2>5. Made(st, Bits(p, s)) <=>
                 p \in TaskNumbers /\ task_partition[p] # 0 /\ s \in SlotsOf(p) /\ BitsMade(st, p, s)
    BY KindIs DEF Made, BaseKinds
  <2> QED
    BY <2>1, <2>2, <2>3, <2>4, <2>5
<1> QED
  BY <1>1, <1>2, <1>3

\* The objects that steps make: neither parts nor clients, nor what a load holds.
Whole == {x \in Objects : x \notin Parts /\ x[1] \notin {"client", "file", "mapping"}}

\* What the load of a bitstream holds is never made.
LEMMA HeldIs ==
    ASSUME NEW x \in Objects, x[1] \in {"file", "mapping"}
    PROVE  /\ x \notin Parts /\ Root(x) = x /\ Acquired(x) = <<x>>
           /\ (\A st : ~Made(st, x)) /\ ~Made(step, x)'
           /\ \E i \in Lines(TaskFiles), s \in SlotNumbers : x = BitsFile(i, s) \/ x = BitsMapping(i, s)
<1>1. x \notin Parts /\ Root(x) = x
  BY RootIs
<1>2. \E i \in Lines(TaskFiles), s \in SlotNumbers : x = BitsFile(i, s) \/ x = BitsMapping(i, s)
  BY <1>1, WholeCases, KindIs DEF OneOfAKind
<1>3. (\A st : ~Made(st, x)) /\ ~Made(step, x)'
  BY KindIs DEF Made, BaseKinds
<1>4. x # FrontEnd
  BY KindIs
<1>5. Acquired(x) = <<x>> \o <<>>
  BY <1>4 DEF Acquired
<1>6. <<x>> \o <<>> = <<x>>
  OBVIOUS
<1> QED
  BY <1>1, <1>2, <1>3, <1>5, <1>6

LEMMA WholeKinds ==
    ASSUME NEW x \in Whole
    PROVE  \/ \E k \in BaseKinds : x = <<k>>
           \/ x \in {ArchTokens, TaskTokens}
           \/ \E p \in Lines(ArchFiles) : x = Partition(p)
           \/ \E p \in Lines(ArchFiles), s \in SlotNumbers : x = Slot(p, s) \/ x = Timer(p, s)
           \/ \E i \in Lines(TaskFiles) : x = HwTask(i)
           \/ \E i \in Lines(TaskFiles), s \in SlotNumbers : x = Bits(i, s)
<1>1. BaseKinds = OneOfAKind
  BY DEF BaseKinds, OneOfAKind
<1>2. \A k : Client(k)[1] = "client"
  BY KindIs
<1>3. \A i, s : BitsFile(i, s)[1] = "file" /\ BitsMapping(i, s)[1] = "mapping"
  BY KindIs
<1> QED
  BY <1>1, <1>2, <1>3, WholeCases DEF Whole

\* Objects that are made exist.
LEMMA MadeObjects ==
    ASSUME FilesGiven
    PROVE  /\ \A p \in PartitionNumbers :
                /\ Partition(p) \in Whole
                /\ \A s \in 1..SlotsWanted(p) :
                     Slot(p, s) \in Whole /\ Timer(p, s) \in Whole /\ Slot(p, s) \in Slots
                     /\ Timer(p, s) \in Timers
           /\ \A i \in TaskNumbers : HwTask(i) \in Whole
           /\ \A i \in TaskNumbers, s \in SlotNumbers : Bits(i, s) \in Whole
           /\ \A k \in BaseKinds : <<k>> \in Whole
           /\ ArchTokens \in Whole /\ TaskTokens \in Whole /\ FrontEnd \in Whole /\ Signals \in Whole
<1>1. \A x \in Objects : x[1] \notin {"part", "client", "file", "mapping"} => x \in Whole
  BY RootIs DEF Whole
<1> QED
  BY <1>1, FileFacts, WholeObjects, KindIs DEF BaseKinds, OneOfAKind, FrontEnd, Signals

ConfigMade(st, i) == Phase(st) > 10 \/ (Phase(st) = 10 /\ i < st[2])

\* The partitions below m are made, with the slots below s of partition p and the timers
\* below t; those before it have all.
SlotsUpTo(st, p, m, s, t) ==
    \A q \in PartitionNumbers :
      /\ PartitionMade(st, q) <=> q < m
      /\ \A n \in 1..SlotsWanted(q) : /\ SlotMade(st, q, n) <=> q < p \/ (q = p /\ n < s)
                                      /\ TimerMade(st, q, n) <=> q < p \/ (q = p /\ n < t)
      /\ TimersMade(st, q) = IF q < p THEN SlotsWanted(q) ELSE IF q = p THEN t - 1 ELSE 0

\* The hw-tasks below m are made, those below i configured, with the bitstreams below s
\* of hw-task i.
TasksUpTo(st, i, m, s) ==
    \A j \in TaskNumbers :
      /\ TaskMade(st, j) <=> j < m
      /\ ConfigMade(st, j) <=> j < i
      /\ \A n \in SlotsOf(j) : BitsMade(st, j, n) <=> j < i \/ (j = i /\ n < s)

LEMMA AtSlots ==
    ASSUME FilesGiven, NEW p \in PartitionNumbers
    PROVE  /\ Phase(Partition(p)) = 8 /\ SlotsUpTo(Partition(p), p, p, 1, 1)
           /\ \A s \in 1..SlotsWanted(p) :
                /\ Phase(Slot(p, s)) = 8 /\ SlotsUpTo(Slot(p, s), p, p + 1, s, s)
                /\ Phase(Timer(p, s)) = 8 /\ SlotsUpTo(Timer(p, s), p, p + 1, s + 1, s)
<1>1. Len(ArchLines) \in Nat /\ p \in Nat /\ \A q \in PartitionNumbers : q \in Nat
      /\ SlotsWanted(q) \in Nat
  BY FileFacts DEF PartitionNumbers
<1>2. ASSUME NEW st, Phase(st) = 8, st[1] = "partition", st[2] = p
      PROVE  SlotsUpTo(st, p, p, 1, 1)
  <2>1. ASSUME NEW q \in PartitionNumbers
        PROVE  /\ PartitionMade(st, q) <=> q < p
               /\ TimersMade(st, q) = IF q < p THEN SlotsWanted(q) ELSE 0
               /\ \A n \in 1..SlotsWanted(q) : (SlotMade(st, q, n) <=> q < p)
                  /\ (TimerMade(st, q, n) <=> q < p)
    BY <1>1, <1>2 DEF PartitionMade, TimersMade, SlotMade, TimerMade
  <2> QED
    BY <1>1, <2>1 DEF SlotsUpTo
<1>3. ASSUME NEW st, NEW s \in 1..SlotsWanted(p), Phase(st) = 8, st[1] = "slot", st[2] = p, st[3] = s
      PROVE  SlotsUpTo(st, p, p + 1, s, s)
  <2>1. ASSUME NEW q \in PartitionNumbers
        PROVE  /\ PartitionMade(st, q) <=> q < p \/ q = p
               /\ TimersMade(st, q) = IF q < p THEN SlotsWanted(q) ELSE IF q = p THEN s - 1 ELSE 0
               /\ \A n \in 1..SlotsWanted(q) :
                     /\ SlotMade(st, q, n) <=> q < p \/ (q = p /\ n < s)
                     /\ TimerMade(st, q, n) <=> q < p \/ (q = p /\ n < s)
    BY <1>1, <1>3 DEF PartitionMade, TimersMade, SlotMade, TimerMade
  <2> QED
    BY <1>1, <2>1 DEF SlotsUpTo
<1>4. ASSUME NEW st, NEW s \in 1..SlotsWanted(p), Phase(st) = 8, st[1] = "timer", st[2] = p, st[3] = s
      PROVE  SlotsUpTo(st, p, p + 1, s + 1, s)
  <2>1. ASSUME NEW q \in PartitionNumbers
        PROVE  /\ PartitionMade(st, q) <=> q < p \/ q = p
               /\ TimersMade(st, q) = IF q < p THEN SlotsWanted(q) ELSE IF q = p THEN s - 1 ELSE 0
               /\ \A n \in 1..SlotsWanted(q) :
                     /\ SlotMade(st, q, n) <=> q < p \/ (q = p /\ n < s + 1)
                     /\ TimerMade(st, q, n) <=> q < p \/ (q = p /\ n < s)
    BY <1>1, <1>4 DEF PartitionMade, TimersMade, SlotMade, TimerMade
  <2> QED
    BY <1>1, <2>1 DEF SlotsUpTo
<1>5. Phase(Partition(p)) = 8 /\ SlotsUpTo(Partition(p), p, p, 1, 1)
  BY <1>2, KindIs, PhaseIs
<1>6. ASSUME NEW s \in 1..SlotsWanted(p)
      PROVE  /\ Phase(Slot(p, s)) = 8 /\ SlotsUpTo(Slot(p, s), p, p + 1, s, s)
             /\ Phase(Timer(p, s)) = 8 /\ SlotsUpTo(Timer(p, s), p, p + 1, s + 1, s)
  BY <1>3, <1>4, KindIs, PhaseIs
<1> QED
  BY <1>5, <1>6

\* All is made of partition p, from which on nothing is.
LEMMA AfterSlots ==
    ASSUME FilesGiven, NEW p \in PartitionNumbers, NEW s \in 1..(SlotsWanted(p) + 1),
           NEW st, st = SlotStep(p, s)
    PROVE  /\ Phase(st) \in {8, 9}
           /\ SlotsUpTo(st, p, p + 1, s, s)
           /\ \/ s \in 1..SlotsWanted(p) /\ st = Slot(p, s)
              \/ p + 1 \in PartitionNumbers /\ st = Partition(p + 1)
              \/ st = <<"hw_tasks">>
<1>1. Len(ArchLines) \in Nat /\ p \in Nat /\ \A q \in PartitionNumbers : q \in 1..Len(ArchLines)
      /\ SlotsWanted(q) \in Nat
  BY FileFacts DEF PartitionNumbers
<1>2. CASE s <= SlotsWanted(p)
  <2>1. s \in 1..SlotsWanted(p) /\ st = Slot(p, s)
    BY <1>1, <1>2 DEF SlotStep
  <2> QED
    BY <2>1, AtSlots
<1>3. CASE s > SlotsWanted(p) /\ p < Len(ArchLines)
  <2>1. s = SlotsWanted(p) + 1 /\ st = Partition(p + 1) /\ p + 1 \in PartitionNumbers
    BY <1>1, <1>3 DEF SlotStep, PartitionNumbers
  <2>2. Phase(st) = 8 /\ SlotsUpTo(st, p + 1, p + 1, 1, 1)
    BY <2>1, AtSlots
  <2>3. ASSUME NEW q \in PartitionNumbers
        PROVE  /\ PartitionMade(st, q) <=> q < p \/ q = p
               /\ TimersMade(st, q) = IF q < p THEN SlotsWanted(q) ELSE IF q = p THEN s - 1 ELSE 0
               /\ \A n \in 1..SlotsWanted(q) :
                     /\ SlotMade(st, q, n) <=> q < p \/ (q = p /\ n < s)
                     /\ TimerMade(st, q, n) <=> q < p \/ (q = p /\ n < s)
    BY <1>1, <2>1, <2>2 DEF SlotsUpTo
  <2> QED
    BY <1>1, <2>1, <2>2, <2>3 DEF SlotsUpTo
<1>4. CASE s > SlotsWanted(p) /\ ~(p < Len(ArchLines))
  <2>1. s = SlotsWanted(p) + 1 /\ st = <<"hw_tasks">> /\ p = Len(ArchLines)
    BY <1>1, <1>4 DEF SlotStep, PartitionNumbers
  <2>2. Phase(st) = 9
    BY <2>1, KindIs, PhaseIs
  <2>3. ASSUME NEW q \in PartitionNumbers
        PROVE  /\ PartitionMade(st, q) <=> q < p \/ q = p
               /\ TimersMade(st, q) = IF q < p THEN SlotsWanted(q) ELSE IF q = p THEN s - 1 ELSE 0
               /\ \A n \in 1..SlotsWanted(q) :
                     /\ SlotMade(st, q, n) <=> q < p \/ (q = p /\ n < s)
                     /\ TimerMade(st, q, n) <=> q < p \/ (q = p /\ n < s)
    BY <1>1, <2>1, <2>2 DEF PartitionMade, TimersMade, SlotMade, TimerMade
  <2> QED
    BY <1>1, <2>1, <2>2, <2>3 DEF SlotsUpTo
<1> QED
  BY <1>1, <1>2, <1>3, <1>4

LEMMA AtTasks ==
    ASSUME FilesGiven, NEW i \in TaskNumbers
    PROVE  /\ Phase(HwTask(i)) = 10 /\ TasksUpTo(HwTask(i), i, i, 1)
           /\ \A s \in Nat \ {0} : Phase(Bits(i, s)) = 10 /\ TasksUpTo(Bits(i, s), i, i + 1, s)
           /\ Phase(<<"config", i>>) = 10
           /\ \A s \in Nat \ {0} : s > slots_count[task_partition[i]]
              /\ slots_count[task_partition[i]] \in Nat =>
                TasksUpTo(<<"config", i>>, i, i + 1, s)
<1>1. Len(TaskLines) \in Nat /\ i \in Nat /\ \A j \in TaskNumbers : j \in Nat
  BY FileFacts DEF TaskNumbers
<1>2. ASSUME NEW st, Phase(st) = 10, st[1] = "task", st[2] = i
      PROVE  TasksUpTo(st, i, i, 1)
  <2>1. ASSUME NEW j \in TaskNumbers
        PROVE  /\ TaskMade(st, j) <=> j < i
               /\ ConfigMade(st, j) <=> j < i
               /\ \A n : BitsMade(st, j, n) <=> j < i
    BY <1>1, <1>2 DEF TaskMade, ConfigMade, BitsMade
  <2>2. ASSUME NEW j \in TaskNumbers, NEW n \in SlotsOf(j) PROVE ~(n < 1)
    BY DEF SlotsOf
  <2> QED
    BY <1>1, <2>1, <2>2 DEF TasksUpTo
<1>3. ASSUME NEW st, NEW s \in Nat \ {0}, Phase(st) = 10, st[1] = "bits", st[2] = i, st[3] = s
      PROVE  TasksUpTo(st, i, i + 1, s)
  <2>1. ASSUME NEW j \in TaskNumbers
        PROVE  /\ TaskMade(st, j) <=> j < i \/ j = i
               /\ ConfigMade(st, j) <=> j < i
               /\ \A n : BitsMade(st, j, n) <=> j < i \/ (j = i /\ n < s)
    BY <1>1, <1>3 DEF TaskMade, ConfigMade, BitsMade
  <2> QED
    BY <1>1, <2>1 DEF TasksUpTo
<1>4. ASSUME NEW st, NEW s \in Nat \ {0}, Phase(st) = 10, st[1] = "config", st[2] = i,
             s > slots_count[task_partition[i]], slots_count[task_partition[i]] \in Nat
      PROVE  TasksUpTo(st, i, i + 1, s)
  <2>1. ASSUME NEW j \in TaskNumbers
        PROVE  /\ TaskMade(st, j) <=> j < i \/ j = i
               /\ ConfigMade(st, j) <=> j < i
               /\ \A n : BitsMade(st, j, n) <=> j < i \/ j = i
    BY <1>1, <1>4 DEF TaskMade, ConfigMade, BitsMade
  <2>2. \A n \in SlotsOf(i) : n < s
    BY <1>4 DEF SlotsOf
  <2> QED
    BY <1>1, <2>1, <2>2 DEF TasksUpTo
<1>5. Phase(HwTask(i)) = 10 /\ TasksUpTo(HwTask(i), i, i, 1)
  BY <1>2, KindIs, PhaseIs
<1>6. ASSUME NEW s \in Nat \ {0} PROVE Phase(Bits(i, s)) = 10 /\ TasksUpTo(Bits(i, s), i, i + 1, s)
  BY <1>3, KindIs, PhaseIs
<1>7. <<"config", i>>[1] = "config" /\ <<"config", i>>[2] = i
  OBVIOUS
<1>8. Phase(<<"config", i>>) = 10
  BY <1>7, PhaseIs
<1>9. ASSUME NEW s \in Nat \ {0}, s > slots_count[task_partition[i]],
             slots_count[task_partition[i]] \in Nat
      PROVE  TasksUpTo(<<"config", i>>, i, i + 1, s)
  BY <1>4, <1>7, <1>8, <1>9
<1> QED
  BY <1>5, <1>6, <1>8, <1>9

\* The step after hw-task i - 1 is configured.
LEMMA AfterTasks ==
    ASSUME FilesGiven, NEW i \in 1..(Len(TaskLines) + 1), NEW st, st = TaskStep(i)
    PROVE  /\ Phase(st) \in {10, 11}
           /\ TasksUpTo(st, i, i, 1)
           /\ (i \in TaskNumbers /\ st = HwTask(i)) \/ st = FrontEnd
<1>1. Len(TaskLines) \in Nat /\ i \in Nat /\ \A j \in TaskNumbers : j \in 1..Len(TaskLines)
  BY FileFacts DEF TaskNumbers
<1>2. CASE i <= Len(TaskLines)
  <2>1. i \in TaskNumbers /\ st = HwTask(i)
    BY <1>1, <1>2 DEF TaskStep, TaskNumbers
  <2> QED
    BY <2>1, AtTasks
<1>3. CASE i > Len(TaskLines)
  <2>1. i = Len(TaskLines) + 1 /\ st = FrontEnd
    BY <1>1, <1>3 DEF TaskStep
  <2>2. Phase(st) = 11
    BY <2>1, KindIs, PhaseIs
  <2>3. ASSUME NEW j \in TaskNumbers
        PROVE  j < i /\ TaskMade(st, j) /\ ConfigMade(st, j) /\ \A n : BitsMade(st, j, n)
    BY <1>1, <2>1, <2>2 DEF TaskMade, ConfigMade, BitsMade
  <2> QED
    BY <2>1, <2>2, <2>3 DEF TasksUpTo
<1> QED
  BY <1>1, <1>2, <1>3

LEMMA AfterBits ==
    ASSUME FilesGiven, NEW i \in TaskNumbers, slots_count[task_partition[i]] \in Nat,
           NEW s \in 1..(slots_count[task_partition[i]] + 1),
           NEW st, st = BitsStep(i, s, slots_count[task_partition[i]])
    PROVE  /\ Phase(st) = 10
           /\ TasksUpTo(st, i, i + 1, s)
           /\ (s \in SlotsOf(i) /\ st = Bits(i, s)) \/ st = <<"config", i>>
  BY AtTasks DEF BitsStep, SlotsOf

-----------------------------------------------------------------------------
(* The inductive invariant. While the server starts, or runs, the step      *)
(* tells which objects are live and what the layout and the table hold.     *)

TypesOK ==
    /\ FilesGiven
    /\ mem \in [Objects -> {"none", "live", "freed"}]
    /\ slots_count \in [Lines(ArchFiles) -> 0..(MaxSlots - 1)]
    /\ partition \in 0..Len(ArchLines)
    /\ task_partition \in [Lines(TaskFiles) -> 0..Len(ArchLines)]
    /\ DOMAIN task_config = Lines(TaskFiles)
    /\ sources \in [1..MaxSources -> {Inactive} \cup [handler : Objects, owned : BOOLEAN]]

\* The configurations that the line of hw-task i may give.
ConfigsOf(i) ==
    {[timeout |-> TimeoutUs(Number(Token(TaskLines[i], 3))), count |-> b.count, sizes |-> b.sizes] :
        b \in Buffers(BufferSizes(TaskLines[i]))}

\* A partition has the slots whose timers are made, but for those that it refused.
CountedUp == \A p \in PartitionNumbers : slots_count[p] <= SlotsWanted(p)
CountedNow == \A p \in PartitionNumbers : slots_count[p] = Lesser(TimersMade(step, p), MaxSlots - 1)

\* The hw-tasks made are those with a partition, the one their line names if there is one.
PlacedWell ==
    \A i \in Lines(TaskFiles) :
         task_partition[i] # 0 =>
           /\ i \in TaskNumbers
           /\ (\E p \in PartitionNumbers : ArchLines[p][1] = PartitionName(i))
                 => ArchLines[task_partition[i]][1] = PartitionName(i)
PlacedNow == \A i \in TaskNumbers : task_partition[i] # 0 <=> TaskMade(step, i)

ConfigsNow == \A i \in TaskNumbers : ConfigMade(step, i) => task_config[i] \in ConfigsOf(i)

\* What is made is live, with its parts, and nothing else is.
MemoryNow ==
    /\ chain = <<>> /\ misuse = {}
    /\ \A x \in Objects : x[1] # "client" =>
          mem[x] = IF Made(step, Root(x)) /\ x \in ToSet(Acquired(Root(x))) THEN "live" ELSE "none"

NoClients == \A k \in 1..MaxClients : mem[Client(k)] = "none"

\* Registration fills the table in its order; behind its entries come the clients.
TableNow ==
    /\ Filled <= MaxSources
    /\ \A n \in 1..MaxSources :
          /\ n <= Filled => sources[n] = Registrations[n]
          /\ n > Filled /\ Phase(step) < 14 => sources[n] = Inactive
          /\ n > Filled =>
                \/ sources[n] = Inactive
                \/ sources[n].owned /\ sources[n].handler \in Clients

StartsOK ==
    Phase(step) <= 14 =>
        /\ CountedNow /\ PlacedNow /\ ConfigsNow /\ MemoryNow /\ TableNow
        /\ Phase(step) < 14 => NoClients

\* The invariant of a server that starts or runs, and what of it remains when it stops.
StartInv == TypesOK /\ StepOK /\ CountedUp /\ PlacedWell /\ StartsOK /\ ClientsKept

\* What depends only on the files and the mode.
LEMMA SameFiles ==
    ASSUME UNCHANGED files
    PROVE  /\ ArchLines' = ArchLines /\ TaskLines' = TaskLines
           /\ PartitionNumbers' = PartitionNumbers /\ TaskNumbers' = TaskNumbers
           /\ (FilesGiven => FilesGiven')
           /\ \A p : SlotsWanted(p)' = SlotsWanted(p)
           /\ \A i : PartitionName(i)' = PartitionName(i) /\ ConfigsOf(i)' = ConfigsOf(i)
           /\ \A r : Acquired(r)' = Acquired(r)
<1>1. mode' = mode /\ arch' = arch /\ tasks' = tasks
  BY DEF files
<1>2. ArchLines' = ArchLines /\ TaskLines' = TaskLines
  BY <1>1 DEF ArchLines, TaskLines
<1>3. \A r : Acquired(r)' = Acquired(r)
  BY <1>1 DEF Acquired, SlotAcquired, FrontAcquired
<1>4. \A i : PartitionName(i)' = PartitionName(i) /\ ConfigsOf(i)' = ConfigsOf(i)
  BY <1>2 DEF PartitionName, ConfigsOf
<1> QED
  BY <1>1, <1>2, <1>3, <1>4 DEF PartitionNumbers, TaskNumbers, SlotsWanted, FilesGiven

LEMMA SameRegistrations ==
    ASSUME UNCHANGED files, slots_count' = slots_count
    PROVE  Registrations' = Registrations
<1>1. ArchLines' = ArchLines
  BY SameFiles
<1>2. \A p : PartitionSources(p)' = PartitionSources(p)
  BY DEF PartitionSources
<1> QED
  BY <1>1, <1>2 DEF Registrations

\* The server has stopped starting, or running.
LEMMA Ends ==
    ASSUME StartInv, TypesOK', StepOK', CountedUp', PlacedWell',
           step'[1] \in {"freeing", "exited", "aborted", "crashed"}
    PROVE  StartInv'
<1>1. Phase(step') = 15
  BY PhaseIs
<1>2. StartsOK'
  BY <1>1 DEF StartsOK
<1>3. ClientsKept'
  BY DEF ClientsKept
<1> QED
  BY <1>2, <1>3 DEF StartInv

LEMMA EndsHere ==
    ASSUME StartInv, UNCHANGED <<files, layout>>,
           sources' \in [1..MaxSources -> {Inactive} \cup [handler : Objects, owned : BOOLEAN]],
           mem' \in [Objects -> {"none", "live", "freed"}],
           step' \in {<<"freeing">>, <<"exited">>, <<"aborted">>}
           \cup {<<"crashed", c>> : c \in {"timerfd", "name", "unmapped"}}
    PROVE  StartInv'
<1>1. step'[1] \in {"freeing", "exited", "aborted", "crashed"}
  OBVIOUS
<1>2. StepOK'
  BY DEF StepOK
<1>3. slots_count' = slots_count /\ partition' = partition /\ task_partition' = task_partition
      /\ task_config' = task_config
  BY DEF layout
<1>4. TypesOK'
  BY <1>3, SameFiles DEF StartInv, TypesOK
<1>5. CountedUp' /\ PlacedWell'
  BY <1>3, SameFiles DEF StartInv, CountedUp, PlacedWell
<1> QED
  BY <1>1, <1>2, <1>4, <1>5, Ends

\* The whole an object is part of.
LEMMA RootWhole ==
    ASSUME NEW x \in Objects, x[1] \notin {"client", "file", "mapping"}
    PROVE  Root(x) \in Whole
<1>1. Root(x) \in Objects /\ Root(x) \notin Parts
  BY RootIs
<1>2. CASE x \in Parts
  <2>1. Root(x) \in Slots \cup FdOwners \cup {<<"devcfg">>}
    BY <1>2, PartOf
  <2>2. Root(x)[1] \notin {"client", "file", "mapping"}
    BY <2>1, OwnerKinds
  <2> QED
    BY <1>1, <2>2 DEF Whole
<1>3. CASE x \notin Parts
  BY <1>1, <1>3, WholeIs DEF Whole
<1> QED
  BY <1>2, <1>3

LEMMA AcquiredRoot ==
    ASSUME NEW r \in Whole, NEW x \in ToSet(Acquired(r))
    PROVE  Root(x) = r /\ x \in Objects /\ x[1] \notin {"client", "file", "mapping"}
<1>1. ListsOK(r)
  BY Families DEF Whole
<1>2. Root(x) = r /\ x \in Objects
  BY <1>1 DEF ListsOK, IsList, ToSet
<1>3. x[1] \in {"client", "file", "mapping"} => Root(x) = x
  BY <1>2, RootIs
<1> QED
  BY <1>2, <1>3 DEF Whole

\* A step makes the objects Q with their parts.
LEMMA MemoryNext ==
    ASSUME TypesOK, MemoryNow, NoClients, UNCHANGED <<files, chain, misuse>>,
           NEW Q \in SUBSET Whole,
           \A x \in Objects : mem'[x] = IF \E q \in Q : x \in ToSet(Acquired(q)) THEN "live" ELSE mem[x],
           \A r \in Whole : Made(step, r)' <=> Made(step, r) \/ r \in Q
    PROVE  MemoryNow' /\ NoClients'
<1>1. \A r : Acquired(r)' = Acquired(r)
  BY SameFiles
<1>2. ASSUME NEW x \in Objects, x[1] \notin {"client", "file", "mapping"}
      PROVE  mem'[x] = IF Made(step, Root(x))' /\ x \in ToSet(Acquired(Root(x))') THEN "live" ELSE "none"
  <2>1. Root(x) \in Whole
    BY <1>2, RootWhole
  <2>2. (\E q \in Q : x \in ToSet(Acquired(q))) <=> Root(x) \in Q /\ x \in ToSet(Acquired(Root(x)))
    BY AcquiredRoot
  <2>3. Made(step, Root(x))' <=> Made(step, Root(x)) \/ Root(x) \in Q
    BY <2>1
  <2>4. mem[x] = IF Made(step, Root(x)) /\ x \in ToSet(Acquired(Root(x))) THEN "live" ELSE "none"
    BY <1>2 DEF MemoryNow
  <2>5. Acquired(Root(x))' = Acquired(Root(x))
    BY <1>1
  <2> QED
    BY <2>2, <2>3, <2>4, <2>5
<1>5. ASSUME NEW x \in Objects, x[1] \in {"file", "mapping"}
      PROVE  mem'[x] = IF Made(step, Root(x))' /\ x \in ToSet(Acquired(Root(x))') THEN "live" ELSE "none"
  <2>1. Root(x) = x /\ ~Made(step, x) /\ ~Made(step, x)'
    BY <1>5, HeldIs
  <2>2. \A q \in Q : x \notin ToSet(Acquired(q))
    BY <1>5, AcquiredRoot
  <2>3. x[1] # "client" /\ ~Made(step, Root(x))' /\ ~Made(step, Root(x))
    BY <1>5, <2>1
  <2>4. mem[x] = "none"
    BY <2>3 DEF MemoryNow
  <2> QED
    BY <2>2, <2>3, <2>4
<1>3. MemoryNow'
  BY <1>2, <1>5 DEF MemoryNow
<1>4. ASSUME NEW k \in 1..MaxClients PROVE mem'[Client(k)] = "none"
  <2>1. Client(k) \in Objects /\ Client(k)[1] = "client"
    BY WholeObjects, KindIs
  <2>2. \A q \in Q : Client(k) \notin ToSet(Acquired(q))
    BY <2>1, AcquiredRoot
  <2> QED
    BY <2>1, <2>2 DEF NoClients
<1> QED
  BY <1>3, <1>4 DEF NoClients

-----------------------------------------------------------------------------
(* What each step of start-up adds, when it succeeds and when it fails.     *)

LEMMA MadeSame ==
    ASSUME UNCHANGED files, slots_count' = slots_count, task_partition' = task_partition
    PROVE  \A r : Made(step, r)' <=> Made(step', r)
<1>1. \A i : SlotsOf(i)' = SlotsOf(i)
  BY DEF SlotsOf
<1>2. PartitionNumbers' = PartitionNumbers /\ TaskNumbers' = TaskNumbers
      /\ \A p : SlotsWanted(p)' = SlotsWanted(p)
  BY SameFiles
<1> QED
  BY <1>1, <1>2 DEF Made

LEMMA TimersMadeSame ==
    ASSUME UNCHANGED files
    PROVE  \A p : TimersMade(step, p)' = TimersMade(step', p)
  BY SameFiles DEF TimersMade

\* A step of start-up succeeds.
LEMMA Advances ==
    ASSUME StartInv, UNCHANGED <<files, sources, chain, misuse>>,
           Phase(step) <= 12, Phase(step') <= 13, step'[1] = "register" => step'[2] = 1,
           TypesOK', StepOK', CountedUp', PlacedWell', CountedNow', PlacedNow', ConfigsNow',
           NEW Q \in SUBSET Whole,
           \A x \in Objects : mem'[x] = IF \E q \in Q : x \in ToSet(Acquired(q)) THEN "live" ELSE mem[x],
           \A r \in Whole : Made(step, r)' <=> Made(step, r) \/ r \in Q
    PROVE  StartInv'
<1>1. MemoryNow /\ NoClients /\ TableNow
  BY PhaseIs DEF StartInv, StartsOK
<1>2. MemoryNow' /\ NoClients'
  BY <1>1, MemoryNext DEF StartInv
<1>3. Filled = 0
  BY PhaseIs DEF Filled
<1>4. step'[1] # "running"
  BY PhaseIs
<1>5. Filled' = 0
  BY <1>4 DEF Filled
<1>6. TableNow'
  <2>1. \A n \in 1..MaxSources : n > 0 /\ sources[n] = Inactive
    BY <1>1, <1>3, PhaseIs DEF TableNow
  <2>2. 0 <= MaxSources
    BY StartupConstantsOK
  <2> QED
    BY <1>5, <2>1, <2>2 DEF TableNow
<1>7. StartsOK'
  BY <1>2, <1>6 DEF StartsOK
<1>8. ClientsKept'
  BY <1>4 DEF ClientsKept
<1> QED
  BY <1>7, <1>8 DEF StartInv

\* It creates the object q, and only moves on.
LEMMA AdvancesBy ==
    ASSUME StartInv, UNCHANGED layout, NEW q \in Whole, Creates(ToSet(Acquired(q)), step'),
           Phase(step) <= 12, Phase(step') <= 13, step'[1] = "register" => step'[2] = 1,
           StepOK',
           \A r \in Whole : Made(step', r) <=> Made(step, r) \/ r = q,
           \A p \in PartitionNumbers : TimersMade(step', p) = TimersMade(step, p),
           \A i \in TaskNumbers : /\ TaskMade(step', i) <=> TaskMade(step, i)
                                  /\ ConfigMade(step', i) <=> ConfigMade(step, i)
    PROVE  StartInv'
<1>1. slots_count' = slots_count /\ partition' = partition /\ task_partition' = task_partition
      /\ task_config' = task_config
  BY DEF layout
<1>2. /\ mem' = [x \in Objects |-> IF x \in ToSet(Acquired(q)) THEN "live" ELSE mem[x]]
      /\ UNCHANGED <<files, sources, chain, misuse>>
  BY DEF Creates
<1>3. CountedNow /\ PlacedNow /\ ConfigsNow
  BY PhaseIs DEF StartInv, StartsOK
<1>4. TypesOK'
  <2>1. mem' \in [Objects -> {"none", "live", "freed"}]
    BY <1>2 DEF StartInv, TypesOK
  <2> QED
    BY <1>1, <1>2, <2>1, SameFiles DEF StartInv, TypesOK
<1>5. CountedUp' /\ PlacedWell'
  BY <1>1, <1>2, SameFiles DEF StartInv, CountedUp, PlacedWell
<1>6. CountedNow'
  BY <1>1, <1>2, <1>3, SameFiles, TimersMadeSame DEF CountedNow
<1>7. PlacedNow' /\ ConfigsNow'
  BY <1>1, <1>2, <1>3, SameFiles DEF PlacedNow, ConfigsNow
<1>8. \A x \in Objects : mem'[x] = IF \E z \in {q} : x \in ToSet(Acquired(z)) THEN "live" ELSE mem[x]
  BY <1>2
<1>9. \A r \in Whole : Made(step, r)' <=> Made(step, r) \/ r \in {q}
  BY <1>1, <1>2, MadeSame
<1> QED
  BY <1>2, <1>4, <1>5, <1>6, <1>7, <1>8, <1>9, Advances

LEMMA FailsEnds ==
    ASSUME StartInv, NEW xs, NEW own, FailsFreeing(xs, own), UNCHANGED layout
    PROVE  StartInv'
<1>1. /\ mem' = [x \in Objects |-> IF x \in xs THEN "live" ELSE mem[x]]
      /\ step' = <<"freeing">> /\ UNCHANGED <<files, misuse>> /\ sources' = sources
  BY DEF FailsFreeing, StartFreeing
<1>2. mem' \in [Objects -> {"none", "live", "freed"}]
  BY <1>1 DEF StartInv, TypesOK
<1> QED
  BY <1>1, <1>2, EndsHere DEF StartInv, TypesOK

LEMMA ConstructsIs ==
    ASSUME NEW x, NEW then, NEW next, Constructs(x, then, next)
    PROVE  \/ Creates(ToSet(Acquired(x)), next)
           \/ \E xs, own : FailsFreeing(xs, own)
  BY DEF Constructs

LEMMA CrashEnds ==
    ASSUME StartInv, NEW c \in {"timerfd", "name", "unmapped"}, Crashes(c)
    PROVE  StartInv'
<1>1. step' = <<"crashed", c>> /\ UNCHANGED <<files, mem, layout, sources>>
  BY DEF Crashes
<1> QED
  BY <1>1, EndsHere DEF StartInv, TypesOK

LEMMA TokenLists ==
    /\ ArchTokens \in Whole /\ Acquired(ArchTokens) = <<ArchTokens>>
    /\ TaskTokens \in Whole /\ Acquired(TaskTokens) = <<TaskTokens>>
    /\ ToSet(<<ArchTokens>>) = {ArchTokens} /\ ToSet(<<TaskTokens>>) = {TaskTokens}
<1>1. ArchTokens \in Objects /\ TaskTokens \in Objects
  BY WholeObjects
<1>2. \A t \in {ArchTokens, TaskTokens} : t[1] = "tokens"
  BY KindIs
<1>3. ASSUME NEW t \in {ArchTokens, TaskTokens}
      PROVE  t \in Whole /\ t \notin Parts /\ t \notin Slots /\ t \notin FdOwners /\ t # <<"devcfg">>
  <2>1. t \in Objects /\ t[1] = "tokens"
    BY <1>1, <1>2
  <2>2. t \notin Parts
    BY <2>1, RootIs
  <2> QED
    BY <2>1, <2>2, OwnerKinds DEF Whole
<1>4. Acquired(ArchTokens) = <<ArchTokens>> /\ Acquired(TaskTokens) = <<TaskTokens>>
  BY <1>1, <1>3, AloneLists
<1>5. ToSet(<<ArchTokens>>) = {ArchTokens} /\ ToSet(<<TaskTokens>>) = {TaskTokens}
  BY <1>1, OneList DEF IsList
<1> QED
  BY <1>3, <1>4, <1>5

-----------------------------------------------------------------------------
(* The objects of which there is one. *)

LEMMA BasePhases ==
    /\ Len(BaseSteps) = 7
    /\ \A k \in 1..7 : Phase(BaseSteps[k]) = k /\ BaseSteps[k] \in ToSet(BaseSteps)
    /\ \A k \in 1..6 : BaseSteps[k] \in Whole /\ BaseSteps[k] \in {<<b>> : b \in BaseKinds}
    /\ \A k \in 1..7 : BaseSteps[k][1] # "register"
<1>1. Len(BaseSteps) = 7
  BY DEF BaseSteps
<1>2. /\ BaseSteps[1] = <<"devcfg">> /\ BaseSteps[2] = <<"scheduler">> /\ BaseSteps[3] = <<"logger">>
      /\ BaseSteps[4] = <<"reactor">> /\ BaseSteps[5] = <<"buffctl">> /\ BaseSteps[6] = <<"layout">>
      /\ BaseSteps[7] = <<"arch">>
  BY DEF BaseSteps
<1>3. \A k \in 1..7 : Phase(BaseSteps[k]) = k /\ BaseSteps[k][1] # "register"
  <2>1. ASSUME NEW k \in 1..7 PROVE k \in {1, 2, 3, 4, 5, 6, 7}
    OBVIOUS
  <2>2. \A n : <<n>>[1] = n
    BY KindIs
  <2>3. \A k \in {1, 2, 3, 4, 5, 6, 7} : Phase(BaseSteps[k]) = k /\ BaseSteps[k][1] # "register"
    BY <1>2, <2>2, PhaseIs
  <2> QED
    BY <2>1, <2>3
<1>4. \A k \in 1..7 : BaseSteps[k] \in ToSet(BaseSteps)
  BY <1>1 DEF ToSet, BaseSteps
<1>5. \A k \in 1..6 : BaseSteps[k] \in {<<b>> : b \in BaseKinds}
  <2>1. ASSUME NEW k \in 1..6 PROVE k \in {1, 2, 3, 4, 5, 6}
    OBVIOUS
  <2> QED
    BY <1>2, <2>1 DEF BaseKinds
<1>6. \A x \in {<<b>> : b \in BaseKinds} : x \in Whole
  <2>1. BaseKinds = OneOfAKind
    BY DEF BaseKinds, OneOfAKind
  <2>2. \A b \in BaseKinds : <<b>> \in Objects /\ <<b>>[1] = b
                            /\ b \notin {"client", "part", "file", "mapping"}
    BY <2>1, WholeObjects, KindIs DEF BaseKinds
  <2> QED
    BY <2>2, RootIs DEF Whole
<1> QED
  BY <1>1, <1>3, <1>4, <1>5, <1>6

\* Before the files are read, what is made are objects of which there is one.
LEMMA EarlyMade ==
    ASSUME NEW st, Phase(st) <= 7
    PROVE  /\ \A p, s : ~PartitionMade(st, p) /\ ~SlotMade(st, p, s) /\ ~TimerMade(st, p, s)
           /\ \A p : TimersMade(st, p) = 0
           /\ \A i, s : ~TaskMade(st, i) /\ ~BitsMade(st, i, s) /\ ~ConfigMade(st, i)
           /\ \A r \in Whole : Made(st, r) <=> r \in {<<b>> : b \in BaseKinds} /\ Phase(r) < Phase(st)
<1>1. \A p, s : ~PartitionMade(st, p) /\ ~SlotMade(st, p, s) /\ ~TimerMade(st, p, s)
  BY PhaseIs DEF PartitionMade, SlotMade, TimerMade
<1>2. \A p : TimersMade(st, p) = 0
  BY PhaseIs DEF TimersMade
<1>3. \A i, s : ~TaskMade(st, i) /\ ~BitsMade(st, i, s) /\ ~ConfigMade(st, i)
  BY PhaseIs DEF TaskMade, BitsMade, ConfigMade
<1>4. ASSUME NEW r \in Whole
      PROVE  Made(st, r) <=> r \in {<<b>> : b \in BaseKinds} /\ Phase(r) < Phase(st)
  <2>1. CASE r \in {<<b>> : b \in BaseKinds}
    BY <2>1, MadeIs
  <2>2. CASE r \notin {<<b>> : b \in BaseKinds}
    <3>1. ~(Phase(st) > 7) /\ ~(Phase(st) > 9)
      BY PhaseIs
    <3>2. /\ ~Made(st, ArchTokens) /\ ~Made(st, TaskTokens)
          /\ \A p, s : ~Made(st, Partition(p)) /\ ~Made(st, Slot(p, s)) /\ ~Made(st, Timer(p, s))
          /\ \A i, s : ~Made(st, HwTask(i)) /\ ~Made(st, Bits(i, s))
      BY <1>1, <1>3, <3>1, MadeIs
    <3> QED
      BY <2>2, <3>2, WholeKinds
  <2> QED
    BY <2>1, <2>2
<1> QED
  BY <1>1, <1>2, <1>3, <1>4

LEMMA CreateBaseKeeps ==
    ASSUME StartInv, CreateBase
    PROVE  StartInv'
<1>1. PICK k \in 1..6 : step = BaseSteps[k] /\ Constructs(step, <<>>, BaseSteps[k + 1])
           /\ UNCHANGED layout
  BY BasePhases DEF CreateBase
<1>2. CASE \E xs, own : FailsFreeing(xs, own)
  BY <1>1, <1>2, FailsEnds
<1>3. CASE Creates(ToSet(Acquired(step)), BaseSteps[k + 1])
  <2>1. step' = BaseSteps[k + 1] /\ k + 1 \in 1..7
    BY <1>3 DEF Creates
  <2>2. Phase(step) = k /\ Phase(step') = k + 1 /\ step \in Whole /\ step'[1] # "register"
        /\ step \in {<<b>> : b \in BaseKinds}
    BY <1>1, <2>1, BasePhases
  <2>3. StepOK'
    BY <2>1, BasePhases DEF StepOK
  <2>4. ASSUME NEW r \in Whole PROVE Made(step', r) <=> Made(step, r) \/ r = step
    <3>1. /\ Made(step, r) <=> r \in {<<b>> : b \in BaseKinds} /\ Phase(r) < k
          /\ Made(step', r) <=> r \in {<<b>> : b \in BaseKinds} /\ Phase(r) < k + 1
      BY <2>2, EarlyMade
    <3>2. r \in {<<b>> : b \in BaseKinds} => (Phase(r) = k <=> r = step)
      <4>1. ASSUME NEW b \in BaseKinds, NEW c \in BaseKinds, Phase(<<b>>) = Phase(<<c>>),
                   Phase(<<b>>) <= 6
            PROVE  b = c
        BY <4>1, KindIs, PhaseIs DEF BaseKinds
      <4> QED
        BY <2>2, <4>1
    <3>3. Phase(r) \in 1..15
      BY PhaseIs
    <3> QED
      BY <2>2, <3>1, <3>2, <3>3
  <2>5. /\ \A p \in PartitionNumbers : TimersMade(step', p) = TimersMade(step, p)
        /\ \A i \in TaskNumbers : /\ TaskMade(step', i) <=> TaskMade(step, i)
                                  /\ ConfigMade(step', i) <=> ConfigMade(step, i)
    BY <2>2, EarlyMade
  <2> QED
    BY <1>1, <1>3, <2>1, <2>2, <2>3, <2>4, <2>5, AdvancesBy
<1> QED
  BY <1>1, <1>2, <1>3, ConstructsIs

LEMMA FailsIs ==
    ASSUME NEW xs, Fails(xs)
    PROVE  FailsFreeing(xs, <<>>)
  BY DEF Fails

LEMMA TokenizesIs ==
    ASSUME NEW t, NEW fits, NEW next, Tokenizes(t, fits, next)
    PROVE  (fits /\ Creates({t}, next)) \/ \E xs, own : FailsFreeing(xs, own)
  BY FailsIs DEF Tokenizes

-----------------------------------------------------------------------------
(* Partitions, slots and timers. *)

\* Steps that are not among the hw-tasks, or not among the partitions, make none of them.
LEMMA PartitionsApart ==
    ASSUME NEW st, NEW su, Phase(st) <= 9, Phase(su) <= 9
    PROVE  \A i, s : /\ ~TaskMade(st, i) /\ ~BitsMade(st, i, s) /\ ~ConfigMade(st, i)
                     /\ ~TaskMade(su, i) /\ ~BitsMade(su, i, s) /\ ~ConfigMade(su, i)
  BY PhaseIs DEF TaskMade, BitsMade, ConfigMade

\* The objects Q are the partitions from m up to n, and the slots from s up to u and the
\* timers from t up to v of partition p.
Gained(Q, p, m, s, t, n, u, v) ==
    /\ \A q \in PartitionNumbers : q < n <=> q < m \/ Partition(q) \in Q
    /\ \A q \in PartitionNumbers : \A k \in 1..SlotsWanted(q) :
          /\ q < p \/ (q = p /\ k < u) <=> q < p \/ (q = p /\ k < s) \/ Slot(q, k) \in Q
          /\ q < p \/ (q = p /\ k < v) <=> q < p \/ (q = p /\ k < t) \/ Timer(q, k) \in Q
    /\ \A r \in Q : /\ r[1] \in {"partition", "slot", "timer"} /\ r[2] \in PartitionNumbers
                    /\ r[1] # "partition" => r[3] \in 1..SlotsWanted(r[2])

\* What a step among the partitions makes.
LEMMA PartitionStepMakes ==
    ASSUME NEW st, NEW su, Phase(st) = 8, Phase(su) \in {8, 9},
           NEW p \in PartitionNumbers, NEW m, NEW s, NEW t, NEW n, NEW u, NEW v,
           SlotsUpTo(st, p, m, s, t), SlotsUpTo(su, p, n, u, v),
           NEW Q, Gained(Q, p, m, s, t, n, u, v)
    PROVE  /\ \A r \in Whole : Made(su, r) <=> Made(st, r) \/ r \in Q
           /\ \A i \in TaskNumbers : /\ TaskMade(su, i) <=> TaskMade(st, i)
                                     /\ ConfigMade(su, i) <=> ConfigMade(st, i)
<1>1. \A i, k : /\ ~TaskMade(st, i) /\ ~BitsMade(st, i, k) /\ ~ConfigMade(st, i)
                /\ ~TaskMade(su, i) /\ ~BitsMade(su, i, k) /\ ~ConfigMade(su, i)
  BY PartitionsApart
<1>2. \A b \in BaseKinds : (Made(su, <<b>>) <=> Made(st, <<b>>)) /\ <<b>> \notin Q
  <2>1. ASSUME NEW b \in BaseKinds PROVE Phase(<<b>>) \in 1..15 /\ Phase(<<b>>) # 8 /\ <<b>>[1] = b
                                         /\ b \notin {"partition", "slot", "timer"}
    BY PhaseIs, KindIs DEF BaseKinds
  <2>2. ASSUME NEW b \in BaseKinds PROVE Made(su, <<b>>) <=> Made(st, <<b>>)
    <3>1. (Made(su, <<b>>) <=> Phase(<<b>>) < Phase(su)) /\ (Made(st, <<b>>) <=> Phase(<<b>>) < Phase(st))
      BY MadeIs
    <3> QED
      BY <2>1, <3>1
  <2>3. ASSUME NEW b \in BaseKinds PROVE <<b>> \notin Q
    BY <2>1 DEF Gained
  <2> QED
    BY <2>2, <2>3
<1>3. /\ Made(su, ArchTokens) <=> Made(st, ArchTokens)
      /\ Made(su, TaskTokens) <=> Made(st, TaskTokens)
      /\ ArchTokens \notin Q /\ TaskTokens \notin Q
  <2>1. /\ Made(su, ArchTokens) <=> Phase(su) > 7
        /\ Made(st, ArchTokens) <=> Phase(st) > 7
        /\ Made(su, TaskTokens) <=> Phase(su) > 9
        /\ Made(st, TaskTokens) <=> Phase(st) > 9
    BY MadeIs
  <2>2. ArchTokens \notin Q /\ TaskTokens \notin Q
    BY KindIs DEF Gained
  <2> QED
    BY <2>1, <2>2
<1>4. ASSUME NEW q PROVE Made(su, Partition(q)) <=> Made(st, Partition(q)) \/ Partition(q) \in Q
  <2>1. /\ Made(su, Partition(q)) <=> q \in PartitionNumbers /\ PartitionMade(su, q)
        /\ Made(st, Partition(q)) <=> q \in PartitionNumbers /\ PartitionMade(st, q)
    BY MadeIs
  <2>2. Partition(q) \in Q => q \in PartitionNumbers
    BY KindIs DEF Gained
  <2> QED
    BY <2>1, <2>2 DEF SlotsUpTo, Gained
<1>5. ASSUME NEW q, NEW k PROVE Made(su, Slot(q, k)) <=> Made(st, Slot(q, k)) \/ Slot(q, k) \in Q
  <2>1. /\ Made(su, Slot(q, k)) <=> q \in PartitionNumbers /\ k \in 1..SlotsWanted(q)
           /\ SlotMade(su, q, k)
        /\ Made(st, Slot(q, k)) <=> q \in PartitionNumbers /\ k \in 1..SlotsWanted(q)
           /\ SlotMade(st, q, k)
    BY MadeIs
  <2>2. Slot(q, k) \in Q => q \in PartitionNumbers /\ k \in 1..SlotsWanted(q)
    BY KindIs DEF Gained
  <2> QED
    BY <2>1, <2>2 DEF SlotsUpTo, Gained
<1>6. ASSUME NEW q, NEW k PROVE Made(su, Timer(q, k)) <=> Made(st, Timer(q, k)) \/ Timer(q, k) \in Q
  <2>1. /\ Made(su, Timer(q, k)) <=> q \in PartitionNumbers /\ k \in 1..SlotsWanted(q)
           /\ TimerMade(su, q, k)
        /\ Made(st, Timer(q, k)) <=> q \in PartitionNumbers /\ k \in 1..SlotsWanted(q)
           /\ TimerMade(st, q, k)
    BY MadeIs
  <2>2. Timer(q, k) \in Q => q \in PartitionNumbers /\ k \in 1..SlotsWanted(q)
    BY KindIs DEF Gained
  <2> QED
    BY <2>1, <2>2 DEF SlotsUpTo, Gained
<1>7. ASSUME NEW i, NEW k
      PROVE  /\ ~Made(su, HwTask(i)) /\ ~Made(st, HwTask(i)) /\ HwTask(i) \notin Q
             /\ ~Made(su, Bits(i, k)) /\ ~Made(st, Bits(i, k)) /\ Bits(i, k) \notin Q
  <2>1. HwTask(i) \notin Q /\ Bits(i, k) \notin Q
    BY KindIs DEF Gained
  <2> QED
    BY <1>1, <2>1, MadeIs
<1>8. ASSUME NEW r \in Whole PROVE Made(su, r) <=> Made(st, r) \/ r \in Q
  BY <1>2, <1>3, <1>4, <1>5, <1>6, <1>7, WholeKinds
<1> QED
  BY <1>1, <1>8

\* The step of the invariant, by its kind.
LEMMA StepIs ==
    ASSUME StepOK
    PROVE  /\ step[1] = "partition" => \E p \in PartitionNumbers : step = Partition(p)
           /\ step[1] = "slot" =>
              \E p \in PartitionNumbers : \E s \in 1..SlotsWanted(p) : step = Slot(p, s)
           /\ step[1] = "timer" =>
              \E p \in PartitionNumbers : \E s \in 1..SlotsWanted(p) : step = Timer(p, s)
           /\ step[1] = "task" => \E i \in TaskNumbers : step = HwTask(i)
           /\ step[1] = "bits" => \E i \in TaskNumbers : task_partition[i] # 0
              /\ \E s \in SlotsOf(i) : step = Bits(i, s)
           /\ step[1] = "config" => \E i \in TaskNumbers : task_partition[i] # 0 /\ step = <<"config", i>>
           /\ step[1] = "register" => \E n \in 1..Len(Registrations) : step = <<"register", n>>
<1>1. \/ step[1] \in {"devcfg", "scheduler", "logger", "reactor", "buffctl", "layout", "arch",
                   "hw_tasks", "front", "signals", "running", "freeing", "exited", "aborted", "crashed"}
      \/ \E p \in PartitionNumbers : step = Partition(p)
      \/ \E p \in PartitionNumbers : \E s \in 1..SlotsWanted(p) : step \in {Slot(p, s), Timer(p, s)}
      \/ \E i \in TaskNumbers : step = HwTask(i)
      \/ \E i \in TaskNumbers :
          /\ task_partition[i] # 0
          /\ step = <<"config", i>> \/ (\E s \in SlotsOf(i) : step = Bits(i, s))
      \/ \E n \in 1..Len(Registrations) : step = <<"register", n>>
  <2>1. step \in ToSet(BaseSteps) =>
        step[1] \in {"devcfg", "scheduler", "logger", "reactor", "buffctl", "layout", "arch"}
    BY BaseStepsAre, KindIs
  <2>2. step \in {<<"hw_tasks">>, FrontEnd, Signals} => step[1] \in {"hw_tasks", "front", "signals"}
    BY KindIs
  <2>3. step \in {<<"running">>, <<"freeing">>, <<"exited">>, <<"aborted">>}
          => step[1] \in {"running", "freeing", "exited", "aborted"}
    BY KindIs
  <2>4. step \in {<<"crashed", c>> : c \in {"timerfd", "name", "unmapped"}} => step[1] = "crashed"
    OBVIOUS
  <2> QED
    BY <2>1, <2>2, <2>3, <2>4 DEF StepOK
<1>2. \A i : <<"config", i>>[1] = "config" /\ <<"register", i>>[1] = "register"
  OBVIOUS
<1>3. step[1] = "partition" => \E p \in PartitionNumbers : step = Partition(p)
  BY <1>1, <1>2, KindIs
<1>4. step[1] = "slot" => \E p \in PartitionNumbers : \E s \in 1..SlotsWanted(p) : step = Slot(p, s)
  BY <1>1, <1>2, KindIs
<1>5. step[1] = "timer" => \E p \in PartitionNumbers : \E s \in 1..SlotsWanted(p) : step = Timer(p, s)
  BY <1>1, <1>2, KindIs
<1>6. step[1] = "task" => \E i \in TaskNumbers : step = HwTask(i)
  BY <1>1, <1>2, KindIs
<1>7. step[1] = "bits" => \E i \in TaskNumbers : task_partition[i] # 0
      /\ \E s \in SlotsOf(i) : step = Bits(i, s)
  BY <1>1, <1>2, KindIs
<1>8. step[1] = "config" => \E i \in TaskNumbers : task_partition[i] # 0 /\ step = <<"config", i>>
  BY <1>1, <1>2, KindIs
<1>9. step[1] = "register" => \E n \in 1..Len(Registrations) : step = <<"register", n>>
  BY <1>1, <1>2, KindIs
<1> QED
  BY <1>3, <1>4, <1>5, <1>6, <1>7, <1>8, <1>9

LEMMA ReadArchKeeps ==
    ASSUME StartInv, ReadArch
    PROVE  StartInv'
<1>1. /\ step = <<"arch">> /\ UNCHANGED layout /\ Phase(step) = 7
      /\ Tokenizes(ArchTokens, Len(ArchLines) < MaxPartitions,
                   IF ArchLines = <<>> THEN <<"hw_tasks">> ELSE Partition(1))
  BY KindIs, PhaseIs DEF ReadArch
<1>2. CASE \E xs, own : FailsFreeing(xs, own)
  BY <1>1, <1>2, FailsEnds
<1>3. CASE Creates({ArchTokens}, IF ArchLines = <<>> THEN <<"hw_tasks">> ELSE Partition(1))
  <2>1. FilesGiven /\ Len(ArchLines) \in Nat
    BY FileFacts DEF StartInv, TypesOK
  <2>2. (step' = <<"hw_tasks">> /\ Len(ArchLines) = 0) \/ (step' = Partition(1) /\ 1 \in PartitionNumbers)
    <3>1. step' = IF ArchLines = <<>> THEN <<"hw_tasks">> ELSE Partition(1)
      BY <1>3 DEF Creates
    <3>2. ArchLines = <<>> <=> Len(ArchLines) = 0
      <4>1. IsFile(arch, {2}) /\ IsSequence(arch)
        BY <2>1, FilesOK DEF FilesGiven, IsFile
      <4>2. ArchLines \in Seq(KeptOf(arch))
        BY <4>1, ParsedIs DEF ArchLines
      <4> QED
        BY <4>2
    <3> QED
      BY <2>1, <3>1, <3>2 DEF PartitionNumbers
  <2>3. Phase(step') \in {8, 9} /\ step'[1] # "register"
    BY <2>2, KindIs, PhaseIs
  <2>4. \A q \in PartitionNumbers : \A n : /\ ~PartitionMade(step', q) /\ ~SlotMade(step', q, n)
                                           /\ ~TimerMade(step', q, n) /\ TimersMade(step', q) = 0
    <3>1. CASE step' = Partition(1)
      <4>1. step'[1] = "partition" /\ step'[2] = 1 /\ Phase(step') = 8
        BY <3>1, KindIs, PhaseIs
      <4>2. \A q \in PartitionNumbers : ~(q < 1)
        BY DEF PartitionNumbers
      <4> QED
        BY <4>1, <4>2 DEF PartitionMade, SlotMade, TimerMade, TimersMade
    <3>2. CASE Len(ArchLines) = 0
      BY <3>2 DEF PartitionNumbers
    <3> QED
      BY <2>2, <3>1, <3>2
  <2>5. StepOK'
    <3>1. PartitionNumbers' = PartitionNumbers
      BY <1>3, SameFiles DEF Creates
    <3>2. Partition(1)[1] = "partition"
      BY KindIs
    <3> QED
      BY <2>2, <3>1, <3>2 DEF StepOK
  <2>6. \A i, s : /\ ~TaskMade(step', i) /\ ~BitsMade(step', i, s) /\ ~ConfigMade(step', i)
                  /\ ~TaskMade(step, i) /\ ~ConfigMade(step, i)
    BY <1>1, <2>3, PartitionsApart
  <2>7. ASSUME NEW r \in Whole PROVE Made(step', r) <=> Made(step, r) \/ r = ArchTokens
    <3>1. Made(step, r) <=> r \in {<<b>> : b \in BaseKinds} /\ Phase(r) < 7
      BY <1>1, EarlyMade
    <3>2. \A b \in BaseKinds : (Made(step', <<b>>) <=> Phase(<<b>>) < 7) /\ <<b>> # ArchTokens
      <4>1. ASSUME NEW b \in BaseKinds
            PROVE  /\ Phase(<<b>>) \in 1..15 /\ Phase(<<b>>) \notin {7, 8, 9} /\ <<b>> # ArchTokens
        BY PhaseIs, KindIs DEF BaseKinds
      <4>2. ASSUME NEW b \in BaseKinds PROVE Made(step', <<b>>) <=> Phase(<<b>>) < Phase(step')
        BY MadeIs
      <4>3. ASSUME NEW b \in BaseKinds PROVE Phase(<<b>>) < Phase(step') <=> Phase(<<b>>) < 7
        BY <2>3, <4>1
      <4> QED
        BY <4>1, <4>2, <4>3
    <3>3. Made(step', ArchTokens) /\ ~Made(step', TaskTokens) /\ ArchTokens # TaskTokens
      BY <2>3, MadeIs, KindIs
    <3>4. ASSUME NEW p, NEW s
          PROVE  /\ ~Made(step', Partition(p)) /\ ~Made(step', Slot(p, s)) /\ ~Made(step', Timer(p, s))
                 /\ ArchTokens \notin {Partition(p), Slot(p, s), Timer(p, s)}
      <4>1. /\ Made(step', Partition(p)) => p \in PartitionNumbers /\ PartitionMade(step', p)
            /\ Made(step', Slot(p, s)) => p \in PartitionNumbers /\ SlotMade(step', p, s)
            /\ Made(step', Timer(p, s)) => p \in PartitionNumbers /\ TimerMade(step', p, s)
        BY MadeIs
      <4>2. ArchTokens \notin {Partition(p), Slot(p, s), Timer(p, s)}
        BY KindIs
      <4> QED
        BY <2>4, <4>1, <4>2
    <3>5. ASSUME NEW i, NEW s
          PROVE  /\ ~Made(step', HwTask(i)) /\ ~Made(step', Bits(i, s))
                 /\ ArchTokens \notin {HwTask(i), Bits(i, s)}
      <4>1. /\ Made(step', HwTask(i)) => TaskMade(step', i)
            /\ Made(step', Bits(i, s)) => BitsMade(step', i, s)
        BY MadeIs
      <4>2. ArchTokens \notin {HwTask(i), Bits(i, s)}
        BY KindIs
      <4> QED
        BY <2>6, <4>1, <4>2
    <3>6. r \notin {<<b>> : b \in BaseKinds} => ~Made(step, r)
      BY <3>1
    <3>7. CASE r \in {<<b>> : b \in BaseKinds}
      BY <3>1, <3>2, <3>7
    <3>8. CASE r \notin {<<b>> : b \in BaseKinds}
      BY <3>3, <3>4, <3>5, <3>6, <3>8, WholeKinds
    <3> QED
      BY <3>7, <3>8
  <2>8. \A p \in PartitionNumbers : TimersMade(step', p) = TimersMade(step, p)
    BY <1>1, <2>4, EarlyMade
  <2>9. Creates(ToSet(Acquired(ArchTokens)), step')
    BY <1>3, TokenLists DEF Creates
  <2>10. Phase(step) <= 12 /\ Phase(step') <= 13 /\ ArchTokens \in Whole
    BY <1>1, <2>3, TokenLists
  <2>11. \A i \in TaskNumbers : /\ TaskMade(step', i) <=> TaskMade(step, i)
                                /\ ConfigMade(step', i) <=> ConfigMade(step, i)
    BY <2>6
  <2>12. step'[1] = "register" => step'[2] = 1
    BY <2>3
  <2> QED
    BY <1>1, <2>5, <2>7, <2>8, <2>9, <2>10, <2>11, <2>12, AdvancesBy
<1> QED
  BY <1>1, <1>2, <1>3, TokenizesIs

LEMMA StepOKIf ==
    ASSUME FilesGiven, UNCHANGED files,
           \/ \E p \in PartitionNumbers : step' = Partition(p)
           \/ \E p \in PartitionNumbers : \E s \in 1..SlotsWanted(p) : step' \in {Slot(p, s), Timer(p, s)}
           \/ step' \in {<<"hw_tasks">>, FrontEnd, Signals}
           \/ \E i \in TaskNumbers : step' = HwTask(i)
    PROVE  StepOK'
<1>1. /\ PartitionNumbers' = PartitionNumbers /\ TaskNumbers' = TaskNumbers
      /\ \A p : SlotsWanted(p)' = SlotsWanted(p)
  BY SameFiles
<1>2. \A p : Partition(p)[1] = "partition"
  BY KindIs
<1> QED
  BY <1>1, <1>2 DEF StepOK

LEMMA CreatePartitionKeeps ==
    ASSUME StartInv, CreatePartition
    PROVE  StartInv'
<1>1. /\ step[1] = "partition" /\ UNCHANGED layout /\ FilesGiven
      /\ Constructs(step, <<ArchTokens>>, SlotStep(step[2], 1))
  BY DEF CreatePartition, StartInv, TypesOK
<1>2. PICK p \in PartitionNumbers : step = Partition(p)
  BY <1>1, StepIs DEF StartInv
<1>3. step[2] = p
  BY <1>2, KindIs
<1>4. CASE \E xs, own : FailsFreeing(xs, own)
  BY <1>1, <1>4, FailsEnds
<1>5. CASE Creates(ToSet(Acquired(step)), SlotStep(p, 1))
  <2>1. step' = SlotStep(p, 1) /\ UNCHANGED files
    BY <1>5 DEF Creates
  <2>2. 1 \in 1..(SlotsWanted(p) + 1) /\ p \in Nat /\ \A q \in PartitionNumbers : q \in Nat
        /\ SlotsWanted(q) \in Nat
    BY <1>1, FileFacts DEF PartitionNumbers
  <2>3. /\ Phase(step') \in {8, 9} /\ SlotsUpTo(step', p, p + 1, 1, 1)
        /\ \/ 1 \in 1..SlotsWanted(p) /\ step' = Slot(p, 1)
           \/ p + 1 \in PartitionNumbers /\ step' = Partition(p + 1)
           \/ step' = <<"hw_tasks">>
    BY <1>1, <2>1, <2>2, AfterSlots
  <2>4. Phase(step) = 8 /\ SlotsUpTo(step, p, p, 1, 1)
    BY <1>1, <1>2, AtSlots
  <2>5. StepOK'
    BY <1>1, <2>1, <2>3, StepOKIf
  <2>6. /\ \A r \in Whole : Made(step', r) <=> Made(step, r) \/ r \in {step}
        /\ \A i \in TaskNumbers : /\ TaskMade(step', i) <=> TaskMade(step, i)
                                  /\ ConfigMade(step', i) <=> ConfigMade(step, i)
    <3>1. \A q \in PartitionNumbers : q < p + 1 <=> q < p \/ Partition(q) \in {step}
      <4>1. \A q \in PartitionNumbers : Partition(q) = step <=> q = p
        BY <1>2, KindIs
      <4>2. \A q \in PartitionNumbers : q < p + 1 <=> q < p \/ q = p
        BY <2>2
      <4> QED
        BY <4>1, <4>2
    <3>2. \A q \in PartitionNumbers : \A k \in 1..SlotsWanted(q) :
              /\ q < p \/ (q = p /\ k < 1) <=> q < p \/ (q = p /\ k < 1) \/ Slot(q, k) \in {step}
              /\ q < p \/ (q = p /\ k < 1) <=> q < p \/ (q = p /\ k < 1) \/ Timer(q, k) \in {step}
      BY <1>2, KindIs
    <3>3. \A r \in {step} : r[1] \in {"partition", "slot", "timer"} /\ r[2] \in PartitionNumbers
                        /\ (r[1] # "partition" => r[3] \in 1..SlotsWanted(r[2]))
      BY <1>1, <1>2, <1>3
    <3>4. Gained({step}, p, p, 1, 1, p + 1, 1, 1)
      BY <3>1, <3>2, <3>3 DEF Gained
    <3> QED
      BY <2>3, <2>4, <3>4, PartitionStepMakes
  <2>7. \A q \in PartitionNumbers : TimersMade(step', q) = TimersMade(step, q)
    BY <2>3, <2>4 DEF SlotsUpTo
  <2>8. step \in Whole
    BY <1>1, <1>2, MadeObjects
  <2>9. step'[1] # "register"
    BY <2>3, PhaseIs
  <2>10. Creates(ToSet(Acquired(step)), step')
    BY <1>5, <2>1
  <2> QED
    BY <1>1, <2>3, <2>4, <2>5, <2>6, <2>7, <2>8, <2>9, <2>10, AdvancesBy
<1> QED
  BY <1>1, <1>3, <1>4, <1>5, ConstructsIs

LEMMA CreateSlotKeeps ==
    ASSUME StartInv, CreateSlot
    PROVE  StartInv'
<1>1. /\ step[1] = "slot" /\ UNCHANGED layout /\ FilesGiven
      /\ Constructs(step, <<ArchTokens>>, Timer(step[2], step[3]))
  BY DEF CreateSlot, StartInv, TypesOK
<1>2. PICK p \in PartitionNumbers : \E s \in 1..SlotsWanted(p) : step = Slot(p, s)
  BY <1>1, StepIs DEF StartInv
<1>3. PICK s \in 1..SlotsWanted(p) : step = Slot(p, s)
  BY <1>2
<1>4. step[2] = p /\ step[3] = s
  BY <1>3, KindIs
<1>5. CASE \E xs, own : FailsFreeing(xs, own)
  BY <1>1, <1>5, FailsEnds
<1>6. CASE Creates(ToSet(Acquired(step)), Timer(p, s))
  <2>1. step' = Timer(p, s) /\ UNCHANGED files
    BY <1>6 DEF Creates
  <2>2. s \in Nat /\ p \in Nat /\ \A q \in PartitionNumbers : q \in Nat /\ SlotsWanted(q) \in Nat
    BY <1>1, FileFacts DEF PartitionNumbers
  <2>3. Phase(step') = 8 /\ SlotsUpTo(step', p, p + 1, s + 1, s)
    BY <1>1, <2>1, AtSlots
  <2>4. Phase(step) = 8 /\ SlotsUpTo(step, p, p + 1, s, s)
    BY <1>1, <1>3, AtSlots
  <2>5. StepOK'
    BY <1>1, <2>1, StepOKIf
  <2>6. /\ \A r \in Whole : Made(step', r) <=> Made(step, r) \/ r \in {step}
        /\ \A i \in TaskNumbers : /\ TaskMade(step', i) <=> TaskMade(step, i)
                                  /\ ConfigMade(step', i) <=> ConfigMade(step, i)
    <3>1. \A q \in PartitionNumbers : q < p + 1 <=> q < p + 1 \/ Partition(q) \in {step}
      BY <1>3, KindIs
    <3>2. \A q \in PartitionNumbers : \A k \in 1..SlotsWanted(q) :
              /\ q < p \/ (q = p /\ k < s + 1) <=> q < p \/ (q = p /\ k < s) \/ Slot(q, k) \in {step}
              /\ q < p \/ (q = p /\ k < s) <=> q < p \/ (q = p /\ k < s) \/ Timer(q, k) \in {step}
      <4>1. \A q, k : (Slot(q, k) \in {step} <=> q = p /\ k = s) /\ Timer(q, k) \notin {step}
        BY <1>3, KindIs
      <4> QED
        BY <2>2, <4>1
    <3>3. \A r \in {step} : r[1] \in {"partition", "slot", "timer"} /\ r[2] \in PartitionNumbers
                        /\ (r[1] # "partition" => r[3] \in 1..SlotsWanted(r[2]))
      BY <1>1, <1>3, <1>4
    <3>4. Gained({step}, p, p + 1, s, s, p + 1, s + 1, s)
      BY <3>1, <3>2, <3>3 DEF Gained
    <3> QED
      BY <2>3, <2>4, <3>4, PartitionStepMakes
  <2>7. \A q \in PartitionNumbers : TimersMade(step', q) = TimersMade(step, q)
    BY <2>3, <2>4 DEF SlotsUpTo
  <2>8. step \in Whole
    BY <1>1, <1>3, MadeObjects
  <2>9. step'[1] # "register"
    BY <2>3, PhaseIs
  <2>10. Creates(ToSet(Acquired(step)), step')
    BY <1>6, <2>1
  <2> QED
    BY <1>1, <2>3, <2>4, <2>5, <2>6, <2>7, <2>8, <2>9, <2>10, AdvancesBy
<1> QED
  BY <1>1, <1>4, <1>5, <1>6, ConstructsIs

\* Until there are bitstreams, the slot counts do not matter.
LEMMA MadeSameEarly ==
    ASSUME UNCHANGED files, Phase(step') <= 9
    PROVE  \A r : Made(step, r)' <=> Made(step', r)
<1>1. \A i, s : ~BitsMade(step', i, s)
  BY PartitionsApart
<1>2. PartitionNumbers' = PartitionNumbers /\ TaskNumbers' = TaskNumbers
      /\ \A p : SlotsWanted(p)' = SlotsWanted(p)
  BY SameFiles
<1> QED
  BY <1>1, <1>2 DEF Made

LEMMA CreateTimerKeeps ==
    ASSUME StartInv, CreateTimer
    PROVE  StartInv'
<1>1. /\ step[1] = "timer" /\ FilesGiven
      /\ Constructs(step, <<ArchTokens>>, SlotStep(step[2], step[3] + 1))
      /\ slots_count' = IF mem'[Fd(step)] = "live" /\ MayAdd(step[2])
                        THEN [slots_count EXCEPT ![step[2]] = @ + 1] ELSE slots_count
      /\ UNCHANGED <<partition, task_partition, task_config>>
  BY DEF CreateTimer, StartInv, TypesOK
<1>2. PICK p \in PartitionNumbers : \E s \in 1..SlotsWanted(p) : step = Timer(p, s)
  BY <1>1, StepIs DEF StartInv
<1>3. PICK s \in 1..SlotsWanted(p) : step = Timer(p, s)
  BY <1>2
<1>4. step[2] = p /\ step[3] = s
  BY <1>3, KindIs
<1>5. /\ Phase(step) = 8 /\ SlotsUpTo(step, p, p + 1, s + 1, s)
      /\ s \in Nat /\ p \in Nat /\ p \in Lines(ArchFiles) /\ PartitionNumbers \subseteq Lines(ArchFiles)
      /\ \A q \in PartitionNumbers : q \in Nat /\ SlotsWanted(q) \in Nat
  BY <1>1, <1>3, AtSlots, FileFacts DEF PartitionNumbers
<1>6. CountedUp /\ CountedNow /\ PlacedNow /\ ConfigsNow
  BY <1>5 DEF StartInv, StartsOK
<1>7. MaxSlots - 1 \in Nat
  BY StartupConstantsOK
<1>8. slots_count[p] = Lesser(s - 1, MaxSlots - 1)
  BY <1>5, <1>6 DEF CountedNow, SlotsUpTo
<1>9. slots_count' = slots_count \/ (MayAdd(p) /\ slots_count' = [slots_count EXCEPT ![p] = @ + 1])
  BY <1>1, <1>4
<1>10. slots_count' \in [Lines(ArchFiles) -> 0..(MaxSlots - 1)]
  <2>1. slots_count \in [Lines(ArchFiles) -> 0..(MaxSlots - 1)] /\ slots_count[p] \in 0..(MaxSlots - 1)
    BY <1>5 DEF StartInv, TypesOK
  <2>2. MayAdd(p) => slots_count[p] + 1 \in 0..(MaxSlots - 1)
    BY <1>7, <2>1 DEF MayAdd
  <2> QED
    BY <1>5, <1>9, <2>1, <2>2
<1>11. \A q \in PartitionNumbers : slots_count'[q] <= SlotsWanted(q)
  <2>1. \A q \in PartitionNumbers : slots_count[q] <= SlotsWanted(q)
    BY <1>6 DEF CountedUp
  <2>2. slots_count[p] + 1 <= SlotsWanted(p)
    BY <1>3, <1>5, <1>7, <1>8 DEF Lesser
  <2>3. slots_count \in [Lines(ArchFiles) -> 0..(MaxSlots - 1)]
    BY <1>5 DEF StartInv, TypesOK
  <2>4. CASE slots_count' = slots_count
    BY <2>1, <2>4
  <2>5. CASE slots_count' = [slots_count EXCEPT ![p] = @ + 1]
    BY <1>5, <2>1, <2>2, <2>3, <2>5
  <2> QED
    BY <1>9, <2>4, <2>5
<1>12. UNCHANGED files /\ sources' = sources /\ mem' \in [Objects -> {"none", "live", "freed"}]
  <2>1. CASE Creates(ToSet(Acquired(step)), SlotStep(p, s + 1))
    BY <2>1 DEF Creates, StartInv, TypesOK
  <2>2. CASE \E xs, own : FailsFreeing(xs, own)
    BY <2>2 DEF FailsFreeing, StartFreeing, StartInv, TypesOK
  <2> QED
    BY <1>1, <1>4, <2>1, <2>2, ConstructsIs
<1>13. TypesOK' /\ CountedUp' /\ PlacedWell'
  <2>1. TypesOK'
    BY <1>1, <1>10, <1>12, SameFiles DEF StartInv, TypesOK
  <2>2. CountedUp'
    BY <1>11, <1>12, SameFiles DEF CountedUp
  <2>3. PlacedWell'
    BY <1>1, <1>12, SameFiles DEF PlacedWell, StartInv
  <2> QED
    BY <2>1, <2>2, <2>3
<1>14. CASE \E xs, own : FailsFreeing(xs, own)
  <2>1. step' = <<"freeing">>
    BY <1>14 DEF FailsFreeing, StartFreeing
  <2>2. step'[1] = "freeing"
    BY <2>1
  <2>3. StepOK'
    BY <2>1 DEF StepOK
  <2> QED
    BY <1>13, <2>2, <2>3, Ends
<1>15. CASE Creates(ToSet(Acquired(step)), SlotStep(p, s + 1))
  <2>1. /\ step' = SlotStep(p, s + 1) /\ UNCHANGED <<files, sources, chain, misuse>>
        /\ mem' = [x \in Objects |-> IF x \in ToSet(Acquired(step)) THEN "live" ELSE mem[x]]
    BY <1>15 DEF Creates
  <2>2. s + 1 \in 1..(SlotsWanted(p) + 1)
    BY <1>5
  <2>3. /\ Phase(step') \in {8, 9} /\ SlotsUpTo(step', p, p + 1, s + 1, s + 1)
        /\ \/ s + 1 \in 1..SlotsWanted(p) /\ step' = Slot(p, s + 1)
           \/ p + 1 \in PartitionNumbers /\ step' = Partition(p + 1)
           \/ step' = <<"hw_tasks">>
    BY <1>1, <2>1, <2>2, AfterSlots
  <2>4. StepOK'
    BY <1>1, <2>1, <2>3, StepOKIf
  <2>5. /\ \A r \in Whole : Made(step', r) <=> Made(step, r) \/ r \in {step}
        /\ \A i \in TaskNumbers : /\ TaskMade(step', i) <=> TaskMade(step, i)
                                  /\ ConfigMade(step', i) <=> ConfigMade(step, i)
    <3>1. \A q \in PartitionNumbers : q < p + 1 <=> q < p + 1 \/ Partition(q) \in {step}
      BY <1>3, KindIs
    <3>2. \A q \in PartitionNumbers : \A k \in 1..SlotsWanted(q) :
              /\ q < p \/ (q = p /\ k < s + 1) <=> q < p \/ (q = p /\ k < s + 1) \/ Slot(q, k) \in {step}
              /\ q < p \/ (q = p /\ k < s + 1) <=> q < p \/ (q = p /\ k < s) \/ Timer(q, k) \in {step}
      <4>1. \A q, k : (Timer(q, k) \in {step} <=> q = p /\ k = s) /\ Slot(q, k) \notin {step}
        BY <1>3, KindIs
      <4> QED
        BY <1>5, <4>1
    <3>3. \A r \in {step} : r[1] \in {"partition", "slot", "timer"} /\ r[2] \in PartitionNumbers
                        /\ (r[1] # "partition" => r[3] \in 1..SlotsWanted(r[2]))
      BY <1>1, <1>3, <1>4
    <3>4. Gained({step}, p, p + 1, s + 1, s, p + 1, s + 1, s + 1)
      BY <3>1, <3>2, <3>3 DEF Gained
    <3> QED
      BY <1>5, <2>3, <3>4, PartitionStepMakes
  <2>6. step \in Whole /\ step \in Timers
    BY <1>1, <1>3, MadeObjects
  <2>7. mem'[Fd(step)] = "live"
    <3>1. step \in FdOwners /\ step # FrontEnd
      BY <1>1, <2>6, KindIs DEF FdOwners
    <3>2. Fd(step) \in ToSet(Acquired(step)) /\ Fd(step) \in Objects
      BY <3>1, WithFdLists, PartObjects
    <3> QED
      BY <2>1, <3>2
  <2>8. slots_count' = IF MayAdd(p) THEN [slots_count EXCEPT ![p] = @ + 1] ELSE slots_count
    BY <1>1, <1>4, <2>7
  <2>9. CountedNow'
    <3>1. ASSUME NEW q \in PartitionNumbers
          PROVE  slots_count'[q] = Lesser(TimersMade(step', q), MaxSlots - 1)
      <4>1. CASE q = p
        <5>1. TimersMade(step', p) = s
          BY <1>5, <2>3 DEF SlotsUpTo
        <5>2. slots_count'[p] =
              IF slots_count[p] < MaxSlots - 1 THEN slots_count[p] + 1 ELSE slots_count[p]
          BY <1>5, <2>8 DEF MayAdd, StartInv, TypesOK
        <5> QED
          BY <1>5, <1>7, <1>8, <4>1, <5>1, <5>2 DEF Lesser
      <4>2. CASE q # p
        <5>1. TimersMade(step', q) = TimersMade(step, q)
          BY <1>5, <2>3, <4>2 DEF SlotsUpTo
        <5>2. slots_count'[q] = slots_count[q]
          BY <1>5, <2>8, <4>2 DEF StartInv, TypesOK
        <5> QED
          BY <1>6, <5>1, <5>2 DEF CountedNow
      <4> QED
        BY <4>1, <4>2
    <3>2. PartitionNumbers' = PartitionNumbers /\ \A q : TimersMade(step, q)' = TimersMade(step', q)
      BY <1>12, SameFiles, TimersMadeSame
    <3> QED
      BY <3>1, <3>2 DEF CountedNow
  <2>10. PlacedNow' /\ ConfigsNow'
    BY <1>1, <1>6, <1>12, <2>5, SameFiles DEF PlacedNow, ConfigsNow
  <2>11. \A x \in Objects :
         mem'[x] = IF \E z \in {step} : x \in ToSet(Acquired(z)) THEN "live" ELSE mem[x]
    BY <2>1
  <2>12. \A r \in Whole : Made(step, r)' <=> Made(step, r) \/ r \in {step}
    BY <1>12, <2>3, <2>5, MadeSameEarly
  <2>13. Phase(step) <= 12 /\ Phase(step') <= 13 /\ step'[1] # "register" /\ {step} \in SUBSET Whole
    BY <1>5, <2>3, <2>6, PhaseIs
  <2> QED
    BY <1>13, <2>1, <2>4, <2>9, <2>10, <2>11, <2>12, <2>13, Advances
<1> QED
  BY <1>1, <1>4, <1>14, <1>15, ConstructsIs

-----------------------------------------------------------------------------
(* Hw-tasks and bitstreams. *)

\* What a step among the hw-tasks makes: hw-task i, or its bitstream s, or nothing.
TasksGained(Q, i, m, s, j, n, u) ==
    /\ \A k \in TaskNumbers : k < n <=> k < m \/ HwTask(k) \in Q
    /\ \A k \in TaskNumbers : task_partition[k] # 0 => \A b \in SlotsOf(k) :
          k < j \/ (k = j /\ b < u) <=> k < i \/ (k = i /\ b < s) \/ Bits(k, b) \in Q
    /\ \A r \in Q : /\ r[1] \in {"task", "bits"} /\ r[2] \in TaskNumbers
                    /\ r[1] = "bits" => task_partition[r[2]] # 0 /\ r[3] \in SlotsOf(r[2])

LEMMA TaskStepMakes ==
    ASSUME NEW st, NEW su, Phase(st) = 10, Phase(su) \in {10, 11},
           NEW i, NEW m, NEW s, NEW j, NEW n, NEW u,
           TasksUpTo(st, i, m, s), TasksUpTo(su, j, n, u),
           NEW Q, TasksGained(Q, i, m, s, j, n, u)
    PROVE  /\ \A r \in Whole : Made(su, r) <=> Made(st, r) \/ r \in Q
           /\ \A p \in PartitionNumbers : TimersMade(su, p) = TimersMade(st, p)
<1>1. \A p, k : /\ PartitionMade(st, p) /\ SlotMade(st, p, k) /\ TimerMade(st, p, k)
                /\ PartitionMade(su, p) /\ SlotMade(su, p, k) /\ TimerMade(su, p, k)
                /\ TimersMade(st, p) = SlotsWanted(p) /\ TimersMade(su, p) = SlotsWanted(p)
  BY DEF PartitionMade, SlotMade, TimerMade, TimersMade
<1>2. \A b \in BaseKinds : (Made(su, <<b>>) <=> Made(st, <<b>>)) /\ <<b>> \notin Q
  <2>1. ASSUME NEW b \in BaseKinds PROVE Phase(<<b>>) \in 1..15 /\ Phase(<<b>>) # 10 /\ <<b>>[1] = b
                                         /\ b \notin {"task", "bits"}
    BY PhaseIs, KindIs DEF BaseKinds
  <2>2. ASSUME NEW b \in BaseKinds PROVE Made(su, <<b>>) <=> Made(st, <<b>>)
    <3>1. (Made(su, <<b>>) <=> Phase(<<b>>) < Phase(su)) /\ (Made(st, <<b>>) <=> Phase(<<b>>) < Phase(st))
      BY MadeIs
    <3> QED
      BY <2>1, <3>1
  <2>3. ASSUME NEW b \in BaseKinds PROVE <<b>> \notin Q
    BY <2>1 DEF TasksGained
  <2> QED
    BY <2>2, <2>3
<1>3. /\ Made(su, ArchTokens) /\ Made(st, ArchTokens)
      /\ Made(su, TaskTokens) /\ Made(st, TaskTokens)
  BY MadeIs
<1>4. ASSUME NEW p, NEW k
      PROVE  /\ Made(su, Partition(p)) <=> Made(st, Partition(p))
             /\ Made(su, Slot(p, k)) <=> Made(st, Slot(p, k))
             /\ Made(su, Timer(p, k)) <=> Made(st, Timer(p, k))
             /\ Partition(p) \notin Q /\ Slot(p, k) \notin Q /\ Timer(p, k) \notin Q
  <2>1. Partition(p) \notin Q /\ Slot(p, k) \notin Q /\ Timer(p, k) \notin Q
    BY KindIs DEF TasksGained
  <2>2. /\ Made(su, Partition(p)) <=> p \in PartitionNumbers /\ PartitionMade(su, p)
        /\ Made(st, Partition(p)) <=> p \in PartitionNumbers /\ PartitionMade(st, p)
    BY MadeIs
  <2>3. /\ Made(su, Slot(p, k)) <=> p \in PartitionNumbers /\ k \in 1..SlotsWanted(p)
           /\ SlotMade(su, p, k)
        /\ Made(st, Slot(p, k)) <=> p \in PartitionNumbers /\ k \in 1..SlotsWanted(p)
           /\ SlotMade(st, p, k)
    BY MadeIs
  <2>4. /\ Made(su, Timer(p, k)) <=> p \in PartitionNumbers /\ k \in 1..SlotsWanted(p)
           /\ TimerMade(su, p, k)
        /\ Made(st, Timer(p, k)) <=> p \in PartitionNumbers /\ k \in 1..SlotsWanted(p)
           /\ TimerMade(st, p, k)
    BY MadeIs
  <2> QED
    BY <1>1, <2>1, <2>2, <2>3, <2>4
<1>5. ASSUME NEW k PROVE Made(su, HwTask(k)) <=> Made(st, HwTask(k)) \/ HwTask(k) \in Q
  <2>1. /\ Made(su, HwTask(k)) <=> k \in TaskNumbers /\ TaskMade(su, k)
        /\ Made(st, HwTask(k)) <=> k \in TaskNumbers /\ TaskMade(st, k)
    BY MadeIs
  <2>2. HwTask(k) \in Q => k \in TaskNumbers
    BY KindIs DEF TasksGained
  <2> QED
    BY <2>1, <2>2 DEF TasksUpTo, TasksGained
<1>6. ASSUME NEW k, NEW b PROVE Made(su, Bits(k, b)) <=> Made(st, Bits(k, b)) \/ Bits(k, b) \in Q
  <2>1. /\ Made(su, Bits(k, b)) <=> k \in TaskNumbers /\ task_partition[k] # 0 /\ b \in SlotsOf(k)
           /\ BitsMade(su, k, b)
        /\ Made(st, Bits(k, b)) <=> k \in TaskNumbers /\ task_partition[k] # 0 /\ b \in SlotsOf(k)
           /\ BitsMade(st, k, b)
    BY MadeIs
  <2>2. Bits(k, b) \in Q => k \in TaskNumbers /\ task_partition[k] # 0 /\ b \in SlotsOf(k)
    BY KindIs DEF TasksGained
  <2> QED
    BY <2>1, <2>2 DEF TasksUpTo, TasksGained
<1>7. ArchTokens \notin Q /\ TaskTokens \notin Q
  BY KindIs DEF TasksGained
<1>8. ASSUME NEW r \in Whole PROVE Made(su, r) <=> Made(st, r) \/ r \in Q
  BY <1>2, <1>3, <1>4, <1>5, <1>6, <1>7, WholeKinds
<1> QED
  BY <1>1, <1>8

LEMMA ReadTasksKeeps ==
    ASSUME StartInv, ReadTasks
    PROVE  StartInv'
<1>1. /\ step = <<"hw_tasks">> /\ UNCHANGED layout /\ Phase(step) = 9 /\ FilesGiven
      /\ Tokenizes(TaskTokens, Len(TaskLines) < MaxHwTasks, TaskStep(1))
  BY KindIs, PhaseIs DEF ReadTasks, StartInv, TypesOK
<1>2. CASE \E xs, own : FailsFreeing(xs, own)
  BY <1>1, <1>2, FailsEnds
<1>3. CASE Creates({TaskTokens}, TaskStep(1))
  <2>1. step' = TaskStep(1) /\ UNCHANGED files
    BY <1>3 DEF Creates
  <2>2. 1 \in 1..(Len(TaskLines) + 1) /\ \A k \in TaskNumbers : k \in Nat \ {0}
    BY <1>1, FileFacts DEF TaskNumbers
  <2>3. /\ Phase(step') \in {10, 11} /\ TasksUpTo(step', 1, 1, 1)
        /\ (1 \in TaskNumbers /\ step' = HwTask(1)) \/ step' = FrontEnd
    BY <1>1, <2>1, <2>2, AfterTasks
  <2>4. \A k \in TaskNumbers : /\ ~TaskMade(step', k) /\ ~ConfigMade(step', k)
                               /\ \A b \in SlotsOf(k) : ~BitsMade(step', k, b)
    <3>1. \A k \in TaskNumbers : ~(k < 1)
      BY <2>2
    <3>2. \A k : \A b \in SlotsOf(k) : ~(b < 1)
      BY DEF SlotsOf
    <3> QED
      BY <2>3, <3>1, <3>2 DEF TasksUpTo
  <2>5. StepOK'
    BY <1>1, <2>1, <2>3, StepOKIf
  <2>6. \A i, s : ~TaskMade(step, i) /\ ~ConfigMade(step, i) /\ ~BitsMade(step, i, s)
    BY <1>1, PartitionsApart
  <2>7. \A p, k : /\ PartitionMade(step, p) /\ SlotMade(step, p, k) /\ TimerMade(step, p, k)
                  /\ PartitionMade(step', p) /\ SlotMade(step', p, k) /\ TimerMade(step', p, k)
                  /\ TimersMade(step, p) = SlotsWanted(p) /\ TimersMade(step', p) = SlotsWanted(p)
    BY <1>1, <2>3 DEF PartitionMade, SlotMade, TimerMade, TimersMade
  <2>8. ASSUME NEW r \in Whole PROVE Made(step', r) <=> Made(step, r) \/ r = TaskTokens
    <3>1. ASSUME NEW b \in BaseKinds PROVE (Made(step', <<b>>) <=> Made(step, <<b>>))
                 /\ <<b>> # TaskTokens
      <4>1. Phase(<<b>>) \in 1..15 /\ Phase(<<b>>) \notin {9, 10} /\ <<b>> # TaskTokens
        BY PhaseIs, KindIs DEF BaseKinds
      <4>2. /\ Made(step', <<b>>) <=> Phase(<<b>>) < Phase(step')
            /\ Made(step, <<b>>) <=> Phase(<<b>>) < Phase(step)
        BY MadeIs
      <4> QED
        BY <1>1, <2>3, <4>1, <4>2
    <3>2. Made(step', ArchTokens) /\ Made(step, ArchTokens) /\ Made(step', TaskTokens)
      BY <1>1, <2>3, MadeIs
    <3>3. ASSUME NEW p, NEW s
          PROVE  /\ Made(step', Partition(p)) <=> Made(step, Partition(p))
                 /\ Made(step', Slot(p, s)) <=> Made(step, Slot(p, s))
                 /\ Made(step', Timer(p, s)) <=> Made(step, Timer(p, s))
                 /\ TaskTokens \notin {Partition(p), Slot(p, s), Timer(p, s)}
      <4>1. TaskTokens \notin {Partition(p), Slot(p, s), Timer(p, s)}
        BY KindIs
      <4>2. \A st \in {step, step'} :
               /\ Made(st, Partition(p)) <=> p \in PartitionNumbers /\ PartitionMade(st, p)
               /\ Made(st, Slot(p, s)) <=> p \in PartitionNumbers /\ s \in 1..SlotsWanted(p)
                  /\ SlotMade(st, p, s)
               /\ Made(st, Timer(p, s)) <=> p \in PartitionNumbers /\ s \in 1..SlotsWanted(p)
                  /\ TimerMade(st, p, s)
        BY MadeIs
      <4> QED
        BY <2>7, <4>1, <4>2
    <3>4. ASSUME NEW i, NEW s
          PROVE  /\ ~Made(step', HwTask(i)) /\ ~Made(step', Bits(i, s)) /\ ~Made(step, HwTask(i))
                    /\ ~Made(step, Bits(i, s))
                 /\ TaskTokens \notin {HwTask(i), Bits(i, s)}
      <4>1. \A st \in {step, step'} :
               /\ Made(st, HwTask(i)) => i \in TaskNumbers /\ TaskMade(st, i)
               /\ Made(st, Bits(i, s)) => i \in TaskNumbers /\ s \in SlotsOf(i) /\ BitsMade(st, i, s)
        BY MadeIs
      <4>2. TaskTokens \notin {HwTask(i), Bits(i, s)}
        BY KindIs
      <4> QED
        BY <2>4, <2>6, <4>1, <4>2
    <3>5. ArchTokens # TaskTokens
      BY KindIs
    <3>6. CASE \E p \in Lines(ArchFiles) : r = Partition(p)
      BY <3>3, <3>6
    <3>7. CASE \E p \in Lines(ArchFiles), s \in SlotNumbers : r = Slot(p, s) \/ r = Timer(p, s)
      BY <3>3, <3>7
    <3>8. CASE \E i \in Lines(TaskFiles) : r = HwTask(i)
      BY <3>4, <3>8
    <3>9. CASE \E i \in Lines(TaskFiles), s \in SlotNumbers : r = Bits(i, s)
      BY <3>4, <3>9
    <3> QED
      BY <3>1, <3>2, <3>5, <3>6, <3>7, <3>8, <3>9, WholeKinds
  <2>9. \A p \in PartitionNumbers : TimersMade(step', p) = TimersMade(step, p)
    BY <2>7
  <2>10. Phase(step) <= 12 /\ Phase(step') <= 13 /\ TaskTokens \in Whole /\ step'[1] # "register"
    BY <1>1, <2>3, TokenLists, PhaseIs
  <2>11. \A i \in TaskNumbers : /\ TaskMade(step', i) <=> TaskMade(step, i)
                                /\ ConfigMade(step', i) <=> ConfigMade(step, i)
    BY <2>4, <2>6
  <2>12. Creates(ToSet(Acquired(TaskTokens)), step')
    BY <1>3, TokenLists DEF Creates
  <2> QED
    BY <1>1, <2>5, <2>8, <2>9, <2>10, <2>11, <2>12, AdvancesBy
<1> QED
  BY <1>1, <1>2, <1>3, TokenizesIs

LEMMA MadeSameNoBits ==
    ASSUME UNCHANGED files
    PROVE  \A r : r[1] # "bits" => (Made(step, r)' <=> Made(step', r))
<1>1. PartitionNumbers' = PartitionNumbers /\ TaskNumbers' = TaskNumbers
      /\ \A p : SlotsWanted(p)' = SlotsWanted(p)
  BY SameFiles
<1> QED
  BY <1>1 DEF Made

LEMMA MadeBitsNext ==
    ASSUME NEW k, NEW b
    PROVE  Made(step, Bits(k, b))' <=> /\ k \in TaskNumbers' /\ task_partition'[k] # 0
                                       /\ b \in SlotsOf(k)' /\ BitsMade(step', k, b)
  BY KindIs DEF Made, BaseKinds

\* CreateTask changes the hw-task's partition, so what is made is compared across the step.
LEMMA CreateTaskKeeps ==
    ASSUME StartInv, CreateTask
    PROVE  StartInv'
<1>1. /\ step[1] = "task" /\ FilesGiven /\ UNCHANGED <<slots_count, task_config>>
      /\ partition' = Found(step[2])
      /\ \/ /\ Found(step[2]) # 0
            /\ Creates({step}, BitsStep(step[2], 1, slots_count[Found(step[2])]))
            /\ task_partition' = [task_partition EXCEPT ![step[2]] = Found(step[2])]
         \/ /\ FailsFreeing({}, <<TaskTokens>>)
            /\ UNCHANGED task_partition
  BY DEF CreateTask, StartInv, TypesOK
<1>2. PICK i \in TaskNumbers : step = HwTask(i)
  BY <1>1, StepIs DEF StartInv
<1>3. step[2] = i
  BY <1>2, KindIs
<1>4. /\ Phase(step) = 10 /\ TasksUpTo(step, i, i, 1)
      /\ i \in Lines(TaskFiles) /\ TaskNumbers \subseteq Lines(TaskFiles)
         /\ \A k \in TaskNumbers : k \in Nat \ {0}
      /\ PartitionNumbers \subseteq Lines(ArchFiles) /\ Len(ArchLines) \in Nat
      /\ \A q \in PartitionNumbers : q \in Nat \ {0}
  BY <1>1, <1>2, AtTasks, FileFacts DEF PartitionNumbers
<1>5. CountedUp /\ CountedNow /\ PlacedNow /\ PlacedWell /\ ConfigsNow /\ TypesOK
  BY <1>4 DEF StartInv, StartsOK
<1> DEFINE found == Found(i)
           named == {p \in PartitionNumbers : ArchLines[p][1] = PartitionName(i)}
<1>6. found \in 0..Len(ArchLines) /\ (named # {} => found \in named)
  <2>1. found = IF named # {} THEN Min(named) ELSE partition
    BY DEF Found, PartitionNumbers
  <2>2. named # {} => Min(named) \in named
    <3>1. named \in SUBSET Nat
      BY <1>4
    <3>2. named # {} => \E n \in named : \A m \in named : n <= m
      BY <3>1, LeastNatural
    <3> QED
      BY <3>2 DEF Min
  <2>3. partition \in 0..Len(ArchLines)
    BY <1>5 DEF TypesOK
  <2>4. named \subseteq 0..Len(ArchLines)
    BY <1>4 DEF PartitionNumbers
  <2> QED
    BY <2>1, <2>2, <2>3, <2>4
<1> HIDE DEF found
<1>7. UNCHANGED files /\ sources' = sources /\ mem' \in [Objects -> {"none", "live", "freed"}]
  BY <1>1, <1>5 DEF Creates, FailsFreeing, StartFreeing, TypesOK
<1>8. task_partition' = task_partition \/ task_partition' = [task_partition EXCEPT ![i] = found]
  BY <1>1, <1>3 DEF found
<1>9. task_partition' \in [Lines(TaskFiles) -> 0..Len(ArchLines)]
  <2>1. task_partition \in [Lines(TaskFiles) -> 0..Len(ArchLines)]
    BY <1>5 DEF TypesOK
  <2> QED
    BY <1>4, <1>6, <1>8, <2>1
<1>10. TypesOK'
  <2>1. ArchLines' = ArchLines /\ FilesGiven'
    BY <1>1, <1>7, SameFiles
  <2>2. partition' \in 0..Len(ArchLines)
    BY <1>1, <1>3, <1>6 DEF found
  <2> QED
    BY <1>1, <1>5, <1>7, <1>9, <2>1, <2>2 DEF TypesOK
<1>11. CountedUp'
  BY <1>1, <1>5, <1>7, SameFiles DEF CountedUp
<1>12. PlacedWell'
  <2>1. ASSUME NEW k \in Lines(TaskFiles), task_partition'[k] # 0
        PROVE  /\ k \in TaskNumbers
               /\ (\E p \in PartitionNumbers : ArchLines[p][1] = PartitionName(k))
                     => ArchLines[task_partition'[k]][1] = PartitionName(k)
    <3>1. CASE task_partition'[k] = task_partition[k]
      BY <1>5, <2>1, <3>1 DEF PlacedWell
    <3>2. CASE k = i /\ task_partition'[k] = found
      BY <1>6, <3>2
    <3> QED
      BY <1>4, <1>5, <1>8, <3>1, <3>2 DEF TypesOK
  <2>2. /\ ArchLines' = ArchLines /\ PartitionNumbers' = PartitionNumbers /\ TaskNumbers' = TaskNumbers
        /\ \A k : PartitionName(k)' = PartitionName(k)
    BY <1>7, SameFiles
  <2> QED
    BY <2>1, <2>2 DEF PlacedWell
<1>13. CASE FailsFreeing({}, <<TaskTokens>>)
  <2>1. step' = <<"freeing">>
    BY <1>13 DEF FailsFreeing, StartFreeing
  <2>2. step'[1] = "freeing"
    BY <2>1
  <2>3. StepOK'
    BY <2>1 DEF StepOK
  <2> QED
    BY <1>10, <1>11, <1>12, <2>2, <2>3, Ends
<1>14. CASE /\ found # 0
            /\ Creates({step}, BitsStep(i, 1, slots_count[found]))
            /\ task_partition' = [task_partition EXCEPT ![i] = found]
  <2>1. /\ step' = BitsStep(i, 1, slots_count[found]) /\ UNCHANGED <<files, sources, chain, misuse>>
        /\ mem' = [x \in Objects |-> IF x \in {step} THEN "live" ELSE mem[x]]
    BY <1>14 DEF Creates
  <2>2. found \in PartitionNumbers /\ slots_count[found] \in Nat
    BY <1>4, <1>5, <1>6, <1>14, StartupConstantsOK DEF PartitionNumbers, TypesOK
  <2>3. /\ task_partition'[i] = found
        /\ \A k \in Lines(TaskFiles) : k # i => task_partition'[k] = task_partition[k]
    BY <1>4, <1>5, <1>14 DEF TypesOK
  <2>4. \/ step' = Bits(i, 1) /\ 1 <= slots_count[found]
        \/ step' = <<"config", i>> /\ slots_count[found] = 0
    BY <2>1, <2>2 DEF BitsStep
  <2>5. step'[1] \in {"bits", "config"} /\ step'[2] = i /\ Phase(step') = 10
        /\ (step'[1] = "bits" => step'[3] = 1) /\ (step'[1] = "config" => slots_count[found] = 0)
    <3>1. <<"config", i>>[1] = "config" /\ <<"config", i>>[2] = i
      OBVIOUS
    <3> QED
      BY <2>4, <3>1, KindIs, PhaseIs
  <2>6. StepOK'
    <3>1. TaskNumbers' = TaskNumbers /\ SlotsOf(i)' = 1..slots_count[found]
      BY <1>1, <1>7, <2>3, SameFiles DEF SlotsOf
    <3>2. (step' = Bits(i, 1) /\ 1 \in SlotsOf(i)') \/ step' = <<"config", i>>
      BY <2>2, <2>4, <3>1
    <3>3. \E k \in TaskNumbers' : /\ task_partition'[k] # 0
                                  /\ step' = <<"config", k>>
                                     \/ (\E s \in SlotsOf(k)' : step' = Bits(k, s))
      BY <1>14, <2>3, <3>1, <3>2
    <3> QED
      BY <3>3 DEF StepOK
  <2>7. \A k \in TaskNumbers : /\ TaskMade(step', k) <=> k < i \/ k = i
                               /\ ConfigMade(step', k) <=> k < i
    BY <1>4, <2>5 DEF TaskMade, ConfigMade
  <2>8. \A k \in TaskNumbers : /\ TaskMade(step, k) <=> k < i
                               /\ ConfigMade(step, k) <=> k < i
    BY <1>4 DEF TasksUpTo
  <2>9. PlacedNow'
    <3>1. ASSUME NEW k \in TaskNumbers PROVE task_partition'[k] # 0 <=> TaskMade(step', k)
      BY <1>4, <1>5, <1>14, <2>3, <2>7, <2>8 DEF PlacedNow
    <3>2. TaskNumbers' = TaskNumbers
      BY <1>7, SameFiles
    <3> QED
      BY <3>1, <3>2 DEF PlacedNow
  <2>10. ConfigsNow'
    <3>1. \A k \in TaskNumbers : ConfigMade(step', k) => task_config[k] \in ConfigsOf(k)
      BY <1>5, <2>7, <2>8 DEF ConfigsNow
    <3> QED
      BY <1>1, <1>7, <3>1, SameFiles DEF ConfigsNow
  <2>11. \A p, k : /\ PartitionMade(step, p) /\ SlotMade(step, p, k) /\ TimerMade(step, p, k)
                   /\ PartitionMade(step', p) /\ SlotMade(step', p, k) /\ TimerMade(step', p, k)
                   /\ TimersMade(step, p) = SlotsWanted(p) /\ TimersMade(step', p) = SlotsWanted(p)
    BY <1>4, <2>5 DEF PartitionMade, SlotMade, TimerMade, TimersMade
  <2>12. CountedNow'
    <3>1. \A q \in PartitionNumbers : slots_count[q] = Lesser(TimersMade(step', q), MaxSlots - 1)
      BY <1>5, <2>11 DEF CountedNow
    <3> QED
      BY <1>1, <1>7, <3>1, SameFiles, TimersMadeSame DEF CountedNow
  <2>13. step \in Whole /\ Acquired(step) = <<step>> /\ ToSet(Acquired(step)) = {step}
    <3>1. step \in Whole /\ step[1] = "task"
      BY <1>1, <1>2, MadeObjects
    <3>2. step \in Objects /\ step \notin Parts /\ step \notin Slots /\ step \notin FdOwners
          /\ step # <<"devcfg">>
      BY <3>1, OwnerKinds DEF Whole
    <3>3. Acquired(step) = <<step>>
      BY <3>2, AloneLists
    <3>4. ToSet(<<step>>) = {step}
      BY <3>2, OneList DEF IsList
    <3> QED
      BY <3>1, <3>3, <3>4
  <2>14. ASSUME NEW r \in Whole
         PROVE  Made(step, r)' <=> Made(step, r) \/ r \in {step}
    <3>1. CASE r[1] # "bits"
      <4>1. Made(step, r)' <=> Made(step', r)
        BY <1>7, <3>1, MadeSameNoBits
      <4>2. ASSUME NEW b \in BaseKinds PROVE (Made(step', <<b>>) <=> Made(step, <<b>>)) /\ <<b>> # step
        <5>1. /\ Made(step', <<b>>) <=> Phase(<<b>>) < Phase(step')
              /\ Made(step, <<b>>) <=> Phase(<<b>>) < Phase(step)
          BY MadeIs
        <5>2. <<b>> # step
          BY <1>1, KindIs DEF BaseKinds
        <5> QED
          BY <1>4, <2>5, <5>1, <5>2
      <4>3. /\ Made(step', ArchTokens) /\ Made(step, ArchTokens) /\ ArchTokens # step
            /\ Made(step', TaskTokens) /\ Made(step, TaskTokens) /\ TaskTokens # step
        BY <1>1, <1>4, <2>5, MadeIs, KindIs
      <4>4. ASSUME NEW p, NEW s
            PROVE  /\ Made(step', Partition(p)) <=> Made(step, Partition(p))
                   /\ Made(step', Slot(p, s)) <=> Made(step, Slot(p, s))
                   /\ Made(step', Timer(p, s)) <=> Made(step, Timer(p, s))
                   /\ step # Partition(p) /\ step # Slot(p, s) /\ step # Timer(p, s)
        <5>1. step # Partition(p) /\ step # Slot(p, s) /\ step # Timer(p, s)
          BY <1>1, KindIs
        <5>2. \A st \in {step, step'} :
                 /\ Made(st, Partition(p)) <=> p \in PartitionNumbers /\ PartitionMade(st, p)
                 /\ Made(st, Slot(p, s)) <=> p \in PartitionNumbers /\ s \in 1..SlotsWanted(p)
                    /\ SlotMade(st, p, s)
                 /\ Made(st, Timer(p, s)) <=> p \in PartitionNumbers /\ s \in 1..SlotsWanted(p)
                    /\ TimerMade(st, p, s)
          BY MadeIs
        <5> QED
          BY <2>11, <5>1, <5>2
      <4>5. ASSUME NEW k PROVE Made(step', HwTask(k)) <=> Made(step, HwTask(k)) \/ HwTask(k) = step
        <5>1. HwTask(k) = step <=> k = i
          BY <1>2, KindIs
        <5>2. /\ Made(step', HwTask(k)) <=> k \in TaskNumbers /\ TaskMade(step', k)
              /\ Made(step, HwTask(k)) <=> k \in TaskNumbers /\ TaskMade(step, k)
          BY MadeIs
        <5> QED
          BY <2>7, <2>8, <5>1, <5>2
      <4>6. \A k, b : Bits(k, b) # r
        BY <3>1, KindIs
      <4>7. CASE \E p \in Lines(ArchFiles) : r = Partition(p)
        BY <4>1, <4>4, <4>7
      <4>8. CASE \E p \in Lines(ArchFiles), s \in SlotNumbers : r = Slot(p, s) \/ r = Timer(p, s)
        BY <4>1, <4>4, <4>8
      <4> QED
        BY <4>1, <4>2, <4>3, <4>5, <4>6, <4>7, <4>8, WholeKinds
    <3>2. ASSUME NEW k, NEW b
          PROVE  (Made(step, Bits(k, b))' <=> Made(step, Bits(k, b))) /\ Bits(k, b) # step
      <4>1. Bits(k, b) # step
        BY <1>1, KindIs
      <4>2. Made(step, Bits(k, b))' <=> /\ k \in TaskNumbers' /\ task_partition'[k] # 0
                                        /\ b \in SlotsOf(k)' /\ BitsMade(step', k, b)
        BY MadeBitsNext
      <4>3. Made(step, Bits(k, b)) <=> /\ k \in TaskNumbers /\ task_partition[k] # 0
                                       /\ b \in SlotsOf(k) /\ BitsMade(step, k, b)
        BY MadeIs
      <4>4. TaskNumbers' = TaskNumbers
        BY <1>7, SameFiles
      <4>5. CASE k \notin TaskNumbers
        BY <4>1, <4>2, <4>3, <4>4, <4>5
      <4>6. CASE k \in TaskNumbers /\ k # i
        <5>1. task_partition'[k] = task_partition[k] /\ SlotsOf(k)' = SlotsOf(k)
          BY <1>1, <1>4, <2>3, <4>6 DEF SlotsOf
        <5>2. (BitsMade(step', k, b) <=> k < i) /\ (BitsMade(step, k, b) <=> k < i)
          BY <1>1, <1>3, <1>4, <2>5, <4>6 DEF BitsMade
        <5> QED
          BY <4>1, <4>2, <4>3, <4>4, <5>1, <5>2
      <4>7. CASE k = i
        <5>1. task_partition[i] = 0
          BY <1>4, <1>5, <2>8 DEF PlacedNow
        <5>2. SlotsOf(i)' = 1..slots_count[found]
          BY <1>1, <2>3 DEF SlotsOf
        <5>3. b \in 1..slots_count[found] => ~BitsMade(step', i, b)
          BY <1>4, <2>2, <2>5 DEF BitsMade
        <5> QED
          BY <4>1, <4>2, <4>3, <4>7, <5>1, <5>2, <5>3
      <4> QED
        BY <4>5, <4>6, <4>7
    <3>3. CASE r[1] = "bits"
      <4>1. \E k \in Lines(TaskFiles), b \in SlotNumbers : r = Bits(k, b)
        BY <3>3, WholeKinds, KindIs DEF BaseKinds
      <4> QED
        BY <3>2, <4>1
    <3> QED
      BY <3>1, <3>3
  <2>15. \A x \in Objects :
         mem'[x] = IF \E z \in {step} : x \in ToSet(Acquired(z)) THEN "live" ELSE mem[x]
    BY <2>1, <2>13
  <2>16. Phase(step) <= 12 /\ Phase(step') <= 13 /\ step'[1] # "register" /\ {step} \in SUBSET Whole
    BY <1>4, <2>5, <2>13
  <2> QED
    BY <1>10, <1>11, <1>12, <2>1, <2>6, <2>9, <2>10, <2>12, <2>14, <2>15, <2>16, Advances
<1> QED
  BY <1>1, <1>3, <1>13, <1>14 DEF found

LEMMA LoadBitsKeeps ==
    ASSUME StartInv, LoadBits
    PROVE  StartInv'
<1>1. step[1] = "bits" /\ UNCHANGED layout /\ FilesGiven
  BY DEF LoadBits, StartInv, TypesOK
<1>2. PICK i \in TaskNumbers : task_partition[i] # 0 /\ \E s \in SlotsOf(i) : step = Bits(i, s)
  BY <1>1, StepIs DEF StartInv
<1>3. PICK s \in SlotsOf(i) : step = Bits(i, s)
  BY <1>2
<1> DEFINE n == slots_count[task_partition[i]]
<1>4. step[2] = i /\ step[3] = s
  BY <1>3, KindIs
<1>5. CASE \E xs, own : FailsFreeing(xs, own)
  BY <1>1, <1>5, FailsEnds
<1>6. CASE Creates({step}, BitsStep(i, s + 1, n))
  <2>1. step' = BitsStep(i, s + 1, n) /\ UNCHANGED files
    BY <1>6 DEF Creates
  <2>2. n \in Nat /\ 1..n \subseteq SlotNumbers /\ s \in 1..n
    <3>1. task_partition[i] \in 1..Len(ArchLines) /\ task_partition[i] \in PartitionNumbers
      BY <1>1, <1>2, FileFacts DEF StartInv, TypesOK, PartitionNumbers
    <3>2. n \in 0..(MaxSlots - 1)
      BY <1>1, <3>1, FileFacts DEF StartInv, TypesOK
    <3>3. n <= SlotsWanted(task_partition[i])
      BY <3>1 DEF StartInv, CountedUp
    <3>4. MaxSlots \in Nat
      BY StartupConstantsOK
    <3>5. SlotsWanted(task_partition[i]) \in Nat
          /\ 1..SlotsWanted(task_partition[i]) \subseteq SlotNumbers
      BY <1>1, <3>1, FileFacts
    <3> QED
      BY <3>2, <3>3, <3>4, <3>5 DEF SlotsOf
  <2>3. s \in Nat \ {0} /\ s + 1 \in 1..(n + 1)
    BY <2>2
  <2>4. Phase(step) = 10 /\ TasksUpTo(step, i, i + 1, s)
    BY <1>1, <1>3, <2>3, AtTasks
  <2>5. Phase(step') = 10 /\ TasksUpTo(step', i, i + 1, s + 1)
        /\ ((s + 1 \in SlotsOf(i) /\ step' = Bits(i, s + 1)) \/ step' = <<"config", i>>)
    BY <1>1, <2>1, <2>2, <2>3, AfterBits
  <2>6. StepOK'
    <3>1. TaskNumbers' = TaskNumbers /\ SlotsOf(i)' = SlotsOf(i) /\ task_partition' = task_partition
      BY <1>1, <2>1, SameFiles DEF SlotsOf, layout
    <3> QED
      BY <1>2, <2>5, <3>1 DEF StepOK
  <2>7. \A k \in TaskNumbers : k \in Nat
    BY <1>1, FileFacts
  <2>8. TasksGained({step}, i, i + 1, s, i, i + 1, s + 1)
    <3>1. \A k \in TaskNumbers : HwTask(k) \notin {step}
      BY <1>1, KindIs
    <3>2. \A k, b : Bits(k, b) \in {step} <=> k = i /\ b = s
      BY <1>3, KindIs
    <3>3. \A k : \A b \in SlotsOf(k) : b \in Int
      BY DEF SlotsOf
    <3> QED
      BY <1>1, <1>2, <1>3, <1>4, <2>3, <2>7, <3>1, <3>2, <3>3 DEF TasksGained
  <2>9. /\ \A r \in Whole : Made(step', r) <=> Made(step, r) \/ r \in {step}
        /\ \A p \in PartitionNumbers : TimersMade(step', p) = TimersMade(step, p)
    BY <2>4, <2>5, <2>8, TaskStepMakes
  <2>10. \A k \in TaskNumbers : /\ TaskMade(step', k) <=> TaskMade(step, k)
                                /\ ConfigMade(step', k) <=> ConfigMade(step, k)
    BY <2>4, <2>5 DEF TasksUpTo
  <2>11. step \in Whole /\ Acquired(step) = <<step>> /\ ToSet(Acquired(step)) = {step}
    <3>1. step \in Whole
      BY <1>1, <1>3, <2>2, MadeObjects
    <3>2. step \in Objects /\ step \notin Parts /\ step \notin Slots /\ step \notin FdOwners
          /\ step # <<"devcfg">>
      BY <1>1, <3>1, OwnerKinds DEF Whole
    <3>3. Acquired(step) = <<step>>
      BY <3>2, AloneLists
    <3>4. ToSet(<<step>>) = {step}
      BY <3>2, OneList DEF IsList
    <3> QED
      BY <3>1, <3>3, <3>4
  <2>12. step'[1] # "register"
    BY <2>5, PhaseIs
  <2>13. Creates(ToSet(Acquired(step)), step')
    BY <1>6, <2>1, <2>11
  <2> QED
    BY <1>1, <2>4, <2>5, <2>6, <2>9, <2>10, <2>11, <2>12, <2>13, AdvancesBy
<1> QED
  BY <1>4, <1>5, <1>6 DEF LoadBits

LEMMA ConfigureTaskKeeps ==
    ASSUME StartInv, ConfigureTask
    PROVE  StartInv'
<1>1. step[1] = "config" /\ FilesGiven
      /\ UNCHANGED <<files, mem, slots_count, partition, task_partition, sources, chain, misuse>>
      /\ step' = TaskStep(step[2] + 1)
  BY DEF ConfigureTask, StartInv, TypesOK
<1>2. PICK i \in TaskNumbers : task_partition[i] # 0 /\ step = <<"config", i>>
  BY <1>1, StepIs DEF StartInv
<1>3. step[2] = i
  BY <1>2
<1>4. i \in Lines(TaskFiles) /\ TaskNumbers \subseteq Lines(TaskFiles) /\ Len(TaskLines) \in Nat
      /\ \A k \in TaskNumbers : k \in Nat \ {0}
  BY <1>1, FileFacts
<1>5. PICK c \in ConfigsOf(i) : task_config' = [task_config EXCEPT ![i] = c]
  BY <1>3 DEF ConfigureTask, ConfigsOf
<1>6. i + 1 \in 1..(Len(TaskLines) + 1)
  BY <1>4 DEF TaskNumbers
<1>7. /\ Phase(step') \in {10, 11} /\ TasksUpTo(step', i + 1, i + 1, 1)
      /\ (i + 1 \in TaskNumbers /\ step' = HwTask(i + 1)) \/ step' = FrontEnd
  BY <1>1, <1>3, <1>6, AfterTasks
<1>8. slots_count[task_partition[i]] \in Nat
  <2>1. task_partition[i] \in 1..Len(ArchLines) /\ task_partition[i] \in PartitionNumbers
    BY <1>1, <1>2, FileFacts DEF StartInv, TypesOK, PartitionNumbers
  <2>2. slots_count[task_partition[i]] \in 0..(MaxSlots - 1)
    BY <1>1, <2>1, FileFacts DEF StartInv, TypesOK
  <2> QED
    BY <2>2, StartupConstantsOK
<1> DEFINE u == slots_count[task_partition[i]] + 1
<1>9. Phase(step) = 10 /\ TasksUpTo(step, i, i + 1, u)
  <2>1. u \in Nat \ {0} /\ u > slots_count[task_partition[i]]
    BY <1>8
  <2> HIDE DEF u
  <2> QED
    BY <1>1, <1>2, <1>8, <2>1, AtTasks
<1>10. TasksGained({}, i, i + 1, u, i + 1, i + 1, 1)
  <2>1. ASSUME NEW k \in TaskNumbers, NEW b \in SlotsOf(k)
        PROVE  k < i + 1 \/ (k = i + 1 /\ b < 1) <=> k < i \/ (k = i /\ b < u)
    <3>1. b \in Int /\ ~(b < 1) /\ (k = i => b < u)
      BY <1>8 DEF SlotsOf
    <3> HIDE DEF u
    <3> QED
      BY <1>4, <3>1
  <2> QED
    BY <2>1 DEF TasksGained
<1>11. /\ \A r \in Whole : Made(step', r) <=> Made(step, r) \/ r \in {}
       /\ \A p \in PartitionNumbers : TimersMade(step', p) = TimersMade(step, p)
  <2> HIDE DEF u
  <2> QED
    BY <1>7, <1>9, <1>10, TaskStepMakes
<1>12. /\ \A k \in TaskNumbers : TaskMade(step', k) <=> TaskMade(step, k)
       /\ \A k \in TaskNumbers : ConfigMade(step', k) <=> ConfigMade(step, k) \/ k = i
  BY <1>4, <1>7, <1>9 DEF TasksUpTo
<1>13. CountedNow /\ PlacedNow /\ ConfigsNow /\ TypesOK /\ CountedUp /\ PlacedWell
  BY <1>9 DEF StartInv, StartsOK
<1>14. TypesOK'
  BY <1>1, <1>5, <1>13, SameFiles DEF TypesOK
<1>15. CountedUp' /\ PlacedWell'
  BY <1>1, <1>13, SameFiles DEF CountedUp, PlacedWell
<1>16. CountedNow'
  BY <1>1, <1>11, <1>13, SameFiles, TimersMadeSame DEF CountedNow
<1>17. PlacedNow'
  BY <1>1, <1>12, <1>13, SameFiles DEF PlacedNow
<1>18. ConfigsNow'
  <2>1. ASSUME NEW k \in TaskNumbers, ConfigMade(step', k) PROVE task_config'[k] \in ConfigsOf(k)
    <3>1. CASE k = i
      BY <1>4, <1>5, <1>13, <3>1 DEF TypesOK
    <3>2. CASE k # i
      BY <1>4, <1>5, <1>12, <1>13, <2>1, <3>2 DEF TypesOK, ConfigsNow
    <3> QED
      BY <3>1, <3>2
  <2> QED
    BY <1>1, <2>1, SameFiles DEF ConfigsNow
<1>19. StepOK'
  BY <1>1, <1>7, StepOKIf
<1>20. \A x \in Objects : mem'[x] = IF \E z \in {} : x \in ToSet(Acquired(z)) THEN "live" ELSE mem[x]
  BY <1>1
<1>21. \A r \in Whole : Made(step, r)' <=> Made(step, r) \/ r \in {}
  BY <1>1, <1>11, MadeSame
<1>22. Phase(step) <= 12 /\ Phase(step') <= 13 /\ step'[1] # "register" /\ {} \in SUBSET Whole
  BY <1>7, <1>9, PhaseIs
<1> QED
  BY <1>1, <1>14, <1>15, <1>16, <1>17, <1>18, <1>19, <1>20, <1>21, <1>22, Advances

LEMMA CrashesKeep ==
    ASSUME StartInv, TimerfdFails \/ CrashOnTask \/ LoadUnmapped
    PROVE  StartInv'
  BY CrashEnds DEF TimerfdFails, CrashOnTask, LoadUnmapped

-----------------------------------------------------------------------------
(* The front end and the signal receiver. *)

\* Once the files are read, what is made are the front end, then the signal receiver.
LEMMA LateMade ==
    ASSUME NEW st, NEW su, Phase(st) > 10, Phase(su) > 10
    PROVE  /\ \A p : TimersMade(su, p) = TimersMade(st, p)
           /\ \A i : TaskMade(st, i) /\ TaskMade(su, i) /\ ConfigMade(st, i) /\ ConfigMade(su, i)
           /\ \A r \in Whole : r \notin {FrontEnd, Signals} => (Made(su, r) <=> Made(st, r))
           /\ Made(st, FrontEnd) <=> Phase(st) > 11
           /\ Made(st, Signals) <=> Phase(st) > 12
<1>1. \A p, s : /\ PartitionMade(st, p) /\ SlotMade(st, p, s) /\ TimerMade(st, p, s)
                /\ PartitionMade(su, p) /\ SlotMade(su, p, s) /\ TimerMade(su, p, s)
                /\ TimersMade(st, p) = SlotsWanted(p) /\ TimersMade(su, p) = SlotsWanted(p)
  BY PhaseIs DEF PartitionMade, SlotMade, TimerMade, TimersMade
<1>2. \A i, s : /\ TaskMade(st, i) /\ TaskMade(su, i) /\ ConfigMade(st, i) /\ ConfigMade(su, i)
                /\ BitsMade(st, i, s) /\ BitsMade(su, i, s)
  BY DEF TaskMade, ConfigMade, BitsMade
<1>3. FrontEnd = <<"front">> /\ Signals = <<"signals">> /\ Phase(FrontEnd) = 11 /\ Phase(Signals) = 12
  BY KindIs, PhaseIs DEF FrontEnd, Signals
<1>4. (Made(st, FrontEnd) <=> Phase(st) > 11) /\ (Made(st, Signals) <=> Phase(st) > 12)
  <2>1. /\ Made(st, <<"front">>) <=> Phase(<<"front">>) < Phase(st)
        /\ Made(st, <<"signals">>) <=> Phase(<<"signals">>) < Phase(st)
    BY MadeIs DEF BaseKinds
  <2> QED
    BY <1>3, <2>1
<1>5. ASSUME NEW b \in BaseKinds, <<b>> \notin {FrontEnd, Signals}
      PROVE  Made(su, <<b>>) <=> Made(st, <<b>>)
  <2>1. Phase(<<b>>) <= 6
    BY <1>3, <1>5, KindIs, PhaseIs DEF BaseKinds
  <2>2. /\ Made(st, <<b>>) <=> Phase(<<b>>) < Phase(st)
        /\ Made(su, <<b>>) <=> Phase(<<b>>) < Phase(su)
    BY MadeIs
  <2>3. Phase(<<b>>) \in Int /\ Phase(st) \in Int /\ Phase(su) \in Int
    BY PhaseIs
  <2> QED
    BY <2>1, <2>2, <2>3
<1>6. /\ Made(su, ArchTokens) /\ Made(st, ArchTokens)
      /\ Made(su, TaskTokens) /\ Made(st, TaskTokens)
  BY PhaseIs, MadeIs
<1>7. ASSUME NEW p, NEW s
      PROVE  /\ Made(su, Partition(p)) <=> Made(st, Partition(p))
             /\ Made(su, Slot(p, s)) <=> Made(st, Slot(p, s))
             /\ Made(su, Timer(p, s)) <=> Made(st, Timer(p, s))
  <2>1. \A z \in {st, su} :
           /\ Made(z, Partition(p)) <=> p \in PartitionNumbers /\ PartitionMade(z, p)
           /\ Made(z, Slot(p, s)) <=> p \in PartitionNumbers /\ s \in 1..SlotsWanted(p)
              /\ SlotMade(z, p, s)
           /\ Made(z, Timer(p, s)) <=> p \in PartitionNumbers /\ s \in 1..SlotsWanted(p)
              /\ TimerMade(z, p, s)
    BY MadeIs
  <2> QED
    BY <1>1, <2>1
<1>8. ASSUME NEW i, NEW s
      PROVE  /\ Made(su, HwTask(i)) <=> Made(st, HwTask(i))
             /\ Made(su, Bits(i, s)) <=> Made(st, Bits(i, s))
  <2>1. \A z \in {st, su} :
           /\ Made(z, HwTask(i)) <=> i \in TaskNumbers /\ TaskMade(z, i)
           /\ Made(z, Bits(i, s)) <=> i \in TaskNumbers /\ task_partition[i] # 0 /\ s \in SlotsOf(i)
              /\ BitsMade(z, i, s)
    BY MadeIs
  <2> QED
    BY <1>2, <2>1
<1>9. ASSUME NEW r \in Whole, r \notin {FrontEnd, Signals}
      PROVE  Made(su, r) <=> Made(st, r)
  <2>1. CASE \E b \in BaseKinds : r = <<b>>
    BY <1>5, <1>9, <2>1
  <2>2. CASE r \in {ArchTokens, TaskTokens}
    BY <1>6, <2>2
  <2>3. CASE \E p \in Lines(ArchFiles) : r = Partition(p)
    BY <1>7, <2>3
  <2>4. CASE \E p \in Lines(ArchFiles), s \in SlotNumbers : r = Slot(p, s) \/ r = Timer(p, s)
    BY <1>7, <2>4
  <2>5. CASE \E i \in Lines(TaskFiles) : r = HwTask(i)
    BY <1>8, <2>5
  <2>6. CASE \E i \in Lines(TaskFiles), s \in SlotNumbers : r = Bits(i, s)
    BY <1>8, <2>6
  <2> QED
    BY <2>1, <2>2, <2>3, <2>4, <2>5, <2>6, WholeKinds
<1> QED
  BY <1>1, <1>2, <1>4, <1>9

LEMMA CreateFrontKeeps ==
    ASSUME StartInv, CreateListener \/ CreateCyclicClient
    PROVE  StartInv'
<1>1. step = FrontEnd /\ UNCHANGED layout /\ FilesGiven
  BY DEF CreateListener, CreateCyclicClient, StartInv, TypesOK
<1>2. Creates(ToSet(Acquired(FrontEnd)), Signals) \/ \E xs, own : FailsFreeing(xs, own)
  BY ConstructsIs, FailsIs DEF CreateListener, CreateCyclicClient
<1>3. CASE \E xs, own : FailsFreeing(xs, own)
  BY <1>1, <1>3, FailsEnds
<1>4. CASE Creates(ToSet(Acquired(FrontEnd)), Signals)
  <2>1. step' = Signals /\ UNCHANGED files
    BY <1>4 DEF Creates
  <2>2. Phase(step) = 11 /\ Phase(step') = 12 /\ step'[1] # "register" /\ FrontEnd # Signals
    BY <1>1, <2>1, KindIs, PhaseIs DEF FrontEnd, Signals
  <2>3. StepOK'
    BY <1>1, <2>1, StepOKIf
  <2>4. \A r \in Whole : Made(step', r) <=> Made(step, r) \/ r = FrontEnd
    <3>1. /\ ~Made(step, FrontEnd) /\ ~Made(step, Signals)
      BY <2>2, LateMade
    <3>2. Made(step', FrontEnd) /\ ~Made(step', Signals)
      BY <2>2, LateMade
    <3>3. \A r \in Whole : r \notin {FrontEnd, Signals} => (Made(step', r) <=> Made(step, r))
      BY <2>2, LateMade
    <3> QED
      BY <2>2, <3>1, <3>2, <3>3
  <2>5. /\ \A p \in PartitionNumbers : TimersMade(step', p) = TimersMade(step, p)
        /\ \A i \in TaskNumbers : /\ TaskMade(step', i) <=> TaskMade(step, i)
                                  /\ ConfigMade(step', i) <=> ConfigMade(step, i)
    BY <2>2, LateMade
  <2>6. FrontEnd \in Whole
    BY <1>1, MadeObjects
  <2>7. Creates(ToSet(Acquired(FrontEnd)), step')
    BY <1>4, <2>1
  <2> QED
    BY <1>1, <2>2, <2>3, <2>4, <2>5, <2>6, <2>7, AdvancesBy
<1> QED
  BY <1>2, <1>3, <1>4

-----------------------------------------------------------------------------
(* What is registered, and the table of the reactor. *)

Entries == [handler : Objects, owned : BOOLEAN]
Differ == {ab \in Entries \X Entries : ab[1].handler # ab[2].handler}

\* As IsList, for entries of the reactor's table.
AreEntries(s, S) == s \in Seq(Entries) /\ ToSet(s) = S /\ Pairwise(s, Differ)

LEMMA EntriesConcat ==
    ASSUME NEW s, NEW t, NEW S, NEW T, AreEntries(s, S), AreEntries(t, T),
           \A a \in S, b \in T : <<a, b>> \in Differ
    PROVE  AreEntries(s \o t, S \cup T)
<1>1. s \in Seq(Entries) /\ t \in Seq(Entries) /\ ToSet(s) = S /\ ToSet(t) = T
      /\ Pairwise(s, Differ) /\ Pairwise(t, Differ)
  BY DEF AreEntries
<1>2. s \o t \in Seq(Entries) /\ ToSet(s \o t) = S \cup T
  BY <1>1, ConcatSet
<1>3. Pairwise(s \o t, Differ)
  BY <1>1, ConcatPairwise
<1> QED
  BY <1>2, <1>3 DEF AreEntries

LEMMA EntriesTwo ==
    ASSUME NEW a \in Entries, NEW b \in Entries, a.handler # b.handler
    PROVE  AreEntries(<<a, b>>, {a, b})
<1>1. <<a, b>> \in Seq(Entries) /\ ToSet(<<a, b>>) = {a, b}
  BY DEF ToSet
<1>2. Pairwise(<<a, b>>, Differ)
  BY DEF Pairwise, Differ
<1> QED
  BY <1>1, <1>2 DEF AreEntries

LEMMA EntriesOne ==
    ASSUME NEW a \in Entries
    PROVE  AreEntries(<<a>>, {a})
<1>1. <<a>> \in Seq(Entries) /\ ToSet(<<a>>) = {a}
  BY DEF ToSet
<1>2. Pairwise(<<a>>, Differ)
  BY DEF Pairwise
<1> QED
  BY <1>1, <1>2 DEF AreEntries

LEMMA SourceIs ==
    ASSUME NEW x \in Objects, NEW o \in BOOLEAN
    PROVE  Source(x, o) \in Entries /\ Source(x, o).handler = x /\ Source(x, o).owned = o
  BY DEF Source, Entries

LEMMA EntriesFlatten ==
    ASSUME NEW ss \in Seq(Seq(Entries)), NEW S,
           \A i \in 1..Len(ss) : AreEntries(ss[i], S[i]),
           \A i, j \in 1..Len(ss) : i < j => \A a \in S[i], b \in S[j] : <<a, b>> \in Differ
    PROVE  AreEntries(FlattenSeq(ss), UNION {S[i] : i \in 1..Len(ss)})
<1>1. \A i \in 1..Len(ss) : ToSet(ss[i]) = S[i] /\ Pairwise(ss[i], Differ)
  BY DEF AreEntries
<1>2. \A i, j \in 1..Len(ss) : i < j => \A a \in ToSet(ss[i]), b \in ToSet(ss[j]) : <<a, b>> \in Differ
  BY <1>1
<1>3. FlattenSeq(ss) \in Seq(Entries) /\ ToSet(FlattenSeq(ss)) = UNION {ToSet(ss[i]) : i \in 1..Len(ss)}
  BY FlattenHolds
<1>4. Pairwise(FlattenSeq(ss), Differ)
  BY <1>1, <1>2, FlattenPairwise
<1>5. UNION {ToSet(ss[i]) : i \in 1..Len(ss)} = UNION {S[i] : i \in 1..Len(ss)}
  BY <1>1
<1> QED
  BY <1>3, <1>4, <1>5 DEF AreEntries

\* The slots that partition p has, and what it registers for them.
SlotsIn(p) == 1..slots_count[p]
SlotPairs(p, s) == {Source(Slot(p, s), FALSE), Source(Timer(p, s), FALSE)}
PartitionEntries(p) == UNION {SlotPairs(p, s) : s \in SlotsIn(p)}
AllEntries ==
    ({Source(Signals, TRUE), Source(<<"devcfg">>, FALSE)}
     \cup UNION {PartitionEntries(p) : p \in PartitionNumbers}) \cup {Source(FrontEnd, TRUE)}

\* The slots a partition has are those of its line.
LEMMA SlotsInIs ==
    ASSUME TypesOK, CountedUp, NEW p \in PartitionNumbers
    PROVE  /\ slots_count[p] \in Nat /\ slots_count[p] <= MaxSlots - 1
           /\ SlotsIn(p) \subseteq 1..SlotsWanted(p) /\ SlotsIn(p) \subseteq SlotNumbers
<1>1. FilesGiven /\ p \in Lines(ArchFiles)
  BY FileFacts DEF TypesOK
<1>2. slots_count[p] \in 0..(MaxSlots - 1) /\ MaxSlots \in Nat
  BY <1>1, StartupConstantsOK DEF TypesOK
<1>3. SlotsWanted(p) \in Nat /\ 1..SlotsWanted(p) \subseteq SlotNumbers
  BY <1>1, FileFacts
<1>4. slots_count[p] <= SlotsWanted(p)
  BY DEF CountedUp
<1> QED
  BY <1>2, <1>3, <1>4 DEF SlotsIn

LEMMA PartitionSourcesAre ==
    ASSUME TypesOK, CountedUp, NEW p \in PartitionNumbers
    PROVE  AreEntries(PartitionSources(p), PartitionEntries(p))
<1> DEFINE n == slots_count[p]
           ss == [s \in 1..n |-> <<Source(Slot(p, s), FALSE), Source(Timer(p, s), FALSE)>>]
           S == [s \in 1..n |-> SlotPairs(p, s)]
<1>1. n \in Nat /\ 1..n \subseteq SlotNumbers /\ p \in Lines(ArchFiles)
  BY SlotsInIs, FileFacts DEF TypesOK, SlotsIn
<1>2. ASSUME NEW s \in 1..n
      PROVE  /\ Source(Slot(p, s), FALSE) \in Entries /\ Source(Slot(p, s), FALSE).handler = Slot(p, s)
             /\ Source(Timer(p, s), FALSE) \in Entries /\ Source(Timer(p, s), FALSE).handler = Timer(p, s)
  <2>1. Slot(p, s) \in Objects /\ Timer(p, s) \in Objects
    BY <1>1, WholeObjects
  <2> QED
    BY <2>1, SourceIs
<1>3. ASSUME NEW s \in 1..n PROVE AreEntries(ss[s], S[s])
  <2>1. Slot(p, s) # Timer(p, s)
    BY KindIs
  <2> QED
    BY <1>2, <2>1, EntriesTwo DEF SlotPairs
<1>4. ss \in Seq(Seq(Entries)) /\ Len(ss) = n
  <2>1. \A s \in 1..n : ss[s] \in Seq(Entries)
    BY <1>3 DEF AreEntries
  <2>2. ss \in [1..n -> Seq(Entries)]
    BY <2>1
  <2> HIDE DEF ss
  <2>3. ss \in Seq(Seq(Entries))
    BY <1>1, <2>2, SeqDef
  <2> QED
    BY <1>1, <2>2, <2>3
<1>5. ASSUME NEW s \in 1..n, NEW t \in 1..n, s < t, NEW a \in S[s], NEW b \in S[t]
      PROVE  <<a, b>> \in Differ
  <2>1. a \in Entries /\ a.handler \in {Slot(p, s), Timer(p, s)}
    BY <1>2 DEF SlotPairs
  <2>2. b \in Entries /\ b.handler \in {Slot(p, t), Timer(p, t)}
    BY <1>2 DEF SlotPairs
  <2>3. a.handler # b.handler
    BY <1>5, <2>1, <2>2, KindIs
  <2> QED
    BY <2>1, <2>2, <2>3 DEF Differ
<1>6. AreEntries(FlattenSeq(ss), UNION {S[i] : i \in 1..Len(ss)})
  <2>1. \A i \in 1..Len(ss) : AreEntries(ss[i], S[i])
    BY <1>3, <1>4
  <2>2. \A i, j \in 1..Len(ss) : i < j => \A a \in S[i], b \in S[j] : <<a, b>> \in Differ
    BY <1>4, <1>5
  <2> HIDE DEF ss, S
  <2> QED
    BY <1>4, <2>1, <2>2, EntriesFlatten
<1>7. UNION {S[i] : i \in 1..Len(ss)} = PartitionEntries(p)
  BY <1>4 DEF PartitionEntries, SlotsIn
<1>8. FlattenSeq(ss) = PartitionSources(p)
  BY DEF PartitionSources
<1> QED
  BY <1>6, <1>7, <1>8

\* The handlers of a partition's entries.
LEMMA PartitionHandlers ==
    ASSUME TypesOK, CountedUp, NEW p \in PartitionNumbers, NEW e \in PartitionEntries(p)
    PROVE  /\ e \in Entries /\ ~e.owned /\ e.handler \in Whole
           /\ \E s \in SlotsIn(p) : e.handler = Slot(p, s) \/ e.handler = Timer(p, s)
           /\ e.handler[1] \in {"slot", "timer"} /\ e.handler[2] = p
<1>1. PICK s \in SlotsIn(p) : e \in SlotPairs(p, s)
  BY DEF PartitionEntries
<1>2. Slot(p, s) \in Whole /\ Timer(p, s) \in Whole
  BY SlotsInIs, MadeObjects DEF TypesOK
<1>3. Slot(p, s) \in Objects /\ Timer(p, s) \in Objects
  BY <1>2 DEF Whole
<1>4. /\ Source(Slot(p, s), FALSE) \in Entries /\ Source(Slot(p, s), FALSE).handler = Slot(p, s)
      /\ Source(Timer(p, s), FALSE) \in Entries /\ Source(Timer(p, s), FALSE).handler = Timer(p, s)
      /\ ~Source(Slot(p, s), FALSE).owned /\ ~Source(Timer(p, s), FALSE).owned
  BY <1>3, SourceIs
<1>5. e \in Entries /\ ~e.owned /\ e.handler \in {Slot(p, s), Timer(p, s)}
  BY <1>1, <1>4 DEF SlotPairs
<1> QED
  BY <1>2, <1>5, KindIs

\* What is registered: no handler twice.
LEMMA RegistrationsAre ==
    ASSUME TypesOK, CountedUp
    PROVE  /\ AreEntries(Registrations, AllEntries)
           /\ Len(Registrations) \in Nat \ {0}
           /\ Registrations[1] = Source(Signals, TRUE)
           /\ Registrations[Len(Registrations)] = Source(FrontEnd, TRUE)
<1> DEFINE n == Len(ArchLines)
           ss == [p \in 1..n |-> PartitionSources(p)]
           S == [p \in 1..n |-> PartitionEntries(p)]
           f == FlattenSeq(ss)
           a == Source(Signals, TRUE)
           b == Source(<<"devcfg">>, FALSE)
           c == Source(FrontEnd, TRUE)
<1>1. n \in Nat /\ PartitionNumbers = 1..n /\ FilesGiven
  BY FileFacts DEF TypesOK, PartitionNumbers
<1>2. ss \in Seq(Seq(Entries)) /\ Len(ss) = n
  <2>1. \A p \in 1..n : ss[p] \in Seq(Entries)
    BY <1>1, PartitionSourcesAre DEF AreEntries
  <2>2. ss \in [1..n -> Seq(Entries)]
    BY <2>1
  <2> HIDE DEF ss
  <2>3. ss \in Seq(Seq(Entries))
    BY <1>1, <2>2, SeqDef
  <2> QED
    BY <1>1, <2>2, <2>3
<1>3. AreEntries(f, UNION {S[i] : i \in 1..Len(ss)})
  <2>1. \A i \in 1..Len(ss) : AreEntries(ss[i], S[i])
    BY <1>1, <1>2, PartitionSourcesAre
  <2>2. ASSUME NEW i \in 1..Len(ss), NEW j \in 1..Len(ss), i < j, NEW x \in S[i], NEW y \in S[j]
        PROVE  <<x, y>> \in Differ
    <3>1. x \in Entries /\ x.handler[2] = i
      BY <1>1, <1>2, PartitionHandlers
    <3>2. y \in Entries /\ y.handler[2] = j
      BY <1>1, <1>2, PartitionHandlers
    <3> QED
      BY <1>1, <1>2, <2>2, <3>1, <3>2 DEF Differ
  <2>3. \A i, j \in 1..Len(ss) : i < j => \A x \in S[i], y \in S[j] : <<x, y>> \in Differ
    BY <2>2
  <2> HIDE DEF ss, S
  <2> QED
    BY <1>2, <2>1, <2>3, EntriesFlatten
<1>4. UNION {S[i] : i \in 1..Len(ss)} = UNION {PartitionEntries(p) : p \in PartitionNumbers}
  BY <1>1, <1>2
<1>5. /\ a \in Entries /\ a.handler = Signals /\ b \in Entries /\ b.handler = <<"devcfg">>
      /\ c \in Entries /\ c.handler = FrontEnd
  BY WholeObjects, OwnerKinds, SourceIs
<1>6. Signals[1] = "signals" /\ <<"devcfg">>[1] = "devcfg" /\ FrontEnd[1] = "front"
  BY KindIs
<1> HIDE DEF a, b, c, f, S, ss
<1>7. AreEntries(<<a, b>>, {a, b})
  BY <1>5, <1>6, EntriesTwo
<1>8. \A e \in UNION {PartitionEntries(p) : p \in PartitionNumbers} :
         e \in Entries /\ e.handler[1] \in {"slot", "timer"}
  BY PartitionHandlers
<1> DEFINE U == UNION {PartitionEntries(p) : p \in PartitionNumbers}
           g == <<a, b>> \o f
<1> HIDE DEF U
<1>9. AreEntries(g, {a, b} \cup U)
  <2>1. \A x \in {a, b}, y \in U : <<x, y>> \in Differ
    BY <1>5, <1>6, <1>8 DEF U, Differ
  <2>2. AreEntries(f, U)
    BY <1>3, <1>4 DEF U
  <2> QED
    BY <1>7, <2>1, <2>2, EntriesConcat
<1>10. AreEntries(<<c>>, {c})
  BY <1>5, EntriesOne
<1>11. Registrations = g \o <<c>>
  BY DEF Registrations, a, b, c, f, ss
<1>12. AllEntries = ({a, b} \cup U) \cup {c}
  BY DEF AllEntries, a, b, c, U
<1>13. Len(g) \in Nat /\ Len(g) >= 2 /\ g[1] = a /\ g \in Seq(Entries)
  BY <1>3, <1>5, <1>7 DEF AreEntries
<1> HIDE DEF g
<1>14. AreEntries(g \o <<c>>, ({a, b} \cup U) \cup {c})
  <2>1. \A x \in {a, b} \cup U, y \in {c} : <<x, y>> \in Differ
    BY <1>5, <1>6, <1>8 DEF U, Differ
  <2> QED
    BY <1>9, <1>10, <2>1, EntriesConcat
<1>15. /\ Len(g \o <<c>>) = Len(g) + 1 /\ (g \o <<c>>)[1] = a /\ (g \o <<c>>)[Len(g) + 1] = c
  BY <1>5, <1>13
<1>16. Len(Registrations) = Len(g) + 1 /\ Len(g) + 1 \in Nat \ {0}
  BY <1>11, <1>13, <1>15
<1>17. Registrations[1] = a /\ Registrations[Len(Registrations)] = c
  BY <1>11, <1>15, <1>16
<1>18. AreEntries(Registrations, AllEntries)
  BY <1>11, <1>12, <1>14
<1>19. Len(Registrations) \in Nat \ {0}
  BY <1>16
<1> QED
  BY <1>17, <1>18, <1>19 DEF a, c

LEMMA MinIs ==
    ASSUME NEW S \in SUBSET Nat, S # {}
    PROVE  Min(S) \in S /\ \A n \in S : Min(S) <= n
<1>1. \E n \in S : \A m \in S : n <= m
  BY LeastNatural
<1> QED
  BY <1>1 DEF Min

LEMMA NoneIsNoObject ==
    /\ <<"none">> \notin Objects
    /\ Inactive \notin Entries /\ Inactive.handler = <<"none">> /\ ~Inactive.owned
<1>1. <<"none">>[1] = "none"
  OBVIOUS
<1>2. \A x \in Objects : x[1] # "none"
  <2>1. ASSUME NEW x \in Objects, x \notin Parts PROVE x[1] # "none"
    BY <2>1, WholeCases, KindIs DEF OneOfAKind
  <2>2. ASSUME NEW x \in Parts PROVE x[1] # "none"
    BY PartOf
  <2> QED
    BY <2>1, <2>2
<1>3. Inactive.handler = <<"none">> /\ ~Inactive.owned
  BY DEF Inactive
<1>4. Inactive \notin Entries
  BY <1>1, <1>2, <1>3 DEF Entries
<1> QED
  BY <1>1, <1>2, <1>3, <1>4

\* The handlers that are registered.
LEMMA EntryKinds ==
    ASSUME TypesOK, CountedUp, NEW e \in AllEntries
    PROVE  /\ e \in Entries /\ e.handler \in Whole /\ e.handler \notin Clients /\ e # Inactive
           /\ e.owned <=> e.handler \in {Signals, FrontEnd}
<1>1. Signals \in Whole /\ <<"devcfg">> \in Whole /\ FrontEnd \in Whole
  BY MadeObjects DEF TypesOK, BaseKinds
<1>2. /\ Source(Signals, TRUE) \in Entries /\ Source(Signals, TRUE).handler = Signals
      /\ Source(Signals, TRUE).owned
      /\ Source(FrontEnd, TRUE) \in Entries /\ Source(FrontEnd, TRUE).handler = FrontEnd
      /\ Source(FrontEnd, TRUE).owned
      /\ Source(<<"devcfg">>, FALSE) \in Entries /\ Source(<<"devcfg">>, FALSE).handler = <<"devcfg">>
      /\ ~Source(<<"devcfg">>, FALSE).owned
  BY <1>1, SourceIs DEF Whole
<1>3. <<"devcfg">> # Signals /\ <<"devcfg">> # FrontEnd
  BY KindIs
<1>4. CASE e \in {Source(Signals, TRUE), Source(<<"devcfg">>, FALSE), Source(FrontEnd, TRUE)}
  <2>1. e \in Entries /\ e.handler \in Whole /\ (e.owned <=> e.handler \in {Signals, FrontEnd})
    BY <1>1, <1>2, <1>3, <1>4
  <2> QED
    BY <2>1, NoneIsNoObject, KindIs DEF Whole, Clients
<1>5. CASE \E p \in PartitionNumbers : e \in PartitionEntries(p)
  <2>1. e \in Entries /\ e.handler \in Whole /\ ~e.owned /\ e.handler[1] \in {"slot", "timer"}
    BY <1>5, PartitionHandlers
  <2>2. e.handler \notin {Signals, FrontEnd}
    BY <2>1, KindIs
  <2> QED
    BY <2>1, <2>2, NoneIsNoObject, KindIs DEF Whole, Clients
<1> QED
  BY <1>4, <1>5 DEF AllEntries

LEMMA RegistrationIs ==
    ASSUME TypesOK, CountedUp, NEW n \in 1..Len(Registrations)
    PROVE  Registrations[n] \in AllEntries
<1>1. Registrations \in Seq(Entries) /\ ToSet(Registrations) = AllEntries
  BY RegistrationsAre DEF AreEntries
<1> QED
  BY <1>1 DEF ToSet

LEMMA AddedIs ==
    ASSUME TypesOK, InactiveEntries # {}, NEW e \in Entries
    PROVE  \E m \in 1..MaxSources :
              /\ sources[m] = Inactive
              /\ \A k \in 1..MaxSources : k < m => sources[k] # Inactive
              /\ Added(e) = [sources EXCEPT ![m] = e]
              /\ Added(e) \in [1..MaxSources -> {Inactive} \cup Entries]
              /\ Added(e)[m] = e /\ \A k \in 1..MaxSources : k # m => Added(e)[k] = sources[k]
<1> DEFINE m == Min(InactiveEntries)
<1>1. sources \in [1..MaxSources -> {Inactive} \cup Entries]
  BY DEF TypesOK, Entries
<1>2. InactiveEntries = {k \in 1..MaxSources : sources[k] = Inactive}
  BY <1>1 DEF InactiveEntries
<1>3. m \in InactiveEntries /\ \A k \in InactiveEntries : m <= k
  <2>1. InactiveEntries \in SUBSET Nat
    BY <1>2
  <2> QED
    BY <2>1, MinIs
<1>4. Added(e) = [sources EXCEPT ![m] = e]
  BY DEF Added
<1> HIDE DEF m
<1>5. m \in 1..MaxSources /\ sources[m] = Inactive
  BY <1>2, <1>3
<1>6. \A k \in 1..MaxSources : k < m => sources[k] # Inactive
  BY <1>2, <1>3, <1>5
<1>7. Added(e) \in [1..MaxSources -> {Inactive} \cup Entries]
  BY <1>1, <1>4
<1>8. Added(e)[m] = e /\ \A k \in 1..MaxSources : k # m => Added(e)[k] = sources[k]
  BY <1>1, <1>4, <1>5
<1> QED
  BY <1>4, <1>5, <1>6, <1>7, <1>8

LEMMA CreateSignalsKeeps ==
    ASSUME StartInv, CreateSignals
    PROVE  StartInv'
<1>1. step = Signals /\ UNCHANGED layout /\ FilesGiven
  BY DEF CreateSignals, StartInv, TypesOK
<1>2. Creates(ToSet(Acquired(Signals)), <<"register", 1>>) \/ \E xs, own : FailsFreeing(xs, own)
  BY ConstructsIs DEF CreateSignals
<1>3. CASE \E xs, own : FailsFreeing(xs, own)
  BY <1>1, <1>3, FailsEnds
<1>4. CASE Creates(ToSet(Acquired(Signals)), <<"register", 1>>)
  <2>1. step' = <<"register", 1>> /\ UNCHANGED files /\ step'[1] = "register" /\ step'[2] = 1
    BY <1>4 DEF Creates
  <2>2. Phase(step) = 12 /\ Phase(step') = 13 /\ FrontEnd # Signals
    BY <1>1, <2>1, KindIs, PhaseIs
  <2>3. StepOK'
    <3>1. Registrations' = Registrations
      BY <1>1, <2>1, SameRegistrations DEF layout
    <3>2. Len(Registrations) \in Nat \ {0}
      BY RegistrationsAre DEF StartInv
    <3>3. 1 \in 1..Len(Registrations)
      BY <3>2
    <3> QED
      BY <2>1, <3>1, <3>3 DEF StepOK
  <2>4. \A r \in Whole : Made(step', r) <=> Made(step, r) \/ r = Signals
    <3>1. Made(step, FrontEnd) /\ ~Made(step, Signals)
      BY <2>2, LateMade
    <3>2. Made(step', FrontEnd) /\ Made(step', Signals)
      BY <2>2, LateMade
    <3>3. \A r \in Whole : r \notin {FrontEnd, Signals} => (Made(step', r) <=> Made(step, r))
      BY <2>2, LateMade
    <3> QED
      BY <2>2, <3>1, <3>2, <3>3
  <2>5. /\ \A p \in PartitionNumbers : TimersMade(step', p) = TimersMade(step, p)
        /\ \A i \in TaskNumbers : /\ TaskMade(step', i) <=> TaskMade(step, i)
                                  /\ ConfigMade(step', i) <=> ConfigMade(step, i)
    BY <2>2, LateMade
  <2>6. Signals \in Whole
    BY <1>1, MadeObjects
  <2>7. Creates(ToSet(Acquired(Signals)), step')
    BY <1>4, <2>1
  <2> QED
    BY <1>1, <2>1, <2>2, <2>3, <2>4, <2>5, <2>6, <2>7, AdvancesBy
<1> QED
  BY <1>2, <1>3, <1>4

\* Nothing is made any more: what the invariant says of layout and memory is unchanged.
LEMMA StillMade ==
    ASSUME StartInv, UNCHANGED <<files, layout, chain, misuse>>,
           Phase(step) \in {13, 14}, Phase(step') \in {13, 14},
           mem' \in [Objects -> {"none", "live", "freed"}],
           \A x \in Objects : x[1] # "client" => mem'[x] = mem[x],
           sources' \in [1..MaxSources -> {Inactive} \cup Entries]
    PROVE  TypesOK' /\ CountedUp' /\ PlacedWell' /\ CountedNow' /\ PlacedNow' /\ ConfigsNow'
           /\ MemoryNow'
<1>1. slots_count' = slots_count /\ partition' = partition /\ task_partition' = task_partition
      /\ task_config' = task_config
  BY DEF layout
<1>2. TypesOK /\ CountedUp /\ PlacedWell /\ CountedNow /\ PlacedNow /\ ConfigsNow /\ MemoryNow
  BY DEF StartInv, StartsOK
<1>3. /\ \A p : TimersMade(step', p) = TimersMade(step, p)
      /\ \A i : TaskMade(step', i) /\ TaskMade(step, i) /\ ConfigMade(step', i) /\ ConfigMade(step, i)
      /\ \A r \in Whole : Made(step', r) <=> Made(step, r)
  <2>1. Phase(step) > 10 /\ Phase(step') > 10
    OBVIOUS
  <2>2. Made(step, FrontEnd) /\ Made(step, Signals) /\ Made(step', FrontEnd) /\ Made(step', Signals)
    BY <2>1, LateMade
  <2> QED
    BY <2>1, <2>2, LateMade
<1>4. TypesOK'
  BY <1>1, <1>2, SameFiles DEF TypesOK, Entries
<1>5. CountedUp' /\ PlacedWell'
  BY <1>1, <1>2, SameFiles DEF CountedUp, PlacedWell
<1>6. CountedNow'
  BY <1>1, <1>2, <1>3, SameFiles, TimersMadeSame DEF CountedNow
<1>7. PlacedNow' /\ ConfigsNow'
  BY <1>1, <1>2, <1>3, SameFiles DEF PlacedNow, ConfigsNow
<1>8. MemoryNow'
  <2>1. ASSUME NEW x \in Objects, x[1] \notin {"client", "file", "mapping"}
        PROVE  mem'[x] = IF Made(step, Root(x))'
               /\ x \in ToSet(Acquired(Root(x))') THEN "live" ELSE "none"
    <3>1. Root(x) \in Whole
      BY <2>1, RootWhole
    <3>2. Made(step, Root(x))' <=> Made(step', Root(x))
      BY <1>1, MadeSame
    <3>3. Acquired(Root(x))' = Acquired(Root(x))
      BY SameFiles
    <3> QED
      BY <1>2, <1>3, <2>1, <3>1, <3>2, <3>3 DEF MemoryNow
  <2>2. ASSUME NEW x \in Objects, x[1] \in {"file", "mapping"}
        PROVE  mem'[x] = "none" /\ ~Made(step, Root(x))'
    <3>1. Root(x) = x /\ ~Made(step, x) /\ ~Made(step, x)'
      BY <2>2, HeldIs
    <3> QED
      BY <1>2, <2>2, <3>1 DEF MemoryNow
  <2> QED
    BY <1>2, <2>1, <2>2 DEF MemoryNow
<1> QED
  BY <1>4, <1>5, <1>6, <1>7, <1>8

LEMMA NoClientsSame ==
    ASSUME NoClients, mem' = mem
    PROVE  NoClients'
  BY DEF NoClients

\* Registration n takes entry n of the table.
LEMMA RegisterTakes ==
    ASSUME StartInv, NEW n \in 1..Len(Registrations), step = <<"register", n>>,
           InactiveEntries # {}
    PROVE  /\ n <= MaxSources
           /\ Added(Registrations[n]) \in [1..MaxSources -> {Inactive} \cup Entries]
           /\ \A k \in 1..MaxSources :
                 Added(Registrations[n])[k] = IF k <= n THEN Registrations[k] ELSE Inactive
<1>1. step[1] = "register" /\ step[2] = n /\ Phase(step) = 13
  BY PhaseIs
<1>2. TypesOK /\ CountedUp /\ TableNow /\ Filled = n - 1
  BY <1>1 DEF StartInv, StartsOK, Filled
<1>3. Registrations[n] \in Entries /\ \A k \in 1..Len(Registrations) : Registrations[k] # Inactive
  BY <1>2, RegistrationIs, EntryKinds
<1>4. Len(Registrations) \in Nat
  BY <1>2, RegistrationsAre
<1>5. PICK m \in 1..MaxSources :
              /\ sources[m] = Inactive
              /\ \A k \in 1..MaxSources : k < m => sources[k] # Inactive
              /\ Added(Registrations[n]) \in [1..MaxSources -> {Inactive} \cup Entries]
              /\ Added(Registrations[n])[m] = Registrations[n]
              /\ \A k \in 1..MaxSources : k # m => Added(Registrations[n])[k] = sources[k]
  BY <1>2, <1>3, AddedIs
<1>6. \A k \in 1..MaxSources : sources[k] = IF k <= n - 1 THEN Registrations[k] ELSE Inactive
  BY <1>1, <1>2, <1>4 DEF TableNow
<1>7. \A k \in 1..MaxSources : k <= n - 1 => sources[k] # Inactive
  BY <1>3, <1>4, <1>6
<1>8. m >= n
  BY <1>4, <1>5, <1>7
<1>9. m = n
  <2>1. n \in 1..MaxSources
    BY <1>4, <1>8, StartupConstantsOK
  <2> QED
    BY <1>4, <1>5, <1>6, <1>8, <2>1
<1>10. n <= MaxSources
  BY <1>4, <1>9, StartupConstantsOK
<1>11. ASSUME NEW k \in 1..MaxSources
       PROVE  Added(Registrations[n])[k] = IF k <= n THEN Registrations[k] ELSE Inactive
  <2>1. CASE k = n
    BY <1>4, <1>5, <1>9, <2>1
  <2>2. CASE k # n
    <3>1. Added(Registrations[n])[k] = sources[k]
      BY <1>5, <1>9, <2>2
    <3>2. k <= n - 1 <=> k <= n
      BY <1>4, <2>2
    <3> QED
      BY <1>6, <3>1, <3>2
  <2> QED
    BY <2>1, <2>2
<1> QED
  BY <1>5, <1>10, <1>11

LEMMA RegisterKeeps ==
    ASSUME StartInv, Register
    PROVE  StartInv'
<1>1. step[1] = "register" /\ UNCHANGED layout /\ slots_count' = slots_count
  BY DEF Register, layout
<1>2. PICK n \in 1..Len(Registrations) : step = <<"register", n>>
  BY <1>1, StepIs DEF StartInv
<1>3. step[2] = n
  BY <1>2
<1> DEFINE e == Registrations[n]
<1>4. \/ /\ InactiveEntries # {}
         /\ sources' = Added(e)
         /\ step' = IF n < Len(Registrations) THEN <<"register", n + 1>> ELSE <<"running">>
         /\ UNCHANGED <<files, mem, chain, misuse>>
      \/ /\ InactiveEntries # {}
         /\ sources' = Added(e)
         /\ StartFreeing(mem, ErrorChain(sources'))
      \/ Fails({})
  BY <1>3 DEF Register
<1>5. TypesOK /\ CountedUp /\ TableNow /\ NoClients /\ Phase(step) = 13
  BY <1>1, PhaseIs DEF StartInv, StartsOK
<1>6. Len(Registrations) \in Nat
  BY <1>5, RegistrationsAre
<1>7. CASE Fails({})
  BY <1>1, <1>7, FailsIs, FailsEnds
<1>8. ASSUME InactiveEntries # {}, sources' = Added(e)
      PROVE  /\ n <= MaxSources
             /\ sources' \in [1..MaxSources -> {Inactive} \cup Entries]
             /\ \A k \in 1..MaxSources : sources'[k] = IF k <= n THEN Registrations[k] ELSE Inactive
  BY <1>2, <1>8, RegisterTakes
<1>9. CASE InactiveEntries # {} /\ sources' = Added(e) /\ StartFreeing(mem, ErrorChain(sources'))
  <2>1. step' = <<"freeing">> /\ mem' = mem /\ UNCHANGED files
    BY <1>9 DEF StartFreeing
  <2>2. mem' \in [Objects -> {"none", "live", "freed"}]
    BY <1>5, <2>1 DEF TypesOK
  <2>3. sources' \in [1..MaxSources -> {Inactive} \cup [handler : Objects, owned : BOOLEAN]]
    BY <1>8, <1>9 DEF Entries
  <2> QED
    BY <1>1, <2>1, <2>2, <2>3, EndsHere
<1>10. CASE /\ InactiveEntries # {}
            /\ sources' = Added(e)
            /\ step' = IF n < Len(Registrations) THEN <<"register", n + 1>> ELSE <<"running">>
            /\ UNCHANGED <<files, mem, chain, misuse>>
  <2>1. /\ n <= MaxSources
        /\ sources' \in [1..MaxSources -> {Inactive} \cup Entries]
        /\ \A k \in 1..MaxSources : sources'[k] = IF k <= n THEN Registrations[k] ELSE Inactive
    BY <1>8, <1>10
  <2>2. Registrations' = Registrations
    BY <1>1, <1>10, SameRegistrations
  <2>3. \/ /\ n < Len(Registrations) /\ n + 1 \in 1..Len(Registrations) /\ step' = <<"register", n + 1>>
           /\ step'[1] = "register" /\ step'[2] = n + 1 /\ Phase(step') = 13
        \/ n = Len(Registrations) /\ step' = <<"running">> /\ step'[1] = "running" /\ Phase(step') = 14
    <3>1. CASE n < Len(Registrations)
      <4>1. step' = <<"register", n + 1>> /\ n + 1 \in 1..Len(Registrations)
        BY <1>6, <1>10, <3>1
      <4> QED
        BY <3>1, <4>1, PhaseIs
    <3>2. CASE ~(n < Len(Registrations))
      <4>1. step' = <<"running">> /\ n = Len(Registrations)
        BY <1>6, <1>10, <3>2
      <4> QED
        BY <4>1, PhaseIs
    <3> QED
      BY <3>1, <3>2
  <2>4. StepOK'
    BY <2>2, <2>3 DEF StepOK
  <2>5. /\ TypesOK' /\ CountedUp' /\ PlacedWell' /\ CountedNow' /\ PlacedNow' /\ ConfigsNow'
        /\ MemoryNow'
    <3>1. mem' \in [Objects -> {"none", "live", "freed"}] /\ mem' = mem
      BY <1>5, <1>10 DEF TypesOK
    <3>2. Phase(step) \in {13, 14} /\ Phase(step') \in {13, 14}
      BY <1>5, <2>3
    <3> QED
      BY <1>1, <1>10, <2>1, <3>1, <3>2, StillMade
  <2>6. NoClients'
    BY <1>5, <1>10, NoClientsSame
  <2>7. Filled' = n
    <3>1. CASE step'[1] = "register" /\ step'[2] = n + 1
      BY <3>1 DEF Filled
    <3>2. CASE step'[1] = "running" /\ n = Len(Registrations)
      BY <2>2, <3>2 DEF Filled
    <3> QED
      BY <2>3, <3>1, <3>2
  <2>8. TableNow'
    BY <2>1, <2>2, <2>7 DEF TableNow
  <2>9. StartsOK'
    BY <2>5, <2>6, <2>8 DEF StartsOK
  <2>10. ClientsKept'
    <3>1. \A k \in 1..MaxSources : sources'[k].handler \notin Clients
      <4>1. ASSUME NEW k \in 1..MaxSources PROVE sources'[k].handler \notin Clients
        <5>1. CASE k <= n
          <6>1. k \in 1..Len(Registrations) /\ sources'[k] = Registrations[k]
            BY <1>6, <2>1, <5>1
          <6> QED
            BY <1>5, <6>1, RegistrationIs, EntryKinds
        <5>2. CASE k > n
          <6>1. sources'[k] = Inactive
            BY <1>6, <2>1, <5>2
          <6>2. <<"none">> \notin Clients
            BY NoneIsNoObject, WholeObjects DEF Clients
          <6> QED
            BY <6>1, <6>2, NoneIsNoObject
        <5> QED
          BY <1>6, <5>1, <5>2
      <4> QED
        BY <4>1
    <3> QED
      BY <2>6, <3>1 DEF ClientsKept, NoClients
  <2> QED
    BY <2>4, <2>5, <2>9, <2>10 DEF StartInv
<1> QED
  BY <1>4, <1>7, <1>9, <1>10

-----------------------------------------------------------------------------
(* A running server, and every step of the invariant. *)

\* The clients' entries of a running server.
LEMMA ClientEntries ==
    ASSUME StartInv, step = <<"running">>
    PROVE  /\ Phase(step) = 14 /\ Filled = Len(Registrations) /\ Len(Registrations) \in Nat
           /\ TypesOK /\ CountedUp /\ TableNow /\ ClientsKept /\ step[1] = "running"
           /\ sources \in [1..MaxSources -> {Inactive} \cup Entries]
           /\ \A n \in 1..MaxSources : n <= Len(Registrations) => sources[n] # Inactive
              /\ sources[n].handler \notin Clients
<1>1. Phase(step) = 14 /\ step[1] = "running"
  BY KindIs, PhaseIs
<1>2. TypesOK /\ CountedUp /\ TableNow /\ ClientsKept /\ Filled = Len(Registrations)
  BY <1>1 DEF StartInv, StartsOK, Filled
<1>3. Len(Registrations) \in Nat
  BY <1>2, RegistrationsAre
<1>4. ASSUME NEW n \in 1..MaxSources, n <= Len(Registrations)
      PROVE  sources[n] # Inactive /\ sources[n].handler \notin Clients
  <2>1. sources[n] = Registrations[n] /\ n \in 1..Len(Registrations)
    BY <1>2, <1>3, <1>4 DEF TableNow
  <2> QED
    BY <1>2, <2>1, RegistrationIs, EntryKinds
<1>5. sources \in [1..MaxSources -> {Inactive} \cup Entries]
  BY <1>2 DEF TypesOK, Entries
<1> QED
  BY <1>1, <1>2, <1>3, <1>4, <1>5

LEMMA ClientIs ==
    ASSUME NEW x \in Objects
    PROVE  x \in Clients <=> x[1] = "client"
<1>1. \A k : Client(k)[1] = "client"
  BY KindIs
<1>2. CASE x \in Parts
  BY <1>1, <1>2, PartOf DEF Clients
<1>3. CASE x \notin Parts
  BY <1>1, <1>3, WholeCases, KindIs DEF Clients, OneOfAKind
<1> QED
  BY <1>2, <1>3

LEMMA ClientsDiffer ==
    \A j, k \in 1..MaxClients : Client(j) = Client(k) => j = k
<1>1. \A k : Client(k)[2] = k
  BY KindIs
<1> QED
  BY <1>1

\* A server that goes on running, with another table.
LEMMA RunsOn ==
    ASSUME StartInv, step = <<"running">>, UNCHANGED <<files, step, layout, chain, misuse>>,
           mem' \in [Objects -> {"none", "live", "freed"}],
           \A x \in Objects : x[1] # "client" => mem'[x] = mem[x],
           sources' \in [1..MaxSources -> {Inactive} \cup Entries],
           \A n \in 1..MaxSources :
              \/ sources'[n] = sources[n]
              \/ /\ n > Len(Registrations)
                 /\ sources'[n] = Inactive \/ (sources'[n].owned /\ sources'[n].handler \in Clients),
           ClientsKept'
    PROVE  StartInv'
<1>1. /\ Phase(step) = 14 /\ Filled = Len(Registrations) /\ Len(Registrations) \in Nat /\ TableNow
      /\ step[1] = "running"
  BY ClientEntries
<1>2. step' = step /\ slots_count' = slots_count
  BY DEF layout
<1>3. /\ TypesOK' /\ CountedUp' /\ PlacedWell' /\ CountedNow' /\ PlacedNow' /\ ConfigsNow'
      /\ MemoryNow'
  BY <1>1, <1>2, StillMade
<1>4. Registrations' = Registrations
  BY <1>2, SameRegistrations
<1>5. StepOK'
  BY <1>2 DEF StepOK
<1>6. Filled' = Filled
  BY <1>2, <1>4 DEF Filled
<1>7. TableNow'
  BY <1>1, <1>2, <1>4, <1>6 DEF TableNow
<1>8. StartsOK'
  <2>1. ~(Phase(step') < 14)
    BY <1>1, <1>2
  <2> QED
    BY <1>3, <1>7, <2>1 DEF StartsOK
<1> QED
  BY <1>3, <1>5, <1>8 DEF StartInv

LEMMA ConnectKeeps ==
    ASSUME StartInv, Connect
    PROVE  StartInv'
<1>1. step = <<"running">> /\ UNCHANGED layout
  BY DEF Connect
<1>2. PICK k \in 1..MaxClients :
          /\ \A j \in 1..MaxClients : mem[Client(j)] = "none" <=> j >= k
          /\ \/ /\ InactiveEntries # {}
                /\ mem' = [mem EXCEPT ![Client(k)] = "live"]
                /\ sources' = Added(Source(Client(k), TRUE))
                /\ UNCHANGED <<files, step, chain, misuse>>
             \/ /\ InactiveEntries # {}
                /\ Leaves([mem EXCEPT ![Client(k)] = "live"], Added(Source(Client(k), TRUE)))
             \/ Leaves([mem EXCEPT ![Client(k)] = "live"], sources)
  BY DEF Connect
<1> DEFINE c == Client(k)
           e == Source(c, TRUE)
           m == [mem EXCEPT ![c] = "live"]
<1>3. /\ Phase(step) = 14 /\ Len(Registrations) \in Nat /\ TypesOK /\ TableNow /\ ClientsKept
         /\ step[1] = "running"
      /\ sources \in [1..MaxSources -> {Inactive} \cup Entries]
      /\ \A n \in 1..MaxSources : n <= Len(Registrations) => sources[n] # Inactive
  BY <1>1, ClientEntries
<1>4. c \in Objects /\ c \in Clients /\ c[1] = "client" /\ e \in Entries /\ e.handler = c /\ e.owned
  BY WholeObjects, KindIs, SourceIs DEF Clients
<1> HIDE DEF e
<1>5. /\ m \in [Objects -> {"none", "live", "freed"}] /\ m[c] = "live"
      /\ \A x \in Objects : x # c => m[x] = mem[x]
  BY <1>3, <1>4 DEF TypesOK
<1> HIDE DEF m
<1>6. ASSUME NEW table \in [1..MaxSources -> {Inactive} \cup Entries], Leaves(m, table)
      PROVE  StartInv'
  <2>1. step' = <<"freeing">> /\ mem' = m /\ UNCHANGED files
        /\ sources' = [j \in DOMAIN table |-> IF table[j].owned THEN Inactive ELSE table[j]]
    BY <1>6 DEF Leaves, StartFreeing
  <2>2. sources' \in [1..MaxSources -> {Inactive} \cup [handler : Objects, owned : BOOLEAN]]
    BY <2>1 DEF Entries
  <2> QED
    BY <1>1, <1>5, <2>1, <2>2, EndsHere
<1>7. ASSUME InactiveEntries # {}
      PROVE  Added(e) \in [1..MaxSources -> {Inactive} \cup Entries]
  BY <1>3, <1>4, <1>7, AddedIs
<1>8. CASE InactiveEntries # {} /\ Leaves(m, Added(e))
  BY <1>6, <1>7, <1>8
<1>9. CASE Leaves(m, sources)
  BY <1>3, <1>6, <1>9
<1>10. CASE /\ InactiveEntries # {} /\ mem' = m /\ sources' = Added(e)
            /\ UNCHANGED <<files, step, chain, misuse>>
  <2>1. PICK q \in 1..MaxSources :
              /\ sources[q] = Inactive
              /\ sources' \in [1..MaxSources -> {Inactive} \cup Entries]
              /\ sources'[q] = e /\ \A n \in 1..MaxSources : n # q => sources'[n] = sources[n]
    BY <1>3, <1>4, <1>10, AddedIs
  <2>2. q > Len(Registrations)
    BY <1>3, <2>1
  <2>3. \A x \in Objects : x[1] # "client" => mem'[x] = mem[x]
    BY <1>4, <1>5, <1>10
  <2>4. \A x : Occurrences(x)' = {n \in 1..MaxSources : sources'[n].handler = x}
    BY <2>1 DEF Occurrences
  <2>5. \A x : Occurrences(x) = {n \in 1..MaxSources : sources[n].handler = x}
    BY <1>3 DEF Occurrences
  <2>6. \A n \in 1..MaxSources : sources[n].handler # c
    <3>1. mem[c] = "none"
      BY <1>2
    <3> QED
      BY <1>3, <1>4, <3>1 DEF ClientsKept
  <2>7. \A j \in 1..MaxClients : Client(j) \in Objects /\ (Client(j) = c <=> j = k)
    BY WholeObjects, ClientsDiffer
  <2>8. \A i, j \in 1..MaxClients : mem'[Client(j)] # "none" /\ i < j => mem'[Client(i)] # "none"
    BY <1>2, <1>5, <1>10, <2>7
  <2>9. sources[q].handler \notin Clients
    BY <2>1, NoneIsNoObject, WholeObjects DEF Clients
  <2>10. ASSUME NEW j \in 1..MaxClients, mem'[Client(j)] = "live"
         PROVE  Occurrences(Client(j))' # {}
    <3>1. CASE j = k
      BY <1>4, <2>1, <2>4, <3>1
    <3>2. CASE j # k
      <4>1. mem[Client(j)] = "live"
        BY <1>5, <1>10, <2>7, <2>10, <3>2
      <4>2. PICK n \in 1..MaxSources : sources[n].handler = Client(j)
        BY <1>3, <2>5, <4>1 DEF ClientsKept
      <4>3. n # q
        BY <2>9, <4>2 DEF Clients
      <4> QED
        BY <2>1, <2>4, <4>2, <4>3
    <3> QED
      BY <3>1, <3>2
  <2>11. ASSUME NEW n \in 1..MaxSources, sources'[n].handler \in Clients
         PROVE  /\ mem'[sources'[n].handler] = "live"
                /\ \A i \in 1..MaxSources : sources'[i].handler = sources'[n].handler <=> i = n
    <3>1. CASE n = q
      BY <1>4, <1>5, <1>10, <2>1, <2>6, <3>1
    <3>2. CASE n # q
      <4>1. sources'[n] = sources[n] /\ sources[n].handler # c /\ sources[n].handler \in Objects
        BY <2>1, <2>6, <2>7, <2>11, <3>2 DEF Clients
      <4>2. mem[sources[n].handler] = "live" /\ Occurrences(sources[n].handler) = {n}
        BY <1>3, <2>11, <4>1 DEF ClientsKept
      <4>3. mem'[sources'[n].handler] = "live"
        BY <1>5, <1>10, <4>1, <4>2
      <4>4. \A i \in 1..MaxSources : sources'[i].handler = sources[n].handler <=> i = n
        BY <1>4, <2>1, <2>5, <2>9, <2>11, <3>2, <4>1, <4>2
      <4> QED
        BY <4>1, <4>3, <4>4
    <3> QED
      BY <3>1, <3>2
  <2>12. ClientsKept'
    <3>1. ASSUME NEW n \in 1..MaxSources, sources'[n].handler \in Clients
          PROVE  (mem[sources[n].handler] = "live" /\ Occurrences(sources[n].handler) = {n})'
      <4>1. DOMAIN sources' = 1..MaxSources
        BY <2>1
      <4> QED
        BY <2>11, <3>1, <4>1 DEF Occurrences
    <3> QED
      BY <2>8, <2>10, <3>1 DEF ClientsKept
  <2> QED
    BY <1>1, <1>4, <1>5, <1>10, <2>1, <2>2, <2>3, <2>12, RunsOn
<1> QED
  BY <1>2, <1>8, <1>9, <1>10 DEF m, e

LEMMA DetachKeeps ==
    ASSUME StartInv, Detach
    PROVE  StartInv'
<1>1. step = <<"running">> /\ UNCHANGED <<files, step, layout, chain, misuse>>
  BY DEF Detach
<1>2. PICK q \in DOMAIN sources :
          /\ sources[q].handler[1] = "client"
          /\ mem' = [mem EXCEPT ![sources[q].handler] = "freed"]
          /\ sources' = [sources EXCEPT ![q] = Inactive]
  BY DEF Detach, Cleared
<1> DEFINE c == sources[q].handler
<1>3. /\ Len(Registrations) \in Nat /\ TypesOK /\ TableNow /\ ClientsKept /\ step[1] = "running"
      /\ sources \in [1..MaxSources -> {Inactive} \cup Entries]
      /\ \A n \in 1..MaxSources : n <= Len(Registrations) => sources[n].handler \notin Clients
  BY <1>1, ClientEntries
<1>4. q \in 1..MaxSources /\ sources[q] \in {Inactive} \cup Entries
  BY <1>3
<1>5. c \in Objects /\ c \in Clients
  <2>1. sources[q] # Inactive
    BY <1>2, NoneIsNoObject
  <2>2. c \in Objects
    BY <1>4, <2>1 DEF Entries
  <2> QED
    BY <1>2, <2>2, ClientIs
<1>6. q > Len(Registrations)
  BY <1>3, <1>4, <1>5
<1>7. /\ sources' \in [1..MaxSources -> {Inactive} \cup Entries]
      /\ sources'[q] = Inactive /\ \A n \in 1..MaxSources : n # q => sources'[n] = sources[n]
  BY <1>2, <1>3, <1>4
<1>8. /\ mem' \in [Objects -> {"none", "live", "freed"}] /\ mem'[c] = "freed"
      /\ \A x \in Objects : x # c => mem'[x] = mem[x]
  BY <1>2, <1>3, <1>5 DEF TypesOK
<1>9. \A x \in Objects : x[1] # "client" => mem'[x] = mem[x]
  BY <1>2, <1>8
<1>10. /\ \A x : Occurrences(x)' = {n \in 1..MaxSources : sources'[n].handler = x}
       /\ \A x : Occurrences(x) = {n \in 1..MaxSources : sources[n].handler = x}
  BY <1>3, <1>7 DEF Occurrences
<1>11. mem[c] = "live" /\ Occurrences(c) = {q}
  BY <1>3, <1>4, <1>5 DEF ClientsKept
<1> HIDE DEF c
<1>12. \A j \in 1..MaxClients : Client(j) \in Objects
  BY WholeObjects
<1>13. \A i, j \in 1..MaxClients : mem'[Client(j)] # "none" /\ i < j => mem'[Client(i)] # "none"
  BY <1>3, <1>8, <1>11, <1>12 DEF ClientsKept
<1>14. ASSUME NEW j \in 1..MaxClients, mem'[Client(j)] = "live"
       PROVE  Occurrences(Client(j))' # {}
  <2>1. Client(j) # c /\ mem[Client(j)] = "live"
    BY <1>8, <1>12, <1>14
  <2>2. PICK n \in 1..MaxSources : sources[n].handler = Client(j)
    BY <1>3, <1>10, <2>1 DEF ClientsKept
  <2>3. n # q
    BY <2>1, <2>2 DEF c
  <2> QED
    BY <1>7, <1>10, <2>2, <2>3
<1>15. ASSUME NEW n \in 1..MaxSources, sources'[n].handler \in Clients
       PROVE  /\ mem'[sources'[n].handler] = "live"
                /\ \A i \in 1..MaxSources : sources'[i].handler = sources'[n].handler <=> i = n
  <2>1. n # q
    BY <1>7, <1>15, NoneIsNoObject, WholeObjects DEF Clients
  <2>2. sources'[n] = sources[n] /\ sources[n].handler \in Objects
    BY <1>7, <1>12, <1>15, <2>1 DEF Clients
  <2>3. mem[sources[n].handler] = "live" /\ Occurrences(sources[n].handler) = {n}
    BY <1>3, <1>15, <2>2 DEF ClientsKept
  <2>4. sources[n].handler # c
    BY <1>10, <1>11, <2>1, <2>3
  <2>5. sources'[q].handler # sources[n].handler
    BY <1>7, <2>2, NoneIsNoObject
  <2>6. \A i \in 1..MaxSources : sources'[i].handler = sources[n].handler <=> i = n
    BY <1>7, <1>10, <2>2, <2>3, <2>5
  <2> QED
    BY <1>8, <2>2, <2>3, <2>4, <2>6
<1>16. ClientsKept'
  <2>1. ASSUME NEW n \in 1..MaxSources, sources'[n].handler \in Clients
        PROVE  (mem[sources[n].handler] = "live" /\ Occurrences(sources[n].handler) = {n})'
    <3>1. DOMAIN sources' = 1..MaxSources
      BY <1>7
    <3> QED
      BY <1>15, <2>1, <3>1 DEF Occurrences
  <2> QED
    BY <1>13, <1>14, <2>1 DEF ClientsKept
<1> QED
  BY <1>1, <1>6, <1>7, <1>8, <1>9, <1>16, RunsOn

LEMMA RestKeeps ==
    ASSUME StartInv, ConnectFails \/ Shutdown \/ FreeNext \/ Exit
    PROVE  StartInv'
<1>1. /\ sources \in [1..MaxSources -> {Inactive} \cup [handler : Objects, owned : BOOLEAN]]
      /\ mem \in [Objects -> {"none", "live", "freed"}] /\ DOMAIN sources = 1..MaxSources
  BY DEF StartInv, TypesOK
<1>2. CASE ConnectFails
  BY <1>1, <1>2, EndsHere DEF ConnectFails
<1>3. CASE Shutdown
  <2>1. step' = <<"freeing">> /\ mem' = mem /\ UNCHANGED <<files, layout>>
        /\ sources' = [j \in DOMAIN sources |-> IF sources[j].owned THEN Inactive ELSE sources[j]]
    BY <1>3 DEF Shutdown, Leaves, StartFreeing
  <2>2. sources' \in [1..MaxSources -> {Inactive} \cup [handler : Objects, owned : BOOLEAN]]
    BY <1>1, <2>1
  <2> QED
    BY <1>1, <2>1, <2>2, EndsHere
<1>4. CASE FreeNext
  <2>1. step' = <<"freeing">> /\ UNCHANGED <<files, layout, sources>>
        /\ (mem' = mem \/ mem' = [mem EXCEPT ![Head(chain)] = "freed"])
    BY <1>4 DEF FreeNext
  <2>2. mem' \in [Objects -> {"none", "live", "freed"}]
    BY <1>1, <2>1
  <2> QED
    BY <1>1, <2>1, <2>2, EndsHere
<1>5. CASE Exit
  BY <1>1, <1>5, EndsHere DEF Exit
<1> QED
  BY <1>2, <1>3, <1>4, <1>5

LEMMA StutterKeeps ==
    ASSUME StartInv, UNCHANGED startupVars
    PROVE  StartInv'
<1>1. /\ UNCHANGED files /\ step' = step /\ mem' = mem /\ UNCHANGED layout /\ sources' = sources
      /\ chain' = chain /\ misuse' = misuse
  BY DEF startupVars
<1>2. slots_count' = slots_count /\ partition' = partition /\ task_partition' = task_partition
      /\ task_config' = task_config
  BY <1>1 DEF layout
<1>3. Registrations' = Registrations /\ PartitionNumbers' = PartitionNumbers /\ TaskNumbers' = TaskNumbers
      /\ (\A p : SlotsWanted(p)' = SlotsWanted(p)) /\ (\A i : SlotsOf(i)' = SlotsOf(i))
  BY <1>1, <1>2, SameFiles, SameRegistrations DEF SlotsOf
<1>4. TypesOK'
  BY <1>1, <1>2, SameFiles DEF StartInv, TypesOK
<1>5. StepOK'
  BY <1>1, <1>2, <1>3 DEF StartInv, StepOK
<1>6. CountedUp' /\ PlacedWell'
  BY <1>1, <1>2, SameFiles DEF StartInv, CountedUp, PlacedWell
<1>7. StartsOK'
  <2>1. CASE Phase(step) <= 14
    <3>1. CountedNow /\ PlacedNow /\ ConfigsNow /\ MemoryNow /\ TableNow
          /\ (Phase(step) < 14 => NoClients)
      BY <2>1 DEF StartInv, StartsOK
    <3>2. CountedNow'
      BY <1>1, <1>2, <3>1, SameFiles, TimersMadeSame DEF CountedNow
    <3>3. PlacedNow' /\ ConfigsNow'
      BY <1>1, <1>2, <3>1, SameFiles DEF PlacedNow, ConfigsNow
    <3>4. MemoryNow'
      <4>1. \A r : (Made(step, r)' <=> Made(step, r)) /\ Acquired(r)' = Acquired(r)
        BY <1>1, <1>2, MadeSame, SameFiles
      <4> QED
        BY <1>1, <3>1, <4>1 DEF MemoryNow
    <3>5. TableNow'
      <4>1. Filled' = Filled
        BY <1>1, <1>3 DEF Filled
      <4> QED
        BY <1>1, <1>3, <3>1, <4>1 DEF TableNow
    <3>6. Phase(step') < 14 => NoClients'
      BY <1>1, <3>1 DEF NoClients
    <3> QED
      BY <1>1, <3>2, <3>3, <3>4, <3>5, <3>6 DEF StartsOK
  <2>2. CASE ~(Phase(step) <= 14)
    BY <1>1, <2>2 DEF StartsOK
  <2> QED
    BY <2>1, <2>2
<1>8. ClientsKept'
  BY <1>1 DEF StartInv, ClientsKept, Occurrences
<1> QED
  BY <1>4, <1>5, <1>6, <1>7, <1>8 DEF StartInv

LEMMA InitStarts ==
    ASSUME StartupInit
    PROVE  StartInv
<1>1. step = <<"devcfg">> /\ step = BaseSteps[1] /\ Phase(step) = 1 /\ FilesGiven /\ step[1] = "devcfg"
  BY BasePhases, KindIs DEF StartupInit, FilesGiven, BaseSteps
<1>2. /\ mem = [x \in Objects |-> "none"] /\ slots_count = [p \in Lines(ArchFiles) |-> 0] /\ partition = 0
      /\ task_partition = [i \in Lines(TaskFiles) |-> 0]
      /\ task_config = [i \in Lines(TaskFiles) |-> NoConfig]
      /\ sources = [k \in 1..MaxSources |-> Inactive] /\ chain = <<>> /\ misuse = {}
  BY DEF StartupInit
<1>3. MaxSlots - 1 \in Nat /\ MaxSources \in Nat
  BY StartupConstantsOK
<1>4. TypesOK
  BY <1>1, <1>2, <1>3, FileFacts DEF TypesOK
<1>5. StepOK
  BY <1>1, BasePhases DEF StepOK
<1>6. /\ PartitionNumbers \subseteq Lines(ArchFiles) /\ TaskNumbers \subseteq Lines(TaskFiles)
      /\ \A p \in PartitionNumbers : SlotsWanted(p) \in Nat
  BY <1>1, FileFacts
<1>7. CountedUp /\ PlacedWell
  BY <1>2, <1>6 DEF CountedUp, PlacedWell
<1>8. /\ \A p : TimersMade(step, p) = 0
      /\ \A i : ~TaskMade(step, i) /\ ~ConfigMade(step, i)
      /\ \A r \in Whole : ~Made(step, r)
  <2>1. \A r : ~(Phase(r) < 1)
    BY PhaseIs
  <2> QED
    BY <1>1, <2>1, EarlyMade
<1>9. CountedNow
  BY <1>2, <1>3, <1>6, <1>8 DEF CountedNow, Lesser
<1>10. PlacedNow /\ ConfigsNow
  BY <1>2, <1>6, <1>8 DEF PlacedNow, ConfigsNow
<1>11. MemoryNow
  <2>1. \A x \in Objects : x[1] # "client" => ~Made(step, Root(x))
    <3>1. ASSUME NEW x \in Objects, x[1] \notin {"client", "file", "mapping"}
          PROVE  ~Made(step, Root(x))
      BY <1>8, <3>1, RootWhole
    <3>2. ASSUME NEW x \in Objects, x[1] \in {"file", "mapping"} PROVE ~Made(step, Root(x))
      BY <3>2, HeldIs
    <3> QED
      BY <3>1, <3>2
  <2> QED
    BY <1>2, <2>1 DEF MemoryNow
<1>12. NoClients
  BY <1>2, WholeObjects DEF NoClients
<1>13. TableNow
  <2>1. Filled = 0
    BY <1>1 DEF Filled
  <2> QED
    BY <1>2, <1>3, <2>1 DEF TableNow
<1>14. StartsOK /\ ClientsKept
  BY <1>1, <1>9, <1>10, <1>11, <1>12, <1>13 DEF StartsOK, ClientsKept
<1> QED
  BY <1>4, <1>5, <1>7, <1>14 DEF StartInv

LEMMA NextStarts ==
    ASSUME StartInv, [StartupNext]_startupVars
    PROVE  StartInv'
<1>1. CASE CreateBase \/ ReadArch \/ CreatePartition \/ CreateSlot \/ CreateTimer
  BY <1>1, CreateBaseKeeps, ReadArchKeeps, CreatePartitionKeeps, CreateSlotKeeps, CreateTimerKeeps
<1>2. CASE ReadTasks \/ CreateTask \/ LoadBits \/ ConfigureTask
  BY <1>2, ReadTasksKeeps, CreateTaskKeeps, LoadBitsKeeps, ConfigureTaskKeeps
<1>3. CASE TimerfdFails \/ CrashOnTask \/ LoadUnmapped
  BY <1>3, CrashesKeep
<1>4. CASE CreateListener \/ CreateCyclicClient \/ CreateSignals \/ Register
  BY <1>4, CreateFrontKeeps, CreateSignalsKeeps, RegisterKeeps
<1>5. CASE Connect \/ Detach \/ ConnectFails \/ Shutdown \/ FreeNext \/ Exit
  BY <1>5, ConnectKeeps, DetachKeeps, RestKeeps
<1>6. CASE Gone \/ UNCHANGED startupVars
  BY <1>6, StutterKeeps DEF Gone
<1> QED
  BY <1>1, <1>2, <1>3, <1>4, <1>5, <1>6 DEF StartupNext

\* Up to the running server the step of main_function_ and of the constructors it calls
\* determines what is live, what the layout holds and how far the reactor's table is filled.
THEOREM StartsInvariant == StartupSpec => []StartInv
  BY InitStarts, NextStarts, PTL DEF StartupSpec

-----------------------------------------------------------------------------
(* Handlers are live. *)

\* What holds of the table while the loop runs.
LEMMA TableRuns ==
    ASSUME StartInv, step = <<"running">>
    PROVE  /\ \A n \in 1..MaxSources : n <= Len(Registrations) => sources[n] = Registrations[n]
           /\ \A n \in 1..MaxSources : n > Len(Registrations) =>
                 sources[n] = Inactive \/ sources[n].handler \in Clients
           /\ Len(Registrations) \in Nat /\ Len(Registrations) <= MaxSources
           /\ \A k \in 1..MaxSources : sources[k] # Inactive =>
                 \/ sources[k].handler \in Clients
                 \/ /\ sources[k].handler \in Whole /\ sources[k].handler \notin Clients
                    /\ \E n \in 1..Len(Registrations) : n = k
<1>1. /\ Filled = Len(Registrations) /\ Len(Registrations) \in Nat
      /\ TypesOK /\ CountedUp /\ TableNow
  BY ClientEntries
<1>2. /\ \A n \in 1..MaxSources : n <= Len(Registrations) => sources[n] = Registrations[n]
      /\ \A n \in 1..MaxSources : n > Len(Registrations) =>
                 sources[n] = Inactive \/ sources[n].handler \in Clients
      /\ Len(Registrations) <= MaxSources
  BY <1>1 DEF TableNow
<1>3. ASSUME NEW k \in 1..MaxSources, k <= Len(Registrations)
      PROVE  k \in 1..Len(Registrations) /\ sources[k].handler \in Whole
             /\ sources[k].handler \notin Clients
  <2>1. k \in 1..Len(Registrations)
    BY <1>1, <1>3
  <2> QED
    BY <1>1, <1>2, <1>3, <2>1, RegistrationIs, EntryKinds
<1>4. \A k \in 1..MaxSources : k <= Len(Registrations) \/ k > Len(Registrations)
  BY <1>1
<1> QED
  BY <1>1, <1>2, <1>3, <1>4

\* Where a handler that is registered occurs.
LEMMA OccursOnce ==
    ASSUME StartInv, step = <<"running">>, NEW n \in 1..Len(Registrations)
    PROVE  Occurrences(Registrations[n].handler) = {n} /\ n \in 1..MaxSources
<1>1. TypesOK /\ CountedUp /\ DOMAIN sources = 1..MaxSources
  BY ClientEntries
<1>2. /\ \A k \in 1..MaxSources : k <= Len(Registrations) => sources[k] = Registrations[k]
      /\ Len(Registrations) \in Nat /\ Len(Registrations) <= MaxSources
      /\ \A k \in 1..MaxSources : sources[k] # Inactive =>
                 sources[k].handler \in Clients \/ \E m \in 1..Len(Registrations) : m = k
  BY TableRuns
<1>3. n \in 1..MaxSources
  BY <1>2, StartupConstantsOK
<1>4. Registrations[n].handler \notin Clients /\ Registrations[n].handler # <<"none">>
  BY <1>1, RegistrationIs, EntryKinds, NoneIsNoObject DEF Whole
<1>5. ASSUME NEW k \in 1..MaxSources, sources[k].handler = Registrations[n].handler
      PROVE  k = n
  <2>1. sources[k] # Inactive
    BY <1>4, <1>5, NoneIsNoObject
  <2>2. k \in 1..Len(Registrations)
    BY <1>2, <1>4, <1>5, <2>1
  <2>3. sources[k] = Registrations[k]
    BY <1>2, <2>2
  <2>4. \A i, j \in 1..Len(Registrations) : i < j => <<Registrations[i], Registrations[j]>> \in Differ
    <3>1. Pairwise(Registrations, Differ)
      BY <1>1, RegistrationsAre DEF AreEntries
    <3> QED
      BY <3>1 DEF Pairwise
  <2>5. \A i, j \in 1..Len(Registrations) : i < j => Registrations[i].handler # Registrations[j].handler
    BY <2>4 DEF Differ
  <2> QED
    BY <1>2, <1>5, <2>2, <2>3, <2>5
<1>6. sources[n].handler = Registrations[n].handler
  BY <1>2, <1>3
<1> QED
  BY <1>1, <1>3, <1>5, <1>6 DEF Occurrences

\* What is registered is made, and what is made is live.
LEMMA RegisteredLive ==
    ASSUME StartInv, step = <<"running">>, NEW n \in 1..Len(Registrations)
    PROVE  mem[Registrations[n].handler] = "live"
<1> DEFINE e == Registrations[n]
           h == e.handler
<1>1. TypesOK /\ CountedUp /\ Phase(step) = 14
  BY ClientEntries
<1>2. e \in AllEntries /\ h \in Whole
  BY <1>1, RegistrationIs, EntryKinds
<1>3. Made(step, h)
  <2>1. CASE e \in {Source(Signals, TRUE), Source(<<"devcfg">>, FALSE), Source(FrontEnd, TRUE)}
    <3>1. h \in {Signals, <<"devcfg">>, FrontEnd}
      BY <2>1, SourceIs, WholeObjects, OwnerKinds
    <3>2. Made(step, Signals) /\ Made(step, FrontEnd)
      BY <1>1, LateMade
    <3>3. Made(step, <<"devcfg">>) <=> Phase(<<"devcfg">>) < Phase(step)
      BY MadeIs DEF BaseKinds
    <3>4. Phase(<<"devcfg">>) = 1
      BY PhaseIs, KindIs
    <3> QED
      BY <1>1, <3>1, <3>2, <3>3, <3>4
  <2>2. CASE \E p \in PartitionNumbers : e \in PartitionEntries(p)
    <3>1. PICK p \in PartitionNumbers : e \in PartitionEntries(p)
      BY <2>2
    <3>2. PICK s \in SlotsIn(p) : h = Slot(p, s) \/ h = Timer(p, s)
      BY <1>1, <3>1, PartitionHandlers
    <3>3. s \in 1..SlotsWanted(p)
      BY <1>1, SlotsInIs
    <3>4. SlotMade(step, p, s) /\ TimerMade(step, p, s)
      BY <1>1 DEF SlotMade, TimerMade
    <3> QED
      BY <3>2, <3>3, <3>4, MadeIs
  <2> QED
    BY <1>2, <2>1, <2>2 DEF AllEntries
<1>4. h \in Objects /\ h[1] # "client" /\ Root(h) = h
  BY <1>2, WholeIs DEF Whole
<1>5. h \in ToSet(Acquired(h))
  BY <1>2, Families DEF ListsOK, Whole
<1>6. MemoryNow
  BY <1>1 DEF StartInv, StartsOK
<1> QED
  BY <1>3, <1>4, <1>5, <1>6 DEF MemoryNow

LEMMA RunsLive ==
    ASSUME StartInv
    PROVE  SourcesLive
<1> SUFFICES ASSUME step = <<"running">>, NEW k \in DOMAIN sources, sources[k] # Inactive
             PROVE  mem[sources[k].handler] = "live" /\ Occurrences(sources[k].handler) = {k}
  BY DEF SourcesLive
<1>1. DOMAIN sources = 1..MaxSources /\ ClientsKept /\ step[1] = "running"
  BY ClientEntries
<1>2. CASE sources[k].handler \in Clients
  BY <1>1, <1>2 DEF ClientsKept
<1>3. CASE k \in 1..Len(Registrations)
  <2>1. sources[k] = Registrations[k]
    BY <1>1, <1>3, TableRuns
  <2> QED
    BY <1>3, <2>1, OccursOnce, RegisteredLive
<1> QED
  BY <1>1, <1>2, <1>3, TableRuns

\* SourcesLive: whatever files were read and whichever clients came and went, an entry of
\* the reactor's table has a live handler, and no handler has two entries.
THEOREM SourcesStayLive == StartupSpec => []SourcesLive
  BY StartsInvariant, RunsLive, PTL

-----------------------------------------------------------------------------
(* A server that runs is complete. *)

LEMMA MinOfTwo ==
    ASSUME NEW a \in Nat, NEW b \in Nat
    PROVE  Min({a, b}) = Lesser(a, b)
<1>1. {a, b} \in SUBSET Nat /\ {a, b} # {}
  OBVIOUS
<1>2. Min({a, b}) \in {a, b} /\ \A n \in {a, b} : Min({a, b}) <= n
  BY <1>1, MinIs
<1> QED
  BY <1>2 DEF Lesser

\* A slot is in the table, with its timer, if its partition took it; the rest always is.
LEMMA RunsRegistered ==
    ASSUME StartInv, step = <<"running">>,
           NEW x, \/ x \in {Signals, <<"devcfg">>, FrontEnd}
                  \/ \E p \in PartitionNumbers : \E s \in SlotNumbers : x = Slot(p, s) \/ x = Timer(p, s)
    PROVE  Cardinality(Occurrences(x)) =
                  IF x[1] \in {"slot", "timer"} /\ ~InPartition(x[2], x[3]) THEN 0 ELSE 1
<1>1. TypesOK /\ CountedUp /\ FilesGiven /\ DOMAIN sources = 1..MaxSources
  BY ClientEntries DEF TypesOK
<1>2. ASSUME NEW e \in AllEntries, e.handler = x PROVE Cardinality(Occurrences(x)) = 1
  <2>1. PICK n \in 1..Len(Registrations) : e = Registrations[n]
    <3>1. Registrations \in Seq(Entries) /\ ToSet(Registrations) = AllEntries
      BY <1>1, RegistrationsAre DEF AreEntries
    <3> QED
      BY <3>1 DEF ToSet
  <2>2. Occurrences(x) = {n}
    BY <1>2, <2>1, OccursOnce
  <2> QED
    BY <2>2, FS_Singleton
<1>3. CASE x \in {Signals, <<"devcfg">>, FrontEnd}
  <2>1. \E e \in AllEntries : e.handler = x
    <3>1. /\ Source(Signals, TRUE).handler = Signals /\ Source(<<"devcfg">>, FALSE).handler = <<"devcfg">>
          /\ Source(FrontEnd, TRUE).handler = FrontEnd
      BY SourceIs, WholeObjects, OwnerKinds
    <3> QED
      BY <1>3, <3>1 DEF AllEntries
  <2>2. x[1] \notin {"slot", "timer"}
    BY <1>3, KindIs
  <2> QED
    BY <1>2, <2>1, <2>2
<1>4. ASSUME NEW p \in PartitionNumbers, NEW s \in SlotNumbers, x = Slot(p, s) \/ x = Timer(p, s)
      PROVE  Cardinality(Occurrences(x)) =
                  IF x[1] \in {"slot", "timer"} /\ ~InPartition(x[2], x[3]) THEN 0 ELSE 1
  <2>1. x[1] \in {"slot", "timer"} /\ x[2] = p /\ x[3] = s
    BY <1>4, KindIs
  <2>2. slots_count[p] \in Nat /\ s \in Nat \ {0}
    BY <1>1, SlotsInIs, FileFacts
  <2>3. CASE s <= slots_count[p]
    <3>1. s \in SlotsIn(p) /\ InPartition(p, s)
      BY <2>2, <2>3 DEF SlotsIn, InPartition
    <3>2. Slot(p, s) \in Objects /\ Timer(p, s) \in Objects
      BY <1>1, FileFacts, WholeObjects
    <3>3. \E e \in SlotPairs(p, s) : e.handler = x
      BY <1>4, <3>2, SourceIs DEF SlotPairs
    <3>4. SlotPairs(p, s) \subseteq AllEntries
      <4>1. SlotPairs(p, s) \subseteq PartitionEntries(p)
        BY <3>1 DEF PartitionEntries
      <4>2. PartitionEntries(p) \subseteq UNION {PartitionEntries(q) : q \in PartitionNumbers}
        OBVIOUS
      <4> QED
        BY <4>1, <4>2 DEF AllEntries
    <3> QED
      BY <1>2, <2>1, <3>1, <3>3, <3>4
  <2>4. CASE ~(s <= slots_count[p])
    <3>1. ASSUME NEW k \in Occurrences(x) PROVE FALSE
      <4>1. k \in 1..MaxSources /\ sources[k].handler = x
        BY <1>1, <3>1 DEF Occurrences
      <4>2. x \notin Clients /\ x # <<"none">>
        <5>1. \A c \in Clients : c[1] = "client"
          BY KindIs DEF Clients
        <5>2. <<"none">>[1] = "none"
          OBVIOUS
        <5> QED
          BY <2>1, <5>1, <5>2
      <4>3. sources[k] # Inactive
        BY <4>1, <4>2, NoneIsNoObject
      <4>4. k \in 1..Len(Registrations)
        BY <4>1, <4>2, <4>3, TableRuns
      <4>5. sources[k] = Registrations[k]
        BY <4>1, <4>4, TableRuns
      <4>6. Registrations[k] \in AllEntries
        BY <1>1, <4>4, RegistrationIs
      <4>7. Registrations[k] \notin {Source(Signals, TRUE), Source(<<"devcfg">>, FALSE), Source(FrontEnd, TRUE)}
        <5>1. /\ Source(Signals, TRUE).handler = Signals
                 /\ Source(<<"devcfg">>, FALSE).handler = <<"devcfg">>
              /\ Source(FrontEnd, TRUE).handler = FrontEnd
          BY SourceIs, WholeObjects, OwnerKinds
        <5>2. x \notin {Signals, <<"devcfg">>, FrontEnd}
          BY <2>1, KindIs
        <5> QED
          BY <4>1, <4>5, <5>1, <5>2
      <4>8. PICK q \in PartitionNumbers : Registrations[k] \in PartitionEntries(q)
        BY <4>6, <4>7 DEF AllEntries
      <4>9. PICK t \in SlotsIn(q) : x = Slot(q, t) \/ x = Timer(q, t)
        BY <1>1, <4>1, <4>5, <4>8, PartitionHandlers
      <4>10. q = p /\ t = s
        BY <2>1, <4>9, KindIs
      <4> QED
        BY <2>2, <2>4, <4>10 DEF SlotsIn
    <3>2. Occurrences(x) = {}
      BY <3>1
    <3>3. ~InPartition(p, s)
      BY <2>4 DEF InPartition
    <3> QED
      BY <2>1, <3>2, <3>3, FS_EmptySet
  <2> QED
    BY <2>3, <2>4
<1> QED
  BY <1>3, <1>4

\* A hw-task of a running server is in the partition its line names, with its bitstreams.
LEMMA RunsPlaced ==
    ASSUME StartInv, step = <<"running">>, NEW i \in TaskNumbers
    PROVE  /\ (\E p \in PartitionNumbers : ArchLines[p][1] = PartitionName(i))
                    => ArchLines[task_partition[i]][1] = PartitionName(i)
           /\ mem[Partition(task_partition[i])] = "live"
           /\ \A s \in 1..slots_count[task_partition[i]] : mem[Bits(i, s)] = "live"
<1>1. TypesOK /\ CountedUp /\ Phase(step) = 14 /\ FilesGiven
  BY ClientEntries DEF TypesOK
<1>2. PlacedNow /\ PlacedWell /\ MemoryNow
  BY <1>1 DEF StartInv, StartsOK
<1>3. \A j, s : TaskMade(step, j) /\ BitsMade(step, j, s) /\ PartitionMade(step, j)
  BY <1>1 DEF TaskMade, BitsMade, PartitionMade
<1>4. i \in Lines(TaskFiles) /\ task_partition[i] # 0
  BY <1>1, <1>2, <1>3, FileFacts DEF PlacedNow
<1>5. task_partition[i] \in PartitionNumbers
  BY <1>1, <1>4, FileFacts DEF TypesOK, PartitionNumbers
<1>6. ASSUME NEW r \in Whole, Made(step, r) PROVE mem[r] = "live"
  <2>1. r \in Objects /\ r[1] # "client" /\ Root(r) = r /\ r \in ToSet(Acquired(r))
    BY WholeIs, Families DEF Whole, ListsOK
  <2> QED
    BY <1>2, <1>6, <2>1 DEF MemoryNow
<1>7. mem[Partition(task_partition[i])] = "live"
  <2>1. Partition(task_partition[i]) \in Whole
    BY <1>1, <1>5, MadeObjects
  <2>2. Made(step, Partition(task_partition[i]))
    BY <1>3, <1>5, MadeIs
  <2> QED
    BY <1>6, <2>1, <2>2
<1>8. ASSUME NEW s \in 1..slots_count[task_partition[i]] PROVE mem[Bits(i, s)] = "live"
  <2>1. s \in SlotNumbers
    BY <1>1, <1>5, SlotsInIs DEF SlotsIn
  <2>2. Bits(i, s) \in Whole
    BY <1>1, <2>1, MadeObjects
  <2>3. Made(step, Bits(i, s))
    BY <1>3, <1>4, MadeIs DEF SlotsOf
  <2> QED
    BY <1>6, <2>2, <2>3
<1>9. (\E p \in PartitionNumbers : ArchLines[p][1] = PartitionName(i))
                    => ArchLines[task_partition[i]][1] = PartitionName(i)
  BY <1>2, <1>4 DEF PlacedWell
<1> QED
  BY <1>7, <1>8, <1>9

LEMMA RunsComplete ==
    ASSUME StartInv
    PROVE  RunningComplete
<1> SUFFICES ASSUME step = <<"running">> PROVE RunningComplete
  BY DEF RunningComplete
<1>1. Phase(step) = 14 /\ TypesOK
  BY ClientEntries
<1>2. \A p \in 1..Len(ArchLines) : slots_count[p] = Min({SlotsWanted(p), MaxSlots - 1})
  <2>1. \A p : TimersMade(step, p) = SlotsWanted(p)
    BY <1>1 DEF TimersMade
  <2>2. CountedNow
    BY <1>1 DEF StartInv, StartsOK
  <2>3. \A p \in PartitionNumbers : SlotsWanted(p) \in Nat
    BY <1>1, FileFacts DEF TypesOK
  <2>4. MaxSlots - 1 \in Nat
    BY StartupConstantsOK
  <2>5. \A p \in PartitionNumbers :
        Min({SlotsWanted(p), MaxSlots - 1}) = Lesser(SlotsWanted(p), MaxSlots - 1)
    BY <2>3, <2>4, MinOfTwo
  <2> QED
    BY <2>1, <2>2, <2>5 DEF CountedNow, PartitionNumbers
<1>3. \A x \in {Signals, <<"devcfg">>, FrontEnd}
                  \cup UNION {{Slot(p, s), Timer(p, s)} :
                                p \in 1..Len(ArchLines), s \in SlotNumbers} :
              Cardinality(Occurrences(x)) =
                  IF x[1] \in {"slot", "timer"} /\ ~InPartition(x[2], x[3]) THEN 0 ELSE 1
  <2> SUFFICES ASSUME NEW x \in {Signals, <<"devcfg">>, FrontEnd}
                  \cup UNION {{Slot(p, s), Timer(p, s)} :
                                p \in 1..Len(ArchLines), s \in SlotNumbers}
               PROVE  Cardinality(Occurrences(x)) =
                  IF x[1] \in {"slot", "timer"} /\ ~InPartition(x[2], x[3]) THEN 0 ELSE 1
    OBVIOUS
  <2>1. \/ x \in {Signals, <<"devcfg">>, FrontEnd}
        \/ \E p \in 1..Len(ArchLines), s \in SlotNumbers : x \in {Slot(p, s), Timer(p, s)}
    OBVIOUS
  <2> QED
    BY <2>1, RunsRegistered DEF PartitionNumbers
<1>4. \A i \in 1..Len(TaskLines) :
              /\ (\E p \in 1..Len(ArchLines) : ArchLines[p][1] = PartitionName(i))
                    => ArchLines[task_partition[i]][1] = PartitionName(i)
              /\ mem[Partition(task_partition[i])] = "live"
              /\ \A s \in 1..slots_count[task_partition[i]] : mem[Bits(i, s)] = "live"
  BY RunsPlaced DEF TaskNumbers, PartitionNumbers
<1> QED
  BY <1>2, <1>3, <1>4 DEF RunningComplete

\* RunningComplete: for every pair of files, a server whose start-up succeeded has all the
\* slots, table entries, hw-tasks and bitstreams that the files ask for, up to the limits.
THEOREM RunningIsComplete == StartupSpec => []RunningComplete
  BY StartsInvariant, RunsComplete, PTL

-----------------------------------------------------------------------------
(* The lines of a file, and the configurations they give. *)

\* The kept lines up to line n.
KeptUpTo(f, n) == {k \in Written(f) : k <= n}

LEMMA KeptUpToNext ==
    ASSUME NEW f, IsSequence(f), NEW n \in 1..Len(f)
    PROVE  /\ IsFiniteSet(KeptUpTo(f, n - 1)) /\ Cardinality(KeptUpTo(f, n - 1)) \in Nat
           /\ IsKept(f[n]) => /\ KeptUpTo(f, n) = KeptUpTo(f, n - 1) \cup {n}
                              /\ Cardinality(KeptUpTo(f, n)) = Cardinality(KeptUpTo(f, n - 1)) + 1
           /\ ~IsKept(f[n]) => KeptUpTo(f, n) = KeptUpTo(f, n - 1)
<1>1. Len(f) \in Nat /\ DOMAIN f = 1..Len(f)
  BY DEF IsSequence
<1>2. \A k : k \in Written(f) <=> k \in 1..Len(f) /\ IsKept(f[k])
  BY <1>1 DEF Written, IsKept
<1>3. KeptUpTo(f, n - 1) \subseteq 1..Len(f) /\ n \notin KeptUpTo(f, n - 1)
  BY <1>1, <1>2 DEF KeptUpTo
<1>4. IsFiniteSet(KeptUpTo(f, n - 1)) /\ Cardinality(KeptUpTo(f, n - 1)) \in Nat
  <2>1. IsFiniteSet(1..Len(f))
    BY <1>1, FS_Interval
  <2>2. IsFiniteSet(KeptUpTo(f, n - 1))
    BY <1>3, <2>1, FS_Subset
  <2> QED
    BY <2>2, FS_CardinalityType
<1>5. IsKept(f[n]) => KeptUpTo(f, n) = KeptUpTo(f, n - 1) \cup {n}
  BY <1>1, <1>2 DEF KeptUpTo
<1>6. ~IsKept(f[n]) => KeptUpTo(f, n) = KeptUpTo(f, n - 1)
  BY <1>1, <1>2 DEF KeptUpTo
<1>7. Cardinality(KeptUpTo(f, n - 1) \cup {n}) = Cardinality(KeptUpTo(f, n - 1)) + 1
  BY <1>3, <1>4, FS_AddElement
<1> QED
  BY <1>4, <1>5, <1>6, <1>7

\* What is parsed of the first n lines: the kept ones, each at its rank.
Ranked(f, n, s) ==
    /\ s \in Seq(KeptOf(f)) /\ Len(s) = Cardinality(KeptUpTo(f, n))
    /\ \A l \in KeptUpTo(f, n) : /\ Cardinality(KeptUpTo(f, l)) \in 1..Len(s)
                                 /\ s[Cardinality(KeptUpTo(f, l))] = f[l]

LEMMA RankedNext ==
    ASSUME NEW f, IsSequence(f), NEW n \in 1..Len(f), NEW s, Ranked(f, n - 1, s)
    PROVE  Ranked(f, n, s \o (IF IsKept(f[n]) THEN <<f[n]>> ELSE <<>>))
<1> DEFINE c == Cardinality(KeptUpTo(f, n - 1))
           t == s \o (IF IsKept(f[n]) THEN <<f[n]>> ELSE <<>>)
<1>1. /\ s \in Seq(KeptOf(f)) /\ Len(s) = c /\ c \in Nat
      /\ \A l \in KeptUpTo(f, n - 1) : /\ Cardinality(KeptUpTo(f, l)) \in 1..Len(s)
                                       /\ s[Cardinality(KeptUpTo(f, l))] = f[l]
  BY KeptUpToNext DEF Ranked
<1>2. CASE IsKept(f[n])
  <2>1. t = s \o <<f[n]>>
    BY <1>2
  <2>2. f[n] \in KeptOf(f)
    BY <1>2 DEF KeptOf, IsSequence
  <2>3. t \in Seq(KeptOf(f)) /\ Len(t) = c + 1 /\ t[c + 1] = f[n] /\ \A k \in 1..c : t[k] = s[k]
    BY <1>1, <2>1, <2>2
  <2>4. KeptUpTo(f, n) = KeptUpTo(f, n - 1) \cup {n} /\ Cardinality(KeptUpTo(f, n)) = c + 1
    BY <1>2, KeptUpToNext
  <2>5. n \notin KeptUpTo(f, n - 1)
    BY DEF KeptUpTo, IsSequence
  <2> HIDE DEF t, c
  <2>6. ASSUME NEW l \in KeptUpTo(f, n)
        PROVE  Cardinality(KeptUpTo(f, l)) \in 1..Len(t) /\ t[Cardinality(KeptUpTo(f, l))] = f[l]
    <3>1. CASE l = n
      <4>1. Cardinality(KeptUpTo(f, n)) = c + 1
        BY <2>4
      <4>2. Cardinality(KeptUpTo(f, l)) = c + 1
        BY <3>1, <4>1, Zenon
      <4>3. c + 1 \in 1..Len(t)
        BY <1>1, <2>3
      <4>4. t[c + 1] = f[l]
        BY <2>3, <3>1
      <4> QED
        BY <4>2, <4>3, <4>4
    <3>2. CASE l # n
      <4>1. l \in KeptUpTo(f, n - 1)
        BY <2>4, <3>2
      <4>2. Cardinality(KeptUpTo(f, l)) \in 1..c /\ s[Cardinality(KeptUpTo(f, l))] = f[l]
        BY <1>1, <4>1
      <4> QED
        BY <1>1, <2>3, <4>2
    <3> QED
      BY <3>1, <3>2
  <2>7. Ranked(f, n, t)
    BY <2>3, <2>4, <2>6 DEF Ranked
  <2> QED
    BY <2>7 DEF t
<1>3. CASE ~IsKept(f[n])
  <2>1. t = s
    BY <1>1, <1>3
  <2>2. KeptUpTo(f, n) = KeptUpTo(f, n - 1)
    BY <1>3, KeptUpToNext
  <2> QED
    BY <2>1, <2>2 DEF Ranked
<1> QED
  BY <1>2, <1>3

LEMMA ParsedRanked ==
    ASSUME NEW f, IsSequence(f)
    PROVE  Ranked(f, Len(f), Parsed(f))
<1> DEFINE ss == [i \in DOMAIN f |-> IF IsKept(f[i]) THEN <<f[i]>> ELSE <<>>]
<1>1. Len(f) \in Nat /\ DOMAIN f = 1..Len(f)
  BY DEF IsSequence
<1>2. Parsed(f) = FlattenSeq(ss) /\ ss \in Seq(Seq(KeptOf(f))) /\ Len(ss) = Len(f)
  <2>1. Parsed(f) = FlattenSeq(ss)
    BY DEF Parsed, IsKept
  <2>2. \A i \in 1..Len(f) : ss[i] \in Seq(KeptOf(f))
    <3>1. ASSUME NEW i \in 1..Len(f), IsKept(f[i]) PROVE ss[i] \in Seq(KeptOf(f))
      <4>1. f[i] \in KeptOf(f) /\ ss[i] = <<f[i]>>
        BY <1>1, <3>1 DEF KeptOf
      <4> QED
        BY <4>1
    <3>2. ASSUME NEW i \in 1..Len(f), ~IsKept(f[i]) PROVE ss[i] \in Seq(KeptOf(f))
      <4>1. ss[i] = <<>>
        BY <1>1, <3>2
      <4> QED
        BY <4>1
    <3> QED
      BY <3>1, <3>2
  <2>3. ss \in [1..Len(f) -> Seq(KeptOf(f))]
    BY <1>1, <2>2
  <2> HIDE DEF ss
  <2>4. ss \in Seq(Seq(KeptOf(f))) /\ Len(ss) = Len(f)
    BY <1>1, <2>3, SeqDef
  <2> QED
    BY <2>1, <2>4
<1>3. KeptUpTo(f, 0) = {} /\ Cardinality({}) = 0 /\ Ranked(f, 0, <<>>)
  <2>1. KeptUpTo(f, 0) = {}
    BY <1>1 DEF KeptUpTo, Written
  <2> QED
    BY <2>1, FS_EmptySet DEF Ranked
<1>4. CASE Len(f) = 0
  <2>1. FlattenSeq(ss) = <<>>
    <3> HIDE DEF ss
    <3> QED
      BY <1>2, <1>4 DEF FlattenSeq
  <2> QED
    BY <1>2, <1>3, <1>4, <2>1
<1>5. CASE Len(f) # 0
  <2>1. PICK g : Flattens(g, ss, Len(ss)) /\ FlattenSeq(ss) = g[Len(ss)]
    <3> HIDE DEF ss
    <3> QED
      BY <1>2, <1>5, FlattenDefined
  <2>2. \A i \in 1..Len(f) : g[i] = IF i = 1 THEN ss[i] ELSE g[i - 1] \o ss[i]
    <3> HIDE DEF ss
    <3> QED
      BY <1>2, <2>1 DEF Flattens
  <2>3. \A i \in 1..Len(f) : ss[i] = (IF IsKept(f[i]) THEN <<f[i]>> ELSE <<>>) /\ <<>> \o ss[i] = ss[i]
    BY <1>1
  <2> DEFINE G == {n \in 1..Len(f) : Ranked(f, n, g[n])}
  <2>4. ASSUME NEW n \in 1..Len(f), n = 1 \/ n - 1 \in G PROVE n \in G
    <3>1. CASE n = 1
      <4>1. g[n] = <<>> \o (IF IsKept(f[n]) THEN <<f[n]>> ELSE <<>>)
        BY <2>2, <2>3, <3>1, ZenonT(40)
      <4>2. Ranked(f, n - 1, <<>>)
        BY <1>3, <3>1
      <4> QED
        BY <4>1, <4>2, RankedNext
    <3>2. CASE n # 1
      <4>1. Ranked(f, n - 1, g[n - 1])
        BY <2>4, <3>2
      <4>2. g[n] = g[n - 1] \o (IF IsKept(f[n]) THEN <<f[n]>> ELSE <<>>)
        BY <2>2, <2>3, <3>2, ZenonT(40)
      <4> QED
        BY <4>1, <4>2, RankedNext
    <3> QED
      BY <3>1, <3>2
  <2>5. \A n \in 1..Len(f) : (n = 1 \/ n - 1 \in G) => n \in G
    BY <2>4
  <2>6. \A n \in 1..Len(f) : n \in G
    <3> HIDE DEF G
    <3> QED
      BY <1>1, <2>5, UpTo
  <2> HIDE DEF ss
  <2>7. Len(f) \in 1..Len(f) /\ FlattenSeq(ss) = g[Len(f)]
    BY <1>1, <1>2, <1>5, <2>1
  <2> QED
    BY <1>2, <2>6, <2>7
<1> QED
  BY <1>4, <1>5

LEMMA MaxIs ==
    ASSUME NEW n \in Int
    PROVE  Max({0, n}) = IF n > 0 THEN n ELSE 0
<1> DEFINE m == IF n > 0 THEN n ELSE 0
<1>1. m \in {0, n} /\ \A y \in {0, n} : m >= y
  OBVIOUS
<1>2. \A z \in {0, n} : (\A y \in {0, n} : z >= y) => z = m
  OBVIOUS
<1> QED
  BY <1>1, <1>2 DEF Max

\* The sizes of a line are the tokens that follow the fifth, as 32 bits hold them.
LEMMA SizesAre ==
    ASSUME NEW line, IsSequence(line), \A k \in DOMAIN line : k > 5 => line[k] # NULL
    PROVE  LET n == Max({0, Len(line) - 5}) IN
           /\ n \in Nat
           /\ Len(BufferSizes(line)) = n
           /\ BufferSizes(line) = [k \in 1..n |-> line[k + 5] % Word]
           /\ \E S : BufferSizes(line) \in Seq(S)
<1> DEFINE n == Max({0, Len(line) - 5})
           b == [k \in 1..n |-> line[k + 5] % Word]
           S == {b[k] : k \in 1..n}
<1>1. Len(line) \in Nat /\ DOMAIN line = 1..Len(line)
  BY DEF IsSequence
<1>2. n = IF Len(line) - 5 > 0 THEN Len(line) - 5 ELSE 0
  BY <1>1, MaxIs
<1>3. n \in Nat /\ 1..n = 1..(Len(line) - 5)
  <2> HIDE DEF n
  <2>1. n \in Nat
    <3>1. PICK len \in Nat : len = Len(line)
      BY <1>1
    <3>2. n = IF len - 5 > 0 THEN len - 5 ELSE 0
      BY <1>2, <3>1
    <3> QED
      BY <3>2
  <2>2. CASE Len(line) - 5 > 0
    BY <1>2, <2>1, <2>2
  <2>3. CASE ~(Len(line) - 5 > 0)
    <3>1. \A i : i \notin 1..n /\ i \notin 1..(Len(line) - 5)
      BY <1>1, <1>2, <2>3
    <3> QED
      BY <2>1, <3>1
  <2> QED
    BY <2>2, <2>3
<1>4. \A k \in 1..n : Number(line[k + 5]) = line[k + 5] % Word
  <2> HIDE DEF n
  <2>1. ASSUME NEW k \in 1..n PROVE line[k + 5] # NULL
    <3>1. k + 5 \in DOMAIN line /\ k + 5 > 5
      <4>1. k \in 1..(Len(line) - 5)
        BY <1>3
      <4> QED
        BY <1>1, <4>1
    <3> QED
      BY <3>1
  <2> QED
    BY <2>1 DEF Number
<1>5. BufferSizes(line) = b
  <2> HIDE DEF n
  <2> QED
    BY <1>3, <1>4 DEF BufferSizes
<1>6. Len(b) = n /\ b \in Seq(S)
  <2> HIDE DEF n
  <2>1. b \in [1..n -> S]
    OBVIOUS
  <2> HIDE DEF b, S
  <2>2. b \in Seq(S)
    BY <1>3, <2>1
  <2>3. DOMAIN b = 1..n
    BY <2>1
  <2> QED
    BY <1>3, <2>2, <2>3
<1> QED
  BY <1>3, <1>5, <1>6

\* The configuration a line gives, as ConfigRead states it.
ReadFrom(config, line) ==
    LET ms == (IF Len(line) < 3 THEN 0 ELSE line[3]) % Word
        sizes == [k \in 1..Max({0, Len(line) - 5}) |-> line[k + 5] % Word]
    IN
    /\ config.timeout = IF ms = 0 THEN DefTimeout ELSE (ms * 1000) % Word
    /\ Len(sizes) <= MaxDataBuffs => config.sizes = sizes /\ config.count = Len(sizes)
    /\ Len(config.sizes) <= MaxDataBuffs

LEMMA ConfigOfLine ==
    ASSUME NEW line, IsSequence(line),
           \A k \in DOMAIN line : k = 3 \/ k > 5 => line[k] # NULL,
           NEW b \in Buffers(BufferSizes(line)),
           NEW config,
           config = [timeout |-> TimeoutUs(Number(Token(line, 3))), count |-> b.count, sizes |-> b.sizes]
    PROVE  ReadFrom(config, line)
<1> DEFINE ms == (IF Len(line) < 3 THEN 0 ELSE line[3]) % Word
           n == Max({0, Len(line) - 5})
           sizes == [k \in 1..n |-> line[k + 5] % Word]
<1>1. Len(line) \in Nat /\ DOMAIN line = 1..Len(line)
  BY DEF IsSequence
<1>2. MaxDataBuffs \in Nat
  BY StartupConstantsOK
<1>3. Number(Token(line, 3)) = ms
  BY <1>1 DEF Number, Token
<1>6. config.timeout = IF ms = 0 THEN DefTimeout ELSE (ms * 1000) % Word
  BY <1>3 DEF TimeoutUs
<1>7. n \in Nat /\ BufferSizes(line) = sizes /\ Len(sizes) = n /\ \E X : sizes \in Seq(X)
  <2>1. \A k \in DOMAIN line : k > 5 => line[k] # NULL
    OBVIOUS
  <2>2. PICK B : B = BufferSizes(line)
    OBVIOUS
  <2>3. n \in Nat /\ B = sizes /\ Len(B) = n /\ \E X : B \in Seq(X)
    <3> HIDE DEF n
    <3> QED
      BY <2>1, <2>2, SizesAre DEF n
  <2> QED
    BY <2>2, <2>3, Zenon
<1> HIDE DEF ms
<1>8. config.count = b.count /\ config.sizes = b.sizes
  OBVIOUS
<1> HIDE DEF sizes, n
<1>9. CASE Len(sizes) <= MaxDataBuffs
  <2>1. b = [count |-> Len(sizes), sizes |-> sizes]
    BY <1>7, <1>9 DEF Buffers
  <2> QED
    BY <1>2, <1>6, <1>7, <1>8, <1>9, <2>1 DEF ReadFrom, sizes, n, ms
<1>10. CASE ~(Len(sizes) <= MaxDataBuffs)
  <2>1. b.sizes = SubSeq(sizes, 1, MaxDataBuffs)
    BY <1>7, <1>10 DEF Buffers
  <2>2. PICK X : sizes \in Seq(X)
    BY <1>7
  <2>3. \A i \in 1..MaxDataBuffs : sizes[i] \in X
    BY <1>2, <1>7, <1>10, <2>2
  <2>4. Len(SubSeq(sizes, 1, MaxDataBuffs)) = IF 1 <= MaxDataBuffs THEN MaxDataBuffs - 1 + 1 ELSE 0
    BY <1>2, <2>3, SubSeqProperties
  <2>5. Len(b.sizes) = MaxDataBuffs
    BY <1>2, <2>1, <2>4
  <2>6. config.sizes = b.sizes
    BY <1>8
  <2>7. Len(config.sizes) = MaxDataBuffs
    BY <2>5, <2>6, Zenon
  <2>8. Len(config.sizes) <= MaxDataBuffs
    BY <1>2, <2>7
  <2> QED
    BY <1>6, <1>10, <2>8, Zenon DEF ReadFrom, sizes, n, ms
<1> QED
  BY <1>9, <1>10

LEMMA ConfigIsRead ==
    ASSUME StartInv
    PROVE  ConfigRead
<1> SUFFICES ASSUME step = <<"running">> PROVE ConfigRead
  BY DEF ConfigRead
<1>1. FilesGiven /\ IsFile(tasks, {3} \cup 6..(5 + MaxDataBuffs + 1)) /\ IsSequence(tasks)
  BY FilesOK DEF StartInv, TypesOK, FilesGiven, IsFile
<1>2. Phase(step) = 14
  BY PhaseIs
<1>3. ConfigsNow /\ PlacedNow /\ PlacedWell
  BY <1>2 DEF StartInv, StartsOK
<1>4. Len(TaskLines) \in Nat /\ TaskNumbers = 1..Len(TaskLines) /\ TaskNumbers \subseteq Lines(TaskFiles)
  BY <1>1, FileFacts DEF TaskNumbers
<1>5. Ranked(tasks, Len(tasks), TaskLines)
  BY <1>1, ParsedRanked DEF TaskLines
<1>6. \A l \in Written(tasks) : l \in 1..Len(tasks) /\ l <= Len(tasks) /\ IsKept(tasks[l])
  BY <1>1 DEF Written, IsSequence, IsKept
<1>7. KeptUpTo(tasks, Len(tasks)) = Written(tasks)
  BY <1>6 DEF KeptUpTo
<1>8. Len(TaskLines) = Cardinality(Written(tasks))
  BY <1>5, <1>7 DEF Ranked
<1>9. {i \in Lines(TaskFiles) : task_partition[i] # 0} = TaskNumbers
  <2>1. \A i \in TaskNumbers : TaskMade(step, i)
    BY <1>2 DEF TaskMade
  <2>2. \A i \in Lines(TaskFiles) : task_partition[i] # 0 <=> i \in TaskNumbers
    BY <1>3, <1>4, <2>1 DEF PlacedNow, PlacedWell
  <2> QED
    BY <1>4, <2>2
<1>10. Cardinality({i \in Lines(TaskFiles) : task_partition[i] # 0}) = Cardinality(Written(tasks))
  <2>1. Cardinality(1..Len(TaskLines)) = Len(TaskLines)
    BY <1>4, FS_Interval
  <2> QED
    BY <1>4, <1>8, <1>9, <2>1
<1>11. ASSUME NEW l \in Written(tasks)
       PROVE  ReadFrom(task_config[Cardinality({k \in Written(tasks) : k <= l})], tasks[l])
  <2> DEFINE i == Cardinality(KeptUpTo(tasks, l))
  <2>1. i \in 1..Len(TaskLines) /\ TaskLines[i] = tasks[l]
    BY <1>5, <1>7 DEF Ranked
  <2> HIDE DEF i
  <2>2. i \in TaskNumbers /\ ConfigMade(step, i)
    BY <1>2, <1>4, <2>1 DEF ConfigMade
  <2>3. task_config[i] \in ConfigsOf(i)
    BY <1>3, <2>2 DEF ConfigsNow
  <2>4. PICK b \in Buffers(BufferSizes(tasks[l])) :
          task_config[i] = [timeout |-> TimeoutUs(Number(Token(tasks[l], 3))), count |-> b.count, sizes |-> b.sizes]
    BY <2>1, <2>3 DEF ConfigsOf
  <2>5. l \in DOMAIN tasks /\ IsSequence(tasks[l])
        /\ \A k \in DOMAIN tasks[l] : tasks[l][k] # NULL
    <3>1. /\ l \in DOMAIN tasks /\ IsSequence(tasks[l])
          /\ \A k \in DOMAIN tasks[l] :
                IF k \in {3} \cup 6..(5 + MaxDataBuffs + 1) THEN tasks[l][k] \in Nat
                ELSE tasks[l][k] # NULL
      BY <1>1, <1>6 DEF IsFile, IsSequence, IsKept
    <3> QED
      BY <3>1, FilesOK
  <2>6. ReadFrom(task_config[i], tasks[l])
    BY <2>4, <2>5, ConfigOfLine
  <2> QED
    BY <2>6 DEF i, KeptUpTo
<1> QED
  BY <1>10, <1>11 DEF ConfigRead, ReadFrom

\* ConfigRead: the parser and build_hw_tasks_ give each hw-task the timeout and the buffer
\* sizes of its own line, past any comments and blank lines, cut to 32 bits where the code
\* cuts them.
THEOREM ConfigIsReadRight == StartupSpec => []ConfigRead
<1>1. StartInv => ConfigRead
  BY ConfigIsRead
<1> QED
  BY <1>1, StartsInvariant, PTL
=============================================================================
