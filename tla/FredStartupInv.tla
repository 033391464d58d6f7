--------------------------- MODULE FredStartupInv ---------------------------
(***************************************************************************)
(* What FredStartup must guarantee: a server that runs is complete, its     *)
(* event loop never reaches a freed object, and every way down frees every  *)
(* object, in an order in which no free needs what an earlier one took.     *)
(***************************************************************************)
EXTENDS FredStartup

Occurrences(x) == {k \in DOMAIN sources : sources[k].handler = x}
InPartition(p, s) == s <= slots_count[p]

\* Every variable keeps its type; no partition gets more slots than its arrays hold.
StartupTypeOK ==
    /\ mode \in Modes /\ arch \in ArchFiles /\ tasks \in TaskFiles
    /\ mem \in [Objects -> {"none", "live", "freed"}]
    /\ slots_count \in [Lines(ArchFiles) -> 0..(MaxSlots - 1)]
    /\ partition \in 0..Len(ArchLines)
    /\ task_partition \in [Lines(TaskFiles) -> 0..Len(ArchLines)]
    /\ \A k \in DOMAIN sources : sources[k] = Inactive \/ sources[k].handler \in Objects
    /\ ToSet(chain) \subseteq Objects

\* A server that runs is complete: every partition has the slots of its line, up to the
\* limit; each slot and timer, the device, the signal receiver and the front end are in
\* the reactor's table exactly once; every hw-task is in the partition its line names,
\* if there is one, and has a bitstream for every slot of its partition.
RunningComplete ==
    step = <<"running">> =>
        /\ \A p \in 1..Len(ArchLines) : slots_count[p] = Min({SlotsWanted(p), MaxSlots - 1})
        /\ \A x \in {Signals, <<"devcfg">>, FrontEnd}
                  \cup UNION {{Slot(p, s), Timer(p, s)} :
                                p \in 1..Len(ArchLines), s \in SlotNumbers} :
              Cardinality(Occurrences(x)) =
                  IF x[1] \in {"slot", "timer"} /\ ~InPartition(x[2], x[3]) THEN 0 ELSE 1
        /\ \A i \in 1..Len(TaskLines) :
              /\ (\E p \in 1..Len(ArchLines) : ArchLines[p][1] = PartitionName(i))
                    => ArchLines[task_partition[i]][1] = PartitionName(i)
              /\ mem[Partition(task_partition[i])] = "live"
              /\ \A s \in 1..slots_count[task_partition[i]] : mem[Bits(i, s)] = "live"

\* The lines somebody wrote for the program: neither blank nor comments.
Written(f) == {l \in DOMAIN f : f[l] # <<>> /\ f[l][1] # "#"}

\* A hw-task of a running server has the timeout and the data buffers of its own line,
\* wherever comments and blank lines stand, as 32 bits hold them: sizes are cut, and so
\* is the timeout, first in ms and again in microseconds. So a timeout that fits is
\* exact, a missing one or a multiple of 2^32 ms is the default, and a multiple of 2^32
\* microseconds is 0, which disarms the watchdog. A size too many corrupts the count,
\* and nothing else.
ConfigRead ==
    step = <<"running">> =>
        /\ Cardinality({i \in Lines(TaskFiles) : task_partition[i] # 0})
              = Cardinality(Written(tasks))
        /\ \A l \in Written(tasks) :
            LET line == tasks[l]
                i == Cardinality({k \in Written(tasks) : k <= l})
                ms == (IF Len(line) < 3 THEN 0 ELSE line[3]) % Word
                sizes == [k \in 1..Max({0, Len(line) - 5}) |-> line[k + 5] % Word]
            IN
            /\ task_config[i].timeout = IF ms = 0 THEN DefTimeout ELSE (ms * 1000) % Word
            /\ Len(sizes) <= MaxDataBuffs
                 => task_config[i].sizes = sizes /\ task_config[i].count = Len(sizes)
            /\ Len(task_config[i].sizes) <= MaxDataBuffs

\* While the event loop runs, whatever is in the reactor's table is live and there only
\* once, whichever clients came and went: a handler is never called on a freed object.
SourcesLive ==
    step = <<"running">> =>
        \A k \in DOMAIN sources :
            sources[k] # Inactive =>
                /\ mem[sources[k].handler] = "live"
                /\ Occurrences(sources[k].handler) = {k}

\* What the lines of each file ask for.
ArchObjects ==
    UNION {{Partition(p)} \cup {Slot(p, s) : s \in 1..SlotsWanted(p)}
                          \cup {Timer(p, s) : s \in 1..SlotsWanted(p)} :
             p \in 1..Len(ArchLines)}
TaskObjects ==
    {HwTask(i) : i \in 1..Len(TaskLines)}
    \cup UNION {{Bits(i, s) : s \in 1..slots_count[task_partition[i]]} :
                   i \in {j \in 1..Len(TaskLines) : task_partition[j] # 0}}

AllOrNone(xs) == (\A x \in xs : mem[x] # "none") \/ (\A x \in xs : mem[x] = "none")

\* The load of slot s's bitstream for hw-task i was the last thing start-up did.
LastLoad(i, s) ==
    /\ mem[HwTask(i)] # "none"
    /\ \A r \in SlotNumbers : r # s => (mem[Bits(i, r)] = "none" <=> r > s)
    /\ \A j \in Lines(TaskFiles) : j > i => mem[HwTask(j)] = "none"
    /\ mem[FrontEnd] = "none"

Owner(x) == IF x[1] = "part" THEN x[2] ELSE x
Root(x) == Owner(Owner(Owner(x)))

\* However the server goes down, by a step of start-up that failed anywhere or by a
\* shutdown, no object, driver, descriptor or buffer is left, except what the code loses
\* hold of: a slot and timer that the partition refused; a slot whose timer failed; the
\* sockets of a null driver or a front end that could not be configured, and the buffers
\* of that front end; the last client, if it found the reactor's table full; the tokens
\* of a file that could not be read or was used to its end (a failure in between frees
\* them); and, of the one bitstream whose load failed, the open file if there was no
\* buffer, the mapped buffer with its descriptor if the file was too short.
NothingLeft ==
    step = <<"exited">> =>
        LET left == {x \in Objects : mem[x] = "live"} IN
        /\ \A x \in left :
              LET y == Root(x) IN
              \/ y[1] \in {"slot", "timer"} /\ y[3] > MaxSlots - 1
              \/ y[1] = "slot" /\ mem[y] = "live" /\ mem[Timer(y[2], y[3])] = "none"
              \/ /\ mode = "rcfg_test" /\ y[1] = "slot" /\ x = Sockets(Driver(y))
                 /\ mem[y] = "freed" /\ ~InPartition(y[2], y[3])
              \/ y = FrontEnd /\ x # y /\ mem[y] = "freed" /\ mem[Signals] = "none"
              \/ /\ x[1] = "client"
                 /\ Len(Registrations) + x[2] > MaxSources
                 /\ \A k \in (x[2] + 1)..MaxClients : mem[Client(k)] = "none"
              \/ x = ArchTokens /\ AllOrNone(ArchObjects)
              \/ x = TaskTokens /\ AllOrNone(TaskObjects)
              \/ x[1] = "file" /\ LastLoad(x[2], x[3])
              \/ /\ x[1] = "mapping" /\ LastLoad(x[2], x[3])
                 /\ mem[Bits(x[2], x[3])] = "freed"

FrontOnly == {FrontEnd, FrontData, Fd(FrontEnd), Sockets(FrontEnd), Fd(<<"buffctl">>)}

\* No free reads or frees an object that is gone, but for the two cases the code has: a
\* hw-task reads the slot count of its partition, and a front end whose own registration
\* failed is freed by the error chain and by the reactor.
FreesAreSafe ==
    \A m \in misuse :
        \/ m[1] \in {HwTask(i) : i \in 1..Len(TaskLines)} /\ m[2] = Partition(task_partition[m[1][2]])
        \/ /\ m[1] \in FrontOnly \cup {<<"twice">>} /\ m[2] \in FrontOnly
           /\ Occurrences(FrontEnd) # {}

\* "Cannot be deallocated through the handler by the reactor. Must be deallocated
\* manually" (sw_tasks_listener.c:74): the listener, which the error chain frees, is not
\* freed again by the reactor. Violated: it is registered as REACT_OWNED, and a
\* registration that epoll refuses leaves it in the table.
FreedOnce == <<<<"twice">>, FrontEnd>> \notin misuse

=============================================================================
