----------------------------- MODULE FredStartup -----------------------------
(***************************************************************************)
(* The life of the server's objects (fred_sys.c, sys_layout.c, partition.c, *)
(* hw_task.c, parser.c, the table of reactor_epoll.c): how start-up builds  *)
(* them from the lines of the two architecture files, what is freed, and in *)
(* which order, when a step of start-up fails or the server shuts down, and *)
(* what each free still reads.                                             *)
(*                                                                         *)
(* Start-up is sequential: every call that may fail is a step, and so is    *)
(* every free of the chain that follows. The constructors of slots, timers, *)
(* drivers and handlers have error paths of their own, which come first in  *)
(* that chain.                                                             *)
(***************************************************************************)
EXTENDS Integers, SequencesExt

CONSTANTS
    ArchFiles,     \* arch.csv: lines of tokens; a name and the number of slots
    TaskFiles,     \* hw_tasks.csv: name, id, timeout in ms, partition, path, buffer sizes
                   \* (bound: files within MAX_LINES and MAX_TOKENS, which the parser does
                   \* not check)
    Modes,         \* "normal", with the sw-tasks listener; "rcfg_test", with the cyclic
                   \* client and null drivers; "hw_tasks_test", with the cyclic client
    MaxPartitions, \* MAX_PARTITIONS, MAX_HW_TASKS, MAX_SLOTS and MAX_EVENTS_SRCS
    MaxHwTasks,
    MaxSlots,
    MaxSources,
    MaxDataBuffs,  \* MAX_DATA_BUFFS
    DefTimeout,    \* DEF_HW_TASK_TIMEOUT_US
    Word,          \* 2^32, or less in an instance
    MaxClients,    \* bound: clients that connect in a behaviour
    NULL

ASSUME StartupConstantsOK ==
    /\ {MaxPartitions, MaxHwTasks, MaxSlots, MaxSources, MaxDataBuffs, DefTimeout, Word,
        MaxClients} \subseteq Nat
    /\ 0 \notin {MaxSlots, MaxSources, DefTimeout, Word}
    /\ Modes \subseteq {"normal", "rcfg_test", "hw_tasks_test"}
    \* Bound: at most one buffer size too many. What the next one overwrites is memory
    \* of other fields.
    /\ \A f \in TaskFiles : \A i \in DOMAIN f : Len(f[i]) <= 5 + MaxDataBuffs + 1

IsSequence(s) == Len(s) \in Nat /\ s = [i \in 1..Len(s) |-> s[i]]

\* A file is a sequence of lines, a line a sequence of tokens, of which those that the
\* program reads as numbers are the numbers that strtol makes of them, as a size_t.
IsFile(f, numeric) ==
    /\ IsSequence(f)
    /\ \A i \in DOMAIN f :
         /\ IsSequence(f[i])
         /\ f[i] # <<>> /\ f[i][1] # "#" =>
              \A n \in DOMAIN f[i] : IF n \in numeric THEN f[i][n] \in Nat ELSE f[i][n] # NULL

ASSUME FilesOK ==
    /\ NULL \notin Nat
    /\ \A f \in ArchFiles : IsFile(f, {2})
    /\ \A f \in TaskFiles : IsFile(f, {3} \cup 6..(5 + MaxDataBuffs + 1))

VARIABLES
    mode, arch, tasks, \* how the server is started, and its files
    step,              \* what the server does next
    mem,               \* of every object: "none", "live" or "freed"
    slots_count,       \* partition->slots_count of every partition
    partition,         \* the local of build_hw_tasks_ that holds the partition found, or 0
    task_partition,    \* hw_task->partition of every hw-task, 0 if there is no such hw-task
    task_config,       \* hw_task->timeout_us, data_buffs_count and data_buffs_sizes
    sources,           \* reactor->events_sources: the handler, and whether the reactor owns it
    chain,             \* the frees still to be made
    misuse             \* <<<<"twice">>, x>>: x was freed again; <<x, y>>: freeing x read the freed y

files == <<mode, arch, tasks>>
layout == <<slots_count, partition, task_partition, task_config>>
startupVars == <<files, step, mem, layout, sources, chain, misuse>>

-----------------------------------------------------------------------------
(* The parser. A line of a file is the sequence of its tokens.              *)

\* A slip: the number is not narrowed.
SlipUnnarrowed(token) == IF token = NULL THEN 0 ELSE token

\* tokenize_line_ keeps a line that is not blank and no comment.
Parsed(f) ==
    FlattenSeq([i \in DOMAIN f |-> IF f[i] # <<>> /\ f[i][1] # "#" THEN <<f[i]>> ELSE <<>>])

\* pars_get_token: NULL if the line has no such token.
Token(line, n) == IF n <= Len(line) THEN line[n] ELSE NULL

\* str_to_uint32_, and str_to_size_ as the callers use it: they keep its result in an
\* unsigned int or an int, either of 32 bits.
Number(token) == (IF token = NULL THEN 0 ELSE token) % Word

\* The sizes: the tokens that follow the first five.
BufferSizes(line) == [k \in 1..(Len(line) - 5) |-> Number(line[k + 5])]

\* The number of slots is an int. From half of Word on it is negative: no slot.
SlotCount(line) ==
    LET n == Number(Token(line, 2)) IN IF 2 * n < Word THEN n ELSE 0

ArchLines == Parsed(arch)
TaskLines == Parsed(tasks)
SlotsWanted(p) == SlotCount(ArchLines[p])

-----------------------------------------------------------------------------
(* Objects. *)

Lines(fs) == UNION {1..Len(Parsed(f)) : f \in fs}
SlotNumbers ==
    UNION {1..SlotCount(line) : line \in UNION {ToSet(Parsed(f)) : f \in ArchFiles}}

FrontEnd == <<"front">>      \* the listener or the cyclic client, whichever the mode has
Signals == <<"signals">>
Partition(p) == <<"partition", p>>
Slot(p, s) == <<"slot", p, s>>
Timer(p, s) == <<"timer", p, s>>
HwTask(i) == <<"task", i>>
Bits(i, s) == <<"bits", i, s>>
Client(k) == <<"client", k>>
\* What the constructor of object x acquires besides x.
Part(x, name) == <<"part", x, name>>
Fd(x) == Part(x, "fd")
Uio(d) == Part(d, "uio")              \* the UIO device of driver d
Sockets(x) == Part(x, "sockets")
Driver(x) == Part(x, "drv")           \* the driver of a slot or of the device
Decoupler(x) == Part(x, "decoup")
FrontData == Part(FrontEnd, "data")   \* the data buffers of the cyclic client
ArchTokens == <<"tokens", "arch">>    \* what pars_tokenize returned for each file
TaskTokens == <<"tokens", "tasks">>
\* What load_bit_buffer_dev_ holds while it fills Bits(i, s): the open bitstream file; the
\* mapping of the buffer, with its descriptor.
BitsFile(i, s) == <<"file", i, s>>
BitsMapping(i, s) == <<"mapping", i, s>>

BaseSteps == << <<"devcfg">>, <<"scheduler">>, <<"logger">>, <<"reactor">>, <<"buffctl">>,
                <<"layout">>, <<"arch">> >>

\* The sysfs attributes of the FPGA manager, in the order they are opened and closed.
AttrsOpened == <<"done", "start", "addr", "size">>
AttrsClosed == <<"size", "addr", "done", "start">>

Slots == {Slot(p, s) : p \in Lines(ArchFiles), s \in SlotNumbers}
Timers == {Timer(p, s) : p \in Lines(ArchFiles), s \in SlotNumbers}

DriverParts(d) == {d, Uio(d), Fd(Uio(d)), Sockets(d)}

Parts ==
    (UNION {DriverParts(Driver(x)) \cup DriverParts(Decoupler(x)) : x \in Slots})
    \cup {Fd(x) : x \in Timers \cup {<<"reactor">>, <<"buffctl">>, FrontEnd, Signals}}
    \cup {Driver(<<"devcfg">>)} \cup {Part(Driver(<<"devcfg">>), a) : a \in ToSet(AttrsOpened)}
    \cup {FrontData, Sockets(FrontEnd)}

Objects ==
    (ToSet(BaseSteps) \ {<<"arch">>}) \cup {FrontEnd, Signals}
    \cup {ArchTokens, TaskTokens} \cup Parts
    \cup {Partition(p) : p \in Lines(ArchFiles)} \cup Slots \cup Timers
    \cup {HwTask(i) : i \in Lines(TaskFiles)}
    \cup {Bits(i, s) : i \in Lines(TaskFiles), s \in SlotNumbers}
    \cup {BitsFile(i, s) : i \in Lines(TaskFiles), s \in SlotNumbers}
    \cup {BitsMapping(i, s) : i \in Lines(TaskFiles), s \in SlotNumbers}
    \cup {Client(k) : k \in 1..MaxClients}

NoConfig == [timeout |-> DefTimeout, count |-> 0, sizes |-> <<>>]

Inactive == [handler |-> <<"none">>, owned |-> FALSE]

StartupInit ==
    /\ mode \in Modes
    /\ arch \in ArchFiles
    /\ tasks \in TaskFiles
    /\ step = BaseSteps[1]
    /\ mem = [x \in Objects |-> "none"]
    /\ slots_count = [p \in Lines(ArchFiles) |-> 0]
    /\ partition = 0
    /\ task_partition = [i \in Lines(TaskFiles) |-> 0]
    /\ task_config = [i \in Lines(TaskFiles) |-> NoConfig]
    /\ sources = [k \in 1..MaxSources |-> Inactive]
    /\ chain = <<>>
    /\ misuse = {}

-----------------------------------------------------------------------------
(* Freeing. A chain lists objects in the order they are freed; objects that *)
(* do not exist (NULL pointers) are passed over.                            *)

\* What constructors acquire and destructors give back, each in its order. UIO devices
\* and their descriptors:
UioDevice(d) == <<Uio(d), Fd(Uio(d))>>
UioFrees(d) == <<Fd(Uio(d)), Uio(d)>>

\* the drivers of a slot, over a UIO device or a socket pair, and of its decoupler;
MasterDriver(d) == <<d>> \o UioDevice(d)
MasterFrees(d) == UioFrees(d) \o <<d>>
NullDriver(d) == <<d, Sockets(d)>>
NullFrees(d) == <<Sockets(d), d>>
XilDecoupler(d) == <<d>> \o UioDevice(d)
XilFrees(d) == UioFrees(d) \o <<d>>

SlotAcquired(x) ==
    (IF mode = "rcfg_test" THEN NullDriver(Driver(x)) ELSE MasterDriver(Driver(x)))
    \o XilDecoupler(Decoupler(x))
SlotFrees(x) ==
    (IF mode = "rcfg_test" THEN NullFrees(Driver(x)) ELSE MasterFrees(Driver(x)))
    \o XilFrees(Decoupler(x)) \o <<x>>

\* the driver of the device with its four attributes;
DevcfgAcquired(x) == <<Driver(x)>> \o [k \in 1..4 |-> Part(Driver(x), AttrsOpened[k])]
DevcfgFrees(x) == [k \in 1..4 |-> Part(Driver(x), AttrsClosed[k])] \o <<Driver(x), x>>

\* the listening socket, or the data buffers and the sockets of the cyclic client.
FrontAcquired ==
    IF mode = "normal" THEN <<Fd(FrontEnd)>> ELSE <<FrontData, Sockets(FrontEnd)>>
FrontFrees ==
    IF mode = "normal" THEN <<Fd(FrontEnd), FrontEnd>>
    ELSE <<Sockets(FrontEnd), FrontData, FrontEnd>>

Acquired(x) ==
    <<x>> \o
    CASE x[1] = "devcfg" -> DevcfgAcquired(x)
      [] x[1] = "slot"   -> SlotAcquired(x)
      [] x = FrontEnd    -> FrontAcquired
      [] x[1] \in {"timer", "reactor", "buffctl", "signals"} -> <<Fd(x)>>
      [] OTHER           -> <<>>

Frees(x) ==
    CASE x[1] = "devcfg" -> DevcfgFrees(x)
      [] x[1] = "slot"   -> SlotFrees(x)
      [] x = FrontEnd    -> FrontFrees
      [] OTHER           -> Reverse(Acquired(x))

\* A slip: one acquisition too few is given back.
SlipErrorPaths(x, k) == {Reverse(SubSeq(Acquired(x), 1, k - 1))}

\* The error paths of a constructor that already has its first k acquisitions. The
\* device frees what it has by then, and may still fail when it has all: its dummy read.

\* The sockets of a null driver are lost when they cannot be made non-blocking.
NullErrorPaths(x, k) == IF mode = "rcfg_test" /\ k = 3 THEN {<<Driver(x), x>>} ELSE {}

\* The front end frees nothing but itself. The last acquisition may have to be given up
\* too: bind, listen, fcntl, the first byte.
FrontErrorPath(k) == IF k = 0 THEN <<>> ELSE <<FrontEnd>>

\* All paths; none where the constructor cannot fail. For timers, see TimerfdFails.
ErrorPaths(x, k) ==
    CASE x[1] = "devcfg" -> {DevcfgFrees(x)}
      [] x = FrontEnd    -> {FrontErrorPath(k)}
      [] x[1] = "timer"  -> IF k = 0 THEN {<<>>} ELSE {}
      [] OTHER           -> IF k = Len(Acquired(x)) THEN {}
                            ELSE {Reverse(SubSeq(Acquired(x), 1, k))}
                                 \cup IF x[1] = "slot" THEN NullErrorPaths(x, k) ELSE {}

\* partition_free: the slots and timers that were added, then the partition.
PartitionFrees(p) ==
    FlattenSeq([s \in 1..slots_count[p] |-> Frees(Slot(p, s)) \o Frees(Timer(p, s))])
    \o <<Partition(p)>>

\* hw_task_free: as many bitstream buffers as the partition, by then freed, still says
\* it has slots. (The allocator overwrites the first words of a freed partition, which
\* are its name: the count reads as it was.)
HwTaskFrees(i) ==
    IF task_partition[i] = 0 THEN <<>>
    ELSE [s \in 1..slots_count[task_partition[i]] |-> Bits(i, s)] \o <<HwTask(i)>>

\* sys_layout_free: all partitions, then all hw-tasks.
LayoutFrees ==
    FlattenSeq([p \in 1..Len(ArchLines) |-> PartitionFrees(p)])
    \o FlattenSeq([i \in 1..Len(TaskLines) |-> HwTaskFrees(i)])
    \o << <<"layout">> >>

\* free_all_events_source_: the active sources the reactor owns, in table order.
OwnedFrees(table) ==
    FlattenSeq([k \in 1..MaxSources |-> IF table[k].owned THEN Frees(table[k].handler)
                                        ELSE <<>>])

ReactorFrees(table) == OwnedFrees(table) \o Frees(<<"reactor">>)
BuffctlFrees == Frees(<<"buffctl">>)
LoggerFrees == << <<"logger">> >>
HeadFrees == << <<"scheduler">> >> \o Frees(<<"devcfg">>)

\* free_base_sys_
BaseFrees(table) == LayoutFrees \o BuffctlFrees \o ReactorFrees(table) \o LoggerFrees

\* The error chain of init_base_sys_, from the label the failing step jumps to. A layout
\* that fails while it is being built frees itself.
BaseErrorChain(table) ==
    LET reactor == ReactorFrees(table) \o LoggerFrees IN
    CASE step[1] = "logger"  -> <<>>
      [] step[1] = "reactor" -> LoggerFrees
      [] step[1] = "buffctl" -> reactor
      [] step[1] = "layout"  -> BuffctlFrees \o reactor
      [] OTHER               -> LayoutFrees \o BuffctlFrees \o reactor

\* The error chain of init_normal_mode_, which the test modes repeat.
ErrorChain(table) ==
    CASE step[1] = "devcfg"    -> <<>>
      [] step[1] = "scheduler" -> Frees(<<"devcfg">>)
      [] step[1] = "front"     -> BaseFrees(table) \o HeadFrees
      [] step[1] \in {"signals", "register"} ->
             FrontFrees \o BaseFrees(table) \o HeadFrees
      [] OTHER                 -> BaseErrorChain(table) \o HeadFrees

\* A slip: the order of free_base_sys_ at shutdown, where there are clients.
SlipShutdownAsBase(table) ==
    LayoutFrees \o BuffctlFrees \o ReactorFrees(table) \o HeadFrees \o LoggerFrees

\* The loop frees what the reactor owns when it ends, then main calls fred_sys_free.
ShutdownChain(table) ==
    ReactorFrees(table) \o << <<"scheduler">> >> \o LayoutFrees
    \o Frees(<<"devcfg">>) \o BuffctlFrees \o LoggerFrees

\* The memory is m when the frees start.
StartFreeing(m, frees) ==
    /\ step' = <<"freeing">>
    /\ mem' = m
    /\ chain' = frees
    /\ UNCHANGED <<files, misuse>>

\* What else freeing x reads: hw_task_free asks the partition for its slots, buffers are
\* given back through buffctl's descriptor, parts are found in the object they are of.
Reads(x) ==
    CASE x[1] = "task"   -> {Partition(task_partition[x[2]])}
      [] x[1] = "bits"   -> {Fd(<<"buffctl">>), HwTask(x[2])}
      [] x = FrontData   -> {Fd(<<"buffctl">>), FrontEnd}
      [] x[1] = "client" -> {Fd(<<"buffctl">>)}
      [] x[1] = "part" /\ x # FrontData -> {x[2]}
      [] OTHER           -> {}

FreedOf(xs) == {y \in xs : mem[y] = "freed"}

FreeNext ==
    /\ step = <<"freeing">>
    /\ chain # <<>>
    /\ LET x == Head(chain) IN
       \/ mem[x] = "none" /\ UNCHANGED <<mem, misuse>>
       \/ /\ mem[x] # "none"
          /\ misuse' = misuse \cup {<<<<"twice">>, y>> : y \in FreedOf({x})}
                              \cup {<<x, y>> : y \in FreedOf(Reads(x))}
          /\ mem' = [mem EXCEPT ![x] = "freed"]
    /\ chain' = Tail(chain)
    /\ UNCHANGED <<files, step, layout, sources>>

Exit ==
    /\ step = <<"freeing">>
    /\ chain = <<>>
    /\ step' = <<"exited">>
    /\ UNCHANGED <<files, mem, layout, sources, chain, misuse>>

-----------------------------------------------------------------------------
(* Start-up. *)

\* The step that follows the first s - 1 slots of partition p, and so on.
SlotStep(p, s) ==
    IF s <= SlotsWanted(p) THEN Slot(p, s)
    ELSE IF p < Len(ArchLines) THEN Partition(p + 1) ELSE <<"hw_tasks">>
TaskStep(i) == IF i <= Len(TaskLines) THEN HwTask(i) ELSE FrontEnd
BitsStep(i, s, count) == IF s <= count THEN Bits(i, s) ELSE <<"config", i>>

\* The step succeeds and creates the objects xs.
Creates(xs, next) ==
    /\ mem' = [x \in Objects |-> IF x \in xs THEN "live" ELSE mem[x]]
    /\ step' = next
    /\ UNCHANGED <<files, sources, chain, misuse>>

\* The step fails, having created the objects xs and first making the frees `own`.
FailsFreeing(xs, own) ==
    /\ StartFreeing([x \in Objects |-> IF x \in xs THEN "live" ELSE mem[x]],
                    own \o ErrorChain(sources))
    /\ UNCHANGED sources

Fails(xs) == FailsFreeing(xs, <<>>)

\* The constructor of x succeeds, or fails on one of its error paths, after which the
\* frees `then` follow.
Constructs(x, then, next) ==
    \/ Creates(ToSet(Acquired(x)), next)
    \/ \E k \in 0..Len(Acquired(x)) : \E path \in ErrorPaths(x, k) :
           FailsFreeing(ToSet(SubSeq(Acquired(x), 1, k)), path \o then)

\* The process dies without freeing anything.
Crashes(cause) ==
    /\ step' = <<"crashed", cause>>
    /\ UNCHANGED <<files, mem, layout, sources, chain, misuse>>

CreateBase ==
    /\ \E k \in 1..(Len(BaseSteps) - 1) :
          /\ step = BaseSteps[k]
          /\ Constructs(step, <<>>, BaseSteps[k + 1])
    /\ UNCHANGED layout

\* pars_tokenize: there is no memory, or the file cannot be read to its end, and the
\* token table is lost. The caller refuses a file with too many lines.
Tokenizes(tokens, fits, next) ==
    \/ Fails({})
    \/ Fails({tokens})
    \/ fits /\ Creates({tokens}, next)
    \/ ~fits /\ FailsFreeing({tokens}, <<tokens>>)

\* build_partitions_
ReadArch ==
    /\ step = <<"arch">>
    /\ Tokenizes(ArchTokens, Len(ArchLines) < MaxPartitions,
              IF ArchLines = <<>> THEN <<"hw_tasks">> ELSE Partition(1))
    /\ UNCHANGED layout

CreatePartition ==
    /\ step[1] = "partition"
    /\ Constructs(step, <<ArchTokens>>, SlotStep(step[2], 1))
    /\ UNCHANGED layout

CreateSlot ==
    /\ step[1] = "slot"
    /\ Constructs(step, <<ArchTokens>>, Timer(step[2], step[3]))
    /\ UNCHANGED layout

\* A slip: the limit is the array's size plus one.
SlipAddOneMore(p) == slots_count[p] <= MaxSlots - 1

\* partition_add_slot refuses a slot beyond its limit; the caller does not look.
MayAdd(p) == slots_count[p] < MaxSlots - 1

CreateTimer ==
    /\ step[1] = "timer"
    /\ LET p == step[2] IN
       /\ Constructs(step, <<ArchTokens>>, SlotStep(p, step[3] + 1))
       /\ slots_count' = IF mem'[Fd(step)] = "live" /\ MayAdd(p)
                         THEN [slots_count EXCEPT ![p] = @ + 1] ELSE slots_count
    /\ UNCHANGED <<partition, task_partition, task_config>>

\* fd_timer_init frees the fd_timer, which lies inside the slot_timer: no pointer the
\* allocator ever returned.
TimerfdFails ==
    /\ step[1] = "timer"
    /\ Crashes("timerfd")

\* build_hw_tasks_
ReadTasks ==
    /\ step = <<"hw_tasks">>
    /\ Tokenizes(TaskTokens, Len(TaskLines) < MaxHwTasks, TaskStep(1))
    /\ UNCHANGED layout

PartitionName(i) == Token(TaskLines[i], 4)

\* The first partition of the name line i gives; if there is none, the one found for
\* the line before.
Found(i) ==
    LET named == {p \in 1..Len(ArchLines) : ArchLines[p][1] = PartitionName(i)}
    IN IF named # {} THEN Min(named) ELSE partition

\* strncmp reads the missing name.
ReadsNull(i) == PartitionName(i) = NULL /\ ArchLines # <<>>

CreateTask ==
    /\ step[1] = "task"
    /\ ~ReadsNull(step[2])
    /\ LET i == step[2]
           found == Found(i)
       IN
       /\ partition' = found
       /\ \/ /\ found # 0
             /\ Creates({step}, BitsStep(i, 1, slots_count[found]))
             /\ task_partition' = [task_partition EXCEPT ![i] = found]
          \/ /\ FailsFreeing({}, <<TaskTokens>>)
             /\ UNCHANGED task_partition
    /\ UNCHANGED <<slots_count, task_config>>

\* A line that ends before the partition's name ends the process.
CrashOnTask ==
    /\ step[1] = "task"
    /\ ReadsNull(step[2])
    /\ Crashes("name")

\* What a load that opened the file and failed leaves behind. No memory for the buffer's
\* interface, or no buffer from the kernel: the file stays open. A file that cannot be
\* read to its end (or into a buffer whose device could not be opened): it is closed,
\* but the buffer stays mapped.
FailedLoads(i, s) ==
    { {BitsFile(i, s)}, {BitsFile(i, s), Bits(i, s)},
      {Bits(i, s)}, {Bits(i, s), BitsMapping(i, s)} }

\* load_bit_buffer_dev_: a load that succeeds closes the file and unmaps the buffer. An
\* error always frees the buffer's interface, with the hw-task. Without a path there is
\* no file.
LoadBits ==
    /\ step[1] = "bits"
    /\ LET i == step[2]
           next == BitsStep(i, step[3] + 1, slots_count[task_partition[i]])
       IN \/ FailsFreeing({}, <<TaskTokens>>)
          \/ /\ Token(TaskLines[i], 5) # NULL
             /\ \/ Creates({step}, next)
                \/ \E left \in FailedLoads(i, step[3]) : FailsFreeing(left, <<TaskTokens>>)
    /\ UNCHANGED layout

\* A timeout in microseconds, multiplied in 32 bits; ms has been cut to 32 bits before.
TimeoutUs(ms) == IF ms = 0 THEN DefTimeout ELSE (ms * 1000) % Word

\* hw_task_add_buffer for every size. It does not look at the index: one size too many
\* is written over the count, before or after the count is incremented.
Buffers(sizes) ==
    LET n == Len(sizes) IN
    IF n <= MaxDataBuffs THEN {[count |-> n, sizes |-> sizes]}
    ELSE {[count |-> c, sizes |-> SubSeq(sizes, 1, MaxDataBuffs)] : c \in {n, sizes[n]}}

ConfigureTask ==
    /\ step[1] = "config"
    /\ LET i == step[2] IN
       /\ \E b \in Buffers(BufferSizes(TaskLines[i])) :
             task_config' = [task_config EXCEPT ![i] =
                 [timeout |-> TimeoutUs(Number(Token(TaskLines[i], 3))),
                  count |-> b.count, sizes |-> b.sizes]]
       /\ step' = TaskStep(i + 1)
    /\ UNCHANGED <<files, mem, slots_count, partition, task_partition, sources, chain,
                   misuse>>

\* A buffer that cannot be mapped is read into all the same, through a null pointer.
LoadUnmapped ==
    /\ step[1] = "bits"
    /\ Token(TaskLines[step[2]], 5) # NULL
    /\ Crashes("unmapped")

CreateListener ==
    /\ step = FrontEnd
    /\ mode = "normal"
    /\ Constructs(FrontEnd, <<>>, Signals)
    /\ UNCHANGED layout

\* The cyclic client binds to every hw-task, of which there must be one.
CreateCyclicClient ==
    /\ step = FrontEnd
    /\ mode # "normal"
    /\ \/ TaskLines # <<>> /\ Constructs(FrontEnd, <<>>, Signals)
       \/ TaskLines = <<>> /\ (Fails({}) \/ FailsFreeing({FrontEnd}, <<FrontEnd>>))
    /\ UNCHANGED layout

CreateSignals ==
    /\ step = Signals
    /\ Constructs(Signals, <<>>, <<"register", 1>>)
    /\ UNCHANGED layout

-----------------------------------------------------------------------------
(* The reactor's table, and the running server. *)

Source(x, owned) == [handler |-> x, owned |-> owned]

\* A slip: timers are not registered.
SlipSlotsOnly(p) == [s \in 1..slots_count[p] |-> Source(Slot(p, s), FALSE)]

\* partiton_register_slots
PartitionSources(p) ==
    FlattenSeq([s \in 1..slots_count[p] |->
                   <<Source(Slot(p, s), FALSE), Source(Timer(p, s), FALSE)>>])

\* What the three modes register, in order.
Registrations ==
    <<Source(Signals, TRUE), Source(<<"devcfg">>, FALSE)>>
    \o FlattenSeq([p \in 1..Len(ArchLines) |-> PartitionSources(p)])
    \o <<Source(FrontEnd, TRUE)>>

InactiveEntries == {k \in DOMAIN sources : sources[k] = Inactive}

\* The first inactive entry is taken, and marked before epoll is asked.
Added(e) == [sources EXCEPT ![Min(InactiveEntries)] = e]

\* One registration: it succeeds, epoll refuses, or there is no entry left.
Register ==
    /\ step[1] = "register"
    /\ LET n == step[2]
           e == Registrations[n]
       IN
       \/ /\ InactiveEntries # {}
          /\ sources' = Added(e)
          /\ step' = IF n < Len(Registrations) THEN <<"register", n + 1>> ELSE <<"running">>
          /\ UNCHANGED <<files, mem, chain, misuse>>
       \/ /\ InactiveEntries # {}
          /\ sources' = Added(e)
          /\ StartFreeing(mem, ErrorChain(sources'))
       \/ /\ InactiveEntries = {}
          /\ Fails({})
    /\ UNCHANGED layout

\* The event loop ends with this table and memory.
Leaves(m, table) ==
    /\ StartFreeing(m, ShutdownChain(table))
    /\ sources' = [k \in DOMAIN table |-> IF table[k].owned THEN Inactive ELSE table[k]]

\* The listener: the new client is registered; if it cannot be, the loop ends, and
\* only a client that has an entry is freed.
Connect ==
    /\ step = <<"running">>
    /\ mode = "normal"
    /\ \E k \in 1..MaxClients :
          /\ \A j \in 1..MaxClients : mem[Client(j)] = "none" <=> j >= k
          /\ LET m == [mem EXCEPT ![Client(k)] = "live"]
                 e == Source(Client(k), TRUE)
             IN
             \/ /\ InactiveEntries # {}
                /\ mem' = m
                /\ sources' = Added(e)
                /\ UNCHANGED <<files, step, chain, misuse>>
             \/ /\ InactiveEntries # {}
                /\ Leaves(m, Added(e))
             \/ /\ InactiveEntries = {}
                /\ Leaves(m, sources)
    /\ UNCHANGED layout

\* A client that could not be created is registered as NULL: the reactor asserts.
ConnectFails ==
    /\ step = <<"running">>
    /\ mode = "normal"
    /\ step' = <<"aborted">>
    /\ UNCHANGED <<files, mem, layout, sources, chain, misuse>>

\* A slip: the entry is not cleared.
SlipNotCleared(k) == sources

\* free_event_source_ for a client that left.
Cleared(k) == [sources EXCEPT ![k] = Inactive]

Detach ==
    /\ step = <<"running">>
    /\ \E k \in DOMAIN sources :
          /\ sources[k].handler[1] = "client"
          /\ mem' = [mem EXCEPT ![sources[k].handler] = "freed"]
          /\ sources' = Cleared(k)
    /\ UNCHANGED <<files, step, layout, chain, misuse>>

\* A signal or a system error: the loop ends.
Shutdown ==
    /\ step = <<"running">>
    /\ Leaves(mem, sources)
    /\ UNCHANGED layout

Gone ==
    /\ step[1] \in {"exited", "aborted", "crashed"}
    /\ UNCHANGED startupVars

StartupNext ==
    \/ CreateBase \/ ReadArch \/ CreatePartition \/ CreateSlot \/ CreateTimer \/ TimerfdFails
    \/ ReadTasks \/ CreateTask \/ CrashOnTask \/ LoadBits \/ LoadUnmapped
    \/ ConfigureTask
    \/ CreateListener \/ CreateCyclicClient \/ CreateSignals \/ Register
    \/ Connect \/ ConnectFails \/ Detach \/ Shutdown
    \/ FreeNext \/ Exit \/ Gone

StartupSpec == StartupInit /\ [][StartupNext]_startupVars

=============================================================================
