---------------------------- MODULE FredServer ----------------------------
(***************************************************************************)
(* The whole server: the reactor loop (reactor_epoll.c), the listener       *)
(* (sw_tasks_listener.c), the sw-task clients with their protocol           *)
(* (sw_task_client.c) and the signal receiver (signals_recv.c), around the  *)
(* scheduler of FredScheduler.                                              *)
(*                                                                         *)
(* epoll_wait returns a batch of ready sources; the loop then calls one     *)
(* handler after the other without asking again, so a handler may run after *)
(* an earlier one of its batch changed what it was called for.              *)
(***************************************************************************)
EXTENDS FredSchedulerInv

CONSTANTS
    MaxBind,       \* MAX_HW_TASKS - 1: hw-tasks one client may bind
    MaxInbox,      \* bound: unread messages in one client's socket
    BufferCounts,  \* hw_task->data_buffs_count of every hw-task
    ClientFaults,  \* what clients do besides the synchronous protocol
    ServerFaults   \* what the system does to the server

ASSUME ServerConstantsOK ==
    /\ MaxBind \in Nat /\ MaxInbox \in Nat \ {0}
    /\ BufferCounts \in [HwTasks -> Nat]
    /\ ClientFaults \subseteq {"pipelining", "crash"}
    /\ ServerFaults \subseteq {"alloc", "accept", "signal"}

VARIABLES
    client,  \* per client: connection, socket contents and struct sw_task_client
    backlog, \* connections the listener has not accepted yet
    batch    \* epoll_events[i..]: the sources the reactor has still to handle

serverVars == <<client, backlog, batch>>
allVars == <<vars, client, backlog, batch>>

\* What a client may send; a task of NULL is an id no hw-task of the layout has.
Messages == [head : {"BIND", "RUN"}, task : HwTasks \cup {NULL}]
            \cup [head : {"INIT", "JUNK"}, task : {NULL}]

\* conn: "backlog" is connected but not accepted. peer: "reset" was closed with
\* an unread reply. owed: messages sent and not answered; unread: a reply in the
\* client's socket. pushed: how often the embedded accel_req is in the scheduler.
\* buffers: <<index of the bound hw-task, index of the buffer>> allocated.
NoClient(left) ==
    [conn |-> "absent", peer |-> "alive", state |-> "EMPTY", tasks |-> <<>>,
     inbox |-> <<>>, owed |-> 0, unread |-> FALSE, pushed |-> 0, buffers |-> left]

ServerInit ==
    /\ Init
    /\ client = [r \in Requests |-> NoClient({})]
    /\ backlog = <<>>
    /\ batch = {}

-----------------------------------------------------------------------------
(* Event sources. *)

SlotSrc(s) == <<"slot", s>>
TimerSrc(s) == <<"timer", s>>
ClientSrc(r) == <<"client", r>>
DevcfgSrc == <<"devcfg", NULL>>
ListenerSrc == <<"listener", NULL>>
SignalSrc == <<"signal", NULL>>

ReadySources ==
         {SlotSrc(s) : s \in {u \in Slots : hw[u].irq}}
    \cup {TimerSrc(s) : s \in {u \in Slots : timer[u].state = "expired"}}
    \cup {ClientSrc(r) : r \in {q \in Requests :
            client[q].conn = "open"
            /\ (client[q].inbox # <<>> \/ client[q].peer # "alive")}}
    \cup (IF devcfg.drv = "done" THEN {DevcfgSrc} ELSE {})
    \cup (IF backlog # <<>> THEN {ListenerSrc} ELSE {})

\* A request was freed while the scheduler holds it, or was inserted twice in the
\* scheduler's lists: nothing the program does from here on is defined.
Corrupt == \E r \in Requests : (Waiting(r) /\ client[r].conn # "open") \/ client[r].pushed > 1

Running == status = "up" /\ ~Corrupt

\* The loop takes source x from the batch and calls its handler.
Takes(x) ==
    /\ Running
    /\ x \in batch
    /\ batch' = batch \ {x}

\* All handlers but the listener's leave the backlog alone.
Handle(x) == Takes(x) /\ UNCHANGED backlog

\* epoll_wait.
Poll ==
    /\ Running
    /\ batch = {}
    /\ ReadySources # {}
    /\ batch' = ReadySources
    /\ UNCHANGED <<vars, client, backlog>>

-----------------------------------------------------------------------------
(* Slips, as in FredScheduler. *)

SlipFreeAllButLast(c) == {b \in c.buffers : b[1] >= Len(c.tasks)} \* i < hw_tasks_count - 1
SlipBindUnbounded(c, t) ==                                \* limit not checked
    c.state = "READY" /\ t # NULL /\ t \notin banned
SlipRunBanned(c, t) ==                                    \* banned flag not checked
    c.state = "READY" /\ t \in ToSet(c.tasks)
SlipDoneOnly(r) ==                                        \* OVERRUN not sent
    IF reply'[r] = "DONE" /\ reply[r] # "DONE"
    THEN [client EXCEPT ![r] = [@ EXCEPT !.owed = @ - 1, !.unread = TRUE, !.pushed = @ - 1]]
    ELSE client

-----------------------------------------------------------------------------
(* Clients as the server sees them. *)

\* alloc_data_buff_, when n of the buffers of the next hw-task to bind are allocated.
Allocated(c, n) == {<<Len(c.tasks) + 1, i>> : i \in 1..n}

\* free_all_data_buff_ visits the hw_tasks_count counted hw-tasks; the rest is left.
LeftBuffers(c) == {b \in c.buffers : b[1] > Len(c.tasks)}

\* free_()
FreeClient(c) ==
    [NoClient(LeftBuffers(c)) EXCEPT !.owed = c.owed, !.pushed = c.pushed]

\* Leaving the event loop frees every client (REACT_OWNED).
AfterHandler(cl) ==
    client' = IF status' = "down"
              THEN [r \in Requests |-> IF cl[r].conn = "open" THEN FreeClient(cl[r])
                                       ELSE cl[r]]
              ELSE cl

\* A write to the socket reaches the client while its peer lives. Nothing ignores
\* SIGPIPE, so a write to a closed peer ends the process.
Reachable(r) == client[r].peer = "alive"

\* The socket is non-blocking and may be full of replies the client has not read (one
\* stands for many); only a client that sends on without reading gets there.
Full(r) == Reachable(r) /\ "pipelining" \in ClientFaults /\ client[r].unread

\* Whether a notification is written to the socket of client r.
Deliveries(r) == {Reachable(r)} \cup (IF Full(r) THEN {FALSE} ELSE {})

Answered(c) == [c EXCEPT !.owed = @ - 1, !.unread = TRUE]

\* send_fred_message_ as the only effect, with c the client's new record.
Reply(r, c) ==
    /\ status' = IF Reachable(r) THEN "up" ELSE "down"
    /\ AfterHandler([client EXCEPT ![r] = Answered(c)])
    /\ UNCHANGED <<slot, timer, hw, devcfg, req, part_queues, fri_queue, banned,
                   clock, reply>>

\* A handler that returns 1: the reactor removes and frees it.
Detach(r, c) ==
    /\ client' = [client EXCEPT ![r] = FreeClient(c)]
    /\ UNCHANGED vars

\* The reply does not fit the socket (EAGAIN), which is an error of this client alone.
Unwritten(r, c) == Full(r) /\ Detach(r, c)

\* The next message of client r, consumed by handle_event_.
Receives(r, heads) ==
    /\ Handle(ClientSrc(r))
    /\ client[r].inbox # <<>>
    /\ Head(client[r].inbox).head \in heads

Consumed(r) == [client[r] EXCEPT !.inbox = Tail(@)]

Message(r) == Head(client[r].inbox)

\* FRED_MSG_INIT
HandleInit(r) ==
    /\ Receives(r, {"INIT"})
    /\ LET c == [Consumed(r) EXCEPT !.state = "READY"] IN Reply(r, c) \/ Unwritten(r, c)

\* FRED_MSG_BIND and FRED_MSG_RUN of an unknown, banned, unbound or surplus
\* hw-task, or too early; and every other message: FRED_MSG_ERROR.
MayBind(c, t) == c.state = "READY" /\ t # NULL /\ t \notin banned /\ Len(c.tasks) < MaxBind

MayRun(c, t) == c.state = "READY" /\ t \in ToSet(c.tasks) /\ t \notin banned

HandleRefused(r) ==
    /\ Receives(r, {"BIND", "RUN", "JUNK"})
    /\ Message(r).head = "BIND" => ~MayBind(client[r], Message(r).task)
    /\ Message(r).head = "RUN" => ~MayRun(client[r], Message(r).task)
    /\ Reply(r, Consumed(r)) \/ Unwritten(r, Consumed(r))

\* FRED_MSG_BIND: the buffers of the hw-task are allocated under the first free
\* index; the index is counted only once the client has been told.
HandleBind(r) ==
    /\ Receives(r, {"BIND"})
    /\ LET c == Consumed(r)
           t == Message(r).task
       IN /\ MayBind(client[r], t)
          /\ \/ LET bound == [c EXCEPT !.buffers = @ \cup Allocated(c, BufferCounts[t])] IN
                \/ Reply(r, IF Reachable(r) THEN [bound EXCEPT !.tasks = Append(@, t)]
                            ELSE bound)
                \/ Unwritten(r, bound)
             \/ /\ "alloc" \in ServerFaults
                /\ \E n \in 0..(BufferCounts[t] - 1) :
                      Detach(r, [c EXCEPT !.buffers = @ \cup Allocated(c, n)])

\* FRED_MSG_RUN: the embedded request goes to the scheduler, whatever became of the
\* previous one.
HandleRun(r) ==
    /\ Receives(r, {"RUN"})
    /\ MayRun(client[r], Message(r).task)
    /\ LET cl == [client EXCEPT ![r] = [Consumed(r) EXCEPT !.pushed = @ + 1]] IN
       \/ /\ Waiting(r)
          /\ client' = cl
          /\ UNCHANGED vars
       \/ /\ ~Waiting(r)
          /\ Push(r, Message(r).task)
          /\ AfterHandler(cl)

\* read() returns 0; or epoll reports an error of this client's socket, as read() does
\* once the messages are consumed: the whole loop is left.
HandleHangup(r) ==
    /\ Handle(ClientSrc(r))
    /\ \/ client[r].peer = "closed" /\ client[r].inbox = <<>> /\ Detach(r, client[r])
       \/ /\ client[r].peer = "reset"
          /\ status' = "down"
          /\ AfterHandler(client)
          /\ UNCHANGED <<slot, timer, hw, devcfg, req, part_queues, fri_queue,
                         banned, clock, reply>>

\* sw_tasks_listener: accept one connection and register it. A failed
\* sw_task_client_init is not noticed and registers NULL.
HandleListener ==
    /\ Takes(ListenerSrc)
    /\ \/ /\ client' = [client EXCEPT ![Head(backlog)].conn = "open"]
          /\ backlog' = Tail(backlog)
          /\ UNCHANGED vars
       \/ "accept" \in ServerFaults /\ Abort /\ UNCHANGED <<client, backlog>>

-----------------------------------------------------------------------------
(* The scheduler's handlers, called by the loop. *)

\* sw_task_client_notify_action_: DONE or OVERRUN reaches client r, whose request
\* has left the scheduler.
Told(r) ==
    IF reply'[r] # reply[r]
    THEN [client EXCEPT ![r] = [Answered(client[r]) EXCEPT !.pushed = @ - 1]]
    ELSE client

HandleSlot(s) ==
    /\ Handle(SlotSrc(s))
    /\ LET r == slot[s].exec_req IN
       /\ \E delivered \in Deliveries(r) : SlotHandler(s, delivered)
       /\ AfterHandler(Told(r))

\* fd_timer_clear_after_timeout: the timerfd is non-blocking, so reading one that
\* was disarmed by an earlier handler of the batch fails.
HandleTimer(s) ==
    /\ Handle(TimerSrc(s))
    /\ \/ LET r == timer[s].exec_req IN
          /\ timer[s].state = "expired"
          /\ \E delivered \in Deliveries(r) : SlotTimeout(s, delivered)
          /\ AfterHandler(Told(r))
       \/ /\ timer[s].state # "expired"
          /\ status' = "down"
          /\ AfterHandler(client)
          /\ UNCHANGED <<slot, timer, hw, devcfg, req, part_queues, fri_queue,
                         banned, clock, reply>>

HandleDevcfg ==
    /\ Handle(DevcfgSrc)
    /\ RcfgComplete
    /\ AfterHandler(client)

\* SIGINT, SIGQUIT or SIGTERM reached the signalfd.
HandleSignal ==
    /\ Running
    /\ "signal" \in ServerFaults
    /\ status' = "down"
    /\ AfterHandler(client)
    /\ UNCHANGED <<slot, timer, hw, devcfg, req, part_queues, fri_queue, banned, clock,
                   reply, backlog, batch>>

-----------------------------------------------------------------------------
(* The client processes. *)

ClientStep(r, c) ==
    /\ Running
    /\ client' = [client EXCEPT ![r] = c]
    /\ UNCHANGED <<vars, batch>>

Connect(r) ==
    /\ client[r].conn = "absent"
    /\ ClientStep(r, [NoClient(client[r].buffers) EXCEPT !.conn = "backlog"])
    /\ backlog' = Append(backlog, r)

\* A client sends a message and waits for the answer, unless it pipelines.
Send(r, m) ==
    /\ client[r].conn # "absent" /\ client[r].peer = "alive"
    /\ Len(client[r].inbox) < MaxInbox
    /\ "pipelining" \in ClientFaults \/ (client[r].owed = 0 /\ ~client[r].unread)
    /\ ClientStep(r, [client[r] EXCEPT !.inbox = Append(@, m), !.owed = @ + 1])
    /\ UNCHANGED backlog

ReadReply(r) ==
    /\ client[r].unread /\ client[r].peer = "alive"
    /\ ClientStep(r, [client[r] EXCEPT !.unread = FALSE])
    /\ UNCHANGED backlog

\* A client closes between two requests; one that crashes, at any time.
Disconnect(r) ==
    /\ client[r].conn # "absent" /\ client[r].peer = "alive"
    /\ "crash" \in ClientFaults \/ (client[r].owed = 0 /\ ~client[r].unread)
    /\ ClientStep(r, [client[r] EXCEPT !.peer = IF client[r].unread THEN "reset"
                                                ELSE "closed"])
    /\ UNCHANGED backlog

\* The hardware and the kernel timers.
Environment ==
    /\ Running
    /\ \/ \E s \in Slots : AccelDone(s) \/ TimerExpire(s)
       \/ RcfgDone
    /\ UNCHANGED serverVars

Ended == ~Running /\ UNCHANGED allVars

ServerNext ==
    \/ Poll
    \/ \E s \in Slots : HandleSlot(s) \/ HandleTimer(s)
    \/ HandleDevcfg \/ HandleListener \/ HandleSignal
    \/ \E r \in Requests :
        \/ HandleInit(r) \/ HandleRefused(r) \/ HandleBind(r) \/ HandleRun(r)
        \/ HandleHangup(r)
        \/ Connect(r) \/ ReadReply(r) \/ Disconnect(r)
        \/ \E m \in Messages : Send(r, m)
    \/ Environment
    \/ Ended

ServerSpec == ServerInit /\ [][ServerNext]_allVars
=============================================================================
