--------------------------- MODULE FredServerInv ---------------------------
(***************************************************************************)
(* What the server as a whole is meant to guarantee.                        *)
(***************************************************************************)
EXTENDS FredServer

\* Types of the variables the server adds to the scheduler.
ClientRecord ==
    [conn : {"absent", "backlog", "open"}, peer : {"alive", "closed", "reset"},
     state : {"EMPTY", "READY"}, tasks : Seq(HwTasks), inbox : Seq(Messages),
     owed : Nat, unread : BOOLEAN, pushed : Nat, buffers : SUBSET (Nat \X Nat)]

Sources == {SlotSrc(s) : s \in Slots} \cup {TimerSrc(s) : s \in Slots}
           \cup {ClientSrc(r) : r \in Requests} \cup {DevcfgSrc, ListenerSrc}

ServerTypeOK ==
    /\ client \in [Requests -> ClientRecord]
    /\ \A r \in Requests : Len(client[r].tasks) <= MaxBind /\ Len(client[r].inbox) <= MaxInbox
    /\ batch \subseteq Sources
    /\ backlog \in Seq(Requests)
    /\ \A r \in Requests : client[r].conn = "backlog" <=> r \in ToSet(backlog)

\* Every message a client sends is answered exactly once: what an open connection is
\* owed is what still sits in its socket plus the request the scheduler holds.
OneReplyPerMessage ==
    Running => \A r \in Requests :
        client[r].conn = "open" =>
            client[r].owed = Len(client[r].inbox) + (IF Waiting(r) THEN 1 ELSE 0)

\* The memory of a client is freed only when neither the queues, the device nor a slot
\* points into it (the accel_req is embedded in the client object).
FreedNotReferenced ==
    status = "up" => \A r \in Requests : client[r].conn # "open" => PlacesOf(r) = 0

\* The data buffers of a client's bound hw-tasks.
BuffersOf(tasks) ==
    UNION {{<<i, j>> : j \in 1..BufferCounts[tasks[i]]} : i \in 1..Len(tasks)}

\* The kernel buffers in use are exactly those of the bound hw-tasks of connected
\* clients, and an accepted request runs on buffers its client still has.
BuffersOwned ==
    Running => \A r \in Requests :
        /\ client[r].buffers = BuffersOf(client[r].tasks)
        /\ Waiting(r) => req[r].hw_task \in ToSet(client[r].tasks)

\* The interrupt of slot s raced its watchdog: both are pending, or it outlived the
\* execution it is of, or another execution has begun under it.
Raced(s) ==
    hw[s].irq /\ (timer[s].state = "expired" \/ slot[s].state # "EXEC" \/ hw[s].busy)

\* No handler takes the event that another handler of its batch is still to be called
\* for, so none reads an empty descriptor, except where a completion raced its watchdog:
\* then the handler of that interrupt may take a slot's or a watchdog's event
\* (slot_timer_disarm resets the timerfd that fd_timer_clear_after_timeout then reads).
BatchFresh ==
    [][Running' =>
        \A x \in batch' \cap ReadySources : x \in ReadySources' \/
            \E s, z \in Slots : /\ Raced(s) /\ SlotSrc(s) \in batch \ batch'
                               /\ x \in {SlotSrc(z), TimerSrc(z)}]_allVars

\* Clients that follow the protocol, whatever they ask for and whenever they come and
\* go, never bring the server down.
ServerStaysUp == status = "up"

\* The server, with its batches, sessions and connections, drives the scheduler only
\* through steps of FredScheduler, so what holds there holds here.
RefinesScheduler == Spec

\* Every message is answered.
ServerFairness ==
    /\ WF_allVars(Poll) /\ WF_allVars(HandleDevcfg) /\ WF_allVars(HandleListener)
    /\ WF_allVars(Environment /\ RcfgDone)
    /\ \A s \in Slots :
        /\ WF_allVars(HandleSlot(s)) /\ WF_allVars(HandleTimer(s))
        /\ WF_allVars(Environment /\ TimerExpire(s))
    /\ \A r \in Requests :
        WF_allVars(HandleInit(r) \/ HandleRefused(r) \/ HandleBind(r) \/ HandleRun(r)
                   \/ HandleHangup(r))

FairServerSpec == ServerSpec /\ ServerFairness

\* A client that has sent a message is eventually answered, through the reactor's
\* batches and the scheduler's queues, even when its accelerator never finishes.
EveryMessageAnswered == \A r \in Requests : client[r].owed > 0 ~> client[r].owed = 0

-----------------------------------------------------------------------------
(* What comments of the repository say and the code does not do. *)

\* "Max *one* request at time no need to allocate dynamically" (sw_task_client.h).
OneRequestAtATime == \A r \in Requests : client[r].pushed <= 1

\* "> 0 in case of single handler error (or remove request) -> reactor must detach
\* handler" (event_handler.h): a client that dies takes only its own handler down.
SingleClientFailure == status = "up"
=============================================================================
