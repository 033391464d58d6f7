---------------------------- MODULE AccelService ----------------------------
(***************************************************************************)
(* What the server promises its clients, without queues, time stamps, the  *)
(* reconfiguration device or the watchdogs: an accepted request is run at   *)
(* most once, on a slot of its hw-task's partition that it has for itself,  *)
(* and is answered exactly once: DONE after its accelerator has finished,   *)
(* or OVERRUN, which bans the hw-task, while it has not.                    *)
(***************************************************************************)
EXTENDS Functions

CONSTANTS Requests, HwTasks, Slots, TaskPartition, SlotPartition, NULL

VARIABLES
    phase,   \* of each request: "idle", "accepted", "running", "computed"
    task,    \* the hw-task of a request that is not idle
    place,   \* the slot of a running or computed request
    answer,  \* the last answer to each client, "wait" while one is owed
    banned   \* hw-tasks that are refused

absvars == <<phase, task, place, answer, banned>>

Init ==
    /\ phase = [r \in Requests |-> "idle"]
    /\ task = [r \in Requests |-> NULL]
    /\ place = [r \in Requests |-> NULL]
    /\ answer = [r \in Requests |-> "none"]
    /\ banned = {}

\* From phases ph, tasks tk and places pl, any accepted requests may start, each on
\* a free slot of its own partition.
MayStart(ph, tk, pl) ==
    \E R \in SUBSET {r \in Requests : ph[r] = "accepted"} :
        \E f \in [R -> Slots \ {pl[r] : r \in Requests}] :
            /\ IsInjective(f)
            /\ \A r \in R : SlotPartition[f[r]] = TaskPartition[tk[r]]
            /\ phase' = [r \in Requests |-> IF r \in R THEN "running" ELSE ph[r]]
            /\ place' = [r \in Requests |-> IF r \in R THEN f[r] ELSE pl[r]]
            /\ task' = tk

Submit(r, t) ==
    /\ phase[r] = "idle"
    /\ t \notin banned
    /\ MayStart([phase EXCEPT ![r] = "accepted"], [task EXCEPT ![r] = t], place)
    /\ answer' = [answer EXCEPT ![r] = "wait"]
    /\ UNCHANGED banned

Refuse(r) ==
    /\ phase[r] = "idle"
    /\ banned # {}
    /\ answer' = [answer EXCEPT ![r] = "ERROR"]
    /\ UNCHANGED <<phase, task, place, banned>>

Start == MayStart(phase, task, place) /\ UNCHANGED <<answer, banned>>

Compute(r) ==
    /\ phase[r] = "running"
    /\ phase' = [phase EXCEPT ![r] = "computed"]
    /\ UNCHANGED <<task, place, answer, banned>>

Release(r) ==
    MayStart([phase EXCEPT ![r] = "idle"], [task EXCEPT ![r] = NULL],
             [place EXCEPT ![r] = NULL])

AnswerDone(r) ==
    /\ phase[r] = "computed"
    /\ answer' = [answer EXCEPT ![r] = "DONE"]
    /\ Release(r)
    /\ UNCHANGED banned

AnswerOverrun(r) ==
    /\ phase[r] = "running"
    /\ answer' = [answer EXCEPT ![r] = "OVERRUN"]
    /\ banned' = banned \cup {task[r]}
    /\ Release(r)

Next ==
    \/ \E r \in Requests, t \in HwTasks : Submit(r, t)
    \/ \E r \in Requests :
        Refuse(r) \/ Compute(r) \/ AnswerDone(r) \/ AnswerOverrun(r)
    \/ Start

Spec == Init /\ [][Next]_absvars
=============================================================================
