--------------------------- MODULE AgentPresence ---------------------------
(***************************************************************************)
(* Whether the queues may ring one agent: AgentPresenceService keeps in a  *)
(* Redis hash, per server node, until when the agent's sockets on that     *)
(* node count as connected, and AgentQueuePauseService pauses the agent's  *)
(* queue membership by that and by the agent's status                      *)
(* (shouldPauseQueue), whenever the first socket of a node comes or its    *)
(* last one goes, the agent changes the status or logs out.                *)
(*                                                                         *)
(* Time is counted in heartbeats of 15 seconds; a write of a field takes   *)
(* none.  The key's own TTL is not modelled: a key outlives its fields.    *)
(* QueuePause follows the read of the presence at once.                    *)
(***************************************************************************)
EXTENDS Naturals

CONSTANTS
    Nodes,
    Lifetime,   \* AGENT_PRESENCE_TTL_SECONDS in heartbeats: 2
    MaxSockets, \* most sockets of the agent on a node
    MaxJobs     \* most status changes and recomputations at a time

ASSUME PresenceAssumption ==
    Lifetime \in Nat \ {0, 1} /\ MaxSockets \in Nat \ {0} /\ MaxJobs \in Nat

Jobs == 1 .. MaxJobs

(* "none": there is no open row, the agent is logged out.  BREAK stands for *)
(* the statuses in NOT_TAKING_CALLS, READY for all others.                  *)
Statuses == {"none", "READY", "BREAK"}

VARIABLES
    sockets,    \* per node the number of the agent's sockets (tracked)
    field,      \* per node how long its field is still valid; 0: absent or in the past
    left,       \* the same for the fields of processes that have died
    due,        \* nodes whose heartbeat is due
    missed,     \* nodes whose last write of the field was refused
    status,     \* statusCode of the open row of agentStatusHistory
    job,        \* per job its node, its next step, and the status it knows
    paused,     \* the queue member in Asterisk
    settled,    \* history: this system has set it
    disturbed   \* history: jobs overlapped, a node died, a command was refused or lost

vars == <<sockets, field, left, due, missed, status, job, paused, settled, disturbed>>
queue == <<paused, settled>>
presence == <<sockets, field, left, due, missed>>

(* The steps of a job: reconcile reads the status, then the presence;       *)
(* changeStatus closes the open row, creates one, reads the presence;       *)
(* markLoggedOut closes the open row, then pauses.                          *)
JobRecords == [node : Nodes, step : {"status", "close", "create", "presence", "logout", "pause"}, status : Statuses]
NoJob == <<>>

(* The type invariant. *)
TypeOK ==
    /\ due \subseteq Nodes /\ missed \subseteq Nodes
    /\ sockets \in [Nodes -> 0 .. MaxSockets]
    /\ field \in [Nodes -> 0 .. Lifetime] /\ left \in 0 .. Lifetime
    /\ status \in Statuses
    /\ job \in [Jobs -> JobRecords \cup {NoJob}]
    /\ paused \in BOOLEAN /\ settled \in BOOLEAN /\ disturbed \in BOOLEAN

(* How the queue member was left in Asterisk is not known. *)
Init ==
    /\ due = {} /\ missed = {}
    /\ sockets = [n \in Nodes |-> 0]
    /\ field = [n \in Nodes |-> 0] /\ left = 0
    /\ status = "none"
    /\ job = [j \in Jobs |-> NoJob]
    /\ paused \in BOOLEAN /\ settled = FALSE /\ disturbed = FALSE
----------------------------------------------------------------------------
(* isConnected, when Redis answers. *)
ReadsConnected == left > 0 \/ \E n \in Nodes : field[n] > 0

Quiet == \A j \in Jobs : job[j] = NoJob

(* A job starts on node n, after a write of the field that Redis may have   *)
(* refused; the first free slot is taken.                                   *)
Starts(n, step, s, refused) ==
    /\ \E j \in Jobs :
         /\ job[j] = NoJob /\ \A i \in Jobs : i < j => job[i] # NoJob
         /\ job' = [job EXCEPT ![j] = [node |-> n, step |-> step, status |-> s]]
    /\ disturbed' = (disturbed \/ ~Quiet \/ refused)

(* writeField of node n; an error is logged. *)
WriteField(n) ==
    \/ field' = [field EXCEPT ![n] = Lifetime] /\ missed' = missed \ {n}
    \/ missed' = missed \cup {n} /\ UNCHANGED field

(* markConnected: the first socket of a node makes the queue be looked at. *)
Connects(n) ==
    /\ sockets[n] < MaxSockets
    /\ sockets' = [sockets EXCEPT ![n] = @ + 1]
    /\ WriteField(n)
    /\ \/ /\ sockets[n] = 0
          /\ Starts(n, "status", "none", n \in missed')
       \/ /\ sockets[n] > 0
          /\ UNCHANGED <<job, disturbed>>
    /\ UNCHANGED <<left, due, status, queue>>

(* Unlike ClearField it deletes the key. *)
ClearKey(n) == field' = [m \in Nodes |-> 0] /\ left' = 0

(* clearField: the node's own field; when Redis refuses, it runs out. *)
ClearField(n) ==
    /\ field' \in {field, [field EXCEPT ![n] = 0]}
    /\ UNCHANGED left

(* markDisconnected: so does the last one that goes. *)
Disconnects(n) ==
    /\ sockets[n] > 0
    /\ sockets' = [sockets EXCEPT ![n] = @ - 1]
    /\ \/ /\ sockets[n] = 1
          /\ ClearField(n)
          /\ Starts(n, "status", "none", field'[n] > 0)
          /\ due' = due \ {n} /\ missed' = missed \ {n}
       \/ /\ sockets[n] > 1
          /\ UNCHANGED <<field, left, job, disturbed, due, missed>>
    /\ UNCHANGED <<status, queue>>

(* refreshAll *)
Heartbeat(n) ==
    /\ n \in due /\ due' = due \ {n}
    /\ WriteField(n)
    /\ disturbed' = (disturbed \/ n \in missed')
    /\ UNCHANGED <<sockets, left, status, job, queue>>

Less(k) == IF k = 0 THEN 0 ELSE k - 1

(* Unlike Tick it lets the fields of dead processes stand. *)
TickWithoutExpiry ==
    /\ due = {}
    /\ due' = {n \in Nodes : sockets[n] > 0}
    /\ field' = [n \in Nodes |-> Less(field[n])]
    /\ UNCHANGED <<sockets, left, missed, status, job, queue, disturbed>>

(* Fifteen seconds pass; timers are punctual. *)
Tick ==
    /\ due = {}
    /\ due' = {n \in Nodes : sockets[n] > 0}
    /\ field' = [n \in Nodes |-> Less(field[n])]
    /\ left' = Less(left)
    /\ UNCHANGED <<sockets, missed, status, job, queue, disturbed>>

(* A process dies with its jobs and sockets, and another with a new nodeId  *)
(* takes its place.  A regular stop (onModuleDestroy) clears its field      *)
(* first; neither looks at the queue.                                       *)
Restarts(n) ==
    /\ sockets' = [sockets EXCEPT ![n] = 0]
    /\ field' = [field EXCEPT ![n] = 0]
    /\ left' \in {left, IF field[n] > left THEN field[n] ELSE left}
    /\ due' = due \ {n} /\ missed' = missed \ {n}
    /\ job' = [j \in Jobs |-> IF job[j] # NoJob /\ job[j].node = n THEN NoJob ELSE job[j]]
    /\ disturbed' = TRUE
    /\ UNCHANGED <<status, queue>>
----------------------------------------------------------------------------
(* changeStatus and markLoggedOut are called on any node. *)
ChangeStatus(n, s) ==
    /\ s # "none"
    /\ Starts(n, "close", s, FALSE)
    /\ UNCHANGED <<presence, status, queue>>

MarkLoggedOut(n) ==
    /\ Starts(n, "logout", "none", FALSE)
    /\ UNCHANGED <<presence, status, queue>>

(* Unlike ShouldPause it looks at the connection only. *)
PauseByPresence(connected, s) == ~connected

(* shouldPauseQueue *)
ShouldPause(connected, s) == s \in {"none", "BREAK"} \/ ~connected

(* setQueuePaused: Asterisk executes QueuePause, or the node is not         *)
(* connected to it and drops the command.                                   *)
SetQueuePaused(pause) ==
    \/ paused' = pause /\ settled' = TRUE /\ UNCHANGED disturbed
    \/ disturbed' = TRUE /\ UNCHANGED queue

(* The next step of a job. *)
Step(j) ==
    /\ job[j] # NoJob
    /\ \/ /\ job[j].step = "status"
          /\ job' = [job EXCEPT ![j] = [@ EXCEPT !.step = "presence", !.status = status]]
          /\ UNCHANGED <<status, queue, disturbed>>
       \/ /\ job[j].step = "close"
          /\ status' = "none"
          /\ job' = [job EXCEPT ![j] = [@ EXCEPT !.step = "create"]]
          /\ UNCHANGED <<queue, disturbed>>
       \/ /\ job[j].step = "create"
          /\ status' = job[j].status
          /\ job' = [job EXCEPT ![j] = [@ EXCEPT !.step = "presence"]]
          /\ UNCHANGED <<queue, disturbed>>
       \/ /\ job[j].step = "presence"
          /\ \/ SetQueuePaused(ShouldPause(ReadsConnected, job[j].status))
             \/ /\ paused' = ShouldPause(TRUE, job[j].status)  \* Redis refused the read
                /\ settled' = TRUE /\ disturbed' = TRUE
          /\ job' = [job EXCEPT ![j] = NoJob]
          /\ UNCHANGED status
       \/ /\ job[j].step = "logout"
          /\ status' = "none"
          /\ job' = [job EXCEPT ![j] = [@ EXCEPT !.step = "pause"]]
          /\ UNCHANGED <<queue, disturbed>>
       \/ /\ job[j].step = "pause"
          /\ SetQueuePaused(ShouldPause(FALSE, job[j].status))
          /\ job' = [job EXCEPT ![j] = NoJob]
          /\ UNCHANGED status
    /\ UNCHANGED presence

(* A query of the job fails. *)
Fails(j) ==
    /\ job[j] # NoJob
    /\ job' = [job EXCEPT ![j] = NoJob]
    /\ disturbed' = TRUE
    /\ UNCHANGED <<presence, status, queue>>

Next ==
    \/ Tick
    \/ \E n \in Nodes :
         \/ Connects(n) \/ Disconnects(n) \/ Heartbeat(n) \/ Restarts(n)
         \/ MarkLoggedOut(n)
         \/ \E s \in Statuses : ChangeStatus(n, s)
    \/ \E j \in Jobs : Step(j) \/ Fails(j)

(* Timers fire, time passes, Redis, the database and Asterisk answer.       *)
Fairness ==
    /\ WF_vars(Tick)
    /\ \A n \in Nodes : WF_vars(Heartbeat(n))
    /\ \A j \in Jobs : WF_vars(Step(j))

Spec == Init /\ [][Next]_vars /\ Fairness
----------------------------------------------------------------------------
(* An agent with a socket on a node reads as connected on every node,       *)
(* whatever sockets of other nodes come and go, as long as Redis took that  *)
(* node's last write.                                                       *)
SocketCounts == \A n \in Nodes : sockets[n] > 0 /\ n \notin missed => ReadsConnected

(* When no socket is left anywhere the agent stops reading as connected,    *)
(* even when a node has died and could not clear its field.                 *)
GoneReadsGone == (\A n \in Nodes : sockets[n] = 0) ~> (~ReadsConnected \/ \E n \in Nodes : sockets[n] > 0)

(* At rest, once this system has set it, the queue is paused exactly when   *)
(* the agent has no socket, is on a break or is logged out, provided that   *)
(* nothing has overlapped, died or been refused.                            *)
PauseFollows ==
    Quiet /\ settled /\ ~disturbed =>
        paused = (status \in {"none", "BREAK"} \/ \A n \in Nodes : sockets[n] = 0)
=============================================================================
