------------------------------ MODULE CallFeed ------------------------------
(***************************************************************************)
(* How a change of a call reaches the screen of an agent:                  *)
(*                                                                         *)
(*   - the session engine writes a row to the outbox in the transaction of *)
(*     the change (enqueueOutbox);                                         *)
(*   - flush of OutboxPublisherService, started every three seconds on a   *)
(*     node that leads, publishes the rows that are not marked, oldest     *)
(*     first, and marks each one; flushes may overlap, on one node and on  *)
(*     two (LeaderElection shows that two nodes can lead for a while);     *)
(*   - commands (mute, transfer) publish the call they have read           *)
(*     themselves;                                                         *)
(*   - EventBusService carries a publication over Redis to every node, or, *)
(*     when Redis refuses it, to the sockets of the publishing node only;  *)
(*   - CallStateStore of the desktop decides which call the agent sees.    *)
(*                                                                         *)
(* The desktops in view are connected to the node Home.  The SIP half of   *)
(* CallStateStore, the customer of a call and the mute flag are left out.  *)
(***************************************************************************)
EXTENDS Naturals, Sequences, FiniteSets

CONSTANTS
    Calls, NoCall,
    Agents, NoAgent,
    Nodes, Home,
    MaxFlushes,    \* most flushes at a time
    Batch,         \* most rows of a flush (100 in the code)
    MaxRows,       \* most outbox rows
    MaxIncidents   \* most errors, refused or lost publications, changes of leader, commands
                   \* and outgoing calls, taken together

Flushes == 1 .. MaxFlushes

ASSUME FeedAssumption ==
    /\ NoCall \notin Calls /\ NoAgent \notin Agents /\ Home \in Nodes
    /\ MaxFlushes \in Nat /\ Batch \in Nat \ {0} /\ MaxRows \in Nat /\ MaxIncidents \in Nat

VARIABLES
    rows,        \* outbox rows in the order of createdAt: the message each one carries
    visible,     \* rows whose transaction has committed
    marked,      \* rows with publishedAt
    todo,        \* per flush the selected rows it has not finished
    step,        \* "idle", "publish" (the oldest of todo is next), "mark" (it was published)
    node,        \* the node a flush runs on, Home when it is idle
    leads,       \* nodes that take themselves for the leader
    command,     \* the message of a command that has read its call and not yet published, or <<>>
    sent,        \* history: rows that were published
    bus,         \* publications Redis has not delivered to Home
    screen,      \* the server half of Current of an agent's desktop
    expecting,   \* agents whose desktop expects an outgoing call (_expectOutboundUntil)
    window,      \* history: agents who dialled, took no call since, and whose window still runs
    raced,       \* history: two flushes overlapped, or a call ended under a command
    refused,     \* history: Redis refused a publication
    lost,        \* history: a publication was lost on its way to a desktop
    incidents    \* incidents so far

vars == <<rows, visible, marked, todo, step, node, leads, command, sent, bus, screen,
          expecting, window, raced, refused, lost, incidents>>

outboxVars == <<rows, visible>>
flushVars == <<marked, todo, step, node, leads>>
screenVars == <<screen, expecting, window>>

Messages == [call : Calls, kind : {"created", "updated", "ended"}, agent : Agents \cup {NoAgent}]
Rows == DOMAIN rows
RowsOf(c) == {i \in Rows : rows[i].call = c}
Newest(S) == CHOOSE i \in S : \A j \in S : j <= i
Oldest(S) == CHOOSE i \in S : \A j \in S : i <= j
Last(c) == rows[Newest(RowsOf(c))]
Incident == incidents < MaxIncidents /\ incidents' = incidents + 1

(* The type invariant. *)
TypeOK ==
    /\ rows \in Seq(Messages) /\ Len(rows) <= MaxRows
    /\ visible \subseteq Rows /\ marked \subseteq visible
    /\ todo \in [Flushes -> SUBSET visible]
    /\ step \in [Flushes -> {"idle", "publish", "mark"}]
    /\ node \in [Flushes -> Nodes]
    /\ leads \in SUBSET Nodes
    /\ command \in Messages \cup {<<>>}
    /\ sent \subseteq visible
    /\ bus \in Seq(Messages)
    /\ screen \in [Agents -> Calls \cup {NoCall}]
    /\ expecting \subseteq Agents /\ window \subseteq Agents
    /\ raced \in BOOLEAN /\ refused \in BOOLEAN /\ lost \in BOOLEAN
    /\ incidents \in 0 .. MaxIncidents

Init ==
    /\ rows = <<>> /\ visible = {} /\ marked = {}
    /\ todo = [t \in Flushes |-> {}]
    /\ step = [t \in Flushes |-> "idle"]
    /\ node = [t \in Flushes |-> Home]
    /\ leads = {Home}
    /\ command = <<>>
    /\ sent = {}
    /\ bus = <<>>
    /\ screen = [a \in Agents |-> NoCall]
    /\ expecting = {} /\ window = {}
    /\ raced = FALSE /\ refused = FALSE /\ lost = FALSE
    /\ incidents = 0
----------------------------------------------------------------------------
(* enqueueOutbox: the row takes its createdAt inside the transaction, which *)
(* holds the row of the call, so that a call has one such transaction at a  *)
(* time; those of different calls commit in any order.                      *)
Enqueue(m) ==
    /\ Len(rows) < MaxRows
    /\ RowsOf(m.call) \subseteq visible
    /\ rows' = Append(rows, m)
    /\ raced' = (raced \/ (m.kind = "ended" /\ command # <<>> /\ command.call = m.call))
    /\ UNCHANGED <<visible, flushVars, command, sent, bus, screenVars, refused, lost, incidents>>

(* A call begins unassigned.  Every later event of it writes an update, for *)
(* its agent or for one it is given now, also after the end (AgentComplete  *)
(* or BridgeEnter after Hangup: upsertSession does not look at the status). *)
(* An end is written for a call that is open: at first, or after a command  *)
(* has opened it again.                                                     *)
CallChanges(c) ==
    \/ RowsOf(c) = {} /\ Enqueue([call |-> c, kind |-> "created", agent |-> NoAgent])
    \/ /\ RowsOf(c) # {}
       /\ \E a \in Agents \cup {Last(c).agent} : Enqueue([call |-> c, kind |-> "updated", agent |-> a])
    \/ /\ RowsOf(c) # {} /\ Last(c).kind # "ended"
       /\ Enqueue([call |-> c, kind |-> "ended", agent |-> Last(c).agent])

Commit(i) ==
    /\ i \in Rows \ visible
    /\ visible' = visible \cup {i}
    /\ UNCHANGED <<rows, flushVars, command, sent, bus, screenVars, raced, refused, lost, incidents>>
----------------------------------------------------------------------------
(* AdoptServerCall and EndServerCall: what agent a's desktop holds, and      *)
(* whether it still expects an outgoing call, after message m.               *)
Takes(a, m) ==
    /\ m.kind # "ended"
    /\ \/ m.agent = a
       \/ m.agent = NoAgent /\ (a \in expecting \/ screen[a] = m.call)
    /\ screen[a] \in {NoCall, m.call}

(* Unlike Releases it keeps the call that ended. *)
ReleasesOthers(a, m) == m.kind # "ended" /\ m.agent \notin {a, NoAgent} /\ screen[a] = m.call

Releases(a, m) ==
    \/ m.kind # "ended" /\ m.agent \notin {a, NoAgent} /\ screen[a] = m.call
    \/ m.kind = "ended" /\ screen[a] \in {NoCall, m.call}

(* Message m reaches the desktops of the agents in S. *)
Apply(m, S) ==
    /\ screen' = [a \in Agents |-> CASE a \in S /\ Takes(a, m) -> m.call
                                     [] a \in S /\ Releases(a, m) -> NoCall
                                     [] OTHER -> screen[a]]
    /\ expecting' = {a \in expecting : ~(a \in S /\ Releases(a, m))}
    /\ window' = {a \in window : ~(a \in S /\ Takes(a, m))}

(* publish on node n: over Redis, or, refused, to the node's own sockets. *)
Publish(m, n) ==
    \/ /\ bus' = Append(bus, m)
       /\ UNCHANGED <<screenVars, refused, incidents>>
    \/ /\ Incident /\ refused' = TRUE
       /\ UNCHANGED bus
       /\ IF n = Home THEN Apply(m, Agents) ELSE UNCHANGED screenVars

(* Redis delivers the next publication to Home, which sends it to its desktops. *)
Deliver ==
    /\ bus # <<>>
    /\ Apply(Head(bus), Agents)
    /\ bus' = Tail(bus)
    /\ UNCHANGED <<outboxVars, flushVars, command, sent, raced, refused, lost, incidents>>

(* Pub/Sub and the sockets keep nothing: a publication passes by Home while *)
(* its subscriber reconnects (S is empty), or the desktops that reconnect.  *)
DeliverTo(S) ==
    /\ bus # <<>> /\ S # Agents
    /\ Apply(Head(bus), S)
    /\ bus' = Tail(bus)
    /\ lost' = TRUE
    /\ Incident
    /\ UNCHANGED <<outboxVars, flushVars, command, sent, raced, refused>>
----------------------------------------------------------------------------
Pending == visible \ marked

(* Unlike FirstPending it takes the newest rows. *)
LastPending(S) ==
    /\ S \subseteq Pending
    /\ Cardinality(S) <= Batch
    /\ \A i \in S : \A j \in Pending \ S : j < i
    /\ S = Pending \/ Cardinality(S) = Batch

(* findMany of the rows that are not marked, ordered by createdAt, the      *)
(* first Batch of them.                                                     *)
FirstPending(S) ==
    /\ S \subseteq Pending
    /\ Cardinality(S) <= Batch
    /\ \A i \in S : \A j \in Pending \ S : i < j
    /\ S = Pending \/ Cardinality(S) = Batch

(* flush up to its first await; leadership is looked at here only. *)
StartFlush(t, n) ==
    /\ step[t] = "idle" /\ \A u \in Flushes : u < t => step[u] # "idle"
    /\ n \in leads /\ Pending # {}
    /\ \E S \in SUBSET Pending :
         /\ FirstPending(S)
         /\ todo' = [todo EXCEPT ![t] = S]
    /\ step' = [step EXCEPT ![t] = "publish"]
    /\ node' = [node EXCEPT ![t] = n]
    /\ raced' = (raced \/ \E u \in Flushes : step[u] # "idle")
    /\ UNCHANGED <<outboxVars, marked, leads, command, sent, bus, screenVars, refused, lost, incidents>>

(* The oldest row is enriched and published. *)
PublishRow(t) ==
    /\ step[t] = "publish"
    /\ LET i == Oldest(todo[t]) IN
         /\ Publish(rows[i], node[t])
         /\ sent' = sent \cup {i}
    /\ step' = [step EXCEPT ![t] = "mark"]
    /\ UNCHANGED <<outboxVars, marked, todo, node, leads, command, raced, lost>>

(* Unlike MarkRow it does not mark. *)
MarkNothing(t) ==
    /\ step[t] = "mark"
    /\ LET i == Oldest(todo[t]) IN
         /\ todo' = [todo EXCEPT ![t] = @ \ {i}]
         /\ step' = [step EXCEPT ![t] = IF todo[t] = {i} THEN "idle" ELSE "publish"]
         /\ node' = [node EXCEPT ![t] = IF todo[t] = {i} THEN Home ELSE @]
    /\ UNCHANGED <<outboxVars, marked, leads, command, sent, bus, screenVars, raced, refused, lost, incidents>>

(* The row is marked and the flush turns to the next one. *)
MarkRow(t) ==
    /\ step[t] = "mark"
    /\ LET i == Oldest(todo[t]) IN
         /\ marked' = marked \cup {i}
         /\ todo' = [todo EXCEPT ![t] = @ \ {i}]
         /\ step' = [step EXCEPT ![t] = IF todo[t] = {i} THEN "idle" ELSE "publish"]
         /\ node' = [node EXCEPT ![t] = IF todo[t] = {i} THEN Home ELSE @]
    /\ UNCHANGED <<outboxVars, leads, command, sent, bus, screenVars, raced, refused, lost, incidents>>

(* An error on the way ends the flush: enriching, the queue summary, the    *)
(* removal of the mute key or the update of the row failed, or the process  *)
(* died.                                                                    *)
FlushFails(t) ==
    /\ step[t] # "idle"
    /\ Incident
    /\ step' = [step EXCEPT ![t] = "idle"]
    /\ todo' = [todo EXCEPT ![t] = {}]
    /\ node' = [node EXCEPT ![t] = Home]
    /\ UNCHANGED <<outboxVars, marked, leads, command, sent, bus, screenVars, raced, refused, lost>>

(* Leadership moves; for a while two nodes may lead, and some node does. *)
LeadershipMoves(S) ==
    /\ S # {} /\ S # leads
    /\ leads' = S
    /\ Incident
    /\ UNCHANGED <<outboxVars, marked, todo, step, node, command, sent, bus, screenVars, raced, refused, lost>>
----------------------------------------------------------------------------
(* mute or transfer has read its call, which has an agent leg that is up. *)
CommandReads(c) ==
    /\ command = <<>>
    /\ RowsOf(c) # {}
    /\ Last(c).kind # "ended" /\ Last(c).agent # NoAgent
    /\ command' = [Last(c) EXCEPT !.kind = "updated"]
    /\ Incident
    /\ UNCHANGED <<outboxVars, flushVars, sent, bus, screenVars, raced, refused, lost>>

(* It publishes call.updated with what it has read. *)
CommandPublishes(n) ==
    /\ command # <<>>
    /\ Publish(command, n)
    /\ command' = <<>>
    /\ raced' = (raced \/ \E i \in RowsOf(command.call) : rows[i].kind = "ended")
    /\ UNCHANGED <<outboxVars, flushVars, sent, lost>>

(* DialAsync of the desktop: ExpectOutboundCall opens the window. *)
Dial(a) ==
    /\ Incident
    /\ expecting' = expecting \cup {a}
    /\ window' = window \cup {a}
    /\ UNCHANGED <<outboxVars, flushVars, command, sent, bus, screen, raced, refused, lost>>

(* The window runs out. *)
WindowEnds(a) ==
    /\ a \in window \cup expecting
    /\ expecting' = expecting \ {a}
    /\ window' = window \ {a}
    /\ UNCHANGED <<outboxVars, flushVars, command, sent, bus, screen, raced, refused, lost, incidents>>

Next ==
    \/ \E c \in Calls : CallChanges(c) \/ CommandReads(c)
    \/ \E i \in Rows : Commit(i)
    \/ \E t \in Flushes : PublishRow(t) \/ MarkRow(t) \/ FlushFails(t)
    \/ \E t \in Flushes, n \in Nodes : StartFlush(t, n)
    \/ \E S \in SUBSET Nodes : LeadershipMoves(S)
    \/ \E n \in Nodes : CommandPublishes(n)
    \/ \E a \in Agents : Dial(a) \/ WindowEnds(a)
    \/ Deliver \/ \E S \in SUBSET Agents : DeliverTo(S)

(* The interval timer starts flushes, the database and Redis answer.        *)
Fairness ==
    /\ WF_vars(\E t \in Flushes, n \in Nodes : StartFlush(t, n))
    /\ \A t \in Flushes : WF_vars(PublishRow(t)) /\ WF_vars(MarkRow(t))
    /\ \A i \in 1 .. MaxRows : WF_vars(Commit(i))
    /\ WF_vars(Deliver)

Spec == Init /\ [][Next]_vars /\ Fairness
----------------------------------------------------------------------------
(* The rows of a call are published for the first time in their order, and  *)
(* a row that is marked was published: no order of overlapping flushes,     *)
(* commits, failures and changes of leader skips one.                       *)
FirstInOrder ==
    \A i \in Rows :
        /\ i \in marked => i \in sent
        /\ i \in sent => \A j \in Rows : j < i /\ rows[j].call = rows[i].call => j \in sent

Outbox == INSTANCE ReliableDelivery WITH
    Events <- 1 .. MaxRows,
    waiting <- visible \ sent,
    delivered <- sent

(* The outbox implements the abstract delivery: a committed row waits until *)
(* it is published and every one is, whoever leads and whatever fails.      *)
OutboxReliable == Outbox!Spec

Ended(c) == RowsOf(c) # {} /\ Last(c).kind = "ended"

(* A call whose last change is its end leaves the screens for good, whatever *)
(* updates came before, also late ones after an earlier end, unless Redis    *)
(* refused a publication, one was lost, two flushes overlapped or the call   *)
(* ended under a command.                                                    *)
EndedLeavesScreen ==
    \A c \in Calls, a \in Agents :
        <>[]Ended(c) => <>[](screen[a] # c \/ raced \/ refused \/ lost)

(* With call.ended the screen goes to the end and stays there (rule 4 of     *)
(* CallStateStore), though an event of the call may come later: the design   *)
(* leaves the session dead then.  It does not hold: a late update brings the *)
(* call back (README, 4).                                                    *)
EndedStaysOff ==
    \A c \in Calls, a \in Agents :
        (\E i \in RowsOf(c) \cap visible : rows[i].kind = "ended") ~> [](screen[a] # c)

(* A desktop that waits for an outgoing call takes the unassigned call it   *)
(* is told of, as long as the window runs: the test of CallStateStore       *)
(* "A_call_we_just_placed_is_ours_even_before_it_is_assigned".              *)
OwnCallTaken ==
    [][\A a \in Agents :
         /\ bus # <<>> /\ bus' = Tail(bus) /\ lost' = lost
         /\ Head(bus).kind = "created" /\ screen[a] = NoCall /\ a \in window
         => screen'[a] = Head(bus).call]_vars
=============================================================================
