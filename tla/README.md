# A verification project for KAster CTI

KAster CTI is a computer-telephony server (NestJS, `apps/server`) in front of Asterisk.
It follows every call through Asterisk's manager interface (AMI), keeps the calls in PostgreSQL,
announces them to agent screens, and steers calls on the agents' behalf. This directory holds TLA+
models of the parts on which the rest depends - how an AMI event becomes a row in the database,
how the row reaches a screen, how a call is offered to an agent, transferred and ended, and what
happens to all of it when the database, Redis, a node or an event fails - with TLC runs on small
instances and TLAPS proofs for all instances.

Paths below are relative to `apps/server/src/modules/` unless they begin with `apps/` or `docs/`.

## 1. Inventory

| Component | State | Operations | Hard behaviour |
|---|---|---|---|
| Operating mode (`resilience/operating-mode.service.ts`) | mode, start of the outage, in memory | `recordDbFailure`, `recordDbRecovered`, `markRecoveryComplete` | called from every handler and from `/health`; failures during a recovery; restarts |
| AMI event intake (`ami/ami-connection.service.ts`) | socket, buffer, one running handler per event | `handleNormalizedEvent` | the `data` callback is asynchronous and not serialized: handlers interleave at every `await`; leadership is read before an `await` and used after it |
| Durable spool (`resilience/durable-spool.service.ts`, `local-spool.store.ts`) | Redis stream and cursor, local file and cursor, set of frozen tenants | append, `markProcessed`, `markFailed`, `clearBlocked`, `readPending`, `compact` | cursor against failures that are noticed late; Redis refusing; a failing disk; crashes |
| Recovery (`resilience/recovery-sweeper.service.ts`, `recovery-coordinator.service.ts`) | a running sweep | every 15 s in RECOVERING: per tenant read, replay, complete, compact, unfreeze | the database or the leadership is lost during the sweep; several tenants, one mode |
| Leader election (`redis/ami-leader-election.service.ts`) | lock in Redis, flag per node | `tick` every 5 s: SET NX, GET, PEXPIRE | expiry between commands, refused commands, commands that wait for a connection, restarts |
| Session engine (`calls/session-engine.service.ts`, `call-leg.util.ts`) | session, legs, raw events, outbox, dedupe keys | `processNormalizedEvent`: dedupe, insert, leg, transition | read-then-write transactions without a lock; duplicates; late events; replays; failures between the steps |
| Session sweeper (`session-recovery/finalizer`) | none of its own | every 15 s: end stale sessions | selects, then updates; races with handlers |
| Outbox publisher and event bus (`outbox`, `events`) | outbox rows, Redis channel | `flush` every 3 s, `publish`, delivery to sockets and listeners | overlapping flushes, two leaders, failures between publication and mark, refused publications, messages lost on a reconnection |
| Agent offer (`calls/agent-offer.service.ts`) | open offers with their long polls, remembered answers | ask, wait, decide, time out, drop, abandon | two polls for one offer; decision, time-out, hang-up and dropped request racing; several nodes |
| Transfers and commands (`calls/calls.service.ts`, `transfer-detector.service.ts`) | session status, `callTransfers`, `attendedTransferCandidates` | transfer, cancel, complete, pickup, transfer events, expiry | several writes without a transaction; commands race with events, expiry and hang-up |
| Presence, queue pause (`realtime/agent-presence.service.ts`, `calls/agent-queue-pause.service.ts`, `agent-state.service.ts`) | sockets per node, Redis hash with an expiry per node, status row, pause in Asterisk | connect, disconnect, heartbeat, change of status, logout, reconcile | several nodes on one key; node death; status and presence read at different times |
| Desktop (`apps/desktop-win`, `CallStateStore`) | the call and the offer shown, an expected outgoing call | adopt, end, offer, dial | sees the whole tenant's messages, in the order of the bus |
| AMI commands (`calls/asterisk-manager.service.ts`, `ami`) | pending actions | action, response, time-out | the socket closes with actions pending; late responses |
| Recording pipeline, call analysis | job rows | wait for a file, retry, finalize | retries, restarts |
| ARS HTTP lookup | circuit breaker, cache | lookup | half-open breaker, concurrent callers |
| Asterisk configuration | generated files, history | generate, apply, reload | one step of several fails |
| Administration, customers, queues, reports, other clients | rows, screens | create, read, update, delete | none of their own |

How they interact: the intake asks the election whether to process an event, appends it to the
spool, calls the session engine, and reports success or failure to the operating mode and to the
spool. A health poll moves the operating mode too. In RECOVERING the sweeper hands the spooled
events to the session engine again. The session engine, the session sweeper and the transfer
commands write the same rows. The engine leaves outbox rows, which the leader publishes on the event
bus; commands publish there directly. The bus carries calls and offers to every node's sockets, and
decisions of agents and ends of calls back to the node whose long poll waits for them. Sockets that
come and go, and changes of status, pause and unpause the agent's queue.

Properties that make the parts correct: no spooled event is lost, and it is eventually applied; the
leading node leaves a restricted mode, and only when everything has been replayed; of the deliveries of
an event one takes effect; an event never takes a session back from ENDED; the outbox announces one
creation, first, and one end, and is published completely and in order; an ended call leaves the
screens; every session ends; the nodes settle on one leader; a long poll is always answered and an
agent asked once; a completed transfer stays completed and an open one is closed; the queue rings an
agent only while a socket of the agent is open and the agent takes calls.

## 2. Modules

| Module | Models |
|---|---|
| `OperatingMode` | the four modes with a clock |
| `ReliableDelivery` | abstract specification: an item that was accepted waits until it is delivered, and is eventually delivered; implemented by the spool (`EventPipeline`) and by the outbox (`CallFeed`) |
| `EventPipeline` | composition on one node: handlers, both spools, operating mode, sweeper and coordinator, with outages, crashes, elections |
| `CallSession` | one call: handlers of its events, replay, session sweeper and the commands that set its status, on the session, leg, raw-event and outbox rows |
| `CallFeed` | composition: outbox, flushes on several nodes, event bus, commands, desktops |
| `CallTransfer` | one call: transfer commands, transfer events, expiry, hang-up and session sweeper |
| `AgentOffer` | composition: long polls, event bus, desktops of two kinds of nodes |
| `AgentPresence` | composition: sockets, the Redis hash, status changes, the pause in Asterisk |
| `LeaderElection` | several nodes and the lock |
| `MCEventPipeline`, `MCCallSession` | definitions for TLC |
| `*Proofs` | theorems and proofs |

A definition whose comment begins with "Mutant" or "Unlike" is a wrong version of the definition
below it. No specification uses it: replacing the right one by it must make the named property fail
(`mutants` in `PROJECT.json`).

**OperatingMode.** `mode` and `outage` are the fields `mode` and `outageStartedAt`.
`RecordDbFailure`, `RecordDbRecovered` and `MarkRecoveryComplete` are the three methods, `Restart` a
restart; `failingSince` is a history variable, what an observer of the reports knows.

**EventPipeline.** An event's handler is a program counter `pc[e]`; each value is a stretch between
two awaits of `handleNormalizedEvent`: `received` (append), `written` (the local file is written,
its size not read yet), `processing` (in the session engine), `committing` (in `markProcessed`,
past the check of `blocked`). `stream`/`cursor` and `file`/`fcursor` survive a crash, `blocked`,
`mode` and the sweep (`spc`, `todo`, `cur`, `batch`, `failures`) do not. Positions count entries:
stream ids are sequence positions, byte offsets are line numbers. `applied` is the database as far
as the pipeline is concerned; a failed call of the session engine may or may not have committed. It fails
while the database is down and, under the fault "error", for a reason of the record's own, live and in
every replay (`MayThrow`). Under the fault "disk" no write of the local spool is certain: not the append,
not the cursor, not the compaction. `Tenants` are the active ones, which are all the sweeper looks at.
The operating mode appears without its clock. The records of a batch are replayed in any order (the
code sorts them by time, and no property depends on the order).

**CallSession.** A handler runs `dedupe` (SET NX in Redis), `insert` (raw event, unique fingerprint),
`track` (leg), `read` and `write` (the transaction). PostgreSQL's READ COMMITTED and the missing row
lock make the row read (`seen`) and the row written (`session`) two different things; a write takes
from the row it finds what the statement does not set. The clock counts instants, timestamps are
instants, 0 is NULL. `Events` are deliveries: two of them may be the same event (`Identity`), and
`Fingerprint` adds the second of the receipt, as `computeFingerprint` does; an instant is such a second. The
replay walks the log of received events as the coordinator does, its first record being at or before the
first failure. Any event may come at any time, also after the Hangup of its channel. The commands of
`CallsService` and the expiry of a transfer read the call (`Transfer`, `CancelAttendedTransfer`,
`CompleteAttendedTransfer`, `Pickup`, `RestoreCallSession`) and, an await later, write its status with no row
in the outbox (`WriteChange`); `candidate` is all this module keeps of the transfer itself. `reopened` is a history
variable. The clock's bound leaves the sweeper a last stretch longer than its threshold, during which no
handler hangs.

**LeaderElection.** A step is a Redis command. Time is counted in ticks of 5 s; the lock lives for
two. In a period every connected node finishes its tick. The ticks that queue up in a
disconnected client are merged into one: they would run one after another on reconnection, each
seeing what the first saw.

**CallFeed.** `rows` are the outbox rows in the order of `createdAt`; a row is `visible` once its
transaction has committed, which for rows of different calls may be in another order. A flush has
the rows it selected (`todo`) and alternates between publishing the oldest one and marking it;
`FlushFails` is any error or death on the way. `leads` is the outcome of the election, two nodes
included. `Publish` is `EventBusService.publish` with its fallback. `Takes`, `Releases` and `Apply`
are `AdoptServerCall`, `EndServerCall` and `Release` of `CallStateStore`; the desktops in view are
connected to one node. `mute` and `transfer`, which publish the call as they have read or updated it,
are `CommandReads` and `CommandPublishes`. `CallChanges` writes `updated` rows also after the end, as
`upsertSession` does for late events. A publication that is on its way may miss the node or some of its
desktops (`DeliverTo`). The session sweeper publishes `call.ended` directly, too:
it would only make a call leave a screen earlier and is left out.

**CallTransfer.** A handler reads, then writes with an await before each write: `jobs[h]` is what
handler `h` still has to write, and `Writing(h)` executes the next write. A "close" is a lookup of the
newest open row of a type followed by the update of the row found. `fresh` and `old` are the two
ages the sweepers look at (ten and fifteen minutes). Session statuses that no command and no transfer
event writes or reads are left to `CallSession`.

**AgentOffer.** `pending` is the map of open offers with the resolvers of their long polls, `answered` the
remembered answers. A poll is `opening` while the publication of its offer is awaited, `waiting` in
its offer, `closing` while the publication of the closing is awaited. `out` are the publications the
node has sent in order; `Published` is the answer of Redis, or its refusal; `ScreenMisses` and `AgiMisses`
are messages that pass by a desktop or a node that is reconnecting. `Settle` is
`settle` for several offers at once, because `abandonSiblings` and `abandonCall` settle without an
await in between.

**AgentPresence.** Time is counted in heartbeats; `field[n]` is how long node `n`'s field is still valid,
`left` the same for nodes that have died (a new process has a new `nodeId`). A job is a run of
`reconcile`, `changeStatus` or `markLoggedOut`, its `step` the next query or command. `Restarts` is a crash or a
regular stop. The pause in Asterisk begins as anything: `settled` records that the server has set it.

## 3. Runs

| Run | Bounds | What it shows |
|---|---|---|
| `mode` | 9 instants, threshold 3 | The mode is an outage mode exactly while the last report is a failure; DEGRADED comes only after a long *current* run of failures, also when the database fails again during a recovery. |
| `pipeline_sequential` | 4 events, one of which touches no table, one handler at a time, one outage | Nothing spooled is lost; every spooled event is applied (refinement of `ReliableDelivery`, liveness included); a sweep ends in NORMAL only when the failed events are applied. |
| `pipeline_all_faults` | 2 events in flight together, one of which touches no table, 1 outage, a failing record, crashes, elections, Redis refusing, failing disk, stream trimmed to 1 entry | The Redis cursor stands on applied events only; a frozen cursor implies a restricted mode; a node that stays leader, and whose replays stop failing, is in NORMAL again and again: nobody has to bring it back. |
| `session_calls` | BridgeEnter, Hold, Unhold, AgentComplete, Hangup and the Hangup again, each received or lost, in any order; 2 of the five commands; 5 instants; one writer at a time | The hold lies within the call; no event and no sweep reopens an ended session; the end is announced once, and no row after it shows the call alive, unless a command wrote over ENDED. |
| `session_overlap` | the same QueueCallerJoin twice, in one second or in two; handlers, replay, sweep and a pickup overlapping, database and Redis failing at any step | The creation is announced once and first; of deliveries within one second one takes effect; no session stays open, though its Hangup never comes. |
| `leader_all_faults` | 3 nodes, 3 faults of any kind | The nodes settle: from some time on one and the same node leads and no other takes itself for the leader. |
| `agent_offer` | 1 call, 2 agents (one on the node of the AGI, one elsewhere), 2 polls, 1 message refused or lost | No poll is left without an offer that can resolve it; every poll is answered; an offer with a remembered refusal is not opened; an offer that is shown is taken down, unless a message was refused or lost. |
| `call_feed` | 1 call with 3 rows, 2 agents, 2 nodes, 2 flushes of at most 2 rows, 1 incident (failure, refusal, loss, change of leader, command, dialling) | The outbox implements `ReliableDelivery` (a publication that Redis refuses counts as made); first publications are in order; a call whose last row is its end leaves the screens for good, unless a publication was refused or lost, flushes overlapped or the call ended under a command. |
| `call_transfer` | 1 handler besides the expiry, 2 transfers, 1 failed query | A completed transfer stays completed while handlers do not overlap; every open transfer is closed; a call that was hung up is ENDED for good in the end. |
| `agent_presence` | 2 nodes, 2 sockets on each, lifetime of 2 heartbeats, 1 job at a time | A socket makes the agent read as connected; without sockets the agent stops doing so; undisturbed, and once it has been set, the queue is paused exactly when it should be. |

Two more runs show that the code does not keep something it says of itself; TLC finds the
counterexample (`findings` in `PROJECT.json` quotes the lines):

| Run | Counterexample |
|---|---|
| `pipeline_overlap` (`NoLoss`) | Two handlers in flight: the later event commits its cursor before the earlier one fails. The freeze comes too late, the earlier event is never replayed. |
| `feed_dial` (`OwnCallTaken`) | An agent dials; the `call.ended` of somebody else's call arrives first; `EndServerCall` (`CallStateStore.cs:218`) lets go of the expectation as well, and the agent's own call is not shown. |

Why these bounds: the hazards of the pipeline are between two events (cursor order) and between an
event and one sweep; the further events of `pipeline_sequential` arrive after a failure and during
the sweep, and the one that touches no table may report the database as back before it is.
`ScanCap` and `StreamMaxLen` are at least the number of
events where nothing may be lost, because their being exceeded is a documented limit. The session
races are between two writers of one row; a third would only repeat one of them. Election faults
need at most an old leader, a new one and a bystander. An offer needs a poll and its retry, and a
sibling on another node. Three rows of a call (created, updated, ended) and batches of two make a
second flush necessary while the first runs; a row after the end is among them. Two transfers let the expiry of one meet the other; the
expiry is a process of its own, so that one more handler suffices for it to overlap with. Two
nodes with two sockets each have a last socket that is not the agent's last.

Deadlock is checked in `OperatingMode`, `EventPipeline` and `LeaderElection`. In the other modules
nothing need happen once the calls have ended and their bounds are used up.

**Fairness.** All of it is weak fairness, of actions that stay enabled until they are taken.
`EventPipeline`: pending promises settle (`Handle`, `Sweep`), `setInterval` calls sweep
and election again and again, `/health` is polled by the container's health check, outages end. Of the
election only the ticks that must change something are due (a node that knows nothing learns who leads, a node
whose Redis refuses learns that it does not know): who wins an election, and whether one takes place, is left
open, and `BackToNormal` says for which outcome it holds.
Receiving an event is never fair. `CallSession`: the clock, a started handler or command, the two timers; no
event need arrive and nobody need transfer. `LeaderElection`: the timers, the commands of a connected node, reconnection by
ioredis. `CallFeed`: the timer of `flush`, answers of the database and of Redis, delivery; that some
node leads is what `leader_all_faults` shows. Calls need not change, and the errors of a flush are
finitely many. `AgentOffer`: the timer of an offer, answers of Redis, and that a message arrives unless it is lost; neither agents nor
callers nor the AGI need do anything. `CallTransfer`: answers of the database, the two sweepers, the
passing of time; nobody need transfer, answer or hang up. `AgentPresence`: time, heartbeats,
answers; sockets need not come or go.

## 4. Behaviours of the models that no run asks about

Checking other properties, or other constants, on the same modules led to these; the models contain
them. For some the constants that show them are given. Six definitions state what a comment or a
document of the repository says and are refuted with these constants: `FailedKept`, `UnfreezesReplayed`,
`FollowerReturns`, `RedeliveryCaught`, `ReplayIdempotent` and `EndedStaysOff`. "Two events" below stands for
`Events = {e1, e2}` and `NoDbEvents = {}`.

Intake and recovery:

- `startRecovery` returns no failures when it skips a tenant (`DB_UNAVAILABLE`, `NOT_LEADER`), and the
  sweeper unfreezes the cursor (recovery-sweeper.service.ts:51-65), although `clearBlocked` is to be
  called only after a complete replay (durable-spool.service.ts:122). `UnfreezesReplayed` fails in
  `PipelineSequential.cfg` with two events and `MaxOutages = 2`; so does `NoLoss`, because the next success
  passes the failed events.
- More than `PENDING_SCAN_CAP` pending records (durable-spool.service.ts:192), or a refused read of the
  stream (line 203), end the recovery with records not replayed (recovery-coordinator.service.ts:139-140).
- The mode is one per node, the recovery one per tenant: the first tenant that finishes calls
  `markRecoveryComplete` while another still has failed events (recovery-coordinator.service.ts:141).
  `NormalMeansReplayed` fails in `PipelineSequential.cfg` with two events, `Tenants = {t1, t2}` and
  `TenantOf <- TwoTenants`.
- A record that fails during a sweep, after the sweep has read the spool: the sweep completes without it and
  returns the node to NORMAL. `NormalMeansReplayed` fails in `PipelineSequential.cfg` with `Faults = {"error"}` and with
  `MaxOutages = 2`; the theorems exclude both (`Calm`, `SweepInPeace`).
- A record that fails in every replay keeps its node in RECOVERING and its tenant's cursor frozen for ever
  (recovery-coordinator.service.ts:66). `BackToNormal` is about replays that stop failing.
- A follower whose health probe has failed goes to DB_FAILOVER and then to RECOVERING, and stays there: `sweep`
  returns at once on a follower (recovery-sweeper.service.ts:41), although the sweeper is there so that no human
  is needed. `FollowerReturns` fails under `FairSpec` with two events and `Faults = {"election"}`; `BackToNormal` is
  about a node that leads.
- The freeze of a cursor is in memory. After a restart the mode is NORMAL, nothing calls `readPending`, and
  the next success moves the cursor past the failed event, contrary to durable-spool.service.ts:112-113.
  `FailedKept`, and `NoLoss` with it, fails with two events and `Faults = {"crash"}`.
- An event without a Linkedid touches no table (session-engine.service.ts:243), yet its success counts
  as a sign that the database answers (ami-connection.service.ts:94): the node enters RECOVERING during the
  outage. Nothing is lost by it (`pipeline_sequential`, `NothingLost`), because a sweep that begins without the database
  finds no tenants to recover.
- Events spooled while leadership is unknown (ami-leader-election.service.ts:51) are only applied
  when a database outage happens to bring the node to RECOVERING.
- A crash between the truncation of the local file and the reset of its cursor (local-spool.store.ts:168-169)
  leaves a cursor past the end: lines written up to it count as processed.
- A leader that loses its connection to Redis keeps its flag, because a command waits instead of failing
  (`maxRetriesPerRequest: null`, redis.service.ts:18): for a while there are two leaders.
  `AtMostOneLeader` fails with two nodes, `Faults = {"disconnect"}` and `MaxFaults = 1`.

Sessions:

- A replay of a Hold and an Unhold that had been applied adds the same seconds again
  (session-engine.service.ts:708): `HoldWithinCall` fails in `SessionCalls.cfg` with `Events = {be, ho, un}`,
  `Commands = {}`, `Faults = {"db"}`, `MaxReplays = 1` and `MaxTime = 6`.
- The commands and the expiry write a status over ENDED (calls.service.ts:1050, 1157, 1224, 1288,
  transfer-detector.service.ts:161): the session is open again, and nothing in the outbox says so. `transfer` does
  not even look at the status, so it needs no race: an agent's leg whose own Hangup was lost or failed is enough.
  `EndedIsFinal` and `AnnouncedEndStands` make the exception explicit; `OpenEnds` shows that the sweeper ends the
  session again.
- The same event delivered a second later has another fingerprint (session-engine.service.ts:47-71) and is applied
  again, although the comment there counts on the time bucket to catch it. `RedeliveryCaught` fails in
  `SessionCalls.cfg` with `Events = {be, hu, hu2}`, `Commands = {}`.
- The replay of a BridgeEnter that had been applied writes `answeredAt` anew, although the comment at
  session-engine.service.ts:294 calls a replay idempotent. `ReplayIdempotent` fails with `Events = {be, ho, un, hu}`,
  `Commands = {}`, `MaxReplays = 1`, `MaxTime = 8`, `Faults = {"db"}`.
- Two first events that race to create a session: the unique violation aborts PostgreSQL's
  transaction, so the retry inside it (session-engine.service.ts:590) cannot work and the handler fails.
- AgentComplete that reads TALKING before, and writes after, the commit of the Hangup opens the ended session
  again (session-engine.service.ts:623). `EndedIsFinal` and `AnnouncedEndStands` fail in
  `SessionCalls.cfg` with `Overlap = TRUE`, `Events = {be, cw, hu}`, `Commands = {}`, `MaxTime = 4`.
- `updatedAt` is not written by ordinary events (schema.prisma:333 has no `@updatedAt`), only at creation, by hold and
  by some commands: the session sweeper ends a
  call that is ten minutes old and being talked on. It selects, then updates (session-recovery-sweeper.service.ts:34),
  so it also ends a session that a command has touched in between.
- A session in HOLD whose Hangup is lost is never ended: the sweeper does not select HOLD
  (session-recovery-sweeper.service.ts:27). `OpenEnds` makes the exception explicit.

Publication and screens:

- An event after the Hangup writes a `call.updated` row for the ended session (session-engine.service.ts:631-636);
  the desktop takes the ended call up again (CallStateStore.cs:180-211), and no further `call.ended` comes.
  docs/design/operations-architecture.md expects such events (line 321) and wants the session left dead (line 345). `EndedStaysOff` fails in `CallFeed.cfg`
  with one agent, one node, `MaxFlushes = 1`, `MaxRows = 4`, `MaxIncidents = 0`; `EndedLeavesScreen` is about calls whose
  last row is their end.
- Two overlapping flushes, or a command that publishes the call it read before it ended, put a
  `call.updated` behind the `call.ended`; the desktop takes the ended call up again. `EndedLeavesScreen`
  makes the exception explicit (`raced`).
- A row may be published any number of times: by overlapping flushes, by two leaders, after a failure
  before the mark. docs/design/operations-architecture.md:450 and 1249 name the outbox as what
  prevents duplicates.
- A refused publication reaches the sockets of the publishing node only, and the row is marked. A publication
  that comes while a subscriber or a desktop reconnects is lost. In both cases nothing repeats it:
  `EndedLeavesScreen` and `ScreenClears` make the exceptions explicit (`refused`, `lost`, `missed`).

Offers:

- A long poll that is dropped while its retry waits for the same offer publishes the closing
  (agent-offer.service.ts:184) and takes the offer off the screen, although it is still open.
- A second offer replaces the first on the screen (`SetOffer`); when the second is closed the first does
  not come back.

Transfers:

- The fallback of an expired transfer (transfer-detector.service.ts:150-169) sets the session to TALKING or
  RINGING_AGENT whatever it is: fifteen minutes after a hang-up an ended call is open again, until the session
  sweeper ends it ten minutes later. `HungUpEnds` shows the latter. `pickup` and the other commands can do the
  same when the call ends between their reads and their write.
- The expiry selects candidates and then updates them without looking again (line 407): one that completed in
  between becomes EXPIRED. `CompletedStays` makes the exception explicit (`alone`).
- The expiry, and every event, closes the newest open row of its type, which may belong to another transfer;
  a BlindTransfer event closes an open attended candidate and leaves that transfer's row REQUESTED.
- A blind transfer whose event is lost keeps its row REQUESTED: only candidates expire.
- `SessionEngineService` hands only BlindTransfer and AttendedTransfer events to the detector
  (session-engine.service.ts:428-433), so the phases CONSULT_RINGING, CONSULT_TALKING, REBRIDGING and the
  fallback of a failed consultation are not reached, although
  docs/plans/2026-08-22-desktop-client-remaining-features-plan.md:218 relies on them.

Presence:

- `reconcile` reads the status, then the presence, then sends the command: a change of status in between is
  overwritten, and an agent on a break or logged out is rung (`PauseFollows` without `~disturbed`, `MaxJobs = 2`).
- A refused first write makes `reconcile` pause the agent; the heartbeat that writes the field later
  recomputes nothing. Neither does the death or the stop of a node.

## 5. Proofs

Each theorem is for every value of the constants that satisfies the module's ASSUME.

| Theorem | Statement | Further assumption |
|---|---|---|
| `OutageSafety`, `DegradedSafety` | `OutageTracked`, `DegradedOnlyLate` always | - |
| `TypeCorrect` | types of `EventPipeline` | - |
| `CursorSafe` | `CursorOnApplied` always | - |
| `OnlyOvertakenLost` | an event of the Redis stream is lost only by trimming or by the success of a later event of its tenant | - |
| `FrozenSafe` | `FrozenMeansRestricted` always | one tenant |
| `NothingLost` | `NoLoss` always, while the database does not fail during a sweep (`SweepInPeace`) | `Calm` |
| `NothingLostInOneOutage` | `NoLoss` always | `Calm`, one outage |
| `RecoveryComplete` | `NormalMeansReplayed`, while `SweepInPeace` | `Calm`, one tenant |
| `PipelineImplements` | the pipeline implements the initial condition and next-state relation of `ReliableDelivery`, while `SweepInPeace` | `Calm` |
| `SessionTypes` | types of `CallSession` | - |
| `CreatedSafe` | `CreatedFirst` always | - |
| `OnceSafe` | `OncePerFingerprint` always | - |
| `OnlyStaleReadsReopen` | an ended session is opened again only by the write of a command or an expiry, or by a transaction that read it before it ended | - |
| `EndedSafe` | `EndedIsFinal` | no overlap |
| `EndAnnounced` | `AnnouncedEndStands` always | no overlap |
| `HoldSafe` | `HoldWithinCall` always | no overlap; no failing query or no replay |
| `LeaderSafeWhileTicksEnd` | `AtMostOneLeader` always, while no tick hangs past its period (`TicksEnd`) | - |
| `LeaderSafe` | `AtMostOneLeader` always | no lost connection |
| `OfferTypes`, `WaitersReachable`, `NotAskedAgain` | types of `AgentOffer`, `NoWaiterLost`, `AskedOnce` always | - |
| `FeedTypes`, `FirstOrder` | types of `CallFeed`, `FirstInOrder` always | - |
| `OutboxImplements` | the outbox implements the initial condition and next-state relation of `ReliableDelivery` | - |
| `TransferTypes`, `CompletedIsKept` | types of `CallTransfer`, `CompletedStays` | - |
| `PresenceTypes`, `SocketsCount`, `QueueFollows` | types of `AgentPresence`, `SocketCounts`, `PauseFollows` always | - |

`Calm` (`EventPipelineProofs`) is: one handler at a time; no crash, no election, no refusal of Redis, no record that
fails by itself (a failing disk is allowed); finitely many events, no more than `ScanCap` and `StreamMaxLen`. Events, tenants, outages
and events that touch no table are arbitrary in number.

The assumptions of the last column are not for the proof's convenience. Section 4 describes what happens
without them, and TLC refutes `NoLoss` when one constant of `PipelineSequential.cfg` is changed: `MaxInFlight = 2`,
`MaxOutages = 2` (which is what `SweepInPeace` excludes), `ScanCap = 1`, `StreamMaxLen = 2`, `Faults = {"crash"}`,
`{"election"}`, `{"redis"}` or `{"error"}`. With `{"disk"}` it holds, in agreement with `Calm`. In `SessionCalls.cfg`
`HoldWithinCall` fails with a replay (section 4) and with `Overlap = TRUE`, `Events = {be, ho, un, cw}`, `Commands = {}`;
`EndedIsFinal` and `AnnouncedEndStands` fail with `Overlap = TRUE` (section 4, where `RedeliveryCaught` is the case
that `OnceSafe` leaves out).

The arguments:

- *OutageSafety, DegradedSafety*: the recorded start of the outage is the first failure of the current run
  (`StartIsFirstFailure`), inductive together with the two properties.
- *CursorSafe*: a handler's stream position holds its own event (`IdsAreOwn`; streams only grow) and a
  handler that is committing has been applied (`CommittersApplied`). So whatever order the
  commits come in, each leaves the cursor on an applied event.
- *OnlyOvertakenLost*: an unread entry is held; one that is not unread is trimmed or at or before the cursor, which stands
  on an applied, hence different, event. It says which of the behaviours of section 4 can lose an event of the
  stream: those that end in a cursor moved by somebody else's success.
- *FrozenSafe*: inductive with types; whoever freezes also leaves NORMAL, and only a sweep that is about to
  unfreeze the one tenant returns to it.
- *NothingLost* and its consequences: the inductive invariant `LInv` relates four pieces of state. The stream holds
  what handlers appended, each event once and at the id its handler knows (`Placed`, so the stream is never longer than
  the events and is not trimmed). The cursor of a tenant stays before every entry that is not applied, because a
  failed event that is not applied keeps its tenant frozen, and nobody is committing for a frozen tenant (`Guarded`).
  A sweep has all failed events of its tenant in its batch or applied, and all of them applied when it
  unfreezes (`Recovered`; here `SweepInPeace` is needed: a sweep that finds the database down unfreezes too).
  `Undisturbed` and `OneHandler` say that the circumstances persist. The
  counting argument (`DistinctLength`: a sequence without repetitions is no longer than its set) shows that a read of the
  stream reaches all unread entries. With one outage `SweepInPeace` is itself invariant
  (`OneOutage`): a sweep that has tenants begins only after the outage.
  `PipelineImplements` maps waiting to "spooled, held and not applied";
  as nothing is lost, being held is implied, and each step moves at most one event.
- *CreatedSafe*: a session exists iff the outbox is not empty, and what a handler read as existing
  still exists (`SeenExists`); every write is one of: no change, an atomic pair of row and outbox row, a
  first creation (`WriteFacts`).
- *OnceSafe*: a handler past the insert has its fingerprint, the second of its receipt included, in the table
  (`RawInv`), so a second one of that second stops there; the dedupe key in Redis plays no part, which is why it may fail.
- *OnlyStaleReadsReopen*: a write whose row was read as ENDED leaves it so, by `SESSION_PRECEDENCE` and the early
  returns (`WriteKeepsEnded`).
- *EndedSafe*: without overlap only one process is at work (`AloneInv`), so the row read is the row written; the rest
  is the previous theorem.
- *EndAnnounced*: as long as no command has written over it, a session whose end is in the outbox is ENDED
  (`EndInv`); without overlap a handler has read it so, hence announces an update that shows ENDED, or nothing.
- *HoldSafe*: the seconds counted lie before the running hold and before the event at work (`HoldInv`), so the
  next Unhold or AgentComplete adds an interval that does not overlap with them.
- *LeaderSafeWhileTicksEnd, LeaderSafe*: a node that leads has the lock, and the lock has a period left when
  the node's next tick is due (`LeaseInv`). So lost connections matter only when they last long enough for a tick to hang; without any
  no tick hangs.
- *WaitersReachable, NotAskedAgain*: a poll is in at most one offer, its own, exactly while it is unresolved, and
  the publications under way belong to the polls that await them; every `Settle` empties the offers it answers
  and resolves all their polls, which is what both properties need.
- *FirstOrder, OutboxImplements*: rows of one call commit in order, and a flush that holds a row holds every
  earlier row of the call that was not published before it (`InTurn`); what a flush is about to mark
  was sent. A batch is a prefix of what is pending, so that its oldest row is never behind an unpublished row
  of the same call.
- *CompletedIsKept*: while handlers have not overlapped there is at most one job, and the candidates its next write
  of a phase aims at are still open (`Aims`): nobody can have closed them since they were read.
- *SocketsCount*: the field of a node with a socket, whose last write was taken, is valid for a whole lifetime, or for
  one heartbeat less when its next heartbeat is due (`Written`, `Beating`); other nodes touch only their own fields.
- *QueueFollows*: undisturbed, and once a pause was set, the fields mirror the sockets, there is at most one job and it knows the current
  status (`Tracks`); so its pause is the right one when it ends, and nothing that matters changes without a job.

Only model-checked: liveness (`BackToNormal`, `OpenEnds`, `SettlesOnOne`, `PollsAnswered`, `ScreenClears`,
`EndedLeavesScreen`, `TransferCloses`, `HungUpEnds`, `GoneReadsGone`, and the liveness half of the refinements
`DeliversReliably` and `OutboxReliable`), because liveness under fairness is out of the proof system's
reach. Every safety property that a passing run checks is stated by a theorem.

## 6. Not modelled

The models cover the server's concurrent core and the desktop state fed by it. Most of the
repository's lines are of other kinds, in which there is no protocol for a model to check:

- administration (`admin`, `customers`, `queues`, `agents`, `auth` and the admin web application): requests that
  create, read, update and delete single rows, and forms for them;
- user interfaces and styles (`apps/admin`, `apps/web`, `apps/desktop`, the views of `apps/desktop-win`);
- text generation for Asterisk (`asterisk-config` rendering, dialplans) and reports;
- development tooling (`.codex`), build files, generated clients.

Left out of modelled components:

- the AMI socket: framing, login, reconnection. Their effect, lost and repeated events, is modelled;
- in the session engine: pending originates, customer and agent lookup, talk seconds, columns no property reads;
- in the spool: corrupt lines, the depth metric. In the recovery: audit rows, the PBX probe;
- in the outbox: what `enrichPayload` adds to a message, the screen pop, the queue summary, the mute key;
- in the desktop: the SIP half of `CallStateStore`, its pairing with the server's call, customer data;
- in the presence: the TTL of the whole key (a key outlives its fields), the time a write takes, the bulk read.

Not modelled although they have a protocol, and in the plan: responses of AMI actions, recording jobs
and call analysis, the circuit breaker of the ARS lookup, applying an Asterisk configuration.

## 7. Plan

1. Done: `OperatingMode`, `EventPipeline` with `ReliableDelivery`, `CallSession`, `LeaderElection`; `AgentOffer`,
   `CallFeed`, `CallTransfer`, `AgentPresence`, with their proofs.
2. Done: `NoLoss`, `NormalMeansReplayed` and the safety half of `DeliversReliably`; `HoldWithinCall`,
   `AnnouncedEndStands`; who can reopen an ended session; late events, redeliveries in another second, lost messages,
   failing records, and the commands among the writers of a session. Next: the mode of `EventPipeline` as an implementation of `OperatingMode`
   without its clock; what each flush and each node can add to the number of publications of a row.
3. `AmiAction`: actions, responses, time-outs, a closing socket; every action settles once.
4. `Recording`: jobs that wait for a file, retry and finalize; `Lookup`: circuit breaker and cache; `ConfigApply`: the
   sequence of write, reload and roll back.
