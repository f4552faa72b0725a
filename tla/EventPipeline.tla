--------------------------- MODULE EventPipeline ---------------------------
(***************************************************************************)
(* From an AMI frame to the database on one server node:                   *)
(*                                                                         *)
(*   - the handler of every event (ami/ami-connection.service.ts,          *)
(*     handleNormalizedEvent), run once per event; handlers interleave at  *)
(*     every await;                                                        *)
(*   - the durable spool in front of it (resilience/durable-spool.service  *)
(*     and local-spool.store): a Redis stream with a cursor, a local file  *)
(*     with a cursor when Redis refuses, nothing when the disk fails too;  *)
(*   - the operating mode, moved by the handlers and by /health;           *)
(*   - the recovery sweeper and coordinator, which replay the spool.       *)
(*                                                                         *)
(* A Redis that is merely disconnected makes a command wait (the client is *)
(* built with maxRetriesPerRequest: null, redis.service.ts): here the step *)
(* is just not taken.  redis = "refusing" is one that answers errors.      *)
(***************************************************************************)
EXTENDS Naturals, Sequences, FiniteSets

CONSTANTS
    Events,         \* the AMI events the node receives
    Tenants,        \* the active tenants (resolveTenants: where isActive)
    TenantOf,       \* normalized.tenantId
    NoDbEvents,     \* events processed without a database access (no Linkedid)
    MaxInFlight,    \* most handlers in flight at the same time
    MaxOutages,     \* most database outages
    ScanCap,        \* PENDING_SCAN_CAP of readPending
    StreamMaxLen,   \* MAXLEN of the Redis stream
    NoTenant,       \* stands for "no tenant is being recovered"
    Faults          \* which of the faults below this instance may suffer

ASSUME PipelineAssumption ==
    /\ TenantOf \in [Events -> Tenants]
    /\ NoDbEvents \subseteq Events
    /\ MaxInFlight \in Nat /\ MaxOutages \in Nat
    /\ ScanCap \in Nat /\ StreamMaxLen \in Nat \ {0}
    /\ NoTenant \notin Tenants
    /\ Faults \subseteq {"crash", "election", "redis", "disk", "error"}

VARIABLES
    \* the outside
    db,         \* PostgreSQL: "up" or "down"
    outages,    \* database outages so far
    redis,      \* Redis: "ok", or "refusing" (it answers errors)
    leader,     \* AmiLeaderElectionService: "leader", "follower" or "unknown"
    applied,    \* events whose state transition is in the database
    \* durable
    stream,     \* kcti:spool:<tenant>:ami, as the sequence of its entries
    trimmed,    \* how many of its first entries MAXLEN has removed
    cursor,     \* the :cursor key: the id of an entry, 0 when it is missing
    file,       \* <tenant>-ami.jsonl
    fcursor,    \* <tenant>-ami.cursor
    \* memory of the process
    pc,         \* where the handler of an event is
    gate,       \* the leadership the handler read on entry
    at,         \* its SpoolAppendResult
    mode,       \* OperatingModeService.mode
    blocked,    \* DurableSpoolService.blocked
    \* the recovery sweep
    spc,        \* where it is; "idle" iff RecoverySweeperService.running is false
    todo,       \* tenants still to recover
    cur,        \* the tenant being recovered
    batch,      \* pending records read and not yet replayed
    failures    \* records of this tenant whose replay failed

outside == <<db, outages, redis, leader>>
durable == <<stream, trimmed, cursor, file, fcursor>>
handler == <<pc, gate, at>>
sweeper == <<spc, todo, cur, batch, failures>>
vars == <<outside, applied, durable, handler, mode, blocked, sweeper>>
----------------------------------------------------------------------------
Leadership == {"leader", "follower", "unknown"}
Sources == {"REDIS", "LOCAL", "NONE"}
Modes == {"NORMAL", "DB_FAILOVER", "DEGRADED", "RECOVERING"}

PCs == {"new",         \* not received yet
        "received",    \* appending to the spool
        "written",     \* line written to the local file, size not read yet
        "processing",  \* in sessionEngine.processNormalizedEvent
        "committing",  \* in markProcessed, past the check of blocked
        "done", "failed",
        "ignored",     \* dropped: not leader, leadership known
        "kept",        \* spooled only: leadership unknown
        "dead"}        \* the process died under the handler

(* The type invariant. *)
TypeOK ==
    /\ db \in {"up", "down"} /\ outages \in 0 .. MaxOutages /\ redis \in {"ok", "refusing"}
    /\ leader \in Leadership
    /\ applied \subseteq Events
    /\ stream \in [Tenants -> Seq(Events)]
    /\ trimmed \in [Tenants -> Nat]
    /\ cursor \in [Tenants -> Nat]
    /\ file \in [Tenants -> Seq(Events)]
    /\ fcursor \in [Tenants -> Nat]
    /\ pc \in [Events -> PCs]
    /\ gate \in [Events -> Leadership]
    /\ at \in [Events -> [source : Sources, pos : Nat]]
    /\ mode \in Modes
    /\ blocked \subseteq Tenants
    /\ spc \in {"idle", "next", "check", "read", "replay", "compact", "truncate", "reset", "clear"}
    /\ todo \subseteq Tenants
    /\ cur \in Tenants \cup {NoTenant}
    /\ batch \subseteq Events
    /\ failures \subseteq Events

(* The node has just won its first election; nothing has been received. *)
Init ==
    /\ db = "up" /\ outages = 0 /\ redis = "ok" /\ leader = "leader"
    /\ applied = {}
    /\ stream = [t \in Tenants |-> <<>>]
    /\ trimmed = [t \in Tenants |-> 0]
    /\ cursor = [t \in Tenants |-> 0]
    /\ file = [t \in Tenants |-> <<>>]
    /\ fcursor = [t \in Tenants |-> 0]
    /\ pc = [e \in Events |-> "new"]
    /\ gate = [e \in Events |-> "unknown"]
    /\ at = [e \in Events |-> [source |-> "NONE", pos |-> 0]]
    /\ mode = "NORMAL"
    /\ blocked = {}
    /\ spc = "idle" /\ todo = {} /\ cur = NoTenant /\ batch = {} /\ failures = {}
----------------------------------------------------------------------------
(* What is outside the node. *)

DbDown ==
    /\ db = "up" /\ outages < MaxOutages
    /\ db' = "down" /\ outages' = outages + 1
    /\ UNCHANGED <<redis, leader, applied, durable, handler, mode, blocked, sweeper>>

DbRestored ==
    /\ db = "down" /\ db' = "up"
    /\ UNCHANGED <<outages, redis, leader, applied, durable, handler, mode, blocked, sweeper>>

RedisRefuses ==
    /\ "redis" \in Faults /\ redis = "ok" /\ redis' = "refusing"
    /\ UNCHANGED <<db, outages, leader, applied, durable, handler, mode, blocked, sweeper>>

RedisRestored ==
    /\ redis = "refusing" /\ redis' = "ok"
    /\ UNCHANGED <<db, outages, leader, applied, durable, handler, mode, blocked, sweeper>>

(***************************************************************************)
(* A tick of AmiLeaderElectionService as seen by this node: unknown when   *)
(* Redis refuses, otherwise leader, or follower when another node holds    *)
(* the lock (the fault "election"; without it this node always wins).      *)
(***************************************************************************)
LeaderTick ==
    /\ leader' \in IF redis = "refusing" THEN {"unknown"}
                   ELSE IF "election" \in Faults THEN {"leader", "follower"}
                   ELSE {"leader"}
    /\ UNCHANGED <<db, outages, redis, applied, durable, handler, mode, blocked, sweeper>>
----------------------------------------------------------------------------
(***************************************************************************)
(* The operating mode, without its clock: a failure in DB_FAILOVER may or  *)
(* may not find the threshold passed (OperatingMode has the clock).        *)
(***************************************************************************)
FailureModes ==
    IF mode \in {"NORMAL", "RECOVERING"} THEN {"DB_FAILOVER"}
    ELSE IF mode = "DB_FAILOVER" THEN {"DB_FAILOVER", "DEGRADED"} ELSE {"DEGRADED"}

\* Mutant: back to NORMAL without a recovery.
RecoveredModeAtOnce == IF mode \in {"DB_FAILOVER", "DEGRADED"} THEN "NORMAL" ELSE mode

RecoveredMode == IF mode \in {"DB_FAILOVER", "DEGRADED"} THEN "RECOVERING" ELSE mode

CompletedMode == IF mode = "RECOVERING" THEN "NORMAL" ELSE mode

(* The database probe of HealthSummaryService.getHealth. *)
HealthProbe ==
    /\ mode' \in IF db = "up" THEN {RecoveredMode} ELSE FailureModes
    /\ UNCHANGED <<outside, applied, durable, handler, blocked, sweeper>>
----------------------------------------------------------------------------
(* The handler of an event: handleNormalizedEvent. *)

InFlight == {e \in Events : pc[e] \in {"received", "written", "processing", "committing"}}

Receive(e) ==
    /\ pc[e] = "new"
    /\ Cardinality(InFlight) < MaxInFlight
    /\ pc' = [pc EXCEPT ![e] = IF leader = "follower" THEN "ignored" ELSE "received"]
    /\ gate' = [gate EXCEPT ![e] = leader]
    /\ UNCHANGED <<outside, applied, durable, at, mode, blocked, sweeper>>

(* After the append the handler acts on the isLeader it read before it. *)
AfterAppend(e) == IF gate[e] = "leader" THEN "processing" ELSE "kept"

(***************************************************************************)
(* XADD MAXLEN ~: the new entry goes to the end; Redis may drop entries    *)
(* from the front as long as StreamMaxLen entries remain.                  *)
(***************************************************************************)
AppendRedis(e) ==
    LET t == TenantOf[e]
        len == Len(stream[t]) + 1
    IN /\ pc[e] = "received" /\ redis = "ok"
       /\ stream' = [stream EXCEPT ![t] = Append(@, e)]
       /\ \E n \in trimmed[t] .. len :
             /\ n = trimmed[t] \/ n + StreamMaxLen <= len
             /\ trimmed' = [trimmed EXCEPT ![t] = n]
       /\ at' = [at EXCEPT ![e] = [source |-> "REDIS", pos |-> len]]
       /\ pc' = [pc EXCEPT ![e] = AfterAppend(e)]
       /\ UNCHANGED <<outside, applied, cursor, file, fcursor, gate, mode, blocked, sweeper>>

(* LocalSpoolStore.append: write and fsync, ... *)
AppendLocalWrite(e) ==
    LET t == TenantOf[e]
    IN /\ pc[e] = "received" /\ redis = "refusing"
       /\ file' = [file EXCEPT ![t] = Append(@, e)]
       /\ at' = [at EXCEPT ![e] = [source |-> "LOCAL", pos |-> 0]]
       /\ pc' = [pc EXCEPT ![e] = "written"]
       /\ UNCHANGED <<outside, applied, stream, trimmed, cursor, fcursor, gate, mode, blocked, sweeper>>

(* ... then the size of the file, which is the offset it returns. *)
AppendLocalStat(e) ==
    /\ pc[e] = "written"
    /\ at' = [at EXCEPT ![e] = [source |-> "LOCAL", pos |-> Len(file[TenantOf[e]])]]
    /\ pc' = [pc EXCEPT ![e] = AfterAppend(e)]
    /\ UNCHANGED <<outside, applied, durable, gate, mode, blocked, sweeper>>

(* Redis refuses and the disk fails: source NONE, processing goes on. *)
AppendNone(e) ==
    /\ pc[e] = "received" /\ redis = "refusing" /\ "disk" \in Faults
    /\ pc' = [pc EXCEPT ![e] = AfterAppend(e)]
    /\ UNCHANGED <<outside, applied, durable, gate, at, mode, blocked, sweeper>>

\* Mutant: markProcessed without its check of blocked.
ProcessOkNoFreeze(e) ==
    /\ pc[e] = "processing"
    /\ db = "up" \/ e \in NoDbEvents
    /\ applied' = applied \cup {e}
    /\ mode' = RecoveredMode
    /\ pc' = [pc EXCEPT ![e] = IF at[e].source = "NONE" THEN "done" ELSE "committing"]
    /\ UNCHANGED <<outside, durable, gate, at, blocked, sweeper>>

(***************************************************************************)
(* processNormalizedEvent succeeds, recordDbRecovered and the check of     *)
(* blocked at the start of markProcessed: one run to the next await.       *)
(* An event without a Linkedid returns before any database access.         *)
(***************************************************************************)
ProcessOk(e) ==
    /\ pc[e] = "processing"
    /\ db = "up" \/ e \in NoDbEvents
    /\ applied' = applied \cup {e}
    /\ mode' = RecoveredMode
    /\ pc' = [pc EXCEPT ![e] = IF at[e].source = "NONE" \/ TenantOf[e] \in blocked
                               THEN "done" ELSE "committing"]
    /\ UNCHANGED <<outside, durable, gate, at, blocked, sweeper>>

(***************************************************************************)
(* Processing an event may throw: every error is caught the same way, be   *)
(* it the database's or the record's own (the fault "error": a payload the *)
(* session engine cannot take, with the database up).                      *)
(***************************************************************************)
MayThrow(e) == e \notin NoDbEvents /\ (db = "down" \/ "error" \in Faults)

\* Mutant: the catch block freezes the cursor and forgets recordDbFailure.
ProcessFailSilently(e) ==
    /\ pc[e] = "processing" /\ MayThrow(e)
    /\ applied' \in {applied, applied \cup {e}}
    /\ blocked' = blocked \cup {TenantOf[e]}
    /\ pc' = [pc EXCEPT ![e] = "failed"]
    /\ UNCHANGED <<outside, durable, gate, at, mode, sweeper>>

(* It fails: recordDbFailure and markFailed.  The transition may have been committed. *)
ProcessFail(e) ==
    /\ pc[e] = "processing" /\ MayThrow(e)
    /\ applied' \in {applied, applied \cup {e}}
    /\ mode' \in FailureModes
    /\ blocked' = blocked \cup {TenantOf[e]}
    /\ pc' = [pc EXCEPT ![e] = "failed"]
    /\ UNCHANGED <<outside, durable, gate, at, sweeper>>

(* The local cursor once markProcessed has tried to write it: its error is swallowed. *)
CommittedFileCursor(e) ==
    IF at[e].source # "LOCAL" THEN {fcursor}
    ELSE {[fcursor EXCEPT ![TenantOf[e]] = at[e].pos]} \cup (IF "disk" \in Faults THEN {fcursor} ELSE {})

\* Mutant: the cursor is moved to the end of the stream.
CommitCursorToEnd(e) ==
    LET t == TenantOf[e]
    IN /\ pc[e] = "committing"
       /\ cursor' = IF at[e].source = "REDIS" /\ redis = "ok"
                    THEN [cursor EXCEPT ![t] = Len(stream[t])] ELSE cursor
       /\ fcursor' \in CommittedFileCursor(e)
       /\ pc' = [pc EXCEPT ![e] = "done"]
       /\ UNCHANGED <<outside, applied, stream, trimmed, file, gate, at, mode, blocked, sweeper>>

(***************************************************************************)
(* The rest of markProcessed: the cursor becomes the handler's own         *)
(* position, whatever it is by now; an error is swallowed.                 *)
(***************************************************************************)
CommitCursor(e) ==
    LET t == TenantOf[e]
    IN /\ pc[e] = "committing"
       /\ cursor' = IF at[e].source = "REDIS" /\ redis = "ok"
                    THEN [cursor EXCEPT ![t] = at[e].pos] ELSE cursor
       /\ fcursor' \in CommittedFileCursor(e)
       /\ pc' = [pc EXCEPT ![e] = "done"]
       /\ UNCHANGED <<outside, applied, stream, trimmed, file, gate, at, mode, blocked, sweeper>>
----------------------------------------------------------------------------
(* What readPending returns: the entries behind the cursor. *)

UnreadRedis(t) == {i \in DOMAIN stream[t] : i > cursor[t] /\ i > trimmed[t]}

\* Mutant: COUNT is one too small.
ScannedRedisOneShort(t) ==
    {i \in UnreadRedis(t) : Cardinality({j \in UnreadRedis(t) : j < i}) + 1 < ScanCap}

ScannedRedis(t) == {i \in UnreadRedis(t) : Cardinality({j \in UnreadRedis(t) : j < i}) < ScanCap}

UnreadLocal(t) == {i \in DOMAIN file[t] : i > fcursor[t]}

ReadPending(t) ==
    (IF redis = "ok" THEN {stream[t][i] : i \in ScannedRedis(t)} ELSE {})
        \cup {file[t][i] : i \in UnreadLocal(t)}

(* Tenants with a spool file: some handler has appended to it. *)
HasFile(t) == \E e \in Events : TenantOf[e] = t /\ at[e].source = "LOCAL"
----------------------------------------------------------------------------
(* RecoverySweeperService.sweep with RecoveryCoordinatorService.startRecovery. *)

SweepStart ==
    /\ spc = "idle" /\ mode = "RECOVERING" /\ leader = "leader"
    /\ todo' = IF db = "up" THEN Tenants ELSE {t \in Tenants : HasFile(t)}
    /\ spc' = "next"
    /\ UNCHANGED <<outside, applied, durable, handler, mode, blocked, cur, batch, failures>>

(* The next tenant; NOT_LEADER is an outcome without failures. *)
SweepTenant(t) ==
    /\ spc = "next" /\ t \in todo
    /\ todo' = todo \ {t} /\ cur' = t /\ batch' = {} /\ failures' = {}
    /\ spc' = IF leader = "leader" THEN "check" ELSE "compact"
    /\ UNCHANGED <<outside, applied, durable, handler, mode, blocked>>

(* isDbWritable; DB_UNAVAILABLE is an outcome without failures, too. *)
SweepCheckDb ==
    /\ spc = "check"
    /\ spc' = IF db = "up" THEN "read" ELSE "compact"
    /\ UNCHANGED <<outside, applied, durable, handler, mode, blocked, todo, cur, batch, failures>>

SweepRead ==
    /\ spc = "read"
    /\ batch' = ReadPending(cur)
    /\ spc' = "replay"
    /\ UNCHANGED <<outside, applied, durable, handler, mode, blocked, todo, cur, failures>>

(* replayOne, which catches every error.  The code sorts the batch by receivedAt; here any order will do, and none matters below. *)
Replay(e) ==
    /\ spc = "replay" /\ e \in batch
    /\ batch' = batch \ {e}
    /\ \/ /\ db = "up" \/ e \in NoDbEvents
          /\ applied' = applied \cup {e} /\ UNCHANGED failures
       \/ /\ MayThrow(e)
          /\ applied' \in {applied, applied \cup {e}} /\ failures' = failures \cup {e}
    /\ UNCHANGED <<outside, durable, handler, mode, blocked, spc, todo, cur>>

\* Mutant: the coordinator does not report the end of the recovery.
SweepFinishNoComplete ==
    /\ spc = "replay" /\ batch = {}
    /\ IF failures # {} THEN spc' = "next" /\ cur' = NoTenant ELSE spc' = "compact" /\ UNCHANGED cur
    /\ UNCHANGED <<outside, applied, durable, handler, mode, blocked, todo, batch, failures>>

(* The batch is done; markRecoveryComplete unless a record failed. *)
SweepFinish ==
    /\ spc = "replay" /\ batch = {}
    /\ IF failures # {} THEN spc' = "next" /\ cur' = NoTenant /\ UNCHANGED mode
                  ELSE spc' = "compact" /\ mode' = CompletedMode /\ UNCHANGED cur
    /\ UNCHANGED <<outside, applied, durable, handler, blocked, todo, batch, failures>>

(* LocalSpoolStore.compact: compare the cursor with the size, ... *)
SweepCompact ==
    /\ spc = "compact"
    /\ spc' = IF file[cur] # <<>> /\ fcursor[cur] >= Len(file[cur]) THEN "truncate" ELSE "clear"
    /\ UNCHANGED <<outside, applied, durable, handler, mode, blocked, todo, cur, batch, failures>>

(* ... truncate the file, ... *)
SweepTruncate ==
    /\ spc = "truncate" /\ spc' = "reset"
    /\ file' = [file EXCEPT ![cur] = <<>>]
    /\ UNCHANGED <<outside, applied, stream, trimmed, cursor, fcursor, handler, mode, blocked, todo, cur, batch, failures>>

(* ... and set the cursor to 0. *)
SweepResetCursor ==
    /\ spc = "reset" /\ spc' = "clear"
    /\ fcursor' = [fcursor EXCEPT ![cur] = 0]
    /\ UNCHANGED <<outside, applied, stream, trimmed, cursor, file, handler, mode, blocked, todo, cur, batch, failures>>

(* compact fails: the sweeper logs the error and goes on to clearBlocked. *)
SweepCompactFails ==
    /\ spc \in {"compact", "truncate", "reset"} /\ "disk" \in Faults
    /\ spc' = "clear"
    /\ UNCHANGED <<outside, applied, durable, handler, mode, blocked, todo, cur, batch, failures>>

(* clearBlocked *)
SweepClear ==
    /\ spc = "clear" /\ spc' = "next"
    /\ blocked' = blocked \ {cur}
    /\ cur' = NoTenant
    /\ UNCHANGED <<outside, applied, durable, handler, mode, todo, batch, failures>>

SweepEnd ==
    /\ spc = "next" /\ todo = {} /\ spc' = "idle"
    /\ UNCHANGED <<outside, applied, durable, handler, mode, blocked, todo, cur, batch, failures>>

(* The process dies and starts again: its memory is lost. *)
Crash ==
    /\ "crash" \in Faults
    /\ pc' = [e \in Events |-> IF e \in InFlight THEN "dead" ELSE pc[e]]
    /\ leader' = "unknown" /\ mode' = "NORMAL" /\ blocked' = {}
    /\ spc' = "idle" /\ todo' = {} /\ cur' = NoTenant /\ batch' = {} /\ failures' = {}
    /\ UNCHANGED <<db, outages, redis, applied, durable, gate, at>>
----------------------------------------------------------------------------
Outside == DbDown \/ DbRestored \/ RedisRefuses \/ RedisRestored \/ LeaderTick \/ HealthProbe

Handle(e) ==
    \/ AppendRedis(e) \/ AppendLocalWrite(e) \/ AppendLocalStat(e) \/ AppendNone(e)
    \/ ProcessOk(e) \/ ProcessFail(e) \/ CommitCursor(e)

Sweep ==
    \/ SweepStart \/ SweepCheckDb \/ SweepRead \/ SweepFinish \/ SweepCompact
    \/ SweepTruncate \/ SweepResetCursor \/ SweepCompactFails \/ SweepClear \/ SweepEnd
    \/ \E t \in Tenants : SweepTenant(t)
    \/ \E e \in Events : Replay(e)

Next ==
    \/ Outside \/ Sweep \/ Crash
    \/ \E e \in Events : Receive(e) \/ Handle(e)

(***************************************************************************)
(* Fairness: a pending promise settles (handlers, sweep), setInterval      *)
(* calls the sweeper and the election again and again, /health is polled   *)
(* every 10 to 30 seconds, and an outage of the database or of Redis ends. *)
(* A tick of the election that changes nothing is a stutter here: only the *)
(* ticks that must change the leadership are due.                          *)
(***************************************************************************)
Fairness ==
    /\ \A e \in Events : WF_vars(Handle(e))
    /\ WF_vars(Sweep) /\ WF_vars(HealthProbe)
    /\ WF_vars(DbRestored) /\ WF_vars(RedisRestored)
    /\ WF_vars((leader = "unknown" \/ redis = "refusing") /\ LeaderTick)

Spec == Init /\ [][Next]_vars

FairSpec == Spec /\ Fairness
----------------------------------------------------------------------------
(* Properties *)

(* Events that reached a spool. *)
Spooled == {e \in Events : at[e].source # "NONE"}

(* Events something still holds: the spool behind its cursor, a live handler, the sweep. *)
Pending(t) == {stream[t][i] : i \in UnreadRedis(t)} \cup {file[t][i] : i \in UnreadLocal(t)}

Held == (UNION {Pending(t) : t \in Tenants}) \cup {e \in InFlight : gate[e] = "leader"} \cup batch

(***************************************************************************)
(* No event that was written to a spool is lost: until it is applied it is *)
(* behind the cursor (so a recovery reads it), or still being handled.     *)
(* This is what freezing the cursor is for (markFailed).                   *)
(***************************************************************************)
NoLoss == Spooled \subseteq applied \cup Held

(* Spooled events whose handler failed. *)
FailedEvents == {e \in Events : pc[e] = "failed" /\ at[e].source # "NONE"}

(***************************************************************************)
(* An event whose handler failed is behind the cursor until it is applied, *)
(* also across a restart that forgets the freeze (comment of markFailed).  *)
(* It does not hold with the fault "crash" (README, 4).                    *)
(***************************************************************************)
FailedKept == FailedEvents \subseteq applied \cup Held

(***************************************************************************)
(* The Redis cursor only ever stands on an event that has been applied,    *)
(* whatever fails, crashes or overlaps: markProcessed runs after the       *)
(* database commit, and the ids of the stream are never reused.            *)
(***************************************************************************)
CursorOnApplied ==
    \A t \in Tenants : cursor[t] # 0 => cursor[t] <= Len(stream[t]) /\ stream[t][cursor[t]] \in applied

(***************************************************************************)
(* With one tenant: a cursor frozen by a failure means that the node is in *)
(* a restricted mode, or that the sweep which completed the recovery is    *)
(* about to unfreeze it.  A frozen cursor in NORMAL mode would stay frozen *)
(* for ever, because the sweeper only works in RECOVERING.                 *)
(***************************************************************************)
FrozenMeansRestricted ==
    blocked # {} /\ mode = "NORMAL" => spc \in {"compact", "truncate", "reset", "clear"}

(***************************************************************************)
(* A sweep returns the node to NORMAL only when every failed event has     *)
(* been applied: with unapplied events in NORMAL mode nobody could explain *)
(* the state of the calls (comment in startRecovery).                      *)
(***************************************************************************)
NormalMeansReplayed ==
    [][mode = "RECOVERING" /\ mode' = "NORMAL" /\ spc = "replay" => FailedEvents \subseteq applied]_vars

(***************************************************************************)
(* A cursor is unfrozen only when every failed event of its tenant has     *)
(* been applied: clearBlocked is to be called after a complete replay      *)
(* only (its comment).  It does not hold with two outages: a sweep that    *)
(* was skipped counts as one without failures (README, 4).                 *)
(***************************************************************************)
UnfreezesReplayed ==
    [][\A t \in blocked \ blocked' : \A e \in FailedEvents : TenantOf[e] = t => e \in applied]_vars

(***************************************************************************)
(* A node that is the leader from some time on, and whose replays stop     *)
(* failing, does not stay in a restricted mode: the database probe and the *)
(* sweeper bring it back to NORMAL by themselves, whatever elections,      *)
(* failed records, outages and restarts came before.  (There is no time    *)
(* from which on it leads, nothing fails and the mode is restricted.)      *)
(***************************************************************************)
BackToNormal == []<>(leader = "leader" /\ failures = {} => mode = "NORMAL")

(***************************************************************************)
(* What RecoverySweeperService says of itself, taken for a node that stays *)
(* a follower: RECOVERING ends without a human.  It does not hold, the     *)
(* sweeper returns at once on a follower (README, 4).                      *)
(***************************************************************************)
FollowerReturns == <>[](leader = "follower") => []<>(mode = "NORMAL")

Delivery == INSTANCE ReliableDelivery
              WITH waiting <- (Spooled \ applied) \cap Held, delivered <- Spooled \cap applied

(***************************************************************************)
(* The pipeline implements ReliableDelivery: handler, frozen cursor and    *)
(* sweeper together apply every spooled event, and drop none.              *)
(***************************************************************************)
DeliversReliably == Delivery!Spec
=============================================================================
