---------------------------- MODULE CallSession ----------------------------
(***************************************************************************)
(* The session of one call (one linkedid of one tenant) in the database    *)
(* and those who write it:                                                 *)
(*                                                                         *)
(*   - SessionEngineService.processNormalizedEvent, run once for every     *)
(*     received event and once more for every replayed one.  It awaits the *)
(*     Redis dedupe key, the insert of the raw event, the leg, and a       *)
(*     transaction that first reads the session and then writes it;        *)
(*   - SessionRecoverySweeperService.sweep;                                *)
(*   - the commands of CallsService and the expiry of a transfer, which    *)
(*     set the status without an outbox row.  Of the transfers only the    *)
(*     writes to the session are here, CallTransfer has the rest.          *)
(*                                                                         *)
(* PostgreSQL runs the transactions READ COMMITTED and findFirst takes no  *)
(* row lock, so the row may change between the read and the write; the     *)
(* write itself, with its outbox row, is atomic.                           *)
(***************************************************************************)
EXTENDS Naturals, Sequences

CONSTANTS
    Events,         \* deliveries of AMI events of this call
    Kind,           \* eventName
    Identity,       \* what computeFingerprint hashes of an event besides its second
    Channels,       \* channels the events are about
    ChannelOf,      \* the channel of an event
    LocalChannels,  \* the Local/... channels a queue uses to reach an agent
    AgentChannels,  \* those of agents' phones; the rest are callers'
    Replayer,       \* the recovery coordinator, replaying the spool
    Overlap,        \* whether handlers, replay and sweep may overlap
    MaxReplays,     \* most replays of the spool
    Commands,       \* the other writers at work
    MaxCommands,    \* how often they write, at most
    MaxTime,        \* last instant of the clock; an instant is a second of computeFingerprint
    StaleAfter,     \* the 10 minutes of the sweeper
    Faults          \* "db": a query fails; "redis": the dedupe key cannot be set

Kinds == {"Newchannel", "QueueCallerJoin", "AgentCalled", "AgentConnect", "BridgeEnter",
          "Hold", "Unhold", "Hangup", "AgentComplete"}

ASSUME CallSessionAssumption ==
    /\ Kind \in [Events -> Kinds]
    /\ ChannelOf \in [Events -> Channels]
    /\ LocalChannels \subseteq Channels /\ AgentChannels \subseteq Channels
    /\ Replayer \notin Events
    /\ Overlap \in BOOLEAN
    /\ MaxReplays \in Nat /\ MaxCommands \in Nat /\ MaxTime \in Nat \ {0} /\ StaleAfter \in Nat
    /\ Commands \subseteq {"transfer", "cancel", "complete", "pickup", "expiry"}
    /\ Faults \subseteq {"db", "redis"}

VARIABLES
    now,        \* the clock; 0 stands for a NULL timestamp
    log,        \* the received events, in the order of the spool
    evtime,     \* eventTime, set by the normalizer when the event is received
    keys,       \* fingerprints whose Redis dedupe key is set
    raw,        \* fingerprints in rawAmiEvents, unique per tenant
    session,    \* the callSessions row; status "NONE" while there is none
    legs,       \* callLegs: per channel "none", "open" (endedAt NULL) or "ended"
    outbox,     \* the eventOutbox rows of this call, in commit order: the type and the status shown
    pc,         \* where a handler (or the replay) is
    seen,       \* what its transaction has read, and when
    rpos, rend, passes,  \* the record being replayed, the last one, replays so far
    sweeper,    \* "idle", or "found": the row has been selected as stale
    change,     \* the command that has read the call and is about to write its status
    candidate,  \* there is an open attended transfer
    commands,   \* commands so far
    reopened    \* history: one of them has written to an ended session

handlers == <<pc, seen>>
replay == <<rpos, rend, passes>>
store == <<keys, raw, session, legs, outbox>>
control == <<change, candidate, commands, reopened>>
vars == <<now, log, evtime, store, handlers, replay, sweeper, control>>
----------------------------------------------------------------------------
Procs == Events \cup {Replayer}

Statuses == {"NEW", "QUEUED", "RINGING_AGENT", "TALKING", "HOLD", "TRANSFERRING",
             "AFTER_CALL_WORK", "ENDED"}

(* SESSION_PRECEDENCE *)
Precedence ==
    [NEW |-> 0, QUEUED |-> 10, RINGING_AGENT |-> 20, TALKING |-> 30, HOLD |-> 35,
     TRANSFERRING |-> 40, AFTER_CALL_WORK |-> 50, ENDED |-> 100]

Rows == [status : Statuses \cup {"NONE"}, answeredAt : Nat, updatedAt : Nat, hold : Nat]

Absent == [status |-> "NONE", answeredAt |-> 0, updatedAt |-> 0, hold |-> 0]

NothingSeen == [row |-> Absent, time |-> 0]

OutboxRows == [type : {"created", "updated", "ended"}, status : Statuses]

Changes == [by : Commands, status : {"RINGING_AGENT", "TALKING", "TRANSFERRING"}]
NoChange == [by |-> "none", status |-> "NONE"]

PCs == {"new",      \* not received; the replay: idle
        "dedupe",   \* setting the Redis key
        "insert",   \* inserting the raw event, ...
        "unkeyed",  \* ... without owning the Redis key
        "release",  \* the insert failed: deleting the key
        "track",    \* recording the leg
        "read",     \* about to read the session in the transaction
        "write",    \* between the read and the write
        "done", "skipped", "failed"}

(* The type invariant. *)
TypeOK ==
    /\ now \in Nat
    /\ log \in Seq(Events)
    /\ evtime \in [Events -> Nat]
    /\ session \in Rows
    /\ legs \in [Channels -> {"none", "open", "ended"}]
    /\ outbox \in Seq(OutboxRows)
    /\ pc \in [Procs -> PCs]
    /\ seen \in [Procs -> [row : Rows, time : Nat]]
    /\ rpos \in Nat /\ rend \in Nat /\ passes \in Nat
    /\ sweeper \in {"idle", "found"}
    /\ change \in Changes \cup {NoChange}
    /\ candidate \in BOOLEAN /\ commands \in Nat /\ reopened \in BOOLEAN

Init ==
    /\ now = 1
    /\ log = <<>> /\ evtime = [e \in Events |-> 0]
    /\ keys = {} /\ raw = {}
    /\ session = Absent
    /\ legs = [c \in Channels |-> "none"]
    /\ outbox = <<>>
    /\ pc = [p \in Procs |-> "new"]
    /\ seen = [p \in Procs |-> NothingSeen]
    /\ rpos = 0 /\ rend = 0 /\ passes = 0
    /\ sweeper = "idle"
    /\ change = NoChange /\ candidate = FALSE /\ commands = 0 /\ reopened = FALSE
----------------------------------------------------------------------------
Resting(p) == pc[p] \in {"new", "done", "skipped", "failed"}

(* Without overlap a process starts only when the others rest. *)
MayStart == Overlap \/ (sweeper = "idle" /\ change = NoChange /\ \A p \in Procs : Resting(p))

(* The event a process works on. *)
EventAt(p) == IF p = Replayer THEN log[rpos] ELSE p

(***************************************************************************)
(* computeFingerprint: the second is that of eventTime, so a delivery in   *)
(* another second has another fingerprint; a replay takes eventTime from   *)
(* the spool and has the fingerprint of the delivery.                      *)
(***************************************************************************)
Fingerprint(e) == <<Identity[e], evtime[e]>>

(***************************************************************************)
(* Time passes.  The bound on the clock leaves a last stretch of more than *)
(* StaleAfter for the sweeper, in which nothing new starts; handlers, the  *)
(* replay and commands are not that slow.                                  *)
(***************************************************************************)
Early == now + StaleAfter + 1 < MaxTime

Tick ==
    /\ now < MaxTime
    /\ Early \/ (change = NoChange /\ rpos = 0 /\ \A p \in Procs : Resting(p))
    /\ now' = now + 1
    /\ UNCHANGED <<log, evtime, store, handlers, replay, sweeper, control>>

(* The event is received, normalized and spooled, and its handler starts. *)
Receive(e) ==
    /\ pc[e] = "new" /\ MayStart /\ Early
    /\ log' = Append(log, e)
    /\ evtime' = [evtime EXCEPT ![e] = now]
    /\ pc' = [pc EXCEPT ![e] = "dedupe"]
    /\ UNCHANGED <<now, store, seen, replay, sweeper, control>>

(* SET NX of the dedupe key; an error of Redis is ignored. *)
Dedupe(e) ==
    /\ pc[e] = "dedupe"
    /\ \/ /\ Fingerprint(e) \notin keys
          /\ keys' = keys \cup {Fingerprint(e)}
          /\ pc' = [pc EXCEPT ![e] = "insert"]
       \/ /\ Fingerprint(e) \in keys
          /\ pc' = [pc EXCEPT ![e] = "skipped"]
          /\ UNCHANGED keys
       \/ /\ "redis" \in Faults
          /\ pc' = [pc EXCEPT ![e] = "unkeyed"]
          /\ UNCHANGED keys
    /\ UNCHANGED <<now, log, evtime, raw, session, legs, outbox, seen, replay, sweeper, control>>

\* Mutant: the live path, too, goes on when the raw event is already there.
InsertRawTolerant(p) ==
    /\ pc[p] \in {"insert", "unkeyed"}
    /\ \/ /\ raw' = raw \cup {Fingerprint(EventAt(p))}
          /\ pc' = [pc EXCEPT ![p] = "track"]
       \/ /\ "db" \in Faults
          /\ pc' = [pc EXCEPT ![p] = IF @ = "insert" THEN "release" ELSE "failed"]
          /\ UNCHANGED raw
    /\ UNCHANGED <<now, log, evtime, keys, session, legs, outbox, seen, replay, sweeper, control>>

(* The insert into rawAmiEvents.  On a duplicate the live path stops, a replay goes on. *)
InsertRaw(p) ==
    /\ pc[p] \in {"insert", "unkeyed"}
    /\ \/ /\ raw' = raw \cup {Fingerprint(EventAt(p))}
          /\ pc' = [pc EXCEPT ![p] = IF p # Replayer /\ Fingerprint(p) \in raw
                                     THEN "skipped" ELSE "track"]
       \/ /\ "db" \in Faults
          /\ pc' = [pc EXCEPT ![p] = IF @ = "insert" THEN "release" ELSE "failed"]
          /\ UNCHANGED raw
    /\ UNCHANGED <<now, log, evtime, keys, session, legs, outbox, seen, replay, sweeper, control>>

(* releaseDedupeKey; its own error is swallowed. *)
ReleaseDedupeKey(e) ==
    /\ pc[e] = "release"
    /\ \/ keys' = keys \ {Fingerprint(e)}
       \/ "redis" \in Faults /\ UNCHANGED keys
    /\ pc' = [pc EXCEPT ![e] = "failed"]
    /\ UNCHANGED <<now, log, evtime, raw, session, legs, outbox, seen, replay, sweeper, control>>

(* trackLeg: nothing without a session, an ended leg stays ended, errors are swallowed. *)
TrackLeg(p) ==
    LET c == ChannelOf[EventAt(p)]
        ends == Kind[EventAt(p)] = "Hangup"
    IN /\ pc[p] = "track"
       /\ \/ legs' = IF session.status = "NONE" THEN legs
                     ELSE [legs EXCEPT ![c] = IF ends \/ @ = "ended" THEN "ended" ELSE "open"]
          \/ "db" \in Faults /\ UNCHANGED legs
       /\ pc' = [pc EXCEPT ![p] = "read"]
       /\ UNCHANGED <<now, log, evtime, keys, raw, session, outbox, seen, replay, sweeper, control>>

(* The Hangup of an intermediate channel (hangupEndsCall) opens no transaction. *)
NoTransaction(e) == Kind[e] = "Hangup" /\ ChannelOf[e] \in LocalChannels

(* findFirst; it fails with the database. *)
ReadSession(p) ==
    /\ pc[p] = "read"
    /\ \/ /\ ~NoTransaction(EventAt(p))
          /\ seen' = [seen EXCEPT ![p] = [row |-> session, time |-> now]]
          /\ pc' = [pc EXCEPT ![p] = "write"]
       \/ /\ NoTransaction(EventAt(p))
          /\ pc' = [pc EXCEPT ![p] = "done"]
          /\ UNCHANGED seen
       \/ /\ ~NoTransaction(EventAt(p)) /\ "db" \in Faults
          /\ pc' = [pc EXCEPT ![p] = "failed"]
          /\ UNCHANGED seen
    /\ UNCHANGED <<now, log, evtime, store, replay, sweeper, control>>
----------------------------------------------------------------------------
(* The second half of the transactions. *)

(* The commit: the row and its outbox row.  Its answer may be lost. *)
Commit(p, type, row) ==
    /\ session' = row
    /\ outbox' = Append(outbox, [type |-> type, status |-> row.status])
    /\ \/ pc' = [pc EXCEPT ![p] = "done"]
       \/ "db" \in Faults /\ pc' = [pc EXCEPT ![p] = "failed"]

(* The transaction ends without a write. *)
LeaveAsIs(p) ==
    /\ pc' = [pc EXCEPT ![p] = "done"]
    /\ UNCHANGED <<session, outbox>>

\* Mutant: no unique index.
CreateSessionAgain(p, row) == Commit(p, "created", row)

(***************************************************************************)
(* create.  When another transaction has created the row since the read,   *)
(* the unique index (tenantId, linkedid) refuses it.  upsertSession then   *)
(* queries again in the same transaction, but PostgreSQL has aborted that  *)
(* one and refuses every further statement: the handler fails, as it does  *)
(* in ensureSessionStarted, which does not catch the error.                *)
(***************************************************************************)
CreateSession(p, row) ==
    \/ session.status = "NONE" /\ Commit(p, "created", row)
    \/ /\ session.status # "NONE"
       /\ pc' = [pc EXCEPT ![p] = "failed"]
       /\ UNCHANGED <<session, outbox>>

(* Newchannel; a later one may fill in ani, dnis or customer, which no property reads. *)
EnsureSessionStarted(p) ==
    /\ Kind[EventAt(p)] = "Newchannel"
    /\ IF seen[p].row.status = "NONE"
         THEN CreateSession(p, [Absent EXCEPT !.status = "NEW", !.updatedAt = seen[p].time])
         ELSE LeaveAsIs(p) \/ Commit(p, "updated", session)

(* The status each kind of event asks for. *)
Target ==
    [QueueCallerJoin |-> "QUEUED", AgentCalled |-> "RINGING_AGENT", AgentConnect |-> "TALKING",
     BridgeEnter |-> "TALKING", AgentComplete |-> "AFTER_CALL_WORK"]

(***************************************************************************)
(* The answeredAt and holdSeconds of the patch, given those of the row:    *)
(* AgentComplete has both computed from TalkTime and HoldTime, if present; *)
(* the two lie within the call.                                            *)
(***************************************************************************)
Patches(p, answeredAt, hold) ==
    LET e == EventAt(p)
    IN IF Kind[e] \in {"AgentConnect", "BridgeEnter"}
         THEN {[answeredAt |-> seen[p].time, hold |-> hold]}
       ELSE IF Kind[e] = "AgentComplete"
         THEN {[answeredAt |-> answeredAt, hold |-> hold]}
                \cup {r \in [answeredAt : 1 .. evtime[e], hold : 0 .. evtime[e]] :
                        r.hold < r.answeredAt}
       ELSE {[answeredAt |-> answeredAt, hold |-> hold]}

\* Mutant: without the guard against regressions.
UpsertSessionUnguarded(p) ==
    LET target == Target[Kind[EventAt(p)]]
        old == seen[p].row
    IN /\ Kind[EventAt(p)] \in DOMAIN Target
       /\ \E patch \in Patches(p, session.answeredAt, session.hold) :
             IF old.status = "NONE"
               THEN CreateSession(p, [status |-> target, answeredAt |-> patch.answeredAt,
                                      updatedAt |-> seen[p].time, hold |-> patch.hold])
               ELSE Commit(p, "updated",
                      [session EXCEPT !.status = target,
                                      !.answeredAt = patch.answeredAt, !.hold = patch.hold])

(* upsertSession: the status is written if it ranks above the one read; updatedAt is not written. *)
UpsertSession(p) ==
    LET target == Target[Kind[EventAt(p)]]
        old == seen[p].row
    IN /\ Kind[EventAt(p)] \in DOMAIN Target
       /\ \E patch \in Patches(p, session.answeredAt, session.hold) :
             IF old.status = "NONE"
               THEN CreateSession(p, [status |-> target, answeredAt |-> patch.answeredAt,
                                      updatedAt |-> seen[p].time, hold |-> patch.hold])
               ELSE Commit(p, "updated",
                      [session EXCEPT !.status = IF Precedence[target] > Precedence[old.status]
                                                 THEN target ELSE @,
                                      !.answeredAt = patch.answeredAt, !.hold = patch.hold])

MarkHold(p) ==
    LET e == EventAt(p)
        old == seen[p].row
    IN /\ Kind[e] = "Hold"
       /\ IF old.status \in {"NONE", "ENDED", "HOLD"} \/ old.answeredAt = 0
            THEN LeaveAsIs(p)
            ELSE Commit(p, "updated", [session EXCEPT !.status = "HOLD", !.updatedAt = evtime[e]])

(* Math.max(0, later - earlier) *)
Elapsed(earlier, later) == IF later > earlier THEN later - earlier ELSE 0

ResumeHold(p) ==
    LET e == EventAt(p)
        old == seen[p].row
    IN /\ Kind[e] = "Unhold"
       /\ IF old.status # "HOLD" THEN LeaveAsIs(p)
          ELSE Commit(p, "updated",
                 [session EXCEPT !.status = "TALKING", !.updatedAt = evtime[e],
                                 !.hold = old.hold + Elapsed(old.updatedAt, evtime[e])])

\* Mutant: a hold is added whether or not one is running, from the answer on.
FinalizeHangupAlwaysHeld(p) ==
    LET old == seen[p].row
    IN /\ Kind[EventAt(p)] = "Hangup"
       /\ IF old.status \in {"NONE", "ENDED"} THEN LeaveAsIs(p)
          ELSE Commit(p, "ended",
                 [session EXCEPT !.status = "ENDED",
                                 !.hold = old.hold + Elapsed(old.answeredAt, seen[p].time)])

\* Mutant: an ended session is ended again.
FinalizeHangupAgain(p) ==
    /\ Kind[EventAt(p)] = "Hangup"
    /\ IF seen[p].row.status = "NONE" THEN LeaveAsIs(p)
       ELSE Commit(p, "ended", [session EXCEPT !.status = "ENDED"])

FinalizeHangup(p) ==
    LET old == seen[p].row
    IN /\ Kind[EventAt(p)] = "Hangup"
       /\ IF old.status \in {"NONE", "ENDED"} THEN LeaveAsIs(p)
          ELSE Commit(p, "ended",
                 [session EXCEPT !.status = "ENDED",
                                 !.hold = old.hold + (IF old.status = "HOLD"
                                            THEN Elapsed(old.updatedAt, seen[p].time) ELSE 0)])

(* The transaction is rolled back. *)
Rollback(p) ==
    /\ "db" \in Faults
    /\ pc' = [pc EXCEPT ![p] = "failed"]
    /\ UNCHANGED <<session, outbox>>

WriteSession(p) ==
    /\ pc[p] = "write"
    /\ \/ EnsureSessionStarted(p) \/ UpsertSession(p) \/ MarkHold(p) \/ ResumeHold(p)
       \/ FinalizeHangup(p) \/ Rollback(p)
    /\ seen' = [seen EXCEPT ![p] = NothingSeen]
    /\ UNCHANGED <<now, log, evtime, keys, raw, legs, replay, sweeper, control>>
----------------------------------------------------------------------------
(***************************************************************************)
(* The replay of the spool after an outage: from some record on, at the    *)
(* latest the first one that failed, to the end, one after the other.      *)
(* (Which record that is, is the subject of EventPipeline.)                *)
(***************************************************************************)
StartReplay ==
    /\ pc[Replayer] = "new" /\ passes < MaxReplays /\ MayStart /\ Early
    /\ \E e \in Events : pc[e] = "failed"
    /\ \E k \in DOMAIN log :
          /\ \A i \in 1 .. k - 1 : pc[log[i]] # "failed"
          /\ rpos' = k
    /\ rend' = Len(log) /\ passes' = passes + 1
    /\ pc' = [pc EXCEPT ![Replayer] = "unkeyed"]
    /\ UNCHANGED <<now, log, evtime, store, seen, sweeper, control>>

(* The next record, whether this one failed or not. *)
NextRecord ==
    /\ pc[Replayer] \in {"done", "failed"}
    /\ \/ /\ rpos < rend /\ MayStart
          /\ rpos' = rpos + 1
          /\ pc' = [pc EXCEPT ![Replayer] = "unkeyed"]
       \/ /\ rpos >= rend /\ rpos' = 0
          /\ pc' = [pc EXCEPT ![Replayer] = "new"]
    /\ UNCHANGED <<now, log, evtime, store, seen, rend, passes, sweeper, control>>
----------------------------------------------------------------------------
\* Mutant: a status is missing.
SweptButRinging == {"NEW", "QUEUED", "TALKING", "AFTER_CALL_WORK", "TRANSFERRING"}

(* The statuses the sweeper selects; HOLD is not among them. *)
Swept == {"NEW", "QUEUED", "RINGING_AGENT", "TALKING", "AFTER_CALL_WORK", "TRANSFERRING"}

Stale == session.status \in Swept /\ session.updatedAt + StaleAfter < now

(* sweep: findMany ... *)
SweepFind ==
    /\ sweeper = "idle" /\ MayStart /\ Stale
    /\ sweeper' = "found"
    /\ UNCHANGED <<now, log, evtime, store, handlers, replay, control>>

(* ... and update; call.ended goes straight to the event bus, not through the outbox. *)
SweepClose ==
    /\ sweeper = "found" /\ sweeper' = "idle"
    /\ session' = [session EXCEPT !.status = "ENDED"]
    /\ UNCHANGED <<now, log, evtime, keys, raw, legs, outbox, handlers, replay, control>>
----------------------------------------------------------------------------
(* The commands and the expiry of a transfer: they read the call, ... *)

HasLeg(channels) == \E c \in channels : legs[c] = "open"

Begins(command, status) ==
    /\ command \in Commands /\ commands < MaxCommands
    /\ change = NoChange /\ MayStart /\ session.status # "NONE" /\ Early
    /\ change' = [by |-> command, status |-> status]
    /\ commands' = commands + 1
    /\ UNCHANGED <<now, log, evtime, store, handlers, replay, sweeper, candidate, reopened>>

(* What the status goes back to when a transfer comes to nothing. *)
Fallback == IF session.answeredAt # 0 THEN "TALKING" ELSE "RINGING_AGENT"

(* transfer does not look at the status. *)
Transfer == HasLeg(AgentChannels) /\ Begins("transfer", "TRANSFERRING")

CancelAttendedTransfer == candidate /\ HasLeg(AgentChannels) /\ Begins("cancel", Fallback)

CompleteAttendedTransfer == candidate /\ HasLeg(AgentChannels) /\ Begins("complete", "TRANSFERRING")

Pickup ==
    /\ session.status \in {"QUEUED", "RINGING_AGENT"}
    /\ HasLeg(Channels \ (AgentChannels \cup LocalChannels))
    /\ Begins("pickup", "RINGING_AGENT")

(* restoreCallSessionAfterTransferFallback, when the attended transfer has expired. *)
RestoreCallSession == candidate /\ Begins("expiry", Fallback)

(***************************************************************************)
(* ... and write its status, without reading it again and without a row in *)
(* the outbox.  All but transfer set updatedAt.  An attended transfer      *)
(* records a candidate, a cancellation or the expiry has closed it.        *)
(***************************************************************************)
WriteChange ==
    /\ change # NoChange /\ change' = NoChange
    /\ \/ /\ session' = [session EXCEPT !.status = change.status,
                                        !.updatedAt = IF change.by = "transfer" THEN @ ELSE now]
          /\ reopened' = (reopened \/ session.status = "ENDED")
          /\ \/ change.by = "transfer" /\ candidate' \in {candidate, TRUE}
             \/ change.by \in {"cancel", "expiry"} /\ candidate' = FALSE
             \/ change.by \in {"complete", "pickup"} /\ UNCHANGED candidate
       \/ "db" \in Faults /\ UNCHANGED <<session, candidate, reopened>>
    /\ UNCHANGED <<now, log, evtime, keys, raw, legs, outbox, handlers, replay, sweeper, commands>>

Command ==
    \/ Transfer \/ CancelAttendedTransfer \/ CompleteAttendedTransfer \/ Pickup
    \/ RestoreCallSession
----------------------------------------------------------------------------
Step(p) == InsertRaw(p) \/ TrackLeg(p) \/ ReadSession(p) \/ WriteSession(p)

Handle(e) == Dedupe(e) \/ ReleaseDedupeKey(e) \/ Step(e)

Replaying == StartReplay \/ NextRecord \/ Step(Replayer)

Next ==
    \/ Tick \/ Replaying \/ SweepFind \/ SweepClose \/ Command \/ WriteChange
    \/ \E e \in Events : Receive(e) \/ Handle(e)

Spec == Init /\ [][Next]_vars

(***************************************************************************)
(* Fairness: time passes, a handler or command that has started goes on,   *)
(* and timers start the replay and the sweep.  No event need ever arrive.  *)
(***************************************************************************)
Fairness ==
    /\ WF_vars(Tick) /\ WF_vars(Replaying) /\ WF_vars(SweepFind) /\ WF_vars(SweepClose)
    /\ WF_vars(WriteChange)
    /\ \A e \in Events : WF_vars(Handle(e))

FairSpec == Spec /\ Fairness
----------------------------------------------------------------------------
(* Properties *)

(***************************************************************************)
(* call.created is announced once, before everything else about the call,  *)
(* however many first events race to create the session.                   *)
(***************************************************************************)
CreatedFirst == \A i \in DOMAIN outbox : outbox[i].type = "created" <=> i = 1

(***************************************************************************)
(* An end that was announced stands: behind the first outbox row that      *)
(* shows the call as ENDED there are only call.updated rows that show it   *)
(* as ENDED too.  No second call.ended goes out (finalizeHangup), and no   *)
(* late, redelivered or replayed event announces the call as alive, also   *)
(* when the answer to a commit was lost.  The exception is a command or an *)
(* expiry that has written a status over ENDED.                            *)
(***************************************************************************)
AnnouncedEndStands ==
    ~reopened =>
        \A i, j \in DOMAIN outbox :
            i < j /\ outbox[i].status = "ENDED" => outbox[j] = [type |-> "updated", status |-> "ENDED"]

(* The handler of e got past the insert of the raw event, into the state transition. *)
Past(e) == pc[e] \in {"track", "read", "write", "done"}

(***************************************************************************)
(* Of the deliveries of an event that arrive within one second at most one *)
(* gets past the insert of the raw event, even when Redis refuses and when *)
(* a failed insert has released the key in between.                        *)
(***************************************************************************)
OncePerFingerprint ==
    \A e, f \in Events :
        Past(e) /\ Past(f) /\ Identity[e] = Identity[f] /\ evtime[e] = evtime[f] => e = f

(***************************************************************************)
(* What the comment on computeFingerprint says of the time bucket: a       *)
(* redelivery of an event gets the same hash and is caught.  It does not   *)
(* hold: a redelivery in a later second is applied again (README, 4).      *)
(***************************************************************************)
RedeliveryCaught ==
    \A e, f \in Events : Past(e) /\ Past(f) /\ Identity[e] = Identity[f] => e = f

(***************************************************************************)
(* No event, replay or sweep opens an ended session again: whatever comes  *)
(* late meets SESSION_PRECEDENCE and the checks of ENDED.  The step that   *)
(* may open it is the write of a command or of an expired transfer.        *)
(***************************************************************************)
EndedIsFinal ==
    [][session.status = "ENDED" /\ change' = change => session'.status = "ENDED"]_vars

(***************************************************************************)
(* What the comment in processNormalizedEvent says of a replay: the        *)
(* upsert and the rank of the statuses make it idempotent, so a record     *)
(* whose event was applied before leaves the session as it is.  It does    *)
(* not hold: a replayed BridgeEnter writes answeredAt anew (README, 4).    *)
(***************************************************************************)
ReplayIdempotent ==
    [][pc[Replayer] = "write" /\ pc[EventAt(Replayer)] = "done" => session' = session]_vars

(* The seconds on hold are not more than the call has lasted; it cannot start before instant 1. *)
HoldWithinCall == session.hold < now

(***************************************************************************)
(* No session stays open for ever: it ends with the Hangup or, when that   *)
(* is lost or fails, by the sweeper, also after a command that touches it. *)
(* The exception is a session that is put on hold, which the sweeper does  *)
(* not select: if its Hangup is lost it stays in HOLD.                     *)
(***************************************************************************)
OpenEnds == []<>(session.status \in {"NONE", "HOLD", "ENDED"})
=============================================================================
