------------------------- MODULE CallSessionProofs -------------------------
(***************************************************************************)
(* Theorems about CallSession: for any events and bounds, and, where the   *)
(* theorem names no assumption, any overlap, faults and replays.           *)
(***************************************************************************)
EXTENDS CallSession, SequenceTheorems, TLAPS

(* The ranks of SESSION_PRECEDENCE: no event asks for a status above ENDED. *)
LEMMA TargetFacts ==
    \A k \in DOMAIN Target :
        /\ Target[k] \in Statuses \ {"ENDED"}
        /\ ~(Precedence[Target[k]] > Precedence["ENDED"])
<1>1. DOMAIN Target = {"QueueCallerJoin", "AgentCalled", "AgentConnect", "BridgeEnter", "AgentComplete"}
  BY DEF Target
<1>2. /\ Target["QueueCallerJoin"] = "QUEUED" /\ Target["AgentCalled"] = "RINGING_AGENT"
      /\ Target["AgentConnect"] = "TALKING" /\ Target["BridgeEnter"] = "TALKING"
      /\ Target["AgentComplete"] = "AFTER_CALL_WORK"
  BY DEF Target
<1>3. /\ Precedence["QUEUED"] = 10 /\ Precedence["RINGING_AGENT"] = 20 /\ Precedence["TALKING"] = 30
      /\ Precedence["AFTER_CALL_WORK"] = 50 /\ Precedence["ENDED"] = 100
  BY DEF Precedence
<1> QED BY <1>1, <1>2, <1>3 DEF Statuses

(* An active replay stands on a record of the spool. *)
ReplayInLog ==
    /\ pc[Replayer] # "new" => rpos \in DOMAIN log
    /\ rend <= Len(log)

TypeInv == TypeOK /\ ReplayInLog

(* The event of a process is one of the events. *)
LEMMA EventAtType ==
    ASSUME TypeInv, NEW p \in Procs, pc[p] # "new"
    PROVE  EventAt(p) \in Events
<1>1. CASE p = Replayer
  <2>1. rpos \in DOMAIN log /\ log \in Seq(Events)
    BY <1>1 DEF TypeInv, TypeOK, ReplayInLog
  <2> QED BY <1>1, <2>1, ElementOfSeq DEF EventAt
<1>2. CASE p # Replayer
  BY <1>2 DEF EventAt, Procs
<1> QED BY <1>1, <1>2

(* The patch of an event has timestamps and seconds in it. *)
LEMMA PatchType ==
    ASSUME TypeInv, NEW p \in Procs, pc[p] # "new",
           NEW patch \in Patches(p, session.answeredAt, session.hold)
    PROVE  patch.answeredAt \in Nat /\ patch.hold \in Nat
<1>1. EventAt(p) \in Events
  BY EventAtType
<1>2. session.answeredAt \in Nat /\ session.hold \in Nat /\ seen[p].time \in Nat /\ evtime[EventAt(p)] \in Nat
  BY <1>1 DEF TypeInv, TypeOK, Rows
<1> QED BY <1>2 DEF Patches

(***************************************************************************)
(* The row a step of WriteSession commits: a created one replaces no row,  *)
(* an updated one is the session with new values in some columns.          *)
(***************************************************************************)
OutboxTypes == {"created", "updated", "ended"}

Committed(p) ==
    \/ UNCHANGED <<session, outbox>>
    \/ \E type \in OutboxTypes, row \in Rows :
         /\ row.status # "NONE"
         /\ type = "created" <=> session.status = "NONE"
         /\ session' = row /\ outbox' = Append(outbox, [type |-> type, status |-> row.status])

(* A transaction that has read a row writes to an existing row. *)
SeenExists ==
    /\ \A p \in Procs : seen[p].row.status # "NONE" => session.status # "NONE"
    /\ sweeper = "found" => session.status # "NONE"
    /\ change # NoChange => session.status # "NONE"

LEMMA CommitFacts ==
    ASSUME NEW p \in Procs, NEW type \in OutboxTypes, NEW row \in Rows,
           row.status # "NONE", type = "created" <=> session.status = "NONE", pc \in [Procs -> PCs],
           Commit(p, type, row)
    PROVE  Committed(p) /\ pc' \in [Procs -> PCs]
BY DEF Commit, Committed, PCs

LEMMA CreateFacts ==
    ASSUME NEW p \in Procs, NEW row \in Rows, row.status # "NONE", pc \in [Procs -> PCs],
           CreateSession(p, row)
    PROVE  Committed(p) /\ pc' \in [Procs -> PCs]
<1>1. CASE session.status = "NONE" /\ Commit(p, "created", row)
  BY <1>1, CommitFacts DEF OutboxTypes
<1>2. CASE session.status # "NONE" /\ ~(session.status = "NONE" /\ Commit(p, "created", row))
  BY <1>2 DEF CreateSession, Committed, PCs
<1> QED BY <1>1, <1>2 DEF CreateSession

LEMMA WriteFacts ==
    ASSUME TypeInv, SeenExists, NEW p \in Procs, WriteSession(p)
    PROVE  Committed(p) /\ pc' \in [Procs -> PCs]
<1> DEFINE e == EventAt(p)
           old == seen[p].row
<1>1. pc[p] # "new" /\ e \in Events
  BY EventAtType DEF WriteSession
<1>2. session \in Rows /\ old \in Rows /\ seen[p].time \in Nat /\ evtime[e] \in Nat /\ pc \in [Procs -> PCs]
  BY <1>1 DEF TypeInv, TypeOK
<1>2a. session.status \in Statuses \cup {"NONE"} /\ old.status \in Statuses \cup {"NONE"}
       /\ old.hold \in Nat /\ old.updatedAt \in Nat
  BY <1>2 DEF Rows
<1>3. old.status # "NONE" => session.status # "NONE"
  BY DEF SeenExists
<1>4. \A a, b \in Nat : Elapsed(a, b) \in Nat
  BY DEF Elapsed
<1>5. CASE EnsureSessionStarted(p)
  <2> DEFINE row == [Absent EXCEPT !.status = "NEW", !.updatedAt = seen[p].time]
  <2>1. row \in Rows /\ row.status # "NONE"
    BY <1>2 DEF Absent, Rows, Statuses
  <2>2. CASE old.status = "NONE"
    <3>1. CreateSession(p, row)
      BY <1>5, <2>2 DEF EnsureSessionStarted
    <3> HIDE DEF row
    <3> QED BY <3>1, <2>1, <1>2, CreateFacts
  <2>3. CASE old.status # "NONE" /\ Commit(p, "updated", session)
    BY <2>3, <1>2, <1>3, CommitFacts DEF OutboxTypes
  <2>4. CASE old.status # "NONE" /\ LeaveAsIs(p)
    BY <2>4, <1>2 DEF LeaveAsIs, Committed, PCs
  <2> QED BY <1>5, <2>2, <2>3, <2>4 DEF EnsureSessionStarted
<1>6. CASE UpsertSession(p)
  <2> DEFINE target == Target[Kind[e]]
  <2>1. target \in Statuses
    BY <1>6, TargetFacts DEF UpsertSession
  <2>1a. "NONE" \notin Statuses
    BY DEF Statuses
  <2>2. PICK patch \in Patches(p, session.answeredAt, session.hold) :
             IF old.status = "NONE"
               THEN CreateSession(p, [status |-> target, answeredAt |-> patch.answeredAt,
                                      updatedAt |-> seen[p].time, hold |-> patch.hold])
               ELSE Commit(p, "updated",
                      [session EXCEPT !.status = IF Precedence[target] > Precedence[old.status]
                                                 THEN target ELSE @,
                                      !.answeredAt = patch.answeredAt, !.hold = patch.hold])
    BY <1>6 DEF UpsertSession
  <2>3. patch.answeredAt \in Nat /\ patch.hold \in Nat
    BY <1>1, PatchType
  <2> HIDE DEF target
  <2>4. CASE old.status = "NONE"
    <3> DEFINE row == [status |-> target, answeredAt |-> patch.answeredAt,
                       updatedAt |-> seen[p].time, hold |-> patch.hold]
    <3>1. row \in Rows /\ row.status # "NONE"
      BY <1>2, <2>1, <2>1a, <2>3 DEF Rows
    <3>2. CreateSession(p, row)
      BY <2>2, <2>4
    <3> HIDE DEF row
    <3> QED BY <3>1, <3>2, <1>2, CreateFacts
  <2>5. CASE old.status # "NONE"
    <3> DEFINE st == IF Precedence[target] > Precedence[old.status] THEN target ELSE session.status
               row == [session EXCEPT !.status = st, !.answeredAt = patch.answeredAt, !.hold = patch.hold]
    <3>1. st \in Statuses
      BY <2>1, <2>5, <1>2a, <1>3
    <3>2. Commit(p, "updated", row)
      BY <2>2, <2>5
    <3> HIDE DEF st
    <3>3. row \in Rows /\ row.status # "NONE"
      BY <1>2, <2>1a, <2>3, <3>1 DEF Rows
    <3> HIDE DEF row
    <3> QED BY <3>2, <3>3, <2>5, <1>2, <1>3, CommitFacts DEF OutboxTypes
  <2> QED BY <2>4, <2>5
<1>7. CASE MarkHold(p)
  <2> DEFINE row == [session EXCEPT !.status = "HOLD", !.updatedAt = evtime[e]]
  <2>1. row \in Rows /\ row.status # "NONE"
    BY <1>2 DEF Rows, Statuses
  <2>2. CASE LeaveAsIs(p)
    BY <2>2, <1>2 DEF LeaveAsIs, Committed, PCs
  <2>3. CASE old.status # "NONE" /\ Commit(p, "updated", row)
    <3> HIDE DEF row
    <3> QED BY <2>1, <2>3, <1>2, <1>3, CommitFacts DEF OutboxTypes
  <2> QED BY <1>7, <2>2, <2>3 DEF MarkHold
<1>8. CASE ResumeHold(p)
  <2> DEFINE h == old.hold + Elapsed(old.updatedAt, evtime[e])
             row == [session EXCEPT !.status = "TALKING", !.updatedAt = evtime[e], !.hold = h]
  <2>1. h \in Nat
    <3>1. Elapsed(old.updatedAt, evtime[e]) \in Nat
      BY <1>2, <1>2a, <1>4
    <3> HIDE DEF old, e
    <3> QED BY <1>2a, <3>1
  <2>2. CASE LeaveAsIs(p)
    BY <2>2, <1>2 DEF LeaveAsIs, Committed, PCs
  <2>3. CASE old.status = "HOLD" /\ Commit(p, "updated", row)
    <3> HIDE DEF h
    <3>1. row \in Rows /\ row.status # "NONE"
      BY <1>2, <2>1 DEF Rows, Statuses
    <3> HIDE DEF row
    <3> QED BY <3>1, <2>3, <1>2, <1>3, CommitFacts DEF OutboxTypes
  <2> QED BY <1>8, <2>2, <2>3 DEF ResumeHold
<1>9. CASE FinalizeHangup(p)
  <2> DEFINE h == old.hold + (IF old.status = "HOLD" THEN Elapsed(old.updatedAt, seen[p].time) ELSE 0)
             row == [session EXCEPT !.status = "ENDED", !.hold = h]
  <2>1. h \in Nat
    <3>1. Elapsed(old.updatedAt, seen[p].time) \in Nat
      BY <1>2, <1>2a, <1>4
    <3> HIDE DEF old, e
    <3> QED BY <1>2a, <3>1
  <2>2. CASE LeaveAsIs(p)
    BY <2>2, <1>2 DEF LeaveAsIs, Committed, PCs
  <2>3. CASE old.status # "NONE" /\ Commit(p, "ended", row)
    <3> HIDE DEF h
    <3>1. row \in Rows /\ row.status # "NONE"
      BY <1>2, <2>1 DEF Rows, Statuses
    <3> HIDE DEF row
    <3> QED BY <3>1, <2>3, <1>2, <1>3, CommitFacts DEF OutboxTypes
  <2> QED BY <1>9, <2>2, <2>3 DEF FinalizeHangup
<1>10. CASE Rollback(p)
  BY <1>10, <1>2 DEF Rollback, Committed, PCs
<1> QED BY <1>5, <1>6, <1>7, <1>8, <1>9, <1>10 DEF WriteSession
----------------------------------------------------------------------------
(* A command that begins has read an existing session and is about to write one of three statuses. *)
LEMMA CommandFacts ==
    ASSUME Command
    PROVE  /\ session.status # "NONE" /\ MayStart /\ change = NoChange
           /\ change' \in Changes
           /\ commands' = commands + 1
           /\ UNCHANGED <<now, log, evtime, store, handlers, replay, sweeper, candidate, reopened>>
<1>1. ASSUME NEW c, NEW st \in {"RINGING_AGENT", "TALKING", "TRANSFERRING"}, Begins(c, st)
      PROVE  /\ session.status # "NONE" /\ MayStart /\ change = NoChange
             /\ change' \in Changes
             /\ commands' = commands + 1
             /\ UNCHANGED <<now, log, evtime, store, handlers, replay, sweeper, candidate, reopened>>
  BY <1>1 DEF Begins, Changes
<1>2. Fallback \in {"RINGING_AGENT", "TALKING", "TRANSFERRING"}
  BY DEF Fallback
<1>3. \E c, st : st \in {"RINGING_AGENT", "TALKING", "TRANSFERRING"} /\ Begins(c, st)
  BY <1>2 DEF Command, Transfer, CancelAttendedTransfer, CompleteAttendedTransfer, Pickup, RestoreCallSession
<1> QED BY <1>1, <1>3

(* What the write of a command leaves alone, and what it does to the session. *)
LEMMA ChangeFacts ==
    ASSUME TypeInv, WriteChange
    PROVE  /\ change # NoChange /\ change' = NoChange
           /\ session' \in Rows /\ session'.hold = session.hold
           /\ \/ session' = session /\ reopened' = reopened
              \/ /\ session'.status \in {"RINGING_AGENT", "TALKING", "TRANSFERRING"}
                 /\ reopened' = (reopened \/ session.status = "ENDED")
           /\ candidate' \in BOOLEAN /\ reopened' \in BOOLEAN
           /\ UNCHANGED <<now, log, evtime, keys, raw, legs, outbox, pc, seen, rpos, rend, passes, sweeper, commands>>
<1>1. /\ change # NoChange /\ change' = NoChange
      /\ UNCHANGED <<now, log, evtime, keys, raw, legs, outbox, pc, seen, rpos, rend, passes, sweeper, commands>>
  BY DEF WriteChange, handlers, replay
<1>2. /\ session \in Rows /\ now \in Nat /\ candidate \in BOOLEAN /\ reopened \in BOOLEAN
      /\ change.status \in {"RINGING_AGENT", "TALKING", "TRANSFERRING"}
  BY <1>1 DEF TypeInv, TypeOK, Changes
<1>3. candidate' \in BOOLEAN /\ reopened' \in BOOLEAN
  BY <1>2 DEF WriteChange
<1>4. CASE session' = session /\ reopened' = reopened
  BY <1>1, <1>2, <1>3, <1>4
<1>5. CASE /\ session' = [session EXCEPT !.status = change.status,
                                         !.updatedAt = IF change.by = "transfer" THEN @ ELSE now]
           /\ reopened' = (reopened \/ session.status = "ENDED")
  <2>1. session' \in Rows /\ session'.hold = session.hold /\ session'.status = change.status
    BY <1>2, <1>5 DEF Rows, Statuses
  <2> QED BY <1>1, <1>2, <1>3, <1>5, <2>1
<1> QED BY <1>4, <1>5 DEF WriteChange

(* Every step preserves the types, given that transactions saw existing rows. *)

LEMMA TypeStep ==
    ASSUME TypeInv, SeenExists, [Next]_vars
    PROVE  TypeInv'
<1> USE DEF TypeInv, TypeOK, ReplayInLog, control
<1>0. Replayer \in Procs /\ Events \subseteq Procs /\ Replayer \notin Events
  BY CallSessionAssumption DEF Procs
<1>1. CASE Tick
  BY <1>1 DEF Tick, store, handlers, replay
<1>2. ASSUME NEW e \in Events, Receive(e) PROVE TypeInv'
  <2>1. /\ log' = Append(log, e) /\ log' \in Seq(Events) /\ Len(log') = Len(log) + 1
        /\ Len(log) \in Nat /\ DOMAIN log = 1 .. Len(log) /\ DOMAIN log' = 1 .. Len(log')
    BY <1>2 DEF Receive
  <2>2. pc' \in [Procs -> PCs] /\ pc'[Replayer] = pc[Replayer]
    BY <1>2, <1>0 DEF Receive, PCs
  <2>3. evtime' \in [Events -> Nat]
    BY <1>2 DEF Receive
  <2>4. UNCHANGED <<now, session, legs, outbox, seen, rpos, rend, passes, sweeper, control>>
    BY <1>2 DEF Receive, store, replay
  <2> QED BY <2>1, <2>2, <2>3, <2>4
<1>3. ASSUME NEW e \in Events, Dedupe(e) PROVE TypeInv'
  <2>1. pc' \in [Procs -> PCs] /\ pc'[Replayer] = pc[Replayer]
    BY <1>3, <1>0 DEF Dedupe, PCs
  <2> QED BY <1>3, <2>1 DEF Dedupe, replay
<1>4. ASSUME NEW e \in Events, ReleaseDedupeKey(e) PROVE TypeInv'
  <2>1. pc' \in [Procs -> PCs] /\ pc'[Replayer] = pc[Replayer]
    BY <1>4, <1>0 DEF ReleaseDedupeKey, PCs
  <2> QED BY <1>4, <2>1 DEF ReleaseDedupeKey, replay
<1>5. ASSUME NEW p \in Procs, InsertRaw(p) PROVE TypeInv'
  <2>1. pc' \in [Procs -> PCs] /\ (pc'[Replayer] # "new" => pc[Replayer] # "new")
    BY <1>5, <1>0 DEF InsertRaw, PCs
  <2> QED BY <1>5, <2>1 DEF InsertRaw, replay
<1>6. ASSUME NEW p \in Procs, TrackLeg(p) PROVE TypeInv'
  <2>1. pc' \in [Procs -> PCs] /\ (pc'[Replayer] # "new" => pc[Replayer] # "new")
    BY <1>6, <1>0 DEF TrackLeg, PCs
  <2>2. legs' \in [Channels -> {"none", "open", "ended"}]
    BY <1>6 DEF TrackLeg
  <2> QED BY <1>6, <2>1, <2>2 DEF TrackLeg, replay
<1>7. ASSUME NEW p \in Procs, ReadSession(p) PROVE TypeInv'
  <2>1. pc' \in [Procs -> PCs] /\ (pc'[Replayer] # "new" => pc[Replayer] # "new")
    BY <1>7, <1>0 DEF ReadSession, PCs
  <2>2. seen' \in [Procs -> [row : Rows, time : Nat]]
    <3>1. session \in Rows /\ now \in Nat /\ seen \in [Procs -> [row : Rows, time : Nat]]
      OBVIOUS
    <3>2. [row |-> session, time |-> now] \in [row : Rows, time : Nat]
      BY <3>1
    <3>3. seen' = seen \/ seen' = [seen EXCEPT ![p] = [row |-> session, time |-> now]]
      BY <1>7 DEF ReadSession
    <3> QED BY <3>1, <3>2, <3>3, Zenon
  <2> QED BY <1>7, <2>1, <2>2 DEF ReadSession, replay, store
<1>8. ASSUME NEW p \in Procs, WriteSession(p) PROVE TypeInv'
  <2>1. Committed(p) /\ pc' \in [Procs -> PCs]
    BY <1>8, WriteFacts
  <2>2. pc[p] # "new"
    BY <1>8 DEF WriteSession
  <2>3. pc'[Replayer] # "new" => pc[Replayer] # "new"
    BY <1>8, <1>0, <2>2 DEF WriteSession, EnsureSessionStarted, UpsertSession, MarkHold, ResumeHold,
          FinalizeHangup, Rollback, CreateSession, Commit, LeaveAsIs
  <2>4. session' \in Rows /\ outbox' \in Seq(OutboxRows)
    <3>1. session \in Rows /\ outbox \in Seq(OutboxRows)
      OBVIOUS
    <3>2. ASSUME NEW type \in OutboxTypes, NEW row \in Rows, row.status # "NONE"
          PROVE  Append(outbox, [type |-> type, status |-> row.status]) \in Seq(OutboxRows)
      <4>1. [type |-> type, status |-> row.status] \in OutboxRows
        BY <3>2 DEF OutboxRows, OutboxTypes, Rows
      <4> QED BY <3>1, <4>1, AppendProperties
    <3> QED BY <2>1, <3>1, <3>2, Zenon DEF Committed
  <2>5. NothingSeen \in [row : Rows, time : Nat]
    BY DEF NothingSeen, Absent, Rows
  <2>6. seen' \in [Procs -> [row : Rows, time : Nat]]
    BY <1>8, <2>5 DEF WriteSession
  <2> QED BY <1>8, <2>1, <2>3, <2>4, <2>6 DEF WriteSession, replay
<1>9. CASE StartReplay
  <2>1. pc' \in [Procs -> PCs]
    BY <1>9, <1>0 DEF StartReplay, PCs
  <2>2. rpos' \in DOMAIN log /\ rend' = Len(log) /\ passes' = passes + 1 /\ Len(log) \in Nat
        /\ DOMAIN log = 1 .. Len(log)
    BY <1>9 DEF StartReplay
  <2>3. UNCHANGED <<now, log, evtime, session, legs, outbox, seen, sweeper, control>>
    BY <1>9 DEF StartReplay, store
  <2> QED BY <2>1, <2>2, <2>3
<1>10. CASE NextRecord
  <2>1. pc' \in [Procs -> PCs]
    BY <1>10, <1>0 DEF NextRecord, PCs
  <2>2. pc[Replayer] # "new" /\ rpos \in 1 .. Len(log) /\ Len(log) \in Nat /\ DOMAIN log = 1 .. Len(log)
    BY <1>10 DEF NextRecord
  <2>3. \/ rpos' \in 1 .. Len(log)
        \/ rpos' = 0 /\ pc'[Replayer] = "new"
    BY <1>10, <1>0, <2>2 DEF NextRecord
  <2>4. UNCHANGED <<now, log, evtime, session, legs, outbox, seen, rend, passes, sweeper, control>>
    BY <1>10 DEF NextRecord, store
  <2> QED BY <2>1, <2>2, <2>3, <2>4
<1>11. CASE SweepFind
  BY <1>11 DEF SweepFind, store, handlers, replay
<1>12. CASE SweepClose
  <2>1. session' \in Rows
    BY <1>12 DEF SweepClose, Rows, Statuses
  <2> QED BY <1>12, <2>1 DEF SweepClose, handlers, replay
<1>14. CASE Command
  <2>1. change' \in Changes \cup {NoChange}
        /\ commands' \in Nat
    BY <1>14, CommandFacts
  <2>2. UNCHANGED <<now, log, evtime, store, handlers, replay, sweeper, candidate, reopened>>
    BY <1>14, CommandFacts
  <2> QED BY <2>1, <2>2 DEF store, handlers, replay
<1>15. CASE WriteChange
  BY <1>15, ChangeFacts
<1>13. CASE UNCHANGED vars
  BY <1>13 DEF vars, store, handlers, replay
<1> QED
  BY <1>0, <1>1, <1>2, <1>3, <1>4, <1>5, <1>6, <1>7, <1>8, <1>9, <1>10, <1>11, <1>12, <1>13, <1>14, <1>15
  DEF Next, Replaying, Handle, Step
----------------------------------------------------------------------------
(* The outbox *)

(* There is an outbox row exactly when there is a session. *)
OutboxInv ==
    /\ session.status = "NONE" <=> outbox = <<>>
    /\ CreatedFirst

SessionInv == TypeInv /\ SeenExists /\ OutboxInv

LEMMA SeenStep ==
    ASSUME SessionInv, [Next]_vars
    PROVE  SeenExists'
<1> USE DEF SessionInv, SeenExists, control
<1>0. Replayer \in Procs /\ Events \subseteq Procs
  BY DEF Procs
<1>t. seen \in [Procs -> [row : Rows, time : Nat]]
  BY DEF TypeInv, TypeOK
<1>1. ASSUME session.status # "NONE" => session'.status # "NONE",
             sweeper' = "found" => session.status # "NONE",
             change' # NoChange => session.status # "NONE",
             \A p \in Procs : seen'[p].row.status # "NONE" => session.status # "NONE"
      PROVE  SeenExists'
  BY <1>1
<1>2. ASSUME NEW p \in Procs, ReadSession(p) PROVE SeenExists'
  <2>1. UNCHANGED <<session, sweeper, change>>
    BY <1>2 DEF ReadSession, store
  <2>2. seen' = seen \/ seen' = [seen EXCEPT ![p] = [row |-> session, time |-> now]]
    BY <1>2 DEF ReadSession
  <2>3. \A q \in Procs : seen'[q].row.status # "NONE" => session.status # "NONE"
    BY <2>2, <1>t
  <2> QED BY <2>1, <2>3
<1>3. ASSUME NEW p \in Procs, WriteSession(p) PROVE SeenExists'
  <2>1. Committed(p)
    BY <1>3, WriteFacts
  <2>2. session.status # "NONE" => session'.status # "NONE"
    BY <2>1 DEF Committed
  <2>3. seen' = [seen EXCEPT ![p] = NothingSeen] /\ UNCHANGED <<sweeper, change>>
    BY <1>3 DEF WriteSession
  <2>4. NothingSeen.row.status = "NONE"
    BY DEF NothingSeen, Absent
  <2>5. \A q \in Procs : seen'[q].row.status # "NONE" => session.status # "NONE"
    BY <2>3, <2>4, <1>t
  <2> QED BY <2>2, <2>3, <2>5
<1>4. CASE SweepFind
  <2>1. session.status # "NONE"
    BY <1>4 DEF SweepFind, Stale, Swept
  <2> QED BY <1>4, <2>1 DEF SweepFind, store, handlers
<1>5. CASE SweepClose
  <2>1. session'.status = "ENDED"
    BY <1>5 DEF SweepClose, TypeInv, TypeOK, Rows
  <2> QED BY <1>5, <2>1 DEF SweepClose, handlers
<1>6. CASE Tick \/ StartReplay \/ NextRecord \/ UNCHANGED vars
  <2>1. UNCHANGED <<session, seen, sweeper, change>>
    BY <1>6 DEF Tick, StartReplay, NextRecord, vars, store, handlers
  <2> QED BY <2>1
<1>7. ASSUME NEW e \in Events, Receive(e) \/ Dedupe(e) \/ ReleaseDedupeKey(e) PROVE SeenExists'
  <2>1. UNCHANGED <<session, seen, sweeper, change>>
    BY <1>7 DEF Receive, Dedupe, ReleaseDedupeKey, store
  <2> QED BY <2>1
<1>8. ASSUME NEW p \in Procs, InsertRaw(p) \/ TrackLeg(p) PROVE SeenExists'
  <2>1. UNCHANGED <<session, seen, sweeper, change>>
    BY <1>8 DEF InsertRaw, TrackLeg
  <2> QED BY <2>1
<1>9. CASE Command
  <2>1. session.status # "NONE" /\ UNCHANGED <<session, seen, sweeper>>
    BY <1>9, CommandFacts DEF store, handlers
  <2> QED BY <2>1
<1>10. CASE WriteChange
  <2>1. change # NoChange /\ change' = NoChange /\ UNCHANGED <<seen, sweeper>>
    BY <1>10, ChangeFacts
  <2>2. session.status # "NONE" /\ session'.status # "NONE"
    BY <1>10, <2>1, ChangeFacts
  <2> QED BY <2>1, <2>2
<1> QED
  BY <1>0, <1>2, <1>3, <1>4, <1>5, <1>6, <1>7, <1>8, <1>9, <1>10 DEF Next, Replaying, Handle, Step

LEMMA OutboxStep ==
    ASSUME SessionInv, [Next]_vars
    PROVE  OutboxInv'
<1>0. Replayer \in Procs /\ Events \subseteq Procs
  BY DEF Procs
<1>t. session \in Rows /\ outbox \in Seq(OutboxRows) /\ Len(outbox) \in Nat
  BY DEF SessionInv, TypeInv, TypeOK
<1>1. ASSUME UNCHANGED <<session, outbox>> PROVE OutboxInv'
  BY <1>1 DEF SessionInv, OutboxInv, CreatedFirst
<1>2. ASSUME NEW p \in Procs, WriteSession(p) PROVE OutboxInv'
  <2>1. Committed(p)
    BY <1>2, WriteFacts DEF SessionInv
  <2>2. ASSUME NEW type \in OutboxTypes, NEW row \in Rows, row.status # "NONE",
               type = "created" <=> session.status = "NONE",
               session' = row, outbox' = Append(outbox, [type |-> type, status |-> row.status])
        PROVE  OutboxInv'
    <3>1. /\ Len(outbox') = Len(outbox) + 1 /\ DOMAIN outbox' = 1 .. Len(outbox) + 1
          /\ \A i \in 1 .. Len(outbox) : outbox'[i] = outbox[i]
          /\ outbox'[Len(outbox) + 1] = [type |-> type, status |-> row.status] /\ DOMAIN outbox = 1 .. Len(outbox)
      BY <2>2, <1>t
    <3>2. outbox' # <<>>
      BY <3>1, <1>t
    <3>3. session.status = "NONE" <=> Len(outbox) = 0
      BY <1>t, EmptySeq DEF SessionInv, OutboxInv
    <3>4. CreatedFirst'
      <4>1. SUFFICES ASSUME NEW i \in DOMAIN outbox' PROVE outbox'[i].type = "created" <=> i = 1
        BY DEF CreatedFirst
      <4>2. CASE i \in 1 .. Len(outbox)
        BY <3>1, <4>2 DEF SessionInv, OutboxInv, CreatedFirst
      <4>3. CASE i = Len(outbox) + 1
        BY <3>1, <3>3, <4>3, <2>2, <1>t
      <4> QED BY <3>1, <4>2, <4>3, <1>t
    <3> QED BY <2>2, <3>2, <3>4 DEF OutboxInv
  <2> QED BY <1>1, <2>1, <2>2 DEF Committed
<1>3. CASE SweepClose \/ WriteChange
  <2>1. outbox' = outbox
    BY <1>3, ChangeFacts DEF SweepClose, SessionInv
  <2>2. session.status # "NONE"
    BY <1>3, ChangeFacts DEF SweepClose, SessionInv, SeenExists
  <2>3. session'.status # "NONE"
    BY <1>3, <1>t, <2>2, ChangeFacts DEF SweepClose, SessionInv, Rows
  <2> QED BY <2>1, <2>2, <2>3 DEF SessionInv, OutboxInv, CreatedFirst
<1>4. CASE Tick \/ StartReplay \/ NextRecord \/ SweepFind \/ UNCHANGED vars
  BY <1>1, <1>4 DEF Tick, StartReplay, NextRecord, SweepFind, vars, store
<1>5. ASSUME NEW e \in Events, Receive(e) \/ Dedupe(e) \/ ReleaseDedupeKey(e) PROVE OutboxInv'
  BY <1>1, <1>5 DEF Receive, Dedupe, ReleaseDedupeKey, store
<1>6. ASSUME NEW p \in Procs, InsertRaw(p) \/ TrackLeg(p) \/ ReadSession(p) PROVE OutboxInv'
  BY <1>1, <1>6 DEF InsertRaw, TrackLeg, ReadSession, store
<1>7. CASE Command
  BY <1>1, <1>7, CommandFacts DEF store
<1> QED
  BY <1>0, <1>2, <1>3, <1>4, <1>5, <1>6, <1>7 DEF Next, Replaying, Handle, Step

LEMMA SessionInit == Init => SessionInv
<1> SUFFICES ASSUME Init PROVE SessionInv
  OBVIOUS
<1>1. Absent \in Rows /\ Absent.status = "NONE"
  BY DEF Absent, Rows
<1>2a. NothingSeen \in [row : Rows, time : Nat]
  BY <1>1 DEF NothingSeen
<1>2b. seen \in [Procs -> [row : Rows, time : Nat]] /\ pc \in [Procs -> PCs]
  BY <1>2a DEF Init, PCs
<1>2c. /\ log = <<>> /\ log \in Seq(Events) /\ outbox = <<>> /\ outbox \in Seq(OutboxRows)
       /\ Len(log) = 0 /\ pc[Replayer] = "new" /\ rend = 0
  BY DEF Init, Procs
<1>2d. evtime \in [Events -> Nat] /\ legs \in [Channels -> {"none", "open", "ended"}] /\ session \in Rows
  BY <1>1 DEF Init
<1>2e. /\ now \in Nat /\ rpos \in Nat /\ rend \in Nat /\ passes \in Nat /\ sweeper \in {"idle", "found"}
       /\ change \in Changes \cup {NoChange} /\ commands \in Nat
  BY DEF Init
<1>2f. candidate \in BOOLEAN /\ reopened \in BOOLEAN
  BY DEF Init
<1>2g. ReplayInLog
  BY <1>2c DEF ReplayInLog
<1>2. TypeInv
  BY <1>2b, <1>2c, <1>2d, <1>2e, <1>2f, <1>2g DEF TypeInv, TypeOK
<1>3. SeenExists
  BY <1>1 DEF Init, SeenExists, NothingSeen
<1>4. OutboxInv
  BY <1>1 DEF Init, OutboxInv, CreatedFirst
<1> QED BY <1>2, <1>3, <1>4 DEF SessionInv

LEMMA SessionInvariant == Spec => []SessionInv
<1>1. SessionInv /\ [Next]_vars => SessionInv'
  BY TypeStep, SeenStep, OutboxStep DEF SessionInv
<1> QED BY <1>1, SessionInit, PTL DEF Spec

(* The types of the module's variables. *)
THEOREM SessionTypes == Spec => []TypeOK
<1>1. SessionInv => TypeOK
  BY DEF SessionInv, TypeInv
<1> QED BY <1>1, SessionInvariant, PTL

(* call.created is the first outbox row of a call, and the only one of its type. *)
THEOREM CreatedSafe == Spec => []CreatedFirst
<1>1. SessionInv => CreatedFirst
  BY DEF SessionInv, OutboxInv
<1> QED BY <1>1, SessionInvariant, PTL
----------------------------------------------------------------------------
(* Deliveries of the same event *)

(* What got past the insert was received, and is in rawAmiEvents with the second of its receipt. *)
RawInv ==
    /\ \A e \in Events : Past(e) => Fingerprint(e) \in raw
    /\ OncePerFingerprint

LEMMA RawInvariant == Spec => []RawInv
<1> USE DEF Past
<1>1. Init => RawInv
  BY DEF Init, RawInv, OncePerFingerprint, Procs
<1>2. ASSUME TypeInv, RawInv, [Next]_vars PROVE RawInv'
  <2>0. Replayer \notin Events /\ Events \subseteq Procs /\ Replayer \in Procs
    BY CallSessionAssumption DEF Procs
  <2>1. ASSUME raw \subseteq raw', \A e \in Events : Past(e)' => Past(e) /\ evtime'[e] = evtime[e]
        PROVE  RawInv'
    BY <1>2, <2>1 DEF RawInv, OncePerFingerprint, Fingerprint
  <2>t. pc \in [Procs -> PCs] /\ evtime \in [Events -> Nat]
    BY <1>2 DEF TypeInv, TypeOK
  <2>2. ASSUME NEW p \in Procs, InsertRaw(p) PROVE RawInv'
    <3>0. evtime' = evtime /\ raw \subseteq raw'
      BY <2>2 DEF InsertRaw
    <3>1. CASE \A e \in Events : Past(e)' => Past(e)
      BY <2>1, <3>0, <3>1
    <3>2. CASE \E e \in Events : Past(e)' /\ ~Past(e)
      <4>1. PICK e \in Events : Past(e)' /\ ~Past(e)
        BY <3>2
      <4>2. p = e
        BY <2>2, <2>0, <2>t, <4>1 DEF InsertRaw
      <4>3. /\ Fingerprint(e) \notin raw /\ raw' = raw \cup {Fingerprint(e)}
            /\ pc' = [pc EXCEPT ![e] = "track"]
        BY <2>2, <2>0, <2>t, <4>1, <4>2 DEF InsertRaw, EventAt
      <4>4. \A f \in Events : f # e => pc'[f] = pc[f]
        BY <2>0, <2>t, <4>3
      <4>5. \A f \in Events : f # e /\ Past(f)' => Fingerprint(f) # Fingerprint(e)
        BY <1>2, <4>3, <4>4 DEF RawInv
      <4>6. \A f \in Events : Past(f)' => Fingerprint(f)' \in raw'
        <5>1. \A f \in Events : Fingerprint(f)' = Fingerprint(f)
          BY <3>0 DEF Fingerprint
        <5> QED BY <1>2, <4>3, <4>4, <5>1 DEF RawInv
      <4>7. OncePerFingerprint'
        BY <1>2, <3>0, <4>4, <4>5 DEF RawInv, OncePerFingerprint, Fingerprint
      <4> QED BY <4>6, <4>7 DEF RawInv
    <3> QED BY <3>1, <3>2
  <2>3. ASSUME NEW p \in Procs, TrackLeg(p) \/ ReadSession(p) PROVE RawInv'
    <3>1. raw' = raw /\ evtime' = evtime
      BY <2>3 DEF TrackLeg, ReadSession, store
    <3>2. \A e \in Events : Past(e)' => Past(e)
      BY <2>3, <2>0, <2>t DEF TrackLeg, ReadSession
    <3> QED BY <2>1, <3>1, <3>2
  <2>4. ASSUME NEW p \in Procs, WriteSession(p) PROVE RawInv'
    <3>1. raw' = raw /\ evtime' = evtime /\ pc[p] = "write"
      BY <2>4 DEF WriteSession
    <3>2. \A q \in Procs : q # p => pc'[q] = pc[q]
      BY <2>4, <2>t DEF WriteSession, EnsureSessionStarted, UpsertSession, MarkHold, ResumeHold,
            FinalizeHangup, Rollback, CreateSession, Commit, LeaveAsIs
    <3>3. \A e \in Events : Past(e)' => Past(e)
      BY <3>1, <3>2, <2>0
    <3> QED BY <2>1, <3>1, <3>3
  <2>5. ASSUME NEW e \in Events, Receive(e) PROVE RawInv'
    <3>1. /\ raw' = raw /\ evtime' = [evtime EXCEPT ![e] = now] /\ pc' = [pc EXCEPT ![e] = "dedupe"]
      BY <2>5 DEF Receive, store
    <3>2. \A f \in Events : Past(f)' => Past(f) /\ evtime'[f] = evtime[f]
      BY <2>0, <2>t, <3>1
    <3> QED BY <2>1, <3>1, <3>2
  <2>6. ASSUME NEW e \in Events, Dedupe(e) \/ ReleaseDedupeKey(e) PROVE RawInv'
    <3>1. raw' = raw /\ evtime' = evtime
      BY <2>6 DEF Dedupe, ReleaseDedupeKey
    <3>2. \A f \in Events : Past(f)' => Past(f)
      BY <2>6, <2>0, <2>t DEF Dedupe, ReleaseDedupeKey
    <3> QED BY <2>1, <3>1, <3>2
  <2>7. CASE StartReplay \/ NextRecord
    <3>1. raw' = raw /\ evtime' = evtime
      BY <2>7 DEF StartReplay, NextRecord, store
    <3>2. \A f \in Events : Past(f)' => Past(f)
      BY <2>7, <2>0, <2>t DEF StartReplay, NextRecord
    <3> QED BY <2>1, <3>1, <3>2
  <2>8. CASE Tick \/ SweepFind \/ SweepClose \/ Command \/ WriteChange \/ UNCHANGED vars
    <3>1. UNCHANGED <<raw, pc, evtime>>
      BY <1>2, <2>8, CommandFacts, ChangeFacts DEF Tick, SweepFind, SweepClose, vars, store, handlers
    <3> QED BY <2>1, <3>1
  <2> QED
    BY <1>2, <2>0, <2>2, <2>3, <2>4, <2>5, <2>6, <2>7, <2>8 DEF Next, Replaying, Handle, Step
<1>3. SessionInv => TypeInv
  BY DEF SessionInv
<1> QED BY <1>1, <1>2, <1>3, SessionInvariant, PTL DEF Spec

(***************************************************************************)
(* Of the deliveries of one event within one second at most one reaches    *)
(* the state transition, for any overlap and any failures of Redis and the *)
(* database: the unique index on the fingerprint of the raw events is the  *)
(* last defence.  Deliveries in different seconds are outside of it: both  *)
(* are applied (RedeliveryCaught does not hold).                           *)
(***************************************************************************)
THEOREM OnceSafe == Spec => []OncePerFingerprint
<1>1. RawInv => OncePerFingerprint
  BY DEF RawInv
<1> QED BY <1>1, RawInvariant, PTL
----------------------------------------------------------------------------
(* Handlers that do not overlap *)

(* One process at a time works on the call, and what it has read is still true. *)
AloneInv ==
    /\ \A p, q \in Procs : Resting(p) \/ Resting(q) \/ p = q
    /\ sweeper = "found" \/ change # NoChange => \A p \in Procs : Resting(p)
    /\ \A p \in Procs : pc[p] = "write" => seen[p].row = session

(* A transaction that has read an ended session does not reopen it, and announces at most an update. *)
LEMMA WriteKeepsEnded ==
    ASSUME TypeInv, NEW p \in Procs, WriteSession(p), seen[p].row.status = "ENDED", session.status = "ENDED"
    PROVE  /\ session'.status = "ENDED"
           /\ outbox' \in {outbox, Append(outbox, [type |-> "updated", status |-> "ENDED"])}
<1>1. session \in Rows
  BY DEF TypeInv, TypeOK
<1>3. CASE EnsureSessionStarted(p)
  BY <1>3 DEF EnsureSessionStarted, LeaveAsIs, Commit
<1>4. CASE UpsertSession(p)
  <2>1. PICK patch \in Patches(p, session.answeredAt, session.hold) :
          Commit(p, "updated",
            [session EXCEPT !.status = IF Precedence[Target[Kind[EventAt(p)]]] > Precedence["ENDED"]
                                       THEN Target[Kind[EventAt(p)]] ELSE @,
                            !.answeredAt = patch.answeredAt, !.hold = patch.hold])
    BY <1>4 DEF UpsertSession
  <2>2. ~(Precedence[Target[Kind[EventAt(p)]]] > Precedence["ENDED"])
    BY <1>4, TargetFacts DEF UpsertSession
  <2>3. Commit(p, "updated",
          [session EXCEPT !.status = session.status, !.answeredAt = patch.answeredAt, !.hold = patch.hold])
    BY <2>1, <2>2
  <2>4. [session EXCEPT !.status = session.status, !.answeredAt = patch.answeredAt, !.hold = patch.hold].status
          = "ENDED"
    BY <1>1 DEF Rows
  <2> QED BY <2>3, <2>4 DEF Commit
<1>5. CASE MarkHold(p) \/ ResumeHold(p) \/ FinalizeHangup(p)
  BY <1>5 DEF MarkHold, ResumeHold, FinalizeHangup, LeaveAsIs
<1>6. CASE Rollback(p)
  BY <1>6 DEF Rollback
<1> QED BY <1>3, <1>4, <1>5, <1>6 DEF WriteSession

LEMMA AloneStep ==
    ASSUME TypeInv, AloneInv, ~Overlap, [Next]_vars
    PROVE  AloneInv'
<1>0. Replayer \in Procs /\ Events \subseteq Procs
  BY DEF Procs
<1>t. pc \in [Procs -> PCs] /\ seen \in [Procs -> [row : Rows, time : Nat]]
  BY DEF TypeInv, TypeOK
<1> USE DEF Resting, control
<1>1. ASSUME NEW p \in Procs, MayStart, \A q \in Procs : q # p => pc'[q] = pc[q],
             pc'[p] # "write", UNCHANGED <<session, seen, sweeper, change>>
      PROVE  AloneInv'
  BY <1>1 DEF AloneInv, MayStart
<1>2. ASSUME NEW p \in Procs, ~Resting(p), \A q \in Procs : q # p => pc'[q] = pc[q],
             UNCHANGED <<sweeper, change>>, pc'[p] = "write" => seen'[p].row = session'
      PROVE  AloneInv'
  BY <1>2 DEF AloneInv
<1>3. ASSUME NEW e \in Events, Receive(e) PROVE AloneInv'
  BY <1>0, <1>t, <1>1, <1>3 DEF Receive, store
<1>4. ASSUME NEW e \in Events, Dedupe(e) \/ ReleaseDedupeKey(e) PROVE AloneInv'
  BY <1>0, <1>t, <1>2, <1>4 DEF Dedupe, ReleaseDedupeKey
<1>5. ASSUME NEW p \in Procs, InsertRaw(p) PROVE AloneInv'
  BY <1>t, <1>2, <1>5 DEF InsertRaw
<1>6. ASSUME NEW p \in Procs, TrackLeg(p) PROVE AloneInv'
  BY <1>t, <1>2, <1>6 DEF TrackLeg
<1>7. ASSUME NEW p \in Procs, ReadSession(p) PROVE AloneInv'
  <2>1. ~Resting(p) /\ UNCHANGED <<session, sweeper, change>>
    BY <1>7 DEF ReadSession, store
  <2>2. \A q \in Procs : q # p => pc'[q] = pc[q]
    BY <1>7, <1>t DEF ReadSession
  <2>3. pc'[p] = "write" => seen'[p].row = session
    BY <1>7, <1>t DEF ReadSession
  <2> QED BY <1>2, <2>1, <2>2, <2>3
<1>8. ASSUME NEW p \in Procs, WriteSession(p) PROVE AloneInv'
  <2>1. ~Resting(p) /\ UNCHANGED <<sweeper, change>>
    BY <1>8 DEF WriteSession
  <2>2. pc'[p] # "write" /\ \A q \in Procs : q # p => pc'[q] = pc[q]
    BY <1>8, <1>t DEF WriteSession, EnsureSessionStarted, UpsertSession, MarkHold, ResumeHold,
          FinalizeHangup, Rollback, CreateSession, Commit, LeaveAsIs
  <2> QED BY <1>2, <2>1, <2>2
<1>9. CASE StartReplay
  BY <1>0, <1>t, <1>1, <1>9 DEF StartReplay, store
<1>10. CASE NextRecord
  <2>1. CASE MayStart
    BY <1>0, <1>t, <1>1, <1>10, <2>1 DEF NextRecord, store
  <2>2. CASE pc'[Replayer] = "new"
    <3>1. UNCHANGED <<session, seen, sweeper, change>>
      BY <1>10 DEF NextRecord, store
    <3>2. \A q \in Procs : q # Replayer => pc'[q] = pc[q]
      BY <1>10, <1>t, <1>0 DEF NextRecord
    <3>3. Resting(Replayer) /\ Resting(Replayer)'
      BY <1>10, <2>2 DEF NextRecord
    <3> QED BY <2>2, <3>1, <3>2, <3>3 DEF AloneInv
  <2> QED BY <1>10, <1>t, <1>0, <2>1, <2>2 DEF NextRecord
<1>11. CASE SweepFind
  BY <1>11 DEF SweepFind, MayStart, AloneInv, store, handlers
<1>12. CASE SweepClose
  BY <1>12 DEF SweepClose, AloneInv, handlers
<1>13. CASE Tick \/ UNCHANGED vars
  <2>1. UNCHANGED <<pc, seen, session, sweeper, change>>
    BY <1>13 DEF Tick, vars, store, handlers
  <2> QED BY <2>1 DEF AloneInv
<1>14. CASE Command
  <2>1. MayStart /\ UNCHANGED <<pc, seen, session, sweeper>>
    BY <1>14, CommandFacts DEF store, handlers
  <2> QED BY <2>1 DEF AloneInv, MayStart
<1>15. CASE WriteChange
  <2>1. change # NoChange /\ UNCHANGED <<pc, seen, sweeper>>
    BY <1>15, ChangeFacts
  <2> QED BY <2>1 DEF AloneInv
<1> QED
  BY <1>0, <1>3, <1>4, <1>5, <1>6, <1>7, <1>8, <1>9, <1>10, <1>11, <1>12, <1>13, <1>14, <1>15
  DEF Next, Replaying, Handle, Step

LEMMA AloneInvariant ==
    ASSUME ~Overlap
    PROVE  Spec => []AloneInv
<1>1. Init => AloneInv
  BY DEF Init, AloneInv, Resting
<1>2. SessionInv /\ AloneInv /\ [Next]_vars => AloneInv'
  BY AloneStep DEF SessionInv
<1> QED BY <1>1, <1>2, SessionInvariant, PTL DEF Spec

(***************************************************************************)
(* Whatever overlaps, fails, is lost or is replayed, an ended session is   *)
(* opened again only by the write of a command or an expired transfer      *)
(* (change' # change) or by a transaction that read the session before it  *)
(* ended and writes it after: the guard of SESSION_PRECEDENCE compares     *)
(* with the row read.  With Overlap that does happen.                      *)
(***************************************************************************)
THEOREM OnlyStaleReadsReopen ==
    Spec => [][session.status = "ENDED" /\ change' = change /\ session'.status # "ENDED"
                 => \E p \in Procs : pc[p] = "write" /\ seen[p].row.status # "ENDED"]_vars
<1>1. ASSUME SessionInv, [Next]_vars
      PROVE  [session.status = "ENDED" /\ change' = change /\ session'.status # "ENDED"
                => \E p \in Procs : pc[p] = "write" /\ seen[p].row.status # "ENDED"]_vars
  <2>0. Replayer \in Procs /\ Events \subseteq Procs
    BY DEF Procs
  <2> SUFFICES ASSUME session.status = "ENDED", change' = change, Next, session'.status # "ENDED"
               PROVE  \E p \in Procs : pc[p] = "write" /\ seen[p].row.status # "ENDED"
    BY <1>1
  <2>1. ASSUME NEW p \in Procs, WriteSession(p)
        PROVE  pc[p] = "write" /\ seen[p].row.status # "ENDED"
    BY <1>1, <2>1, WriteKeepsEnded DEF SessionInv, WriteSession
  <2>2. CASE SweepClose
    BY <1>1, <2>2 DEF SweepClose, SessionInv, TypeInv, TypeOK, Rows
  <2>3. CASE Tick \/ StartReplay \/ NextRecord \/ SweepFind
    BY <2>3 DEF Tick, StartReplay, NextRecord, SweepFind, store
  <2>4. ASSUME NEW e \in Events, Receive(e) \/ Dedupe(e) \/ ReleaseDedupeKey(e) PROVE FALSE
    BY <2>4 DEF Receive, Dedupe, ReleaseDedupeKey, store
  <2>5. ASSUME NEW p \in Procs, InsertRaw(p) \/ TrackLeg(p) \/ ReadSession(p) PROVE FALSE
    BY <2>5 DEF InsertRaw, TrackLeg, ReadSession, store
  <2>6. ASSUME Command PROVE FALSE
    BY <2>6, CommandFacts DEF store
  <2>7. ASSUME WriteChange PROVE FALSE
    BY <2>7 DEF WriteChange
  <2> QED BY <2>0, <2>1, <2>2, <2>3, <2>4, <2>5, <2>6, <2>7 DEF Next, Replaying, Handle, Step
<1> QED BY <1>1, SessionInvariant, PTL DEF Spec

(***************************************************************************)
(* So when handlers, replay, sweep and commands do not overlap, no event,  *)
(* replay or sweep opens an ended session again, for any order of events,  *)
(* any failures and any number of replays.                                 *)
(***************************************************************************)
THEOREM EndedSafe ==
    ASSUME ~Overlap
    PROVE  Spec => EndedIsFinal
<1>1. ASSUME AloneInv,
             [session.status = "ENDED" /\ change' = change /\ session'.status # "ENDED"
                => \E p \in Procs : pc[p] = "write" /\ seen[p].row.status # "ENDED"]_vars
      PROVE  [session.status = "ENDED" /\ change' = change => session'.status = "ENDED"]_vars
  BY <1>1 DEF AloneInv
<1> QED BY <1>1, AloneInvariant, OnlyStaleReadsReopen, PTL DEF EndedIsFinal
----------------------------------------------------------------------------
(* The announcement of the end *)

(* An end that was announced is the session's, unless a command has taken it back. *)
EndInv ==
    /\ ~reopened => \A i \in DOMAIN outbox : outbox[i].status = "ENDED" => session.status = "ENDED"
    /\ AnnouncedEndStands

LEMMA EndStep ==
    ASSUME SessionInv, AloneInv, EndInv, [Next]_vars
    PROVE  EndInv'
<1>0. Replayer \in Procs /\ Events \subseteq Procs
  BY DEF Procs
<1>t. session \in Rows /\ outbox \in Seq(OutboxRows) /\ Len(outbox) \in Nat /\ DOMAIN outbox = 1 .. Len(outbox)
  BY DEF SessionInv, TypeInv, TypeOK
<1> USE DEF control
<1>1. ASSUME UNCHANGED <<session, outbox, reopened>> PROVE EndInv'
  BY <1>1 DEF EndInv, AnnouncedEndStands
<1>2. ASSUME NEW p \in Procs, WriteSession(p) PROVE EndInv'
  <2>1. reopened' = reopened /\ seen[p].row = session
    BY <1>2 DEF WriteSession, AloneInv
  <2>2. ASSUME NEW row, outbox' = Append(outbox, row), row.status = session'.status,
               session.status = "ENDED" => session'.status = "ENDED" /\ row = [type |-> "updated", status |-> "ENDED"]
        PROVE  EndInv'
    <3>1. /\ DOMAIN outbox' = 1 .. Len(outbox) + 1 /\ outbox'[Len(outbox) + 1] = row
          /\ \A i \in 1 .. Len(outbox) : outbox'[i] = outbox[i]
      BY <1>t, <2>2
    <3>2. ASSUME ~reopened', NEW i \in DOMAIN outbox', outbox'[i].status = "ENDED"
          PROVE  session'.status = "ENDED"
      <4>1. CASE i \in 1 .. Len(outbox)
        BY <1>t, <2>1, <2>2, <3>1, <3>2, <4>1 DEF EndInv
      <4>2. CASE i = Len(outbox) + 1
        BY <2>2, <3>1, <3>2, <4>2
      <4> QED BY <1>t, <3>1, <4>1, <4>2
    <3>3. ASSUME ~reopened', NEW i \in DOMAIN outbox', NEW j \in DOMAIN outbox', i < j, outbox'[i].status = "ENDED"
          PROVE  outbox'[j] = [type |-> "updated", status |-> "ENDED"]
      <4>1. i \in 1 .. Len(outbox)
        BY <1>t, <3>1, <3>3
      <4>2. CASE j \in 1 .. Len(outbox)
        BY <1>t, <2>1, <3>1, <3>3, <4>1, <4>2 DEF EndInv, AnnouncedEndStands
      <4>3. CASE j = Len(outbox) + 1
        <5>1. session.status = "ENDED"
          BY <1>t, <2>1, <3>1, <3>3, <4>1 DEF EndInv
        <5> QED BY <2>2, <3>1, <4>3, <5>1
      <4> QED BY <1>t, <3>1, <4>2, <4>3
    <3> QED BY <3>2, <3>3 DEF EndInv, AnnouncedEndStands
  <2>3. CASE session.status = "ENDED"
    <3>1. /\ session'.status = "ENDED"
          /\ outbox' \in {outbox, Append(outbox, [type |-> "updated", status |-> "ENDED"])}
      BY <1>2, <2>1, <2>3, WriteKeepsEnded DEF SessionInv
    <3>2. CASE outbox' = outbox
      BY <2>1, <2>3, <3>1, <3>2 DEF EndInv, AnnouncedEndStands
    <3>3. CASE outbox' = Append(outbox, [type |-> "updated", status |-> "ENDED"])
      BY <2>2, <3>1, <3>3
    <3> QED BY <3>1, <3>2, <3>3
  <2>4. CASE session.status # "ENDED"
    <3>1. Committed(p)
      BY <1>2, WriteFacts DEF SessionInv
    <3>2. CASE UNCHANGED <<session, outbox>>
      BY <1>1, <2>1, <3>2
    <3>3. ASSUME NEW type \in OutboxTypes, NEW row \in Rows, session' = row,
                 outbox' = Append(outbox, [type |-> type, status |-> row.status])
          PROVE  EndInv'
      BY <2>2, <2>4, <3>3
    <3> QED BY <3>1, <3>2, <3>3 DEF Committed
  <2> QED BY <2>3, <2>4
<1>3. CASE SweepClose
  <2>1. session'.status = "ENDED" /\ UNCHANGED <<outbox, reopened>>
    BY <1>3, <1>t DEF SweepClose, Rows
  <2> QED BY <2>1 DEF EndInv, AnnouncedEndStands
<1>4. CASE WriteChange
  <2>1. outbox' = outbox /\ (UNCHANGED <<session, reopened>> \/ reopened' = (reopened \/ session.status = "ENDED"))
    BY <1>4, ChangeFacts DEF SessionInv
  <2>2. CASE UNCHANGED <<session, reopened>>
    BY <1>1, <2>1, <2>2
  <2>3. CASE reopened' = (reopened \/ session.status = "ENDED")
    BY <2>1, <2>3 DEF EndInv, AnnouncedEndStands
  <2> QED BY <2>1, <2>2, <2>3
<1>5. CASE Command
  BY <1>1, <1>5, CommandFacts DEF store
<1>6. CASE Tick \/ StartReplay \/ NextRecord \/ SweepFind \/ UNCHANGED vars
  BY <1>1, <1>6 DEF Tick, StartReplay, NextRecord, SweepFind, vars, store
<1>7. ASSUME NEW e \in Events, Receive(e) \/ Dedupe(e) \/ ReleaseDedupeKey(e) PROVE EndInv'
  BY <1>1, <1>7 DEF Receive, Dedupe, ReleaseDedupeKey, store
<1>8. ASSUME NEW p \in Procs, InsertRaw(p) \/ TrackLeg(p) \/ ReadSession(p) PROVE EndInv'
  BY <1>1, <1>8 DEF InsertRaw, TrackLeg, ReadSession, store
<1> QED
  BY <1>0, <1>2, <1>3, <1>4, <1>5, <1>6, <1>7, <1>8 DEF Next, Replaying, Handle, Step

(***************************************************************************)
(* While the writers of a call take turns, an announced end stands: one    *)
(* call.ended, and after it nothing that shows the call alive, for any     *)
(* order, repetition and replay of events and any failures, until a        *)
(* command or an expired transfer writes over ENDED.                       *)
(***************************************************************************)
THEOREM EndAnnounced ==
    ASSUME ~Overlap
    PROVE  Spec => []AnnouncedEndStands
<1>1. Init => EndInv
  BY DEF Init, EndInv, AnnouncedEndStands
<1>2. SessionInv /\ AloneInv /\ EndInv /\ [Next]_vars => EndInv'
  BY EndStep
<1>3. EndInv => AnnouncedEndStands
  BY DEF EndInv
<1> QED BY <1>1, <1>2, <1>3, SessionInvariant, AloneInvariant, PTL DEF Spec
----------------------------------------------------------------------------
(***************************************************************************)
(* Without failures there is nothing to replay: while handlers do not      *)
(* overlap only the database can make one fail.                            *)
(***************************************************************************)
NeverReplayed ==
    /\ pc[Replayer] = "new"
    /\ "db" \notin Faults => \A e \in Events : pc[e] \notin {"release", "failed"}

(* A write by a process that has read the session as it is fails only with the database. *)
LEMMA WriteSucceeds ==
    ASSUME TypeInv, NEW p \in Procs, WriteSession(p), seen[p].row = session
    PROVE  /\ \A q \in Procs : q # p => pc'[q] = pc[q]
           /\ pc'[p] \in {"done", "failed"}
           /\ "db" \notin Faults => pc'[p] = "done"
<1>1. pc \in [Procs -> PCs]
  BY DEF TypeInv, TypeOK
<1>2. ASSUME NEW type, NEW row, Commit(p, type, row)
      PROVE  pc' = [pc EXCEPT ![p] = "done"] \/ ("db" \in Faults /\ pc' = [pc EXCEPT ![p] = "failed"])
  BY <1>2 DEF Commit
<1>3. ASSUME NEW row, CreateSession(p, row), session.status = "NONE"
      PROVE  pc' = [pc EXCEPT ![p] = "done"] \/ ("db" \in Faults /\ pc' = [pc EXCEPT ![p] = "failed"])
  BY <1>2, <1>3 DEF CreateSession
<1>4. pc' = [pc EXCEPT ![p] = "done"] \/ ("db" \in Faults /\ pc' = [pc EXCEPT ![p] = "failed"])
  <2>1. CASE EnsureSessionStarted(p)
    BY <1>2, <1>3, <2>1 DEF EnsureSessionStarted, LeaveAsIs
  <2>2. CASE UpsertSession(p)
    BY <1>2, <1>3, <2>2 DEF UpsertSession
  <2>3. CASE MarkHold(p) \/ ResumeHold(p) \/ FinalizeHangup(p)
    BY <1>2, <2>3 DEF MarkHold, ResumeHold, FinalizeHangup, LeaveAsIs
  <2>4. CASE Rollback(p)
    BY <2>4 DEF Rollback
  <2> QED BY <2>1, <2>2, <2>3, <2>4 DEF WriteSession
<1> QED BY <1>1, <1>4

LEMMA NeverReplayedStep ==
    ASSUME TypeInv, AloneInv, NeverReplayed, "db" \notin Faults \/ MaxReplays = 0, [Next]_vars
    PROVE  NeverReplayed'
<1>0. Replayer \notin Events /\ Events \subseteq Procs /\ Replayer \in Procs
  BY CallSessionAssumption DEF Procs
<1>t. pc \in [Procs -> PCs] /\ passes \in Nat
  BY DEF TypeInv, TypeOK
<1> USE DEF NeverReplayed
<1>1. ASSUME NEW e \in Events, Receive(e) \/ Dedupe(e) PROVE NeverReplayed'
  BY <1>0, <1>t, <1>1 DEF Receive, Dedupe
<1>2. ASSUME NEW e \in Events, ReleaseDedupeKey(e) PROVE NeverReplayed'
  BY <1>0, <1>t, <1>2 DEF ReleaseDedupeKey
<1>3. ASSUME NEW p \in Procs, InsertRaw(p) PROVE NeverReplayed'
  BY <1>0, <1>t, <1>3 DEF InsertRaw
<1>4. ASSUME NEW p \in Procs, TrackLeg(p) \/ ReadSession(p) PROVE NeverReplayed'
  BY <1>0, <1>t, <1>4 DEF TrackLeg, ReadSession
<1>5. ASSUME NEW p \in Procs, WriteSession(p) PROVE NeverReplayed'
  <2>1. seen[p].row = session /\ p # Replayer
    BY <1>5 DEF WriteSession, AloneInv
  <2> QED BY <1>0, <1>5, <2>1, WriteSucceeds
<1>6. ASSUME StartReplay \/ NextRecord PROVE FALSE
  BY <1>6, <1>t DEF StartReplay, NextRecord
<1>7. CASE Tick \/ SweepFind \/ SweepClose \/ Command \/ WriteChange \/ UNCHANGED vars
  <2>1. pc' = pc
    BY <1>7, CommandFacts, ChangeFacts DEF Tick, SweepFind, SweepClose, vars, handlers
  <2> QED BY <2>1
<1> QED
  BY <1>0, <1>1, <1>2, <1>3, <1>4, <1>5, <1>6, <1>7 DEF Next, Replaying, Handle, Step

(* Only the handlers of events take steps. *)
LEMMA OnlyHandlers ==
    ASSUME NeverReplayed, NEW p \in Procs, pc[p] # "new"
    PROVE  p \in Events /\ EventAt(p) = p
  BY CallSessionAssumption DEF NeverReplayed, Procs, EventAt

LEMMA NeverReplayedInvariant ==
    ASSUME ~Overlap, "db" \notin Faults \/ MaxReplays = 0
    PROVE  Spec => []NeverReplayed
<1>1. Init => NeverReplayed
  BY DEF Init, NeverReplayed, Procs
<1>2. SessionInv /\ AloneInv /\ NeverReplayed /\ [Next]_vars => NeverReplayed'
  BY NeverReplayedStep DEF SessionInv
<1> QED BY <1>1, <1>2, SessionInvariant, AloneInvariant, PTL DEF Spec
----------------------------------------------------------------------------
(* The seconds on hold *)

(* The seconds counted so far end before the running hold began, and before the event at work. *)
HoldInv ==
    /\ HoldWithinCall
    /\ session.status = "HOLD" => session.hold < session.updatedAt
    /\ \A e \in Events : evtime[e] <= now /\ seen[e].time <= now
    /\ \A e \in Events : ~Resting(e) => session.hold < evtime[e]

(* A hold that ends by instant b adds no more than lies between its beginning and b. *)
LEMMA ElapsedWithin ==
    ASSUME NEW h \in Nat, NEW a \in Nat, NEW b \in Nat, NEW n \in Nat, h < a, h < n, b <= n
    PROVE  h + Elapsed(a, b) < n
  BY DEF Elapsed

LEMMA WriteHold ==
    ASSUME TypeInv, HoldInv, NEW p \in Events, EventAt(p) = p, WriteSession(p), seen[p].row = session
    PROVE  /\ session'.hold < now
           /\ session'.status = "HOLD" => session'.hold < session'.updatedAt
<1>0. p \in Procs /\ pc[p] = "write"
  BY DEF Procs, WriteSession
<1>t. /\ session \in Rows /\ session.hold \in Nat /\ session.updatedAt \in Nat /\ session.answeredAt \in Nat
      /\ seen[p].time \in Nat /\ evtime[p] \in Nat /\ now \in Nat
  BY <1>0 DEF TypeInv, TypeOK, Rows
<1>h. /\ session.hold < now /\ (session.status = "HOLD" => session.hold < session.updatedAt)
      /\ session.hold < evtime[p] /\ evtime[p] <= now /\ seen[p].time <= now
  BY <1>0 DEF HoldInv, HoldWithinCall, Resting
<1>1. CASE EnsureSessionStarted(p)
  <2> DEFINE row == [Absent EXCEPT !.status = "NEW", !.updatedAt = seen[p].time]
  <2>1. row.hold = 0 /\ row.status = "NEW"
    BY DEF Absent
  <2>2. session' = session \/ session' = row
    BY <1>1 DEF EnsureSessionStarted, CreateSession, Commit, LeaveAsIs
  <2> HIDE DEF row
  <2> QED BY <1>h, <1>t, <2>1, <2>2
<1>2. CASE UpsertSession(p)
  <2> DEFINE target == Target[Kind[p]]
  <2>1. Kind[p] \in DOMAIN Target
    BY <1>2 DEF UpsertSession
  <2>2. PICK patch \in Patches(p, session.answeredAt, session.hold) :
          IF session.status = "NONE"
            THEN CreateSession(p, [status |-> target, answeredAt |-> patch.answeredAt,
                                   updatedAt |-> seen[p].time, hold |-> patch.hold])
            ELSE Commit(p, "updated",
                   [session EXCEPT !.status = IF Precedence[target] > Precedence[session.status]
                                              THEN target ELSE @,
                                   !.answeredAt = patch.answeredAt, !.hold = patch.hold])
    BY <1>2 DEF UpsertSession
  <2>3. patch.hold < now /\ (patch.hold = session.hold \/ Kind[p] = "AgentComplete")
    <3>1. CASE patch.hold = session.hold
      BY <1>h, <3>1
    <3>2. CASE /\ Kind[p] = "AgentComplete"
               /\ patch \in {r \in [answeredAt : 1 .. evtime[p], hold : 0 .. evtime[p]] : r.hold < r.answeredAt}
      BY <1>h, <1>t, <3>2
    <3> QED BY <3>1, <3>2 DEF Patches
  <2>4. target # "HOLD"
    BY <2>1 DEF Target
  <2>5. Kind[p] = "AgentComplete" => target = "AFTER_CALL_WORK"
    BY DEF Target
  <2>6. Precedence["AFTER_CALL_WORK"] > Precedence["HOLD"]
    BY DEF Precedence
  <2> HIDE DEF target
  <2>7. CASE session.status = "NONE"
    <3>1. session' = session \/ (session'.hold = patch.hold /\ session'.status = target)
      BY <2>2, <2>7 DEF CreateSession, Commit
    <3> QED BY <1>h, <2>3, <2>4, <3>1
  <2>8. CASE session.status # "NONE"
    <3>1. /\ session'.hold = patch.hold /\ session'.updatedAt = session.updatedAt
          /\ session'.status = IF Precedence[target] > Precedence[session.status] THEN target ELSE session.status
      BY <1>t, <2>2, <2>8 DEF Commit, Rows
    <3>2. ASSUME session'.status = "HOLD" PROVE session'.hold < session'.updatedAt
      <4>1. session.status = "HOLD" /\ ~(Precedence[target] > Precedence["HOLD"])
        BY <2>4, <3>1, <3>2
      <4>2. patch.hold = session.hold
        BY <2>3, <2>5, <2>6, <4>1
      <4> QED BY <1>h, <3>1, <4>1, <4>2
    <3> QED BY <2>3, <3>1, <3>2
  <2> QED BY <2>7, <2>8
<1>3. CASE MarkHold(p)
  <2>1. \/ session' = session
        \/ session'.hold = session.hold /\ session'.updatedAt = evtime[p]
    BY <1>3, <1>t DEF MarkHold, LeaveAsIs, Commit, Rows
  <2> QED BY <1>h, <2>1
<1>4. CASE ResumeHold(p)
  <2>1. \/ session' = session
        \/ /\ session.status = "HOLD" /\ session'.status = "TALKING"
           /\ session'.hold = session.hold + Elapsed(session.updatedAt, evtime[p])
    BY <1>4, <1>t DEF ResumeHold, LeaveAsIs, Commit, Rows
  <2> QED BY <1>h, <1>t, <2>1, ElapsedWithin
<1>5. CASE FinalizeHangup(p)
  <2>1. \/ session' = session
        \/ /\ session'.status = "ENDED"
           /\ session'.hold = session.hold + (IF session.status = "HOLD"
                                              THEN Elapsed(session.updatedAt, seen[p].time) ELSE 0)
    BY <1>5, <1>t DEF FinalizeHangup, LeaveAsIs, Commit, Rows
  <2> QED BY <1>h, <1>t, <2>1, ElapsedWithin
<1>6. CASE Rollback(p)
  BY <1>6, <1>h DEF Rollback
<1> QED BY <1>1, <1>2, <1>3, <1>4, <1>5, <1>6 DEF WriteSession

LEMMA HoldStep ==
    ASSUME TypeInv, TypeInv', AloneInv, NeverReplayed, HoldInv, ~Overlap, [Next]_vars
    PROVE  HoldInv'
<1>0. Replayer \notin Events /\ Events \subseteq Procs /\ Replayer \in Procs
  BY CallSessionAssumption DEF Procs
<1>t. /\ pc \in [Procs -> PCs] /\ seen \in [Procs -> [row : Rows, time : Nat]] /\ now \in Nat
      /\ evtime \in [Events -> Nat] /\ session \in Rows /\ session.hold \in Nat /\ session.updatedAt \in Nat
  BY DEF TypeInv, TypeOK, Rows
<1> USE DEF HoldWithinCall
<1>1. ASSUME UNCHANGED <<now, evtime, seen, session>>, \A e \in Events : ~Resting(e)' => ~Resting(e)
      PROVE  HoldInv'
  BY <1>1 DEF HoldInv
<1>2. CASE Tick
  <2>1. now' = now + 1 /\ UNCHANGED <<evtime, seen, session, pc>>
    BY <1>2 DEF Tick, store, handlers
  <2>2. \A e \in Events : evtime[e] \in Nat /\ seen[e].time \in Nat
    BY <1>0, <1>t
  <2> QED BY <1>t, <2>1, <2>2 DEF HoldInv, Resting
<1>3. ASSUME NEW e \in Events, Receive(e) PROVE HoldInv'
  <2>1. /\ evtime' = [evtime EXCEPT ![e] = now] /\ pc' = [pc EXCEPT ![e] = "dedupe"]
        /\ UNCHANGED <<now, session, seen>> /\ \A q \in Procs : Resting(q)
    BY <1>3 DEF Receive, store, MayStart
  <2>2. \A f \in Events : ~Resting(f)' => f = e
    BY <1>0, <1>t, <2>1 DEF Resting
  <2> QED BY <1>t, <2>1, <2>2 DEF HoldInv
<1>4. ASSUME NEW e \in Events, Dedupe(e) \/ ReleaseDedupeKey(e) PROVE HoldInv'
  <2>1. UNCHANGED <<now, evtime, seen, session>>
    BY <1>4 DEF Dedupe, ReleaseDedupeKey
  <2> QED BY <1>0, <1>1, <1>4, <1>t, <2>1 DEF Dedupe, ReleaseDedupeKey, Resting
<1>5. ASSUME NEW p \in Procs, InsertRaw(p) \/ TrackLeg(p) PROVE HoldInv'
  <2>1. UNCHANGED <<now, evtime, seen, session>>
    BY <1>5 DEF InsertRaw, TrackLeg
  <2>2. \A f \in Events : ~Resting(f)' => ~Resting(f)
    BY <1>0, <1>5, <1>t DEF InsertRaw, TrackLeg, Resting
  <2> QED BY <1>1, <2>1, <2>2
<1>6. ASSUME NEW p \in Procs, ReadSession(p) PROVE HoldInv'
  <2>1. UNCHANGED <<now, evtime, session>>
    BY <1>6 DEF ReadSession, store
  <2>2. \A f \in Events : ~Resting(f)' => ~Resting(f)
    BY <1>0, <1>6, <1>t DEF ReadSession, Resting
  <2>3. \A f \in Events : seen'[f].time = seen[f].time \/ seen'[f].time = now
    BY <1>0, <1>6, <1>t DEF ReadSession
  <2> QED BY <1>t, <2>1, <2>2, <2>3 DEF HoldInv
<1>7. ASSUME NEW p \in Procs, WriteSession(p) PROVE HoldInv'
  <2>1. p \in Events /\ EventAt(p) = p /\ seen[p].row = session /\ ~Resting(p)
    BY <1>7, OnlyHandlers DEF WriteSession, AloneInv, Resting
  <2>2. session'.hold < now /\ (session'.status = "HOLD" => session'.hold < session'.updatedAt)
    BY <1>7, <2>1, WriteHold
  <2>3. \A f \in Events : Resting(f)'
    <3>1. \A f \in Events : f # p => Resting(f)
      BY <1>0, <2>1 DEF AloneInv
    <3>2. pc'[p] \in {"done", "failed"} /\ \A q \in Procs : q # p => pc'[q] = pc[q]
      BY <1>7, <2>1, WriteSucceeds
    <3> QED BY <1>0, <3>1, <3>2 DEF Resting
  <2>4. UNCHANGED <<now, evtime>> /\ seen' = [seen EXCEPT ![p] = NothingSeen]
    BY <1>7 DEF WriteSession
  <2>5. \A f \in Events : seen'[f].time = seen[f].time \/ seen'[f].time = 0
    BY <1>0, <1>t, <2>4 DEF NothingSeen
  <2> QED BY <1>t, <2>2, <2>3, <2>4, <2>5 DEF HoldInv
<1>8. CASE StartReplay \/ NextRecord
  <2>1. UNCHANGED <<now, evtime, seen, session>>
    BY <1>8 DEF StartReplay, NextRecord, store
  <2>2. \A f \in Events : pc'[f] = pc[f]
    BY <1>0, <1>8, <1>t DEF StartReplay, NextRecord
  <2> QED BY <1>1, <2>1, <2>2 DEF Resting
<1>9. CASE SweepClose
  <2>1. session'.status = "ENDED" /\ session'.hold = session.hold
    BY <1>9, <1>t DEF SweepClose, Rows
  <2>2. UNCHANGED <<now, evtime, seen, pc>>
    BY <1>9 DEF SweepClose, handlers
  <2> QED BY <2>1, <2>2 DEF HoldInv, Resting
<1>10. CASE SweepFind \/ Command \/ UNCHANGED vars
  <2>1. UNCHANGED <<now, evtime, seen, session, pc>>
    BY <1>10, CommandFacts DEF SweepFind, vars, store, handlers
  <2> QED BY <1>1, <2>1 DEF Resting
<1>11. CASE WriteChange
  <2>1. /\ session'.hold = session.hold /\ UNCHANGED <<now, evtime, seen, pc>>
        /\ session' = session \/ session'.status # "HOLD"
    BY <1>11, ChangeFacts
  <2> QED BY <2>1 DEF HoldInv, Resting
<1> QED
  BY <1>0, <1>2, <1>3, <1>4, <1>5, <1>6, <1>7, <1>8, <1>9, <1>10, <1>11 DEF Next, Replaying, Handle, Step

(***************************************************************************)
(* While handlers do not overlap and nothing is replayed, the seconds on   *)
(* hold stay below the length of the call, for any order, loss and         *)
(* repetition of Hold, Unhold and AgentComplete.  It needs no replay: a    *)
(* replayed Unhold adds its seconds again.                                 *)
(***************************************************************************)
THEOREM HoldSafe ==
    ASSUME ~Overlap, "db" \notin Faults \/ MaxReplays = 0
    PROVE  Spec => []HoldWithinCall
<1>1. Init => HoldInv
  BY DEF Init, HoldInv, HoldWithinCall, Absent, Resting, Procs, NothingSeen
<1>2. SessionInv /\ SessionInv' /\ AloneInv /\ NeverReplayed /\ HoldInv /\ [Next]_vars => HoldInv'
  BY HoldStep DEF SessionInv
<1>3. HoldInv => HoldWithinCall
  BY DEF HoldInv
<1> QED BY <1>1, <1>2, <1>3, SessionInvariant, AloneInvariant, NeverReplayedInvariant, PTL DEF Spec
=============================================================================
