------------------------ MODULE EventPipelineProofs ------------------------
(***************************************************************************)
(* Safety of the event pipeline.                                           *)
(*   - Types and cursor: for every set of events and tenants, every number *)
(*     of overlapping handlers and every combination of faults.            *)
(*   - Nothing is lost, and ReliableDelivery is implemented: for every set *)
(*     of events and tenants, in the circumstances named Calm.             *)
(***************************************************************************)
EXTENDS EventPipeline, FiniteSetTheorems, TLAPS

(* A sweep that works on a tenant has one. *)
SweepHasTenant == spc \notin {"idle", "next"} => cur \in Tenants

TInv == TypeOK /\ SweepHasTenant

LEMMA TypeInit == Init => TInv
  BY PipelineAssumption
  DEF Init, TInv, TypeOK, SweepHasTenant, Modes, Sources, PCs, Leadership

(* What readPending returns are events. *)
LEMMA ReadPendingEvents ==
  ASSUME TypeOK, NEW t \in Tenants
  PROVE  ReadPending(t) \subseteq Events
<1>1. \A i \in UnreadRedis(t) : stream[t][i] \in Events
  BY DEF TypeOK, UnreadRedis
<1>2. \A i \in UnreadLocal(t) : file[t][i] \in Events
  BY DEF TypeOK, UnreadLocal
<1> QED
  BY <1>1, <1>2 DEF ReadPending, ScannedRedis

LEMMA ModesStay == TypeOK => FailureModes \subseteq Modes /\ RecoveredMode \in Modes /\ CompletedMode \in Modes
  BY DEF TypeOK, Modes, FailureModes, RecoveredMode, CompletedMode

LEMMA TypeStep == TInv /\ [Next]_vars => TInv'
<1> SUFFICES ASSUME TInv, [Next]_vars PROVE TInv'
  OBVIOUS
<1> USE PipelineAssumption, ModesStay DEF TInv, TypeOK, SweepHasTenant, Leadership
<1> USE DEF outside, durable, handler, sweeper
<1>1. CASE Outside
  <2>1. CASE DbDown       BY <2>1 DEF DbDown
  <2>2. CASE DbRestored   BY <2>2 DEF DbRestored
  <2>3. CASE RedisRefuses BY <2>3 DEF RedisRefuses
  <2>4. CASE RedisRestored BY <2>4 DEF RedisRestored
  <2>5. CASE LeaderTick   BY <2>5 DEF LeaderTick
  <2>6. CASE HealthProbe  BY <2>6 DEF HealthProbe
  <2> QED BY <1>1, <2>1, <2>2, <2>3, <2>4, <2>5, <2>6 DEF Outside
<1>2. CASE \E e \in Events : Receive(e)
  <2> PICK e \in Events : Receive(e)
    BY <1>2
  <2>1. pc' \in [Events -> PCs] /\ gate' \in [Events -> Leadership]
    BY DEF Receive, PCs
  <2> QED BY <2>1 DEF Receive
<1>3. CASE \E e \in Events : Handle(e)
  <2> PICK e \in Events : Handle(e)
    BY <1>3
  <2>0. TenantOf[e] \in Tenants /\ Len(stream[TenantOf[e]]) \in Nat /\ Len(file[TenantOf[e]]) \in Nat
    OBVIOUS
  <2>1. CASE AppendRedis(e)
    <3>1. at' \in [Events -> [source : Sources, pos : Nat]]
      BY <2>0, <2>1 DEF AppendRedis, Sources
    <3>2. stream' \in [Tenants -> Seq(Events)] /\ trimmed' \in [Tenants -> Nat]
      BY <2>0, <2>1 DEF AppendRedis
    <3>3. pc' \in [Events -> PCs]
      BY <2>1 DEF AppendRedis, AfterAppend, PCs
    <3> QED BY <2>1, <3>1, <3>2, <3>3 DEF AppendRedis
  <2>2. CASE AppendLocalWrite(e)
    <3>1. at' \in [Events -> [source : Sources, pos : Nat]]
      BY <2>2 DEF AppendLocalWrite, Sources
    <3>2. file' \in [Tenants -> Seq(Events)]
      BY <2>0, <2>2 DEF AppendLocalWrite
    <3>3. pc' \in [Events -> PCs]
      BY <2>2 DEF AppendLocalWrite, PCs
    <3> QED BY <2>2, <3>1, <3>2, <3>3 DEF AppendLocalWrite
  <2>3. CASE AppendLocalStat(e)
    <3>1. at' \in [Events -> [source : Sources, pos : Nat]]
      BY <2>0, <2>3 DEF AppendLocalStat, Sources
    <3>2. pc' \in [Events -> PCs]
      BY <2>3 DEF AppendLocalStat, AfterAppend, PCs
    <3> QED BY <2>3, <3>1, <3>2 DEF AppendLocalStat
  <2>4. CASE AppendNone(e)       BY <2>4 DEF AppendNone, AfterAppend, PCs
  <2>5. CASE ProcessOk(e)        BY <2>5 DEF ProcessOk, PCs
  <2>6. CASE ProcessFail(e)      BY <2>6 DEF ProcessFail, PCs
  <2>7. CASE CommitCursor(e)     BY <2>7 DEF CommitCursor, CommittedFileCursor, PCs
  <2> QED BY <2>1, <2>2, <2>3, <2>4, <2>5, <2>6, <2>7 DEF Handle
<1>4. CASE Sweep
  <2>1. CASE SweepStart          BY <2>1 DEF SweepStart
  <2>2. CASE SweepCheckDb        BY <2>2 DEF SweepCheckDb
  <2>3. CASE SweepRead           BY <2>3, ReadPendingEvents DEF SweepRead
  <2>4. CASE SweepFinish         BY <2>4 DEF SweepFinish
  <2>5. CASE SweepCompact        BY <2>5 DEF SweepCompact
  <2>6. CASE SweepTruncate       BY <2>6 DEF SweepTruncate
  <2>7. CASE SweepResetCursor    BY <2>7 DEF SweepResetCursor
  <2>12. CASE SweepCompactFails  BY <2>12 DEF SweepCompactFails
  <2>8. CASE SweepClear          BY <2>8 DEF SweepClear
  <2>9. CASE SweepEnd            BY <2>9 DEF SweepEnd
  <2>10. CASE \E t \in Tenants : SweepTenant(t)
    BY <2>10 DEF SweepTenant
  <2>11. CASE \E e \in Events : Replay(e)
    BY <2>11 DEF Replay
  <2> QED BY <1>4, <2>1, <2>2, <2>3, <2>4, <2>5, <2>6, <2>7, <2>8, <2>9, <2>10, <2>11, <2>12 DEF Sweep
<1>5. CASE Crash
  BY <1>5 DEF Crash, PCs, Modes
<1>6. CASE UNCHANGED vars
  BY <1>6 DEF vars
<1> QED
  BY <1>1, <1>2, <1>3, <1>4, <1>5, <1>6 DEF Next

(* The types of the module's variables, for all constants. *)
THEOREM TypeCorrect == Spec => []TypeOK
<1>1. Spec => []TInv
  BY TypeInit, TypeStep, PTL DEF Spec
<1> QED
  BY <1>1, PTL DEF TInv
----------------------------------------------------------------------------
(***************************************************************************)
(* The cursor.  A handler's stream id is the place of its own event, and a *)
(* handler that is about to move the cursor has applied its event.         *)
(***************************************************************************)
IdsAreOwn ==
    \A e \in Events : at[e].source = "REDIS" =>
        /\ at[e].pos \in 1 .. Len(stream[TenantOf[e]])
        /\ stream[TenantOf[e]][at[e].pos] = e

CommittersApplied == \A e \in Events : pc[e] = "committing" => e \in applied

CInv == TInv /\ IdsAreOwn /\ CommittersApplied /\ CursorOnApplied

LEMMA CursorInit == Init => CInv
  BY TypeInit, PipelineAssumption DEF Init, CInv, IdsAreOwn, CommittersApplied, CursorOnApplied

(* A step that leaves stream, cursor, at and the committing handlers alone, and *)
(* loses no applied event, keeps the invariant. *)
LEMMA CursorFrame ==
  ASSUME CInv, TInv', UNCHANGED <<stream, cursor, at>>, applied \subseteq applied',
         \A e \in Events : pc'[e] = "committing" => pc[e] = "committing"
  PROVE  CInv'
  BY DEF CInv, IdsAreOwn, CommittersApplied, CursorOnApplied

LEMMA CursorStep == CInv /\ [Next]_vars => CInv'
<1> SUFFICES ASSUME CInv, [Next]_vars PROVE CInv'
  OBVIOUS
<1>t. TInv'
  BY TypeStep DEF CInv
<1>l. \A u \in Tenants : Len(stream[u]) \in Nat /\ Len(stream'[u]) \in Nat
  <2>1. stream \in [Tenants -> Seq(Events)] /\ stream' \in [Tenants -> Seq(Events)]
    BY <1>t DEF CInv, TInv, TypeOK
  <2> QED BY <2>1
<1> USE PipelineAssumption DEF outside, durable, handler, sweeper
<1>1. CASE Outside
  BY <1>1, <1>t, CursorFrame
  DEF Outside, DbDown, DbRestored, RedisRefuses, RedisRestored, LeaderTick, HealthProbe
<1>2. CASE \E e \in Events : Receive(e)
  BY <1>2, <1>t, CursorFrame DEF Receive, CInv, TInv, TypeOK
<1>3. CASE \E e \in Events : Handle(e)
  <2> PICK e \in Events : Handle(e)
    BY <1>3
  <2> DEFINE t == TenantOf[e]
  <2>0. t \in Tenants /\ stream[t] \in Seq(Events) /\ Len(stream[t]) \in Nat
    BY DEF CInv, TInv, TypeOK
  <2>1. CASE AppendRedis(e)
    <3>1. \A u \in Tenants : /\ Len(stream'[u]) >= Len(stream[u])
                             /\ \A i \in 1 .. Len(stream[u]) : stream'[u][i] = stream[u][i]
      BY <2>0, <2>1 DEF AppendRedis, CInv, TInv, TypeOK
    <3>2. stream'[t][Len(stream[t]) + 1] = e /\ Len(stream'[t]) = Len(stream[t]) + 1
      BY <2>0, <2>1 DEF AppendRedis, CInv, TInv, TypeOK
    <3>3. /\ at'[e] = [source |-> "REDIS", pos |-> Len(stream[t]) + 1]
          /\ \A f \in Events : f # e => at'[f] = at[f]
      BY <2>1 DEF AppendRedis, CInv, TInv, TypeOK
    <3>4. IdsAreOwn'
      <4> SUFFICES ASSUME NEW f \in Events, at'[f].source = "REDIS"
                   PROVE  /\ at'[f].pos \in 1 .. Len(stream'[TenantOf[f]])
                          /\ stream'[TenantOf[f]][at'[f].pos] = f
        BY DEF IdsAreOwn
      <4>1. CASE f = e
        BY <4>1, <2>0, <3>2, <3>3
      <4>2. CASE f # e
        <5>1. /\ at[f].pos \in 1 .. Len(stream[TenantOf[f]])
              /\ stream[TenantOf[f]][at[f].pos] = f
              /\ at'[f] = at[f] /\ TenantOf[f] \in Tenants
          BY <4>2, <3>3 DEF CInv, IdsAreOwn
        <5> QED BY <5>1, <1>l, <3>1
      <4> QED BY <4>1, <4>2
    <3>5. CommittersApplied'
      BY <2>1 DEF AppendRedis, AfterAppend, CInv, CommittersApplied, TInv, TypeOK
    <3>6. CursorOnApplied'
      <4>1. UNCHANGED <<cursor, applied>>
        BY <2>1 DEF AppendRedis
      <4>2. ASSUME NEW u \in Tenants, cursor[u] # 0
            PROVE  cursor[u] <= Len(stream'[u]) /\ stream'[u][cursor[u]] \in applied
        <5>1. cursor[u] <= Len(stream[u]) /\ stream[u][cursor[u]] \in applied
          BY <4>2 DEF CInv, CursorOnApplied
        <5>2. cursor[u] \in Nat
          BY DEF CInv, TInv, TypeOK
        <5>3. cursor[u] \in 1 .. Len(stream[u])
          BY <4>2, <5>1, <5>2, <1>l
        <5>4. cursor[u] <= Len(stream'[u])
          BY <5>2, <5>1, <1>l, <3>1
        <5> QED BY <5>1, <5>3, <5>4, <3>1
      <4> QED BY <4>1, <4>2 DEF CursorOnApplied
    <3> QED BY <1>t, <3>4, <3>5, <3>6 DEF CInv
  <2>2. CASE AppendLocalWrite(e) \/ AppendLocalStat(e)
    <3>1. /\ at'[e].source = "LOCAL" /\ \A f \in Events : f # e => at'[f] = at[f]
          /\ \A f \in Events : pc'[f] = "committing" => pc[f] = "committing"
          /\ UNCHANGED <<stream, cursor, applied>>
      <4>0. at \in [Events -> [source : Sources, pos : Nat]] /\ pc \in [Events -> PCs]
        BY DEF CInv, TInv, TypeOK
      <4>1. CASE AppendLocalWrite(e)
        BY <4>0, <4>1 DEF AppendLocalWrite
      <4>2. CASE AppendLocalStat(e)
        BY <4>0, <4>2 DEF AppendLocalStat, AfterAppend, durable
      <4> QED BY <2>2, <4>1, <4>2
    <3> QED BY <1>t, <3>1 DEF CInv, IdsAreOwn, CommittersApplied, CursorOnApplied
  <2>3. CASE AppendNone(e)
    BY <2>3, <1>t, CursorFrame DEF AppendNone, AfterAppend, CInv, TInv, TypeOK
  <2>4. CASE ProcessOk(e)
    BY <2>4, <1>t DEF ProcessOk, CInv, IdsAreOwn, CommittersApplied, CursorOnApplied, TInv, TypeOK
  <2>5. CASE ProcessFail(e)
    BY <2>5, <1>t, CursorFrame DEF ProcessFail, CInv, TInv, TypeOK
  <2>6. CASE CommitCursor(e)
    <3>1. \A u \in Tenants : cursor'[u] = cursor[u] \/ (u = t /\ cursor'[u] = at[e].pos /\ at[e].source = "REDIS")
      BY <2>6 DEF CommitCursor, CInv, TInv, TypeOK
    <3>2. e \in applied
      BY <2>6 DEF CommitCursor, CInv, CommittersApplied
    <3>3. UNCHANGED <<stream, at, applied>>
      BY <2>6 DEF CommitCursor
    <3>4. CursorOnApplied'
      <4> SUFFICES ASSUME NEW u \in Tenants, cursor'[u] # 0
                   PROVE  cursor'[u] <= Len(stream[u]) /\ stream[u][cursor'[u]] \in applied
        BY <3>3 DEF CursorOnApplied
      <4>1. CASE cursor'[u] = cursor[u]
        BY <4>1 DEF CInv, CursorOnApplied
      <4>2. CASE u = t /\ cursor'[u] = at[e].pos /\ at[e].source = "REDIS"
        <5>1. at[e].pos \in 1 .. Len(stream[t]) /\ stream[t][at[e].pos] = e
          BY <4>2 DEF CInv, IdsAreOwn
        <5> QED BY <4>2, <5>1, <3>2, <2>0
      <4> QED BY <3>1, <4>1, <4>2
    <3>5. IdsAreOwn' /\ CommittersApplied'
      BY <2>6, <3>3 DEF CommitCursor, CInv, IdsAreOwn, CommittersApplied, TInv, TypeOK
    <3> QED BY <1>t, <3>4, <3>5 DEF CInv
  <2> QED BY <2>1, <2>2, <2>3, <2>4, <2>5, <2>6 DEF Handle
<1>4. CASE Sweep
  <2>1. UNCHANGED <<stream, cursor, at, pc>> /\ applied \subseteq applied'
    <3>1. CASE \E u \in Tenants : SweepTenant(u)
      BY <3>1 DEF SweepTenant
    <3>2. CASE \E e \in Events : Replay(e)
      BY <3>2 DEF Replay
    <3> QED
      BY <1>4, <3>1, <3>2
      DEF Sweep, SweepStart, SweepCheckDb, SweepRead, SweepFinish, SweepCompact,
          SweepTruncate, SweepResetCursor, SweepCompactFails, SweepClear, SweepEnd
  <2> QED BY <2>1, <1>t, CursorFrame
<1>5. CASE Crash
  BY <1>5, <1>t, CursorFrame DEF Crash, CInv, TInv, TypeOK
<1>6. CASE UNCHANGED vars
  BY <1>6, <1>t, CursorFrame DEF vars
<1> QED
  BY <1>1, <1>2, <1>3, <1>4, <1>5, <1>6 DEF Next

(***************************************************************************)
(* Whatever overlaps, fails or crashes, the Redis cursor stands on an      *)
(* applied event: markProcessed never marks an unprocessed one.            *)
(***************************************************************************)
THEOREM CursorSafe == Spec => []CursorOnApplied
<1>1. Spec => []CInv
  BY CursorInit, CursorStep, PTL DEF Spec
<1> QED
  BY <1>1, PTL DEF CInv

(* An event that nobody holds was trimmed from the stream, or a later one of its tenant was applied. *)
LostByOvertaking ==
    \A e \in Events : at[e].source = "REDIS" /\ e \notin applied \cup Held =>
        LET t == TenantOf[e]
        IN \/ at[e].pos <= trimmed[t]
           \/ \E i \in DOMAIN stream[t] : i > at[e].pos /\ stream[t][i] \in applied

(***************************************************************************)
(* Whatever overlaps, fails or crashes, an event of the Redis stream is    *)
(* lost in two ways only: MAXLEN trims it, or the success of a later event *)
(* moves the cursor past it.  No restart, election or sweep drops an event *)
(* by itself.                                                              *)
(***************************************************************************)
THEOREM OnlyOvertakenLost == Spec => []LostByOvertaking
<1>1. Spec => []CInv
  BY CursorInit, CursorStep, PTL DEF Spec
<1>2. CInv => LostByOvertaking
  <2> SUFFICES ASSUME CInv, NEW e \in Events, at[e].source = "REDIS", e \notin applied, e \notin Held,
                      ~(at[e].pos <= trimmed[TenantOf[e]])
               PROVE  \E i \in DOMAIN stream[TenantOf[e]] :
                          i > at[e].pos /\ stream[TenantOf[e]][i] \in applied
    BY DEF LostByOvertaking
  <2> DEFINE t == TenantOf[e]
  <2>1. /\ t \in Tenants /\ stream[t] \in Seq(Events) /\ cursor[t] \in Nat /\ trimmed[t] \in Nat
        /\ at[e].pos \in 1 .. Len(stream[t]) /\ stream[t][at[e].pos] = e
    BY PipelineAssumption DEF CInv, TInv, TypeOK, IdsAreOwn
  <2>2. at[e].pos \notin UnreadRedis(t)
    BY <2>1 DEF Held, Pending
  <2>3. at[e].pos <= cursor[t]
    BY <2>1, <2>2 DEF UnreadRedis
  <2>4. cursor[t] \in DOMAIN stream[t] /\ stream[t][cursor[t]] \in applied
    BY <2>1, <2>3 DEF CInv, CursorOnApplied
  <2> QED BY <2>1, <2>3, <2>4
<1> QED
  BY <1>1, <1>2, PTL
----------------------------------------------------------------------------
(***************************************************************************)
(* The frozen cursor of a single tenant.                                   *)
(***************************************************************************)
FInv == TInv /\ FrozenMeansRestricted

LEMMA FrozenStep ==
  ASSUME NEW t, Tenants = {t}
  PROVE  FInv /\ [Next]_vars => FInv'
<1> SUFFICES ASSUME FInv, [Next]_vars PROVE FInv'
  OBVIOUS
<1>t. TInv'
  BY TypeStep DEF FInv
<1> USE DEF FInv, FrozenMeansRestricted, outside, durable, handler, sweeper
<1>1. CASE Outside
  BY <1>1, <1>t
  DEF Outside, DbDown, DbRestored, RedisRefuses, RedisRestored, LeaderTick, HealthProbe,
      FailureModes, RecoveredMode
<1>2. CASE \E e \in Events : Receive(e)
  BY <1>2, <1>t DEF Receive
<1>3. CASE \E e \in Events : Handle(e)
  BY <1>3, <1>t
  DEF Handle, AppendRedis, AppendLocalWrite, AppendLocalStat, AppendNone, ProcessOk, ProcessFail,
      CommitCursor, FailureModes, RecoveredMode
<1>4. CASE Sweep
  <2>1. CASE SweepClear
    BY <2>1, <1>t DEF SweepClear, TInv, TypeOK, SweepHasTenant
  <2>2. CASE \E u \in Tenants : SweepTenant(u)
    BY <2>2, <1>t DEF SweepTenant
  <2>3. CASE \E e \in Events : Replay(e)
    BY <2>3, <1>t DEF Replay
  <2> QED
    BY <1>4, <1>t, <2>1, <2>2, <2>3
    DEF Sweep, SweepStart, SweepCheckDb, SweepRead, SweepFinish, SweepCompact,
        SweepTruncate, SweepResetCursor, SweepCompactFails, SweepEnd, CompletedMode
<1>5. CASE Crash
  BY <1>5, <1>t DEF Crash
<1>6. CASE UNCHANGED vars
  BY <1>6, <1>t DEF vars
<1> QED
  BY <1>1, <1>2, <1>3, <1>4, <1>5, <1>6 DEF Next

(***************************************************************************)
(* With one tenant the cursor is never left frozen in NORMAL mode, where   *)
(* no sweep would ever unfreeze it.                                        *)
(***************************************************************************)
THEOREM FrozenSafe ==
  ASSUME NEW t, Tenants = {t}
  PROVE  Spec => []FrozenMeansRestricted
<1>1. Init => FInv
  BY TypeInit DEF Init, FInv, FrozenMeansRestricted
<1>2. FInv /\ [Next]_vars => FInv'
  BY FrozenStep
<1> QED
  BY <1>1, <1>2, PTL DEF Spec, FInv
----------------------------------------------------------------------------
(***************************************************************************)
(* Nothing is lost.  The circumstances: handlers do not overlap, the node  *)
(* neither crashes nor loses an election nor Redis, and neither the stream *)
(* nor a read of it is ever full.                                          *)
(***************************************************************************)
Calm ==
    /\ MaxInFlight <= 1 /\ Faults \subseteq {"disk"}
    /\ IsFiniteSet(Events) /\ Cardinality(Events) <= ScanCap /\ Cardinality(Events) <= StreamMaxLen

(* The database does not fail again while a sweep has tenants to recover. *)
SweepInPeace == todo # {} \/ spc \notin {"idle", "next"} => db = "up"

(* This node leads, and everything goes to the Redis stream, which keeps it. *)
Undisturbed ==
    /\ redis = "ok" /\ leader = "leader" /\ failures = {}
    /\ \A t \in Tenants : trimmed[t] = 0 /\ file[t] = <<>>
    /\ \A e \in Events : /\ pc[e] \in {"new", "received", "processing", "committing", "done", "failed"}
                         /\ pc[e] # "new" => gate[e] = "leader"

OneHandler == \A e, f \in InFlight : e = f

(* The stream holds the events whose handlers have appended, each once, at its handler's id. *)
Placed ==
    /\ \A e \in Events : IF pc[e] \in {"new", "received"} THEN at[e].source = "NONE" /\ e \notin applied
                         ELSE at[e].source = "REDIS"
    /\ \A t \in Tenants : \A i \in DOMAIN stream[t] :
          at[stream[t][i]].source = "REDIS" /\ at[stream[t][i]].pos = i
    /\ \A e \in batch : at[e].source = "REDIS"

(* A failed event keeps its tenant frozen, so no handler moves the cursor past it. *)
Guarded ==
    /\ \A e \in Events : pc[e] \in {"committing", "done"} => e \in applied
    /\ \A e \in Events : pc[e] = "failed" /\ e \notin applied => TenantOf[e] \in blocked
    /\ \A e \in Events : pc[e] = "committing" => TenantOf[e] \notin blocked
    /\ \A e \in Events : at[e].source = "REDIS" /\ e \notin applied => cursor[TenantOf[e]] < at[e].pos

(* The sweep has the failed events of its tenant in its batch, and all applied when it unfreezes. *)
Recovered ==
    \A e \in Events : pc[e] = "failed" /\ TenantOf[e] = cur =>
        /\ spc = "replay" => e \in applied \cup batch
        /\ spc \in {"compact", "truncate", "reset", "clear"} => e \in applied

LInv == CInv /\ Undisturbed /\ OneHandler /\ Placed /\ Guarded /\ Recovered

(* A sequence without repetitions is not longer than its set has elements. *)
LEMMA DistinctLength ==
  ASSUME NEW S, IsFiniteSet(S), NEW s \in Seq(S), \A i, j \in 1 .. Len(s) : s[i] = s[j] => i = j
  PROVE  Len(s) <= Cardinality(S)
<1>1. Len(s) \in Nat /\ s \in [1 .. Len(s) -> S]
  OBVIOUS
<1>2. s \in Injection(1 .. Len(s), S)
  BY <1>1 DEF Injection, IsInjective
<1>3. Cardinality(1 .. Len(s)) <= Cardinality(S)
  BY <1>2, FS_Injection
<1>4. Cardinality(1 .. Len(s)) = Len(s)
  BY <1>1, FS_Interval
<1> QED BY <1>3, <1>4

(* Fewer than n of the places 1 .. n come before a given one. *)
LEMMA FewerBefore ==
  ASSUME NEW n \in Nat, NEW i \in 1 .. n, NEW U \in SUBSET (1 .. n)
  PROVE  Cardinality({j \in U : j < i}) < n
<1> DEFINE B == {j \in U : j < i}
<1>1. IsFiniteSet(1 .. (i - 1)) /\ Cardinality(1 .. (i - 1)) = i - 1
  BY FS_Interval
<1>2. B \in SUBSET (1 .. (i - 1))
  <2>1. \A j \in 1 .. n : j < i => j \in 1 .. (i - 1)
    OBVIOUS
  <2> QED BY <2>1
<1>3. IsFiniteSet(B) /\ Cardinality(B) <= Cardinality(1 .. (i - 1))
  BY <1>1, <1>2, FS_Subset
<1>4. Cardinality(B) \in Nat
  BY <1>3, FS_CardinalityType
<1> QED BY <1>1, <1>3, <1>4

LEMMA LossInit == Init => LInv
  BY CursorInit, PipelineAssumption
  DEF Init, LInv, Undisturbed, OneHandler, InFlight, Placed, Guarded, Recovered

(* Under these circumstances no handler is in flight when one starts. *)
LEMMA StartsAlone ==
  ASSUME Calm, Cardinality(InFlight) < MaxInFlight
  PROVE  InFlight = {}
<1>1. InFlight \in SUBSET Events
  BY DEF InFlight
<1>2. IsFiniteSet(InFlight)
  BY <1>1, FS_Subset DEF Calm
<1>3. Cardinality(InFlight) \in Nat
  BY <1>2, FS_CardinalityType
<1>4. Cardinality(InFlight) = 0
  BY <1>3, PipelineAssumption DEF Calm
<1> QED BY <1>2, <1>4, FS_EmptySet

(* A read of the stream returns every failed event that has not been applied. *)
LEMMA ReadsFailed ==
  ASSUME Calm, LInv, NEW e \in Events, pc[e] = "failed", e \notin applied
  PROVE  e \in ReadPending(TenantOf[e])
<1> DEFINE t == TenantOf[e]
           n == Len(stream[t])
<1>1. t \in Tenants /\ stream[t] \in Seq(Events) /\ cursor[t] \in Nat /\ n \in Nat /\ DOMAIN stream[t] = 1 .. n
  BY PipelineAssumption DEF LInv, CInv, TInv, TypeOK
<1>2. at[e].source = "REDIS"
  BY DEF LInv, Placed
<1>3. at[e].pos \in 1 .. n /\ stream[t][at[e].pos] = e /\ cursor[t] < at[e].pos
  BY <1>2 DEF LInv, CInv, IdsAreOwn, Guarded
<1>4. trimmed[t] = 0 /\ redis = "ok"
  BY <1>1 DEF LInv, Undisturbed
<1>5. n <= Cardinality(Events)
  <2>1. \A i, j \in 1 .. n : stream[t][i] = stream[t][j] => i = j
    BY <1>1 DEF LInv, Placed
  <2> QED BY <1>1, <2>1, DistinctLength DEF Calm
<1>6. UnreadRedis(t) \in SUBSET (1 .. n)
  BY <1>1 DEF UnreadRedis
<1>7. at[e].pos \in UnreadRedis(t)
  BY <1>1, <1>3, <1>4 DEF UnreadRedis
<1>8. Cardinality({j \in UnreadRedis(t) : j < at[e].pos}) < n
  BY <1>1, <1>3, <1>6, FewerBefore
<1>9. Cardinality({j \in UnreadRedis(t) : j < at[e].pos}) \in Nat /\ Cardinality(Events) \in Nat
  <2>1. IsFiniteSet(1 .. n)
    BY <1>1, FS_Interval
  <2>2. {j \in UnreadRedis(t) : j < at[e].pos} \in SUBSET (1 .. n)
    BY <1>6
  <2> QED BY <2>1, <2>2, FS_Subset, FS_CardinalityType DEF Calm
<1>10. Cardinality({j \in UnreadRedis(t) : j < at[e].pos}) < ScanCap
  BY <1>1, <1>5, <1>8, <1>9, PipelineAssumption DEF Calm
<1>11. at[e].pos \in ScannedRedis(t)
  BY <1>7, <1>10, Zenon DEF ScannedRedis
<1> QED BY <1>3, <1>4, <1>11 DEF ReadPending

(* What a read returns has been appended. *)
LEMMA ReadsAppended ==
  ASSUME LInv, NEW t \in Tenants, NEW e \in ReadPending(t)
  PROVE  at[e].source = "REDIS"
<1>1. file[t] = <<>> /\ stream[t] \in Seq(Events)
  BY DEF LInv, CInv, TInv, TypeOK, Undisturbed
<1>2. UnreadLocal(t) = {}
  BY <1>1 DEF UnreadLocal
<1>3. PICK i \in ScannedRedis(t) : e = stream[t][i]
  BY <1>2 DEF ReadPending
<1>4. i \in DOMAIN stream[t]
  BY <1>3 DEF ScannedRedis, UnreadRedis
<1> QED BY <1>3, <1>4 DEF LInv, Placed

(* Steps of the outside and of the sweep leave the handlers and the stream alone. *)
LEMMA LossFrame ==
  ASSUME LInv, CInv', UNCHANGED <<durable, handler, redis, leader, failures>>,
         applied \subseteq applied', \A e \in Events : e \in applied' \ applied => at[e].source = "REDIS",
         blocked' \subseteq blocked,
         \A e \in Events : pc[e] = "failed" /\ TenantOf[e] \notin blocked' => e \in applied \/ TenantOf[e] \notin blocked,
         \A e \in batch' : at[e].source = "REDIS", Recovered'
  PROVE  LInv'
<1>1. Undisturbed' /\ OneHandler'
  BY DEF LInv, Undisturbed, OneHandler, InFlight, durable, handler
<1>2. Placed'
  BY DEF LInv, Placed, durable, handler
<1>3. Guarded'
  BY DEF LInv, Guarded, durable, handler
<1> QED BY <1>1, <1>2, <1>3 DEF LInv

LEMMA LossOutside ==
  ASSUME Calm, LInv, CInv', Outside
  PROVE  LInv'
<1> USE DEF outside, durable, handler, sweeper
<1>1. CASE DbDown \/ DbRestored \/ HealthProbe
  <2>1. UNCHANGED <<applied, durable, handler, redis, leader, blocked, sweeper>>
    BY <1>1 DEF DbDown, DbRestored, HealthProbe
  <2>2. Recovered'
    BY <2>1 DEF LInv, Recovered
  <2> QED BY <2>1, <2>2, LossFrame DEF LInv, Placed
<1>2. CASE RedisRefuses \/ RedisRestored
  BY <1>2 DEF RedisRefuses, RedisRestored, Calm, LInv, Undisturbed
<1>3. CASE LeaderTick
  <2>1. leader' = leader
    BY <1>3 DEF LeaderTick, Calm, LInv, Undisturbed
  <2>2. Recovered'
    BY <1>3 DEF LeaderTick, LInv, Recovered
  <2> QED BY <1>3, <2>1, <2>2, LossFrame DEF LeaderTick, LInv, Placed
<1> QED BY <1>1, <1>2, <1>3 DEF Outside

LEMMA LossSweep ==
  ASSUME Calm, LInv, SweepInPeace, CInv', Sweep
  PROVE  LInv'
<1> USE DEF outside, durable, handler, sweeper
<1>b. \A e \in batch : at[e].source = "REDIS"
  BY DEF LInv, Placed
<1>f. failures = {} /\ leader = "leader" /\ \A t \in Tenants : file[t] = <<>>
  BY DEF LInv, Undisturbed
<1>u. todo # {} \/ spc \notin {"idle", "next"} => db = "up"
  BY DEF SweepInPeace
<1>c. spc \notin {"idle", "next"} => cur \in Tenants
  BY DEF LInv, CInv, TInv, SweepHasTenant
<1>1. CASE SweepStart
  <2>1. Recovered'
    BY <1>1 DEF SweepStart, LInv, Recovered
  <2> QED BY <1>1, <1>b, <2>1, LossFrame DEF SweepStart
<1>2. CASE \E t \in Tenants : SweepTenant(t)
  <2>1. Recovered'
    BY <1>2, <1>f DEF SweepTenant, LInv, Recovered
  <2>2. failures' = failures /\ batch' = {}
    BY <1>2, <1>f DEF SweepTenant
  <2> QED BY <1>2, <2>1, <2>2, LossFrame DEF SweepTenant
<1>3. CASE SweepCheckDb
  <2>1. Recovered'
    BY <1>3, <1>u DEF SweepCheckDb, LInv, Recovered
  <2> QED BY <1>3, <1>b, <2>1, LossFrame DEF SweepCheckDb
<1>4. CASE SweepRead
  <2>1. Recovered'
    BY <1>4, ReadsFailed DEF SweepRead, Recovered
  <2>2. \A e \in batch' : at[e].source = "REDIS"
    BY <1>4, <1>c, ReadsAppended DEF SweepRead
  <2> QED BY <1>4, <2>1, <2>2, LossFrame DEF SweepRead
<1>5. CASE \E e \in Events : Replay(e)
  <2> PICK e \in Events : Replay(e)
    BY <1>5
  <2>1. applied' = applied \cup {e} /\ failures' = failures
    BY <1>u DEF Replay, MayThrow, Calm
  <2>2. Recovered'
    BY <2>1 DEF Replay, LInv, Recovered
  <2>3. \A f \in Events : f \in applied' \ applied => at[f].source = "REDIS"
    BY <1>b, <2>1 DEF Replay
  <2> QED BY <1>b, <2>1, <2>2, <2>3, LossFrame DEF Replay
<1>6. CASE SweepFinish
  <2>1. Recovered'
    BY <1>6, <1>f DEF SweepFinish, LInv, Recovered
  <2> QED BY <1>6, <1>b, <2>1, LossFrame DEF SweepFinish
<1>7. CASE SweepCompact
  <2>1. Recovered'
    BY <1>7 DEF SweepCompact, LInv, Recovered
  <2> QED BY <1>7, <1>b, <2>1, LossFrame DEF SweepCompact
<1>11. CASE SweepCompactFails
  <2>1. Recovered'
    BY <1>11 DEF SweepCompactFails, LInv, Recovered
  <2> QED BY <1>11, <1>b, <2>1, LossFrame DEF SweepCompactFails
<1>8. CASE SweepTruncate \/ SweepResetCursor
  <2>1. Recovered'
    BY <1>8 DEF SweepTruncate, SweepResetCursor, LInv, Recovered
  <2>2. \A t \in Tenants : trimmed'[t] = 0 /\ file'[t] = <<>>
    BY <1>8 DEF SweepTruncate, SweepResetCursor, LInv, Undisturbed, CInv, TInv, TypeOK
  <2>3. UNCHANGED <<redis, leader, applied, stream, cursor, pc, gate, at, blocked, batch, failures>>
    BY <1>8 DEF SweepTruncate, SweepResetCursor
  <2>4. Undisturbed' /\ OneHandler' /\ Placed' /\ Guarded'
    BY <2>2, <2>3 DEF LInv, Undisturbed, OneHandler, InFlight, Placed, Guarded
  <2> QED BY <2>1, <2>4 DEF LInv
<1>9. CASE SweepClear
  <2>1. Recovered'
    BY <1>9 DEF SweepClear, LInv, Recovered
  <2>2. \A e \in Events : pc[e] = "failed" /\ TenantOf[e] \notin blocked' => e \in applied \/ TenantOf[e] \notin blocked
    BY <1>9 DEF SweepClear, LInv, Recovered
  <2> QED BY <1>9, <1>b, <2>1, <2>2, LossFrame DEF SweepClear
<1>10. CASE SweepEnd
  <2>1. Recovered'
    BY <1>10 DEF SweepEnd, LInv, Recovered
  <2> QED BY <1>10, <1>b, <2>1, LossFrame DEF SweepEnd
<1> QED BY <1>1, <1>2, <1>3, <1>4, <1>5, <1>6, <1>7, <1>8, <1>9, <1>10, <1>11 DEF Sweep

(* A handler's step is its own: the others stay where they are. *)
LEMMA LossHandle ==
  ASSUME Calm, LInv, SweepInPeace, CInv', NEW e \in Events, Receive(e) \/ Handle(e)
  PROVE  LInv'
<1> DEFINE t == TenantOf[e]
<1> USE DEF outside, durable, handler, sweeper
<1>t. /\ pc \in [Events -> PCs] /\ gate \in [Events -> Leadership] /\ at \in [Events -> [source : Sources, pos : Nat]]
      /\ t \in Tenants /\ cursor \in [Tenants -> Nat] /\ trimmed \in [Tenants -> Nat]
      /\ stream \in [Tenants -> Seq(Events)] /\ db \in {"up", "down"}
  BY PipelineAssumption DEF LInv, CInv, TInv, TypeOK
<1>u. /\ redis = "ok" /\ leader = "leader"
      /\ pc[e] \in {"new", "received", "processing", "committing", "done", "failed"}
      /\ pc[e] # "new" => gate[e] = "leader"
  BY DEF LInv, Undisturbed
<1>a. pc[e] \notin {"new", "done", "failed"} => \A f \in Events : f # e => f \notin InFlight
  BY <1>u DEF LInv, OneHandler, InFlight
<1>1. CASE Receive(e)
  <2>1. InFlight = {}
    BY <1>1, StartsAlone DEF Receive
  <2>2. /\ pc' = [pc EXCEPT ![e] = "received"] /\ gate' = [gate EXCEPT ![e] = "leader"] /\ pc[e] = "new"
        /\ UNCHANGED <<outside, applied, durable, at, mode, blocked, sweeper>>
    BY <1>1, <1>u DEF Receive
  <2>3. Undisturbed'
    BY <1>t, <2>2 DEF LInv, Undisturbed
  <2>4. OneHandler'
    BY <1>t, <2>1, <2>2 DEF InFlight, OneHandler
  <2>5. Placed' /\ Guarded' /\ Recovered'
    BY <1>t, <2>2 DEF LInv, Placed, Guarded, Recovered
  <2> QED BY <2>3, <2>4, <2>5 DEF LInv
<1>2. CASE AppendRedis(e)
  <2> DEFINE n == Len(stream[t])
  <2>1. /\ pc' = [pc EXCEPT ![e] = "processing"] /\ pc[e] = "received"
        /\ stream' = [stream EXCEPT ![t] = Append(@, e)]
        /\ at' = [at EXCEPT ![e] = [source |-> "REDIS", pos |-> n + 1]]
        /\ UNCHANGED <<outside, applied, cursor, file, fcursor, gate, mode, blocked, sweeper>>
    BY <1>2, <1>u DEF AppendRedis, AfterAppend
  <2>2. at[e].source = "NONE" /\ e \notin applied
    BY <2>1 DEF LInv, Placed
  <2>3. /\ n \in Nat /\ stream'[t] \in Seq(Events) /\ Len(stream'[t]) = n + 1 /\ stream'[t][n + 1] = e
        /\ \A i \in 1 .. n : stream'[t][i] = stream[t][i]
        /\ \A u \in Tenants : u # t => stream'[u] = stream[u]
        /\ DOMAIN stream[t] = 1 .. n /\ DOMAIN stream'[t] = 1 .. n + 1
    BY <1>t, <2>1
  <2>4. at'[e].source = "REDIS" /\ at'[e].pos = n + 1 /\ \A f \in Events : f # e => at'[f] = at[f]
    BY <1>t, <2>1
  <2>5. \A u \in Tenants : \A i \in DOMAIN stream'[u] :
           at'[stream'[u][i]].source = "REDIS" /\ at'[stream'[u][i]].pos = i
    <3> SUFFICES ASSUME NEW u \in Tenants, NEW i \in DOMAIN stream'[u]
                 PROVE  at'[stream'[u][i]].source = "REDIS" /\ at'[stream'[u][i]].pos = i
      OBVIOUS
    <3>1. CASE u = t /\ i = n + 1
      BY <2>3, <2>4, <3>1
    <3>2. CASE ~(u = t /\ i = n + 1)
      <4>1. i \in DOMAIN stream[u] /\ stream'[u][i] = stream[u][i] /\ stream[u][i] \in Events
        <5>1. CASE u = t
          <6>1. i \in 1 .. n
            BY <2>3, <3>2, <5>1
          <6> QED BY <1>t, <2>3, <5>1, <6>1
        <5>2. CASE u # t
          BY <1>t, <2>3, <5>2
        <5> QED BY <5>1, <5>2
      <4>2. at[stream[u][i]].source = "REDIS" /\ at[stream[u][i]].pos = i
        BY <4>1 DEF LInv, Placed
      <4>3. stream[u][i] # e
        BY <2>2, <4>2
      <4> QED BY <2>4, <4>1, <4>2, <4>3
    <3> QED BY <3>1, <3>2
  <2>6. n + 1 <= Cardinality(Events)
    <3>1. \A i, j \in 1 .. Len(stream'[t]) : stream'[t][i] = stream'[t][j] => i = j
      <4>1. Len(stream'[t]) = n + 1 /\ DOMAIN stream'[t] = 1 .. n + 1
        BY <2>3
      <4>2. \A i \in 1 .. n + 1 : at'[stream'[t][i]].pos = i
        BY <1>t, <2>5, <4>1
      <4> QED BY <4>1, <4>2
    <3> QED BY <2>3, <3>1, DistinctLength DEF Calm
  <2>7. \A u \in Tenants : trimmed'[u] = 0
    <3>1. PICK k \in trimmed[t] .. n + 1 :
             /\ k = trimmed[t] \/ k + StreamMaxLen <= n + 1
             /\ trimmed' = [trimmed EXCEPT ![t] = k]
      BY <1>2 DEF AppendRedis
    <3>2. \A u \in Tenants : trimmed[u] = 0
      BY DEF LInv, Undisturbed
    <3>3. Cardinality(Events) \in Nat /\ Cardinality(Events) <= StreamMaxLen /\ StreamMaxLen \in Nat
      BY FS_CardinalityType, PipelineAssumption DEF Calm
    <3>4. k = 0
      BY <1>t, <2>3, <2>6, <3>1, <3>2, <3>3
    <3> QED BY <1>t, <3>1, <3>2, <3>4
  <2>8. Undisturbed'
    BY <1>t, <2>1, <2>7 DEF LInv, Undisturbed
  <2>9. OneHandler' /\ Recovered'
    BY <1>t, <2>1 DEF LInv, OneHandler, InFlight, Recovered
  <2>10. Placed'
    <3>1. \A f \in batch' : at'[f].source = "REDIS"
      BY <1>t, <2>1, <2>2, <2>4 DEF LInv, Placed, CInv, TInv, TypeOK
    <3>2. \A f \in Events : IF pc'[f] \in {"new", "received"} THEN at'[f].source = "NONE" /\ f \notin applied'
                            ELSE at'[f].source = "REDIS"
      BY <1>t, <2>1, <2>4 DEF LInv, Placed
    <3> QED BY <2>5, <3>1, <3>2 DEF Placed
  <2>11. Guarded'
    <3>1. cursor[t] < n + 1
      <4>1. cursor[t] \in Nat /\ (cursor[t] # 0 => cursor[t] <= n)
        BY <1>t DEF LInv, CInv, CursorOnApplied
      <4> QED BY <2>3, <4>1
    <3> QED BY <1>t, <2>1, <2>4, <3>1 DEF LInv, Guarded
  <2> QED BY <2>8, <2>9, <2>10, <2>11 DEF LInv
<1>3. CASE AppendLocalWrite(e) \/ AppendLocalStat(e) \/ AppendNone(e)
  BY <1>3, <1>u DEF AppendLocalWrite, AppendLocalStat, AppendNone
<1>4. CASE ProcessOk(e)
  <2>1. /\ pc' = [pc EXCEPT ![e] = IF t \in blocked THEN "done" ELSE "committing"] /\ pc[e] = "processing"
        /\ applied' = applied \cup {e} /\ mode' = RecoveredMode
        /\ UNCHANGED <<outside, durable, gate, at, blocked, sweeper>>
    BY <1>4 DEF ProcessOk, LInv, Placed
  <2>2. Undisturbed'
    BY <1>t, <2>1 DEF LInv, Undisturbed
  <2>3. OneHandler' /\ Recovered'
    BY <1>t, <2>1 DEF LInv, OneHandler, InFlight, Recovered
  <2>4. Placed' /\ Guarded'
    BY <1>t, <2>1 DEF LInv, Placed, Guarded
  <2> QED BY <2>2, <2>3, <2>4 DEF LInv
<1>5. CASE ProcessFail(e)
  <2>1. /\ pc' = [pc EXCEPT ![e] = "failed"] /\ pc[e] = "processing" /\ db = "down"
        /\ applied' \in {applied, applied \cup {e}} /\ blocked' = blocked \cup {t}
        /\ UNCHANGED <<outside, durable, gate, at, sweeper>>
    BY <1>5 DEF ProcessFail, MayThrow, Calm
  <2>2. Undisturbed' /\ OneHandler'
    BY <1>t, <2>1 DEF LInv, Undisturbed, OneHandler, InFlight
  <2>3. Recovered'
    BY <1>t, <2>1 DEF SweepInPeace, LInv, Recovered
  <2>4. Placed'
    BY <1>t, <2>1 DEF LInv, Placed
  <2>5. Guarded'
    BY <1>t, <1>a, <2>1 DEF LInv, Guarded, InFlight
  <2> QED BY <2>2, <2>3, <2>4, <2>5 DEF LInv
<1>6. CASE CommitCursor(e)
  <2>1. /\ pc' = [pc EXCEPT ![e] = "done"] /\ pc[e] = "committing" /\ at[e].source = "REDIS"
        /\ cursor' = [cursor EXCEPT ![t] = at[e].pos]
        /\ UNCHANGED <<outside, applied, stream, trimmed, file, gate, at, mode, blocked, sweeper>>
    BY <1>6, <1>u DEF CommitCursor, LInv, Placed
  <2>2. Undisturbed' /\ OneHandler'
    BY <1>t, <2>1 DEF LInv, Undisturbed, OneHandler, InFlight
  <2>3. Recovered' /\ Placed'
    BY <1>t, <2>1 DEF LInv, Recovered, Placed
  <2>4. e \in applied /\ t \notin blocked
    BY <2>1 DEF LInv, Guarded
  <2>5. ASSUME NEW f \in Events, at[f].source = "REDIS", f \notin applied
        PROVE  cursor'[TenantOf[f]] < at[f].pos
    <3>1. f # e /\ f \notin InFlight
      BY <1>a, <2>1, <2>4, <2>5
    <3>2. pc[f] = "failed"
      BY <2>5, <3>1 DEF InFlight, LInv, Undisturbed, Placed, Guarded
    <3>3. TenantOf[f] \in blocked
      BY <2>5, <3>2 DEF LInv, Guarded
    <3>4. TenantOf[f] # t /\ TenantOf[f] \in Tenants
      BY <2>4, <3>3, PipelineAssumption
    <3>5. cursor'[TenantOf[f]] = cursor[TenantOf[f]]
      BY <1>t, <2>1, <3>4
    <3> QED BY <2>5, <3>5 DEF LInv, Guarded
  <2>6. Guarded'
    BY <1>t, <2>1, <2>4, <2>5 DEF LInv, Guarded
  <2> QED BY <2>2, <2>3, <2>6 DEF LInv
<1> QED BY <1>1, <1>2, <1>3, <1>4, <1>5, <1>6 DEF Handle

LEMMA LossStep ==
  ASSUME Calm
  PROVE  LInv /\ SweepInPeace /\ [Next]_vars => LInv'
<1> SUFFICES ASSUME LInv, SweepInPeace, [Next]_vars PROVE LInv'
  OBVIOUS
<1>c. CInv'
  BY CursorStep DEF LInv
<1>1. CASE Crash
  BY <1>1 DEF Crash, Calm
<1>2. CASE UNCHANGED vars
  <2>1. Recovered' /\ Undisturbed' /\ OneHandler' /\ Placed' /\ Guarded'
    BY <1>2 DEF vars, outside, durable, handler, sweeper, LInv, Recovered, Undisturbed,
                OneHandler, InFlight, Placed, Guarded
  <2> QED BY <1>c, <2>1 DEF LInv
<1> QED BY <1>c, <1>1, <1>2, LossOutside, LossSweep, LossHandle DEF Next

(* The invariant says that what is neither applied nor in flight is behind the cursor. *)
LEMMA LossFacts == LInv => NoLoss
<1> SUFFICES ASSUME LInv, NEW e \in Spooled, e \notin applied PROVE e \in Held
  BY DEF NoLoss
<1> DEFINE t == TenantOf[e]
<1>1. e \in Events /\ t \in Tenants /\ at[e].source = "REDIS" /\ trimmed[t] = 0 /\ stream[t] \in Seq(Events)
  BY PipelineAssumption DEF Spooled, LInv, CInv, TInv, TypeOK, Placed, Undisturbed
<1>2. at[e].pos \in 1 .. Len(stream[t]) /\ stream[t][at[e].pos] = e /\ cursor[t] < at[e].pos
  BY <1>1 DEF LInv, CInv, IdsAreOwn, Guarded
<1>3. at[e].pos \in UnreadRedis(t)
  BY <1>1, <1>2 DEF UnreadRedis
<1>4. e \in Pending(t)
  BY <1>2, <1>3 DEF Pending
<1> QED BY <1>1, <1>4 DEF Held

(***************************************************************************)
(* With handlers one at a time no event that was written to the spool is   *)
(* lost, for any number of events, tenants and outages, as long as the     *)
(* database does not fail again during a sweep: the freeze of markFailed   *)
(* keeps the cursor before every unapplied event until the sweep has       *)
(* replayed it.                                                            *)
(***************************************************************************)
THEOREM NothingLost ==
  ASSUME Calm
  PROVE  Spec /\ []SweepInPeace => []NoLoss
<1>1. LInv /\ SweepInPeace /\ [Next]_vars => LInv'
  BY LossStep
<1> QED BY <1>1, LossInit, LossFacts, PTL DEF Spec

(* With a single outage the database cannot fail again: a sweep starts after it has been noticed. *)
OneOutage ==
    /\ db = "down" \/ mode # "NORMAL" => outages = 1
    /\ todo # {} \/ spc \notin {"idle", "next"} => db = "up" /\ outages = 1

LEMMA OneOutageStep ==
  ASSUME MaxOutages <= 1, "error" \notin Faults, TInv, OneOutage, [Next]_vars,
         \A e \in Events : at[e].source # "LOCAL"
  PROVE  OneOutage'
<1> USE DEF OneOutage, outside, durable, handler, sweeper
<1>t. db \in {"up", "down"} /\ outages \in Nat /\ MaxOutages \in Nat
  BY PipelineAssumption DEF TInv, TypeOK
<1>1. CASE Outside
  <2>1. CASE DbDown
    <3>1. outages = 0 /\ outages' = 1
      BY <1>t, <2>1 DEF DbDown
    <3> QED BY <2>1, <3>1 DEF DbDown
  <2>2. CASE DbRestored \/ RedisRefuses \/ RedisRestored \/ LeaderTick
    BY <2>2 DEF DbRestored, RedisRefuses, RedisRestored, LeaderTick
  <2>3. CASE HealthProbe
    BY <1>t, <2>3 DEF HealthProbe, RecoveredMode
  <2> QED BY <1>1, <2>1, <2>2, <2>3 DEF Outside
<1>2. CASE \E e \in Events : Receive(e) \/ Handle(e)
  BY <1>2
  DEF Receive, Handle, AppendRedis, AppendLocalWrite, AppendLocalStat, AppendNone, ProcessOk,
      ProcessFail, MayThrow, CommitCursor, RecoveredMode
<1>3. CASE Sweep
  <2>1. CASE SweepStart
    <3>1. \A t \in Tenants : ~HasFile(t)
      BY DEF HasFile
    <3> QED BY <1>t, <2>1, <3>1 DEF SweepStart
  <2>2. CASE \E t \in Tenants : SweepTenant(t)
    BY <2>2 DEF SweepTenant
  <2>3. CASE \E e \in Events : Replay(e)
    BY <2>3 DEF Replay, MayThrow
  <2>4. CASE SweepFinish
    BY <2>4 DEF SweepFinish, CompletedMode
  <2> QED
    BY <1>3, <2>1, <2>2, <2>3, <2>4
    DEF Sweep, SweepCheckDb, SweepRead, SweepCompact, SweepTruncate, SweepResetCursor, SweepCompactFails, SweepClear, SweepEnd
<1>4. CASE Crash
  BY <1>4 DEF Crash
<1>5. CASE UNCHANGED vars
  BY <1>5 DEF vars
<1> QED BY <1>1, <1>2, <1>3, <1>4, <1>5 DEF Next

LEMMA PeaceAfterOneOutage ==
  ASSUME Calm, MaxOutages <= 1
  PROVE  Spec => []SweepInPeace
<1>1. Init => LInv /\ OneOutage
  BY LossInit DEF Init, OneOutage
<1>2. OneOutage => SweepInPeace
  BY DEF OneOutage, SweepInPeace
<1>3. LInv /\ OneOutage /\ [Next]_vars => LInv' /\ OneOutage'
  <2> SUFFICES ASSUME LInv, OneOutage, [Next]_vars PROVE LInv' /\ OneOutage'
    OBVIOUS
  <2>1. LInv'
    BY <1>2, LossStep
  <2>2. TInv /\ \A e \in Events : at[e].source # "LOCAL"
    BY DEF LInv, CInv, Placed
  <2> QED BY <2>1, <2>2, OneOutageStep DEF Calm
<1> QED BY <1>1, <1>2, <1>3, PTL DEF Spec

(* In particular nothing is lost in a single outage, whenever it comes and ends. *)
THEOREM NothingLostInOneOutage ==
  ASSUME Calm, MaxOutages <= 1
  PROVE  Spec => []NoLoss
BY NothingLost, PeaceAfterOneOutage, PTL

(***************************************************************************)
(* With one tenant, under the same circumstances, a sweep returns the node *)
(* to NORMAL only when every failed event has been applied.                *)
(***************************************************************************)
THEOREM RecoveryComplete ==
  ASSUME Calm, NEW t, Tenants = {t}
  PROVE  Spec /\ []SweepInPeace => NormalMeansReplayed
<1>1. LInv /\ SweepInPeace /\ [Next]_vars => LInv'
  BY LossStep
<1>2. ASSUME LInv, [Next]_vars
      PROVE  [mode = "RECOVERING" /\ mode' = "NORMAL" /\ spc = "replay" => FailedEvents \subseteq applied]_vars
  <2> SUFFICES ASSUME Next, mode = "RECOVERING", mode' = "NORMAL", spc = "replay",
                      NEW e \in FailedEvents
               PROVE  e \in applied
    BY <1>2
  <2>1. SweepFinish
    <3>1. ~Outside
      BY DEF Outside, DbDown, DbRestored, RedisRefuses, RedisRestored, LeaderTick, HealthProbe,
             FailureModes, RecoveredMode
    <3>2. ~Crash
      BY DEF Crash, Calm
    <3>3. ~\E f \in Events : Receive(f) \/ Handle(f)
      BY DEF Receive, Handle, AppendRedis, AppendLocalWrite, AppendLocalStat, AppendNone, ProcessOk,
             ProcessFail, CommitCursor, FailureModes, RecoveredMode
    <3>4. ~\E f \in Events : Replay(f)
      BY DEF Replay
    <3>5. ~\E u \in Tenants : SweepTenant(u)
      BY DEF SweepTenant
    <3> QED
      BY <3>1, <3>2, <3>3, <3>4, <3>5
      DEF Next, Sweep, SweepStart, SweepCheckDb, SweepRead, SweepCompact, SweepTruncate,
          SweepResetCursor, SweepCompactFails, SweepClear, SweepEnd
  <2>2. batch = {}
    BY <2>1 DEF SweepFinish
  <2>3. e \in Events /\ pc[e] = "failed" /\ TenantOf[e] = t
    BY PipelineAssumption DEF FailedEvents
  <2>4. cur = t
    BY <1>2 DEF LInv, CInv, TInv, SweepHasTenant
  <2> QED BY <1>2, <2>2, <2>3, <2>4 DEF LInv, Recovered
<1> QED BY <1>1, <1>2, LossInit, PTL DEF Spec, NormalMeansReplayed
----------------------------------------------------------------------------
(***************************************************************************)
(* The refinement.  Since nothing is lost, what waits is what is spooled   *)
(* and not applied.                                                        *)
(***************************************************************************)
Waiting == (Spooled \ applied) \cap Held

Delivered == Spooled \cap applied

LEMMA DeliveryStep ==
  ASSUME Calm, LInv, LInv', [Next]_vars
  PROVE  [Delivery!Next]_<<Waiting, Delivered>>
<1>1. Waiting = Spooled \ applied /\ Waiting' = Spooled' \ applied'
  <2>1. NoLoss /\ NoLoss'
    BY LossFacts, PTL
  <2> QED BY <2>1 DEF Waiting, NoLoss
<1>t. at \in [Events -> [source : Sources, pos : Nat]] /\ batch \subseteq Events
  BY DEF LInv, CInv, TInv, TypeOK
<1> USE DEF outside, durable, handler, sweeper
<1>2. ASSUME UNCHANGED <<at, applied>>
      PROVE  UNCHANGED <<Waiting, Delivered>>
  BY <1>1, <1>2 DEF Spooled, Delivered
<1>3. ASSUME NEW e \in Events, at' = at, at[e].source = "REDIS", applied' \in {applied, applied \cup {e}}
      PROVE  [Delivery!Next]_<<Waiting, Delivered>>
  <2>1. Spooled' = Spooled /\ e \in Spooled
    BY <1>3 DEF Spooled
  <2>2. CASE applied' = applied
    BY <1>2, <1>3, <2>2
  <2>3. CASE applied' = applied \cup {e} /\ e \notin applied
    <3>1. e \in Waiting /\ Waiting' = Waiting \ {e} /\ Delivered' = Delivered \cup {e}
      BY <1>1, <2>1, <2>3 DEF Delivered
    <3> QED BY <3>1 DEF Delivery!Next, Delivery!Deliver, Waiting, Delivered
  <2> QED BY <1>3, <2>2, <2>3
<1>4. ASSUME NEW e \in Events, AppendRedis(e)
      PROVE  [Delivery!Next]_<<Waiting, Delivered>>
  <2>1. at[e].source = "NONE" /\ e \notin applied
    BY <1>4 DEF AppendRedis, LInv, Placed
  <2>2. applied' = applied /\ Spooled' = Spooled \cup {e} /\ e \notin Spooled
    BY <1>4, <1>t, <2>1 DEF AppendRedis, Spooled
  <2>3. e \notin Waiting \cup Delivered /\ Waiting' = Waiting \cup {e} /\ Delivered' = Delivered
    BY <1>1, <2>1, <2>2 DEF Delivered
  <2> QED BY <2>3 DEF Delivery!Next, Delivery!Accept, Waiting, Delivered
<1>5. ASSUME NEW e \in Events, ProcessOk(e) \/ ProcessFail(e)
      PROVE  [Delivery!Next]_<<Waiting, Delivered>>
  <2>1. pc[e] = "processing" /\ at' = at /\ applied' \in {applied, applied \cup {e}}
    BY <1>5 DEF ProcessOk, ProcessFail
  <2>2. at[e].source = "REDIS"
    BY <2>1 DEF LInv, Placed
  <2> QED BY <1>3, <2>1, <2>2
<1>6. ASSUME NEW e \in Events, Replay(e)
      PROVE  [Delivery!Next]_<<Waiting, Delivered>>
  <2>1. e \in batch /\ at' = at /\ applied' \in {applied, applied \cup {e}}
    BY <1>6 DEF Replay
  <2>2. at[e].source = "REDIS"
    BY <2>1 DEF LInv, Placed
  <2> QED BY <1>3, <2>1, <2>2
<1>7. ASSUME NEW e \in Events, AppendLocalWrite(e) \/ AppendLocalStat(e) \/ AppendNone(e) PROVE FALSE
  BY <1>7 DEF AppendLocalWrite, AppendLocalStat, AppendNone, LInv, Undisturbed
<1>8. ASSUME NEW e \in Events, Receive(e) \/ CommitCursor(e)
      PROVE  UNCHANGED <<Waiting, Delivered>>
  BY <1>2, <1>8 DEF Receive, CommitCursor
<1>9. ASSUME Outside \/ Crash \/ UNCHANGED vars
      PROVE  UNCHANGED <<Waiting, Delivered>>
  BY <1>2, <1>9
  DEF Outside, DbDown, DbRestored, RedisRefuses, RedisRestored, LeaderTick, HealthProbe, Crash, vars
<1>10. ASSUME NEW u \in Tenants, SweepTenant(u)
       PROVE  UNCHANGED <<Waiting, Delivered>>
  BY <1>2, <1>10 DEF SweepTenant
<1>11. CASE SweepStart \/ SweepCheckDb \/ SweepRead \/ SweepFinish \/ SweepCompact \/ SweepTruncate
            \/ SweepResetCursor \/ SweepCompactFails \/ SweepClear \/ SweepEnd
  BY <1>2, <1>11
  DEF SweepStart, SweepCheckDb, SweepRead, SweepFinish, SweepCompact, SweepTruncate, SweepResetCursor, SweepCompactFails,
      SweepClear, SweepEnd
<1> QED
  BY <1>4, <1>5, <1>6, <1>7, <1>8, <1>9, <1>10, <1>11 DEF Next, Handle, Sweep

(***************************************************************************)
(* Under the same circumstances, with any number of tenants, the pipeline  *)
(* implements the safety part of ReliableDelivery: an event that was       *)
(* spooled waits until it is applied, and is delivered once.               *)
(***************************************************************************)
THEOREM PipelineImplements ==
  ASSUME Calm
  PROVE  Spec /\ []SweepInPeace => Delivery!Init /\ [][Delivery!Next]_<<Waiting, Delivered>>
<1>1. LInv /\ SweepInPeace /\ [Next]_vars => LInv'
  BY LossStep
<1>2. Init => Delivery!Init
  BY DEF Init, Delivery!Init, Spooled
<1>3. LInv /\ LInv' /\ [Next]_vars => [Delivery!Next]_<<Waiting, Delivered>>
  BY DeliveryStep
<1> QED BY <1>1, <1>2, <1>3, LossInit, PTL DEF Spec
=============================================================================
