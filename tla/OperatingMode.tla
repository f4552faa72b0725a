--------------------------- MODULE OperatingMode ---------------------------
(***************************************************************************)
(* The run-time operating mode of one server node                          *)
(* (resilience/operating-mode.service.ts).  The service keeps the mode and *)
(* the start of the current outage in memory; its callers are the AMI      *)
(* event handler, the /health probe and the recovery coordinator.          *)
(***************************************************************************)
EXTENDS Naturals

CONSTANTS
    DegradedAfter,  \* RESILIENCE_DEGRADED_AFTER_MS, in ticks of the clock
    MaxTime         \* bound on the clock: a restriction of the model only

ASSUME TimeAssumption == DegradedAfter \in Nat /\ MaxTime \in Nat

VARIABLES
    mode,          \* OperatingModeService.mode
    outage,        \* OperatingModeService.outageStartedAt (NoOutage is null)
    now,           \* the wall clock
    failingSince   \* history: first failure reported since the last success
                   \* or restart (NoOutage when the last report is a success)

vars == <<mode, outage, now, failingSince>>

Modes == {"NORMAL", "DB_FAILOVER", "DEGRADED", "RECOVERING"}

NoOutage == MaxTime + 1

TypeOK ==
    /\ mode \in Modes
    /\ outage \in 0 .. NoOutage
    /\ now \in 0 .. MaxTime
    /\ failingSince \in 0 .. NoOutage

Init ==
    /\ mode = "NORMAL"
    /\ outage = NoOutage
    /\ now = 0
    /\ failingSince = NoOutage

(* `outageStartedAt ?? now` reads a missing start as now. *)
OutageAge == IF outage = NoOutage THEN 0 ELSE now - outage

\* Mutant: the outage start is only taken when none is recorded, so a failure
\* during recovery is counted from the first outage.
RecordDbFailureKeepsStart ==
    \/ /\ mode \in {"NORMAL", "RECOVERING"}
       /\ mode' = "DB_FAILOVER"
       /\ outage' = IF outage = NoOutage THEN now ELSE outage
    \/ /\ mode = "DB_FAILOVER"
       /\ mode' = IF OutageAge >= DegradedAfter THEN "DEGRADED" ELSE mode
       /\ outage' = outage
    \/ /\ mode = "DEGRADED"
       /\ UNCHANGED <<mode, outage>>

(***************************************************************************)
(* recordDbFailure: a failure in NORMAL or RECOVERING starts a new outage; *)
(* one in DB_FAILOVER degrades once the outage has lasted DegradedAfter.   *)
(***************************************************************************)
RecordDbFailure ==
    \/ /\ mode \in {"NORMAL", "RECOVERING"}
       /\ mode' = "DB_FAILOVER"
       /\ outage' = now
    \/ /\ mode = "DB_FAILOVER"
       /\ mode' = IF OutageAge >= DegradedAfter THEN "DEGRADED" ELSE mode
       /\ outage' = outage
    \/ /\ mode = "DEGRADED"
       /\ UNCHANGED <<mode, outage>>

\* Mutant: a success brings the node straight back to NORMAL.
RecordDbRecoveredToNormal ==
    /\ mode' = "NORMAL"
    /\ UNCHANGED outage

(* recordDbRecovered: never straight back to NORMAL, replay is still due. *)
RecordDbRecovered ==
    /\ mode' = IF mode \in {"DB_FAILOVER", "DEGRADED"} THEN "RECOVERING" ELSE mode
    /\ UNCHANGED outage

(* markRecoveryComplete *)
MarkRecoveryComplete ==
    IF mode = "RECOVERING"
      THEN mode' = "NORMAL" /\ outage' = NoOutage
      ELSE UNCHANGED <<mode, outage>>

(* A restart of the process brings the fields back to their initial values. *)
Restart == mode' = "NORMAL" /\ outage' = NoOutage

Tick ==
    /\ now < MaxTime
    /\ now' = now + 1
    /\ UNCHANGED <<mode, outage, failingSince>>

Fail ==
    /\ RecordDbFailure
    /\ failingSince' = IF failingSince = NoOutage THEN now ELSE failingSince
    /\ UNCHANGED now

Recover == RecordDbRecovered /\ failingSince' = NoOutage /\ UNCHANGED now

Complete == MarkRecoveryComplete /\ UNCHANGED <<now, failingSince>>

Reboot == Restart /\ failingSince' = NoOutage /\ UNCHANGED now

Next == Tick \/ Fail \/ Recover \/ Complete \/ Reboot

Spec == Init /\ [][Next]_vars

(***************************************************************************)
(* While the last report is a failure the node is in one of the outage     *)
(* modes, and only then; outageStartedAt is null exactly in NORMAL.        *)
(***************************************************************************)
OutageTracked ==
    /\ (mode \in {"DB_FAILOVER", "DEGRADED"} <=> failingSince # NoOutage)
    /\ (mode = "NORMAL" <=> outage = NoOutage)

(***************************************************************************)
(* DEGRADED (no new logins) is only imposed when the CURRENT run of        *)
(* failures has lasted DegradedAfter: a failure during recovery is a new   *)
(* outage, and must not degrade at once (the comment in recordDbFailure).  *)
(***************************************************************************)
DegradedOnlyLate == mode = "DEGRADED" => now - failingSince >= DegradedAfter
=============================================================================
