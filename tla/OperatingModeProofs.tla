------------------------ MODULE OperatingModeProofs ------------------------
(***************************************************************************)
(* Safety of the operating mode for every threshold and every clock bound. *)
(***************************************************************************)
EXTENDS OperatingMode, TLAPS

(***************************************************************************)
(* The strengthening: while the node is in an outage mode the recorded     *)
(* start IS the first failure of the current run, and starts are past.     *)
(***************************************************************************)
StartIsFirstFailure ==
    /\ (mode \in {"DB_FAILOVER", "DEGRADED"} => outage = failingSince)
    /\ (outage # NoOutage => outage <= now)

IInv == TypeOK /\ OutageTracked /\ StartIsFirstFailure /\ DegradedOnlyLate

(* The four facts above are inductive. *)
LEMMA ModeInvariant == Spec => []IInv
<1>1. Init => IInv
  BY TimeAssumption
  DEF Init, IInv, TypeOK, OutageTracked, StartIsFirstFailure, DegradedOnlyLate, Modes, NoOutage
<1>2. IInv /\ [Next]_vars => IInv'
  <2> SUFFICES ASSUME IInv, [Next]_vars PROVE IInv'
    OBVIOUS
  <2> USE TimeAssumption
      DEF IInv, TypeOK, OutageTracked, StartIsFirstFailure, DegradedOnlyLate, Modes, NoOutage
  <2>1. CASE Tick
    BY <2>1 DEF Tick
  <2>2. CASE Fail
    BY <2>2 DEF Fail, RecordDbFailure, OutageAge
  <2>3. CASE Recover
    BY <2>3 DEF Recover, RecordDbRecovered
  <2>4. CASE Complete
    BY <2>4 DEF Complete, MarkRecoveryComplete
  <2>5. CASE Reboot
    BY <2>5 DEF Reboot, Restart
  <2>6. CASE UNCHANGED vars
    BY <2>6 DEF vars
  <2> QED
    BY <2>1, <2>2, <2>3, <2>4, <2>5, <2>6 DEF Next
<1> QED
  BY <1>1, <1>2, PTL DEF Spec

(* The node is in an outage mode exactly while the last report of the       *)
(* database was a failure (recordDbFailure, recordDbRecovered).             *)
THEOREM OutageSafety == Spec => []OutageTracked
<1>1. IInv => OutageTracked
  BY DEF IInv
<1> QED
  BY <1>1, ModeInvariant, PTL

(* DEGRADED is never early: the failures of the current run have lasted at  *)
(* least the threshold (recordDbFailure, RESILIENCE_DEGRADED_AFTER_MS).     *)
THEOREM DegradedSafety == Spec => []DegradedOnlyLate
<1>1. IInv => DegradedOnlyLate
  BY DEF IInv
<1> QED
  BY <1>1, ModeInvariant, PTL
=============================================================================
