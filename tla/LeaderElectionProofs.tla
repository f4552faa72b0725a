----------------------- MODULE LeaderElectionProofs -----------------------
(* Theorems about LeaderElection, for any number of nodes and of faults. *)
EXTENDS LeaderElection, TLAPS

(* No node's tick hangs past its period, not even that of a node without a connection. *)
TicksEnd == NextPeriod => \A n \in Nodes : pc[n] = "idle"

(***************************************************************************)
(* A leader holds the lock, fresh once its tick of this period has run and *)
(* alive until then; a node about to renew the lock still holds it.  This  *)
(* is inductive as long as no tick hangs past its period.                  *)
(***************************************************************************)
LeaseInv ==
    /\ TypeOK
    /\ lock # NoNode => ttl >= 1
    /\ \A n \in Nodes :
          /\ leads[n] = "yes" => lock = n /\ ttl >= 1 /\ (pc[n] = "idle" => ttl = Lifetime)
          /\ pc[n] = "renew" => lock = n /\ ttl >= 1

LEMMA LeaseStep ==
    ASSUME LeaseInv, [Next]_vars, [TicksEnd]_vars
    PROVE  LeaseInv'
<1> USE LeaderAssumption DEF LeaseInv, TypeOK, Lifetime
<1>1. ASSUME NEW n \in Nodes, Acquire(n) PROVE LeaseInv'
  <2>1. CASE lock = NoNode
    BY <1>1, <2>1 DEF Acquire
  <2>2. CASE lock # NoNode
    BY <1>1, <2>2 DEF Acquire
  <2> QED BY <2>1, <2>2
<1>2. ASSUME NEW n \in Nodes, ReadHolder(n) PROVE LeaseInv'
  <2>1. CASE lock = n
    <3>1. ttl >= 1
      BY <2>1
    <3> QED BY <1>2, <2>1, <3>1 DEF ReadHolder
  <2>2. CASE lock # n
    BY <1>2, <2>2 DEF ReadHolder
  <2> QED BY <2>1, <2>2
<1>3. ASSUME NEW n \in Nodes, Renew(n) PROVE LeaseInv'
  <2>1. lock = n /\ n # NoNode
    BY <1>3 DEF Renew
  <2> QED BY <1>3, <2>1 DEF Renew
<1>4. ASSUME NEW n \in Nodes, TickFails(n) PROVE LeaseInv'
  BY <1>4 DEF TickFails
<1>5. CASE NextPeriod
  <2>1. CASE UNCHANGED vars
    BY <2>1 DEF vars
  <2>2. CASE \A n \in Nodes : pc[n] = "idle"
    BY <1>5, <2>2 DEF NextPeriod
  <2> QED BY <1>5, <2>1, <2>2 DEF TicksEnd
<1>6. CASE RedisRefuses \/ RedisAccepts
  BY <1>6 DEF RedisRefuses, RedisAccepts, CountFault
<1>7. ASSUME NEW n \in Nodes, Restart(n) PROVE LeaseInv'
  BY <1>7 DEF Restart, CountFault
<1>8. ASSUME NEW n \in Nodes, Disconnect(n) \/ Reconnect(n) PROVE LeaseInv'
  BY <1>8 DEF Disconnect, Reconnect, CountFault
<1>9. CASE UNCHANGED vars
  BY <1>9 DEF vars
<1> QED
  BY <1>1, <1>2, <1>3, <1>4, <1>5, <1>6, <1>7, <1>8, <1>9 DEF Next, Tick

(***************************************************************************)
(* As long as no tick hangs past its period there is at most one leader,   *)
(* for any number of nodes, restarts, refusals and lost connections: a     *)
(* node cut off for less than a period is harmless wherever in its tick it *)
(* is.  The tick must end because its PEXPIRE renews whatever lock there   *)
(* is, and its node would lead by the lock of another.                     *)
(***************************************************************************)
THEOREM LeaderSafeWhileTicksEnd == Spec /\ [][TicksEnd]_vars => []AtMostOneLeader
<1>1. Init => LeaseInv
  BY LeaderAssumption DEF Init, LeaseInv, TypeOK, Lifetime
<1>2. LeaseInv /\ [Next]_vars /\ [TicksEnd]_vars => LeaseInv'
  BY LeaseStep
<1>3. LeaseInv => AtMostOneLeader
  BY DEF LeaseInv, AtMostOneLeader
<1> QED BY <1>1, <1>2, <1>3, PTL DEF Spec

(***************************************************************************)
(* In particular there is at most one leader, whatever restarts and        *)
(* refusals happen, as long as no connection to Redis is lost.  (A node    *)
(* that loses its connection keeps its flag while its lock expires.)       *)
(***************************************************************************)
THEOREM LeaderSafe ==
    ASSUME "disconnect" \notin Faults
    PROVE  Spec => []AtMostOneLeader
<1> DEFINE Connected == conn \in [Nodes -> {"up"}]
<1>1. Init => Connected
  BY DEF Init
<1>2. Connected /\ [Next]_vars => Connected'
  BY DEF Next, vars, Tick, Acquire, ReadHolder, Renew, TickFails, NextPeriod, RedisRefuses, RedisAccepts,
         Restart, Disconnect, Reconnect
<1>3. Connected => [TicksEnd]_vars
  BY DEF TicksEnd, NextPeriod
<1>4. Spec => [][TicksEnd]_vars
  BY <1>1, <1>2, <1>3, PTL DEF Spec
<1> QED BY <1>4, LeaderSafeWhileTicksEnd, PTL
=============================================================================
