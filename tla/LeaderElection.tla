--------------------------- MODULE LeaderElection ---------------------------
(***************************************************************************)
(* AmiLeaderElectionService on several nodes: a lock in Redis with a time  *)
(* to live of 10 s, taken or renewed by a tick every 5 s.  A tick is three *)
(* commands (SET NX PX, GET, PEXPIRE), each awaited.                       *)
(*                                                                         *)
(* Time is counted in periods of 5 s, so the lock lives for two of them.   *)
(* In a period every node runs its tick to the end; the exceptions are the *)
(* faults:                                                                 *)
(*   "refuse"      Redis answers commands with errors for a while;         *)
(*   "restart"     a node restarts: it has a new node id;                  *)
(*   "disconnect"  a node loses its connection to Redis.  Its client waits *)
(*                 for the connection (maxRetriesPerRequest: null) and no  *)
(*                 command fails, so the tick hangs where it is.           *)
(***************************************************************************)
EXTENDS Naturals

CONSTANTS
    Nodes,
    NoNode,       \* the lock key does not exist
    OldId,        \* the lock holds the id of a process that is gone
    Faults,
    MaxFaults     \* most faults

ASSUME LeaderAssumption ==
    /\ NoNode \notin Nodes /\ OldId \notin Nodes /\ NoNode # OldId
    /\ Faults \subseteq {"refuse", "restart", "disconnect"}
    /\ MaxFaults \in Nat

(* The lock lives for 10000 ms: two periods. *)
Lifetime == 2

VARIABLES
    lock,       \* value of kaster:ami:leader
    ttl,        \* periods it has left, 0 when there is none
    redis,      \* "ok" or "refusing"
    conn,       \* per node: "up" or "lost"
    pc,         \* per node: "due" (tick not run yet in this period), "get", "renew", "idle"
    leads,      \* isLeaderNode with leadershipKnown: "yes", "no", "unknown"
    faults      \* faults so far

vars == <<lock, ttl, redis, conn, pc, leads, faults>>
----------------------------------------------------------------------------
(* The type invariant. *)
TypeOK ==
    /\ lock \in Nodes \cup {NoNode, OldId}
    /\ ttl \in 0 .. Lifetime
    /\ redis \in {"ok", "refusing"}
    /\ conn \in [Nodes -> {"up", "lost"}]
    /\ pc \in [Nodes -> {"due", "get", "renew", "idle"}]
    /\ leads \in [Nodes -> {"yes", "no", "unknown"}]
    /\ faults \in 0 .. MaxFaults

(* onModuleInit of every node is about to run the first tick. *)
Init ==
    /\ lock = NoNode /\ ttl = 0 /\ redis = "ok"
    /\ conn = [n \in Nodes |-> "up"]
    /\ pc = [n \in Nodes |-> "due"]
    /\ leads = [n \in Nodes |-> "unknown"]
    /\ faults = 0
----------------------------------------------------------------------------
Reachable(n) == redis = "ok" /\ conn[n] = "up"

(* SET NX PX: the lock is free and now mine, or I go on to GET. *)
Acquire(n) ==
    /\ pc[n] = "due" /\ Reachable(n)
    /\ IF lock = NoNode
         THEN /\ lock' = n /\ ttl' = Lifetime
              /\ leads' = [leads EXCEPT ![n] = "yes"]
              /\ pc' = [pc EXCEPT ![n] = "idle"]
         ELSE /\ pc' = [pc EXCEPT ![n] = "get"]
              /\ UNCHANGED <<lock, ttl, leads>>
    /\ UNCHANGED <<redis, conn, faults>>

(* GET: it is mine and I renew it, or I am not the leader. *)
ReadHolder(n) ==
    /\ pc[n] = "get" /\ Reachable(n)
    /\ IF lock = n
         THEN pc' = [pc EXCEPT ![n] = "renew"] /\ UNCHANGED leads
         ELSE /\ pc' = [pc EXCEPT ![n] = "idle"]
              /\ leads' = [leads EXCEPT ![n] = "no"]
    /\ UNCHANGED <<lock, ttl, redis, conn, faults>>

(* PEXPIRE, on whatever lock there is now; then I am the leader. *)
Renew(n) ==
    /\ pc[n] = "renew" /\ Reachable(n)
    /\ ttl' = IF lock = NoNode THEN 0 ELSE Lifetime
    /\ leads' = [leads EXCEPT ![n] = "yes"]
    /\ pc' = [pc EXCEPT ![n] = "idle"]
    /\ UNCHANGED <<lock, redis, conn, faults>>

(* A command answers with an error: the catch block. *)
TickFails(n) ==
    /\ pc[n] \in {"due", "get", "renew"} /\ redis = "refusing" /\ conn[n] = "up"
    /\ leads' = [leads EXCEPT ![n] = "unknown"]
    /\ pc' = [pc EXCEPT ![n] = "idle"]
    /\ UNCHANGED <<lock, ttl, redis, conn, faults>>

Tick(n) == Acquire(n) \/ ReadHolder(n) \/ Renew(n) \/ TickFails(n)
----------------------------------------------------------------------------
\* Mutant: the key has no time to live.
NextPeriodNoExpiry ==
    /\ \A n \in Nodes : conn[n] = "up" => pc[n] = "idle"
    /\ pc' = [n \in Nodes |-> IF pc[n] = "idle" THEN "due" ELSE pc[n]]
    /\ UNCHANGED <<lock, ttl, redis, conn, leads, faults>>

(* 5 s pass: the timers are due again and the lock ages; a tick that hangs still hangs. *)
NextPeriod ==
    /\ \A n \in Nodes : conn[n] = "up" => pc[n] = "idle"
    /\ pc' = [n \in Nodes |-> IF pc[n] = "idle" THEN "due" ELSE pc[n]]
    /\ ttl' = IF ttl = 0 THEN 0 ELSE ttl - 1
    /\ lock' = IF ttl <= 1 THEN NoNode ELSE lock
    /\ UNCHANGED <<redis, conn, leads, faults>>

(* The faults. *)

CountFault == faults < MaxFaults /\ faults' = faults + 1

RedisRefuses ==
    /\ "refuse" \in Faults /\ redis = "ok" /\ redis' = "refusing" /\ CountFault
    /\ UNCHANGED <<lock, ttl, conn, pc, leads>>

RedisAccepts ==
    /\ redis = "refusing" /\ redis' = "ok"
    /\ UNCHANGED <<lock, ttl, conn, pc, leads, faults>>

(* A new process: nodeId is a new random UUID. *)
Restart(n) ==
    /\ "restart" \in Faults /\ CountFault
    /\ lock' = IF lock = n THEN OldId ELSE lock
    /\ leads' = [leads EXCEPT ![n] = "unknown"]
    /\ pc' = [pc EXCEPT ![n] = "due"]
    /\ conn' = [conn EXCEPT ![n] = "up"]
    /\ UNCHANGED <<ttl, redis>>

Disconnect(n) ==
    /\ "disconnect" \in Faults /\ conn[n] = "up" /\ CountFault
    /\ conn' = [conn EXCEPT ![n] = "lost"]
    /\ UNCHANGED <<lock, ttl, redis, pc, leads>>

Reconnect(n) ==
    /\ conn[n] = "lost" /\ conn' = [conn EXCEPT ![n] = "up"]
    /\ UNCHANGED <<lock, ttl, redis, pc, leads, faults>>

Next ==
    \/ NextPeriod \/ RedisRefuses \/ RedisAccepts
    \/ \E n \in Nodes : Tick(n) \/ Restart(n) \/ Disconnect(n) \/ Reconnect(n)

Spec == Init /\ [][Next]_vars

(***************************************************************************)
(* Fairness: timers fire, commands are answered, a Redis that refuses      *)
(* recovers and a lost connection is re-established (ioredis retries).     *)
(***************************************************************************)
Fairness ==
    /\ WF_vars(NextPeriod) /\ WF_vars(RedisAccepts)
    /\ \A n \in Nodes : WF_vars(Tick(n)) /\ WF_vars(Reconnect(n))

FairSpec == Spec /\ Fairness
----------------------------------------------------------------------------
(* Properties *)

(***************************************************************************)
(* At most one node takes itself for the leader: two would process every   *)
(* AMI event and publish every outbox row twice.  The comment in tick      *)
(* claims it for a Redis that cannot be used ("fail-safe").                *)
(***************************************************************************)
AtMostOneLeader == \A m, n \in Nodes : leads[m] = "yes" /\ leads[n] = "yes" => m = n

(***************************************************************************)
(* Whatever fails, once no more faults happen one and the same node leads  *)
(* for good and no other takes itself for the leader: a dead leader's lock *)
(* expires, and a node that kept its flag while it was cut off from Redis  *)
(* finds out.                                                              *)
(***************************************************************************)
SettlesOnOne == \E n \in Nodes : <>[](\A m \in Nodes : leads[m] = "yes" <=> m = n)
=============================================================================
