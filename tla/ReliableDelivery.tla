-------------------------- MODULE ReliableDelivery --------------------------
(***************************************************************************)
(* What a durable store promises: what has been written to it waits until  *)
(* it is delivered; it never disappears, and it is eventually delivered.   *)
(*                                                                         *)
(*   - The durable spool promises it of AMI events, which are delivered    *)
(*     when they are applied to the database (class comments of            *)
(*     durable-spool.service.ts and recovery-coordinator.service.ts).      *)
(*   - The outbox promises it of its rows, which are delivered when they   *)
(*     are published (outbox-publisher.service.ts).                        *)
(***************************************************************************)
CONSTANT Events

VARIABLES
    waiting,    \* written, not yet delivered
    delivered   \* written and delivered

vars == <<waiting, delivered>>

Init == waiting = {} /\ delivered = {}

Accept(e) ==
    /\ e \notin waiting \cup delivered
    /\ waiting' = waiting \cup {e}
    /\ UNCHANGED delivered

Deliver(e) ==
    /\ e \in waiting
    /\ waiting' = waiting \ {e}
    /\ delivered' = delivered \cup {e}

Next == \E e \in Events : Accept(e) \/ Deliver(e)

Spec == Init /\ [][Next]_vars /\ \A e \in Events : WF_vars(Deliver(e))
=============================================================================
