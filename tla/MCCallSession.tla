--------------------------- MODULE MCCallSession ---------------------------
(***************************************************************************)
(* CallSession for TLC.  The events of a call by name: nc Newchannel,      *)
(* qj QueueCallerJoin, ac AgentCalled, an AgentConnect, be BridgeEnter,    *)
(* ho Hold, un Unhold, cw AgentComplete, hu Hangup, lh Hangup of the Local *)
(* channel; qj2 and hu2 are qj and hu delivered again.                     *)
(***************************************************************************)
EXTENDS CallSession

CONSTANTS nc, qj, qj2, ac, an, be, ho, un, cw, hu, hu2, lh

KindOf(e) ==
    CASE e = nc -> "Newchannel" [] e \in {qj, qj2} -> "QueueCallerJoin" [] e = ac -> "AgentCalled"
      [] e = an -> "AgentConnect" [] e = be -> "BridgeEnter" [] e = ho -> "Hold"
      [] e = un -> "Unhold" [] e = cw -> "AgentComplete" [] OTHER -> "Hangup"

MCKind == [e \in Events |-> KindOf(e)]

MCIdentity == [e \in Events |-> IF e = hu2 THEN hu ELSE IF e = qj2 THEN qj ELSE e]

(* The caller's channel, the Local channel through which the queue calls the agent, the agent's. *)
MCChannelOf ==
    [e \in Events |-> IF e \in {nc, qj, qj2, ac, cw} THEN "caller"
                      ELSE IF e = lh THEN "local" ELSE "agent"]
=============================================================================
