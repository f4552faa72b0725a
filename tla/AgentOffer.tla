------------------------------ MODULE AgentOffer ------------------------------
(***************************************************************************)
(* AgentOfferService: before the queue rings an agent, the PBX's AGI asks  *)
(* the server with a long poll whether the agent takes the call, and the   *)
(* agent's desktop shows the question.  One node answers the AGI; the      *)
(* agent's answer, the end of the call, the offer and its closing travel   *)
(* over the event bus (Redis Pub/Sub), because an agent's socket may be on *)
(* another node.                                                           *)
(*                                                                         *)
(* An offer is a call and an extension (agentOfferId).  Redis executes the *)
(* commands of a node in the order they are sent: `out` holds the          *)
(* publications the AGI node has sent and Redis has not executed yet.  A   *)
(* publication Redis refuses is handed to the sockets and the listeners of *)
(* the publishing node only.  The hop from a node to a socket of its own   *)
(* takes no time; the hop from Redis to a node does, and Pub/Sub keeps     *)
(* nothing for a node or a desktop that is reconnecting: what is on its    *)
(* way then is lost.                                                       *)
(***************************************************************************)
EXTENDS Naturals, Sequences

CONSTANTS
    Calls,
    Exts,         \* extensions of the agents
    Local,        \* the extensions whose desktop is connected to the AGI node
    NoOffer,
    MaxPolls,     \* most long polls
    MaxMissed     \* most publications that are refused or lost on the way

Polls == 1 .. MaxPolls
Offers == Calls \X Exts
CallOf(o) == o[1]
ExtOf(o) == o[2]

ASSUME OfferAssumption ==
    /\ Local \subseteq Exts
    /\ NoOffer \notin Offers
    /\ MaxPolls \in Nat /\ MaxMissed \in Nat

(* What an agent can press, and what a poll can be told. *)
Presses == {"ACCEPT", "REJECT"}
Decisions == Presses \cup {"TIMEOUT", "ABANDONED"}

VARIABLES
    pending,    \* per offer the long polls that wait for it, {} when it is not in the map
    answered,   \* per offer the remembered decision, "none" when there is none
    poll,       \* "idle", "opening" (awaits the publication of the offer), "waiting",
                \* "closing" (awaits the publication of the closing), "done"
    of,         \* the offer a poll asks for
    result,     \* what the promise of a poll was resolved with, "none" before
    out,        \* publications of the AGI node: <<kind, polls>>, one for each of the polls
    toScreen,   \* per extension the messages its node has not received: <<kind, offer>>
    screen,     \* CurrentOffer of the desktop of an extension
    toAgi,      \* messages the AGI node has not received: decisions and ended calls
    live,       \* calls that have not ended
    missed      \* publications refused or lost so far

vars == <<pending, answered, poll, of, result, out, toScreen, screen, toAgi, live, missed>>

Messages == [offer : Offers, decision : Presses] \cup [ended : Calls]
----------------------------------------------------------------------------
(* The type invariant. *)
TypeOK ==
    /\ pending \in [Offers -> SUBSET Polls]
    /\ answered \in [Offers -> Decisions \cup {"none"}]
    /\ poll \in [Polls -> {"idle", "opening", "waiting", "closing", "done"}]
    /\ of \in [Polls -> Offers \cup {NoOffer}]
    /\ result \in [Polls -> Decisions \cup {"none"}]
    /\ out \in Seq({"offer", "closed"} \X (SUBSET Polls))
    /\ toScreen \in [Exts -> Seq({"offer", "closed"} \X Offers)]
    /\ screen \in [Exts -> Offers \cup {NoOffer}]
    /\ toAgi \in Seq(Messages)
    /\ live \subseteq Calls
    /\ missed \in 0 .. MaxMissed

Init ==
    /\ pending = [o \in Offers |-> {}]
    /\ answered = [o \in Offers |-> "none"]
    /\ poll = [p \in Polls |-> "idle"]
    /\ of = [p \in Polls |-> NoOffer]
    /\ result = [p \in Polls |-> "none"]
    /\ out = <<>>
    /\ toScreen = [e \in Exts |-> <<>>]
    /\ screen = [e \in Exts |-> NoOffer]
    /\ toAgi = <<>>
    /\ live = Calls
    /\ missed = 0
----------------------------------------------------------------------------
(* Offers that are in the map. *)
Open == {o \in Offers : pending[o] # {}}

(* Long polls that were resolved while they waited go on to announce the    *)
(* closing; one that still awaits the publication of its offer does so once *)
(* that is done.                                                            *)
Resume(resolved) ==
    LET ready == {p \in resolved : poll[p] = "waiting"} IN
    /\ poll' = [p \in Polls |-> IF p \in ready THEN "closing" ELSE poll[p]]
    /\ out' = IF ready = {} THEN out ELSE Append(out, <<"closed", ready>>)

(* Unlike Settle it resolves the poll that opened the offer and no other. *)
SettleFirstOnly(S, d, forget) ==
    LET closed == S \cap Open
        resolved == {p \in Polls : \E o \in closed : p \in pending[o] /\ \A q \in pending[o] : p <= q} IN
    /\ pending' = [o \in Offers |-> IF o \in closed THEN {} ELSE pending[o]]
    /\ result' = [p \in Polls |-> IF p \in resolved THEN d[of[p]] ELSE result[p]]
    /\ Resume(resolved)
    /\ answered' = [o \in Offers |->
             IF o \in forget THEN "none" ELSE IF o \in closed THEN d[o] ELSE answered[o]]

(* settle for every offer of S that is open, with decision d[o]; remember   *)
(* drops entries that are over ten minutes old (any of the others may be),  *)
(* and offers in `forget` are not remembered.                               *)
Settle(S, d, forget) ==
    LET closed == S \cap Open
        resolved == UNION {pending[o] : o \in closed} IN
    /\ pending' = [o \in Offers |-> IF o \in closed THEN {} ELSE pending[o]]
    /\ result' = [p \in Polls |-> IF p \in resolved THEN d[of[p]] ELSE result[p]]
    /\ Resume(resolved)
    /\ \E old \in SUBSET (IF closed = {} THEN {} ELSE Offers \ closed) :
         answered' = [o \in Offers |->
             CASE o \in forget -> "none"
               [] o \in closed \ forget -> d[o]
               [] o \in old \ forget -> "none"
               [] OTHER -> answered[o]]

(* Unlike Request it does not look at the remembered answer. *)
RequestAgain(p, o) ==
    /\ poll[p] = "idle"
    /\ of' = [of EXCEPT ![p] = o]
    /\ pending' = [pending EXCEPT ![o] = @ \cup {p}]
    /\ poll' = [poll EXCEPT ![p] = "opening"]
    /\ out' = Append(out, <<"offer", {p}>>)
    /\ UNCHANGED <<answered, result, toScreen, screen, toAgi, live, missed>>

(* waitForDecision and enqueue: a remembered answer other than ACCEPT is    *)
(* given at once and nothing changes; otherwise an open offer is joined, or *)
(* the offer is opened with its timer and published.                        *)
Request(p, o) ==
    /\ poll[p] = "idle" /\ \A q \in Polls : q < p => poll[q] # "idle"
    /\ answered[o] \in {"none", "ACCEPT"}
    /\ of' = [of EXCEPT ![p] = o]
    /\ \/ /\ o \in Open
          /\ pending' = [pending EXCEPT ![o] = @ \cup {p}]
          /\ poll' = [poll EXCEPT ![p] = "waiting"]
          /\ UNCHANGED out
       \/ /\ o \notin Open
          /\ pending' = [pending EXCEPT ![o] = {p}]
          /\ poll' = [poll EXCEPT ![p] = "opening"]
          /\ out' = Append(out, <<"offer", {p}>>)
    /\ UNCHANGED <<answered, result, toScreen, screen, toAgi, live, missed>>

(* The timer of an open offer fires. *)
TimesOut(o) ==
    /\ o \in Open
    /\ Settle({o}, [x \in {o} |-> "TIMEOUT"], {})
    /\ UNCHANGED <<of, toScreen, screen, toAgi, live, missed>>

(* Unlike Drop it takes the poll out of the offer without resolving it. *)
DropSilently(p) ==
    /\ p \in pending[of[p]]
    /\ pending' = [pending EXCEPT ![of[p]] = @ \ {p}]
    /\ UNCHANGED <<answered, poll, of, result, out, toScreen, screen, toAgi, live, missed>>

(* dropWaiter: the request of a long poll was closed.  Only that poll is    *)
(* let go; the last one settles the offer.                                  *)
Drop(p) ==
    /\ p \in pending[of[p]]
    /\ IF pending[of[p]] = {p}
       THEN Settle({of[p]}, [x \in {of[p]} |-> "ABANDONED"], {})
       ELSE /\ pending' = [pending EXCEPT ![of[p]] = @ \ {p}]
            /\ result' = [result EXCEPT ![p] = "ABANDONED"]
            /\ Resume({p})
            /\ UNCHANGED answered
    /\ UNCHANGED <<of, toScreen, screen, toAgi, live, missed>>

(* The listener of onModuleInit applied to a message: an ACCEPT abandons    *)
(* the other offers of the call (abandonSiblings) and settles its own; the  *)
(* end of a call abandons its offers and forgets its answers (abandonCall). *)
Listen(m) ==
    IF "ended" \in DOMAIN m
    THEN LET S == {o \in Offers : CallOf(o) = m.ended} IN
         Settle(S, [o \in S |-> "ABANDONED"], S)
    ELSE LET siblings == IF m.decision = "ACCEPT"
                         THEN {o \in Offers : CallOf(o) = CallOf(m.offer)} ELSE {}
             S == siblings \cup {m.offer} IN
         Settle(S, [o \in S |-> IF o = m.offer THEN m.decision ELSE "ABANDONED"], {})

(* The AGI node receives the next message of the bus. *)
AgiReceives ==
    /\ toAgi # <<>>
    /\ Listen(Head(toAgi))
    /\ toAgi' = Tail(toAgi)
    /\ UNCHANGED <<of, toScreen, screen, live, missed>>

(* A node publishes m for the AGI node: over Redis, or, refused, to its own *)
(* listeners, which are the AGI node's when the publisher is the AGI node.  *)
PublishToAgi(m, publishers) ==
    \/ /\ toAgi' = Append(toAgi, m)
       /\ UNCHANGED <<pending, answered, poll, result, out, missed>>
    \/ /\ missed < MaxMissed
       /\ missed' = missed + 1
       /\ UNCHANGED toAgi
       /\ \/ /\ "agi" \in publishers
             /\ Listen(m)
          \/ /\ "other" \in publishers
             /\ UNCHANGED <<pending, answered, poll, result, out>>

(* The agent presses a button: the desktop takes the offer down whatever    *)
(* becomes of the request, and the node it is connected to publishes the    *)
(* decision.                                                                *)
Press(e, d) ==
    /\ screen[e] # NoOffer
    /\ screen' = [screen EXCEPT ![e] = NoOffer]
    /\ PublishToAgi([offer |-> screen[e], decision |-> d], IF e \in Local THEN {"agi"} ELSE {"other"})
    /\ UNCHANGED <<of, toScreen, live>>

(* The session engine of the leading node has finalized the hangup of a call. *)
CallEnds(c) ==
    /\ c \in live
    /\ live' = live \ {c}
    /\ PublishToAgi([ended |-> c], {"agi", "other"})
    /\ UNCHANGED <<of, toScreen, screen>>

(* SetOffer and ClearOffer of the desktop: an offer replaces what is shown, *)
(* a closing takes down the offer it names.                                 *)
Shown(s, m) ==
    CASE m[1] = "offer" -> m[2]
      [] m[1] = "closed" /\ s = m[2] -> NoOffer
      [] OTHER -> s

(* out without the publication of p that is in front. *)
Sent(p) ==
    LET front == Head(out) IN
    IF front[2] = {p} THEN Tail(out) ELSE [out EXCEPT ![1] = <<front[1], front[2] \ {p}>>]

(* Unlike GoesOn a poll resolved before its offer was published closes nothing. *)
GoesOnUnclosed(kind, p) ==
    /\ poll' = [poll EXCEPT ![p] = IF kind = "offer" /\ result[p] = "none" THEN "waiting" ELSE "done"]
    /\ out' = Sent(p)
    /\ UNCHANGED <<of, result>>

(* A long poll whose publication was answered: after the offer it waits, or *)
(* announces the closing if it was resolved meanwhile; after the closing it *)
(* answers its request.                                                     *)
GoesOn(kind, p) ==
    \/ /\ kind = "offer" /\ result[p] = "none"
       /\ poll' = [poll EXCEPT ![p] = "waiting"]
       /\ out' = Sent(p)
       /\ UNCHANGED <<of, result>>
    \/ /\ kind = "offer" /\ result[p] # "none"
       /\ poll' = [poll EXCEPT ![p] = "closing"]
       /\ out' = Append(Sent(p), <<"closed", {p}>>)
       /\ UNCHANGED <<of, result>>
    \/ /\ kind = "closed"
       /\ poll' = [poll EXCEPT ![p] = "done"]
       /\ out' = Sent(p)
       /\ of' = [of EXCEPT ![p] = NoOffer]
       /\ result' = [result EXCEPT ![p] = "none"]

(* The publication in front of out is executed or refused (then it goes to  *)
(* the sockets of the AGI node only); the long poll that sent it goes on.   *)
Published ==
    /\ out # <<>>
    /\ \E p \in Head(out)[2] :
         LET e == ExtOf(of[p])
             m == <<Head(out)[1], of[p]>> IN
         /\ \/ /\ toScreen' = [toScreen EXCEPT ![e] = Append(@, m)]
               /\ UNCHANGED <<screen, missed>>
            \/ /\ missed < MaxMissed
               /\ missed' = missed + 1
               /\ screen' = IF e \in Local THEN [screen EXCEPT ![e] = Shown(@, m)] ELSE screen
               /\ UNCHANGED toScreen
         /\ GoesOn(m[1], p)
    /\ UNCHANGED <<pending, answered, toAgi, live>>

(* The node of the desktop receives the next message and emits it. *)
ScreenReceives(e) ==
    /\ toScreen[e] # <<>>
    /\ screen' = [screen EXCEPT ![e] = Shown(@, Head(toScreen[e]))]
    /\ toScreen' = [toScreen EXCEPT ![e] = Tail(@)]
    /\ UNCHANGED <<pending, answered, poll, of, result, out, toAgi, live, missed>>

(* The node of the desktop, or the desktop, is reconnecting when the next  *)
(* message would reach it.                                                  *)
ScreenMisses(e) ==
    /\ toScreen[e] # <<>> /\ missed < MaxMissed
    /\ missed' = missed + 1
    /\ toScreen' = [toScreen EXCEPT ![e] = Tail(@)]
    /\ UNCHANGED <<pending, answered, poll, of, result, out, screen, toAgi, live>>

(* The subscription of the AGI node is down when the next message comes. *)
AgiMisses ==
    /\ toAgi # <<>> /\ missed < MaxMissed
    /\ missed' = missed + 1
    /\ toAgi' = Tail(toAgi)
    /\ UNCHANGED <<pending, answered, poll, of, result, out, toScreen, screen, live>>

Next ==
    \/ \E p \in Polls, o \in Offers : Request(p, o)
    \/ \E o \in Offers : TimesOut(o)
    \/ \E p \in Polls : of[p] # NoOffer /\ Drop(p)
    \/ AgiReceives
    \/ \E e \in Exts, d \in Presses : Press(e, d)
    \/ \E c \in Calls : CallEnds(c)
    \/ Published
    \/ \E e \in Exts : ScreenReceives(e)
    \/ \E e \in Exts : ScreenMisses(e)
    \/ AgiMisses

(* Timers fire, Redis answers, and what is on its way arrives or is lost.   *)
(* Agents, callers and the PBX need not do anything.                        *)
Fairness ==
    /\ \A o \in Offers : WF_vars(TimesOut(o))
    /\ WF_vars(AgiReceives)
    /\ WF_vars(Published)
    /\ \A e \in Exts : WF_vars(ScreenReceives(e))

Spec == Init /\ [][Next]_vars /\ Fairness
----------------------------------------------------------------------------
(* A long poll whose promise is not resolved waits in an offer that is     *)
(* open, so that a decision, a time-out or the end of the call reaches it: *)
(* the comment of PendingOffer says what an abandoned wait would cost (the *)
(* AGI takes no answer for an ACCEPT).  A resolved one waits nowhere.      *)
NoWaiterLost ==
    \A p \in Polls :
        /\ poll[p] \in {"opening", "waiting"} /\ result[p] = "none" => \E o \in Offers : p \in pending[o]
        /\ \A o \in Offers : p \in pending[o] =>
              of[p] = o /\ poll[p] \in {"opening", "waiting"} /\ result[p] = "none"

(* A call is put to an extension once: an offer that was rejected, timed    *)
(* out or abandoned is not open again until the call ends or the answer is  *)
(* forgotten, whatever the order of polls, decisions and hang-ups.          *)
AskedOnce == \A o \in Offers : answered[o] \in Decisions \ {"ACCEPT"} => o \notin Open

(* Every long poll is answered, those that joined an open offer included,  *)
(* also when the agent's decision or the end of the call is lost.          *)
PollsAnswered == \A p \in Polls : poll[p] # "idle" ~> poll[p] = "done"

(* What a desktop shows goes away, or a publication was refused or lost:   *)
(* every offer that was announced is announced as closed, in that order.   *)
(* Nothing repeats a closing that was missed, hence the exception.         *)
ScreenClears ==
    \A o \in Offers : screen[ExtOf(o)] = o ~> screen[ExtOf(o)] # o \/ missed > 0
=============================================================================
