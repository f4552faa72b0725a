---------------------------- MODULE CallTransfer ----------------------------
(***************************************************************************)
(* Transfers of one call: the commands of CallsService (transfer,          *)
(* cancelAttendedTransfer, completeAttendedTransfer, and pickup, which     *)
(* writes the same status), the BlindTransfer and AttendedTransfer events, *)
(* which SessionEngineService hands to TransferDetectorService (and no     *)
(* other event: its handlers of DialBegin, DialEnd, BridgeEnter and        *)
(* BridgeLeave are not reached), the expiry of candidates (sweepExpired),  *)
(* the hang-up and the session sweeper.                                    *)
(*                                                                         *)
(* A handler reads, then writes with an await before each write, and       *)
(* handlers interleave: what a handler still has to write is its sequence  *)
(* in jobs.  The statuses before an agent is rung, HOLD and                *)
(* AFTER_CALL_WORK belong to CallSession.                                  *)
(***************************************************************************)
EXTENDS Naturals, Sequences, FiniteSets

CONSTANTS
    MaxHandlers,   \* most command and event handlers at a time
    MaxTransfers,  \* most rows of callTransfers, and of candidates
    MaxFailures    \* most handlers a database error ends

ASSUME TransferAssumption == MaxHandlers \in Nat /\ MaxTransfers \in Nat /\ MaxFailures \in Nat

VARIABLES
    status,     \* sessionStatus
    answered,   \* answeredAt is set
    fresh,      \* updatedAt is less than ten minutes old
    legUp,      \* the legs of the agent and of the caller have not ended
    transfers,  \* callTransfers in the order of requestedAt: type and result
    cands,      \* attendedTransferCandidates in that order: phase, and whether it is 15 minutes old
    jobs,       \* what each handler, and the expiry (0), still has to write
    alone,      \* history: no two handlers have overlapped
    failures

vars == <<status, answered, fresh, legUp, transfers, cands, jobs, alone, failures>>
session == <<status, answered, fresh, legUp>>

Expiry == 0
Handlers == 1 .. MaxHandlers

Types == {"blind", "attended"}
Phases == {"REQUESTED", "COMPLETED", "FAILED", "EXPIRED"}
Results == {"REQUESTED", "COMPLETED", "CANCELED", "EXPIRED"}
Statuses == {"RINGING_AGENT", "TALKING", "TRANSFERRING", "ENDED"}

(* The writes of handlers, as records of an operation, its subject and a value. *)
Writes ==
    [op : {"row"}, on : Types, to : {"REQUESTED"}]            \* callTransfers.create
        \cup [op : {"cand"}, on : {"attended"}, to : Phases]  \* attendedTransferCandidates.create
        \cup [op : {"phase"}, on : SUBSET (1 .. MaxTransfers), to : Phases]
        \cup [op : {"close"}, on : Types, to : Results]       \* the newest open row of the type
        \cup [op : {"result"}, on : 1 .. MaxTransfers, to : Results]
        \cup [op : {"status", "touch"}, on : {"session"}, to : Statuses]
        \cup [op : {"restore"}, on : {"session"}, to : {"TALKING"}]

Write(op, on, to) == [op |-> op, on |-> on, to |-> to]

(* The type invariant. *)
TypeOK ==
    /\ status \in Statuses
    /\ answered \in BOOLEAN /\ fresh \in BOOLEAN /\ legUp \in BOOLEAN /\ alone \in BOOLEAN
    /\ transfers \in Seq([type : Types, result : Results]) /\ Len(transfers) <= MaxTransfers
    /\ cands \in Seq([phase : Phases, old : BOOLEAN]) /\ Len(cands) <= MaxTransfers
    /\ jobs \in [Handlers \cup {Expiry} -> Seq(Writes)]
    /\ failures \in 0 .. MaxFailures

Init ==
    /\ status = "RINGING_AGENT" /\ answered = FALSE /\ fresh = TRUE /\ legUp = TRUE
    /\ transfers = <<>> /\ cands = <<>>
    /\ jobs = [h \in Handlers \cup {Expiry} |-> <<>>]
    /\ alone = TRUE /\ failures = 0
----------------------------------------------------------------------------
(* An open candidate is in one of the phases the queries list; of these     *)
(* only REQUESTED is ever written.                                          *)
Open == {i \in DOMAIN cands : cands[i].phase = "REQUESTED"}

(* Unlike OpenCandidate it does not look at the phase. *)
LatestCandidate == {i \in DOMAIN cands : \A j \in DOMAIN cands : j <= i}

(* getOpenCandidate: the newest one, as a set of at most one. *)
OpenCandidate == {i \in Open : \A j \in Open : j <= i}

(* The newest row of a type that has no result. *)
OpenRow(type) ==
    LET rows == {k \in DOMAIN transfers : transfers[k].type = type /\ transfers[k].result = "REQUESTED"}
    IN {k \in rows : \A l \in rows : l <= k}

(* What the status goes back to when a transfer comes to nothing. *)
Before == IF answered THEN "TALKING" ELSE "RINGING_AGENT"

Room(seq, op) ==
    LET creating == {h \in Handlers : \E k \in DOMAIN jobs[h] : jobs[h][k].op = op}
    IN Len(seq) < MaxTransfers /\ creating = {}

(* A handler has read what it needs and begins to write; handlers are       *)
(* interchangeable, the first one that is free is taken.                    *)
Starts(h, writes) ==
    /\ jobs[h] = <<>> /\ \A g \in Handlers : g < h => jobs[g] # <<>>
    /\ jobs' = [jobs EXCEPT ![h] = writes]
    /\ alone' = (alone /\ \A g \in DOMAIN jobs : jobs[g] = <<>>)
    /\ UNCHANGED <<session, transfers, cands, failures>>

(* transfer: needs an agent leg; the row, the status, the candidate. *)
Transfer(h, type) ==
    /\ legUp
    /\ Room(transfers, "row") /\ (type = "attended" => Room(cands, "cand"))
    /\ LET row == Write("row", type, "REQUESTED")
           transferring == Write("status", "session", "TRANSFERRING")
       IN \/ type = "blind" /\ Starts(h, <<row, transferring>>)
          \/ type = "attended" /\ Starts(h, <<row, transferring, Write("cand", type, "REQUESTED")>>)

(* cancelAttendedTransfer, with the answeredAt it has read. *)
CancelAttendedTransfer(h) ==
    /\ legUp /\ OpenCandidate # {}
    /\ Starts(h, <<Write("phase", OpenCandidate, "FAILED"), Write("close", "attended", "CANCELED"),
                   Write("touch", "session", Before)>>)

CompleteAttendedTransfer(h) ==
    /\ legUp /\ OpenCandidate # {}
    /\ Starts(h, <<Write("touch", "session", "TRANSFERRING")>>)

(* pickup: allowed while the call rings, by the status it has read. *)
Pickup(h) ==
    /\ legUp /\ status = "RINGING_AGENT"
    /\ Starts(h, <<Write("touch", "session", "RINGING_AGENT")>>)

(* A BlindTransfer or AttendedTransfer event: completeTransfer closes the   *)
(* open candidate, of whatever type the event is, or creates a closed one.  *)
TransferEvent(h, type) ==
    /\ OpenCandidate # {} \/ Room(cands, "cand")
    /\ Starts(h, <<IF OpenCandidate # {} THEN Write("phase", OpenCandidate, "COMPLETED")
                   ELSE Write("cand", "attended", "COMPLETED"),
                   Write("close", type, "COMPLETED")>>)

(* Unlike SweepExpired it leaves the transfers of ended calls alone. *)
SweepExpiredLive ==
    LET expired == {i \in Open : cands[i].old}
        each(k) == IF k % 2 = 1 THEN Write("close", "attended", "EXPIRED")
                                ELSE Write("restore", "session", "TALKING")
    IN /\ expired # {} /\ status # "ENDED"
       /\ Starts(Expiry, <<Write("phase", expired, "EXPIRED")>>
                           \o [k \in 1 .. 2 * Cardinality(expired) |-> each(k)])

(* sweepExpired: the candidates are selected, updated together, and for each *)
(* of them the row of its call is closed and the session restored.           *)
SweepExpired ==
    LET expired == {i \in Open : cands[i].old}
        each(k) == IF k % 2 = 1 THEN Write("close", "attended", "EXPIRED")
                                ELSE Write("restore", "session", "TALKING")
    IN /\ expired # {}
       /\ Starts(Expiry, <<Write("phase", expired, "EXPIRED")>>
                           \o [k \in 1 .. 2 * Cardinality(expired) |-> each(k)])
----------------------------------------------------------------------------
(* The next write of handler h; a lookup is replaced by the write it leads to. *)
Writing(h) ==
    LET w == Head(jobs[h])
        rest == Tail(jobs[h])
        Goes(next) == jobs' = [jobs EXCEPT ![h] = next]
    IN /\ jobs[h] # <<>>
       /\ \/ /\ w.op = "row" /\ Goes(rest)
             /\ transfers' = Append(transfers, [type |-> w.on, result |-> w.to])
             /\ UNCHANGED <<session, cands>>
          \/ /\ w.op = "cand" /\ Goes(rest)
             /\ cands' = Append(cands, [phase |-> w.to, old |-> FALSE])
             /\ UNCHANGED <<session, transfers>>
          \/ /\ w.op = "phase" /\ Goes(rest)
             /\ cands' = [i \in DOMAIN cands |-> IF i \in w.on THEN [cands[i] EXCEPT !.phase = w.to]
                                                               ELSE cands[i]]
             /\ UNCHANGED <<session, transfers>>
          \/ /\ w.op = "close"
             /\ \/ OpenRow(w.on) = {} /\ Goes(rest)
                \/ \E k \in OpenRow(w.on) : Goes(<<Write("result", k, w.to)>> \o rest)
             /\ UNCHANGED <<session, transfers, cands>>
          \/ /\ w.op = "result" /\ Goes(rest)
             /\ transfers' = [transfers EXCEPT ![w.on].result = w.to]
             /\ UNCHANGED <<session, cands>>
          \/ /\ w.op \in {"status", "touch"} /\ Goes(rest)
             /\ status' = w.to
             /\ fresh' = (fresh \/ w.op = "touch")
             /\ UNCHANGED <<answered, legUp, transfers, cands>>
          \/ /\ w.op = "restore" /\ Goes(<<Write("touch", "session", Before)>> \o rest)
             /\ UNCHANGED <<session, transfers, cands>>
       /\ UNCHANGED <<alone, failures>>

(* A query fails: the command answers an error, the detector logs it. *)
Fails(h) ==
    /\ jobs[h] # <<>> /\ failures < MaxFailures
    /\ jobs' = [jobs EXCEPT ![h] = <<>>]
    /\ failures' = failures + 1
    /\ UNCHANGED <<session, transfers, cands, alone>>
----------------------------------------------------------------------------
(* The events of the call that CallSession models: the answer and the end. *)
Answer ==
    /\ legUp /\ ~answered
    /\ answered' = TRUE
    /\ status' = IF status = "RINGING_AGENT" THEN "TALKING" ELSE status
    /\ UNCHANGED <<fresh, legUp, transfers, cands, jobs, alone, failures>>

Hangup ==
    /\ legUp
    /\ legUp' = FALSE /\ status' = "ENDED"
    /\ UNCHANGED <<answered, fresh, transfers, cands, jobs, alone, failures>>

(* Unlike SweepSession it leaves calls that are talking alone. *)
SweepUnanswered ==
    /\ status \in {"RINGING_AGENT", "TRANSFERRING"} /\ ~fresh
    /\ status' = "ENDED"
    /\ UNCHANGED <<answered, fresh, legUp, transfers, cands, jobs, alone, failures>>

(* SessionRecoverySweeperService ends a session nobody has touched for ten minutes. *)
SweepSession ==
    /\ status # "ENDED" /\ ~fresh
    /\ status' = "ENDED"
    /\ UNCHANGED <<answered, fresh, legUp, transfers, cands, jobs, alone, failures>>

(* Time passes: ten minutes since the session was touched, ... *)
SessionAges ==
    /\ fresh /\ fresh' = FALSE
    /\ UNCHANGED <<status, answered, legUp, transfers, cands, jobs, alone, failures>>

(* ... fifteen since a candidate was requested. *)
CandidateAges(i) ==
    /\ ~cands[i].old
    /\ cands' = [cands EXCEPT ![i].old = TRUE]
    /\ UNCHANGED <<session, transfers, jobs, alone, failures>>

Next ==
    \/ \E h \in Handlers :
         \/ \E type \in Types : Transfer(h, type) \/ TransferEvent(h, type)
         \/ CancelAttendedTransfer(h) \/ CompleteAttendedTransfer(h) \/ Pickup(h)
    \/ SweepExpired
    \/ \E h \in Handlers \cup {Expiry} : Writing(h) \/ Fails(h)
    \/ Answer \/ Hangup \/ SweepSession \/ SessionAges
    \/ \E i \in DOMAIN cands : CandidateAges(i)

(* The database answers, timers run, time passes.  Nobody need transfer,    *)
(* cancel or hang up.                                                       *)
Fairness ==
    /\ \A h \in Handlers \cup {Expiry} : WF_vars(Writing(h))
    /\ WF_vars(SweepExpired) /\ WF_vars(SweepSession) /\ WF_vars(SessionAges)
    /\ \A i \in 1 .. MaxTransfers : WF_vars(i \in DOMAIN cands /\ CandidateAges(i))

Spec == Init /\ [][Next]_vars /\ Fairness
----------------------------------------------------------------------------
(* As long as handlers have not overlapped, a completed transfer stays      *)
(* completed: neither a cancellation nor the expiry takes it back.          *)
CompletedStays ==
    [][\A i \in DOMAIN cands : cands[i].phase = "COMPLETED" /\ alone => cands'[i].phase = "COMPLETED"]_vars

(* An open transfer does not stay open, whatever overlaps or fails: if no   *)
(* event closes it, the expiry does.                                        *)
TransferCloses == \A i \in 1 .. MaxTransfers : i \in Open ~> i \notin Open

(* After the hang-up the session is ENDED for good sooner or later, even if *)
(* commands in flight or the expiry of a transfer bring it back.            *)
HungUpEnds == ~legUp ~> [](status = "ENDED")
=============================================================================
