------------------------ MODULE AgentPresenceProofs ------------------------
(***************************************************************************)
(* Presence and queue pause for any set of nodes, any lifetime of two      *)
(* heartbeats or more, any number of sockets and of jobs.                  *)
(***************************************************************************)
EXTENDS AgentPresence, TLAPS

(* How long the field of a node is valid at least, when it was written in   *)
(* the present or in the last heartbeat.                                    *)
Least(n) == IF n \in due THEN Lifetime - 1 ELSE Lifetime

(* A node whose last write was taken has a field that lasts until the next  *)
(* heartbeat has written it again.                                          *)
Written == \A n \in Nodes : sockets[n] > 0 /\ n \notin missed => field[n] >= Least(n)

(* Only nodes with sockets have a heartbeat. *)
Beating == \A n \in due : sockets[n] > 0

(* As long as nothing was disturbed the fields say what the sockets are,    *)
(* there is at most one job, and it knows the status when it pauses.        *)
Tracks ==
    ~disturbed =>
        /\ left = 0
        /\ \A n \in Nodes : IF sockets[n] = 0 THEN field[n] = 0 ELSE field[n] >= Least(n)
        /\ \A i, j \in Jobs : job[i] # NoJob /\ job[j] # NoJob => i = j
        /\ \A j \in Jobs : job[j] # NoJob /\ job[j].step = "presence" => job[j].status = status
        /\ \A j \in Jobs : job[j] # NoJob /\ job[j].step = "pause" => status = "none"

PInv == TypeOK /\ Beating /\ Written /\ Tracks /\ PauseFollows

LEMMA PresenceInit == Init => PInv
<1> SUFFICES ASSUME Init PROVE PInv
  OBVIOUS
<1>1. TypeOK
  <2>1. /\ due \subseteq Nodes /\ missed \subseteq Nodes /\ status \in Statuses
        /\ sockets \in [Nodes -> 0 .. MaxSockets]
        /\ field \in [Nodes -> 0 .. Lifetime] /\ left \in 0 .. Lifetime
    BY PresenceAssumption DEF Init, Statuses
  <2>2. job \in [Jobs -> JobRecords \cup {NoJob}] /\ paused \in BOOLEAN /\ disturbed \in BOOLEAN
        /\ settled \in BOOLEAN
    BY DEF Init
  <2> QED BY <2>1, <2>2 DEF TypeOK
<1>2. Beating /\ Written /\ Tracks
  BY PresenceAssumption DEF Init, Beating, Written, Tracks
<1>3. PauseFollows
  BY DEF Init, PauseFollows
<1> QED BY <1>1, <1>2, <1>3 DEF PInv

(* A job that starts, in a state without others if nothing is disturbed. *)
LEMMA JobStarts ==
  ASSUME TypeOK, NEW n \in Nodes, NEW s \in Statuses, NEW refused \in BOOLEAN,
         NEW step \in {"status", "close", "create", "logout"}, Starts(n, step, s, refused)
  PROVE  /\ job' \in [Jobs -> JobRecords \cup {NoJob}] /\ disturbed' \in BOOLEAN
         /\ ~disturbed' => ~disturbed /\ ~refused
         /\ ~Quiet'
         /\ ~disturbed' => /\ \A i, j \in Jobs : job'[i] # NoJob /\ job'[j] # NoJob => i = j
                           /\ \A j \in Jobs : job'[j] # NoJob => job'[j].step \notin {"presence", "pause"}
<1>1. PICK j \in Jobs : job[j] = NoJob /\ job' = [job EXCEPT ![j] = [node |-> n, step |-> step, status |-> s]]
  BY DEF Starts
<1>2. [node |-> n, step |-> step, status |-> s] \in JobRecords
  BY DEF JobRecords
<1>3. [node |-> n, step |-> step, status |-> s] # NoJob
  BY DEF NoJob
<1>4. job' \in [Jobs -> JobRecords \cup {NoJob}] /\ disturbed' \in BOOLEAN /\ job'[j] # NoJob
  BY <1>1, <1>2, <1>3 DEF TypeOK, Starts
<1>5. ~disturbed' => ~disturbed /\ ~refused /\ Quiet
  BY DEF Starts
<1>6. Quiet => \A i \in Jobs : job'[i] # NoJob => i = j
  BY <1>1 DEF Quiet, TypeOK
<1>7. job'[j].step \notin {"presence", "pause"}
  BY <1>1 DEF TypeOK
<1>8. ~Quiet'
  BY <1>4 DEF Quiet
<1> QED BY <1>4, <1>5, <1>6, <1>7, <1>8

LEMMA ConnectsKeeps == ASSUME PInv, NEW n \in Nodes, Connects(n) PROVE PInv'
<1> USE PresenceAssumption DEF queue
<1>1. TypeOK /\ Beating /\ Written /\ Tracks /\ PauseFollows
  BY DEF PInv
<1>2. /\ due' = due /\ left' = left /\ status' = status /\ paused' = paused /\ settled' = settled
      /\ sockets' = [sockets EXCEPT ![n] = @ + 1]
      /\ sockets' \in [Nodes -> 0 .. MaxSockets]
      /\ field' \in [Nodes -> 0 .. Lifetime] /\ missed' \subseteq Nodes
  BY <1>1 DEF Connects, WriteField, TypeOK
<1>3. \/ field' = [field EXCEPT ![n] = Lifetime] /\ missed' = missed \ {n}
      \/ missed' = missed \cup {n} /\ field' = field
  BY DEF Connects, WriteField
<1>4. Beating' /\ Written'
  BY <1>1, <1>2, <1>3 DEF Beating, Written, Least, TypeOK
<1>5. CASE sockets[n] = 0
  <2>1. Starts(n, "status", "none", n \in missed')
    BY <1>5, <1>1 DEF Connects, TypeOK
  <2>2. /\ job' \in [Jobs -> JobRecords \cup {NoJob}] /\ disturbed' \in BOOLEAN
        /\ ~disturbed' => ~disturbed /\ n \notin missed'
        /\ ~Quiet'
        /\ ~disturbed' => /\ \A i, j \in Jobs : job'[i] # NoJob /\ job'[j] # NoJob => i = j
                          /\ \A j \in Jobs : job'[j] # NoJob => job'[j].step \notin {"presence", "pause"}
    <3>1. (n \in missed') \in BOOLEAN /\ "none" \in Statuses
      BY DEF Statuses
    <3> QED BY <3>1, <2>1, <1>1, JobStarts
  <2>3. TypeOK'
    BY <2>2, <1>1, <1>2 DEF TypeOK
  <2>4. ~disturbed' => field' = [field EXCEPT ![n] = Lifetime]
    BY <2>2, <1>3
  <2>5. Tracks'
    BY <2>2, <2>4, <1>1, <1>2 DEF Tracks, Least, TypeOK
  <2>6. PauseFollows'
    BY <2>2 DEF PauseFollows
  <2> QED BY <2>3, <2>5, <2>6, <1>4 DEF PInv
<1>6. CASE sockets[n] # 0
  <2>1. job' = job /\ disturbed' = disturbed
    BY <1>6 DEF Connects
  <2>2. TypeOK'
    BY <2>1, <1>1, <1>2 DEF TypeOK
  <2>3. Tracks'
    BY <2>1, <1>1, <1>2, <1>3, <1>6 DEF Tracks, Least, TypeOK
  <2>4. PauseFollows'
    BY <2>1, <1>1, <1>2, <1>6 DEF PauseFollows, Quiet, TypeOK
  <2> QED BY <2>2, <2>3, <2>4, <1>4 DEF PInv
<1> QED BY <1>5, <1>6

LEMMA DisconnectsKeeps == ASSUME PInv, NEW n \in Nodes, Disconnects(n) PROVE PInv'
<1> USE PresenceAssumption DEF queue
<1>1. TypeOK /\ Beating /\ Written /\ Tracks /\ PauseFollows
  BY DEF PInv
<1>2. /\ status' = status /\ paused' = paused /\ settled' = settled /\ left' = left
      /\ sockets' = [sockets EXCEPT ![n] = @ - 1]
      /\ sockets' \in [Nodes -> 0 .. MaxSockets]
  BY <1>1 DEF Disconnects, ClearField, TypeOK
<1>3. CASE sockets[n] = 1
  <2>1. /\ Starts(n, "status", "none", field'[n] > 0)
        /\ due' = due \ {n} /\ missed' = missed \ {n}
        /\ field' \in {field, [field EXCEPT ![n] = 0]}
    BY <1>3 DEF Disconnects, ClearField
  <2>2. /\ job' \in [Jobs -> JobRecords \cup {NoJob}] /\ disturbed' \in BOOLEAN
        /\ ~disturbed' => ~disturbed /\ ~(field'[n] > 0)
        /\ ~Quiet'
        /\ ~disturbed' => /\ \A i, j \in Jobs : job'[i] # NoJob /\ job'[j] # NoJob => i = j
                          /\ \A j \in Jobs : job'[j] # NoJob => job'[j].step \notin {"presence", "pause"}
    <3>1. (field'[n] > 0) \in BOOLEAN /\ "none" \in Statuses
      BY DEF Statuses
    <3> QED BY <3>1, <2>1, <1>1, JobStarts
  <2>3. field' \in [Nodes -> 0 .. Lifetime]
    BY <2>1, <1>1 DEF TypeOK
  <2>4. TypeOK'
    BY <2>1, <2>2, <2>3, <1>1, <1>2 DEF TypeOK
  <2>5. \A m \in Nodes \ {n} : field'[m] = field[m] /\ sockets'[m] = sockets[m] /\ Least(m)' = Least(m)
    BY <2>1, <1>1, <1>2 DEF TypeOK, Least
  <2>6. sockets'[n] = 0
    BY <1>2, <1>3, <1>1 DEF TypeOK
  <2>7. Beating' /\ Written'
    BY <2>1, <2>5, <2>6, <1>1 DEF Beating, Written, TypeOK
  <2>8. ~disturbed' => field'[n] = 0
    BY <2>2, <2>3
  <2>9. Tracks'
    BY <2>2, <2>5, <2>6, <2>8, <1>1, <1>2 DEF Tracks
  <2>10. PauseFollows'
    BY <2>2 DEF PauseFollows
  <2> QED BY <2>4, <2>7, <2>9, <2>10 DEF PInv
<1>4. CASE sockets[n] # 1
  <2>1. sockets[n] > 1 /\ UNCHANGED <<field, left, job, disturbed, due, missed>>
    BY <1>4 DEF Disconnects
  <2>2. TypeOK'
    BY <2>1, <1>1, <1>2 DEF TypeOK
  <2>3. Beating' /\ Written' /\ Tracks'
    BY <2>1, <1>1, <1>2 DEF Beating, Written, Tracks, Least, TypeOK
  <2>4. PauseFollows'
    BY <2>1, <1>1, <1>2 DEF PauseFollows, Quiet, TypeOK
  <2> QED BY <2>2, <2>3, <2>4 DEF PInv
<1> QED BY <1>3, <1>4

LEMMA HeartbeatKeeps == ASSUME PInv, NEW n \in Nodes, Heartbeat(n) PROVE PInv'
<1> USE PresenceAssumption DEF queue
<1>1. TypeOK /\ Beating /\ Written /\ Tracks /\ PauseFollows
  BY DEF PInv
<1>2. /\ n \in due /\ due' = due \ {n} /\ disturbed' = (disturbed \/ n \in missed')
      /\ UNCHANGED <<sockets, left, status, job, queue>>
      /\ \/ field' = [field EXCEPT ![n] = Lifetime] /\ missed' = missed \ {n}
         \/ missed' = missed \cup {n} /\ field' = field
  BY DEF Heartbeat, WriteField
<1>3. TypeOK'
  <2>1. due' \subseteq Nodes /\ missed' \subseteq Nodes /\ field' \in [Nodes -> 0 .. Lifetime]
    BY <1>1, <1>2 DEF TypeOK
  <2>2. disturbed' \in BOOLEAN
    BY <1>2
  <2> QED BY <2>1, <2>2, <1>1, <1>2 DEF TypeOK
<1>4. Beating' /\ Written'
  BY <1>1, <1>2 DEF Beating, Written, Least, TypeOK
<1>5. ~disturbed' => ~disturbed /\ field' = [field EXCEPT ![n] = Lifetime]
  BY <1>2
<1>6. Tracks'
  BY <1>1, <1>2, <1>5 DEF Tracks, Beating, Least, TypeOK
<1>7. PauseFollows'
  BY <1>1, <1>2, <1>5 DEF PauseFollows, Quiet
<1> QED BY <1>3, <1>4, <1>6, <1>7 DEF PInv

LEMMA TickKeeps == ASSUME PInv, Tick PROVE PInv'
<1> USE PresenceAssumption DEF queue
<1>1. TypeOK /\ Beating /\ Written /\ Tracks /\ PauseFollows
  BY DEF PInv
<1>2. /\ due = {} /\ due' = {n \in Nodes : sockets[n] > 0}
      /\ field' = [n \in Nodes |-> Less(field[n])] /\ left' = Less(left)
      /\ UNCHANGED <<sockets, missed, status, job, queue, disturbed>>
  BY DEF Tick
<1>3. TypeOK'
  <2>1. field' \in [Nodes -> 0 .. Lifetime] /\ left' \in 0 .. Lifetime /\ due' \subseteq Nodes
    BY <1>1, <1>2 DEF TypeOK, Less
  <2> QED BY <2>1, <1>1, <1>2 DEF TypeOK
<1>4. Beating' /\ Written'
  BY <1>1, <1>2 DEF Beating, Written, Least, TypeOK, Less
<1>5. Tracks'
  BY <1>1, <1>2 DEF Tracks, Least, TypeOK, Less
<1>6. PauseFollows'
  BY <1>1, <1>2 DEF PauseFollows, Quiet
<1> QED BY <1>3, <1>4, <1>5, <1>6 DEF PInv

LEMMA RestartsKeeps == ASSUME PInv, NEW n \in Nodes, Restarts(n) PROVE PInv'
<1> USE PresenceAssumption DEF queue
<1>1. TypeOK /\ Beating /\ Written
  BY DEF PInv
<1>2. /\ sockets' = [sockets EXCEPT ![n] = 0] /\ field' = [field EXCEPT ![n] = 0]
      /\ due' = due \ {n} /\ missed' = missed \ {n} /\ status' = status
  BY DEF Restarts
<1>3. TypeOK'
  <2>1. /\ sockets' \in [Nodes -> 0 .. MaxSockets] /\ field' \in [Nodes -> 0 .. Lifetime]
        /\ due' \subseteq Nodes /\ missed' \subseteq Nodes /\ left' \in 0 .. Lifetime
    BY <1>1 DEF Restarts, TypeOK
  <2>2. job' \in [Jobs -> JobRecords \cup {NoJob}]
    BY <1>1 DEF Restarts, TypeOK
  <2>3. paused' \in BOOLEAN /\ settled' \in BOOLEAN /\ disturbed' \in BOOLEAN
    BY <1>1 DEF Restarts, TypeOK
  <2> QED BY <2>1, <2>2, <2>3, <1>1, <1>2 DEF TypeOK
<1>4. Beating' /\ Written'
  BY <1>1, <1>2 DEF Beating, Written, Least, TypeOK
<1>5. Tracks' /\ PauseFollows'
  BY DEF Restarts, Tracks, PauseFollows
<1> QED BY <1>3, <1>4, <1>5 DEF PInv

(* changeStatus and markLoggedOut start a job and leave the rest alone. *)
LEMMA CommandKeeps ==
  ASSUME PInv, NEW n \in Nodes, NEW s \in Statuses, NEW step \in {"close", "logout"},
         Starts(n, step, s, FALSE), UNCHANGED <<presence, status, queue>>
  PROVE  PInv'
<1> USE DEF queue
<1>1. TypeOK /\ Beating /\ Written /\ Tracks /\ UNCHANGED <<sockets, field, left, due, missed, status, queue>>
  BY DEF PInv, presence
<1>2. /\ job' \in [Jobs -> JobRecords \cup {NoJob}] /\ disturbed' \in BOOLEAN
      /\ ~disturbed' => ~disturbed
      /\ ~Quiet'
      /\ ~disturbed' => /\ \A i, j \in Jobs : job'[i] # NoJob /\ job'[j] # NoJob => i = j
                        /\ \A j \in Jobs : job'[j] # NoJob => job'[j].step \notin {"presence", "pause"}
  BY <1>1, JobStarts
<1>3. TypeOK' /\ Beating' /\ Written'
  BY <1>1, <1>2 DEF TypeOK, Beating, Written, Least
<1>4. Tracks'
  BY <1>1, <1>2 DEF Tracks, Least
<1>5. PauseFollows'
  BY <1>2 DEF PauseFollows
<1> QED BY <1>3, <1>4, <1>5 DEF PInv

(* The fields say what the sockets are. *)
LEMMA ReadsSockets ==
  ASSUME TypeOK, Tracks, ~disturbed
  PROVE  ReadsConnected <=> \E n \in Nodes : sockets[n] # 0
<1>1. left = 0 /\ \A n \in Nodes : IF sockets[n] = 0 THEN field[n] = 0 ELSE field[n] > 0
  BY PresenceAssumption DEF Tracks, Least, TypeOK
<1> QED BY <1>1 DEF ReadsConnected, TypeOK

LEMMA RecordIsJob == ASSUME NEW r \in JobRecords PROVE r # NoJob
<1>1. r = [node |-> r.node, step |-> r.step, status |-> r.status]
  BY DEF JobRecords
<1>2. [node |-> r.node, step |-> r.step, status |-> r.status] # <<>>
  OBVIOUS
<1> QED BY <1>1, <1>2 DEF NoJob

LEMMA StepKeeps == ASSUME PInv, NEW j \in Jobs, Step(j) PROVE PInv'
<1> USE PresenceAssumption DEF queue
<1>1. TypeOK /\ Beating /\ Written /\ Tracks /\ PauseFollows
  BY DEF PInv
<1>2. job[j] \in JobRecords /\ job[j] # NoJob
  BY <1>1 DEF Step, TypeOK
<1>3. UNCHANGED <<sockets, field, left, due, missed>>
  BY DEF Step, presence
<1>4. Beating' /\ Written'
  BY <1>1, <1>3 DEF Beating, Written, Least
<1>5. ~disturbed => \A i \in Jobs : job[i] # NoJob => i = j
  BY <1>1, <1>2 DEF Tracks
(* A step after which the job goes on. *)
<1>6. ASSUME NEW s \in Statuses, NEW t \in {"create", "presence", "pause"}, NEW u \in Statuses,
             job' = [job EXCEPT ![j] = [@ EXCEPT !.step = t, !.status = u]],
             status' = s, t = "presence" => u = s, t = "pause" => s = "none", UNCHANGED <<queue, disturbed>>
      PROVE  PInv'
  <2>1. [job[j] EXCEPT !.step = t, !.status = u] \in JobRecords
    BY <1>2 DEF JobRecords
  <2>2. [job[j] EXCEPT !.step = t, !.status = u] # NoJob
    BY <2>1, RecordIsJob
  <2>3. /\ job'[j].step = t /\ job'[j].status = u /\ job'[j] # NoJob
        /\ \A i \in Jobs : i # j => job'[i] = job[i]
    BY <1>1, <1>2, <1>6, <2>2 DEF TypeOK, JobRecords
  <2>4. TypeOK'
    <3>1. job' \in [Jobs -> JobRecords \cup {NoJob}]
      BY <1>1, <1>6, <2>1 DEF TypeOK
    <3> QED BY <3>1, <1>1, <1>3, <1>6 DEF TypeOK
  <2>5. Tracks'
    BY <1>1, <1>3, <1>5, <1>6, <2>3 DEF Tracks, Least
  <2>6. PauseFollows'
    BY <2>3 DEF PauseFollows, Quiet
  <2> QED BY <2>4, <2>5, <2>6, <1>4 DEF PInv
(* A step that ends the job with QueuePause. *)
<1>7. ASSUME NEW s \in Statuses, job' = [job EXCEPT ![j] = NoJob], status' = s, paused' \in BOOLEAN,
             settled' \in BOOLEAN, disturbed' \in BOOLEAN,
             ~disturbed' => /\ ~disturbed
                            /\ paused' = (s \in {"none", "BREAK"} \/ \A n \in Nodes : sockets[n] = 0)
      PROVE  PInv'
  <2>1. TypeOK'
    <3>1. job' \in [Jobs -> JobRecords \cup {NoJob}]
      BY <1>1, <1>7 DEF TypeOK
    <3> QED BY <3>1, <1>1, <1>3, <1>7 DEF TypeOK
  <2>2. ~disturbed' => \A i \in Jobs : job'[i] = NoJob
    BY <1>1, <1>5, <1>7 DEF TypeOK
  <2>3. Tracks'
    BY <1>1, <1>3, <1>7, <2>2 DEF Tracks, Least
  <2>4. PauseFollows'
    BY <1>3, <1>7 DEF PauseFollows
  <2> QED BY <2>1, <2>3, <2>4, <1>4 DEF PInv
<1>8. CASE job[j].step = "status"
  <2>1. /\ job' = [job EXCEPT ![j] = [@ EXCEPT !.step = "presence", !.status = status]]
        /\ UNCHANGED <<status, queue, disturbed>>
    BY <1>8 DEF Step
  <2> QED BY <2>1, <1>1, <1>6 DEF TypeOK
<1>9. CASE job[j].step \in {"close", "create"}
  <2> DEFINE t == IF job[j].step = "close" THEN "create" ELSE "presence"
  <2>1. /\ job' = [job EXCEPT ![j] = [@ EXCEPT !.step = t]]
        /\ status' = IF job[j].step = "close" THEN "none" ELSE job[j].status
        /\ UNCHANGED <<queue, disturbed>>
    BY <1>9 DEF Step
  <2>2. [job[j] EXCEPT !.step = t] = [job[j] EXCEPT !.step = t, !.status = job[j].status]
    BY <1>2 DEF JobRecords
  <2>3. job' = [job EXCEPT ![j] = [@ EXCEPT !.step = t, !.status = job[j].status]]
    BY <2>1, <2>2
  <2>4. job[j].status \in Statuses /\ "none" \in Statuses /\ t \in {"create", "presence"}
    BY <1>2 DEF JobRecords, Statuses
  <2>5. status' \in Statuses /\ (t = "presence" => job[j].status = status')
    BY <2>1, <2>4, <1>9
  <2> QED BY <2>1, <2>3, <2>4, <2>5, <1>6
<1>10. CASE job[j].step = "presence"
  <2>1. /\ job' = [job EXCEPT ![j] = NoJob] /\ status' = status
        /\ \/ SetQueuePaused(ShouldPause(ReadsConnected, job[j].status))
           \/ paused' = ShouldPause(TRUE, job[j].status) /\ settled' = TRUE /\ disturbed' = TRUE
    BY <1>10 DEF Step
  <2>2. paused' \in BOOLEAN /\ settled' \in BOOLEAN /\ disturbed' \in BOOLEAN
    BY <2>1, <1>1 DEF SetQueuePaused, ShouldPause, TypeOK
  <2>3. ~disturbed' => ~disturbed /\ paused' = ShouldPause(ReadsConnected, job[j].status)
    BY <2>1 DEF SetQueuePaused
  <2>4. ~disturbed => /\ job[j].status = status
                      /\ ReadsConnected <=> \E n \in Nodes : sockets[n] # 0
    BY <1>1, <1>2, <1>10, ReadsSockets DEF Tracks
  <2>5. ~disturbed' => /\ ~disturbed
                       /\ paused' = (status \in {"none", "BREAK"} \/ \A n \in Nodes : sockets[n] = 0)
    BY <2>3, <2>4 DEF ShouldPause
  <2> QED BY <2>1, <2>2, <2>5, <1>1, <1>7 DEF TypeOK
<1>11. CASE job[j].step = "logout"
  <2>1. /\ job' = [job EXCEPT ![j] = [@ EXCEPT !.step = "pause"]] /\ status' = "none"
        /\ UNCHANGED <<queue, disturbed>>
    BY <1>11 DEF Step
  <2>2. [job[j] EXCEPT !.step = "pause"] = [job[j] EXCEPT !.step = "pause", !.status = job[j].status]
    BY <1>2 DEF JobRecords
  <2>3. job' = [job EXCEPT ![j] = [@ EXCEPT !.step = "pause", !.status = job[j].status]]
    BY <2>1, <2>2
  <2>4. job[j].status \in Statuses /\ "none" \in Statuses
    BY <1>2 DEF JobRecords, Statuses
  <2> QED BY <2>1, <2>3, <2>4, <1>6
<1>12. CASE job[j].step = "pause"
  <2>1. /\ job' = [job EXCEPT ![j] = NoJob] /\ status' = status
        /\ SetQueuePaused(ShouldPause(FALSE, job[j].status))
    BY <1>12 DEF Step
  <2>2. /\ paused' \in BOOLEAN /\ settled' \in BOOLEAN /\ disturbed' \in BOOLEAN
        /\ ~disturbed' => ~disturbed /\ paused' = TRUE
    BY <2>1, <1>1 DEF SetQueuePaused, ShouldPause, TypeOK
  <2>3. ~disturbed => status = "none"
    BY <1>1, <1>2, <1>12 DEF Tracks
  <2> QED BY <2>1, <2>2, <2>3, <1>1, <1>7 DEF TypeOK
<1> QED BY <1>2, <1>8, <1>9, <1>10, <1>11, <1>12 DEF JobRecords

LEMMA FailsKeeps == ASSUME PInv, NEW j \in Jobs, Fails(j) PROVE PInv'
<1> USE DEF queue
<1>1. TypeOK /\ Beating /\ Written
  BY DEF PInv
<1>2. /\ job' = [job EXCEPT ![j] = NoJob] /\ disturbed' = TRUE
      /\ UNCHANGED <<sockets, field, left, due, missed, status, queue>>
  BY DEF Fails, presence
<1>3. job' \in [Jobs -> JobRecords \cup {NoJob}]
  BY <1>1, <1>2 DEF TypeOK
<1>4. TypeOK'
  BY <1>1, <1>2, <1>3 DEF TypeOK
<1>5. Beating' /\ Written'
  BY <1>1, <1>2 DEF Beating, Written, Least
<1>6. Tracks' /\ PauseFollows'
  BY <1>2 DEF Tracks, PauseFollows
<1> QED BY <1>4, <1>5, <1>6 DEF PInv

LEMMA PresenceNext == PInv /\ [Next]_vars => PInv'
<1> USE DEF queue
<1> SUFFICES ASSUME PInv, [Next]_vars PROVE PInv'
  OBVIOUS
<1>1. CASE Tick BY <1>1, TickKeeps
<1>2. ASSUME NEW n \in Nodes, Connects(n) PROVE PInv' BY <1>2, ConnectsKeeps
<1>3. ASSUME NEW n \in Nodes, Disconnects(n) PROVE PInv' BY <1>3, DisconnectsKeeps
<1>4. ASSUME NEW n \in Nodes, Heartbeat(n) PROVE PInv' BY <1>4, HeartbeatKeeps
<1>5. ASSUME NEW n \in Nodes, Restarts(n) PROVE PInv' BY <1>5, RestartsKeeps
<1>6. ASSUME NEW n \in Nodes, MarkLoggedOut(n) PROVE PInv'
  BY <1>6, CommandKeeps DEF MarkLoggedOut, Statuses
<1>7. ASSUME NEW n \in Nodes, NEW s \in Statuses, ChangeStatus(n, s) PROVE PInv'
  BY <1>7, CommandKeeps DEF ChangeStatus
<1>8. ASSUME NEW j \in Jobs, Step(j) PROVE PInv' BY <1>8, StepKeeps
<1>9. ASSUME NEW j \in Jobs, Fails(j) PROVE PInv' BY <1>9, FailsKeeps
<1>10. CASE UNCHANGED vars
  BY <1>10 DEF vars, PInv, TypeOK, Beating, Written, Tracks, PauseFollows, Least, Quiet
<1> QED BY <1>1, <1>2, <1>3, <1>4, <1>5, <1>6, <1>7, <1>8, <1>9, <1>10 DEF Next

LEMMA PresenceSafe == Spec => []PInv
  BY PresenceInit, PresenceNext, PTL DEF Spec

(* Type correctness of presence and queue pause. *)
THEOREM PresenceTypes == Spec => []TypeOK
<1>1. PInv => TypeOK BY DEF PInv
<1> QED BY <1>1, PresenceSafe, PTL

(* An agent with a socket on a node whose last write Redis took reads as    *)
(* connected, whatever other nodes write, clear or leave behind             *)
(* (markConnected, markDisconnected, refreshAll): a field written at a      *)
(* heartbeat outlives the next one because it lasts two.                    *)
THEOREM SocketsCount == Spec => []SocketCounts
<1>1. PInv => SocketCounts
  <2> SUFFICES ASSUME PInv, NEW n \in Nodes, sockets[n] > 0, n \notin missed PROVE field[n] > 0
    BY DEF SocketCounts, ReadsConnected
  <2> QED BY PresenceAssumption DEF PInv, Written, Least, TypeOK
<1> QED BY <1>1, PresenceSafe, PTL

(* At rest, once it was set, the queue member is paused exactly when        *)
(* shouldPauseQueue says so of the sockets and the status themselves, as    *)
(* long as jobs have not overlapped and nothing was refused or died.        *)
THEOREM QueueFollows == Spec => []PauseFollows
<1>1. PInv => PauseFollows BY DEF PInv
<1> QED BY <1>1, PresenceSafe, PTL
=============================================================================
