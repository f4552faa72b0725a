------------------------- MODULE CallTransferProofs -------------------------
(***************************************************************************)
(* Transfers for any number of handlers, transfers and failures.           *)
(***************************************************************************)
EXTENDS CallTransfer, TLAPS, FiniteSetTheorems

Procs == Handlers \cup {Expiry}

(* A handler writes a phase first or not at all; the expiry creates nothing. *)
Shaped ==
    \A h \in Procs : \A k \in DOMAIN jobs[h] :
        /\ k # 1 => jobs[h][k].op # "phase"
        /\ h = Expiry => jobs[h][k].op \notin {"row", "cand"}

(* One handler at most is to create a row, or a candidate, there is room    *)
(* for it, and it creates one.                                              *)
Creates(seq, op) ==
    \A h \in Procs : \A k \in DOMAIN jobs[h] : jobs[h][k].op = op =>
        /\ Len(seq) < MaxTransfers
        /\ \A g \in Procs : \A l \in DOMAIN jobs[g] : jobs[g][l].op = op => g = h /\ l = k

(* As long as handlers have not overlapped, one is at work at most and the  *)
(* candidates it is to close are open.                                      *)
Aims ==
    alone => /\ \A g, h \in Procs : jobs[g] # <<>> /\ jobs[h] # <<>> => g = h
             /\ \A h \in Procs : jobs[h] # <<>> /\ jobs[h][1].op = "phase" => jobs[h][1].on \subseteq Open

XInv == TypeOK /\ Shaped /\ Creates(transfers, "row") /\ Creates(cands, "cand") /\ Aims

LEMMA TransferInit == Init => XInv
<1> SUFFICES ASSUME Init PROVE XInv
  OBVIOUS
<1>1. TypeOK
  <2>1. /\ status \in Statuses /\ failures \in 0 .. MaxFailures
        /\ transfers \in Seq([type : Types, result : Results]) /\ Len(transfers) <= MaxTransfers
        /\ cands \in Seq([phase : Phases, old : BOOLEAN]) /\ Len(cands) <= MaxTransfers
        /\ jobs \in [Handlers \cup {Expiry} -> Seq(Writes)]
    BY TransferAssumption DEF Init, Statuses
  <2>2. answered \in BOOLEAN /\ fresh \in BOOLEAN /\ legUp \in BOOLEAN /\ alone \in BOOLEAN
    BY DEF Init
  <2> QED BY <2>1, <2>2 DEF TypeOK
<1>2. \A h \in Procs : jobs[h] = <<>>
  BY DEF Init, Procs
<1>3. Shaped /\ Creates(transfers, "row") /\ Creates(cands, "cand") /\ Aims
  BY <1>2 DEF Shaped, Creates, Aims
<1> QED BY <1>1, <1>3 DEF XInv

(* A handler that starts, whatever it is to write. *)
LEMMA StartsKeeps ==
  ASSUME XInv, NEW h \in Procs, NEW writes \in Seq(Writes), Starts(h, writes),
         \A k \in DOMAIN writes :
            /\ k # 1 => writes[k].op # "phase"
            /\ h = Expiry => writes[k].op \notin {"row", "cand"}
            /\ writes[k].op = "row" =>
                  Room(transfers, "row") /\ \A l \in DOMAIN writes : writes[l].op = "row" => l = k
            /\ writes[k].op = "cand" =>
                  Room(cands, "cand") /\ \A l \in DOMAIN writes : writes[l].op = "cand" => l = k,
         writes # <<>> /\ writes[1].op = "phase" => writes[1].on \subseteq Open
  PROVE  XInv'
<1>1. /\ jobs[h] = <<>> /\ jobs' = [jobs EXCEPT ![h] = writes]
      /\ alone' = (alone /\ \A g \in DOMAIN jobs : jobs[g] = <<>>)
      /\ UNCHANGED <<status, answered, fresh, legUp, transfers, cands, failures>>
  BY DEF Starts, session
<1>2. TypeOK /\ Shaped /\ Creates(transfers, "row") /\ Creates(cands, "cand") /\ Aims
  BY DEF XInv
<1>3. /\ DOMAIN jobs = Procs /\ jobs'[h] = writes
      /\ \A g \in Procs : g # h => jobs'[g] = jobs[g]
  BY <1>1, <1>2 DEF TypeOK, Procs
<1>4. TypeOK'
  <2>1. jobs' \in [Handlers \cup {Expiry} -> Seq(Writes)]
    BY <1>1, <1>2 DEF TypeOK
  <2>2. alone' \in BOOLEAN
    BY <1>1
  <2> QED BY <2>1, <2>2, <1>1, <1>2 DEF TypeOK
<1>5. Shaped'
  BY <1>2, <1>3 DEF Shaped
<1>6. ASSUME NEW seq, NEW op \in {"row", "cand"}, Creates(seq, op),
             \A k \in DOMAIN writes : writes[k].op = op =>
                 Room(seq, op) /\ \A l \in DOMAIN writes : writes[l].op = op => l = k
      PROVE  \A i \in Procs : \A k \in DOMAIN jobs'[i] : jobs'[i][k].op = op =>
                 /\ Len(seq) < MaxTransfers
                 /\ \A g \in Procs : \A l \in DOMAIN jobs'[g] : jobs'[g][l].op = op => g = i /\ l = k
  <2>1. Room(seq, op) => /\ Len(seq) < MaxTransfers
                         /\ \A g \in Procs : \A l \in DOMAIN jobs[g] : jobs[g][l].op # op
    <3> SUFFICES ASSUME Room(seq, op), NEW g \in Procs, NEW l \in DOMAIN jobs[g], jobs[g][l].op = op
                 PROVE  FALSE
      BY DEF Room
    <3>1. CASE g \in Handlers BY <3>1 DEF Room
    <3>2. CASE g = Expiry BY <3>2, <1>2 DEF Shaped
    <3> QED BY <3>1, <3>2 DEF Procs
  <2>2. CASE \E k \in DOMAIN writes : writes[k].op = op
    BY <2>1, <2>2, <1>3, <1>6
  <2>3. CASE \A k \in DOMAIN writes : writes[k].op # op
    BY <2>3, <1>3, <1>6 DEF Creates
  <2> QED BY <2>2, <2>3
<1>7. Creates(transfers, "row")'
  <2>1. \A i \in Procs : \A k \in DOMAIN jobs'[i] : jobs'[i][k].op = "row" =>
          /\ Len(transfers) < MaxTransfers
          /\ \A g \in Procs : \A l \in DOMAIN jobs'[g] : jobs'[g][l].op = "row" => g = i /\ l = k
    BY <1>2, <1>6
  <2> QED BY <2>1, <1>1 DEF Creates
<1>8. Creates(cands, "cand")'
  <2>1. \A i \in Procs : \A k \in DOMAIN jobs'[i] : jobs'[i][k].op = "cand" =>
          /\ Len(cands) < MaxTransfers
          /\ \A g \in Procs : \A l \in DOMAIN jobs'[g] : jobs'[g][l].op = "cand" => g = i /\ l = k
    BY <1>2, <1>6
  <2> QED BY <2>1, <1>1 DEF Creates
<1>9. Aims'
  <2> SUFFICES ASSUME alone'
               PROVE  /\ \A f, g \in Procs : jobs'[f] # <<>> /\ jobs'[g] # <<>> => f = g
                      /\ \A g \in Procs : jobs'[g] # <<>> /\ jobs'[g][1].op = "phase" => jobs'[g][1].on \subseteq Open'
    BY DEF Aims
  <2>1. \A g \in Procs : g # h => jobs'[g] = <<>>
    BY <1>1, <1>3
  <2>2. Open' = Open
    BY <1>1 DEF Open
  <2> QED BY <2>1, <2>2, <1>3
<1> QED BY <1>4, <1>5, <1>7, <1>8, <1>9 DEF XInv

(* Steps that leave the handlers and the phases of candidates alone. *)
LEMMA FrameKeeps ==
  ASSUME XInv, TypeOK', UNCHANGED <<transfers, jobs, alone>>,
         DOMAIN cands' = DOMAIN cands, Len(cands') = Len(cands),
         \A i \in DOMAIN cands : cands'[i].phase = cands[i].phase
  PROVE  XInv'
<1>1. Shaped /\ Creates(transfers, "row") /\ Creates(cands, "cand") /\ Aims
  BY DEF XInv
<1>2. Open' = Open
  BY DEF Open
<1>3. Shaped' /\ Creates(transfers, "row")' /\ Creates(cands, "cand")' /\ Aims'
  BY <1>1, <1>2 DEF Shaped, Creates, Aims
<1> QED BY <1>3 DEF XInv

(* The writes of the handlers are writes. *)
LEMMA WriteTypes ==
  /\ \A type \in Types : Write("row", type, "REQUESTED") \in Writes
  /\ \A to \in Phases : Write("cand", "attended", to) \in Writes
  /\ \A on \in SUBSET (1 .. MaxTransfers), to \in Phases : Write("phase", on, to) \in Writes
  /\ \A type \in Types, to \in Results : Write("close", type, to) \in Writes
  /\ \A k \in 1 .. MaxTransfers, to \in Results : Write("result", k, to) \in Writes
  /\ \A op \in {"status", "touch"}, to \in Statuses : Write(op, "session", to) \in Writes
  /\ Write("restore", "session", "TALKING") \in Writes
  BY DEF Write, Writes

LEMMA WriteFields ==
  \A op, on, to : /\ Write(op, on, to).op = op /\ Write(op, on, to).on = on /\ Write(op, on, to).to = to
  BY DEF Write

(* Sequences of one, two and three writes. *)
LEMMA Short ==
  ASSUME NEW a, NEW b, NEW c
  PROVE  /\ a \in Writes => <<a>> \in Seq(Writes)
         /\ a \in Writes /\ b \in Writes => <<a, b>> \in Seq(Writes)
         /\ a \in Writes /\ b \in Writes /\ c \in Writes => <<a, b, c>> \in Seq(Writes)
         /\ DOMAIN <<a>> = {1} /\ <<a>>[1] = a
         /\ DOMAIN <<a, b>> = {1, 2} /\ <<a, b>>[1] = a /\ <<a, b>>[2] = b
         /\ DOMAIN <<a, b, c>> = {1, 2, 3}
         /\ <<a, b, c>>[1] = a /\ <<a, b, c>>[2] = b /\ <<a, b, c>>[3] = c
  OBVIOUS

LEMMA OpenTypes == TypeOK => /\ OpenCandidate \subseteq Open /\ Open \subseteq 1 .. MaxTransfers
                             /\ OpenCandidate \in SUBSET (1 .. MaxTransfers)
                             /\ Before \in Statuses
  BY TransferAssumption DEF TypeOK, OpenCandidate, Open, Before, Statuses

LEMMA TransferKeeps ==
  ASSUME XInv, NEW h \in Handlers, NEW type \in Types, Transfer(h, type) PROVE XInv'
<1> DEFINE a == Write("row", type, "REQUESTED")
           b == Write("status", "session", "TRANSFERRING")
           c == Write("cand", type, "REQUESTED")
<1>1. /\ a \in Writes /\ b \in Writes /\ (type = "attended" => c \in Writes)
      /\ a.op = "row" /\ b.op = "status" /\ c.op = "cand"
  BY WriteTypes, WriteFields DEF Statuses, Phases
<1>2. Room(transfers, "row") /\ (type = "attended" => Room(cands, "cand"))
  BY DEF Transfer
<1>3. h \in Procs /\ h # Expiry
  BY TransferAssumption DEF Procs, Handlers, Expiry
<1> HIDE DEF a, b, c
<1>4. CASE type = "attended"
  <2>1. Starts(h, <<a, b, c>>)
    BY <1>4 DEF Transfer, a, b, c
  <2> DEFINE w == <<a, b, c>>
  <2>2. w \in Seq(Writes) /\ DOMAIN w = {1, 2, 3} /\ w[1] = a /\ w[2] = b /\ w[3] = c /\ Starts(h, w)
    BY <1>1, <1>4, <2>1, Short
  <2> HIDE DEF w
  <2> QED BY <2>2, <1>1, <1>2, <1>3, <1>4, StartsKeeps
<1>5. CASE type = "blind"
  <2>1. Starts(h, <<a, b>>)
    BY <1>5 DEF Transfer, a, b
  <2> DEFINE w == <<a, b>>
  <2>2. w \in Seq(Writes) /\ DOMAIN w = {1, 2} /\ w[1] = a /\ w[2] = b /\ Starts(h, w)
    BY <1>1, <2>1, Short
  <2> HIDE DEF w
  <2> QED BY <2>2, <1>1, <1>2, <1>3, StartsKeeps
<1> QED BY <1>4, <1>5 DEF Types

LEMMA CancelKeeps ==
  ASSUME XInv, NEW h \in Handlers, CancelAttendedTransfer(h) PROVE XInv'
<1> DEFINE a == Write("phase", OpenCandidate, "FAILED")
           b == Write("close", "attended", "CANCELED")
           c == Write("touch", "session", Before)
<1>1. /\ a \in Writes /\ b \in Writes /\ c \in Writes
      /\ a.op = "phase" /\ a.on \subseteq Open /\ b.op = "close" /\ c.op = "touch"
  BY WriteTypes, WriteFields, OpenTypes DEF XInv, Phases, Results, Types
<1>2. h \in Procs /\ h # Expiry
  BY TransferAssumption DEF Procs, Handlers, Expiry
<1>3. Starts(h, <<a, b, c>>)
  BY DEF CancelAttendedTransfer
<1> HIDE DEF a, b, c
<1> DEFINE w == <<a, b, c>>
<1>4. w \in Seq(Writes) /\ DOMAIN w = {1, 2, 3} /\ w[1] = a /\ w[2] = b /\ w[3] = c /\ Starts(h, w)
  BY <1>1, <1>3, Short
<1> HIDE DEF w
<1> QED BY <1>1, <1>2, <1>4, StartsKeeps

LEMMA CompleteKeeps ==
  ASSUME XInv, NEW h \in Handlers, CompleteAttendedTransfer(h) PROVE XInv'
<1> DEFINE a == Write("touch", "session", "TRANSFERRING")
<1>1. a \in Writes /\ a.op = "touch"
  BY WriteTypes, WriteFields DEF Statuses
<1>2. h \in Procs /\ h # Expiry
  BY TransferAssumption DEF Procs, Handlers, Expiry
<1>3. Starts(h, <<a>>)
  BY DEF CompleteAttendedTransfer
<1> HIDE DEF a
<1> DEFINE w == <<a>>
<1>4. w \in Seq(Writes) /\ DOMAIN w = {1} /\ w[1] = a /\ Starts(h, w)
  BY <1>1, <1>3, Short
<1> HIDE DEF w
<1> QED BY <1>1, <1>2, <1>4, StartsKeeps

LEMMA PickupKeeps ==
  ASSUME XInv, NEW h \in Handlers, Pickup(h) PROVE XInv'
<1> DEFINE a == Write("touch", "session", "RINGING_AGENT")
<1>1. a \in Writes /\ a.op = "touch"
  BY WriteTypes, WriteFields DEF Statuses
<1>2. h \in Procs /\ h # Expiry
  BY TransferAssumption DEF Procs, Handlers, Expiry
<1>3. Starts(h, <<a>>)
  BY DEF Pickup
<1> HIDE DEF a
<1> DEFINE w == <<a>>
<1>4. w \in Seq(Writes) /\ DOMAIN w = {1} /\ w[1] = a /\ Starts(h, w)
  BY <1>1, <1>3, Short
<1> HIDE DEF w
<1> QED BY <1>1, <1>2, <1>4, StartsKeeps

LEMMA EventKeeps ==
  ASSUME XInv, NEW h \in Handlers, NEW type \in Types, TransferEvent(h, type) PROVE XInv'
<1> DEFINE a == Write("phase", OpenCandidate, "COMPLETED")
           b == Write("cand", "attended", "COMPLETED")
           c == Write("close", type, "COMPLETED")
<1>1. /\ a \in Writes /\ b \in Writes /\ c \in Writes
      /\ a.op = "phase" /\ a.on \subseteq Open /\ b.op = "cand" /\ c.op = "close"
  BY WriteTypes, WriteFields, OpenTypes DEF XInv, Phases, Results
<1>2. h \in Procs /\ h # Expiry
  BY TransferAssumption DEF Procs, Handlers, Expiry
<1>3. \/ Starts(h, <<a, c>>)
      \/ Room(cands, "cand") /\ Starts(h, <<b, c>>)
  BY DEF TransferEvent
<1> HIDE DEF a, b, c
<1>4. ASSUME NEW d \in {a, b}, Starts(h, <<d, c>>), d = b => Room(cands, "cand") PROVE XInv'
  <2> DEFINE w == <<d, c>>
  <2>1. w \in Seq(Writes) /\ DOMAIN w = {1, 2} /\ w[1] = d /\ w[2] = c /\ Starts(h, w)
    BY <1>1, <1>4, Short
  <2> HIDE DEF w
  <2> QED BY <2>1, <1>1, <1>2, <1>4, StartsKeeps
<1>5. a # b
  BY <1>1
<1> QED BY <1>3, <1>4, <1>5

LEMMA Cons ==
  ASSUME NEW w \in Writes, NEW s \in Seq(Writes)
  PROVE  /\ <<w>> \o s \in Seq(Writes) /\ Len(<<w>> \o s) = Len(s) + 1 /\ Len(s) \in Nat
         /\ DOMAIN (<<w>> \o s) = 1 .. (Len(s) + 1)
         /\ (<<w>> \o s)[1] = w
         /\ \A k \in 2 .. (Len(s) + 1) : k - 1 \in DOMAIN s /\ (<<w>> \o s)[k] = s[k - 1]
<1>1. <<w>> \in Seq(Writes) /\ Len(<<w>>) = 1 /\ <<w>>[1] = w
  OBVIOUS
<1> QED BY <1>1

LEMMA Uncons ==
  ASSUME NEW s \in Seq(Writes), s # <<>>
  PROVE  /\ Len(s) \in Nat \ {0} /\ DOMAIN s = 1 .. Len(s)
         /\ Head(s) \in Writes /\ Head(s) = s[1]
         /\ Tail(s) \in Seq(Writes) /\ Len(Tail(s)) = Len(s) - 1
         /\ DOMAIN Tail(s) = 1 .. (Len(s) - 1)
         /\ \A k \in 1 .. (Len(s) - 1) : k + 1 \in DOMAIN s /\ Tail(s)[k] = s[k + 1]
  OBVIOUS

LEMMA FunctionIsSeq ==
  ASSUME NEW S, NEW n \in Nat, NEW f \in [1 .. n -> S]
  PROVE  f \in Seq(S) /\ Len(f) = n
<1>1. f \in Seq(S)
  OBVIOUS
<1>2. DOMAIN f = 1 .. n /\ DOMAIN f = 1 .. Len(f) /\ Len(f) \in Nat
  BY <1>1
<1> QED BY <1>1, <1>2

LEMMA SeqIsFunction ==
  ASSUME NEW S, NEW s \in Seq(S)
  PROVE  Len(s) \in Nat /\ s \in [1 .. Len(s) -> S] /\ DOMAIN s = 1 .. Len(s) /\ \A i \in DOMAIN s : s[i] \in S
  OBVIOUS

LEMMA ExpireKeeps == ASSUME XInv, SweepExpired PROVE XInv'
<1> DEFINE expired == {i \in Open : cands[i].old}
           each(k) == IF k % 2 = 1 THEN Write("close", "attended", "EXPIRED")
                                   ELSE Write("restore", "session", "TALKING")
           p == Write("phase", expired, "EXPIRED")
           f == [k \in 1 .. 2 * Cardinality(expired) |-> each(k)]
           w == <<p>> \o f
<1>1. TypeOK /\ Expiry \in Procs
  BY DEF XInv, Procs
<1>2. Cardinality(expired) \in Nat
  <2>1. Open \subseteq 1 .. MaxTransfers
    BY <1>1, OpenTypes
  <2>2. IsFiniteSet(1 .. MaxTransfers)
    BY FS_Interval, TransferAssumption
  <2>3. expired \subseteq 1 .. MaxTransfers
    BY <2>1
  <2>4. IsFiniteSet(expired)
    BY <2>2, <2>3, FS_Subset
  <2> QED BY <2>4, FS_CardinalityType
<1>3. expired \in SUBSET (1 .. MaxTransfers) /\ expired \subseteq Open
  BY <1>1, OpenTypes
<1>4. p \in Writes /\ p.op = "phase" /\ p.on = expired
  BY <1>3, WriteTypes, WriteFields DEF Phases
<1>5. \A k : each(k) \in Writes /\ each(k).op \in {"close", "restore"}
  BY WriteTypes, WriteFields DEF Types, Results
<1>6. Starts(Expiry, w)
  BY DEF SweepExpired
<1> HIDE DEF each, p, expired
<1>7. f \in Seq(Writes) /\ \A k \in DOMAIN f : f[k].op \in {"close", "restore"}
  <2>1. 2 * Cardinality(expired) \in Nat
    BY <1>2
  <2>2. f \in [1 .. 2 * Cardinality(expired) -> Writes]
    BY <1>5
  <2> QED BY <2>1, <2>2, <1>5
<1> HIDE DEF f
<1>8. /\ w \in Seq(Writes) /\ w[1] = p /\ w # <<>>
      /\ \A k \in DOMAIN w : k # 1 => w[k].op \in {"close", "restore"}
  <2>1. /\ w \in Seq(Writes) /\ Len(f) \in Nat /\ DOMAIN w = 1 .. (Len(f) + 1) /\ w[1] = p
        /\ \A k \in 2 .. (Len(f) + 1) : k - 1 \in DOMAIN f /\ w[k] = f[k - 1]
    BY <1>4, <1>7, Cons
  <2> HIDE DEF w
  <2>2. w # <<>>
    BY <2>1
  <2>3. ASSUME NEW k \in DOMAIN w, k # 1 PROVE w[k].op \in {"close", "restore"}
    <3>1. k - 1 \in DOMAIN f /\ w[k] = f[k - 1]
      BY <2>1, <2>3
    <3> QED BY <3>1, <1>7
  <2> QED BY <2>1, <2>2, <2>3
<1> HIDE DEF w
<1> QED BY <1>1, <1>3, <1>4, <1>6, <1>8, StartsKeeps

LEMMA FailKeeps == ASSUME XInv, NEW h \in Procs, Fails(h) PROVE XInv'
<1>1. TypeOK /\ Shaped /\ Creates(transfers, "row") /\ Creates(cands, "cand") /\ Aims
  BY DEF XInv
<1>2. /\ jobs' = [jobs EXCEPT ![h] = <<>>] /\ failures < MaxFailures /\ failures' = failures + 1
      /\ UNCHANGED <<status, answered, fresh, legUp, transfers, cands, alone>>
  BY DEF Fails, session
<1>3. \A g \in Procs : jobs'[g] = IF g = h THEN <<>> ELSE jobs[g]
  BY <1>1, <1>2 DEF TypeOK, Procs
<1>4. TypeOK'
  <2>1. <<>> \in Seq(Writes)
    OBVIOUS
  <2>2. jobs' \in [Handlers \cup {Expiry} -> Seq(Writes)]
    BY <2>1, <1>1, <1>2 DEF TypeOK
  <2>3. failures' \in 0 .. MaxFailures
    BY <1>1, <1>2, TransferAssumption DEF TypeOK
  <2> QED BY <2>2, <2>3, <1>1, <1>2 DEF TypeOK
<1>5. Shaped' /\ Creates(transfers, "row")' /\ Creates(cands, "cand")'
  BY <1>1, <1>2, <1>3 DEF Shaped, Creates
<1>6. Aims'
  BY <1>1, <1>2, <1>3 DEF Aims, Open
<1> QED BY <1>4, <1>5, <1>6 DEF XInv

(* What is left of a job after its first write: the other writes, in their  *)
(* places or one further to the front, and perhaps a write that closes a    *)
(* row or touches the session before them.                                  *)
Moved(h) ==
    \E d \in {0, 1} : \A k \in DOMAIN jobs'[h] :
        \/ k = 1 /\ jobs'[h][k].op \in {"result", "touch"}
        \/ k + d \in DOMAIN jobs[h] /\ k + d # 1 /\ jobs'[h][k] = jobs[h][k + d]

LEMMA JobMoves ==
  ASSUME TypeOK, NEW h \in Procs, jobs[h] # <<>>,
         \/ jobs' = [jobs EXCEPT ![h] = Tail(jobs[h])]
         \/ \E x \in Writes : /\ x.op \in {"result", "touch"}
                              /\ jobs' = [jobs EXCEPT ![h] = <<x>> \o Tail(jobs[h])]
  PROVE  /\ jobs' \in [Handlers \cup {Expiry} -> Seq(Writes)]
         /\ \A g \in Procs : g # h => jobs'[g] = jobs[g]
         /\ Moved(h)
<1> DEFINE s == jobs[h]
<1>1. s \in Seq(Writes) /\ jobs \in [Procs -> Seq(Writes)]
  BY DEF TypeOK, Procs
<1>2. /\ Len(s) \in Nat \ {0} /\ DOMAIN s = 1 .. Len(s)
      /\ Tail(s) \in Seq(Writes) /\ Len(Tail(s)) = Len(s) - 1
      /\ DOMAIN Tail(s) = 1 .. (Len(s) - 1)
      /\ \A k \in 1 .. (Len(s) - 1) : k + 1 \in DOMAIN s /\ Tail(s)[k] = s[k + 1]
  BY <1>1, Uncons
<1>3. CASE jobs' = [jobs EXCEPT ![h] = Tail(s)]
  <2>1. /\ jobs' \in [Procs -> Seq(Writes)] /\ jobs'[h] = Tail(s)
        /\ \A g \in Procs : g # h => jobs'[g] = jobs[g]
    BY <1>1, <1>2, <1>3
  <2>2. \A k \in DOMAIN jobs'[h] : k + 1 \in DOMAIN s /\ k + 1 # 1 /\ jobs'[h][k] = s[k + 1]
    BY <2>1, <1>2
  <2> QED BY <2>1, <2>2 DEF Moved, Procs
<1>4. ASSUME NEW x \in Writes, x.op \in {"result", "touch"}, jobs' = [jobs EXCEPT ![h] = <<x>> \o Tail(s)]
      PROVE  /\ jobs' \in [Procs -> Seq(Writes)]
             /\ \A g \in Procs : g # h => jobs'[g] = jobs[g]
             /\ Moved(h)
  <2> DEFINE n == <<x>> \o Tail(s)
  <2>1. /\ n \in Seq(Writes) /\ DOMAIN n = 1 .. Len(s) /\ n[1] = x
        /\ \A k \in 2 .. Len(s) : k - 1 \in DOMAIN Tail(s) /\ n[k] = Tail(s)[k - 1]
    BY <1>2, Cons
  <2> HIDE DEF n
  <2>2. /\ jobs' \in [Procs -> Seq(Writes)] /\ jobs'[h] = n
        /\ \A g \in Procs : g # h => jobs'[g] = jobs[g]
    BY <1>1, <1>4, <2>1 DEF n
  <2>3. ASSUME NEW k \in 2 .. Len(s) PROVE k + 0 \in DOMAIN s /\ k + 0 # 1 /\ n[k] = s[k + 0]
    <3>1. k - 1 \in 1 .. (Len(s) - 1) /\ n[k] = Tail(s)[k - 1] /\ k \in DOMAIN s /\ k + 0 = k /\ k # 1
      BY <2>1, <1>2
    <3>2. Tail(s)[k - 1] = s[(k - 1) + 1] /\ (k - 1) + 1 = k
      BY <3>1, <1>2
    <3> QED BY <3>1, <3>2
  <2>4. \A k \in DOMAIN jobs'[h] :
          \/ k = 1 /\ jobs'[h][k].op \in {"result", "touch"}
          \/ k + 0 \in DOMAIN s /\ k + 0 # 1 /\ jobs'[h][k] = s[k + 0]
    BY <2>1, <2>2, <2>3, <1>2, <1>4
  <2> QED BY <2>2, <2>4 DEF Moved
<1> QED BY <1>3, <1>4 DEF Procs

(* The handlers after a write of one of them. *)
LEMMA MovedKeeps ==
  ASSUME XInv, NEW h \in Procs, jobs[h] # <<>>, Moved(h), alone' = alone,
         jobs' \in [Procs -> Seq(Writes)],
         \A g \in Procs : g # h => jobs'[g] = jobs[g],
         transfers' \in Seq([type : Types, result : Results]),
         cands' \in Seq([phase : Phases, old : BOOLEAN]),
         Len(transfers') = Len(transfers) \/ jobs[h][1].op = "row",
         Len(cands') = Len(cands) \/ jobs[h][1].op = "cand"
  PROVE  Shaped' /\ Creates(transfers, "row")' /\ Creates(cands, "cand")' /\ Aims'
<1>1. TypeOK /\ Shaped /\ Creates(transfers, "row") /\ Creates(cands, "cand") /\ Aims
  BY DEF XInv
<1>2. PICK d \in {0, 1} : \A k \in DOMAIN jobs'[h] :
        \/ k = 1 /\ jobs'[h][k].op \in {"result", "touch"}
        \/ k + d \in DOMAIN jobs[h] /\ k + d # 1 /\ jobs'[h][k] = jobs[h][k + d]
  BY DEF Moved
<1>3. \A k \in DOMAIN jobs'[h] : jobs'[h][k].op # "phase"
  BY <1>1, <1>2 DEF Shaped
<1>4. Shaped'
  <2>1. ASSUME NEW k \in DOMAIN jobs'[h], h = Expiry PROVE jobs'[h][k].op \notin {"row", "cand"}
    <3>1. CASE jobs'[h][k].op \in {"result", "touch"} BY <3>1
    <3>2. CASE k + d \in DOMAIN jobs[h] /\ jobs'[h][k] = jobs[h][k + d]
      BY <3>2, <2>1, <1>1 DEF Shaped
    <3> QED BY <3>1, <3>2, <1>2
  <2>2. \A g \in Procs : \A k \in DOMAIN jobs'[g] :
          /\ k # 1 => jobs'[g][k].op # "phase"
          /\ g = Expiry => jobs'[g][k].op \notin {"row", "cand"}
    BY <2>1, <1>1, <1>3 DEF Shaped
  <2> QED BY <2>2 DEF Shaped
<1>5. jobs[h] \in Seq(Writes) /\ 1 \in DOMAIN jobs[h]
  BY <1>1, Uncons DEF TypeOK, Procs
<1>6. \A g \in Procs : \A k \in DOMAIN jobs'[g] : k \in Nat
  OBVIOUS
<1>7. ASSUME NEW seq, NEW next, NEW op \in {"row", "cand"}, Creates(seq, op), Len(next) = Len(seq) \/ jobs[h][1].op = op
      PROVE  \A i \in Procs : \A k \in DOMAIN jobs'[i] : jobs'[i][k].op = op =>
                 /\ Len(next) < MaxTransfers
                 /\ \A g \in Procs : \A l \in DOMAIN jobs'[g] : jobs'[g][l].op = op => g = i /\ l = k
  <2>1. ASSUME NEW i \in Procs, NEW k \in DOMAIN jobs'[i], jobs'[i][k].op = op
        PROVE  LET e == IF i = h THEN d ELSE 0
               IN k + e \in DOMAIN jobs[i] /\ jobs[i][k + e].op = op /\ (i = h => k + e # 1)
    <3>1. CASE i = h BY <3>1, <2>1, <1>2, <1>7
    <3>2. CASE i # h
      <4>1. jobs'[i] = jobs[i] /\ jobs[i] \in Seq(Writes) BY <3>2, <1>1 DEF TypeOK, Procs
      <4>2. k \in Nat BY <4>1
      <4> QED BY <3>2, <4>1, <4>2, <2>1
    <3> QED BY <3>1, <3>2
  <2>2. CASE jobs[h][1].op = op
    (* The only write of its kind is done. *)
    <3> SUFFICES ASSUME NEW i \in Procs, NEW k \in DOMAIN jobs'[i], jobs'[i][k].op = op PROVE FALSE
      OBVIOUS
    <3> QED BY <2>1, <2>2, <1>5, <1>7 DEF Creates
  <2>3. CASE jobs[h][1].op # op
    <3> SUFFICES ASSUME NEW i \in Procs, NEW k \in DOMAIN jobs'[i], jobs'[i][k].op = op
                 PROVE  /\ Len(next) < MaxTransfers
                        /\ \A g \in Procs : \A l \in DOMAIN jobs'[g] : jobs'[g][l].op = op => g = i /\ l = k
      OBVIOUS
    <3>1. Len(next) < MaxTransfers
      BY <2>1, <2>3, <1>7 DEF Creates
    <3>2. ASSUME NEW g \in Procs, NEW l \in DOMAIN jobs'[g], jobs'[g][l].op = op PROVE g = i /\ l = k
      <4> DEFINE x == k + (IF i = h THEN d ELSE 0)
                 y == l + (IF g = h THEN d ELSE 0)
      <4>1. x \in DOMAIN jobs[i] /\ jobs[i][x].op = op
        BY <2>1
      <4>2. y \in DOMAIN jobs[g] /\ jobs[g][y].op = op
        BY <2>1, <3>2
      <4> HIDE DEF x, y
      <4>3. g = i /\ y = x
        BY <4>1, <4>2, <1>7 DEF Creates
      <4>4. k \in Nat /\ l \in Nat
        BY <3>2, <1>6
      <4> QED BY <4>3, <4>4 DEF x, y
    <3> QED BY <3>1, <3>2
  <2> QED BY <2>2, <2>3
<1>8. Creates(transfers, "row")'
  <2>1. \A i \in Procs : \A k \in DOMAIN jobs'[i] : jobs'[i][k].op = "row" =>
          /\ Len(transfers') < MaxTransfers
          /\ \A g \in Procs : \A l \in DOMAIN jobs'[g] : jobs'[g][l].op = "row" => g = i /\ l = k
    BY <1>1, <1>7
  <2> QED BY <2>1 DEF Creates
<1>9. Creates(cands, "cand")'
  <2>1. \A i \in Procs : \A k \in DOMAIN jobs'[i] : jobs'[i][k].op = "cand" =>
          /\ Len(cands') < MaxTransfers
          /\ \A g \in Procs : \A l \in DOMAIN jobs'[g] : jobs'[g][l].op = "cand" => g = i /\ l = k
    BY <1>1, <1>7
  <2> QED BY <2>1 DEF Creates
<1>10. Aims'
  <2> SUFFICES ASSUME alone'
               PROVE  /\ \A f, g \in Procs : jobs'[f] # <<>> /\ jobs'[g] # <<>> => f = g
                      /\ \A g \in Procs : jobs'[g] # <<>> => jobs'[g][1].op # "phase"
    BY DEF Aims
  <2>1. \A g \in Procs : g # h => jobs'[g] = <<>>
    BY <1>1 DEF Aims
  <2>2. jobs'[h] # <<>> => 1 \in DOMAIN jobs'[h]
    BY Uncons
  <2> QED BY <2>1, <2>2, <1>3
<1> QED BY <1>4, <1>8, <1>9, <1>10

LEMMA WritingKeeps == ASSUME XInv, NEW h \in Procs, Writing(h) PROVE XInv'
<1> DEFINE w == Head(jobs[h])
           rest == Tail(jobs[h])
           Goes(next) == jobs' = [jobs EXCEPT ![h] = next]
<1>1. TypeOK /\ jobs[h] # <<>> /\ alone' = alone /\ failures' = failures
  BY DEF XInv, Writing
<1>2. jobs[h] \in Seq(Writes) /\ w \in Writes /\ w = jobs[h][1]
  BY <1>1, Uncons DEF TypeOK, Procs
(* The handler moves on, if the rest of the state keeps its type. *)
<1>3. ASSUME \/ Goes(rest)
             \/ \E x \in Writes : x.op \in {"result", "touch"} /\ Goes(<<x>> \o rest),
             status' \in Statuses, fresh' \in BOOLEAN, answered' = answered, legUp' = legUp,
             transfers' \in Seq([type : Types, result : Results]),
             Len(transfers') = Len(transfers) \/ (w.op = "row" /\ Len(transfers') = Len(transfers) + 1),
             cands' \in Seq([phase : Phases, old : BOOLEAN]),
             Len(cands') = Len(cands) \/ (w.op = "cand" /\ Len(cands') = Len(cands) + 1)
      PROVE  XInv'
  <2>1. /\ jobs' \in [Handlers \cup {Expiry} -> Seq(Writes)]
        /\ \A g \in Procs : g # h => jobs'[g] = jobs[g]
        /\ Moved(h)
    BY <1>1, <1>3, JobMoves
  <2>2. jobs' \in [Procs -> Seq(Writes)]
    BY <2>1 DEF Procs
  <2>3. Shaped' /\ Creates(transfers, "row")' /\ Creates(cands, "cand")' /\ Aims'
    BY <2>1, <2>2, <1>1, <1>2, <1>3, MovedKeeps
  <2>4. Len(transfers') <= MaxTransfers /\ Len(cands') <= MaxTransfers
    <3>1. 1 \in DOMAIN jobs[h]
      BY <1>1, <1>2, Uncons
    <3>2. /\ w.op = "row" => Len(transfers) < MaxTransfers
          /\ w.op = "cand" => Len(cands) < MaxTransfers
      BY <3>1, <1>2 DEF XInv, Creates
    <3>3. Len(transfers) \in Nat /\ Len(cands) \in Nat
      BY <1>1 DEF TypeOK
    <3> QED BY <3>2, <3>3, <1>1, <1>3, TransferAssumption DEF TypeOK
  <2>5. TypeOK'
    BY <2>1, <2>4, <1>1, <1>3 DEF TypeOK
  <2> QED BY <2>3, <2>5 DEF XInv
<1>4. /\ transfers \in Seq([type : Types, result : Results]) /\ status \in Statuses /\ fresh \in BOOLEAN
      /\ cands \in Seq([phase : Phases, old : BOOLEAN])
  BY <1>1 DEF TypeOK
<1>5. /\ w.op = "row" => w.on \in Types /\ w.to \in Results
      /\ w.op \in {"cand", "phase"} => w.to \in Phases
      /\ w.op = "close" => w.to \in Results
      /\ w.op = "result" => w.to \in Results
      /\ w.op \in {"status", "touch"} => w.to \in Statuses
  BY <1>2 DEF Writes, Results
<1>6. CASE /\ w.op = "row" /\ Goes(rest) /\ UNCHANGED <<session, cands>>
           /\ transfers' = Append(transfers, [type |-> w.on, result |-> w.to])
  <2>1. [type |-> w.on, result |-> w.to] \in [type : Types, result : Results]
    BY <1>5, <1>6
  <2>2. /\ transfers' \in Seq([type : Types, result : Results])
        /\ Len(transfers') = Len(transfers) + 1
    BY <2>1, <1>4, <1>6
  <2> QED BY <2>2, <1>3, <1>4, <1>6 DEF session
<1>7. CASE /\ w.op = "cand" /\ Goes(rest) /\ UNCHANGED <<session, transfers>>
           /\ cands' = Append(cands, [phase |-> w.to, old |-> FALSE])
  <2>1. [phase |-> w.to, old |-> FALSE] \in [phase : Phases, old : BOOLEAN]
    BY <1>5, <1>7
  <2>2. cands' \in Seq([phase : Phases, old : BOOLEAN]) /\ Len(cands') = Len(cands) + 1
    BY <2>1, <1>4, <1>7
  <2> QED BY <2>2, <1>3, <1>4, <1>7 DEF session
<1>8. CASE /\ w.op = "phase" /\ Goes(rest) /\ UNCHANGED <<session, transfers>>
           /\ cands' = [i \in DOMAIN cands |-> IF i \in w.on THEN [cands[i] EXCEPT !.phase = w.to] ELSE cands[i]]
  <2>1. \A i \in DOMAIN cands : /\ cands[i] \in [phase : Phases, old : BOOLEAN]
                                /\ [cands[i] EXCEPT !.phase = w.to] \in [phase : Phases, old : BOOLEAN]
    <3>1. w.to \in Phases
      BY <1>5, <1>8
    <3>2. \A i \in DOMAIN cands : cands[i] \in [phase : Phases, old : BOOLEAN]
      BY <1>4, SeqIsFunction
    <3>3. \A r \in [phase : Phases, old : BOOLEAN], p \in Phases :
            [r EXCEPT !.phase = p] \in [phase : Phases, old : BOOLEAN]
      OBVIOUS
    <3> QED BY <3>1, <3>2, <3>3
  <2>2. DOMAIN cands = 1 .. Len(cands) /\ Len(cands) \in Nat
    BY <1>4
  <2>3. cands' \in [1 .. Len(cands) -> [phase : Phases, old : BOOLEAN]]
    BY <2>1, <2>2, <1>8
  <2>4. cands' \in Seq([phase : Phases, old : BOOLEAN]) /\ Len(cands') = Len(cands)
    BY <2>2, <2>3, FunctionIsSeq
  <2> QED BY <2>4, <1>3, <1>4, <1>8 DEF session
<1>9. CASE /\ w.op = "close" /\ UNCHANGED <<session, transfers, cands>>
           /\ \/ Goes(rest)
              \/ \E k \in OpenRow(w.on) : Goes(<<Write("result", k, w.to)>> \o rest)
  <2>1. OpenRow(w.on) \subseteq 1 .. MaxTransfers
    BY <1>1, TransferAssumption DEF OpenRow, TypeOK
  <2>2. \A k \in OpenRow(w.on) : Write("result", k, w.to) \in Writes /\ Write("result", k, w.to).op = "result"
    BY <2>1, <1>5, <1>9, WriteTypes, WriteFields
  <2>3. Goes(rest) \/ \E x \in Writes : x.op \in {"result", "touch"} /\ Goes(<<x>> \o rest)
    BY <2>2, <1>9
  <2> QED BY <2>3, <1>3, <1>4, <1>9 DEF session
<1>10. CASE /\ w.op = "result" /\ Goes(rest) /\ UNCHANGED <<session, cands>>
            /\ transfers' = [transfers EXCEPT ![w.on].result = w.to]
  <2>1. DOMAIN transfers = 1 .. Len(transfers) /\ Len(transfers) \in Nat
    BY <1>4
  <2>2. transfers' \in [1 .. Len(transfers) -> [type : Types, result : Results]]
    <3>1. w.to \in Results
      BY <1>5, <1>10
    <3>2. transfers \in [1 .. Len(transfers) -> [type : Types, result : Results]]
      BY <1>4, SeqIsFunction
    <3>3. \A r \in [type : Types, result : Results], p \in Results :
            [r EXCEPT !.result = p] \in [type : Types, result : Results]
      OBVIOUS
    <3> QED BY <3>1, <3>2, <3>3, <1>10
  <2>3. transfers' \in Seq([type : Types, result : Results]) /\ Len(transfers') = Len(transfers)
    BY <2>1, <2>2, FunctionIsSeq
  <2> QED BY <2>3, <1>3, <1>4, <1>10 DEF session
<1>11. CASE /\ w.op \in {"status", "touch"} /\ Goes(rest) /\ status' = w.to
            /\ fresh' = (fresh \/ w.op = "touch") /\ UNCHANGED <<answered, legUp, transfers, cands>>
  <2>1. fresh' \in BOOLEAN
    BY <1>11
  <2> QED BY <2>1, <1>3, <1>4, <1>5, <1>11
<1>12. CASE /\ w.op = "restore" /\ Goes(<<Write("touch", "session", Before)>> \o rest)
            /\ UNCHANGED <<session, transfers, cands>>
  <2>1. Write("touch", "session", Before) \in Writes /\ Write("touch", "session", Before).op = "touch"
    BY <1>1, WriteTypes, WriteFields, OpenTypes
  <2> QED BY <2>1, <1>3, <1>4, <1>12 DEF session
<1> QED BY <1>6, <1>7, <1>8, <1>9, <1>10, <1>11, <1>12 DEF Writing

(* The events of the call and the passing of time. *)
LEMMA CallKeeps ==
  ASSUME XInv,
         \/ Answer \/ Hangup \/ SweepSession \/ SessionAges
         \/ \E i \in DOMAIN cands : CandidateAges(i)
         \/ UNCHANGED vars
  PROVE  /\ XInv'
         /\ UNCHANGED <<transfers, jobs, alone>>
         /\ \A i \in DOMAIN cands : cands'[i].phase = cands[i].phase
<1>1. TypeOK
  BY DEF XInv
<1>2. CASE Answer \/ Hangup \/ SweepSession \/ SessionAges \/ UNCHANGED vars
  <2>1. UNCHANGED <<transfers, cands, jobs, alone, failures>>
    BY <1>2 DEF Answer, Hangup, SweepSession, SessionAges, vars
  <2>2. status' \in Statuses
    BY <1>1, <1>2 DEF Answer, Hangup, SweepSession, SessionAges, vars, TypeOK, Statuses
  <2>3. answered' \in BOOLEAN /\ fresh' \in BOOLEAN /\ legUp' \in BOOLEAN
    BY <1>1, <1>2 DEF Answer, Hangup, SweepSession, SessionAges, vars, TypeOK
  <2>4. TypeOK'
    BY <2>1, <2>2, <2>3, <1>1 DEF TypeOK
  <2>5. XInv'
    BY <2>1, <2>4, FrameKeeps
  <2> QED BY <2>1, <2>5
<1>3. ASSUME NEW i \in DOMAIN cands, CandidateAges(i)
      PROVE  /\ XInv' /\ UNCHANGED <<transfers, jobs, alone>>
             /\ \A k \in DOMAIN cands : cands'[k].phase = cands[k].phase
  <2> DEFINE R == [phase : Phases, old : BOOLEAN]
  <2>1. /\ UNCHANGED <<status, answered, fresh, legUp, transfers, jobs, alone, failures>>
        /\ cands' = [cands EXCEPT ![i].old = TRUE]
    BY <1>3 DEF CandidateAges, session
  <2>2. Len(cands) \in Nat /\ cands \in [1 .. Len(cands) -> R] /\ DOMAIN cands = 1 .. Len(cands)
    <3>1. cands \in Seq(R)
      BY <1>1 DEF TypeOK
    <3> QED BY <3>1, SeqIsFunction
  <2>3. \A r \in R : [r EXCEPT !.old = TRUE] \in R /\ [r EXCEPT !.old = TRUE].phase = r.phase
    OBVIOUS
  <2>4. cands' \in [1 .. Len(cands) -> R] /\ \A k \in DOMAIN cands : cands'[k].phase = cands[k].phase
    BY <2>1, <2>2, <2>3
  <2>5. cands' \in Seq(R) /\ Len(cands') = Len(cands) /\ DOMAIN cands' = DOMAIN cands
    BY <2>2, <2>4, FunctionIsSeq
  <2>6. TypeOK'
    BY <2>1, <2>5, <1>1 DEF TypeOK
  <2>7. XInv'
    BY <2>1, <2>4, <2>5, <2>6, FrameKeeps
  <2> QED BY <2>1, <2>4, <2>7
<1> QED BY <1>2, <1>3

LEMMA TransferNext == XInv /\ [Next]_vars => XInv'
<1> SUFFICES ASSUME XInv, [Next]_vars PROVE XInv'
  OBVIOUS
<1>1. ASSUME NEW h \in Handlers, NEW type \in Types, Transfer(h, type) PROVE XInv' BY <1>1, TransferKeeps
<1>2. ASSUME NEW h \in Handlers, NEW type \in Types, TransferEvent(h, type) PROVE XInv' BY <1>2, EventKeeps
<1>3. ASSUME NEW h \in Handlers, CancelAttendedTransfer(h) PROVE XInv' BY <1>3, CancelKeeps
<1>4. ASSUME NEW h \in Handlers, CompleteAttendedTransfer(h) PROVE XInv' BY <1>4, CompleteKeeps
<1>5. CASE SweepExpired BY <1>5, ExpireKeeps
<1>6. ASSUME NEW h \in Procs, Writing(h) PROVE XInv' BY <1>6, WritingKeeps
<1>7. ASSUME NEW h \in Procs, Fails(h) PROVE XInv' BY <1>7, FailKeeps
<1>8. ASSUME NEW h \in Handlers, Pickup(h) PROVE XInv' BY <1>8, PickupKeeps
<1> QED BY <1>1, <1>2, <1>3, <1>4, <1>5, <1>6, <1>7, <1>8, CallKeeps DEF Next, Procs

LEMMA TransferSafe == Spec => []XInv
  BY TransferInit, TransferNext, PTL DEF Spec

(* Type correctness of sessions, transfers, candidates and handlers. *)
THEOREM TransferTypes == Spec => []TypeOK
<1>1. XInv => TypeOK BY DEF XInv
<1> QED BY <1>1, TransferSafe, PTL

(* The candidates a step may change the phase of. *)
LEMMA PhaseStep ==
  ASSUME XInv, [Next]_vars, alone, NEW i \in DOMAIN cands, cands[i].phase = "COMPLETED"
  PROVE  cands'[i].phase = "COMPLETED"
<1>1. TypeOK
  BY DEF XInv
<1>2. ASSUME NEW h \in Procs, Writing(h) PROVE cands'[i].phase = "COMPLETED"
  <2> DEFINE w == Head(jobs[h])
  <2>1. jobs[h] # <<>> /\ w = jobs[h][1]
    BY <1>1, <1>2, Uncons DEF Writing, TypeOK, Procs
  <2>2. CASE cands' = cands BY <2>2
  <2>3. CASE cands' = Append(cands, [phase |-> w.to, old |-> FALSE])
    BY <2>3, <1>1 DEF TypeOK
  <2>4. CASE /\ w.op = "phase"
             /\ cands' = [k \in DOMAIN cands |-> IF k \in w.on THEN [cands[k] EXCEPT !.phase = w.to] ELSE cands[k]]
    <3>1. w.on \subseteq Open
      BY <2>1, <2>4 DEF XInv, Aims
    <3>2. i \notin w.on
      BY <3>1 DEF Open
    <3> QED BY <3>2, <2>4
  <2> QED BY <2>2, <2>3, <2>4, <1>2 DEF Writing
<1>3. ASSUME \/ \E h \in Handlers : \/ \E type \in Types : Transfer(h, type) \/ TransferEvent(h, type)
                                   \/ CancelAttendedTransfer(h) \/ CompleteAttendedTransfer(h) \/ Pickup(h)
             \/ SweepExpired
             \/ \E h \in Procs : Fails(h)
      PROVE  cands' = cands
  BY <1>3 DEF Transfer, TransferEvent, CancelAttendedTransfer, CompleteAttendedTransfer, Pickup, SweepExpired,
                Fails, Starts
<1> QED BY <1>2, <1>3, CallKeeps DEF Next, Procs

(* A completed transfer is not taken back by a cancellation or by the       *)
(* expiry (getOpenCandidate, sweepExpired), as long as no two handlers have *)
(* overlapped: what a handler is to close was open when it started, and     *)
(* nobody closed it since.                                                  *)
THEOREM CompletedIsKept == Spec => CompletedStays
<1>1. XInv /\ [Next]_vars =>
        [\A i \in DOMAIN cands : cands[i].phase = "COMPLETED" /\ alone => cands'[i].phase = "COMPLETED"]_vars
  BY PhaseStep
<1> QED BY <1>1, TransferSafe, PTL DEF Spec, CompletedStays
=============================================================================
