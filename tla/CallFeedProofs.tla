--------------------------- MODULE CallFeedProofs ---------------------------
(***************************************************************************)
(* The outbox for any calls, agents and nodes, any batch size, any number  *)
(* of overlapping flushes, rows and incidents.                             *)
(***************************************************************************)
EXTENDS CallFeed, TLAPS, WellFoundedInduction, FiniteSetTheorems

(* A set of naturals has a least element, ... *)
LEMMA OldestIn ==
  ASSUME NEW S, S \subseteq Nat, S # {}
  PROVE  Oldest(S) \in S /\ \A j \in S : Oldest(S) <= j
<1>1. \E i \in S : \A j \in S : ~(<<j, i>> \in OpToRel(<, Nat))
  BY WFMin, NatLessThanWellFounded, Zenon
<1>2. PICK i \in S : \A j \in S : ~(<<j, i>> \in OpToRel(<, Nat))
  BY <1>1
<1>3. \A j \in S : i <= j
  <2> SUFFICES ASSUME NEW j \in S, ~(i <= j) PROVE FALSE
    OBVIOUS
  <2>1. i \in Nat /\ j \in Nat /\ j < i
    OBVIOUS
  <2>2. <<j, i>> \in OpToRel(<, Nat)
    BY <2>1 DEF OpToRel
  <2> QED BY <2>2, <1>2
<1>4. \E k \in S : \A j \in S : k <= j
  BY <1>3
<1> QED BY <1>4, Zenon DEF Oldest

(* ... and a greatest one if it is bounded. *)
LEMMA NewestIn ==
  ASSUME NEW n \in Nat, NEW S, S \subseteq 1 .. n, S # {}
  PROVE  Newest(S) \in S /\ \A j \in S : j <= Newest(S)
<1> DEFINE Bounds == {b \in Nat : \A j \in S : j <= b}
<1>1. Bounds \subseteq Nat /\ n \in Bounds
  OBVIOUS
<1>2. Oldest(Bounds) \in Bounds /\ \A b \in Bounds : Oldest(Bounds) <= b
  BY <1>1, OldestIn
<1>3. PICK m \in Bounds : \A b \in Bounds : m <= b
  BY <1>2
<1>4. m \in S
  <2> SUFFICES ASSUME m \notin S PROVE FALSE
    OBVIOUS
  <2>1. PICK j \in S : TRUE
    OBVIOUS
  <2>2. m \in Nat /\ m >= 1
    BY <2>1
  <2>3. m - 1 \in Nat /\ \A k \in S : k <= m - 1
    BY <2>2
  <2>4. m - 1 \in Bounds
    BY <2>3
  <2> QED BY <2>4, <2>2, <1>3
<1>5. \E k \in S : \A j \in S : j <= k
  BY <1>4
<1> QED BY <1>5, Zenon DEF Newest
----------------------------------------------------------------------------
(* The rows of a call commit in their order; a flush has all the rows of a  *)
(* call that come before one of its own, unless they were published; what   *)
(* it is about to mark was published.                                       *)
InTurn ==
    /\ \A i, j \in Rows : j < i /\ rows[j].call = rows[i].call => j \in visible
    /\ \A t \in Flushes : \A i \in todo[t] : \A j \in Rows :
          j < i /\ rows[j].call = rows[i].call => j \in sent \cup todo[t]
    /\ \A t \in Flushes : step[t] # "idle" => todo[t] # {}
    /\ \A t \in Flushes : step[t] = "mark" => Oldest(todo[t]) \in sent

FInv == TypeOK /\ FirstInOrder /\ InTurn

(* What a desktop shows stays within the types. *)
LEMMA ApplyType ==
  ASSUME TypeOK, NEW m \in Messages, NEW S, Apply(m, S)
  PROVE  /\ screen' \in [Agents -> Calls \cup {NoCall}]
         /\ expecting' \subseteq Agents /\ window' \subseteq Agents
<1>1. m.call \in Calls
  BY DEF Messages
<1>2. screen' = [a \in Agents |-> CASE a \in S /\ Takes(a, m) -> m.call
                                     [] a \in S /\ Releases(a, m) -> NoCall
                                     [] OTHER -> screen[a]]
  BY DEF Apply
<1>3. \A a \in Agents : (CASE a \in S /\ Takes(a, m) -> m.call
                           [] a \in S /\ Releases(a, m) -> NoCall
                           [] OTHER -> screen[a]) \in Calls \cup {NoCall}
  BY <1>1 DEF TypeOK, Takes, Releases
<1>4. expecting' \subseteq Agents /\ window' \subseteq Agents
  BY DEF Apply, TypeOK
<1> QED BY <1>2, <1>3, <1>4

LEMMA PublishType ==
  ASSUME TypeOK, NEW m \in Messages, NEW n \in Nodes, Publish(m, n)
  PROVE  /\ bus' \in Seq(Messages)
         /\ screen' \in [Agents -> Calls \cup {NoCall}]
         /\ expecting' \subseteq Agents /\ window' \subseteq Agents
         /\ refused' \in BOOLEAN /\ incidents' \in 0 .. MaxIncidents
<1>1. CASE bus' = Append(bus, m) /\ UNCHANGED <<screenVars, refused, incidents>>
  BY <1>1 DEF TypeOK, screenVars
<1>2. CASE Incident /\ refused' = TRUE /\ UNCHANGED bus /\ (IF n = Home THEN Apply(m, Agents) ELSE UNCHANGED screenVars)
  <2>1. incidents' \in 0 .. MaxIncidents
    BY <1>2, FeedAssumption DEF TypeOK, Incident
  <2>2. /\ screen' \in [Agents -> Calls \cup {NoCall}]
        /\ expecting' \subseteq Agents /\ window' \subseteq Agents
    <3>1. CASE n = Home BY <3>1, <1>2, ApplyType
    <3>2. CASE n # Home BY <3>2, <1>2 DEF TypeOK, screenVars
    <3> QED BY <3>1, <3>2
  <2> QED BY <2>1, <2>2, <1>2 DEF TypeOK
<1> QED BY <1>1, <1>2 DEF Publish

LEMMA FeedInit == Init => FInv
<1> SUFFICES ASSUME Init PROVE FInv
  OBVIOUS
<1>1. TypeOK
  <2>1. /\ rows \in Seq(Messages) /\ Len(rows) <= MaxRows /\ bus \in Seq(Messages)
        /\ visible \subseteq Rows /\ marked \subseteq visible /\ sent \subseteq visible
        /\ incidents \in 0 .. MaxIncidents
    BY FeedAssumption DEF Init
  <2>2. /\ todo \in [Flushes -> SUBSET visible]
        /\ step \in [Flushes -> {"idle", "publish", "mark"}]
        /\ node \in [Flushes -> Nodes] /\ leads \in SUBSET Nodes
        /\ command \in Messages \cup {<<>>}
        /\ screen \in [Agents -> Calls \cup {NoCall}]
        /\ expecting \subseteq Agents /\ window \subseteq Agents
    BY FeedAssumption DEF Init
  <2>3. raced \in BOOLEAN /\ refused \in BOOLEAN /\ lost \in BOOLEAN
    BY DEF Init
  <2> QED BY <2>1, <2>2, <2>3 DEF TypeOK
<1>2. FirstInOrder /\ InTurn
  BY DEF Init, FirstInOrder, InTurn, Rows
<1> QED BY <1>1, <1>2 DEF FInv

(* A step that touches neither the outbox nor a flush's rows. *)
LEMMA TurnFrame ==
  ASSUME FInv, UNCHANGED <<rows, visible, marked, todo, step, sent>>
  PROVE  FirstInOrder' /\ InTurn'
  BY DEF FInv, FirstInOrder, InTurn, Rows, Oldest

LEMMA EnqueueKeeps == ASSUME FInv, NEW m \in Messages, Enqueue(m) PROVE FInv'
<1> DEFINE n == Len(rows)
<1>1. TypeOK /\ FirstInOrder /\ InTurn
  BY DEF FInv
<1>2. /\ rows' = Append(rows, m) /\ n < MaxRows /\ RowsOf(m.call) \subseteq visible
      /\ UNCHANGED <<visible, marked, todo, step, node, leads, command, sent, bus,
                     screen, expecting, window, refused, lost, incidents>>
  BY DEF Enqueue, flushVars, screenVars
<1>3. /\ rows' \in Seq(Messages) /\ Len(rows') = n + 1 /\ n \in Nat
      /\ Rows = 1 .. n /\ Rows' = 1 .. (n + 1)
      /\ rows'[n + 1] = m /\ \A i \in 1 .. n : rows'[i] = rows[i]
  BY <1>1, <1>2 DEF TypeOK, Rows
<1>4. TypeOK'
  <2>1. Len(rows') <= MaxRows /\ visible' \subseteq Rows'
    BY <1>1, <1>2, <1>3, FeedAssumption DEF TypeOK
  <2>2. raced' \in BOOLEAN
    BY DEF Enqueue
  <2> QED BY <2>1, <2>2, <1>1, <1>2, <1>3 DEF TypeOK
<1>5. /\ visible \subseteq 1 .. n /\ sent \subseteq 1 .. n /\ marked \subseteq 1 .. n
      /\ \A t \in Flushes : todo[t] \subseteq 1 .. n
  BY <1>1, <1>3 DEF TypeOK
<1>6. FirstInOrder'
  <2> SUFFICES ASSUME NEW i \in Rows'
               PROVE  /\ i \in marked => i \in sent
                      /\ i \in sent => \A j \in Rows' : j < i /\ rows'[j].call = rows'[i].call => j \in sent
    BY <1>2 DEF FirstInOrder
  <2>1. CASE i = n + 1 BY <2>1, <1>3, <1>5
  <2>2. CASE i \in 1 .. n BY <2>2, <1>1, <1>3 DEF FirstInOrder
  <2> QED BY <2>1, <2>2, <1>3
<1>7. InTurn'
  <2>1. ASSUME NEW i \in Rows', NEW j \in Rows', j < i, rows'[j].call = rows'[i].call
        PROVE  j \in visible
    <3>1. j \in 1 .. n /\ rows'[j] = rows[j] BY <2>1, <1>3
    <3>2. CASE i = n + 1
      <4>1. j \in RowsOf(m.call) BY <3>1, <3>2, <2>1, <1>3 DEF RowsOf
      <4> QED BY <4>1, <1>2
    <3>3. CASE i \in 1 .. n BY <3>1, <3>3, <2>1, <1>1, <1>3 DEF InTurn
    <3> QED BY <3>2, <3>3, <1>3
  <2>2. ASSUME NEW t \in Flushes, NEW i \in todo[t], NEW j \in Rows', j < i, rows'[j].call = rows'[i].call
        PROVE  j \in sent \cup todo[t]
    <3>1. i \in 1 .. n /\ j \in 1 .. n BY <2>2, <1>3, <1>5
    <3> QED BY <3>1, <2>2, <1>1, <1>3 DEF InTurn
  <2>3. \A t \in Flushes : /\ step[t] # "idle" => todo[t] # {}
                           /\ step[t] = "mark" => Oldest(todo[t]) \in sent
    BY <1>1 DEF InTurn
  <2>4. /\ \A i, j \in Rows' : j < i /\ rows'[j].call = rows'[i].call => j \in visible'
        /\ \A t \in Flushes : \A i \in todo'[t] : \A j \in Rows' :
              j < i /\ rows'[j].call = rows'[i].call => j \in sent' \cup todo'[t]
    BY <2>1, <2>2, <1>2
  <2>5. \A t \in Flushes : /\ step'[t] # "idle" => todo'[t] # {}
                           /\ step'[t] = "mark" => Oldest(todo'[t]) \in sent'
    BY <2>3, <1>2
  <2> QED BY <2>4, <2>5 DEF InTurn
<1> QED BY <1>4, <1>6, <1>7 DEF FInv

(* What a call enqueues is a message. *)
LEMMA ChangesKeep == ASSUME FInv, NEW c \in Calls, CallChanges(c) PROVE FInv'
<1>1. TypeOK
  BY DEF FInv
<1>2. ASSUME RowsOf(c) # {} PROVE Last(c) \in Messages
  <2>1. RowsOf(c) \subseteq 1 .. Len(rows) /\ Len(rows) \in Nat
    BY <1>1 DEF TypeOK, RowsOf, Rows
  <2>2. Newest(RowsOf(c)) \in RowsOf(c)
    BY <2>1, <1>2, NewestIn
  <2> QED BY <2>1, <2>2, <1>1 DEF TypeOK, Last
<1>3. \E m \in Messages : Enqueue(m)
  <2>1. CASE RowsOf(c) = {} /\ Enqueue([call |-> c, kind |-> "created", agent |-> NoAgent])
    <3>1. [call |-> c, kind |-> "created", agent |-> NoAgent] \in Messages
      BY DEF Messages
    <3> QED BY <3>1, <2>1
  <2>2. ASSUME RowsOf(c) # {} PROVE Agents \cup {Last(c).agent} \subseteq Agents \cup {NoAgent}
    BY <2>2, <1>2 DEF Messages
  <2>3. CASE /\ RowsOf(c) # {}
             /\ \E a \in Agents \cup {Last(c).agent} : Enqueue([call |-> c, kind |-> "updated", agent |-> a])
    <3>1. PICK a \in Agents \cup {Last(c).agent} : Enqueue([call |-> c, kind |-> "updated", agent |-> a])
      BY <2>3
    <3>2. [call |-> c, kind |-> "updated", agent |-> a] \in Messages
      BY <2>2, <2>3 DEF Messages
    <3> QED BY <3>1, <3>2
  <2>4. CASE /\ RowsOf(c) # {}
             /\ Enqueue([call |-> c, kind |-> "ended", agent |-> Last(c).agent])
    <3>1. [call |-> c, kind |-> "ended", agent |-> Last(c).agent] \in Messages
      BY <2>2, <2>4 DEF Messages
    <3> QED BY <3>1, <2>4
  <2> QED BY <2>1, <2>3, <2>4 DEF CallChanges
<1> QED BY <1>3, EnqueueKeeps

LEMMA CommitKeeps == ASSUME FInv, NEW i \in Rows, Commit(i) PROVE FInv'
<1>1. TypeOK /\ FirstInOrder /\ InTurn
  BY DEF FInv
<1>2. /\ visible' = visible \cup {i}
      /\ UNCHANGED <<rows, marked, todo, step, node, leads, command, sent, bus,
                     screen, expecting, window, raced, refused, lost, incidents>>
  BY DEF Commit, flushVars, screenVars
<1>3. TypeOK'
  BY <1>1, <1>2 DEF TypeOK, Rows
<1>4. FirstInOrder' /\ InTurn'
  BY <1>1, <1>2 DEF FirstInOrder, InTurn, Rows, Oldest
<1> QED BY <1>3, <1>4 DEF FInv

LEMMA DeliverKeeps ==
  ASSUME FInv, Deliver \/ \E S \in SUBSET Agents : DeliverTo(S)
  PROVE  FInv' /\ UNCHANGED <<rows, visible, marked, todo, step, sent>>
<1>1. TypeOK
  BY DEF FInv
<1>2. PICK S \in SUBSET Agents : Apply(Head(bus), S)
  BY DEF Deliver, DeliverTo
<1>3. /\ bus # <<>> /\ bus' = Tail(bus) /\ lost' \in {lost, TRUE} /\ (Incident \/ UNCHANGED incidents)
      /\ UNCHANGED <<rows, visible, marked, todo, step, node, leads, command, sent, raced, refused>>
  BY DEF Deliver, DeliverTo, outboxVars, flushVars
<1>4. Head(bus) \in Messages /\ bus' \in Seq(Messages)
  BY <1>1, <1>3 DEF TypeOK
<1>5. /\ screen' \in [Agents -> Calls \cup {NoCall}]
      /\ expecting' \subseteq Agents /\ window' \subseteq Agents
  BY <1>1, <1>2, <1>4, ApplyType
<1>6. incidents' \in 0 .. MaxIncidents
  BY <1>1, <1>3, FeedAssumption DEF TypeOK, Incident
<1>7. lost' \in BOOLEAN
  BY <1>1, <1>3 DEF TypeOK
<1>8. TypeOK'
  BY <1>1, <1>3, <1>4, <1>5, <1>6, <1>7 DEF TypeOK, Rows
<1> QED BY <1>3, <1>8, TurnFrame DEF FInv

LEMMA StartKeeps == ASSUME FInv, NEW t \in Flushes, NEW n \in Nodes, StartFlush(t, n) PROVE FInv'
<1>1. TypeOK /\ FirstInOrder /\ InTurn
  BY DEF FInv
<1>2. PICK S \in SUBSET Pending : FirstPending(S) /\ todo' = [todo EXCEPT ![t] = S]
  BY DEF StartFlush
<1>3. /\ Pending # {} /\ step' = [step EXCEPT ![t] = "publish"] /\ node' = [node EXCEPT ![t] = n]
      /\ UNCHANGED <<rows, visible, marked, leads, command, sent, bus,
                     screen, expecting, window, refused, lost, incidents>>
  BY DEF StartFlush, outboxVars, screenVars
<1>4. S \subseteq visible /\ \A i \in S : \A j \in Pending \ S : i < j
  BY <1>2 DEF FirstPending, Pending
<1>5. S # {}
  <2>1. CASE S = Pending BY <2>1, <1>3
  <2>2. CASE Cardinality(S) = Batch
    <3>1. Cardinality({}) = 0 BY FS_EmptySet
    <3> QED BY <3>1, <2>2, FeedAssumption
  <2> QED BY <2>1, <2>2, <1>2 DEF FirstPending
<1>6. TypeOK'
  <2>1. todo' \in [Flushes -> SUBSET visible'] /\ step' \in [Flushes -> {"idle", "publish", "mark"}]
        /\ node' \in [Flushes -> Nodes]
    BY <1>1, <1>2, <1>3, <1>4 DEF TypeOK
  <2>2. raced' \in BOOLEAN
    BY DEF StartFlush
  <2> QED BY <2>1, <2>2, <1>1, <1>3 DEF TypeOK, Rows
<1>7. FirstInOrder'
  BY <1>1, <1>3 DEF FirstInOrder, Rows
<1>8. \A i \in S : \A j \in Rows : j < i /\ rows[j].call = rows[i].call => j \in sent \cup S
  <2> SUFFICES ASSUME NEW i \in S, NEW j \in Rows, j < i, rows[j].call = rows[i].call
               PROVE  j \in sent \cup S
    OBVIOUS
  <2>1. i \in Rows /\ i \in Nat /\ j \in Nat
    BY <1>1, <1>4 DEF TypeOK, Rows
  <2>2. j \in visible
    BY <2>1, <1>1 DEF InTurn
  <2>3. CASE j \in marked BY <2>3, <1>1 DEF FirstInOrder
  <2>4. CASE j \in Pending BY <2>1, <2>4, <1>4
  <2> QED BY <2>2, <2>3, <2>4 DEF Pending
<1>9. InTurn'
  <2>1. /\ todo'[t] = S /\ step'[t] = "publish"
        /\ \A u \in Flushes : u # t => todo'[u] = todo[u] /\ step'[u] = step[u]
    BY <1>1, <1>2, <1>3 DEF TypeOK
  <2>2. \A i, j \in Rows' : j < i /\ rows'[j].call = rows'[i].call => j \in visible'
    BY <1>1, <1>3 DEF InTurn, Rows
  <2>3. \A u \in Flushes : \A i \in todo'[u] : \A j \in Rows' :
          j < i /\ rows'[j].call = rows'[i].call => j \in sent' \cup todo'[u]
    BY <2>1, <1>1, <1>3, <1>8 DEF InTurn, Rows
  <2>4. \A u \in Flushes : /\ step'[u] # "idle" => todo'[u] # {}
                           /\ step'[u] = "mark" => Oldest(todo'[u]) \in sent'
    BY <2>1, <1>1, <1>3, <1>5 DEF InTurn
  <2> QED BY <2>2, <2>3, <2>4 DEF InTurn
<1> QED BY <1>6, <1>7, <1>9 DEF FInv

(* The oldest row of a flush is next; the earlier ones of its call are out. *)
LEMMA OldestRow ==
  ASSUME FInv, NEW t \in Flushes, step[t] # "idle"
  PROVE  /\ Oldest(todo[t]) \in todo[t] /\ Oldest(todo[t]) \in visible
         /\ \A j \in todo[t] : Oldest(todo[t]) <= j
         /\ \A j \in Rows : j < Oldest(todo[t]) /\ rows[j].call = rows[Oldest(todo[t])].call => j \in sent
<1>1. /\ todo[t] \subseteq visible /\ visible \subseteq Rows /\ Rows \subseteq Nat /\ todo[t] # {}
  BY DEF FInv, TypeOK, InTurn, Rows
<1>2. Oldest(todo[t]) \in todo[t] /\ \A j \in todo[t] : Oldest(todo[t]) <= j
  BY <1>1, OldestIn
<1>3. ASSUME NEW j \in Rows, j < Oldest(todo[t]), rows[j].call = rows[Oldest(todo[t])].call
      PROVE  j \in sent
  <2>1. j \in sent \cup todo[t]
    BY <1>2, <1>3 DEF FInv, InTurn
  <2>2. Oldest(todo[t]) \in Nat /\ j \in Nat
    BY <1>1, <1>2
  <2> QED BY <2>1, <2>2, <1>2, <1>3
<1> QED BY <1>1, <1>2, <1>3

LEMMA PublishKeeps == ASSUME FInv, NEW t \in Flushes, PublishRow(t) PROVE FInv'
<1> DEFINE i == Oldest(todo[t])
<1>1. TypeOK /\ FirstInOrder /\ InTurn
  BY DEF FInv
<1>2. /\ step[t] = "publish" /\ step' = [step EXCEPT ![t] = "mark"]
      /\ Publish(rows[i], node[t]) /\ sent' = sent \cup {i}
      /\ UNCHANGED <<rows, visible, marked, todo, node, leads, command, raced, lost>>
  BY DEF PublishRow, outboxVars
<1>3. /\ i \in todo[t] /\ i \in visible
      /\ \A j \in Rows : j < i /\ rows[j].call = rows[i].call => j \in sent
  BY <1>2, OldestRow
<1>4. rows[i] \in Messages /\ node[t] \in Nodes /\ i \in Rows
  BY <1>1, <1>3 DEF TypeOK, Rows
<1>5. /\ bus' \in Seq(Messages)
      /\ screen' \in [Agents -> Calls \cup {NoCall}]
      /\ expecting' \subseteq Agents /\ window' \subseteq Agents
      /\ refused' \in BOOLEAN /\ incidents' \in 0 .. MaxIncidents
  BY <1>1, <1>2, <1>4, PublishType
<1>6. TypeOK'
  BY <1>1, <1>2, <1>3, <1>5 DEF TypeOK, Rows
<1>7. FirstInOrder'
  BY <1>1, <1>2, <1>3 DEF FirstInOrder, Rows
<1>8. InTurn'
  <2>1. /\ step'[t] = "mark" /\ \A u \in Flushes : u # t => step'[u] = step[u]
    BY <1>1, <1>2 DEF TypeOK
  <2>2. \A j, k \in Rows' : k < j /\ rows'[k].call = rows'[j].call => k \in visible'
    BY <1>1, <1>2 DEF InTurn, Rows
  <2>3. \A u \in Flushes : \A j \in todo'[u] : \A k \in Rows' :
          k < j /\ rows'[k].call = rows'[j].call => k \in sent' \cup todo'[u]
    BY <1>1, <1>2 DEF InTurn, Rows
  <2>4. \A u \in Flushes : /\ step'[u] # "idle" => todo'[u] # {}
                           /\ step'[u] = "mark" => Oldest(todo'[u]) \in sent'
    BY <2>1, <1>1, <1>2, <1>3 DEF InTurn
  <2> QED BY <2>2, <2>3, <2>4 DEF InTurn
<1> QED BY <1>6, <1>7, <1>8 DEF FInv

LEMMA MarkKeeps == ASSUME FInv, NEW t \in Flushes, MarkRow(t) PROVE FInv'
<1> DEFINE i == Oldest(todo[t])
<1>1. TypeOK /\ FirstInOrder /\ InTurn
  BY DEF FInv
<1>2. /\ step[t] = "mark" /\ marked' = marked \cup {i}
      /\ todo' = [todo EXCEPT ![t] = @ \ {i}]
      /\ step' = [step EXCEPT ![t] = IF todo[t] = {i} THEN "idle" ELSE "publish"]
      /\ node' = [node EXCEPT ![t] = IF todo[t] = {i} THEN Home ELSE @]
      /\ UNCHANGED <<rows, visible, leads, command, sent, bus,
                     screen, expecting, window, raced, refused, lost, incidents>>
  BY DEF MarkRow, outboxVars, screenVars
<1>3. i \in todo[t] /\ i \in visible /\ i \in sent
  BY <1>1, <1>2, OldestRow DEF InTurn
<1>4. TypeOK'
  <2>1. /\ todo' \in [Flushes -> SUBSET visible'] /\ step' \in [Flushes -> {"idle", "publish", "mark"}]
        /\ node' \in [Flushes -> Nodes] /\ marked' \subseteq visible'
    BY <1>1, <1>2, <1>3, FeedAssumption DEF TypeOK
  <2> QED BY <2>1, <1>1, <1>2 DEF TypeOK, Rows
<1>5. FirstInOrder'
  BY <1>1, <1>2, <1>3 DEF FirstInOrder, Rows
<1>6. InTurn'
  <2>1. /\ todo'[t] = todo[t] \ {i} /\ step'[t] = IF todo[t] = {i} THEN "idle" ELSE "publish"
        /\ \A u \in Flushes : u # t => todo'[u] = todo[u] /\ step'[u] = step[u]
    BY <1>1, <1>2 DEF TypeOK
  <2>2. \A j, k \in Rows' : k < j /\ rows'[k].call = rows'[j].call => k \in visible'
    BY <1>1, <1>2 DEF InTurn, Rows
  <2>3. \A u \in Flushes : \A j \in todo'[u] : \A k \in Rows' :
          k < j /\ rows'[k].call = rows'[j].call => k \in sent' \cup todo'[u]
    BY <2>1, <1>1, <1>2, <1>3 DEF InTurn, Rows
  <2>4. \A u \in Flushes : /\ step'[u] # "idle" => todo'[u] # {}
                           /\ step'[u] = "mark" => Oldest(todo'[u]) \in sent'
    BY <2>1, <1>1, <1>2, <1>3 DEF InTurn
  <2> QED BY <2>2, <2>3, <2>4 DEF InTurn
<1> QED BY <1>4, <1>5, <1>6 DEF FInv

LEMMA FlushFailsKeeps == ASSUME FInv, NEW t \in Flushes, FlushFails(t) PROVE FInv'
<1>1. TypeOK /\ FirstInOrder /\ InTurn
  BY DEF FInv
<1>2. /\ todo' = [todo EXCEPT ![t] = {}] /\ step' = [step EXCEPT ![t] = "idle"]
      /\ node' = [node EXCEPT ![t] = Home] /\ Incident
      /\ UNCHANGED <<rows, visible, marked, leads, command, sent, bus,
                     screen, expecting, window, raced, refused, lost>>
  BY DEF FlushFails, outboxVars, screenVars
<1>3. TypeOK'
  <2>1. /\ todo' \in [Flushes -> SUBSET visible'] /\ step' \in [Flushes -> {"idle", "publish", "mark"}]
        /\ node' \in [Flushes -> Nodes] /\ incidents' \in 0 .. MaxIncidents
    BY <1>1, <1>2, FeedAssumption DEF TypeOK, Incident
  <2> QED BY <2>1, <1>1, <1>2 DEF TypeOK, Rows
<1>4. FirstInOrder'
  BY <1>1, <1>2 DEF FirstInOrder, Rows
<1>5. InTurn'
  <2>1. /\ todo'[t] = {} /\ step'[t] = "idle"
        /\ \A u \in Flushes : u # t => todo'[u] = todo[u] /\ step'[u] = step[u]
    BY <1>1, <1>2 DEF TypeOK
  <2>2. /\ \A j, k \in Rows' : k < j /\ rows'[k].call = rows'[j].call => k \in visible'
        /\ \A u \in Flushes : \A j \in todo'[u] : \A k \in Rows' :
              k < j /\ rows'[k].call = rows'[j].call => k \in sent' \cup todo'[u]
    BY <2>1, <1>1, <1>2 DEF InTurn, Rows
  <2>3. \A u \in Flushes : /\ step'[u] # "idle" => todo'[u] # {}
                           /\ step'[u] = "mark" => Oldest(todo'[u]) \in sent'
    BY <2>1, <1>1, <1>2 DEF InTurn
  <2> QED BY <2>2, <2>3 DEF InTurn
<1> QED BY <1>3, <1>4, <1>5 DEF FInv

(* Commands, leaders and dialling do not touch the outbox. *)
LEMMA OthersKeep ==
  ASSUME FInv,
         \/ \E S \in SUBSET Nodes : LeadershipMoves(S)
         \/ \E c \in Calls : CommandReads(c)
         \/ \E n \in Nodes : CommandPublishes(n)
         \/ \E a \in Agents : Dial(a) \/ WindowEnds(a)
  PROVE  FInv' /\ UNCHANGED <<rows, visible, marked, todo, step, sent>>
<1>1. TypeOK
  BY DEF FInv
<1>2. Incident => incidents' \in 0 .. MaxIncidents
  BY <1>1, FeedAssumption DEF Incident, TypeOK
<1>3. TypeOK' /\ UNCHANGED <<rows, visible, marked, todo, step, sent>>
  <2>1. ASSUME NEW S \in SUBSET Nodes, LeadershipMoves(S)
        PROVE  TypeOK' /\ UNCHANGED <<rows, visible, marked, todo, step, sent>>
    BY <2>1, <1>1, <1>2 DEF LeadershipMoves, TypeOK, outboxVars, screenVars, Rows
  <2>2. ASSUME NEW c \in Calls, CommandReads(c)
        PROVE  TypeOK' /\ UNCHANGED <<rows, visible, marked, todo, step, sent>>
    <3> DEFINE m == Last(c)
    <3>1. /\ RowsOf(c) # {} /\ command' = [m EXCEPT !.kind = "updated"] /\ Incident
          /\ UNCHANGED <<rows, visible, marked, todo, step, node, leads, sent, bus,
                         screen, expecting, window, raced, refused, lost>>
      BY <2>2 DEF CommandReads, outboxVars, flushVars, screenVars
    <3>2. RowsOf(c) \subseteq 1 .. Len(rows) /\ Len(rows) \in Nat
      BY <1>1 DEF TypeOK, RowsOf, Rows
    <3>3. Newest(RowsOf(c)) \in RowsOf(c)
      BY <3>1, <3>2, NewestIn
    <3>4. m \in Messages
      BY <3>2, <3>3, <1>1 DEF TypeOK, Last
    <3>5. command' \in Messages
      BY <3>1, <3>4 DEF Messages
    <3> QED BY <3>1, <3>5, <1>1, <1>2 DEF TypeOK, Rows
  <2>3. ASSUME NEW n \in Nodes, CommandPublishes(n)
        PROVE  TypeOK' /\ UNCHANGED <<rows, visible, marked, todo, step, sent>>
    <3>1. /\ command # <<>> /\ Publish(command, n) /\ command' = <<>>
          /\ UNCHANGED <<rows, visible, marked, todo, step, node, leads, sent, lost>>
      BY <2>3 DEF CommandPublishes, outboxVars, flushVars
    <3>2. raced' \in BOOLEAN
      BY <2>3 DEF CommandPublishes
    <3>3. command \in Messages
      BY <3>1, <1>1 DEF TypeOK
    <3>4. /\ bus' \in Seq(Messages)
          /\ screen' \in [Agents -> Calls \cup {NoCall}]
          /\ expecting' \subseteq Agents /\ window' \subseteq Agents
          /\ refused' \in BOOLEAN /\ incidents' \in 0 .. MaxIncidents
      BY <3>1, <3>3, <1>1, PublishType
    <3> QED BY <3>1, <3>2, <3>4, <1>1 DEF TypeOK, Rows
  <2>4. ASSUME NEW a \in Agents, Dial(a) \/ WindowEnds(a)
        PROVE  TypeOK' /\ UNCHANGED <<rows, visible, marked, todo, step, sent>>
    <3>1. /\ UNCHANGED <<rows, visible, marked, todo, step, node, leads, command, sent, bus, screen,
                         raced, refused, lost>>
          /\ Incident \/ incidents' = incidents
          /\ expecting' \subseteq expecting \cup {a} /\ window' \subseteq window \cup {a}
      BY <2>4 DEF Dial, WindowEnds, outboxVars, flushVars
    <3> QED BY <3>1, <1>1, <1>2 DEF TypeOK, Rows
  <2> QED BY <2>1, <2>2, <2>3, <2>4
<1> QED BY <1>3, TurnFrame DEF FInv

LEMMA FeedNext == FInv /\ [Next]_vars => FInv'
<1> SUFFICES ASSUME FInv, [Next]_vars PROVE FInv'
  OBVIOUS
<1>1. ASSUME NEW c \in Calls, CallChanges(c) PROVE FInv' BY <1>1, ChangesKeep
<1>2. ASSUME NEW i \in Rows, Commit(i) PROVE FInv' BY <1>2, CommitKeeps
<1>3. ASSUME NEW t \in Flushes, PublishRow(t) PROVE FInv' BY <1>3, PublishKeeps
<1>4. ASSUME NEW t \in Flushes, MarkRow(t) PROVE FInv' BY <1>4, MarkKeeps
<1>5. ASSUME NEW t \in Flushes, FlushFails(t) PROVE FInv' BY <1>5, FlushFailsKeeps
<1>6. ASSUME NEW t \in Flushes, NEW n \in Nodes, StartFlush(t, n) PROVE FInv' BY <1>6, StartKeeps
<1>7. CASE Deliver \/ \E S \in SUBSET Agents : DeliverTo(S) BY <1>7, DeliverKeeps
<1>8. CASE UNCHANGED vars
  <2>1. FirstInOrder' /\ InTurn' BY <1>8, TurnFrame DEF vars
  <2>2. TypeOK' BY <1>8 DEF vars, FInv, TypeOK, Rows
  <2> QED BY <2>1, <2>2 DEF FInv
<1> QED BY <1>1, <1>2, <1>3, <1>4, <1>5, <1>6, <1>7, <1>8, OthersKeep DEF Next

LEMMA FeedSafe == Spec => []FInv
  BY FeedInit, FeedNext, PTL DEF Spec

(* Type correctness of the outbox, the flushes, the bus and the desktops. *)
THEOREM FeedTypes == Spec => []TypeOK
<1>1. FInv => TypeOK BY DEF FInv
<1> QED BY <1>1, FeedSafe, PTL

(* The rows of a call are published for the first time in their order, and  *)
(* only published rows are marked, however many flushes of however many     *)
(* nodes overlap, fail or lose the leadership (flush of                     *)
(* OutboxPublisherService).                                                 *)
THEOREM FirstOrder == Spec => []FirstInOrder
<1>1. FInv => FirstInOrder BY DEF FInv
<1> QED BY <1>1, FeedSafe, PTL

(* A commit accepts a row, its first publication delivers it, and every     *)
(* other step stutters.                                                     *)
LEMMA OutboxStep == FInv /\ [Next]_vars => [Outbox!Next]_<<visible \ sent, sent>>
<1> SUFFICES ASSUME FInv, [Next]_vars
             PROVE  Outbox!Next \/ UNCHANGED <<visible \ sent, sent>>
  OBVIOUS
<1>1. TypeOK
  BY DEF FInv
<1>2. \A i \in Rows : i \in 1 .. MaxRows
  BY <1>1, FeedAssumption DEF TypeOK, Rows
<1>3. ASSUME NEW i \in Rows, Commit(i) PROVE Outbox!Next
  <2>1. i \notin visible /\ visible' = visible \cup {i} /\ sent' = sent
    BY <1>3 DEF Commit
  <2>2. i \notin (visible \ sent) \cup sent /\ visible' \ sent' = (visible \ sent) \cup {i}
    BY <2>1, <1>1 DEF TypeOK
  <2> QED BY <2>1, <2>2, <1>2 DEF Outbox!Next, Outbox!Accept
<1>4. ASSUME NEW t \in Flushes, PublishRow(t)
      PROVE  Outbox!Next \/ UNCHANGED <<visible \ sent, sent>>
  <2> DEFINE i == Oldest(todo[t])
  <2>1. sent' = sent \cup {i} /\ visible' = visible /\ step[t] # "idle"
    BY <1>4 DEF PublishRow, outboxVars
  <2>2. i \in visible /\ i \in 1 .. MaxRows
    BY <2>1, <1>1, <1>2, OldestRow DEF TypeOK
  <2>3. CASE i \in sent BY <2>1, <2>3
  <2>4. CASE i \notin sent
    <3>1. i \in visible \ sent /\ visible' \ sent' = (visible \ sent) \ {i}
      BY <2>1, <2>2, <2>4
    <3> QED BY <3>1, <2>1, <2>2 DEF Outbox!Next, Outbox!Deliver
  <2> QED BY <2>3, <2>4
<1>5. ASSUME NEW c \in Calls, CallChanges(c) PROVE UNCHANGED <<visible, sent>>
  BY <1>5 DEF CallChanges, Enqueue
<1>6. ASSUME NEW t \in Flushes, MarkRow(t) \/ FlushFails(t) PROVE UNCHANGED <<visible, sent>>
  BY <1>6 DEF MarkRow, FlushFails, outboxVars
<1>7. ASSUME NEW t \in Flushes, NEW n \in Nodes, StartFlush(t, n) PROVE UNCHANGED <<visible, sent>>
  BY <1>7 DEF StartFlush, outboxVars
<1>8. ASSUME Deliver \/ (\E S \in SUBSET Agents : DeliverTo(S)) \/ UNCHANGED vars
      PROVE  UNCHANGED <<visible, sent>>
  BY <1>8, DeliverKeeps DEF vars
<1> QED BY <1>3, <1>4, <1>5, <1>6, <1>7, <1>8, OthersKeep DEF Next

(* The outbox with its overlapping flushes implements the safety half of    *)
(* ReliableDelivery: a committed row waits until it is published, and no    *)
(* error, crash of a flush or change of leader makes it disappear.          *)
THEOREM OutboxImplements == Spec => Outbox!Init /\ [][Outbox!Next]_<<visible \ sent, sent>>
<1>1. Init => Outbox!Init
  BY DEF Init, Outbox!Init
<1> QED BY <1>1, OutboxStep, FeedSafe, PTL DEF Spec
=============================================================================
