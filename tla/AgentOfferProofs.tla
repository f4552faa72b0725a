-------------------------- MODULE AgentOfferProofs --------------------------
(***************************************************************************)
(* Safety of the agent offers for any calls, extensions, number of long    *)
(* polls and number of publications that are refused or lost.              *)
(***************************************************************************)
EXTENDS AgentOffer, TLAPS

(* What the publications in flight say of the polls that sent them; a poll *)
(* has one in flight at most, and one that has not asked yet is unresolved.*)
InFlight ==
    /\ \A i \in DOMAIN out : \A p \in out[i][2] :
          /\ of[p] \in Offers
          /\ out[i][1] = "offer" => poll[p] = "opening"
          /\ out[i][1] = "closed" => poll[p] = "closing"
    /\ \A i, j \in DOMAIN out : i # j => out[i][2] \cap out[j][2] = {}
    /\ \A p \in Polls : poll[p] = "idle" => result[p] = "none"

OInv == TypeOK /\ NoWaiterLost /\ AskedOnce /\ InFlight

LEMMA OfferInit == Init => OInv
<1> SUFFICES ASSUME Init PROVE OInv
  OBVIOUS
<1>1. TypeOK
  BY OfferAssumption DEF Init, TypeOK, Decisions, Messages
<1>2. NoWaiterLost /\ AskedOnce /\ InFlight
  BY DEF Init, NoWaiterLost, AskedOnce, InFlight, Open, Decisions
<1> QED BY <1>1, <1>2 DEF OInv

(* Polls that are resolved while they are not in flight. *)
LEMMA ResumeKeeps ==
  ASSUME TypeOK, InFlight, NEW resolved \in SUBSET Polls, Resume(resolved), UNCHANGED of,
         \A p \in resolved : of[p] \in Offers /\ poll[p] \in {"opening", "waiting"},
         \A p \in Polls : result'[p] # result[p] => p \in resolved
  PROVE  /\ InFlight'
         /\ poll' \in [Polls -> {"idle", "opening", "waiting", "closing", "done"}]
         /\ out' \in Seq({"offer", "closed"} \X (SUBSET Polls))
         /\ \A p \in Polls : p \notin resolved => poll'[p] = poll[p]
         /\ \A p \in resolved : poll'[p] = IF poll[p] = "waiting" THEN "closing" ELSE poll[p]
<1> DEFINE ready == {p \in resolved : poll[p] = "waiting"}
           Item == {"offer", "closed"} \X (SUBSET Polls)
<1>1. /\ poll' = [p \in Polls |-> IF p \in ready THEN "closing" ELSE poll[p]]
      /\ out' = IF ready = {} THEN out ELSE Append(out, <<"closed", ready>>)
  BY DEF Resume
<1>2. ready \subseteq Polls /\ out \in Seq(Item)
  BY DEF TypeOK
<1>3. poll' \in [Polls -> {"idle", "opening", "waiting", "closing", "done"}]
  BY <1>1 DEF TypeOK
<1>4. out' \in Seq(Item)
  <2>1. CASE ready = {} BY <2>1, <1>1, <1>2
  <2>2. CASE ready # {}
    <3>1. <<"closed", ready>> \in Item BY <2>2, <1>2
    <3> QED BY <3>1, <2>2, <1>1, <1>2
  <2> QED BY <2>1, <2>2
<1>5. /\ \A p \in Polls : p \notin resolved => poll'[p] = poll[p]
      /\ \A p \in resolved : poll'[p] = IF poll[p] = "waiting" THEN "closing" ELSE poll[p]
  BY <1>1
<1>6. \A i \in DOMAIN out : \A p \in out[i][2] : p \in Polls /\ p \notin ready /\ poll'[p] = poll[p]
  <2> SUFFICES ASSUME NEW i \in DOMAIN out, NEW p \in out[i][2]
               PROVE  p \in Polls /\ p \notin ready /\ poll'[p] = poll[p]
    OBVIOUS
  <2>1. out[i] \in Item BY <1>2
  <2>2. p \in Polls /\ out[i][1] \in {"offer", "closed"} BY <2>1
  <2>3. poll[p] \in {"opening", "closing"} BY <2>2 DEF InFlight
  <2> QED BY <2>2, <2>3, <1>1
<1>7. \A p \in Polls : poll'[p] = "idle" => result'[p] = "none"
  BY <1>1 DEF InFlight, TypeOK
<1>8. InFlight'
  <2>1. CASE ready = {}
    <3>1. out' = out /\ of' = of BY <2>1, <1>1
    <3> QED BY <3>1, <1>6, <1>7 DEF InFlight
  <2>2. CASE ready # {}
    <3>1. out' = Append(out, <<"closed", ready>>) /\ of' = of BY <2>2, <1>1
    <3>2. /\ Len(out') = Len(out) + 1 /\ Len(out) \in Nat
          /\ \A i \in 1 .. Len(out) : out'[i] = out[i]
          /\ out'[Len(out) + 1] = <<"closed", ready>>
          /\ DOMAIN out = 1 .. Len(out) /\ DOMAIN out' = 1 .. (Len(out) + 1)
      BY <3>1, <1>2
    <3>3. ASSUME NEW i \in DOMAIN out', NEW p \in out'[i][2]
          PROVE  /\ of'[p] \in Offers
                 /\ out'[i][1] = "offer" => poll'[p] = "opening"
                 /\ out'[i][1] = "closed" => poll'[p] = "closing"
      <4>1. CASE i \in 1 .. Len(out)
        BY <4>1, <3>1, <3>2, <3>3, <1>6 DEF InFlight
      <4>2. CASE i = Len(out) + 1
        BY <4>2, <3>1, <3>2, <3>3, <1>1, <1>2
      <4> QED BY <4>1, <4>2, <3>2
    <3>4. \A i, j \in DOMAIN out' : i # j => out'[i][2] \cap out'[j][2] = {}
      <4> SUFFICES ASSUME NEW i \in DOMAIN out', NEW j \in DOMAIN out', i # j,
                          NEW p \in out'[i][2], p \in out'[j][2]
                   PROVE  FALSE
        OBVIOUS
      <4>1. CASE i \in 1 .. Len(out) /\ j \in 1 .. Len(out)
        BY <4>1, <3>2 DEF InFlight
      <4>2. CASE i \in 1 .. Len(out) /\ j = Len(out) + 1
        BY <4>2, <3>2, <1>6
      <4>3. CASE i = Len(out) + 1 /\ j \in 1 .. Len(out)
        BY <4>3, <3>2, <1>6
      <4> QED BY <4>1, <4>2, <4>3, <3>2
    <3> QED BY <3>3, <3>4, <1>7 DEF InFlight
  <2> QED BY <2>1, <2>2
<1> QED BY <1>3, <1>4, <1>5, <1>8

(* Settling offers keeps the invariant. *)
LEMMA SettleKeeps ==
  ASSUME OInv, NEW S \in SUBSET Offers, NEW d \in [S -> Decisions], NEW forget \in SUBSET Offers,
         Settle(S, d, forget), UNCHANGED of
  PROVE  /\ pending' \in [Offers -> SUBSET Polls]
         /\ answered' \in [Offers -> Decisions \cup {"none"}]
         /\ poll' \in [Polls -> {"idle", "opening", "waiting", "closing", "done"}]
         /\ result' \in [Polls -> Decisions \cup {"none"}]
         /\ out' \in Seq({"offer", "closed"} \X (SUBSET Polls))
         /\ NoWaiterLost' /\ AskedOnce' /\ InFlight'
<1> USE DEF OInv
<1> DEFINE closed == S \cap Open
           resolved == UNION {pending[o] : o \in closed}
<1>1. /\ pending' = [o \in Offers |-> IF o \in closed THEN {} ELSE pending[o]]
      /\ result' = [p \in Polls |-> IF p \in resolved THEN d[of[p]] ELSE result[p]]
      /\ Resume(resolved)
  BY DEF Settle
<1>2. PICK old \in SUBSET Offers : answered' = [o \in Offers |->
             CASE o \in forget -> "none"
               [] o \in closed \ forget -> d[o]
               [] o \in old \ forget -> "none"
               [] OTHER -> answered[o]]
  BY DEF Settle
<1>3. \A p \in resolved : /\ p \in Polls /\ of[p] \in closed
                          /\ poll[p] \in {"opening", "waiting"} /\ result[p] = "none"
  BY DEF TypeOK, NoWaiterLost
<1>4. \A p \in Polls : result'[p] # result[p] => p \in resolved
  BY <1>1 DEF TypeOK
<1>5. /\ InFlight'
      /\ poll' \in [Polls -> {"idle", "opening", "waiting", "closing", "done"}]
      /\ out' \in Seq({"offer", "closed"} \X (SUBSET Polls))
      /\ \A p \in Polls : p \notin resolved => poll'[p] = poll[p]
      /\ \A p \in resolved : poll'[p] = IF poll[p] = "waiting" THEN "closing" ELSE poll[p]
  <2>1. resolved \in SUBSET Polls BY <1>3
  <2>2. \A p \in resolved : of[p] \in Offers /\ poll[p] \in {"opening", "waiting"} BY <1>3
  <2> HIDE DEF resolved
  <2> QED BY <2>1, <2>2, <1>1, <1>4, ResumeKeeps
<1>6. \A o \in closed : d[o] \in Decisions
  OBVIOUS
<1>7. pending' \in [Offers -> SUBSET Polls]
  BY <1>1 DEF TypeOK
<1>8. answered' \in [Offers -> Decisions \cup {"none"}]
  BY <1>2, <1>6 DEF TypeOK
<1>9. result' \in [Polls -> Decisions \cup {"none"}]
  BY <1>1, <1>3, <1>6 DEF TypeOK
<1>10. NoWaiterLost'
  <2> SUFFICES ASSUME NEW p \in Polls
               PROVE  /\ poll'[p] \in {"opening", "waiting"} /\ result'[p] = "none" => \E o \in Offers : p \in pending'[o]
                      /\ \A o \in Offers : p \in pending'[o] =>
                            of[p] = o /\ poll'[p] \in {"opening", "waiting"} /\ result'[p] = "none"
    BY DEF NoWaiterLost
  <2>1. CASE p \in resolved
    <3>1. result'[p] # "none"
      BY <2>1, <1>1, <1>3, <1>6 DEF Decisions, Presses
    <3>2. \A o \in Offers : p \notin pending'[o]
      BY <2>1, <1>1, <1>3 DEF NoWaiterLost
    <3> QED BY <3>1, <3>2
  <2>2. CASE p \notin resolved
    <3>1. poll'[p] = poll[p] /\ result'[p] = result[p]
      BY <2>2, <1>1, <1>5
    <3>2. \A o \in Offers : p \in pending'[o] <=> p \in pending[o]
      BY <2>2, <1>1
    <3> QED BY <3>1, <3>2 DEF NoWaiterLost
  <2> QED BY <2>1, <2>2
<1>11. AskedOnce'
  <2> SUFFICES ASSUME NEW o \in Offers, answered'[o] \in Decisions \ {"ACCEPT"}
               PROVE  pending'[o] = {}
    BY DEF AskedOnce, Open
  <2>1. CASE o \in closed BY <2>1, <1>1
  <2>2. CASE o \notin closed
    <3>1. "none" \notin Decisions BY DEF Decisions, Presses
    <3>2. answered'[o] \in {"none", answered[o]} BY <2>2, <1>2
    <3>3. answered[o] \in Decisions \ {"ACCEPT"} BY <3>1, <3>2
    <3>4. pending[o] = {} BY <3>3 DEF AskedOnce, Open
    <3> QED BY <3>4, <2>2, <1>1
  <2> QED BY <2>1, <2>2
<1> QED BY <1>5, <1>7, <1>8, <1>9, <1>10, <1>11

(* What Resume does to a poll that alone is dropped, and what the rest of *)
(* the steps do, keeps the invariant.                                     *)
LEMMA RequestKeeps == ASSUME OInv, NEW p \in Polls, NEW o \in Offers, Request(p, o) PROVE OInv'
<1> USE DEF OInv
<1> DEFINE Item == {"offer", "closed"} \X (SUBSET Polls)
<1>1. /\ poll[p] = "idle" /\ answered[o] \in {"none", "ACCEPT"}
      /\ of' = [of EXCEPT ![p] = o] /\ result[p] = "none"
      /\ UNCHANGED <<answered, result, toScreen, screen, toAgi, live, missed>>
  BY DEF Request, InFlight
<1>2. pending' = [pending EXCEPT ![o] = @ \cup {p}]
  BY DEF Request, Open, TypeOK
<1>3. poll' \in {[poll EXCEPT ![p] = "waiting"], [poll EXCEPT ![p] = "opening"]}
  BY DEF Request
<1>4. out \in Seq(Item)
  BY DEF TypeOK
<1>5. \/ out' = out
      \/ out' = Append(out, <<"offer", {p}>>) /\ poll' = [poll EXCEPT ![p] = "opening"]
  BY DEF Request
<1>6. out' \in Seq(Item)
  <2>1. <<"offer", {p}>> \in Item OBVIOUS
  <2> HIDE DEF Item
  <2>2. Append(out, <<"offer", {p}>>) \in Seq(Item) BY <2>1, <1>4
  <2> QED BY <1>4, <1>5, <2>2
<1>7. TypeOK'
  <2>1. pending' \in [Offers -> SUBSET Polls] BY <1>2 DEF TypeOK
  <2>2. poll' \in [Polls -> {"idle", "opening", "waiting", "closing", "done"}] BY <1>3 DEF TypeOK
  <2>3. of' \in [Polls -> Offers \cup {NoOffer}] BY <1>1 DEF TypeOK
  <2> QED BY <1>1, <1>6, <2>1, <2>2, <2>3 DEF TypeOK
<1>8. NoWaiterLost'
  BY <1>1, <1>2, <1>3 DEF NoWaiterLost, TypeOK
<1>9. AskedOnce'
  <2>1. answered[o] \notin Decisions \ {"ACCEPT"} BY <1>1 DEF Decisions, Presses
  <2> QED BY <2>1, <1>1, <1>2 DEF AskedOnce, Open, TypeOK
<1>10. \A i \in DOMAIN out : \A q \in out[i][2] : q # p /\ q \in Polls /\ poll'[q] = poll[q] /\ of'[q] = of[q]
  <2> SUFFICES ASSUME NEW i \in DOMAIN out, NEW q \in out[i][2]
               PROVE  q # p /\ q \in Polls /\ poll'[q] = poll[q] /\ of'[q] = of[q]
    OBVIOUS
  <2>1. out[i] \in Item BY <1>4
  <2>2. q \in Polls /\ poll[q] \in {"opening", "closing"} BY <2>1 DEF InFlight
  <2> QED BY <2>2, <1>1, <1>3 DEF TypeOK
<1>11. \A q \in Polls : poll'[q] = "idle" => result'[q] = "none"
  BY <1>1, <1>3 DEF InFlight, TypeOK
<1>12. InFlight'
  <2>1. CASE out' = out
    BY <2>1, <1>10, <1>11 DEF InFlight
  <2>2. CASE out' = Append(out, <<"offer", {p}>>) /\ poll' = [poll EXCEPT ![p] = "opening"]
    <3>2. /\ Len(out) \in Nat
          /\ \A i \in 1 .. Len(out) : out'[i] = out[i]
          /\ out'[Len(out) + 1] = <<"offer", {p}>>
          /\ DOMAIN out = 1 .. Len(out) /\ DOMAIN out' = 1 .. (Len(out) + 1)
      BY <2>2, <1>4
    <3>3. ASSUME NEW i \in DOMAIN out', NEW q \in out'[i][2]
          PROVE  /\ of'[q] \in Offers
                 /\ out'[i][1] = "offer" => poll'[q] = "opening"
                 /\ out'[i][1] = "closed" => poll'[q] = "closing"
      <4>1. CASE i \in 1 .. Len(out)
        BY <4>1, <3>2, <3>3, <1>10 DEF InFlight
      <4>2. CASE i = Len(out) + 1
        BY <4>2, <2>2, <3>2, <3>3, <1>1 DEF TypeOK
      <4> QED BY <4>1, <4>2, <3>2
    <3>4. \A i, j \in DOMAIN out' : i # j => out'[i][2] \cap out'[j][2] = {}
      <4> SUFFICES ASSUME NEW i \in DOMAIN out', NEW j \in DOMAIN out', i # j,
                          NEW q \in out'[i][2], q \in out'[j][2]
                   PROVE  FALSE
        OBVIOUS
      <4>1. CASE i \in 1 .. Len(out) /\ j \in 1 .. Len(out)
        BY <4>1, <3>2 DEF InFlight
      <4>2. CASE i \in 1 .. Len(out) /\ j = Len(out) + 1
        BY <4>2, <3>2, <1>10
      <4>3. CASE i = Len(out) + 1 /\ j \in 1 .. Len(out)
        BY <4>3, <3>2, <1>10
      <4> QED BY <4>1, <4>2, <4>3, <3>2
    <3> QED BY <3>3, <3>4, <1>11 DEF InFlight
  <2> QED BY <2>1, <2>2, <1>5
<1> QED BY <1>7, <1>8, <1>9, <1>12

LEMMA DropKeeps == ASSUME OInv, NEW p \in Polls, of[p] # NoOffer, Drop(p) PROVE OInv'
<1> USE DEF OInv
<1>1. of[p] \in Offers /\ p \in pending[of[p]] /\ UNCHANGED <<of, toScreen, screen, toAgi, live, missed>>
  BY DEF Drop, TypeOK
<1>2. poll[p] \in {"opening", "waiting"} /\ result[p] = "none"
  BY <1>1 DEF NoWaiterLost
<1>3. CASE pending[of[p]] = {p}
  <2>1. Settle({of[p]}, [x \in {of[p]} |-> "ABANDONED"], {})
    BY <1>3 DEF Drop
  <2>2. [x \in {of[p]} |-> "ABANDONED"] \in [{of[p]} -> Decisions]
    BY DEF Decisions
  <2>3. {of[p]} \in SUBSET Offers /\ {} \in SUBSET Offers /\ UNCHANGED of
    BY <1>1
  <2>4. /\ pending' \in [Offers -> SUBSET Polls]
        /\ answered' \in [Offers -> Decisions \cup {"none"}]
        /\ poll' \in [Polls -> {"idle", "opening", "waiting", "closing", "done"}]
        /\ result' \in [Polls -> Decisions \cup {"none"}]
        /\ out' \in Seq({"offer", "closed"} \X (SUBSET Polls))
        /\ NoWaiterLost' /\ AskedOnce' /\ InFlight'
    <3> HIDE DEF OInv
    <3> QED BY <2>1, <2>2, <2>3, SettleKeeps
  <2> QED BY <1>1, <2>4 DEF TypeOK
<1>4. CASE pending[of[p]] # {p}
  <2>1. /\ pending' = [pending EXCEPT ![of[p]] = @ \ {p}]
        /\ result' = [result EXCEPT ![p] = "ABANDONED"]
        /\ Resume({p}) /\ UNCHANGED answered
    BY <1>4 DEF Drop
  <2>2. \A q \in Polls : result'[q] # result[q] => q \in {p}
    BY <2>1 DEF TypeOK
  <2>3. /\ InFlight'
        /\ poll' \in [Polls -> {"idle", "opening", "waiting", "closing", "done"}]
        /\ out' \in Seq({"offer", "closed"} \X (SUBSET Polls))
        /\ \A q \in Polls : q \notin {p} => poll'[q] = poll[q]
        /\ \A q \in {p} : poll'[q] = IF poll[q] = "waiting" THEN "closing" ELSE poll[q]
    <3> HIDE DEF OInv
    <3>1. TypeOK /\ InFlight BY DEF OInv
    <3>2. UNCHANGED of BY <1>1
    <3>3. \A q \in {p} : of[q] \in Offers /\ poll[q] \in {"opening", "waiting"} BY <1>1, <1>2
    <3> QED BY <3>1, <3>2, <3>3, <2>1, <2>2, ResumeKeeps
  <2>4. TypeOK'
    BY <1>1, <2>1, <2>3 DEF TypeOK, Decisions
  <2>5. NoWaiterLost'
    BY <1>1, <1>2, <2>1, <2>3 DEF NoWaiterLost, TypeOK
  <2>6. AskedOnce'
    BY <1>1, <2>1 DEF AskedOnce, Open, TypeOK
  <2> QED BY <2>3, <2>4, <2>5, <2>6
<1> QED BY <1>3, <1>4

LEMMA ListenKeeps ==
  ASSUME OInv, NEW m \in Messages, Listen(m), UNCHANGED of
  PROVE  /\ pending' \in [Offers -> SUBSET Polls]
         /\ answered' \in [Offers -> Decisions \cup {"none"}]
         /\ poll' \in [Polls -> {"idle", "opening", "waiting", "closing", "done"}]
         /\ result' \in [Polls -> Decisions \cup {"none"}]
         /\ out' \in Seq({"offer", "closed"} \X (SUBSET Polls))
         /\ NoWaiterLost' /\ AskedOnce' /\ InFlight'
<1>1. CASE "ended" \in DOMAIN m
  <2> DEFINE S == {o \in Offers : CallOf(o) = m.ended}
  <2>1. Settle(S, [o \in S |-> "ABANDONED"], S)
    BY <1>1 DEF Listen
  <2>2. [o \in S |-> "ABANDONED"] \in [S -> Decisions]
    BY DEF Decisions
  <2>3. S \in SUBSET Offers OBVIOUS
  <2> HIDE DEF S
  <2> QED BY <2>1, <2>2, <2>3, SettleKeeps
<1>2. CASE "ended" \notin DOMAIN m
  <2> DEFINE siblings == IF m.decision = "ACCEPT"
                         THEN {o \in Offers : CallOf(o) = CallOf(m.offer)} ELSE {}
             S == siblings \cup {m.offer}
             d == [o \in S |-> IF o = m.offer THEN m.decision ELSE "ABANDONED"]
  <2>1. Settle(S, d, {})
    BY <1>2 DEF Listen
  <2>2. m \in [offer : Offers, decision : Presses]
    BY <1>2 DEF Messages
  <2>3. S \in SUBSET Offers BY <2>2
  <2>4. d \in [S -> Decisions]
    BY <2>2 DEF Decisions
  <2>5. {} \in SUBSET Offers OBVIOUS
  <2> HIDE DEF S, d
  <2> QED BY <2>1, <2>3, <2>4, <2>5, SettleKeeps
<1> QED BY <1>1, <1>2

LEMMA PublishKeeps ==
  ASSUME OInv, NEW m \in Messages, NEW pub, PublishToAgi(m, pub), UNCHANGED <<of, toScreen>>,
         screen' \in [Exts -> Offers \cup {NoOffer}], live' \subseteq Calls
  PROVE  OInv'
<1> USE DEF OInv
<1>1. CASE toAgi' = Append(toAgi, m) /\ UNCHANGED <<pending, answered, poll, result, out, missed>>
  <2>1. TypeOK'
    <3>1. toAgi' \in Seq(Messages) BY <1>1 DEF TypeOK
    <3> QED BY <1>1, <3>1 DEF TypeOK
  <2>2. NoWaiterLost' /\ AskedOnce' /\ InFlight'
    BY <1>1 DEF NoWaiterLost, AskedOnce, InFlight, Open
  <2> QED BY <2>1, <2>2
<1>2. CASE /\ missed < MaxMissed /\ missed' = missed + 1 /\ UNCHANGED toAgi
           /\ UNCHANGED <<pending, answered, poll, result, out>>
  <2>1. TypeOK'
    BY <1>2, OfferAssumption DEF TypeOK
  <2>2. NoWaiterLost' /\ AskedOnce' /\ InFlight'
    BY <1>2 DEF NoWaiterLost, AskedOnce, InFlight, Open
  <2> QED BY <2>1, <2>2
<1>3. CASE missed < MaxMissed /\ missed' = missed + 1 /\ UNCHANGED toAgi /\ Listen(m)
  <2>1. missed' \in 0 .. MaxMissed /\ UNCHANGED of
    BY <1>3, OfferAssumption DEF TypeOK
  <2> QED BY <1>3, <2>1, ListenKeeps DEF TypeOK
<1> QED BY <1>1, <1>2, <1>3 DEF PublishToAgi

LEMMA PublishedKeeps == ASSUME OInv, Published PROVE OInv'
<1> USE DEF OInv
<1> DEFINE Item == {"offer", "closed"} \X (SUBSET Polls)
<1>1. PICK p \in Head(out)[2] :
         LET e == ExtOf(of[p])
             m == <<Head(out)[1], of[p]>> IN
         /\ \/ /\ toScreen' = [toScreen EXCEPT ![e] = Append(@, m)]
               /\ UNCHANGED <<screen, missed>>
            \/ /\ missed < MaxMissed
               /\ missed' = missed + 1
               /\ screen' = IF e \in Local THEN [screen EXCEPT ![e] = Shown(@, m)] ELSE screen
               /\ UNCHANGED toScreen
         /\ GoesOn(m[1], p)
  BY DEF Published
<1>2. /\ out \in Seq(Item) /\ out # <<>> /\ Len(out) \in Nat /\ DOMAIN out = 1 .. Len(out)
      /\ 1 \in DOMAIN out /\ Head(out) = out[1] /\ out[1] \in Item
  BY DEF Published, TypeOK
<1>3. p \in Polls /\ of[p] \in Offers /\ out[1][1] \in {"offer", "closed"}
  BY <1>2 DEF InFlight
<1>4. /\ out[1][1] = "offer" => poll[p] = "opening"
      /\ out[1][1] = "closed" => poll[p] = "closing"
  BY <1>2 DEF InFlight
<1>5. UNCHANGED <<pending, answered, toAgi, live>>
  BY DEF Published
<1>6. /\ toScreen' \in [Exts -> Seq({"offer", "closed"} \X Offers)]
      /\ screen' \in [Exts -> Offers \cup {NoOffer}]
      /\ missed' \in 0 .. MaxMissed
  <2> DEFINE e == ExtOf(of[p])
             m == <<out[1][1], of[p]>>
  <2>1. e \in Exts /\ m \in {"offer", "closed"} \X Offers /\ m[2] \in Offers
    BY <1>3 DEF ExtOf, Offers
  <2>2. CASE toScreen' = [toScreen EXCEPT ![e] = Append(@, m)] /\ UNCHANGED <<screen, missed>>
    <3>1. Append(toScreen[e], m) \in Seq({"offer", "closed"} \X Offers)
      BY <2>1 DEF TypeOK
    <3> QED BY <2>2, <3>1 DEF TypeOK
  <2>3. CASE /\ missed < MaxMissed /\ missed' = missed + 1 /\ UNCHANGED toScreen
             /\ screen' = IF e \in Local THEN [screen EXCEPT ![e] = Shown(@, m)] ELSE screen
    <3>1. Shown(screen[e], m) \in Offers \cup {NoOffer}
      BY <2>1 DEF Shown, TypeOK
    <3> QED BY <2>3, <3>1, OfferAssumption DEF TypeOK
  <2> QED BY <1>1, <1>2, <2>2, <2>3
<1> DEFINE rest == Sent(p)
<1>7. /\ rest \in Seq(Item)
      /\ \A i \in DOMAIN rest : \A q \in rest[i][2] : q # p
      /\ \A i \in DOMAIN rest : \E k \in DOMAIN out : rest[i][1] = out[k][1] /\ rest[i][2] \subseteq out[k][2]
      /\ \A i, j \in DOMAIN rest : i # j => rest[i][2] \cap rest[j][2] = {}
  <2>0. \A i \in DOMAIN out : i # 1 => p \notin out[i][2]
    BY <1>2 DEF InFlight
  <2>1. CASE out[1][2] = {p}
    <3>1. rest = Tail(out) BY <2>1, <1>2 DEF Sent
    <3>2. /\ rest \in Seq(Item) /\ DOMAIN rest = 1 .. (Len(out) - 1)
          /\ \A i \in DOMAIN rest : rest[i] = out[i + 1] /\ i + 1 \in DOMAIN out /\ i + 1 # 1 /\ i \in Nat
      BY <3>1, <1>2
    <3> HIDE DEF rest
    <3>3. \A i \in DOMAIN rest : \A q \in rest[i][2] : q # p
      BY <3>2, <2>0
    <3>4. \A i, j \in DOMAIN rest : i # j => rest[i][2] \cap rest[j][2] = {}
      <4> SUFFICES ASSUME NEW i \in DOMAIN rest, NEW j \in DOMAIN rest, i # j
                   PROVE  out[i + 1][2] \cap out[j + 1][2] = {}
        BY <3>2
      <4>1. i + 1 # j + 1 /\ i + 1 \in DOMAIN out /\ j + 1 \in DOMAIN out BY <3>2
      <4> QED BY <4>1 DEF InFlight
    <3> QED BY <3>2, <3>3, <3>4
  <2>2. CASE out[1][2] # {p}
    <3>1. rest = [out EXCEPT ![1] = <<out[1][1], out[1][2] \ {p}>>] BY <2>2, <1>2 DEF Sent
    <3>2. <<out[1][1], out[1][2] \ {p}>> \in Item BY <1>2, <1>3
    <3>3. /\ rest \in Seq(Item) /\ DOMAIN rest = DOMAIN out
          /\ rest[1] = <<out[1][1], out[1][2] \ {p}>>
          /\ \A i \in DOMAIN rest : i # 1 => rest[i] = out[i]
      BY <3>1, <3>2, <1>2
    <3> HIDE DEF rest
    <3>4. \A i \in DOMAIN rest : \A q \in rest[i][2] : q # p
      BY <3>3, <2>0
    <3>5. \A i \in DOMAIN rest : rest[i][1] = out[i][1] /\ rest[i][2] \subseteq out[i][2]
      BY <3>3
    <3>6. \A i, j \in DOMAIN rest : i # j => rest[i][2] \cap rest[j][2] = {}
      BY <3>3, <3>5 DEF InFlight
    <3> QED BY <3>3, <3>4, <3>5, <3>6
  <2> QED BY <2>1, <2>2
<1>8. /\ \A i \in DOMAIN rest : \A q \in rest[i][2] :
            /\ q \in Polls /\ q # p /\ of[q] \in Offers
            /\ rest[i][1] = "offer" => poll[q] = "opening"
            /\ rest[i][1] = "closed" => poll[q] = "closing"
  <2> SUFFICES ASSUME NEW i \in DOMAIN rest, NEW q \in rest[i][2]
               PROVE  /\ q \in Polls /\ q # p /\ of[q] \in Offers
                      /\ rest[i][1] = "offer" => poll[q] = "opening"
                      /\ rest[i][1] = "closed" => poll[q] = "closing"
    OBVIOUS
  <2>1. rest[i] \in Item BY <1>7
  <2>2. PICK k \in DOMAIN out : rest[i][1] = out[k][1] /\ rest[i][2] \subseteq out[k][2] BY <1>7
  <2>3. q \in out[k][2] BY <2>2
  <2> HIDE DEF rest
  <2> QED BY <1>7, <2>1, <2>2, <2>3 DEF InFlight
<1>9. CASE /\ out[1][1] = "offer" /\ result[p] = "none"
           /\ poll' = [poll EXCEPT ![p] = "waiting"] /\ out' = rest /\ UNCHANGED <<of, result>>
  <2> HIDE DEF rest
  <2>1. TypeOK' BY <1>5, <1>6, <1>7, <1>9 DEF TypeOK
  <2>2. NoWaiterLost' BY <1>3, <1>4, <1>5, <1>9 DEF NoWaiterLost, TypeOK
  <2>3. AskedOnce' BY <1>5 DEF AskedOnce, Open
  <2>4. InFlight' BY <1>3, <1>7, <1>8, <1>9 DEF InFlight, TypeOK
  <2> QED BY <2>1, <2>2, <2>3, <2>4
<1>10. CASE /\ out[1][1] = "offer" /\ result[p] # "none"
            /\ poll' = [poll EXCEPT ![p] = "closing"] /\ out' = Append(rest, <<"closed", {p}>>)
            /\ UNCHANGED <<of, result>>
  <2> HIDE DEF rest
  <2>0. <<"closed", {p}>> \in Item BY <1>3
  <2>1. /\ out' \in Seq(Item) /\ Len(rest) \in Nat /\ DOMAIN rest = 1 .. Len(rest)
        /\ DOMAIN out' = 1 .. (Len(rest) + 1)
        /\ \A i \in DOMAIN rest : out'[i] = rest[i]
        /\ out'[Len(rest) + 1] = <<"closed", {p}>>
    BY <2>0, <1>7, <1>10
  <2>2. TypeOK' BY <1>5, <1>6, <2>1, <1>10 DEF TypeOK
  <2>3. NoWaiterLost' BY <1>3, <1>4, <1>5, <1>10 DEF NoWaiterLost, TypeOK
  <2>4. AskedOnce' BY <1>5 DEF AskedOnce, Open
  <2>5. ASSUME NEW i \in DOMAIN out', NEW q \in out'[i][2]
        PROVE  /\ of'[q] \in Offers
               /\ out'[i][1] = "offer" => poll'[q] = "opening"
               /\ out'[i][1] = "closed" => poll'[q] = "closing"
    <3>1. CASE i \in DOMAIN rest BY <3>1, <2>1, <2>5, <1>8, <1>10 DEF TypeOK
    <3>2. CASE i = Len(rest) + 1 BY <3>2, <2>1, <2>5, <1>3, <1>10 DEF TypeOK
    <3> QED BY <3>1, <3>2, <2>1
  <2>6. \A i, j \in DOMAIN out' : i # j => out'[i][2] \cap out'[j][2] = {}
    <3> SUFFICES ASSUME NEW i \in DOMAIN out', NEW j \in DOMAIN out', i # j,
                        NEW q \in out'[i][2], q \in out'[j][2]
                 PROVE  FALSE
      OBVIOUS
    <3>1. CASE i \in DOMAIN rest /\ j \in DOMAIN rest BY <3>1, <2>1, <1>7
    <3>2. CASE i \in DOMAIN rest /\ j = Len(rest) + 1 BY <3>2, <2>1, <1>7
    <3>3. CASE i = Len(rest) + 1 /\ j \in DOMAIN rest BY <3>3, <2>1, <1>7
    <3> QED BY <3>1, <3>2, <3>3, <2>1
  <2>7. \A q \in Polls : poll'[q] = "idle" => result'[q] = "none"
    BY <1>3, <1>10 DEF InFlight, TypeOK
  <2>8. InFlight' BY <2>5, <2>6, <2>7 DEF InFlight
  <2> QED BY <2>2, <2>3, <2>4, <2>8
<1>11. CASE /\ out[1][1] = "closed" /\ poll' = [poll EXCEPT ![p] = "done"] /\ out' = rest
            /\ of' = [of EXCEPT ![p] = NoOffer] /\ result' = [result EXCEPT ![p] = "none"]
  <2> HIDE DEF rest
  <2>1. TypeOK' BY <1>3, <1>5, <1>6, <1>7, <1>11 DEF TypeOK
  <2>2. NoWaiterLost' BY <1>3, <1>4, <1>5, <1>11 DEF NoWaiterLost, TypeOK
  <2>3. AskedOnce' BY <1>5 DEF AskedOnce, Open
  <2>4. InFlight' BY <1>3, <1>7, <1>8, <1>11 DEF InFlight, TypeOK
  <2> QED BY <2>1, <2>2, <2>3, <2>4
<1> QED BY <1>1, <1>2, <1>9, <1>10, <1>11 DEF GoesOn

LEMMA OfferStep == OInv /\ [Next]_vars => OInv'
<1> SUFFICES ASSUME OInv, [Next]_vars PROVE OInv'
  OBVIOUS
<1>1. CASE \E p \in Polls, o \in Offers : Request(p, o)
  BY <1>1, RequestKeeps
<1>2. ASSUME NEW o \in Offers, TimesOut(o) PROVE OInv'
  <2>1. [x \in {o} |-> "TIMEOUT"] \in [{o} -> Decisions]
    BY DEF Decisions
  <2>2. /\ Settle({o}, [x \in {o} |-> "TIMEOUT"], {}) /\ {o} \in SUBSET Offers /\ {} \in SUBSET Offers
        /\ UNCHANGED <<of, toScreen, screen, toAgi, live, missed>>
    BY <1>2 DEF TimesOut
  <2>3. UNCHANGED of BY <2>2
  <2>4. /\ pending' \in [Offers -> SUBSET Polls]
        /\ answered' \in [Offers -> Decisions \cup {"none"}]
        /\ poll' \in [Polls -> {"idle", "opening", "waiting", "closing", "done"}]
        /\ result' \in [Polls -> Decisions \cup {"none"}]
        /\ out' \in Seq({"offer", "closed"} \X (SUBSET Polls))
        /\ NoWaiterLost' /\ AskedOnce' /\ InFlight'
    BY <2>1, <2>2, <2>3, SettleKeeps
  <2> QED BY <2>2, <2>4 DEF OInv, TypeOK
<1>3. CASE \E p \in Polls : of[p] # NoOffer /\ Drop(p)
  BY <1>3, DropKeeps
<1>4. CASE AgiReceives
  <2>1. toAgi \in Seq(Messages) /\ toAgi # <<>>
    BY <1>4 DEF AgiReceives, OInv, TypeOK
  <2>2. Head(toAgi) \in Messages /\ Tail(toAgi) \in Seq(Messages)
    BY <2>1
  <2>3. Listen(Head(toAgi)) /\ toAgi' = Tail(toAgi) /\ UNCHANGED <<of, toScreen, screen, live, missed>>
    BY <1>4 DEF AgiReceives
  <2>4. UNCHANGED of BY <2>3
  <2>5. /\ pending' \in [Offers -> SUBSET Polls]
        /\ answered' \in [Offers -> Decisions \cup {"none"}]
        /\ poll' \in [Polls -> {"idle", "opening", "waiting", "closing", "done"}]
        /\ result' \in [Polls -> Decisions \cup {"none"}]
        /\ out' \in Seq({"offer", "closed"} \X (SUBSET Polls))
        /\ NoWaiterLost' /\ AskedOnce' /\ InFlight'
    BY <2>2, <2>3, <2>4, ListenKeeps
  <2> QED BY <2>2, <2>3, <2>5 DEF OInv, TypeOK
<1>5. ASSUME NEW e \in Exts, NEW d \in Presses, Press(e, d) PROVE OInv'
  <2>1. screen[e] \in Offers
    BY <1>5 DEF Press, OInv, TypeOK
  <2>2. [offer |-> screen[e], decision |-> d] \in Messages
    BY <2>1 DEF Messages
  <2>3. screen' \in [Exts -> Offers \cup {NoOffer}] /\ live' \subseteq Calls
    BY <1>5 DEF Press, OInv, TypeOK
  <2>4. UNCHANGED <<of, toScreen>>
    BY <1>5 DEF Press
  <2>5. PublishToAgi([offer |-> screen[e], decision |-> d], IF e \in Local THEN {"agi"} ELSE {"other"})
    BY <1>5 DEF Press
  <2> QED BY <2>2, <2>3, <2>4, <2>5, PublishKeeps
<1>6. ASSUME NEW c \in Calls, CallEnds(c) PROVE OInv'
  <2>1. [ended |-> c] \in Messages
    BY DEF Messages
  <2>2. screen' \in [Exts -> Offers \cup {NoOffer}] /\ live' \subseteq Calls
    BY <1>6 DEF CallEnds, OInv, TypeOK
  <2>3. UNCHANGED <<of, toScreen>> /\ PublishToAgi([ended |-> c], {"agi", "other"})
    BY <1>6 DEF CallEnds
  <2> QED BY <2>1, <2>2, <2>3, PublishKeeps
<1>7. CASE Published
  BY <1>7, PublishedKeeps
<1>8. ASSUME NEW e \in Exts, ScreenReceives(e) PROVE OInv'
  <2>1. /\ toScreen[e] \in Seq({"offer", "closed"} \X Offers) /\ toScreen[e] # <<>>
        /\ screen' = [screen EXCEPT ![e] = Shown(@, Head(toScreen[e]))]
        /\ toScreen' = [toScreen EXCEPT ![e] = Tail(@)]
        /\ UNCHANGED <<pending, answered, poll, of, result, out, toAgi, live, missed>>
    BY <1>8 DEF ScreenReceives, OInv, TypeOK
  <2>2. Head(toScreen[e])[2] \in Offers /\ Tail(toScreen[e]) \in Seq({"offer", "closed"} \X Offers)
    BY <2>1
  <2>3. Shown(screen[e], Head(toScreen[e])) \in Offers \cup {NoOffer}
    BY <2>2 DEF Shown, OInv, TypeOK
  <2>4. TypeOK'
    BY <2>1, <2>2, <2>3 DEF OInv, TypeOK
  <2>5. NoWaiterLost' /\ AskedOnce' /\ InFlight'
    BY <2>1 DEF OInv, NoWaiterLost, AskedOnce, InFlight, Open
  <2> QED BY <2>4, <2>5 DEF OInv
<1>9. ASSUME NEW e \in Exts, ScreenMisses(e) PROVE OInv'
  <2>1. /\ toScreen[e] \in Seq({"offer", "closed"} \X Offers) /\ toScreen[e] # <<>>
        /\ toScreen' = [toScreen EXCEPT ![e] = Tail(@)]
        /\ missed < MaxMissed /\ missed' = missed + 1
        /\ UNCHANGED <<pending, answered, poll, of, result, out, screen, toAgi, live>>
    BY <1>9 DEF ScreenMisses, OInv, TypeOK
  <2>2. Tail(toScreen[e]) \in Seq({"offer", "closed"} \X Offers)
    BY <2>1
  <2>3. TypeOK'
    BY <2>1, <2>2, OfferAssumption DEF OInv, TypeOK
  <2>4. NoWaiterLost' /\ AskedOnce' /\ InFlight'
    BY <2>1 DEF OInv, NoWaiterLost, AskedOnce, InFlight, Open
  <2> QED BY <2>3, <2>4 DEF OInv
<1>10. CASE AgiMisses
  <2>1. /\ toAgi \in Seq(Messages) /\ toAgi # <<>> /\ toAgi' = Tail(toAgi)
        /\ missed < MaxMissed /\ missed' = missed + 1
        /\ UNCHANGED <<pending, answered, poll, of, result, out, toScreen, screen, live>>
    BY <1>10 DEF AgiMisses, OInv, TypeOK
  <2>2. Tail(toAgi) \in Seq(Messages)
    BY <2>1
  <2>3. TypeOK'
    BY <2>1, <2>2, OfferAssumption DEF OInv, TypeOK
  <2>4. NoWaiterLost' /\ AskedOnce' /\ InFlight'
    BY <2>1 DEF OInv, NoWaiterLost, AskedOnce, InFlight, Open
  <2> QED BY <2>3, <2>4 DEF OInv
<1>11. CASE UNCHANGED vars
  BY <1>11 DEF vars, OInv, TypeOK, NoWaiterLost, AskedOnce, InFlight, Open
<1> QED BY <1>1, <1>2, <1>3, <1>4, <1>5, <1>6, <1>7, <1>8, <1>9, <1>10, <1>11
     DEF Next

(* In every state of the agent offers the variables have their types. *)
THEOREM OfferTypes == Spec => []TypeOK
  BY OfferInit, OfferStep, PTL DEF Spec, OInv

(* No long poll is left waiting outside an open offer: whatever the order  *)
(* of joins, drops, decisions, time-outs and hang-ups, settle and          *)
(* dropWaiter of AgentOfferService reach every unresolved promise.         *)
THEOREM WaitersReachable == Spec => []NoWaiterLost
  BY OfferInit, OfferStep, PTL DEF Spec, OInv

(* An offer with a remembered answer other than ACCEPT is not open: a call *)
(* is not put to the same extension again.                                 *)
THEOREM NotAskedAgain == Spec => []AskedOnce
  BY OfferInit, OfferStep, PTL DEF Spec, OInv
=============================================================================
