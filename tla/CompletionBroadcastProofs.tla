--------------------- MODULE CompletionBroadcastProofs ---------------------
(***************************************************************************)
(* Proofs about CompletionBroadcast, for every number of events, clients   *)
(* and completions, and any number of failed passes and restarts.          *)
(***************************************************************************)
EXTENDS CompletionBroadcast, TLAPS

-----------------------------------------------------------------------------
(* Type correctness.                                                       *)

LEMMA InitTypeOK == Init => TypeOK
<1> SUFFICES ASSUME Init PROVE TypeOK
  OBVIOUS
<1>1. 0 \in Stamps
  BY BoundsAssumption DEF Stamps
<1> QED
  BY <1>1, BoundsAssumption DEF Init, TypeOK, Stamps, Nothing, Broadcasters

LEMMA StepTypeOK == TypeOK /\ [Next]_vars => TypeOK'
<1> SUFFICES ASSUME TypeOK, [Next]_vars PROVE TypeOK'
  OBVIOUS
<1> USE BoundsAssumption DEF TypeOK, records, channel, Broadcasters
<1>1. CASE UNCHANGED vars
  BY <1>1 DEF vars
<1>2. ASSUME NEW e \in Events PROVE /\ Complete(e) => TypeOK'
                                    /\ Overwrite(e) => TypeOK'
                                    /\ Visit(e) => TypeOK'
  <2>1. CASE Complete(e)
    <3>1. clock' \in Stamps /\ record' \in [Events -> 0..clock']
      BY <2>1 DEF Complete, Stamps
    <3> QED
      BY <2>1, <3>1 DEF Complete
  <2>2. CASE Overwrite(e)
    <3>1. record' \in [Events -> 0..clock]
      BY <2>2 DEF Overwrite, Stamps
    <3> QED
      BY <2>2, <3>1 DEF Overwrite
  <2>3. CASE Visit(e)
    <3>1. record[e] \in Stamps
      BY DEF Stamps
    <3>2. CASE News(e)
      <4>1. announced' \in [Events -> Stamps]
        BY <2>3, <3>1, <3>2 DEF Visit, Stamp
      <4>2. sending' \in [Broadcasters -> SUBSET Conns] /\ sending'["watcher"] = conns
        BY <2>3, <3>2 DEF Visit, StartBroadcast
      <4>3. /\ message' \in Messages \cup {Nothing}
            /\ conns # {} => message' \in Messages
        BY <2>3, <3>1, <3>2 DEF Visit, Stamp, Messages
      <4> QED
        BY <2>3, <3>2, <4>1, <4>2, <4>3 DEF Visit, StartBroadcast
    <3>3. CASE ~News(e)
      BY <2>3, <3>3 DEF Visit
    <3> QED
      BY <3>2, <3>3
  <2> QED
    BY <2>1, <2>2, <2>3
<1>3. ASSUME NEW c \in Conns PROVE /\ Connect(c) => TypeOK'
                                   /\ Close(c) => TypeOK'
                                   /\ Disconnect(c) => TypeOK'
  BY DEF Connect, Close, Disconnect
<1>4. ASSUME NEW b \in Broadcasters, NEW c \in Conns, Send(b, c) PROVE TypeOK'
  <2> PICK raised \in IF client[c] = "open" THEN {FALSE} ELSE BOOLEAN :
        LET corpses == IF raised THEN dead[b] \cup {c} ELSE dead[b]
            last == sending[b] = {c}
        IN  /\ c \in sending[b]
            /\ got' = IF client[c] = "open" /\ b = "watcher"
                      THEN [got EXCEPT ![c] = Append(@, message)] ELSE got
            /\ sending' = [sending EXCEPT ![b] = @ \ {c}]
            /\ dead' = [dead EXCEPT ![b] = IF last THEN {} ELSE corpses]
            /\ conns' = IF last THEN conns \ corpses ELSE conns
            /\ message' = IF b = "watcher" /\ last THEN Nothing ELSE message
            /\ UNCHANGED <<records, announced, scan, client, since, extras>>
    BY <1>4 DEF Send
  <2>1. got' \in [Conns -> Seq(Messages)]
    OBVIOUS
  <2>2. sending' \in [Broadcasters -> SUBSET Conns] /\ dead' \in [Broadcasters -> SUBSET Conns]
    OBVIOUS
  <2>3. /\ message' \in Messages \cup {Nothing}
        /\ sending'["watcher"] # {} => message' \in Messages
    OBVIOUS
  <2> QED
    BY <2>1, <2>2, <2>3
<1>5. CASE PollComplete
  BY <1>5 DEF PollComplete, StartBroadcast
<1>6. CASE StartPass
  BY <1>6 DEF StartPass
<1>7. CASE PassFails
  BY <1>7 DEF PassFails
<1>8. CASE Restart
  BY <1>8 DEF Restart, Stamps
<1> QED
  BY <1>1, <1>2, <1>3, <1>4, <1>5, <1>6, <1>7, <1>8 DEF Next

\* TypeOK holds in every reachable state.
THEOREM TypeCorrect == Spec => []TypeOK
  BY InitTypeOK, StepTypeOK, PTL DEF Spec

-----------------------------------------------------------------------------
(* What the connections of the set and of a broadcast's copy are.          *)

ConnsInv ==
    /\ \A c \in conns : client[c] # "new"
    /\ \A c \in Conns : client[c] = "open" => c \in conns
    /\ \A c \in Conns : client[c] = "new" => got[c] = <<>>
    /\ \A b \in Broadcasters : \A c \in sending[b] : client[c] # "new"
    /\ \A b \in Broadcasters : \A c \in dead[b] : client[c] = "closed"

LEMMA InitConnsInv == Init => ConnsInv
  BY DEF Init, ConnsInv

LEMMA StepConnsInv == TypeOK /\ ConnsInv /\ [Next]_vars => ConnsInv'
<1> SUFFICES ASSUME TypeOK, ConnsInv, [Next]_vars PROVE ConnsInv'
  OBVIOUS
<1> USE DEF TypeOK, ConnsInv, records, channel, Broadcasters
<1>1. CASE UNCHANGED vars
  BY <1>1 DEF vars
<1>2. ASSUME NEW e \in Events PROVE /\ Complete(e) => ConnsInv'
                                    /\ Overwrite(e) => ConnsInv'
                                    /\ Visit(e) => ConnsInv'
  <2>1. Complete(e) \/ Overwrite(e) => ConnsInv'
    BY DEF Complete, Overwrite
  <2>2. CASE Visit(e)
    <3>1. /\ UNCHANGED <<conns, client, dead, got>>
          /\ \A b \in Broadcasters : sending'[b] = sending[b] \/ sending'[b] = conns
      BY <2>2 DEF Visit, StartBroadcast
    <3> QED
      BY <3>1
  <2> QED
    BY <2>1, <2>2
<1>3. ASSUME NEW c \in Conns PROVE /\ Connect(c) => ConnsInv'
                                   /\ Close(c) => ConnsInv'
                                   /\ Disconnect(c) => ConnsInv'
  BY DEF Connect, Close, Disconnect
<1>4. ASSUME NEW b \in Broadcasters, NEW c \in Conns, Send(b, c) PROVE ConnsInv'
  <2> PICK raised \in IF client[c] = "open" THEN {FALSE} ELSE BOOLEAN :
        LET corpses == IF raised THEN dead[b] \cup {c} ELSE dead[b]
            last == sending[b] = {c}
        IN  /\ c \in sending[b]
            /\ got' = IF client[c] = "open" /\ b = "watcher"
                      THEN [got EXCEPT ![c] = Append(@, message)] ELSE got
            /\ sending' = [sending EXCEPT ![b] = @ \ {c}]
            /\ dead' = [dead EXCEPT ![b] = IF last THEN {} ELSE corpses]
            /\ conns' = IF last THEN conns \ corpses ELSE conns
            /\ UNCHANGED client
    BY <1>4 DEF Send
  <2>1. raised => client[c] = "closed"
    OBVIOUS
  <2>2. /\ \A d \in Conns : d # c => got'[d] = got[d]
        /\ \A x \in Broadcasters : sending'[x] \subseteq sending[x]
        /\ \A x \in Broadcasters : dead'[x] \subseteq dead[x] \cup (IF raised THEN {c} ELSE {})
        /\ conns' \subseteq conns
        /\ conns \ conns' \subseteq dead[b] \cup (IF raised THEN {c} ELSE {})
    OBVIOUS
  <2> QED
    BY <2>1, <2>2
<1>5. CASE PollComplete
  <2>1. \A b \in Broadcasters : sending'[b] = sending[b] \/ sending'[b] = conns
    BY <1>5 DEF PollComplete, StartBroadcast
  <2> QED
    BY <1>5, <2>1 DEF PollComplete, StartBroadcast
<1>6. StartPass \/ PassFails => ConnsInv'
  BY DEF StartPass, PassFails
<1>7. CASE Restart
  BY <1>7 DEF Restart
<1> QED
  BY <1>1, <1>2, <1>3, <1>4, <1>5, <1>6, <1>7 DEF Next

-----------------------------------------------------------------------------
(* Order.  ReceivedInOrder says nothing of the message on its way: it must *)
(* be newer than anything its receivers have of its event, and what is     *)
(* announced never newer than the record.                                  *)

OrderInv ==
    /\ \A e \in Events : announced[e] <= clock
    /\ \A e \in Events : record[e] # 0 => announced[e] <= record[e]
    /\ sending["watcher"] # {} => message.stamp = announced[message.event]
    /\ \A c \in Conns : client[c] = "open" =>
          \A i \in DOMAIN got[c] : got[c][i].stamp <= announced[got[c][i].event]
    /\ \A c \in sending["watcher"] : client[c] = "open" =>
          \A i \in DOMAIN got[c] :
             got[c][i].event = message.event => got[c][i].stamp < message.stamp
    /\ ReceivedInOrder

LEMMA InitOrderInv == Init => OrderInv
  BY BoundsAssumption DEF Init, OrderInv, ReceivedInOrder, Broadcasters

LEMMA StepOrderInv == TypeOK /\ ConnsInv /\ OrderInv /\ [Next]_vars => OrderInv'
<1> SUFFICES ASSUME TypeOK, ConnsInv, OrderInv, [Next]_vars PROVE OrderInv'
  OBVIOUS
<1> USE BoundsAssumption DEF TypeOK, OrderInv, ReceivedInOrder, Stamps, Broadcasters
<1>1. CASE UNCHANGED vars
  BY <1>1 DEF vars
<1>2. ASSUME NEW e \in Events, Complete(e) PROVE OrderInv'
  BY <1>2 DEF Complete, channel
<1>3. ASSUME NEW e \in Events, Overwrite(e) PROVE OrderInv'
  BY <1>3 DEF Overwrite, channel
<1>4. ASSUME NEW e \in Events, Visit(e) PROVE OrderInv'
  <2>1. CASE News(e)
    <3>1. record[e] \in Nat /\ announced[e] < record[e] /\ record[e] <= clock
      BY <2>1 DEF News, Stamp
    <3>2. /\ announced' = [announced EXCEPT ![e] = record[e]]
          /\ sending'["watcher"] = conns
          /\ conns # {} => message' = [event |-> e, stamp |-> record[e]]
          /\ UNCHANGED <<records, client, got>>
      BY <1>4, <2>1 DEF Visit, StartBroadcast, Stamp
    <3>3. \A x \in Events : announced[x] <= announced'[x] /\ announced'[x] \in Nat
      BY <3>1, <3>2
    <3>4. \A c \in Conns : \A i \in DOMAIN got[c] : got[c][i] \in Messages
      OBVIOUS
    <3>5. ASSUME NEW c \in Conns, client[c] = "open", NEW i \in DOMAIN got[c]
          PROVE  /\ got[c][i].stamp <= announced'[got[c][i].event]
                 /\ got[c][i].event = e => got[c][i].stamp < record[e]
      <4>1. /\ got[c][i].event \in Events
            /\ got[c][i].stamp \in Nat
        <5>1. got[c][i] \in [event : Events, stamp : 0..MaxCompletions]
          BY <3>4, <3>5 DEF Messages
        <5> HIDE DEF TypeOK, OrderInv
        <5> QED
          BY <5>1
      <4>2. got[c][i].stamp <= announced[got[c][i].event]
        BY <3>5
      <4>3. announced[got[c][i].event] \in Nat /\ announced[e] \in Nat
        BY <4>1
      <4>4. announced[got[c][i].event] <= announced'[got[c][i].event]
        BY <3>3, <4>1
      <4>5. announced'[got[c][i].event] \in Nat
        BY <3>3, <4>1
      <4>6. got[c][i].event = e => got[c][i].stamp < record[e]
        <5> HAVE got[c][i].event = e
        <5> QED
          BY <3>1, <4>1, <4>2, <4>3
      <4> HIDE DEF TypeOK, OrderInv
      <4> QED
        BY <4>1, <4>2, <4>3, <4>4, <4>5, <4>6
    <3>6. \A x \in Events : /\ announced'[x] <= clock'
                            /\ record'[x] # 0 => announced'[x] <= record'[x]
      BY <3>1, <3>2 DEF records
    <3>7. sending'["watcher"] # {} => message'.stamp = announced'[message'.event]
      BY <3>2
    <3>8. \A c \in Conns : client'[c] = "open" =>
            \A i \in DOMAIN got'[c] : got'[c][i].stamp <= announced'[got'[c][i].event]
      BY <3>2, <3>5
    <3>9. \A c \in sending'["watcher"] : client'[c] = "open" =>
            \A i \in DOMAIN got'[c] :
               got'[c][i].event = message'.event => got'[c][i].stamp < message'.stamp
      BY <3>2, <3>5
    <3> QED
      BY <3>2, <3>6, <3>7, <3>8, <3>9
  <2>2. CASE ~News(e)
    BY <1>4, <2>2 DEF Visit, channel, records
  <2> QED
    BY <2>1, <2>2
<1>5. ASSUME NEW c \in Conns, Connect(c) PROVE OrderInv'
  <2>1. got[c] = <<>> /\ c \notin sending["watcher"]
    BY <1>5 DEF Connect, ConnsInv
  <2>2. /\ UNCHANGED <<records, announced, sending, message, got>>
        /\ \A d \in Conns : d # c => client'[d] = client[d]
    BY <1>5 DEF Connect
  <2>3. DOMAIN got[c] = {}
    BY <2>1
  <2>4. \A d \in Conns : client'[d] = "open" =>
          \A i \in DOMAIN got'[d] : got'[d][i].stamp <= announced'[got'[d][i].event]
    BY <2>2, <2>3
  <2>5. \A d \in sending'["watcher"] : client'[d] = "open" =>
          \A i \in DOMAIN got'[d] :
             got'[d][i].event = message'.event => got'[d][i].stamp < message'.stamp
    BY <2>1, <2>2
  <2> QED
    BY <2>2, <2>4, <2>5 DEF records
<1>6. ASSUME NEW c \in Conns, Close(c) \/ Disconnect(c) PROVE OrderInv'
  BY <1>6 DEF Close, Disconnect, records
<1>7. ASSUME NEW b \in Broadcasters, NEW c \in Conns, Send(b, c) PROVE OrderInv'
  <2>1. /\ c \in sending[b]
        /\ got' = IF client[c] = "open" /\ b = "watcher"
                  THEN [got EXCEPT ![c] = Append(@, message)] ELSE got
        /\ sending' = [sending EXCEPT ![b] = @ \ {c}]
        /\ message' = IF b = "watcher" /\ sending[b] = {c} THEN Nothing ELSE message
        /\ UNCHANGED <<records, announced, client>>
    BY <1>7 DEF Send
  <2>2. /\ sending'["watcher"] \subseteq sending["watcher"]
        /\ sending'["watcher"] # {} => message' = message
        /\ b = "watcher" => c \notin sending'["watcher"]
    BY <2>1
  <2>3. CASE client[c] = "open" /\ b = "watcher"
    <3>1. message \in Messages /\ got[c] \in Seq(Messages)
      BY <2>1, <2>3
    <3>2. got'[c] = Append(got[c], message) /\ \A d \in Conns \ {c} : got'[d] = got[d]
      BY <2>1, <2>3
    <3>3. /\ DOMAIN got'[c] = 1..(Len(got[c]) + 1)
          /\ \A i \in 1..Len(got[c]) : got'[c][i] = got[c][i]
          /\ got'[c][Len(got[c]) + 1] = message
          /\ DOMAIN got[c] = 1..Len(got[c])
      BY <3>1, <3>2
    <3>4. \A i \in DOMAIN got'[c] : got'[c][i].stamp <= announced'[got'[c][i].event]
      <4> SUFFICES ASSUME NEW i \in DOMAIN got'[c]
                   PROVE  got'[c][i].stamp <= announced[got'[c][i].event]
        BY <2>1
      <4>1. CASE i \in DOMAIN got[c]
        BY <2>3, <3>3, <4>1
      <4>2. CASE i = Len(got[c]) + 1
        <5>1. message.stamp = announced[message.event] /\ message.stamp \in Nat
          BY <2>1, <2>3, <3>1 DEF Messages
        <5> QED
          BY <3>3, <4>2, <5>1
      <4> QED
        BY <3>1, <3>3, <4>1, <4>2
    <3>5. \A i, j \in DOMAIN got'[c] :
            i < j /\ got'[c][i].event = got'[c][j].event => got'[c][i].stamp < got'[c][j].stamp
      <4> SUFFICES ASSUME NEW i \in DOMAIN got'[c], NEW j \in DOMAIN got'[c], i < j,
                          got'[c][i].event = got'[c][j].event
                   PROVE  got'[c][i].stamp < got'[c][j].stamp
        OBVIOUS
      <4>1. i \in DOMAIN got[c] /\ got'[c][i] = got[c][i]
        BY <3>1, <3>3
      <4>2. CASE j = Len(got[c]) + 1
        BY <2>1, <2>3, <3>3, <4>1, <4>2
      <4>3. CASE j # Len(got[c]) + 1
        <5>1. j \in DOMAIN got[c] /\ got'[c][j] = got[c][j]
          BY <3>1, <3>3, <4>3
        <5> QED
          BY <4>1, <5>1
      <4> QED
        BY <4>2, <4>3
    <3>6. \A d \in Conns : client'[d] = "open" =>
            \A i \in DOMAIN got'[d] : got'[d][i].stamp <= announced'[got'[d][i].event]
      BY <2>1, <3>2, <3>4
    <3>7. ReceivedInOrder'
      BY <3>2, <3>5
    <3> QED
      BY <2>1, <2>2, <2>3, <3>2, <3>6, <3>7 DEF records
  <2>4. CASE ~(client[c] = "open" /\ b = "watcher")
    BY <2>1, <2>2, <2>4 DEF records
  <2> QED
    BY <2>3, <2>4
<1>8. CASE PollComplete
  BY <1>8 DEF PollComplete, StartBroadcast, records
<1>9. StartPass \/ PassFails => OrderInv'
  BY DEF StartPass, PassFails, channel, records
<1>10. CASE Restart
  <2>1. /\ announced' = [e \in Events |-> 0]
        /\ sending'["watcher"] = {}
        /\ \A c \in Conns : client'[c] # "open"
        /\ UNCHANGED <<records, got>>
    BY <1>10 DEF Restart
  <2> QED
    BY <2>1 DEF records
<1> QED
  BY <1>1, <1>2, <1>3, <1>4, <1>5, <1>6, <1>7, <1>8, <1>9, <1>10 DEF Next

\* A client receives the completions of an event in order and each once, for
\* any number of clients, events and completions.
THEOREM DeliveredInOrder == Spec => []ReceivedInOrder
<1>1. Init => TypeOK /\ ConnsInv /\ OrderInv
  BY InitTypeOK, InitConnsInv, InitOrderInv
<1>2. TypeOK /\ ConnsInv /\ OrderInv /\ [Next]_vars => (TypeOK /\ ConnsInv /\ OrderInv)'
  BY StepTypeOK, StepConnsInv, StepOrderInv
<1>3. OrderInv => ReceivedInOrder
  BY DEF OrderInv
<1> QED
  BY <1>1, <1>2, <1>3, PTL DEF Spec

-----------------------------------------------------------------------------
(* No gaps.  While a broadcast is going on, what a client lacks is what it *)
(* is still to be sent.                                                    *)

Received(c, e) ==
    \E i \in DOMAIN got[c] : got[c][i] = [event |-> e, stamp |-> announced[e]]

Underway(c, e) ==
    c \in sending["watcher"] /\ message = [event |-> e, stamp |-> announced[e]]

GapsInv ==
    \A c \in Conns : client[c] = "open" =>
        \A e \in Events : announced[e] # since[c][e] => Received(c, e) \/ Underway(c, e)

LEMMA StepGapsInv == TypeOK /\ ConnsInv /\ GapsInv /\ [Next]_vars => GapsInv'
<1> SUFFICES ASSUME TypeOK, ConnsInv, GapsInv, [Next]_vars,
                    NEW c \in Conns, client'[c] = "open",
                    NEW e \in Events, announced'[e] # since'[c][e]
             PROVE  Received(c, e)' \/ Underway(c, e)'
  BY DEF GapsInv
<1> USE DEF TypeOK, GapsInv, Received, Underway, records, channel, Broadcasters
<1>1. CASE UNCHANGED vars
  BY <1>1 DEF vars
<1>2. ASSUME NEW x \in Events, Complete(x) \/ Overwrite(x)
      PROVE  Received(c, e)' \/ Underway(c, e)'
  BY <1>2 DEF Complete, Overwrite
<1>3. ASSUME NEW x \in Events, Visit(x) PROVE Received(c, e)' \/ Underway(c, e)'
  <2>1. CASE News(x)
    <3>1. /\ announced' = [announced EXCEPT ![x] = record[x]]
          /\ sending["watcher"] = {} /\ sending'["watcher"] = conns
          /\ conns # {} => message' = [event |-> x, stamp |-> record[x]]
          /\ UNCHANGED <<client, got, since>>
      BY <1>3, <2>1 DEF Visit, StartBroadcast, Stamp, Watching
    <3>2. c \in conns
      BY <3>1 DEF ConnsInv
    <3>3. CASE x = e
      BY <3>1, <3>2, <3>3
    <3>4. CASE x # e
      BY <3>1, <3>4
    <3> QED
      BY <3>3, <3>4
  <2>2. CASE ~News(x)
    BY <1>3, <2>2 DEF Visit
  <2> QED
    BY <2>1, <2>2
<1>4. ASSUME NEW d \in Conns, Connect(d) \/ Close(d) \/ Disconnect(d)
      PROVE  Received(c, e)' \/ Underway(c, e)'
  BY <1>4 DEF Connect, Close, Disconnect
<1>5. ASSUME NEW b \in Broadcasters, NEW d \in Conns, Send(b, d)
      PROVE  Received(c, e)' \/ Underway(c, e)'
  <2>1. /\ d \in sending[b]
        /\ got' = IF client[d] = "open" /\ b = "watcher"
                  THEN [got EXCEPT ![d] = Append(@, message)] ELSE got
        /\ sending' = [sending EXCEPT ![b] = @ \ {d}]
        /\ message' = IF b = "watcher" /\ sending[b] = {d} THEN Nothing ELSE message
        /\ UNCHANGED <<announced, client, since>>
    BY <1>5 DEF Send
  <2>2. CASE Received(c, e)
    <3>1. PICK i \in DOMAIN got[c] : got[c][i] = [event |-> e, stamp |-> announced[e]]
      BY <2>2
    <3>2. got[c] \in Seq(Messages)
      OBVIOUS
    <3>3. got'[c] = got[c] \/ got'[c] = Append(got[c], message) 
      BY <2>1
    <3>4. i \in DOMAIN got'[c] /\ got'[c][i] = got[c][i]
      <4>1. message \in Messages \/ got'[c] = got[c]
        BY <2>1
      <4> QED
        <5>1. CASE got'[c] = got[c]
          BY <3>1, <5>1
        <5>2. CASE message \in Messages /\ got'[c] = Append(got[c], message)
          <6>1. i \in 1..Len(got[c])
            BY <3>1, <3>2
          <6> HIDE DEF TypeOK, GapsInv
          <6> QED
            BY <3>2, <5>2, <6>1
        <5> QED
          BY <3>3, <4>1, <5>1, <5>2
    <3> QED
      BY <2>1, <3>1, <3>4
  <2>3. CASE Underway(c, e) /\ b = "watcher" /\ c = d
    <3>1. got[c] \in Seq(Messages) /\ got'[c] = Append(got[c], message)
      BY <2>1, <2>3
    <3>2. /\ Len(got[c]) + 1 \in DOMAIN got'[c]
          /\ got'[c][Len(got[c]) + 1] = message
      BY <3>1
    <3> QED
      BY <2>1, <2>3, <3>2
  <2>4. CASE Underway(c, e) /\ ~(b = "watcher" /\ c = d)
    <3>1. c \in sending'["watcher"] /\ message' = message
      BY <2>1, <2>4
    <3> QED
      BY <2>1, <2>4, <3>1
  <2> QED
    BY <2>1, <2>2, <2>3, <2>4
<1>6. CASE PollComplete
  BY <1>6 DEF PollComplete, StartBroadcast
<1>7. CASE StartPass \/ PassFails
  BY <1>7 DEF StartPass, PassFails
<1>8. CASE Restart
  BY <1>8 DEF Restart
<1> QED
  BY <1>1, <1>2, <1>3, <1>4, <1>5, <1>6, <1>7, <1>8 DEF Next

\* Between two broadcasts no client lacks an announcement made since it
\* connected, whoever else comes, goes or dies during the sends.
THEOREM NobodyIsSkipped == Spec => []NoGaps
<1>1. Init => TypeOK /\ ConnsInv /\ GapsInv
  BY InitTypeOK, InitConnsInv DEF Init, GapsInv
<1>2. TypeOK /\ ConnsInv /\ GapsInv /\ [Next]_vars => (TypeOK /\ ConnsInv /\ GapsInv)'
  BY StepTypeOK, StepConnsInv, StepGapsInv
<1>3. GapsInv => NoGaps
  BY DEF GapsInv, NoGaps, Watching, Received, Underway
<1> QED
  BY <1>1, <1>2, <1>3, PTL DEF Spec

=============================================================================
