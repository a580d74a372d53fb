------------------------ MODULE CompletionBroadcast ------------------------
(***************************************************************************)
(* How a finished inference reaches the dashboards: event_watcher of       *)
(* app/main.py, which looks for completed records every two seconds, and   *)
(* the ConnectionManager of app/routers/websocket_router.py, whose         *)
(* broadcast the watcher and the poller share.  All of it runs in one      *)
(* asyncio thread, so coroutines interleave at their awaits only: a        *)
(* broadcast awaits one send after the other.  Each API process serves its *)
(* own connections from its own watcher; this is one such process.         *)
(***************************************************************************)
EXTENDS Naturals, Sequences, FiniteSets

CONSTANTS
    Events,            \* event identifiers
    Conns,             \* WebSocket connections, each opened once
    MaxCompletions,    \* bound on completed records written
    MaxExtras          \* bound on restarts and poll_complete messages

ASSUME ConnsAssumption == IsFiniteSet(Conns)
ASSUME BoundsAssumption == MaxCompletions \in Nat /\ MaxExtras \in Nat

VARIABLES
    clock,        \* completed records written so far
    record,       \* per event: its record's completed_at, 0 if it is not "completed"
    announced,    \* _broadcasted_completed_at, 0 for no entry
    scan,         \* keys SCAN still has to return in this pass
    conns,        \* events_manager._connections
    client,       \* per connection: "new", "open" or "closed" at its client
    sending,      \* per broadcaster: connections of its copy still to be sent to
    dead,         \* per broadcaster: connections its sends found dead
    message,      \* the completion the watcher is broadcasting
    got,          \* per connection: completions its client received, in order
    since,        \* per connection: the announcements made before it was added
    extras        \* restarts and poll_complete messages so far

records == <<clock, record>>
channel == <<conns, client, sending, dead, message, got, since>>
vars == <<clock, record, announced, scan, conns, client, sending, dead,
          message, got, since, extras>>

Broadcasters == {"watcher", "poller"}
Stamps == 0..MaxCompletions
Messages == [event : Events, stamp : Stamps]
Nothing == [event |-> "none", stamp |-> 0]

TypeOK ==
    /\ clock \in Stamps
    /\ record \in [Events -> 0..clock]
    /\ announced \in [Events -> Stamps]
    /\ scan \subseteq Events
    /\ conns \subseteq Conns
    /\ client \in [Conns -> {"new", "open", "closed"}]
    /\ sending \in [Broadcasters -> SUBSET Conns]
    /\ dead \in [Broadcasters -> SUBSET Conns]
    /\ message \in Messages \cup {Nothing}
    /\ sending["watcher"] # {} => message \in Messages
    /\ got \in [Conns -> Seq(Messages)]
    /\ since \in [Conns -> [Events -> Stamps]]
    /\ extras \in 0..MaxExtras

Init ==
    /\ clock = 0
    /\ record = [e \in Events |-> 0]
    /\ announced = [e \in Events |-> 0]
    /\ scan = {} /\ conns = {}
    /\ client = [c \in Conns |-> "new"]
    /\ sending = [b \in Broadcasters |-> {}]
    /\ dead = [b \in Broadcasters |-> {}]
    /\ message = Nothing
    /\ got = [c \in Conns |-> <<>>]
    /\ since = [c \in Conns |-> [e \in Events |-> 0]]
    /\ extras = 0

-----------------------------------------------------------------------------
(* The workers' writes.  A record's completed_at is taken before the        *)
(* attempt claims its event, so the stamps of two workers need not follow  *)
(* the order of their writes.  The watcher compares stamps for equality    *)
(* only; here they number the writes, which is the order a client can see. *)

Complete(e) ==
    /\ clock < MaxCompletions
    /\ clock' = clock + 1
    /\ record' = [record EXCEPT ![e] = clock + 1]
    /\ UNCHANGED <<announced, scan, channel, extras>>

\* Another status is written over it, or the record expires or is cleared.
Overwrite(e) ==
    /\ record[e] # 0
    /\ record' = [record EXCEPT ![e] = 0]
    /\ UNCHANGED <<clock, announced, scan, channel, extras>>

-----------------------------------------------------------------------------
(* ConnectionManager.                                                      *)

\* connect: from here on the client is one of "all connected clients".
Connect(c) ==
    /\ client[c] = "new"
    /\ client' = [client EXCEPT ![c] = "open"]
    /\ conns' = conns \cup {c}
    /\ since' = [since EXCEPT ![c] = announced]
    /\ UNCHANGED <<records, announced, scan, sending, dead, message, got, extras>>

Close(c) ==
    /\ client[c] = "open"
    /\ client' = [client EXCEPT ![c] = "closed"]
    /\ UNCHANGED <<records, announced, scan, conns, sending, dead, message, got,
                   since, extras>>

\* The endpoint's receive_text raises WebSocketDisconnect.  Any other
\* exception ends the endpoint too but leaves the connection in the set.
Disconnect(c) ==
    /\ client[c] = "closed" /\ c \in conns
    /\ conns' = conns \ {c}
    /\ UNCHANGED <<records, announced, scan, client, sending, dead, message, got,
                   since, extras>>

\* A broadcast copies the set before its first await.
StartBroadcast(b) ==
    /\ sending' = [sending EXCEPT ![b] = conns]
    /\ UNCHANGED <<conns, client, dead, got, since>>

\* One send of the loop; after the last one the dead are discarded.  A send
\* to a client that is gone raises once the socket has noticed.
Send_StopsAtFailure(b, c) ==
    \E raised \in IF client[c] = "open" THEN {FALSE} ELSE BOOLEAN :
        LET corpses == IF raised THEN dead[b] \cup {c} ELSE dead[b]
            last == raised \/ sending[b] = {c}
        IN  /\ c \in sending[b]
            /\ got' = IF client[c] = "open" /\ b = "watcher"
                      THEN [got EXCEPT ![c] = Append(@, message)] ELSE got
            /\ sending' = [sending EXCEPT ![b] = IF last THEN {} ELSE @ \ {c}]
            /\ dead' = [dead EXCEPT ![b] = IF last THEN {} ELSE corpses]
            /\ conns' = IF last THEN conns \ corpses ELSE conns
            /\ message' = IF b = "watcher" /\ last THEN Nothing ELSE message
            /\ UNCHANGED <<records, announced, scan, client, since, extras>>
Send(b, c) ==
    \E raised \in IF client[c] = "open" THEN {FALSE} ELSE BOOLEAN :
        LET corpses == IF raised THEN dead[b] \cup {c} ELSE dead[b]
            last == sending[b] = {c}
        IN  /\ c \in sending[b]
            /\ got' = IF client[c] = "open" /\ b = "watcher"
                      THEN [got EXCEPT ![c] = Append(@, message)] ELSE got
            /\ sending' = [sending EXCEPT ![b] = @ \ {c}]
            /\ dead' = [dead EXCEPT ![b] = IF last THEN {} ELSE corpses]
            /\ conns' = IF last THEN conns \ corpses ELSE conns
            /\ message' = IF b = "watcher" /\ last THEN Nothing ELSE message
            /\ UNCHANGED <<records, announced, scan, client, since, extras>>

\* The poller's poll_complete message, on the same connections.
PollComplete ==
    /\ sending["poller"] = {}
    /\ extras < MaxExtras
    /\ extras' = extras + 1
    /\ StartBroadcast("poller")
    /\ UNCHANGED <<records, announced, scan, message>>

-----------------------------------------------------------------------------
(* event_watcher.                                                          *)

Watching == sending["watcher"] = {}

StartPass ==
    /\ Watching /\ scan = {}
    /\ scan' = Events
    /\ UNCHANGED <<records, announced, channel, extras>>

Stamp_Ahead(e) == record[e] + 1
Stamp(e) == record[e]

News_Repeated(e) == record[e] # 0
News_FirstOnly(e) == record[e] # 0 /\ announced[e] = 0
News(e) == record[e] # 0 /\ announced[e] # Stamp(e)

\* GET of one key and, for news, the note and the start of its broadcast.
\* SCAN returns each key of the pass and may return one again.
Visit(e) ==
    /\ Watching /\ scan # {}
    /\ scan' = scan \ {e}
    /\ \/ /\ News(e)
          /\ announced' = [announced EXCEPT ![e] = Stamp(e)]
          /\ message' = IF conns = {} THEN Nothing ELSE [event |-> e, stamp |-> Stamp(e)]
          /\ StartBroadcast("watcher")
       \/ /\ ~News(e)
          /\ UNCHANGED <<announced, channel>>
    /\ UNCHANGED <<records, extras>>

\* A Redis error ends the pass; so does a record that does not parse, in
\* every pass that comes to it.
PassFails ==
    /\ Watching /\ scan # {}
    /\ scan' = {}
    /\ UNCHANGED <<records, announced, channel, extras>>

\* The process restarts with an empty memory; its connections are closed.
Restart ==
    /\ extras < MaxExtras
    /\ extras' = extras + 1
    /\ announced' = [e \in Events |-> 0]
    /\ scan' = {} /\ conns' = {}
    /\ client' = [c \in Conns |-> IF client[c] = "open" THEN "closed" ELSE client[c]]
    /\ sending' = [b \in Broadcasters |-> {}]
    /\ dead' = [b \in Broadcasters |-> {}]
    /\ message' = Nothing
    /\ UNCHANGED <<records, got, since>>

-----------------------------------------------------------------------------
Next ==
    \/ \E e \in Events : Complete(e) \/ Overwrite(e) \/ Visit(e)
    \/ \E c \in Conns : Connect(c) \/ Close(c) \/ Disconnect(c)
    \/ \E b \in Broadcasters, c \in Conns : Send(b, c)
    \/ PollComplete \/ StartPass \/ PassFails \/ Restart

Spec == Init /\ [][Next]_vars

Watch == StartPass \/ \E e \in scan : Visit(e)

\* The watcher loops for ever, and a send ends: uvicorn closes a connection
\* that stops answering pings, and the send to it raises.
Fairness ==
    /\ WF_vars(Watch)
    /\ \A b \in Broadcasters, c \in Conns : WF_vars(Send(b, c))

FairSpec == Spec /\ Fairness

-----------------------------------------------------------------------------
(* Properties.                                                             *)

\* A client receives the completions of an event in their order and each of
\* them once, although passes repeat, fail and see a record again and again.
ReceivedInOrder ==
    \A c \in Conns : \A i, j \in DOMAIN got[c] :
        i < j /\ got[c][i].event = got[c][j].event => got[c][i].stamp < got[c][j].stamp

\* Between two broadcasts every client that is still there has received what
\* was announced since it connected: a dead connection, or one that comes or
\* goes during the sends, costs no other client a message.
NoGaps ==
    Watching =>
        \A c \in Conns : client[c] = "open" =>
            \A e \in Events : announced[e] # since[c][e] =>
                \E i \in DOMAIN got[c] :
                    got[c][i] = [event |-> e, stamp |-> announced[e]]

\* Passes may fail for ever, but then others reach their end for ever.  This
\* fails when each pass meets a record that does not parse.
PassesSucceed ==
    []<><<PassFails>>_vars => []<><<\E e \in scan : Visit(e) /\ scan' = {}>>_vars

\* A completion that stays in the record is announced in the end, whatever
\* passes failed at whatever key, if not all of them fail: time and again no
\* event has one to announce.
EveryCompletionAnnounced ==
    PassesSucceed => \A e \in Events : []<>(record[e] \in {0, announced[e]})

=============================================================================
