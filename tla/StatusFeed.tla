----------------------------- MODULE StatusFeed -----------------------------
(***************************************************************************)
(* The status feed: Publish in the API and in the worker processes, the    *)
(* Redis pub/sub channel that carries the workers' events to the API, the  *)
(* hub goroutine of each process, and for every WebSocket client of the    *)
(* API a buffer and two goroutines (pumps).  Every channel is bounded, and *)
(* nobody waits for a slow reader: a full broadcast channel drops the      *)
(* event, a full client buffer drops the client.                           *)
(*                                                                         *)
(* An event is known by the party that publishes it (one request, or one   *)
(* worker's handling of one notification) and its number there.            *)
(***************************************************************************)
EXTENDS Naturals, Sequences, SequencesExt

CONSTANTS
    Process,       \* the processes that run a hub
    Api,           \* the one in subscriber mode, where clients connect
    Source,        \* parties that publish events, one after another
    HubOf,         \* the process each of them runs in
    BatchOf,       \* the batch its events name, or NoBatch
    Client,        \* WebSocket clients
    Filter,        \* the batch_id a client asks for, or NoBatch
    NoBatch,
    MaxEvents,     \* bound on the events of each source
    BroadcastCap,  \* capacity of Hub.broadcast, 256 in the code
    SendCap        \* capacity of Client.send, 256 in the code

ASSUME FeedAssumption ==
    /\ Api \in Process
    /\ HubOf \in [Source -> Process]
    /\ \A s \in Source : HubOf[s] = Api => BatchOf[s] = NoBatch
    /\ MaxEvents \in [Source -> Nat]
    /\ BroadcastCap \in Nat \ {0} /\ SendCap \in Nat \ {0}

VARIABLES
    published,  \* how many events each source has published
    wire,       \* events on their way through Redis to the API's SubscribeRedis
    broadcast,  \* Hub.broadcast of each process
    clients,    \* Hub.clients of the API
    send,       \* Client.send
    closes,     \* how often close(client.send) was called
    conn,       \* the client's connection: "none", "up" or "down"
    reader,     \* where Register and then readPump are
    writer,     \* whether writePump runs
    hand,       \* the message writePump is writing, as a sequence of at most one
    received,   \* (history) what was written to the client's connection
    due         \* (history) what the hub relayed to it while it knew it

feed == <<published, wire, broadcast>>
pumps == <<conn, reader, writer, hand, received>>
vars == <<feed, clients, send, closes, pumps, due>>

Event == [source : Source, number : Nat \ {0}]
Wants(c, e) == Filter[c] = NoBatch \/ Filter[c] = BatchOf[e.source]

\* What the channels hold: none is over its capacity, and a connection has
\* one write under way at a time (all that gorilla/websocket allows).
TypeOK ==
    /\ published \in [Source -> Nat]
    /\ \A s \in Source : published[s] <= MaxEvents[s]
    /\ wire \in Seq(Event)
    /\ broadcast \in [Process -> Seq(Event)]
    /\ \A p \in Process : Len(broadcast[p]) <= BroadcastCap
    /\ clients \in SUBSET Client
    /\ send \in [Client -> Seq(Event)] /\ hand \in [Client -> Seq(Event)]
    /\ \A c \in Client : Len(send[c]) <= SendCap /\ Len(hand[c]) <= 1
    /\ closes \in [Client -> Nat]
    /\ conn \in [Client -> {"none", "up", "down"}]
    /\ reader \in [Client -> {"off", "registering", "reading", "leaving", "done"}]
    /\ writer \in [Client -> {"off", "running", "done"}]
    /\ received \in [Client -> Seq(Event)] /\ due \in [Client -> Seq(Event)]

Init ==
    /\ published = [s \in Source |-> 0]
    /\ wire = <<>>
    /\ broadcast = [p \in Process |-> <<>>]
    /\ clients = {}
    /\ send = [c \in Client |-> <<>>] /\ hand = [c \in Client |-> <<>>]
    /\ closes = [c \in Client |-> 0]
    /\ conn = [c \in Client |-> "none"]
    /\ reader = [c \in Client |-> "off"] /\ writer = [c \in Client |-> "off"]
    /\ received = [c \in Client |-> <<>>] /\ due = [c \in Client |-> <<>>]

-----------------------------------------------------------------------------
(* Publishing.                                                             *)

\* select { case h.broadcast <- event: default: }
Offered(p, e) ==
    IF Len(broadcast[p]) < BroadcastCap THEN Append(broadcast[p], e) ELSE broadcast[p]
Offer(p, e) == broadcast' = [broadcast EXCEPT ![p] = Offered(p, e)]

\* A slip: a hub in subscriber mode that publishes to Redis as well.
PublishEverywhere(s) ==
    /\ published[s] < MaxEvents[s]
    /\ published' = [published EXCEPT ![s] = @ + 1]
    /\ LET e == [source |-> s, number |-> published[s] + 1]
       IN  Offer(HubOf[s], e) /\ wire' = Append(wire, e)
    /\ UNCHANGED <<clients, send, closes, pumps, due>>

\* Hub.Publish: to the clients of this process, and unless this is the API,
\* to Redis; nobody looks at the error of the PUBLISH.
Publish(s) ==
    /\ published[s] < MaxEvents[s]
    /\ published' = [published EXCEPT ![s] = @ + 1]
    /\ LET e == [source |-> s, number |-> published[s] + 1]
       IN  /\ Offer(HubOf[s], e)
           /\ \/ HubOf[s] # Api /\ wire' = Append(wire, e)
              \/ UNCHANGED wire
    /\ UNCHANGED <<clients, send, closes, pumps, due>>

\* The subscription was down, or its reader too slow: pub/sub keeps nothing.
WireLoses ==
    /\ \E i \in DOMAIN wire : wire' = RemoveAt(wire, i)
    /\ UNCHANGED <<published, broadcast, clients, send, closes, pumps, due>>

\* SubscribeRedis.
Subscribe ==
    /\ wire # <<>>
    /\ wire' = Tail(wire)
    /\ Offer(Api, Head(wire))
    /\ UNCHANGED <<published, clients, send, closes, pumps, due>>

-----------------------------------------------------------------------------
(* Hub.Run.  Each case of its select is a step.                            *)

Full(c) == Len(send[c]) = SendCap
Interested(e) == {c \in clients : Wants(c, e)}
AddedTo(buffers, S, e) ==
    [c \in Client |-> IF c \in S THEN Append(buffers[c], e) ELSE buffers[c]]

\* A slip: default without close and delete.
RelaySkipping(p) ==
    /\ broadcast[p] # <<>>
    /\ LET e == Head(broadcast[p])
       IN  IF p # Api THEN UNCHANGED <<due, send>>
           ELSE /\ due' = AddedTo(due, Interested(e), e)
                /\ send' = AddedTo(send, {c \in Interested(e) : ~Full(c)}, e)
    /\ broadcast' = [broadcast EXCEPT ![p] = Tail(@)]
    /\ UNCHANGED <<published, wire, clients, closes, pumps>>

\* A slip: close without delete.
RelayKeepingClient(p) ==
    /\ broadcast[p] # <<>>
    /\ LET e == Head(broadcast[p])
       IN  IF p # Api THEN UNCHANGED <<due, send, closes>>
           ELSE /\ due' = AddedTo(due, Interested(e), e)
                /\ send' = AddedTo(send, {c \in Interested(e) : ~Full(c)}, e)
                /\ closes' = [c \in Client |-> IF c \in Interested(e) /\ Full(c)
                                               THEN closes[c] + 1 ELSE closes[c]]
    /\ broadcast' = [broadcast EXCEPT ![p] = Tail(@)]
    /\ UNCHANGED <<published, wire, clients, pumps>>

\* case event := <-h.broadcast: a client whose buffer is full is dropped.  A
\* worker's hub has no clients.
Relay(p) ==
    /\ broadcast[p] # <<>>
    /\ broadcast' = [broadcast EXCEPT ![p] = Tail(@)]
    /\ LET e    == Head(broadcast[p])
           slow == {c \in Interested(e) : Full(c)}
       IN  \/ p # Api /\ UNCHANGED <<due, send, closes, clients>>
           \/ /\ p = Api
              /\ due' = AddedTo(due, Interested(e), e)
              /\ send' = AddedTo(send, Interested(e) \ slow, e)
              /\ closes' = [c \in Client |-> IF c \in slow THEN closes[c] + 1 ELSE closes[c]]
              /\ clients' = clients \ slow
    /\ UNCHANGED <<published, wire, pumps>>

\* case client := <-h.register; Register then starts the pumps.
HubRegister(c) ==
    /\ reader[c] = "registering"
    /\ clients' = clients \cup {c}
    /\ reader' = [reader EXCEPT ![c] = "reading"]
    /\ writer' = [writer EXCEPT ![c] = "running"]
    /\ UNCHANGED <<feed, send, closes, conn, hand, received, due>>

\* case client := <-h.unregister, of a client that may have been dropped before.
HubUnregister(c) ==
    /\ reader[c] = "leaving"
    /\ clients' = clients \ {c}
    /\ closes' = IF c \in clients THEN [closes EXCEPT ![c] = @ + 1] ELSE closes
    /\ reader' = [reader EXCEPT ![c] = "done"]
    /\ UNCHANGED <<feed, send, conn, writer, hand, received, due>>

-----------------------------------------------------------------------------
(* A client's connection and its two pumps.                                *)

\* WebSocketHandler.Handle upgrades the connection and calls Register.
Connect(c) ==
    /\ conn[c] = "none"
    /\ conn' = [conn EXCEPT ![c] = "up"]
    /\ reader' = [reader EXCEPT ![c] = "registering"]
    /\ UNCHANGED <<feed, clients, send, closes, writer, hand, received, due>>

\* The peer closes, or says nothing until the read deadline.
HangUp(c) ==
    /\ conn[c] = "up"
    /\ conn' = [conn EXCEPT ![c] = "down"]
    /\ UNCHANGED <<feed, clients, send, closes, reader, writer, hand, received, due>>

\* A slip: readPump returning without telling the hub.
ReadFailsQuietly(c) ==
    /\ reader[c] = "reading" /\ conn[c] = "down"
    /\ reader' = [reader EXCEPT ![c] = "done"]
    /\ UNCHANGED <<feed, clients, send, closes, conn, writer, hand, received, due>>

\* ReadMessage returns an error; the deferred h.unregister <- c waits for the hub.
ReadFails(c) ==
    /\ reader[c] = "reading" /\ conn[c] = "down"
    /\ reader' = [reader EXCEPT ![c] = "leaving"]
    /\ UNCHANGED <<feed, clients, send, closes, conn, writer, hand, received, due>>

\* A slip: a goroutine for each write, on a connection that allows one at a time.
TakeConcurrently(c) ==
    /\ writer[c] = "running" /\ send[c] # <<>>
    /\ hand' = [hand EXCEPT ![c] = Append(@, Head(send[c]))]
    /\ send' = [send EXCEPT ![c] = Tail(@)]
    /\ UNCHANGED <<feed, clients, closes, conn, reader, writer, received, due>>

\* message, ok := <-c.send
Take(c) ==
    /\ writer[c] = "running" /\ hand[c] = <<>> /\ send[c] # <<>>
    /\ hand' = [hand EXCEPT ![c] = <<Head(send[c])>>]
    /\ send' = [send EXCEPT ![c] = Tail(@)]
    /\ UNCHANGED <<feed, clients, closes, conn, reader, writer, received, due>>

Write(c) ==
    /\ writer[c] = "running" /\ hand[c] # <<>> /\ conn[c] = "up"
    /\ received' = [received EXCEPT ![c] = @ \o hand[c]]
    /\ hand' = [hand EXCEPT ![c] = <<>>]
    /\ UNCHANGED <<feed, clients, send, closes, conn, reader, writer, due>>

\* writePump returns and closes the connection: a message or a ping could not
\* be written within writeWait, or the channel is closed and empty.
StopWriting(c) ==
    /\ writer[c] = "running"
    /\ \/ hand[c] # <<>>
       \/ conn[c] = "down"
       \/ closes[c] > 0 /\ send[c] = <<>>
    /\ writer' = [writer EXCEPT ![c] = "done"]
    /\ hand' = [hand EXCEPT ![c] = <<>>]
    /\ conn' = [conn EXCEPT ![c] = "down"]
    /\ UNCHANGED <<feed, clients, send, closes, reader, received, due>>

ClientStep(c) ==
    \/ HubRegister(c) \/ HubUnregister(c)
    \/ Connect(c) \/ HangUp(c) \/ ReadFails(c) \/ Take(c) \/ Write(c) \/ StopWriting(c)

Next ==
    \/ \E s \in Source : Publish(s)
    \/ WireLoses \/ Subscribe
    \/ \E p \in Process : Relay(p)
    \/ \E c \in Client : ClientStep(c)

Spec == Init /\ [][Next]_vars

\* The hub's select chooses among the ready cases at random, the pumps are
\* scheduled, and reads and writes have deadlines.  Nobody need connect,
\* disconnect or publish.
Fairness ==
    /\ WF_vars(Subscribe)
    /\ \A p \in Process : WF_vars(Relay(p))
    /\ \A c \in Client :
         /\ WF_vars(HubRegister(c)) /\ WF_vars(HubUnregister(c)) /\ WF_vars(ReadFails(c))
         /\ WF_vars(Take(c) \/ Write(c) \/ StopWriting(c))

FairSpec == Spec /\ Fairness

-----------------------------------------------------------------------------
(***************************************************************************)
(* No goroutine panics over a client's channel: the hub only ever sends to *)
(* (or closes) a channel that is open, because a client leaves the map in  *)
(* the step that closes its channel, whoever is first, the broadcast that  *)
(* finds it slow or its own readPump.                                      *)
(***************************************************************************)
ClosedOnce ==
    \A c \in Client :
        /\ closes[c] <= 1
        /\ c \in clients => closes[c] = 0

(***************************************************************************)
(* A client never misses an event it subscribed to and then goes on        *)
(* receiving: while the hub knows it, what it was sent, is being sent and  *)
(* has in its buffer is all that was relayed since it registered and passes*)
(* its filter.  One that could not keep up gets a prefix and is cut off.   *)
(***************************************************************************)
Stream(c) == received[c] \o hand[c] \o send[c]
NoGaps ==
    \A c \in Client :
        /\ IsPrefix(received[c], due[c])
        /\ writer[c] = "running" =>
             IF c \in clients THEN Stream(c) = due[c] ELSE IsPrefix(Stream(c), due[c])

(***************************************************************************)
(* However an event reaches the API (its own channel or Redis), a client   *)
(* sees the events of one source in the order they were published, none of *)
(* them twice.  (Across sources there is no order.)                        *)
(***************************************************************************)
InOrderPerSource ==
    \A c \in Client : \A i, j \in DOMAIN received[c] :
        i < j /\ received[c][i].source = received[c][j].source
            => received[c][i].number < received[c][j].number

(***************************************************************************)
(* A client that is gone, or that the hub has dropped, is noticed by       *)
(* everybody: its connection is closed, both its goroutines end and the    *)
(* hub forgets it.                                                         *)
(***************************************************************************)
Ended(c) == conn[c] = "down" \/ (writer[c] # "off" /\ c \notin clients)
PartingIsNoticed ==
    \A c \in Client :
        Ended(c) ~> /\ conn[c] = "down" /\ c \notin clients
                    /\ reader[c] = "done" /\ writer[c] = "done"
=============================================================================
