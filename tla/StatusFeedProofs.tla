-------------------------- MODULE StatusFeedProofs --------------------------
(***************************************************************************)
(* A client's channel is closed once and never used afterwards, a client   *)
(* misses nothing while the hub knows it, and it gets each source's events *)
(* in their order, for any number of processes, sources and clients and    *)
(* any capacities.                                                         *)
(***************************************************************************)
EXTENDS StatusFeed, SequenceTheorems, TLAPS

-----------------------------------------------------------------------------
(* Sequences of events.                                                    *)

LEMMA PrefixByElements ==
    ASSUME NEW E, NEW s \in Seq(E), NEW t \in Seq(E)
    PROVE  IsPrefix(s, t) <=> Len(s) <= Len(t) /\ \A i \in 1 .. Len(s) : s[i] = t[i]
<1>1. Len(s) \in Nat /\ Len(t) \in Nat
  BY LenProperties
<1>2. SubSeq(s, 1, Len(s)) = s
  BY SubSeqFull
<1>3. ASSUME Len(s) <= Len(t)
      PROVE  /\ SubSeq(t, 1, Len(s)) \in Seq(E) /\ Len(SubSeq(t, 1, Len(s))) = Len(s)
             /\ \A i \in 1 .. Len(s) : SubSeq(t, 1, Len(s))[i] = t[i]
  <2>1. \A i \in 1 .. Len(s) : t[i] \in E
    BY <1>1, <1>3, ElementOfSeq
  <2>2. /\ SubSeq(t, 1, Len(s)) \in Seq(E)
        /\ Len(SubSeq(t, 1, Len(s))) = IF 1 <= Len(s) THEN Len(s) - 1 + 1 ELSE 0
        /\ \A i \in 1 .. Len(s) - 1 + 1 : SubSeq(t, 1, Len(s))[i] = t[1 + i - 1]
    BY <1>1, <2>1, SubSeqProperties
  <2>3. QED BY <1>1, <2>2
<1>4. ASSUME Len(s) <= Len(t)
      PROVE  s = SubSeq(t, 1, Len(s)) <=> \A i \in 1 .. Len(s) : s[i] = t[i]
  BY <1>1, <1>3, <1>4, SeqEqual
<1>5. QED BY <1>1, <1>2, <1>4 DEF IsPrefix

LEMMA PrefixReflexive ==
    ASSUME NEW E, NEW s \in Seq(E)
    PROVE  IsPrefix(s, s)
  BY LenProperties, PrefixByElements

LEMMA PrefixOfLonger ==
    ASSUME NEW E, NEW s \in Seq(E), NEW t \in Seq(E), NEW e \in E, IsPrefix(s, t)
    PROVE  IsPrefix(s, Append(t, e))
<1>1. /\ Append(t, e) \in Seq(E) /\ Len(Append(t, e)) = Len(t) + 1
      /\ \A i \in 1 .. Len(t) : Append(t, e)[i] = t[i]
  BY AppendProperties
<1>2. Len(s) \in Nat /\ Len(t) \in Nat
  BY LenProperties
<1>3. Len(s) <= Len(t) /\ \A i \in 1 .. Len(s) : s[i] = t[i]
  BY PrefixByElements
<1>4. Len(s) <= Len(Append(t, e)) /\ \A i \in 1 .. Len(s) : s[i] = Append(t, e)[i]
  BY <1>1, <1>2, <1>3
<1>5. QED BY <1>1, <1>4, PrefixByElements

LEMMA PrefixOfPrefix ==
    ASSUME NEW E, NEW s \in Seq(E), NEW u \in Seq(E), NEW t \in Seq(E), IsPrefix(s \o u, t)
    PROVE  IsPrefix(s, t)
<1>1. /\ s \o u \in Seq(E) /\ Len(s \o u) = Len(s) + Len(u)
      /\ \A i \in 1 .. Len(s) + Len(u) : (s \o u)[i] = IF i <= Len(s) THEN s[i] ELSE u[i - Len(s)]
  BY ConcatProperties
<1>2. Len(s) \in Nat /\ Len(u) \in Nat /\ Len(t) \in Nat
  BY LenProperties
<1>3. Len(s \o u) <= Len(t) /\ \A i \in 1 .. Len(s \o u) : (s \o u)[i] = t[i]
  BY <1>1, PrefixByElements
<1>4. Len(s) <= Len(t) /\ \A i \in 1 .. Len(s) : s[i] = t[i]
  BY <1>1, <1>2, <1>3
<1>5. QED BY <1>4, PrefixByElements

LEMMA ConcatAppend ==
    ASSUME NEW E, NEW s \in Seq(E), NEW u \in Seq(E), NEW e \in E
    PROVE  s \o Append(u, e) = Append(s \o u, e)
<1>1. <<e>> \in Seq(E) /\ s \o u \in Seq(E)
  BY ConcatProperties
<1>2. Append(u, e) = u \o <<e>> /\ Append(s \o u, e) = (s \o u) \o <<e>>
  BY <1>1, AppendIsConcat
<1>3. (s \o u) \o <<e>> = s \o (u \o <<e>>)
  BY <1>1, ConcatAssociative
<1>4. QED BY <1>2, <1>3

LEMMA HeadThenTail ==
    ASSUME NEW E, NEW s \in Seq(E), s # <<>>
    PROVE  /\ Head(s) \in E /\ Tail(s) \in Seq(E) /\ <<Head(s)>> \in Seq(E)
           /\ Len(Tail(s)) = Len(s) - 1
           /\ <<Head(s)>> \o Tail(s) = s
<1>1. /\ Head(s) \in E /\ Tail(s) \in Seq(E) /\ Len(Tail(s)) = Len(s) - 1
      /\ Tail(s) = SubSeq(s, 2, Len(s))
  BY HeadTailProperties, TailIsSubSeq
<1>2. Len(s) \in Nat \ {0}
  BY EmptySeq
<1>3. SubSeq(s, 1, Len(s)) = <<s[1]>> \o SubSeq(s, 1 + 1, Len(s))
  BY <1>2, SubSeqRecursiveFirst
<1>4. SubSeq(s, 1, Len(s)) = s
  BY SubSeqFull
<1>5. QED BY <1>1, <1>3, <1>4

-----------------------------------------------------------------------------
(* What the channels hold.                                                 *)

LEMMA Parameters ==
    /\ Api \in Process /\ HubOf \in [Source -> Process]
    /\ MaxEvents \in [Source -> Nat]
    /\ BroadcastCap \in Nat /\ 1 <= BroadcastCap /\ SendCap \in Nat /\ 1 <= SendCap
  BY FeedAssumption

WireOK ==
    /\ published \in [Source -> Nat]
    /\ \A s \in Source : published[s] <= MaxEvents[s]
    /\ wire \in Seq(Event)
    /\ broadcast \in [Process -> Seq(Event)]
    /\ \A p \in Process : Len(broadcast[p]) <= BroadcastCap

ClientsOK ==
    /\ clients \in SUBSET Client
    /\ send \in [Client -> Seq(Event)] /\ hand \in [Client -> Seq(Event)]
    /\ \A c \in Client : Len(send[c]) <= SendCap /\ Len(hand[c]) <= 1
    /\ closes \in [Client -> Nat]
    /\ conn \in [Client -> {"none", "up", "down"}]
    /\ reader \in [Client -> {"off", "registering", "reading", "leaving", "done"}]
    /\ writer \in [Client -> {"off", "running", "done"}]
    /\ received \in [Client -> Seq(Event)] /\ due \in [Client -> Seq(Event)]

LEMMA TypeParts == TypeOK <=> WireOK /\ ClientsOK
  BY DEF TypeOK, WireOK, ClientsOK

LEMMA OfferOK ==
    ASSUME WireOK, NEW p \in Process, NEW e \in Event, Offer(p, e)
    PROVE  /\ broadcast' \in [Process -> Seq(Event)]
           /\ \A q \in Process : Len(broadcast'[q]) <= BroadcastCap
<1>1. broadcast[p] \in Seq(Event) /\ Len(broadcast[p]) \in Nat
  BY LenProperties DEF WireOK
<1>2. Append(broadcast[p], e) \in Seq(Event) /\ Len(Append(broadcast[p], e)) = Len(broadcast[p]) + 1
  BY <1>1, AppendProperties
<1>3. Offered(p, e) \in Seq(Event) /\ Len(Offered(p, e)) <= BroadcastCap
  BY <1>1, <1>2, Parameters DEF Offered, WireOK
<1>4. QED BY <1>3 DEF Offer, WireOK

LEMMA InitWire == Init => WireOK
  BY EmptySeq, Parameters DEF Init, WireOK

LEMMA WireStep == WireOK /\ [Next]_vars => WireOK'
<1> SUFFICES ASSUME WireOK, [Next]_vars PROVE WireOK'
  OBVIOUS
<1>1. ASSUME NEW s \in Source, Publish(s) PROVE WireOK'
  <2> DEFINE e == [source |-> s, number |-> published[s] + 1]
  <2>1. e \in Event /\ HubOf[s] \in Process
    BY Parameters DEF Event, WireOK
  <2>2. Offer(HubOf[s], e) /\ (wire' = Append(wire, e) \/ wire' = wire)
    BY <1>1 DEF Publish
  <2> HIDE DEF e
  <2>3. wire' \in Seq(Event)
    <3>1. Append(wire, e) \in Seq(Event)
      BY <2>1, AppendProperties DEF WireOK
    <3>2. QED BY <2>2, <3>1 DEF WireOK
  <2>4. published' \in [Source -> Nat] /\ \A r \in Source : published'[r] <= MaxEvents[r]
    <3>1. published[s] \in Nat /\ MaxEvents[s] \in Nat /\ published[s] < MaxEvents[s]
      BY <1>1, Parameters DEF Publish, WireOK
    <3>2. published' = [published EXCEPT ![s] = published[s] + 1]
      BY <1>1 DEF Publish
    <3>3. QED BY <3>1, <3>2, Parameters DEF WireOK
  <2>5. QED BY <2>1, <2>2, <2>3, <2>4, OfferOK DEF WireOK
<1>2. CASE WireLoses
  <2>1. PICK i \in DOMAIN wire : wire' = RemoveAt(wire, i)
    BY <1>2 DEF WireLoses
  <2>2. wire \in Seq(Event) /\ Len(wire) \in Nat /\ i \in 1 .. Len(wire)
    BY <2>1, LenProperties DEF WireOK
  <2>3. \A j \in 1 .. Len(wire) : wire[j] \in Event
    BY <2>2, ElementOfSeq
  <2>4. SubSeq(wire, 1, i - 1) \in Seq(Event)
    <3>1. 1 \in Int /\ i - 1 \in Int /\ \A j \in 1 .. i - 1 : wire[j] \in Event
      BY <2>2, <2>3
    <3>2. QED BY <3>1, SubSeqProperties
  <2>5. SubSeq(wire, i + 1, Len(wire)) \in Seq(Event)
    <3>1. i + 1 \in Int /\ Len(wire) \in Int /\ \A j \in i + 1 .. Len(wire) : wire[j] \in Event
      BY <2>2, <2>3
    <3>2. QED BY <3>1, SubSeqProperties
  <2>6. wire' \in Seq(Event)
    BY <2>1, <2>4, <2>5, ConcatProperties DEF RemoveAt
  <2>7. QED BY <1>2, <2>6 DEF WireLoses, WireOK
<1>3. CASE Subscribe
  <2>1. Head(wire) \in Event /\ Tail(wire) \in Seq(Event)
    BY <1>3, HeadTailProperties DEF Subscribe, WireOK
  <2>2. QED BY <1>3, <2>1, OfferOK, Parameters DEF Subscribe, WireOK
<1>4. ASSUME NEW p \in Process, Relay(p) PROVE WireOK'
  <2>1. broadcast[p] \in Seq(Event) /\ Len(broadcast[p]) \in Nat /\ broadcast[p] # <<>>
    BY <1>4, LenProperties DEF WireOK, Relay
  <2>2. Tail(broadcast[p]) \in Seq(Event) /\ Len(Tail(broadcast[p])) = Len(broadcast[p]) - 1
    BY <2>1, HeadTailProperties
  <2>3. UNCHANGED <<published, wire>> /\ broadcast' = [broadcast EXCEPT ![p] = Tail(@)]
    BY <1>4 DEF Relay
  <2>4. QED BY <2>1, <2>2, <2>3, Parameters DEF WireOK
<1>5. ASSUME NEW c \in Client, ClientStep(c) PROVE UNCHANGED feed
  BY <1>5
     DEF ClientStep, HubRegister, HubUnregister, Connect, HangUp, ReadFails, Take, Write, StopWriting
<1>6. CASE UNCHANGED feed
  BY <1>6 DEF feed, WireOK
<1>7. QED BY <1>1, <1>2, <1>3, <1>4, <1>5, <1>6 DEF Next, vars

-----------------------------------------------------------------------------
(* One client.                                                             *)

Joined(c) == reader[c] \notin {"off", "registering"}

ClientInv(c) ==
    /\ conn[c] = "none" => reader[c] = "off"
    /\ writer[c] # "off" <=> Joined(c)
    /\ writer[c] = "off" =>
         /\ c \notin clients /\ closes[c] = 0
         /\ send[c] = <<>> /\ hand[c] = <<>> /\ received[c] = <<>> /\ due[c] = <<>>
    /\ closes[c] <= 1
    /\ c \in clients => closes[c] = 0
    /\ IsPrefix(received[c], due[c])
    /\ writer[c] = "running" =>
         IF c \in clients THEN Stream(c) = due[c] ELSE IsPrefix(Stream(c), due[c])

FeedInv == WireOK /\ ClientsOK /\ \A c \in Client : ClientInv(c)

LEMMA InitFeed == Init => FeedInv
<1> SUFFICES ASSUME Init PROVE FeedInv
  OBVIOUS
<1>1. ClientsOK
  BY EmptySeq, Parameters DEF Init, ClientsOK
<1>2. ASSUME NEW c \in Client PROVE ClientInv(c)
  <2>1. IsPrefix(received[c], due[c])
    BY EmptySeq, PrefixReflexive DEF Init
  <2>2. QED BY <2>1 DEF Init, ClientInv, Joined
<1>3. QED BY <1>1, <1>2, InitWire DEF FeedInv

\* What a client has of the feed, as sequences of events.
LEMMA Buffers ==
    ASSUME ClientsOK, NEW c \in Client
    PROVE  /\ send[c] \in Seq(Event) /\ hand[c] \in Seq(Event)
           /\ received[c] \in Seq(Event) /\ due[c] \in Seq(Event)
           /\ received[c] \o hand[c] \in Seq(Event) /\ Stream(c) \in Seq(Event)
           /\ Len(send[c]) \in Nat /\ Len(send[c]) <= SendCap
<1>1. /\ send[c] \in Seq(Event) /\ hand[c] \in Seq(Event)
      /\ received[c] \in Seq(Event) /\ due[c] \in Seq(Event) /\ Len(send[c]) <= SendCap
  BY DEF ClientsOK
<1>2. received[c] \o hand[c] \in Seq(Event)
  BY <1>1, ConcatProperties
<1>3. Stream(c) \in Seq(Event)
  BY <1>1, <1>2, ConcatProperties DEF Stream
<1>4. QED BY <1>1, <1>2, <1>3, LenProperties

\* What the hub's handling of an event does to a client.
Untouched(c) ==
    /\ send'[c] = send[c] /\ due'[c] = due[c] /\ closes'[c] = closes[c]
    /\ c \in clients' <=> c \in clients
Served(c, e) ==
    /\ c \in clients /\ Len(send[c]) # SendCap
    /\ send'[c] = Append(send[c], e) /\ due'[c] = Append(due[c], e) /\ closes'[c] = closes[c]
    /\ c \in clients'
Dropped(c, e) ==
    /\ c \in clients
    /\ send'[c] = send[c] /\ due'[c] = Append(due[c], e) /\ closes'[c] = closes[c] + 1
    /\ c \notin clients'

LEMMA RelayEffect ==
    ASSUME FeedInv, NEW p \in Process, Relay(p)
    PROVE  /\ UNCHANGED pumps
           /\ clients' \subseteq clients
           /\ send' \in [Client -> Seq(Event)] /\ due' \in [Client -> Seq(Event)]
           /\ closes' \in [Client -> Nat]
           /\ \E e \in Event : \A c \in Client : Untouched(c) \/ Served(c, e) \/ Dropped(c, e)
<1> DEFINE e == Head(broadcast[p])
<1>1. e \in Event
  BY HeadTailProperties DEF Relay, FeedInv, WireOK
<1>2. UNCHANGED pumps
  BY DEF Relay
<1>3. CASE p # Api
  <2>1. UNCHANGED <<due, send, closes, clients>>
    BY <1>3 DEF Relay
  <2>2. \A c \in Client : Untouched(c)
    BY <2>1 DEF Untouched
  <2>3. QED BY <1>1, <1>2, <2>1, <2>2 DEF FeedInv, ClientsOK
<1>4. CASE p = Api
  <2> DEFINE slow == {c \in Interested(e) : Full(c)}
  <2>1. /\ due' = AddedTo(due, Interested(e), e)
        /\ send' = AddedTo(send, Interested(e) \ slow, e)
        /\ closes' = [c \in Client |-> IF c \in slow THEN closes[c] + 1 ELSE closes[c]]
        /\ clients' = clients \ slow
    BY <1>4 DEF Relay
  <2>2. \A c \in Client : /\ send[c] \in Seq(Event) /\ Append(send[c], e) \in Seq(Event)
                          /\ due[c] \in Seq(Event) /\ Append(due[c], e) \in Seq(Event)
    BY <1>1, AppendProperties, Buffers DEF FeedInv
  <2> HIDE DEF e
  <2>3. send' \in [Client -> Seq(Event)] /\ due' \in [Client -> Seq(Event)]
    BY <2>1, <2>2 DEF AddedTo
  <2>4. closes' \in [Client -> Nat]
    BY <2>1 DEF FeedInv, ClientsOK
  <2>5. ASSUME NEW c \in Client PROVE Untouched(c) \/ Served(c, e) \/ Dropped(c, e)
    <3>1. CASE c \notin Interested(e)
      BY <2>1, <3>1 DEF AddedTo, Untouched
    <3>2. CASE c \in Interested(e) /\ ~Full(c)
      BY <2>1, <3>2 DEF AddedTo, Served, Interested, Full
    <3>3. CASE c \in Interested(e) /\ Full(c)
      BY <2>1, <3>3 DEF AddedTo, Dropped, Interested, Full
    <3>4. QED BY <3>1, <3>2, <3>3
  <2>6. clients' \subseteq clients
    BY <2>1
  <2>7. QED BY <1>1, <1>2, <2>3, <2>4, <2>5, <2>6
<1>5. QED BY <1>3, <1>4

LEMMA RelayTypes ==
    ASSUME FeedInv, NEW p \in Process, Relay(p)
    PROVE  ClientsOK'
<1>1. PICK e \in Event : \A c \in Client : Untouched(c) \/ Served(c, e) \/ Dropped(c, e)
  BY RelayEffect
<1>2. ASSUME NEW c \in Client PROVE Len(send'[c]) <= SendCap /\ Len(hand'[c]) <= 1
  <2>1. send[c] \in Seq(Event) /\ Len(send[c]) \in Nat /\ Len(send[c]) <= SendCap
    BY Buffers DEF FeedInv
  <2>2. Len(Append(send[c], e)) = Len(send[c]) + 1
    BY <2>1, AppendProperties
  <2>3. send'[c] = send[c] \/ (send'[c] = Append(send[c], e) /\ Len(send[c]) # SendCap)
    BY <1>1 DEF Untouched, Served, Dropped
  <2>4. hand'[c] = hand[c] /\ Len(hand[c]) <= 1
    BY RelayEffect DEF pumps, FeedInv, ClientsOK
  <2>5. QED BY <2>1, <2>2, <2>3, <2>4, Parameters
<1>3. QED BY <1>2, RelayEffect DEF pumps, FeedInv, ClientsOK

LEMMA RelayStep ==
    ASSUME FeedInv, NEW p \in Process, Relay(p), NEW c \in Client
    PROVE  ClientInv(c)'
<1>1. PICK e \in Event : Untouched(c) \/ Served(c, e) \/ Dropped(c, e)
  BY RelayEffect
<1>2. /\ conn' = conn /\ reader' = reader /\ writer' = writer /\ hand' = hand /\ received' = received
      /\ ClientInv(c)
  BY RelayEffect DEF pumps, FeedInv
<1>3. /\ send[c] \in Seq(Event) /\ received[c] \in Seq(Event) /\ due[c] \in Seq(Event)
      /\ received[c] \o hand[c] \in Seq(Event) /\ Stream(c) \in Seq(Event)
      /\ closes[c] \in Nat
  BY Buffers DEF FeedInv, ClientsOK
<1>4. IsPrefix(received[c], Append(due[c], e))
  BY <1>2, <1>3, PrefixOfLonger DEF ClientInv
<1>5. CASE Untouched(c)
  BY <1>2, <1>5 DEF Untouched, ClientInv, Joined, Stream
<1>6. CASE Served(c, e)
  <2>1. (received[c] \o hand[c]) \o Append(send[c], e) = Append(Stream(c), e)
    <3> DEFINE x == received[c] \o hand[c]
               y == send[c]
    <3>1. x \in Seq(Event) /\ y \in Seq(Event)
      BY <1>3
    <3>2. Stream(c) = x \o y
      BY DEF Stream
    <3> HIDE DEF x, y
    <3>3. x \o Append(y, e) = Append(x \o y, e)
      BY <3>1, ConcatAppend
    <3>4. x \o Append(y, e) = Append(Stream(c), e)
      BY <3>2, <3>3
    <3>5. QED BY <3>4 DEF x, y
  <2>2. Stream(c)' = Append(Stream(c), e) /\ due'[c] = Append(due[c], e)
    BY <1>2, <1>6, <2>1 DEF Served, Stream
  <2>3. QED BY <1>2, <1>4, <1>6, <2>2 DEF Served, ClientInv, Joined
<1>7. CASE Dropped(c, e)
  <2>1. Stream(c)' = Stream(c) /\ due'[c] = Append(due[c], e)
    BY <1>2, <1>7 DEF Dropped, Stream
  <2>2. writer[c] = "running" => IsPrefix(Stream(c)', due'[c])
    <3> SUFFICES ASSUME writer[c] = "running" PROVE IsPrefix(Stream(c)', due'[c])
      OBVIOUS
    <3>1. Stream(c) = due[c]
      BY <1>2, <1>7 DEF Dropped, ClientInv
    <3>2. IsPrefix(Stream(c), due[c])
      BY <1>3, <3>1, PrefixReflexive
    <3>3. QED BY <1>3, <2>1, <3>2, PrefixOfLonger
  <2>3. writer[c] # "off" /\ closes'[c] = 1 /\ c \notin clients' /\ closes'[c] <= 1
    BY <1>2, <1>3, <1>7 DEF Dropped, ClientInv
  <2>4. IsPrefix(received'[c], due'[c]) /\ (writer'[c] # "off" <=> reader'[c] \notin {"off", "registering"})
        /\ (conn'[c] = "none" => reader'[c] = "off")
    BY <1>2, <1>4, <2>1 DEF ClientInv, Joined
  <2>5. QED BY <1>2, <2>2, <2>3, <2>4 DEF ClientInv, Joined
<1>8. QED BY <1>1, <1>5, <1>6, <1>7

\* The two pumps only move what is already the client's.
LEMMA TakeKeepsStream ==
    ASSUME ClientsOK, NEW c \in Client, Take(c)
    PROVE  /\ ClientsOK' /\ Stream(c)' = Stream(c)
<1> DEFINE h == Head(send[c])
           t == Tail(send[c])
           r == received[c]
<1>1. send[c] \in Seq(Event) /\ send[c] # <<>> /\ r \in Seq(Event) /\ hand[c] = <<>>
      /\ Len(send[c]) \in Nat /\ Len(send[c]) <= SendCap
  BY Buffers DEF Take
<1>2. /\ h \in Event /\ t \in Seq(Event) /\ <<h>> \in Seq(Event)
      /\ Len(t) = Len(send[c]) - 1 /\ <<h>> \o t = send[c]
  BY <1>1, HeadThenTail
<1>3. /\ hand' = [hand EXCEPT ![c] = <<h>>] /\ send' = [send EXCEPT ![c] = t]
      /\ UNCHANGED <<clients, closes, conn, reader, writer, received, due>>
  BY DEF Take
<1> HIDE DEF h, t, r
<1>4. Len(<<h>>) = 1 /\ Len(t) <= SendCap
  BY <1>1, <1>2, Parameters
<1>5. ClientsOK'
  <2>1. hand' \in [Client -> Seq(Event)] /\ send' \in [Client -> Seq(Event)]
    BY <1>2, <1>3 DEF ClientsOK
  <2>2. \A d \in Client : Len(send'[d]) <= SendCap /\ Len(hand'[d]) <= 1
    BY <1>3, <1>4 DEF ClientsOK
  <2>3. QED BY <1>3, <2>1, <2>2 DEF ClientsOK
<1>6. (r \o <<h>>) \o t = r \o (<<h>> \o t)
  BY <1>1, <1>2, ConcatAssociative
<1>7. (r \o <<>>) \o send[c] = r \o send[c]
  BY <1>1, ConcatEmptySeq
<1>8. Stream(c)' = (r \o <<h>>) \o t
  BY <1>3 DEF Stream, r, ClientsOK
<1>9. Stream(c) = (r \o <<>>) \o send[c]
  BY <1>1 DEF Stream, r
<1>10. QED BY <1>2, <1>5, <1>6, <1>7, <1>8, <1>9

LEMMA WriteKeepsStream ==
    ASSUME ClientsOK, NEW c \in Client, Write(c)
    PROVE  /\ ClientsOK' /\ Stream(c)' = Stream(c)
           /\ received'[c] = received[c] \o hand[c]
<1> DEFINE x == received[c] \o hand[c]
<1>1. x \in Seq(Event)
  BY Buffers
<1>2. /\ received' = [received EXCEPT ![c] = x] /\ hand' = [hand EXCEPT ![c] = <<>>]
      /\ UNCHANGED <<clients, send, closes, conn, reader, writer, due>>
  BY DEF Write
<1> HIDE DEF x
<1>3. received'[c] = x
  BY <1>2 DEF ClientsOK
<1>4. ClientsOK'
  BY <1>1, <1>2, EmptySeq DEF ClientsOK
<1>5. x \o <<>> = x
  BY <1>1, ConcatEmptySeq
<1>6. Stream(c)' = (x \o <<>>) \o send[c]
  BY <1>2, <1>3 DEF Stream, ClientsOK
<1>7. QED BY <1>3, <1>4, <1>5, <1>6 DEF Stream, x

LEMMA ClientTypes ==
    ASSUME FeedInv, NEW c \in Client, ClientStep(c)
    PROVE  ClientsOK'
<1>1. CASE HubRegister(c)
  BY <1>1 DEF HubRegister, feed, FeedInv, ClientsOK
<1>2. CASE HubUnregister(c)
  <2>1. closes' \in [Client -> Nat]
    BY <1>2 DEF HubUnregister, FeedInv, ClientsOK
  <2>2. QED BY <1>2, <2>1 DEF HubUnregister, FeedInv, ClientsOK
<1>3. CASE Connect(c) \/ HangUp(c) \/ ReadFails(c)
  BY <1>3 DEF Connect, HangUp, ReadFails, FeedInv, ClientsOK
<1>4. CASE Take(c) \/ Write(c)
  BY <1>4, TakeKeepsStream, WriteKeepsStream DEF FeedInv
<1>5. CASE StopWriting(c)
  BY <1>5, EmptySeq DEF StopWriting, FeedInv, ClientsOK
<1>6. QED BY <1>1, <1>2, <1>3, <1>4, <1>5 DEF ClientStep

\* What a step of one client leaves as it is for another.
LEMMA OtherClients ==
    ASSUME FeedInv, NEW d \in Client, ClientStep(d), NEW c \in Client, c # d
    PROVE  ClientInv(c)'
<1>1. /\ send'[c] = send[c] /\ hand'[c] = hand[c] /\ received'[c] = received[c] /\ due'[c] = due[c]
      /\ closes'[c] = closes[c] /\ reader'[c] = reader[c] /\ writer'[c] = writer[c]
      /\ conn'[c] = conn[c]
      /\ c \in clients' <=> c \in clients
  BY DEF ClientStep, HubRegister, HubUnregister, Connect, HangUp, ReadFails, Take, Write, StopWriting,
         FeedInv, ClientsOK
<1>2. ClientInv(c)
  BY DEF FeedInv
<1>3. QED BY <1>1, <1>2 DEF ClientInv, Joined, Stream

LEMMA ThisClient ==
    ASSUME FeedInv, NEW c \in Client, ClientStep(c)
    PROVE  ClientInv(c)'
<1>1. ClientInv(c) /\ ClientsOK
  BY DEF FeedInv
<1>2. CASE HubRegister(c)
  <2>1. /\ send' = send /\ hand' = hand /\ received' = received /\ due' = due /\ closes' = closes
        /\ c \in clients' /\ writer'[c] = "running" /\ reader'[c] = "reading" /\ conn'[c] # "none"
    BY <1>1, <1>2 DEF HubRegister, ClientsOK, ClientInv
  <2>2. /\ send[c] = <<>> /\ hand[c] = <<>> /\ received[c] = <<>> /\ due[c] = <<>> /\ closes[c] = 0
    BY <1>1, <1>2 DEF HubRegister, ClientInv, Joined
  <2>3. (<<>> \o <<>>) \o <<>> = <<>>
    OBVIOUS
  <2>4. Stream(c)' = due'[c] /\ IsPrefix(received'[c], due'[c])
    BY <1>1, <2>1, <2>2, <2>3 DEF Stream, ClientInv
  <2>5. QED BY <2>1, <2>2, <2>4 DEF ClientInv, Joined
<1>3. CASE HubUnregister(c)
  <2>1. /\ send' = send /\ hand' = hand /\ received' = received /\ due' = due /\ writer' = writer
        /\ c \notin clients' /\ reader[c] = "leaving" /\ reader'[c] = "done"
        /\ closes'[c] = IF c \in clients THEN closes[c] + 1 ELSE closes[c]
        /\ conn'[c] # "none"
    BY <1>1, <1>3 DEF HubUnregister, ClientsOK, ClientInv
  <2>2. closes'[c] <= 1 /\ writer[c] # "off"
    BY <1>1, <2>1 DEF ClientInv, Joined
  <2>3. writer[c] = "running" => IsPrefix(Stream(c), due[c])
    <3>1. due[c] \in Seq(Event)
      BY <1>1, Buffers
    <3>2. QED BY <1>1, <3>1, PrefixReflexive DEF ClientInv
  <2>4. Stream(c)' = Stream(c)
    BY <2>1 DEF Stream
  <2>5. QED BY <1>1, <2>1, <2>2, <2>3, <2>4 DEF ClientInv, Joined
<1>4. CASE Connect(c) \/ HangUp(c) \/ ReadFails(c)
  <2>1. /\ UNCHANGED <<send, hand, received, due, closes, clients, writer>>
        /\ reader'[c] \in {"off", "registering"} <=> reader[c] \in {"off", "registering"}
        /\ conn'[c] # "none"
    <3>1. CASE HangUp(c)
      BY <1>1, <3>1 DEF HangUp, ClientsOK
    <3>2. CASE ReadFails(c)
      BY <1>1, <3>2 DEF ReadFails, ClientsOK
    <3>3. CASE Connect(c)
      BY <1>1, <3>3 DEF Connect, ClientsOK, ClientInv
    <3>4. QED BY <1>4, <3>1, <3>2, <3>3
  <2>2. QED BY <1>1, <2>1 DEF ClientInv, Joined, Stream
<1>5. CASE Take(c)
  <2>1. /\ UNCHANGED <<conn, received, due, closes, clients, writer, reader>>
        /\ writer[c] = "running" /\ Stream(c)' = Stream(c)
    BY <1>1, <1>5, TakeKeepsStream DEF Take
  <2>2. QED BY <1>1, <2>1 DEF ClientInv, Joined
<1>6. CASE Write(c)
  <2>1. /\ UNCHANGED <<conn, due, closes, clients, writer, reader>>
        /\ writer[c] = "running" /\ Stream(c)' = Stream(c) /\ received'[c] = received[c] \o hand[c]
    BY <1>1, <1>6, WriteKeepsStream DEF Write
  <2>2. /\ received[c] \o hand[c] \in Seq(Event) /\ send[c] \in Seq(Event) /\ due[c] \in Seq(Event)
        /\ Stream(c) \in Seq(Event)
    BY <1>1, Buffers
  <2>3. IsPrefix(Stream(c), due[c])
    BY <1>1, <2>1, <2>2, PrefixReflexive DEF ClientInv
  <2>4. IsPrefix(received'[c], due'[c])
    <3> DEFINE x == received[c] \o hand[c]
               y == send[c]
    <3>1. IsPrefix(x \o y, due[c]) /\ x \in Seq(Event) /\ y \in Seq(Event)
      BY <2>2, <2>3 DEF Stream
    <3> HIDE DEF x, y
    <3>2. IsPrefix(x, due[c])
      BY <2>2, <3>1, PrefixOfPrefix
    <3>3. QED BY <2>1, <3>2 DEF x
  <2>5. QED BY <1>1, <2>1, <2>4 DEF ClientInv, Joined
<1>7. CASE StopWriting(c)
  <2>1. /\ UNCHANGED <<received, send, due, closes, clients, reader>>
        /\ writer[c] = "running" /\ writer'[c] = "done" /\ conn'[c] = "down"
    BY <1>1, <1>7 DEF StopWriting, ClientsOK
  <2>2. QED BY <1>1, <2>1 DEF ClientInv, Joined
<1>8. QED BY <1>2, <1>3, <1>4, <1>5, <1>6, <1>7 DEF ClientStep

LEMMA FeedStep == FeedInv /\ [Next]_vars => FeedInv'
<1> SUFFICES ASSUME FeedInv, [Next]_vars PROVE FeedInv'
  OBVIOUS
<1>1. WireOK'
  BY WireStep DEF FeedInv
<1>2. ASSUME NEW p \in Process, Relay(p) PROVE FeedInv'
  BY <1>1, <1>2, RelayTypes, RelayStep DEF FeedInv
<1>3. ASSUME NEW d \in Client, ClientStep(d) PROVE FeedInv'
  <2>1. ASSUME NEW c \in Client PROVE ClientInv(c)'
    BY <1>3, ThisClient, OtherClients
  <2>2. QED BY <1>1, <1>3, <2>1, ClientTypes DEF FeedInv
<1>4. ASSUME UNCHANGED <<clients, send, closes, pumps, due>> PROVE FeedInv'
  <2>1. ClientsOK'
    BY <1>4 DEF pumps, FeedInv, ClientsOK
  <2>2. ASSUME NEW c \in Client PROVE ClientInv(c)'
    BY <1>4 DEF pumps, FeedInv, ClientInv, Joined, Stream
  <2>3. QED BY <1>1, <2>1, <2>2 DEF FeedInv
<1>5. CASE (\E s \in Source : Publish(s)) \/ WireLoses \/ Subscribe \/ UNCHANGED vars
  BY <1>4, <1>5 DEF Publish, WireLoses, Subscribe, vars
<1>6. QED BY <1>2, <1>3, <1>5 DEF Next

-----------------------------------------------------------------------------
(***************************************************************************)
(* No channel is over its capacity and no connection has two writes under  *)
(* way, for any capacities, processes, sources and clients.                *)
(***************************************************************************)
THEOREM FeedTypeCorrect == Spec => []TypeOK
<1>1. FeedInv => TypeOK
  BY TypeParts DEF FeedInv
<1>2. QED BY InitFeed, FeedStep, <1>1, PTL DEF Spec

(***************************************************************************)
(* The hub closes a client's channel at most once, and uses it only while  *)
(* it is open.                                                             *)
(***************************************************************************)
THEOREM ChannelsCloseOnce == Spec => []ClosedOnce
<1>1. FeedInv => ClosedOnce
  BY DEF FeedInv, ClientInv, ClosedOnce
<1>2. QED BY InitFeed, FeedStep, <1>1, PTL DEF Spec

(***************************************************************************)
(* A client that the hub knows has been written, is being written or has   *)
(* in its buffer all that was relayed to it; any other client a prefix.    *)
(***************************************************************************)
THEOREM NothingSkipped == Spec => []NoGaps
<1>1. FeedInv => NoGaps
  BY DEF FeedInv, ClientInv, NoGaps
<1>2. QED BY InitFeed, FeedStep, <1>1, PTL DEF Spec

-----------------------------------------------------------------------------
(* The inductive invariant behind InOrderPerSource.                        *)

Ascending(s) ==
    \A i, j \in 1 .. Len(s) : i < j /\ s[i].source = s[j].source => s[i].number < s[j].number

Before(S, T) == \A x \in S, y \in T : x.source = y.source => x.number < y.number

LEMMA AscendingAppend ==
    ASSUME NEW s \in Seq(Event), NEW e \in Event, Ascending(s), Before(Range(s), {e})
    PROVE  /\ Append(s, e) \in Seq(Event) /\ Ascending(Append(s, e))
           /\ Range(Append(s, e)) = Range(s) \cup {e}
<1> DEFINE t == Append(s, e)
<1>1. /\ t \in Seq(Event) /\ Len(t) = Len(s) + 1 /\ t[Len(s) + 1] = e /\ Len(s) \in Nat
      /\ \A i \in 1 .. Len(s) : t[i] = s[i]
  BY AppendProperties, LenProperties
<1>2. /\ Range(s) = {s[i] : i \in 1 .. Len(s)}
      /\ Range(t) = {t[i] : i \in 1 .. Len(t)}
  BY <1>1, RangeEquality
<1> HIDE DEF t
<1>3. Range(t) = Range(s) \cup {e}
  BY <1>1, <1>2
<1>4. ASSUME NEW i \in 1 .. Len(t), NEW j \in 1 .. Len(t), i < j, t[i].source = t[j].source
      PROVE  t[i].number < t[j].number
  <2>1. i \in 1 .. Len(s) /\ t[i] = s[i] /\ s[i] \in Range(s)
    BY <1>1, <1>2, <1>4
  <2>2. CASE j \in 1 .. Len(s)
    BY <1>1, <1>4, <2>1, <2>2 DEF Ascending
  <2>3. CASE t[j] = e
    BY <1>4, <2>1, <2>3 DEF Before
  <2>4. QED BY <1>1, <1>4, <2>2, <2>3
<1>5. QED BY <1>1, <1>3, <1>4 DEF Ascending, t

\* Leaving out one element.
LEMMA AscendingWithout ==
    ASSUME NEW s \in Seq(Event), NEW t \in Seq(Event), NEW k \in 1 .. Len(s),
           Len(t) = Len(s) - 1,
           \A i \in 1 .. Len(t) : t[i] = IF i < k THEN s[i] ELSE s[i + 1],
           Ascending(s)
    PROVE  Ascending(t) /\ Range(t) \subseteq Range(s)
<1>1. Len(s) \in Nat /\ Len(t) \in Nat
  BY LenProperties
<1>2. /\ Range(s) = {s[i] : i \in 1 .. Len(s)}
      /\ Range(t) = {t[i] : i \in 1 .. Len(t)}
  BY RangeEquality
<1>3. \A i \in 1 .. Len(t) : t[i] \in Range(s)
  BY <1>1, <1>2
<1>4. ASSUME NEW i \in 1 .. Len(t), NEW j \in 1 .. Len(t), i < j, t[i].source = t[j].source
      PROVE  t[i].number < t[j].number
  <2>1. PICK a \in 1 .. Len(s) : t[i] = s[a] /\ a = IF i < k THEN i ELSE i + 1
    BY <1>1
  <2>2. PICK b \in 1 .. Len(s) : t[j] = s[b] /\ b = IF j < k THEN j ELSE j + 1
    BY <1>1
  <2>3. a < b
    BY <1>1, <1>4, <2>1, <2>2
  <2>4. QED BY <1>4, <2>1, <2>2, <2>3 DEF Ascending
<1>5. QED BY <1>2, <1>3, <1>4 DEF Ascending

LEMMA AscendingTail ==
    ASSUME NEW s \in Seq(Event), s # <<>>, Ascending(s)
    PROVE  /\ Head(s) \in Range(s) /\ Head(s) \in Event
           /\ Tail(s) \in Seq(Event) /\ Ascending(Tail(s)) /\ Range(Tail(s)) \subseteq Range(s)
           /\ Before({Head(s)}, Range(Tail(s)))
<1> DEFINE t == Tail(s)
<1>1. /\ Head(s) = s[1] /\ Head(s) \in Event /\ t \in Seq(Event) /\ Len(t) = Len(s) - 1
      /\ \A i \in 1 .. Len(t) : t[i] = s[i + 1]
  BY HeadTailProperties
<1>2. /\ Len(s) \in Nat \ {0} /\ Range(s) = {s[i] : i \in 1 .. Len(s)}
      /\ Range(t) = {t[i] : i \in 1 .. Len(t)}
  <2> HIDE DEF t
  <2>1. Range(s) = {s[i] : i \in 1 .. Len(s)} /\ Range(t) = {t[i] : i \in 1 .. Len(t)}
    BY <1>1, RangeEquality
  <2>2. Len(s) \in Nat \ {0}
    BY EmptySeq, LenProperties
  <2>3. QED BY <2>1, <2>2
<1> HIDE DEF t
<1>3. Ascending(t) /\ Range(t) \subseteq Range(s)
  <2>1. 1 \in 1 .. Len(s) /\ \A i \in 1 .. Len(t) : t[i] = IF i < 1 THEN s[i] ELSE s[i + 1]
    BY <1>1, <1>2
  <2>2. QED BY <1>1, <2>1, AscendingWithout
<1>4. ASSUME NEW y \in Range(t), s[1].source = y.source PROVE s[1].number < y.number
  <2>1. PICK i \in 1 .. Len(t) : y = t[i]
    BY <1>2
  <2>2. i + 1 \in 1 .. Len(s) /\ 1 < i + 1 /\ y = s[i + 1]
    BY <1>1, <1>2, <2>1
  <2>3. QED BY <1>2, <1>4, <2>2 DEF Ascending
<1>5. QED BY <1>1, <1>2, <1>3, <1>4 DEF Before, t

LEMMA AscendingRemoveAt ==
    ASSUME NEW s \in Seq(Event), NEW k \in 1 .. Len(s), Ascending(s)
    PROVE  Ascending(RemoveAt(s, k)) /\ Range(RemoveAt(s, k)) \subseteq Range(s)
<1> DEFINE a == SubSeq(s, 1, k - 1)
           b == SubSeq(s, k + 1, Len(s))
<1>1. Len(s) \in Nat /\ \A i \in 1 .. Len(s) : s[i] \in Event
  BY LenProperties, ElementOfSeq
<1>2. a \in Seq(Event) /\ Len(a) = k - 1 /\ \A i \in 1 .. k - 1 : a[i] = s[i]
  <2>1. 1 \in Int /\ k - 1 \in Int /\ \A i \in 1 .. k - 1 : s[i] \in Event
    BY <1>1
  <2>2. /\ a \in Seq(Event)
        /\ Len(a) = IF 1 <= k - 1 THEN (k - 1) - 1 + 1 ELSE 0
        /\ \A i \in 1 .. (k - 1) - 1 + 1 : a[i] = s[1 + i - 1]
    BY <2>1, SubSeqProperties
  <2> HIDE DEF a
  <2>3. QED BY <1>1, <2>2
<1>3. b \in Seq(Event) /\ Len(b) = Len(s) - k /\ \A i \in 1 .. Len(s) - k : b[i] = s[k + i]
  <2>1. k + 1 \in Int /\ Len(s) \in Int /\ \A i \in k + 1 .. Len(s) : s[i] \in Event
    BY <1>1
  <2>2. /\ b \in Seq(Event)
        /\ Len(b) = IF k + 1 <= Len(s) THEN Len(s) - (k + 1) + 1 ELSE 0
        /\ \A i \in 1 .. Len(s) - (k + 1) + 1 : b[i] = s[(k + 1) + i - 1]
    BY <2>1, SubSeqProperties
  <2> HIDE DEF b
  <2>3. QED BY <1>1, <2>2
<1> HIDE DEF a, b
<1>4. /\ a \o b \in Seq(Event) /\ Len(a \o b) = Len(a) + Len(b)
      /\ \A i \in 1 .. Len(a) + Len(b) : (a \o b)[i] = IF i <= Len(a) THEN a[i] ELSE b[i - Len(a)]
  BY <1>2, <1>3, ConcatProperties
<1> DEFINE t == a \o b
<1>5. /\ t \in Seq(Event) /\ Len(t) = Len(s) - 1
      /\ \A i \in 1 .. Len(t) : t[i] = IF i < k THEN s[i] ELSE s[i + 1]
  BY <1>1, <1>2, <1>3, <1>4
<1> HIDE DEF t
<1>6. Ascending(t) /\ Range(t) \subseteq Range(s)
  BY <1>5, AscendingWithout
<1>7. RemoveAt(s, k) = t
  BY DEF RemoveAt, t, a, b
<1>8. QED BY <1>6, <1>7

Told(S, count) == \A e \in S : e.number <= count[e.source]

\* On the way from Redis (w) through the API's channel (b), what is ahead was
\* published before; what the API publishes itself does not go to Redis.
Lane(w, b, count) ==
    /\ \A e \in Range(w) : HubOf[e.source] # Api
    /\ Ascending(w) /\ Ascending(b) /\ Before(Range(b), Range(w))
    /\ Told(Range(w), count) /\ Told(Range(b), count)

\* What a client was relayed (d) was published before all that.
Ahead(d, w, b, count) ==
    /\ Ascending(d) /\ Told(Range(d), count)
    /\ Before(Range(d), Range(b)) /\ Before(Range(d), Range(w))

OrderInv ==
    /\ Lane(wire, broadcast[Api], published)
    /\ \A c \in Client : Ahead(due[c], wire, broadcast[Api], published)

LEMMA OrderTypes ==
    ASSUME FeedInv
    PROVE  /\ wire \in Seq(Event) /\ broadcast[Api] \in Seq(Event) /\ Api \in Process
           /\ Range(wire) \subseteq Event /\ Range(broadcast[Api]) \subseteq Event
           /\ \A c \in Client : due[c] \in Seq(Event) /\ Range(due[c]) \subseteq Event
<1>1. /\ wire \in Seq(Event) /\ broadcast[Api] \in Seq(Event) /\ Api \in Process
      /\ \A c \in Client : due[c] \in Seq(Event)
  BY Parameters DEF FeedInv, WireOK, ClientsOK
<1>2. QED BY <1>1, RangeOfSeq

\* Offer puts an event at the end of a channel, or nowhere.
LEMMA OfferEffect ==
    ASSUME FeedInv, NEW p \in Process, NEW e, Offer(p, e)
    PROVE  \/ broadcast'[Api] = broadcast[Api]
           \/ p = Api /\ broadcast'[Api] = Append(broadcast[Api], e)
  BY Parameters DEF Offer, Offered, FeedInv, WireOK

\* Losing events does no harm.
LEMMA LaneShrinks ==
    ASSUME NEW w, NEW b, NEW count, Lane(w, b, count),
           NEW x, Ascending(x), Range(x) \subseteq Range(w),
           NEW y, Ascending(y), Range(y) \subseteq Range(b)
    PROVE  /\ Lane(x, y, count)
           /\ \A d : Ahead(d, w, b, count) => Ahead(d, x, y, count)
  BY DEF Lane, Ahead, Before, Told

LEMMA OrderOnPublish ==
    ASSUME FeedInv, OrderInv, NEW s \in Source, Publish(s)
    PROVE  OrderInv'
<1> DEFINE e == [source |-> s, number |-> published[s] + 1]
           w == wire
           b == broadcast[Api]
           old == published
           new == [published EXCEPT ![s] = published[s] + 1]
<1>1. /\ e \in Event /\ e.source = s /\ e.number = old[s] + 1 /\ HubOf[s] \in Process
      /\ old \in [Source -> Nat] /\ new = [old EXCEPT ![s] = old[s] + 1]
  BY Parameters DEF Event, FeedInv, WireOK
<1>2. /\ Offer(HubOf[s], e) /\ due' = due /\ published' = new
      /\ (HubOf[s] # Api /\ wire' = Append(wire, e)) \/ wire' = wire
  BY DEF Publish
<1> HIDE DEF e, new, old
<1>3. /\ w \in Seq(Event) /\ b \in Seq(Event) /\ Range(w) \subseteq Event /\ Range(b) \subseteq Event
      /\ \A c \in Client : Range(due[c]) \subseteq Event
      /\ Lane(w, b, old) /\ \A c \in Client : Ahead(due[c], w, b, old)
  BY OrderTypes DEF OrderInv, old
<1>4. \/ wire' = w /\ broadcast'[Api] = b
      \/ wire' = w /\ broadcast'[Api] = Append(b, e) /\ HubOf[s] = Api
      \/ wire' = Append(w, e) /\ broadcast'[Api] = b /\ HubOf[s] # Api
  BY <1>1, <1>2, OfferEffect
<1>5. \A S \in SUBSET Event : Told(S, old) => Told(S, new) /\ Before(S, {e})
  BY <1>1 DEF Told, Before, Event
<1>6. Told({e}, new)
  BY <1>1 DEF Told
<1> HIDE DEF w, b
<1>7. /\ Told(Range(w), new) /\ Told(Range(b), new) /\ Before(Range(w), {e}) /\ Before(Range(b), {e})
      /\ \A c \in Client : Told(Range(due[c]), new) /\ Before(Range(due[c]), {e})
  BY <1>3, <1>5 DEF Lane, Ahead
<1>8. /\ Ascending(Append(w, e)) /\ Range(Append(w, e)) = Range(w) \cup {e}
      /\ Ascending(Append(b, e)) /\ Range(Append(b, e)) = Range(b) \cup {e}
  BY <1>1, <1>3, <1>7, AscendingAppend DEF Lane
<1>9. /\ Lane(w, b, new) /\ \A c \in Client : Ahead(due[c], w, b, new)
  BY <1>3, <1>7 DEF Lane, Ahead
<1>10. ASSUME HubOf[s] # Api
       PROVE  /\ Lane(Append(w, e), b, new)
              /\ \A c \in Client : Ahead(due[c], Append(w, e), b, new)
  BY <1>1, <1>6, <1>7, <1>8, <1>9, <1>10 DEF Lane, Ahead, Before, Told
<1>11. ASSUME HubOf[s] = Api
       PROVE  /\ Lane(w, Append(b, e), new)
              /\ \A c \in Client : Ahead(due[c], w, Append(b, e), new)
  <2>1. Before({e}, Range(w))
    BY <1>1, <1>9, <1>11 DEF Lane, Before
  <2>2. QED BY <1>6, <1>7, <1>8, <1>9, <2>1 DEF Lane, Ahead, Before, Told
<1>12. QED BY <1>2, <1>4, <1>9, <1>10, <1>11 DEF OrderInv

\* SubscribeRedis moves the first event from Redis to the end of the channel.
LEMMA OrderOnSubscribe ==
    ASSUME FeedInv, OrderInv, Subscribe
    PROVE  OrderInv'
<1> DEFINE e == Head(wire)
           w == wire
           x == Tail(wire)
           b == broadcast[Api]
           n == published
<1>1. /\ w \in Seq(Event) /\ w # <<>> /\ b \in Seq(Event) /\ Range(b) \subseteq Event
      /\ Lane(w, b, n) /\ \A c \in Client : Ahead(due[c], w, b, n)
  BY OrderTypes DEF OrderInv, Subscribe
<1>2. /\ wire' = x /\ due' = due /\ published' = n
      /\ broadcast'[Api] = b \/ broadcast'[Api] = Append(b, e)
  BY OrderTypes, OfferEffect DEF Subscribe
<1>3. /\ e \in Range(w) /\ e \in Event
      /\ Ascending(x) /\ Range(x) \subseteq Range(w) /\ Before({e}, Range(x))
  BY <1>1, AscendingTail DEF Lane
<1> HIDE DEF e, w, x, b, n
<1>4. Before(Range(b), {e}) /\ \A c \in Client : Before(Range(due[c]), {e})
  BY <1>1, <1>3 DEF Lane, Ahead, Before
<1>5. Ascending(Append(b, e)) /\ Range(Append(b, e)) = Range(b) \cup {e}
  BY <1>1, <1>3, <1>4, AscendingAppend DEF Lane
<1>6. Lane(x, b, n) /\ \A c \in Client : Ahead(due[c], x, b, n)
  BY <1>1, <1>3, LaneShrinks DEF Lane
<1>7. Lane(x, Append(b, e), n) /\ \A c \in Client : Ahead(due[c], x, Append(b, e), n)
  BY <1>1, <1>3, <1>4, <1>5, <1>6 DEF Lane, Ahead, Before, Told
<1>8. QED BY <1>2, <1>6, <1>7 DEF OrderInv

\* The hub moves the first event of the channel to the clients that want it.
LEMMA OrderOnRelay ==
    ASSUME FeedInv, OrderInv, NEW p \in Process, Relay(p)
    PROVE  OrderInv'
<1>1. CASE p # Api
  <2>1. broadcast'[Api] = broadcast[Api] /\ UNCHANGED <<published, wire, due>>
    BY <1>1, OrderTypes DEF Relay, FeedInv, WireOK
  <2>2. QED BY <2>1 DEF OrderInv
<1>2. CASE p = Api
  <2> DEFINE e == Head(broadcast[Api])
             w == wire
             b == broadcast[Api]
             y == Tail(broadcast[Api])
             n == published
  <2>1. /\ w \in Seq(Event) /\ b \in Seq(Event) /\ b # <<>>
        /\ Lane(w, b, n)
        /\ \A c \in Client : Ahead(due[c], w, b, n) /\ due[c] \in Seq(Event)
    BY <1>2, OrderTypes DEF OrderInv, Relay
  <2>2. /\ wire' = w /\ published' = n /\ broadcast'[Api] = y
        /\ \A c \in Client : due'[c] = due[c] \/ due'[c] = Append(due[c], e)
    BY <1>2, OrderTypes DEF Relay, AddedTo, FeedInv, WireOK
  <2>3. /\ e \in Range(b) /\ e \in Event
        /\ Ascending(y) /\ Range(y) \subseteq Range(b) /\ Before({e}, Range(y))
    BY <2>1, AscendingTail DEF Lane
  <2> HIDE DEF e, w, b, y, n
  <2>4. Lane(w, y, n) /\ \A c \in Client : Ahead(due[c], w, y, n)
    BY <2>1, <2>3, LaneShrinks DEF Lane
  <2>5. ASSUME NEW c \in Client PROVE Ahead(Append(due[c], e), w, y, n)
    <3>1. Before(Range(due[c]), {e}) /\ Before({e}, Range(w)) /\ Told({e}, n)
      BY <2>1, <2>3 DEF Lane, Ahead, Before, Told
    <3>2. Ascending(Append(due[c], e)) /\ Range(Append(due[c], e)) = Range(due[c]) \cup {e}
      BY <2>1, <2>3, <3>1, AscendingAppend DEF Ahead
    <3>3. QED BY <2>3, <2>4, <3>1, <3>2 DEF Ahead, Before, Told
  <2>6. QED BY <2>2, <2>4, <2>5 DEF OrderInv
<1>3. QED BY <1>1, <1>2

LEMMA OrderStep == FeedInv /\ OrderInv /\ [Next]_vars => OrderInv'
<1> SUFFICES ASSUME FeedInv, OrderInv, [Next]_vars PROVE OrderInv'
  OBVIOUS
<1>1. CASE WireLoses
  <2>1. PICK k \in DOMAIN wire : wire' = RemoveAt(wire, k)
    BY <1>1 DEF WireLoses
  <2>2. wire \in Seq(Event) /\ k \in 1 .. Len(wire)
    BY <2>1, OrderTypes, LenProperties
  <2>3. Ascending(RemoveAt(wire, k)) /\ Range(RemoveAt(wire, k)) \subseteq Range(wire)
    BY <2>2, AscendingRemoveAt DEF OrderInv, Lane
  <2>4. UNCHANGED <<published, broadcast, due>>
    BY <1>1 DEF WireLoses
  <2>5. QED BY <2>1, <2>3, <2>4, LaneShrinks DEF OrderInv, Lane
<1>2. ASSUME NEW c \in Client, ClientStep(c) PROVE OrderInv'
  <2>1. UNCHANGED <<feed, due>>
    BY <1>2
       DEF ClientStep, HubRegister, HubUnregister, Connect, HangUp, ReadFails, Take, Write, StopWriting
  <2>2. QED BY <2>1 DEF feed, OrderInv
<1>3. CASE UNCHANGED vars
  BY <1>3 DEF vars, feed, OrderInv
<1>4. QED
  BY <1>1, <1>2, <1>3, OrderOnPublish, OrderOnSubscribe, OrderOnRelay DEF Next

LEMMA InitOrder == Init => OrderInv
<1>1. Range(<<>>) = {} /\ Len(<<>>) = 0
  BY EmptySeq DEF Range
<1>2. Ascending(<<>>)
  BY <1>1 DEF Ascending
<1>3. QED BY <1>1, <1>2, Parameters DEF Init, OrderInv, Lane, Ahead, Before, Told

\* What a client has received is the beginning of what it was relayed.
LEMMA ReceivedInOrder ==
    ASSUME FeedInv, OrderInv
    PROVE  InOrderPerSource
<1> SUFFICES ASSUME NEW c \in Client, NEW i \in DOMAIN received[c], NEW j \in DOMAIN received[c],
                    i < j, received[c][i].source = received[c][j].source
             PROVE  received[c][i].number < received[c][j].number
  BY DEF InOrderPerSource
<1>1. received[c] \in Seq(Event) /\ due[c] \in Seq(Event) /\ IsPrefix(received[c], due[c])
  BY DEF FeedInv, ClientsOK, ClientInv
<1>2. Len(received[c]) <= Len(due[c]) /\ \A k \in 1 .. Len(received[c]) : received[c][k] = due[c][k]
  BY <1>1, PrefixByElements
<1>3. /\ i \in 1 .. Len(received[c]) /\ j \in 1 .. Len(received[c])
      /\ Len(received[c]) \in Nat /\ Len(due[c]) \in Nat
  BY <1>1, LenProperties
<1>4. i \in 1 .. Len(due[c]) /\ j \in 1 .. Len(due[c])
      /\ received[c][i] = due[c][i] /\ received[c][j] = due[c][j]
  BY <1>2, <1>3
<1>5. QED BY <1>4 DEF OrderInv, Ahead, Ascending

(***************************************************************************)
(* A client sees the events of one source in the order of their            *)
(* publication and none twice, whatever Redis loses, the channels drop and *)
(* the clients do: for any sources, processes, clients and capacities.     *)
(***************************************************************************)
THEOREM SourcesInOrder == Spec => []InOrderPerSource
<1>1. FeedInv /\ OrderInv => InOrderPerSource
  BY ReceivedInOrder
<1>2. QED BY InitFeed, FeedStep, InitOrder, OrderStep, <1>1, PTL DEF Spec
=============================================================================
