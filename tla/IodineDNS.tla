------------------------------ MODULE IodineDNS ------------------------------
(***************************************************************************)
(* The rules of the Iodine tunnel (IODINE_DNS, probabilistic/iodine_dns.   *)
(* maude): Alice (SendApp) hands packets to the Iodine client (WClient),   *)
(* which sends them fragment by fragment in DNS queries; the Iodine server *)
(* (WNameserver) answers every query, acknowledging upstream and carrying  *)
(* Bob's packets downstream; Bob (RcvApp) takes reassembled packets.       *)
(* Each action is one rewrite rule.                                        *)
(*                                                                         *)
(* Time is abstracted to order: a message in the network takes any time or *)
(* is lost; a timer fires at any moment after it was set, except that a    *)
(* pacing timer (10 ms) does not overtake the packet it was set with (the  *)
(* links between an application and its endpoint take microseconds).       *)
(***************************************************************************)
EXTENDS IodineNode, FiniteSets, Bags, BagsExt, Functions

CONSTANTS
    Inputs,             \* [Apps -> Seq(Files)]: files that arrive at an application
    OwnFile,            \* [Apps -> Files \cup {NoFile}]: the file it generates itself
    MaxInFlight,        \* bound: no timer adds a query beyond this many messages
    MaxLocal,           \* bound: no event is handled beyond this many local messages
    MaxMoot,            \* bound: no event is handled beyond this many moot timers
    MaxLosses           \* bound: messages the network may lose

Apps == {"Alice", "Bob"}

ASSUME DNSAssumption ==
    /\ Inputs \in [Apps -> Seq(Files)]
    /\ OwnFile \in [Apps -> Files \cup {NoFile}]
    /\ MaxInFlight \in Nat \ {0}
    /\ MaxLocal \in Nat \ {0}
    /\ MaxMoot \in Nat
    /\ MaxLosses \in Nat

VARIABLES
    app,                \* the two applications
    client,             \* the Iodine client
    pingsStarted,       \* the client's periodic pings are running
    server,             \* the Iodine server
    queries,            \* bag of fragments on their way to the server
    responses,          \* bag of fragments on their way to the client
    local,              \* bag of messages between an application and its endpoint
    ackTimeouts,        \* bag of <<seq, frag>>: pending ackTimeout timers
    pktTimeouts,        \* pending pktTimeout timers of each application
    pingTimeouts,       \* pending pingTimeout timers
    arrived,            \* files of Inputs that have arrived
    output,             \* files each application has handed on
    losses              \* messages lost so far

vars == <<app, client, pingsStarted, server, queries, responses, local,
          ackTimeouts, pktTimeouts, pingTimeouts, arrived, output, losses>>

-----------------------------------------------------------------------------
(* Messages between an application and its endpoint *)

Actors == {"Alice", "Client", "Server", "Bob"}

Msg == [to: Actors, kind: {"start", "txDone", "startPeriodicPings"}, pkt: {nilPacket}]
           \cup [to: Actors, kind: {"packet"}, pkt: Packet]

Signal(to, kind) == [to |-> to, kind |-> kind, pkt |-> nilPacket]
PacketTo(to, p) == [to |-> to, kind |-> "packet", pkt |-> p]

EndpointOf(a) == IF a = "Alice" THEN "Client" ELSE "Server"

\* The bag B with m added when the condition holds.
AddIf(B, cond, m) == IF cond THEN BagAdd(B, m) ELSE B

Consume(m) == BagIn(m, local)

Room == BagCardinality(queries) + BagCardinality(responses) < MaxInFlight

canEmbed(e) == ~isSending(e) \/ e.numAttempts >= 2

\* Packets that wait for the client to have room; the tunnel runs on meanwhile.
Waiting == IF canEmbed(client) THEN {}
           ELSE {m \in BagToSet(local) : m.to = "Client" /\ m.kind = "packet"}

isTimeOutMoot(t) == ~(isSending(client) /\ isTimeOutMatch(client, t))

\* Packets on their way to the server, which a query may overtake.
ToServer == {m \in BagToSet(local) : m.to = "Server"}

\* Other local messages take microseconds: few are pending when the next event comes.
\* Timers that are moot change nothing when they fire: few are kept.
LocalRoom ==
    /\ BagCardinality(local) - Cardinality(Waiting \cup ToServer) < MaxLocal
    /\ Cardinality({t \in BagToSet(ackTimeouts) : isTimeOutMoot(t)}) <= MaxMoot

-----------------------------------------------------------------------------
(* Applications *)

canSend(a) == a.queue # <<>>

\* A file arrives and is queued; the application signals itself to start.
AppHandleFile(a) ==
    LET s == packetizeProb(app[a], Inputs[a][arrived[a] + 1])
    IN  /\ LocalRoom
        /\ arrived[a] < Len(Inputs[a])
        /\ arrived' = [arrived EXCEPT ![a] = @ + 1]
        /\ app' = [app EXCEPT ![a] =
                     [s EXCEPT !.queuePopulated = a = "Bob" \/ s.queuePopulated]]
        /\ local' = BagAdd(local, Signal(a, "start"))
        /\ UNCHANGED <<client, pingsStarted, server, queries, responses,
                       ackTimeouts, pktTimeouts, pingTimeouts, output, losses>>

\* The application's state once its own file, if any, is in the queue.
populate(a) ==
    IF app[a].queuePopulated \/ OwnFile[a] = NoFile
    THEN [app[a] EXCEPT !.queuePopulated = TRUE]
    ELSE [packetizeProb(app[a], OwnFile[a]) EXCEPT !.queuePopulated = TRUE]

\* Hand the head of s's queue to the endpoint if sends holds, and pace the next.
SendOrWait(a, s, sends, msgs) ==
    /\ app' = [app EXCEPT ![a] = IF sends THEN sendPkt(s) ELSE s]
    /\ local' = IF sends THEN BagAdd(msgs, PacketTo(EndpointOf(a), Head(s.queue)))
                         ELSE msgs
    /\ pktTimeouts' = IF sends THEN [pktTimeouts EXCEPT ![a] = @ + 1]
                               ELSE pktTimeouts

\* start makes Alice consider the client ready, whoever sent it.
SendAppSendPacket ==
    LET m == Signal("Alice", "start")
        s == [populate("Alice") EXCEPT !.iodineReady = TRUE]
    IN  /\ Consume(m)
        /\ SendOrWait("Alice", s, s.numAdmittedPkts > 0 /\ canSend(s),
               BagAdd(BagRemove(local, m), Signal("Client", "startPeriodicPings")))
        /\ UNCHANGED <<client, pingsStarted, server, queries, responses,
                       ackTimeouts, pingTimeouts, arrived, output, losses>>

\* start leaves Bob's view of the server as it was.
ReceiveAppSendPacket ==
    LET m == Signal("Bob", "start")
        s == populate("Bob")
    IN  /\ Consume(m)
        /\ SendOrWait("Bob", s,
               s.iodineReady /\ s.numAdmittedPkts > 0 /\ canSend(s), BagRemove(local, m))
        /\ UNCHANGED <<client, pingsStarted, server, queries, responses,
                       ackTimeouts, pingTimeouts, arrived, output, losses>>

ReceiveAppTxDone ==
    LET m == Signal("Bob", "txDone")
    IN  /\ Consume(m)
        /\ app' = [app EXCEPT !["Bob"].iodineReady = TRUE]
        /\ local' = BagAdd(BagRemove(local, m), Signal("Bob", "start"))
        /\ UNCHANGED <<client, pingsStarted, server, queries, responses, ackTimeouts,
                       pktTimeouts, pingTimeouts, arrived, output, losses>>

\* A packet still on its link, and not waiting for a busy client.
UnderWay(a) ==
    \E m \in BagToSet(local) :
        /\ m.kind = "packet" /\ m.to = EndpointOf(a)
        /\ m \notin Waiting

\* The pacing interval of application a is over: one more packet is admitted.
AppPktTimeout(a) ==
    LET s == [app[a] EXCEPT !.numAdmittedPkts = @ + 1]
        sends == s.iodineReady /\ canSend(s)
    IN  /\ LocalRoom
        /\ pktTimeouts[a] > 0
        /\ ~UnderWay(a)
        /\ app' = [app EXCEPT ![a] = IF sends THEN sendPkt(s) ELSE s]
        /\ local' = IF sends
                    THEN BagAdd(local, PacketTo(EndpointOf(a), Head(s.queue)))
                    ELSE local
        /\ pktTimeouts' = IF sends THEN pktTimeouts
                                   ELSE [pktTimeouts EXCEPT ![a] = @ - 1]
        /\ UNCHANGED <<client, pingsStarted, server, queries, responses,
                       ackTimeouts, pingTimeouts, arrived, output, losses>>

\* Bob hands the file on with the packet marked last.
ReceiveAppRcvPacket ==
    \E m \in BagToSet(local) :
        /\ m.to = "Bob" /\ m.kind = "packet"
        /\ app' = [app EXCEPT !["Bob"].rcvd = Append(@, m.pkt)]
        /\ local' = BagRemove(local, m)
        /\ output' = IF m.pkt.lastPacket
                     THEN [output EXCEPT !["Bob"] = Append(@, m.pkt.file)] ELSE output
        /\ UNCHANGED <<client, pingsStarted, server, queries, responses, ackTimeouts,
                       pktTimeouts, pingTimeouts, arrived, losses>>

\* Alice hands the file on with every packet.
SendAppRcvPacket ==
    \E m \in BagToSet(local) :
        /\ m.to = "Alice" /\ m.kind = "packet"
        /\ app' = [app EXCEPT !["Alice"].rcvd = <<m.pkt>> \o @]
        /\ local' = BagRemove(local, m)
        /\ output' = [output EXCEPT !["Alice"] = Append(@, m.pkt.file)]
        /\ UNCHANGED <<client, pingsStarted, server, queries, responses, ackTimeouts,
                       pktTimeouts, pingTimeouts, arrived, losses>>

-----------------------------------------------------------------------------
(* Iodine client *)

currentNumber(e) == <<e.outSeqNo, e.outFragNo>>

\* Variant of Transmit: the timer is set for the number the client had before.
TransmitOldTimer(e) ==
    /\ queries' = BagAdd(queries, grabCurrentFragment(e))
    /\ ackTimeouts' = BagAdd(ackTimeouts, currentNumber(client))

\* Variant of Transmit: only the first fragment of a packet leaves.
TransmitFirst(e) ==
    /\ queries' = AddIf(queries, e.outFragNo = 1, grabCurrentFragment(e))
    /\ ackTimeouts' = AddIf(ackTimeouts, e.outFragNo = 1, currentNumber(e))

\* The query of sendFragment and the ackTimeout set with it.
Transmit(e) ==
    /\ queries' = BagAdd(queries, grabCurrentFragment(e))
    /\ ackTimeouts' = BagAdd(ackTimeouts, currentNumber(e))

\* The client takes a packet when idle, or gives up the one it has retried.
IClientEmbedding ==
    \E m \in BagToSet(local) :
        /\ m.to = "Client" /\ m.kind = "packet"
        /\ canEmbed(client)
        /\ client' = incrNumAttempts(handleNewPacket(client, m.pkt))
        /\ Transmit(handleNewPacket(client, m.pkt))
        /\ local' = BagRemove(local, m)
        /\ UNCHANGED <<app, pingsStarted, server, responses, pktTimeouts,
                       pingTimeouts, arrived, output, losses>>

\* A response: take its data and its ack, then send the current fragment (the
\* next one or the same one again), or ping for more, or tell Alice to go on.
IClientExtractFromServer ==
    \E f \in BagToSet(responses) :
        LET e == processFragment(client, f)
            pings == ~isSending(e) /\ ~isEmptyFile(f) /\ ~f.lastFrag
            nudge == AddIf(local, ~isSending(e) /\ ~pings, Signal("Alice", "start"))
        IN  /\ LocalRoom
            /\ responses' = BagRemove(responses, f)
            /\ client' = updateRcvAppAlice(IF isSending(e) THEN incrNumAttempts(e) ELSE e)
            /\ IF isSending(e)
               THEN Transmit(e)
               ELSE /\ queries' = AddIf(queries, pings, pingFragment(e))
                    /\ ackTimeouts' = ackTimeouts
            /\ local' = IF e.lastFragment
                        THEN BagAdd(nudge, PacketTo("Alice", makePacket(e.fragmentsReceived)))
                        ELSE nudge
            /\ UNCHANGED <<app, pingsStarted, server, pktTimeouts, pingTimeouts,
                           arrived, output, losses>>

\* The rule for outdated responses; the one above is enabled as well.
WClientExtractOldResponse ==
    \E f \in BagToSet(responses) :
        /\ ~isAckMatch(client, f)
        /\ responses' = BagRemove(responses, f)
        /\ UNCHANGED <<app, client, pingsStarted, server, queries, local, ackTimeouts,
                       pktTimeouts, pingTimeouts, arrived, output, losses>>

\* Variant of ClientStartPeriodicPings: every request sets a timer.
ClientStartPeriodicPingsAgain ==
    LET m == Signal("Client", "startPeriodicPings")
    IN  /\ Consume(m)
        /\ local' = BagRemove(local, m)
        /\ pingsStarted' = TRUE
        /\ pingTimeouts' = pingTimeouts + 1
        /\ UNCHANGED <<app, client, server, queries, responses, ackTimeouts,
                       pktTimeouts, arrived, output, losses>>

\* Variant of ClientStartPeriodicPings: no timer is ever set.
ClientStartPeriodicPingsUnset ==
    LET m == Signal("Client", "startPeriodicPings")
    IN  /\ Consume(m)
        /\ local' = BagRemove(local, m)
        /\ pingsStarted' = TRUE
        /\ UNCHANGED <<app, client, server, queries, responses, ackTimeouts,
                       pktTimeouts, pingTimeouts, arrived, output, losses>>

ClientStartPeriodicPings ==
    LET m == Signal("Client", "startPeriodicPings")
    IN  /\ Consume(m)
        /\ local' = BagRemove(local, m)
        /\ pingsStarted' = TRUE
        /\ pingTimeouts' = IF pingsStarted THEN pingTimeouts ELSE pingTimeouts + 1
        /\ UNCHANGED <<app, client, server, queries, responses, ackTimeouts,
                       pktTimeouts, arrived, output, losses>>

\* The timer fires when nothing was received for a second, and is set again;
\* firing earlier only sets it again.
ClientPingTimeout ==
    /\ Room
    /\ pingTimeouts > 0
    /\ queries' = BagAdd(queries, pingFragment(client))
    /\ UNCHANGED <<app, client, pingsStarted, server, responses, local, ackTimeouts,
                   pktTimeouts, pingTimeouts, arrived, output, losses>>

\* Retransmit, or drop the packet after too many attempts and tell Alice.
IClientTimeout ==
    \E t \in BagToSet(ackTimeouts) :
        /\ ~isTimeOutMoot(t)
        /\ IF isMaxAttemptsReached(client)
           THEN /\ LocalRoom
                /\ client' = dropFragmentsToSend(client)
                /\ local' = BagAdd(local, Signal("Alice", "start"))
                /\ ackTimeouts' = BagRemove(ackTimeouts, t)
                /\ queries' = queries
           ELSE /\ Room
                /\ client' = incrNumAttempts(client)
                /\ queries' = BagAdd(queries, grabCurrentFragment(client))
                /\ UNCHANGED <<ackTimeouts, local>>
        /\ UNCHANGED <<app, pingsStarted, server, responses, pktTimeouts,
                       pingTimeouts, arrived, output, losses>>

IClientTimeoutIgnore ==
    \E t \in BagToSet(ackTimeouts) :
        /\ isTimeOutMoot(t)
        /\ ackTimeouts' = BagRemove(ackTimeouts, t)
        /\ UNCHANGED <<app, client, pingsStarted, server, queries, responses, local,
                       pktTimeouts, pingTimeouts, arrived, output, losses>>

-----------------------------------------------------------------------------
(* Iodine server *)

canServerEmbed(e) == ~isSending(e) \/ e.numAttempts > serverTries

IServerEmbedding ==
    \E m \in BagToSet(local) :
        /\ m.to = "Server" /\ m.kind = "packet"
        /\ canServerEmbed(server)
        /\ server' = handleNewPacket(server, m.pkt)
        /\ local' = BagRemove(local, m)
        /\ UNCHANGED <<app, client, pingsStarted, queries, responses, ackTimeouts,
                       pktTimeouts, pingTimeouts, arrived, output, losses>>

\* A busy server drops Bob's packet.
IServerEmbeddingSending ==
    \E m \in BagToSet(local) :
        /\ m.to = "Server" /\ m.kind = "packet"
        /\ ~canServerEmbed(server)
        /\ local' = BagRemove(local, m)
        /\ UNCHANGED <<app, client, pingsStarted, server, queries, responses,
                       ackTimeouts, pktTimeouts, pingTimeouts, arrived, output, losses>>

\* A query: take its data and its ack; when nothing is left to send, take Bob's
\* next admitted packet; answer with the current fragment; hand a completed
\* packet to Bob, and tell him when nothing is being sent.
WnameserverReceiveQuery ==
    \E f \in BagToSet(queries) :
        LET e == processFragment(server, f)
            bob == IF isTxComplete(e) THEN markServerAppReady(app["Bob"]) ELSE app["Bob"]
            pulls == isTxComplete(e) /\ bob.numAdmittedPkts > 0 /\ canSend(bob)
            loaded == IF pulls THEN handleNewPacket(e, Head(bob.queue)) ELSE e
            next == buildServerResponse(loaded)
            done == AddIf(local, isTxComplete(next), Signal("Bob", "txDone"))
        IN  /\ LocalRoom
            /\ queries' = BagRemove(queries, f)
            /\ responses' = BagAdd(responses, responseFragment(loaded))
            /\ server' = updateRcvApp(next)
            /\ app' = [app EXCEPT !["Bob"] = IF pulls THEN sendPkt(bob) ELSE bob]
            /\ pktTimeouts' = IF pulls THEN [pktTimeouts EXCEPT !["Bob"] = @ + 1]
                                       ELSE pktTimeouts
            /\ local' = IF next.lastFragment
                        THEN BagAdd(done, PacketTo("Bob", makePacket(next.fragmentsReceived)))
                        ELSE done
            /\ UNCHANGED <<client, pingsStarted, ackTimeouts, pingTimeouts, arrived,
                           output, losses>>

-----------------------------------------------------------------------------
(* Network (the resolver and its links, dropParamd) *)

LoseQuery ==
    \E f \in BagToSet(queries) :
        /\ losses < MaxLosses
        /\ queries' = BagRemove(queries, f)
        /\ losses' = losses + 1
        /\ UNCHANGED <<app, client, pingsStarted, server, responses, local, ackTimeouts,
                       pktTimeouts, pingTimeouts, arrived, output>>

LoseResponse ==
    \E f \in BagToSet(responses) :
        /\ losses < MaxLosses
        /\ responses' = BagRemove(responses, f)
        /\ losses' = losses + 1
        /\ UNCHANGED <<app, client, pingsStarted, server, queries, local, ackTimeouts,
                       pktTimeouts, pingTimeouts, arrived, output>>

-----------------------------------------------------------------------------

Init ==
    /\ app = [a \in Apps |-> makeApp(OwnFile[a] = NoFile)]
    /\ client = makeEndpoint
    /\ pingsStarted = FALSE
    /\ server = makeEndpoint
    /\ queries = EmptyBag
    /\ responses = EmptyBag
    /\ local = SetToBag({Signal(a, "start") : a \in {b \in Apps : OwnFile[b] # NoFile}})
    /\ ackTimeouts = EmptyBag
    /\ pktTimeouts = [a \in Apps |-> 0]
    /\ pingTimeouts = 0
    /\ arrived = [a \in Apps |-> 0]
    /\ output = [a \in Apps |-> <<>>]
    /\ losses = 0

AppNext ==
    \/ \E a \in Apps : AppHandleFile(a) \/ AppPktTimeout(a)
    \/ SendAppSendPacket \/ SendAppRcvPacket
    \/ ReceiveAppSendPacket \/ ReceiveAppTxDone \/ ReceiveAppRcvPacket

ClientNext ==
    \/ IClientEmbedding
    \/ IClientExtractFromServer \/ WClientExtractOldResponse
    \/ ClientStartPeriodicPings \/ ClientPingTimeout
    \/ IClientTimeout \/ IClientTimeoutIgnore

ServerNext ==
    \/ IServerEmbedding \/ IServerEmbeddingSending \/ WnameserverReceiveQuery

NetworkNext == LoseQuery \/ LoseResponse

Next == AppNext \/ ClientNext \/ ServerNext \/ NetworkNext

Spec == Init /\ [][Next]_vars

(***************************************************************************)
(* The scheduler delivers every message and fires every timer at its time, *)
(* so each kind of step is taken when it stays possible.  Fairness is      *)
(* strong where a bound of the model can disable the step for a while      *)
(* (Room, LocalRoom), and for IClientExtractFromServer, which competes     *)
(* with the rule that drops outdated responses.  Files need not arrive.    *)
(***************************************************************************)
Fairness ==
    /\ WF_vars(SendAppSendPacket) /\ WF_vars(SendAppRcvPacket)
    /\ WF_vars(ReceiveAppSendPacket) /\ WF_vars(ReceiveAppTxDone)
    /\ WF_vars(ReceiveAppRcvPacket) /\ \A a \in Apps : SF_vars(AppPktTimeout(a))
    /\ WF_vars(IClientEmbedding) /\ WF_vars(ClientStartPeriodicPings)
    /\ SF_vars(IClientExtractFromServer) /\ SF_vars(ClientPingTimeout)
    /\ SF_vars(IClientTimeout) /\ WF_vars(IClientTimeoutIgnore)
    /\ WF_vars(IServerEmbedding) /\ WF_vars(IServerEmbeddingSending)
    /\ SF_vars(WnameserverReceiveQuery)

FairSpec == Spec /\ Fairness
-----------------------------------------------------------------------------
(* Properties *)

\* Types of every variable.
TypeOK ==
    /\ app \in [Apps -> App]
    /\ client \in Endpoint /\ server \in Endpoint
    /\ pingsStarted \in BOOLEAN
    /\ IsABag(queries) /\ BagToSet(queries) \subseteq Fragment
    /\ IsABag(responses) /\ BagToSet(responses) \subseteq Fragment
    /\ IsABag(local) /\ BagToSet(local) \subseteq Msg
    /\ IsABag(ackTimeouts) /\ BagToSet(ackTimeouts) \subseteq Nat \X Nat
    /\ pktTimeouts \in [Apps -> Nat]
    /\ pingTimeouts \in Nat
    /\ arrived \in [Apps -> Nat]
    /\ output \in [Apps -> Seq(Files \cup {NoFile})]
    /\ losses \in Nat

SentBy(a) == Range(app[a].sent)

\* Packets an endpoint has handed to application a, on the link or received.
HandedTo(a) ==
    Range(app[a].rcvd)
        \cup {m.pkt : m \in {n \in BagToSet(local) : n.to = a /\ n.kind = "packet"}}

\* The admission rule of both applications: one packet per pacing interval, so
\* either one packet is admitted or one pacing timer is pending, never both.
AdmissionToken == \A a \in Apps : app[a].numAdmittedPkts + pktTimeouts[a] = 1

\* While the client has a fragment outstanding an ackTimeout for exactly that
\* fragment is pending: no sequence of acks, stale responses, retransmissions
\* and new packets leaves a transmission that nothing will ever retry or drop.
AckTimerArmed ==
    isSending(client) => currentNumber(client) \in BagToSet(ackTimeouts)

\* Pings are scheduled once, however often Alice asks for them.
OnePingTimer == pingTimeouts = IF pingsStarted THEN 1 ELSE 0

\* An ack is true: when a response on its way would complete the client's packet,
\* that packet has been handed to Bob, whole.
AckMeansDelivered ==
    \A f \in BagToSet(responses) :
        Len(client.fragmentsToSend) = 1 /\ isAckMatch(client, f) =>
            \E p \in HandedTo("Bob") : p.seq = client.outSeqNo /\ p \in SentBy("Alice")

\* The same downstream: when a query on its way would complete the server's packet,
\* Alice has been handed that packet.
DownAckMeansDelivered ==
    \A f \in BagToSet(queries) :
        Len(server.fragmentsToSend) = 1 /\ isAckMatch(server, f) =>
            \E p \in HandedTo("Alice") : p.seq = server.outSeqNo /\ p \in SentBy("Bob")

\* Whatever is lost, repeated, reordered or given up, a packet number that
\* reaches Bob has reached him whole.
UpstreamWhole ==
    \A p \in HandedTo("Bob") :
        \E q \in HandedTo("Bob") : q.seq = p.seq /\ q \in SentBy("Alice")

\* Downstream every packet is handed to Alice whole and at most once.
DownstreamExact ==
    /\ HandedTo("Alice") \subseteq SentBy("Bob")
    /\ \A i, j \in DOMAIN app["Alice"].rcvd :
           i # j => app["Alice"].rcvd[i].seq # app["Alice"].rcvd[j].seq
    /\ \A m \in BagToSet(local) :
           m.to = "Alice" /\ m.kind = "packet" =>
               m.pkt \notin Range(app["Alice"].rcvd) /\ local[m] = 1

\* Fragments without a hole between them.
Consecutive(fl) == \A i \in 1..(Len(fl) - 1) : fl[i + 1].frag = fl[i].frag + 1

\* The TODO in processQuery: a fragment two or more past the last one would be taken
\* as the next one.  Acks, retransmissions and delayed queries never let one arrive
\* while a packet is put together for the first time.
NoGap ==
    /\ Consecutive(client.fragmentsReceived)
    /\ \/ Consecutive(server.fragmentsReceived)
       \/ \E p \in HandedTo("Bob") : p.seq = server.inSeqNo

\* The server's view of the client is never ahead of the client, and the client's
\* of the server: no number is received before it was sent.  Of two packets that wait
\* at the client it may take the later one first and go back to the other: what it
\* sends is in order as long as no two wait (IodineProofs).
NoNumberFromTheFuture ==
    /\ \/ server.inSeqNo < client.outSeqNo
       \/ server.inSeqNo = client.outSeqNo /\ server.inFragNo <= client.outFragNo
    /\ \/ client.inSeqNo < server.outSeqNo
       \/ client.inSeqNo = server.outSeqNo /\ client.inFragNo <= server.outFragNo

NotBefore(s1, f1, s2, f2) == s1 > s2 \/ (s1 = s2 /\ f1 >= f2)

\* No step takes a receiver back: once a fragment of a packet was taken, no delayed
\* query or response of an earlier packet is taken any more (the server forgets the
\* fragment number when a packet is complete, the client never does).
ReceiversNeverGoBack ==
    [][/\ server'.inSeqNo >= server.inSeqNo
       /\ NotBefore(client'.inSeqNo, client'.inFragNo, client.inSeqNo, client.inFragNo)]_vars

\* The packets an application has queued all leave it, although the signal that an
\* endpoint is ready may be replaced by a ping, and the ping or its answer lost.
QueuesDrain == \A a \in Apps : canSend(app[a]) ~> ~canSend(app[a])

\* A packet the client has taken is acknowledged, given up or replaced.
TransmissionEnds == isSending(client) ~> ~isSending(client)

\* What the comment on processQuery says: a repeated fragment is ignored, so Bob
\* gets every packet once.
BobGetsPacketsOnce ==
    \A i, j \in DOMAIN app["Bob"].rcvd :
        i # j => app["Bob"].rcvd[i].seq # app["Bob"].rcvd[j].seq
=============================================================================
