---------------------------- MODULE IodineProofs ----------------------------
(***************************************************************************)
(* Proofs about IodineDNS, for every set of files, every input, every      *)
(* number of tries and every value of the model's bounds: first what the   *)
(* functions of IodineNode return (types of packets, fragments, endpoints  *)
(* and applications, what sending uses up, what an endpoint remembers of   *)
(* what it received), then the steps, one by one, and the theorems about   *)
(* single endpoints.  The second half relates the endpoints to each other. *)
(***************************************************************************)
EXTENDS IodineDNS, SequenceTheorems, TLAPS

\* What types alone do not say of an endpoint: a packet it holds to be complete
\* has fragments, so makePacket has a header to read.
WellFormed(e) == e \in Endpoint /\ (e.lastFragment => e.fragmentsReceived # <<>>)

-----------------------------------------------------------------------------
(* Bags: what adding an element and removing one does. *)

\* An element is added to a bag: one more copy of it, nothing else changes.
LEMMA BagAddFacts ==
    ASSUME NEW B, IsABag(B), NEW x
    PROVE  /\ IsABag(BagAdd(B, x))
           /\ BagToSet(BagAdd(B, x)) = BagToSet(B) \cup {x}
           /\ BagAdd(B, x)[x] = IF BagIn(x, B) THEN B[x] + 1 ELSE 1
           /\ \A y \in BagToSet(B) \ {x} : BagAdd(B, x)[y] = B[y]
BY DEF IsABag, BagAdd, BagToSet, BagIn

\* An element of a bag is removed: one copy less of it, nothing else changes.
LEMMA BagRemoveFacts ==
    ASSUME NEW B, IsABag(B), NEW x \in BagToSet(B)
    PROVE  /\ IsABag(BagRemove(B, x))
           /\ BagToSet(BagRemove(B, x)) =
                  IF B[x] = 1 THEN BagToSet(B) \ {x} ELSE BagToSet(B)
           /\ B[x] # 1 => BagRemove(B, x)[x] = B[x] - 1
           /\ \A y \in BagToSet(B) \ {x} : BagRemove(B, x)[y] = B[y]
<1>1. CASE B[x] = 1
    BY <1>1 DEF IsABag, BagRemove, BagToSet
<1>2. CASE B[x] # 1
    BY <1>2 DEF IsABag, BagRemove, BagToSet
<1> QED BY <1>1, <1>2

\* The empty bag is a bag of nothing.
LEMMA EmptyBagFacts == IsABag(EmptyBag) /\ BagToSet(EmptyBag) = {}
BY DEF IsABag, EmptyBag, SetToBag, BagToSet

\* A bag of one copy of every element of a set holds that set.
LEMMA SetToBagFacts ==
    ASSUME NEW S
    PROVE  IsABag(SetToBag(S)) /\ BagToSet(SetToBag(S)) = S
BY DEF IsABag, SetToBag, BagToSet

\* Adding an element of T to a bag of elements of T, always or under a condition.
LEMMA AddType ==
    ASSUME NEW B, NEW T, IsABag(B), BagToSet(B) \subseteq T, NEW x, NEW c
    PROVE  /\ x \in T => IsABag(BagAdd(B, x)) /\ BagToSet(BagAdd(B, x)) \subseteq T
           /\ (c => x \in T) =>
                  IsABag(AddIf(B, c, x)) /\ BagToSet(AddIf(B, c, x)) \subseteq T
<1>1. IsABag(BagAdd(B, x)) /\ BagToSet(BagAdd(B, x)) = BagToSet(B) \cup {x}
    BY BagAddFacts
<1> QED BY <1>1 DEF AddIf

\* Removing an element of a bag.
LEMMA RemoveType ==
    ASSUME NEW B, NEW T, IsABag(B), BagToSet(B) \subseteq T, NEW x \in BagToSet(B)
    PROVE  IsABag(BagRemove(B, x)) /\ BagToSet(BagRemove(B, x)) \subseteq T
<1>1. /\ IsABag(BagRemove(B, x))
      /\ BagToSet(BagRemove(B, x)) \subseteq BagToSet(B)
    BY BagRemoveFacts
<1> QED BY <1>1

-----------------------------------------------------------------------------
(* Packets, fragments and messages *)

\* Signals and packets make messages; a packet message carries a packet.
LEMMA MsgTypes ==
    /\ \A to \in Actors, k \in {"start", "txDone", "startPeriodicPings"} :
           Signal(to, k) \in Msg
    /\ \A to \in Actors, p \in Packet : PacketTo(to, p) \in Msg
    /\ \A m \in Msg : m.kind = "packet" => m.pkt \in Packet
BY DEF Signal, PacketTo, Msg

\* makeFragments cuts a packet into a sequence of fragments.
LEMMA makeFragmentsType ==
    ASSUME NEW p \in Packet
    PROVE  makeFragments(p) \in Seq(Fragment) /\ makeFragments(p) # <<>>
<1>1. p.len \in Nat \ {0} /\ p.file \in Files \cup {NoFile} /\ p.seq \in Nat
      /\ p.lastPacket \in BOOLEAN
    BY DEF Packet
<1>2. \A i \in 1..p.len :
         fragment(p.file, p.seq, i, 0, 0, p.lastPacket, i = p.len) \in Fragment
    BY <1>1 DEF fragment, Fragment
<1>3. makeFragments(p) \in Seq(Fragment)
    BY <1>1, <1>2 DEF makeFragments
<1>4. Len(makeFragments(p)) = p.len
    BY <1>1 DEF makeFragments
<1>5. makeFragments(p) # <<>>
    BY <1>1, <1>3, <1>4
<1> QED BY <1>3, <1>5

\* makePacket reads a packet off a sequence of fragments that is not empty.
LEMMA makePacketType ==
    ASSUME NEW fl \in Seq(Fragment), fl # <<>>
    PROVE  makePacket(fl) \in Packet
<1>1. fl[1] \in Fragment /\ Len(fl) \in Nat
    OBVIOUS
<1> QED BY <1>1 DEF makePacket, packet, Packet, Fragment

-----------------------------------------------------------------------------
(* Endpoints *)

\* Two endpoints hold the same received data.
SameReceived(d, e) ==
    d.fragmentsReceived = e.fragmentsReceived /\ d.lastFragment = e.lastFragment

\* One attribute of an endpoint is replaced by a value of its type.
LEMMA SetAttribute ==
    ASSUME NEW e \in Endpoint
    PROVE  /\ \A v \in Nat : LET d == [e EXCEPT !.outSeqNo = v]
                             IN  d \in Endpoint /\ SameReceived(d, e)
           /\ \A v \in Nat : LET d == [e EXCEPT !.outFragNo = v]
                             IN  d \in Endpoint /\ SameReceived(d, e)
           /\ \A v \in Nat : LET d == [e EXCEPT !.inSeqNo = v]
                             IN  d \in Endpoint /\ SameReceived(d, e)
           /\ \A v \in Nat : LET d == [e EXCEPT !.inFragNo = v]
                             IN  d \in Endpoint /\ SameReceived(d, e)
           /\ LET d == [e EXCEPT !.numAttempts = 0]
              IN  d \in Endpoint /\ SameReceived(d, e)
           /\ \A v \in Seq(Fragment) : LET d == [e EXCEPT !.fragmentsToSend = v]
                                       IN  d \in Endpoint /\ SameReceived(d, e)
           /\ \A v \in Seq(Fragment) : LET d == [e EXCEPT !.fragmentsReceived = v]
                                       IN  d \in Endpoint /\ d.fragmentsReceived = v
           /\ \A v \in BOOLEAN : LET d == [e EXCEPT !.lastFragment = v]
                                 IN  /\ d \in Endpoint /\ d.lastFragment = v
                                     /\ d.fragmentsReceived = e.fragmentsReceived
<1>1. 0 \in 0..AttemptsCap
    BY NodeAssumption DEF AttemptsCap
<1> QED BY <1>1 DEF Endpoint, SameReceived

\* A packet taken over replaces what was being sent, and there is something to send.
LEMMA handleNewPacketType ==
    ASSUME NEW e, WellFormed(e), NEW p \in Packet
    PROVE  WellFormed(handleNewPacket(e, p)) /\ isSending(handleNewPacket(e, p))
<1> DEFINE e1 == [e EXCEPT !.outSeqNo = p.seq]
           e2 == [e1 EXCEPT !.outFragNo = 1]
           e3 == [e2 EXCEPT !.numAttempts = 0]
           e4 == [e3 EXCEPT !.fragmentsToSend = makeFragments(p)]
<1>1. p.seq \in Nat
    BY DEF Packet
<1>2. e1 \in Endpoint /\ SameReceived(e1, e)
    BY <1>1, SetAttribute DEF WellFormed
<1>3. handleNewPacket(e, p) = e4
    BY DEF handleNewPacket
<1> HIDE DEF e1
<1>4. e2 \in Endpoint /\ SameReceived(e2, e1)
    BY <1>2, SetAttribute
<1> HIDE DEF e2
<1>5. e3 \in Endpoint /\ SameReceived(e3, e2)
    BY <1>4, SetAttribute
<1> HIDE DEF e3
<1>6. e4 \in Endpoint /\ SameReceived(e4, e3)
    BY <1>5, SetAttribute, makeFragmentsType
<1>7. isSending(e4)
    BY <1>5, makeFragmentsType DEF isSending, Endpoint
<1> HIDE DEF e4
<1> QED BY <1>2, <1>3, <1>4, <1>5, <1>6, <1>7 DEF WellFormed, SameReceived

\* Counting an attempt changes the counter and stays within the cap.
LEMMA incrNumAttemptsType ==
    ASSUME NEW e, WellFormed(e)
    PROVE  /\ WellFormed(incrNumAttempts(e))
           /\ incrNumAttempts(e).fragmentsReceived = e.fragmentsReceived
           /\ incrNumAttempts(e).lastFragment = e.lastFragment
           /\ incrNumAttempts(e).fragmentsToSend = e.fragmentsToSend
<1> DEFINE n == IF e.numAttempts < AttemptsCap THEN e.numAttempts + 1 ELSE e.numAttempts
<1>1. n \in 0..AttemptsCap
    BY NodeAssumption DEF WellFormed, Endpoint, AttemptsCap
<1>2. incrNumAttempts(e) = [e EXCEPT !.numAttempts = n]
    BY DEF incrNumAttempts
<1> HIDE DEF n
<1> QED BY <1>1, <1>2 DEF WellFormed, Endpoint

\* Giving up leaves an endpoint well formed.
LEMMA dropFragmentsToSendType ==
    ASSUME NEW e, WellFormed(e)
    PROVE  WellFormed(dropFragmentsToSend(e))
<1> DEFINE e1 == [e EXCEPT !.fragmentsToSend = <<>>]
           e2 == [e1 EXCEPT !.numAttempts = 0]
<1>4. <<>> \in Seq(Fragment)
    OBVIOUS
<1>1. e1 \in Endpoint /\ SameReceived(e1, e)
    BY <1>4, SetAttribute DEF WellFormed
<1>2. dropFragmentsToSend(e) = e2
    BY DEF dropFragmentsToSend
<1> HIDE DEF e1
<1>3. e2 \in Endpoint /\ SameReceived(e2, e1)
    BY <1>1, SetAttribute
<1> QED BY <1>1, <1>2, <1>3 DEF WellFormed, SameReceived

\* A fragment that restarts reassembly.
LEMMA flushType ==
    ASSUME NEW e, WellFormed(e), NEW f \in Fragment
    PROVE  WellFormed(flushFragmentsReceived(e, f))
<1> DEFINE e1 == [e EXCEPT !.fragmentsReceived = <<f>>]
           e2 == [e1 EXCEPT !.lastFragment = f.lastFrag]
           e3 == [e2 EXCEPT !.inSeqNo = f.seq]
           e4 == [e3 EXCEPT !.inFragNo = f.frag]
<1>1. f.seq \in Nat /\ f.frag \in Nat /\ f.lastFrag \in BOOLEAN
    BY DEF Fragment
<1>7. <<f>> \in Seq(Fragment)
    OBVIOUS
<1>2. e1 \in Endpoint /\ e1.fragmentsReceived = <<f>>
    BY <1>7, SetAttribute DEF WellFormed
<1>3. flushFragmentsReceived(e, f) = e4
    BY DEF flushFragmentsReceived
<1> HIDE DEF e1
<1>4. e2 \in Endpoint /\ e2.fragmentsReceived = <<f>>
    BY <1>1, <1>2, SetAttribute
<1> HIDE DEF e2
<1>5. e3 \in Endpoint /\ SameReceived(e3, e2)
    BY <1>1, <1>4, SetAttribute
<1> HIDE DEF e3
<1>6. e4 \in Endpoint /\ SameReceived(e4, e3)
    BY <1>1, <1>5, SetAttribute
<1> HIDE DEF e4
<1> QED BY <1>3, <1>4, <1>5, <1>6 DEF WellFormed, SameReceived

\* The fragment that comes next, or nothing.
LEMMA acceptFragmentType ==
    ASSUME NEW e, WellFormed(e), NEW f \in Fragment
    PROVE  WellFormed(acceptFragment(e, f))
<1> DEFINE r == Append(e.fragmentsReceived, f)
           e1 == [e EXCEPT !.fragmentsReceived = r]
           e2 == [e1 EXCEPT !.lastFragment = f.lastFrag]
           e3 == [e2 EXCEPT !.inFragNo = f.frag]
<1>1. f.frag \in Nat /\ f.lastFrag \in BOOLEAN
    BY DEF Fragment
<1>2. r \in Seq(Fragment) /\ r # <<>>
    BY DEF WellFormed, Endpoint
<1>3. \/ acceptFragment(e, f) = flushFragmentsReceived(e, f)
      \/ acceptFragment(e, f) = e
      \/ acceptFragment(e, f) = e3
    BY DEF acceptFragment
<1> HIDE DEF r
<1>4. e1 \in Endpoint /\ e1.fragmentsReceived = r
    BY <1>2, SetAttribute DEF WellFormed
<1> HIDE DEF e1
<1>5. e2 \in Endpoint /\ e2.fragmentsReceived = r
    BY <1>1, <1>4, SetAttribute
<1> HIDE DEF e2
<1>6. e3 \in Endpoint /\ SameReceived(e3, e2)
    BY <1>1, <1>5, SetAttribute
<1> HIDE DEF e3
<1>7. WellFormed(e3)
    BY <1>2, <1>5, <1>6 DEF WellFormed, SameReceived
<1> QED BY <1>3, <1>7, flushType

\* An acknowledged fragment is dropped, and the next one's number is a number.
LEMMA moveFragmentUpType ==
    ASSUME NEW e, WellFormed(e)
    PROVE  WellFormed(moveFragmentUp(e))
<1> DEFINE s == popFront(e.fragmentsToSend)
           n == IF Len(e.fragmentsToSend) > 1 THEN e.outFragNo + 1 ELSE e.outFragNo
           e1 == [e EXCEPT !.fragmentsToSend = s]
           e2 == [e1 EXCEPT !.outFragNo = n]
           e3 == [e2 EXCEPT !.numAttempts = 0]
<1>1. s \in Seq(Fragment)
    BY DEF popFront, WellFormed, Endpoint
<1>2. n \in Nat
    BY DEF WellFormed, Endpoint
<1>3. moveFragmentUp(e) = e3
  <2>1. moveFragmentUp(e) = [e EXCEPT !.fragmentsToSend = s, !.outFragNo = n,
                                      !.numAttempts = 0]
    BY DEF moveFragmentUp, WellFormed, Endpoint
  <2> QED BY <2>1
<1> HIDE DEF s, n
<1>4. e1 \in Endpoint /\ SameReceived(e1, e)
    BY <1>1, SetAttribute DEF WellFormed
<1> HIDE DEF e1
<1>5. e2 \in Endpoint /\ SameReceived(e2, e1)
    BY <1>2, <1>4, SetAttribute
<1> HIDE DEF e2
<1>6. e3 \in Endpoint /\ SameReceived(e3, e2)
    BY <1>5, SetAttribute
<1> HIDE DEF e3
<1> QED BY <1>3, <1>4, <1>5, <1>6 DEF WellFormed, SameReceived

\* The data and then the ack of a message leave an endpoint well formed: the mark of
\* a complete packet is only set together with a fragment.
LEMMA processFragmentType ==
    ASSUME NEW e, WellFormed(e), NEW f \in Fragment
    PROVE  WellFormed(processFragment(e, f))
BY acceptFragmentType, moveFragmentUpType DEF processFragment

\* Forgetting a packet that went up leaves an endpoint well formed.
LEMMA updateRcvAppType ==
    ASSUME NEW e, WellFormed(e)
    PROVE  WellFormed(updateRcvApp(e)) /\ WellFormed(updateRcvAppAlice(e))
<1>1. <<>> \in Seq(Fragment)
    OBVIOUS
<1> QED BY <1>1 DEF updateRcvApp, updateRcvAppAlice, WellFormed, Endpoint

\* What an endpoint puts into a message is a fragment.
LEMMA MessageTypes ==
    ASSUME NEW e, WellFormed(e)
    PROVE  /\ isSending(e) => grabCurrentFragment(e) \in Fragment
           /\ pingFragment(e) \in Fragment
           /\ responseFragment(e) \in Fragment
           /\ currentNumber(e) \in Nat \X Nat
<1>1. isSending(e) => grabCurrentFragment(e) \in Fragment
  <2> SUFFICES ASSUME isSending(e) PROVE grabCurrentFragment(e) \in Fragment
    OBVIOUS
  <2> DEFINE h == Head(e.fragmentsToSend)
  <2>1. h \in Fragment
    BY DEF isSending, WellFormed, Endpoint
  <2>2. grabCurrentFragment(e) = [h EXCEPT !.ackSeq = e.inSeqNo, !.ackFrag = e.inFragNo]
    BY DEF grabCurrentFragment, insertAck
  <2>3. e.inSeqNo \in Nat /\ e.inFragNo \in Nat
    BY DEF WellFormed, Endpoint
  <2> HIDE DEF h
  <2> QED BY <2>1, <2>2, <2>3 DEF Fragment
<1>2. pingFragment(e) \in Fragment
    BY DEF pingFragment, fragment, Fragment, WellFormed, Endpoint
<1>3. responseFragment(e) \in Fragment
    BY <1>1 DEF responseFragment, fragment, Fragment, WellFormed, Endpoint
<1> QED BY <1>1, <1>2, <1>3 DEF currentNumber, WellFormed, Endpoint

-----------------------------------------------------------------------------
(* Applications *)

\* An application d may still send as many packets as a.
SameAdmission(d, a) == d.numAdmittedPkts = a.numAdmittedPkts

\* One attribute of an application is replaced by a value of its type.
LEMMA SetAppAttribute ==
    ASSUME NEW a \in App
    PROVE  /\ \A v \in Seq(Packet) : LET d == [a EXCEPT !.queue = v]
                                     IN  d \in App /\ SameAdmission(d, a)
           /\ \A v \in Seq(Packet) : LET d == [a EXCEPT !.sent = v]
                                     IN  d \in App /\ SameAdmission(d, a)
           /\ \A v \in Seq(Packet) : LET d == [a EXCEPT !.rcvd = v]
                                     IN  d \in App /\ SameAdmission(d, a)
           /\ \A v \in Nat : LET d == [a EXCEPT !.packetCounter = v]
                             IN  d \in App /\ SameAdmission(d, a)
           /\ \A v \in BOOLEAN : LET d == [a EXCEPT !.iodineReady = v]
                                 IN  /\ d \in App /\ SameAdmission(d, a)
                                     /\ d.queue = a.queue
           /\ \A v \in BOOLEAN : LET d == [a EXCEPT !.queuePopulated = v]
                                 IN  /\ d \in App /\ SameAdmission(d, a)
                                     /\ d.queue = a.queue
           /\ \A v \in Nat : LET d == [a EXCEPT !.numAdmittedPkts = v]
                             IN  /\ d \in App /\ d.numAdmittedPkts = v
                                 /\ d.queue = a.queue
BY DEF App, SameAdmission

\* Queueing a file admits nothing.
LEMMA packetizeProbType ==
    ASSUME NEW a \in App, NEW f \in Files
    PROVE  packetizeProb(a, f) \in App /\ SameAdmission(packetizeProb(a, f), a)
<1> DEFINE n == Len(PacketLens[f])
           ps == [i \in 1..n |-> packet(f, a.packetCounter + i - 1, PacketLens[f][i], i = n)]
           q == a.queue \o ps
           a1 == [a EXCEPT !.queue = q]
           a2 == [a1 EXCEPT !.packetCounter = a.packetCounter + n]
<1>1. PacketLens[f] \in Seq(Nat \ {0})
    BY NodeAssumption
<1>2. n \in Nat /\ a.packetCounter \in Nat /\ a.queue \in Seq(Packet)
    BY <1>1 DEF App
<1>3. ps \in Seq(Packet)
  <2>1. ASSUME NEW i \in 1..n
        PROVE  packet(f, a.packetCounter + i - 1, PacketLens[f][i], i = n) \in Packet
    <3>1. PacketLens[f][i] \in Nat \ {0}
      BY <1>1
    <3>2. a.packetCounter + i - 1 \in Nat
      BY <1>2
    <3> QED BY <3>1, <3>2 DEF packet, Packet
  <2> QED BY <1>2, <2>1
<1> HIDE DEF ps
<1>4. q \in Seq(Packet)
    BY <1>2, <1>3
<1>5. packetizeProb(a, f) = a2
  <2>1. packetizeProb(a, f) = [a EXCEPT !.queue = q, !.packetCounter = a.packetCounter + n]
    BY DEF packetizeProb, App, ps
  <2>2. [a EXCEPT !.queue = q].packetCounter = a.packetCounter
    BY DEF App
  <2> QED BY <2>1, <2>2
<1> HIDE DEF q, n
<1>6. a1 \in App /\ SameAdmission(a1, a)
    BY <1>4, SetAppAttribute
<1> HIDE DEF a1
<1>7. a.packetCounter + n \in Nat
    BY <1>2
<1>8. a2 \in App /\ SameAdmission(a2, a1)
    BY <1>6, <1>7, SetAppAttribute
<1> QED BY <1>5, <1>6, <1>8 DEF SameAdmission

\* Sending the head of the queue uses up one admission.
LEMMA sendPktType ==
    ASSUME NEW a \in App, canSend(a)
    PROVE  /\ sendPkt(a) \in App
           /\ a.numAdmittedPkts > 0 =>
                  sendPkt(a).numAdmittedPkts + 1 = a.numAdmittedPkts
           /\ Head(a.queue) \in Packet
<1> DEFINE n == IF a.numAdmittedPkts > 0 THEN a.numAdmittedPkts - 1 ELSE 0
           t == Tail(a.queue)
           s == <<Head(a.queue)>> \o a.sent
           a1 == [a EXCEPT !.queue = t]
           a2 == [a1 EXCEPT !.sent = s]
           a3 == [a2 EXCEPT !.numAdmittedPkts = n]
           a4 == [a3 EXCEPT !.iodineReady = FALSE]
<1>1. a.queue \in Seq(Packet) /\ a.queue # <<>> /\ a.sent \in Seq(Packet)
      /\ a.numAdmittedPkts \in Nat
    BY DEF App, canSend
<1>2. Head(a.queue) \in Packet /\ t \in Seq(Packet) /\ s \in Seq(Packet)
    BY <1>1
<1>3. n \in Nat /\ (a.numAdmittedPkts > 0 => n + 1 = a.numAdmittedPkts)
    BY <1>1
<1>4. sendPkt(a) = a4
  <2>1. sendPkt(a) = [a EXCEPT !.queue = t, !.sent = s, !.numAdmittedPkts = n,
                               !.iodineReady = FALSE]
    BY DEF sendPkt, App
  <2> QED BY <2>1
<1> HIDE DEF n, t, s
<1>5. a1 \in App
    BY <1>2, SetAppAttribute
<1> HIDE DEF a1
<1>6. a2 \in App
    BY <1>2, <1>5, SetAppAttribute
<1> HIDE DEF a2
<1>7. a3 \in App /\ a3.numAdmittedPkts = n
    BY <1>3, <1>6, SetAppAttribute
<1> HIDE DEF a3
<1>8. a4 \in App /\ SameAdmission(a4, a3)
    BY <1>7, SetAppAttribute
<1> HIDE DEF a4
<1> QED BY <1>2, <1>3, <1>4, <1>7, <1>8 DEF SameAdmission

\* The application's own file is queued once.
LEMMA populateType ==
    ASSUME NEW a \in Apps, app[a] \in App
    PROVE  populate(a) \in App /\ SameAdmission(populate(a), app[a])
<1>1. CASE app[a].queuePopulated \/ OwnFile[a] = NoFile
    BY <1>1, SetAppAttribute DEF populate
<1>2. CASE ~(app[a].queuePopulated \/ OwnFile[a] = NoFile)
  <2>1. OwnFile[a] \in Files
    BY <1>2, DNSAssumption
  <2> DEFINE p == packetizeProb(app[a], OwnFile[a])
  <2>2. p \in App /\ SameAdmission(p, app[a])
    BY <2>1, packetizeProbType
  <2>3. populate(a) = [p EXCEPT !.queuePopulated = TRUE]
    BY <1>2 DEF populate
  <2> HIDE DEF p
  <2>4. [p EXCEPT !.queuePopulated = TRUE] \in App
        /\ SameAdmission([p EXCEPT !.queuePopulated = TRUE], p)
    BY <2>2, SetAppAttribute
  <2> QED BY <2>2, <2>3, <2>4 DEF SameAdmission
<1> QED BY <1>1, <1>2

-----------------------------------------------------------------------------
(* What an endpoint remembers *)

\* Counting an attempt and passing a packet on leave alone what is being sent.
LEMMA SameOutgoing ==
    ASSUME NEW e \in Endpoint
    PROVE  /\ currentNumber(incrNumAttempts(e)) = currentNumber(e)
           /\ isSending(incrNumAttempts(e)) <=> isSending(e)
           /\ currentNumber(updateRcvAppAlice(e)) = currentNumber(e)
           /\ isSending(updateRcvAppAlice(e)) <=> isSending(e)
<1>1. /\ currentNumber(incrNumAttempts(e)) = currentNumber(e)
      /\ isSending(incrNumAttempts(e)) <=> isSending(e)
    BY DEF incrNumAttempts, currentNumber, isSending, Endpoint
<1>2. /\ currentNumber(updateRcvAppAlice(e)) = currentNumber(e)
      /\ isSending(updateRcvAppAlice(e)) <=> isSending(e)
    BY DEF updateRcvAppAlice, currentNumber, isSending, Endpoint
<1> QED BY <1>1, <1>2

\* The fragment last received, as the acks of an endpoint name it.
lastReceived(e) == <<e.inSeqNo, e.inFragNo>>

\* Operators about what an endpoint sends leave alone what it received.
LEMMA SendingKeepsReceived ==
    ASSUME NEW e \in Endpoint
    PROVE  /\ lastReceived(incrNumAttempts(e)) = lastReceived(e)
           /\ lastReceived(dropFragmentsToSend(e)) = lastReceived(e)
           /\ lastReceived(moveFragmentUp(e)) = lastReceived(e)
           /\ \A p \in Packet : lastReceived(handleNewPacket(e, p)) = lastReceived(e)
           /\ lastReceived(updateRcvAppAlice(e)) = lastReceived(e)
           /\ updateRcvApp(e).inSeqNo = e.inSeqNo
<1>1. lastReceived(incrNumAttempts(e)) = lastReceived(e)
    BY DEF incrNumAttempts, lastReceived, Endpoint
<1>2. lastReceived(dropFragmentsToSend(e)) = lastReceived(e)
    BY DEF dropFragmentsToSend, lastReceived, Endpoint
<1>3. lastReceived(moveFragmentUp(e)) = lastReceived(e)
    BY DEF moveFragmentUp, lastReceived, Endpoint
<1>4. \A p \in Packet : lastReceived(handleNewPacket(e, p)) = lastReceived(e)
    BY DEF handleNewPacket, lastReceived, Endpoint
<1>5. lastReceived(updateRcvAppAlice(e)) = lastReceived(e)
    BY DEF updateRcvAppAlice, lastReceived, Endpoint
<1>6. updateRcvApp(e).inSeqNo = e.inSeqNo
    BY DEF updateRcvApp, Endpoint
<1> QED BY <1>1, <1>2, <1>3, <1>4, <1>5, <1>6

\* A message is taken or ignored; taken, it names a later fragment.
LEMMA processFragmentForward ==
    ASSUME NEW e, WellFormed(e), NEW f \in Fragment
    PROVE  LET d == processFragment(e, f)
           IN  NotBefore(d.inSeqNo, d.inFragNo, e.inSeqNo, e.inFragNo)
<1> DEFINE a == acceptFragment(e, f)
<1>1. NotBefore(a.inSeqNo, a.inFragNo, e.inSeqNo, e.inFragNo)
  <2>1. /\ e.inSeqNo \in Nat /\ e.inFragNo \in Nat /\ f.seq \in Nat /\ f.frag \in Nat
        /\ e \in Endpoint
    BY DEF WellFormed, Endpoint, Fragment
  <2>2. CASE f.seq > e.inSeqNo
    <3>1. a.inSeqNo = f.seq
      BY <2>1, <2>2 DEF acceptFragment, flushFragmentsReceived, Endpoint
    <3> QED BY <2>2, <3>1 DEF NotBefore
  <2>3. CASE ~(f.seq > e.inSeqNo) /\ f.seq = e.inSeqNo /\ f.frag > e.inFragNo
    <3>1. a.inSeqNo = e.inSeqNo /\ a.inFragNo = f.frag
      BY <2>1, <2>3 DEF acceptFragment, Endpoint
    <3> HIDE DEF a
    <3> QED BY <2>1, <2>3, <3>1 DEF NotBefore
  <2>4. CASE ~(f.seq > e.inSeqNo) /\ ~(f.seq = e.inSeqNo /\ f.frag > e.inFragNo)
    <3>1. a = e
      BY <2>4 DEF acceptFragment
    <3> HIDE DEF a
    <3> QED BY <2>1, <3>1 DEF NotBefore
  <2> QED BY <2>2, <2>3, <2>4
<1>2. a \in Endpoint
    BY acceptFragmentType DEF WellFormed
<1> HIDE DEF a
<1>3. lastReceived(moveFragmentUp(a)) = lastReceived(a)
    BY <1>2, SendingKeepsReceived
<1> QED BY <1>1, <1>3 DEF processFragment, lastReceived, a

-----------------------------------------------------------------------------
(* The invariant *)

\* The inductive invariant of types, pacing and pings.
IInv ==
    /\ TypeOK
    /\ WellFormed(client) /\ WellFormed(server)
    /\ AdmissionToken
    /\ OnePingTimer

-----------------------------------------------------------------------------
(* The steps of the applications *)

\* The facts of the invariant that the step of an application uses.
LEMMA IInvFacts ==
    ASSUME IInv
    PROVE  /\ \A a \in Apps : app[a] \in App /\ pktTimeouts[a] \in Nat
           /\ IsABag(local) /\ BagToSet(local) \subseteq Msg
           /\ IsABag(queries) /\ BagToSet(queries) \subseteq Fragment
           /\ IsABag(responses) /\ BagToSet(responses) \subseteq Fragment
           /\ IsABag(ackTimeouts) /\ BagToSet(ackTimeouts) \subseteq Nat \X Nat
BY DEF IInv, TypeOK

\* An application that admits as many packets as before keeps the rule.
LEMMA SameTokens ==
    ASSUME IInv, NEW a \in Apps, NEW s \in App, SameAdmission(s, app[a]),
           app' = [app EXCEPT ![a] = s], UNCHANGED pktTimeouts
    PROVE  app' \in [Apps -> App] /\ AdmissionToken'
BY DEF IInv, TypeOK, AdmissionToken, SameAdmission

\* SendOrWait: a packet goes out and a pacing timer replaces its admission.
LEMMA SendOrWaitFacts ==
    ASSUME IInv, NEW a \in Apps, NEW s \in App, SameAdmission(s, app[a]),
           NEW c \in BOOLEAN, c => canSend(s) /\ s.numAdmittedPkts > 0,
           NEW msgs, IsABag(msgs), BagToSet(msgs) \subseteq Msg,
           SendOrWait(a, s, c, msgs)
    PROVE  /\ app' \in [Apps -> App] /\ pktTimeouts' \in [Apps -> Nat]
           /\ IsABag(local') /\ BagToSet(local') \subseteq Msg
           /\ AdmissionToken'
<1>1. CASE c
  <2> DEFINE r == sendPkt(s)
  <2>1. r \in App /\ r.numAdmittedPkts + 1 = app[a].numAdmittedPkts
        /\ Head(s.queue) \in Packet
    BY <1>1, sendPktType DEF SameAdmission
  <2>2. /\ app' = [app EXCEPT ![a] = r]
        /\ local' = BagAdd(msgs, PacketTo(EndpointOf(a), Head(s.queue)))
        /\ pktTimeouts' = [pktTimeouts EXCEPT ![a] = @ + 1]
    BY <1>1 DEF SendOrWait
  <2> HIDE DEF r
  <2>3. app' \in [Apps -> App] /\ pktTimeouts' \in [Apps -> Nat] /\ AdmissionToken'
    <3>1. /\ app \in [Apps -> App] /\ pktTimeouts \in [Apps -> Nat]
          /\ \A b \in Apps : app[b].numAdmittedPkts + pktTimeouts[b] = 1
      BY DEF IInv, TypeOK, AdmissionToken
    <3>2. r.numAdmittedPkts \in Nat /\ app[a].numAdmittedPkts \in Nat
      BY <2>1, <3>1 DEF App
    <3>3. app' \in [Apps -> App] /\ pktTimeouts' \in [Apps -> Nat]
      BY <2>1, <2>2, <3>1
    <3>4. ASSUME NEW b \in Apps PROVE app'[b].numAdmittedPkts + pktTimeouts'[b] = 1
      BY <2>1, <2>2, <3>1, <3>2
    <3> QED BY <3>3, <3>4 DEF AdmissionToken
  <2>4. PacketTo(EndpointOf(a), Head(s.queue)) \in Msg
    BY <2>1, MsgTypes DEF EndpointOf, Actors
  <2> QED BY <2>2, <2>3, <2>4, AddType
<1>2. CASE ~c
  <2>1. app' = [app EXCEPT ![a] = s] /\ local' = msgs /\ pktTimeouts' = pktTimeouts
    BY <1>2 DEF SendOrWait
  <2>2. app' \in [Apps -> App] /\ AdmissionToken'
    BY <2>1, SameTokens
  <2> QED BY <2>1, <2>2 DEF IInv, TypeOK
<1> QED BY <1>1, <1>2

\* A file that arrives is queued; nothing is admitted.
LEMMA AppHandleFileStep ==
    ASSUME IInv, NEW a \in Apps, AppHandleFile(a)
    PROVE  IInv'
<1> DEFINE f == Inputs[a][arrived[a] + 1]
           p == packetizeProb(app[a], f)
           v == a = "Bob" \/ p.queuePopulated
           s == [p EXCEPT !.queuePopulated = v]
<1>1. arrived \in [Apps -> Nat] /\ arrived[a] < Len(Inputs[a])
    BY DEF IInv, TypeOK, AppHandleFile
<1>2. f \in Files
  <2>1. Inputs[a] \in Seq(Files) /\ arrived[a] \in Nat
    BY <1>1, DNSAssumption
  <2> QED BY <1>1, <2>1
<1>3. /\ app' = [app EXCEPT ![a] = s]
      /\ arrived' = [arrived EXCEPT ![a] = @ + 1]
      /\ local' = BagAdd(local, Signal(a, "start"))
      /\ UNCHANGED <<client, pingsStarted, server, queries, responses,
                   ackTimeouts, pktTimeouts, pingTimeouts, output, losses>>
    BY DEF AppHandleFile
<1> HIDE DEF f
<1>4. p \in App /\ SameAdmission(p, app[a])
    BY <1>2, IInvFacts, packetizeProbType
<1> HIDE DEF p
<1>5. v \in BOOLEAN
    BY <1>4 DEF App
<1> HIDE DEF v
<1>6. s \in App /\ SameAdmission(s, app[a])
    BY <1>4, <1>5, SetAppAttribute DEF SameAdmission
<1> HIDE DEF s
<1>7. app' \in [Apps -> App] /\ AdmissionToken'
    BY <1>3, <1>6, SameTokens
<1>8. IsABag(local') /\ BagToSet(local') \subseteq Msg
    BY <1>3, IInvFacts, AddType, MsgTypes DEF Apps, Actors
<1>9. arrived' \in [Apps -> Nat]
    BY <1>1, <1>3
<1> QED BY <1>3, <1>7, <1>8, <1>9 DEF IInv, TypeOK, OnePingTimer

\* start at Alice: SendOrWait with her own file in the queue.
LEMMA SendAppSendPacketStep == IInv /\ SendAppSendPacket => IInv'
<1> SUFFICES ASSUME IInv, SendAppSendPacket PROVE IInv'
    OBVIOUS
<1> DEFINE m == Signal("Alice", "start")
           q == populate("Alice")
           s == [q EXCEPT !.iodineReady = TRUE]
           c == s.numAdmittedPkts > 0 /\ canSend(s)
           rest == BagRemove(local, m)
           msgs == BagAdd(rest, Signal("Client", "startPeriodicPings"))
<1>1. /\ m \in BagToSet(local) /\ SendOrWait("Alice", s, c, msgs)
      /\ UNCHANGED <<client, pingsStarted, server, queries, responses,
                       ackTimeouts, pingTimeouts, arrived, output, losses>>
    BY DEF SendAppSendPacket, Consume, BagIn
<1>2. q \in App /\ SameAdmission(q, app["Alice"])
    BY IInvFacts, populateType DEF Apps
<1> HIDE DEF q
<1>3. s \in App /\ SameAdmission(s, app["Alice"])
    BY <1>2, SetAppAttribute DEF SameAdmission
<1> HIDE DEF s
<1>4. IsABag(rest) /\ BagToSet(rest) \subseteq Msg
    BY <1>1, IInvFacts, RemoveType
<1> HIDE DEF rest
<1>5. IsABag(msgs) /\ BagToSet(msgs) \subseteq Msg
    BY <1>4, AddType, MsgTypes DEF Actors
<1> HIDE DEF msgs
<1>6. c \in BOOLEAN /\ (c => canSend(s) /\ s.numAdmittedPkts > 0)
    OBVIOUS
<1> HIDE DEF c
<1>7. /\ app' \in [Apps -> App] /\ pktTimeouts' \in [Apps -> Nat]
      /\ IsABag(local') /\ BagToSet(local') \subseteq Msg
      /\ AdmissionToken'
    BY <1>1, <1>3, <1>5, <1>6, SendOrWaitFacts DEF Apps
<1> QED BY <1>1, <1>7 DEF IInv, TypeOK, OnePingTimer

\* start at Bob: SendOrWait if the server is ready.
LEMMA ReceiveAppSendPacketStep == IInv /\ ReceiveAppSendPacket => IInv'
<1> SUFFICES ASSUME IInv, ReceiveAppSendPacket PROVE IInv'
    OBVIOUS
<1> DEFINE m == Signal("Bob", "start")
           s == populate("Bob")
           c == s.iodineReady /\ s.numAdmittedPkts > 0 /\ canSend(s)
           rest == BagRemove(local, m)
<1>1. /\ m \in BagToSet(local) /\ SendOrWait("Bob", s, c, rest)
      /\ UNCHANGED <<client, pingsStarted, server, queries, responses,
                       ackTimeouts, pingTimeouts, arrived, output, losses>>
    BY DEF ReceiveAppSendPacket, Consume, BagIn
<1>2. s \in App /\ SameAdmission(s, app["Bob"])
    BY IInvFacts, populateType DEF Apps
<1> HIDE DEF s
<1>3. IsABag(rest) /\ BagToSet(rest) \subseteq Msg
    BY <1>1, IInvFacts, RemoveType
<1> HIDE DEF rest
<1>4. c \in BOOLEAN /\ (c => canSend(s) /\ s.numAdmittedPkts > 0)
    OBVIOUS
<1> HIDE DEF c
<1>5. /\ app' \in [Apps -> App] /\ pktTimeouts' \in [Apps -> Nat]
      /\ IsABag(local') /\ BagToSet(local') \subseteq Msg
      /\ AdmissionToken'
    BY <1>1, <1>2, <1>3, <1>4, SendOrWaitFacts DEF Apps
<1> QED BY <1>1, <1>5 DEF IInv, TypeOK, OnePingTimer

\* txDone only makes Bob consider the server ready.
LEMMA ReceiveAppTxDoneStep == IInv /\ ReceiveAppTxDone => IInv'
<1> SUFFICES ASSUME IInv, ReceiveAppTxDone PROVE IInv'
    OBVIOUS
<1> DEFINE m == Signal("Bob", "txDone")
           s == [app["Bob"] EXCEPT !.iodineReady = TRUE]
           rest == BagRemove(local, m)
<1>1. /\ m \in BagToSet(local) /\ app' = [app EXCEPT !["Bob"] = s]
      /\ local' = BagAdd(rest, Signal("Bob", "start"))
      /\ UNCHANGED <<client, pingsStarted, server, queries, responses, ackTimeouts,
                       pktTimeouts, pingTimeouts, arrived, output, losses>>
    BY DEF ReceiveAppTxDone, Consume, BagIn
<1>2. s \in App /\ SameAdmission(s, app["Bob"])
    BY IInvFacts, SetAppAttribute DEF Apps
<1> HIDE DEF s
<1>3. app' \in [Apps -> App] /\ AdmissionToken'
    BY <1>1, <1>2, SameTokens DEF Apps
<1>4. IsABag(rest) /\ BagToSet(rest) \subseteq Msg
    BY <1>1, IInvFacts, RemoveType
<1> HIDE DEF rest
<1>5. IsABag(local') /\ BagToSet(local') \subseteq Msg
    BY <1>1, <1>4, AddType, MsgTypes DEF Actors
<1> QED BY <1>1, <1>3, <1>5 DEF IInv, TypeOK, OnePingTimer

\* The timer's admission is used at once, and the timer set again, or kept.
LEMMA AppPktTimeoutStep ==
    ASSUME IInv, NEW a \in Apps, AppPktTimeout(a)
    PROVE  IInv'
<1> DEFINE n == app[a].numAdmittedPkts + 1
           s == [app[a] EXCEPT !.numAdmittedPkts = n]
           c == s.iodineReady /\ canSend(s)
           r == IF c THEN sendPkt(s) ELSE s
           p == PacketTo(EndpointOf(a), Head(s.queue))
<1>1. /\ pktTimeouts[a] > 0
      /\ app' = [app EXCEPT ![a] = r]
      /\ local' = IF c THEN BagAdd(local, p) ELSE local
      /\ pktTimeouts' = IF c THEN pktTimeouts ELSE [pktTimeouts EXCEPT ![a] = @ - 1]
      /\ UNCHANGED <<client, pingsStarted, server, queries, responses,
                       ackTimeouts, pingTimeouts, arrived, output, losses>>
    BY DEF AppPktTimeout
<1>2. /\ app \in [Apps -> App] /\ pktTimeouts \in [Apps -> Nat]
      /\ \A b \in Apps : app[b].numAdmittedPkts + pktTimeouts[b] = 1
      /\ app[a] \in App /\ app[a].numAdmittedPkts \in Nat
    BY DEF IInv, TypeOK, AdmissionToken, App
<1>3. n \in Nat
    BY <1>2
<1>4. s \in App /\ s.numAdmittedPkts = n
    BY <1>2, <1>3, SetAppAttribute
<1> HIDE DEF s
<1>5. CASE c
  <2>1. r \in App /\ r.numAdmittedPkts = app[a].numAdmittedPkts
        /\ Head(s.queue) \in Packet
    <3>1. /\ sendPkt(s) \in App /\ Head(s.queue) \in Packet
          /\ s.numAdmittedPkts > 0 => sendPkt(s).numAdmittedPkts + 1 = s.numAdmittedPkts
      BY <1>4, <1>5, sendPktType
    <3>2. sendPkt(s).numAdmittedPkts \in Nat
      BY <3>1 DEF App
    <3> QED BY <1>2, <1>4, <1>5, <3>1, <3>2
  <2> HIDE DEF r
  <2>2. p \in Msg
    BY <2>1, MsgTypes DEF EndpointOf, Actors
  <2>3. IsABag(local') /\ BagToSet(local') \subseteq Msg
    BY <1>1, <1>5, <2>2, IInvFacts, AddType
  <2>4. app' \in [Apps -> App] /\ pktTimeouts' = pktTimeouts
        /\ \A b \in Apps : app'[b].numAdmittedPkts = app[b].numAdmittedPkts
    BY <1>1, <1>2, <1>5, <2>1
  <2>5. AdmissionToken'
    BY <1>2, <2>4 DEF AdmissionToken
  <2> QED BY <1>1, <2>3, <2>4, <2>5 DEF IInv, TypeOK, OnePingTimer
<1>6. CASE ~c
  <2>1. /\ app' = [app EXCEPT ![a] = s] /\ local' = local
        /\ pktTimeouts' = [pktTimeouts EXCEPT ![a] = @ - 1]
    BY <1>1, <1>6
  <2>2. app' \in [Apps -> App] /\ pktTimeouts' \in [Apps -> Nat]
    BY <1>1, <1>2, <1>4, <2>1
  <2>3. AdmissionToken'
    <3>1. ASSUME NEW b \in Apps PROVE app'[b].numAdmittedPkts + pktTimeouts'[b] = 1
      BY <1>1, <1>2, <1>4, <2>1
    <3> QED BY <3>1 DEF AdmissionToken
  <2> QED BY <1>1, <2>1, <2>2, <2>3 DEF IInv, TypeOK, OnePingTimer
<1> QED BY <1>5, <1>6

\* A packet received is kept and its file handed on.
LEMMA RcvPacketFacts ==
    ASSUME IInv, NEW m \in BagToSet(local), m.kind = "packet", NEW a \in Apps, NEW l,
           l \in Seq(Packet), app' = [app EXCEPT ![a].rcvd = l],
           UNCHANGED pktTimeouts, local' = BagRemove(local, m),
           output' = output \/ output' = [output EXCEPT ![a] = Append(@, m.pkt.file)]
    PROVE  /\ app' \in [Apps -> App] /\ AdmissionToken'
           /\ IsABag(local') /\ BagToSet(local') \subseteq Msg
           /\ output' \in [Apps -> Seq(Files \cup {NoFile})]
<1> DEFINE s == [app[a] EXCEPT !.rcvd = l]
<1>1. app' = [app EXCEPT ![a] = s]
    OBVIOUS
<1>2. s \in App /\ SameAdmission(s, app[a])
    BY IInvFacts, SetAppAttribute
<1> HIDE DEF s
<1>3. app' \in [Apps -> App] /\ AdmissionToken'
    BY <1>1, <1>2, SameTokens
<1>4. IsABag(local') /\ BagToSet(local') \subseteq Msg
    BY IInvFacts, RemoveType
<1>5. m.pkt.file \in Files \cup {NoFile}
    BY IInvFacts, MsgTypes DEF Packet
<1>6. output' \in [Apps -> Seq(Files \cup {NoFile})]
  <2>1. output \in [Apps -> Seq(Files \cup {NoFile})]
    BY DEF IInv, TypeOK
  <2>2. Append(output[a], m.pkt.file) \in Seq(Files \cup {NoFile})
    BY <1>5, <2>1
  <2> QED BY <2>1, <2>2
<1> QED BY <1>3, <1>4, <1>6

\* Bob keeps a packet and may hand the file on.
LEMMA ReceiveAppRcvPacketStep == IInv /\ ReceiveAppRcvPacket => IInv'
<1> SUFFICES ASSUME IInv, ReceiveAppRcvPacket PROVE IInv'
    OBVIOUS
<1>1. PICK m \in BagToSet(local) :
        /\ m.kind = "packet"
        /\ app' = [app EXCEPT !["Bob"].rcvd = Append(@, m.pkt)]
        /\ local' = BagRemove(local, m)
        /\ output' = IF m.pkt.lastPacket
                     THEN [output EXCEPT !["Bob"] = Append(@, m.pkt.file)] ELSE output
        /\ UNCHANGED <<client, pingsStarted, server, queries, responses, ackTimeouts,
                       pktTimeouts, pingTimeouts, arrived, losses>>
    BY DEF ReceiveAppRcvPacket
<1> DEFINE l == Append(app["Bob"].rcvd, m.pkt)
<1>2. l \in Seq(Packet)
  <2>1. app["Bob"].rcvd \in Seq(Packet)
    BY IInvFacts DEF App, Apps
  <2>2. m.pkt \in Packet
    BY <1>1, IInvFacts, MsgTypes
  <2> QED BY <2>1, <2>2
<1>3. app' = [app EXCEPT !["Bob"].rcvd = l]
    BY <1>1
<1> HIDE DEF l
<1>4. /\ app' \in [Apps -> App] /\ AdmissionToken'
      /\ IsABag(local') /\ BagToSet(local') \subseteq Msg
      /\ output' \in [Apps -> Seq(Files \cup {NoFile})]
    BY <1>1, <1>2, <1>3, RcvPacketFacts DEF Apps
<1> QED BY <1>1, <1>4 DEF IInv, TypeOK, OnePingTimer

\* Alice keeps a packet and hands the file on.
LEMMA SendAppRcvPacketStep == IInv /\ SendAppRcvPacket => IInv'
<1> SUFFICES ASSUME IInv, SendAppRcvPacket PROVE IInv'
    OBVIOUS
<1>1. PICK m \in BagToSet(local) :
        /\ m.kind = "packet"
        /\ app' = [app EXCEPT !["Alice"].rcvd = <<m.pkt>> \o @]
        /\ local' = BagRemove(local, m)
        /\ output' = [output EXCEPT !["Alice"] = Append(@, m.pkt.file)]
        /\ UNCHANGED <<client, pingsStarted, server, queries, responses, ackTimeouts,
                       pktTimeouts, pingTimeouts, arrived, losses>>
    BY DEF SendAppRcvPacket
<1> DEFINE l == <<m.pkt>> \o app["Alice"].rcvd
<1>2. l \in Seq(Packet)
  <2>1. app["Alice"].rcvd \in Seq(Packet)
    BY IInvFacts DEF App, Apps
  <2>2. m.pkt \in Packet
    BY <1>1, IInvFacts, MsgTypes
  <2> QED BY <2>1, <2>2
<1>3. app' = [app EXCEPT !["Alice"].rcvd = l]
    BY <1>1
<1> HIDE DEF l
<1>4. /\ app' \in [Apps -> App] /\ AdmissionToken'
      /\ IsABag(local') /\ BagToSet(local') \subseteq Msg
      /\ output' \in [Apps -> Seq(Files \cup {NoFile})]
    BY <1>1, <1>2, <1>3, RcvPacketFacts DEF Apps
<1> QED BY <1>1, <1>4 DEF IInv, TypeOK, OnePingTimer

-----------------------------------------------------------------------------
(* The steps of the client *)

\* A message with the current fragment, and the timer set with it.
LEMMA TransmitFacts ==
    ASSUME IInv, NEW e, WellFormed(e), isSending(e), Transmit(e)
    PROVE  /\ IsABag(queries') /\ BagToSet(queries') \subseteq Fragment
           /\ IsABag(ackTimeouts') /\ BagToSet(ackTimeouts') \subseteq Nat \X Nat
<1>1. grabCurrentFragment(e) \in Fragment /\ currentNumber(e) \in Nat \X Nat
    BY MessageTypes
<1>2. /\ queries' = BagAdd(queries, grabCurrentFragment(e))
      /\ ackTimeouts' = BagAdd(ackTimeouts, currentNumber(e))
    BY DEF Transmit
<1> QED BY <1>1, <1>2, IInvFacts, AddType

\* Steps that leave the applications alone leave their admissions alone.
LEMMA SameApps ==
    ASSUME IInv, UNCHANGED <<app, pktTimeouts>>
    PROVE  AdmissionToken'
BY DEF IInv, AdmissionToken

\* The client takes a packet and transmits its first fragment.
LEMMA IClientEmbeddingStep == IInv /\ IClientEmbedding => IInv'
<1> SUFFICES ASSUME IInv, IClientEmbedding PROVE IInv'
    OBVIOUS
<1>1. PICK m \in BagToSet(local) :
        /\ client' = incrNumAttempts(handleNewPacket(client, m.pkt))
        /\ m.kind = "packet" /\ Transmit(handleNewPacket(client, m.pkt))
        /\ local' = BagRemove(local, m)
        /\ UNCHANGED <<app, pingsStarted, server, responses, pktTimeouts,
                       pingTimeouts, arrived, output, losses>>
    BY DEF IClientEmbedding
<1> DEFINE e == handleNewPacket(client, m.pkt)
<1>2. WellFormed(e) /\ isSending(e)
    BY <1>1, IInvFacts, MsgTypes, handleNewPacketType DEF IInv
<1>3. client' = incrNumAttempts(e) /\ Transmit(e)
    BY <1>1
<1> HIDE DEF e
<1>4. WellFormed(client')
    BY <1>2, <1>3, incrNumAttemptsType
<1>5. IsABag(local') /\ BagToSet(local') \subseteq Msg
    BY <1>1, IInvFacts, RemoveType
<1>6. /\ IsABag(queries') /\ BagToSet(queries') \subseteq Fragment
      /\ IsABag(ackTimeouts') /\ BagToSet(ackTimeouts') \subseteq Nat \X Nat
    BY <1>2, <1>3, TransmitFacts
<1>7. AdmissionToken'
    BY <1>1, SameApps
<1> QED BY <1>1, <1>4, <1>5, <1>6, <1>7 DEF IInv, TypeOK, OnePingTimer, WellFormed

\* What a response leads to: the client may transmit, ping, or pass a packet on, and
\* in each case sends only what it has.
LEMMA IClientExtractFromServerStep == IInv /\ IClientExtractFromServer => IInv'
<1> SUFFICES ASSUME IInv, IClientExtractFromServer PROVE IInv'
    OBVIOUS
<1>1. PICK f \in BagToSet(responses) :
        LET e == processFragment(client, f)
            pings == ~isSending(e) /\ ~isEmptyFile(f) /\ ~f.lastFrag
            nudge == AddIf(local, ~isSending(e) /\ ~pings, Signal("Alice", "start"))
        IN  /\ responses' = BagRemove(responses, f)
            /\ client' = updateRcvAppAlice(IF isSending(e) THEN incrNumAttempts(e) ELSE e)
            /\ IF isSending(e)
               THEN Transmit(e)
               ELSE /\ queries' = AddIf(queries, pings, pingFragment(e))
                    /\ ackTimeouts' = ackTimeouts
            /\ local' = IF e.lastFragment
                        THEN BagAdd(nudge, PacketTo("Alice", makePacket(e.fragmentsReceived)))
                        ELSE nudge
            /\ UNCHANGED <<app, pingsStarted, server, pktTimeouts, pingTimeouts,
                           arrived, output, losses>>
    BY DEF IClientExtractFromServer
<1> DEFINE e == processFragment(client, f)
           pings == ~isSending(e) /\ ~isEmptyFile(f) /\ ~f.lastFrag
           idles == ~isSending(e) /\ ~pings
           nudge == AddIf(local, idles, Signal("Alice", "start"))
<1>2. WellFormed(e)
    BY IInvFacts, processFragmentType DEF IInv
<1> HIDE DEF e
<1>3. IsABag(responses') /\ BagToSet(responses') \subseteq Fragment
    BY <1>1, IInvFacts, RemoveType
<1>4. WellFormed(client')
  <2>1. client' = updateRcvAppAlice(IF isSending(e) THEN incrNumAttempts(e) ELSE e)
    BY <1>1 DEF e
  <2> QED BY <1>2, <2>1, incrNumAttemptsType, updateRcvAppType
<1>5. /\ IsABag(queries') /\ BagToSet(queries') \subseteq Fragment
      /\ IsABag(ackTimeouts') /\ BagToSet(ackTimeouts') \subseteq Nat \X Nat
  <2>1. IF isSending(e) THEN Transmit(e)
        ELSE queries' = AddIf(queries, pings, pingFragment(e)) /\ ackTimeouts' = ackTimeouts
    BY <1>1 DEF e
  <2> HIDE DEF pings
  <2>2. CASE isSending(e)
    BY <1>2, <2>1, <2>2, TransmitFacts
  <2>3. CASE ~isSending(e)
    <3>1. /\ \/ queries' = queries
             \/ queries' = BagAdd(queries, pingFragment(e))
          /\ ackTimeouts' = ackTimeouts
      BY <2>1, <2>3 DEF AddIf
    <3>2. pingFragment(e) \in Fragment
      BY <1>2, MessageTypes
    <3> QED BY <3>1, <3>2, IInvFacts, AddType
  <2> QED BY <2>2, <2>3
<1>6. IsABag(local') /\ BagToSet(local') \subseteq Msg
  <2>1. local' = IF e.lastFragment
                 THEN BagAdd(nudge, PacketTo("Alice", makePacket(e.fragmentsReceived)))
                 ELSE nudge
    BY <1>1 DEF e
  <2> HIDE DEF idles
  <2>2. IsABag(nudge) /\ BagToSet(nudge) \subseteq Msg
    BY IInvFacts, AddType, MsgTypes DEF Actors
  <2> HIDE DEF nudge
  <2>3. e.lastFragment =>
          PacketTo("Alice", makePacket(e.fragmentsReceived)) \in Msg
    BY <1>2, makePacketType, MsgTypes DEF WellFormed, Endpoint, Actors
  <2> QED BY <2>1, <2>2, <2>3, AddType
<1>7. UNCHANGED <<app, pingsStarted, server, pktTimeouts, pingTimeouts,
                  arrived, output, losses>>
    BY <1>1
<1>8. AdmissionToken'
    BY <1>7, SameApps
<1> QED BY <1>3, <1>4, <1>5, <1>6, <1>7, <1>8
        DEF IInv, TypeOK, OnePingTimer, WellFormed

\* An outdated response is only consumed.
LEMMA WClientExtractOldResponseStep == IInv /\ WClientExtractOldResponse => IInv'
<1> SUFFICES ASSUME IInv, WClientExtractOldResponse PROVE IInv'
    OBVIOUS
<1>1. IsABag(responses') /\ BagToSet(responses') \subseteq Fragment
    BY IInvFacts, RemoveType DEF WClientExtractOldResponse
<1>2. AdmissionToken'
    BY SameApps DEF WClientExtractOldResponse
<1> QED BY <1>1, <1>2
        DEF WClientExtractOldResponse, IInv, TypeOK, OnePingTimer, WellFormed

\* The only step that may set the ping timer: it does so the first time.
LEMMA ClientStartPeriodicPingsStep == IInv /\ ClientStartPeriodicPings => IInv'
<1> SUFFICES ASSUME IInv, ClientStartPeriodicPings PROVE IInv'
    OBVIOUS
<1>1. IsABag(local') /\ BagToSet(local') \subseteq Msg
    BY IInvFacts, RemoveType DEF ClientStartPeriodicPings, Consume, BagIn
<1>2. OnePingTimer' /\ pingTimeouts' \in Nat /\ pingsStarted' \in BOOLEAN
    BY DEF ClientStartPeriodicPings, IInv, TypeOK, OnePingTimer
<1>3. AdmissionToken'
    BY SameApps DEF ClientStartPeriodicPings
<1> QED BY <1>1, <1>2, <1>3 DEF ClientStartPeriodicPings, IInv, TypeOK, WellFormed

\* A ping is added; the timer goes on.
LEMMA ClientPingTimeoutStep == IInv /\ ClientPingTimeout => IInv'
<1> SUFFICES ASSUME IInv, ClientPingTimeout PROVE IInv'
    OBVIOUS
<1>1. pingFragment(client) \in Fragment
    BY MessageTypes DEF IInv
<1>2. IsABag(queries') /\ BagToSet(queries') \subseteq Fragment
    BY <1>1, IInvFacts, AddType DEF ClientPingTimeout
<1>3. AdmissionToken'
    BY SameApps DEF ClientPingTimeout
<1> QED BY <1>2, <1>3 DEF ClientPingTimeout, IInv, TypeOK, OnePingTimer, WellFormed

\* A fragment is sent again, or the packet given up.
LEMMA IClientTimeoutStep == IInv /\ IClientTimeout => IInv'
<1> SUFFICES ASSUME IInv, IClientTimeout PROVE IInv'
    OBVIOUS
<1>1. PICK t \in BagToSet(ackTimeouts) :
        /\ ~isTimeOutMoot(t)
        /\ \/ /\ client' = dropFragmentsToSend(client)
              /\ local' = BagAdd(local, Signal("Alice", "start"))
              /\ ackTimeouts' = BagRemove(ackTimeouts, t)
              /\ queries' = queries
           \/ /\ client' = incrNumAttempts(client)
              /\ queries' = BagAdd(queries, grabCurrentFragment(client))
              /\ UNCHANGED <<ackTimeouts, local>>
        /\ UNCHANGED <<app, pingsStarted, server, responses, pktTimeouts,
                       pingTimeouts, arrived, output, losses>>
    BY DEF IClientTimeout
<1>2. isSending(client)
    BY <1>1 DEF isTimeOutMoot
<1>3. AdmissionToken'
    BY <1>1, SameApps
<1>4. CASE /\ client' = dropFragmentsToSend(client)
           /\ local' = BagAdd(local, Signal("Alice", "start"))
           /\ ackTimeouts' = BagRemove(ackTimeouts, t)
           /\ queries' = queries
  <2>1. WellFormed(client')
    BY <1>4, dropFragmentsToSendType DEF IInv
  <2>2. IsABag(local') /\ BagToSet(local') \subseteq Msg
    BY <1>4, IInvFacts, AddType, MsgTypes DEF Actors
  <2>3. IsABag(ackTimeouts') /\ BagToSet(ackTimeouts') \subseteq Nat \X Nat
    BY <1>4, IInvFacts, RemoveType
  <2> QED BY <1>1, <1>3, <1>4, <2>1, <2>2, <2>3
          DEF IInv, TypeOK, OnePingTimer, WellFormed
<1>5. CASE /\ client' = incrNumAttempts(client)
           /\ queries' = BagAdd(queries, grabCurrentFragment(client))
           /\ UNCHANGED <<ackTimeouts, local>>
  <2>1. WellFormed(client')
    BY <1>5, incrNumAttemptsType DEF IInv
  <2>2. grabCurrentFragment(client) \in Fragment
    BY <1>2, MessageTypes DEF IInv
  <2>3. IsABag(queries') /\ BagToSet(queries') \subseteq Fragment
    BY <1>5, <2>2, IInvFacts, AddType
  <2> QED BY <1>1, <1>3, <1>5, <2>1, <2>3
          DEF IInv, TypeOK, OnePingTimer, WellFormed
<1> QED BY <1>1, <1>4, <1>5

\* A moot timer is only consumed.
LEMMA IClientTimeoutIgnoreStep == IInv /\ IClientTimeoutIgnore => IInv'
<1> SUFFICES ASSUME IInv, IClientTimeoutIgnore PROVE IInv'
    OBVIOUS
<1>1. IsABag(ackTimeouts') /\ BagToSet(ackTimeouts') \subseteq Nat \X Nat
    BY IInvFacts, RemoveType DEF IClientTimeoutIgnore
<1>2. AdmissionToken'
    BY SameApps DEF IClientTimeoutIgnore
<1> QED BY <1>1, <1>2
        DEF IClientTimeoutIgnore, IInv, TypeOK, OnePingTimer, WellFormed

-----------------------------------------------------------------------------
(* The steps of the server and of the network *)

\* The server takes a packet that Bob sent it.
LEMMA IServerEmbeddingStep == IInv /\ IServerEmbedding => IInv'
<1> SUFFICES ASSUME IInv, IServerEmbedding PROVE IInv'
    OBVIOUS
<1>1. PICK m \in BagToSet(local) :
        /\ m.kind = "packet"
        /\ server' = handleNewPacket(server, m.pkt)
        /\ local' = BagRemove(local, m)
        /\ UNCHANGED <<app, client, pingsStarted, queries, responses, ackTimeouts,
                       pktTimeouts, pingTimeouts, arrived, output, losses>>
    BY DEF IServerEmbedding
<1>2. WellFormed(server')
    BY <1>1, IInvFacts, MsgTypes, handleNewPacketType DEF IInv
<1>3. IsABag(local') /\ BagToSet(local') \subseteq Msg
    BY <1>1, IInvFacts, RemoveType
<1>4. AdmissionToken'
    BY <1>1, SameApps
<1> QED BY <1>1, <1>2, <1>3, <1>4 DEF IInv, TypeOK, OnePingTimer, WellFormed

\* A busy server only consumes the packet.
LEMMA IServerEmbeddingSendingStep == IInv /\ IServerEmbeddingSending => IInv'
<1> SUFFICES ASSUME IInv, IServerEmbeddingSending PROVE IInv'
    OBVIOUS
<1>1. IsABag(local') /\ BagToSet(local') \subseteq Msg
    BY IInvFacts, RemoveType DEF IServerEmbeddingSending
<1>2. AdmissionToken'
    BY SameApps DEF IServerEmbeddingSending
<1> QED BY <1>1, <1>2
        DEF IServerEmbeddingSending, IInv, TypeOK, OnePingTimer, WellFormed

\* The server may take a packet of Bob's while it answers: Bob's admission is used up
\* and his pacing timer set in the same step.
LEMMA PullFacts ==
    ASSUME IInv, NEW b \in App, SameAdmission(b, app["Bob"]),
           NEW c \in BOOLEAN, c => b.numAdmittedPkts > 0 /\ canSend(b),
           app' = [app EXCEPT !["Bob"] = IF c THEN sendPkt(b) ELSE b],
           pktTimeouts' = IF c THEN [pktTimeouts EXCEPT !["Bob"] = @ + 1]
                               ELSE pktTimeouts
    PROVE  app' \in [Apps -> App] /\ pktTimeouts' \in [Apps -> Nat] /\ AdmissionToken'
<1>2. "Bob" \in Apps
    BY DEF Apps
<1>3. /\ app \in [Apps -> App] /\ pktTimeouts \in [Apps -> Nat]
      /\ \A a \in Apps : app[a].numAdmittedPkts + pktTimeouts[a] = 1
    BY DEF IInv, TypeOK, AdmissionToken
<1>4. CASE c
  <2> DEFINE r == sendPkt(b)
  <2>1. r \in App /\ r.numAdmittedPkts + 1 = app["Bob"].numAdmittedPkts
    BY <1>4, sendPktType DEF SameAdmission
  <2>2. app' = [app EXCEPT !["Bob"] = r]
        /\ pktTimeouts' = [pktTimeouts EXCEPT !["Bob"] = @ + 1]
    BY <1>4
  <2> HIDE DEF r
  <2>3. r.numAdmittedPkts \in Nat /\ app["Bob"].numAdmittedPkts \in Nat
    BY <1>2, <1>3, <2>1 DEF App
  <2>4. app' \in [Apps -> App] /\ pktTimeouts' \in [Apps -> Nat]
    BY <1>2, <1>3, <2>1, <2>2
  <2>5. ASSUME NEW a \in Apps PROVE app'[a].numAdmittedPkts + pktTimeouts'[a] = 1
    BY <1>2, <1>3, <2>1, <2>2, <2>3
  <2> QED BY <2>4, <2>5 DEF AdmissionToken
<1>5. CASE ~c
  <2>1. app' = [app EXCEPT !["Bob"] = b] /\ pktTimeouts' = pktTimeouts
    BY <1>5
  <2> QED BY <1>2, <1>3, <2>1, SameTokens
<1> QED BY <1>4, <1>5

\* A query: its data, its ack, perhaps a packet of Bob's, the answer.
LEMMA WnameserverReceiveQueryStep == IInv /\ WnameserverReceiveQuery => IInv'
<1> SUFFICES ASSUME IInv, WnameserverReceiveQuery PROVE IInv'
    OBVIOUS
<1>1. PICK f \in BagToSet(queries) :
        LET e == processFragment(server, f)
            bob == IF isTxComplete(e) THEN markServerAppReady(app["Bob"]) ELSE app["Bob"]
            pulls == isTxComplete(e) /\ bob.numAdmittedPkts > 0 /\ canSend(bob)
            loaded == IF pulls THEN handleNewPacket(e, Head(bob.queue)) ELSE e
            next == buildServerResponse(loaded)
            done == AddIf(local, isTxComplete(next), Signal("Bob", "txDone"))
        IN  /\ queries' = BagRemove(queries, f)
            /\ responses' = BagAdd(responses, responseFragment(loaded))
            /\ server' = updateRcvApp(next)
            /\ app' = [app EXCEPT !["Bob"] = IF pulls THEN sendPkt(bob) ELSE bob]
            /\ pktTimeouts' = IF pulls THEN [pktTimeouts EXCEPT !["Bob"] = @ + 1]
                                       ELSE pktTimeouts
            /\ local' = IF next.lastFragment
                        THEN BagAdd(done, PacketTo("Bob", makePacket(next.fragmentsReceived)))
                        ELSE done
            /\ UNCHANGED <<client, pingsStarted, ackTimeouts, pingTimeouts, arrived,
                           output, losses>>
    BY DEF WnameserverReceiveQuery
<1> DEFINE e == processFragment(server, f)
           bob == IF isTxComplete(e) THEN markServerAppReady(app["Bob"]) ELSE app["Bob"]
           pulls == isTxComplete(e) /\ bob.numAdmittedPkts > 0 /\ canSend(bob)
           loaded == IF pulls THEN handleNewPacket(e, Head(bob.queue)) ELSE e
           next == buildServerResponse(loaded)
           done == AddIf(local, isTxComplete(next), Signal("Bob", "txDone"))
<1>2. /\ queries' = BagRemove(queries, f)
      /\ responses' = BagAdd(responses, responseFragment(loaded))
      /\ server' = updateRcvApp(next)
      /\ app' = [app EXCEPT !["Bob"] = IF pulls THEN sendPkt(bob) ELSE bob]
      /\ pktTimeouts' = IF pulls THEN [pktTimeouts EXCEPT !["Bob"] = @ + 1]
                                 ELSE pktTimeouts
      /\ local' = IF next.lastFragment
                  THEN BagAdd(done, PacketTo("Bob", makePacket(next.fragmentsReceived)))
                  ELSE done
      /\ UNCHANGED <<client, pingsStarted, ackTimeouts, pingTimeouts, arrived,
                     output, losses>>
    BY <1>1
<1>3. WellFormed(e)
    BY IInvFacts, processFragmentType DEF IInv
<1> HIDE DEF e
<1>4. bob \in App /\ SameAdmission(bob, app["Bob"])
    BY IInvFacts, SetAppAttribute DEF Apps, markServerAppReady, SameAdmission
<1> HIDE DEF bob
<1>5. pulls \in BOOLEAN /\ (pulls => bob.numAdmittedPkts > 0 /\ canSend(bob))
    OBVIOUS
<1> HIDE DEF pulls
<1>6. app' \in [Apps -> App] /\ pktTimeouts' \in [Apps -> Nat] /\ AdmissionToken'
    BY <1>2, <1>4, <1>5, PullFacts
<1>7. WellFormed(loaded)
    BY <1>3, <1>4, <1>5, sendPktType, handleNewPacketType
<1> HIDE DEF loaded
<1>8. WellFormed(next)
    BY <1>7, incrNumAttemptsType DEF buildServerResponse
<1> HIDE DEF next
<1>9. WellFormed(server')
    BY <1>2, <1>8, updateRcvAppType
<1>10. IsABag(queries') /\ BagToSet(queries') \subseteq Fragment
    BY <1>2, IInvFacts, RemoveType
<1>11. IsABag(responses') /\ BagToSet(responses') \subseteq Fragment
    BY <1>2, <1>7, IInvFacts, AddType, MessageTypes
<1>12. IsABag(local') /\ BagToSet(local') \subseteq Msg
  <2>1. IsABag(done) /\ BagToSet(done) \subseteq Msg
    BY IInvFacts, AddType, MsgTypes DEF Actors
  <2> HIDE DEF done
  <2>2. next.lastFragment =>
          PacketTo("Bob", makePacket(next.fragmentsReceived)) \in Msg
    BY <1>8, makePacketType, MsgTypes DEF WellFormed, Endpoint, Actors
  <2> QED BY <1>2, <2>1, <2>2, AddType
<1> QED BY <1>2, <1>6, <1>9, <1>10, <1>11, <1>12
        DEF IInv, TypeOK, OnePingTimer, WellFormed

\* Losses only take messages away.
LEMMA LoseStep == IInv /\ (LoseQuery \/ LoseResponse) => IInv'
<1>1. ASSUME IInv, LoseQuery PROVE IInv'
  <2>1. IsABag(queries') /\ BagToSet(queries') \subseteq Fragment
    BY <1>1, IInvFacts, RemoveType DEF LoseQuery
  <2>2. AdmissionToken' /\ losses' \in Nat
    BY <1>1, SameApps DEF LoseQuery, IInv, TypeOK
  <2> QED BY <1>1, <2>1, <2>2 DEF LoseQuery, IInv, TypeOK, OnePingTimer, WellFormed
<1>2. ASSUME IInv, LoseResponse PROVE IInv'
  <2>1. IsABag(responses') /\ BagToSet(responses') \subseteq Fragment
    BY <1>2, IInvFacts, RemoveType DEF LoseResponse
  <2>2. AdmissionToken' /\ losses' \in Nat
    BY <1>2, SameApps DEF LoseResponse, IInv, TypeOK
  <2> QED BY <1>2, <2>1, <2>2 DEF LoseResponse, IInv, TypeOK, OnePingTimer, WellFormed
<1> QED BY <1>1, <1>2

-----------------------------------------------------------------------------
(* The theorems *)

\* The invariant holds at the start.
LEMMA InitIInv == Init => IInv
<1> SUFFICES ASSUME Init PROVE IInv
    OBVIOUS
<1>1. \A b \in BOOLEAN : makeApp(b) \in App /\ makeApp(b).numAdmittedPkts = 1
  <2>1. <<>> \in Seq(Packet)
    OBVIOUS
  <2> QED BY <2>1 DEF makeApp, App
<1>2. app \in [Apps -> App] /\ \A a \in Apps : app[a].numAdmittedPkts = 1
    BY <1>1 DEF Init
<1>3. WellFormed(makeEndpoint)
  <2>1. <<>> \in Seq(Fragment) /\ 0 \in 0..AttemptsCap
    BY NodeAssumption DEF AttemptsCap
  <2> QED BY <2>1 DEF makeEndpoint, Endpoint, WellFormed
<1>4. IsABag(local) /\ BagToSet(local) \subseteq Msg
  <2> DEFINE S == {Signal(a, "start") : a \in {b \in Apps : OwnFile[b] # NoFile}}
  <2>1. S \subseteq Msg
    BY MsgTypes DEF Apps, Actors
  <2>2. local = SetToBag(S)
    BY DEF Init
  <2> HIDE DEF S
  <2> QED BY <2>1, <2>2, SetToBagFacts
<1>5. AdmissionToken /\ OnePingTimer
    BY <1>2 DEF Init, AdmissionToken, OnePingTimer
<1>6. /\ pktTimeouts \in [Apps -> Nat] /\ arrived \in [Apps -> Nat]
      /\ output \in [Apps -> Seq(Files \cup {NoFile})]
  <2>1. <<>> \in Seq(Files \cup {NoFile})
    OBVIOUS
  <2> QED BY <2>1 DEF Init
<1>7. /\ IsABag(queries) /\ BagToSet(queries) = {}
      /\ IsABag(responses) /\ BagToSet(responses) = {}
      /\ IsABag(ackTimeouts) /\ BagToSet(ackTimeouts) = {}
    BY EmptyBagFacts DEF Init
<1>8. /\ client = makeEndpoint /\ server = makeEndpoint
      /\ pingsStarted = FALSE /\ pingTimeouts = 0 /\ losses = 0
    BY DEF Init
<1> QED BY <1>2, <1>3, <1>4, <1>5, <1>6, <1>7, <1>8 DEF IInv, TypeOK, WellFormed

\* Every step preserves the invariant.
LEMMA NextIInv == IInv /\ [Next]_vars => IInv'
<1> SUFFICES ASSUME IInv, [Next]_vars PROVE IInv'
    OBVIOUS
<1>1. CASE AppNext
    BY <1>1, AppHandleFileStep, AppPktTimeoutStep, SendAppSendPacketStep,
       SendAppRcvPacketStep, ReceiveAppSendPacketStep, ReceiveAppTxDoneStep,
       ReceiveAppRcvPacketStep DEF AppNext
<1>2. CASE ClientNext
    BY <1>2, IClientEmbeddingStep, IClientExtractFromServerStep,
       WClientExtractOldResponseStep, ClientStartPeriodicPingsStep,
       ClientPingTimeoutStep, IClientTimeoutStep, IClientTimeoutIgnoreStep
       DEF ClientNext
<1>3. CASE ServerNext
    BY <1>3, IServerEmbeddingStep, IServerEmbeddingSendingStep,
       WnameserverReceiveQueryStep DEF ServerNext
<1>4. CASE NetworkNext
    BY <1>4, LoseStep DEF NetworkNext
<1>5. CASE UNCHANGED vars
    BY <1>5 DEF vars, IInv, TypeOK, AdmissionToken, OnePingTimer, WellFormed
<1> QED BY <1>1, <1>2, <1>3, <1>4, <1>5 DEF Next

\* Every variable keeps its type; in particular a packet is only put together from
\* fragments that are there, and a packet with nothing in it is never sent.
THEOREM TypeCorrect == Spec => []TypeOK
<1>1. IInv => TypeOK
    BY DEF IInv
<1> QED BY <1>1, InitIInv, NextIInv, PTL DEF Spec

\* Pacing: an application always has either one packet admitted or one pacing timer
\* pending, whichever of its rules, or the server in Bob's stead, sent last.
THEOREM Pacing == Spec => []AdmissionToken
<1>1. IInv => AdmissionToken
    BY DEF IInv
<1> QED BY <1>1, InitIInv, NextIInv, PTL DEF Spec

\* Pings: at most one ping timer runs, and one does once they were started.
THEOREM OnePing == Spec => []OnePingTimer
<1>1. IInv => OnePingTimer
    BY DEF IInv
<1> QED BY <1>1, InitIInv, NextIInv, PTL DEF Spec

-----------------------------------------------------------------------------
(* Retransmission *)

\* Transmit sets the timer of what it sends.
LEMMA TransmitArms ==
    ASSUME IInv, NEW e \in Endpoint, Transmit(e)
    PROVE  currentNumber(e) \in BagToSet(ackTimeouts')
BY IInvFacts, BagAddFacts DEF Transmit

\* Every step of the client leaves the fragment it is sending timed.
LEMMA ClientArmed ==
    ASSUME IInv, AckTimerArmed, ClientNext
    PROVE  AckTimerArmed'
<1>1. client \in Endpoint
    BY DEF IInv, TypeOK
<1>2. CASE IClientEmbedding
  <2>1. PICK m \in BagToSet(local) :
          /\ client' = incrNumAttempts(handleNewPacket(client, m.pkt))
          /\ m.kind = "packet" /\ Transmit(handleNewPacket(client, m.pkt))
    BY <1>2 DEF IClientEmbedding
  <2> DEFINE e == handleNewPacket(client, m.pkt)
  <2>2. e \in Endpoint
    BY <2>1, IInvFacts, MsgTypes, handleNewPacketType DEF IInv, WellFormed
  <2>3. client' = incrNumAttempts(e) /\ Transmit(e)
    BY <2>1
  <2> HIDE DEF e
  <2>4. currentNumber(client') \in BagToSet(ackTimeouts')
    BY <2>2, <2>3, SameOutgoing, TransmitArms
  <2> QED BY <2>4 DEF AckTimerArmed, currentNumber
<1>3. CASE IClientExtractFromServer
  <2>1. PICK f \in BagToSet(responses) :
          LET e == processFragment(client, f)
          IN  /\ client' = updateRcvAppAlice(IF isSending(e) THEN incrNumAttempts(e) ELSE e)
              /\ isSending(e) => Transmit(e)
    BY <1>3 DEF IClientExtractFromServer
  <2> DEFINE e == processFragment(client, f)
  <2>2. WellFormed(e)
    BY IInvFacts, processFragmentType DEF IInv
  <2>3. /\ client' = updateRcvAppAlice(IF isSending(e) THEN incrNumAttempts(e) ELSE e)
        /\ isSending(e) => Transmit(e)
    BY <2>1
  <2> HIDE DEF e
  <2>4. CASE isSending(e)
    <3>1. e \in Endpoint /\ incrNumAttempts(e) \in Endpoint
      BY <2>2, incrNumAttemptsType DEF WellFormed
    <3>2. currentNumber(client') = currentNumber(e)
      BY <2>3, <2>4, <3>1, SameOutgoing
    <3>3. currentNumber(client') \in BagToSet(ackTimeouts')
      BY <2>3, <2>4, <3>1, <3>2, TransmitArms
    <3> QED BY <3>3 DEF AckTimerArmed, currentNumber
  <2>5. CASE ~isSending(e)
    <3>1. ~isSending(client')
      BY <2>2, <2>3, <2>5, SameOutgoing DEF WellFormed
    <3> QED BY <3>1 DEF AckTimerArmed, isSending
  <2> QED BY <2>4, <2>5
<1>4. CASE IClientTimeout
  <2>1. \/ client' = dropFragmentsToSend(client)
        \/ client' = incrNumAttempts(client) /\ ackTimeouts' = ackTimeouts
    BY <1>4 DEF IClientTimeout
  <2>2. CASE client' = dropFragmentsToSend(client)
    <3>1. client'.fragmentsToSend = <<>>
      BY <1>1, <2>2 DEF dropFragmentsToSend, Endpoint
    <3> QED BY <3>1 DEF AckTimerArmed, isSending
  <2>3. CASE client' = incrNumAttempts(client) /\ ackTimeouts' = ackTimeouts
    <3>1. /\ currentNumber(client') = currentNumber(client)
          /\ isSending(client') => isSending(client)
      BY <1>1, <2>3, SameOutgoing
    <3> QED BY <2>3, <3>1 DEF AckTimerArmed, isSending, currentNumber
  <2> QED BY <2>1, <2>2, <2>3
<1>5. CASE IClientTimeoutIgnore
  <2>1. PICK t \in BagToSet(ackTimeouts) :
          /\ isTimeOutMoot(t) /\ ackTimeouts' = BagRemove(ackTimeouts, t)
          /\ client' = client
    BY <1>5 DEF IClientTimeoutIgnore
  <2>2. BagToSet(ackTimeouts) \ {t} \subseteq BagToSet(ackTimeouts')
    BY <2>1, IInvFacts, BagRemoveFacts
  <2>3. isSending(client) => t # currentNumber(client)
    BY <2>1 DEF isTimeOutMoot, isTimeOutMatch, currentNumber
  <2> QED BY <2>1, <2>2, <2>3 DEF AckTimerArmed, isSending, currentNumber
<1>6. ASSUME UNCHANGED <<client, ackTimeouts>> PROVE AckTimerArmed'
    BY <1>6 DEF AckTimerArmed, isSending, currentNumber
<1>7. CASE WClientExtractOldResponse \/ ClientStartPeriodicPings \/ ClientPingTimeout
    BY <1>6, <1>7
       DEF WClientExtractOldResponse, ClientStartPeriodicPings, ClientPingTimeout
<1> QED BY <1>2, <1>3, <1>4, <1>5, <1>7 DEF ClientNext

\* The timers of the client are set and consumed by the client only.
LEMMA NextArmed == IInv /\ AckTimerArmed /\ [Next]_vars => AckTimerArmed'
<1> SUFFICES ASSUME IInv, AckTimerArmed, [Next]_vars PROVE AckTimerArmed'
    OBVIOUS
<1>1. ASSUME UNCHANGED <<client, ackTimeouts>> PROVE AckTimerArmed'
    BY <1>1 DEF AckTimerArmed, isSending, currentNumber
<1>2. CASE AppNext
    BY <1>1, <1>2 DEF AppNext, AppHandleFile, AppPktTimeout, SendAppSendPacket,
       SendAppRcvPacket, ReceiveAppSendPacket, ReceiveAppTxDone, ReceiveAppRcvPacket
<1>3. CASE ServerNext
    BY <1>1, <1>3 DEF ServerNext, IServerEmbedding, IServerEmbeddingSending,
       WnameserverReceiveQuery
<1>4. CASE NetworkNext
    BY <1>1, <1>4 DEF NetworkNext, LoseQuery, LoseResponse
<1>5. CASE UNCHANGED vars
    BY <1>1, <1>5 DEF vars
<1> QED BY <1>2, <1>3, <1>4, <1>5, ClientArmed DEF Next

\* Retransmission: whatever responses, new packets and timers do to the fragment the
\* client is sending, a timer for exactly that fragment is pending.
THEOREM Armed == Spec => []AckTimerArmed
<1>1. Init => AckTimerArmed
    BY DEF Init, AckTimerArmed, isSending, makeEndpoint
<1> QED BY <1>1, InitIInv, NextIInv, NextArmed, PTL DEF Spec

-----------------------------------------------------------------------------
(* What was received *)

\* The step property of ReceiversNeverGoBack.
Forward ==
    /\ server'.inSeqNo >= server.inSeqNo
    /\ NotBefore(client'.inSeqNo, client'.inFragNo, client.inSeqNo, client.inFragNo)

\* A client that received nothing new and a server that did not either.
LEMMA SameReceiver ==
    ASSUME IInv
    PROVE  /\ lastReceived(client') = lastReceived(client) =>
                NotBefore(client'.inSeqNo, client'.inFragNo, client.inSeqNo, client.inFragNo)
           /\ server'.inSeqNo = server.inSeqNo => server'.inSeqNo >= server.inSeqNo
<1>1. /\ client.inSeqNo \in Nat /\ client.inFragNo \in Nat /\ server.inSeqNo \in Nat
    BY DEF IInv, TypeOK, Endpoint
<1> QED BY <1>1 DEF lastReceived, NotBefore

\* The steps of the client take no receiver back.
LEMMA ClientForward ==
    ASSUME IInv, ClientNext
    PROVE  Forward
<1>1. client \in Endpoint
    BY DEF IInv, TypeOK
<1>2. server'.inSeqNo >= server.inSeqNo
  <2>1. server' = server
    BY DEF ClientNext, IClientEmbedding, IClientExtractFromServer,
           WClientExtractOldResponse, ClientStartPeriodicPings, ClientPingTimeout,
           IClientTimeout, IClientTimeoutIgnore
  <2> QED BY <2>1, SameReceiver
<1>3. CASE IClientEmbedding
  <2>1. PICK m \in BagToSet(local) :
          /\ m.kind = "packet"
          /\ client' = incrNumAttempts(handleNewPacket(client, m.pkt))
    BY <1>3 DEF IClientEmbedding
  <2>2. m.pkt \in Packet
    BY <2>1, IInvFacts, MsgTypes
  <2>3. handleNewPacket(client, m.pkt) \in Endpoint
    BY <2>2, handleNewPacketType DEF IInv, WellFormed
  <2>4. lastReceived(client') = lastReceived(client)
    BY <1>1, <2>1, <2>2, <2>3, SendingKeepsReceived
  <2> QED BY <1>2, <2>4, SameReceiver DEF Forward
<1>4. CASE IClientExtractFromServer
  <2>1. PICK f \in BagToSet(responses) :
          LET e == processFragment(client, f)
          IN  client' = updateRcvAppAlice(IF isSending(e) THEN incrNumAttempts(e) ELSE e)
    BY <1>4 DEF IClientExtractFromServer
  <2> DEFINE e == processFragment(client, f)
  <2>2. WellFormed(e) /\ NotBefore(e.inSeqNo, e.inFragNo, client.inSeqNo, client.inFragNo)
    BY IInvFacts, processFragmentType, processFragmentForward DEF IInv
  <2>3. client' = updateRcvAppAlice(IF isSending(e) THEN incrNumAttempts(e) ELSE e)
    BY <2>1
  <2> HIDE DEF e
  <2>4. lastReceived(client') = lastReceived(e)
    BY <2>2, <2>3, incrNumAttemptsType, SendingKeepsReceived DEF WellFormed
  <2> QED BY <1>2, <2>2, <2>4 DEF Forward, lastReceived
<1>5. CASE IClientTimeout
  <2>1. client' = dropFragmentsToSend(client) \/ client' = incrNumAttempts(client)
    BY <1>5 DEF IClientTimeout
  <2>2. lastReceived(client') = lastReceived(client)
    BY <1>1, <2>1, SendingKeepsReceived
  <2> QED BY <1>2, <2>2, SameReceiver DEF Forward
<1>6. CASE WClientExtractOldResponse \/ ClientStartPeriodicPings \/ ClientPingTimeout
           \/ IClientTimeoutIgnore
  <2>1. client' = client
    BY <1>6 DEF WClientExtractOldResponse, ClientStartPeriodicPings, ClientPingTimeout,
           IClientTimeoutIgnore
  <2> QED BY <1>2, <2>1, SameReceiver DEF Forward
<1> QED BY <1>3, <1>4, <1>5, <1>6 DEF ClientNext

\* A query does not take the server back, although the server may forget a
\* fragment number with it.
LEMMA QueryForward ==
    ASSUME IInv, WnameserverReceiveQuery
    PROVE  Forward
<1>1. PICK f \in BagToSet(queries) :
        LET e == processFragment(server, f)
            bob == IF isTxComplete(e) THEN markServerAppReady(app["Bob"]) ELSE app["Bob"]
            pulls == isTxComplete(e) /\ bob.numAdmittedPkts > 0 /\ canSend(bob)
            loaded == IF pulls THEN handleNewPacket(e, Head(bob.queue)) ELSE e
        IN  server' = updateRcvApp(buildServerResponse(loaded)) /\ client' = client
    BY DEF WnameserverReceiveQuery
<1> DEFINE e == processFragment(server, f)
           bob == IF isTxComplete(e) THEN markServerAppReady(app["Bob"]) ELSE app["Bob"]
           pulls == isTxComplete(e) /\ bob.numAdmittedPkts > 0 /\ canSend(bob)
           loaded == IF pulls THEN handleNewPacket(e, Head(bob.queue)) ELSE e
           next == buildServerResponse(loaded)
<1>2. server' = updateRcvApp(next) /\ client' = client
    BY <1>1
<1>3. WellFormed(e) /\ NotBefore(e.inSeqNo, e.inFragNo, server.inSeqNo, server.inFragNo)
    BY IInvFacts, processFragmentType, processFragmentForward DEF IInv
<1> HIDE DEF e
<1>4. bob \in App
    BY IInvFacts, SetAppAttribute DEF Apps, markServerAppReady
<1> HIDE DEF bob
<1>5. WellFormed(loaded) /\ lastReceived(loaded) = lastReceived(e)
    BY <1>3, <1>4, sendPktType, handleNewPacketType, SendingKeepsReceived DEF WellFormed
<1> HIDE DEF loaded
<1>6. next \in Endpoint /\ lastReceived(next) = lastReceived(loaded)
    BY <1>5, incrNumAttemptsType, SendingKeepsReceived DEF buildServerResponse, WellFormed
<1> HIDE DEF next
<1>7. server'.inSeqNo = e.inSeqNo
    BY <1>2, <1>5, <1>6, SendingKeepsReceived DEF lastReceived
<1>8. e.inSeqNo \in Nat /\ server.inSeqNo \in Nat
    BY <1>3 DEF WellFormed, Endpoint, IInv, TypeOK
<1>9. server'.inSeqNo >= server.inSeqNo
    BY <1>3, <1>7, <1>8 DEF NotBefore
<1> QED BY <1>2, <1>9, SameReceiver DEF Forward

\* No step takes a receiver back.
LEMMA NextForward == IInv /\ [Next]_vars => [Forward]_vars
<1> SUFFICES ASSUME IInv, Next PROVE Forward
    BY DEF vars
<1>1. ASSUME lastReceived(client') = lastReceived(client),
             server'.inSeqNo = server.inSeqNo
      PROVE  Forward
    BY <1>1, SameReceiver DEF Forward
<1>2. CASE AppNext
    BY <1>1, <1>2 DEF AppNext, AppHandleFile, AppPktTimeout, SendAppSendPacket,
       SendAppRcvPacket, ReceiveAppSendPacket, ReceiveAppTxDone, ReceiveAppRcvPacket
<1>3. CASE IServerEmbedding
  <2>1. PICK m \in BagToSet(local) :
          /\ m.kind = "packet" /\ client' = client
          /\ server' = handleNewPacket(server, m.pkt)
    BY <1>3 DEF IServerEmbedding
  <2>2. m.pkt \in Packet
    BY <2>1, IInvFacts, MsgTypes
  <2>3. lastReceived(server') = lastReceived(server)
    BY <2>1, <2>2, SendingKeepsReceived DEF IInv, TypeOK
  <2> QED BY <1>1, <2>1, <2>3 DEF lastReceived
<1>4. CASE IServerEmbeddingSending \/ NetworkNext
    BY <1>1, <1>4 DEF IServerEmbeddingSending, NetworkNext, LoseQuery, LoseResponse
<1> QED BY <1>2, <1>3, <1>4, ClientForward, QueryForward DEF Next, ServerNext

\* Receivers never go back: no delayed, repeated or reordered query or response makes
\* the server name an earlier packet in its acks, or the client an earlier fragment.
THEOREM NeverGoBack == Spec => ReceiversNeverGoBack
<1>1. IInv /\ [Next]_vars
        => [/\ server'.inSeqNo >= server.inSeqNo
            /\ NotBefore(client'.inSeqNo, client'.inFragNo,
                         client.inSeqNo, client.inFragNo)]_vars
    BY NextForward DEF Forward
<1> QED BY <1>1, InitIInv, NextIInv, PTL DEF Spec, ReceiversNeverGoBack
-----------------------------------------------------------------------------
(* Delivery: what the two endpoints of the tunnel know of each other.  Acks   *)
(* are true and packets are put together whole.  Both directions are one     *)
(* kind of flow: a sender s cuts packets of the set S into fragments, a       *)
(* receiver r puts them together and hands packets on, H; messages carry      *)
(* fragments one way and acks the other.                                      *)

\* Packet n of S was handed on whole.
GotWhole(n, S, H) == \E p \in H : p.seq = n /\ p \in S

\* The receiver needs fragment k of packet n no more: it has taken it, or has the
\* packet, or has gone on to a later one.
Past(r, S, H, n, k) ==
    n < r.inSeqNo \/ GotWhole(n, S, H) \/ (n = r.inSeqNo /\ k <= r.inFragNo)

\* Every fragment of packet n before number i is past.
PastBefore(r, S, H, n, i) == \A k \in 1..i : k < i => Past(r, S, H, n, k)

\* f is a fragment of p, whatever ack it carries.
PieceOf(f, p) ==
    /\ f.seq = p.seq /\ f.file = p.file /\ f.lastPacket = p.lastPacket
    /\ 0 < f.frag /\ f.frag <= p.len
    /\ f.lastFrag <=> f.frag = p.len

\* The fragments of p from number i on.
Remaining(fl, i, p) ==
    /\ i > 0 /\ Len(fl) + i = p.len + 1
    /\ \A j \in 1..Len(fl) : PieceOf(fl[j], p) /\ fl[j].frag + 1 = i + j

\* The fragments of p up to number i.
Prefix(fl, i, p) ==
    /\ Len(fl) = i /\ i < p.len
    /\ \A j \in 1..i : PieceOf(fl[j], p) /\ fl[j].frag = j

\* A message with data carries a fragment that the receiver may be waiting for.
DataTrue(f, r, S, H) ==
    ~isEmptyFile(f) => \E p \in S : PieceOf(f, p) /\ PastBefore(r, S, H, p.seq, f.frag)

\* An ack of fragment k of packet n is true, and that of the last one promises the packet.
AckTrue(n, k, r, S, H) ==
    k > 0 => \E p \in S : /\ p.seq = n /\ Past(r, S, H, n, k)
                          /\ k = p.len => GotWhole(n, S, H)

\* What is being sent is the rest of a packet of S, and what went before is past.
SendTrue(s, r, S, H) ==
    isSending(s) => \E p \in S : /\ p.seq = s.outSeqNo
                                 /\ Remaining(s.fragmentsToSend, s.outFragNo, p)
                                 /\ PastBefore(r, S, H, p.seq, s.outFragNo)

\* What was handed on is of packets that were handed on whole, none of them later than
\* the one being received; of that one the fragments are there without a gap, unless it
\* was handed on already.
ReceiveTrue(r, S, H) ==
    /\ \A p \in H : p.seq <= r.inSeqNo /\ GotWhole(p.seq, S, H)
    /\ \A i \in 1..Len(r.fragmentsReceived) : r.fragmentsReceived[i].seq = r.inSeqNo
    /\ \/ GotWhole(r.inSeqNo, S, H)
       \/ r.inFragNo = 0 /\ r.fragmentsReceived = <<>>
       \/ \E p \in S : p.seq = r.inSeqNo /\ Prefix(r.fragmentsReceived, r.inFragNo, p)

\* One direction of the tunnel: D are the messages with data, A those with acks.
Flow(s, r, D, A, S, H) ==
    /\ SendTrue(s, r, S, H)
    /\ ReceiveTrue(r, S, H) /\ ~r.lastFragment
    /\ \A f \in D : DataTrue(f, r, S, H)
    /\ \A g \in A : AckTrue(g.ackSeq, g.ackFrag, r, S, H)

-----------------------------------------------------------------------------
(* Fields *)

\* What an endpoint receives, and what it sends.
incoming(e) == <<e.inSeqNo, e.inFragNo, e.fragmentsReceived, e.lastFragment>>
outgoing(e) == <<e.outSeqNo, e.outFragNo, e.fragmentsToSend>>

\* The operators about sending leave alone what is received, and the other way round.
LEMMA Sides ==
    ASSUME NEW e \in Endpoint
    PROVE  /\ incoming(incrNumAttempts(e)) = incoming(e)
           /\ outgoing(incrNumAttempts(e)) = outgoing(e)
           /\ incoming(dropFragmentsToSend(e)) = incoming(e)
           /\ incoming(moveFragmentUp(e)) = incoming(e)
           /\ \A p \in Packet : incoming(handleNewPacket(e, p)) = incoming(e)
           /\ \A f \in Fragment : outgoing(acceptFragment(e, f)) = outgoing(e)
           /\ outgoing(updateRcvApp(e)) = outgoing(e)
           /\ outgoing(updateRcvAppAlice(e)) = outgoing(e)
<1>1. /\ incoming(incrNumAttempts(e)) = incoming(e)
      /\ outgoing(incrNumAttempts(e)) = outgoing(e)
    BY DEF incrNumAttempts, incoming, outgoing, Endpoint
<1>2. incoming(dropFragmentsToSend(e)) = incoming(e)
    BY DEF dropFragmentsToSend, incoming, Endpoint
<1>3. incoming(moveFragmentUp(e)) = incoming(e)
    BY DEF moveFragmentUp, incoming, Endpoint
<1>4. \A p \in Packet : incoming(handleNewPacket(e, p)) = incoming(e)
    BY DEF handleNewPacket, incoming, Endpoint
<1>5. \A f \in Fragment : outgoing(acceptFragment(e, f)) = outgoing(e)
    BY DEF acceptFragment, flushFragmentsReceived, outgoing, Endpoint
<1>6. /\ outgoing(updateRcvApp(e)) = outgoing(e)
      /\ outgoing(updateRcvAppAlice(e)) = outgoing(e)
    BY DEF updateRcvApp, updateRcvAppAlice, outgoing, Endpoint
<1> QED BY <1>1, <1>2, <1>3, <1>4, <1>5, <1>6

-----------------------------------------------------------------------------
(* Flows *)

\* What was past or handed on for r, S and H is so for r2, S2 and H2.
Onward(r, S, H, r2, S2, H2) ==
    /\ S \subseteq S2
    /\ \A n, k \in Nat : Past(r, S, H, n, k) => Past(r2, S2, H2, n, k)
    /\ \A n \in Nat : GotWhole(n, S, H) => GotWhole(n, S2, H2)

\* What messages and sender say stays true as the receiver goes on and more is sent.
LEMMA StaysTrue ==
    ASSUME NEW r, NEW S, NEW H, NEW r2, NEW S2, NEW H2, Onward(r, S, H, r2, S2, H2),
           S \subseteq Packet
    PROVE  /\ \A f : DataTrue(f, r, S, H) => DataTrue(f, r2, S2, H2)
           /\ \A n, k \in Nat : AckTrue(n, k, r, S, H) => AckTrue(n, k, r2, S2, H2)
           /\ \A s : SendTrue(s, r, S, H) => SendTrue(s, r2, S2, H2)
<1>1. ASSUME NEW n \in Nat, NEW i, PastBefore(r, S, H, n, i)
      PROVE  PastBefore(r2, S2, H2, n, i)
    BY <1>1 DEF PastBefore, Onward
<1>2. \A p \in S : p \in S2 /\ p.seq \in Nat
    BY DEF Onward, Packet
<1>3. ASSUME NEW f, DataTrue(f, r, S, H) PROVE DataTrue(f, r2, S2, H2)
    BY <1>1, <1>2, <1>3 DEF DataTrue
<1>4. ASSUME NEW n \in Nat, NEW k \in Nat, AckTrue(n, k, r, S, H)
      PROVE  AckTrue(n, k, r2, S2, H2)
    BY <1>2, <1>4 DEF AckTrue, Onward
<1>5. ASSUME NEW s, SendTrue(s, r, S, H) PROVE SendTrue(s, r2, S2, H2)
    BY <1>1, <1>2, <1>5 DEF SendTrue
<1> QED BY <1>3, <1>4, <1>5

\* More packets sent, the receiver as it was.
LEMMA MoreSent ==
    ASSUME NEW r, NEW S, NEW H, NEW S2, S \subseteq S2
    PROVE  /\ Onward(r, S, H, r, S2, H)
           /\ ReceiveTrue(r, S, H) => ReceiveTrue(r, S2, H)
<1>1. \A n : GotWhole(n, S, H) => GotWhole(n, S2, H)
    BY DEF GotWhole
<1>2. Onward(r, S, H, r, S2, H)
    BY <1>1 DEF Onward, Past
<1>3. ReceiveTrue(r, S, H) => ReceiveTrue(r, S2, H)
    BY <1>1 DEF ReceiveTrue
<1> QED BY <1>2, <1>3

\* What a receiver says depends on what it received only, what a sender says on what it sends.
LEMMA SameSides ==
    ASSUME NEW e, NEW d, NEW S, NEW H
    PROVE  /\ incoming(d) = incoming(e) =>
                  /\ ReceiveTrue(e, S, H) => ReceiveTrue(d, S, H)
                  /\ Onward(e, S, H, d, S, H)
           /\ \A r : outgoing(d) = outgoing(e) /\ SendTrue(e, r, S, H) => SendTrue(d, r, S, H)
<1>1. ASSUME incoming(d) = incoming(e)
      PROVE  (ReceiveTrue(e, S, H) => ReceiveTrue(d, S, H)) /\ Onward(e, S, H, d, S, H)
  <2>1. /\ d.inSeqNo = e.inSeqNo /\ d.inFragNo = e.inFragNo
        /\ d.fragmentsReceived = e.fragmentsReceived
    BY <1>1 DEF incoming
  <2> QED BY <2>1 DEF ReceiveTrue, Onward, Past
<1>2. ASSUME NEW r, outgoing(d) = outgoing(e), SendTrue(e, r, S, H)
      PROVE  SendTrue(d, r, S, H)
  <2>1. /\ d.outSeqNo = e.outSeqNo /\ d.outFragNo = e.outFragNo
        /\ d.fragmentsToSend = e.fragmentsToSend
    BY <1>2 DEF outgoing
  <2> QED BY <1>2, <2>1 DEF SendTrue, isSending
<1> QED BY <1>1, <1>2

\* A packet taken over is sent from its first fragment on.
LEMMA NewPacketTrue ==
    ASSUME NEW s \in Endpoint, NEW r, NEW S, NEW H, S \subseteq Packet, NEW p \in S
    PROVE  SendTrue(handleNewPacket(s, p), r, S, H)
<1> DEFINE d == handleNewPacket(s, p)
           fl == makeFragments(p)
<1>1. d.outSeqNo = p.seq /\ d.outFragNo = 1 /\ d.fragmentsToSend = fl
    BY DEF handleNewPacket, Endpoint
<1>2. p.len \in Nat \ {0}
    BY DEF Packet
<1>3. Remaining(fl, 1, p)
  <2>1. Len(fl) = p.len
    BY <1>2 DEF makeFragments
  <2>2. ASSUME NEW j \in 1..p.len PROVE PieceOf(fl[j], p) /\ fl[j].frag + 1 = 1 + j
    <3> DEFINE x == fl[j]
    <3>1. /\ x.seq = p.seq /\ x.file = p.file /\ x.lastPacket = p.lastPacket
          /\ x.frag = j
      BY DEF makeFragments, fragment
    <3>2. x.lastFrag = (j = p.len)
      BY Zenon DEF makeFragments, fragment
    <3>3. x.lastFrag <=> j = p.len
      BY Zenon, <3>2
    <3> HIDE DEF x, fl
    <3>4. PieceOf(x, p)
      BY <1>2, <3>1, <3>3 DEF PieceOf
    <3> QED BY <3>1, <3>4 DEF x
  <2> HIDE DEF fl
  <2> QED BY <1>2, <2>1, <2>2 DEF Remaining
<1>4. PastBefore(r, S, H, p.seq, 1)
    BY DEF PastBefore
<1> HIDE DEF d, fl
<1> QED BY <1>1, <1>3, <1>4 DEF SendTrue, d

\* What a sender puts into a message is a fragment with data, and its ack.
LEMMA GrabTrue ==
    ASSUME NEW s \in Endpoint, isSending(s), NEW r, NEW S, NEW H, S \subseteq Packet,
           \A p \in S : p.file \in Files, SendTrue(s, r, S, H)
    PROVE  LET f == grabCurrentFragment(s)
           IN  /\ DataTrue(f, r, S, H) /\ ~isEmptyFile(f)
               /\ f.ackSeq = s.inSeqNo /\ f.ackFrag = s.inFragNo
               /\ f.seq = s.outSeqNo /\ f.frag = s.outFragNo
<1> DEFINE h == Head(s.fragmentsToSend)
           f == grabCurrentFragment(s)
<1>1. h \in Fragment /\ s.fragmentsToSend \in Seq(Fragment) /\ s.fragmentsToSend # <<>>
      /\ h = s.fragmentsToSend[1] /\ Len(s.fragmentsToSend) >= 1
    BY DEF isSending, Endpoint
<1>2. PICK p \in S : /\ p.seq = s.outSeqNo
                     /\ Remaining(s.fragmentsToSend, s.outFragNo, p)
                     /\ PastBefore(r, S, H, p.seq, s.outFragNo)
    BY DEF SendTrue
<1>3. PieceOf(h, p) /\ h.frag = s.outFragNo
  <2>1. 1 \in 1..Len(s.fragmentsToSend)
    BY <1>1
  <2>2. PieceOf(h, p) /\ h.frag + 1 = s.outFragNo + 1
    BY <1>1, <1>2, <2>1 DEF Remaining
  <2>3. h.frag \in Nat /\ s.outFragNo \in Nat
    BY <1>1 DEF Fragment, Endpoint
  <2> QED BY <2>2, <2>3
<1>4. f = [h EXCEPT !.ackSeq = s.inSeqNo, !.ackFrag = s.inFragNo]
    BY DEF grabCurrentFragment, insertAck
<1> HIDE DEF h, f
<1>5. /\ f.ackSeq = s.inSeqNo /\ f.ackFrag = s.inFragNo
      /\ f.seq = h.seq /\ f.frag = h.frag /\ f.file = h.file
      /\ f.lastPacket = h.lastPacket /\ f.lastFrag = h.lastFrag
    BY <1>1, <1>4 DEF Fragment
<1>6. PieceOf(f, p) /\ h.seq = p.seq /\ h.file = p.file
    BY <1>3, <1>5 DEF PieceOf
<1>7. DataTrue(f, r, S, H)
    BY <1>2, <1>3, <1>5, <1>6 DEF DataTrue
<1>8. ~isEmptyFile(f)
    BY <1>5, <1>6, NodeAssumption DEF isEmptyFile
<1> QED BY <1>2, <1>3, <1>5, <1>6, <1>7, <1>8 DEF f

\* What remains of a packet after its first fragment is gone.
LEMMA RemainingTail ==
    ASSUME NEW fl \in Seq(Fragment), NEW i \in Nat, NEW p \in Packet,
           Remaining(fl, i, p), Len(fl) > 1
    PROVE  Remaining(Tail(fl), i + 1, p)
<1> DEFINE t == Tail(fl)
           n == Len(fl) - 1
<1>1. n \in Nat /\ Len(fl) = n + 1
    OBVIOUS
<1>2. Len(t) = n /\ \A j \in 1..n : t[j] = fl[j + 1]
    OBVIOUS
<1> HIDE DEF t, n
<1>3. Len(fl) + i = p.len + 1 /\ p.len \in Nat
    BY DEF Remaining, Packet
<1>4. n + (i + 1) = p.len + 1
    BY <1>1, <1>3
<1>5. ASSUME NEW j \in 1..n
      PROVE  PieceOf(t[j], p) /\ t[j].frag + 1 = (i + 1) + j
  <2>1. j \in Nat /\ j + 1 \in 1..Len(fl) /\ t[j] = fl[j + 1]
    BY <1>1, <1>2
  <2>2. PieceOf(fl[j + 1], p) /\ fl[j + 1].frag + 1 = i + (j + 1)
    BY <2>1 DEF Remaining
  <2>3. i + (j + 1) = (i + 1) + j
    BY <2>1
  <2> QED BY <2>1, <2>2, <2>3
<1>6. i + 1 > 0
    OBVIOUS
<1> QED BY <1>2, <1>4, <1>5, <1>6 DEF Remaining, t

\* An ack that matches: what it acknowledges is past, and the next fragment is due.
LEMMA AckMoves ==
    ASSUME NEW s \in Endpoint, NEW r, NEW S, NEW H, S \subseteq Packet,
           \A p, q \in S : p.seq = q.seq => p = q,
           SendTrue(s, r, S, H), NEW g \in Fragment, isAckMatch(s, g),
           AckTrue(g.ackSeq, g.ackFrag, r, S, H)
    PROVE  /\ SendTrue(moveFragmentUp(s), r, S, H)
           /\ Len(s.fragmentsToSend) = 1 => GotWhole(s.outSeqNo, S, H)
<1> DEFINE d == moveFragmentUp(s)
           fl == s.fragmentsToSend
<1>1. CASE fl = <<>>
  <2>1. d.fragmentsToSend = <<>>
    BY <1>1 DEF moveFragmentUp, popFront, Endpoint
  <2> QED BY <1>1, <2>1 DEF SendTrue, isSending
<1>2. CASE fl # <<>>
  <2>1. PICK p \in S : /\ p.seq = s.outSeqNo
                       /\ Remaining(fl, s.outFragNo, p)
                       /\ PastBefore(r, S, H, p.seq, s.outFragNo)
    BY <1>2 DEF SendTrue, isSending
  <2>2. /\ s.outFragNo \in Nat /\ s.outFragNo > 0 /\ fl \in Seq(Fragment)
        /\ p.len \in Nat /\ p.seq \in Nat /\ Len(fl) \in Nat /\ Len(fl) > 0
    BY <1>2, <2>1 DEF Remaining, Endpoint, Packet
  <2>3. g.ackSeq = p.seq /\ g.ackFrag = s.outFragNo
    BY <2>1 DEF isAckMatch
  <2>4. /\ Past(r, S, H, p.seq, s.outFragNo)
        /\ s.outFragNo = p.len => GotWhole(p.seq, S, H)
    BY <2>2, <2>3 DEF AckTrue
  <2>5. Len(fl) = 1 => GotWhole(s.outSeqNo, S, H)
    <3>1. Len(fl) = 1 => s.outFragNo = p.len
      BY <2>1, <2>2 DEF Remaining
    <3> QED BY <2>1, <2>4, <3>1
  <2>6. CASE Len(fl) = 1
    <3>1. d.fragmentsToSend = <<>>
      <4>1. Tail(fl) \in Seq(Fragment) /\ Len(Tail(fl)) = 0
        BY <1>2, <2>2, <2>6
      <4>2. Tail(fl) = <<>>
        BY <4>1, EmptySeq
      <4> QED BY <1>2, <4>2 DEF moveFragmentUp, popFront, Endpoint
    <3>2. SendTrue(d, r, S, H)
      BY <3>1 DEF SendTrue, isSending
    <3> QED BY <2>5, <3>2
  <2>7. CASE Len(fl) > 1
    <3>1. d.outSeqNo = s.outSeqNo /\ d.outFragNo = s.outFragNo + 1
          /\ d.fragmentsToSend = Tail(fl)
      BY <1>2, <2>7 DEF moveFragmentUp, popFront, Endpoint
    <3>2. Remaining(Tail(fl), s.outFragNo + 1, p)
      BY <2>1, <2>2, <2>7, RemainingTail
    <3>3. PastBefore(r, S, H, p.seq, s.outFragNo + 1)
      <4>1. ASSUME NEW k \in 1..(s.outFragNo + 1), k < s.outFragNo + 1
            PROVE  Past(r, S, H, p.seq, k)
        <5>1. k = s.outFragNo \/ (k \in 1..s.outFragNo /\ k < s.outFragNo)
          BY <2>2, <4>1
        <5> QED BY <2>1, <2>4, <5>1 DEF PastBefore
      <4> QED BY <4>1 DEF PastBefore
    <3>4. SendTrue(d, r, S, H)
      BY <2>1, <3>1, <3>2, <3>3 DEF SendTrue
    <3> QED BY <2>5, <3>4
  <2>8. Len(fl) = 1 \/ Len(fl) > 1
    <3>1. \A n \in Nat : n > 0 => n = 1 \/ n > 1
      OBVIOUS
    <3> QED BY <2>2, <3>1
  <2> HIDE DEF fl, d
  <2> QED BY <2>6, <2>7, <2>8 DEF fl, d
<1> QED BY <1>1, <1>2

\* The fragment last received by e is not before number k of packet n.
Reached(e, n, k) == NotBefore(e.inSeqNo, e.inFragNo, n, k)

\* t is r after it took f, a fragment of p.
Taken(t, f, p, r, S, H) ==
    /\ PieceOf(f, p) /\ t.inSeqNo = p.seq /\ t.inFragNo = f.frag
    /\ t.lastFragment <=> f.frag = p.len
    /\ r.inSeqNo < p.seq \/ (r.inSeqNo = p.seq /\ r.inFragNo < f.frag)
    /\ t.fragmentsReceived # <<>>
    /\ \A j \in 1..Len(t.fragmentsReceived) : t.fragmentsReceived[j].seq = p.seq
    /\ \/ GotWhole(p.seq, S, H)
       \/ /\ Len(t.fragmentsReceived) = f.frag
          /\ \A j \in 1..f.frag :
                 PieceOf(t.fragmentsReceived[j], p) /\ t.fragmentsReceived[j].frag = j

\* What a receiver has reached it ignores.
LEMMA Ignores ==
    ASSUME NEW r, WellFormed(r), NEW f \in Fragment, Reached(r, f.seq, f.frag)
    PROVE  acceptFragment(r, f) = r
<1>1. /\ r.inSeqNo \in Nat /\ r.inFragNo \in Nat /\ f.seq \in Nat /\ f.frag \in Nat
    BY DEF WellFormed, Endpoint, Fragment
<1>2. ~(f.seq > r.inSeqNo) /\ ~(f.seq = r.inSeqNo /\ f.frag > r.inFragNo)
    BY <1>1 DEF Reached, NotBefore
<1> QED BY <1>2 DEF acceptFragment

\* A fragment of a later packet is that packet's first.
LEMMA TakesFirst ==
    ASSUME NEW r, WellFormed(r), NEW S, NEW H, S \subseteq Packet, ReceiveTrue(r, S, H),
           NEW f \in Fragment, NEW p \in S, PieceOf(f, p),
           PastBefore(r, S, H, p.seq, f.frag), r.inSeqNo < f.seq
    PROVE  Taken(acceptFragment(r, f), f, p, r, S, H)
<1> DEFINE t == acceptFragment(r, f)
<1>1. /\ r.inSeqNo \in Nat /\ r.inFragNo \in Nat /\ p.seq \in Nat /\ f.frag \in Nat
      /\ f.seq = p.seq /\ 0 < f.frag /\ r \in Endpoint
    BY DEF WellFormed, Endpoint, Fragment, Packet, PieceOf
<1>2. /\ t.inSeqNo = p.seq /\ t.inFragNo = f.frag /\ t.lastFragment = f.lastFrag
      /\ t.fragmentsReceived = <<f>>
    BY <1>1 DEF acceptFragment, flushFragmentsReceived, Endpoint
<1> HIDE DEF t
<1>3. ~GotWhole(p.seq, S, H)
    BY <1>1 DEF ReceiveTrue, GotWhole
<1>4. f.frag = 1
  <2>1. ~Past(r, S, H, p.seq, 1)
    BY <1>1, <1>3 DEF Past
  <2>2. 1 < f.frag => 1 \in 1..f.frag
    BY <1>1
  <2> QED BY <1>1, <2>1, <2>2 DEF PastBefore
<1>5. /\ Len(t.fragmentsReceived) = 1 /\ t.fragmentsReceived[1] = f
      /\ t.fragmentsReceived # <<>>
    BY <1>2
<1>6. t.lastFragment <=> f.frag = p.len
    BY <1>2 DEF PieceOf
<1>7. \A j \in 1..1 : j = 1
    OBVIOUS
<1> QED BY <1>1, <1>2, <1>4, <1>5, <1>6, <1>7 DEF Taken, t

\* A later fragment of the packet being received is the next one, unless the packet
\* was handed on already.
LEMMA TakesNext ==
    ASSUME NEW r, WellFormed(r), NEW S, NEW H, S \subseteq Packet, ReceiveTrue(r, S, H),
           \A p, q \in S : p.seq = q.seq => p = q,
           NEW f \in Fragment, NEW p \in S, PieceOf(f, p),
           PastBefore(r, S, H, p.seq, f.frag), r.inSeqNo = f.seq, r.inFragNo < f.frag
    PROVE  Taken(acceptFragment(r, f), f, p, r, S, H)
<1> DEFINE t == acceptFragment(r, f)
           fl == r.fragmentsReceived
           n == Len(fl)
<1>1. /\ r.inSeqNo \in Nat /\ r.inFragNo \in Nat /\ p.seq \in Nat /\ f.frag \in Nat
      /\ f.seq = p.seq /\ 0 < f.frag /\ r \in Endpoint /\ fl \in Seq(Fragment)
    BY DEF WellFormed, Endpoint, Fragment, Packet, PieceOf
<1>2. /\ t.inSeqNo = p.seq /\ t.inFragNo = f.frag /\ t.lastFragment = f.lastFrag
      /\ t.fragmentsReceived = Append(fl, f)
    BY <1>1 DEF acceptFragment, Endpoint
<1> HIDE DEF t
<1>3. /\ n \in Nat /\ Len(Append(fl, f)) = n + 1 /\ Append(fl, f)[n + 1] = f
      /\ \A j \in 1..n : Append(fl, f)[j] = fl[j]
    BY <1>1, AppendProperties
<1>4. Append(fl, f) # <<>>
    BY <1>1, AppendProperties
<1>5. t.lastFragment <=> f.frag = p.len
    BY <1>2 DEF PieceOf
<1>6. \A j \in 1..(n + 1) : Append(fl, f)[j].seq = p.seq
  <2>1. \A j \in 1..n : fl[j].seq = p.seq
    BY <1>1 DEF ReceiveTrue
  <2>2. \A j \in 1..(n + 1) : j \in 1..n \/ j = n + 1
    BY <1>3
  <2> QED BY <1>1, <1>3, <2>1, <2>2
<1>7. ASSUME ~GotWhole(p.seq, S, H)
      PROVE  /\ n + 1 = f.frag
             /\ \A j \in 1..f.frag :
                    PieceOf(Append(fl, f)[j], p) /\ Append(fl, f)[j].frag = j
  <2>1. n = r.inFragNo /\ \A j \in 1..n : PieceOf(fl[j], p) /\ fl[j].frag = j
    <3>1. CASE r.inFragNo = 0 /\ fl = <<>>
      BY <3>1
    <3>2. CASE \E q \in S : q.seq = r.inSeqNo /\ Prefix(fl, r.inFragNo, q)
      BY <1>1, <3>2 DEF Prefix
    <3> QED BY <1>1, <1>7, <3>1, <3>2 DEF ReceiveTrue
  <2>2. n + 1 = f.frag
    <3>1. ~Past(r, S, H, p.seq, n + 1)
      BY <1>1, <1>3, <1>7, <2>1 DEF Past
    <3>2. n + 1 < f.frag => n + 1 \in 1..f.frag
      BY <1>1, <1>3
    <3>3. ~(n + 1 < f.frag)
      BY <3>1, <3>2 DEF PastBefore
    <3> HIDE DEF n
    <3> QED BY <1>1, <1>3, <2>1, <3>3
  <2>3. \A j \in 1..f.frag : j \in 1..n \/ j = n + 1
    BY <1>3, <2>2
  <2> HIDE DEF n
  <2> QED BY <1>3, <2>1, <2>2, <2>3
<1> HIDE DEF fl, n
<1> QED BY <1>1, <1>2, <1>3, <1>4, <1>5, <1>6, <1>7 DEF Taken, t

\* What a receiver has not reached it takes.
LEMMA Takes ==
    ASSUME NEW r, WellFormed(r), NEW S, NEW H, S \subseteq Packet, ReceiveTrue(r, S, H),
           \A p, q \in S : p.seq = q.seq => p = q,
           NEW f \in Fragment, DataTrue(f, r, S, H), ~isEmptyFile(f),
           ~Reached(r, f.seq, f.frag)
    PROVE  \E p \in S : Taken(acceptFragment(r, f), f, p, r, S, H)
<1>1. PICK p \in S : PieceOf(f, p) /\ PastBefore(r, S, H, p.seq, f.frag)
    BY DEF DataTrue
<1>2. /\ r.inSeqNo \in Nat /\ r.inFragNo \in Nat /\ f.seq \in Nat /\ f.frag \in Nat
    BY DEF WellFormed, Endpoint, Fragment
<1>3. r.inSeqNo < f.seq \/ (r.inSeqNo = f.seq /\ r.inFragNo < f.frag)
    BY <1>2 DEF Reached, NotBefore
<1> QED BY <1>1, <1>3, TakesFirst, TakesNext

\* The ack a receiver gives is true of what it is at that moment.
LEMMA OwnAck ==
    ASSUME NEW r \in Endpoint, NEW S, NEW H, S \subseteq Packet, ReceiveTrue(r, S, H)
    PROVE  AckTrue(r.inSeqNo, r.inFragNo, r, S, H)
<1> SUFFICES ASSUME r.inFragNo > 0 PROVE AckTrue(r.inSeqNo, r.inFragNo, r, S, H)
    BY DEF AckTrue
<1>1. r.inFragNo \in Nat /\ r.inSeqNo \in Nat /\ r.inFragNo # 0
    BY DEF Endpoint
<1>2. Past(r, S, H, r.inSeqNo, r.inFragNo)
    BY <1>1 DEF Past
<1>3. CASE GotWhole(r.inSeqNo, S, H)
  <2>1. PICK p \in S : p.seq = r.inSeqNo
    BY <1>3 DEF GotWhole
  <2> QED BY <1>2, <1>3, <2>1 DEF AckTrue
<1>4. CASE \E p \in S : p.seq = r.inSeqNo /\ Prefix(r.fragmentsReceived, r.inFragNo, p)
  <2>1. PICK p \in S : p.seq = r.inSeqNo /\ Prefix(r.fragmentsReceived, r.inFragNo, p)
    BY <1>4
  <2>2. r.inFragNo # p.len
    BY <1>1, <2>1 DEF Prefix, Packet
  <2> QED BY <1>2, <2>1, <2>2 DEF AckTrue
<1> QED BY <1>1, <1>3, <1>4 DEF ReceiveTrue

\* The packet put together from all fragments of p is p.
LEMMA PutTogether ==
    ASSUME NEW t, NEW f, NEW p \in Packet, NEW r, NEW S, NEW H, Taken(t, f, p, r, S, H),
           f.frag = p.len, t.fragmentsReceived \in Seq(Fragment)
    PROVE  LET q == makePacket(t.fragmentsReceived)
           IN  q.seq = p.seq /\ (~GotWhole(p.seq, S, H) => q = p)
<1> DEFINE fl == t.fragmentsReceived
           q == makePacket(fl)
<1>1. Len(fl) \in Nat /\ Len(fl) > 0
    BY DEF Taken
<1>2. 1 \in 1..Len(fl)
    BY <1>1
<1>3. fl[1].seq = p.seq
    BY <1>2 DEF Taken
<1>4. /\ q.file = fl[1].file /\ q.seq = fl[1].seq /\ q.len = Len(fl)
      /\ q.lastPacket = fl[1].lastPacket
      /\ q = [file |-> q.file, seq |-> q.seq, len |-> q.len, lastPacket |-> q.lastPacket]
    BY DEF makePacket, packet
<1>5. ASSUME ~GotWhole(p.seq, S, H) PROVE q = p
  <2>1. Len(fl) = p.len /\ PieceOf(fl[1], p)
    BY <1>2, <1>5 DEF Taken
  <2>2. fl[1].file = p.file /\ fl[1].lastPacket = p.lastPacket
    BY <2>1 DEF PieceOf
  <2>3. p = [file |-> p.file, seq |-> p.seq, len |-> p.len, lastPacket |-> p.lastPacket]
    BY DEF Packet
  <2> HIDE DEF q, fl
  <2> QED BY <1>3, <1>4, <2>1, <2>2, <2>3
<1> HIDE DEF q, fl
<1> QED BY <1>3, <1>4, <1>5 DEF q, fl

\* The state of a receiver after what it put together went up, and what was handed on.
Updated(e, r) == r = updateRcvApp(e) \/ r = updateRcvAppAlice(e)
Handing(e, H) == IF e.lastFragment THEN H \cup {makePacket(e.fragmentsReceived)} ELSE H

\* What updating does.
LEMMA UpdatedFacts ==
    ASSUME NEW e \in Endpoint, NEW r, Updated(e, r)
    PROVE  /\ r \in Endpoint /\ r.inSeqNo = e.inSeqNo /\ ~r.lastFragment
           /\ e.lastFragment => r.fragmentsReceived = <<>>
           /\ ~e.lastFragment => r = e
<1>1. r \in Endpoint
  <2> DEFINE e1 == [e EXCEPT !.fragmentsReceived = <<>>]
             e2 == [e1 EXCEPT !.lastFragment = FALSE]
             e3 == [e2 EXCEPT !.inFragNo = 0]
  <2>1. <<>> \in Seq(Fragment) /\ FALSE \in BOOLEAN /\ 0 \in Nat
    OBVIOUS
  <2>2. r = e \/ r = e2 \/ r = e3
    BY DEF Updated, updateRcvApp, updateRcvAppAlice
  <2>3. e1 \in Endpoint
    BY <2>1, SetAttribute
  <2> HIDE DEF e1
  <2>4. e2 \in Endpoint
    BY <2>1, <2>3, SetAttribute
  <2> HIDE DEF e2
  <2>5. e3 \in Endpoint
    BY <2>1, <2>4, SetAttribute
  <2> HIDE DEF e3
  <2> QED BY <2>2, <2>4, <2>5
<1>2. r.inSeqNo = e.inSeqNo /\ ~r.lastFragment
    BY DEF Updated, updateRcvApp, updateRcvAppAlice, Endpoint
<1>3. e.lastFragment => r.fragmentsReceived = <<>>
    BY DEF Updated, updateRcvApp, updateRcvAppAlice, Endpoint
<1>4. ~e.lastFragment => r = e
    BY DEF Updated, updateRcvApp, updateRcvAppAlice
<1> QED BY <1>1, <1>2, <1>3, <1>4

\* A receiver that took a fragment of p is as truthful as it was.
LEMMA TakenTrue ==
    ASSUME NEW r \in Endpoint, NEW S, NEW H, S \subseteq Packet, ReceiveTrue(r, S, H),
           H \subseteq Packet,
           NEW e \in Endpoint, NEW f \in Fragment, NEW p \in S, Taken(e, f, p, r, S, H),
           NEW r2, Updated(e, r2)
    PROVE  /\ ReceiveTrue(r2, S, Handing(e, H))
           /\ Onward(r, S, H, r2, S, Handing(e, H))
           /\ AckTrue(e.inSeqNo, e.inFragNo, r2, S, Handing(e, H))
           /\ e.lastFragment /\ ~GotWhole(e.inSeqNo, S, H) =>
                  /\ makePacket(e.fragmentsReceived) \in S
                  /\ makePacket(e.fragmentsReceived).len = e.inFragNo
<1> DEFINE H2 == Handing(e, H)
           q == makePacket(e.fragmentsReceived)
<1>1. /\ r.inSeqNo \in Nat /\ r.inFragNo \in Nat /\ p.seq \in Nat /\ p.len \in Nat
      /\ f.frag \in Nat /\ e.fragmentsReceived \in Seq(Fragment)
    BY DEF Endpoint, Fragment, Packet
<1>2. /\ e.inSeqNo = p.seq /\ e.inFragNo = f.frag /\ (e.lastFragment <=> f.frag = p.len)
      /\ 0 < f.frag /\ f.frag <= p.len
      /\ r.inSeqNo < p.seq \/ (r.inSeqNo = p.seq /\ r.inFragNo < f.frag)
    BY DEF Taken, PieceOf
<1>3. e.lastFragment => q.seq = p.seq /\ (~GotWhole(p.seq, S, H) => q = p)
    BY <1>1, <1>2, PutTogether
<1>4. /\ r2.inSeqNo = p.seq /\ (e.lastFragment => r2.fragmentsReceived = <<>>)
      /\ ~e.lastFragment => r2 = e
    BY <1>2, UpdatedFacts
<1>5. H \subseteq H2 /\ (e.lastFragment => q \in H2 /\ H2 = H \cup {q})
      /\ (~e.lastFragment => H2 = H)
    BY DEF Handing
<1> HIDE DEF H2, q
<1>6. \A n : GotWhole(n, S, H) => GotWhole(n, S, H2)
    BY <1>5 DEF GotWhole
<1>7. e.lastFragment => GotWhole(p.seq, S, H2)
    BY <1>3, <1>5, <1>6 DEF GotWhole
<1>8. ASSUME NEW n \in Nat, NEW k \in Nat, Past(r, S, H, n, k)
      PROVE  Past(r2, S, H2, n, k)
  <2>1. CASE n < r.inSeqNo \/ (n = r.inSeqNo /\ r.inSeqNo < p.seq)
    <3>1. n < p.seq
      BY <1>1, <1>2, <2>1
    <3> QED BY <1>4, <3>1 DEF Past
  <2>2. CASE GotWhole(n, S, H)
    BY <1>6, <2>2 DEF Past
  <2>3. CASE n = r.inSeqNo /\ k <= r.inFragNo /\ r.inSeqNo = p.seq
    <3>1. CASE e.lastFragment
      BY <1>7, <2>3, <3>1 DEF Past
    <3>2. CASE ~e.lastFragment
      <4>1. k <= r2.inFragNo
        BY <1>1, <1>2, <1>4, <2>3, <3>2
      <4> QED BY <1>4, <2>3, <4>1 DEF Past
    <3> QED BY <3>1, <3>2
  <2> QED BY <1>1, <1>2, <1>8, <2>1, <2>2, <2>3 DEF Past
<1>9. Onward(r, S, H, r2, S, H2)
    BY <1>6, <1>8 DEF Onward
<1>10. AckTrue(p.seq, f.frag, r2, S, H2)
  <2>1. Past(r2, S, H2, p.seq, f.frag)
    BY <1>1, <1>2, <1>4, <1>7 DEF Past
  <2>2. f.frag = p.len => GotWhole(p.seq, S, H2)
    BY <1>2, <1>7
  <2> QED BY <2>1, <2>2 DEF AckTrue
<1>11. ASSUME NEW x \in H2 PROVE x.seq <= p.seq /\ GotWhole(x.seq, S, H2)
  <2>1. CASE x \in H
    <3>1. x.seq <= r.inSeqNo /\ GotWhole(x.seq, S, H) /\ x.seq \in Nat
      BY <2>1 DEF ReceiveTrue, Packet
    <3>2. x.seq <= p.seq
      BY <1>1, <1>2, <3>1
    <3> QED BY <1>6, <3>1, <3>2
  <2>2. CASE x \notin H
    <3>1. e.lastFragment /\ x.seq = p.seq
      BY <1>3, <1>5, <2>2
    <3> QED BY <1>1, <1>7, <3>1
  <2> QED BY <2>1, <2>2
<1>12. ReceiveTrue(r2, S, H2)
  <2>1. CASE e.lastFragment
    <3>1. r2.fragmentsReceived = <<>> /\ r2.inSeqNo = p.seq /\ GotWhole(r2.inSeqNo, S, H2)
      BY <1>4, <1>7, <2>1
    <3>2. \A i \in 1..Len(r2.fragmentsReceived) :
              r2.fragmentsReceived[i].seq = r2.inSeqNo
      BY <3>1
    <3> QED BY <1>11, <3>1, <3>2 DEF ReceiveTrue
  <2>2. CASE ~e.lastFragment
    <3>1. r2 = e /\ H2 = H
      BY <1>4, <1>5, <2>2
    <3>2. f.frag < p.len
      BY <1>1, <1>2, <2>2
    <3>3. GotWhole(p.seq, S, H) \/ Prefix(e.fragmentsReceived, f.frag, p)
      BY <3>2 DEF Taken, Prefix
    <3>4. \A i \in 1..Len(e.fragmentsReceived) : e.fragmentsReceived[i].seq = e.inSeqNo
      BY <1>2 DEF Taken
    <3> QED BY <1>2, <1>11, <3>1, <3>3, <3>4 DEF ReceiveTrue
  <2> QED BY <2>1, <2>2
<1>13. ASSUME e.lastFragment, ~GotWhole(e.inSeqNo, S, H)
       PROVE  q \in S /\ q.len = e.inFragNo
    BY <1>2, <1>3, <1>13
<1> QED BY <1>2, <1>9, <1>10, <1>12, <1>13 DEF H2, q

\* A message is ignored or taken; e is the receiver after that, and after anything it
\* does about what it sends itself, r2 after the packet, if any, went up.
LEMMA Receives ==
    ASSUME NEW r, WellFormed(r), ~r.lastFragment, NEW S, NEW H, S \subseteq Packet,
           H \subseteq Packet, ReceiveTrue(r, S, H),
           \A p, q \in S : p.seq = q.seq => p = q,
           NEW f \in Fragment, DataTrue(f, r, S, H),
           isEmptyFile(f) => Reached(r, f.seq, f.frag),
           NEW e \in Endpoint, incoming(e) = incoming(acceptFragment(r, f)),
           NEW r2, Updated(e, r2)
    PROVE  /\ ReceiveTrue(r2, S, Handing(e, H)) /\ ~r2.lastFragment
           /\ Onward(r, S, H, r2, S, Handing(e, H))
           /\ AckTrue(e.inSeqNo, e.inFragNo, r2, S, Handing(e, H))
           /\ e.lastFragment /\ ~GotWhole(e.inSeqNo, S, H) =>
                  /\ makePacket(e.fragmentsReceived) \in S
                  /\ makePacket(e.fragmentsReceived).len = e.inFragNo
<1> DEFINE t == acceptFragment(r, f)
<1>1. r \in Endpoint /\ ~r2.lastFragment
    BY UpdatedFacts DEF WellFormed
<1>2. /\ e.inSeqNo = t.inSeqNo /\ e.inFragNo = t.inFragNo
      /\ e.fragmentsReceived = t.fragmentsReceived /\ e.lastFragment = t.lastFragment
    BY DEF incoming
<1> HIDE DEF t
<1>3. CASE Reached(r, f.seq, f.frag)
  <2>1. t = r
    BY <1>3, Ignores DEF t
  <2>2. ~e.lastFragment /\ r2 = e /\ Handing(e, H) = H
    BY <1>2, <2>1, UpdatedFacts DEF Handing
  <2>3. incoming(e) = incoming(r)
    BY <1>2, <2>1 DEF incoming
  <2>4. ReceiveTrue(e, S, H) /\ Onward(r, S, H, e, S, H)
    BY <2>3, SameSides
  <2>5. AckTrue(e.inSeqNo, e.inFragNo, e, S, H)
    BY <2>4, OwnAck
  <2> QED BY <2>2, <2>4, <2>5
<1>4. CASE ~Reached(r, f.seq, f.frag)
  <2>1. PICK p \in S : Taken(t, f, p, r, S, H)
    BY <1>4, Takes DEF t
  <2>2. Taken(e, f, p, r, S, H)
    BY <1>2, <2>1 DEF Taken
  <2> QED BY <1>1, <2>2, TakenTrue
<1> QED BY <1>3, <1>4

-----------------------------------------------------------------------------
(* The invariant *)

Up == Flow(client, server, BagToSet(queries), BagToSet(responses),
           SentBy("Alice"), HandedTo("Bob"))

Down == Flow(server, client, BagToSet(responses), BagToSet(queries),
             SentBy("Bob"), HandedTo("Alice"))

\* Packets of an application are numbered in the order they are queued and sent.
NumberedApp(s) ==
    /\ \A i \in 1..Len(s.queue) : /\ s.queue[i].seq + Len(s.queue) + 1 = s.packetCounter + i
                                  /\ s.queue[i].file \in Files
    /\ \A p \in Range(s.sent) : p.seq + Len(s.queue) < s.packetCounter /\ p.file \in Files
    /\ \A p, q \in Range(s.sent) : p.seq = q.seq => p = q

Numbered == \A a \in Apps : NumberedApp(app[a])

\* What is on the way to an endpoint its application has sent.
OnLinks ==
    \A m \in BagToSet(local) : \A a \in Apps :
        m.kind = "packet" /\ m.to = EndpointOf(a) => m.pkt \in SentBy(a)

\* Messages without data repeat what the receiver has: pings the number (0, 0), answers
\* the number of the server's last fragment.
Dataless ==
    /\ \A f \in BagToSet(queries) : isEmptyFile(f) => f.seq = 0 /\ f.frag = 0
    /\ \A f \in BagToSet(responses) : isEmptyFile(f) => Reached(client, f.seq, f.frag)
    /\ \A f \in BagToSet(queries) : Reached(client, f.ackSeq, f.ackFrag)
    /\ ~isSending(server) => Reached(client, server.outSeqNo, server.outFragNo)

\* What e received last of a packet in H was its last fragment, and it holds none of it.
Completed(e, H) ==
    \A p \in H : p.seq = e.inSeqNo => e.inFragNo = p.len /\ e.fragmentsReceived = <<>>

\* Alice is handed packets of Bob's, each once; of the one the client last completed
\* it still knows the last fragment's number.
Once == DownstreamExact /\ Completed(client, HandedTo("Alice"))

DInv == Numbered /\ OnLinks /\ Up /\ Down /\ Dataless /\ Once

-----------------------------------------------------------------------------
(* Numbers of packets *)

\* What an application has sent are packets.
LEMMA SentPackets ==
    ASSUME NEW a \in App
    PROVE  \A p \in Range(a.sent) : p \in Packet /\ p.seq \in Nat
<1>1. a.sent \in Seq(Packet)
    BY DEF App
<1>2. \A i \in DOMAIN a.sent : a.sent[i] \in Packet
    BY <1>1
<1> QED BY <1>2 DEF Range, Packet

\* An application that queues a file.
LEMMA packetizeNumbered ==
    ASSUME NEW a \in App, NEW f \in Files, NumberedApp(a)
    PROVE  LET b == packetizeProb(a, f)
           IN  NumberedApp(b) /\ b.sent = a.sent /\ b.rcvd = a.rcvd
<1> DEFINE n == Len(PacketLens[f])
           c == a.packetCounter
           q == a.queue
           m == Len(q)
           ps == [i \in 1..n |-> packet(f, c + i - 1, PacketLens[f][i], i = n)]
           b == packetizeProb(a, f)
<1>1. n \in Nat /\ c \in Nat /\ m \in Nat /\ q \in Seq(Packet)
  <2>1. PacketLens[f] \in Seq(Nat \ {0})
    BY NodeAssumption
  <2> QED BY <2>1 DEF App
<1>2. /\ b.queue = q \o ps /\ b.packetCounter = c + n
      /\ b.sent = a.sent /\ b.rcvd = a.rcvd
    BY DEF packetizeProb, App
<1> HIDE DEF n
<1>3. \A i \in 1..n : ps[i].seq = c + i - 1 /\ ps[i].file = f
  <2>1. \A i \in 1..n : ps[i] = packet(f, c + i - 1, PacketLens[f][i], i = n)
    OBVIOUS
  <2>2. \A g, k, l, z : packet(g, k, l, z).seq = k /\ packet(g, k, l, z).file = g
    BY DEF packet
  <2> HIDE DEF ps
  <2> QED BY <2>1, <2>2
<1>4. ps \in Seq(Range(ps)) /\ Len(ps) = n
  <2>1. DOMAIN ps = 1..n /\ \A i \in 1..n : ps[i] \in Range(ps)
    BY DEF Range
  <2>2. ps = [i \in 1..n |-> ps[i]]
    OBVIOUS
  <2> HIDE DEF ps
  <2> QED BY <1>1, <2>1, <2>2
<1> HIDE DEF ps
<1>5. /\ Len(q \o ps) = m + n
      /\ \A i \in 1..(m + n) : (q \o ps)[i] = IF i <= m THEN q[i] ELSE ps[i - m]
    BY <1>1, <1>4
<1>6. \A i \in 1..m : q[i].seq + m + 1 = c + i /\ q[i].file \in Files /\ q[i].seq \in Nat
  <2>1. \A i \in 1..m : q[i].seq + m + 1 = c + i /\ q[i].file \in Files
    BY DEF NumberedApp
  <2>2. \A i \in 1..m : q[i] \in Packet
    BY <1>1
  <2>3. \A i \in 1..m : q[i].seq \in Nat
    BY <2>2 DEF Packet
  <2> QED BY <2>1, <2>3
<1>7. \A p \in Range(a.sent) : p.seq + m < c /\ p.file \in Files /\ p.seq \in Nat
  <2>1. \A p \in Range(a.sent) : p.seq + m < c /\ p.file \in Files
    BY DEF NumberedApp
  <2> QED BY <2>1, SentPackets
<1> HIDE DEF b, n, m, q, c
<1>8. ASSUME NEW i \in 1..(m + n)
      PROVE  (q \o ps)[i].seq + (m + n) + 1 = (c + n) + i /\ (q \o ps)[i].file \in Files
  <2>1. CASE i <= m
    <3>1. i \in 1..m /\ (q \o ps)[i] = q[i]
      BY <1>1, <1>5, <2>1
    <3>2. q[i].seq + m + 1 = c + i /\ q[i].file \in Files /\ q[i].seq \in Nat
      BY <1>6, <3>1
    <3>3. q[i].seq + (m + n) + 1 = (c + n) + i
      <4>1. i \in Nat
        BY <1>1
      <4>2. \A x, y \in Nat : x + m + 1 = c + y => x + (m + n) + 1 = (c + n) + y
        BY <1>1
      <4> QED BY <3>2, <4>1, <4>2
    <3> QED BY <3>1, <3>2, <3>3
  <2>2. CASE ~(i <= m)
    <3>1. i - m \in 1..n /\ (q \o ps)[i] = ps[i - m]
      BY <1>1, <1>5, <2>2
    <3>2. ps[i - m].seq = c + (i - m) - 1 /\ ps[i - m].file = f
      BY <1>3, <3>1
    <3>3. (c + (i - m) - 1) + (m + n) + 1 = (c + n) + i
      BY <1>1, <3>1
    <3> QED BY <3>1, <3>2, <3>3
  <2> QED BY <2>1, <2>2
<1>9. ASSUME NEW p \in Range(a.sent) PROVE p.seq + (m + n) < c + n /\ p.file \in Files
  <2>1. p.seq + m < c /\ p.file \in Files /\ p.seq \in Nat
    BY <1>7
  <2>2. p.seq + (m + n) < c + n
    BY <1>1, <2>1
  <2> QED BY <2>1, <2>2
<1>10. \A x, y \in Range(a.sent) : x.seq = y.seq => x = y
    BY DEF NumberedApp
<1> QED BY <1>2, <1>5, <1>8, <1>9, <1>10 DEF NumberedApp, b

\* One more element in front.
LEMMA RangePrepend ==
    ASSUME NEW T, NEW l \in Seq(T), NEW h \in T
    PROVE  <<h>> \o l \in Seq(T) /\ Range(<<h>> \o l) = Range(l) \cup {h}
<1> DEFINE u == <<h>> \o l
           n == Len(l)
<1>1. /\ n \in Nat /\ u \in Seq(T) /\ Len(u) = n + 1 /\ u[1] = h
      /\ \A i \in 1..n : u[i + 1] = l[i]
    OBVIOUS
<1>2. DOMAIN u = 1..(n + 1) /\ DOMAIN l = 1..n
    BY <1>1
<1> HIDE DEF u, n
<1>3. ASSUME NEW x \in Range(u) PROVE x \in Range(l) \cup {h}
  <2>1. PICK i \in 1..(n + 1) : x = u[i]
    BY <1>2, <1>3 DEF Range
  <2>2. CASE i = 1
    BY <1>1, <2>1, <2>2
  <2>3. CASE i # 1
    <3>1. i - 1 \in 1..n /\ (i - 1) + 1 = i
      BY <1>1, <2>3
    <3>2. x = l[i - 1]
      BY <1>1, <2>1, <3>1
    <3> QED BY <1>2, <3>1, <3>2 DEF Range
  <2> QED BY <2>2, <2>3
<1>4. ASSUME NEW x \in Range(l) PROVE x \in Range(u)
  <2>1. PICK i \in 1..n : x = l[i]
    BY <1>2, <1>4 DEF Range
  <2>2. i + 1 \in 1..(n + 1)
    BY <1>1
  <2> QED BY <1>1, <1>2, <2>1, <2>2 DEF Range
<1>5. h \in Range(u)
  <2>1. 1 \in 1..(n + 1)
    BY <1>1
  <2> QED BY <1>1, <1>2, <2>1 DEF Range
<1> QED BY <1>1, <1>3, <1>4, <1>5 DEF u

\* An application that sends the head of its queue.
LEMMA sendNumbered ==
    ASSUME NEW a \in App, canSend(a), NumberedApp(a)
    PROVE  LET b == sendPkt(a)
           IN  /\ NumberedApp(b) /\ b.rcvd = a.rcvd
               /\ Range(b.sent) = Range(a.sent) \cup {Head(a.queue)}
<1> DEFINE q == a.queue
           h == Head(q)
           t == Tail(q)
           n == Len(t)
           c == a.packetCounter
           u == <<h>> \o a.sent
           b == sendPkt(a)
<1>1. /\ q \in Seq(Packet) /\ q # <<>> /\ c \in Nat /\ a.sent \in Seq(Packet)
    BY DEF canSend, App
<1>2. /\ b.queue = t /\ b.packetCounter = c /\ b.sent = u /\ b.rcvd = a.rcvd
    BY DEF sendPkt, App
<1>3. /\ n \in Nat /\ Len(q) = n + 1 /\ h = q[1] /\ h \in Packet
      /\ \A i \in 1..n : t[i] = q[i + 1] /\ t[i] \in Packet
    BY <1>1
<1>4. Range(u) = Range(a.sent) \cup {h}
    BY <1>1, <1>3, RangePrepend
<1>5. h.seq \in Nat /\ \A x \in Range(a.sent) : x.seq \in Nat
    BY <1>3, SentPackets DEF Packet
<1>6. \A i \in 1..(n + 1) : q[i].seq + (n + 1) + 1 = c + i /\ q[i].file \in Files
    BY <1>3 DEF NumberedApp
<1>7. \A x \in Range(a.sent) : x.seq + (n + 1) < c /\ x.file \in Files
    BY <1>3 DEF NumberedApp
<1>8. \A x, y \in Range(a.sent) : x.seq = y.seq => x = y
    BY DEF NumberedApp
<1> HIDE DEF b, u, t, n, h, c, q
<1>9. h.seq + n + 1 = c /\ h.file \in Files
  <2>1. 1 \in 1..(n + 1)
    BY <1>3
  <2>2. h.seq + (n + 1) + 1 = c + 1 /\ h.file \in Files
    BY <1>3, <1>6, <2>1
  <2>3. \A x \in Nat : x + (n + 1) + 1 = c + 1 => x + n + 1 = c
    BY <1>1, <1>3
  <2> QED BY <1>5, <2>2, <2>3
<1>10. ASSUME NEW i \in 1..n PROVE t[i].seq + n + 1 = c + i /\ t[i].file \in Files
  <2>1. i + 1 \in 1..(n + 1) /\ t[i] = q[i + 1] /\ t[i].seq \in Nat
    BY <1>3 DEF Packet
  <2>2. t[i].seq + (n + 1) + 1 = c + (i + 1) /\ t[i].file \in Files
    BY <1>6, <2>1
  <2>3. \A x, y \in Nat : x + (n + 1) + 1 = c + (y + 1) => x + n + 1 = c + y
    BY <1>1, <1>3
  <2>4. i \in Nat
    BY <1>3
  <2> QED BY <2>1, <2>2, <2>3, <2>4
<1>11. \A x \in Range(a.sent) : x.seq + n < c /\ x.seq # h.seq
  <2>1. ASSUME NEW x \in Range(a.sent) PROVE x.seq + n < c /\ x.seq # h.seq
    <3>1. x.seq + (n + 1) < c /\ x.seq \in Nat
      BY <1>5, <1>7
    <3> QED BY <1>1, <1>3, <1>5, <1>9, <3>1
  <2> QED BY <2>1
<1>12. h.seq + n < c
    BY <1>1, <1>3, <1>5, <1>9
<1>13. \A x \in Range(u) : x.seq + n < c /\ x.file \in Files
    BY <1>4, <1>7, <1>9, <1>11, <1>12
<1>14. \A x, y \in Range(u) : x.seq = y.seq => x = y
    BY <1>4, <1>8, <1>11
<1> QED BY <1>2, <1>4, <1>10, <1>13, <1>14 DEF NumberedApp, b, n, h, q

-----------------------------------------------------------------------------
(* Packets on their way to an application *)

DeliveriesOf(a, B) == {m \in BagToSet(B) : m.to = a /\ m.kind = "packet"}

\* The bags B and C hold the same packets for the applications.
SameDeliveries(B, C) ==
    \A a \in Apps : /\ DeliveriesOf(a, C) = DeliveriesOf(a, B)
                    /\ \A m \in DeliveriesOf(a, B) : C[m] = B[m]

\* Signals, and packets for the endpoints, come and go beside them.
LEMMA Beside ==
    ASSUME NEW B, IsABag(B), NEW m, ~(m.kind = "packet" /\ m.to \in Apps)
    PROVE  /\ SameDeliveries(B, BagAdd(B, m))
           /\ m \in BagToSet(B) => SameDeliveries(B, BagRemove(B, m))
           /\ \A c : SameDeliveries(B, AddIf(B, c, m))
<1>1. SameDeliveries(B, BagAdd(B, m))
  <2>1. /\ BagToSet(BagAdd(B, m)) = BagToSet(B) \cup {m}
        /\ \A y \in BagToSet(B) \ {m} : BagAdd(B, m)[y] = B[y]
    BY BagAddFacts
  <2> QED BY <2>1 DEF SameDeliveries, DeliveriesOf
<1>2. ASSUME m \in BagToSet(B) PROVE SameDeliveries(B, BagRemove(B, m))
  <2>1. /\ \/ BagToSet(BagRemove(B, m)) = BagToSet(B) \ {m}
           \/ BagToSet(BagRemove(B, m)) = BagToSet(B)
        /\ \A y \in BagToSet(B) \ {m} : BagRemove(B, m)[y] = B[y]
    BY <1>2, BagRemoveFacts
  <2> QED BY <2>1 DEF SameDeliveries, DeliveriesOf
<1>3. SameDeliveries(B, B)
    BY DEF SameDeliveries
<1> QED BY <1>1, <1>2, <1>3 DEF AddIf

\* One after the other.
LEMMA BesideTwice ==
    ASSUME NEW B, NEW C, NEW D, SameDeliveries(B, C), SameDeliveries(C, D)
    PROVE  SameDeliveries(B, D)
BY DEF SameDeliveries

\* What an application was handed is then the same.
LEMMA SameHanded ==
    ASSUME SameDeliveries(local, local'), NEW a \in Apps, app'[a].rcvd = app[a].rcvd
    PROVE  HandedTo(a)' = HandedTo(a)
<1>1. HandedTo(a) = Range(app[a].rcvd) \cup {m.pkt : m \in DeliveriesOf(a, local)}
    BY DEF HandedTo, DeliveriesOf
<1>2. HandedTo(a)' = Range(app'[a].rcvd) \cup {m.pkt : m \in DeliveriesOf(a, local')}
    BY DEF HandedTo, DeliveriesOf
<1>3. DeliveriesOf(a, local') = DeliveriesOf(a, local)
    BY DEF SameDeliveries
<1> QED BY <1>1, <1>2, <1>3

\* Nothing is handed to Alice.
LEMMA ExactKept ==
    ASSUME DownstreamExact, SameDeliveries(local, local'),
           app'["Alice"].rcvd = app["Alice"].rcvd, SentBy("Bob") \subseteq SentBy("Bob")'
    PROVE  DownstreamExact' /\ HandedTo("Alice")' = HandedTo("Alice")
<1>1. HandedTo("Alice")' = HandedTo("Alice")
    BY SameHanded DEF Apps
<1>2. \A m \in BagToSet(local') : m.to = "Alice" /\ m.kind = "packet" =>
          m \in BagToSet(local) /\ local'[m] = local[m]
    BY DEF SameDeliveries, DeliveriesOf, Apps
<1> QED BY <1>1, <1>2 DEF DownstreamExact

\* Nothing is handed to Alice, and the client has received nothing.
LEMMA OnceKept ==
    ASSUME Once, SameDeliveries(local, local'), app'["Alice"].rcvd = app["Alice"].rcvd,
           SentBy("Bob") \subseteq SentBy("Bob")', incoming(client') = incoming(client)
    PROVE  Once'
<1>1. DownstreamExact' /\ HandedTo("Alice")' = HandedTo("Alice")
    BY ExactKept DEF Once
<1>2. client'.inSeqNo = client.inSeqNo /\ client'.inFragNo = client.inFragNo
      /\ client'.fragmentsReceived = client.fragmentsReceived
    BY DEF incoming
<1> QED BY <1>1, <1>2 DEF Once, Completed

\* What joins the links to the endpoints its application has sent.
LEMMA OnLinksKept ==
    ASSUME OnLinks, \A a \in Apps : SentBy(a) \subseteq SentBy(a)',
           \A m \in BagToSet(local') \ BagToSet(local) : \A a \in Apps :
               m.kind = "packet" /\ m.to = EndpointOf(a) => m.pkt \in SentBy(a)'
    PROVE  OnLinks'
BY DEF OnLinks

-----------------------------------------------------------------------------
(* The flows, step by step *)

\* What applications send and are handed are packets, and numbers name them.
LEMMA Bases ==
    ASSUME IInv, Numbered, NEW a \in Apps
    PROVE  /\ SentBy(a) \subseteq Packet /\ HandedTo(a) \subseteq Packet
           /\ \A p \in SentBy(a) : p.file \in Files
           /\ \A p, q \in SentBy(a) : p.seq = q.seq => p = q
<1>1. app[a] \in App /\ BagToSet(local) \subseteq Msg
    BY IInvFacts
<1>2. SentBy(a) \subseteq Packet
    BY <1>1, SentPackets DEF SentBy
<1>3. HandedTo(a) \subseteq Packet
  <2>1. app[a].rcvd \in Seq(Packet)
    BY <1>1 DEF App
  <2>2. \A i \in DOMAIN app[a].rcvd : app[a].rcvd[i] \in Packet
    BY <2>1
  <2>3. Range(app[a].rcvd) \subseteq Packet
    BY <2>2 DEF Range
  <2> QED BY <1>1, <2>3, MsgTypes DEF HandedTo
<1> QED BY <1>2, <1>3 DEF Numbered, NumberedApp, SentBy

\* What the invariant says of both flows.
LEMMA FlowFacts ==
    ASSUME Up, Down
    PROVE  /\ SendTrue(client, server, SentBy("Alice"), HandedTo("Bob"))
           /\ ReceiveTrue(server, SentBy("Alice"), HandedTo("Bob")) /\ ~server.lastFragment
           /\ \A f \in BagToSet(queries) :
                  /\ DataTrue(f, server, SentBy("Alice"), HandedTo("Bob"))
                  /\ AckTrue(f.ackSeq, f.ackFrag, client, SentBy("Bob"), HandedTo("Alice"))
           /\ SendTrue(server, client, SentBy("Bob"), HandedTo("Alice"))
           /\ ReceiveTrue(client, SentBy("Bob"), HandedTo("Alice")) /\ ~client.lastFragment
           /\ \A f \in BagToSet(responses) :
                  /\ DataTrue(f, client, SentBy("Bob"), HandedTo("Alice"))
                  /\ AckTrue(f.ackSeq, f.ackFrag, server, SentBy("Alice"), HandedTo("Bob"))
BY DEF Up, Down, Flow

\* The endpoints stay as they are, no message is added, and applications may send.
LEMMA FlowsKept ==
    ASSUME IInv, Numbered, Up, Down, Dataless,
           \A a \in Apps : HandedTo(a)' = HandedTo(a) /\ SentBy(a) \subseteq SentBy(a)',
           UNCHANGED <<client, server>>,
           BagToSet(queries') \subseteq BagToSet(queries),
           BagToSet(responses') \subseteq BagToSet(responses)
    PROVE  Up' /\ Down' /\ Dataless'
<1>1. /\ SentBy("Alice") \subseteq Packet /\ SentBy("Bob") \subseteq Packet
      /\ HandedTo("Alice")' = HandedTo("Alice") /\ HandedTo("Bob")' = HandedTo("Bob")
      /\ SentBy("Alice") \subseteq SentBy("Alice")' /\ SentBy("Bob") \subseteq SentBy("Bob")'
    BY Bases DEF Apps
<1>2. \A f \in Fragment : f.ackSeq \in Nat /\ f.ackFrag \in Nat
    BY DEF Fragment
<1>3. Up'
  <2>1. /\ Onward(server, SentBy("Alice"), HandedTo("Bob"),
                  server, SentBy("Alice")', HandedTo("Bob"))
        /\ ReceiveTrue(server, SentBy("Alice")', HandedTo("Bob"))
    BY <1>1, FlowFacts, MoreSent
  <2>2. SendTrue(client, server, SentBy("Alice")', HandedTo("Bob"))
    BY <1>1, <2>1, FlowFacts, StaysTrue
  <2>3. \A f \in BagToSet(queries) : DataTrue(f, server, SentBy("Alice")', HandedTo("Bob"))
    BY <1>1, <2>1, FlowFacts, StaysTrue
  <2>4. \A f \in BagToSet(responses) :
            AckTrue(f.ackSeq, f.ackFrag, server, SentBy("Alice")', HandedTo("Bob"))
    BY <1>1, <1>2, <2>1, FlowFacts, IInvFacts, StaysTrue
  <2> QED BY <1>1, <2>1, <2>2, <2>3, <2>4, FlowFacts DEF Up, Flow
<1>4. Down'
  <2>1. /\ Onward(client, SentBy("Bob"), HandedTo("Alice"),
                  client, SentBy("Bob")', HandedTo("Alice"))
        /\ ReceiveTrue(client, SentBy("Bob")', HandedTo("Alice"))
    BY <1>1, FlowFacts, MoreSent
  <2>2. SendTrue(server, client, SentBy("Bob")', HandedTo("Alice"))
    BY <1>1, <2>1, FlowFacts, StaysTrue
  <2>3. \A f \in BagToSet(responses) :
            DataTrue(f, client, SentBy("Bob")', HandedTo("Alice"))
    BY <1>1, <2>1, FlowFacts, StaysTrue
  <2>4. \A f \in BagToSet(queries) :
            AckTrue(f.ackSeq, f.ackFrag, client, SentBy("Bob")', HandedTo("Alice"))
    BY <1>1, <1>2, <2>1, FlowFacts, IInvFacts, StaysTrue
  <2> QED BY <1>1, <2>1, <2>2, <2>3, <2>4, FlowFacts DEF Down, Flow
<1>5. Dataless'
    BY DEF Dataless, Reached
<1> QED BY <1>3, <1>4, <1>5

\* A query the client may add: its data, its ack, its number when it has no data.
QueryTrue(f, c, H) ==
    /\ DataTrue(f, server, SentBy("Alice"), HandedTo("Bob"))
    /\ isEmptyFile(f) => f.seq = 0 /\ f.frag = 0
    /\ AckTrue(f.ackSeq, f.ackFrag, c, SentBy("Bob"), H)
    /\ Reached(c, f.ackSeq, f.ackFrag)

\* The client takes a response, or a packet, or gives one up, and sends queries.
LEMMA ClientMoves ==
    ASSUME IInv, Numbered, Up, Down, Dataless, UNCHANGED <<app, server>>,
           HandedTo("Bob")' = HandedTo("Bob"), NEW H, H = HandedTo("Alice")',
           NEW c, c = client', ReceiveTrue(c, SentBy("Bob"), H), ~c.lastFragment,
           Onward(client, SentBy("Bob"), HandedTo("Alice"), c, SentBy("Bob"), H),
           \A n, k \in Nat : Reached(client, n, k) => Reached(c, n, k),
           SendTrue(c, server, SentBy("Alice"), HandedTo("Bob")),
           BagToSet(responses') \subseteq BagToSet(responses),
           \A f \in BagToSet(queries') \ BagToSet(queries) : QueryTrue(f, c, H)
    PROVE  Up' /\ Down' /\ Dataless'
<1>1. /\ SentBy("Alice")' = SentBy("Alice") /\ SentBy("Bob")' = SentBy("Bob")
      /\ SentBy("Bob") \subseteq Packet
    BY Bases DEF Apps, SentBy
<1>2. \A f \in Fragment : /\ f.ackSeq \in Nat /\ f.ackFrag \in Nat
                          /\ f.seq \in Nat /\ f.frag \in Nat
    BY DEF Fragment
<1>3. Up'
  <2>1. \A f \in BagToSet(queries') :
            DataTrue(f, server, SentBy("Alice"), HandedTo("Bob"))
    BY FlowFacts DEF QueryTrue
  <2> QED BY <1>1, <2>1, FlowFacts DEF Up, Flow
<1>4. Down'
  <2>1. SendTrue(server, c, SentBy("Bob"), H)
    BY <1>1, FlowFacts, StaysTrue
  <2>2. \A f \in BagToSet(responses) : DataTrue(f, c, SentBy("Bob"), H)
    BY <1>1, FlowFacts, StaysTrue
  <2>3. \A f \in BagToSet(queries) : AckTrue(f.ackSeq, f.ackFrag, c, SentBy("Bob"), H)
    BY <1>1, <1>2, FlowFacts, IInvFacts, StaysTrue
  <2>4. \A f \in BagToSet(queries') : AckTrue(f.ackSeq, f.ackFrag, c, SentBy("Bob"), H)
    BY <2>3 DEF QueryTrue
  <2> QED BY <1>1, <2>1, <2>2, <2>4 DEF Down, Flow
<1>5. Dataless'
  <2>1. \A f \in BagToSet(queries') : isEmptyFile(f) => f.seq = 0 /\ f.frag = 0
    BY DEF Dataless, QueryTrue
  <2>2. \A f \in BagToSet(responses') : isEmptyFile(f) => Reached(c, f.seq, f.frag)
    BY <1>2, IInvFacts DEF Dataless
  <2>3. \A f \in BagToSet(queries') : Reached(c, f.ackSeq, f.ackFrag)
    BY <1>2, IInvFacts DEF Dataless, QueryTrue
  <2>4. server.outSeqNo \in Nat /\ server.outFragNo \in Nat
    BY DEF IInv, TypeOK, Endpoint
  <2>5. ~isSending(server) => Reached(c, server.outSeqNo, server.outFragNo)
    BY <2>4 DEF Dataless
  <2> QED BY <2>1, <2>2, <2>3, <2>5 DEF Dataless, Reached
<1> QED BY <1>3, <1>4, <1>5

\* An answer the server may add.
ResponseTrue(f, e, S, T, H) ==
    /\ DataTrue(f, client, T, HandedTo("Alice"))
    /\ isEmptyFile(f) => Reached(client, f.seq, f.frag)
    /\ AckTrue(f.ackSeq, f.ackFrag, e, S, H)

\* The server takes a query, or a packet, and answers; Bob may send it a packet.
LEMMA ServerMoves ==
    ASSUME IInv, Numbered, Up, Down, Dataless, UNCHANGED client,
           HandedTo("Alice")' = HandedTo("Alice"), NEW H, H = HandedTo("Bob")',
           SentBy("Alice")' = SentBy("Alice"),
           NEW T, T = SentBy("Bob")', SentBy("Bob") \subseteq T,
           NEW e, e = server', ReceiveTrue(e, SentBy("Alice"), H), ~e.lastFragment,
           Onward(server, SentBy("Alice"), HandedTo("Bob"), e, SentBy("Alice"), H),
           SendTrue(e, client, T, HandedTo("Alice")),
           ~isSending(e) => Reached(client, e.outSeqNo, e.outFragNo),
           BagToSet(queries') \subseteq BagToSet(queries),
           \A f \in BagToSet(responses') \ BagToSet(responses) :
               ResponseTrue(f, e, SentBy("Alice"), T, H)
    PROVE  Up' /\ Down' /\ Dataless'
<1>1. SentBy("Alice") \subseteq Packet /\ SentBy("Bob") \subseteq Packet
    BY Bases DEF Apps
<1>2. \A f \in Fragment : f.ackSeq \in Nat /\ f.ackFrag \in Nat
    BY DEF Fragment
<1>3. Up'
  <2>1. SendTrue(client, e, SentBy("Alice"), H)
    BY <1>1, FlowFacts, StaysTrue
  <2>2. \A f \in BagToSet(queries) : DataTrue(f, e, SentBy("Alice"), H)
    BY <1>1, FlowFacts, StaysTrue
  <2>3. \A f \in BagToSet(responses) : AckTrue(f.ackSeq, f.ackFrag, e, SentBy("Alice"), H)
    BY <1>1, <1>2, FlowFacts, IInvFacts, StaysTrue
  <2>4. \A f \in BagToSet(responses') : AckTrue(f.ackSeq, f.ackFrag, e, SentBy("Alice"), H)
    BY <2>3 DEF ResponseTrue
  <2> QED BY <2>1, <2>2, <2>4 DEF Up, Flow
<1>4. Down'
  <2>1. /\ Onward(client, SentBy("Bob"), HandedTo("Alice"), client, T, HandedTo("Alice"))
        /\ ReceiveTrue(client, T, HandedTo("Alice"))
    BY FlowFacts, MoreSent
  <2>2. \A f \in BagToSet(responses) : DataTrue(f, client, T, HandedTo("Alice"))
    BY <1>1, <2>1, FlowFacts, StaysTrue
  <2>3. \A f \in BagToSet(responses') : DataTrue(f, client, T, HandedTo("Alice"))
    BY <2>2 DEF ResponseTrue
  <2>4. \A f \in BagToSet(queries) :
            AckTrue(f.ackSeq, f.ackFrag, client, T, HandedTo("Alice"))
    BY <1>1, <1>2, <2>1, FlowFacts, IInvFacts, StaysTrue
  <2> QED BY <2>1, <2>3, <2>4, FlowFacts DEF Down, Flow
<1>5. Dataless'
  <2>1. \A f \in BagToSet(responses') : isEmptyFile(f) => Reached(client, f.seq, f.frag)
    BY DEF Dataless, ResponseTrue
  <2> QED BY <2>1 DEF Dataless, Reached
<1> QED BY <1>3, <1>4, <1>5

-----------------------------------------------------------------------------
(* The steps of the applications *)

\* An application whose queue and history are those of another is numbered as that one.
LEMMA SameNumbers ==
    ASSUME NEW a, NEW b, NumberedApp(a), b.queue = a.queue, b.sent = a.sent,
           b.packetCounter = a.packetCounter
    PROVE  NumberedApp(b)
BY DEF NumberedApp

\* What becomes of application a when it sends, if it does.
LEMMA AppActs ==
    ASSUME IInv, DInv, NEW a \in Apps, NEW s, app' = [app EXCEPT ![a] = s],
           NumberedApp(s), s.rcvd = app[a].rcvd, Range(app[a].sent) \subseteq Range(s.sent),
           SameDeliveries(local, local'),
           \A m \in BagToSet(local') \ BagToSet(local) : \A b \in Apps :
               m.kind = "packet" /\ m.to = EndpointOf(b) =>
                   b = a /\ m.pkt \in Range(s.sent),
           UNCHANGED <<client, server, queries, responses>>
    PROVE  DInv'
<1>1. app \in [Apps -> App]
    BY DEF IInv, TypeOK
<1>2. app'[a] = s /\ \A b \in Apps : b # a => app'[b] = app[b]
    BY <1>1
<1>3. Numbered'
    BY <1>2 DEF DInv, Numbered
<1>4. \A b \in Apps : SentBy(b) \subseteq SentBy(b)' /\ app'[b].rcvd = app[b].rcvd
    BY <1>2 DEF SentBy
<1>5. \A b \in Apps : HandedTo(b)' = HandedTo(b)
    BY <1>4, SameHanded
<1>6. OnLinks'
  <2>1. Range(s.sent) = SentBy(a)'
    BY <1>2 DEF SentBy
  <2> QED BY <1>4, <2>1, OnLinksKept DEF DInv
<1>7. Up' /\ Down' /\ Dataless'
    BY <1>4, <1>5, FlowsKept DEF DInv
<1>8. Once'
    BY <1>4, OnceKept DEF DInv, Apps
<1> QED BY <1>3, <1>6, <1>7, <1>8 DEF DInv

\* A queued packet, or none, leaves for the endpoint, besides the signals in msgs.
LEMMA AppSends ==
    ASSUME IInv, DInv, NEW a \in Apps, NEW s \in App, NumberedApp(s),
           s.sent = app[a].sent, s.rcvd = app[a].rcvd,
           NEW c \in BOOLEAN, c => canSend(s),
           NEW msgs, IsABag(msgs), SameDeliveries(local, msgs),
           \A m \in BagToSet(msgs) \ BagToSet(local) : m.kind # "packet",
           app' = [app EXCEPT ![a] = IF c THEN sendPkt(s) ELSE s],
           local' = IF c THEN BagAdd(msgs, PacketTo(EndpointOf(a), Head(s.queue)))
                         ELSE msgs,
           UNCHANGED <<client, server, queries, responses>>
    PROVE  DInv'
<1>1. CASE c
  <2> DEFINE r == sendPkt(s)
             m == PacketTo(EndpointOf(a), Head(s.queue))
  <2>1. /\ NumberedApp(r) /\ r.rcvd = app[a].rcvd
        /\ Range(r.sent) = Range(app[a].sent) \cup {Head(s.queue)}
    BY <1>1, sendNumbered
  <2>2. app' = [app EXCEPT ![a] = r] /\ local' = BagAdd(msgs, m)
    BY <1>1
  <2>3. m.to = EndpointOf(a) /\ m.pkt = Head(s.queue) /\ m.to \notin Apps
    BY DEF PacketTo, EndpointOf, Apps
  <2> HIDE DEF r, m
  <2>4. SameDeliveries(local, local')
    BY <2>2, <2>3, Beside, BesideTwice
  <2>5. BagToSet(local') = BagToSet(msgs) \cup {m}
    BY <2>2, BagAddFacts
  <2>6. \A b \in Apps : EndpointOf(b) = EndpointOf(a) => b = a
    BY DEF EndpointOf, Apps
  <2>7. \A x \in BagToSet(local') \ BagToSet(local) : \A b \in Apps :
            x.kind = "packet" /\ x.to = EndpointOf(b) => b = a /\ x.pkt \in Range(r.sent)
    BY <2>1, <2>3, <2>5, <2>6
  <2> QED BY <2>1, <2>2, <2>4, <2>7, AppActs
<1>2. CASE ~c
  <2>1. app' = [app EXCEPT ![a] = s] /\ local' = msgs
    BY <1>2
  <2> QED BY <2>1, AppActs
<1> QED BY <1>1, <1>2

\* A file that arrives is queued.
LEMMA AppHandleFileDInv ==
    ASSUME IInv, DInv, NEW a \in Apps, AppHandleFile(a)
    PROVE  DInv'
<1> DEFINE f == Inputs[a][arrived[a] + 1]
           p == packetizeProb(app[a], f)
           v == a = "Bob" \/ p.queuePopulated
           s == [p EXCEPT !.queuePopulated = v]
<1>1. arrived \in [Apps -> Nat] /\ arrived[a] < Len(Inputs[a]) /\ app[a] \in App
    BY DEF IInv, TypeOK, AppHandleFile
<1>2. f \in Files
  <2>1. Inputs[a] \in Seq(Files) /\ arrived[a] \in Nat
    BY <1>1, DNSAssumption
  <2> QED BY <1>1, <2>1
<1>3. /\ app' = [app EXCEPT ![a] = s]
      /\ local' = BagAdd(local, Signal(a, "start"))
      /\ UNCHANGED <<client, server, queries, responses>>
    BY DEF AppHandleFile
<1> HIDE DEF f
<1>4. /\ NumberedApp(p) /\ p.sent = app[a].sent /\ p.rcvd = app[a].rcvd /\ p \in App
    BY <1>1, <1>2, packetizeNumbered, packetizeProbType DEF DInv, Numbered
<1> HIDE DEF p, v
<1>5. NumberedApp(s) /\ s.sent = app[a].sent /\ s.rcvd = app[a].rcvd
    BY <1>4, SameNumbers DEF App
<1> HIDE DEF s
<1>6. Signal(a, "start").kind # "packet"
    BY DEF Signal
<1>7. SameDeliveries(local, local')
    BY <1>3, <1>6, IInvFacts, Beside
<1>8. BagToSet(local') = BagToSet(local) \cup {Signal(a, "start")}
    BY <1>3, IInvFacts, BagAddFacts
<1> QED BY <1>3, <1>5, <1>6, <1>7, <1>8, AppActs

\* The application's own file joins its queue.
LEMMA populateNumbered ==
    ASSUME NEW a \in Apps, app[a] \in App, NumberedApp(app[a])
    PROVE  LET s == populate(a)
           IN  NumberedApp(s) /\ s.sent = app[a].sent /\ s.rcvd = app[a].rcvd
<1>1. CASE app[a].queuePopulated \/ OwnFile[a] = NoFile
  <2> DEFINE s == [app[a] EXCEPT !.queuePopulated = TRUE]
  <2>1. populate(a) = s
    BY <1>1 DEF populate
  <2>2. /\ s.sent = app[a].sent /\ s.rcvd = app[a].rcvd /\ s.queue = app[a].queue
        /\ s.packetCounter = app[a].packetCounter
    BY DEF App
  <2> HIDE DEF s
  <2> QED BY <2>1, <2>2, SameNumbers
<1>2. CASE ~(app[a].queuePopulated \/ OwnFile[a] = NoFile)
  <2> DEFINE p == packetizeProb(app[a], OwnFile[a])
             s == [p EXCEPT !.queuePopulated = TRUE]
  <2>1. OwnFile[a] \in Files
    BY <1>2, DNSAssumption
  <2>2. /\ NumberedApp(p) /\ p.sent = app[a].sent /\ p.rcvd = app[a].rcvd /\ p \in App
    BY <2>1, packetizeNumbered, packetizeProbType
  <2>3. populate(a) = s
    BY <1>2 DEF populate
  <2> HIDE DEF p
  <2>4. /\ s.sent = p.sent /\ s.rcvd = p.rcvd /\ s.queue = p.queue
        /\ s.packetCounter = p.packetCounter
    BY <2>2 DEF App
  <2> HIDE DEF s
  <2> QED BY <2>2, <2>3, <2>4, SameNumbers
<1> QED BY <1>1, <1>2

\* start at Alice.
LEMMA SendAppSendPacketDInv == IInv /\ DInv /\ SendAppSendPacket => DInv'
<1> SUFFICES ASSUME IInv, DInv, SendAppSendPacket PROVE DInv'
    OBVIOUS
<1> DEFINE m == Signal("Alice", "start")
           g == Signal("Client", "startPeriodicPings")
           q == populate("Alice")
           s == [q EXCEPT !.iodineReady = TRUE]
           c == s.numAdmittedPkts > 0 /\ canSend(s)
           rest == BagRemove(local, m)
           msgs == BagAdd(rest, g)
<1>1. /\ m \in BagToSet(local) /\ SendOrWait("Alice", s, c, msgs)
      /\ UNCHANGED <<client, server, queries, responses>>
    BY DEF SendAppSendPacket, Consume, BagIn
<1>2. /\ q \in App /\ NumberedApp(q)
      /\ q.sent = app["Alice"].sent /\ q.rcvd = app["Alice"].rcvd
    BY IInvFacts, populateType, populateNumbered DEF Apps, DInv, Numbered
<1> HIDE DEF q
<1>3. s \in App /\ NumberedApp(s) /\ s.sent = q.sent /\ s.rcvd = q.rcvd
  <2>1. s \in App
    BY <1>2, SetAppAttribute
  <2>2. s.sent = q.sent /\ s.rcvd = q.rcvd /\ s.queue = q.queue
        /\ s.packetCounter = q.packetCounter
    BY <1>2 DEF App
  <2> HIDE DEF s
  <2> QED BY <1>2, <2>1, <2>2, SameNumbers
<1> HIDE DEF s
<1>4. m.kind # "packet" /\ g.kind # "packet"
    BY DEF Signal
<1> HIDE DEF m, g
<1>5. IsABag(rest) /\ BagToSet(rest) \subseteq BagToSet(local) /\ SameDeliveries(local, rest)
    BY <1>1, <1>4, IInvFacts, BagRemoveFacts, Beside
<1> HIDE DEF rest
<1>6. IsABag(msgs) /\ BagToSet(msgs) = BagToSet(rest) \cup {g} /\ SameDeliveries(rest, msgs)
    BY <1>4, <1>5, BagAddFacts, Beside
<1> HIDE DEF msgs
<1>7. SameDeliveries(local, msgs)
    BY <1>5, <1>6, BesideTwice
<1>8. c \in BOOLEAN /\ (c => canSend(s))
    OBVIOUS
<1> HIDE DEF c
<1>9. /\ app' = [app EXCEPT !["Alice"] = IF c THEN sendPkt(s) ELSE s]
      /\ local' = IF c THEN BagAdd(msgs, PacketTo(EndpointOf("Alice"), Head(s.queue)))
                       ELSE msgs
    BY <1>1 DEF SendOrWait
<1> QED BY <1>1, <1>2, <1>3, <1>4, <1>5, <1>6, <1>7, <1>8, <1>9, AppSends DEF Apps

\* start at Bob.
LEMMA ReceiveAppSendPacketDInv == IInv /\ DInv /\ ReceiveAppSendPacket => DInv'
<1> SUFFICES ASSUME IInv, DInv, ReceiveAppSendPacket PROVE DInv'
    OBVIOUS
<1> DEFINE m == Signal("Bob", "start")
           s == populate("Bob")
           c == s.iodineReady /\ s.numAdmittedPkts > 0 /\ canSend(s)
           rest == BagRemove(local, m)
<1>1. /\ m \in BagToSet(local) /\ SendOrWait("Bob", s, c, rest)
      /\ UNCHANGED <<client, server, queries, responses>>
    BY DEF ReceiveAppSendPacket, Consume, BagIn
<1>2. /\ s \in App /\ NumberedApp(s)
      /\ s.sent = app["Bob"].sent /\ s.rcvd = app["Bob"].rcvd
    BY IInvFacts, populateType, populateNumbered DEF Apps, DInv, Numbered
<1> HIDE DEF s
<1>3. m.kind # "packet"
    BY DEF Signal
<1> HIDE DEF m
<1>4. IsABag(rest) /\ BagToSet(rest) \subseteq BagToSet(local) /\ SameDeliveries(local, rest)
    BY <1>1, <1>3, IInvFacts, BagRemoveFacts, Beside
<1> HIDE DEF rest
<1>5. c \in BOOLEAN /\ (c => canSend(s))
    OBVIOUS
<1> HIDE DEF c
<1>6. /\ app' = [app EXCEPT !["Bob"] = IF c THEN sendPkt(s) ELSE s]
      /\ local' = IF c THEN BagAdd(rest, PacketTo(EndpointOf("Bob"), Head(s.queue)))
                       ELSE rest
    BY <1>1 DEF SendOrWait
<1> QED BY <1>1, <1>2, <1>4, <1>5, <1>6, AppSends DEF Apps

\* txDone at Bob.
LEMMA ReceiveAppTxDoneDInv == IInv /\ DInv /\ ReceiveAppTxDone => DInv'
<1> SUFFICES ASSUME IInv, DInv, ReceiveAppTxDone PROVE DInv'
    OBVIOUS
<1> DEFINE m == Signal("Bob", "txDone")
           g == Signal("Bob", "start")
           s == [app["Bob"] EXCEPT !.iodineReady = TRUE]
           rest == BagRemove(local, m)
<1>1. /\ m \in BagToSet(local) /\ app' = [app EXCEPT !["Bob"] = s]
      /\ local' = BagAdd(rest, g)
      /\ UNCHANGED <<client, server, queries, responses>>
    BY DEF ReceiveAppTxDone, Consume, BagIn
<1>2. NumberedApp(s) /\ s.sent = app["Bob"].sent /\ s.rcvd = app["Bob"].rcvd
  <2>1. app["Bob"] \in App /\ NumberedApp(app["Bob"])
    BY IInvFacts DEF Apps, DInv, Numbered
  <2>2. /\ s.sent = app["Bob"].sent /\ s.rcvd = app["Bob"].rcvd
        /\ s.queue = app["Bob"].queue /\ s.packetCounter = app["Bob"].packetCounter
    BY <2>1 DEF App
  <2> HIDE DEF s
  <2> QED BY <2>1, <2>2, SameNumbers
<1> HIDE DEF s
<1>3. m.kind # "packet" /\ g.kind # "packet"
    BY DEF Signal
<1> HIDE DEF m, g
<1>4. IsABag(rest) /\ BagToSet(rest) \subseteq BagToSet(local) /\ SameDeliveries(local, rest)
    BY <1>1, <1>3, IInvFacts, BagRemoveFacts, Beside
<1> HIDE DEF rest
<1>5. BagToSet(local') = BagToSet(rest) \cup {g} /\ SameDeliveries(rest, local')
    BY <1>1, <1>3, <1>4, BagAddFacts, Beside
<1>6. SameDeliveries(local, local')
    BY <1>4, <1>5, BesideTwice
<1>7. "Bob" \in Apps
    BY DEF Apps
<1> QED BY <1>1, <1>2, <1>3, <1>4, <1>5, <1>6, <1>7, AppActs

\* The pacing interval is over.
LEMMA AppPktTimeoutDInv ==
    ASSUME IInv, DInv, NEW a \in Apps, AppPktTimeout(a)
    PROVE  DInv'
<1> DEFINE n == app[a].numAdmittedPkts + 1
           s == [app[a] EXCEPT !.numAdmittedPkts = n]
           c == s.iodineReady /\ canSend(s)
<1>1. /\ app' = [app EXCEPT ![a] = IF c THEN sendPkt(s) ELSE s]
      /\ local' = IF c THEN BagAdd(local, PacketTo(EndpointOf(a), Head(s.queue)))
                       ELSE local
      /\ UNCHANGED <<client, server, queries, responses>>
    BY DEF AppPktTimeout
<1>2. app[a] \in App /\ n \in Nat /\ NumberedApp(app[a])
    BY IInvFacts DEF App, DInv, Numbered
<1>3. s \in App /\ NumberedApp(s) /\ s.sent = app[a].sent /\ s.rcvd = app[a].rcvd
  <2>1. s \in App
    BY <1>2, SetAppAttribute
  <2>2. /\ s.sent = app[a].sent /\ s.rcvd = app[a].rcvd
        /\ s.queue = app[a].queue /\ s.packetCounter = app[a].packetCounter
    BY <1>2 DEF App
  <2> HIDE DEF s
  <2> QED BY <1>2, <2>1, <2>2, SameNumbers
<1> HIDE DEF s
<1>4. c \in BOOLEAN /\ (c => canSend(s))
    OBVIOUS
<1> HIDE DEF c
<1>5. SameDeliveries(local, local) /\ IsABag(local)
    BY IInvFacts DEF SameDeliveries
<1> QED BY <1>1, <1>3, <1>4, <1>5, AppSends

\* An application takes a packet: what it was handed stays the same.
LEMMA AppTakes ==
    ASSUME IInv, DInv, NEW a \in Apps, NEW m \in BagToSet(local), m.to = a,
           m.kind = "packet", NEW l, Range(l) = Range(app[a].rcvd) \cup {m.pkt},
           app' = [app EXCEPT ![a].rcvd = l], local' = BagRemove(local, m),
           UNCHANGED <<client, server, queries, responses>>
    PROVE  /\ Numbered' /\ OnLinks' /\ Up' /\ Down' /\ Dataless'
           /\ \A b \in Apps : HandedTo(b)' = HandedTo(b) /\ SentBy(b)' = SentBy(b)
<1> DEFINE s == [app[a] EXCEPT !.rcvd = l]
<1>1. app \in [Apps -> App] /\ app[a] \in App
    BY DEF IInv, TypeOK
<1>2. app'[a] = s /\ \A b \in Apps : b # a => app'[b] = app[b]
    BY <1>1
<1>3. /\ s.rcvd = l /\ s.sent = app[a].sent /\ s.queue = app[a].queue
      /\ s.packetCounter = app[a].packetCounter
    BY <1>1 DEF App
<1> HIDE DEF s
<1>4. Numbered'
  <2>1. NumberedApp(s)
    BY <1>3, SameNumbers DEF DInv, Numbered
  <2> QED BY <1>2, <2>1 DEF DInv, Numbered
<1>5. \A b \in Apps : SentBy(b)' = SentBy(b)
    BY <1>2, <1>3 DEF SentBy
<1>6. /\ BagToSet(local') \subseteq BagToSet(local)
      /\ BagToSet(local) \ {m} \subseteq BagToSet(local')
    BY IInvFacts, BagRemoveFacts
<1>7. ASSUME NEW b \in Apps PROVE HandedTo(b)' = HandedTo(b)
  <2>1. /\ HandedTo(b) = Range(app[b].rcvd) \cup {x.pkt : x \in DeliveriesOf(b, local)}
        /\ HandedTo(b)' = Range(app'[b].rcvd) \cup {x.pkt : x \in DeliveriesOf(b, local')}
    BY DEF HandedTo, DeliveriesOf
  <2>2. CASE b = a
    <3>1. /\ DeliveriesOf(a, local') \subseteq DeliveriesOf(a, local)
          /\ DeliveriesOf(a, local) \subseteq DeliveriesOf(a, local') \cup {m}
          /\ m \in DeliveriesOf(a, local)
      BY <1>6 DEF DeliveriesOf
    <3>2. Range(app'[a].rcvd) = Range(app[a].rcvd) \cup {m.pkt}
      BY <1>2, <1>3
    <3> QED BY <2>1, <2>2, <3>1, <3>2
  <2>3. CASE b # a
    <3>1. DeliveriesOf(b, local') = DeliveriesOf(b, local)
      BY <1>6, <2>3 DEF DeliveriesOf
    <3> QED BY <1>2, <2>1, <2>3, <3>1
  <2> QED BY <2>2, <2>3
<1>8. OnLinks'
    BY <1>5, <1>6, OnLinksKept DEF DInv
<1>9. Up' /\ Down' /\ Dataless'
    BY <1>5, <1>7, FlowsKept DEF DInv
<1> QED BY <1>4, <1>5, <1>7, <1>8, <1>9

\* Bob takes a packet.
LEMMA ReceiveAppRcvPacketDInv == IInv /\ DInv /\ ReceiveAppRcvPacket => DInv'
<1> SUFFICES ASSUME IInv, DInv, ReceiveAppRcvPacket PROVE DInv'
    OBVIOUS
<1>1. PICK m \in BagToSet(local) :
        /\ m.to = "Bob" /\ m.kind = "packet"
        /\ app' = [app EXCEPT !["Bob"].rcvd = Append(@, m.pkt)]
        /\ local' = BagRemove(local, m)
        /\ UNCHANGED <<client, server, queries, responses>>
    BY DEF ReceiveAppRcvPacket
<1> DEFINE l == Append(app["Bob"].rcvd, m.pkt)
<1>2. app \in [Apps -> App] /\ "Bob" \in Apps /\ "Alice" \in Apps /\ "Alice" # "Bob"
    BY DEF IInv, TypeOK, Apps
<1>3. Range(l) = Range(app["Bob"].rcvd) \cup {m.pkt}
  <2>1. app["Bob"].rcvd \in Seq(Packet) /\ m.pkt \in Packet
    BY <1>1, <1>2, IInvFacts, MsgTypes DEF App
  <2> HIDE DEF l
  <2> DEFINE q == app["Bob"].rcvd
             n == Len(q)
  <2>2. /\ n \in Nat /\ DOMAIN q = 1..n /\ DOMAIN l = 1..(n + 1) /\ l[n + 1] = m.pkt
        /\ \A i \in 1..n : l[i] = q[i]
    BY <2>1, AppendProperties DEF l
  <2> HIDE DEF q, n
  <2>3. \A i \in 1..(n + 1) : i \in 1..n \/ i = n + 1
    BY <2>2
  <2>4. 1..n \subseteq 1..(n + 1) /\ n + 1 \in 1..(n + 1)
    BY <2>2
  <2>5. Range(l) = Range(q) \cup {m.pkt}
    BY <2>2, <2>3, <2>4 DEF Range
  <2> QED BY <2>5 DEF q
<1>4. app' = [app EXCEPT !["Bob"].rcvd = l]
    BY <1>1
<1> HIDE DEF l
<1>5. /\ Numbered' /\ OnLinks' /\ Up' /\ Down' /\ Dataless'
      /\ HandedTo("Alice")' = HandedTo("Alice") /\ SentBy("Bob")' = SentBy("Bob")
    BY <1>1, <1>2, <1>3, <1>4, AppTakes
<1>6. app'["Alice"] = app["Alice"]
    BY <1>2, <1>4
<1>7. \A x \in BagToSet(local') : x.to = "Alice" =>
          x \in BagToSet(local) /\ local'[x] = local[x]
    BY <1>1, <1>2, IInvFacts, BagRemoveFacts
<1>8. Once'
    BY <1>1, <1>5, <1>6, <1>7 DEF DInv, Once, DownstreamExact, Completed
<1> QED BY <1>5, <1>8 DEF DInv

\* Alice takes a packet, which has then left its link.
LEMMA SendAppRcvPacketDInv == IInv /\ DInv /\ SendAppRcvPacket => DInv'
<1> SUFFICES ASSUME IInv, DInv, SendAppRcvPacket PROVE DInv'
    OBVIOUS
<1>1. PICK m \in BagToSet(local) :
        /\ m.to = "Alice" /\ m.kind = "packet"
        /\ app' = [app EXCEPT !["Alice"].rcvd = <<m.pkt>> \o @]
        /\ local' = BagRemove(local, m)
        /\ UNCHANGED <<client, server, queries, responses>>
    BY DEF SendAppRcvPacket
<1> DEFINE q == app["Alice"].rcvd
           l == <<m.pkt>> \o q
           n == Len(q)
<1>2. app \in [Apps -> App] /\ "Bob" \in Apps /\ "Alice" \in Apps
    BY DEF IInv, TypeOK, Apps
<1>3. q \in Seq(Packet) /\ m.pkt \in Packet
    BY <1>1, <1>2, IInvFacts, MsgTypes DEF App
<1>4. app' = [app EXCEPT !["Alice"].rcvd = l] /\ app'["Alice"].rcvd = l
    BY <1>1, <1>2 DEF App
<1>5. Range(l) = Range(q) \cup {m.pkt}
    BY <1>3, RangePrepend
<1>6. /\ n \in Nat /\ DOMAIN l = 1..(n + 1) /\ DOMAIN q = 1..n /\ l[1] = m.pkt
      /\ \A i \in 1..(n + 1) : i = 1 \/ (i - 1 \in 1..n /\ l[i] = q[i - 1])
    BY <1>3
<1> HIDE DEF l, n
<1>7. /\ Numbered' /\ OnLinks' /\ Up' /\ Down' /\ Dataless'
      /\ HandedTo("Alice")' = HandedTo("Alice") /\ SentBy("Bob")' = SentBy("Bob")
    BY <1>1, <1>2, <1>4, <1>5, AppTakes
<1>8. /\ HandedTo("Alice") \subseteq SentBy("Bob")
      /\ \A i, j \in DOMAIN q : i # j => q[i].seq # q[j].seq
      /\ \A x \in BagToSet(local) : x.to = "Alice" /\ x.kind = "packet" =>
             x.pkt \notin Range(q) /\ local[x] = 1
    BY DEF DInv, Once, DownstreamExact
<1>9. \A x \in Range(q) : x.seq # m.pkt.seq
  <2>1. Range(q) \subseteq SentBy("Bob") /\ m.pkt \in SentBy("Bob")
    BY <1>1, <1>8 DEF HandedTo
  <2>2. m.pkt \notin Range(q)
    BY <1>1, <1>8
  <2> QED BY <1>2, <2>1, <2>2, Bases DEF DInv
<1>10. ASSUME NEW i \in DOMAIN l, NEW j \in DOMAIN l, i # j PROVE l[i].seq # l[j].seq
  <2>1. \A k \in 1..n : q[k].seq # m.pkt.seq
    BY <1>6, <1>9 DEF Range
  <2>2. CASE i = 1 /\ j # 1
    BY <1>6, <2>1, <2>2
  <2>3. CASE i # 1 /\ j = 1
    BY <1>6, <2>1, <2>3
  <2>4. CASE i # 1 /\ j # 1
    <3>1. i - 1 \in 1..n /\ j - 1 \in 1..n /\ i - 1 # j - 1
      BY <1>6, <1>10, <2>4
    <3>2. l[i] = q[i - 1] /\ l[j] = q[j - 1]
      BY <1>6, <2>4
    <3> QED BY <1>6, <1>8, <3>1, <3>2
  <2> QED BY <1>10, <2>2, <2>3, <2>4
<1>11. ASSUME NEW x \in BagToSet(local'), x.to = "Alice", x.kind = "packet"
       PROVE  x.pkt \notin Range(l) /\ local'[x] = 1
  <2>1. local[m] = 1
    BY <1>1, <1>8
  <2>2. BagToSet(local') = BagToSet(local) \ {m}
        /\ \A y \in BagToSet(local) \ {m} : local'[y] = local[y]
    BY <1>1, <2>1, IInvFacts, BagRemoveFacts
  <2>3. x \in BagToSet(local) /\ x # m /\ local'[x] = local[x]
    BY <1>11, <2>2
  <2>4. x \in Msg /\ m \in Msg
    BY <2>3, IInvFacts
  <2>5. x.pkt # m.pkt
    BY <1>1, <1>11, <2>3, <2>4 DEF Msg
  <2> QED BY <1>5, <1>8, <1>11, <2>3, <2>5
<1>12. Once'
  <2>1. DownstreamExact'
    BY <1>4, <1>7, <1>8, <1>10, <1>11 DEF DownstreamExact
  <2> QED BY <1>1, <1>7, <2>1 DEF DInv, Once, Completed
<1> QED BY <1>7, <1>12 DEF DInv

-----------------------------------------------------------------------------
(* The steps of the client, and those that only take messages away *)

\* Messages disappear, signals come and go, and nothing else happens.
LEMMA Quiet ==
    ASSUME IInv, DInv, UNCHANGED <<app, client, server>>, SameDeliveries(local, local'),
           \A m \in BagToSet(local') \ BagToSet(local) : m.kind # "packet",
           BagToSet(queries') \subseteq BagToSet(queries),
           BagToSet(responses') \subseteq BagToSet(responses)
    PROVE  DInv'
<1>1. Numbered' /\ \A a \in Apps : SentBy(a)' = SentBy(a) /\ app'[a].rcvd = app[a].rcvd
    BY DEF DInv, Numbered, SentBy
<1>2. \A a \in Apps : HandedTo(a)' = HandedTo(a)
    BY <1>1, SameHanded
<1>3. Up' /\ Down' /\ Dataless'
    BY <1>1, <1>2, FlowsKept DEF DInv
<1>4. OnLinks'
    BY <1>1, OnLinksKept DEF DInv
<1>5. Once'
    BY <1>1, OnceKept DEF DInv, Apps
<1> QED BY <1>1, <1>3, <1>4, <1>5 DEF DInv

\* The network, outdated responses, moot timers, pings that start, a busy server.
LEMMA QuietSteps ==
    ASSUME IInv, DInv,
           \/ LoseQuery \/ LoseResponse \/ WClientExtractOldResponse
           \/ IClientTimeoutIgnore \/ ClientStartPeriodicPings \/ IServerEmbeddingSending
    PROVE  DInv'
<1>1. SameDeliveries(local, local)
    BY DEF SameDeliveries
<1>2. ASSUME NEW m \in BagToSet(local), m.to \notin Apps, local' = BagRemove(local, m),
             UNCHANGED <<app, client, server, queries, responses>>
      PROVE  DInv'
  <2>1. SameDeliveries(local, local') /\ BagToSet(local') \subseteq BagToSet(local)
    BY <1>2, IInvFacts, Beside, BagRemoveFacts
  <2> QED BY <1>2, <2>1, Quiet
<1>3. CASE LoseQuery
    BY <1>1, <1>3, IInvFacts, BagRemoveFacts, Quiet DEF LoseQuery
<1>4. CASE LoseResponse \/ WClientExtractOldResponse
    BY <1>1, <1>4, IInvFacts, BagRemoveFacts, Quiet DEF LoseResponse, WClientExtractOldResponse
<1>5. CASE IClientTimeoutIgnore
    BY <1>1, <1>5, Quiet DEF IClientTimeoutIgnore
<1>6. CASE ClientStartPeriodicPings
  <2>1. Signal("Client", "startPeriodicPings").to \notin Apps
    BY DEF Signal, Apps
  <2> QED BY <1>2, <1>6, <2>1 DEF ClientStartPeriodicPings, Consume, BagIn
<1>7. CASE IServerEmbeddingSending
  <2>1. "Server" \notin Apps
    BY DEF Apps
  <2> QED BY <1>2, <1>7, <2>1 DEF IServerEmbeddingSending
<1> QED BY <1>3, <1>4, <1>5, <1>6, <1>7

\* The client sends: what it has received is as it was, and its messages say so.
LEMMA ClientSends ==
    ASSUME IInv, DInv, UNCHANGED <<app, server, responses>>, SameDeliveries(local, local'),
           \A m \in BagToSet(local') \ BagToSet(local) : m.kind # "packet",
           incoming(client') = incoming(client), NEW c, c = client',
           SendTrue(c, server, SentBy("Alice"), HandedTo("Bob")),
           \A f \in BagToSet(queries') \ BagToSet(queries) :
               /\ DataTrue(f, server, SentBy("Alice"), HandedTo("Bob"))
               /\ isEmptyFile(f) => f.seq = 0 /\ f.frag = 0
               /\ f.ackSeq = client.inSeqNo /\ f.ackFrag = client.inFragNo
    PROVE  DInv'
<1>1. Numbered' /\ \A a \in Apps : SentBy(a)' = SentBy(a) /\ app'[a].rcvd = app[a].rcvd
    BY DEF DInv, Numbered, SentBy
<1>2. HandedTo("Alice")' = HandedTo("Alice") /\ HandedTo("Bob")' = HandedTo("Bob")
    BY <1>1, SameHanded DEF Apps
<1>3. SentBy("Bob") \subseteq Packet /\ client \in Endpoint
    BY Bases DEF Apps, DInv, IInv, TypeOK
<1>4. /\ ReceiveTrue(client, SentBy("Bob"), HandedTo("Alice")) /\ ~client.lastFragment
      /\ AckTrue(client.inSeqNo, client.inFragNo, client, SentBy("Bob"), HandedTo("Alice"))
    BY <1>3, FlowFacts, OwnAck DEF DInv
<1>5. /\ ReceiveTrue(c, SentBy("Bob"), HandedTo("Alice"))
      /\ Onward(client, SentBy("Bob"), HandedTo("Alice"), c, SentBy("Bob"), HandedTo("Alice"))
    BY <1>4, SameSides
<1>6. /\ c.inSeqNo = client.inSeqNo /\ c.inFragNo = client.inFragNo
      /\ c.lastFragment = client.lastFragment
    BY DEF incoming
<1>7. AckTrue(client.inSeqNo, client.inFragNo, c, SentBy("Bob"), HandedTo("Alice"))
  <2>1. client.inSeqNo \in Nat /\ client.inFragNo \in Nat
    BY <1>3 DEF Endpoint
  <2> QED BY <1>3, <1>4, <1>5, <2>1, StaysTrue
<1>8. Reached(c, client.inSeqNo, client.inFragNo)
    BY <1>3, <1>6 DEF Reached, NotBefore, Endpoint
<1>9. \A f \in BagToSet(queries') \ BagToSet(queries) : QueryTrue(f, c, HandedTo("Alice"))
    BY <1>7, <1>8 DEF QueryTrue
<1>10. \A n, k \in Nat : Reached(client, n, k) => Reached(c, n, k)
    BY <1>6 DEF Reached
<1>11. Up' /\ Down' /\ Dataless'
    BY <1>2, <1>4, <1>5, <1>6, <1>9, <1>10, ClientMoves DEF DInv
<1>12. OnLinks'
    BY <1>1, OnLinksKept DEF DInv
<1>13. Once'
    BY <1>1, OnceKept DEF DInv, Apps
<1> QED BY <1>1, <1>11, <1>12, <1>13 DEF DInv

\* The client takes a packet and sends its first fragment.
LEMMA IClientEmbeddingDInv == IInv /\ DInv /\ IClientEmbedding => DInv'
<1> SUFFICES ASSUME IInv, DInv, IClientEmbedding PROVE DInv'
    OBVIOUS
<1>1. PICK m \in BagToSet(local) :
        /\ m.to = "Client" /\ m.kind = "packet"
        /\ client' = incrNumAttempts(handleNewPacket(client, m.pkt))
        /\ Transmit(handleNewPacket(client, m.pkt))
        /\ local' = BagRemove(local, m)
        /\ UNCHANGED <<app, server, responses>>
    BY DEF IClientEmbedding
<1> DEFINE e == handleNewPacket(client, m.pkt)
           c == incrNumAttempts(e)
<1>2. WellFormed(e) /\ isSending(e) /\ client \in Endpoint /\ m.pkt \in Packet
    BY <1>1, IInvFacts, MsgTypes, handleNewPacketType DEF IInv, WellFormed
<1>3. /\ SentBy("Alice") \subseteq Packet /\ \A p \in SentBy("Alice") : p.file \in Files
    BY Bases DEF Apps, DInv
<1>4. m.pkt \in SentBy("Alice")
  <2>1. "Alice" \in Apps /\ EndpointOf("Alice") = "Client"
    BY DEF Apps, EndpointOf
  <2> QED BY <1>1, <2>1 DEF DInv, OnLinks
<1>5. SendTrue(e, server, SentBy("Alice"), HandedTo("Bob"))
    BY <1>2, <1>3, <1>4, NewPacketTrue
<1>6. incoming(e) = incoming(client)
    BY <1>2, Sides
<1>7. client' = c /\ queries' = BagAdd(queries, grabCurrentFragment(e))
    BY <1>1 DEF Transmit
<1> HIDE DEF e
<1>8. incoming(c) = incoming(e) /\ outgoing(c) = outgoing(e)
    BY <1>2, Sides DEF WellFormed
<1> HIDE DEF c
<1>9. SendTrue(c, server, SentBy("Alice"), HandedTo("Bob"))
    BY <1>5, <1>8, SameSides
<1>10. LET f == grabCurrentFragment(e)
       IN  /\ DataTrue(f, server, SentBy("Alice"), HandedTo("Bob")) /\ ~isEmptyFile(f)
           /\ f.ackSeq = e.inSeqNo /\ f.ackFrag = e.inFragNo
    BY <1>2, <1>3, <1>5, GrabTrue DEF WellFormed
<1>11. e.inSeqNo = client.inSeqNo /\ e.inFragNo = client.inFragNo
    BY <1>6 DEF incoming
<1>12. BagToSet(queries') = BagToSet(queries) \cup {grabCurrentFragment(e)}
    BY <1>7, IInvFacts, BagAddFacts
<1>13. SameDeliveries(local, local') /\ BagToSet(local') \subseteq BagToSet(local)
  <2>1. m.to \notin Apps
    BY <1>1 DEF Apps
  <2> QED BY <1>1, <2>1, IInvFacts, Beside, BagRemoveFacts
<1> QED BY <1>1, <1>6, <1>7, <1>8, <1>9, <1>10, <1>11, <1>12, <1>13, ClientSends

\* A fragment is sent again, or the packet given up.
LEMMA IClientTimeoutDInv == IInv /\ DInv /\ IClientTimeout => DInv'
<1> SUFFICES ASSUME IInv, DInv, IClientTimeout PROVE DInv'
    OBVIOUS
<1>1. PICK t \in BagToSet(ackTimeouts) :
        /\ ~isTimeOutMoot(t)
        /\ \/ /\ client' = dropFragmentsToSend(client)
              /\ local' = BagAdd(local, Signal("Alice", "start"))
              /\ queries' = queries
           \/ /\ client' = incrNumAttempts(client)
              /\ queries' = BagAdd(queries, grabCurrentFragment(client))
              /\ local' = local
        /\ UNCHANGED <<app, server, responses>>
    BY DEF IClientTimeout
<1>2. isSending(client) /\ client \in Endpoint
    BY <1>1 DEF isTimeOutMoot, IInv, TypeOK
<1>3. /\ SentBy("Alice") \subseteq Packet /\ \A p \in SentBy("Alice") : p.file \in Files
      /\ SendTrue(client, server, SentBy("Alice"), HandedTo("Bob"))
    BY Bases, FlowFacts DEF Apps, DInv
<1>4. CASE /\ client' = dropFragmentsToSend(client)
           /\ local' = BagAdd(local, Signal("Alice", "start"))
           /\ queries' = queries
  <2>1. incoming(client') = incoming(client)
    BY <1>2, <1>4, Sides
  <2>2. SendTrue(client', server, SentBy("Alice"), HandedTo("Bob"))
    BY <1>2, <1>4 DEF SendTrue, isSending, dropFragmentsToSend, Endpoint
  <2>3. Signal("Alice", "start").kind # "packet"
    BY DEF Signal
  <2>4. /\ BagToSet(local') = BagToSet(local) \cup {Signal("Alice", "start")}
        /\ SameDeliveries(local, local')
    BY <1>4, <2>3, IInvFacts, BagAddFacts, Beside
  <2> QED BY <1>1, <1>4, <2>1, <2>2, <2>3, <2>4, ClientSends
<1>5. CASE /\ client' = incrNumAttempts(client)
           /\ queries' = BagAdd(queries, grabCurrentFragment(client))
           /\ local' = local
  <2>1. incoming(client') = incoming(client) /\ outgoing(client') = outgoing(client)
    BY <1>2, <1>5, Sides
  <2>2. SendTrue(client', server, SentBy("Alice"), HandedTo("Bob"))
    BY <1>3, <2>1, SameSides
  <2>3. LET f == grabCurrentFragment(client)
        IN  /\ DataTrue(f, server, SentBy("Alice"), HandedTo("Bob")) /\ ~isEmptyFile(f)
            /\ f.ackSeq = client.inSeqNo /\ f.ackFrag = client.inFragNo
    BY <1>2, <1>3, GrabTrue
  <2>4. BagToSet(queries') = BagToSet(queries) \cup {grabCurrentFragment(client)}
    BY <1>5, IInvFacts, BagAddFacts
  <2>5. SameDeliveries(local, local')
    BY <1>5 DEF SameDeliveries
  <2> QED BY <1>1, <1>5, <2>1, <2>2, <2>3, <2>4, <2>5, ClientSends
<1> QED BY <1>1, <1>4, <1>5

\* What a ping says.
LEMMA PingSays ==
    ASSUME NEW e
    PROVE  LET f == pingFragment(e)
           IN  /\ isEmptyFile(f) /\ f.seq = 0 /\ f.frag = 0
               /\ f.ackSeq = e.inSeqNo /\ f.ackFrag = e.inFragNo
BY DEF pingFragment, fragment, isEmptyFile

\* A ping is sent.
LEMMA ClientPingTimeoutDInv == IInv /\ DInv /\ ClientPingTimeout => DInv'
<1> SUFFICES ASSUME IInv, DInv, ClientPingTimeout PROVE DInv'
    OBVIOUS
<1>1. /\ queries' = BagAdd(queries, pingFragment(client))
      /\ UNCHANGED <<app, client, server, responses, local>>
    BY DEF ClientPingTimeout
<1>2. SendTrue(client', server, SentBy("Alice"), HandedTo("Bob"))
    BY <1>1, FlowFacts DEF DInv
<1>3. BagToSet(queries') = BagToSet(queries) \cup {pingFragment(client)}
    BY <1>1, IInvFacts, BagAddFacts
<1>4. DataTrue(pingFragment(client), server, SentBy("Alice"), HandedTo("Bob"))
    BY PingSays DEF DataTrue
<1>5. SameDeliveries(local, local') /\ incoming(client') = incoming(client)
    BY <1>1 DEF SameDeliveries
<1> QED BY <1>1, <1>2, <1>3, <1>4, <1>5, PingSays, ClientSends

-----------------------------------------------------------------------------
(* A message is processed *)

\* Nothing is left after the only fragment.
LEMMA LastOne ==
    ASSUME NEW fl \in Seq(Fragment), popFront(fl) = <<>>
    PROVE  ~(Len(fl) > 1)
<1> SUFFICES ASSUME Len(fl) > 1 PROVE FALSE
    OBVIOUS
<1>1. fl # <<>> /\ Len(fl) \in Nat
    OBVIOUS
<1>2. Tail(fl) = <<>>
    BY <1>1 DEF popFront
<1>3. Len(Tail(fl)) = Len(fl) - 1
    BY <1>1
<1>4. \A x : x = <<>> => Len(x) = 0
    OBVIOUS
<1>5. Len(Tail(fl)) = 0
    BY <1>2, <1>4
<1>6. \A m \in Nat : m - 1 = 0 => ~(m > 1)
    OBVIOUS
<1> QED BY <1>1, <1>3, <1>5, <1>6

\* Data and ack of f are taken: what is received is as after the data alone, what is sent
\* stays true; and if nothing is being sent any more, nothing was, or f acknowledged it.
LEMMA Processes ==
    ASSUME NEW s, WellFormed(s), NEW f \in Fragment, NEW r, NEW S, NEW H,
           S \subseteq Packet, \A p, q \in S : p.seq = q.seq => p = q,
           SendTrue(s, r, S, H), AckTrue(f.ackSeq, f.ackFrag, r, S, H)
    PROVE  LET e == processFragment(s, f)
           IN  /\ WellFormed(e) /\ incoming(e) = incoming(acceptFragment(s, f))
               /\ SendTrue(e, r, S, H)
               /\ ~isSending(e) =>
                      /\ e.outSeqNo = s.outSeqNo /\ e.outFragNo = s.outFragNo
                      /\ ~isSending(s) \/ (f.ackSeq = s.outSeqNo /\ f.ackFrag = s.outFragNo)
<1> DEFINE t == acceptFragment(s, f)
           e == processFragment(s, f)
<1>1. WellFormed(t) /\ WellFormed(e) /\ s \in Endpoint /\ t \in Endpoint
    BY acceptFragmentType, processFragmentType DEF WellFormed
<1>2. outgoing(t) = outgoing(s)
    BY <1>1, Sides
<1>3. e = IF isAckMatch(t, f) THEN moveFragmentUp(t) ELSE t
    BY DEF processFragment
<1> HIDE DEF t, e
<1>4. SendTrue(t, r, S, H)
    BY <1>2, SameSides
<1>5. /\ t.outSeqNo = s.outSeqNo /\ t.outFragNo = s.outFragNo
      /\ t.fragmentsToSend = s.fragmentsToSend
    BY <1>2 DEF outgoing
<1>6. CASE isAckMatch(t, f)
  <2>1. e = moveFragmentUp(t)
    BY <1>3, <1>6
  <2>2. incoming(e) = incoming(t)
    BY <1>1, <2>1, Sides
  <2>3. SendTrue(e, r, S, H)
    BY <1>1, <1>4, <1>6, <2>1, AckMoves
  <2>4. ASSUME ~isSending(e)
        PROVE  e.outSeqNo = s.outSeqNo /\ e.outFragNo = s.outFragNo
    <3>1. e.fragmentsToSend = popFront(t.fragmentsToSend) /\ e.outSeqNo = t.outSeqNo
          /\ e.outFragNo = IF Len(t.fragmentsToSend) > 1 THEN t.outFragNo + 1
                                                         ELSE t.outFragNo
      BY <1>1, <2>1 DEF moveFragmentUp, Endpoint
    <3>2. ~(Len(t.fragmentsToSend) > 1)
      BY <1>1, <2>4, <3>1, LastOne DEF isSending, Endpoint
    <3> QED BY <1>5, <3>1, <3>2
  <2>5. f.ackSeq = s.outSeqNo /\ f.ackFrag = s.outFragNo
    BY <1>5, <1>6 DEF isAckMatch
  <2> QED BY <1>1, <2>2, <2>3, <2>4, <2>5 DEF e, t
<1>7. CASE ~isAckMatch(t, f)
  <2>1. e = t
    BY <1>3, <1>7
  <2>2. ~isSending(e) => ~isSending(s)
    BY <1>5, <2>1 DEF isSending
  <2> QED BY <1>1, <1>4, <1>5, <2>1, <2>2 DEF e, t
<1> QED BY <1>6, <1>7

\* A packet goes up, or none; signals come and go beside it.
LEMMA HandUp ==
    ASSUME NEW a \in Apps, NEW B, IsABag(B), SameDeliveries(local, B),
           NEW c \in BOOLEAN, NEW q,
           local' = IF c THEN BagAdd(B, PacketTo(a, q)) ELSE B,
           \A b \in Apps : app'[b].rcvd = app[b].rcvd
    PROVE  /\ HandedTo(a)' = IF c THEN HandedTo(a) \cup {q} ELSE HandedTo(a)
           /\ \A b \in Apps : b # a => HandedTo(b)' = HandedTo(b)
<1>1. \A b \in Apps :
        /\ HandedTo(b) = Range(app[b].rcvd) \cup {x.pkt : x \in DeliveriesOf(b, local)}
        /\ HandedTo(b)' = Range(app'[b].rcvd) \cup {x.pkt : x \in DeliveriesOf(b, local')}
    BY DEF HandedTo, DeliveriesOf
<1>2. CASE c
  <2> DEFINE m == PacketTo(a, q)
  <2>1. m.to = a /\ m.kind = "packet" /\ m.pkt = q
    BY DEF PacketTo
  <2>2. local' = BagAdd(B, m)
    BY <1>2
  <2> HIDE DEF m
  <2>3. BagToSet(local') = BagToSet(B) \cup {m}
    BY <2>2, BagAddFacts
  <2>4. /\ DeliveriesOf(a, local') = DeliveriesOf(a, local) \cup {m}
        /\ \A b \in Apps : b # a => DeliveriesOf(b, local') = DeliveriesOf(b, local)
    BY <2>1, <2>3 DEF DeliveriesOf, SameDeliveries
  <2>5. HandedTo(a)' = HandedTo(a) \cup {q}
    BY <1>1, <2>1, <2>4
  <2>6. ASSUME NEW b \in Apps, b # a PROVE HandedTo(b)' = HandedTo(b)
    BY <1>1, <2>4, <2>6
  <2> QED BY <1>2, <2>5, <2>6
<1>3. CASE ~c
  <2>1. \A b \in Apps : DeliveriesOf(b, local') = DeliveriesOf(b, local)
    BY <1>3 DEF SameDeliveries
  <2> QED BY <1>1, <1>3, <2>1
<1> QED BY <1>2, <1>3

\* A packet is new to Alice when it is handed to her.
LEMMA ExactHanded ==
    ASSUME DownstreamExact, NEW B, IsABag(B), SameDeliveries(local, B),
           NEW q, q \in SentBy("Bob"), q \notin HandedTo("Alice"),
           local' = BagAdd(B, PacketTo("Alice", q)),
           app'["Alice"].rcvd = app["Alice"].rcvd, SentBy("Bob")' = SentBy("Bob"),
           HandedTo("Alice")' = HandedTo("Alice") \cup {q}
    PROVE  DownstreamExact'
<1> DEFINE m == PacketTo("Alice", q)
<1>1. m.to = "Alice" /\ m.kind = "packet" /\ m.pkt = q
    BY DEF PacketTo
<1>2. local' = BagAdd(B, m)
    OBVIOUS
<1> HIDE DEF m
<1>3. /\ HandedTo("Alice") \subseteq SentBy("Bob")
      /\ \A i, j \in DOMAIN app["Alice"].rcvd :
             i # j => app["Alice"].rcvd[i].seq # app["Alice"].rcvd[j].seq
      /\ \A x \in BagToSet(local) :
             x.to = "Alice" /\ x.kind = "packet" =>
                 x.pkt \notin Range(app["Alice"].rcvd) /\ local[x] = 1
    BY DEF DownstreamExact
<1>4. q \notin Range(app["Alice"].rcvd)
    BY DEF HandedTo
<1>5. \A x \in BagToSet(B) : x.to = "Alice" /\ x.kind = "packet" =>
          x \in BagToSet(local) /\ B[x] = local[x]
    BY DEF SameDeliveries, DeliveriesOf, Apps
<1>6. m \notin BagToSet(B)
    BY <1>1, <1>5 DEF HandedTo
<1>7. /\ BagToSet(local') = BagToSet(B) \cup {m} /\ local'[m] = 1
      /\ \A y \in BagToSet(B) : local'[y] = B[y]
    BY <1>2, <1>6, BagAddFacts DEF BagIn
<1>8. ASSUME NEW x \in BagToSet(local'), x.to = "Alice", x.kind = "packet"
      PROVE  x.pkt \notin Range(app["Alice"].rcvd) /\ local'[x] = 1
  <2>1. CASE x = m
    BY <1>1, <1>4, <1>7, <2>1
  <2>2. CASE x # m
    BY <1>3, <1>5, <1>7, <1>8, <2>2
  <2> QED BY <2>1, <2>2
<1> QED BY <1>3, <1>8 DEF DownstreamExact

\* A receiver that keeps the number of the last fragment completes a packet once.
LEMMA CompletesOnce ==
    ASSUME NEW r, WellFormed(r), ~r.lastFragment, NEW S, NEW H, S \subseteq Packet,
           H \subseteq S, ReceiveTrue(r, S, H), \A p, q \in S : p.seq = q.seq => p = q,
           Completed(r, H),
           NEW f \in Fragment, DataTrue(f, r, S, H),
           isEmptyFile(f) => Reached(r, f.seq, f.frag),
           NEW e \in Endpoint, incoming(e) = incoming(acceptFragment(r, f))
    PROVE  /\ e.lastFragment => LET q == makePacket(e.fragmentsReceived)
                                IN  q \in S /\ q \notin H
           /\ Completed(updateRcvAppAlice(e), Handing(e, H))
<1> DEFINE t == acceptFragment(r, f)
           r2 == updateRcvAppAlice(e)
           q == makePacket(e.fragmentsReceived)
<1>1. /\ e.inSeqNo = t.inSeqNo /\ e.inFragNo = t.inFragNo
      /\ e.fragmentsReceived = t.fragmentsReceived /\ e.lastFragment = t.lastFragment
    BY DEF incoming
<1>2. Updated(e, r2) /\ H \subseteq Packet
    BY DEF Updated
<1>3. /\ r2.inSeqNo = e.inSeqNo /\ r2.inFragNo = e.inFragNo
      /\ e.lastFragment => r2.fragmentsReceived = <<>>
      /\ ~e.lastFragment => r2 = e
    BY DEF updateRcvAppAlice, Endpoint
<1>4. e.lastFragment /\ ~GotWhole(e.inSeqNo, S, H) => q \in S /\ q.len = e.inFragNo
    BY <1>2, Receives
<1>5. /\ ~e.lastFragment => Handing(e, H) = H
      /\ e.lastFragment => Handing(e, H) = H \cup {q}
    BY DEF Handing
<1> HIDE DEF t, r2, q
<1>6. CASE Reached(r, f.seq, f.frag)
  <2>1. t = r
    BY <1>6, Ignores DEF t
  <2>2. ~e.lastFragment /\ r2 = e /\ Handing(e, H) = H
    BY <1>1, <1>3, <1>5, <2>1
  <2> QED BY <1>1, <2>1, <2>2 DEF Completed, r2
<1>7. CASE ~Reached(r, f.seq, f.frag)
  <2>1. PICK p \in S : Taken(t, f, p, r, S, H)
    BY <1>7, Takes DEF t
  <2>2. Taken(e, f, p, r, S, H)
    BY <1>1, <2>1 DEF Taken
  <2>3. /\ r.inSeqNo \in Nat /\ r.inFragNo \in Nat /\ p.seq \in Nat /\ p.len \in Nat
        /\ f.frag \in Nat /\ e.fragmentsReceived \in Seq(Fragment) /\ p \in Packet
    BY DEF WellFormed, Endpoint, Fragment, Packet
  <2>4. /\ e.inSeqNo = p.seq /\ (e.lastFragment <=> f.frag = p.len) /\ f.frag <= p.len
        /\ r.inSeqNo < p.seq \/ (r.inSeqNo = p.seq /\ r.inFragNo < f.frag)
    BY <2>2 DEF Taken, PieceOf
  <2>5. ASSUME NEW x \in H PROVE x.seq # p.seq
    <3>1. SUFFICES ASSUME x.seq = p.seq PROVE FALSE
      OBVIOUS
    <3>2. x = p /\ p.seq <= r.inSeqNo
      BY <3>1 DEF ReceiveTrue
    <3>3. r.inSeqNo = p.seq /\ r.inFragNo < f.frag
      BY <2>3, <2>4, <3>2
    <3>4. r.inFragNo = p.len
      BY <3>2, <3>3 DEF Completed
    <3> QED BY <2>3, <2>4, <3>3, <3>4
  <2>6. e.lastFragment => q.seq = p.seq /\ q \in S /\ q.len = e.inFragNo
    <3>1. ~GotWhole(e.inSeqNo, S, H)
      BY <2>4, <2>5 DEF GotWhole
    <3>2. e.lastFragment => q.seq = p.seq
      BY <2>2, <2>3, <2>4, PutTogether DEF q
    <3> QED BY <1>4, <3>1, <3>2
  <2>7. Completed(r2, Handing(e, H))
    BY <1>3, <1>5, <2>4, <2>5, <2>6 DEF Completed
  <2> QED BY <2>5, <2>6, <2>7 DEF r2, q
<1> QED BY <1>6, <1>7

\* A response: its data may complete a packet for Alice, its ack may move the client on,
\* and what the client then sends is true.
LEMMA IClientExtractFromServerDInv == IInv /\ DInv /\ IClientExtractFromServer => DInv'
<1> SUFFICES ASSUME IInv, DInv, IClientExtractFromServer PROVE DInv'
    OBVIOUS
<1>1. PICK f \in BagToSet(responses) :
        LET e == processFragment(client, f)
            pings == ~isSending(e) /\ ~isEmptyFile(f) /\ ~f.lastFrag
            nudge == AddIf(local, ~isSending(e) /\ ~pings, Signal("Alice", "start"))
        IN  /\ responses' = BagRemove(responses, f)
            /\ client' = updateRcvAppAlice(IF isSending(e) THEN incrNumAttempts(e) ELSE e)
            /\ IF isSending(e)
               THEN Transmit(e)
               ELSE queries' = AddIf(queries, pings, pingFragment(e))
            /\ local' = IF e.lastFragment
                        THEN BagAdd(nudge, PacketTo("Alice", makePacket(e.fragmentsReceived)))
                        ELSE nudge
            /\ UNCHANGED <<app, server>>
    BY DEF IClientExtractFromServer
<1> DEFINE e == processFragment(client, f)
           d == IF isSending(e) THEN incrNumAttempts(e) ELSE e
           c == updateRcvAppAlice(d)
           pings == ~isSending(e) /\ ~isEmptyFile(f) /\ ~f.lastFrag
           g == Signal("Alice", "start")
           nudge == AddIf(local, ~isSending(e) /\ ~pings, g)
           q == makePacket(e.fragmentsReceived)
           H == HandedTo("Alice")
           S == SentBy("Bob")
<1>2. /\ responses' = BagRemove(responses, f) /\ client' = c /\ UNCHANGED <<app, server>>
      /\ isSending(e) => queries' = BagAdd(queries, grabCurrentFragment(e))
      /\ ~isSending(e) => \/ queries' = queries
                          \/ queries' = BagAdd(queries, pingFragment(e))
      /\ local' = IF e.lastFragment THEN BagAdd(nudge, PacketTo("Alice", q)) ELSE nudge
    BY <1>1 DEF Transmit, AddIf
<1>3. /\ SentBy("Alice") \subseteq Packet /\ S \subseteq Packet /\ H \subseteq S
      /\ \A p \in SentBy("Alice") : p.file \in Files
      /\ \A x, y \in SentBy("Alice") : x.seq = y.seq => x = y
      /\ \A x, y \in S : x.seq = y.seq => x = y
    BY Bases DEF Apps, DInv, Once, DownstreamExact
<1>4. /\ SendTrue(client, server, SentBy("Alice"), HandedTo("Bob"))
      /\ AckTrue(f.ackSeq, f.ackFrag, server, SentBy("Alice"), HandedTo("Bob"))
      /\ ReceiveTrue(client, S, H) /\ ~client.lastFragment /\ DataTrue(f, client, S, H)
    BY FlowFacts DEF DInv
<1>5. f \in Fragment /\ WellFormed(client) /\ client \in Endpoint
    BY IInvFacts DEF IInv, WellFormed
<1>6. /\ WellFormed(e) /\ incoming(e) = incoming(acceptFragment(client, f))
      /\ SendTrue(e, server, SentBy("Alice"), HandedTo("Bob"))
    BY <1>3, <1>4, <1>5, Processes
<1>7. NotBefore(e.inSeqNo, e.inFragNo, client.inSeqNo, client.inFragNo)
    BY <1>5, processFragmentForward
<1> HIDE DEF e
<1>8. /\ d \in Endpoint /\ incoming(d) = incoming(e) /\ outgoing(d) = outgoing(e)
      /\ e \in Endpoint
    BY <1>6, Sides, incrNumAttemptsType DEF WellFormed
<1>9. /\ d.inSeqNo = e.inSeqNo /\ d.inFragNo = e.inFragNo
      /\ d.fragmentsReceived = e.fragmentsReceived /\ d.lastFragment = e.lastFragment
    BY <1>8 DEF incoming
<1> HIDE DEF d
<1>10. isEmptyFile(f) => Reached(client, f.seq, f.frag)
    BY DEF DInv, Dataless
<1>11. /\ ReceiveTrue(c, S, Handing(d, H)) /\ ~c.lastFragment
       /\ Onward(client, S, H, c, S, Handing(d, H))
       /\ AckTrue(e.inSeqNo, e.inFragNo, c, S, Handing(d, H))
  <2>1. Updated(d, c) /\ H \subseteq Packet
    BY <1>3 DEF Updated
  <2>2. incoming(d) = incoming(acceptFragment(client, f))
    BY <1>6, <1>8
  <2> HIDE DEF c, H, S
  <2> QED BY <1>3, <1>4, <1>5, <1>8, <1>9, <1>10, <2>1, <2>2, Receives
<1>12. /\ d.lastFragment => q \in S /\ q \notin H
       /\ Completed(c, Handing(d, H))
  <2>1. incoming(d) = incoming(acceptFragment(client, f)) /\ Completed(client, H)
    BY <1>6, <1>8 DEF DInv, Once
  <2>2. q = makePacket(d.fragmentsReceived)
    BY <1>9
  <2> HIDE DEF H, S, q
  <2> QED BY <1>3, <1>4, <1>5, <1>8, <1>10, <2>1, <2>2, CompletesOnce
<1>13. /\ c.inSeqNo = e.inSeqNo /\ c.inFragNo = e.inFragNo /\ outgoing(c) = outgoing(d)
    BY <1>8, <1>9, Sides DEF updateRcvAppAlice, Endpoint
<1> HIDE DEF c, q, nudge, pings
<1>14. Handing(d, H) = IF e.lastFragment THEN H \cup {q} ELSE H
    BY <1>9 DEF Handing, q
<1>15. SendTrue(c, server, SentBy("Alice"), HandedTo("Bob"))
    BY <1>6, <1>8, <1>13, SameSides
<1>16. Reached(c, e.inSeqNo, e.inFragNo)
  <2>1. e.inSeqNo \in Nat /\ e.inFragNo \in Nat
    BY <1>8 DEF Endpoint
  <2> QED BY <1>13, <2>1 DEF Reached, NotBefore
<1>17. \A n, k \in Nat : Reached(client, n, k) => Reached(c, n, k)
  <2>1. /\ e.inSeqNo \in Nat /\ e.inFragNo \in Nat
        /\ client.inSeqNo \in Nat /\ client.inFragNo \in Nat
    BY <1>5, <1>8 DEF Endpoint
  <2> QED BY <1>7, <1>13, <2>1 DEF Reached, NotBefore
<1>18. \A x \in BagToSet(queries') \ BagToSet(queries) : QueryTrue(x, c, Handing(d, H))
  <2>1. CASE isSending(e)
    <3> DEFINE x == grabCurrentFragment(e)
    <3>1. /\ DataTrue(x, server, SentBy("Alice"), HandedTo("Bob")) /\ ~isEmptyFile(x)
          /\ x.ackSeq = e.inSeqNo /\ x.ackFrag = e.inFragNo
      BY <1>3, <1>6, <1>8, <2>1, GrabTrue
    <3>2. BagToSet(queries') = BagToSet(queries) \cup {x}
      BY <1>2, <2>1, IInvFacts, BagAddFacts
    <3> HIDE DEF x, H, S
    <3> QED BY <1>11, <1>16, <3>1, <3>2 DEF QueryTrue, S
  <2>2. CASE ~isSending(e)
    <3> DEFINE x == pingFragment(e)
    <3>1. /\ isEmptyFile(x) /\ x.seq = 0 /\ x.frag = 0
          /\ x.ackSeq = e.inSeqNo /\ x.ackFrag = e.inFragNo
      BY PingSays
    <3>2. BagToSet(queries') \subseteq BagToSet(queries) \cup {x}
      BY <1>2, <2>2, IInvFacts, BagAddFacts
    <3>3. DataTrue(x, server, SentBy("Alice"), HandedTo("Bob"))
      BY <3>1 DEF DataTrue
    <3> HIDE DEF x, H, S
    <3> QED BY <1>11, <1>16, <3>1, <3>2, <3>3 DEF QueryTrue, S
  <2> QED BY <2>1, <2>2
<1>19. g.kind # "packet"
    BY DEF Signal
<1>20. /\ IsABag(nudge) /\ SameDeliveries(local, nudge)
       /\ BagToSet(nudge) \subseteq BagToSet(local) \cup {g}
    BY <1>19, IInvFacts, BagAddFacts, Beside DEF nudge, AddIf, SameDeliveries
<1>21. /\ Numbered' /\ \A a \in Apps : SentBy(a)' = SentBy(a) /\ app'[a].rcvd = app[a].rcvd
       /\ e.lastFragment \in BOOLEAN
    BY <1>2, <1>8 DEF DInv, Numbered, SentBy, Endpoint
<1>22. HandedTo("Alice")' = Handing(d, H) /\ HandedTo("Bob")' = HandedTo("Bob")
    BY <1>2, <1>14, <1>20, <1>21, HandUp DEF Apps
<1>23. Up' /\ Down' /\ Dataless'
  <2>1. BagToSet(responses') \subseteq BagToSet(responses)
    BY <1>2, IInvFacts, BagRemoveFacts
  <2>2. Numbered /\ Up /\ Down /\ Dataless
    BY DEF DInv
  <2> QED BY <1>2, <1>11, <1>15, <1>17, <1>18, <1>22, <2>1, <2>2, ClientMoves
<1>24. OnLinks'
  <2>1. \A m \in BagToSet(local') \ BagToSet(local) :
            m.kind = "packet" => m.to = "Alice"
    <3>1. BagToSet(local') \subseteq BagToSet(nudge) \cup {PacketTo("Alice", q)}
      BY <1>2, <1>20, BagAddFacts
    <3>2. PacketTo("Alice", q).to = "Alice"
      BY DEF PacketTo
    <3> HIDE DEF g
    <3> QED BY <1>19, <1>20, <3>1, <3>2
  <2>2. \A a \in Apps : EndpointOf(a) # "Alice"
    BY DEF EndpointOf
  <2> QED BY <1>21, <2>1, <2>2, OnLinksKept DEF DInv
<1>25. Once'
  <2>1. DownstreamExact'
    <3>1. CASE e.lastFragment
      BY <1>2, <1>9, <1>12, <1>14, <1>20, <1>21, <1>22, <3>1, ExactHanded
         DEF DInv, Once, Apps
    <3>2. CASE ~e.lastFragment
      BY <1>2, <1>20, <1>21, <3>2, ExactKept DEF DInv, Once, Apps
    <3> QED BY <3>1, <3>2
  <2> QED BY <1>2, <1>12, <1>22, <2>1 DEF Once
<1> QED BY <1>21, <1>23, <1>24, <1>25 DEF DInv

-----------------------------------------------------------------------------
(* The steps of the server *)

\* The server takes a packet that Bob sent it.
LEMMA IServerEmbeddingDInv == IInv /\ DInv /\ IServerEmbedding => DInv'
<1> SUFFICES ASSUME IInv, DInv, IServerEmbedding PROVE DInv'
    OBVIOUS
<1>1. PICK m \in BagToSet(local) :
        /\ m.to = "Server" /\ m.kind = "packet"
        /\ server' = handleNewPacket(server, m.pkt)
        /\ local' = BagRemove(local, m)
        /\ UNCHANGED <<app, client, queries, responses>>
    BY DEF IServerEmbedding
<1> DEFINE e == handleNewPacket(server, m.pkt)
           S == SentBy("Alice")
           H == HandedTo("Bob")
<1>2. m.pkt \in Packet /\ server \in Endpoint
    BY <1>1, IInvFacts, MsgTypes DEF IInv, TypeOK
<1>3. m.pkt \in SentBy("Bob") /\ SentBy("Bob") \subseteq Packet
  <2>1. "Bob" \in Apps /\ EndpointOf("Bob") = "Server"
    BY DEF Apps, EndpointOf
  <2> QED BY <1>1, <2>1, Bases DEF DInv, OnLinks
<1>4. SendTrue(e, client, SentBy("Bob"), HandedTo("Alice")) /\ isSending(e)
  <2>1. isSending(e)
    BY <1>2, handleNewPacketType DEF IInv
  <2> QED BY <1>2, <1>3, <2>1, NewPacketTrue
<1>5. incoming(e) = incoming(server) /\ server' = e
    BY <1>1, <1>2, Sides
<1> HIDE DEF e
<1>6. ReceiveTrue(server, S, H) /\ ~server.lastFragment
    BY FlowFacts DEF DInv
<1>7. ReceiveTrue(e, S, H) /\ Onward(server, S, H, e, S, H) /\ ~e.lastFragment
    BY <1>5, <1>6, SameSides DEF incoming
<1>8. SameDeliveries(local, local') /\ BagToSet(local') \subseteq BagToSet(local)
  <2>1. m.to \notin Apps
    BY <1>1 DEF Apps
  <2> QED BY <1>1, <2>1, IInvFacts, Beside, BagRemoveFacts
<1>9. /\ Numbered' /\ \A a \in Apps : SentBy(a)' = SentBy(a) /\ app'[a].rcvd = app[a].rcvd
    BY <1>1 DEF DInv, Numbered, SentBy
<1>10. HandedTo("Alice")' = HandedTo("Alice") /\ HandedTo("Bob")' = H
    BY <1>8, <1>9, SameHanded DEF Apps
<1>11. Up' /\ Down' /\ Dataless'
  <2>1. /\ SentBy("Alice")' = SentBy("Alice") /\ SentBy("Bob")' = SentBy("Bob")
    BY <1>9 DEF Apps
  <2>2. Numbered /\ Up /\ Down /\ Dataless
    BY DEF DInv
  <2>3. BagToSet(responses') \ BagToSet(responses) = {} /\ queries' = queries
    BY <1>1
  <2> QED BY <1>1, <1>4, <1>5, <1>7, <1>10, <2>1, <2>2, <2>3, ServerMoves
<1>12. OnLinks'
    BY <1>8, <1>9, OnLinksKept DEF DInv
<1>13. Once'
  <2>1. incoming(client') = incoming(client) /\ SentBy("Bob") \subseteq SentBy("Bob")'
    BY <1>1, <1>9 DEF Apps
  <2> QED BY <1>8, <1>9, <2>1, OnceKept DEF DInv, Apps
<1> QED BY <1>9, <1>11, <1>12, <1>13 DEF DInv

\* What Bob has sent and queued when the server takes a packet from his queue, or not.
LEMMA PullNumbered ==
    ASSUME IInv, DInv, NEW b \in App, NumberedApp(b), b.sent = app["Bob"].sent,
           b.rcvd = app["Bob"].rcvd, NEW c \in BOOLEAN, c => canSend(b),
           app' = [app EXCEPT !["Bob"] = IF c THEN sendPkt(b) ELSE b]
    PROVE  /\ Numbered' /\ SentBy("Alice")' = SentBy("Alice")
           /\ SentBy("Bob") \subseteq SentBy("Bob")'
           /\ c => Head(b.queue) \in SentBy("Bob")'
           /\ \A p \in SentBy("Bob")' : p \in Packet /\ p.file \in Files
           /\ \A a \in Apps : app'[a].rcvd = app[a].rcvd
<1> DEFINE r == IF c THEN sendPkt(b) ELSE b
<1>1. app \in [Apps -> App] /\ "Bob" \in Apps /\ "Alice" \in Apps /\ "Alice" # "Bob"
    BY DEF IInv, TypeOK, Apps
<1>2. /\ r \in App /\ NumberedApp(r) /\ r.rcvd = app["Bob"].rcvd
      /\ Range(app["Bob"].sent) \subseteq Range(r.sent)
      /\ c => Head(b.queue) \in Range(r.sent)
    BY sendNumbered, sendPktType
<1> HIDE DEF r
<1>3. app' = [app EXCEPT !["Bob"] = r]
    BY DEF r
<1>4. app'["Bob"] = r /\ \A a \in Apps : a # "Bob" => app'[a] = app[a]
    BY <1>1, <1>3
<1>5. Numbered' /\ \A a \in Apps : app'[a].rcvd = app[a].rcvd
    BY <1>2, <1>4 DEF DInv, Numbered
<1>6. SentBy("Bob")' = Range(r.sent) /\ SentBy("Alice")' = SentBy("Alice")
      /\ SentBy("Bob") = Range(app["Bob"].sent)
    BY <1>1, <1>4 DEF SentBy
<1>7. \A p \in Range(r.sent) : p \in Packet /\ p.file \in Files
    BY <1>2, SentPackets DEF NumberedApp
<1> QED BY <1>2, <1>5, <1>6, <1>7

\* What an answer says: the current fragment, or the last one's number, and the ack.
LEMMA ResponseSays ==
    ASSUME NEW e \in Endpoint, NEW r, NEW S, NEW H, S \subseteq Packet,
           \A p \in S : p.file \in Files, SendTrue(e, r, S, H),
           ~isSending(e) => Reached(r, e.outSeqNo, e.outFragNo)
    PROVE  LET f == responseFragment(e)
           IN  /\ isEmptyFile(f) => Reached(r, f.seq, f.frag)
               /\ DataTrue(f, r, S, H)
               /\ f.ackSeq = e.inSeqNo /\ f.ackFrag = e.inFragNo
<1>1. CASE isSending(e)
    BY <1>1, GrabTrue DEF responseFragment
<1>2. CASE ~isSending(e)
  <2> DEFINE f == responseFragment(e)
  <2>1. /\ isEmptyFile(f) /\ f.seq = e.outSeqNo /\ f.frag = e.outFragNo
        /\ f.ackSeq = e.inSeqNo /\ f.ackFrag = e.inFragNo
    BY <1>2 DEF responseFragment, fragment, isEmptyFile
  <2> HIDE DEF f
  <2> QED BY <1>2, <2>1 DEF DataTrue, f
<1> QED BY <1>1, <1>2

\* A query: its data may complete a packet for Bob, its ack may move the server on or let
\* it take a packet of Bob's, and what the server then answers is true.
LEMMA WnameserverReceiveQueryDInv == IInv /\ DInv /\ WnameserverReceiveQuery => DInv'
<1> SUFFICES ASSUME IInv, DInv, WnameserverReceiveQuery PROVE DInv'
    OBVIOUS
<1>1. PICK f \in BagToSet(queries) :
        LET e == processFragment(server, f)
            bob == IF isTxComplete(e) THEN markServerAppReady(app["Bob"]) ELSE app["Bob"]
            pulls == isTxComplete(e) /\ bob.numAdmittedPkts > 0 /\ canSend(bob)
            loaded == IF pulls THEN handleNewPacket(e, Head(bob.queue)) ELSE e
            next == buildServerResponse(loaded)
            done == AddIf(local, isTxComplete(next), Signal("Bob", "txDone"))
        IN  /\ queries' = BagRemove(queries, f)
            /\ responses' = BagAdd(responses, responseFragment(loaded))
            /\ server' = updateRcvApp(next)
            /\ app' = [app EXCEPT !["Bob"] = IF pulls THEN sendPkt(bob) ELSE bob]
            /\ local' = IF next.lastFragment
                        THEN BagAdd(done, PacketTo("Bob", makePacket(next.fragmentsReceived)))
                        ELSE done
            /\ UNCHANGED client
    BY DEF WnameserverReceiveQuery
<1> DEFINE e == processFragment(server, f)
           bob == IF isTxComplete(e) THEN markServerAppReady(app["Bob"]) ELSE app["Bob"]
           pulls == isTxComplete(e) /\ bob.numAdmittedPkts > 0 /\ canSend(bob)
           loaded == IF pulls THEN handleNewPacket(e, Head(bob.queue)) ELSE e
           next == buildServerResponse(loaded)
           g == Signal("Bob", "txDone")
           done == AddIf(local, isTxComplete(next), g)
           q == makePacket(next.fragmentsReceived)
           d == updateRcvApp(next)
           x == responseFragment(loaded)
           S == SentBy("Alice")
           H == HandedTo("Bob")
<1>2. /\ queries' = BagRemove(queries, f) /\ responses' = BagAdd(responses, x)
      /\ server' = d /\ UNCHANGED client
      /\ app' = [app EXCEPT !["Bob"] = IF pulls THEN sendPkt(bob) ELSE bob]
      /\ local' = IF next.lastFragment THEN BagAdd(done, PacketTo("Bob", q)) ELSE done
    BY <1>1
<1>3. /\ S \subseteq Packet /\ H \subseteq Packet /\ SentBy("Bob") \subseteq Packet
      /\ \A p, y \in S : p.seq = y.seq => p = y
      /\ \A p, y \in SentBy("Bob") : p.seq = y.seq => p = y
    BY Bases DEF Apps, DInv
<1>4. /\ SendTrue(server, client, SentBy("Bob"), HandedTo("Alice"))
      /\ AckTrue(f.ackSeq, f.ackFrag, client, SentBy("Bob"), HandedTo("Alice"))
      /\ ReceiveTrue(server, S, H) /\ ~server.lastFragment /\ DataTrue(f, server, S, H)
    BY FlowFacts DEF DInv
<1>5. f \in Fragment /\ WellFormed(server) /\ server \in Endpoint
    BY IInvFacts DEF IInv, WellFormed
<1>6. /\ WellFormed(e) /\ e \in Endpoint
      /\ incoming(e) = incoming(acceptFragment(server, f))
      /\ SendTrue(e, client, SentBy("Bob"), HandedTo("Alice"))
      /\ ~isSending(e) =>
             /\ e.outSeqNo = server.outSeqNo /\ e.outFragNo = server.outFragNo
             /\ ~isSending(server)
                    \/ (f.ackSeq = server.outSeqNo /\ f.ackFrag = server.outFragNo)
    BY <1>3, <1>4, <1>5, Processes DEF WellFormed
<1>7. ~isSending(e) => Reached(client, e.outSeqNo, e.outFragNo)
  <2>1. /\ ~isSending(server) => Reached(client, server.outSeqNo, server.outFragNo)
        /\ Reached(client, f.ackSeq, f.ackFrag)
    BY DEF DInv, Dataless
  <2> QED BY <1>6, <2>1
<1> HIDE DEF e
<1>8. /\ bob \in App /\ NumberedApp(bob)
      /\ bob.sent = app["Bob"].sent /\ bob.rcvd = app["Bob"].rcvd
  <2> DEFINE b == [app["Bob"] EXCEPT !.iodineReady = TRUE]
  <2>1. app["Bob"] \in App /\ NumberedApp(app["Bob"])
    BY IInvFacts DEF Apps, DInv, Numbered
  <2>2. b \in App
    BY <2>1, SetAppAttribute
  <2>3. /\ b.sent = app["Bob"].sent /\ b.rcvd = app["Bob"].rcvd
        /\ b.queue = app["Bob"].queue /\ b.packetCounter = app["Bob"].packetCounter
    BY <2>1 DEF App
  <2>4. bob = app["Bob"] \/ bob = b
    BY DEF markServerAppReady
  <2> HIDE DEF b, bob
  <2>5. NumberedApp(b)
    BY <2>1, <2>3, SameNumbers
  <2> QED BY <2>1, <2>2, <2>3, <2>4, <2>5
<1> HIDE DEF bob
<1>9. pulls \in BOOLEAN /\ (pulls => canSend(bob))
    OBVIOUS
<1> HIDE DEF pulls
<1> DEFINE T == SentBy("Bob")'
<1>10. /\ Numbered' /\ SentBy("Alice")' = S /\ SentBy("Bob") \subseteq T
       /\ pulls => Head(bob.queue) \in T
       /\ \A p \in T : p \in Packet /\ p.file \in Files
       /\ \A a \in Apps : app'[a].rcvd = app[a].rcvd
    BY <1>2, <1>8, <1>9, PullNumbered
<1> HIDE DEF T
<1>11. /\ WellFormed(loaded) /\ loaded \in Endpoint /\ incoming(loaded) = incoming(e)
       /\ SendTrue(loaded, client, T, HandedTo("Alice"))
       /\ ~isSending(loaded) => Reached(client, loaded.outSeqNo, loaded.outFragNo)
  <2>1. CASE pulls
    <3> DEFINE p == Head(bob.queue)
    <3>1. p \in T /\ p \in Packet
      BY <1>10, <2>1
    <3>2. loaded = handleNewPacket(e, p)
      BY <2>1
    <3> HIDE DEF p, loaded
    <3>3. WellFormed(loaded) /\ isSending(loaded) /\ incoming(loaded) = incoming(e)
      BY <1>6, <3>1, <3>2, handleNewPacketType, Sides
    <3>4. SendTrue(loaded, client, T, HandedTo("Alice"))
      BY <1>6, <1>10, <3>1, <3>2, NewPacketTrue
    <3> QED BY <3>3, <3>4 DEF WellFormed
  <2>2. CASE ~pulls
    <3>1. loaded = e
      BY <2>2
    <3>2. Onward(client, SentBy("Bob"), HandedTo("Alice"), client, T, HandedTo("Alice"))
      BY <1>10, MoreSent
    <3>3. SendTrue(e, client, T, HandedTo("Alice"))
      BY <1>3, <1>6, <3>2, StaysTrue
    <3> QED BY <1>6, <1>7, <3>1, <3>3
  <2> QED BY <2>1, <2>2
<1>12. /\ DataTrue(x, client, T, HandedTo("Alice"))
       /\ isEmptyFile(x) => Reached(client, x.seq, x.frag)
       /\ x.ackSeq = loaded.inSeqNo /\ x.ackFrag = loaded.inFragNo
  <2>1. T \subseteq Packet /\ \A p \in T : p.file \in Files
    BY <1>10
  <2> HIDE DEF loaded
  <2> QED BY <1>11, <2>1, ResponseSays
<1> HIDE DEF loaded, x
<1>13. /\ next \in Endpoint /\ incoming(next) = incoming(loaded)
       /\ outgoing(next) = outgoing(loaded)
    BY <1>11, Sides, incrNumAttemptsType DEF buildServerResponse, WellFormed
<1>14. next.inSeqNo = loaded.inSeqNo /\ next.inFragNo = loaded.inFragNo
    BY <1>13 DEF incoming
<1> HIDE DEF next
<1>15. /\ ReceiveTrue(d, S, Handing(next, H)) /\ ~d.lastFragment
       /\ Onward(server, S, H, d, S, Handing(next, H))
       /\ AckTrue(x.ackSeq, x.ackFrag, d, S, Handing(next, H))
  <2>1. Updated(next, d)
    BY DEF Updated
  <2>2. incoming(next) = incoming(acceptFragment(server, f))
    BY <1>6, <1>11, <1>13
  <2>3. isEmptyFile(f) => Reached(server, f.seq, f.frag)
    <3>1. isEmptyFile(f) => f.seq = 0 /\ f.frag = 0
      BY DEF DInv, Dataless
    <3>2. server.inSeqNo \in Nat /\ server.inFragNo \in Nat
      BY <1>5 DEF Endpoint
    <3>3. \A n, k \in Nat : n > 0 \/ (n = 0 /\ k >= 0)
      OBVIOUS
    <3> QED BY <3>1, <3>2, <3>3 DEF Reached, NotBefore
  <2> HIDE DEF d, H, S
  <2> QED BY <1>3, <1>4, <1>5, <1>12, <1>13, <1>14, <2>1, <2>2, <2>3, Receives
<1>16. outgoing(d) = outgoing(loaded)
    BY <1>13, Sides
<1> HIDE DEF d, q, done
<1>17. /\ SendTrue(d, client, T, HandedTo("Alice"))
       /\ ~isSending(d) => Reached(client, d.outSeqNo, d.outFragNo)
  <2>1. /\ d.outSeqNo = loaded.outSeqNo /\ d.outFragNo = loaded.outFragNo
        /\ isSending(d) <=> isSending(loaded)
    BY <1>16 DEF outgoing, isSending
  <2> QED BY <1>11, <1>16, <2>1, SameSides
<1>18. g.kind # "packet"
    BY DEF Signal
<1>19. /\ IsABag(done) /\ SameDeliveries(local, done)
       /\ BagToSet(done) \subseteq BagToSet(local) \cup {g}
    BY <1>18, IInvFacts, BagAddFacts, Beside DEF done, AddIf, SameDeliveries
<1>20. next.lastFragment \in BOOLEAN
    BY <1>13 DEF Endpoint
<1>21. HandedTo("Bob")' = Handing(next, H) /\ HandedTo("Alice")' = HandedTo("Alice")
    BY <1>2, <1>10, <1>19, <1>20, HandUp DEF Apps, Handing, q
<1>22. Up' /\ Down' /\ Dataless'
  <2>1. BagToSet(queries') \subseteq BagToSet(queries)
    BY <1>2, IInvFacts, BagRemoveFacts
  <2>2. Numbered /\ Up /\ Down /\ Dataless
    BY DEF DInv
  <2>3. BagToSet(responses') = BagToSet(responses) \cup {x}
    BY <1>2, IInvFacts, BagAddFacts
  <2>4. \A y \in BagToSet(responses') \ BagToSet(responses) :
            ResponseTrue(y, d, S, T, Handing(next, H))
    BY <1>12, <1>15, <2>3 DEF ResponseTrue
  <2>5. T = SentBy("Bob")'
    BY DEF T
  <2> QED BY <1>2, <1>10, <1>15, <1>17, <1>21, <2>1, <2>2, <2>4, <2>5, ServerMoves
<1>23. OnLinks'
  <2>1. \A m \in BagToSet(local') \ BagToSet(local) : m.kind = "packet" => m.to = "Bob"
    <3>1. BagToSet(local') \subseteq BagToSet(done) \cup {PacketTo("Bob", q)}
      BY <1>2, <1>19, BagAddFacts
    <3>2. PacketTo("Bob", q).to = "Bob"
      BY DEF PacketTo
    <3> HIDE DEF g
    <3> QED BY <1>18, <1>19, <3>1, <3>2
  <2>2. \A a \in Apps : EndpointOf(a) # "Bob"
    BY DEF EndpointOf
  <2>3. \A a \in Apps : SentBy(a) \subseteq SentBy(a)'
    BY <1>10 DEF Apps, T
  <2> QED BY <2>1, <2>2, <2>3, OnLinksKept DEF DInv
<1>24. Once'
  <2>1. DownstreamExact'
    <3>1. CASE next.lastFragment
      <4>1. BagToSet(local') = BagToSet(done) \cup {PacketTo("Bob", q)}
            /\ \A y \in BagToSet(done) \ {PacketTo("Bob", q)} : local'[y] = done[y]
        BY <1>2, <1>19, <3>1, BagAddFacts
      <4>2. PacketTo("Bob", q).to # "Alice"
        BY DEF PacketTo
      <4>3. \A m \in BagToSet(local') : m.to = "Alice" /\ m.kind = "packet" =>
                m \in BagToSet(local) /\ local'[m] = local[m]
        BY <1>19, <4>1, <4>2 DEF SameDeliveries, DeliveriesOf, Apps
      <4> QED BY <1>10, <1>21, <4>3 DEF DInv, Once, DownstreamExact, T, Apps
    <3>2. CASE ~next.lastFragment
      BY <1>2, <1>10, <1>19, <3>2, ExactKept DEF DInv, Once, Apps, T
    <3> QED BY <3>1, <3>2
  <2> QED BY <1>2, <1>21, <2>1 DEF DInv, Once, Completed
<1> QED BY <1>10, <1>22, <1>23, <1>24 DEF DInv

-----------------------------------------------------------------------------
(* The theorems *)

\* The invariant holds at the start: nothing was sent.
LEMMA InitDInv == Init => DInv
<1> SUFFICES ASSUME Init PROVE DInv
    OBVIOUS
<1>1. \A a \in Apps : app[a].queue = <<>> /\ app[a].sent = <<>> /\ app[a].rcvd = <<>>
    BY DEF Init, makeApp
<1>2. \A m \in BagToSet(local) : m.kind # "packet"
  <2> DEFINE B == {Signal(a, "start") : a \in {b \in Apps : OwnFile[b] # NoFile}}
  <2>1. \A m \in B : m.kind # "packet"
    BY DEF Signal
  <2>2. local = SetToBag(B)
    BY DEF Init
  <2> HIDE DEF B
  <2> QED BY <2>1, <2>2, SetToBagFacts
<1>3. \A a \in Apps : SentBy(a) = {} /\ HandedTo(a) = {}
    BY <1>1, <1>2 DEF SentBy, HandedTo, Range
<1>4. BagToSet(queries) = {} /\ BagToSet(responses) = {}
    BY EmptyBagFacts DEF Init
<1>5. \A e \in {client, server} :
        /\ e.fragmentsToSend = <<>> /\ e.fragmentsReceived = <<>>
        /\ e.inSeqNo = 0 /\ e.inFragNo = 0 /\ ~e.lastFragment
        /\ e.outSeqNo = 0 /\ e.outFragNo = 0
    BY DEF Init, makeEndpoint
<1>6. Numbered
  <2>1. ASSUME NEW a \in Apps PROVE NumberedApp(app[a])
    <3>1. app[a].queue = <<>> /\ Range(app[a].sent) = {}
      BY <1>1, <1>3 DEF SentBy
    <3>2. \A q : q = <<>> => \A i \in 1..Len(q) : FALSE
      OBVIOUS
    <3> QED BY <3>1, <3>2 DEF NumberedApp
  <2> QED BY <2>1 DEF Numbered
<1>7. \A e \in {client, server} : \A r, S :
          SendTrue(e, r, S, {}) /\ ReceiveTrue(e, S, {})
    BY <1>5 DEF SendTrue, ReceiveTrue, isSending
<1>8. Up /\ Down
    BY <1>3, <1>4, <1>5, <1>7 DEF Up, Down, Flow, Apps
<1>9. OnLinks
    BY <1>2 DEF OnLinks
<1>10. Dataless
    BY <1>4, <1>5 DEF Dataless, Reached, NotBefore
<1>11. Once
    BY <1>1, <1>2, <1>3 DEF Once, DownstreamExact, Completed, Apps
<1> QED BY <1>6, <1>8, <1>9, <1>10, <1>11 DEF DInv

\* Every step preserves the invariant.
LEMMA NextDInv == IInv /\ DInv /\ [Next]_vars => DInv'
<1> SUFFICES ASSUME IInv, DInv, [Next]_vars PROVE DInv'
    OBVIOUS
<1>1. CASE AppNext
    BY <1>1, AppHandleFileDInv, AppPktTimeoutDInv, SendAppSendPacketDInv,
       SendAppRcvPacketDInv, ReceiveAppSendPacketDInv, ReceiveAppTxDoneDInv,
       ReceiveAppRcvPacketDInv DEF AppNext
<1>2. CASE ClientNext
    BY <1>2, IClientEmbeddingDInv, IClientExtractFromServerDInv, ClientPingTimeoutDInv,
       IClientTimeoutDInv, QuietSteps DEF ClientNext
<1>3. CASE ServerNext
    BY <1>3, IServerEmbeddingDInv, WnameserverReceiveQueryDInv, QuietSteps DEF ServerNext
<1>4. CASE NetworkNext
    BY <1>4, QuietSteps DEF NetworkNext
<1>5. CASE UNCHANGED vars
  <2>1. SameDeliveries(local, local')
    BY <1>5 DEF vars, SameDeliveries
  <2> QED BY <1>5, <2>1, Quiet DEF vars
<1> QED BY <1>1, <1>2, <1>3, <1>4, <1>5 DEF Next

\* The invariant holds of every reachable state.
LEMMA Delivery == Spec => [](IInv /\ DInv)
<1>1. Init => IInv /\ DInv
    BY InitIInv, InitDInv
<1>2. IInv /\ DInv /\ [Next]_vars => IInv' /\ DInv'
    BY NextIInv, NextDInv
<1> QED BY <1>1, <1>2, PTL DEF Spec

\* An ack that would end a packet has been earned.
LEMMA AckEarned ==
    ASSUME NEW s \in Endpoint, NEW r, NEW S, NEW H, S \subseteq Packet,
           \A p, q \in S : p.seq = q.seq => p = q, SendTrue(s, r, S, H),
           NEW A, A \subseteq Fragment, \A g \in A : AckTrue(g.ackSeq, g.ackFrag, r, S, H)
    PROVE  \A g \in A : Len(s.fragmentsToSend) = 1 /\ isAckMatch(s, g) =>
               \E p \in H : p.seq = s.outSeqNo /\ p \in S
<1> SUFFICES ASSUME NEW g \in A, Len(s.fragmentsToSend) = 1, isAckMatch(s, g)
             PROVE  \E p \in H : p.seq = s.outSeqNo /\ p \in S
    OBVIOUS
<1>1. g \in Fragment /\ AckTrue(g.ackSeq, g.ackFrag, r, S, H)
    OBVIOUS
<1> QED BY <1>1, AckMoves DEF GotWhole

\* Upstream acks are true: when a response would complete the client's packet, Bob has
\* been handed that packet whole, however many queries were lost, repeated or overtaken.
THEOREM AcksAreTrue == Spec => []AckMeansDelivered
<1>1. IInv /\ DInv => AckMeansDelivered
  <2> SUFFICES ASSUME IInv, DInv PROVE AckMeansDelivered
    OBVIOUS
  <2>1. /\ client \in Endpoint /\ SentBy("Alice") \subseteq Packet
        /\ \A p, q \in SentBy("Alice") : p.seq = q.seq => p = q
        /\ BagToSet(responses) \subseteq Fragment
    BY Bases, IInvFacts DEF IInv, TypeOK, DInv, Apps
  <2> QED BY <2>1, AckEarned, FlowFacts DEF DInv, AckMeansDelivered
<1> QED BY <1>1, Delivery, PTL

\* Downstream acks are true: when a query would complete the server's packet, Alice has
\* been handed that packet.
THEOREM DownAcksAreTrue == Spec => []DownAckMeansDelivered
<1>1. IInv /\ DInv => DownAckMeansDelivered
  <2> SUFFICES ASSUME IInv, DInv PROVE DownAckMeansDelivered
    OBVIOUS
  <2>1. /\ server \in Endpoint /\ SentBy("Bob") \subseteq Packet
        /\ \A p, q \in SentBy("Bob") : p.seq = q.seq => p = q
        /\ BagToSet(queries) \subseteq Fragment
    BY Bases, IInvFacts DEF IInv, TypeOK, DInv, Apps
  <2> QED BY <2>1, AckEarned, FlowFacts DEF DInv, DownAckMeansDelivered
<1> QED BY <1>1, Delivery, PTL

\* A packet number that reaches Bob has reached him whole.
THEOREM WholeUpstream == Spec => []UpstreamWhole
<1>1. IInv /\ DInv => UpstreamWhole
    BY FlowFacts DEF DInv, ReceiveTrue, GotWhole, UpstreamWhole
<1> QED BY <1>1, Delivery, PTL

\* Alice is handed packets that Bob sent, whole, and each at most once.
THEOREM ExactDownstream == Spec => []DownstreamExact
<1>1. DInv => DownstreamExact
    BY DEF DInv, Once
<1> QED BY <1>1, Delivery, PTL

\* A prefix of a packet has no hole.
LEMMA PrefixConsecutive ==
    ASSUME NEW r \in Endpoint, NEW p, Prefix(r.fragmentsReceived, r.inFragNo, p)
    PROVE  Consecutive(r.fragmentsReceived)
<1> DEFINE fl == r.fragmentsReceived
<1>1. r.inFragNo \in Nat /\ Len(fl) = r.inFragNo
    BY DEF Endpoint, Prefix
<1>2. \A j \in 1..Len(fl) : fl[j].frag = j
    BY <1>1 DEF Prefix
<1> HIDE DEF fl
<1>3. ASSUME NEW i \in 1..(Len(fl) - 1) PROVE fl[i + 1].frag = fl[i].frag + 1
  <2>1. i \in 1..Len(fl) /\ i + 1 \in 1..Len(fl)
    BY <1>1
  <2> QED BY <1>2, <2>1
<1> QED BY <1>3 DEF Consecutive, fl

\* What is being put together for the first time never has a hole: no fragment two or
\* more past the last one arrives, although both endpoints would take it.
THEOREM Gapless == Spec => []NoGap
<1>1. IInv /\ DInv => NoGap
  <2> SUFFICES ASSUME IInv, DInv PROVE NoGap
    OBVIOUS
  <2>1. client \in Endpoint /\ server \in Endpoint
    BY DEF IInv, TypeOK
  <2>2. \A fl : fl = <<>> => Consecutive(fl)
    BY DEF Consecutive
  <2>3. Consecutive(server.fragmentsReceived)
            \/ GotWhole(server.inSeqNo, SentBy("Alice"), HandedTo("Bob"))
    BY <2>1, <2>2, FlowFacts, PrefixConsecutive DEF DInv, ReceiveTrue
  <2>4. Consecutive(client.fragmentsReceived)
    <3>1. CASE GotWhole(client.inSeqNo, SentBy("Bob"), HandedTo("Alice"))
      BY <2>2, <3>1 DEF GotWhole, DInv, Once, Completed
    <3>2. CASE ~GotWhole(client.inSeqNo, SentBy("Bob"), HandedTo("Alice"))
      BY <2>1, <2>2, <3>2, FlowFacts, PrefixConsecutive DEF DInv, ReceiveTrue
    <3> QED BY <3>1, <3>2
  <2> QED BY <2>3, <2>4 DEF NoGap, GotWhole
<1> QED BY <1>1, Delivery, PTL

-----------------------------------------------------------------------------
(***************************************************************************)
(* What the endpoints know of each other is never more than what was sent. *)
(* An application numbers its packets in order, its link brings them in    *)
(* order, and a sender goes on from number to number: so it stays ahead of *)
(* what its peer has received and of every fragment on its way.  Bob's     *)
(* packets go to the server one at a time, which is proved; at the client  *)
(* two of Alice's packets may wait, and it takes either, so the theorem    *)
(* about it has the hypothesis that no two wait.                           *)
(***************************************************************************)

(* Packets, and senders that stay ahead *)

\* The bags B and C hold the same packets for x.
SamePackets(B, C, x) ==
    /\ DeliveriesOf(x, C) = DeliveriesOf(x, B)
    /\ \A m \in DeliveriesOf(x, B) : C[m] = B[m]

\* No two packets are on their way to x.
Single(B, x) == \A m, n \in DeliveriesOf(x, B) : m = n

\* A packet on its way to x is the latest of S, the packets its application has sent,
\* and later than the one that endpoint e is sending or has sent.
Latest(B, x, S) == \A m \in DeliveriesOf(x, B) : B[m] = 1 /\ \A p \in S : p.seq <= m.pkt.seq

Older(e, B, x, S) ==
    \/ e.outSeqNo = 0 /\ e.outFragNo = 0
    \/ /\ \E p \in S : p.seq = e.outSeqNo
       /\ \A m \in DeliveriesOf(x, B) : e.outSeqNo < m.pkt.seq

\* Sender s is not behind what r has received, nor behind any fragment in D.
Ahead(s, r, D) ==
    /\ NotBefore(s.outSeqNo, s.outFragNo, r.inSeqNo, r.inFragNo)
    /\ \A f \in D : NotBefore(s.outSeqNo, s.outFragNo, f.seq, f.frag)

\* From r to r2 at most one fragment of D is taken, and perhaps its number forgotten.
Receiving(r, r2, D) ==
    \/ r2.inSeqNo = r.inSeqNo /\ r2.inFragNo \in {r.inFragNo, 0}
    \/ \E f \in D : r2.inSeqNo = f.seq /\ r2.inFragNo \in {f.frag, 0}

\* What joins D repeats the number of s, or is a ping.
Repeating(s, D, D2) ==
    \A f \in D2 \ D : \/ f.seq = s.outSeqNo /\ f.frag = s.outFragNo
                      \/ f.seq = 0 /\ f.frag = 0

\* A sender that goes forward stays ahead.
LEMMA StaysAhead ==
    ASSUME NEW s \in Endpoint, NEW s2 \in Endpoint, NEW r \in Endpoint, NEW r2 \in Endpoint,
           NEW D, D \subseteq Fragment, NEW D2, D2 \subseteq Fragment, Ahead(s, r, D),
           NotBefore(s2.outSeqNo, s2.outFragNo, s.outSeqNo, s.outFragNo),
           Receiving(r, r2, D), Repeating(s2, D, D2)
    PROVE  Ahead(s2, r2, D2)
<1>1. /\ s.outSeqNo \in Nat /\ s.outFragNo \in Nat
      /\ s2.outSeqNo \in Nat /\ s2.outFragNo \in Nat
      /\ r.inSeqNo \in Nat /\ r.inFragNo \in Nat /\ r2.inSeqNo \in Nat /\ r2.inFragNo \in Nat
      /\ \A f \in D \cup D2 : f.seq \in Nat /\ f.frag \in Nat
    BY DEF Endpoint, Fragment
<1>2. \A a, b, c, d, m, n \in Nat :
          NotBefore(a, b, c, d) /\ NotBefore(c, d, m, n)
              => NotBefore(a, b, m, n) /\ NotBefore(a, b, m, 0)
    BY DEF NotBefore
<1>3. \A a, b \in Nat : NotBefore(a, b, a, b) /\ NotBefore(a, b, 0, 0)
    BY DEF NotBefore
<1>4. /\ NotBefore(s2.outSeqNo, s2.outFragNo, r.inSeqNo, r.inFragNo)
      /\ NotBefore(s2.outSeqNo, s2.outFragNo, r.inSeqNo, 0)
    BY <1>1, <1>2 DEF Ahead
<1>5. \A f \in D : /\ NotBefore(s2.outSeqNo, s2.outFragNo, f.seq, f.frag)
                   /\ NotBefore(s2.outSeqNo, s2.outFragNo, f.seq, 0)
    BY <1>1, <1>2 DEF Ahead
<1>6. NotBefore(s2.outSeqNo, s2.outFragNo, r2.inSeqNo, r2.inFragNo)
  <2>1. CASE r2.inSeqNo = r.inSeqNo /\ r2.inFragNo \in {r.inFragNo, 0}
    BY <1>4, <2>1
  <2>2. CASE \E f \in D : r2.inSeqNo = f.seq /\ r2.inFragNo \in {f.frag, 0}
    BY <1>5, <2>2
  <2> QED BY <2>1, <2>2 DEF Receiving
<1>7. \A f \in D2 \ D : NotBefore(s2.outSeqNo, s2.outFragNo, f.seq, f.frag)
    BY <1>1, <1>3 DEF Repeating
<1> QED BY <1>5, <1>6, <1>7 DEF Ahead

\* A message moves the sending side on, and the receiving side to the message's number.
LEMMA ProcessesOn ==
    ASSUME NEW e, WellFormed(e), NEW f \in Fragment
    PROVE  LET d == processFragment(e, f)
           IN  /\ NotBefore(d.outSeqNo, d.outFragNo, e.outSeqNo, e.outFragNo)
               /\ d.outSeqNo = e.outSeqNo /\ (~isSending(e) => d.outFragNo = e.outFragNo)
               /\ Receiving(e, d, {f})
<1> DEFINE a == acceptFragment(e, f)
           d == processFragment(e, f)
           u == moveFragmentUp(a)
<1>1. e \in Endpoint /\ a \in Endpoint /\ outgoing(a) = outgoing(e)
    BY acceptFragmentType, Sides DEF WellFormed
<1>2. lastReceived(a) = lastReceived(e) \/ lastReceived(a) = <<f.seq, f.frag>>
  <2>1. CASE f.seq > e.inSeqNo
    BY <1>1, <2>1 DEF acceptFragment, flushFragmentsReceived, lastReceived, Endpoint
  <2>2. CASE ~(f.seq > e.inSeqNo) /\ f.seq = e.inSeqNo /\ f.frag > e.inFragNo
    <3>1. a.inSeqNo = e.inSeqNo /\ a.inFragNo = f.frag
      BY <1>1, <2>2 DEF acceptFragment, Endpoint
    <3> HIDE DEF a
    <3> QED BY <2>2, <3>1 DEF lastReceived
  <2>3. CASE ~(f.seq > e.inSeqNo) /\ ~(f.seq = e.inSeqNo /\ f.frag > e.inFragNo)
    BY <2>3 DEF acceptFragment
  <2> QED BY <2>1, <2>2, <2>3
<1>3. d = a \/ d = u
    BY DEF processFragment
<1> HIDE DEF a, d
<1>4. lastReceived(u) = lastReceived(a)
    BY <1>1, SendingKeepsReceived
<1>5. /\ u.outSeqNo = a.outSeqNo
      /\ u.outFragNo = IF Len(a.fragmentsToSend) > 1 THEN a.outFragNo + 1 ELSE a.outFragNo
    BY <1>1 DEF moveFragmentUp, Endpoint
<1> HIDE DEF u
<1>6. /\ a.outSeqNo = e.outSeqNo /\ a.outFragNo = e.outFragNo
      /\ a.fragmentsToSend = e.fragmentsToSend
    BY <1>1 DEF outgoing
<1>7. e.outSeqNo \in Nat /\ e.outFragNo \in Nat
    BY <1>1 DEF Endpoint
<1>8. \A fl : fl = <<>> => ~(Len(fl) > 1)
    OBVIOUS
<1>9. /\ d.outSeqNo = e.outSeqNo /\ (d.outFragNo = e.outFragNo \/ d.outFragNo = e.outFragNo + 1)
      /\ ~isSending(e) => d.outFragNo = e.outFragNo
    BY <1>3, <1>5, <1>6, <1>8 DEF isSending
<1>10. NotBefore(d.outSeqNo, d.outFragNo, e.outSeqNo, e.outFragNo)
    BY <1>7, <1>9 DEF NotBefore
<1>11. lastReceived(d) = lastReceived(e) \/ lastReceived(d) = <<f.seq, f.frag>>
    BY <1>2, <1>3, <1>4
<1>12. Receiving(e, d, {f})
    BY <1>11 DEF Receiving, lastReceived
<1> QED BY <1>9, <1>10, <1>12 DEF d

-----------------------------------------------------------------------------
(* Packets on their way to an endpoint *)

\* Everything but a packet to x comes and goes beside the packets to x.
LEMMA BesidePackets ==
    ASSUME NEW B, IsABag(B), NEW x, NEW m, ~(m.kind = "packet" /\ m.to = x)
    PROVE  /\ SamePackets(B, BagAdd(B, m), x)
           /\ m \in BagToSet(B) => SamePackets(B, BagRemove(B, m), x)
           /\ \A c : SamePackets(B, AddIf(B, c, m), x)
<1>1. SamePackets(B, BagAdd(B, m), x)
  <2>1. /\ BagToSet(BagAdd(B, m)) = BagToSet(B) \cup {m}
        /\ \A y \in BagToSet(B) \ {m} : BagAdd(B, m)[y] = B[y]
    BY BagAddFacts
  <2> QED BY <2>1 DEF SamePackets, DeliveriesOf
<1>2. ASSUME m \in BagToSet(B) PROVE SamePackets(B, BagRemove(B, m), x)
  <2>1. /\ \/ BagToSet(BagRemove(B, m)) = BagToSet(B) \ {m}
           \/ BagToSet(BagRemove(B, m)) = BagToSet(B)
        /\ \A y \in BagToSet(B) \ {m} : BagRemove(B, m)[y] = B[y]
    BY <1>2, BagRemoveFacts
  <2> QED BY <2>1 DEF SamePackets, DeliveriesOf
<1>3. SamePackets(B, B, x)
    BY DEF SamePackets
<1> QED BY <1>1, <1>2, <1>3 DEF AddIf

\* One after the other.
LEMMA BesideBoth ==
    ASSUME NEW B, NEW C, NEW D, NEW x, SamePackets(B, C, x), SamePackets(C, D, x)
    PROVE  SamePackets(B, D, x)
BY DEF SamePackets

\* While the packets are the same, and the endpoint sends the same one, they stay in order.
LEMMA OrderKept ==
    ASSUME NEW B, NEW C, NEW x, SamePackets(B, C, x), NEW S, Latest(B, x, S),
           NEW e, Older(e, B, x, S), NEW d, d.outSeqNo = e.outSeqNo,
           e.outFragNo = 0 => d.outFragNo = 0
    PROVE  Latest(C, x, S) /\ Older(d, C, x, S)
BY DEF Latest, Older, SamePackets

\* The only packet on its way is taken out.
LEMMA LastTaken ==
    ASSUME NEW B, IsABag(B), NEW x, NEW S, Latest(B, x, S), Single(B, x),
           NEW m \in DeliveriesOf(x, B)
    PROVE  DeliveriesOf(x, BagRemove(B, m)) = {}
<1>1. m \in BagToSet(B) /\ B[m] = 1
    BY DEF DeliveriesOf, Latest
<1>2. BagToSet(BagRemove(B, m)) = BagToSet(B) \ {m}
    BY <1>1, BagRemoveFacts
<1> QED BY <1>2 DEF DeliveriesOf, Single

\* The head of a queue is later than everything sent.
LEMMA HeadIsLater ==
    ASSUME NEW a \in App, canSend(a), NumberedApp(a)
    PROVE  Head(a.queue) \in Packet /\ \A p \in Range(a.sent) : p.seq < Head(a.queue).seq
<1> DEFINE q == a.queue
           h == Head(q)
           n == Len(q)
           c == a.packetCounter
<1>1. q \in Seq(Packet) /\ q # <<>> /\ c \in Nat
    BY DEF canSend, App
<1>2. h = q[1] /\ h \in Packet /\ n \in Nat /\ 1 \in 1..n
    BY <1>1
<1>3. h.seq + n + 1 = c + 1 /\ \A p \in Range(a.sent) : p.seq + n < c
    BY <1>2 DEF NumberedApp
<1>4. h.seq \in Nat /\ \A p \in Range(a.sent) : p.seq \in Nat
    BY <1>2, SentPackets DEF Packet
<1> HIDE DEF h, n, c, q
<1>5. \A x, y \in Nat : x + n + 1 = c + 1 /\ y + n < c => y < x
    BY <1>1, <1>2
<1> QED BY <1>2, <1>3, <1>4, <1>5 DEF h, q

\* A packet leaves for x, the only one then on its way.
LEMMA PacketLeaves ==
    ASSUME NEW B, IsABag(B), NEW x, NEW h, NEW S, \A p \in S : p.seq < h.seq /\ p.seq \in Nat,
           h.seq \in Nat, \A m \in DeliveriesOf(x, B) : m.pkt \in S,
           Single(BagAdd(B, PacketTo(x, h)), x), NEW e, Older(e, B, x, S)
    PROVE  LET C == BagAdd(B, PacketTo(x, h))
           IN  Latest(C, x, S \cup {h}) /\ Older(e, C, x, S \cup {h})
<1> DEFINE m == PacketTo(x, h)
           C == BagAdd(B, m)
<1>1. m.to = x /\ m.kind = "packet" /\ m.pkt = h
    BY DEF PacketTo
<1> HIDE DEF m
<1>2. h \notin S
  <2>1. ASSUME h \in S PROVE FALSE
    BY <2>1
  <2> QED BY <2>1
<1>3. m \notin BagToSet(B)
    BY <1>1, <1>2 DEF DeliveriesOf
<1>4. BagToSet(C) = BagToSet(B) \cup {m} /\ C[m] = 1
    BY <1>3, BagAddFacts DEF BagIn
<1> HIDE DEF C
<1>5. DeliveriesOf(x, C) = {m}
  <2>1. m \in DeliveriesOf(x, C)
    BY <1>1, <1>4 DEF DeliveriesOf
  <2>2. Single(C, x)
    BY DEF C, m
  <2> QED BY <2>1, <2>2 DEF Single
<1>6. Latest(C, x, S \cup {h})
  <2>1. \A p \in S \cup {h} : p.seq <= h.seq
    BY \A u, v \in Nat : (u < v => u <= v) /\ u <= u
  <2> QED BY <1>1, <1>4, <1>5, <2>1 DEF Latest
<1>7. Older(e, C, x, S \cup {h})
    BY <1>1, <1>5 DEF Older
<1> QED BY <1>6, <1>7 DEF C, m

\* The endpoint takes the packet: it goes on to a later one.
LEMMA Embeds ==
    ASSUME NEW B, IsABag(B), NEW x, NEW S, S \subseteq Packet, NEW m \in DeliveriesOf(x, B),
           m.pkt \in S, Latest(B, x, S), Single(B, x), NEW e, WellFormed(e), Older(e, B, x, S)
    PROVE  LET d == handleNewPacket(e, m.pkt)
               C == BagRemove(B, m)
           IN  /\ DeliveriesOf(x, C) = {} /\ Latest(C, x, S) /\ Older(d, C, x, S)
               /\ NotBefore(d.outSeqNo, d.outFragNo, e.outSeqNo, e.outFragNo)
               /\ d \in Endpoint /\ lastReceived(d) = lastReceived(e)
<1> DEFINE d == handleNewPacket(e, m.pkt)
           C == BagRemove(B, m)
<1>1. e \in Endpoint /\ m.pkt \in Packet /\ m.pkt.seq \in Nat
    BY DEF WellFormed, Packet
<1>2. DeliveriesOf(x, C) = {}
    BY LastTaken
<1>3. d.outSeqNo = m.pkt.seq /\ d.outFragNo = 1
    BY <1>1 DEF handleNewPacket, Endpoint
<1>4. d \in Endpoint /\ lastReceived(d) = lastReceived(e)
    BY <1>1, handleNewPacketType, SendingKeepsReceived DEF WellFormed
<1> HIDE DEF C, d
<1>5. NotBefore(d.outSeqNo, d.outFragNo, e.outSeqNo, e.outFragNo)
  <2>1. e.outSeqNo \in Nat /\ e.outFragNo \in Nat
    BY <1>1 DEF Endpoint
  <2>2. CASE e.outSeqNo = 0 /\ e.outFragNo = 0
    BY <1>1, <1>3, <2>2 DEF NotBefore
  <2>3. CASE e.outSeqNo < m.pkt.seq
    BY <1>1, <1>3, <2>1, <2>3 DEF NotBefore
  <2> QED BY <2>2, <2>3 DEF Older
<1>6. Latest(C, x, S) /\ Older(d, C, x, S)
    BY <1>2, <1>3 DEF Latest, Older
<1> QED BY <1>2, <1>4, <1>5, <1>6 DEF C, d

-----------------------------------------------------------------------------
(* The order of packets, step by step *)

Endpoints == {"Client", "Server"}

\* Steps that only bring signals, take them, or bring packets to an application.
LEMMA LinksAlone ==
    ASSUME IInv, NEW x \in Endpoints,
           \/ \E a \in Apps : AppHandleFile(a)
           \/ ReceiveAppTxDone \/ ReceiveAppRcvPacket \/ SendAppRcvPacket
           \/ ClientNext /\ ~IClientEmbedding
           \/ WnameserverReceiveQuery \/ NetworkNext
    PROVE  SamePackets(local, local', x)
<1>1. IsABag(local) /\ SamePackets(local, local, x) /\ x \notin Apps
    BY IInvFacts DEF SamePackets, Endpoints, Apps
<1>2. \A to, k : /\ k # "packet" => Signal(to, k).kind # "packet"
                 /\ \A p : PacketTo(to, p).to = to
    BY DEF Signal, PacketTo
<1>3. CASE \E a \in Apps : AppHandleFile(a)
  <2>1. PICK a \in Apps : local' = BagAdd(local, Signal(a, "start"))
    BY <1>3 DEF AppHandleFile
  <2> QED BY <1>1, <1>2, <2>1, BesidePackets
<1>4. CASE ReceiveAppTxDone
  <2> DEFINE m == Signal("Bob", "txDone")
             rest == BagRemove(local, m)
  <2>1. m \in BagToSet(local) /\ local' = BagAdd(rest, Signal("Bob", "start"))
    BY <1>4 DEF ReceiveAppTxDone, Consume, BagIn
  <2>2. m.kind # "packet"
    BY <1>2
  <2> HIDE DEF m
  <2>3. IsABag(rest) /\ SamePackets(local, rest, x)
    BY <1>1, <2>1, <2>2, BagRemoveFacts, BesidePackets
  <2> HIDE DEF rest
  <2>4. SamePackets(rest, local', x)
    BY <1>2, <2>1, <2>3, BesidePackets
  <2> QED BY <2>3, <2>4, BesideBoth
<1>5. CASE ReceiveAppRcvPacket \/ SendAppRcvPacket
  <2>1. PICK m \in BagToSet(local) : m.to \in Apps /\ local' = BagRemove(local, m)
    BY <1>5 DEF ReceiveAppRcvPacket, SendAppRcvPacket, Apps
  <2> QED BY <1>1, <2>1, BesidePackets
<1>6. ASSUME NEW p, NEW y, y.kind # "packet", NEW q, NEW z, z.to \in Apps,
             local' = IF q THEN BagAdd(AddIf(local, p, y), z) ELSE AddIf(local, p, y)
      PROVE  SamePackets(local, local', x)
  <2> DEFINE n == AddIf(local, p, y)
  <2>1. IsABag(n)
    BY <1>1, BagAddFacts DEF AddIf
  <2>2. SamePackets(local, n, x)
    BY <1>1, <1>6, BesidePackets
  <2> HIDE DEF n
  <2>3. SamePackets(n, BagAdd(n, z), x)
    BY <1>1, <1>6, <2>1, BesidePackets
  <2>4. local' = n \/ local' = BagAdd(n, z)
    BY <1>6 DEF n
  <2> QED BY <2>2, <2>3, <2>4, BesideBoth
<1>7. CASE IClientExtractFromServer
  <2>1. PICK f \in BagToSet(responses) :
          LET e == processFragment(client, f)
              pings == ~isSending(e) /\ ~isEmptyFile(f) /\ ~f.lastFrag
              nudge == AddIf(local, ~isSending(e) /\ ~pings, Signal("Alice", "start"))
          IN  local' = IF e.lastFragment
                       THEN BagAdd(nudge, PacketTo("Alice", makePacket(e.fragmentsReceived)))
                       ELSE nudge
    BY <1>7 DEF IClientExtractFromServer
  <2> DEFINE e == processFragment(client, f)
             p == ~isSending(e) /\ ~(~isSending(e) /\ ~isEmptyFile(f) /\ ~f.lastFrag)
             z == PacketTo("Alice", makePacket(e.fragmentsReceived))
  <2>3. z.to \in Apps /\ Signal("Alice", "start").kind # "packet"
    BY <1>2 DEF Apps
  <2>4. local' = IF e.lastFragment THEN BagAdd(AddIf(local, p, Signal("Alice", "start")), z)
                                   ELSE AddIf(local, p, Signal("Alice", "start"))
    BY <2>1
  <2> HIDE DEF e, p, z
  <2> QED BY <1>6, <2>3, <2>4
<1>8. CASE WnameserverReceiveQuery
  <2>1. PICK f \in BagToSet(queries) :
          LET e == processFragment(server, f)
              bob == IF isTxComplete(e) THEN markServerAppReady(app["Bob"]) ELSE app["Bob"]
              pulls == isTxComplete(e) /\ bob.numAdmittedPkts > 0 /\ canSend(bob)
              loaded == IF pulls THEN handleNewPacket(e, Head(bob.queue)) ELSE e
              next == buildServerResponse(loaded)
              done == AddIf(local, isTxComplete(next), Signal("Bob", "txDone"))
          IN  local' = IF next.lastFragment
                       THEN BagAdd(done, PacketTo("Bob", makePacket(next.fragmentsReceived)))
                       ELSE done
    BY <1>8 DEF WnameserverReceiveQuery
  <2> DEFINE e == processFragment(server, f)
             bob == IF isTxComplete(e) THEN markServerAppReady(app["Bob"]) ELSE app["Bob"]
             pulls == isTxComplete(e) /\ bob.numAdmittedPkts > 0 /\ canSend(bob)
             loaded == IF pulls THEN handleNewPacket(e, Head(bob.queue)) ELSE e
             next == buildServerResponse(loaded)
             p == isTxComplete(next)
             z == PacketTo("Bob", makePacket(next.fragmentsReceived))
  <2>2. z.to \in Apps /\ Signal("Bob", "txDone").kind # "packet"
    BY <1>2 DEF Apps
  <2>3. local' = IF next.lastFragment THEN BagAdd(AddIf(local, p, Signal("Bob", "txDone")), z)
                                      ELSE AddIf(local, p, Signal("Bob", "txDone"))
    BY <2>1
  <2> HIDE DEF next, p, z
  <2> QED BY <1>6, <2>2, <2>3
<1>9. CASE ClientStartPeriodicPings
  <2> DEFINE m == Signal("Client", "startPeriodicPings")
  <2>1. m \in BagToSet(local) /\ local' = BagRemove(local, m)
    BY <1>9 DEF ClientStartPeriodicPings, Consume, BagIn
  <2>2. m.kind # "packet"
    BY <1>2
  <2> HIDE DEF m
  <2> QED BY <1>1, <2>1, <2>2, BesidePackets
<1>10. CASE IClientTimeout
  <2>1. local' = local \/ local' = BagAdd(local, Signal("Alice", "start"))
    BY <1>10 DEF IClientTimeout
  <2> QED BY <1>1, <1>2, <2>1, BesidePackets
<1>11. CASE WClientExtractOldResponse \/ ClientPingTimeout \/ IClientTimeoutIgnore \/ NetworkNext
  <2>1. local' = local
    BY <1>11 DEF WClientExtractOldResponse, ClientPingTimeout, IClientTimeoutIgnore,
                 NetworkNext, LoseQuery, LoseResponse
  <2> QED BY <1>1, <2>1
<1> QED BY <1>3, <1>4, <1>5, <1>7, <1>8, <1>9, <1>10, <1>11 DEF ClientNext

\* What one application sends is not on the other one's link.
LEMMA OtherLink ==
    ASSUME IInv, NEW b \in Apps, NEW x \in Endpoints, x # EndpointOf(b),
           \/ b = "Bob" /\ ReceiveAppSendPacket
           \/ b = "Alice" /\ SendAppSendPacket
           \/ AppPktTimeout(b)
    PROVE  SamePackets(local, local', x)
<1>1. ASSUME NEW msgs, IsABag(msgs), SamePackets(local, msgs, x),
             local' = msgs \/ \E h : local' = BagAdd(msgs, PacketTo(EndpointOf(b), h))
      PROVE  SamePackets(local, local', x)
  <2>1. \A h : PacketTo(EndpointOf(b), h).to # x
    BY DEF PacketTo
  <2>2. \A h : SamePackets(msgs, BagAdd(msgs, PacketTo(EndpointOf(b), h)), x)
    BY <1>1, <2>1, BesidePackets
  <2>3. local' = msgs \/ SamePackets(msgs, local', x)
    BY <1>1, <2>2
  <2> QED BY <1>1, <2>3, BesideBoth
<1>2. ASSUME NEW m \in BagToSet(local), m.kind # "packet"
      PROVE  /\ IsABag(BagRemove(local, m)) /\ SamePackets(local, BagRemove(local, m), x)
             /\ \A g : g.kind # "packet" =>
                    /\ IsABag(BagAdd(BagRemove(local, m), g))
                    /\ SamePackets(local, BagAdd(BagRemove(local, m), g), x)
  <2> DEFINE rest == BagRemove(local, m)
  <2>1. IsABag(rest) /\ SamePackets(local, rest, x)
    BY <1>2, IInvFacts, BagRemoveFacts, BesidePackets
  <2> HIDE DEF rest
  <2>2. ASSUME NEW g, g.kind # "packet"
        PROVE  IsABag(BagAdd(rest, g)) /\ SamePackets(local, BagAdd(rest, g), x)
    BY <2>1, <2>2, BagAddFacts, BesidePackets, BesideBoth
  <2> QED BY <2>1, <2>2 DEF rest
<1>3. \A to, k : k # "packet" => Signal(to, k).kind # "packet"
    BY DEF Signal
<1>4. CASE b = "Bob" /\ ReceiveAppSendPacket
  <2> DEFINE m == Signal("Bob", "start")
             s == populate("Bob")
             c == s.iodineReady /\ s.numAdmittedPkts > 0 /\ canSend(s)
  <2>1. m \in BagToSet(local) /\ SendOrWait("Bob", s, c, BagRemove(local, m))
    BY <1>4 DEF ReceiveAppSendPacket, Consume, BagIn
  <2> HIDE DEF c, s
  <2>2. \/ local' = BagRemove(local, m)
        \/ \E h : local' = BagAdd(BagRemove(local, m), PacketTo(EndpointOf("Bob"), h))
    BY <2>1 DEF SendOrWait
  <2>3. m.kind # "packet"
    BY <1>3
  <2> HIDE DEF m
  <2> QED BY <1>1, <1>2, <1>4, <2>1, <2>2, <2>3
<1>5. CASE b = "Alice" /\ SendAppSendPacket
  <2> DEFINE m == Signal("Alice", "start")
             g == Signal("Client", "startPeriodicPings")
             s == [populate("Alice") EXCEPT !.iodineReady = TRUE]
             c == s.numAdmittedPkts > 0 /\ canSend(s)
             msgs == BagAdd(BagRemove(local, m), g)
  <2>1. m \in BagToSet(local) /\ SendOrWait("Alice", s, c, msgs)
    BY <1>5 DEF SendAppSendPacket, Consume, BagIn
  <2>2. m.kind # "packet" /\ g.kind # "packet"
    BY <1>3
  <2> HIDE DEF c, s, m, g
  <2>3. IsABag(msgs) /\ SamePackets(local, msgs, x)
    BY <1>2, <2>1, <2>2
  <2> HIDE DEF msgs
  <2>4. local' = msgs \/ \E h : local' = BagAdd(msgs, PacketTo(EndpointOf("Alice"), h))
    BY <2>1 DEF SendOrWait
  <2> QED BY <1>1, <1>5, <2>3, <2>4
<1>6. CASE AppPktTimeout(b)
  <2>1. local' = local \/ \E h : local' = BagAdd(local, PacketTo(EndpointOf(b), h))
    BY <1>6 DEF AppPktTimeout
  <2> QED BY <1>1, <2>1, IInvFacts DEF SamePackets
<1> QED BY <1>4, <1>5, <1>6

\* Steps in which application a sends nothing.
LEMMA SentAlone ==
    ASSUME IInv, DInv, NEW a \in Apps,
           \/ \E b \in Apps : AppHandleFile(b)
           \/ ReceiveAppTxDone \/ ReceiveAppRcvPacket \/ SendAppRcvPacket
           \/ ClientNext \/ NetworkNext \/ IServerEmbedding \/ IServerEmbeddingSending
           \/ a = "Alice" /\ (ReceiveAppSendPacket \/ AppPktTimeout("Bob")
                                \/ WnameserverReceiveQuery)
           \/ a = "Bob" /\ (SendAppSendPacket \/ AppPktTimeout("Alice"))
    PROVE  SentBy(a)' = SentBy(a) /\ pktTimeouts'[a] = pktTimeouts[a]
<1>1. /\ app \in [Apps -> App] /\ pktTimeouts \in [Apps -> Nat]
      /\ \A b \in Apps : NumberedApp(app[b])
    BY DEF IInv, TypeOK, DInv, Numbered
<1>2. CASE \E b \in Apps : AppHandleFile(b)
  <2>1. PICK b \in Apps : AppHandleFile(b)
    BY <1>2
  <2> DEFINE f == Inputs[b][arrived[b] + 1]
             k == packetizeProb(app[b], f)
             v == b = "Bob" \/ k.queuePopulated
             s == [k EXCEPT !.queuePopulated = v]
  <2>2. /\ app' = [app EXCEPT ![b] = s] /\ pktTimeouts' = pktTimeouts
        /\ arrived[b] < Len(Inputs[b])
    BY <2>1 DEF AppHandleFile
  <2>3. f \in Files
    <3>1. Inputs[b] \in Seq(Files) /\ arrived[b] \in Nat
      BY DNSAssumption DEF IInv, TypeOK
    <3> QED BY <2>2, <3>1
  <2> HIDE DEF f
  <2>4. k \in App /\ k.sent = app[b].sent
    BY <1>1, <2>3, packetizeProbType, packetizeNumbered
  <2> HIDE DEF k, v
  <2>5. s.sent = app[b].sent
    BY <2>4 DEF App
  <2> HIDE DEF s
  <2> QED BY <1>1, <2>2, <2>5 DEF SentBy
<1>3. CASE ReceiveAppTxDone \/ ReceiveAppRcvPacket \/ SendAppRcvPacket
  <2>1. \A v : \A b \in Apps : /\ [app EXCEPT ![b].iodineReady = v][a].sent = app[a].sent
                               /\ [app EXCEPT ![b].rcvd = v][a].sent = app[a].sent
    BY <1>1 DEF App
  <2>2. CASE ReceiveAppTxDone
    BY <2>1, <2>2 DEF ReceiveAppTxDone, Apps, SentBy
  <2>3. CASE ReceiveAppRcvPacket
    BY <2>1, <2>3 DEF ReceiveAppRcvPacket, Apps, SentBy
  <2>4. CASE SendAppRcvPacket
    BY <2>1, <2>4 DEF SendAppRcvPacket, Apps, SentBy
  <2> QED BY <1>3, <2>2, <2>3, <2>4
<1>4. CASE ClientNext \/ NetworkNext \/ IServerEmbedding \/ IServerEmbeddingSending
  <2>1. app' = app /\ pktTimeouts' = pktTimeouts
    BY <1>4 DEF ClientNext, IClientEmbedding, IClientExtractFromServer,
           WClientExtractOldResponse, ClientStartPeriodicPings, ClientPingTimeout,
           IClientTimeout, IClientTimeoutIgnore, NetworkNext, LoseQuery, LoseResponse,
           IServerEmbedding, IServerEmbeddingSending
  <2> QED BY <2>1 DEF SentBy
<1>5. CASE a = "Alice" /\ (ReceiveAppSendPacket \/ AppPktTimeout("Bob")
                              \/ WnameserverReceiveQuery)
  <2>1. /\ \A v : [app EXCEPT !["Bob"] = v]["Alice"] = app["Alice"]
        /\ \A v : [pktTimeouts EXCEPT !["Bob"] = v]["Alice"] = pktTimeouts["Alice"]
    BY <1>1 DEF Apps
  <2>2. CASE ReceiveAppSendPacket
    BY <1>5, <2>1, <2>2 DEF ReceiveAppSendPacket, SendOrWait, SentBy
  <2>3. CASE AppPktTimeout("Bob")
    BY <1>5, <2>1, <2>3 DEF AppPktTimeout, SentBy
  <2>4. CASE WnameserverReceiveQuery
    <3>1. PICK f \in BagToSet(queries) :
            LET e == processFragment(server, f)
                bob == IF isTxComplete(e) THEN markServerAppReady(app["Bob"]) ELSE app["Bob"]
                pulls == isTxComplete(e) /\ bob.numAdmittedPkts > 0 /\ canSend(bob)
            IN  /\ app' = [app EXCEPT !["Bob"] = IF pulls THEN sendPkt(bob) ELSE bob]
                /\ pktTimeouts' = IF pulls THEN [pktTimeouts EXCEPT !["Bob"] = @ + 1]
                                           ELSE pktTimeouts
      BY <2>4 DEF WnameserverReceiveQuery
    <3> DEFINE e == processFragment(server, f)
               bob == IF isTxComplete(e) THEN markServerAppReady(app["Bob"]) ELSE app["Bob"]
               pulls == isTxComplete(e) /\ bob.numAdmittedPkts > 0 /\ canSend(bob)
               v == IF pulls THEN sendPkt(bob) ELSE bob
    <3>2. /\ app' = [app EXCEPT !["Bob"] = v]
          /\ pktTimeouts' = IF pulls THEN [pktTimeouts EXCEPT !["Bob"] = @ + 1]
                                     ELSE pktTimeouts
      BY <3>1
    <3> HIDE DEF v, pulls
    <3> QED BY <1>5, <2>1, <3>2 DEF SentBy
  <2> QED BY <1>5, <2>2, <2>3, <2>4
<1>6. CASE a = "Bob" /\ (SendAppSendPacket \/ AppPktTimeout("Alice"))
  <2>1. app'[a] = app[a] /\ pktTimeouts'[a] = pktTimeouts[a]
    BY <1>1, <1>6 DEF SendAppSendPacket, SendOrWait, AppPktTimeout
  <2> QED BY <2>1 DEF SentBy
<1> QED BY <1>2, <1>3, <1>4, <1>5, <1>6

\* The head of a queue leaves, or not: if it is then the only packet on its link, it is
\* in its turn.
LEMMA LeavesInTurn ==
    ASSUME IInv, DInv, NEW a \in Apps, NEW s \in App, NumberedApp(s), s.sent = app[a].sent,
           NEW c \in BOOLEAN, c => canSend(s), NEW msgs, IsABag(msgs), NEW x,
           x = EndpointOf(a), SamePackets(local, msgs, x),
           app' = [app EXCEPT ![a] = IF c THEN sendPkt(s) ELSE s],
           local' = IF c THEN BagAdd(msgs, PacketTo(EndpointOf(a), Head(s.queue)))
                         ELSE msgs,
           Single(local', x), Latest(local, x, SentBy(a)),
           NEW e, Older(e, local, x, SentBy(a))
    PROVE  LET S == SentBy(a)' IN Latest(local', x, S) /\ Older(e, local', x, S)
<1> DEFINE S == SentBy(a)
           h == Head(s.queue)
<1>1. app \in [Apps -> App]
    BY DEF IInv, TypeOK
<1>2. Latest(msgs, x, S) /\ Older(e, msgs, x, S)
    BY DEF Latest, Older, SamePackets
<1>3. CASE c
  <2>1. SentBy(a)' = S \cup {h}
    <3>1. Range(sendPkt(s).sent) = Range(s.sent) \cup {h}
      BY <1>3, sendNumbered
    <3> QED BY <1>1, <1>3, <3>1 DEF SentBy
  <2>2. /\ h \in Packet /\ h.seq \in Nat /\ \A p \in S : p.seq < h.seq /\ p.seq \in Nat
    BY <1>3, HeadIsLater, SentPackets DEF SentBy, Packet
  <2>3. \A m \in DeliveriesOf(x, msgs) : m.pkt \in S
    BY DEF SamePackets, DeliveriesOf, DInv, OnLinks
  <2>4. local' = BagAdd(msgs, PacketTo(x, h))
    BY <1>3
  <2> HIDE DEF S, h
  <2> QED BY <1>2, <2>1, <2>2, <2>3, <2>4, PacketLeaves
<1>4. CASE ~c
  <2>1. SentBy(a)' = S /\ local' = msgs
    BY <1>1, <1>4 DEF SentBy
  <2> QED BY <1>2, <2>1
<1> QED BY <1>3, <1>4

\* No two packets wait at the client.
OneWaits == Single(local, "Client")

AlicesTurn ==
    /\ Latest(local, "Client", SentBy("Alice"))
    /\ Older(client, local, "Client", SentBy("Alice"))

\* The number d sends is not before the one e sends.
Onto(d, e) == NotBefore(d.outSeqNo, d.outFragNo, e.outSeqNo, e.outFragNo)

\* Attempts, giving up and what was received leave the number that is sent.
LEMMA SameNumberSent ==
    ASSUME NEW e \in Endpoint, NEW d,
           \/ d = e \/ d = incrNumAttempts(e) \/ d = dropFragmentsToSend(e)
           \/ d = updateRcvAppAlice(e) \/ d = updateRcvApp(e)
    PROVE  d.outSeqNo = e.outSeqNo /\ d.outFragNo = e.outFragNo /\ Onto(d, e)
<1>1. e.outSeqNo \in Nat /\ e.outFragNo \in Nat
    BY DEF Endpoint
<1>2. d.outSeqNo = e.outSeqNo /\ d.outFragNo = e.outFragNo
    BY DEF incrNumAttempts, dropFragmentsToSend, updateRcvAppAlice, updateRcvApp, Endpoint
<1> HIDE DEF Onto
<1>3. \A x, y \in Nat : NotBefore(x, y, x, y)
    BY DEF NotBefore
<1> QED BY <1>1, <1>2, <1>3 DEF Onto

\* Number 0 is sent only before the first packet.
LEMMA ZeroIdle ==
    ASSUME NEW s, NEW r, NEW S, NEW H, SendTrue(s, r, S, H), s.outFragNo = 0
    PROVE  ~isSending(s)
BY DEF SendTrue, Remaining

\* A message moves the sending side on.
LEMMA Moves ==
    ASSUME NEW e, WellFormed(e), NEW f \in Fragment, NEW r, NEW S, NEW H, SendTrue(e, r, S, H)
    PROVE  LET d == processFragment(e, f)
           IN  /\ WellFormed(d) /\ d \in Endpoint /\ Onto(d, e) /\ d.outSeqNo = e.outSeqNo
               /\ e.outFragNo = 0 => d.outFragNo = 0
<1>1. WellFormed(processFragment(e, f)) /\ processFragment(e, f) \in Endpoint
    BY processFragmentType DEF WellFormed
<1> QED BY <1>1, ProcessesOn, ZeroIdle DEF Onto

\* Unless it takes a packet, the client sends the fragments of the same one, in order.
LEMMA ClientMovesOn ==
    ASSUME IInv, DInv, Next, ~IClientEmbedding
    PROVE  /\ client'.outSeqNo = client.outSeqNo /\ Onto(client', client)
           /\ client.outFragNo = 0 => client'.outFragNo = 0
<1>1. client \in Endpoint /\ WellFormed(client)
    BY DEF IInv, TypeOK
<1>2. CASE client' = client
    BY <1>1, <1>2, SameNumberSent
<1>3. CASE IClientTimeout
  <2>1. client' = dropFragmentsToSend(client) \/ client' = incrNumAttempts(client)
    BY <1>3 DEF IClientTimeout
  <2> QED BY <1>1, <2>1, SameNumberSent
<1>4. CASE IClientExtractFromServer
  <2>1. PICK f \in BagToSet(responses) :
          LET e == processFragment(client, f)
          IN  client' = updateRcvAppAlice(IF isSending(e) THEN incrNumAttempts(e) ELSE e)
    BY <1>4 DEF IClientExtractFromServer
  <2> DEFINE e == processFragment(client, f)
             d == IF isSending(e) THEN incrNumAttempts(e) ELSE e
  <2>2. /\ WellFormed(e) /\ e \in Endpoint /\ Onto(e, client)
        /\ e.outSeqNo = client.outSeqNo /\ (client.outFragNo = 0 => e.outFragNo = 0)
    BY <1>1, IInvFacts, FlowFacts, Moves DEF DInv
  <2>3. client' = updateRcvAppAlice(d)
    BY <2>1
  <2> HIDE DEF e
  <2>4. d \in Endpoint /\ d.outSeqNo = e.outSeqNo /\ d.outFragNo = e.outFragNo
    BY <2>2, SameNumberSent, incrNumAttemptsType DEF WellFormed
  <2> HIDE DEF d
  <2>5. client'.outSeqNo = d.outSeqNo /\ client'.outFragNo = d.outFragNo
    BY <2>3, <2>4, SameNumberSent
  <2> QED BY <2>2, <2>4, <2>5 DEF Onto
<1>5. CASE AppNext \/ ServerNext \/ NetworkNext
  <2>1. client' = client
    BY <1>5 DEF AppNext, AppHandleFile, AppPktTimeout, SendAppSendPacket, SendAppRcvPacket,
           ReceiveAppSendPacket, ReceiveAppTxDone, ReceiveAppRcvPacket, ServerNext,
           IServerEmbedding, IServerEmbeddingSending, WnameserverReceiveQuery,
           NetworkNext, LoseQuery, LoseResponse
  <2> QED BY <1>2, <2>1
<1>6. CASE WClientExtractOldResponse \/ ClientStartPeriodicPings \/ ClientPingTimeout
           \/ IClientTimeoutIgnore
  <2>1. client' = client
    BY <1>6 DEF WClientExtractOldResponse, ClientStartPeriodicPings, ClientPingTimeout,
           IClientTimeoutIgnore
  <2> QED BY <1>2, <2>1
<1> QED BY <1>3, <1>4, <1>5, <1>6 DEF Next, ClientNext

\* Packets reach the client in order, and it sends them in order, as long as no two wait.
LEMMA AliceInTurn ==
    ASSUME IInv, DInv, AlicesTurn, OneWaits, OneWaits', Next
    PROVE  AlicesTurn' /\ Onto(client', client)
<1> DEFINE S == SentBy("Alice")
<1>1. /\ IsABag(local) /\ app \in [Apps -> App] /\ WellFormed(client) /\ client \in Endpoint
      /\ "Alice" \in Apps /\ "Bob" \in Apps
      /\ EndpointOf("Alice") = "Client" /\ EndpointOf("Bob") = "Server"
      /\ "Client" \in Endpoints /\ S \subseteq Packet
    BY IInvFacts, Bases DEF IInv, TypeOK, Apps, EndpointOf, Endpoints, DInv
<1>2. ASSUME SentBy("Alice")' = S, SamePackets(local, local', "Client"), ~IClientEmbedding
      PROVE  AlicesTurn' /\ Onto(client', client)
  <2>1. /\ client'.outSeqNo = client.outSeqNo /\ Onto(client', client)
        /\ client.outFragNo = 0 => client'.outFragNo = 0
    BY <1>2, ClientMovesOn
  <2>2. Latest(local', "Client", S) /\ Older(client', local', "Client", S)
    BY <1>2, <2>1, OrderKept DEF AlicesTurn
  <2> QED BY <1>2, <2>1, <2>2 DEF AlicesTurn
<1>3. ASSUME NEW s \in App, NumberedApp(s), s.sent = app["Alice"].sent,
             NEW c \in BOOLEAN, c => canSend(s), NEW msgs, IsABag(msgs),
             SamePackets(local, msgs, "Client"), client' = client,
             app' = [app EXCEPT !["Alice"] = IF c THEN sendPkt(s) ELSE s],
             local' = IF c THEN BagAdd(msgs, PacketTo(EndpointOf("Alice"), Head(s.queue)))
                           ELSE msgs
      PROVE  AlicesTurn' /\ Onto(client', client)
  <2>1. LET T == SentBy("Alice")' IN Latest(local', "Client", T) /\ Older(client, local', "Client", T)
    BY <1>1, <1>3, LeavesInTurn DEF OneWaits, AlicesTurn
  <2> QED BY <1>1, <1>3, <2>1, SameNumberSent DEF AlicesTurn
<1>4. CASE SendAppSendPacket
  <2> DEFINE m == Signal("Alice", "start")
             g == Signal("Client", "startPeriodicPings")
             k == populate("Alice")
             s == [k EXCEPT !.iodineReady = TRUE]
             c == s.numAdmittedPkts > 0 /\ canSend(s)
             rest == BagRemove(local, m)
             msgs == BagAdd(rest, g)
  <2>1. /\ m \in BagToSet(local) /\ SendOrWait("Alice", s, c, msgs) /\ client' = client
    BY <1>4 DEF SendAppSendPacket, Consume, BagIn
  <2>2. k \in App /\ NumberedApp(k) /\ k.sent = app["Alice"].sent
    BY <1>1, populateType, populateNumbered DEF DInv, Numbered
  <2> HIDE DEF k
  <2>3. s \in App /\ NumberedApp(s) /\ s.sent = app["Alice"].sent
    <3>1. s \in App
      BY <2>2, SetAppAttribute
    <3>2. s.sent = k.sent /\ s.queue = k.queue /\ s.packetCounter = k.packetCounter
      BY <2>2 DEF App
    <3> HIDE DEF s
    <3> QED BY <2>2, <3>1, <3>2, SameNumbers
  <2> HIDE DEF s
  <2>4. m.kind # "packet" /\ g.kind # "packet"
    BY DEF Signal
  <2> HIDE DEF m, g
  <2>5. IsABag(rest) /\ SamePackets(local, rest, "Client")
    BY <1>1, <2>1, <2>4, BagRemoveFacts, BesidePackets
  <2> HIDE DEF rest
  <2>6. IsABag(msgs) /\ SamePackets(rest, msgs, "Client")
    BY <2>4, <2>5, BagAddFacts, BesidePackets
  <2>7. SamePackets(local, msgs, "Client")
    BY <2>5, <2>6, BesideBoth
  <2> HIDE DEF msgs
  <2>8. c \in BOOLEAN /\ (c => canSend(s))
    OBVIOUS
  <2> HIDE DEF c
  <2>9. /\ app' = [app EXCEPT !["Alice"] = IF c THEN sendPkt(s) ELSE s]
        /\ local' = IF c THEN BagAdd(msgs, PacketTo(EndpointOf("Alice"), Head(s.queue)))
                         ELSE msgs
    BY <2>1 DEF SendOrWait
  <2> QED BY <1>3, <2>1, <2>3, <2>6, <2>7, <2>8, <2>9
<1>5. CASE AppPktTimeout("Alice")
  <2> DEFINE n == app["Alice"].numAdmittedPkts + 1
             s == [app["Alice"] EXCEPT !.numAdmittedPkts = n]
             c == s.iodineReady /\ canSend(s)
  <2>1. /\ app' = [app EXCEPT !["Alice"] = IF c THEN sendPkt(s) ELSE s]
        /\ local' = IF c THEN BagAdd(local, PacketTo(EndpointOf("Alice"), Head(s.queue)))
                         ELSE local
        /\ client' = client
    BY <1>5 DEF AppPktTimeout
  <2>2. app["Alice"] \in App /\ n \in Nat /\ NumberedApp(app["Alice"])
    BY <1>1 DEF App, DInv, Numbered
  <2>3. s \in App /\ NumberedApp(s) /\ s.sent = app["Alice"].sent
    <3>1. s \in App
      BY <2>2, SetAppAttribute
    <3>2. /\ s.sent = app["Alice"].sent /\ s.queue = app["Alice"].queue
          /\ s.packetCounter = app["Alice"].packetCounter
      BY <2>2 DEF App
    <3> HIDE DEF s
    <3> QED BY <2>2, <3>1, <3>2, SameNumbers
  <2> HIDE DEF s
  <2>4. c \in BOOLEAN /\ (c => canSend(s)) /\ SamePackets(local, local, "Client")
    BY DEF SamePackets
  <2> HIDE DEF c
  <2> QED BY <1>1, <1>3, <2>1, <2>3, <2>4
<1>6. CASE IClientEmbedding
  <2>1. PICK m \in BagToSet(local) :
          /\ m.to = "Client" /\ m.kind = "packet"
          /\ client' = incrNumAttempts(handleNewPacket(client, m.pkt))
          /\ local' = BagRemove(local, m) /\ app' = app
    BY <1>6 DEF IClientEmbedding
  <2> DEFINE d == handleNewPacket(client, m.pkt)
  <2>2. m \in DeliveriesOf("Client", local) /\ m.pkt \in S /\ SentBy("Alice")' = S
    BY <1>1, <2>1 DEF DeliveriesOf, DInv, OnLinks, SentBy
  <2>3. /\ Latest(local', "Client", S) /\ Older(d, local', "Client", S)
        /\ Onto(d, client) /\ d \in Endpoint
    BY <1>1, <2>1, <2>2, Embeds DEF OneWaits, AlicesTurn, Onto
  <2>4. client' = incrNumAttempts(d)
    BY <2>1
  <2> HIDE DEF d
  <2>5. client'.outSeqNo = d.outSeqNo /\ client'.outFragNo = d.outFragNo
    BY <2>3, <2>4, SameNumberSent
  <2>6. Older(client', local', "Client", S) /\ Onto(client', client)
    BY <2>3, <2>5 DEF Older, Onto
  <2> QED BY <2>2, <2>3, <2>6 DEF AlicesTurn
<1>7. CASE IServerEmbedding \/ IServerEmbeddingSending
  <2>1. PICK m \in BagToSet(local) : m.to = "Server" /\ local' = BagRemove(local, m)
    BY <1>7 DEF IServerEmbedding, IServerEmbeddingSending
  <2>2. SamePackets(local, local', "Client")
    BY <1>1, <2>1, BesidePackets
  <2>3. ~IClientEmbedding \/ IClientEmbedding
    OBVIOUS
  <2> QED BY <1>1, <1>2, <1>6, <1>7, <2>2, SentAlone
<1>8. CASE ReceiveAppSendPacket \/ AppPktTimeout("Bob")
  <2>1. SamePackets(local, local', "Client")
    BY <1>1, <1>8, OtherLink
  <2> QED BY <1>1, <1>2, <1>6, <1>8, <2>1, SentAlone
<1>9. CASE \/ \E a \in Apps : AppHandleFile(a)
           \/ ReceiveAppTxDone \/ ReceiveAppRcvPacket \/ SendAppRcvPacket
           \/ ClientNext /\ ~IClientEmbedding
           \/ WnameserverReceiveQuery \/ NetworkNext
  <2>1. SamePackets(local, local', "Client")
    BY <1>1, <1>9, LinksAlone
  <2> QED BY <1>1, <1>2, <1>6, <1>9, <2>1, SentAlone
<1> QED BY <1>4, <1>5, <1>6, <1>7, <1>8, <1>9
        DEF Next, AppNext, ServerNext, Apps, ClientNext

\* Bob's packets go to the server one at a time: while one is on its way his pacing timer
\* runs, which does not overtake it.
BobsTurn ==
    /\ Single(local, "Server")
    /\ Latest(local, "Server", SentBy("Bob"))
    /\ Older(server, local, "Server", SentBy("Bob"))
    /\ DeliveriesOf("Server", local) # {} => pktTimeouts["Bob"] > 0

\* Bob has an admission only when nothing is on its way.
LEMMA BobAdmitted ==
    ASSUME IInv, BobsTurn, app["Bob"].numAdmittedPkts > 0
    PROVE  pktTimeouts["Bob"] = 0 /\ DeliveriesOf("Server", local) = {}
<1>1. /\ app["Bob"].numAdmittedPkts \in Nat /\ pktTimeouts["Bob"] \in Nat
      /\ app["Bob"].numAdmittedPkts + pktTimeouts["Bob"] = 1
    BY DEF IInv, TypeOK, AdmissionToken, Apps, App
<1>2. pktTimeouts["Bob"] = 0
    BY <1>1
<1> QED BY <1>2 DEF BobsTurn

\* What the facts about Bob and the server are each time.
LEMMA BobFacts ==
    ASSUME IInv, DInv
    PROVE  /\ IsABag(local) /\ app \in [Apps -> App] /\ app["Bob"] \in App
           /\ WellFormed(server) /\ server \in Endpoint
           /\ pktTimeouts \in [Apps -> Nat] /\ pktTimeouts["Bob"] \in Nat
           /\ NumberedApp(app["Bob"])
           /\ "Alice" \in Apps /\ "Bob" \in Apps
           /\ EndpointOf("Alice") = "Client" /\ EndpointOf("Bob") = "Server"
           /\ "Server" \in Endpoints /\ SentBy("Bob") \subseteq Packet
BY IInvFacts, Bases DEF IInv, TypeOK, Apps, EndpointOf, Endpoints, DInv, Numbered

\* Steps in which Bob sends nothing and the server takes nothing of his.
LEMMA BobKept ==
    ASSUME IInv, DInv, BobsTurn, SentBy("Bob")' = SentBy("Bob"),
           SamePackets(local, local', "Server"), pktTimeouts'["Bob"] = pktTimeouts["Bob"],
           UNCHANGED server
    PROVE  BobsTurn' /\ Onto(server', server)
<1>1. Latest(local', "Server", SentBy("Bob")) /\ Older(server, local', "Server", SentBy("Bob"))
    BY OrderKept DEF BobsTurn
<1>2. Single(local', "Server")
    BY DEF Single, SamePackets, BobsTurn
<1>3. DeliveriesOf("Server", local') # {} => pktTimeouts'["Bob"] > 0
    BY DEF BobsTurn, SamePackets
<1>4. Onto(server', server)
    BY BobFacts, SameNumberSent
<1> QED BY <1>1, <1>2, <1>3, <1>4 DEF BobsTurn

\* Bob's packet leaves when nothing is on its way, or none leaves.
LEMMA BobSends ==
    ASSUME IInv, DInv, BobsTurn,
           NEW s \in App, NumberedApp(s), s.sent = app["Bob"].sent,
           NEW c \in BOOLEAN, c => canSend(s), NEW msgs, IsABag(msgs),
           SamePackets(local, msgs, "Server"), UNCHANGED server,
           app' = [app EXCEPT !["Bob"] = IF c THEN sendPkt(s) ELSE s],
           local' = IF c THEN BagAdd(msgs, PacketTo(EndpointOf("Bob"), Head(s.queue)))
                         ELSE msgs,
           c => DeliveriesOf("Server", local) = {},
           DeliveriesOf("Server", local) = {} \/ pktTimeouts'["Bob"] = pktTimeouts["Bob"],
           c => pktTimeouts'["Bob"] > 0
    PROVE  BobsTurn' /\ Onto(server', server)
<1>1. CASE c
  <2> DEFINE m == PacketTo("Server", Head(s.queue))
  <2>1. local' = BagAdd(msgs, m)
    BY <1>1, BobFacts
  <2> HIDE DEF m
  <2>2. BagToSet(local') = BagToSet(msgs) \cup {m}
    BY <2>1, BagAddFacts
  <2>3. DeliveriesOf("Server", msgs) = {}
    BY <1>1 DEF SamePackets
  <2>4. Single(local', "Server")
    BY <2>2, <2>3 DEF Single, DeliveriesOf
  <2>5. LET T == SentBy("Bob")'
        IN  Latest(local', "Server", T) /\ Older(server, local', "Server", T)
    BY <2>4, BobFacts, LeavesInTurn DEF BobsTurn
  <2>6. Onto(server', server)
    BY BobFacts, SameNumberSent
  <2> QED BY <1>1, <2>4, <2>5, <2>6 DEF BobsTurn
<1>2. CASE ~c
  <2>1. local' = msgs /\ SentBy("Bob")' = SentBy("Bob")
    BY <1>2, BobFacts DEF SentBy
  <2>2. CASE DeliveriesOf("Server", local) = {}
    <3>1. DeliveriesOf("Server", local') = {}
      BY <2>1, <2>2 DEF SamePackets
    <3>2. Latest(local', "Server", SentBy("Bob")) /\ Older(server, local', "Server", SentBy("Bob"))
      BY <2>1, OrderKept DEF BobsTurn
    <3>3. Onto(server', server)
      BY BobFacts, SameNumberSent
    <3> QED BY <2>1, <3>1, <3>2, <3>3 DEF BobsTurn, Single
  <2>3. CASE pktTimeouts'["Bob"] = pktTimeouts["Bob"]
    BY <2>1, <2>3, BobKept
  <2> QED BY <2>2, <2>3
<1> QED BY <1>1, <1>2

\* start at Bob.
LEMMA BobStarts ==
    ASSUME IInv, DInv, BobsTurn, ReceiveAppSendPacket
    PROVE  BobsTurn' /\ Onto(server', server)
<1> DEFINE m == Signal("Bob", "start")
           s == populate("Bob")
           c == s.iodineReady /\ s.numAdmittedPkts > 0 /\ canSend(s)
           rest == BagRemove(local, m)
<1>1. m \in BagToSet(local) /\ SendOrWait("Bob", s, c, rest) /\ UNCHANGED server
    BY DEF ReceiveAppSendPacket, Consume, BagIn
<1>2. s \in App /\ NumberedApp(s) /\ s.sent = app["Bob"].sent
    BY BobFacts, populateNumbered, populateType
<1>3. s.numAdmittedPkts = app["Bob"].numAdmittedPkts
    BY BobFacts, populateType DEF SameAdmission
<1> HIDE DEF s
<1>4. m.kind # "packet"
    BY DEF Signal
<1> HIDE DEF m
<1>5. IsABag(rest) /\ SamePackets(local, rest, "Server")
    BY <1>1, <1>4, BobFacts, BagRemoveFacts, BesidePackets
<1> HIDE DEF rest
<1>6. c \in BOOLEAN /\ (c => canSend(s)) /\ (c => app["Bob"].numAdmittedPkts > 0)
    BY <1>3
<1> HIDE DEF c
<1>7. c => DeliveriesOf("Server", local) = {}
    BY <1>6, BobAdmitted
<1>8. /\ app' = [app EXCEPT !["Bob"] = IF c THEN sendPkt(s) ELSE s]
      /\ local' = IF c THEN BagAdd(rest, PacketTo(EndpointOf("Bob"), Head(s.queue)))
                       ELSE rest
      /\ pktTimeouts' = IF c THEN [pktTimeouts EXCEPT !["Bob"] = @ + 1] ELSE pktTimeouts
    BY <1>1 DEF SendOrWait
<1>9. /\ c => pktTimeouts'["Bob"] > 0
      /\ ~c => pktTimeouts'["Bob"] = pktTimeouts["Bob"]
    BY <1>8, BobFacts
<1> QED BY <1>1, <1>2, <1>5, <1>6, <1>7, <1>8, <1>9, BobSends

\* Bob's pacing interval is over; his last packet has reached the server.
LEMMA BobPaced ==
    ASSUME IInv, DInv, BobsTurn, AppPktTimeout("Bob")
    PROVE  BobsTurn' /\ Onto(server', server)
<1> DEFINE n == app["Bob"].numAdmittedPkts + 1
           s == [app["Bob"] EXCEPT !.numAdmittedPkts = n]
           c == s.iodineReady /\ canSend(s)
<1>1. /\ app' = [app EXCEPT !["Bob"] = IF c THEN sendPkt(s) ELSE s]
      /\ local' = IF c THEN BagAdd(local, PacketTo(EndpointOf("Bob"), Head(s.queue)))
                       ELSE local
      /\ c => pktTimeouts' = pktTimeouts
      /\ pktTimeouts["Bob"] > 0 /\ ~UnderWay("Bob") /\ UNCHANGED server
    BY DEF AppPktTimeout
<1>2. n \in Nat
    BY BobFacts DEF App
<1>3. s \in App /\ NumberedApp(s) /\ s.sent = app["Bob"].sent
  <2>1. s \in App
    BY <1>2, BobFacts, SetAppAttribute
  <2>2. /\ s.sent = app["Bob"].sent /\ s.queue = app["Bob"].queue
        /\ s.packetCounter = app["Bob"].packetCounter
    BY BobFacts DEF App
  <2> HIDE DEF s
  <2> QED BY <2>1, <2>2, BobFacts, SameNumbers
<1> HIDE DEF s
<1>4. c \in BOOLEAN /\ (c => canSend(s)) /\ SamePackets(local, local, "Server")
    BY DEF SamePackets
<1> HIDE DEF c
<1>5. DeliveriesOf("Server", local) = {}
  <2>1. \A m \in Waiting : m.to = "Client"
    BY DEF Waiting
  <2> QED BY <1>1, <2>1, BobFacts DEF UnderWay, DeliveriesOf
<1> QED BY <1>1, <1>3, <1>4, <1>5, BobFacts, BobSends

\* The server takes Bob's packet, or drops it.
LEMMA BobArrives ==
    ASSUME IInv, DInv, BobsTurn, IServerEmbedding \/ IServerEmbeddingSending
    PROVE  BobsTurn' /\ Onto(server', server)
<1> DEFINE S == SentBy("Bob")
<1>1. PICK m \in BagToSet(local) :
        /\ m.to = "Server" /\ m.kind = "packet" /\ local' = BagRemove(local, m)
        /\ server' = handleNewPacket(server, m.pkt) \/ server' = server
        /\ app' = app /\ pktTimeouts' = pktTimeouts
    BY DEF IServerEmbedding, IServerEmbeddingSending
<1>2. m \in DeliveriesOf("Server", local) /\ m.pkt \in S /\ SentBy("Bob")' = S
    BY <1>1, BobFacts DEF DeliveriesOf, DInv, OnLinks, SentBy
<1> DEFINE d == handleNewPacket(server, m.pkt)
<1>3. /\ DeliveriesOf("Server", local') = {} /\ Latest(local', "Server", S)
      /\ Older(d, local', "Server", S) /\ Onto(d, server)
    BY <1>1, <1>2, BobFacts, Embeds DEF BobsTurn, Onto
<1> HIDE DEF d
<1>4. Older(server, local', "Server", S)
    BY <1>3 DEF Older, BobsTurn
<1>5. Onto(server, server)
    BY BobFacts, SameNumberSent
<1>6. server' = d \/ server' = server
    BY <1>1 DEF d
<1>7. Older(server', local', "Server", S) /\ Onto(server', server)
    BY <1>3, <1>4, <1>5, <1>6
<1> QED BY <1>2, <1>3, <1>7 DEF BobsTurn, Single

\* A query: the server goes on with the packet it sends, or takes Bob's next, a later one.
LEMMA BobAnswered ==
    ASSUME IInv, DInv, BobsTurn, WnameserverReceiveQuery
    PROVE  BobsTurn' /\ Onto(server', server)
<1>1. PICK f \in BagToSet(queries) :
        LET e == processFragment(server, f)
            bob == IF isTxComplete(e) THEN markServerAppReady(app["Bob"]) ELSE app["Bob"]
            pulls == isTxComplete(e) /\ bob.numAdmittedPkts > 0 /\ canSend(bob)
            loaded == IF pulls THEN handleNewPacket(e, Head(bob.queue)) ELSE e
            next == buildServerResponse(loaded)
        IN  /\ server' = updateRcvApp(next)
            /\ app' = [app EXCEPT !["Bob"] = IF pulls THEN sendPkt(bob) ELSE bob]
            /\ pktTimeouts' = IF pulls THEN [pktTimeouts EXCEPT !["Bob"] = @ + 1]
                                       ELSE pktTimeouts
    BY DEF WnameserverReceiveQuery
<1> DEFINE e == processFragment(server, f)
           bob == IF isTxComplete(e) THEN markServerAppReady(app["Bob"]) ELSE app["Bob"]
           pulls == isTxComplete(e) /\ bob.numAdmittedPkts > 0 /\ canSend(bob)
           h == Head(bob.queue)
           taken == handleNewPacket(e, h)
           loaded == IF pulls THEN taken ELSE e
           next == buildServerResponse(loaded)
           S == SentBy("Bob")
<1>2. /\ server' = updateRcvApp(next)
      /\ app' = [app EXCEPT !["Bob"] = IF pulls THEN sendPkt(bob) ELSE bob]
      /\ pktTimeouts' = IF pulls THEN [pktTimeouts EXCEPT !["Bob"] = @ + 1] ELSE pktTimeouts
    BY <1>1
<1>3. SamePackets(local, local', "Server")
    BY BobFacts, LinksAlone
<1>4. /\ WellFormed(e) /\ e \in Endpoint /\ Onto(e, server) /\ e.outSeqNo = server.outSeqNo
      /\ server.outFragNo = 0 => e.outFragNo = 0
    BY BobFacts, IInvFacts, FlowFacts, Moves DEF DInv
<1>5. /\ bob \in App /\ NumberedApp(bob) /\ bob.sent = app["Bob"].sent
      /\ bob.numAdmittedPkts = app["Bob"].numAdmittedPkts
  <2> DEFINE k == markServerAppReady(app["Bob"])
  <2>1. /\ k \in App /\ k.sent = app["Bob"].sent /\ k.queue = app["Bob"].queue
        /\ k.packetCounter = app["Bob"].packetCounter
        /\ k.numAdmittedPkts = app["Bob"].numAdmittedPkts
    BY BobFacts DEF markServerAppReady, App
  <2> HIDE DEF k
  <2>2. NumberedApp(k)
    BY <2>1, BobFacts, SameNumbers
  <2>3. bob = k \/ bob = app["Bob"]
    BY DEF k
  <2> QED BY <2>1, <2>2, <2>3, BobFacts
<1> HIDE DEF e, bob
<1>6. ASSUME NEW d \in Endpoint, WellFormed(d), loaded = d
      PROVE  server'.outSeqNo = d.outSeqNo /\ server'.outFragNo = d.outFragNo
  <2> HIDE DEF loaded
  <2>1. next \in Endpoint /\ next.outSeqNo = d.outSeqNo /\ next.outFragNo = d.outFragNo
    <3>1. next = d \/ next = incrNumAttempts(d)
      BY <1>6 DEF buildServerResponse, isSending
    <3>2. incrNumAttempts(d) \in Endpoint
      BY <1>6, incrNumAttemptsType DEF WellFormed
    <3> HIDE DEF next
    <3> QED BY <3>1, <3>2, SameNumberSent
  <2> HIDE DEF next
  <2> QED BY <1>2, <2>1, SameNumberSent
<1>7. CASE pulls
  <2>1. /\ h \in Packet /\ h.seq \in Nat /\ \A p \in S : p.seq < h.seq
        /\ SentBy("Bob")' = S \cup {h}
    <3>1. h \in Packet /\ \A p \in Range(bob.sent) : p.seq < h.seq
      BY <1>5, <1>7, HeadIsLater
    <3>2. Range(sendPkt(bob).sent) = Range(bob.sent) \cup {h}
      BY <1>5, <1>7, sendNumbered
    <3>3. app'["Bob"] = sendPkt(bob)
      BY <1>2, <1>7, BobFacts
    <3> QED BY <1>5, <3>1, <3>2, <3>3 DEF SentBy, Packet
  <2>2. DeliveriesOf("Server", local') = {}
    BY <1>3, <1>5, <1>7, BobAdmitted DEF SamePackets
  <2> HIDE DEF h
  <2>3. /\ taken \in Endpoint /\ WellFormed(taken) /\ loaded = taken
        /\ taken.outSeqNo = h.seq /\ taken.outFragNo = 1
    <3>1. taken \in Endpoint /\ WellFormed(taken)
      BY <1>4, <2>1, handleNewPacketType DEF WellFormed
    <3>2. taken.outSeqNo = h.seq /\ taken.outFragNo = 1
      BY <1>4 DEF handleNewPacket, Endpoint
    <3> QED BY <1>7, <3>1, <3>2
  <2> HIDE DEF taken
  <2>4. server'.outSeqNo = h.seq /\ server'.outFragNo = 1
    BY <1>6, <2>3
  <2>5. Onto(server', server)
    <3>1. server.outSeqNo \in Nat /\ server.outFragNo \in Nat
      BY BobFacts DEF Endpoint
    <3>2. CASE server.outSeqNo = 0 /\ server.outFragNo = 0
      BY <2>1, <2>4, <3>2 DEF Onto, NotBefore
    <3>3. CASE \E p \in S : p.seq = server.outSeqNo
      BY <2>1, <2>4, <3>1, <3>3 DEF Onto, NotBefore
    <3> QED BY <3>2, <3>3 DEF BobsTurn, Older
  <2>6. \E p \in S \cup {h} : p.seq = server'.outSeqNo
    BY <2>4
  <2> QED BY <2>1, <2>2, <2>5, <2>6 DEF BobsTurn, Single, Latest, Older
<1>8. CASE ~pulls
  <2>1. SentBy("Bob")' = S /\ pktTimeouts' = pktTimeouts
    BY <1>2, <1>5, <1>8, BobFacts DEF SentBy
  <2>2. server'.outSeqNo = e.outSeqNo /\ server'.outFragNo = e.outFragNo
    BY <1>4, <1>6, <1>8
  <2>3. Onto(server', server)
    BY <1>4, <2>2 DEF Onto
  <2>4. Latest(local', "Server", S) /\ Older(server', local', "Server", S)
    BY <1>3, <1>4, <2>2, OrderKept DEF BobsTurn
  <2>5. Single(local', "Server") /\ DeliveriesOf("Server", local') = DeliveriesOf("Server", local)
    BY <1>3 DEF Single, SamePackets, BobsTurn
  <2> QED BY <2>1, <2>3, <2>4, <2>5 DEF BobsTurn
<1> QED BY <1>7, <1>8

\* Packets reach the server in the order Bob sends them, and it sends them in that order.
LEMMA BobInTurn ==
    ASSUME IInv, DInv, BobsTurn, Next
    PROVE  BobsTurn' /\ Onto(server', server)
<1>1. CASE ReceiveAppSendPacket \/ AppPktTimeout("Bob")
    BY <1>1, BobStarts, BobPaced
<1>2. CASE IServerEmbedding \/ IServerEmbeddingSending
    BY <1>2, BobArrives
<1>3. CASE WnameserverReceiveQuery
    BY <1>3, BobAnswered
<1>4. CASE SendAppSendPacket \/ AppPktTimeout("Alice")
  <2>1. UNCHANGED server
    BY <1>4 DEF SendAppSendPacket, AppPktTimeout
  <2>2. SamePackets(local, local', "Server")
    BY <1>4, BobFacts, OtherLink
  <2> QED BY <1>4, <2>1, <2>2, BobFacts, SentAlone, BobKept
<1>5. CASE IClientEmbedding
  <2>1. PICK m \in BagToSet(local) :
          m.to = "Client" /\ local' = BagRemove(local, m) /\ UNCHANGED server
    BY <1>5 DEF IClientEmbedding
  <2>2. SamePackets(local, local', "Server")
    BY <2>1, BobFacts, BesidePackets
  <2>3. ClientNext
    BY <1>5 DEF ClientNext
  <2> QED BY <2>1, <2>2, <2>3, BobFacts, SentAlone, BobKept
<1>6. CASE \/ \E a \in Apps : AppHandleFile(a)
           \/ ReceiveAppTxDone \/ ReceiveAppRcvPacket \/ SendAppRcvPacket
           \/ ClientNext /\ ~IClientEmbedding
           \/ NetworkNext
  <2>1. UNCHANGED server
    BY <1>6 DEF AppHandleFile, ReceiveAppTxDone, ReceiveAppRcvPacket, SendAppRcvPacket,
           ClientNext, IClientExtractFromServer, WClientExtractOldResponse,
           ClientStartPeriodicPings, ClientPingTimeout, IClientTimeout,
           IClientTimeoutIgnore, NetworkNext, LoseQuery, LoseResponse
  <2>2. SamePackets(local, local', "Server")
    BY <1>6, BobFacts, LinksAlone
  <2> QED BY <1>6, <2>1, <2>2, BobFacts, SentAlone, BobKept
<1> QED BY <1>1, <1>2, <1>3, <1>4, <1>5, <1>6 DEF Next, AppNext, ServerNext, Apps, ClientNext

-----------------------------------------------------------------------------
(* Numbers that were sent *)

\* What a sender puts into a message carries the number it sends.
LEMMA SaysNumber ==
    ASSUME NEW e \in Endpoint, NEW r, NEW S, NEW H, SendTrue(e, r, S, H)
    PROVE  /\ isSending(e) => LET f == grabCurrentFragment(e)
                              IN  f.seq = e.outSeqNo /\ f.frag = e.outFragNo
           /\ LET f == responseFragment(e)
              IN  f.seq = e.outSeqNo /\ f.frag = e.outFragNo
<1>1. CASE isSending(e)
  <2> DEFINE h == Head(e.fragmentsToSend)
             f == grabCurrentFragment(e)
  <2>1. h \in Fragment /\ h = e.fragmentsToSend[1] /\ Len(e.fragmentsToSend) >= 1
    BY <1>1 DEF isSending, Endpoint
  <2>2. PICK p \in S : p.seq = e.outSeqNo /\ Remaining(e.fragmentsToSend, e.outFragNo, p)
    BY <1>1 DEF SendTrue
  <2>3. 1 \in 1..Len(e.fragmentsToSend)
    BY <2>1
  <2>4. PieceOf(h, p) /\ h.frag + 1 = e.outFragNo + 1
    BY <2>1, <2>2, <2>3 DEF Remaining
  <2>5. h.frag \in Nat /\ e.outFragNo \in Nat
    BY <2>1 DEF Fragment, Endpoint
  <2>6. h.seq = e.outSeqNo /\ h.frag = e.outFragNo
    BY <2>2, <2>4, <2>5 DEF PieceOf
  <2>7. f = [h EXCEPT !.ackSeq = e.inSeqNo, !.ackFrag = e.inFragNo]
    BY DEF grabCurrentFragment, insertAck
  <2> HIDE DEF h, f
  <2>8. f.seq = h.seq /\ f.frag = h.frag
    BY <2>1, <2>7 DEF Fragment
  <2>9. responseFragment(e) = f
    BY <1>1 DEF responseFragment, f
  <2> QED BY <2>6, <2>8, <2>9 DEF f
<1>2. CASE ~isSending(e)
    BY <1>2 DEF responseFragment, fragment
<1> QED BY <1>1, <1>2

\* What is taken of D is taken whatever else D holds.
LEMMA TakenOf ==
    ASSUME NEW r, NEW r2, NEW D, NEW f \in D, Receiving(r, r2, {f})
    PROVE  Receiving(r, r2, D)
BY DEF Receiving

\* What an endpoint names as received may lose its fragment number, nothing else.
LEMMA StillReceiving ==
    ASSUME NEW r, NEW e, NEW r2, NEW D, Receiving(r, e, D),
           r2.inSeqNo = e.inSeqNo, r2.inFragNo \in {e.inFragNo, 0}
    PROVE  Receiving(r, r2, D)
BY DEF Receiving

\* The client receives at most one fragment, of a response on its way.
LEMMA ClientReceives ==
    ASSUME IInv, DInv, Next
    PROVE  Receiving(client, client', BagToSet(responses))
<1>1. client \in Endpoint /\ WellFormed(client)
    BY DEF IInv, TypeOK
<1>2. ASSUME lastReceived(client') = lastReceived(client)
      PROVE  Receiving(client, client', BagToSet(responses))
    BY <1>2 DEF Receiving, lastReceived
<1>3. CASE IClientEmbedding
  <2>1. PICK m \in BagToSet(local) :
          /\ m.kind = "packet"
          /\ client' = incrNumAttempts(handleNewPacket(client, m.pkt))
    BY <1>3 DEF IClientEmbedding
  <2>2. m.pkt \in Packet
    BY <2>1, IInvFacts, MsgTypes
  <2>3. handleNewPacket(client, m.pkt) \in Endpoint
    BY <1>1, <2>2, handleNewPacketType DEF WellFormed
  <2>4. lastReceived(client') = lastReceived(client)
    BY <1>1, <2>1, <2>2, <2>3, SendingKeepsReceived
  <2> QED BY <1>2, <2>4
<1>4. CASE IClientExtractFromServer
  <2>1. PICK f \in BagToSet(responses) :
          LET e == processFragment(client, f)
          IN  client' = updateRcvAppAlice(IF isSending(e) THEN incrNumAttempts(e) ELSE e)
    BY <1>4 DEF IClientExtractFromServer
  <2> DEFINE e == processFragment(client, f)
  <2>2. f \in Fragment /\ WellFormed(e)
    BY <1>1, IInvFacts, processFragmentType
  <2>3. Receiving(client, e, BagToSet(responses))
    BY <1>1, <2>2, ProcessesOn, TakenOf
  <2>4. client' = updateRcvAppAlice(IF isSending(e) THEN incrNumAttempts(e) ELSE e)
    BY <2>1
  <2> HIDE DEF e
  <2>5. lastReceived(client') = lastReceived(e)
    BY <2>2, <2>4, incrNumAttemptsType, SendingKeepsReceived DEF WellFormed
  <2> QED BY <2>3, <2>5, StillReceiving DEF lastReceived
<1>5. CASE IClientTimeout
  <2>1. client' = dropFragmentsToSend(client) \/ client' = incrNumAttempts(client)
    BY <1>5 DEF IClientTimeout
  <2> QED BY <1>1, <1>2, <2>1, SendingKeepsReceived
<1>6. CASE WClientExtractOldResponse \/ ClientStartPeriodicPings \/ ClientPingTimeout
           \/ IClientTimeoutIgnore
  <2>1. client' = client
    BY <1>6 DEF WClientExtractOldResponse, ClientStartPeriodicPings, ClientPingTimeout,
           IClientTimeoutIgnore
  <2> QED BY <1>2, <2>1
<1>7. CASE AppNext \/ ServerNext \/ NetworkNext
  <2>1. client' = client
    BY <1>7 DEF AppNext, AppHandleFile, AppPktTimeout, SendAppSendPacket, SendAppRcvPacket,
           ReceiveAppSendPacket, ReceiveAppTxDone, ReceiveAppRcvPacket, ServerNext,
           IServerEmbedding, IServerEmbeddingSending, WnameserverReceiveQuery,
           NetworkNext, LoseQuery, LoseResponse
  <2> QED BY <1>2, <2>1
<1> QED BY <1>3, <1>4, <1>5, <1>6, <1>7 DEF Next, ClientNext

\* A query: what the server receives with it, and what it answers.
LEMMA ServerAnswers ==
    ASSUME IInv, DInv, WnameserverReceiveQuery
    PROVE  /\ Receiving(server, server', BagToSet(queries))
           /\ Repeating(server', BagToSet(responses), BagToSet(responses'))
           /\ BagToSet(queries') \subseteq BagToSet(queries)
<1>1. PICK f \in BagToSet(queries) :
        LET e == processFragment(server, f)
            bob == IF isTxComplete(e) THEN markServerAppReady(app["Bob"]) ELSE app["Bob"]
            pulls == isTxComplete(e) /\ bob.numAdmittedPkts > 0 /\ canSend(bob)
            loaded == IF pulls THEN handleNewPacket(e, Head(bob.queue)) ELSE e
        IN  /\ queries' = BagRemove(queries, f)
            /\ responses' = BagAdd(responses, responseFragment(loaded))
            /\ server' = updateRcvApp(buildServerResponse(loaded))
    BY DEF WnameserverReceiveQuery
<1> DEFINE e == processFragment(server, f)
           bob == IF isTxComplete(e) THEN markServerAppReady(app["Bob"]) ELSE app["Bob"]
           pulls == isTxComplete(e) /\ bob.numAdmittedPkts > 0 /\ canSend(bob)
           h == Head(bob.queue)
           loaded == IF pulls THEN handleNewPacket(e, h) ELSE e
           next == buildServerResponse(loaded)
           S == SentBy("Bob")
           H == HandedTo("Alice")
<1>2. /\ queries' = BagRemove(queries, f)
      /\ responses' = BagAdd(responses, responseFragment(loaded))
      /\ server' = updateRcvApp(next)
    BY <1>1
<1>3. f \in Fragment /\ WellFormed(server) /\ server \in Endpoint
    BY IInvFacts DEF IInv, WellFormed
<1>4. /\ WellFormed(e) /\ e \in Endpoint /\ Receiving(server, e, BagToSet(queries))
      /\ SendTrue(e, client, S, H)
  <2>1. /\ SendTrue(server, client, S, H)
        /\ AckTrue(f.ackSeq, f.ackFrag, client, S, H)
        /\ S \subseteq Packet /\ \A p, q \in S : p.seq = q.seq => p = q
    BY FlowFacts, Bases DEF DInv, Apps
  <2> HIDE DEF S, H
  <2> QED BY <1>3, <2>1, Processes, ProcessesOn, TakenOf DEF WellFormed
<1> HIDE DEF e
<1>5. bob \in App
    BY IInvFacts, SetAppAttribute DEF Apps, markServerAppReady
<1> HIDE DEF bob
<1>6. pulls => h \in Packet
    BY <1>5 DEF canSend, App
<1> HIDE DEF h
<1>7. /\ WellFormed(loaded) /\ loaded \in Endpoint /\ lastReceived(loaded) = lastReceived(e)
      /\ SendTrue(loaded, client, S, H) \/ SendTrue(loaded, client, {h}, H)
    BY <1>4, <1>6, handleNewPacketType, SendingKeepsReceived, NewPacketTrue DEF WellFormed
<1> HIDE DEF loaded
<1>8. /\ next \in Endpoint /\ lastReceived(next) = lastReceived(loaded)
      /\ next.outSeqNo = loaded.outSeqNo /\ next.outFragNo = loaded.outFragNo
    BY <1>7, incrNumAttemptsType, SendingKeepsReceived, SameNumberSent
       DEF buildServerResponse, WellFormed
<1> HIDE DEF next
<1>9. /\ server'.inSeqNo = next.inSeqNo /\ server'.inFragNo \in {next.inFragNo, 0}
      /\ server'.outSeqNo = next.outSeqNo /\ server'.outFragNo = next.outFragNo
  <2>1. server'.inSeqNo = next.inSeqNo /\ server'.inFragNo \in {next.inFragNo, 0}
    BY <1>2, <1>8 DEF updateRcvApp, Endpoint
  <2> QED BY <1>2, <1>8, <2>1, SameNumberSent
<1>10. Receiving(server, server', BagToSet(queries))
    BY <1>4, <1>7, <1>8, <1>9, StillReceiving DEF lastReceived
<1>11. Repeating(server', BagToSet(responses), BagToSet(responses'))
  <2> DEFINE x == responseFragment(loaded)
  <2>1. x.seq = loaded.outSeqNo /\ x.frag = loaded.outFragNo
    BY <1>7, SaysNumber
  <2> HIDE DEF x
  <2>2. BagToSet(responses') = BagToSet(responses) \cup {x}
    BY <1>2, IInvFacts, BagAddFacts DEF x
  <2> QED BY <1>8, <1>9, <2>1, <2>2 DEF Repeating
<1>12. BagToSet(queries') \subseteq BagToSet(queries)
    BY <1>2, IInvFacts, BagRemoveFacts
<1> QED BY <1>10, <1>11, <1>12

\* The server receives at most one fragment, of a query on its way; its answers repeat the
\* number it sends.
LEMMA ServerReceives ==
    ASSUME IInv, DInv, Next
    PROVE  /\ Receiving(server, server', BagToSet(queries))
           /\ Repeating(server', BagToSet(responses), BagToSet(responses'))
<1>1. server \in Endpoint /\ WellFormed(server)
    BY DEF IInv, TypeOK
<1>2. ASSUME lastReceived(server') = lastReceived(server),
             BagToSet(responses') \subseteq BagToSet(responses)
      PROVE  /\ Receiving(server, server', BagToSet(queries))
             /\ Repeating(server', BagToSet(responses), BagToSet(responses'))
    BY <1>2 DEF Receiving, Repeating, lastReceived
<1>3. CASE IServerEmbedding
  <2>1. PICK m \in BagToSet(local) :
          /\ m.kind = "packet" /\ responses' = responses
          /\ server' = handleNewPacket(server, m.pkt)
    BY <1>3 DEF IServerEmbedding
  <2>2. m.pkt \in Packet
    BY <2>1, IInvFacts, MsgTypes
  <2>3. lastReceived(server') = lastReceived(server)
    BY <1>1, <2>1, <2>2, SendingKeepsReceived
  <2> QED BY <1>2, <2>1, <2>3
<1>4. CASE WnameserverReceiveQuery
    BY <1>4, ServerAnswers
<1>5. CASE IClientExtractFromServer \/ WClientExtractOldResponse \/ LoseResponse
  <2>1. \E f \in BagToSet(responses) : responses' = BagRemove(responses, f)
    BY <1>5 DEF IClientExtractFromServer, WClientExtractOldResponse, LoseResponse
  <2>2. server' = server
    BY <1>5 DEF IClientExtractFromServer, WClientExtractOldResponse, LoseResponse
  <2> QED BY <1>2, <2>1, <2>2, IInvFacts, BagRemoveFacts
<1>6. CASE \/ AppNext \/ IServerEmbeddingSending \/ LoseQuery
           \/ IClientEmbedding \/ ClientStartPeriodicPings \/ ClientPingTimeout
           \/ IClientTimeout \/ IClientTimeoutIgnore
  <2>1. server' = server /\ responses' = responses
    BY <1>6 DEF AppNext, AppHandleFile, AppPktTimeout, SendAppSendPacket, SendAppRcvPacket,
           ReceiveAppSendPacket, ReceiveAppTxDone, ReceiveAppRcvPacket, LoseQuery,
           IServerEmbeddingSending, IClientEmbedding, ClientStartPeriodicPings,
           ClientPingTimeout, IClientTimeout, IClientTimeoutIgnore
  <2> QED BY <1>2, <2>1
<1> QED BY <1>3, <1>4, <1>5, <1>6 DEF Next, ClientNext, ServerNext, NetworkNext

\* Queries repeat the number the client sends, or are pings.
LEMMA ClientRepeats ==
    ASSUME IInv, DInv, Next
    PROVE  Repeating(client', BagToSet(queries), BagToSet(queries'))
<1> DEFINE S == SentBy("Alice")
           H == HandedTo("Bob")
<1>1. /\ client \in Endpoint /\ WellFormed(client) /\ SendTrue(client, server, S, H)
      /\ S \subseteq Packet /\ \A p, q \in S : p.seq = q.seq => p = q
    BY FlowFacts, Bases DEF IInv, TypeOK, DInv, Apps
<1> HIDE DEF S, H
<1>2. CASE BagToSet(queries') \subseteq BagToSet(queries)
    BY <1>2 DEF Repeating
<1>3. ASSUME NEW e \in Endpoint, isSending(e), NEW T, SendTrue(e, server, T, H),
             client'.outSeqNo = e.outSeqNo, client'.outFragNo = e.outFragNo,
             queries' = BagAdd(queries, grabCurrentFragment(e))
      PROVE  Repeating(client', BagToSet(queries), BagToSet(queries'))
  <2> DEFINE x == grabCurrentFragment(e)
  <2>1. x.seq = e.outSeqNo /\ x.frag = e.outFragNo
    BY <1>3, SaysNumber
  <2> HIDE DEF x
  <2>2. BagToSet(queries') = BagToSet(queries) \cup {x}
    BY <1>3, IInvFacts, BagAddFacts DEF x
  <2> QED BY <1>3, <2>1, <2>2 DEF Repeating
<1>4. ASSUME NEW e, queries' = BagAdd(queries, pingFragment(e))
      PROVE  Repeating(client', BagToSet(queries), BagToSet(queries'))
  <2> DEFINE x == pingFragment(e)
  <2>1. x.seq = 0 /\ x.frag = 0
    BY PingSays
  <2> HIDE DEF x
  <2>2. BagToSet(queries') = BagToSet(queries) \cup {x}
    BY <1>4, IInvFacts, BagAddFacts DEF x
  <2> QED BY <2>1, <2>2 DEF Repeating
<1>5. CASE IClientEmbedding
  <2>1. PICK m \in BagToSet(local) :
          /\ m.kind = "packet"
          /\ client' = incrNumAttempts(handleNewPacket(client, m.pkt))
          /\ queries' = BagAdd(queries, grabCurrentFragment(handleNewPacket(client, m.pkt)))
    BY <1>5 DEF IClientEmbedding, Transmit
  <2> DEFINE e == handleNewPacket(client, m.pkt)
  <2>2. m.pkt \in Packet
    BY <2>1, IInvFacts, MsgTypes
  <2>3. e \in Endpoint /\ isSending(e) /\ SendTrue(e, server, {m.pkt}, H)
    BY <1>1, <2>2, handleNewPacketType, NewPacketTrue DEF WellFormed
  <2>4. client' = incrNumAttempts(e) /\ queries' = BagAdd(queries, grabCurrentFragment(e))
    BY <2>1
  <2> HIDE DEF e
  <2> QED BY <1>3, <2>3, <2>4, SameNumberSent
<1>6. CASE IClientExtractFromServer
  <2>1. PICK f \in BagToSet(responses) :
          LET e == processFragment(client, f)
              pings == ~isSending(e) /\ ~isEmptyFile(f) /\ ~f.lastFrag
          IN  /\ client' = updateRcvAppAlice(IF isSending(e) THEN incrNumAttempts(e) ELSE e)
              /\ IF isSending(e)
                 THEN Transmit(e)
                 ELSE queries' = AddIf(queries, pings, pingFragment(e))
    BY <1>6 DEF IClientExtractFromServer
  <2> DEFINE e == processFragment(client, f)
             d == IF isSending(e) THEN incrNumAttempts(e) ELSE e
  <2>2. /\ client' = updateRcvAppAlice(d)
        /\ isSending(e) => queries' = BagAdd(queries, grabCurrentFragment(e))
        /\ ~isSending(e) => queries' = queries \/ queries' = BagAdd(queries, pingFragment(e))
    BY <2>1 DEF Transmit, AddIf
  <2>3. /\ f \in Fragment
        /\ AckTrue(f.ackSeq, f.ackFrag, server, S, H)
    BY IInvFacts, FlowFacts DEF DInv, S, H
  <2>4. WellFormed(e) /\ e \in Endpoint /\ SendTrue(e, server, S, H)
    BY <1>1, <2>3, Processes DEF WellFormed
  <2> HIDE DEF e
  <2>5. d \in Endpoint /\ d.outSeqNo = e.outSeqNo /\ d.outFragNo = e.outFragNo
    BY <2>4, SameNumberSent, incrNumAttemptsType DEF WellFormed
  <2> HIDE DEF d
  <2>6. client'.outSeqNo = e.outSeqNo /\ client'.outFragNo = e.outFragNo
    BY <2>2, <2>5, SameNumberSent
  <2> QED BY <1>2, <1>3, <1>4, <2>2, <2>4, <2>6
<1>7. CASE IClientTimeout
  <2>1. /\ isSending(client)
        /\ \/ queries' = queries
           \/ /\ client' = incrNumAttempts(client)
              /\ queries' = BagAdd(queries, grabCurrentFragment(client))
    BY <1>7 DEF IClientTimeout, isTimeOutMoot
  <2> QED BY <1>1, <1>2, <1>3, <2>1, SameNumberSent
<1>8. CASE ClientPingTimeout
    BY <1>4, <1>8 DEF ClientPingTimeout
<1>9. CASE WnameserverReceiveQuery
    BY <1>2, <1>9, ServerAnswers
<1>10. CASE LoseQuery
  <2>1. \E f \in BagToSet(queries) : queries' = BagRemove(queries, f)
    BY <1>10 DEF LoseQuery
  <2> QED BY <1>2, <2>1, IInvFacts, BagRemoveFacts
<1>11. CASE \/ AppNext \/ IServerEmbedding \/ IServerEmbeddingSending \/ LoseResponse
            \/ WClientExtractOldResponse \/ ClientStartPeriodicPings \/ IClientTimeoutIgnore
  <2>1. queries' = queries
    BY <1>11 DEF AppNext, AppHandleFile, AppPktTimeout, SendAppSendPacket, SendAppRcvPacket,
           ReceiveAppSendPacket, ReceiveAppTxDone, ReceiveAppRcvPacket, LoseResponse,
           IServerEmbedding, IServerEmbeddingSending, WClientExtractOldResponse,
           ClientStartPeriodicPings, IClientTimeoutIgnore
  <2> QED BY <1>2, <2>1
<1> QED BY <1>5, <1>6, <1>7, <1>8, <1>9, <1>10, <1>11
        DEF Next, ClientNext, ServerNext, NetworkNext

-----------------------------------------------------------------------------
(* Nothing is received before it was sent *)

UpAhead == Ahead(client, server, BagToSet(queries))
DownAhead == Ahead(server, client, BagToSet(responses))

\* As packets leave in order, senders stay ahead.
LEMMA NextAhead ==
    ASSUME IInv, DInv, IInv', Next
    PROVE  /\ DownAhead /\ Onto(server', server) => DownAhead'
           /\ UpAhead /\ Onto(client', client) => UpAhead'
<1>1. /\ client \in Endpoint /\ server \in Endpoint
      /\ client' \in Endpoint /\ server' \in Endpoint
      /\ BagToSet(queries) \subseteq Fragment /\ BagToSet(responses) \subseteq Fragment
      /\ BagToSet(queries') \subseteq Fragment /\ BagToSet(responses') \subseteq Fragment
    BY DEF IInv, TypeOK
<1>2. ASSUME DownAhead, Onto(server', server) PROVE DownAhead'
    BY <1>1, <1>2, ClientReceives, ServerReceives, StaysAhead DEF DownAhead, Onto
<1>3. ASSUME UpAhead, Onto(client', client) PROVE UpAhead'
    BY <1>1, <1>3, ServerReceives, ClientRepeats, StaysAhead DEF UpAhead, Onto
<1> QED BY <1>2, <1>3

\* At first nothing was sent.
LEMMA InitTurns == Init => AlicesTurn /\ BobsTurn /\ UpAhead /\ DownAhead
<1> SUFFICES ASSUME Init PROVE AlicesTurn /\ BobsTurn /\ UpAhead /\ DownAhead
    OBVIOUS
<1>1. \A m \in BagToSet(local) : m.kind # "packet"
  <2> DEFINE B == {Signal(a, "start") : a \in {b \in Apps : OwnFile[b] # NoFile}}
  <2>1. \A m \in B : m.kind # "packet"
    BY DEF Signal
  <2>2. local = SetToBag(B)
    BY DEF Init
  <2> HIDE DEF B
  <2> QED BY <2>1, <2>2, SetToBagFacts
<1>2. \A x : DeliveriesOf(x, local) = {}
    BY <1>1 DEF DeliveriesOf
<1>3. \A e \in {client, server} :
          e.outSeqNo = 0 /\ e.outFragNo = 0 /\ e.inSeqNo = 0 /\ e.inFragNo = 0
    BY DEF Init, makeEndpoint
<1>4. BagToSet(queries) = {} /\ BagToSet(responses) = {}
    BY EmptyBagFacts DEF Init
<1>5. AlicesTurn /\ BobsTurn
    BY <1>2, <1>3 DEF AlicesTurn, BobsTurn, Single, Latest, Older
<1>6. UpAhead /\ DownAhead
    BY <1>3, <1>4 DEF UpAhead, DownAhead, Ahead, NotBefore
<1> QED BY <1>5, <1>6

\* Where nothing happens, all stays.
LEMMA StutterTurns ==
    ASSUME UNCHANGED vars
    PROVE  /\ AlicesTurn' = AlicesTurn /\ BobsTurn' = BobsTurn
           /\ UpAhead' = UpAhead /\ DownAhead' = DownAhead
BY DEF vars, AlicesTurn, BobsTurn, UpAhead, DownAhead, SentBy, Latest, Older, Single,
       DeliveriesOf

\* The downstream half of NoNumberFromTheFuture.
ClientNotAhead == \/ client.inSeqNo < server.outSeqNo
                  \/ client.inSeqNo = server.outSeqNo /\ client.inFragNo <= server.outFragNo

\* Downstream, whatever is lost, repeated or overtaken, the client never names a fragment
\* that the server has not sent yet: Bob's packets are pulled by a query or brought to the
\* server one at a time, in the order in which he numbered them.
THEOREM NothingEarlyDownstream == Spec => []ClientNotAhead
<1>1. IInv /\ DInv /\ BobsTurn /\ DownAhead /\ [Next]_vars => BobsTurn' /\ DownAhead'
    BY NextIInv, BobInTurn, NextAhead, StutterTurns
<1>2. IInv /\ DownAhead => ClientNotAhead
  <2>1. \A a, b, c, d \in Nat :
            NotBefore(a, b, c, d) => c < a \/ (c = a /\ d <= b)
    BY DEF NotBefore
  <2> QED BY <2>1 DEF IInv, TypeOK, Endpoint, DownAhead, Ahead, ClientNotAhead
<1> QED BY <1>1, <1>2, InitTurns, Delivery, PTL DEF Spec

\* As long as no two of Alice's packets wait at the client, neither endpoint names a
\* fragment that the other one has not sent yet.
THEOREM NothingEarly == Spec /\ []OneWaits => []NoNumberFromTheFuture
<1>1. IInv /\ DInv /\ AlicesTurn /\ UpAhead /\ OneWaits /\ OneWaits' /\ [Next]_vars
          => AlicesTurn' /\ UpAhead'
    BY NextIInv, AliceInTurn, NextAhead, StutterTurns
<1>2. IInv /\ UpAhead /\ ClientNotAhead => NoNumberFromTheFuture
  <2>1. \A a, b, c, d \in Nat :
            NotBefore(a, b, c, d) => c < a \/ (c = a /\ d <= b)
    BY DEF NotBefore
  <2> QED BY <2>1 DEF IInv, TypeOK, Endpoint, UpAhead, Ahead, ClientNotAhead,
                      NoNumberFromTheFuture
<1> QED BY <1>1, <1>2, InitTurns, Delivery, NothingEarlyDownstream, PTL DEF Spec
=============================================================================
