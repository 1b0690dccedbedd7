----------------------------- MODULE IodineNode -----------------------------
(***************************************************************************)
(* The functions of IODINE_NODE (lib/dns/maude/common/_aux.maude) that the *)
(* rules of the Iodine tunnel apply to the attributes of its actors: the   *)
(* two applications (SendApp, RcvApp) and the two endpoints (WClient,      *)
(* WNameserver).  An attribute set is a record, a Maude list a sequence.   *)
(*                                                                         *)
(* Sizes are counted in fragments: a packet of length n is one the         *)
(* endpoint cuts into n fragments.  Addresses are left out, since an       *)
(* instance has one Alice, one client, one server and one Bob.             *)
(***************************************************************************)
EXTENDS Naturals, Sequences

CONSTANTS
    Files,              \* the files the applications may be given
    NoFile,             \* file(0,0): the content of pings and dataless fragments
    PacketLens,         \* [Files -> Seq(Nat \ {0})]: the packets of each file
    maxFragmentTx,      \* transmission tries of the client (3 in parameters)
    serverTries         \* the server gives up after this many responses (5)

ASSUME NodeAssumption ==
    /\ NoFile \notin Files
    /\ PacketLens \in [Files -> Seq(Nat \ {0})]
    /\ maxFragmentTx \in Nat \ {0}
    /\ serverTries \in Nat \ {0}

-----------------------------------------------------------------------------
(* Packets and fragments *)

Packet == [file: Files \cup {NoFile}, seq: Nat, len: Nat \ {0}, lastPacket: BOOLEAN]

Fragment == [file: Files \cup {NoFile}, seq: Nat, frag: Nat,
             ackSeq: Nat, ackFrag: Nat, lastPacket: BOOLEAN, lastFrag: BOOLEAN]

packet(f, s, n, last) == [file |-> f, seq |-> s, len |-> n, lastPacket |-> last]

nilPacket == packet(NoFile, 0, 0, FALSE)

fragment(f, s, n, as, af, lp, lf) ==
    [file |-> f, seq |-> s, frag |-> n, ackSeq |-> as, ackFrag |-> af,
     lastPacket |-> lp, lastFrag |-> lf]

\* True of pings and of dataless responses.
isEmptyFile(f) == f.file = NoFile

\* The numbered fragments of a packet; only the last one is marked.
makeFragments(p) ==
    [i \in 1..p.len |-> fragment(p.file, p.seq, i, 0, 0, p.lastPacket, i = p.len)]

\* Reassembly: the header of the first fragment, the summed lengths of all.
makePacket(fl) == packet(fl[1].file, fl[1].seq, Len(fl), fl[1].lastPacket)

popFront(fl) == IF fl = <<>> THEN <<>> ELSE Tail(fl)

-----------------------------------------------------------------------------
(* Applications *)

App == [queue: Seq(Packet), packetCounter: Nat, numAdmittedPkts: Nat,
        iodineReady: BOOLEAN, queuePopulated: BOOLEAN,
        sent: Seq(Packet), rcvd: Seq(Packet)]

\* An application that sends a file of its own starts with queuePopulated down.
makeApp(populated) ==
    [queue |-> <<>>, packetCounter |-> 0, numAdmittedPkts |-> 1,
     iodineReady |-> TRUE, queuePopulated |-> populated,
     sent |-> <<>>, rcvd |-> <<>>]

\* Variant of packetizeProb: numbering starts one before packetCounter.
packetizeProbEarly(a, f) ==
    LET lens == PacketLens[f]
    IN  [a EXCEPT
          !.queue = @ \o [i \in 1..Len(lens) |->
                            packet(f, a.packetCounter + i - 2, lens[i], i = Len(lens))],
          !.packetCounter = @ + Len(lens)]

\* The packets of file f are numbered on from packetCounter and queued.
packetizeProb(a, f) ==
    LET lens == PacketLens[f]
    IN  [a EXCEPT
          !.queue = @ \o [i \in 1..Len(lens) |->
                            packet(f, a.packetCounter + i - 1, lens[i], i = Len(lens))],
          !.packetCounter = @ + Len(lens)]

\* Variant of sendPkt: the admission is not used up.
sendPktUnpaced(a) ==
    [a EXCEPT !.queue = Tail(@), !.sent = <<Head(a.queue)>> \o @, !.iodineReady = FALSE]

\* Take the head of a (non-empty) queue; iodineReady stays down until a signal.
sendPkt(a) ==
    [a EXCEPT !.queue = Tail(@),
              !.sent = <<Head(a.queue)>> \o @,
              !.numAdmittedPkts = IF @ > 0 THEN @ - 1 ELSE 0,
              !.iodineReady = FALSE]

markServerAppReady(a) == [a EXCEPT !.iodineReady = TRUE]

-----------------------------------------------------------------------------
(* Endpoints *)

\* numAttempts is only ever compared with 2, maxFragmentTx and serverTries:
\* counting stops above all three.
AttemptsCap == 2 + maxFragmentTx + serverTries

Endpoint == [outSeqNo: Nat, outFragNo: Nat, numAttempts: 0..AttemptsCap,
             fragmentsToSend: Seq(Fragment), fragmentsReceived: Seq(Fragment),
             inSeqNo: Nat, inFragNo: Nat, lastFragment: BOOLEAN]

makeEndpoint ==
    [outSeqNo |-> 0, outFragNo |-> 0, numAttempts |-> 0,
     fragmentsToSend |-> <<>>, fragmentsReceived |-> <<>>,
     inSeqNo |-> 0, inFragNo |-> 0, lastFragment |-> FALSE]

isSending(e) == e.fragmentsToSend # <<>>

isTxComplete(e) == e.fragmentsToSend = <<>>

isMaxAttemptsReached(e) == e.numAttempts > maxFragmentTx

incrNumAttempts(e) ==
    [e EXCEPT !.numAttempts = IF @ < AttemptsCap THEN @ + 1 ELSE @]

dropFragmentsToSend(e) == [e EXCEPT !.fragmentsToSend = <<>>, !.numAttempts = 0]

\* A new packet replaces whatever was being sent.
handleNewPacket(e, p) ==
    [e EXCEPT !.outSeqNo = p.seq, !.outFragNo = 1, !.numAttempts = 0,
              !.fragmentsToSend = makeFragments(p)]

\* The current fragment is acknowledged; after the last one outFragNo stays.
moveFragmentUp(e) ==
    [e EXCEPT !.fragmentsToSend = popFront(@),
              !.outFragNo = IF Len(e.fragmentsToSend) > 1 THEN @ + 1 ELSE @,
              !.numAttempts = 0]

\* The ack is bound when the fragment leaves, not when it was cut.
insertAck(e, f) == [f EXCEPT !.ackSeq = e.inSeqNo, !.ackFrag = e.inFragNo]

grabCurrentFragment(e) == insertAck(e, Head(e.fragmentsToSend))

\* Variant of isAckMatch: the packet number is not compared.
isAckMatchFragOnly(e, f) == e.outFragNo = f.ackFrag

isAckMatch(e, f) == e.outSeqNo = f.ackSeq /\ e.outFragNo = f.ackFrag

\* Variant of flushFragmentsReceived: it notes the packet expected next.
flushFragmentsReceivedNext(e, f) ==
    [e EXCEPT !.fragmentsReceived = <<f>>, !.lastFragment = f.lastFrag,
              !.inSeqNo = f.seq + 1, !.inFragNo = f.frag]

flushFragmentsReceived(e, f) ==
    [e EXCEPT !.fragmentsReceived = <<f>>, !.lastFragment = f.lastFrag,
              !.inSeqNo = f.seq, !.inFragNo = f.frag]

\* Variant of acceptFragment: any other packet number restarts reassembly.
acceptFragmentAnyOther(e, f) ==
    IF f.seq # e.inSeqNo THEN flushFragmentsReceived(e, f)
    ELSE IF f.frag > e.inFragNo
         THEN [e EXCEPT !.fragmentsReceived = Append(@, f),
                        !.lastFragment = f.lastFrag, !.inFragNo = f.frag]
         ELSE e

\* Variant of acceptFragment: the fragment just taken is taken again.
acceptFragmentRepeated(e, f) ==
    IF f.seq > e.inSeqNo THEN flushFragmentsReceived(e, f)
    ELSE IF f.seq = e.inSeqNo /\ f.frag >= e.inFragNo
         THEN [e EXCEPT !.fragmentsReceived = Append(@, f),
                        !.lastFragment = f.lastFrag, !.inFragNo = f.frag]
         ELSE e

\* A higher packet number restarts reassembly; of the current packet only a
\* higher fragment number is taken; everything else is ignored.
acceptFragment(e, f) ==
    IF f.seq > e.inSeqNo THEN flushFragmentsReceived(e, f)
    ELSE IF f.seq = e.inSeqNo /\ f.frag > e.inFragNo
         THEN [e EXCEPT !.fragmentsReceived = Append(@, f),
                        !.lastFragment = f.lastFrag, !.inFragNo = f.frag]
         ELSE e

\* Variant of processFragment: every message counts as an ack.
processFragmentAnyAck(e, f) == moveFragmentUp(acceptFragment(e, f))

\* extract (client) and processQuery (server): accept the data, then the ack.
processFragment(e, f) ==
    LET taken == acceptFragment(e, f)
    IN  IF isAckMatch(taken, f) THEN moveFragmentUp(taken) ELSE taken

\* What a ping carries: no data, number (0, 0), the current ack.
pingFragment(e) == fragment(NoFile, 0, 0, e.inSeqNo, e.inFragNo, FALSE, FALSE)

\* The data of a response: the current fragment, or an empty one that repeats
\* the number of the last fragment sent.
responseFragment(e) ==
    IF isSending(e) THEN grabCurrentFragment(e)
    ELSE fragment(NoFile, e.outSeqNo, e.outFragNo, e.inSeqNo, e.inFragNo, FALSE, FALSE)

\* Only a response with data counts as an attempt.
buildServerResponse(e) == IF isSending(e) THEN incrNumAttempts(e) ELSE e

\* State after a completed packet went up: the server also forgets inFragNo,
\* the client (updateRcvAppAlice) does not.
updateRcvApp(e) ==
    IF e.lastFragment
    THEN [e EXCEPT !.fragmentsReceived = <<>>, !.lastFragment = FALSE, !.inFragNo = 0]
    ELSE e

\* Variant of updateRcvAppAlice: it forgets inFragNo as the server does.
updateRcvAppAliceForgets(e) == updateRcvApp(e)

updateRcvAppAlice(e) ==
    IF e.lastFragment
    THEN [e EXCEPT !.fragmentsReceived = <<>>, !.lastFragment = FALSE]
    ELSE e

isTimeOutMatch(e, t) == e.outSeqNo = t[1] /\ e.outFragNo = t[2]
=============================================================================
