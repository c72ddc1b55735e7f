-------------------------- MODULE SlidingWindow_inv --------------------------
(***************************************************************************)
(* Proofs about SlidingWindow, for every window size and any number of     *)
(* frames: type correctness, the inductive invariant Links, and that the   *)
(* steps of the sender, of the receiver and of its client preserve it.     *)
(* SlotRings_proofs goes on with the theorems.                             *)
(***************************************************************************)
EXTENDS SlidingWindow, TLAPS

\* The largest AckNum the receiver at o can have sent: what its client has
\* consumed, and 0 before it has consumed anything.
AckLimit(o) == IF LastMsgConsumed[o] < 0 THEN 0 ELSE LastMsgConsumed[o]

\* The receiver of the frames of e has counted them consistently.
CountersInv(e) ==
  LET o == Other(e)
  IN  /\ -1 <= LastMsgConsumed[o]
      /\ LastMsgConsumed[o] < NextFrameExpected[o]
      /\ NextFrameExpected[o] - 1 <= LargestSeqnoRcvd[o]
      /\ LargestSeqnoRcvd[o] <= LastFrameSent[e]
      /\ LastFrameClientConsumed[o] <= AckLimit(o)
      /\ recvLastFrameClientConsumed[o] <= AckLimit(o)

\* The retry trees hold the frames after some frame a that was acknowledged.
RetryInv(e) ==
  \E a \in -1 .. LastFrameSent[e] :
    /\ a <= AckLimit(Other(e))
    /\ SentButNotAcked[e] = a + 1 .. LastFrameSent[e]

\* No capacity in use exceeds the receive buffer, nor do the frames sent.
CapacityInv(e) ==
  LET o == Other(e)
  IN  /\ AvailReaderMsgCap[o] <= RecvWindowSize[o]
      /\ LastSeenAvailReaderMsgCap[e] <= RecvWindowSize[o]
      /\ LastFrameSent[e] <= RecvWindowSize[o] + AckLimit(o)

\* Every packet on its way to e was right when sent and is still safe to use.
PacketInv(e) ==
  \A p \in net : p.dest = e =>
    /\ p.ack <= AckLimit(Other(e))
    /\ p.msgs <= RecvWindowSize[Other(e)]
    /\ p.seq <= LastFrameSent[Other(e)]
    /\ p.event = "Data" => p.seq >= 0

\* The receiver holds the frames accepted and not consumed, and no others.
HeldInv(e) ==
  LET o == Other(e)
  IN  /\ \A s \in Rxq[o] : NextFrameExpected[o] <= s /\ s \in RcvdButNotConsumed[o]
      /\ \A s \in Nat : LastMsgConsumed[o] < s /\ s < NextFrameExpected[o]
                          => s \in RcvdButNotConsumed[o]
      /\ \A s \in RcvdButNotConsumed[o] : LastMsgConsumed[o] < s /\ s <= LargestSeqnoRcvd[o]

LinkInv(e) == CountersInv(e) /\ RetryInv(e) /\ CapacityInv(e) /\ PacketInv(e) /\ HeldInv(e)

-----------------------------------------------------------------------------
(* Facts about the operators *)

\* A session has two endpoints, each the other's peer.
LEMMA OtherFacts ==
  ASSUME NEW e \in Endpoint
  PROVE  /\ Other(e) \in Endpoint
         /\ Other(e) # e
         /\ Other(Other(e)) = e
         /\ \A f \in Endpoint : f = e \/ f = Other(e)
BY EndpointAssumption DEF Endpoint, Other

\* Byte counts are integers.
LEMMA CumulType == \A s \in Int : Cumul(s) \in Int
BY SizeAssumption DEF Cumul

\* Sending adds nothing to the network but the packets sent.
LEMMA TransmitFacts ==
  ASSUME NEW gone, NEW out, Transmit(gone, out)
  PROVE  net' \subseteq net \cup out
BY Zenon DEF Transmit

LEMMA TransmitOne ==
  ASSUME NEW gone, NEW k, Transmit(gone, {k})
  PROVE  \A q \in net' : q \in net \/ q = k
BY TransmitFacts

LEMMA TransmitNone ==
  ASSUME NEW gone, Transmit(gone, {})
  PROVE  \A q \in net' : q \in net
BY TransmitFacts

\* The capacities of an endpoint are integers.
LEMMA CapTypes ==
  ASSUME NEW e \in Endpoint, NEW l \in Int, NEW c \in Int, NEW b \in Int
  PROVE  MsgCap(e, l, c) \in Int /\ BytesCap(e, l, b) \in Int
BY CumulType, SizeAssumption DEF MsgCap, BytesCap

\* UpdateControl sets the flow information of e to naturals and leaves that of
\* the other endpoint alone; with no frame consumed that was not received, it
\* advertises no more than the receive buffer.
LEMMA UpdateControlFacts ==
  ASSUME TypeOK, NEW e \in Endpoint, NEW l \in Int, NEW c \in Int, NEW b \in Int,
         UpdateControl(e, l, c, b)
  PROVE  /\ AvailReaderMsgCap' \in [Endpoint -> Nat]
         /\ AvailReaderBytesCap' \in [Endpoint -> Nat]
         /\ \A f \in Endpoint : f # e => AvailReaderMsgCap'[f] = AvailReaderMsgCap[f]
         /\ (c <= l /\ AvailReaderMsgCap[e] <= RecvWindowSize[e])
              => AvailReaderMsgCap'[e] <= RecvWindowSize[e]
<1> DEFINE m == IF MsgCap(e, l, c) >= 0 THEN MsgCap(e, l, c) ELSE AvailReaderMsgCap[e]
           n == IF BytesCap(e, l, b) >= 0 THEN BytesCap(e, l, b) ELSE AvailReaderBytesCap[e]
<1>1. /\ AvailReaderMsgCap \in [Endpoint -> Nat]
      /\ AvailReaderBytesCap \in [Endpoint -> Nat]
      /\ AvailReaderMsgCap' = [AvailReaderMsgCap EXCEPT ![e] = m]
      /\ AvailReaderBytesCap' = [AvailReaderBytesCap EXCEPT ![e] = n]
  BY Zenon DEF UpdateControl, TypeOK
<1>2. m \in Nat /\ n \in Nat
  BY <1>1, CapTypes
<1>3. (c <= l /\ AvailReaderMsgCap[e] <= RecvWindowSize[e]) => m <= RecvWindowSize[e]
  BY SizeAssumption DEF MsgCap
<1> QED
  BY <1>1, <1>2, <1>3, Zenon

\* The packets the protocol builds are packets.
LEMMA PacketTypes ==
  ASSUME TypeOK, NEW e \in Endpoint
  PROVE  /\ \A s \in Int : DataPacket(e, s) \in Packet
         /\ \A s, l, c, b \in Int : Ack(e, s, l, c, b) \in Packet
<1>1. Other(e) \in Endpoint
  BY OtherFacts, Zenon
<1>2. AvailReaderMsgCap[e] \in Int /\ AvailReaderBytesCap[e] \in Int
  BY DEF TypeOK
<1>3. \A s \in Int : DataPacket(e, s) \in Packet
  BY <1>1, <1>2 DEF DataPacket, Packet
<1>4. \A s, l, c, b \in Int : Ack(e, s, l, c, b) \in Packet
  BY <1>1, CapTypes DEF Ack, Packet
<1> QED
  BY <1>3, <1>4, Zenon

\* What the arrival of p does to the sender and to the flow information of e,
\* and the type of the ack that may answer it.
LEMMA ArriveFacts ==
  ASSUME TypeOK, NEW e \in Endpoint, NEW p \in net, Arrive(e, p)
  PROVE  /\ p \in Packet
         /\ LargestSeqnoRcvd' =
              [LargestSeqnoRcvd EXCEPT ![e] = IF p.seq > @ THEN p.seq ELSE @]
         /\ LargestSeqnoRcvd' \in [Endpoint -> Int]
         /\ UpdateControl(e, LargestSeqnoRcvd'[e], LastMsgConsumed[e], LastByteConsumed[e])
         /\ AvailReaderMsgCap' \in [Endpoint -> Nat]
         /\ AvailReaderBytesCap' \in [Endpoint -> Nat]
         /\ GotPack(e, p)
         /\ LastSeenAvailReaderMsgCap' \in [Endpoint -> Int]
         /\ LastSeenAvailReaderBytesCap' \in [Endpoint -> Int]
         /\ SentButNotAcked' \in [Endpoint -> SUBSET Nat]
         /\ UNCHANGED LastFrameSent
<1>1. p \in Packet /\ p.seq \in Int /\ p.msgs \in Int /\ p.bytes \in Int
  BY Zenon DEF TypeOK, Packet
<1> DEFINE largest == IF p.seq > LargestSeqnoRcvd[e] THEN p.seq ELSE LargestSeqnoRcvd[e]
<1>2. /\ LargestSeqnoRcvd \in [Endpoint -> Int]
      /\ LastMsgConsumed[e] \in Int
      /\ LastByteConsumed[e] \in Int
  BY Zenon DEF TypeOK
<1>3. /\ LargestSeqnoRcvd' = [LargestSeqnoRcvd EXCEPT ![e] = largest]
      /\ UpdateControl(e, largest, LastMsgConsumed[e], LastByteConsumed[e])
      /\ GotPack(e, p)
  BY Zenon DEF Arrive
<1>4. largest \in Int /\ LargestSeqnoRcvd' \in [Endpoint -> Int] /\ LargestSeqnoRcvd'[e] = largest
  BY <1>1, <1>2, <1>3, Zenon
<1>5. AvailReaderMsgCap' \in [Endpoint -> Nat] /\ AvailReaderBytesCap' \in [Endpoint -> Nat]
  BY <1>2, <1>3, <1>4, UpdateControlFacts, Zenon
<1>6. /\ LastSeenAvailReaderMsgCap' \in [Endpoint -> Int]
      /\ LastSeenAvailReaderBytesCap' \in [Endpoint -> Int]
      /\ SentButNotAcked' \in [Endpoint -> SUBSET Nat]
      /\ UNCHANGED LastFrameSent
  BY <1>1, <1>3, Zenon DEF GotPack, TypeOK
<1> QED
  BY <1>1, <1>3, <1>4, <1>5, <1>6, Zenon

-----------------------------------------------------------------------------
(* Type correctness *)

\* The freshly established session is well typed.
LEMMA TypeInit == Init => TypeOK
<1> SUFFICES ASSUME Init PROVE TypeOK
  BY Zenon
<1>1. \A e \in Endpoint : RecvWindowSize[Other(e)] \in Nat /\ RecvWindowSizeBytes[Other(e)] \in Nat
  BY OtherFacts, SizeAssumption, Zenon
<1> QED
  BY <1>1, SizeAssumption DEF Init, TypeOK

\* doOrigDataSend keeps the types: it counts one frame on.
LEMMA TypeSend ==
  ASSUME TypeOK, NEW e \in Endpoint, doOrigDataSend(e)
  PROVE  TypeOK'
<1>1. LastFrameSent[e] + 1 \in Nat
  BY DEF TypeOK
<1>2. net' \subseteq Packet
  BY <1>1, TransmitFacts, PacketTypes DEF doOrigDataSend, TypeOK
<1> QED
  BY <1>1, <1>2, Zenon DEF doOrigDataSend, TypeOK, rcvVars, flowVars

\* regularIntervalWakeup keeps the types: it only sends packets.
LEMMA TypeRetry ==
  ASSUME TypeOK, NEW e \in Endpoint, regularIntervalWakeup(e)
  PROVE  TypeOK'
<1>1. PICK expired \in SUBSET SentButNotAcked[e] :
        Transmit({}, {DataPacket(e, s) : s \in expired})
  BY Zenon DEF regularIntervalWakeup
<1>2. expired \subseteq Int
  BY DEF TypeOK
<1>3. net' \subseteq Packet
  BY <1>1, <1>2, TransmitFacts, PacketTypes DEF TypeOK
<1> QED
  BY <1>3, Zenon DEF regularIntervalWakeup, TypeOK, sndVars, rcvVars, flowVars

\* doKeepAlive keeps the types: it only sends a packet.
LEMMA TypeKeepAlive ==
  ASSUME TypeOK, NEW e \in Endpoint, doKeepAlive(e)
  PROVE  TypeOK'
<1> DEFINE kap == [dest |-> Other(e), event |-> "KeepAlive", seq |-> -1,
                   ack |-> recvLastFrameClientConsumed[e],
                   msgs |-> AvailReaderMsgCap[e], bytes |-> AvailReaderBytesCap[e]]
<1>1. kap \in Packet
  BY OtherFacts DEF TypeOK, Packet
<1>2. net' \subseteq Packet
  BY <1>1, TransmitFacts DEF TypeOK, doKeepAlive
<1> QED
  BY <1>2, Zenon DEF doKeepAlive, TypeOK, sndVars, rcvVars, flowVars

\* The arrival of a packet keeps the types, whatever its event.
LEMMA TypeRecv ==
  ASSUME TypeOK, NEW e \in Endpoint, NEW p \in net, Recv(e, p)
  PROVE  TypeOK'
<1>1. Arrive(e, p)
  BY Zenon DEF Recv, RecvNextFrame, RecvFrameAhead, RecvFrameOutside, RecvInfo
<1>2. /\ LargestSeqnoRcvd' \in [Endpoint -> Int]
      /\ AvailReaderMsgCap' \in [Endpoint -> Nat]
      /\ AvailReaderBytesCap' \in [Endpoint -> Nat]
      /\ LastSeenAvailReaderMsgCap' \in [Endpoint -> Int]
      /\ LastSeenAvailReaderBytesCap' \in [Endpoint -> Int]
      /\ SentButNotAcked' \in [Endpoint -> SUBSET Nat]
      /\ UNCHANGED LastFrameSent
  BY <1>1, ArriveFacts, Zenon
<1>3. p.seq \in Int
  BY Zenon DEF TypeOK, Packet
<1>4. ReAck(e) \in Packet
  BY <1>2, PacketTypes, Zenon DEF ReAck, TypeOK
<1>5. CASE RecvNextFrame(e, p)
  <2>1. net' \subseteq Packet
    BY <1>5, TransmitFacts DEF RecvNextFrame, TypeOK
  <2>2. p.seq \in Nat
    BY <1>5, Zenon DEF RecvNextFrame, TypeOK
  <2>3. NextFrameExpected' \in [Endpoint -> Nat] /\ Rxq' \in [Endpoint -> SUBSET Nat]
    <3>1. PICK next \in NextFrameExpected[e] + 1 .. NextFrameExpected[e] + RecvWindowSize[e] :
            /\ NextFrameExpected' = [NextFrameExpected EXCEPT ![e] = next]
            /\ Rxq' = [Rxq EXCEPT ![e] = {s \in Rxq[e] \cup {p.seq} : s >= next}]
      BY <1>5, Zenon DEF RecvNextFrame
    <3>2. next \in Nat
      BY SizeAssumption DEF TypeOK
    <3> QED
      BY <2>2, <3>1, <3>2, Zenon DEF TypeOK
  <2> QED
    BY <1>2, <1>5, <2>1, <2>2, <2>3 DEF RecvNextFrame, TypeOK
<1>6. CASE RecvFrameAhead(e, p)
  <2>1. net' \subseteq Packet
    BY <1>6, TransmitFacts DEF RecvFrameAhead, TypeOK
  <2>2. p.seq \in Nat
    BY <1>3, <1>6, SizeAssumption DEF RecvFrameAhead, InRecvWindow, InWindow, TypeOK
  <2> QED
    BY <1>2, <1>6, <2>1, <2>2 DEF RecvFrameAhead, TypeOK
<1>7. CASE RecvFrameOutside(e, p)
  <2>1. net' \subseteq Packet
    BY <1>4, <1>7, TransmitFacts DEF RecvFrameOutside, TypeOK
  <2>2. p.seq >= NextFrameExpected[e] => p.seq \in Nat
    BY <1>3 DEF TypeOK
  <2> QED
    BY <1>2, <1>7, <2>1, <2>2, Zenon DEF RecvFrameOutside, TypeOK
<1>8. CASE RecvInfo(e, p)
  <2>1. net' \subseteq Packet
    BY <1>4, <1>8, TransmitFacts DEF RecvInfo, TypeOK
  <2> QED
    BY <1>2, <1>8, <2>1, Zenon DEF RecvInfo, TypeOK
<1> QED
  BY <1>5, <1>6, <1>7, <1>8, Zenon DEF Recv

\* Consumption by the client keeps the types, of the ack it sends too.
LEMMA TypeConsume ==
  ASSUME TypeOK, NEW e \in Endpoint, NEW last \in Int, NEW byte \in Int,
         Consume(e, last, byte), UNCHANGED <<sndVars, recvLastFrameClientConsumed>>
  PROVE  TypeOK'
<1>1. AvailReaderMsgCap' \in [Endpoint -> Nat] /\ AvailReaderBytesCap' \in [Endpoint -> Nat]
  BY UpdateControlFacts, Zenon DEF Consume, TypeOK
<1>2. net' \subseteq Packet
  BY TransmitFacts, PacketTypes, SMTT(30) DEF Consume, TypeOK
<1> QED
  BY <1>1, <1>2, Zenon DEF Consume, TypeOK, sndVars

\* Read() keeps the types, whether or not it completes a frame.
LEMMA TypeRead ==
  ASSUME TypeOK, NEW e \in Endpoint, NEW n \in ReadSizes(e), fillAsMuchAsPossible(e, n)
  PROVE  TypeOK'
<1> DEFINE byte == (IF LastByteConsumed[e] < 0 THEN 0 ELSE LastByteConsumed[e]) + n
<1>1. n \in Int
  BY DEF ReadSizes
<1>2. byte \in Int
  BY <1>1 DEF TypeOK
<1>3. PICK last \in LastMsgConsumed[e] .. NextFrameExpected[e] - 1 :
        \/ Consume(e, last, byte)
        \/ /\ LastByteConsumed' = [LastByteConsumed EXCEPT ![e] = byte]
           /\ UNCHANGED <<NextFrameExpected, Rxq, RcvdButNotConsumed, LastMsgConsumed,
                          LastFrameClientConsumed, LargestSeqnoRcvd, flowVars, net>>
  BY Zenon DEF fillAsMuchAsPossible
<1>4. UNCHANGED <<sndVars, recvLastFrameClientConsumed>>
  BY Zenon DEF fillAsMuchAsPossible
<1>5. CASE Consume(e, last, byte)
  BY <1>2, <1>4, <1>5, TypeConsume DEF TypeOK
<1>6. CASE /\ LastByteConsumed' = [LastByteConsumed EXCEPT ![e] = byte]
           /\ UNCHANGED <<NextFrameExpected, Rxq, RcvdButNotConsumed, LastMsgConsumed,
                          LastFrameClientConsumed, LargestSeqnoRcvd, flowVars, net>>
  BY <1>2, <1>4, <1>6, Zenon DEF TypeOK, sndVars, flowVars
<1> QED
  BY <1>3, <1>5, <1>6, Zenon

\* Every variable keeps its type: in particular no capacity a keep-alive or a
\* data packet advertises is negative, and only packets are in transit.
THEOREM TypeCorrect == Spec => []TypeOK
<1>1. TypeOK /\ [Next]_vars => TypeOK'
  <2> SUFFICES ASSUME TypeOK, [Next]_vars PROVE TypeOK'
    BY Zenon
  <2>1. CASE UNCHANGED vars
    BY <2>1, Zenon DEF vars, sndVars, rcvVars, flowVars, TypeOK
  <2>2. ASSUME NEW e \in Endpoint, deliverToConsumer(e) PROVE TypeOK'
    <3>1. NextFrameExpected[e] - 1 \in Int
      BY DEF TypeOK
    <3> QED
      BY <2>2, <3>1, CumulType, TypeConsume, Zenon DEF deliverToConsumer
  <2> QED
    BY <2>1, <2>2, TypeSend, TypeRetry, TypeKeepAlive, TypeRecv, TypeRead, Zenon DEF Next
<1> QED
  BY <1>1, TypeInit, PTL DEF Spec

-----------------------------------------------------------------------------
(* The inductive invariant *)

Links == \A f \in Endpoint : LinkInv(f)

\* A packet that is safe to receive, as PacketInv requires of those in transit.
Safe(p) ==
  /\ p.ack <= AckLimit(Other(p.dest))
  /\ p.msgs <= RecvWindowSize[Other(p.dest)]
  /\ p.seq <= LastFrameSent[Other(p.dest)]
  /\ p.event = "Data" => p.seq >= 0

\* Packets stay safe while the counters they are compared with grow, and so
\* does the network when only safe packets are sent.
LEMMA PacketStep ==
  ASSUME TypeOK, TypeOK', Links,
         \A f \in Endpoint : /\ LastMsgConsumed[f] <= LastMsgConsumed'[f]
                             /\ LastFrameSent[f] <= LastFrameSent'[f],
         \A p \in net' : p \in net \/ Safe(p)'
  PROVE  \A f \in Endpoint : PacketInv(f)'
<1> SUFFICES ASSUME NEW f \in Endpoint, NEW p \in net', p.dest = f
             PROVE  Safe(p)'
  BY Zenon DEF PacketInv, Safe
<1>1. CASE Safe(p)'
  BY <1>1, Zenon
<1>2. CASE p \in net
  <2>1. p.ack \in Int /\ p.seq \in Int /\ Other(f) \in Endpoint
    BY <1>2, OtherFacts, Zenon DEF TypeOK, Packet
  <2>2. Safe(p)
    BY <1>2, Zenon DEF Links, LinkInv, PacketInv, Safe
  <2>3. /\ LastMsgConsumed[Other(f)] \in Int /\ LastMsgConsumed'[Other(f)] \in Int
        /\ LastFrameSent[Other(f)] \in Int /\ LastFrameSent'[Other(f)] \in Int
    BY <2>1 DEF TypeOK
  <2>4. p.ack <= AckLimit(Other(f))'
    BY <2>1, <2>2, <2>3 DEF Safe, AckLimit
  <2>5. p.seq <= LastFrameSent'[Other(f)]
    BY <2>1, <2>2, <2>3 DEF Safe
  <2> QED
    BY <2>2, <2>4, <2>5, Zenon DEF Safe
<1> QED
  BY <1>1, <1>2, Zenon

\* The freshly established session satisfies the inductive invariant.
LEMMA LinksInit == Init => Links
<1> SUFFICES ASSUME Init, NEW e \in Endpoint PROVE LinkInv(e)
  BY Zenon DEF Links
<1>1. Other(e) \in Endpoint /\ RecvWindowSize[Other(e)] \in Nat
  BY OtherFacts, SizeAssumption, Zenon
<1>2. CountersInv(e) /\ CapacityInv(e) /\ PacketInv(e) /\ HeldInv(e)
  BY <1>1 DEF Init, CountersInv, CapacityInv, PacketInv, HeldInv, AckLimit
<1>3. RetryInv(e)
  <2>1. -1 \in -1 .. LastFrameSent[e] /\ SentButNotAcked[e] = -1 + 1 .. LastFrameSent[e]
    BY DEF Init
  <2> QED
    BY <1>1, <2>1 DEF Init, RetryInv, AckLimit
<1> QED
  BY <1>2, <1>3, Zenon DEF LinkInv

\* How many frames an interval has: FS_Interval of FiniteSetTheorems, a hypothesis
\* here so that the theorems of that module need not be in scope of every step.
IntervalSizes == \A a, b \in Int : Cardinality(a .. b) = IF a > b THEN 0 ELSE b - a + 1

\* doOrigDataSend: the sender's test keeps the frames in flight within the
\* capacity last seen, which never exceeds the buffer.
LEMMA LinksSend ==
  ASSUME IntervalSizes, TypeOK, TypeOK', Links, NEW e \in Endpoint, doOrigDataSend(e)
  PROVE  Links'
<1> DEFINE o == Other(e)
<1>1. /\ LastFrameSent' = [LastFrameSent EXCEPT ![e] = @ + 1]
      /\ SentButNotAcked' = [SentButNotAcked EXCEPT ![e] = @ \cup {LastFrameSent[e] + 1}]
      /\ LastSeenAvailReaderMsgCap[e] - Cardinality(SentButNotAcked[e]) > 0
      /\ UNCHANGED <<LastSeenAvailReaderMsgCap, rcvVars, flowVars, recvLastFrameClientConsumed>>
      /\ net' \subseteq net \cup {DataPacket(e, LastFrameSent[e] + 1)}
  BY TransmitFacts, Zenon DEF doOrigDataSend, ComputeInflight
<1>2. \A f \in Endpoint : /\ LastFrameSent[f] \in Nat \cup {-1}
                          /\ LastFrameSent'[f] = IF f = e THEN LastFrameSent[f] + 1
                                                 ELSE LastFrameSent[f]
                          /\ AckLimit(f)' = AckLimit(f)
  BY <1>1, Zenon DEF TypeOK, AckLimit, rcvVars
<1>3. \A f \in Endpoint : CountersInv(f)'
  BY <1>1, <1>2, OtherFacts, SMTT(30) DEF Links, LinkInv, CountersInv, rcvVars, TypeOK
<1>4. \A f \in Endpoint : HeldInv(f)'
  BY <1>1, <1>2, OtherFacts, Zenon DEF Links, LinkInv, HeldInv, rcvVars, TypeOK
<1>5. PICK a \in -1 .. LastFrameSent[e] :
        a <= AckLimit(o) /\ SentButNotAcked[e] = a + 1 .. LastFrameSent[e]
  BY Zenon DEF Links, LinkInv, RetryInv
<1>6. \A f \in Endpoint : RetryInv(f)'
  <2>1. RetryInv(e)'
    <3>1. SentButNotAcked'[e] = SentButNotAcked[e] \cup {LastFrameSent[e] + 1}
      BY <1>1, Zenon DEF TypeOK
    <3>2. a + 1 .. LastFrameSent[e] + 1 = (a + 1 .. LastFrameSent[e]) \cup {LastFrameSent[e] + 1}
      BY <1>2, <1>5
    <3>3. a \in -1 .. LastFrameSent'[e] /\ SentButNotAcked'[e] = a + 1 .. LastFrameSent'[e]
      BY <1>2, <1>5, <3>1, <3>2
    <3> QED
      BY <1>2, <1>5, <3>3, OtherFacts DEF RetryInv
  <2>2. RetryInv(o)'
    <3>1. SentButNotAcked'[o] = SentButNotAcked[o] /\ LastFrameSent'[o] = LastFrameSent[o]
      BY <1>1, <1>2, OtherFacts, Zenon DEF TypeOK
    <3> QED
      BY <1>2, <3>1, OtherFacts, SMTT(30) DEF Links, LinkInv, RetryInv
  <2> QED
    BY <2>1, <2>2, OtherFacts, Zenon
<1>7. \A f \in Endpoint : CapacityInv(f)'
  <2>1. Cardinality(SentButNotAcked[e]) = LastFrameSent[e] - a
    <3>1. a + 1 \in Int /\ LastFrameSent[e] \in Int /\ a + 1 <= LastFrameSent[e] + 1
      BY <1>2, <1>5
    <3>2. Cardinality(a + 1 .. LastFrameSent[e]) =
            IF a + 1 > LastFrameSent[e] THEN 0 ELSE LastFrameSent[e] - (a + 1) + 1
      BY <3>1, Zenon DEF IntervalSizes
    <3> QED
      BY <1>5, <3>1, <3>2
  <2>2. LastSeenAvailReaderMsgCap[e] \in Int /\ RecvWindowSize[o] \in Nat /\ AckLimit(o) \in Int
    BY OtherFacts, SizeAssumption DEF TypeOK, AckLimit
  <2>3. LastFrameSent[e] + 1 <= RecvWindowSize[o] + AckLimit(o)
    <3>1. LastSeenAvailReaderMsgCap[e] <= RecvWindowSize[o]
      BY Zenon DEF Links, LinkInv, CapacityInv
    <3> QED
      BY <1>1, <1>2, <1>5, <2>1, <2>2, <3>1, SMTT(30)
  <2> QED
    BY <1>1, <1>2, <2>3, OtherFacts DEF Links, LinkInv, CapacityInv, flowVars
<1>8. \A f \in Endpoint : PacketInv(f)'
  <2> DEFINE p == DataPacket(e, LastFrameSent[e] + 1)
  <2>1. /\ p.dest = o /\ p.ack = 0 /\ p.seq = LastFrameSent[e] + 1
        /\ p.msgs = AvailReaderMsgCap[e] /\ Other(o) = e
    BY OtherFacts, Zenon DEF DataPacket
  <2>2. AckLimit(e)' >= 0
    BY SMTT(30) DEF TypeOK, AckLimit
  <2>3. AvailReaderMsgCap[e] <= RecvWindowSize[e]
    BY OtherFacts, Zenon DEF Links, LinkInv, CapacityInv
  <2>4. ASSUME NEW q \in {p} PROVE Safe(q)'
    BY <1>2, <2>1, <2>2, <2>3, SMTT(30) DEF Safe
  <2>5. \A f \in Endpoint : LastMsgConsumed[f] <= LastMsgConsumed'[f]
    BY <1>1 DEF rcvVars, TypeOK
  <2>6. \A f \in Endpoint : LastFrameSent[f] <= LastFrameSent'[f]
    BY <1>2
  <2>7. \A q \in net' : q \in net \/ Safe(q)'
    BY <1>1, <2>4, Zenon
  <2> QED
    BY <2>5, <2>6, <2>7, PacketStep, Zenon
<1> QED
  BY <1>3, <1>4, <1>6, <1>7, <1>8, Zenon DEF Links, LinkInv

\* A step that only sends safe packets, or only counts the bytes read, keeps
\* the invariant.
LEMMA LinksNet ==
  ASSUME TypeOK, TypeOK', Links,
         UNCHANGED <<sndVars, NextFrameExpected, Rxq, RcvdButNotConsumed, LastMsgConsumed,
                     LastFrameClientConsumed, LargestSeqnoRcvd, flowVars,
                     recvLastFrameClientConsumed>>,
         \A p \in net' : p \in net \/ Safe(p)'
  PROVE  Links'
<1>1. \A f \in Endpoint : AckLimit(f)' = AckLimit(f)
  BY Zenon DEF AckLimit
<1>2. ASSUME NEW f \in Endpoint
      PROVE  CountersInv(f)' /\ RetryInv(f)' /\ CapacityInv(f)' /\ HeldInv(f)'
  <2>1. CountersInv(f) /\ RetryInv(f) /\ CapacityInv(f) /\ HeldInv(f)
    BY Zenon DEF Links, LinkInv
  <2>2. AckLimit(Other(f))' = AckLimit(Other(f))
    BY <1>1, OtherFacts, Zenon
  <2>3. CountersInv(f)'
    BY <2>1, <2>2, Zenon DEF CountersInv, sndVars
  <2>4. RetryInv(f)'
    BY <2>1, <2>2, Zenon DEF RetryInv, sndVars
  <2>5. CapacityInv(f)'
    BY <2>1, <2>2, Zenon DEF CapacityInv, sndVars, flowVars
  <2>6. HeldInv(f)'
    BY <2>1, Zenon DEF HeldInv
  <2> QED
    BY <2>3, <2>4, <2>5, <2>6, Zenon
<1>3. \A f \in Endpoint : /\ LastMsgConsumed[f] <= LastMsgConsumed'[f]
                          /\ LastFrameSent[f] <= LastFrameSent'[f]
  BY SMTT(30) DEF TypeOK, sndVars
<1>4. \A f \in Endpoint : PacketInv(f)'
  BY <1>3, PacketStep, Zenon
<1> QED
  BY <1>2, <1>4, Zenon DEF Links, LinkInv

\* A data packet of a frame already sent is safe.
LEMMA DataPacketSafe ==
  ASSUME TypeOK, Links, NEW e \in Endpoint, NEW s \in 0 .. LastFrameSent[e]
  PROVE  Safe(DataPacket(e, s))
<1> DEFINE p == DataPacket(e, s)
<1>1. /\ p.dest = Other(e) /\ p.ack = 0 /\ p.seq = s
      /\ p.msgs = AvailReaderMsgCap[e] /\ Other(Other(e)) = e
  BY OtherFacts, Zenon DEF DataPacket
<1>2. AckLimit(e) >= 0 /\ LastFrameSent[e] \in Int
  BY DEF TypeOK, AckLimit
<1>3. AvailReaderMsgCap[e] <= RecvWindowSize[e]
  BY OtherFacts, Zenon DEF Links, LinkInv, CapacityInv
<1> QED
  BY <1>1, <1>2, <1>3 DEF Safe

\* Retries and keep-alives only send.
LEMMA LinksRetry ==
  ASSUME TypeOK, TypeOK', Links, NEW e \in Endpoint, regularIntervalWakeup(e)
  PROVE  Links'
<1>1. PICK expired \in SUBSET SentButNotAcked[e] :
        Transmit({}, {DataPacket(e, s) : s \in expired})
  BY Zenon DEF regularIntervalWakeup
<1>2. UNCHANGED <<sndVars, rcvVars, flowVars, recvLastFrameClientConsumed>>
  BY Zenon DEF regularIntervalWakeup
<1>3. \A s \in expired : s \in 0 .. LastFrameSent[e]
  <2>1. PICK a \in -1 .. LastFrameSent[e] : SentButNotAcked[e] = a + 1 .. LastFrameSent[e]
    BY Zenon DEF Links, LinkInv, RetryInv
  <2> QED
    BY <2>1, SMTT(30) DEF TypeOK
<1>4. \A p \in net' : p \in net \/ \E s \in expired : p = DataPacket(e, s)
  BY <1>1, TransmitFacts
<1>5. \A p : Safe(p) => Safe(p)'
  BY <1>2, Zenon DEF Safe, AckLimit, sndVars, rcvVars
<1>6. \A p \in net' : p \in net \/ Safe(p)'
  BY <1>3, <1>4, <1>5, DataPacketSafe, Zenon
<1> QED
  BY <1>2, <1>6, LinksNet, Zenon DEF rcvVars

\* doKeepAlive: the copy of LastFrameClientConsumed it acknowledges may be stale,
\* but never beyond what was consumed.
LEMMA LinksKeepAlive ==
  ASSUME TypeOK, TypeOK', Links, NEW e \in Endpoint, doKeepAlive(e)
  PROVE  Links'
<1> DEFINE kap == [dest |-> Other(e), event |-> "KeepAlive", seq |-> -1,
                   ack |-> recvLastFrameClientConsumed[e],
                   msgs |-> AvailReaderMsgCap[e], bytes |-> AvailReaderBytesCap[e]]
<1>1. UNCHANGED <<sndVars, rcvVars, flowVars, recvLastFrameClientConsumed>>
  BY Zenon DEF doKeepAlive
<1>2. \A p \in net' : p \in net \/ p = kap
  BY TransmitOne, Zenon DEF doKeepAlive
<1>3. Safe(kap)
  <2>1. /\ recvLastFrameClientConsumed[e] <= AckLimit(e)
        /\ AvailReaderMsgCap[e] <= RecvWindowSize[e]
        /\ Other(Other(e)) = e
    BY OtherFacts, Zenon DEF Links, LinkInv, CountersInv, CapacityInv
  <2>2. LastFrameSent[e] \in Nat \cup {-1}
    BY Zenon DEF TypeOK
  <2> QED
    BY <2>1, <2>2, SMTT(30) DEF Safe
<1>4. \A p : Safe(p) => Safe(p)'
  BY <1>1, Zenon DEF Safe, AckLimit, sndVars, rcvVars
<1>5. \A p \in net' : p \in net \/ Safe(p)'
  BY <1>2, <1>3, <1>4, Zenon
<1> QED
  BY <1>1, <1>5, LinksNet, Zenon DEF rcvVars

-----------------------------------------------------------------------------
(* The arrival of a packet *)

\* The arrival of a packet: the retry trees lose only frames the packet is
\* entitled to acknowledge, and no capacity in use exceeds the buffer.
LEMMA ArriveLinks ==
  ASSUME TypeOK, TypeOK', Links, NEW e \in Endpoint, NEW p \in net, p.dest = e,
         Arrive(e, p), UNCHANGED LastMsgConsumed
  PROVE  /\ \A f \in Endpoint : RetryInv(f)' /\ CapacityInv(f)'
         /\ \A f \in Endpoint : AckLimit(f)' = AckLimit(f)
         /\ UNCHANGED LastFrameSent
         /\ \A f \in Endpoint : f # e => LargestSeqnoRcvd'[f] = LargestSeqnoRcvd[f]
         /\ LargestSeqnoRcvd[e] <= LargestSeqnoRcvd'[e]
         /\ p.seq <= LargestSeqnoRcvd'[e]
         /\ LargestSeqnoRcvd'[e] <= LastFrameSent[Other(e)]
<1> DEFINE o == Other(e)
<1>1. /\ p \in Packet
      /\ LargestSeqnoRcvd' = [LargestSeqnoRcvd EXCEPT ![e] = IF p.seq > @ THEN p.seq ELSE @]
      /\ UpdateControl(e, LargestSeqnoRcvd'[e], LastMsgConsumed[e], LastByteConsumed[e])
      /\ GotPack(e, p)
      /\ UNCHANGED LastFrameSent
  BY ArriveFacts, Zenon
<1>2. p.ack \in Int /\ p.msgs \in Int /\ p.seq \in Int
  BY <1>1, Zenon DEF Packet
<1>3. /\ p.ack <= AckLimit(o) /\ p.msgs <= RecvWindowSize[o] /\ p.seq <= LastFrameSent[o]
      /\ o \in Endpoint /\ o # e /\ Other(o) = e
      /\ \A f \in Endpoint : f = e \/ f = o
  BY OtherFacts, Zenon DEF Links, LinkInv, PacketInv
<1>4. \A f \in Endpoint : AckLimit(f)' = AckLimit(f)
  BY Zenon DEF AckLimit
<1>5. \A f \in Endpoint : f # e => LargestSeqnoRcvd'[f] = LargestSeqnoRcvd[f]
  BY <1>1, Zenon DEF TypeOK
<1>6. /\ LargestSeqnoRcvd[e] <= LargestSeqnoRcvd'[e]
      /\ p.seq <= LargestSeqnoRcvd'[e]
      /\ LargestSeqnoRcvd'[e] <= LastFrameSent[o]
  <2>1. LargestSeqnoRcvd[e] <= LastFrameSent[o]
    BY <1>3, Zenon DEF Links, LinkInv, CountersInv
  <2>2. LargestSeqnoRcvd[e] \in Int
    BY Zenon DEF TypeOK
  <2>3. LargestSeqnoRcvd'[e] = IF p.seq > LargestSeqnoRcvd[e] THEN p.seq ELSE LargestSeqnoRcvd[e]
    BY <1>1, Zenon DEF TypeOK
  <2> QED
    BY <1>2, <1>3, <2>1, <2>2, <2>3
<1>7. \A f \in Endpoint : CapacityInv(f)'
  <2>1. /\ LastSeenAvailReaderMsgCap'[e] = p.msgs
        /\ LastSeenAvailReaderMsgCap'[o] = LastSeenAvailReaderMsgCap[o]
    BY <1>1, <1>3 DEF GotPack, TypeOK
  <2>2. /\ LastMsgConsumed[e] <= LargestSeqnoRcvd'[e]
        /\ LargestSeqnoRcvd'[e] \in Int /\ LastMsgConsumed[e] \in Int /\ LastByteConsumed[e] \in Int
    <3>1. /\ LastMsgConsumed[e] < NextFrameExpected[e]
          /\ NextFrameExpected[e] - 1 <= LargestSeqnoRcvd[e]
      BY <1>3, Zenon DEF Links, LinkInv, CountersInv
    <3>2. /\ LastMsgConsumed[e] \in Int /\ NextFrameExpected[e] \in Int /\ LastByteConsumed[e] \in Int
          /\ LargestSeqnoRcvd[e] \in Int /\ LargestSeqnoRcvd'[e] \in Int
      BY DEF TypeOK
    <3> QED
      BY <1>6, <3>1, <3>2
  <2>3. AvailReaderMsgCap[e] <= RecvWindowSize[e] /\ AvailReaderMsgCap[o] <= RecvWindowSize[o]
    BY <1>3, Zenon DEF Links, LinkInv, CapacityInv
  <2>4. AvailReaderMsgCap'[e] <= RecvWindowSize[e] /\ AvailReaderMsgCap'[o] = AvailReaderMsgCap[o]
    BY <1>1, <1>3, <2>2, <2>3, UpdateControlFacts, Zenon
  <2> QED
    BY <1>1, <1>3, <1>4, <2>1, <2>3, <2>4, Zenon DEF Links, LinkInv, CapacityInv
<1>8. \A f \in Endpoint : RetryInv(f)'
  <2>1. /\ SentButNotAcked'[e] = {s \in SentButNotAcked[e] : s > p.ack}
        /\ SentButNotAcked'[o] = SentButNotAcked[o]
    BY <1>1, <1>3, Zenon DEF GotPack, TypeOK
  <2>2. RetryInv(o)'
    BY <1>1, <1>3, <1>4, <2>1 DEF Links, LinkInv, RetryInv
  <2>3. RetryInv(e)'
    <3>1. PICK a \in -1 .. LastFrameSent[e] :
            a <= AckLimit(o) /\ SentButNotAcked[e] = a + 1 .. LastFrameSent[e]
      BY Zenon DEF Links, LinkInv, RetryInv
    <3>2. LastFrameSent[e] \in Int /\ a \in Int /\ AckLimit(o) \in Int
      <4>1. LastFrameSent[e] \in Int /\ LastMsgConsumed[o] \in Int
        BY <1>3 DEF TypeOK
      <4> QED
        BY <3>1, <4>1 DEF AckLimit
    <3> DEFINE b == IF p.ack <= a THEN a
                    ELSE IF p.ack <= LastFrameSent[e] THEN p.ack ELSE LastFrameSent[e]
    <3>3. b \in -1 .. LastFrameSent[e] /\ b <= AckLimit(o)
      BY <1>2, <1>3, <3>1, <3>2
    <3>4. SentButNotAcked'[e] = b + 1 .. LastFrameSent[e]
      BY <1>2, <2>1, <3>1, <3>2
    <3> QED
      BY <1>1, <1>3, <1>4, <3>3, <3>4, Zenon DEF RetryInv
  <2> QED
    BY <1>3, <2>2, <2>3, Zenon
<1> QED
  BY <1>1, <1>4, <1>5, <1>6, <1>7, <1>8, Zenon

\* The ack of what the client has consumed is safe.
LEMMA ReAckSafe ==
  ASSUME TypeOK, TypeOK', Links, NEW e \in Endpoint, NEW p \in net, p.dest = e,
         Arrive(e, p), UNCHANGED <<LastMsgConsumed, LastFrameClientConsumed>>
  PROVE  \A q : q = ReAck(e) => Safe(q)'
<1>1. /\ AckLimit(e)' = AckLimit(e)
      /\ UNCHANGED LastFrameSent
      /\ LargestSeqnoRcvd[e] <= LargestSeqnoRcvd'[e]
  BY ArriveLinks, Zenon
<1>2. /\ LastFrameClientConsumed[e] <= AckLimit(e)
      /\ LastMsgConsumed[e] < NextFrameExpected[e]
      /\ NextFrameExpected[e] - 1 <= LargestSeqnoRcvd[e]
      /\ Other(Other(e)) = e
  BY OtherFacts, Zenon DEF Links, LinkInv, CountersInv
<1>3. /\ LargestSeqnoRcvd[e] \in Int /\ LargestSeqnoRcvd'[e] \in Int
      /\ LastMsgConsumed[e] \in Int /\ NextFrameExpected[e] \in Int
      /\ LastFrameSent[e] \in Nat \cup {-1} /\ RecvWindowSize[e] \in Int
  BY SizeAssumption DEF TypeOK
<1>4. MsgCap(e, LargestSeqnoRcvd'[e], LastMsgConsumed[e]) <= RecvWindowSize[e]
  BY <1>1, <1>2, <1>3 DEF MsgCap
<1>5. ASSUME NEW q, q = ReAck(e) PROVE Safe(q)'
  <2>1. /\ q.dest = Other(e) /\ q.event = "DataAck" /\ q.seq = -1
        /\ q.ack = LastFrameClientConsumed[e]
        /\ q.msgs = MsgCap(e, LargestSeqnoRcvd'[e], LastMsgConsumed[e])
    BY <1>5, Zenon DEF ReAck, Ack
  <2> QED
    BY <1>1, <1>2, <1>3, <1>4, <2>1 DEF Safe
<1> QED
  BY <1>5, Zenon

\* What a receive step owes once the arrival itself is dealt with: the
\* counters and the frames held by e, and safe packets.
LEMMA LinksRecvStep ==
  ASSUME TypeOK, TypeOK', Links, NEW e \in Endpoint, NEW p \in net, p.dest = e,
         Arrive(e, p), UNCHANGED <<LastMsgConsumed, LastFrameClientConsumed>>,
         \A f \in Endpoint : f # e =>
            /\ NextFrameExpected'[f] = NextFrameExpected[f]
            /\ Rxq'[f] = Rxq[f]
            /\ RcvdButNotConsumed'[f] = RcvdButNotConsumed[f]
            /\ recvLastFrameClientConsumed'[f] = recvLastFrameClientConsumed[f],
         \A q \in net' : q \in net \/ q = ReAck(e),
         CountersInv(Other(e))', HeldInv(Other(e))'
  PROVE  Links'
<1> DEFINE o == Other(e)
<1>1. /\ \A f \in Endpoint : RetryInv(f)' /\ CapacityInv(f)'
      /\ \A f \in Endpoint : AckLimit(f)' = AckLimit(f)
      /\ UNCHANGED LastFrameSent
      /\ \A f \in Endpoint : f # e => LargestSeqnoRcvd'[f] = LargestSeqnoRcvd[f]
  BY ArriveLinks, Zenon
<1>2. o \in Endpoint /\ o # e /\ Other(o) = e /\ \A f \in Endpoint : f = e \/ f = o
  BY OtherFacts, Zenon
<1>3. CountersInv(e)' /\ HeldInv(e)'
  BY <1>1, <1>2, SMTT(30) DEF Links, LinkInv, CountersInv, HeldInv
<1>4. \A q \in net' : q \in net \/ Safe(q)'
  BY ReAckSafe, Zenon
<1>5. \A f \in Endpoint : /\ LastMsgConsumed[f] <= LastMsgConsumed'[f]
                          /\ LastFrameSent[f] <= LastFrameSent'[f]
  <2>1. \A f \in Endpoint : LastMsgConsumed[f] \in Int /\ LastFrameSent[f] \in Int
    BY DEF TypeOK
  <2> QED
    BY <1>1, <2>1
<1>6. \A f \in Endpoint : PacketInv(f)'
  BY <1>4, <1>5, PacketStep, Zenon
<1> QED
  BY <1>1, <1>2, <1>3, <1>6, Zenon DEF Links, LinkInv

\* Each of the four cases of an arrival keeps the invariant.
LEMMA LinksRecv ==
  ASSUME TypeOK, TypeOK', Links, NEW e \in Endpoint, NEW p \in net, Recv(e, p)
  PROVE  Links'
<1> DEFINE o == Other(e)
<1>1. p.dest = e /\ Arrive(e, p) /\ UNCHANGED <<LastMsgConsumed, LastFrameClientConsumed>>
  BY Zenon DEF Recv, RecvNextFrame, RecvFrameAhead, RecvFrameOutside, RecvInfo
<1>2. /\ \A f \in Endpoint : AckLimit(f)' = AckLimit(f)
      /\ UNCHANGED LastFrameSent
      /\ LargestSeqnoRcvd[e] <= LargestSeqnoRcvd'[e]
      /\ p.seq <= LargestSeqnoRcvd'[e]
      /\ LargestSeqnoRcvd'[e] <= LastFrameSent[o]
  BY <1>1, ArriveLinks, Zenon
<1>3. o \in Endpoint /\ Other(o) = e
  BY OtherFacts, Zenon
<1>4. CountersInv(o) /\ HeldInv(o)
  BY <1>3, Zenon DEF Links, LinkInv
<1>5. /\ p.seq \in Int /\ NextFrameExpected[e] \in Nat /\ LastMsgConsumed[e] \in Int
      /\ LargestSeqnoRcvd[e] \in Int /\ LargestSeqnoRcvd'[e] \in Int
      /\ Rxq[e] \subseteq Nat /\ RcvdButNotConsumed[e] \subseteq Nat
  BY Zenon DEF TypeOK, Packet
<1>6. ASSUME UNCHANGED <<NextFrameExpected, recvLastFrameClientConsumed>>
      PROVE  CountersInv(o)'
  <2>1. /\ -1 <= LastMsgConsumed[e] /\ LastMsgConsumed[e] < NextFrameExpected[e]
        /\ NextFrameExpected[e] - 1 <= LargestSeqnoRcvd[e]
        /\ LastFrameClientConsumed[e] <= AckLimit(e)
        /\ recvLastFrameClientConsumed[e] <= AckLimit(e)
    BY <1>3, <1>4, Zenon DEF CountersInv
  <2>2. NextFrameExpected[e] - 1 <= LargestSeqnoRcvd'[e]
    BY <1>2, <1>5, <2>1
  <2>3. AckLimit(e)' = AckLimit(e)
    BY <1>2, Zenon
  <2> QED
    BY <1>1, <1>2, <1>3, <1>6, <2>1, <2>2, <2>3, Zenon DEF CountersInv
<1>7. ASSUME UNCHANGED NextFrameExpected, NEW S, NEW T \in SUBSET S,
             \A s \in S : s \in Int /\ NextFrameExpected[e] <= s /\ s <= LargestSeqnoRcvd'[e],
             RcvdButNotConsumed'[e] = RcvdButNotConsumed[e] \cup S,
             Rxq'[e] = Rxq[e] \cup T
      PROVE  HeldInv(o)'
  <2>1. /\ \A s \in Rxq[e] : NextFrameExpected[e] <= s /\ s \in RcvdButNotConsumed[e]
        /\ \A s \in Nat : LastMsgConsumed[e] < s /\ s < NextFrameExpected[e]
                            => s \in RcvdButNotConsumed[e]
        /\ \A s \in RcvdButNotConsumed[e] : LastMsgConsumed[e] < s /\ s <= LargestSeqnoRcvd[e]
    BY <1>3, <1>4, Zenon DEF HeldInv
  <2>2. LastMsgConsumed[e] < NextFrameExpected[e]
    BY <1>3, <1>4, Zenon DEF CountersInv
  <2>3. \A s \in Rxq'[e] : NextFrameExpected[e] <= s /\ s \in RcvdButNotConsumed'[e]
    BY <1>7, <2>1, Zenon
  <2>4. \A s \in Nat : LastMsgConsumed[e] < s /\ s < NextFrameExpected[e]
                          => s \in RcvdButNotConsumed'[e]
    BY <1>7, <2>1, Zenon
  <2>5. \A s \in RcvdButNotConsumed'[e] : LastMsgConsumed[e] < s /\ s <= LargestSeqnoRcvd'[e]
    <3>1. ASSUME NEW s \in RcvdButNotConsumed[e]
          PROVE  LastMsgConsumed[e] < s /\ s <= LargestSeqnoRcvd'[e]
      BY <1>2, <1>5, <2>1, SMTT(30)
    <3>2. ASSUME NEW s \in S PROVE LastMsgConsumed[e] < s /\ s <= LargestSeqnoRcvd'[e]
      BY <1>5, <1>7, <2>2, SMTT(30)
    <3> QED
      BY <1>7, <3>1, <3>2, Zenon
  <2>6. LastMsgConsumed' = LastMsgConsumed /\ NextFrameExpected' = NextFrameExpected
    BY <1>1, <1>7, Zenon
  <2> QED
    BY <1>3, <2>3, <2>4, <2>5, <2>6, Zenon DEF HeldInv
<1>8. CASE RecvNextFrame(e, p)
  <2>1. /\ p.seq = NextFrameExpected[e]
        /\ RcvdButNotConsumed' = [RcvdButNotConsumed EXCEPT ![e] = @ \cup {p.seq}]
        /\ recvLastFrameClientConsumed' =
             [recvLastFrameClientConsumed EXCEPT ![e] = LastFrameClientConsumed[e]]
        /\ \A q \in net' : q \in net
    BY <1>8, TransmitNone, Zenon DEF RecvNextFrame
  <2>2. PICK next \in NextFrameExpected[e] + 1 .. NextFrameExpected[e] + RecvWindowSize[e] :
          /\ \A k \in NextFrameExpected[e] .. next - 1 : k \in Rxq[e] \cup {p.seq}
          /\ NextFrameExpected' = [NextFrameExpected EXCEPT ![e] = next]
          /\ Rxq' = [Rxq EXCEPT ![e] = {s \in Rxq[e] \cup {p.seq} : s >= next}]
    BY <1>8, Zenon DEF RecvNextFrame, IsFirstMissing
  <2>3. next \in Int /\ NextFrameExpected[e] < next
    BY <1>5, <2>2, SizeAssumption
  <2>4. /\ NextFrameExpected'[e] = next
        /\ Rxq'[e] = {s \in Rxq[e] \cup {p.seq} : s >= next}
        /\ RcvdButNotConsumed'[e] = RcvdButNotConsumed[e] \cup {p.seq}
        /\ recvLastFrameClientConsumed'[e] = LastFrameClientConsumed[e]
    BY <2>1, <2>2, Zenon DEF TypeOK
  <2>5. \A f \in Endpoint : f # e =>
          /\ NextFrameExpected'[f] = NextFrameExpected[f]
          /\ Rxq'[f] = Rxq[f]
          /\ RcvdButNotConsumed'[f] = RcvdButNotConsumed[f]
          /\ recvLastFrameClientConsumed'[f] = recvLastFrameClientConsumed[f]
    BY <2>1, <2>2 DEF TypeOK
  <2>6. next - 1 <= LargestSeqnoRcvd'[e]
    <3>1. next - 1 \in Rxq[e] \cup {p.seq}
      BY <1>5, <2>2, <2>3
    <3>2. \A s \in Rxq[e] : s <= LargestSeqnoRcvd[e]
      BY <1>3, <1>4, Zenon DEF HeldInv
    <3> QED
      BY <1>2, <1>5, <2>3, <3>1, <3>2
  <2>7. CountersInv(o)'
    BY <1>1, <1>2, <1>3, <1>4, <1>5, <2>3, <2>4, <2>6, SMTT(30) DEF CountersInv
  <2>8. HeldInv(o)'
    <3>1. \A s \in Rxq'[e] : next <= s /\ s \in RcvdButNotConsumed'[e]
      BY <1>3, <1>4, <1>5, <2>3, <2>4, Zenon DEF HeldInv
    <3>2. ASSUME NEW s \in Nat, LastMsgConsumed[e] < s, s < next
          PROVE  s \in RcvdButNotConsumed'[e]
      <4>1. CASE s < NextFrameExpected[e]
        BY <1>3, <1>4, <2>4, <3>2, <4>1, Zenon DEF HeldInv
      <4>2. CASE s >= NextFrameExpected[e]
        <5>1. s \in Rxq[e] \cup {p.seq}
          BY <1>5, <2>2, <2>3, <3>2, <4>2, SMTT(30)
        <5> QED
          BY <1>3, <1>4, <2>4, <5>1, Zenon DEF HeldInv
      <4> QED
        BY <1>5, <4>1, <4>2, SMTT(30)
    <3>3. \A s \in RcvdButNotConsumed'[e] : LastMsgConsumed[e] < s /\ s <= LargestSeqnoRcvd'[e]
      BY <1>2, <1>3, <1>4, <1>5, <2>1, <2>4, SMTT(30) DEF HeldInv, CountersInv
    <3> QED
      BY <1>1, <1>3, <2>4, <3>1, <3>2, <3>3, Zenon DEF HeldInv
  <2> QED
    BY <1>1, <2>1, <2>5, <2>7, <2>8, LinksRecvStep, Zenon
<1>9. CASE RecvFrameAhead(e, p)
  <2>1. /\ NextFrameExpected[e] <= p.seq
        /\ RcvdButNotConsumed' = [RcvdButNotConsumed EXCEPT ![e] = @ \cup {p.seq}]
        /\ Rxq' = [Rxq EXCEPT ![e] = @ \cup {p.seq}]
        /\ UNCHANGED <<NextFrameExpected, recvLastFrameClientConsumed>>
        /\ \A q \in net' : q \in net
    BY <1>9, TransmitFacts DEF RecvFrameAhead, InRecvWindow, InWindow
  <2>2. /\ Rxq'[e] = Rxq[e] \cup {p.seq}
        /\ RcvdButNotConsumed'[e] = RcvdButNotConsumed[e] \cup {p.seq}
        /\ \A f \in Endpoint : f # e => /\ Rxq'[f] = Rxq[f]
                                        /\ RcvdButNotConsumed'[f] = RcvdButNotConsumed[f]
    BY <2>1, Zenon DEF TypeOK
  <2>3. CountersInv(o)'
    BY <1>6, <2>1, Zenon
  <2>4. HeldInv(o)'
    <3> DEFINE S == {p.seq}
    <3>1. \A s \in S : s \in Int /\ NextFrameExpected[e] <= s /\ s <= LargestSeqnoRcvd'[e]
      BY <1>2, <1>5, <2>1, Zenon
    <3>2. S \in SUBSET S /\ UNCHANGED NextFrameExpected
      BY <2>1, Zenon
    <3>3. RcvdButNotConsumed'[e] = RcvdButNotConsumed[e] \cup S /\ Rxq'[e] = Rxq[e] \cup S
      BY <2>2, Zenon
    <3> HIDE DEF S
    <3> QED
      BY <1>7, <3>1, <3>2, <3>3, Zenon
  <2> QED
    BY <1>1, <2>1, <2>2, <2>3, <2>4, LinksRecvStep, Zenon
<1>10. CASE RecvFrameOutside(e, p)
  <2>1. /\ RcvdButNotConsumed' = [RcvdButNotConsumed EXCEPT ![e] =
             IF p.seq >= NextFrameExpected[e] THEN @ \cup {p.seq} ELSE @]
        /\ UNCHANGED <<NextFrameExpected, Rxq, recvLastFrameClientConsumed>>
        /\ \A q \in net' : q \in net \/ q = ReAck(e)
    BY <1>10, TransmitOne, Zenon DEF RecvFrameOutside
  <2>2. /\ RcvdButNotConsumed'[e] = IF p.seq >= NextFrameExpected[e]
                                    THEN RcvdButNotConsumed[e] \cup {p.seq}
                                    ELSE RcvdButNotConsumed[e]
        /\ \A f \in Endpoint : f # e => RcvdButNotConsumed'[f] = RcvdButNotConsumed[f]
    BY <2>1, Zenon DEF TypeOK
  <2>3. CountersInv(o)'
    BY <1>6, <2>1, Zenon
  <2>4. HeldInv(o)'
    <3> DEFINE S == IF p.seq >= NextFrameExpected[e] THEN {p.seq} ELSE {}
    <3>1. \A s \in S : s \in Int /\ NextFrameExpected[e] <= s /\ s <= LargestSeqnoRcvd'[e]
      BY <1>2, <1>5, Zenon
    <3>2. {} \in SUBSET S /\ Rxq'[e] = Rxq[e] \cup {}
      BY <2>1, Zenon
    <3>3. RcvdButNotConsumed'[e] = RcvdButNotConsumed[e] \cup S
      BY <2>2, Zenon
    <3>4. UNCHANGED NextFrameExpected
      BY <2>1, Zenon
    <3> HIDE DEF S
    <3> QED
      BY <1>7, <3>1, <3>2, <3>3, <3>4, Zenon
  <2> QED
    BY <1>1, <2>1, <2>2, <2>3, <2>4, LinksRecvStep, Zenon
<1>11. CASE RecvInfo(e, p)
  <2>1. /\ UNCHANGED <<NextFrameExpected, Rxq, RcvdButNotConsumed, recvLastFrameClientConsumed>>
        /\ \A q \in net' : q \in net \/ q = ReAck(e)
    BY <1>11, TransmitOne, TransmitNone, Zenon DEF RecvInfo
  <2>2. CountersInv(o)'
    BY <1>6, <2>1, Zenon
  <2>3. HeldInv(o)'
    <3> DEFINE S == {}
    <3>1. \A s \in S : s \in Int /\ NextFrameExpected[e] <= s /\ s <= LargestSeqnoRcvd'[e]
      BY Zenon
    <3>2. S \in SUBSET S /\ UNCHANGED NextFrameExpected
      BY <2>1, Zenon
    <3>3. RcvdButNotConsumed'[e] = RcvdButNotConsumed[e] \cup S /\ Rxq'[e] = Rxq[e] \cup S
      BY <2>1, Zenon
    <3> HIDE DEF S
    <3> QED
      BY <1>7, <3>1, <3>2, <3>3, Zenon
  <2> QED
    BY <1>1, <2>1, <2>2, <2>3, LinksRecvStep, Zenon
<1> QED
  BY <1>8, <1>9, <1>10, <1>11, Zenon DEF Recv

-----------------------------------------------------------------------------
(* The client *)

\* The client consumes: the limit on acks grows with what is acknowledged.
LEMMA LinksConsume ==
  ASSUME TypeOK, TypeOK', Links, NEW e \in Endpoint, NEW byte \in Int,
         NEW last \in LastMsgConsumed[e] .. NextFrameExpected[e] - 1,
         LastMsgConsumed[e] < last, Consume(e, last, byte),
         UNCHANGED <<sndVars, recvLastFrameClientConsumed>>
  PROVE  Links'
<1> DEFINE o == Other(e)
<1>1. o \in Endpoint /\ o # e /\ Other(o) = e /\ \A f \in Endpoint : f = e \/ f = o
  BY OtherFacts, Zenon
<1>2. /\ LastMsgConsumed[e] \in Int /\ last \in Int /\ NextFrameExpected[e] \in Int
      /\ LargestSeqnoRcvd[e] \in Int /\ RecvWindowSize[e] \in Int
      /\ LastMsgConsumed[o] \in Int /\ LastFrameSent[o] \in Int
      /\ LastFrameSent[e] \in Nat \cup {-1}
      /\ RcvdButNotConsumed[e] \subseteq Nat
      /\ LastFrameClientConsumed[e] \in Int /\ recvLastFrameClientConsumed[e] \in Int
  BY <1>1, SizeAssumption DEF TypeOK
<1>3. /\ LastMsgConsumed'[e] = last
      /\ LastMsgConsumed'[o] = LastMsgConsumed[o]
      /\ LastFrameClientConsumed'[e] = last
      /\ LastFrameClientConsumed'[o] = LastFrameClientConsumed[o]
      /\ RcvdButNotConsumed'[e] = RcvdButNotConsumed[e] \ (LastMsgConsumed[e] + 1 .. last)
      /\ RcvdButNotConsumed'[o] = RcvdButNotConsumed[o]
      /\ UNCHANGED <<NextFrameExpected, Rxq, LargestSeqnoRcvd>>
  BY <1>1, Zenon DEF Consume, TypeOK
<1>4. /\ -1 <= LastMsgConsumed[e]
      /\ NextFrameExpected[e] - 1 <= LargestSeqnoRcvd[e]
      /\ LargestSeqnoRcvd[e] <= LastFrameSent[o]
      /\ recvLastFrameClientConsumed[e] <= AckLimit(e)
  BY <1>1, Zenon DEF Links, LinkInv, CountersInv
<1>5. /\ 0 <= last /\ -1 <= last /\ last <= last
      /\ last < NextFrameExpected[e] /\ last <= LargestSeqnoRcvd[e]
  BY <1>2, <1>4
<1>6. /\ AckLimit(e)' = last /\ AckLimit(e) <= last
      /\ AckLimit(o)' = AckLimit(o) /\ AckLimit(e) \in Int
      /\ recvLastFrameClientConsumed[e] <= last
  BY <1>2, <1>3, <1>4, <1>5 DEF AckLimit
<1>7. UNCHANGED <<LastFrameSent, SentButNotAcked, LastSeenAvailReaderMsgCap,
                  recvLastFrameClientConsumed>>
  BY Zenon DEF sndVars
<1>8. \A f \in Endpoint : CountersInv(f)'
  <2>1. CountersInv(e)'
    <3>1. CountersInv(e)
      BY Zenon DEF Links, LinkInv
    <3> QED
      BY <1>1, <1>3, <1>6, <1>7, <3>1, Zenon DEF CountersInv
  <2>2. CountersInv(o)'
    BY <1>1, <1>3, <1>4, <1>5, <1>6, <1>7, Zenon DEF CountersInv
  <2> QED
    BY <1>1, <2>1, <2>2, Zenon
<1>9. \A f \in Endpoint : RetryInv(f)'
  <2>1. RetryInv(e)'
    BY <1>6, <1>7, Zenon DEF Links, LinkInv, RetryInv
  <2>2. RetryInv(o)'
    <3>1. PICK a \in -1 .. LastFrameSent[o] :
            a <= AckLimit(e) /\ SentButNotAcked[o] = a + 1 .. LastFrameSent[o]
      BY <1>1, Zenon DEF Links, LinkInv, RetryInv
    <3>2. a <= AckLimit(e)'
      BY <1>2, <1>6, <3>1
    <3> QED
      BY <1>1, <1>7, <3>1, <3>2, Zenon DEF RetryInv
  <2> QED
    BY <1>1, <2>1, <2>2, Zenon
<1>10. \A f \in Endpoint : CapacityInv(f)'
  <2>1. /\ AvailReaderMsgCap[e] <= RecvWindowSize[e]
        /\ LastFrameSent[o] <= RecvWindowSize[e] + AckLimit(e)
    BY <1>1, Zenon DEF Links, LinkInv, CapacityInv
  <2>2. UpdateControl(e, LargestSeqnoRcvd[e], last, byte)
    BY Zenon DEF Consume
  <2>3. AvailReaderMsgCap'[e] <= RecvWindowSize[e] /\ AvailReaderMsgCap'[o] = AvailReaderMsgCap[o]
    BY <1>1, <1>2, <1>5, <2>1, <2>2, UpdateControlFacts, Zenon
  <2>4. CapacityInv(e)'
    BY <1>6, <1>7, <2>3, Zenon DEF Links, LinkInv, CapacityInv
  <2>5. LastFrameSent[o] <= RecvWindowSize[e] + last
    BY <1>2, <1>6, <2>1
  <2>6. CapacityInv(o)'
    BY <1>1, <1>6, <1>7, <2>3, <2>5, Zenon DEF Links, LinkInv, CapacityInv
  <2> QED
    BY <1>1, <2>4, <2>6, Zenon
<1>11. \A f \in Endpoint : PacketInv(f)'
  <2>1. \A q \in net' : q \in net \/ q = Ack(e, last, LargestSeqnoRcvd[e], last, byte)
    BY TransmitOne, Zenon DEF Consume
  <2>2. ASSUME NEW q, q = Ack(e, last, LargestSeqnoRcvd[e], last, byte) PROVE Safe(q)'
    <3>1. /\ q.dest = o /\ q.event = "DataAck" /\ q.seq = -1 /\ q.ack = last
          /\ q.msgs = MsgCap(e, LargestSeqnoRcvd[e], last)
      BY <2>2, Zenon DEF Ack
    <3>2. MsgCap(e, LargestSeqnoRcvd[e], last) <= RecvWindowSize[e]
      BY <1>2, <1>5 DEF MsgCap
    <3> QED
      BY <1>1, <1>2, <1>5, <1>6, <1>7, <3>1, <3>2 DEF Safe
  <2>3. \A q \in net' : q \in net \/ Safe(q)'
    BY <2>1, <2>2, Zenon
  <2>4. \A f \in Endpoint : LastMsgConsumed[f] <= LastMsgConsumed'[f]
    BY <1>1, <1>2, <1>3
  <2>5. \A f \in Endpoint : LastFrameSent[f] <= LastFrameSent'[f]
    BY <1>1, <1>2, <1>7
  <2> QED
    BY <2>3, <2>4, <2>5, PacketStep, Zenon
<1>12. \A f \in Endpoint : HeldInv(f)'
  <2>1. HeldInv(e)'
    BY <1>3, <1>7, Zenon DEF Links, LinkInv, HeldInv
  <2>2. HeldInv(o)'
    <3>1. HeldInv(o)
      BY <1>1, Zenon DEF Links, LinkInv
    <3> QED
      BY <1>1, <1>2, <1>3, <3>1 DEF HeldInv
  <2> QED
    BY <1>1, <2>1, <2>2, Zenon
<1> QED
  BY <1>8, <1>9, <1>10, <1>11, <1>12, Zenon DEF Links, LinkInv

\* fillAsMuchAsPossible: a read that completes no frame touches nothing the
\* invariant is about.
LEMMA LinksRead ==
  ASSUME TypeOK, TypeOK', Links, NEW e \in Endpoint, NEW n \in ReadSizes(e),
         fillAsMuchAsPossible(e, n)
  PROVE  Links'
<1> DEFINE byte == (IF LastByteConsumed[e] < 0 THEN 0 ELSE LastByteConsumed[e]) + n
<1>1. n \in Int
  BY DEF ReadSizes
<1>2. byte \in Int
  BY <1>1 DEF TypeOK
<1>3. PICK last \in LastMsgConsumed[e] .. NextFrameExpected[e] - 1 :
        \/ last > LastMsgConsumed[e] /\ Consume(e, last, byte)
        \/ UNCHANGED <<NextFrameExpected, Rxq, RcvdButNotConsumed, LastMsgConsumed,
                       LastFrameClientConsumed, LargestSeqnoRcvd, flowVars, net>>
  BY Zenon DEF fillAsMuchAsPossible
<1>4. UNCHANGED <<sndVars, recvLastFrameClientConsumed>>
  BY Zenon DEF fillAsMuchAsPossible
<1>5. CASE last > LastMsgConsumed[e] /\ Consume(e, last, byte)
  <2>1. LastMsgConsumed[e] < last
    BY <1>5, Zenon DEF TypeOK
  <2> QED
    BY <1>2, <1>4, <1>5, <2>1, LinksConsume, Zenon
<1>6. CASE UNCHANGED <<NextFrameExpected, Rxq, RcvdButNotConsumed, LastMsgConsumed,
                       LastFrameClientConsumed, LargestSeqnoRcvd, flowVars, net>>
  BY <1>4, <1>6, LinksNet, Zenon
<1> QED
  BY <1>3, <1>5, <1>6, Zenon
=============================================================================
