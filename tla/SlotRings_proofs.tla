-------------------------- MODULE SlotRings_proofs --------------------------
(***************************************************************************)
(* Theorems about SlidingWindow and SlotRings, for any window sizes.  The  *)
(* inductive invariant Links holds, and what follows: a frame is released  *)
(* only when consumed, the sender stays within the receive buffer, and the *)
(* receiver holds what it has accepted.  With an invariant of its own, the *)
(* sender stays within the buffer in bytes.  Then the slots, the retry     *)
(* trees and the ready queue hold what the sets of SlidingWindow say, and  *)
(* each direction of a session is a reliable stream.                       *)
(***************************************************************************)
EXTENDS SlotRings_steps, FiniteSetTheorems

\* The size of an interval, as the step of doOrigDataSend needs it.
LEMMA IntervalsCounted == IntervalSizes
  BY FS_Interval DEF IntervalSizes

\* The inductive invariant holds of every reachable state.
THEOREM LinksCorrect == Spec => []Links
<1>1. Links /\ TypeOK /\ TypeOK' /\ [Next]_vars => Links'
  <2> SUFFICES ASSUME Links, TypeOK, TypeOK', [Next]_vars PROVE Links'
    BY Zenon
  <2>1. CASE UNCHANGED vars
    <3>1. UNCHANGED <<sndVars, rcvVars, flowVars, recvLastFrameClientConsumed>> /\ net' = net
      BY <2>1, Zenon DEF vars
    <3> QED
      BY <3>1, LinksNet, Zenon DEF rcvVars
  <2>2. ASSUME NEW e \in Endpoint, deliverToConsumer(e) PROVE Links'
    <3>1. /\ NextFrameExpected[e] - 1 \in LastMsgConsumed[e] .. NextFrameExpected[e] - 1
          /\ Cumul(NextFrameExpected[e] - 1) \in Int
      BY <2>2, CumulType DEF deliverToConsumer, TypeOK
    <3> QED
      BY <2>2, <3>1, LinksConsume, Zenon DEF deliverToConsumer
  <2> QED
    BY <2>1, <2>2, IntervalsCounted, LinksSend, LinksRetry, LinksKeepAlive, LinksRecv, LinksRead, Zenon DEF Next
<1>2. Init => Links
  BY LinksInit, Zenon
<1> QED
  BY <1>1, <1>2, TypeCorrect, PTL DEF Spec

-----------------------------------------------------------------------------
(* What follows from Links *)

\* Retry covers loss, whatever the windows and however many frames are sent: a
\* frame other than the first leaves the retry trees only when consumed.
THEOREM ReleaseCorrect == Spec => []ReleasedOnlyWhenConsumed
<1>1. TypeOK /\ Links => ReleasedOnlyWhenConsumed
  <2> SUFFICES ASSUME TypeOK, Links, NEW e \in Endpoint, NEW s \in 1 .. LastFrameSent[e],
                      s \notin SentButNotAcked[e]
               PROVE  s <= LastMsgConsumed[Other(e)]
    BY Zenon DEF ReleasedOnlyWhenConsumed
  <2>1. PICK a \in -1 .. LastFrameSent[e] :
          a <= AckLimit(Other(e)) /\ SentButNotAcked[e] = a + 1 .. LastFrameSent[e]
    BY Zenon DEF Links, LinkInv, RetryInv
  <2>2. LastFrameSent[e] \in Int /\ LastMsgConsumed[Other(e)] \in Int
    BY OtherFacts DEF TypeOK
  <2> QED
    BY <2>1, <2>2 DEF AckLimit
<1> QED
  BY <1>1, TypeCorrect, LinksCorrect, PTL

\* Flow control holds however stale the advertised capacities: the frames sent
\* and not consumed fit the receive buffer, but for the one frame too many that
\* may be sent before the client first consumes.
THEOREM BufferCorrect == Spec => []WithinReceiveBuffer
<1>1. TypeOK /\ Links => WithinReceiveBuffer
  <2> SUFFICES ASSUME TypeOK, Links, NEW e \in Endpoint
               PROVE  LastFrameSent[e] - LastMsgConsumed[Other(e)] <=
                        RecvWindowSize[Other(e)]
                          + (IF LastMsgConsumed[Other(e)] = -1 THEN 1 ELSE 0)
    BY Zenon DEF WithinReceiveBuffer
  <2>1. /\ LastFrameSent[e] <= RecvWindowSize[Other(e)] + AckLimit(Other(e))
        /\ -1 <= LastMsgConsumed[Other(e)]
    BY Zenon DEF Links, LinkInv, CapacityInv, CountersInv
  <2>2. /\ LastFrameSent[e] \in Int /\ LastMsgConsumed[Other(e)] \in Int
        /\ RecvWindowSize[Other(e)] \in Int
    BY OtherFacts, SizeAssumption DEF TypeOK
  <2> QED
    BY <2>1, <2>2 DEF AckLimit
<1> QED
  BY <1>1, TypeCorrect, LinksCorrect, PTL

\* The receiver holds every frame it has accepted until the client consumes it.
THEOREM HeldCorrect == Spec => []AcceptedFramesHeld
<1>1. TypeOK /\ Links => AcceptedFramesHeld
  <2> SUFFICES ASSUME TypeOK, Links, NEW e \in Endpoint
               PROVE  /\ (LastMsgConsumed[e] + 1 .. NextFrameExpected[e] - 1) \cup Rxq[e]
                           \subseteq RcvdButNotConsumed[e]
                      /\ RcvdButNotConsumed[e] \subseteq
                           LastMsgConsumed[e] + 1 .. LastFrameSent[Other(e)]
    BY Zenon DEF AcceptedFramesHeld
  <2>1. Other(e) \in Endpoint /\ Other(Other(e)) = e
    BY OtherFacts, Zenon
  <2>2. HeldInv(Other(e)) /\ CountersInv(Other(e))
    BY <2>1, Zenon DEF Links, LinkInv
  <2>3. /\ LastMsgConsumed[e] \in Int /\ NextFrameExpected[e] \in Int
        /\ LargestSeqnoRcvd[e] \in Int /\ LastFrameSent[Other(e)] \in Int
        /\ RcvdButNotConsumed[e] \subseteq Nat
    BY <2>1 DEF TypeOK
  <2> QED
    BY <2>1, <2>2, <2>3 DEF HeldInv, CountersInv
<1> QED
  BY <1>1, TypeCorrect, LinksCorrect, PTL

-----------------------------------------------------------------------------
(* Flow control in bytes *)

\* The client has read no byte that was not received.  No byte capacity in use
\* exceeds the buffer by more than one (LastByteConsumed counts from -1 and
\* BytesCap adds one to it), and the sender's test keeps the bytes sent within
\* the buffer and one more frame.
BytesInv(e) ==
  LET o == Other(e)
  IN  /\ LastByteConsumed[o] <= Cumul(LargestSeqnoRcvd[o])
      /\ AvailReaderBytesCap[o] <= RecvWindowSizeBytes[o] + 1
      /\ LastSeenAvailReaderBytesCap[e] <= RecvWindowSizeBytes[o] + 1
      /\ \A p \in net : p.dest = e => p.bytes <= RecvWindowSizeBytes[o] + 1
      /\ (LastFrameSent[e] - AckLimit(o)) * MsgSize <= RecvWindowSizeBytes[o] + MsgSize

ByteLinks == \A e \in Endpoint : BytesInv(e)

\* A packet whose byte capacity is safe to use.
SafeBytes(p) == p.bytes <= RecvWindowSizeBytes[Other(p.dest)] + 1

\* More frames are more bytes.
LEMMA FramesToBytes ==
  ASSUME NEW a \in Int, NEW b \in Int, a <= b
  PROVE  a * MsgSize <= b * MsgSize /\ a * MsgSize \in Int /\ b * MsgSize \in Int
<1>1. MsgSize \in Nat
  BY SizeAssumption, Zenon
<1>2. (b - a) * MsgSize >= 0
  BY <1>1
<1>3. (b - a) * MsgSize = b * MsgSize - a * MsgSize
  BY <1>1
<1> QED
  BY <1>1, <1>2, <1>3

\* A later frame ends at a later byte.
LEMMA CumulMonotone ==
  ASSUME NEW a \in Int, NEW b \in Int, a <= b
  PROVE  Cumul(a) <= Cumul(b)
<1>1. a + 1 \in Int /\ b + 1 \in Int /\ a + 1 <= b + 1
  OBVIOUS
<1> QED
  BY <1>1, FramesToBytes, Zenon DEF Cumul

\* A client that has read no more than was received leaves at most the whole
\* buffer and one byte free.
LEMMA BytesCapBound ==
  ASSUME NEW e \in Endpoint, NEW l \in Int, NEW b \in Int, b <= Cumul(l)
  PROVE  BytesCap(e, l, b) <= RecvWindowSizeBytes[e] + 1
<1>1. Cumul(l) \in Int /\ RecvWindowSizeBytes[e] \in Int
  BY CumulType, SizeAssumption
<1> QED
  BY <1>1 DEF BytesCap

\* UpdateControl advertises no more than that and leaves the other endpoint alone.
LEMMA ByteControlFacts ==
  ASSUME TypeOK, NEW e \in Endpoint, NEW l \in Int, NEW c \in Int, NEW b \in Int,
         UpdateControl(e, l, c, b), b <= Cumul(l),
         \A f \in Endpoint : AvailReaderBytesCap[f] <= RecvWindowSizeBytes[f] + 1
  PROVE  \A f \in Endpoint : AvailReaderBytesCap'[f] <= RecvWindowSizeBytes[f] + 1
<1> DEFINE n == IF BytesCap(e, l, b) >= 0 THEN BytesCap(e, l, b) ELSE AvailReaderBytesCap[e]
<1>1. /\ AvailReaderBytesCap \in [Endpoint -> Nat]
      /\ AvailReaderBytesCap' = [AvailReaderBytesCap EXCEPT ![e] = n]
  BY Zenon DEF UpdateControl, TypeOK
<1>2. n <= RecvWindowSizeBytes[e] + 1
  BY BytesCapBound, Zenon
<1> HIDE DEF n
<1> QED
  BY <1>1, <1>2, Zenon

\* What a step that sends no new frame owes.
LEMMA BytesStep ==
  ASSUME TypeOK, TypeOK', ByteLinks, UNCHANGED LastFrameSent,
         \A f \in Endpoint : /\ LastMsgConsumed[f] <= LastMsgConsumed'[f]
                             /\ LastByteConsumed'[f] <= Cumul(LargestSeqnoRcvd'[f])
                             /\ AvailReaderBytesCap'[f] <= RecvWindowSizeBytes[f] + 1
                             /\ LastSeenAvailReaderBytesCap'[f]
                                  <= RecvWindowSizeBytes[Other(f)] + 1,
         \A p \in net' : p \in net \/ SafeBytes(p)
  PROVE  ByteLinks'
<1> SUFFICES ASSUME NEW e \in Endpoint PROVE BytesInv(e)'
  BY Zenon DEF ByteLinks
<1> DEFINE o == Other(e)
<1>1. o \in Endpoint /\ BytesInv(e)
  BY OtherFacts, Zenon DEF ByteLinks
<1>2. \A p \in net' : p.dest = e => p.bytes <= RecvWindowSizeBytes[o] + 1
  BY <1>1, Zenon DEF BytesInv, SafeBytes
<1>3. (LastFrameSent'[e] - AckLimit(o)') * MsgSize <= RecvWindowSizeBytes[o] + MsgSize
  <2>1. /\ LastFrameSent[e] \in Int /\ LastMsgConsumed[o] \in Int /\ LastMsgConsumed'[o] \in Int
        /\ RecvWindowSizeBytes[o] \in Int /\ MsgSize \in Int
    BY <1>1, SizeAssumption DEF TypeOK
  <2> DEFINE a == LastFrameSent[e] - AckLimit(o)'
             b == LastFrameSent[e] - AckLimit(o)
  <2>2. a \in Int /\ b \in Int /\ a <= b
    BY <1>1, <2>1 DEF AckLimit
  <2>3. b * MsgSize <= RecvWindowSizeBytes[o] + MsgSize
    BY <1>1, Zenon DEF BytesInv
  <2>4. LastFrameSent'[e] - AckLimit(o)' = a
    BY Zenon
  <2> HIDE DEF a, b
  <2>5. a * MsgSize <= b * MsgSize /\ a * MsgSize \in Int /\ b * MsgSize \in Int
    BY <2>2, FramesToBytes, Zenon
  <2>6. a * MsgSize <= RecvWindowSizeBytes[o] + MsgSize
    BY <2>1, <2>3, <2>5
  <2> QED
    BY <2>4, <2>6, Zenon
<1> QED
  BY <1>1, <1>2, <1>3, Zenon DEF BytesInv

\* The invariant read endpoint by endpoint.
LEMMA ByteFacts ==
  ASSUME TypeOK, ByteLinks
  PROVE  /\ \A f \in Endpoint : /\ LastByteConsumed[f] <= Cumul(LargestSeqnoRcvd[f])
                                /\ AvailReaderBytesCap[f] <= RecvWindowSizeBytes[f] + 1
                                /\ LastSeenAvailReaderBytesCap[f]
                                     <= RecvWindowSizeBytes[Other(f)] + 1
         /\ \A p \in net : SafeBytes(p)
<1>1. \A f \in Endpoint : Other(f) \in Endpoint /\ Other(Other(f)) = f
  BY OtherFacts, Zenon
<1>2. \A p \in net : p.dest \in Endpoint
  BY Zenon DEF TypeOK, Packet
<1> QED
  BY <1>1, <1>2, Zenon DEF ByteLinks, BytesInv, SafeBytes

\* The freshly established session has sent no byte.
LEMMA BytesInit == Init => ByteLinks
<1> SUFFICES ASSUME Init, NEW e \in Endpoint PROVE BytesInv(e)
  BY Zenon DEF ByteLinks
<1> DEFINE o == Other(e)
<1>1. o \in Endpoint /\ RecvWindowSizeBytes[o] \in Nat /\ MsgSize \in Nat
  BY OtherFacts, SizeAssumption, Zenon
<1>2. Cumul(-1) = 0 /\ (-1 - 0) * MsgSize <= 0
  BY <1>1 DEF Cumul
<1>3. AckLimit(o) = 0
  BY <1>1 DEF Init, AckLimit
<1> QED
  BY <1>1, <1>2, <1>3 DEF Init, BytesInv

\* doOrigDataSend: the frames in flight fill less than the capacity last seen,
\* so one more fills less than a frame more than it.
LEMMA BytesSend ==
  ASSUME TypeOK, TypeOK', Links, ByteLinks, NEW e \in Endpoint, doOrigDataSend(e)
  PROVE  ByteLinks'
<1> DEFINE o == Other(e)
<1>1. /\ LastFrameSent' = [LastFrameSent EXCEPT ![e] = @ + 1]
      /\ LastSeenAvailReaderBytesCap[e] - Cardinality(SentButNotAcked[e]) * MsgSize > 0
      /\ UNCHANGED <<LastSeenAvailReaderBytesCap, rcvVars, flowVars>>
      /\ net' \subseteq net \cup {DataPacket(e, LastFrameSent[e] + 1)}
  BY TransmitFacts, Zenon DEF doOrigDataSend, ComputeInflight
<1>2. /\ o \in Endpoint /\ o # e /\ Other(o) = e /\ \A f \in Endpoint : f = e \/ f = o
      /\ BytesInv(e) /\ BytesInv(o)
  BY OtherFacts, Zenon DEF ByteLinks
<1>3. /\ LastFrameSent[e] \in Int /\ LastMsgConsumed[o] \in Int
      /\ LastSeenAvailReaderBytesCap[e] \in Int
      /\ RecvWindowSizeBytes[o] \in Int /\ MsgSize \in Int
  BY <1>2, SizeAssumption DEF TypeOK
<1>4. AckLimit(o)' = AckLimit(o) /\ AckLimit(e)' = AckLimit(e) /\ AckLimit(o) \in Int
  BY <1>1, <1>3 DEF AckLimit, rcvVars
<1>5. LastFrameSent'[e] = LastFrameSent[e] + 1 /\ LastFrameSent'[o] = LastFrameSent[o]
  BY <1>1, <1>2, Zenon DEF TypeOK
<1>6. ASSUME NEW p \in net' PROVE SafeBytes(p)
  <2>1. CASE p \in net
    BY <2>1, ByteFacts, Zenon
  <2>2. CASE p = DataPacket(e, LastFrameSent[e] + 1)
    <3>1. p.dest = o /\ p.bytes = AvailReaderBytesCap[e]
      BY <2>2, Zenon DEF DataPacket
    <3> QED
      BY <1>2, <3>1, ByteFacts, Zenon DEF SafeBytes
  <2> QED
    BY <1>1, <2>1, <2>2, Zenon
<1>7. ((LastFrameSent[e] + 1) - AckLimit(o)) * MsgSize <= RecvWindowSizeBytes[o] + MsgSize
  <2>1. PICK a \in -1 .. LastFrameSent[e] :
          a <= AckLimit(o) /\ SentButNotAcked[e] = a + 1 .. LastFrameSent[e]
    BY Zenon DEF Links, LinkInv, RetryInv
  <2> DEFINE k == LastFrameSent[e] - a
             m == LastFrameSent[e] - AckLimit(o)
  <2>2. Cardinality(SentButNotAcked[e]) = k
    <3>1. a + 1 \in Int /\ LastFrameSent[e] \in Int /\ a + 1 <= LastFrameSent[e] + 1
      BY <1>3, <2>1
    <3>2. Cardinality(a + 1 .. LastFrameSent[e]) =
            IF a + 1 > LastFrameSent[e] THEN 0 ELSE LastFrameSent[e] - (a + 1) + 1
      BY <3>1, IntervalsCounted, Zenon DEF IntervalSizes
    <3> QED
      BY <2>1, <3>1, <3>2
  <2>3. k \in Int /\ m \in Int /\ m <= k /\ (LastFrameSent[e] + 1) - AckLimit(o) = m + 1
    BY <1>3, <1>4, <2>1
  <2>4. /\ LastSeenAvailReaderBytesCap[e] - k * MsgSize > 0
        /\ LastSeenAvailReaderBytesCap[e] <= RecvWindowSizeBytes[o] + 1
    BY <1>1, <2>2, ByteFacts, Zenon
  <2> HIDE DEF k, m
  <2>5. m * MsgSize <= k * MsgSize /\ m * MsgSize \in Int /\ k * MsgSize \in Int
    BY <2>3, FramesToBytes, Zenon
  <2>6. (m + 1) * MsgSize = m * MsgSize + MsgSize
    BY <1>3, <2>3
  <2>7. m * MsgSize + MsgSize <= RecvWindowSizeBytes[o] + MsgSize
    BY <1>3, <2>4, <2>5
  <2> QED
    BY <2>3, <2>6, <2>7, Zenon
<1>8. BytesInv(e)'
  <2>1. (LastFrameSent'[e] - AckLimit(o)') * MsgSize <= RecvWindowSizeBytes[o] + MsgSize
    BY <1>4, <1>5, <1>7, Zenon
  <2>2. \A p \in net' : p.dest = e => p.bytes <= RecvWindowSizeBytes[o] + 1
    BY <1>6, Zenon DEF SafeBytes
  <2> QED
    BY <1>1, <1>2, <2>1, <2>2, Zenon DEF BytesInv, rcvVars, flowVars
<1>9. BytesInv(o)'
  BY <1>1, <1>2, <1>4, <1>5, <1>6, Zenon DEF BytesInv, SafeBytes, rcvVars, flowVars
<1> QED
  BY <1>2, <1>8, <1>9, Zenon DEF ByteLinks

\* A retry, a keep-alive or a stuttering step sends the capacity as it stands.
LEMMA BytesNet ==
  ASSUME TypeOK, TypeOK', ByteLinks, UNCHANGED <<sndVars, rcvVars, flowVars>>,
         \A p \in net' : p \in net \/ SafeBytes(p)
  PROVE  ByteLinks'
<1>1. \A f \in Endpoint : LastMsgConsumed[f] \in Int
  BY Zenon DEF TypeOK
<1> QED
  BY <1>1, ByteFacts, BytesStep DEF sndVars, rcvVars, flowVars

\* regularIntervalWakeup: the frames retried carry the capacity as it stands.
LEMMA BytesRetry ==
  ASSUME TypeOK, TypeOK', ByteLinks, NEW e \in Endpoint, regularIntervalWakeup(e)
  PROVE  ByteLinks'
<1>1. PICK expired \in SUBSET SentButNotAcked[e] :
        Transmit({}, {DataPacket(e, s) : s \in expired})
  BY Zenon DEF regularIntervalWakeup
<1>2. \A p \in net' : p \in net \/ \E s \in expired : p = DataPacket(e, s)
  BY <1>1, TransmitFacts
<1>3. \A s : DataPacket(e, s).dest = Other(e) /\ DataPacket(e, s).bytes = AvailReaderBytesCap[e]
  BY Zenon DEF DataPacket
<1>4. \A s : SafeBytes(DataPacket(e, s))
  BY <1>3, OtherFacts, ByteFacts, Zenon DEF SafeBytes
<1> QED
  BY <1>2, <1>4, BytesNet, Zenon DEF regularIntervalWakeup

\* doKeepAlive: so does the keep-alive.
LEMMA BytesKeepAlive ==
  ASSUME TypeOK, TypeOK', ByteLinks, NEW e \in Endpoint, doKeepAlive(e)
  PROVE  ByteLinks'
<1> DEFINE kap == [dest |-> Other(e), event |-> "KeepAlive", seq |-> -1,
                   ack |-> recvLastFrameClientConsumed[e],
                   msgs |-> AvailReaderMsgCap[e], bytes |-> AvailReaderBytesCap[e]]
<1>1. \A p \in net' : p \in net \/ p = kap
  BY TransmitOne, Zenon DEF doKeepAlive
<1>2. SafeBytes(kap)
  BY OtherFacts, ByteFacts, Zenon DEF SafeBytes
<1> QED
  BY <1>1, <1>2, BytesNet, Zenon DEF doKeepAlive

\* An arrival: the sender takes over a capacity that was safe in the packet, and
\* the ack that may answer it is computed as UpdateControl does.
LEMMA BytesRecv ==
  ASSUME TypeOK, TypeOK', Links, ByteLinks, NEW e \in Endpoint, NEW p \in net, Recv(e, p)
  PROVE  ByteLinks'
<1>1. /\ p.dest = e /\ Arrive(e, p)
      /\ UNCHANGED <<LastMsgConsumed, LastFrameClientConsumed, LastByteConsumed>>
  BY Zenon DEF Recv, RecvNextFrame, RecvFrameAhead, RecvFrameOutside, RecvInfo
<1>2. /\ UpdateControl(e, LargestSeqnoRcvd'[e], LastMsgConsumed[e], LastByteConsumed[e])
      /\ GotPack(e, p)
      /\ UNCHANGED LastFrameSent
  BY <1>1, ArriveFacts, Zenon
<1>3. /\ \A f \in Endpoint : f # e => LargestSeqnoRcvd'[f] = LargestSeqnoRcvd[f]
      /\ LargestSeqnoRcvd[e] <= LargestSeqnoRcvd'[e]
  BY <1>1, ArriveLinks, Zenon
<1>4. \A f \in Endpoint : /\ LargestSeqnoRcvd[f] \in Int /\ LargestSeqnoRcvd'[f] \in Int
                          /\ LastMsgConsumed[f] \in Int /\ LastByteConsumed[f] \in Int
  BY Zenon DEF TypeOK
<1>5. \A f \in Endpoint : LastByteConsumed[f] <= Cumul(LargestSeqnoRcvd'[f])
  <2>1. Cumul(LargestSeqnoRcvd[e]) <= Cumul(LargestSeqnoRcvd'[e])
    BY <1>3, <1>4, CumulMonotone, Zenon
  <2>2. Cumul(LargestSeqnoRcvd[e]) \in Int /\ Cumul(LargestSeqnoRcvd'[e]) \in Int
    BY <1>4, CumulType, Zenon
  <2>3. \A f \in Endpoint : LastByteConsumed[f] <= Cumul(LargestSeqnoRcvd[f])
    BY ByteFacts, Zenon
  <2>4. LastByteConsumed[e] <= Cumul(LargestSeqnoRcvd'[e])
    BY <1>4, <2>1, <2>2, <2>3
  <2> QED
    BY <1>3, <2>3, <2>4, Zenon
<1>6. \A f \in Endpoint : AvailReaderBytesCap'[f] <= RecvWindowSizeBytes[f] + 1
  BY <1>2, <1>4, <1>5, ByteFacts, ByteControlFacts, Zenon
<1>7. \A f \in Endpoint : LastSeenAvailReaderBytesCap'[f] <= RecvWindowSizeBytes[Other(f)] + 1
  <2>1. LastSeenAvailReaderBytesCap' = [LastSeenAvailReaderBytesCap EXCEPT ![e] = p.bytes]
    BY <1>2, Zenon DEF GotPack
  <2>2. p.bytes <= RecvWindowSizeBytes[Other(e)] + 1
    BY <1>1, ByteFacts, Zenon DEF SafeBytes
  <2>3. \A f \in Endpoint : LastSeenAvailReaderBytesCap[f] <= RecvWindowSizeBytes[Other(f)] + 1
    BY ByteFacts, Zenon
  <2> QED
    BY <2>1, <2>2, <2>3, Zenon DEF TypeOK
<1>8. \A q \in net' : q \in net \/ SafeBytes(q)
  <2>1. \A q \in net' : q \in net \/ q = ReAck(e)
    BY TransmitOne, TransmitNone, Zenon DEF Recv, RecvNextFrame, RecvFrameAhead, RecvFrameOutside, RecvInfo
  <2>2. /\ ReAck(e).dest = Other(e)
        /\ ReAck(e).bytes = BytesCap(e, LargestSeqnoRcvd'[e], LastByteConsumed[e])
    BY Zenon DEF ReAck, Ack
  <2>3. BytesCap(e, LargestSeqnoRcvd'[e], LastByteConsumed[e]) <= RecvWindowSizeBytes[e] + 1
    BY <1>4, <1>5, BytesCapBound, Zenon
  <2>4. SafeBytes(ReAck(e))
    BY <2>2, <2>3, OtherFacts, Zenon DEF SafeBytes
  <2> QED
    BY <2>1, <2>4, Zenon
<1>9. \A f \in Endpoint : LastMsgConsumed[f] <= LastMsgConsumed'[f]
  BY <1>1, <1>4
<1>10. \A f \in Endpoint : LastByteConsumed'[f] <= Cumul(LargestSeqnoRcvd'[f])
  BY <1>1, <1>5, Zenon
<1> QED
  BY <1>2, <1>6, <1>7, <1>8, <1>9, <1>10, BytesStep, Zenon

\* The frames that are ready were all received, so their bytes were.
LEMMA BytesReady ==
  ASSUME TypeOK, Links, NEW e \in Endpoint, NEW byte \in Int,
         byte <= Cumul(NextFrameExpected[e] - 1)
  PROVE  byte <= Cumul(LargestSeqnoRcvd[e])
<1>1. NextFrameExpected[e] - 1 <= LargestSeqnoRcvd[e]
  BY OtherFacts, Zenon DEF Links, LinkInv, CountersInv
<1>2. NextFrameExpected[e] - 1 \in Int /\ LargestSeqnoRcvd[e] \in Int
  BY DEF TypeOK
<1>3. Cumul(NextFrameExpected[e] - 1) <= Cumul(LargestSeqnoRcvd[e])
  BY <1>1, <1>2, CumulMonotone, Zenon
<1>4. Cumul(NextFrameExpected[e] - 1) \in Int /\ Cumul(LargestSeqnoRcvd[e]) \in Int
  BY <1>2, CumulType, Zenon
<1> QED
  BY <1>3, <1>4

\* The client reads no further than the frames that are ready, all received.
LEMMA BytesConsume ==
  ASSUME TypeOK, TypeOK', Links, ByteLinks, NEW e \in Endpoint, NEW byte \in Int,
         NEW last \in Int, LastMsgConsumed[e] <= last,
         byte <= Cumul(NextFrameExpected[e] - 1), Consume(e, last, byte), UNCHANGED sndVars
  PROVE  ByteLinks'
<1>1. /\ LastMsgConsumed' = [LastMsgConsumed EXCEPT ![e] = last]
      /\ LastByteConsumed' = [LastByteConsumed EXCEPT ![e] = byte]
      /\ UpdateControl(e, LargestSeqnoRcvd[e], last, byte)
      /\ net' \subseteq net \cup {Ack(e, last, LargestSeqnoRcvd[e], last, byte)}
      /\ UNCHANGED <<LargestSeqnoRcvd, LastFrameSent, LastSeenAvailReaderBytesCap>>
  BY TransmitFacts, Zenon DEF Consume, sndVars
<1>2. byte <= Cumul(LargestSeqnoRcvd[e])
  BY BytesReady, Zenon
<1>3. LargestSeqnoRcvd[e] \in Int /\ \A f \in Endpoint : LastMsgConsumed[f] \in Int
  BY Zenon DEF TypeOK
<1>4. \A f \in Endpoint : AvailReaderBytesCap'[f] <= RecvWindowSizeBytes[f] + 1
  BY <1>1, <1>2, <1>3, ByteFacts, ByteControlFacts, Zenon
<1>5. \A f \in Endpoint : /\ LastMsgConsumed[f] <= LastMsgConsumed'[f]
                          /\ LastByteConsumed'[f] <= Cumul(LargestSeqnoRcvd'[f])
  BY <1>1, <1>2, <1>3, ByteFacts DEF TypeOK
<1>6. \A q \in net' : q \in net \/ SafeBytes(q)
  <2> DEFINE ack == Ack(e, last, LargestSeqnoRcvd[e], last, byte)
  <2>1. ack.dest = Other(e) /\ ack.bytes = BytesCap(e, LargestSeqnoRcvd[e], byte)
    BY Zenon DEF Ack
  <2>2. BytesCap(e, LargestSeqnoRcvd[e], byte) <= RecvWindowSizeBytes[e] + 1
    BY <1>2, <1>3, BytesCapBound, Zenon
  <2> QED
    BY <1>1, <2>1, <2>2, OtherFacts DEF SafeBytes
<1>7. \A f \in Endpoint : LastSeenAvailReaderBytesCap'[f] <= RecvWindowSizeBytes[Other(f)] + 1
  BY <1>1, ByteFacts, Zenon
<1> QED
  BY <1>1, <1>4, <1>5, <1>6, <1>7, BytesStep, Zenon

\* fillAsMuchAsPossible: a read that ends within a frame only moves LastByteConsumed.
LEMMA BytesRead ==
  ASSUME TypeOK, TypeOK', Links, ByteLinks, NEW e \in Endpoint, NEW n \in ReadSizes(e),
         fillAsMuchAsPossible(e, n)
  PROVE  ByteLinks'
<1> DEFINE byte == (IF LastByteConsumed[e] < 0 THEN 0 ELSE LastByteConsumed[e]) + n
<1>1. n \in Int
  BY DEF ReadSizes
<1>2. byte \in Int /\ byte <= Cumul(NextFrameExpected[e] - 1)
  BY <1>1 DEF TypeOK, fillAsMuchAsPossible
<1>3. PICK last \in LastMsgConsumed[e] .. NextFrameExpected[e] - 1 :
        \/ Consume(e, last, byte)
        \/ /\ LastByteConsumed' = [LastByteConsumed EXCEPT ![e] = byte]
           /\ UNCHANGED <<LastMsgConsumed, LargestSeqnoRcvd, flowVars, net>>
  BY Zenon DEF fillAsMuchAsPossible
<1>4. UNCHANGED sndVars /\ last \in Int /\ LastMsgConsumed[e] <= last
  BY DEF fillAsMuchAsPossible, TypeOK
<1>5. CASE Consume(e, last, byte)
  BY <1>2, <1>4, <1>5, BytesConsume, Zenon
<1>6. CASE /\ LastByteConsumed' = [LastByteConsumed EXCEPT ![e] = byte]
           /\ UNCHANGED <<LastMsgConsumed, LargestSeqnoRcvd, flowVars, net>>
  <2> HIDE DEF byte
  <2>1. byte <= Cumul(LargestSeqnoRcvd[e])
    BY <1>2, BytesReady, Zenon
  <2>2. \A f \in Endpoint : LastByteConsumed'[f] <= Cumul(LargestSeqnoRcvd'[f])
    BY <1>6, <2>1, ByteFacts, Zenon DEF TypeOK
  <2>3. \A f \in Endpoint : LastMsgConsumed[f] <= LastMsgConsumed'[f]
    BY <1>6 DEF TypeOK
  <2> QED
    BY <1>4, <1>6, <2>2, <2>3, ByteFacts, BytesStep, Zenon DEF sndVars, flowVars
<1> QED
  BY <1>3, <1>5, <1>6, Zenon

\* The invariant of the byte counts holds of every reachable state.
THEOREM ByteLinksCorrect == Spec => []ByteLinks
<1>1. ByteLinks /\ Links /\ TypeOK /\ TypeOK' /\ [Next]_vars => ByteLinks'
  <2> SUFFICES ASSUME ByteLinks, Links, TypeOK, TypeOK', [Next]_vars PROVE ByteLinks'
    BY Zenon
  <2>1. CASE UNCHANGED vars
    <3>1. UNCHANGED <<sndVars, rcvVars, flowVars>> /\ net' = net
      BY <2>1, Zenon DEF vars
    <3> QED
      BY <3>1, BytesNet, Zenon
  <2>2. ASSUME NEW e \in Endpoint, deliverToConsumer(e) PROVE ByteLinks'
    <3> DEFINE last == NextFrameExpected[e] - 1
    <3>1. last \in Int /\ LastMsgConsumed[e] <= last
      BY <2>2 DEF deliverToConsumer, TypeOK
    <3>2. Cumul(last) \in Int /\ Cumul(last) <= Cumul(last)
      BY <3>1, CumulType
    <3> QED
      BY <2>2, <3>1, <3>2, BytesConsume, Zenon DEF deliverToConsumer
  <2> QED
    BY <2>1, <2>2, BytesSend, BytesRetry, BytesKeepAlive, BytesRecv, BytesRead, Zenon DEF Next
<1> QED
  BY <1>1, BytesInit, TypeCorrect, LinksCorrect, PTL DEF Spec

\* Byte flow control holds however stale the advertised capacities: the bytes
\* sent and not consumed fit the receive buffer and one more frame, but for the
\* further frame that may be sent before the client first consumes.
THEOREM ByteBufferCorrect == Spec => []WithinByteBuffer
<1>1. TypeOK /\ Links /\ ByteLinks => WithinByteBuffer
  <2> SUFFICES ASSUME TypeOK, Links, ByteLinks, NEW e \in Endpoint
               PROVE  (LastFrameSent[e] - LastMsgConsumed[Other(e)]) * MsgSize <=
                        RecvWindowSizeBytes[Other(e)] + MsgSize
                          + (IF LastMsgConsumed[Other(e)] = -1 THEN MsgSize ELSE 0)
    BY Zenon DEF WithinByteBuffer
  <2> DEFINE o == Other(e)
             k == LastFrameSent[e] - AckLimit(o)
  <2>1. /\ LastFrameSent[e] \in Int /\ LastMsgConsumed[o] \in Int
        /\ RecvWindowSizeBytes[o] \in Int /\ MsgSize \in Int
    BY OtherFacts, SizeAssumption DEF TypeOK
  <2>2. k * MsgSize <= RecvWindowSizeBytes[o] + MsgSize /\ -1 <= LastMsgConsumed[o]
    BY Zenon DEF ByteLinks, BytesInv, Links, LinkInv, CountersInv
  <2>3. CASE LastMsgConsumed[o] = -1
    <3>1. LastFrameSent[e] - LastMsgConsumed[o] = k + 1 /\ k \in Int
      BY <2>1, <2>3 DEF AckLimit
    <3> HIDE DEF k
    <3>2. (k + 1) * MsgSize = k * MsgSize + MsgSize /\ k * MsgSize \in Int
      BY <2>1, <3>1
    <3> QED
      BY <2>1, <2>2, <2>3, <3>1, <3>2
  <2>4. CASE LastMsgConsumed[o] # -1
    <3>1. AckLimit(o) = LastMsgConsumed[o]
      BY <2>1, <2>2, <2>4 DEF AckLimit
    <3> QED
      BY <2>1, <2>2, <2>4, <3>1
  <2> QED
    BY <2>3, <2>4, Zenon
<1> QED
  BY <1>1, TypeCorrect, LinksCorrect, ByteLinksCorrect, PTL

-----------------------------------------------------------------------------
(* The rings *)

\* The rings take no steps but those of SlidingWindow, so all that is proved of it
\* holds of them.
THEOREM RingsFollowWindow == RingSpec => Spec
<1>1. RingInit => Init
  BY Zenon DEF RingInit
<1>2. RingNext => Next
  BY Zenon DEF RingNext, Next, Recv, RingSend, RingRetry, RingRecvNextFrame, RingRecvFrameAhead,
     RingRecvOther, RingDeliver, RingRead
<1>3. [RingNext]_<<vars, ringVars>> => [Next]_vars
  BY <1>2, Zenon
<1> QED
  BY <1>1, <1>3, PTL DEF RingSpec, Spec

\* The slots, trees and queues are as RingInv says in every reachable state
\* (sender.go, recv.go, retree.go).
THEOREM RingInvCorrect == RingSpec => []RingInv
<1>1. RingInit => RingInv
  <2> SUFFICES ASSUME RingInit PROVE RingInv
    BY Zenon
  <2>1. RingTypeOK
    BY Zenon DEF RingInit, RingTypeOK
  <2>2. ASSUME NEW e \in Endpoint PROVE RxqInv(e)
    <3>1. \A s \in Window(e) : s \in Nat
      BY SizeAssumption DEF RingInit, Init, Window
    <3> QED
      BY <3>1, PosFacts DEF RingInit, Init, RxqInv, Holds, Free
  <2>3. ASSUME NEW e \in Endpoint PROVE ReadyInv(e)
    <3>1. \A a, b \in Int : b < a => Frames(a, b) = <<>>
      BY DEF Frames
    <3>2. LastMsgConsumed[e] = -1 /\ NextFrameExpected[e] = 0
          /\ ReadyForDelivery[e] = <<>> /\ delivered[e] = <<>>
      BY Zenon DEF RingInit, Init
    <3> QED
      BY <3>1, <3>2 DEF ReadyInv
  <2>4. ASSUME NEW e \in Endpoint PROVE TreesInv(e)
    BY DEF RingInit, Init, TreesInv, Free
  <2> QED
    BY <2>1, <2>2, <2>3, <2>4, Zenon DEF RingInv
<1>2. TypeOK /\ TypeOK' /\ Links /\ RingInv /\ [RingNext]_<<vars, ringVars>> => RingInv'
  <2> SUFFICES ASSUME TypeOK, TypeOK', Links, RingInv, [RingNext]_<<vars, ringVars>>
               PROVE  RingInv'
    BY Zenon
  <2>1. CASE UNCHANGED <<vars, ringVars>>
    BY <2>1, RingSame, Zenon DEF vars
  <2>2. ASSUME NEW e \in Endpoint, RingSend(e) PROVE RingInv'
    BY <2>2, IntervalsCounted, SendStep, Zenon
  <2>3. ASSUME NEW e \in Endpoint, RingRetry(e) PROVE RingInv'
    BY <2>3, RingSame, Zenon DEF RingRetry, regularIntervalWakeup
  <2>4. ASSUME NEW e \in Endpoint, doKeepAlive(e), UNCHANGED ringVars PROVE RingInv'
    BY <2>4, RingSame, Zenon DEF doKeepAlive
  <2>5. ASSUME NEW e \in Endpoint, NEW p \in net, RingRecvNextFrame(e, p) PROVE RingInv'
    BY <2>5, NextStep, Zenon
  <2>6. ASSUME NEW e \in Endpoint, NEW p \in net, RingRecvFrameAhead(e, p) PROVE RingInv'
    BY <2>6, AheadStep, Zenon
  <2>7. ASSUME NEW e \in Endpoint, NEW p \in net, RingRecvOther(e, p) PROVE RingInv'
    BY <2>7, OtherStep, Zenon
  <2>8. ASSUME NEW e \in Endpoint, RingDeliver(e) \/ \E k \in ReadSizes(e) : RingRead(e, k)
        PROVE  RingInv'
    BY <2>8, ReadAmount, TakeStep, Zenon
  <2> QED
    BY <2>1, <2>2, <2>3, <2>4, <2>5, <2>6, <2>7, <2>8, Zenon DEF RingNext
<1> QED
  BY <1>1, <1>2, RingsFollowWindow, TypeCorrect, LinksCorrect, PTL DEF RingSpec

\* The slots of Rxq hold the frames of the window, and the ready queue those the
\* client has still to consume, whatever the window sizes of the two ends.
THEOREM ReceiverRingCorrect == RingSpec => [](RxqSlotsHoldWindow /\ ReadyQueueMatches)
<1>1. TypeOK /\ Links /\ RingInv => RxqSlotsHoldWindow /\ ReadyQueueMatches
  <2> SUFFICES ASSUME TypeOK, Links, RingInv PROVE RxqSlotsHoldWindow /\ ReadyQueueMatches
    BY Zenon
  <2>1. RxqSlotsHoldWindow
    BY Zenon DEF RingInv, RxqInv, Holds, Window, RxqSlotsHoldWindow
  <2>2. ASSUME NEW e \in Endpoint
        PROVE  /\ ReadyForDelivery[e] =
                    [i \in 1 .. NextFrameExpected[e] - 1 - LastMsgConsumed[e]
                       |-> LastMsgConsumed[e] + i]
               /\ Len(delivered[e]) = LastMsgConsumed[e] + 1
    <3> DEFINE c == LastMsgConsumed[e]
               l == NextFrameExpected[e] - 1
    <3>1. c \in Int /\ l \in Int /\ -1 <= c
      BY CounterFacts, Zenon
    <3>2. 0 \in Int /\ 0 <= c + 1 /\ c - 0 + 1 = c + 1
      BY <3>1
    <3>3. Len(Frames(0, c)) = c - 0 + 1
      BY <3>1, <3>2, FramesType, Zenon
    <3>4. Frames(c + 1, l) = [i \in 1 .. l - c |-> c + i]
      <4>1. l - (c + 1) + 1 = l - c /\ \A i \in 1 .. l - c : (c + 1) + i - 1 = c + i
        BY <3>1
      <4> QED
        BY <4>1, Zenon DEF Frames
    <3> QED
      BY <3>2, <3>3, <3>4, Zenon DEF RingInv, ReadyInv
  <2> QED
    BY <2>1, <2>2, Zenon DEF ReadyQueueMatches
<1> QED
  BY <1>1, RingsFollowWindow, TypeCorrect, LinksCorrect, RingInvCorrect, PTL

\* When the windows of the two ends have the same size, no slot of Txq is reused
\* before its frame is acknowledged (sender.go, retree.go): all buffers hold what
\* the sets of SlidingWindow say.
THEOREM RingsCorrect ==
  ASSUME RecvWindowSize[A] = RecvWindowSize[B]
  PROVE  RingSpec => []RingsMatchSets
<1>1. \A e \in Endpoint : RecvWindowSize[Other(e)] <= RecvWindowSize[e]
  <2>1. \A e \in Endpoint : RecvWindowSize[e] \in Nat /\ RecvWindowSize[Other(e)] = RecvWindowSize[e]
    BY SizeAssumption, Zenon DEF Endpoint, Other
  <2> QED
    BY <2>1
<1>2. RingInv => RetryTreesHoldUnacked
  <2> SUFFICES ASSUME RingInv, NEW e \in Endpoint
               PROVE  /\ SentButNotAckedByDeadline[e] = SentButNotAckedBySeqNum[e]
                      /\ {TxqSlot[e][i] : i \in SentButNotAckedBySeqNum[e]} = SentButNotAcked[e]
    BY Zenon DEF RetryTreesHoldUnacked
  <2> QED
    BY <1>1 DEF RingInv, TreesInv
<1>3. RetryTreesHoldUnacked /\ RxqSlotsHoldWindow /\ ReadyQueueMatches => RingsMatchSets
  BY Zenon DEF RingsMatchSets
<1> QED
  BY <1>2, <1>3, RingInvCorrect, ReceiverRingCorrect, PTL

\* The direction from A to B of a session implements the reliable stream: every
\* step pushes an item, delivers items that were pushed next after those already
\* delivered, or changes neither (Push and Read, swp.go), whatever is lost,
\* duplicated or reordered and whatever the windows.
THEOREM StreamCorrect == RingSpec => ImplementsStream
<1>1. RingInit => Stream!Init
  <2> SUFFICES ASSUME RingInit PROVE Pushed(A) = <<>> /\ delivered[B] = <<>>
    BY Zenon DEF Stream!Init
  <2>1. LastFrameSent[A] + 1 = 0 /\ delivered[B] = <<>>
    BY DEF RingInit, Init, Endpoint
  <2> QED
    BY <2>1 DEF Pushed
<1>2. TypeOK /\ TypeOK' /\ Links /\ RingInv /\ RingInv' /\ [RingNext]_<<vars, ringVars>>
        => [Stream!Next]_<<Pushed(A), delivered[B]>>
  <2> SUFFICES ASSUME TypeOK, TypeOK', Links, RingInv, RingInv', [RingNext]_<<vars, ringVars>>
               PROVE  [Stream!Next]_<<Pushed(A), delivered[B]>>
    BY Zenon
  <2> DEFINE l == LastFrameSent[A]
             c == LastMsgConsumed[B]
             d == LastMsgConsumed'[B]
  <2>1. /\ delivered[B] = Frames(0, c) /\ delivered'[B] = Frames(0, d)
        /\ l \in Int /\ c \in Int /\ d \in Int /\ -1 <= c /\ -1 <= l /\ MaxFrames[A] \in Nat
    BY CounterFacts, SizeAssumption DEF RingInv, ReadyInv, TypeOK, Endpoint
  <2>2. CASE LastFrameSent'[A] = l + 1 /\ l + 1 < MaxFrames[A] /\ d = c
    <3>1. l + 1 \in 0 .. MaxFrames[A] - 1
      BY <2>1, <2>2
    <3>2. Pushed(A)' = Append(Pushed(A), l + 1) /\ delivered'[B] = delivered[B]
      BY <2>1, <2>2, PushedAppend, Zenon
    <3> QED
      BY <3>1, <3>2, Zenon DEF Stream!Next, Stream!Push
  <2>3. CASE LastFrameSent'[A] = l /\ c <= d /\ d <= l
    <3>1. Pushed(A)' = Pushed(A)
      BY <2>3, Zenon DEF Pushed
    <3>2. CASE d = c
      BY <2>1, <3>1, <3>2, Zenon
    <3>3. CASE d # c
      <4>1. d + 1 \in Nat /\ d + 1 <= l - 0 + 1 /\ 0 + (d + 1) - 1 = d
            /\ d + 1 \in c + 1 + 1 .. l + 1
        BY <2>1, <2>3, <3>3
      <4>2. SubSeq(Frames(0, l), 1, d + 1) = Frames(0, 0 + (d + 1) - 1)
        <5>1. 0 \in Int
          OBVIOUS
        <5> QED
          BY <2>1, <4>1, <5>1, FramesSub, Zenon
      <4>3. Len(delivered[B]) = c + 1 /\ Len(Pushed(A)) = l + 1 /\ Pushed(A) = Frames(0, l)
        <5>1. 0 \in Int /\ 0 <= c + 1 /\ c - 0 + 1 = c + 1
          BY <2>1
        <5>2. Len(Frames(0, c)) = c - 0 + 1
          BY <2>1, <5>1, FramesType, Zenon
        <5> QED
          BY <2>1, <5>1, <5>2, PushedFrames, Zenon
      <4>4. delivered'[B] = SubSeq(Pushed(A), 1, d + 1)
        BY <2>1, <4>1, <4>2, <4>3, Zenon
      <4> QED
        BY <3>1, <4>1, <4>3, <4>4, Zenon DEF Stream!Next, Stream!Deliver
    <3> QED
      BY <3>2, <3>3, Zenon
  <2> QED
    BY <2>2, <2>3, StreamSteps, Zenon
<1> QED
  BY <1>1, <1>2, RingsFollowWindow, TypeCorrect, LinksCorrect, RingInvCorrect, PTL
     DEF RingSpec, ImplementsStream, Stream!Spec
=============================================================================
