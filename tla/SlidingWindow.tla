--------------------------- MODULE SlidingWindow ---------------------------
(***************************************************************************)
(* The sliding window protocol of swp/sender.go and swp/recv.go, full      *)
(* duplex between the two endpoints of an established session: sending     *)
(* under the receiver's advertised capacity, retrying unacknowledged       *)
(* frames, in-order assembly at the receiver, acknowledgement when the     *)
(* client consumes, keep-alives, over a network that loses, duplicates and *)
(* reorders packets.                                                       *)
(*                                                                         *)
(* A frame is its sequence number.  Txq and Rxq are here the sets of       *)
(* frames they hold; SlotRings models them as the rings of slots they are. *)
(* ReadyForDelivery is the interval of frames between LastMsgConsumed and  *)
(* NextFrameExpected (SlotRings keeps it as a queue).                      *)
(***************************************************************************)
EXTENDS Integers, FiniteSets

CONSTANTS
  A, B,                 \* the two endpoints of the session
  RecvWindowSize,       \* [Endpoint -> Nat]: receive buffer in messages
  RecvWindowSizeBytes,  \* [Endpoint -> Nat]: receive buffer in bytes
  MsgSize,              \* bytes of data in every frame
  MaxFrames,            \* [Endpoint -> Nat]: bound on the frames an endpoint pushes
  MaxNet                \* bound on the packets in transit; what exceeds it is lost

Endpoint == {A, B}

ASSUME EndpointAssumption == A # B
ASSUME SizeAssumption ==
  /\ RecvWindowSize \in [Endpoint -> Nat \ {0}]
  /\ RecvWindowSizeBytes \in [Endpoint -> Nat \ {0}]
  /\ MsgSize \in Nat \ {0}
  /\ MaxFrames \in [Endpoint -> Nat]
  /\ MaxNet \in Nat

VARIABLES
  LastFrameSent,                \* sender.go, SenderState
  SentButNotAcked,              \* the frames in both retry trees
  LastSeenAvailReaderMsgCap,
  LastSeenAvailReaderBytesCap,
  NextFrameExpected,            \* recv.go, RecvState
  Rxq,                          \* frames received ahead of NextFrameExpected
  RcvdButNotConsumed,
  LastMsgConsumed,
  LastFrameClientConsumed,
  LastByteConsumed,
  LargestSeqnoRcvd,
  AvailReaderMsgCap,            \* flow.go, FlowCtrl shared by the two goroutines
  AvailReaderBytesCap,
  recvLastFrameClientConsumed,  \* the sender's copy, for keep-alives
  net                           \* packets in transit

sndVars  == <<LastFrameSent, SentButNotAcked, LastSeenAvailReaderMsgCap,
              LastSeenAvailReaderBytesCap>>
rcvVars  == <<NextFrameExpected, Rxq, RcvdButNotConsumed, LastMsgConsumed,
              LastFrameClientConsumed, LastByteConsumed, LargestSeqnoRcvd>>
flowVars == <<AvailReaderMsgCap, AvailReaderBytesCap>>
vars     == <<sndVars, rcvVars, flowVars, recvLastFrameClientConsumed, net>>

Other(e) == IF e = A THEN B ELSE A

\* Pack.CumulBytesTransmitted of frame s: all bytes sent up to and including it.
Cumul(s) == (s + 1) * MsgSize

Packet == [dest  : Endpoint,
           event : {"Data", "DataAck", "KeepAlive"},
           seq   : Int,        \* negative in the packets that are not data
           ack   : Int,
           msgs  : Int,        \* AvailReaderMsgCap
           bytes : Int]        \* AvailReaderBytesCap

-----------------------------------------------------------------------------
(* The network *)

\* The packets of out are sent while those of gone leave the network.  Any of
\* them may be lost; beyond MaxNet packets in transit, some are.
Transmit(gone, out) ==
  \E kept \in SUBSET out :
    /\ net' = (net \ gone) \cup kept
    /\ kept = {} \/ Cardinality(net') <= MaxNet

\* p reaches its destination; a duplicate of it may still be in transit.
Arrivals(p) == {{p}, {}}

-----------------------------------------------------------------------------
(* The sender goroutine *)

\* Mutant: the frames in flight are not counted.
ComputeInflight_Zero(e) == 0

ComputeInflight(e) == Cardinality(SentButNotAcked[e])

\* The packet that carries frame s: its AckNum field is never set.
DataPacket(e, s) ==
  [dest |-> Other(e), event |-> "Data", seq |-> s, ack |-> 0,
   msgs |-> AvailReaderMsgCap[e], bytes |-> AvailReaderBytesCap[e]]

\* Mutant: the flow-control test lets one frame too many through.
doOrigDataSend_OffByOne(e) ==
  /\ LastFrameSent[e] + 1 < MaxFrames[e]
  /\ LastSeenAvailReaderMsgCap[e] - ComputeInflight(e) >= 0
  /\ LastSeenAvailReaderBytesCap[e] - ComputeInflight(e) * MsgSize > 0
  /\ LastFrameSent' = [LastFrameSent EXCEPT ![e] = @ + 1]
  /\ SentButNotAcked' = [SentButNotAcked EXCEPT ![e] = @ \cup {LastFrameSent[e] + 1}]
  /\ Transmit({}, {DataPacket(e, LastFrameSent[e] + 1)})
  /\ UNCHANGED <<LastSeenAvailReaderMsgCap, LastSeenAvailReaderBytesCap,
                 rcvVars, flowVars, recvLastFrameClientConsumed>>

doOrigDataSend(e) ==
  /\ LastFrameSent[e] + 1 < MaxFrames[e]
  /\ LastSeenAvailReaderMsgCap[e] - ComputeInflight(e) > 0
  /\ LastSeenAvailReaderBytesCap[e] - ComputeInflight(e) * MsgSize > 0
  /\ LastFrameSent' = [LastFrameSent EXCEPT ![e] = @ + 1]
  /\ SentButNotAcked' = [SentButNotAcked EXCEPT ![e] = @ \cup {LastFrameSent[e] + 1}]
  /\ Transmit({}, {DataPacket(e, LastFrameSent[e] + 1)})
  /\ UNCHANGED <<LastSeenAvailReaderMsgCap, LastSeenAvailReaderBytesCap,
                 rcvVars, flowVars, recvLastFrameClientConsumed>>

\* At the regular wakeup the frames whose retry deadline has passed are sent
\* again, with the current flow information and a new deadline.
regularIntervalWakeup(e) ==
  /\ \E expired \in SUBSET SentButNotAcked[e] :
       /\ expired # {}
       /\ Transmit({}, {DataPacket(e, s) : s \in expired})
  /\ UNCHANGED <<sndVars, rcvVars, flowVars, recvLastFrameClientConsumed>>

doKeepAlive(e) ==
  /\ Transmit({}, {[dest |-> Other(e), event |-> "KeepAlive", seq |-> -1,
                    ack |-> recvLastFrameClientConsumed[e],
                    msgs |-> AvailReaderMsgCap[e], bytes |-> AvailReaderBytesCap[e]]})
  /\ UNCHANGED <<sndVars, rcvVars, flowVars, recvLastFrameClientConsumed>>

\* Mutant: AckNum is taken for the next frame expected rather than the last
\* one consumed, plus one.
GotPack_ReleasesNext(e, p) ==
  /\ LastSeenAvailReaderMsgCap' = [LastSeenAvailReaderMsgCap EXCEPT ![e] = p.msgs]
  /\ LastSeenAvailReaderBytesCap' = [LastSeenAvailReaderBytesCap EXCEPT ![e] = p.bytes]
  /\ SentButNotAcked' =
       [SentButNotAcked EXCEPT ![e] = {s \in @ : s > p.ack + 1}]
  /\ UNCHANGED LastFrameSent

\* The sender's part in the arrival of any packet p, whatever its event.
GotPack(e, p) ==
  /\ LastSeenAvailReaderMsgCap' = [LastSeenAvailReaderMsgCap EXCEPT ![e] = p.msgs]
  /\ LastSeenAvailReaderBytesCap' = [LastSeenAvailReaderBytesCap EXCEPT ![e] = p.bytes]
  /\ SentButNotAcked' =
       [SentButNotAcked EXCEPT ![e] = {s \in @ : s > p.ack}]
  /\ UNCHANGED LastFrameSent

-----------------------------------------------------------------------------
(* The receiver goroutine *)

InWindow(seqno, min, max) == min <= seqno /\ seqno <= max

\* The capacities UpdateControl computes once largest is the largest sequence
\* number received, and consumed and byte the last message and byte consumed.
MsgCap(e, largest, consumed) == RecvWindowSize[e] - (largest - consumed)
BytesCap(e, largest, byte) == RecvWindowSizeBytes[e] - (Cumul(largest) - (byte + 1))

\* A negative capacity is not recorded: UpdateFlow takes it for a query.
UpdateControl(e, largest, consumed, byte) ==
  /\ AvailReaderMsgCap' = [AvailReaderMsgCap EXCEPT ![e] =
       IF MsgCap(e, largest, consumed) >= 0 THEN MsgCap(e, largest, consumed) ELSE @]
  /\ AvailReaderBytesCap' = [AvailReaderBytesCap EXCEPT ![e] =
       IF BytesCap(e, largest, byte) >= 0 THEN BytesCap(e, largest, byte) ELSE @]

\* An ack carries the capacities as computed, negative ones included.
Ack(e, seqno, largest, consumed, byte) ==
  [dest |-> Other(e), event |-> "DataAck", seq |-> -1, ack |-> seqno,
   msgs |-> MsgCap(e, largest, consumed), bytes |-> BytesCap(e, largest, byte)]

\* The receiver's bookkeeping at the arrival of p, before its event is looked at.
Arrive(e, p) ==
  LET largest == IF p.seq > LargestSeqnoRcvd[e] THEN p.seq ELSE LargestSeqnoRcvd[e]
  IN  /\ LargestSeqnoRcvd' = [LargestSeqnoRcvd EXCEPT ![e] = largest]
      /\ UpdateControl(e, largest, LastMsgConsumed[e], LastByteConsumed[e])
      /\ GotPack(e, p)

\* The acknowledgement of p when it repeats what the client has consumed.
ReAck(e) == Ack(e, LastFrameClientConsumed[e], LargestSeqnoRcvd'[e],
                LastMsgConsumed[e], LastByteConsumed[e])

\* Where the in-order delivery loop stops: at the first frame from n on that
\* is not in the set received.
IsFirstMissing(m, n, received) ==
  m \notin received /\ \A k \in n .. m - 1 : k \in received

InRecvWindow(e, s) ==
  InWindow(s, NextFrameExpected[e], NextFrameExpected[e] + RecvWindowSize[e] - 1)

\* The frame expected next: it and the frames buffered behind it become ready.
RecvNextFrame(e, p) ==
  LET received == Rxq[e] \cup {p.seq}
  IN  /\ p.event = "Data"
      /\ p.seq = NextFrameExpected[e]
      /\ InRecvWindow(e, p.seq)
      /\ Arrive(e, p)
      /\ RcvdButNotConsumed' = [RcvdButNotConsumed EXCEPT ![e] = @ \cup {p.seq}]
      /\ \E next \in NextFrameExpected[e] + 1 .. NextFrameExpected[e] + RecvWindowSize[e] :
           /\ IsFirstMissing(next, NextFrameExpected[e], received)
           /\ NextFrameExpected' = [NextFrameExpected EXCEPT ![e] = next]
           /\ Rxq' = [Rxq EXCEPT ![e] = {s \in received : s >= next}]
      /\ recvLastFrameClientConsumed' =
           [recvLastFrameClientConsumed EXCEPT ![e] = LastFrameClientConsumed[e]]
      /\ \E gone \in Arrivals(p) : Transmit(gone, {})
      /\ UNCHANGED <<LastMsgConsumed, LastFrameClientConsumed, LastByteConsumed>>

\* Mutant: a frame ahead of the next one is not entered in RcvdButNotConsumed.
RecvFrameAhead_NotHeld(e, p) ==
  /\ p.event = "Data"
  /\ p.seq # NextFrameExpected[e]
  /\ InRecvWindow(e, p.seq)
  /\ Arrive(e, p)
  /\ Rxq' = [Rxq EXCEPT ![e] = @ \cup {p.seq}]
  /\ \E gone \in Arrivals(p) : Transmit(gone, {})
  /\ UNCHANGED <<NextFrameExpected, LastMsgConsumed, LastFrameClientConsumed,
                 LastByteConsumed, recvLastFrameClientConsumed, RcvdButNotConsumed>>

\* A frame of the window that is not the next one is only stored.
RecvFrameAhead(e, p) ==
  /\ p.event = "Data"
  /\ p.seq # NextFrameExpected[e]
  /\ InRecvWindow(e, p.seq)
  /\ Arrive(e, p)
  /\ RcvdButNotConsumed' = [RcvdButNotConsumed EXCEPT ![e] = @ \cup {p.seq}]
  /\ Rxq' = [Rxq EXCEPT ![e] = @ \cup {p.seq}]
  /\ \E gone \in Arrivals(p) : Transmit(gone, {})
  /\ UNCHANGED <<NextFrameExpected, LastMsgConsumed, LastFrameClientConsumed,
                 LastByteConsumed, recvLastFrameClientConsumed>>

\* A frame outside the window is dropped and acknowledged again.  One from
\* beyond the window has by then been entered in RcvdButNotConsumed.
RecvFrameOutside(e, p) ==
  /\ p.event = "Data"
  /\ ~InRecvWindow(e, p.seq)
  /\ Arrive(e, p)
  /\ RcvdButNotConsumed' = [RcvdButNotConsumed EXCEPT ![e] =
       IF p.seq >= NextFrameExpected[e] THEN @ \cup {p.seq} ELSE @]
  /\ \E gone \in Arrivals(p) : Transmit(gone, {ReAck(e)})
  /\ UNCHANGED <<NextFrameExpected, Rxq, LastMsgConsumed, LastFrameClientConsumed,
                 LastByteConsumed, recvLastFrameClientConsumed>>

\* Mutant: a keep-alive is not answered.
RecvInfo_Silent(e, p) ==
  /\ p.event # "Data"
  /\ Arrive(e, p)
  /\ \E gone \in Arrivals(p) : Transmit(gone, {})
  /\ UNCHANGED <<NextFrameExpected, Rxq, RcvdButNotConsumed, LastMsgConsumed,
                 LastFrameClientConsumed, LastByteConsumed, recvLastFrameClientConsumed>>

\* In the Established state a keep-alive is answered with an ack; an ack
\* only informs the sender.
RecvInfo(e, p) ==
  /\ p.event # "Data"
  /\ Arrive(e, p)
  /\ \E gone \in Arrivals(p) :
       Transmit(gone, IF p.event = "KeepAlive" THEN {ReAck(e)} ELSE {})
  /\ UNCHANGED <<NextFrameExpected, Rxq, RcvdButNotConsumed, LastMsgConsumed,
                 LastFrameClientConsumed, LastByteConsumed, recvLastFrameClientConsumed>>

\* The client has completely consumed the frames through last, and read up to
\* byte: they are released and acknowledged.
Consume(e, last, byte) ==
  /\ LastMsgConsumed' = [LastMsgConsumed EXCEPT ![e] = last]
  /\ LastFrameClientConsumed' = [LastFrameClientConsumed EXCEPT ![e] = last]
  /\ LastByteConsumed' = [LastByteConsumed EXCEPT ![e] = byte]
  /\ RcvdButNotConsumed' = [RcvdButNotConsumed EXCEPT ![e] =
       @ \ (LastMsgConsumed[e] + 1 .. last)]
  /\ UpdateControl(e, LargestSeqnoRcvd[e], last, byte)
  /\ Transmit({}, {Ack(e, last, LargestSeqnoRcvd[e], last, byte)})
  /\ UNCHANGED <<NextFrameExpected, Rxq, LargestSeqnoRcvd>>

\* ReadMessagesCh hands the client everything that is ready.
deliverToConsumer(e) ==
  /\ LastMsgConsumed[e] < NextFrameExpected[e] - 1
  /\ Consume(e, NextFrameExpected[e] - 1, Cumul(NextFrameExpected[e] - 1))
  /\ UNCHANGED <<sndVars, recvLastFrameClientConsumed>>

\* Read() copies n bytes of what is ready.  It acknowledges only when it
\* completes a frame, last being the last one then read to its end; otherwise
\* it just moves LastByteConsumed.
fillAsMuchAsPossible(e, n) ==
  LET from == IF LastByteConsumed[e] < 0 THEN 0 ELSE LastByteConsumed[e]
      byte == from + n
  IN  /\ byte <= Cumul(NextFrameExpected[e] - 1)
      /\ \E last \in LastMsgConsumed[e] .. NextFrameExpected[e] - 1 :
           /\ Cumul(last) <= byte /\ byte < Cumul(last + 1)
           /\ \/ /\ last > LastMsgConsumed[e]
                 /\ Consume(e, last, byte)
              \/ /\ last = LastMsgConsumed[e]
                 /\ LastByteConsumed' = [LastByteConsumed EXCEPT ![e] = byte]
                 /\ UNCHANGED <<NextFrameExpected, Rxq, RcvdButNotConsumed,
                                LastMsgConsumed, LastFrameClientConsumed,
                                LargestSeqnoRcvd, flowVars, net>>
      /\ UNCHANGED <<sndVars, recvLastFrameClientConsumed>>

-----------------------------------------------------------------------------

\* The session has just been established: the handshake has told each side
\* the other's capacity, and no data has been sent.
Init ==
  /\ LastFrameSent = [e \in Endpoint |-> -1]
  /\ SentButNotAcked = [e \in Endpoint |-> {}]
  /\ LastSeenAvailReaderMsgCap = [e \in Endpoint |-> RecvWindowSize[Other(e)]]
  /\ LastSeenAvailReaderBytesCap = [e \in Endpoint |-> RecvWindowSizeBytes[Other(e)]]
  /\ NextFrameExpected = [e \in Endpoint |-> 0]
  /\ Rxq = [e \in Endpoint |-> {}]
  /\ RcvdButNotConsumed = [e \in Endpoint |-> {}]
  /\ LastMsgConsumed = [e \in Endpoint |-> -1]
  /\ LastFrameClientConsumed = [e \in Endpoint |-> 0]
  /\ LastByteConsumed = [e \in Endpoint |-> -1]
  /\ LargestSeqnoRcvd = [e \in Endpoint |-> -1]
  /\ AvailReaderMsgCap = RecvWindowSize
  /\ AvailReaderBytesCap = RecvWindowSizeBytes
  /\ recvLastFrameClientConsumed = [e \in Endpoint |-> 0]
  /\ net = {}

Recv(e, p) ==
  /\ p.dest = e
  /\ \/ RecvNextFrame(e, p)
     \/ RecvFrameAhead(e, p)
     \/ RecvFrameOutside(e, p)
     \/ RecvInfo(e, p)

\* How much one Read() may ask for: no more than is ever ready.
ReadSizes(e) == 1 .. Cumul(MaxFrames[Other(e)])

Next ==
  \E e \in Endpoint :
    \/ doOrigDataSend(e)
    \/ regularIntervalWakeup(e)
    \/ doKeepAlive(e)
    \/ \E p \in net : Recv(e, p)
    \/ deliverToConsumer(e)
    \/ \E n \in ReadSizes(e) : fillAsMuchAsPossible(e, n)

Spec == Init /\ [][Next]_vars

\* Fairness.  The goroutines run, the select statements pick at random among
\* their ready cases and the timers fire, so what stays or keeps becoming
\* ready happens; and of the packets of a kind sent over and over, some arrive.
FrameArrives(e) ==
  regularIntervalWakeup(e) /\ DataPacket(e, NextFrameExpected[Other(e)]) \in net'
FrameTaken(e) ==
  \E p \in net : p.seq = NextFrameExpected[e] /\ Recv(e, p) /\ p \notin net'
KeepAliveArrives(e) == doKeepAlive(e) /\ net' # net
KeepAliveAnswered(e) ==
  \E p \in net : p.event = "KeepAlive" /\ Recv(e, p) /\ p \notin net' /\ ReAck(e) \in net'
CapacityTaken(e) ==
  \E p \in net : p.ack = LastFrameSent[e] /\ p.msgs > 0 /\ Recv(e, p) /\ p \notin net'
SomeTaken(e) == \E p \in net : Recv(e, p) /\ p \notin net'

\* For each endpoint e that has data to send.
Fairness ==
  \A e \in {x \in Endpoint : MaxFrames[x] > 0} :
    /\ SF_vars(doOrigDataSend(e))
    /\ SF_vars(FrameArrives(e))
    /\ WF_vars(FrameTaken(Other(e)))
    /\ WF_vars(deliverToConsumer(Other(e)))
    /\ SF_vars(KeepAliveArrives(e))
    /\ SF_vars(KeepAliveAnswered(Other(e)))
    /\ WF_vars(CapacityTaken(e))
    /\ WF_vars(SomeTaken(e) \/ SomeTaken(Other(e)))

-----------------------------------------------------------------------------
(* Properties *)

TypeOK ==
  /\ LastFrameSent \in [Endpoint -> Nat \cup {-1}]
  /\ SentButNotAcked \in [Endpoint -> SUBSET Nat]
  /\ LastSeenAvailReaderMsgCap \in [Endpoint -> Int]
  /\ LastSeenAvailReaderBytesCap \in [Endpoint -> Int]
  /\ NextFrameExpected \in [Endpoint -> Nat]
  /\ Rxq \in [Endpoint -> SUBSET Nat]
  /\ RcvdButNotConsumed \in [Endpoint -> SUBSET Nat]
  /\ LastMsgConsumed \in [Endpoint -> Int]
  /\ LastFrameClientConsumed \in [Endpoint -> Int]
  /\ LastByteConsumed \in [Endpoint -> Int]
  /\ LargestSeqnoRcvd \in [Endpoint -> Int]
  /\ AvailReaderMsgCap \in [Endpoint -> Nat]
  /\ AvailReaderBytesCap \in [Endpoint -> Nat]
  /\ recvLastFrameClientConsumed \in [Endpoint -> Int]
  /\ net \subseteq Packet

\* Retry covers loss: a frame other than the first leaves the sender's retry
\* trees (GotPack, sender.go) only once the client at the other end has
\* consumed it, so whatever the network loses is sent again.
ReleasedOnlyWhenConsumed ==
  \A e \in Endpoint : \A s \in 1 .. LastFrameSent[e] :
    s \notin SentButNotAcked[e] => s <= LastMsgConsumed[Other(e)]

\* The same for every frame, the first one included: what "reliable, ordered
\* delivery" (swp/README.md) requires of the sender.
EveryFrameReleasedOnlyWhenConsumed ==
  \A e \in Endpoint : \A s \in 0 .. LastFrameSent[e] :
    s \notin SentButNotAcked[e] => s <= LastMsgConsumed[Other(e)]

\* Flow control, however stale or reordered the capacities the sender acts on:
\* the frames sent and not consumed never exceed the receive buffer, except by
\* one frame until the client first consumes.
WithinReceiveBuffer ==
  \A e \in Endpoint :
    LastFrameSent[e] - LastMsgConsumed[Other(e)] <=
      RecvWindowSize[Other(e)] + (IF LastMsgConsumed[Other(e)] = -1 THEN 1 ELSE 0)

\* The receiver drops nothing it has accepted: every frame between the last
\* one consumed and the next one expected, and every frame buffered in Rxq,
\* was sent and is held until the client consumes it.
AcceptedFramesHeld ==
  \A e \in Endpoint :
    /\ (LastMsgConsumed[e] + 1 .. NextFrameExpected[e] - 1) \cup Rxq[e]
          \subseteq RcvdButNotConsumed[e]
    /\ RcvdButNotConsumed[e] \subseteq LastMsgConsumed[e] + 1 .. LastFrameSent[Other(e)]

\* Byte flow control: the bytes sent and not consumed exceed the receive
\* buffer by less than one frame more than the sender's own test (more than
\* zero bytes free) allows, except until the client first consumes.
WithinByteBuffer ==
  \A e \in Endpoint :
    (LastFrameSent[e] - LastMsgConsumed[Other(e)]) * MsgSize <=
      RecvWindowSizeBytes[Other(e)] + MsgSize
        + (IF LastMsgConsumed[Other(e)] = -1 THEN MsgSize ELSE 0)

\* Once the first frame has got through, loss does not stop the stream: every
\* frame sent is eventually consumed, by retry (sender.go, regularIntervalWakeup).
StreamContinues ==
  \A e \in Endpoint : \A s \in 0 .. MaxFrames[e] - 1 :
    (NextFrameExpected[Other(e)] > 0 /\ LastFrameSent[e] >= s)
      ~> (LastMsgConsumed[Other(e)] >= s)

\* A sender stopped by a full receiver is not stopped for good, though the
\* ack that would have reopened the window was lost: keep-alives elicit
\* another one (sender.go, doKeepAlive).
WindowReopens ==
  \A e \in Endpoint : \A s \in 0 .. MaxFrames[e] - 2 :
    (NextFrameExpected[Other(e)] > 0 /\ LastFrameSent[e] = s) ~> (LastFrameSent[e] > s)
=============================================================================
