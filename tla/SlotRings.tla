------------------------------ MODULE SlotRings ------------------------------
(***************************************************************************)
(* The buffers of SlidingWindow as sender.go and recv.go keep them.  Txq   *)
(* and Rxq are rings of slots indexed by sequence number modulo the        *)
(* session's WindowMsgCount, the size of both rings of an endpoint.  The   *)
(* two retry trees hold pointers to Txq slots.  ReadyForDelivery is a      *)
(* queue of packets.  Each action is one of SlidingWindow with what it     *)
(* does to these buffers; the properties say that the buffers and the      *)
(* sets of SlidingWindow agree, so that the code takes the same steps.     *)
(***************************************************************************)
EXTENDS SlidingWindow, Sequences

VARIABLES
  TxqSlot,                    \* TxqSlot[e][i]: the frame in slot i, Free if never used
  SentButNotAckedByDeadline,  \* positions of the slots in each tree
  SentButNotAckedBySeqNum,
  RxqSlot,                    \* RxqSlot[e][i]: the frame in slot i, Free if not Received
  ReadyForDelivery,           \* packets waiting for the client
  delivered                   \* packets the client has completely consumed

ringVars == <<TxqSlot, SentButNotAckedByDeadline, SentButNotAckedBySeqNum,
              RxqSlot, ReadyForDelivery, delivered>>

Free == -1
Slots(e) == 0 .. RecvWindowSize[e] - 1
Pos(e, s) == s % RecvWindowSize[e]

-----------------------------------------------------------------------------

RingSend(e) ==
  LET pos == Pos(e, LastFrameSent[e] + 1)
  IN  /\ doOrigDataSend(e)
      /\ TxqSlot' = [TxqSlot EXCEPT ![e][pos] = LastFrameSent[e] + 1]
      /\ SentButNotAckedByDeadline' = [SentButNotAckedByDeadline EXCEPT ![e] = @ \cup {pos}]
      /\ SentButNotAckedBySeqNum' = [SentButNotAckedBySeqNum EXCEPT ![e] = @ \cup {pos}]
      /\ UNCHANGED <<RxqSlot, ReadyForDelivery, delivered>>

\* Expired slots leave both trees and are entered again with a new deadline.
RingRetry(e) == regularIntervalWakeup(e) /\ UNCHANGED ringVars

\* deleteThroughSeqNum takes the slots through AckNum out of the tree by
\* sequence number, and its callback deletes each from the other tree.
deleteThroughSeqNum(e, ack) ==
  LET goners == {i \in SentButNotAckedBySeqNum[e] : TxqSlot[e][i] <= ack}
  IN  /\ SentButNotAckedBySeqNum' = [SentButNotAckedBySeqNum EXCEPT ![e] = @ \ goners]
      /\ SentButNotAckedByDeadline' = [SentButNotAckedByDeadline EXCEPT ![e] = @ \ goners]
      /\ UNCHANGED TxqSlot

\* The delivery loop: from the slot of frame n on, take every slot that is
\* Received, emptying it, and stop at the first that is not.
LoopEnd(e, ring, n, m) ==
  /\ \A k \in n .. m - 1 : ring[Pos(e, k)] # Free
  /\ m = n + RecvWindowSize[e] \/ ring[Pos(e, m)] = Free

\* Mutant: the slots taken stay Received.
RingRecvNextFrame_NotCleared(e, p) ==
  LET n == NextFrameExpected[e]
      ring == [RxqSlot[e] EXCEPT ![Pos(e, p.seq)] = p.seq]
  IN  /\ RecvNextFrame(e, p)
      /\ deleteThroughSeqNum(e, p.ack)
      /\ \E m \in n + 1 .. n + RecvWindowSize[e] :
           /\ LoopEnd(e, ring, n, m)
           /\ ReadyForDelivery' = [ReadyForDelivery EXCEPT ![e] =
                @ \o [i \in 1 .. m - n |-> ring[Pos(e, n + i - 1)]]]
           /\ RxqSlot' = [RxqSlot EXCEPT ![e] = ring]
      /\ UNCHANGED delivered

RingRecvNextFrame(e, p) ==
  LET n == NextFrameExpected[e]
      ring == [RxqSlot[e] EXCEPT ![Pos(e, p.seq)] = p.seq]
  IN  /\ RecvNextFrame(e, p)
      /\ deleteThroughSeqNum(e, p.ack)
      /\ \E m \in n + 1 .. n + RecvWindowSize[e] :
           /\ LoopEnd(e, ring, n, m)
           /\ ReadyForDelivery' = [ReadyForDelivery EXCEPT ![e] =
                @ \o [i \in 1 .. m - n |-> ring[Pos(e, n + i - 1)]]]
           /\ RxqSlot' = [RxqSlot EXCEPT ![e] =
                [i \in Slots(e) |-> IF \E k \in n .. m - 1 : i = Pos(e, k)
                                    THEN Free ELSE ring[i]]]
      /\ UNCHANGED delivered

RingRecvFrameAhead(e, p) ==
  /\ RecvFrameAhead(e, p)
  /\ deleteThroughSeqNum(e, p.ack)
  /\ RxqSlot' = [RxqSlot EXCEPT ![e][Pos(e, p.seq)] = p.seq]
  /\ UNCHANGED <<ReadyForDelivery, delivered>>

RingRecvOther(e, p) ==
  /\ RecvFrameOutside(e, p) \/ RecvInfo(e, p)
  /\ deleteThroughSeqNum(e, p.ack)
  /\ UNCHANGED <<RxqSlot, ReadyForDelivery, delivered>>

\* Mutant: the packets consumed stay in ReadyForDelivery.
TakeReady_Kept(e, n) ==
  /\ delivered' = [delivered EXCEPT ![e] = @ \o SubSeq(ReadyForDelivery[e], 1, n)]
  /\ UNCHANGED <<TxqSlot, SentButNotAckedByDeadline, SentButNotAckedBySeqNum, RxqSlot,
                 ReadyForDelivery>>

\* The first n packets of ReadyForDelivery have been consumed.
TakeReady(e, n) ==
  /\ delivered' = [delivered EXCEPT ![e] = @ \o SubSeq(ReadyForDelivery[e], 1, n)]
  /\ ReadyForDelivery' = [ReadyForDelivery EXCEPT ![e] = SubSeq(@, n + 1, Len(@))]
  /\ UNCHANGED <<TxqSlot, SentButNotAckedByDeadline, SentButNotAckedBySeqNum, RxqSlot>>

RingDeliver(e) == deliverToConsumer(e) /\ TakeReady(e, Len(ReadyForDelivery[e]))

RingRead(e, n) ==
  /\ fillAsMuchAsPossible(e, n)
  /\ TakeReady(e, LastMsgConsumed'[e] - LastMsgConsumed[e])

-----------------------------------------------------------------------------

RingInit ==
  /\ Init
  /\ TxqSlot = [e \in Endpoint |-> [i \in Slots(e) |-> Free]]
  /\ SentButNotAckedByDeadline = [e \in Endpoint |-> {}]
  /\ SentButNotAckedBySeqNum = [e \in Endpoint |-> {}]
  /\ RxqSlot = [e \in Endpoint |-> [i \in Slots(e) |-> Free]]
  /\ ReadyForDelivery = [e \in Endpoint |-> <<>>]
  /\ delivered = [e \in Endpoint |-> <<>>]

RingNext ==
  \E e \in Endpoint :
    \/ RingSend(e)
    \/ RingRetry(e)
    \/ doKeepAlive(e) /\ UNCHANGED ringVars
    \/ \E p \in net :
         /\ p.dest = e
         /\ \/ RingRecvNextFrame(e, p)
            \/ RingRecvFrameAhead(e, p)
            \/ RingRecvOther(e, p)
    \/ RingDeliver(e)
    \/ \E n \in ReadSizes(e) : RingRead(e, n)

RingSpec == RingInit /\ [][RingNext]_<<vars, ringVars>>

\* The rings follow the steps of SlidingWindow and so does their fairness.
RingFairSpec == RingSpec /\ Fairness

-----------------------------------------------------------------------------
(* Properties *)

\* The trees agree with each other (GotPack panics otherwise) and their slots
\* hold exactly the frames sent and not acknowledged: no slot of Txq is reused
\* for a new frame while its old one may still have to be sent again.
RetryTreesHoldUnacked ==
  \A e \in Endpoint :
    /\ SentButNotAckedByDeadline[e] = SentButNotAckedBySeqNum[e]
    /\ {TxqSlot[e][i] : i \in SentButNotAckedBySeqNum[e]} = SentButNotAcked[e]

\* Slot s % RecvWindowSize of Rxq is Received exactly when frame s of the
\* window is buffered, and then holds that frame and no other.
RxqSlotsHoldWindow ==
  \A e \in Endpoint :
    \A s \in NextFrameExpected[e] .. NextFrameExpected[e] + RecvWindowSize[e] - 1 :
      RxqSlot[e][Pos(e, s)] = (IF s \in Rxq[e] THEN s ELSE Free)

\* ReadyForDelivery holds, in order, the frames between the last one consumed
\* and the next one expected, and LastMsgConsumed counts what was consumed.
ReadyQueueMatches ==
  \A e \in Endpoint :
    /\ ReadyForDelivery[e] = [i \in 1 .. NextFrameExpected[e] - 1 - LastMsgConsumed[e]
                                |-> LastMsgConsumed[e] + i]
    /\ Len(delivered[e]) = LastMsgConsumed[e] + 1

\* Rings, retry trees and ready queue hold what the sets of SlidingWindow say.
RingsMatchSets == RetryTreesHoldUnacked /\ RxqSlotsHoldWindow /\ ReadyQueueMatches

\* What e has pushed: frame s carries the data of the (s+1)-st push.
Pushed(e) == [i \in 1 .. LastFrameSent[e] + 1 |-> i - 1]

Stream == INSTANCE ReliableStream
  WITH pushed <- Pushed(A), delivered <- delivered[B], Payload <- 0 .. MaxFrames[A] - 1

\* The direction from A to B implements the reliable stream: the reading client
\* obtains what was pushed (Push and Read, swp.go), in order, without gaps or
\* repetitions.
ImplementsStream == Stream!Spec
=============================================================================
