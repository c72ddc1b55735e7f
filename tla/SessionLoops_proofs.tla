------------------------ MODULE SessionLoops_proofs ------------------------
(***************************************************************************)
(* Proofs about SessionLoops, for any capacity of SendAck and any number   *)
(* of acks and clients: the acks the send loop sends are in the order in   *)
(* which the receive loop made them, and only the oldest are ever lost.    *)
(***************************************************************************)
EXTENDS SessionLoops, SequenceTheorems, TLAPS

\* The newest ack that has been put into SendAck, or dropped on the way there.
LastAck == IF rcv \in {"discard", "put"} THEN made - 1 ELSE made

\* The acks in transit to the send loop are in order, also once the receive loop
\* is to stop and may drop one.
Ordered ==
  /\ sent <= LastAck
  /\ \A i \in 1 .. Len(SendAck) : sent < SendAck[i] /\ SendAck[i] <= LastAck
  /\ \A i, j \in 1 .. Len(SendAck) : i < j => SendAck[i] < SendAck[j]

\* Until then none but the oldest are missing.
Gapless ==
  ~rcvReqStop => \A i \in 1 .. Len(SendAck) : SendAck[i] = LastAck - Len(SendAck) + i

\* The last ack is sent before the channel is empty.
LastSent == Len(SendAck) = 0 /\ ~rcvReqStop /\ snd = "select" /\ rcv # "put" => sent = LastAck

\* ack tests for room before it puts, and nobody else puts.
RoomToPut == rcv = "put" => Len(SendAck) < AckCap

AcksInv == TypeOK /\ Ordered /\ Gapless /\ LastSent /\ RoomToPut

-----------------------------------------------------------------------------
(* Typing *)

CallState ==
  {"none", "idle", "offer", "reply", "wait", "waitRecv", "waitSend", "returned"}

Places == {"select", "discard", "put", "asapStop", "cleanup", "exited"} \cup HandOvers

\* A client goes on to a step of its call.
LEMMA MovesType ==
  ASSUME TypeOK, NEW c, NEW from, NEW to \in CallState, Moves(c, from, to)
  PROVE  call' \in [Calls -> CallState]
BY Zenon DEF TypeOK, Moves, CallState

\* The parts of TypeOK: what the loops and clients are at, and the acks.
ControlOK ==
  /\ snd \in {"select", "exited"} /\ rcv \in Places /\ after \in {"select", "read", "return"}
  /\ {sndReqStop, window, rcvReqStop, rcvDone, asapHelper, sessDone} \subseteq BOOLEAN
  /\ call \in [Calls -> CallState] /\ left \in 0 .. Packets

AcksOK ==
  /\ SendAck \in Seq(1 .. MaxAcks) /\ Len(SendAck) <= AckCap
  /\ made \in 0 .. MaxAcks /\ sent \in 0 .. MaxAcks

LEMMA TypeParts == TypeOK <=> ControlOK /\ AcksOK
BY Zenon DEF TypeOK, ControlOK, AcksOK, CallState, Places

\* The steps keep the loops and the clients at places of their programs.
LEMMA ControlStep == TypeOK /\ [Next]_vars => ControlOK'
<1> SUFFICES ASSUME TypeOK, [Next]_vars PROVE ControlOK'
  BY Zenon
<1> USE DEF ControlOK, Places, HandOvers
<1>0. ControlOK
  BY TypeParts, Zenon
<1>1. CASE UNCHANGED vars
  BY <1>0, <1>1, Zenon DEF vars, sndVars, rcvVars
<1>2. CASE Discard
  BY <1>0, <1>2, Zenon DEF Discard, sndVars
<1>3. CASE Put
  <2>1. call' \in [Calls -> CallState]
    BY <1>0, <1>3, MovesType, Zenon DEF Put, CallState
  <2>2. CASE after = "return" /\ RecvReturn /\ UNCHANGED <<snd, window, call>>
    BY <1>0, <1>3, <2>1, <2>2, Zenon DEF Put, RecvReturn, cleanupOnExit
  <2>3. CASE /\ rcv' = "select" /\ after' = "select"
             /\ UNCHANGED <<sndVars, rcvReqStop, rcvDone, asapHelper>>
    BY <1>0, <1>3, <2>1, <2>3, Zenon DEF Put, sndVars
  <2> QED
    BY <1>3, <2>2, <2>3, Zenon DEF Put
<1>4. ASSUME NEW place \in {"keepAlive", "gotPack", "closing", "syn", "select"},
             RecvAt(place), call' \in [Calls -> CallState]
      PROVE  ControlOK'
  BY <1>0, <1>4, Zenon DEF RecvAt, sndVars
<1>5. CASE RecvKeepAlive \/ RecvMsg
  BY <1>0, <1>4, <1>5, Zenon DEF RecvKeepAlive, RecvMsg
<1>6. CASE RecvTakesClosing \/ RecvTakesConnect
  BY <1>4, <1>6, MovesType, Zenon DEF RecvTakesClosing, RecvTakesConnect, CallState
<1>7. CASE RecvTakesAsap
  <2>1. call' \in [Calls -> CallState]
    BY <1>7, MovesType, Zenon DEF RecvTakesAsap, CallState
  <2> QED
    BY <1>0, <1>7, <2>1, Zenon DEF RecvTakesAsap, StopAsapHelper, sndVars
<1>8. CASE RecvTakesRead
  <2>1. call' \in [Calls -> CallState]
    BY <1>8, MovesType, Zenon DEF RecvTakesRead, CallState
  <2>2. CASE RecvAt("select")
    BY <1>4, <2>1, <2>2, Zenon
  <2>3. CASE /\ BeginAck("read")
             /\ UNCHANGED <<sndVars, rcvReqStop, rcvDone, asapHelper, sessDone, left>>
    BY <1>0, <2>1, <2>3, Zenon DEF BeginAck, sndVars
  <2> QED
    BY <1>8, <2>2, <2>3, Zenon DEF RecvTakesRead
<1>9. CASE RecvAcks \/ RecvGivesUp
  BY <1>0, <1>9, Zenon DEF RecvAcks, RecvGivesUp, BeginAck, sndVars
<1>10. CASE RecvStops
  BY <1>0, <1>10, Zenon DEF RecvStops, RecvReturn, cleanupOnExit
<1>11. CASE SendTakesKeepAlive \/ SendTakesClosing \/ SendTakesSyn
  <2>1. call' \in [Calls -> CallState]
    BY <1>0, <1>11, MovesType, Zenon DEF SendTakesKeepAlive, SendTakesClosing, SendTakesSyn, CallState
  <2> QED
    BY <1>0, <1>11, <2>1, Zenon DEF SendTakesKeepAlive, SendTakesClosing, SendTakesSyn, sndVars
<1>12. CASE SendTakesPack
  <2>1. call' \in [Calls -> CallState]
    BY <1>0, <1>12, MovesType, Zenon DEF SendTakesPack, CallState
  <2>2. CASE RecvReturn
    BY <1>0, <1>12, <2>1, <2>2, Zenon DEF SendTakesPack, RecvReturn, cleanupOnExit
  <2>3. CASE rcv' = "select" /\ UNCHANGED <<sndReqStop, rcvReqStop, rcvDone, after, asapHelper>>
    BY <1>0, <1>12, <2>1, <2>3, Zenon DEF SendTakesPack
  <2>4. ASSUME NEW next \in {"select", "return"}, BeginAck(next),
               UNCHANGED <<sndReqStop, rcvReqStop, rcvDone, asapHelper>>
        PROVE  ControlOK'
    BY <1>0, <1>12, <2>1, <2>4, Zenon DEF SendTakesPack, BeginAck
  <2> QED
    BY <1>12, <2>2, <2>3, <2>4, Zenon DEF SendTakesPack
<1>13. CASE SendAcceptsPush
  <2>1. call' \in [Calls -> CallState]
    BY <1>0, <1>13, MovesType, Zenon DEF SendAcceptsPush, CallState
  <2>2. left' \in 0 .. Packets
    BY <1>0, <1>13, LoopsAssumption DEF SendAcceptsPush
  <2> QED
    BY <1>0, <1>13, <2>1, <2>2, Zenon DEF SendAcceptsPush, rcvVars
<1>14. CASE SendsAck \/ SendGivesUp \/ SendStops
  BY <1>0, <1>14, Zenon DEF SendsAck, SendGivesUp, SendStops, SendReturn, sndVars, rcvVars
<1>15. CASE StopWaits
  <2>1. call' \in [Calls -> CallState]
    BY <1>15, MovesType, Zenon DEF StopWaits, StopRecver, StopSender, CallState
  <2> QED
    BY <1>0, <1>15, <2>1, Zenon DEF StopWaits, StopRecver, StopSender, sndVars, rcvVars
<1>16. ASSUME NEW c \in Calls, Begins(c) PROVE ControlOK'
  BY <1>0, <1>16, LoopsAssumption DEF Begins, sndVars, CallState
<1>17. CASE CloseGivesUp \/ ConnectGivesUp \/ ReadGivesUp \/ WriteReturns
  BY <1>0, <1>17 DEF CloseGivesUp, ConnectGivesUp, ReadGivesUp, WriteReturns, Returns, CallState,
                     sndVars, rcvVars
<1>18. CASE PushGivesUp
  <2>1. call' \in [Calls -> CallState]
    BY <1>18, MovesType, Zenon DEF PushGivesUp, CallState
  <2> QED
    BY <1>0, <1>18, <2>1, LoopsAssumption DEF PushGivesUp, sndVars, rcvVars
<1> QED
  BY <1>1, <1>2, <1>3, <1>5, <1>6, <1>7, <1>8, <1>9, <1>10, <1>11, <1>12, <1>13, <1>14, <1>15,
     <1>16, <1>17, <1>18, Zenon DEF Next, RecvTakes, HandsOver

-----------------------------------------------------------------------------
(* The acks *)

AckOrder == AcksOK /\ Ordered /\ Gapless /\ LastSent /\ RoomToPut

\* A step that makes, puts, discards and sends no ack, with the receive loop
\* neither entering nor leaving ack.
LEMMA OtherSteps ==
  ASSUME AckOrder, UNCHANGED ackVars, rcvReqStop => rcvReqStop',
         snd = "exited" => snd' = "exited", snd \in {"select", "exited"},
         rcv \in {"discard", "put"} \/ rcv' \in {"discard", "put"} => rcv' = rcv
  PROVE  AckOrder'
<1>1. UNCHANGED <<SendAck, made, sent>>
  BY Zenon DEF ackVars
<1>2. LastAck' = LastAck /\ (rcv' = "put" <=> rcv = "put")
  BY <1>1, Zenon DEF LastAck
<1>3. AcksOK' /\ Ordered'
  BY <1>1, <1>2, Zenon DEF AckOrder, AcksOK, Ordered
<1>4. Gapless' /\ LastSent' /\ RoomToPut'
  BY <1>1, <1>2, Zenon DEF AckOrder, Gapless, LastSent, RoomToPut
<1> QED
  BY <1>3, <1>4, Zenon DEF AckOrder

\* ack begins: the new ack is not the last one put yet.
LEMMA BeginAckStep ==
  ASSUME AckOrder, NEW next, BeginAck(next), rcv \notin {"discard", "put"},
         UNCHANGED <<rcvReqStop, snd>>
  PROVE  AckOrder'
<1>1. /\ made \in 0 .. MaxAcks /\ made < MaxAcks /\ made' = made + 1
      /\ UNCHANGED <<SendAck, sent>> /\ rcv' \in {"discard", "put"}
      /\ rcv' = "put" => Len(SendAck) # AckCap
  BY Zenon DEF BeginAck, AckOrder, AcksOK
<1>2. made' \in 0 .. MaxAcks /\ LastAck' = LastAck
  BY <1>1, LoopsAssumption DEF LastAck
<1>3. AcksOK' /\ Ordered'
  BY <1>1, <1>2, Zenon DEF AckOrder, AcksOK, Ordered
<1>4. Gapless' /\ LastSent'
  BY <1>1, <1>2, Zenon DEF AckOrder, Gapless, LastSent
<1>5. RoomToPut'
  <2>1. Len(SendAck) \in Nat /\ Len(SendAck) <= AckCap
    BY DEF AckOrder, AcksOK
  <2> QED
    BY <1>1, <2>1, LoopsAssumption DEF RoomToPut
<1> QED
  BY <1>3, <1>4, <1>5, Zenon DEF AckOrder

\* What taking the first ack leaves.
LEMMA TailFacts ==
  ASSUME AckOrder, SendAck # <<>>, SendAck' = Tail(SendAck)
  PROVE  /\ Len(SendAck) \in Nat \ {0} /\ Len(SendAck)' = Len(SendAck) - 1
         /\ Head(SendAck) = SendAck[1] /\ Head(SendAck) \in 1 .. MaxAcks
         /\ SendAck' \in Seq(1 .. MaxAcks)
         /\ \A i \in 1 .. Len(SendAck)' : /\ SendAck'[i] = SendAck[i + 1]
                                          /\ i + 1 \in 1 .. Len(SendAck)
                                          /\ SendAck[i + 1] \in Nat
<1>1. SendAck \in Seq(1 .. MaxAcks)
  BY Zenon DEF AckOrder, AcksOK
<1>2. Len(SendAck) \in Nat \ {0}
  BY <1>1, EmptySeq, Zenon
<1>3. /\ Head(SendAck) \in 1 .. MaxAcks
      /\ SendAck' \in Seq(1 .. MaxAcks) /\ Len(SendAck') = Len(SendAck) - 1
      /\ \A i \in 1 .. Len(SendAck') : SendAck'[i] = SendAck[i + 1]
  <2>1. /\ Head(SendAck) \in 1 .. MaxAcks
        /\ Tail(SendAck) \in Seq(1 .. MaxAcks) /\ Len(Tail(SendAck)) = Len(SendAck) - 1
        /\ \A i \in 1 .. Len(Tail(SendAck)) : Tail(SendAck)[i] = SendAck[i + 1]
    BY <1>1, HeadTailProperties, Zenon
  <2> QED
    BY <2>1, Zenon
<1>4. Head(SendAck) = SendAck[1]
  BY <1>1
<1>5. \A i \in 1 .. Len(SendAck') : i + 1 \in 1 .. Len(SendAck)
  BY <1>2, <1>3
<1>6. \A j \in 1 .. Len(SendAck) : SendAck[j] \in 1 .. MaxAcks
  BY <1>1, ElementOfSeq, Zenon
<1>7. \A i \in 1 .. Len(SendAck') : SendAck[i + 1] \in Nat
  BY <1>5, <1>6, LoopsAssumption
<1> QED
  BY <1>2, <1>3, <1>4, <1>5, <1>7, Zenon

\* ack takes the oldest out of the full channel.
LEMMA DiscardStep ==
  ASSUME AckOrder, Discard
  PROVE  AckOrder'
<1>1. /\ rcv = "discard" /\ rcv' = "put" /\ SendAck # <<>> /\ SendAck' = Tail(SendAck)
      /\ UNCHANGED <<made, sent, rcvReqStop, snd>>
  BY Zenon DEF Discard, sndVars
<1>2. LastAck' = LastAck /\ made \in Int /\ sent \in Int /\ LastAck \in Int
  BY <1>1 DEF LastAck, AckOrder, AcksOK
<1>3. AcksOK' /\ RoomToPut'
  BY <1>1, TailFacts, LoopsAssumption DEF AckOrder, AcksOK, RoomToPut
<1>4. Ordered'
  BY <1>1, <1>2, TailFacts DEF AckOrder, Ordered
<1>5. Gapless' /\ LastSent'
  BY <1>1, <1>2, TailFacts DEF AckOrder, Gapless, LastSent
<1> QED
  BY <1>3, <1>4, <1>5, Zenon DEF AckOrder

\* The send loop takes the oldest, and sends it or exits.
LEMMA SendsAckStep ==
  ASSUME AckOrder, SendsAck
  PROVE  AckOrder'
<1>1. /\ SendAck # <<>> /\ SendAck' = Tail(SendAck)
      /\ \/ sent' = Head(SendAck) /\ UNCHANGED snd
         \/ sent' = sent /\ snd' = "exited"
      /\ UNCHANGED <<made, rcv, rcvReqStop>>
  BY Zenon DEF SendsAck, SendReturn, sndVars, rcvVars
<1>2. LastAck' = LastAck /\ made \in Int /\ sent \in Int /\ LastAck \in Int
  BY <1>1 DEF LastAck, AckOrder, AcksOK
<1>3. 1 \in 1 .. Len(SendAck) /\ sent < SendAck[1] /\ SendAck[1] <= LastAck
      /\ SendAck[1] \in 1 .. MaxAcks
  BY <1>1, TailFacts DEF AckOrder, Ordered
<1>4. AcksOK' /\ RoomToPut'
  BY <1>1, <1>3, TailFacts, LoopsAssumption DEF AckOrder, AcksOK, RoomToPut
<1>5. Ordered'
  BY <1>1, <1>2, <1>3, TailFacts DEF AckOrder, Ordered
<1>6. Gapless'
  BY <1>1, <1>2, TailFacts DEF AckOrder, Gapless
<1>7. LastSent'
  BY <1>1, <1>2, <1>3, TailFacts DEF AckOrder, Gapless, LastSent
<1> QED
  BY <1>4, <1>5, <1>6, <1>7, Zenon DEF AckOrder

\* ack puts the new ack behind the others, or drops it when it is to stop.
LEMMA PutStep ==
  ASSUME AckOrder, Put, rcvReqStop \in BOOLEAN
  PROVE  AckOrder'
<1>1. /\ rcv = "put" /\ rcv' \notin {"discard", "put"}
      /\ rcvReqStop => rcvReqStop'
      /\ UNCHANGED <<made, sent, snd>>
  BY Zenon DEF Put, RecvReturn, cleanupOnExit, sndVars
<1>2. LastAck = made - 1 /\ LastAck' = made /\ made \in Int /\ sent \in Int
      /\ sent <= made - 1 /\ Len(SendAck) \in Nat /\ SendAck \in Seq(1 .. MaxAcks)
      /\ \A i \in 1 .. Len(SendAck) : SendAck[i] \in 1 .. MaxAcks
  <2>1. LastAck = made - 1 /\ LastAck' = made /\ made \in Int /\ sent \in Int
        /\ SendAck \in Seq(1 .. MaxAcks)
    BY <1>1 DEF LastAck, AckOrder, AcksOK
  <2>2. Len(SendAck) \in Nat /\ \A i \in 1 .. Len(SendAck) : SendAck[i] \in 1 .. MaxAcks
    BY <2>1, LenProperties, ElementOfSeq, Zenon
  <2> QED
    BY <2>1, <2>2, Zenon DEF AckOrder, Ordered
<1>3. CASE Len(SendAck) < AckCap /\ SendAck' = Append(SendAck, made)
  <2>1. made \in 1 .. MaxAcks
    BY <1>2 DEF AckOrder, AcksOK
  <2>2. /\ SendAck' \in Seq(1 .. MaxAcks) /\ Len(SendAck') = Len(SendAck) + 1
        /\ \A i \in 1 .. Len(SendAck) : SendAck'[i] = SendAck[i]
        /\ SendAck'[Len(SendAck) + 1] = made
    BY <1>2, <1>3, <2>1, AppendProperties
  <2>3. \A i \in 1 .. Len(SendAck') : i \in 1 .. Len(SendAck) \/ i = Len(SendAck) + 1
    BY <1>2, <2>2
  <2>4. AcksOK'
    BY <1>1, <1>2, <1>3, <2>2, LoopsAssumption DEF AckOrder, AcksOK
  <2>5. \A i \in 1 .. Len(SendAck) : sent < SendAck[i] /\ SendAck[i] <= made - 1
    BY <1>2, Zenon DEF AckOrder, Ordered
  <2>6. Ordered'
    <3>1. sent' <= LastAck'
      BY <1>1, <1>2
    <3>2. \A i \in 1 .. Len(SendAck') : sent' < SendAck'[i] /\ SendAck'[i] <= LastAck'
      BY <1>1, <1>2, <2>2, <2>3, <2>5
    <3>3. ASSUME NEW i \in 1 .. Len(SendAck'), NEW j \in 1 .. Len(SendAck'), i < j
          PROVE  SendAck'[i] < SendAck'[j]
      <4>1. i \in 1 .. Len(SendAck)
        BY <1>2, <2>2, <3>3
      <4>2. CASE j \in 1 .. Len(SendAck)
        BY <2>2, <3>3, <4>1, <4>2, Zenon DEF AckOrder, Ordered
      <4>3. CASE j = Len(SendAck) + 1
        BY <1>2, <2>2, <2>5, <4>1, <4>3
      <4> QED
        BY <2>3, <4>2, <4>3, Zenon
    <3> QED
      BY <3>1, <3>2, <3>3, Zenon DEF Ordered
  <2>7. Gapless'
    BY <1>1, <1>2, <2>2, <2>3 DEF AckOrder, Gapless
  <2>8. LastSent' /\ RoomToPut'
    BY <1>1, <1>2, <2>2 DEF LastSent, RoomToPut
  <2> QED
    BY <2>4, <2>6, <2>7, <2>8, Zenon DEF AckOrder
<1>4. CASE rcvReqStop /\ UNCHANGED SendAck
  <2>1. AcksOK' /\ Gapless' /\ LastSent' /\ RoomToPut'
    BY <1>1, <1>4, Zenon DEF AckOrder, AcksOK, Gapless, LastSent, RoomToPut
  <2>2. Ordered'
    BY <1>1, <1>2, <1>4 DEF AckOrder, Ordered
  <2> QED
    BY <2>1, <2>2, Zenon DEF AckOrder
<1> QED
  BY <1>3, <1>4, Zenon DEF Put

-----------------------------------------------------------------------------
(* The property *)

\* Every step keeps the acks in order.
LEMMA AckOrderStep == TypeOK /\ AckOrder /\ [Next]_vars => AckOrder'
<1> SUFFICES ASSUME TypeOK, AckOrder, [Next]_vars PROVE AckOrder'
  BY Zenon
<1>1. snd \in {"select", "exited"} /\ rcvReqStop \in BOOLEAN
  BY Zenon DEF TypeOK
<1>2. CASE UNCHANGED vars
  BY <1>1, <1>2, OtherSteps, Zenon DEF vars, sndVars, rcvVars
<1>3. CASE RecvKeepAlive \/ RecvMsg \/ RecvTakesClosing \/ RecvTakesConnect
  BY <1>1, <1>3, OtherSteps, Zenon
     DEF RecvKeepAlive, RecvMsg, RecvTakesClosing, RecvTakesConnect, RecvAt, sndVars
<1>4. CASE RecvTakesAsap
  BY <1>1, <1>4, OtherSteps, Zenon DEF RecvTakesAsap, StopAsapHelper, sndVars
<1>5. CASE RecvTakesRead
  <2>1. CASE RecvAt("select")
    BY <1>1, <2>1, OtherSteps, Zenon DEF RecvAt, sndVars
  <2>2. CASE BeginAck("read") /\ UNCHANGED <<sndVars, rcvReqStop>>
    BY <1>5, <2>2, BeginAckStep, Zenon DEF RecvTakesRead, sndVars
  <2> QED
    BY <1>5, <2>1, <2>2, Zenon DEF RecvTakesRead
<1>6. CASE RecvAcks
  BY <1>6, BeginAckStep, Zenon DEF RecvAcks, sndVars
<1>7. CASE RecvGivesUp
  BY <1>1, <1>7, OtherSteps, Zenon DEF RecvGivesUp, sndVars
<1>8. ASSUME RecvReturn, rcv \notin {"discard", "put"}, UNCHANGED <<snd, ackVars>>
      PROVE  AckOrder'
  BY <1>1, <1>8, OtherSteps, Zenon DEF RecvReturn, cleanupOnExit
<1>9. CASE RecvStops
  BY <1>8, <1>9, Zenon DEF RecvStops, HandOvers
<1>10. CASE SendTakesKeepAlive \/ SendTakesClosing \/ SendTakesSyn
  BY <1>1, <1>10, OtherSteps, Zenon DEF SendTakesKeepAlive, SendTakesClosing, SendTakesSyn, sndVars
<1>11. CASE SendTakesPack
  <2>1. rcv = "gotPack" /\ UNCHANGED snd
    BY <1>11, Zenon DEF SendTakesPack
  <2>2. CASE RecvReturn /\ UNCHANGED ackVars
    BY <1>8, <2>1, <2>2, Zenon
  <2>3. CASE rcv' = "select" /\ UNCHANGED <<rcvReqStop, ackVars>>
    BY <1>1, <2>1, <2>3, OtherSteps, Zenon
  <2>4. ASSUME NEW next, BeginAck(next), UNCHANGED rcvReqStop PROVE AckOrder'
    BY <2>1, <2>4, BeginAckStep, Zenon
  <2> QED
    BY <1>11, <2>2, <2>3, <2>4, Zenon DEF SendTakesPack
<1>12. CASE SendAcceptsPush
  BY <1>1, <1>12, OtherSteps, Zenon DEF SendAcceptsPush, rcvVars
<1>13. CASE SendGivesUp \/ SendStops
  BY <1>1, <1>13, OtherSteps, Zenon DEF SendGivesUp, SendStops, SendReturn, rcvVars
<1>14. CASE StopWaits
  BY <1>1, <1>14, OtherSteps, Zenon DEF StopWaits, StopRecver, StopSender, sndVars, rcvVars
<1>15. ASSUME NEW c \in Calls, Begins(c) PROVE AckOrder'
  BY <1>1, <1>15, OtherSteps, Zenon DEF Begins, sndVars
<1>16. CASE CloseGivesUp \/ ConnectGivesUp \/ ReadGivesUp \/ WriteReturns \/ PushGivesUp
  BY <1>1, <1>16, OtherSteps, Zenon DEF CloseGivesUp, ConnectGivesUp, ReadGivesUp, WriteReturns,
                                 PushGivesUp, Returns, sndVars, rcvVars
<1> QED
  BY <1>1, <1>2, <1>3, <1>4, <1>5, <1>6, <1>7, <1>9, <1>10, <1>11, <1>12, <1>13, <1>14, <1>15,
     <1>16, DiscardStep, PutStep, SendsAckStep, Zenon DEF Next, RecvTakes, HandsOver

\* The channel is empty and the loops are at their selects when a session starts.
LEMMA AcksInit == Init => TypeOK /\ AckOrder
<1> SUFFICES ASSUME Init PROVE TypeOK /\ AckOrder
  BY Zenon
<1>1. call \in [Calls -> CallState]
  BY Zenon DEF Init, CallState
<1>2. SendAck = <<>> /\ SendAck \in Seq(1 .. MaxAcks) /\ Len(SendAck) = 0
  BY EmptySeq, Zenon DEF Init
<1>3. ControlOK
  <2>1. left \in 0 .. Packets
    BY LoopsAssumption DEF Init
  <2> QED
    BY <1>1, <2>1, Zenon DEF Init, ControlOK, Places
<1>4. AcksOK
  BY <1>2, LoopsAssumption DEF Init, AcksOK
<1>5. Ordered /\ Gapless /\ LastSent /\ RoomToPut
  BY <1>2 DEF Init, Ordered, Gapless, LastSent, RoomToPut, LastAck
<1> QED
  BY <1>3, <1>4, <1>5, TypeParts, Zenon DEF AckOrder

\* The inductive invariant holds of every reachable state: the loops and clients
\* are at places of their programs, and the acks are in order.
THEOREM AcksInvCorrect == Spec => []AcksInv
<1>1. TypeOK /\ AckOrder /\ [Next]_vars => (TypeOK /\ AckOrder)'
  <2>1. (ControlOK /\ AcksOK => TypeOK)'
    BY TypeParts, PTL
  <2> QED
    BY <2>1, ControlStep, AckOrderStep, Zenon DEF AckOrder
<1>2. TypeOK /\ AckOrder => AcksInv
  BY Zenon DEF AckOrder, AcksInv
<1> QED
  BY <1>1, <1>2, AcksInit, PTL DEF Spec

\* Whatever the capacity of SendAck and the order in which the loops run, a full
\* channel loses only its oldest ack, acks are sent in the order they were made,
\* and ack never puts into a full channel (recv.go, ack).
THEOREM NewestAckCorrect == Spec => []NewestAckSurvives
<1>1. AcksInv => NewestAckSurvives
  <2> SUFFICES ASSUME AcksInv PROVE NewestAckSurvives
    BY Zenon
  <2> DEFINE n == Len(SendAck)
  <2>1. SendAck \in Seq(1 .. MaxAcks)
    BY Zenon DEF AcksInv, TypeOK
  <2>2. n \in Nat /\ SendAck \in [1 .. n -> 1 .. MaxAcks]
    BY <2>1, LenProperties, Zenon
  <2>3. ~rcvReqStop => SendAck = [i \in 1 .. n |-> LastAck - n + i]
    BY <2>2, Zenon DEF AcksInv, Gapless
  <2>4. n > 0 => sent < Head(SendAck)
    <3>1. ASSUME n > 0 PROVE 1 \in 1 .. n /\ Head(SendAck) = SendAck[1]
      BY <2>1, <2>2, <3>1
    <3> QED
      BY <3>1, Zenon DEF AcksInv, Ordered
  <2> QED
    BY <2>3, <2>4, Zenon DEF NewestAckSurvives, AcksInv, LastSent, RoomToPut, LastAck
<1> QED
  BY <1>1, AcksInvCorrect, PTL
=============================================================================
