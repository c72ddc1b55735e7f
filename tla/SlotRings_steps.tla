-------------------------- MODULE SlotRings_steps --------------------------
(***************************************************************************)
(* The inductive invariant RingInv of SlotRings, for any window sizes, and *)
(* that every step preserves it.  SlotRings_proofs goes on with the        *)
(* theorems.                                                               *)
(***************************************************************************)
EXTENDS SlotRings, SlidingWindow_inv

\* The frames from one number to another, in order.
Frames(from, to) == [i \in 1 .. to - from + 1 |-> from + i - 1]

\* The frames that fit the ring of e.
Window(e) == NextFrameExpected[e] .. NextFrameExpected[e] + RecvWindowSize[e] - 1

\* The slots of ring hold the frames received of the window, and no others.
Holds(e, ring, received) ==
  /\ ring \in [Slots(e) -> Int]
  /\ \A s \in Window(e) : ring[Pos(e, s)] = IF s \in received THEN s ELSE Free

\* Rxq holds the frames received of the window.
RxqInv(e) == Rxq[e] \subseteq Window(e) /\ Holds(e, RxqSlot[e], Rxq[e])

\* The client has had the frames through LastMsgConsumed; the rest wait in order.
ReadyInv(e) ==
  /\ ReadyForDelivery[e] = Frames(LastMsgConsumed[e] + 1, NextFrameExpected[e] - 1)
  /\ delivered[e] = Frames(0, LastMsgConsumed[e])

\* The trees always agree.  When the ring is as large as the peer's window, the
\* frames in flight have a slot each, and the trees hold these slots.
TreesInv(e) ==
  /\ SentButNotAckedByDeadline[e] = SentButNotAckedBySeqNum[e]
  /\ TxqSlot[e] \in [Slots(e) -> Int]
  /\ RecvWindowSize[Other(e)] <= RecvWindowSize[e] =>
       /\ \A s \in SentButNotAcked[e] :
            LastFrameSent[e] < s + RecvWindowSize[e] /\ TxqSlot[e][Pos(e, s)] = s
       /\ SentButNotAckedBySeqNum[e] = {Pos(e, s) : s \in SentButNotAcked[e]}

RingTypeOK ==
  /\ DOMAIN TxqSlot = Endpoint /\ DOMAIN RxqSlot = Endpoint
  /\ DOMAIN SentButNotAckedByDeadline = Endpoint /\ DOMAIN SentButNotAckedBySeqNum = Endpoint
  /\ DOMAIN ReadyForDelivery = Endpoint /\ DOMAIN delivered = Endpoint

RingInv == RingTypeOK /\ \A e \in Endpoint : RxqInv(e) /\ ReadyInv(e) /\ TreesInv(e)

-----------------------------------------------------------------------------
(* The positions of frames in a ring *)

\* Every number is a multiple of N and a remainder.
LEMMA Division ==
  ASSUME NEW N \in Nat \ {0}, NEW s \in Nat
  PROVE  /\ (s % N) \in 0 .. N - 1
         /\ \E a \in Int : s = N * a + (s % N)
<1>1. (s % N) \in 0 .. N - 1 /\ s \div N \in Int /\ s = N * (s \div N) + (s % N)
  BY SMT
<1> QED
  BY <1>1, Zenon

\* Two multiples of N that are less than N apart are the same.
LEMMA Multiples ==
  ASSUME NEW N \in Nat \ {0}, NEW a \in Int, NEW b \in Int,
         0 - N < N * b - N * a, N * b - N * a < N
  PROVE  a = b
<1> DEFINE k == b - a
<1>1. N * k = N * b - N * a
  OBVIOUS
<1>2. k >= 1 => N * k >= N
  OBVIOUS
<1>3. k <= -1 => N * k <= 0 - N
  OBVIOUS
<1> QED
  BY <1>1, <1>2, <1>3

\* Frames less than N apart have slots of their own in a ring of N slots.
LEMMA SlotsDiffer ==
  ASSUME NEW N \in Nat \ {0}, NEW s \in Nat, NEW t \in Nat, s < t, t < s + N
  PROVE  (s % N) # (t % N)
<1>1. SUFFICES ASSUME (s % N) = (t % N) PROVE FALSE
  BY Zenon
<1>2. PICK a \in Int : s = N * a + (s % N)
  BY Division, Zenon
<1>3. PICK b \in Int : t = N * b + (t % N)
  BY Division, Zenon
<1>4. a = b
  BY <1>1, <1>2, <1>3, Multiples
<1> QED
  BY <1>1, <1>2, <1>3, <1>4

\* The frame N after another takes its slot.
LEMMA SlotReused ==
  ASSUME NEW N \in Nat \ {0}, NEW s \in Nat
  PROVE  ((s + N) % N) = (s % N)
<1>1. s + N \in Nat
  OBVIOUS
<1>2. PICK a \in Int : s = N * a + (s % N)
  BY Division, Zenon
<1>3. PICK b \in Int : s + N = N * b + ((s + N) % N)
  BY <1>1, Division, Zenon
<1>4. N * (a + 1) = N * a + N
  OBVIOUS
<1>5. (s % N) \in 0 .. N - 1 /\ ((s + N) % N) \in 0 .. N - 1
  BY <1>1, Division, Zenon
<1>6. a + 1 = b
  BY <1>2, <1>3, <1>4, <1>5, Multiples
<1> QED
  BY <1>2, <1>3, <1>4, <1>6

\* Pos in the ring of e: frames less than a window apart have slots of their own,
\* and the frame a window later has the same.
LEMMA PosFacts ==
  ASSUME NEW e \in Endpoint
  PROVE  /\ \A s \in Nat : Pos(e, s) \in Slots(e) /\ Pos(e, s + RecvWindowSize[e]) = Pos(e, s)
         /\ \A s, t \in Nat : s < t /\ t < s + RecvWindowSize[e] => Pos(e, s) # Pos(e, t)
<1>1. RecvWindowSize[e] \in Nat \ {0}
  BY SizeAssumption, Zenon
<1>2. ASSUME NEW s \in Nat
      PROVE  Pos(e, s) \in Slots(e) /\ Pos(e, s + RecvWindowSize[e]) = Pos(e, s)
  BY <1>1, Division, SlotReused, Zenon DEF Pos, Slots
<1>3. ASSUME NEW s \in Nat, NEW t \in Nat, s < t, t < s + RecvWindowSize[e]
      PROVE  Pos(e, s) # Pos(e, t)
  BY <1>1, <1>3, SlotsDiffer, Zenon DEF Pos
<1> QED
  BY <1>2, <1>3, Zenon

-----------------------------------------------------------------------------
(* Frames in order *)

\* A sequence is a function on an interval, and so are those built from it.
LEMMA SeqAsFunction ==
  ASSUME NEW S, NEW s \in Seq(S)
  PROVE  s = [i \in 1 .. Len(s) |-> s[i]]
OBVIOUS

LEMMA ConcatAsFunction ==
  ASSUME NEW S, NEW s \in Seq(S), NEW t \in Seq(S)
  PROVE  s \o t = [i \in 1 .. Len(s) + Len(t) |-> IF i <= Len(s) THEN s[i] ELSE t[i - Len(s)]]
<1>1. s \o t \in Seq(S) /\ Len(s \o t) = Len(s) + Len(t)
  OBVIOUS
<1>2. \A i \in 1 .. Len(s) + Len(t) : (s \o t)[i] = IF i <= Len(s) THEN s[i] ELSE t[i - Len(s)]
  OBVIOUS
<1>3. s \o t = [i \in 1 .. Len(s \o t) |-> (s \o t)[i]]
  BY <1>1, SeqAsFunction, Zenon
<1> QED
  BY <1>1, <1>2, <1>3, Zenon

LEMMA AppendAsFunction ==
  ASSUME NEW S, NEW s \in Seq(S), NEW x \in S
  PROVE  Append(s, x) = [i \in 1 .. Len(s) + 1 |-> IF i = Len(s) + 1 THEN x ELSE s[i]]
<1>1. Append(s, x) \in Seq(S) /\ Len(Append(s, x)) = Len(s) + 1
  OBVIOUS
<1>2. \A i \in 1 .. Len(s) + 1 : Append(s, x)[i] = IF i = Len(s) + 1 THEN x ELSE s[i]
  OBVIOUS
<1>3. Append(s, x) = [i \in 1 .. Len(Append(s, x)) |-> Append(s, x)[i]]
  BY <1>1, SeqAsFunction, Zenon
<1> QED
  BY <1>1, <1>2, <1>3, Zenon

LEMMA SubSeqAsFunction ==
  ASSUME NEW S, NEW s \in Seq(S), NEW m \in 1 .. Len(s) + 1, NEW n \in m - 1 .. Len(s)
  PROVE  SubSeq(s, m, n) = [i \in 1 .. n - m + 1 |-> s[m + i - 1]]
OBVIOUS

\* Frames yields the frames in order.
LEMMA FramesType ==
  ASSUME NEW a \in Int, NEW b \in Int, a <= b + 1
  PROVE  /\ Frames(a, b) \in Seq(Int)
         /\ Len(Frames(a, b)) = b - a + 1
         /\ \A i \in 1 .. b - a + 1 : Frames(a, b)[i] = a + i - 1
<1>1. b - a + 1 \in Nat
  OBVIOUS
<1>2. \A i \in 1 .. b - a + 1 : a + i - 1 \in Int
  OBVIOUS
<1> QED
  BY <1>1, <1>2 DEF Frames

\* A queue of frames in order is a prefix of them and the rest.
LEMMA FramesConcat ==
  ASSUME NEW a \in Int, NEW b \in Int, NEW c \in Int, a <= b + 1, b <= c
  PROVE  Frames(a, b) \o Frames(b + 1, c) = Frames(a, c)
<1>1. b + 1 \in Int /\ b + 1 <= c + 1 /\ a <= c + 1
  OBVIOUS
<1> DEFINE s == Frames(a, b)
           t == Frames(b + 1, c)
<1>2. /\ s \in Seq(Int) /\ Len(s) = b - a + 1 /\ \A i \in 1 .. b - a + 1 : s[i] = a + i - 1
      /\ t \in Seq(Int) /\ Len(t) = c - (b + 1) + 1
      /\ \A i \in 1 .. c - (b + 1) + 1 : t[i] = b + 1 + i - 1
  BY <1>1, FramesType, Zenon
<1> HIDE DEF s, t
<1>3. s \o t = [i \in 1 .. Len(s) + Len(t) |-> IF i <= Len(s) THEN s[i] ELSE t[i - Len(s)]]
  BY <1>2, ConcatAsFunction, Zenon
<1>4. /\ Len(s) + Len(t) = c - a + 1
      /\ \A i \in 1 .. c - a + 1 : (IF i <= Len(s) THEN s[i] ELSE t[i - Len(s)]) = a + i - 1
  BY <1>2
<1>5. s \o t = Frames(a, c)
  BY <1>3, <1>4, Zenon DEF Frames
<1> QED
  BY <1>5, Zenon DEF s, t

\* The first n of a queue of frames, and the others.
LEMMA FramesSub ==
  ASSUME NEW a \in Int, NEW b \in Int, NEW n \in Nat, n <= b - a + 1
  PROVE  /\ SubSeq(Frames(a, b), 1, n) = Frames(a, a + n - 1)
         /\ SubSeq(Frames(a, b), n + 1, Len(Frames(a, b))) = Frames(a + n, b)
<1> DEFINE u == Frames(a, b)
<1>1. a <= b + 1
  OBVIOUS
<1>2. u \in Seq(Int) /\ Len(u) = b - a + 1 /\ \A i \in 1 .. b - a + 1 : u[i] = a + i - 1
  BY <1>1, FramesType, Zenon
<1> HIDE DEF u
<1>3. SubSeq(u, 1, n) = Frames(a, a + n - 1)
  <2>1. 1 \in 1 .. Len(u) + 1 /\ n \in 1 - 1 .. Len(u)
    BY <1>2
  <2>2. SubSeq(u, 1, n) = [i \in 1 .. n - 1 + 1 |-> u[1 + i - 1]]
    BY <1>2, <2>1, SubSeqAsFunction, Zenon
  <2>3. /\ n - 1 + 1 = (a + n - 1) - a + 1
        /\ \A i \in 1 .. n - 1 + 1 : u[1 + i - 1] = a + i - 1
    BY <1>2
  <2> QED
    BY <2>2, <2>3, Zenon DEF Frames
<1>4. SubSeq(u, n + 1, Len(u)) = Frames(a + n, b)
  <2>1. n + 1 \in 1 .. Len(u) + 1 /\ Len(u) \in (n + 1) - 1 .. Len(u)
    BY <1>2
  <2>2. SubSeq(u, n + 1, Len(u)) = [i \in 1 .. Len(u) - (n + 1) + 1 |-> u[n + 1 + i - 1]]
    BY <1>2, <2>1, SubSeqAsFunction, Zenon
  <2>3. /\ Len(u) - (n + 1) + 1 = b - (a + n) + 1
        /\ \A i \in 1 .. Len(u) - (n + 1) + 1 : u[n + 1 + i - 1] = a + n + i - 1
    BY <1>2
  <2> QED
    BY <2>2, <2>3, Zenon DEF Frames
<1> QED
  BY <1>3, <1>4, Zenon DEF u

-----------------------------------------------------------------------------
(* The sender's buffers *)

\* The receiver's counts are in order.
LEMMA CounterFacts ==
  ASSUME TypeOK, Links, NEW e \in Endpoint
  PROVE  /\ LastMsgConsumed[e] \in Int /\ NextFrameExpected[e] \in Nat
         /\ NextFrameExpected[e] - 1 \in Int /\ LastFrameSent[Other(e)] \in Int
         /\ -1 <= LastMsgConsumed[e] /\ LastMsgConsumed[e] <= NextFrameExpected[e] - 1
         /\ NextFrameExpected[e] - 1 <= LastFrameSent[Other(e)]
<1>1. CountersInv(Other(e)) /\ Other(Other(e)) = e /\ Other(e) \in Endpoint
  BY OtherFacts, Zenon DEF Links, LinkInv
<1>2. LastMsgConsumed[e] \in Int /\ NextFrameExpected[e] \in Nat
      /\ LastFrameSent[Other(e)] \in Int /\ LargestSeqnoRcvd[e] \in Int
  BY <1>1 DEF TypeOK
<1> QED
  BY <1>1, <1>2 DEF CountersInv

\* The buffers of f are untouched by a step that changes nothing they speak of.
LEMMA TreesSame ==
  ASSUME NEW f \in Endpoint, TreesInv(f), LastFrameSent'[f] = LastFrameSent[f],
         SentButNotAcked'[f] = SentButNotAcked[f], TxqSlot'[f] = TxqSlot[f],
         SentButNotAckedByDeadline'[f] = SentButNotAckedByDeadline[f],
         SentButNotAckedBySeqNum'[f] = SentButNotAckedBySeqNum[f]
  PROVE  TreesInv(f)'
BY Zenon DEF TreesInv

\* So are those of the receiver.
LEMMA RxqSame ==
  ASSUME NEW f \in Endpoint, RxqInv(f), NextFrameExpected'[f] = NextFrameExpected[f],
         Rxq'[f] = Rxq[f], RxqSlot'[f] = RxqSlot[f]
  PROVE  RxqInv(f)'
BY Zenon DEF RxqInv, Holds, Window

\* And the queue.
LEMMA ReadySame ==
  ASSUME NEW f \in Endpoint, ReadyInv(f), NextFrameExpected'[f] = NextFrameExpected[f],
         LastMsgConsumed'[f] = LastMsgConsumed[f],
         ReadyForDelivery'[f] = ReadyForDelivery[f], delivered'[f] = delivered[f]
  PROVE  ReadyInv(f)'
BY Zenon DEF ReadyInv

\* Retries, keep-alives and stuttering.
LEMMA RingSame ==
  ASSUME RingInv, UNCHANGED <<sndVars, rcvVars, ringVars>>
  PROVE  RingInv'
BY DEF RingInv, RingTypeOK, RxqInv, Holds, ReadyInv, TreesInv, Window, sndVars, rcvVars, ringVars

\* doOrigDataSend: the frames in flight leave room in the ring, as their number is
\* tested against a capacity that does not exceed the peer's window.
LEMMA SendRoom ==
  ASSUME IntervalSizes, TypeOK, Links, NEW e \in Endpoint, doOrigDataSend(e), NEW s \in SentButNotAcked[e]
  PROVE  s \in Nat /\ s <= LastFrameSent[e] /\ LastFrameSent[e] + 1 < s + RecvWindowSize[Other(e)]
<1>1. PICK a \in -1 .. LastFrameSent[e] :
        a <= AckLimit(Other(e)) /\ SentButNotAcked[e] = a + 1 .. LastFrameSent[e]
  BY Zenon DEF Links, LinkInv, RetryInv
<1>2. LastFrameSent[e] \in Int /\ a \in Int /\ a <= LastFrameSent[e] /\ -1 <= a
  BY <1>1 DEF TypeOK
<1>3. Cardinality(a + 1 .. LastFrameSent[e]) =
        IF a + 1 > LastFrameSent[e] THEN 0 ELSE LastFrameSent[e] - (a + 1) + 1
  <2>1. a + 1 \in Int
    BY <1>2
  <2> QED
    BY <1>2, <2>1, Zenon DEF IntervalSizes
<1>4. /\ LastSeenAvailReaderMsgCap[e] - Cardinality(SentButNotAcked[e]) > 0
      /\ LastSeenAvailReaderMsgCap[e] <= RecvWindowSize[Other(e)]
      /\ LastSeenAvailReaderMsgCap[e] \in Int /\ RecvWindowSize[Other(e)] \in Int
  <2>1. LastSeenAvailReaderMsgCap[e] - Cardinality(SentButNotAcked[e]) > 0
    BY Zenon DEF doOrigDataSend, ComputeInflight
  <2>2. LastSeenAvailReaderMsgCap[e] <= RecvWindowSize[Other(e)]
    BY Zenon DEF Links, LinkInv, CapacityInv
  <2>3. LastSeenAvailReaderMsgCap[e] \in Int /\ RecvWindowSize[Other(e)] \in Int
    BY OtherFacts, SizeAssumption DEF TypeOK
  <2> QED
    BY <2>1, <2>2, <2>3, Zenon
<1>5. LastSeenAvailReaderMsgCap[e] - (LastFrameSent[e] - a) > 0
  <2>1. Cardinality(SentButNotAcked[e]) = LastFrameSent[e] - a
    BY <1>1, <1>2, <1>3
  <2> QED
    BY <1>4, <2>1, Zenon
<1>6. s \in a + 1 .. LastFrameSent[e]
  BY <1>1, Zenon
<1> QED
  BY <1>2, <1>4, <1>5, <1>6

\* doOrigDataSend: the new frame takes a slot that no frame in flight has.
LEMMA SendStep ==
  ASSUME IntervalSizes, TypeOK, Links, RingInv, NEW e \in Endpoint, RingSend(e)
  PROVE  RingInv'
<1> DEFINE new == LastFrameSent[e] + 1
           pos == Pos(e, new)
           W == RecvWindowSize[e]
<1>1. /\ doOrigDataSend(e)
      /\ TxqSlot' = [TxqSlot EXCEPT ![e][pos] = new]
      /\ SentButNotAckedByDeadline' = [SentButNotAckedByDeadline EXCEPT ![e] = @ \cup {pos}]
      /\ SentButNotAckedBySeqNum' = [SentButNotAckedBySeqNum EXCEPT ![e] = @ \cup {pos}]
      /\ UNCHANGED <<RxqSlot, ReadyForDelivery, delivered>>
  BY Zenon DEF RingSend
<1>2. /\ LastFrameSent' = [LastFrameSent EXCEPT ![e] = new]
      /\ SentButNotAcked' = [SentButNotAcked EXCEPT ![e] = @ \cup {new}]
      /\ UNCHANGED <<NextFrameExpected, Rxq, LastMsgConsumed>>
  BY <1>1, Zenon DEF doOrigDataSend, rcvVars
<1>3. new \in Nat /\ pos \in Slots(e) /\ W \in Nat \ {0}
  <2>1. new \in Nat
    BY DEF TypeOK
  <2> QED
    BY <2>1, PosFacts, SizeAssumption, Zenon
<1>4. RingTypeOK'
  BY <1>1, Zenon DEF RingInv, RingTypeOK
<1>5. ASSUME NEW f \in Endpoint PROVE RxqInv(f)' /\ ReadyInv(f)'
  BY <1>1, <1>2, RxqSame, ReadySame, Zenon DEF RingInv
<1>6. ASSUME NEW f \in Endpoint, f # e PROVE TreesInv(f)'
  <2>1. /\ LastFrameSent'[f] = LastFrameSent[f] /\ SentButNotAcked'[f] = SentButNotAcked[f]
        /\ TxqSlot'[f] = TxqSlot[f]
        /\ SentButNotAckedByDeadline'[f] = SentButNotAckedByDeadline[f]
        /\ SentButNotAckedBySeqNum'[f] = SentButNotAckedBySeqNum[f]
    BY <1>1, <1>2, <1>6, Zenon DEF RingInv, RingTypeOK, TypeOK
  <2> QED
    BY <2>1, TreesSame, Zenon DEF RingInv
<1>7. TreesInv(e)'
  <2>1. /\ LastFrameSent'[e] = new /\ SentButNotAcked'[e] = SentButNotAcked[e] \cup {new}
        /\ TxqSlot'[e] = [TxqSlot[e] EXCEPT ![pos] = new]
        /\ SentButNotAckedByDeadline'[e] = SentButNotAckedByDeadline[e] \cup {pos}
        /\ SentButNotAckedBySeqNum'[e] = SentButNotAckedBySeqNum[e] \cup {pos}
    BY <1>1, <1>2, Zenon DEF RingInv, RingTypeOK, TypeOK
  <2>2. TreesInv(e)
    BY Zenon DEF RingInv
  <2>3. TxqSlot'[e] \in [Slots(e) -> Int] /\ TxqSlot'[e][pos] = new
        /\ \A i \in Slots(e) \ {pos} : TxqSlot'[e][i] = TxqSlot[e][i]
    BY <1>3, <2>1, <2>2 DEF TreesInv
  <2>4. ASSUME RecvWindowSize[Other(e)] <= W, NEW s \in SentButNotAcked[e]
        PROVE  new < s + W /\ Pos(e, s) \in Slots(e) \ {pos} /\ TxqSlot'[e][Pos(e, s)] = s
    <3>1. s \in Nat /\ s <= LastFrameSent[e] /\ new < s + RecvWindowSize[Other(e)]
      BY <1>1, SendRoom, Zenon
    <3>2. RecvWindowSize[Other(e)] \in Nat /\ LastFrameSent[e] \in Int
      BY OtherFacts, SizeAssumption DEF TypeOK
    <3>3. s < new /\ new < s + W
      BY <1>3, <2>4, <3>1, <3>2
    <3>4. Pos(e, s) \in Slots(e) \ {pos}
      BY <1>3, <3>1, <3>3, PosFacts, Zenon
    <3> QED
      BY <2>2, <2>3, <2>4, <3>3, <3>4, Zenon DEF TreesInv
  <2>5. ASSUME RecvWindowSize[Other(e)] <= W
        PROVE  /\ \A s \in SentButNotAcked'[e] : new < s + W /\ TxqSlot'[e][Pos(e, s)] = s
               /\ SentButNotAckedBySeqNum'[e] = {Pos(e, s) : s \in SentButNotAcked'[e]}
    BY <1>3, <2>1, <2>2, <2>3, <2>4, <2>5 DEF TreesInv
  <2> QED
    BY <2>1, <2>2, <2>3, <2>5, Zenon DEF TreesInv
<1> QED
  BY <1>4, <1>5, <1>6, <1>7, Zenon DEF RingInv

\* GotPack with deleteThroughSeqNum: the slots of the frames acknowledged leave
\* both trees, and no others do.
LEMMA TreesArrive ==
  ASSUME TypeOK, RingInv, NEW e \in Endpoint, NEW p, p.ack \in Int,
         GotPack(e, p), deleteThroughSeqNum(e, p.ack)
  PROVE  /\ \A f \in Endpoint : TreesInv(f)'
         /\ DOMAIN TxqSlot' = Endpoint /\ DOMAIN SentButNotAckedByDeadline' = Endpoint
         /\ DOMAIN SentButNotAckedBySeqNum' = Endpoint
<1> DEFINE goners == {i \in SentButNotAckedBySeqNum[e] : TxqSlot[e][i] <= p.ack}
<1>1. /\ SentButNotAckedBySeqNum' = [SentButNotAckedBySeqNum EXCEPT ![e] = @ \ goners]
      /\ SentButNotAckedByDeadline' = [SentButNotAckedByDeadline EXCEPT ![e] = @ \ goners]
      /\ SentButNotAcked' = [SentButNotAcked EXCEPT ![e] = {s \in @ : s > p.ack}]
      /\ UNCHANGED <<TxqSlot, LastFrameSent>>
  BY Zenon DEF deleteThroughSeqNum, GotPack
<1>2. ASSUME NEW f \in Endpoint, f # e PROVE TreesInv(f)'
  <2>1. /\ SentButNotAcked'[f] = SentButNotAcked[f]
        /\ SentButNotAckedByDeadline'[f] = SentButNotAckedByDeadline[f]
        /\ SentButNotAckedBySeqNum'[f] = SentButNotAckedBySeqNum[f]
    BY <1>1, <1>2, Zenon DEF RingInv, RingTypeOK, TypeOK
  <2> QED
    BY <1>1, <2>1, TreesSame, Zenon DEF RingInv
<1>3. TreesInv(e)'
  <2>1. /\ SentButNotAcked'[e] = {s \in SentButNotAcked[e] : s > p.ack}
        /\ SentButNotAckedByDeadline'[e] = SentButNotAckedByDeadline[e] \ goners
        /\ SentButNotAckedBySeqNum'[e] = SentButNotAckedBySeqNum[e] \ goners
        /\ SentButNotAcked[e] \in SUBSET Nat
    BY <1>1, Zenon DEF RingInv, RingTypeOK, TypeOK
  <2>2. TreesInv(e)
    BY Zenon DEF RingInv
  <2>3. ASSUME RecvWindowSize[Other(e)] <= RecvWindowSize[e]
        PROVE  /\ \A s \in SentButNotAcked'[e] :
                    LastFrameSent'[e] < s + RecvWindowSize[e] /\ TxqSlot'[e][Pos(e, s)] = s
               /\ SentButNotAckedBySeqNum'[e] = {Pos(e, s) : s \in SentButNotAcked'[e]}
    <3>1. \A s \in SentButNotAcked[e] :
            s \in Nat /\ LastFrameSent[e] < s + RecvWindowSize[e] /\ TxqSlot[e][Pos(e, s)] = s
      BY <2>1, <2>2, <2>3, Zenon DEF TreesInv
    <3>2. SentButNotAckedBySeqNum[e] = {Pos(e, s) : s \in SentButNotAcked[e]}
      BY <2>2, <2>3, Zenon DEF TreesInv
    <3>3. \A s \in SentButNotAcked[e] : Pos(e, s) \in goners <=> ~(s > p.ack)
      BY <3>1, <3>2
    <3>4. SentButNotAckedBySeqNum'[e] = {Pos(e, s) : s \in SentButNotAcked'[e]}
      BY <2>1, <3>2, <3>3
    <3> QED
      BY <1>1, <2>1, <3>1, <3>4, Zenon
  <2> QED
    BY <1>1, <2>1, <2>2, <2>3, Zenon DEF TreesInv
<1> QED
  BY <1>1, <1>2, <1>3, Zenon DEF RingInv, RingTypeOK

-----------------------------------------------------------------------------
(* The receiver's buffers *)

\* The ring with a frame of the window in its slot.
Filled(e, seq) == [RxqSlot[e] EXCEPT ![Pos(e, seq)] = seq]

\* Filling the slot of a frame touches no other frame of the window.
LEMMA SlotFilled ==
  ASSUME TypeOK, NEW e \in Endpoint, RxqInv(e), NEW seq \in Window(e), NEW ring,
         ring = Filled(e, seq)
  PROVE  Holds(e, ring, Rxq[e] \cup {seq})
<1>1. /\ NextFrameExpected[e] \in Nat /\ RecvWindowSize[e] \in Nat \ {0}
      /\ \A s \in Window(e) : s \in Nat
  BY SizeAssumption DEF TypeOK, Window
<1>2. ring \in [Slots(e) -> Int] /\ ring[Pos(e, seq)] = seq
      /\ \A i \in Slots(e) \ {Pos(e, seq)} : ring[i] = RxqSlot[e][i]
  BY <1>1, PosFacts DEF RxqInv, Holds, Filled
<1>3. ASSUME NEW s \in Window(e), s # seq PROVE ring[Pos(e, s)] = RxqSlot[e][Pos(e, s)]
  <2>1. (s < seq /\ seq < s + RecvWindowSize[e]) \/ (seq < s /\ s < seq + RecvWindowSize[e])
    BY <1>1, <1>3 DEF Window
  <2>2. Pos(e, s) \in Slots(e) \ {Pos(e, seq)}
    BY <1>1, <2>1, PosFacts
  <2> QED
    BY <1>2, <2>2, Zenon
<1> QED
  BY <1>2, <1>3, Zenon DEF RxqInv, Holds

\* What the arrival of p changes for the sender side, the other buffers aside.
LEMMA ArriveTrees ==
  ASSUME TypeOK, RingInv, NEW e \in Endpoint, NEW p \in net, Arrive(e, p),
         deleteThroughSeqNum(e, p.ack)
  PROVE  /\ \A f \in Endpoint : TreesInv(f)'
         /\ DOMAIN TxqSlot' = Endpoint /\ DOMAIN SentButNotAckedByDeadline' = Endpoint
         /\ DOMAIN SentButNotAckedBySeqNum' = Endpoint
<1>1. p.ack \in Int /\ GotPack(e, p)
  BY Zenon DEF TypeOK, Packet, Arrive
<1> QED
  BY <1>1, TreesArrive, Zenon

\* A frame ahead of the next expected goes into its slot.
LEMMA AheadStep ==
  ASSUME TypeOK, RingInv, NEW e \in Endpoint, NEW p \in net, RingRecvFrameAhead(e, p)
  PROVE  RingInv'
<1>1. /\ Arrive(e, p) /\ deleteThroughSeqNum(e, p.ack) /\ InRecvWindow(e, p.seq)
      /\ RxqSlot' = [RxqSlot EXCEPT ![e][Pos(e, p.seq)] = p.seq]
      /\ Rxq' = [Rxq EXCEPT ![e] = @ \cup {p.seq}]
      /\ UNCHANGED <<NextFrameExpected, LastMsgConsumed, ReadyForDelivery, delivered>>
  BY Zenon DEF RingRecvFrameAhead, RecvFrameAhead
<1>2. p.seq \in Window(e)
  BY <1>1 DEF TypeOK, Packet, InRecvWindow, InWindow, Window
<1>3. /\ RxqSlot'[e] = Filled(e, p.seq)
      /\ Rxq'[e] = Rxq[e] \cup {p.seq} /\ Window(e)' = Window(e) /\ RxqInv(e)
  BY <1>1, Zenon DEF RingInv, RingTypeOK, TypeOK, Window, Filled
<1>4. RxqInv(e)'
  <2>1. Holds(e, RxqSlot'[e], Rxq[e] \cup {p.seq})
    BY <1>2, <1>3, SlotFilled, Zenon
  <2> QED
    BY <1>2, <1>3, <2>1 DEF RxqInv, Holds
<1>5. ASSUME NEW f \in Endpoint, f # e PROVE RxqInv(f)'
  <2>1. Rxq'[f] = Rxq[f] /\ RxqSlot'[f] = RxqSlot[f]
    BY <1>1, <1>5, Zenon DEF RingInv, RingTypeOK, TypeOK
  <2> QED
    BY <1>1, <2>1, RxqSame, Zenon DEF RingInv
<1>6. ASSUME NEW f \in Endpoint PROVE ReadyInv(f)'
  BY <1>1, ReadySame, Zenon DEF RingInv
<1> QED
  BY <1>1, <1>4, <1>5, <1>6, ArriveTrees, Zenon DEF RingInv, RingTypeOK

\* Other packets touch neither ring nor queue of the receiver.
LEMMA OtherStep ==
  ASSUME TypeOK, RingInv, NEW e \in Endpoint, NEW p \in net, RingRecvOther(e, p)
  PROVE  RingInv'
<1>1. /\ Arrive(e, p) /\ deleteThroughSeqNum(e, p.ack)
      /\ UNCHANGED <<NextFrameExpected, LastMsgConsumed, Rxq, RxqSlot, ReadyForDelivery, delivered>>
  BY Zenon DEF RingRecvOther, RecvFrameOutside, RecvInfo
<1>2. ASSUME NEW f \in Endpoint PROVE RxqInv(f)' /\ ReadyInv(f)'
  BY <1>1, RxqSame, ReadySame, Zenon DEF RingInv
<1> QED
  BY <1>1, <1>2, ArriveTrees, Zenon DEF RingInv, RingTypeOK

\* The delivery loop takes the frames through the first one missing, and leaves
\* the slots they had for the frames by which the window moves on.
LEMMA NextStep ==
  ASSUME TypeOK, TypeOK', Links, RingInv, NEW e \in Endpoint, NEW p \in net, RingRecvNextFrame(e, p)
  PROVE  RingInv'
<1> DEFINE n == NextFrameExpected[e]
           W == RecvWindowSize[e]
           received == Rxq[e] \cup {p.seq}
           ring == [RxqSlot[e] EXCEPT ![Pos(e, p.seq)] = p.seq]
<1>1. /\ Arrive(e, p) /\ deleteThroughSeqNum(e, p.ack) /\ p.seq = n
      /\ UNCHANGED <<LastMsgConsumed, delivered>>
  BY Zenon DEF RingRecvNextFrame, RecvNextFrame
<1>2. PICK next \in n + 1 .. n + W :
        /\ IsFirstMissing(next, n, received)
        /\ NextFrameExpected' = [NextFrameExpected EXCEPT ![e] = next]
        /\ Rxq' = [Rxq EXCEPT ![e] = {s \in received : s >= next}]
  BY Zenon DEF RingRecvNextFrame, RecvNextFrame
<1>3. ring = Filled(e, p.seq)
  BY Zenon DEF Filled
<1>4. PICK m \in n + 1 .. n + W :
        /\ LoopEnd(e, ring, n, m)
        /\ ReadyForDelivery' = [ReadyForDelivery EXCEPT ![e] =
             @ \o [i \in 1 .. m - n |-> ring[Pos(e, n + i - 1)]]]
        /\ RxqSlot' = [RxqSlot EXCEPT ![e] =
             [i \in Slots(e) |-> IF \E k \in n .. m - 1 : i = Pos(e, k) THEN Free ELSE ring[i]]]
  BY Zenon DEF RingRecvNextFrame
<1> HIDE DEF ring
<1>5. n \in Nat /\ W \in Nat \ {0} /\ m \in Nat /\ next \in Nat /\ RxqInv(e) /\ ReadyInv(e)
      /\ LastMsgConsumed[e] \in Int
  BY SizeAssumption DEF TypeOK, RingInv
<1>6. p.seq \in Window(e) /\ received \subseteq Window(e)
  BY <1>1, <1>5 DEF Window, RxqInv
<1>7. Holds(e, ring, received)
  BY <1>3, <1>5, <1>6, SlotFilled, Zenon
<1>8. m = next
  <2>1. \A k \in n .. n + W - 1 : ring[Pos(e, k)] # Free <=> k \in received
    BY <1>5, <1>7 DEF Holds, Window, Free
  <2>2. /\ \A k \in n .. m - 1 : ring[Pos(e, k)] # Free
        /\ m = n + W \/ ring[Pos(e, m)] = Free
    BY <1>4, Zenon DEF LoopEnd
  <2>3. next \notin received /\ \A k \in n .. next - 1 : k \in received
    BY <1>2, Zenon DEF IsFirstMissing
  <2>4. ~(next < m)
    BY <1>5, <2>1, <2>2, <2>3
  <2>5. ~(m < next)
    BY <1>2, <1>5, <2>1, <2>2, <2>3
  <2> QED
    BY <1>5, <2>4, <2>5
<1>9. \A k \in n .. m - 1 : k \in received /\ ring[Pos(e, k)] = k
  <2>1. \A k \in n .. m - 1 : k \in received /\ k \in Window(e)
    BY <1>2, <1>5, <1>8 DEF IsFirstMissing, Window
  <2> QED
    BY <1>7, <2>1, Zenon DEF Holds
<1>10. /\ NextFrameExpected'[e] = m /\ Rxq'[e] = {s \in received : s >= m}
       /\ ReadyForDelivery'[e] = ReadyForDelivery[e] \o [i \in 1 .. m - n |-> ring[Pos(e, n + i - 1)]]
       /\ RxqSlot'[e] = [i \in Slots(e) |->
                           IF \E k \in n .. m - 1 : i = Pos(e, k) THEN Free ELSE ring[i]]
  BY <1>2, <1>4, <1>8, Zenon DEF RingInv, RingTypeOK, TypeOK
<1>11. ReadyInv(e)'
  <2>1. [i \in 1 .. m - n |-> ring[Pos(e, n + i - 1)]] = Frames(n, m - 1)
    <3>1. (m - 1) - n + 1 = m - n
      BY <1>5
    <3>2. \A i \in 1 .. m - n : ring[Pos(e, n + i - 1)] = n + i - 1
      BY <1>5, <1>9
    <3> QED
      BY <3>1, <3>2, Zenon DEF Frames
  <2>2. LastMsgConsumed[e] < n
    BY OtherFacts, Zenon DEF Links, LinkInv, CountersInv
  <2>3. /\ LastMsgConsumed[e] + 1 \in Int /\ n - 1 \in Int /\ m - 1 \in Int /\ (n - 1) + 1 = n
        /\ LastMsgConsumed[e] + 1 <= (n - 1) + 1 /\ n - 1 <= m - 1
    BY <1>5, <2>2
  <2>4. Frames(LastMsgConsumed[e] + 1, n - 1) \o Frames((n - 1) + 1, m - 1)
          = Frames(LastMsgConsumed[e] + 1, m - 1)
    BY <2>3, FramesConcat, Zenon
  <2> QED
    BY <1>1, <1>5, <1>10, <2>1, <2>3, <2>4, Zenon DEF ReadyInv
<1>12. RxqInv(e)'
  <2>1. Window(e)' = m .. m + W - 1 /\ Window(e) = n .. n + W - 1
    BY <1>10, Zenon DEF Window
  <2>2. n \in Nat /\ m \in Nat /\ W \in Nat /\ n < m /\ m <= n + W
    BY <1>4, <1>5
  <2>3. Rxq'[e] \subseteq Window(e)'
    <3>1. \A s \in n .. n + W - 1 : s >= m => s \in m .. m + W - 1
      BY <2>2
    <3> QED
      BY <1>6, <1>10, <2>1, <3>1, Zenon
  <2>4. RxqSlot'[e] \in [Slots(e) -> Int]
    BY <1>7, <1>10 DEF Holds, Free
  <2>5. ASSUME NEW s \in m .. m + W - 1, s < n + W
        PROVE  RxqSlot'[e][Pos(e, s)] = IF s \in Rxq'[e] THEN s ELSE Free
    <3>1. s \in Nat /\ s \in n .. n + W - 1 /\ s >= m
      BY <2>2, <2>5
    <3>2. \A k \in n .. m - 1 : k \in Nat /\ k < s /\ s < k + W
      BY <2>2, <2>5
    <3>3. \A k \in n .. m - 1 : Pos(e, k) # Pos(e, s)
      BY <3>1, <3>2, PosFacts, Zenon
    <3>4. RxqSlot'[e][Pos(e, s)] = ring[Pos(e, s)]
      BY <1>10, <3>1, <3>3, PosFacts
    <3> QED
      BY <1>7, <1>10, <2>1, <3>1, <3>4, Zenon DEF Holds
  <2>6. ASSUME NEW s \in m .. m + W - 1, ~(s < n + W)
        PROVE  RxqSlot'[e][Pos(e, s)] = IF s \in Rxq'[e] THEN s ELSE Free
    <3>1. s - W \in n .. m - 1 /\ s - W \in Nat /\ s \in Nat /\ s = (s - W) + W
      BY <2>2, <2>6
    <3>2. Pos(e, s) \in Slots(e) /\ Pos(e, s) = Pos(e, s - W)
      BY <3>1, PosFacts, Zenon
    <3>3. s \notin n .. n + W - 1
      BY <2>2, <2>6
    <3>4. s \notin Rxq'[e]
      BY <1>6, <1>10, <2>1, <3>3, Zenon
    <3> QED
      BY <1>10, <3>1, <3>2, <3>4, Zenon
  <2> QED
    BY <2>1, <2>3, <2>4, <2>5, <2>6, Zenon DEF RxqInv, Holds
<1>13. ASSUME NEW f \in Endpoint, f # e PROVE RxqInv(f)' /\ ReadyInv(f)'
  <2>1. /\ Rxq'[f] = Rxq[f] /\ RxqSlot'[f] = RxqSlot[f]
        /\ NextFrameExpected'[f] = NextFrameExpected[f]
        /\ ReadyForDelivery'[f] = ReadyForDelivery[f]
    BY <1>2, <1>4, <1>13, Zenon DEF RingInv, RingTypeOK, TypeOK
  <2> QED
    BY <1>1, <2>1, RxqSame, ReadySame, Zenon DEF RingInv
<1>14. DOMAIN RxqSlot' = Endpoint /\ DOMAIN ReadyForDelivery' = Endpoint
  BY <1>4, Zenon DEF RingInv, RingTypeOK
<1> QED
  BY <1>1, <1>11, <1>12, <1>13, <1>14, ArriveTrees, Zenon DEF RingInv, RingTypeOK

\* The client has consumed the first n packets of ReadyForDelivery.
LEMMA TakeStep ==
  ASSUME TypeOK, Links, RingInv, NEW e \in Endpoint, NEW n \in Nat, TakeReady(e, n),
         LastMsgConsumed' = [LastMsgConsumed EXCEPT ![e] = LastMsgConsumed[e] + n],
         n <= NextFrameExpected[e] - 1 - LastMsgConsumed[e],
         UNCHANGED <<sndVars, NextFrameExpected, Rxq>>
  PROVE  RingInv'
<1> DEFINE c == LastMsgConsumed[e]
           l == NextFrameExpected[e] - 1
           R == ReadyForDelivery[e]
<1>1. /\ delivered' = [delivered EXCEPT ![e] = @ \o SubSeq(R, 1, n)]
      /\ ReadyForDelivery' = [ReadyForDelivery EXCEPT ![e] = SubSeq(R, n + 1, Len(R))]
      /\ UNCHANGED <<TxqSlot, SentButNotAckedByDeadline, SentButNotAckedBySeqNum, RxqSlot>>
  BY Zenon DEF TakeReady
<1>2. /\ LastMsgConsumed'[e] = c + n
      /\ delivered'[e] = delivered[e] \o SubSeq(R, 1, n)
      /\ ReadyForDelivery'[e] = SubSeq(R, n + 1, Len(R))
  BY <1>1, Zenon DEF RingInv, RingTypeOK, TypeOK
<1>3. c \in Int /\ l \in Int /\ n <= l - c /\ -1 <= c
  BY OtherFacts DEF TypeOK, Links, LinkInv, CountersInv
<1>4. ReadyInv(e)'
  <2>1. R = Frames(c + 1, l) /\ delivered[e] = Frames(0, c)
    BY Zenon DEF RingInv, ReadyInv
  <2>2. c + 1 \in Int /\ n <= l - (c + 1) + 1 /\ (c + 1) + n - 1 = c + n /\ (c + 1) + n = (c + n) + 1
    BY <1>3
  <2>3. /\ SubSeq(R, 1, n) = Frames(c + 1, (c + 1) + n - 1)
        /\ SubSeq(R, n + 1, Len(R)) = Frames((c + 1) + n, l)
    <3>1. /\ SubSeq(Frames(c + 1, l), 1, n) = Frames(c + 1, (c + 1) + n - 1)
          /\ SubSeq(Frames(c + 1, l), n + 1, Len(Frames(c + 1, l))) = Frames((c + 1) + n, l)
      BY <1>3, <2>2, FramesSub, Zenon
    <3> QED
      BY <2>1, <3>1, Zenon
  <2>4. 0 \in Int /\ 0 <= c + 1 /\ c <= c + n /\ c + n \in Int
    BY <1>3
  <2>5. Frames(0, c) \o Frames(c + 1, c + n) = Frames(0, c + n)
    BY <1>3, <2>4, FramesConcat, Zenon
  <2> QED
    BY <1>2, <2>1, <2>2, <2>3, <2>5, Zenon DEF ReadyInv
<1>5. ASSUME NEW f \in Endpoint, f # e PROVE ReadyInv(f)'
  <2>1. /\ LastMsgConsumed'[f] = LastMsgConsumed[f] /\ delivered'[f] = delivered[f]
        /\ ReadyForDelivery'[f] = ReadyForDelivery[f]
    BY <1>1, <1>5, Zenon DEF RingInv, RingTypeOK, TypeOK
  <2> QED
    BY <2>1, ReadySame, Zenon DEF RingInv
<1>6. ASSUME NEW f \in Endpoint PROVE RxqInv(f)' /\ TreesInv(f)'
  BY <1>1, RxqSame, TreesSame, Zenon DEF RingInv, sndVars
<1> QED
  BY <1>1, <1>4, <1>5, <1>6, Zenon DEF RingInv, RingTypeOK

\* How many packets the client consumes in a step of its own.
LEMMA ReadAmount ==
  ASSUME TypeOK, Links, RingInv, NEW e \in Endpoint,
         RingDeliver(e) \/ \E k \in ReadSizes(e) : RingRead(e, k)
  PROVE  \E n \in Nat : /\ TakeReady(e, n)
                        /\ LastMsgConsumed' = [LastMsgConsumed EXCEPT ![e] = LastMsgConsumed[e] + n]
                        /\ n <= NextFrameExpected[e] - 1 - LastMsgConsumed[e]
                        /\ UNCHANGED <<sndVars, NextFrameExpected, Rxq>>
<1> DEFINE c == LastMsgConsumed[e]
           l == NextFrameExpected[e] - 1
<1>1. c \in Int /\ l \in Int /\ c <= l /\ l <= l /\ LastMsgConsumed \in [Endpoint -> Int]
  <2>1. c < NextFrameExpected[e]
    BY OtherFacts, Zenon DEF Links, LinkInv, CountersInv
  <2> QED
    BY <2>1 DEF TypeOK
<1>2. ASSUME NEW last \in Int, c <= last, last <= l, UNCHANGED <<sndVars, NextFrameExpected, Rxq>>,
             LastMsgConsumed' = [LastMsgConsumed EXCEPT ![e] = last], TakeReady(e, last - c)
      PROVE  \E n \in Nat : /\ TakeReady(e, n)
                            /\ LastMsgConsumed' = [LastMsgConsumed EXCEPT ![e] = c + n]
                            /\ n <= l - c
                            /\ UNCHANGED <<sndVars, NextFrameExpected, Rxq>>
  <2>1. last - c \in Nat /\ c + (last - c) = last /\ last - c <= l - c
    BY <1>1, <1>2
  <2> QED
    BY <1>2, <2>1, Zenon
<1>3. CASE RingDeliver(e)
  <2>1. ReadyForDelivery[e] = Frames(c + 1, l) /\ c + 1 \in Int /\ c + 1 <= l + 1
    BY <1>1 DEF RingInv, ReadyInv
  <2>2. Len(ReadyForDelivery[e]) = l - (c + 1) + 1
    BY <1>1, <2>1, FramesType, Zenon
  <2>3. Len(ReadyForDelivery[e]) = l - c
    BY <1>1, <2>2
  <2>4. /\ LastMsgConsumed' = [LastMsgConsumed EXCEPT ![e] = l] /\ TakeReady(e, l - c)
        /\ UNCHANGED <<sndVars, NextFrameExpected, Rxq>>
    BY <1>3, <2>3, Zenon DEF RingDeliver, deliverToConsumer, Consume
  <2> QED
    BY <1>1, <1>2, <2>4, Zenon
<1>4. ASSUME NEW k \in ReadSizes(e), RingRead(e, k)
      PROVE  \E n \in Nat : /\ TakeReady(e, n)
                            /\ LastMsgConsumed' = [LastMsgConsumed EXCEPT ![e] = c + n]
                            /\ n <= l - c
                            /\ UNCHANGED <<sndVars, NextFrameExpected, Rxq>>
  <2>1. PICK last \in c .. l : /\ LastMsgConsumed' = [LastMsgConsumed EXCEPT ![e] = last]
                               /\ UNCHANGED <<sndVars, NextFrameExpected, Rxq>>
    <3>1. LastMsgConsumed = [LastMsgConsumed EXCEPT ![e] = c]
      BY <1>1, Zenon
    <3> QED
      BY <1>4, <3>1, Zenon DEF RingRead, fillAsMuchAsPossible, Consume
  <2>2. LastMsgConsumed'[e] = last /\ last \in Int /\ c <= last /\ last <= l
    BY <1>1, <2>1
  <2>3. TakeReady(e, last - c)
    BY <1>4, <2>2, Zenon DEF RingRead
  <2> QED
    BY <1>2, <2>1, <2>2, <2>3, Zenon
<1> QED
  BY <1>3, <1>4, Zenon

-----------------------------------------------------------------------------
(* The stream of packets *)

\* A step sends one more frame, or the client consumes some of those sent, or
\* neither.
LEMMA StreamSteps ==
  ASSUME TypeOK, TypeOK', Links, RingInv, [RingNext]_<<vars, ringVars>>
  PROVE  \/ /\ LastFrameSent'[A] = LastFrameSent[A] + 1 /\ LastFrameSent[A] + 1 < MaxFrames[A]
            /\ LastMsgConsumed'[B] = LastMsgConsumed[B]
         \/ /\ LastFrameSent'[A] = LastFrameSent[A]
            /\ LastMsgConsumed[B] <= LastMsgConsumed'[B]
            /\ LastMsgConsumed'[B] <= LastFrameSent[A]
<1> A \in Endpoint /\ B \in Endpoint /\ Other(B) = A
  BY EndpointAssumption, Zenon DEF Endpoint, Other
<1>1. /\ LastMsgConsumed[B] \in Int /\ LastFrameSent[A] \in Int /\ NextFrameExpected[B] \in Nat
      /\ LastMsgConsumed[B] <= NextFrameExpected[B] - 1
      /\ NextFrameExpected[B] - 1 <= LastFrameSent[A]
  BY CounterFacts, Zenon
<1>2. LastMsgConsumed[B] <= LastMsgConsumed[B] /\ LastMsgConsumed[B] <= LastFrameSent[A]
  BY <1>1
<1>3. ASSUME UNCHANGED <<LastFrameSent, LastMsgConsumed>>
      PROVE  /\ LastFrameSent'[A] = LastFrameSent[A]
             /\ LastMsgConsumed[B] <= LastMsgConsumed'[B]
             /\ LastMsgConsumed'[B] <= LastFrameSent[A]
  BY <1>2, <1>3, Zenon
<1>4. CASE UNCHANGED <<vars, ringVars>>
  BY <1>3, <1>4, Zenon DEF vars, sndVars, rcvVars
<1>5. ASSUME NEW e \in Endpoint, RingSend(e)
      PROVE  \/ /\ LastFrameSent'[A] = LastFrameSent[A] + 1 /\ LastFrameSent[A] + 1 < MaxFrames[A]
                /\ LastMsgConsumed'[B] = LastMsgConsumed[B]
             \/ /\ LastFrameSent'[A] = LastFrameSent[A]
                /\ LastMsgConsumed'[B] = LastMsgConsumed[B]
  BY <1>5, Zenon DEF RingSend, doOrigDataSend, rcvVars, TypeOK
<1>6. ASSUME NEW e \in Endpoint, RingRetry(e) \/ doKeepAlive(e)
      PROVE  UNCHANGED <<LastFrameSent, LastMsgConsumed>>
  BY <1>6, Zenon DEF RingRetry, regularIntervalWakeup, doKeepAlive, sndVars, rcvVars
<1>7. ASSUME NEW e \in Endpoint, NEW p \in net,
             RingRecvNextFrame(e, p) \/ RingRecvFrameAhead(e, p) \/ RingRecvOther(e, p)
      PROVE  UNCHANGED <<LastFrameSent, LastMsgConsumed>>
  BY <1>7, Zenon DEF RingRecvNextFrame, RingRecvFrameAhead, RingRecvOther, RecvNextFrame, RecvFrameAhead,
     RecvFrameOutside, RecvInfo, Arrive, GotPack
<1>8. ASSUME NEW e \in Endpoint, RingDeliver(e) \/ \E k \in ReadSizes(e) : RingRead(e, k)
      PROVE  /\ LastFrameSent'[A] = LastFrameSent[A]
             /\ LastMsgConsumed[B] <= LastMsgConsumed'[B]
             /\ LastMsgConsumed'[B] <= LastFrameSent[A]
  <2>1. PICK n \in Nat :
          /\ LastMsgConsumed' = [LastMsgConsumed EXCEPT ![e] = LastMsgConsumed[e] + n]
          /\ n <= NextFrameExpected[e] - 1 - LastMsgConsumed[e]
          /\ UNCHANGED <<sndVars, NextFrameExpected, Rxq>>
    BY <1>8, ReadAmount, Zenon
  <2>2. LastMsgConsumed'[B] = IF e = B THEN LastMsgConsumed[B] + n ELSE LastMsgConsumed[B]
    BY <2>1, Zenon DEF TypeOK
  <2>3. LastFrameSent'[A] = LastFrameSent[A]
    BY <2>1, Zenon DEF sndVars
  <2> QED
    BY <1>1, <2>1, <2>2, <2>3
<1> QED
  BY <1>2, <1>3, <1>4, <1>5, <1>6, <1>7, <1>8, Zenon DEF RingNext

\* What A has pushed are the frames sent.
LEMMA PushedFrames ==
  ASSUME TypeOK
  PROVE  /\ Pushed(A) = Frames(0, LastFrameSent[A])
         /\ Pushed(A) \in Seq(Int) /\ Len(Pushed(A)) = LastFrameSent[A] + 1
<1>1. /\ LastFrameSent[A] \in Int /\ 0 \in Int /\ 0 <= LastFrameSent[A] + 1
      /\ LastFrameSent[A] - 0 + 1 = LastFrameSent[A] + 1
      /\ \A i \in 1 .. LastFrameSent[A] + 1 : 0 + i - 1 = i - 1
  BY DEF TypeOK, Endpoint
<1>2. Pushed(A) = Frames(0, LastFrameSent[A])
  BY <1>1, Zenon DEF Pushed, Frames
<1>3. /\ Frames(0, LastFrameSent[A]) \in Seq(Int)
      /\ Len(Frames(0, LastFrameSent[A])) = LastFrameSent[A] - 0 + 1
  BY <1>1, FramesType, Zenon
<1> QED
  BY <1>1, <1>2, <1>3, Zenon

\* One more frame sent is one more item pushed.
LEMMA PushedAppend ==
  ASSUME TypeOK, LastFrameSent'[A] = LastFrameSent[A] + 1
  PROVE  Pushed(A)' = Append(Pushed(A), LastFrameSent[A] + 1)
<1> DEFINE l == LastFrameSent[A]
           s == Pushed(A)
           x == l + 1
<1>1. x \in Int /\ l + 1 \in Int
  BY DEF TypeOK, Endpoint
<1>2. s \in Seq(Int) /\ Len(s) = l + 1
  BY PushedFrames, Zenon
<1> HIDE DEF s, x
<1>3. Append(s, x) = [i \in 1 .. Len(s) + 1 |-> IF i = Len(s) + 1 THEN x ELSE s[i]]
  BY <1>1, <1>2, AppendAsFunction
<1>4. \A i \in 1 .. (l + 1) + 1 : (IF i = (l + 1) + 1 THEN x ELSE s[i]) = i - 1
  BY <1>1 DEF x, s, Pushed
<1>5. Append(s, x) = [i \in 1 .. (l + 1) + 1 |-> i - 1]
  BY <1>2, <1>3, <1>4, Zenon
<1> QED
  BY <1>5, Zenon DEF x, s, Pushed
=============================================================================
