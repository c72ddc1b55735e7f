---------------------------- MODULE SessionLoops ----------------------------
(***************************************************************************)
(* The goroutines of one swp session: the send loop (sender.go, Start),    *)
(* the receive loop (recv.go, Start), and the clients that call Write,     *)
(* Read, Close, Connect, RegisterAsap and Stop.  All their channels are    *)
(* unbuffered except SendAck, so the model is about who waits for whom and *)
(* what ends the wait; what a packet says is left to SlidingWindow and     *)
(* Handshake, and appears here as a choice.                                *)
(*                                                                         *)
(* The send loop never waits outside its select, so each of its cases is   *)
(* one step.  The receive loop waits in its select and in the hand-overs   *)
(* it makes to the send loop; rcv says where.                              *)
(***************************************************************************)
EXTENDS Integers, Sequences

CONSTANTS
  AckCap,    \* the capacity of SendAck (5)
  Packets,   \* the packets one Write is cut into
  MaxAcks,   \* bound on the acks the receive loop makes
  Clients    \* sets of calls; the clients of one session make the calls of one

Calls == {"Write", "Read", "Close", "Connect", "RegisterAsap", "Stop"}

ASSUME LoopsAssumption ==
  /\ AckCap \in Nat \ {0} /\ Packets \in Nat \ {0} /\ MaxAcks \in Nat
  /\ Clients \subseteq SUBSET Calls

VARIABLES
  snd,         \* the send loop: "select" or "exited"
  sndReqStop,  \* Sender.Halt.ReqStop is closed
  window,      \* flow control lets the send loop accept a packet
  rcv,         \* where the receive loop is
  rcvReqStop,  \* Recver.Halt.ReqStop is closed
  rcvDone,     \* Recver.Halt.Done is closed
  after,       \* what the receive loop does once ack has returned
  asapHelper,  \* an AsapHelper is installed
  SendAck,     \* acks, numbered in the order ack makes them
  made,        \* the number of acks made
  sent,        \* the number of the last ack sent, 0 if none
  sessDone,    \* Session.Halt.Done is closed
  call,        \* call[c]: how far the client making call c is
  left         \* the packets Write has still to Push

sndVars == <<snd, sndReqStop, window>>
rcvVars == <<rcv, rcvReqStop, rcvDone, after, asapHelper>>
ackVars == <<SendAck, made, sent>>
vars == <<sndVars, rcvVars, ackVars, sessDone, call, left>>

\* The places where the receive loop offers the send loop something and
\* otherwise waits only for its own ReqStop.
HandOvers == {"keepAlive", "closing", "syn", "gotPack"}

Init ==
  /\ snd = "select" /\ sndReqStop = FALSE /\ window = TRUE
  /\ rcv = "select" /\ rcvReqStop = FALSE /\ rcvDone = FALSE
  /\ after = "select" /\ asapHelper = FALSE
  /\ SendAck = <<>> /\ made = 0 /\ sent = 0
  /\ sessDone = FALSE
  /\ \E C \in Clients : call = [c \in Calls |-> IF c \in C THEN "idle" ELSE "none"]
  /\ left = 0

\* A client waiting at step "from" of call c goes on to step "to"; one that has
\* given up since does not notice.
Moves(c, from, to) ==
  call' = [d \in Calls |-> IF d = c /\ call[d] = from THEN to ELSE call[d]]

-----------------------------------------------------------------------------
(* The receive loop leaving, and acks *)

\* cleanupOnExit stops an AsapHelper and waits for its Done, which only a started
\* helper closes; RegisterAsap does not start it.
cleanupOnExit == rcv' = IF asapHelper THEN "cleanup" ELSE "exited"

\* Mutant: the receive loop leaves without asking the send loop to stop.
RecvReturn_Alone ==
  /\ rcvReqStop' = TRUE /\ rcvDone' = TRUE
  /\ cleanupOnExit
  /\ UNCHANGED <<sndReqStop, asapHelper, after>>

\* The deferred function of the receive loop.  The send loop is not asked to
\* stop when there is an AsapHelper to wait for.
RecvReturn ==
  /\ rcvReqStop' = TRUE /\ rcvDone' = TRUE
  /\ cleanupOnExit
  /\ sndReqStop' = (sndReqStop \/ ~asapHelper)
  /\ UNCHANGED <<asapHelper, after>>

\* The first half of ack, up to the test whether SendAck is full.
\* `next` is what the loop does afterwards.
BeginAck(next) ==
  /\ made < MaxAcks
  /\ made' = made + 1
  /\ rcv' = IF Len(SendAck) = AckCap THEN "discard" ELSE "put"
  /\ after' = next
  /\ UNCHANGED <<SendAck, sent>>

\* Mutant: a full channel loses the newest of its acks.
Discard_Newest ==
  /\ rcv = "discard" /\ SendAck # <<>>
  /\ SendAck' = SubSeq(SendAck, 1, Len(SendAck) - 1)
  /\ rcv' = "put"
  /\ UNCHANGED <<sndVars, rcvReqStop, rcvDone, after, asapHelper, made, sent,
                 sessDone, call, left>>

\* ack makes room by taking the oldest ack out of the full channel.  The send
\* loop may have emptied it since the test.
Discard ==
  /\ rcv = "discard" /\ SendAck # <<>>
  /\ SendAck' = Tail(SendAck)
  /\ rcv' = "put"
  /\ UNCHANGED <<sndVars, rcvReqStop, rcvDone, after, asapHelper, made, sent,
                 sessDone, call, left>>

\* The second half of ack.  There is room, so its timeout does not run out;
\* a closed ReqStop may be chosen instead, and then the ack is dropped.
Put ==
  /\ rcv = "put"
  /\ \/ Len(SendAck) < AckCap /\ SendAck' = Append(SendAck, made)
     \/ rcvReqStop /\ UNCHANGED SendAck
  /\ \/ /\ after = "return" /\ RecvReturn
        /\ UNCHANGED <<snd, window, call>>
     \/ /\ after # "return" /\ rcv' = "select" /\ after' = "select"
        /\ IF after = "read" THEN Moves("Read", "reply", "idle") ELSE UNCHANGED call
        /\ UNCHANGED <<sndVars, rcvReqStop, rcvDone, asapHelper>>
  /\ UNCHANGED <<made, sent, sessDone, left>>

-----------------------------------------------------------------------------
(* The receive loop at its select *)

\* The loop goes to a place without making an ack.
RecvAt(place) ==
  /\ rcv = "select" /\ rcv' = place
  /\ UNCHANGED <<sndVars, rcvReqStop, rcvDone, after, asapHelper, ackVars, sessDone, left>>

\* The keepAlive timer; a packet that is for this session and not corrupt.
\* An installed AsapHelper is offered the packet for 100 ms, to no effect.
RecvKeepAlive == RecvAt("keepAlive") /\ UNCHANGED call
RecvMsg == RecvAt("gotPack") /\ UNCHANGED call

RecvTakesClosing ==
  /\ call["Close"] = "offer"
  /\ RecvAt("closing") /\ Moves("Close", "offer", "reply")

\* A Connect in state Listen or SynSent is handed over; in another state, or
\* for another remote, it is answered at once.
RecvTakesConnect ==
  /\ call["Connect"] = "offer"
  /\ \/ RecvAt("syn") /\ Moves("Connect", "offer", "reply")
     \/ RecvAt("select") /\ Moves("Connect", "offer", "idle")

\* AsapHelper.Stop waits for Done likewise.
StopAsapHelper == rcv' = IF asapHelper THEN "asapStop" ELSE "select"

\* An AsapHelper that is already installed is stopped first.
RecvTakesAsap ==
  /\ call["RegisterAsap"] = "offer"
  /\ rcv = "select"
  /\ StopAsapHelper
  /\ asapHelper' = TRUE
  /\ Moves("RegisterAsap", "offer", "idle")
  /\ UNCHANGED <<sndVars, rcvReqStop, rcvDone, after, ackVars, sessDone, left>>

\* A ReadRequest is answered at once when there is nothing to deliver, or when
\* no packet of the delivery was consumed to its end.
RecvTakesRead ==
  /\ call["Read"] = "offer"
  /\ rcv = "select"
  /\ \/ /\ BeginAck("read") /\ Moves("Read", "offer", "reply")
        /\ UNCHANGED <<sndVars, rcvReqStop, rcvDone, asapHelper, sessDone, left>>
     \/ RecvAt("select") /\ Moves("Read", "offer", "idle")

\* A client receives a delivery from ReadMessagesCh, or retryCheck repeats the
\* action of a state.
RecvAcks ==
  /\ rcv = "select"
  /\ BeginAck("select")
  /\ UNCHANGED <<sndVars, rcvReqStop, rcvDone, asapHelper, sessDone, call, left>>

\* retryCheck gives up.
RecvGivesUp ==
  /\ rcv = "select" /\ rcvReqStop' = TRUE
  /\ UNCHANGED <<sndVars, rcv, rcvDone, after, asapHelper, ackVars, sessDone, call, left>>

\* ReqStop ends the select and every hand-over; SenderShutdown, which the send
\* loop closes when it exits, ends only the select.
RecvStops ==
  /\ \/ rcv = "select" /\ (rcvReqStop \/ snd = "exited")
     \/ rcv \in HandOvers /\ rcvReqStop
  /\ RecvReturn
  /\ UNCHANGED <<snd, window, ackVars, sessDone, call, left>>

-----------------------------------------------------------------------------
(* The send loop *)

\* Its deferred function.
SendReturn ==
  /\ snd' = "exited" /\ sndReqStop' = TRUE /\ sessDone' = TRUE
  /\ UNCHANGED window

SendTakesKeepAlive ==
  /\ snd = "select" /\ rcv = "keepAlive" /\ rcv' = "select"
  /\ UNCHANGED <<sndVars, rcvReqStop, rcvDone, after, asapHelper, ackVars, sessDone, call, left>>

SendTakesClosing ==
  /\ snd = "select" /\ rcv = "closing" /\ rcv' = "select"
  /\ Moves("Close", "reply", "idle")
  /\ UNCHANGED <<sndVars, rcvReqStop, rcvDone, after, asapHelper, ackVars, sessDone, left>>

\* The Syn is sent; an error answers the Connect.
SendTakesSyn ==
  /\ snd = "select" /\ rcv = "syn" /\ rcv' = "select"
  /\ UNCHANGED call \/ Moves("Connect", "reply", "idle")
  /\ UNCHANGED <<sndVars, rcvReqStop, rcvDone, after, asapHelper, ackVars, sessDone, left>>

\* The send loop takes the flow control of a packet, and the receive loop does
\* the rest of its work: it may make an ack, answer a Connect before it, and
\* return when the session has reached Closed.
SendTakesPack ==
  /\ snd = "select" /\ rcv = "gotPack"
  /\ window' \in BOOLEAN
  /\ \/ /\ rcv' = "select" /\ UNCHANGED <<sndReqStop, rcvReqStop, rcvDone, after, asapHelper,
                                          ackVars, call>>
     \/ /\ \E next \in {"select", "return"} : BeginAck(next)
        /\ UNCHANGED call \/ Moves("Connect", "reply", "idle")
        /\ UNCHANGED <<sndReqStop, rcvReqStop, rcvDone, asapHelper>>
     \/ RecvReturn /\ UNCHANGED <<ackVars, call>>
  /\ UNCHANGED <<snd, sessDone, left>>

\* Push: the packet is accepted.  After its last packet Write waits for the ack.
SendAcceptsPush ==
  /\ snd = "select" /\ window
  /\ left > 0 /\ left' = left - 1
  /\ IF left = 1 THEN Moves("Write", "offer", "wait") ELSE UNCHANGED call
  /\ window' \in BOOLEAN
  /\ UNCHANGED <<snd, sndReqStop, rcvVars, ackVars, sessDone>>

\* An ack is sent; an error of Net.Send ends the loop.
SendsAck ==
  /\ snd = "select" /\ SendAck # <<>>
  /\ SendAck' = Tail(SendAck)
  /\ \/ sent' = Head(SendAck) /\ UNCHANGED <<sndVars, sessDone>>
     \/ UNCHANGED sent /\ SendReturn
  /\ UNCHANGED <<rcvVars, made, call, left>>

\* regularIntervalWakeup: nothing was heard from the other end for too long.
SendGivesUp ==
  /\ snd = "select" /\ SendReturn
  /\ UNCHANGED <<rcvVars, ackVars, call, left>>

SendStops ==
  /\ snd = "select" /\ sndReqStop /\ SendReturn
  /\ UNCHANGED <<rcvVars, ackVars, call, left>>

-----------------------------------------------------------------------------
(* The clients *)

\* A call begins.  Stop first closes the receive loop's ReqStop, and Write cuts
\* its payload into packets.
Begins(c) ==
  /\ call[c] = "idle"
  /\ call' = [call EXCEPT ![c] = IF c = "Stop" THEN "waitRecv" ELSE "offer"]
  /\ left' = IF c = "Write" THEN Packets ELSE left
  /\ rcvReqStop' = (rcvReqStop \/ c = "Stop")
  /\ UNCHANGED <<sndVars, rcv, rcvDone, after, asapHelper, ackVars, sessDone>>

\* Stop waits for the receive loop (RecvState.Stop) ...
StopRecver ==
  /\ call["Stop"] = "waitRecv" /\ rcvDone
  /\ sndReqStop' = TRUE /\ Moves("Stop", "waitRecv", "waitSend")
  /\ UNCHANGED <<snd, window, rcvVars, ackVars, sessDone, left>>

\* ... then stops and waits for the send loop (SenderState.Stop).
StopSender ==
  /\ call["Stop"] = "waitSend" /\ snd = "exited"
  /\ sessDone' = TRUE /\ Moves("Stop", "waitSend", "returned")
  /\ UNCHANGED <<sndVars, rcvVars, ackVars, left>>

StopWaits == StopRecver \/ StopSender

\* Client c, at one of the steps `at`, returns without an answer.
Returns(c, at) ==
  /\ call[c] \in at
  /\ call' = [call EXCEPT ![c] = "idle"]
  /\ UNCHANGED <<sndVars, rcvVars, ackVars, sessDone, left>>

\* Close and every attempt of Connect have a timeout.
CloseGivesUp == Returns("Close", {"offer", "reply"})
ConnectGivesUp == Returns("Connect", {"offer", "reply"})

\* Mutant: Read watches the session only until its request is taken.
ReadGivesUp_Offer == sessDone /\ Returns("Read", {"offer"})

ReadGivesUp == sessDone /\ Returns("Read", {"offer", "reply"})

\* Push drops its packet when the send loop is to stop, and so does every later
\* Push of the Write.
PushGivesUp ==
  /\ sndReqStop /\ call["Write"] = "offer"
  /\ Moves("Write", "offer", "wait") /\ left' = 0
  /\ UNCHANGED <<sndVars, rcvVars, ackVars, sessDone>>

\* The ack of the last packet, a timeout or the end of the session.
WriteReturns == Returns("Write", {"wait"})

-----------------------------------------------------------------------------

RecvTakes == RecvTakesClosing \/ RecvTakesConnect \/ RecvTakesAsap \/ RecvTakesRead

HandsOver == SendTakesKeepAlive \/ SendTakesClosing \/ SendTakesSyn \/ SendTakesPack

Next ==
  \/ Discard \/ Put
  \/ RecvKeepAlive \/ RecvMsg \/ RecvTakes \/ RecvAcks \/ RecvGivesUp \/ RecvStops
  \/ HandsOver \/ SendAcceptsPush \/ SendsAck \/ SendGivesUp \/ SendStops
  \/ StopWaits
  \/ \E c \in Calls : Begins(c)
  \/ CloseGivesUp \/ ConnectGivesUp \/ ReadGivesUp \/ PushGivesUp \/ WriteReturns

Spec == Init /\ [][Next]_vars

\* A goroutine that can go on does.  Among the cases of a select that are ready
\* the runtime chooses at random, so none is passed over for ever.
Fairness ==
  /\ WF_vars(Discard \/ Put)
  /\ WF_vars(HandsOver)
  /\ WF_vars(SendStops)
  /\ SF_vars(SendAcceptsPush)
  /\ SF_vars(RecvStops)
  /\ SF_vars(RecvTakesRead) /\ SF_vars(RecvTakesAsap)
  /\ WF_vars(StopWaits)
  /\ WF_vars(CloseGivesUp) /\ WF_vars(ConnectGivesUp)
  /\ WF_vars(ReadGivesUp) /\ WF_vars(PushGivesUp) /\ WF_vars(WriteReturns)

FairSpec == Spec /\ Fairness

-----------------------------------------------------------------------------
(* Properties *)

TypeOK ==
  /\ snd \in {"select", "exited"}
  /\ rcv \in {"select", "discard", "put", "asapStop", "cleanup", "exited"} \cup HandOvers
  /\ after \in {"select", "read", "return"}
  /\ {sndReqStop, window, rcvReqStop, rcvDone, asapHelper, sessDone} \subseteq BOOLEAN
  /\ SendAck \in Seq(1 .. MaxAcks) /\ Len(SendAck) <= AckCap
  /\ made \in 0 .. MaxAcks /\ sent \in 0 .. MaxAcks
  /\ call \in [Calls -> {"none", "idle", "offer", "reply", "wait", "waitRecv", "waitSend", "returned"}]
  /\ left \in 0 .. Packets

\* The receive loop waits for an ack in a channel that only it fills.
Drained == rcv = "discard" /\ SendAck = <<>>

\* The receive loop waits for something no goroutine will ever do.
Wedged == Drained \/ rcv = "asapStop"

\* The receive loop hands something to a send loop that is gone.
Abandoned == rcv \in HandOvers /\ snd = "exited"

\* Acks are sent in the order they were made, and a full channel loses only its
\* oldest (ack, recv.go): while nothing is stopping, SendAck holds the newest
\* acks, without a gap, so the window announced last is the one sent last.
NewestAckSurvives ==
  LET last == IF rcv \in {"discard", "put"} THEN made - 1 ELSE made
      n == Len(SendAck)
  IN  /\ (~rcvReqStop => SendAck = [i \in 1 .. n |-> last - n + i])
      /\ (n = 0 /\ ~rcvReqStop /\ snd = "select" /\ rcv # "put" => sent = last)
      /\ (n > 0 => sent < Head(SendAck))
      /\ (rcv = "put" => n < AckCap)

\* A loop that ends takes the other with it (SenderShutdown, and the deferred
\* functions of both), unless the receive loop is wedged, is handing over, or
\* has an AsapHelper to stop.
LoopsEndTogether ==
  /\ snd = "exited" ~> rcvDone \/ Wedged \/ Abandoned
  /\ rcvDone ~> snd = "exited" \/ rcv = "cleanup"

\* Session.Stop (swp.go) returns, with both loops gone, unless the receive loop
\* is wedged; a hand-over does not keep it.  Read returns once the session is
\* done, even with the receive loop wedged, and the Pushes of a Write end, unless
\* the window of a running session is closed.
CallsReturn ==
  /\ call["Stop"] = "waitRecv" ~> call["Stop"] = "returned" \/ Wedged
  /\ call["Read"] \in {"offer", "reply"} /\ sessDone ~> call["Read"] = "idle"
  /\ call["Write"] = "offer" ~> call["Write"] = "wait" \/ (~window /\ snd = "select")

\* "buffered so we don't deadlock" (sender.go, SendAck): ack always gets its
\* packet into the channel.
AckNeverBlocks == ~Drained
=============================================================================
