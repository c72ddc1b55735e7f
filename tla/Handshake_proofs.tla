-------------------------- MODULE Handshake_proofs --------------------------
(***************************************************************************)
(* Proofs about Handshake, for any number of sessions, retries and packets *)
(* in transit: a session binds to one remote session for good, established *)
(* sessions agree with their peers, and the retry timer is harmless.       *)
(***************************************************************************)
EXTENDS Handshake, TLAPS

(***************************************************************************)
(* The inductive invariant.                                                *)
(***************************************************************************)
Attempts == 0 .. MaxAttempts

\* The values of tcpRetryLogic.
RetryType ==
  [inUse : {FALSE}, count : Attempts]
    \cup [inUse : {TRUE}, curState : States, act : {"SendSynAck", "SendEstabAck"},
          causal : Packet, count : Attempts]

RetryOK == retry \in [Endpoint -> RetryType]

\* What the state of the state machine says of the nonces and the request.
StateInv(e) ==
  /\ TcpState[e] \in {"Listen", "SynSent"} => RemoteSessNonce[e] = 0 /\ ~retry[e].inUse
  /\ TcpState[e] = "SynSent" => connReqPending[e] # "none"
  /\ running[e] = "up" =>
       /\ TcpState[e] \in {"Listen", "SynSent", "SynReceived", "Established"}
       /\ TcpState[e] = "SynReceived" => RemoteSessNonce[e] # 0
  /\ sndRemoteNonce[e] \in {0, RemoteSessNonce[e]}
  /\ RemoteSessNonce[e] <= LocalSessNonce[Other(e)]

\* A retry repeats the answer to the Syn that bound the session.
RetryInv(e) ==
  running[e] = "up" /\ retry[e].inUse =>
    /\ TcpState[e] = "SynReceived" /\ retry[e].curState = "SynReceived"
    /\ retry[e].causal.from = RemoteSessNonce[e]
    /\ retry[e].act = "SendEstabAck" => retry[e].causal.event = "Syn"

\* The events that are only ever sent to a session.
Addressed == {"SynAck", "EstabAck", "KeepAlive"}

\* What the current session of o has sent with a remote nonce names the session
\* it is bound to.
Bound(p) ==
  LET o == Other(p.dest)
  IN  /\ p.from \in 1 .. LocalSessNonce[o]
      /\ p.event \in Addressed => p.to # 0
      /\ p.to # 0 /\ p.from = LocalSessNonce[o] => RemoteSessNonce[o] = p.to

\* The session e is established with is bound to e's.
Agrees(e) ==
  TcpState[e] = "Established" /\ LocalSessNonce[Other(e)] = RemoteSessNonce[e]
    => RemoteSessNonce[Other(e)] = LocalSessNonce[e]

\* A session that has panicked did so in one of the two ways NoPanic names.
PanicInv(e) ==
  running[e] = "panicked" => SimultaneousOpen(e) \/ connReqPending[e] = "done"

HandshakeInv ==
  /\ TypeOK /\ RetryOK
  /\ \A e \in Endpoint : StateInv(e) /\ RetryInv(e) /\ Agrees(e) /\ PanicInv(e)
  /\ \A p \in net : Bound(p)

-----------------------------------------------------------------------------
(* Facts about the operators *)

\* A session has two endpoints, each the other's peer.
LEMMA OtherFacts ==
  ASSUME NEW e \in Endpoint
  PROVE  /\ Other(e) \in Endpoint /\ Other(e) # e /\ Other(Other(e)) = e
         /\ \A f \in Endpoint : f = e \/ f = Other(e)
BY HandshakeAssumption DEF Endpoint, Other

\* Sending adds nothing to the network but the packets sent.
LEMMA TransmitFacts ==
  ASSUME NEW gone, NEW out, Transmit(gone, out)
  PROVE  net' \subseteq net \cup out
BY Zenon DEF Transmit

\* The fields of a row.
LEMMA RowFields ==
  \A s, ev, post, act : LET r == Row(s, ev, post, act)
                        IN  r.pre = s /\ r.event = ev /\ r.post = post /\ r.act = act
BY Zenon DEF Row

\* The rows UpdateTcp takes in the states a running session is in.
Outcome(r, s, ev) ==
  \/ r = Row(s, ev, s, "NoAction")
  \/ s = "Established" /\ r = Row(s, ev, s, "SendDataAck")
  \/ s = "Listen" /\ r = Row(s, ev, "SynReceived", "SendSynAck")
  \/ s = "SynReceived" /\ r = Row(s, ev, "Established", "NoAction")
       /\ ev \in {"EstabAck", "KeepAlive"}
  \/ s = "SynSent" /\ r = Row(s, ev, "Established", "SendEstabAck") /\ ev = "SynAck"
  \/ s = "SynSent" /\ r = Row(s, ev, "SynReceived", "SendEstabAck") /\ ev = "Syn"
  \/ r.act = "DoAppClose" /\ r.post = "CloseResponderGotFin"

LEMMA UpdateTcpFacts ==
  ASSUME NEW s \in {"Listen", "SynSent", "SynReceived", "Established"},
         NEW ev \in Events, NEW f
  PROVE  Outcome(UpdateTcp(s, ev, f), s, ev)
<1>1. CASE s = "SynReceived" /\ ev = "KeepAlive" /\ f \in KeepAliveFrom
  BY <1>1, Zenon DEF UpdateTcp, Outcome
<1>2. CASE ~(s = "SynReceived" /\ ev = "KeepAlive" /\ f \in KeepAliveFrom)
           /\ \E q \in Table : q.pre = s /\ q.event = ev
  <2>1. UpdateTcp(s, ev, f) = CHOOSE q \in Table : q.pre = s /\ q.event = ev
    BY <1>2, Zenon DEF UpdateTcp
  <2>2. PICK q \in Table : q = UpdateTcp(s, ev, f) /\ q.pre = s /\ q.event = ev
    BY <1>2, <2>1, Zenon
  <2>3. Outcome(q, s, ev)
    BY <2>2, RowFields DEF Table, Outcome, Events
  <2> QED
    BY <2>2, <2>3, Zenon
<1>3. CASE ~(s = "SynReceived" /\ ev = "KeepAlive" /\ f \in KeepAliveFrom)
           /\ ~\E q \in Table : q.pre = s /\ q.event = ev
  BY <1>3, Zenon DEF UpdateTcp, Outcome
<1> QED
  BY <1>1, <1>2, <1>3, Zenon

\* CloseResponderGotFin goes on to Closed.
LEMMA ClosedFacts ==
  ASSUME NEW f
  PROVE  UpdateTcp("CloseResponderGotFin", "ApplicationClosed", f).post = "Closed"
<1> DEFINE Fits(q) == q.pre = "CloseResponderGotFin" /\ q.event = "ApplicationClosed"
<1>1. \E q \in Table : Fits(q)
  <2>1. Row("CloseResponderGotFin", "ApplicationClosed", "Closed", "NoAction") \in Table
    BY Zenon DEF Table
  <2> QED
    BY <2>1, RowFields
<1>2. \A q \in Table : Fits(q) => q.post = "Closed"
  BY RowFields DEF Table
<1>3. UpdateTcp("CloseResponderGotFin", "ApplicationClosed", f) = CHOOSE q \in Table : Fits(q)
  BY <1>1, Zenon DEF UpdateTcp
<1> HIDE DEF Fits
<1> QED
  BY <1>1, <1>2, <1>3, Zenon

\* Every record of the retry logic is of its type, and has the fields it needs.
LEMMA RetryFields ==
  ASSUME RetryOK, NEW e \in Endpoint
  PROVE  /\ retry[e] \in RetryType
         /\ retry[e].inUse \in BOOLEAN /\ retry[e].count \in Attempts
         /\ retry[e].inUse => retry[e].causal \in Packet
         /\ Cancelled(retry[e]) \in RetryType /\ ~Cancelled(retry[e]).inUse
<1>1. retry[e] \in RetryType
  BY Zenon DEF RetryOK
<1>2. retry[e].inUse \in BOOLEAN /\ retry[e].count \in Attempts
  BY <1>1, Zenon DEF RetryType
<1>3. retry[e].inUse => retry[e].causal \in Packet
  BY <1>1, Zenon DEF RetryType
<1>4. Cancelled(retry[e]) \in RetryType /\ ~Cancelled(retry[e]).inUse
  BY <1>2, Zenon DEF Cancelled, RetryType
<1> QED
  BY <1>1, <1>2, <1>3, <1>4, Zenon

-----------------------------------------------------------------------------
(* Steps of one endpoint *)

\* Nothing of f changes.
Same(f) ==
  /\ running'[f] = running[f] /\ TcpState'[f] = TcpState[f]
  /\ RemoteSessNonce'[f] = RemoteSessNonce[f] /\ sndRemoteNonce'[f] = sndRemoteNonce[f]
  /\ connReqPending'[f] = connReqPending[f] /\ retry'[f] = retry[f]

\* A step keeps the invariant, and every session the session it is bound to.
Preserves ==
  /\ HandshakeInv'
  /\ \A f \in Endpoint : LocalSessNonce'[f] = LocalSessNonce[f] =>
       RemoteSessNonce[f] \in {0, RemoteSessNonce'[f]}

\* A step of e within its session: if e keeps the session it is bound to, only
\* what e holds itself and what it sends has to be looked at.
LEMMA LocalStep ==
  ASSUME HandshakeInv, TypeOK', RetryOK', NEW e \in Endpoint,
         LocalSessNonce' = LocalSessNonce, Same(Other(e)),
         RemoteSessNonce[e] \in {0, RemoteSessNonce'[e]},
         StateInv(e)', RetryInv(e)', Agrees(e)', PanicInv(e)',
         \A p \in net' : p \in net \/ Bound(p)'
  PROVE  Preserves
<1> DEFINE o == Other(e)
<1>1. o \in Endpoint /\ o # e /\ Other(o) = e /\ \A f \in Endpoint : f = e \/ f = o
  BY OtherFacts, Zenon
<1>2. StateInv(o) /\ RetryInv(o) /\ Agrees(o) /\ PanicInv(o)
  BY <1>1, Zenon DEF HandshakeInv
<1>3. LocalSessNonce[e] \in 1 .. MaxSessions /\ LocalSessNonce[o] \in 1 .. MaxSessions
  BY <1>1, Zenon DEF HandshakeInv, TypeOK
<1>4. StateInv(o)' /\ RetryInv(o)'
  BY <1>1, <1>2, Zenon DEF StateInv, RetryInv, Same
<1>5. PanicInv(o)'
  BY <1>2, Zenon DEF PanicInv, SimultaneousOpen, Same
<1>6. Agrees(o)'
  BY <1>1, <1>2, <1>3 DEF Agrees, Same
<1>7. ASSUME NEW p \in net, NEW q \in net', p = q PROVE Bound(p)'
  <2>1. Bound(p) /\ p.dest \in Endpoint
    BY Zenon DEF HandshakeInv, TypeOK, Packet
  <2>2. CASE p.dest = e
    BY <1>1, <2>1, <2>2, Zenon DEF Bound, Same
  <2>3. CASE p.dest = o
    BY <1>1, <2>1, <2>3, Zenon DEF Bound, Same
  <2> QED
    BY <1>1, <2>1, <2>2, <2>3, Zenon
<1>8. HandshakeInv'
  BY <1>1, <1>4, <1>5, <1>6, <1>7, Zenon DEF HandshakeInv
<1> QED
  BY <1>1, <1>8, Zenon DEF Preserves, Same

\* What e sends in its session is bound, if it names the session e is bound to.
LEMMA SentBound ==
  ASSUME TypeOK, NEW e \in Endpoint, LocalSessNonce' = LocalSessNonce, NEW p,
         p.dest = Other(e), p.from = LocalSessNonce[e], p.to \in {0, RemoteSessNonce'[e]},
         p.event \in Addressed => p.to # 0
  PROVE  Bound(p)'
BY OtherFacts DEF Bound, TypeOK

\* A step of e that only sends such a packet.
LEMMA SendStep ==
  ASSUME HandshakeInv, NEW e \in Endpoint, NEW p \in Packet, Transmit({}, {p}),
         UNCHANGED <<running, TcpState, LocalSessNonce, RemoteSessNonce, sndRemoteNonce,
                     connReqPending, retry>>,
         p.dest = Other(e), p.from = LocalSessNonce[e], p.to \in {0, RemoteSessNonce[e]},
         p.event \in Addressed => p.to # 0
  PROVE  Preserves
<1>1. net' \subseteq net \cup {p}
  BY TransmitFacts, Zenon
<1>2. TypeOK' /\ RetryOK'
  BY <1>1, Zenon DEF HandshakeInv, TypeOK, RetryOK
<1>3. \A q \in net' : q \in net \/ Bound(q)'
  BY <1>1, SentBound, Zenon DEF HandshakeInv
<1>4. StateInv(e)' /\ RetryInv(e)' /\ Agrees(e)' /\ PanicInv(e)'
  BY Zenon DEF HandshakeInv, StateInv, RetryInv, Agrees, PanicInv, SimultaneousOpen
<1>5. Same(Other(e)) /\ RemoteSessNonce[e] \in {0, RemoteSessNonce'[e]}
  BY Zenon DEF Same
<1> QED
  BY <1>2, <1>3, <1>4, <1>5, LocalStep, Zenon

\* The keep-alive names the session the sender has learned of.
LEMMA KeepAliveStep ==
  ASSUME HandshakeInv, NEW e \in Endpoint, KeepAlive(e)
  PROVE  Preserves
<1> DEFINE p == [dest |-> Other(e), event |-> "KeepAlive", from |-> LocalSessNonce[e],
                 to |-> sndRemoteNonce[e], state |-> TcpState[e]]
<1>1. p \in Packet
  BY OtherFacts DEF HandshakeInv, TypeOK, Packet, Nonce, Events
<1>2. p.to \in {0, RemoteSessNonce[e]}
  BY Zenon DEF HandshakeInv, StateInv
<1> QED
  BY <1>1, <1>2, SendStep, Zenon DEF KeepAlive, Addressed

\* So does the Fin of Close.
LEMMA CloseStep ==
  ASSUME HandshakeInv, NEW e \in Endpoint, Close(e)
  PROVE  Preserves
<1> DEFINE p == [dest |-> Other(e), event |-> "Fin", from |-> LocalSessNonce[e],
                 to |-> sndRemoteNonce[e], state |-> "Fresh"]
<1>1. p \in Packet
  BY OtherFacts DEF HandshakeInv, TypeOK, Packet, Nonce, Events, States
<1>2. p.to \in {0, RemoteSessNonce[e]}
  BY Zenon DEF HandshakeInv, StateInv
<1> QED
  BY <1>1, <1>2, SendStep, Zenon DEF Close, Addressed

\* Connect: the session becomes SynSent and sends a Syn, which names no session.
LEMMA ConnectStep ==
  ASSUME HandshakeInv, NEW e \in Endpoint, Connect(e)
  PROVE  Preserves
<1> DEFINE p == [dest |-> Other(e), event |-> "Syn", from |-> LocalSessNonce[e],
                 to |-> 0, state |-> "Fresh"]
<1>1. p \in Packet
  BY OtherFacts, HandshakeAssumption DEF HandshakeInv, TypeOK, Packet, Nonce, Events, States
<1>2. net' \subseteq net \cup {p}
  BY TransmitFacts, Zenon DEF Connect
<1>3. /\ TcpState' = [TcpState EXCEPT ![e] = "SynSent"]
      /\ connReqPending' \in {[connReqPending EXCEPT ![e] = "waiting"],
                              [connReqPending EXCEPT ![e] = "done"]}
      /\ TcpState[e] \in {"Listen", "SynSent"} /\ running[e] = "up"
      /\ UNCHANGED <<running, LocalSessNonce, RemoteSessNonce, sndRemoteNonce, retry>>
  BY Zenon DEF Connect
<1>4. TypeOK' /\ RetryOK'
  BY <1>1, <1>2, <1>3, Zenon DEF HandshakeInv, TypeOK, RetryOK, States
<1>5. \A q \in net' : q \in net \/ Bound(q)'
  BY <1>2, <1>3, SentBound, Zenon DEF HandshakeInv, Addressed
<1>6. TcpState'[e] = "SynSent" /\ connReqPending'[e] \in {"waiting", "done"}
  BY <1>3, Zenon DEF HandshakeInv, TypeOK
<1>7. StateInv(e)' /\ RetryInv(e)' /\ Agrees(e)' /\ PanicInv(e)'
  BY <1>3, <1>6, Zenon DEF HandshakeInv, StateInv, RetryInv, Agrees, PanicInv
<1>8. Same(Other(e)) /\ RemoteSessNonce[e] \in {0, RemoteSessNonce'[e]}
  BY <1>3, OtherFacts, Zenon DEF HandshakeInv, TypeOK, Same
<1> QED
  BY <1>3, <1>4, <1>5, <1>7, <1>8, LocalStep, Zenon

\* A session that stops asks nothing more of its state.
LEMMA StopStep ==
  ASSUME HandshakeInv, NEW e \in Endpoint, Stop(e)
  PROVE  Preserves
<1>1. /\ running' = [running EXCEPT ![e] = "stopped"]
      /\ UNCHANGED <<TcpState, LocalSessNonce, RemoteSessNonce, sndRemoteNonce,
                     connReqPending, retry, net>>
  BY Zenon DEF Stop
<1>2. TypeOK' /\ RetryOK' /\ running'[e] = "stopped"
  BY <1>1, Zenon DEF HandshakeInv, TypeOK, RetryOK
<1>3. StateInv(e)' /\ RetryInv(e)' /\ Agrees(e)' /\ PanicInv(e)'
  BY <1>1, <1>2, Zenon DEF HandshakeInv, StateInv, RetryInv, Agrees, PanicInv
<1>4. Same(Other(e)) /\ RemoteSessNonce[e] \in {0, RemoteSessNonce'[e]}
  BY <1>1, OtherFacts, Zenon DEF HandshakeInv, TypeOK, Same
<1> QED
  BY <1>1, <1>2, <1>3, <1>4, LocalStep, Zenon

\* NewSession: the nonce is greater than any the peer is bound to or has sent
\* packets to, and no packet of the new session is in transit.
LEMMA NewSessionStep ==
  ASSUME HandshakeInv, NEW e \in Endpoint, NewSession(e)
  PROVE  Preserves
<1> DEFINE o == Other(e)
<1>1. o \in Endpoint /\ o # e /\ Other(o) = e /\ \A f \in Endpoint : f = e \/ f = o
  BY OtherFacts, Zenon
<1>2. LocalSessNonce[e] \in 1 .. MaxSessions /\ LocalSessNonce[e] < MaxSessions
      /\ MaxSessions \in Nat
  BY HandshakeAssumption, Zenon DEF HandshakeInv, TypeOK, NewSession
<1>3. LocalSessNonce[e] + 1 \in 1 .. MaxSessions
  BY <1>2
<1>4. NoRetry \in RetryType /\ ~NoRetry.inUse
  <2>1. 0 \in Attempts
    BY HandshakeAssumption DEF Attempts
  <2>2. NoRetry \in [inUse : {FALSE}, count : Attempts]
    BY <2>1, Zenon DEF NoRetry
  <2> QED
    BY <2>2, Zenon DEF RetryType
<1>5. TypeOK' /\ RetryOK'
  <2>1. RetryOK'
    BY <1>4, Zenon DEF NewSession, HandshakeInv, RetryOK
  <2>2. \A f \in Endpoint : retry'[f].inUse =>
          retry'[f].causal \in Packet /\ retry'[f].count \in 0 .. MaxAttempts
    BY <2>1, Zenon DEF RetryOK, RetryType, Attempts
  <2>3. 0 \in Nonce
    BY HandshakeAssumption DEF Nonce
  <2> QED
    BY <1>3, <2>1, <2>2, <2>3, Zenon DEF NewSession, HandshakeInv, TypeOK, States
<1>6. /\ running'[e] = "up" /\ TcpState'[e] = "Listen" /\ RemoteSessNonce'[e] = 0
      /\ sndRemoteNonce'[e] = 0 /\ retry'[e] = NoRetry
      /\ LocalSessNonce'[e] = LocalSessNonce[e] + 1
      /\ LocalSessNonce'[o] = LocalSessNonce[o] /\ Same(o) /\ net' = net
  BY <1>1, Zenon DEF NewSession, HandshakeInv, TypeOK, RetryOK, Same
<1>7. /\ LocalSessNonce[e] \in Nat /\ LocalSessNonce[o] \in Nat
      /\ RemoteSessNonce[o] \in Nat /\ RemoteSessNonce[o] <= LocalSessNonce[e]
  BY <1>1 DEF HandshakeInv, TypeOK, StateInv, Nonce
<1>8. StateInv(e)' /\ RetryInv(e)' /\ Agrees(e)' /\ PanicInv(e)'
  BY <1>4, <1>6, <1>7 DEF StateInv, RetryInv, Agrees, PanicInv
<1>9. StateInv(o)' /\ RetryInv(o)' /\ PanicInv(o)'
  <2>1. StateInv(o) /\ RetryInv(o) /\ PanicInv(o)
    BY <1>1, Zenon DEF HandshakeInv
  <2>2. RemoteSessNonce'[o] <= LocalSessNonce'[e]
    BY <1>6, <1>7 DEF Same
  <2> QED
    BY <1>1, <1>6, <2>1, <2>2, Zenon DEF StateInv, RetryInv, PanicInv, SimultaneousOpen, Same
<1>10. Agrees(o)'
  BY <1>1, <1>6, <1>7 DEF Agrees, Same
<1>11. \A p \in net' : Bound(p)'
  <2> SUFFICES ASSUME NEW p \in net PROVE Bound(p)'
    BY <1>6, Zenon
  <2>1. Bound(p) /\ p.dest \in Endpoint /\ p.from \in Int
    BY DEF HandshakeInv, TypeOK, Packet, Nonce
  <2>2. CASE p.dest = o
    BY <1>1, <1>6, <1>7, <2>1, <2>2 DEF Bound
  <2>3. CASE p.dest = e
    BY <1>1, <1>6, <1>7, <2>1, <2>3, Zenon DEF Bound, Same
  <2> QED
    BY <1>1, <2>1, <2>2, <2>3, Zenon
<1>12. LocalSessNonce'[e] # LocalSessNonce[e]
  BY <1>6, <1>7
<1>13. HandshakeInv'
  BY <1>1, <1>5, <1>8, <1>9, <1>10, <1>11, Zenon DEF HandshakeInv
<1> QED
  BY <1>1, <1>6, <1>12, <1>13, Zenon DEF Preserves, Same

-----------------------------------------------------------------------------
(* The receiver's loop *)

\* An answer of ack() is a packet.
LEMMA AckPacket ==
  ASSUME TypeOK, NEW e \in Endpoint, NEW ev \in Events, NEW remote \in Nonce
  PROVE  Ack(e, ev, remote) \in Packet
<1>1. LocalSessNonce[e] \in Nonce /\ "Fresh" \in States /\ Other(e) \in Endpoint
  BY OtherFacts DEF TypeOK, Nonce, States
<1> QED
  BY <1>1, Zenon DEF Ack, Packet

\* A dropped packet leaves the network.
LEMMA RecvOtherStep ==
  ASSUME HandshakeInv, NEW e \in Endpoint, NEW p \in net, RecvOther(e, p)
  PROVE  Preserves
<1>1. /\ UNCHANGED <<running, TcpState, LocalSessNonce, RemoteSessNonce, sndRemoteNonce,
                     connReqPending, retry>>
      /\ net' \subseteq net
  BY Zenon DEF RecvOther
<1>2. TypeOK' /\ RetryOK'
  BY <1>1, Zenon DEF HandshakeInv, TypeOK, RetryOK
<1>3. StateInv(e)' /\ RetryInv(e)' /\ Agrees(e)' /\ PanicInv(e)'
  BY <1>1, Zenon DEF HandshakeInv, StateInv, RetryInv, Agrees, PanicInv, SimultaneousOpen
<1>4. Same(Other(e)) /\ RemoteSessNonce[e] \in {0, RemoteSessNonce'[e]}
  BY <1>1, Zenon DEF Same
<1> QED
  BY <1>1, <1>2, <1>3, <1>4, LocalStep, Zenon

\* A Fin closes the session; the FinAck names the session it is bound to.
LEMMA RecvFinStep ==
  ASSUME HandshakeInv, NEW e \in Endpoint, NEW p \in net, RecvFin(e, p)
  PROVE  Preserves
<1> DEFINE a == Ack(e, "FinAck", RemoteSessNonce[e])
           snd == IF sndRemoteNonce[e] = 0 THEN RemoteSessNonce[e] ELSE sndRemoteNonce[e]
<1>1. /\ TcpState[e] \in {"Listen", "SynSent", "SynReceived", "Established"}
      /\ p \in Packet /\ p.event \in Events
  BY Zenon DEF RecvFin, HandshakeInv, StateInv, TypeOK, Packet
<1>2. UpdateTcp(UpdateTcp(TcpState[e], p.event, p.state).post, "ApplicationClosed", p.state).post
        = "Closed"
  BY <1>1, UpdateTcpFacts, RowFields, ClosedFacts DEF Outcome, RecvFin
<1>3. /\ running' = [running EXCEPT ![e] = "stopped"]
      /\ TcpState' = [TcpState EXCEPT ![e] = "Closed"]
      /\ retry' = [retry EXCEPT ![e] = Cancelled(retry[e])]
      /\ sndRemoteNonce' = [sndRemoteNonce EXCEPT ![e] = snd]
      /\ net' \subseteq net \cup {a}
      /\ UNCHANGED <<LocalSessNonce, RemoteSessNonce, connReqPending>>
  BY <1>2, TransmitFacts, Zenon DEF RecvFin, Learned
<1>4. a \in Packet
  BY AckPacket, Zenon DEF HandshakeInv, TypeOK, Events
<1>5. RetryOK' /\ retry'[e] = Cancelled(retry[e]) /\ ~retry'[e].inUse
  BY <1>3, RetryFields, Zenon DEF HandshakeInv, RetryOK
<1>6. TypeOK'
  <2>1. \A f \in Endpoint : retry'[f].inUse =>
          retry'[f].causal \in Packet /\ retry'[f].count \in 0 .. MaxAttempts
    BY <1>5, Zenon DEF RetryOK, RetryType, Attempts
  <2> QED
    BY <1>3, <1>4, <2>1, Zenon DEF HandshakeInv, TypeOK, States
<1>7. /\ running'[e] = "stopped" /\ TcpState'[e] = "Closed"
      /\ sndRemoteNonce'[e] \in {0, RemoteSessNonce[e]}
  BY <1>3, Zenon DEF HandshakeInv, TypeOK, StateInv
<1>8. StateInv(e)' /\ RetryInv(e)' /\ Agrees(e)' /\ PanicInv(e)'
  BY <1>3, <1>7, Zenon DEF HandshakeInv, StateInv, RetryInv, Agrees, PanicInv
<1>9. \A q \in net' : q \in net \/ Bound(q)'
  BY <1>3, SentBound, Zenon DEF HandshakeInv, Ack, Addressed
<1>10. Same(Other(e)) /\ RemoteSessNonce[e] \in {0, RemoteSessNonce'[e]}
  BY <1>3, OtherFacts, Zenon DEF HandshakeInv, TypeOK, RetryOK, Same
<1> QED
  BY <1>3, <1>5, <1>6, <1>8, <1>9, <1>10, LocalStep, Zenon

\* A reply of ack() to the session e is, or becomes, bound to.
LEMMA ReplyFacts ==
  ASSUME HandshakeInv, NEW e \in Endpoint, NEW ev \in Events, NEW remote \in Nonce, NEW gone,
         ReplyAs(e, ev, remote, gone), LocalSessNonce' = LocalSessNonce,
         RemoteSessNonce[e] \in {0, remote}, ev \in Addressed => remote # 0
  PROVE  /\ RemoteSessNonce' \in [Endpoint -> Nonce] /\ sndRemoteNonce' \in [Endpoint -> Nonce]
         /\ net' \subseteq Packet
         /\ RemoteSessNonce'[e] = remote /\ sndRemoteNonce'[e] = remote
         /\ RemoteSessNonce'[Other(e)] = RemoteSessNonce[Other(e)]
         /\ sndRemoteNonce'[Other(e)] = sndRemoteNonce[Other(e)]
         /\ \A q \in net' : q \in net \/ Bound(q)'
<1> DEFINE snd == IF sndRemoteNonce[e] = 0 THEN remote ELSE sndRemoteNonce[e]
<1>1. /\ RemoteSessNonce' = [RemoteSessNonce EXCEPT ![e] = remote]
      /\ sndRemoteNonce' = [sndRemoteNonce EXCEPT ![e] = snd]
      /\ net' \subseteq net \cup {Ack(e, ev, remote)}
  BY TransmitFacts, Zenon DEF ReplyAs, Learned
<1>2. snd = remote
  BY Zenon DEF HandshakeInv, StateInv
<1>3. /\ RemoteSessNonce \in [Endpoint -> Nonce] /\ sndRemoteNonce \in [Endpoint -> Nonce]
      /\ net \subseteq Packet /\ Ack(e, ev, remote) \in Packet
  BY AckPacket, Zenon DEF HandshakeInv, TypeOK
<1>4. Other(e) \in Endpoint /\ Other(e) # e
  BY OtherFacts, Zenon
<1>5. RemoteSessNonce'[e] = remote
  BY <1>1, <1>3, Zenon
<1>6. \A q \in net' : q \in net \/ Bound(q)'
  BY <1>1, <1>5, SentBound, Zenon DEF HandshakeInv, Ack
<1> QED
  BY <1>1, <1>2, <1>3, <1>4, <1>5, <1>6, Zenon

\* A step that changes retry at e only, to a value of its type, and does the
\* rest of TypeOK, keeps both.
LEMMA RetryTypeStep ==
  ASSUME HandshakeInv, NEW e \in Endpoint, NEW r \in RetryType,
         retry' = [retry EXCEPT ![e] = r]
  PROVE  /\ RetryOK' /\ retry'[e] = r /\ retry'[Other(e)] = retry[Other(e)]
         /\ \A f \in Endpoint : retry'[f].inUse =>
              retry'[f].causal \in Packet /\ retry'[f].count \in 0 .. MaxAttempts
<1>1. RetryOK' /\ retry'[e] = r /\ retry'[Other(e)] = retry[Other(e)]
  BY OtherFacts, Zenon DEF HandshakeInv, RetryOK
<1> QED
  BY <1>1, Zenon DEF RetryOK, RetryType, Attempts

\* Events that change nothing, but may be answered with a DataAck.
LEMMA RecvIdleStep ==
  ASSUME HandshakeInv, NEW e \in Endpoint, NEW p \in net, NEW gone, NEW r,
         running[e] = "up", Accepts(e, p),
         \/ r = Row(TcpState[e], p.event, TcpState[e], "NoAction")
         \/ r = Row(TcpState[e], p.event, TcpState[e], "SendDataAck"),
         TcpState' = [TcpState EXCEPT ![e] = r.post],
         retry' = [retry EXCEPT ![e] = setupRetry(e, r, p)],
         doTcpAction(e, r.act, p, gone), LocalSessNonce' = LocalSessNonce
  PROVE  Preserves
<1>1. r.pre = r.post /\ r.post = TcpState[e] /\ r.act \in {"NoAction", "SendDataAck"}
  BY RowFields
<1>2. UNCHANGED <<TcpState, retry>>
  BY <1>1, Zenon DEF HandshakeInv, TypeOK, RetryOK, setupRetry
<1>3. /\ UNCHANGED <<running, connReqPending>>
      /\ RemoteSessNonce' \in [Endpoint -> Nonce] /\ sndRemoteNonce' \in [Endpoint -> Nonce]
      /\ net' \subseteq Packet
      /\ RemoteSessNonce'[e] = RemoteSessNonce[e]
      /\ sndRemoteNonce'[e] \in {0, RemoteSessNonce[e]}
      /\ RemoteSessNonce'[Other(e)] = RemoteSessNonce[Other(e)]
      /\ sndRemoteNonce'[Other(e)] = sndRemoteNonce[Other(e)]
      /\ \A q \in net' : q \in net \/ Bound(q)'
  <2>1. CASE r.act = "NoAction"
    <3>1. net' \subseteq net /\ UNCHANGED <<running, RemoteSessNonce, sndRemoteNonce, connReqPending>>
      BY <2>1, TransmitFacts DEF doTcpAction, DoNoAction
    <3> QED
      BY <3>1, Zenon DEF HandshakeInv, TypeOK, StateInv
  <2>2. CASE r.act = "SendDataAck"
    <3>1. /\ ReplyAs(e, "DataAck", RemoteSessNonce[e], gone)
          /\ UNCHANGED <<running, connReqPending>>
      BY <2>2, Zenon DEF doTcpAction, DoSendDataAck
    <3>2. RemoteSessNonce[e] \in Nonce /\ "DataAck" \in Events
      BY Zenon DEF HandshakeInv, TypeOK, Events
    <3> QED
      BY <3>1, <3>2, ReplyFacts, Zenon DEF Addressed
  <2> QED
    BY <1>1, <2>1, <2>2, Zenon
<1>4. TypeOK' /\ RetryOK'
  BY <1>2, <1>3, Zenon DEF HandshakeInv, TypeOK, RetryOK
<1>5. StateInv(e)' /\ RetryInv(e)' /\ Agrees(e)' /\ PanicInv(e)'
  BY <1>2, <1>3 DEF HandshakeInv, StateInv, RetryInv, Agrees, PanicInv, SimultaneousOpen
<1>6. Same(Other(e)) /\ RemoteSessNonce[e] \in {0, RemoteSessNonce'[e]}
  BY <1>2, <1>3, Zenon DEF Same
<1> QED
  BY <1>3, <1>4, <1>5, <1>6, LocalStep, Zenon

\* A Syn in Listen: the session is bound to the sender's, and retries the SynAck.
LEMMA RecvSynStep ==
  ASSUME HandshakeInv, NEW e \in Endpoint, NEW p \in net, NEW gone, NEW r,
         running[e] = "up", p.dest = e, TcpState[e] = "Listen",
         r = Row("Listen", p.event, "SynReceived", "SendSynAck"),
         TcpState' = [TcpState EXCEPT ![e] = r.post],
         retry' = [retry EXCEPT ![e] = setupRetry(e, r, p)],
         doTcpAction(e, r.act, p, gone), LocalSessNonce' = LocalSessNonce
  PROVE  Preserves
<1> DEFINE t == [inUse |-> TRUE, curState |-> "SynReceived", act |-> "SendSynAck",
                 causal |-> p, count |-> retry[e].count]
<1>1. r.pre = "Listen" /\ r.post = "SynReceived" /\ r.act = "SendSynAck"
  BY RowFields
<1>2. p \in Packet /\ p.from \in Nonce /\ p.from # 0 /\ Bound(p) /\ RemoteSessNonce[e] = 0
  <2>1. p \in Packet /\ p.from \in Nonce /\ Bound(p) /\ RemoteSessNonce[e] = 0
    BY Zenon DEF HandshakeInv, TypeOK, Packet, StateInv
  <2>2. LocalSessNonce[Other(e)] \in Int
    BY OtherFacts DEF HandshakeInv, TypeOK
  <2> QED
    BY <2>1, <2>2 DEF Bound
<1>3. ReplyAs(e, "SynAck", p.from, gone) /\ UNCHANGED <<connReqPending>>
  BY <1>1, Zenon DEF doTcpAction, DoSendSynAck
<1>4. UNCHANGED running
  BY <1>1, <1>2, Zenon DEF doTcpAction, DoSendSynAck, HandshakeInv, TypeOK
<1>5. /\ RemoteSessNonce' \in [Endpoint -> Nonce] /\ sndRemoteNonce' \in [Endpoint -> Nonce]
      /\ net' \subseteq Packet
      /\ RemoteSessNonce'[e] = p.from /\ sndRemoteNonce'[e] = p.from
      /\ RemoteSessNonce'[Other(e)] = RemoteSessNonce[Other(e)]
      /\ sndRemoteNonce'[Other(e)] = sndRemoteNonce[Other(e)]
      /\ \A q \in net' : q \in net \/ Bound(q)'
  BY <1>2, <1>3, ReplyFacts, Zenon DEF Events
<1>6. t \in RetryType /\ setupRetry(e, r, p) = t
  <2>1. retry[e].count \in Attempts
    BY RetryFields, Zenon DEF HandshakeInv
  <2>2. t \in [inUse : {TRUE}, curState : States, act : {"SendSynAck", "SendEstabAck"},
               causal : Packet, count : Attempts]
    BY <1>2, <2>1, Zenon DEF States
  <2> QED
    BY <1>1, <2>2, Zenon DEF RetryType, setupRetry, isRetryState
<1>7. RetryOK' /\ retry'[e] = t /\ retry'[Other(e)] = retry[Other(e)]
      /\ \A f \in Endpoint : retry'[f].inUse =>
           retry'[f].causal \in Packet /\ retry'[f].count \in 0 .. MaxAttempts
  BY <1>6, RetryTypeStep, Zenon
<1>8. TypeOK' /\ TcpState'[e] = "SynReceived"
  BY <1>1, <1>3, <1>4, <1>5, <1>7, Zenon DEF HandshakeInv, TypeOK, States
<1>9. RemoteSessNonce'[e] # 0 /\ RemoteSessNonce'[e] <= LocalSessNonce[Other(e)]
  <2>1. LocalSessNonce[Other(e)] \in Int /\ p.from \in Int
    BY <1>2, OtherFacts DEF HandshakeInv, TypeOK, Nonce
  <2> QED
    BY <1>2, <1>5, <2>1 DEF Bound
<1>10. StateInv(e)' /\ RetryInv(e)' /\ Agrees(e)' /\ PanicInv(e)'
  BY <1>4, <1>5, <1>7, <1>8, <1>9 DEF StateInv, RetryInv, Agrees, PanicInv
<1>11. Same(Other(e)) /\ RemoteSessNonce[e] \in {0, RemoteSessNonce'[e]}
  BY <1>2, <1>3, <1>4, <1>5, <1>7, OtherFacts, Zenon DEF HandshakeInv, TypeOK, Same
<1> QED
  BY <1>5, <1>7, <1>8, <1>10, <1>11, LocalStep, Zenon

\* The EstabAck, or a keep-alive in its place: it comes from the session e is
\* bound to and is addressed to e's, so the two are bound to each other.
LEMMA EstablishStep ==
  ASSUME HandshakeInv, NEW e \in Endpoint, NEW p \in net, NEW gone, NEW r,
         running[e] = "up", p.dest = e, Accepts(e, p), TcpState[e] = "SynReceived",
         r = Row("SynReceived", p.event, "Established", "NoAction"), p.to # 0,
         TcpState' = [TcpState EXCEPT ![e] = r.post],
         retry' = [retry EXCEPT ![e] = setupRetry(e, r, p)],
         doTcpAction(e, r.act, p, gone), LocalSessNonce' = LocalSessNonce
  PROVE  Preserves
<1>1. r.pre = "SynReceived" /\ r.post = "Established" /\ r.act = "NoAction"
  BY RowFields
<1>2. net' \subseteq net /\ UNCHANGED <<running, RemoteSessNonce, sndRemoteNonce, connReqPending>>
  BY <1>1, TransmitFacts DEF doTcpAction, DoNoAction
<1>3. Cancelled(retry[e]) \in RetryType /\ ~Cancelled(retry[e]).inUse
      /\ setupRetry(e, r, p) = Cancelled(retry[e])
  BY <1>1, RetryFields, Zenon DEF HandshakeInv, setupRetry, isRetryState
<1>4. RetryOK' /\ ~retry'[e].inUse /\ retry'[Other(e)] = retry[Other(e)]
      /\ \A f \in Endpoint : retry'[f].inUse =>
           retry'[f].causal \in Packet /\ retry'[f].count \in 0 .. MaxAttempts
  BY <1>3, RetryTypeStep, Zenon
<1>5. TypeOK' /\ TcpState'[e] = "Established"
  BY <1>1, <1>2, <1>4, Zenon DEF HandshakeInv, TypeOK, States
<1>6. p.to = LocalSessNonce[e] /\ p.from = RemoteSessNonce[e] /\ Bound(p)
  BY Zenon DEF Accepts, HandshakeInv, StateInv
<1>7. StateInv(e)' /\ RetryInv(e)' /\ Agrees(e)' /\ PanicInv(e)'
  BY <1>2, <1>4, <1>5, <1>6, Zenon DEF HandshakeInv, StateInv, RetryInv, Agrees, PanicInv, Bound
<1>8. Same(Other(e)) /\ RemoteSessNonce[e] \in {0, RemoteSessNonce'[e]}
  BY <1>1, <1>2, <1>4, OtherFacts, Zenon DEF HandshakeInv, TypeOK, Same
<1> QED
  BY <1>2, <1>4, <1>5, <1>7, <1>8, LocalStep, Zenon

\* A SynAck or a Syn in SynSent.  The session is bound to the sender's, or
\* doTcpAction panics because the request was answered before.
LEMMA RecvSynSentStep ==
  ASSUME HandshakeInv, NEW e \in Endpoint, NEW p \in net, NEW gone, NEW r,
         running[e] = "up", p.dest = e, Accepts(e, p), TcpState[e] = "SynSent",
         \/ p.event = "SynAck" /\ r = Row("SynSent", p.event, "Established", "SendEstabAck")
         \/ p.event = "Syn" /\ r = Row("SynSent", p.event, "SynReceived", "SendEstabAck"),
         TcpState' = [TcpState EXCEPT ![e] = r.post],
         retry' = [retry EXCEPT ![e] = setupRetry(e, r, p)],
         doTcpAction(e, r.act, p, gone), LocalSessNonce' = LocalSessNonce
  PROVE  Preserves
<1> DEFINE t == [inUse |-> TRUE, curState |-> "SynReceived", act |-> "SendEstabAck",
                 causal |-> p, count |-> retry[e].count]
           u == setupRetry(e, r, p)
<1>1. /\ r.pre = "SynSent" /\ r.act = "SendEstabAck" /\ r.event = p.event
      /\ \/ p.event = "SynAck" /\ r.post = "Established"
         \/ p.event = "Syn" /\ r.post = "SynReceived"
  BY RowFields
<1>2. p \in Packet /\ p.from \in Nonce /\ p.from # 0 /\ Bound(p) /\ RemoteSessNonce[e] = 0
      /\ connReqPending[e] # "none" /\ sndRemoteNonce[e] = 0
  <2>1. p \in Packet /\ p.from \in Nonce /\ Bound(p) /\ RemoteSessNonce[e] = 0
        /\ connReqPending[e] # "none" /\ sndRemoteNonce[e] = 0
    BY DEF HandshakeInv, TypeOK, Packet, StateInv
  <2>2. LocalSessNonce[Other(e)] \in Int
    BY OtherFacts DEF HandshakeInv, TypeOK
  <2> QED
    BY <2>1, <2>2 DEF Bound
<1>3. /\ u \in RetryType
      /\ p.event = "SynAck" => ~u.inUse
      /\ p.event = "Syn" => u = t
  <2>1. retry[e].count \in Attempts
    BY RetryFields, Zenon DEF HandshakeInv
  <2>2. t \in [inUse : {TRUE}, curState : States, act : {"SendSynAck", "SendEstabAck"},
               causal : Packet, count : Attempts]
    BY <1>2, <2>1, Zenon DEF States
  <2>3. CASE p.event = "SynAck"
    BY <1>1, <2>3, RetryFields, Zenon DEF HandshakeInv, setupRetry, isRetryState
  <2>4. CASE p.event = "Syn"
    BY <1>1, <2>2, <2>4, Zenon DEF RetryType, setupRetry, isRetryState
  <2> QED
    BY <1>1, <2>3, <2>4, Zenon
<1>4. RetryOK' /\ retry'[e] = u /\ retry'[Other(e)] = retry[Other(e)]
      /\ \A f \in Endpoint : retry'[f].inUse =>
           retry'[f].causal \in Packet /\ retry'[f].count \in 0 .. MaxAttempts
  BY <1>3, RetryTypeStep, Zenon
<1> HIDE DEF u
<1>5. TcpState'[e] = r.post /\ TcpState' \in [Endpoint -> States]
      /\ TcpState'[Other(e)] = TcpState[Other(e)]
  BY <1>1, OtherFacts, Zenon DEF HandshakeInv, TypeOK, States
<1>6. CASE connReqPending[e] = "waiting"
  <2>1. /\ ReplyAs(e, "EstabAck", p.from, gone)
        /\ connReqPending' = [connReqPending EXCEPT ![e] = "none"]
        /\ UNCHANGED running
    BY <1>1, <1>2, <1>6, Zenon DEF doTcpAction, DoSendEstabAck
  <2>2. /\ RemoteSessNonce' \in [Endpoint -> Nonce] /\ sndRemoteNonce' \in [Endpoint -> Nonce]
        /\ net' \subseteq Packet
        /\ RemoteSessNonce'[e] = p.from /\ sndRemoteNonce'[e] = p.from
        /\ RemoteSessNonce'[Other(e)] = RemoteSessNonce[Other(e)]
        /\ sndRemoteNonce'[Other(e)] = sndRemoteNonce[Other(e)]
        /\ \A q \in net' : q \in net \/ Bound(q)'
    BY <1>2, <2>1, ReplyFacts, Zenon DEF Events
  <2>3. TypeOK'
    BY <1>4, <1>5, <2>1, <2>2, Zenon DEF HandshakeInv, TypeOK
  <2>4. RemoteSessNonce'[e] <= LocalSessNonce[Other(e)]
    <3>1. LocalSessNonce[Other(e)] \in Int /\ p.from \in Int
      BY <1>2, OtherFacts DEF HandshakeInv, TypeOK, Nonce
    <3> QED
      BY <1>2, <2>2, <3>1 DEF Bound
  <2>5. StateInv(e)' /\ PanicInv(e)'
    BY <1>1, <1>2, <1>4, <1>5, <2>1, <2>2, <2>4 DEF StateInv, PanicInv
  <2>6. RetryInv(e)'
    BY <1>1, <1>3, <1>4, <1>5, <2>2 DEF RetryInv
  <2>7. Agrees(e)'
    BY <1>1, <1>2, <1>5, <2>2 DEF Agrees, Bound, Accepts, Addressed
  <2>8. Same(Other(e))
    BY <1>4, <1>5, <2>1, <2>2, OtherFacts, Zenon DEF HandshakeInv, TypeOK, Same
  <2> QED
    BY <1>2, <1>4, <2>2, <2>3, <2>5, <2>6, <2>7, <2>8, LocalStep, Zenon
<1>7. CASE connReqPending[e] # "waiting"
  <2>1. /\ running' = [running EXCEPT ![e] = "panicked"] /\ net' \subseteq net
        /\ UNCHANGED <<RemoteSessNonce, sndRemoteNonce, connReqPending>>
    BY <1>1, <1>2, <1>7, TransmitFacts DEF doTcpAction, DoSendEstabAck
  <2>2. connReqPending[e] = "done" /\ LocalSessNonce[Other(e)] # 0
    BY <1>2, <1>7, OtherFacts DEF HandshakeInv, TypeOK
  <2>3. TypeOK' /\ running'[e] = "panicked"
    BY <1>4, <1>5, <2>1, Zenon DEF HandshakeInv, TypeOK
  <2>4. RemoteSessNonce[e] <= LocalSessNonce[Other(e)]
    BY Zenon DEF HandshakeInv, StateInv
  <2>5. StateInv(e)' /\ RetryInv(e)' /\ Agrees(e)' /\ PanicInv(e)'
    BY <1>1, <1>2, <1>5, <2>1, <2>2, <2>3, <2>4, Zenon
       DEF StateInv, RetryInv, Agrees, PanicInv
  <2>6. Same(Other(e))
    BY <1>4, <1>5, <2>1, OtherFacts, Zenon DEF HandshakeInv, TypeOK, Same
  <2> QED
    BY <1>2, <1>4, <2>1, <2>3, <2>5, <2>6, LocalStep, Zenon
<1> QED
  BY <1>6, <1>7, Zenon

\* Every packet that is not dropped and does not close the session.
LEMMA RecvEventStep ==
  ASSUME HandshakeInv, NEW e \in Endpoint, NEW p \in net, RecvEvent(e, p)
  PROVE  Preserves
<1> DEFINE r == UpdateTcp(TcpState[e], p.event, p.state)
<1>1. PICK gone \in Arrivals(p) : doTcpAction(e, r.act, p, gone)
  BY Zenon DEF RecvEvent
<1>2. /\ running[e] = "up" /\ p.dest = e /\ Accepts(e, p)
      /\ TcpState' = [TcpState EXCEPT ![e] = r.post]
      /\ retry' = [retry EXCEPT ![e] = setupRetry(e, r, p)]
      /\ LocalSessNonce' = LocalSessNonce
  BY Zenon DEF RecvEvent
<1>3. Outcome(r, TcpState[e], p.event) /\ Bound(p)
  BY <1>2, UpdateTcpFacts, Zenon DEF HandshakeInv, StateInv, TypeOK, Packet
<1> HIDE DEF r
<1>4. r.act # "DoAppClose"
  BY <1>1, Zenon DEF doTcpAction
<1>5. CASE \/ r = Row(TcpState[e], p.event, TcpState[e], "NoAction")
           \/ r = Row(TcpState[e], p.event, TcpState[e], "SendDataAck")
  BY <1>1, <1>2, <1>5, RecvIdleStep, Zenon
<1>6. CASE TcpState[e] = "Listen" /\ r = Row("Listen", p.event, "SynReceived", "SendSynAck")
  BY <1>1, <1>2, <1>6, RecvSynStep, Zenon
<1>7. CASE TcpState[e] = "SynReceived" /\ p.event \in {"EstabAck", "KeepAlive"}
           /\ r = Row("SynReceived", p.event, "Established", "NoAction")
  <2>1. p.to # 0
    BY <1>3, <1>7, Zenon DEF Bound, Addressed
  <2> QED
    BY <1>1, <1>2, <1>7, <2>1, EstablishStep, Zenon
<1>8. CASE TcpState[e] = "SynSent" /\
           (\/ p.event = "SynAck" /\ r = Row("SynSent", p.event, "Established", "SendEstabAck")
            \/ p.event = "Syn" /\ r = Row("SynSent", p.event, "SynReceived", "SendEstabAck"))
  BY <1>1, <1>2, <1>8, RecvSynSentStep, Zenon
<1> QED
  BY <1>3, <1>4, <1>5, <1>6, <1>7, <1>8, Zenon DEF Outcome

\* The retry timer: the SynAck is sent again to the session e is bound to; the
\* EstabAck of a simultaneous open panics; and after the last attempt e stops.
LEMMA RetryStep ==
  ASSUME HandshakeInv, NEW e \in Endpoint, retryCheck(e)
  PROVE  Preserves
<1> DEFINE q == retry[e]
           t == [q EXCEPT !.count = @ + 1]
<1>1. /\ running[e] = "up" /\ q.inUse /\ TcpState[e] = "SynReceived"
      /\ q.causal.from = RemoteSessNonce[e] /\ RemoteSessNonce[e] # 0
      /\ q.act = "SendEstabAck" => q.causal.event = "Syn"
      /\ q.curState = "SynReceived"
      /\ sndRemoteNonce[e] \in {0, RemoteSessNonce[e]}
      /\ RemoteSessNonce[e] <= LocalSessNonce[Other(e)]
      /\ UNCHANGED <<TcpState, LocalSessNonce>>
  BY Zenon DEF retryCheck, HandshakeInv, RetryInv, StateInv
<1>2. q \in RetryType /\ q.count \in Attempts /\ Cancelled(q) \in RetryType /\ ~Cancelled(q).inUse
  BY RetryFields, Zenon DEF HandshakeInv
<1>3. q \in [inUse : {TRUE}, curState : States, act : {"SendSynAck", "SendEstabAck"},
             causal : Packet, count : Attempts]
  BY <1>1, <1>2, Zenon DEF RetryType
<1>4. CASE GivesUp(e)
  <2>1. /\ retry' = [retry EXCEPT ![e] = Cancelled(q)]
        /\ running' = [running EXCEPT ![e] = "stopped"]
        /\ UNCHANGED <<RemoteSessNonce, sndRemoteNonce, connReqPending, net>>
    BY <1>4, Zenon DEF retryCheck
  <2>2. RetryOK' /\ retry'[e] = Cancelled(q) /\ retry'[Other(e)] = retry[Other(e)]
        /\ \A f \in Endpoint : retry'[f].inUse =>
             retry'[f].causal \in Packet /\ retry'[f].count \in 0 .. MaxAttempts
    BY <1>2, <2>1, RetryTypeStep, Zenon
  <2>3. TypeOK' /\ running'[e] = "stopped"
    BY <1>1, <2>1, <2>2, Zenon DEF HandshakeInv, TypeOK
  <2>4. StateInv(e)' /\ RetryInv(e)' /\ Agrees(e)' /\ PanicInv(e)'
    BY <1>1, <2>1, <2>3, Zenon DEF StateInv, RetryInv, Agrees, PanicInv
  <2>5. Same(Other(e)) /\ RemoteSessNonce[e] \in {0, RemoteSessNonce'[e]}
    BY <1>1, <2>1, <2>2, OtherFacts, Zenon DEF HandshakeInv, TypeOK, Same
  <2> QED
    BY <1>1, <2>1, <2>2, <2>3, <2>4, <2>5, LocalStep, Zenon
<1>5. CASE ~GivesUp(e)
  <2>1. retry' = [retry EXCEPT ![e] = t] /\ doTcpAction(e, q.act, q.causal, {})
    BY <1>5, Zenon DEF retryCheck
  <2>2. q.count + 1 \in Attempts
    BY <1>2, <1>5, HandshakeAssumption DEF GivesUp, Attempts
  <2>3. /\ t \in [inUse : {TRUE}, curState : States, act : {"SendSynAck", "SendEstabAck"},
                  causal : Packet, count : Attempts]
        /\ t.inUse /\ t.curState = q.curState /\ t.act = q.act /\ t.causal = q.causal
    BY <1>3, <2>2, Zenon
  <2>4. RetryOK' /\ retry'[e] = t /\ retry'[Other(e)] = retry[Other(e)]
        /\ \A f \in Endpoint : retry'[f].inUse =>
             retry'[f].causal \in Packet /\ retry'[f].count \in 0 .. MaxAttempts
    BY <2>1, <2>3, RetryTypeStep, Zenon DEF RetryType
  <2> HIDE DEF t
  <2>5. CASE q.act = "SendSynAck"
    <3>1. /\ ReplyAs(e, "SynAck", RemoteSessNonce[e], {})
          /\ running' = [running EXCEPT ![e] = @] /\ UNCHANGED connReqPending
      BY <1>1, <2>1, <2>5, Zenon DEF doTcpAction, DoSendSynAck
    <3>2. UNCHANGED running /\ RemoteSessNonce[e] \in Nonce
      BY <3>1, Zenon DEF HandshakeInv, TypeOK
    <3>3. /\ RemoteSessNonce' \in [Endpoint -> Nonce] /\ sndRemoteNonce' \in [Endpoint -> Nonce]
          /\ net' \subseteq Packet
          /\ RemoteSessNonce'[e] = RemoteSessNonce[e] /\ sndRemoteNonce'[e] = RemoteSessNonce[e]
          /\ RemoteSessNonce'[Other(e)] = RemoteSessNonce[Other(e)]
          /\ sndRemoteNonce'[Other(e)] = sndRemoteNonce[Other(e)]
          /\ \A x \in net' : x \in net \/ Bound(x)'
      BY <1>1, <3>1, <3>2, ReplyFacts, Zenon DEF Events
    <3>4. TypeOK'
      BY <1>1, <2>4, <3>1, <3>2, <3>3, Zenon DEF HandshakeInv, TypeOK
    <3>5. StateInv(e)' /\ RetryInv(e)' /\ Agrees(e)' /\ PanicInv(e)'
      BY <1>1, <2>3, <2>4, <2>5, <3>2, <3>3 DEF StateInv, RetryInv, Agrees, PanicInv
    <3>6. Same(Other(e)) /\ RemoteSessNonce[e] \in {0, RemoteSessNonce'[e]}
      BY <1>1, <2>4, <3>1, <3>2, <3>3, Zenon DEF Same
    <3> QED
      BY <1>1, <2>4, <3>3, <3>4, <3>5, <3>6, LocalStep, Zenon
  <2>6. CASE q.act = "SendEstabAck"
    <3>1. /\ running' = [running EXCEPT ![e] = "panicked"] /\ net' \subseteq net
          /\ UNCHANGED <<RemoteSessNonce, sndRemoteNonce, connReqPending>>
      BY <1>1, <2>1, <2>6, TransmitFacts DEF doTcpAction, DoSendEstabAck
    <3>2. TypeOK' /\ running'[e] = "panicked"
      BY <1>1, <2>4, <3>1, Zenon DEF HandshakeInv, TypeOK
    <3>3. StateInv(e)' /\ RetryInv(e)' /\ Agrees(e)'
      BY <1>1, <3>1, <3>2, Zenon DEF StateInv, RetryInv, Agrees
    <3>4. PanicInv(e)'
      BY <1>1, <2>3, <2>4, <2>6, Zenon DEF PanicInv, SimultaneousOpen
    <3>5. Same(Other(e)) /\ RemoteSessNonce[e] \in {0, RemoteSessNonce'[e]}
      BY <1>1, <2>4, <3>1, OtherFacts, Zenon DEF HandshakeInv, TypeOK, Same
    <3> QED
      BY <1>1, <2>4, <3>1, <3>2, <3>3, <3>4, <3>5, LocalStep, Zenon
  <2> QED
    BY <1>3, <2>5, <2>6, Zenon
<1> QED
  BY <1>4, <1>5, Zenon

-----------------------------------------------------------------------------
(* The properties *)

\* The invariant holds of two endpoints that have just started to listen.
LEMMA HandshakeInit == Init => HandshakeInv
<1> SUFFICES ASSUME Init PROVE HandshakeInv
  BY Zenon
<1>1. 0 \in Nonce /\ 1 \in 1 .. MaxSessions /\ 0 \in Attempts
  BY HandshakeAssumption DEF Nonce, Attempts
<1>2. NoRetry \in RetryType /\ ~NoRetry.inUse
  <2>1. NoRetry \in [inUse : {FALSE}, count : Attempts]
    BY <1>1, Zenon DEF NoRetry
  <2> QED
    BY <2>1, Zenon DEF RetryType
<1>3. RetryOK
  BY <1>2, Zenon DEF Init, RetryOK
<1>4. TypeOK
  BY <1>1, <1>2, Zenon DEF Init, TypeOK, States
<1>5. \A e \in Endpoint : StateInv(e) /\ RetryInv(e) /\ Agrees(e) /\ PanicInv(e)
  BY <1>2, OtherFacts DEF Init, StateInv, RetryInv, Agrees, PanicInv
<1>6. \A p \in net : Bound(p)
  BY Zenon DEF Init
<1> QED
  BY <1>3, <1>4, <1>5, <1>6, Zenon DEF HandshakeInv

\* Every step keeps it, and changes no binding within a session.
LEMMA HandshakeStep == HandshakeInv /\ [Next]_vars => Preserves
<1> SUFFICES ASSUME HandshakeInv, [Next]_vars PROVE Preserves
  BY Zenon
<1>1. CASE UNCHANGED vars
  <2>1. HandshakeInv'
    BY <1>1 DEF vars, HandshakeInv, TypeOK, RetryOK, StateInv, RetryInv, Agrees, PanicInv,
                SimultaneousOpen, Bound
  <2> QED
    BY <1>1, <2>1, Zenon DEF vars, Preserves
<1>2. ASSUME NEW e \in Endpoint, NEW p \in net, Recv(e, p) PROVE Preserves
  BY <1>2, RecvOtherStep, RecvEventStep, RecvFinStep, Zenon DEF Recv
<1> QED
  BY <1>1, <1>2, RetryStep, ConnectStep, KeepAliveStep, CloseStep, StopStep, NewSessionStep, Zenon
     DEF Next

\* The inductive invariant, typing included, holds of every reachable state.
THEOREM HandshakeInvCorrect == Spec => []HandshakeInv
<1>1. HandshakeInv /\ [Next]_vars => HandshakeInv'
  BY HandshakeStep, Zenon DEF Preserves
<1> QED
  BY <1>1, HandshakeInit, PTL DEF Spec

\* However many sessions either side starts and however stale the packets that
\* arrive, an Established session and the peer's current session it is bound to
\* are bound to each other (recv.go, the nonce filters of recvloop).
THEOREM SessionsAgreeCorrect == Spec => []SessionsAgree
<1>1. HandshakeInv => SessionsAgree
  BY Zenon DEF HandshakeInv, SessionsAgree, Agrees
<1> QED
  BY <1>1, HandshakeInvCorrect, PTL

\* retryCheck (retry.go) never meets a state other than the one it is for, and
\* doTcpAction panics only in the two cases NoPanic excepts.
THEOREM RetriesHarmlessCorrect == Spec => []RetriesHarmless
<1>1. HandshakeInv => RetriesHarmless
  BY Zenon DEF HandshakeInv, RetriesHarmless, RetryIsCurrent, NoPanic, RetryInv, PanicInv
<1> QED
  BY <1>1, HandshakeInvCorrect, PTL

\* No step of a session changes the remote session it is bound to, and its
\* sender addresses no other (recv.go, doTcpAction; sender.go, SendAck).
THEOREM BoundOnceCorrect == Spec => BoundOnce
<1>1. HandshakeInv /\ [Next]_vars =>
        [\A e \in Endpoint : LocalSessNonce'[e] = LocalSessNonce[e] =>
           /\ RemoteSessNonce[e] # 0 => RemoteSessNonce'[e] = RemoteSessNonce[e]
           /\ sndRemoteNonce'[e] \in {0, RemoteSessNonce'[e]}]_vars
  <2> SUFFICES ASSUME HandshakeInv, [Next]_vars, NEW e \in Endpoint,
                      LocalSessNonce'[e] = LocalSessNonce[e]
               PROVE  /\ RemoteSessNonce[e] # 0 => RemoteSessNonce'[e] = RemoteSessNonce[e]
                      /\ sndRemoteNonce'[e] \in {0, RemoteSessNonce'[e]}
    BY Zenon
  <2>1. HandshakeInv' /\ RemoteSessNonce[e] \in {0, RemoteSessNonce'[e]}
    BY HandshakeStep, Zenon DEF Preserves
  <2> QED
    BY <2>1, Zenon DEF HandshakeInv, StateInv
<1> QED
  BY <1>1, HandshakeInvCorrect, PTL DEF Spec, BoundOnce
=============================================================================
