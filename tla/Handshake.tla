------------------------------ MODULE Handshake ------------------------------
(***************************************************************************)
(* Opening and closing an swp session: the state machine UpdateTcp         *)
(* (swp/tcp.go), the actions it asks of RecvState (recv.go, doTcpAction),  *)
(* their retry (retry.go), Connect and Close, and the session nonces that  *)
(* keep the packets of one session out of another on the same inbox.       *)
(*                                                                         *)
(* An endpoint may stop at any time (the application calls Stop, or the    *)
(* sender has heard nothing for too long) and start a new session on the   *)
(* same inbox.  The nonce of an endpoint's k-th session is k; 0 is the     *)
(* empty nonce.  Data packets are left to SlidingWindow.                   *)
(***************************************************************************)
EXTENDS Integers, FiniteSets

CONSTANTS
  A, B,         \* the two inboxes
  Connectors,   \* the endpoints that call Connect
  Closers,      \* the endpoints that call Close
  SendFails,    \* whether Net.Send may return an error for a Syn
  MaxSessions,  \* bound on the sessions an endpoint starts
  MaxAttempts,  \* how often an action is retried before giving up (10)
  MaxNet        \* bound on the packets in transit; what exceeds it is lost

Endpoint == {A, B}

ASSUME HandshakeAssumption ==
  /\ A # B
  /\ Connectors \subseteq Endpoint /\ Closers \subseteq Endpoint
  /\ SendFails \in BOOLEAN
  /\ MaxSessions \in Nat \ {0} /\ MaxAttempts \in Nat /\ MaxNet \in Nat

VARIABLES
  running,          \* "up", "stopped" or "panicked"
  TcpState,
  LocalSessNonce,
  RemoteSessNonce,  \* RecvState's
  sndRemoteNonce,   \* SenderState's copy
  connReqPending,   \* a ConnectReq: "none", "waiting", or "done" (its Done is closed)
  retry,            \* tcpRetryLogic
  net

vars == <<running, TcpState, LocalSessNonce, RemoteSessNonce, sndRemoteNonce,
          connReqPending, retry, net>>

States == {"Fresh", "Closed", "Listen", "SynReceived", "SynSent", "Established",
           "CloseInitiatorHasSentFin", "CloseResponderGotFin"}
Events == {"Syn", "SynAck", "EstabAck", "Fin", "FinAck", "DataAck", "KeepAlive"}
Nonce == 0 .. MaxSessions
NoRetry == [inUse |-> FALSE, count |-> 0]

Packet == [dest : Endpoint, event : Events, from : Nonce, to : Nonce, state : States]

Other(e) == IF e = A THEN B ELSE A

\* Packets of out are sent, any of them possibly lost, while gone leaves the net.
Transmit(gone, out) ==
  \E kept \in SUBSET out :
    /\ net' = (net \ gone) \cup kept
    /\ kept = {} \/ Cardinality(net') <= MaxNet

-----------------------------------------------------------------------------
(* The state machine *)

Row(s, ev, post, act) == [pre |-> s, event |-> ev, post |-> post, act |-> act]

\* Mutant: a keep-alive does not make up for a lost EstabAck.
KeepAliveFrom_Nowhere == {}

\* The states a peer may report in the keep-alive that stands for its EstabAck.
KeepAliveFrom == {"Established"}

\* The transitions of UpdateTcp whose outcome does not depend on fromState.
Table ==
  { Row("Fresh", "StartListen", "Listen", "NoAction"),
    Row("Fresh", "StartConnect", "SynSent", "SendSyn"),
    Row("Listen", "Syn", "SynReceived", "SendSynAck"),
    Row("SynReceived", "EstabAck", "Established", "NoAction"),
    Row("SynSent", "SynAck", "Established", "SendEstabAck"),
    Row("SynSent", "Syn", "SynReceived", "SendEstabAck"),
    Row("Established", "KeepAlive", "Established", "SendDataAck"),
    Row("Established", "StartClose", "CloseInitiatorHasSentFin", "SendFin"),
    Row("CloseInitiatorHasSentFin", "FinAck", "Closed", "NoAction"),
    Row("CloseInitiatorHasSentFin", "Fin", "Closed", "NoAction"),
    Row("CloseResponderGotFin", "ApplicationClosed", "Closed", "NoAction") }
  \cup { Row(s, "Fin", "CloseResponderGotFin", "DoAppClose") :
           s \in {"Listen", "SynReceived", "SynSent", "Established"} }

\* The row UpdateTcp takes in state s for event ev from a peer in fromState.
UpdateTcp(s, ev, fromState) ==
  IF s = "Closed" THEN Row(s, ev, s, "SendFinAck")
  ELSE IF s = "SynReceived" /\ ev = "KeepAlive" /\ fromState \in KeepAliveFrom
       THEN Row(s, ev, "Established", "NoAction")
  ELSE IF \E r \in Table : r.pre = s /\ r.event = ev
       THEN CHOOSE r \in Table : r.pre = s /\ r.event = ev
  ELSE Row(s, ev, s, "NoAction")

\* Mutant: an Established session keeps retrying what it did on its way there.
isRetryState_Established(s) == s \in {"SynSent", "SynReceived", "Established"}

isRetryState(s) == s \in {"SynSent", "SynReceived", "CloseInitiatorHasSentFin"}

\* The attempts are counted over the whole session.
Cancelled(r) == [inUse |-> FALSE, count |-> r.count]

\* The retry logic after the step of row r caused by packet p.
setupRetry(e, r, p) ==
  IF r.pre = r.post THEN retry[e]
  ELSE IF isRetryState(r.post)
       THEN [inUse |-> TRUE, curState |-> r.post, act |-> r.act, causal |-> p,
             count |-> retry[e].count]
  ELSE Cancelled(retry[e])

-----------------------------------------------------------------------------
(* Packets *)

\* ack(): a packet that answers the session remote.
Ack(e, ev, remote) ==
  [dest |-> Other(e), event |-> ev, from |-> LocalSessNonce[e], to |-> remote,
   state |-> "Fresh"]

\* The sender learns the remote nonce from the first ack that carries one.
Learned(e, remote) ==
  [sndRemoteNonce EXCEPT ![e] = IF @ = 0 THEN remote ELSE @]

\* Mutant: packets are not matched with the session they are sent to.
Accepts_AnySession(e, p) == ~(RemoteSessNonce[e] # 0 /\ p.from # RemoteSessNonce[e])

\* The packets recvloop does not drop as another session's.
Accepts(e, p) ==
  /\ ~ /\ \/ p.to # 0
          \/ TcpState[e] \in {"Established", "CloseInitiatorHasSentFin",
                              "CloseResponderGotFin"}
       /\ p.to # LocalSessNonce[e]
  /\ ~ (RemoteSessNonce[e] # 0 /\ p.from # RemoteSessNonce[e])

-----------------------------------------------------------------------------
(* doTcpAction, while gone leaves the network.  Its cases SendSyn, SendFin *)
(* and SendFinAck are left out: only a session that is Fresh, is told       *)
(* StartClose, or is still read when Closed asks for them, and none is.     *)

ReplyAs(e, ev, remote, gone) ==
  /\ RemoteSessNonce' = [RemoteSessNonce EXCEPT ![e] = remote]
  /\ sndRemoteNonce' = Learned(e, remote)
  /\ Transmit(gone, {Ack(e, ev, remote)})

DoNoAction(gone) ==
  /\ Transmit(gone, {})
  /\ UNCHANGED <<running, RemoteSessNonce, sndRemoteNonce, connReqPending>>

DoSendDataAck(e, gone) ==
  /\ ReplyAs(e, "DataAck", RemoteSessNonce[e], gone)
  /\ UNCHANGED <<running, connReqPending>>

\* Repeats are allowed, another session is not (the code would panic).
DoSendSynAck(e, p, gone) ==
  /\ ReplyAs(e, "SynAck", p.from, gone)
  /\ running' = [running EXCEPT ![e] =
       IF RemoteSessNonce[e] \notin {0, p.from} THEN "panicked" ELSE @]
  /\ UNCHANGED connReqPending

\* The client learns the nonce and its Connect returns.  A nonce that is already
\* set panics, and so does a request that is missing or was already answered.
DoSendEstabAck(e, p, gone) ==
  \/ /\ RemoteSessNonce[e] = 0 /\ connReqPending[e] = "waiting"
     /\ ReplyAs(e, "EstabAck", p.from, gone)
     /\ connReqPending' = [connReqPending EXCEPT ![e] = "none"]
     /\ UNCHANGED running
  \/ /\ RemoteSessNonce[e] # 0 \/ connReqPending[e] # "waiting"
     /\ running' = [running EXCEPT ![e] = "panicked"]
     /\ Transmit(gone, {})
     /\ UNCHANGED <<RemoteSessNonce, sndRemoteNonce, connReqPending>>

doTcpAction(e, act, p, gone) ==
  \/ act = "NoAction" /\ DoNoAction(gone)
  \/ act = "SendDataAck" /\ DoSendDataAck(e, gone)
  \/ act = "SendSynAck" /\ DoSendSynAck(e, p, gone)
  \/ act = "SendEstabAck" /\ DoSendEstabAck(e, p, gone)

-----------------------------------------------------------------------------
(* The receiver's loop *)

\* An arriving packet may leave a duplicate of itself in transit.
Arrivals(p) == {{p}, {}}

RecvOther(e, p) ==
  /\ running[e] = "up" /\ p.dest = e
  /\ ~Accepts(e, p)
  /\ net' = net \ {p}
  /\ UNCHANGED <<running, TcpState, LocalSessNonce, RemoteSessNonce, sndRemoteNonce,
                 connReqPending, retry>>

RecvEvent(e, p) ==
  LET r == UpdateTcp(TcpState[e], p.event, p.state)
  IN  /\ running[e] = "up" /\ p.dest = e
      /\ Accepts(e, p)
      /\ TcpState' = [TcpState EXCEPT ![e] = r.post]
      /\ retry' = [retry EXCEPT ![e] = setupRetry(e, r, p)]
      /\ \E gone \in Arrivals(p) : doTcpAction(e, r.act, p, gone)
      /\ UNCHANGED <<LocalSessNonce>>

\* A Fin: the application is told, a FinAck sent, and the session goes on to
\* Closed, where the receiver's loop ends.
RecvFin(e, p) ==
  LET r == UpdateTcp(TcpState[e], p.event, p.state)
  IN  /\ running[e] = "up" /\ p.dest = e
      /\ Accepts(e, p)
      /\ r.act = "DoAppClose"
      /\ TcpState' = [TcpState EXCEPT ![e] =
           UpdateTcp(r.post, "ApplicationClosed", p.state).post]
      /\ retry' = [retry EXCEPT ![e] = Cancelled(@)]
      /\ running' = [running EXCEPT ![e] = "stopped"]
      /\ sndRemoteNonce' = Learned(e, RemoteSessNonce[e])
      /\ \E gone \in Arrivals(p) : Transmit(gone, {Ack(e, "FinAck", RemoteSessNonce[e])})
      /\ UNCHANGED <<LocalSessNonce, RemoteSessNonce, connReqPending>>

\* The attempts are used up: retryCheck stops the session.
GivesUp(e) == retry[e].count >= MaxAttempts

\* The retry timer fires.  That the state is still the one the retry is for is
\* RetryIsCurrent, below.
retryCheck(e) ==
  /\ running[e] = "up" /\ retry[e].inUse
  /\ retry[e].curState = TcpState[e]
  /\ \/ /\ GivesUp(e)
        /\ retry' = [retry EXCEPT ![e] = Cancelled(@)]
        /\ running' = [running EXCEPT ![e] = "stopped"]
        /\ UNCHANGED <<RemoteSessNonce, sndRemoteNonce, connReqPending, net>>
     \/ /\ ~GivesUp(e)
        /\ retry' = [retry EXCEPT ![e].count = @ + 1]
        /\ doTcpAction(e, retry[e].act, retry[e].causal, {})
  /\ UNCHANGED <<TcpState, LocalSessNonce>>

\* ConnectCh: an active open, or the same again when Connect has had no answer.
\* The sender answers the request itself when the Syn cannot be sent.  In the
\* other states the request is answered at once and nothing changes.
Connect(e) ==
  /\ running[e] = "up" /\ e \in Connectors
  /\ TcpState[e] \in {"Listen", "SynSent"}
  /\ TcpState' = [TcpState EXCEPT ![e] = "SynSent"]
  /\ \/ /\ Transmit({}, {[dest |-> Other(e), event |-> "Syn", from |-> LocalSessNonce[e],
                          to |-> 0, state |-> "Fresh"]})
        /\ connReqPending' = [connReqPending EXCEPT ![e] = "waiting"]
     \/ /\ SendFails
        /\ connReqPending' = [connReqPending EXCEPT ![e] = "done"]
        /\ UNCHANGED net
  /\ UNCHANGED <<running, LocalSessNonce, RemoteSessNonce, sndRemoteNonce, retry>>

\* The keep-alive timer; the sender is silent while it knows no remote session.
KeepAlive(e) ==
  /\ running[e] = "up" /\ sndRemoteNonce[e] # 0
  /\ Transmit({}, {[dest |-> Other(e), event |-> "KeepAlive", from |-> LocalSessNonce[e],
                    to |-> sndRemoteNonce[e], state |-> TcpState[e]]})
  /\ UNCHANGED <<running, TcpState, LocalSessNonce, RemoteSessNonce, sndRemoteNonce,
                 connReqPending, retry>>

\* Close: the sender sends a Fin.
Close(e) ==
  /\ running[e] = "up" /\ e \in Closers
  /\ Transmit({}, {[dest |-> Other(e), event |-> "Fin", from |-> LocalSessNonce[e],
                    to |-> sndRemoteNonce[e], state |-> "Fresh"]})
  /\ UNCHANGED <<running, TcpState, LocalSessNonce, RemoteSessNonce, sndRemoteNonce,
                 connReqPending, retry>>

\* The session stops: Stop, or the sender gives the peer up for dead.
Stop(e) ==
  /\ running[e] = "up"
  /\ running' = [running EXCEPT ![e] = "stopped"]
  /\ UNCHANGED <<TcpState, LocalSessNonce, RemoteSessNonce, sndRemoteNonce,
                 connReqPending, retry, net>>

\* Mutant: the sender keeps the remote nonce of the session before.
NewSession_StaleSender(e) ==
  /\ running[e] # "up" /\ LocalSessNonce[e] < MaxSessions
  /\ running' = [running EXCEPT ![e] = "up"]
  /\ TcpState' = [TcpState EXCEPT ![e] = "Listen"]
  /\ LocalSessNonce' = [LocalSessNonce EXCEPT ![e] = @ + 1]
  /\ RemoteSessNonce' = [RemoteSessNonce EXCEPT ![e] = 0]
  /\ connReqPending' = [connReqPending EXCEPT ![e] = "none"]
  /\ retry' = [retry EXCEPT ![e] = NoRetry]
  /\ UNCHANGED <<sndRemoteNonce, net>>

\* A new session on the same inbox.
NewSession(e) ==
  /\ running[e] # "up" /\ LocalSessNonce[e] < MaxSessions
  /\ running' = [running EXCEPT ![e] = "up"]
  /\ TcpState' = [TcpState EXCEPT ![e] = "Listen"]
  /\ LocalSessNonce' = [LocalSessNonce EXCEPT ![e] = @ + 1]
  /\ RemoteSessNonce' = [RemoteSessNonce EXCEPT ![e] = 0]
  /\ sndRemoteNonce' = [sndRemoteNonce EXCEPT ![e] = 0]
  /\ connReqPending' = [connReqPending EXCEPT ![e] = "none"]
  /\ retry' = [retry EXCEPT ![e] = NoRetry]
  /\ UNCHANGED net

-----------------------------------------------------------------------------

Init ==
  /\ running = [e \in Endpoint |-> "up"]
  /\ TcpState = [e \in Endpoint |-> "Listen"]
  /\ LocalSessNonce = [e \in Endpoint |-> 1]
  /\ RemoteSessNonce = [e \in Endpoint |-> 0]
  /\ sndRemoteNonce = [e \in Endpoint |-> 0]
  /\ connReqPending = [e \in Endpoint |-> "none"]
  /\ retry = [e \in Endpoint |-> NoRetry]
  /\ net = {}

Recv(e, p) == RecvOther(e, p) \/ RecvEvent(e, p) \/ RecvFin(e, p)

Next ==
  \E e \in Endpoint :
    \/ \E p \in net : Recv(e, p)
    \/ retryCheck(e)
    \/ Connect(e)
    \/ KeepAlive(e)
    \/ Close(e)
    \/ Stop(e)
    \/ NewSession(e)

Spec == Init /\ [][Next]_vars

\* Fairness: the keep-alive timer fires over and over, not every keep-alive is
\* lost, and what is in transit eventually arrives.
KeepAliveSent(e) == KeepAlive(e) /\ net' # net
KeepAliveTaken(e) == \E p \in net : p.event = "KeepAlive" /\ Recv(e, p) /\ p \notin net'
SomeTaken(e) == \E p \in net : Recv(e, p) /\ p \notin net'

FairSpec ==
  /\ Spec
  /\ \A e \in Endpoint : /\ SF_vars(KeepAliveSent(e))
                         /\ SF_vars(KeepAliveTaken(e))
                         /\ WF_vars(SomeTaken(e))

-----------------------------------------------------------------------------
(* Properties *)

TypeOK ==
  /\ running \in [Endpoint -> {"up", "stopped", "panicked"}]
  /\ TcpState \in [Endpoint -> States]
  /\ LocalSessNonce \in [Endpoint -> 1 .. MaxSessions]
  /\ RemoteSessNonce \in [Endpoint -> Nonce]
  /\ sndRemoteNonce \in [Endpoint -> Nonce]
  /\ connReqPending \in [Endpoint -> {"none", "waiting", "done"}]
  /\ net \subseteq Packet
  /\ \A e \in Endpoint : retry[e].inUse =>
       retry[e].causal \in Packet /\ retry[e].count \in 0 .. MaxAttempts

\* An Established session agrees with its peer: the session it is established
\* with, if it is still the peer's current one, is bound to this one, however
\* many stale packets of earlier sessions arrive (recv.go, nonce filters).
SessionsAgree ==
  \A e \in Endpoint :
    LET o == Other(e)
    IN  TcpState[e] = "Established" /\ LocalSessNonce[o] = RemoteSessNonce[e]
          => RemoteSessNonce[o] = LocalSessNonce[e]

\* A session binds itself to one remote session for good, and its sender never
\* addresses any other (doTcpAction; sender.go, SendAck).
BoundOnce ==
  [][\A e \in Endpoint : LocalSessNonce'[e] = LocalSessNonce[e] =>
       /\ RemoteSessNonce[e] # 0 => RemoteSessNonce'[e] = RemoteSessNonce[e]
       /\ sndRemoteNonce'[e] \in {0, RemoteSessNonce'[e]}]_vars

\* The retry timer only ever repeats the action of the state the session is in:
\* the other case of retryCheck (retry.go) is never met.
RetryIsCurrent ==
  \A e \in Endpoint : running[e] = "up" /\ retry[e].inUse => retry[e].curState = TcpState[e]

\* The session entered SynReceived from SynSent, on a Syn that crossed its own.
SimultaneousOpen(e) == retry[e].inUse /\ retry[e].causal.event = "Syn" /\ retry[e].act = "SendEstabAck"

\* No order of handshake packets, losses and retries makes doTcpAction panic
\* (recv.go), but for the retries of a simultaneous open and a SynAck that
\* answers a Syn sent before the one that failed and answered the request.
NoPanic ==
  \A e \in Endpoint :
    running[e] = "panicked" => SimultaneousOpen(e) \/ connReqPending[e] = "done"

\* The retry timer is harmless: it repeats only what belongs to the state the
\* session is in, and brings no panic with it.
RetriesHarmless == RetryIsCurrent /\ NoPanic

\* A lost EstabAck leaves the listening side in SynReceived only until a
\* keep-alive tells it that the connecting side is Established (tcp.go).
HalfOpenResolves ==
  \A e \in Endpoint :
    (TcpState[e] = "Established" /\ LocalSessNonce[Other(e)] = RemoteSessNonce[e])
      ~> \/ TcpState[Other(e)] = "Established"
         \/ \E x \in Endpoint : running[x] # "up"
=============================================================================
