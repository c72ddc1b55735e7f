---------------------------- MODULE Connections -----------------------------
(***************************************************************************)
(* What the server tells a client connection and when it gives it up       *)
(* (server/client.go, server/server.go, server/route.go): the INFO sent by *)
(* createClient and its updates when the cluster changes, the CONNECT and  *)
(* the authorization timer, PING and PONG, the ping timer, closeConnection *)
(* and removeClient with the count cproto of clients that take updates.    *)
(* A monitoring request lists the clients (server/monitor.go).             *)
(*                                                                         *)
(* Read loops, timer callbacks and the read loops of routes, which make    *)
(* the updates, run at once; a step is one critical section of c.mu or     *)
(* s.mu.  An INFO is its version number.                                   *)
(***************************************************************************)
EXTENDS Integers, FiniteSets

CONSTANTS
    Clients, Routes,   \* client connections; routes that report new URLs
    MaxPingsOut,       \* the server option
    MaxUpdates,        \* INFO updates (bound)
    MaxConnects        \* CONNECTs of a client (bound)

ASSUME ConnectionsAssumption ==
    MaxPingsOut \in Nat /\ MaxUpdates \in Nat /\ MaxConnects \in Nat

VARIABLES
    auth,      \* s.info.AuthRequired
    tls,       \* s.info.TLSRequired
    infoJSON,  \* the version of the server's INFO
    cproto,    \* s.cproto
    others,    \* what the connections not among Clients add to it
    clients,   \* s.clients
    at,        \* at[c]: where createClient, then readLoop of c is
    nc,        \* nc[c]: c.nc # nil
    sock,      \* sock[c]: "open", "lost" (nothing comes any more) or "closed"
    proto,     \* proto[c]: c.opts.Protocol >= ClientProtoInfo
    flags,     \* flags[c]: connectReceived, firstPongSent, infoUpdated
    atmr,      \* atmr[c]: "none", "set", or "fired": authTimeout is running
    ptmr,      \* ptmr[c]: the ping timer is running
    pout,      \* pout[c]
    removing,  \* removing[c]: removeClient is under way, with the protocol it read
    sending,   \* sending[r]: an update of route r: version and clients left
    seen,      \* seen[c]: the latest version sent to c
    skipped,   \* clients an update passed over, and why
    zombies,   \* clients registered after they were removed
    leaks,     \* clients counted in cproto twice, or after they were closed
    connects,  \* connects[c]: CONNECTs processed
    wedged,    \* clients whose c.mu is held for ever
    stuck      \* s.mu is held for ever

vars == <<auth, tls, others, infoJSON, cproto, clients, at, nc, sock, proto, flags, atmr, ptmr,
          pout, removing, sending, seen, skipped, zombies, leaks, connects, wedged, stuck>>

config == <<auth, tls, others>>
timers == <<atmr, ptmr, pout>>
hist == <<skipped, zombies, leaks>>
mon == <<wedged, stuck>>

None == <<>>
NotSending == [at |-> "idle", v |-> 0, todo |-> {}]
Sending(v, todo) == IF todo = {} THEN NotSending ELSE [at |-> "send", v |-> v, todo |-> todo]

Init ==
    /\ auth \in BOOLEAN /\ tls \in BOOLEAN
    /\ infoJSON = 0 /\ cproto = 0 /\ others = 0 /\ clients = {}
    /\ at = [c \in Clients |-> "new"]
    /\ nc = [c \in Clients |-> TRUE] /\ sock = [c \in Clients |-> "open"]
    /\ proto = [c \in Clients |-> FALSE] /\ flags = [c \in Clients |-> {}]
    /\ atmr = [c \in Clients |-> "none"] /\ ptmr = [c \in Clients |-> FALSE]
    /\ pout = [c \in Clients |-> 0]
    /\ removing = [c \in Clients |-> None]
    /\ sending = [r \in Routes |-> NotSending]
    /\ seen = [c \in Clients |-> 0]
    /\ skipped = {} /\ zombies = {} /\ leaks = {}
    /\ connects = [c \in Clients |-> 0]
    /\ wedged = {} /\ stuck = FALSE

-----------------------------------------------------------------------------
(* Creating and closing *)

\* createClient: read infoJSON; start the authorization timer and send the INFO.
createClient(c) ==
    /\ at[c] = "new" /\ ~stuck
    /\ seen' = [seen EXCEPT ![c] = infoJSON]
    /\ atmr' = [atmr EXCEPT ![c] = IF auth THEN "set" ELSE "none"]
    /\ at' = [at EXCEPT ![c] = "register"]
    /\ UNCHANGED <<config, mon, infoJSON, cproto, clients, nc, sock, proto, flags, ptmr,
                   pout, removing, sending, hist, connects>>

\* Register with the server; an update since infoJSON was read passed c over.
Register(c) ==
    /\ at[c] = "register" /\ ~stuck
    /\ clients' = clients \cup {c}
    /\ skipped' = IF seen[c] < infoJSON THEN skipped \cup {<<c, "created">>} ELSE skipped
    /\ zombies' = IF ~nc[c] /\ removing[c] = None THEN zombies \cup {c} ELSE zombies
    /\ at' = [at EXCEPT ![c] = "start"]
    /\ UNCHANGED <<config, mon, infoJSON, cproto, nc, sock, proto, flags, timers, removing,
                   sending, seen, leaks, connects>>

SetPingTimer(c) == ptmr' = [ptmr EXCEPT ![c] = nc[c]]

\* The end of createClient, unless the authorization timer closed c already.
StartReadLoop(c) ==
    /\ at[c] = "start" /\ c \notin wedged
    /\ at' = [at EXCEPT ![c] = IF nc[c] THEN "read" ELSE "done"]
    /\ SetPingTimer(c)
    /\ UNCHANGED <<config, mon, infoJSON, cproto, clients, nc, sock, proto, flags, atmr,
                   pout, removing, sending, seen, hist, connects>>

\* Whether a timer could be stopped; one that is not set counts as stopped.
clearAuthTimer(c) == atmr[c] # "fired"

clearPingTimer(c) == ptmr' = [ptmr EXCEPT ![c] = FALSE]

\* The socket is flushed and closed.
clearConnection(c) == sock' = [sock EXCEPT ![c] = "closed"]

\* closeConnection under c.mu, and the first lock of removeClient.  Only the
\* first call does anything.
closeConnection(c) ==
    IF ~nc[c] THEN UNCHANGED <<nc, sock, atmr, ptmr, removing>>
    ELSE /\ nc' = [nc EXCEPT ![c] = FALSE]
         /\ clearConnection(c)
         /\ atmr' = [atmr EXCEPT ![c] = IF clearAuthTimer(c) THEN "none" ELSE @]
         /\ clearPingTimer(c)
         /\ removing' = [removing EXCEPT ![c] = <<proto[c]>>]

\* Mutant: the count is kept.
removeClient_StaysCounted(c) ==
    /\ removing[c] # None /\ ~stuck
    /\ clients' = clients \ {c}
    /\ removing' = [removing EXCEPT ![c] = None]
    /\ UNCHANGED <<config, mon, infoJSON, cproto, at, nc, sock, proto, flags, timers, sending,
                   seen, hist, connects>>

\* removeClient under s.mu.
removeClient(c) ==
    /\ removing[c] # None /\ ~stuck
    /\ clients' = clients \ {c}
    /\ cproto' = IF removing[c] = <<TRUE>> THEN cproto - 1 ELSE cproto
    /\ removing' = [removing EXCEPT ![c] = None]
    /\ UNCHANGED <<config, mon, infoJSON, at, nc, sock, proto, flags, timers, sending,
                   seen, hist, connects>>

\* The peer is gone and nobody says so: reads wait, writes may succeed.
Lose(c) ==
    /\ sock[c] = "open" /\ at[c] # "new"
    /\ sock' = [sock EXCEPT ![c] = "lost"]
    /\ UNCHANGED <<config, mon, infoJSON, cproto, clients, at, nc, proto, flags, timers,
                   removing, sending, seen, hist, connects>>

\* readLoop meets an error, or a protocol error closes the connection.
ReadFails(c) ==
    /\ at[c] = "read"
    /\ closeConnection(c)
    /\ at' = [at EXCEPT ![c] = "done"]
    /\ UNCHANGED <<config, mon, infoJSON, cproto, clients, proto, flags, pout, sending,
                   seen, hist, connects>>

\* A publisher closes c, a slow consumer.
SlowConsumer(c) ==
    /\ c \in clients /\ nc[c] /\ at[c] \notin {"register", "start"}
    /\ closeConnection(c)
    /\ UNCHANGED <<config, mon, infoJSON, cproto, clients, at, proto, flags, pout, sending,
                   seen, hist, connects>>

\* Another connection that takes updates is counted or taken back; one closed
\* while it is in processConnect may be taken back before it is counted.
OtherClient(d) ==
    /\ others + d \in -1..1 /\ ~stuck
    /\ others' = others + d
    /\ cproto' = cproto + d
    /\ UNCHANGED <<auth, tls, mon, infoJSON, clients, at, nc, sock, proto, flags, timers,
                   removing, sending, seen, hist, connects>>

-----------------------------------------------------------------------------
(* CONNECT and the authorization timer *)

\* processConnect under c.mu.  If the timer cannot be stopped, its callback
\* will close the connection.
processConnect(c, p) ==
    /\ at[c] = "read" /\ connects[c] < MaxConnects
    /\ IF ~clearAuthTimer(c)
       THEN /\ at' = [at EXCEPT ![c] = "await"]
            /\ UNCHANGED <<proto, flags, atmr, connects, leaks>>
       ELSE /\ atmr' = [atmr EXCEPT ![c] = "none"]
            /\ proto' = [proto EXCEPT ![c] = p]
            /\ flags' = [flags EXCEPT ![c] = @ \cup {"connectReceived"}]
            /\ connects' = [connects EXCEPT ![c] = @ + 1]
            /\ leaks' = IF connects[c] > 0 \/ ~nc[c] THEN leaks \cup {c} ELSE leaks
            /\ at' = [at EXCEPT ![c] = "count"]
    /\ UNCHANGED <<config, mon, infoJSON, cproto, clients, nc, sock, ptmr, pout, removing,
                   sending, seen, skipped, zombies>>

\* The wait of processConnect for the callback.
ConnectReturns(c) ==
    /\ at[c] = "await" /\ ~nc[c]
    /\ at' = [at EXCEPT ![c] = "read"]
    /\ UNCHANGED <<config, mon, infoJSON, cproto, clients, nc, sock, proto, flags, timers,
                   removing, sending, seen, hist, connects>>

\* srv.cproto++ for a client that takes updates.  Nobody takes it back if c was
\* removed before it had the protocol, or was counted before.
CountProto(c) ==
    /\ at[c] = "count" /\ ~stuck
    /\ cproto' = IF proto[c] THEN cproto + 1 ELSE cproto
    /\ at' = [at EXCEPT ![c] = "check"]
    /\ UNCHANGED <<config, mon, infoJSON, clients, nc, sock, proto, flags, timers, removing,
                   sending, seen, hist, connects>>

\* The answers of the authorization method; without one, all are accepted.
checkAuth(c) == IF auth THEN BOOLEAN ELSE {TRUE}

authViolation(c) == closeConnection(c)

\* checkAuth and the checks of protocol and language: refused or accepted.
CheckConnect(c) ==
    /\ at[c] = "check"
    /\ \/ /\ TRUE \in checkAuth(c)
          /\ at' = [at EXCEPT ![c] = "read"]
          /\ UNCHANGED <<nc, sock, atmr, ptmr, removing>>
       \/ /\ FALSE \in checkAuth(c)
          /\ at' = [at EXCEPT ![c] = "done"]
          /\ authViolation(c)
       \/ /\ at' = [at EXCEPT ![c] = "done"]
          /\ closeConnection(c)
    /\ UNCHANGED <<config, mon, infoJSON, cproto, clients, proto, flags, pout, sending,
                   seen, hist, connects>>

\* The timer expires ...
AuthTimerFires(c) ==
    /\ atmr[c] = "set"
    /\ atmr' = [atmr EXCEPT ![c] = "fired"]
    /\ UNCHANGED <<config, mon, infoJSON, cproto, clients, at, nc, sock, proto, flags, ptmr,
                   pout, removing, sending, seen, hist, connects>>

\* Mutant: the callback only sends the error.
authTimeout_StaysOpen(c) ==
    /\ atmr[c] = "fired" /\ c \notin wedged
    /\ atmr' = [atmr EXCEPT ![c] = "none"]
    /\ UNCHANGED <<config, mon, infoJSON, cproto, clients, at, nc, sock, proto, flags, ptmr,
                   pout, removing, sending, seen, hist, connects>>

\* ... and its callback closes the connection.
authTimeout(c) ==
    /\ atmr[c] = "fired" /\ c \notin wedged
    /\ IF nc[c] THEN /\ nc' = [nc EXCEPT ![c] = FALSE]
                     /\ clearConnection(c) /\ clearPingTimer(c)
                     /\ removing' = [removing EXCEPT ![c] = <<proto[c]>>]
       ELSE UNCHANGED <<nc, sock, ptmr, removing>>
    /\ atmr' = [atmr EXCEPT ![c] = "none"]
    /\ UNCHANGED <<config, mon, infoJSON, cproto, clients, at, proto, flags, pout, sending,
                   seen, hist, connects>>

-----------------------------------------------------------------------------
(* PING, PONG and the ping timer *)

isAuthTimerSet(c) == atmr[c] # "none"

\* The first operation of a client that must authorize itself is CONNECT.
AuthFirst(c) == ~isAuthTimerSet(c)

\* MaxPingsOut PINGs are unanswered.
StaleConnection(c) == pout[c] + 1 > MaxPingsOut

\* processPing under c.mu: the first PONG is followed by a postponed update.
processPing(c) ==
    /\ at[c] = "read" /\ AuthFirst(c) /\ nc[c] /\ sock[c] # "lost"
    /\ LET first == "firstPongSent" \notin flags[c] IN
       /\ at' = [at EXCEPT ![c] = IF first /\ proto[c] /\ "infoUpdated" \in flags[c]
                                  THEN "update" ELSE "read"]
       /\ flags' = [flags EXCEPT ![c] = IF first THEN (@ \cup {"firstPongSent"}) \ {"infoUpdated"}
                                        ELSE @]
    /\ skipped' = IF "connectReceived" \in flags[c] THEN skipped ELSE skipped \cup {<<c, "early">>}
    /\ UNCHANGED <<config, mon, infoJSON, cproto, clients, nc, sock, proto, timers, removing,
                   sending, seen, zombies, leaks, connects>>

\* sendInfo: nothing is sent on a closed connection.
Sent(c, v) == IF nc[c] /\ v > seen[c] THEN [seen EXCEPT ![c] = v] ELSE seen

\* The postponed update of processPing.
SendUpdate(c) ==
    /\ at[c] = "update" /\ ~stuck
    /\ seen' = Sent(c, infoJSON)
    /\ at' = [at EXCEPT ![c] = "read"]
    /\ UNCHANGED <<config, mon, infoJSON, cproto, clients, nc, sock, proto, flags, timers,
                   removing, sending, hist, connects>>

\* The client answers a PING.
processPong(c) ==
    /\ at[c] = "read" /\ AuthFirst(c) /\ pout[c] > 0 /\ sock[c] = "open"
    /\ pout' = [pout EXCEPT ![c] = 0]
    /\ UNCHANGED <<config, mon, infoJSON, cproto, clients, at, nc, sock, proto, flags, atmr,
                   ptmr, removing, sending, seen, hist, connects>>

\* Mutant: the ping timer is not set again.
Rearm_Forgotten(c) == ptmr' = [ptmr EXCEPT ![c] = FALSE]
Rearm(c) == UNCHANGED ptmr

\* processPingTimer under c.mu: after MaxPingsOut unanswered PINGs the socket is
\* closed, and the read loop will notice; so it is when the write fails.  A TLS
\* connection is left alone.
processPingTimer(c) ==
    /\ ptmr[c]
    /\ IF tls THEN ptmr' = [ptmr EXCEPT ![c] = FALSE] /\ UNCHANGED <<pout, sock>>
       ELSE /\ pout' = [pout EXCEPT ![c] = @ + 1]
            /\ \E fails \in {sock[c] = "closed", sock[c] # "open"} :
                 IF StaleConnection(c) \/ fails
                 THEN ptmr' = [ptmr EXCEPT ![c] = FALSE] /\ clearConnection(c)
                 ELSE Rearm(c) /\ UNCHANGED sock
    /\ UNCHANGED <<config, mon, infoJSON, cproto, clients, at, nc, proto, flags, atmr,
                   removing, sending, seen, hist, connects>>

-----------------------------------------------------------------------------
(* Updates *)

\* updateServerINFO: a route reports a URL the INFO does not have.
updateServerINFO(r) ==
    /\ sending[r].at = "idle" /\ infoJSON < MaxUpdates /\ ~stuck
    /\ infoJSON' = infoJSON + 1
    /\ sending' = [sending EXCEPT ![r].at = "copy"]
    /\ UNCHANGED <<config, mon, cproto, clients, at, nc, sock, proto, flags, timers,
                   removing, seen, hist, connects>>

\* sendAsyncInfoToClients under s.mu: nothing to do if no client takes updates;
\* otherwise copy INFO and clients.
CopyClients(r) ==
    /\ sending[r].at = "copy" /\ ~stuck
    /\ IF cproto = 0
       THEN /\ sending' = [sending EXCEPT ![r] = NotSending]
            /\ skipped' = skipped \cup (clients \X {"uncounted"})
       ELSE /\ sending' = [sending EXCEPT ![r] = Sending(infoJSON, clients)]
            /\ UNCHANGED skipped
    /\ UNCHANGED <<config, mon, infoJSON, cproto, clients, at, nc, sock, proto, flags,
                   timers, removing, seen, zombies, leaks, connects>>

\* Mutant: a client that has not sent CONNECT is not remembered.
Postpones_Connected(c) == proto[c] /\ "firstPongSent" \notin flags[c]

\* It is too early to send: the protocol is not known or the first PONG not sent.
Postpones(c) == "connectReceived" \notin flags[c] \/ (proto[c] /\ "firstPongSent" \notin flags[c])

\* For each client under c.mu: send, or leave it to the first PONG.
SendAsync(r, c) ==
    /\ sending[r].at = "send" /\ c \in sending[r].todo \ wedged
    /\ IF Postpones(c)
       THEN /\ flags' = [flags EXCEPT ![c] = @ \cup {"infoUpdated"}]
            /\ UNCHANGED seen
       ELSE /\ seen' = IF proto[c] THEN Sent(c, sending[r].v) ELSE seen
            /\ UNCHANGED flags
    /\ sending' = [sending EXCEPT ![r] = Sending(@.v, @.todo \ {c})]
    /\ UNCHANGED <<config, mon, infoJSON, cproto, clients, at, nc, sock, proto, timers,
                   removing, hist, connects>>

-----------------------------------------------------------------------------
(* A request for /connz *)

\* HandleConnz lists the registered clients under s.mu, reading a value to sort
\* them by under the lock of each, and then describes each under its lock.  It
\* changes nothing, save in two cases.  A lock that is never released keeps it
\* in the first loop, with s.mu.
ConnzPairs ==
    /\ ~stuck /\ clients \cap wedged # {}
    /\ stuck' = TRUE
    /\ UNCHANGED <<config, infoJSON, cproto, clients, at, nc, sock, proto, flags, timers,
                   removing, sending, seen, hist, connects, wedged>>

\* TLS is required and createClient has not made c.nc a tls.Conn yet.
Untyped(c) == tls /\ nc[c] /\ at[c] = "start"

\* In the second loop the conversion of an untyped c.nc panics, and net/http
\* recovers from that: the request ends with the lock of c held.
ConnzInfo(c) ==
    /\ ~stuck /\ clients \cap wedged = {} /\ c \in clients /\ Untyped(c)
    /\ wedged' = wedged \cup {c}
    /\ UNCHANGED <<config, infoJSON, cproto, clients, at, nc, sock, proto, flags, timers,
                   removing, sending, seen, hist, connects, stuck>>

Next ==
    \/ ConnzPairs
    \/ \E c \in Clients :
         \/ ConnzInfo(c)
         \/ createClient(c) \/ Register(c) \/ StartReadLoop(c)
         \/ removeClient(c) \/ Lose(c) \/ ReadFails(c) \/ SlowConsumer(c)
         \/ \E p \in BOOLEAN : processConnect(c, p)
         \/ ConnectReturns(c) \/ CountProto(c) \/ CheckConnect(c)
         \/ AuthTimerFires(c) \/ authTimeout(c)
         \/ processPing(c) \/ SendUpdate(c) \/ processPong(c) \/ processPingTimer(c)
    \/ \E d \in {-1, 1} : OtherClient(d)
    \/ \E r \in Routes :
         \/ updateServerINFO(r) \/ CopyClients(r)
         \/ \E c \in Clients : SendAsync(r, c)

\* Every goroutine goes on, timers expire, a callback that was started runs, and
\* a read from a closed socket fails.  The peer need not send anything.
Fairness ==
    /\ \A c \in Clients :
         /\ WF_vars(Register(c) \/ StartReadLoop(c) \/ CountProto(c) \/ CheckConnect(c)
                    \/ ConnectReturns(c) \/ SendUpdate(c))
         /\ WF_vars(removeClient(c)) /\ WF_vars(authTimeout(c))
         /\ WF_vars(AuthTimerFires(c)) /\ WF_vars(processPingTimer(c))
         /\ WF_vars(sock[c] = "closed" /\ ReadFails(c))
    /\ \A r \in Routes : WF_vars(CopyClients(r) \/ \E c \in Clients : SendAsync(r, c))

Spec == Init /\ [][Next]_vars /\ Fairness

-----------------------------------------------------------------------------

TypeOK ==
    /\ infoJSON \in 0..MaxUpdates /\ cproto \in Int /\ clients \subseteq Clients
    /\ at \in [Clients -> {"new", "register", "start", "read", "await", "count", "check",
                           "update", "done"}]
    /\ sock \in [Clients -> {"open", "lost", "closed"}]
    /\ atmr \in [Clients -> {"none", "set", "fired"}]
    /\ pout \in [Clients -> 0..(MaxPingsOut + 1)]
    /\ \A c \in Clients : seen[c] <= infoJSON

Quiet ==
    /\ \A r \in Routes : sending[r].at = "idle"
    /\ \A c \in Clients : at[c] \notin {"count", "update"} /\ removing[c] = None

\* Takes updates and has had its first PONG.
Subscribed(c) == c \in clients /\ nc[c] /\ proto[c] /\ {"connectReceived", "firstPongSent"} \subseteq flags[c]

\* When no update is under way, every client that takes updates and has had its
\* first PONG was sent the current INFO, unless an update passed it over: it
\* was being created at the time, or cproto was 0 although it was registered,
\* or it sent PING before CONNECT or CONNECT twice.
InfoDelivered ==
    Quiet => \A c \in Clients \ leaks :
        Subscribed(c) => seen[c] = infoJSON \/ \E why \in skipped : why[1] = c

\* "If server did not yet receive the CONNECT protocol, check later when sending
\* the first PONG": also a client that is registered and has not sent CONNECT
\* gets the update, with its first PONG.
CheckedAtFirstPong ==
    Quiet => \A c \in Clients \ leaks :
        Subscribed(c) => seen[c] = infoJSON \/ {<<c, "created">>, <<c, "early">>} \cap skipped # {}

\* cproto counts the clients that take updates, and is never too small; it is
\* too large only after a client sent CONNECT twice or after it was closed.
CprotoAccounts ==
    Quiet => LET n == Cardinality({c \in clients : nc[c] /\ proto[c]})
             IN cproto - others >= n /\ (leaks = {} => cproto - others = n)

\* The registered clients are the open ones, and those whose authorization
\* timer ran out before they were registered.
RegistryAccounts ==
    Quiet => clients = {c \in Clients : nc[c] /\ at[c] \notin {"new", "register"}} \cup zombies

\* The tables of the server account for its clients (createClient, processConnect,
\* removeClient).
TablesAccount == RegistryAccounts /\ CprotoAccounts

\* A client that is silently gone is removed in the end, by its unanswered PINGs
\* or its missing CONNECT, unless it is a TLS connection, which is never pinged.
LostIsRemoved ==
    \A c \in Clients : sock[c] = "lost" /\ ~tls ~> c \notin clients \/ c \in zombies

\* A client is closed that does not authorize itself in time, unless a request
\* for /connz has taken the lock of a TLS client for good, caught between its
\* registration and its handshake.
Unauthorized(c) == auth /\ at[c] # "new" /\ "connectReceived" \notin flags[c]
AuthorizesOrCloses == \A c \in Clients : Unauthorized(c) ~> ~Unauthorized(c) \/ ~nc[c] \/ (tls /\ c \in wedged)
=============================================================================
