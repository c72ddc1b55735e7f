----------------------------- MODULE Lifecycle -----------------------------
(***************************************************************************)
(* Start-up and shutdown of one gnatsd server (server/server.go,           *)
(* server/route.go): the goroutines of Start, the three listeners, the     *)
(* internal client, the connections they create, and Shutdown, which takes *)
(* all of it down while any of it may still be coming up.                  *)
(*                                                                         *)
(* A step is what a goroutine does between two points where another one    *)
(* can run: a lock it takes, a channel it waits on.  s.mu is held across   *)
(* steps only by Shutdown, so smu records just that holder; icliMu is      *)
(* s.icli.mu.  grMu guards single assignments and needs no variable.       *)
(***************************************************************************)
EXTENDS Integers, FiniteSets

CONSTANTS
    Peers,      \* connections with clients and other servers
    InternalC,  \* the connection of the internal client
    MaxConn,    \* opts.MaxConn; 0 is no limit
    MaxLosses   \* how often a peer drops its connection (bound)

Conns == Peers \cup {InternalC}

ASSUME LifecycleAssumption ==
    /\ IsFiniteSet(Peers) /\ InternalC \notin Peers
    /\ MaxConn \in Nat /\ MaxLosses \in Nat

VARIABLES
    kind,               \* what a peer is: "client", "route" (it dials the route
                        \* port) or "solicited" (a configured route); fixed
    tls,                \* a TLSConfig is set; fixed
    Internal,           \* s.icli.configured: the internal client, or none; fixed
    early,              \* Shutdown was called before ReadyForConnections held
    running, grRunning, \* s.running, s.grRunning
    smu,                \* TRUE while Shutdown holds s.mu
    icliMu,             \* holder of s.icli.mu: "free", "icli" or "shutdown"
    clr, rcQuit,        \* clientListenReady and s.rcQuit have been closed
    lsn,                \* state of the listeners of the three ports
    done,               \* values waiting in s.done, a channel of capacity 1
    grWG,               \* s.grWG
    pc,                 \* where each of the server's own goroutines is
    mship,              \* the internal client's Membership: "nil", "failed" (its
                        \* Start failed, still nil), "up" or "stopped"
    panicked,           \* a nil pointer was dereferenced
    conn,               \* where the goroutine that owns a connection is
    nc,                 \* the connection: "none", "open", "lost" or "closed"
    clients, routes, tmp, \* s.clients, s.routes, s.grTmpClients
    toClose,            \* conns, the connections Shutdown collected
    doneExpected,       \* Shutdown's count of accept loops to wait for
    losses              \* connections dropped by their peer so far

vars == <<kind, tls, Internal, early, running, grRunning, smu, icliMu, clr, rcQuit, lsn, done, grWG, pc,
          mship, panicked, conn, nc, clients, routes, tmp, toClose,
          doneExpected, losses>>

Clients == {c \in Peers : kind[c] = "client"}
Routes == {c \in Peers : kind[c] = "route"}
Solicited == {c \in Peers : kind[c] = "solicited"}

config == <<kind, tls, Internal>>
flags == <<running, grRunning, clr, rcQuit>>
locks == <<smu, icliMu>>
ports == <<lsn, done>>
agent == <<mship, panicked>>
tables == <<clients, routes, tmp>>
conns == <<conn, nc, tables, losses>>
collected == <<toClose, doneExpected, early>>

Ports == {"client", "route", "http"}

Init ==
    /\ kind \in [Peers -> {"client", "route", "solicited"}] /\ tls \in BOOLEAN
    /\ Internal \in SUBSET {InternalC}
    /\ early = FALSE
    /\ running = FALSE /\ grRunning = FALSE
    /\ smu = FALSE /\ icliMu = "free"
    /\ clr = FALSE /\ rcQuit = FALSE
    /\ lsn = [p \in Ports |-> "none"] /\ done = 0
    /\ grWG = 0
    /\ pc = [start |-> "begin", icli |-> "none", routing |-> "none",
             racc |-> "none", http |-> "none", shutdown |-> "idle"]
    /\ mship = "nil" /\ panicked = FALSE
    /\ conn = [c \in Conns |-> "none"] /\ nc = [c \in Conns |-> "none"]
    /\ clients = {} /\ routes = {} /\ tmp = {}
    /\ toClose = {} /\ doneExpected = 0
    /\ losses = 0

Goto(g, l) == pc' = [pc EXCEPT ![g] = l]

\* startGoRoutine: the goroutine is counted and runs, unless the server is
\* being shut down, when nothing is started.
Spawned == IF grRunning THEN 1 ELSE 0

-----------------------------------------------------------------------------
(* Start *)

StartRunning ==
    /\ pc.start = "begin" /\ ~smu
    /\ running' = TRUE
    /\ Goto("start", "setGr")
    /\ UNCHANGED <<grRunning, clr, rcQuit, locks, ports, grWG, agent, conns, collected>>

StartGrRunning ==
    /\ pc.start = "setGr"
    /\ grRunning' = TRUE
    /\ Goto("start", "services")
    /\ UNCHANGED <<running, clr, rcQuit, locks, ports, grWG, agent, conns, collected>>

\* s.http is assigned without s.mu.
startMonitoring == lsn' = [lsn EXCEPT !.http = "stored"]

\* Monitoring is started with its goroutine, then the routing goroutine.
StartServices ==
    /\ pc.start = "services"
    /\ startMonitoring
    /\ grWG' = grWG + Spawned
    /\ pc' = [pc EXCEPT !.start = "icli", !.http = "serve",
                        !.routing = IF grRunning THEN "wait" ELSE "none"]
    /\ UNCHANGED <<flags, locks, done, agent, conns, collected>>

\* s.icli.mu is taken here and released by the goroutine started here.
StartInternal ==
    /\ pc.start = "icli" /\ icliMu = "free"
    /\ icliMu' = "icli"
    /\ pc' = [pc EXCEPT !.start = "listen", !.icli = "wait"]
    /\ UNCHANGED <<flags, smu, ports, grWG, agent, conns, collected>>

\* The internal-client goroutine: wait until clients are accepted, start the
\* client, hand its end of the pair to createClient.
InternalQuit ==
    /\ pc.icli = "wait" /\ rcQuit
    /\ icliMu' = "free"
    /\ Goto("icli", "ended")
    /\ UNCHANGED <<flags, smu, ports, grWG, agent, conns, collected>>

InternalStart ==
    /\ pc.icli = "wait" /\ clr
    /\ mship' = IF Internal = {} THEN mship ELSE "up"
    /\ grWG' = grWG + (IF grRunning THEN Cardinality(Internal) ELSE 0)
    /\ conn' = [c \in Conns |-> IF c \in Internal
                                THEN IF grRunning THEN "new" ELSE "refused"
                                ELSE conn[c]]
    /\ nc' = [c \in Conns |-> IF c \in Internal THEN "open" ELSE nc[c]]
    /\ icliMu' = "free"
    /\ Goto("icli", "ended")
    /\ UNCHANGED <<flags, smu, ports, panicked, tables, losses, collected>>

\* NewInternalClientPair fails: the error is logged and Membership stays nil.
InternalStartFails ==
    /\ pc.icli = "wait" /\ clr /\ Internal # {}
    /\ mship' = "failed"
    /\ icliMu' = "free"
    /\ Goto("icli", "ended")
    /\ UNCHANGED <<flags, smu, ports, grWG, panicked, conns, collected>>

-----------------------------------------------------------------------------
(* The accept loops *)

\* The listener is stored under s.mu, which lets Shutdown close it.
Listen(g, p) ==
    /\ pc[g] = "listen" /\ ~smu
    /\ lsn' = [lsn EXCEPT ![p] = "stored"]
    /\ Goto(g, "ready")
    /\ UNCHANGED <<flags, locks, done, grWG, agent, conns, collected>>

ListenerReady ==
    /\ pc.start = "ready"
    /\ clr' = TRUE
    /\ Goto("start", "check")
    /\ UNCHANGED <<running, grRunning, rcQuit, locks, ports, grWG, agent, conns, collected>>

\* close(ch) in routeAcceptLoop releases StartRouting.
RouteListenerReady ==
    /\ pc.racc = "ready"
    /\ pc' = [pc EXCEPT !.racc = "check", !.routing = "solicit"]
    /\ UNCHANGED <<flags, locks, ports, grWG, agent, conns, collected>>

\* The head of the loop reads s.running under s.mu.
CheckRunning(g) ==
    /\ pc[g] = "check" /\ ~smu
    /\ Goto(g, IF running THEN "accept" ELSE "exit")
    /\ UNCHANGED <<flags, locks, ports, grWG, agent, conns, collected>>

\* A dialled connection waits in the listener's backlog until Accept.
Accept(g, set) ==
    /\ pc[g] = "accept"
    /\ \E c \in set :
         /\ conn[c] = "queued"
         /\ conn' = [conn EXCEPT ![c] = IF grRunning THEN "new" ELSE "refused"]
    /\ grWG' = grWG + Spawned
    /\ Goto(g, "check")
    /\ UNCHANGED <<flags, locks, ports, agent, nc, tables, losses, collected>>

AcceptError(g, p) ==
    /\ pc[g] = "accept" /\ lsn[p] = "closed"
    /\ Goto(g, "check")
    /\ UNCHANGED <<flags, locks, ports, grWG, agent, conns, collected>>

\* s.done <- true, which blocks while the channel is full.
AcceptExit(g) ==
    /\ pc[g] = "exit" /\ done = 0
    /\ done' = 1
    /\ Goto(g, "ended")
    /\ UNCHANGED <<flags, locks, lsn, grWG, agent, conns, collected>>

HttpClosed ==
    /\ pc.http = "serve" /\ lsn.http = "closed"
    /\ Goto("http", "exit")
    /\ UNCHANGED <<flags, locks, ports, grWG, agent, conns, collected>>

\* StartRouting: wait for the client port, start the route accept loop, then
\* solicit the configured routes.
RoutingWait ==
    /\ pc.routing = "wait" /\ clr
    /\ pc' = [pc EXCEPT !.routing = "waitAccept", !.racc = "listen"]
    /\ UNCHANGED <<flags, locks, ports, grWG, agent, conns, collected>>

solicitRoutes ==
    /\ pc.routing = "solicit"
    /\ conn' = [c \in Conns |-> IF c \in Solicited /\ grRunning
                                THEN "dialing" ELSE conn[c]]
    /\ grWG' = grWG - 1 + (IF grRunning THEN Cardinality(Solicited) ELSE 0)
    /\ Goto("routing", "ended")
    /\ UNCHANGED <<flags, locks, ports, agent, nc, tables, losses, collected>>

-----------------------------------------------------------------------------
(* Connections *)

\* A peer dials one of the open ports (environment).
Dial(c) ==
    /\ conn[c] = "none"
    /\ \/ c \in Clients /\ lsn.client = "stored"
       \/ c \in Routes /\ lsn.route = "stored"
    /\ conn' = [conn EXCEPT ![c] = "queued"]
    /\ nc' = [nc EXCEPT ![c] = "open"]
    /\ UNCHANGED <<flags, locks, ports, grWG, pc, agent, tables, losses, collected>>

\* The peer drops its end (environment).
Lose(c) ==
    /\ nc[c] = "open" /\ losses < MaxLosses
    /\ conn[c] \in {"new", "handshake", "spin", "reading"}
    /\ nc' = [nc EXCEPT ![c] = "lost"]
    /\ losses' = losses + 1
    /\ UNCHANGED <<flags, locks, ports, grWG, pc, agent, conn, tables, collected>>

\* closeConnection with removeClient, which has no case for internal clients:
\* they stay in s.clients.  A second call finds c.nc nil and returns.
closeConnection(c) ==
    IF nc[c] = "closed" THEN UNCHANGED <<nc, clients, routes>>
    ELSE /\ nc' = [nc EXCEPT ![c] = "closed"]
         /\ clients' = IF c \in Internal THEN clients ELSE clients \ {c}
         /\ routes' = routes \ {c}

\* The tail of closeConnection: a configured route is dialled again while the
\* server runs.  Otherwise the goroutine on the connection is over.
Reconnects(c) == c \in Solicited /\ nc[c] # "closed" /\ running

\* The goroutine that owns c ends; l is what becomes of the connection.
Ends(c, l) ==
    /\ conn' = [conn EXCEPT ![c] = IF Reconnects(c) /\ grRunning THEN "dialing" ELSE l]
    /\ grWG' = IF Reconnects(c) THEN grWG - 1 + Spawned ELSE grWG - 1

\* The limit on connections is reached.
Full == MaxConn > 0 /\ Cardinality(clients) >= MaxConn

maxConnExceeded(c) == closeConnection(c)

\* createClient reads s.infoJSON, sends INFO and registers under s.mu: it bails
\* out when Shutdown has been here and refuses when the table is full.
createClient(c) ==
    /\ c \in Clients \cup Internal
    /\ conn[c] = "new" /\ ~smu
    /\ \/ /\ ~running
          /\ conn' = [conn EXCEPT ![c] = "abandoned"]
          /\ grWG' = grWG - 1
          /\ UNCHANGED <<nc, clients, routes>>
       \/ /\ running /\ Full
          /\ maxConnExceeded(c)
          /\ conn' = [conn EXCEPT ![c] = "ended"]
          /\ grWG' = grWG - 1
       \/ /\ running /\ ~Full
          /\ clients' = clients \cup {c}
          /\ conn' = [conn EXCEPT ![c] = IF tls /\ c \notin Internal
                                         THEN "handshake" ELSE "spin"]
          /\ UNCHANGED <<nc, routes, grWG>>
    /\ UNCHANGED <<flags, locks, ports, pc, agent, tmp, losses, collected>>

createRoute(c) ==
    /\ c \in Routes \cup Solicited
    /\ conn[c] = "new" /\ ~smu
    /\ conn' = [conn EXCEPT ![c] = IF tls THEN "handshake" ELSE "spin"]
    /\ UNCHANGED <<flags, locks, ports, grWG, pc, agent, nc, tables, losses, collected>>

Handshake(c) ==
    /\ conn[c] = "handshake" /\ nc[c] = "open"
    /\ conn' = [conn EXCEPT ![c] = "spin"]
    /\ UNCHANGED <<flags, locks, ports, grWG, pc, agent, nc, tables, losses, collected>>

\* A handshake error, or tlsTimeout closing the connection under it.
HandshakeFails(c) ==
    /\ conn[c] = "handshake" /\ ~smu
    /\ closeConnection(c)
    /\ Ends(c, "ended")
    /\ UNCHANGED <<flags, locks, ports, pc, agent, tmp, losses, collected>>

\* Mutant: routes are not kept in grTmpClients.
SpinReadLoop_Untracked(c) ==
    /\ conn[c] = "spin"
    /\ IF nc[c] = "closed"
       THEN conn' = [conn EXCEPT ![c] = "ended"] /\ grWG' = grWG - 1
       ELSE /\ conn' = [conn EXCEPT ![c] = IF grRunning THEN "reading" ELSE "abandoned"]
            /\ grWG' = grWG - 1 + Spawned
    /\ UNCHANGED <<flags, locks, ports, pc, agent, nc, tables, losses, collected>>

\* The connection may have been closed meanwhile; a route enters grTmpClients
\* before its read loop is started.
SpinReadLoop(c) ==
    /\ conn[c] = "spin"
    /\ IF nc[c] = "closed"
       THEN conn' = [conn EXCEPT ![c] = "ended"] /\ grWG' = grWG - 1 /\ UNCHANGED tmp
       ELSE /\ tmp' = IF c \in Routes \cup Solicited THEN tmp \cup {c} ELSE tmp
            /\ conn' = [conn EXCEPT ![c] = IF grRunning THEN "reading" ELSE "abandoned"]
            /\ grWG' = grWG - 1 + Spawned
    /\ UNCHANGED <<flags, locks, ports, pc, agent, nc, clients, routes, losses, collected>>

\* readLoop reads an error, or finds the connection closed under it.
readLoopEnds(c) ==
    /\ conn[c] = "reading" /\ nc[c] \in {"lost", "closed"}
    /\ nc[c] = "lost" => ~smu
    /\ closeConnection(c)
    /\ Ends(c, "ended")
    /\ UNCHANGED <<flags, locks, ports, pc, agent, tmp, losses, collected>>

\* readLoop reads the INFO of the other server, and addRoute moves the
\* connection from grTmpClients to the routes, unless Shutdown has been here.
addRoute(c) ==
    /\ c \in Routes \cup Solicited /\ c \notin routes
    /\ conn[c] = "reading" /\ nc[c] \in {"open", "lost"} /\ ~smu
    /\ \/ /\ running
          /\ routes' = routes \cup {c}
          /\ tmp' = tmp \ {c}
          /\ UNCHANGED <<conn, nc, clients, grWG>>
       \/ /\ ~running
          /\ closeConnection(c)
          /\ Ends(c, "ended")
          /\ UNCHANGED tmp
    /\ UNCHANGED <<flags, locks, ports, pc, agent, losses, collected>>

\* Mutant: the loop does not look at s.running.
connectToRoute_Forever(c) ==
    /\ conn[c] = "dialing" /\ ~smu
    /\ conn' = [conn EXCEPT ![c] = "connect"]
    /\ UNCHANGED <<flags, locks, ports, grWG, pc, agent, nc, tables, losses, collected>>

\* connectToRoute: the loop's test of s.running, the dial, the pause.
connectToRoute(c) ==
    /\ conn[c] = "dialing" /\ ~smu
    /\ conn' = [conn EXCEPT ![c] = IF running THEN "connect" ELSE "ended"]
    /\ grWG' = IF running THEN grWG ELSE grWG - 1
    /\ UNCHANGED <<flags, locks, ports, pc, agent, nc, tables, losses, collected>>

DialRoute(c) ==
    /\ conn[c] = "connect"
    /\ \/ conn' = [conn EXCEPT ![c] = "new"] /\ nc' = [nc EXCEPT ![c] = "open"]
       \/ conn' = [conn EXCEPT ![c] = "pause"] /\ UNCHANGED nc
    /\ UNCHANGED <<flags, locks, ports, grWG, pc, agent, tables, losses, collected>>

DialPause(c) ==
    /\ conn[c] = "pause"
    /\ \/ rcQuit /\ conn' = [conn EXCEPT ![c] = "ended"] /\ grWG' = grWG - 1
       \/ conn' = [conn EXCEPT ![c] = "dialing"] /\ UNCHANGED grWG
    /\ UNCHANGED <<flags, locks, ports, pc, agent, nc, tables, losses, collected>>

-----------------------------------------------------------------------------
(* Shutdown *)

\* ReadyForConnections.
Ready == lsn.client = "stored" /\ lsn.route = "stored"

\* s.mu is taken here and kept until the connections have been collected.
Shutdown ==
    /\ pc.shutdown = "idle" /\ ~smu /\ running
    /\ early' = ~Ready
    /\ smu' = TRUE
    /\ running' = FALSE /\ grRunning' = FALSE
    /\ Goto("shutdown", "icli")
    /\ UNCHANGED <<clr, rcQuit, icliMu, ports, grWG, agent, conns, toClose, doneExpected>>

ShutdownLockInternal ==
    /\ pc.shutdown = "icli" /\ icliMu = "free"
    /\ icliMu' = "shutdown"
    /\ Goto("shutdown", "stop")
    /\ UNCHANGED <<flags, smu, ports, grWG, agent, conns, collected>>

\* Agent.Stop calls h.mship.Stop() whatever happened in Start.
StopInternal ==
    /\ pc.shutdown = "stop"
    /\ \/ /\ Internal # {} /\ mship # "up"
          /\ panicked' = TRUE
          /\ Goto("shutdown", "dead")
          /\ UNCHANGED <<mship, nc, icliMu>>
       \/ /\ Internal = {} \/ mship = "up"
          /\ mship' = IF mship = "up" THEN "stopped" ELSE mship
          /\ nc' = [c \in Conns |-> IF c \in Internal /\ nc[c] = "open"
                                    THEN "lost" ELSE nc[c]]
          /\ icliMu' = "free"
          /\ Goto("shutdown", "collect")
          /\ UNCHANGED panicked
    /\ UNCHANGED <<flags, smu, ports, grWG, conn, tables, losses, collected>>

\* Collect the connections, close the listeners, release the dialling
\* goroutines and let go of s.mu.  Connections still in the backlog of a
\* closed listener are reset.
Collect ==
    /\ pc.shutdown = "collect"
    /\ toClose' = clients \cup tmp \cup routes
    /\ doneExpected' = Cardinality({p \in Ports : lsn[p] = "stored"})
    /\ lsn' = [p \in Ports |-> IF lsn[p] = "stored" THEN "closed" ELSE lsn[p]]
    /\ conn' = [c \in Conns |->
                  IF /\ conn[c] = "queued"
                     /\ lsn[IF c \in Clients THEN "client" ELSE "route"] = "stored"
                  THEN "reset" ELSE conn[c]]
    /\ nc' = [c \in Conns |-> IF conn'[c] = "reset" THEN "closed" ELSE nc[c]]
    /\ rcQuit' = TRUE
    /\ smu' = FALSE
    /\ Goto("shutdown", "close")
    /\ UNCHANGED <<running, grRunning, clr, icliMu, done, grWG, agent, tables, losses, early>>

ShutdownCloses(c) ==
    /\ pc.shutdown = "close" /\ c \in toClose
    /\ closeConnection(c)
    /\ toClose' = toClose \ {c}
    /\ UNCHANGED <<flags, locks, ports, grWG, pc, agent, conn, tmp, losses, doneExpected, early>>

\* <-s.done
ShutdownAwaits ==
    /\ pc.shutdown = "close" /\ toClose = {} /\ doneExpected > 0 /\ done = 1
    /\ done' = 0
    /\ doneExpected' = doneExpected - 1
    /\ UNCHANGED <<flags, locks, lsn, grWG, pc, agent, conns, toClose, early>>

\* Mutant: without s.grWG.Wait().
ShutdownReturn_NoWait ==
    /\ pc.shutdown = "close" /\ toClose = {} /\ doneExpected = 0
    /\ Goto("shutdown", "returned")
    /\ UNCHANGED <<flags, locks, ports, grWG, agent, conns, collected>>

\* s.grWG.Wait()
ShutdownReturn ==
    /\ pc.shutdown = "close" /\ toClose = {} /\ doneExpected = 0 /\ grWG = 0
    /\ Goto("shutdown", "returned")
    /\ UNCHANGED <<flags, locks, ports, grWG, agent, conns, collected>>

-----------------------------------------------------------------------------
StartStep ==
    \/ StartRunning \/ StartGrRunning \/ StartServices
    \/ StartInternal \/ Listen("start", "client")
    \/ ListenerReady \/ CheckRunning("start") \/ AcceptExit("start")
    \/ Accept("start", Clients) \/ AcceptError("start", "client")

RoutingStep ==
    \/ RoutingWait \/ solicitRoutes
    \/ Listen("racc", "route")
    \/ RouteListenerReady \/ CheckRunning("racc") \/ AcceptExit("racc")
    \/ Accept("racc", Routes) \/ AcceptError("racc", "route")

InternalStep == InternalQuit \/ InternalStart \/ InternalStartFails

HttpStep == HttpClosed \/ AcceptExit("http")

\* What the goroutine on a connection does of itself.
ConnStep(c) ==
    \/ createClient(c) \/ createRoute(c) \/ HandshakeFails(c)
    \/ SpinReadLoop(c) \/ readLoopEnds(c) \/ connectToRoute(c) \/ DialRoute(c)
    \/ DialPause(c)

ShutdownStep ==
    \/ ShutdownLockInternal \/ StopInternal \/ Collect
    \/ (\E c \in Conns : ShutdownCloses(c))
    \/ ShutdownAwaits \/ ShutdownReturn

\* A panic in any goroutine ends the process.
Next ==
    /\ ~panicked /\ UNCHANGED config
    /\ \/ StartStep \/ RoutingStep \/ InternalStep \/ HttpStep
       \/ Shutdown \/ ShutdownStep
       \/ \E c \in Conns :
             ConnStep(c) \/ Dial(c) \/ Lose(c) \/ Handshake(c) \/ addRoute(c)

Runs(step) == ~panicked /\ step /\ UNCHANGED config

\* Every goroutine that can go on eventually does.  Nothing obliges a peer to
\* dial, drop a connection, finish a handshake or send its INFO.
Fairness ==
    /\ WF_vars(Runs(StartStep))
    /\ WF_vars(Runs(RoutingStep))
    /\ WF_vars(Runs(InternalStep))
    /\ WF_vars(Runs(HttpStep))
    /\ WF_vars(Runs(ShutdownStep))
    /\ \A c \in Conns : WF_vars(Runs(ConnStep(c)))

Spec == Init /\ [][Next]_vars /\ Fairness

-----------------------------------------------------------------------------
(* Properties *)

TypeOK ==
    /\ running \in BOOLEAN /\ grRunning \in BOOLEAN /\ smu \in BOOLEAN
    /\ icliMu \in {"free", "icli", "shutdown"}
    /\ clr \in BOOLEAN /\ rcQuit \in BOOLEAN
    /\ lsn \in [Ports -> {"none", "stored", "closed"}]
    /\ done \in 0..1 /\ grWG \in Nat /\ doneExpected \in 0..3
    /\ mship \in {"nil", "failed", "up", "stopped"} /\ panicked \in BOOLEAN
    /\ conn \in [Conns -> {"none", "queued", "new", "handshake", "spin",
                           "reading", "abandoned", "refused", "reset", "ended",
                           "dialing", "connect", "pause"}]
    /\ nc \in [Conns -> {"none", "open", "lost", "closed"}]
    /\ clients \subseteq Clients \cup Internal
    /\ MaxConn > 0 => Cardinality(clients) <= MaxConn
    /\ routes \subseteq Conns /\ tmp \subseteq Conns /\ toClose \subseteq Conns

\* Once Shutdown has collected the connections and let go of s.mu, every read
\* loop that runs, or is started from then on, is one whose connection it will
\* close or that is closed already: no read loop is left uninterrupted
\* (createClient's test of s.running, grTmpClients, startGoRoutine).
NoReaderLeft ==
    pc.shutdown \in {"close", "returned"} =>
        \A c \in Conns : conn[c] = "reading" => c \in toClose \/ nc[c] # "open"

\* When Shutdown has returned, the three ports are closed, the accept loops
\* and every counted goroutine have ended, and a connection that is still open
\* is one that was refused by startGoRoutine or given up by createClient or
\* createRoute because Shutdown was under way.
QuietAfterShutdown ==
    pc.shutdown = "returned" /\ ~early =>
        /\ \A p \in Ports : lsn[p] = "closed"
        /\ pc.start = "ended" /\ pc.racc = "ended" /\ pc.http = "ended"
        /\ \A c \in Conns :
             /\ conn[c] \in {"none", "reset", "ended", "abandoned", "refused"}
             /\ nc[c] \in {"open", "lost"} => conn[c] \in {"abandoned", "refused"}

\* A call of Shutdown returns: the locks it holds while it waits for the
\* internal clients, the capacity of s.done and the wait group never keep it
\* for ever.  There are two exceptions.  Agent.Stop panics on an agent whose
\* Start failed or has not run yet.  And a call that comes while Start is
\* between s.icli.mu.Lock and the s.mu.Lock of AcceptLoop waits for the
\* internal-client goroutine, which waits for AcceptLoop, which waits for s.mu.
StuckInStart == early /\ pc.icli = "wait" /\ pc.start = "listen" /\ smu

ShutdownReturns ==
    (pc.shutdown = "icli") ~>
        \/ pc.shutdown = "returned"
        \/ panicked /\ (mship = "failed" \/ early)
        \/ StuckInStart

\* "Shutdown will shutdown the server instance": every call returns.
EveryShutdownReturns == (pc.shutdown = "icli") ~> (pc.shutdown = "returned")
=============================================================================
