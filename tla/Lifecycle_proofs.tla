-------------------------- MODULE Lifecycle_proofs --------------------------
(***************************************************************************)
(* What Shutdown leaves behind (NoReaderLeft, QuietAfterShutdown), for any *)
(* finite number of connections and any limits.  Part one is about the     *)
(* server's own goroutines, the listeners and the channel s.done, part two *)
(* about the connections and the tables they are in, and part three about  *)
(* the wait group s.grWG.                                                  *)
(***************************************************************************)
EXTENDS Lifecycle, TLAPS

-----------------------------------------------------------------------------
(* The goroutines of the server *)

\* Where an accept loop can be.
LoopAt == {"listen", "ready", "check", "accept", "exit", "ended"}

\* Where Shutdown holds s.mu, and where it has let go of it.
Held == {"icli", "stop", "collect", "dead"}
Released == {"close", "returned"}

\* Where the goroutine of a connection can be.
ConnAt == {"none", "queued", "new", "handshake", "spin", "reading", "abandoned", "refused",
           "reset", "ended", "dialing", "connect", "pause"}

\* The types of what the invariant is about.
ServerTypes ==
  /\ early \in BOOLEAN /\ running \in BOOLEAN /\ grRunning \in BOOLEAN /\ smu \in BOOLEAN
  /\ lsn \in [Ports -> {"none", "stored", "closed"}] /\ done \in {0, 1} /\ doneExpected \in Nat
  /\ pc \in [start : {"begin", "setGr", "services", "icli"} \cup LoopAt,
             icli : {"none", "wait", "ended"},
             routing : {"none", "wait", "waitAccept", "solicit", "ended"},
             racc : {"none"} \cup LoopAt,
             http : {"none", "serve", "exit", "ended"},
             shutdown : {"idle"} \cup Held \cup Released]

ConnTypes ==
  /\ kind \in [Peers -> {"client", "route", "solicited"}] /\ Internal \in SUBSET {InternalC}
  /\ conn \in [Conns -> ConnAt] /\ nc \in [Conns -> {"none", "open", "lost", "closed"}]

\* s.grRunning is set, or about to be, though Shutdown has reset it.
Late == pc.shutdown # "idle" /\ (grRunning \/ pc.start = "setGr")

\* s.running and s.mu follow Start and Shutdown.  s.grRunning can be set late only if
\* Shutdown was early, and then nobody accepts.  The goroutines come up in the order
\* of Start and StartRouting.
PhaseInv ==
  /\ running <=> (pc.shutdown = "idle" /\ pc.start # "begin")
  /\ smu <=> pc.shutdown \in Held
  /\ pc.start = "begin" => pc.shutdown = "idle"
  /\ grRunning => pc.start \notin {"begin", "setGr"}
  /\ Late => early /\ pc.start # "accept" /\ pc.racc # "accept"
  /\ pc.start \in {"begin", "setGr", "services"} => pc.routing = "none"
  /\ pc.start \in {"begin", "setGr", "services", "icli"} => pc.icli = "none"
  /\ pc.routing \in {"none", "wait"} => pc.racc = "none"
  /\ pc.routing = "waitAccept" => pc.racc \in {"listen", "ready"}
  /\ pc.routing \in {"solicit", "ended"} => pc.racc \in {"check", "accept", "exit", "ended"}

\* A port listens once its goroutine has got there, and is closed by Shutdown only,
\* which an accept loop notices no sooner than s.mu is free.  If Shutdown was not
\* early it finds the three ports open and closes them.
PortInv ==
  /\ (lsn["client"] # "none") <=> (pc.start \in LoopAt \ {"listen"})
  /\ (lsn["route"] # "none") <=> (pc.racc \in LoopAt \ {"listen"})
  /\ (lsn["http"] # "none") <=> (pc.start \notin {"begin", "setGr", "services"})
  /\ (lsn["http"] # "none") <=> (pc.http # "none")
  /\ pc.shutdown \notin Released =>
       /\ \A p \in Ports : lsn[p] # "closed"
       /\ pc.start \notin {"exit", "ended"} /\ pc.racc \notin {"exit", "ended"}
       /\ pc.http \notin {"exit", "ended"} /\ done = 0
  /\ ~early /\ pc.shutdown \in Held => \A p \in Ports : lsn[p] = "stored"
  /\ ~early /\ pc.shutdown \in Released => \A p \in Ports : lsn[p] = "closed"

\* 1 for an accept loop that has ended.
Over(l) == IF l = "ended" THEN 1 ELSE 0

\* Every accept loop that ended has put a value in s.done, which is there or was
\* taken by Shutdown.
DoneInv ==
  ~early /\ pc.shutdown \in Released =>
    doneExpected + Over(pc.start) + Over(pc.racc) + Over(pc.http) = 3 + done

\* What Shutdown waits for is done when it returns.
ReturnInv ==
  pc.shutdown = "returned" => toClose = {} /\ (~early => doneExpected = 0)

ControlInv == ServerTypes /\ PhaseInv /\ PortInv /\ DoneInv /\ ReturnInv

\* What the counts need to know of finite sets.
SizeFacts ==
  /\ Cardinality(Ports) = 3 /\ \A S \in SUBSET Ports : Cardinality(S) \in Nat
  /\ Cardinality({}) = 0 /\ \A c \in Conns : Cardinality({c}) = 1
  /\ \A S \in SUBSET Conns : Cardinality(S) \in Nat /\ (Cardinality(S) = 0 => S = {})
  /\ \A S, T \in SUBSET Conns :
       S \cap T = {} => Cardinality(S \cup T) = Cardinality(S) + Cardinality(T)

\* The steps of the server's goroutines that leave the connections alone.
ServerStep ==
  \/ StartRunning \/ StartGrRunning \/ StartServices \/ StartInternal \/ InternalQuit
  \/ InternalStartFails \/ Listen("start", "client") \/ Listen("racc", "route")
  \/ ListenerReady \/ RouteListenerReady \/ CheckRunning("start") \/ CheckRunning("racc")
  \/ AcceptError("start", "client") \/ AcceptError("racc", "route")
  \/ AcceptExit("start") \/ AcceptExit("racc") \/ AcceptExit("http") \/ HttpClosed
  \/ RoutingWait \/ ShutdownLockInternal \/ ShutdownAwaits \/ ShutdownReturn

\* The steps that reach many connections, or accept one.
WideStep ==
  \/ InternalStart \/ Accept("start", Clients) \/ Accept("racc", Routes) \/ solicitRoutes
  \/ Shutdown \/ StopInternal \/ Collect

\* The steps about one connection.
ConnectionStep(c) ==
  ConnStep(c) \/ Dial(c) \/ Lose(c) \/ Handshake(c) \/ addRoute(c) \/ ShutdownCloses(c)

\* Every step is one of the three kinds.
LEMMA NextSplit ==
  ASSUME Next
  PROVE  /\ UNCHANGED config
         /\ ServerStep \/ WideStep \/ \E c \in Conns : ConnectionStep(c)
BY Zenon DEF Next, StartStep, RoutingStep, InternalStep, HttpStep, ShutdownStep, ServerStep,
   WideStep, ConnectionStep

\* What a step of the server does not undo.
Onward ==
  /\ early' = early
  /\ pc'.start \in {"begin", "setGr"} => pc.start \in {"begin", "setGr"}
  /\ pc'.routing # "ended" => pc.routing # "ended"
  /\ pc'.icli # "ended" => pc.icli # "ended"
  /\ pc'.shutdown \in Released => pc.shutdown \in Released
  /\ pc'.shutdown = "returned" => pc.shutdown = "returned" \/ grWG = 0
  /\ Late' => Late

\* The steps that leave the connections alone keep the invariant of the server.
LEMMA ServerControl ==
  ASSUME ControlInv, ServerStep
  PROVE  ControlInv' /\ Onward /\ UNCHANGED <<conn, nc, clients, routes, tmp, toClose>>
<1> USE DEF ControlInv, ServerTypes, PhaseInv, PortInv, DoneInv, ReturnInv, Late, LoopAt, Held,
    Released, Over, Ports, Onward, flags, locks, ports, conns, tables, collected, Goto
<1>1. CASE StartRunning
  BY <1>1 DEF StartRunning
<1>2. CASE StartGrRunning
  BY <1>2 DEF StartGrRunning
<1>3. CASE StartServices
  BY <1>3 DEF StartServices, startMonitoring
<1>4. CASE StartInternal
  <2>1. ServerTypes'
    BY <1>4 DEF StartInternal
  <2>2. PhaseInv'
    BY <1>4 DEF StartInternal
  <2>3. PortInv'
    BY <1>4 DEF StartInternal
  <2>4. DoneInv' /\ ReturnInv'
    BY <1>4 DEF StartInternal
  <2>5. Onward /\ UNCHANGED <<conn, nc, clients, routes, tmp, toClose>>
    BY <1>4 DEF StartInternal
  <2> QED
    BY <2>1, <2>2, <2>3, <2>4, <2>5, Zenon
<1>5. CASE InternalQuit
  BY <1>5 DEF InternalQuit
<1>6. CASE InternalStartFails
  BY <1>6 DEF InternalStartFails
<1>7. CASE Listen("start", "client")
  BY <1>7 DEF Listen
<1>8. CASE Listen("racc", "route")
  BY <1>8 DEF Listen
<1>9. CASE ListenerReady
  BY <1>9 DEF ListenerReady
<1>10. CASE RouteListenerReady
  <2>1. ServerTypes'
    BY <1>10 DEF RouteListenerReady
  <2>2. PhaseInv'
    BY <1>10 DEF RouteListenerReady
  <2>3. PortInv'
    BY <1>10 DEF RouteListenerReady
  <2>4. DoneInv' /\ ReturnInv'
    BY <1>10 DEF RouteListenerReady
  <2>5. Onward /\ UNCHANGED <<conn, nc, clients, routes, tmp, toClose>>
    BY <1>10 DEF RouteListenerReady
  <2> QED
    BY <2>1, <2>2, <2>3, <2>4, <2>5, Zenon
<1>11. CASE CheckRunning("start")
  BY <1>11 DEF CheckRunning
<1>12. CASE CheckRunning("racc")
  BY <1>12 DEF CheckRunning
<1>13. CASE AcceptError("start", "client")
  BY <1>13 DEF AcceptError
<1>14. CASE AcceptError("racc", "route")
  BY <1>14 DEF AcceptError
<1>15. CASE AcceptExit("start")
  BY <1>15 DEF AcceptExit
<1>16. CASE AcceptExit("racc")
  BY <1>16 DEF AcceptExit
<1>17. CASE AcceptExit("http")
  BY <1>17 DEF AcceptExit
<1>18. CASE HttpClosed
  BY <1>18 DEF HttpClosed
<1>19. CASE RoutingWait
  <2>1. ServerTypes'
    BY <1>19 DEF RoutingWait
  <2>2. PhaseInv'
    BY <1>19 DEF RoutingWait
  <2>3. PortInv'
    BY <1>19 DEF RoutingWait
  <2>4. DoneInv' /\ ReturnInv'
    BY <1>19 DEF RoutingWait
  <2>5. Onward /\ UNCHANGED <<conn, nc, clients, routes, tmp, toClose>>
    BY <1>19 DEF RoutingWait
  <2> QED
    BY <2>1, <2>2, <2>3, <2>4, <2>5, Zenon
<1>20. CASE ShutdownLockInternal
  BY <1>20 DEF ShutdownLockInternal
<1>21. CASE ShutdownAwaits
  BY <1>21 DEF ShutdownAwaits
<1>22. CASE ShutdownReturn
  BY <1>22 DEF ShutdownReturn
<1> QED
  BY <1>1, <1>2, <1>3, <1>4, <1>5, <1>6, <1>7, <1>8, <1>9, <1>10, <1>11, <1>12, <1>13,
     <1>14, <1>15, <1>16, <1>17, <1>18, <1>19, <1>20, <1>21, <1>22, Zenon DEF ServerStep

\* So do those that reach many connections; only Shutdown and Collect begin a phase.
LEMMA WideControl ==
  ASSUME SizeFacts, ControlInv, WideStep
  PROVE  ControlInv' /\ (Shutdown \/ Collect \/ Onward)
<1> USE DEF ControlInv, ServerTypes, LoopAt, Held, Released, Ports, flags, locks, ports,
    collected, Goto
<1>1. CASE InternalStart
  <2>1. ServerTypes' /\ PhaseInv'
    BY <1>1 DEF PhaseInv, PortInv, Late, InternalStart
  <2>2. PortInv'
    BY <1>1 DEF PhaseInv, PortInv, InternalStart
  <2>3. DoneInv'
    BY <1>1 DEF PhaseInv, PortInv, DoneInv, Over, InternalStart
  <2>4. ReturnInv'
    BY <1>1 DEF ReturnInv, InternalStart
  <2>5. Onward
    BY <1>1 DEF Onward, PhaseInv, Late, InternalStart
  <2> QED
    BY <1>1, <2>1, <2>2, <2>3, <2>4, <2>5, Zenon
<1>2. CASE Accept("start", Clients)
  <2>1. ServerTypes' /\ PhaseInv'
    BY <1>2 DEF PhaseInv, PortInv, Late, Accept
  <2>2. PortInv'
    BY <1>2 DEF PhaseInv, PortInv, Accept
  <2>3. DoneInv'
    BY <1>2 DEF PhaseInv, PortInv, DoneInv, Over, Accept
  <2>4. ReturnInv'
    BY <1>2 DEF ReturnInv, Accept
  <2>5. Onward
    BY <1>2 DEF Onward, PhaseInv, Late, Accept
  <2> QED
    BY <1>2, <2>1, <2>2, <2>3, <2>4, <2>5, Zenon
<1>3. CASE Accept("racc", Routes)
  <2>1. ServerTypes' /\ PhaseInv'
    BY <1>3 DEF PhaseInv, PortInv, Late, Accept
  <2>2. PortInv'
    BY <1>3 DEF PhaseInv, PortInv, Accept
  <2>3. DoneInv'
    BY <1>3 DEF PhaseInv, PortInv, DoneInv, Over, Accept
  <2>4. ReturnInv'
    BY <1>3 DEF ReturnInv, Accept
  <2>5. Onward
    BY <1>3 DEF Onward, PhaseInv, Late, Accept
  <2> QED
    BY <1>3, <2>1, <2>2, <2>3, <2>4, <2>5, Zenon
<1>4. CASE solicitRoutes
  <2>1. ServerTypes' /\ PhaseInv'
    BY <1>4 DEF PhaseInv, PortInv, Late, solicitRoutes
  <2>2. PortInv'
    BY <1>4 DEF PhaseInv, PortInv, solicitRoutes
  <2>3. DoneInv'
    BY <1>4 DEF PhaseInv, PortInv, DoneInv, Over, solicitRoutes
  <2>4. ReturnInv'
    BY <1>4 DEF ReturnInv, solicitRoutes
  <2>5. Onward
    BY <1>4 DEF Onward, PhaseInv, Late, solicitRoutes
  <2> QED
    BY <1>4, <2>1, <2>2, <2>3, <2>4, <2>5, Zenon
<1>5. CASE Shutdown
  <2>1. ServerTypes' /\ PhaseInv'
    BY <1>5 DEF PhaseInv, PortInv, Late, Shutdown, Ready
  <2>2. PortInv'
    BY <1>5 DEF PhaseInv, PortInv, Shutdown, Ready
  <2>3. DoneInv'
    BY <1>5 DEF PhaseInv, PortInv, DoneInv, Over, Shutdown, Ready
  <2>4. ReturnInv'
    BY <1>5 DEF ReturnInv, Shutdown, Ready
  <2> QED
    BY <1>5, <2>1, <2>2, <2>3, <2>4, Zenon
<1>6. CASE StopInternal
  <2>1. ServerTypes' /\ PhaseInv'
    BY <1>6 DEF PhaseInv, PortInv, Late, StopInternal
  <2>2. PortInv'
    BY <1>6 DEF PhaseInv, PortInv, StopInternal
  <2>3. DoneInv'
    BY <1>6 DEF PhaseInv, PortInv, DoneInv, Over, StopInternal
  <2>4. ReturnInv'
    BY <1>6 DEF ReturnInv, StopInternal
  <2>5. Onward
    BY <1>6 DEF Onward, PhaseInv, Late, StopInternal
  <2> QED
    BY <1>6, <2>1, <2>2, <2>3, <2>4, <2>5, Zenon
<1>7. CASE Collect
  <2>1. ServerTypes'
    BY <1>7 DEF SizeFacts, Collect
  <2>2. PhaseInv'
    BY <1>7 DEF PhaseInv, Late, Collect
  <2>3. PortInv'
    BY <1>7 DEF PhaseInv, PortInv, Collect
  <2>4. ReturnInv'
    BY <1>7 DEF ReturnInv, Collect
  <2>5. DoneInv'
    <3>1. ~early => {p \in Ports : lsn[p] = "stored"} = Ports
      BY <1>7 DEF PhaseInv, PortInv, Collect
    <3>2. ~early => doneExpected' = 3
      BY <1>7, <3>1 DEF SizeFacts, Collect
    <3> QED
      BY <1>7, <3>2 DEF PortInv, DoneInv, Over, Collect
  <2> QED
    BY <1>7, <2>1, <2>2, <2>3, <2>4, <2>5, Zenon
<1> QED
  BY <1>1, <1>2, <1>3, <1>4, <1>5, <1>6, <1>7, Zenon DEF WideStep

\* And those about one connection.
LEMMA ConnectionControl ==
  ASSUME ControlInv, NEW c \in Conns, ConnectionStep(c)
  PROVE  /\ ControlInv' /\ Onward
         /\ UNCHANGED <<running, grRunning, smu, lsn, done, pc, early, doneExpected>> /\ toClose' \subseteq toClose
<1>1. UNCHANGED <<running, grRunning, smu, lsn, done, pc, early, doneExpected>> /\ toClose' \subseteq toClose
  BY DEF ConnectionStep, ConnStep, createClient, createRoute, HandshakeFails, SpinReadLoop,
     readLoopEnds, connectToRoute, DialRoute, DialPause, Dial, Lose, Handshake, addRoute,
     ShutdownCloses, flags, locks, ports, collected
<1>2. ControlInv'
  BY <1>1 DEF ControlInv, ServerTypes, PhaseInv, PortInv, DoneInv, ReturnInv, Late
<1> QED
  BY <1>1, <1>2, Zenon DEF Onward, Late

-----------------------------------------------------------------------------
(* The connections *)

\* Late there are no goroutines on connections but dialling ones, which end, and those
\* of the internal client, which give up.
LateOK(c) ==
  Late => /\ conn[c] \notin {"handshake", "spin", "reading", "connect", "pause"}
          /\ conn[c] = "new" => c \in Internal

\* The connections whose goroutine has not been started, and what the others can be.
FreshOK(c) ==
  /\ pc.start \in {"begin", "setGr"} => conn[c] = "none"
  /\ pc.routing # "ended" /\ c \in Solicited => conn[c] = "none"
  /\ pc.icli # "ended" /\ c \in Internal => conn[c] = "none"
  /\ c \notin Peers \cup Internal => conn[c] = "none"
  /\ conn[c] = "queued" => c \in Clients \cup Routes /\ (early \/ pc.shutdown \notin Released)
  /\ conn[c] \in {"dialing", "connect", "pause"} => c \in Solicited

\* A connection is closed before its goroutine ends, unless it gives up.  Whoever is in
\* a table, or waits to be closed by Shutdown, has begun.
NcOK(c) ==
  /\ conn[c] = "none" => nc[c] = "none" /\ c \notin clients \cup tmp \cup routes \cup toClose
  /\ conn[c] \in {"reset", "ended", "dialing", "connect", "pause"} => nc[c] \in {"none", "closed"}

\* A connection that is read is in one of the tables Shutdown collects from, until it
\* is closed.
TrackOK(c) ==
  nc[c] # "closed" =>
    /\ c \in Clients \cup Internal /\ conn[c] \in {"handshake", "spin", "reading"} => c \in clients
    /\ c \in Routes \cup Solicited /\ conn[c] = "reading" => c \in tmp \cup routes

\* What NoReaderLeft says of c.
ReaderOK(c) ==
  pc.shutdown \in Released /\ conn[c] = "reading" => c \in toClose \/ nc[c] # "open"

ConnOK(c) == LateOK(c) /\ FreshOK(c) /\ NcOK(c) /\ TrackOK(c) /\ ReaderOK(c)

ConnInv == ConnTypes /\ \A c \in Conns : ConnOK(c)

\* The configuration does not change.
LEMMA KindsSame ==
  ASSUME UNCHANGED config
  PROVE  kind' = kind /\ Internal' = Internal /\ Clients' = Clients /\ Routes' = Routes
         /\ Solicited' = Solicited
BY DEF config, Clients, Routes, Solicited

\* A step that leaves c alone.
Kept(c) ==
  /\ conn'[c] = conn[c] /\ nc'[c] = nc[c]
  /\ c \in clients' <=> c \in clients
  /\ c \in tmp' <=> c \in tmp
  /\ c \in routes' <=> c \in routes
  /\ c \in toClose' <=> c \in toClose

\* It keeps what is known of c.
LEMMA KeptOK ==
  ASSUME UNCHANGED config, Onward, NEW c, Kept(c), ConnOK(c)
  PROVE  ConnOK(c)'
<1>1. LateOK(c)'
  BY KindsSame, Zenon DEF Kept, Onward, ConnOK, LateOK
<1>2. FreshOK(c)'
  BY KindsSame, Zenon DEF Kept, Onward, ConnOK, FreshOK
<1>3. NcOK(c)'
  BY KindsSame DEF Kept, ConnOK, NcOK
<1>4. TrackOK(c)'
  BY KindsSame DEF Kept, ConnOK, TrackOK
<1>5. ReaderOK(c)'
  BY KindsSame DEF Kept, Onward, ConnOK, ReaderOK
<1> QED
  BY <1>1, <1>2, <1>3, <1>4, <1>5, Zenon DEF ConnOK

\* The kinds of connections.
LEMMA Kinds ==
  ASSUME ConnTypes, NEW c \in Conns
  PROVE  /\ c \in Peers \cup Internal <=> c \in Clients \cup Internal \/ c \in Routes \cup Solicited
         /\ ~(c \in Clients \cup Internal /\ c \in Routes \cup Solicited)
         /\ ~(c \in Routes /\ c \in Solicited) /\ ~(c \in Clients /\ c \in Internal)
BY LifecycleAssumption DEF ConnTypes, Clients, Routes, Solicited, Conns

\* pc has six fields.
PcFields ==
  pc = [start |-> pc.start, icli |-> pc.icli, routing |-> pc.routing, racc |-> pc.racc,
        http |-> pc.http, shutdown |-> pc.shutdown]

LEMMA HasFields ==
  ASSUME ControlInv
  PROVE  PcFields
BY DEF ControlInv, ServerTypes, PcFields

\* Whoever else goes on, StartRouting stays where it is.
LEMMA GotoRouting ==
  ASSUME PcFields, NEW g \in {"start", "icli", "racc", "http", "shutdown"}, NEW l, Goto(g, l)
  PROVE  pc'.routing = pc.routing
BY DEF PcFields, Goto

\* What the phases of the server say to its connections.
Phases ==
  /\ running => ~Late /\ pc.shutdown \notin Released
  /\ pc.shutdown \in Released /\ grRunning => Late
  /\ Late => early /\ pc.start # "accept" /\ pc.racc # "accept"
  /\ pc.start \in {"begin", "setGr"} => pc.icli = "none" /\ pc.routing = "none"
  /\ lsn["client"] = "stored" \/ lsn["route"] = "stored" =>
       pc.start \notin {"begin", "setGr"} /\ (early \/ pc.shutdown \notin Released)
  /\ pc.shutdown = "collect" /\ ~early => lsn["client"] = "stored" /\ lsn["route"] = "stored"

LEMMA ControlPhases ==
  ASSUME ControlInv
  PROVE  Phases
BY DEF ControlInv, PhaseInv, PortInv, Phases, Late, Released, LoopAt, Held, Ports

\* What is known of a connection c before a step; the lemmas assume it as Before(c) and
\* expand it where they need it.
Known(c) ==
  /\ LateOK(c) /\ FreshOK(c) /\ NcOK(c) /\ TrackOK(c) /\ ReaderOK(c) /\ Phases /\ PcFields
  /\ conn \in [Conns -> ConnAt] /\ nc \in [Conns -> {"none", "open", "lost", "closed"}]
  /\ c \in Peers \cup Internal <=> c \in Clients \cup Internal \/ c \in Routes \cup Solicited
  /\ ~(c \in Clients \cup Internal /\ c \in Routes \cup Solicited)
  /\ ~(c \in Routes /\ c \in Solicited) /\ ~(c \in Clients /\ c \in Internal)
  /\ Internal' = Internal /\ Clients' = Clients /\ Routes' = Routes /\ Solicited' = Solicited

Before(c) == Known(c)

LEMMA BeforeStep ==
  ASSUME ControlInv, ConnInv, UNCHANGED config, NEW c \in Conns
  PROVE  Before(c)
<1>1. ConnTypes /\ ConnOK(c)
  BY Zenon DEF ConnInv
<1> QED
  BY <1>1, ControlPhases, HasFields, KindsSame, Kinds, Zenon DEF Before, Known, ConnTypes, ConnOK

\* createClient is started for the internal client, unless s.grRunning is reset.
LEMMA InternalStartKeeps ==
  ASSUME NEW c \in Conns, Before(c), InternalStart, Onward
  PROVE  ConnOK(c)'
<1>0. Known(c)
  BY Zenon DEF Before
<1> USE <1>0 DEF Known, PcFields, Goto, conns, tables, collected, InternalStart
<1>1. LateOK(c)'
  BY DEF Onward, LateOK, FreshOK, Phases
<1>2. FreshOK(c)'
  BY DEF Onward, FreshOK, Phases
<1>3. NcOK(c)'
  BY DEF NcOK, FreshOK
<1>4. TrackOK(c)'
  BY DEF TrackOK, FreshOK
<1>5. ReaderOK(c)'
  BY DEF Onward, ReaderOK, Phases
<1> QED
  BY <1>1, <1>2, <1>3, <1>4, <1>5, Zenon DEF ConnOK

\* The same for a connection that is accepted.
LEMMA AcceptKeeps ==
  ASSUME NEW c \in Conns, Before(c), NEW g \in {"start", "racc"}, NEW set \in SUBSET Conns, Accept(g, set), Onward
  PROVE  ConnOK(c)'
<1>0. Known(c)
  BY Zenon DEF Before
<1> USE <1>0 DEF Known, PcFields, Goto, conns, tables, collected, Accept
<1>1. LateOK(c)'
  BY DEF Onward, Phases, LateOK, FreshOK
<1>2. FreshOK(c)'
  BY DEF Onward, FreshOK, Phases
<1>3. NcOK(c)'
  BY DEF NcOK, FreshOK
<1>4. TrackOK(c)'
  BY DEF TrackOK, FreshOK
<1>5. ReaderOK(c)'
  BY DEF Onward, ReaderOK, Phases
<1> QED
  BY <1>1, <1>2, <1>3, <1>4, <1>5, Zenon DEF ConnOK

\* The configured routes begin, unless s.grRunning is reset.
LEMMA solicitRoutesKeeps ==
  ASSUME NEW c \in Conns, Before(c), solicitRoutes, Onward
  PROVE  ConnOK(c)'
<1>0. Known(c)
  BY Zenon DEF Before
<1> USE <1>0 DEF Known, PcFields, Goto, conns, tables, collected, solicitRoutes
<1>1. LateOK(c)'
  BY DEF Onward, LateOK, FreshOK, Phases
<1>2. FreshOK(c)'
  BY DEF Onward, FreshOK, Phases
<1>3. NcOK(c)'
  BY DEF NcOK, FreshOK
<1>4. TrackOK(c)'
  BY DEF TrackOK, FreshOK
<1>5. ReaderOK(c)'
  BY DEF Onward, ReaderOK, Phases
<1> QED
  BY <1>1, <1>2, <1>3, <1>4, <1>5, Zenon DEF ConnOK

\* At Shutdown nobody is there yet if s.grRunning is still to be set.
LEMMA ShutdownKeeps ==
  ASSUME NEW c \in Conns, Before(c), Shutdown
  PROVE  ConnOK(c)'
<1>0. Known(c)
  BY Zenon DEF Before
<1> USE <1>0 DEF Known, PcFields, Goto, conns, tables, collected, Shutdown
<1>1. LateOK(c)'
  BY DEF Late, LateOK, FreshOK, Phases
<1>2. FreshOK(c)'
  BY DEF FreshOK, Released, Phases
<1>3. NcOK(c)'
  BY DEF NcOK
<1>4. TrackOK(c)'
  BY DEF TrackOK
<1>5. ReaderOK(c)'
  BY DEF ReaderOK, Released, Phases
<1> QED
  BY <1>1, <1>2, <1>3, <1>4, <1>5, Zenon DEF ConnOK

\* The internal client hangs up.
LEMMA StopInternalKeeps ==
  ASSUME NEW c \in Conns, Before(c), StopInternal, Onward
  PROVE  ConnOK(c)'
<1>0. Known(c)
  BY Zenon DEF Before
<1> USE <1>0 DEF Known, PcFields, Goto, conns, tables, collected, StopInternal
<1>1. LateOK(c)'
  BY DEF Onward, LateOK, FreshOK, Phases
<1>2. FreshOK(c)'
  BY DEF Onward, FreshOK, Phases
<1>3. NcOK(c)'
  BY DEF NcOK, FreshOK
<1>4. TrackOK(c)'
  BY DEF TrackOK, FreshOK
<1>5. ReaderOK(c)'
  BY DEF Onward, ReaderOK, Phases
<1> QED
  BY <1>1, <1>2, <1>3, <1>4, <1>5, Zenon DEF ConnOK

\* When Collect lets go of s.mu, who is read is in a table and so in toClose.
LEMMA CollectKeeps ==
  ASSUME NEW c \in Conns, Before(c), Collect
  PROVE  ConnOK(c)'
<1>0. Known(c)
  BY Zenon DEF Before
<1> USE <1>0 DEF Known, PcFields, Goto, conns, tables, collected, Collect
<1>1. LateOK(c)'
  BY DEF Late, LateOK, Phases
<1>2. FreshOK(c)'
  BY DEF FreshOK, Phases
<1>3. NcOK(c)'
  BY DEF NcOK
<1>4. TrackOK(c)'
  BY DEF TrackOK
<1>5. ReaderOK(c)'
  BY DEF ReaderOK, TrackOK, FreshOK, Phases
<1> QED
  BY <1>1, <1>2, <1>3, <1>4, <1>5, Zenon DEF ConnOK

\* They keep the types too.
LEMMA WideTypes ==
  ASSUME ConnTypes, UNCHANGED config, WideStep
  PROVE  ConnTypes'
<1> USE KindsSame DEF ConnTypes, ConnAt, Conns
<1>1. CASE InternalStart
  BY <1>1 DEF conns, InternalStart
<1>2. CASE Accept("start", Clients)
  BY <1>2 DEF Clients, Routes, conns, Accept
<1>3. CASE Accept("racc", Routes)
  BY <1>3 DEF Clients, Routes, conns, Accept
<1>4. CASE solicitRoutes
  BY <1>4 DEF conns, solicitRoutes
<1>5. CASE Shutdown
  BY <1>5 DEF conns, Shutdown
<1>6. CASE StopInternal
  BY <1>6 DEF conns, StopInternal
<1>7. CASE Collect
  BY <1>7 DEF conns, Collect
<1> QED
  BY <1>1, <1>2, <1>3, <1>4, <1>5, <1>6, <1>7, Zenon DEF WideStep

\* The steps that reach many connections keep what is known of them.
LEMMA WideConn ==
  ASSUME ControlInv, ConnInv, UNCHANGED config, WideStep, Shutdown \/ Collect \/ Onward
  PROVE  ConnInv'
<1>1. Conns' = Conns /\ Clients \in SUBSET Conns /\ Routes \in SUBSET Conns
  BY DEF Conns, Clients, Routes
<1>2. ASSUME NEW c \in Conns
      PROVE  ConnOK(c)'
  <2>1. Before(c)
    BY <1>2, BeforeStep, Zenon
  <2> QED
    BY <1>1, <2>1, InternalStartKeeps, AcceptKeeps, solicitRoutesKeeps, ShutdownKeeps,
       StopInternalKeeps, CollectKeeps, Zenon DEF WideStep
<1> QED
  BY <1>1, <1>2, WideTypes, Zenon DEF ConnInv

\* What is to be shown of a step about c: it leaves the others alone and keeps what is
\* known of c.
After(c) ==
  /\ conn' \in [Conns -> ConnAt] /\ nc' \in [Conns -> {"none", "open", "lost", "closed"}]
  /\ \A d \in Conns \ {c} : Kept(d)
  /\ ConnOK(c)'

\* Shutdown closes a connection of a table.
LEMMA ShutdownClosesKeeps ==
  ASSUME NEW c \in Conns, Before(c), pc' = pc, early' = early, Late' <=> Late, ShutdownCloses(c)
  PROVE  After(c)
<1>0. Known(c)
  BY Zenon DEF Before
<1> USE <1>0 DEF Known, tables, collected, ShutdownCloses, closeConnection
<1>1. /\ conn' \in [Conns -> ConnAt] /\ nc' \in [Conns -> {"none", "open", "lost", "closed"}]
      /\ \A d \in Conns \ {c} : Kept(d)
  BY DEF ConnAt, Kept
<1>2. LateOK(c)'
  BY DEF LateOK, Phases
<1>3. FreshOK(c)'
  BY DEF FreshOK, Phases
<1>4. NcOK(c)'
  BY DEF NcOK
<1>5. TrackOK(c)'
  BY DEF TrackOK, FreshOK
<1>6. ReaderOK(c)'
  BY DEF ReaderOK, LateOK, Phases
<1> QED
  BY <1>1, <1>2, <1>3, <1>4, <1>5, <1>6, Zenon DEF After, ConnOK

\* A client is registered while the server runs, and gives up or is refused else.
LEMMA createClientKeeps ==
  ASSUME NEW c \in Conns, Before(c), pc' = pc, early' = early, Late' <=> Late, createClient(c)
  PROVE  After(c)
<1>0. Known(c)
  BY Zenon DEF Before
<1> USE <1>0 DEF Known, tables, collected, createClient, maxConnExceeded, closeConnection
<1>1. /\ conn' \in [Conns -> ConnAt] /\ nc' \in [Conns -> {"none", "open", "lost", "closed"}]
      /\ \A d \in Conns \ {c} : Kept(d)
  BY DEF ConnAt, Kept
<1>2. LateOK(c)'
  BY DEF LateOK, Phases
<1>3. FreshOK(c)'
  BY DEF FreshOK, Phases
<1>4. NcOK(c)'
  BY DEF NcOK
<1>5. TrackOK(c)'
  BY DEF TrackOK, FreshOK
<1>6. ReaderOK(c)'
  BY DEF ReaderOK, LateOK, Phases
<1> QED
  BY <1>1, <1>2, <1>3, <1>4, <1>5, <1>6, Zenon DEF After, ConnOK

\* A route is set up.
LEMMA createRouteKeeps ==
  ASSUME NEW c \in Conns, Before(c), pc' = pc, early' = early, Late' <=> Late, createRoute(c)
  PROVE  After(c)
<1>0. Known(c)
  BY Zenon DEF Before
<1> USE <1>0 DEF Known, tables, collected, createRoute
<1>1. /\ conn' \in [Conns -> ConnAt] /\ nc' \in [Conns -> {"none", "open", "lost", "closed"}]
      /\ \A d \in Conns \ {c} : Kept(d)
  BY DEF ConnAt, Kept
<1>2. LateOK(c)'
  BY DEF LateOK, Phases
<1>3. FreshOK(c)'
  BY DEF FreshOK, Phases
<1>4. NcOK(c)'
  BY DEF NcOK
<1>5. TrackOK(c)'
  BY DEF TrackOK, FreshOK
<1>6. ReaderOK(c)'
  BY DEF ReaderOK, LateOK, Phases
<1> QED
  BY <1>1, <1>2, <1>3, <1>4, <1>5, <1>6, Zenon DEF After, ConnOK

\* The connection is closed, and a configured route dialled again while the server runs.
LEMMA HandshakeFailsKeeps ==
  ASSUME NEW c \in Conns, Before(c), pc' = pc, early' = early, Late' <=> Late, HandshakeFails(c)
  PROVE  After(c)
<1>0. Known(c)
  BY Zenon DEF Before
<1> USE <1>0 DEF Known, tables, collected, HandshakeFails, closeConnection, Ends, Reconnects
<1>1. /\ conn' \in [Conns -> ConnAt] /\ nc' \in [Conns -> {"none", "open", "lost", "closed"}]
      /\ \A d \in Conns \ {c} : Kept(d)
  BY DEF ConnAt, Kept
<1>2. LateOK(c)'
  BY DEF LateOK, Phases
<1>3. FreshOK(c)'
  BY DEF FreshOK, Phases
<1>4. NcOK(c)'
  BY DEF NcOK
<1>5. TrackOK(c)'
  BY DEF TrackOK, FreshOK
<1>6. ReaderOK(c)'
  BY DEF ReaderOK, LateOK, Phases
<1> QED
  BY <1>1, <1>2, <1>3, <1>4, <1>5, <1>6, Zenon DEF After, ConnOK

\* A read loop starts only if s.grRunning is set, and a route is in grTmpClients then.
LEMMA SpinReadLoopKeeps ==
  ASSUME NEW c \in Conns, Before(c), pc' = pc, early' = early, Late' <=> Late, SpinReadLoop(c)
  PROVE  After(c)
<1>0. Known(c)
  BY Zenon DEF Before
<1> USE <1>0 DEF Known, tables, collected, SpinReadLoop
<1>1. /\ conn' \in [Conns -> ConnAt] /\ nc' \in [Conns -> {"none", "open", "lost", "closed"}]
      /\ \A d \in Conns \ {c} : Kept(d)
  BY DEF ConnAt, Kept
<1>2. LateOK(c)'
  BY DEF LateOK, Phases
<1>3. FreshOK(c)'
  BY DEF FreshOK, Phases
<1>4. NcOK(c)'
  BY DEF NcOK
<1>5. TrackOK(c)'
  BY DEF TrackOK, FreshOK
<1>6. ReaderOK(c)'
  BY DEF ReaderOK, LateOK, Phases
<1> QED
  BY <1>1, <1>2, <1>3, <1>4, <1>5, <1>6, Zenon DEF After, ConnOK

\* The connection is closed, and a configured route dialled again while the server runs.
LEMMA readLoopEndsKeeps ==
  ASSUME NEW c \in Conns, Before(c), pc' = pc, early' = early, Late' <=> Late, readLoopEnds(c)
  PROVE  After(c)
<1>0. Known(c)
  BY Zenon DEF Before
<1> USE <1>0 DEF Known, tables, collected, readLoopEnds, closeConnection, Ends, Reconnects
<1>1. /\ conn' \in [Conns -> ConnAt] /\ nc' \in [Conns -> {"none", "open", "lost", "closed"}]
      /\ \A d \in Conns \ {c} : Kept(d)
  BY DEF ConnAt, Kept
<1>2. LateOK(c)'
  BY DEF LateOK, Phases
<1>3. FreshOK(c)'
  BY DEF FreshOK, Phases
<1>4. NcOK(c)'
  BY DEF NcOK
<1>5. TrackOK(c)'
  BY DEF TrackOK, FreshOK
<1>6. ReaderOK(c)'
  BY DEF ReaderOK, LateOK, Phases
<1> QED
  BY <1>1, <1>2, <1>3, <1>4, <1>5, <1>6, Zenon DEF After, ConnOK

\* A route is dialled while the server runs.
LEMMA connectToRouteKeeps ==
  ASSUME NEW c \in Conns, Before(c), pc' = pc, early' = early, Late' <=> Late, connectToRoute(c)
  PROVE  After(c)
<1>0. Known(c)
  BY Zenon DEF Before
<1> USE <1>0 DEF Known, tables, collected, connectToRoute
<1>1. /\ conn' \in [Conns -> ConnAt] /\ nc' \in [Conns -> {"none", "open", "lost", "closed"}]
      /\ \A d \in Conns \ {c} : Kept(d)
  BY DEF ConnAt, Kept
<1>2. LateOK(c)'
  BY DEF LateOK, Phases
<1>3. FreshOK(c)'
  BY DEF FreshOK, Phases
<1>4. NcOK(c)'
  BY DEF NcOK
<1>5. TrackOK(c)'
  BY DEF TrackOK, FreshOK
<1>6. ReaderOK(c)'
  BY DEF ReaderOK, LateOK, Phases
<1> QED
  BY <1>1, <1>2, <1>3, <1>4, <1>5, <1>6, Zenon DEF After, ConnOK

\* Dialling ends in a new connection or a pause.
LEMMA DialRouteKeeps ==
  ASSUME NEW c \in Conns, Before(c), pc' = pc, early' = early, Late' <=> Late, DialRoute(c)
  PROVE  After(c)
<1>0. Known(c)
  BY Zenon DEF Before
<1> USE <1>0 DEF Known, tables, collected, DialRoute
<1>1. /\ conn' \in [Conns -> ConnAt] /\ nc' \in [Conns -> {"none", "open", "lost", "closed"}]
      /\ \A d \in Conns \ {c} : Kept(d)
  BY DEF ConnAt, Kept
<1>2. LateOK(c)'
  BY DEF LateOK, Phases
<1>3. FreshOK(c)'
  BY DEF FreshOK, Phases
<1>4. NcOK(c)'
  BY DEF NcOK
<1>5. TrackOK(c)'
  BY DEF TrackOK, FreshOK
<1>6. ReaderOK(c)'
  BY DEF ReaderOK, LateOK, Phases
<1> QED
  BY <1>1, <1>2, <1>3, <1>4, <1>5, <1>6, Zenon DEF After, ConnOK

\* Then it begins again or ends.
LEMMA DialPauseKeeps ==
  ASSUME NEW c \in Conns, Before(c), pc' = pc, early' = early, Late' <=> Late, DialPause(c)
  PROVE  After(c)
<1>0. Known(c)
  BY Zenon DEF Before
<1> USE <1>0 DEF Known, tables, collected, DialPause
<1>1. /\ conn' \in [Conns -> ConnAt] /\ nc' \in [Conns -> {"none", "open", "lost", "closed"}]
      /\ \A d \in Conns \ {c} : Kept(d)
  BY DEF ConnAt, Kept
<1>2. LateOK(c)'
  BY DEF LateOK, Phases
<1>3. FreshOK(c)'
  BY DEF FreshOK, Phases
<1>4. NcOK(c)'
  BY DEF NcOK
<1>5. TrackOK(c)'
  BY DEF TrackOK, FreshOK
<1>6. ReaderOK(c)'
  BY DEF ReaderOK, LateOK, Phases
<1> QED
  BY <1>1, <1>2, <1>3, <1>4, <1>5, <1>6, Zenon DEF After, ConnOK

\* A peer finds a listener.
LEMMA DialKeeps ==
  ASSUME NEW c \in Conns, Before(c), pc' = pc, early' = early, Late' <=> Late, Dial(c)
  PROVE  After(c)
<1>0. Known(c)
  BY Zenon DEF Before
<1> USE <1>0 DEF Known, tables, collected, Dial
<1>1. /\ conn' \in [Conns -> ConnAt] /\ nc' \in [Conns -> {"none", "open", "lost", "closed"}]
      /\ \A d \in Conns \ {c} : Kept(d)
  BY DEF ConnAt, Kept
<1>2. LateOK(c)'
  BY DEF LateOK, Phases
<1>3. FreshOK(c)'
  BY DEF FreshOK, Phases
<1>4. NcOK(c)'
  BY DEF NcOK
<1>5. TrackOK(c)'
  BY DEF TrackOK, FreshOK
<1>6. ReaderOK(c)'
  BY DEF ReaderOK, LateOK, Phases
<1> QED
  BY <1>1, <1>2, <1>3, <1>4, <1>5, <1>6, Zenon DEF After, ConnOK

\* A peer hangs up.
LEMMA LoseKeeps ==
  ASSUME NEW c \in Conns, Before(c), pc' = pc, early' = early, Late' <=> Late, Lose(c)
  PROVE  After(c)
<1>0. Known(c)
  BY Zenon DEF Before
<1> USE <1>0 DEF Known, tables, collected, Lose
<1>1. /\ conn' \in [Conns -> ConnAt] /\ nc' \in [Conns -> {"none", "open", "lost", "closed"}]
      /\ \A d \in Conns \ {c} : Kept(d)
  BY DEF ConnAt, Kept
<1>2. LateOK(c)'
  BY DEF LateOK, Phases
<1>3. FreshOK(c)'
  BY DEF FreshOK, Phases
<1>4. NcOK(c)'
  BY DEF NcOK
<1>5. TrackOK(c)'
  BY DEF TrackOK, FreshOK
<1>6. ReaderOK(c)'
  BY DEF ReaderOK, LateOK, Phases
<1> QED
  BY <1>1, <1>2, <1>3, <1>4, <1>5, <1>6, Zenon DEF After, ConnOK

\* A handshake succeeds.
LEMMA HandshakeKeeps ==
  ASSUME NEW c \in Conns, Before(c), pc' = pc, early' = early, Late' <=> Late, Handshake(c)
  PROVE  After(c)
<1>0. Known(c)
  BY Zenon DEF Before
<1> USE <1>0 DEF Known, tables, collected, Handshake
<1>1. /\ conn' \in [Conns -> ConnAt] /\ nc' \in [Conns -> {"none", "open", "lost", "closed"}]
      /\ \A d \in Conns \ {c} : Kept(d)
  BY DEF ConnAt, Kept
<1>2. LateOK(c)'
  BY DEF LateOK, Phases
<1>3. FreshOK(c)'
  BY DEF FreshOK, Phases
<1>4. NcOK(c)'
  BY DEF NcOK
<1>5. TrackOK(c)'
  BY DEF TrackOK, FreshOK
<1>6. ReaderOK(c)'
  BY DEF ReaderOK, LateOK, Phases
<1> QED
  BY <1>1, <1>2, <1>3, <1>4, <1>5, <1>6, Zenon DEF After, ConnOK

\* A route moves from one table to another while the server runs.
LEMMA addRouteKeeps ==
  ASSUME NEW c \in Conns, Before(c), pc' = pc, early' = early, Late' <=> Late, addRoute(c)
  PROVE  After(c)
<1>0. Known(c)
  BY Zenon DEF Before
<1> USE <1>0 DEF Known, tables, collected, addRoute, closeConnection, Ends, Reconnects
<1>1. /\ conn' \in [Conns -> ConnAt] /\ nc' \in [Conns -> {"none", "open", "lost", "closed"}]
      /\ \A d \in Conns \ {c} : Kept(d)
  BY DEF ConnAt, Kept
<1>2. LateOK(c)'
  BY DEF LateOK, Phases
<1>3. FreshOK(c)'
  BY DEF FreshOK, Phases
<1>4. NcOK(c)'
  BY DEF NcOK
<1>5. TrackOK(c)'
  BY DEF TrackOK, FreshOK
<1>6. ReaderOK(c)'
  BY DEF ReaderOK, LateOK, Phases
<1> QED
  BY <1>1, <1>2, <1>3, <1>4, <1>5, <1>6, Zenon DEF After, ConnOK

\* So all steps about one connection keep the invariant.
LEMMA ConnectionConn ==
  ASSUME ControlInv, ConnInv, UNCHANGED config, NEW c \in Conns, ConnectionStep(c)
  PROVE  ConnInv'
<1>1. Conns' = Conns /\ kind' = kind /\ Internal' = Internal /\ ConnTypes
  BY KindsSame, Zenon DEF Conns, ConnInv
<1>2. pc' = pc /\ early' = early /\ (Late' <=> Late) /\ Onward
  BY ConnectionControl, Zenon DEF Late
<1>3. Before(c)
  BY BeforeStep, Zenon
<1>4. After(c)
  BY <1>2, <1>3, ShutdownClosesKeeps, createClientKeeps, createRouteKeeps,
     HandshakeFailsKeeps, SpinReadLoopKeeps, readLoopEndsKeeps, connectToRouteKeeps,
     DialRouteKeeps, DialPauseKeeps, DialKeeps, LoseKeeps, HandshakeKeeps, addRouteKeeps,
     Zenon DEF ConnectionStep, ConnStep
<1>5. \A d \in Conns : ConnOK(d)'
  BY <1>2, <1>4, KeptOK, Zenon DEF After, ConnInv
<1> QED
  BY <1>1, <1>4, <1>5, Zenon DEF After, ConnInv, ConnTypes

\* Every step keeps these invariants.
LEMMA NextConn ==
  ASSUME SizeFacts, ControlInv, ConnInv, Next
  PROVE  ControlInv' /\ ConnInv'
<1>1. CASE ServerStep
  <2>1. Conns' = Conns /\ ConnTypes'
    BY <1>1, NextSplit, KindsSame, ServerControl, Zenon DEF Conns, ConnInv, ConnTypes
  <2>2. \A c \in Conns : Kept(c)
    BY <1>1, ServerControl, Zenon DEF Kept
  <2> QED
    BY <1>1, <2>1, <2>2, NextSplit, ServerControl, KeptOK, Zenon DEF ConnInv
<1>2. CASE WideStep
  BY <1>2, NextSplit, WideControl, WideConn, Zenon
<1>3. CASE \E c \in Conns : ConnectionStep(c)
  BY <1>3, NextSplit, ConnectionControl, ConnectionConn, Zenon
<1> QED
  BY <1>1, <1>2, <1>3, NextSplit, Zenon

-----------------------------------------------------------------------------
(* The wait group *)

\* Where the goroutine of a connection is counted in s.grWG.
Active == {"new", "handshake", "spin", "reading", "dialing", "connect", "pause"}
Counted == {c \in Conns : conn[c] \in Active}

\* 1 for the goroutine of StartRouting while it runs.
Busy(l) == IF l \in {"wait", "waitAccept", "solicit"} THEN 1 ELSE 0

\* s.grWG counts the goroutines startGoRoutine has started and that have not ended, and
\* stays 0 when Shutdown has returned, unless it was early.
CountInv ==
  /\ grWG \in Nat /\ grWG = Cardinality(Counted) + Busy(pc.routing)
  /\ pc.shutdown = "returned" /\ ~early => grWG = 0

\* The goroutines of the connections S end and those of T begin, the latter only while
\* s.grRunning is set.
Changes(S, T) ==
  /\ S \subseteq Counted /\ T \subseteq Conns \ Counted /\ Counted' = (Counted \ S) \cup T
  /\ grWG' - Busy(pc'.routing) = grWG - Busy(pc.routing) - Cardinality(S) + Cardinality(T)
  /\ ~grRunning => T = {} /\ Busy(pc'.routing) <= Busy(pc.routing)

\* Two numbers whose sum is 0.
LEMMA SumZero ==
  ASSUME NEW k \in Nat, NEW r \in Nat, k + r = 0
  PROVE  k = 0 /\ r = 0
OBVIOUS

\* A number at most 0.
LEMMA LeZero ==
  ASSUME NEW q \in Nat, NEW r \in Nat, q <= r, r = 0
  PROVE  q = 0
OBVIOUS

\* Such a step keeps the count right.
LEMMA ChangesCount ==
  ASSUME SizeFacts, CountInv, grWG' \in Int, NEW S, NEW T, Changes(S, T)
  PROVE  /\ grWG' \in Nat /\ grWG' = Cardinality(Counted') + Busy(pc'.routing)
         /\ ~grRunning /\ grWG = 0 => grWG' = 0
<1>1. /\ S \subseteq Counted /\ T \subseteq Conns \ Counted /\ Counted' = (Counted \ S) \cup T
      /\ grWG' - Busy(pc'.routing) = grWG - Busy(pc.routing) - Cardinality(S) + Cardinality(T)
      /\ Counted \subseteq Conns
  BY Zenon DEF Changes, Counted
<1>2. Busy(pc.routing) \in Nat /\ Busy(pc'.routing) \in Nat
  BY DEF Busy
<1> DEFINE M == Counted \ S
<1>3. M \in SUBSET Conns /\ S \in SUBSET Conns /\ T \in SUBSET Conns /\ Counted \in SUBSET Conns
  BY <1>1, Zenon
<1>4. M \cap S = {} /\ M \cup S = Counted /\ M \cap T = {} /\ M \cup T = Counted'
  BY <1>1
<1> HIDE DEF M
<1>5. /\ Cardinality(M) \in Nat /\ Cardinality(S) \in Nat /\ Cardinality(T) \in Nat
      /\ Cardinality(Counted) \in Nat
  BY <1>3, Zenon DEF SizeFacts
<1>6. /\ Cardinality(Counted) = Cardinality(M) + Cardinality(S)
      /\ Cardinality(Counted') = Cardinality(M) + Cardinality(T)
  BY <1>3, <1>4, Zenon DEF SizeFacts
<1>7. grWG' = (Cardinality(M) + Cardinality(T)) + Busy(pc'.routing) /\ grWG' \in Nat
  <2>1. grWG = (Cardinality(M) + Cardinality(S)) + Busy(pc.routing)
    BY <1>6, Zenon DEF CountInv
  <2>2. grWG' \in Int
    BY <1>1, Zenon
  <2>3. grWG' - Busy(pc'.routing) = grWG - Busy(pc.routing) - Cardinality(S) + Cardinality(T)
    BY <1>1, Zenon
  <2> QED
    BY <1>2, <1>5, <2>1, <2>2, <2>3
<1>8. ASSUME ~grRunning, grWG = 0
      PROVE  grWG' = 0
  <2>1. Cardinality(Counted) = 0 /\ Busy(pc.routing) = 0
    BY <1>2, <1>5, <1>8, SumZero, Zenon DEF CountInv
  <2>2. Busy(pc'.routing) = 0 /\ T = {}
    BY <1>2, <1>8, <2>1, LeZero, Zenon DEF Changes
  <2>3. Counted = {}
    BY <1>3, <2>1, Zenon DEF SizeFacts
  <2>4. Counted' = {}
    BY <1>1, <2>2, <2>3, Zenon
  <2>5. Cardinality(Counted') = 0
    BY <2>4, Zenon DEF SizeFacts
  <2> QED
    BY <1>6, <1>7, <2>2, <2>5
<1> QED
  BY <1>6, <1>7, <1>8, Zenon

\* Nothing changes on the connections.
LEMMA ChangesNone ==
  ASSUME SizeFacts, CountInv, Counted' = Counted,
         grWG' - Busy(pc'.routing) = grWG - Busy(pc.routing),
         ~grRunning => Busy(pc'.routing) <= Busy(pc.routing)
  PROVE  Changes({}, {})
<1>1. grWG - Busy(pc.routing) - 0 + 0 = grWG - Busy(pc.routing)
  BY DEF CountInv, Busy
<1> QED
  BY <1>1, Zenon DEF Changes, SizeFacts

\* The goroutine of c ends, or goes on.
Balanced(c) ==
  \/ (conn[c] \in Active <=> conn'[c] \in Active) /\ grWG' = grWG
  \/ conn[c] \in Active /\ conn'[c] \notin Active /\ grWG' = grWG - 1

\* That is all that happens.
LEMMA BalancedChanges ==
  ASSUME SizeFacts, CountInv, pc' = pc, NEW c \in Conns, Balanced(c),
         \A d \in Conns \ {c} : conn'[d] = conn[d]
  PROVE  \E S, T : Changes(S, T)
<1>1. CASE (conn[c] \in Active <=> conn'[c] \in Active) /\ grWG' = grWG
  <2>1. Counted' = Counted
    BY <1>1 DEF Counted, Conns
  <2>2. Busy(pc'.routing) <= Busy(pc.routing) /\ grWG' - Busy(pc'.routing) = grWG - Busy(pc.routing)
    BY <1>1 DEF Busy
  <2> QED
    BY <2>1, <2>2, ChangesNone, Zenon
<1>2. CASE conn[c] \in Active /\ conn'[c] \notin Active /\ grWG' = grWG - 1
  <2>1. Counted' = (Counted \ {c}) \cup {} /\ {c} \subseteq Counted
    BY <1>2 DEF Counted, Conns
  <2>2. Cardinality({c}) = 1 /\ Cardinality({}) = 0
    BY Zenon DEF SizeFacts
  <2>3. /\ grWG' - Busy(pc'.routing) = grWG - Busy(pc.routing) - 1 + 0
        /\ Busy(pc'.routing) <= Busy(pc.routing)
    BY <1>2 DEF Busy, CountInv
  <2>4. Changes({c}, {})
    BY <2>1, <2>2, <2>3, Zenon DEF Changes
  <2> QED
    BY <2>4, Zenon
<1> QED
  BY <1>1, <1>2, Zenon DEF Balanced

\* The steps about one connection start no goroutine that is not counted and end none
\* that is: a route that reconnects is counted once more before its old goroutine ends.
LEMMA ConnectionChanges ==
  ASSUME SizeFacts, ControlInv, ConnInv, CountInv, NEW c \in Conns, ConnectionStep(c)
  PROVE  grWG' \in Int /\ \E S, T : Changes(S, T)
<1> USE DEF Active, Balanced
<1>1. conn \in [Conns -> ConnAt] /\ grWG \in Nat
  BY Zenon DEF ConnInv, ConnTypes, CountInv
<1>2. Balanced(c) /\ \A d \in Conns \ {c} : conn'[d] = conn[d]
  <2>1. CASE ShutdownCloses(c)
    BY <1>1, <2>1 DEF ShutdownCloses
  <2>2. CASE createClient(c)
    BY <1>1, <2>2 DEF createClient
  <2>3. CASE createRoute(c)
    BY <1>1, <2>3 DEF createRoute
  <2>4. CASE HandshakeFails(c)
    BY <1>1, <2>4 DEF HandshakeFails, Ends, Spawned
  <2>5. CASE SpinReadLoop(c)
    BY <1>1, <2>5 DEF SpinReadLoop, Spawned
  <2>6. CASE readLoopEnds(c)
    BY <1>1, <2>6 DEF readLoopEnds, Ends, Spawned
  <2>7. CASE connectToRoute(c)
    BY <1>1, <2>7 DEF connectToRoute
  <2>8. CASE DialRoute(c)
    BY <1>1, <2>8 DEF DialRoute
  <2>9. CASE DialPause(c)
    BY <1>1, <2>9 DEF DialPause
  <2>10. CASE Dial(c)
    BY <1>1, <2>10 DEF Dial
  <2>11. CASE Lose(c)
    BY <1>1, <2>11 DEF Lose
  <2>12. CASE Handshake(c)
    BY <1>1, <2>12 DEF Handshake
  <2>13. CASE addRoute(c)
    BY <1>1, <2>13 DEF addRoute, Ends, Spawned
  <2> QED
    BY <2>1, <2>2, <2>3, <2>4, <2>5, <2>6, <2>7, <2>8, <2>9, <2>10, <2>11, <2>12, <2>13,
       Zenon DEF ConnectionStep, ConnStep
<1>3. pc' = pc
  BY ConnectionControl, Zenon
<1>4. grWG' \in Int
  BY <1>1, <1>2
<1> HIDE DEF Active, Balanced
<1> QED
  BY <1>2, <1>3, <1>4, BalancedChanges, Zenon

\* The steps that leave the connections alone: only StartServices starts a goroutine
\* that is counted.
LEMMA ServerChanges ==
  ASSUME SizeFacts, ControlInv, CountInv, ServerStep
  PROVE  grWG' \in Int /\ \E S, T : Changes(S, T)
<1>1. grWG \in Nat
  BY Zenon DEF CountInv
<1>2. Counted' = Counted
  BY ServerControl, Zenon DEF Counted, Conns
<1>3. /\ grWG' \in Int /\ grWG' - Busy(pc'.routing) = grWG - Busy(pc.routing)
      /\ ~grRunning => Busy(pc'.routing) <= Busy(pc.routing)
  <2>0. PcFields
    BY HasFields, Zenon
  <2>1. CASE StartServices
    <3>1. pc.routing = "none"
      BY <2>1 DEF StartServices, ControlInv, PhaseInv
    <3> QED
      BY <1>1, <2>0, <2>1, <3>1 DEF StartServices, Spawned, Busy, PcFields
  <2>2. CASE RouteListenerReady
    <3>1. pc.routing = "waitAccept"
      BY <2>2 DEF RouteListenerReady, ControlInv, ServerTypes, PhaseInv
    <3> QED
      BY <1>1, <2>0, <2>2, <3>1 DEF RouteListenerReady, Busy, PcFields
  <2>3. CASE RoutingWait
    BY <1>1, <2>0, <2>3 DEF RoutingWait, Busy, PcFields
  <2>4. ASSUME grWG' = grWG, pc'.routing = pc.routing
        PROVE  /\ grWG' \in Int /\ grWG' - Busy(pc'.routing) = grWG - Busy(pc.routing)
               /\ ~grRunning => Busy(pc'.routing) <= Busy(pc.routing)
    BY <1>1, <2>4 DEF Busy
  <2>5. CASE StartRunning
    BY <2>0, <2>5, <2>4, GotoRouting, Zenon DEF StartRunning
  <2>6. CASE StartGrRunning
    BY <2>0, <2>6, <2>4, GotoRouting, Zenon DEF StartGrRunning
  <2>7. CASE StartInternal
    BY <2>0, <2>7, <2>4 DEF StartInternal, PcFields
  <2>8. CASE InternalQuit
    BY <2>0, <2>8, <2>4, GotoRouting, Zenon DEF InternalQuit
  <2>9. CASE InternalStartFails
    BY <2>0, <2>9, <2>4, GotoRouting, Zenon DEF InternalStartFails
  <2>10. CASE Listen("start", "client")
    BY <2>0, <2>10, <2>4, GotoRouting, Zenon DEF Listen
  <2>11. CASE Listen("racc", "route")
    BY <2>0, <2>11, <2>4, GotoRouting, Zenon DEF Listen
  <2>12. CASE ListenerReady
    BY <2>0, <2>12, <2>4, GotoRouting, Zenon DEF ListenerReady
  <2>13. CASE CheckRunning("start")
    BY <2>0, <2>13, <2>4, GotoRouting, Zenon DEF CheckRunning
  <2>14. CASE CheckRunning("racc")
    BY <2>0, <2>14, <2>4, GotoRouting, Zenon DEF CheckRunning
  <2>15. CASE AcceptError("start", "client")
    BY <2>0, <2>15, <2>4, GotoRouting, Zenon DEF AcceptError
  <2>16. CASE AcceptError("racc", "route")
    BY <2>0, <2>16, <2>4, GotoRouting, Zenon DEF AcceptError
  <2>17. CASE AcceptExit("start")
    BY <2>0, <2>17, <2>4, GotoRouting, Zenon DEF AcceptExit
  <2>18. CASE AcceptExit("racc")
    BY <2>0, <2>18, <2>4, GotoRouting, Zenon DEF AcceptExit
  <2>19. CASE AcceptExit("http")
    BY <2>0, <2>19, <2>4, GotoRouting, Zenon DEF AcceptExit
  <2>20. CASE HttpClosed
    BY <2>0, <2>20, <2>4, GotoRouting, Zenon DEF HttpClosed
  <2>21. CASE ShutdownLockInternal
    BY <2>0, <2>21, <2>4, GotoRouting, Zenon DEF ShutdownLockInternal
  <2>22. CASE ShutdownAwaits
    BY <2>0, <2>22, <2>4, GotoRouting, Zenon DEF ShutdownAwaits
  <2>23. CASE ShutdownReturn
    BY <2>0, <2>23, <2>4, GotoRouting, Zenon DEF ShutdownReturn
  <2> QED
    BY <2>1, <2>2, <2>3, <2>5, <2>6, <2>7, <2>8, <2>9, <2>10, <2>11, <2>12, <2>13, <2>14,
       <2>15, <2>16, <2>17, <2>18, <2>19, <2>20, <2>21, <2>22, <2>23, Zenon DEF
       ServerStep
<1> QED
  BY <1>2, <1>3, ChangesNone, Zenon

\* What the counts need to know before a step.
CountBefore ==
  /\ SizeFacts /\ CountInv /\ PcFields /\ conn \in [Conns -> ConnAt] /\ grWG \in Nat
  /\ \A c \in Conns : FreshOK(c)
  /\ Internal \in SUBSET Conns /\ Solicited \in SUBSET Conns
  /\ \A S \in SUBSET Conns : Cardinality(S) \in Nat

\* Nothing is started on a connection.
LEMMA NothingStarts ==
  ASSUME CountBefore, grWG' = grWG, pc'.routing = pc.routing, Counted' = Counted
  PROVE  grWG' \in Int /\ \E S, T : Changes(S, T)
<1>1. grWG \in Nat /\ SizeFacts /\ CountInv
  BY Zenon DEF CountBefore
<1>2. /\ grWG' - Busy(pc'.routing) = grWG - Busy(pc.routing)
      /\ Busy(pc'.routing) <= Busy(pc.routing) /\ grWG' \in Int
  BY <1>1 DEF Busy
<1> QED
  BY <1>1, <1>2, ChangesNone, Zenon

\* The goroutines of T start.
LEMMA SomeStart ==
  ASSUME CountBefore, NEW T \in SUBSET Conns, T \cap Counted = {}, grRunning,
         Counted' = Counted \cup T, grWG' = grWG + Cardinality(T), pc'.routing = pc.routing
  PROVE  grWG' \in Int /\ \E S, U : Changes(S, U)
<1>1. grWG \in Nat /\ Cardinality(T) \in Nat /\ Cardinality({}) = 0
  BY Zenon DEF CountBefore, SizeFacts
<1>2. /\ grWG' - Busy(pc'.routing) = grWG - Busy(pc.routing) - 0 + Cardinality(T)
      /\ grWG' \in Int
  BY <1>1 DEF Busy
<1>3. {} \subseteq Counted /\ T \subseteq Conns \ Counted /\ Counted' = (Counted \ {}) \cup T
  BY Zenon
<1>4. Changes({}, T)
  BY <1>1, <1>2, <1>3, Zenon DEF Changes
<1> QED
  BY <1>2, <1>4, Zenon

\* InternalStart starts createClient while s.grRunning is set.
LEMMA InternalStartChanges ==
  ASSUME CountBefore, InternalStart
  PROVE  grWG' \in Int /\ \E S, T : Changes(S, T)
<1>1. pc'.routing = pc.routing /\ \A c \in Internal : conn[c] = "none"
  BY GotoRouting, Zenon DEF InternalStart, CountBefore, FreshOK
<1>2. CASE ~grRunning
  <2>1. grWG' = grWG
    <3>1. grWG' = grWG + 0 /\ grWG \in Nat
      BY <1>2, Zenon DEF InternalStart, CountBefore
    <3> QED
      BY <3>1
  <2>2. Counted' = Counted
    <3>1. /\ conn' = [c \in Conns |-> IF c \in Internal THEN "refused" ELSE conn[c]]
          /\ Conns' = Conns
      BY <1>2, Zenon DEF InternalStart, Conns
    <3> QED
      BY <1>1, <3>1 DEF Counted, Active
  <2> QED
    BY <1>1, <2>1, <2>2, NothingStarts, Zenon
<1>3. CASE grRunning
  <2>1. grWG' = grWG + Cardinality(Internal)
    BY <1>3, Zenon DEF InternalStart
  <2>2. Internal \in SUBSET Conns /\ conn \in [Conns -> ConnAt]
    BY Zenon DEF CountBefore
  <2>3. /\ conn' = [c \in Conns |-> IF c \in Internal THEN "new" ELSE conn[c]]
        /\ Conns' = Conns
    BY <1>3, Zenon DEF InternalStart, Conns
  <2>4. Counted' = Counted \cup Internal /\ Internal \cap Counted = {}
    BY <1>1, <2>2, <2>3 DEF Counted, Active
  <2> QED
    BY <1>1, <1>3, <2>1, <2>2, <2>4, SomeStart, Zenon
<1> QED
  BY <1>2, <1>3, Zenon

\* So does Accept for one connection.
LEMMA AcceptChanges ==
  ASSUME CountBefore, NEW g \in {"start", "racc"}, NEW set \in SUBSET Conns, Accept(g, set)
  PROVE  grWG' \in Int /\ \E S, T : Changes(S, T)
<1>0. conn \in [Conns -> ConnAt] /\ Conns' = Conns
  BY Zenon DEF CountBefore, Conns
<1>1. PICK c \in set : /\ conn[c] = "queued"
                      /\ conn' = [conn EXCEPT ![c] = IF grRunning THEN "new" ELSE "refused"]
  BY Zenon DEF Accept
<1>2. pc'.routing = pc.routing
  BY GotoRouting, Zenon DEF Accept, CountBefore
<1>3. CASE ~grRunning
  <2>1. grWG' = grWG
    <3>1. grWG' = grWG + 0 /\ grWG \in Nat
      BY <1>3, Zenon DEF Accept, Spawned, CountBefore
    <3> QED
      BY <3>1
  <2>2. Counted' = Counted
    BY <1>0, <1>1, <1>3 DEF Counted, Active
  <2> QED
    BY <1>2, <2>1, <2>2, NothingStarts, Zenon
<1>4. CASE grRunning
  <2>1. Cardinality({c}) = 1 /\ {c} \in SUBSET Conns
    BY Zenon DEF CountBefore, SizeFacts
  <2>2. grWG' = grWG + Cardinality({c})
    BY <1>4, <2>1, Zenon DEF Accept, Spawned
  <2>3. Counted' = Counted \cup {c} /\ {c} \cap Counted = {}
    BY <1>0, <1>1, <1>4 DEF Counted, Active
  <2> QED
    BY <1>2, <1>4, <2>1, <2>2, <2>3, SomeStart, Zenon
<1> QED
  BY <1>3, <1>4, Zenon

\* solicitRoutes starts the goroutines of the configured routes and ends its own.
LEMMA solicitRoutesChanges ==
  ASSUME CountBefore, solicitRoutes
  PROVE  grWG' \in Int /\ \E S, T : Changes(S, T)
<1>1. /\ grWG' = grWG - 1 + (IF grRunning THEN Cardinality(Solicited) ELSE 0)
      /\ grWG \in Nat /\ Cardinality(Solicited) \in Nat /\ SizeFacts /\ CountInv
  BY Zenon DEF solicitRoutes, CountBefore
<1>2. Busy(pc.routing) = 1 /\ Busy(pc'.routing) = 0 /\ \A c \in Solicited : conn[c] = "none"
  <2>1. pc.routing = "solicit" /\ pc' = [pc EXCEPT !["routing"] = "ended"] /\ PcFields
    BY Zenon DEF solicitRoutes, Goto, CountBefore
  <2>2. Busy(pc.routing) = 1 /\ Busy(pc'.routing) = 0
    BY <2>1 DEF Busy, PcFields
  <2>3. pc.routing # "ended"
    BY <2>1
  <2>4. \A c \in Solicited : conn[c] = "none"
    BY <2>3, Zenon DEF CountBefore, FreshOK
  <2> QED
    BY <2>2, <2>4, Zenon
<1>3. CASE ~grRunning
  <2>1. Counted' = Counted
    BY <1>3, Zenon DEF solicitRoutes, Counted, Conns
  <2>2. /\ grWG' - Busy(pc'.routing) = grWG - Busy(pc.routing)
        /\ Busy(pc'.routing) <= Busy(pc.routing) /\ grWG' \in Int
    BY <1>1, <1>2, <1>3
  <2> QED
    BY <1>1, <2>1, <2>2, ChangesNone, Zenon
<1>4. CASE grRunning
  <2>1. /\ {} \subseteq Counted /\ Solicited \subseteq Conns \ Counted
        /\ Counted' = (Counted \ {}) \cup Solicited
    <3>1. /\ conn' = [c \in Conns |-> IF c \in Solicited THEN "dialing" ELSE conn[c]]
          /\ Conns' = Conns /\ Solicited \in SUBSET Conns
      BY <1>4, Zenon DEF solicitRoutes, Conns, CountBefore
    <3> QED
      BY <1>2, <3>1 DEF Counted, Active
  <2>2. Cardinality({}) = 0
    BY <1>1, Zenon DEF SizeFacts
  <2>3. /\ grWG' - Busy(pc'.routing) = grWG - Busy(pc.routing) - 0 + Cardinality(Solicited)
        /\ grWG' \in Int
    BY <1>1, <1>2, <1>4
  <2>4. Changes({}, Solicited)
    BY <1>4, <2>1, <2>2, <2>3, Zenon DEF Changes
  <2> QED
    BY <2>3, <2>4, Zenon
<1> QED
  BY <1>3, <1>4, Zenon

\* The steps of Shutdown start nothing: a connection that is reset has no goroutine.
LEMMA ShutdownChanges ==
  ASSUME CountBefore, Shutdown \/ StopInternal \/ Collect
  PROVE  grWG' \in Int /\ \E S, T : Changes(S, T)
<1>1. grWG' = grWG /\ pc'.routing = pc.routing
  <2>1. CASE Shutdown
    BY <2>1, GotoRouting, Zenon DEF Shutdown, CountBefore
  <2>2. CASE StopInternal
    BY <2>2, GotoRouting, Zenon DEF StopInternal, CountBefore
  <2>3. CASE Collect
    BY <2>3, GotoRouting, Zenon DEF Collect, CountBefore
  <2> QED
    BY <2>1, <2>2, <2>3, Zenon
<1>2. Counted' = Counted
  <2>1. CASE Shutdown \/ StopInternal
    BY <2>1, Zenon DEF Shutdown, StopInternal, conns, Counted, Conns
  <2>2. CASE Collect
    <3>1. /\ \A c \in Conns : conn'[c] = conn[c] \/ (conn[c] = "queued" /\ conn'[c] = "reset")
          /\ Conns' = Conns
      BY <2>2, Zenon DEF Collect, Conns
    <3> QED
      BY <3>1 DEF Counted, Active
  <2> QED
    BY <2>1, <2>2, Zenon
<1> QED
  BY <1>1, <1>2, NothingStarts, Zenon

\* All steps that reach many connections count right.
LEMMA WideChanges ==
  ASSUME SizeFacts, ControlInv, ConnInv, CountInv, WideStep
  PROVE  grWG' \in Int /\ \E S, T : Changes(S, T)
<1>1. /\ Internal \in SUBSET Conns /\ Solicited \in SUBSET Conns /\ Clients \in SUBSET Conns
      /\ Routes \in SUBSET Conns
  BY DEF ConnInv, ConnTypes, Conns, Solicited, Clients, Routes
<1>2. CountBefore
  BY <1>1, HasFields, Zenon DEF CountBefore, SizeFacts, CountInv, ConnInv, ConnTypes, ConnOK
<1> QED
  BY <1>1, <1>2, InternalStartChanges, AcceptChanges, solicitRoutesChanges, ShutdownChanges, Zenon
     DEF WideStep

\* Every step keeps the count.
LEMMA NextCount ==
  ASSUME SizeFacts, ControlInv, ConnInv, CountInv, Next
  PROVE  CountInv'
<1>1. grWG' \in Int /\ \E S, T : Changes(S, T)
  BY NextSplit, ServerChanges, WideChanges, ConnectionChanges, Zenon
<1>2. /\ grWG' \in Nat /\ grWG' = Cardinality(Counted') + Busy(pc'.routing)
      /\ ~grRunning /\ grWG = 0 => grWG' = 0
  BY <1>1, ChangesCount, Zenon
<1>3. ASSUME pc'.shutdown = "returned", ~early'
      PROVE  grWG' = 0
  <2>1. Onward
    <3>1. CASE ServerStep
      BY <3>1, ServerControl, Zenon
    <3>2. CASE WideStep
      <4>1. PcFields
        BY HasFields, Zenon
      <4>2. ~Shutdown
        BY <1>3, <4>1 DEF Shutdown, Goto, PcFields
      <4>3. ~Collect
        BY <1>3, <4>1 DEF Collect, Goto, PcFields
      <4> QED
        BY <3>2, <4>2, <4>3, WideControl, Zenon
    <3>3. CASE \E c \in Conns : ConnectionStep(c)
      BY <3>3, ConnectionControl, Zenon
    <3> QED
      BY <3>1, <3>2, <3>3, NextSplit, Zenon
  <2>2. ~early /\ grWG = 0
    BY <1>3, <2>1, Zenon DEF Onward, CountInv
  <2>3. pc.shutdown \in Released /\ Phases
    <3>1. "returned" \in Released
      BY DEF Released
    <3> QED
      BY <1>3, <2>1, <3>1, ControlPhases, Zenon DEF Onward
  <2> QED
    BY <1>2, <2>2, <2>3, Zenon DEF Phases
<1> QED
  BY <1>2, <1>3, Zenon DEF CountInv

-----------------------------------------------------------------------------
(* The theorems *)

\* The inductive invariant.
LifecycleInv == ControlInv /\ ConnInv /\ CountInv

\* It holds at first.
LEMMA InitInv ==
  ASSUME SizeFacts, Init
  PROVE  LifecycleInv
<1>1. ControlInv
  <2>1. ServerTypes
    BY DEF Init, ServerTypes, Ports
  <2>2. PhaseInv
    BY DEF Init, PhaseInv, Late, Held
  <2>3. PortInv
    BY DEF Init, PortInv, LoopAt, Held, Released, Ports
  <2>4. DoneInv /\ ReturnInv
    BY DEF Init, DoneInv, ReturnInv, Released
  <2> QED
    BY <2>1, <2>2, <2>3, <2>4, Zenon DEF ControlInv
<1>2. ConnTypes
  BY DEF Init, ConnTypes, ConnAt
<1>3. ASSUME NEW c \in Conns
      PROVE  ConnOK(c)
  <2>1. /\ conn[c] = "none" /\ nc[c] = "none" /\ pc.shutdown = "idle" /\ pc.start = "begin"
        /\ clients = {} /\ routes = {} /\ tmp = {} /\ toClose = {} /\ ~grRunning /\ ~running
    BY <1>3 DEF Init
  <2>2. LateOK(c) /\ FreshOK(c)
    BY <2>1 DEF LateOK, FreshOK, Late, Released
  <2>3. NcOK(c) /\ TrackOK(c)
    BY <2>1 DEF NcOK, TrackOK
  <2>4. ReaderOK(c)
    BY <2>1 DEF ReaderOK, Released
  <2> QED
    BY <2>2, <2>3, <2>4, Zenon DEF ConnOK
<1>4. Counted = {}
  BY DEF Init, Counted, Active
<1>5. CountInv
  BY <1>4 DEF Init, CountInv, SizeFacts, Busy
<1> QED
  BY <1>1, <1>2, <1>3, <1>5, Zenon DEF LifecycleInv, ConnInv

\* Steps that change nothing keep it.
LEMMA StutterInv ==
  ASSUME LifecycleInv, UNCHANGED vars
  PROVE  LifecycleInv'
<1>1. UNCHANGED <<kind, Internal, early, running, grRunning, smu, lsn, done, grWG, pc, conn, nc>>
      /\ UNCHANGED <<clients, routes, tmp, toClose, doneExpected>>
  BY DEF vars
<1>2. ControlInv'
  <2>1. ControlInv /\ (Late' <=> Late)
    BY <1>1, Zenon DEF LifecycleInv, Late
  <2>2. ServerTypes'
    BY <1>1, <2>1 DEF ControlInv, ServerTypes
  <2>3. PhaseInv'
    BY <1>1, <2>1, Zenon DEF ControlInv, PhaseInv
  <2>4. PortInv'
    BY <1>1, <2>1, Zenon DEF ControlInv, PortInv
  <2>5. DoneInv' /\ ReturnInv'
    BY <1>1, <2>1, Zenon DEF ControlInv, DoneInv, ReturnInv
  <2> QED
    BY <2>2, <2>3, <2>4, <2>5, Zenon DEF ControlInv
<1>3. ConnInv'
  BY <1>1, Zenon DEF LifecycleInv, ConnInv, ConnTypes, ConnOK, LateOK, FreshOK, NcOK, TrackOK,
     ReaderOK, Late, Clients, Routes, Solicited, Conns
<1>4. CountInv'
  BY <1>1, Zenon DEF LifecycleInv, CountInv, Counted, Conns
<1> QED
  BY <1>2, <1>3, <1>4, Zenon DEF LifecycleInv

\* Three accept loops that have put three values are all there are.
LEMMA AllOver ==
  ASSUME NEW a, NEW b, NEW h, NEW d \in {0, 1}, 0 + Over(a) + Over(b) + Over(h) = 3 + d
  PROVE  a = "ended" /\ b = "ended" /\ h = "ended"
BY DEF Over

\* What is left behind follows from the invariant.
LEMMA QuietFollows ==
  ASSUME SizeFacts, LifecycleInv
  PROVE  QuietAfterShutdown
<1> SUFFICES ASSUME pc.shutdown = "returned", ~early
             PROVE  /\ \A p \in Ports : lsn[p] = "closed"
                    /\ pc.start = "ended" /\ pc.racc = "ended" /\ pc.http = "ended"
                    /\ \A c \in Conns :
                         /\ conn[c] \in {"none", "reset", "ended", "abandoned", "refused"}
                         /\ nc[c] \in {"open", "lost"} => conn[c] \in {"abandoned", "refused"}
  BY Zenon DEF QuietAfterShutdown
<1>1. \A p \in Ports : lsn[p] = "closed"
  BY DEF LifecycleInv, ControlInv, PortInv, Released
<1>2. doneExpected = 0 /\ done \in {0, 1}
  BY Zenon DEF LifecycleInv, ControlInv, ReturnInv, ServerTypes
<1>3. doneExpected + Over(pc.start) + Over(pc.racc) + Over(pc.http) = 3 + done
  BY DEF LifecycleInv, ControlInv, DoneInv, Released
<1>4. pc.start = "ended" /\ pc.racc = "ended" /\ pc.http = "ended"
  BY <1>2, <1>3, AllOver, Zenon
<1>5. Counted = {}
  <2>1. Counted \in SUBSET Conns
    BY Zenon DEF Counted
  <2>2. Cardinality(Counted) \in Nat /\ Busy(pc.routing) \in Nat
    <3>1. Cardinality(Counted) \in Nat
      BY <2>1, Zenon DEF SizeFacts
    <3> QED
      BY <3>1 DEF Busy
  <2>3. Cardinality(Counted) + Busy(pc.routing) = 0
    BY Zenon DEF LifecycleInv, CountInv
  <2> QED
    BY <2>1, <2>2, <2>3, SumZero, Zenon DEF SizeFacts
<1>6. ASSUME NEW c \in Conns
      PROVE  /\ conn[c] \in {"none", "reset", "ended", "abandoned", "refused"}
             /\ nc[c] \in {"open", "lost"} => conn[c] \in {"abandoned", "refused"}
  <2>1. conn[c] \in ConnAt /\ ConnOK(c) /\ conn[c] \notin Active
    BY <1>5, <1>6, Zenon DEF LifecycleInv, ConnInv, ConnTypes, Counted
  <2> QED
    BY <2>1 DEF ConnAt, Active, ConnOK, FreshOK, NcOK, Released
<1> QED
  BY <1>1, <1>4, <1>6, Zenon

INSTANCE FiniteSetTheorems

\* The facts about finite sets hold, as there are finitely many peers.
LEMMA Sizes == SizeFacts
<1>1. IsFiniteSet(Conns)
  BY LifecycleAssumption, FS_AddElement, Zenon DEF Conns
<1>2. Cardinality({}) = 0 /\ IsFiniteSet({}) /\ \A c : Cardinality({c}) = 1 /\ IsFiniteSet({c})
  BY FS_EmptySet, FS_Singleton, Zenon
<1>3. IsFiniteSet(Ports) /\ Cardinality(Ports) = 3
  <2>1. IsFiniteSet({"client"} \cup {"route"}) /\ Cardinality({"client"} \cup {"route"}) = 2
    <3>1. Cardinality({"client"}) = 1 /\ IsFiniteSet({"client"}) /\ "route" \notin {"client"}
      BY <1>2
    <3>2. Cardinality({"client"} \cup {"route"}) = Cardinality({"client"}) + 1
      BY <3>1, FS_AddElement, Zenon
    <3> QED
      BY <3>1, <3>2, FS_AddElement
  <2>2. /\ IsFiniteSet({"client"} \cup {"route"} \cup {"http"})
        /\ Cardinality({"client"} \cup {"route"} \cup {"http"}) = 3
    BY <2>1, FS_AddElement
  <2>3. {"client"} \cup {"route"} \cup {"http"} = Ports
    BY DEF Ports
  <2> QED
    BY <2>2, <2>3, Zenon
<1>4. ASSUME NEW S \in SUBSET Ports
      PROVE  Cardinality(S) \in Nat
  BY <1>3, FS_Subset, FS_CardinalityType, Zenon
<1>5. ASSUME NEW S \in SUBSET Conns
      PROVE  IsFiniteSet(S) /\ Cardinality(S) \in Nat /\ (Cardinality(S) = 0 => S = {})
  BY <1>1, FS_Subset, FS_CardinalityType, FS_EmptySet, Zenon
<1>6. ASSUME NEW S \in SUBSET Conns, NEW T \in SUBSET Conns, S \cap T = {}
      PROVE  Cardinality(S \cup T) = Cardinality(S) + Cardinality(T)
  <2>1. Cardinality(S \cup T) = Cardinality(S) + Cardinality(T) - Cardinality(S \cap T)
    BY <1>5, FS_Union, Zenon
  <2>2. Cardinality(S) \in Nat /\ Cardinality(T) \in Nat /\ Cardinality(S \cap T) = 0
    BY <1>2, <1>5, <1>6, Zenon
  <2> QED
    BY <2>1, <2>2
<1> QED
  BY <1>2, <1>3, <1>4, <1>5, <1>6, Zenon DEF SizeFacts

\* The invariant holds in every reachable state, for any finite set of peers, any limit
\* of connections and whatever the order in which Start, Shutdown, the internal client
\* and the peers' goroutines run (server.go, route.go).
THEOREM LifecycleInvCorrect == Spec => []LifecycleInv
<1>1. Init => LifecycleInv
  BY Sizes, InitInv, Zenon
<1>2. LifecycleInv /\ [Next]_vars => LifecycleInv'
  <2>1. ASSUME LifecycleInv, Next
        PROVE  LifecycleInv'
    BY <2>1, Sizes, NextConn, NextCount, Zenon DEF LifecycleInv
  <2> QED
    BY <2>1, StutterInv, Zenon
<1> QED
  BY <1>1, <1>2, PTL DEF Spec

\* Shutdown leaves no read loop behind that nobody interrupts: what createClient and
\* grTmpClients register before s.mu is taken is collected, and startGoRoutine starts
\* no read loop later.
THEOREM NoReaderLeftCorrect == Spec => []NoReaderLeft
<1>1. LifecycleInv => NoReaderLeft
  BY Zenon DEF LifecycleInv, ConnInv, ConnOK, ReaderOK, NoReaderLeft, Released
<1> QED
  BY <1>1, LifecycleInvCorrect, PTL

\* When a Shutdown of a server that was ready returns, its ports are closed and its
\* accept loops and counted goroutines have ended: s.done and s.grWG count right.
THEOREM QuietAfterShutdownCorrect == Spec => []QuietAfterShutdown
<1>1. LifecycleInv => QuietAfterShutdown
  BY Sizes, QuietFollows, Zenon
<1> QED
  BY <1>1, LifecycleInvCorrect, PTL
=============================================================================
