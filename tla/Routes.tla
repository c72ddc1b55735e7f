------------------------------- MODULE Routes -------------------------------
(***************************************************************************)
(* The route between two gnatsd servers (server/route.go, and the parts of *)
(* server/client.go and server/server.go that a route connection runs):    *)
(* either server may dial, both may dial at once, a connection to a server *)
(* that is already known is dropped as a duplicate, and a dropped route is *)
(* dialled again.  Over the route, server 1 tells server 2 which           *)
(* subscriptions its client has: all of them when the route is registered, *)
(* and every change from then on.                                          *)
(*                                                                         *)
(* The servers are 1 and 2, ordered as their IDs.  A connection is a       *)
(* number, free again when both ends are done; the TCP stream towards      *)
(* server s on connection k is the sequence net[s][k].  One step is what a *)
(* goroutine does under one lock.                                          *)
(***************************************************************************)
EXTENDS Integers, Sequences

CONSTANTS
    Sids,            \* subscription ids of the client of server 1
    MaxConns,        \* connections at one time (bound)
    MaxDials,        \* connections dialled (bound)
    MaxEvents        \* operations of the client, connections lost by the network
                     \* and servers advertised by a third one (bound)

Servers == {1, 2}
Other(s) == 3 - s
Conns == 1..MaxConns
None == 0

\* The subjects of successive subscriptions differ: they are numbered.
Subjects == 1..MaxEvents

VARIABLES
    configured, \* servers that have the other one in opts.Routes; fixed
    dials,      \* dials[s]: connectToRoute goroutines of s
    made,       \* connections dialled so far
    c,          \* c[s][k]: the client structure of s for connection k, its route
                \* structure, and where its readLoop is
    remotes,    \* remotes[s]: the registered route to the other server, or 0
    routes,     \* routes[s]: s.routes
    net,        \* the bytes under way
    subs,       \* c.subs of the client of server 1: sid -> subject or None
    pend,       \* the change it has made and not yet broadcast: <<>> or one
    copied,     \* copied[k]: subscriptions copied by sendLocalSubsToRoute
    view,       \* view[k]: c.subs of server 2 for the route k
    raced,      \* raced[k]: sids unsubscribed between that copy and its sending
    ops, drops, gossip

mesh == <<configured, dials, made, c, remotes, routes, drops, gossip>>
interest == <<subs, pend, copied, view, raced, ops>>
vars == <<mesh, net, interest>>

NoSubs == [i \in Sids |-> None]

\* createRoute: at is where the readLoop is, open is c.nc # nil, explicit is
\* routeType = Explicit, known is remoteID # "", dup is the route that made
\* this one a duplicate, retrying is closeConnection's retryImplicit.
NewClient(solicit, expl) ==
    [at |-> "read", open |-> TRUE, didSolicit |-> solicit, explicit |-> expl,
     known |-> FALSE, retry |-> FALSE, dup |-> 0, retrying |-> FALSE]
Gone(where) == [NewClient(FALSE, FALSE) EXCEPT !.at = where, !.open = FALSE]

Init ==
    /\ configured \in SUBSET Servers
    /\ dials = [s \in Servers |-> IF s \in configured THEN 1 ELSE 0]
    /\ made = 0
    /\ c = [s \in Servers |-> [k \in Conns |-> Gone("none")]]
    /\ remotes = [s \in Servers |-> 0]
    /\ routes = [s \in Servers |-> {}]
    /\ net = [s \in Servers |-> [k \in Conns |-> <<>>]]
    /\ subs = NoSubs /\ pend = <<>>
    /\ copied = [k \in Conns |-> NoSubs]
    /\ view = [k \in Conns |-> NoSubs]
    /\ raced = [k \in Conns |-> {}]
    /\ ops = 0 /\ drops = 0 /\ gossip = 0

\* What a connection says.
INFO == [op |-> "INFO"]
EOF == [op |-> "EOF"]
UNSUB(i) == [op |-> "UNSUB", sid |-> i]

\* The readLoop of s takes the next operation off connection k.
Reads(s, k, op) ==
    /\ c[s][k].at = "read" /\ net[s][k] # <<>> /\ Head(net[s][k]).op = op
    /\ net' = [net EXCEPT ![s][k] = Tail(@)]

-----------------------------------------------------------------------------
(* Dialling *)

DialPending(s) == dials[s] > 0

\* connectToRoute succeeds and createRoute runs at both ends; each sends INFO.
Connect(s) ==
    /\ DialPending(s) /\ made < MaxDials
    /\ \E k \in Conns :
         /\ \A t \in Servers : c[t][k].at = "none"
         /\ \A j \in 1..k-1 : \E t \in Servers : c[t][j].at # "none"
         /\ c' = [c EXCEPT ![s][k] = NewClient(TRUE, s \in configured),
                           ![Other(s)][k] = NewClient(FALSE, FALSE)]
         /\ net' = [t \in Servers |-> [net[t] EXCEPT ![k] = <<INFO>>]]
    /\ made' = made + 1
    /\ dials' = [dials EXCEPT ![s] = @ - 1]
    /\ UNCHANGED <<configured, remotes, routes, drops, gossip, interest>>

\* processImplicitRoute: a third server advertises the other one to s, which
\* dials it once unless it knows it already or has it configured.
processImplicitRoute(s) ==
    /\ ops + gossip + drops < MaxEvents
    /\ gossip' = gossip + 1
    /\ remotes[s] = 0 /\ s \notin configured
    /\ dials' = [dials EXCEPT ![s] = @ + 1]
    /\ UNCHANGED <<configured, made, c, remotes, routes, drops, net, interest>>

\* The network loses a connection and what was under way on it.
Drop(k) ==
    /\ ops + gossip + drops < MaxEvents /\ \E s \in Servers : c[s][k].open
    /\ drops' = drops + 1
    /\ net' = [s \in Servers |-> [net[s] EXCEPT ![k] = IF c[s][k].open THEN <<EOF>> ELSE <<>>]]
    /\ UNCHANGED <<configured, dials, made, c, remotes, routes, gossip, interest>>

-----------------------------------------------------------------------------
(* Registration *)

\* Mutant: no server retries.
Retries_Never(s) == FALSE

\* Of two servers, the one with the lower ID retries a route.
Retries(s) == s < Other(s)

\* processRouteInfo and addRoute under s.mu: the first connection to a server
\* is registered, and the server with the lower ID marks it to be retried.
AddRoute(s, k) ==
    /\ Reads(s, k, "INFO") /\ remotes[s] = 0
    /\ remotes' = [remotes EXCEPT ![s] = k]
    /\ routes' = [routes EXCEPT ![s] = @ \cup {k}]
    /\ c' = [c EXCEPT ![s][k].known = TRUE, ![s][k].retry = Retries(s),
                      ![s][k].at = IF s = 1 THEN "copy" ELSE "read"]
    /\ UNCHANGED <<configured, dials, made, drops, gossip, interest>>

\* addRoute finds the server registered already.
Duplicate(s, k) ==
    /\ Reads(s, k, "INFO") /\ remotes[s] # 0
    /\ c' = [c EXCEPT ![s][k].known = TRUE, ![s][k].dup = remotes[s],
                      ![s][k].at = "dup"]
    /\ UNCHANGED <<configured, dials, made, remotes, routes, drops, gossip, interest>>

-----------------------------------------------------------------------------
(* closeConnection *)

\* Under c.mu: close the socket, clear c.nc and take route.retry.  cs is c as
\* the caller leaves it.
CloseSocket(s, k, cs) ==
    /\ c' = [cs EXCEPT ![s][k].open = FALSE, ![s][k].at = "remove",
                       ![s][k].retrying = cs[s][k].retry]
    /\ net' = [net EXCEPT ![s][k] = <<>>,
                          ![Other(s)][k] = IF c[Other(s)][k].open THEN Append(@, EOF) ELSE @]

\* The tail of addRoute, outside s.mu: the registered route takes over the
\* route structure of a duplicate that was solicited, keeping its own retry.
\* The two share it from then on.  Then the duplicate is closed.
Upgrade(s, k) ==
    /\ c[s][k].at = "dup"
    /\ LET d == c[s][k].dup IN
       CloseSocket(s, k, IF c[s][k].didSolicit /\ c[s][d].at # "none"
                         THEN [c EXCEPT ![s][d].didSolicit = TRUE,
                                        ![s][d].explicit = c[s][k].explicit,
                                        ![s][k].retry = c[s][d].retry]
                         ELSE c)
    /\ UNCHANGED <<configured, dials, made, remotes, routes, drops, gossip, interest>>

\* readLoop gets an error from Read.
ReadEOF(s, k) ==
    /\ c[s][k].at = "read" /\ net[s][k] # <<>> /\ Head(net[s][k]) = EOF
    /\ CloseSocket(s, k, c)
    /\ UNCHANGED <<configured, dials, made, remotes, routes, drops, gossip, interest>>

\* removeClient, and the route's subscriptions leave the sublist.
removeClient(s, k) ==
    /\ c[s][k].at = "remove"
    /\ routes' = [routes EXCEPT ![s] = @ \ {k}]
    /\ remotes' = [remotes EXCEPT ![s] = IF @ = k THEN 0 ELSE @]
    /\ view' = IF s = 2 THEN [view EXCEPT ![k] = NoSubs] ELSE view
    /\ c' = [c EXCEPT ![s][k].at = "reconnect"]
    /\ UNCHANGED <<configured, dials, made, drops, gossip, net, subs, pend, copied,
                   raced, ops>>

\* The tail of closeConnection, under s.mu: a solicited route, or one marked
\* to be retried, is dialled again unless the server is connected already.
Redials(s, k) ==
    /\ c[s][k].didSolicit \/ c[s][k].retrying
    /\ ~(c[s][k].known /\ remotes[s] # 0)
    /\ c[s][k].explicit \/ c[s][k].retrying

\* The goroutine ends; the number k is free once both ends are done.
Reconnect(s, k) ==
    /\ c[s][k].at = "reconnect"
    /\ dials' = IF Redials(s, k) THEN [dials EXCEPT ![s] = @ + 1] ELSE dials
    /\ IF c[Other(s)][k].at = "done"
       THEN /\ c' = [t \in Servers |-> [c[t] EXCEPT ![k] = Gone("none")]]
            /\ copied' = [copied EXCEPT ![k] = NoSubs]
            /\ raced' = [raced EXCEPT ![k] = {}]
       ELSE c' = [c EXCEPT ![s][k] = Gone("done")] /\ UNCHANGED <<copied, raced>>
    /\ UNCHANGED <<configured, made, remotes, routes, drops, gossip, net, subs, pend,
                   view, ops>>

-----------------------------------------------------------------------------
(* Interest *)

\* sendProto on the open routes of server 1.
SendToRoutes(m) ==
    [net EXCEPT ![2] = [k \in Conns |-> IF k \in routes[1] /\ c[1][k].open /\ c[2][k].open
                                        THEN Append(net[2][k], m) ELSE net[2][k]]]

\* processSub of the client of server 1, under its c.mu.
processSub(i) ==
    /\ pend = <<>> /\ ops + gossip + drops < MaxEvents /\ subs[i] = None
    /\ subs' = [subs EXCEPT ![i] = ops + 1]
    /\ pend' = <<[op |-> "SUB", sid |-> i, subject |-> ops + 1]>>
    /\ ops' = ops + 1
    /\ UNCHANGED <<mesh, net, copied, view, raced>>

processUnsub(i) ==
    /\ pend = <<>> /\ ops + gossip + drops < MaxEvents /\ subs[i] # None
    /\ subs' = [subs EXCEPT ![i] = None]
    /\ pend' = <<UNSUB(i)>>
    /\ ops' = ops + 1
    /\ UNCHANGED <<mesh, net, copied, view, raced>>

\* broadcastSubscribe and broadcastUnSubscribe, under s.mu.
broadcastInterestToRoutes ==
    /\ pend # <<>>
    /\ net' = SendToRoutes(pend[1])
    /\ raced' = IF pend[1].op = "UNSUB"
                THEN [k \in Conns |-> IF c[1][k].at = "send" THEN raced[k] \cup {pend[1].sid}
                                      ELSE raced[k]]
                ELSE raced
    /\ pend' = <<>>
    /\ UNCHANGED <<mesh, subs, copied, view, ops>>

\* sendLocalSubsToRoute copies the subscriptions under s.mu and sends them
\* after releasing it.  (Server 2 has no client and nothing to send.)
CopyLocalSubs(k) ==
    /\ c[1][k].at = "copy"
    /\ copied' = [copied EXCEPT ![k] = subs]
    /\ c' = [c EXCEPT ![1][k].at = "send"]
    /\ UNCHANGED <<configured, dials, made, remotes, routes, drops, gossip, net,
                   subs, pend, view, raced, ops>>

sendLocalSubsToRoute(k) ==
    /\ c[1][k].at = "send"
    /\ net' = IF c[2][k].open
              THEN [net EXCEPT ![2][k] = Append(@, [op |-> "SUBS", all |-> copied[k]])]
              ELSE net
    /\ c' = [c EXCEPT ![1][k].at = "read"]
    /\ UNCHANGED <<configured, dials, made, remotes, routes, drops, gossip, interest>>

\* Mutant: a SUB replaces the subscription with its sid.
Subscribe_Replaces(old, new) == new

\* processSub of a route: a SUB whose sid is known is ignored.
Subscribe(old, new) == IF old = None THEN new ELSE old

\* Server 2 reads the subscriptions copied by server 1, a SUB or an UNSUB.
ReadInterest(k) ==
    /\ \/ /\ Reads(2, k, "SUBS")
          /\ LET all == Head(net[2][k]).all IN
             view' = [view EXCEPT ![k] =
                        [i \in Sids |-> Subscribe(@[i], all[i])]]
       \/ /\ Reads(2, k, "SUB")
          /\ LET m == Head(net[2][k]) IN
             view' = [view EXCEPT ![k][m.sid] = Subscribe(@, m.subject)]
       \/ /\ Reads(2, k, "UNSUB")
          /\ view' = [view EXCEPT ![k][Head(net[2][k]).sid] = None]
    /\ UNCHANGED <<mesh, subs, pend, copied, raced, ops>>

-----------------------------------------------------------------------------
Next ==
    \/ \E s \in Servers : Connect(s) \/ processImplicitRoute(s)
    \/ \E k \in Conns :
          Drop(k) \/ ReadInterest(k) \/ CopyLocalSubs(k) \/ sendLocalSubsToRoute(k)
    \/ \E s \in Servers, k \in Conns :
          \/ AddRoute(s, k) \/ Duplicate(s, k) \/ Upgrade(s, k)
          \/ ReadEOF(s, k) \/ removeClient(s, k) \/ Reconnect(s, k)
    \/ \E i \in Sids : processSub(i) \/ processUnsub(i)
    \/ broadcastInterestToRoutes

Spec == Init /\ [][Next]_vars

-----------------------------------------------------------------------------
(* Properties *)

\* Nothing is under way: no dial, no unread byte, no goroutine inside addRoute,
\* sendLocalSubsToRoute, closeConnection or a broadcast.
Settled ==
    /\ \A s \in Servers : dials[s] = 0
    /\ \A s \in Servers, k \in Conns :
          net[s][k] = <<>> /\ c[s][k].at \in {"none", "read", "done"}
    /\ pend = <<>>

TypeOK ==
    /\ configured \subseteq Servers /\ made \in 0..MaxDials
    /\ dials \in [Servers -> Nat]
    /\ c \in [Servers -> [Conns ->
             [at : {"none", "read", "dup", "copy", "send", "remove", "reconnect", "done"},
              open : BOOLEAN, didSolicit : BOOLEAN, explicit : BOOLEAN,
              known : BOOLEAN, retry : BOOLEAN, dup : 0..MaxConns, retrying : BOOLEAN]]]
    /\ remotes \in [Servers -> 0..MaxConns]
    /\ routes \in [Servers -> SUBSET Conns]
    /\ subs \in [Sids -> Subjects \cup {None}]
    /\ view \in [Conns -> [Sids -> Subjects \cup {None}]]

\* When everything has come to rest, the two servers are connected, by one
\* connection that both have registered: duplicates dropped on opposite ends
\* (addRoute), upgrades, redials and the retry of the lower ID never leave them
\* apart, nor with two routes.  One lost connection is recovered from; a second
\* fault at the wrong moment is not, since a connection dialled without being
\* configured is not dialled again and can displace the configured one.
RouteSettles ==
    Settled /\ made > 0 /\ (drops = 0 \/ (drops = 1 /\ gossip = 0 /\ configured # {})) =>
        /\ remotes[1] # 0 /\ remotes[1] = remotes[2]
        /\ \A s \in Servers : routes[s] = {remotes[s]} /\ c[s][remotes[s]].open

\* At rest, server 2 knows exactly the subscriptions of server 1's client,
\* except those unsubscribed between the two halves of sendLocalSubsToRoute; and
\* a connection that is closed at server 2 leaves no interest behind there.
InterestAgrees ==
    /\ Settled /\ remotes[1] # 0 =>
          \A i \in Sids : i \notin raced[remotes[1]] => view[remotes[1]][i] = subs[i]
    /\ \A k \in Conns : c[2][k].at \in {"none", "reconnect", "done"} => view[k] = NoSubs
=============================================================================
