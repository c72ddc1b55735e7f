------------------------------ MODULE Delivery ------------------------------
(***************************************************************************)
(* Delivery of messages to a client whose subscriptions come and go        *)
(* (server/client.go: processPub, processMsg, deliverMsg, processSub,      *)
(* processUnsub, unsubscribe, closeConnection).  The read loops of several *)
(* publishers and of the subscriber run at once; each step is one critical *)
(* section, of the subscriber's c.mu, of the sublist or of s.mu.           *)
(*                                                                         *)
(* A subscription structure is a number, given out in the order of the     *)
(* SUBs.  The sublist is the set sl of those inserted (module Sublist      *)
(* shows what Match returns); every subscription is on the same subject.   *)
(***************************************************************************)
EXTENDS Integers, Sequences, FiniteSets, Functions

CONSTANTS
    Pubs, Routers,     \* publishing connections, and those that are routes
    Sids, Reused,      \* sids of the subscriber, and those it uses again and again
    Subjects, Subject, \* subjects published to, and the one subscribed to
    Allowed,           \* subjects the publish permissions allow
    maxResultCacheSize, maxPermCacheSize, pruneSize,
    MaxSubs,           \* SUBs accepted (bound)
    MaxUnsubs,         \* UNSUBs sent (bound)
    MaxMsgs,           \* messages published (bound)
    Limits             \* max values of an UNSUB (0: none)

ASSUME DeliveryAssumption ==
    /\ IsFiniteSet(Pubs) /\ Routers \subseteq Pubs /\ Reused \subseteq Sids
    /\ Subject \in Allowed /\ Allowed \subseteq Subjects
    /\ maxResultCacheSize \in Nat /\ maxPermCacheSize \in Nat /\ pruneSize \in Nat
    /\ MaxSubs \in Nat \ {0} /\ MaxUnsubs \in Nat /\ MaxMsgs \in Nat /\ Limits \subseteq Nat

Subs == 1..MaxSubs

VARIABLES
    typ,          \* c.typ of the subscriber, "CLIENT" or "ROUTER"
    sl, genid,    \* the sublist and its generation number
    nsubs,        \* subscription structures made
    sid, queue, nm, max, \* their fields
    csubs,        \* c.subs of the subscriber: sid -> structure or 0
    open,         \* its c.nc # nil
    me,           \* where the subscriber's readLoop is
    closing,      \* subscriptions closeConnection has still to remove
    cache,        \* cache[p]: c.cache.genid and c.cache.results of a publisher
    pcache,       \* pcache[p]: c.perms.pcache
    pub,          \* pub[p]: where the publisher's readLoop is
    unsubs,       \* UNSUBs processed
    view,         \* what the routes hold: RSID or QRSID -> structure or 0
    msgs,         \* messages published
    got,          \* got[g]: messages written to the client for g
    limit,        \* limit[g]: what got[g] may not exceed, once UNSUB gave a max
    stale,        \* subscriptions a late unsubscribe took out of c.subs
    raced         \* rsids whose last SUB or UNSUB does not say what holds

vars == <<typ, sl, genid, nsubs, sid, queue, nm, max, csubs, open, me, closing, cache, pcache,
          pub, unsubs, view, msgs, got, limit, stale, raced>>

subs == <<typ, sl, genid, sid, queue, nm, max, csubs, nsubs, stale, unsubs>>
routes == <<view, raced>>
fields == <<typ, nsubs, unsubs, sid, queue, nm, max>>
hist == <<got, limit>>
caches == <<cache, pcache>>

\* No limit: more than all messages.
Unlimited == MaxMsgs + 1

Rsids == Sids \X BOOLEAN
routeSid(g) == <<sid[g], queue[g]>>

Idle == [at |-> "read", g |-> 0]
PubIdle == [at |-> "read", x |-> Subject, i |-> 0, g |-> 0, todo |-> {}, sent |-> FALSE,
            start |-> {}, made |-> 0, done |-> {}, missed |-> {}]

\* The sids that are not reused are subscribed from the start, or not at all.
Init ==
    /\ typ \in {"CLIENT", "ROUTER"}
    /\ \E early \in {<<>>} \cup {<<i>> : i \in Sids \ Reused}, q \in BOOLEAN :
         LET n == Len(early) IN
         /\ nsubs = n /\ sl = 1..n /\ genid = n
         /\ sid = [g \in Subs |-> IF g <= n THEN early[g] ELSE 0]
         /\ queue = [g \in Subs |-> g <= n /\ q]
         /\ csubs = [i \in Sids |-> IF n = 1 /\ early = <<i>> THEN 1 ELSE 0]
         /\ view = [r \in Rsids |-> IF typ = "CLIENT" /\ n = 1 /\ r = <<early[1], q>>
                                    THEN 1 ELSE 0]
    /\ nm = [g \in Subs |-> 0] /\ max = [g \in Subs |-> 0]
    /\ open = TRUE /\ me = Idle /\ closing = {}
    /\ cache = [p \in Pubs |-> [genid |-> 0, results |-> <<>>]]
    /\ pcache = [p \in Pubs |-> {}]
    /\ pub = [p \in Pubs |-> PubIdle]
    /\ msgs = 0 /\ unsubs = 0
    /\ got = [g \in Subs |-> 0] /\ limit = [g \in Subs |-> Unlimited]
    /\ stale = {} /\ raced = {}

-----------------------------------------------------------------------------
(* Subscribing and unsubscribing *)

\* Mutant: Remove leaves the generation number alone.
Remove_SameGeneration(gs) == sl' = sl \ gs /\ genid' = genid

\* sl.Remove: the generation number moves only if g was there.
Remove(gs) ==
    /\ sl' = sl \ gs
    /\ genid' = IF gs \cap sl = {} THEN genid ELSE genid + 1

\* processSub under c.mu; a closed connection and a known sid are ignored.
processSub(i, q) ==
    /\ me.at = "read" /\ open /\ csubs[i] = 0 /\ nsubs < MaxSubs
    /\ LET g == nsubs + 1 IN
         /\ nsubs' = g
         /\ sid' = [sid EXCEPT ![g] = i]
         /\ queue' = [queue EXCEPT ![g] = q]
         /\ csubs' = [csubs EXCEPT ![i] = g]
         /\ sl' = sl \cup {g} /\ genid' = genid + 1
         /\ me' = IF typ = "ROUTER" THEN Idle ELSE [at |-> "broadcastSub", g |-> g]
    /\ UNCHANGED <<typ, nm, max, unsubs, stale, open, closing, caches, pub, routes, msgs, hist>>

\* The subscription may have been removed again since processSub released c.mu.
broadcastSubscribe ==
    /\ me.at = "broadcastSub"
    /\ view' = [view EXCEPT ![routeSid(me.g)] = IF @ = 0 THEN me.g ELSE @]
    /\ raced' = IF open THEN raced \ {routeSid(me.g)} ELSE raced \cup {routeSid(me.g)}
    /\ me' = Idle
    /\ UNCHANGED <<subs, open, closing, caches, pub, msgs, hist>>

\* processUnsub under c.mu: find the subscription, set or clear its max.
processUnsub(i, m) ==
    /\ me.at = "read" /\ csubs[i] # 0 /\ unsubs < MaxUnsubs
    /\ unsubs' = unsubs + 1
    /\ max' = [max EXCEPT ![csubs[i]] = m]
    /\ limit' = [limit EXCEPT ![csubs[i]] =
                    IF m = 0 THEN Unlimited ELSE IF m > nm[csubs[i]] THEN m ELSE nm[csubs[i]]]
    /\ me' = [at |-> "unsub", g |-> csubs[i]]
    /\ UNCHANGED <<typ, sl, genid, nsubs, sid, queue, nm, csubs, open, closing, caches,
                   pub, routes, msgs, got, stale>>

\* Mutant: the subscription leaves c.subs and stays in the sublist.
unsubscribe_Inserted(g) ==
    IF max[g] > 0 /\ nm[g] < max[g] THEN UNCHANGED <<sl, genid, csubs, stale>>
    ELSE /\ csubs' = [csubs EXCEPT ![sid[g]] = 0]
         /\ UNCHANGED <<sl, genid, stale>>

\* unsubscribe under c.mu: put off while the limit is not reached; otherwise the
\* entry of c.subs with this sid is deleted, whichever subscription it holds.
unsubscribe(g) ==
    IF max[g] > 0 /\ nm[g] < max[g] THEN UNCHANGED <<sl, genid, csubs, stale>>
    ELSE /\ csubs' = [csubs EXCEPT ![sid[g]] = 0]
         /\ stale' = (IF open THEN stale \cup {csubs[sid[g]]} ELSE stale) \ {0, g}
         /\ Remove({g})

\* UNSUB is sent with a max while the limit is not reached.
SendsMax(g) == max[g] > 0 /\ nm[g] < max[g]

\* broadcastUnSubscribe: UNSUB with a max leaves the subscription in place, also
\* when the reason is that the client is closed.  UNSUB without one removes the
\* rsid, also when a subscription with it is in the sublist by now: a later one
\* with the same sid, or this one if its max was raised since.
broadcastUnSubscribe(g) ==
    IF typ = "ROUTER" THEN UNCHANGED routes
    ELSE IF SendsMax(g)
    THEN /\ UNCHANGED view
         /\ raced' = IF open THEN raced ELSE raced \cup {routeSid(g)}
    ELSE /\ view' = [view EXCEPT ![routeSid(g)] = 0]
         /\ raced' = IF \E h \in sl' : routeSid(h) = routeSid(g)
                     THEN raced \cup {routeSid(g)} ELSE raced \ {routeSid(g)}

\* The two steps of the subscriber's own UNSUB.
Unsubscribe ==
    /\ me.at = "unsub"
    /\ unsubscribe(me.g)
    /\ me' = [me EXCEPT !.at = "broadcastUnsub"]
    /\ UNCHANGED <<fields, open, closing, caches, pub, routes, msgs, hist>>

BroadcastUnsub ==
    /\ me.at = "broadcastUnsub"
    /\ UNCHANGED <<subs, open, closing, caches, pub, msgs, hist>>
    /\ broadcastUnSubscribe(me.g)
    /\ me' = Idle

-----------------------------------------------------------------------------
(* Closing *)

\* closeConnection under c.mu: clear c.nc and take the subscriptions.
CloseSocket ==
    /\ open' = FALSE
    /\ closing' = {csubs[i] : i \in Sids} \ {0}

\* The subscriber goes away.
closeConnection ==
    /\ me.at = "read" /\ open
    /\ CloseSocket
    /\ me' = [Idle EXCEPT !.at = "gone"]
    /\ UNCHANGED <<subs, caches, pub, routes, msgs, hist>>

CloseRemoves(g) ==
    /\ g \in closing
    /\ Remove({g})
    /\ broadcastUnSubscribe(g)
    /\ closing' = closing \ {g}
    /\ UNCHANGED <<fields, csubs, stale, open, me, caches, pub, msgs, hist>>

-----------------------------------------------------------------------------
(* Publishing *)

\* At most pruneSize + 1 entries of the map go, whichever the iteration meets.
Pruned(keys) == {keys \ d : d \in {e \in SUBSET keys :
                     Cardinality(e) = IF Cardinality(keys) <= pruneSize
                                      THEN Cardinality(keys) ELSE pruneSize + 1}}

\* The permission check of processMsg: the cached answer is used, or the answer
\* is cached.  Pruning the permission cache deletes from the result cache.
\* results' is what is left of the result cache.
CheckPermission(p, x, results) ==
    LET known == pcache[p] \cup {x} IN
    IF p \in Routers \/ x \in pcache[p]
    THEN pcache' = pcache /\ results = cache[p].results
    ELSE /\ pcache' = [pcache EXCEPT ![p] = known]
         /\ IF Cardinality(known) > maxPermCacheSize
            THEN \E keep \in Pruned(known) :
                   results = Restrict(cache[p].results,
                                      DOMAIN cache[p].results \ (known \ keep))
            ELSE results = cache[p].results

\* What processMsg does with the result r: nothing if it is empty; a queue
\* message from a route goes to the subscription its sid names; otherwise all
\* plain subscriptions and, unless it came from a route, one of the queue group.
Fanout(p, m, r) ==
    LET plain == {g \in r : ~queue[g]}
        group == r \ plain
    IN IF r # {} /\ p \in Routers /\ m.i # 0
       THEN pub' = [pub EXCEPT ![p] = [m EXCEPT !.at = "direct"]]
       ELSE \E one \in IF p \in Routers \/ group = {} THEN {{}} ELSE {{g} : g \in group} :
              pub' = [pub EXCEPT ![p] = [m EXCEPT !.at = "deliver", !.todo = plain \cup one]]

\* processMsg up to the look at the result cache of the connection, which holds
\* for one generation of the sublist.  A message from a route is addressed to
\* all plain subscriptions (i = 0) or to one queue subscription.
processMsg(p, x, i) ==
    /\ pub[p].at = "read" /\ msgs < MaxMsgs
    /\ msgs' = msgs + 1
    /\ \E results \in {Restrict(cache[p].results, S) : S \in SUBSET DOMAIN cache[p].results} :
         /\ CheckPermission(p, x, results)
         /\ LET m == [PubIdle EXCEPT !.x = x, !.i = i, !.made = nsubs,
                                     !.start = IF x = Subject THEN sl ELSE {}]
            IN IF p \notin Routers /\ x \notin Allowed
               THEN pub' = pub /\ cache' = [cache EXCEPT ![p].results = results]
               ELSE IF genid = cache[p].genid /\ x \in DOMAIN results
               THEN /\ Fanout(p, m, results[x])
                    /\ cache' = [cache EXCEPT ![p].results = results]
               ELSE /\ pub' = [pub EXCEPT ![p] = [m EXCEPT !.at = "match"]]
                    /\ cache' = [cache EXCEPT ![p] = [genid |-> genid,
                         results |-> IF genid = cache[p].genid THEN results ELSE <<>>]]
    /\ UNCHANGED <<subs, open, me, closing, routes, hist>>

Overfull(results) == Cardinality(DOMAIN results) > maxResultCacheSize

\* The look into the sublist after a miss, and pruning the result cache.
Match(p) ==
    /\ pub[p].at = "match"
    /\ LET x == pub[p].x
           r == IF x = Subject THEN sl ELSE {}
           all == [y \in DOMAIN cache[p].results \cup {x} |->
                     IF y = x THEN r ELSE cache[p].results[y]]
       IN /\ Fanout(p, pub[p], r)
          /\ IF Overfull(all)
             THEN \E keep \in Pruned(DOMAIN all) :
                    cache' = [cache EXCEPT ![p].results = Restrict(all, keep)]
             ELSE cache' = [cache EXCEPT ![p].results = all]
    /\ UNCHANGED <<subs, open, me, closing, pcache, routes, msgs, hist>>

\* routeSidQueueSubscriber: by cid and sid, among the registered clients.
RouteSidQueueSubscriber(p) ==
    /\ pub[p].at = "direct"
    /\ pub' = [pub EXCEPT ![p].at = "deliver",
                           ![p].todo = {csubs[pub[p].i]} \ {0}]
    /\ UNCHANGED <<subs, open, me, closing, caches, routes, msgs, hist>>

\* The subscription whose turn it is: the plain ones first, in the order in which
\* they were inserted.
Turn(p, g) ==
    /\ pub[p].at = "deliver" /\ g \in pub[p].todo
    /\ \A h \in pub[p].todo \ {g} : IF queue[h] = queue[g] THEN g < h ELSE queue[h]

\* A plain subscription of a route is skipped if the message came from a route
\* (1-hop semantics), the route is closed, or it got the message already.
Skips(p, g) ==
    /\ typ = "ROUTER" /\ ~queue[g]
    /\ p \in Routers \/ ~open \/ pub[p].sent

Skip(p, g) ==
    /\ Turn(p, g) /\ Skips(p, g)
    /\ pub' = [pub EXCEPT ![p].todo = @ \ {g}]
    /\ UNCHANGED <<subs, open, me, closing, caches, routes, msgs, hist>>

\* Mutant: a subscription already at its limit is let through.
Exceeds_Never(g) == FALSE

\* The message would be one more than the limit.
Exceeds(g) == max[g] > 0 /\ nm[g] + 1 > max[g]

\* deliverMsg under the subscriber's c.mu.  The message that reaches the limit
\* is delivered and the subscription removed afterwards; one beyond it is
\* dropped.  A write that times out closes the slow consumer; one that fails
\* otherwise is only logged.
deliverMsg(p, g) ==
    /\ Turn(p, g) /\ ~Skips(p, g)
    /\ nm' = [nm EXCEPT ![g] = @ + 1]
    /\ LET over == Exceeds(g)
           last == max[g] > 0 /\ nm[g] + 1 = max[g]
           writes == open /\ ~over
           next == [pub[p] EXCEPT !.todo = @ \ {g}, !.sent = @ \/ ~queue[g],
                                  !.missed = IF over THEN @ \cup {g} ELSE @,
                                  !.g = IF over \/ last THEN g ELSE 0,
                                  !.at = IF over \/ last THEN "unsub" ELSE "deliver"]
       IN \/ /\ got' = IF writes THEN [got EXCEPT ![g] = @ + 1] ELSE got
             /\ pub' = [pub EXCEPT ![p] = IF writes THEN [next EXCEPT !.done = @ \cup {g}]
                                          ELSE next]
             /\ UNCHANGED <<open, closing>>
          \/ /\ writes
             /\ CloseSocket
             /\ pub' = [pub EXCEPT ![p] = next]
             /\ UNCHANGED got
          \/ /\ writes
             /\ pub' = [pub EXCEPT ![p] = [next EXCEPT !.missed = @ \cup {g}]]
             /\ UNCHANGED <<open, closing, got>>
    /\ UNCHANGED <<typ, sl, genid, nsubs, unsubs, sid, queue, max, csubs, stale, me, caches,
                   routes, msgs, limit>>

\* The unsubscribe and the broadcast deliverMsg makes after releasing c.mu.
AutoUnsubscribe(p) ==
    /\ pub[p].at = "unsub"
    /\ unsubscribe(pub[p].g)
    /\ pub' = [pub EXCEPT ![p].at = "broadcastUnsub"]
    /\ UNCHANGED <<fields, open, me, closing, caches, routes, msgs, hist>>

AutoBroadcast(p) ==
    /\ pub[p].at = "broadcastUnsub"
    /\ UNCHANGED <<subs, open, me, closing, caches, msgs, hist>>
    /\ broadcastUnSubscribe(pub[p].g)
    /\ pub' = [pub EXCEPT ![p].at = "deliver", ![p].g = 0]

ReadNext(p) ==
    /\ pub[p].at = "deliver" /\ pub[p].todo = {}
    /\ pub' = [pub EXCEPT ![p] = PubIdle]
    /\ UNCHANGED <<subs, open, me, closing, caches, routes, msgs, hist>>

\* Sids of queue subscriptions the routes were told of at some time.
Told == IF typ = "CLIENT" THEN {sid[g] : g \in {h \in 1..nsubs : queue[h]}} ELSE {}

Next ==
    \/ \E i \in Reused, q \in BOOLEAN : processSub(i, q)
    \/ \E i \in Sids : \E m \in Limits : processUnsub(i, m)
    \/ broadcastSubscribe \/ Unsubscribe \/ BroadcastUnsub \/ closeConnection
    \/ \E g \in Subs : CloseRemoves(g)
    \/ \E p \in Pubs :
         \/ p \notin Routers /\ \E x \in Subjects : processMsg(p, x, 0)
         \/ p \in Routers /\ \E i \in {0} \cup Told : processMsg(p, Subject, i)
         \/ Match(p) \/ RouteSidQueueSubscriber(p)
         \/ \E g \in Subs : Skip(p, g) \/ deliverMsg(p, g)
         \/ AutoUnsubscribe(p) \/ AutoBroadcast(p) \/ ReadNext(p)

Spec == Init /\ [][Next]_vars

-----------------------------------------------------------------------------

TypeOK ==
    /\ sl \subseteq 1..nsubs /\ nsubs \in 0..MaxSubs
    /\ csubs \in [Sids -> 0..nsubs] /\ closing \subseteq 1..nsubs
    /\ genid \in 0..(2 * MaxSubs) /\ msgs \in 0..MaxMsgs
    /\ view \in [Rsids -> 0..nsubs] /\ raced \subseteq Rsids
    /\ \A p \in Pubs : /\ pcache[p] \subseteq Subjects /\ pub[p].todo \subseteq 1..nsubs
                      /\ Cardinality(DOMAIN cache[p].results) <= maxResultCacheSize

\* A subscription is never written more messages than the max of its UNSUB,
\* whichever publishers deliver to it at once, from whatever cached results.
AtMostMax == \A g \in Subs : got[g] <= limit[g]

Finished(p) == pub[p].at = "deliver" /\ pub[p].todo = {}

\* When processMsg returns, but for messages over a limit and failed writes:
\* nothing was written to a subscription removed
\* before it began (the result caches are not stale); every plain subscription
\* of a client that was there all along was written the message; so was one
\* of the queue group, and a route got it once, from clients only.
DeliveryContract ==
    \A p \in Pubs : Finished(p) =>
        LET m == pub[p]
            plain == {g \in m.done : ~queue[g]}
            there == {g \in m.start \cap sl : open}
            group == {g \in m.start : queue[g]}
        IN /\ (m.i = 0 => m.done \subseteq m.start \cup (m.made + 1)..nsubs)
           /\ (typ = "CLIENT" /\ m.i = 0 => {g \in there : ~queue[g]} \subseteq m.done \cup m.missed)
           /\ (p \notin Routers /\ group # {} /\ group \subseteq there
                 => Cardinality({g \in m.done \cup m.missed : queue[g]}) = 1)
           /\ (typ = "ROUTER" => Cardinality(plain) \in
                 IF p \in Routers THEN {0}
                 ELSE IF m.missed = {} /\ \E g \in there : ~queue[g] THEN {1} ELSE {0, 1})

Quiet ==
    /\ me.at \in {"read", "gone"} /\ closing = {}
    /\ \A p \in Pubs : pub[p].at \notin {"unsub", "broadcastUnsub"}

\* When nobody is between two critical sections, the sublist holds exactly the
\* subscriptions of c.subs while the client is connected and none once it is
\* closed, but for those a late unsubscribe of an earlier subscription with the
\* same sid took out of c.subs: these stay in the sublist for good.
SublistMatchesClient ==
    Quiet => sl = (IF open THEN {csubs[i] : i \in Sids} \ {0} ELSE {}) \cup stale

\* Then too the routes hold an rsid exactly if a subscription with it is in the
\* sublist, unless what they were told last was wrong when it was sent (raced): a
\* SUB or an UNSUB with a max of a closed connection, or an UNSUB while a
\* subscription with the rsid is in the sublist.
RoutesMatchSublist ==
    Quiet /\ typ = "CLIENT" =>
        \A r \in Rsids \ raced : (view[r] # 0) <=> (\E g \in sl : routeSid(g) = r)

\* The three tables of a client's subscriptions, c.subs, the sublist and the
\* routes', agree when nobody is changing them.
TablesAgree == SublistMatchesClient /\ RoutesMatchSublist

\* "Prune the permissions cache. Keeps us from unbounded growth."
WithinPermCache == \A p \in Pubs : Cardinality(pcache[p]) <= maxPermCacheSize
=============================================================================
