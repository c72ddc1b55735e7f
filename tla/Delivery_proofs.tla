-------------------------- MODULE Delivery_proofs --------------------------
(***************************************************************************)
(* Theorems about Delivery, for any publishers, subscriptions, limits and  *)
(* cache sizes: no subscription is written more than its limit, the tables *)
(* of the subscriptions agree, and every message goes to whom it should.   *)
(*                                                                         *)
(* The inductive invariant DeliveryInv has five parts, each with one lemma *)
(* per kind of step: the types and what a step changes at all (StateOK),   *)
(* the result caches (CachesOK), the tables and who is about to change     *)
(* them (TablesInv), the messages under way (ContractInv) and the counts   *)
(* (CountInv).                                                             *)
(***************************************************************************)
EXTENDS Delivery, TLAPS

-----------------------------------------------------------------------------
(* Sums and bounds *)

\* One summand becomes less.
LEMMA SumLess ==
  ASSUME NEW a \in Nat, NEW b \in Nat, NEW c \in Nat, NEW m \in Nat, a + b <= m, c <= b
  PROVE  a + c <= m
OBVIOUS

\* One summand and the sum grow by one.
LEMMA SumMore ==
  ASSUME NEW a \in Nat, NEW b \in Nat, NEW c \in Nat, NEW m \in Nat, a + b <= m, c <= b + 1
  PROVE  a + c <= m + 1
OBVIOUS

\* One summand passes one to the other.
LEMMA SumPassed ==
  ASSUME NEW a \in Nat, NEW b \in Nat, NEW c \in Nat, NEW m \in Nat, a + b <= m, c + 1 <= b
  PROVE  (a + 1) + c <= m
OBVIOUS

\* A summand is within the bound of the sum.
LEMMA SumBounds ==
  ASSUME NEW a \in Nat, NEW b \in Nat, NEW m \in Nat, NEW n \in Nat, a + b <= m, m <= n
  PROVE  a <= n
OBVIOUS

\* What an UNSUB with max m makes of the limit, when n messages were counted, a of them
\* written and at most u can be.
LEMMA LimitSet ==
  ASSUME NEW a \in Nat, NEW n \in Nat, NEW m \in Nat, NEW u \in Nat, a <= n, n <= u, NEW l,
         l = IF m = 0 THEN u + 1 ELSE IF m > n THEN m ELSE n
  PROVE  a <= l /\ (m > 0 => m <= l) /\ (m = 0 => l = u + 1)
OBVIOUS

\* Writing one more message, if the count is below the max x or there is none, keeps
\* within the limit l.
LEMMA LimitKept ==
  ASSUME NEW a \in Nat, NEW n \in Nat, NEW x \in Nat, NEW l \in Nat, NEW u \in Nat,
         a <= n, a <= l, n <= u, x > 0 => x <= l, x = 0 => l = u + 1, NEW b,
         b = a \/ (b = a + 1 /\ ~(x > 0 /\ n + 1 > x))
  PROVE  b <= n + 1 /\ b <= l
OBVIOUS

\* A number at most another that is at most n + 1.
LEMMA AtMostOneMore ==
  ASSUME NEW a \in Nat, NEW b \in Nat, NEW n \in Nat, a <= b, b <= n + 1
  PROVE  a <= n + 1
OBVIOUS

\* A number at most another that is one less than n.
LEMMA AtLeastOneLess ==
  ASSUME NEW a \in Nat, NEW b \in Nat, NEW n \in Nat, a <= b, b + 1 = n
  PROVE  a + 1 <= n
OBVIOUS

-----------------------------------------------------------------------------
(* The types, the caches and the effect of every step *)

\* The phases of processMsg.
At == {"read", "match", "direct", "deliver", "unsub", "broadcastUnsub"}

\* What a publisher holds of the message it is about, and of c the subscription
\* of an UNSUB it is about.
PubState ==
    [at : At, x : Subjects, i : Sids \cup {0}, g : 0..MaxSubs, todo : SUBSET Subs,
     sent : BOOLEAN, start : SUBSET Subs, made : 0..MaxSubs, done : SUBSET Subs,
     missed : SUBSET Subs]

\* What the subscriber's own read loop is about, once n subscriptions were made.
MeState(n) == [at : {"read", "broadcastSub", "unsub", "broadcastUnsub", "gone"}, g : 0..n]

\* The types of all but the publishers' state and the caches.
BaseOK ==
    /\ typ \in {"CLIENT", "ROUTER"} /\ open \in BOOLEAN
    /\ nsubs \in 0..MaxSubs /\ genid \in Nat /\ msgs \in 0..MaxMsgs
    /\ sl \subseteq 1..nsubs /\ csubs \in [Sids -> 0..nsubs]
    /\ sid \in [Subs -> Sids \cup {0}] /\ queue \in [Subs -> BOOLEAN]
    /\ nm \in [Subs -> Nat] /\ max \in [Subs -> Nat]
    /\ got \in [Subs -> Nat] /\ limit \in [Subs -> Nat]
    /\ me \in MeState(nsubs)

\* The types of the publishers' state.
PubsOK ==
    /\ pub \in [Pubs -> PubState]
    /\ \A p \in Pubs :
         pub[p].g <= nsubs /\ pub[p].made <= nsubs /\ pub[p].todo \subseteq 1..nsubs

\* The type invariant.
StateOK == BaseOK /\ PubsOK

\* No publisher but p moves.
Others(p) == pub' \in [Pubs -> PubState] /\ \A q \in Pubs \ {p} : pub'[q] = pub[q]

\* n is about the same message as m.
SameMsg(m, n) == n.x = m.x /\ n.i = m.i /\ n.start = m.start /\ n.made = m.made
\* n has got as far with it as m.
SameWork(m, n) == n.todo = m.todo /\ n.sent = m.sent /\ n.done = m.done /\ n.missed = m.missed

\* A publisher between two messages has nothing to do.
LEMMA PubIdleFields ==
  /\ PubIdle \in PubState /\ PubIdle.at = "read" /\ PubIdle.i = 0 /\ PubIdle.g = 0 /\ PubIdle.made = 0
  /\ PubIdle.todo = {} /\ PubIdle.sent = FALSE /\ PubIdle.start = {} /\ PubIdle.done = {}
  /\ PubIdle.missed = {}
BY DeliveryAssumption DEF PubIdle, PubState, At, Subs

\* What the sublist matches with x.
Of(x) == IF x = Subject THEN sl ELSE {}

\* A message as processMsg begins with it.
Started(x, i) == [PubIdle EXCEPT !.x = x, !.i = i, !.made = nsubs,
                                     !.start = IF x = Subject THEN sl ELSE {}]

\* What a message holds when processMsg begins.
LEMMA StartedFields ==
  ASSUME StateOK, NEW x \in Subjects, NEW i \in Sids \cup {0}
  PROVE  /\ Started(x, i) \in PubState /\ Started(x, i).at = "read"
         /\ Started(x, i).x = x /\ Started(x, i).i = i /\ Started(x, i).g = 0
         /\ Started(x, i).start = Of(x)
         /\ Started(x, i).todo = {} /\ ~Started(x, i).sent
         /\ Started(x, i).done = {} /\ Started(x, i).missed = {}
<1>1. /\ sl \subseteq Subs /\ nsubs \in 0..MaxSubs
  BY DeliveryAssumption DEF StateOK, BaseOK, PubsOK, Subs
<1> DEFINE S == IF x = Subject THEN sl ELSE {}
           n == [PubIdle EXCEPT !.x = x, !.i = i, !.made = nsubs, !.start = S]
<1>2. S \in SUBSET Subs
  BY <1>1
<1>3. Started(x, i) = n
  BY Zenon DEF Started
<1> HIDE DEF S
<1>4. n \in PubState
  BY <1>1, <1>2, PubIdleFields, Zenon DEF PubState
<1>5. n.at = "read" /\ n.x = x /\ n.i = i /\ n.g = 0 /\ n.made = nsubs /\ n.start = S
  BY PubIdleFields DEF PubState
<1>6. n.todo = {} /\ ~n.sent /\ n.done = {} /\ n.missed = {}
  BY PubIdleFields DEF PubState
<1> HIDE DEF n
<1> QED
  BY <1>3, <1>4, <1>5, <1>6, Zenon DEF S, Of

\* The subscriptions made before the message are those there are.
LEMMA StartedMade ==
  ASSUME StateOK, NEW x, NEW i
  PROVE  Started(x, i).made = nsubs
BY DEF Started, PubIdle

\* Moving on to another phase leaves the rest of the message alone.
LEMMA AtFields ==
  ASSUME NEW m \in PubState, NEW a \in At
  PROVE  LET n == [m EXCEPT !.at = a] IN
         n \in PubState /\ n.at = a /\ n.g = m.g /\ SameMsg(m, n) /\ SameWork(m, n)
BY DEF PubState, SameMsg, SameWork

\* Choosing whom to deliver to leaves the rest of the message alone.
LEMMA TodoFields ==
  ASSUME NEW m \in PubState, NEW T \in SUBSET Subs
  PROVE  LET n == [m EXCEPT !.at = "deliver", !.todo = T] IN
         /\ n \in PubState /\ n.at = "deliver" /\ n.g = m.g /\ SameMsg(m, n)
         /\ n.todo = T /\ n.sent = m.sent /\ n.done = m.done /\ n.missed = m.missed
BY Zenon DEF PubState, SameMsg, At

\* A step of p changes p's message only.
LEMMA ChangeOne ==
  ASSUME StateOK, NEW p \in Pubs, NEW n \in PubState, pub' = [pub EXCEPT ![p] = n]
  PROVE  Others(p) /\ pub'[p] = n
BY Zenon DEF StateOK, BaseOK, PubsOK, Others

\* The sublist holds subscriptions that were made.
LEMMA OfSubs ==
  ASSUME StateOK, NEW x
  PROVE  Of(x) \in SUBSET Subs /\ Of(x) \subseteq 1..nsubs
<1>1. sl \subseteq 1..nsubs /\ nsubs \in 0..MaxSubs
  BY Zenon DEF StateOK, BaseOK
<1>2. 1..nsubs \subseteq Subs
  BY <1>1, DeliveryAssumption DEF Subs
<1> QED
  BY <1>1, <1>2, Zenon DEF Of

\* A message that misses the result cache goes on to the sublist as it was.
LEMMA MatchStarted ==
  ASSUME StateOK, NEW p \in Pubs, NEW x \in Subjects, NEW i \in Sids \cup {0},
         pub' = [pub EXCEPT ![p] = [Started(x, i) EXCEPT !.at = "match"]]
  PROVE  /\ Others(p) /\ pub'[p].at = "match" /\ pub'[p].g = 0 /\ pub'[p].made = nsubs
         /\ SameMsg(Started(x, i), pub'[p]) /\ SameWork(Started(x, i), pub'[p])
<1> DEFINE n == [Started(x, i) EXCEPT !.at = "match"]
<1>0. Started(x, i).made = nsubs
  BY StartedMade, Zenon
<1>1. Started(x, i) \in PubState /\ Started(x, i).g = 0
  BY StartedFields, Zenon
<1>2. "match" \in At
  BY DEF At
<1>3. /\ n \in PubState /\ n.at = "match" /\ n.g = Started(x, i).g
      /\ SameMsg(Started(x, i), n) /\ SameWork(Started(x, i), n)
  BY <1>1, <1>2, AtFields, Zenon
<1> HIDE DEF n
<1>4. Others(p) /\ pub'[p] = n
  BY <1>3, ChangeOne, Zenon DEF n
<1> QED
  BY <1>0, <1>1, <1>3, <1>4, Zenon DEF SameMsg

\* How the message m of p goes on with the result r: to the queue subscription
\* it names, or to all plain ones of r and at most one of a queue group.
Fanned(p, m, r) ==
  \/ /\ p \in Routers /\ m.i # 0
     /\ pub'[p].at = "direct" /\ pub'[p].todo = m.todo
  \/ /\ p \in Routers => m.i = 0 \/ r = {}
     /\ pub'[p].at = "deliver"
     /\ pub'[p].todo \subseteq r /\ {g \in r : ~queue[g]} \subseteq pub'[p].todo
     /\ p \in Routers => \A g \in pub'[p].todo : ~queue[g]
     /\ p \notin Routers /\ (\E g \in r : queue[g])
          => \E g \in r : queue[g] /\ {h \in pub'[p].todo : queue[h]} = {g}

\* Handing out the result leaves the message alone (processMsg).
LEMMA FanoutEffect ==
  ASSUME StateOK, NEW p \in Pubs, NEW m \in PubState, NEW r \in SUBSET Subs, Fanout(p, m, r)
  PROVE  /\ Others(p) /\ SameMsg(m, pub'[p]) /\ pub'[p].g = m.g
         /\ pub'[p].sent = m.sent /\ pub'[p].done = m.done /\ pub'[p].missed = m.missed
         /\ Fanned(p, m, r)
<1> DEFINE plain == {g \in r : ~queue[g]}
           group == r \ plain
<1>1. CASE r # {} /\ p \in Routers /\ m.i # 0
  <2>1. pub' = [pub EXCEPT ![p] = [m EXCEPT !.at = "direct"]]
    BY <1>1, Zenon DEF Fanout
  <2>2. "direct" \in At
    BY DEF At
  <2> DEFINE n == [m EXCEPT !.at = "direct"]
  <2>3. n \in PubState /\ n.at = "direct" /\ n.g = m.g /\ SameMsg(m, n) /\ SameWork(m, n)
    BY <2>2, AtFields, Zenon
  <2>4. Others(p) /\ pub'[p] = n
    BY <2>1, <2>3, ChangeOne, Zenon
  <2> HIDE DEF n
  <2> QED
    BY <1>1, <2>3, <2>4, Zenon DEF SameWork, Fanned
<1>2. CASE ~(r # {} /\ p \in Routers /\ m.i # 0)
  <2>1. PICK one \in IF p \in Routers \/ group = {} THEN {{}} ELSE {{g} : g \in group} :
              pub' = [pub EXCEPT ![p] = [m EXCEPT !.at = "deliver", !.todo = plain \cup one]]
    BY <1>2, Zenon DEF Fanout
  <2>2. /\ one \subseteq group /\ (p \in Routers => one = {})
        /\ p \notin Routers /\ group # {} => \E g \in group : one = {g}
    BY <2>1, Zenon
  <2>3. plain \cup one \in SUBSET Subs
    BY <2>2, Zenon
  <2> DEFINE T == plain \cup one
  <2>4. /\ T \subseteq r /\ plain \subseteq T /\ (p \in Routers => \A g \in T : ~queue[g])
    BY <2>2, Zenon
  <2>5. p \notin Routers /\ (\E g \in r : queue[g]) => \E g \in r : queue[g] /\ {h \in T : queue[h]} = {g}
    BY <2>2, Zenon
  <2>6. pub' = [pub EXCEPT ![p] = [m EXCEPT !.at = "deliver", !.todo = T]] /\ T \in SUBSET Subs
    BY <2>1, <2>3, Zenon
  <2> HIDE DEF T
  <2> DEFINE n == [m EXCEPT !.at = "deliver", !.todo = T]
  <2>7. /\ n \in PubState /\ n.at = "deliver" /\ n.g = m.g /\ SameMsg(m, n)
         /\ n.todo = T /\ n.sent = m.sent /\ n.done = m.done /\ n.missed = m.missed
    BY <2>6, TodoFields, Zenon
  <2>8. Others(p) /\ pub'[p] = n
    BY <2>6, <2>7, ChangeOne, Zenon
  <2> HIDE DEF n
  <2> QED
    BY <1>2, <2>4, <2>5, <2>7, <2>8, Zenon DEF Fanned
<1> QED
  BY <1>1, <1>2, Zenon

\* The shape of the result caches.
CacheOK ==
    /\ cache = [p \in Pubs |-> [genid |-> cache[p].genid, results |-> cache[p].results]]
    /\ \A p \in Pubs : cache[p].genid \in Nat

\* The result cache of p is not ahead of the sublist, and of the sublist's own
\* generation it holds what the sublist would answer now.
CacheInv(p) ==
      /\ cache[p].genid <= genid
      /\ cache[p].genid = genid =>
           \A x \in DOMAIN cache[p].results : cache[p].results[x] = Of(x)

\* No publisher has a stale result cache.
CachesOK == CacheOK /\ \A q \in Pubs : CacheInv(q)

\* Storing results changes p's cache only and keeps its generation.
LEMMA ResultsSet ==
  ASSUME CacheOK, NEW p \in Pubs, NEW f, cache' = [cache EXCEPT ![p].results = f]
  PROVE  /\ CacheOK' /\ cache'[p].genid = cache[p].genid /\ cache'[p].results = f
         /\ \A q \in Pubs \ {p} : cache'[q] = cache[q]
<1>1. cache[p] = [genid |-> cache[p].genid, results |-> cache[p].results]
  BY Zenon DEF CacheOK
<1>2. DOMAIN cache = Pubs
  BY Zenon DEF CacheOK
<1>3. cache'[p] = [genid |-> cache[p].genid, results |-> f]
  BY <1>1, <1>2
<1>4. cache' = [q \in Pubs |-> cache'[q]]
  BY <1>2, Zenon
<1>5. cache'[p].genid = cache[p].genid /\ cache'[p].results = f
  BY <1>3
<1>6. \A q \in Pubs \ {p} : cache'[q] = cache[q]
  BY <1>2, Zenon
<1>7. \A q \in Pubs : cache'[q] = [genid |-> cache'[q].genid, results |-> cache'[q].results]
  BY <1>3, <1>5, <1>6, Zenon DEF CacheOK
<1>8. CacheOK'
  BY <1>4, <1>5, <1>6, <1>7, Zenon DEF CacheOK
<1> QED
  BY <1>5, <1>6, <1>8, Zenon

\* Starting a cache anew changes p's only.
LEMMA CacheSet ==
  ASSUME CacheOK, NEW p \in Pubs, NEW n \in Nat, NEW f,
         cache' = [cache EXCEPT ![p] = [genid |-> n, results |-> f]]
  PROVE  /\ CacheOK' /\ cache'[p].genid = n /\ cache'[p].results = f
         /\ \A q \in Pubs \ {p} : cache'[q] = cache[q]
<1>2. DOMAIN cache = Pubs
  BY Zenon DEF CacheOK
<1>3. cache'[p] = [genid |-> n, results |-> f]
  BY <1>2
<1>4. cache' = [q \in Pubs |-> IF q = p THEN [genid |-> n, results |-> f] ELSE cache[q]]
  BY <1>2, Zenon
<1>5. cache'[p].genid = n /\ cache'[p].results = f
  BY <1>3
<1>6. \A q \in Pubs \ {p} : cache'[q] = cache[q]
  BY <1>2, Zenon
<1>7. \A q \in Pubs : cache'[q] = [genid |-> cache'[q].genid, results |-> cache'[q].results]
  BY <1>3, <1>5, <1>6, Zenon DEF CacheOK
<1>8. CacheOK'
  BY <1>4, <1>5, <1>6, <1>7, Zenon DEF CacheOK
<1> QED
  BY <1>5, <1>6, <1>8, Zenon

\* A message is refused, handed out from the result cache, where it finds what
\* the sublist holds, or goes on to the sublist.
MsgOutcome(p, x, i) ==
  \/ pub' = pub
  \/ Fanout(p, Started(x, i), Of(x))
  \/ pub' = [pub EXCEPT ![p] = [Started(x, i) EXCEPT !.at = "match"]]

\* processMsg uses a cached result only if it is what the sublist holds.
LEMMA MsgEffect ==
  ASSUME StateOK, CachesOK, NEW p \in Pubs, NEW x, NEW i, processMsg(p, x, i)
  PROVE  CachesOK' /\ MsgOutcome(p, x, i)
<1>0. CacheOK /\ \A q \in Pubs : CacheInv(q)
  BY Zenon DEF CachesOK
<1>1. sl' = sl /\ genid' = genid /\ genid \in Nat
  BY Zenon DEF processMsg, subs, StateOK, BaseOK, PubsOK
<1>2. PICK results \in {Restrict(cache[p].results, S) : S \in SUBSET DOMAIN cache[p].results} :
               IF p \notin Routers /\ x \notin Allowed
               THEN pub' = pub /\ cache' = [cache EXCEPT ![p].results = results]
               ELSE IF genid = cache[p].genid /\ x \in DOMAIN results
               THEN /\ Fanout(p, Started(x, i), results[x])
                    /\ cache' = [cache EXCEPT ![p].results = results]
               ELSE /\ pub' = [pub EXCEPT ![p] = [Started(x, i) EXCEPT !.at = "match"]]
                    /\ cache' = [cache EXCEPT ![p] = [genid |-> genid,
                         results |-> IF genid = cache[p].genid THEN results ELSE <<>>]]
  BY Zenon DEF processMsg, Started
<1>3. /\ DOMAIN results \subseteq DOMAIN cache[p].results
      /\ \A y \in DOMAIN results : results[y] = cache[p].results[y]
  BY Zenon DEF Restrict
<1>4. \A y : Of(y)' = Of(y)
  BY <1>1, Zenon DEF Of
<1>5. /\ genid = cache[p].genid => \A y \in DOMAIN results : results[y] = Of(y)
  BY <1>0, <1>3, Zenon DEF CacheInv
<1>6. CASE cache' = [cache EXCEPT ![p].results = results]
  <2>1. /\ CacheOK' /\ cache'[p].genid = cache[p].genid /\ cache'[p].results = results
        /\ \A q \in Pubs \ {p} : cache'[q] = cache[q]
    BY <1>0, <1>6, ResultsSet, Zenon
  <2>2. \A q \in Pubs : CacheInv(q)'
    BY <1>0, <1>1, <1>4, <1>5, <2>1, Zenon DEF CacheInv
  <2>3. genid = cache[p].genid /\ x \in DOMAIN results => results[x] = Of(x)
    BY <1>5, Zenon
  <2>4. MsgOutcome(p, x, i)
    BY <1>2, <2>3, Zenon DEF MsgOutcome
  <2> QED
    BY <2>1, <2>2, <2>4, Zenon DEF CachesOK
<1>7. CASE cache' = [cache EXCEPT ![p] = [genid |-> genid,
                         results |-> IF genid = cache[p].genid THEN results ELSE <<>>]]
  <2> DEFINE f == IF genid = cache[p].genid THEN results ELSE <<>>
  <2>1. \A y \in DOMAIN f : f[y] = Of(y)
    BY <1>5
  <2>2. cache' = [cache EXCEPT ![p] = [genid |-> genid, results |-> f]]
    BY <1>7, Zenon
  <2> HIDE DEF f
  <2>3. /\ CacheOK' /\ cache'[p].genid = genid /\ cache'[p].results = f
        /\ \A q \in Pubs \ {p} : cache'[q] = cache[q]
    BY <1>0, <1>1, <2>2, CacheSet, Zenon
  <2>4. genid <= genid
    BY <1>1
  <2>5. \A q \in Pubs : CacheInv(q)'
    BY <1>0, <1>1, <1>4, <2>1, <2>3, <2>4, Zenon DEF CacheInv
  <2>6. MsgOutcome(p, x, i)
    BY <1>2, <1>5, Zenon DEF MsgOutcome
  <2> QED
    BY <2>3, <2>5, <2>6, Zenon DEF CachesOK
<1> QED
  BY <1>2, <1>6, <1>7, Zenon

\* The sublist is asked after a miss and its answer cached, pruned or not.
LEMMA MatchEffect ==
  ASSUME StateOK, CachesOK, NEW p \in Pubs, Match(p)
  PROVE  CachesOK' /\ Fanout(p, pub[p], Of(pub[p].x))
<1>0. CacheOK /\ \A q \in Pubs : CacheInv(q)
  BY Zenon DEF CachesOK
<1>1. sl' = sl /\ genid' = genid
  BY Zenon DEF Match, subs
<1>2. \A y : Of(y)' = Of(y)
  BY <1>1, Zenon DEF Of
<1> DEFINE x == pub[p].x
           all == [y \in DOMAIN cache[p].results \cup {x} |->
                     IF y = x THEN Of(x) ELSE cache[p].results[y]]
<1>3. /\ Fanout(p, pub[p], Of(x))
      /\ IF Overfull(all)
         THEN \E keep \in Pruned(DOMAIN all) :
                cache' = [cache EXCEPT ![p].results = Restrict(all, keep)]
         ELSE cache' = [cache EXCEPT ![p].results = all]
  BY Zenon DEF Match, Of
<1>4. PICK f : /\ cache' = [cache EXCEPT ![p].results = f]
               /\ DOMAIN f \subseteq DOMAIN all /\ \A y \in DOMAIN f : f[y] = all[y]
  <2>1. \A keep \in Pruned(DOMAIN all) : keep \subseteq DOMAIN all
    BY Zenon DEF Pruned
  <2>2. \A keep \in Pruned(DOMAIN all) : /\ DOMAIN Restrict(all, keep) = keep
                                         /\ \A y \in keep : Restrict(all, keep)[y] = all[y]
    BY Zenon DEF Restrict
  <2>3. CASE Overfull(all)
    <3> HIDE DEF all
    <3>1. PICK keep \in Pruned(DOMAIN all) :
            cache' = [cache EXCEPT ![p].results = Restrict(all, keep)]
      BY <1>3, <2>3, Zenon
    <3>2. /\ DOMAIN Restrict(all, keep) \subseteq DOMAIN all
          /\ \A y \in DOMAIN Restrict(all, keep) : Restrict(all, keep)[y] = all[y]
      BY <2>1, <2>2, <3>1, Zenon
    <3> QED
      BY <3>1, <3>2, Zenon
  <2>4. CASE ~Overfull(all)
    <3> HIDE DEF all
    <3>1. cache' = [cache EXCEPT ![p].results = all]
      BY <1>3, <2>4, Zenon
    <3> QED
      BY <3>1, Zenon
  <2> QED
    BY <2>3, <2>4, Zenon
<1>5. cache[p].genid = genid => \A y \in DOMAIN f : f[y] = Of(y)
  BY <1>0, <1>4, Zenon DEF CacheInv
<1>6. /\ CacheOK' /\ cache'[p].genid = cache[p].genid /\ cache'[p].results = f
      /\ \A q \in Pubs \ {p} : cache'[q] = cache[q]
  BY <1>0, <1>4, ResultsSet, Zenon
<1>7. \A q \in Pubs : CacheInv(q)'
  BY <1>0, <1>1, <1>2, <1>5, <1>6, Zenon DEF CacheInv
<1> QED
  BY <1>3, <1>6, <1>7, Zenon DEF CachesOK

\* Writing the message to a subscription leaves the rest of it alone.
LEMMA DoneFields ==
  ASSUME NEW m \in PubState, NEW D \in SUBSET Subs
  PROVE  LET n == [m EXCEPT !.done = D] IN
         /\ n \in PubState /\ n.at = m.at /\ n.g = m.g /\ SameMsg(m, n)
         /\ n.todo = m.todo /\ n.sent = m.sent /\ n.done = D /\ n.missed = m.missed
BY DEF PubState, SameMsg

\* Missing a subscription leaves the rest of the message alone.
LEMMA MissedFields ==
  ASSUME NEW m \in PubState, NEW M \in SUBSET Subs
  PROVE  LET n == [m EXCEPT !.missed = M] IN
         /\ n \in PubState /\ n.at = m.at /\ n.g = m.g /\ SameMsg(m, n)
         /\ n.todo = m.todo /\ n.sent = m.sent /\ n.done = m.done /\ n.missed = M
BY DEF PubState, SameMsg

\* What becomes of the message of p once it was the turn of g: the next one's
\* turn, or the removal of g if it has a max.
Handled(p, g) ==
  /\ Others(p) /\ SameMsg(pub[p], pub'[p])
  /\ pub'[p].todo = pub[p].todo \ {g}
  /\ pub'[p].sent = (pub[p].sent \/ ~queue[g])
  /\ \/ pub'[p].at = "deliver" /\ pub'[p].g = 0
     \/ pub'[p].at = "unsub" /\ pub'[p].g = g /\ max[g] > 0

\* deliverMsg writes the message, drops it or fails, which may close the client.
LEMMA DeliverEffect ==
  ASSUME StateOK, NEW p \in Pubs, NEW g \in Subs, deliverMsg(p, g)
  PROVE  /\ Handled(p, g)
         /\ \/ /\ open /\ ~Exceeds(g) /\ got' = [got EXCEPT ![g] = @ + 1]
               /\ pub'[p].done = pub[p].done \cup {g} /\ pub'[p].missed = pub[p].missed
               /\ (open' = open /\ closing' = closing)
            \/ /\ got' = got /\ pub'[p].done = pub[p].done
               /\ pub'[p].missed = pub[p].missed \cup {g}
               /\ (open' = open /\ closing' = closing)
            \/ /\ got' = got /\ pub'[p].done = pub[p].done /\ ~open'
               /\ pub'[p].missed \subseteq pub[p].missed \cup {g}
               /\ (open' = open /\ closing' = closing) \/ (open /\ CloseSocket)
<1> DEFINE over == Exceeds(g)
           last == max[g] > 0 /\ nm[g] + 1 = max[g]
           writes == open /\ ~over
           T == pub[p].todo \ {g}
           s == pub[p].sent \/ ~queue[g]
           M == IF over THEN pub[p].missed \cup {g} ELSE pub[p].missed
           h == IF over \/ last THEN g ELSE 0
           a == IF over \/ last THEN "unsub" ELSE "deliver"
           n == [pub[p] EXCEPT !.todo = T, !.sent = s, !.missed = M, !.g = h, !.at = a]
<1>1. pub[p] \in PubState
  BY Zenon DEF StateOK, BaseOK, PubsOK
<1>2. pub[p].todo \in SUBSET Subs /\ pub[p].missed \in SUBSET Subs /\ pub[p].done \in SUBSET Subs
  BY <1>1 DEF PubState
<1>3. \/ /\ got' = IF writes THEN [got EXCEPT ![g] = @ + 1] ELSE got
         /\ pub' = [pub EXCEPT ![p] = IF writes THEN [n EXCEPT !.done = n.done \cup {g}] ELSE n]
         /\ (open' = open /\ closing' = closing)
      \/ /\ writes /\ CloseSocket
         /\ pub' = [pub EXCEPT ![p] = n]
         /\ UNCHANGED got
      \/ /\ writes
         /\ pub' = [pub EXCEPT ![p] = [n EXCEPT !.missed = n.missed \cup {g}]]
         /\ UNCHANGED <<open, closing, got>>
  BY Zenon DEF deliverMsg
<1>4. over => max[g] > 0
  BY Zenon DEF Exceeds
<1>5. T \in SUBSET Subs /\ s \in BOOLEAN /\ M \in SUBSET Subs
  BY <1>2, Zenon
<1>6. h \in 0..MaxSubs /\ a \in At
  <2>1. g \in 0..MaxSubs /\ 0 \in 0..MaxSubs
    BY DeliveryAssumption DEF Subs
  <2>2. "unsub" \in At /\ "deliver" \in At
    BY DEF At
  <2> QED
    BY <2>1, <2>2, Zenon
<1>7. \/ a = "deliver" /\ h = 0
      \/ a = "unsub" /\ h = g /\ max[g] > 0
  BY <1>4, Zenon
<1>8. (over => M = pub[p].missed \cup {g}) /\ (~over => M = pub[p].missed)
  BY Zenon
<1> HIDE DEF T, s, M, h, a, over
<1>9. /\ n \in PubState /\ n.at = a /\ n.g = h /\ SameMsg(pub[p], n)
      /\ n.todo = T /\ n.sent = s /\ n.done = pub[p].done /\ n.missed = M
  BY <1>1, <1>5, <1>6, Zenon DEF PubState, SameMsg
<1> HIDE DEF n
<1>10. CASE writes /\ got' = [got EXCEPT ![g] = @ + 1] /\ (open' = open /\ closing' = closing)
            /\ pub' = [pub EXCEPT ![p] = [n EXCEPT !.done = n.done \cup {g}]]
  <2> DEFINE d == [n EXCEPT !.done = n.done \cup {g}]
  <2>1. n.done \cup {g} \in SUBSET Subs
    BY <1>2, <1>9, Zenon
  <2>2. /\ d \in PubState /\ d.at = n.at /\ d.g = n.g /\ SameMsg(n, d)
        /\ d.todo = n.todo /\ d.sent = n.sent /\ d.done = n.done \cup {g} /\ d.missed = n.missed
    BY <1>9, <2>1, DoneFields, Zenon
  <2> HIDE DEF d
  <2>3. Others(p) /\ pub'[p] = d
    BY <1>10, <2>2, ChangeOne, Zenon DEF d
  <2> QED
    BY <1>7, <1>8, <1>9, <1>10, <2>2, <2>3, Zenon DEF Handled, SameMsg, T, s, over
<1>11. CASE pub' = [pub EXCEPT ![p] = n] /\ got' = got
            /\ (((open' = open /\ closing' = closing) /\ ~writes) \/ (writes /\ CloseSocket))
  <2>1. Others(p) /\ pub'[p] = n
    BY <1>9, <1>11, ChangeOne, Zenon
  <2>2. CloseSocket => ~open'
    BY Zenon DEF CloseSocket
  <2>3. Handled(p, g)
    BY <1>7, <1>9, <2>1, Zenon DEF Handled, T, s
  <2>4. /\ pub'[p].done = pub[p].done
        /\ over => pub'[p].missed = pub[p].missed \cup {g}
        /\ pub'[p].missed \subseteq pub[p].missed \cup {g}
    BY <1>8, <1>9, <2>1, Zenon
  <2>5. open' = open /\ ~open => ~open'
    OBVIOUS
  <2> QED
    BY <1>11, <2>2, <2>3, <2>4, <2>5, Zenon
<1>12. CASE writes /\ got' = got /\ (open' = open /\ closing' = closing)
            /\ pub' = [pub EXCEPT ![p] = [n EXCEPT !.missed = n.missed \cup {g}]]
  <2> DEFINE d == [n EXCEPT !.missed = n.missed \cup {g}]
  <2>1. n.missed \cup {g} \in SUBSET Subs
    BY <1>5, <1>9, Zenon
  <2>2. /\ d \in PubState /\ d.at = n.at /\ d.g = n.g /\ SameMsg(n, d)
        /\ d.todo = n.todo /\ d.sent = n.sent /\ d.done = n.done /\ d.missed = n.missed \cup {g}
    BY <1>9, <2>1, MissedFields, Zenon
  <2> HIDE DEF d
  <2>3. Others(p) /\ pub'[p] = d
    BY <1>12, <2>2, ChangeOne, Zenon DEF d
  <2> QED
    BY <1>7, <1>8, <1>9, <1>12, <2>2, <2>3, Zenon DEF Handled, SameMsg, T, s
<1> QED
  BY <1>3, <1>10, <1>11, <1>12, Zenon

\* A route's plain subscription that is passed over is done with.
LEMMA SkipEffect ==
  ASSUME StateOK, NEW p \in Pubs, NEW g \in Subs, Skip(p, g)
  PROVE  /\ Others(p) /\ SameMsg(pub[p], pub'[p]) /\ pub'[p].at = pub[p].at
         /\ pub'[p].g = pub[p].g
         /\ pub'[p].todo = pub[p].todo \ {g} /\ pub'[p].sent = pub[p].sent
         /\ pub'[p].done = pub[p].done /\ pub'[p].missed = pub[p].missed
<1>1. pub \in [Pubs -> PubState] /\ pub[p] \in PubState
  BY Zenon DEF StateOK, BaseOK, PubsOK
<1>2. pub' = [pub EXCEPT ![p] = [pub[p] EXCEPT !.todo = @ \ {g}]]
  BY <1>1 DEF Skip
<1> DEFINE n == [pub[p] EXCEPT !.todo = @ \ {g}]
<1>3. n \in PubState
  BY <1>1 DEF PubState
<1>4. /\ SameMsg(pub[p], n) /\ n.at = pub[p].at /\ n.g = pub[p].g
      /\ n.todo = pub[p].todo \ {g} /\ n.sent = pub[p].sent
      /\ n.done = pub[p].done /\ n.missed = pub[p].missed
  BY <1>1 DEF PubState, SameMsg
<1> HIDE DEF n
<1>5. Others(p) /\ pub'[p] = n
  BY <1>2, <1>3, ChangeOne, Zenon DEF n
<1> QED
  BY <1>4, <1>5, Zenon

\* A queue message of a route goes to the subscription c.subs has for its sid.
LEMMA DirectEffect ==
  ASSUME StateOK, NEW p \in Pubs, RouteSidQueueSubscriber(p), pub[p].i \in Sids
  PROVE  /\ Others(p) /\ SameMsg(pub[p], pub'[p]) /\ pub'[p].at = "deliver"
         /\ pub'[p].g = pub[p].g /\ pub'[p].todo = {csubs[pub[p].i]} \ {0}
         /\ pub'[p].sent = pub[p].sent
         /\ pub'[p].done = pub[p].done /\ pub'[p].missed = pub[p].missed
<1>1. pub \in [Pubs -> PubState] /\ pub[p] \in PubState
  BY Zenon DEF StateOK, BaseOK, PubsOK
<1> DEFINE T == {csubs[pub[p].i]} \ {0}
<1>2. T \in SUBSET Subs
  <2>1. csubs[pub[p].i] \in 0..nsubs
    BY Zenon DEF StateOK, BaseOK, PubsOK
  <2>2. nsubs \in 0..MaxSubs
    BY Zenon DEF StateOK, BaseOK, PubsOK
  <2> QED
    BY <2>1, <2>2, DeliveryAssumption DEF Subs
<1>3. pub' = [pub EXCEPT ![p].at = "deliver", ![p].todo = T]
  BY Zenon DEF RouteSidQueueSubscriber
<1> HIDE DEF T
<1>4. pub' = [pub EXCEPT ![p] = [pub[p] EXCEPT !.at = "deliver", !.todo = T]]
  BY <1>1, <1>3, Zenon
<1> DEFINE n == [pub[p] EXCEPT !.at = "deliver", !.todo = T]
<1>5. /\ n \in PubState /\ n.at = "deliver" /\ n.g = pub[p].g /\ SameMsg(pub[p], n)
      /\ n.todo = T /\ n.sent = pub[p].sent /\ n.done = pub[p].done /\ n.missed = pub[p].missed
  BY <1>1, <1>2, TodoFields, Zenon
<1> HIDE DEF n
<1>6. Others(p) /\ pub'[p] = n
  BY <1>4, <1>5, ChangeOne, Zenon DEF n
<1> QED
  BY <1>5, <1>6, Zenon DEF T

\* Removing a subscription at its max leaves the message alone.
LEMMA AutoEffect ==
  ASSUME StateOK, NEW p \in Pubs, AutoUnsubscribe(p)
  PROVE  /\ Others(p) /\ SameMsg(pub[p], pub'[p]) /\ SameWork(pub[p], pub'[p])
         /\ pub'[p].at = "broadcastUnsub" /\ pub'[p].g = pub[p].g
<1>1. pub \in [Pubs -> PubState] /\ pub[p] \in PubState /\ "broadcastUnsub" \in At
  BY DEF StateOK, BaseOK, PubsOK, At
<1>2. pub' = [pub EXCEPT ![p] = [pub[p] EXCEPT !.at = "broadcastUnsub"]]
  BY <1>1 DEF AutoUnsubscribe
<1> DEFINE n == [pub[p] EXCEPT !.at = "broadcastUnsub"]
<1>3. /\ n \in PubState /\ n.at = "broadcastUnsub" /\ n.g = pub[p].g
      /\ SameMsg(pub[p], n) /\ SameWork(pub[p], n)
  BY <1>1, AtFields, Zenon
<1> HIDE DEF n
<1>4. Others(p) /\ pub'[p] = n
  BY <1>2, <1>3, ChangeOne, Zenon DEF n
<1> QED
  BY <1>3, <1>4, Zenon

\* So does telling the routes of it.
LEMMA BroadcastEffect ==
  ASSUME StateOK, NEW p \in Pubs, AutoBroadcast(p)
  PROVE  /\ Others(p) /\ SameMsg(pub[p], pub'[p]) /\ SameWork(pub[p], pub'[p])
         /\ pub'[p].at = "deliver" /\ pub'[p].g = 0
<1>1. pub \in [Pubs -> PubState] /\ pub[p] \in PubState
  BY Zenon DEF StateOK, BaseOK, PubsOK
<1>2. pub' = [pub EXCEPT ![p] = [pub[p] EXCEPT !.at = "deliver", !.g = 0]]
  BY <1>1, Zenon DEF AutoBroadcast
<1> DEFINE n == [pub[p] EXCEPT !.at = "deliver", !.g = 0]
<1>3. n \in PubState
  <2>1. 0 \in 0..MaxSubs /\ "deliver" \in At
    BY DeliveryAssumption DEF At
  <2> QED
    BY <1>1, <2>1, Zenon DEF PubState
<1>4. n.at = "deliver" /\ n.g = 0 /\ SameMsg(pub[p], n) /\ SameWork(pub[p], n)
  BY <1>1 DEF PubState, SameMsg, SameWork
<1> HIDE DEF n
<1>5. Others(p) /\ pub'[p] = n
  BY <1>2, <1>3, ChangeOne, Zenon DEF n
<1> QED
  BY <1>4, <1>5, Zenon

\* After the last delivery the publisher reads on.
LEMMA ReadEffect ==
  ASSUME StateOK, NEW p \in Pubs, ReadNext(p)
  PROVE  Others(p) /\ pub'[p] = PubIdle
BY PubIdleFields, ChangeOne, Zenon DEF ReadNext

\* The sublist changes only together with its generation.
Generation == (sl' = sl /\ genid' = genid) \/ genid' = genid + 1

\* Remove takes g out and counts a generation if g was there.
LEMMA RemoveEffect ==
  ASSUME StateOK, NEW g, Remove({g})
  PROVE  sl' = sl \ {g} /\ Generation /\ genid' \in Nat
BY DEF Remove, Generation, StateOK, BaseOK, PubsOK

\* unsubscribe takes at most g out, and nothing while more messages are due.
LEMMA UnsubscribeEffect ==
  ASSUME StateOK, NEW g, unsubscribe(g)
  PROVE  /\ sl' \subseteq sl /\ sl \ {g} \subseteq sl' /\ Generation /\ genid' \in Nat
         /\ csubs' \in [Sids -> 0..nsubs]
         /\ SendsMax(g) => sl' = sl /\ csubs' = csubs /\ stale' = stale
         /\ ~SendsMax(g) =>
              /\ csubs' = [csubs EXCEPT ![sid[g]] = 0] /\ sl' = sl \ {g}
              /\ stale' = (IF open THEN stale \cup {csubs[sid[g]]} ELSE stale) \ {0, g}
<1>1. csubs \in [Sids -> 0..nsubs] /\ nsubs \in Nat /\ genid \in Nat
  BY DEF StateOK, BaseOK, PubsOK
<1>2. CASE SendsMax(g)
  BY <1>1, <1>2, Zenon DEF unsubscribe, SendsMax, Generation
<1>3. CASE ~SendsMax(g)
  <2>1. /\ csubs' = [csubs EXCEPT ![sid[g]] = 0] /\ Remove({g})
        /\ stale' = (IF open THEN stale \cup {csubs[sid[g]]} ELSE stale) \ {0, g}
    BY <1>3, Zenon DEF unsubscribe, SendsMax
  <2>2. csubs' \in [Sids -> 0..nsubs]
    <3>1. 0 \in 0..nsubs
      BY <1>1
    <3> QED
      BY <1>1, <2>1, <3>1, Zenon
  <2>3. sl' = sl \ {g} /\ Generation /\ genid' \in Nat
    BY <2>1, RemoveEffect, Zenon
  <2> QED
    BY <1>3, <2>1, <2>2, <2>3, Zenon
<1> QED
  BY <1>2, <1>3, Zenon

\* A change of the sublist leaves no cache stale: all are of an older generation.
LEMMA CacheGeneration ==
  ASSUME StateOK, CachesOK, cache' = cache, Generation
  PROVE  CachesOK'
<1>0. CacheOK /\ \A q \in Pubs : CacheInv(q)
  BY Zenon DEF CachesOK
<1>1. CacheOK'
  BY <1>0, Zenon DEF CacheOK
<1>2. CASE sl' = sl /\ genid' = genid
  BY <1>0, <1>1, <1>2, Zenon DEF CachesOK, CacheInv, Of
<1>3. CASE genid' = genid + 1
  <2>1. \A q \in Pubs : cache[q].genid <= genid /\ cache[q].genid \in Nat /\ genid \in Nat
    BY <1>0, Zenon DEF CacheInv, CacheOK, StateOK, BaseOK, PubsOK
  <2>2. \A q \in Pubs : cache[q].genid <= genid' /\ cache[q].genid # genid'
    BY <1>3, <2>1
  <2> QED
    BY <1>1, <2>2, Zenon DEF CachesOK, CacheInv
<1> QED
  BY <1>2, <1>3, Zenon DEF Generation

\* The types hold after a step that makes no subscription.
LEMMA BaseFrame ==
  ASSUME BaseOK, UNCHANGED <<typ, nsubs, sid, queue>>, sl' \subseteq sl, genid' \in Nat,
         csubs' \in [Sids -> 0..nsubs], msgs' \in 0..MaxMsgs, open' \in BOOLEAN,
         nm' \in [Subs -> Nat], max' \in [Subs -> Nat], got' \in [Subs -> Nat],
         limit' \in [Subs -> Nat],
         me' \in MeState(nsubs)
  PROVE  BaseOK'
BY Zenon DEF BaseOK

\* The types of the publishers hold after a step of p.
LEMMA PubsFrame ==
  ASSUME PubsOK, nsubs \in Nat, NEW p \in Pubs, Others(p), nsubs' = nsubs,
         pub'[p].g <= nsubs, pub'[p].made <= nsubs, pub'[p].todo \subseteq 1..nsubs
  PROVE  PubsOK'
BY Zenon DEF PubsOK, Others

\* The values of c.subs are subscriptions that were made.
LEMMA ClientSub ==
  ASSUME StateOK, NEW i \in Sids
  PROVE  csubs[i] \in 0..nsubs /\ (csubs[i] # 0 => csubs[i] \in 1..nsubs /\ csubs[i] \in Subs)
<1>1. csubs[i] \in 0..nsubs /\ nsubs \in 0..MaxSubs
  BY Zenon DEF StateOK, BaseOK
<1> QED
  BY <1>1, DeliveryAssumption DEF Subs

\* The subscriber's read loop between two commands.
LEMMA IdleState ==
  /\ \A n \in Nat : Idle \in MeState(n) /\ [Idle EXCEPT !.at = "gone"] \in MeState(n)
  /\ Idle.at = "read" /\ [Idle EXCEPT !.at = "gone"].at = "gone"
BY DEF Idle, MeState

\* processSub makes one subscription and enters it in c.subs and the sublist.
LEMMA SubEffect ==
  ASSUME StateOK, NEW i \in Sids, NEW q \in BOOLEAN, processSub(i, q)
  PROVE  /\ StateOK' /\ Generation /\ cache' = cache
         /\ nsubs + 1 \in Subs /\ nsubs' = nsubs + 1 /\ sl' = sl \cup {nsubs + 1}
         /\ sid'[nsubs + 1] = i /\ queue'[nsubs + 1] = q
         /\ \A g \in 1..nsubs : g \in Subs /\ sid'[g] = sid[g] /\ queue'[g] = queue[g]
<1>1. /\ nsubs \in 0..MaxSubs /\ sl \subseteq 1..nsubs /\ genid \in Nat
      /\ csubs \in [Sids -> 0..nsubs] /\ sid \in [Subs -> Sids \cup {0}]
      /\ queue \in [Subs -> BOOLEAN] /\ me \in MeState(nsubs)
  BY Zenon DEF StateOK, BaseOK
<1>2. /\ nsubs < MaxSubs /\ nsubs' = nsubs + 1 /\ sl' = sl \cup {nsubs + 1}
      /\ sid' = [sid EXCEPT ![nsubs + 1] = i] /\ queue' = [queue EXCEPT ![nsubs + 1] = q]
      /\ csubs' = [csubs EXCEPT ![i] = nsubs + 1] /\ genid' = genid + 1
      /\ me' = Idle \/ me' = [at |-> "broadcastSub", g |-> nsubs + 1]
      /\ UNCHANGED <<typ, open, msgs, nm, max, got, limit, pub, cache>>
  BY DEF processSub, hist, caches
<1>3. /\ nsubs + 1 \in Subs /\ nsubs + 1 \in 0..MaxSubs /\ genid' \in Nat
      /\ sl' \subseteq 1..(nsubs + 1) /\ nsubs + 1 \in 0..(nsubs + 1)
      /\ \A k \in 0..nsubs : k \in 0..(nsubs + 1)
      /\ \A k \in 1..nsubs : k \in Subs /\ k # nsubs + 1 /\ k \in 1..(nsubs + 1)
      /\ \A k \in 0..MaxSubs : k <= nsubs => k <= nsubs + 1
  BY <1>1, <1>2, DeliveryAssumption DEF Subs
<1>4. me' \in MeState(nsubs + 1)
  <2>1. [at |-> "broadcastSub", g |-> nsubs + 1] \in MeState(nsubs + 1)
    BY <1>3 DEF MeState
  <2>2. Idle \in MeState(nsubs + 1)
    BY <1>1, <1>2, IdleState
  <2> QED
    BY <1>2, <2>1, <2>2, Zenon
<1>5. csubs' \in [Sids -> 0..(nsubs + 1)]
  BY <1>1, <1>2, <1>3, Zenon
<1>6. /\ sid' \in [Subs -> Sids \cup {0}] /\ queue' \in [Subs -> BOOLEAN]
      /\ sid'[nsubs + 1] = i /\ queue'[nsubs + 1] = q
      /\ \A g \in 1..nsubs : g \in Subs /\ sid'[g] = sid[g] /\ queue'[g] = queue[g]
  BY <1>1, <1>2, <1>3, Zenon
<1>7. BaseOK'
  BY <1>2, <1>3, <1>4, <1>5, <1>6, Zenon DEF StateOK, BaseOK
<1>8. \A p \in Pubs : pub[p].g \in 0..MaxSubs /\ pub[p].made \in 0..MaxSubs
  BY DEF StateOK, PubsOK, PubState
<1>9. PubsOK'
  BY <1>2, <1>3, <1>8, Zenon DEF StateOK, PubsOK
<1> QED
  BY <1>2, <1>3, <1>6, <1>7, <1>9, Zenon DEF StateOK, Generation

\* What the steps that leave nsubs alone do to the types.
LEMMA OwnSteps ==
  ASSUME StateOK,
         \/ \E i \in Sids, m \in Limits : processUnsub(i, m)
         \/ broadcastSubscribe \/ Unsubscribe \/ BroadcastUnsub \/ closeConnection
         \/ \E g \in Subs : CloseRemoves(g)
  PROVE  StateOK' /\ Generation /\ pub' = pub /\ cache' = cache
<1>1. /\ nsubs \in Nat /\ nsubs \in 0..MaxSubs /\ genid \in Nat /\ open \in BOOLEAN /\ msgs \in 0..MaxMsgs
      /\ csubs \in [Sids -> 0..nsubs] /\ me \in MeState(nsubs) /\ BaseOK /\ PubsOK
      /\ nm \in [Subs -> Nat] /\ max \in [Subs -> Nat] /\ got \in [Subs -> Nat]
      /\ limit \in [Subs -> Nat]
  BY DEF StateOK, BaseOK
<1>2. /\ Idle \in MeState(nsubs) /\ [Idle EXCEPT !.at = "gone"] \in MeState(nsubs)
  BY <1>1, IdleState, Zenon
<1>3. ASSUME pub' = pub, nsubs' = nsubs
      PROVE  PubsOK'
  BY <1>1, <1>3, Zenon DEF PubsOK
<1>4. ASSUME NEW i \in Sids, NEW m \in Limits, processUnsub(i, m)
      PROVE  StateOK' /\ Generation /\ pub' = pub /\ cache' = cache
  <2>1. /\ UNCHANGED <<typ, sl, genid, nsubs, sid, queue, nm, csubs, open, cache, pub, msgs, got>>
        /\ csubs[i] # 0
    BY <1>4 DEF processUnsub, caches
  <2>2. csubs[i] \in 0..nsubs /\ m \in Nat /\ Unlimited \in Nat
    BY <1>1, DeliveryAssumption DEF Unlimited
  <2>3. me' \in MeState(nsubs)
    BY <1>4, <2>2 DEF processUnsub, MeState
  <2>4. max' \in [Subs -> Nat]
    BY <1>1, <1>4, <2>2, Zenon DEF processUnsub
  <2>5. limit' \in [Subs -> Nat]
    <3>1. csubs[i] \in Subs
      BY <2>1, ClientSub, Zenon
    <3>2. nm[csubs[i]] \in Nat
      BY <1>1, <3>1, Zenon
    <3> QED
      BY <1>1, <1>4, <2>2, <3>2, Zenon DEF processUnsub
  <2>6. BaseOK'
    BY <1>1, <2>1, <2>3, <2>4, <2>5, BaseFrame, Zenon
  <2> QED
    BY <1>3, <2>1, <2>6, Zenon DEF StateOK, Generation
<1>5. ASSUME broadcastSubscribe \/ BroadcastUnsub
      PROVE  StateOK' /\ Generation /\ pub' = pub /\ cache' = cache
  <2>1. /\ UNCHANGED <<typ, sl, genid, nsubs, sid, queue, nm, max, csubs, open, cache, pub, msgs, got, limit>>
        /\ me' = Idle
    BY <1>5 DEF broadcastSubscribe, BroadcastUnsub, caches, subs, hist
  <2>2. BaseOK'
    BY <1>1, <1>2, <2>1, BaseFrame, Zenon
  <2> QED
    BY <1>3, <2>1, <2>2, Zenon DEF StateOK, Generation
<1>6. ASSUME Unsubscribe
      PROVE  StateOK' /\ Generation /\ pub' = pub /\ cache' = cache
  <2>1. /\ UNCHANGED <<typ, nsubs, sid, queue, nm, max, open, cache, pub, msgs, got, limit>>
        /\ me' = [me EXCEPT !.at = "broadcastUnsub"] /\ unsubscribe(me.g)
    BY <1>6 DEF Unsubscribe, caches, fields, hist
  <2>2. me' \in MeState(nsubs)
    BY <1>1, <2>1 DEF MeState
  <2>3. sl' \subseteq sl /\ Generation /\ genid' \in Nat /\ csubs' \in [Sids -> 0..nsubs]
    BY <2>1, UnsubscribeEffect, Zenon
  <2>4. BaseOK'
    BY <1>1, <2>1, <2>2, <2>3, BaseFrame, Zenon
  <2> QED
    BY <1>3, <2>1, <2>3, <2>4, Zenon DEF StateOK
<1>7. ASSUME closeConnection
      PROVE  StateOK' /\ Generation /\ pub' = pub /\ cache' = cache
  <2>1. /\ UNCHANGED <<typ, sl, genid, nsubs, sid, queue, nm, max, csubs, cache, pub, msgs, got, limit>>
        /\ me' = [Idle EXCEPT !.at = "gone"] /\ open' \in BOOLEAN
    BY <1>7, Zenon DEF closeConnection, CloseSocket, caches, subs, hist
  <2>2. BaseOK'
    BY <1>1, <1>2, <2>1, BaseFrame, Zenon
  <2> QED
    BY <1>3, <2>1, <2>2, Zenon DEF StateOK, Generation
<1>8. ASSUME NEW g \in Subs, CloseRemoves(g)
      PROVE  StateOK' /\ Generation /\ pub' = pub /\ cache' = cache
  <2>1. /\ UNCHANGED <<typ, nsubs, sid, queue, nm, max, csubs, open, me, cache, pub, msgs, got, limit>>
        /\ Remove({g})
    BY <1>8 DEF CloseRemoves, caches, fields, hist
  <2>2. sl' \subseteq sl /\ Generation /\ genid' \in Nat
    BY <2>1, RemoveEffect, Zenon
  <2>3. BaseOK'
    BY <1>1, <2>1, <2>2, BaseFrame, Zenon
  <2> QED
    BY <1>3, <2>1, <2>2, <2>3, Zenon DEF StateOK
<1> QED
  BY <1>4, <1>5, <1>6, <1>7, <1>8, Zenon

\* A step of publisher p
PubNext(p) ==
    \/ \E x \in Subjects, i \in Sids \cup {0} :
         /\ i # 0 => p \in Routers /\ typ = "CLIENT"
         /\ processMsg(p, x, i)
    \/ Match(p) \/ RouteSidQueueSubscriber(p)
    \/ \E g \in Subs : Skip(p, g) \/ deliverMsg(p, g)
    \/ AutoUnsubscribe(p) \/ AutoBroadcast(p) \/ ReadNext(p)

\* Every step is the subscriber's or one publisher's.
LEMMA NextSplit ==
  ASSUME StateOK, \A g \in 1..nsubs : sid[g] \in Sids, Next
  PROVE  \/ \E i \in Sids, q \in BOOLEAN : processSub(i, q)
         \/ \/ \E i \in Sids, m \in Limits : processUnsub(i, m)
            \/ broadcastSubscribe \/ Unsubscribe \/ BroadcastUnsub \/ closeConnection
            \/ \E g \in Subs : CloseRemoves(g)
         \/ \E p \in Pubs : PubNext(p)
<1>1. ASSUME NEW p \in Pubs, p \in Routers, NEW i \in {0} \cup Told, processMsg(p, Subject, i)
      PROVE  PubNext(p)
  <2>1. i = 0 \/ (i \in Sids /\ typ = "CLIENT")
    BY <1>1, Zenon DEF Told
  <2>2. Subject \in Subjects
    BY DeliveryAssumption, Zenon
  <2> QED
    BY <1>1, <2>1, <2>2, Zenon DEF PubNext
<1>2. ASSUME NEW p \in Pubs, p \notin Routers, NEW x \in Subjects, processMsg(p, x, 0)
      PROVE  PubNext(p)
  BY <1>2, Zenon DEF PubNext
<1>3. ASSUME NEW i \in Reused, NEW q \in BOOLEAN, processSub(i, q)
      PROVE  \E j \in Sids, r \in BOOLEAN : processSub(j, r)
  BY <1>3, DeliveryAssumption, Zenon
<1>4. ASSUME NEW p \in Pubs,
             \/ Match(p) \/ RouteSidQueueSubscriber(p)
             \/ \E g \in Subs : Skip(p, g) \/ deliverMsg(p, g)
             \/ AutoUnsubscribe(p) \/ AutoBroadcast(p) \/ ReadNext(p)
      PROVE  PubNext(p)
  BY <1>4, Zenon DEF PubNext
<1> QED
  BY <1>1, <1>2, <1>3, <1>4, Zenon DEF Next

\* Publishers make no subscriptions and set no limits.
LEMMA PubFrame ==
  ASSUME NEW p \in Pubs, PubNext(p)
  PROVE  /\ typ' = typ /\ nsubs' = nsubs /\ sid' = sid /\ queue' = queue /\ max' = max
         /\ limit' = limit /\ me' = me
<1>1. ASSUME NEW x, NEW i, processMsg(p, x, i)
      PROVE  UNCHANGED <<typ, nsubs, sid, queue, max, limit, me>>
  BY <1>1 DEF processMsg, subs, hist
<1>2. ASSUME Match(p) \/ RouteSidQueueSubscriber(p) \/ AutoBroadcast(p) \/ ReadNext(p)
      PROVE  UNCHANGED <<typ, nsubs, sid, queue, max, limit, me>>
  BY <1>2 DEF Match, RouteSidQueueSubscriber, AutoBroadcast, ReadNext, subs, hist
<1>3. ASSUME AutoUnsubscribe(p)
      PROVE  UNCHANGED <<typ, nsubs, sid, queue, max, limit, me>>
  BY <1>3 DEF AutoUnsubscribe, fields, hist
<1>4. ASSUME NEW g, Skip(p, g) \/ deliverMsg(p, g)
      PROVE  UNCHANGED <<typ, nsubs, sid, queue, max, limit, me>>
  BY <1>4 DEF Skip, deliverMsg, subs, hist
<1> QED
  BY <1>1, <1>2, <1>3, <1>4, Zenon DEF PubNext

\* The steps of a publisher keep the types and leave no cache stale.
LEMMA PubTypes ==
  ASSUME StateOK, CachesOK, NEW p \in Pubs, PubNext(p),
         pub[p].at = "direct" => pub[p].i \in Sids
  PROVE  StateOK' /\ CachesOK'
<1>1. /\ nsubs \in Nat /\ nsubs \in 0..MaxSubs /\ genid \in Nat /\ open \in BOOLEAN
      /\ msgs \in 0..MaxMsgs /\ csubs \in [Sids -> 0..nsubs] /\ me \in MeState(nsubs)
      /\ nm \in [Subs -> Nat] /\ max \in [Subs -> Nat] /\ got \in [Subs -> Nat]
      /\ limit \in [Subs -> Nat]
  BY DEF StateOK, BaseOK
<1>2. BaseOK /\ PubsOK
  BY Zenon DEF StateOK
<1>3. /\ typ' = typ /\ nsubs' = nsubs /\ sid' = sid /\ queue' = queue /\ max' = max
      /\ limit' = limit /\ me' = me
  BY PubFrame, Zenon
<1>4. ASSUME sl' = sl, genid' = genid, csubs' = csubs, msgs' \in 0..MaxMsgs, open' \in BOOLEAN,
             nm' \in [Subs -> Nat], got' \in [Subs -> Nat]
      PROVE  BaseOK'
  BY <1>1, <1>2, <1>3, <1>4, BaseFrame, Zenon
<1>5. pub[p].todo \subseteq 1..nsubs /\ pub[p].g <= nsubs /\ pub[p].made <= nsubs /\ 0 <= nsubs /\ nsubs <= nsubs
  BY <1>1, <1>2 DEF PubsOK
<1>6. ASSUME Others(p), pub'[p].g <= nsubs, pub'[p].made <= nsubs, pub'[p].todo \subseteq 1..nsubs
      PROVE  PubsOK'
  BY <1>1, <1>2, <1>3, <1>6, PubsFrame, Zenon
<1>7. ASSUME NEW x \in Subjects, NEW i \in Sids \cup {0}, processMsg(p, x, i)
      PROVE  StateOK' /\ CachesOK'
  <2>1. /\ sl' = sl /\ genid' = genid /\ csubs' = csubs /\ open' = open /\ nm' = nm /\ got' = got
        /\ msgs' = msgs + 1 /\ msgs < MaxMsgs
    BY <1>7, Zenon DEF processMsg, subs, hist
  <2>2. msgs' \in 0..MaxMsgs
    BY <1>1, <2>1, DeliveryAssumption
  <2>3. BaseOK'
    BY <1>1, <1>4, <2>1, <2>2, Zenon
  <2>4. /\ CachesOK'
        /\ MsgOutcome(p, x, i)
    BY <1>7, MsgEffect, Zenon
  <2>5. CASE pub' = pub
    BY <1>2, <1>3, <2>3, <2>4, <2>5, Zenon DEF StateOK, PubsOK
  <2>6. CASE Fanout(p, Started(x, i), Of(x))
    <3>0. Started(x, i).made = nsubs
      BY StartedMade, Zenon
    <3>1. Started(x, i) \in PubState /\ Started(x, i).g = 0 /\ Started(x, i).todo = {}
      BY StartedFields, Zenon
    <3>2. Of(x) \in SUBSET Subs /\ Of(x) \subseteq 1..nsubs
      BY OfSubs, Zenon
    <3>3. /\ Others(p) /\ SameMsg(Started(x, i), pub'[p]) /\ pub'[p].g = Started(x, i).g
          /\ Fanned(p, Started(x, i), Of(x))
      BY <2>6, <3>1, <3>2, FanoutEffect, Zenon
    <3>4. pub'[p].todo \subseteq 1..nsubs
      BY <3>1, <3>2, <3>3, Zenon DEF Fanned
    <3> QED
      BY <1>5, <1>6, <2>3, <2>4, <3>0, <3>1, <3>3, <3>4, Zenon DEF StateOK, SameMsg
  <2>7. CASE pub' = [pub EXCEPT ![p] = [Started(x, i) EXCEPT !.at = "match"]]
    <3>1. /\ Others(p) /\ pub'[p].g = 0 /\ pub'[p].made = nsubs
          /\ SameWork(Started(x, i), pub'[p])
      BY <2>7, MatchStarted, Zenon
    <3>2. pub'[p].todo = {}
      BY <3>1, StartedFields, Zenon DEF SameWork
    <3> QED
      BY <1>5, <1>6, <2>3, <2>4, <3>1, <3>2, Zenon DEF StateOK
  <2> QED
    BY <2>4, <2>5, <2>6, <2>7, Zenon DEF MsgOutcome
<1>8. ASSUME Match(p)
      PROVE  StateOK' /\ CachesOK'
  <2>1. /\ sl' = sl /\ genid' = genid /\ csubs' = csubs /\ open' = open /\ nm' = nm /\ got' = got
        /\ msgs' = msgs
    BY <1>8, Zenon DEF Match, subs, hist
  <2>2. BaseOK'
    BY <1>1, <1>4, <2>1, Zenon
  <2>3. /\ CachesOK' /\ Fanout(p, pub[p], Of(pub[p].x))
    BY <1>8, MatchEffect, Zenon
  <2>4. /\ pub[p] \in PubState /\ Of(pub[p].x) \in SUBSET Subs
        /\ Of(pub[p].x) \subseteq 1..nsubs
    BY <1>2, OfSubs, Zenon DEF PubsOK
  <2>5. /\ Others(p) /\ SameMsg(pub[p], pub'[p]) /\ pub'[p].g = pub[p].g
        /\ Fanned(p, pub[p], Of(pub[p].x))
    BY <2>3, <2>4, FanoutEffect, Zenon
  <2>6. pub'[p].todo \subseteq 1..nsubs
    BY <1>5, <2>4, <2>5, Zenon DEF Fanned
  <2> QED
    BY <1>5, <1>6, <2>2, <2>3, <2>5, <2>6, Zenon DEF StateOK, SameMsg
<1>9. ASSUME cache' = cache, Generation, BaseOK', Others(p), SameMsg(pub[p], pub'[p]),
             pub'[p].g <= nsubs, pub'[p].todo \subseteq 1..nsubs
      PROVE  StateOK' /\ CachesOK'
  <2>1. CachesOK'
    BY <1>9, CacheGeneration, Zenon
  <2> QED
    BY <1>5, <1>6, <1>9, <2>1, Zenon DEF StateOK, SameMsg
<1>10. ASSUME RouteSidQueueSubscriber(p) \/ AutoBroadcast(p) \/ ReadNext(p) \/ \E g \in Subs : Skip(p, g)
      PROVE  StateOK' /\ CachesOK'
  <2>1. UNCHANGED <<sl, genid, csubs, open, nm, got, msgs, cache>>
    BY <1>10 DEF RouteSidQueueSubscriber, AutoBroadcast, ReadNext, Skip, subs, hist, caches
  <2>2. BaseOK' /\ Generation
    BY <1>1, <1>4, <2>1, Zenon DEF Generation
  <2>3. CASE RouteSidQueueSubscriber(p)
    <3>1. pub[p].i \in Sids
      BY <2>3, Zenon DEF RouteSidQueueSubscriber
    <3>2. /\ Others(p) /\ SameMsg(pub[p], pub'[p]) /\ pub'[p].g = pub[p].g
          /\ pub'[p].todo = {csubs[pub[p].i]} \ {0}
      BY <2>3, <3>1, DirectEffect, Zenon
    <3>3. pub'[p].todo \subseteq 1..nsubs
      BY <3>1, <3>2, ClientSub, Zenon
    <3> QED
      BY <1>5, <1>9, <2>1, <2>2, <3>2, <3>3, Zenon
  <2>4. CASE AutoBroadcast(p)
    <3>1. /\ Others(p) /\ SameMsg(pub[p], pub'[p]) /\ pub'[p].g = 0
          /\ pub'[p].todo = pub[p].todo
      BY <2>4, BroadcastEffect, Zenon DEF SameWork
    <3> QED
      BY <1>5, <1>9, <2>1, <2>2, <3>1, Zenon
  <2>5. CASE \E g \in Subs : Skip(p, g)
    <3>1. /\ Others(p) /\ SameMsg(pub[p], pub'[p]) /\ pub'[p].g = pub[p].g
          /\ pub'[p].todo \subseteq pub[p].todo
      BY <2>5, SkipEffect, Zenon
    <3> QED
      BY <1>5, <1>9, <2>1, <2>2, <3>1, Zenon
  <2>6. CASE ReadNext(p)
    <3>1. Others(p) /\ pub'[p].g = 0 /\ pub'[p].made = 0 /\ pub'[p].todo = {}
      BY <2>6, ReadEffect, PubIdleFields, Zenon
    <3>2. CachesOK'
      BY <2>1, <2>2, CacheGeneration, Zenon
    <3> QED
      BY <1>5, <1>6, <2>2, <3>1, <3>2, Zenon DEF StateOK
  <2> QED
    BY <1>10, <2>3, <2>4, <2>5, <2>6, Zenon
<1>11. ASSUME AutoUnsubscribe(p)
      PROVE  StateOK' /\ CachesOK'
  <2>1. /\ open' = open /\ nm' = nm /\ got' = got /\ msgs' = msgs /\ cache' = cache
        /\ unsubscribe(pub[p].g)
    BY <1>11 DEF AutoUnsubscribe, fields, hist, caches
  <2>2. sl' \subseteq sl /\ Generation /\ genid' \in Nat /\ csubs' \in [Sids -> 0..nsubs]
    BY <2>1, UnsubscribeEffect, Zenon
  <2>3. BaseOK'
    BY <1>1, <1>2, <1>3, <2>1, <2>2, BaseFrame, Zenon
  <2>4. /\ Others(p) /\ SameMsg(pub[p], pub'[p]) /\ pub'[p].g = pub[p].g
        /\ pub'[p].todo = pub[p].todo
    BY <1>11, AutoEffect, Zenon DEF SameWork
  <2> QED
    BY <1>5, <1>9, <2>1, <2>2, <2>3, <2>4, Zenon
<1>12. ASSUME NEW g \in Subs, deliverMsg(p, g)
      PROVE  StateOK' /\ CachesOK'
  <2>1. /\ sl' = sl /\ genid' = genid /\ csubs' = csubs /\ msgs' = msgs /\ cache' = cache
        /\ nm' = [nm EXCEPT ![g] = @ + 1] /\ g \in pub[p].todo
    BY <1>12 DEF deliverMsg, Turn, caches
  <2>2. /\ Handled(p, g) /\ (got' = got \/ got' = [got EXCEPT ![g] = @ + 1])
        /\ open' = open \/ open' = FALSE
    BY <1>12, DeliverEffect, Zenon DEF CloseSocket
  <2>3. got' \in [Subs -> Nat] /\ nm' \in [Subs -> Nat] /\ open' \in BOOLEAN
    <3>1. nm[g] + 1 \in Nat /\ got[g] + 1 \in Nat
      BY <1>1
    <3> QED
      BY <1>1, <2>1, <2>2, <3>1, Zenon
  <2>4. BaseOK' /\ Generation
    BY <1>1, <1>4, <2>1, <2>3, Zenon DEF Generation
  <2>5. g \in 1..nsubs
    BY <1>5, <2>1, Zenon
  <2>6. g <= nsubs
    BY <1>1, <2>5
  <2>7. /\ Others(p) /\ SameMsg(pub[p], pub'[p]) /\ pub'[p].g <= nsubs
        /\ pub'[p].todo \subseteq 1..nsubs
    BY <1>5, <2>2, <2>6, Zenon DEF Handled
  <2> QED
    BY <1>9, <2>1, <2>4, <2>7, Zenon
<1> QED
  BY <1>7, <1>8, <1>10, <1>11, <1>12, Zenon DEF PubNext

-----------------------------------------------------------------------------
(* The tables *)

\* The subscriptions of c.subs.
ClientSubs == {csubs[i] : i \in Sids} \ {0}

\* c.subs is keyed by sid.  While the client is connected the sublist holds its
\* subscriptions and the stale ones; then those closeConnection has not removed.
TableInv ==
    /\ \A g \in 1..nsubs : sid[g] \in Sids
    /\ \A i \in Sids : csubs[i] # 0 => sid[csubs[i]] = i
    /\ ClientSubs \cap stale = {}
    /\ open => sl = ClientSubs \cup stale /\ closing = {}
    /\ ~open => sl \subseteq stale \cup closing /\ closing \cap stale = {}
    /\ stale \subseteq sl /\ closing \subseteq 1..nsubs

\* processSub enters the subscription in both tables.
LEMMA TableSub ==
  ASSUME StateOK, TableInv, NEW i \in Sids, NEW q \in BOOLEAN, processSub(i, q)
  PROVE  TableInv'
<1> DEFINE g == nsubs + 1
<1>1. /\ nsubs' = g /\ sl' = sl \cup {g} /\ sid'[g] = i
      /\ \A h \in 1..nsubs : sid'[h] = sid[h]
  BY SubEffect, Zenon
<1>2. /\ open /\ csubs[i] = 0 /\ csubs' = [csubs EXCEPT ![i] = g]
      /\ open' = open /\ stale' = stale /\ closing' = closing
  BY Zenon DEF processSub
<1>3. /\ g \notin 1..nsubs /\ g # 0 /\ 1..g = 1..nsubs \cup {g}
  BY DEF StateOK, BaseOK
<1>4. /\ sl \subseteq 1..nsubs /\ csubs \in [Sids -> 0..nsubs]
  BY Zenon DEF StateOK, BaseOK
<1>5. \A j \in Sids : csubs[j] # 0 => csubs[j] \in 1..nsubs
  BY ClientSub, Zenon
<1> HIDE DEF g
<1>6. csubs'[i] = g /\ \A j \in Sids \ {i} : csubs'[j] = csubs[j]
  BY <1>2, <1>4, Zenon
<1>7. ClientSubs' = ClientSubs \cup {g}
  BY <1>2, <1>3, <1>6, Zenon DEF ClientSubs
<1>8. \A h \in 1..g : sid'[h] \in Sids
  BY <1>1, <1>3, Zenon DEF TableInv
<1>9. \A j \in Sids : csubs'[j] # 0 => sid'[csubs'[j]] = j
  BY <1>1, <1>5, <1>6, Zenon DEF TableInv
<1>10. ClientSubs' \cap stale' = {}
  BY <1>2, <1>3, <1>4, <1>7, Zenon DEF TableInv
<1>11. sl' = ClientSubs' \cup stale' /\ closing' = {} /\ stale' \subseteq sl'
  BY <1>1, <1>2, <1>7, Zenon DEF TableInv
<1> QED
  BY <1>1, <1>2, <1>8, <1>9, <1>10, <1>11, Zenon DEF TableInv

\* Steps that leave the tables alone.
LEMMA TableSame ==
  ASSUME TableInv, nsubs' = nsubs, sid' = sid, csubs' = csubs, stale' = stale, sl' = sl,
         open' = open, closing' = closing
  PROVE  TableInv'
<1>1. ClientSubs' = ClientSubs
  BY Zenon DEF ClientSubs
<1> QED
  BY <1>1 DEF TableInv

\* unsubscribe removes g from the sublist and whatever has its sid from c.subs: if
\* that is another one, it becomes stale.
LEMMA TableUnsubscribe ==
  ASSUME StateOK, TableInv, NEW g \in 1..nsubs, unsubscribe(g),
         nsubs' = nsubs, sid' = sid, open' = open, closing' = closing
  PROVE  TableInv'
<1>1. CASE SendsMax(g)
  BY <1>1, UnsubscribeEffect, TableSame, Zenon
<1>2. CASE ~SendsMax(g)
  <2> DEFINE s == sid[g]
             h == csubs[s]
  <2>1. /\ csubs' = [csubs EXCEPT ![s] = 0] /\ sl' = sl \ {g}
        /\ stale' = (IF open THEN stale \cup {h} ELSE stale) \ {0, g}
    BY <1>2, UnsubscribeEffect, Zenon
  <2>2. s \in Sids /\ csubs \in [Sids -> 0..nsubs] /\ sl \subseteq 1..nsubs
    BY Zenon DEF StateOK, BaseOK, TableInv
  <2>3. 0 \notin 1..nsubs
    BY DEF StateOK, BaseOK
  <2> HIDE DEF s
  <2>4. csubs'[s] = 0 /\ \A j \in Sids \ {s} : csubs'[j] = csubs[j]
    BY <2>1, <2>2, Zenon
  <2>5. \A j \in Sids \ {s} : csubs[j] # 0 => csubs[j] # h
    BY <2>2, Zenon DEF TableInv
  <2>6. ClientSubs' = ClientSubs \ {h}
    BY <2>2, <2>4, <2>5, Zenon DEF ClientSubs
  <2>7. g \in ClientSubs => h = g
    BY <2>2, Zenon DEF ClientSubs, TableInv, s
  <2>8. h # 0 => h \in ClientSubs
    BY <2>2, Zenon DEF ClientSubs
  <2>9. \A j \in Sids : csubs'[j] # 0 => sid'[csubs'[j]] = j
    BY <2>4, Zenon DEF TableInv
  <2> HIDE DEF h
  <2>10. ClientSubs \cap stale = {} /\ stale \subseteq sl /\ 0 \notin ClientSubs /\ 0 \notin sl
    BY <2>2, <2>3, Zenon DEF TableInv, ClientSubs
  <2>11. CASE open
    <3>1. sl = ClientSubs \cup stale /\ closing = {}
      BY <2>11, Zenon DEF TableInv
    <3>2. stale' = (stale \cup {h}) \ {0, g}
      BY <2>1, <2>11, Zenon
    <3>3. sl' = ClientSubs' \cup stale'
      BY <2>1, <2>6, <2>7, <2>8, <2>10, <3>1, <3>2, Zenon
    <3>4. ClientSubs' \cap stale' = {}
      BY <2>6, <2>10, <3>2, Zenon
    <3> QED
      BY <2>9, <2>11, <3>1, <3>3, <3>4, Zenon DEF TableInv
  <2>12. CASE ~open
    <3>1. sl \subseteq stale \cup closing /\ closing \cap stale = {}
      BY <2>12, Zenon DEF TableInv
    <3>2. stale' = stale \ {0, g}
      BY <2>1, <2>12, Zenon
    <3>3. sl' \subseteq stale' \cup closing /\ closing \cap stale' = {} /\ stale' \subseteq sl'
      BY <2>1, <2>10, <3>1, <3>2, Zenon
    <3>4. ClientSubs' \cap stale' = {}
      BY <2>6, <2>10, <3>2, Zenon
    <3> QED
      BY <2>9, <2>12, <3>3, <3>4, Zenon DEF TableInv
  <2> QED
    BY <2>11, <2>12, Zenon
<1> QED
  BY <1>1, <1>2, Zenon

\* Closing the socket takes c.subs to be removed by closeConnection.
LEMMA TableClose ==
  ASSUME StateOK, TableInv, open, CloseSocket,
         nsubs' = nsubs, sid' = sid, csubs' = csubs, stale' = stale, sl' = sl
  PROVE  TableInv'
<1>1. ~open' /\ closing' = ClientSubs /\ ClientSubs' = ClientSubs
  BY Zenon DEF CloseSocket, ClientSubs
<1>2. ClientSubs \subseteq 1..nsubs
  BY ClientSub, Zenon DEF ClientSubs
<1> QED
  BY <1>1, <1>2, Zenon DEF TableInv

\* closeConnection removes them one by one.
LEMMA TableRemoves ==
  ASSUME StateOK, TableInv, NEW g, CloseRemoves(g)
  PROVE  TableInv' /\ ~open
<1>1. /\ g \in closing /\ sl' = sl \ {g} /\ closing' = closing \ {g}
      /\ nsubs' = nsubs /\ sid' = sid /\ csubs' = csubs /\ stale' = stale /\ open' = open
  BY DEF CloseRemoves, Remove, fields
<1>2. ~open
  BY <1>1, Zenon DEF TableInv
<1>3. ~open'
  BY <1>1, <1>2
<1>4. ClientSubs' = ClientSubs
  BY <1>1, Zenon DEF ClientSubs
<1> QED
  BY <1>1, <1>2, <1>3, <1>4, Zenon DEF TableInv

\* A subscription in the sublist has the rsid r.
Present(r) == \E g \in sl : routeSid(g) = r
\* The routes hold r exactly if there is one.
Agree(r) == view[r] # 0 <=> Present(r)

\* Somebody is about to tell the routes of a subscription with rsid r: that it was
\* made, or that it has left the sublist.
Awaited(r) ==
    \/ me.at = "broadcastSub" /\ routeSid(me.g) = r
    \/ me.at = "broadcastUnsub" /\ routeSid(me.g) = r /\ me.g \notin sl
    \/ \E p \in Pubs : pub[p].at = "broadcastUnsub" /\ routeSid(pub[p].g) = r /\ pub[p].g \notin sl

\* Who is about to broadcast has a subscription to broadcast; one that was just
\* made has no max yet, and nobody else removes it; one that has left the sublist
\* of a connected client has no messages due.
TurnsInv ==
    /\ \A g \in Subs : g > nsubs => max[g] = 0
    /\ me.at \in {"broadcastSub", "unsub", "broadcastUnsub"} => me.g # 0
    /\ \A p \in Pubs : pub[p].at \in {"unsub", "broadcastUnsub"} => pub[p].g # 0
    /\ me.at = "broadcastSub" =>
          /\ max[me.g] = 0 /\ (open => me.g \in sl)
          /\ \A p \in Pubs : pub[p].at \in {"unsub", "broadcastUnsub"} => pub[p].g # me.g
    /\ open => \A g \in (1..nsubs) \ sl : ~SendsMax(g)

\* The routes agree with the sublist on every rsid that nobody is about to tell them
\* of, unless it was raced.
RouteInv ==
    /\ view = [r \in Rsids |-> view[r]]
    /\ typ = "CLIENT" => \A r \in Rsids : r \notin raced /\ ~Awaited(r) => Agree(r)

\* A step that tells the routes nothing may leave a rsid to be told of, but only
\* one whose presence it changes.
LEMMA RouteMono ==
  ASSUME RouteInv, typ' = typ, view' = view, raced' = raced,
         \A r \in Rsids : Awaited(r) => Awaited(r)',
         \A r \in Rsids : Awaited(r)' \/ (Present(r)' <=> Present(r))
  PROVE  RouteInv'
<1>1. ASSUME NEW r \in Rsids, typ = "CLIENT", r \notin raced, ~Awaited(r)'
      PROVE  Agree(r)'
  BY <1>1, Zenon DEF RouteInv, Agree
<1> QED
  BY <1>1, Zenon DEF RouteInv

\* Who has nothing to broadcast may go on.
LEMMA AwaitedMono ==
  ASSUME sid' = sid, queue' = queue, sl' \subseteq sl,
         me' = me \/ me.at \notin {"broadcastSub", "broadcastUnsub"},
         \A p \in Pubs : pub[p].at = "broadcastUnsub" => pub'[p].at = pub[p].at /\ pub'[p].g = pub[p].g,
         NEW r, Awaited(r)
  PROVE  Awaited(r)'
<1>1. \A g : routeSid(g)' = routeSid(g)
  BY Zenon DEF routeSid
<1>2. CASE \E p \in Pubs : /\ pub[p].at = "broadcastUnsub" /\ routeSid(pub[p].g) = r
                           /\ pub[p].g \notin sl
  <2>1. PICK p \in Pubs : /\ pub[p].at = "broadcastUnsub" /\ routeSid(pub[p].g) = r
                          /\ pub[p].g \notin sl
    BY <1>2, Zenon
  <2>2. pub'[p].at = "broadcastUnsub" /\ pub'[p].g = pub[p].g
    BY <2>1, Zenon
  <2>3. routeSid(pub[p].g)' = routeSid(pub[p].g)'
    OBVIOUS
  <2> QED
    BY <1>1, <2>1, <2>2, Zenon DEF Awaited, routeSid
<1>3. CASE me.at \in {"broadcastSub", "broadcastUnsub"} /\ me' = me /\ routeSid(me.g) = r
           /\ (me.at = "broadcastUnsub" => me.g \notin sl)
  BY <1>1, <1>3, Zenon DEF Awaited, routeSid
<1> QED
  BY <1>2, <1>3, Zenon DEF Awaited

\* Removing g concerns no rsid but its own.
LEMMA PresentSame ==
  ASSUME sid' = sid, queue' = queue, NEW g, NEW r, r # routeSid(g),
         sl' \subseteq sl, sl \ {g} \subseteq sl'
  PROVE  Present(r)' <=> Present(r)
BY Zenon DEF Present, routeSid

\* broadcastUnSubscribe leaves the routes right about its rsid, or it is raced.
LEMMA RouteBroadcast ==
  ASSUME StateOK, RouteInv, NEW g \in 1..nsubs, sid[g] \in Sids, broadcastUnSubscribe(g),
         NEW rs, rs = routeSid(g),
         typ' = typ, sid' = sid, queue' = queue, sl' \subseteq sl, sl \ {g} \subseteq sl',
         \A r \in Rsids : r # rs /\ Awaited(r) => Awaited(r)',
         open /\ SendsMax(g) => sl' = sl /\ (Awaited(rs) => Awaited(rs)')
  PROVE  RouteInv'
<1>1. rs \in Rsids
  <2>1. g \in Subs
    BY DeliveryAssumption DEF StateOK, BaseOK, Subs
  <2>2. queue[g] \in BOOLEAN
    BY <2>1, Zenon DEF StateOK, BaseOK
  <2> QED
    BY <2>2, Zenon DEF routeSid, Rsids
<1>2. \A r \in Rsids : r # rs => (Present(r)' <=> Present(r))
  BY PresentSame, Zenon
<1>3. ASSUME \A r \in Rsids : r # rs => view'[r] = view[r] /\ (r \in raced' <=> r \in raced),
             view' = [r \in Rsids |-> view'[r]],
             typ = "CLIENT" /\ rs \notin raced' /\ ~Awaited(rs)' => Agree(rs)'
      PROVE  RouteInv'
  <2>1. ASSUME NEW r \in Rsids, r # rs, typ = "CLIENT", r \notin raced', ~Awaited(r)'
        PROVE  Agree(r)'
    <3>1. ~Awaited(r)
      BY <2>1, Zenon
    <3>2. Agree(r)
      BY <1>3, <2>1, <3>1, Zenon DEF RouteInv
    <3> QED
      BY <1>2, <1>3, <2>1, <3>2, Zenon DEF Agree
  <2> QED
    BY <1>3, <2>1, Zenon DEF RouteInv
<1>4. CASE typ = "ROUTER"
  <2>1. view' = view /\ raced' = raced
    BY <1>4, Zenon DEF broadcastUnSubscribe, routes
  <2>2. typ # "CLIENT"
    BY <1>4
  <2> QED
    BY <1>3, <2>1, <2>2, Zenon DEF RouteInv
<1>5. CASE typ # "ROUTER" /\ SendsMax(g)
  <2>1. view' = view /\ raced' = IF open THEN raced ELSE raced \cup {rs}
    BY <1>5, Zenon DEF broadcastUnSubscribe
  <2>2. CASE open
    <3>1. sl' = sl /\ (Awaited(rs) => Awaited(rs)') /\ raced' = raced
      BY <1>5, <2>1, <2>2, Zenon
    <3>2. Present(rs)' <=> Present(rs)
      BY <3>1, Zenon DEF Present, routeSid
    <3>3. typ = "CLIENT" /\ rs \notin raced' /\ ~Awaited(rs)' => Agree(rs)'
      BY <1>1, <2>1, <3>1, <3>2, Zenon DEF RouteInv, Agree
    <3> QED
      BY <1>3, <2>1, <3>1, <3>3, Zenon DEF RouteInv
  <2>3. CASE ~open
    BY <1>3, <2>1, <2>3, Zenon DEF RouteInv
  <2> QED
    BY <2>2, <2>3, Zenon
<1>6. CASE typ # "ROUTER" /\ ~SendsMax(g)
  <2>1. /\ view' = [view EXCEPT ![rs] = 0]
        /\ raced' = IF \E h \in sl' : routeSid(h) = rs THEN raced \cup {rs} ELSE raced \ {rs}
    BY <1>6, Zenon DEF broadcastUnSubscribe
  <2>2. Present(rs)' <=> \E h \in sl' : routeSid(h) = rs
    BY Zenon DEF Present, routeSid
  <2>3. view'[rs] = 0 /\ \A r \in Rsids : r # rs => view'[r] = view[r]
    BY <1>1, <2>1, Zenon DEF RouteInv
  <2>4. view' = [r \in Rsids |-> view'[r]]
    BY <2>1, Zenon DEF RouteInv
  <2>5. \A r \in Rsids : r # rs => (r \in raced' <=> r \in raced)
    BY <2>1, Zenon
  <2>6. rs \notin raced' => Agree(rs)'
    BY <2>1, <2>2, <2>3, Zenon DEF Agree
  <2> QED
    BY <1>3, <2>3, <2>4, <2>5, <2>6, Zenon
<1> QED
  BY <1>4, <1>5, <1>6, Zenon

\* The steps that keep TurnsInv: they make no subscription, set no max, remove from
\* the sublist only what has no messages due and begin no broadcast of a SUB.
LEMMA TurnsFrame ==
  ASSUME StateOK, TurnsInv, nsubs' = nsubs, max' = max, sl' \subseteq sl, open' => open,
         me'.at = "broadcastSub" => me' = me,
         me'.at \in {"broadcastSub", "unsub", "broadcastUnsub"} => me'.g # 0,
         \A q \in Pubs : pub'[q].at \in {"unsub", "broadcastUnsub"} =>
            pub'[q].g # 0 /\ (me.at = "broadcastSub" => pub'[q].g # me.g),
         \A g \in 1..nsubs : SendsMax(g)' => SendsMax(g),
         open' /\ me.at = "broadcastSub" /\ me' = me /\ me.g \in sl => me.g \in sl',
         open' => \A g \in sl \ sl' : ~SendsMax(g)
  PROVE  TurnsInv'
<1>1. \A g \in Subs : g > nsubs' => max'[g] = 0
  BY Zenon DEF TurnsInv
<1>2. \A q \in Pubs : pub'[q].at \in {"unsub", "broadcastUnsub"} => pub'[q].g # 0
  BY Zenon
<1>3. me'.at = "broadcastSub" =>
          /\ max'[me'.g] = 0 /\ (open' => me'.g \in sl')
          /\ \A p \in Pubs : pub'[p].at \in {"unsub", "broadcastUnsub"} => pub'[p].g # me'.g
  BY Zenon DEF TurnsInv
<1>4. open' => \A g \in (1..nsubs) \ sl' : ~SendsMax(g)'
  BY Zenon DEF TurnsInv
<1> QED
  BY <1>1, <1>2, <1>3, <1>4, Zenon DEF TurnsInv

\* What is due depends on the count and the max only.
LEMMA SendsMaxSame ==
  ASSUME nm' = nm, max' = max
  PROVE  \A g : SendsMax(g)' = SendsMax(g)
BY DEF SendsMax

\* The connection stays as it was.
LEMMA OpenSame ==
  ASSUME open' = open
  PROVE  (open' => open) /\ (open => open')
OBVIOUS

\* The rsid of a subscription that was made.
LEMMA RouteSidType ==
  ASSUME StateOK, NEW g \in 1..nsubs, sid[g] \in Sids
  PROVE  routeSid(g) \in Rsids
<1>1. g \in Subs
  BY DeliveryAssumption DEF StateOK, BaseOK, Subs
<1>2. queue[g] \in BOOLEAN
  BY <1>1, Zenon DEF StateOK, BaseOK
<1> QED
  BY <1>2, Zenon DEF routeSid, Rsids

\* processSub leaves its rsid to be told of.
LEMMA RouteSub ==
  ASSUME StateOK, TableInv, TurnsInv, RouteInv, NEW i \in Sids, NEW q \in BOOLEAN, processSub(i, q)
  PROVE  TurnsInv' /\ RouteInv'
<1>0. PICK g : g = nsubs + 1
  OBVIOUS
<1>1. /\ nsubs' = g /\ sl' = sl \cup {g} /\ g \in Subs
      /\ \A h \in 1..nsubs : sid'[h] = sid[h] /\ queue'[h] = queue[h]
  BY <1>0, SubEffect, Zenon
<1>2. /\ nm' = nm /\ max' = max /\ open' = open /\ typ' = typ /\ pub' = pub /\ view' = view
      /\ raced' = raced /\ me.at = "read"
      /\ me' = IF typ = "ROUTER" THEN Idle ELSE [at |-> "broadcastSub", g |-> g]
  BY <1>0, Zenon DEF processSub, routes
<1>3. /\ \A p \in Pubs : pub[p].g # g
      /\ \A k \in Subs : k > g => k > nsubs
      /\ g > nsubs /\ g # 0 /\ (1..g) \ (sl \cup {g}) \subseteq (1..nsubs) \ sl
  <2>1. nsubs \in 0..MaxSubs /\ \A p \in Pubs : pub[p].g \in 0..MaxSubs /\ pub[p].g <= nsubs
    BY DEF StateOK, BaseOK, PubsOK, PubState
  <2> QED
    BY <1>0, <2>1 DEF Subs
<1>4. sl \subseteq 1..nsubs /\ me.g \in 0..nsubs
  BY DEF StateOK, BaseOK, MeState
<1>5. me' = Idle \/ (me'.at = "broadcastSub" /\ me'.g = g)
  BY <1>2
<1>6. TurnsInv'
  <2>1. \A h : SendsMax(h)' = SendsMax(h)
    BY <1>2, SendsMaxSame, Zenon
  <2>2. \A k \in Subs : k > g => max'[k] = 0
    BY <1>2, <1>3, Zenon DEF TurnsInv
  <2>3. max'[g] = 0
    BY <1>1, <1>2, <1>3, Zenon DEF TurnsInv
  <2>4. open' => \A h \in (1..g) \ sl' : ~SendsMax(h)'
    BY <1>1, <1>2, <1>3, <2>1, OpenSame, Zenon DEF TurnsInv
  <2>5. Idle.at = "read"
    BY IdleState, Zenon
  <2>6. \A p \in Pubs : pub'[p].at \in {"unsub", "broadcastUnsub"} => pub'[p].g # 0
    BY <1>2, Zenon DEF TurnsInv
  <2>7. /\ me'.at \in {"broadcastSub", "unsub", "broadcastUnsub"} => me'.g # 0
        /\ me'.at = "broadcastSub" => me'.g = g
    BY <1>3, <1>5, <2>5
  <2>8. me'.at = "broadcastSub" =>
          /\ max'[me'.g] = 0 /\ (open' => me'.g \in sl')
          /\ \A p \in Pubs : pub'[p].at \in {"unsub", "broadcastUnsub"} => pub'[p].g # me'.g
    BY <1>1, <1>2, <1>3, <2>3, <2>7, Zenon
  <2> QED
    BY <1>1, <2>2, <2>4, <2>6, <2>7, <2>8, Zenon DEF TurnsInv
<1>7. RouteInv'
  <2>1. CASE typ = "ROUTER"
    <3>1. typ' # "CLIENT"
      BY <1>2, <2>1
    <3> QED
      BY <1>2, <3>1, Zenon DEF RouteInv
  <2>2. CASE typ # "ROUTER"
    <3>1. me'.at = "broadcastSub" /\ me'.g = g
      BY <1>2, <2>2
    <3>2. \A h \in 1..nsubs : routeSid(h)' = routeSid(h)
      BY <1>1, Zenon DEF routeSid
    <3>3. \A p \in Pubs : pub[p].at = "broadcastUnsub" => pub[p].g \in 1..nsubs
      <4>1. \A p \in Pubs : pub[p].g \in 0..MaxSubs /\ pub[p].g <= nsubs /\ nsubs \in 0..MaxSubs
        BY DEF StateOK, BaseOK, PubsOK, PubState
      <4>2. \A p \in Pubs : pub[p].at = "broadcastUnsub" => pub[p].g # 0
        BY Zenon DEF TurnsInv
      <4> QED
        BY <4>1, <4>2
    <3>4. ASSUME NEW r \in Rsids, Awaited(r)
          PROVE  Awaited(r)'
      <4>1. PICK p \in Pubs : /\ pub[p].at = "broadcastUnsub" /\ routeSid(pub[p].g) = r
                              /\ pub[p].g \notin sl
        BY <1>2, <3>4 DEF Awaited
      <4>2. PICK h \in 1..nsubs : h = pub[p].g
        BY <3>3, <4>1, Zenon
      <4>3. routeSid(h)' = r /\ h \notin sl' /\ pub'[p].at = "broadcastUnsub" /\ pub'[p].g = h
        BY <1>1, <1>2, <1>3, <3>2, <4>1, <4>2, Zenon
      <4> QED
        BY <4>3, Zenon DEF Awaited, routeSid
    <3>5. ASSUME NEW r \in Rsids
          PROVE  Awaited(r)' \/ (Present(r)' <=> Present(r))
      <4>1. CASE routeSid(g)' = r
        BY <3>1, <4>1, Zenon DEF Awaited, routeSid
      <4>2. CASE routeSid(g)' # r
        <5>1. \A h \in sl : routeSid(h)' = routeSid(h)
          BY <1>4, <3>2, Zenon
        <5> QED
          BY <1>1, <4>2, <5>1, Zenon DEF Present
      <4> QED
        BY <4>1, <4>2, Zenon
    <3> QED
      BY <1>2, <3>4, <3>5, RouteMono, Zenon
  <2> QED
    BY <2>1, <2>2, Zenon
<1> QED
  BY <1>6, <1>7, Zenon

\* Who is about to broadcast has a subscription that was made.
LEMMA MadeSubs ==
  ASSUME StateOK, TurnsInv
  PROVE  /\ me.at \in {"broadcastSub", "unsub", "broadcastUnsub"} => me.g \in 1..nsubs
         /\ \A p \in Pubs : pub[p].at \in {"unsub", "broadcastUnsub"} => pub[p].g \in 1..nsubs
         /\ 1..nsubs \subseteq Subs
<1>1. /\ nsubs \in 0..MaxSubs /\ me.g \in 0..nsubs
      /\ \A p \in Pubs : pub[p].g \in 0..MaxSubs /\ pub[p].g <= nsubs
  BY DEF StateOK, BaseOK, PubsOK, PubState, MeState
<1>2. /\ me.at \in {"broadcastSub", "unsub", "broadcastUnsub"} => me.g # 0
      /\ \A p \in Pubs : pub[p].at \in {"unsub", "broadcastUnsub"} => pub[p].g # 0
  BY Zenon DEF TurnsInv
<1>3. ASSUME NEW k \in 0..nsubs, k # 0
      PROVE  k \in 1..nsubs
  BY <1>1, <1>3
<1>4. \A p \in Pubs : pub[p].g \in 0..nsubs
  BY <1>1
<1>5. 1..nsubs \subseteq Subs
  BY <1>1, DeliveryAssumption DEF Subs
<1> QED
  BY <1>1, <1>2, <1>3, <1>4, <1>5, Zenon

\* The tables, and who is about to change them.
TablesInv == TableInv /\ TurnsInv /\ RouteInv

\* The steps of the subscriber's own read loop and of closeConnection keep the
\* tables and the routes' view right.
LEMMA RouteOwn ==
  ASSUME StateOK, TableInv, TurnsInv, RouteInv,
         \/ \E i \in Sids, m \in Limits : processUnsub(i, m)
         \/ broadcastSubscribe \/ Unsubscribe \/ BroadcastUnsub \/ closeConnection
         \/ \E g \in Subs : CloseRemoves(g)
  PROVE  TablesInv'
<1>1. Idle.at = "read" /\ [Idle EXCEPT !.at = "gone"].at = "gone"
  BY IdleState, Zenon
<1>2. /\ me.at \in {"broadcastSub", "unsub", "broadcastUnsub"} => me.g \in 1..nsubs
      /\ \A p \in Pubs : pub[p].at \in {"unsub", "broadcastUnsub"} => pub[p].g \in 1..nsubs
      /\ 1..nsubs \subseteq Subs
  BY MadeSubs, Zenon
<1>3. \A g \in 1..nsubs : sid[g] \in Sids
  BY Zenon DEF TableInv
<1>4. \A q \in Pubs : pub[q].at \in {"unsub", "broadcastUnsub"} =>
            pub[q].g # 0 /\ (me.at = "broadcastSub" => pub[q].g # me.g)
  BY Zenon DEF TurnsInv
<1>5. ASSUME NEW i \in Sids, NEW m \in Limits, processUnsub(i, m)
      PROVE  TablesInv'
  <2>1. /\ me.at = "read" /\ csubs[i] # 0 /\ max' = [max EXCEPT ![csubs[i]] = m]
        /\ me' = [at |-> "unsub", g |-> csubs[i]]
    BY <1>5, Zenon DEF processUnsub
  <2>2. /\ typ' = typ /\ sl' = sl /\ nsubs' = nsubs /\ sid' = sid /\ queue' = queue /\ nm' = nm
        /\ csubs' = csubs /\ open' = open /\ closing' = closing /\ pub' = pub /\ stale' = stale
        /\ view' = view /\ raced' = raced
    BY <1>5, Zenon DEF processUnsub, routes
  <2>3. TableInv'
    BY <2>2, TableSame, Zenon
  <2>4. csubs[i] \in 1..nsubs /\ max \in [Subs -> Nat]
    BY <2>1, ClientSub, Zenon DEF StateOK, BaseOK
  <2>5. \A g \in Subs : g # csubs[i] => max'[g] = max[g]
    BY <2>1, <2>4, Zenon
  <2>6. me'.at = "unsub" /\ me'.g = csubs[i]
    BY <2>1
  <2>7. \A g \in Subs : g > nsubs => max'[g] = 0
    <3>1. \A g \in Subs : g > nsubs => g # csubs[i]
      BY <2>4 DEF StateOK, BaseOK, Subs
    <3> QED
      BY <2>5, <3>1, Zenon DEF TurnsInv
  <2>8. open => csubs[i] \in sl
    BY <2>1, Zenon DEF TableInv, ClientSubs
  <2>9. open => \A g \in (1..nsubs) \ sl : ~SendsMax(g)'
    BY <1>2, <2>2, <2>5, <2>8, Zenon DEF TurnsInv, SendsMax
  <2>10. open' => \A g \in (1..nsubs') \ sl' : ~SendsMax(g)'
    BY <2>2, <2>9, OpenSame, Zenon
  <2>11. me'.at # "broadcastSub"
    BY <2>6
  <2>12. TurnsInv'
    BY <1>4, <2>1, <2>2, <2>6, <2>7, <2>10, <2>11, Zenon DEF TurnsInv
  <2>13. me.at \notin {"broadcastSub", "broadcastUnsub"}
    BY <2>1
  <2>14. \A r \in Rsids : Awaited(r) => Awaited(r)'
    BY <2>2, <2>13, AwaitedMono, Zenon
  <2>15. \A r \in Rsids : Present(r)' <=> Present(r)
    BY <2>2, Zenon DEF Present, routeSid
  <2>16. RouteInv'
    BY <2>2, <2>14, <2>15, RouteMono, Zenon
  <2> QED
    BY <2>3, <2>12, <2>16, Zenon DEF TablesInv
<1>6. ASSUME broadcastSubscribe
      PROVE  TablesInv'
  <2>1. /\ me.at = "broadcastSub" /\ me' = Idle
        /\ typ' = typ /\ sl' = sl /\ nsubs' = nsubs /\ sid' = sid /\ queue' = queue /\ nm' = nm
        /\ csubs' = csubs /\ open' = open /\ closing' = closing /\ pub' = pub /\ stale' = stale
        /\ max' = max
    BY <1>6, Zenon DEF broadcastSubscribe, subs
  <2>2. TableInv'
    BY <2>1, TableSame, Zenon
  <2>3. me'.at = "read"
    BY <1>1, <2>1, Zenon
  <2>4. TurnsInv'
    BY <1>4, <2>1, <2>3, SendsMaxSame, OpenSame, TurnsFrame
  <2>5. PICK rs : rs = routeSid(me.g)
    OBVIOUS
  <2>6. /\ view' = [view EXCEPT ![rs] = IF @ = 0 THEN me.g ELSE @]
        /\ raced' = IF open THEN raced \ {rs} ELSE raced \cup {rs}
    BY <1>6, <2>5, Zenon DEF broadcastSubscribe
  <2>7. rs \in Rsids
    BY <1>2, <1>3, <2>1, <2>5, RouteSidType, Zenon
  <2>8. /\ view'[rs] # 0 /\ \A r \in Rsids : r # rs => view'[r] = view[r]
        /\ view' = [r \in Rsids |-> view'[r]]
    <3>1. me.g # 0
      BY <2>1, Zenon DEF TurnsInv
    <3> QED
      BY <2>6, <2>7, <3>1, Zenon DEF RouteInv
  <2>9. open => Present(rs)'
    BY <2>1, <2>5, Zenon DEF Present, TurnsInv, routeSid
  <2>10. \A r \in Rsids : r # rs => (r \in raced' <=> r \in raced)
    BY <2>6, Zenon
  <2>11. rs \notin raced' => open
    BY <2>6, Zenon
  <2>12. \A r \in Rsids : Present(r)' <=> Present(r)
    BY <2>1, Zenon DEF Present, routeSid
  <2>13. ASSUME NEW r \in Rsids, r # rs, Awaited(r)
         PROVE  Awaited(r)'
    <3>1. PICK p \in Pubs : /\ pub[p].at = "broadcastUnsub" /\ routeSid(pub[p].g) = r
                            /\ pub[p].g \notin sl
      BY <2>1, <2>5, <2>13 DEF Awaited
    <3> QED
      BY <2>1, <3>1, Zenon DEF Awaited, routeSid
  <2>14. ASSUME NEW r \in Rsids, typ = "CLIENT", r \notin raced', ~Awaited(r)'
         PROVE  Agree(r)'
    <3>1. CASE r = rs
      BY <2>8, <2>9, <2>11, <2>14, <3>1, Zenon DEF Agree
    <3>2. CASE r # rs
      <4>1. Agree(r)
        BY <2>10, <2>13, <2>14, <3>2, Zenon DEF RouteInv
      <4> QED
        BY <2>8, <2>12, <3>2, <4>1, Zenon DEF Agree
    <3> QED
      BY <3>1, <3>2, Zenon
  <2>15. RouteInv'
    BY <2>1, <2>8, <2>14, Zenon DEF RouteInv
  <2> QED
    BY <2>2, <2>4, <2>15, Zenon DEF TablesInv
<1>7. ASSUME Unsubscribe
      PROVE  TablesInv'
  <2>1. /\ me.at = "unsub" /\ unsubscribe(me.g) /\ me' = [me EXCEPT !.at = "broadcastUnsub"]
        /\ typ' = typ /\ nsubs' = nsubs /\ sid' = sid /\ queue' = queue /\ nm' = nm /\ max' = max
        /\ open' = open /\ closing' = closing /\ pub' = pub /\ view' = view /\ raced' = raced
    BY <1>7, Zenon DEF Unsubscribe, fields, routes
  <2>2. me.g \in 1..nsubs /\ me.g # 0
    BY <1>2, <2>1, Zenon DEF TurnsInv
  <2>3. TableInv'
    BY <2>1, <2>2, TableUnsubscribe, Zenon
  <2>4. me'.at = "broadcastUnsub" /\ me'.g = me.g /\ me'.at # "broadcastSub"
    BY <2>1 DEF StateOK, BaseOK, MeState
  <2>5. PICK g \in 1..nsubs : g = me.g
    BY <2>2, Zenon
  <2>6. sl' \subseteq sl /\ sl \ {g} \subseteq sl' /\ (SendsMax(g) => sl' = sl) /\ (~SendsMax(g) => sl' = sl \ {g})
    BY <2>1, <2>5, UnsubscribeEffect, Zenon
  <2>7. TurnsInv'
    <3>1. \A h \in sl \ sl' : ~SendsMax(h)
      BY <2>6, Zenon
    <3> QED
      BY <1>4, <2>1, <2>2, <2>4, <2>6, <3>1, SendsMaxSame, OpenSame, TurnsFrame, Zenon
  <2>8. \A r \in Rsids : Awaited(r) => Awaited(r)'
    <3>1. me.at \notin {"broadcastSub", "broadcastUnsub"}
      BY <2>1
    <3> QED
      BY <2>1, <2>6, <3>1, AwaitedMono, Zenon
  <2>9. ASSUME NEW r \in Rsids
        PROVE  Awaited(r)' \/ (Present(r)' <=> Present(r))
    <3>1. CASE r # routeSid(g)
      BY <2>1, <2>6, <3>1, PresentSame, Zenon
    <3>2. CASE r = routeSid(g) /\ g \notin sl'
      BY <2>1, <2>4, <2>5, <3>2, Zenon DEF Awaited, routeSid
    <3>3. CASE sl' = sl
      BY <2>1, <3>3, Zenon DEF Present, routeSid
    <3> QED
      BY <2>6, <3>1, <3>2, <3>3, Zenon
  <2>10. RouteInv'
    BY <2>1, <2>8, <2>9, RouteMono, Zenon
  <2> QED
    BY <2>3, <2>7, <2>10, Zenon DEF TablesInv
<1>8. ASSUME BroadcastUnsub
      PROVE  TablesInv'
  <2>1. /\ me.at = "broadcastUnsub" /\ me' = Idle /\ broadcastUnSubscribe(me.g)
        /\ typ' = typ /\ sl' = sl /\ nsubs' = nsubs /\ sid' = sid /\ queue' = queue /\ nm' = nm
        /\ csubs' = csubs /\ open' = open /\ closing' = closing /\ pub' = pub /\ stale' = stale
        /\ max' = max
    BY <1>8, Zenon DEF BroadcastUnsub, subs
  <2>2. TableInv'
    BY <2>1, TableSame, Zenon
  <2>3. me'.at = "read" /\ me.at # "broadcastSub"
    BY <1>1, <2>1
  <2>4. TurnsInv'
    BY <1>4, <2>1, <2>3, SendsMaxSame, OpenSame, TurnsFrame
  <2>5. PICK g \in 1..nsubs : g = me.g
    BY <1>2, <2>1, Zenon
  <2>6. PICK rs : rs = routeSid(g)
    OBVIOUS
  <2>7. ASSUME NEW r \in Rsids, Awaited(r), r # rs \/ me.g \in sl
        PROVE  Awaited(r)'
    <3>1. PICK p \in Pubs : /\ pub[p].at = "broadcastUnsub" /\ routeSid(pub[p].g) = r
                            /\ pub[p].g \notin sl
      BY <2>3, <2>5, <2>6, <2>7, Zenon DEF Awaited
    <3> QED
      BY <2>1, <3>1, Zenon DEF Awaited, routeSid
  <2>8. open /\ SendsMax(g) => g \in sl
    BY Zenon DEF TurnsInv
  <2>9. rs \in Rsids
    BY <1>3, <2>6, RouteSidType, Zenon
  <2>10. open /\ SendsMax(g) => sl' = sl /\ (Awaited(rs) => Awaited(rs)')
    BY <2>1, <2>5, <2>7, <2>8, <2>9, Zenon
  <2>11. \A r \in Rsids : r # rs /\ Awaited(r) => Awaited(r)'
    BY <2>7, Zenon
  <2>12. /\ sid[g] \in Sids /\ broadcastUnSubscribe(g) /\ sl' \subseteq sl /\ sl \ {g} \subseteq sl'
    BY <1>3, <2>1, <2>5, Zenon
  <2>13. RouteInv'
    BY <2>1, <2>6, <2>10, <2>11, <2>12, RouteBroadcast, Zenon
  <2> QED
    BY <2>2, <2>4, <2>13, Zenon DEF TablesInv
<1>9. ASSUME closeConnection
      PROVE  TablesInv'
  <2>1. /\ me.at = "read" /\ open /\ CloseSocket /\ me' = [Idle EXCEPT !.at = "gone"]
        /\ typ' = typ /\ sl' = sl /\ nsubs' = nsubs /\ sid' = sid /\ queue' = queue /\ nm' = nm
        /\ csubs' = csubs /\ pub' = pub /\ stale' = stale /\ max' = max
        /\ view' = view /\ raced' = raced
    BY <1>9, Zenon DEF closeConnection, subs, routes
  <2>2. TableInv'
    BY <2>1, TableClose, Zenon
  <2>3. me'.at = "gone" /\ ~open' /\ me.at \notin {"broadcastSub", "broadcastUnsub"}
    BY <1>1, <2>1 DEF CloseSocket
  <2>4. TurnsInv'
    BY <1>4, <2>1, <2>3, SendsMaxSame, TurnsFrame
  <2>5. \A r \in Rsids : Awaited(r) => Awaited(r)'
    BY <2>1, <2>3, AwaitedMono, Zenon
  <2>6. \A r \in Rsids : Present(r)' <=> Present(r)
    BY <2>1, Zenon DEF Present, routeSid
  <2>7. RouteInv'
    BY <2>1, <2>5, <2>6, RouteMono, Zenon
  <2> QED
    BY <2>2, <2>4, <2>7, Zenon DEF TablesInv
<1>10. ASSUME NEW g \in Subs, CloseRemoves(g)
      PROVE  TablesInv'
  <2>1. /\ g \in closing /\ sl' = sl \ {g} /\ broadcastUnSubscribe(g)
        /\ typ' = typ /\ nsubs' = nsubs /\ sid' = sid /\ queue' = queue /\ nm' = nm
        /\ max' = max /\ open' = open /\ me' = me /\ pub' = pub
    BY <1>10, Zenon DEF CloseRemoves, Remove, fields
  <2>2. TableInv' /\ ~open
    BY <1>10, TableRemoves, Zenon
  <2>3. ~open' /\ (open' => open)
    BY <2>1, <2>2
  <2>4. g \in 1..nsubs /\ sid[g] \in Sids
    BY <1>3, <2>1, Zenon DEF TableInv
  <2>5. me.at \in {"broadcastSub", "unsub", "broadcastUnsub"} => me.g # 0
    BY Zenon DEF TurnsInv
  <2>6. TurnsInv'
    BY <1>4, <2>1, <2>3, <2>5, SendsMaxSame, TurnsFrame
  <2>7. PICK rs : rs = routeSid(g)
    OBVIOUS
  <2>8. sl' \subseteq sl /\ sl \ {g} \subseteq sl'
    BY <2>1, Zenon
  <2>9. \A r \in Rsids : r # rs /\ Awaited(r) => Awaited(r)'
    BY <2>1, <2>8, AwaitedMono, Zenon
  <2>10. RouteInv'
    BY <2>1, <2>2, <2>4, <2>7, <2>8, <2>9, RouteBroadcast, Zenon
  <2> QED
    BY <2>2, <2>6, <2>10, Zenon DEF TablesInv
<1> QED
  BY <1>5, <1>6, <1>7, <1>8, <1>9, <1>10, Zenon

\* a step of p in which it has nothing to broadcast
LEMMA RoutePubFrame ==
  ASSUME StateOK, TablesInv, NEW p \in Pubs, Others(p), me' = me, typ' = typ, nsubs' = nsubs,
         sid' = sid, queue' = queue, max' = max, sl' = sl, view' = view, raced' = raced,
         pub[p].at # "broadcastUnsub", open' => open,
         \A g \in 1..nsubs : SendsMax(g)' => SendsMax(g),
         pub'[p].at \notin {"unsub", "broadcastUnsub"} \/ (pub'[p].g # 0 /\ max[pub'[p].g] > 0)
  PROVE  TurnsInv' /\ RouteInv'
<1>1. TableInv /\ TurnsInv /\ RouteInv
  BY Zenon DEF TablesInv
<1>2. \A r \in Rsids : Awaited(r) => Awaited(r)'
  <2>1. \A q \in Pubs : pub[q].at = "broadcastUnsub" => pub'[q].at = pub[q].at /\ pub'[q].g = pub[q].g
    BY Zenon DEF Others
  <2> QED
    BY <2>1, AwaitedMono, Zenon
<1>3. \A r \in Rsids : Present(r)' <=> Present(r)
  BY Zenon DEF Present, routeSid
<1>4. RouteInv'
  BY <1>1, <1>2, <1>3, RouteMono, Zenon
<1>5. \A q \in Pubs : pub'[q].at \in {"unsub", "broadcastUnsub"} =>
            pub'[q].g # 0 /\ (me.at = "broadcastSub" => pub'[q].g # me.g)
  <2>1. ASSUME pub'[p].at \in {"unsub", "broadcastUnsub"}
        PROVE  pub'[p].g # 0 /\ (me.at = "broadcastSub" => pub'[p].g # me.g)
    <3>1. me.at = "broadcastSub" => max[me.g] = 0
      BY <1>1, Zenon DEF TurnsInv
    <3> QED
      BY <2>1, <3>1
  <2> QED
    BY <1>1, <2>1, Zenon DEF TurnsInv, Others
<1>6. me.at \in {"broadcastSub", "unsub", "broadcastUnsub"} => me.g # 0
  BY <1>1, Zenon DEF TurnsInv
<1>7. TurnsInv'
  BY <1>1, <1>5, <1>6, TurnsFrame, Zenon
<1> QED
  BY <1>4, <1>7, Zenon

\* So do the steps of a publisher, whatever it delivers and removes.
LEMMA RoutePub ==
  ASSUME StateOK, CachesOK, TablesInv, NEW p \in Pubs, PubNext(p),
         pub[p].at = "direct" => pub[p].i \in Sids
  PROVE  TablesInv'
<1>1. TableInv /\ TurnsInv /\ RouteInv
  BY Zenon DEF TablesInv
<1>2. /\ typ' = typ /\ nsubs' = nsubs /\ sid' = sid /\ queue' = queue /\ max' = max /\ me' = me
  BY PubFrame, Zenon
<1>3. ASSUME Others(p), sl' = sl, csubs' = csubs, stale' = stale, open' = open,
             closing' = closing, view' = view, raced' = raced, nm' = nm,
             pub[p].at # "broadcastUnsub", pub'[p].at \notin {"unsub", "broadcastUnsub"}
      PROVE  TablesInv'
  <2>1. TableInv'
    BY <1>1, <1>2, <1>3, TableSame, Zenon
  <2>2. \A g \in 1..nsubs : SendsMax(g)' => SendsMax(g)
    BY <1>2, <1>3, SendsMaxSame
  <2>3. TurnsInv' /\ RouteInv'
    BY <1>2, <1>3, <2>2, OpenSame, RoutePubFrame, Zenon
  <2> QED
    BY <2>1, <2>3, Zenon DEF TablesInv
<1>4. ASSUME NEW x \in Subjects, NEW i \in Sids \cup {0}, processMsg(p, x, i)
      PROVE  TablesInv'
  <2>1. /\ sl' = sl /\ csubs' = csubs /\ stale' = stale /\ open' = open /\ closing' = closing
        /\ view' = view /\ raced' = raced /\ nm' = nm /\ pub[p].at = "read"
    BY <1>4, Zenon DEF processMsg, subs, routes
  <2>2. MsgOutcome(p, x, i)
    BY <1>4, MsgEffect, Zenon
  <2>3. CASE pub' = pub
    BY <1>3, <2>1, <2>3 DEF Others, StateOK, PubsOK
  <2>4. CASE Fanout(p, Started(x, i), Of(x))
    <3>1. Started(x, i) \in PubState /\ Of(x) \in SUBSET Subs
      BY StartedFields, OfSubs, Zenon
    <3>2. Others(p) /\ Fanned(p, Started(x, i), Of(x))
      BY <2>4, <3>1, FanoutEffect, Zenon
    <3>3. pub'[p].at \notin {"unsub", "broadcastUnsub"} /\ pub[p].at # "broadcastUnsub"
      BY <2>1, <3>2 DEF Fanned
    <3> QED
      BY <1>3, <2>1, <3>2, <3>3, Zenon
  <2>5. CASE pub' = [pub EXCEPT ![p] = [Started(x, i) EXCEPT !.at = "match"]]
    <3>1. Others(p) /\ pub'[p].at = "match"
      BY <2>5, MatchStarted, Zenon
    <3> QED
      BY <1>3, <2>1, <3>1
  <2> QED
    BY <2>2, <2>3, <2>4, <2>5, Zenon DEF MsgOutcome
<1>5. ASSUME Match(p)
      PROVE  TablesInv'
  <2>1. /\ sl' = sl /\ csubs' = csubs /\ stale' = stale /\ open' = open /\ closing' = closing
        /\ view' = view /\ raced' = raced /\ nm' = nm /\ pub[p].at = "match"
    BY <1>5, Zenon DEF Match, subs, routes
  <2>2. Fanout(p, pub[p], Of(pub[p].x)) /\ pub[p] \in PubState /\ Of(pub[p].x) \in SUBSET Subs
    BY <1>5, MatchEffect, OfSubs, Zenon DEF StateOK, PubsOK
  <2>3. Others(p) /\ Fanned(p, pub[p], Of(pub[p].x))
    BY <2>2, FanoutEffect, Zenon
  <2>4. pub'[p].at \notin {"unsub", "broadcastUnsub"} /\ pub[p].at # "broadcastUnsub"
    BY <2>1, <2>3 DEF Fanned
  <2> QED
    BY <1>3, <2>1, <2>3, <2>4, Zenon
<1>6. ASSUME RouteSidQueueSubscriber(p) \/ ReadNext(p) \/ \E g \in Subs : Skip(p, g)
      PROVE  TablesInv'
  <2>1. /\ sl' = sl /\ csubs' = csubs /\ stale' = stale /\ open' = open /\ closing' = closing
        /\ view' = view /\ raced' = raced /\ nm' = nm /\ pub[p].at \in {"direct", "deliver"}
    BY <1>6, Zenon DEF RouteSidQueueSubscriber, ReadNext, Skip, Turn, subs, routes
  <2>2. Others(p) /\ pub'[p].at \in {"deliver", "read"}
    <3>1. CASE RouteSidQueueSubscriber(p)
      <4>1. pub[p].i \in Sids
        BY <3>1, Zenon DEF RouteSidQueueSubscriber
      <4> QED
        BY <3>1, <4>1, DirectEffect, Zenon
    <3>2. CASE ReadNext(p)
      BY <3>2, ReadEffect, PubIdleFields, Zenon
    <3>3. CASE \E g \in Subs : Skip(p, g)
      BY <3>3, SkipEffect, Zenon DEF Skip, Turn
    <3> QED
      BY <1>6, <3>1, <3>2, <3>3, Zenon
  <2>3. pub'[p].at \notin {"unsub", "broadcastUnsub"} /\ pub[p].at # "broadcastUnsub"
    BY <2>1, <2>2
  <2> QED
    BY <1>3, <2>1, <2>2, <2>3, Zenon
<1>7. ASSUME NEW g \in Subs, deliverMsg(p, g)
      PROVE  TablesInv'
  <2>1. /\ sl' = sl /\ csubs' = csubs /\ stale' = stale /\ view' = view /\ raced' = raced
        /\ nm' = [nm EXCEPT ![g] = @ + 1] /\ pub[p].at = "deliver"
    BY <1>7, Zenon DEF deliverMsg, Turn, routes
  <2>2. /\ Handled(p, g)
        /\ (open' = open /\ closing' = closing) \/ (open /\ CloseSocket)
    BY <1>7, DeliverEffect, Zenon
  <2>3. TableInv'
    BY <1>1, <1>2, <2>1, <2>2, TableSame, TableClose, Zenon
  <2>4. open' => open
    BY <2>2, Zenon DEF CloseSocket
  <2>5. \A h \in 1..nsubs : SendsMax(h)' => SendsMax(h)
    <3>1. 1..nsubs \subseteq Subs
      BY <1>1, MadeSubs, Zenon
    <3>2. nm \in [Subs -> Nat] /\ max \in [Subs -> Nat]
      BY Zenon DEF StateOK, BaseOK
    <3>3. \A h \in Subs : SendsMax(h)' => SendsMax(h)
      BY <1>2, <2>1, <3>2 DEF SendsMax
    <3> QED
      BY <3>1, <3>3, Zenon
  <2>6. pub'[p].at \notin {"unsub", "broadcastUnsub"} \/ (pub'[p].g # 0 /\ max[pub'[p].g] > 0)
    <3>1. g # 0
      BY DEF Subs
    <3> QED
      BY <2>2, <3>1 DEF Handled
  <2>7. pub[p].at # "broadcastUnsub" /\ Others(p)
    BY <2>1, <2>2 DEF Handled
  <2>8. TurnsInv' /\ RouteInv'
    BY <1>2, <2>1, <2>4, <2>5, <2>6, <2>7, RoutePubFrame, Zenon
  <2> QED
    BY <2>3, <2>8, Zenon DEF TablesInv
<1>8. \A q \in Pubs : pub[q].at \in {"unsub", "broadcastUnsub"} =>
            pub[q].g # 0 /\ (me.at = "broadcastSub" => pub[q].g # me.g)
  BY <1>1, Zenon DEF TurnsInv
<1>9. me.at \in {"broadcastSub", "unsub", "broadcastUnsub"} => me.g # 0
  BY <1>1, Zenon DEF TurnsInv
<1>10. ASSUME AutoUnsubscribe(p)
      PROVE  TablesInv'
  <2>1. /\ pub[p].at = "unsub" /\ unsubscribe(pub[p].g) /\ nm' = nm
        /\ open' = open /\ closing' = closing /\ view' = view /\ raced' = raced
    BY <1>10, Zenon DEF AutoUnsubscribe, fields, routes
  <2>2. PICK g \in 1..nsubs : g = pub[p].g
    BY <1>1, <2>1, MadeSubs, Zenon
  <2>3. /\ Others(p) /\ pub'[p].at = "broadcastUnsub" /\ pub'[p].g = g
    BY <1>10, <2>2, AutoEffect, Zenon
  <2>4. TableInv'
    BY <1>1, <1>2, <2>1, <2>2, TableUnsubscribe, Zenon
  <2>5. sl' \subseteq sl /\ sl \ {g} \subseteq sl' /\ (SendsMax(g) => sl' = sl) /\ (~SendsMax(g) => sl' = sl \ {g})
    BY <2>1, <2>2, UnsubscribeEffect, Zenon
  <2>6. TurnsInv'
    <3>1. \A h \in sl \ sl' : ~SendsMax(h)
      BY <2>5, Zenon
    <3>2. \A q \in Pubs : pub'[q].at \in {"unsub", "broadcastUnsub"} =>
            pub'[q].g # 0 /\ (me.at = "broadcastSub" => pub'[q].g # me.g)
      BY <1>8, <2>1, <2>2, <2>3, Zenon DEF Others
    <3>3. me.at = "broadcastSub" => me.g # g
      BY <1>8, <2>1, <2>2, Zenon
    <3> QED
      BY <1>1, <1>2, <1>9, <2>1, <2>5, <3>1, <3>2, <3>3, SendsMaxSame, OpenSame, TurnsFrame, Zenon
  <2>7. \A r \in Rsids : Awaited(r) => Awaited(r)'
    <3>1. pub[p].at # "broadcastUnsub"
      BY <2>1
    <3>2. \A q \in Pubs : pub[q].at = "broadcastUnsub" => pub'[q].at = pub[q].at /\ pub'[q].g = pub[q].g
      BY <2>3, <3>1, Zenon DEF Others
    <3> QED
      BY <1>2, <2>5, <3>2, AwaitedMono, Zenon
  <2>8. ASSUME NEW r \in Rsids
        PROVE  Awaited(r)' \/ (Present(r)' <=> Present(r))
    <3>1. CASE r # routeSid(g)
      BY <1>2, <2>5, <3>1, PresentSame, Zenon
    <3>2. CASE r = routeSid(g) /\ g \notin sl'
      BY <1>2, <2>3, <3>2, Zenon DEF Awaited, routeSid
    <3>3. CASE sl' = sl
      BY <1>2, <3>3, Zenon DEF Present, routeSid
    <3> QED
      BY <2>5, <3>1, <3>2, <3>3, Zenon
  <2>9. RouteInv'
    BY <1>1, <1>2, <2>1, <2>7, <2>8, RouteMono, Zenon
  <2> QED
    BY <2>4, <2>6, <2>9, Zenon DEF TablesInv
<1>11. ASSUME AutoBroadcast(p)
      PROVE  TablesInv'
  <2>1. /\ pub[p].at = "broadcastUnsub" /\ broadcastUnSubscribe(pub[p].g)
        /\ sl' = sl /\ nm' = nm /\ csubs' = csubs /\ open' = open /\ closing' = closing
        /\ stale' = stale
    BY <1>11, Zenon DEF AutoBroadcast, subs
  <2>2. TableInv'
    BY <1>1, <1>2, <2>1, TableSame, Zenon
  <2>3. Others(p) /\ pub'[p].at = "deliver"
    BY <1>11, BroadcastEffect, Zenon
  <2>4. TurnsInv'
    <3>1. pub'[p].at \notin {"unsub", "broadcastUnsub"}
      BY <2>3
    <3>2. \A q \in Pubs : pub'[q].at \in {"unsub", "broadcastUnsub"} =>
            pub'[q].g # 0 /\ (me.at = "broadcastSub" => pub'[q].g # me.g)
      BY <1>8, <2>3, <3>1, Zenon DEF Others
    <3> QED
      BY <1>1, <1>2, <1>9, <2>1, <3>2, SendsMaxSame, OpenSame, TurnsFrame, Zenon
  <2>5. PICK g \in 1..nsubs : g = pub[p].g
    BY <1>1, <2>1, MadeSubs, Zenon
  <2>6. PICK rs : rs = routeSid(g)
    OBVIOUS
  <2>7. ASSUME NEW r \in Rsids, Awaited(r), r # rs \/ g \in sl
        PROVE  Awaited(r)'
    <3>1. CASE \E q \in Pubs : /\ pub[q].at = "broadcastUnsub" /\ routeSid(pub[q].g) = r
                               /\ pub[q].g \notin sl
      <4>1. PICK q \in Pubs : /\ pub[q].at = "broadcastUnsub" /\ routeSid(pub[q].g) = r
                              /\ pub[q].g \notin sl
        BY <3>1, Zenon
      <4>2. q # p
        BY <2>5, <2>6, <2>7, <4>1, Zenon
      <4> QED
        BY <1>2, <2>1, <2>3, <4>1, <4>2, Zenon DEF Others, Awaited, routeSid
    <3>2. CASE /\ me.at \in {"broadcastSub", "broadcastUnsub"} /\ routeSid(me.g) = r
               /\ me.at = "broadcastUnsub" => me.g \notin sl
      BY <1>2, <2>1, <3>2, Zenon DEF Awaited, routeSid
    <3> QED
      BY <2>7, <3>1, <3>2, Zenon DEF Awaited
  <2>8. open /\ SendsMax(g) => g \in sl
    BY <1>1, Zenon DEF TurnsInv
  <2>9. sid[g] \in Sids
    BY <1>1, Zenon DEF TableInv
  <2>10. rs \in Rsids
    BY <2>6, <2>9, RouteSidType, Zenon
  <2>11. open /\ SendsMax(g) => sl' = sl /\ (Awaited(rs) => Awaited(rs)')
    BY <2>1, <2>7, <2>8, <2>10, Zenon
  <2>12. \A r \in Rsids : r # rs /\ Awaited(r) => Awaited(r)'
    BY <2>7, Zenon
  <2>13. broadcastUnSubscribe(g) /\ sl' \subseteq sl /\ sl \ {g} \subseteq sl'
    BY <2>1, <2>5, Zenon
  <2>14. RouteInv'
    BY <1>1, <1>2, <2>6, <2>9, <2>11, <2>12, <2>13, RouteBroadcast, Zenon
  <2> QED
    BY <2>2, <2>4, <2>14, Zenon DEF TablesInv
<1> QED
  BY <1>4, <1>5, <1>6, <1>7, <1>10, <1>11, Zenon DEF PubNext

-----------------------------------------------------------------------------
(* The contract *)

\* The result of the match is being worked off.
Delivering(m) == m.at \in {"deliver", "unsub", "broadcastUnsub"}

\* The subscriptions the sublist held when the message began, or made since.
Since(m, n) == m.start \cup (m.made + 1)..n

\* The subscriptions the message is for.
Handed(m) == m.todo \cup m.done \cup m.missed

\* What holds of a message from the start: whatever the sublist holds now it held
\* then, or was made since.
Fresh(p, m, t, s, n) ==
    /\ m.start \subseteq 1..m.made
    /\ (m.i # 0 => p \in Routers /\ t = "CLIENT")
    /\ (m.x = Subject => s \subseteq Since(m, n))
    /\ (m.x # Subject => m.start = {})

\* What holds of the message m in every phase but between messages.
MsgInv(p, m, t, s, n) ==
    /\ (m.at = "direct" => m.i # 0)
    /\ (m.at # "read" => Fresh(p, m, t, s, n))

\* A route is written a message once, and not if it comes from a route; it is not
\* passed over before.
RouterInv(p, m, o, s, q) ==
    /\ \A g, h \in m.done : ~q[g] /\ ~q[h] => g = h
    /\ ((\E g \in m.done : ~q[g]) => m.sent /\ p \notin Routers)
    /\ (m.sent /\ o /\ m.missed = {} => \E g \in m.done : ~q[g])
    /\ (p \notin Routers /\ o /\ ~m.sent => \A g \in m.start \cap s : ~q[g] => g \in m.todo)

\* A queue group that was there all along has exactly one member the message is for.
GroupInv(p, m, o, s, q) ==
    p \notin Routers /\ o /\ (\E g \in m.start : q[g]) /\ (\A g \in m.start : q[g] => g \in s)
      => \E g \in Subs : {h \in Handed(m) : q[h]} = {g}

\* The message is for all plain subscriptions that were there all along.
PlainInv(m, t, o, s, q) ==
    t = "CLIENT" /\ m.i = 0 /\ o => \A g \in m.start \cap s : ~q[g] => g \in Handed(m)

\* What holds of the subscriptions the message was handed to.
WorkInv(p, m, t, o, s, n, q) ==
    /\ Handed(m) \subseteq 1..n
    /\ (~Delivering(m) => Handed(m) = {} /\ ~m.sent)
    /\ (Delivering(m) =>
          /\ (m.i = 0 => m.todo \cup m.done \subseteq Since(m, n))
          /\ PlainInv(m, t, o, s, q) /\ GroupInv(p, m, o, s, q)
          /\ (t = "ROUTER" => RouterInv(p, m, o, s, q)))

\* The inductive form of DeliveryContract for the message m of p, given the type t
\* of the connection, whether it is open (o), the sublist s, the number n of
\* subscriptions made and which of them are queue subscriptions (q).
Contract(p, m, t, o, s, n, q) == MsgInv(p, m, t, s, n) /\ WorkInv(p, m, t, o, s, n, q)

\* The contract of the message p is about.
PubInv(p) == Contract(p, pub[p], typ, open, sl, nsubs, queue)

\* All messages under way keep to it.
ContractInv == \A p \in Pubs : PubInv(p)

\* The contract in the next state.
LEMMA PubInvNext ==
  ASSUME NEW p, Contract(p, pub'[p], typ', open', sl', nsubs', queue')
  PROVE  PubInv(p)'
BY Zenon DEF PubInv, Contract, MsgInv, WorkInv, Fresh, RouterInv, GroupInv, PlainInv, Since, Handed, Delivering

\* The types of the message of p.
LEMMA PubParts ==
  ASSUME StateOK, NEW p \in Pubs
  PROVE  /\ pub[p] \in PubState /\ pub[p].made \in Nat /\ pub[p].made <= nsubs
         /\ pub[p].sent \in BOOLEAN /\ nsubs \in Nat /\ open \in BOOLEAN
BY DEF StateOK, BaseOK, PubsOK, PubState

\* The subscriptions of others change while p is about its message.
LEMMA ContractFrame ==
  ASSUME StateOK, NEW p \in Pubs, PubInv(p), typ' = typ, nsubs' \in Nat, nsubs <= nsubs',
         sl' \subseteq sl \cup (nsubs + 1)..nsubs', open' => open,
         \A g \in 1..nsubs : queue'[g] = queue[g]
  PROVE  Contract(p, pub[p], typ', open', sl', nsubs', queue')
<1>0. PICK m, n, n1, s, s1, o, o1, q, q1 :
         /\ m = pub[p] /\ n = nsubs /\ n1 = nsubs' /\ s = sl /\ s1 = sl' /\ o = open
         /\ o1 = open' /\ q = queue /\ q1 = queue'
  OBVIOUS
<1>1. /\ m.made \in Nat /\ m.made <= n /\ n \in Nat /\ n1 \in Nat /\ n <= n1
  BY <1>0, PubParts, Zenon
<1>2. /\ s1 \subseteq s \cup (n + 1)..n1 /\ (o1 => o) /\ \A g \in 1..n : q1[g] = q[g]
  BY <1>0, Zenon
<1>3. MsgInv(p, m, typ, s, n) /\ WorkInv(p, m, typ, o, s, n, q)
  BY <1>0, Zenon DEF PubInv, Contract
<1>4. /\ Since(m, n) \subseteq Since(m, n1) /\ (n + 1)..n1 \subseteq Since(m, n1)
      /\ 1..n \subseteq 1..n1 /\ 1..m.made \subseteq 1..n
      /\ \A g \in 1..n : g \notin (n + 1)..n1
  <2>1. (m.made + 1)..n \subseteq (m.made + 1)..n1 /\ (n + 1)..n1 \subseteq (m.made + 1)..n1
    BY <1>1
  <2>2. /\ 1..n \subseteq 1..n1 /\ 1..m.made \subseteq 1..n
        /\ \A g \in 1..n : g \notin (n + 1)..n1
    BY <1>1
  <2> QED
    BY <2>1, <2>2, Zenon DEF Since
<1>5. MsgInv(p, m, typ, s1, n1)
  BY <1>2, <1>3, <1>4, Zenon DEF MsgInv, Fresh
<1>6. Handed(m) \subseteq 1..n /\ Handed(m) \subseteq 1..n1 /\ (~Delivering(m) => Handed(m) = {} /\ ~m.sent)
  BY <1>3, <1>4, Zenon DEF WorkInv
<1>7. ASSUME Delivering(m)
      PROVE  /\ (m.i = 0 => m.todo \cup m.done \subseteq Since(m, n1))
             /\ PlainInv(m, typ, o1, s1, q1) /\ GroupInv(p, m, o1, s1, q1)
             /\ (typ = "ROUTER" => RouterInv(p, m, o1, s1, q1))
  <2>1. /\ (m.i = 0 => m.todo \cup m.done \subseteq Since(m, n))
        /\ PlainInv(m, typ, o, s, q) /\ GroupInv(p, m, o, s, q)
        /\ (typ = "ROUTER" => RouterInv(p, m, o, s, q))
    BY <1>3, <1>7, Zenon DEF WorkInv
  <2>2. m.at # "read"
    BY <1>7, Zenon DEF Delivering
  <2>3. m.start \subseteq 1..n
    BY <1>3, <1>4, <2>2, Zenon DEF MsgInv, Fresh
  <2>4. \A g \in m.start : g \in s1 => g \in s
    BY <1>2, <1>4, <2>3, Zenon
  <2>5. \A g \in m.start : q1[g] <=> q[g]
    BY <1>2, <2>3, Zenon
  <2>6. \A g \in Handed(m) : q1[g] <=> q[g]
    BY <1>2, <1>6, Zenon
  <2>7. \A g \in m.done : q1[g] <=> q[g]
    BY <2>6, Zenon DEF Handed
  <2>8. PlainInv(m, typ, o1, s1, q1)
    BY <1>2, <2>1, <2>4, <2>5, Zenon DEF PlainInv
  <2>9. GroupInv(p, m, o1, s1, q1)
    <3>1. {h \in Handed(m) : q1[h]} = {h \in Handed(m) : q[h]}
      BY <2>6, Zenon
    <3> QED
      BY <1>2, <2>1, <2>4, <2>5, <3>1, Zenon DEF GroupInv
  <2>10. typ = "ROUTER" => RouterInv(p, m, o1, s1, q1)
    BY <1>2, <2>1, <2>4, <2>5, <2>7, Zenon DEF RouterInv
  <2> QED
    BY <1>4, <2>1, <2>8, <2>9, <2>10, Zenon
<1>8. WorkInv(p, m, typ, o1, s1, n1, q1)
  BY <1>6, <1>7, Zenon DEF WorkInv
<1> QED
  BY <1>0, <1>5, <1>8, Zenon DEF Contract

\* Only the phase of a delivery and the subscription it removes differ.
LEMMA ContractPhase ==
  ASSUME NEW p, NEW m, NEW k, NEW t, NEW o, NEW s, NEW n, NEW q,
         SameMsg(m, k), SameWork(m, k), Delivering(m), Delivering(k),
         Contract(p, m, t, o, s, n, q)
  PROVE  Contract(p, k, t, o, s, n, q)
<1>0. MsgInv(p, m, t, s, n) /\ WorkInv(p, m, t, o, s, n, q)
  BY Zenon DEF Contract
<1>1. m.at # "read" /\ k.at # "direct"
  BY Zenon DEF Delivering
<1>2. /\ k.x = m.x /\ k.i = m.i /\ k.start = m.start /\ k.made = m.made
      /\ k.todo = m.todo /\ k.sent = m.sent /\ k.done = m.done /\ k.missed = m.missed
  BY Zenon DEF SameMsg, SameWork
<1>3. Since(k, n) = Since(m, n) /\ Handed(k) = Handed(m)
  BY <1>2, Zenon DEF Since, Handed
<1>4. MsgInv(p, k, t, s, n)
  BY <1>0, <1>1, <1>2, <1>3, Zenon DEF MsgInv, Fresh
<1>5. /\ PlainInv(m, t, o, s, q) => PlainInv(k, t, o, s, q)
      /\ GroupInv(p, m, o, s, q) => GroupInv(p, k, o, s, q)
  BY <1>2, <1>3, Zenon DEF PlainInv, GroupInv
<1>6. RouterInv(p, m, o, s, q) => RouterInv(p, k, o, s, q)
  BY <1>2, Zenon DEF RouterInv
<1>7. WorkInv(p, k, t, o, s, n, q)
  BY <1>0, <1>2, <1>3, <1>5, <1>6, Zenon DEF WorkInv
<1> QED
  BY <1>4, <1>7, Zenon DEF Contract

\* A message that was not handed out yet, and what becomes of it when it is.
LEMMA ContractFanout ==
  ASSUME StateOK, NEW p \in Pubs, NEW m \in PubState, Fresh(p, m, typ, sl, nsubs),
         Handed(m) = {}, ~m.sent, SameMsg(m, pub'[p]), pub'[p].sent = m.sent,
         pub'[p].done = m.done, pub'[p].missed = m.missed, Fanned(p, m, Of(m.x))
  PROVE  Contract(p, pub'[p], typ, open, sl, nsubs, queue)
<1>1. PICK k : k = pub'[p]
  OBVIOUS
<1>2. /\ k.x = m.x /\ k.i = m.i /\ k.start = m.start /\ k.made = m.made
      /\ k.sent = FALSE /\ k.done = {} /\ k.missed = {} /\ m.todo = {}
  <2>1. m.sent \in BOOLEAN
    BY Zenon DEF PubState
  <2> QED
    BY <1>1, <2>1, Zenon DEF SameMsg, Handed
<1>3. Since(k, nsubs) = Since(m, nsubs) /\ Handed(k) = k.todo
  BY <1>2, Zenon DEF Since, Handed
<1>4. Fresh(p, k, typ, sl, nsubs)
  BY <1>2, <1>3, Zenon DEF Fresh
<1>5. CASE /\ p \in Routers /\ m.i # 0 /\ k.at = "direct" /\ k.todo = {}
  <2>1. ~Delivering(k)
    BY <1>5, Zenon DEF Delivering
  <2> QED
    BY <1>1, <1>2, <1>3, <1>4, <1>5, <2>1, Zenon DEF Contract, MsgInv, WorkInv
<1>6. CASE /\ k.at = "deliver"
           /\ k.todo \subseteq Of(m.x) /\ {g \in Of(m.x) : ~queue[g]} \subseteq k.todo
           /\ (p \notin Routers /\ (\E g \in Of(m.x) : queue[g])
                 => \E g \in Of(m.x) : queue[g] /\ {h \in k.todo : queue[h]} = {g})
  <2>1. Delivering(k) /\ k.at # "direct"
    BY <1>6, Zenon DEF Delivering
  <2>2. MsgInv(p, k, typ, sl, nsubs)
    BY <1>4, <2>1, Zenon DEF MsgInv
  <2>3. Of(m.x) \subseteq 1..nsubs /\ Of(m.x) \subseteq Subs
    BY OfSubs, Zenon
  <2>4. Of(m.x) \subseteq Since(k, nsubs)
    BY <1>2, <1>4, Zenon DEF Of, Fresh
  <2>5. k.start # {} => Of(m.x) = sl
    BY <1>2, <1>4, Zenon DEF Of, Fresh
  <2>6. PlainInv(k, typ, open, sl, queue)
    BY <1>3, <1>6, <2>5, Zenon DEF PlainInv
  <2>7. GroupInv(p, k, open, sl, queue)
    BY <1>3, <1>6, <2>3, <2>5, Zenon DEF GroupInv
  <2>8. RouterInv(p, k, open, sl, queue)
    BY <1>2, <1>6, <2>5, Zenon DEF RouterInv
  <2>9. k.todo \cup k.done \subseteq Since(k, nsubs) /\ Handed(k) \subseteq 1..nsubs
    BY <1>2, <1>3, <1>6, <2>3, <2>4, Zenon
  <2> QED
    BY <1>1, <2>1, <2>2, <2>6, <2>7, <2>8, <2>9, Zenon DEF Contract, WorkInv
<1> QED
  BY <1>1, <1>2, <1>5, <1>6, Zenon DEF Fanned

\* A route's plain subscription that is passed over.
LEMMA ContractSkip ==
  ASSUME StateOK, NEW p \in Pubs, NEW g \in Subs, PubInv(p), Skip(p, g)
  PROVE  Contract(p, pub'[p], typ, open, sl, nsubs, queue)
<1>0. PICK m, k : m = pub[p] /\ k = pub'[p]
  OBVIOUS
<1>1. /\ typ = "ROUTER" /\ ~queue[g] /\ m.at = "deliver"
      /\ p \in Routers \/ ~open \/ m.sent
  BY <1>0, Zenon DEF Skip, Skips, Turn
<1>2. /\ SameMsg(m, k) /\ k.at = m.at /\ k.todo = m.todo \ {g} /\ k.sent = m.sent
      /\ k.done = m.done /\ k.missed = m.missed
  BY <1>0, SkipEffect, Zenon
<1>3. MsgInv(p, m, typ, sl, nsubs) /\ WorkInv(p, m, typ, open, sl, nsubs, queue)
  BY <1>0, Zenon DEF PubInv, Contract
<1>4. Delivering(m) /\ Delivering(k) /\ k.at # "direct" /\ m.at # "read" /\ typ # "CLIENT"
  BY <1>1, <1>2, Zenon DEF Delivering
<1>5. k.x = m.x /\ k.i = m.i /\ k.start = m.start /\ k.made = m.made
  BY <1>2, Zenon DEF SameMsg
<1>6. Since(k, nsubs) = Since(m, nsubs) /\ Handed(k) \subseteq Handed(m)
  BY <1>2, <1>5, Zenon DEF Since, Handed
<1>7. MsgInv(p, k, typ, sl, nsubs)
  BY <1>3, <1>4, <1>5, <1>6, Zenon DEF MsgInv, Fresh
<1>8. PlainInv(k, typ, open, sl, queue)
  BY <1>4, Zenon DEF PlainInv
<1>9. {h \in Handed(k) : queue[h]} = {h \in Handed(m) : queue[h]}
  BY <1>1, <1>2, Zenon DEF Handed
<1>10. /\ GroupInv(p, m, open, sl, queue) /\ RouterInv(p, m, open, sl, queue)
       /\ (m.i = 0 => m.todo \cup m.done \subseteq Since(m, nsubs)) /\ Handed(m) \subseteq 1..nsubs
  BY <1>1, <1>3, <1>4, Zenon DEF WorkInv
<1>11. GroupInv(p, k, open, sl, queue)
  BY <1>5, <1>9, <1>10, Zenon DEF GroupInv
<1>12. RouterInv(p, k, open, sl, queue)
  BY <1>1, <1>2, <1>5, <1>10, Zenon DEF RouterInv
<1>13. k.i = 0 => k.todo \cup k.done \subseteq Since(k, nsubs)
  BY <1>2, <1>5, <1>6, <1>10, Zenon
<1>14. WorkInv(p, k, typ, open, sl, nsubs, queue)
  BY <1>4, <1>6, <1>8, <1>10, <1>11, <1>12, <1>13, Zenon DEF WorkInv
<1> QED
  BY <1>0, <1>7, <1>14, Zenon DEF Contract

\* The message is written to g, fails to be or is beyond its limit.
LEMMA ContractDeliver ==
  ASSUME StateOK, NEW p \in Pubs, NEW g \in Subs, PubInv(p), deliverMsg(p, g)
  PROVE  Contract(p, pub'[p], typ, open', sl, nsubs, queue)
<1>0. PICK m, k, o, o1 : m = pub[p] /\ k = pub'[p] /\ o = open /\ o1 = open'
  OBVIOUS
<1>1. /\ g \in m.todo /\ m.at = "deliver"
      /\ ~(typ = "ROUTER" /\ ~queue[g] /\ (p \in Routers \/ ~o \/ m.sent))
  BY <1>0, Zenon DEF deliverMsg, Skips, Turn
<1>2. /\ SameMsg(m, k) /\ k.todo = m.todo \ {g} /\ k.sent = (m.sent \/ ~queue[g])
      /\ k.at \in {"deliver", "unsub"}
  BY <1>0, DeliverEffect, Zenon DEF Handled
<1>3. o1 => o
  BY <1>0, DeliverEffect, Zenon DEF CloseSocket
<1>4. \/ k.done = m.done \cup {g} /\ k.missed = m.missed
      \/ k.done = m.done /\ k.missed = m.missed \cup {g}
      \/ k.done = m.done /\ k.missed \subseteq m.missed \cup {g} /\ ~o1
  BY <1>0, DeliverEffect, Zenon
<1>5. MsgInv(p, m, typ, sl, nsubs) /\ WorkInv(p, m, typ, o, sl, nsubs, queue)
  BY <1>0, Zenon DEF PubInv, Contract
<1>6. Delivering(m) /\ Delivering(k) /\ k.at # "direct" /\ m.at # "read"
  BY <1>1, <1>2, Zenon DEF Delivering
<1>7. k.x = m.x /\ k.i = m.i /\ k.start = m.start /\ k.made = m.made
  BY <1>2, Zenon DEF SameMsg
<1>8. Since(k, nsubs) = Since(m, nsubs) /\ Handed(k) \subseteq Handed(m)
  BY <1>1, <1>2, <1>4, <1>7, Zenon DEF Since, Handed
<1>9. o1 => Handed(k) = Handed(m)
  BY <1>1, <1>2, <1>4, Zenon DEF Handed
<1>10. MsgInv(p, k, typ, sl, nsubs)
  BY <1>5, <1>6, <1>7, <1>8, Zenon DEF MsgInv, Fresh
<1>11. /\ PlainInv(m, typ, o, sl, queue) /\ GroupInv(p, m, o, sl, queue)
       /\ (typ = "ROUTER" => RouterInv(p, m, o, sl, queue))
       /\ (m.i = 0 => m.todo \cup m.done \subseteq Since(m, nsubs)) /\ Handed(m) \subseteq 1..nsubs
  BY <1>5, <1>6, Zenon DEF WorkInv
<1>12. PlainInv(k, typ, o1, sl, queue)
  BY <1>3, <1>7, <1>9, <1>11, Zenon DEF PlainInv
<1>13. GroupInv(p, k, o1, sl, queue)
  BY <1>3, <1>7, <1>9, <1>11, Zenon DEF GroupInv
<1>14. (k.sent => m.sent \/ ~queue[g]) /\ (m.sent => k.sent) /\ (~queue[g] => k.sent)
  BY <1>2, Zenon
<1>15. ASSUME typ = "ROUTER"
       PROVE  RouterInv(p, k, o1, sl, queue)
  <2>1. RouterInv(p, m, o, sl, queue)
    BY <1>11, <1>15, Zenon
  <2>2. ~queue[g] => p \notin Routers /\ o /\ ~m.sent
    BY <1>1, <1>15, Zenon
  <2>3. ~queue[g] => \A h \in m.done : queue[h]
    BY <2>1, <2>2, Zenon DEF RouterInv
  <2>4. \A h, f \in k.done : ~queue[h] /\ ~queue[f] => h = f
    BY <1>4, <2>1, <2>3, Zenon DEF RouterInv
  <2>5. (\E h \in k.done : ~queue[h]) => k.sent /\ p \notin Routers
    BY <1>4, <1>14, <2>1, <2>2, Zenon DEF RouterInv
  <2>6. k.sent /\ o1 /\ k.missed = {} => \E h \in k.done : ~queue[h]
    BY <1>3, <1>4, <1>14, <2>1, Zenon DEF RouterInv
  <2>7. p \notin Routers /\ o1 /\ ~k.sent => \A h \in k.start \cap sl : ~queue[h] => h \in k.todo
    BY <1>2, <1>3, <1>7, <1>14, <2>1, Zenon DEF RouterInv
  <2> QED
    BY <2>4, <2>5, <2>6, <2>7, Zenon DEF RouterInv
<1>16. k.i = 0 => k.todo \cup k.done \subseteq Since(k, nsubs)
  BY <1>1, <1>2, <1>4, <1>7, <1>8, <1>11, Zenon
<1>17. WorkInv(p, k, typ, o1, sl, nsubs, queue)
  BY <1>6, <1>8, <1>11, <1>12, <1>13, <1>15, <1>16, Zenon DEF WorkInv
<1> QED
  BY <1>0, <1>10, <1>17, Zenon DEF Contract

\* The subscriber's steps keep the contract of every message.
LEMMA ContractOwn ==
  ASSUME StateOK, ContractInv, StateOK',
         \/ \E i \in Sids, q \in BOOLEAN : processSub(i, q)
         \/ \E i \in Sids, m \in Limits : processUnsub(i, m)
         \/ broadcastSubscribe \/ Unsubscribe \/ BroadcastUnsub \/ closeConnection
         \/ \E g \in Subs : CloseRemoves(g)
  PROVE  ContractInv'
<1>1. typ' = typ /\ pub' = pub
  BY Zenon DEF processSub, processUnsub, broadcastSubscribe, Unsubscribe, BroadcastUnsub,
         closeConnection, CloseRemoves, subs, fields
<1>2. nsubs \in Nat /\ nsubs' \in Nat
  BY DEF StateOK, BaseOK
<1>3. /\ nsubs <= nsubs' /\ sl' \subseteq sl \cup (nsubs + 1)..nsubs' /\ (open' => open)
      /\ \A g \in 1..nsubs : queue'[g] = queue[g]
  <2>1. CASE \E i \in Sids, q \in BOOLEAN : processSub(i, q)
    <3>1. PICK i \in Sids, q \in BOOLEAN : processSub(i, q)
      BY <2>1, Zenon
    <3>2. /\ nsubs' = nsubs + 1 /\ sl' = sl \cup {nsubs + 1}
          /\ \A g \in 1..nsubs : queue'[g] = queue[g]
      BY <3>1, SubEffect, Zenon
    <3>3. open' => open
      BY <3>1, Zenon DEF processSub
    <3>4. nsubs <= nsubs + 1 /\ nsubs + 1 \in (nsubs + 1)..(nsubs + 1)
      BY <1>2
    <3> QED
      BY <3>2, <3>3, <3>4, Zenon
  <2>2. CASE \/ \E i \in Sids, m \in Limits : processUnsub(i, m)
             \/ broadcastSubscribe \/ Unsubscribe \/ BroadcastUnsub \/ closeConnection
             \/ \E g \in Subs : CloseRemoves(g)
    <3>1. nsubs' = nsubs /\ queue' = queue
      BY <2>2, Zenon DEF processUnsub, broadcastSubscribe, Unsubscribe, BroadcastUnsub,
                  closeConnection, CloseRemoves, subs, fields
    <3>2. open' => open
      BY <2>2, Zenon DEF processUnsub, broadcastSubscribe, Unsubscribe, BroadcastUnsub,
                  closeConnection, CloseSocket, CloseRemoves
    <3>3. sl' \subseteq sl
      <4>1. CASE Unsubscribe
        BY <4>1, UnsubscribeEffect, Zenon DEF Unsubscribe
      <4>2. CASE \E g \in Subs : CloseRemoves(g)
        BY <4>2, Zenon DEF CloseRemoves, Remove
      <4>3. CASE \/ \E i \in Sids, m \in Limits : processUnsub(i, m)
                 \/ broadcastSubscribe \/ BroadcastUnsub \/ closeConnection
        BY <4>3, Zenon DEF processUnsub, broadcastSubscribe, BroadcastUnsub, closeConnection, subs
      <4> QED
        BY <2>2, <4>1, <4>2, <4>3, Zenon
    <3>4. nsubs <= nsubs
      BY <1>2
    <3> QED
      BY <3>1, <3>2, <3>3, <3>4, Zenon
  <2> QED
    BY <2>1, <2>2, Zenon
<1> SUFFICES ASSUME NEW p \in Pubs PROVE PubInv(p)'
  BY Zenon DEF ContractInv
<1>4. PubInv(p)
  BY Zenon DEF ContractInv
<1>5. Contract(p, pub[p], typ', open', sl', nsubs', queue')
  BY <1>1, <1>2, <1>3, <1>4, ContractFrame, Zenon
<1>6. Contract(p, pub'[p], typ', open', sl', nsubs', queue')
  BY <1>1, <1>5, Zenon
<1> QED
  BY <1>6, PubInvNext, Zenon

\* A message begins with nothing handed out.
LEMMA StartedFresh ==
  ASSUME StateOK, NEW p, NEW x \in Subjects, NEW i \in Sids \cup {0},
         i # 0 => p \in Routers /\ typ = "CLIENT"
  PROVE  /\ Fresh(p, Started(x, i), typ, sl, nsubs) /\ Handed(Started(x, i)) = {}
         /\ ~Started(x, i).sent
<1>1. PICK m : m = Started(x, i)
  OBVIOUS
<1>2. /\ m.x = x /\ m.i = i /\ m.start = Of(x) /\ m.todo = {} /\ ~m.sent
      /\ m.done = {} /\ m.missed = {}
  BY <1>1, StartedFields, Zenon
<1>3. m.made = nsubs
  BY <1>1, StartedMade, Zenon
<1>4. Of(x) \subseteq 1..nsubs
  BY OfSubs, Zenon
<1>5. Handed(m) = {}
  BY <1>2, Zenon DEF Handed
<1>6. Fresh(p, m, typ, sl, nsubs)
  BY <1>2, <1>3, <1>4, Zenon DEF Fresh, Since, Of
<1> QED
  BY <1>1, <1>2, <1>5, <1>6, Zenon

\* The steps of a publisher keep the contract of its message and of the others'.
LEMMA ContractPub ==
  ASSUME StateOK, CachesOK, ContractInv, NEW p \in Pubs, PubNext(p),
         pub[p].at = "direct" => pub[p].i \in Sids
  PROVE  ContractInv'
<1>1. typ' = typ /\ nsubs' = nsubs /\ queue' = queue /\ PubInv(p) /\ nsubs \in Nat
  BY PubFrame, PubParts, Zenon DEF ContractInv
<1>2. MsgInv(p, pub[p], typ, sl, nsubs) /\ WorkInv(p, pub[p], typ, open, sl, nsubs, queue)
  BY <1>1, Zenon DEF PubInv, Contract
<1>3. ASSUME Others(p), sl' \subseteq sl, open' => open,
             Contract(p, pub'[p], typ', open', sl', nsubs', queue')
      PROVE  ContractInv'
  <2>1. PubInv(p)'
    BY <1>3, PubInvNext, Zenon
  <2>2. ASSUME NEW r \in Pubs, r # p
        PROVE  PubInv(r)'
    <3>1. PubInv(r) /\ nsubs' \in Nat
      BY <1>1, Zenon DEF ContractInv
    <3>2. nsubs <= nsubs'
      BY <1>1
    <3>3. Contract(r, pub[r], typ', open', sl', nsubs', queue')
      BY <1>1, <1>3, <3>1, <3>2, ContractFrame, Zenon
    <3>4. Contract(r, pub'[r], typ', open', sl', nsubs', queue')
      BY <1>3, <2>2, <3>3, Zenon DEF Others
    <3> QED
      BY <3>4, PubInvNext, Zenon
  <2> QED
    BY <2>1, <2>2, Zenon DEF ContractInv
<1>4. ASSUME Others(p), sl' = sl, open' = open,
             Contract(p, pub'[p], typ, open, sl, nsubs, queue)
      PROVE  ContractInv'
  <2>1. Contract(p, pub'[p], typ', open', sl', nsubs', queue')
    BY <1>1, <1>4, Zenon
  <2> QED
    BY <1>3, <1>4, <2>1, OpenSame, Zenon
<1>5. ASSUME NEW x \in Subjects, NEW i \in Sids \cup {0},
             i # 0 => p \in Routers /\ typ = "CLIENT", processMsg(p, x, i)
      PROVE  ContractInv'
  <2>1. sl' = sl /\ open' = open
    BY <1>5, Zenon DEF processMsg, subs
  <2>2. MsgOutcome(p, x, i)
    BY <1>5, MsgEffect, Zenon
  <2>3. /\ Fresh(p, Started(x, i), typ, sl, nsubs) /\ Handed(Started(x, i)) = {}
        /\ ~Started(x, i).sent
    BY <1>5, StartedFresh, Zenon
  <2>4. /\ Started(x, i) \in PubState /\ Started(x, i).x = x
    BY StartedFields, Zenon
  <2>5. CASE pub' = pub
    <3>1. Others(p) /\ pub'[p] = pub[p]
      BY <2>5, Zenon DEF Others, StateOK, PubsOK
    <3> QED
      BY <1>1, <1>4, <2>1, <3>1, Zenon DEF PubInv
  <2>6. CASE Fanout(p, Started(x, i), Of(x))
    <3>1. Of(x) \in SUBSET Subs
      BY OfSubs, Zenon
    <3>2. PICK m \in PubState : m = Started(x, i)
      BY <2>4, Zenon
    <3>3. /\ Others(p) /\ SameMsg(m, pub'[p])
          /\ pub'[p].sent = m.sent /\ pub'[p].done = m.done /\ pub'[p].missed = m.missed
          /\ Fanned(p, m, Of(x))
      BY <2>6, <3>1, <3>2, FanoutEffect, Zenon
    <3>4. Fanned(p, m, Of(m.x)) /\ Fresh(p, m, typ, sl, nsubs) /\ Handed(m) = {} /\ ~m.sent
      BY <2>3, <2>4, <3>2, <3>3, Zenon
    <3>5. Contract(p, pub'[p], typ, open, sl, nsubs, queue)
      BY <3>3, <3>4, ContractFanout, Zenon
    <3> QED
      BY <1>4, <2>1, <3>3, <3>5, Zenon
  <2>7. CASE pub' = [pub EXCEPT ![p] = [Started(x, i) EXCEPT !.at = "match"]]
    <3>0. PICK m, k : m = Started(x, i) /\ k = pub'[p]
      OBVIOUS
    <3>1. /\ Others(p) /\ k.at = "match" /\ SameMsg(m, k) /\ SameWork(m, k)
      BY <2>7, <3>0, MatchStarted, Zenon
    <3>2. ~Delivering(k) /\ k.at # "direct"
      BY <3>1, Zenon DEF Delivering
    <3>3. Fresh(p, k, typ, sl, nsubs)
      BY <2>3, <3>0, <3>1, Zenon DEF Fresh, Since, SameMsg
    <3>4. Handed(k) = {} /\ ~k.sent
      BY <2>3, <3>0, <3>1, Zenon DEF Handed, SameWork
    <3>5. Contract(p, k, typ, open, sl, nsubs, queue)
      BY <3>2, <3>3, <3>4, Zenon DEF Contract, MsgInv, WorkInv
    <3> QED
      BY <1>4, <2>1, <3>0, <3>1, <3>5, Zenon
  <2> QED
    BY <2>2, <2>5, <2>6, <2>7, Zenon DEF MsgOutcome
<1>6. ASSUME Match(p)
      PROVE  ContractInv'
  <2>1. sl' = sl /\ open' = open /\ pub[p].at = "match"
    BY <1>6, Zenon DEF Match, subs
  <2>2. PICK m \in PubState : m = pub[p]
    BY PubParts, Zenon
  <2>3. Fanout(p, m, Of(m.x)) /\ Of(m.x) \in SUBSET Subs
    BY <1>6, <2>2, MatchEffect, OfSubs, Zenon
  <2>4. /\ Others(p) /\ SameMsg(m, pub'[p])
        /\ pub'[p].sent = m.sent /\ pub'[p].done = m.done /\ pub'[p].missed = m.missed
        /\ Fanned(p, m, Of(m.x))
    BY <2>3, FanoutEffect, Zenon
  <2>5. m.at # "read" /\ ~Delivering(m)
    BY <2>1, <2>2, Zenon DEF Delivering
  <2>6. Fresh(p, m, typ, sl, nsubs) /\ Handed(m) = {} /\ ~m.sent
    BY <1>2, <2>2, <2>5, Zenon DEF MsgInv, WorkInv
  <2>7. Contract(p, pub'[p], typ, open, sl, nsubs, queue)
    BY <2>4, <2>6, ContractFanout, Zenon
  <2> QED
    BY <1>4, <2>1, <2>4, <2>7, Zenon
<1>7. ASSUME RouteSidQueueSubscriber(p)
      PROVE  ContractInv'
  <2>1. sl' = sl /\ open' = open /\ pub[p].at = "direct" /\ pub[p].i \in Sids
    BY <1>7, Zenon DEF RouteSidQueueSubscriber, subs
  <2>2. PICK m, k : m = pub[p] /\ k = pub'[p]
    OBVIOUS
  <2>3. /\ Others(p) /\ SameMsg(m, k) /\ k.at = "deliver" /\ k.todo = {csubs[m.i]} \ {0}
        /\ k.done = m.done /\ k.missed = m.missed
    BY <1>7, <2>1, <2>2, DirectEffect, Zenon
  <2>4. m.at = "direct" /\ m.at # "read" /\ ~Delivering(m) /\ Delivering(k) /\ k.at # "direct"
    BY <2>1, <2>2, <2>3, Zenon DEF Delivering
  <2>5. Fresh(p, m, typ, sl, nsubs) /\ Handed(m) = {} /\ m.i # 0
    BY <1>2, <2>2, <2>4, Zenon DEF MsgInv, WorkInv
  <2>6. Fresh(p, k, typ, sl, nsubs) /\ k.i # 0
    BY <2>3, <2>5, Zenon DEF Fresh, Since, SameMsg
  <2>7. p \in Routers /\ typ = "CLIENT"
    BY <2>6, Zenon DEF Fresh
  <2>8. typ # "ROUTER"
    BY <2>7, Zenon
  <2>9. Handed(k) \subseteq 1..nsubs
    <3>1. k.todo \subseteq 1..nsubs
      BY <2>1, <2>2, <2>3, ClientSub, Zenon
    <3> QED
      BY <2>3, <2>5, <3>1, Zenon DEF Handed
  <2>10. PlainInv(k, typ, open, sl, queue) /\ GroupInv(p, k, open, sl, queue)
    BY <2>6, <2>7, Zenon DEF PlainInv, GroupInv
  <2>11. Contract(p, k, typ, open, sl, nsubs, queue)
    BY <2>4, <2>6, <2>8, <2>9, <2>10, Zenon DEF Contract, MsgInv, WorkInv
  <2> QED
    BY <1>4, <2>1, <2>2, <2>3, <2>11, Zenon
<1>8. ASSUME NEW g \in Subs, Skip(p, g)
      PROVE  ContractInv'
  <2>1. sl' = sl /\ open' = open
    BY <1>8, Zenon DEF Skip, subs
  <2> QED
    BY <1>1, <1>4, <1>8, <2>1, ContractSkip, SkipEffect, Zenon
<1>9. ASSUME NEW g \in Subs, deliverMsg(p, g)
      PROVE  ContractInv'
  <2>1. sl' = sl
    BY <1>9, Zenon DEF deliverMsg
  <2>2. Others(p)
    BY <1>9, DeliverEffect, Zenon DEF Handled
  <2>3. open' => open
    BY <1>9, DeliverEffect, Zenon DEF CloseSocket
  <2>4. Contract(p, pub'[p], typ, open', sl, nsubs, queue)
    BY <1>1, <1>9, ContractDeliver, Zenon
  <2>5. Contract(p, pub'[p], typ', open', sl', nsubs', queue')
    BY <1>1, <2>1, <2>4, Zenon
  <2> QED
    BY <1>3, <2>1, <2>2, <2>3, <2>5, Zenon
<1>10. ASSUME AutoUnsubscribe(p) \/ AutoBroadcast(p)
       PROVE  ContractInv'
  <2>1. /\ sl' \subseteq sl /\ open' = open
    <3>1. CASE AutoUnsubscribe(p)
      BY <3>1, UnsubscribeEffect, Zenon DEF AutoUnsubscribe
    <3>2. CASE AutoBroadcast(p)
      BY <3>2, Zenon DEF AutoBroadcast, subs
    <3> QED
      BY <1>10, <3>1, <3>2, Zenon
  <2>2. PICK m, k : m = pub[p] /\ k = pub'[p]
    OBVIOUS
  <2>3. /\ Others(p) /\ SameMsg(m, k) /\ SameWork(m, k)
        /\ k.at \in {"deliver", "broadcastUnsub"}
    <3>1. CASE AutoUnsubscribe(p)
      BY <2>2, <3>1, AutoEffect, Zenon
    <3>2. CASE AutoBroadcast(p)
      BY <2>2, <3>2, BroadcastEffect, Zenon
    <3> QED
      BY <1>10, <3>1, <3>2, Zenon
  <2>4. Delivering(m) /\ Delivering(k)
    <3>1. m.at \in {"unsub", "broadcastUnsub"}
      BY <1>10, <2>2, Zenon DEF AutoUnsubscribe, AutoBroadcast
    <3> QED
      BY <2>3, <3>1, Zenon DEF Delivering
  <2>5. nsubs <= nsubs' /\ nsubs' \in Nat
    BY <1>1
  <2>6. Contract(p, m, typ', open', sl', nsubs', queue')
    BY <1>1, <2>1, <2>2, <2>5, OpenSame, ContractFrame, Zenon
  <2>7. Contract(p, k, typ', open', sl', nsubs', queue')
    BY <2>3, <2>4, <2>6, ContractPhase, Zenon
  <2> QED
    BY <1>3, <2>1, <2>2, <2>3, <2>7, OpenSame, Zenon
<1>11. ASSUME ReadNext(p)
       PROVE  ContractInv'
  <2>1. sl' = sl /\ open' = open
    BY <1>11, Zenon DEF ReadNext, subs
  <2>2. Others(p) /\ pub'[p] = PubIdle
    BY <1>11, ReadEffect, Zenon
  <2>3. Contract(p, PubIdle, typ, open, sl, nsubs, queue)
    <3>1. PubIdle.at = "read" /\ PubIdle.at # "direct" /\ ~Delivering(PubIdle)
      BY PubIdleFields, Zenon DEF Delivering
    <3>2. Handed(PubIdle) = {} /\ ~PubIdle.sent
      BY PubIdleFields, Zenon DEF Handed
    <3> QED
      BY <3>1, <3>2, Zenon DEF Contract, MsgInv, WorkInv
  <2> QED
    BY <1>4, <2>1, <2>2, <2>3, Zenon
<1> QED
  BY <1>5, <1>6, <1>7, <1>8, <1>9, <1>10, <1>11, Zenon DEF PubNext

-----------------------------------------------------------------------------
(* Together *)
\* All but the counts.
ServiceInv == StateOK /\ CachesOK /\ TablesInv /\ ContractInv

\* What Init says once the subscription made before is chosen.
Begun(n, i, q) ==
    /\ nsubs = n /\ sl = 1..n /\ genid = n
    /\ sid = [g \in Subs |-> IF g <= n THEN i ELSE 0]
    /\ queue = [g \in Subs |-> g <= n /\ q]
    /\ csubs = [j \in Sids |-> IF n = 1 /\ j = i THEN 1 ELSE 0]
    /\ view = [r \in Rsids |-> IF typ = "CLIENT" /\ n = 1 /\ r = <<i, q>> THEN 1 ELSE 0]

\* Init makes no subscription or one.
LEMMA InitBegun ==
  ASSUME Init
  PROVE  \E n \in {0, 1}, i \in Sids \cup {0}, q \in BOOLEAN : Begun(n, i, q) /\ (n = 1 => i \in Sids)
<1>1. PICK early \in {<<>>} \cup {<<i>> : i \in Sids \ Reused}, q \in BOOLEAN :
         LET n == Len(early) IN
         /\ nsubs = n /\ sl = 1..n /\ genid = n
         /\ sid = [g \in Subs |-> IF g <= n THEN early[g] ELSE 0]
         /\ queue = [g \in Subs |-> g <= n /\ q]
         /\ csubs = [i \in Sids |-> IF n = 1 /\ early = <<i>> THEN 1 ELSE 0]
         /\ view = [r \in Rsids |-> IF typ = "CLIENT" /\ n = 1 /\ r = <<early[1], q>>
                                    THEN 1 ELSE 0]
  BY Zenon DEF Init
<1>2. CASE early = <<>>
  <2>1. Len(early) = 0
    BY <1>2, Zenon
  <2>2. \A g \in Subs : ~(g <= 0)
    BY DEF Subs
  <2>3. 0 # 1
    OBVIOUS
  <2>4. nsubs = 0 /\ sl = 1..0 /\ genid = 0 /\ queue = [g \in Subs |-> g <= 0 /\ q]
    BY <1>1, <2>1
  <2>5. sid = [g \in Subs |-> IF g <= 0 THEN 0 ELSE 0]
    <3>1. sid = [g \in Subs |-> IF g <= 0 THEN early[g] ELSE 0]
      BY <1>1, <2>1, Zenon
    <3> QED
      BY <2>2, <3>1, Zenon
  <2>6. csubs = [j \in Sids |-> IF 0 = 1 /\ j = 0 THEN 1 ELSE 0]
    BY <1>1, <2>1
  <2>7. view = [r \in Rsids |-> IF typ = "CLIENT" /\ 0 = 1 /\ r = <<0, q>> THEN 1 ELSE 0]
    BY <1>1, <2>1, Zenon
  <2>8. Begun(0, 0, q)
    BY <2>4, <2>5, <2>6, <2>7, Zenon DEF Begun
  <2> QED
    BY <2>3, <2>8, Zenon
<1>3. CASE \E i \in Sids : early = <<i>>
  <2>1. PICK i \in Sids : early = <<i>>
    BY <1>3, Zenon
  <2>2. Len(early) = 1 /\ early[1] = i /\ \A j : early = <<j>> <=> j = i
    BY <2>1, Zenon
  <2>3. \A g \in Subs : g <= 1 => g = 1
    BY DEF Subs
  <2>4. sid = [g \in Subs |-> IF g <= 1 THEN i ELSE 0]
    BY <1>1, <2>2, <2>3, Zenon
  <2>5. csubs = [j \in Sids |-> IF 1 = 1 /\ j = i THEN 1 ELSE 0]
    BY <1>1, <2>2, Zenon
  <2>6. /\ nsubs = 1 /\ sl = 1..1 /\ genid = 1 /\ queue = [g \in Subs |-> g <= 1 /\ q]
        /\ view = [r \in Rsids |-> IF typ = "CLIENT" /\ 1 = 1 /\ r = <<i, q>> THEN 1 ELSE 0]
    BY <1>1, <2>2, Zenon
  <2>7. Begun(1, i, q)
    BY <2>4, <2>5, <2>6, Zenon DEF Begun
  <2> QED
    BY <2>7, Zenon
<1> QED
  BY <1>1, <1>2, <1>3, Zenon

\* The tables, caches and messages are right at first.
LEMMA InitService == Init => ServiceInv
<1> SUFFICES ASSUME Init PROVE ServiceInv
  OBVIOUS
<1>1. PICK n \in {0, 1}, i \in Sids \cup {0}, q \in BOOLEAN : Begun(n, i, q) /\ (n = 1 => i \in Sids)
  BY InitBegun, Zenon
<1>2. /\ typ \in {"CLIENT", "ROUTER"} /\ open = TRUE /\ me = Idle /\ closing = {} /\ stale = {}
      /\ nm = [g \in Subs |-> 0] /\ max = [g \in Subs |-> 0] /\ got = [g \in Subs |-> 0]
      /\ limit = [g \in Subs |-> Unlimited] /\ pub = [p \in Pubs |-> PubIdle] /\ msgs = 0
      /\ cache = [p \in Pubs |-> [genid |-> 0, results |-> <<>>]]
  BY Zenon DEF Init
<1>3. /\ nsubs = n /\ sl = 1..n /\ genid = n /\ n \in Nat /\ n \in 0..MaxSubs
      /\ 0 \in 0..n /\ MaxMsgs \in Nat /\ Unlimited \in Nat /\ 0 \in 0..MaxMsgs
      /\ 0 \in Nat
  BY <1>1, DeliveryAssumption DEF Begun, Unlimited
<1>4. \A p \in Pubs : pub[p] = PubIdle
  BY <1>2, Zenon
<1>5. StateOK
  <2>1. csubs \in [Sids -> 0..n]
    <3>1. \A j \in Sids : n = 1 => 1 \in 0..n
      OBVIOUS
    <3> QED
      BY <1>1, <1>3, <3>1, Zenon DEF Begun
  <2>2. sid \in [Subs -> Sids \cup {0}]
    <3>1. \A g \in Subs : g <= n => n = 1
      BY <1>1 DEF Subs
    <3> QED
      BY <1>1, <3>1, Zenon DEF Begun
  <2>3. queue \in [Subs -> BOOLEAN]
    BY <1>1, Zenon DEF Begun
  <2>4. /\ nm \in [Subs -> Nat] /\ max \in [Subs -> Nat] /\ got \in [Subs -> Nat]
        /\ limit \in [Subs -> Nat]
    BY <1>2, <1>3, Zenon
  <2>5. me \in MeState(nsubs)
    BY <1>2, <1>3, IdleState, Zenon
  <2>6. open \in BOOLEAN
    BY <1>2, Zenon
  <2>7. BaseOK
    BY <1>2, <1>3, <2>1, <2>2, <2>3, <2>4, <2>5, <2>6, Zenon DEF BaseOK
  <2>8. pub \in [Pubs -> PubState]
    BY <1>2, PubIdleFields, Zenon
  <2>9. \A p \in Pubs : pub[p].g = 0 /\ pub[p].made = 0 /\ pub[p].todo = {}
    BY <1>4, PubIdleFields, Zenon
  <2>10. 0 <= nsubs
    BY <1>3
  <2>11. PubsOK
    BY <2>8, <2>9, <2>10, Zenon DEF PubsOK
  <2> QED
    BY <2>7, <2>11, Zenon DEF StateOK
<1>6. CachesOK
  <2>1. \A p \in Pubs : cache[p] = [genid |-> 0, results |-> <<>>]
    BY <1>2, Zenon
  <2>2. \A p \in Pubs : cache[p].genid = 0 /\ cache[p].results = <<>>
    BY <2>1
  <2>3. CacheOK
    BY <1>2, <1>3, <2>1, <2>2, Zenon DEF CacheOK
  <2>4. 0 <= genid /\ DOMAIN <<>> = {}
    BY <1>3
  <2>5. \A p \in Pubs : CacheInv(p)
    BY <2>2, <2>4, Zenon DEF CacheInv
  <2> QED
    BY <2>3, <2>5, Zenon DEF CachesOK
<1>7. TableInv
  <2>1. \A g \in 1..n : n = 1 /\ g = 1 /\ g <= n /\ g \in Subs
    BY <1>1, <1>3 DEF Subs
  <2>2. \A g \in 1..nsubs : sid[g] = i /\ i \in Sids
    BY <1>1, <1>3, <2>1, Zenon DEF Begun
  <2>3. 1 # 0 /\ 0 # 1 /\ (n = 1 => 1 \in 1..n)
    OBVIOUS
  <2>4. ClientSubs = sl
    BY <1>1, <1>3, <2>1, <2>3, Zenon DEF ClientSubs, Begun
  <2>5. \A j \in Sids : csubs[j] # 0 => sid[csubs[j]] = j
    <3>1. \A j \in Sids : csubs[j] # 0 => j = i /\ csubs[j] = 1 /\ n = 1
      BY <1>1, Zenon DEF Begun
    <3> QED
      BY <1>3, <2>2, <2>3, <3>1, Zenon
  <2> QED
    BY <1>2, <2>2, <2>4, <2>5, Zenon DEF TableInv
<1>8. TurnsInv
  <2>1. me.at = "read" /\ \A p \in Pubs : pub[p].at = "read"
    BY <1>2, <1>4, IdleState, PubIdleFields, Zenon
  <2>2. \A g \in Subs : max[g] = 0
    BY <1>2, Zenon
  <2>3. sl = 1..nsubs
    BY <1>3, Zenon
  <2> QED
    BY <2>1, <2>2, <2>3, Zenon DEF TurnsInv
<1>9. RouteInv
  <2>1. view = [r \in Rsids |-> view[r]]
    BY <1>1, Zenon DEF Begun
  <2>2. ASSUME typ = "CLIENT", NEW r \in Rsids
        PROVE  Agree(r)
    <3>1. view[r] # 0 <=> n = 1 /\ r = <<i, q>>
      BY <1>1, <2>2 DEF Begun
    <3>2. \A g \in 1..n : n = 1 /\ g = 1 /\ g <= n /\ g \in Subs
      BY <1>1, <1>3 DEF Subs
    <3>3. \A g \in 1..n : sid[g] = i /\ queue[g] = q
      BY <1>1, <3>2, Zenon DEF Begun
    <3>4. n = 1 => 1 \in 1..n
      OBVIOUS
    <3>5. Present(r) <=> n = 1 /\ r = <<i, q>>
      BY <1>3, <3>2, <3>3, <3>4, Zenon DEF Present, routeSid
    <3> QED
      BY <3>1, <3>5, Zenon DEF Agree
  <2> QED
    BY <2>1, <2>2, Zenon DEF RouteInv
<1>10. ContractInv
  <2>1. ASSUME NEW p \in Pubs PROVE Contract(p, PubIdle, typ, open, sl, nsubs, queue)
    <3>1. PubIdle.at = "read" /\ PubIdle.at # "direct" /\ ~Delivering(PubIdle)
      BY PubIdleFields, Zenon DEF Delivering
    <3>2. Handed(PubIdle) = {} /\ ~PubIdle.sent
      BY PubIdleFields, Zenon DEF Handed
    <3> QED
      BY <3>1, <3>2, Zenon DEF Contract, MsgInv, WorkInv
  <2> QED
    BY <1>4, <2>1, Zenon DEF ContractInv, PubInv
<1> QED
  BY <1>5, <1>6, <1>7, <1>8, <1>9, <1>10, Zenon DEF ServiceInv, TablesInv

\* They stay so when nothing happens.
LEMMA StutterService ==
  ASSUME ServiceInv, UNCHANGED vars
  PROVE  ServiceInv'
<1>1. /\ typ' = typ /\ sl' = sl /\ genid' = genid /\ nsubs' = nsubs /\ sid' = sid
      /\ queue' = queue /\ nm' = nm /\ max' = max /\ csubs' = csubs /\ open' = open /\ me' = me
      /\ closing' = closing /\ cache' = cache /\ pub' = pub /\ view' = view /\ msgs' = msgs
      /\ got' = got /\ limit' = limit /\ stale' = stale /\ raced' = raced
  BY Zenon DEF vars
<1>2. StateOK /\ CachesOK /\ TablesInv /\ ContractInv
  BY Zenon DEF ServiceInv
<1>3. StateOK'
  BY <1>1, <1>2, Zenon DEF StateOK, BaseOK, PubsOK
<1>4. CachesOK'
  BY <1>1, <1>2, CacheGeneration, Zenon DEF Generation
<1>5. TableInv'
  BY <1>1, <1>2, TableSame, Zenon DEF TablesInv
<1>6. TurnsInv'
  <2>1. \A g : SendsMax(g)' = SendsMax(g)
    BY <1>1, SendsMaxSame, Zenon
  <2> QED
    BY <1>1, <1>2, <2>1, Zenon DEF TablesInv, TurnsInv
<1>7. RouteInv'
  BY <1>1, <1>2, Zenon DEF TablesInv, RouteInv, Awaited, Agree, Present, routeSid
<1>8. ContractInv'
  <2> SUFFICES ASSUME NEW p \in Pubs PROVE PubInv(p)'
    BY Zenon DEF ContractInv
  <2>1. Contract(p, pub'[p], typ', open', sl', nsubs', queue')
    BY <1>1, <1>2, Zenon DEF ContractInv, PubInv
  <2> QED
    BY <2>1, PubInvNext, Zenon
<1> QED
  BY <1>3, <1>4, <1>5, <1>6, <1>7, <1>8, Zenon DEF ServiceInv, TablesInv

\* A message on its way to one queue subscription names its sid.
LEMMA DirectSid ==
  ASSUME StateOK, ContractInv, NEW p \in Pubs
  PROVE  pub[p].at = "direct" => pub[p].i \in Sids
<1>1. pub[p].at = "direct" => pub[p].i # 0
  BY Zenon DEF ContractInv, PubInv, Contract, MsgInv
<1>2. pub[p].i \in Sids \cup {0}
  BY PubParts, Zenon DEF PubState
<1> QED
  BY <1>1, <1>2, Zenon

\* Every step keeps them so.
LEMMA NextService ==
  ASSUME ServiceInv, Next
  PROVE  ServiceInv'
<1>1. StateOK /\ CachesOK /\ TablesInv /\ ContractInv
  BY Zenon DEF ServiceInv
<1>2. TableInv /\ TurnsInv /\ RouteInv
  BY <1>1, Zenon DEF TablesInv
<1>3. ASSUME NEW i \in Sids, NEW q \in BOOLEAN, processSub(i, q)
      PROVE  ServiceInv'
  <2>1. StateOK' /\ Generation /\ cache' = cache
    BY <1>1, <1>3, SubEffect, Zenon
  <2>2. CachesOK'
    BY <1>1, <2>1, CacheGeneration, Zenon
  <2>3. TableInv'
    BY <1>1, <1>2, <1>3, TableSub, Zenon
  <2>4. TurnsInv' /\ RouteInv'
    BY <1>1, <1>2, <1>3, RouteSub, Zenon
  <2>5. ContractInv'
    BY <1>1, <1>3, <2>1, ContractOwn, Zenon
  <2> QED
    BY <2>1, <2>2, <2>3, <2>4, <2>5, Zenon DEF ServiceInv, TablesInv
<1>4. ASSUME \/ \E i \in Sids, m \in Limits : processUnsub(i, m)
             \/ broadcastSubscribe \/ Unsubscribe \/ BroadcastUnsub \/ closeConnection
             \/ \E g \in Subs : CloseRemoves(g)
      PROVE  ServiceInv'
  <2>1. StateOK' /\ Generation /\ cache' = cache
    BY <1>1, <1>4, OwnSteps, Zenon
  <2>2. CachesOK'
    BY <1>1, <2>1, CacheGeneration, Zenon
  <2>3. TablesInv'
    BY <1>1, <1>2, <1>4, RouteOwn, Zenon
  <2>4. ContractInv'
    BY <1>1, <1>4, <2>1, ContractOwn, Zenon
  <2> QED
    BY <2>1, <2>2, <2>3, <2>4, Zenon DEF ServiceInv
<1>5. ASSUME NEW p \in Pubs, PubNext(p)
      PROVE  ServiceInv'
  <2>1. pub[p].at = "direct" => pub[p].i \in Sids
    BY <1>1, DirectSid, Zenon
  <2>2. StateOK' /\ CachesOK'
    BY <1>1, <1>5, <2>1, PubTypes, Zenon
  <2>3. TablesInv'
    BY <1>1, <1>5, <2>1, RoutePub, Zenon
  <2>4. ContractInv'
    BY <1>1, <1>5, <2>1, ContractPub, Zenon
  <2> QED
    BY <2>2, <2>3, <2>4, Zenon DEF ServiceInv
<1>6. \A g \in 1..nsubs : sid[g] \in Sids
  BY <1>2, Zenon DEF TableInv
<1> QED
  BY <1>1, <1>3, <1>4, <1>5, <1>6, NextSplit, Zenon

-----------------------------------------------------------------------------
(* The counts *)

\* What the counts need to know of finite sets.
FiniteFacts ==
  /\ Cardinality({}) = 0 /\ \A x : Cardinality({x}) = 1
  /\ \A T : IsFiniteSet(T) => Cardinality(T) \in Nat
  /\ \A S, T : IsFiniteSet(T) /\ S \subseteq T => IsFiniteSet(S) /\ Cardinality(S) <= Cardinality(T)
  /\ \A S, x : IsFiniteSet(S) =>
       IsFiniteSet(S \cup {x}) /\ Cardinality(S \cup {x}) <= Cardinality(S) + 1
  /\ \A S, x : IsFiniteSet(S) /\ x \in S =>
       IsFiniteSet(S \ {x}) /\ Cardinality(S \ {x}) + 1 = Cardinality(S)

\* The publishers that may still write a message to g.
Pending(g) == {p \in Pubs : pub[p].at \in {"match", "direct"} \/ g \in pub[p].todo}

\* Each of the messages raises the count of g at most once, and n publishers may still
\* raise it; no more were written to g than counted, nor than its limit, which is the
\* max or, if more had been counted by then, that count.
CountOK(g, n) ==
    /\ nm[g] + n <= msgs
    /\ got[g] <= nm[g] /\ got[g] <= limit[g]
    /\ (max[g] > 0 => max[g] <= limit[g])
    /\ (max[g] = 0 => limit[g] = Unlimited)

\* The counts of all subscriptions.
CountInv == \A g \in Subs : CountOK(g, Cardinality(Pending(g)))

\* The counts are numbers.
LEMMA CountTypes ==
  ASSUME StateOK, NEW g \in Subs
  PROVE  /\ nm[g] \in Nat /\ max[g] \in Nat /\ got[g] \in Nat /\ limit[g] \in Nat
         /\ msgs \in Nat /\ msgs <= MaxMsgs /\ MaxMsgs \in Nat
<1>1. msgs \in 0..MaxMsgs /\ MaxMsgs \in Nat
  BY DeliveryAssumption, Zenon DEF StateOK, BaseOK
<1>2. msgs \in Nat /\ msgs <= MaxMsgs
  BY <1>1
<1> QED
  BY <1>1, <1>2, Zenon DEF StateOK, BaseOK

\* There are finitely many publishers.
LEMMA PendingFinite ==
  ASSUME FiniteFacts, NEW g
  PROVE  IsFiniteSet(Pending(g)) /\ Cardinality(Pending(g)) \in Nat
<1>1. Pending(g) \subseteq Pubs /\ IsFiniteSet(Pubs)
  BY DeliveryAssumption, Zenon DEF Pending
<1> QED
  BY <1>1, Zenon DEF FiniteFacts

\* The number of publishers that may still write does not grow with the set.
LEMMA PendingMono ==
  ASSUME FiniteFacts, NEW g, Pending(g)' \subseteq Pending(g)
  PROVE  Cardinality(Pending(g))' <= Cardinality(Pending(g)) /\ Cardinality(Pending(g))' \in Nat
<1>1. IsFiniteSet(Pending(g))
  BY PendingFinite, Zenon
<1>2. /\ IsFiniteSet(Pending(g)') /\ Cardinality(Pending(g)') <= Cardinality(Pending(g))
  BY <1>1, Zenon DEF FiniteFacts
<1>3. Cardinality(Pending(g)') \in Nat
  BY <1>2, Zenon DEF FiniteFacts
<1> QED
  BY <1>2, <1>3, Zenon

\* A publisher that begins with a message adds at most one.
LEMMA PendingAdd ==
  ASSUME FiniteFacts, NEW g, NEW p, Pending(g)' \subseteq Pending(g) \cup {p}
  PROVE  Cardinality(Pending(g))' <= Cardinality(Pending(g)) + 1 /\ Cardinality(Pending(g))' \in Nat
<1>1. IsFiniteSet(Pending(g)) /\ Cardinality(Pending(g)) \in Nat
  BY PendingFinite, Zenon
<1> DEFINE T == Pending(g) \cup {p}
<1>2. IsFiniteSet(T) /\ Cardinality(T) <= Cardinality(Pending(g)) + 1
  BY <1>1, Zenon DEF FiniteFacts
<1>3. Pending(g)' \subseteq T
  OBVIOUS
<1> HIDE DEF T
<1>4. IsFiniteSet(Pending(g)') /\ Cardinality(Pending(g)') <= Cardinality(T)
  BY <1>2, <1>3, Zenon DEF FiniteFacts
<1>5. Cardinality(Pending(g)') \in Nat /\ Cardinality(T) \in Nat
  BY <1>2, <1>4, Zenon DEF FiniteFacts
<1>6. Cardinality(Pending(g)') <= Cardinality(Pending(g)) + 1
  BY <1>1, <1>2, <1>4, <1>5, AtMostOneMore, Zenon
<1> QED
  BY <1>5, <1>6, Zenon

\* One whose turn with g is over takes one away.
LEMMA PendingDrop ==
  ASSUME FiniteFacts, NEW g, NEW p \in Pending(g), Pending(g)' \subseteq Pending(g) \ {p}
  PROVE  Cardinality(Pending(g))' + 1 <= Cardinality(Pending(g)) /\ Cardinality(Pending(g))' \in Nat
<1>1. IsFiniteSet(Pending(g)) /\ Cardinality(Pending(g)) \in Nat
  BY PendingFinite, Zenon
<1> DEFINE T == Pending(g) \ {p}
<1>2. IsFiniteSet(T) /\ Cardinality(T) + 1 = Cardinality(Pending(g))
  BY <1>1, Zenon DEF FiniteFacts
<1>3. Pending(g)' \subseteq T
  OBVIOUS
<1> HIDE DEF T
<1>4. IsFiniteSet(Pending(g)') /\ Cardinality(Pending(g)') <= Cardinality(T)
  BY <1>2, <1>3, Zenon DEF FiniteFacts
<1>5. Cardinality(Pending(g)') \in Nat /\ Cardinality(T) \in Nat
  BY <1>2, <1>4, Zenon DEF FiniteFacts
<1>6. Cardinality(Pending(g)') + 1 <= Cardinality(Pending(g))
  BY <1>1, <1>2, <1>4, <1>5, AtLeastOneLess, Zenon
<1> QED
  BY <1>5, <1>6, Zenon

\* Steps that count nothing.
LEMMA CountSame ==
  ASSUME FiniteFacts, StateOK, CountInv, nm' = nm, max' = max, got' = got, limit' = limit, msgs' = msgs,
         \A g \in Subs : Pending(g)' \subseteq Pending(g)
  PROVE  CountInv'
<1> SUFFICES ASSUME NEW g \in Subs
             PROVE  CountOK(g, Cardinality(Pending(g)))'
  BY Zenon DEF CountInv
<1>1. /\ Cardinality(Pending(g))' <= Cardinality(Pending(g))
      /\ Cardinality(Pending(g))' \in Nat /\ Cardinality(Pending(g)) \in Nat
  BY PendingMono, PendingFinite, Zenon
<1>2. CountOK(g, Cardinality(Pending(g)))
  BY Zenon DEF CountInv
<1>3. nm[g] + Cardinality(Pending(g))' <= msgs
  <2>1. nm[g] + Cardinality(Pending(g)) <= msgs
    BY <1>2, Zenon DEF CountOK
  <2> QED
    BY <1>1, <2>1, CountTypes, SumLess, Zenon
<1> QED
  BY <1>2, <1>3, Zenon DEF CountOK

\* The subscriber's steps keep the counts: an UNSUB whose max is below the count
\* puts the limit where the count is.
LEMMA CountOwn ==
  ASSUME FiniteFacts, StateOK, CountInv,
         \/ \E i \in Sids, q \in BOOLEAN : processSub(i, q)
         \/ \E i \in Sids, m \in Limits : processUnsub(i, m)
         \/ broadcastSubscribe \/ Unsubscribe \/ BroadcastUnsub \/ closeConnection
         \/ \E g \in Subs : CloseRemoves(g)
  PROVE  CountInv'
<1>1. pub' = pub /\ nm' = nm /\ got' = got /\ msgs' = msgs
  BY Zenon DEF processSub, processUnsub, broadcastSubscribe, Unsubscribe, BroadcastUnsub,
         closeConnection, CloseRemoves, subs, fields, hist
<1>2. \A g \in Subs : Pending(g)' = Pending(g)
  BY <1>1, Zenon DEF Pending
<1>3. ASSUME NEW i \in Sids, NEW m \in Limits, processUnsub(i, m)
      PROVE  CountInv'
  <2> SUFFICES ASSUME NEW g \in Subs
               PROVE  CountOK(g, Cardinality(Pending(g)))'
    BY Zenon DEF CountInv
  <2>1. CountOK(g, Cardinality(Pending(g))) /\ Cardinality(Pending(g)) \in Nat
    BY PendingFinite, Zenon DEF CountInv
  <2>2. Cardinality(Pending(g))' = Cardinality(Pending(g))
    BY <1>2, Zenon
  <2>3. csubs[i] \in Subs
    BY <1>3, ClientSub, Zenon DEF processUnsub
  <2>4. max \in [Subs -> Nat] /\ limit \in [Subs -> Nat] /\ m \in Nat
    BY DeliveryAssumption, Zenon DEF StateOK, BaseOK
  <2>5. CASE g # csubs[i]
    <3>1. max'[g] = max[g] /\ limit'[g] = limit[g]
      BY <1>3, <2>4, <2>5, Zenon DEF processUnsub
    <3> QED
      BY <1>1, <2>1, <2>2, <3>1, Zenon DEF CountOK
  <2>6. CASE g = csubs[i]
    <3>1. /\ max'[g] = m
          /\ limit'[g] = IF m = 0 THEN Unlimited ELSE IF m > nm[g] THEN m ELSE nm[g]
      BY <1>3, <2>4, <2>6, Zenon DEF processUnsub
    <3>2. /\ nm[g] + Cardinality(Pending(g)) <= msgs /\ got[g] <= nm[g]
      BY <2>1, Zenon DEF CountOK
    <3>3. /\ got[g] <= limit'[g] /\ (m > 0 => m <= limit'[g]) /\ (m = 0 => limit'[g] = Unlimited)
      <4>1. nm[g] <= MaxMsgs
        BY <2>1, <3>2, CountTypes, SumBounds, Zenon
      <4>2. limit'[g] = IF m = 0 THEN MaxMsgs + 1 ELSE IF m > nm[g] THEN m ELSE nm[g]
        BY <3>1, Zenon DEF Unlimited
      <4> QED
        BY <2>4, <3>2, <4>1, <4>2, CountTypes, LimitSet, Zenon DEF Unlimited
    <3> QED
      BY <1>1, <2>2, <3>1, <3>2, <3>3, Zenon DEF CountOK
  <2> QED
    BY <2>5, <2>6, Zenon
<1>4. ASSUME \/ \E i \in Sids, q \in BOOLEAN : processSub(i, q)
             \/ broadcastSubscribe \/ Unsubscribe \/ BroadcastUnsub \/ closeConnection
             \/ \E g \in Subs : CloseRemoves(g)
      PROVE  CountInv'
  <2>1. max' = max /\ limit' = limit
    BY <1>4, Zenon DEF processSub, broadcastSubscribe, Unsubscribe, BroadcastUnsub, closeConnection,
                CloseRemoves, subs, fields, hist
  <2> QED
    BY <1>1, <1>2, <2>1, CountSame, Zenon
<1> QED
  BY <1>3, <1>4, Zenon

\* So do the publishers': one that writes to g counts the message, and beyond the max
\* does not write.
LEMMA CountPub ==
  ASSUME FiniteFacts, StateOK, CachesOK, CountInv, NEW p \in Pubs, PubNext(p),
         pub[p].at = "direct" => pub[p].i \in Sids
  PROVE  CountInv'
<1>1. max' = max /\ limit' = limit
  BY PubFrame, Zenon
<1>2. ASSUME Others(p), nm' = nm, got' = got, msgs' = msgs,
             \A g \in Subs : p \in Pending(g)' => p \in Pending(g)
      PROVE  CountInv'
  <2>1. ASSUME NEW g \in Subs, NEW q \in Pending(g)'
        PROVE  q \in Pending(g)
    <3>1. CASE q = p
      BY <1>2, <2>1, <3>1, Zenon
    <3>2. CASE q # p
      BY <1>2, <2>1, <3>2, Zenon DEF Pending, Others
    <3> QED
      BY <3>1, <3>2, Zenon
  <2> QED
    BY <1>1, <1>2, <2>1, CountSame, Zenon
<1>3. ASSUME NEW x \in Subjects, NEW i \in Sids \cup {0}, processMsg(p, x, i)
      PROVE  CountInv'
  <2>1. nm' = nm /\ got' = got /\ msgs' = msgs + 1
    BY <1>3, Zenon DEF processMsg, subs, hist
  <2>2. MsgOutcome(p, x, i)
    BY <1>3, MsgEffect, Zenon
  <2>3. \A q \in Pubs \ {p} : pub'[q] = pub[q]
    <3>1. CASE Fanout(p, Started(x, i), Of(x))
      <4>1. Started(x, i) \in PubState /\ Of(x) \in SUBSET Subs
        BY StartedFields, OfSubs, Zenon
      <4> QED
        BY <3>1, <4>1, FanoutEffect, Zenon DEF Others
    <3>2. CASE pub' = [pub EXCEPT ![p] = [Started(x, i) EXCEPT !.at = "match"]]
      BY <3>2, MatchStarted, Zenon DEF Others
    <3> QED
      BY <2>2, <3>1, <3>2, Zenon DEF MsgOutcome
  <2>4. \A g \in Subs : Pending(g)' \subseteq Pending(g) \cup {p}
    BY <2>3, Zenon DEF Pending
  <2> SUFFICES ASSUME NEW g \in Subs
               PROVE  CountOK(g, Cardinality(Pending(g)))'
    BY Zenon DEF CountInv
  <2>5. CountOK(g, Cardinality(Pending(g))) /\ Cardinality(Pending(g)) \in Nat
    BY PendingFinite, Zenon DEF CountInv
  <2>6. /\ Cardinality(Pending(g))' <= Cardinality(Pending(g)) + 1
        /\ Cardinality(Pending(g))' \in Nat
    BY <2>4, PendingAdd, Zenon
  <2>7. nm[g] + Cardinality(Pending(g))' <= msgs + 1
    <3>1. nm[g] + Cardinality(Pending(g)) <= msgs
      BY <2>5, Zenon DEF CountOK
    <3> QED
      BY <2>5, <2>6, <3>1, CountTypes, SumMore, Zenon
  <2> QED
    BY <1>1, <2>1, <2>5, <2>7, Zenon DEF CountOK
<1>4. ASSUME Match(p) \/ RouteSidQueueSubscriber(p)
      PROVE  CountInv'
  <2>1. nm' = nm /\ got' = got /\ msgs' = msgs /\ pub[p].at \in {"match", "direct"}
    BY <1>4, Zenon DEF Match, RouteSidQueueSubscriber, subs, hist
  <2>2. Others(p)
    <3>1. CASE Match(p)
      <4>1. Fanout(p, pub[p], Of(pub[p].x)) /\ pub[p] \in PubState /\ Of(pub[p].x) \in SUBSET Subs
        BY <3>1, MatchEffect, OfSubs, Zenon DEF StateOK, PubsOK
      <4> QED
        BY <4>1, FanoutEffect, Zenon
    <3>2. CASE RouteSidQueueSubscriber(p)
      <4>1. pub[p].i \in Sids
        BY <3>2, Zenon DEF RouteSidQueueSubscriber
      <4> QED
        BY <3>2, <4>1, DirectEffect, Zenon
    <3> QED
      BY <1>4, <3>1, <3>2, Zenon
  <2>3. \A g \in Subs : p \in Pending(g)
    BY <2>1, Zenon DEF Pending
  <2> QED
    BY <1>2, <2>1, <2>2, <2>3, Zenon
<1>5. ASSUME (\E g \in Subs : Skip(p, g)) \/ AutoUnsubscribe(p) \/ AutoBroadcast(p) \/ ReadNext(p)
      PROVE  CountInv'
  <2>1. nm' = nm /\ got' = got /\ msgs' = msgs
    BY <1>5, Zenon DEF Skip, AutoUnsubscribe, AutoBroadcast, ReadNext, subs, fields, hist
  <2>2. /\ Others(p) /\ pub'[p].todo \subseteq pub[p].todo
        /\ pub'[p].at \in {"read", "deliver", "broadcastUnsub"}
    <3>1. CASE \E g \in Subs : Skip(p, g)
      BY <3>1, SkipEffect, Zenon DEF Skip, Turn
    <3>2. CASE AutoUnsubscribe(p)
      BY <3>2, AutoEffect, Zenon DEF SameWork
    <3>3. CASE AutoBroadcast(p)
      BY <3>3, BroadcastEffect, Zenon DEF SameWork
    <3>4. CASE ReadNext(p)
      BY <3>4, ReadEffect, PubIdleFields, Zenon
    <3> QED
      BY <1>5, <3>1, <3>2, <3>3, <3>4, Zenon
  <2>3. pub'[p].at \notin {"match", "direct"}
    BY <2>2, Zenon
  <2>4. \A g \in Subs : p \in Pending(g)' => p \in Pending(g)
    BY <2>2, <2>3, Zenon DEF Pending
  <2> QED
    BY <1>2, <2>1, <2>2, <2>4, Zenon
<1>6. ASSUME NEW g \in Subs, deliverMsg(p, g)
      PROVE  CountInv'
  <2>1. nm' = [nm EXCEPT ![g] = @ + 1] /\ g \in pub[p].todo /\ msgs' = msgs
    BY <1>6, Zenon DEF deliverMsg, Turn
  <2>2. /\ Handled(p, g)
        /\ (got' = [got EXCEPT ![g] = @ + 1] /\ ~Exceeds(g)) \/ got' = got
    BY <1>6, DeliverEffect, Zenon
  <2>3. Others(p) /\ pub'[p].todo = pub[p].todo \ {g} /\ pub'[p].at \notin {"match", "direct"}
    BY <2>2, Zenon DEF Handled
  <2> SUFFICES ASSUME NEW h \in Subs
               PROVE  CountOK(h, Cardinality(Pending(h)))'
    BY Zenon DEF CountInv
  <2>4. CountOK(h, Cardinality(Pending(h))) /\ Cardinality(Pending(h)) \in Nat
    BY PendingFinite, Zenon DEF CountInv
  <2>5. nm \in [Subs -> Nat] /\ got \in [Subs -> Nat]
    BY Zenon DEF StateOK, BaseOK
  <2>6. CASE h # g
    <3>1. Pending(h)' \subseteq Pending(h)
      BY <2>3, <2>6, Zenon DEF Pending, Others
    <3>2. Cardinality(Pending(h))' <= Cardinality(Pending(h)) /\ Cardinality(Pending(h))' \in Nat
      BY <3>1, PendingMono, Zenon
    <3>3. nm'[h] = nm[h] /\ got'[h] = got[h]
      BY <2>1, <2>2, <2>5, <2>6, Zenon
    <3>4. nm[h] + Cardinality(Pending(h))' <= msgs
      <4>1. nm[h] + Cardinality(Pending(h)) <= msgs
        BY <2>4, Zenon DEF CountOK
      <4> QED
        BY <2>4, <3>2, <4>1, CountTypes, SumLess, Zenon
    <3> QED
      BY <1>1, <2>1, <2>4, <3>3, <3>4, Zenon DEF CountOK
  <2>7. CASE h = g
    <3>1. p \in Pending(g) /\ Pending(g)' \subseteq Pending(g) \ {p}
      BY <2>1, <2>3, Zenon DEF Pending, Others
    <3>2. Cardinality(Pending(g))' + 1 <= Cardinality(Pending(g)) /\ Cardinality(Pending(g))' \in Nat
      BY <3>1, PendingDrop, Zenon
    <3>3. nm'[g] = nm[g] + 1 /\ (got'[g] = got[g] \/ (got'[g] = got[g] + 1 /\ ~Exceeds(g)))
      BY <2>1, <2>2, <2>5, Zenon
    <3>4. CountOK(g, Cardinality(Pending(g))) /\ Cardinality(Pending(g)) \in Nat
      BY <2>4, <2>7, Zenon
    <3>5. (nm[g] + 1) + Cardinality(Pending(g))' <= msgs
      <4>1. nm[g] + Cardinality(Pending(g)) <= msgs
        BY <3>4, Zenon DEF CountOK
      <4> QED
        BY <3>2, <3>4, <4>1, CountTypes, SumPassed, Zenon
    <3>6. got'[g] <= nm[g] + 1 /\ got'[g] <= limit[g]
      <4>1. /\ got[g] <= nm[g] /\ got[g] <= limit[g] /\ nm[g] + Cardinality(Pending(g)) <= msgs
            /\ (max[g] > 0 => max[g] <= limit[g]) /\ (max[g] = 0 => limit[g] = Unlimited)
        BY <3>4, Zenon DEF CountOK
      <4>2. nm[g] <= MaxMsgs
        BY <3>4, <4>1, CountTypes, SumBounds, Zenon
      <4>3. got'[g] = got[g] \/ (got'[g] = got[g] + 1 /\ ~(max[g] > 0 /\ nm[g] + 1 > max[g]))
        BY <3>3, Zenon DEF Exceeds
      <4> QED
        BY <4>1, <4>2, <4>3, CountTypes, LimitKept, Zenon DEF Unlimited
    <3> QED
      BY <1>1, <2>1, <2>7, <3>3, <3>4, <3>5, <3>6, Zenon DEF CountOK
  <2> QED
    BY <2>6, <2>7, Zenon
<1> QED
  BY <1>3, <1>4, <1>5, <1>6, Zenon DEF PubNext

-----------------------------------------------------------------------------
(* The invariant and what follows from it *)

\* The inductive invariant.
DeliveryInv == ServiceInv /\ CountInv

\* Nothing was counted at first.
LEMMA InitCount ==
  ASSUME FiniteFacts, Init
  PROVE  CountInv
<1> SUFFICES ASSUME NEW g \in Subs
             PROVE  CountOK(g, Cardinality(Pending(g)))
  BY Zenon DEF CountInv
<1>1. /\ nm = [h \in Subs |-> 0] /\ max = [h \in Subs |-> 0] /\ got = [h \in Subs |-> 0]
      /\ limit = [h \in Subs |-> Unlimited] /\ pub = [p \in Pubs |-> PubIdle] /\ msgs = 0
  BY Zenon DEF Init
<1>2. Pending(g) = {}
  <2>1. \A p \in Pubs : pub[p].at \notin {"match", "direct"} /\ pub[p].todo = {}
    BY <1>1, PubIdleFields, Zenon
  <2> QED
    BY <2>1, Zenon DEF Pending
<1>3. Cardinality(Pending(g)) = 0
  BY <1>2, Zenon DEF FiniteFacts
<1>4. nm[g] = 0 /\ max[g] = 0 /\ got[g] = 0 /\ limit[g] = Unlimited
  BY <1>1, Zenon
<1>5. Unlimited \in Nat
  BY DeliveryAssumption DEF Unlimited
<1> QED
  BY <1>1, <1>3, <1>4, <1>5 DEF CountOK

\* Every step counts right.
LEMMA NextCount ==
  ASSUME FiniteFacts, ServiceInv, CountInv, Next
  PROVE  CountInv'
<1>1. StateOK /\ CachesOK /\ TableInv /\ ContractInv
  BY Zenon DEF ServiceInv, TablesInv
<1>2. ASSUME NEW p \in Pubs, PubNext(p)
      PROVE  CountInv'
  BY <1>1, <1>2, DirectSid, CountPub, Zenon
<1>3. \A g \in 1..nsubs : sid[g] \in Sids
  BY <1>1, Zenon DEF TableInv
<1> QED
  BY <1>1, <1>2, <1>3, NextSplit, CountOwn, Zenon

\* Nothing is counted when nothing happens.
LEMMA StutterCount ==
  ASSUME FiniteFacts, DeliveryInv, UNCHANGED vars
  PROVE  CountInv'
<1>1. /\ nm' = nm /\ max' = max /\ got' = got /\ limit' = limit /\ msgs' = msgs /\ pub' = pub
  BY Zenon DEF vars
<1>2. \A g \in Subs : Pending(g)' = Pending(g)
  BY <1>1, Zenon DEF Pending
<1> QED
  BY <1>1, <1>2, CountSame, Zenon DEF DeliveryInv, ServiceInv

\* The tables agree as TablesAgree says: nobody is about to change them when all is
\* quiet.
LEMMA TablesQuiet == DeliveryInv => TablesAgree
<1>1. DeliveryInv => SublistMatchesClient
  <2> SUFFICES ASSUME TableInv, Quiet
               PROVE  sl = (IF open THEN {csubs[i] : i \in Sids} \ {0} ELSE {}) \cup stale
    BY Zenon DEF DeliveryInv, ServiceInv, TablesInv, SublistMatchesClient
  <2>1. closing = {}
    BY Zenon DEF Quiet
  <2>2. CASE open
    BY <2>2, Zenon DEF TableInv, ClientSubs
  <2>3. CASE ~open
    <3>1. sl \subseteq stale /\ stale \subseteq sl
      BY <2>1, <2>3, Zenon DEF TableInv
    <3> QED
      BY <2>3, <3>1, Zenon
  <2> QED
    BY <2>2, <2>3, Zenon
<1>2. DeliveryInv => RoutesMatchSublist
  <2> SUFFICES ASSUME RouteInv, Quiet, typ = "CLIENT", NEW r \in Rsids \ raced
               PROVE  (view[r] # 0) <=> (\E g \in sl : routeSid(g) = r)
    BY Zenon DEF DeliveryInv, ServiceInv, TablesInv, RoutesMatchSublist
  <2>1. /\ me.at # "broadcastSub" /\ me.at # "broadcastUnsub"
        /\ \A p \in Pubs : pub[p].at # "broadcastUnsub"
    BY Zenon DEF Quiet
  <2>2. ~Awaited(r)
    BY <2>1, Zenon DEF Awaited
  <2>3. Agree(r)
    BY <2>2, Zenon DEF RouteInv
  <2> QED
    BY <2>3, Zenon DEF Agree, Present
<1> QED
  BY <1>1, <1>2, Zenon DEF TablesAgree

\* When nobody is left to deliver to, the message was for whom it should be.
LEMMA ContractFinished ==
  ASSUME FiniteFacts, DeliveryInv
  PROVE  DeliveryContract
<1>1. ASSUME NEW p \in Pubs, Finished(p), NEW m, m = pub[p]
      PROVE  LET plain == {g \in m.done : ~queue[g]}
                 there == {g \in m.start \cap sl : open}
                 group == {g \in m.start : queue[g]}
             IN /\ (m.i = 0 => m.done \subseteq m.start \cup (m.made + 1)..nsubs)
                /\ (typ = "CLIENT" /\ m.i = 0 => {g \in there : ~queue[g]} \subseteq m.done \cup m.missed)
                /\ (p \notin Routers /\ group # {} /\ group \subseteq there
                      => Cardinality({g \in m.done \cup m.missed : queue[g]}) = 1)
                /\ (typ = "ROUTER" => Cardinality(plain) \in
                      IF p \in Routers THEN {0}
                      ELSE IF m.missed = {} /\ \E g \in there : ~queue[g] THEN {1} ELSE {0, 1})
  <2> DEFINE plain == {g \in m.done : ~queue[g]}
             there == {g \in m.start \cap sl : open}
             group == {g \in m.start : queue[g]}
  <2>1. m.todo = {} /\ Delivering(m)
    BY <1>1, Zenon DEF Finished, Delivering
  <2>2. WorkInv(p, m, typ, open, sl, nsubs, queue)
    BY <1>1, Zenon DEF DeliveryInv, ServiceInv, ContractInv, PubInv, Contract
  <2>3. /\ (m.i = 0 => m.todo \cup m.done \subseteq Since(m, nsubs))
        /\ PlainInv(m, typ, open, sl, queue) /\ GroupInv(p, m, open, sl, queue)
        /\ (typ = "ROUTER" => RouterInv(p, m, open, sl, queue))
    BY <2>1, <2>2, Zenon DEF WorkInv
  <2>4. Handed(m) = m.done \cup m.missed
    BY <2>1, Zenon DEF Handed
  <2>5. m.i = 0 => m.done \subseteq m.start \cup (m.made + 1)..nsubs
    BY <2>3, Zenon DEF Since
  <2>6. typ = "CLIENT" /\ m.i = 0 => {g \in there : ~queue[g]} \subseteq m.done \cup m.missed
    BY <2>3, <2>4, Zenon DEF PlainInv
  <2>7. ASSUME p \notin Routers, group # {}, group \subseteq there
        PROVE  Cardinality({g \in m.done \cup m.missed : queue[g]}) = 1
    <3>1. open /\ (\E g \in m.start : queue[g]) /\ (\A g \in m.start : queue[g] => g \in sl)
      BY <2>7, Zenon
    <3>2. PICK g \in Subs : {h \in m.done \cup m.missed : queue[h]} = {g}
      BY <2>3, <2>4, <2>7, <3>1, Zenon DEF GroupInv
    <3> QED
      BY <3>2, Zenon DEF FiniteFacts
  <2>8. ASSUME typ = "ROUTER"
        PROVE  Cardinality(plain) \in
                      IF p \in Routers THEN {0}
                      ELSE IF m.missed = {} /\ \E g \in there : ~queue[g] THEN {1} ELSE {0, 1}
    <3>1. RouterInv(p, m, open, sl, queue)
      BY <2>3, <2>8, Zenon
    <3>2. plain = {} => Cardinality(plain) = 0
      BY Zenon DEF FiniteFacts
    <3>3. ASSUME plain # {} PROVE Cardinality(plain) = 1
      <4>1. PICK g \in plain : TRUE
        BY <3>3, Zenon
      <4>2. plain = {g}
        BY <3>1, <4>1, Zenon DEF RouterInv
      <4> QED
        BY <4>2, Zenon DEF FiniteFacts
    <3>4. p \in Routers => plain = {}
      BY <3>1, Zenon DEF RouterInv
    <3>5. p \notin Routers /\ m.missed = {} /\ (\E g \in there : ~queue[g]) => plain # {}
      BY <2>1, <3>1, Zenon DEF RouterInv
    <3> HIDE DEF plain, there
    <3> QED
      BY <3>2, <3>3, <3>4, <3>5, Zenon
  <2> QED
    BY <2>5, <2>6, <2>7, <2>8, Zenon
<1> QED
  BY <1>1, Zenon DEF DeliveryContract

-----------------------------------------------------------------------------
(* The theorems *)

INSTANCE FiniteSetTheorems

\* The facts about finite sets hold.
LEMMA FiniteSetFacts == FiniteFacts
<1>1. Cardinality({}) = 0 /\ \A x : Cardinality({x}) = 1
  BY FS_EmptySet, FS_Singleton, Zenon
<1>2. \A T : IsFiniteSet(T) => Cardinality(T) \in Nat
  BY FS_CardinalityType, Zenon
<1>3. \A S, T : IsFiniteSet(T) /\ S \subseteq T => IsFiniteSet(S) /\ Cardinality(S) <= Cardinality(T)
  BY FS_Subset, Zenon
<1>4. ASSUME NEW S, NEW x, IsFiniteSet(S)
      PROVE  IsFiniteSet(S \cup {x}) /\ Cardinality(S \cup {x}) <= Cardinality(S) + 1
  <2>1. Cardinality(S) \in Nat
    BY <1>2, <1>4, Zenon
  <2> QED
    BY <1>4, <2>1, FS_AddElement
<1>5. ASSUME NEW S, NEW x \in S, IsFiniteSet(S)
      PROVE  IsFiniteSet(S \ {x}) /\ Cardinality(S \ {x}) + 1 = Cardinality(S)
  <2>1. Cardinality(S) \in Nat
    BY <1>2, <1>5, Zenon
  <2> QED
    BY <1>5, <2>1, FS_RemoveElement
<1> QED
  BY <1>1, <1>2, <1>3, <1>4, <1>5, Zenon DEF FiniteFacts

\* The invariant holds in every reachable state, whatever the numbers of publishers,
\* subscriptions and messages, the limits and the cache sizes (client.go).
THEOREM DeliveryInvCorrect == Spec => []DeliveryInv
<1>1. Init => DeliveryInv
  BY FiniteSetFacts, InitService, InitCount, Zenon DEF DeliveryInv
<1>2. DeliveryInv /\ [Next]_vars => DeliveryInv'
  BY FiniteSetFacts, NextService, NextCount, StutterService, StutterCount, Zenon DEF DeliveryInv
<1> QED
  BY <1>1, <1>2, PTL DEF Spec

\* deliverMsg writes a subscription no more messages than the max of its UNSUB,
\* whichever publishers deliver to it at once, from whatever cached results.
THEOREM AtMostMaxCorrect == Spec => []AtMostMax
<1>1. DeliveryInv => AtMostMax
  BY Zenon DEF DeliveryInv, CountInv, CountOK, AtMostMax
<1> QED
  BY <1>1, DeliveryInvCorrect, PTL

\* c.subs, the sublist and what the routes were told agree whenever nobody is
\* between two of the critical sections of processSub, processUnsub, deliverMsg and
\* closeConnection.
THEOREM TablesAgreeCorrect == Spec => []TablesAgree
<1> QED
  BY TablesQuiet, DeliveryInvCorrect, PTL

\* processMsg delivers to whom it should: no cached result is stale, no plain
\* subscription is left out, one of a queue group is chosen and a route gets the
\* message once.
THEOREM DeliveryContractCorrect == Spec => []DeliveryContract
<1>1. DeliveryInv => DeliveryContract
  BY FiniteSetFacts, ContractFinished, Zenon
<1> QED
  BY <1>1, DeliveryInvCorrect, PTL
=============================================================================
