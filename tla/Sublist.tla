------------------------------- MODULE Sublist -------------------------------
(***************************************************************************)
(* The subscription list (server/sublist.go) and the publishers that match *)
(* against it (server/client.go, processMsg): the trie, the cache of match *)
(* results kept with it, and each publisher's own cache, valid while genid *)
(* has not moved.                                                          *)
(*                                                                         *)
(* A match result shares the arrays of the trie's queue groups, so slices  *)
(* are modelled: a slice is a length and an array of heap, append writes   *)
(* in place while the array has room, and an unused array is <<>>.  Normal *)
(* subscriptions are always copied and are sets.                           *)
(***************************************************************************)
EXTENDS Subjects, Functions, FiniteSets, TLC

CONSTANTS
  Sub,          \* subscriptions
  subject,      \* the subject of each
  queue,        \* the queue group of each, or NoQueue
  NoQueue, Nil,
  Publisher,
  Literal,      \* the subjects published to
  slCacheMax,   \* entries of the cache before one is dropped (1024)
  maxResultCacheSize, \* entries of a publisher's cache before pruneSize + 1 are
  pruneSize,          \* dropped (512 and 16)
  MaxGen,       \* bound on the changes of the list
  MaxArray      \* arrays of heap

Queue == {queue[s] : s \in Sub} \ {NoQueue}

ASSUME SublistAssumption ==
  /\ slCacheMax \in Nat /\ maxResultCacheSize \in Nat /\ pruneSize \in Nat
  /\ \A s \in Sub : subject[s] # <<>>

\* What the characters of the subjects amount to.
TokensOf == [k \in Literal |-> Tokens(k)]
PathOf == [s \in Sub |-> Path(subject[s])]
Valid == {s \in Sub : InsertValid(subject[s])}
CacheEntry == [k \in Literal, s \in Sub |-> matchLiteral(k, subject[s])]
Wants == [k \in Literal, s \in Sub |-> s \in Valid /\ Matches(Tokens(k), Path(subject[s]))]

VARIABLES
  nodes,    \* the trie: path -> [psubs, qsubs: queue -> slice]
  heap,     \* array -> sequence of subscriptions or Nil
  cache,    \* literal -> result [psubs, qsubs]
  genid,
  inserted, \* the subscriptions whose Insert succeeded and that are not removed
  c         \* publisher -> its cache and the message it is processing

vars == <<nodes, heap, cache, genid, inserted, c>>

NoSubject == <<>>
NewNode == [psubs |-> {}, qsubs |-> <<>>]

-----------------------------------------------------------------------------
(* Slices *)

ArrayOf(slices) == {slices[q].array : q \in DOMAIN slices}

\* The arrays something refers to.
InUse ==
  LET held == {nodes[p] : p \in DOMAIN nodes} \cup {cache[k] : k \in DOMAIN cache}
              \cup UNION {{c[x].results[k] : k \in DOMAIN c[x].results} : x \in Publisher}
              \cup {c[x].r : x \in Publisher}
  IN  UNION {ArrayOf(r.qsubs) : r \in held}

\* heap becomes h, collected.
Collect(h) ==
  \E used \in {InUse'} : heap' = [a \in DOMAIN h |-> IF a \in used THEN h[a] ELSE <<>>]

Elements(h, slice) == [i \in 1 .. slice.len |-> h[slice.array][i]]

Members(h, slice) == {Elements(h, slice)[i] : i \in 1 .. slice.len}

\* The capacity append allocates for n elements.
Capacity(n) == Min({k \in {1, 2, 4, 8} : k >= n})

Allocate(h, elems, cap) ==
  LET a == Min({x \in DOMAIN h : h[x] = <<>>})
  IN  [heap |-> [h EXCEPT ![a] = [i \in 1 .. cap |-> IF i <= Len(elems) THEN elems[i] ELSE Nil]],
       slice |-> [array |-> a, len |-> Len(elems)]]

\* append(slice, elems...)
Append2(h, slice, elems) ==
  LET n == slice.len + Len(elems)
      cap == Len(h[slice.array])
  IN  IF n <= cap
      THEN [heap |-> [h EXCEPT ![slice.array] =
                        [i \in 1 .. cap |-> IF i \in slice.len + 1 .. n
                                            THEN elems[i - slice.len] ELSE @[i]]],
            slice |-> [slice EXCEPT !.len = n]]
      ELSE Allocate(h, Elements(h, slice) \o elems, Capacity(IF n > 2 * cap THEN n ELSE 2 * cap))

\* Adding s to the queue groups qsubs: findQSliceForSub and what follows it.
AddQueueSub(h, qsubs, s) ==
  LET q == queue[s]
      a == IF q \in DOMAIN qsubs THEN Append2(h, qsubs[q], <<s>>) ELSE Allocate(h, <<s>>, 1)
  IN  [heap |-> a.heap, qsubs |-> (q :> a.slice) @@ qsubs]

\* Adding s to a node or to a result r.
AddSub(h, r, s) ==
  IF queue[s] = NoQueue
  THEN [heap |-> h, r |-> [r EXCEPT !.psubs = @ \cup {s}]]
  ELSE LET a == AddQueueSub(h, r.qsubs, s)
       IN  [heap |-> a.heap, r |-> [r EXCEPT !.qsubs = a.qsubs]]

\* copyResult
CopyResult(h, r) ==
  FoldSet(LAMBDA q, acc :
            LET a == Allocate(acc.heap, Elements(h, r.qsubs[q]), Capacity(r.qsubs[q].len))
            IN  [heap |-> a.heap, r |-> [acc.r EXCEPT !.qsubs = (q :> a.slice) @@ @]],
          [heap |-> h, r |-> [r EXCEPT !.qsubs = <<>>]], DOMAIN r.qsubs)

-----------------------------------------------------------------------------
(* Matching *)

\* The nodes matchLevel adds to the results, in that order.
matchLevel(toks) ==
  LET visit[l \in DOMAIN nodes \cup {<<>>}, i \in 1 .. Len(toks) + 1] ==
        LET next(k) == Append(l, k)
            node(k) == IF next(k) \in DOMAIN nodes THEN <<next(k)>> ELSE <<>>
            below(k) == IF next(k) \in DOMAIN nodes THEN visit[next(k), i + 1] ELSE <<>>
        IN  IF i > Len(toks) THEN <<>>
            ELSE IF i = Len(toks)
                 THEN node(fwc) \o (IF toks[i] \in {pwc, fwc} THEN <<>> ELSE node(toks[i]))
                      \o node(pwc)
            ELSE node(fwc) \o below(pwc)
                 \o (IF toks[i] \in {pwc, fwc} THEN <<>> ELSE below(toks[i]))
  IN  visit[<<>>, 1]

\* addNodeToResults: the first slice of a group is taken over, not copied.
AddNodeToResults(acc, n) ==
  FoldSet(LAMBDA q, a :
            IF q \in DOMAIN a.r.qsubs
            THEN LET b == Append2(a.heap, a.r.qsubs[q], Elements(a.heap, n.qsubs[q]))
                 IN  [heap |-> b.heap, r |-> [a.r EXCEPT !.qsubs = (q :> b.slice) @@ @]]
            ELSE [a EXCEPT !.r.qsubs = (q :> n.qsubs[q]) @@ @],
          [acc EXCEPT !.r.psubs = @ \cup n.psubs], DOMAIN n.qsubs)

MatchTrie(literal) ==
  SeqExt!FoldLeft(LAMBDA acc, p : AddNodeToResults(acc, nodes[p]),
           [heap |-> heap, r |-> NewNode], matchLevel(TokensOf[literal]))

\* Mutant: a wildcard subscription is not added to the cached results.
addToCache_Literally(h, s) ==
  FoldSet(LAMBDA k, acc :
            LET cp == CopyResult(acc.heap, acc.cache[k])
                a == AddSub(cp.heap, cp.r, s)
            IN  [heap |-> a.heap, cache |-> [acc.cache EXCEPT ![k] = a.r]],
          [heap |-> h, cache |-> cache], {k \in DOMAIN cache : k = subject[s]})

\* Adds s to copies of the cached results it matches.
addToCache(h, s) ==
  FoldSet(LAMBDA k, acc :
            LET cp == CopyResult(acc.heap, acc.cache[k])
                a == AddSub(cp.heap, cp.r, s)
            IN  [heap |-> a.heap, cache |-> [acc.cache EXCEPT ![k] = a.r]],
          [heap |-> h, cache |-> cache], {k \in DOMAIN cache : CacheEntry[k, s]})

\* Drops the cached results s matches.
removeFromCache(s) == Restrict(cache, {k \in DOMAIN cache : ~CacheEntry[k, s]})

\* The cache with one more entry; above its limit it loses an arbitrary one.
Cached(k, r) ==
  LET new == (k :> r) @@ cache
  IN  IF Cardinality(DOMAIN new) <= slCacheMax THEN {new}
      ELSE {Restrict(new, DOMAIN new \ {x}) : x \in DOMAIN new}

-----------------------------------------------------------------------------
(* Ghost state: the matching subscriptions a message being processed must and *)
(* may find.                                                                   *)

Matching(subs, k) == {s \in subs : Wants[k, s]}

Wanted(k) == Matching(inserted, k)

Tracked(subs) ==
  [x \in Publisher |->
     IF c[x].phase = "idle" THEN c[x]
     ELSE [c[x] EXCEPT !.always = @ \cap Matching(subs, c[x].k),
                       !.ever = @ \cup Matching(subs, c[x].k)]]

-----------------------------------------------------------------------------
(* Insert and Remove, each under the write lock *)

NodesTo(p) == {SubSeq(p, 1, i) : i \in 1 .. Len(p)}

\* The trie with the nodes of path p.
WithPath(p) ==
  [x \in DOMAIN nodes \cup NodesTo(p) |-> IF x \in DOMAIN nodes THEN nodes[x] ELSE NewNode]

\* An invalid subject is refused only after the nodes before the bad token are made.
InsertInvalid(s) ==
  /\ s \notin inserted /\ s \notin Valid
  /\ nodes' = WithPath(PathOf[s])
  /\ UNCHANGED <<heap, cache, genid, inserted, c>>

Insert(s) ==
  LET p == PathOf[s]
      a == AddSub(heap, WithPath(p)[p], s)
      b == addToCache(a.heap, s)
  IN  /\ s \notin inserted /\ s \in Valid /\ genid < MaxGen
      /\ nodes' = [WithPath(p) EXCEPT ![p] = a.r]
      /\ cache' = b.cache
      /\ genid' = genid + 1
      /\ inserted' = inserted \cup {s}
      /\ c' = Tracked(inserted \cup {s})
      /\ Collect(b.heap)

\* Mutant: the slice keeps its length.
RemoveFromSlice_Long(h, slice, s) ==
  LET arr == h[slice.array]
      i == CHOOSE j \in 1 .. slice.len : arr[j] = s
  IN  [heap |-> [h EXCEPT ![slice.array] =
                   [arr EXCEPT ![i] = arr[slice.len], ![slice.len] = Nil]],
       slice |-> IF slice.len = 1 THEN [slice EXCEPT !.len = 0] ELSE slice]

\* removeSubFromList, in place: the last element takes the place of s.
RemoveFromSlice(h, slice, s) ==
  LET arr == h[slice.array]
      i == CHOOSE j \in 1 .. slice.len : arr[j] = s
  IN  [heap |-> [h EXCEPT ![slice.array] =
                   [arr EXCEPT ![i] = arr[slice.len], ![slice.len] = Nil]],
       slice |-> [slice EXCEPT !.len = @ - 1]]

\* removeFromNode
RemoveFromNode(n, s) ==
  LET q == queue[s]
      a == RemoveFromSlice(heap, n.qsubs[q], s)
  IN  IF q = NoQueue THEN [heap |-> heap, n |-> [n EXCEPT !.psubs = @ \ {s}]]
      ELSE [heap |-> a.heap,
            n |-> [n EXCEPT !.qsubs = IF a.slice.len = 0 THEN Restrict(@, DOMAIN @ \ {q})
                                      ELSE (q :> a.slice) @@ @]]

Empty(trie, p) ==
  /\ trie[p].psubs = {} /\ trie[p].qsubs = <<>>
  /\ \A x \in DOMAIN trie : Len(x) = Len(p) + 1 => SubSeq(x, 1, Len(p)) # p

\* Nodes of path p left empty are pruned, the deepest first.
Prune(trie, p) ==
  SeqExt!FoldLeft(LAMBDA t, i : LET x == SubSeq(p, 1, Len(p) + 1 - i)
                         IN  IF Empty(t, x) THEN Restrict(t, DOMAIN t \ {x}) ELSE t,
           trie, [i \in 1 .. Len(p) |-> i])

\* Mutant: the generation is not moved, so publishers keep their results.
Remove_SameGeneration(s) ==
  LET p == PathOf[s]
      a == RemoveFromNode(nodes[p], s)
  IN  /\ s \in inserted /\ genid < MaxGen
      /\ nodes' = Prune([nodes EXCEPT ![p] = a.n], p)
      /\ cache' = removeFromCache(s)
      /\ inserted' = inserted \ {s}
      /\ UNCHANGED genid
      /\ c' = Tracked(inserted \ {s})
      /\ Collect(a.heap)

Remove(s) ==
  LET p == PathOf[s]
      a == RemoveFromNode(nodes[p], s)
  IN  /\ s \in inserted /\ genid < MaxGen
      /\ nodes' = Prune([nodes EXCEPT ![p] = a.n], p)
      /\ cache' = removeFromCache(s)
      /\ genid' = genid + 1
      /\ inserted' = inserted \ {s}
      /\ c' = Tracked(inserted \ {s})
      /\ Collect(a.heap)

-----------------------------------------------------------------------------
(* A publisher: processMsg *)

\* genid is read, and the publisher's cache used if it is of that generation.
Start(x, k) ==
  LET fresh == genid = c[x].genid
      hit == fresh /\ k \in DOMAIN c[x].results
  IN  /\ c[x].phase = "idle"
      /\ c' = [c EXCEPT ![x] =
           [@ EXCEPT !.k = k, !.always = Wanted(k), !.ever = Wanted(k),
                     !.genid = genid,
                     !.results = IF fresh THEN @ ELSE <<>>,
                     !.phase = IF hit THEN "deliver" ELSE "lookup",
                     !.r = IF hit THEN c[x].results[k] ELSE NewNode]]
      /\ UNCHANGED <<nodes, cache, genid, inserted>>
      /\ Collect(heap)

\* The publisher's cache with one more result, pruned of arbitrary entries when
\* it is over its limit.
Stored(x, r) ==
  LET new == (c[x].k :> r) @@ c[x].results
  IN  IF Cardinality(DOMAIN new) <= maxResultCacheSize THEN {new}
      ELSE {Restrict(new, DOMAIN new \ d) :
              d \in kSubset(Min({pruneSize + 1, Cardinality(DOMAIN new)}), DOMAIN new)}

\* Match: a result of the cache, read under the read lock.
MatchCached(x) ==
  /\ c[x].phase = "lookup" /\ c[x].k \in DOMAIN cache
  /\ \E res \in Stored(x, cache[c[x].k]) :
       c' = [c EXCEPT ![x].phase = "deliver", ![x].r = cache[c[x].k], ![x].results = res]
  /\ UNCHANGED <<nodes, cache, genid, inserted>>
  /\ Collect(heap)

\* There is none; the read lock is released.
MatchMiss(x) ==
  /\ c[x].phase = "lookup" /\ c[x].k \notin DOMAIN cache
  /\ c' = [c EXCEPT ![x].phase = "missed"]
  /\ UNCHANGED <<nodes, heap, cache, genid, inserted>>

\* The trie is searched and the cache filled under the write lock.
MatchWalk(x) ==
  LET m == MatchTrie(c[x].k)
  IN  /\ c[x].phase = "missed"
      /\ cache' \in Cached(c[x].k, m.r)
      /\ \E res \in Stored(x, m.r) :
           c' = [c EXCEPT ![x].phase = "deliver", ![x].r = m.r, ![x].results = res]
      /\ UNCHANGED <<nodes, genid, inserted>>
      /\ Collect(m.heap)

\* The message goes to every normal subscription and to one member of each queue
\* group, chosen by index; a Nil found there is passed over.
Deliver(x) ==
  /\ c[x].phase = "deliver"
  /\ \E pick \in [DOMAIN c[x].r.qsubs -> Sub \cup {Nil}] :
       /\ \A q \in DOMAIN pick : pick[q] \in Members(heap, c[x].r.qsubs[q])
       /\ c' = [c EXCEPT ![x].phase = "sent", ![x].r = NewNode,
                         ![x].sent = c[x].r.psubs \cup (Range(pick) \ {Nil})]
  /\ UNCHANGED <<nodes, cache, genid, inserted>>
  /\ Collect(heap)

\* The next message.
Done(x) ==
  /\ c[x].phase = "sent"
  /\ c' = [c EXCEPT ![x].phase = "idle", ![x].k = NoSubject, ![x].always = {}, ![x].ever = {}, ![x].sent = {}]
  /\ UNCHANGED <<nodes, heap, cache, genid, inserted>>

-----------------------------------------------------------------------------

Init ==
  /\ nodes = <<>>
  /\ heap = [a \in 1 .. MaxArray |-> <<>>]
  /\ cache = <<>>
  /\ genid = 0
  /\ inserted = {}
  /\ c = [x \in Publisher |->
            [phase |-> "idle", k |-> NoSubject, genid |-> 0,
             results |-> <<>>, r |-> NewNode, always |-> {}, ever |-> {}, sent |-> {}]]

Next ==
  \/ \E s \in Sub : Insert(s) \/ InsertInvalid(s) \/ Remove(s)
  \/ \E x \in Publisher :
       \/ \E k \in Literal : Start(x, k)
       \/ MatchCached(x) \/ MatchMiss(x) \/ MatchWalk(x)
       \/ Deliver(x) \/ Done(x)

Spec == Init /\ [][Next]_vars

-----------------------------------------------------------------------------
(* Properties *)

Found(r) == r.psubs \cup UNION {Members(heap, r.qsubs[q]) : q \in DOMAIN r.qsubs}

TypeOK ==
  /\ genid \in 0 .. MaxGen
  /\ inserted \subseteq Sub
  /\ DOMAIN cache \subseteq Literal /\ Cardinality(DOMAIN cache) <= slCacheMax
  /\ \A p \in DOMAIN nodes : nodes[p].psubs \subseteq Sub
  /\ \A a \in DOMAIN heap : Range(heap[a]) \subseteq Sub \cup {Nil}
  /\ \A x \in Publisher : Cardinality(DOMAIN c[x].results) <= maxResultCacheSize

\* Every cached result is what the subscriptions in the list match, however it
\* came about: by a walk of the trie, or by an Insert that extended it
\* (addToCache) after other entries were dropped (removeFromCache).
CacheMatchesTrie == \A k \in DOMAIN cache : Found(cache[k]) = Wanted(k)

\* The trie holds each subscription at its path and no node without purpose, as
\* Remove prunes what it leaves empty, but for those a refused Insert has made.
TrieIsTight ==
  LET purpose == UNION {NodesTo(PathOf[s]) : s \in inserted}
  IN  /\ purpose \subseteq DOMAIN nodes
      /\ DOMAIN nodes \subseteq purpose \cup UNION {NodesTo(PathOf[s]) : s \in Sub \ Valid}
      /\ \A p \in DOMAIN nodes : Found(nodes[p]) = {s \in inserted : PathOf[s] = p}

\* Trie and cache hold what was inserted and not removed, and nothing else
\* (Insert, Remove, Match).
ListIsSound == TrieIsTight /\ CacheMatchesTrie

\* A message reaches every normal subscription that matched all the time it was
\* processed, and none that did not match at some moment of it, although three
\* results of different ages may serve it (genid, processMsg).
NoStaleDelivery ==
  \A x \in Publisher : c[x].phase = "sent" =>
    /\ {s \in c[x].always : queue[s] = NoQueue} \subseteq c[x].sent
    /\ c[x].sent \subseteq c[x].ever

\* A queue group that has the same matching members all the time gets the
\* message, whatever has happened to the arrays that its results share with the
\* trie.  (With removals in between it may not: the Nil removeSubFromList leaves
\* may be picked although another member has stayed.)
QueueGroupServed ==
  \A x \in Publisher : c[x].phase = "sent" =>
    \A q \in Queue :
      LET members == {s \in c[x].ever : queue[s] = q}
      IN  members # {} /\ members \subseteq c[x].always => members \cap c[x].sent # {}
=============================================================================
