---------------------------- MODULE Checkpoints ----------------------------
(***************************************************************************)
(* The replication of checkpoints (package peer).  The lead calls          *)
(* LeadTransferCheckpoint with new data: BcastSet saves it and streams it  *)
(* to the followers one after the other (gcli, gserv), each of which       *)
(* writes it to its bolt database.  A peer that takes over calls it        *)
(* without data: GetLatest asks every peer over NATS for the time of its   *)
(* checkpoint, then asks the peer with the latest for the value, which     *)
(* comes back as a gRPC stream, and saves it.                              *)
(*                                                                         *)
(* There is one key.  Checkpoints are numbered in the order of their       *)
(* times, 0 stands for none.  A stream is seen at its two ends only: the   *)
(* handler that has received the last chunk, and the client that waits for *)
(* the handler to return.                                                  *)
(***************************************************************************)
EXTENDS Integers, Sequences, FiniteSets, FiniteSetsExt

CONSTANTS
  Peer,
  FirstLead,  \* the lead of the first membership list
  Compacts,   \* numSetsBeforeCompact
  MaxMade,    \* bound on the checkpoints made
  MaxGets,    \* bound on the calls of GetLatest
  MaxFaults,  \* bound on crashes, failed streams and failed disk operations
  MaxLists,   \* bound on the changes of the membership lists
  MaxEvents   \* bound on all of these together

ASSUME CheckpointsAssumption ==
  /\ IsFiniteSet(Peer) /\ FirstLead \in Peer /\ Compacts \in Nat \ {0}
  /\ MaxMade \in Nat /\ MaxGets \in Nat /\ MaxFaults \in Nat /\ MaxLists \in Nat
  /\ MaxEvents \in Nat

VARIABLES
  up,         \* "down", "nats" (subscribed, the gRPC server not yet serving), "up"
  file,       \* the checkpoint in the bolt database of a peer
  db,         \* whether BoltSaver.db is open; FALSE: it is nil
  sets,       \* setCount
  list,       \* the last LeadAndFollowList: its members and its lead
  loc,        \* the peers in lastSeenInternalPortAloc
  op,         \* the call of LeadTransferCheckpoint in progress
  getq,       \* requests on bcast_get waiting for the subscription's callback
  answering,  \* the request whose value the callback streams, 0 if none, Broken
  setIn,      \* handlers of streams that have received a BcastSetRequest
  getIn,      \* handlers of streams that have received a BcastGetReply
  writing,    \* the checkpoint BackgroundReceiveBcastSetAndWriteToBolt is saving
  made,       \* the author of every checkpoint
  gets, faults, lists,  \* counters for the bounds
  broke,      \* a client lost a stream whose last chunk was received
  back        \* a checkpoint was replaced by an older one

disk == <<file, db, sets, back>>
streams == <<setIn, getIn, answering, writing, broke>>
vars == <<up, disk, list, loc, op, getq, streams, made, gets, faults, lists>>

Broken == -1
Idle == [at |-> "idle"]

\* p has subscribed with NATS (setupNatsClient).
Running(p) == up[p] # "down"

\* GetPeerList: p has no peers.  It goes the same way when no list comes in time.
Alone(p) == Cardinality(list[p].members) <= 1

\* list2status
Followers(l) == l.members \ {l.lead}

Event == Len(made) + gets + faults + lists < MaxEvents
Fault == Event /\ faults < MaxFaults /\ faults' = faults + 1

-----------------------------------------------------------------------------
(* The bolt database of a peer *)

\* The end of Compact: both files are closed, the compacted one is renamed to
\* the name of the other, which is atomic, and the database is opened again,
\* also when the rename has failed.  Opening may fail too and leaves db nil.
Renames(p, cp, result) ==
  /\ file' = [file EXCEPT ![p] = cp]
  /\ \/ result = "ok" /\ db' = db /\ UNCHANGED faults
     \/ result = "err" /\ db' \in {db, [db EXCEPT ![p] = FALSE]} /\ Fault

\* compactInBatches copies all buckets into a second file, in one transaction
\* or several; when it fails, the database is still open and the copy is not used.
CompactInBatchesFails(p, cp) ==
  Fault /\ file' = [file EXCEPT ![p] = cp] /\ UNCHANGED db

Compact(p, cp, result) ==
  \/ result = "err" /\ CompactInBatchesFails(p, cp)
  \/ Renames(p, cp, result)

CompactionDue(n) == n = 1 \/ n % Compacts = 0

\* LocalSet: one transaction stores time and data, whatever was there, and a
\* compaction follows the first and then every Compacts-th set.  The result is
\* "err" if either fails.  On a nil db it panics, and the process ends; it may
\* also end before or after the transaction.
LocalSet(p, cp, result) ==
  LET n == sets[p] + 1 IN
  /\ \/ /\ db[p]
        /\ \/ /\ result = "err" /\ Fault
              /\ UNCHANGED <<file, db, sets>>
           \/ /\ sets' = [sets EXCEPT ![p] = IF n > 2 * Compacts THEN n - Compacts ELSE n]
              /\ IF CompactionDue(n)
                 THEN Compact(p, cp, result)
                 ELSE /\ result = "ok" /\ file' = [file EXCEPT ![p] = cp]
                      /\ UNCHANGED <<db, faults>>
           \/ /\ result = "panic" /\ Fault
              /\ file' \in {file, [file EXCEPT ![p] = cp]} /\ UNCHANGED <<db, sets>>
     \/ /\ ~db[p] /\ result = "panic"
        /\ UNCHANGED <<file, db, sets, faults>>
  /\ back' = (back \/ file'[p] < file[p])

-----------------------------------------------------------------------------
(* Peers starting and ending *)

\* The process of p ends, by a panic, a crash or Stop.  Its connections end:
\* a client that waits for one of its handlers sees an error.
GoesDown(p) ==
  /\ up' = [up EXCEPT ![p] = "down"]
  /\ op' = [q \in Peer |->
       IF q = p THEN Idle
       ELSE IF op[q].at = "wait" /\ op[q].to = p THEN [op[q] EXCEPT !.at = "broken"] ELSE op[q]]
  /\ answering' = [q \in Peer |->
       IF q = p THEN 0
       ELSE IF \E r \in getIn[p] : r.id = answering[q] THEN Broken ELSE answering[q]]
  /\ getq' = [getq EXCEPT ![p] = <<>>]
  /\ setIn' = [setIn EXCEPT ![p] = {}] /\ getIn' = [getIn EXCEPT ![p] = {}]
  /\ writing' = [writing EXCEPT ![p] = 0]
  /\ loc' = [loc EXCEPT ![p] = {}]
  /\ broke' = (broke \/ op[p].at = "wait")
  /\ UNCHANGED <<list, made, gets, lists>>

Crash(p) ==
  /\ Running(p) /\ Fault /\ GoesDown(p)
  /\ UNCHANGED disk

\* The database of an earlier process is opened as it was left.
NewBoltSaver(p) ==
  /\ db' = [db EXCEPT ![p] = TRUE] /\ sets' = [sets EXCEPT ![p] = 0]
  /\ UNCHANGED <<file, back>>

\* NewPeer opens the database, and Start subscribes with NATS.
Start(p) ==
  /\ up[p] = "down" /\ up' = [up EXCEPT ![p] = "nats"]
  /\ NewBoltSaver(p)
  /\ UNCHANGED <<list, loc, op, getq, streams, made, gets, faults, lists>>

StartGrpcServer(p) == up' = [up EXCEPT ![p] = "up"]

\* The goroutine that Start leaves behind to bring up the gRPC server.
StartBackgroundCheckpointRecv(p) ==
  /\ up[p] = "nats" /\ StartGrpcServer(p)
  /\ UNCHANGED <<disk, list, loc, op, getq, streams, made, gets, faults, lists>>

\* The membership list of health changes, for each peer in its own time.
NewList(p) ==
  /\ Running(p) /\ Event /\ lists < MaxLists /\ lists' = lists + 1
  /\ \E M \in SUBSET Peer : \E l \in M :
       /\ p \in M /\ list' = [list EXCEPT ![p] = [members |-> M, lead |-> l]]
       /\ list' # list
  /\ UNCHANGED <<up, disk, loc, op, getq, streams, made, gets, faults>>

\* The subscription to <ID>.grpc-port-query answers as soon as there is one.
AnswersPortQuery(q) == Running(q)

\* A round of StartPeriodicClusterAgentLocQueries.
AgentLocQueries(p) ==
  /\ Running(p)
  /\ loc' = [loc EXCEPT ![p] = @ \cup {q \in list[p].members : AnswersPortQuery(q)}]
  /\ loc' # loc
  /\ UNCHANGED <<up, disk, list, op, getq, streams, made, gets, faults, lists>>

-----------------------------------------------------------------------------
(* LeadTransferCheckpoint with data: BcastSet *)

\* The rest of an action of p that ends with LocalSet, at op[p] = next.
SetReturns(p, result, next) ==
  \/ result = "panic" /\ GoesDown(p)
  \/ /\ result # "panic" /\ op' = [op EXCEPT ![p] = next]
     /\ UNCHANGED <<up, list, loc, getq, streams, made, gets, lists>>

LeadTransferCheckpoint(p) ==
  /\ Running(p) /\ op[p] = Idle
  /\ list[p].lead = p
  /\ Event /\ Len(made) < MaxMade /\ made' = Append(made, p)
  /\ op' = [op EXCEPT ![p] = [at |-> "bcast", cp |-> Len(made) + 1]]
  /\ UNCHANGED <<up, disk, list, loc, getq, streams, gets, faults, lists>>

\* BcastSet reads the membership list again; its followers are the members
\* other than the lead of that list.
BcastSet(p) ==
  /\ op[p].at = "bcast"
  /\ \E result \in {"ok", "err", "panic"} :
       /\ LocalSet(p, op[p].cp, result)
       /\ SetReturns(p, result,
            IF result = "ok" /\ ~Alone(p)
            THEN [at |-> "send", cp |-> op[p].cp, skipped |-> {}, todo |-> Followers(list[p])]
            ELSE Idle)

\* A follower is passed over: its ports are not known, or the stream could not
\* be opened.  doGrpcClientSendFileSetRequest ignores the error.
SkipFollower(p, f) ==
  /\ op[p].at = "send" /\ f \in op[p].todo
  /\ \/ f \notin loc[p] /\ UNCHANGED faults
     \/ f \in loc[p] /\ up[f] # "up" /\ UNCHANGED faults
     \/ f \in loc[p] /\ Fault
  /\ op' = [op EXCEPT ![p].todo = @ \ {f}, ![p].skipped = @ \cup {f}]
  /\ UNCHANGED <<up, disk, list, loc, getq, streams, made, gets, lists>>

\* The handler SendFile of f has received every chunk of a BcastSetRequest.
SendFile(f, r) == setIn' = [setIn EXCEPT ![f] = @ \cup {r}]

\* Mutant: the client does not wait for the handler to return.
ClientSendFile_NoWait(p, f) ==
  /\ op[p].at = "send" /\ f \in op[p].todo \cap loc[p] /\ up[f] = "up"
  /\ SendFile(f, [cp |-> op[p].cp, from |-> p])
  /\ op' = [op EXCEPT ![p].todo = @ \ {f}]
  /\ UNCHANGED <<up, disk, list, loc, getq, getIn, answering, writing, broke, made, gets,
                 faults, lists>>

\* All chunks are sent, and the client waits in CloseAndRecv.
ClientSendFile(p, f) ==
  /\ op[p].at = "send" /\ f \in op[p].todo \cap loc[p] /\ up[f] = "up"
  /\ SendFile(f, [cp |-> op[p].cp, from |-> p])
  /\ op' = [op EXCEPT ![p] = [at |-> "wait", cp |-> @.cp, todo |-> @.todo \ {f},
                              skipped |-> @.skipped, to |-> f]]
  /\ UNCHANGED <<up, disk, list, loc, getq, getIn, answering, writing, broke, made, gets,
                 faults, lists>>

\* The stream ends before the last chunk, and runSendFile panics; with SSH,
\* setupSSH does when the follower cannot be reached.
SendPanics(p, f) ==
  /\ op[p].at = "send" /\ f \in op[p].todo \cap loc[p]
  /\ Fault \/ (up[f] # "up" /\ UNCHANGED faults)
  /\ GoesDown(p)
  /\ UNCHANGED disk

\* The client of p goes on to its next follower.
NextFollower(o) == [at |-> "send", cp |-> o.cp, todo |-> o.todo, skipped |-> o.skipped]

\* CloseAndRecv returns an error: the handler's peer has ended, or the
\* connection is lost and the handler goes on by itself.
CloseAndRecvFails(p) ==
  /\ \/ op[p].at = "broken" /\ UNCHANGED <<faults, broke>>
     \/ op[p].at = "wait" /\ Fault /\ broke' = TRUE
  /\ op' = [op EXCEPT ![p] =
       NextFollower([@ EXCEPT !.skipped = @ \cup {op[p].to}])]
  /\ UNCHANGED <<up, disk, list, loc, getq, setIn, getIn, answering, writing, made, gets, lists>>

BcastSetReturns(p) ==
  /\ op[p].at = "send" /\ op[p].todo = {}
  /\ op' = [op EXCEPT ![p] = Idle]
  /\ UNCHANGED <<up, disk, list, loc, getq, streams, made, gets, faults, lists>>

\* BackgroundReceiveBcastSetAndWriteToBolt takes a request from a handler, which
\* then returns, and the client with it.
GotSetRequest(f, r) ==
  /\ up[f] = "up" /\ r \in setIn[f] /\ writing[f] = 0
  /\ writing' = [writing EXCEPT ![f] = r.cp]
  /\ setIn' = [setIn EXCEPT ![f] = @ \ {r}]
  /\ op' = [q \in Peer |->
       IF q = r.from /\ op[q].at = "wait" /\ op[q].to = f /\ op[q].cp = r.cp
       THEN NextFollower(op[q]) ELSE op[q]]
  /\ UNCHANGED <<up, disk, list, loc, getq, getIn, answering, broke, made, gets, faults, lists>>

\* It saves the checkpoint, newer than the one it has or not.
WriteToBolt(f) ==
  /\ writing[f] # 0
  /\ \E result \in {"ok", "err", "panic"} :
       /\ LocalSet(f, writing[f], result)
       /\ \/ result = "panic" /\ GoesDown(f)
          \/ /\ result # "panic" /\ writing' = [writing EXCEPT ![f] = 0]
             /\ UNCHANGED <<up, list, loc, op, getq, setIn, getIn, answering, broke, made,
                            gets, lists>>

-----------------------------------------------------------------------------
(* LeadTransferCheckpoint without data: GetLatest *)

\* The caller has the checkpoint cp; floor is the latest time it was told of,
\* and astray tells that cp is not the answer of the peer it asked.
Adopts(cp, floor, astray) == [at |-> "adopt", cp |-> cp, floor |-> floor, astray |-> astray]

\* ClientInitiateBcastGet reads its own database when it has no peers, and else
\* publishes a request for the times of all.
GetLatest(p) ==
  /\ Running(p) /\ op[p] = Idle
  /\ Event /\ gets < MaxGets /\ gets' = gets + 1
  /\ IF Alone(p)
     THEN /\ op' = [op EXCEPT ![p] = [at |-> "local", floor |-> file[p], astray |-> FALSE]]
          /\ UNCHANGED getq
     ELSE /\ op' = [op EXCEPT ![p] = [at |-> "get", id |-> gets', got |-> {},
                                      need |-> Cardinality(list[p].members)]]
          /\ getq' = [q \in Peer |->
               IF Running(q) THEN Append(getq[q], [from |-> p, id |-> gets', value |-> FALSE])
               ELSE getq[q]]
  /\ UNCHANGED <<up, disk, list, loc, streams, made, faults, lists>>

\* LocalGet fails without the key, and panics on a nil db.
LocalGet(p) ==
  /\ op[p].at = "local"
  /\ \/ /\ db[p]
        /\ op' = [op EXCEPT ![p] = IF file[p] = 0 THEN Idle ELSE Adopts(file[p], @.floor, @.astray)]
        /\ UNCHANGED <<up, list, loc, getq, streams, made, gets, lists>>
     \/ ~db[p] /\ GoesDown(p)
  /\ UNCHANGED <<disk, faults>>

\* The request the callback of the bcast_get subscription of q handles next.
NextRequest(q) ==
  IF getq[q] # <<>> /\ answering[q] = 0 THEN {Head(getq[q])} ELSE {}

\* The call id of p waits for more answers.
Collects(p, id) ==
  op[p].at = "get" /\ op[p].id = id /\ Cardinality(op[p].got) < op[p].need

\* ServerHandleBcastGet answers a request for the time over NATS; an answer to
\* a call that has ended is dropped.  One peer without the key fails the call.
AnswerTime(q, r) ==
  /\ r \in NextRequest(q) /\ db[q] /\ ~r.value
  /\ getq' = [getq EXCEPT ![q] = Tail(@)]
  /\ op' = [p \in Peer |->
       IF p = r.from /\ Collects(p, r.id)
       THEN IF file[q] = 0 THEN Idle
            ELSE [op[p] EXCEPT !.got = @ \cup {[cp |-> file[q], who |-> q]}]
       ELSE op[p]]
  /\ UNCHANGED <<up, disk, list, loc, streams, made, gets, faults, lists>>

\* Mutant: the checkpoint with the earliest time is taken.
Target_First(got) == {k \in got : \A j \in got : k.cp <= j.cp}

\* The answers sort by time and then by peer, and the last is taken.
Target(got) == {k \in got : \A j \in got : j.cp <= k.cp}

\* With as many answers as there were members, GetLatest asks the peer with the
\* latest for the value, or reads its own if it has no peers by now.
AskValue(p) ==
  /\ op[p].at = "get" /\ Cardinality(op[p].got) = op[p].need
  /\ \E k \in Target(op[p].got) :
       LET floor == Max({j.cp : j \in op[p].got}) IN
       IF k.who = p \/ Alone(p)
       THEN /\ op' = [op EXCEPT ![p] = [at |-> "local", floor |-> floor, astray |-> k.who # p]]
            /\ UNCHANGED getq
       ELSE /\ op' = [op EXCEPT ![p] = [at |-> "fetch", id |-> op[p].id, floor |-> floor]]
            /\ getq' = IF Running(k.who)
                       THEN [getq EXCEPT ![k.who] =
                               Append(@, [from |-> p, id |-> op[p].id, value |-> TRUE])]
                       ELSE getq
  /\ UNCHANGED <<up, disk, list, loc, streams, made, gets, faults, lists>>

\* A request for the value is answered with a stream, and the callback waits
\* until the caller's handler returns.
AnswerValue(q, r) ==
  /\ r \in NextRequest(q) /\ db[q] /\ r.value /\ up[r.from] = "up"
  /\ getq' = [getq EXCEPT ![q] = Tail(@)]
  /\ answering' = [answering EXCEPT ![q] = r.id]
  /\ getIn' = [getIn EXCEPT ![r.from] = @ \cup {[cp |-> file[q], from |-> q, id |-> r.id]}]
  /\ UNCHANGED <<up, disk, list, loc, op, setIn, writing, broke, made, gets, faults, lists>>

\* The callback panics when the stream fails, and on a nil db.
AnswerPanics(q) ==
  /\ \/ \E r \in NextRequest(q) :
          \/ (~db[q] \/ (r.value /\ up[r.from] # "up")) /\ UNCHANGED faults
          \/ r.value /\ Fault
     \/ answering[q] = Broken /\ UNCHANGED faults
  /\ GoesDown(q)
  /\ UNCHANGED disk

\* The caller takes the first value a handler offers on ServerGotGetReply,
\* be it the answer to an earlier call.
GotGetReply(p, r) ==
  /\ op[p].at = "fetch" /\ r \in getIn[p]
  /\ op' = [op EXCEPT ![p] = Adopts(r.cp, @.floor, r.id # @.id)]
  /\ getIn' = [getIn EXCEPT ![p] = @ \ {r}]
  /\ answering' = [q \in Peer |-> IF answering[q] = r.id THEN 0 ELSE answering[q]]
  /\ UNCHANGED <<up, disk, list, loc, getq, setIn, writing, broke, made, gets, faults, lists>>

\* Mutant: a call waits for its answers for ever.
TimesOut_Never(p) ==
  /\ op[p].at \in {"get", "fetch"} /\ FALSE
  /\ op' = [op EXCEPT ![p] = Idle]
  /\ UNCHANGED <<up, disk, list, loc, getq, streams, made, gets, faults, lists>>

TimesOut(p) ==
  /\ op[p].at \in {"get", "fetch"}
  /\ op' = [op EXCEPT ![p] = Idle]
  /\ UNCHANGED <<up, disk, list, loc, getq, streams, made, gets, faults, lists>>

\* The checkpoint is saved, one read from the own database included: its Who is
\* the name of the saver, which is neither of the names compared.
Adopt(p) ==
  /\ op[p].at = "adopt"
  /\ \E result \in {"ok", "err", "panic"} :
       LocalSet(p, op[p].cp, result) /\ SetReturns(p, result, Idle)

-----------------------------------------------------------------------------

Init ==
  /\ up = [p \in Peer |-> "up"]
  /\ file = [p \in Peer |-> 0] /\ db = [p \in Peer |-> TRUE] /\ sets = [p \in Peer |-> 0]
  /\ list = [p \in Peer |-> [members |-> Peer, lead |-> FirstLead]]
  /\ loc = [p \in Peer |-> {}]
  /\ op = [p \in Peer |-> Idle]
  /\ getq = [p \in Peer |-> <<>>] /\ answering = [p \in Peer |-> 0]
  /\ setIn = [p \in Peer |-> {}] /\ getIn = [p \in Peer |-> {}]
  /\ writing = [p \in Peer |-> 0]
  /\ made = <<>> /\ gets = 0 /\ faults = 0 /\ lists = 0
  /\ broke = FALSE /\ back = FALSE

\* What goroutines do when they can.
Works(p) ==
  \/ StartBackgroundCheckpointRecv(p)
  \/ BcastSet(p) \/ BcastSetReturns(p) \/ CloseAndRecvFails(p)
  \/ \E f \in Peer : SkipFollower(p, f) \/ ClientSendFile(p, f)
  \/ \E r \in setIn[p] : GotSetRequest(p, r)
  \/ WriteToBolt(p)
  \/ \E r \in NextRequest(p) : AnswerTime(p, r) \/ AnswerValue(p, r)
  \/ AnswerPanics(p)
  \/ LocalGet(p) \/ AskValue(p) \/ \E r \in getIn[p] : GotGetReply(p, r)
  \/ Adopt(p)

Next ==
  \E p \in Peer :
    \/ Works(p) \/ TimesOut(p)
    \/ LeadTransferCheckpoint(p) \/ GetLatest(p)
    \/ Crash(p) \/ (\E f \in Peer : SendPanics(p, f)) \/ Start(p)
    \/ NewList(p) \/ AgentLocQueries(p)

Spec == Init /\ [][Next]_vars

\* Goroutines that can go on do, and timeouts run out.  Nothing is assumed of
\* the clients, the membership lists, crashes or restarts.
FairSpec == Spec /\ \A p \in Peer : WF_vars(Works(p)) /\ WF_vars(TimesOut(p))

-----------------------------------------------------------------------------
(* Properties *)

Cp == 0 .. MaxMade

TypeOK ==
  /\ up \in [Peer -> {"down", "nats", "up"}]
  /\ file \in [Peer -> Cp] /\ db \in [Peer -> BOOLEAN] /\ sets \in [Peer -> 0 .. 2 * Compacts]
  /\ list \in [Peer -> [members : SUBSET Peer, lead : Peer]]
  /\ loc \in [Peer -> SUBSET Peer]
  /\ answering \in [Peer -> -1 .. MaxGets]
  /\ setIn \in [Peer -> SUBSET [cp : Cp \ {0}, from : Peer]]
  /\ getIn \in [Peer -> SUBSET [cp : Cp \ {0}, from : Peer, id : 1 .. MaxGets]]
  /\ writing \in [Peer -> Cp]
  /\ made \in Seq(Peer) /\ Len(made) <= MaxMade

\* A failed or interrupted LocalSet or Compact (boltsaver.go, compact.go) leaves
\* the old checkpoint or the new one, and nothing else changes the database.  A peer replaces a checkpoint by an older one only when it adopts the result
\* of GetLatest, when the two come from different leads, or after a lead lost a
\* stream: the checkpoints of one lead are written in their order, though the
\* follower acknowledges them before it writes them (gserv, SendFile).
CheckpointsKept ==
  [][\A p \in Peer : file'[p] # file[p] =>
       /\ \/ file'[p] = writing[p]
          \/ op[p].at \in {"bcast", "adopt"} /\ file'[p] = op[p].cp
       /\ file'[p] < file[p] =>
            broke \/ op[p].at = "adopt" \/ made[file'[p]] # made[file[p]]]_vars

\* GetLatest returns a checkpoint as recent as every one it was told of, unless
\* it took the answer to an earlier call, was alone when it asked for the value,
\* or a peer has gone back in time.
LatestIsLatest ==
  \A p \in Peer : op[p].at = "adopt" => op[p].cp >= op[p].floor \/ op[p].astray \/ back

\* When BcastSet is done, every follower it has not skipped has the checkpoint
\* or is writing it, as long as there was one lead and no fault.
FollowersHaveIt ==
  \A p \in Peer :
    op[p].at = "send" /\ op[p].todo = {} /\ faults = 0 /\ lists = 0 /\ gets = 0 =>
      \A f \in Peer \ {p} :
        f \in op[p].skipped \/ op[p].cp \in {file[f], writing[f]}

\* The handler of f's reply waits for a caller that no longer fetches.
Orphaned(q) ==
  \E p \in Peer : \E r \in getIn[p] : r.id = answering[q] /\ op[p].at # "fetch"

\* Every call of LeadTransferCheckpoint returns, and the callback of bcast_get
\* gets rid of a value, and can answer again, unless the call that asked for it
\* has timed out.
TransfersReturn ==
  \A p \in Peer :
    /\ op[p] # Idle ~> op[p] = Idle
    /\ answering[p] > 0 ~> answering[p] = 0 \/ Orphaned(p)

\* "if we have a new one (recognized by a more recent timestamp), then save it
\* to disk" (peer.go, StartBackgroundCheckpointRecv).
NewerOnDisk == [][\A p \in Peer : file'[p] >= file[p]]_vars
=============================================================================
