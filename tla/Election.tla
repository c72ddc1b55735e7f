------------------------------ MODULE Election -------------------------------
(***************************************************************************)
(* The ALLCALL leader election of the health agent (health/health.go).  An *)
(* agent pings all agents, collects their pongs for a heartbeat, and when  *)
(* the lease of the leader it knows has lapsed elects the lowest rank that *)
(* answered, granting it a lease.  Pongs go to a subject all agents listen *)
(* to, so an agent also collects the answers to the others' pings.         *)
(*                                                                         *)
(* An agent is named by its rank.  Leases are granted and judged by one    *)
(* agent's clock alone (a pong's lease is dropped on arrival), so one      *)
(* clock serves for all.  A ping and the pongs to it arrive before time    *)
(* moves on, or are lost; agents crash, start, and are partitioned.        *)
(***************************************************************************)
EXTENDS Integers, FiniteSets, FiniteSetsExt

CONSTANTS
  Agent,        \* ranks, a finite set of positive numbers
  LeaseTime, MaxClockSkew, BeatDur,
  MaxTime,      \* bound on now
  MaxFaults     \* bound on crashes, lost connections, partitions and joins

ASSUME ElectionAssumption ==
  /\ IsFiniteSet(Agent) /\ Agent \subseteq Nat \ {0}
  /\ LeaseTime \in Nat \ {0} /\ MaxClockSkew \in Nat /\ BeatDur \in Nat \ {0}
  /\ MaxTime \in Nat /\ MaxFaults \in Nat

VARIABLES
  now,
  phase,       \* "down", "waiting" for the beat, "collecting", or "panicked"
  myLocHasBeenSet,
  sloc,        \* the leader an agent knows: its rank (0: none) and its lease
  fromNoTime,  \* the agents whose pongs were collected
  curMember,   \* the set handed to the election
  prevMember,  \* the set of the round before
  due,         \* when the beat ends
  side,        \* the side of the partition each agent is on
  wire,        \* pongs in transit: <<from, to>>
  list,        \* the last membership list an agent's process has heard
  lastChange,  \* when agents or the network last changed
  faults

vars == <<now, phase, myLocHasBeenSet, sloc, fromNoTime, curMember, prevMember, due, side,
          wire, list, lastChange, faults>>

Up == {n \in Agent : phase[n] \in {"waiting", "collecting"}}

Connected(n) == {m \in Up : side[m] = side[n]}

-----------------------------------------------------------------------------
(* Election *)

\* AgentLocLessThan: an empty location sorts last, then the rank counts, then
\* the later lease.
AgentLocLessThan(i, j) ==
  IF i.id = 0 THEN FALSE
  ELSE IF j.id = 0 THEN TRUE
  ELSE IF i.id # j.id THEN i.id < j.id
  ELSE i.expires > j.expires

\* The location setLeader leaves for the contender new.
setLeader(cur, new) ==
  LET curExpired == cur.expires <= now
      newExpired == new.expires <= now
  IN  IF new.id = 0 \/ newExpired THEN cur
      ELSE IF curExpired THEN new
      ELSE IF AgentLocLessThan(new, cur) THEN new
      ELSE IF ~AgentLocLessThan(cur, new) /\ new.expires > cur.expires THEN new
      ELSE cur

\* Mutant: a leader is replaced as soon as a lower rank answers.
LeaseHolds_Never(prev) == FALSE

\* The lease of prev is honoured for MaxClockSkew longer than it says.
LeaseHolds(prev) == prev.expires + MaxClockSkew > now

\* When the lease of a leader elected now ends.
Granted == now + LeaseTime

\* The leader known after leaderLeaseCheck and, when the lease is over, setLeader.
Elect(prev, mems) ==
  IF LeaseHolds(prev) \/ mems = {} THEN prev
  ELSE setLeader(prev, [id |-> Min(mems), expires |-> Granted])

-----------------------------------------------------------------------------
(* The agent's loop *)

\* Mutant: an agent asks only when it is about to elect.
Pongs_Electing(n) ==
  IF LeaseHolds(sloc[n]) THEN {}
  ELSE (Connected(n) \cup {n}) \X (Connected(n) \cup {n})

\* allcall: all agents that hear n answer, and all that hear an answer get it.
Pongs(n) == (Connected(n) \cup {n}) \X (Connected(n) \cup {n})

NoList == [members |-> {}, lead |-> 0]

\* setMyLoc panics when the location was set before.
setMyLoc(n, next) == IF myLocHasBeenSet[n] THEN "panicked" ELSE next

\* Where setupNatsClient leaves the agent: the server cannot be reached, or the
\* location is set and the subscriptions are made.
setupNatsClient(n, next) == {"down", setMyLoc(n, next)}

\* Start: a new process connects and sends the first allcall.
Start(n) ==
  /\ phase[n] = "down"
  /\ "waiting" \in setupNatsClient(n, "waiting")
  /\ phase' = [phase EXCEPT ![n] = "waiting"]
  /\ myLocHasBeenSet' = [myLocHasBeenSet EXCEPT ![n] = TRUE]
  /\ list' = [list EXCEPT ![n] = NoList]
  /\ sloc' = [sloc EXCEPT ![n] = [id |-> 0, expires |-> 0]]
  /\ fromNoTime' = [fromNoTime EXCEPT ![n] = {}]
  /\ curMember' = [curMember EXCEPT ![n] = {}]
  /\ prevMember' = [prevMember EXCEPT ![n] = {}]
  /\ due' = [due EXCEPT ![n] = now + BeatDur]
  /\ wire' = wire \cup Pongs(n)
  /\ lastChange' = now
  /\ UNCHANGED <<now, side, faults>>

receivePong(f, t) ==
  /\ <<f, t>> \in wire
  /\ wire' = wire \ {<<f, t>>}
  /\ fromNoTime' = [fromNoTime EXCEPT ![t] =
       IF t \in Up /\ side[f] = side[t] THEN @ \cup {f} ELSE @]
  /\ UNCHANGED <<now, phase, myLocHasBeenSet, sloc, curMember, prevMember, due, side, list,
                 lastChange, faults>>

\* The beat ends: getSetAndClear takes a copy of the pongs ...
BeatEnds(n) ==
  /\ phase[n] = "waiting" /\ due[n] = now
  /\ phase' = [phase EXCEPT ![n] = "collecting"]
  /\ curMember' = [curMember EXCEPT ![n] = fromNoTime[n]]
  /\ UNCHANGED <<now, myLocHasBeenSet, sloc, fromNoTime, prevMember, due, side, wire, list,
                 lastChange, faults>>

\* Mutant: the set is not emptied.
Cleared_Kept(n) == fromNoTime[n] \cup {n}

\* What getSetAndClear leaves: the agent itself.
Cleared(n) == {n}

setDiff(a, b) == {m \in a : m \notin b}

\* The members Conclude reports as lost (subjMemberLost) and as gained
\* (subjMemberAdded); the agents only log such reports.
Lost(n) == setDiff(prevMember[n], curMember[n])
Gained(n) == setDiff(curMember[n], prevMember[n])

\* After an election the members that answered and the leader are published,
\* and all that hear n take the list.
Publish(n) ==
  list' = IF LeaseHolds(sloc[n]) \/ curMember[n] = {} THEN list
          ELSE [m \in Agent |->
                  IF m \in Connected(n)
                  THEN [members |-> curMember[n], lead |-> sloc'[n].id] ELSE list[m]]

\* ... and, not holding the lock between, empties the set, forgetting a pong that
\* came in between.  The agent elects, and the next round begins.
Conclude(n) ==
  /\ phase[n] = "collecting"
  /\ phase' = [phase EXCEPT ![n] = "waiting"]
  /\ fromNoTime' = [fromNoTime EXCEPT ![n] = Cleared(n)]
  /\ sloc' = [sloc EXCEPT ![n] = Elect(sloc[n], curMember[n])]
  /\ Publish(n)
  /\ prevMember' = [prevMember EXCEPT ![n] = curMember[n]]
  /\ curMember' = [curMember EXCEPT ![n] = {}]
  /\ due' = [due EXCEPT ![n] = now + BeatDur]
  /\ wire' = wire \cup Pongs(n)
  /\ UNCHANGED <<now, myLocHasBeenSet, side, lastChange, faults>>

\* The connection to the server is lost.  The agent stops when the server cannot
\* be reached; otherwise setupNatsClient sets the location a second time, at which
\* setMyLoc panics, or the round would go on.
needReconnect(n) ==
  /\ phase[n] = "waiting" /\ faults < MaxFaults
  /\ \E next \in setupNatsClient(n, "collecting") :
       /\ phase' = [phase EXCEPT ![n] = next]
       /\ myLocHasBeenSet' = [myLocHasBeenSet EXCEPT ![n] = next # "down"]
  /\ curMember' = [curMember EXCEPT ![n] = fromNoTime[n]]
  /\ faults' = faults + 1
  /\ lastChange' = now
  /\ UNCHANGED <<now, sloc, fromNoTime, prevMember, due, side, wire, list>>

-----------------------------------------------------------------------------
(* The environment *)

\* The process ends, by a crash or by Stop.
Crash(n) ==
  /\ n \in Up /\ faults < MaxFaults
  /\ phase' = [phase EXCEPT ![n] = "down"]
  /\ myLocHasBeenSet' = [myLocHasBeenSet EXCEPT ![n] = FALSE]
  /\ faults' = faults + 1
  /\ lastChange' = now
  /\ UNCHANGED <<now, sloc, fromNoTime, curMember, prevMember, due, side, wire, list>>

\* The network splits in two or joins.
Repartition ==
  /\ faults < MaxFaults
  /\ side' \in [Agent -> {1, 2}] /\ side' # side
  /\ faults' = faults + 1
  /\ lastChange' = now
  /\ UNCHANGED <<now, phase, myLocHasBeenSet, sloc, fromNoTime, curMember, prevMember, due, wire,
                 list>>

Tick ==
  /\ now < MaxTime
  /\ wire = {} /\ \A n \in Up : phase[n] = "waiting" /\ due[n] > now
  /\ now' = now + 1
  /\ UNCHANGED <<phase, myLocHasBeenSet, sloc, fromNoTime, curMember, prevMember, due, side, wire,
                 list, lastChange, faults>>

-----------------------------------------------------------------------------

Init ==
  /\ now = 0
  /\ phase = [n \in Agent |-> "down"]
  /\ myLocHasBeenSet = [n \in Agent |-> FALSE]
  /\ sloc = [n \in Agent |-> [id |-> 0, expires |-> 0]]
  /\ fromNoTime = [n \in Agent |-> {}]
  /\ curMember = [n \in Agent |-> {}]
  /\ prevMember = [n \in Agent |-> {}]
  /\ due = [n \in Agent |-> 0]
  /\ side = [n \in Agent |-> 1]
  /\ wire = {}
  /\ list = [n \in Agent |-> NoList]
  /\ lastChange = 0
  /\ faults = 0

Next ==
  \/ \E n \in Agent :
       Start(n) \/ BeatEnds(n) \/ Conclude(n) \/ needReconnect(n) \/ Crash(n)
  \/ \E f \in Agent, t \in Agent : receivePong(f, t)
  \/ Repartition
  \/ Tick

Spec == Init /\ [][Next]_vars

-----------------------------------------------------------------------------
(* Properties *)

TypeOK ==
  /\ now \in 0 .. MaxTime /\ lastChange \in 0 .. now
  /\ phase \in [Agent -> {"down", "waiting", "collecting", "panicked"}]
  /\ myLocHasBeenSet \in [Agent -> BOOLEAN]
  /\ sloc \in [Agent -> [id : Agent \cup {0}, expires : 0 .. now + LeaseTime]]
  /\ fromNoTime \in [Agent -> SUBSET Agent] /\ curMember \in [Agent -> SUBSET Agent]
  /\ side \in [Agent -> {1, 2}]
  /\ wire \subseteq Agent \X Agent
  /\ list \in [Agent -> [members : SUBSET Agent, lead : Agent \cup {0}]]
  /\ \A n \in Up : due[n] \in now .. now + BeatDur

\* Once nothing has changed for two heartbeats, a lease and the clock skew, every
\* agent knows the lowest rank it is connected to as leader: elections on all
\* sides end with one leader each, whatever agents knew before, although every
\* agent elects alone and getSetAndClear may forget pongs.  By then it has also
\* heard a list of all it is connected to with that leader, although every agent
\* publishes its own view (start).
Settled == now > lastChange + 2 * BeatDur + LeaseTime + MaxClockSkew

Converges ==
  Settled => \A n \in Up : phase[n] = "waiting" =>
    /\ sloc[n].id = Min(Connected(n))
    /\ list[n] = [members |-> Connected(n), lead |-> Min(Connected(n))]

\* Two heartbeats after the last change, the set against which an agent finds out
\* who was lost or gained is exactly those it is connected to, and it reports no
\* one: a member that is gone has been reported by then, and there is no false
\* alarm, whatever pongs getSetAndClear forgets (start, setDiff).
MembersTracked ==
  now > lastChange + 2 * BeatDur =>
    \A n \in Up : /\ prevMember[n] = Connected(n)
                  /\ phase[n] = "collecting" => Lost(n) = {} /\ Gained(n) = {}

\* An agent never exchanges a leader for another while the lease it has granted,
\* with the skew allowed for, runs (leaderLeaseCheck, setLeader).
LeaseHonoured ==
  [][\A n \in Agent : n \in Up /\ sloc[n].id # 0 /\ sloc'[n].id # sloc[n].id =>
       sloc[n].expires + MaxClockSkew <= now]_vars

\* "the two leader situation persists for at most one heartbeat term after the
\* network join" (ALGORITHM.md): after one full heartbeat that began when nothing
\* changed any more, no two connected agents both take themselves for the leader.
OneLeaderAfterJoin ==
  now > lastChange + 2 * BeatDur =>
    \A n \in Up : \A m \in Connected(n) \ {n} :
      ~(phase[n] = "waiting" /\ phase[m] = "waiting" /\ sloc[n].id = n /\ sloc[m].id = m)
=============================================================================
