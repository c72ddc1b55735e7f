--------------------------- MODULE Election_proofs ---------------------------
(***************************************************************************)
(* Proofs about Election, for any set of ranks, any lease, skew and        *)
(* heartbeat: a lease is honoured, the members are tracked, and elections  *)
(* converge.                                                               *)
(***************************************************************************)
EXTENDS Election, WellFoundedInduction, TLAPS

(***************************************************************************)
(* The inductive invariant.                                                *)
(***************************************************************************)

\* The round of n that ends at due[n] began BeatDur before that: this round, and
\* the round before it, began after the last change.
Fresh(n) == due[n] - BeatDur > lastChange
FreshBefore(n) == due[n] - 2 * BeatDur > lastChange

\* The types TypeOK leaves out.
RoundOK == due \in [Agent -> Nat] /\ prevMember \in [Agent -> SUBSET Agent]

\* Rounds end on time, and a process sets its location when it starts.
RoundInv(n) ==
  n \in Up => /\ phase[n] = "collecting" => due[n] = now
              /\ myLocHasBeenSet[n]

\* With no change since, a pong comes from an agent its receiver is connected to.
WireInv ==
  now > lastChange =>
    \A f, t \in Agent : <<f, t>> \in wire => f \in Up /\ t \in Up /\ side[f] = side[t]

\* The pongs to the allcall of this round are in transit until the clock moves,
\* and collected then.
PongsInv(n) ==
  n \in Up /\ Fresh(n) =>
    /\ fromNoTime[n] \subseteq Connected(n)
    /\ phase[n] = "waiting" =>
         \A m \in Connected(n) :
           m \in fromNoTime[n] \/ (now = due[n] - BeatDur /\ <<m, n>> \in wire)
    /\ phase[n] = "collecting" => curMember[n] = Connected(n)

PrevInv(n) == n \in Up /\ FreshBefore(n) => prevMember[n] = Connected(n)

\* What n knows after an election in which all it is connected to took part.
Informed(n) ==
  /\ sloc[n].id = Min(Connected(n))
  /\ list[n] = [members |-> Connected(n), lead |-> Min(Connected(n))]

\* A lease granted by an earlier election ends in time for another.
LeaseInv(n) ==
  n \in Up =>
    /\ Informed(n) \/ sloc[n].expires <= lastChange + BeatDur + LeaseTime
    /\ due[n] > lastChange + 2 * BeatDur + LeaseTime + MaxClockSkew => Informed(n)

ElectionInv ==
  /\ TypeOK /\ RoundOK /\ WireInv
  /\ \A n \in Agent : RoundInv(n) /\ PongsInv(n) /\ PrevInv(n) /\ LeaseInv(n)

-----------------------------------------------------------------------------
(* Facts about the operators *)

\* The lowest rank of a set of ranks is one of them.
LEMMA MinFacts ==
  ASSUME NEW S \in SUBSET Nat, S # {}
  PROVE  Min(S) \in S
<1>1. IsWellFoundedOn(OpToRel(<, Nat), Nat)
  BY NatLessThanWellFounded, Zenon
<1>2. PICK x \in S : \A y \in S : ~(<<y, x>> \in OpToRel(<, Nat))
  BY <1>1, WFMin, Zenon
<1>3. \A y \in S : ~(y < x)
  BY <1>2, Zenon DEF OpToRel
<1>4. \E z \in S : \A y \in S : z <= y
  BY <1>3
<1> QED
  BY <1>4, Zenon DEF Min

\* Which agents are connected depends on who is up and on the partition.
LEMMA ConnectedSame ==
  ASSUME Up' = Up, UNCHANGED side, NEW n
  PROVE  Connected(n)' = Connected(n)
BY Zenon DEF Connected

\* An election takes place when the lease is over, and then the lowest rank that
\* answered is granted a lease, whoever was the leader before.
LEMMA ElectFacts ==
  ASSUME TypeOK, NEW n \in Agent, NEW mems \in SUBSET Agent
  PROVE  /\ LeaseHolds(sloc[n]) \/ mems = {} => Elect(sloc[n], mems) = sloc[n]
         /\ ~(LeaseHolds(sloc[n]) \/ mems = {}) =>
              /\ Elect(sloc[n], mems) = [id |-> Min(mems), expires |-> now + LeaseTime]
              /\ sloc[n].expires + MaxClockSkew <= now
         /\ Elect(sloc[n], mems) \in [id : Agent \cup {0}, expires : 0 .. now + LeaseTime]
<1>1. now \in Nat /\ sloc[n] \in [id : Agent \cup {0}, expires : 0 .. now + LeaseTime]
  BY ElectionAssumption DEF TypeOK
<1>2. sloc[n].expires \in Nat
  BY <1>1, ElectionAssumption
<1>3. CASE LeaseHolds(sloc[n]) \/ mems = {}
  BY <1>1, <1>3, Zenon DEF Elect
<1>4. CASE ~(LeaseHolds(sloc[n]) \/ mems = {})
  <2> DEFINE new == [id |-> Min(mems), expires |-> now + LeaseTime]
  <2>1. Min(mems) \in Agent /\ Min(mems) # 0
    BY <1>4, MinFacts, ElectionAssumption, Zenon
  <2>2. sloc[n].expires + MaxClockSkew <= now /\ sloc[n].expires <= now
    BY <1>1, <1>2, <1>4, ElectionAssumption DEF LeaseHolds
  <2>3. Elect(sloc[n], mems) = setLeader(sloc[n], new)
    BY <1>4, Zenon DEF Elect, Granted
  <2>4. ~(new.expires <= now) /\ new.id # 0
    BY <1>1, <2>1, ElectionAssumption
  <2>5. setLeader(sloc[n], new) = new
    BY <2>2, <2>4, Zenon DEF setLeader
  <2>6. new \in [id : Agent \cup {0}, expires : 0 .. now + LeaseTime]
    BY <1>1, <2>1, ElectionAssumption
  <2> QED
    BY <1>4, <2>2, <2>3, <2>5, <2>6, Zenon
<1> QED
  BY <1>3, <1>4, Zenon

-----------------------------------------------------------------------------
(* Changes: agents start, end and lose their server, the network splits *)

\* After a change everything that is said of the time since the last one is still
\* to come.
LEMMA ChangeStep ==
  ASSUME TypeOK, TypeOK', RoundOK', \A n \in Agent : RoundInv(n)', now' = now, lastChange' = now
  PROVE  ElectionInv'
<1>1. now \in Nat /\ BeatDur \in Nat \ {0} /\ LeaseTime \in Nat /\ MaxClockSkew \in Nat
  BY ElectionAssumption DEF TypeOK
<1>2. ASSUME NEW n \in Agent, n \in Up'
      PROVE  due'[n] <= now + BeatDur /\ due'[n] \in Nat
             /\ sloc'[n].expires <= now + LeaseTime /\ sloc'[n].expires \in Int
  BY <1>1, <1>2 DEF TypeOK, RoundOK
<1>3. WireInv'
  BY <1>1 DEF WireInv
<1>4. ASSUME NEW n \in Agent PROVE PongsInv(n)' /\ PrevInv(n)'
  BY <1>1, <1>2 DEF PongsInv, PrevInv, Fresh, FreshBefore
<1>5. ASSUME NEW n \in Agent PROVE LeaseInv(n)'
  BY <1>1, <1>2 DEF LeaseInv
<1> QED
  BY <1>3, <1>4, <1>5, Zenon DEF ElectionInv

\* A process starts, and its round with it.
LEMMA StartStep ==
  ASSUME ElectionInv, NEW n \in Agent, Start(n)
  PROVE  ElectionInv'
<1>1. TypeOK /\ RoundOK /\ \A m \in Agent : RoundInv(m)
  BY Zenon DEF ElectionInv
<1>2. now \in Nat /\ BeatDur \in Nat \ {0} /\ LeaseTime \in Nat
  BY <1>1, ElectionAssumption DEF TypeOK
<1>3. \A m \in Agent : m \in Up' => m = n \/ (m \in Up /\ phase'[m] = phase[m])
  BY <1>1, Zenon DEF Up, Start, TypeOK
<1>4. RoundOK'
  BY <1>1, <1>2 DEF Start, RoundOK
<1>5. TypeOK'
  <2>1. \A m \in Up' : due'[m] \in now' .. now' + BeatDur
    BY <1>1, <1>2, <1>3 DEF Start, TypeOK, RoundOK, Up
  <2>2. wire' \subseteq Agent \X Agent
    BY <1>1, Zenon DEF Start, Pongs, Connected, Up, TypeOK
  <2>3. sloc' \in [Agent -> [id : Agent \cup {0}, expires : 0 .. now' + LeaseTime]]
    BY <1>1, <1>2 DEF Start, TypeOK
  <2>4. list' \in [Agent -> [members : SUBSET Agent, lead : Agent \cup {0}]]
    BY <1>1, Zenon DEF Start, TypeOK, NoList
  <2>5. phase' \in [Agent -> {"down", "waiting", "collecting", "panicked"}]
        /\ myLocHasBeenSet' \in [Agent -> BOOLEAN] /\ side' \in [Agent -> {1, 2}]
        /\ fromNoTime' \in [Agent -> SUBSET Agent] /\ curMember' \in [Agent -> SUBSET Agent]
    BY <1>1, Zenon DEF Start, TypeOK
  <2>6. now' \in 0 .. MaxTime /\ lastChange' \in 0 .. now'
    BY <1>1, <1>2 DEF Start, TypeOK
  <2> QED
    BY <2>1, <2>2, <2>3, <2>4, <2>5, <2>6, Zenon DEF TypeOK
<1>6. \A m \in Agent : RoundInv(m)'
  BY <1>1, <1>3, Zenon DEF Start, RoundInv, TypeOK, RoundOK
<1> QED
  BY <1>1, <1>4, <1>5, <1>6, ChangeStep, Zenon DEF Start

\* A step that ends processes or changes the partition, and nothing else.
LEMMA EndStep ==
  ASSUME ElectionInv, TypeOK', UNCHANGED <<now, due, prevMember>>, lastChange' = now,
         \A m \in Agent : m \in Up' => /\ m \in Up /\ phase'[m] = phase[m]
                                       /\ myLocHasBeenSet'[m] = myLocHasBeenSet[m]
  PROVE  ElectionInv'
<1>1. TypeOK /\ RoundOK /\ \A m \in Agent : RoundInv(m)
  BY Zenon DEF ElectionInv
<1>2. RoundOK' /\ \A m \in Agent : RoundInv(m)'
  BY <1>1, Zenon DEF RoundOK, RoundInv
<1> QED
  BY <1>1, <1>2, ChangeStep, Zenon

\* Losing the server ends the process, as the location was set when it started:
\* it stops or panics.
LEMMA ReconnectStep ==
  ASSUME ElectionInv, NEW n \in Agent, needReconnect(n)
  PROVE  ElectionInv'
<1>1. TypeOK /\ RoundOK /\ n \in Up /\ myLocHasBeenSet[n]
  BY Zenon DEF ElectionInv, needReconnect, Up, RoundInv
<1>2. PICK next \in {"down", "panicked"} :
        /\ phase' = [phase EXCEPT ![n] = next]
        /\ myLocHasBeenSet' = [myLocHasBeenSet EXCEPT ![n] = next # "down"]
  BY <1>1, Zenon DEF needReconnect, setupNatsClient, setMyLoc
<1>3. \A m \in Agent : m \in Up' => /\ m \in Up /\ phase'[m] = phase[m]
                                    /\ myLocHasBeenSet'[m] = myLocHasBeenSet[m]
  BY <1>1, <1>2, Zenon DEF Up, TypeOK
<1>4. TypeOK'
  <2>1. phase' \in [Agent -> {"down", "waiting", "collecting", "panicked"}]
        /\ myLocHasBeenSet' \in [Agent -> BOOLEAN]
    BY <1>1, <1>2, Zenon DEF TypeOK
  <2>2. curMember' \in [Agent -> SUBSET Agent] /\ lastChange' \in 0 .. now'
    BY <1>1 DEF needReconnect, TypeOK
  <2>3. \A m \in Up' : m \in Up
    BY <1>3, Zenon DEF Up
  <2> QED
    BY <1>1, <2>1, <2>2, <2>3, Zenon DEF needReconnect, TypeOK
<1> QED
  BY <1>3, <1>4, EndStep, Zenon DEF needReconnect

LEMMA CrashStep ==
  ASSUME ElectionInv, NEW n \in Agent, Crash(n)
  PROVE  ElectionInv'
<1>1. TypeOK /\ RoundOK
  BY Zenon DEF ElectionInv
<1>2. \A m \in Agent : m \in Up' => /\ m \in Up /\ phase'[m] = phase[m]
                                    /\ myLocHasBeenSet'[m] = myLocHasBeenSet[m]
  BY <1>1, Zenon DEF Crash, Up, TypeOK
<1>3. TypeOK'
  <2>1. phase' \in [Agent -> {"down", "waiting", "collecting", "panicked"}]
        /\ myLocHasBeenSet' \in [Agent -> BOOLEAN] /\ lastChange' \in 0 .. now'
    BY <1>1 DEF Crash, TypeOK
  <2>2. \A m \in Up' : m \in Up
    BY <1>2, Zenon DEF Up
  <2> QED
    BY <1>1, <2>1, <2>2, Zenon DEF Crash, TypeOK
<1> QED
  BY <1>2, <1>3, EndStep, Zenon DEF Crash

LEMMA RepartitionStep ==
  ASSUME ElectionInv, Repartition
  PROVE  ElectionInv'
<1>1. TypeOK /\ Up' = Up
  BY Zenon DEF ElectionInv, Repartition, Up
<1>2. TypeOK'
  BY <1>1 DEF Repartition, TypeOK
<1> QED
  BY <1>1, <1>2, EndStep, Zenon DEF Repartition

-----------------------------------------------------------------------------
(* The steps between changes *)

\* A pong moves from the network to the set of its receiver.
LEMMA PongStep ==
  ASSUME ElectionInv, NEW f \in Agent, NEW t \in Agent, receivePong(f, t)
  PROVE  ElectionInv'
<1>1. TypeOK /\ RoundOK /\ WireInv
  BY Zenon DEF ElectionInv
<1>2. /\ Up' = Up
      /\ UNCHANGED <<now, phase, myLocHasBeenSet, sloc, curMember, prevMember, due, side, list,
                     lastChange>>
      /\ wire' = wire \ {<<f, t>>} /\ <<f, t>> \in wire
      /\ fromNoTime' = [fromNoTime EXCEPT ![t] =
           IF t \in Up /\ side[f] = side[t] THEN @ \cup {f} ELSE @]
  BY Zenon DEF receivePong, Up
<1>3. \A n \in Agent : Connected(n)' = Connected(n)
  BY <1>2, ConnectedSame, Zenon
<1>4. TypeOK' /\ RoundOK'
  BY <1>1, <1>2 DEF TypeOK, RoundOK
<1>5. WireInv'
  BY <1>1, <1>2, Zenon DEF WireInv
<1>6. ASSUME NEW n \in Agent PROVE RoundInv(n)' /\ PrevInv(n)'
  BY <1>2, <1>3, <1>6, Zenon DEF ElectionInv, RoundInv, PrevInv, FreshBefore
<1>7. ASSUME NEW n \in Agent PROVE LeaseInv(n)'
  BY <1>2, <1>3, <1>7, Zenon DEF ElectionInv, LeaseInv, Informed
<1>8. ASSUME NEW n \in Agent, n \in Up, Fresh(n) PROVE PongsInv(n)'
  <2>1. PongsInv(n)
    BY Zenon DEF ElectionInv
  <2>2. now > lastChange
    BY <1>1, <1>8, ElectionAssumption DEF Fresh, TypeOK, RoundOK
  <2>3. f \in Up /\ t \in Up /\ side[f] = side[t] /\ fromNoTime'[t] = fromNoTime[t] \cup {f}
    BY <1>1, <1>2, <2>2, Zenon DEF WireInv, TypeOK
  <2>4. fromNoTime'[n] = IF n = t THEN fromNoTime[n] \cup {f} ELSE fromNoTime[n]
    BY <1>1, <1>2, <2>3, Zenon DEF TypeOK
  <2>5. f \in Connected(t)
    BY <2>3, Zenon DEF Connected
  <2>6. fromNoTime'[n] \subseteq Connected(n)
    BY <1>8, <2>1, <2>4, <2>5, Zenon DEF PongsInv
  <2>7. \A m \in Agent : <<m, n>> \in wire => <<m, n>> \in wire' \/ m \in fromNoTime'[n]
    BY <1>2, <2>4
  <2>8. Connected(n) \subseteq Agent
    BY Zenon DEF Connected, Up
  <2> QED
    BY <1>2, <1>3, <1>8, <2>1, <2>4, <2>6, <2>7, <2>8 DEF PongsInv, Fresh
<1>9. ASSUME NEW n \in Agent PROVE PongsInv(n)'
  BY <1>2, <1>8, Zenon DEF PongsInv, Fresh
<1> QED
  BY <1>4, <1>5, <1>6, <1>7, <1>9, Zenon DEF ElectionInv

\* The copy is taken at the end of a beat, when the pongs to an allcall at its
\* beginning have come in.
LEMMA BeatEndsStep ==
  ASSUME ElectionInv, NEW n \in Agent, BeatEnds(n)
  PROVE  ElectionInv'
<1>1. TypeOK /\ RoundOK /\ WireInv /\ PongsInv(n)
  BY Zenon DEF ElectionInv
<1>2. /\ UNCHANGED <<now, myLocHasBeenSet, sloc, fromNoTime, prevMember, due, side, wire, list,
                     lastChange>>
      /\ phase[n] = "waiting" /\ due[n] = now
      /\ phase' = [phase EXCEPT ![n] = "collecting"]
      /\ curMember' = [curMember EXCEPT ![n] = fromNoTime[n]]
  BY Zenon DEF BeatEnds
<1>3. Up' = Up /\ n \in Up
  BY <1>1, <1>2, Zenon DEF Up, TypeOK
<1>4. \A m \in Agent : Connected(m)' = Connected(m)
  BY <1>2, <1>3, ConnectedSame, Zenon
<1>5. TypeOK' /\ RoundOK'
  <2>1. phase' \in [Agent -> {"down", "waiting", "collecting", "panicked"}]
        /\ curMember' \in [Agent -> SUBSET Agent]
    BY <1>1, <1>2, Zenon DEF TypeOK
  <2> QED
    BY <1>1, <1>2, <1>3, <2>1, Zenon DEF TypeOK, RoundOK
<1>6. WireInv'
  BY <1>1, <1>2, <1>3, Zenon DEF WireInv
<1>7. ASSUME NEW m \in Agent PROVE RoundInv(m)' /\ PrevInv(m)' /\ LeaseInv(m)'
  BY <1>1, <1>2, <1>3, <1>4, Zenon DEF ElectionInv, RoundInv, PrevInv, FreshBefore, LeaseInv, Informed,
     TypeOK
<1>8. PongsInv(n)'
  <2>1. Fresh(n) => fromNoTime[n] = Connected(n)
    <3>1. now # due[n] - BeatDur
      BY <1>1, <1>2, ElectionAssumption DEF TypeOK
    <3> QED
      BY <1>1, <1>2, <1>3, <3>1, Zenon DEF PongsInv
  <2>2. curMember'[n] = fromNoTime[n] /\ phase'[n] = "collecting"
    BY <1>1, <1>2, Zenon DEF TypeOK
  <2> QED
    BY <1>2, <1>3, <1>4, <2>1, <2>2, Zenon DEF PongsInv, Fresh
<1>9. ASSUME NEW m \in Agent, m # n PROVE PongsInv(m)'
  <2>1. PongsInv(m) /\ curMember'[m] = curMember[m] /\ phase'[m] = phase[m]
    BY <1>1, <1>2, <1>9, Zenon DEF ElectionInv, TypeOK
  <2> QED
    BY <1>2, <1>3, <1>4, <2>1, Zenon DEF PongsInv, Fresh
<1> QED
  BY <1>5, <1>6, <1>7, <1>8, <1>9, Zenon DEF ElectionInv

\* The clock moves when all pongs have come in and no round is overdue.
LEMMA TickStep ==
  ASSUME ElectionInv, Tick
  PROVE  ElectionInv'
<1>1. TypeOK /\ RoundOK
  BY Zenon DEF ElectionInv
<1>2. /\ UNCHANGED <<phase, myLocHasBeenSet, sloc, fromNoTime, curMember, prevMember, due, side,
                     wire, list, lastChange>>
      /\ wire = {} /\ now' = now + 1 /\ now < MaxTime
      /\ \A n \in Up : phase[n] = "waiting" /\ due[n] > now
  BY Zenon DEF Tick
<1>3. Up' = Up
  BY <1>2, Zenon DEF Up
<1>4. \A n \in Agent : Connected(n)' = Connected(n)
  BY <1>2, <1>3, ConnectedSame, Zenon
<1>5. TypeOK' /\ RoundOK'
  <2>1. now' \in 0 .. MaxTime /\ lastChange' \in 0 .. now'
    BY <1>1, <1>2, ElectionAssumption DEF TypeOK
  <2>2. \A n \in Up' : due'[n] \in now' .. now' + BeatDur
    BY <1>1, <1>2, <1>3, ElectionAssumption DEF TypeOK
  <2>3. sloc' \in [Agent -> [id : Agent \cup {0}, expires : 0 .. now' + LeaseTime]]
    <3>1. \A e \in 0 .. now + LeaseTime : e \in 0 .. now' + LeaseTime
      BY <1>1, <1>2, ElectionAssumption DEF TypeOK
    <3> QED
      BY <1>1, <1>2, <3>1, Zenon DEF TypeOK
  <2> QED
    BY <1>1, <1>2, <2>1, <2>2, <2>3, Zenon DEF TypeOK, RoundOK
<1>6. WireInv'
  BY <1>2, Zenon DEF WireInv
<1>7. ASSUME NEW n \in Agent PROVE RoundInv(n)' /\ PrevInv(n)' /\ LeaseInv(n)'
  BY <1>2, <1>3, <1>4, Zenon DEF ElectionInv, RoundInv, PrevInv, FreshBefore, LeaseInv, Informed
<1>8. ASSUME NEW n \in Agent PROVE PongsInv(n)'
  BY <1>2, <1>3, <1>4, Zenon DEF ElectionInv, PongsInv, Fresh
<1> QED
  BY <1>5, <1>6, <1>7, <1>8, Zenon DEF ElectionInv

\* What an agent publishes after an election with all it is connected to is what
\* each of them should know; an earlier election grants a lease that ends in time.
LEMMA ConcludeLease ==
  ASSUME ElectionInv, NEW n \in Agent, Conclude(n), NEW m \in Agent
  PROVE  LeaseInv(m)'
<1>1. TypeOK /\ RoundOK /\ PongsInv(n) /\ LeaseInv(n) /\ LeaseInv(m)
  BY Zenon DEF ElectionInv
<1>2. /\ phase[n] = "collecting" /\ Up' = Up /\ n \in Up /\ due[n] = now
      /\ UNCHANGED <<now, side, lastChange>>
      /\ sloc' = [sloc EXCEPT ![n] = Elect(sloc[n], curMember[n])]
      /\ due' = [due EXCEPT ![n] = now + BeatDur]
  BY <1>1 DEF ElectionInv, RoundInv, Conclude, Up, TypeOK
<1>3. \A k \in Agent : Connected(k)' = Connected(k)
  BY <1>2, ConnectedSame, Zenon
<1>4. /\ now \in Nat /\ lastChange \in Nat /\ BeatDur \in Nat \ {0}
      /\ LeaseTime \in Nat \ {0} /\ MaxClockSkew \in Nat
  BY <1>1, ElectionAssumption DEF TypeOK
<1>5. \A k \in Agent : /\ sloc[k].expires \in Nat /\ sloc[k].expires <= now + LeaseTime
                       /\ due[k] \in Nat /\ (k \in Up => due[k] <= now + BeatDur)
  BY <1>1, <1>4 DEF TypeOK, RoundOK
<1>6. n \in Connected(n) /\ curMember[n] \in SUBSET Agent
  BY <1>1, <1>2, Zenon DEF Connected, TypeOK
<1>7. now > lastChange + BeatDur => curMember[n] = Connected(n)
  BY <1>1, <1>2, <1>4 DEF PongsInv, Fresh
<1>8. /\ sloc'[n] = Elect(sloc[n], curMember[n]) /\ due'[n] = now + BeatDur
      /\ m # n => sloc'[m] = sloc[m] /\ due'[m] = due[m]
  BY <1>1, <1>2, Zenon DEF TypeOK, RoundOK
<1>9. CASE LeaseHolds(sloc[n]) \/ curMember[n] = {}
  <2>1. list' = list /\ sloc'[n] = sloc[n]
    BY <1>1, <1>6, <1>8, <1>9, ElectFacts, Zenon DEF Conclude, Publish
  <2>2. m # n => LeaseInv(m)'
    BY <1>1, <1>2, <1>3, <1>8, <2>1, Zenon DEF LeaseInv, Informed
  <2>3. Informed(n)' = Informed(n)
    BY <1>3, <2>1, Zenon DEF Informed
  <2>4. due'[n] > lastChange + 2 * BeatDur + LeaseTime + MaxClockSkew => Informed(n)
    <3>1. SUFFICES ASSUME now > lastChange + BeatDur + LeaseTime + MaxClockSkew
                   PROVE  Informed(n)
      BY <1>4, <1>8
    <3>2. curMember[n] # {}
      BY <1>4, <1>6, <1>7, <3>1
    <3>3. sloc[n].expires > lastChange + BeatDur + LeaseTime
      BY <1>4, <1>5, <1>9, <3>1, <3>2 DEF LeaseHolds
    <3> QED
      BY <1>1, <1>2, <1>4, <1>5, <3>3 DEF LeaseInv
  <2>5. LeaseInv(n)'
    BY <1>1, <1>2, <1>8, <2>1, <2>3, <2>4, Zenon DEF LeaseInv
  <2> QED
    BY <2>2, <2>5, Zenon
<1>10. CASE ~(LeaseHolds(sloc[n]) \/ curMember[n] = {})
  <2> DEFINE heard == [members |-> curMember[n], lead |-> Min(curMember[n])]
  <2>1. sloc'[n] = [id |-> Min(curMember[n]), expires |-> now + LeaseTime]
    BY <1>1, <1>6, <1>8, <1>10, ElectFacts, Zenon
  <2>2. list'[m] = IF m \in Connected(n) THEN heard ELSE list[m]
    BY <1>10, <2>1 DEF Conclude, Publish
  <2>3. CASE now > lastChange + BeatDur
    <3>1. m \in Connected(n) => Connected(m) = Connected(n)
      BY Zenon DEF Connected
    <3>2. m = n => Informed(m)'
      BY <1>3, <1>6, <1>7, <2>1, <2>2, <2>3 DEF Informed
    <3>3. m # n /\ Informed(m) => Informed(m)'
      BY <1>3, <1>7, <1>8, <2>2, <2>3, <3>1, Zenon DEF Informed
    <3> QED
      BY <1>1, <1>2, <1>8, <3>2, <3>3, Zenon DEF LeaseInv
  <2>4. CASE ~(now > lastChange + BeatDur)
    <3>1. sloc'[m].expires <= now + LeaseTime /\ sloc'[m].expires \in Nat
      BY <1>4, <1>5, <1>8, <2>1
    <3>2. m \in Up => due'[m] <= now + BeatDur /\ due'[m] \in Nat
      BY <1>4, <1>5, <1>8
    <3> QED
      BY <1>2, <1>4, <2>4, <3>1, <3>2 DEF LeaseInv
  <2> QED
    BY <2>3, <2>4, Zenon
<1> QED
  BY <1>9, <1>10, Zenon

LEMMA ConcludeStep ==
  ASSUME ElectionInv, NEW n \in Agent, Conclude(n)
  PROVE  ElectionInv'
<1>1. TypeOK /\ RoundOK /\ WireInv /\ PongsInv(n)
  BY Zenon DEF ElectionInv
<1>2. /\ phase[n] = "collecting" /\ Up' = Up /\ n \in Up /\ due[n] = now
      /\ UNCHANGED <<now, myLocHasBeenSet, side, lastChange>>
      /\ phase' = [phase EXCEPT ![n] = "waiting"]
      /\ fromNoTime' = [fromNoTime EXCEPT ![n] = {n}]
      /\ sloc' = [sloc EXCEPT ![n] = Elect(sloc[n], curMember[n])]
      /\ prevMember' = [prevMember EXCEPT ![n] = curMember[n]]
      /\ curMember' = [curMember EXCEPT ![n] = {}]
      /\ due' = [due EXCEPT ![n] = now + BeatDur]
      /\ wire' = wire \cup Pongs(n)
  BY <1>1 DEF ElectionInv, RoundInv, Conclude, Cleared, Up, TypeOK
<1>3. \A k \in Agent : Connected(k)' = Connected(k)
  BY <1>2, ConnectedSame, Zenon
<1>4. now \in Nat /\ lastChange \in Nat /\ BeatDur \in Nat \ {0} /\ due[n] \in Nat
  BY <1>1, ElectionAssumption DEF TypeOK, RoundOK
<1>5. n \in Connected(n) /\ Connected(n) \subseteq Up /\ Up \subseteq Agent
      /\ Pongs(n) = Connected(n) \X Connected(n)
  BY <1>2 DEF Connected, Up, Pongs
<1>6. TypeOK' /\ RoundOK'
  <2>1. /\ phase' \in [Agent -> {"down", "waiting", "collecting", "panicked"}]
        /\ fromNoTime' \in [Agent -> SUBSET Agent] /\ curMember' \in [Agent -> SUBSET Agent]
        /\ wire' \subseteq Agent \X Agent
    BY <1>1, <1>2, <1>5, Zenon DEF TypeOK
  <2>2. RoundOK' /\ \A m \in Up' : due'[m] \in now' .. now' + BeatDur
    BY <1>1, <1>2, <1>4 DEF TypeOK, RoundOK
  <2>3. sloc' \in [Agent -> [id : Agent \cup {0}, expires : 0 .. now' + LeaseTime]]
    <3>1. Elect(sloc[n], curMember[n]) \in [id : Agent \cup {0}, expires : 0 .. now + LeaseTime]
      BY <1>1, ElectFacts, Zenon DEF TypeOK
    <3> QED
      BY <1>1, <1>2, <3>1, Zenon DEF TypeOK
  <2>4. list' \in [Agent -> [members : SUBSET Agent, lead : Agent \cup {0}]]
    <3>1. sloc'[n].id \in Agent \cup {0} /\ curMember[n] \in SUBSET Agent
      BY <1>1, <2>3, Zenon DEF TypeOK
    <3> QED
      BY <1>1, <3>1, Zenon DEF Conclude, Publish, TypeOK
  <2> QED
    BY <1>1, <1>2, <2>1, <2>2, <2>3, <2>4, Zenon DEF TypeOK
<1>7. WireInv'
  <2>1. \A f, t \in Agent : <<f, t>> \in Pongs(n) => f \in Up /\ t \in Up /\ side[f] = side[t]
    BY <1>5, Zenon DEF Connected
  <2> QED
    BY <1>1, <1>2, <2>1, Zenon DEF WireInv
<1>8. ASSUME NEW m \in Agent, m # n PROVE RoundInv(m)' /\ PongsInv(m)' /\ PrevInv(m)'
  <2>1. /\ phase'[m] = phase[m] /\ due'[m] = due[m] /\ fromNoTime'[m] = fromNoTime[m]
        /\ curMember'[m] = curMember[m] /\ prevMember'[m] = prevMember[m]
    BY <1>1, <1>2, <1>8, Zenon DEF TypeOK, RoundOK
  <2>2. RoundInv(m) /\ PongsInv(m) /\ PrevInv(m)
    BY Zenon DEF ElectionInv
  <2>3. RoundInv(m)' /\ PrevInv(m)'
    BY <1>2, <1>3, <2>1, <2>2, Zenon DEF RoundInv, PrevInv, FreshBefore
  <2>4. PongsInv(m)'
    BY <1>2, <1>3, <2>1, <2>2, Zenon DEF PongsInv, Fresh
  <2> QED
    BY <2>3, <2>4, Zenon
<1>9. RoundInv(n)' /\ PongsInv(n)' /\ PrevInv(n)'
  <2>1. /\ phase'[n] = "waiting" /\ due'[n] = now + BeatDur /\ fromNoTime'[n] = {n}
        /\ prevMember'[n] = curMember[n]
    BY <1>1, <1>2, Zenon DEF TypeOK, RoundOK
  <2>2. RoundInv(n)'
    BY <1>2, <2>1, Zenon DEF ElectionInv, RoundInv
  <2>3. now' = due'[n] - BeatDur
    BY <1>2, <1>4, <2>1
  <2>4. \A m \in Connected(n) : <<m, n>> \in wire'
    BY <1>2, <1>5, Zenon
  <2>5. PongsInv(n)'
    BY <1>3, <1>5, <2>1, <2>3, <2>4, Zenon DEF PongsInv
  <2>6. FreshBefore(n)' => Fresh(n)
    BY <1>2, <1>4, <2>1 DEF FreshBefore, Fresh
  <2>7. PrevInv(n)'
    BY <1>1, <1>2, <1>3, <2>1, <2>6, Zenon DEF PrevInv, PongsInv
  <2> QED
    BY <2>2, <2>5, <2>7, Zenon
<1> QED
  BY <1>6, <1>7, <1>8, <1>9, ConcludeLease, Zenon DEF ElectionInv

-----------------------------------------------------------------------------
(* The results *)

\* The types, the pongs of a round, the members of the round before and the leases
\* are as ElectionInv says in every reachable state (the loop of start in
\* health.go, with allcall, getSetAndClear, leaderLeaseCheck and setLeader).
THEOREM ElectionInvCorrect == Spec => []ElectionInv
<1>1. Init => ElectionInv
  <2> SUFFICES ASSUME Init PROVE ElectionInv
    BY Zenon
  <2>1. Up = {}
    BY Zenon DEF Init, Up
  <2>2. now = 0 /\ lastChange = 0 /\ 0 \in 0 .. MaxTime /\ 0 \in 0 .. now + LeaseTime /\ 0 \in Nat
        /\ 0 \in 0 .. now
    BY ElectionAssumption DEF Init
  <2>3. TypeOK /\ RoundOK
    BY <2>1, <2>2, Zenon DEF Init, TypeOK, RoundOK, NoList
  <2>4. WireInv
    BY Zenon DEF Init, WireInv
  <2> QED
    BY <2>1, <2>3, <2>4, Zenon DEF ElectionInv, RoundInv, PongsInv, PrevInv, LeaseInv
<1>2. ElectionInv /\ [Next]_vars => ElectionInv'
  <2> SUFFICES ASSUME ElectionInv, [Next]_vars PROVE ElectionInv'
    BY Zenon
  <2>1. ASSUME NEW n \in Agent, Start(n) PROVE ElectionInv'
    BY <2>1, StartStep, Zenon
  <2>2. ASSUME NEW n \in Agent, BeatEnds(n) PROVE ElectionInv'
    BY <2>2, BeatEndsStep, Zenon
  <2>3. ASSUME NEW n \in Agent, Conclude(n) PROVE ElectionInv'
    BY <2>3, ConcludeStep, Zenon
  <2>4. ASSUME NEW n \in Agent, needReconnect(n) PROVE ElectionInv'
    BY <2>4, ReconnectStep, Zenon
  <2>5. ASSUME NEW n \in Agent, Crash(n) PROVE ElectionInv'
    BY <2>5, CrashStep, Zenon
  <2>6. ASSUME NEW f \in Agent, NEW t \in Agent, receivePong(f, t) PROVE ElectionInv'
    BY <2>6, PongStep, Zenon
  <2>7. CASE Repartition
    BY <2>7, RepartitionStep, Zenon
  <2>8. CASE Tick
    BY <2>8, TickStep, Zenon
  <2>9. CASE UNCHANGED vars
    <3>1. Up' = Up
      BY <2>9, Zenon DEF vars, Up
    <3>2. \A n \in Agent : Connected(n)' = Connected(n)
      BY <2>9, <3>1, ConnectedSame, Zenon DEF vars
    <3>3. TypeOK' /\ RoundOK' /\ WireInv'
      BY <2>9, <3>1, Zenon DEF vars, ElectionInv, TypeOK, RoundOK, WireInv
    <3>4. ASSUME NEW n \in Agent
          PROVE  RoundInv(n)' /\ PongsInv(n)' /\ PrevInv(n)' /\ LeaseInv(n)'
      BY <2>9, <3>1, <3>2, Zenon DEF vars, ElectionInv, RoundInv, PongsInv, PrevInv, LeaseInv, Informed,
         Fresh, FreshBefore
    <3> QED
      BY <3>3, <3>4, Zenon DEF ElectionInv
  <2> QED
    BY <2>1, <2>2, <2>3, <2>4, <2>5, <2>6, <2>7, <2>8, <2>9, Zenon DEF Next
<1> QED
  BY <1>1, <1>2, PTL DEF Spec

\* Two heartbeats after the last change every agent compares with exactly those
\* it is connected to and reports no one lost or gained (start, setDiff).
THEOREM MembersTrackedCorrect == Spec => []MembersTracked
<1>1. ElectionInv => MembersTracked
  <2> SUFFICES ASSUME ElectionInv, now > lastChange + 2 * BeatDur, NEW n \in Up
               PROVE  /\ prevMember[n] = Connected(n)
                      /\ phase[n] = "collecting" => Lost(n) = {} /\ Gained(n) = {}
    BY Zenon DEF MembersTracked
  <2>1. /\ n \in Agent /\ now \in Nat /\ lastChange \in Nat /\ BeatDur \in Nat
        /\ due[n] \in Nat /\ now <= due[n]
    BY ElectionAssumption DEF ElectionInv, TypeOK, Up
  <2>2. Fresh(n) /\ FreshBefore(n)
    BY <2>1 DEF Fresh, FreshBefore
  <2>3. prevMember[n] = Connected(n)
    BY <2>1, <2>2, Zenon DEF ElectionInv, PrevInv
  <2>4. phase[n] = "collecting" => curMember[n] = Connected(n)
    BY <2>1, <2>2, Zenon DEF ElectionInv, PongsInv
  <2> QED
    BY <2>3, <2>4, Zenon DEF Lost, Gained, setDiff
<1> QED
  BY <1>1, ElectionInvCorrect, PTL

\* Once nothing has changed for two heartbeats, a lease and the clock skew, every
\* agent knows the lowest rank it is connected to as leader and has heard the list
\* of all it is connected to (start, leaderLeaseCheck, setLeader).
THEOREM ConvergesCorrect == Spec => []Converges
<1>1. ElectionInv => Converges
  <2> SUFFICES ASSUME ElectionInv, Settled, NEW n \in Up PROVE Informed(n)
    BY Zenon DEF Converges, Informed
  <2>1. /\ n \in Agent /\ now \in Nat /\ lastChange \in Nat /\ BeatDur \in Nat
        /\ LeaseTime \in Nat /\ MaxClockSkew \in Nat /\ due[n] \in Nat /\ now <= due[n]
    BY ElectionAssumption DEF ElectionInv, TypeOK, Up
  <2>2. due[n] > lastChange + 2 * BeatDur + LeaseTime + MaxClockSkew
    BY <2>1 DEF Settled
  <2> QED
    BY <2>1, <2>2, Zenon DEF ElectionInv, LeaseInv
<1> QED
  BY <1>1, ElectionInvCorrect, PTL

\* No agent exchanges a leader for another while the lease it granted, with the
\* skew allowed for, runs (leaderLeaseCheck, setLeader).
THEOREM LeaseHonouredCorrect == Spec => LeaseHonoured
<1> DEFINE Honours == \A n \in Agent : n \in Up /\ sloc[n].id # 0 /\ sloc'[n].id # sloc[n].id =>
                        sloc[n].expires + MaxClockSkew <= now
<1>1. ElectionInv /\ [Next]_vars => [Honours]_vars
  <2> SUFFICES ASSUME ElectionInv, Next, NEW n \in Agent, n \in Up, sloc'[n].id # sloc[n].id
               PROVE  sloc[n].expires + MaxClockSkew <= now
    BY Zenon
  <2>1. TypeOK
    BY Zenon DEF ElectionInv
  <2>2. Conclude(n)
    <3>1. ASSUME NEW m \in Agent, Start(m) PROVE sloc'[n] = sloc[n]
      BY <2>1, <3>1, Zenon DEF Start, TypeOK, Up
    <3>2. ASSUME NEW m \in Agent, Conclude(m), m # n PROVE sloc'[n] = sloc[n]
      BY <2>1, <3>2, Zenon DEF Conclude, TypeOK
    <3> QED
      BY <3>1, <3>2, Zenon DEF Next, BeatEnds, needReconnect, Crash, receivePong, Repartition, Tick
  <2>3. sloc'[n] = Elect(sloc[n], curMember[n]) /\ curMember[n] \in SUBSET Agent
    BY <2>1, <2>2, Zenon DEF Conclude, TypeOK
  <2> QED
    BY <2>1, <2>3, ElectFacts, Zenon
<1> QED
  BY <1>1, ElectionInvCorrect, PTL DEF Spec, LeaseHonoured
=============================================================================
