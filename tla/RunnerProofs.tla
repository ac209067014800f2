---------------------------- MODULE RunnerProofs ----------------------------
(***************************************************************************)
(* Theorems about module Runner, for every number of generators, every     *)
(* value of --qps and every number of reports.                             *)
(***************************************************************************)
EXTENDS Runner, FiniteSetTheorems, SequenceTheorems, TLAPS

USE NAssumption DEF config, mainVars, txVars, statsVars

MainNext ==
  \/ RunStarts \/ RunJoins \/ RunReturns \/ CutShort
  \/ MainNotifies \/ MainDrops \/ MainExits
  \/ \E g \in Gens : RunSpawns(g)

\* The steps of a generator that is alive, and those that drop what it held.
GenMoves(g) ==
  \/ GenRefused(g) \/ GenBuilt(g) \/ GenBuildFails(g)
  \/ GenTimer(g) \/ GenReports(g)
  \/ GenHearsNotice(g) \/ GenLosesTask(g) \/ GenDrained(g) \/ GenFinishes(g)
  \/ GenEnds(g) \/ GenPanics(g)

GenDrops(g) == DropsStats(g) \/ DropsComplete(g)

Drops == \E g \in Gens : GenDrops(g)

LEMMA NextCases ==
  ASSUME [Next]_vars
  PROVE  \/ MainNext
         \/ \E g \in Gens : GenMoves(g)
         \/ Drops \/ CollectorTakes \/ CollectorEnds
         \/ UNCHANGED vars
BY DEF Next, MainNext, GenNext, GenMoves, GenDrops, Drops

-----------------------------------------------------------------------------
(* Type correctness *)

LEMMA InitType == Init => TypeOK
BY DEF Init, TypeOK, Nothing

\* The steps of main leave the queue and the statistics alone.
LEMMA MainKeeps ==
  ASSUME MainNext
  PROVE  /\ UNCHANGED <<config, queue, count, summary, totals, made, logged>>
         /\ gens' = gens \/ \E g \in Gens : RunSpawns(g)
BY DEF MainNext, RunStarts, RunSpawns, RunJoins, RunReturns, RunOver, CutShort,
       MainNotifies, MainDrops, MainExits

LEMMA MainType == TypeOK /\ MainNext => TypeOK'
<1> SUFFICES ASSUME TypeOK, MainNext PROVE TypeOK'
  OBVIOUS
<1>1. /\ qps' \in QpsChoices /\ protocol' \in Protocols
      /\ queue' \in Seq(Gens) /\ Len(queue') <= N
      /\ count' \in 0..(N - 1)
      /\ summary' \in [Gens -> Nat] /\ totals' \in [Gens -> Nat]
      /\ made' \in [Gens -> Nat] /\ logged' \in [Gens -> Nat]
  BY MainKeeps DEF TypeOK
<1>2. gens' \in [Gens -> {"unborn", "building", "running", "reporting",
                          "draining", "final"} \cup Terminal]
  BY MainKeeps DEF TypeOK, RunSpawns
<1>3. /\ main' \in {"start", "setup", "spawning", "joining", "closing",
                    "notified", "waiting", "exited"}
      /\ joined' \in 0..N
      /\ collector' \in {"unborn", "live", "summarised"}
      /\ statsTx' \subseteq Gens \cup {Main}
      /\ completeTx' \subseteq Gens \cup {Main}
  BY DEF TypeOK, MainNext, RunStarts, RunSpawns, Cloned, RunJoins, RunReturns,
         RunOver, CutShort, MainNotifies, MainDrops, MainExits
<1> QED
  BY <1>1, <1>2, <1>3 DEF TypeOK

\* What a step of a generator does: it moves to another place, and the two that
\* send a report put it in the queue.
LEMMA GenKeeps ==
  ASSUME NEW g \in Gens, GenMoves(g)
  PROVE  /\ Up /\ Alive(g)
         /\ UNCHANGED <<config, mainVars, txVars, statsVars>>
         /\ \E to \in {"building", "running", "reporting", "draining", "final"}
                        \cup Terminal :
              gens' = [gens EXCEPT ![g] = to]
         /\ UNCHANGED <<queue, made>> \/ Sends(g)
BY DEF GenMoves, Goes, Quietly, Sends, Up, Alive, Terminal, Crashed,
       GenRefused, GenBuilt, GenBuildFails, GenTimer, GenReports,
       GenHearsNotice, GenLosesTask, GenDrained, GenFinishes, GenEnds, GenPanics

\* A generator that is dropped only lets go of its senders.
LEMMA DropsKeep ==
  ASSUME Drops
  PROVE  /\ Up
         /\ UNCHANGED <<config, mainVars, gens, queue, statsVars, made>>
         /\ \E g \in Gens :
              /\ gens[g] \in Terminal
              /\ \/ /\ g \in statsTx /\ statsTx' = statsTx \ {g}
                    /\ completeTx' = completeTx
                 \/ /\ g \notin statsTx /\ statsTx' = statsTx
                    /\ completeTx' = completeTx \ {g}
BY DEF Drops, GenDrops, DropsStats, DropsComplete

LEMMA GenType == ASSUME NEW g \in Gens, TypeOK, GenMoves(g) PROVE TypeOK'
<1>1. /\ qps' \in QpsChoices /\ protocol' \in Protocols
      /\ main' = main /\ joined' = joined
      /\ UNCHANGED txVars /\ UNCHANGED statsVars
  BY GenKeeps DEF TypeOK
<1>2. gens' \in [Gens -> {"unborn", "building", "running", "reporting",
                          "draining", "final"} \cup Terminal]
  BY GenKeeps DEF TypeOK
<1>3. /\ queue' \in Seq(Gens) /\ Len(queue') <= N
      /\ made' \in [Gens -> Nat]
  <2>1. CASE UNCHANGED <<queue, made>>
    BY <2>1 DEF TypeOK
  <2>2. CASE Sends(g)
    BY <2>2 DEF TypeOK, Sends
  <2> QED
    BY <2>1, <2>2, GenKeeps
<1> QED
  BY <1>1, <1>2, <1>3 DEF TypeOK

LEMMA DropsType == TypeOK /\ Drops => TypeOK'
BY DropsKeep DEF TypeOK

\* What the collector does with a report, whether or not the batch is complete.
Aggregated == [summary EXCEPT ![Head(queue)] = @ + 1]

Logs ==
  /\ count + 1 = N
  /\ summary' = Nothing /\ count' = 0 /\ logged' = Aggregated
  /\ totals' = [g \in Gens |-> totals[g] + Aggregated[g]]

Gathers ==
  /\ count + 1 # N
  /\ summary' = Aggregated /\ count' = count + 1
  /\ UNCHANGED <<totals, logged>>

LEMMA TakeEffect ==
  ASSUME TypeOK, CollectorTakes
  PROVE  /\ Up /\ collector = "live"
         /\ queue # <<>> /\ Head(queue) \in Gens
         /\ queue' = Tail(queue) /\ queue' \in Seq(Gens)
         /\ Len(queue') = Len(queue) - 1
         /\ Aggregated \in [Gens -> Nat]
         /\ UNCHANGED <<config, mainVars, txVars, gens, collector, made>>
         /\ Logs \/ Gathers
<1>1. queue # <<>> /\ queue \in Seq(Gens)
  BY DEF CollectorTakes, TypeOK
<1>2. /\ Head(queue) \in Gens
      /\ Tail(queue) \in Seq(Gens) /\ Len(Tail(queue)) = Len(queue) - 1
  BY <1>1, HeadTailProperties
<1>3. Aggregated \in [Gens -> Nat]
  BY <1>2 DEF TypeOK, Aggregated
<1>4. Logs \/ Gathers
  BY DEF CollectorTakes, BatchFull, AfterLog, Added, Logs, Gathers, Aggregated
<1> QED
  BY <1>1, <1>2, <1>3, <1>4 DEF CollectorTakes

LEMMA CollectorType ==
  TypeOK /\ (CollectorTakes \/ CollectorEnds) => TypeOK'
<1>1. ASSUME TypeOK, CollectorTakes PROVE TypeOK'
  <2>1. /\ queue' \in Seq(Gens) /\ Len(queue') <= N
        /\ Aggregated \in [Gens -> Nat]
    <3>1. Len(queue) <= N /\ queue \in Seq(Gens)
      BY <1>1 DEF TypeOK
    <3>2. /\ queue' \in Seq(Gens) /\ Len(queue') = Len(queue) - 1
          /\ Aggregated \in [Gens -> Nat]
      BY <1>1, TakeEffect
    <3>3. Len(queue') <= N
      BY <3>1, <3>2, NAssumption, LenProperties
    <3> QED
      BY <3>2, <3>3
  <2>2. /\ summary' \in [Gens -> Nat] /\ totals' \in [Gens -> Nat]
        /\ logged' \in [Gens -> Nat] /\ count' \in 0..(N - 1)
    <3>1. CASE Logs
      BY <1>1, <2>1, <3>1 DEF TypeOK, Logs, Nothing
    <3>2. CASE Gathers
      BY <1>1, <2>1, <3>2 DEF TypeOK, Gathers
    <3> QED
      BY <1>1, <3>1, <3>2, TakeEffect
  <2>3. UNCHANGED <<config, mainVars, txVars, gens, collector, made>>
    BY <1>1, TakeEffect
  <2> QED
    BY <1>1, <2>1, <2>2, <2>3 DEF TypeOK
<1>2. ASSUME TypeOK, CollectorEnds PROVE TypeOK'
  BY <1>2 DEF TypeOK, CollectorEnds
<1> QED
  BY <1>1, <1>2

LEMMA NextType == TypeOK /\ [Next]_vars => TypeOK'
<1>1. TypeOK /\ UNCHANGED vars => TypeOK'
  BY DEF TypeOK, vars
<1> QED
  BY <1>1, NextCases, MainType, GenType, DropsType, CollectorType

\* Every reachable state of a run has the declared types: the channel never
\* holds more reports than its capacity, and a batch never N.
THEOREM TypeCorrect == Spec => []TypeOK
BY InitType, NextType, PTL DEF Spec

-----------------------------------------------------------------------------
(* The end of the process *)

\* Before they are spawned there is no generator.
Unspawned == main \in {"start", "setup"} => \A g \in Gens : gens[g] = "unborn"

\* Who holds which sender: a generator that lives has both, a task is not done
\* with the handshake before it is done with the statistics, main gives up its
\* sender of statistics when the run is over, and leaves when nobody holds the
\* one of the handshake.
HeldInv ==
  /\ Unspawned
  /\ \A g \in Gens : Alive(g) => g \in statsTx
  /\ \A g \in Gens : g \in statsTx => g \in completeTx
  /\ Main \in statsTx <=> main \in {"setup", "spawning", "joining"}
  /\ main = "exited" => completeTx = {}

LEMMA HeldStep == TypeOK /\ HeldInv /\ [Next]_vars => HeldInv'
<1> SUFFICES ASSUME TypeOK, HeldInv, [Next]_vars PROVE HeldInv'
  OBVIOUS
<1> USE DEF HeldInv, Unspawned
<1>0. Main \notin Gens
  BY DEF Main, Gens
<1>1. CASE RunStarts
  BY <1>0, <1>1 DEF RunStarts, Alive
<1>2. ASSUME NEW g \in Gens, RunSpawns(g) PROVE HeldInv'
  <2>1. \A h \in Gens : h # g => gens'[h] = gens[h]
    BY <1>2 DEF RunSpawns, TypeOK
  <2>2. main' \in {"spawning", "joining"}
    BY <1>2 DEF RunSpawns
  <2> QED
    BY <1>0, <1>2, <2>1, <2>2 DEF RunSpawns, Cloned, Alive
<1>3. CASE RunJoins \/ MainNotifies \/ MainExits
  BY <1>3 DEF RunJoins, MainNotifies, MainExits, Alive
<1>4. CASE RunOver /\ main # "exited"
  BY <1>0, <1>4 DEF RunOver, Alive
<1>5. CASE MainDrops
  BY <1>0, <1>5 DEF MainDrops, Alive
<1>6. CASE MainNext
  BY <1>1, <1>2, <1>3, <1>4, <1>5, <1>6 DEF MainNext, RunReturns, CutShort
<1>7. ASSUME NEW g \in Gens, GenMoves(g) PROVE HeldInv'
  <2>1. /\ Up /\ Alive(g) /\ UNCHANGED <<main, statsTx, completeTx>>
        /\ \A h \in Gens : h # g => gens'[h] = gens[h]
    BY <1>7, GenKeeps DEF TypeOK
  <2>2. main \notin {"start", "setup"}
    BY <2>1 DEF Alive
  <2> QED
    BY <2>1, <2>2 DEF Alive
<1>8. CASE Drops
  <2>1. /\ Up /\ UNCHANGED <<main, gens>>
    BY <1>8, DropsKeep
  <2>2. PICK g \in Gens :
          /\ gens[g] \in Terminal
          /\ \/ /\ g \in statsTx /\ statsTx' = statsTx \ {g}
                /\ completeTx' = completeTx
             \/ /\ g \notin statsTx /\ statsTx' = statsTx
                /\ completeTx' = completeTx \ {g}
    BY <1>8, DropsKeep
  <2> QED
    BY <1>0, <2>1, <2>2 DEF Alive, Up
<1>9. CASE CollectorTakes \/ CollectorEnds \/ UNCHANGED vars
  BY <1>9 DEF CollectorTakes, CollectorEnds, vars, Alive
<1> QED
  BY <1>6, <1>7, <1>8, <1>9, NextCases

LEMMA HeldAlways == Spec => []HeldInv
<1>1. Init => HeldInv
  BY DEF Init, HeldInv, Unspawned, Alive, Main, Gens
<1> QED
  BY <1>1, HeldStep, TypeCorrect, PTL DEF Spec

\* main.rs 121-131, gen.rs 41-47: the handshake waits for the last clone of its
\* sender to be dropped; whatever cut the run short, by then every generator is
\* over and no sender of statistics is left.
THEOREM ExitsLast == Spec => []NoEarlyExit
<1>1. TypeOK /\ HeldInv => NoEarlyExit
  BY DEF TypeOK, HeldInv, NoEarlyExit
<1> QED
  BY <1>1, HeldAlways, TypeCorrect, PTL

-----------------------------------------------------------------------------
(* The reports of one generator in the channel *)

Occurs(q, g) == {i \in DOMAIN q : q[i] = g}

LEMMA OccursFinite ==
  ASSUME NEW q \in Seq(Gens), NEW g
  PROVE  IsFiniteSet(Occurs(q, g)) /\ Cardinality(Occurs(q, g)) \in Nat
<1>1. Len(q) \in Nat /\ DOMAIN q = 1..Len(q)
  BY LenProperties
<1>2. IsFiniteSet(1..Len(q))
  BY <1>1, FS_Interval
<1>3. Occurs(q, g) \in SUBSET (1..Len(q))
  BY <1>1 DEF Occurs
<1> QED
  BY <1>2, <1>3, FS_Subset, FS_CardinalityType

LEMMA OccursAppend ==
  ASSUME NEW q \in Seq(Gens), NEW e \in Gens, NEW g
  PROVE  Cardinality(Occurs(Append(q, e), g))
           = Cardinality(Occurs(q, g)) + IF e = g THEN 1 ELSE 0
<1> DEFINE r == Append(q, e)
           n == Len(q) + 1
<1>1. /\ DOMAIN q = 1..Len(q) /\ Len(q) \in Nat
      /\ DOMAIN r = 1..n /\ r[n] = e
      /\ \A i \in 1..Len(q) : r[i] = q[i]
  BY AppendProperties, LenProperties
<1> HIDE DEF r
<1>2. CASE e = g
  <2>1. Occurs(r, g) = Occurs(q, g) \cup {n} /\ n \notin Occurs(q, g)
    BY <1>1, <1>2 DEF Occurs
  <2>2. Cardinality(Occurs(q, g) \cup {n}) = Cardinality(Occurs(q, g)) + 1
    BY <2>1, OccursFinite, FS_AddElement
  <2> QED
    BY <1>2, <2>1, <2>2 DEF r
<1>3. CASE e # g
  <2>1. Occurs(r, g) = Occurs(q, g)
    BY <1>1, <1>3 DEF Occurs
  <2> QED
    BY <1>3, <2>1, OccursFinite DEF r
<1> QED
  BY <1>2, <1>3

LEMMA OccursTail ==
  ASSUME NEW q \in Seq(Gens), q # <<>>, NEW g
  PROVE  Cardinality(Occurs(q, g))
           = Cardinality(Occurs(Tail(q), g)) + IF Head(q) = g THEN 1 ELSE 0
<1> DEFINE r == Tail(q)
           moved == [i \in Occurs(r, g) |-> i + 1]
           rest == Occurs(q, g) \ {1}
<1>1. /\ Len(q) \in Nat \ {0} /\ DOMAIN q = 1..Len(q) /\ Head(q) = q[1]
      /\ r \in Seq(Gens) /\ DOMAIN r = 1..(Len(q) - 1)
      /\ \A i \in 1..(Len(q) - 1) : r[i] = q[i + 1]
  BY HeadTailProperties
<1> HIDE DEF r
<1>2. moved \in Bijection(Occurs(r, g), rest)
  <2>1. \A i \in Occurs(r, g) : i + 1 \in rest
    BY <1>1 DEF Occurs
  <2>2. \A j \in rest : j - 1 \in Occurs(r, g) /\ (j - 1) + 1 = j
    BY <1>1 DEF Occurs
  <2>3. \A i, j \in Occurs(r, g) : i + 1 = j + 1 => i = j
    BY <1>1 DEF Occurs
  <2> QED
    BY <2>1, <2>2, <2>3 DEF Bijection, Injection, Surjection, IsInjective
<1>3. Cardinality(rest) = Cardinality(Occurs(r, g))
  BY <1>1, <1>2, OccursFinite, FS_Bijection DEF ExistsBijection
<1>4. Cardinality(rest) = IF 1 \in Occurs(q, g) THEN Cardinality(Occurs(q, g)) - 1
                                                ELSE Cardinality(Occurs(q, g))
  BY OccursFinite, FS_RemoveElement
<1>5. 1 \in Occurs(q, g) <=> Head(q) = g
  BY <1>1 DEF Occurs
<1>6. Cardinality(Occurs(q, g)) \in Nat
  BY OccursFinite
<1> QED
  BY <1>3, <1>4, <1>5, <1>6 DEF r

-----------------------------------------------------------------------------
(* No report is lost *)

LEMMA ConservedStep ==
  ASSUME TypeOK, ReportsConserved, [Next]_vars
  PROVE  ReportsConserved'
<1> SUFFICES ASSUME NEW h \in Gens
             PROVE  made'[h] = Cardinality(Occurs(queue', h))
                                 + summary'[h] + totals'[h]
  BY DEF ReportsConserved, Queued, Occurs
<1> DEFINE before == Cardinality(Occurs(queue, h))
           after == Cardinality(Occurs(queue', h))
<1>1. queue \in Seq(Gens) /\ before \in Nat
  BY OccursFinite DEF TypeOK
<1>2. /\ made[h] = before + summary[h] + totals[h]
      /\ made[h] \in Nat /\ summary[h] \in Nat /\ totals[h] \in Nat
  BY DEF ReportsConserved, Queued, Occurs, TypeOK
<1>3. CASE UNCHANGED <<queue, summary, totals, made>>
  BY <1>2, <1>3
<1>4. ASSUME NEW g \in Gens, GenMoves(g), Sends(g)
      PROVE  made'[h] = after + summary'[h] + totals'[h]
  <2>1. after = before + IF g = h THEN 1 ELSE 0
    BY <1>1, <1>4, OccursAppend DEF Sends
  <2>2. made'[h] = made[h] + IF g = h THEN 1 ELSE 0
    BY <1>2, <1>4 DEF Sends, TypeOK
  <2>3. summary' = summary /\ totals' = totals
    BY <1>4, GenKeeps
  <2> HIDE DEF before, after
  <2> QED
    BY <1>1, <1>2, <2>1, <2>2, <2>3
<1>5. ASSUME CollectorTakes
      PROVE  made'[h] = after + summary'[h] + totals'[h]
  <2>1. /\ queue # <<>> /\ Head(queue) \in Gens /\ queue' = Tail(queue)
        /\ queue' \in Seq(Gens) /\ made' = made
        /\ Logs \/ Gathers
    BY <1>5, TakeEffect
  <2>2. before = after + IF Head(queue) = h THEN 1 ELSE 0
    BY <1>1, <2>1, OccursTail
  <2>3. Aggregated[h] = summary[h] + IF Head(queue) = h THEN 1 ELSE 0
    BY <1>2, <2>1 DEF Aggregated, TypeOK
  <2>4. after \in Nat
    BY <2>1, OccursFinite
  <2>5. summary'[h] + totals'[h] = Aggregated[h] + totals[h]
    <3>1. CASE Logs
      <4>1. summary'[h] = 0 /\ totals'[h] = totals[h] + Aggregated[h]
        BY <3>1 DEF Logs, Nothing
      <4> QED
        BY <1>2, <2>3, <4>1
    <3>2. CASE Gathers
      BY <3>2 DEF Gathers
    <3> QED
      BY <2>1, <3>1, <3>2
  <2>6. summary'[h] \in Nat /\ totals'[h] \in Nat
    BY <1>5, CollectorType DEF TypeOK
  <2> HIDE DEF before, after
  <2>7. before + summary[h] = after + Aggregated[h] /\ Aggregated[h] \in Nat
    BY <1>1, <1>2, <2>2, <2>3, <2>4
  <2>8. made'[h] = made[h]
    BY <2>1
  <2>9. made[h] = after + (Aggregated[h] + totals[h])
    BY <1>1, <1>2, <2>4, <2>7
  <2>10. made'[h] = after + (summary'[h] + totals'[h])
    BY <2>5, <2>8, <2>9
  <2> QED
    BY <2>4, <2>6, <2>10
<1>6. CASE MainNext \/ Drops \/ CollectorEnds \/ UNCHANGED vars
  <2>1. UNCHANGED <<queue, summary, totals, made>>
    BY <1>6, MainKeeps, DropsKeep DEF CollectorEnds, vars
  <2> QED
    BY <1>3, <2>1
<1>7. ASSUME NEW g \in Gens, GenMoves(g)
      PROVE  made'[h] = after + summary'[h] + totals'[h]
  BY <1>3, <1>4, <1>7, GenKeeps
<1> QED
  BY <1>5, <1>6, <1>7, NextCases

\* stats.rs 188-234 and 411-426: whatever the order of the reports and however
\* they fall into batches, each one is in the channel, in the batch or in the
\* totals, once.
THEOREM NoReportLost == Spec => []ReportsConserved
<1>1. ASSUME Init PROVE ReportsConserved
  <2>1. \A g \in Gens : Occurs(queue, g) = {}
    BY <1>1 DEF Init, Occurs
  <2>2. \A g \in Gens : Queued(g) = 0
    BY <2>1, FS_EmptySet DEF Queued, Occurs
  <2> QED
    BY <1>1, <2>2 DEF Init, Nothing, ReportsConserved
<1> QED
  BY <1>1, ConservedStep, TypeCorrect, PTL DEF Spec

-----------------------------------------------------------------------------
(* The reports of all generators, counted as the elements of a set *)

\* One element for each report that f counts: no sum over the generators, which
\* would be a recursive definition, is needed.
Units(f) == {p \in Gens \X (Nat \ {0}) : p[2] <= f[p[1]]}

LEMMA UnitsNothing == Units(Nothing) = {}
BY DEF Units, Nothing

LEMMA UnitsAdd ==
  ASSUME NEW f \in [Gens -> Nat], NEW g \in Gens, IsFiniteSet(Units(f))
  PROVE  LET h == [f EXCEPT ![g] = @ + 1] IN
         /\ IsFiniteSet(Units(h))
         /\ Cardinality(Units(h)) = Cardinality(Units(f)) + 1
<1> DEFINE h == [f EXCEPT ![g] = @ + 1]
           new == <<g, f[g] + 1>>
<1>1. new \in Gens \X (Nat \ {0}) /\ new \notin Units(f)
  BY DEF Units
<1>2. Units(h) = Units(f) \cup {new}
  <2>1. ASSUME NEW p \in Gens \X (Nat \ {0})
        PROVE  p \in Units(h) <=> p \in Units(f) \/ p = new
    BY DEF Units
  <2> QED
    BY <1>1, <2>1 DEF Units
<1>3. /\ IsFiniteSet(Units(f) \cup {new})
      /\ Cardinality(Units(f) \cup {new}) = Cardinality(Units(f)) + 1
  BY <1>1, FS_AddElement, Zenon
<1> HIDE DEF h
<1>4. IsFiniteSet(Units(h)) /\ Cardinality(Units(h)) = Cardinality(Units(f)) + 1
  BY <1>2, <1>3
<1> QED
  BY <1>4 DEF h

LEMMA UnitsSum ==
  ASSUME NEW f \in [Gens -> Nat], IsFiniteSet(Units(f)),
         NEW h \in [Gens -> Nat], IsFiniteSet(Units(h))
  PROVE  LET sum == [g \in Gens |-> f[g] + h[g]] IN
         /\ IsFiniteSet(Units(sum))
         /\ Cardinality(Units(sum))
              = Cardinality(Units(f)) + Cardinality(Units(h))
<1> DEFINE sum == [g \in Gens |-> f[g] + h[g]]
           lift == [p \in Units(h) |-> <<p[1], f[p[1]] + p[2]>>]
           high == Units(sum) \ Units(f)
<1>1. \A g \in Gens : f[g] \in Nat /\ h[g] \in Nat /\ sum[g] = f[g] + h[g]
  OBVIOUS
<1> HIDE DEF sum
<1>2. \A p \in Units(h) : lift[p] \in high
  BY <1>1 DEF Units
<1>3. \A p \in high : <<p[1], p[2] - f[p[1]]>> \in Units(h)
                        /\ p = lift[<<p[1], p[2] - f[p[1]]>>]
  BY <1>1 DEF Units
<1>4. \A p, q \in Units(h) : lift[p] = lift[q] => p = q
  BY <1>1 DEF Units
<1>5. lift \in Bijection(Units(h), high)
  <2>1. lift \in [Units(h) -> high] /\ DOMAIN lift = Units(h)
    BY <1>2
  <2>2. ASSUME NEW p \in high PROVE \E q \in Units(h) : lift[q] = p
    <3> DEFINE q == <<p[1], p[2] - f[p[1]]>>
    <3>1. q \in Units(h) /\ lift[q] = p
      BY <1>3
    <3> QED
      BY <3>1, Zenon
  <2> HIDE DEF lift, high
  <2> QED
    BY <1>4, <2>1, <2>2, Zenon DEF Bijection, Injection, Surjection, IsInjective
<1>6. IsFiniteSet(high) /\ Cardinality(high) = Cardinality(Units(h))
  BY <1>5, FS_Bijection DEF ExistsBijection
<1>7. Units(sum) = Units(f) \cup high /\ Units(f) \cap high = {}
  BY <1>1 DEF Units
<1>8. Cardinality(Units(f) \cap high) = 0
  BY <1>7, FS_EmptySet
<1>9. /\ IsFiniteSet(Units(sum))
      /\ Cardinality(Units(sum)) = Cardinality(Units(f)) + Cardinality(high) - 0
  BY <1>6, <1>7, <1>8, FS_Union
<1>10. Cardinality(Units(f)) \in Nat /\ Cardinality(high) \in Nat
  BY <1>6, FS_CardinalityType
<1> QED
  BY <1>6, <1>9, <1>10 DEF sum

\* Generators that have sent equally many reports have sent a multiple of N.
LEMMA UnitsEven ==
  ASSUME NEW f \in [Gens -> Nat], \A g, h \in Gens : f[g] = f[h]
  PROVE  \E m \in Nat : Cardinality(Units(f)) = N * m
<1>1. 1 \in Gens /\ f[1] \in Nat
  BY DEF Gens
<1>2. Units(f) = Gens \X (1..f[1])
  BY <1>1 DEF Units
<1>3. IsFiniteSet(Gens) /\ Cardinality(Gens) = N
  BY FS_Interval DEF Gens
<1>4. IsFiniteSet(1..f[1]) /\ Cardinality(1..f[1]) = f[1]
  BY <1>1, FS_Interval
<1>5. Cardinality(Gens \X (1..f[1])) = Cardinality(Gens) * Cardinality(1..f[1])
  BY <1>3, <1>4, FS_Product, Zenon
<1> QED
  BY <1>1, <1>2, <1>3, <1>4, <1>5

\* Less than N is left over when a multiple of N is taken from another.
LEMMA NoRemainder ==
  ASSUME NEW m \in Nat, NEW b \in Nat, NEW c \in 0..(N - 1), N * m = N * b + c
  PROVE  c = 0
<1>1. N * (m - b) = c
  OBVIOUS
<1>2. CASE m - b >= 1
  <2>1. N * (m - b) >= N
    BY <1>2
  <2> QED
    BY <1>1, <2>1
<1>3. CASE m - b <= 0
  <2>1. N * (m - b) <= 0
    BY <1>3
  <2> QED
    BY <1>1, <2>1
<1> QED
  BY <1>2, <1>3

-----------------------------------------------------------------------------
(* The summary *)

\* A batch holds fewer than N reports, and what was added to the totals came in
\* batches of N, whoever sent them; the collector ends when no report can come.
BatchInv ==
  /\ IsFiniteSet(Units(summary)) /\ Cardinality(Units(summary)) = count
  /\ IsFiniteSet(Units(totals))
  /\ \E b \in Nat : Cardinality(Units(totals)) = N * b
  /\ collector = "summarised" => queue = <<>> /\ statsTx = {}

LEMMA BatchInit == Init => BatchInv
<1> SUFFICES ASSUME Init PROVE BatchInv
  OBVIOUS
<1>1. Units(summary) = {} /\ Units(totals) = {}
  BY UnitsNothing DEF Init
<1>2. N * 0 = 0
  OBVIOUS
<1> QED
  BY <1>1, <1>2, FS_EmptySet DEF Init, BatchInv

LEMMA BatchStep == TypeOK /\ HeldInv /\ BatchInv /\ [Next]_vars => BatchInv'
<1> SUFFICES ASSUME TypeOK, HeldInv, BatchInv, [Next]_vars PROVE BatchInv'
  OBVIOUS
<1>1. CASE MainNext
  <2>1. UNCHANGED <<queue, count, summary, totals>>
    BY <1>1, MainKeeps
  <2>2. collector' = "summarised" => collector = "summarised" /\ statsTx' = {}
    BY <1>1 DEF BatchInv, HeldInv, MainNext, RunStarts, RunSpawns, RunJoins,
                RunReturns, RunOver, CutShort, MainNotifies, MainDrops, MainExits
  <2> QED
    BY <2>1, <2>2 DEF BatchInv
<1>2. ASSUME NEW g \in Gens, GenMoves(g) PROVE BatchInv'
  <2>1. Alive(g) /\ UNCHANGED statsVars
    BY <1>2, GenKeeps
  <2>2. collector # "summarised"
    BY <2>1 DEF BatchInv, HeldInv
  <2> QED
    BY <2>1, <2>2 DEF BatchInv
<1>3. CASE CollectorTakes
  <2>1. /\ collector' # "summarised"
        /\ Logs \/ Gathers
        /\ Head(queue) \in Gens /\ Aggregated \in [Gens -> Nat]
        /\ summary \in [Gens -> Nat] /\ totals \in [Gens -> Nat]
        /\ count \in 0..(N - 1)
    BY <1>3, TakeEffect DEF TypeOK
  <2>2. /\ IsFiniteSet(Units(Aggregated))
        /\ Cardinality(Units(Aggregated)) = count + 1
    BY <2>1, UnitsAdd DEF BatchInv, Aggregated
  <2>3. CASE Gathers
    <3>1. summary' = Aggregated /\ count' = count + 1 /\ totals' = totals
      BY <2>3 DEF Gathers
    <3>2. IsFiniteSet(Units(summary')) /\ Cardinality(Units(summary')) = count'
      BY <2>2, <3>1
    <3>3. /\ IsFiniteSet(Units(totals'))
          /\ \E b \in Nat : Cardinality(Units(totals')) = N * b
      BY <3>1 DEF BatchInv
    <3> QED
      BY <2>1, <3>2, <3>3 DEF BatchInv
  <2>4. CASE Logs
    <3>1. /\ IsFiniteSet(Units(totals'))
          /\ Cardinality(Units(totals'))
               = Cardinality(Units(totals)) + Cardinality(Units(Aggregated))
      BY <2>1, <2>2, <2>4, UnitsSum DEF Logs, BatchInv
    <3>2. PICK b \in Nat : Cardinality(Units(totals)) = N * b
      BY DEF BatchInv
    <3>3. \E c \in Nat : Cardinality(Units(totals')) = N * c
      <4>1. b + 1 \in Nat /\ Cardinality(Units(totals')) = N * (b + 1)
        BY <2>2, <2>4, <3>1, <3>2 DEF Logs
      <4> QED
        BY <4>1
    <3>4. IsFiniteSet(Units(summary')) /\ Cardinality(Units(summary')) = count'
      BY <2>4, UnitsNothing, FS_EmptySet DEF Logs
    <3> QED
      BY <2>1, <3>1, <3>3, <3>4 DEF BatchInv
  <2> QED
    BY <2>1, <2>3, <2>4
<1>4. CASE CollectorEnds
  BY <1>4 DEF CollectorEnds, ChannelClosed, BatchInv
<1>5. CASE Drops
  <2>1. UNCHANGED <<queue, statsVars>> /\ (statsTx = {} => statsTx' = {})
    BY <1>5, DropsKeep
  <2> QED
    BY <2>1 DEF BatchInv
<1>6. CASE UNCHANGED vars
  BY <1>6 DEF vars, BatchInv
<1> QED
  BY <1>1, <1>2, <1>3, <1>4, <1>5, <1>6, NextCases

\* When the collector ends, a report that was sent is in the totals or in the
\* batch that never filled.
LEMMA MadeAtEnd ==
  ASSUME TypeOK, BatchInv, ReportsConserved, collector = "summarised"
  PROVE  made = [g \in Gens |-> totals[g] + summary[g]]
<1>1. /\ summary \in [Gens -> Nat] /\ totals \in [Gens -> Nat]
      /\ made \in [Gens -> Nat]
  BY DEF TypeOK
<1>2. ASSUME NEW g \in Gens PROVE made[g] = totals[g] + summary[g]
  <2>1. {i \in DOMAIN queue : queue[i] = g} = {}
    BY DEF BatchInv
  <2>2. Queued(g) = 0
    BY <2>1, FS_EmptySet DEF Queued
  <2> QED
    BY <1>1, <2>2 DEF ReportsConserved
<1> QED
  BY <1>1, <1>2

\* The reports that the totals miss are the count of the last batch.
LEMMA UnloggedCount ==
  ASSUME TypeOK, BatchInv, ReportsConserved, collector = "summarised"
  PROVE  Cardinality(Unlogged) = count
<1> DEFINE all == Units(made)
           logs == Units(totals)
<1>1. /\ summary \in [Gens -> Nat] /\ totals \in [Gens -> Nat]
      /\ made \in [Gens -> Nat] /\ count \in Nat
  BY DEF TypeOK
<1>2. made = [g \in Gens |-> totals[g] + summary[g]]
  BY MadeAtEnd
<1>3. IsFiniteSet(all) /\ IsFiniteSet(logs)
      /\ Cardinality(all) = Cardinality(logs) + count
  BY <1>1, <1>2, UnitsSum DEF BatchInv
<1>4. Unlogged = all \ logs
  BY <1>1 DEF Unlogged, Units
<1>5. all \cap logs = logs
  BY <1>1, <1>2 DEF Units
<1> HIDE DEF all, logs
<1>6. Cardinality(all \ logs) = Cardinality(all) - Cardinality(all \cap logs)
  BY <1>3, FS_Difference, Zenon
<1>7. Cardinality(logs) \in Nat
  BY <1>3, FS_CardinalityType
<1> QED
  BY <1>1, <1>3, <1>4, <1>5, <1>6, <1>7

LEMMA BatchImplies ==
  ASSUME TypeOK, BatchInv, ReportsConserved
  PROVE  SummaryComplete
<1> SUFFICES ASSUME collector = "summarised"
             PROVE  /\ Cardinality(Unlogged) < N
                    /\ (\A g, h \in Gens : made[g] = made[h]) => totals = made
  BY DEF SummaryComplete
<1>1. /\ summary \in [Gens -> Nat] /\ totals \in [Gens -> Nat]
      /\ made \in [Gens -> Nat] /\ count \in 0..(N - 1)
  BY DEF TypeOK
<1>2. Cardinality(Unlogged) < N
  BY <1>1, UnloggedCount
<1>3. ASSUME \A g, h \in Gens : made[g] = made[h] PROVE totals = made
  <2>1. made = [g \in Gens |-> totals[g] + summary[g]]
    BY MadeAtEnd
  <2>2. Cardinality(Units(made)) = Cardinality(Units(totals)) + count
    BY <1>1, <2>1, UnitsSum DEF BatchInv
  <2>3. PICK m \in Nat : Cardinality(Units(made)) = N * m
    BY <1>1, <1>3, UnitsEven
  <2>4. PICK b \in Nat : Cardinality(Units(totals)) = N * b
    BY DEF BatchInv
  <2>5. count = 0
    BY <1>1, <2>2, <2>3, <2>4, NoRemainder
  <2>6. Units(summary) = {}
    BY <2>5, FS_EmptySet DEF BatchInv
  <2>7. ASSUME NEW g \in Gens PROVE summary[g] = 0
    <3>1. summary[g] # 0 => <<g, summary[g]>> \in Units(summary)
      BY <1>1 DEF Units
    <3> QED
      BY <2>6, <3>1
  <2> QED
    BY <1>1, <2>1, <2>7
<1> QED
  BY <1>2, <1>3

\* The collector logs a batch only when it holds N reports, and prints the totals
\* of the batches it logged: the summary misses fewer than N reports, and nothing
\* when the generators have sent equally many, in whatever order they came.
THEOREM SummaryMissesNothing == Spec => []SummaryComplete
BY BatchInit, BatchStep, BatchImplies, HeldAlways, TypeCorrect, NoReportLost,
   PTL DEF Spec

-----------------------------------------------------------------------------
(* The life of a generator *)

\* Every generator of a run goes through the phases of module Lifecycle, each
\* after those that may precede it, through a full channel and a run cut short.
THEOREM KeepsPhases == Spec => Life!Moves
<1>1. Init => Life!Init
  BY DEF Init, Life!Init
<1>2. ASSUME TypeOK, TypeOK', [Next]_vars PROVE [Life!Next]_gens
  <2>1. ASSUME NEW g \in Gens,
               gens'[g] \in {gens[g]} \cup Life!After[gens[g]],
               \A h \in Gens : h # g => gens'[h] = gens[h]
        PROVE  [Life!Next]_gens
    BY <1>2, <2>1 DEF TypeOK, Life!Next
  <2>2. ASSUME NEW g \in Gens, RunSpawns(g) PROVE [Life!Next]_gens
    <3>1. gens'[g] \in {gens[g]} \cup Life!After[gens[g]]
      BY <1>2, <2>2 DEF RunSpawns, TypeOK, Life!After
    <3>2. \A h \in Gens : h # g => gens'[h] = gens[h]
      BY <1>2, <2>2 DEF RunSpawns, TypeOK
    <3> QED
      BY <2>1, <3>1, <3>2
  <2>3. ASSUME NEW g \in Gens, GenMoves(g) PROVE [Life!Next]_gens
    <3>1. gens'[g] \in {gens[g]} \cup Life!After[gens[g]]
      BY <1>2, <2>3
      DEF GenMoves, Goes, TypeOK, Life!After, GenRefused, GenBuilt, GenBuildFails,
          GenTimer, GenReports, GenHearsNotice, GenLosesTask, GenDrained,
          GenFinishes, GenEnds, GenPanics
    <3>2. \A h \in Gens : h # g => gens'[h] = gens[h]
      BY <1>2, <2>3, GenKeeps DEF TypeOK
    <3> QED
      BY <2>1, <3>1, <3>2
  <2>4. CASE MainNext \/ Drops \/ CollectorTakes \/ CollectorEnds \/ UNCHANGED vars
    BY <2>2, <2>4, MainKeeps, DropsKeep DEF CollectorTakes, CollectorEnds, vars
  <2> QED
    BY <1>2, <2>3, <2>4, NextCases
<1> QED
  BY <1>1, <1>2, TypeCorrect, PTL DEF Spec, Life!Moves
=============================================================================
