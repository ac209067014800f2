------------------------------- MODULE Runner -------------------------------
(***************************************************************************)
(* A whole run of nailgun (bin/src/main.rs, shutdown.rs, and StatsRunner   *)
(* of stats.rs): the main task selects among Runner::run, ctrl-c and the   *)
(* time limit; Runner::run spawns the collector of statistics and the      *)
(* generators, and joins the generators in the order it spawned them; the  *)
(* shutdown handshake makes every generator drain before the process ends. *)
(* It counts nobody: main waits until every clone of one sender has been   *)
(* dropped, by whoever holds it.                                           *)
(*                                                                         *)
(* A generator is here its life cycle only: module Generator has the rest. *)
(* A report is counted as one unit of its generator's work, so that the    *)
(* sums of the collector are functions from generators to numbers.         *)
(*                                                                         *)
(* A definition named D_Word, just before D, is D as a plausible bug would *)
(* have it: it replaces D to see that a property depends on it.            *)
(***************************************************************************)
EXTENDS Integers, Sequences, FiniteSets

CONSTANTS
  N,           \* generators of the run: wcount * tcount
  QpsChoices,  \* values of --qps a run considers; 0 is no limit
  Protocols,   \* values of --protocol a run considers
  MaxReports   \* bound: interval reports of one generator

ASSUME NAssumption == N \in Nat \ {0}
ASSUME QpsAssumption == QpsChoices \subseteq Nat
ASSUME ProtocolAssumption == Protocols \subseteq {"udp", "tcp", "doh"}
ASSUME MaxReportsAssumption == MaxReports \in Nat

Gens == 1..N
Main == 0      \* the main task, as a holder of senders

VARIABLES
  qps,         \* the argument --qps, chosen once
  protocol,    \* the argument --protocol, chosen once
  main,        \* the main task
  joined,      \* handles that Runner::run has awaited
  gens,        \* the life cycle of each generator task
  statsTx,     \* who holds a clone of the sender of the stats channel
  completeTx,  \* who holds a clone of shutdown_complete_tx
  queue,       \* the stats channel, of capacity N
  collector,   \* the task of StatsRunner::run
  count,       \* its local `generators`: reports in the current batch
  summary,     \* StatsRunner.summary: the sum of the current batch
  totals,      \* StatsRunner.totals: the sum of the batches logged
  made,        \* history: reports each generator has sent
  logged       \* history: the batch that was logged last

config == <<qps, protocol>>
mainVars == <<main, joined>>
txVars == <<statsTx, completeTx>>
statsVars == <<collector, count, summary, totals, logged>>
vars == <<config, mainVars, gens, txVars, queue, statsVars, made>>

Nothing == [g \in Gens |-> 0]

Crashed == {"refused", "panicked"}   \* the task panicked: a JoinError
Terminal == {"over"} \cup Crashed
Alive(g) == gens[g] \notin Terminal \cup {"unborn"}

\* A task has ended for those who await its handle once the generator it owned
\* is gone, with what it held.
Gone(g) == gens[g] \in Terminal /\ g \notin statsTx \cup completeTx

\* The broadcast sender is dropped: every Shutdown::recv completes.
ShutDown == main \in {"notified", "waiting", "exited"}

\* The process still runs; a task takes no step once it has ended.
Up == main # "exited"

-----------------------------------------------------------------------------
(* The main task *)

\* The first poll of Runner::run: the channel and the collector.
RunStarts ==
  /\ main = "start"
  /\ main' = "setup"
  /\ collector' = "live"
  /\ statsTx' = {Main}
  /\ UNCHANGED <<config, joined, gens, completeTx, queue, count, summary, totals,
                 logged, made>>

\* The generator that is spawned takes a clone of each sender with it.
Cloned_Dropped(holders, g) == holders
Cloned(holders, g) == holders \cup {g}

\* to_config succeeds, and the generators are spawned one after the other, with
\* no await in between; those that are spawned may run.
RunSpawns(g) ==
  /\ main \in {"setup", "spawning"}
  /\ gens[g] = "unborn" /\ \A h \in 1..(g - 1) : gens[h] # "unborn"
  /\ gens' = [gens EXCEPT ![g] = "building"]
  /\ statsTx' = statsTx \cup {g}
  /\ completeTx' = Cloned(completeTx, g)
  /\ main' = IF g = N THEN "joining" ELSE "spawning"
  /\ UNCHANGED <<config, joined, queue, statsVars, made>>

\* The next handle in the order of the vector is awaited, whichever task ends
\* first.
RunJoins ==
  /\ main = "joining"
  /\ joined < N
  /\ gens[joined + 1] = "over" /\ Gone(joined + 1)
  /\ joined' = joined + 1
  /\ UNCHANGED <<config, main, gens, txVars, queue, statsVars, made>>

NextCrashed_Ignored == FALSE
NextCrashed ==
  joined < N /\ gens[joined + 1] \in Crashed /\ Gone(joined + 1)

\* The future of Runner::run is dropped, with its own sender of statistics.
RunOver ==
  /\ main' = "closing"
  /\ statsTx' = statsTx \ {Main}
  /\ UNCHANGED <<config, joined, gens, completeTx, queue, statsVars, made>>

\* Runner::run returns: to_config failed, a handle gave a JoinError, or all the
\* handles are joined.
RunReturns ==
  /\ \/ main = "setup"
     \/ main = "joining" /\ NextCrashed
     \/ main = "joining" /\ joined = N
  /\ RunOver

\* ctrl-c, or the time limit.
CutShort == main \in {"start", "setup", "joining"} /\ RunOver

\* drop(notify_shutdown)
MainNotifies ==
  /\ main = "closing"
  /\ main' = "notified"
  /\ UNCHANGED <<config, joined, gens, txVars, queue, statsVars, made>>

\* drop(shutdown_complete_tx)
MainDrops ==
  /\ main = "notified"
  /\ main' = "waiting"
  /\ completeTx' = completeTx \ {Main}
  /\ UNCHANGED <<config, joined, gens, statsTx, queue, statsVars, made>>

\* shutdown_complete_rx.recv() returns when no clone of its sender is left.
MainExits ==
  /\ main = "waiting"
  /\ completeTx = {}
  /\ main' = "exited"
  /\ UNCHANGED <<config, joined, gens, txVars, queue, statsVars, made>>

-----------------------------------------------------------------------------
(* A generator *)

Goes(g, from, to) ==
  /\ Up
  /\ gens[g] = from
  /\ gens' = [gens EXCEPT ![g] = to]

Quietly == UNCHANGED <<config, mainVars, txVars, queue, statsVars, made>>

\* Config::rate_limiter, the first call of Generator::run that can fail.
RatePerGen == qps \div N
Limitable == qps = 0 \/ RatePerGen > 0

GenRefused(g) == Goes(g, "building", "refused") /\ ~Limitable /\ Quietly

\* The transport is built, or cannot be, or the source cannot be read.  The
\* generator does not look at the shutdown channel before.
GenBuilt(g) == Goes(g, "building", "running") /\ Limitable /\ Quietly
GenBuildFails(g) == Goes(g, "building", "over") /\ Limitable /\ Quietly

\* The one second timer: from here to the end of the send the generator does
\* not look at the shutdown channel.
GenTimer(g) ==
  Goes(g, "running", "reporting") /\ made[g] < MaxReports /\ Quietly

\* The send of a report waits for a place in the channel.
Sends(g) ==
  /\ Len(queue) < N
  /\ queue' = Append(queue, g)
  /\ made' = [made EXCEPT ![g] = @ + 1]
  /\ UNCHANGED <<config, mainVars, txVars, statsVars>>

GenReports(g) == Goes(g, "reporting", "running") /\ Sends(g)

\* The stop branch: the notice, or the end of the sender or cleanup task.
GenHearsNotice_Never(g) == Goes(g, "running", "draining") /\ FALSE /\ Quietly
GenHearsNotice(g) == Goes(g, "running", "draining") /\ ShutDown /\ Quietly
GenLosesTask(g) == Goes(g, "running", "draining") /\ Quietly

GenDrained(g) == Goes(g, "draining", "final") /\ Quietly
GenFinishes(g) == Goes(g, "final", "over") /\ Sends(g)

\* The end of the stream: the generator returns without a last report.
GenEnds(g) == Goes(g, "running", "over") /\ Quietly

\* A frame too short for its header.
GenPanics(g) == Goes(g, "running", "panicked") /\ Quietly

\* Whatever ended the task, its Generator is dropped, field by field in their
\* order: the sender of statistics before the one of the handshake.
DropsStats(g) ==
  /\ Up /\ gens[g] \in Terminal
  /\ g \in statsTx
  /\ statsTx' = statsTx \ {g}
  /\ UNCHANGED <<config, mainVars, gens, completeTx, queue, statsVars, made>>

DropsComplete(g) ==
  /\ Up /\ gens[g] \in Terminal
  /\ g \in completeTx /\ g \notin statsTx
  /\ completeTx' = completeTx \ {g}
  /\ UNCHANGED <<config, mainVars, gens, statsTx, queue, statsVars, made>>

GenNext(g) ==
  \/ GenRefused(g) \/ GenBuilt(g) \/ GenBuildFails(g)
  \/ GenTimer(g) \/ GenReports(g)
  \/ GenHearsNotice(g) \/ GenLosesTask(g) \/ GenDrained(g) \/ GenFinishes(g)
  \/ GenEnds(g) \/ GenPanics(g) \/ DropsStats(g) \/ DropsComplete(g)

-----------------------------------------------------------------------------
(* The collector *)

\* The batch is complete when N reports were aggregated, whoever sent them.
BatchFull_OffByOne == count + 1 > N
BatchFull == count + 1 = N

\* StatsInterval::reset, at the end of log.
AfterLog_NoReset(sum) == sum
AfterLog(sum) == Nothing

Added(f, h) == [g \in Gens |-> f[g] + h[g]]

CollectorTakes ==
  LET g == Head(queue)
      sum == [summary EXCEPT ![g] = @ + 1]
  IN
  /\ Up /\ collector = "live"
  /\ queue # <<>>
  /\ queue' = Tail(queue)
  /\ IF BatchFull
       THEN /\ totals' = Added(totals, sum)
            /\ summary' = AfterLog(sum)
            /\ count' = 0
            /\ logged' = sum
       ELSE /\ summary' = sum
            /\ count' = count + 1
            /\ UNCHANGED <<totals, logged>>
  /\ UNCHANGED <<config, mainVars, gens, txVars, collector, made>>

\* recv returns None: no sender is left and the channel is empty.  A batch that
\* is not full stays in the summary.
ChannelClosed == statsTx = {}

CollectorEnds ==
  /\ Up /\ collector = "live"
  /\ queue = <<>>
  /\ ChannelClosed
  /\ collector' = "summarised"
  /\ UNCHANGED <<config, mainVars, gens, txVars, queue, count, summary, totals,
                 logged, made>>

-----------------------------------------------------------------------------
Init ==
  /\ qps \in QpsChoices /\ protocol \in Protocols
  /\ main = "start" /\ joined = 0
  /\ gens = [g \in Gens |-> "unborn"]
  /\ statsTx = {} /\ completeTx = {Main}
  /\ queue = <<>>
  /\ collector = "unborn" /\ count = 0
  /\ summary = Nothing /\ totals = Nothing
  /\ made = Nothing /\ logged = Nothing

Next ==
  \/ RunStarts \/ RunJoins \/ RunReturns \/ CutShort
  \/ MainNotifies \/ MainDrops \/ MainExits
  \/ CollectorTakes \/ CollectorEnds
  \/ \E g \in Gens : RunSpawns(g) \/ GenNext(g)

Spec == Init /\ [][Next]_vars

\* A socket is bound at once and a connection is made or given up by the kernel;
\* the handshake of TLS and HTTP/2 (DohSender::new) has no limit to its time.
BuildEnds(g) == protocol # "doh" /\ (GenBuilt(g) \/ GenBuildFails(g))

\* Every task that can go on is eventually scheduled: once it began to spawn,
\* main does not stop before its joins.  A drain ends (Generator!StopsOnNotice);
\* the stop branch of a generator's select is eventually drawn.
Fairness ==
  /\ WF_vars(main = "spawning" /\ \E g \in Gens : RunSpawns(g))
  /\ WF_vars(RunJoins) /\ WF_vars(main = "joining" /\ RunReturns)
  /\ WF_vars(MainNotifies) /\ WF_vars(MainDrops) /\ WF_vars(MainExits)
  /\ WF_vars(CollectorTakes)
  /\ \A g \in Gens :
       /\ WF_vars(GenRefused(g)) /\ WF_vars(BuildEnds(g))
       /\ SF_vars(GenHearsNotice(g))
       /\ WF_vars(GenDrained(g))
       /\ SF_vars(GenReports(g) \/ GenFinishes(g))
       /\ WF_vars(DropsStats(g)) /\ WF_vars(DropsComplete(g))

FairSpec == Spec /\ Fairness

-----------------------------------------------------------------------------
(* Properties *)

\* Every variable has its type; a batch never holds N reports.
TypeOK ==
  /\ qps \in QpsChoices /\ protocol \in Protocols
  /\ main \in {"start", "setup", "spawning", "joining", "closing", "notified",
               "waiting", "exited"}
  /\ joined \in 0..N
  /\ gens \in [Gens -> {"unborn", "building", "running", "reporting",
                        "draining", "final"} \cup Terminal]
  /\ statsTx \subseteq Gens \cup {Main} /\ completeTx \subseteq Gens \cup {Main}
  /\ queue \in Seq(Gens) /\ Len(queue) <= N
  /\ collector \in {"unborn", "live", "summarised"}
  /\ count \in 0..(N - 1)
  /\ summary \in [Gens -> Nat] /\ totals \in [Gens -> Nat]
  /\ made \in [Gens -> Nat] /\ logged \in [Gens -> Nat]

Queued(g) == Cardinality({i \in DOMAIN queue : queue[i] = g})

\* No report is lost or counted twice between a generator and the totals
\* (stats.rs 188-234, 402-418): it is queued, in the current batch, or added.
ReportsConserved ==
  \A g \in Gens : made[g] = Queued(g) + summary[g] + totals[g]

\* The handshake of main.rs 121-131, from the clones it counts to the tasks it
\* is for: however the run was cut short and the generators ended, when the last
\* clone is dropped no generator works any more, and none can still send a
\* report: the collector has nobody to wait for.
NoEarlyExit == main = "exited" => statsTx = {} /\ \A g \in Gens : ~Alive(g)

\* The reports that the totals do not have.
Unlogged == UNION {{g} \X ((totals[g] + 1)..made[g]) : g \in Gens}

\* The summary misses the reports of a batch that never filled, less than one of
\* each generator, and only then: if the generators have sent equally many
\* reports it misses none (stats.rs 411-426).
SummaryComplete ==
  collector = "summarised" =>
    /\ Cardinality(Unlogged) < N
    /\ (\A g, h \in Gens : made[g] = made[h]) => totals = made

\* A generator is in the handshake of its DoH connection, and so deaf.
Handshaking == protocol = "doh" /\ Limitable /\ \E g \in Gens : gens[g] = "building"

\* Shutdown completes, unless a handshake never ends: no generator waits for ever
\* for a place in the channel, and main hears of the end of every one.
Closing == main \in {"closing", "notified", "waiting"}

ShutdownCompletes == Closing ~> main = "exited" \/ []Handshaking

\* A crash of a generator ends the run once those spawned before it have ended
\* (the handles are joined in order), with the same exception.
CrashEndsRun ==
  \A g \in Gens :
    gens[g] \in Crashed /\ (\A h \in 1..(g - 1) : gens[h] \in Terminal)
      ~> main = "exited" \/ []Handshaking

\* Every generator of the run lives as module Lifecycle says, through a full
\* channel, a run cut short and the end of the process: no report or drain is
\* cut off.
Life == INSTANCE Lifecycle WITH Tasks <- Gens, phases <- gens

ImplementsLifecycle == Life!Spec

\* main.rs 122, "all tasks which have `subscribe`d will receive the shutdown
\* signal and can exit".
SignalReachesAll == \A g \in Gens : ShutDown /\ Alive(g) ~> ~Alive(g)

\* README.md 19, "a summary is printed to stdout ... after the run is over".
SummaryPrinted ==
  main = "exited" /\ made # Nothing => collector = "summarised"

\* stats.rs 414, "we've gathered all the generators' stats for this interval":
\* a batch that is logged has one report of each generator.
BatchHasEveryGenerator == logged \in {Nothing, [g \in Gens |-> 1]}

\* config.rs 47, expect("QPS is non-zero"): a limiter can be made from any
\* --qps but zero.
LimiterBuilt == \A g \in Gens : gens[g] # "refused"
=============================================================================
