# A TLA+ model of nailgun

nailgun is a DNS load generator. It sends queries from a pool of 16-bit ids,
matches the replies by id, times queries out, and reports statistics every
second. This directory holds TLA+ modules of its concurrent core, TLC
configurations that check them, and proofs that TLAPS checks.

File names below without a directory are under `src/bin/src/`.

## Inventory

| Part | Source | State | Operations |
| --- | --- | --- | --- |
| Store | store.rs | `ids` (queue of free ids), `in_flight` (id to time sent), behind a mutex; the counters `sent`, `timed_out` (atomics) | `new`, `clear_timeouts`, `AtomicStore::reset`; pop, insert, remove by its users |
| Sender task | sender.rs | the current batch of ids | `Sender::run`: yield, pop a batch, for each id wait for the limiter, insert, send, count |
| Generator task | gen.rs | the select loop, `StatsTracker`, the report timer | a frame, the timer, the stop branch with `wait_in_flight` and the final report |
| Cleanup task | gen.rs 171-187 | none of its own | `clear_timeouts` once per timeout |
| Statistics | stats.rs | `StatsTracker` per generator; `StatsRunner.summary`, `totals`, the batch counter | `update`, `interval`, `reset`; `aggregate`, `log`, `update`, `summary` |
| Main, runner | main.rs | the join position; the shutdown and statistics channels | spawn, join, ctrl-c, time limit, exit |
| Shutdown | shutdown.rs | one flag per receiver | `recv` |
| Configuration | config.rs | constant during a run | `batch_size`, `rate_per_gen`, `rate_limiter` |
| Messages | msg.rs | the bytes not yet decoded | `msg_id`, `rcode`, `TcpDnsCodec::decode` |
| DoH sender | sender.rs 148-205 | two channels, a task per request | `run` |
| Query sources | query.rs | the position in a file | `next_msg` |
| Moving average | util.rs | `val`, `interval` | `next` |
| Arguments, logs | args.rs, logs.rs | none during a run | parsing, set-up |

**Interaction.** `main` runs `Runner::run` in a select with ctrl-c and the time
limit. `Runner::run` spawns the collector and `wcount * tcount` generators and
joins them in order. A generator builds its socket and spawns a sender and a
cleanup task. The three share the store and the counters; the generator hears
of the end of the other two by their handles and of the shutdown by a broadcast
channel. It sends its reports to the collector over a bounded channel. `main`
waits until every clone of one sender is dropped (each generator holds one, and
`main` the first); then it returns and the runtime, with the tasks that are left,
is dropped.

**What is hard.** The life of an id crosses three tasks and several critical
sections, with awaits between; timeouts race replies, and replies may be late,
repeated or unsolicited. Counters are read and reset without a lock. `abort()`
does not wait. Tasks end by errors, panics and the end of a stream, and others
go on without them. The drain must end whatever happened, and a build may never
end. Reports of several generators are batched by number. `hazards` in PROJECT.json lists each of these
at its line, with the properties about it, or the reason why there is none yet.

**What makes each part correct.** Store and sender: no id is lost while there is
a sender, none is in two places, each query is settled once, the store's growth
is bounded.
Statistics: no count is reported twice, and on one thread none is lost.
Generator: after a notice it sends no more, waits until its queries are
settled, and ends. Collector: every report reaches the totals once. Main: it
does not return before the generators are done, and it does return unless the
build of one hangs. Framing: a
message is read once and whole, and a written one can be read. DoH relay: each
message is answered or dropped once, and no task outlives its use. Figures: what
is logged is about the replies it claims, and the rate asked for is not exceeded.

## Modules

* `Generator.tla`: one generator, with its store, counters and three tasks.
* `MCGenerator.tla`: its instances for TLC.
* `Runner.tla`: main task, shutdown, N generators as life cycles, and the
  statistics channel and collector.
* `MCRunner.tla`: its instances for TLC.
* `Ledger.tla`: what a generator promises about its queries, the abstract
  specification that `Generator` implements.
* `Lifecycle.tla`: the phases of a generator task, the abstract specification
  between `Generator`, which implements it, and `Runner`, which relies on it.
* `Framing.tla`, `MCFraming.tla`: the TCP transport, both directions.
* `DohRelay.tla`, `MCDohRelay.tla`: the DoH transport.
* `Measure.tla`, `MCMeasure.tla`: rate limit, figures, totals, moving average.

Theorems, checked by TLAPS:

* `GeneratorProofs.tla`: the store; `GeneratorReportProofs.tla`, which extends
  it: the reports, the abort and the drain; `GeneratorLedgerProofs.tla`, which
  extends that: the refinement of `Ledger` and of the phases of `Lifecycle`.
* `RunnerProofs.tla`, `FramingProofs.tla`, `DohRelayProofs.tla`,
  `MeasureProofs.tla`: one for each of the other modules of the code.
* `DataLemmas.tla`: what several of them need of queues, sums and extremes.

In the modules of the code a definition `D_Word` in front of a definition `D`
is `D` with a plausible bug. The mutants of PROJECT.json put it in the place of
`D`; TLC then has to find the named property violated.

### Generator and the code

A step is what a task does between two points where another task may see or
change something it uses. These points are the awaits, each atomic access, and
the release of the mutex. `LockFree` says that no task holds the mutex; it is
held over several steps by the sender while it pops a batch (one step per
`pop_front`) and by `wait_in_flight` between `clear_timeouts` and its test.
`Runs` gives a task a step only if a worker thread is left. With one worker
(the default of the program) the code between two awaits is atomic for the
other tasks, but not for time, the network and the shutdown notice.

| Code | Model |
| --- | --- |
| `Store.ids`, `Store.in_flight` | `ids`, a sequence; `in_flight`, a function from ids to the age of the query, capped at the timeout |
| `AtomicStore` | `sent`, `timed_out` |
| `StatsTracker` / `StatsInterval` | `ok_recv` / `report` |
| `Sender::run` | `SenderWake`, `SenderPop`, `SenderPopped`, `SenderIssue`, `SenderSend`, `SenderCount`; its ends `SenderDry`, `SenderFail` |
| `cleanup_task` | `CleanupTick`, `CleanupPanics` |
| reader branch | `GenRecv`; `GenRecvStub` and `GenRecvCut`, the two panics on short frames; `GenRecvError`; `GenEnds` |
| timer branch, final report | `GenLog`, `GenLoadTimeouts`, `GenLoadSent`, `GenResetSent`, `GenResetTimeouts`, `GenSend` |
| stop branch | `GenStop` with `AbortSender`; `GenWaitClear`, `GenWaitCheck` |

`abort()` has three outcomes (`AbortSender`): the sender is over already; it is
parked and is cancelled; or it is being polled on another thread, is marked
(`aborting`), and goes on until an await does not complete at once
(`SenderGoes`). `yield_now` never completes at once, the others may. With one
worker the sender is never being polled when `abort()` is called.

A sender that ends drops the rest of its batch (`Dies`): those ids are in no place
of the store any more. `forgotten` keeps them for the properties only. It and
`issued`, `sends`, `late`, `answered`, `expired`, `strays` and `totals` are
history: no guard but a bound reads them.

### Runner and the code

A generator is its life cycle: building, running, reporting, draining, final,
and one of three ends (`over`, `refused` by the limiter's `expect`,
`panicked`). A report is one unit of its generator's work, so the sums of the
collector are functions from generators to numbers, and it is visible whose
report is where. The channel holds N reports and a sender waits for a place. Once
`main` has exited, no task takes a step (`Up`).

| Code | Model |
| --- | --- |
| `stats_tx`, `shutdown_complete_tx` and their clones | `statsTx`, `completeTx`: who holds a clone |
| `Runner::run` | `RunStarts`; `RunSpawns`, one generator at a time, each with its clones (`Cloned`); `RunJoins`; `RunReturns` |
| the select of `main` | `RunReturns`, or `CutShort` by ctrl-c or the time limit; either drops the future of `Runner::run` with its own sender of statistics (`RunOver`) |
| `drop(notify_shutdown)`, `drop(shutdown_complete_tx)`, `recv` | `MainNotifies`, `MainDrops`, `MainExits` |
| `build` | `GenBuilt`, `GenBuildFails`; `GenRefused` |
| the loop of `Generator::run` | `GenTimer`, `GenReports`; `GenHearsNotice`, `GenLosesTask`, `GenDrained`, `GenFinishes`; `GenEnds`, `GenPanics` |
| the drop of a `Generator`, field by field | `DropsStats`, then `DropsComplete` |
| `StatsRunner::run` | `CollectorTakes`, `CollectorEnds` |

`main` does not look at the generators: `MainExits` tests that `completeTx` is
empty, and `CollectorEnds` that `statsTx` is. That no generator works any more when
`main` exits (`NoEarlyExit`) follows from who takes a clone when, and from what a
task still does before it drops its own. A handle is joined when the task has
ended and dropped what it held (`Gone`).

### The abstract specifications

`Ledger` has a set of outstanding ids and sums: issued, handed to the transport,
answered, expired, and what the reports add up to. Its actions are what may
happen to a query. An id is not issued twice at a time, a query ends once, a
report never tells more than what happened. The promise on ids ends with the
first stray reply (`clean`), as it does in the code. `Generator!ImplementsLedger`
maps `outstanding` to the domain of `in_flight`, `clean` to "no stray yet", and
the sums to the history variables; it holds on two threads too, where counts
may be lost.

`Lifecycle` has one variable, the phase of each task, the moves between phases
(`Moves`), and that no task stays for ever in a report or in its drain
(`Progress`). The select loop may last for ever, and so may the build: nothing in
the code ends the handshake of a DoH connection. The progress is a leads-to and not a fairness condition of its actions, because TLC
cannot evaluate the ENABLED of an action whose variable is an expression.
`Generator!ImplementsLifecycle` maps the places of the generator task to phases
(`Phase`), and shows that the drain ends whatever the other tasks do.
`Runner!ImplementsLifecycle` shows that the generators, as `Runner` has them,
live the same life: a full statistics channel and the exit of the process
cut off no report or drain. `Runner` assumes weak fairness of `GenDrained`;
`Generator!ImplementsLifecycle` is what justifies it. The converse assumption is
`Generator`'s: its `GenSend` does not wait for a place in the statistics channel,
and `Runner!ImplementsLifecycle` shows that a generator in `reporting` or `final`
gets one.

### Framing and the code

`MsgSend::send` writes the length as two bytes and then the message; each write
may be taken in parts. `SendCut` is an abort at any await or a failed write:
`SenderGone` says that nothing is written afterwards. The reader is
`TcpDnsCodec::decode` (`FrameReady`, `Decode`) in tokio-util's `FramedRead`
(`Read`, `ReadEof`, `ReadFails`, `DecodeEof`, `ReaderEnds`), which is external:
it calls the decoder until it returns `None`, reads again, turns bytes that
remain at the end into an error, and ends after an error. A byte is a digit
below `Base`, so that with `Base = 2` a message of four bytes is already longer
than its length field can say.

### DohRelay and the code

Two bounded channels, the relay task (`DohSender::run`) and a task per request.
A request is answered, fails, or is never answered. The generator appears as the
owner of the stream of answers: it reads (`GenRecv`), returns at the end of the
stream (`GenEnds`), stops reading in its drain (`GenStops`, `GenDrained`), or
panics. A channel is closed for the receiver when the last clone of its sender
is dropped (`RelayStops`, `AllClosed`), for the senders when the receiver is
(`ReaderGone`).

### Measure and the code

| Code | Model |
| --- | --- |
| governor's `Quota::per_second(rate_per_gen)` | `cells`: `RatePerGen` at the start, one back every 1/n of a second (`Refill`), the rest by the end of the second (`Tick`) |
| `StatsTracker` with its `AtomicStore` | `tracker`, a record of figures; `Updated` |
| `StatsTracker::interval` | `Load`, which takes the counters and the figures into `report`, then `Report`, which resets the counters (`Reset`); what is sent in between is lost |
| the worker threads | `workers`; with one, no other task takes a step between the two (`ThreadFree`) |
| `StatsRunner::run` | the rest of `Report`; the channel is in `Runner` |
| `StatsInterval` | `summary`; `Aggregated`, `AfterLog` |
| `StatsTotals`, `MovingAvg` | `totals`; `TotalsAfter`, `MinAfter`, `NextAvg` |
| `Duration::from_micros(u64::MAX)`, `f32::MAX` | `None`, a latency no reply has |

`StatsInterval::reset` leaves three fields: `duration` and `interval` are
overwritten by the next report, but `elapsed` is added to, so that it grows over
the whole run (`AfterLog`). `StatsTotals::update` adds this sum up once more; nothing
reads the result, and it is left out.

`sends`, `untold`, `carried`, `batch`, `told` and `logged` are history: they keep the
replies themselves (how many of each kind), from which the properties compute what
the figures have to be.

## Runs

| Run | Shows |
| --- | --- |
| `gen_one` | one worker, two pool ids, batch 3, three queries, two frames; timeout 1 over tcp with a limiter, or timeout 0 over udp without: all safety properties of the generator |
| `gen_threads` | two workers, two pool ids and a stranger's, batch 1: safety that does not depend on one thread, and the bound on what an aborted sender may still send, and that the generator implements `Ledger` |
| `gen_live` | liveness: the generator ends after the notice, queries settle, the pool refills; it implements `Lifecycle` |
| `gen_drain` | finding: the drain does not read replies |
| `run_live` | two generators over udp or doh, one interval report each and a last one: conservation of reports, the exit, the summary; the shutdown completes and a crash ends the run, unless a DoH handshake never ends; every generator lives as `Lifecycle` says |
| `framing` | bytes of one bit, two messages each way out of three (empty, short, one that looks like a frame, one too long), every cut: decoding, the end of the stream, what the peer can read, and that whole frames are delivered |
| `doh_relay` | channels of one place, four messages: each message once, the end of the stream, the relay and the request tasks end |
| `measure` | two generators, one or two workers, a rate of two (one for each), two seconds, three queries, two kinds of reply: batch figures, totals, moving average, rate |
| `run_hang` | finding: the shutdown signal does not reach a generator in a DoH handshake |
| `run_summary` | finding: the process may exit before the summary is printed |
| `run_batch` | finding: a logged batch may lack a generator |
| `run_limiter` | finding: a rate below the number of generators panics |

**Bounds.** Three queries and two ids reach what the properties are about: an id
in flight while another is popped, a batch that is cut by an empty pool, an id
that is used again after a timeout or a reply, a second copy of an id in the
pool after a stray reply, and, with batches of three, both copies in one batch,
where the second overwrites the query of the first. Two frames give the late and
the repeated reply.
A timeout of 1 tells a fresh query from an expired one; 0 is the panic. Ages
and the waiting time are capped where the code no longer tells them apart.
`MaxQueries`, `MaxFrames` and `MaxReports` are guards of `SenderIssue`,
`Arrive` and `GenTimer` and bound nothing else. `gen_threads` takes batches of
one and one frame (an answer, a late reply and with it a stray, or the stranger's
id, which the pool never held), to leave room for the interleavings of two
threads; the strays of `gen_one` are repeated ids of the pool. Two generators with
two reports each are the least for which one may fill a batch with the other
missing; the proofs are about any number. Ids are interchangeable: the safety runs use the symmetry of
the pool; the liveness runs use none. `CHECK_DEADLOCK FALSE` is in each
configuration, since a generator and a run do end.

`framing` writes up to two messages each way: a frame that is cut, followed by
another, is what a decoder may get wrong; the kinds of message are listed in
`MCFraming`. `doh_relay` has the smallest channels, so that both are full while
requests wait; four messages are one in each channel and two requests.
`measure` needs two seconds for two batches, of which one may hold two reports
of one generator and one may have no reply, and three queries, one more than the
rate of two, for the rate to be exceeded by a wrong share. Two workers let a query
be sent between the load and the reset of a report. `MaxSends` and
`MaxSeconds` of `Measure` are guards of `Send` and `Tick`; `MaxSends` of
`DohRelay` is one of `Send`, `MaxQueries` and `MaxAnswers` of `Framing` are guards
of `SendBegins` and `PeerWrites`.

**Fairness.** `Generator!Fairness` says that time passes (`Tick`); that a task
that can go on is scheduled again and gets the mutex (strong fairness, as the
mutex and the worker may be taken in between: tokio's run queues and
parking_lot's eventual fairness); and that `select!`, which draws among its
ready branches at random, draws the stop branch and a frame that is there again
and again. Nothing is assumed of the transport, the rate limiter, the network
or the shutdown: a sender may be stuck for ever in an await, a timer may never
fire. `Runner!Fairness` adds that a drain ends, which is `ImplementsLifecycle` of
`Generator`, and that the build of a UDP or TCP transport does (`BuildEnds`): a
socket is bound at once, and the kernel makes or gives up a connection. Of the
build of a DoH transport nothing is assumed: its handshake of TLS and HTTP/2
(sender.rs 172-174) has no time-out. Once it spawns, `Runner::run` goes on to its
joins, as there is no await on the way. Ctrl-c and the time limit may never come.
`Framing!Fairness` is that the generator polls its reader again and again, which
it does until its drain; the property is about that time. `DohRelay!Fairness`
schedules the relay and the request tasks and ends the drain (again
`Generator!ImplementsLifecycle`); a task that waits for a place gets one if
places are free again and again, since tokio's channels serve waiters in order.
Nothing is assumed of the server, of the sender, or of how often the generator
reads.

**Conditions in the properties.** `UniqueIds` is stated while no reply has been a
stray: gen.rs 99 pushes the id of every frame, so after a stray the pool may hold
an id twice, and a query may be overwritten by a second one with its id.
`SettledOnce` says that each stray costs at most one query in this way, and
`IdsConserved` that ids leave the store only with the batch of a sender that ends.
`PoolBound` says what holds with strays.
`ReportsExact`, `ReportAddsUp` and `DrainLeavesExpired` are stated for one
worker. With several, counts may be lost between the loads and the resets of
stats.rs 84-103, and the sender may still insert a query after the drain has
begun; `TotalsNeverOvershoot` and `LateSendsBounded` say what is left. `TotalsExact`
says both: on any number of workers no query is counted twice, and on one each is
counted. What a generator counted since its last report when its stream ends
(gen.rs 93) is in no report, and no property denies it. `ShutdownCompletes` and
`CrashEndsRun` except a run in which from some time on there always is a generator in
the handshake of its DoH connection (`[]Handshaking`). `SummaryComplete` allows the
summary to miss the reports of a batch that never filled, fewer than N.
`QueriesSettle` and `PoolRefills` except a generator whose two tasks that clear
the store are over (`Deserted`): a panic of both, or the end of the generator
after which nobody needs the ids. `PeerReadsMessages` supposes that no message
begun is longer than the length field can say: with a longer one (`randompkt` of
65534 bytes and more) the cast of sender.rs 99 gives a wrong length, and the
stream loses its frames. `RateHeld` allows a second's worth of queries at the start,
which governor's quota gives at once; the program's README lists the doubled
first second among its TODOs. `AvgWithin` bounds the moving average and does not
say it is the mean of all replies: util.rs 23 weights every batch alike.

## Findings

1. gen.rs 132 says the drain waits for the remaining messages. It only waits
   for timeouts: the reader is not polled (`gen_drain`).
2. The README promises a summary after the run. The collector is not joined, so
   the process may exit first (`run_summary`).
3. stats.rs 414 takes a full batch for one report of each generator. It counts
   reports only (`run_batch`).
4. config.rs 47 expects a rate that is not zero, after a division that may give
   zero (`run_limiter`).
5. main.rs 122 says that every subscribed task receives the shutdown signal and
   can exit. A generator in the handshake of its DoH connection does not look at
   it, and the handshake has no time-out: with a server that accepts the connection
   and stays silent, neither a notice nor a crash elsewhere ends the process
   (`run_hang`).

## Proofs

Every invariant of every passing run is a theorem, and so are the refinement of
`Ledger` and the safety part of the refinements of `Lifecycle`. TLC checks them
on the instances above, TLAPS for every value of the constants.

**Assumptions.** Those named in the modules of the code, which TLC evaluates in
every run, and no other: in `Generator` finite, disjoint sets of ids and a batch
of at least one; in `Runner` at least one generator; in `Framing` at least two
values of a byte, and a peer whose messages fit their length field (an RFC 1035
frame cannot say more); in `DohRelay` channels of at least one place; in `Measure`
finitely many generators, a rate of at least one for each, and finitely many
kinds of reply (a latency, a size and a response code of a fixed width each).
The bounds are any natural numbers, so nothing depends on their values.

### Generator: the store (`GeneratorProofs`)

`TypeCorrect` (`TypeOK`), `NoIdLost` (`IdsConserved`), `IdsUnique` (`UniqueIds`),
`EachQuerySettledOnce` (`SettledOnce`), `StoreBounded` (`PoolBound`).

The type invariant needs that a sender at the limiter has a batch that is not
empty (`TypeInv`), else the head of the batch is undefined. The other four share
one argument. The lemma `StoreSteps` shows that each step of `Next` does one of
five things to the store, the batch and the history: pop an id, issue a query,
clear the timeouts, settle a frame, or leave the ids alone; in the second and the
last the sender may end and drop the rest of its batch (`Rests`).
A further invariant, `BatchStarts`, is needed: a sender at its yield has no batch
that the next wake-up would throw away. `NoIdLost` and `IdsUnique` follow step by
step (`Held`, `ConservedStep`, `UniqueStep`). `EachQuerySettledOnce` and
`StoreBounded` count places: a free id, one in a batch or dropped with it, and a
query that is issued and neither answered nor timed out take one each. Only a
stray adds a place (`PlacesInv`), and the ids of the pool, which by `NoIdLost` are
all somewhere, need as many places as there were at the start (`PoolFits`); so no
more queries than strays can have lost theirs.

### Generator: reports, abort, drain (`GeneratorReportProofs`)

* `ReportsNeverOvershoot` (`TotalsNeverOvershoot`) and `ReportsLoseNothing`
  (`ReportsExact`) rest on `ReportInv`: at each place between a load and its reset
  the counter still has what was loaded from it, and on one thread nothing more
  (`ResetPending`); a field of the report is zero until it is loaded
  (`ReportFresh`). That the last report leaves nothing out needs the silence of the
  sender after the abort (`LastReport`, with `Silenced` below).
* `EachReportAddsUp` (`ReportAddsUp`) needs in addition that only one task is
  polled at a time on one thread (`OnePoll`), that the sender has handed over all
  it issued whenever another task runs (`Handed`), and that the store does not
  change while a report is made (`LoadedAlone`).
* `StopSilencesSender` (`LateSendsBounded`): once the generator has stopped, the
  sender is dead, or marked and left with the rest of one batch (`Silenced`),
  which is no longer than `BatchSize` (`BatchBound`).
* `DrainWaitsLongEnough` (`DrainLeavesExpired`): a query in flight is at least as
  old as the wait of the drain is long (`DrainInv`), on one thread.

### Generator: refinements (`GeneratorLedgerProofs`)

`KeepsLedger` (`ImplementsLedger`) shows for each action of the three tasks which
action of `Ledger` it is, or that it is none, under the invariants above:
`UniqueIds` gives the guard of the issue, `ReportInv` that a report tells no more
than what happened. `KeepsPhases` is `Life!Moves`, the safety part of
`ImplementsLifecycle`.

### Runner (`RunnerProofs`)

* `TypeCorrect` (`TypeOK`).
* `ExitsLast` (`NoEarlyExit`) rests on `HeldInv`: no generator was spawned before
  `Runner::run` had its sender, one that lives holds a sender of statistics, and
  whoever holds that one also holds the one of the handshake, which is dropped
  later. So when main has seen the last of the second kind go, there is none of
  the first, and nobody lives. A generator spawned without its clone, or
  one with its fields in the other order, breaks the invariant.
* `NoReportLost` (`ReportsConserved`): the number of places of the channel with a
  report of a given generator grows and shrinks by one with its ends
  (`OccursAppend`, `OccursTail`), which move all other places.
* `SummaryMissesNothing` (`SummaryComplete`) rests on `BatchInv`: the batch holds
  fewer than N reports, and the totals hold a multiple of N. The reports are
  counted as a set of units, one for each report. The collector ends when the channel
  is empty and, by `HeldInv`, nobody can send: the reports it leaves out are those of
  the last batch (`UnloggedCount`). When all generators have sent k reports, totals
  and batch together hold N * k, so the batch holds a multiple of N below N, which
  is none.
* `KeepsPhases`: `Life!Moves` for N generators.

### Framing (`FramingProofs`)

Both directions rest on one relation, `Stream(s, ms, f)`: the bytes s are the
frames of the messages ms, one after the other, then the rest f. It has four
laws: of no messages, of the first message, of a rest that grows, of a rest
that becomes a frame.

* `DecodesInOrder` (`DecodesWhatWasSent`) and `CleanEndMissesNothing`
  (`CleanEndIsWhole`): buffer and wire together, with what a reset has
  dropped, are a stream whose messages are those framed and not yet decoded, and
  whose rest is the frame the peer left unfinished (`Positioned`), and the reader stops only when
  it failed or has nothing left (`ReaderStops`).
* `PeerReadsWhatWasSent` (`PeerReadsMessages`): the bytes written are a stream of
  the messages written whole, and the rest is a beginning of one frame
  (`WriteInv`). `ParseReads` shows that the recursive function `Parse` finds
  exactly the messages of a stream whose rest is not a frame, for every stream.
* `TypeCorrect` (`TypeOK`) needs that a sender in the middle of a frame has begun a
  message (`Started`).

### DohRelay (`DohRelayProofs`)

`TypeCorrect` (`TypeOK`). `MessagesConserved` (`EachMessageOnce`): the six places
of a message (the two channels, the requests that wait or were answered,
delivered, lost) are pairwise disjoint, make up the messages accepted, and the
three that are queues hold none twice (`OnceInv`). The property says the same by
counting, which is shorter to read; each step is shown to preserve the
disjointness, from which the sum follows. `EndSettlesAll` (`EndMeansAllSettled`) rests on the order in
which the ends of the channels close (`EndInv`).

### Measure (`MeasureProofs`)

* `TypeCorrect` (`TypeOK`), through the division of the average.
* `RateNeverExceeded` (`RateHeld`): what a generator has sent, and may still send
  at once, is bounded by its share of each second and what was given back in this
  one (`ShareInv`); the shares add up to no more than the rate.
* `BatchesAddUp` (`BatchFigures`) and `TotalsAddUp` (`TotalsExact`): the figures of
  every tracker, of a report that is being made, of the batch, of the log and of the
  totals are about the replies that the history keeps next to them (`FigureInv`).
  What a report has loaded is still in its counter, with nothing more on one thread
  (`LoadInv`, `OnlyThread`); so a query sent is counted at most once, and exactly
  once on one thread, in the totals, the batch or a tracker (`SentInv`). The time up
  to the last reports is in the summary or in a report (`ElapsedInv`).
* `AverageStaysWithin` (`AvgWithin`): the average lies between the sizes of two
  replies of the totals, and has not begun if there is none (`AvgInv`).

### Induction over data

The provers cannot instantiate a predicate, so the induction theorems of the
library, which have one as a parameter, are of no use to them. `DataLemmas` states
induction over sets instead: a set of naturals with 0 and the successors of its
members is all of them (`NatSetInduction`), and likewise for the subsets of a
finite set (`SubsetInduction`). Both come from the least element of a set
(`WFMin`). With them the sums of the community modules, which are recursive
functions, get their laws (`SumsExist`, that there is such a function; `SumPick`,
`SumRemove`, `SumAdd`, `SumMonotone`), and so does `Parse` of `Framing`
(`ParsedExists`).

### Only model-checked

* The liveness properties, as TLAPS 1.4.5 has no rules for fairness and ENABLED:
  `StopsOnNotice`, `QueriesSettle`, `PoolRefills`, `ShutdownCompletes`,
  `CrashEndsRun`, `WholeFramesDelivered`, `RelayEndsAfterSender`,
  `NoTaskLeftWaiting`, and `Life!Progress` in both `ImplementsLifecycle`.
* The findings, each of which is a counterexample.

## Not modelled

* `recv`, the bytes of queries and the number in flight in `Measure`: they are
  loaded, added up and reset next to `ok_recv` and `recv_buf_size`. The sent average
  size is left out with the bytes of queries (gen.rs 101 notes that it is wrong).
* `duration` and `interval` of a report, which the next report overwrites, and the
  elapsed time of the totals, which nothing reads.
* The average latency, a moving average of `f32` values: the model has integers.
  A latency of zero microseconds, which the least latency of the totals skips.
* Why a build fails, and how long it takes; in `Runner` a build of a DoH transport
  may last for ever and any other ends.
* Memory order: the counters' accesses are `Relaxed`, the model is
  sequentially consistent. The properties about them relate each counter to
  itself only, except on one thread.
* In `Generator`, transports: a send succeeds, fails or hangs; frames arrive whole,
  in any order. `GenEnds` and `GenRecvError` are what a transport may do to the
  reader; `Framing` and `DohRelay` say when it does. UDP datagrams are frames.
* The FIN that the end of the sender task sends on a TCP stream, and what a peer
  makes of it; HTTP/2 and TLS of the DoH stream.
* Contents of queries, arguments, logging, the text of the summary: pure
  functions of a library's types, with no state that a step may disturb.
* Worker threads in `Runner`: its tasks interleave freely.
* A number of generators of zero, which panics when the channel is made.

## Plan

1. (done) `Generator`, its runs, type correctness and the invariants of the
   store; `Runner` and its runs.
2. (done) `Ledger` and `Lifecycle`, and that `Generator` and `Runner` implement
   them.
3. (done) `Framing`.
4. (done) `DohRelay`.
5. (done) `Measure`: the rate limit, the figures, the moving average.
6. (done) Proofs of every safety invariant, of the refinement of `Ledger` and of
   the phases of `Lifecycle`.
7. What the modules rely on each other for, as theorems where it is not
   progress: that the reports `Runner` counts are those `Generator` sends, and
   what `Ledger` promises whoever implements it. Shorter proofs where a lemma
   can be shared.
